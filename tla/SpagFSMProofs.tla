---------------------------- MODULE SpagFSMProofs ----------------------------
(***************************************************************************)
(* Theorems about SpagFSM, for every configuration, callback and bound.    *)
(***************************************************************************)
EXTENDS SpagFSM, TLAPS

(* The loop's operations keep a loop a loop. *)

LEMMA LoopTypes ==
  ASSUME NEW l \in Loops
  PROVE  /\ TimerCancel(l) \in Loops /\ TimerStart(l) \in Loops
         /\ AsyncWaitSignal(l) \in Loops /\ RaiseSignal(l) \in Loops
         /\ Kill(l) \in Loops /\ StopLoop(l) \in Loops
         /\ Expire(l) \in Loops /\ TakeExpired(l) \in Loops
         /\ TakeCanceled(l) \in Loops /\ TakeSignal(l) \in Loops
         /\ CanDeliver(l) => Deliver(l) \in Loops
<1>1. TimerCancel(l) \in Loops /\ TimerStart(l) \in Loops
  BY DEF TimerCancel, TimerStart, Loops
<1>2. AsyncWaitSignal(l) \in Loops
  BY DEF AsyncWaitSignal, Loops
<1>8. RaiseSignal(l) \in Loops
  BY DEF RaiseSignal, Loops
<1>3. Kill(l) \in Loops
  BY DEF Kill, Loops
<1>4. StopLoop(l) \in Loops
  BY DEF StopLoop, Kill, TimerCancel, Loops
<1>5. Expire(l) \in Loops /\ TakeExpired(l) \in Loops
  BY DEF Expire, TakeExpired, Loops
<1>6. TakeCanceled(l) \in Loops /\ TakeSignal(l) \in Loops
  BY DEF TakeCanceled, TakeSignal, Loops
<1>7. CanDeliver(l) => Deliver(l) \in Loops
  <2>1. CanDeliver(l) => l.signalRaised - 1 \in Nat
    BY DEF CanDeliver, Loops
  <2> QED BY <2>1 DEF Deliver, Loops
<1> QED BY <1>1, <1>2, <1>3, <1>4, <1>5, <1>6, <1>7, <1>8

\* What runAction leaves behind on the state it ran for.
LEMMA RunActionEffect ==
  ASSUME NEW st \in States, NEW running \in BOOLEAN, NEW flags \in [InnerEvents -> BOOLEAN],
         NEW l \in Loops, NEW rearm \in BOOLEAN,
         RunAction(st, running, flags, l, rearm)
  PROVE  /\ innerEventFlag' \in [InnerEvents -> BOOLEAN]
         /\ isRunning' \in BOOLEAN /\ (isRunning' => running)
         /\ loop' \in Loops
         /\ status' \in {status, "misuse", "killed"}
         /\ status' = "killed" => status = "killed" \/ ~l.signalSet
         /\ isRunning' /\ Timed(Config, st) => loop'.timerWaits \/ loop'.signalRaised > 0
         /\ isRunning' /\ Config.isPassState[st] => loop'.signalRaised > 0
         /\ isRunning' /\ InnerEventsOf(Config, st) \cap Active(innerEventFlag') # {}
              => loop'.signalRaised > 0
         /\ running /\ ~isRunning' => loop'.stopped
         /\ isRunning' => (loop'.signalSet <=> l.signalSet)
         /\ isRunning' => (loop'.stopped <=> l.stopped)
         /\ l.stopped => loop'.stopped
<1>1. PICK effect \in Callback[st] :
        LET timer  == IF Timed(Config, st) THEN TimerStart(l) ELSE l
            after  == AfterCallback(flags, effect)
            called == IF effect.stop THEN StopLoop(timer) ELSE timer
            runs   == running /\ ~effect.stop
            raise  == RaisesSignal(st, after, runs)
            raised == IF raise THEN TimerCancel(RaiseSignal(called)) ELSE called
        IN /\ innerEventFlag' = after
           /\ isRunning' = runs
           /\ loop' = IF rearm THEN AsyncWaitSignal(raised) ELSE raised
           /\ status' = IF effect.stop /\ ~running THEN "misuse"
                        ELSE IF raise /\ ~called.signalSet THEN "killed" ELSE status
  BY DEF RunAction
<1> DEFINE timer  == IF Timed(Config, st) THEN TimerStart(l) ELSE l
           after  == AfterCallback(flags, effect)
           called == IF effect.stop THEN StopLoop(timer) ELSE timer
           runs   == running /\ ~effect.stop
           raise  == RaisesSignal(st, after, runs)
           raised == IF raise THEN TimerCancel(RaiseSignal(called)) ELSE called
<1>2. effect \in CallbackEffect
  BY <1>1, CallbackAssumption
<1>3. after \in [InnerEvents -> BOOLEAN]
  BY DEF AfterCallback
<1>4. effect.stop \in BOOLEAN /\ runs \in BOOLEAN
  BY <1>2 DEF CallbackEffect
<1>5. timer \in Loops /\ called \in Loops /\ raised \in Loops /\ loop' \in Loops
  <2>1. timer \in Loops
    BY LoopTypes
  <2>2. called \in Loops
    BY <2>1, LoopTypes
  <2>3. RaiseSignal(called) \in Loops
    BY <2>2, LoopTypes
  <2>4. raised \in Loops
    BY <2>2, <2>3, LoopTypes
  <2> QED BY <1>1, <2>1, <2>2, <2>4, LoopTypes
<1>6. Timed(Config, st) => timer.timerWaits
  BY DEF TimerStart, TimerCancel, Loops
<1>7. timer.signalSet = l.signalSet /\ timer.stopped = l.stopped
  BY DEF TimerStart, TimerCancel, Loops
<1>8. IF effect.stop THEN called.stopped ELSE called = timer
  BY <1>5 DEF StopLoop, Kill, TimerCancel, Loops
<1>9. /\ loop'.timerWaits = raised.timerWaits /\ loop'.signalRaised = raised.signalRaised
      /\ loop'.signalSet = raised.signalSet /\ loop'.stopped = raised.stopped
  BY <1>1, <1>5 DEF AsyncWaitSignal, Loops
<1>10. /\ raised.signalSet = called.signalSet /\ raised.stopped = called.stopped
       /\ IF raise THEN raised.signalRaised > 0 ELSE raised = called
  BY <1>5 DEF RaiseSignal, TimerCancel, Loops
<1>11. isRunning' /\ (Config.isPassState[st]
                       \/ InnerEventsOf(Config, st) \cap Active(innerEventFlag') # {}) => raise
  BY <1>1 DEF RaisesSignal
<1>12. isRunning' = runs /\ innerEventFlag' = after
       /\ status' = IF effect.stop /\ ~running THEN "misuse"
                    ELSE IF raise /\ ~called.signalSet THEN "killed" ELSE status
  BY <1>1
<1>13. raise => runs
  BY DEF RaisesSignal
<1> HIDE DEF timer, after, called, raise, raised
<1>14. status' \in {status, "misuse", "killed"}
       /\ (status' = "killed" => status = "killed" \/ ~l.signalSet)
  BY <1>4, <1>7, <1>8, <1>12, <1>13
<1>15. isRunning' /\ Timed(Config, st) => loop'.timerWaits \/ loop'.signalRaised > 0
  BY <1>4, <1>6, <1>8, <1>9, <1>10, <1>12
<1>16. (l.stopped => loop'.stopped) /\ (isRunning' => (loop'.stopped <=> l.stopped))
  BY <1>4, <1>7, <1>8, <1>9, <1>10, <1>12
<1> QED BY <1>3, <1>4, <1>5, <1>7, <1>8, <1>9, <1>10, <1>11, <1>12, <1>14, <1>15, <1>16
-----------------------------------------------------------------------------
(* Type correctness. *)

LEMMA ConfigTypes ==
  ASSUME NEW st \in States
  PROVE  /\ \A ev \in Events : Config.transitionMat[ev][st] \in States
         /\ Config.transitionMat[AatRow][st] \in States
         /\ Config.timerEvent[st].nextState \in States
         /\ \A n \in DOMAIN Config.innerTransList[st] :
              /\ n \in Nat
              /\ Config.innerTransList[st][n].dest \in States
              /\ Config.innerTransList[st][n].event \in InnerEvents
<1>1. Config \in Tables
  BY ConfigAssumption
<1>2. Events \subseteq 0 .. AatRow /\ AatRow \in 0 .. AatRow
  BY EnumSizes DEF Events, AatRow
<1>3. \A row \in 0 .. AatRow : Config.transitionMat[row][st] \in States
  <2>1. Config.transitionMat \in [0 .. AatRow -> [States -> States]]
    BY <1>1 DEF Tables
  <2> QED BY <2>1
<1>4. Config.timerEvent[st].nextState \in States
  BY <1>1 DEF Tables, TimerEvent
<1>5. Config.innerTransList[st] \in Seq(InnerTransition)
  BY <1>1 DEF Tables
<1>6. ASSUME NEW n \in DOMAIN Config.innerTransList[st]
      PROVE  /\ n \in Nat
             /\ Config.innerTransList[st][n].dest \in States
             /\ Config.innerTransList[st][n].event \in InnerEvents
  <2>1. Config.innerTransList[st][n] \in InnerTransition /\ n \in Nat
    BY <1>5
  <2>2. Config.innerTransList[st][n].event \in InnerEventsOf(Config, st)
    BY DEF InnerEventsOf
  <2> QED BY <2>1, <2>2, ConfigAssumption DEF InnerTransition, InnerEventsRegistered, InnerEvents
<1> QED BY <1>2, <1>3, <1>4, <1>6

\* The inner transitions that fire lead to where one of them leads.
LEMMA FireInnerEffect ==
  ASSUME NEW st \in States, NEW flags \in [InnerEvents -> BOOLEAN],
         FireInner(st, Fired(st, flags))
  PROVE  /\ previous' \in States
         /\ \E n \in DOMAIN Config.innerTransList[st] :
              /\ Config.innerTransList[st][n].event \in Active(flags)
              /\ current' = Config.innerTransList[st][n].dest
<1>1. \A n \in Fired(st, flags) : n \in DOMAIN Config.innerTransList[st]
  BY DEF Fired
<1>2. \A n \in Fired(st, flags) : Config.innerTransList[st][n].dest \in States
  BY <1>1, ConfigTypes
<1>3. \A n \in Fired(st, flags) : Config.innerTransList[st][n].event \in Active(flags)
  BY <1>1, ConfigTypes DEF Fired, Active
<1> QED BY <1>1, <1>2, <1>3 DEF FireInner

\* Each handler that switches state does so through runAction.
LEMMA SwitchType ==
  ASSUME TypeOK, NEW st \in States, NEW running \in BOOLEAN,
         NEW flags \in [InnerEvents -> BOOLEAN], NEW l \in Loops, NEW rearm \in BOOLEAN,
         RunAction(st, running, flags, l, rearm),
         current' = st, previous' \in States, starts' \in 0 .. MaxStarts
  PROVE  TypeOK'
<1>1. /\ innerEventFlag' \in [InnerEvents -> BOOLEAN] /\ isRunning' \in BOOLEAN
      /\ loop' \in Loops /\ status' \in {status, "misuse", "killed"}
  BY RunActionEffect
<1>2. status' \in Statuses
  BY <1>1 DEF TypeOK, Statuses
<1> QED BY <1>1, <1>2 DEF TypeOK

LEMMA FailsType ==
  ASSUME TypeOK, NEW failure \in Statuses, Fails(failure)
  PROVE  TypeOK'
BY DEF Fails, fsmVars, TypeOK

LEMMA StartType ==
  ASSUME TypeOK, NEW external \in BOOLEAN, StartOn(external)
  PROVE  TypeOK'
<1>1. CASE Fails("misuse")
  BY <1>1, FailsType DEF Statuses
<1>2. CASE /\ starts < MaxStarts /\ starts' = starts + 1
           /\ RunAction(current, TRUE, innerEventFlag, loop, ~external)
           /\ UNCHANGED <<current, previous>>
  <2>1. starts' \in 0 .. MaxStarts
    BY <1>2, BoundsAssumption DEF TypeOK
  <2>2. (~external) \in BOOLEAN
    OBVIOUS
  <2>3. /\ current \in States /\ innerEventFlag \in [InnerEvents -> BOOLEAN]
        /\ loop \in Loops /\ previous' \in States
    BY <1>2 DEF TypeOK
  <2> QED BY <1>2, <2>1, <2>2, <2>3, SwitchType
<1> QED BY <1>1, <1>2 DEF StartOn

LEMMA UserCallType == ASSUME TypeOK, UserCall PROVE TypeOK'
<1> USE DEF TypeOK
<1>f. "misuse" \in Statuses
  BY DEF Statuses
<1>1. CASE Start
  BY <1>1, BoundsAssumption, StartType DEF Start
<1>2. CASE Stop
  <2>1. CASE Fails("misuse")
    BY <2>1, <1>f, FailsType
  <2>2. CASE ~Fails("misuse")
    BY <1>2, <2>2, LoopTypes DEF Stop
  <2> QED BY <2>1, <2>2
<1>3. ASSUME NEW ev \in Events, ProcessEvent(ev) PROVE TypeOK'
  <2>1. CASE Fails("misuse")
    BY <2>1, <1>f, FailsType
  <2>2. CASE UNCHANGED vars
    BY <2>2 DEF vars
  <2>3. CASE /\ isRunning
             /\ SwitchTo(Config.transitionMat[ev][current], isRunning, innerEventFlag,
                         IF Timed(Config, current) THEN TimerCancel(loop) ELSE loop, FALSE)
             /\ UNCHANGED starts
    <3> DEFINE l == IF Timed(Config, current) THEN TimerCancel(loop) ELSE loop
               st == Config.transitionMat[ev][current]
    <3>1. l \in Loops
      BY LoopTypes
    <3>2. st \in States
      BY ConfigTypes
    <3>3. /\ RunAction(st, isRunning, innerEventFlag, l, FALSE)
          /\ current' = st /\ previous' = current /\ starts' = starts
      BY <2>3 DEF SwitchTo
    <3> HIDE DEF l, st, TypeOK
    <3> QED BY <3>1, <3>2, <3>3, SwitchType DEF TypeOK
  <2> QED BY <1>3, <2>1, <2>2, <2>3 DEF ProcessEvent
<1>4. ASSUME NEW ev \in Events, ActivateInnerEvent(ev) PROVE TypeOK'
  BY <1>4 DEF ActivateInnerEvent
<1>5. ASSUME NEW ev \in Events, ClearInternalEvent(ev) PROVE TypeOK'
  BY <1>5 DEF ClearInternalEvent
<1> QED BY <1>1, <1>2, <1>3, <1>4, <1>5 DEF UserCall

LEMMA LoopStepType == ASSUME TypeOK, LoopStep PROVE TypeOK'
<1> USE DEF TypeOK
<1>f. "misuse" \in Statuses /\ "noTimeOut" \in Statuses
  BY DEF Statuses
<1>t. TakeExpired(loop) \in Loops /\ TakeSignal(loop) \in Loops
  BY LoopTypes
<1>1. CASE ProcessTimeOut
  <2>1. CASE Fails("noTimeOut")
    BY <2>1, <1>f, FailsType
  <2>2. CASE ~Fails("noTimeOut")
    <3> DEFINE st == Config.timerEvent[current].nextState
    <3>1. /\ RunAction(st, isRunning, innerEventFlag, TakeExpired(loop), FALSE)
          /\ current' = st /\ previous' = current /\ starts' = starts
      BY <1>1, <2>2 DEF ProcessTimeOut, SwitchTo
    <3>2. st \in States
      BY ConfigTypes
    <3> HIDE DEF st, TypeOK
    <3> QED BY <3>1, <3>2, <1>t, SwitchType DEF TypeOK
  <2> QED BY <2>1, <2>2
<1>2. CASE TimerCanceled
  BY <1>2, LoopTypes DEF TimerCanceled, fsmVars
<1>3. CASE SignalHandler
  <2>1. CASE Fails("misuse")
    BY <2>1, <1>f, FailsType
  <2>2. CASE /\ SwitchTo(Config.transitionMat[AatRow][current], isRunning, innerEventFlag,
                         TakeSignal(loop), TRUE)
             /\ UNCHANGED starts
    <3> DEFINE st == Config.transitionMat[AatRow][current]
    <3>1. /\ RunAction(st, isRunning, innerEventFlag, TakeSignal(loop), TRUE)
          /\ current' = st /\ previous' = current /\ starts' = starts
      BY <2>2 DEF SwitchTo
    <3>2. st \in States
      BY ConfigTypes
    <3> HIDE DEF st, TypeOK
    <3> QED BY <3>1, <3>2, <1>t, SwitchType DEF TypeOK
  <2>3. CASE /\ FireInner(current, Fired(current, innerEventFlag))
             /\ RunAction(current', isRunning, ConsumeFlags(current, innerEventFlag),
                          TakeSignal(loop), TRUE)
             /\ UNCHANGED starts
    <3>1. previous' \in States /\ current' \in States
      BY <2>3, FireInnerEffect, ConfigTypes
    <3>2. ConsumeFlags(current, innerEventFlag) \in [InnerEvents -> BOOLEAN]
      BY DEF ConsumeFlags
    <3>3. starts' \in 0 .. MaxStarts
      BY <2>3
    <3> HIDE DEF TypeOK
    <3>4. RunAction(current', isRunning, ConsumeFlags(current, innerEventFlag),
                    TakeSignal(loop), TRUE)
      BY <2>3
    <3> QED BY <3>1, <3>2, <3>3, <3>4, <1>t, SwitchType DEF TypeOK
  <2>4. CASE /\ RunAction(current, isRunning, innerEventFlag, TakeSignal(loop), TRUE)
             /\ UNCHANGED <<current, previous, starts>>
    <3> HIDE DEF TypeOK
    <3> QED BY <2>4, <1>t, SwitchType DEF TypeOK
  <2> QED BY <1>3, <2>1, <2>2, <2>3, <2>4 DEF SignalHandler
<1>4. CASE TimerExpires
  BY <1>4, LoopTypes DEF TimerExpires, fsmVars
<1>5. CASE SignalArrives
  BY <1>5, LoopTypes DEF SignalArrives, fsmVars
<1> QED BY <1>1, <1>2, <1>3, <1>4, <1>5 DEF LoopStep

LEMMA TypeStep == ASSUME TypeOK, [Next]_vars PROVE TypeOK'
<1>1. CASE UNCHANGED vars
  BY <1>1 DEF TypeOK, vars
<1> QED BY <1>1, UserCallType, LoopStepType DEF Next

LEMMA TypeInit == ASSUME Init PROVE TypeOK
<1>1. InitialState \in States
  BY EnumSizes DEF InitialState, States
<1>2. NewLoop \in Loops
  BY DEF NewLoop, Loops
<1>3. 0 \in 0 .. MaxStarts
  BY BoundsAssumption
<1>4. innerEventFlag \in [InnerEvents -> BOOLEAN]
  BY DEF Init
<1> QED BY <1>1, <1>2, <1>3, <1>4 DEF Init, TypeOK, Statuses

\* Whatever the configuration, the callbacks and the calls, the FSM's variables and its
\* event loop keep their types: no handler leaves the states of the enumeration.
THEOREM TypeCorrect == Spec => []TypeOK
BY TypeInit, TypeStep, PTL DEF Spec
-----------------------------------------------------------------------------
(* The steps of a running FSM are of four kinds; every invariant below is  *)
(* proved kind by kind. TimersStopped is part of the hypothesis: it is     *)
(* what makes processTimeOut find a running FSM.                           *)

\* The part of NoHandlerAfterStop that is about timers. It is all the other invariants need,
\* and it survives another FSM's signals (TwoFsms), which NoHandlerAfterStop does not.
TimersStopped ==
  Alive /\ ~isRunning => loop.stopped \/ ~(loop.timerWaits \/ loop.timerExpired)

\* runAction ran on a state the FSM stayed on or moved to.
Ran ==
  \E flags \in [InnerEvents -> BOOLEAN], l \in Loops, rearm \in BOOLEAN :
    /\ Alive /\ current' \in States
    /\ RunAction(current', TRUE, flags, l, rearm)
    /\ l.signalSet = loop.signalSet /\ l.stopped = loop.stopped
    /\ \/ ~isRunning /\ starts' = starts + 1 /\ UNCHANGED current
       \/ /\ isRunning /\ UNCHANGED starts
          /\ current' \in {current} \cup Successors(Config, current, Active(innerEventFlag))

\* An assertion failed, or an exception ended the process.
Failed == status' # "alive" /\ status' # "killed" /\ UNCHANGED <<fsmVars, loop, starts>>

Stopped == /\ Alive /\ isRunning /\ ~isRunning' /\ loop'.stopped
           /\ UNCHANGED <<current, innerEventFlag, status, starts>>

\* What the loop has still to run is neither lost nor invented.
Quiet ==
  /\ UNCHANGED <<current, isRunning, status, starts>>
  /\ LateActivation \/ UNCHANGED innerEventFlag
  /\ loop'.signalSet = loop.signalSet
  /\ loop'.stopped = loop.stopped
  /\ SignalPending(loop') <=> SignalPending(loop)
  /\ loop'.timerWaits \/ loop'.timerExpired <=> loop.timerWaits \/ loop.timerExpired

LEMMA QuietLoops ==
  ASSUME NEW l \in Loops
  PROVE  /\ CanExpire(l) =>
              /\ Expire(l).signalSet = l.signalSet /\ Expire(l).stopped = l.stopped
              /\ SignalPending(Expire(l)) <=> SignalPending(l)
              /\ Expire(l).timerExpired /\ l.timerWaits
         /\ CanDeliver(l) =>
              /\ Deliver(l).signalSet = l.signalSet /\ Deliver(l).stopped = l.stopped
              /\ SignalPending(Deliver(l)) /\ SignalPending(l)
              /\ Deliver(l).timerWaits = l.timerWaits
              /\ Deliver(l).timerExpired = l.timerExpired
         /\ TakeCanceled(l).signalSet = l.signalSet /\ TakeCanceled(l).stopped = l.stopped
         /\ SignalPending(TakeCanceled(l)) <=> SignalPending(l)
         /\ TakeCanceled(l).timerWaits = l.timerWaits
         /\ TakeCanceled(l).timerExpired = l.timerExpired
         /\ TakeSignal(l).signalSet = l.signalSet /\ TakeSignal(l).stopped = l.stopped
         /\ TakeExpired(l).signalSet = l.signalSet /\ TakeExpired(l).stopped = l.stopped
         /\ TimerCancel(l).signalSet = l.signalSet /\ TimerCancel(l).stopped = l.stopped
         /\ StopLoop(l).stopped
<1>1. CanExpire(l) =>
        /\ Expire(l).signalSet = l.signalSet /\ Expire(l).stopped = l.stopped
        /\ SignalPending(Expire(l)) <=> SignalPending(l)
        /\ Expire(l).timerExpired /\ l.timerWaits
  BY DEF CanExpire, Expire, SignalPending, Loops
<1>2. CanDeliver(l) =>
        /\ Deliver(l).signalSet = l.signalSet /\ Deliver(l).stopped = l.stopped
        /\ SignalPending(Deliver(l)) /\ SignalPending(l)
        /\ Deliver(l).timerWaits = l.timerWaits
        /\ Deliver(l).timerExpired = l.timerExpired
  BY DEF CanDeliver, Deliver, SignalPending, Loops
<1>3. /\ TakeCanceled(l).signalSet = l.signalSet /\ TakeCanceled(l).stopped = l.stopped
      /\ SignalPending(TakeCanceled(l)) <=> SignalPending(l)
      /\ TakeCanceled(l).timerWaits = l.timerWaits
      /\ TakeCanceled(l).timerExpired = l.timerExpired
  BY DEF TakeCanceled, SignalPending, Loops
<1>4. /\ TakeSignal(l).signalSet = l.signalSet /\ TakeSignal(l).stopped = l.stopped
      /\ TakeExpired(l).signalSet = l.signalSet /\ TakeExpired(l).stopped = l.stopped
      /\ TimerCancel(l).signalSet = l.signalSet /\ TimerCancel(l).stopped = l.stopped
  BY DEF TakeSignal, TakeExpired, TimerCancel, Loops
<1>5. StopLoop(l).stopped
  BY DEF StopLoop, Kill, TimerCancel, Loops
<1> QED BY <1>1, <1>2, <1>3, <1>4, <1>5

LEMMA StartKind ==
  ASSUME TypeOK, NEW external \in BOOLEAN, StartOn(external)
  PROVE  Ran \/ Failed
<1>1. CASE Fails("misuse")
  BY <1>1 DEF Fails, Failed
<1>2. CASE ~Fails("misuse")
  <2>1. (~external) \in BOOLEAN
    OBVIOUS
  <2>2. /\ Alive /\ ~isRunning /\ starts' = starts + 1 /\ UNCHANGED current
        /\ RunAction(current, TRUE, innerEventFlag, loop, ~external)
    BY <1>2 DEF StartOn
  <2> QED BY <2>1, <2>2 DEF Ran, TypeOK
<1> QED BY <1>1, <1>2

LEMMA UserCallKind ==
  ASSUME TypeOK, UserCall
  PROVE  Ran \/ Failed \/ Stopped \/ Quiet
<1> USE DEF TypeOK
<1>1. CASE Start
  BY <1>1, BoundsAssumption, StartKind DEF Start
<1>2. CASE Stop
  <2>1. CASE Fails("misuse")
    BY <2>1 DEF Fails, Failed
  <2>2. CASE ~Fails("misuse")
    BY <1>2, <2>2, QuietLoops DEF Stop, Stopped
  <2> QED BY <2>1, <2>2
<1>3. ASSUME NEW ev \in Events, ProcessEvent(ev) PROVE Ran \/ Failed \/ Quiet
  <2>1. CASE Fails("misuse")
    BY <2>1 DEF Fails, Failed
  <2>2. CASE UNCHANGED vars
    BY <2>2 DEF vars, Quiet
  <2>3. CASE /\ MayCall /\ isRunning /\ ~IsInnerEvent(Config, ev) /\ Handles(Config, ev, current)
             /\ SwitchTo(Config.transitionMat[ev][current], isRunning, innerEventFlag,
                         IF Timed(Config, current) THEN TimerCancel(loop) ELSE loop, FALSE)
             /\ UNCHANGED starts
    <3> DEFINE l == IF Timed(Config, current) THEN TimerCancel(loop) ELSE loop
               st == Config.transitionMat[ev][current]
    <3>1. l \in Loops /\ l.signalSet = loop.signalSet /\ l.stopped = loop.stopped
      BY LoopTypes, QuietLoops
    <3>2. st \in States
      BY ConfigTypes
    <3>3. st \in Successors(Config, current, Active(innerEventFlag))
      BY <2>3 DEF Successors, EventSuccessors, IsInnerEvent
    <3>4. /\ RunAction(st, TRUE, innerEventFlag, l, FALSE)
          /\ current' = st /\ Alive /\ isRunning /\ UNCHANGED starts
      BY <2>3 DEF SwitchTo, MayCall
    <3> HIDE DEF l, st
    <3> QED BY <3>1, <3>2, <3>3, <3>4 DEF Ran
  <2> QED BY <1>3, <2>1, <2>2, <2>3 DEF ProcessEvent
<1>4. ASSUME NEW ev \in Events, ActivateInnerEvent(ev) PROVE Quiet
  BY <1>4 DEF ActivateInnerEvent, Quiet
<1>5. ASSUME NEW ev \in Events, ClearInternalEvent(ev) PROVE Quiet
  BY <1>5 DEF ClearInternalEvent, Quiet
<1> QED BY <1>1, <1>2, <1>3, <1>4, <1>5 DEF UserCall

LEMMA LoopStepKind ==
  ASSUME TypeOK, TimersStopped, LoopStep
  PROVE  Ran \/ Failed \/ Quiet
<1> USE DEF TypeOK
<1>t. TakeExpired(loop) \in Loops /\ TakeSignal(loop) \in Loops
      /\ TakeExpired(loop).signalSet = loop.signalSet
      /\ TakeExpired(loop).stopped = loop.stopped
      /\ TakeSignal(loop).signalSet = loop.signalSet
      /\ TakeSignal(loop).stopped = loop.stopped
  BY LoopTypes, QuietLoops
<1>1. CASE ProcessTimeOut
  <2>1. CASE Fails("noTimeOut")
    BY <2>1 DEF Fails, Failed
  <2>2. CASE ~Fails("noTimeOut")
    <3> DEFINE st == Config.timerEvent[current].nextState
    <3>1. Alive /\ isRunning
      BY <1>1 DEF ProcessTimeOut, TimersStopped, CanRunExpired
    <3>2. /\ RunAction(st, TRUE, innerEventFlag, TakeExpired(loop), FALSE)
          /\ Timed(Config, current)
          /\ current' = st /\ UNCHANGED starts
      BY <1>1, <2>2, <3>1 DEF ProcessTimeOut, SwitchTo
    <3>3. st \in States
      BY ConfigTypes
    <3>4. st \in Successors(Config, current, Active(innerEventFlag))
      BY <3>2 DEF Successors, TimeOutSuccessors
    <3> HIDE DEF st
    <3> QED BY <3>1, <3>2, <3>3, <3>4, <1>t DEF Ran
  <2> QED BY <2>1, <2>2
<1>2. CASE TimerCanceled
  BY <1>2, QuietLoops DEF TimerCanceled, fsmVars, Quiet
<1>3. CASE SignalHandler
  <2>1. CASE Fails("misuse")
    BY <2>1 DEF Fails, Failed
  <2>2. CASE /\ Alive /\ isRunning /\ Config.isPassState[current]
             /\ SwitchTo(Config.transitionMat[AatRow][current], isRunning, innerEventFlag,
                         TakeSignal(loop), TRUE)
             /\ UNCHANGED starts
    <3> DEFINE st == Config.transitionMat[AatRow][current]
    <3>1. /\ RunAction(st, TRUE, innerEventFlag, TakeSignal(loop), TRUE)
          /\ current' = st /\ Alive /\ isRunning /\ UNCHANGED starts
      BY <2>2 DEF SwitchTo
    <3>2. st \in States
      BY ConfigTypes
    <3>3. st \in Successors(Config, current, Active(innerEventFlag))
      BY <2>2 DEF Successors, AatSuccessors
    <3> HIDE DEF st
    <3> QED BY <3>1, <3>2, <3>3, <1>t DEF Ran
  <2>3. CASE /\ Alive /\ isRunning
             /\ FireInner(current, Fired(current, innerEventFlag))
             /\ RunAction(current', isRunning, ConsumeFlags(current, innerEventFlag),
                          TakeSignal(loop), TRUE)
             /\ UNCHANGED starts
    <3>1. current' \in States
      BY <2>3, FireInnerEffect, ConfigTypes
    <3>2. current' \in Successors(Config, current, Active(innerEventFlag))
      BY <2>3, FireInnerEffect DEF Successors, InnerSuccessors
    <3>3. ConsumeFlags(current, innerEventFlag) \in [InnerEvents -> BOOLEAN]
      BY DEF ConsumeFlags
    <3>4. RunAction(current', TRUE, ConsumeFlags(current, innerEventFlag),
                    TakeSignal(loop), TRUE)
      BY <2>3
    <3> QED BY <2>3, <3>1, <3>2, <3>3, <3>4, <1>t DEF Ran
  <2>4. CASE /\ Alive /\ isRunning
             /\ RunAction(current, isRunning, innerEventFlag, TakeSignal(loop), TRUE)
             /\ UNCHANGED <<current, previous, starts>>
    <3>1. RunAction(current', TRUE, innerEventFlag, TakeSignal(loop), TRUE)
      BY <2>4
    <3> QED BY <2>4, <3>1, <1>t DEF Ran
  <2> QED BY <1>3, <2>1, <2>2, <2>3, <2>4 DEF SignalHandler
<1>4. CASE TimerExpires
  BY <1>4, QuietLoops DEF TimerExpires, fsmVars, Quiet
<1>5. CASE SignalArrives
  BY <1>5, QuietLoops DEF SignalArrives, fsmVars, Quiet
<1> QED BY <1>1, <1>2, <1>3, <1>4, <1>5 DEF LoopStep

Kinds == Ran \/ Failed \/ Stopped \/ Quiet

LEMMA StepKind ==
  ASSUME TypeOK, TimersStopped, [Next]_vars
  PROVE  Kinds
<1> USE DEF Kinds
<1>1. CASE UNCHANGED vars
  BY <1>1 DEF vars, Quiet
<1> QED BY <1>1, UserCallKind, LoopStepKind DEF Next

LEMMA RanEffect ==
  ASSUME TypeOK, Ran
  PROVE  /\ innerEventFlag' \in [InnerEvents -> BOOLEAN] /\ isRunning' \in BOOLEAN
         /\ status' = "killed" => ~loop.signalSet
         /\ isRunning' => (loop'.signalSet <=> loop.signalSet)
         /\ isRunning' => (loop'.stopped <=> loop.stopped)
         /\ ~isRunning' => loop'.stopped
         /\ loop.stopped => loop'.stopped
         /\ isRunning' /\ Timed(Config, current') => loop'.timerWaits \/ loop'.signalRaised > 0
         /\ isRunning' /\ Config.isPassState[current'] => loop'.signalRaised > 0
         /\ isRunning' /\ InnerEventsOf(Config, current') \cap Active(innerEventFlag') # {}
              => loop'.signalRaised > 0
<1>1. PICK flags \in [InnerEvents -> BOOLEAN], l \in Loops, rearm \in BOOLEAN :
        /\ current' \in States /\ RunAction(current', TRUE, flags, l, rearm)
        /\ l.signalSet = loop.signalSet /\ l.stopped = loop.stopped /\ status = "alive"
  BY DEF Ran, Alive
<1> DEFINE st == current'
<1>2. st \in States /\ RunAction(st, TRUE, flags, l, rearm)
  BY <1>1
<1> HIDE DEF st
<1>3. /\ innerEventFlag' \in [InnerEvents -> BOOLEAN] /\ isRunning' \in BOOLEAN
      /\ status' = "killed" => status = "killed" \/ ~l.signalSet
      /\ isRunning' => (loop'.signalSet <=> l.signalSet)
      /\ isRunning' => (loop'.stopped <=> l.stopped)
      /\ ~isRunning' => loop'.stopped
      /\ l.stopped => loop'.stopped
      /\ isRunning' /\ Timed(Config, st) => loop'.timerWaits \/ loop'.signalRaised > 0
      /\ isRunning' /\ Config.isPassState[st] => loop'.signalRaised > 0
      /\ isRunning' /\ InnerEventsOf(Config, st) \cap Active(innerEventFlag') # {}
           => loop'.signalRaised > 0
  BY <1>2, RunActionEffect
<1> QED BY <1>1, <1>3 DEF st
-----------------------------------------------------------------------------
(* Nothing the FSM waits for gets lost. *)

LEMMA TimersStoppedStep ==
  ASSUME TypeOK, TimersStopped, Kinds
  PROVE  TimersStopped'
<1>1. CASE Ran
  BY <1>1, RanEffect DEF TimersStopped
<1>2. CASE Failed
  BY <1>2 DEF Failed, TimersStopped, Alive
<1>3. CASE Stopped
  BY <1>3 DEF Stopped, TimersStopped
<1>4. CASE Quiet
  BY <1>4 DEF Quiet, TimersStopped, Alive
<1> QED BY <1>1, <1>2, <1>3, <1>4 DEF Kinds

LEMMA TimersStoppedInit == ASSUME Init PROVE TimersStopped
BY DEF Init, TimersStopped, NewLoop

LEMMA TimersStoppedInvariant == Spec => []TimersStopped
<1>1. TypeOK /\ TimersStopped /\ [Next]_vars => TimersStopped'
  BY StepKind, TimersStoppedStep
<1> QED BY <1>1, TimersStoppedInit, TypeCorrect, PTL DEF Spec

LEMMA HandlersStoppedStep ==
  ASSUME TypeOK, NoHandlerAfterStop, [Next]_vars
  PROVE  NoHandlerAfterStop'
<1>0. TimersStopped
  BY DEF TimersStopped, NoHandlerAfterStop
<1>1. CASE Ran
  BY <1>1, RanEffect DEF NoHandlerAfterStop
<1>2. CASE Failed
  BY <1>2 DEF Failed, NoHandlerAfterStop, Alive
<1>3. CASE Stopped
  BY <1>3 DEF Stopped, NoHandlerAfterStop
<1>4. CASE Quiet
  BY <1>4 DEF Quiet, NoHandlerAfterStop, Alive
<1> QED BY <1>0, <1>1, <1>2, <1>3, <1>4, StepKind DEF Kinds

LEMMA HandlersStoppedInit == ASSUME Init PROVE NoHandlerAfterStop
BY DEF Init, NoHandlerAfterStop, NewLoop, SignalPending

\* Once the FSM has stopped, by stop() or by its callback, no handler finds it stopped:
\* the loop is stopped too, or has nothing to run.
THEOREM HandlersStopped == Spec => []NoHandlerAfterStop
BY HandlersStoppedInit, HandlersStoppedStep, TypeCorrect, PTL DEF Spec

\* What a state waits for: its AAT, its time-out, an inner event.
Waiting == PassStateSignalled /\ TimeoutKept /\ InnerEventSignalled

LEMMA WaitingStep ==
  ASSUME TypeOK, Waiting, Kinds
  PROVE  Waiting'
<1> USE DEF PassStateSignalled, TimeoutKept, InnerEventSignalled, Running
<1>1. CASE Ran
  <2>1. isRunning' /\ Config.isPassState[current'] => SignalPending(loop')
    BY <1>1, RanEffect DEF SignalPending
  <2>2. isRunning' /\ Timed(Config, current') =>
          loop'.timerWaits \/ loop'.timerExpired \/ SignalPending(loop')
    BY <1>1, RanEffect DEF SignalPending
  <2>3. isRunning' /\ InnerEventsOf(Config, current') \cap Active(innerEventFlag') # {}
          => SignalPending(loop')
    BY <1>1, RanEffect DEF SignalPending
  <2> QED BY <2>1, <2>2, <2>3 DEF Waiting
<1>2. CASE Failed
  BY <1>2 DEF Failed, Waiting, Alive
<1>3. CASE Stopped
  BY <1>3 DEF Stopped, Waiting
<1>4. CASE Quiet
  <2>1. PassStateSignalled'
    BY <1>4 DEF Quiet, Waiting, Alive
  <2>2. TimeoutKept'
    BY <1>4 DEF Quiet, Waiting, Alive
  <2>3. InnerEventSignalled'
    BY <1>4 DEF Quiet, Waiting, Alive
  <2> QED BY <2>1, <2>2, <2>3 DEF Waiting
<1> QED BY <1>1, <1>2, <1>3, <1>4 DEF Kinds

LEMMA WaitingInit == ASSUME Init PROVE Waiting
BY DEF Init, Waiting, PassStateSignalled, TimeoutKept, InnerEventSignalled, Running

LEMMA WaitingInvariant == Spec => []Waiting
<1>1. TypeOK /\ TimersStopped /\ Waiting /\ [Next]_vars => Waiting'
  BY StepKind, WaitingStep
<1> QED BY <1>1, WaitingInit, TypeCorrect, TimersStoppedInvariant, PTL DEF Spec

\* A running FSM on a pass-state has the signal that will take its AAT on its way.
THEOREM PassStatesSignalled == Spec => []PassStateSignalled
<1>1. Waiting => PassStateSignalled
  BY DEF Waiting
<1> QED BY <1>1, WaitingInvariant, PTL

\* What stop() and start() have to do with the loop: it is not stopped while an FSM that was
\* started once runs, and stays so for good after the first stop().
StoppedForGood ==
  /\ starts = 0 => ~isRunning /\ ~loop.stopped
  /\ starts <= 1 /\ isRunning => ~loop.stopped
  /\ starts > 0 /\ Alive /\ ~isRunning => loop.stopped
  /\ starts > 1 => loop.stopped

LEMMA StoppedStep ==
  ASSUME TypeOK, StoppedForGood, Kinds
  PROVE  StoppedForGood'
<1>0. starts \in Nat
  BY BoundsAssumption DEF TypeOK
<1>1. CASE Ran
  <2>1. /\ isRunning' => (loop'.stopped <=> loop.stopped)
        /\ ~isRunning' => loop'.stopped
        /\ loop.stopped => loop'.stopped
    BY <1>1, RanEffect
  <2>2. CASE ~isRunning /\ starts' = starts + 1
    <3>1. starts' > 0 /\ starts' # 0 /\ Alive
      BY <1>0, <1>1, <2>2 DEF Ran
    <3>2. starts' > 1 => starts > 0
      BY <1>0, <2>2
    <3>3. starts' <= 1 => starts = 0
      BY <1>0, <2>2
    <3> QED BY <2>1, <2>2, <3>1, <3>2, <3>3 DEF StoppedForGood
  <2>3. CASE isRunning /\ UNCHANGED starts
    BY <2>1, <2>3 DEF StoppedForGood
  <2> QED BY <1>1, <2>2, <2>3 DEF Ran
<1>2. CASE Failed
  BY <1>2 DEF Failed, fsmVars, StoppedForGood, Alive
<1>3. CASE Stopped
  BY <1>0, <1>3 DEF Stopped, StoppedForGood
<1>4. CASE Quiet
  BY <1>4 DEF Quiet, StoppedForGood, Alive
<1> QED BY <1>1, <1>2, <1>3, <1>4 DEF Kinds

LEMMA StoppedInit == ASSUME Init PROVE StoppedForGood
BY DEF Init, StoppedForGood, NewLoop

LEMMA StoppedInvariant == Spec => []StoppedForGood
<1>1. TypeOK /\ TimersStopped /\ StoppedForGood /\ [Next]_vars => StoppedForGood'
  BY StepKind, StoppedStep
<1> QED BY <1>1, StoppedInit, TypeCorrect, TimersStoppedInvariant, PTL DEF Spec

\* A running FSM on a state with a time-out has a timer, or the signal it was canceled for,
\* and, started for the first time, a loop that serves them.
THEOREM TimeoutsNotLost == Spec => []TimeoutNotLost
<1>1. Waiting /\ StoppedForGood => TimeoutNotLost
  BY DEF Waiting, TimeoutKept, TimeoutNotLost, StoppedForGood, Running
<1> QED BY <1>1, WaitingInvariant, StoppedInvariant, PTL

\* On a stopped loop no handler runs: what moves the FSM is an event it handles.
LEMMA StoppedMoves ==
  ASSUME loop.stopped, [Next]_vars, current' # current
  PROVE  \E ev \in Events : /\ ~IsInnerEvent(Config, ev) /\ Handles(Config, ev, current)
                            /\ current' = Config.transitionMat[ev][current]
<1>1. ~LoopStep
  BY DEF LoopStep, ProcessTimeOut, CanRunExpired, TimerCanceled, CanRunCanceled, SignalHandler,
         CanRunSignal, TimerExpires, CanExpire, SignalArrives, CanDeliver
<1>2. UserCall
  BY <1>1 DEF Next, vars
<1> QED BY <1>2 DEF UserCall, Start, StartOn, Stop, ProcessEvent, SwitchTo, ActivateInnerEvent,
                    ClearInternalEvent, Fails, fsmVars, vars

\* A second start() finds the loop stopped, and leaves it so: only events move the FSM.
THEOREM SecondStart == Spec => RestartedMovesByEvents
<1>1. StoppedForGood /\ [Next]_vars =>
        (starts > 1 /\ current' # current =>
           \E ev \in Events : /\ ~IsInnerEvent(Config, ev) /\ Handles(Config, ev, current)
                              /\ current' = Config.transitionMat[ev][current])
  BY StoppedMoves DEF StoppedForGood
<1> QED BY <1>1, StoppedInvariant, PTL DEF Spec, RestartedMovesByEvents

\* An active inner event the current state can use has its signal on its way, as long as
\* inner events are activated by callbacks only.
THEOREM InnerEventsSignalled == Spec => []InnerEventSignalled
<1>1. Waiting => InnerEventSignalled
  BY DEF Waiting
<1> QED BY <1>1, WaitingInvariant, PTL
-----------------------------------------------------------------------------
(* The process survives its own signals. *)

\* What keeps it so: the signal_set handles SIGUSR1 until the first stop().
SignalHandled ==
  starts <= 1 => /\ status # "killed"
                 /\ isRunning \/ starts = 0 => loop.signalSet
                 /\ starts = 0 => ~isRunning

\* SIGUSR1 is only raised while it is handled: an FSM that is started once is never killed
\* by a signal of its own, even if a callback stops it.
THEOREM KillsNobody == Spec => []NeverKilled
<1>1. Init => SignalHandled
  BY DEF Init, SignalHandled, NewLoop
<1>2. TypeOK /\ TimersStopped /\ SignalHandled /\ [Next]_vars => SignalHandled'
  <2> SUFFICES ASSUME TypeOK, TimersStopped, SignalHandled, [Next]_vars
               PROVE  SignalHandled'
    OBVIOUS
  <2>0. starts \in Nat
    BY BoundsAssumption DEF TypeOK
  <2>1. CASE Ran
    <3>1. /\ status' = "killed" => ~loop.signalSet
          /\ isRunning' => (loop'.signalSet <=> loop.signalSet)
      BY <2>1, RanEffect
    <3>2. starts' <= 1 => loop.signalSet /\ starts' # 0
      BY <2>0, <2>1 DEF Ran, SignalHandled
    <3> QED BY <3>1, <3>2 DEF SignalHandled
  <2>2. CASE Failed
    BY <2>2 DEF Failed, fsmVars, SignalHandled
  <2>3. CASE Stopped
    BY <2>3 DEF Stopped, SignalHandled
  <2>4. CASE Quiet
    BY <2>4 DEF Quiet, SignalHandled
  <2> QED BY <2>1, <2>2, <2>3, <2>4, StepKind DEF Kinds
<1>3. SignalHandled => NeverKilled
  BY DEF SignalHandled, NeverKilled
<1> QED BY <1>1, <1>2, <1>3, TypeCorrect, TimersStoppedInvariant, PTL DEF Spec
-----------------------------------------------------------------------------
(* The configured graph. *)

\* A step of the detailed FSM is one of the abstract FSM, or a stutter of it.
LEMMA GraphStep ==
  ASSUME TypeOK, TypeOK', Kinds
  PROVE  Graph!Next
<1>0. /\ Running' \in BOOLEAN /\ Active(innerEventFlag)' \in SUBSET Config.innerEvents
      /\ \A st, active : Graph!Successors(Config, st, active) = Successors(Config, st, active)
  <2>1. Running' \in BOOLEAN /\ Active(innerEventFlag)' \in SUBSET Config.innerEvents
    BY DEF TypeOK, Running, Alive, Active, InnerEvents
  <2>2. \A st, active : Graph!Successors(Config, st, active) = Successors(Config, st, active)
    BY DEF Graph!Successors, Successors, Graph!EventSuccessors, EventSuccessors,
           Graph!TimeOutSuccessors, TimeOutSuccessors, Graph!AatSuccessors, AatSuccessors,
           Graph!InnerSuccessors, InnerSuccessors, Graph!Events, Events, Graph!Handles, Handles,
           Graph!Timed, Timed, Graph!AatRow, AatRow
  <2> QED BY <2>1, <2>2
<1>1. CASE Ran
  <2>1. CASE ~isRunning
    BY <1>0, <1>1, <2>1 DEF Ran, Running, Graph!Next, Graph!Launch
  <2>2. CASE isRunning /\ current' \in Successors(Config, current, Active(innerEventFlag))
    BY <1>0, <1>1, <2>2 DEF Ran, Running, Graph!Next, Graph!Move
  <2>3. CASE isRunning /\ current' = current
    <3>1. Running
      BY <1>1, <2>3 DEF Ran, Running
    <3> QED BY <1>0, <2>3, <3>1 DEF Graph!Next, Graph!Stay
  <2> QED BY <1>1, <2>1, <2>2, <2>3 DEF Ran
<1>2. CASE Failed
  <2>1. Running' = FALSE
    BY <1>2 DEF Failed, Running, Alive
  <2> QED BY <1>0, <1>2, <2>1 DEF Failed, fsmVars, Graph!Next, Graph!Stay
<1>3. CASE Stopped
  <2>1. Running' = FALSE
    BY <1>3 DEF Stopped, Running
  <2> QED BY <1>0, <1>3, <2>1 DEF Stopped, Graph!Next, Graph!Stay
<1>4. CASE Quiet
  <2>1. Running' = Running
    BY <1>4 DEF Quiet, Running, Alive
  <2> QED BY <1>0, <1>4, <2>1 DEF Quiet, Graph!Next, Graph!Stay
<1> QED BY <1>1, <1>2, <1>3, <1>4 DEF Kinds

LEMMA GraphInit == ASSUME Init PROVE Graph!Init
BY DEF Init, Graph!Init, Graph!InitialState, InitialState, Running, Active

\* The detailed FSM implements the abstract one: whatever the order of time-outs, signals
\* and calls, it moves along one configured transition at a time, and only while it runs.
THEOREM Implementation == Spec => ImplementsGraph
<1>1. TypeOK /\ TimersStopped /\ TypeOK' /\ [Next]_vars => Graph!Next
  BY StepKind, GraphStep
<1> QED BY <1>1, GraphInit, TypeCorrect, TimersStoppedInvariant, PTL
        DEF Spec, ImplementsGraph, Graph!Spec, Graph!graphVars

\* A state that some transition leads to, from another state, is not called unreachable.
LEMMA SuccessorsReachable ==
  ASSUME NEW st \in States, NEW active, NEW next \in Successors(Config, st, active),
         next # st
  PROVE  IsReachable(Config, next)
<1>1. CASE \E ev \in Events : Handles(Config, ev, st) /\ next = Config.transitionMat[ev][st]
  BY <1>1 DEF IsReachable, Handles
<1>2. CASE Timed(Config, st) /\ next = Config.timerEvent[st].nextState
  BY <1>2 DEF IsReachable
<1>3. CASE Config.isPassState[st] /\ next = Config.transitionMat[AatRow][st]
  BY <1>3 DEF IsReachable
<1>4. CASE \E n \in DOMAIN Config.innerTransList[st] : next = Config.innerTransList[st][n].dest
  BY <1>4 DEF IsReachable
<1> QED BY <1>1, <1>2, <1>3, <1>4
        DEF Successors, EventSuccessors, TimeOutSuccessors, AatSuccessors, InnerSuccessors

\* The warning of doChecking is right: no run of the FSM enters a state it calls
\* unreachable.
THEOREM UnreachableStates == Spec => []UnreachableNeverEntered
<1>1. Init => UnreachableNeverEntered
  BY DEF Init, UnreachableNeverEntered, Unreachable
<1>2. TypeOK /\ TimersStopped /\ UnreachableNeverEntered /\ [Next]_vars
        => UnreachableNeverEntered'
  <2> SUFFICES ASSUME TypeOK, TimersStopped, UnreachableNeverEntered, [Next]_vars
               PROVE  current' \notin Unreachable(Config)
    BY DEF UnreachableNeverEntered
  <2>1. CASE UNCHANGED current
    BY <2>1 DEF UnreachableNeverEntered
  <2>2. CASE current' \in Successors(Config, current, Active(innerEventFlag))
    BY <2>1, <2>2, SuccessorsReachable DEF TypeOK, Unreachable
  <2> QED BY <2>1, <2>2, StepKind DEF Kinds, Ran, Failed, fsmVars, Stopped, Quiet
<1> QED BY <1>1, <1>2, TypeCorrect, TimersStoppedInvariant, PTL DEF Spec

\* If the matrices agree with the lists of inner transitions, no step leaves a state that
\* doChecking calls a dead-end.
THEOREM DeadEndStates ==
  ASSUME InnerTransitionsShown(Config)
  PROVE  Spec => DeadEndNeverLeft
<1>1. ASSUME NEW st \in DeadEnds(Config), NEW active,
             NEW next \in Successors(Config, st, active)
      PROVE  next = st
  <2>1. /\ st \in States /\ ~Timed(Config, st) /\ ~Config.isPassState[st]
        /\ \A ev \in Events :
             Config.transitionMat[ev][st] = st \/ Config.allowedMat[ev][st] = 0
    BY <1>1 DEF DeadEnds, HasExit
  <2>2. CASE \E ev \in Events : Handles(Config, ev, st) /\ next = Config.transitionMat[ev][st]
    BY <2>1, <2>2 DEF Handles
  <2>3. CASE \E n \in DOMAIN Config.innerTransList[st] :
               next = Config.innerTransList[st][n].dest
    <3>1. PICK n \in DOMAIN Config.innerTransList[st] :
            next = Config.innerTransList[st][n].dest
      BY <2>3
    <3> DEFINE ev == Config.innerTransList[st][n].event
    <3>2. ev \in Events
      <4>1. Config.innerEvents \subseteq Events
        BY ConfigAssumption DEF Tables
      <4> QED BY <2>1, <3>1, <4>1, ConfigTypes DEF InnerEvents
    <3>3. Config.allowedMat[ev][st] # 0 /\ Config.transitionMat[ev][st] = next
      BY <2>1, <3>1 DEF InnerTransitionsShown
    <3> QED BY <2>1, <3>2, <3>3
  <2> QED BY <2>1, <2>2, <2>3
          DEF Successors, EventSuccessors, TimeOutSuccessors, AatSuccessors, InnerSuccessors
<1>2. TypeOK /\ TimersStopped /\ [Next]_vars
        => ((current \in DeadEnds(Config)) => UNCHANGED current)
  BY <1>1, StepKind DEF Kinds, Ran, Failed, fsmVars, Stopped, Quiet
<1> QED BY <1>2, TypeCorrect, TimersStoppedInvariant, PTL DEF Spec, DeadEndNeverLeft

\* A state with several inner transitions is what breaks previousState() (see the run
\* two_inner); with one at most, it is right whatever happens.
THEOREM PreviousState ==
  ASSUME \A st \in States : Len(Config.innerTransList[st]) <= 1
  PROVE  Spec => PreviousIsPredecessor
<1>1. ASSUME TypeOK, FireInner(current, Fired(current, innerEventFlag))
      PROVE  previous' = current
  <2>1. current \in States
    BY <1>1 DEF TypeOK
  <2>2. \A n, m \in DOMAIN Config.innerTransList[current] : n = m
    <3>1. Config.innerTransList[current] \in Seq(InnerTransition)
      BY <2>1, ConfigAssumption DEF Tables
    <3>2. Len(Config.innerTransList[current]) <= 1
      BY <2>1
    <3> QED BY <3>1, <3>2
  <2>3. \A n, m \in Fired(current, innerEventFlag) : n = m
    BY <2>2 DEF Fired
  <2> QED BY <1>1, <2>3 DEF FireInner
<1>2. TypeOK /\ [Next]_vars => ((current' # current) => (previous' = current))
  <2> SUFFICES ASSUME TypeOK, [Next]_vars, current' # current PROVE previous' = current
    OBVIOUS
  <2>1. CASE UNCHANGED vars
    BY <2>1 DEF vars
  <2>2. CASE UserCall
    BY <2>2 DEF UserCall, Start, StartOn, Stop, ProcessEvent, ActivateInnerEvent, ClearInternalEvent,
                Fails, fsmVars, vars, SwitchTo
  <2>3. CASE LoopStep
    BY <1>1, <2>3 DEF LoopStep, ProcessTimeOut, TimerCanceled, SignalHandler, TimerExpires,
                      SignalArrives, Fails, fsmVars, SwitchTo
  <2> QED BY <2>1, <2>2, <2>3 DEF Next
<1> QED BY <1>2, TypeCorrect, PTL DEF Spec, PreviousIsPredecessor
-----------------------------------------------------------------------------
(* An FSM among others: what a step of another FSM of the process does to  *)
(* it. TwoFsmsProofs takes the lemmas below for each of its two FSMs.      *)

\* The loop may be stopped, and hear of one more signal; the process may end.
Foreign ==
  /\ Alive /\ status' \in Statuses
  /\ UNCHANGED <<current, previous, isRunning, innerEventFlag, starts>>
  /\ loop' \in Loops /\ loop'.signalRaised >= loop.signalRaised
  /\ loop.stopped => loop'.stopped
  /\ \A field \in {"timerWaits", "timerExpired", "signalReady"} : loop'[field] = loop[field]

\* What such an FSM keeps true. Its NoHandlerAfterStop does not hold: a loop that has not
\* been started counts the signals it hears of.
AmongOthers == TypeOK /\ TimersStopped /\ Waiting

LEMMA AmongOthersInit == ASSUME Init PROVE AmongOthers
BY TypeInit, TimersStoppedInit, WaitingInit DEF AmongOthers

LEMMA OwnStep ==
  ASSUME AmongOthers, [Next]_vars \/ \E external \in BOOLEAN : StartOn(external)
  PROVE  AmongOthers' /\ Graph!Next
<1>1. TypeOK' /\ Kinds
  BY TypeStep, StartType, StepKind, StartKind DEF AmongOthers, Kinds
<1> QED BY <1>1, TimersStoppedStep, WaitingStep, GraphStep DEF AmongOthers

LEMMA ForeignStep ==
  ASSUME AmongOthers, Foreign
  PROVE  AmongOthers' /\ Graph!Next
<1>1. TypeOK'
  BY DEF AmongOthers, TypeOK, Foreign
<1>2. /\ loop'.timerWaits = loop.timerWaits /\ loop'.timerExpired = loop.timerExpired
      /\ SignalPending(loop) => SignalPending(loop')
  <2>1. loop.signalRaised \in Nat /\ loop'.signalRaised \in Nat
    BY DEF Foreign, AmongOthers, TypeOK, Loops
  <2> QED BY <2>1 DEF Foreign, SignalPending
<1>3. TimersStopped'
  BY <1>2 DEF AmongOthers, TimersStopped, Foreign, Alive
<1>4. Waiting'
  BY <1>2 DEF AmongOthers, Waiting, PassStateSignalled, TimeoutKept, InnerEventSignalled,
              Running, Foreign, Alive
<1>5. Graph!Next
  <2>1. Running' \in {Running, FALSE}
    BY DEF Running, Foreign, Alive
  <2>2. Active(innerEventFlag)' \in SUBSET Config.innerEvents
    BY DEF Active, InnerEvents
  <2> QED BY <2>1, <2>2 DEF Graph!Next, Graph!Stay, Foreign
<1> QED BY <1>1, <1>3, <1>4, <1>5 DEF AmongOthers
=============================================================================
