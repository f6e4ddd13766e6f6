---------------------------- MODULE TwoFsmsProofs ----------------------------
(***************************************************************************)
(* Theorems about TwoFsms, for every pair of configurations: what          *)
(* SpagFSMProofs shows of an FSM among others (OwnStep, ForeignStep) holds *)
(* for each of the two, and Hears is such a foreign step.                  *)
(***************************************************************************)
EXTENDS TwoFsms, TLAPS

PA == INSTANCE SpagFSMProofs WITH
        Config <- ConfigA, Callback <- CallbackA, ExternalLoop <- TRUE,
        LateActivation <- FALSE, MaxStarts <- 1,
        current <- currentA, previous <- previousA, isRunning <- isRunningA,
        innerEventFlag <- innerEventFlagA, loop <- loopA, starts <- startsA
PB == INSTANCE SpagFSMProofs WITH
        Config <- ConfigB, Callback <- CallbackB, ExternalLoop <- TRUE,
        LateActivation <- FALSE, MaxStarts <- 1,
        current <- currentB, previous <- previousB, isRunning <- isRunningB,
        innerEventFlag <- innerEventFlagB, loop <- loopB, starts <- startsB
-----------------------------------------------------------------------------
(* A and PA are the same FSM, and so are B and PB: PA!Op and A!Op have the *)
(* same definition. The lemmas of SpagFSMProofs speak of PA and PB.        *)

\* The constants are those SpagFSM asks for.
LEMMA AssumptionsA ==
  /\ NbStates \in Nat /\ NbStates > 1 /\ NbEvents \in Nat
  /\ ConfigA \in PA!Tables /\ PA!InnerEventsRegistered(ConfigA)
  /\ CallbackA \in [PA!States -> SUBSET PA!CallbackEffect]
  /\ \A st \in PA!States : CallbackA[st] # {}
  /\ TRUE \in BOOLEAN /\ FALSE \in BOOLEAN /\ 1 \in Nat /\ MaxBacklog \in Nat
BY EnumSizes, FsmsAssumption, BacklogAssumption
   DEF Tables, PA!Tables, TimerEvent, PA!TimerEvent, InnerTransition, PA!InnerTransition,
       States, PA!States, Events, PA!Events, AatRow, PA!AatRow, InnerEventsRegistered,
       PA!InnerEventsRegistered, InnerEventsOf, PA!InnerEventsOf, A!InnerEvents,
       PA!InnerEvents, A!CallbackEffect, PA!CallbackEffect

LEMMA SameStepsA ==
  /\ \A external \in BOOLEAN : A!StartOn(external) <=> PA!StartOn(external)
  /\ A!Stop <=> PA!Stop
  /\ \A ev \in Events : A!ProcessEvent(ev) <=> PA!ProcessEvent(ev)
  /\ A!LoopStep <=> PA!LoopStep
BY DEF A!StartOn, PA!StartOn, A!Stop, PA!Stop, A!ProcessEvent, PA!ProcessEvent, A!LoopStep,
       PA!LoopStep, A!MayCall, PA!MayCall, A!RunAction, PA!RunAction, A!Fails, PA!Fails,
       A!StopLoop, PA!StopLoop, A!IsInnerEvent, PA!IsInnerEvent, A!Handles, PA!Handles,
       A!SwitchTo, PA!SwitchTo, A!Timed, PA!Timed, A!TimerCancel, PA!TimerCancel, A!vars,
       PA!vars, A!ProcessTimeOut, PA!ProcessTimeOut, A!TimerCanceled, PA!TimerCanceled,
       A!SignalHandler, PA!SignalHandler, A!TimerExpires, PA!TimerExpires, A!SignalArrives,
       PA!SignalArrives, A!Alive, PA!Alive, A!TimerStart, PA!TimerStart, A!AfterCallback,
       PA!AfterCallback, A!RaisesSignal, PA!RaisesSignal, A!RaiseSignal, PA!RaiseSignal,
       A!AsyncWaitSignal, PA!AsyncWaitSignal, A!fsmVars, PA!fsmVars, A!Kill, PA!Kill,
       A!CanRunExpired, PA!CanRunExpired, A!TakeExpired, PA!TakeExpired, A!CanRunCanceled,
       PA!CanRunCanceled, A!TakeCanceled, PA!TakeCanceled, A!CanRunSignal, PA!CanRunSignal,
       A!AatRow, PA!AatRow, A!TakeSignal, PA!TakeSignal, A!Fired, PA!Fired, A!FireInner,
       PA!FireInner, A!ConsumeFlags, PA!ConsumeFlags, A!CanExpire, PA!CanExpire, A!Expire,
       PA!Expire, A!CanDeliver, PA!CanDeliver, A!Deliver, PA!Deliver, A!InnerEvents,
       PA!InnerEvents, A!InnerEventsOf, PA!InnerEventsOf, A!Active, PA!Active, A!IsLast,
       PA!IsLast

LEMMA SameInitA == A!Init <=> PA!Init
BY DEF A!Init, PA!Init, A!InitialState, PA!InitialState, A!InnerEvents, PA!InnerEvents,
       A!NewLoop, PA!NewLoop

LEMMA SameInvariantsA ==
  /\ A!PassStateSignalled <=> PA!PassStateSignalled
  /\ A!TimeoutKept <=> PA!TimeoutKept
BY DEF A!PassStateSignalled, PA!PassStateSignalled, A!TimeoutKept, PA!TimeoutKept,
       A!Running, PA!Running, A!SignalPending, PA!SignalPending, A!Timed, PA!Timed, A!Alive,
       PA!Alive

LEMMA SameGraphA ==
  /\ A!Graph!Init <=> PA!Graph!Init
  /\ A!Graph!Next <=> PA!Graph!Next
BY DEF A!Graph!Next, PA!Graph!Next, A!Graph!Launch, PA!Graph!Launch, A!Graph!Move,
       PA!Graph!Move, A!Graph!Stay, PA!Graph!Stay, A!Graph!Init, PA!Graph!Init,
       A!Graph!InitialState, PA!Graph!InitialState, A!Graph!Successors, PA!Graph!Successors,
       A!Graph!EventSuccessors, PA!Graph!EventSuccessors, A!Graph!TimeOutSuccessors,
       PA!Graph!TimeOutSuccessors, A!Graph!AatSuccessors, PA!Graph!AatSuccessors,
       A!Graph!InnerSuccessors, PA!Graph!InnerSuccessors,
       A!Graph!Events, PA!Graph!Events, A!Graph!Handles, PA!Graph!Handles, A!Graph!Timed,
       PA!Graph!Timed, A!Graph!AatRow, PA!Graph!AatRow, A!Running, PA!Running, A!Alive,
       PA!Alive, A!Active, PA!Active, A!InnerEvents, PA!InnerEvents

\* The constants are those SpagFSM asks for.
LEMMA AssumptionsB ==
  /\ NbStates \in Nat /\ NbStates > 1 /\ NbEvents \in Nat
  /\ ConfigB \in PB!Tables /\ PB!InnerEventsRegistered(ConfigB)
  /\ CallbackB \in [PB!States -> SUBSET PB!CallbackEffect]
  /\ \A st \in PB!States : CallbackB[st] # {}
  /\ TRUE \in BOOLEAN /\ FALSE \in BOOLEAN /\ 1 \in Nat /\ MaxBacklog \in Nat
BY EnumSizes, FsmsAssumption, BacklogAssumption
   DEF Tables, PB!Tables, TimerEvent, PB!TimerEvent, InnerTransition, PB!InnerTransition,
       States, PB!States, Events, PB!Events, AatRow, PB!AatRow, InnerEventsRegistered,
       PB!InnerEventsRegistered, InnerEventsOf, PB!InnerEventsOf, B!InnerEvents,
       PB!InnerEvents, B!CallbackEffect, PB!CallbackEffect

LEMMA SameStepsB ==
  /\ \A external \in BOOLEAN : B!StartOn(external) <=> PB!StartOn(external)
  /\ B!Stop <=> PB!Stop
  /\ \A ev \in Events : B!ProcessEvent(ev) <=> PB!ProcessEvent(ev)
  /\ B!LoopStep <=> PB!LoopStep
BY DEF B!StartOn, PB!StartOn, B!Stop, PB!Stop, B!ProcessEvent, PB!ProcessEvent, B!LoopStep,
       PB!LoopStep, B!MayCall, PB!MayCall, B!RunAction, PB!RunAction, B!Fails, PB!Fails,
       B!StopLoop, PB!StopLoop, B!IsInnerEvent, PB!IsInnerEvent, B!Handles, PB!Handles,
       B!SwitchTo, PB!SwitchTo, B!Timed, PB!Timed, B!TimerCancel, PB!TimerCancel, B!vars,
       PB!vars, B!ProcessTimeOut, PB!ProcessTimeOut, B!TimerCanceled, PB!TimerCanceled,
       B!SignalHandler, PB!SignalHandler, B!TimerExpires, PB!TimerExpires, B!SignalArrives,
       PB!SignalArrives, B!Alive, PB!Alive, B!TimerStart, PB!TimerStart, B!AfterCallback,
       PB!AfterCallback, B!RaisesSignal, PB!RaisesSignal, B!RaiseSignal, PB!RaiseSignal,
       B!AsyncWaitSignal, PB!AsyncWaitSignal, B!fsmVars, PB!fsmVars, B!Kill, PB!Kill,
       B!CanRunExpired, PB!CanRunExpired, B!TakeExpired, PB!TakeExpired, B!CanRunCanceled,
       PB!CanRunCanceled, B!TakeCanceled, PB!TakeCanceled, B!CanRunSignal, PB!CanRunSignal,
       B!AatRow, PB!AatRow, B!TakeSignal, PB!TakeSignal, B!Fired, PB!Fired, B!FireInner,
       PB!FireInner, B!ConsumeFlags, PB!ConsumeFlags, B!CanExpire, PB!CanExpire, B!Expire,
       PB!Expire, B!CanDeliver, PB!CanDeliver, B!Deliver, PB!Deliver, B!InnerEvents,
       PB!InnerEvents, B!InnerEventsOf, PB!InnerEventsOf, B!Active, PB!Active, B!IsLast,
       PB!IsLast

LEMMA SameInitB == B!Init <=> PB!Init
BY DEF B!Init, PB!Init, B!InitialState, PB!InitialState, B!InnerEvents, PB!InnerEvents,
       B!NewLoop, PB!NewLoop

LEMMA SameInvariantsB ==
  /\ B!PassStateSignalled <=> PB!PassStateSignalled
  /\ B!TimeoutKept <=> PB!TimeoutKept
BY DEF B!PassStateSignalled, PB!PassStateSignalled, B!TimeoutKept, PB!TimeoutKept,
       B!Running, PB!Running, B!SignalPending, PB!SignalPending, B!Timed, PB!Timed, B!Alive,
       PB!Alive

LEMMA SameGraphB ==
  /\ B!Graph!Init <=> PB!Graph!Init
  /\ B!Graph!Next <=> PB!Graph!Next
BY DEF B!Graph!Next, PB!Graph!Next, B!Graph!Launch, PB!Graph!Launch, B!Graph!Move,
       PB!Graph!Move, B!Graph!Stay, PB!Graph!Stay, B!Graph!Init, PB!Graph!Init,
       B!Graph!InitialState, PB!Graph!InitialState, B!Graph!Successors, PB!Graph!Successors,
       B!Graph!EventSuccessors, PB!Graph!EventSuccessors, B!Graph!TimeOutSuccessors,
       PB!Graph!TimeOutSuccessors, B!Graph!AatSuccessors, PB!Graph!AatSuccessors,
       B!Graph!InnerSuccessors, PB!Graph!InnerSuccessors,
       B!Graph!Events, PB!Graph!Events, B!Graph!Handles, PB!Graph!Handles, B!Graph!Timed,
       PB!Graph!Timed, B!Graph!AatRow, PB!Graph!AatRow, B!Running, PB!Running, B!Alive,
       PB!Alive, B!Active, PB!Active, B!InnerEvents, PB!InnerEvents
-----------------------------------------------------------------------------
(* What a step of one FSM does to both. *)

Both == PA!AmongOthers /\ PB!AmongOthers /\ oneLoop \in BOOLEAN

\* The loop that hears of a signal or of a stop keeps its timer and its handlers.
LEMMA HearsLoop ==
  ASSUME NEW own \in PA!Loops, NEW l, NEW m \in PA!Loops, oneLoop \in BOOLEAN
  PROVE  /\ Hears(own, l, m) \in PA!Loops
         /\ Hears(own, l, m).signalRaised >= own.signalRaised
         /\ own.stopped => Hears(own, l, m).stopped
         /\ \A field \in {"timerWaits", "timerExpired", "signalReady"} :
              Hears(own, l, m)[field] = own[field]
<1> DEFINE signalled == [own EXCEPT !.signalRaised = @ + 1]
<1>1. signalled \in PA!Loops /\ signalled.signalRaised >= own.signalRaised
      /\ \A field \in {"timerWaits", "timerExpired", "signalReady", "stopped"} :
           signalled[field] = own[field]
  BY DEF PA!Loops
<1>2. ASSUME NEW h \in PA!Loops, NEW stopped \in BOOLEAN
      PROVE  LET k == [h EXCEPT !.stopped = @ \/ stopped]
             IN /\ k \in PA!Loops /\ k.signalRaised = h.signalRaised
                /\ h.stopped => k.stopped
                /\ \A field \in {"timerWaits", "timerExpired", "signalReady"} :
                     k[field] = h[field]
  BY DEF PA!Loops
<1>3. (oneLoop /\ m.stopped) \in BOOLEAN
  BY DEF PA!Loops
<1>4. own.signalRaised \in Nat
  BY DEF PA!Loops
<1> DEFINE heard == /\ m.signalRaised > l.signalRaised /\ own.signalSet
                    /\ oneLoop \/ own.signalRaised < MaxBacklog
           h == IF heard THEN signalled ELSE own
           stopped == oneLoop /\ m.stopped
<1>5. Hears(own, l, m) = [h EXCEPT !.stopped = @ \/ stopped]
  BY DEF Hears
<1> HIDE DEF heard, signalled, stopped
<1>6. h \in PA!Loops /\ h.signalRaised >= own.signalRaised
      /\ \A field \in {"timerWaits", "timerExpired", "signalReady", "stopped"} :
           h[field] = own[field]
  BY <1>1, <1>4
<1> HIDE DEF h
<1>7. stopped \in BOOLEAN
  BY <1>3 DEF stopped
<1> DEFINE k == Hears(own, l, m)
<1>8. /\ k \in PA!Loops /\ k.signalRaised = h.signalRaised
      /\ h.stopped => k.stopped
      /\ \A field \in {"timerWaits", "timerExpired", "signalReady"} : k[field] = h[field]
  BY <1>2, <1>5, <1>6, <1>7
<1>9. h.stopped = own.stopped
  BY <1>6
<1> HIDE DEF k
<1>10. /\ k.signalRaised >= own.signalRaised /\ (own.stopped => k.stopped)
       /\ \A field \in {"timerWaits", "timerExpired", "signalReady"} : k[field] = own[field]
  BY <1>6, <1>8, <1>9
<1> QED BY <1>8, <1>10 DEF k

LEMMA AliveA == ASSUME CallsA \/ A!LoopStep PROVE status = "alive"
BY DEF CallsA, A!LoopStep, A!StartOn, A!Stop, A!ProcessEvent, A!MayCall, A!Alive,
       A!ProcessTimeOut, A!TimerCanceled, A!SignalHandler, A!TimerExpires, A!SignalArrives

\* A step of FSM A keeps what FSM A waits for, and moves it along its graph;
LEMMA OwnStepA ==
  ASSUME Both, CallsA \/ A!LoopStep
  PROVE  PA!AmongOthers' /\ PA!Graph!Next
<1>1. PA!Next \/ \E external \in BOOLEAN : PA!StartOn(external)
  BY SameStepsA DEF Both, CallsA, PA!Next, PA!UserCall, Events, PA!Events
<1> QED BY <1>1, PA!OwnStep, AssumptionsA DEF Both

\* it is a foreign step for FSM B.
LEMMA StepOfAKeepsBoth ==
  ASSUME Both, StepOfA(CallsA) \/ StepOfA(A!LoopStep)
  PROVE  Both' /\ PA!Graph!Next /\ PB!Graph!Next
<1>1. /\ CallsA \/ A!LoopStep
      /\ loopB' = Hears(loopB, loopA, loopA') /\ UNCHANGED <<varsB, oneLoop>>
  BY DEF StepOfA
<1>2. PA!AmongOthers' /\ PA!Graph!Next
  BY <1>1, OwnStepA
<1>3. loopB \in PA!Loops /\ loopA' \in PA!Loops /\ status' \in PB!Statuses
  BY <1>2 DEF Both, PA!AmongOthers, PB!AmongOthers, PA!TypeOK, PB!TypeOK, PA!Loops, PB!Loops,
              PA!Statuses, PB!Statuses
<1>4. PB!Foreign
  BY <1>1, <1>3, HearsLoop, AliveA
     DEF Both, PB!Foreign, PB!Alive, varsB, PA!Loops, PB!Loops
<1>5. PB!AmongOthers' /\ PB!Graph!Next
  BY <1>4, PB!ForeignStep, AssumptionsB DEF Both
<1> QED BY <1>1, <1>2, <1>5 DEF Both

LEMMA AliveB == ASSUME CallsB \/ B!LoopStep PROVE status = "alive"
BY DEF CallsB, B!LoopStep, B!StartOn, B!Stop, B!ProcessEvent, B!MayCall, B!Alive,
       B!ProcessTimeOut, B!TimerCanceled, B!SignalHandler, B!TimerExpires, B!SignalArrives

\* A step of FSM B keeps what FSM B waits for, and moves it along its graph;
LEMMA OwnStepB ==
  ASSUME Both, CallsB \/ B!LoopStep
  PROVE  PB!AmongOthers' /\ PB!Graph!Next
<1>1. PB!Next \/ \E external \in BOOLEAN : PB!StartOn(external)
  BY SameStepsB DEF Both, CallsB, PB!Next, PB!UserCall, Events, PB!Events
<1> QED BY <1>1, PB!OwnStep, AssumptionsB DEF Both

\* it is a foreign step for FSM A.
LEMMA StepOfBKeepsBoth ==
  ASSUME Both, StepOfB(CallsB) \/ StepOfB(B!LoopStep)
  PROVE  Both' /\ PA!Graph!Next /\ PB!Graph!Next
<1>1. /\ CallsB \/ B!LoopStep
      /\ loopA' = Hears(loopA, loopB, loopB') /\ UNCHANGED <<varsA, oneLoop>>
  BY DEF StepOfB
<1>2. PB!AmongOthers' /\ PB!Graph!Next
  BY <1>1, OwnStepB
<1>3. loopA \in PA!Loops /\ loopB' \in PA!Loops /\ status' \in PA!Statuses
  BY <1>2 DEF Both, PA!AmongOthers, PB!AmongOthers, PA!TypeOK, PB!TypeOK, PA!Loops, PB!Loops,
              PA!Statuses, PB!Statuses
<1>4. PA!Foreign
  BY <1>1, <1>3, HearsLoop, AliveB
     DEF Both, PA!Foreign, PA!Alive, varsA, PA!Loops, PB!Loops
<1>5. PA!AmongOthers' /\ PA!Graph!Next
  BY <1>4, PA!ForeignStep, AssumptionsA DEF Both
<1> QED BY <1>1, <1>2, <1>5 DEF Both

LEMMA TwoInit == ASSUME Init PROVE Both
BY PA!AmongOthersInit, PB!AmongOthersInit, AssumptionsA, AssumptionsB, SameInitA, SameInitB
   DEF Init, Both

LEMMA TwoStep ==
  ASSUME Both, [Next]_vars
  PROVE  Both' /\ PA!Graph!Next /\ PB!Graph!Next
<1>1. CASE UNCHANGED vars
  <2>1. UNCHANGED PA!vars /\ UNCHANGED PB!vars
    BY <1>1 DEF vars, varsA, varsB, PA!vars, PB!vars
  <2>2. PA!AmongOthers' /\ PA!Graph!Next
    BY <2>1, PA!OwnStep, AssumptionsA DEF Both
  <2>3. PB!AmongOthers' /\ PB!Graph!Next
    BY <2>1, PB!OwnStep, AssumptionsB DEF Both
  <2> QED BY <1>1, <2>2, <2>3 DEF Both, vars
<1> QED BY <1>1, StepOfAKeepsBoth, StepOfBKeepsBoth DEF Next

LEMMA TwoInvariant == Spec => []Both
BY TwoInit, TwoStep, PTL DEF Spec
-----------------------------------------------------------------------------
\* A signal of one FSM does not use up what the other waits for: an FSM on a pass-state has
\* a signal on its way, whether the two share a loop or not.
THEOREM TwoSignalsKept == Spec => []SignalsKept
<1>1. Both => SignalsKept
  BY SameInvariantsA, SameInvariantsB
     DEF Both, PA!AmongOthers, PB!AmongOthers, PA!Waiting, PB!Waiting, SignalsKept
<1> QED BY <1>1, TwoInvariant, PTL

\* An FSM on a state with a time-out has its timer, or such a signal: what the other FSM
\* raises, on whatever state it is heard, does not lose a time-out.
THEOREM TwoTimeoutsKept == Spec => []TimeoutsKept
<1>1. Both => TimeoutsKept
  BY SameInvariantsA, SameInvariantsB
     DEF Both, PA!AmongOthers, PB!AmongOthers, PA!Waiting, PB!Waiting, TimeoutsKept
<1> QED BY <1>1, TwoInvariant, PTL

\* Each FSM implements the abstract one: the signals of the other FSM, handled on any state,
\* and its stop() move it nowhere.
THEOREM TwoImplementations == Spec => BothImplementGraph
<1>1. Init => A!Graph!Init /\ B!Graph!Init
  BY SameInitA, SameInitB, SameGraphA, SameGraphB, PA!GraphInit, PB!GraphInit,
     AssumptionsA, AssumptionsB DEF Init
<1>2. Both /\ [Next]_vars => A!Graph!Next /\ B!Graph!Next
  BY TwoStep, SameGraphA, SameGraphB
<1> QED BY <1>1, <1>2, TwoInvariant, PTL
        DEF Spec, BothImplementGraph, A!ImplementsGraph, B!ImplementsGraph,
            A!Graph!Spec, B!Graph!Spec, A!Graph!graphVars, B!Graph!graphVars
=============================================================================
