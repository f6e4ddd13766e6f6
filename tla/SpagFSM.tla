------------------------------ MODULE SpagFSM ------------------------------
(***************************************************************************)
(* A running FSM: the run-time functions of class SpagFSM (spaghetti.hpp,  *)
(* 1389-1606 and 1842-1903) on a configuration that does not change, with  *)
(* the event loop of AsioLoop behind it. The build is the one with         *)
(* SPAG_USE_SIGNALS, the asio wrapper and assertions, without logging. One *)
(* action is one call of the API or one handler of the loop, run to its    *)
(* end: user code calls from the loop's thread, or holds a mutex.          *)
(*                                                                         *)
(* A state's callback is user code. It may activate and clear inner events *)
(* and stop the FSM; Callback[st] holds what the callback of st may do.    *)
(***************************************************************************)
EXTENDS FsmTables, AsioLoop, FiniteSets

CONSTANTS Config,          \* the tables start() finds
          Callback,        \* Callback[st]: the effects the callback of st may have
          ExternalLoop,    \* SPAG_EXTERNAL_EVENT_LOOP: start() does not call init()
          LateActivation,  \* inner events are also (de)activated outside callbacks
          MaxStarts,       \* bound: calls of start()
          MaxBacklog       \* bound: no event is posted while this many signals are unhandled

InnerEvents == Config.innerEvents

CallbackEffect == [activate : SUBSET InnerEvents, clear : SUBSET InnerEvents, stop : BOOLEAN]

\* What the configuration functions guarantee of one FSM object's tables.
ASSUME ConfigAssumption == Config \in Tables /\ InnerEventsRegistered(Config)
ASSUME CallbackAssumption ==
  Callback \in [States -> SUBSET CallbackEffect] /\ \A st \in States : Callback[st] # {}
ASSUME BoundsAssumption == /\ ExternalLoop \in BOOLEAN /\ LateActivation \in BOOLEAN
                           /\ MaxStarts \in Nat /\ MaxBacklog \in Nat

VARIABLES current,         \* _current
          previous,        \* _previous
          isRunning,       \* _isRunning
          innerEventFlag,  \* _innerEventFlag
          loop,            \* the asio wrapper and its io_context
          status,          \* how the process is doing
          starts           \* calls of start() so far

fsmVars == <<current, previous, isRunning, innerEventFlag>>
vars == <<current, previous, isRunning, innerEventFlag, loop, status, starts>>

\* "misuse" and "noTimeOut" are failed assertions: SPAG_P_ASSERT on _isRunning, and
\* processTimeOut's own. "killed" is SIGUSR1's default action.
Statuses == {"alive", "misuse", "noTimeOut", "killed"}

TypeOK ==
  /\ current \in States /\ previous \in States
  /\ isRunning \in BOOLEAN
  /\ innerEventFlag \in [InnerEvents -> BOOLEAN]
  /\ loop \in Loops
  /\ status \in Statuses
  /\ starts \in 0 .. MaxStarts

Init ==
  /\ current = InitialState /\ previous = InitialState
  /\ isRunning = FALSE
  /\ innerEventFlag = [ev \in InnerEvents |-> FALSE]
  /\ loop = NewLoop
  /\ status = "alive"
  /\ starts = 0
-----------------------------------------------------------------------------
Alive == status = "alive"

Fails(failure) == status' = failure /\ UNCHANGED <<fsmVars, loop, starts>>

Active(flags) == {ev \in InnerEvents : flags[ev]}

StopLoop(l) == Kill(TimerCancel(l))

AfterCallback(flags, effect) ==
  [ev \in InnerEvents |-> ev \in effect.activate \/ (flags[ev] /\ ev \notin effect.clear)]

\* Mutants: a pass-state raises no signal; nor does an active inner event; the callback's
\* stop is not looked at.
RaisesForInnerOnly(st, flags, running) ==
  running /\ InnerEventsOf(Config, st) \cap Active(flags) # {}
RaisesForPassOnly(st, flags, running) == running /\ Config.isPassState[st]
RaisesWhenStopped(st, flags, running) ==
  Config.isPassState[st] \/ InnerEventsOf(Config, st) \cap Active(flags) # {}

\* The last part of runAction: if the FSM still runs, a signal is due on a pass-state, and
\* on a state with an active inner event.
RaisesSignal(st, flags, running) ==
  running /\ (Config.isPassState[st] \/ InnerEventsOf(Config, st) \cap Active(flags) # {})

\* runAction on the state st just entered: start its timer, run its callback, raise the
\* signal unless the callback stopped the FSM. `rearm` is the async_wait its caller does
\* next (init from start, signalHandler).
RunAction(st, running, flags, l, rearm) ==
  \E effect \in Callback[st] :
    LET timer  == IF Timed(Config, st) THEN TimerStart(l) ELSE l
        after  == AfterCallback(flags, effect)
        called == IF effect.stop THEN StopLoop(timer) ELSE timer
        runs   == running /\ ~effect.stop
        raise  == RaisesSignal(st, after, runs)
        raised == IF raise THEN TimerCancel(RaiseSignal(called)) ELSE called
    IN /\ innerEventFlag' = after
       /\ isRunning' = runs
       /\ loop' = IF rearm THEN AsyncWaitSignal(raised) ELSE raised
       /\ status' = IF effect.stop /\ ~running THEN "misuse"
                    ELSE IF raise /\ ~called.signalSet THEN "killed" ELSE status

\* Mutant: _current is assigned before _previous.
SwitchToTooEarly(st, running, flags, l, rearm) ==
  /\ previous' = st
  /\ current' = st
  /\ RunAction(st, running, flags, l, rearm)

SwitchTo(st, running, flags, l, rearm) ==
  /\ previous' = current
  /\ current' = st
  /\ RunAction(st, running, flags, l, rearm)
-----------------------------------------------------------------------------
(* User code: calls from main, a thread that holds the mutex, a handler. *)

\* Events are not posted faster than the loop takes the signals they raise.
MayCall == Alive /\ loop.signalRaised < MaxBacklog

\* doChecking only prints. The event loop that init() then runs is LoopStep; with an
\* external loop, there is no call of init().
StartOn(external) ==
  /\ Alive /\ starts < MaxStarts
  /\ \/ /\ ~isRunning
        /\ starts' = starts + 1
        /\ RunAction(current, TRUE, innerEventFlag, loop, ~external)
        /\ UNCHANGED <<current, previous>>
     \/ isRunning /\ Fails("misuse")

Start == StartOn(ExternalLoop)

Stop ==
  /\ Alive
  /\ \/ /\ isRunning
        /\ loop' = StopLoop(loop)
        /\ isRunning' = FALSE
        /\ UNCHANGED <<current, previous, innerEventFlag, status, starts>>
     \/ ~isRunning /\ Fails("misuse")

\* An event that is not allowed on the current state is ignored (but for a user's callback,
\* which has no effect on the FSM); one that was declared as
\* an inner event is refused by an exception before anything changes.
ProcessEvent(ev) ==
  /\ MayCall
  /\ \/ ~isRunning /\ Fails("misuse")
     \/ /\ isRunning /\ ~IsInnerEvent(Config, ev) /\ Handles(Config, ev, current)
        /\ SwitchTo(Config.transitionMat[ev][current], isRunning, innerEventFlag,
                    IF Timed(Config, current) THEN TimerCancel(loop) ELSE loop, FALSE)
        /\ UNCHANGED starts
     \/ /\ isRunning /\ (IsInnerEvent(Config, ev) \/ ~Handles(Config, ev, current))
        /\ UNCHANGED vars

ActivateInnerEvent(ev) ==
  /\ Alive /\ LateActivation /\ IsInnerEvent(Config, ev)
  /\ innerEventFlag' = [innerEventFlag EXCEPT ![ev] = TRUE]
  /\ UNCHANGED <<current, previous, isRunning, loop, status, starts>>

\* Mutant: the event is erased from the map, so that it is no inner event any more.
ClearInternalEventErases(ev) ==
  /\ Alive /\ LateActivation /\ IsInnerEvent(Config, ev)
  /\ innerEventFlag' = [other \in InnerEvents \ {ev} |-> innerEventFlag[other]]
  /\ UNCHANGED <<current, previous, isRunning, loop, status, starts>>

ClearInternalEvent(ev) ==
  /\ Alive /\ LateActivation /\ IsInnerEvent(Config, ev)
  /\ innerEventFlag' = [innerEventFlag EXCEPT ![ev] = FALSE]
  /\ UNCHANGED <<current, previous, isRunning, loop, status, starts>>
-----------------------------------------------------------------------------
(* The loop's thread: one ready handler at a time. *)

\* timerCallback with code 0: processTimeOut. It asserts that the state has a time-out.
ProcessTimeOut ==
  /\ Alive /\ CanRunExpired(loop)
  /\ \/ /\ Timed(Config, current)
        /\ SwitchTo(Config.timerEvent[current].nextState, isRunning, innerEventFlag,
                    TakeExpired(loop), FALSE)
        /\ UNCHANGED starts
     \/ ~Timed(Config, current) /\ Fails("noTimeOut")

\* timerCallback with operation_canceled does nothing.
TimerCanceled ==
  /\ Alive /\ CanRunCanceled(loop)
  /\ loop' = TakeCanceled(loop)
  /\ UNCHANGED <<fsmVars, status, starts>>

\* Mutant: inner transitions fire whether their event is active or not.
FiredAll(st, flags) == DOMAIN Config.innerTransList[st]

\* The places of the inner transitions of st that processInnerEvent's loop fires: those
\* whose event is active when the loop reaches them; firing clears the flag.
Fired(st, flags) ==
  LET list == Config.innerTransList[st]
  IN {n \in DOMAIN list : /\ flags[list[n].event]
                          /\ \A m \in 1 .. n - 1 : list[m].event # list[n].event}

IsLast(n, S) == n \in S /\ \A m \in S : m <= n

\* The loop has no break: every transition in turn sets _previous and _current.
FireInner(st, fired) ==
  LET dest(n) == Config.innerTransList[st][n].dest
  IN \E last \in fired :
       /\ IsLast(last, fired)
       /\ current' = dest(last)
       /\ \/ fired = {last} /\ previous' = st
          \/ \E before \in fired \ {last} :
               IsLast(before, fired \ {last}) /\ previous' = dest(before)

ConsumeFlags(st, flags) ==
  [ev \in InnerEvents |-> flags[ev] /\ ev \notin InnerEventsOf(Config, st)]

\* Mutant: nothing is done when no inner transition fires.
SignalHandlerReturnsEarly ==
  /\ Alive /\ CanRunSignal(loop)
  /\ \/ /\ isRunning /\ Config.isPassState[current]
        /\ SwitchTo(Config.transitionMat[AatRow][current], isRunning, innerEventFlag,
                    TakeSignal(loop), TRUE)
     \/ /\ isRunning /\ ~Config.isPassState[current]
        /\ Fired(current, innerEventFlag) # {}
        /\ FireInner(current, Fired(current, innerEventFlag))
        /\ RunAction(current', isRunning, ConsumeFlags(current, innerEventFlag),
                     TakeSignal(loop), TRUE)
     \/ /\ isRunning /\ ~Config.isPassState[current]
        /\ Fired(current, innerEventFlag) = {}
        /\ loop' = AsyncWaitSignal(TakeSignal(loop)) /\ UNCHANGED <<fsmVars, status>>
  /\ UNCHANGED starts

\* Mutant: a signal is taken for the one of a pass-state.
SignalHandlerTakesAat ==
  /\ Alive /\ CanRunSignal(loop) /\ isRunning
  /\ SwitchTo(Config.transitionMat[AatRow][current], isRunning, innerEventFlag,
              TakeSignal(loop), TRUE)
  /\ UNCHANGED starts

\* signalHandler and processInnerEvent, on whatever state is current when it runs: the AAT
\* of a pass-state, else the active inner transitions, if any. runAction follows always.
SignalHandler ==
  /\ Alive /\ CanRunSignal(loop)
  /\ \/ ~isRunning /\ Fails("misuse")
     \/ /\ isRunning /\ Config.isPassState[current]
        /\ SwitchTo(Config.transitionMat[AatRow][current], isRunning, innerEventFlag,
                    TakeSignal(loop), TRUE)
        /\ UNCHANGED starts
     \/ /\ isRunning /\ ~Config.isPassState[current]
        /\ Fired(current, innerEventFlag) # {}
        /\ FireInner(current, Fired(current, innerEventFlag))
        /\ RunAction(current', isRunning, ConsumeFlags(current, innerEventFlag),
                     TakeSignal(loop), TRUE)
        /\ UNCHANGED starts
     \/ /\ isRunning /\ ~Config.isPassState[current]
        /\ Fired(current, innerEventFlag) = {}
        /\ RunAction(current, isRunning, innerEventFlag, TakeSignal(loop), TRUE)
        /\ UNCHANGED <<current, previous, starts>>

\* The reactor: the timer expires, a raised signal reaches the pending wait.
TimerExpires ==
  /\ Alive /\ CanExpire(loop)
  /\ loop' = Expire(loop)
  /\ UNCHANGED <<fsmVars, status, starts>>

SignalArrives ==
  /\ Alive /\ CanDeliver(loop)
  /\ loop' = Deliver(loop)
  /\ UNCHANGED <<fsmVars, status, starts>>
-----------------------------------------------------------------------------
UserCall ==
  \/ Start
  \/ Stop
  \/ \E ev \in Events : ProcessEvent(ev)
  \/ \E ev \in Events : ActivateInnerEvent(ev)
  \/ \E ev \in Events : ClearInternalEvent(ev)

LoopStep == ProcessTimeOut \/ TimerCanceled \/ SignalHandler \/ TimerExpires \/ SignalArrives

Next == UserCall \/ LoopStep

Spec == Init /\ [][Next]_vars

\* run() executes every ready handler and time passes; user code owes nothing.
Fairness ==
  /\ WF_vars(ProcessTimeOut) /\ WF_vars(TimerCanceled) /\ WF_vars(SignalHandler)
  /\ WF_vars(TimerExpires) /\ WF_vars(SignalArrives)

FairSpec == Spec /\ Fairness
-----------------------------------------------------------------------------
(* What a running FSM keeps true. *)

Running == Alive /\ isRunning

\* An FSM that sits on a pass-state has a signal on its way: the AAT will be taken.
\* runAction raises it, and no other handler may use it up without leaving the state.
PassStateSignalled == Running /\ Config.isPassState[current] => SignalPending(loop)

\* An FSM that sits on a state with a time-out has what moves it off: its timer is pending or
\* has expired, or runAction canceled it for a signal that is still to be handled.
TimeoutKept ==
  Running /\ Timed(Config, current) =>
    loop.timerWaits \/ loop.timerExpired \/ SignalPending(loop)

\* And it will be moved, when it is started for the first time: the loop that serves the timer
\* and the signal has not been stopped.
TimeoutNotLost ==
  starts <= 1 /\ Running /\ Timed(Config, current) =>
    /\ ~loop.stopped
    /\ loop.timerWaits \/ loop.timerExpired \/ SignalPending(loop)

\* After a second start() the loop stays stopped: no time-out, no pass-state and no inner event
\* moves the FSM any more, only the events of processEvent do.
RestartedMovesByEvents ==
  [][starts > 1 /\ current' # current =>
       \E ev \in Events : /\ ~IsInnerEvent(Config, ev) /\ Handles(Config, ev, current)
                          /\ current' = Config.transitionMat[ev][current]]_vars

\* When inner events are activated by callbacks only, an active event of the current state
\* has a signal on its way.
InnerEventSignalled ==
  ~LateActivation /\ Running /\ InnerEventsOf(Config, current) \cap Active(innerEventFlag) # {}
    => SignalPending(loop)

\* A handler that can still run finds a started FSM: stop() and kill() leave none behind,
\* which is why processTimeOut does without the check of _isRunning.
NoHandlerAfterStop ==
  Alive /\ ~isRunning =>
    loop.stopped \/ ~(loop.timerWaits \/ loop.timerExpired \/ SignalPending(loop))

\* SIGUSR1 is only raised while the signal_set handles it: a callback that stops the FSM
\* is not followed by a raise (as long as the FSM is started once).
NeverKilled == starts <= 1 => status # "killed"

\* The assertion of processTimeOut: the timer only ends on a state that started it.
TimeoutAssertionHolds == status # "noTimeOut"

\* The warning of doChecking is right: a state it calls unreachable is never entered.
UnreachableNeverEntered == current \notin Unreachable(Config)

\* And a state it calls a dead-end is never left.
DeadEndNeverLeft == [][(current \in DeadEnds(Config)) => UNCHANGED current]_vars

\* previousState() is the state the FSM was on before it came to the current one.
PreviousIsPredecessor == [][(current' # current) => (previous' = current)]_vars

\* The FSM moves along its configured transitions, and only while it runs.
Graph == INSTANCE FsmGraph WITH
           running <- Running, active <- Active(innerEventFlag)

ImplementsGraph == Graph!Spec
-----------------------------------------------------------------------------
(* What it achieves, if the loop runs. *)

\* A pass-state is left, or the FSM is stopped on it (by its callback, or by user code).
PassStateLeft ==
  \A st \in States : Config.isPassState[st] =>
    (Running /\ current = st ~> ~(Running /\ current = st))

SelfLoop(st) == st \in Successors(Config, st, InnerEvents)

\* A state with a time-out is left, whatever ignored events and late signals it gets.
TimedStateLeft ==
  \A st \in States : Timed(Config, st) /\ ~SelfLoop(st) =>
    (Running /\ current = st ~> ~(Running /\ current = st))

\* An inner event that a callback activated and the current state can use does not stay.
InnerEventTaken ==
  \A st \in States : \A ev \in InnerEventsOf(Config, st) :
    LET waits == ~LateActivation /\ Running /\ current = st /\ innerEventFlag[ev]
    IN waits ~> ~waits
=============================================================================
