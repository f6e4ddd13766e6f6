------------------------------ MODULE TwoFsms ------------------------------
(***************************************************************************)
(* Two FSMs of the same type in one process. Either both use one external  *)
(* io_context, run when they have been started, as in sample_2; or each    *)
(* has its own event loop, run by start() in a thread of its own. Each is  *)
(* a SpagFSM; what one does reaches the other in three ways:               *)
(*   - SIGUSR1 is the process's: every signal_set that holds it hears of   *)
(*     every raise, also before its FSM is started;                        *)
(*   - kill() stops the io_context, the other FSM's too if they share it;  *)
(*   - an assertion that fails ends the process.                           *)
(***************************************************************************)
EXTENDS FsmConfig

CONSTANTS ConfigA, CallbackA, ConfigB, CallbackB,
          MaxBacklog   \* bound: foreign signals are counted up to here

VARIABLES currentA, previousA, isRunningA, innerEventFlagA, loopA, startsA,
          currentB, previousB, isRunningB, innerEventFlagB, loopB, startsB,
          oneLoop,     \* the FSMs share an external io_context
          status       \* of the process

varsA == <<currentA, previousA, isRunningA, innerEventFlagA, startsA>>
varsB == <<currentB, previousB, isRunningB, innerEventFlagB, startsB>>
vars == <<varsA, loopA, varsB, loopB, oneLoop, status>>

\* ExternalLoop is of no matter: Start, the only action that uses it, is not taken here.
A == INSTANCE SpagFSM WITH
       Config <- ConfigA, Callback <- CallbackA, ExternalLoop <- TRUE,
       LateActivation <- FALSE, MaxStarts <- 1,
       current <- currentA, previous <- previousA, isRunning <- isRunningA,
       innerEventFlag <- innerEventFlagA, loop <- loopA, starts <- startsA
B == INSTANCE SpagFSM WITH
       Config <- ConfigB, Callback <- CallbackB, ExternalLoop <- TRUE,
       LateActivation <- FALSE, MaxStarts <- 1,
       current <- currentB, previous <- previousB, isRunning <- isRunningB,
       innerEventFlag <- innerEventFlagB, loop <- loopB, starts <- startsB

\* What SpagFSM assumes of its constants, for each of the two.
ASSUME FsmsAssumption ==
  /\ ConfigA \in Tables /\ InnerEventsRegistered(ConfigA)
  /\ CallbackA \in [States -> SUBSET A!CallbackEffect]
  /\ \A st \in States : CallbackA[st] # {}
  /\ ConfigB \in Tables /\ InnerEventsRegistered(ConfigB)
  /\ CallbackB \in [States -> SUBSET B!CallbackEffect]
  /\ \A st \in States : CallbackB[st] # {}
ASSUME BacklogAssumption == MaxBacklog \in Nat

Init == A!Init /\ B!Init /\ oneLoop \in BOOLEAN
-----------------------------------------------------------------------------
\* Mutant: kill() stops every io_context.
HearsEveryStop(own, l, m) == [own EXCEPT !.stopped = @ \/ m.stopped]

\* What the loop of one FSM gets of a step that changed the other's from l to m.
Hears(own, l, m) ==
  LET heard == /\ m.signalRaised > l.signalRaised /\ own.signalSet
               /\ oneLoop \/ own.signalRaised < MaxBacklog
      signalled == IF heard THEN [own EXCEPT !.signalRaised = @ + 1] ELSE own
  IN [signalled EXCEPT !.stopped = @ \/ (oneLoop /\ m.stopped)]

StepOfA(step) ==
  /\ step
  /\ loopB' = Hears(loopB, loopA, loopA')
  /\ UNCHANGED <<varsB, oneLoop>>

StepOfB(step) ==
  /\ step
  /\ loopA' = Hears(loopA, loopB, loopB')
  /\ UNCHANGED <<varsA, oneLoop>>

CallsA == \/ A!StartOn(oneLoop)
          \/ A!Stop
          \/ \E ev \in Events : A!ProcessEvent(ev)

CallsB == \/ B!StartOn(oneLoop)
          \/ B!Stop
          \/ \E ev \in Events : B!ProcessEvent(ev)

Next ==
  \/ StepOfA(CallsA) \/ StepOfA(A!LoopStep)
  \/ StepOfB(CallsB) \/ StepOfB(B!LoopStep)

Spec == Init /\ [][Next]_vars

\* run() of the one loop, or of each, goes on while there is something to do for either FSM:
\* a timer that waits expires, unless signals keep coming whose handler restarts it.
Fairness == WF_vars(StepOfA(A!LoopStep)) /\ WF_vars(StepOfB(B!LoopStep))

FairSpec == Spec /\ Fairness
-----------------------------------------------------------------------------
\* A signal of one FSM does not use up what the other waits for: on a pass-state each has
\* a signal on its way,
SignalsKept == A!PassStateSignalled /\ B!PassStateSignalled

\* and on a state with a time-out its timer, or such a signal: a foreign signal that fires
\* nothing leaves the timer running.
TimeoutsKept == A!TimeoutKept /\ B!TimeoutKept

\* Each FSM only moves along its own graph, and while it runs: the other FSM's signals,
\* handled on any state, and its stop() move it nowhere.
BothImplementGraph == A!ImplementsGraph /\ B!ImplementsGraph

\* Where no signal that nobody handles (see PassStatesLeft) may take the place of the timer.
TimerServed(c, st) == oneLoop => InnerEventsOf(c, st) = {}

\* A state with a time-out is left. With a loop of its own an FSM may stay there only while the
\* other one runs and keeps its signals coming: neither its last signals nor its stop() hold
\* the FSM. On a shared loop signals are not heard, and only a stop() of the loop holds it.
TimedStatesLeft ==
  \A st \in States :
    /\ Timed(ConfigA, st) =>
         (A!Running /\ currentA = st /\ TimerServed(ConfigA, st)
            ~> \/ ~(A!Running /\ currentA = st)
               \/ IF oneLoop THEN loopA.stopped ELSE B!Running /\ A!SignalPending(loopA))
    /\ Timed(ConfigB, st) =>
         (B!Running /\ currentB = st /\ TimerServed(ConfigB, st)
            ~> \/ ~(B!Running /\ currentB = st)
               \/ IF oneLoop THEN loopB.stopped ELSE A!Running /\ B!SignalPending(loopB))

\* With a loop of its own, an FSM leaves its pass-states: the other's signals, which its handler
\* takes for its own, do not stand in the way.
OwnPassStatesLeft ==
  /\ ~oneLoop /\ A!Running ~> ~(A!Running /\ ConfigA.isPassState[currentA])
  /\ ~oneLoop /\ B!Running ~> ~(B!Running /\ ConfigB.isPassState[currentB])

\* "the FSM will switch right away to st2": so do the pass-states of FSMs that share a loop,
\* unless an FSM is stopped.
PassStatesLeft ==
  /\ A!Running ~> ~(A!Running /\ ConfigA.isPassState[currentA]) \/ loopA.stopped
  /\ B!Running ~> ~(B!Running /\ ConfigB.isPassState[currentB]) \/ loopB.stopped
=============================================================================
