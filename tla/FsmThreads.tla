----------------------------- MODULE FsmThreads -----------------------------
(***************************************************************************)
(* The programs with a keyboard thread (traffic_lights_2, traffic_lights_3 *)
(* and turnstyle_2): main starts the FSM and runs its event loop, the UI   *)
(* thread calls processEvent and stop. UI_thread holds g_mutex during its  *)
(* calls, but nothing that runs in the loop takes it, so that the members  *)
(* of the FSM are read and written by both threads. One action is one      *)
(* access to _current, _isRunning or the timer: what happens between two   *)
(* accesses of one thread is up to the other.                              *)
(*                                                                         *)
(* The members are a word each: a read gives the last value written. Reads *)
(* that the compiler may fuse are separate here; a fused pair is the       *)
(* behaviour where nothing happens between them. The samples have neither  *)
(* signals nor inner events, their callbacks only print, and the log is    *)
(* left out.                                                               *)
(***************************************************************************)
EXTENDS FsmTables

CONSTANTS Config,     \* the tables
          Keys,       \* the events UI_thread has a key for
          Messages    \* the events of the messages the UDP server gets (traffic_lights_3)

ASSUME ThreadsAssumption ==
  Config \in Tables /\ Config.innerEvents = {} /\ Keys \subseteq Events /\ Messages \subseteq Events

VARIABLES current,    \* _current
          previous,   \* _previous
          isRunning,  \* _isRunning
          timer,      \* _asioTimer: pending async_waits, and expired ones not handled yet
          stopped,    \* io_context::stop() has been called
          status,     \* "alive", or the assertion that ended the process
          pc,         \* where each thread is
          event,      \* the event each thread processes (0 when it is not used any more)
          next,       \* the state it is about to write (the same)
          overlap     \* history: some call in progress met a call of the other thread

fsmVars == <<current, previous, isRunning>>
vars == <<current, previous, isRunning, timer, stopped, status, pc, event, next, overlap>>

Threads == {"main", "ui"}

\* Where a thread is outside the FSM, and inside it.
Idle == {"begin", "loop", "keys", "returned", "quit"}
Inside == {"checkRunning", "checkAllowed", "checkTimed", "cancel", "savePrevious", "look",
           "assertTimed", "savePreviousTimed", "lookTimed", "write", "action", "expiresAfter",
           "asyncWait", "stopCheck", "stopTimer", "kill", "clearRunning"}

TypeOK ==
  /\ current \in States /\ previous \in States /\ isRunning \in BOOLEAN
  /\ timer \in [waits : 0 .. 2, expired : 0 .. 2]
  /\ stopped \in BOOLEAN /\ status \in {"alive", "misuse", "noTimeOut"}
  /\ pc \in [Threads -> Idle \cup Inside]
  /\ event \in [Threads -> Events \cup {0}] /\ next \in [Threads -> States]
  /\ overlap \in BOOLEAN

Init ==
  /\ current = InitialState /\ previous = InitialState /\ isRunning = FALSE
  /\ timer = [waits |-> 0, expired |-> 0] /\ stopped = FALSE /\ status = "alive"
  /\ pc = [t \in Threads |-> IF t = "main" THEN "begin" ELSE "keys"]
  /\ event = [t \in Threads |-> 0] /\ next = [t \in Threads |-> InitialState]
  /\ overlap = FALSE
-----------------------------------------------------------------------------
Busy == {t \in Threads : pc[t] \in Inside}

\* A thread goes from one place to another; the history notes calls that meet.
Goto(t, from, to) ==
  /\ status = "alive" /\ pc[t] = from
  /\ pc' = [pc EXCEPT ![t] = to]
  /\ overlap' = IF to \in Idle
                THEN overlap /\ Busy \ {t} # {}
                ELSE overlap \/ Busy \ {t} # {}

\* Where a call returns to.
Home(t) == IF t = "main" THEN "loop" ELSE "keys"

\* An assertion fails: the process ends.
Aborts(t, from, failure) ==
  /\ status = "alive" /\ pc[t] = from
  /\ status' = failure
  /\ UNCHANGED <<fsmVars, timer, stopped, pc, event, next, overlap>>

OnlyMoves == UNCHANGED <<fsmVars, timer, stopped, status, event, next>>
-----------------------------------------------------------------------------
(* processEvent, in either thread. *)

CheckRunning(t) ==
  \/ isRunning /\ Goto(t, "checkRunning", "checkAllowed") /\ OnlyMoves
  \/ ~isRunning /\ Aborts(t, "checkRunning", "misuse")

CheckAllowed(t) ==
  \/ /\ Handles(Config, event[t], current)
     /\ Goto(t, "checkAllowed", "checkTimed") /\ OnlyMoves
  \/ /\ ~Handles(Config, event[t], current)
     /\ Goto(t, "checkAllowed", Home(t))
     /\ event' = [event EXCEPT ![t] = 0]
     /\ UNCHANGED <<fsmVars, timer, stopped, status, next>>

CheckTimed(t) ==
  /\ Goto(t, "checkTimed", IF Timed(Config, current) THEN "cancel" ELSE "savePrevious")
  /\ OnlyMoves

\* cancel_one: of two pending waits, one stays.
Cancel(t) ==
  /\ Goto(t, "cancel", "savePrevious")
  /\ timer' = [timer EXCEPT !.waits = IF @ > 0 THEN @ - 1 ELSE 0]
  /\ UNCHANGED <<fsmVars, stopped, status, event, next>>

\* Mutant: processTimeOut does not keep the state it leaves.
SavePreviousForEvents(t) ==
  \/ /\ Goto(t, "savePrevious", "look")
     /\ previous' = current
     /\ UNCHANGED <<current, isRunning, timer, stopped, status, event, next>>
  \/ Goto(t, "savePreviousTimed", "lookTimed") /\ OnlyMoves

SavePrevious(t) ==
  /\ \/ Goto(t, "savePrevious", "look")
     \/ Goto(t, "savePreviousTimed", "lookTimed")
  /\ previous' = current
  /\ UNCHANGED <<current, isRunning, timer, stopped, status, event, next>>

\* The right-hand side of the assignment of _current, in processEvent and processTimeOut.
Look(t) ==
  /\ \/ /\ Goto(t, "look", "write")
        /\ next' = [next EXCEPT ![t] = Config.transitionMat[event[t]][current]]
     \/ /\ Goto(t, "lookTimed", "write")
        /\ next' = [next EXCEPT ![t] = Config.timerEvent[current].nextState]
  /\ event' = [event EXCEPT ![t] = 0]
  /\ UNCHANGED <<fsmVars, timer, stopped, status>>

Write(t) ==
  /\ Goto(t, "write", "action")
  /\ current' = next[t]
  /\ next' = [next EXCEPT ![t] = InitialState]
  /\ UNCHANGED <<previous, isRunning, timer, stopped, status, event>>
-----------------------------------------------------------------------------
(* runAction: start the timer of the state it finds. The callback only prints. *)

RunAction(t) ==
  /\ Goto(t, "action", IF Timed(Config, current) THEN "expiresAfter" ELSE Home(t))
  /\ OnlyMoves

\* Mutant: the waits there are stay.
ExpiresAfterKeeps(t) == Goto(t, "expiresAfter", "asyncWait") /\ OnlyMoves

\* Mutant: the timer is set but not waited for if a wait was pending.
ExpiresAfterOnly(t) ==
  /\ Goto(t, "expiresAfter", IF timer.waits > 0 THEN Home(t) ELSE "asyncWait")
  /\ timer' = [timer EXCEPT !.waits = 0]
  /\ UNCHANGED <<fsmVars, stopped, status, event, next>>

\* timerStart: expires_after cancels every pending wait, async_wait adds one.
ExpiresAfter(t) ==
  /\ Goto(t, "expiresAfter", "asyncWait")
  /\ timer' = [timer EXCEPT !.waits = 0]
  /\ UNCHANGED <<fsmVars, stopped, status, event, next>>

AsyncWait(t) ==
  /\ Goto(t, "asyncWait", Home(t))
  /\ timer' = [timer EXCEPT !.waits = @ + 1]
  /\ UNCHANGED <<fsmVars, stopped, status, event, next>>
-----------------------------------------------------------------------------
(* The UI thread: UI_thread and stop(). *)

PressKey ==
  /\ Goto("ui", "keys", "checkRunning")
  /\ \E ev \in Keys : event' = [event EXCEPT !["ui"] = ev]
  /\ UNCHANGED <<fsmVars, timer, stopped, status, next>>

PressQuit == Goto("ui", "keys", "stopCheck") /\ OnlyMoves

StopCheck ==
  \/ isRunning /\ Goto("ui", "stopCheck", "stopTimer") /\ OnlyMoves
  \/ ~isRunning /\ Aborts("ui", "stopCheck", "misuse")

StopTimer ==
  /\ Goto("ui", "stopTimer", "kill")
  /\ timer' = [timer EXCEPT !.waits = IF @ > 0 THEN @ - 1 ELSE 0]
  /\ UNCHANGED <<fsmVars, stopped, status, event, next>>

\* Mutant: kill() does not stop the io_context.
KillNothing == Goto("ui", "kill", "clearRunning") /\ OnlyMoves

Kill ==
  /\ Goto("ui", "kill", "clearRunning")
  /\ stopped' = TRUE
  /\ UNCHANGED <<fsmVars, timer, status, event, next>>

ClearRunning ==
  /\ Goto("ui", "clearRunning", "quit")
  /\ isRunning' = FALSE
  /\ UNCHANGED <<current, previous, timer, stopped, status, event, next>>
-----------------------------------------------------------------------------
(* The main thread: start(), then io_context::run. *)

\* doChecking only reads the tables; run() follows the first runAction.
Start ==
  /\ Goto("main", "begin", "action")
  /\ isRunning' = TRUE
  /\ UNCHANGED <<current, previous, timer, stopped, status, event, next>>

\* The reactor is looked at when no handler is ready; every pending wait expires at once.
TimerExpires ==
  /\ status = "alive" /\ pc["main"] = "loop" /\ ~stopped
  /\ timer.expired = 0 /\ timer.waits > 0
  /\ timer' = [waits |-> 0, expired |-> timer.waits]
  /\ UNCHANGED <<fsmVars, stopped, status, pc, event, next, overlap>>

\* timerCallback with code 0: processTimeOut.
TimerCallback ==
  /\ timer.expired > 0 /\ ~stopped
  /\ Goto("main", "loop", "assertTimed")
  /\ timer' = [timer EXCEPT !.expired = @ - 1]
  /\ UNCHANGED <<fsmVars, stopped, status, event, next>>

AssertTimed ==
  \/ Timed(Config, current) /\ Goto("main", "assertTimed", "savePreviousTimed") /\ OnlyMoves
  \/ ~Timed(Config, current) /\ Aborts("main", "assertTimed", "noTimeOut")

\* _rx_handler: getResponse calls processEvent; the answer is sent and the next message
\* waited for after that. Messages may come at any time, or never.
RxHandler ==
  /\ ~stopped
  /\ Goto("main", "loop", "checkRunning")
  /\ \E ev \in Messages : event' = [event EXCEPT !["main"] = ev]
  /\ UNCHANGED <<fsmVars, timer, stopped, status, next>>

\* run() returns, start() does, and main joins the UI thread.
RunReturns == stopped /\ Goto("main", "loop", "returned") /\ OnlyMoves
-----------------------------------------------------------------------------
FsmStep(t) ==
  \/ CheckRunning(t) \/ CheckAllowed(t) \/ CheckTimed(t) \/ Cancel(t) \/ SavePrevious(t)
  \/ Look(t) \/ Write(t) \/ RunAction(t) \/ ExpiresAfter(t) \/ AsyncWait(t)

StopStep == StopCheck \/ StopTimer \/ Kill \/ ClearRunning

UiStep == PressKey \/ PressQuit \/ StopStep \/ FsmStep("ui")

MainStep ==
  Start \/ TimerExpires \/ TimerCallback \/ AssertTimed \/ RxHandler \/ RunReturns \/ FsmStep("main")

Next == MainStep \/ UiStep

Spec == Init /\ [][Next]_vars

\* Both threads are scheduled; nobody has to press a key or to send a message.
Fairness ==
  /\ WF_vars(Start \/ FsmStep("main") \/ TimerExpires \/ TimerCallback \/ AssertTimed \/ RunReturns)
  /\ WF_vars(FsmStep("ui") \/ StopStep)

FairSpec == Spec /\ Fairness
-----------------------------------------------------------------------------
\* The threads never freeze the FSM: when no call is in progress, a state with a time-out
\* has its timer, whatever the two threads did to _current and the timer before. Each of
\* them starts the timer for the state it finds after its own assignment.
QuietStateHasTimer ==
  status = "alive" /\ isRunning /\ ~stopped /\ Busy = {} /\ Timed(Config, current) =>
    timer.waits > 0 \/ timer.expired > 0

\* As long as the calls of the threads do not meet, the FSM moves along its transitions and
\* previousState() is the state it leaves: one action per call, as in SpagFSM, is enough then.
AloneMovesAlongGraph ==
  [][current' # current /\ ~overlap =>
       current' \in Successors(Config, current, {}) /\ previous' = current]_vars

\* The keyboard's q ends the program: once stop() has been called, start() returns, unless an
\* assertion fails on the way.
QuitEnds == pc["ui"] = "stopTimer" ~> (pc["main"] = "returned" \/ status # "alive")

\* "0: ignore event": an FSM on a state only leaves it for a state that a time-out or an
\* event that this state handles leads to.
MovesAlongGraph ==
  [][current' # current => current' \in Successors(Config, current, {})]_vars
=============================================================================
