# A verification development for Spaghetti

[Spaghetti](../src/README.md) is a header-only C++ library for finite state machines
(`src/spaghetti.hpp`, class `SpagFSM`). A program declares two enumerations, configures
an FSM, gives its states callbacks, and calls `start()`; the FSM then moves on external
events (`processEvent`), on time-outs, along the "always active transitions" (AAT) of
pass-states and along inner transitions, the last two through a POSIX signal that the FSM
raises to itself. Timers and signals come from boost::asio through the class `AsioWrapper`.

This directory holds TLA+ modules of that library, TLC configurations that check them on
small instances, and proofs for every instance. Line numbers below are of
`src/spaghetti.hpp` unless another file is named.

## 1. Inventory

| part | state | operations | how it meets the others |
|---|---|---|---|
| configuration tables (1915-1957) | `_transitionMat`, `_allowedMat`, `_stateInfo`, keys of `_innerEventFlag` | queries `isInnerEvent`, `isReachable`, `doChecking` | written by the configuration functions, read by every run-time function |
| configuration functions (826-1279) | the tables, `_defaultTimerValue`, `_defaultTimerUnit` | `assign...`, `allow...`, `disable...`, `clearTimeOut...` | keep three representations of a transition in step: list, mark, destination |
| FSM at run time (1389-1606, 1842-1903) | `_current`, `_previous`, `_isRunning`, values of `_innerEventFlag` | `start`, `stop`, `processEvent`, `processTimeOut`, `processInnerEvent`, `activateInnerEvent`, `clearInternalEvent`; all end in `runAction` | called by user code and by the handlers of the loop; calls the wrapper and the user's callbacks |
| `AsioWrapper` (2523-2724) | one timer, one `signal_set`, a reference to or an instance of `io_context` | `init`, `kill`, `timerStart`, `timerCancel`, `raiseSignal`; handlers `timerCallback`, `signalHandler` | calls back `processTimeOut` and `processInnerEvent` |
| boost::asio (not in the repository) | pending waits, ready handlers | `run`, `stop`, `cancel_one`, `expires_after`, `signal_set::clear` | runs the handlers, in an order it does not promise |
| run-time log (555-687) | three counters, log file | `logTransition`, `logIgnoredEvent`, `clear` | called between a state change and `runAction`; throws if the file cannot be opened |
| rendering and printing (1970-2100, 2207-2489) | none | `writeDotFile`, `printConfig` | reads the tables |
| samples (`src/src`) | an FSM; a keyboard thread with `g_mutex`; a UDP server on the FSM's loop | `main`, `UI_thread`, `_rx_handler` | configure the FSM; call `processEvent` and `stop` from a second thread and from handlers |
| strings (1281-1387) | names | setters, lookups | none that matters to the behaviour |

The behaviours that are hard to test here:

* the timer. A wait that has already expired cannot be canceled, so its handler runs after
  the state that started it has been left;
* the signal. It says that *some* state wanted to be looked at; the handler looks at the
  state that is current when it runs. Signal, timer and calls of user code meet in any
  order, and a signal can be pending, ready and raised again at once;
* `runAction` starts a timer, runs user code that may stop the FSM, then raises a signal
  and cancels the timer it has just started: each of these may undo the one before;
* `stop()` and callbacks that stop: what is left in the loop must not move the FSM, and
  SIGUSR1 has its default action again, which ends the process;
* the configuration functions keep redundant tables, may be called in any order, and each
  updates a different part of them;
* the keyboard thread of the samples calls `processEvent` while the event loop is inside
  `processTimeOut` or `runAction`: its mutex is taken by nobody else;
* two FSMs in one process share SIGUSR1, and may share the event loop, which `stop()` of
  one stops for both;
* the log: an exception between the change of state and `runAction` leaves an FSM without
  timer, callback or signal.

What makes each part correct: the tables agree where the run time relies on it, and the
warnings and the drawing of the configuration show what the FSM will do; the running FSM
moves along its graph only, and what moves it off a state is always on its way; a stopped
FSM stays where it is; neither another thread nor another FSM takes from an FSM what its
state waits for; the log tells what happened.

`PROJECT.json` lists the hazards one by one at their lines, with the properties that
would catch them, or the reason why none does yet.

## 2. Modules

| module | what it is | code |
|---|---|---|
| `FsmTables` | the tables as one record; `Successors`; the checks of `doChecking` | 331-447, 1831-1834, 1915-1957, 2105-2207 |
| `FsmConfig` | each configuration function as a function from tables to tables, with its precondition | 776-1279 |
| `FsmDot` | the nodes and edges that `writeDotFile` draws | 2335-2456 |
| `FsmConfigApi` | the state machine of a program that makes configuration calls | 776-1279 |
| `Samples` | the configurations of the sample programs, made with the same calls | `src/src/*.cpp`, `traffic_lights_common.hpp` |
| `AsioLoop` | the wrapper and its event loop as one record, with the operations of both | 2523-2724, asio external |
| `SpagFSM` | the FSM at run time, with its properties | 1389-1606, 1842-1903 |
| `FsmGraph` | the abstract FSM: current state, running or not, active inner events | what `SpagFSM` must implement |
| `RunTimeLog` | `SpagFSM` with its counters and its log file | 555-687, and the calls of the log |
| `FsmThreads` | the FSM under a keyboard thread and an event loop, one action per access to a member | 1389-1500, 1842-1903; `traffic_lights_2.cpp`, `traffic_lights_3.cpp`, `traffic_lights_common.hpp`, `turnstyle_2.cpp` |
| `TwoFsms` | two `SpagFSM` in one process | 2523-2724, `sample_2.cpp` |
| `SpagFSMProofs`, `FsmConfigProofs`, `FsmThreadsProofs`, `RunTimeLogProofs`, `TwoFsmsProofs` | the theorems about the modules above, and the lemmas they rest on | |
| `CounterSums` | lemmas about the sum of an array of counters | |
| `MCMixed`, `MCSample1b`, `MCTwoInner`, `MCTwoFsms`, `MCThreads`, `MCLog` | instances for TLC | the samples, `src/tests/testA_3.cpp` |

`SpagFSM` extends `FsmTables` and `AsioLoop`, and instantiates `FsmGraph` for the
refinement. `StartOn(external)` is `start()` on either kind of event loop; `TwoFsms`, whose
loop is a variable, calls it directly. `RunTimeLog` extends `SpagFSM`: each of its actions is an action of `SpagFSM`
with what it logs, or the same action cut short by the exception of `logTransition`.
`TwoFsms` instantiates `SpagFSM` for each FSM, and through it the refinement of each.
`FsmThreads` shares the tables only: it opens up what is one action in `SpagFSM`. No module
declares a `RECURSIVE` operator.

### State and actions of SpagFSM

`current`, `previous`, `isRunning` and `innerEventFlag` are the members of the same name.
`loop` is the record of `AsioLoop`. `status` tells a process that goes on (`alive`) from
one that ended: `misuse` (an assertion on `_isRunning`), `noTimeOut` (the assertion of
`processTimeOut`, line 1427), `killed` (SIGUSR1 while no `signal_set` handles it). `starts`
counts calls of `start()`. A process that ended takes no further step.

One action is one call of user code, one handler of the loop, or one step of the reactor:

| action | code |
|---|---|
| `Start`, `Stop`, `ProcessEvent(ev)`, `ActivateInnerEvent(ev)`, `ClearInternalEvent(ev)` | the functions of these names |
| `ProcessTimeOut`, `TimerCanceled` | `timerCallback` with code 0, with `operation_canceled` |
| `SignalHandler` | `signalHandler` and `processInnerEvent` |
| `TimerExpires`, `SignalArrives` | the reactor of asio (external) |

All but the last two end in `RunAction`, the whole of `runAction`: timer, callback, signal.
The callback is user code: `Callback[st]` is the set of effects the callback of `st` may
have (events it activates, events it clears, whether it stops the FSM), and each call
chooses one. The loop's flags stand for pending waits and ready handlers; the order of
handlers is left open because asio promises none, and several canceled waits are one flag
because their handlers do nothing. A raised signal is counted until a wait takes it.

The build modelled has `SPAG_USE_SIGNALS`, the asio wrapper and assertions, and logging in
`RunTimeLog` only; `SPAG_EXTERNAL_EVENT_LOOP` is the constant `ExternalLoop`.

### State and actions of the modules around it

**`RunTimeLog`.** `stateCounter`, `eventCounter` and `ignoredEventCounter` are the members
`_stateCounter`, `_eventCounter` and `_ignoredEventCounter`; `logfile` holds the lines
written, as pairs of event and state; `isOpen` is `_logfile.is_open()`. Three histories:
`cleared` (the counters have been cleared), `bare` (the last transition threw) and `ended`
(a handler threw).
`LoggedEvent`, `LoggedTimeOut` and `LoggedSignal` each have two outcomes: the step of
`SpagFSM` with `LogTransition`, or, while the file is not open, the change of state with
`LogTransitionThrows` and no `runAction`; an exception in a handler ends
`io_context::run()`, one in `processEvent` reaches the caller, who is taken to catch it.
`ClearCounters` is `clearCounters()`; `Unlogged` is every other step of `SpagFSM`.

**`FsmThreads`.** `current`, `previous`, `isRunning` and `timer` are read and written by
both threads; `pc`, `event` and `next` are where a thread is, what it processes and what it
is about to assign; `overlap` is a history. `CheckRunning` to `Write` are `processEvent`
(1461-1500) and the assignments of `processTimeOut` (1424-1434), `RunAction`,
`ExpiresAfter` and `AsyncWait` the start of the timer in `runAction`; `PressKey`,
`PressQuit` and `StopCheck` to `ClearRunning` are `UI_thread` and `stop`; `Start`,
`TimerExpires`, `TimerCallback`, `AssertTimed`, `RxHandler` and `RunReturns` the main
thread. `g_mutex` does not appear because one thread only takes it.

**`TwoFsms`.** The variables of two `SpagFSM` (suffixes `A` and `B`), `status` of the
process, and `oneLoop`: whether they share an external `io_context` or each `start()` runs
its own. A step of one FSM is its step in `SpagFSM`, and what it does to the other's loop
(`Hears`): a raised signal reaches the other's `signal_set`, and `kill()` stops a shared
`io_context`. A loop of its own counts the signals it hears up to `MaxBacklog`; on a shared
external loop, where nobody takes a signal, they are counted without a bound of their own,
and every call but `processEvent` is made whatever the count.

**`FsmConfigApi`.** `tables` is the FSM being configured, `copied` one that takes its
configuration with `assignConfig`, `default` the default time-out. One action per group of
configuration calls; a call that throws is not a step.

### Choices that limit what the models say

* **Whole calls.** In `SpagFSM` a call runs to its end before the next starts. That is what
  happens when all calls come from the loop's thread. The samples with a keyboard thread
  call `processEvent` from a second one; `FsmThreads` says what is left then, and
  `AloneMovesAlongGraph` that calls that do not meet are the whole calls of `SpagFSM`. In
  `FsmThreads` a member is a word, a timer operation is atomic, there are no signals or
  inner events (the three samples have none), and callbacks only print.
* **Callbacks** activate, clear and stop. They do not call `processEvent`, and they do not
  change the configuration.
* **Fixed configuration.** The tables do not change after `start()`.
* **`FsmConfigApi`** follows three conventions of the samples and the manual: an event is
  used as an external or as an inner one, matrices are assigned before pass-states and
  inner transitions, a state has one inner transition per event. Without them the tables
  disagree at once; the lines where that bites are among the hazards.

## 3. What is checked

| run | instance | question | states |
|---|---|---|---|
| `mixed` | `MCMixed`: two timed states, one of them with an inner transition as well, a pass-state that handles the reset as well, a final state, one state never connected; fair | Does anything a state waits for get lost? Does the FSM move along its graph only? Are states left, and activated events used? | 724 |
| `restart` | `sample_1b` with a time-out on the state that has the inner transition; user code activates and clears events at any time; two starts | What is kept then? What still moves an FSM that was started again? | 2936 |
| `config_api` | two states, two events, any four calls | Do the tables agree where the run time relies on it; are the warnings of `doChecking` and the drawing right? | 642 000 |
| `two_fsms` | `traffic_lights_1c` beside FSM B of `sample_2` with a second pass-state, on one loop or on two; fair | Does one FSM take from the other what its state waits for? What can hold an FSM on its state? | 53 500 |
| `threads` | `turnstyle_2`, with messages as in `traffic_lights_3`; fair | What do unsynchronized calls leave intact? | 11 600 |
| `log` | `MCMixed` with logging, a file that may fail to open | Do counters, log and FSM agree, and what does an exception cost? | 48 600 |
| `stale_timeout` | `MCMixed` | the assertion of `processTimeOut`: violated | |
| `two_inner` | a state with two inner transitions | `previousState()`: violated | |
| `external_loop` | `sample_2` | pass-states are left: violated | |
| `config_copy` | as `config_api`, five calls | `assignConfig` copies all the configuration: violated | |
| `threads_race` | `traffic_lights_3` | the FSM moves along its transitions: violated | |
| `log_aat` | as `log` | the AAT counter counts AATs: violated | |

Deadlock is not checked: an FSM that stopped, or whose process ended, has no next step, and
a program may stop making configuration calls.

**Safety at run time.** `PassStateSignalled`, `TimeoutNotLost` and `InnerEventSignalled`
say that what will move the FSM off its state (the signal for an AAT, the timer, the signal
for an inner event) is still on its way, whatever other handlers and calls did in between.
`TimeoutNotLost` also asks for a loop that has not been stopped, and so it is stated of an
FSM that was started once; `TimeoutKept` is its part without the loop, for two FSMs.
They hold because *every* path ends in `runAction`, even a signal that found nothing to
fire: the mutant `SignalHandlerReturnsEarly`, which looks like an optimisation, loses a
time-out. `NoHandlerAfterStop` says that the loop leaves a stopped FSM alone;
`processTimeOut`, which does not look at `_isRunning`, depends on it. `NeverKilled` says
that the FSM does not raise a signal nobody handles. `ImplementsGraph` is the refinement to
`FsmGraph`; which events are active is left open there, so that it does not say when an
inner event is used up. `UnreachableNeverEntered` and `DeadEndNeverLeft` relate the warnings of
`doChecking` to the runs of the FSM.

**Second start.** `start()` after `stop()` runs nothing: the `io_context` stays stopped,
because nobody calls its `restart()`. The FSM says it runs, its timer is set and nobody waits
for it. `RestartedMovesByEvents` is what that leaves: no time-out, pass-state or inner event
moves the FSM any more, only `processEvent` does. `NeverKilled` says nothing of a second
start, where the first signal that is raised ends the process.

**Liveness.** `PassStateLeft`, `TimedStateLeft` and `InnerEventTaken` assume weak fairness
of the handlers and of the reactor: `io_context::run` executes every handler that becomes
ready, time passes, and a raised signal is delivered. User code owes nothing: it may send
events for ever, never, or stop the FSM (which counts as leaving the state). A state whose
time-out leads to itself is excluded from `TimedStateLeft`.

`QuitEnds` assumes that both threads are scheduled; nobody has to press a key or send a
message.

The fairness of `TwoFsms` is one weak fairness per FSM, of all steps of its loop together:
`run()` goes on while it has something to do. Nothing is assumed of the timer by itself. A
foreign signal starts it again; if signals come faster than the duration of the state, it
never expires, and such behaviours are fair here.

**Two FSMs.** `SignalsKept` and `TimeoutsKept` say that a foreign signal uses up nothing:
its handler looks at the state it finds, fires what is due, and starts the timer again.
`BothImplementGraph` says that it moves the FSM nowhere it would not go by itself.

`TimedStatesLeft` names what may hold an FSM on a timed state. With a loop of its own, that
is the other FSM, as long as it runs and its signals keep coming; the last signals it raised,
and its `stop()`, do not. On a shared loop signals are not handled and cannot delay anything;
there it is a stop of the loop, by either FSM. States that also wait for a signal are left
out on a shared loop, because no signal is handled there (finding 3). `OwnPassStatesLeft`
says that foreign signals do not keep an FSM with a loop of its own on its pass-states.

**Two threads.** `QuietStateHasTimer`: whatever the calls did to `_current` and the timer
while they met, each starts the timer for the state it finds *after* its own assignment, so
that an FSM nobody is working on never sits on a timed state without a timer. `QuitEnds`:
the quit key ends the program. What does not hold is `MovesAlongGraph` (finding 5).

**Log.** `CountersBalance` and `LogReplays` hold although `logTransition` may throw,
because it counts before it writes and because a file once open stays open;
What an exception costs depends on who threw it. Out of `processEvent` it reaches the
caller, and `TimeoutLostOnlyBare` says that the damage is confined to the state it was
thrown on: the next transition that is logged runs `runAction` again, on a loop that serves
the timer. Out of a handler it ends `io_context::run()`, and with it everything but external
events (`AfterThrowOnlyEvents`): later transitions set timers that nobody waits for.

**Configuration.** `InnerMarksBacked`, `ConfiguredEventsRegistered` and `PassStateMovesOn`
are the agreement between the tables that `processInnerEvent` and `runAction` assume;
`ReachableWarningRight` and `DeadEndWarningRight` compare `doChecking` with `Successors`
for all tables the calls can build. They say that a warning that is given is right, not
that none is missing: a mark of 2 in the matrix of allowed events, or one that
`allowAllEvents` has overwritten, may suppress one. `OnlyEventsOfPassStatesUndrawn` and
`DrawnEdgesEndOnNodes` compare the tables with the edges `writeDotFile` collects from four
places: all that is not drawn are the events of pass-states, which the running FSM takes if
they were assigned after the AAT (1161). A drawing without the unreachable states may also
leave out the initial state, which no property forbids.

**Findings.** The six violations are described in `PROJECT.json`, each with the text it
contradicts:

1. the handler of an expired timer runs on the next state (1427, 2639);
2. two active inner events of one state fire in one step (1582-1597);
3. with an external event loop the signal has no handler (1398): FSM B of `sample_2` stays
   on its pass-state;
4. `assignConfig` leaves out the map of inner events (1268-1279);
5. `_current` is assigned by two threads (1429): a reset from the keyboard is lost, and the
   FSM makes a move that is no transition;
6. a signal that finds nothing to fire is counted as an AAT (1570).

### Bounds

* `MaxBacklog` = 2: `processEvent` (and `clearCounters`) waits while two signals are
  unhandled; `start`, `stop` and the calls on inner events do not. One pending signal and one
  ready handler with a further one raised is all a handler can tell apart: it takes one and
  looks at the state. It is 1 in `log` and in `two_fsms`. There a foreign signal that finds
  the backlog of an own loop full is merged with the one waiting, as a process's pending
  signals are; a shared loop has no such limit. It is 2 in `external_loop`.
* `MaxStarts` = 1, 2 in `restart`: a second start is enough to meet a stopped loop and an
  empty `signal_set`; every further one finds the same.
* 5 states and 3 events: one state per kind of state, one event per kind of event; a
  transition looks at its source and its destination only. `two_fsms`, `threads_race` and
  `external_loop` take the numbers of the samples.
* `MaxCalls` = 4 on 2 states and 2 events (5 in `config_copy`): any two configuration
  functions, on the same state or on two, with the calls that prepare them. Whole matrices
  are single calls, so every external graph on two states is reached by two of them. A
  program may write 0, 1 or another number in the matrix of allowed events (`MatValues`).
* `MaxLogged` = 4 transitions and ignored events: a failed opening, one that succeeds, a
  transition after it, and one more, with the counters cleared anywhere between.
* `Durations` has one value besides the default.

Every property of a passing run has a mutant of the code that violates it (`PROJECT.json`,
`mutants`); the mutated operator stands before the operator it replaces.

## 4. What is proved

Every theorem holds for all values of the constants that the assumptions of its module
allow: `EnumSizes` (the constructor's `static_assert`), the typing of the parameters, and
for the running FSM that its configuration is well-typed and every inner transition's event
has a flag. That this last one is true of every FSM configured through the API is itself a
theorem (`TablesTyped`, `EventsHaveFlags`). No theorem assumes anything about time, or about
the order in which the loop runs its handlers.

| module | theorem | statement |
|---|---|---|
| `FsmConfigProofs` | `TablesTyped` | `Spec => []TypeOK` |
| | `EventsHaveFlags`, `MarksHaveTransitions`, `AatsMoveOn` | `[]ConfiguredEventsRegistered`, `[]InnerMarksBacked`, `[]PassStateMovesOn` |
| | `ListsShown` | `[]InnerTransitionsShown(tables)` |
| | `DeadEndsAreRight`, `UnreachablesAreRight` | `[]DeadEndWarningRight`, `[]ReachableWarningRight` |
| | `MovesDrawn`, `DrawingClosed` | `[]OnlyEventsOfPassStatesUndrawn`, `[]DrawnEdgesEndOnNodes` |
| `SpagFSMProofs` | `TypeCorrect` | `Spec => []TypeOK` |
| | `HandlersStopped` | `[]NoHandlerAfterStop` |
| | `PassStatesSignalled`, `TimeoutsNotLost`, `InnerEventsSignalled` | the three properties of what a state waits for |
| | `SecondStart` | `Spec => RestartedMovesByEvents` |
| | `KillsNobody` | `[]NeverKilled` |
| | `Implementation` | `Spec => ImplementsGraph` |
| | `UnreachableStates` | `[]UnreachableNeverEntered` |
| | `DeadEndStates` | `DeadEndNeverLeft`, if the matrices agree with the lists (`InnerTransitionsShown`) |
| | `PreviousState` | `PreviousIsPredecessor`, if no state has two inner transitions |
| `RunTimeLogProofs` | `LogTyped` | `LogSpec => []LogTypeOK` |
| | `CountersKeepUp`, `CountersBalanced` | `[]CurrentStateCounted`, `[]CountersBalance` |
| | `LogReplayed` | `[]LogReplays` |
| | `NextTransitionHeals`, `ThrowEndsRun` | `[]TimeoutLostOnlyBare`, `LogSpec => AfterThrowOnlyEvents` |
| `FsmThreadsProofs` | `ThreadsTyped` | `Spec => []TypeOK` |
| | `ThreadsKeepTimer` | `[]QuietStateHasTimer` |
| | `AloneIsSound` | `Spec => AloneMovesAlongGraph` |
| `TwoFsmsProofs` | `TwoSignalsKept`, `TwoTimeoutsKept` | `[]SignalsKept`, `[]TimeoutsKept` |
| | `TwoImplementations` | `Spec => BothImplementGraph` |

### The configuration

The properties of `FsmConfigApi` are proved together: each speaks of one of the three
representations of a transition, and calls that must keep it look at another. `ApiInv`
ties them together state by state (`ConsistentAt`): each list of inner transitions has
one entry per event, every entry's event has a flag, the matrices lead where the list
does and do not ignore the event, every mark -1 belongs to an entry, and an AAT leaves
its state. The tables that `assignConfig` filled keep their types and the last part
only, because it does not copy the flags (finding 4). The lemmas of the first part say
of each configuration function which part of the tables it leaves alone, so that the
proof of a call looks at the state it touches only.

`InnerTransitionsShown`, a part of this invariant, is what `DeadEndStates` assumes: the
dead-end warning looks at the matrices, the running FSM takes inner transitions from the
lists. With `ListsShown` the warning's promise about a *running* FSM therefore holds for
everything that is configured by the conventions of section 2. The condition is weaker than
"every inner transition has the mark -1", which is not an invariant: `allowAllEvents`
overwrites marks (the to-do at line 1169).

### The FSM at run time

`RunActionEffect` says what `runAction` leaves behind, for any loop and any callback.
`UserCallKind` and `LoopStepKind` sort the steps into four kinds (`Kinds`): `runAction` ran
on a state that is the old one or a successor (`Ran`), the process failed, the FSM was
stopped, or only the loop changed and lost nothing (`Quiet`). Each invariant is then a proof
of four cases. `StepKind` needs to know that a stopped FSM has no timer left to run
(`TimersStopped`), because `processTimeOut` runs without looking at `_isRunning`; that
invariant is therefore proved first, and is all the other theorems need of
`NoHandlerAfterStop`. The three waiting properties are proved together (`Waiting`), and
`NeverKilled` follows from `SignalHandled`, which also says that the `signal_set` still
handles SIGUSR1 while the FSM runs or has never been started. `TimeoutsNotLost` and
`SecondStart` need to know when the loop is stopped: not before the FSM has been stopped
once, and ever after (`StoppedForGood`). On a stopped loop no handler runs, so that a step
that moves the FSM is a `processEvent` (`StoppedMoves`). The refinement maps `Ran` to
`Launch`, `Move` or `Stay` and the other kinds to `Stay`. The condition of `PreviousState`
is what finding 2 is about.

### The log

`LogStepKind` sorts the steps of `RunTimeLog` in the same way: a line was written between
the switch and `runAction` (`Wrote`), it could not be and `runAction` was skipped (`Threw`),
an event was ignored, the counters were cleared, or a step of `SpagFSM` moved nothing and
logged nothing (`Silent`). `TypeOK` and `TimersStopped` of `SpagFSM` are proved again for
`LogSpec`, because a step cut short by an exception is no step of `SpagFSM`. `LogReplays` is
not inductive: a transition whose line is missing would break it if later lines followed
older ones. It is proved with `Replayable`: there is no line before the file is open, and
afterwards nothing throws. `ThrowEndsRun` follows from `EndedForGood`: the loop that a
handler's exception ended stays so, as after a stop; `NextTransitionHeals` takes from the
same invariant that otherwise a running FSM, started once, has a loop that serves it.

`CountersBalance` sums over an array of any length, with the fold of the community modules,
a recursive function. `CounterSums` proves what counting does to such a sum. Its induction
runs over the *set* of the sizes for which a claim holds (`SizeInduction`, from the
well-foundedness of `<` on the naturals): a set is a value, where the library's induction
theorems take an operator, and so every step stays first-order.

### Two threads

`QuietStateHasTimer` speaks of moments when no call is in progress; between them the timer
may be missing. `ThreadsInv` says who still owes it then (`TimerOwed`: some thread is at a
place from where it will start the timer, or stop everything), and counts the waits
(`WaitsCounted`: `async_wait` is only reached after `expires_after` has removed the older
waits), which is where the hazard of line 2678 would bite. `AloneMovesAlongGraph` follows
from `CallSound`: while no calls met, what a call read of `_current` still holds where it
writes. The proof also corrected `TypeOK`: `event` may be 0 although there is no event,
since the enumeration of events may be empty; `EventHeld` says that wherever a thread uses
its event, it is one.

### Two FSMs

The last part of `SpagFSMProofs`, "An FSM among others", says what one FSM keeps
(`AmongOthers`) under its own steps (`OwnStep`) and under anything that leaves its members
alone, loses nothing in its loop, and may raise its signal or stop its loop (`Foreign`,
`ForeignStep`). `TwoFsmsProofs` instantiates it for each FSM and shows that a step of one is
such a foreign step for the other (`HearsLoop`). `NoHandlerAfterStop` is not part of it: the
loop of an FSM that has not been started counts the signals of the other. It assumes of each
FSM what `SpagFSM` assumes of one (`FsmsAssumption`), and nothing of how they share the
loop.

### Only model-checked

* Liveness, which needs fairness and `ENABLED`: `PassStateLeft`, `TimedStateLeft`,
  `InnerEventTaken`, `QuitEnds`, `TimedStatesLeft`, `OwnPassStatesLeft`. Their safety half,
  that what moves the FSM on is on its way, is proved.
* The six violations, which are single behaviours.

## 5. Not modelled

* Names and strings: `assignString2State`, `assignString2Event`, `checkUnicity`, the
  lookups by name, unit strings. They do not affect how the FSM moves.
* The assignment of callbacks and their arguments (`assignCallback`,
  `assignCallbackAutoval`): what callbacks may do is the parameter `Callback`.
* The text of `printConfig`, of the dot file, of the log and of the counters; `getCounters`
  (a copy); `setLogFileName` after the first line; time stamps.
* Re-entrant callbacks: `processEvent` from inside `runAction`.
* Configuration calls on a running FSM.
* Two threads with signals or inner events, data races inside asio or on the log, and
  what a compiler may do with unsynchronized members beyond reading and writing words.
* More than two FSMs in a process; error codes of asio other than 0 and
  `operation_canceled`.
* Builds with `NDEBUG`, and the FSM without timer (`priv::NoTimer`), whose steps are those
  of `SpagFSM` without time-outs and signals.
* Bytes: the UDP client and the messages, the keys, the terminal.

## 6. Plan

Done: the configuration and its drawing, the FSM at run time with its abstract
specification, its log, its use by two threads, two FSMs in one process, the samples as
instances, and the proofs of every safety property that the passing runs check.

1. Re-entrant callbacks, with the outer call's stale `stateInfo`.
2. Configuration calls on a running FSM: `clearTimeOut` on a state whose timer is pending.
3. Each instance of `Samples` built by the calls of `FsmConfigApi`, so that the theorems
   about configured FSMs apply to the samples without a check of their tables.
