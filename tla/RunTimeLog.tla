----------------------------- MODULE RunTimeLog -----------------------------
(***************************************************************************)
(* SpagFSM in a build with SPAG_ENABLE_LOGGING: struct RunTimeData         *)
(* (spaghetti.hpp, 555-687), its counters and its log file. logTransition  *)
(* is called when the state has been switched, before runAction; it throws *)
(* if the log file cannot be opened, which is tried at every transition    *)
(* until it succeeds (the file is never closed). The exception leaves the  *)
(* FSM on the new state without its runAction, and leaves                  *)
(* io_context::run() if a handler threw it.                                *)
(***************************************************************************)
EXTENDS SpagFSM, FiniteSetsExt

CONSTANT MaxLogged   \* bound: transitions and ignored events

ASSUME LogAssumption == MaxLogged \in Nat

VARIABLES stateCounter,         \* _stateCounter
          eventCounter,         \* _eventCounter
          ignoredEventCounter,  \* _ignoredEventCounter
          logfile,              \* the lines of _logfile
          isOpen,               \* _logfile.is_open()
          cleared,              \* history: clearCounters() has been called
          bare,                 \* history: the last transition threw before its runAction
          ended                 \* history: a handler threw, and so run() has returned

logVars == <<stateCounter, eventCounter, ignoredEventCounter, logfile, isOpen, cleared, bare,
             ended>>

EventRows == 0 .. AatRow

LogTypeOK ==
  /\ stateCounter \in [States -> Nat] /\ eventCounter \in [EventRows -> Nat]
  /\ ignoredEventCounter \in [Events -> Nat]
  /\ logfile \in Seq([event : EventRows, state : States])
  /\ isOpen \in BOOLEAN /\ cleared \in BOOLEAN /\ bare \in BOOLEAN /\ ended \in BOOLEAN

\* The FSM starts on state 0, so its counter starts at 1.
LogInit ==
  /\ Init
  /\ stateCounter = [st \in States |-> IF st = InitialState THEN 1 ELSE 0]
  /\ eventCounter = [ev \in EventRows |-> 0]
  /\ ignoredEventCounter = [ev \in Events |-> 0]
  /\ logfile = << >> /\ isOpen = FALSE
  /\ cleared = FALSE /\ bare = FALSE /\ ended = FALSE

Total(counter) == MapThenSumSet(LAMBDA i : counter[i], DOMAIN counter)

MayLog == Total(eventCounter) + Total(ignoredEventCounter) < MaxLogged /\ Len(logfile) < MaxLogged
-----------------------------------------------------------------------------
(* RunTimeData. *)

\* Mutant: the event is counted when its line has been written.
CountLate(ev, st, opens) ==
  /\ stateCounter' = [stateCounter EXCEPT ![st] = @ + 1]
  /\ eventCounter' = IF opens THEN [eventCounter EXCEPT ![ev] = @ + 1] ELSE eventCounter
  /\ UNCHANGED <<ignoredEventCounter, cleared>>

\* Mutant: the state that is left is counted.
CountLeft(ev, st, opens) ==
  /\ stateCounter' = [stateCounter EXCEPT ![current] = @ + 1]
  /\ eventCounter' = [eventCounter EXCEPT ![ev] = @ + 1]
  /\ UNCHANGED <<ignoredEventCounter, cleared>>

\* `opens`: whether the log file is, or can be, opened.
Count(ev, st, opens) ==
  /\ eventCounter' = [eventCounter EXCEPT ![ev] = @ + 1]
  /\ stateCounter' = [stateCounter EXCEPT ![st] = @ + 1]
  /\ UNCHANGED <<ignoredEventCounter, cleared>>

\* Mutant: the state that is left is written to the log.
LogTransitionLeft(ev, st) ==
  /\ Count(ev, st, TRUE)
  /\ isOpen' = TRUE
  /\ logfile' = Append(logfile, [event |-> ev, state |-> current])
  /\ bare' = FALSE /\ UNCHANGED ended

\* logTransition, when it returns. print2LogFile numbers the line: its place here.
LogTransition(ev, st) ==
  /\ Count(ev, st, TRUE)
  /\ isOpen' = TRUE
  /\ logfile' = Append(logfile, [event |-> ev, state |-> st])
  /\ bare' = FALSE /\ UNCHANGED ended

\* logTransition, when it throws, in a handler of the loop or in processEvent.
LogTransitionThrows(ev, st, handler) ==
  /\ ~isOpen
  /\ Count(ev, st, FALSE)
  /\ bare' = TRUE /\ ended' = (ended \/ handler)
  /\ UNCHANGED <<isOpen, logfile>>

LogIgnoredEvent(ev) ==
  /\ ignoredEventCounter' = [ignoredEventCounter EXCEPT ![ev] = @ + 1]
  /\ UNCHANGED <<stateCounter, eventCounter, logfile, isOpen, cleared, bare, ended>>

\* Mutant: the rows of time-outs and AATs are not there any more.
ClearCountersShort ==
  /\ MayCall /\ ~cleared
  /\ stateCounter' = [st \in States |-> 0]
  /\ eventCounter' = [ev \in Events |-> 0]
  /\ ignoredEventCounter' = [ev \in Events |-> 0]
  /\ cleared' = TRUE
  /\ UNCHANGED <<vars, logfile, isOpen, bare, ended>>

\* clearCounters(): the counter of the current state is cleared like the others.
ClearCounters ==
  /\ MayCall /\ ~cleared
  /\ stateCounter' = [st \in States |-> 0]
  /\ eventCounter' = [ev \in EventRows |-> 0]
  /\ ignoredEventCounter' = [ev \in Events |-> 0]
  /\ cleared' = TRUE
  /\ UNCHANGED <<vars, logfile, isOpen, bare, ended>>
-----------------------------------------------------------------------------
(* The steps of SpagFSM that log. *)

\* The state is switched, logTransition throws: no timer, no callback, no signal.
SwitchThrows(ev, st, l, handler) ==
  /\ previous' = current /\ current' = st /\ loop' = l
  /\ LogTransitionThrows(ev, st, handler)
  /\ UNCHANGED <<isRunning, innerEventFlag, status, starts>>

\* Mutant: the exception is caught, and the loop goes on.
RunGoesOn(l) == l

\* The exception of a handler ends io_context::run(), and start() with it.
RunEnds(l) == [l EXCEPT !.stopped = TRUE]

LoggedEvent(ev) ==
  /\ MayLog /\ isRunning /\ ~IsInnerEvent(Config, ev)
  /\ \/ /\ Handles(Config, ev, current)
        /\ ProcessEvent(ev)
        /\ LogTransition(ev, Config.transitionMat[ev][current])
     \/ /\ Handles(Config, ev, current) /\ MayCall
        /\ SwitchThrows(ev, Config.transitionMat[ev][current],
                        IF Timed(Config, current) THEN TimerCancel(loop) ELSE loop, FALSE)
     \/ /\ ~Handles(Config, ev, current)
        /\ ProcessEvent(ev)
        /\ LogIgnoredEvent(ev)

LoggedTimeOut ==
  /\ MayLog /\ Timed(Config, current)
  /\ \/ /\ ProcessTimeOut
        /\ LogTransition(TimeOutRow, Config.timerEvent[current].nextState)
     \/ /\ Alive /\ CanRunExpired(loop)
        /\ SwitchThrows(TimeOutRow, Config.timerEvent[current].nextState,
                        RunEnds(TakeExpired(loop)), TRUE)

\* processInnerEvent's ev_idx: the last inner event that fired, or the AAT, also when
\* nothing fired.
SignalLogsAs ==
  LET fired == Fired(current, innerEventFlag)
  IN IF Config.isPassState[current] \/ fired = {} THEN AatRow
     ELSE Config.innerTransList[current][CHOOSE n \in fired : IsLast(n, fired)].event

LoggedSignal ==
  /\ MayLog /\ isRunning
  /\ \/ /\ SignalHandler
        /\ LogTransition(SignalLogsAs, current')
     \/ /\ Alive /\ CanRunSignal(loop)
        /\ \/ /\ Config.isPassState[current]
              /\ previous' = current /\ current' = Config.transitionMat[AatRow][current]
              /\ UNCHANGED innerEventFlag
           \/ /\ ~Config.isPassState[current] /\ Fired(current, innerEventFlag) # {}
              /\ FireInner(current, Fired(current, innerEventFlag))
              /\ innerEventFlag' = ConsumeFlags(current, innerEventFlag)
           \/ /\ ~Config.isPassState[current] /\ Fired(current, innerEventFlag) = {}
              /\ UNCHANGED <<current, previous, innerEventFlag>>
        /\ loop' = RunEnds(TakeSignal(loop))
        /\ LogTransitionThrows(SignalLogsAs, current', TRUE)
        /\ UNCHANGED <<isRunning, status, starts>>

\* The steps that do not log; a second start() is not one of the bounds here.
Unlogged ==
  /\ \/ Start \/ Stop \/ TimerCanceled \/ TimerExpires \/ SignalArrives
     \/ \E ev \in Events : ActivateInnerEvent(ev) \/ ClearInternalEvent(ev)
     \/ ~Timed(Config, current) /\ ProcessTimeOut
     \/ ~isRunning /\ SignalHandler
     \/ \E ev \in Events : (~isRunning \/ IsInnerEvent(Config, ev)) /\ ProcessEvent(ev)
  /\ UNCHANGED logVars

LogNext ==
  \/ \E ev \in Events : LoggedEvent(ev)
  \/ LoggedTimeOut \/ LoggedSignal \/ ClearCounters \/ Unlogged

LogSpec == LogInit /\ [][LogNext]_<<vars, logVars>>
-----------------------------------------------------------------------------
\* Every entry of a state was counted once, and so was the event that led there, also when
\* the log file could not be opened: the totals differ by the initial state only.
CountersBalance ==
  Total(stateCounter) = Total(eventCounter) + (IF cleared THEN 0 ELSE 1)

\* The counters are not behind: unless they were cleared, the current state has been counted.
CurrentStateCounted == cleared \/ stateCounter[current] > 0

\* The state line of the log names the state the event line leads to from the state of the
\* line before. An AAT on a state that is no pass-state is a signal that fired nothing.
LineFollows(line, before) ==
  LET st == before.state  ev == line.event
  IN \/ ev \in Events /\ Handles(Config, ev, st) /\ line.state = Config.transitionMat[ev][st]
     \/ \E n \in DOMAIN Config.innerTransList[st] :
          Config.innerTransList[st][n] = [event |-> ev, dest |-> line.state]
     \/ ev = TimeOutRow /\ Timed(Config, st) /\ line.state = Config.timerEvent[st].nextState
     \/ ev = AatRow /\ Config.isPassState[st] /\ line.state = Config.transitionMat[AatRow][st]
     \/ ev = AatRow /\ ~Config.isPassState[st] /\ line.state = st

\* The log file can be replayed: from its first line on, the FSM's transition table explains
\* every line, and the last one names the current state. Nothing is missing in the middle,
\* whatever failed before the file was opened.
LogReplays ==
  /\ \A n \in 2 .. Len(logfile) : LineFollows(logfile[n], logfile[n - 1])
  /\ isOpen => Len(logfile) > 0 /\ logfile[Len(logfile)].state = current

\* What an exception out of processEvent costs is the state it was thrown on: the next logged
\* transition restores what moves a running FSM off a state with a time-out, the loop that
\* serves it included. One out of a handler ends run(), and nothing heals that.
TimeoutLostOnlyBare == ended \/ bare \/ TimeoutNotLost

\* After a handler threw, no time-out, pass-state or inner event moves the FSM, though it still
\* says it runs and a new timer may have been set: only the events of processEvent do.
AfterThrowOnlyEvents ==
  [][ended /\ current' # current =>
       \E ev \in Events : /\ ~IsInnerEvent(Config, ev) /\ Handles(Config, ev, current)
                          /\ current' = Config.transitionMat[ev][current]]_<<vars, logVars>>

\* "the number of 'Always Active' transitions that were encountered": when the AAT counter
\* goes up, the FSM took one.
AatCounterCountsAats ==
  [][eventCounter'[AatRow] > eventCounter[AatRow] => Config.isPassState[current]]_<<vars, logVars>>
=============================================================================
