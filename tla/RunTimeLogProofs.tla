--------------------------- MODULE RunTimeLogProofs ---------------------------
(***************************************************************************)
(* Theorems about RunTimeLog, for every configuration, callback and bound: *)
(* what the log, the counters and the FSM have to do with each other when  *)
(* logTransition may throw.                                                *)
(***************************************************************************)
EXTENDS RunTimeLog, SpagFSMProofs, CounterSums

\* The transition table explains a line that names event ev and state st, written on the
\* current state.
Explained(ev, st) ==
  LineFollows([event |-> ev, state |-> st], [event |-> ev, state |-> current])

\* The steps are of five kinds. A line was written, after the switch and before runAction;
Wrote ==
  \E ev \in EventRows, st \in States :
    /\ Next /\ current' = st /\ LogTransition(ev, st) /\ Explained(ev, st)
    /\ \E flags \in [InnerEvents -> BOOLEAN], l \in Loops, rearm \in BOOLEAN :
         RunAction(st, TRUE, flags, l, rearm)

\* the line could not be written, and runAction was skipped, in a handler or not;
Threw ==
  \E ev \in EventRows, st \in States, handler \in BOOLEAN :
    /\ Alive /\ isRunning /\ current' = st /\ previous' \in States
    /\ innerEventFlag' \in [InnerEvents -> BOOLEAN] /\ loop' \in Loops
    /\ UNCHANGED <<isRunning, status, starts>>
    /\ loop'.stopped = (loop.stopped \/ handler)
    /\ LogTransitionThrows(ev, st, handler)

\* an event was ignored, and counted;
Ignored == UNCHANGED vars /\ \E ev \in Events : LogIgnoredEvent(ev)

\* the counters were cleared;
Cleared ==
  /\ UNCHANGED <<vars, logfile, isOpen, bare, ended>> /\ cleared' = TRUE
  /\ stateCounter' = [st \in States |-> 0] /\ eventCounter' = [ev \in EventRows |-> 0]
  /\ ignoredEventCounter' = [ev \in Events |-> 0]

\* or the FSM stayed where it is and nothing was logged.
Silent == [Next]_vars /\ UNCHANGED current /\ UNCHANGED logVars

LEMMA Rows == Events \subseteq EventRows /\ TimeOutRow \in EventRows /\ AatRow \in EventRows
BY EnumSizes DEF Events, EventRows, TimeOutRow, AatRow

LEMMA LoggedEventKind ==
  ASSUME TypeOK, NEW ev \in Events, LoggedEvent(ev)
  PROVE  Wrote \/ Threw \/ Ignored
<1> DEFINE st == Config.transitionMat[ev][current]
           l == IF Timed(Config, current) THEN TimerCancel(loop) ELSE loop
<1>1. st \in States /\ ev \in EventRows
  BY ConfigTypes, Rows DEF TypeOK
<1>2. l \in Loops /\ l.stopped = (loop.stopped \/ FALSE)
  BY LoopTypes, QuietLoops DEF TypeOK, Loops
<1>3. isRunning /\ ~IsInnerEvent(Config, ev)
  BY DEF LoggedEvent
<1>4. CASE Handles(Config, ev, current) /\ ProcessEvent(ev) /\ LogTransition(ev, st)
  <2>1. /\ RunAction(st, TRUE, innerEventFlag, l, FALSE) /\ current' = st
    BY <1>3, <1>4 DEF ProcessEvent, SwitchTo
  <2>2. Next
    BY <1>4 DEF Next, UserCall
  <2>3. Explained(ev, st)
    BY <1>4 DEF Explained, LineFollows
  <2>4. innerEventFlag \in [InnerEvents -> BOOLEAN] /\ FALSE \in BOOLEAN
    BY DEF TypeOK
  <2> HIDE DEF st, l
  <2> QED BY <1>1, <1>2, <1>4, <2>1, <2>2, <2>3, <2>4 DEF Wrote
<1>5. CASE MayCall /\ SwitchThrows(ev, st, l, FALSE)
  <2> HIDE DEF st, l
  <2> QED BY <1>1, <1>2, <1>3, <1>5 DEF Threw, SwitchThrows, MayCall, TypeOK
<1>6. CASE ~Handles(Config, ev, current) /\ ProcessEvent(ev) /\ LogIgnoredEvent(ev)
  <2>1. UNCHANGED vars
    BY <1>3, <1>6 DEF ProcessEvent
  <2> QED BY <1>6, <2>1 DEF Ignored
<1> QED BY <1>4, <1>5, <1>6 DEF LoggedEvent

LEMMA LoggedTimeOutKind ==
  ASSUME TypeOK, TimersStopped, LoggedTimeOut
  PROVE  Wrote \/ Threw
<1> DEFINE st == Config.timerEvent[current].nextState
           l == TakeExpired(loop)
<1>1. st \in States /\ TimeOutRow \in EventRows
  BY ConfigTypes, Rows DEF TypeOK
<1>2. l \in Loops /\ RunEnds(l) \in Loops /\ RunEnds(l).stopped = (loop.stopped \/ TRUE)
  <2>1. l \in Loops
    BY LoopTypes DEF TypeOK
  <2> QED BY <2>1 DEF RunEnds, Loops
<1>3. Timed(Config, current)
  BY DEF LoggedTimeOut
<1>4. Alive /\ CanRunExpired(loop) => isRunning
  BY DEF TimersStopped, CanRunExpired
<1>5. CASE ProcessTimeOut /\ LogTransition(TimeOutRow, st)
  <2>1. isRunning = TRUE
    BY <1>4, <1>5 DEF ProcessTimeOut, TypeOK
  <2>2. RunAction(st, TRUE, innerEventFlag, l, FALSE) /\ current' = st
    BY <1>3, <1>5, <2>1 DEF ProcessTimeOut, SwitchTo
  <2>3. Next
    BY <1>5 DEF Next, LoopStep
  <2>4. Explained(TimeOutRow, st)
    BY <1>3 DEF Explained, LineFollows
  <2>5. innerEventFlag \in [InnerEvents -> BOOLEAN] /\ FALSE \in BOOLEAN
    BY DEF TypeOK
  <2> HIDE DEF st, l
  <2> QED BY <1>1, <1>2, <1>5, <2>2, <2>3, <2>4, <2>5 DEF Wrote
<1>6. CASE Alive /\ CanRunExpired(loop) /\ SwitchThrows(TimeOutRow, st, RunEnds(l), TRUE)
  <2> HIDE DEF st, l
  <2> QED BY <1>1, <1>2, <1>4, <1>6 DEF Threw, SwitchThrows, TypeOK
<1> QED BY <1>5, <1>6 DEF LoggedTimeOut

\* The line of inner transitions that fire names the last of them.
LEMMA FiredLine ==
  ASSUME TypeOK, ~Config.isPassState[current],
         FireInner(current, Fired(current, innerEventFlag))
  PROVE  /\ current' \in States /\ previous' \in States /\ SignalLogsAs \in EventRows
         /\ Explained(SignalLogsAs, current')
<1> DEFINE fired == Fired(current, innerEventFlag)
           list == Config.innerTransList[current]
<1>1. PICK last \in fired : IsLast(last, fired) /\ current' = list[last].dest
  BY DEF FireInner
<1>2. list \in Seq(InnerTransition)
  BY ConfigAssumption DEF TypeOK, Tables
<1>3. fired \subseteq DOMAIN list /\ DOMAIN list \subseteq Nat
  BY <1>2 DEF Fired
<1>4. \A n \in fired : IsLast(n, fired) => n = last
  BY <1>1, <1>3 DEF IsLast
<1> HIDE DEF fired, list
<1>5. (CHOOSE n \in fired : IsLast(n, fired)) = last
  BY <1>1, <1>4
<1>6. SignalLogsAs = list[last].event
  BY <1>1, <1>5 DEF SignalLogsAs, fired, list
<1>7. list[last] \in InnerTransition
  BY <1>1, <1>2, <1>3
<1>8. list[last] = [event |-> list[last].event, dest |-> list[last].dest]
  BY <1>7 DEF InnerTransition
<1>9. list[last].event \in Events /\ list[last].dest \in States
  BY <1>7 DEF InnerTransition
<1>10. Explained(SignalLogsAs, current')
  BY <1>1, <1>3, <1>6, <1>8 DEF Explained, LineFollows, list
<1>11. previous' \in States
  BY FireInnerEffect DEF TypeOK
<1> QED BY <1>1, <1>6, <1>9, <1>10, <1>11, Rows

LEMMA LoggedSignalKind ==
  ASSUME TypeOK, LoggedSignal
  PROVE  Wrote \/ Threw
<1> DEFINE l == TakeSignal(loop)
           fired == Fired(current, innerEventFlag)
<1>1. l \in Loops /\ RunEnds(l) \in Loops /\ RunEnds(l).stopped = (loop.stopped \/ TRUE)
  <2>1. l \in Loops
    BY LoopTypes DEF TypeOK
  <2> QED BY <2>1 DEF RunEnds, Loops
<1>2. isRunning = TRUE /\ current \in States
  BY DEF LoggedSignal, TypeOK
<1>3. innerEventFlag \in [InnerEvents -> BOOLEAN]
      /\ ConsumeFlags(current, innerEventFlag) \in [InnerEvents -> BOOLEAN]
  BY DEF TypeOK, ConsumeFlags
\* What is logged, for each of the three things a signal may do.
<1>4. ASSUME Config.isPassState[current], current' = Config.transitionMat[AatRow][current]
      PROVE  /\ current' \in States /\ SignalLogsAs \in EventRows
             /\ Explained(SignalLogsAs, current')
  <2>1. SignalLogsAs = AatRow
    BY <1>4 DEF SignalLogsAs
  <2> QED BY <1>2, <1>4, <2>1, ConfigTypes, Rows DEF Explained, LineFollows
<1>5. ASSUME ~Config.isPassState[current], fired = {}, current' = current
      PROVE  /\ current' \in States /\ SignalLogsAs \in EventRows
             /\ Explained(SignalLogsAs, current')
  <2>1. SignalLogsAs = AatRow
    BY <1>5 DEF SignalLogsAs
  <2> QED BY <1>2, <1>5, <2>1, Rows DEF Explained, LineFollows
<1>6. ASSUME ~Config.isPassState[current], FireInner(current, fired)
      PROVE  /\ current' \in States /\ previous' \in States /\ SignalLogsAs \in EventRows
             /\ Explained(SignalLogsAs, current')
  BY <1>6, FiredLine
<1>7. CASE SignalHandler /\ LogTransition(SignalLogsAs, current')
  <2>1. Next
    BY <1>7 DEF Next, LoopStep
  <2>2. /\ current' \in States /\ SignalLogsAs \in EventRows
        /\ Explained(SignalLogsAs, current')
    BY <1>2, <1>4, <1>5, <1>6, <1>7 DEF SignalHandler, SwitchTo
  <2>3. \E flags \in [InnerEvents -> BOOLEAN] : RunAction(current', TRUE, flags, l, TRUE)
    BY <1>2, <1>3, <1>7 DEF SignalHandler, SwitchTo
  <2> HIDE DEF l
  <2> QED BY <1>1, <1>7, <2>1, <2>2, <2>3 DEF Wrote
<1>8. CASE /\ Alive /\ loop' = RunEnds(l) /\ LogTransitionThrows(SignalLogsAs, current', TRUE)
           /\ UNCHANGED <<isRunning, status, starts>>
           /\ \/ /\ Config.isPassState[current]
                 /\ previous' = current /\ current' = Config.transitionMat[AatRow][current]
                 /\ UNCHANGED innerEventFlag
              \/ /\ ~Config.isPassState[current] /\ fired # {}
                 /\ FireInner(current, fired)
                 /\ innerEventFlag' = ConsumeFlags(current, innerEventFlag)
              \/ /\ ~Config.isPassState[current] /\ fired = {}
                 /\ UNCHANGED <<current, previous, innerEventFlag>>
  <2>1. /\ current' \in States /\ previous' \in States /\ SignalLogsAs \in EventRows
        /\ innerEventFlag' \in [InnerEvents -> BOOLEAN]
    <3> HIDE DEF fired
    <3> QED BY <1>2, <1>3, <1>4, <1>5, <1>6, <1>8 DEF TypeOK
  <2> HIDE DEF l, fired
  <2> QED BY <1>1, <1>2, <1>8, <2>1 DEF Threw
<1> QED BY <1>7, <1>8 DEF LoggedSignal

LEMMA UnloggedKind ==
  ASSUME TypeOK, Unlogged
  PROVE  Silent
<1> USE DEF Silent
<1>1. UNCHANGED logVars
  BY DEF Unlogged
<1>2. CASE Start \/ Stop
  <2>1. Next
    BY <1>2 DEF Next, UserCall
  <2> QED BY <1>1, <1>2, <2>1 DEF Start, StartOn, Stop, Fails, fsmVars
<1>3. CASE TimerCanceled \/ TimerExpires \/ SignalArrives
  <2>1. Next
    BY <1>3 DEF Next, LoopStep
  <2> QED BY <1>1, <1>3, <2>1 DEF TimerCanceled, TimerExpires, SignalArrives, fsmVars
<1>4. CASE \E ev \in Events : ActivateInnerEvent(ev) \/ ClearInternalEvent(ev)
  <2>1. Next
    BY <1>4 DEF Next, UserCall
  <2> QED BY <1>1, <1>4, <2>1 DEF ActivateInnerEvent, ClearInternalEvent
<1>5. CASE ~Timed(Config, current) /\ ProcessTimeOut
  <2>1. Next
    BY <1>5 DEF Next, LoopStep
  <2> QED BY <1>1, <1>5, <2>1 DEF ProcessTimeOut, Fails, fsmVars
<1>6. CASE ~isRunning /\ SignalHandler
  <2>1. Next
    BY <1>6 DEF Next, LoopStep
  <2> QED BY <1>1, <1>6, <2>1 DEF SignalHandler, Fails, fsmVars
<1>7. CASE \E ev \in Events : (~isRunning \/ IsInnerEvent(Config, ev)) /\ ProcessEvent(ev)
  <2>1. Next
    BY <1>7 DEF Next, UserCall
  <2> QED BY <1>1, <1>7, <2>1 DEF ProcessEvent, Fails, fsmVars, vars
<1> QED BY <1>2, <1>3, <1>4, <1>5, <1>6, <1>7 DEF Unlogged

LEMMA LogStepKind ==
  ASSUME TypeOK, TimersStopped, [LogNext]_<<vars, logVars>>
  PROVE  Wrote \/ Threw \/ Ignored \/ Cleared \/ Silent
<1>1. CASE UNCHANGED <<vars, logVars>>
  BY <1>1 DEF Silent, vars
<1>2. CASE ClearCounters
  BY <1>2 DEF ClearCounters, Cleared
<1> QED BY <1>1, <1>2, LoggedEventKind, LoggedTimeOutKind, LoggedSignalKind, UnloggedKind
        DEF LogNext
-----------------------------------------------------------------------------
(* The FSM's own invariants survive logging. *)

\* An exception leaves the types alone, and a running FSM running.
LEMMA LogKeepsFsm ==
  ASSUME TypeOK, TimersStopped, [LogNext]_<<vars, logVars>>
  PROVE  TypeOK' /\ TimersStopped'
<1>1. CASE [Next]_vars
  BY <1>1, TypeStep, StepKind, TimersStoppedStep
<1>2. CASE Threw
  BY <1>2 DEF Threw, TypeOK, TimersStopped
<1> QED BY <1>1, <1>2, LogStepKind DEF Wrote, Ignored, Cleared, Silent

LEMMA LogFsm == LogSpec => [](TypeOK /\ TimersStopped)
<1>1. LogInit => TypeOK /\ TimersStopped
  BY TypeInit, TimersStoppedInit DEF LogInit
<1> QED BY <1>1, LogKeepsFsm, PTL DEF LogSpec

\* The counters and the lines of the log keep their types, whatever throws.
THEOREM LogTyped == LogSpec => []LogTypeOK
<1>1. LogInit => LogTypeOK
  <2> SUFFICES ASSUME LogInit PROVE LogTypeOK
    OBVIOUS
  <2>1. logfile \in Seq([event : EventRows, state : States])
    BY DEF LogInit
  <2> QED BY <2>1 DEF LogInit, LogTypeOK
<1>2. TypeOK /\ TimersStopped /\ LogTypeOK /\ [LogNext]_<<vars, logVars>> => LogTypeOK'
  <2> SUFFICES ASSUME TypeOK, TimersStopped, LogTypeOK, [LogNext]_<<vars, logVars>>
               PROVE  LogTypeOK'
    OBVIOUS
  <2>0. ASSUME NEW ev \in EventRows, NEW st \in States, NEW opens, Count(ev, st, opens)
        PROVE  /\ stateCounter' \in [States -> Nat] /\ eventCounter' \in [EventRows -> Nat]
               /\ ignoredEventCounter' \in [Events -> Nat] /\ cleared' \in BOOLEAN
    <3>1. stateCounter' \in [States -> Nat] /\ eventCounter' \in [EventRows -> Nat]
      BY <2>0 DEF Count, LogTypeOK
    <3>2. ignoredEventCounter' \in [Events -> Nat] /\ cleared' \in BOOLEAN
      BY <2>0 DEF Count, LogTypeOK
    <3> QED BY <3>1, <3>2
  <2>1. CASE Wrote
    <3>1. PICK ev \in EventRows, st \in States : LogTransition(ev, st)
      BY <2>1 DEF Wrote
    <3>2. [event |-> ev, state |-> st] \in [event : EventRows, state : States]
      OBVIOUS
    <3>3. logfile' \in Seq([event : EventRows, state : States])
      BY <3>1, <3>2 DEF LogTransition, LogTypeOK
    <3> QED BY <2>0, <3>1, <3>3 DEF LogTransition, LogTypeOK
  <2>2. CASE Threw
    BY <2>0, <2>2 DEF Threw, LogTransitionThrows, LogTypeOK
  <2>3. CASE Ignored
    BY <2>3 DEF Ignored, LogIgnoredEvent, LogTypeOK
  <2>4. CASE Cleared
    BY <2>4 DEF Cleared, LogTypeOK
  <2>5. CASE Silent
    BY <2>5 DEF Silent, logVars, LogTypeOK
  <2> QED BY <2>1, <2>2, <2>3, <2>4, <2>5, LogStepKind
<1> QED BY <1>1, <1>2, LogFsm, PTL DEF LogSpec

\* The counters are not behind: logTransition counts before it writes, so that a state
\* entered by a transition that could not be logged has been counted as well.
THEOREM CountersKeepUp == LogSpec => []CurrentStateCounted
<1>1. LogInit => CurrentStateCounted
  BY EnumSizes DEF LogInit, Init, CurrentStateCounted, States, InitialState
<1>2. TypeOK /\ TimersStopped /\ LogTypeOK /\ CurrentStateCounted
        /\ [LogNext]_<<vars, logVars>> => CurrentStateCounted'
  <2> SUFFICES ASSUME TypeOK, TimersStopped, LogTypeOK, CurrentStateCounted,
                      [LogNext]_<<vars, logVars>>
               PROVE  CurrentStateCounted'
    OBVIOUS
  <2>0. ASSUME NEW ev, NEW st \in States, NEW opens, Count(ev, st, opens), current' = st
        PROVE  stateCounter'[current'] > 0
    <3>1. stateCounter'[st] = stateCounter[st] + 1 /\ stateCounter[st] \in Nat
      BY <2>0 DEF Count, LogTypeOK
    <3> QED BY <2>0, <3>1
  <2>1. CASE Wrote
    BY <2>0, <2>1 DEF Wrote, LogTransition, CurrentStateCounted
  <2>2. CASE Threw
    BY <2>0, <2>2 DEF Threw, LogTransitionThrows, CurrentStateCounted
  <2>3. CASE Ignored
    BY <2>3 DEF Ignored, vars, LogIgnoredEvent, CurrentStateCounted
  <2>4. CASE Cleared
    BY <2>4 DEF Cleared, CurrentStateCounted
  <2>5. CASE Silent
    BY <2>5 DEF Silent, logVars, CurrentStateCounted
  <2> QED BY <2>1, <2>2, <2>3, <2>4, <2>5, LogStepKind
<1> QED BY <1>1, <1>2, LogFsm, LogTyped, PTL DEF LogSpec

LEMMA CountersFinite == IsFiniteSet(States) /\ IsFiniteSet(EventRows)
BY EnumSizes, FS_Interval DEF States, EventRows, AatRow

\* The totals are the sums of CounterSums.
LEMMA TotalIsSum ==
  /\ \A f : Total(f) = Sum(f)
  /\ \A f \in [States -> Nat] : Total(f) \in Nat
  /\ \A f \in [EventRows -> Nat] : Total(f) \in Nat
<1>1. \A f : Total(f) = Sum(f)
  BY DEF Total, Sum
<1>2. ASSUME NEW f \in [States -> Nat] PROVE Total(f) \in Nat
  BY <1>1, CountersFinite, SumIsNat
<1>3. ASSUME NEW f \in [EventRows -> Nat] PROVE Total(f) \in Nat
  BY <1>1, CountersFinite, SumIsNat
<1> QED BY <1>1, <1>2, <1>3

LEMMA ZeroTotals ==
  Total([st \in States |-> 0]) = 0 /\ Total([ev \in EventRows |-> 0]) = 0
BY TotalIsSum, CountersFinite, SumOfZeros

\* A transition adds one to both totals.
LEMMA CountBoth ==
  ASSUME LogTypeOK, NEW ev \in EventRows, NEW st \in States, NEW opens, Count(ev, st, opens)
  PROVE  /\ Total(stateCounter') = Total(stateCounter) + 1
         /\ Total(eventCounter') = Total(eventCounter) + 1
         /\ cleared' = cleared
<1>1. Total(stateCounter') = Total(stateCounter) + 1
  BY TotalIsSum, CountersFinite, SumCounts DEF Count, LogTypeOK
<1>2. Total(eventCounter') = Total(eventCounter) + 1
  BY TotalIsSum, CountersFinite, SumCounts DEF Count, LogTypeOK
<1> QED BY <1>1, <1>2 DEF Count

\* Every entry of a state was counted once, and so was the event that led there, also when
\* the line of the log could not be written: the totals differ by the initial state only.
THEOREM CountersBalanced == LogSpec => []CountersBalance
<1>1. LogInit => CountersBalance
  <2> SUFFICES ASSUME LogInit PROVE Total(stateCounter) = Total(eventCounter) + 1
    BY DEF LogInit, CountersBalance
  <2> DEFINE zeros == [st \in States |-> 0]
  <2>1. InitialState \in States /\ zeros \in [States -> Nat]
    BY EnumSizes DEF InitialState, States
  <2>2. stateCounter = [zeros EXCEPT ![InitialState] = @ + 1]
    BY <2>1 DEF LogInit
  <2> HIDE DEF zeros
  <2>3. Total(stateCounter) = Total(zeros) + 1
    BY <2>1, <2>2, TotalIsSum, CountersFinite, SumCounts
  <2> QED BY <2>3, ZeroTotals DEF LogInit, zeros
<1>2. TypeOK /\ TimersStopped /\ LogTypeOK /\ CountersBalance /\ [LogNext]_<<vars, logVars>>
        => CountersBalance'
  <2> SUFFICES ASSUME TypeOK, TimersStopped, LogTypeOK, CountersBalance,
                      [LogNext]_<<vars, logVars>>
               PROVE  CountersBalance'
    OBVIOUS
  <2>0. Total(stateCounter) \in Nat /\ Total(eventCounter) \in Nat
    BY TotalIsSum DEF LogTypeOK
  <2>1. CASE \E ev \in EventRows, st \in States, opens \in BOOLEAN : Count(ev, st, opens)
    BY <2>0, <2>1, CountBoth DEF CountersBalance
  <2>2. CASE Cleared
    BY <2>2, ZeroTotals DEF Cleared, CountersBalance
  <2>3. CASE UNCHANGED <<stateCounter, eventCounter, cleared>>
    BY <2>3 DEF CountersBalance
  <2> QED BY <2>1, <2>2, <2>3, LogStepKind
          DEF Wrote, LogTransition, Threw, LogTransitionThrows, Ignored, LogIgnoredEvent,
              Silent, logVars
<1> QED BY <1>1, <1>2, LogFsm, LogTyped, PTL DEF LogSpec
-----------------------------------------------------------------------------
(* The log can be replayed. *)

\* Before the file is opened there is no line in it; afterwards nothing throws any more.
Replayable == LogReplays /\ (~isOpen => logfile = << >>)

\* The log file can be replayed: the transition table explains every line from the one
\* before, and the last one names the state the FSM is on, whatever failed before.
THEOREM LogReplayed == LogSpec => []LogReplays
<1>1. LogInit => Replayable
  BY DEF LogInit, Replayable, LogReplays
<1>2. TypeOK /\ TimersStopped /\ LogTypeOK /\ Replayable /\ [LogNext]_<<vars, logVars>>
        => Replayable'
  <2> SUFFICES ASSUME TypeOK, TimersStopped, LogTypeOK, Replayable,
                      [LogNext]_<<vars, logVars>>
               PROVE  Replayable'
    OBVIOUS
  <2>0. logfile \in Seq([event : EventRows, state : States]) /\ Len(logfile) \in Nat
    BY DEF LogTypeOK
  <2>1. CASE Wrote
    <3>1. PICK ev \in EventRows, st \in States :
            current' = st /\ LogTransition(ev, st) /\ Explained(ev, st)
      BY <2>1 DEF Wrote
    <3> DEFINE line == [event |-> ev, state |-> st]
    <3>2. logfile' = Append(logfile, line) /\ isOpen' = TRUE
      BY <3>1 DEF LogTransition
    <3>3. /\ Len(logfile') = Len(logfile) + 1 /\ logfile'[Len(logfile')] = line
          /\ \A n \in 1 .. Len(logfile) : logfile'[n] = logfile[n]
      BY <2>0, <3>2
    <3>4. line.event = ev /\ line.state = st
      OBVIOUS
    <3>5. \A before : before.state = current => LineFollows(line, before)
      BY <3>1 DEF Explained, LineFollows
    <3> HIDE DEF line
    <3>6. ASSUME NEW n \in 2 .. Len(logfile')
          PROVE  LineFollows(logfile'[n], logfile'[n - 1])
      <4>1. n \in Nat /\ n - 1 \in 1 .. Len(logfile)
        BY <2>0, <3>3
      <4>2. logfile'[n - 1] = logfile[n - 1]
        BY <3>3, <4>1
      <4>3. CASE n = Len(logfile')
        <5>1. n - 1 = Len(logfile) /\ isOpen
          BY <2>0, <3>3, <4>1, <4>3 DEF Replayable
        <5>2. logfile[n - 1].state = current
          BY <5>1 DEF Replayable, LogReplays
        <5> QED BY <3>3, <3>5, <4>2, <4>3, <5>2
      <4>4. CASE n # Len(logfile')
        <5>1. n \in 2 .. Len(logfile)
          BY <2>0, <3>3, <4>4
        <5>2. logfile'[n] = logfile[n]
          BY <3>3, <5>1
        <5> QED BY <4>2, <5>1, <5>2 DEF Replayable, LogReplays
      <4> QED BY <4>3, <4>4
    <3>7. Len(logfile') > 0 /\ logfile'[Len(logfile')].state = current'
      BY <2>0, <3>1, <3>3, <3>4
    <3> QED BY <3>2, <3>6, <3>7 DEF Replayable, LogReplays
  <2>2. CASE Threw
    <3>1. ~isOpen' /\ logfile' = << >>
      BY <2>2 DEF Threw, LogTransitionThrows, Replayable
    <3> QED BY <3>1 DEF Replayable, LogReplays
  <2>3. CASE Ignored
    BY <2>3 DEF Ignored, vars, LogIgnoredEvent, Replayable, LogReplays
  <2>4. CASE Cleared
    BY <2>4 DEF Cleared, vars, Replayable, LogReplays
  <2>5. CASE Silent
    BY <2>5 DEF Silent, logVars, Replayable, LogReplays
  <2> QED BY <2>1, <2>2, <2>3, <2>4, <2>5, LogStepKind
<1>3. Replayable => LogReplays
  BY DEF Replayable
<1> QED BY <1>1, <1>2, <1>3, LogFsm, LogTyped, PTL DEF LogSpec
-----------------------------------------------------------------------------
(* What an exception costs. *)

\* StoppedForGood, for a loop whose run() may also be ended by an exception: then the loop is
\* as good as stopped, although the FSM says that it runs.
EndedForGood ==
  /\ starts = 0 => ~isRunning /\ ~loop.stopped
  /\ starts <= 1 /\ isRunning /\ ~ended => ~loop.stopped
  /\ starts > 0 /\ Alive /\ ~isRunning => loop.stopped
  /\ starts > 1 \/ ended => loop.stopped

LEMMA EndedStep ==
  ASSUME TypeOK, TimersStopped, LogTypeOK, EndedForGood, [LogNext]_<<vars, logVars>>
  PROVE  EndedForGood'
<1>0. starts \in Nat /\ ended \in BOOLEAN
  BY BoundsAssumption DEF TypeOK, LogTypeOK
<1>1. CASE [Next]_vars /\ UNCHANGED ended
  <2>1. CASE Ran
    <3>1. /\ isRunning' => (loop'.stopped <=> loop.stopped)
          /\ ~isRunning' => loop'.stopped
          /\ loop.stopped => loop'.stopped
      BY <2>1, RanEffect
    <3>2. CASE ~isRunning /\ starts' = starts + 1
      <4>1. starts' # 0 /\ Alive
        BY <1>0, <2>1, <3>2 DEF Ran
      <4>2. (starts' > 1 => starts > 0) /\ (starts' <= 1 => starts = 0)
        BY <1>0, <3>2
      <4> QED BY <1>1, <3>1, <3>2, <4>1, <4>2 DEF EndedForGood
    <3>3. CASE isRunning /\ UNCHANGED starts
      BY <1>1, <3>1, <3>3 DEF EndedForGood
    <3> QED BY <2>1, <3>2, <3>3 DEF Ran
  <2>2. CASE Failed
    BY <1>1, <2>2 DEF Failed, fsmVars, EndedForGood, Alive
  <2>3. CASE Stopped
    BY <1>0, <1>1, <2>3 DEF Stopped, EndedForGood
  <2>4. CASE Quiet
    BY <1>1, <2>4 DEF Quiet, EndedForGood, Alive
  <2> QED BY <1>1, <2>1, <2>2, <2>3, <2>4, StepKind DEF Kinds
<1>2. CASE Threw
  <2>1. PICK handler \in BOOLEAN : /\ loop'.stopped = (loop.stopped \/ handler)
                                  /\ ended' = (ended \/ handler)
    BY <1>2 DEF Threw, LogTransitionThrows
  <2>2. isRunning /\ UNCHANGED <<isRunning, status, starts>>
    BY <1>2 DEF Threw
  <2> QED BY <1>0, <2>1, <2>2 DEF EndedForGood
<1> QED BY <1>1, <1>2, LogStepKind
        DEF Wrote, LogTransition, Ignored, LogIgnoredEvent, Cleared, Silent, logVars

LEMMA EndedInvariant == LogSpec => []EndedForGood
<1>1. LogInit => EndedForGood
  BY DEF LogInit, Init, EndedForGood, NewLoop
<1> QED BY <1>1, EndedStep, LogFsm, LogTyped, PTL DEF LogSpec

\* The part of Waiting that an exception on the way into the current state breaks.
LEMMA WaitsForTimer ==
  ASSUME TypeOK, TimersStopped, TimeoutKept, [Next]_vars
  PROVE  TimeoutKept'
<1> USE DEF TimeoutKept, Running
<1>1. CASE Ran
  BY <1>1, RanEffect DEF SignalPending
<1>2. CASE Failed
  BY <1>2 DEF Failed, Alive
<1>3. CASE Stopped
  BY <1>3 DEF Stopped
<1>4. CASE Quiet
  BY <1>4 DEF Quiet, Alive
<1> QED BY <1>1, <1>2, <1>3, <1>4, StepKind DEF Kinds

\* As long as no handler threw, the damage of an exception is confined to the state it was
\* thrown on: as soon as a transition has been logged, the FSM has again what moves it off a
\* state with a time-out, and (started once) a loop that serves it.
THEOREM NextTransitionHeals == LogSpec => []TimeoutLostOnlyBare
<1> DEFINE KeptUnlessBare == bare \/ TimeoutKept
<1>1. LogInit => KeptUnlessBare
  BY DEF LogInit, Init, TimeoutKept, Running
<1>2. TypeOK /\ TimersStopped /\ KeptUnlessBare /\ [LogNext]_<<vars, logVars>>
        => KeptUnlessBare'
  <2> SUFFICES ASSUME TypeOK, TimersStopped, KeptUnlessBare,
                      [LogNext]_<<vars, logVars>>
               PROVE  KeptUnlessBare'
    OBVIOUS
  <2>1. CASE Wrote
    <3>1. PICK st \in States, flags \in [InnerEvents -> BOOLEAN], l \in Loops,
               rearm \in BOOLEAN :
            current' = st /\ RunAction(st, TRUE, flags, l, rearm)
      BY <2>1 DEF Wrote
    <3>2. isRunning' /\ Timed(Config, st) => loop'.timerWaits \/ loop'.signalRaised > 0
      BY <3>1, RunActionEffect
    <3> QED BY <3>1, <3>2 DEF TimeoutKept, Running, SignalPending
  <2>2. CASE Threw
    BY <2>2 DEF Threw, LogTransitionThrows
  <2>3. CASE UNCHANGED bare /\ [Next]_vars
    BY <2>3, WaitsForTimer
  <2> QED BY <2>1, <2>2, <2>3, LogStepKind
          DEF Ignored, LogIgnoredEvent, Cleared, Silent, logVars
<1>3. KeptUnlessBare /\ EndedForGood => TimeoutLostOnlyBare
  BY DEF TimeoutKept, TimeoutNotLost, TimeoutLostOnlyBare, EndedForGood, Running
<1> HIDE DEF KeptUnlessBare
<1> QED BY <1>1, <1>2, <1>3, LogFsm, EndedInvariant, PTL DEF LogSpec

\* When a handler's exception has ended run(), nothing heals the FSM: no time-out, pass-state
\* or inner event moves it again, whatever calls follow.
THEOREM ThrowEndsRun == LogSpec => AfterThrowOnlyEvents
<1>1. ASSUME EndedForGood, TypeOK, [LogNext]_<<vars, logVars>>, ended, current' # current
      PROVE  \E ev \in Events : /\ ~IsInnerEvent(Config, ev) /\ Handles(Config, ev, current)
                                /\ current' = Config.transitionMat[ev][current]
  <2>1. loop.stopped
    BY <1>1 DEF EndedForGood
  <2>2. ~LoggedTimeOut /\ ~LoggedSignal
    BY <2>1 DEF LoggedTimeOut, LoggedSignal, ProcessTimeOut, SignalHandler, CanRunExpired,
                CanRunSignal
  <2>3. ~Unlogged /\ ~ClearCounters /\ ~UNCHANGED <<vars, logVars>>
    BY <1>1, UnloggedKind DEF Silent, ClearCounters, vars
  <2>4. PICK ev \in Events : LoggedEvent(ev)
    BY <1>1, <2>2, <2>3 DEF LogNext
  <2>5. Handles(Config, ev, current) /\ ~IsInnerEvent(Config, ev)
    BY <1>1, <2>4 DEF LoggedEvent, ProcessEvent, vars
  <2>6. current' = Config.transitionMat[ev][current]
    BY <2>4, <2>5 DEF LoggedEvent, ProcessEvent, SwitchTo, SwitchThrows
  <2> QED BY <2>5, <2>6
<1> QED BY <1>1, EndedInvariant, LogFsm, PTL DEF LogSpec, AfterThrowOnlyEvents
=============================================================================
