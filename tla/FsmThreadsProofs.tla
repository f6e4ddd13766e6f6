-------------------------- MODULE FsmThreadsProofs --------------------------
(***************************************************************************)
(* Theorems about FsmThreads, for all tables without inner events, all     *)
(* keys and messages.                                                      *)
(***************************************************************************)
EXTENDS FsmThreads, TLAPS

\* A wait is added by async_wait only, after expires_after has removed those there were.
WaitsCounted ==
  /\ \A t \in Threads : pc[t] = "asyncWait" => timer.waits <= 1
  /\ (\A t \in Threads : pc[t] = "asyncWait") => timer.waits = 0

\* The places from where a call still starts the timer for the state it finds, or stops all.
Committed == {"cancel", "savePrevious", "look", "assertTimed", "savePreviousTimed", "lookTimed",
              "write", "action", "expiresAfter", "asyncWait", "kill"}

TimerOwed ==
  status = "alive" /\ isRunning /\ ~stopped /\ Timed(Config, current) =>
    \/ timer.waits > 0 \/ timer.expired > 0
    \/ \E t \in Threads : pc[t] \in Committed

\* A call that meets no other one finds what it has read: nobody else writes.
OneInside == \A t, u \in Threads : pc[t] \in Inside /\ pc[u] \in Inside => t = u

CallSound(t) ==
  /\ pc[t] \in {"checkTimed", "cancel", "savePrevious", "look"} => Handles(Config, event[t], current)
  /\ pc[t] \in {"savePreviousTimed", "lookTimed"} => Timed(Config, current)
  /\ pc[t] \in {"look", "lookTimed", "write"} => previous = current
  /\ pc[t] = "write" => next[t] \in Successors(Config, current, {})

\* The enumeration of events may be empty: 0 is an event only where it is used as one.
EventPlaces == {"checkRunning", "checkAllowed", "checkTimed", "cancel", "savePrevious", "look"}

EventHeld == \A t \in Threads : pc[t] \in EventPlaces => event[t] \in Events

ThreadsInv ==
  /\ TypeOK /\ EventHeld /\ WaitsCounted /\ TimerOwed
  /\ ~overlap => OneInside /\ \A t \in Threads : CallSound(t)
-----------------------------------------------------------------------------
(* Going from one place to another. *)

LEMMA GotoEffect ==
  ASSUME TypeOK, NEW t \in Threads, NEW from, NEW to \in Idle \cup Inside, Goto(t, from, to)
  PROVE  /\ status = "alive" /\ pc[t] = from
         /\ pc' \in [Threads -> Idle \cup Inside]
         /\ pc'[t] = to /\ \A u \in Threads : u # t => pc'[u] = pc[u]
         /\ overlap' \in BOOLEAN
  BY DEF Goto, TypeOK

LEMMA Places ==
  /\ Idle \cap Inside = {} /\ Committed \subseteq Inside
  /\ \A t \in Threads : Home(t) \in Idle
  BY DEF Idle, Inside, Committed, Threads, Home

\* A call that goes on without an overlap has met none; and those that are done or have not
\* begun owe nothing.
LEMMA AloneEffect ==
  ASSUME ThreadsInv, NEW t \in Threads, NEW from, NEW to \in Idle \cup Inside, Goto(t, from, to),
         from \in Inside \/ to \in Inside, ~overlap'
  PROVE  /\ OneInside'
         /\ \A u \in Threads : u # t => CallSound(u)'
         /\ to \in Idle => CallSound(t)'
         /\ to \in Inside => ~overlap /\ CallSound(t)
<1>1. /\ TypeOK /\ pc[t] = from /\ pc'[t] = to /\ overlap \in BOOLEAN
      /\ \A u \in Threads : u # t => pc'[u] = pc[u]
  BY GotoEffect DEF ThreadsInv, TypeOK
<1>2. \A u \in Threads : u # t => pc'[u] \notin Inside
  <2>1. CASE to \in Idle
    <3>1. to \notin Inside /\ from \in Inside
      BY <2>1, Places
    <3>2. CASE overlap
      <4>1. Busy \ {t} = {}
        BY <2>1, <3>2 DEF Goto
      <4> QED BY <1>1, <4>1 DEF Busy
    <3>3. CASE ~overlap
      BY <1>1, <3>1, <3>3 DEF ThreadsInv, OneInside
    <3> QED BY <3>2, <3>3
  <2>2. CASE to \notin Idle
    <3>1. Busy \ {t} = {}
      BY <2>2 DEF Goto
    <3> QED BY <1>1, <3>1 DEF Busy
  <2> QED BY <2>1, <2>2
<1>3. OneInside'
  BY <1>2 DEF OneInside
<1>4. \A u \in Threads : pc'[u] \notin Inside => CallSound(u)'
  BY DEF CallSound, Inside
<1>5. to \in Inside => ~overlap
  <2>1. to \in Inside => to \notin Idle
    BY Places
  <2> QED BY <2>1 DEF Goto
<1>6. to \in Idle => to \notin Inside
  BY Places
<1> QED BY <1>1, <1>2, <1>3, <1>4, <1>5, <1>6 DEF ThreadsInv

\* A call on its way to the start of the timer.
LEMMA StillOwed ==
  ASSUME TypeOK, NEW t \in Threads, NEW from, NEW to \in Committed, Goto(t, from, to)
  PROVE  TimerOwed'
<1>1. pc'[t] = to
  BY GotoEffect, Places
<1> QED BY <1>1 DEF TimerOwed

\* A step that goes from a place that owes nothing.
LEMMA NothingNew ==
  ASSUME TypeOK, TimerOwed, NEW t \in Threads, NEW from, NEW to \in Idle \cup Inside, Goto(t, from, to),
         from \notin Committed, UNCHANGED <<current, isRunning, timer, stopped, status>>
  PROVE  TimerOwed'
<1>1. pc[t] = from /\ \A u \in Threads : u # t => pc'[u] = pc[u]
  BY GotoEffect
<1>2. \A u \in Threads : pc[u] \in Committed => pc'[u] \in Committed
  BY <1>1
<1> QED BY <1>2 DEF TimerOwed

\* The waits: a step that adds none, by a thread that is not about to.
LEMMA NoWaitAdded ==
  ASSUME TypeOK, WaitsCounted, NEW t \in Threads, NEW from, NEW to \in Idle \cup Inside,
         Goto(t, from, to), to # "asyncWait", timer'.waits <= timer.waits, timer'.waits \in Nat
  PROVE  WaitsCounted'
<1>1. /\ pc'[t] = to /\ \A u \in Threads : u # t => pc'[u] = pc[u]
      /\ timer.waits \in 0 .. 2
  BY GotoEffect DEF TypeOK
<1> QED BY <1>1 DEF WaitsCounted
-----------------------------------------------------------------------------
LEMMA ThreadsInit == Init => ThreadsInv
<1> SUFFICES ASSUME Init PROVE ThreadsInv
  OBVIOUS
<1>1. InitialState \in States
  BY EnumSizes DEF InitialState, States
<1>2. /\ pc \in [Threads -> Idle \cup Inside]
      /\ \A t \in Threads : pc[t] \in {"begin", "keys"}
  BY DEF Init, Idle
<1>3. \A t \in Threads : pc[t] \notin Inside
  BY <1>2 DEF Inside
<1>4. timer = [waits |-> 0, expired |-> 0] /\ timer \in [waits : 0 .. 2, expired : 0 .. 2]
  BY DEF Init
<1>5. TypeOK
  BY <1>1, <1>2, <1>4 DEF Init, TypeOK
<1>6. EventHeld /\ WaitsCounted
  BY <1>2, <1>4 DEF EventHeld, EventPlaces, WaitsCounted
<1>7. TimerOwed
  BY DEF Init, TimerOwed
<1>8. OneInside /\ \A t \in Threads : CallSound(t)
  BY <1>2, <1>3 DEF OneInside, CallSound
<1> QED BY <1>5, <1>6, <1>7, <1>8 DEF ThreadsInv

\* What a step does besides going to another place, when it leaves the timer alone.
LEMMA TypesKept ==
  ASSUME TypeOK, NEW t \in Threads, NEW from, NEW to \in Idle \cup Inside, Goto(t, from, to),
         current' \in States, previous' \in States, isRunning' \in BOOLEAN,
         timer' \in [waits : 0 .. 2, expired : 0 .. 2], stopped' \in BOOLEAN, status' = status,
         event' \in [Threads -> Events \cup {0}], next' \in [Threads -> States]
  PROVE  TypeOK'
  BY GotoEffect DEF TypeOK

LEMMA EventsKept ==
  ASSUME TypeOK, EventHeld, NEW t \in Threads, NEW from, NEW to \in Idle \cup Inside, Goto(t, from, to),
         to \in EventPlaces => event'[t] \in Events,
         \A u \in Threads : u # t => event'[u] = event[u]
  PROVE  EventHeld'
<1>1. pc'[t] = to /\ \A u \in Threads : u # t => pc'[u] = pc[u]
  BY GotoEffect
<1> QED BY <1>1 DEF EventHeld

\* Putting a step together.
LEMMA StepKeeps ==
  ASSUME ThreadsInv, NEW t \in Threads, NEW from, NEW to \in Idle \cup Inside, Goto(t, from, to),
         from \in Inside \/ to \in Inside,
         TypeOK', EventHeld', WaitsCounted', TimerOwed',
         to \in Inside /\ ~overlap /\ CallSound(t) => CallSound(t)'
  PROVE  ThreadsInv'
<1>1. ASSUME ~overlap' PROVE OneInside' /\ \A u \in Threads : CallSound(u)'
  BY <1>1, AloneEffect
<1> QED BY <1>1 DEF ThreadsInv

LEMMA TimerRecord ==
  ASSUME TypeOK, NEW n \in 0 .. 2
  PROVE  /\ timer.waits \in 0 .. 2 /\ timer.expired \in 0 .. 2
         /\ [timer EXCEPT !.waits = n] \in [waits : 0 .. 2, expired : 0 .. 2]
         /\ [timer EXCEPT !.waits = n].waits = n
         /\ [timer EXCEPT !.waits = n].expired = timer.expired
         /\ [timer EXCEPT !.expired = n] \in [waits : 0 .. 2, expired : 0 .. 2]
         /\ [timer EXCEPT !.expired = n].waits = timer.waits
         /\ [timer EXCEPT !.expired = n].expired = n
  BY DEF TypeOK

\* A step that only goes on.
LEMMA MoveKeeps ==
  ASSUME ThreadsInv, NEW t \in Threads, NEW from, NEW to \in Idle \cup Inside, Goto(t, from, to), OnlyMoves,
         from \in Inside \/ to \in Inside, to # "asyncWait",
         to \in EventPlaces => event[t] \in Events,
         from \notin Committed \/ to \in Committed \/ ~Timed(Config, current),
         to \in Inside /\ ~overlap /\ CallSound(t) => CallSound(t)'
  PROVE  ThreadsInv'
<1>0. TypeOK /\ EventHeld /\ WaitsCounted /\ TimerOwed
  BY DEF ThreadsInv
<1>1. UNCHANGED <<current, previous, isRunning, timer, stopped, status, event, next>>
  BY DEF OnlyMoves, fsmVars
<1>2. TypeOK'
  BY <1>0, <1>1, TypesKept DEF TypeOK
<1>3. EventHeld'
  BY <1>0, <1>1, EventsKept
<1>4. WaitsCounted'
  <2>1. timer'.waits <= timer.waits /\ timer'.waits \in Nat
    BY <1>0, <1>1, TimerRecord
  <2> QED BY <1>0, <2>1, NoWaitAdded
<1>5. TimerOwed'
  <2>1. CASE to \in Committed
    BY <1>0, <2>1, StillOwed
  <2>2. CASE from \notin Committed
    BY <1>0, <1>1, <2>2, NothingNew
  <2>3. CASE ~Timed(Config, current)
    BY <1>1, <2>3 DEF TimerOwed
  <2> QED BY <2>1, <2>2, <2>3
<1> QED BY <1>2, <1>3, <1>4, <1>5, StepKeeps

LEMMA AbortKeeps ==
  ASSUME ThreadsInv, NEW t \in Threads, NEW from, NEW failure \in {"misuse", "noTimeOut"},
         Aborts(t, from, failure)
  PROVE  ThreadsInv'
<1>1. /\ status' = failure /\ failure # "alive"
      /\ UNCHANGED <<current, previous, isRunning, timer, stopped, pc, event, next, overlap>>
  BY DEF Aborts, fsmVars
<1>2. TypeOK' /\ EventHeld' /\ WaitsCounted' /\ TimerOwed'
  BY <1>1 DEF ThreadsInv, TypeOK, EventHeld, WaitsCounted, TimerOwed
<1>3. ~overlap' => OneInside' /\ \A u \in Threads : CallSound(u)'
  BY <1>1 DEF ThreadsInv, OneInside, CallSound
<1> QED BY <1>2, <1>3 DEF ThreadsInv
-----------------------------------------------------------------------------
(* The steps of a call. *)

LEMMA ChecksKeep ==
  ASSUME ThreadsInv, NEW t \in Threads, CheckRunning(t) \/ CheckAllowed(t) \/ CheckTimed(t) \/ RunAction(t)
  PROVE  ThreadsInv'
<1>0. /\ TypeOK /\ EventHeld /\ WaitsCounted /\ TimerOwed
      /\ Home(t) \in {"loop", "keys"} /\ Home(t) \in Idle
  BY DEF ThreadsInv, Home, Idle
<1>1. CASE isRunning /\ Goto(t, "checkRunning", "checkAllowed") /\ OnlyMoves
  <2>1. event[t] \in Events /\ pc'[t] = "checkAllowed"
    BY <1>0, <1>1, GotoEffect DEF EventHeld, EventPlaces, Inside
  <2>2. CallSound(t)'
    BY <2>1 DEF CallSound
  <2> QED BY <1>1, <2>1, <2>2, MoveKeeps DEF Inside, Committed
<1>2. CASE ~isRunning /\ Aborts(t, "checkRunning", "misuse")
  BY <1>2, AbortKeeps
<1>3. CASE /\ Handles(Config, event[t], current)
           /\ Goto(t, "checkAllowed", "checkTimed") /\ OnlyMoves
  <2>1. event[t] \in Events /\ pc'[t] = "checkTimed"
    BY <1>0, <1>3, GotoEffect DEF EventHeld, EventPlaces, Inside
  <2>2. CallSound(t)'
    BY <1>3, <2>1 DEF CallSound, OnlyMoves, fsmVars
  <2> QED BY <1>3, <2>1, <2>2, MoveKeeps DEF Inside, Committed
<1>4. CASE /\ Goto(t, "checkAllowed", Home(t)) /\ event' = [event EXCEPT ![t] = 0]
           /\ UNCHANGED <<fsmVars, timer, stopped, status, next>>
  <2>1. UNCHANGED <<current, previous, isRunning, timer, stopped, status, next>>
    BY <1>4 DEF fsmVars
  <2>2. /\ event' \in [Threads -> Events \cup {0}]
        /\ \A u \in Threads : u # t => event'[u] = event[u]
    BY <1>0, <1>4 DEF TypeOK
  <2>3. TypeOK'
    BY <1>0, <1>4, <2>1, <2>2, TypesKept DEF TypeOK
  <2>4. EventHeld'
    BY <1>0, <1>4, <2>2, EventsKept DEF EventPlaces
  <2>5. WaitsCounted'
    <3>1. timer'.waits <= timer.waits /\ timer'.waits \in Nat
      BY <1>0, <2>1, TimerRecord
    <3> QED BY <1>0, <1>4, <3>1, NoWaitAdded
  <2>6. TimerOwed'
    BY <1>0, <1>4, <2>1, NothingNew DEF Committed
  <2>7. Home(t) \notin Inside
    BY <1>0, Places
  <2> QED BY <1>0, <1>4, <2>3, <2>4, <2>5, <2>6, <2>7, StepKeeps DEF Inside
<1>5. CASE CheckTimed(t)
  <2>1. PICK to \in {"cancel", "savePrevious"} : Goto(t, "checkTimed", to) /\ OnlyMoves
    BY <1>5 DEF CheckTimed
  <2>2. to \in Inside /\ to \in Committed /\ "checkTimed" \in Inside
    BY <2>1 DEF Inside, Committed
  <2>3. event[t] \in Events /\ pc[t] = "checkTimed" /\ pc'[t] = to
    BY <1>0, <2>1, <2>2, GotoEffect DEF EventHeld, EventPlaces
  <2>4. CallSound(t) => CallSound(t)'
    BY <2>1, <2>3 DEF CallSound, OnlyMoves, fsmVars
  <2> QED BY <2>1, <2>2, <2>3, <2>4, MoveKeeps
<1>6. CASE RunAction(t)
  <2>1. CASE Timed(Config, current)
    <3>1. Goto(t, "action", "expiresAfter") /\ OnlyMoves
      BY <1>6, <2>1 DEF RunAction
    <3>2. pc'[t] = "expiresAfter"
      BY <1>0, <3>1, GotoEffect DEF Inside
    <3>3. CallSound(t)'
      BY <3>2 DEF CallSound
    <3> QED BY <3>1, <3>3, MoveKeeps DEF Inside, Committed, EventPlaces
  <2>2. CASE ~Timed(Config, current)
    <3>1. Goto(t, "action", Home(t)) /\ OnlyMoves
      BY <1>6, <2>2 DEF RunAction
    <3>2. Home(t) \notin Inside /\ Home(t) \notin EventPlaces /\ Home(t) # "asyncWait" /\ "action" \in Inside
      BY <1>0 DEF Inside, EventPlaces
    <3> QED BY <1>0, <2>2, <3>1, <3>2, MoveKeeps
  <2> QED BY <2>1, <2>2
<1> QED BY <1>1, <1>2, <1>3, <1>4, <1>5, <1>6 DEF CheckRunning, CheckAllowed

LEMMA ConfigTypes ==
  ASSUME NEW st \in States
  PROVE  /\ Config.timerEvent[st].nextState \in States
         /\ \A ev \in Events : Config.transitionMat[ev][st] \in States
         /\ Config.innerEvents = {}
<1>1. /\ Config.timerEvent \in [States -> TimerEvent]
      /\ Config.transitionMat \in [0 .. AatRow -> [States -> States]]
  BY ThreadsAssumption DEF Tables
<1>2. Events \subseteq 0 .. AatRow
  BY EnumSizes DEF Events, AatRow
<1> QED BY <1>1, <1>2, ThreadsAssumption DEF TimerEvent

LEMMA SwitchKeeps ==
  ASSUME ThreadsInv, NEW t \in Threads, SavePrevious(t) \/ Look(t) \/ Write(t)
  PROVE  ThreadsInv'
<1>0. TypeOK /\ EventHeld /\ WaitsCounted /\ TimerOwed
  BY DEF ThreadsInv
<1> DEFINE after == {"look", "lookTimed", "write", "action"}
<1>1. PICK from \in {"savePrevious", "savePreviousTimed", "look", "lookTimed", "write"}, to \in after :
        Goto(t, from, to)
  BY DEF SavePrevious, Look, Write
<1>2. /\ from \in Inside /\ to \in Inside /\ to \in Committed /\ to # "asyncWait"
      /\ to \in EventPlaces => to = "look"
  BY <1>1 DEF Inside, Committed, EventPlaces
<1>3. pc[t] = from /\ pc'[t] = to
  BY <1>0, <1>1, <1>2, GotoEffect
<1>4. current \in States /\ current' \in States
  <2>1. current \in States /\ next[t] \in States
    BY <1>0 DEF TypeOK
  <2>2. current' = current \/ current' = next[t]
    BY DEF SavePrevious, Look, Write, fsmVars
  <2> QED BY <2>1, <2>2
<1>5. UNCHANGED <<isRunning, timer, stopped, status>>
  BY DEF SavePrevious, Look, Write, fsmVars
<1>6. CASE SavePrevious(t)
  <2>1. /\ previous' = current /\ UNCHANGED <<current, event, next>>
        /\ \/ from = "savePrevious" /\ to = "look"
           \/ from = "savePreviousTimed" /\ to = "lookTimed"
    BY <1>0, <1>3, <1>6 DEF SavePrevious, Goto, TypeOK
  <2>2. TypeOK'
    BY <1>0, <1>1, <1>2, <1>5, <2>1, TypesKept DEF TypeOK
  <2>3. to \in EventPlaces => event[t] \in Events
    BY <1>0, <1>2, <1>3, <2>1 DEF EventHeld, EventPlaces
  <2>4. EventHeld'
    BY <1>0, <1>1, <1>2, <2>1, <2>3, EventsKept
  <2>5. CallSound(t) => CallSound(t)'
    BY <1>3, <2>1 DEF CallSound
  <2>6. WaitsCounted' /\ TimerOwed'
    <3>1. timer'.waits <= timer.waits /\ timer'.waits \in Nat
      BY <1>0, <1>5, TimerRecord
    <3> QED BY <1>0, <1>1, <1>2, <3>1, NoWaitAdded, StillOwed
  <2> QED BY <1>1, <1>2, <2>2, <2>4, <2>5, <2>6, StepKeeps
<1>7. CASE Look(t)
  <2>1. /\ to = "write" /\ from \in {"look", "lookTimed"} /\ UNCHANGED <<current, previous>>
        /\ event' = [event EXCEPT ![t] = 0]
        /\ \/ from = "look" /\ next' = [next EXCEPT ![t] = Config.transitionMat[event[t]][current]]
           \/ from = "lookTimed" /\ next' = [next EXCEPT ![t] = Config.timerEvent[current].nextState]
    BY <1>0, <1>3, <1>7 DEF Look, Goto, fsmVars, TypeOK
  <2>2. from = "look" => event[t] \in Events
    BY <1>0, <1>3 DEF EventHeld, EventPlaces
  <2>3. PICK st \in States :
          /\ next' = [next EXCEPT ![t] = st]
          /\ from = "look" => st = Config.transitionMat[event[t]][current]
          /\ from = "lookTimed" => st = Config.timerEvent[current].nextState
    BY <1>4, <2>1, <2>2, ConfigTypes
  <2>4. /\ next' \in [Threads -> States] /\ next'[t] = st
        /\ event' \in [Threads -> Events \cup {0}]
        /\ \A u \in Threads : u # t => event'[u] = event[u]
    BY <1>0, <2>1, <2>3 DEF TypeOK
  <2>5. TypeOK'
    BY <1>0, <1>1, <1>2, <1>5, <2>1, <2>4, TypesKept DEF TypeOK
  <2>6. EventHeld'
    BY <1>0, <1>1, <1>2, <2>1, <2>4, EventsKept DEF EventPlaces
  <2>7. CallSound(t) => CallSound(t)'
    <3> HAVE CallSound(t)
    <3>1. previous' = current'
      BY <1>3, <2>1 DEF CallSound
    <3>2. st \in Successors(Config, current, {})
      <4>1. CASE from = "look"
        BY <1>3, <1>4, <2>2, <2>3, <4>1, ConfigTypes
           DEF CallSound, Successors, EventSuccessors
      <4>2. CASE from = "lookTimed"
        BY <1>3, <2>3, <4>2 DEF CallSound, Successors, TimeOutSuccessors
      <4> QED BY <2>1, <4>1, <4>2
    <3> QED BY <1>3, <2>1, <2>4, <3>1, <3>2 DEF CallSound
  <2>8. WaitsCounted' /\ TimerOwed'
    <3>1. timer'.waits <= timer.waits /\ timer'.waits \in Nat
      BY <1>0, <1>5, TimerRecord
    <3> QED BY <1>0, <1>1, <1>2, <3>1, NoWaitAdded, StillOwed
  <2> QED BY <1>1, <1>2, <2>5, <2>6, <2>7, <2>8, StepKeeps
<1>8. CASE Write(t)
  <2>1. to = "action" /\ previous' = previous /\ event' = event /\ next' = [next EXCEPT ![t] = InitialState]
    BY <1>0, <1>3, <1>8 DEF Write, Goto, TypeOK
  <2>2. next' \in [Threads -> States]
    BY <1>0, <2>1, EnumSizes DEF TypeOK, InitialState, States
  <2>3. TypeOK'
    BY <1>0, <1>1, <1>2, <1>4, <1>5, <2>1, <2>2, TypesKept DEF TypeOK
  <2>4. EventHeld'
    BY <1>0, <1>1, <1>2, <2>1, EventsKept
  <2>5. CallSound(t)'
    BY <1>3, <2>1 DEF CallSound
  <2>8. WaitsCounted' /\ TimerOwed'
    <3>1. timer'.waits <= timer.waits /\ timer'.waits \in Nat
      BY <1>0, <1>5, TimerRecord
    <3> QED BY <1>0, <1>1, <1>2, <3>1, NoWaitAdded, StillOwed
  <2> QED BY <1>1, <1>2, <2>3, <2>4, <2>5, <2>8, StepKeeps
<1> QED BY <1>6, <1>7, <1>8

\* The steps that change the timer.
LEMMA TimerKeeps ==
  ASSUME ThreadsInv, NEW t \in Threads, Cancel(t) \/ ExpiresAfter(t) \/ AsyncWait(t)
  PROVE  ThreadsInv'
<1>0. TypeOK /\ EventHeld /\ WaitsCounted /\ TimerOwed
  BY DEF ThreadsInv
<1>1. UNCHANGED <<current, previous, isRunning, stopped, status, event, next>>
  BY DEF Cancel, ExpiresAfter, AsyncWait, fsmVars
<1>2. CASE Cancel(t)
  <2>1. Goto(t, "cancel", "savePrevious") /\ "cancel" \in Inside
        /\ "savePrevious" \in Inside /\ "savePrevious" \in Committed
    BY <1>2 DEF Cancel, Inside, Committed
  <2>2. pc[t] = "cancel" /\ pc'[t] = "savePrevious"
    BY <1>0, <2>1, GotoEffect
  <2> DEFINE n == IF timer.waits > 0 THEN timer.waits - 1 ELSE 0
  <2>3. n \in 0 .. 2 /\ n <= timer.waits /\ timer' = [timer EXCEPT !.waits = n]
    BY <1>0, <1>2, TimerRecord DEF Cancel
  <2> HIDE DEF n
  <2>4. timer' \in [waits : 0 .. 2, expired : 0 .. 2] /\ timer'.waits = n
    BY <1>0, <2>3, TimerRecord
  <2>5. TypeOK'
    BY <1>0, <1>1, <2>1, <2>4, TypesKept DEF TypeOK
  <2>6. EventHeld'
    BY <1>0, <1>1, <2>1, <2>2, EventsKept DEF EventHeld, EventPlaces
  <2>7. WaitsCounted'
    BY <1>0, <2>1, <2>3, <2>4, NoWaitAdded
  <2>8. TimerOwed'
    BY <1>0, <2>1, StillOwed
  <2>9. CallSound(t) => CallSound(t)'
    BY <1>1, <2>2 DEF CallSound
  <2> QED BY <2>1, <2>5, <2>6, <2>7, <2>8, <2>9, StepKeeps
<1>3. CASE ExpiresAfter(t)
  <2>1. Goto(t, "expiresAfter", "asyncWait") /\ "expiresAfter" \in Inside
        /\ "asyncWait" \in Inside /\ "asyncWait" \in Committed /\ "asyncWait" \notin EventPlaces
    BY <1>3 DEF ExpiresAfter, Inside, Committed, EventPlaces
  <2>2. pc'[t] = "asyncWait"
    BY <1>0, <2>1, GotoEffect
  <2>4. timer' \in [waits : 0 .. 2, expired : 0 .. 2] /\ timer'.waits = 0
    BY <1>0, <1>3, TimerRecord DEF ExpiresAfter
  <2>5. TypeOK'
    BY <1>0, <1>1, <2>1, <2>4, TypesKept DEF TypeOK
  <2>6. EventHeld'
    BY <1>0, <1>1, <2>1, EventsKept
  <2>7. WaitsCounted'
    BY <2>4 DEF WaitsCounted
  <2>8. TimerOwed'
    BY <1>0, <2>1, StillOwed
  <2>9. CallSound(t)'
    BY <2>2 DEF CallSound
  <2> QED BY <2>1, <2>5, <2>6, <2>7, <2>8, <2>9, StepKeeps
<1>4. CASE AsyncWait(t)
  <2>1. Goto(t, "asyncWait", Home(t)) /\ "asyncWait" \in Inside /\ Home(t) \in Idle
        /\ Home(t) \notin EventPlaces /\ Home(t) # "asyncWait" /\ Home(t) \notin Inside
    BY <1>4 DEF AsyncWait, Inside, Idle, Home, EventPlaces
  <2>2. /\ pc[t] = "asyncWait" /\ pc'[t] = Home(t)
        /\ \A u \in Threads : u # t => pc'[u] = pc[u]
    BY <1>0, <2>1, GotoEffect
  <2> DEFINE n == timer.waits + 1
  <2>3. /\ timer.waits \in 0 .. 1 /\ timer' = [timer EXCEPT !.waits = n]
        /\ \A u \in Threads : pc'[u] = "asyncWait" => timer.waits = 0
    <3>1. timer.waits \in 0 .. 2 /\ timer.waits <= 1
      BY <1>0, <2>2, TimerRecord DEF WaitsCounted
    <3>2. ASSUME NEW u \in Threads, pc'[u] = "asyncWait" PROVE timer.waits = 0
      <4>1. u # t /\ pc[u] = "asyncWait"
        BY <2>1, <2>2, <3>2
      <4>2. \A v \in Threads : v = t \/ v = u
        BY <4>1 DEF Threads
      <4> QED BY <1>0, <2>2, <4>1, <4>2 DEF WaitsCounted
    <3> QED BY <1>4, <3>1, <3>2 DEF AsyncWait
  <2>4. n \in 0 .. 2 /\ n > 0
    BY <2>3
  <2>5. timer' \in [waits : 0 .. 2, expired : 0 .. 2] /\ timer'.waits = n
    <3> HIDE DEF n
    <3> QED BY <1>0, <2>3, <2>4, TimerRecord
  <2>6. TypeOK'
    BY <1>0, <1>1, <2>1, <2>5, TypesKept DEF TypeOK
  <2>7. EventHeld'
    BY <1>0, <1>1, <2>1, EventsKept
  <2>8. WaitsCounted'
    <3>1. \A u \in Threads : pc'[u] = "asyncWait" => timer'.waits <= 1
      BY <2>3, <2>5
    <3>2. pc'[t] # "asyncWait"
      BY <2>1, <2>2
    <3> QED BY <3>1, <3>2 DEF WaitsCounted
  <2>9. TimerOwed'
    BY <2>4, <2>5 DEF TimerOwed
  <2> QED BY <2>1, <2>6, <2>7, <2>8, <2>9, StepKeeps
<1> QED BY <1>2, <1>3, <1>4
-----------------------------------------------------------------------------
(* The threads outside the FSM. *)

\* A call begins: the event it has been given is one.
LEMMA CallKeeps ==
  ASSUME ThreadsInv, NEW t \in Threads, NEW from \in Idle, NEW ev \in Events,
         Goto(t, from, "checkRunning"), event' = [event EXCEPT ![t] = ev],
         UNCHANGED <<fsmVars, timer, stopped, status, next>>
  PROVE  ThreadsInv'
<1>0. TypeOK /\ EventHeld /\ WaitsCounted /\ TimerOwed
  BY DEF ThreadsInv
<1>1. UNCHANGED <<current, previous, isRunning, timer, stopped, status, next>>
  BY DEF fsmVars
<1>2. /\ "checkRunning" \in Inside /\ "checkRunning" # "asyncWait" /\ from \notin Committed
      /\ from \notin Inside
  BY DEF Inside, Idle, Committed
<1>3. /\ event' \in [Threads -> Events \cup {0}] /\ event'[t] \in Events
      /\ \A u \in Threads : u # t => event'[u] = event[u]
  BY <1>0 DEF TypeOK
<1>4. TypeOK'
  BY <1>0, <1>1, <1>2, <1>3, TypesKept DEF TypeOK
<1>5. EventHeld'
  BY <1>0, <1>2, <1>3, EventsKept
<1>6. WaitsCounted'
  <2>1. timer'.waits <= timer.waits /\ timer'.waits \in Nat
    BY <1>0, <1>1, TimerRecord
  <2> QED BY <1>0, <1>2, <2>1, NoWaitAdded
<1>7. TimerOwed'
  BY <1>0, <1>1, <1>2, NothingNew
<1>8. CallSound(t)'
  <2>1. pc'[t] = "checkRunning"
    BY <1>0, <1>2, GotoEffect
  <2> QED BY <2>1 DEF CallSound
<1> QED BY <1>2, <1>4, <1>5, <1>6, <1>7, <1>8, StepKeeps

LEMMA StopKeeps ==
  ASSUME ThreadsInv, PressQuit \/ StopStep
  PROVE  ThreadsInv'
<1>0. /\ TypeOK /\ EventHeld /\ WaitsCounted /\ TimerOwed /\ "ui" \in Threads
  BY DEF ThreadsInv, Threads
<1>1. CASE PressQuit
  <2>1. Goto("ui", "keys", "stopCheck") /\ OnlyMoves
    BY <1>1 DEF PressQuit
  <2>2. pc'["ui"] = "stopCheck"
    BY <1>0, <2>1, GotoEffect DEF Inside
  <2>3. CallSound("ui")'
    BY <2>2 DEF CallSound
  <2> QED BY <1>0, <2>1, <2>3, MoveKeeps DEF Inside, Committed, EventPlaces
<1>2. CASE isRunning /\ Goto("ui", "stopCheck", "stopTimer") /\ OnlyMoves
  <2>1. pc'["ui"] = "stopTimer"
    BY <1>0, <1>2, GotoEffect DEF Inside
  <2>2. CallSound("ui")'
    BY <2>1 DEF CallSound
  <2> QED BY <1>0, <1>2, <2>2, MoveKeeps DEF Inside, Committed, EventPlaces
<1>3. CASE ~isRunning /\ Aborts("ui", "stopCheck", "misuse")
  BY <1>0, <1>3, AbortKeeps
<1>4. CASE StopTimer
  <2>1. /\ Goto("ui", "stopTimer", "kill") /\ "stopTimer" \in Inside
        /\ "kill" \in Inside /\ "kill" \in Committed /\ "kill" \notin EventPlaces
        /\ UNCHANGED <<current, previous, isRunning, stopped, status, event, next>>
    BY <1>4 DEF StopTimer, Inside, Committed, EventPlaces, fsmVars
  <2>2. pc'["ui"] = "kill"
    BY <1>0, <2>1, GotoEffect
  <2> DEFINE n == IF timer.waits > 0 THEN timer.waits - 1 ELSE 0
  <2>3. n \in 0 .. 2 /\ n <= timer.waits /\ timer' = [timer EXCEPT !.waits = n]
    BY <1>0, <1>4, TimerRecord DEF StopTimer
  <2> HIDE DEF n
  <2>4. timer' \in [waits : 0 .. 2, expired : 0 .. 2] /\ timer'.waits = n
    BY <1>0, <2>3, TimerRecord
  <2>5. TypeOK'
    BY <1>0, <2>1, <2>4, TypesKept DEF TypeOK
  <2>6. EventHeld'
    BY <1>0, <2>1, EventsKept
  <2>7. WaitsCounted'
    BY <1>0, <2>1, <2>3, <2>4, NoWaitAdded
  <2>8. TimerOwed'
    BY <1>0, <2>1, StillOwed
  <2>9. CallSound("ui")'
    BY <2>2 DEF CallSound
  <2> QED BY <1>0, <2>1, <2>5, <2>6, <2>7, <2>8, <2>9, StepKeeps
<1>5. CASE Kill \/ ClearRunning
  <2>1. PICK from \in {"kill", "clearRunning"}, to \in {"clearRunning", "quit"} :
          /\ Goto("ui", from, to) /\ from # to
          /\ UNCHANGED <<current, previous, timer, status, event, next>>
          /\ isRunning' \in BOOLEAN /\ stopped' \in BOOLEAN /\ (stopped' \/ ~isRunning')
    BY <1>0, <1>5 DEF Kill, ClearRunning, TypeOK, fsmVars
  <2>2. /\ from \in Inside /\ to \in Idle \cup Inside /\ to \notin EventPlaces /\ to # "asyncWait"
    BY DEF Inside, Idle, EventPlaces
  <2>3. pc'["ui"] = to
    BY <1>0, <2>1, <2>2, GotoEffect
  <2>4. TypeOK'
    BY <1>0, <2>1, <2>2, TypesKept DEF TypeOK
  <2>5. EventHeld'
    BY <1>0, <2>1, <2>2, EventsKept
  <2>6. WaitsCounted'
    <3>1. timer'.waits <= timer.waits /\ timer'.waits \in Nat
      BY <1>0, <2>1, TimerRecord
    <3> QED BY <1>0, <2>1, <2>2, <3>1, NoWaitAdded
  <2>7. TimerOwed'
    BY <2>1 DEF TimerOwed
  <2>8. CallSound("ui")'
    BY <2>3 DEF CallSound
  <2> QED BY <1>0, <2>1, <2>2, <2>4, <2>5, <2>6, <2>7, <2>8, StepKeeps
<1> QED BY <1>1, <1>2, <1>3, <1>4, <1>5 DEF StopStep, StopCheck

LEMMA MainKeeps ==
  ASSUME ThreadsInv, Start \/ TimerExpires \/ TimerCallback \/ AssertTimed \/ RunReturns
  PROVE  ThreadsInv'
<1>0. /\ TypeOK /\ EventHeld /\ WaitsCounted /\ TimerOwed /\ "main" \in Threads
      /\ "begin" \notin Inside /\ "loop" \notin Inside /\ "returned" \notin Inside
      /\ {"begin", "loop", "returned"} \subseteq Idle
  BY DEF ThreadsInv, Threads, Inside, Idle
<1>1. CASE Start
  <2>1. /\ Goto("main", "begin", "action") /\ isRunning' = TRUE
        /\ UNCHANGED <<current, previous, timer, stopped, status, event, next>>
        /\ "action" \in Inside /\ "action" \in Committed /\ "action" \notin EventPlaces
    BY <1>1 DEF Start, Inside, Committed, EventPlaces
  <2>2. pc'["main"] = "action"
    BY <1>0, <2>1, GotoEffect
  <2>3. TypeOK'
    BY <1>0, <2>1, TypesKept DEF TypeOK
  <2>4. EventHeld'
    BY <1>0, <2>1, EventsKept
  <2>5. WaitsCounted'
    <3>1. timer'.waits <= timer.waits /\ timer'.waits \in Nat
      BY <1>0, <2>1, TimerRecord
    <3> QED BY <1>0, <2>1, <3>1, NoWaitAdded
  <2>6. TimerOwed'
    BY <1>0, <2>1, StillOwed
  <2>7. CallSound("main")'
    BY <2>2 DEF CallSound
  <2> QED BY <1>0, <2>1, <2>3, <2>4, <2>5, <2>6, <2>7, StepKeeps
<1>2. CASE TimerExpires
  <2>1. /\ timer.waits > 0 /\ timer' = [waits |-> 0, expired |-> timer.waits]
        /\ UNCHANGED <<current, previous, isRunning, stopped, status, pc, event, next, overlap>>
    BY <1>2 DEF TimerExpires, fsmVars
  <2>2. /\ timer' \in [waits : 0 .. 2, expired : 0 .. 2]
        /\ timer'.waits = 0 /\ timer'.expired > 0
    BY <1>0, <2>1, TimerRecord
  <2>3. TypeOK'
    BY <1>0, <2>1, <2>2 DEF TypeOK
  <2>4. EventHeld' /\ WaitsCounted' /\ TimerOwed'
    BY <1>0, <2>1, <2>2 DEF EventHeld, WaitsCounted, TimerOwed
  <2>5. ~overlap' => OneInside' /\ \A u \in Threads : CallSound(u)'
    BY <2>1 DEF ThreadsInv, OneInside, CallSound
  <2> QED BY <2>3, <2>4, <2>5 DEF ThreadsInv
<1>3. CASE TimerCallback
  <2>1. /\ Goto("main", "loop", "assertTimed") /\ timer.expired > 0
        /\ timer' = [timer EXCEPT !.expired = timer.expired - 1]
        /\ UNCHANGED <<current, previous, isRunning, stopped, status, event, next>>
        /\ "assertTimed" \in Inside /\ "assertTimed" \in Committed /\ "assertTimed" \notin EventPlaces
    BY <1>3 DEF TimerCallback, Inside, Committed, EventPlaces, fsmVars
  <2>2. pc'["main"] = "assertTimed"
    BY <1>0, <2>1, GotoEffect
  <2> DEFINE n == timer.expired - 1
  <2>3. n \in 0 .. 2
    BY <1>0, <2>1, TimerRecord
  <2>4. timer' \in [waits : 0 .. 2, expired : 0 .. 2] /\ timer'.waits = timer.waits
    <3> HIDE DEF n
    <3>1. timer' = [timer EXCEPT !.expired = n]
      BY <2>1 DEF n
    <3> QED BY <1>0, <2>3, <3>1, TimerRecord
  <2>5. TypeOK'
    BY <1>0, <2>1, <2>4, TypesKept DEF TypeOK
  <2>6. EventHeld'
    BY <1>0, <2>1, EventsKept
  <2>7. WaitsCounted'
    <3>1. timer'.waits <= timer.waits /\ timer'.waits \in Nat
      BY <1>0, <2>4, TimerRecord
    <3> QED BY <1>0, <2>1, <3>1, NoWaitAdded
  <2>8. TimerOwed'
    BY <1>0, <2>1, StillOwed
  <2>9. CallSound("main")'
    BY <2>2 DEF CallSound
  <2> QED BY <1>0, <2>1, <2>5, <2>6, <2>7, <2>8, <2>9, StepKeeps
<1>4. CASE AssertTimed
  <2>1. CASE Timed(Config, current) /\ Goto("main", "assertTimed", "savePreviousTimed") /\ OnlyMoves
    <3>1. pc'["main"] = "savePreviousTimed"
      BY <1>0, <2>1, GotoEffect DEF Inside
    <3>2. CallSound("main")'
      BY <2>1, <3>1 DEF CallSound, OnlyMoves, fsmVars
    <3> QED BY <1>0, <2>1, <3>2, MoveKeeps DEF Inside, Committed, EventPlaces
  <2>2. CASE Aborts("main", "assertTimed", "noTimeOut")
    BY <1>0, <2>2, AbortKeeps
  <2> QED BY <1>4, <2>1, <2>2 DEF AssertTimed
<1>5. CASE RunReturns
  <2>1. /\ Goto("main", "loop", "returned") /\ stopped
        /\ UNCHANGED <<current, previous, isRunning, timer, stopped, status, event, next>>
    BY <1>5 DEF RunReturns, OnlyMoves, fsmVars
  <2>2. /\ pc["main"] = "loop" /\ pc'["main"] = "returned"
        /\ \A u \in Threads : u # "main" => pc'[u] = pc[u]
        /\ "returned" \notin EventPlaces /\ "returned" # "asyncWait"
    BY <1>0, <2>1, GotoEffect DEF EventPlaces
  <2>3. TypeOK'
    BY <1>0, <2>1, TypesKept DEF TypeOK
  <2>4. EventHeld'
    BY <1>0, <2>1, <2>2, EventsKept
  <2>5. WaitsCounted'
    BY <1>0, <2>1, <2>2 DEF WaitsCounted
  <2>6. TimerOwed'
    BY <2>1 DEF TimerOwed
  <2>7. ASSUME ~overlap' PROVE OneInside' /\ \A u \in Threads : CallSound(u)'
    <3>1. CASE overlap
      <4>1. Busy \ {"main"} = {}
        BY <1>0, <2>1, <2>7, <3>1 DEF Goto
      <4>2. \A u \in Threads : pc'[u] \notin Inside
        BY <1>0, <2>2, <4>1 DEF Busy
      <4> QED BY <4>2 DEF OneInside, CallSound, Inside
    <3>2. CASE ~overlap
      <4>1. OneInside /\ \A u \in Threads : CallSound(u)
        BY <3>2 DEF ThreadsInv
      <4>2. OneInside'
        BY <1>0, <2>2, <4>1 DEF OneInside
      <4>3. ASSUME NEW u \in Threads PROVE CallSound(u)'
        BY <2>1, <2>2, <4>1 DEF CallSound
      <4> QED BY <4>2, <4>3
    <3> QED BY <3>1, <3>2
  <2> QED BY <2>3, <2>4, <2>5, <2>6, <2>7 DEF ThreadsInv
<1> QED BY <1>1, <1>2, <1>3, <1>4, <1>5

LEMMA ThreadsNext == ThreadsInv /\ [Next]_vars => ThreadsInv'
<1> SUFFICES ASSUME ThreadsInv, [Next]_vars PROVE ThreadsInv'
  OBVIOUS
<1>1. ASSUME NEW t \in Threads, FsmStep(t) PROVE ThreadsInv'
  BY <1>1, ChecksKeep, SwitchKeeps, TimerKeeps DEF FsmStep
<1>2. CASE PressKey
  <2>1. PICK ev \in Keys : event' = [event EXCEPT !["ui"] = ev]
    BY <1>2 DEF PressKey
  <2>2. /\ Goto("ui", "keys", "checkRunning") /\ UNCHANGED <<fsmVars, timer, stopped, status, next>>
        /\ "ui" \in Threads /\ "keys" \in Idle /\ ev \in Events
    BY <1>2, ThreadsAssumption DEF PressKey, Threads, Idle
  <2> QED BY <2>1, <2>2, CallKeeps
<1>3. CASE RxHandler
  <2>1. PICK ev \in Messages : event' = [event EXCEPT !["main"] = ev]
    BY <1>3 DEF RxHandler
  <2>2. /\ Goto("main", "loop", "checkRunning") /\ UNCHANGED <<fsmVars, timer, stopped, status, next>>
        /\ "main" \in Threads /\ "loop" \in Idle /\ ev \in Events
    BY <1>3, ThreadsAssumption DEF RxHandler, Threads, Idle
  <2> QED BY <2>1, <2>2, CallKeeps
<1>4. CASE PressQuit \/ StopStep
  BY <1>4, StopKeeps
<1>5. CASE Start \/ TimerExpires \/ TimerCallback \/ AssertTimed \/ RunReturns
  BY <1>5, MainKeeps
<1>6. CASE UNCHANGED vars
  BY <1>6 DEF vars, fsmVars, ThreadsInv, TypeOK, EventHeld, WaitsCounted, TimerOwed, OneInside, CallSound
<1>7. "main" \in Threads /\ "ui" \in Threads
  BY DEF Threads
<1> QED BY <1>1, <1>2, <1>3, <1>4, <1>5, <1>6, <1>7 DEF Next, MainStep, UiStep

LEMMA ThreadsInvariant == Spec => []ThreadsInv
  BY ThreadsInit, ThreadsNext, PTL DEF Spec
-----------------------------------------------------------------------------
\* Both threads keep to the program: every event processed is one, every state written is
\* one, and never more than two waits of the timer are pending, one for each thread.
THEOREM ThreadsTyped == Spec => []TypeOK
<1>1. ThreadsInv => TypeOK
  BY DEF ThreadsInv
<1> QED BY <1>1, ThreadsInvariant, PTL

\* No interleaving of the keyboard thread with the loop's freezes an FSM: a state with a
\* time-out has its timer whenever no call is in progress.
THEOREM ThreadsKeepTimer == Spec => []QuietStateHasTimer
<1>1. ThreadsInv => QuietStateHasTimer
  <2> SUFFICES ASSUME ThreadsInv, status = "alive", isRunning, ~stopped, Busy = {},
                      Timed(Config, current)
               PROVE  timer.waits > 0 \/ timer.expired > 0
    BY DEF QuietStateHasTimer
  <2>1. \A t \in Threads : pc[t] \notin Committed
    BY Places DEF Busy
  <2> QED BY <2>1 DEF ThreadsInv, TimerOwed
<1> QED BY <1>1, ThreadsInvariant, PTL

\* A call that meets no call of the other thread moves the FSM along its graph: what it has
\* read of _current still holds when it writes.
THEOREM AloneIsSound == Spec => AloneMovesAlongGraph
<1>1. ASSUME ThreadsInv, [Next]_vars, current' # current, ~overlap
      PROVE  current' \in Successors(Config, current, {}) /\ previous' = current
  <2>1. PICK t \in Threads : Write(t)
    <3>1. ASSUME NEW t \in Threads, FsmStep(t) PROVE Write(t)
      BY <1>1, <3>1 DEF FsmStep, CheckRunning, CheckAllowed, CheckTimed, Cancel, SavePrevious, Look,
         RunAction, ExpiresAfter, AsyncWait, Aborts, OnlyMoves, fsmVars
    <3>2. FsmStep("main") \/ FsmStep("ui")
      BY <1>1 DEF Next, MainStep, UiStep, Start, TimerExpires, TimerCallback, AssertTimed, RxHandler,
         RunReturns, PressKey, PressQuit, StopStep, StopCheck, StopTimer, Kill, ClearRunning, Aborts,
         OnlyMoves, fsmVars, vars
    <3> QED BY <3>1, <3>2 DEF Threads
  <2>2. CallSound(t) /\ pc[t] = "write" /\ current' = next[t] /\ previous' = previous
    BY <1>1, <2>1 DEF ThreadsInv, Write, Goto
  <2> QED BY <2>2 DEF CallSound
<1>2. ThreadsInv /\ [Next]_vars
        => [current' # current /\ ~overlap =>
              current' \in Successors(Config, current, {}) /\ previous' = current]_vars
  BY <1>1
<1> QED BY <1>2, ThreadsInvariant, PTL DEF Spec, AloneMovesAlongGraph
=============================================================================
