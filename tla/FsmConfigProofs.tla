--------------------------- MODULE FsmConfigProofs ---------------------------
(***************************************************************************)
(* Theorems about the configuration functions, for all enumerations and    *)
(* any number of calls.                                                    *)
(***************************************************************************)
EXTENDS FsmConfigApi, SequenceTheorems, TLAPS

(* What every configuration call keeps true of the tables, state by state. *)

EventsIn(list) == {list[n].event : n \in DOMAIN list}

OnePerEvent(list) == \A m, n \in DOMAIN list : list[m].event = list[n].event => m = n

\* The list of inner transitions of st, the columns of the matrices and the pass-states agree.
ConsistentAt(c, st) ==
  LET list == c.innerTransList[st]
  IN /\ EventsIn(list) \subseteq c.innerEvents
     /\ OnePerEvent(list)
     /\ \A ev \in Events : c.allowedMat[ev][st] = -1 => ev \in EventsIn(list)
     /\ \A n \in DOMAIN list : /\ c.allowedMat[list[n].event][st] # 0
                               /\ c.transitionMat[list[n].event][st] = list[n].dest
     /\ c.isPassState[st] => c.transitionMat[AatRow][st] # st

Consistent(c) ==
  /\ c \in Tables
  /\ c.innerEvents \subseteq InnerNames
  /\ \A st \in States : ConsistentAt(c, st)

AatsLeave(c) == \A st \in States : c.isPassState[st] => c.transitionMat[AatRow][st] # st

ApiInv ==
  /\ Consistent(tables)
  /\ copied \in Tables /\ AatsLeave(copied)
  /\ default \in Nat /\ calls \in 0 .. MaxCalls
-----------------------------------------------------------------------------
(* What each configuration function does to the tables. *)

LEMMA Rows == Events \subseteq 0 .. AatRow /\ AatRow \in 0 .. AatRow /\ AatRow \notin Events
  BY EnumSizes DEF Events, AatRow

LEMMA TableTypes ==
  ASSUME NEW c \in Tables
  PROVE  /\ c.transitionMat \in [0 .. AatRow -> [States -> States]]
         /\ c.allowedMat \in [Events -> [States -> Int]]
         /\ c.timerEvent \in [States -> TimerEvent]
         /\ c.isPassState \in [States -> BOOLEAN]
         /\ c.innerTransList \in [States -> Seq(InnerTransition)]
         /\ c.innerEvents \in SUBSET Events
  BY DEF Tables

LEMMA TablesRecord ==
  ASSUME NEW c \in Tables
  PROVE  c = [ transitionMat |-> c.transitionMat, allowedMat |-> c.allowedMat,
               timerEvent |-> c.timerEvent, isPassState |-> c.isPassState,
               innerTransList |-> c.innerTransList, innerEvents |-> c.innerEvents ]
  BY DEF Tables

\* A call that touches external transitions and time-outs: AATs and the transitions of
\* inner events stay, at most their mark becomes the one of an event that is handled.
External(c, d) ==
  /\ d \in Tables
  /\ d.innerTransList = c.innerTransList /\ d.innerEvents = c.innerEvents
  /\ d.isPassState = c.isPassState
  /\ d.transitionMat[AatRow] = c.transitionMat[AatRow]
  /\ \A ev \in Events, st \in States :
       /\ d.allowedMat[ev][st] = -1 => c.allowedMat[ev][st] = -1
       /\ ev \in c.innerEvents =>
            /\ d.transitionMat[ev][st] = c.transitionMat[ev][st]
            /\ d.allowedMat[ev][st] # 0 \/ c.allowedMat[ev][st] = 0

\* One cell of a matrix is set.
LEMMA CellSet ==
  ASSUME NEW Row, NEW S, NEW mat \in [Row -> [States -> S]],
         NEW row \in Row, NEW st \in States, NEW v \in S
  PROVE  LET new == [mat EXCEPT ![row][st] = v]
         IN /\ new \in [Row -> [States -> S]]
            /\ \A r \in Row : r # row => new[r] = mat[r]
            /\ \A i \in States : new[row][i] = IF i = st THEN v ELSE mat[row][i]
  OBVIOUS

\* A row of a matrix is set.
LEMMA RowSet ==
  ASSUME NEW Row, NEW S, NEW mat \in [Row -> [States -> S]],
         NEW row \in Row, NEW line \in [States -> S]
  PROVE  LET new == [mat EXCEPT ![row] = line]
         IN /\ new \in [Row -> [States -> S]]
            /\ \A r \in Row : r # row => new[r] = mat[r]
            /\ new[row] = line
  OBVIOUS

\* The tables with other matrices and time-outs, and those that make a call an external one.
With(c, mat, allowed, timers) ==
  [transitionMat |-> mat, allowedMat |-> allowed, timerEvent |-> timers,
   isPassState |-> c.isPassState, innerTransList |-> c.innerTransList, innerEvents |-> c.innerEvents]

LEMMA WithFields ==
  ASSUME NEW c \in Tables, NEW mat, NEW allowed, NEW timers
  PROVE  /\ [c EXCEPT !.transitionMat = mat] = With(c, mat, c.allowedMat, c.timerEvent)
         /\ [c EXCEPT !.allowedMat = allowed] = With(c, c.transitionMat, allowed, c.timerEvent)
         /\ [c EXCEPT !.timerEvent = timers] = With(c, c.transitionMat, c.allowedMat, timers)
         /\ [c EXCEPT !.transitionMat = mat, !.allowedMat = allowed] = With(c, mat, allowed, c.timerEvent)
<1>1. [c EXCEPT !.transitionMat = mat] = With(c, mat, c.allowedMat, c.timerEvent)
  BY TablesRecord DEF With
<1>2. [c EXCEPT !.allowedMat = allowed] = With(c, c.transitionMat, allowed, c.timerEvent)
  BY TablesRecord DEF With
<1>3. [c EXCEPT !.timerEvent = timers] = With(c, c.transitionMat, c.allowedMat, timers)
  BY TablesRecord DEF With
<1>4. [c EXCEPT !.transitionMat = mat, !.allowedMat = allowed] = With(c, mat, allowed, c.timerEvent)
  <2> DEFINE e == With(c, mat, c.allowedMat, c.timerEvent)
  <2>1. [e EXCEPT !.allowedMat = allowed] = With(c, mat, allowed, c.timerEvent)
    BY DEF With
  <2>2. [c EXCEPT !.transitionMat = mat] = e
    BY <1>1
  <2> HIDE DEF e
  <2>3. [[c EXCEPT !.transitionMat = mat] EXCEPT !.allowedMat = allowed] = With(c, mat, allowed, c.timerEvent)
    BY <2>1, <2>2
  <2> QED BY <2>3, Zenon
<1> QED BY <1>1, <1>2, <1>3, <1>4

KeepInner(c, mat, allowed, timers) ==
  /\ mat \in [0 .. AatRow -> [States -> States]]
  /\ allowed \in [Events -> [States -> Int]]
  /\ timers \in [States -> TimerEvent]
  /\ mat[AatRow] = c.transitionMat[AatRow]
  /\ \A ev \in c.innerEvents : mat[ev] = c.transitionMat[ev]
  /\ \A ev \in Events, st \in States :
       /\ allowed[ev][st] = -1 => c.allowedMat[ev][st] = -1
       /\ ev \in c.innerEvents => allowed[ev][st] # 0 \/ c.allowedMat[ev][st] = 0

LEMMA ExternalFields ==
  ASSUME NEW c \in Tables, NEW mat, NEW allowed, NEW timers, KeepInner(c, mat, allowed, timers)
  PROVE  External(c, With(c, mat, allowed, timers))
<1> DEFINE d == With(c, mat, allowed, timers)
<1>1. /\ d \in Tables /\ d.transitionMat = mat /\ d.allowedMat = allowed
      /\ d.innerTransList = c.innerTransList /\ d.innerEvents = c.innerEvents
      /\ d.isPassState = c.isPassState
  BY DEF Tables, KeepInner, With
<1> QED BY <1>1 DEF External, KeepInner

LEMMA AssignTransitionMatEffect ==
  ASSUME NEW c \in Tables, c.innerEvents = {}, NEW mat \in [Events -> [States -> States]]
  PROVE  External(c, AssignTransitionMat(c, mat))
<1> DEFINE new == [row \in 0 .. AatRow |-> IF row \in Events THEN mat[row] ELSE c.transitionMat[row]]
<1>1. new \in [0 .. AatRow -> [States -> States]] /\ new[AatRow] = c.transitionMat[AatRow]
  BY TableTypes, Rows
<1>2. AssignTransitionMat(c, mat)
        = With(c, new, c.allowedMat, c.timerEvent)
  BY WithFields DEF AssignTransitionMat
<1> HIDE DEF new
<1>9. KeepInner(c, new, c.allowedMat, c.timerEvent)
  BY <1>1, TableTypes DEF KeepInner
<1> QED BY <1>2, <1>9, ExternalFields

LEMMA AssignEventMatEffect ==
  ASSUME NEW c \in Tables, c.innerEvents = {}, NEW mat \in [Events -> [States -> MatValues]]
  PROVE  External(c, AssignEventMat(c, mat))
<1>1. mat \in [Events -> [States -> Int]] /\ \A ev \in Events, st \in States : mat[ev][st] # -1
  BY DEF MatValues
<1>2. AssignEventMat(c, mat)
        = With(c, c.transitionMat, mat, c.timerEvent)
  BY WithFields DEF AssignEventMat
<1>9. KeepInner(c, c.transitionMat, mat, c.timerEvent)
  BY <1>1, TableTypes DEF KeepInner
<1> QED BY <1>2, <1>9, ExternalFields

LEMMA AssignTransitionEffect ==
  ASSUME NEW c \in Tables, NEW st1 \in States, NEW st2 \in States, NEW ev \in Events \ c.innerEvents
  PROVE  External(c, AssignTransition(c, st1, ev, st2))
<1> DEFINE mat == [c.transitionMat EXCEPT ![ev][st1] = st2]
           allowed == [c.allowedMat EXCEPT ![ev][st1] = 1]
<1>0. /\ ev \in 0 .. AatRow /\ ev \in Events /\ ev # AatRow /\ 1 \in Int
      /\ c.transitionMat \in [0 .. AatRow -> [States -> States]]
      /\ c.allowedMat \in [Events -> [States -> Int]]
  BY TableTypes, Rows
<1>1. /\ mat \in [0 .. AatRow -> [States -> States]]
      /\ \A r \in 0 .. AatRow : r # ev => mat[r] = c.transitionMat[r]
  BY <1>0, CellSet
<1>2. /\ allowed \in [Events -> [States -> Int]]
      /\ \A e \in Events : e # ev => allowed[e] = c.allowedMat[e]
      /\ \A i \in States : allowed[ev][i] = IF i = st1 THEN 1 ELSE c.allowedMat[ev][i]
  BY <1>0, CellSet
<1>3. AssignTransition(c, st1, ev, st2)
        = With(c, mat, allowed, c.timerEvent)
  <2> DEFINE e == [c EXCEPT !.transitionMat = mat]
  <2>1. e.allowedMat = c.allowedMat
    BY DEF Tables
  <2>2. AssignTransition(c, st1, ev, st2) = [e EXCEPT !.allowedMat = [e.allowedMat EXCEPT ![ev][st1] = 1]]
    BY DEF AssignTransition
  <2>3. [e.allowedMat EXCEPT ![ev][st1] = 1] = allowed
    BY <2>1
  <2>4. [e EXCEPT !.allowedMat = allowed] = With(c, mat, allowed, c.timerEvent)
    BY WithFields
  <2> QED BY <2>2, <2>3, <2>4
<1> HIDE DEF mat, allowed
<1>4. mat[AatRow] = c.transitionMat[AatRow] /\ \A e \in c.innerEvents : mat[e] = c.transitionMat[e]
  BY <1>0, <1>1, TableTypes, Rows
<1>5. ASSUME NEW e \in Events, NEW st \in States
      PROVE  /\ allowed[e][st] = -1 => c.allowedMat[e][st] = -1
             /\ e \in c.innerEvents => allowed[e][st] # 0 \/ c.allowedMat[e][st] = 0
  BY <1>2
<1>9. KeepInner(c, mat, allowed, c.timerEvent)
  BY <1>1, <1>2, <1>4, <1>5, TableTypes DEF KeepInner
<1> QED BY <1>3, <1>9, ExternalFields

LEMMA AssignTransitionFromAllEffect ==
  ASSUME NEW c \in Tables, NEW st \in States, NEW ev \in Events \ c.innerEvents
  PROVE  External(c, AssignTransitionFromAll(c, ev, st))
<1> DEFINE line == [i \in States |-> IF i # st THEN 1 ELSE c.allowedMat[ev][i]]
           mat == [c.transitionMat EXCEPT ![ev] = [i \in States |-> st]]
           allowed == [c.allowedMat EXCEPT ![ev] = line]
<1>0. /\ ev \in 0 .. AatRow /\ ev \in Events /\ ev # AatRow
      /\ c.transitionMat \in [0 .. AatRow -> [States -> States]]
      /\ c.allowedMat \in [Events -> [States -> Int]]
      /\ line \in [States -> Int] /\ [i \in States |-> st] \in [States -> States]
  BY TableTypes, Rows
<1>1. /\ mat \in [0 .. AatRow -> [States -> States]]
      /\ \A r \in 0 .. AatRow : r # ev => mat[r] = c.transitionMat[r]
  BY <1>0, RowSet
<1>2. /\ allowed \in [Events -> [States -> Int]]
      /\ \A e \in Events : e # ev => allowed[e] = c.allowedMat[e]
      /\ \A i \in States : allowed[ev][i] = IF i # st THEN 1 ELSE c.allowedMat[ev][i]
  BY <1>0, RowSet
<1>3. AssignTransitionFromAll(c, ev, st)
        = With(c, mat, allowed, c.timerEvent)
  <2> DEFINE e == [c EXCEPT !.transitionMat = mat]
  <2>1. e.allowedMat = c.allowedMat
    BY DEF Tables
  <2>2. AssignTransitionFromAll(c, ev, st) = [e EXCEPT !.allowedMat = [e.allowedMat EXCEPT ![ev] = [i \in States |-> IF i # st THEN 1 ELSE e.allowedMat[ev][i]]]]
    BY DEF AssignTransitionFromAll
  <2>3. [e.allowedMat EXCEPT ![ev] = [i \in States |-> IF i # st THEN 1 ELSE e.allowedMat[ev][i]]] = allowed
    BY <2>1
  <2>4. [e EXCEPT !.allowedMat = allowed] = With(c, mat, allowed, c.timerEvent)
    BY WithFields
  <2> QED BY <2>2, <2>3, <2>4
<1> HIDE DEF mat, allowed, line
<1>4. mat[AatRow] = c.transitionMat[AatRow] /\ \A e \in c.innerEvents : mat[e] = c.transitionMat[e]
  BY <1>0, <1>1, TableTypes, Rows
<1>5. ASSUME NEW e \in Events, NEW i \in States
      PROVE  /\ allowed[e][i] = -1 => c.allowedMat[e][i] = -1
             /\ e \in c.innerEvents => allowed[e][i] # 0 \/ c.allowedMat[e][i] = 0
  BY <1>2
<1>9. KeepInner(c, mat, allowed, c.timerEvent)
  BY <1>1, <1>2, <1>4, <1>5, TableTypes DEF KeepInner
<1> QED BY <1>3, <1>9, ExternalFields

LEMMA AllowEffect ==
  ASSUME NEW c \in Tables
  PROVE  /\ External(c, AllowAllEvents(c))
         /\ \A st \in States, ev \in Events \ c.innerEvents, what \in BOOLEAN :
              External(c, AllowEvent(c, st, ev, what))
<1>1. External(c, AllowAllEvents(c))
  <2> DEFINE allowed == [ev \in Events |-> [st \in States |-> 1]]
  <2>1. allowed \in [Events -> [States -> Int]] /\ \A ev \in Events, st \in States : allowed[ev][st] = 1
    OBVIOUS
  <2>2. AllowAllEvents(c)
          = With(c, c.transitionMat, allowed, c.timerEvent)
    BY WithFields DEF AllowAllEvents
  <2> HIDE DEF allowed
  <2>9. KeepInner(c, c.transitionMat, allowed, c.timerEvent)
    BY <2>1, TableTypes DEF KeepInner
  <2> QED BY <2>2, <2>9, ExternalFields
<1>2. ASSUME NEW st \in States, NEW ev \in Events \ c.innerEvents, NEW what \in BOOLEAN
      PROVE  External(c, AllowEvent(c, st, ev, what))
  <2> DEFINE allowed == [c.allowedMat EXCEPT ![ev][st] = IF what THEN 1 ELSE 0]
  <2>0. c.allowedMat \in [Events -> [States -> Int]] /\ ev \in Events /\ (IF what THEN 1 ELSE 0) \in Int
    BY TableTypes
  <2>1. /\ allowed \in [Events -> [States -> Int]]
        /\ \A e \in Events : e # ev => allowed[e] = c.allowedMat[e]
        /\ \A i \in States :
             allowed[ev][i] = IF i = st THEN (IF what THEN 1 ELSE 0) ELSE c.allowedMat[ev][i]
    BY <2>0, CellSet
  <2>2. AllowEvent(c, st, ev, what)
          = With(c, c.transitionMat, allowed, c.timerEvent)
    BY WithFields DEF AllowEvent
  <2> HIDE DEF allowed
  <2>3. ASSUME NEW e \in Events, NEW i \in States
        PROVE  /\ allowed[e][i] = -1 => c.allowedMat[e][i] = -1
               /\ e \in c.innerEvents => allowed[e][i] # 0 \/ c.allowedMat[e][i] = 0
    BY <2>1
  <2>9. KeepInner(c, c.transitionMat, allowed, c.timerEvent)
    BY <2>1, <2>3, TableTypes DEF KeepInner
  <2> QED BY <2>2, <2>9, ExternalFields
<1> QED BY <1>1, <1>2

LEMMA TimeOutEffect ==
  ASSUME NEW c \in Tables, NEW st \in States, NEW to \in States, NEW dur \in Nat
  PROVE  /\ External(c, AssignTimeOut(c, st, dur, to))
         /\ External(c, AssignTimeOutDefault(c, st, to, dur))
         /\ External(c, AssignGlobalTimeOut(c, dur, st))
         /\ External(c, ClearTimeOut(c, st))
         /\ External(c, ClearTimeOuts(c))
<1>1. ASSUME NEW timers \in [States -> TimerEvent]
      PROVE  External(c, [c EXCEPT !.timerEvent = timers])
  <2>1. [c EXCEPT !.timerEvent = timers]
          = With(c, c.transitionMat, c.allowedMat, timers)
    BY WithFields
  <2>9. KeepInner(c, c.transitionMat, c.allowedMat, timers)
    BY TableTypes DEF KeepInner
  <2> QED BY <2>1, <2>9, ExternalFields
<1>2. c.timerEvent \in [States -> TimerEvent]
      /\ [enabled |-> TRUE, nextState |-> to, duration |-> dur] \in TimerEvent
      /\ [enabled |-> TRUE, nextState |-> st, duration |-> dur] \in TimerEvent
  BY TableTypes DEF TimerEvent
<1>3. \A i \in States : /\ [c.timerEvent[i] EXCEPT !.enabled = FALSE] \in TimerEvent
                        /\ [c.timerEvent[i] EXCEPT !.nextState = to] \in TimerEvent
  BY <1>2 DEF TimerEvent
<1>4. External(c, AssignTimeOut(c, st, dur, to))
  BY <1>1, <1>2 DEF AssignTimeOut
<1>5. External(c, [c EXCEPT !.timerEvent[st].nextState = to])
  <2>1. [c.timerEvent EXCEPT ![st] = [c.timerEvent[st] EXCEPT !.nextState = to]]
          \in [States -> TimerEvent]
    BY <1>2, <1>3
  <2> QED BY <1>1, <2>1
<1>6. External(c, AssignGlobalTimeOut(c, dur, st))
  BY <1>1, <1>2 DEF AssignGlobalTimeOut
<1>7. External(c, ClearTimeOut(c, st))
  <2>1. [c.timerEvent EXCEPT ![st] = [c.timerEvent[st] EXCEPT !.enabled = FALSE]]
          \in [States -> TimerEvent]
    BY <1>2, <1>3
  <2> QED BY <1>1, <2>1 DEF ClearTimeOut
<1>8. External(c, ClearTimeOuts(c))
  <2>1. [i \in States |-> [c.timerEvent[i] EXCEPT !.enabled = FALSE]] \in [States -> TimerEvent]
    BY <1>3
  <2> QED BY <1>1, <2>1 DEF ClearTimeOuts
<1> QED BY <1>4, <1>5, <1>6, <1>7, <1>8 DEF AssignTimeOutDefault

\* Tables as a record, and the tables with one part replaced.
Record(mat, allowed, timers, pass, lists, inner) ==
  [transitionMat |-> mat, allowedMat |-> allowed, timerEvent |-> timers,
   isPassState |-> pass, innerTransList |-> lists, innerEvents |-> inner]

LEMMA RecordFields ==
  ASSUME NEW mat, NEW allowed, NEW timers, NEW pass, NEW lists, NEW inner, NEW new
  PROVE  LET r == Record(mat, allowed, timers, pass, lists, inner)
         IN /\ r.transitionMat = mat /\ r.allowedMat = allowed /\ r.timerEvent = timers
            /\ r.isPassState = pass /\ r.innerTransList = lists /\ r.innerEvents = inner
            /\ [r EXCEPT !.transitionMat = new] = Record(new, allowed, timers, pass, lists, inner)
            /\ [r EXCEPT !.allowedMat = new] = Record(mat, new, timers, pass, lists, inner)
            /\ [r EXCEPT !.timerEvent = new] = Record(mat, allowed, new, pass, lists, inner)
            /\ [r EXCEPT !.isPassState = new] = Record(mat, allowed, timers, new, lists, inner)
            /\ [r EXCEPT !.innerTransList = new] = Record(mat, allowed, timers, pass, new, inner)
            /\ [r EXCEPT !.innerEvents = new] = Record(mat, allowed, timers, pass, lists, new)
  BY DEF Record

LEMMA AssignAATRecord ==
  ASSUME NEW c \in Tables, NEW st1 \in States, NEW st2 \in States
  PROVE  AssignAAT(c, st1, st2) =
           Record([c.transitionMat EXCEPT ![AatRow][st1] = st2],
                  [ev \in Events |-> [c.allowedMat[ev] EXCEPT ![st1] = 0]],
                  [c.timerEvent EXCEPT ![st1].enabled = FALSE],
                  [c.isPassState EXCEPT ![st1] = TRUE],
                  [c.innerTransList EXCEPT ![st1] = << >>],
                  c.innerEvents)
<1> DEFINE mat == [c.transitionMat EXCEPT ![AatRow][st1] = st2]
           allowed == [ev \in Events |-> [c.allowedMat[ev] EXCEPT ![st1] = 0]]
           timers == [c.timerEvent EXCEPT ![st1].enabled = FALSE]
           pass == [c.isPassState EXCEPT ![st1] = TRUE]
           lists == [c.innerTransList EXCEPT ![st1] = << >>]
           e1 == [c EXCEPT !.transitionMat[AatRow][st1] = st2]
           e2 == [e1 EXCEPT !.allowedMat = [ev \in Events |-> [e1.allowedMat[ev] EXCEPT ![st1] = 0]]]
           e3 == [e2 EXCEPT !.isPassState[st1] = TRUE]
           e4 == [e3 EXCEPT !.innerTransList[st1] = << >>]
           e5 == [e4 EXCEPT !.timerEvent[st1].enabled = FALSE]
<1>1. c = Record(c.transitionMat, c.allowedMat, c.timerEvent, c.isPassState, c.innerTransList,
                 c.innerEvents)
  BY TablesRecord DEF Record
<1>2. e1 = Record(mat, c.allowedMat, c.timerEvent, c.isPassState, c.innerTransList, c.innerEvents)
  BY TablesRecord DEF Record
<1> HIDE DEF e1, mat
<1>3. e2 = Record(mat, allowed, c.timerEvent, c.isPassState, c.innerTransList, c.innerEvents)
  BY <1>2 DEF Record
<1> HIDE DEF e2, allowed
<1>4. e3 = Record(mat, allowed, c.timerEvent, pass, c.innerTransList, c.innerEvents)
  <2>1. e2.isPassState = c.isPassState
    BY <1>3 DEF Record
  <2>2. pass = [e2.isPassState EXCEPT ![st1] = TRUE]
    BY <2>1, Zenon
  <2>3. e3 = [e2 EXCEPT !.isPassState = pass]
    BY <2>2, Zenon
  <2> HIDE DEF e3, pass
  <2> QED BY <1>3, <2>3, RecordFields
<1> HIDE DEF e3, pass
<1>5. e4 = Record(mat, allowed, c.timerEvent, pass, lists, c.innerEvents)
  BY <1>4 DEF Record
<1> HIDE DEF e4, lists
<1>6. e5 = Record(mat, allowed, timers, pass, lists, c.innerEvents)
  <2>1. e4.timerEvent = c.timerEvent
    BY <1>5 DEF Record
  <2>2. timers = [e4.timerEvent EXCEPT ![st1].enabled = FALSE]
    BY <2>1, Zenon
  <2>3. e5 = [e4 EXCEPT !.timerEvent = timers]
    BY <2>2, Zenon
  <2> HIDE DEF e5, timers
  <2> QED BY <1>5, <2>3, RecordFields
<1> HIDE DEF e5, timers
<1>7. AssignAAT(c, st1, st2) = e5
  BY DEF AssignAAT, e1, e2, e3, e4, e5
<1> QED BY <1>6, <1>7 DEF mat, allowed, timers, pass, lists

-----------------------------------------------------------------------------
(* What they keep true of the tables. *)

\* A state none of whose columns changed.
SameAt(c, d, st) ==
  /\ d.innerTransList[st] = c.innerTransList[st] /\ d.isPassState[st] = c.isPassState[st]
  /\ \A ev \in Events : d.allowedMat[ev][st] = c.allowedMat[ev][st]
  /\ \A row \in 0 .. AatRow : d.transitionMat[row][st] = c.transitionMat[row][st]

LEMMA InnerEventTypes ==
  ASSUME NEW c \in Tables, NEW st \in States, NEW n \in DOMAIN c.innerTransList[st]
  PROVE  /\ c.innerTransList[st][n] \in InnerTransition
         /\ c.innerTransList[st][n].event \in Events
         /\ c.innerTransList[st][n].dest \in States
<1>1. c.innerTransList[st] \in Seq(InnerTransition)
  BY TableTypes
<1>2. c.innerTransList[st][n] \in InnerTransition
  BY <1>1, LenProperties, ElementOfSeq
<1> QED BY <1>2 DEF InnerTransition

LEMMA SameKeeps ==
  ASSUME NEW c \in Tables, NEW d, NEW st \in States,
         ConsistentAt(c, st), SameAt(c, d, st), c.innerEvents \subseteq d.innerEvents
  PROVE  ConsistentAt(d, st)
<1>1. AatRow \in 0 .. AatRow /\ Events \subseteq 0 .. AatRow
  BY Rows
<1> QED BY <1>1, InnerEventTypes DEF ConsistentAt, SameAt

LEMMA ExternalKeeps ==
  ASSUME NEW c, NEW d, Consistent(c), External(c, d)
  PROVE  Consistent(d)
<1>1. ASSUME NEW st \in States PROVE ConsistentAt(d, st)
  <2>1. /\ c \in Tables /\ ConsistentAt(c, st)
    BY DEF Consistent
  <2>2. \A n \in DOMAIN c.innerTransList[st] :
          /\ c.innerTransList[st][n].event \in Events
          /\ c.innerTransList[st][n].event \in c.innerEvents
    BY <2>1, InnerEventTypes DEF ConsistentAt, EventsIn
  <2>3. /\ d.innerTransList[st] = c.innerTransList[st] /\ d.innerEvents = c.innerEvents
        /\ d.isPassState[st] = c.isPassState[st]
        /\ d.transitionMat[AatRow][st] = c.transitionMat[AatRow][st]
    BY DEF External
  <2>4. \A ev \in Events : d.allowedMat[ev][st] = -1 => c.allowedMat[ev][st] = -1
    BY DEF External
  <2>5. \A ev \in Events \cap c.innerEvents :
          /\ d.transitionMat[ev][st] = c.transitionMat[ev][st]
          /\ d.allowedMat[ev][st] # 0 \/ c.allowedMat[ev][st] = 0
    BY DEF External
  <2> QED BY <2>1, <2>2, <2>3, <2>4, <2>5 DEF ConsistentAt
<1> QED BY <1>1 DEF Consistent, External

LEMMA AssignAATKeeps ==
  ASSUME NEW c, Consistent(c), NEW st1 \in States, NEW st2 \in States, st1 # st2
  PROVE  Consistent(AssignAAT(c, st1, st2))
<1> DEFINE mat == [c.transitionMat EXCEPT ![AatRow][st1] = st2]
           allowed == [ev \in Events |-> [c.allowedMat[ev] EXCEPT ![st1] = 0]]
           timers == [c.timerEvent EXCEPT ![st1].enabled = FALSE]
           pass == [c.isPassState EXCEPT ![st1] = TRUE]
           lists == [c.innerTransList EXCEPT ![st1] = << >>]
           d == Record(mat, allowed, timers, pass, lists, c.innerEvents)
<1>0. /\ c \in Tables /\ c.innerEvents \subseteq InnerNames
      /\ \A st \in States : ConsistentAt(c, st)
  BY DEF Consistent
<1>1. AssignAAT(c, st1, st2) = d
  BY <1>0, AssignAATRecord
<1>2. /\ mat \in [0 .. AatRow -> [States -> States]]
      /\ \A row \in 0 .. AatRow : row # AatRow => mat[row] = c.transitionMat[row]
      /\ \A i \in States : mat[AatRow][i] = IF i = st1 THEN st2 ELSE c.transitionMat[AatRow][i]
  <2>1. c.transitionMat \in [0 .. AatRow -> [States -> States]] /\ AatRow \in 0 .. AatRow
    BY <1>0, TableTypes, Rows
  <2> QED BY <2>1, CellSet
<1>3. /\ allowed \in [Events -> [States -> Int]]
      /\ \A ev \in Events, i \in States :
           allowed[ev][i] = IF i = st1 THEN 0 ELSE c.allowedMat[ev][i]
  <2>1. c.allowedMat \in [Events -> [States -> Int]]
    BY <1>0, TableTypes
  <2> QED BY <2>1
<1>4. timers \in [States -> TimerEvent]
  <2>1. c.timerEvent \in [States -> TimerEvent]
    BY <1>0, TableTypes
  <2>2. c.timerEvent[st1] \in TimerEvent
    BY <2>1
  <2>3. [c.timerEvent[st1] EXCEPT !.enabled = FALSE] \in TimerEvent
    BY <2>2 DEF TimerEvent
  <2> QED BY <2>1, <2>3
<1>5. /\ pass \in [States -> BOOLEAN]
      /\ \A i \in States : i # st1 => pass[i] = c.isPassState[i]
  <2>1. c.isPassState \in [States -> BOOLEAN]
    BY <1>0, TableTypes
  <2> QED BY <2>1
<1>6. /\ lists \in [States -> Seq(InnerTransition)]
      /\ \A i \in States : lists[i] = IF i = st1 THEN << >> ELSE c.innerTransList[i]
  <2>1. c.innerTransList \in [States -> Seq(InnerTransition)] /\ << >> \in Seq(InnerTransition)
    BY <1>0, TableTypes, EmptySeq
  <2> QED BY <2>1
<1>7. /\ d.transitionMat = mat /\ d.allowedMat = allowed /\ d.timerEvent = timers
      /\ d.isPassState = pass /\ d.innerTransList = lists /\ d.innerEvents = c.innerEvents
      /\ d = Record(mat, allowed, timers, pass, lists, c.innerEvents)
  BY RecordFields
<1> HIDE DEF mat, allowed, timers, pass, lists, d
<1>8. d \in Tables
  BY <1>0, <1>2, <1>3, <1>4, <1>5, <1>6, <1>7, TableTypes DEF Tables, Record
<1>9. ASSUME NEW st \in States PROVE ConsistentAt(d, st)
  <2>1. CASE st = st1
    <3>1. d.innerTransList[st] = << >> /\ \A ev \in Events : d.allowedMat[ev][st] # -1
      BY <1>3, <1>6, <1>7, <2>1
    <3>2. d.transitionMat[AatRow][st] # st
      BY <1>2, <1>7, <2>1
    <3> QED BY <3>1, <3>2 DEF ConsistentAt, EventsIn, OnePerEvent
  <2>2. CASE st # st1
    <3>1. \A row \in 0 .. AatRow : d.transitionMat[row][st] = c.transitionMat[row][st]
      BY <1>2, <1>7, <2>2
    <3>2. SameAt(c, d, st)
      BY <1>3, <1>5, <1>6, <1>7, <2>2, <3>1 DEF SameAt
    <3> QED BY <1>0, <1>7, <3>2, SameKeeps
  <2> QED BY <2>1, <2>2
<1> QED BY <1>0, <1>1, <1>7, <1>8, <1>9 DEF Consistent
-----------------------------------------------------------------------------
(* Inner transitions. *)

\* The list gets one more transition.
LEMMA AppendTransition ==
  ASSUME NEW list \in Seq(InnerTransition), NEW t \in InnerTransition,
         t.event \notin EventsIn(list), OnePerEvent(list)
  PROVE  LET new == Append(list, t)
         IN /\ new \in Seq(InnerTransition)
            /\ EventsIn(new) = EventsIn(list) \cup {t.event}
            /\ OnePerEvent(new)
            /\ \A n \in DOMAIN new : new[n] = t \/ \E m \in DOMAIN list : new[n] = list[m]
<1> DEFINE new == Append(list, t)
<1>1. /\ new \in Seq(InnerTransition) /\ Len(new) = Len(list) + 1
      /\ \A i \in 1 .. Len(list) : new[i] = list[i]
      /\ new[Len(list) + 1] = t
  BY AppendProperties
<1>2. /\ Len(list) \in Nat
      /\ DOMAIN list = 1 .. Len(list) /\ DOMAIN new = 1 .. Len(list) + 1
  BY <1>1, LenProperties
<1> HIDE DEF new
<1>3. DOMAIN new = DOMAIN list \cup {Len(list) + 1} /\ Len(list) + 1 \notin DOMAIN list
  BY <1>2
<1>4. \A n \in DOMAIN list : new[n] = list[n]
  BY <1>1, <1>2
<1>5. \A n \in DOMAIN new : n = Len(list) + 1 \/ n \in DOMAIN list
  BY <1>3
<1>6. EventsIn(new) = EventsIn(list) \cup {t.event}
  BY <1>1, <1>3, <1>4 DEF EventsIn
<1>7. OnePerEvent(new)
  <2> SUFFICES ASSUME NEW m \in DOMAIN new, NEW n \in DOMAIN new, new[m].event = new[n].event
               PROVE  m = n
    BY DEF OnePerEvent
  <2>1. CASE m \in DOMAIN list /\ n \in DOMAIN list
    BY <1>4, <2>1 DEF OnePerEvent
  <2>2. CASE m \in DOMAIN list /\ n = Len(list) + 1
    BY <1>1, <1>4, <2>2 DEF EventsIn
  <2>3. CASE n \in DOMAIN list /\ m = Len(list) + 1
    BY <1>1, <1>4, <2>3 DEF EventsIn
  <2> QED BY <1>5, <2>1, <2>2, <2>3
<1>8. \A n \in DOMAIN new : new[n] = t \/ \E m \in DOMAIN list : new[n] = list[m]
  BY <1>1, <1>4, <1>5
<1> QED BY <1>1, <1>6, <1>7, <1>8 DEF new

\* The only transition on an event is removed.
LEMMA RemoveTransition ==
  ASSUME NEW list \in Seq(InnerTransition), NEW ev \in EventsIn(list), OnePerEvent(list)
  PROVE  LET new == RemoveFirstMatch(list, LAMBDA t : t.event = ev)
         IN /\ new \in Seq(InnerTransition)
            /\ EventsIn(new) = EventsIn(list) \ {ev}
            /\ OnePerEvent(new)
            /\ \A n \in DOMAIN new : \E m \in DOMAIN list : new[n] = list[m]
<1>1. Len(list) \in Nat /\ DOMAIN list = 1 .. Len(list)
      /\ \A i \in 1 .. Len(list) : list[i] \in InnerTransition
  BY LenProperties, ElementOfSeq
<1>2. PICK k \in 1 .. Len(list) : list[k].event = ev
  BY <1>1 DEF EventsIn
<1>3. \A i \in 1 .. Len(list) : list[i].event = ev <=> i = k
  BY <1>1, <1>2 DEF OnePerEvent
<1>4. {i \in 1 .. Len(list) : list[i].event = ev} = {k}
  BY <1>2, <1>3
<1>5. Min({k}) = k
  BY <1>2 DEF Min
<1> DEFINE left == SubSeq(list, 1, k - 1)
           right == SubSeq(list, k + 1, Len(list))
           new == left \o right
<1>6. RemoveFirstMatch(list, LAMBDA t : t.event = ev) = new
  BY <1>2, <1>4, <1>5 DEF RemoveFirstMatch, SelectInSeq, RemoveAt
<1>7. /\ left \in Seq(InnerTransition) /\ Len(left) = k - 1
      /\ \A i \in 1 .. k - 1 : left[i] = list[i]
  <2>1. \A i \in 1 .. k - 1 : list[i] \in InnerTransition
    BY <1>1
  <2> QED BY <1>1, <2>1, SubSeqProperties
<1>8. /\ right \in Seq(InnerTransition) /\ Len(right) = Len(list) - k
      /\ \A i \in 1 .. Len(list) - k : right[i] = list[i + k]
  <2>1. \A i \in k + 1 .. Len(list) : list[i] \in InnerTransition
    BY <1>1
  <2>2. /\ right \in Seq(InnerTransition)
        /\ Len(right) = IF k + 1 <= Len(list) THEN Len(list) - (k + 1) + 1 ELSE 0
        /\ \A i \in 1 .. Len(list) - (k + 1) + 1 : right[i] = list[k + 1 + i - 1]
    BY <1>1, <2>1, SubSeqProperties
  <2>3. /\ Len(list) - (k + 1) + 1 = Len(list) - k
        /\ k + 1 <= Len(list) \/ Len(list) - k = 0
        /\ \A i \in Int : k + 1 + i - 1 = i + k
    <3>1. ASSUME NEW len \in Nat, NEW n \in 1 .. len
          PROVE  /\ len - (n + 1) + 1 = len - n /\ (n + 1 <= len \/ len - n = 0)
                 /\ \A i \in Int : n + 1 + i - 1 = i + n
      OBVIOUS
    <3> QED BY <1>1, <3>1
  <2>4. Len(right) = Len(list) - k
    BY <1>1, <2>2, <2>3
  <2> HIDE DEF right
  <2>5. ASSUME NEW i \in 1 .. Len(list) - k PROVE right[i] = list[i + k]
    <3>1. i \in 1 .. Len(list) - (k + 1) + 1
      BY <2>3
    <3>2. i \in Int
      BY <1>1
    <3>3. k + 1 + i - 1 = i + k
      BY <2>3, <3>2, Zenon
    <3> QED BY <2>2, <3>1, <3>3
  <2> QED BY <2>2, <2>4, <2>5
<1> HIDE DEF left, right
<1>9. /\ new \in Seq(InnerTransition) /\ Len(new) = Len(list) - 1
      /\ \A i \in 1 .. Len(list) - 1 :
           new[i] = IF i <= k - 1 THEN left[i] ELSE right[i - (k - 1)]
  <2>1. /\ new \in Seq(InnerTransition) /\ Len(new) = Len(left) + Len(right)
        /\ \A i \in 1 .. Len(left) + Len(right) :
             new[i] = IF i <= Len(left) THEN left[i] ELSE right[i - Len(left)]
    BY <1>7, <1>8, ConcatProperties
  <2>2. Len(left) = k - 1 /\ Len(left) + Len(right) = Len(list) - 1
    BY <1>1, <1>7, <1>8
  <2> HIDE DEF new
  <2> QED BY <2>1, <2>2
<1> HIDE DEF new
<1>10. \A i \in 1 .. Len(list) - 1 : new[i] = IF i < k THEN list[i] ELSE list[i + 1]
  <2> TAKE i \in 1 .. Len(list) - 1
  <2>1. CASE i < k
    BY <1>1, <1>7, <1>9, <2>1
  <2>2. CASE ~(i < k)
    <3>1. i - (k - 1) \in 1 .. Len(list) - k /\ i - (k - 1) + k = i + 1 /\ ~(i <= k - 1)
      BY <1>1, <2>2
    <3> QED BY <1>8, <1>9, <2>2, <3>1
  <2> QED BY <2>1, <2>2
<1>11. DOMAIN new = 1 .. Len(list) - 1
  BY <1>9, LenProperties
<1>12. \A n \in DOMAIN new : \E m \in DOMAIN list : m # k /\ new[n] = list[m]
  BY <1>1, <1>10, <1>11
<1>13. \A m \in DOMAIN list : m # k => \E n \in DOMAIN new : new[n] = list[m]
  <2> TAKE m \in DOMAIN list
  <2> HAVE m # k
  <2>1. CASE m < k
    BY <1>1, <1>10, <1>11, <2>1
  <2>2. CASE m > k
    <3>1. m - 1 \in 1 .. Len(list) - 1 /\ ~(m - 1 < k) /\ (m - 1) + 1 = m
      BY <1>1, <2>2
    <3> QED BY <1>10, <1>11, <3>1
  <2> QED BY <1>1, <2>1, <2>2
<1>14. EventsIn(new) = EventsIn(list) \ {ev}
  <2>1. \A e \in EventsIn(new) : e \in EventsIn(list) /\ e # ev
    BY <1>1, <1>3, <1>12 DEF EventsIn
  <2>2. \A e \in EventsIn(list) : e # ev => e \in EventsIn(new)
    BY <1>1, <1>2, <1>13 DEF EventsIn
  <2> QED BY <2>1, <2>2
<1>15. OnePerEvent(new)
  <2> SUFFICES ASSUME NEW m \in DOMAIN new, NEW n \in DOMAIN new, new[m].event = new[n].event
               PROVE  m = n
    BY DEF OnePerEvent
  <2>0. m \in 1 .. Len(list) - 1 /\ n \in 1 .. Len(list) - 1
    BY <1>11
  <2> DEFINE old(i) == IF i < k THEN i ELSE i + 1
  <2>1. \A i \in 1 .. Len(list) - 1 : old(i) \in 1 .. Len(list) /\ new[i] = list[old(i)]
    BY <1>1, <1>10
  <2>2. old(m) = old(n) => m = n
    BY <1>1, <2>0
  <2> HIDE DEF old
  <2> QED BY <1>1, <2>0, <2>1, <2>2 DEF OnePerEvent
<1> QED BY <1>6, <1>9, <1>12, <1>14, <1>15

\* A state that gets an inner transition, and one that loses it.
AddedAt(c, d, st, iev, dest) ==
  /\ d.innerTransList[st] = Append(c.innerTransList[st], [event |-> iev, dest |-> dest])
  /\ d.isPassState[st] = c.isPassState[st]
  /\ d.allowedMat[iev][st] = -1 /\ d.transitionMat[iev][st] = dest
  /\ \A ev \in Events : ev # iev => d.allowedMat[ev][st] = c.allowedMat[ev][st]
  /\ \A row \in 0 .. AatRow : row # iev => d.transitionMat[row][st] = c.transitionMat[row][st]

LEMMA AddedKeeps ==
  ASSUME NEW c \in Tables, NEW d, NEW st \in States, NEW iev \in Events, NEW dest \in States,
         ConsistentAt(c, st), AddedAt(c, d, st, iev, dest), iev \notin InnerEventsOf(c, st),
         d.innerEvents = c.innerEvents \cup {iev}
  PROVE  ConsistentAt(d, st)
<1> DEFINE t == [event |-> iev, dest |-> dest]
           list == c.innerTransList[st]
           new == Append(list, t)
<1>1. /\ t \in InnerTransition /\ t.event = iev /\ t.dest = dest
      /\ list \in Seq(InnerTransition)
  BY TableTypes DEF InnerTransition
<1>2. iev \notin EventsIn(list) /\ OnePerEvent(list)
  BY DEF InnerEventsOf, EventsIn, ConsistentAt
<1> HIDE DEF t
<1>3. /\ EventsIn(new) = EventsIn(list) \cup {iev} /\ OnePerEvent(new)
      /\ \A n \in DOMAIN new : new[n] = t \/ \E m \in DOMAIN list : new[n] = list[m]
  BY <1>1, <1>2, AppendTransition
<1>4. d.innerTransList[st] = new
  BY DEF AddedAt, t
<1>5. \A m \in DOMAIN list : /\ list[m].event \in Events /\ list[m].event # iev
                             /\ list[m].event \in 0 .. AatRow
  BY <1>2, InnerEventTypes, Rows DEF EventsIn
<1> HIDE DEF new
<1>6. ASSUME NEW n \in DOMAIN new
      PROVE  /\ d.allowedMat[new[n].event][st] # 0
             /\ d.transitionMat[new[n].event][st] = new[n].dest
  <2>1. CASE new[n] = t
    BY <1>1, <2>1 DEF AddedAt
  <2>2. CASE \E m \in DOMAIN list : new[n] = list[m]
    BY <1>5, <2>2 DEF AddedAt, ConsistentAt
  <2> QED BY <1>3, <2>1, <2>2
<1>7. \A ev \in Events : d.allowedMat[ev][st] = -1 => ev \in EventsIn(new)
  BY <1>3 DEF AddedAt, ConsistentAt
<1>8. d.isPassState[st] => d.transitionMat[AatRow][st] # st
  <2>1. AatRow # iev /\ AatRow \in 0 .. AatRow
    BY Rows
  <2> QED BY <2>1 DEF AddedAt, ConsistentAt
<1>9. EventsIn(new) \subseteq d.innerEvents
  BY <1>3 DEF ConsistentAt
<1> QED BY <1>3, <1>4, <1>6, <1>7, <1>8, <1>9 DEF ConsistentAt

RemovedAt(c, d, st, ev) ==
  /\ d.innerTransList[st] = RemoveFirstMatch(c.innerTransList[st], LAMBDA t : t.event = ev)
  /\ d.isPassState[st] = c.isPassState[st]
  /\ d.allowedMat[ev][st] = 0
  /\ \A e \in Events : e # ev => d.allowedMat[e][st] = c.allowedMat[e][st]
  /\ \A row \in 0 .. AatRow : d.transitionMat[row][st] = c.transitionMat[row][st]

LEMMA RemovedKeeps ==
  ASSUME NEW c \in Tables, NEW d, NEW st \in States, NEW ev \in InnerEventsOf(c, st),
         ConsistentAt(c, st), RemovedAt(c, d, st, ev), d.innerEvents = c.innerEvents
  PROVE  ConsistentAt(d, st)
<1> DEFINE list == c.innerTransList[st]
           new == d.innerTransList[st]
<1>1. list \in Seq(InnerTransition) /\ ev \in EventsIn(list) /\ OnePerEvent(list)
  BY TableTypes DEF InnerEventsOf, EventsIn, ConsistentAt
<1>2. new = RemoveFirstMatch(list, LAMBDA t : t.event = ev)
  BY DEF RemovedAt
<1>3. /\ EventsIn(new) = EventsIn(list) \ {ev} /\ OnePerEvent(new)
      /\ \A n \in DOMAIN new : \E m \in DOMAIN list : new[n] = list[m]
  <2> DEFINE cut == RemoveFirstMatch(list, LAMBDA t : t.event = ev)
  <2>1. /\ EventsIn(cut) = EventsIn(list) \ {ev} /\ OnePerEvent(cut)
        /\ \A n \in DOMAIN cut : \E m \in DOMAIN list : cut[n] = list[m]
    BY <1>1, RemoveTransition
  <2>2. new = cut
    BY <1>2
  <2> HIDE DEF cut
  <2> QED BY <2>1, <2>2
<1>4. \A m \in DOMAIN list : list[m].event \in Events /\ list[m].event \in 0 .. AatRow
  BY InnerEventTypes, Rows
<1>5. ASSUME NEW n \in DOMAIN new
      PROVE  /\ d.allowedMat[new[n].event][st] # 0
             /\ d.transitionMat[new[n].event][st] = new[n].dest
  <2>1. PICK m \in DOMAIN list : new[n] = list[m]
    BY <1>3
  <2>2. new[n].event # ev
    BY <1>3 DEF EventsIn
  <2> QED BY <1>4, <2>1, <2>2 DEF RemovedAt, ConsistentAt
<1>6. \A e \in Events : d.allowedMat[e][st] = -1 => e \in EventsIn(new)
  <2> SUFFICES ASSUME NEW e \in Events, d.allowedMat[e][st] = -1 PROVE e \in EventsIn(new)
    OBVIOUS
  <2>1. e # ev
    BY DEF RemovedAt
  <2> QED BY <1>3, <2>1 DEF RemovedAt, ConsistentAt
<1>7. d.isPassState[st] => d.transitionMat[AatRow][st] # st
  BY Rows DEF RemovedAt, ConsistentAt
<1>8. EventsIn(new) \subseteq d.innerEvents
  BY <1>3 DEF ConsistentAt
<1> QED BY <1>3, <1>5, <1>6, <1>7, <1>8 DEF ConsistentAt

LEMMA TablesOf ==
  ASSUME NEW mat \in [0 .. AatRow -> [States -> States]],
         NEW allowed \in [Events -> [States -> Int]],
         NEW timers \in [States -> TimerEvent], NEW pass \in [States -> BOOLEAN],
         NEW lists \in [States -> Seq(InnerTransition)], NEW inner \in SUBSET Events
  PROVE  Record(mat, allowed, timers, pass, lists, inner) \in Tables
  BY DEF Tables, Record

LEMMA AssignInnerTransitionKeeps ==
  ASSUME NEW c, Consistent(c), NEW st1 \in States, NEW st2 \in States,
         NEW iev \in InnerNames, iev \notin InnerEventsOf(c, st1)
  PROVE  Consistent(AssignInnerTransition(c, st1, iev, st2))
<1> DEFINE t == [event |-> iev, dest |-> st2]
           list == Append(c.innerTransList[st1], t)
           lists == [c.innerTransList EXCEPT ![st1] = list]
           inner == c.innerEvents \cup {iev}
           mat == [c.transitionMat EXCEPT ![iev][st1] = st2]
           allowed == [c.allowedMat EXCEPT ![iev][st1] = -1]
           e1 == [c EXCEPT !.innerTransList[st1] = Append(@, [event |-> iev, dest |-> st2])]
           e2 == [e1 EXCEPT !.innerEvents = @ \cup {iev}]
           e3 == [e2 EXCEPT !.transitionMat[iev][st1] = st2]
           e4 == [e3 EXCEPT !.allowedMat[iev][st1] = -1]
           d == Record(mat, allowed, c.timerEvent, c.isPassState, lists, inner)
<1>0. /\ c \in Tables /\ c.innerEvents \subseteq InnerNames
      /\ \A st \in States : ConsistentAt(c, st)
      /\ iev \in Events /\ iev \in 0 .. AatRow
  BY ApiAssumption, Rows DEF Consistent
<1>1. /\ c.transitionMat \in [0 .. AatRow -> [States -> States]]
      /\ c.allowedMat \in [Events -> [States -> Int]]
      /\ c.timerEvent \in [States -> TimerEvent]
      /\ c.isPassState \in [States -> BOOLEAN]
      /\ c.innerTransList \in [States -> Seq(InnerTransition)]
      /\ c.innerEvents \in SUBSET Events
  BY <1>0, TableTypes
<1>2. AssignInnerTransition(c, st1, iev, st2) = d
  <2>0. c = Record(c.transitionMat, c.allowedMat, c.timerEvent, c.isPassState, c.innerTransList,
                   c.innerEvents)
    BY <1>0, TablesRecord DEF Record
  <2>1. e1 = Record(c.transitionMat, c.allowedMat, c.timerEvent, c.isPassState, lists, c.innerEvents)
    <3>1. e1 = [c EXCEPT !.innerTransList = lists]
      BY Zenon
    <3> HIDE DEF e1, lists
    <3> QED BY <2>0, <3>1, RecordFields
  <2> HIDE DEF e1, lists
  <2>2. e2 = Record(c.transitionMat, c.allowedMat, c.timerEvent, c.isPassState, lists, inner)
    <3>1. e1.innerEvents = c.innerEvents
      BY <2>1 DEF Record
    <3>2. e2 = [e1 EXCEPT !.innerEvents = inner]
      BY <3>1, Zenon
    <3> HIDE DEF e2, inner
    <3> QED BY <2>1, <3>2, RecordFields
  <2> HIDE DEF e2, inner
  <2>3. e3 = Record(mat, c.allowedMat, c.timerEvent, c.isPassState, lists, inner)
    <3>1. e2.transitionMat = c.transitionMat
      BY <2>2 DEF Record
    <3>2. e3 = [e2 EXCEPT !.transitionMat = mat]
      BY <3>1, Zenon
    <3> HIDE DEF e3, mat
    <3>3. [Record(c.transitionMat, c.allowedMat, c.timerEvent, c.isPassState, lists, inner)
             EXCEPT !.transitionMat = mat]
            = Record(mat, c.allowedMat, c.timerEvent, c.isPassState, lists, inner)
      BY DEF Record
    <3> QED BY <2>2, <3>2, <3>3, Zenon
  <2> HIDE DEF e3, mat
  <2>4. e4 = d
    <3>1. e3.allowedMat = c.allowedMat
      BY <2>3 DEF Record
    <3>2. e4 = [e3 EXCEPT !.allowedMat = allowed]
      BY <3>1, Zenon
    <3> HIDE DEF e4, allowed
    <3> QED BY <2>3, <3>2, RecordFields
  <2> HIDE DEF e4, d
  <2>5. AssignInnerTransition(c, st1, iev, st2) = e4
    BY DEF AssignInnerTransition, e1, e2, e3, e4
  <2> QED BY <2>4, <2>5
<1>3. /\ mat \in [0 .. AatRow -> [States -> States]]
      /\ \A row \in 0 .. AatRow : row # iev => mat[row] = c.transitionMat[row]
      /\ \A i \in States : mat[iev][i] = IF i = st1 THEN st2 ELSE c.transitionMat[iev][i]
  <2>1. c.transitionMat \in [0 .. AatRow -> [States -> States]] /\ iev \in 0 .. AatRow
    BY <1>0, <1>1
  <2>2. ASSUME NEW m \in [0 .. AatRow -> [States -> States]], NEW row \in 0 .. AatRow
        PROVE  LET new == [m EXCEPT ![row][st1] = st2]
               IN /\ new \in [0 .. AatRow -> [States -> States]]
                  /\ \A r \in 0 .. AatRow : r # row => new[r] = m[r]
                  /\ \A i \in States : new[row][i] = IF i = st1 THEN st2 ELSE m[row][i]
    BY CellSet
  <2> QED BY <2>1, <2>2
<1>4. /\ allowed \in [Events -> [States -> Int]]
      /\ \A ev \in Events : ev # iev => allowed[ev] = c.allowedMat[ev]
      /\ \A i \in States : allowed[iev][i] = IF i = st1 THEN -1 ELSE c.allowedMat[iev][i]
  <2>1. -1 \in Int
    OBVIOUS
  <2> QED BY <1>0, <1>1, <2>1, CellSet
<1>5. /\ lists \in [States -> Seq(InnerTransition)]
      /\ lists[st1] = list
      /\ \A i \in States : i # st1 => lists[i] = c.innerTransList[i]
  <2>1. t \in InnerTransition /\ c.innerTransList[st1] \in Seq(InnerTransition)
    BY <1>0, <1>1 DEF InnerTransition
  <2>2. list \in Seq(InnerTransition)
    BY <2>1, AppendProperties
  <2> HIDE DEF list
  <2> QED BY <1>1, <2>2
<1>6. /\ d.transitionMat = mat /\ d.allowedMat = allowed /\ d.isPassState = c.isPassState
      /\ d.innerTransList = lists /\ d.innerEvents = inner
      /\ d = Record(mat, allowed, c.timerEvent, c.isPassState, lists, inner)
  BY RecordFields
<1>7. inner \in SUBSET Events /\ inner \subseteq InnerNames /\ c.innerEvents \subseteq inner
  BY <1>0, <1>1
<1> HIDE DEF mat, allowed, lists, inner, d
<1>8. d \in Tables
  <2>1. Record(mat, allowed, c.timerEvent, c.isPassState, lists, inner) \in Tables
    BY <1>1, <1>3, <1>4, <1>5, <1>7, TablesOf
  <2> QED BY <1>6, <2>1, Zenon
<1>9. ASSUME NEW st \in States PROVE ConsistentAt(d, st)
  <2>1. CASE st = st1
    <3>1. \A row \in 0 .. AatRow : row # iev => d.transitionMat[row][st] = c.transitionMat[row][st]
      BY <1>3, <1>6
    <3>2. AddedAt(c, d, st, iev, st2)
      BY <1>3, <1>4, <1>5, <1>6, <2>1, <3>1 DEF AddedAt
    <3>3. d.innerEvents = c.innerEvents \cup {iev}
      BY <1>6 DEF inner
    <3> QED BY <1>0, <2>1, <3>2, <3>3, AddedKeeps
  <2>2. CASE st # st1
    <3>1. \A row \in 0 .. AatRow : d.transitionMat[row][st] = c.transitionMat[row][st]
      BY <1>0, <1>3, <1>6, <2>2
    <3>2. SameAt(c, d, st)
      BY <1>4, <1>5, <1>6, <2>2, <3>1 DEF SameAt
    <3> QED BY <1>0, <1>6, <1>7, <3>2, SameKeeps
  <2> QED BY <2>1, <2>2
<1> QED BY <1>2, <1>6, <1>7, <1>8, <1>9 DEF Consistent

LEMMA AssignInnerTransitionFromAllKeeps ==
  ASSUME NEW c, Consistent(c), NEW dest \in States, NEW iev \in InnerNames,
         \A st \in InnerTargets(c, iev, dest) : iev \notin InnerEventsOf(c, st)
  PROVE  Consistent(AssignInnerTransitionFromAll(c, iev, dest))
<1> DEFINE to == InnerTargets(c, iev, dest)
           t == [event |-> iev, dest |-> dest]
           inner == c.innerEvents \cup {iev}
           lists == [i \in States |->
                       IF i \in to THEN Append(c.innerTransList[i], t) ELSE c.innerTransList[i]]
           dests == [i \in States |-> IF i \in to THEN dest ELSE c.transitionMat[iev][i]]
           marks == [i \in States |-> IF i \in to THEN -1 ELSE c.allowedMat[iev][i]]
           mat == [c.transitionMat EXCEPT ![iev] = dests]
           allowed == [c.allowedMat EXCEPT ![iev] = marks]
           e1 == [c EXCEPT !.innerEvents = @ \cup {iev}]
           e2 == [e1 EXCEPT !.innerTransList =
                    [i \in States |-> IF i \in to THEN Append(@[i], [event |-> iev, dest |-> dest])
                                                  ELSE @[i]]]
           e3 == [e2 EXCEPT !.transitionMat[iev] = [i \in States |-> IF i \in to THEN dest ELSE @[i]]]
           e4 == [e3 EXCEPT !.allowedMat[iev] = [i \in States |-> IF i \in to THEN -1 ELSE @[i]]]
           d == Record(mat, allowed, c.timerEvent, c.isPassState, lists, inner)
<1>0. /\ c \in Tables /\ c.innerEvents \subseteq InnerNames
      /\ \A st \in States : ConsistentAt(c, st)
      /\ iev \in Events /\ iev \in 0 .. AatRow
  BY ApiAssumption, Rows DEF Consistent
<1>1. /\ c.transitionMat \in [0 .. AatRow -> [States -> States]]
      /\ c.allowedMat \in [Events -> [States -> Int]]
      /\ c.timerEvent \in [States -> TimerEvent]
      /\ c.isPassState \in [States -> BOOLEAN]
      /\ c.innerTransList \in [States -> Seq(InnerTransition)]
      /\ c.innerEvents \in SUBSET Events
  BY <1>0, TableTypes
<1>a. AssignInnerTransitionFromAll(c, iev, dest) = e4
  BY DEF AssignInnerTransitionFromAll
<1>b. \A i \in to : iev \notin InnerEventsOf(c, i)
  OBVIOUS
<1> HIDE DEF to
<1>2. e4 = d
  <2>0. c = Record(c.transitionMat, c.allowedMat, c.timerEvent, c.isPassState, c.innerTransList,
                   c.innerEvents)
    BY <1>0, TablesRecord DEF Record
  <2>1. e1 = Record(c.transitionMat, c.allowedMat, c.timerEvent, c.isPassState, c.innerTransList, inner)
    <3>1. e1 = [c EXCEPT !.innerEvents = inner]
      BY Zenon
    <3> HIDE DEF e1, inner
    <3> QED BY <2>0, <3>1, RecordFields
  <2> HIDE DEF e1, inner
  <2>2. e2 = Record(c.transitionMat, c.allowedMat, c.timerEvent, c.isPassState, lists, inner)
    <3>1. e1.innerTransList = c.innerTransList
      BY <2>1 DEF Record
    <3>2. e2 = [e1 EXCEPT !.innerTransList = lists]
      BY <3>1, Zenon
    <3> HIDE DEF e2, lists
    <3> QED BY <2>1, <3>2, RecordFields
  <2> HIDE DEF e2, lists
  <2>3. e3 = Record(mat, c.allowedMat, c.timerEvent, c.isPassState, lists, inner)
    <3>1. e2.transitionMat = c.transitionMat
      BY <2>2 DEF Record
    <3>2. e3 = [e2 EXCEPT !.transitionMat = mat]
      BY <3>1, Zenon
    <3> HIDE DEF e3, mat
    <3>3. [Record(c.transitionMat, c.allowedMat, c.timerEvent, c.isPassState, lists, inner)
             EXCEPT !.transitionMat = mat]
            = Record(mat, c.allowedMat, c.timerEvent, c.isPassState, lists, inner)
      BY DEF Record
    <3> QED BY <2>2, <3>2, <3>3, Zenon
  <2> HIDE DEF e3, mat
  <2>4. e3.allowedMat = c.allowedMat
    BY <2>3 DEF Record
  <2>5. e4 = [e3 EXCEPT !.allowedMat = allowed]
    BY <2>4, Zenon
  <2> HIDE DEF e4, allowed
  <2> QED BY <2>3, <2>5, RecordFields
<1> HIDE DEF e4
<1>3. dests \in [States -> States] /\ marks \in [States -> Int]
  <2>1. c.transitionMat[iev] \in [States -> States]
    BY <1>0, <1>1
  <2>2. c.allowedMat[iev] \in [States -> Int]
    BY <1>0, <1>1
  <2> QED BY <2>1, <2>2
<1>4. /\ mat \in [0 .. AatRow -> [States -> States]]
      /\ \A row \in 0 .. AatRow : row # iev => mat[row] = c.transitionMat[row]
      /\ mat[iev] = dests
  <2> HIDE DEF dests
  <2> QED BY <1>0, <1>1, <1>3, RowSet
<1>5. /\ allowed \in [Events -> [States -> Int]]
      /\ \A ev \in Events : ev # iev => allowed[ev] = c.allowedMat[ev]
      /\ allowed[iev] = marks
  <2> HIDE DEF marks
  <2> QED BY <1>0, <1>1, <1>3, RowSet
<1>6. lists \in [States -> Seq(InnerTransition)]
  <2>1. t \in InnerTransition
    BY <1>0 DEF InnerTransition
  <2>2. \A i \in States : /\ c.innerTransList[i] \in Seq(InnerTransition)
                          /\ Append(c.innerTransList[i], t) \in Seq(InnerTransition)
    BY <1>1, <2>1, AppendProperties
  <2> HIDE DEF t
  <2> QED BY <2>2
<1>7. /\ d.transitionMat = mat /\ d.allowedMat = allowed /\ d.isPassState = c.isPassState
      /\ d.innerTransList = lists /\ d.innerEvents = inner
      /\ d = Record(mat, allowed, c.timerEvent, c.isPassState, lists, inner)
  BY RecordFields
<1>8. inner \in SUBSET Events /\ inner \subseteq InnerNames /\ c.innerEvents \subseteq inner
  BY <1>0, <1>1
<1> HIDE DEF mat, allowed, inner, d
<1>9. d \in Tables
  <2> HIDE DEF lists
  <2>1. Record(mat, allowed, c.timerEvent, c.isPassState, lists, inner) \in Tables
    BY <1>1, <1>4, <1>5, <1>6, <1>8, TablesOf
  <2> QED BY <1>7, <2>1, Zenon
<1>10. ASSUME NEW st \in States PROVE ConsistentAt(d, st)
  <2>0. /\ \A row \in 0 .. AatRow : row # iev => d.transitionMat[row][st] = c.transitionMat[row][st]
        /\ \A ev \in Events : ev # iev => d.allowedMat[ev][st] = c.allowedMat[ev][st]
    BY <1>4, <1>5, <1>7
  <2>1. CASE st \in to
    <3>1. d.innerTransList[st] = Append(c.innerTransList[st], t)
      BY <1>7, <2>1
    <3>2. d.allowedMat[iev][st] = -1 /\ d.transitionMat[iev][st] = dest
      BY <1>4, <1>5, <1>7, <2>1
    <3>3. AddedAt(c, d, st, iev, dest)
      BY <1>7, <2>0, <3>1, <3>2 DEF AddedAt
    <3>4. d.innerEvents = c.innerEvents \cup {iev}
      BY <1>7 DEF inner
    <3> QED BY <1>0, <1>b, <2>1, <3>3, <3>4, AddedKeeps
  <2>2. CASE st \notin to
    <3>1. d.innerTransList[st] = c.innerTransList[st]
      BY <1>7, <2>2
    <3>2. /\ d.allowedMat[iev][st] = c.allowedMat[iev][st]
          /\ d.transitionMat[iev][st] = c.transitionMat[iev][st]
      BY <1>4, <1>5, <1>7, <2>2
    <3>3. SameAt(c, d, st)
      <4> HIDE DEF lists
      <4> QED BY <1>7, <2>0, <3>1, <3>2 DEF SameAt
    <3> QED BY <1>0, <1>7, <1>8, <3>3, SameKeeps
  <2> QED BY <2>1, <2>2
<1> QED BY <1>a, <1>2, <1>7, <1>8, <1>9, <1>10 DEF Consistent

LEMMA DisableInnerTransitionKeeps ==
  ASSUME NEW c, Consistent(c), NEW st1 \in States, NEW ev \in InnerEventsOf(c, st1)
  PROVE  Consistent(DisableInnerTransition(c, ev, st1))
<1> DEFINE list == RemoveFirstMatch(c.innerTransList[st1], LAMBDA t : t.event = ev)
           lists == [c.innerTransList EXCEPT ![st1] = list]
           allowed == [c.allowedMat EXCEPT ![ev][st1] = 0]
           e1 == [c EXCEPT !.innerTransList[st1] = RemoveFirstMatch(@, LAMBDA t : t.event = ev)]
           e2 == [e1 EXCEPT !.allowedMat[ev][st1] = 0]
           d == Record(c.transitionMat, allowed, c.timerEvent, c.isPassState, lists, c.innerEvents)
<1>0. /\ c \in Tables /\ c.innerEvents \subseteq InnerNames
      /\ \A st \in States : ConsistentAt(c, st)
  BY DEF Consistent
<1>1. /\ c.transitionMat \in [0 .. AatRow -> [States -> States]]
      /\ c.allowedMat \in [Events -> [States -> Int]]
      /\ c.timerEvent \in [States -> TimerEvent]
      /\ c.isPassState \in [States -> BOOLEAN]
      /\ c.innerTransList \in [States -> Seq(InnerTransition)]
      /\ c.innerEvents \in SUBSET Events
  BY <1>0, TableTypes
<1>e. ev \in Events
  BY <1>0, InnerEventTypes DEF InnerEventsOf
<1>2. DisableInnerTransition(c, ev, st1) = d
  <2>0. c = Record(c.transitionMat, c.allowedMat, c.timerEvent, c.isPassState, c.innerTransList,
                   c.innerEvents)
    BY <1>0, TablesRecord DEF Record
  <2>5. DisableInnerTransition(c, ev, st1) = e2
    BY DEF DisableInnerTransition
  <2>1. e1 = [c EXCEPT !.innerTransList = lists]
    BY Zenon
  <2> HIDE DEF e1, lists
  <2>2. e1 = Record(c.transitionMat, c.allowedMat, c.timerEvent, c.isPassState, lists, c.innerEvents)
    BY <2>0, <2>1, RecordFields
  <2>3. e1.allowedMat = c.allowedMat
    BY <2>2 DEF Record
  <2>4. e2 = [e1 EXCEPT !.allowedMat = allowed]
    BY <2>3, Zenon
  <2> HIDE DEF e2, allowed
  <2> QED BY <2>2, <2>4, <2>5, RecordFields
<1>4. /\ allowed \in [Events -> [States -> Int]]
      /\ \A e \in Events : e # ev => allowed[e] = c.allowedMat[e]
      /\ \A i \in States : allowed[ev][i] = IF i = st1 THEN 0 ELSE c.allowedMat[ev][i]
  <2>1. 0 \in Int
    OBVIOUS
  <2> QED BY <1>1, <1>e, <2>1, CellSet
<1>5. /\ lists \in [States -> Seq(InnerTransition)]
      /\ lists[st1] = list
      /\ \A i \in States : i # st1 => lists[i] = c.innerTransList[i]
  <2>1. /\ c.innerTransList[st1] \in Seq(InnerTransition)
        /\ ev \in EventsIn(c.innerTransList[st1]) /\ OnePerEvent(c.innerTransList[st1])
    BY <1>0, <1>1 DEF InnerEventsOf, EventsIn, ConsistentAt
  <2>2. list \in Seq(InnerTransition)
    BY <2>1, RemoveTransition
  <2> HIDE DEF list
  <2> QED BY <1>1, <2>2
<1>6. /\ d.transitionMat = c.transitionMat /\ d.allowedMat = allowed
      /\ d.isPassState = c.isPassState /\ d.innerTransList = lists
      /\ d.innerEvents = c.innerEvents
      /\ d = Record(c.transitionMat, allowed, c.timerEvent, c.isPassState, lists, c.innerEvents)
  BY RecordFields
<1> HIDE DEF allowed, lists, d
<1>8. d \in Tables
  <2>1. Record(c.transitionMat, allowed, c.timerEvent, c.isPassState, lists, c.innerEvents) \in Tables
    BY <1>1, <1>4, <1>5, TablesOf
  <2> QED BY <1>6, <2>1, Zenon
<1>9. ASSUME NEW st \in States PROVE ConsistentAt(d, st)
  <2>1. CASE st = st1
    <3>1. d.innerTransList[st] = RemoveFirstMatch(c.innerTransList[st], LAMBDA t : t.event = ev)
      BY <1>5, <1>6, <2>1
    <3> HIDE DEF list
    <3>2. RemovedAt(c, d, st, ev)
      BY <1>e, <1>4, <1>6, <2>1, <3>1 DEF RemovedAt
    <3> QED BY <1>0, <1>6, <2>1, <3>2, RemovedKeeps
  <2>2. CASE st # st1
    <3> HIDE DEF list
    <3>2. SameAt(c, d, st)
      BY <1>e, <1>4, <1>5, <1>6, <2>2 DEF SameAt
    <3> QED BY <1>0, <1>6, <3>2, SameKeeps
  <2> QED BY <2>1, <2>2
<1> QED BY <1>0, <1>2, <1>6, <1>8, <1>9 DEF Consistent
-----------------------------------------------------------------------------
(* The inductive invariant. *)

LEMMA ConfigInit == Init => ApiInv
<1> SUFFICES ASSUME Init PROVE ApiInv
  OBVIOUS
<1> DEFINE mat == [row \in 0 .. AatRow |-> [st \in States |-> InitialState]]
           allowed == [ev \in Events |-> [st \in States |-> 0]]
           off == [enabled |-> FALSE, nextState |-> InitialState, duration |-> 0]
           timers == [st \in States |-> off]
           pass == [st \in States |-> FALSE]
           lists == [st \in States |-> << >>]
           e == Record(mat, allowed, timers, pass, lists, {})
<1>1. EmptyTables = e
  BY Zenon DEF EmptyTables, Record
<1>2. InitialState \in States
  BY EnumSizes DEF InitialState, States
<1>3. /\ mat \in [0 .. AatRow -> [States -> States]] /\ allowed \in [Events -> [States -> Int]]
      /\ lists \in [States -> Seq(InnerTransition)] /\ {} \in SUBSET Events
  BY <1>2, EmptySeq
<1>4. off \in TimerEvent
  BY <1>2 DEF TimerEvent
<1>5. timers \in [States -> TimerEvent]
  <2> HIDE DEF off
  <2> QED BY <1>4
<1>6. pass \in [States -> BOOLEAN] /\ \A st \in States : pass[st] = FALSE
  OBVIOUS
<1>7. \A st \in States : lists[st] = << >> /\ \A ev \in Events : allowed[ev][st] = 0
  OBVIOUS
<1>8. /\ e.allowedMat = allowed /\ e.isPassState = pass
      /\ e.innerTransList = lists /\ e.innerEvents = {}
      /\ e = Record(mat, allowed, timers, pass, lists, {})
  BY RecordFields
<1> HIDE DEF mat, allowed, timers, pass, lists, e
<1>9. e \in Tables
  <2>1. Record(mat, allowed, timers, pass, lists, {}) \in Tables
    BY <1>3, <1>5, <1>6, TablesOf
  <2> QED BY <1>8, <2>1, Zenon
<1>10. ASSUME NEW st \in States PROVE ConsistentAt(e, st)
  <2>1. e.innerTransList[st] = << >> /\ \A ev \in Events : e.allowedMat[ev][st] # -1
    BY <1>7, <1>8
  <2>2. ~e.isPassState[st]
    BY <1>6, <1>8
  <2> QED BY <2>1, <2>2 DEF ConsistentAt, EventsIn, OnePerEvent
<1>11. Consistent(e) /\ AatsLeave(e)
  BY <1>6, <1>8, <1>9, <1>10 DEF Consistent, AatsLeave
<1>12. tables = e /\ copied = e /\ default = 1 /\ calls = 0
  BY <1>1 DEF Init
<1>13. default \in Nat /\ calls \in 0 .. MaxCalls
  BY <1>12, ApiAssumption
<1> QED BY <1>9, <1>11, <1>12, <1>13 DEF ApiInv

LEMMA AssignConfigEffect ==
  ASSUME NEW c \in Tables, NEW from, Consistent(from)
  PROVE  AssignConfig(c, from) \in Tables /\ AatsLeave(AssignConfig(c, from))
<1> DEFINE d == Record(from.transitionMat, from.allowedMat, from.timerEvent, from.isPassState,
                       from.innerTransList, c.innerEvents)
<1>1. /\ from \in Tables
      /\ \A st \in States : from.isPassState[st] => from.transitionMat[AatRow][st] # st
  BY DEF Consistent, ConsistentAt
<1>2. from = Record(from.transitionMat, from.allowedMat, from.timerEvent, from.isPassState,
                    from.innerTransList, from.innerEvents)
  BY <1>1, TablesRecord DEF Record
<1>3. AssignConfig(c, from) = d
  BY <1>2, RecordFields DEF AssignConfig
<1>4. d \in Tables
  <2>1. /\ from.transitionMat \in [0 .. AatRow -> [States -> States]]
        /\ from.allowedMat \in [Events -> [States -> Int]]
        /\ from.timerEvent \in [States -> TimerEvent]
        /\ from.isPassState \in [States -> BOOLEAN]
        /\ from.innerTransList \in [States -> Seq(InnerTransition)]
        /\ c.innerEvents \in SUBSET Events
    BY <1>1, TableTypes
  <2> QED BY <2>1, TablesOf
<1>5. d.transitionMat = from.transitionMat /\ d.isPassState = from.isPassState
  BY RecordFields
<1> HIDE DEF d
<1> QED BY <1>1, <1>3, <1>4, <1>5 DEF AatsLeave

LEMMA ConfigureStep ==
  ASSUME ApiInv, NEW new, Consistent(new), Configure(new)
  PROVE  ApiInv'
<1>1. tables' = new /\ copied' = copied /\ default' = default
      /\ calls' = calls + 1 /\ calls < MaxCalls
  BY DEF Configure
<1>2. calls' \in 0 .. MaxCalls
  BY <1>1, ApiAssumption DEF ApiInv
<1>3. Consistent(tables')
  BY <1>1
<1>4. copied' \in Tables /\ AatsLeave(copied') /\ default' \in Nat
  BY <1>1 DEF ApiInv
<1>5. (Consistent(tables))' /\ (AatsLeave(copied))'
  BY <1>3, <1>4 DEF Consistent, ConsistentAt, AatsLeave
<1> QED BY <1>2, <1>4, <1>5 DEF ApiInv

\* Every call of a configuration function keeps the tables consistent.
LEMMA ConfigNext == ApiInv /\ [Next]_vars => ApiInv'
<1> SUFFICES ASSUME ApiInv, [Next]_vars PROVE ApiInv'
  OBVIOUS
<1>0. /\ Consistent(tables) /\ tables \in Tables /\ copied \in Tables
      /\ default \in Nat /\ Durations \subseteq Nat
      /\ \A ev \in ExternalNames : ev \in Events \ tables.innerEvents
  BY ApiAssumption DEF ApiInv, Consistent, ExternalNames
<1>1. CASE CallMatrices
  <2>1. PICK new : External(tables, new) /\ Configure(new)
    <3>1. CASE \E mat \in [Events -> [States -> States]] : Configure(AssignTransitionMat(tables, mat))
      BY <1>0, <1>1, <3>1, AssignTransitionMatEffect DEF CallMatrices
    <3>2. CASE \E mat \in [Events -> [States -> MatValues]] : Configure(AssignEventMat(tables, mat))
      BY <1>0, <1>1, <3>2, AssignEventMatEffect DEF CallMatrices
    <3> QED BY <1>1, <3>1, <3>2 DEF CallMatrices
  <2> QED BY <1>0, <2>1, ExternalKeeps, ConfigureStep
<1>2. CASE CallTransition
  <2>1. PICK ev \in ExternalNames, st \in States :
          \/ \E to \in States : Configure(AssignTransition(tables, st, ev, to))
          \/ Configure(AssignTransitionFromAll(tables, ev, st))
    BY <1>2 DEF CallTransition
  <2>2. PICK new : External(tables, new) /\ Configure(new)
    BY <1>0, <2>1, AssignTransitionEffect, AssignTransitionFromAllEffect
  <2> QED BY <1>0, <2>2, ExternalKeeps, ConfigureStep
<1>3. CASE CallAllow
  <2>1. PICK new : External(tables, new) /\ Configure(new)
    <3>1. CASE Configure(AllowAllEvents(tables))
      BY <1>0, <3>1, AllowEffect
    <3>2. CASE \E ev \in ExternalNames, st \in States, what \in BOOLEAN :
                 Configure(AllowEvent(tables, st, ev, what))
      <4>1. PICK ev \in ExternalNames, st \in States, what \in BOOLEAN :
                 Configure(AllowEvent(tables, st, ev, what))
        BY <3>2
      <4>2. External(tables, AllowEvent(tables, st, ev, what))
        BY <1>0, AllowEffect
      <4> QED BY <4>1, <4>2
    <3> QED BY <1>3, <3>1, <3>2 DEF CallAllow
  <2> QED BY <1>0, <2>1, ExternalKeeps, ConfigureStep
<1>4. CASE CallAAT
  <2>1. PICK st \in States, to \in States : st # to /\ Configure(AssignAAT(tables, st, to))
    BY <1>4 DEF CallAAT, CanAssignAAT
  <2>2. Consistent(AssignAAT(tables, st, to))
    BY <1>0, <2>1, AssignAATKeeps
  <2> QED BY <2>1, <2>2, ConfigureStep
<1>5. CASE CallInnerTransition
  <2>1. CASE \E iev \in InnerNames, st, to \in States :
               /\ iev \notin InnerEventsOf(tables, st)
               /\ Configure(AssignInnerTransition(tables, st, iev, to))
    BY <1>0, <2>1, AssignInnerTransitionKeeps, ConfigureStep
  <2>2. CASE \E iev \in InnerNames, to \in States :
               /\ \A st \in InnerTargets(tables, iev, to) : iev \notin InnerEventsOf(tables, st)
               /\ Configure(AssignInnerTransitionFromAll(tables, iev, to))
    BY <1>0, <2>2, AssignInnerTransitionFromAllKeeps, ConfigureStep
  <2> QED BY <1>5, <2>1, <2>2 DEF CallInnerTransition
<1>6. CASE CallDisableInnerTransition
  <2>1. PICK iev \in InnerNames, st \in States :
          iev \in InnerEventsOf(tables, st) /\ Configure(DisableInnerTransition(tables, iev, st))
    BY <1>6 DEF CallDisableInnerTransition, CanDisableInnerTransition
  <2> QED BY <1>0, <2>1, DisableInnerTransitionKeeps, ConfigureStep
<1>7. CASE CallTimeOut
  <2>1. PICK st \in States :
          \/ \E to \in States : \/ Configure(AssignTimeOutDefault(tables, st, to, default))
                               \/ \E dur \in Durations : Configure(AssignTimeOut(tables, st, dur, to))
          \/ \E dur \in Durations \cup {default} : Configure(AssignGlobalTimeOut(tables, dur, st))
          \/ Configure(ClearTimeOut(tables, st))
          \/ Configure(ClearTimeOuts(tables))
    BY <1>7 DEF CallTimeOut
  <2>2. PICK new : External(tables, new) /\ Configure(new)
    <3>1. ASSUME NEW to \in States, NEW dur \in Nat
          PROVE  /\ External(tables, AssignTimeOut(tables, st, dur, to))
                 /\ External(tables, AssignTimeOutDefault(tables, st, to, dur))
                 /\ External(tables, AssignGlobalTimeOut(tables, dur, st))
                 /\ External(tables, ClearTimeOut(tables, st))
                 /\ External(tables, ClearTimeOuts(tables))
      BY <1>0, TimeOutEffect
    <3>2. \A dur \in Durations \cup {default} : dur \in Nat
      BY <1>0
    <3> QED BY <1>0, <2>1, <3>1, <3>2
  <2> QED BY <1>0, <2>2, ExternalKeeps, ConfigureStep
<1>8. CASE CallSetTimerDefault
  <2>1. /\ tables' = tables /\ copied' = copied /\ default' \in Nat
        /\ calls' = calls + 1 /\ calls < MaxCalls
    BY <1>0, <1>8 DEF CallSetTimerDefault
  <2>2. calls' \in 0 .. MaxCalls
    BY <2>1, ApiAssumption DEF ApiInv
  <2> QED BY <2>1, <2>2 DEF ApiInv, Consistent, ConsistentAt, AatsLeave
<1>9. CASE CallAssignConfig
  <2>1. /\ tables' = tables /\ copied' = AssignConfig(copied, tables) /\ default' = default
        /\ calls' = calls + 1 /\ calls < MaxCalls
    BY <1>9 DEF CallAssignConfig
  <2>2. calls' \in 0 .. MaxCalls
    BY <2>1, ApiAssumption DEF ApiInv
  <2>3. copied' \in Tables /\ AatsLeave(copied')
    BY <1>0, <2>1, AssignConfigEffect
  <2> QED BY <2>1, <2>2, <2>3 DEF ApiInv, Consistent, ConsistentAt, AatsLeave
<1>10. CASE UNCHANGED vars
  BY <1>10 DEF vars, ApiInv, Consistent, ConsistentAt, AatsLeave
<1> QED BY <1>1, <1>2, <1>3, <1>4, <1>5, <1>6, <1>7, <1>8, <1>9, <1>10 DEF Next

LEMMA ConfigInvariant == Spec => []ApiInv
  BY ConfigInit, ConfigNext, PTL DEF Spec
-----------------------------------------------------------------------------
(* What holds of the tables of any program that keeps to the conventions.  *)

\* The tables stay well formed: states and events in range, no list of inner transitions
\* with something else in it.
THEOREM TablesTyped == Spec => []TypeOK
<1>1. ApiInv => TypeOK
  BY DEF ApiInv, Consistent, TypeOK
<1> QED BY <1>1, ConfigInvariant, PTL

\* Whatever inner transitions are assigned, replaced by an AAT or disabled, those the FSM
\* holds have a flag: activateInnerEvent and the loop find it (assignInnerTransition).
THEOREM EventsHaveFlags == Spec => []ConfiguredEventsRegistered
<1>1. ApiInv => ConfiguredEventsRegistered
  BY DEF ApiInv, Consistent, ConsistentAt, ConfiguredEventsRegistered, InnerEventsRegistered,
         InnerEventsOf, EventsIn
<1> QED BY <1>1, ConfigInvariant, PTL

\* A mark -1 left behind by assignAAT, allowEvent or disableInnerTransition would be a way out
\* of the state for doChecking, and an inner event in the printed table, without a transition.
THEOREM MarksHaveTransitions == Spec => []InnerMarksBacked
<1>1. ApiInv => InnerMarksBacked
  BY DEF ApiInv, Consistent, ConsistentAt, InnerMarksBacked, InnerEventsOf, EventsIn
<1> QED BY <1>1, ConfigInvariant, PTL

\* No sequence of calls makes an AAT a loop, which would hang runAction: doChecking need not
\* look for one. A second FSM that takes over the configuration is safe as well.
THEOREM AatsMoveOn == Spec => []PassStateMovesOn
<1>1. ApiInv => PassStateMovesOn
  BY DEF ApiInv, Consistent, ConsistentAt, AatsLeave, PassStateMovesOn
<1> QED BY <1>1, ConfigInvariant, PTL

\* The lists of inner transitions and the matrices, which the library keeps side by side, tell
\* the same: the matrices lead where the list does and do not ignore the event. doChecking
\* looks at the matrices only, DeadEndStates (SpagFSMProofs) assumes this of a running FSM.
THEOREM ListsShown == Spec => []InnerTransitionsShown(tables)
<1>1. ApiInv => InnerTransitionsShown(tables)
  BY DEF ApiInv, Consistent, ConsistentAt, InnerTransitionsShown
<1> QED BY <1>1, ConfigInvariant, PTL

LEMMA SuccessorCases ==
  ASSUME NEW c \in Tables, NEW st \in States, NEW to \in Successors(c, st, Events)
  PROVE  \/ \E ev \in Events : c.allowedMat[ev][st] = 1 /\ to = c.transitionMat[ev][st]
         \/ c.timerEvent[st].enabled /\ to = c.timerEvent[st].nextState
         \/ c.isPassState[st] /\ to = c.transitionMat[AatRow][st]
         \/ \E n \in DOMAIN c.innerTransList[st] : to = c.innerTransList[st][n].dest
  BY DEF Successors, EventSuccessors, TimeOutSuccessors, AatSuccessors, InnerSuccessors,
         Handles, Timed

\* doChecking's dead-ends are dead-ends, although it never looks at the lists of inner
\* transitions, the ones the FSM takes.
THEOREM DeadEndsAreRight == Spec => []DeadEndWarningRight
<1>1. ASSUME ApiInv, NEW st \in DeadEnds(tables), NEW to \in Exits(tables, st)
      PROVE  FALSE
  <2>1. /\ tables \in Tables /\ st \in States /\ to \in Successors(tables, st, Events)
        /\ to # st /\ ConsistentAt(tables, st)
    BY <1>1 DEF ApiInv, Consistent, DeadEnds, Exits
  <2>2. /\ ~tables.timerEvent[st].enabled /\ ~tables.isPassState[st]
        /\ \A ev \in Events : \/ tables.transitionMat[ev][st] = st
                              \/ tables.allowedMat[ev][st] = 0
    BY <1>1 DEF DeadEnds, HasExit, Timed
  <2>3. PICK n \in DOMAIN tables.innerTransList[st] : to = tables.innerTransList[st][n].dest
    BY <2>1, <2>2, SuccessorCases
  <2> QED BY <2>1, <2>2, <2>3, InnerEventTypes DEF ConsistentAt
<1>2. ApiInv => DeadEndWarningRight
  BY <1>1 DEF DeadEndWarningRight
<1> QED BY <1>2, ConfigInvariant, PTL

LEMMA SuccessorsReached ==
  ASSUME NEW c \in Tables, NEW st \in States, NEW to \in Successors(c, st, Events), to # st
  PROVE  IsReachable(c, to)
  BY SuccessorCases DEF IsReachable, Timed

\* A state doChecking calls unreachable is one that no step from another state leads to.
THEOREM UnreachablesAreRight == Spec => []ReachableWarningRight
<1>1. ASSUME ApiInv, NEW st \in States, NEW to \in Exits(tables, st)
      PROVE  to \notin Unreachable(tables)
  BY <1>1, SuccessorsReached DEF ApiInv, Consistent, Exits, Unreachable
<1>2. ApiInv => ReachableWarningRight
  BY <1>1 DEF ReachableWarningRight
<1> QED BY <1>2, ConfigInvariant, PTL

\* The drawing of a configured FSM has an edge for every time-out, AAT and inner transition, and
\* for every event of a state that is no pass-state, whatever was written in the matrices, the
\* lists and the time-outs, and in whatever order.
THEOREM MovesDrawn == Spec => []OnlyEventsOfPassStatesUndrawn
<1>1. ASSUME ApiInv, NEW st \in States,
             NEW to \in TimeOutSuccessors(tables, st) \cup AatSuccessors(tables, st)
                           \cup InnerSuccessors(tables, st, Events)
                           \cup (IF tables.isPassState[st] THEN {} ELSE EventSuccessors(tables, st))
      PROVE  \E edge \in DrawnEdges(tables, DefaultOptions) : edge.from = st /\ edge.to = to
  <2>0. tables \in Tables
    BY <1>1 DEF ApiInv, Consistent
  <2>1. /\ DefaultOptions.showTimeOuts /\ DefaultOptions.showInnerEvents
        /\ DefaultOptions.showAAT /\ DefaultOptions.showUnreachableStates
    BY DEF DefaultOptions
  <2>2. st \in DrawnNodes(tables, DefaultOptions)
    BY <2>1 DEF DrawnNodes
  <2>3. \A edge \in ExternalEdges(tables, st) \cup TimeOutEdges(tables, st)
                    \cup AatEdges(tables, st) \cup InnerEdges(tables, st) :
          edge \in DrawnEdges(tables, DefaultOptions)
    BY <2>1, <2>2 DEF DrawnEdges
  <2>4. PICK label : Edge(st, label, to) \in ExternalEdges(tables, st) \cup TimeOutEdges(tables, st)
                                             \cup AatEdges(tables, st) \cup InnerEdges(tables, st)
    <3>1. CASE to \in EventSuccessors(tables, st) /\ ~tables.isPassState[st]
      <4>1. PICK ev \in Events : tables.allowedMat[ev][st] = 1 /\ to = tables.transitionMat[ev][st]
        BY <3>1 DEF EventSuccessors, Handles
      <4>2. Edge(st, ev, to) \in ExternalEdges(tables, st)
        BY <3>1, <4>1 DEF ExternalEdges
      <4> QED BY <4>2
    <3>2. CASE to \in TimeOutSuccessors(tables, st)
      <4>1. Edge(st, TimeOutRow, to) \in TimeOutEdges(tables, st)
        BY <3>2 DEF TimeOutSuccessors, TimeOutEdges
      <4> QED BY <4>1
    <3>3. CASE to \in AatSuccessors(tables, st)
      <4>1. Edge(st, AatRow, to) \in AatEdges(tables, st)
        BY <3>3 DEF AatSuccessors, AatEdges
      <4> QED BY <4>1
    <3>4. CASE to \in InnerSuccessors(tables, st, Events)
      <4>1. PICK n \in DOMAIN tables.innerTransList[st] : to = tables.innerTransList[st][n].dest
        BY <3>4 DEF InnerSuccessors
      <4>2. Edge(st, tables.innerTransList[st][n].event, to) \in InnerEdges(tables, st)
        BY <4>1 DEF InnerEdges
      <4> QED BY <4>2
    <3> QED BY <1>1, <3>1, <3>2, <3>3, <3>4
  <2>5. Edge(st, label, to).from = st /\ Edge(st, label, to).to = to
    BY DEF Edge
  <2> QED BY <2>3, <2>4, <2>5
<1>2. ApiInv => OnlyEventsOfPassStatesUndrawn
  BY <1>1 DEF OnlyEventsOfPassStatesUndrawn, Successors
<1> QED BY <1>2, ConfigInvariant, PTL

\* A drawing without the unreachable states is closed: the nodes that writeDotFile leaves out
\* are never at the end of an edge it draws.
THEOREM DrawingClosed == Spec => []DrawnEdgesEndOnNodes
<1> DEFINE opt == [DefaultOptions EXCEPT !.showUnreachableStates = FALSE]
<1>1. ASSUME ApiInv, NEW edge \in DrawnEdges(tables, opt)
      PROVE  {edge.from, edge.to} \subseteq DrawnNodes(tables, opt)
  <2>0. tables \in Tables
    BY <1>1 DEF ApiInv, Consistent
  <2> HIDE DEF opt
  <2>1. PICK st \in DrawnNodes(tables, opt) :
          edge \in ExternalEdges(tables, st) \cup TimeOutEdges(tables, st)
                  \cup AatEdges(tables, st) \cup InnerEdges(tables, st)
    BY <1>1 DEF DrawnEdges
  <2>2. st \in States
    BY <2>1 DEF DrawnNodes
  <2>3. /\ edge.from = st /\ edge.to \in States
        /\ edge.to # st => IsReachable(tables, edge.to)
    <3>1. CASE edge \in ExternalEdges(tables, st)
      <4>1. PICK ev \in Events : /\ edge = Edge(st, ev, tables.transitionMat[ev][st])
                                /\ tables.allowedMat[ev][st] = 1
        BY <3>1 DEF ExternalEdges
      <4>2. edge.from = st /\ edge.to = tables.transitionMat[ev][st]
        BY <4>1 DEF Edge
      <4>3. tables.transitionMat[ev][st] \in States
        BY <2>0, <2>2, TableTypes, Rows
      <4> QED BY <2>2, <4>1, <4>2, <4>3 DEF IsReachable
    <3>2. CASE edge \in TimeOutEdges(tables, st)
      <4>1. tables.timerEvent[st].enabled /\ edge = Edge(st, TimeOutRow, tables.timerEvent[st].nextState)
        BY <3>2 DEF TimeOutEdges, Timed
      <4>2. edge.from = st /\ edge.to = tables.timerEvent[st].nextState
        BY <4>1 DEF Edge
      <4>3. tables.timerEvent[st].nextState \in States
        BY <2>0, <2>2, TableTypes DEF TimerEvent
      <4> QED BY <2>2, <4>1, <4>2, <4>3 DEF IsReachable, Timed
    <3>3. CASE edge \in AatEdges(tables, st)
      <4>1. tables.isPassState[st] /\ edge = Edge(st, AatRow, tables.transitionMat[AatRow][st])
        BY <3>3 DEF AatEdges
      <4>2. edge.from = st /\ edge.to = tables.transitionMat[AatRow][st]
        BY <4>1 DEF Edge
      <4>3. tables.transitionMat[AatRow][st] \in States
        BY <2>0, <2>2, TableTypes, Rows
      <4> QED BY <2>2, <4>1, <4>2, <4>3 DEF IsReachable
    <3>4. CASE edge \in InnerEdges(tables, st)
      <4>1. PICK n \in DOMAIN tables.innerTransList[st] :
              edge = Edge(st, tables.innerTransList[st][n].event, tables.innerTransList[st][n].dest)
        BY <3>4 DEF InnerEdges
      <4>2. edge.from = st /\ edge.to = tables.innerTransList[st][n].dest
        BY <4>1 DEF Edge
      <4> QED BY <2>0, <2>2, <4>1, <4>2, InnerEventTypes DEF IsReachable
    <3> QED BY <2>1, <3>1, <3>2, <3>3, <3>4
  <2>4. edge.to \in DrawnNodes(tables, opt)
    BY <2>1, <2>3 DEF DrawnNodes
  <2> QED BY <2>1, <2>3, <2>4
<1>2. ApiInv => DrawnEdgesEndOnNodes
  BY <1>1 DEF DrawnEdgesEndOnNodes
<1> QED BY <1>2, ConfigInvariant, PTL
=============================================================================
