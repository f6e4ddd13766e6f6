----------------------------- MODULE FsmTables -----------------------------
(***************************************************************************)
(* The configuration an FSM runs on: the transition and allowed-event      *)
(* matrices and the per-state records of SpagFSM (spaghetti.hpp,           *)
(* 1915-1957), as one record, and the questions the library asks of it     *)
(* before it starts (doChecking).                                          *)
(*                                                                         *)
(* Enumerators are the integers the code casts them to: the initial state  *)
(* is 0, event row NbEvents counts time-outs in the logs, and event row    *)
(* NbEvents+1 holds the "always active transitions" (AAT) of pass-states.  *)
(***************************************************************************)
EXTENDS Integers, Sequences

CONSTANTS NbStates,   \* ST::NB_STATES
          NbEvents    \* EV::NB_EVENTS

\* The constructor's static_assert asks for two states at least.
ASSUME EnumSizes == NbStates \in Nat /\ NbStates > 1 /\ NbEvents \in Nat

States == 0 .. NbStates - 1
Events == 0 .. NbEvents - 1
InitialState == 0
TimeOutRow == NbEvents
AatRow == NbEvents + 1

InnerTransition == [event : Events, dest : States]
TimerEvent == [enabled : BOOLEAN, nextState : States, duration : Nat]

\* `allowedMat` holds chars: 0 ignores the event, 1 handles it, -1 marks an
\* inner event. `innerEvents` is the key set of the map _innerEventFlag.
\* A duration stands for a (value, unit) pair; 0 is the one never assigned.
Tables == [ transitionMat  : [0 .. AatRow -> [States -> States]],
            allowedMat     : [Events -> [States -> Int]],
            timerEvent     : [States -> TimerEvent],
            isPassState    : [States -> BOOLEAN],
            innerTransList : [States -> Seq(InnerTransition)],
            innerEvents    : SUBSET Events ]
-----------------------------------------------------------------------------
(* What a state may do. *)

IsInnerEvent(c, ev) == ev \in c.innerEvents

Handles(c, ev, st) == c.allowedMat[ev][st] = 1

Timed(c, st) == c.timerEvent[st].enabled

InnerEventsOf(c, st) ==
  {c.innerTransList[st][n].event : n \in DOMAIN c.innerTransList[st]}

\* The states that an external event, a time-out, an AAT or an inner transition leads to from
\* st; inner transitions count only for the events of `active`.
EventSuccessors(c, st) ==
  {c.transitionMat[ev][st] : ev \in {e \in Events \ c.innerEvents : Handles(c, e, st)}}

TimeOutSuccessors(c, st) == IF Timed(c, st) THEN {c.timerEvent[st].nextState} ELSE {}

AatSuccessors(c, st) == IF c.isPassState[st] THEN {c.transitionMat[AatRow][st]} ELSE {}

InnerSuccessors(c, st, active) ==
  {c.innerTransList[st][n].dest :
     n \in {m \in DOMAIN c.innerTransList[st] : c.innerTransList[st][m].event \in active}}

Successors(c, st, active) == EventSuccessors(c, st) \cup TimeOutSuccessors(c, st)
                               \cup AatSuccessors(c, st) \cup InnerSuccessors(c, st, active)
-----------------------------------------------------------------------------
(* doChecking(), run by start(): it only prints warnings. *)

\* Mutant: only external events are looked at.
IsReachableByEvent(c, st) ==
  \E i \in States \ {st} : \E k \in Events :
    c.transitionMat[k][i] = st /\ c.allowedMat[k][i] = 1

IsReachable(c, st) ==
  \E i \in States \ {st} :
    \/ \E k \in Events : c.transitionMat[k][i] = st /\ c.allowedMat[k][i] # 0
    \/ Timed(c, i) /\ c.timerEvent[i].nextState = st
    \/ c.isPassState[i] /\ c.transitionMat[AatRow][i] = st
    \/ \E n \in DOMAIN c.innerTransList[i] : c.innerTransList[i][n].dest = st

Unreachable(c) == {st \in States \ {InitialState} : ~IsReachable(c, st)}

\* Mutant: of the transitions, only the events that processEvent takes are looked at.
HasExitByEvent(c, st) ==
  \/ c.isPassState[st]
  \/ \E ev \in Events : c.transitionMat[ev][st] # st /\ c.allowedMat[ev][st] = 1

HasExit(c, st) ==
  \/ Timed(c, st)
  \/ c.isPassState[st]
  \/ \E ev \in Events : c.transitionMat[ev][st] # st /\ c.allowedMat[ev][st] # 0

DeadEnds(c) == {st \in States \ Unreachable(c) : ~HasExit(c, st)}
-----------------------------------------------------------------------------
(* What the configuration functions mean to keep true of the tables.       *)

\* Every inner transition's event has a flag in _innerEventFlag.
InnerEventsRegistered(c) ==
  \A st \in States : InnerEventsOf(c, st) \subseteq c.innerEvents

\* An inner transition shows in the matrices: its event is not ignored there (-1, or 1 once
\* all events have been allowed), and it leads where the transition in the list does.
InnerTransitionsShown(c) ==
  \A st \in States : \A n \in DOMAIN c.innerTransList[st] :
    LET t == c.innerTransList[st][n]
    IN c.allowedMat[t.event][st] # 0 /\ c.transitionMat[t.event][st] = t.dest
=============================================================================
