------------------------------ MODULE FsmGraph ------------------------------
(***************************************************************************)
(* What an FSM promises, whatever its timers and signals do: the state     *)
(* machine of the configuration tables (the graph writeDotFile draws).     *)
(* It starts on the initial state, moves along one configured transition   *)
(* at a time, along an inner transition only if its event is active, and   *)
(* does not move before it is started nor after it stopped.                *)
(***************************************************************************)
EXTENDS FsmTables

CONSTANT Config

VARIABLES current,   \* the state
          running,   \* started, not stopped
          active     \* the active inner events: callbacks and user code change them

graphVars == <<current, running, active>>

Init == current = InitialState /\ running = FALSE /\ active = {}

\* start() runs the callback of the current state, which may stop the FSM at once.
Launch ==
  /\ ~running
  /\ running' \in BOOLEAN /\ active' \in SUBSET Config.innerEvents
  /\ UNCHANGED current

Move ==
  /\ running
  /\ current' \in Successors(Config, current, active)
  /\ running' \in BOOLEAN /\ active' \in SUBSET Config.innerEvents

\* The FSM stops, a callback runs again, inner events are activated or cleared.
Stay ==
  /\ running' \in {running, FALSE} /\ active' \in SUBSET Config.innerEvents
  /\ UNCHANGED current

Next == Launch \/ Move \/ Stay

Spec == Init /\ [][Next]_graphVars
=============================================================================
