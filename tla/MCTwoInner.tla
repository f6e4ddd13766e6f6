----------------------------- MODULE MCTwoInner -----------------------------
(***************************************************************************)
(* SpagFSM on a state with two inner transitions: from 0, event 0 leads to *)
(* 1 and event 1 leads to 2; both lead back with external event 2. The     *)
(* callback of state 0 may activate either event, or both.                 *)
(***************************************************************************)
EXTENDS FsmConfig, SpagFSM

TwoInnerConfig ==
  LET inner == AssignInnerTransition(AssignInnerTransition(EmptyTables, 0, 0, 1), 0, 1, 2)
  IN AssignTransition(AssignTransition(inner, 1, 2, 0), 2, 2, 0)

TwoInnerCallback ==
  [st \in States |-> {[activate |-> evs, clear |-> {}, stop |-> FALSE] :
                        evs \in IF st = 0 THEN SUBSET {0, 1} ELSE {{}}}]
=============================================================================
