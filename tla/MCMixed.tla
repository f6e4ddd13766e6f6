------------------------------ MODULE MCMixed ------------------------------
(***************************************************************************)
(* SpagFSM on a configuration that has everything the samples have one by  *)
(* one: a ring of time-outs (sample_3c), an error pass-state (sample_1b),  *)
(* a reset from all states (traffic lights), an inner event raised by      *)
(* callbacks (testA_3) and a final state whose callback stops the FSM. The *)
(* reset is assigned last: the pass-state handles it as well.              *)
(***************************************************************************)
EXTENDS FsmConfig, SpagFSM

\* States: 0 Init, 1 Work, 2 Error, 3 Final, 4 never connected.
\* Events: 0 Reset, 1 Fail, 2 Done (inner).
MixedConfig ==
  LET fail  == AssignTransition(EmptyTables, 1, 1, 2)
      ring  == AssignTimeOut(AssignTimeOut(fail, 0, 2, 1), 1, 1, 0)
      error == AssignAAT(ring, 2, 0)
      reset == AssignTransitionFromAll(error, 0, 0)
      final == AllowEvent(reset, 3, 0, FALSE)
  IN AssignInnerTransition(AssignInnerTransition(final, 0, 2, 1), 1, 2, 3)

NoEffect == [activate |-> {}, clear |-> {}, stop |-> FALSE]
Activates(ev) == [activate |-> {ev}, clear |-> {}, stop |-> FALSE]
Clears(ev) == [activate |-> {}, clear |-> {ev}, stop |-> FALSE]
Stops == [activate |-> {}, clear |-> {}, stop |-> TRUE]

MixedCallback ==
  [st \in States |-> CASE st = 0 -> {NoEffect, Activates(2), Clears(2)}
                       [] st = 1 -> {NoEffect, Activates(2)}
                       [] st = 2 -> {NoEffect, Stops}
                       [] st = 3 -> {NoEffect, Stops}
                       [] OTHER  -> {NoEffect}]

ASSUME MixedAssumption == InnerTransitionsShown(MixedConfig)
=============================================================================
