----------------------------- MODULE MCSample1b -----------------------------
(***************************************************************************)
(* SpagFSM on sample_1b. Its callback only prints and it never activates   *)
(* ev_inner (2): here the callback of st1 and, at any time, user code do,  *)
(* and user code stops the FSM and starts it again. A time-out on st1 too  *)
(* makes its signal and its timer meet.                                    *)
(***************************************************************************)
EXTENDS Samples, SpagFSM

TimedConfig == AssignTimeOut(Sample1b, 1, 1200, 0)

NoEffect == [activate |-> {}, clear |-> {}, stop |-> FALSE]

RaisingCallback ==
  [st \in States |-> {NoEffect} \cup
     (IF st = 1 THEN {[activate |-> {2}, clear |-> {}, stop |-> FALSE]} ELSE {})]
=============================================================================
