----------------------------- MODULE MCTwoFsms -----------------------------
(***************************************************************************)
(* TwoFsms on sample_2, and on two FSMs that raise signals: the traffic    *)
(* lights of traffic_lights_1c, and FSM B of sample_2 with a pass-state in *)
(* place of its last time-out.                                             *)
(***************************************************************************)
EXTENDS Samples, TwoFsms

RingB == AssignAAT(Sample2B, 3, 0)
=============================================================================
