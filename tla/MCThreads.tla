------------------------------ MODULE MCThreads ------------------------------
(***************************************************************************)
(* FsmThreads on traffic_lights_3, and on turnstyle_2 with a server added  *)
(* that takes ev_Reset: the turnstyle has a state without a time-out, and  *)
(* fewer states.                                                           *)
(***************************************************************************)
EXTENDS Samples, FsmThreads

ResetMessages == {2}
=============================================================================
