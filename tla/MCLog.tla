------------------------------- MODULE MCLog -------------------------------
(***************************************************************************)
(* RunTimeLog on the configuration and the callbacks of MCMixed.           *)
(***************************************************************************)
EXTENDS MCMixed, RunTimeLog
=============================================================================
