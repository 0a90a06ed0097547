----------------------------- MODULE MCAutoSync -----------------------------
(***************************************************************************)
(* One person and the scheduler.                                           *)
(***************************************************************************)
EXTENDS AutoSync, TLC
=============================================================================
