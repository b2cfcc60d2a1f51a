---------------------------- MODULE MCCgHistory -----------------------------
(***************************************************************************)
(* TLC instances of CgHistory.                                             *)
(***************************************************************************)
EXTENDS CgHistory
=============================================================================
