----------------------------- MODULE MCApasLink -----------------------------
(***************************************************************************)
(* TLC instances of ApasLink.                                              *)
(***************************************************************************)
EXTENDS ApasLink
=============================================================================
