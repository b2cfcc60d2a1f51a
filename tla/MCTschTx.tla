------------------------------ MODULE MCTschTx ------------------------------
(***************************************************************************)
(* TLC instances of TschTx.                                                *)
(***************************************************************************)
EXTENDS TschTx
=============================================================================
