------------------------- MODULE MCChildGrandchild --------------------------
(***************************************************************************)
(* TLC instances of ChildGrandchild.                                       *)
(***************************************************************************)
EXTENDS ChildGrandchild, TLC

Symmetry == Permutations(Neighbor)
=============================================================================
