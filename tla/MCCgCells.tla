----------------------------- MODULE MCCgCells -----------------------------
(***************************************************************************)
(* TLC instances of CgCells: slotframes <<handle, size>> and hashes.       *)
(***************************************************************************)
EXTENDS CgCells

CONSTANTS n1, n2

SmallSlotframes == <<<<Eb, 4>>, <<Short, 8>>, <<Root, 4>>, <<Common, 2>>>>

\* With ShardsMax = 2 and Kappa = 1 all cells of a slotframe are distinct.
DistinctChildHash == [n \in {n1, n2} |-> IF n = n1 THEN 0 ELSE 2]
OwnHash == [n \in {n1, n2} |-> 4]

\* Both children hash to one slot.
EqualChildHash == [n \in {n1, n2} |-> 0]
=============================================================================
