------------------------------- MODULE MCSixp -------------------------------
(***************************************************************************)
(* TLC instances of Sixp.  MixedAsks: na asks nb for cells or for a        *)
(* CLEAR, nb asks na and nc asks nb, in three steps, for cells.  OneAsk:   *)
(* na asks nb for cells.                                                   *)
(***************************************************************************)
EXTENDS Sixp

CONSTANTS na, nb, nc

MixedAsks == {<<na, nb, "Add">>, <<na, nb, "Clear">>}
             \cup {<<nb, na, "Add">>, <<nc, nb, "Add3">>}

OneAsk == {<<na, nb, "Add">>}
=============================================================================
