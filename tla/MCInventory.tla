---------------------------- MODULE MCInventory ----------------------------
(* Bounds for TLC: two requests at once on an item with at most one image; the
   one position a PATCH asks for stands where the reordering parks its rows. *)

EXTENDS Inventory, TLC
CONSTANTS r1, r2, e1, k1, k2
MCRequests == {r1, r2}
MCOneRequest == {r1}
MCImages == {e1}
MCNoImages == {}
MCKeys == {k1, k2}
MCOneKey == {k1}
MCPositions == {OFFSET}
MCSymmetry == Permutations(MCRequests) \cup Permutations(MCKeys)
=============================================================================
