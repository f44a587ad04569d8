--------------------------- MODULE MCDatasetTree ---------------------------
(* Bounds for TLC: three folders and a dataset, and one move at a time. *)
EXTENDS DatasetTree
CONSTANT r1
MCNodes == 1 .. 4
MCDatasets == {4}
MCRequests == {r1}
=============================================================================
