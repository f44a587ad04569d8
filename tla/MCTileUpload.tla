---------------------------- MODULE MCTileUpload ----------------------------
(* Bounds for TLC: the client repeats its completion once, the transport its
   message once, and the task is retried once. *)

EXTENDS TileUpload
CONSTANTS q1, q2, d1, d2
MCCompletes == {q1, q2}
MCOneDelivery == {d1}
MCTwoDeliveries == {d1, d2}
=============================================================================
