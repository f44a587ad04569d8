--------------------------- MODULE MCWorkflowRun ---------------------------
(* Bounds for TLC: every acyclic graph on two or three nodes, up to naming. *)
EXTENDS WorkflowRun
CONSTANTS d1, d2, c1
MCOneDelivery == {d1}
MCTwoDeliveries == {d1, d2}
MCNoCancel == {}
MCOneCancel == {c1}
=============================================================================
