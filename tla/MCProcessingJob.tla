-------------------------- MODULE MCProcessingJob --------------------------
(* Bounds for TLC: a message delivered twice, one cancelling request, and an
   operation that reports twice (vector_operations.py BufferOp reports a growing
   share; the throttle drops the earlier one when it comes late). *)

EXTENDS ProcessingJob
CONSTANTS d1, d2, c1
MCDeliveries == {d1, d2}
MCCancelRequests == {c1}
MCOpProgress == {10, 90}
=============================================================================
