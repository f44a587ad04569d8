----------------------------- MODULE MCChatTurn -----------------------------
(* Bounds for TLC: two turns, at once or one after the other, of up to two
   chunks, saved by two; a tick of the clock is longer than a turn may last. *)

EXTENDS ChatTurn
CONSTANTS t1, t2
MCTurns == {t1, t2}
=============================================================================
