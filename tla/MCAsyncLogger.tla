--------------------------- MODULE MCAsyncLogger ---------------------------
(* Instances of AsyncLogger for TLC. *)
EXTENDS AsyncLogger

CONSTANTS timer, other

TimerAndOther == {timer, other}
=============================================================================
