-------------------------- MODULE MCAsyncChannel ---------------------------
(* An instance of AsyncChannel for TLC. *)
EXTENDS AsyncChannel
=============================================================================
