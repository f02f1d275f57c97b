---------------------------- MODULE MCCoroutine ----------------------------
(* Instances of Coroutine for TLC. *)
EXTENDS Coroutine

CONSTANTS h1, h2, p1, u1, u2

TwoThreads == {u1, u2}
TwoHeapCors == {h1, h2}
OnePoolCor == {p1}
=============================================================================
