-------------------------- MODULE MCCoroutinePool --------------------------
(* Instances of CoroutinePool for TLC. *)
EXTENDS CoroutinePool, TLC

CONSTANTS u1, u2, u3

ThreeBorrowers == {u1, u2, u3}
BorrowerSymmetry == Permutations(ThreeBorrowers)
=============================================================================
