------------------------------ MODULE MCTimer ------------------------------
(* An instance of Timer for TLC. *)
EXTENDS Timer, TLC

CONSTANTS e1, e2, loop, other

TwoEvents == {e1, e2}
OneOther  == {other}
OnlyE1    == {e1}

(* e1 is due sooner than e2. *)
TwoIntervals == (e1 :> 1 @@ e2 :> 2)
=============================================================================
