------------------------------ MODULE MCJobIntake -----------------------------
(* Instances of JobIntake for TLC. *)
EXTENDS JobIntake

CONSTANTS r1, r2, r3, c1, k1, k2, good, other, short

TwoRequests == {r1, r2}
ThreeRequests == {r1, r2, r3}
OneConfiguration == {c1}
TwoConfirmations == {k1, k2}
RightAndWrongSize == {good, short}
Right == {good}
Contents == {good, other, short}
RightSize == {good, other}
=============================================================================
