-------------------------- MODULE MCReviewPublication --------------------------
(* Instances of ReviewPublication for TLC. *)
EXTENDS ReviewPublication, TLC

CONSTANTS a1, a2, a3

OneAttempt == {a1}
TwoAttempts == {a1, a2}
AttemptSymmetry == Permutations(Attempt)
=============================================================================
