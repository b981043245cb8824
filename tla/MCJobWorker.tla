----------------------------- MODULE MCJobWorker -----------------------------
(* Instances of JobWorker for TLC. *)
EXTENDS JobWorker, TLC

CONSTANTS w1, w2, w3

TwoWorkers == {w1, w2}
ThreeWorkers == {w1, w2, w3}
TransientFailures == {"transient"}
AllFailures == {"transient", "terminal", "internal"}
=============================================================================
