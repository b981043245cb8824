-------------------------- MODULE MCProcessingAttempt --------------------------
(* Instances of ProcessingAttempt for TLC: three frames last 150 ms, 2 ms at a rate *)
(* the API refuses, and longer than the limit.                                      *)
EXTENDS ProcessingAttempt

Rates == {[num |-> 20, den |-> 1], [num |-> 1200, den |-> 1], [num |-> 1, den |-> 2]}
================================================================================
