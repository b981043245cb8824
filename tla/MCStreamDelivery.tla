--------------------------- MODULE MCStreamDelivery ---------------------------
(* Instances of StreamDelivery for TLC. *)
EXTENDS StreamDelivery, TLC

CONSTANTS p1, p2

TwoProcesses == {p1, p2}
NoEntry == {}
LastEntry == {Entries}
ProcessSymmetry == Permutations(Process)
=============================================================================
