-------------------------- MODULE MCSchemaMigrations ---------------------------
(* Instances of SchemaMigrations for TLC. *)
EXTENDS SchemaMigrations, TLC

CONSTANTS p1, p2, p3

TwoProcesses == {p1, p2}
ProcessSymmetry == Permutations(Process)
=============================================================================
