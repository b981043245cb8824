--------------------------- MODULE MCFrontendSession ---------------------------
(* Instances of FrontendSession for TLC. *)
EXTENDS FrontendSession, TLC

CONSTANTS p1, p2, f1, f2, t1, t2

OneProject == {p1}
TwoProjects == {p1, p2}
TwoFiles == {f1, f2}
OneTap == {t1}
TwoTaps == {t1, t2}

=============================================================================
