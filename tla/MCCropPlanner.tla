----------------------------- MODULE MCCropPlanner -----------------------------
(* Instances of CropPlanner for TLC. *)
EXTENDS CropPlanner

LandscapeSource == [x |-> 6, y |-> 4]
Square == [x |-> 1, y |-> 1]
Half == [num |-> 1, den |-> 2]
Rect(l, t, r, b) == [near |-> [x |-> l, y |-> t], far |-> [x |-> r, y |-> b]]

\* At a corner, near it, tall, in the opposite corner, and wider than the full frame.
Athletes ==
  {Rect(0, 0, 1, 1), Rect(1, 0, 2, 1), Rect(3, 1, 4, 3), Rect(3, 3, 6, 4), Rect(0, 2, 5, 3)}
================================================================================
