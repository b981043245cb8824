-------------------------------- MODULE MCShot ---------------------------------
(* Instances of ShotEvaluation for TLC. *)
EXTENDS ShotEvaluation

Quarter == [num |-> 1, den |-> 4]
B(n, f) == [near |-> n, far |-> f]

\* Frames of a shot: seed, extent, box, whether it is sampled, limited.
F(c, e, b, s, l) == [seed |-> c, extent |-> e, box |-> b, sampled |-> s, limited |-> l]
Build(times, fs) ==
  [time |-> times, seed |-> [k \in DOMAIN fs |-> fs[k].seed], extent |-> [k \in DOMAIN fs |-> fs[k].extent],
   box |-> [k \in DOMAIN fs |-> fs[k].box], sampled |-> [k \in DOMAIN fs |-> fs[k].sampled],
   limited |-> [k \in DOMAIN fs |-> fs[k].limited]]

Frames ==
  {F(2, 4, B(1, 2), TRUE, FALSE), F(6, 4, B(6, 7), TRUE, FALSE),
   F(3, 4, Absent, TRUE, FALSE), F(2, 4, B(1, 2), FALSE, FALSE), F(4, 6, B(1, 8), TRUE, TRUE),
   F(3, 4, B(5, 7), TRUE, TRUE)}

Times == {<<0, 1, 2, 3>>, <<0, 2, 3, 5>>}
Shots == {Build(t, fs) : t \in Times, fs \in [1 .. 4 -> Frames]} \union {Build(<<0>>, <<f>>) : f \in Frames}

Person(v, a, b) == [visible |-> v, ambiguous |-> a, bounds |-> b]
Left == Person(TRUE, FALSE, B(1, 2))
Right == Person(TRUE, FALSE, B(6, 8))
Unsure == Person(TRUE, TRUE, B(1, 2))
Gone == Person(FALSE, FALSE, Absent)
People == [1 .. 4 -> {Left, Right}] \union {<<Unsure, Left, Gone, Right, Left>>}
=============================================================================
