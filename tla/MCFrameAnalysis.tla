---------------------------- MODULE MCFrameAnalysis ----------------------------
(* Instances of FrameAnalysis for TLC. *)
EXTENDS FrameAnalysis

Rate(n, d) == [num |-> n, den |-> d]
Frames(n, r) == [frames |-> n, num |-> r.num, den |-> r.den]
At(c, h) == [centre |-> c, half |-> h]

\* The numeric edges: NTSC, cinema and slow rates, one that is too fast for milliseconds,
\* clips of one frame, taps just before, at and after every frame.
ClipsOfAnyRate ==
  {Frames(n, r) : n \in {1, 2, 7}, r \in {Rate(30000, 1001), Rate(24, 1), Rate(120, 1), Rate(2000, 1), Rate(3, 2)}}
RatesOfAnyKind == {Rate(0, 1), Rate(1, 2), Rate(10, 1), Rate(125, 10), Rate(30, 1), Rate(1000, 1)}
Boundaries(c) ==
  {t \in UNION {{Timestamp(c, k) - 1, Timestamp(c, k), Timestamp(c, k) + 1} : k \in 0 .. c.frames} :
     t >= 0}
TimingJobs ==
  UNION {[clip : {c}, fps : RatesOfAnyKind, time : Boundaries(c), tap : {0}, scene : {{<<At(0, 1)>>}}] :
           c \in ClipsOfAnyRate}

\* People one gate apart, so that the reference decides whom to follow, and three of
\* them, the last of which may be selected, where two are kept as evidence.
People == {<<>>, <<At(0, 1), At(3, 1)>>, <<At(6, 1), At(3, 1), At(0, 1)>>, <<At(6, 1)>>}
FollowingJobs ==
  [clip : {Frames(5, Rate(20, 1))}, fps : {Rate(0, 1), Rate(10, 1)}, time : {0, 60, 150},
   tap : {1, 4}, scene : {People}]

Jobs == TimingJobs \union FollowingJobs
================================================================================
