----------------------------- MODULE PlannerProofs -----------------------------
(***************************************************************************)
(* What the planner guarantees, from the causal crop of a frame to the     *)
(* evaluation of a shot, for every source, shot and limit of motion.       *)
(*                                                                         *)
(* - CropPlanner: all rests on what Clamp and Contain make of any          *)
(*   candidate, so that neither gates nor velocities matter.               *)
(* - ShotEvaluation: each linear program keeps the optima of the ones      *)
(*   before it, and a camera that may rest costs nothing in any of them.   *)
(* - its crops are what LookaheadCamera assumes of the crops it is given.  *)
(***************************************************************************)
EXTENDS CropPlanner, ShotEvaluation, FiniteSetTheorems, WellFoundedInduction, TLAPS

\* A set of naturals has a least element.
LEMMA LeastNatural ==
  ASSUME NEW S, S \subseteq Nat, S # {}
  PROVE  \E n \in S : \A m \in S : n <= m
PROOF
<1> DEFINE R == OpToRel(<, Nat)
<1>1. \A m, n \in Nat : <<m, n>> \in R <=> m < n
  BY DEF OpToRel
<1>2. IsWellFoundedOn(R, Nat)
  BY NatLessThanWellFounded
<1> HIDE DEF R
<1>3. PICK s \in S : \A t \in S : ~(<<t, s>> \in R)
  BY ONLY <1>2, S \subseteq Nat, S # {}, WFMin
<1>4. \A t \in S : ~(t < s) /\ t \in Nat /\ s \in Nat
  BY <1>1, <1>3
<1>5. \A t \in S : s <= t
  BY <1>4
<1> QED
  BY <1>5

\* A crop before it is settled.
Candidate == [at : [Axis -> Int], scale : Positive]

ShapeInv ==
  /\ crop \in Crop \union {None}
  /\ zoom \in Direction /\ pan \in [Axis -> Direction]
  /\ box \in Box \union {None}
  /\ limited = (box # None /\ ~Fits(box, FullScale))

PlannerInv == ShapeInv /\ AthleteInFrame

-----------------------------------------------------------------------------
(* Geometry.                                                               *)

\* The smallest element of a set of naturals is one of them and none is smaller.
LEMMA SmallestIsLeast ==
  ASSUME NEW S, S \subseteq Nat, S # {}
  PROVE  Smallest(S) \in S /\ \A t \in S : Smallest(S) <= t
PROOF
<1>1. \E s \in S : \A t \in S : s <= t
  BY LeastNatural
<1> QED
  BY <1>1 DEF Smallest

\* A crop no larger than the full frame fits the source.
LEMMA SizeBounds ==
  ASSUME NEW a \in Axis, NEW s \in 1 .. FullScale
  PROVE  Size(s, a) \in Int /\ 0 < Size(s, a) /\ Size(s, a) <= Source[a]
PROOF
<1>1. /\ Aspect[a] \in Nat \ {0} /\ Source[a] \in Nat \ {0} /\ FullScale \in Nat \ {0}
      /\ Aspect[a] * FullScale <= Source[a]
  BY SourceAssumption DEF Positive
<1>2. \A m, f, k \in Nat : m <= f => k * m <= k * f
  BY SMT
<1>3. Aspect[a] * s <= Aspect[a] * FullScale /\ Aspect[a] * s \in Nat /\ Aspect[a] * FullScale \in Nat
  BY <1>1, <1>2
<1>4. 0 < Aspect[a] * s
  BY <1>1, SMT
<1> QED
  BY <1>1, <1>3, <1>4 DEF Size

\* A larger scale makes a larger crop.
LEMMA SizeMonotone ==
  ASSUME NEW a \in Axis, NEW s \in Nat, NEW t \in Nat, s <= t
  PROVE  Size(s, a) \in Nat /\ Size(t, a) \in Nat /\ Size(s, a) <= Size(t, a)
PROOF
<1>1. Aspect[a] \in Nat
  BY SourceAssumption DEF Positive
<1>2. \A m, f, k \in Nat : m <= f => k * m <= k * f /\ k * m \in Nat /\ k * f \in Nat
  BY SMT
<1> QED
  BY <1>1, <1>2 DEF Size

\* Clamping moves a crop that is not too large into the source, and no further.
LEMMA ClampInside ==
  ASSUME NEW c \in Candidate, c.scale <= FullScale
  PROVE  /\ Clamp(c) \in Crop /\ Clamp(c).scale = c.scale /\ Inside(Clamp(c))
         /\ \A a \in Axis : Clamp(c).at[a] =
              Lesser(Greater(c.at[a], Size(c.scale, a)), 2 * Source[a] - Size(c.scale, a))
PROOF
<1>1. c.scale \in 1 .. FullScale /\ c.at \in [Axis -> Int]
  BY SourceAssumption DEF Candidate, Positive
<1>2. Clamp(c).scale = c.scale
  BY DEF Clamp
<1>3. \A a \in Axis : Clamp(c).at[a] =
              Lesser(Greater(c.at[a], Size(c.scale, a)), 2 * Source[a] - Size(c.scale, a))
  BY DEF Clamp
<1>4. ASSUME NEW a \in Axis
      PROVE  /\ Clamp(c).at[a] \in Int
             /\ 0 <= Clamp(c).at[a] - Size(c.scale, a)
             /\ Clamp(c).at[a] + Size(c.scale, a) <= 2 * Source[a]
  <2>1. /\ Size(c.scale, a) \in Int /\ 0 < Size(c.scale, a) /\ Size(c.scale, a) <= Source[a]
        /\ Source[a] \in Int /\ c.at[a] \in Int
    BY <1>1, SizeBounds, SourceAssumption DEF Positive
  <2> QED
    BY <1>3, <2>1 DEF Lesser, Greater
<1>5. Inside(Clamp(c))
  BY <1>2, <1>4 DEF Inside, Lower, Upper
<1>6. Clamp(c) \in Crop
  BY <1>1, <1>4 DEF Clamp, Crop
<1> QED
  BY <1>2, <1>3, <1>5, <1>6

\* The desired crop is one.
LEMMA DesiredIsCrop ==
  ASSUME NEW b \in Box
  PROVE  Desired(b) \in Crop
PROOF
<1> DEFINE S == {s \in 1 .. FullScale :
                   \/ s = FullScale
                   \/ Length(b, "y") * Target.den <= Size(s, "y") * Target.num}
<1>1. FullScale \in Nat \ {0}
  BY SourceAssumption DEF Positive
<1>2. S \subseteq Nat /\ FullScale \in S
  BY <1>1
<1>3. Smallest(S) \in 1 .. FullScale
  BY <1>2, SmallestIsLeast
<1> DEFINE c == [at |-> Middle(b), scale |-> Smallest(S)]
<1>4. Middle(b) \in [Axis -> Int]
  BY BoxAssumption DEF Middle
<1>5. Desired(b) = Clamp(c)
  BY DEF Desired
<1> HIDE DEF S
<1>6. c \in Candidate /\ c.scale <= FullScale
  BY <1>1, <1>3, <1>4 DEF Candidate, Positive
<1> HIDE DEF c
<1> QED
  BY <1>5, <1>6, ClampInside

\* Containing a box grows and moves the crop until it shows it, or shows the full frame.
LEMMA ContainShows ==
  ASSUME NEW c \in Crop, Inside(c), NEW b \in Box
  PROVE  /\ Contain(c, b) \in Crop /\ Inside(Contain(c, b))
         /\ Fits(b, FullScale) => Contains(Contain(c, b), b)
PROOF
<1>1. FullScale \in Nat \ {0} /\ c.scale \in 1 .. FullScale /\ c.at \in [Axis -> Int]
  BY SourceAssumption DEF Positive, Crop
<1>2. \A a \in Axis : /\ b.near[a] \in Nat /\ b.far[a] \in Nat /\ b.near[a] < b.far[a]
                      /\ b.far[a] <= Source[a] /\ Source[a] \in Nat
  BY BoxAssumption, SourceAssumption DEF Positive
<1>3. CASE Contains(c, b)
  BY <1>3 DEF Contain
<1>4. CASE ~Contains(c, b) /\ ~Fits(b, FullScale)
  <2>1. Full(Middle(b)) \in Candidate /\ Full(Middle(b)).scale = FullScale
    BY <1>1, <1>2 DEF Full, Middle, Candidate, Positive
  <2>2. Contain(c, b) = Clamp(Full(Middle(b)))
    BY <1>4 DEF Contain
  <2> QED
    BY <1>1, <1>4, <2>1, <2>2, ClampInside
<1>5. CASE ~Contains(c, b) /\ Fits(b, FullScale)
  <2> DEFINE S == {t \in c.scale .. FullScale : Fits(b, t)}
             s == Smallest(S)
             low == [a \in Axis |->
                       Greater(Lesser(Lower(c, a), 2 * b.near[a]), 2 * b.far[a] - 2 * Size(s, a))]
             d == [at |-> [a \in Axis |-> Size(s, a) + low[a]], scale |-> s]
  <2>1. S \subseteq Nat /\ FullScale \in S
    BY <1>1, <1>5
  <2>2. s \in 1 .. FullScale /\ Fits(b, s)
    BY <1>1, <2>1, SmallestIsLeast
  <2>3. Contain(c, b) = Clamp(d)
    BY <1>5 DEF Contain
  <2> HIDE DEF S, s
  <2>4. \A a \in Axis : /\ Size(s, a) \in Int /\ 0 < Size(s, a) /\ Size(s, a) <= Source[a]
                        /\ Lower(c, a) \in Int
    BY <1>1, <2>2, SizeBounds DEF Lower
  <2>5. \A a \in Axis : b.far[a] - b.near[a] <= Size(s, a)
    BY <2>2 DEF Fits, Length
  <2>6. \A a \in Axis : /\ low[a] \in Int /\ low[a] <= 2 * b.near[a]
                        /\ 2 * b.far[a] - 2 * Size(s, a) <= low[a]
    BY <1>2, <2>4, <2>5 DEF Lesser, Greater
  <2> HIDE DEF low
  <2>7. d \in Candidate /\ d.scale <= FullScale
    BY <1>1, <2>2, <2>4, <2>6 DEF Candidate, Positive
  <2>8. /\ Clamp(d) \in Crop /\ Inside(Clamp(d)) /\ Clamp(d).scale = s
        /\ \A a \in Axis : Clamp(d).at[a] =
             Lesser(Greater(Size(s, a) + low[a], Size(s, a)), 2 * Source[a] - Size(s, a))
    BY <2>7, ClampInside
  <2> HIDE DEF d
  <2>9. \A a \in Axis : /\ Clamp(d).at[a] - Size(s, a) <= 2 * b.near[a]
                        /\ 2 * b.far[a] <= Clamp(d).at[a] + Size(s, a)
    BY <1>2, <2>4, <2>6, <2>8 DEF Lesser, Greater
  <2>10. Contains(Clamp(d), b)
    BY <2>8, <2>9 DEF Contains, Lower, Upper
  <2> QED
    BY <2>3, <2>8, <2>10
<1> QED
  BY <1>3, <1>4, <1>5

\* Whatever motion and gates propose, the settled crop is in the source and shows the box.
LEMMA SettledShows ==
  ASSUME NEW c \in Candidate, NEW b \in Box \union {None}
  PROVE  /\ Settled(c, b) \in Crop /\ Inside(Settled(c, b))
         /\ b # None /\ Fits(b, FullScale) => Contains(Settled(c, b), b)
PROOF
<1> DEFINE d == IF c.scale > FullScale THEN [c EXCEPT !.scale = FullScale] ELSE c
<1>1. d \in Candidate /\ d.scale <= FullScale
  BY SourceAssumption DEF Candidate, Positive
<1> HIDE DEF d
<1>2. Clamp(d) \in Crop /\ Inside(Clamp(d))
  BY <1>1, ClampInside
<1>3. Settled(c, b) = IF b = None THEN Clamp(d) ELSE Contain(Clamp(d), b)
  BY DEF Settled, d
<1> QED
  BY <1>2, <1>3, ContainShows

-----------------------------------------------------------------------------
(* Motion.                                                                 *)

\* A braking motion goes on in its direction or stops.
LEMMA BrakedMoves ==
  ASSUME NEW p \in Int, NEW v \in Direction, NEW r \in Braked(p, v)
  PROVE  /\ r.at \in Int /\ r.v \in {0, v}
         /\ 0 <= v => p <= r.at
PROOF
<1>1. PICK d \in 0 .. IF v = 0 THEN 0 ELSE Momentum, u \in {0, v} : r = [at |-> p + v * d, v |-> u]
  BY DEF Braked
<1>2. d \in Nat /\ r.at = p + v * d /\ r.v = u
  BY <1>1, ControllerAssumption
<1>3. v = -1 \/ v = 0 \/ v = 1
  BY DEF Direction
<1>4. v * d = -d \/ v * d = 0 \/ v * d = d
  BY <1>2, <1>3
<1>5. 0 <= v => v * d = 0 \/ v * d = d
  BY <1>2, <1>3
<1> QED
  BY <1>2, <1>4, <1>5

\* A motion to a target stays between target and the way it needs to brake.
LEMMA ApproachingMoves ==
  ASSUME NEW p \in Int, NEW v \in Direction, NEW t \in Int, NEW r \in Approaching(p, v, t)
  PROVE  /\ r.at \in Int /\ r.v \in Direction
         /\ 0 <= v /\ p <= t => p <= r.at
PROOF
<1>1. CASE r \in Braked(p, v)
  BY <1>1, BrakedMoves DEF Direction
<1>2. ASSUME NEW b \in Braked(p, v), NEW q \in Toward(b.at, t),
             r = [at |-> q, v |-> IF q < t THEN 1 ELSE IF q = t THEN 0 ELSE -1]
      PROVE  /\ r.at \in Int /\ r.v \in Direction
             /\ 0 <= v /\ p <= t => p <= r.at
  <2>1. b.at \in Int /\ (0 <= v => p <= b.at)
    BY BrakedMoves
  <2>2. q \in Int /\ (b.at <= q \/ t <= q)
    BY <2>1 DEF Toward
  <2>3. r.at = q /\ r.v \in {-1, 0, 1}
    BY <1>2
  <2> QED
    BY <2>1, <2>2, <2>3 DEF Direction
<1>3. \/ r \in Braked(p, v)
      \/ \E b \in Braked(p, v) : \E q \in Toward(b.at, t) :
           r = [at |-> q, v |-> IF q < t THEN 1 ELSE IF q = t THEN 0 ELSE -1]
  <2>1. \/ r \in Braked(p, v)
        \/ \E b \in Braked(p, v) :
             r \in {[at |-> q, v |-> IF q < t THEN 1 ELSE IF q = t THEN 0 ELSE -1] : q \in Toward(b.at, t)}
    BY Zenon DEF Approaching
  <2> QED
    BY <2>1
<1> QED
  BY <1>1, <1>2, <1>3

\* A motion, with the gate open or closed, ends at an integer with a direction.
LEMMA MovedMoves ==
  ASSUME NEW p \in Int, NEW v \in Direction, NEW open \in BOOLEAN, NEW t \in Int,
         NEW r \in Moved(p, v, open, t)
  PROVE  r.at \in Int /\ r.v \in Direction
PROOF
  BY BrakedMoves, ApproachingMoves DEF Moved, Direction

-----------------------------------------------------------------------------
(* One frame.                                                              *)

\* Whatever the candidate, the frame ends with a crop that keeps the invariant.
LEMMA SettleKeeps ==
  ASSUME NEW c \in Candidate, NEW p \in [Axis -> Direction], NEW z \in Direction,
         NEW b \in Box \union {None}, NEW label, Settle(c, p, z, b, label)
  PROVE  PlannerInv'
PROOF
<1>1. /\ crop' = Settled(c, b) /\ box' = b /\ limited' = (b # None /\ ~Fits(b, FullScale))
      /\ pan' = [a \in Axis |-> IF crop'.at[a] = c.at[a] THEN p[a] ELSE 0]
      /\ zoom' \in {z, 0}
  BY DEF Settle
<1>2. /\ crop' \in Crop /\ Inside(crop')
      /\ b # None /\ Fits(b, FullScale) => Contains(crop', b)
  BY <1>1, SettledShows
<1>3. pan' \in [Axis -> Direction] /\ zoom' \in Direction
  BY <1>1 DEF Direction
<1>4. ShapeInv'
  BY <1>1, <1>2, <1>3 DEF ShapeInv
<1>5. AthleteInFrame'
  BY <1>1, <1>2 DEF AthleteInFrame
<1> QED
  BY <1>4, <1>5 DEF PlannerInv

\* The crop of the frame before is a whole crop with whole velocities.
LEMMA CropTyped ==
  ASSUME ShapeInv, crop # None
  PROVE  /\ crop \in Crop /\ crop.at \in [Axis -> Int] /\ crop.scale \in 1 .. FullScale
         /\ FullScale \in Nat \ {0} /\ crop.scale \in Int
         /\ Greater(0, zoom) \in {0, 1} /\ Still \in [Axis -> Direction]
PROOF
<1>1. crop \in Crop /\ FullScale \in Nat \ {0} /\ zoom \in {-1, 0, 1}
  BY SourceAssumption DEF ShapeInv, Positive, Direction
<1>2. Greater(0, zoom) \in {0, 1}
  BY <1>1 DEF Greater
<1> QED
  BY <1>1, <1>2 DEF Crop, Still, Direction

\* After a miss the crop is clamped again and no smaller: its edges only move outwards.
LEMMA WiderShowsMore ==
  ASSUME NEW c \in Crop, Inside(c), NEW d \in Candidate, d.at = c.at, c.scale <= d.scale,
         NEW a \in Axis
  PROVE  Lower(Settled(d, None), a) <= Lower(c, a) /\ Upper(c, a) <= Upper(Settled(d, None), a)
PROOF
<1> DEFINE e == IF d.scale > FullScale THEN [d EXCEPT !.scale = FullScale] ELSE d
<1>1. FullScale \in Nat \ {0} /\ c.scale \in 1 .. FullScale /\ d.scale \in Nat \ {0} /\ c.at \in [Axis -> Int]
  BY SourceAssumption DEF Positive, Crop, Candidate
<1>2. e \in Candidate /\ e.scale <= FullScale /\ e.at = c.at /\ c.scale <= e.scale /\ e.scale \in Nat
  BY <1>1 DEF Candidate, Positive
<1>3. Settled(d, None) = Clamp(e)
  BY DEF Settled
<1> HIDE DEF e
<1>4. /\ Clamp(e).scale = e.scale
      /\ Clamp(e).at[a] = Lesser(Greater(c.at[a], Size(e.scale, a)), 2 * Source[a] - Size(e.scale, a))
  BY <1>2, ClampInside
<1>5. /\ Size(c.scale, a) \in Nat /\ Size(e.scale, a) \in Nat /\ Size(c.scale, a) <= Size(e.scale, a)
      /\ Source[a] \in Nat /\ c.at[a] \in Int
  BY <1>1, <1>2, SizeMonotone, SourceAssumption DEF Positive
<1>6. Size(e.scale, a) <= Source[a]
  BY <1>1, <1>2, SizeBounds
<1>7. 0 <= c.at[a] - Size(c.scale, a) /\ c.at[a] + Size(c.scale, a) <= 2 * Source[a]
  BY DEF Inside, Lower, Upper
<1>8. /\ Clamp(e).at[a] - Size(e.scale, a) <= c.at[a] - Size(c.scale, a)
      /\ c.at[a] + Size(c.scale, a) <= Clamp(e).at[a] + Size(e.scale, a)
  BY <1>4, <1>5, <1>6, <1>7 DEF Lesser, Greater
<1> QED
  BY <1>3, <1>4, <1>8 DEF Lower, Upper

\* A frame without a box keeps what was in view.
LEMMA MissStep ==
  ASSUME PlannerInv, Miss
  PROVE  /\ PlannerInv'
         /\ \A a \in Axis : Lower(crop', a) <= Lower(crop, a) /\ Upper(crop, a) <= Upper(crop', a)
PROOF
<1>1. PICK m \in Approaching(crop.scale, Greater(0, zoom), FullScale) :
        Settle([at |-> crop.at, scale |-> m.at], Still, m.v, None, "widen_on_miss")
  BY DEF Miss
<1>2. crop # None /\ ShapeInv /\ AthleteInFrame
  BY DEF Miss, PlannerInv
<1>3. /\ crop \in Crop /\ crop.at \in [Axis -> Int] /\ crop.scale \in 1 .. FullScale
      /\ FullScale \in Nat \ {0} /\ crop.scale \in Int
      /\ Greater(0, zoom) \in {0, 1} /\ Still \in [Axis -> Direction]
  BY <1>2, CropTyped
<1>4. Inside(crop)
  BY <1>2 DEF AthleteInFrame
<1>5. m.at \in Int /\ m.v \in Direction /\ crop.scale <= m.at
  <2>1. Greater(0, zoom) \in Direction /\ 0 <= Greater(0, zoom) /\ crop.scale <= FullScale
    BY <1>3 DEF Direction
  <2> QED
    BY <1>3, <2>1, ApproachingMoves
<1> DEFINE d == [at |-> crop.at, scale |-> m.at]
<1>6. d \in Candidate /\ d.at = crop.at /\ crop.scale <= d.scale
  BY <1>3, <1>5 DEF Candidate, Positive
<1>7. Settle(d, Still, m.v, None, "widen_on_miss")
  BY <1>1
<1> HIDE DEF d
<1>8. PlannerInv'
  BY <1>3, <1>5, <1>6, <1>7, SettleKeeps
<1>9. crop' = Settled(d, None)
  BY <1>7 DEF Settle
<1> QED
  BY <1>3, <1>4, <1>6, <1>8, <1>9, WiderShowsMore

\* So do the other frames.
LEMMA FrameStep ==
  ASSUME PlannerInv, FirstMiss \/ FirstDetection \/ \E b \in Box : Detect(b)
  PROVE  PlannerInv'
PROOF
<1>1. CASE FirstMiss
  <2>1. Full(Source) \in Candidate /\ Still \in [Axis -> Direction] /\ 0 \in Direction
    BY SourceAssumption DEF Full, Candidate, Positive, Still, Direction
  <2>2. Settle(Full(Source), Still, 0, None, "full_frame")
    BY <1>1 DEF FirstMiss
  <2> QED
    BY <2>1, <2>2, SettleKeeps
<1>2. CASE FirstDetection
  <2>1. PICK b \in Box : Settle(Desired(b), Still, 0, b, "initial")
    BY <1>2 DEF FirstDetection
  <2>2. Desired(b) \in Crop
    BY DesiredIsCrop
  <2>3. Desired(b) \in Candidate /\ Still \in [Axis -> Direction] /\ 0 \in Direction
    BY <2>2, SourceAssumption DEF Crop, Candidate, Positive, Still, Direction
  <2> QED
    BY <2>1, <2>3, SettleKeeps
<1>3. ASSUME NEW b \in Box, Detect(b) PROVE PlannerInv'
  <2>1. crop # None /\ ShapeInv
    BY <1>3 DEF Detect, PlannerInv
  <2>2. /\ crop.at.x \in Int /\ crop.at.y \in Int /\ crop.scale \in Int
        /\ pan.x \in Direction /\ pan.y \in Direction /\ zoom \in Direction
    <3>1. crop.at \in [Axis -> Int] /\ crop.scale \in Int
      BY <2>1, CropTyped
    <3>2. crop.at["x"] \in Int /\ crop.at["y"] \in Int
      BY <3>1 DEF Axis
    <3>3. pan["x"] \in Direction /\ pan["y"] \in Direction /\ zoom \in Direction
      BY <2>1 DEF ShapeInv, Axis
    <3> QED
      BY <3>1, <3>2, <3>3
  <2>3. /\ Desired(b).at.x \in Int /\ Desired(b).at.y \in Int /\ Desired(b).scale \in Int
    <3>1. Desired(b) \in Crop
      BY DesiredIsCrop
    <3>2. Desired(b).at \in [Axis -> Int] /\ Desired(b).scale \in Int
      BY <3>1 DEF Crop
    <3>3. Desired(b).at["x"] \in Int /\ Desired(b).at["y"] \in Int
      BY <3>2 DEF Axis
    <3> QED
      BY <3>2, <3>3
  <2>4. scaling' \in BOOLEAN /\ centering' \in BOOLEAN
    BY <1>3 DEF Detect, ScaleOutside, CenterOutside, Outside
  <2>5. PICK x \in Moved(crop.at.x, pan.x, centering', Desired(b).at.x),
             y \in Moved(crop.at.y, pan.y, centering', Desired(b).at.y),
             m \in Moved(crop.scale, zoom, scaling', Desired(b).scale) :
          /\ m.at >= 1
          /\ Settle([at |-> [x |-> x.at, y |-> y.at], scale |-> m.at], [x |-> x.v, y |-> y.v], m.v, b,
                    IF Moving THEN "smoothed" ELSE "deadband_hold")
    BY <1>3 DEF Detect
  <2>6. x.at \in Int /\ x.v \in Direction
    BY <2>2, <2>3, <2>4, MovedMoves
  <2>7. y.at \in Int /\ y.v \in Direction
    BY <2>2, <2>3, <2>4, MovedMoves
  <2>8. m.at \in Int /\ m.v \in Direction
    BY <2>2, <2>3, <2>4, MovedMoves
  <2>9. /\ [at |-> [x |-> x.at, y |-> y.at], scale |-> m.at] \in Candidate
        /\ [x |-> x.v, y |-> y.v] \in [Axis -> Direction]
    BY <2>5, <2>6, <2>7, <2>8 DEF Candidate, Positive, Axis
  <2> QED
    BY <2>5, <2>8, <2>9, SettleKeeps
<1> QED
  BY <1>1, <1>2, <1>3

-----------------------------------------------------------------------------
\* The planner's invariant.
THEOREM Invariant == Spec => []PlannerInv
PROOF
<1>1. Init => PlannerInv
  BY DEF Init, PlannerInv, ShapeInv, AthleteInFrame, Direction, Still
<1>2. PlannerInv /\ [Next]_vars => PlannerInv'
  <2> SUFFICES ASSUME PlannerInv, [Next]_vars PROVE PlannerInv'
    OBVIOUS
  <2>1. CASE UNCHANGED vars
    BY <2>1 DEF vars, PlannerInv, ShapeInv, AthleteInFrame
  <2> QED
    BY <2>1, MissStep, FrameStep DEF Next
<1> QED
  BY <1>1, <1>2, PTL DEF Spec

\* plan() contains the box of every frame in a crop inside the source, whatever the gates
\* and the motion were, unless no crop is large enough and the frame says so.
THEOREM AthleteStaysInFrame == Spec => []AthleteInFrame
PROOF
<1>1. PlannerInv => AthleteInFrame
  BY DEF PlannerInv
<1> QED
  BY <1>1, Invariant, PTL

\* A box that no crop holds on both axes is exactly one that is marked as limited: a
\* crop of the planner shows every other one.
LEMMA FeasibleUnlessLimited ==
  ASSUME PlannerInv, crop # None
  PROVE  Feasible(Exact) <=> fresh /\ box # None /\ ~limited
PROOF
<1>1. crop \in Crop /\ (box # None => box \in Box) /\ (limited <=> box # None /\ ~Fits(box, FullScale))
  BY DEF PlannerInv, ShapeInv
<1>2. ASSUME box # None, limited
      PROVE  ~Fits(box, crop.scale)
  <2>1. PICK a \in Axis : ~(Length(box, a) <= Size(FullScale, a))
    BY <1>1, <1>2 DEF Fits
  <2>2. crop.scale \in Nat /\ FullScale \in Nat /\ crop.scale <= FullScale
    BY <1>1, SourceAssumption DEF Crop, Positive
  <2>3. Size(crop.scale, a) \in Nat /\ Size(FullScale, a) \in Nat /\ Size(crop.scale, a) <= Size(FullScale, a)
    BY <2>2, SizeMonotone
  <2>4. Length(box, a) \in Int
    BY <1>1, <1>2, BoxAssumption DEF Length
  <2> QED
    BY <2>1, <2>3, <2>4 DEF Fits
<1>3. ASSUME box # None, ~limited
      PROVE  Fits(box, crop.scale)
  <2> SUFFICES ASSUME NEW a \in Axis PROVE Length(box, a) <= Size(crop.scale, a)
    BY DEF Fits
  <2>1. Lower(crop, a) <= 2 * box.near[a] /\ 2 * box.far[a] <= Upper(crop, a)
    BY <1>3 DEF PlannerInv, AthleteInFrame, Contains
  <2>2. crop.at[a] \in Int /\ box.near[a] \in Int /\ box.far[a] \in Int
    BY <1>1, <1>3, BoxAssumption DEF Crop
  <2>3. Size(crop.scale, a) \in Int
    BY <1>1, SizeBounds DEF Crop
  <2> QED
    BY <2>1, <2>2, <2>3 DEF Lower, Upper, Length
<1> QED
  BY <1>2, <1>3 DEF Feasible, Exact

\* The legal origins on an axis keep the crop in the source and on the box that binds
\* it, and there are some unless rounding tears the crop from a box of its size.
LEMMA OriginsAreLegal ==
  ASSUME PlannerInv, crop # None, NEW r \in Rounding, NEW a \in Axis
  PROVE  /\ Legal(a, r) = {} => Feasible(r) /\ Torn(a, r)
         /\ \A l \in Legal(a, r) :
              /\ l \in Int /\ 0 <= l /\ l + 2 * Size(crop.scale, a) <= 2 * Source[a]
              /\ Feasible(r) => l <= 2 * box.near[a] /\ 2 * box.far[a] <= l + 2 * Size(crop.scale, a)
PROOF
<1>1. /\ crop.scale \in 1 .. FullScale /\ crop.at \in [Axis -> Int]
      /\ box # None => box \in Box
  BY CropTyped DEF PlannerInv, AthleteInFrame, ShapeInv
<1>2. /\ Size(crop.scale, a) \in Int /\ 0 < Size(crop.scale, a)
      /\ Size(crop.scale, a) <= Source[a] /\ Source[a] \in Int
  BY <1>1, SizeBounds, SourceAssumption DEF Positive
<1>3. box # None => /\ box.near[a] \in Nat /\ box.far[a] \in Nat
                    /\ box.near[a] < box.far[a] /\ box.far[a] <= Source[a]
  BY <1>1, BoxAssumption
<1>4. CASE ~Feasible(r)
  <2>1. Legal(a, r) = 0 .. 2 * Source[a] - 2 * Size(crop.scale, a)
    BY <1>4 DEF Legal, Roaming
  <2>2. 0 \in Legal(a, r)
    BY <1>2, <2>1
  <2> QED
    BY <1>2, <1>4, <2>1, <2>2
<1>5. CASE Feasible(r) /\ Torn(a, r)
  BY <1>5 DEF Legal
<1>6. CASE Feasible(r) /\ ~Torn(a, r)
  <2> DEFINE low == Greater(0, 2 * box.far[a] - 2 * Size(crop.scale, a))
             high == Lesser(2 * Source[a] - 2 * Size(crop.scale, a), 2 * box.near[a])
  <2>1. Legal(a, r) = low .. high
    BY <1>6 DEF Legal, ShowingBox
  <2>2. box # None /\ box.far[a] - box.near[a] <= Size(crop.scale, a)
    BY <1>6 DEF Feasible, Fits, Length
  <2>3. /\ low \in Int /\ high \in Int /\ low <= high /\ 0 <= low
        /\ 2 * box.far[a] - 2 * Size(crop.scale, a) <= low
        /\ high <= 2 * Source[a] - 2 * Size(crop.scale, a) /\ high <= 2 * box.near[a]
    BY <1>2, <1>3, <2>2 DEF Lesser, Greater
  <2> HIDE DEF low, high
  <2>4. low \in Legal(a, r)
    BY <2>1, <2>3
  <2>5. ASSUME NEW l \in Legal(a, r)
        PROVE  /\ l \in Int /\ 0 <= l /\ l + 2 * Size(crop.scale, a) <= 2 * Source[a]
               /\ l <= 2 * box.near[a] /\ 2 * box.far[a] <= l + 2 * Size(crop.scale, a)
    <3>1. l \in Int /\ low <= l /\ l <= high
      BY <2>1, <2>3
    <3>2. box.near[a] \in Nat /\ box.far[a] \in Nat
      BY <1>3, <2>2
    <3> QED
      BY <1>2, <2>3, <3>1, <3>2
  <2> QED
    BY <2>4, <2>5
<1> QED
  BY <1>4, <1>5, <1>6

\* The look-ahead fails a shot for nothing but the rounding of a crop as large as its
\* fresh box, and whatever the linear programs choose is a crop in the source that
\* shows a fresh box: the containment of the seed planner is all that it relies on.
THEOREM LookaheadRefusesOnlyTight == Spec => []OnlyTightIsRefused
PROOF
<1>1. PlannerInv => OnlyTightIsRefused
  <2> SUFFICES ASSUME PlannerInv, crop # None, NEW r \in Rounding
               PROVE  /\ Refused(r) => /\ r # Exact
                                       /\ fresh /\ box # None /\ ~limited
                                       /\ \E a \in r.size \union r.edge : Tight(a)
                      /\ \A c \in Planned(r) : Inside(c) /\ (Feasible(r) => Contains(c, box))
    BY DEF OnlyTightIsRefused
  <2>1. Feasible(r) => Feasible(Exact)
    BY DEF Feasible, Exact
  <2>2. Feasible(r) => fresh /\ box # None /\ ~limited
    BY <2>1, FeasibleUnlessLimited
  <2>3. fresh /\ box # None /\ ~limited /\ ~Feasible(r) => \E a \in r.size : Tight(a)
    BY FeasibleUnlessLimited DEF Feasible, Exact
  <2>4. ASSUME Refused(r)
        PROVE  /\ r # Exact /\ fresh /\ box # None /\ ~limited
               /\ \E a \in r.size \union r.edge : Tight(a)
    <3>1. CASE fresh /\ box # None /\ ~limited /\ ~Feasible(r)
      BY <2>3, <3>1 DEF Exact
    <3>2. CASE \E a \in Axis : Legal(a, r) = {}
      <4>1. PICK a \in Axis : Feasible(r) /\ Torn(a, r)
        BY <3>2, OriginsAreLegal
      <4>2. a \in r.edge /\ Tight(a)
        BY <4>1 DEF Torn
      <4> QED
        BY <2>2, <4>1, <4>2 DEF Exact
    <3> QED
      BY <2>4, <3>1, <3>2 DEF Refused
  <2>5. ASSUME NEW c \in Planned(r) PROVE Inside(c) /\ (Feasible(r) => Contains(c, box))
    <3>1. PICK x \in Legal("x", r), y \in Legal("y", r) :
            c = [at |-> [x |-> x + Size(crop.scale, "x"), y |-> y + Size(crop.scale, "y")],
                 scale |-> crop.scale]
      BY DEF Planned
    <3>2. /\ "x" \in Axis /\ "y" \in Axis /\ c.scale = crop.scale
          /\ c.at["x"] = x + Size(crop.scale, "x") /\ c.at["y"] = y + Size(crop.scale, "y")
      BY <3>1 DEF Axis
    <3>3. \A a \in Axis : a = "x" \/ a = "y"
      BY DEF Axis
    <3>4. \A a \in Axis : \E l \in Legal(a, r) : c.at[a] = l + Size(crop.scale, a)
      BY <3>2, <3>3
    <3>5. ASSUME NEW a \in Axis
          PROVE  /\ 0 <= Lower(c, a) /\ Upper(c, a) <= 2 * Source[a]
                 /\ Feasible(r) => Lower(c, a) <= 2 * box.near[a] /\ 2 * box.far[a] <= Upper(c, a)
      <4>1. PICK l \in Legal(a, r) : c.at[a] = l + Size(crop.scale, a)
        BY <3>4
      <4>2. crop.scale \in 1 .. FullScale
        BY CropTyped DEF PlannerInv, ShapeInv
      <4>3. Size(crop.scale, a) \in Int
        BY <4>2, SizeBounds
      <4>4. l \in Int /\ Lower(c, a) = l /\ Upper(c, a) = l + 2 * Size(crop.scale, a)
        BY <3>2, <4>1, <4>3, OriginsAreLegal DEF Lower, Upper
      <4> QED
        BY <4>1, <4>4, OriginsAreLegal
    <3> QED
      BY <3>5 DEF Inside, Contains
  <2> QED
    BY <2>4, <2>5
<1> QED
  BY <1>1, Invariant, PTL

\* A frame without a box, whatever motion it interrupts, takes nothing out of view.
THEOREM MissesKeepView == Spec => MissKeepsView
PROOF
<1> DEFINE Kept == \A a \in Axis : Lower(crop', a) <= Lower(crop, a) /\ Upper(crop, a) <= Upper(crop', a)
<1>1. PlannerInv /\ [Next]_vars => [crop # None /\ box' = None => Kept]_vars
  <2> SUFFICES ASSUME PlannerInv, Next, crop # None, box' = None PROVE Kept
    OBVIOUS
  <2>1. Miss
    BY BoxAssumption DEF Next, FirstMiss, FirstDetection, Detect, Settle
  <2> QED
    BY <2>1, MissStep
<1> QED
  BY <1>1, Invariant, PTL DEF Spec, MissKeepsView

-----------------------------------------------------------------------------
(* The crops of CropPlanner are the seeds of LookaheadCamera.              *)

\* The crop of a frame on one axis, in half pixels, as a shot of that frame.
BoxOn(a) == IF box = None THEN Absent ELSE [near |-> 2 * box.near[a], far |-> 2 * box.far[a]]

SeedOn(a) ==
  [seed |-> <<crop.at[a]>>, extent |-> <<2 * Size(crop.scale, a)>>, box |-> <<BoxOn(a)>>,
   limited |-> <<limited>>]

CropsAreSeeds ==
  crop # None =>
    /\ Feasible(Exact) <=> fresh /\ box # None /\ ~limited
    /\ \A a \in Axis :
         Side = 2 * Source[a] /\ (\A m, n \in Nat : Absent # [near |-> m, far |-> n])
           => SeedFrame(SeedOn(a), 1)

\* LookaheadCropPlanner.plan takes its seed from DeterministicCropPlanner: what the
\* camera assumes of the frames of a shot is true of every crop of that planner, on
\* either axis, and the frames whose box binds the camera are the same for both.
THEOREM PlannerSeedsCamera == Spec => []CropsAreSeeds
PROOF
<1>1. PlannerInv => CropsAreSeeds
  <2> SUFFICES ASSUME PlannerInv, crop # None, NEW a \in Axis, Side = 2 * Source[a],
                      \A m, n \in Nat : Absent # [near |-> m, far |-> n]
               PROVE  SeedFrame(SeedOn(a), 1)
    BY FeasibleUnlessLimited DEF CropsAreSeeds
  <2> DEFINE s == SeedOn(a)
             size == Size(crop.scale, a)
  <2>1. crop \in Crop /\ (box # None => box \in Box) /\ (limited => box # None) /\ limited \in BOOLEAN
    BY DEF PlannerInv, ShapeInv
  <2>2. s.extent[1] = 2 * size /\ s.seed[1] = crop.at[a] /\ s.box[1] = BoxOn(a) /\ s.limited[1] = limited
    BY DEF SeedOn
  <2>3. size \in Int /\ 0 < size /\ size <= Source[a] /\ crop.at[a] \in Int /\ Source[a] \in Int
    BY <2>1, SizeBounds, SourceAssumption DEF Crop, Positive
  <2>4. 0 <= crop.at[a] - size /\ crop.at[a] + size <= 2 * Source[a]
    BY DEF PlannerInv, AthleteInFrame, Inside, Lower, Upper
  <2> HIDE DEF size
  <2>5. (2 * size) % 2 = 0 /\ (2 * size) \div 2 = size
    BY <2>3
  <2>6. /\ s.extent[1] % 2 = 0 /\ s.extent[1] \in 2 .. Side
        /\ s.seed[1] \in s.extent[1] \div 2 .. Side - s.extent[1] \div 2
    BY <2>2, <2>3, <2>4, <2>5
  <2>7. CASE box = None
    BY <2>1, <2>2, <2>6, <2>7 DEF SeedFrame, BoxOn
  <2>8. CASE box # None
    <3>1. /\ box.near[a] \in Nat /\ box.far[a] \in Nat /\ box.near[a] < box.far[a]
          /\ box.far[a] <= Source[a]
      BY <2>1, <2>8, BoxAssumption
    <3>2. BoxOn(a) = [near |-> 2 * box.near[a], far |-> 2 * box.far[a]] /\ BoxOn(a) # Absent
      BY <2>8, <3>1 DEF BoxOn
    <3>3. s.box[1].near = 2 * box.near[a] /\ s.box[1].far = 2 * box.far[a] /\ s.box[1] # Absent
      BY <2>2, <3>2
    <3>4. s.box[1].far \in 1 .. Side /\ s.box[1].near \in 0 .. s.box[1].far - 1
      BY <2>3, <3>1, <3>3
    <3>5. ~limited => crop.at[a] - size <= 2 * box.near[a] /\ 2 * box.far[a] <= crop.at[a] + size
      BY <2>8 DEF PlannerInv, AthleteInFrame, Contains, Lower, Upper, size
    <3> QED
      BY <2>2, <2>5, <2>6, <3>3, <3>4, <3>5 DEF SeedFrame
  <2> QED
    BY <2>7, <2>8
<1> QED
  BY <1>1, Invariant, PTL

-----------------------------------------------------------------------------
(* Extremes of sets of integers.                                           *)

\* What is at least everything in a set and in it is its Max.
LEMMA MaxIs ==
  ASSUME NEW S, S \subseteq Int, NEW m \in S, \A y \in S : y <= m
  PROVE  Max(S) = m
PROOF
<1>1. m \in S /\ \A y \in S : m >= y
  OBVIOUS
<1>2. Max(S) \in S /\ \A y \in S : Max(S) >= y
  BY <1>1 DEF Max
<1>3. Max(S) >= m /\ m >= Max(S) /\ m \in Int /\ Max(S) \in Int
  BY <1>1, <1>2
<1> QED
  BY <1>3

\* What is at most everything in a set and in it is its Min.
LEMMA MinIs ==
  ASSUME NEW S, S \subseteq Int, NEW m \in S, \A y \in S : m <= y
  PROVE  Min(S) = m
PROOF
<1>1. Min(S) \in S /\ \A y \in S : Min(S) =< y
  BY DEF Min
<1>2. Min(S) <= m /\ m <= Min(S) /\ m \in Int /\ Min(S) \in Int
  BY <1>1
<1> QED
  BY <1>2

\* A finite set of integers has a greatest element: take a smallest set without one and
\* remove an element.
LEMMA FiniteHasGreatest ==
  ASSUME NEW S, IsFiniteSet(S), S \subseteq Int, S # {}
  PROVE  \E m \in S : \A y \in S : y <= m
PROOF
<1> DEFINE Topped(T) == \E m \in T : \A y \in T : y <= m
           Bad == {T \in SUBSET S : T # {} /\ ~Topped(T)}
           Sizes == {Cardinality(T) : T \in Bad}
<1>1. \A T \in SUBSET S : IsFiniteSet(T) /\ Cardinality(T) \in Nat
  BY FS_Subset, FS_CardinalityType
<1>2. ASSUME Bad # {} PROVE FALSE
  <2>1. Sizes \subseteq Nat /\ Sizes # {}
    BY <1>1, <1>2
  <2>2. PICK T \in Bad : \A U \in Bad : Cardinality(T) <= Cardinality(U)
    <3> HIDE DEF Bad
    <3>1. PICK n \in Sizes : \A m \in Sizes : n <= m
      BY <2>1, LeastNatural
    <3> QED
      BY <3>1
  <2>3. PICK x : x \in T
    BY <2>2
  <2>4. T \ {x} \in SUBSET S /\ x \in Int /\ T \subseteq Int
    BY <2>2, <2>3
  <2>5. Cardinality(T \ {x}) < Cardinality(T)
    BY <1>1, <2>2, <2>3, <2>4, FS_RemoveElement
  <2>6. T \ {x} \notin Bad
    <3>1. Cardinality(T) \in Nat /\ Cardinality(T \ {x}) \in Nat
      BY <1>1, <2>2, <2>4
    <3>2. ~(Cardinality(T) <= Cardinality(T \ {x}))
      BY <2>5, <3>1
    <3> QED
      BY <2>2, <3>2
  <2>7. CASE T \ {x} = {}
    <3>1. T = {x}
      BY <2>3, <2>7
    <3> QED
      BY <2>2, <2>4, <3>1
  <2>8. CASE T \ {x} # {}
    <3>1. PICK m \in T \ {x} : \A y \in T \ {x} : y <= m
      BY <2>4, <2>6, <2>8
    <3>2. \A y \in T : y <= (IF m <= x THEN x ELSE m)
      BY <2>4, <3>1
    <3>3. (IF m <= x THEN x ELSE m) \in T
      BY <2>3, <3>1
    <3> QED
      BY <2>2, <3>2, <3>3
  <2> QED
    BY <2>7, <2>8
<1> QED
  BY <1>2

\* Max of a finite set is in it and nothing in it is greater.
LEMMA MaxIsGreatest ==
  ASSUME NEW S, IsFiniteSet(S), S \subseteq Int, S # {}
  PROVE  Max(S) \in S /\ \A y \in S : y <= Max(S)
PROOF
<1>1. PICK m \in S : \A y \in S : y <= m
  BY FiniteHasGreatest
<1>2. Max(S) = m
  BY <1>1, MaxIs
<1> QED
  BY <1>1, <1>2

\* The same for the values of a function on a finite set.
LEMMA MaxOfValues ==
  ASSUME NEW D, IsFiniteSet(D), D # {}, NEW f, \A k \in D : f[k] \in Int
  PROVE  /\ IsFiniteSet({f[k] : k \in D}) /\ {f[k] : k \in D} \subseteq Int
         /\ Max({f[k] : k \in D}) \in Int
         /\ \E k \in D : Max({f[j] : j \in D}) = f[k]
         /\ \A k \in D : f[k] <= Max({f[j] : j \in D})
PROOF
<1> DEFINE S == {f[k] : k \in D}
           g == [k \in D |-> f[k]]
<1>1. g \in Surjection(D, S)
  BY DEF Surjection
<1>2. IsFiniteSet(S)
  BY <1>1, FS_Surjection
<1>3. S \subseteq Int /\ S # {}
  OBVIOUS
<1>4. Max(S) \in S /\ \A y \in S : y <= Max(S)
  BY <1>2, <1>3, MaxIsGreatest
<1> QED
  BY <1>2, <1>3, <1>4

\* Max of a pair.
LEMMA MaxOfTwo ==
  ASSUME NEW m \in Int, NEW n \in Int
  PROVE  Max({m, n}) = IF m >= n THEN m ELSE n
PROOF
<1>1. CASE m >= n
  BY <1>1, MaxIs
<1>2. CASE ~(m >= n)
  BY <1>2, MaxIs
<1> QED
  BY <1>1, <1>2

\* Min of a pair.
LEMMA MinOfTwo ==
  ASSUME NEW m \in Int, NEW n \in Int
  PROVE  Min({m, n}) = IF m <= n THEN m ELSE n
PROOF
<1>1. CASE m <= n
  BY <1>1, MinIs
<1>2. CASE ~(m <= n)
  BY <1>2, MinIs
<1> QED
  BY <1>1, <1>2

\* The members of a set with the least cost.
LEMMA LeastCost ==
  ASSUME NEW S, NEW f, \A p \in S : f[p] \in Nat
  PROVE  \A p \in S : f[p] = Min({f[q] : q \in S}) <=> \A q \in S : f[p] <= f[q]
PROOF
<1> DEFINE C == {f[q] : q \in S}
<1> SUFFICES ASSUME NEW p \in S PROVE f[p] = Min(C) <=> \A q \in S : f[p] <= f[q]
  OBVIOUS
<1>1. C \subseteq Nat /\ C \subseteq Int /\ C # {}
  OBVIOUS
<1>2. PICK n \in C : \A m \in C : n <= m
  <2> HIDE DEF C
  <2> QED
    BY <1>1, LeastNatural
<1>3. Min(C) = n
  <2> HIDE DEF C
  <2> QED
    BY <1>1, <1>2, MinIs
<1>4. f[p] = n => \A q \in S : f[p] <= f[q]
  BY <1>2
<1>5. ASSUME \A q \in S : f[p] <= f[q] PROVE f[p] = n
  <2>1. f[p] <= n /\ n <= f[p] /\ n \in Nat /\ f[p] \in Nat
    BY <1>1, <1>2, <1>5
  <2> QED
    BY <2>1
<1> QED
  BY <1>3, <1>4, <1>5

-----------------------------------------------------------------------------
(* Sums over finite sets, as the recursive function of the folds has them. *)

Some(s) == CHOOSE x \in s : TRUE

\* One step of the sum of the values of F on the subsets of S.
SumStep(F, S, sum) ==
  [s \in SUBSET S |-> IF s = {} THEN 0 ELSE F[Some(s)] + sum[s \ {Some(s)}]]

\* A finite set that loses an element loses one of its size.
LEMMA SubsetSizes ==
  ASSUME NEW S, IsFiniteSet(S)
  PROVE  \A s \in SUBSET S :
           /\ IsFiniteSet(s) /\ Cardinality(s) \in Nat /\ Cardinality(s) <= Cardinality(S)
           /\ Cardinality(s) = 0 <=> s = {}
           /\ s # {} => /\ Some(s) \in s /\ s \ {Some(s)} \in SUBSET S
                        /\ Cardinality(s \ {Some(s)}) = Cardinality(s) - 1
PROOF
<1> SUFFICES ASSUME NEW s \in SUBSET S
             PROVE  /\ IsFiniteSet(s) /\ Cardinality(s) \in Nat /\ Cardinality(s) <= Cardinality(S)
                    /\ Cardinality(s) = 0 <=> s = {}
                    /\ s # {} => /\ Some(s) \in s /\ s \ {Some(s)} \in SUBSET S
                                 /\ Cardinality(s \ {Some(s)}) = Cardinality(s) - 1
  OBVIOUS
<1>1. IsFiniteSet(s) /\ Cardinality(s) <= Cardinality(S)
  BY FS_Subset
<1>2. Cardinality(s) \in Nat
  BY <1>1, FS_CardinalityType
<1>3. Cardinality(s) = 0 <=> s = {}
  BY <1>1, FS_EmptySet
<1>4. ASSUME s # {} PROVE Some(s) \in s
  BY <1>4 DEF Some
<1>5. ASSUME s # {} PROVE Cardinality(s \ {Some(s)}) = Cardinality(s) - 1
  BY <1>1, <1>4, <1>5, FS_RemoveElement
<1> QED
  BY <1>1, <1>2, <1>3, <1>4, <1>5

\* The sum exists: a smallest size of subsets on which it does not has a smaller one.
LEMMA SumExists ==
  ASSUME NEW S, IsFiniteSet(S), NEW F, \A x \in S : F[x] \in Nat
  PROVE  \E sum : sum = SumStep(F, S, sum)
PROOF
<1> DEFINE Small(n) == {s \in SUBSET S : Cardinality(s) <= n}
           Term(g, s) == IF s = {} THEN 0 ELSE F[Some(s)] + g[s \ {Some(s)}]
           Good(n) == \E g \in [Small(n) -> Nat] : \A s \in Small(n) : g[s] = Term(g, s)
           Bad == {n \in Nat : ~Good(n)}
<1>1. \A s \in SUBSET S :
        /\ Cardinality(s) \in Nat /\ (Cardinality(s) = 0 <=> s = {})
        /\ s # {} => /\ Some(s) \in s /\ s \ {Some(s)} \in SUBSET S
                     /\ Cardinality(s \ {Some(s)}) = Cardinality(s) - 1
  BY SubsetSizes
<1>2. Good(0)
  <2> DEFINE g == [s \in Small(0) |-> 0]
  <2>1. ASSUME NEW s \in Small(0) PROVE s = {}
    <3>1. s \in SUBSET S /\ Cardinality(s) <= 0
      OBVIOUS
    <3>2. Cardinality(s) \in Nat /\ (Cardinality(s) = 0 <=> s = {})
      BY <1>1, <3>1
    <3> QED
      BY <3>1, <3>2
  <2>2. g \in [Small(0) -> Nat] /\ \A s \in Small(0) : g[s] = Term(g, s)
    BY <2>1
  <2> QED
    BY <2>2
<1>3. ASSUME NEW n \in Nat, Good(n) PROVE Good(n + 1)
  <2>1. PICK g \in [Small(n) -> Nat] : \A s \in Small(n) : g[s] = Term(g, s)
    BY <1>3
  <2> DEFINE h == [s \in Small(n + 1) |-> IF s \in Small(n) THEN g[s] ELSE Term(g, s)]
  <2>2. \A s \in Small(n + 1) : s # {} => s \ {Some(s)} \in Small(n) /\ F[Some(s)] \in Nat
    BY <1>1
  <2>3. ASSUME NEW s \in Small(n) PROVE s \in Small(n + 1)
    <3>1. s \in SUBSET S /\ Cardinality(s) <= n
      OBVIOUS
    <3>2. Cardinality(s) \in Nat
      BY <1>1, <3>1
    <3>3. Cardinality(s) <= n + 1
      BY <3>1, <3>2
    <3> QED
      BY <3>1, <3>3
  <2>4. {} \in Small(n)
    <3>1. {} \in SUBSET S /\ Cardinality({}) = 0
      BY <1>1
    <3> QED
      BY <3>1
  <2> HIDE DEF Small
  <2>5. ASSUME NEW s \in Small(n + 1) PROVE h[s] \in Nat /\ h[s] = Term(h, s)
    <3>1. CASE s = {}
      BY <2>1, <2>4, <3>1
    <3>2. CASE s # {}
      <4>1. s \ {Some(s)} \in Small(n) /\ s \ {Some(s)} \in Small(n + 1) /\ F[Some(s)] \in Nat
        BY <2>2, <2>3, <3>2
      <4>2. h[s \ {Some(s)}] = g[s \ {Some(s)}] /\ g[s \ {Some(s)}] \in Nat
        BY <2>1, <4>1
      <4>3. h[s] = F[Some(s)] + g[s \ {Some(s)}]
        BY <2>1, <3>2
      <4> HIDE DEF h
      <4> QED
        BY <3>2, <4>1, <4>2, <4>3
    <3> QED
      BY <3>1, <3>2
  <2>6. h \in [Small(n + 1) -> Nat]
    BY <2>5
  <2> HIDE DEF h
  <2> QED
    BY <2>5, <2>6
<1>4. Bad = {}
  <2> HIDE DEF Good
  <2> SUFFICES ASSUME Bad # {} PROVE FALSE
    OBVIOUS
  <2>1. Bad \subseteq Nat
    OBVIOUS
  <2>2. PICK n \in Bad : \A m \in Bad : n <= m
    <3> HIDE DEF Bad
    <3> QED
      BY <2>1, LeastNatural
  <2>3. n \in Nat /\ n # 0 /\ ~Good(n)
    BY <1>2, <2>2
  <2>4. n - 1 \in Nat /\ ~(n <= n - 1) /\ (n - 1) + 1 = n
    BY <2>3
  <2>5. Good(n - 1)
    BY <2>2, <2>4
  <2>6. Good((n - 1) + 1)
    BY <1>3, <2>4, <2>5
  <2> QED
    BY <2>3, <2>4, <2>6
<1>5. Cardinality(S) \in Nat /\ Small(Cardinality(S)) = SUBSET S
  BY SubsetSizes
<1>6. PICK g \in [SUBSET S -> Nat] : \A s \in SUBSET S : g[s] = Term(g, s)
  <2>1. Good(Cardinality(S))
    BY <1>4, <1>5
  <2> HIDE DEF Small
  <2> QED
    BY <1>5, <2>1
<1>7. g = [s \in SUBSET S |-> Term(g, s)]
  BY <1>6
<1> QED
  BY <1>7 DEF SumStep

\* It is a number, and nought only if all values are.
LEMMA SumIs ==
  ASSUME NEW S, IsFiniteSet(S), NEW F, \A x \in S : F[x] \in Nat,
         NEW sum, sum = SumStep(F, S, sum)
  PROVE  sum[S] \in Nat /\ (sum[S] = 0 <=> \A x \in S : F[x] = 0)
PROOF
<1> DEFINE Right(s) == sum[s] \in Nat /\ (sum[s] = 0 <=> \A x \in s : F[x] = 0)
           Wrong == {s \in SUBSET S : ~Right(s)}
           Sizes == {Cardinality(s) : s \in Wrong}
<1>1. \A s \in SUBSET S :
        /\ Cardinality(s) \in Nat /\ (Cardinality(s) = 0 <=> s = {})
        /\ s # {} => /\ Some(s) \in s /\ s \ {Some(s)} \in SUBSET S
                     /\ Cardinality(s \ {Some(s)}) = Cardinality(s) - 1
  BY SubsetSizes
<1>2. \A s \in SUBSET S : sum[s] = IF s = {} THEN 0 ELSE F[Some(s)] + sum[s \ {Some(s)}]
  BY DEF SumStep
<1>3. ASSUME NEW s \in SUBSET S, s # {}, Right(s \ {Some(s)}) PROVE Right(s)
  <2> DEFINE x == Some(s)
             t == s \ {Some(s)}
  <2>1. x \in s /\ F[x] \in Nat /\ sum[s] = F[x] + sum[t]
    BY <1>1, <1>2, <1>3
  <2>2. sum[t] \in Nat /\ (sum[t] = 0 <=> \A y \in t : F[y] = 0)
    BY <1>3
  <2>3. (\A y \in s : F[y] = 0) <=> F[x] = 0 /\ \A y \in t : F[y] = 0
    BY <2>1
  <2> HIDE DEF x, t
  <2>4. sum[s] \in Nat /\ (sum[s] = 0 <=> F[x] = 0 /\ sum[t] = 0)
    BY <2>1, <2>2
  <2> QED
    BY <2>2, <2>3, <2>4
<1>4. Wrong = {}
  <2> SUFFICES ASSUME Wrong # {} PROVE FALSE
    OBVIOUS
  <2>1. Sizes \subseteq Nat /\ Sizes # {}
    <3>1. \A s \in Wrong : Cardinality(s) \in Nat
      BY <1>1
    <3> HIDE DEF Wrong
    <3> QED
      BY <3>1
  <2>2. PICK s \in Wrong : \A t \in Wrong : Cardinality(s) <= Cardinality(t)
    <3> HIDE DEF Wrong
    <3>1. PICK n \in Sizes : \A m \in Sizes : n <= m
      BY <2>1, LeastNatural
    <3> QED
      BY <3>1
  <2>3. s # {}
    BY <1>2, <2>2
  <2>4. Cardinality(s) \in Nat /\ ~(Cardinality(s) <= Cardinality(s \ {Some(s)}))
    <3>1. s \in SUBSET S
      OBVIOUS
    <3>2. Cardinality(s) \in Nat /\ Cardinality(s \ {Some(s)}) = Cardinality(s) - 1
      BY <1>1, <2>3, <3>1
    <3> QED
      BY <3>2
  <2>5. s \ {Some(s)} \notin Wrong
    BY <2>2, <2>4
  <2> HIDE DEF Right
  <2> QED
    BY <1>1, <1>3, <2>2, <2>3, <2>5
<1>5. Right(S)
  BY <1>4
<1> QED
  BY <1>5

-----------------------------------------------------------------------------
(* The shot.                                                               *)

\* What the assumptions say of the shot that is planned.
LEMMA ShotFacts ==
  ASSUME shot \in Shot
  PROVE  /\ Count \in Nat \ {0} /\ Frame = 1 .. Count /\ Later \subseteq Frame
         /\ shot.seed \in [Frame -> Nat]
         /\ shot.time \in [Frame -> Nat]
         /\ shot.sampled \in [Frame -> BOOLEAN] /\ shot.limited \in [Frame -> BOOLEAN]
         /\ \A k \in Frame : SeedFrame(shot, k)
         /\ \A k \in Later : Time(k) \in Nat /\ Time(k - 1) \in Nat /\ Time(k - 1) < Time(k)
PROOF
<1>1. shot.seed \in Seq(Nat) /\ Len(shot.seed) >= 1
  BY CameraAssumption
<1>2. Count \in Nat \ {0} /\ Frame = 1 .. Count /\ shot.seed \in [Frame -> Nat]
  BY <1>1 DEF Count, Frame
<1>3. /\ shot.time \in [Frame -> Nat]
      /\ shot.sampled \in [Frame -> BOOLEAN] /\ shot.limited \in [Frame -> BOOLEAN]
      /\ \A k \in Frame : SeedFrame(shot, k)
      /\ \A k \in 2 .. Len(shot.seed) : shot.time[k - 1] < shot.time[k]
  BY CameraAssumption DEF Frame
<1>4. \A k \in Later : k \in Frame /\ k - 1 \in Frame
  BY <1>2 DEF Later
<1> QED
  BY <1>2, <1>3, <1>4 DEF Later, Count, Time

\* Sets of frames are finite.
LEMMA FrameSets ==
  ASSUME shot \in Shot, NEW S, S \subseteq Frame
  PROVE  IsFiniteSet(S) /\ Cardinality(S) \in Nat /\ (Cardinality(S) > 0 <=> S # {})
PROOF
<1>1. IsFiniteSet(Frame)
  <2>1. Count \in Int /\ 1 \in Int /\ Frame = 1 .. Count
    BY ShotFacts
  <2>2. IsFiniteSet(1 .. Count)
    BY <2>1, FS_Interval
  <2> QED
    BY <2>1, <2>2
<1>2. IsFiniteSet(S)
  BY <1>1, FS_Subset
<1>3. Cardinality(S) \in Nat
  BY <1>2, FS_CardinalityType
<1>4. Cardinality(S) = 0 <=> S = {}
  BY <1>2, FS_EmptySet
<1> QED
  BY <1>2, <1>3, <1>4

\* The half of a crop, and what LegalCentres says of a centre.
LEMMA HalfExtent ==
  ASSUME shot \in Shot, NEW k \in Frame
  PROVE  /\ Extent(k) \div 2 \in Nat /\ 2 * (Extent(k) \div 2) = Extent(k)
         /\ Extent(k) \in 2 .. Side
PROOF
<1>1. Extent(k) % 2 = 0 /\ Extent(k) \in 2 .. Side /\ Side \in Nat
  BY ShotFacts, CameraAssumption DEF SeedFrame, Extent
<1> QED
  BY <1>1

\* The legal centres, as bounds of integers.
LEMMA LegalIs ==
  ASSUME shot \in Shot, NEW k \in Frame, NEW c \in Int
  PROVE  LET half == Extent(k) \div 2
         IN  c \in LegalCentres(k) <=>
               /\ half <= c /\ c <= Side - half
               /\ Binding(k) => c - half <= shot.box[k].near /\ shot.box[k].far <= c + half
PROOF
<1> DEFINE half == Extent(k) \div 2
<1>1. half \in Nat /\ Side \in Nat
  BY HalfExtent, CameraAssumption
<1>2. CASE Binding(k)
  <2> DEFINE near == shot.box[k].near
             far == shot.box[k].far
  <2>1. near \in Nat /\ far \in Nat
    BY <1>2, ShotFacts, CameraAssumption DEF Binding, SeedFrame
  <2>2. LegalCentres(k) = Max({half, far - half}) .. Min({Side - half, near + half})
    BY <1>2 DEF LegalCentres
  <2> HIDE DEF half, near, far
  <2>3. /\ Max({half, far - half}) = IF half >= far - half THEN half ELSE far - half
        /\ Min({Side - half, near + half}) = IF Side - half <= near + half THEN Side - half ELSE near + half
    BY <1>1, <2>1, MaxOfTwo, MinOfTwo
  <2>4. c \in LegalCentres(k) <=> half <= c /\ c <= Side - half /\ c - half <= near /\ far <= c + half
    BY <1>1, <2>1, <2>2, <2>3
  <2> QED
    BY <1>2, <2>4 DEF half, near, far
<1>3. CASE ~Binding(k)
  <2>1. LegalCentres(k) = half .. Side - half
    BY <1>3 DEF LegalCentres
  <2> HIDE DEF half
  <2>2. c \in LegalCentres(k) <=> half <= c /\ c <= Side - half
    BY <1>1, <2>1
  <2> QED
    BY <1>3, <2>2 DEF half
<1> QED
  BY <1>2, <1>3

\* The paths the programs choose from are those that show the sampled athlete.
Showing ==
  {p \in [Frame -> 0 .. Side] : \A k \in Frame : InSource(p, k) /\ (Binding(k) => Holds(p, k))}

\* The legal paths are the ones in the source that show every box that binds.
LEMMA LegalShows ==
  ASSUME shot \in Shot
  PROVE  LegalPaths = Showing
PROOF
<1>1. \A k \in Frame, c \in Int : c \in LegalCentres(k) =>  c \in 0 .. Side
  <2> SUFFICES ASSUME NEW k \in Frame, NEW c \in Int, c \in LegalCentres(k) PROVE c \in 0 .. Side
    OBVIOUS
  <2>1. Extent(k) \div 2 <= c /\ c <= Side - Extent(k) \div 2
    BY LegalIs
  <2> QED
    BY <2>1, HalfExtent, CameraAssumption
<1>2. \A k \in Frame : LegalCentres(k) \subseteq Int
  BY DEF LegalCentres
<1>3. ASSUME NEW p, NEW k \in Frame, p[k] \in Int
      PROVE  p[k] \in LegalCentres(k) <=> InSource(p, k) /\ (Binding(k) => Holds(p, k))
  <2>1. InSource(p, k) <=> Extent(k) \div 2 <= p[k] /\ p[k] <= Side - Extent(k) \div 2
    BY <1>3, HalfExtent, CameraAssumption DEF InSource
  <2> QED
    BY <1>3, <2>1, LegalIs DEF Holds
<1>4. ASSUME NEW p \in LegalPaths PROVE p \in Showing
  <2>1. p \in [Frame -> UNION {LegalCentres(k) : k \in Frame}] /\ \A k \in Frame : p[k] \in LegalCentres(k)
    BY <1>4 DEF LegalPaths
  <2>2. \A k \in Frame : p[k] \in Int /\ p[k] \in 0 .. Side
    BY <1>1, <1>2, <2>1
  <2>3. p \in [Frame -> 0 .. Side]
    BY <2>1, <2>2
  <2> QED
    BY <1>3, <2>1, <2>2, <2>3 DEF Showing
<1>5. ASSUME NEW p \in Showing PROVE p \in LegalPaths
  <2>1. p \in [Frame -> 0 .. Side] /\ \A k \in Frame : p[k] \in Int
    BY <1>5 DEF Showing
  <2>2. \A k \in Frame : p[k] \in LegalCentres(k)
    BY <1>3, <1>5, <2>1 DEF Showing
  <2>3. p \in [Frame -> UNION {LegalCentres(k) : k \in Frame}]
    BY <2>1, <2>2
  <2> QED
    BY <2>2, <2>3 DEF LegalPaths
<1> QED
  BY <1>4, <1>5

-----------------------------------------------------------------------------
(* Its motion.                                                             *)

\* A magnitude is a natural number, and that of nought only is nought.
LEMMA MagnitudeIs ==
  ASSUME NEW n \in Int
  PROVE  Magnitude(n) \in Nat /\ (Magnitude(n) = 0 <=> n = 0) /\ Magnitude(-n) = Magnitude(n)
PROOF
  BY DEF Magnitude

\* An excess is nought up to the limit and the distance beyond it.
LEMMA ExcessIs ==
  ASSUME NEW n \in Int, NEW limit \in Int
  PROVE  Excess(n, limit) = IF n > limit THEN n - limit ELSE 0
PROOF
<1>1. n - limit \in Int
  OBVIOUS
<1>2. Excess(n, limit) = IF 0 >= n - limit THEN 0 ELSE n - limit
  BY <1>1, MaxOfTwo DEF Excess
<1> QED
  BY <1>2

\* An excess is a natural number.
LEMMA ExcessType ==
  \A n, limit \in Nat : Excess(n, limit) \in Nat /\ (Excess(n, limit) > 0 <=> n > limit)
PROOF
<1> SUFFICES ASSUME NEW n \in Nat, NEW limit \in Nat
             PROVE  Excess(n, limit) \in Nat /\ (Excess(n, limit) > 0 <=> n > limit)
  OBVIOUS
<1>1. n \in Int /\ limit \in Int
  OBVIOUS
<1>2. Excess(n, limit) = IF n > limit THEN n - limit ELSE 0
  BY <1>1, ExcessIs
<1> QED
  BY <1>2

\* The quotient of integers by a positive number.
LEMMA Quotient ==
  ASSUME NEW n \in Int, NEW d \in Nat \ {0}
  PROVE  n \div d \in Int /\ (n >= 0 => n \div d \in Nat)
PROOF
  OBVIOUS

\* Velocities and accelerations of a path are numbers.
LEMMA MotionTypes ==
  ASSUME shot \in Shot, NEW p \in [Frame -> Int]
  PROVE  /\ \A k \in Later : Span(k) \in Nat \ {0}
         /\ \A k \in Later : Velocity(p, k) \in Int
         /\ Count > 1 => \A k \in Frame : Change(p, k) \in Int /\ DoubleTime(k) \in Nat \ {0}
                                          /\ Acceleration(p, k) \in Nat
PROOF
<1>1. \A k \in Later : Span(k) \in Nat \ {0}
  BY ShotFacts DEF Span
<1>2. \A k \in Later : k \in Frame /\ k - 1 \in Frame
  BY ShotFacts DEF Later
<1>3. ASSUME NEW k \in Later PROVE Velocity(p, k) \in Int
  <2>1. p[k] \in Int /\ p[k - 1] \in Int /\ MotionUnit \in Nat
    BY <1>2, CameraAssumption
  <2>2. MotionUnit * (p[k] - p[k - 1]) \in Int
    BY <2>1
  <2> QED
    BY <1>1, <2>2, Quotient DEF Velocity
<1>4. ASSUME Count > 1, NEW k \in Frame
      PROVE  Change(p, k) \in Int /\ DoubleTime(k) \in Nat \ {0} /\ Acceleration(p, k) \in Nat
  <2>1. /\ k = 1 => 2 \in Later
        /\ k # 1 => k \in Later
        /\ k # Count => k + 1 \in Later
    BY <1>4, ShotFacts DEF Later
  <2>2. Change(p, k) \in Int
    BY <1>3, <2>1 DEF Change
  <2>3. DoubleTime(k) \in Nat \ {0}
    BY <1>1, <2>1 DEF DoubleTime
  <2>4. 2 * Magnitude(Change(p, k)) \in Nat
    BY <2>2, MagnitudeIs
  <2>5. Acceleration(p, k) \in Nat
    <3> HIDE DEF Change
    <3>1. \A m \in Nat, d \in Nat \ {0} : m \div d \in Nat
      BY Quotient
    <3> QED
      BY <2>3, <2>4, <3>1 DEF Acceleration
  <2> QED
    BY <2>2, <2>3, <2>5
<1> QED
  BY <1>1, <1>3, <1>4

\* The excesses of a path are those of its worst frame.
LEMMA SpeedExcessIs ==
  ASSUME shot \in Shot, NEW p \in [Frame -> Int], Count > 1
  PROVE  /\ SpeedExcess(p) \in Nat
         /\ MotionUnit * MaxSpeed \in Nat
         /\ \A k \in Later : Excess(Magnitude(Velocity(p, k)), MotionUnit * MaxSpeed) \in Nat
         /\ \A k \in Later : Excess(Magnitude(Velocity(p, k)), MotionUnit * MaxSpeed) <= SpeedExcess(p)
         /\ \E k \in Later : SpeedExcess(p) = Excess(Magnitude(Velocity(p, k)), MotionUnit * MaxSpeed)
PROOF
<1> DEFINE f == [k \in Later |-> Excess(Magnitude(Velocity(p, k)), MotionUnit * MaxSpeed)]
<1>1. MotionUnit * MaxSpeed \in Nat
  BY CameraAssumption
<1>2. \A k \in Later : Excess(Magnitude(Velocity(p, k)), MotionUnit * MaxSpeed) \in Nat
  <2> SUFFICES ASSUME NEW k \in Later PROVE Excess(Magnitude(Velocity(p, k)), MotionUnit * MaxSpeed) \in Nat
    OBVIOUS
  <2>1. Magnitude(Velocity(p, k)) \in Nat
    BY MotionTypes, MagnitudeIs
  <2> QED
    BY <1>1, <2>1, ExcessType
<1>3. \A k \in Later : f[k] \in Nat /\ f[k] \in Int
  BY <1>2
<1>4. IsFiniteSet(Later) /\ Later # {}
  <2>1. Count \in Int /\ 2 \in Int /\ 2 \in Later
    BY ShotFacts DEF Later
  <2>2. IsFiniteSet(2 .. Count)
    BY <2>1, FS_Interval
  <2> QED
    BY <2>1, <2>2 DEF Later
<1>5. SpeedExcess(p) = Max({f[k] : k \in Later})
  <2>1. {f[k] : k \in Later} = {Excess(Magnitude(Velocity(p, k)), MotionUnit * MaxSpeed) : k \in Later}
    OBVIOUS
  <2> QED
    BY <2>1 DEF SpeedExcess
<1> HIDE DEF f
<1>6. /\ \E k \in Later : SpeedExcess(p) = f[k]
      /\ \A k \in Later : f[k] <= SpeedExcess(p)
  <2>1. \A k \in Later : f[k] \in Int
    BY <1>3
  <2>2. /\ \E k \in Later : Max({f[j] : j \in Later}) = f[k]
        /\ \A k \in Later : f[k] <= Max({f[j] : j \in Later})
    BY ONLY <1>4, <2>1, MaxOfValues
  <2> QED
    BY <1>5, <2>2
<1> QED
  BY <1>1, <1>2, <1>3, <1>6 DEF f

\* The excess of acceleration of a path is that of one of its frames, and of none more.
LEMMA AccelerationExcessIs ==
  ASSUME shot \in Shot, NEW p \in [Frame -> Int], Count > 1
  PROVE  /\ AccelerationExcess(p) \in Nat
         /\ MotionUnit * MaxAcceleration \in Nat
         /\ \A k \in Frame : Excess(Acceleration(p, k), MotionUnit * MaxAcceleration) \in Nat
         /\ \A k \in Frame : Excess(Acceleration(p, k), MotionUnit * MaxAcceleration) <= AccelerationExcess(p)
         /\ \E k \in Frame : AccelerationExcess(p) = Excess(Acceleration(p, k), MotionUnit * MaxAcceleration)
PROOF
<1> DEFINE f == [k \in Frame |-> Excess(Acceleration(p, k), MotionUnit * MaxAcceleration)]
<1>1. MotionUnit * MaxAcceleration \in Nat
  BY CameraAssumption
<1>2. \A k \in Frame : Excess(Acceleration(p, k), MotionUnit * MaxAcceleration) \in Nat
  <2> SUFFICES ASSUME NEW k \in Frame PROVE Excess(Acceleration(p, k), MotionUnit * MaxAcceleration) \in Nat
    OBVIOUS
  <2>1. Acceleration(p, k) \in Nat
    BY MotionTypes
  <2> QED
    BY <1>1, <2>1, ExcessType
<1>3. \A k \in Frame : f[k] \in Nat /\ f[k] \in Int
  BY <1>2
<1>4. IsFiniteSet(Frame) /\ Frame # {}
  <2>1. Count \in Int /\ 1 \in Int /\ 1 \in Frame /\ Frame = 1 .. Count
    BY ShotFacts
  <2>2. IsFiniteSet(1 .. Count)
    BY <2>1, FS_Interval
  <2> QED
    BY <2>1, <2>2
<1>5. AccelerationExcess(p) = Max({f[k] : k \in Frame})
  <2>1. {f[k] : k \in Frame} = {Excess(Acceleration(p, k), MotionUnit * MaxAcceleration) : k \in Frame}
    OBVIOUS
  <2> QED
    BY <2>1 DEF AccelerationExcess
<1> HIDE DEF f
<1>6. /\ \E k \in Frame : AccelerationExcess(p) = f[k]
      /\ \A k \in Frame : f[k] <= AccelerationExcess(p)
  <2>1. \A k \in Frame : f[k] \in Int
    BY <1>3
  <2>2. /\ \E k \in Frame : Max({f[j] : j \in Frame}) = f[k]
        /\ \A k \in Frame : f[k] <= Max({f[j] : j \in Frame})
    BY ONLY <1>4, <2>1, MaxOfValues
  <2> QED
    BY <1>5, <2>2
<1> QED
  BY <1>1, <1>2, <1>3, <1>6 DEF f

-----------------------------------------------------------------------------
(* The invariant of the six programs.                                      *)

Slowest == {p \in LegalPaths : \A q \in LegalPaths : SpeedExcess(p) <= SpeedExcess(q)}
Smoothest == {p \in Slowest : \A q \in Slowest : AccelerationExcess(p) <= AccelerationExcess(q)}

\* A frame with a fresh box that no crop could show is one that the planner gave up.
Seeded == \A k \in Frame : shot.sampled[k] /\ shot.box[k] # Absent => FitsCrop(k) \/ shot.limited[k]

SolveInv ==
  stage = "solving" =>
    /\ Count > 1 /\ Seeded
    /\ pass = 1 => paths = LegalPaths
    /\ pass = 2 => paths = Slowest
    /\ pass > 2 => paths \subseteq Smoothest

PlanInv ==
  stage \in {"planned", "written"} =>
    /\ Seeded /\ path \in LegalPaths
    /\ Count > 1 => path \in Smoothest

CameraInv ==
  /\ shot \in Shot
  /\ stage \in {"seed", "solving", "planned", "written", "failed"}
  /\ pass \in 1 .. 7
  /\ paths \subseteq LegalPaths /\ path \in LegalPaths \union {Absent}
  /\ stage = "seed" => pass = 1
  /\ SolveInv /\ PlanInv

\* What is measured of a shot stays the same while the shot does.
LEMMA SameShot ==
  ASSUME shot' = shot
  PROVE  /\ Frame' = Frame /\ Count' = Count
         /\ LegalPaths' = LegalPaths /\ Slowest' = Slowest /\ Smoothest' = Smoothest
         /\ Seeded' = Seeded
PROOF
<1>1. Frame' = Frame /\ Count' = Count /\ Later' = Later
  BY DEF Frame, Count, Later
<1>2. \A k : /\ Extent(k)' = Extent(k) /\ Span(k)' = Span(k)
            /\ FitsCrop(k)' = FitsCrop(k) /\ Binding(k)' = Binding(k)
  BY DEF Extent, Span, Time, FitsCrop, Binding
<1>3. \A k : LegalCentres(k)' = LegalCentres(k)
  BY <1>2 DEF LegalCentres
<1>4. LegalPaths' = LegalPaths
  BY <1>1, <1>3 DEF LegalPaths
<1>5. \A p, k : Velocity(p, k)' = Velocity(p, k)
  BY <1>2 DEF Velocity
<1>6. \A p, k : Acceleration(p, k)' = Acceleration(p, k)
  BY <1>1, <1>2, <1>5 DEF Acceleration, Change, DoubleTime
<1>7. \A p : SpeedExcess(p)' = SpeedExcess(p)
  BY <1>1, <1>5 DEF SpeedExcess
<1>8. \A p : AccelerationExcess(p)' = AccelerationExcess(p)
  BY <1>1, <1>6 DEF AccelerationExcess
<1>9. Slowest' = Slowest
  BY <1>4, <1>7 DEF Slowest
<1>10. Smoothest' = Smoothest
  BY <1>9, <1>8 DEF Smoothest
<1>11. Seeded' = Seeded
  BY <1>1, <1>2 DEF Seeded
<1> QED
  BY <1>1, <1>4, <1>9, <1>10, <1>11

\* Legal paths are paths of pixels of the source.
LEMMA LegalTypes ==
  ASSUME shot \in Shot
  PROVE  \A p \in LegalPaths : p \in [Frame -> Int] /\ p \in [Frame -> 0 .. Side]
PROOF
  BY LegalShows DEF Showing

\* The first program keeps the slowest paths, the second one the smoothest of them.
LEMMA FirstPass ==
  ASSUME CameraInv, SolvePass, pass = 1
  PROVE  paths' = Slowest
PROOF
<1> DEFINE f == [p \in LegalPaths |-> SpeedExcess(p)]
<1>1. shot \in Shot /\ Count > 1 /\ paths = LegalPaths
  BY DEF CameraInv, SolveInv, SolvePass
<1>2. \A p \in LegalPaths : f[p] \in Nat
  BY <1>1, LegalTypes, SpeedExcessIs
<1>3. paths' = {p \in LegalPaths : SpeedExcess(p) = Min({SpeedExcess(q) : q \in LegalPaths})}
  BY <1>1 DEF SolvePass, Cheapest, Objective
<1>4. {SpeedExcess(q) : q \in LegalPaths} = {f[q] : q \in LegalPaths}
  OBVIOUS
<1>5. \A p \in LegalPaths : SpeedExcess(p) = f[p]
  OBVIOUS
<1> HIDE DEF f
<1>6. \A p \in LegalPaths : f[p] = Min({f[q] : q \in LegalPaths}) <=> \A q \in LegalPaths : f[p] <= f[q]
  BY ONLY <1>2, LeastCost
<1>7. paths' = {p \in LegalPaths : f[p] = Min({f[q] : q \in LegalPaths})}
  BY <1>3, <1>4, <1>5
<1>8. paths' = {p \in LegalPaths : \A q \in LegalPaths : f[p] <= f[q]}
  BY <1>6, <1>7
<1> QED
  BY <1>5, <1>8 DEF Slowest

\* The second program leaves the smoothest of the slowest paths.
LEMMA SecondPass ==
  ASSUME CameraInv, SolvePass, pass = 2
  PROVE  paths' = Smoothest
PROOF
<1> DEFINE f == [p \in Slowest |-> AccelerationExcess(p)]
<1>1. shot \in Shot /\ Count > 1 /\ paths = Slowest
  BY DEF CameraInv, SolveInv, SolvePass
<1>2. \A p \in Slowest : f[p] \in Nat
  BY <1>1, LegalTypes, AccelerationExcessIs DEF Slowest
<1>3. paths' = {p \in Slowest : AccelerationExcess(p) = Min({AccelerationExcess(q) : q \in Slowest})}
  BY <1>1 DEF SolvePass, Cheapest, Objective
<1>4. {AccelerationExcess(q) : q \in Slowest} = {f[q] : q \in Slowest}
  OBVIOUS
<1>5. \A p \in Slowest : AccelerationExcess(p) = f[p]
  OBVIOUS
<1> HIDE DEF f
<1>6. \A p \in Slowest : f[p] = Min({f[q] : q \in Slowest}) <=> \A q \in Slowest : f[p] <= f[q]
  BY ONLY <1>2, LeastCost
<1>7. paths' = {p \in Slowest : f[p] = Min({f[q] : q \in Slowest})}
  BY <1>3, <1>4, <1>5
<1>8. paths' = {p \in Slowest : \A q \in Slowest : f[p] <= f[q]}
  BY <1>6, <1>7
<1> QED
  BY <1>5, <1>8 DEF Smoothest

\* A program keeps what the ones before it reached.
LEMMA SolvePassKeeps == CameraInv /\ SolvePass => CameraInv'
PROOF
<1> SUFFICES ASSUME CameraInv, SolvePass PROVE CameraInv'
  OBVIOUS
<1>1. /\ shot \in Shot /\ Count > 1 /\ Seeded /\ paths \subseteq LegalPaths
      /\ pass = 1 => paths = LegalPaths
      /\ pass = 2 => paths = Slowest
      /\ pass > 2 => paths \subseteq Smoothest
  BY DEF CameraInv, SolveInv, SolvePass
<1>2. /\ shot' = shot /\ stage' = stage /\ stage = "solving" /\ path' = path
      /\ pass' = pass + 1 /\ pass \in 1 .. 6
  BY DEF CameraInv, SolvePass
<1>3. /\ Count' = Count /\ LegalPaths' = LegalPaths /\ Slowest' = Slowest /\ Smoothest' = Smoothest
      /\ Seeded' = Seeded
  BY <1>2, SameShot
<1>4. paths' \subseteq paths
  BY DEF SolvePass, Cheapest
<1>5. /\ pass' = 2 => paths' = Slowest
      /\ pass' > 2 => paths' \subseteq Smoothest
  <2>1. CASE pass = 1
    BY <1>2, <2>1, FirstPass
  <2>2. CASE pass = 2
    BY <1>2, <2>2, SecondPass
  <2>3. CASE pass > 2
    BY <1>1, <1>2, <1>4, <2>3
  <2> QED
    BY <1>2, <2>1, <2>2, <2>3
<1>6. SolveInv'
  BY <1>1, <1>2, <1>3, <1>5 DEF SolveInv
<1>7. PlanInv'
  BY <1>2 DEF PlanInv
<1> QED
  BY <1>1, <1>2, <1>3, <1>4, <1>6, <1>7 DEF CameraInv

\* The first program starts with every legal path.
LEMMA SeedKeeps == CameraInv /\ Seed => CameraInv'
PROOF
<1> SUFFICES ASSUME CameraInv, Seed PROVE CameraInv'
  OBVIOUS
<1> DEFINE good == /\ Seeded /\ \A k \in Frame : LegalCentres(k) # {}
                   /\ Count = 1 => shot.seed[1] \in LegalCentres(1)
<1>1. shot' = shot /\ pass' = pass /\ pass = 1 /\ shot \in Shot
  BY DEF CameraInv, Seed
<1>2. /\ stage' = IF ~good THEN "failed" ELSE IF Count = 1 THEN "planned" ELSE "solving"
      /\ path' = IF good /\ Count = 1 THEN shot.seed ELSE Absent
      /\ paths' = IF good /\ Count > 1 THEN LegalPaths ELSE {}
  BY DEF Seed, Seeded
<1>3. /\ Count' = Count /\ LegalPaths' = LegalPaths /\ Slowest' = Slowest /\ Smoothest' = Smoothest
      /\ Seeded' = Seeded
  BY <1>1, SameShot
<1>4. Count \in Nat \ {0} /\ Frame = 1 .. Count /\ shot.seed \in [Frame -> Nat]
  BY <1>1, ShotFacts
<1>5. ASSUME good, Count = 1 PROVE shot.seed \in LegalPaths
  <2>1. \A k \in Frame : shot.seed[k] \in LegalCentres(k)
    BY <1>4, <1>5
  <2>2. shot.seed \in [Frame -> UNION {LegalCentres(k) : k \in Frame}]
    BY <1>4, <2>1
  <2> QED
    BY <2>1, <2>2 DEF LegalPaths
<1>6. /\ paths' \subseteq LegalPaths /\ path' \in LegalPaths \union {Absent}
      /\ stage' \in {"solving", "planned", "failed"}
  BY <1>2, <1>5
<1>7. SolveInv'
  BY <1>1, <1>2, <1>3, <1>4 DEF SolveInv
<1>8. PlanInv'
  BY <1>1, <1>2, <1>3, <1>4, <1>5 DEF PlanInv
<1> QED
  BY <1>1, <1>3, <1>6, <1>7, <1>8 DEF CameraInv

\* A path that is chosen is an optimum.
LEMMA ChooseKeeps == CameraInv /\ Choose => CameraInv'
PROOF
<1> SUFFICES ASSUME CameraInv, Choose PROVE CameraInv'
  OBVIOUS
<1>1. shot' = shot /\ pass' = pass /\ stage' = "planned" /\ paths' = {}
  BY DEF Choose
<1>2. shot \in Shot /\ Count > 1 /\ Seeded /\ paths \subseteq Smoothest /\ pass \in 1 .. 7
  BY DEF CameraInv, SolveInv, Choose
<1>3. path' \in Smoothest /\ path' \in LegalPaths
  BY <1>2 DEF Choose, CameraInv
<1>4. LegalPaths' = LegalPaths /\ Smoothest' = Smoothest /\ Seeded' = Seeded
  BY <1>1, SameShot
<1> QED
  BY <1>1, <1>2, <1>3, <1>4 DEF CameraInv, SolveInv, PlanInv

\* Giving up and writing change neither paths nor path.
LEMMA OtherCameraKeeps == CameraInv /\ (SolverFails \/ Write \/ UNCHANGED cameraVars) => CameraInv'
PROOF
<1> SUFFICES ASSUME CameraInv, SolverFails \/ Write \/ UNCHANGED cameraVars PROVE CameraInv'
  OBVIOUS
<1>1. shot' = shot /\ pass' = pass /\ path' = path
  BY DEF SolverFails, Write, cameraVars
<1>2. /\ Count' = Count /\ LegalPaths' = LegalPaths /\ Slowest' = Slowest /\ Smoothest' = Smoothest
      /\ Seeded' = Seeded
  BY <1>1, SameShot
<1>3. CASE SolverFails
  BY <1>1, <1>2, <1>3 DEF SolverFails, CameraInv, SolveInv, PlanInv
<1>4. CASE Write
  BY <1>1, <1>2, <1>4 DEF Write, CameraInv, SolveInv, PlanInv
<1>5. CASE UNCHANGED cameraVars
  BY <1>1, <1>2, <1>5 DEF cameraVars, CameraInv, SolveInv, PlanInv
<1> QED
  BY <1>3, <1>4, <1>5

\* A step of the camera.
LEMMA CameraKeeps == CameraInv /\ [CameraNext]_cameraVars => CameraInv'
PROOF
  BY SeedKeeps, SolvePassKeeps, ChooseKeeps, OtherCameraKeeps DEF CameraNext

-----------------------------------------------------------------------------
(* A camera that may stay where it is does so.                             *)

Staying(c) == [j \in Frame |-> c]
Steady(p) == \A k \in Later : p[k] = p[k - 1]

\* Wherever the camera may stay, staying there is among the best paths until travel has
\* been minimised, and from then on every path stays somewhere.
RestInv ==
  \A c \in 0 .. Side : Post(c) =>
    /\ stage = "solving" /\ pass <= 4 => Staying(c) \in paths
    /\ stage = "solving" /\ pass > 4 => \A p \in paths : Steady(p)
    /\ stage \in {"planned", "written"} /\ Count > 1 => Steady(path)

\* A camera that never moves from a frame to the next is in one place.
LEMMA SteadyIsConstant ==
  ASSUME shot \in Shot, NEW p, Steady(p)
  PROVE  \A j, k \in Frame : p[j] = p[k]
PROOF
<1> DEFINE Turned == {k \in Frame : p[k] # p[1]}
<1>1. Count \in Nat /\ Frame = 1 .. Count /\ Later = 2 .. Count
  BY ShotFacts DEF Later
<1>2. Turned = {}
  <2> SUFFICES ASSUME Turned # {} PROVE FALSE
    OBVIOUS
  <2>1. Turned \subseteq Nat
    BY <1>1
  <2>2. PICK n \in Turned : \A m \in Turned : n <= m
    <3> HIDE DEF Turned
    <3> QED
      BY <2>1, LeastNatural
  <2>3. n \in Frame /\ n # 1 /\ p[n] # p[1]
    OBVIOUS
  <2>4. n \in Later /\ n - 1 \in Frame /\ ~(n <= n - 1)
    BY <1>1, <2>3
  <2>5. p[n] = p[n - 1]
    BY <2>4 DEF Steady
  <2>6. n - 1 \in Turned
    BY <2>3, <2>4, <2>5
  <2> QED
    BY <2>2, <2>4, <2>6
<1>3. \A k \in Frame : p[k] = p[1]
  BY <1>2
<1> QED
  BY <1>3

\* Two of the objectives are sums that are nought only if all their terms are.
LEMMA TravelIs ==
  ASSUME shot \in Shot, NEW p \in [Frame -> Int]
  PROVE  Travel(p) \in Nat /\ (Travel(p) = 0 <=> Steady(p))
PROOF
<1> DEFINE F == [k \in Later |-> Magnitude(p[k] - p[k - 1])]
           Step(sum) == [s \in SUBSET Later |->
                           IF s = {} THEN 0
                           ELSE Magnitude(p[Some(s)] - p[Some(s) - 1]) + sum[s \ {Some(s)}]]
           total == CHOOSE sum : sum = Step(sum)
<1>1. \A k \in Later : p[k] \in Int /\ p[k - 1] \in Int
  BY ShotFacts DEF Later
<1>2. \A k \in Later : F[k] \in Nat /\ (F[k] = 0 <=> p[k] = p[k - 1])
  BY <1>1 DEF Magnitude
<1>3. IsFiniteSet(Later)
  <2>1. Count \in Int /\ 2 \in Int
    BY ShotFacts
  <2>2. IsFiniteSet(2 .. Count)
    BY <2>1, FS_Interval
  <2> QED
    BY <2>2 DEF Later
<1>4. Travel(p) = total[Later]
  BY DEF Travel, Total, MapThenSumSet, MapThenFoldSet, Some
<1>5. \A s \in SUBSET Later : s # {} => Some(s) \in Later
  BY DEF Some
<1>6. \A sum : Step(sum) = SumStep(F, Later, sum)
  BY <1>5 DEF SumStep
<1> HIDE DEF F, Step
<1>7. \E sum : sum = Step(sum)
  BY <1>2, <1>3, <1>6, SumExists
<1>8. total = Step(total)
  BY <1>7
<1> HIDE DEF total
<1>9. total[Later] \in Nat /\ (total[Later] = 0 <=> \A k \in Later : F[k] = 0)
  BY <1>2, <1>3, <1>6, <1>8, SumIs
<1> QED
  BY <1>2, <1>4, <1>9 DEF Steady

\* The third objective is nought when no frame leaves its dead zone.
LEMMA DeadZoneCostIs ==
  ASSUME shot \in Shot, NEW p \in [Frame -> Int], Count > 1
  PROVE  /\ \A k \in Frame : OutsideDeadZone(p, k) \in Nat
         /\ DeadZoneCost(p) \in Nat
         /\ (\A k \in Frame : OutsideDeadZone(p, k) = 0) => DeadZoneCost(p) = 0
PROOF
<1> DEFINE F == [k \in Frame |-> DoubleTime(k) * OutsideDeadZone(p, k)]
           Step(sum) == [s \in SUBSET Frame |->
                           IF s = {} THEN 0
                           ELSE DoubleTime(Some(s)) * OutsideDeadZone(p, Some(s)) + sum[s \ {Some(s)}]]
           total == CHOOSE sum : sum = Step(sum)
<1>1. \A k \in Frame : OutsideDeadZone(p, k) \in Nat
  <2> SUFFICES ASSUME NEW k \in Frame PROVE OutsideDeadZone(p, k) \in Nat
    OBVIOUS
  <2>1. p[k] - shot.seed[k] \in Int
    BY ShotFacts
  <2>2. Deviation(p, k) \in Nat
    BY <2>1, MagnitudeIs DEF Deviation
  <2>3. DeadZone.den \in Nat /\ DeadZone.num \in Nat /\ Extent(k) \in Nat
    BY CameraAssumption, HalfExtent
  <2>4. \A m, n \in Nat : m * n \in Nat
    OBVIOUS
  <2>5. DeadZone.den * Deviation(p, k) \in Nat /\ DeadZone.num * Extent(k) \in Nat
    BY <2>2, <2>3, <2>4
  <2> QED
    BY <2>5, ExcessType DEF OutsideDeadZone
<1>2. \A k \in Frame : F[k] \in Nat /\ (OutsideDeadZone(p, k) = 0 => F[k] = 0)
  <2>1. \A k \in Frame : DoubleTime(k) \in Nat
    BY MotionTypes
  <2>2. \A m, n \in Nat : m * n \in Nat /\ m * 0 = 0
    OBVIOUS
  <2> QED
    BY <1>1, <2>1, <2>2
<1>3. IsFiniteSet(Frame)
  BY FrameSets
<1>4. DeadZoneCost(p) = total[Frame]
  BY DEF DeadZoneCost, Total, MapThenSumSet, MapThenFoldSet, Some
<1>5. \A s \in SUBSET Frame : s # {} => Some(s) \in Frame
  BY DEF Some
<1>6. \A sum : Step(sum) = SumStep(F, Frame, sum)
  BY <1>5 DEF SumStep
<1> HIDE DEF F, Step
<1>7. \E sum : sum = Step(sum)
  BY <1>2, <1>3, <1>6, SumExists
<1>8. total = Step(total)
  BY <1>7
<1> HIDE DEF total
<1>9. total[Frame] \in Nat /\ (total[Frame] = 0 <=> \A k \in Frame : F[k] = 0)
  BY <1>2, <1>3, <1>6, <1>8, SumIs
<1> QED
  BY <1>1, <1>2, <1>4, <1>9

\* The objectives of the first four programs are natural numbers.
LEMMA ObjectiveTypes ==
  ASSUME shot \in Shot, Count > 1, NEW p \in [Frame -> Int]
  PROVE  \A n \in 1 .. 4 : Objective(n, p) \in Nat
PROOF
<1>1. /\ Objective(1, p) = SpeedExcess(p) /\ Objective(2, p) = AccelerationExcess(p)
      /\ Objective(3, p) = DeadZoneCost(p) /\ Objective(4, p) = Travel(p)
  BY DEF Objective
<1>2. Objective(1, p) \in Nat
  BY <1>1, SpeedExcessIs
<1>3. Objective(2, p) \in Nat
  BY <1>1, AccelerationExcessIs
<1>4. Objective(3, p) \in Nat
  BY <1>1, DeadZoneCostIs
<1>5. Objective(4, p) \in Nat
  BY <1>1, TravelIs
<1>6. \A n \in 1 .. 4 : n = 1 \/ n = 2 \/ n = 3 \/ n = 4
  OBVIOUS
<1> QED
  BY <1>2, <1>3, <1>4, <1>5, <1>6

\* A camera that stays at a post moves by no measure.
LEMMA StillFacts ==
  ASSUME shot \in Shot, Count > 1, NEW c \in 0 .. Side, Post(c)
  PROVE  Staying(c) \in LegalPaths /\ \A n \in 1 .. 4 : Objective(n, Staying(c)) = 0
PROOF
<1> DEFINE p == Staying(c)
<1>1. p \in [Frame -> 0 .. Side] /\ p \in [Frame -> Int]
  BY CameraAssumption DEF Staying
<1>2. \A k \in Frame : InSource(p, k) /\ (Binding(k) => Holds(p, k)) /\ OutsideDeadZone(p, k) = 0
  BY DEF Post, Staying
<1>3. p \in LegalPaths
  BY <1>1, <1>2, LegalShows DEF Showing
<1>4. \A k \in Later : p[k] = c /\ p[k - 1] = c
  BY ShotFacts DEF Staying, Later
<1> HIDE DEF p
<1>5. \A d \in Nat \ {0} : 0 \div d = 0
  OBVIOUS
<1>6. \A k \in Later : Velocity(p, k) = 0
  <2> SUFFICES ASSUME NEW k \in Later PROVE Velocity(p, k) = 0
    OBVIOUS
  <2>1. c - c = 0 /\ MotionUnit * 0 = 0
    BY CameraAssumption
  <2>2. MotionUnit * (p[k] - p[k - 1]) = 0
    BY <1>4, <2>1
  <2>3. Span(k) \in Nat \ {0}
    BY <1>1, MotionTypes
  <2> QED
    BY <1>5, <2>2, <2>3 DEF Velocity
<1>7. \A k \in Frame : Acceleration(p, k) = 0
  <2> SUFFICES ASSUME NEW k \in Frame PROVE Acceleration(p, k) = 0
    OBVIOUS
  <2>1. /\ k = 1 => 2 \in Later
        /\ k # 1 => k \in Later
        /\ k # Count => k + 1 \in Later
    BY ShotFacts DEF Later
  <2>2. Change(p, k) = 0
    BY <1>6, <2>1 DEF Change
  <2>3. 2 * Magnitude(Change(p, k)) = 0
    BY <2>2 DEF Magnitude
  <2>4. DoubleTime(k) \in Nat \ {0}
    BY <1>1, MotionTypes
  <2> QED
    BY <1>5, <2>3, <2>4 DEF Acceleration
<1>8. \A limit \in Nat : Excess(0, limit) = 0
  <2> SUFFICES ASSUME NEW limit \in Nat PROVE Excess(0, limit) = 0
    OBVIOUS
  <2>1. 0 \in Nat /\ 0 \in Int /\ limit \in Int /\ ~(0 > limit)
    OBVIOUS
  <2> QED
    BY <2>1, ExcessIs
<1>9. SpeedExcess(p) = 0
  <2>1. \A k \in Later : Magnitude(Velocity(p, k)) = 0
    BY <1>6 DEF Magnitude
  <2>2. \A k \in Later : Excess(Magnitude(Velocity(p, k)), MotionUnit * MaxSpeed) = 0
    BY <1>1, <1>8, <2>1, SpeedExcessIs
  <2> QED
    BY <1>1, <2>2, SpeedExcessIs
<1>10. AccelerationExcess(p) = 0
  <2>1. \A k \in Frame : Excess(Acceleration(p, k), MotionUnit * MaxAcceleration) = 0
    BY <1>1, <1>7, <1>8, AccelerationExcessIs
  <2> QED
    BY <1>1, <2>1, AccelerationExcessIs
<1>11. DeadZoneCost(p) = 0
  BY <1>1, <1>2, DeadZoneCostIs DEF p
<1>12. Travel(p) = 0
  <2>1. Steady(p)
    BY <1>4 DEF Steady
  <2> QED
    BY <1>1, <2>1, TravelIs
<1>13. \A n \in 1 .. 4 : Objective(n, p) = 0
  <2>1. /\ Objective(1, p) = 0 /\ Objective(2, p) = 0
        /\ Objective(3, p) = 0 /\ Objective(4, p) = 0
    BY <1>9, <1>10, <1>11, <1>12 DEF Objective
  <2>2. \A n \in 1 .. 4 : n = 1 \/ n = 2 \/ n = 3 \/ n = 4
    OBVIOUS
  <2> QED
    BY <2>1, <2>2
<1> QED
  BY <1>3, <1>13 DEF p

\* When some path costs nothing, the paths that cost nothing are kept.
LEMMA FreePass ==
  ASSUME CameraInv, SolvePass, pass <= 4, NEW q \in paths, Objective(pass, q) = 0
  PROVE  paths' = {p \in paths : Objective(pass, p) = 0}
PROOF
<1> DEFINE C == {Objective(pass, p) : p \in paths}
<1>1. shot \in Shot /\ Count > 1 /\ paths \subseteq LegalPaths /\ pass \in 1 .. 4
  BY DEF CameraInv, SolveInv, SolvePass
<1>2. \A p \in paths : Objective(pass, p) \in Nat
  BY <1>1, LegalTypes, ObjectiveTypes
<1>3. C \subseteq Int /\ 0 \in C /\ \A m \in C : 0 <= m
  BY <1>2
<1>4. paths' = {p \in paths : Objective(pass, p) = Min(C)}
  BY DEF SolvePass, Cheapest
<1> HIDE DEF C
<1>5. Min(C) = 0
  BY <1>3, MinIs
<1> QED
  BY <1>4, <1>5

\* The places to rest depend on the shot alone.
LEMMA SamePosts ==
  ASSUME shot' = shot
  PROVE  /\ \A c : Post(c)' = Post(c) /\ Staying(c)' = Staying(c)
         /\ \A p : Steady(p)' = Steady(p)
PROOF
<1>1. Frame' = Frame /\ Later' = Later
  BY DEF Frame, Later, Count
<1>2. \A c : Staying(c)' = Staying(c)
  BY <1>1 DEF Staying
<1>3. \A k : Extent(k)' = Extent(k) /\ Binding(k)' = Binding(k)
  BY DEF Extent, Binding, FitsCrop
<1>4. \A p, k : InSource(p, k)' = InSource(p, k) /\ Holds(p, k)' = Holds(p, k)
                /\ OutsideDeadZone(p, k)' = OutsideDeadZone(p, k)
  BY <1>3 DEF InSource, Holds, OutsideDeadZone, Deviation
<1>5. \A c : Post(c)' = Post(c)
  BY <1>1, <1>3, <1>4 DEF Post
<1> QED
  BY <1>1, <1>2, <1>5 DEF Steady

\* A camera that rests survives four programs, and the fourth leaves no other.
LEMMA RestKeeps == CameraInv /\ RestInv /\ [CameraNext]_cameraVars => RestInv'
PROOF
<1> SUFFICES ASSUME CameraInv, RestInv, [CameraNext]_cameraVars,
                    NEW c \in 0 .. Side, Post(c)'
             PROVE  (/\ stage = "solving" /\ pass <= 4 => Staying(c) \in paths
                     /\ stage = "solving" /\ pass > 4 => \A p \in paths : Steady(p)
                     /\ stage \in {"planned", "written"} /\ Count > 1 => Steady(path))'
  BY DEF RestInv
<1>1. shot' = shot /\ shot \in Shot
  BY DEF CameraInv, CameraNext, Seed, SolvePass, SolverFails, Choose, Write, cameraVars
<1>2. /\ Post(c) /\ Staying(c)' = Staying(c) /\ Count' = Count
      /\ \A p : Steady(p)' = Steady(p)
  BY <1>1, SamePosts, SameShot
<1>3. /\ stage = "solving" /\ pass <= 4 => Staying(c) \in paths
      /\ stage = "solving" /\ pass > 4 => \A p \in paths : Steady(p)
      /\ stage \in {"planned", "written"} /\ Count > 1 => Steady(path)
  BY <1>2 DEF RestInv
<1>4. Steady(path)' <=> \A k \in Later : path'[k] = path'[k - 1]
  BY <1>1 DEF Steady, Later, Count
<1>5. CASE Seed
  <2>1. pass' = 1
    BY <1>5 DEF Seed, CameraInv
  <2>2. stage' = "solving" => Count > 1 /\ paths' = LegalPaths
    BY <1>1, <1>5, ShotFacts DEF Seed
  <2>3. stage' = "solving" => Staying(c) \in paths'
    BY <1>1, <1>2, <2>2, StillFacts
  <2>4. stage' \in {"planned", "written"} => Count = 1
    BY <1>5 DEF Seed
  <2> QED
    BY <1>2, <2>1, <2>3, <2>4
<1>6. CASE SolvePass
  <2>1. /\ stage = "solving" /\ stage' = "solving" /\ pass' = pass + 1 /\ pass \in 1 .. 6
        /\ Count > 1 /\ paths \subseteq LegalPaths /\ paths' \subseteq paths
    BY <1>6 DEF SolvePass, CameraInv, SolveInv, Cheapest
  <2>2. CASE pass <= 4
    <3>1. Staying(c) \in paths /\ Objective(pass, Staying(c)) = 0
      BY <1>1, <1>2, <1>3, <2>1, <2>2, StillFacts
    <3>2. paths' = {p \in paths : Objective(pass, p) = 0}
      BY <1>6, <2>2, <3>1, FreePass
    <3>3. pass = 4 => \A p \in paths' : Steady(p)
      <4> SUFFICES ASSUME pass = 4, NEW p \in paths' PROVE Steady(p)
        OBVIOUS
      <4>1. Travel(p) = 0
        BY <3>2 DEF Objective
      <4>2. p \in [Frame -> Int]
        BY <1>1, <2>1, LegalTypes
      <4> QED
        BY <1>1, <4>1, <4>2, TravelIs
    <3> QED
      BY <1>2, <2>1, <2>2, <3>1, <3>2, <3>3
  <2>3. CASE pass > 4
    BY <1>2, <1>3, <2>1, <2>3
  <2> QED
    BY <2>1, <2>2, <2>3
<1>7. CASE Choose
  <2>1. stage = "solving" /\ pass > 4 /\ path' \in paths /\ stage' = "planned"
    BY <1>7 DEF Choose, CameraInv
  <2>2. Steady(path)'
    BY <1>3, <1>4, <2>1 DEF Steady
  <2> QED
    BY <2>1, <2>2
<1>8. CASE SolverFails
  BY <1>8 DEF SolverFails
<1>9. CASE Write \/ UNCHANGED cameraVars
  <2>1. path' = path /\ paths' = paths /\ pass' = pass
    BY <1>9 DEF Write, cameraVars
  <2>2. /\ stage' = "solving" => stage = "solving"
        /\ stage' \in {"planned", "written"} => stage \in {"planned", "written"}
    BY <1>9 DEF Write, cameraVars
  <2>3. Steady(path)' <=> Steady(path)
    BY <1>4, <2>1 DEF Steady
  <2> QED
    BY <1>2, <1>3, <2>1, <2>2, <2>3
<1> QED
  BY <1>5, <1>6, <1>7, <1>8, <1>9 DEF CameraNext

-----------------------------------------------------------------------------
(* What follows from it.                                                   *)

\* The chosen path is one of the smoothest of the slowest.
LEMMA UnavoidableFollows == CameraInv => ExcessIsUnavoidable
PROOF
<1> SUFFICES ASSUME CameraInv, stage = "planned", Count > 1
             PROVE  LET showing == {p \in [Frame -> 0 .. Side] :
                                      \A k \in Frame : InSource(p, k) /\ (Binding(k) => Holds(p, k))}
                    IN  /\ path \in showing
                        /\ \A p \in showing :
                             /\ SpeedExcess(p) >= SpeedExcess(path)
                             /\ SpeedExcess(p) = SpeedExcess(path)
                                  => AccelerationExcess(p) >= AccelerationExcess(path)
  BY DEF ExcessIsUnavoidable
<1>1. shot \in Shot /\ path \in LegalPaths /\ path \in Smoothest
  BY DEF CameraInv, PlanInv
<1>2. LegalPaths = Showing
  BY <1>1, LegalShows
<1>3. \A p \in LegalPaths : SpeedExcess(p) \in Nat /\ AccelerationExcess(p) \in Nat
  BY <1>1, LegalTypes, SpeedExcessIs, AccelerationExcessIs
<1>4. /\ path \in Slowest /\ \A q \in Slowest : AccelerationExcess(path) <= AccelerationExcess(q)
      /\ \A q \in LegalPaths : SpeedExcess(path) <= SpeedExcess(q)
  BY <1>1 DEF Smoothest, Slowest
<1>5. ASSUME NEW p \in LegalPaths
      PROVE  /\ SpeedExcess(p) >= SpeedExcess(path)
             /\ SpeedExcess(p) = SpeedExcess(path) => AccelerationExcess(p) >= AccelerationExcess(path)
  <2>1. SpeedExcess(p) >= SpeedExcess(path)
    BY <1>1, <1>3, <1>4
  <2>2. ASSUME SpeedExcess(p) = SpeedExcess(path) PROVE AccelerationExcess(p) >= AccelerationExcess(path)
    <3>1. p \in Slowest
      BY <1>4, <2>2 DEF Slowest
    <3> QED
      BY <1>1, <1>3, <1>4, <3>1
  <2> QED
    BY <2>1, <2>2
<1> QED
  BY <1>1, <1>2, <1>5 DEF Showing

\* A planned path shows every fresh box that is not one the planner gave up.
LEMMA PlanShows ==
  ASSUME CameraInv, stage \in {"planned", "written"}, NEW k \in Frame,
         shot.sampled[k], shot.box[k] # Absent, ~shot.limited[k]
  PROVE  Holds(path, k)
PROOF
<1>1. shot \in Shot /\ Seeded /\ path \in Showing
  BY LegalShows DEF CameraInv, PlanInv
<1>2. Binding(k)
  BY <1>1 DEF Seeded, Binding
<1> QED
  BY <1>1, <1>2 DEF Showing

\* A limit is exceeded by the worst frame exactly if it is by some frame.
LEMMA SpeedExceeded ==
  ASSUME shot \in Shot, NEW p \in [Frame -> Int], Count > 1
  PROVE  SpeedExcess(p) > 0 <=> \E k \in Later : Magnitude(Velocity(p, k)) > MotionUnit * MaxSpeed
PROOF
<1>1. MotionUnit * MaxSpeed \in Nat /\ \A k \in Later : Magnitude(Velocity(p, k)) \in Nat
  BY SpeedExcessIs, MotionTypes, MagnitudeIs
<1> DEFINE E(k) == Excess(Magnitude(Velocity(p, k)), MotionUnit * MaxSpeed)
<1>2. \A k \in Later : E(k) > 0 <=> Magnitude(Velocity(p, k)) > MotionUnit * MaxSpeed
  BY <1>1, ExcessType
<1>3. /\ SpeedExcess(p) \in Nat
      /\ \A k \in Later : E(k) \in Nat
      /\ \A k \in Later : E(k) <= SpeedExcess(p)
      /\ \E k \in Later : SpeedExcess(p) = E(k)
  BY SpeedExcessIs
<1> HIDE DEF E
<1>4. SpeedExcess(p) > 0 <=> \E k \in Later : E(k) > 0
  BY <1>3
<1> QED
  BY <1>2, <1>4

\* A path exceeds the limit of acceleration when a frame of it does.
LEMMA AccelerationExceeded ==
  ASSUME shot \in Shot, NEW p \in [Frame -> Int], Count > 1
  PROVE  AccelerationExcess(p) > 0 <=> \E k \in Frame : Acceleration(p, k) > MotionUnit * MaxAcceleration
PROOF
<1>1. MotionUnit * MaxAcceleration \in Nat /\ \A k \in Frame : Acceleration(p, k) \in Nat
  BY AccelerationExcessIs, MotionTypes
<1> DEFINE E(k) == Excess(Acceleration(p, k), MotionUnit * MaxAcceleration)
<1>2. \A k \in Frame : E(k) > 0 <=> Acceleration(p, k) > MotionUnit * MaxAcceleration
  BY <1>1, ExcessType
<1>3. /\ AccelerationExcess(p) \in Nat
      /\ \A k \in Frame : E(k) \in Nat
      /\ \A k \in Frame : E(k) <= AccelerationExcess(p)
      /\ \E k \in Frame : AccelerationExcess(p) = E(k)
  BY AccelerationExcessIs
<1> HIDE DEF E
<1>4. AccelerationExcess(p) > 0 <=> \E k \in Frame : E(k) > 0
  BY <1>3
<1> QED
  BY <1>2, <1>4

\* What the report measures of a path are the accelerations of its frames.
LEMMA MeasuresAccelerations ==
  ASSUME shot \in Shot, path \in [Frame -> Int], Count > 1
  PROVE  Measured = {Acceleration(path, k) : k \in Frame}
PROOF
<1> DEFINE V(k) == Velocity(path, k)
           M(k) == (2 * Magnitude(IF k = 2 THEN V(k) ELSE V(k) - V(k - 1)))
                      \div (IF k = 2 THEN Span(k) ELSE Span(k) + Span(k - 1))
           A(k) == Acceleration(path, k)
<1>1. Count \in Nat /\ Frame = 1 .. Count /\ Later = 2 .. Count
  BY ShotFacts DEF Later
<1>2. /\ \A k \in Later : V(k) \in Int /\ Span(k) \in Nat
      /\ \A k \in Later : Magnitude(-V(k)) = Magnitude(V(k))
  BY MotionTypes, MagnitudeIs
<1>3. ASSUME NEW k \in Later PROVE M(k) = A(k - 1)
  <2>1. CASE k = 2
    <3>1. k - 1 = 1
      BY <2>1
    <3> QED
      BY <2>1, <3>1 DEF Acceleration, Change, DoubleTime
  <2>2. CASE k # 2
    <3>1. k - 1 # 1 /\ k - 1 # Count /\ k - 1 + 1 = k /\ k - 1 \in Later
      BY <1>1, <2>2
    <3>2. Change(path, k - 1) = V(k) - V(k - 1) /\ DoubleTime(k - 1) = Span(k - 1) + Span(k)
      BY <3>1 DEF Change, DoubleTime
    <3>3. Span(k - 1) + Span(k) = Span(k) + Span(k - 1)
      BY <1>2, <3>1
    <3> QED
      BY <2>2, <3>2, <3>3 DEF Acceleration
  <2> QED
    BY <2>1, <2>2
<1>4. (2 * Magnitude(V(Count))) \div Span(Count) = A(Count)
  <2>1. Count # 1 /\ Count \in Later
    BY <1>1
  <2> QED
    BY <1>2, <2>1 DEF Acceleration, Change, DoubleTime
<1>5. Later \intersect {Count} = {Count}
  BY <1>1
<1>6. Measured = {M(k) : k \in Later} \union {(2 * Magnitude(V(k))) \div Span(k) : k \in {Count}}
  BY <1>5 DEF Measured
<1> HIDE DEF A, M, V
<1>7. {(2 * Magnitude(V(k))) \div Span(k) : k \in {Count}} = {A(Count)}
  BY <1>4
<1>8. {M(k) : k \in Later} \union {A(Count)} = {A(k) : k \in Frame}
  <2>1. \A k \in Frame : k = Count \/ \E l \in Later : l - 1 = k
    <3> SUFFICES ASSUME NEW k \in Frame, k # Count PROVE \E l \in Later : l - 1 = k
      OBVIOUS
    <3>1. k \in Int /\ k + 1 \in Later /\ (k + 1) - 1 = k
      BY <1>1
    <3> QED
      BY <3>1
  <2>2. \A k \in Later : k - 1 \in Frame
    BY <1>1
  <2>3. Count \in Frame
    BY <1>1
  <2>4. ASSUME NEW k \in Frame, k # Count PROVE \E l \in Later : M(l) = A(k)
    <3>1. PICK l \in Later : l - 1 = k
      BY <2>1, <2>4
    <3>2. M(l) = A(l - 1)
      BY <1>3
    <3> QED
      BY <3>1, <3>2
  <2>5. \A k \in Later : \E l \in Frame : M(k) = A(l)
    BY <1>3, <2>2
  <2> QED
    BY <2>3, <2>4, <2>5
<1> QED
  BY <1>6, <1>7, <1>8 DEF A

\* Every acceleration is traced at some frame, and every traced one is there.
LEMMA TracesAccelerations ==
  ASSUME shot \in Shot, path \in [Frame -> Int], Count > 1
  PROVE  (\E k \in Frame : TracedAcceleration(k) > MotionUnit * MaxAcceleration)
           <=> (\E k \in Frame : Acceleration(path, k) > MotionUnit * MaxAcceleration)
PROOF
<1> DEFINE A(k) == Acceleration(path, k)
           Ends(k) == IF k > 2 THEN {k - 1} ELSE {}
           Rest(k) == {1, Count} \intersect {k}
           limit == MotionUnit * MaxAcceleration
           Traced(k) == {0} \union {A(j) : j \in Ends(k) \union Rest(k)}
<1>1. Count \in Nat /\ Frame = 1 .. Count /\ limit \in Nat
  BY ShotFacts, AccelerationExcessIs
<1>2. \A k \in Frame : A(k) \in Nat
  BY MotionTypes
<1>3. \A k \in Frame : TracedAcceleration(k) = Max(Traced(k))
  BY DEF TracedAcceleration
<1> HIDE DEF A, limit
<1>4. ASSUME NEW k \in Frame
      PROVE  /\ Max(Traced(k)) \in Traced(k)
             /\ \A y \in Traced(k) : y <= Max(Traced(k))
             /\ Traced(k) \subseteq Nat
             /\ Ends(k) \union Rest(k) \subseteq Frame
  <2>1. Ends(k) \union Rest(k) \subseteq Frame /\ Ends(k) \union Rest(k) \subseteq {k - 1, k}
    BY <1>1
  <2>2. Traced(k) \subseteq {0, A(k - 1), A(k)}
    BY <2>1
  <2>3. IsFiniteSet({0, A(k - 1), A(k)})
    <3>1. IsFiniteSet({0})
      BY FS_Singleton
    <3>2. IsFiniteSet({0} \union {A(k - 1)})
      BY <3>1, FS_AddElement
    <3>3. IsFiniteSet(({0} \union {A(k - 1)}) \union {A(k)})
      BY <3>2, FS_AddElement
    <3>4. ({0} \union {A(k - 1)}) \union {A(k)} = {0, A(k - 1), A(k)}
      OBVIOUS
    <3> QED
      BY <3>3, <3>4
  <2>4. Traced(k) \subseteq Nat
    BY <1>2, <2>1
  <2> HIDE DEF Traced, Ends, Rest
  <2>5. IsFiniteSet(Traced(k))
    BY <2>2, <2>3, FS_Subset
  <2>6. Traced(k) \subseteq Int /\ Traced(k) # {}
    BY <2>4 DEF Traced
  <2>7. Max(Traced(k)) \in Traced(k) /\ \A y \in Traced(k) : y <= Max(Traced(k))
    BY <2>5, <2>6, MaxIsGreatest
  <2> QED
    BY <2>1, <2>4, <2>7
<1>5. ASSUME NEW k \in Frame, Max(Traced(k)) > limit PROVE \E j \in Frame : A(j) > limit
  <2>1. Max(Traced(k)) # 0
    BY <1>1, <1>5
  <2>2. PICK j \in Ends(k) \union Rest(k) : Max(Traced(k)) = A(j)
    BY <1>4, <2>1
  <2> QED
    BY <1>4, <1>5, <2>2
<1>6. ASSUME NEW j \in Frame, A(j) > limit PROVE \E k \in Frame : Max(Traced(k)) > limit
  <2> DEFINE k == IF j = 1 \/ j = Count THEN j ELSE j + 1
  <2>1. k \in Frame /\ j \in Ends(k) \union Rest(k)
    <3>1. CASE j = 1 \/ j = Count
      BY <3>1
    <3>2. CASE ~(j = 1 \/ j = Count)
      <4>1. k = j + 1 /\ j \in Int
        BY <1>1, <3>2
      <4> HIDE DEF k
      <4>2. k \in Frame /\ k > 2 /\ k - 1 = j
        BY <1>1, <3>2, <4>1
      <4> QED
        BY <4>2
    <3> QED
      BY <3>1, <3>2
  <2> HIDE DEF k
  <2>2. A(j) \in Traced(k)
    BY <2>1
  <2>3. A(j) <= Max(Traced(k)) /\ A(j) \in Nat /\ Max(Traced(k)) \in Nat
    BY <1>4, <2>1, <2>2
  <2>4. Max(Traced(k)) > limit
    BY <1>1, <1>6, <2>3
  <2> QED
    BY <2>1, <2>4
<1> QED
  BY <1>3, <1>5, <1>6 DEF A, limit

\* What the report counts.
Fast == {k \in Frame : FastTrace(k)}
Jerky == {k \in Frame : JerkyTrace(k)}
Uncontained == {k \in Frame : shot.sampled[k] /\ shot.box[k] # Absent /\ ~Holds(path, k)}
Limited == {k \in Frame : shot.limited[k]}

\* The counts of the report are the sizes of these sets.
LEMMA ReportCounts ==
  /\ Report.fast = Cardinality(Fast) /\ Report.jerky = Cardinality(Jerky)
  /\ Report.uncontained = Cardinality(Uncontained) /\ Report.limited = Cardinality(Limited)
PROOF
<1>1. {k \in Frame : Trace[k].fast} = Fast
  BY Zenon DEF Trace, Fast
<1>2. {k \in Frame : Trace[k].jerky} = Jerky
  BY Zenon DEF Trace, Jerky
<1>3. {k \in Frame : Trace[k].limited} = Limited
  BY Zenon DEF Trace, Limited
<1>4. ASSUME NEW k \in Frame PROVE Trace[k].fresh = "outside" <=> k \in Uncontained
  <2>1. Trace[k].fresh = IF shot.sampled[k] /\ shot.box[k] # Absent THEN Shown(path, k) ELSE Absent
    BY <1>4 DEF Trace
  <2>2. Absent # "outside" /\ (Shown(path, k) = "outside" <=> ~Holds(path, k))
    BY CameraAssumption DEF Shown
  <2> QED
    BY <1>4, <2>1, <2>2 DEF Uncontained
<1>5. {k \in Frame : Trace[k].fresh = "outside"} = Uncontained
  BY <1>4 DEF Uncontained
<1> QED
  BY <1>1, <1>2, <1>3, <1>5 DEF Report, FramesWith

\* A greatest value is not changed by a nought among values that are none less.
LEMMA MaxWithNought ==
  ASSUME NEW D, NEW f, NEW m \in Nat, \A k \in D : f[k] \in Nat,
         \A k \in D : f[k] <= m, \E k \in D : m = f[k]
  PROVE  Max({0} \union {f[k] : k \in D}) = m
PROOF
<1> DEFINE S == {0} \union {f[k] : k \in D}
<1>1. S \subseteq Int /\ m \in S
  OBVIOUS
<1>2. \A y \in S : y <= m
  OBVIOUS
<1> HIDE DEF S
<1>3. Max(S) = m
  BY <1>1, <1>2, MaxIs
<1> QED
  BY <1>3 DEF S

\* The excesses of the report are those of the programs.
LEMMA ReportMeasures ==
  ASSUME shot \in Shot, path \in [Frame -> Int], Count > 1
  PROVE  Report.speed = SpeedExcess(path) /\ Report.acceleration = AccelerationExcess(path)
PROOF
<1> DEFINE f == [k \in Later |-> Excess(Magnitude(Velocity(path, k)), MotionUnit * MaxSpeed)]
           g == [k \in Frame |-> Excess(Acceleration(path, k), MotionUnit * MaxAcceleration)]
<1>1. /\ SpeedExcess(path) \in Nat /\ \A k \in Later : f[k] \in Nat
      /\ \A k \in Later : f[k] <= SpeedExcess(path)
      /\ \E k \in Later : SpeedExcess(path) = f[k]
  BY SpeedExcessIs
<1>2. /\ AccelerationExcess(path) \in Nat /\ \A k \in Frame : g[k] \in Nat
      /\ \A k \in Frame : g[k] <= AccelerationExcess(path)
      /\ \E k \in Frame : AccelerationExcess(path) = g[k]
  BY AccelerationExcessIs
<1>3. {f[k] : k \in Later} = {Excess(Magnitude(Velocity(path, k)), MotionUnit * MaxSpeed) : k \in Later}
  OBVIOUS
<1>4. {g[k] : k \in Frame} = {Excess(m, MotionUnit * MaxAcceleration) : m \in Measured}
  <2>1. Measured = {Acceleration(path, k) : k \in Frame}
    BY MeasuresAccelerations
  <2> QED
    BY <2>1
<1>5. /\ Report.speed = Max({0} \union {f[k] : k \in Later})
      /\ Report.acceleration = Max({0} \union {g[k] : k \in Frame})
  BY <1>3, <1>4 DEF Report
<1> HIDE DEF f, g
<1>6. Max({0} \union {f[k] : k \in Later}) = SpeedExcess(path)
  BY ONLY <1>1, MaxWithNought
<1>7. Max({0} \union {g[k] : k \in Frame}) = AccelerationExcess(path)
  BY ONLY <1>2, MaxWithNought
<1> QED
  BY <1>5, <1>6, <1>7

\* What the report says is what the trace counts.
LEMMA ReportFollows == CameraInv => ReportMatchesTrace
PROOF
<1> SUFFICES ASSUME CameraInv, stage = "planned"
             PROVE  /\ Report.speed > 0 <=> Report.fast > 0
                    /\ Report.acceleration > 0 <=> Report.jerky > 0
                    /\ Report.uncontained <= Report.limited
                    /\ Count > 1 => Report.speed = SpeedExcess(path)
                                    /\ Report.acceleration = AccelerationExcess(path)
  BY DEF ReportMatchesTrace
<1>1. shot \in Shot /\ path \in [Frame -> Int]
  BY LegalTypes DEF CameraInv, PlanInv
<1>2. Count \in Nat \ {0} /\ Frame = 1 .. Count /\ Later = 2 .. Count
  BY <1>1, ShotFacts DEF Later
<1>3. /\ Report.fast > 0 <=> Fast # {}
      /\ Report.jerky > 0 <=> Jerky # {}
  <2>1. Fast \subseteq Frame /\ Jerky \subseteq Frame
    BY DEF Fast, Jerky
  <2> QED
    BY <1>1, <2>1, ReportCounts, FrameSets
<1>4. Report.uncontained <= Report.limited
  <2>1. Uncontained \subseteq Limited /\ Limited \subseteq Frame
    BY PlanShows DEF Uncontained, Limited
  <2>2. IsFiniteSet(Limited)
    BY <1>1, <2>1, FrameSets
  <2>3. Cardinality(Uncontained) <= Cardinality(Limited)
    BY <2>1, <2>2, FS_Subset
  <2> QED
    BY <2>3, ReportCounts
<1>5. CASE Count > 1
  <2>1. Report.speed = SpeedExcess(path) /\ Report.acceleration = AccelerationExcess(path)
    BY <1>1, <1>5, ReportMeasures
  <2>2. (\E k \in Later : Magnitude(Velocity(path, k)) > MotionUnit * MaxSpeed) <=> Fast # {}
    <3>1. \A k : k \in Later <=> k \in Frame /\ k > 1
      BY <1>2
    <3> QED
      BY <3>1 DEF Fast, FastTrace
  <2>3. (\E k \in Frame : TracedAcceleration(k) > MotionUnit * MaxAcceleration) <=> Jerky # {}
    BY <1>5 DEF Jerky, JerkyTrace
  <2> QED
    BY <1>1, <1>3, <1>4, <1>5, <2>1, <2>2, <2>3, SpeedExceeded, AccelerationExceeded, TracesAccelerations
<1>6. CASE ~(Count > 1)
  <2>1. Count = 1 /\ Later = {}
    BY <1>2, <1>6
  <2>2. Measured = {}
    BY <2>1 DEF Measured
  <2>3. {0} \subseteq Int /\ Max({0}) = 0
    BY MaxIs
  <2>4. Report.speed = 0 /\ Report.acceleration = 0
    <3>1. /\ {0} \union {Excess(Magnitude(Velocity(path, k)), MotionUnit * MaxSpeed) : k \in Later} = {0}
          /\ {0} \union {Excess(m, MotionUnit * MaxAcceleration) : m \in Measured} = {0}
      BY <2>1, <2>2
    <3> QED
      BY <2>3, <3>1 DEF Report
  <2>5. Fast = {} /\ Jerky = {}
    BY <1>2, <2>1 DEF Fast, FastTrace, Jerky, JerkyTrace
  <2> QED
    BY <1>3, <1>4, <1>6, <2>4, <2>5
<1> QED
  BY <1>5, <1>6

-----------------------------------------------------------------------------
(* The evaluation.                                                         *)

\* Whatever is annotated and evaluated is the written plan, which stays.
EvaluationInv ==
  /\ truth \in Annotations \union {Absent}
  /\ truth # Absent => stage = "written"
  /\ evaluation # Absent =>
       truth # Absent /\ evaluation.metrics = [k \in Frame \union DOMAIN truth |-> Metrics(k)]

ShotInv == CameraInv /\ RestInv /\ EvaluationInv

\* The metrics of a frame depend on the plan and the annotations alone.
LEMMA SameMetrics ==
  ASSUME shot' = shot, path' = path, truth' = truth
  PROVE  Frame' = Frame /\ \A k : Metrics(k)' = Metrics(k)
PROOF
<1>1. Frame' = Frame
  BY DEF Frame
<1>2. \A k : Available(k)' = Available(k) /\ Correct(k)' = Correct(k)
  BY DEF Available, Correct, Detection
<1>3. \A k : Contained(k)' = Contained(k)
  BY DEF Contained, CropOf, Extent
<1>4. \A k : Blamed(k)' = Blamed(k)
  BY <1>2, <1>3 DEF Blamed
<1> QED
  BY <1>1, <1>2, <1>3, <1>4 DEF Metrics

\* The camera plans before there is anything to evaluate.
LEMMA PlanKeeps == ShotInv /\ Plan => ShotInv'
PROOF
<1> SUFFICES ASSUME ShotInv, Plan PROVE ShotInv'
  OBVIOUS
<1>1. CameraInv' /\ RestInv'
  BY CameraKeeps, RestKeeps DEF Plan, ShotInv
<1>2. stage # "written"
  BY DEF Plan, CameraNext, Seed, SolvePass, SolverFails, Choose, Write
<1>3. EvaluationInv'
  BY <1>2 DEF ShotInv, EvaluationInv, Plan
<1> QED
  BY <1>1, <1>3 DEF ShotInv

\* Annotations come after the plan is written.
LEMMA AnnotateKeeps == ShotInv /\ Annotate => ShotInv'
PROOF
<1> SUFFICES ASSUME ShotInv, Annotate PROVE ShotInv'
  OBVIOUS
<1>1. CameraInv' /\ RestInv' /\ stage' = "written"
  BY CameraKeeps, RestKeeps DEF Annotate, ShotInv, cameraVars
<1>2. truth' \in Annotations /\ evaluation' = Absent
  BY DEF ShotInv, EvaluationInv, Annotate
<1> QED
  BY <1>1, <1>2 DEF ShotInv, EvaluationInv

\* The evaluation records the metrics of every frame.
LEMMA EvaluateKeeps == ShotInv /\ Evaluate => ShotInv'
PROOF
<1> SUFFICES ASSUME ShotInv, Evaluate PROVE ShotInv'
  OBVIOUS
<1>1. CameraInv' /\ RestInv' /\ shot' = shot /\ path' = path /\ stage' = stage
  BY CameraKeeps, RestKeeps DEF Evaluate, ShotInv, cameraVars
<1>2. truth' = truth /\ truth # Absent
  BY DEF Evaluate
<1>3. evaluation'.metrics = [k \in Frame \union DOMAIN truth |-> Metrics(k)]
  BY DEF Evaluate
<1>4. Frame' = Frame /\ \A k : Metrics(k)' = Metrics(k)
  BY <1>1, <1>2, SameMetrics
<1> QED
  BY <1>1, <1>2, <1>3, <1>4 DEF ShotInv, EvaluationInv

\* Nothing happens.
LEMMA ShotStutters == ShotInv /\ UNCHANGED shotVars => ShotInv'
PROOF
<1> SUFFICES ASSUME ShotInv, UNCHANGED shotVars PROVE ShotInv'
  OBVIOUS
<1>1. /\ CameraInv' /\ RestInv'
      /\ shot' = shot /\ path' = path /\ stage' = stage /\ truth' = truth /\ evaluation' = evaluation
  BY CameraKeeps, RestKeeps DEF shotVars, ShotInv, cameraVars
<1>2. Frame' = Frame /\ \A k : Metrics(k)' = Metrics(k)
  BY <1>1, SameMetrics
<1> QED
  BY <1>1, <1>2 DEF ShotInv, EvaluationInv

\* The inductive invariant of a shot holds from the crops of the causal planner to the
\* evaluation of its trace (LookaheadCropPlanner, _write_analysis_trace, evaluate).
THEOREM ShotInvariant == ShotSpec => []ShotInv
PROOF
<1>1. ShotInit => ShotInv
  BY DEF ShotInit, CameraInit, ShotInv, CameraInv, SolveInv, PlanInv, RestInv, EvaluationInv
<1>2. ShotInv /\ [ShotNext]_shotVars => ShotInv'
  BY PlanKeeps, AnnotateKeeps, EvaluateKeeps, ShotStutters DEF ShotNext
<1> QED
  BY <1>1, <1>2, PTL DEF ShotSpec

\* Every variable of a shot keeps its type, and every frame is blamed on a known stage.
THEOREM ShotTyped == ShotSpec => []ShotTypeOK
PROOF
<1>1. ShotInv => ShotTypeOK
  <2> SUFFICES ASSUME ShotInv PROVE ShotTypeOK
    OBVIOUS
  <2>1. CameraTypeOK
    BY LegalTypes DEF ShotInv, CameraInv, CameraTypeOK
  <2>2. ASSUME NEW k PROVE Metrics(k).failure \in Known
    BY DEF Metrics, Unmeasured, Blamed, Known
  <2>3. evaluation # Absent => \A k \in DOMAIN evaluation.metrics : evaluation.metrics[k].failure \in Known
    <3> SUFFICES ASSUME evaluation # Absent, NEW k \in DOMAIN evaluation.metrics
                 PROVE  evaluation.metrics[k].failure \in Known
      OBVIOUS
    <3>1. evaluation.metrics[k] = Metrics(k)
      BY DEF ShotInv, EvaluationInv
    <3> QED
      BY <2>2, <3>1
  <2> QED
    BY <2>1, <2>3 DEF ShotTypeOK, ShotInv, EvaluationInv
<1> QED
  BY <1>1, ShotInvariant, PTL

\* The limits of motion give way only to the sampled boxes: no camera that shows them is
\* slower, and none that is as slow is smoother (_solve_axis).
THEOREM CameraExcessIsUnavoidable == ShotSpec => []ExcessIsUnavoidable
PROOF
<1>1. ShotInv => ExcessIsUnavoidable
  BY UnavoidableFollows DEF ShotInv
<1> QED
  BY <1>1, ShotInvariant, PTL

\* When one place would do for the whole shot the camera stays somewhere, however its
\* seed wanders and whatever the last two programs prefer (_solve_axis).
THEOREM CameraStaysWhereItMay == ShotSpec => []NoNeedlessPan
PROOF
<1>1. ShotInv => NoNeedlessPan
  <2> SUFFICES ASSUME ShotInv, stage = "planned", NEW c \in 0 .. Side, Post(c), Count > 1
               PROVE  \A j, k \in Frame : path[j] = path[k]
    BY DEF NoNeedlessPan
  <2>1. shot \in Shot /\ Steady(path)
    BY DEF ShotInv, CameraInv, RestInv
  <2> QED
    BY <2>1, SteadyIsConstant
<1> QED
  BY <1>1, ShotInvariant, PTL

\* The report, the trace and the programs agree on whether a limit was exceeded
\* (_analysis_report, the trace of LookaheadCropPlanner).
THEOREM CameraReportsItsTrace == ShotSpec => []ReportMatchesTrace
PROOF
<1>1. ShotInv => ReportMatchesTrace
  BY ReportFollows DEF ShotInv
<1> QED
  BY <1>1, ShotInvariant, PTL

\* A failed frame is blamed on the stage that shows it (_failure of evaluation.py).
THEOREM EvaluationBlamesJustly == ShotSpec => []BlameIsJust
PROOF
<1>1. ShotInv => BlameIsJust
  <2> SUFFICES ASSUME ShotInv, evaluation # Absent, NEW k \in Frame, Clear(k)
               PROVE  LET failure == evaluation.metrics[k].failure
                          shown == Covers(CropOf(k), truth[k].bounds)
                      IN  /\ ~shown => failure # "none"
                          /\ failure = "framing" =>
                               /\ ~shown
                               /\ shot.sampled[k] /\ shot.box[k] = truth[k].bounds => shot.limited[k]
                          /\ failure = "detection" => shot.sampled[k] /\ shot.box[k] = Absent
    BY DEF BlameIsJust
  <2> DEFINE bounds == truth[k].bounds
             shown == Covers(CropOf(k), bounds)
  <2>1. /\ truth \in Annotations /\ stage = "written"
        /\ k \in DOMAIN truth /\ truth[k].visible /\ ~truth[k].ambiguous
        /\ evaluation.metrics[k] = Metrics(k)
    BY DEF ShotInv, EvaluationInv, Clear
  <2>2. evaluation.metrics[k].failure = Blamed(k)
    BY <2>1 DEF Metrics
  <2>3. bounds # Absent /\ Absent \notin {"yes", "no"}
    BY <2>1, AnnotationAssumption
  <2>4. Contained(k) = "no" <=> ~shown
    BY DEF Contained, Answer
  <2>5. Available(k) = "no" => shot.sampled[k] /\ shot.box[k] = Absent
    BY <2>3 DEF Available, Answer, Detection
  <2>6. ~shown => Blamed(k) # "none"
    BY <2>4 DEF Blamed
  <2>7. Blamed(k) = "detection" => Available(k) = "no"
    BY DEF Blamed
  <2>8. Blamed(k) = "framing" => ~shown
    BY <2>4 DEF Blamed
  <2>9. ASSUME ~shown, shot.sampled[k], shot.box[k] = bounds PROVE shot.limited[k]
    <3> SUFFICES ASSUME ~shot.limited[k] PROVE FALSE
      OBVIOUS
    <3>1. Holds(path, k)
      BY <2>1, <2>3, <2>9, PlanShows DEF ShotInv
    <3> QED
      BY <2>9, <3>1 DEF Holds, Covers, CropOf
  <2> QED
    BY <2>2, <2>5, <2>6, <2>7, <2>8, <2>9
<1> QED
  BY <1>1, ShotInvariant, PTL

=============================================================================
