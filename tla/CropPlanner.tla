------------------------------ MODULE CropPlanner ------------------------------
(***************************************************************************)
(* The crop of every frame: DeterministicCropPlanner, a controller that    *)
(* follows the detector box with dead bands and bounded motion, and what   *)
(* LookaheadCropPlanner may make of its crops.                             *)
(*                                                                         *)
(* - geometry is exact, in integers: boxes in pixels, centres and edges of *)
(*   crops in half pixels, the size of a crop as a multiple of the aspect  *)
(*   ratio.  Both axes are treated alike.                                  *)
(* - a velocity is its direction.  _advance_motion is every motion that    *)
(*   keeps to directions: it may brake over any way up to Momentum, and    *)
(*   then stop anywhere on the way to its target.                          *)
(* - the linear programs of the look-ahead choose any legal origins.       *)
(* - the code computes in floating point.  Values that rounding may confuse*)
(*   are equal here; where equality decides whether a shot fails, either   *)
(*   outcome is possible (Rounding).                                       *)
(***************************************************************************)
EXTENDS Integers

CONSTANTS
  Source,     \* source_width, source_height
  Aspect,     \* the aspect ratio
  FullScale,  \* the size of the full frame
  Box,        \* what the detector may return, clipped to the source
  Target,     \* [num, den]: target_height_fraction
  Unit, ScaleEnter, ScaleExit, CenterEnter, CenterExit,  \* the gates, in 1/Unit
  Momentum,   \* bound on the way a motion takes to stop
  None

Axis == {"x", "y"}
Positive == Nat \ {0}

ASSUME SourceAssumption ==
  /\ Source \in [Axis -> Positive] /\ Aspect \in [Axis -> Positive] /\ FullScale \in Positive
  /\ \A a \in Axis : Aspect[a] * FullScale <= Source[a]
ASSUME BoxAssumption ==
  /\ Box \subseteq [near : [Axis -> Nat], far : [Axis -> Nat]]
  /\ \A b \in Box, a \in Axis : b.near[a] < b.far[a] /\ b.far[a] <= Source[a]
  /\ None \notin Box /\ None \notin [at : [Axis -> Int], scale : Int]
ASSUME ControllerAssumption ==
  /\ Target \in [num : Positive, den : Positive]
  /\ Unit \in Positive /\ Momentum \in Nat
  /\ ScaleEnter \in Nat /\ ScaleExit \in 0 .. ScaleEnter
  /\ CenterEnter \in Nat /\ CenterExit \in 0 .. CenterEnter

VARIABLES
  crop,                \* the crop of the latest frame
  pan, zoom,           \* velocities
  scaling, centering,  \* scale_adjusting, center_adjusting
  box,                 \* detector_bounds of the latest frame
  fresh,               \* detection_sampled: the box is not a held one
  limited,             \* source_aspect_limited
  action               \* what the trace says of the frame

gates == <<scaling, centering>>
vars == <<crop, pan, zoom, gates, box, fresh, limited, action>>

Direction == {-1, 0, 1}

-----------------------------------------------------------------------------
(* Geometry.                                                               *)

Lesser(m, n) == IF m < n THEN m ELSE n
Greater(m, n) == IF m > n THEN m ELSE n
Smallest(S) == CHOOSE s \in S : \A t \in S : s <= t
Distance(m, n) == IF m < n THEN n - m ELSE m - n

Size(s, a) == Aspect[a] * s
Lower(c, a) == c.at[a] - Size(c.scale, a)
Upper(c, a) == c.at[a] + Size(c.scale, a)

Length(b, a) == b.far[a] - b.near[a]
Middle(b) == [a \in Axis |-> b.near[a] + b.far[a]]

Inside(c) == \A a \in Axis : 0 <= Lower(c, a) /\ Upper(c, a) <= 2 * Source[a]
Contains(c, b) == \A a \in Axis : Lower(c, a) <= 2 * b.near[a] /\ 2 * b.far[a] <= Upper(c, a)
Fits(b, s) == \A a \in Axis : Length(b, a) <= Size(s, a)

Full(at) == [at |-> at, scale |-> FullScale]

\* clamp_crop
Clamp(c) ==
  [at |-> [a \in Axis |-> Lesser(Greater(c.at[a], Size(c.scale, a)), 2 * Source[a] - Size(c.scale, a))],
   scale |-> c.scale]

\* A crop that shows the box at its target height, as far as the source allows.
Desired(b) ==
  Clamp([at |-> Middle(b),
         scale |-> Smallest({s \in 1 .. FullScale :
                               \/ s = FullScale
                               \/ Length(b, "y") * Target.den <= Size(s, "y") * Target.num})])

\* _contain: no crop holds a box that is larger than the full frame.
Contain(c, b) ==
  IF Contains(c, b) THEN c
  ELSE IF ~Fits(b, FullScale) THEN Clamp(Full(Middle(b)))
  ELSE LET s == Smallest({t \in c.scale .. FullScale : Fits(b, t)})
       IN  Clamp([at |-> [a \in Axis |-> Size(s, a)
                            + Greater(Lesser(Lower(c, a), 2 * b.near[a]), 2 * b.far[a] - 2 * Size(s, a))],
                  scale |-> s])

-----------------------------------------------------------------------------
(* Motion.                                                                 *)

\* Where a motion at p with direction v may be after a frame: a closed gate brakes
\* it; an open one lets it go to its target t, after braking if need be.
Braked(p, v) ==
  {[at |-> p + v * d, v |-> u] : d \in 0 .. IF v = 0 THEN 0 ELSE Momentum, u \in {0, v}}

Toward(p, t) == IF p <= t THEN p .. t ELSE t .. p

Approaching(p, v, t) ==
  (UNION {{[at |-> q, v |-> IF q < t THEN 1 ELSE IF q = t THEN 0 ELSE -1] : q \in Toward(r.at, t)} :
            r \in Braked(p, v)})
    \union {r \in Braked(p, v) : r.v # 0}

Moved(p, v, open, t) == IF open THEN Approaching(p, v, t) ELSE Braked(p, v)

\* The gates compare with the crop of the frame before.
Outside(error, threshold, reference) == error * Unit > threshold * reference

ScaleOutside(b, threshold) ==
  Outside(Distance(Length(b, "y") * Target.den, Size(crop.scale, "y") * Target.num), threshold,
          Size(crop.scale, "y") * Target.num)

CenterOutside(d, threshold) ==
  \E a \in Axis : Outside(Distance(d.at[a], crop.at[a]), threshold, 2 * Size(crop.scale, a))

Moving == scaling' \/ centering' \/ zoom # 0 \/ \E a \in Axis : pan[a] # 0

-----------------------------------------------------------------------------
(* One frame.                                                              *)

SettledUnlessKnown(c, b) ==
  LET bounded == Clamp(IF c.scale > FullScale THEN [c EXCEPT !.scale = FullScale] ELSE c)
  IN  IF b = None \/ b = box THEN bounded ELSE Contain(bounded, b)

\* The crop that is made of a candidate.
Settled(c, b) ==
  LET bounded == Clamp(IF c.scale > FullScale THEN [c EXCEPT !.scale = FullScale] ELSE c)
  IN  IF b = None THEN bounded ELSE Contain(bounded, b)

\* The rest of an iteration of plan(), for a candidate c with velocities p and z.
\* What is corrected loses its velocity.
Settle(c, p, z, b, label) ==
  /\ crop' = Settled(c, b)
  /\ pan' = [a \in Axis |-> IF crop'.at[a] = c.at[a] THEN p[a] ELSE 0]
  /\ zoom' = IF crop'.scale = c.scale THEN z ELSE 0
  /\ box' = b
  /\ limited' = (b # None /\ ~Fits(b, FullScale))
  /\ action' = IF limited' THEN "source_aspect_limited"
               ELSE IF crop' # c THEN "containment_override" ELSE label

Still == [a \in Axis |-> 0]

Init ==
  /\ crop = None /\ pan = Still /\ zoom = 0
  /\ scaling = FALSE /\ centering = FALSE
  /\ box = None /\ fresh = TRUE /\ limited = FALSE /\ action = "none"

\* The first frame is always sampled.
FirstMiss ==
  /\ crop = None
  /\ Settle(Full(Source), Still, 0, None, "full_frame")
  /\ fresh' = TRUE
  /\ UNCHANGED gates

FirstDetection ==
  /\ crop = None
  /\ \E b \in Box : Settle(Desired(b), Still, 0, b, "initial")
  /\ fresh' = TRUE
  /\ UNCHANGED gates

\* Seeded defect: the inward zoom goes on after a miss.
MissZooms ==
  /\ crop # None
  /\ fresh' \in IF box = None THEN BOOLEAN ELSE {TRUE}
  /\ scaling' = FALSE /\ centering' = FALSE
  /\ \E m \in Moved(crop.scale, zoom, TRUE, FullScale) :
       /\ m.at >= 1
       /\ Settle([at |-> crop.at, scale |-> m.at], Still, m.v, None, "widen_on_miss")

\* A miss, or a skipped frame after one: pan and inward zoom stop at once, and the
\* crop widens.
Miss ==
  /\ crop # None
  /\ fresh' \in IF box = None THEN BOOLEAN ELSE {TRUE}
  /\ scaling' = FALSE /\ centering' = FALSE
  /\ \E m \in Approaching(crop.scale, Greater(0, zoom), FullScale) :
       Settle([at |-> crop.at, scale |-> m.at], Still, m.v, None, "widen_on_miss")

\* A box, of this frame or held.
Detect(b) ==
  /\ crop # None
  /\ fresh' \in IF b = box THEN BOOLEAN ELSE {TRUE}
  /\ scaling' = ScaleOutside(b, IF scaling THEN ScaleExit ELSE ScaleEnter)
  /\ centering' = CenterOutside(Desired(b), IF centering THEN CenterExit ELSE CenterEnter)
  /\ \E x \in Moved(crop.at.x, pan.x, centering', Desired(b).at.x),
        y \in Moved(crop.at.y, pan.y, centering', Desired(b).at.y),
        m \in Moved(crop.scale, zoom, scaling', Desired(b).scale) :
       /\ m.at >= 1
       /\ Settle([at |-> [x |-> x.at, y |-> y.at], scale |-> m.at], [x |-> x.v, y |-> y.v], m.v, b,
                 IF Moving THEN "smoothed" ELSE "deadband_hold")

Next == FirstMiss \/ FirstDetection \/ Miss \/ \E b \in Box : Detect(b)

Spec == Init /\ [][Next]_vars

-----------------------------------------------------------------------------
(* The look-ahead keeps the size of every crop and moves it inside bounds.  *)
(* Its comparisons are of rounded numbers: what differs stays in order, but  *)
(* what is equal may come out either way.                                    *)

\* On which axes rounding makes a box larger than a crop of its size, and the origins
\* from which such a crop shows both edges of the box none at all.
Rounding == [size : SUBSET Axis, edge : SUBSET Axis]
Exact == [size |-> {}, edge |-> {}]

Tight(a) == Length(box, a) = Size(crop.scale, a)

Feasible(r) ==
  /\ fresh /\ box # None
  /\ Fits(box, crop.scale)
  /\ \A a \in r.size : ~Tight(a)

Roaming(a) == 0 .. 2 * Source[a] - 2 * Size(crop.scale, a)

ShowingBox(a) ==
  Greater(0, 2 * box.far[a] - 2 * Size(crop.scale, a))
    .. Lesser(2 * Source[a] - 2 * Size(crop.scale, a), 2 * box.near[a])

\* An origin of zero is exact, whatever the box.
Torn(a, r) == a \in r.edge /\ Tight(a) /\ box.near[a] > 0

\* Seeded defect: boxes that no crop holds bind the look-ahead too.
LegalAlways(a, r) ==
  IF box = None THEN Roaming(a) ELSE IF Torn(a, r) THEN {} ELSE ShowingBox(a)

\* The legal origins of the crop, _axis_intervals.
Legal(a, r) ==
  IF ~Feasible(r) THEN Roaming(a) ELSE IF Torn(a, r) THEN {} ELSE ShowingBox(a)

\* The PlannerErrors of the look-ahead: a fresh box that is not marked does not fit its
\* crop, or an interval is empty.
Refused(r) ==
  \/ fresh /\ box # None /\ ~limited /\ ~Feasible(r)
  \/ \E a \in Axis : Legal(a, r) = {}

\* What the linear programs may make of the crop: they solve each axis on its own,
\* and which legal origins they find is left open.
Planned(r) ==
  {[at |-> [x |-> x + Size(crop.scale, "x"), y |-> y + Size(crop.scale, "y")], scale |-> crop.scale] :
     x \in Legal("x", r), y \in Legal("y", r)}

-----------------------------------------------------------------------------
Crop == [at : [Axis -> Int], scale : 1 .. FullScale]

TypeOK ==
  /\ crop \in Crop \union {None}
  /\ pan \in [Axis -> Direction] /\ zoom \in Direction
  /\ scaling \in BOOLEAN /\ centering \in BOOLEAN
  /\ box \in Box \union {None} /\ fresh \in BOOLEAN /\ limited \in BOOLEAN
  /\ action \in {"none", "full_frame", "initial", "widen_on_miss", "smoothed", "deadband_hold",
                 "source_aspect_limited", "containment_override"}

\* docs/specs/worker/measurements-and-planner.md: the crop stays in the source and
\* "contain[s] the current detector box" whatever gates and motion say, unless the
\* box is larger than any crop.
AthleteInFrame ==
  crop # None => Inside(crop) /\ (box # None => limited \/ Contains(crop, box))

\* The look-ahead fails a shot (planner.py:545, planner.py:590) for nothing but the
\* rounding of a crop that is exactly as wide or as tall as the fresh box it was made
\* for; what it accepts it can only turn into crops that are inside the source and
\* show the fresh box.
OnlyTightIsRefused ==
  crop # None =>
    \A r \in Rounding :
      /\ Refused(r) => /\ r # Exact
                      /\ fresh /\ box # None /\ ~limited
                      /\ \E a \in r.size \union r.edge : Tight(a)
      /\ \A c \in Planned(r) : Inside(c) /\ (Feasible(r) => Contains(c, box))

\* docs/specs/worker/measurements-and-planner.md:147: only a box that the source or the
\* aspect ratio cannot hold is uncontained, "any other empty interval is a planning
\* error".  The planner's own containment leaves such intervals (planner.py:471).
NeverRefuses == crop # None => \A r \in Rounding : ~Refused(r)

\* "Missing observations must never extrapolate position or keep zooming in"
\* (planner.py:222): after a miss everything that was in view stays in view,
\* whatever motion was going on.
MissKeepsView ==
  [][crop # None /\ box' = None =>
       \A a \in Axis : Lower(crop', a) <= Lower(crop, a) /\ Upper(crop, a) <= Upper(crop', a)]_vars

=============================================================================
