---------------------------- MODULE LookaheadCamera ----------------------------
(***************************************************************************)
(* The camera of a whole shot: LookaheadCropPlanner keeps the sizes of the *)
(* causal crops and chooses their centres anew, one axis at a time, in six *)
(* linear programs of which each one keeps what the former ones reached.   *)
(* The trace and the report say what became of the limits of its motion.   *)
(*                                                                         *)
(* - the model is one axis.  Centres and the edges of boxes are whole      *)
(*   pixels, extents are even; a program chooses among the paths on this   *)
(*   lattice, so that its tolerances are 0.                                *)
(* - velocities and accelerations are in 1/MotionUnit pixels.              *)
(* - the shot is one that DeterministicCropPlanner returns (CropPlanner):  *)
(*   its crops are in the source and hold their boxes, unless limited.     *)
(*   Rounding can only make it fail before the first program, if a crop is *)
(*   as large as its box (CropPlanner), and nothing is planned then.       *)
(***************************************************************************)
EXTENDS Integers, Sequences, FiniteSets, FiniteSetsExt

CONSTANTS
  Shot,             \* measurements with the crops of the causal planner
  Side,             \* the source on this axis
  MaxSpeed,         \* pan_max_speed, in pixels per unit of time
  MaxAcceleration,  \* pan_max_acceleration
  DeadZone,         \* [num, den]: pan_dead_zone_fraction
  MotionUnit,
  Absent

VARIABLES
  shot,
  stage,  \* seed, solving, planned, written or failed
  pass,   \* the linear program that is next
  paths,  \* the centres that are optimal for all programs so far
  path    \* the centres of the plan, or Absent

cameraVars == <<shot, stage, pass, paths, path>>

Frame == DOMAIN shot.seed
Count == Len(shot.seed)
Later == 2 .. Count
Extent(k) == shot.extent[k]
Time(k) == shot.time[k]
Span(k) == Time(k) - Time(k - 1)

Magnitude(n) == IF n < 0 THEN -n ELSE n
Excess(n, limit) == Max({0, n - limit})
Total(Op(_), S) == MapThenSumSet(Op, S)

\* What the causal planner gives for a frame.
SeedFrame(s, k) ==
  /\ s.extent[k] % 2 = 0 /\ s.extent[k] \in 2 .. Side
  /\ s.seed[k] \in s.extent[k] \div 2 .. Side - s.extent[k] \div 2
  /\ s.box[k] = Absent => s.limited[k] = FALSE
  /\ s.box[k] # Absent =>
       /\ s.box[k].far \in 1 .. Side /\ s.box[k].near \in 0 .. s.box[k].far - 1
       /\ \/ s.limited[k]
          \/ /\ s.seed[k] - s.extent[k] \div 2 <= s.box[k].near
             /\ s.box[k].far <= s.seed[k] + s.extent[k] \div 2

ASSUME CameraAssumption ==
  /\ Side \in Nat \ {0} /\ MotionUnit \in Nat \ {0}
  /\ MaxSpeed \in Nat /\ MaxAcceleration \in Nat
  /\ DeadZone \in [num : Nat, den : Nat \ {0}]
  /\ Absent \notin {"inside", "outside"}
  /\ \A s \in Shot :
       /\ s.seed \in Seq(Nat) /\ Len(s.seed) >= 1
       /\ s.time \in [DOMAIN s.seed -> Nat]
       /\ s.sampled \in [DOMAIN s.seed -> BOOLEAN] /\ s.limited \in [DOMAIN s.seed -> BOOLEAN]
       /\ \A k \in DOMAIN s.seed : SeedFrame(s, k)
       /\ \A k \in 2 .. Len(s.seed) :
            \* measurement timestamps increase, and MotionUnit measures all motion
            /\ s.time[k - 1] < s.time[k]
            /\ (2 * MotionUnit) % ((s.time[k] - s.time[k - 1]) * (s.time[k] - s.time[k - 1])) = 0
            /\ k > 2 => (2 * MotionUnit) % ((s.time[k] - s.time[k - 1]) * (s.time[k - 1] - s.time[k - 2])
                                              * (s.time[k] - s.time[k - 2])) = 0

-----------------------------------------------------------------------------
(* Geometry.                                                               *)

\* Both sides of the box fit; the one on the other axis does unless the frame is limited.
FitsCrop(k) == ~shot.limited[k] /\ shot.box[k].far - shot.box[k].near <= Extent(k)

\* A fresh box that its crop can hold; a held one does not bind the camera.
Binding(k) == shot.sampled[k] /\ shot.box[k] # Absent /\ FitsCrop(k)

\* Seeded defect: a held box binds the camera like a fresh one.
LegalHeld(k) ==
  LET half == Extent(k) \div 2
  IN  IF shot.box[k] # Absent /\ FitsCrop(k)
      THEN Max({half, shot.box[k].far - half}) .. Min({Side - half, shot.box[k].near + half})
      ELSE half .. Side - half

\* The legal centres, _axis_intervals.
LegalCentres(k) ==
  LET half == Extent(k) \div 2
  IN  IF Binding(k)
      THEN Max({half, shot.box[k].far - half}) .. Min({Side - half, shot.box[k].near + half})
      ELSE half .. Side - half

LegalPaths ==
  {p \in [Frame -> UNION {LegalCentres(k) : k \in Frame}] : \A k \in Frame : p[k] \in LegalCentres(k)}

InSource(p, k) == p[k] \in Extent(k) \div 2 .. Side - Extent(k) \div 2

Holds(p, k) ==
  /\ p[k] - Extent(k) \div 2 <= shot.box[k].near
  /\ shot.box[k].far <= p[k] + Extent(k) \div 2

Shown(p, k) == IF Holds(p, k) THEN "inside" ELSE "outside"

-----------------------------------------------------------------------------
(* Motion.                                                                 *)

Velocity(p, k) == (MotionUnit * (p[k] - p[k - 1])) \div Span(k)

\* _transitions: the changes of velocity, those from and to rest included, with the
\* times they take (doubled).
Change(p, k) ==
  IF k = 1 THEN Velocity(p, 2)
  ELSE IF k = Count THEN -Velocity(p, k)
  ELSE Velocity(p, k + 1) - Velocity(p, k)

DoubleTime(k) ==
  IF k = 1 THEN Span(2) ELSE IF k = Count THEN Span(k) ELSE Span(k) + Span(k + 1)

Acceleration(p, k) == (2 * Magnitude(Change(p, k))) \div DoubleTime(k)

Deviation(p, k) == Magnitude(p[k] - shot.seed[k])

\* The distance outside the dead zone of the seed, times its denominator.
OutsideDeadZone(p, k) == Excess(DeadZone.den * Deviation(p, k), DeadZone.num * Extent(k))

SpeedExcess(p) == Max({Excess(Magnitude(Velocity(p, k)), MotionUnit * MaxSpeed) : k \in Later})
AccelerationExcess(p) == Max({Excess(Acceleration(p, k), MotionUnit * MaxAcceleration) : k \in Frame})

DeadZoneCost(p) == Total(LAMBDA k : DoubleTime(k) * OutsideDeadZone(p, k), Frame)
Travel(p) == Total(LAMBDA k : Magnitude(p[k] - p[k - 1]), Later)
Variation(p) == Total(LAMBDA k : Magnitude(Change(p, k)), Frame)
SeedCost(p) == Total(LAMBDA k : DoubleTime(k) * Deviation(p, k), Frame)

\* Seeded defect: the composition of the seed comes before travel.
SeedFirst(n, p) ==
  CASE n = 1 -> SpeedExcess(p) [] n = 2 -> AccelerationExcess(p) [] n = 3 -> DeadZoneCost(p)
    [] n = 4 -> SeedCost(p) [] n = 5 -> Travel(p) [] n = 6 -> Variation(p)

\* The objectives, in their order.
Objective(n, p) ==
  CASE n = 1 -> SpeedExcess(p) [] n = 2 -> AccelerationExcess(p) [] n = 3 -> DeadZoneCost(p)
    [] n = 4 -> Travel(p) [] n = 5 -> Variation(p) [] n = 6 -> SeedCost(p)

Cheapest(S, Cost(_)) == LET least == Min({Cost(p) : p \in S}) IN {p \in S : Cost(p) = least}

-----------------------------------------------------------------------------
CameraInit ==
  /\ shot \in Shot
  /\ stage = "seed" /\ pass = 1 /\ paths = {} /\ path = Absent

\* A fresh box that fits no crop and is not limited, or an empty interval, raises.  A
\* shot of one frame keeps its crop, which must be legal.
Seed ==
  /\ stage = "seed"
  /\ LET good == /\ \A k \in Frame : shot.sampled[k] /\ shot.box[k] # Absent => FitsCrop(k) \/ shot.limited[k]
                 /\ \A k \in Frame : LegalCentres(k) # {}
                 /\ Count = 1 => shot.seed[1] \in LegalCentres(1)
     IN  /\ stage' = IF ~good THEN "failed" ELSE IF Count = 1 THEN "planned" ELSE "solving"
         /\ path' = IF good /\ Count = 1 THEN shot.seed ELSE Absent
         /\ paths' = IF good /\ Count > 1 THEN LegalPaths ELSE {}
  /\ UNCHANGED <<shot, pass>>

SolvePass ==
  /\ stage = "solving" /\ pass <= 6
  /\ paths' = Cheapest(paths, LAMBDA p : Objective(pass, p))
  /\ pass' = pass + 1
  /\ UNCHANGED <<shot, stage, path>>

\* A solver that does not report an optimum, or whose answer breaks a constraint,
\* raises PlannerError: the job fails, there is no causal fallback.
SolverFails ==
  /\ stage = "solving" /\ pass <= 6
  /\ stage' = "failed" /\ paths' = {}
  /\ UNCHANGED <<shot, pass, path>>

\* Which of several optima HiGHS returns is left open.
Choose ==
  /\ stage = "solving" /\ pass > 6
  /\ \E p \in paths : path' = p
  /\ stage' = "planned" /\ paths' = {}
  /\ UNCHANGED <<shot, pass>>

-----------------------------------------------------------------------------
(* What the trace says of a frame.                                         *)

\* The acceleration of a frame is the one that ends there; the first and the last
\* frame have that of their rest.
TracedAcceleration(k) ==
  LET ends == IF k > 2 THEN {k - 1} ELSE {}
      rest == {1, Count} \intersect {k}
  IN  Max({0} \union {Acceleration(path, j) : j \in ends \union rest})

FastTrace(k) == k > 1 /\ Magnitude(Velocity(path, k)) > MotionUnit * MaxSpeed
JerkyTrace(k) == Count > 1 /\ TracedAcceleration(k) > MotionUnit * MaxAcceleration

ActionTrace(k) ==
  IF shot.limited[k] THEN "source_aspect_limited"
  ELSE IF k = 1 THEN "initial"
  ELSE IF shot.box[k] = Absent THEN "widen_on_miss"
  ELSE IF path[k] = path[k - 1] THEN "lookahead_hold" ELSE "lookahead_pan"

Trace ==
  [k \in Frame |->
    [fast |-> FastTrace(k), jerky |-> JerkyTrace(k), action |-> ActionTrace(k),
     limited |-> shot.limited[k],
     fresh |-> IF shot.sampled[k] /\ shot.box[k] # Absent THEN Shown(path, k) ELSE Absent,
     held |-> IF ~shot.sampled[k] /\ shot.box[k] # Absent THEN Shown(path, k) ELSE Absent]]

-----------------------------------------------------------------------------
(* The framing part of the report, which measures the crops once more.     *)

\* Seeded defect: the stop at the end of the shot is not measured.
MeasuredMoving ==
  {(2 * Magnitude(IF k = 2 THEN Velocity(path, k) ELSE Velocity(path, k) - Velocity(path, k - 1)))
     \div (IF k = 2 THEN Span(k) ELSE Span(k) + Span(k - 1)) : k \in Later}

\* Every frame is compared with the one before, the first one with rest over no time;
\* then comes the stop after the last.
Measured ==
  {(2 * Magnitude(IF k = 2 THEN Velocity(path, k) ELSE Velocity(path, k) - Velocity(path, k - 1)))
     \div (IF k = 2 THEN Span(k) ELSE Span(k) + Span(k - 1)) : k \in Later}
  \union {(2 * Magnitude(Velocity(path, k))) \div Span(k) : k \in Later \intersect {Count}}

FramesWith(Op(_)) == Cardinality({k \in Frame : Op(Trace[k])})

Report ==
  [speed |-> Max({0} \union {Excess(Magnitude(Velocity(path, k)), MotionUnit * MaxSpeed) : k \in Later}),
   acceleration |-> Max({0} \union {Excess(m, MotionUnit * MaxAcceleration) : m \in Measured}),
   fast |-> FramesWith(LAMBDA t : t.fast),
   jerky |-> FramesWith(LAMBDA t : t.jerky),
   uncontained |-> FramesWith(LAMBDA t : t.fresh = "outside"),
   limited |-> FramesWith(LAMBDA t : t.limited)]

\* The report, the crop path and the trace are written.
Write ==
  /\ stage = "planned"
  /\ stage' = "written"
  /\ UNCHANGED <<shot, pass, paths, path>>

CameraNext == Seed \/ SolvePass \/ SolverFails \/ Choose \/ Write

CameraSpec == CameraInit /\ [][CameraNext]_cameraVars

-----------------------------------------------------------------------------
CameraTypeOK ==
  /\ shot \in Shot
  /\ stage \in {"seed", "solving", "planned", "written", "failed"}
  /\ pass \in 1 .. 7
  /\ paths \subseteq [Frame -> 0 .. Side]
  /\ path \in [Frame -> 0 .. Side] \union {Absent}

\* docs/specs/worker/measurements-and-planner.md: the sampled boxes keep
\* "containment authoritative when motion limits conflict", and the excess is the
\* least: no camera that shows the sampled athlete is slower, and none that is as slow
\* is smoother, whatever the later programs made of it.
ExcessIsUnavoidable ==
  stage = "planned" /\ Count > 1 =>
    LET showing == {p \in [Frame -> 0 .. Side] :
                      \A k \in Frame : InSource(p, k) /\ (Binding(k) => Holds(p, k))}
    IN  /\ path \in showing
        /\ \A p \in showing :
             /\ SpeedExcess(p) >= SpeedExcess(path)
             /\ SpeedExcess(p) = SpeedExcess(path) => AccelerationExcess(p) >= AccelerationExcess(path)

\* A place from which the athlete is shown all the time, and that is in the dead zone
\* of every crop of the seed.
Post(c) ==
  \A k \in Frame : LET p == [j \in Frame |-> c]
                   IN  InSource(p, k) /\ (Binding(k) => Holds(p, k)) /\ OutsideDeadZone(p, k) = 0

\* "Small oscillations hold [the] camera" (test_planner.py:510): when one place would
\* do for the whole shot the camera does not move at all, however the seed wanders.
NoNeedlessPan ==
  stage = "planned" /\ (\E c \in 0 .. Side : Post(c)) =>
    \A j, k \in Frame : Count > 1 => path[j] = path[k]

\* The report measures the crops with other formulas than the trace, which has other
\* ones than the programs: they agree on whether the motion is too fast or too jerky,
\* and a fresh box that is not shown is one that no crop could show.
ReportMatchesTrace ==
  stage = "planned" =>
    /\ Report.speed > 0 <=> Report.fast > 0
    /\ Report.acceleration > 0 <=> Report.jerky > 0
    /\ Report.uncontained <= Report.limited
    /\ Count > 1 => Report.speed = SpeedExcess(path) /\ Report.acceleration = AccelerationExcess(path)

=============================================================================
