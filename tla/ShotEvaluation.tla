---------------------------- MODULE ShotEvaluation -----------------------------
(***************************************************************************)
(* The offline evaluation of a shot: the telemetry of the plan is compared *)
(* with what a person has annotated, every annotated frame is measured and *)
(* a failure is blamed on the first stage that shows it.                   *)
(*                                                                         *)
(* - boxes are intervals on the axis of LookaheadCamera.  The motion       *)
(*   metrics and the means, which nothing is decided by, are left out.     *)
(* - bundle and annotations are well-formed and of the same source; the    *)
(*   worker never claims that it has verified the mapping of the output.   *)
(***************************************************************************)
EXTENDS LookaheadCamera

CONSTANT Annotations  \* what a person may say of a shot: [visible, ambiguous, bounds] by frame

ASSUME AnnotationAssumption ==
  /\ Absent \notin {"yes", "no"}
  /\ \A t \in Annotations :
    /\ DOMAIN t \subseteq Nat \ {0} /\ DOMAIN t # {}
    /\ \A k \in DOMAIN t :
         /\ t[k].visible \in BOOLEAN /\ t[k].ambiguous \in BOOLEAN
         /\ t[k].visible => t[k].bounds # Absent
         /\ t[k].bounds # Absent =>
              t[k].bounds.near \in 0 .. t[k].bounds.far - 1 /\ t[k].bounds.far <= Side

VARIABLES
  truth,      \* the annotations of the shot, or Absent
  evaluation  \* the metrics of every frame, or Absent

shotVars == <<cameraVars, truth, evaluation>>

\* _debug_frame, of what _write_analysis_trace has written.
Detection(k) == IF shot.sampled[k] THEN shot.box[k] ELSE Absent
CropOf(k) == [near |-> path[k] - Extent(k) \div 2, far |-> path[k] + Extent(k) \div 2]

Overlap(b, c) == Max({0, Min({b.far, c.far}) - Max({b.near, c.near})})

\* _iou of at least SELECTION_IOU_THRESHOLD
Alike(b, c) == 2 * Overlap(b, c) >= (b.far - b.near) + (c.far - c.near) - Overlap(b, c)

Covers(c, b) == c.near <= b.near /\ b.far <= c.far

-----------------------------------------------------------------------------
(* The metrics of a frame; yes, no, or Absent: there is nothing to say.    *)

Answer(b) == IF b THEN "yes" ELSE "no"

\* Seeded defect: a frame the detector was not asked about counts as a miss.
AvailableAlways(k) == Answer(Detection(k) # Absent)

Available(k) == IF shot.sampled[k] THEN Answer(Detection(k) # Absent) ELSE Absent

Correct(k) == IF Available(k) = "yes" THEN Answer(Alike(Detection(k), truth[k].bounds)) ELSE Absent

Contained(k) == Answer(Covers(CropOf(k), truth[k].bounds))

\* _failure: the first stage that went wrong.
Blamed(k) ==
  CASE Available(k) = "no" -> "detection"
    [] Available(k) # "no" /\ Correct(k) = "no" -> "selection"
    [] Available(k) # "no" /\ Correct(k) # "no" /\ Contained(k) = "no" -> "framing"
    [] OTHER -> "none"

Unmeasured(failure) == [available |-> Absent, correct |-> Absent, contained |-> Absent, failure |-> failure]

\* _frame_metrics; evaluate() adds the annotated frames that were not recorded.
Metrics(k) ==
  IF k \notin Frame \intersect DOMAIN truth THEN Unmeasured("insufficient_annotation")
  ELSE IF truth[k].ambiguous THEN Unmeasured("insufficient_annotation")
  ELSE IF ~truth[k].visible THEN Unmeasured("none")
  ELSE [available |-> Available(k), correct |-> Correct(k), contained |-> Contained(k),
        failure |-> Blamed(k)]

\* _aggregate
Aggregate(m) ==
  LET asked == {k \in DOMAIN m : m[k].available # Absent}
      clear == {k \in DOMAIN m : m[k].available # Absent \/ m[k].contained # Absent}
      Those(f, answer) == Cardinality({k \in clear : m[k][f] = answer})
  IN  [frames |-> Cardinality(clear), asked |-> Cardinality(asked),
       available |-> Those("available", "yes"),
       correct |-> Those("correct", "yes"), wrong |-> Those("correct", "no"),
       contained |-> Those("contained", "yes")]

FirstFailure(m) ==
  LET failed == {k \in DOMAIN m : m[k].failure # "none"} IN IF failed = {} THEN Absent ELSE Min(failed)

-----------------------------------------------------------------------------
ShotInit == CameraInit /\ truth = Absent /\ evaluation = Absent

Plan == CameraNext /\ UNCHANGED <<truth, evaluation>>

Annotate ==
  /\ stage = "written" /\ truth = Absent
  /\ truth' \in Annotations
  /\ UNCHANGED <<cameraVars, evaluation>>

Evaluate ==
  /\ truth # Absent /\ evaluation = Absent
  /\ LET metrics == [k \in Frame \union DOMAIN truth |-> Metrics(k)] IN
       evaluation' = [metrics |-> metrics, aggregate |-> Aggregate(metrics), first |-> FirstFailure(metrics)]
  /\ UNCHANGED <<cameraVars, truth>>

ShotNext == Plan \/ Annotate \/ Evaluate

ShotSpec == ShotInit /\ [][ShotNext]_shotVars

-----------------------------------------------------------------------------
Known == {"detection", "selection", "framing", "insufficient_annotation", "none"}

ShotTypeOK ==
  /\ CameraTypeOK
  /\ truth \in Annotations \union {Absent}
  /\ evaluation # Absent => \A k \in DOMAIN evaluation.metrics : evaluation.metrics[k].failure \in Known

Clear(k) == k \in DOMAIN truth /\ truth[k].visible /\ ~truth[k].ambiguous

\* Planner and evaluation agree on whose fault it is: an athlete who is out of the
\* crop is always a failure, framing is blamed only for that, and never on a frame
\* whose box was right and fresh, unless no crop could show it.
BlameIsJust ==
  evaluation # Absent =>
    \A k \in {j \in Frame : Clear(j)} :
      LET failure == evaluation.metrics[k].failure
          shown == Covers(CropOf(k), truth[k].bounds)
      IN  /\ ~shown => failure # "none"
          /\ failure = "framing" =>
               /\ ~shown
               /\ shot.sampled[k] /\ shot.box[k] = truth[k].bounds => shot.limited[k]
          /\ failure = "detection" => shot.sampled[k] /\ shot.box[k] = Absent

=============================================================================
