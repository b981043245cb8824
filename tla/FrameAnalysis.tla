----------------------------- MODULE FrameAnalysis -----------------------------
(***************************************************************************)
(* The analysis of one video: which frames are given to the detector, how  *)
(* the tapped athlete is followed from the selected frame in both          *)
(* directions, which box guides the camera on every frame, and what the    *)
(* report and the review say about it.                                     *)
(*                                                                         *)
(* - a box is a centre and a half-width on a line: its diagonal is 2*half. *)
(* - the crops are the planner's: whether a crop contains a held box is    *)
(*   left open (outside), and stands for its other warnings too.           *)
(***************************************************************************)
EXTENDS MediaTime, FiniteSets, FiniteSetsExt, Sequences

CONSTANTS
  Job,           \* videos with the settings and the tap they are analysed with
  MaxIntervals,  \* warning intervals kept per phase, 100 in the code
  MaxCandidates, \* boxes kept as evidence of one association, 32 in the code
  None

\* A detection.
Person == [centre : Int, half : Nat]

ASSUME AnalysisAssumption ==
  /\ \A j \in Job :
       /\ j.clip \in [frames : Nat \ {0}, num : Nat \ {0}, den : Nat \ {0}]
       /\ j.fps \in [num : Nat, den : Nat \ {0}]   \* detection_sample_fps
       /\ j.time \in Nat                            \* of the tap, in milliseconds
       /\ j.tap \in Int
       /\ j.scene # {} /\ j.scene \subseteq Seq(Person)  \* what the detector may return
  /\ None \notin Person /\ None \notin Seq(Person) /\ None \notin Nat
  /\ MaxIntervals \in Nat /\ MaxCandidates \in Nat \ {0}

-----------------------------------------------------------------------------
(* Sampling.                                                               *)

\* Seeded defect: the last frame before each tick of the grid.
SampledBefore(c, f, sel, i) ==
  LET n == f.num * c.den
      d == f.den * c.num
  IN  n = 0 \/ n >= d \/ i \in {0, sel} \/ ((i + 1) * n) \div d > (i * n) \div d

\* Frames that cross a tick of the grid, on the exact rational clock, and the
\* selected frame.  A rate of 0 samples every frame.
Sampled(c, f, sel, i) ==
  LET n == f.num * c.den
      d == f.den * c.num
  IN  n = 0 \/ n >= d \/ i \in {0, sel} \/ (i * n) \div d > ((i - 1) * n) \div d

-----------------------------------------------------------------------------
(* Association.                                                            *)

Distance(b, point) == IF b.centre > point THEN b.centre - point ELSE point - b.centre

Contains(b, point) == Distance(b, point) <= b.half

\* _select: among those that contain the point, or all, the first nearest one.
\* The list is a function of some indexes.
Choose(list, point) ==
  LET containing == {k \in DOMAIN list : Contains(list[k], point)}
      pool == IF containing # {} THEN containing ELSE DOMAIN list
  IN  CHOOSE k \in pool :
        \A l \in pool : \/ Distance(list[k], point) < Distance(list[l], point)
                        \/ Distance(list[k], point) = Distance(list[l], point) /\ k <= l

\* select_target_with_association: nobody may be there.
SelectTarget(list, point) == IF list = <<>> THEN None ELSE list[Choose(list, point)]

\* A centre moves by at most 1.5 diagonals of the reference box.
Gate(b, reference) == Distance(b, reference.centre) <= 3 * reference.half

\* Those within the gate, in the order of the list.
Admitted(list, reference) ==
  LET admitted[k \in 0 .. Len(list)] ==
        IF k = 0 THEN <<>>
        ELSE IF Gate(list[k], reference) THEN Append(admitted[k - 1], list[k]) ELSE admitted[k - 1]
  IN  admitted[Len(list)]

Associate(list, reference) == SelectTarget(Admitted(list, reference), reference.centre)

-----------------------------------------------------------------------------
(* What the telemetry bundle says of one association.                      *)

\* Seeded defect: the selected box is cut like any other.
RetainedFirst(n, k) == {j \in 1 .. n : j <= MaxCandidates}

\* _retained_candidates: the first ones, the last of which gives way to the selected one.
Retained(n, k) ==
  LET wanted == {j \in 1 .. n : j <= MaxCandidates \/ j = k}
  IN  IF Cardinality(wanted) > MaxCandidates THEN wanted \ {MaxCandidates} ELSE wanted

Evidence(outcome, point, list, k) ==
  LET retained == Retained(Len(list), k)
  IN  [outcome |-> outcome, point |-> point, count |-> Len(list),
       candidates |-> [j \in retained |-> list[j]],
       selected |-> IF outcome = "rejected" THEN {} ELSE {k} \intersect retained,
       truncated |-> Cardinality(retained) < Len(list)]

SelectionEvidence(list, point) ==
  IF list = <<>> THEN Evidence("nobody", point, list, 0)
  ELSE LET k == Choose(list, point)
       IN  Evidence(IF Contains(list[k], point) THEN "containing" ELSE "nearest", point, list, k)

\* When the gate turns everybody away, the first of them are shown.
AssociationEvidence(list, reference) ==
  IF list # <<>> /\ Admitted(list, reference) = <<>>
  THEN Evidence("rejected", reference.centre, list, 1)
  ELSE SelectionEvidence(Admitted(list, reference), reference.centre)

-----------------------------------------------------------------------------
VARIABLES
  job,
  phase, i,               \* the loop that runs, and its index
  seen,      \* what the detector returned, None where it was not asked
  box,       \* the accepted box of each frame, or None
  association, \* AssociationEvidence of each frame, or None
  reference, \* reference_bounds
  held,      \* the box held by _planner_measurements
  guide,     \* the detector bounds of each measurement, or None
  outside,   \* held boxes that left the crop
  gap,       \* the gap accounting of the report
  active,    \* starts of the warnings that are on
  warnings   \* the warning intervals of the phase under review

results == <<seen, box, association, guide, outside>>
analysisVars == <<job, phase, i, results, reference, held, gap, active, warnings>>

video == job.clip
fps == job.fps

Frame == 0 .. video.frames - 1
Selected == FrameForTime(video, job.time)
Now == Timestamp(video, i)
IsSampled(k) == Sampled(video, fps, Selected, k)

\* _inputs rejects a time outside the clip.
AnalysisInit ==
  /\ job \in Job /\ job.time < DurationMs(video)
  /\ phase = "decode" /\ i = 0
  /\ seen = [k \in Frame |-> None] /\ box = [k \in Frame |-> None]
  /\ association = [k \in Frame |-> None]
  /\ guide = [k \in Frame |-> None] /\ outside = {}
  /\ reference = None /\ held = None
  /\ gap = [start |-> None, count |-> 0, longest |-> 0, unavailable |-> 0]
  /\ active = [l \in {"missed", "unavailable", "outside"} |-> None] /\ warnings = {}

ReadFrame ==
  /\ phase = "decode" /\ i \in Frame
  /\ \E list \in IF IsSampled(i) THEN job.scene ELSE {None} : seen' = [seen EXCEPT ![i] = list]
  /\ i' = i + 1
  /\ UNCHANGED <<job, phase, box, association, guide, outside, reference, held, gap, active, warnings>>

\* The reader or the detector fails, or frames are missing or inconsistent.
ReadFails ==
  /\ phase = "decode"
  /\ phase' = "failed"
  /\ UNCHANGED <<job, i, results, reference, held, gap, active, warnings>>

\* Nobody at the selected frame fails the job with no_selected_athlete.
Select ==
  /\ phase = "decode" /\ i \notin Frame
  /\ LET target == SelectTarget(seen[Selected], job.tap) IN
       IF target = None
       THEN phase' = "failed" /\ UNCHANGED <<i, box, association, reference>>
       ELSE /\ box' = [box EXCEPT ![Selected] = target]
            /\ association' = [association EXCEPT ![Selected] = SelectionEvidence(seen[Selected], job.tap)]
            /\ reference' = target
            /\ phase' = "forward" /\ i' = Selected + 1
  /\ UNCHANGED <<job, seen, guide, outside, held, gap, active, warnings>>

\* One iteration of _associate_from_selected.
Follow ==
  /\ phase \in {"forward", "backward"} /\ i \in Frame
  /\ IF seen[i] = None
     THEN UNCHANGED <<box, association, reference>>
     ELSE /\ association' = [association EXCEPT ![i] = AssociationEvidence(seen[i], reference)]
          /\ box' = [box EXCEPT ![i] = Associate(seen[i], reference)]
          /\ reference' = IF box'[i] # None THEN box'[i] ELSE reference
  /\ i' = IF phase = "forward" THEN i + 1 ELSE i - 1
  /\ UNCHANGED <<job, phase, seen, guide, outside, held, gap, active, warnings>>

\* Seeded defect: the backward pass goes on from where the forward pass ended.
TurnWithoutReset ==
  /\ phase = "forward" /\ i \notin Frame
  /\ phase' = "backward" /\ i' = Selected - 1
  /\ UNCHANGED <<job, results, reference, held, gap, active, warnings>>

Turn ==
  /\ phase = "forward" /\ i \notin Frame
  /\ phase' = "backward" /\ i' = Selected - 1
  /\ reference' = box[Selected]
  /\ UNCHANGED <<job, results, held, gap, active, warnings>>

Measure ==
  /\ phase = "backward" /\ i \notin Frame
  /\ phase' = "measure" /\ i' = 0
  /\ UNCHANGED <<job, results, reference, held, gap, active, warnings>>

\* One iteration of _planner_measurements, and of the planner for this frame, which
\* refuses times that do not increase: above 1000 frames per second two frames may have
\* the same millisecond.
Hold ==
  /\ phase = "measure" /\ i \in Frame
  /\ i > 0 => Timestamp(video, i - 1) < Now
  /\ held' = IF IsSampled(i) THEN box[i] ELSE held
  /\ guide' = [guide EXCEPT ![i] = held']
  /\ outside' \in IF ~IsSampled(i) /\ held' # None THEN {outside, outside \union {i}} ELSE {outside}
  /\ i' = i + 1
  /\ UNCHANGED <<job, phase, seen, box, association, reference, gap, active, warnings>>

\* The planner refuses a frame, or finds no path through all of them.
PlanFails ==
  /\ phase = "measure"
  /\ phase' = "failed"
  /\ UNCHANGED <<job, i, results, reference, held, gap, active, warnings>>

\* A gap that is open at the end of the loop lasts to the end of the grid.
CloseGap ==
  IF gap.start = None THEN gap
  ELSE [gap EXCEPT !.longest = Max({@, Timestamp(video, video.frames) - gap.start})]

\* One iteration of the loop of _analysis_report.
Report ==
  /\ phase = "measure" /\ i \notin Frame /\ phase' = "report" /\ i' = 0
  /\ UNCHANGED <<job, results, reference, held, gap, active, warnings>>

Count ==
  /\ phase = "report" /\ i \in Frame
  /\ gap' = IF guide[i] = None
            THEN [gap EXCEPT !.unavailable = @ + 1,
                             !.count = IF gap.start = None THEN @ + 1 ELSE @,
                             !.start = IF @ = None THEN Now ELSE @]
            ELSE [gap EXCEPT !.longest = IF gap.start = None THEN @ ELSE Max({@, Now - gap.start}),
                             !.start = None]
  /\ i' = i + 1
  /\ UNCHANGED <<job, phase, results, reference, held, active, warnings>>

-----------------------------------------------------------------------------
(* The review: warning intervals of the detection and of the framing phase. *)

Labels(p) == IF p = "detection" THEN {"missed"} ELSE {"unavailable", "outside"}

Warned(l, k) ==
  CASE l = "missed" -> IsSampled(k) /\ box[k] = None
    [] l = "unavailable" -> guide[k] = None
    [] OTHER -> k \in outside

On == {l \in DOMAIN active : active[l] # None}

Interval(l, end) == [label |-> l, start |-> active[l], end |-> end]

\* At the end of the loop the active warnings end at the last timestamp.
Final ==
  warnings \union {Interval(l, Timestamp(video, video.frames - 1)) : l \in On}

\* Intervals are sorted by start and label and cut.
Earlier(v, w) == v.start < w.start \/ (v.start = w.start /\ v.label = "unavailable" /\ w.label = "outside")

Kept == {w \in Final : Cardinality({v \in Final : Earlier(v, w)}) < MaxIntervals}

NextPhase == [report |-> "detection", detection |-> "framing", framing |-> "done"]

EnterReview ==
  /\ phase \in DOMAIN NextPhase /\ i \notin Frame
  /\ phase' = NextPhase[phase] /\ i' = 0
  /\ gap' = IF phase = "report" THEN CloseGap ELSE gap
  /\ warnings' = {} /\ active' = [l \in DOMAIN active |-> None]
  /\ UNCHANGED <<job, results, reference, held>>

\* Seeded defect: a warning that goes on starts anew.
WarnAnew ==
  /\ phase \in {"detection", "framing"} /\ i \in Frame
  /\ LET current == {l \in Labels(phase) : Warned(l, i)}
     IN  /\ warnings' = warnings \union {Interval(l, Now) : l \in On \ current}
         /\ active' = [l \in DOMAIN active |-> IF l \in current THEN Now ELSE None]
  /\ i' = i + 1
  /\ UNCHANGED <<job, phase, results, reference, held, gap>>

\* One iteration of the loop of _review_warning_intervals.
Warn ==
  /\ phase \in {"detection", "framing"} /\ i \in Frame
  /\ LET current == {l \in Labels(phase) : Warned(l, i)}
     IN  /\ warnings' = warnings \union {Interval(l, Now) : l \in On \ current}
         /\ active' = [l \in DOMAIN active |-> IF l \notin current THEN None
                                               ELSE IF active[l] = None THEN Now ELSE active[l]]
  /\ i' = i + 1
  /\ UNCHANGED <<job, phase, results, reference, held, gap>>

AnalysisNext ==
  \/ ReadFrame \/ ReadFails \/ Select \/ Follow \/ Turn \/ Measure
  \/ Hold \/ PlanFails \/ Report \/ Count \/ EnterReview \/ Warn

AnalysisSpec == AnalysisInit /\ [][AnalysisNext]_analysisVars

-----------------------------------------------------------------------------
Box == UNION {{list[k] : k \in DOMAIN list} : list \in job.scene}

AnalysisTypeOK ==
  /\ job \in Job
  /\ phase \in {"decode", "forward", "backward", "measure", "report", "detection",
                "framing", "done", "failed"}
  /\ i \in -1 .. video.frames
  /\ seen \in [Frame -> job.scene \union {None}]
  /\ box \in [Frame -> Box \union {None}] /\ guide \in [Frame -> Box \union {None}]
  /\ DOMAIN association = Frame /\ outside \subseteq Frame
  /\ reference \in IF phase \in {"decode", "failed"} THEN {None} ELSE Box
  /\ held \in Box \union {None}
  /\ gap \in [start : Nat \union {None}, count : Nat, longest : Nat, unavailable : Nat]
  /\ active \in [{"missed", "unavailable", "outside"} -> Nat \union {None}]
  /\ \A w \in warnings : w.label \in DOMAIN active /\ w.start \in Nat /\ w.end \in Nat

\* docs/specs/worker/measurements-and-planner.md: "Detect the first frame at or after
\* each grid time and always include the exact selected frame": tick t is at
\* t/fps seconds, frame k at k/rate.
OnGrid(k) ==
  LET step == fps.num * video.den
      one == fps.den * video.num
  IN  \E t \in 0 .. (k * step) \div one : t * one <= k * step /\ t * one > (k - 1) * step

\* A time inside the clip selects a frame of it, whatever the rounding (the index in
\* _crop_path never fails), and the detector ran on exactly those frames; with a
\* rate of 0, on all.
DetectsOnGrid ==
  phase = "decode" /\ i \notin Frame =>
    /\ Selected \in Frame
    /\ \A k \in Frame : seen[k] # None <=> fps.num = 0 \/ k = Selected \/ OnGrid(k)

\* The frame with a box that is nearest to k on the way back to the selection.
Prior(k) ==
  IF k > Selected THEN Max({j \in Selected .. k - 1 : box[j] # None})
  ELSE Min({j \in k + 1 .. Selected : box[j] # None})

\* Every sampled frame is associated with the nearest box that was accepted before.
FollowsNearestBox ==
  phase = "measure" =>
    \A k \in Frame \ {Selected} :
      box[k] = IF seen[k] = None THEN None ELSE Associate(seen[k], box[Prior(k)])

\* The camera is guided by the latest sampled result.
GuidedByLatestSample ==
  phase = "report" =>
    \A k \in Frame : guide[k] = box[Max({j \in 0 .. k : seen[j] # None})]

\* The box that guides the camera on a frame is the one that following the tapped
\* athlete outwards from the selection, in both directions and across misses, gives for
\* the latest sampled frame before it, and a sampled miss clears it: neither the pass
\* that ran last nor a box from before a miss has a say.
GuidedByFollowedAthlete == FollowsNearestBox /\ GuidedByLatestSample

\* The checks of AssociationEvidence and RawFrameObservation hold of the evidence e of an
\* association that accepted the box accepted, and the rule of the documentation, applied
\* to the retained candidates, accepts it too.
Sound(e, accepted) ==
  LET retained == DOMAIN e.candidates
  IN  /\ Cardinality(retained) <= MaxCandidates /\ Cardinality(retained) <= e.count
      /\ e.truncated <=> e.count > Cardinality(retained)
      /\ IF e.outcome \in {"nobody", "rejected"}
         THEN accepted = None /\ e.selected = {} /\ (e.outcome = "nobody" <=> e.count = 0)
         ELSE /\ e.selected = {Choose(e.candidates, e.point)}
              /\ accepted = e.candidates[Choose(e.candidates, e.point)]
              /\ e.outcome = "containing" <=> Contains(accepted, e.point)

\* The checks of AssociationEvidence and RawFrameObservation, which would fail the job,
\* hold of every association, however many people are there; and whoever applies the
\* documented rule to the retained candidates finds the box that was accepted.
EvidenceIsSound == \A k \in Frame : association[k] # None => Sound(association[k], box[k])

\* First and past-the-end frames of the gaps of the clip.
Gaps ==
  {g \in Frame \X (1 .. video.frames) :
     /\ g[1] < g[2] /\ \A k \in g[1] .. g[2] - 1 : guide[k] = None
     /\ g[1] > 0 => guide[g[1] - 1] # None
     /\ g[2] < video.frames => guide[g[2]] # None}

\* The gaps of the report are those of the guide.
ReportsGaps ==
  phase = "detection" =>
    /\ gap.count = Cardinality(Gaps)
    /\ gap.longest = Max({Timestamp(video, g[2]) - Timestamp(video, g[1]) : g \in Gaps} \union {0})
    /\ gap.unavailable = Cardinality({k \in Frame : guide[k] = None})

\* What the API and the web page demand of an interval.
ValidInterval(w) ==
  w.start \in 0 .. DurationMs(video) /\ w.end \in w.start .. DurationMs(video)

\* The kept intervals show the frame k as warned.  At the last frame an interval that just
\* ended cannot be told from one that goes on.
Displayed(l, k) ==
  LET at == Timestamp(video, k)
  IN  \E w \in Kept : /\ w.label = l /\ w.start <= at
                      /\ (at < w.end \/ (k = video.frames - 1 /\ at = w.end))

\* The intervals of a phase show exactly its warned frames.
WarningsCoverFrames ==
  phase \in {"detection", "framing"} /\ i \notin Frame =>
    /\ \A w \in Kept : ValidInterval(w)
    /\ \A l \in Labels(phase), k \in Frame :
         /\ Warned(l, k) =>
              \/ Displayed(l, k)
              \/ Cardinality(Kept) = MaxIntervals /\ \A w \in Kept : w.start <= Timestamp(video, k)
         /\ Displayed(l, k) => Warned(l, k) \/ k = video.frames - 1

\* What the user is told of an analysis is what happened in it.  The gaps of the report
\* are the "contiguous unavailable-target runs", the longest "from the first missing frame
\* to reacquisition or the exclusive CFR frame-grid end"
\* (docs/specs/worker/runtime-and-pipeline.md); the warning intervals of the review show
\* exactly the warned frames, as far as MaxIntervals allows, and are accepted by the API
\* and the web page.
ToldAsItWas == ReportsGaps /\ WarningsCoverFrames
=============================================================================
