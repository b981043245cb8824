--------------------------- MODULE ProcessingAttempt ---------------------------
(***************************************************************************)
(* An attempt and its scratch directory: the stages from the one at which  *)
(* the attempt resumes, each on files that earlier stages left or, in the  *)
(* new directory of a retry, did not leave; the evidence they collect when *)
(* debug_capture is on; and its publication after the last stage or the    *)
(* first that failed.  CropRendering renders, ReviewRendering reviews.     *)
(*                                                                         *)
(* - the file of a source is its name; that normalisation may leave a part *)
(*   of a file is up to FFmpeg, which writes in place.                     *)
(* - the job is valid: its source, selection and settings are accepted.    *)
(* - a record of the stage trace stands for those of start and end.        *)
(***************************************************************************)
EXTENDS ReviewRendering

VARIABLES
  timing,    \* frames of the source: constant or variable
  capture,   \* debug_capture
  now,       \* the stage
  at,        \* where the stage is: enter, inputs, crops, render, leave; then ended or collected
  original,  \* source-original is there
  cfr,       \* source-cfr.mp4: NoFile, partial or whole
  report,    \* analysis-report.json is there
  crops,     \* crop-path.jsonl: the source it was made of, or NoFile
  trace,     \* analysis-trace.jsonl: [of, validated], or NoFile
  trail,     \* debug-stages.jsonl
  bundle     \* debug.jsonl.gz

sources == <<original, cfr>>
evidence == <<trace, trail, bundle>>
fixed == <<timing, capture>>
scratch == <<sources, report, crops, evidence>>
attemptVars == <<fixed, now, at, scratch>>
everything == <<allVars, attemptVars>>

Stages == <<"validating", "analyzing", "rendering", "uploading">>

Origins == {"original", "normalized"}

ASSUME TraceAssumption ==
  NoFile \notin Origins \union {"partial", "whole"} \union [of : Origins, validated : BOOLEAN]

AttemptInit ==
  /\ ReviewInit
  /\ timing \in {"constant", "variable"} /\ capture \in BOOLEAN
  /\ now \in DOMAIN Stages /\ at = "enter"
  /\ stage = IF now = 4 THEN "uploading" ELSE "rendering"
  /\ original = FALSE /\ cfr = NoFile /\ report = FALSE /\ crops = NoFile
  /\ trace = NoFile /\ trail = <<>> /\ bundle = NoFile

\* A required call raises in a stage.
Raises == Fault /\ pc' = "raised" /\ at' = "leave"

\* What nothing but rendering changes.
rest == <<stage, next, decoder, files, input, ffmpeg, uploaded, stuck>>

-----------------------------------------------------------------------------
(* The stages.                                                             *)

\* ensure_lease, transition and update come before the trace of the stage: when they
\* raise there is no review.
Enter ==
  /\ at = "enter"
  /\ \/ at' = "inputs" /\ UNCHANGED <<pc, step, faults>>
     \/ Fault /\ at' = "ended" /\ pc' = "raised" /\ step' = "unpublished"
  /\ UNCHANGED <<rest, rate, todo, outcome, phases, late, processes, status, videos>>
  /\ UNCHANGED <<fixed, now, scratch>>

\* The file _inputs comes to: it takes a normalised one that is there as it is.
Source ==
  IF timing = "constant" THEN "original" ELSE IF cfr = "partial" THEN "partial" ELSE "normalized"

\* _inputs: what is not there is downloaded and normalised.
Acquired == original' = TRUE /\ cfr' = IF timing = "variable" /\ cfr = NoFile THEN "whole" ELSE cfr

\* A download is moved to its place when it is complete, a normalised file is not.
Unacquired ==
  /\ original' \in {original, TRUE}
  /\ cfr' \in IF timing = "variable" /\ original' /\ cfr = NoFile
              THEN {NoFile, "partial", "whole"} ELSE {cfr}

Inputs ==
  /\ at = "inputs"
  /\ \/ Acquired /\ at' = (IF now = 1 THEN "leave" ELSE "crops") /\ UNCHANGED <<pc, faults>>
     \/ Unacquired /\ Raises
  /\ UNCHANGED <<rest, reviewVars, fixed, now, report, crops, evidence>>

Analyzed == IF now = 2 THEN "leave" ELSE "render"

\* Seeded defect: only an OSError of the trace is swallowed.
KeepSmallTrace ==
  \/ /\ trace' = [of |-> Source, validated |-> FALSE]
     /\ at' = Analyzed /\ UNCHANGED pc
  \/ /\ trace' = NoFile
     /\ at' = "leave" /\ pc' = "raised"

\* A trace that exceeds its limits, or cannot be written, is given up.
KeepTrace ==
  /\ trace' \in {NoFile, [of |-> Source, validated |-> FALSE]}
  /\ at' = Analyzed /\ UNCHANGED pc

\* _crop_path: a crop path that is there is read.  Otherwise the source is analysed;
\* report, crop path and trace are moved to their places in this order.
CropPath ==
  /\ at = "crops"
  /\ \/ /\ crops # NoFile
        /\ at' = Analyzed
        /\ UNCHANGED <<pc, report, crops, trace, faults>>
     \/ /\ crops = NoFile
        /\ report' = TRUE /\ crops' = Source
        /\ IF capture THEN KeepTrace ELSE at' = Analyzed /\ UNCHANGED <<pc, trace>>
        /\ UNCHANGED faults
     \/ /\ Raises
        /\ report' \in {report, TRUE}
        /\ UNCHANGED <<crops, trace>>
  /\ UNCHANGED <<rest, reviewVars, fixed, now, sources, trail, bundle>>

Rendering ==
  /\ at = "render"
  /\ Render \/ FFmpeg
  /\ UNCHANGED <<reviewVars, attemptVars>>

Marked == IF trace = NoFile THEN trace ELSE [trace EXCEPT !.validated = TRUE]

\* _render has marked the trace, or failed to, which is swallowed.  Then the progress
\* is logged, or the output uploaded and finalised.
Conclude ==
  /\ at = "render" /\ pc = "rendered"
  /\ \/ /\ at' = "leave" /\ UNCHANGED <<pc, uploaded>>
        /\ \/ trace' = Marked /\ UNCHANGED faults
           \/ trace # NoFile /\ Fault /\ UNCHANGED trace
     \/ /\ Raises /\ trace' \in {trace, Marked}
        /\ uploaded' \in IF now = 4 THEN {uploaded, output} ELSE {uploaded}
  /\ UNCHANGED <<stage, next, decoder, files, input, ffmpeg, stuck>>
  /\ UNCHANGED <<reviewVars, fixed, now, sources, report, crops, trail, bundle>>

\* The trace of the stages; that a record cannot be written is swallowed.
Recorded(record) ==
  \/ trail' = (IF capture THEN Append(trail, record) ELSE trail) /\ UNCHANGED faults
  \/ capture /\ Fault /\ UNCHANGED trail

Failed == pc = "raised" /\ at \in {"render", "leave"}

Leave ==
  /\ at = "leave" \/ Failed
  /\ Recorded([stage |-> Stages[now], failed |-> Failed])
  /\ IF Failed THEN at' = "ended" /\ UNCHANGED <<rest, pc, now>>
     ELSE /\ at' = (IF now = 4 THEN "ended" ELSE "enter")
          /\ now' = (IF now = 4 THEN now ELSE now + 1)
          /\ IF now < 3 THEN UNCHANGED <<rest, pc>> ELSE Proceed
  /\ UNCHANGED <<reviewVars, fixed, sources, report, crops, trace, bundle>>

-----------------------------------------------------------------------------
(* publish_debug.                                                          *)

\* Seeded defect: the header describes the file that was uploaded.
CollectedUploaded(header) ==
  [header |-> IF header = NoFile THEN NoFile ELSE "original", trail |-> trail, trace |-> trace]

\* The bundle: a header, and the two traces as they are.
Collected(header) == [header |-> header, trail |-> trail, trace |-> trace]

\* _inputs again, of which every error is swallowed, then DebugBundleWriter: a bundle
\* that would exceed its limit is deleted, and with it the review is given up.
Collect ==
  /\ at = "ended" /\ step = "waiting"
  /\ IF ~capture THEN step' = "unpublished" /\ UNCHANGED <<at, sources, bundle, faults>>
     ELSE \/ Acquired /\ bundle' = Collected(Source) /\ at' = "collected" /\ UNCHANGED <<step, faults>>
          \/ /\ Unacquired /\ bundle' = Collected(NoFile) /\ at' = "collected"
             /\ IF Source = "partial" THEN UNCHANGED faults ELSE Fault
             /\ UNCHANGED step
          \/ Acquired /\ step' = "unpublished" /\ UNCHANGED <<at, bundle, faults>>
  /\ UNCHANGED <<rest, pc, rate, todo, outcome, phases, late, processes, status, videos>>
  /\ UNCHANGED <<fixed, now, report, crops, trace, trail>>

\* _load_analysis_records raises when the trace is missing, and that is swallowed.
Reviewable == bundle.header # NoFile /\ trace # NoFile

Review ==
  /\ at = "collected"
  /\ \/ Begin /\ (Reviewable \/ (step' = "manifest" /\ phases' = phases))
     \/ StartPhase \/ Join \/ Finally \/ Reap \/ Judge \/ Rendered
     \/ bundle.header # NoFile /\ WriteManifest
  /\ UNCHANGED attemptVars

\* Without inputs the manifest has no timing.
NoManifest ==
  /\ at = "collected" /\ step = "manifest" /\ bundle.header = NoFile
  /\ step' = "unpublished"
  /\ UNCHANGED <<vars, rate, todo, outcome, phases, late, processes, status, videos, attemptVars>>

-----------------------------------------------------------------------------
Worker ==
  \/ Enter \/ Inputs \/ CropPath \/ Conclude \/ Leave
  \/ Collect \/ Review \/ NoManifest

Environment == (Children \/ Deadline) /\ UNCHANGED attemptVars

AttemptNext == Worker \/ Rendering \/ Environment

AttemptSpec == AttemptInit /\ [][AttemptNext]_everything

\* The worker runs; the FFmpeg of the output reads its input and ends at its end.
\* Neither a child nor its FFmpeg need make progress: the clock does.
FairAttemptSpec ==
  /\ AttemptSpec
  /\ WF_everything(Worker)
  /\ WF_everything(Rendering /\ Render)
  /\ WF_everything(Rendering /\ Encode)
  /\ WF_everything(Rendering /\ End)
  /\ WF_everything(Deadline /\ UNCHANGED attemptVars)

-----------------------------------------------------------------------------
AttemptTypeOK ==
  /\ TypeOK /\ ReviewTypeOK
  /\ timing \in {"constant", "variable"} /\ capture \in BOOLEAN
  /\ now \in DOMAIN Stages
  /\ at \in {"enter", "inputs", "crops", "render", "leave", "ended", "collected"}
  /\ original \in BOOLEAN /\ cfr \in {NoFile, "partial", "whole"}
  /\ report \in BOOLEAN /\ crops \in Origins \union {NoFile}
  /\ trace \in [of : Origins, validated : BOOLEAN] \union {NoFile}
  /\ Len(trail) <= 4

\* docs/specs/worker/debug-telemetry-and-evaluation.md: capture "cannot change required
\* output processing".  While no call fails the output is uploaded and its report
\* is there, whatever becomes of the evidence, and whatever stage was resumed.
EvidenceDecidesNothing ==
  faults = 0 => /\ pc # "raised"
                /\ at \in {"ended", "collected"} => uploaded # NoFile /\ report

\* What the telemetry says is true of this attempt, whichever call failed: its header
\* is of the file its frames and the crop path were made of, an output it calls
\* validated is complete, and phases that are shown come with their frames.
TelemetryIsTrue ==
  /\ trace # NoFile => trace.of = crops /\ (trace.validated => output # NoFile /\ Complete(output))
  /\ at = "collected" =>
       /\ bundle.trace # NoFile => bundle.header \in {NoFile, bundle.trace.of}
       /\ (\E p \in Phase : phases[p] = "ready") => bundle.trace # NoFile
       /\ \A k \in DOMAIN bundle.trail :
            bundle.trail[k].failed <=> pc = "raised" /\ bundle.trail[k].stage = Stages[now]

\* Whatever failed while they were made and checked, and whatever was left running: the
\* output has all its frames, in the cache and in S3; and the videos of the phases that
\* are shown were finished by their FFmpeg, are no longer written to, and are within
\* the limit of bytes together.
VideosAreFinished == OutputIsComplete /\ ReadyIsFinished

\* What rendering has left behind when it is over is gone, and of the phases of the
\* review nothing is left that the worker neither ended nor told to end, unless a call
\* of its clean-up failed or a child had died.
NothingIsLeft == NothingLeftBehind /\ NothingOutlivesPhase

\* Worker and FFmpeg never wait for each other for ever, and whatever the children
\* do, the attempt ends, with its review or without.
AttemptEnds == <>(step \in {"published", "unpublished"})
=============================================================================
