---------------------------- MODULE ReviewRendering ----------------------------
(***************************************************************************)
(* The visual review that follows rendering in an attempt: a child process *)
(* per phase draws a video and has FFmpeg encode it, all under one         *)
(* deadline and one limit of bytes; the manifest says what came of it, the *)
(* API projects the manifest and the web page judges the answer.           *)
(*                                                                         *)
(* - how the objects are uploaded and linked is ReviewPublication; here    *)
(*   that succeeds.  The warning intervals of a phase are FrameAnalysis.   *)
(* - the frames of a video are not modelled: nobody counts them, so that a *)
(*   shorter video, too, is ready when its FFmpeg has ended with 0.        *)
(* - summaries are counts under fixed names and left out.                  *)
(* - that a child raises for anything but its frames, or fails to write    *)
(*   its status file, is that it dies.                                     *)
(***************************************************************************)
EXTENDS CropRendering, MediaTime

CONSTANTS
  Rate,         \* frame rates [num, den] of the source
  MaxDuration,  \* review_max_duration_ms
  MaxBytes,     \* review_max_bytes
  MaxSize       \* bound on the size of one video

ASSUME ReviewAssumption ==
  /\ Rate \subseteq [num : Nat \ {0}, den : Nat \ {0}]
  /\ MaxDuration \in Nat /\ MaxBytes \in Nat /\ MaxSize \in Nat \ {0}
  /\ NoFile # "ready" /\ NoFile \notin [size : Nat, ended : BOOLEAN]

Phases == <<"detection", "framing", "render">>
Phase == {"detection", "framing", "render"}

VARIABLES
  rate,
  step,      \* where publish_debug is
  todo,      \* the phases to render
  late,      \* the deadline has passed
  child,     \* the process of each phase: none, drawing, encoding, exited, crashed, or
             \* reaped: told to end, with its process group, and ended
  encoders,  \* phases whose FFmpeg runs
  status,    \* the status file of each phase
  videos,    \* the file of each phase: its size, and whether FFmpeg ended it with 0
  outcome,   \* what came of the phase: ready, or the reason it is not
  phases,    \* what render() says of each phase; NoFile: nothing
  leaked     \* history: phases whose child was alive and not reaped

work == <<step, todo, outcome, phases>>
processes == <<child, encoders, leaked>>
reviewVars == <<rate, work, late, processes, status, videos>>

clip == [frames |-> N, num |-> rate.num, den |-> rate.den]

Nothing == [p \in Phase |-> NoFile]

ReviewInit ==
  /\ Init
  /\ rate \in Rate
  /\ step = "waiting" /\ todo = Phases /\ late = FALSE
  /\ child = [p \in Phase |-> "none"] /\ encoders = {} /\ status = Nothing
  /\ videos = Nothing /\ phases = Nothing /\ outcome = NoFile
  /\ leaked = {}

Current == Head(todo)

\* process.is_alive()
Alive(p) == child[p] \in {"drawing", "encoding"}

\* The errors that _reason lets through.
Safe == {"aggregate_size_limit", "decode_unavailable", "encode_unavailable",
         "output_frame_alignment", "source_frame_alignment"}

Reason(error) == IF error \in Safe THEN error ELSE "unavailable"

-----------------------------------------------------------------------------
(* The worker: publish_debug, ReviewRenderer.render and _render_phase.     *)

\* What only the stages change.
rendering == <<stage, pc, next, decoder, files, input, ffmpeg, uploaded, stuck>>

\* The stages are over, well or badly.  Visual capture may be off, and the trace
\* may be missing or cut.
Begin ==
  /\ step = "waiting" /\ pc \in {"raised", "done"}
  /\ \/ step' = "manifest" /\ UNCHANGED phases
     \/ /\ DurationMs(clip) > MaxDuration
        /\ step' = "manifest" /\ phases' = [p \in Phase |-> "duration_limit"]
     \/ /\ DurationMs(clip) <= MaxDuration
        /\ step' = "phase" /\ UNCHANGED phases
  /\ UNCHANGED <<vars, rate, todo, outcome, late, processes, status, videos>>

Raise(reason) == outcome' = reason /\ step' = "judge"

StartPhase ==
  /\ step = "phase" /\ todo # <<>>
  /\ status' = [status EXCEPT ![Current] = NoFile]
  /\ \/ late /\ Raise("timeout") /\ UNCHANGED <<child, faults>>
     \/ ~late /\ Fault /\ Raise("unavailable") /\ UNCHANGED child
     \/ /\ ~late /\ child' = [child EXCEPT ![Current] = "drawing"] /\ step' = "join"
        /\ UNCHANGED <<outcome, faults>>
  /\ UNCHANGED <<rendering, rate, todo, phases, late, encoders, leaked, videos>>

\* What the child has left in its status file, if it was neither late nor crashed.
Reported == IF status[Current] = "ready" THEN "ready" ELSE Reason(status[Current])

Joined ==
  outcome' = IF late THEN "timeout" ELSE IF child[Current] = "crashed" THEN "unavailable" ELSE Reported

\* Seeded defect: the join has no timeout.
JoinForever ==
  /\ step = "join" /\ ~Alive(Current)
  /\ Joined /\ step' = "finally"
  /\ UNCHANGED <<vars, rate, todo, phases, late, processes, status, videos>>

Join ==
  /\ step = "join" /\ (late \/ ~Alive(Current))
  /\ Joined /\ step' = "finally"
  /\ UNCHANGED <<vars, rate, todo, phases, late, processes, status, videos>>

\* The status file and the raw frames are unlinked while the child may still run.  When
\* that fails, the error takes the place of the outcome and nothing is reaped.
Finally ==
  /\ step = "finally"
  /\ \/ /\ status' = [status EXCEPT ![Current] = NoFile]
        /\ step' = "reap"
        /\ UNCHANGED <<outcome, leaked, faults>>
     \/ /\ Fault /\ Raise("unavailable")
        /\ leaked' = IF Alive(Current) THEN leaked \union {Current} ELSE leaked
        /\ UNCHANGED status
  /\ UNCHANGED <<rendering, rate, todo, phases, late, child, encoders, videos>>

\* Seeded defect: the child is terminated, its process group is not.
ReapChildOnly ==
  /\ step = "reap" /\ step' = "judge"
  /\ child' = [child EXCEPT ![Current] = IF Alive(Current) THEN "exited" ELSE @]
  /\ UNCHANGED <<vars, rate, todo, outcome, phases, late, encoders, leaked, status, videos>>

\* _terminate_process: the process group of a live child is told to end, and killed when
\* the child does not.  Only the child is waited for: its FFmpeg may take longer.
Reap ==
  /\ step = "reap" /\ step' = "judge"
  /\ IF Alive(Current)
     THEN /\ child' = [child EXCEPT ![Current] = "reaped"]
          /\ encoders' \in {encoders, encoders \ {Current}}
     ELSE /\ child' = [child EXCEPT ![Current] = IF @ = "exited" THEN "none" ELSE @]
          /\ UNCHANGED encoders
  /\ UNCHANGED <<vars, rate, todo, outcome, phases, late, leaked, status, videos>>

\* The size of the videos of these phases.
Bytes(S) ==
  LET Size(p) == IF p \in S THEN videos[p].size ELSE 0
  IN  Size("detection") + Size("framing") + Size("render")

\* _aggregate_size
Aggregate == Bytes({p \in Phase : videos[p] # NoFile})

Verdict == IF outcome = "ready" /\ Aggregate > MaxBytes THEN "aggregate_size_limit" ELSE outcome

\* The rest of an iteration of render().  The file of a phase that is not ready is
\* unlinked; when that fails, render() says nothing of any phase.
Judge ==
  /\ step = "judge"
  /\ \/ /\ phases' = [phases EXCEPT ![Current] = Verdict]
        /\ videos' = IF Verdict = "ready" THEN videos ELSE [videos EXCEPT ![Current] = NoFile]
        /\ todo' = Tail(todo) /\ step' = "phase"
        /\ UNCHANGED faults
     \/ /\ Verdict # "ready" /\ Fault
        /\ phases' = Nothing /\ step' = "manifest"
        /\ UNCHANGED <<videos, todo>>
  /\ outcome' = NoFile
  /\ UNCHANGED <<rendering, rate, late, processes, status>>

Rendered ==
  /\ step = "phase" /\ todo = <<>>
  /\ step' = "manifest"
  /\ UNCHANGED <<vars, rate, todo, outcome, phases, late, processes, status, videos>>

\* The limits of the API, which the worker and the page repeat.
maxManifestDurationMS == 604800000
maxManifestFrameCount == 10000000

\* _manifest_timing raises for what the API would refuse.
Measurable ==
  /\ rate.num <= 1000 * rate.den
  /\ DurationMs(clip) \in 1 .. maxManifestDurationMS
  /\ clip.frames \in 1 .. maxManifestFrameCount

WriteManifest ==
  /\ step = "manifest"
  /\ step' = IF Measurable THEN "published" ELSE "unpublished"
  /\ UNCHANGED <<vars, rate, todo, outcome, phases, late, processes, status, videos>>

Reviewer ==
  Begin \/ StartPhase \/ Join \/ Finally \/ Reap \/ Judge \/ Rendered \/ WriteManifest

-----------------------------------------------------------------------------
(* The child, its FFmpeg, and the clock.                                   *)

Drawing(p) == child[p] = "drawing" /\ UNCHANGED <<vars, rate, work, late, leaked, videos>>

\* Frames are drawn; the last phase needs the output beside the source.  An error
\* is one that _reason lets through, or one that it does not.
Draw(p) ==
  /\ Drawing(p)
  /\ p = "render" => output # NoFile
  /\ child' = [child EXCEPT ![p] = "encoding"] /\ encoders' = encoders \union {p}
  /\ UNCHANGED status

DrawFails(p) ==
  /\ Drawing(p)
  /\ \E error \in IF p = "render" /\ output = NoFile THEN {"decode_unavailable"}
                  ELSE {"source_frame_alignment", "unavailable"} :
       status' = [status EXCEPT ![p] = error]
  /\ child' = [child EXCEPT ![p] = "exited"]
  /\ UNCHANGED encoders

Encoder(p) == p \in encoders /\ UNCHANGED <<vars, rate, work, late, child, leaked, status>>

OpenVideo(p) ==
  /\ Encoder(p) /\ videos[p] = NoFile
  /\ \E size \in 1 .. MaxSize :
       videos' = [videos EXCEPT ![p] = [size |-> size, ended |-> FALSE]]
  /\ UNCHANGED encoders

\* FFmpeg ends with 0, or fails.
EndVideo(p) ==
  /\ Encoder(p)
  /\ encoders' = encoders \ {p}
  /\ \/ videos[p] # NoFile /\ videos' = [videos EXCEPT ![p].ended = TRUE]
     \/ UNCHANGED videos

\* An exit code of FFmpeg other than 0 raises.
Exit(p) ==
  /\ child[p] = "encoding" /\ p \notin encoders
  /\ LET ended == videos[p] # NoFile /\ videos[p].ended
     IN  status' = [status EXCEPT ![p] = IF ended THEN "ready" ELSE "encode_failed"]
  /\ child' = [child EXCEPT ![p] = "exited"]
  /\ UNCHANGED <<vars, rate, work, late, encoders, leaked, videos>>

\* The child dies; an FFmpeg it has started goes on.
ChildDies(p) ==
  /\ Alive(p)
  /\ Fault
  /\ child' = [child EXCEPT ![p] = "crashed"]
  /\ UNCHANGED <<rendering, rate, work, late, encoders, leaked, status, videos>>

Deadline ==
  /\ step \in {"phase", "join", "finally", "reap", "judge"} /\ ~late
  /\ late' = TRUE
  /\ UNCHANGED <<vars, rate, work, processes, status, videos>>

-----------------------------------------------------------------------------
Children ==
  \E p \in Phase :
    Draw(p) \/ DrawFails(p) \/ OpenVideo(p) \/ EndVideo(p) \/ Exit(p) \/ ChildDies(p)

ReviewNext == (Next /\ UNCHANGED reviewVars) \/ Reviewer \/ Children \/ Deadline

allVars == <<vars, reviewVars>>

ReviewSpec == ReviewInit /\ [][ReviewNext]_allVars

-----------------------------------------------------------------------------
(* What becomes of the review: the manifest, the API and the page.         *)

\* Seeded defect: a detail on every phase.
EntryDetailed(p) ==
  [id |-> p, status |-> IF phases[p] = "ready" THEN "ready" ELSE "unavailable", detail |-> phases[p]]

\* _write_review_manifest: a detail only when a phase is unavailable.
Entry(p) ==
  IF phases[p] = "ready" THEN [id |-> p, status |-> "ready"]
  ELSE [id |-> p, status |-> "unavailable",
        detail |-> IF phases[p] = NoFile THEN "unavailable" ELSE phases[p]]

Manifest ==
  [timing |-> [rate |-> rate, duration |-> DurationMs(clip), frames |-> clip.frames],
   phases |-> [k \in DOMAIN Phases |-> Entry(Phases[k])]]

Status == {"ready", "partial", "unavailable", "warning"}

ValidTiming(t) ==
  /\ t.rate.num > 0 /\ t.rate.num <= 1000 * t.rate.den
  /\ t.duration \in 1 .. maxManifestDurationMS
  /\ t.frames \in 1 .. maxManifestFrameCount

Ordered(s) == [k \in DOMAIN s |-> s[k].id] = Phases

\* domain.ParseEvaluationManifest
Parsed(m) ==
  /\ ValidTiming(m.timing)
  /\ Ordered(m.phases)
  /\ \A k \in DOMAIN m.phases :
       /\ m.phases[k].status \in Status
       /\ "detail" \in DOMAIN m.phases[k] => m.phases[k].status = "unavailable"

\* The phases whose video publish_debug uploads.
Artifacts == {p \in Phase : phases[p] = "ready" /\ videos[p] # NoFile}

\* Handler.evaluation: a phase without its artifact is unavailable, any other gets
\* a URL.
Projected(e) ==
  IF e.status = "unavailable" THEN e
  ELSE IF e.id \in Artifacts THEN [id |-> e.id, status |-> e.status, url |-> videos[e.id]]
  ELSE [e EXCEPT !.status = "unavailable"]

Shown == [k \in DOMAIN Phases |-> Projected(Manifest.phases[k])]

Evaluation ==
  IF Parsed(Manifest) /\ \E k \in DOMAIN Shown : Shown[k].status # "unavailable"
  THEN [available |-> TRUE, timing |-> Manifest.timing, phases |-> Shown]
  ELSE [available |-> FALSE]

\* parseEvaluation: anything else is an error on the page.
Accepted(e) ==
  e.available =>
    /\ ValidTiming(e.timing)
    /\ Ordered(e.phases)
    /\ \A k \in DOMAIN e.phases :
         LET p == e.phases[k] IN
         /\ p.status \in Status
         /\ "detail" \in DOMAIN p => p.status = "unavailable"
         /\ "url" \in DOMAIN p <=> p.status # "unavailable"

-----------------------------------------------------------------------------
Steps == {"waiting", "phase", "join", "finally", "reap", "judge", "manifest", "published",
          "unpublished"}

ReviewTypeOK ==
  /\ rate \in Rate /\ step \in Steps
  /\ todo \in {Phases, <<"framing", "render">>, <<"render">>, <<>>}
  /\ late \in BOOLEAN
  /\ child \in [Phase -> {"none", "drawing", "encoding", "exited", "crashed", "reaped"}]
  /\ encoders \subseteq Phase /\ leaked \subseteq Phase
  /\ status \in [Phase -> Safe \union {"ready", "unavailable", "encode_failed", NoFile}]
  /\ videos \in [Phase -> [size : 1 .. MaxSize, ended : BOOLEAN] \union {NoFile}]
  /\ outcome \in Safe \union {"ready", "unavailable", "timeout", NoFile}
  /\ phases \in [Phase -> Safe \union {"ready", "unavailable", "timeout", "duration_limit", NoFile}]

\* docs/specs/worker/debug-telemetry-and-evaluation.md: review media are bounded by
\* "aggregate-byte" limits; and whatever children and FFmpegs of other phases were left
\* behind, the video of a phase that is ready is one its FFmpeg ended with 0, and no
\* process of the phase is left to write to it.
ReadyIsFinished ==
  LET ready == {p \in Phase : phases[p] = "ready"} IN
  /\ \A p \in ready : videos[p] # NoFile /\ videos[p].ended /\ ~Alive(p) /\ p \notin encoders
  /\ Bytes(ready) <= MaxBytes

\* After a phase nothing of it runs that was not told to end: a child only where an error
\* of unlink kept it from being reaped, and an FFmpeg only under such a child, after it
\* was told to end, or after its child had died.
NothingOutlivesPhase ==
  LET over == IF step \in {"join", "finally", "reap"} THEN Phase \ {Current} ELSE Phase IN
  \A p \in over :
    /\ Alive(p) => p \in leaked
    /\ p \in encoders => child[p] \in {"encoding", "reaped", "crashed"}

\* "Always reap a live child here so its OpenCV/FFmpeg descendants cannot outlive the
\* review deadline" (review.py:109).  The code does not keep it: FFmpeg is told to end,
\* not waited for, and an error of unlink comes first.
DescendantsAreReaped ==
  step \in {"manifest", "published", "unpublished"} => encoders = {} /\ \A p \in Phase : ~Alive(p)

\* The worker, the API and the page have each their own idea of a review: what the
\* worker publishes is never refused by the other two, is shown if anything of it
\* can be shown, and has a video where it says so.
ReviewIsShown ==
  step = "published" =>
    /\ Parsed(Manifest) /\ Accepted(Evaluation)
    /\ Evaluation.available <=> \E p \in Phase : phases[p] = "ready"

=============================================================================
