----------------------------- MODULE CropRendering -----------------------------
(***************************************************************************)
(* Rendering in one attempt: the worker decodes the source, crops every    *)
(* frame and writes it to FFmpeg through a pipe; FFmpeg encodes a partial  *)
(* file, which is checked and moved to its place.  The stage "uploading"   *)
(* renders again, from the cache that "rendering" left when it ran in this *)
(* attempt.  ProcessingAttempt is what surrounds it.                       *)
(*                                                                         *)
(* - a frame is its number; a file is the frames in it and whether it was  *)
(*   finished.  The pipe holds whole frames.                               *)
(* - the crop path is there (FrameAnalysis) and does not change.           *)
(***************************************************************************)
EXTENDS Naturals, Sequences

CONSTANTS
  N,          \* frames of the source, and of the crop path
  PipeSize,   \* frames the pipe holds
  MaxFaults,  \* bound on faults
  NoFile

ASSUME RenderingAssumption == N \in Nat /\ PipeSize \in Nat \ {0} /\ MaxFaults \in Nat

VARIABLES
  stage,     \* rendering or uploading
  pc,        \* where the worker is
  next,      \* the next frame to decode
  decoder,   \* the source is open
  partial, output, sidecar,  \* output.partial.mp4, output.mp4, its cache entry
  pipe, eof, \* FFmpeg's standard input
  ffmpeg,    \* none, running, ok or failed
  uploaded,
  stuck,     \* a partial file could not be unlinked
  faults

files == <<partial, output, sidecar>>
input == <<pipe, eof>>
vars == <<stage, pc, next, decoder, files, input, ffmpeg, uploaded, stuck, faults>>

File == [frames : Seq(0 .. N - 1), done : BOOLEAN]

ASSUME NoFileAssumption == NoFile \notin File

Init ==
  /\ stage \in {"rendering", "uploading"}
  /\ pc = "call" /\ next = 0 /\ decoder = "closed"
  /\ partial = NoFile /\ output = NoFile /\ sidecar = FALSE
  /\ pipe = <<>> /\ eof = FALSE /\ ffmpeg = "none"
  /\ uploaded = NoFile
  /\ stuck = FALSE /\ faults = 0

Fault == faults < MaxFaults /\ faults' = faults + 1

\* A call succeeds and the worker goes on, or raises and is handled.
Either(good, bad) == \/ pc' = good /\ UNCHANGED faults
                     \/ pc' = bad /\ Fault

-----------------------------------------------------------------------------
(* The worker.                                                             *)

\* _render: a cached output is only checked again.
Call ==
  /\ pc = "call"
  /\ IF output # NoFile /\ sidecar
     THEN pc' = "recheck" /\ UNCHANGED sidecar
     ELSE pc' = "unlink" /\ sidecar' = FALSE
  /\ UNCHANGED <<stage, next, decoder, partial, output, input, ffmpeg, uploaded, stuck, faults>>

Unlink ==
  /\ pc = "unlink"
  /\ Either("start", "raised")
  /\ partial' = IF pc' = "start" THEN NoFile ELSE partial
  /\ UNCHANGED <<stage, next, decoder, output, sidecar, input, ffmpeg, uploaded, stuck>>

Start ==
  /\ pc = "start"
  /\ Either("decode", "abort")
  /\ IF pc' = "decode"
     THEN /\ ffmpeg' = "running" /\ partial' = [frames |-> <<>>, done |-> FALSE]
          /\ decoder' = "open"
     ELSE UNCHANGED <<ffmpeg, partial, decoder>>
  /\ next' = 0 /\ pipe' = <<>> /\ eof' = FALSE
  /\ UNCHANGED <<stage, output, sidecar, uploaded, stuck>>

\* A frame per crop, then the end of the source; anything else raises.
Decode ==
  /\ pc = "decode"
  /\ Either(IF next < N THEN "write" ELSE "close", "abort")
  /\ UNCHANGED <<stage, next, decoder, files, input, ffmpeg, uploaded, stuck>>

\* write() blocks while the pipe is full and raises when FFmpeg is gone, which
\* it waits for.
Write ==
  /\ pc = "write"
  /\ \/ /\ ffmpeg = "running" /\ Len(pipe) < PipeSize
        /\ pipe' = Append(pipe, next) /\ next' = next + 1
        /\ pc' = "decode"
     \/ /\ ffmpeg # "running"
        /\ pc' = "abort"
        /\ UNCHANGED <<pipe, next>>
  /\ UNCHANGED <<stage, decoder, files, eof, ffmpeg, uploaded, stuck, faults>>

Close ==
  /\ pc = "close"
  /\ eof' = TRUE
  /\ pc' = "wait"
  /\ UNCHANGED <<stage, next, decoder, files, pipe, ffmpeg, uploaded, stuck, faults>>

Wait ==
  /\ pc = "wait" /\ ffmpeg # "running"
  /\ pc' = IF ffmpeg = "ok" THEN "validate" ELSE "abort"
  /\ UNCHANGED <<stage, next, decoder, files, input, ffmpeg, uploaded, stuck, faults>>

\* Seeded defect: the frames of the output are not counted.
Inspected(f) == f.done

\* validate_rendered_output inspects the file and decodes it to count its frames.
Valid(f) == f.done /\ Len(f.frames) = N

Validate ==
  /\ pc = "validate"
  /\ Either(IF Valid(partial) THEN "replace" ELSE "abort", "abort")
  /\ UNCHANGED <<stage, next, decoder, files, input, ffmpeg, uploaded, stuck>>

Replace ==
  /\ pc = "replace"
  /\ Either("cache", "abort")
  /\ IF pc' = "cache"
     THEN output' = partial /\ partial' = NoFile /\ decoder' = "closed"
     ELSE UNCHANGED <<output, partial, decoder>>
  /\ UNCHANGED <<stage, next, sidecar, input, ffmpeg, uploaded, stuck>>

\* abort(): a process that still runs is terminated, or killed after five seconds, and
\* waited for.
Abort ==
  /\ pc = "abort"
  /\ eof' = TRUE /\ pc' = "clean"
  /\ ffmpeg' = "none" /\ pipe' = <<>>
  /\ UNCHANGED <<stage, next, decoder, files, uploaded, stuck, faults>>

Clean ==
  /\ pc = "clean"
  /\ pc' = "raised" /\ decoder' = "closed" /\ next' = 0
  /\ \/ partial' = NoFile /\ UNCHANGED <<stuck, faults>>
     \/ stuck' = TRUE /\ Fault /\ UNCHANGED partial
  /\ UNCHANGED <<stage, output, sidecar, input, ffmpeg, uploaded>>

WriteCache ==
  /\ pc = "cache"
  /\ Either("rendered", "raised")
  /\ sidecar' = (pc' = "rendered")
  /\ UNCHANGED <<stage, next, decoder, partial, output, input, ffmpeg, uploaded, stuck>>

Recheck ==
  /\ pc = "recheck"
  /\ Either(IF Valid(output) THEN "rendered" ELSE "raised", "raised")
  /\ UNCHANGED <<stage, next, decoder, files, input, ffmpeg, uploaded, stuck>>

\* The next stage of the attempt, or the end of its upload.
Proceed ==
  /\ pc = "rendered"
  /\ IF stage = "rendering"
     THEN stage' = "uploading" /\ pc' = "call" /\ UNCHANGED uploaded
     ELSE pc' = "done" /\ uploaded' = output /\ UNCHANGED stage
  /\ UNCHANGED <<next, decoder, files, input, ffmpeg, stuck>>

-----------------------------------------------------------------------------
(* FFmpeg.                                                                 *)

Encode ==
  /\ ffmpeg = "running" /\ pipe # <<>>
  /\ pipe' = Tail(pipe)
  /\ \/ partial' = [partial EXCEPT !.frames = Append(@, Head(pipe))] /\ UNCHANGED faults
     \/ UNCHANGED partial /\ Fault  \* a frame is dropped
  /\ UNCHANGED <<stage, pc, next, decoder, output, sidecar, eof, ffmpeg, uploaded, stuck>>

End ==
  /\ ffmpeg = "running" /\ pipe = <<>> /\ eof
  /\ ffmpeg' = "ok"
  /\ partial' = [partial EXCEPT !.done = TRUE]
  /\ UNCHANGED <<stage, pc, next, decoder, output, sidecar, input, uploaded, stuck, faults>>

\* FFmpeg ends with 0 before the end of its input.
EndEarly ==
  /\ ffmpeg = "running" /\ ~(pipe = <<>> /\ eof)
  /\ ffmpeg' = "ok" /\ pipe' = <<>>
  /\ partial' = [partial EXCEPT !.done = TRUE]
  /\ Fault
  /\ UNCHANGED <<stage, pc, next, decoder, output, sidecar, eof, uploaded, stuck>>

Crash ==
  /\ ffmpeg = "running"
  /\ ffmpeg' = "failed" /\ pipe' = <<>>
  /\ Fault
  /\ UNCHANGED <<stage, pc, next, decoder, files, eof, uploaded, stuck>>

-----------------------------------------------------------------------------
Render ==
  \/ Call \/ Unlink \/ Start \/ Decode \/ Write \/ Close \/ Wait \/ Validate
  \/ Replace \/ Abort \/ Clean \/ WriteCache \/ Recheck

FFmpeg == Encode \/ End \/ EndEarly \/ Crash

Next == Render \/ FFmpeg \/ (Proceed /\ UNCHANGED faults)

Spec == Init /\ [][Next]_vars

-----------------------------------------------------------------------------
TypeOK ==
  /\ stage \in {"rendering", "uploading"}
  /\ pc \in {"call", "unlink", "start", "decode", "write", "close", "wait", "validate", "replace",
            "abort", "clean", "cache", "recheck", "rendered", "raised", "done"}
  /\ next \in 0 .. N /\ decoder \in {"closed", "open"}
  /\ partial \in File \union {NoFile} /\ output \in File \union {NoFile}
  /\ uploaded \in File \union {NoFile} /\ sidecar \in BOOLEAN
  /\ pipe \in Seq(0 .. N - 1) /\ Len(pipe) <= PipeSize /\ eof \in BOOLEAN
  /\ ffmpeg \in {"none", "running", "ok", "failed"}
  /\ stuck \in BOOLEAN /\ faults \in 0 .. MaxFaults

\* One frame for every crop, in order.
Complete(f) == f.done /\ f.frames = [k \in 1 .. N |-> k - 1]

\* What stands at the place of the output, in the cache, or in S3 is a finished
\* video of all frames in order, also when FFmpeg drops frames or ends too early and
\* exits with 0.
OutputIsComplete ==
  /\ output # NoFile => Complete(output)
  /\ sidecar => output # NoFile
  /\ uploaded # NoFile => Complete(uploaded)

\* When rendering has returned or raised, no FFmpeg runs, the source is closed and
\* no partial file is left, unless it could not be unlinked.
NothingLeftBehind ==
  pc \in {"rendered", "raised", "done"} =>
    ffmpeg # "running" /\ decoder = "closed" /\ (partial # NoFile => stuck)

=============================================================================
