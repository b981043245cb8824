----------------------------- MODULE PipelineProofs -----------------------------
(***************************************************************************)
(* What the pipeline guarantees, for every clip, rate, deadline, size and  *)
(* number of faults.                                                       *)
(*                                                                         *)
(* - ProcessingAttempt: its invariant has the layers of the model, the     *)
(*   output and its FFmpeg, the review and its children, and the stages    *)
(*   around them with their evidence.                                      *)
(* - FrameAnalysis: its invariant says of each loop what it has done up to *)
(*   its index, and relates the reference of a pass to the nearest box     *)
(*   behind it.  What follows from it are the evidence of an association,  *)
(*   the gaps of the report and the warning intervals of the review.       *)
(***************************************************************************)
EXTENDS ProcessingAttempt, FrameAnalysis, FiniteSetTheorems, WellFoundedInduction, TLAPS

-----------------------------------------------------------------------------
(* Rendering.                                                              *)

\* The worker has started FFmpeg and is not cleaning up.
Busy == {"decode", "write", "close", "wait", "validate", "replace"}

\* No partial file is there and nothing runs.
Idle == {"call", "unlink", "start", "cache", "recheck", "rendered", "done"}

Partial == partial \in File

\* The pipe p holds the last of n frames; each frame of the file f has its number or,
\* when frames were dropped, a later one, and leaves room for those that follow it.
InOrder(f, p, n) ==
  /\ Len(f) + Len(p) <= n
  /\ \A m \in 1 .. Len(p) : p[m] = n - Len(p) + m - 1
  /\ \A k \in 1 .. Len(f) : k - 1 <= f[k] /\ f[k] + (Len(f) - k) < n - Len(p)

FramesInOrder == InOrder(partial.frames, pipe, next)

BusyInv ==
  /\ ffmpeg = "running" => Partial
  /\ pc \in Busy => Partial /\ FramesInOrder /\ ffmpeg # "none"
  /\ pc \in Busy /\ ffmpeg = "ok" => pipe = <<>> /\ partial.done
  /\ pc \in {"decode", "write", "close"} => ~eof
  /\ pc = "write" => next < N
  /\ pc \in {"close", "wait", "validate", "replace"} => next = N
  /\ pc \in {"validate", "replace"} => ffmpeg = "ok"
  /\ pc = "replace" => Complete(partial)

IdleInv ==
  /\ pc \in Idle => partial = NoFile
  /\ pc \in Idle \union {"raised"} => decoder = "closed"
  /\ pc \in Idle \union {"raised", "clean"} => ffmpeg # "running"
  /\ pc = "raised" /\ partial # NoFile => stuck
  /\ pc \in {"cache", "recheck", "rendered", "done"} => output # NoFile
  /\ pc = "done" => uploaded # NoFile

\* Without a fault no frame is lost and nothing fails.
Undisturbed ==
  /\ pc \notin {"abort", "clean", "raised"}
  /\ pc \in Busy => ffmpeg # "failed" /\ Len(partial.frames) + Len(pipe) = next
  /\ pc \in {"decode", "write", "close"} => ffmpeg # "ok"

RenderInv ==
  /\ TypeOK /\ BusyInv /\ IdleInv /\ OutputIsComplete
  /\ faults = 0 => Undisturbed

-----------------------------------------------------------------------------
(* The review.                                                             *)

Within == {"join", "finally", "reap"}

\* Nothing of the phase was started.
Fresh(p) == child[p] = "none" /\ p \notin encoders

\* FFmpeg has ended the video with 0 and nothing can write to it any more.
Settled(p) == videos[p] # NoFile /\ videos[p].ended /\ ~Alive(p) /\ p \notin encoders

ChildInv ==
  /\ step \in Within \union {"judge"} => todo # <<>>
  /\ \A k \in DOMAIN todo : k > 1 \/ step \in {"waiting", "phase"} => Fresh(todo[k])
  /\ \A p \in encoders : child[p] \in {"encoding", "reaped", "crashed"}
  /\ \A p \in Phase : Alive(p) => p \in leaked \/ (step \in Within /\ p = Current)

OutcomeInv ==
  /\ step = "join" /\ status[Current] = "ready" => Settled(Current)
  /\ outcome = "ready" => step \in {"finally", "reap", "judge"} /\ Settled(Current)
  /\ \A k \in DOMAIN todo : phases[todo[k]] # "ready"
  /\ step = "published" => Measurable

ReviewInv == ReviewTypeOK /\ ChildInv /\ OutcomeInv /\ ReadyIsFinished

-----------------------------------------------------------------------------
(* The stages.                                                             *)

Over == at \in {"ended", "collected"}

StageInv ==
  /\ now = 4 <=> stage = "uploading"
  /\ at \in {"enter", "inputs", "crops"} => pc = "call"
  /\ at = "crops" => now > 1
  /\ at = "render" => now > 2 /\ pc # "done"
  /\ at = "leave" => \/ pc = "call" /\ now < 3
                     \/ pc = "rendered" /\ now > 2
                     \/ pc = "raised"
  /\ Over => pc \in {"raised", "done"}
  /\ pc = "done" => now = 4 /\ Over
  /\ step # "waiting" => Over

\* The crop path is of the file that every stage takes, and is there with its report
\* from the first stage that needs it.
CropsInv ==
  /\ crops # NoFile => /\ report
                       /\ crops = (IF timing = "constant" THEN "original" ELSE "normalized")
                       /\ timing = "variable" => cfr = "whole"
  /\ at = "render" \/ pc = "done" \/ (at = "leave" /\ pc # "raised" /\ now > 1) => crops # NoFile
  /\ timing = "constant" => cfr = NoFile
  /\ cfr = "partial" => pc = "raised" \/ at = "collected"
  /\ at = "crops" /\ timing = "variable" => cfr = "whole"

\* A record says how its stage ended.
TrailInv ==
  /\ Len(trail) <= IF Over THEN now ELSE now - 1
  /\ \A k \in DOMAIN trail :
       \E j \in 1 .. now :
         /\ trail[k].stage = Stages[j]
         /\ trail[k].failed <=> j = now /\ pc = "raised"
         /\ j < now \/ Over

EvidenceInv ==
  /\ trace # NoFile => trace.of = crops /\ (trace.validated => output # NoFile)
  /\ (\E p \in Phase : phases[p] = "ready") => at = "collected"
  /\ at = "collected" =>
       /\ bundle.trace = trace /\ bundle.trail = trail
       /\ trace # NoFile => bundle.header \in {NoFile, trace.of}
       /\ (\E p \in Phase : phases[p] = "ready") \/ step \in {"phase", "join", "finally", "reap", "judge"}
            => trace # NoFile
  /\ step \notin {"waiting", "unpublished"} => at = "collected"

Record == [stage : {Stages[k] : k \in 1 .. 4}, failed : BOOLEAN]

\* The scratch directory and its evidence have their types.
ScratchTypes ==
  /\ timing \in {"constant", "variable"} /\ capture \in BOOLEAN
  /\ now \in 1 .. 4
  /\ at \in {"enter", "inputs", "crops", "render", "leave", "ended", "collected"}
  /\ original \in BOOLEAN /\ cfr \in {NoFile, "partial", "whole"}
  /\ report \in BOOLEAN /\ crops \in Origins \union {NoFile}
  /\ trace \in [of : Origins, validated : BOOLEAN] \union {NoFile}
  /\ trail \in Seq(Record)

AttemptInv ==
  /\ ScratchTypes
  /\ RenderInv /\ ReviewInv
  /\ StageInv /\ CropsInv /\ EvidenceInv /\ TrailInv

-----------------------------------------------------------------------------
(* A step of rendering.                                                    *)

\* What a file is made of.
LEMMA FileFields ==
  /\ \A f \in File : f # NoFile /\ f.frames \in Seq(0 .. N - 1) /\ f.done \in BOOLEAN
  /\ \A s \in Seq(0 .. N - 1), d \in BOOLEAN : [frames |-> s, done |-> d] \in File
  /\ \A f \in File, s \in Seq(0 .. N - 1), d \in BOOLEAN :
       /\ [f EXCEPT !.frames = s] \in File
       /\ [f EXCEPT !.frames = s].frames = s /\ [f EXCEPT !.frames = s].done = f.done
       /\ [f EXCEPT !.done = d] \in File
       /\ [f EXCEPT !.done = d].frames = f.frames /\ [f EXCEPT !.done = d].done = d
PROOF
  BY NoFileAssumption DEF File

\* Frames stay in order when one is written to the pipe, encoded or dropped, and when
\* the pipe is lost.
LEMMA OrderKept ==
  ASSUME NEW f \in Seq(0 .. N - 1), NEW p \in Seq(0 .. N - 1), NEW n \in Nat, InOrder(f, p, n)
  PROVE  /\ InOrder(f, Append(p, n), n + 1)
         /\ InOrder(f, <<>>, n)
         /\ p # <<>> => InOrder(f, Tail(p), n) /\ InOrder(Append(f, Head(p)), Tail(p), n)
PROOF
<1> USE RenderingAssumption
<1>1. /\ Len(f) \in Nat /\ Len(p) \in Nat
      /\ \A k \in 1 .. Len(f) : f[k] \in 0 .. N - 1
  OBVIOUS
<1>2. InOrder(f, Append(p, n), n + 1)
  <2>1. /\ Len(Append(p, n)) = Len(p) + 1 /\ Append(p, n)[Len(p) + 1] = n
        /\ \A m \in 1 .. Len(p) : Append(p, n)[m] = p[m]
    OBVIOUS
  <2>2. ASSUME NEW m \in 1 .. Len(p) + 1 PROVE Append(p, n)[m] = n - Len(p) + m - 1
    <3>1. CASE m = Len(p) + 1
      BY <1>1, <2>1, <3>1
    <3>2. CASE m \in 1 .. Len(p)
      BY <1>1, <2>1, <3>2 DEF InOrder
    <3> QED
      BY <1>1, <3>1, <3>2
  <2> QED
    BY <1>1, <2>1, <2>2 DEF InOrder
<1>3. InOrder(f, <<>>, n)
  BY <1>1 DEF InOrder
<1>4. ASSUME p # <<>>
      PROVE  InOrder(f, Tail(p), n) /\ InOrder(Append(f, Head(p)), Tail(p), n)
  <2> DEFINE q == Tail(p)
             h == Append(f, Head(p))
  <2>1. /\ Len(q) = Len(p) - 1 /\ Len(p) > 0 /\ Head(p) = p[1]
        /\ \A m \in 1 .. Len(p) - 1 : q[m] = p[m + 1]
    BY <1>4
  <2>2. Len(h) = Len(f) + 1 /\ h[Len(f) + 1] = Head(p) /\ \A k \in 1 .. Len(f) : h[k] = f[k]
    BY <2>1
  <2> HIDE DEF q, h
  <2>3. Head(p) = n - Len(p)
    BY <1>1, <2>1 DEF InOrder
  <2>4. \A m \in 1 .. Len(q) : q[m] = n - Len(q) + m - 1
    BY <1>1, <2>1 DEF InOrder
  <2>5. /\ Len(f) + Len(p) <= n
        /\ \A k \in 1 .. Len(f) : k - 1 <= f[k] /\ f[k] + (Len(f) - k) < n - Len(p)
    BY DEF InOrder
  <2>6. InOrder(f, q, n)
    BY <1>1, <2>1, <2>4, <2>5 DEF InOrder
  <2>7. ASSUME NEW k \in 1 .. Len(h)
        PROVE  k - 1 <= h[k] /\ h[k] + (Len(h) - k) < n - Len(q)
    <3>1. CASE k = Len(f) + 1
      BY <1>1, <2>1, <2>2, <2>3, <2>5, <3>1
    <3>2. CASE k \in 1 .. Len(f)
      <4>1. h[k] = f[k] /\ k - 1 <= f[k] /\ f[k] + (Len(f) - k) < n - Len(p) /\ f[k] \in Int
        BY <1>1, <2>2, <2>5, <3>2
      <4>2. Len(h) - k = (Len(f) - k) + 1 /\ n - Len(q) = (n - Len(p)) + 1
        BY <1>1, <2>1, <2>2, <3>2
      <4> DEFINE above == Len(f) - k
                 room == n - Len(p)
      <4>3. above \in Int /\ room \in Int
        BY <1>1, <3>2
      <4>4. /\ f[k] \in Int /\ f[k] + above < room /\ k - 1 <= f[k] /\ h[k] = f[k]
            /\ Len(h) - k = above + 1 /\ n - Len(q) = room + 1
        BY <4>1, <4>2
      <4> HIDE DEF above, room
      <4> QED
        BY ONLY <4>3, <4>4
    <3> QED
      BY <1>1, <2>2, <3>1, <3>2
  <2>8. InOrder(h, q, n)
    BY <1>1, <2>1, <2>2, <2>4, <2>5, <2>7 DEF InOrder
  <2> QED
    BY <2>6, <2>8 DEF q, h
<1> QED
  BY <1>2, <1>3, <1>4

\* A file of N frames, none of which comes too early and all of which leave room for
\* those that follow, has them all in order.
LEMMA FullIsComplete ==
  ASSUME NEW f \in File, Valid(f),
         \A k \in 1 .. Len(f.frames) : k - 1 <= f.frames[k] /\ f.frames[k] + (Len(f.frames) - k) < N
  PROVE  Complete(f)
PROOF
<1>1. f.frames \in Seq(0 .. N - 1) /\ Len(f.frames) = N /\ N \in Nat
  BY FileFields, RenderingAssumption DEF Valid
<1>2. DOMAIN f.frames = 1 .. N /\ \A k \in 1 .. N : f.frames[k] \in 0 .. N - 1
  BY <1>1
<1>3. \A k \in 1 .. N : f.frames[k] = k - 1
  BY <1>1, <1>2
<1>4. f.frames = [k \in 1 .. N |-> f.frames[k]]
  <2>1. f.frames \in [1 .. N -> 0 .. N - 1]
    BY ONLY <1>1
  <2> QED
    BY ONLY <2>1
<1> QED
  BY <1>3, <1>4 DEF Complete, Valid

LEMMA CompleteIsValid == \A f \in File : Complete(f) => Valid(f)
PROOF
<1> SUFFICES ASSUME NEW f \in File, Complete(f) PROVE Valid(f)
  OBVIOUS
<1>1. f.frames \in Seq(0 .. N - 1) /\ DOMAIN f.frames = 1 .. N /\ N \in Nat
  BY FileFields, RenderingAssumption DEF Complete
<1>2. Len(f.frames) = N
  BY <1>1
<1> QED
  BY <1>2 DEF Complete, Valid

\* Every action of the worker and of its FFmpeg keeps the invariant of rendering.

LEMMA CallKeeps == RenderInv /\ Call => RenderInv'
PROOF
<1> SUFFICES ASSUME RenderInv, Call PROVE RenderInv'
  OBVIOUS
<1> USE RenderingAssumption DEF Call, Either, Fault, files, input, Busy, Idle
<1>1. TypeOK'
  BY DEF RenderInv, TypeOK
<1>2. BusyInv'
  BY DEF RenderInv, TypeOK, BusyInv, Partial, FramesInOrder
<1>3. IdleInv'
  BY DEF RenderInv, TypeOK, BusyInv, IdleInv
<1>4. OutputIsComplete'
  BY DEF RenderInv, OutputIsComplete, BusyInv, IdleInv
<1>5. faults' = 0 => Undisturbed'
  BY DEF RenderInv, TypeOK, BusyInv, Undisturbed
<1> QED
  BY <1>1, <1>2, <1>3, <1>4, <1>5 DEF RenderInv

LEMMA UnlinkKeeps == RenderInv /\ Unlink => RenderInv'
PROOF
<1> SUFFICES ASSUME RenderInv, Unlink PROVE RenderInv'
  OBVIOUS
<1> USE RenderingAssumption DEF Unlink, Either, Fault, files, input, Busy, Idle
<1>1. TypeOK'
  BY DEF RenderInv, TypeOK
<1>2. BusyInv'
  BY DEF RenderInv, TypeOK, BusyInv, IdleInv, Partial, FramesInOrder
<1>3. IdleInv'
  BY DEF RenderInv, TypeOK, BusyInv, IdleInv
<1>4. OutputIsComplete'
  BY DEF RenderInv, OutputIsComplete, BusyInv, IdleInv
<1>5. faults' = 0 => Undisturbed'
  BY DEF RenderInv, TypeOK, BusyInv, Undisturbed
<1> QED
  BY <1>1, <1>2, <1>3, <1>4, <1>5 DEF RenderInv

LEMMA StartKeeps == RenderInv /\ Start => RenderInv'
PROOF
<1> SUFFICES ASSUME RenderInv, Start PROVE RenderInv'
  OBVIOUS
<1> USE RenderingAssumption DEF Start, Either, Fault, files, input, Busy, Idle
<1>1. [frames |-> <<>>, done |-> FALSE] \in File /\ <<>> \in Seq(0 .. N - 1)
  <2>1. <<>> \in Seq(0 .. N - 1)
    OBVIOUS
  <2> QED
    BY <2>1, FileFields
<1>2. TypeOK'
  <2>1. partial' \in File \union {NoFile} /\ ffmpeg' \in {"none", "running", "ok", "failed"}
    BY <1>1 DEF RenderInv, TypeOK
  <2>2. /\ pc' \in {"decode", "abort"} /\ decoder' \in {"closed", "open"} /\ eof' \in BOOLEAN
    BY DEF RenderInv, TypeOK
  <2>3. next' \in 0 .. N /\ pipe' \in Seq(0 .. N - 1) /\ Len(pipe') <= PipeSize
    BY <1>1
  <2>4. faults' \in 0 .. MaxFaults
    BY DEF RenderInv, TypeOK
  <2> QED
    BY <2>1, <2>2, <2>4, <2>3 DEF RenderInv, TypeOK
<1>3. BusyInv'
  <2>1. CASE pc' = "decode"
    <3>1. partial' = [frames |-> <<>>, done |-> FALSE] /\ partial' \in File
      BY <1>1, <2>1
    <3>2. InOrder(<<>>, <<>>, 0)
      BY DEF InOrder
    <3>3. FramesInOrder' /\ ~eof' /\ ffmpeg' = "running"
      BY <2>1, <3>1, <3>2 DEF FramesInOrder
    <3> QED
      BY <2>1, <3>1, <3>3 DEF BusyInv, Partial
  <2>2. CASE pc' = "abort"
    BY <2>2 DEF RenderInv, BusyInv, IdleInv, Partial
  <2> QED
    BY <2>1, <2>2
<1>4. IdleInv'
  BY DEF RenderInv, TypeOK, BusyInv, IdleInv
<1>5. OutputIsComplete'
  BY DEF RenderInv, OutputIsComplete, BusyInv, IdleInv
<1>6. faults' = 0 => Undisturbed'
  BY DEF RenderInv, TypeOK, BusyInv, Undisturbed
<1> QED
  BY <1>2, <1>3, <1>4, <1>5, <1>6 DEF RenderInv

LEMMA DecodeKeeps == RenderInv /\ Decode => RenderInv'
PROOF
<1> SUFFICES ASSUME RenderInv, Decode PROVE RenderInv'
  OBVIOUS
<1> USE RenderingAssumption DEF Decode, Either, Fault, files, input, Busy, Idle
<1>1. TypeOK'
  BY DEF RenderInv, TypeOK
<1>2. BusyInv'
  BY DEF RenderInv, TypeOK, BusyInv, Partial, FramesInOrder
<1>3. IdleInv'
  BY DEF RenderInv, TypeOK, BusyInv, IdleInv
<1>4. OutputIsComplete'
  BY DEF RenderInv, OutputIsComplete, BusyInv, IdleInv
<1>5. faults' = 0 => Undisturbed'
  BY DEF RenderInv, TypeOK, BusyInv, Undisturbed
<1> QED
  BY <1>1, <1>2, <1>3, <1>4, <1>5 DEF RenderInv

LEMMA WriteKeeps == RenderInv /\ Write => RenderInv'
PROOF
<1> SUFFICES ASSUME RenderInv, Write PROVE RenderInv'
  OBVIOUS
<1> USE RenderingAssumption DEF Write, Either, Fault, files, input, Busy, Idle
<1>1. TypeOK'
  <2>1. next < N /\ pipe \in Seq(0 .. N - 1) /\ next \in 0 .. N /\ Len(pipe) <= PipeSize
    BY DEF RenderInv, TypeOK, BusyInv
  <2>2. /\ Append(pipe, next) \in Seq(0 .. N - 1) /\ next + 1 \in 0 .. N
        /\ Len(pipe) < PipeSize => Len(Append(pipe, next)) <= PipeSize
    BY <2>1
  <2> QED
    BY <2>1, <2>2 DEF RenderInv, TypeOK
<1>2. BusyInv'
  <2>1. partial \in File /\ FramesInOrder /\ pipe \in Seq(0 .. N - 1) /\ next \in Nat
    BY DEF RenderInv, TypeOK, BusyInv, Partial
  <2>2. InOrder(partial.frames, Append(pipe, next), next + 1)
    BY <2>1, OrderKept, FileFields DEF FramesInOrder
  <2> QED
    BY <2>2 DEF RenderInv, TypeOK, BusyInv, Partial, FramesInOrder
<1>3. IdleInv'
  BY DEF RenderInv, TypeOK, BusyInv, IdleInv
<1>4. OutputIsComplete'
  BY DEF RenderInv, OutputIsComplete, BusyInv, IdleInv
<1>5. faults' = 0 => Undisturbed'
  <2>1. partial \in File /\ pipe \in Seq(0 .. N - 1) /\ partial.frames \in Seq(0 .. N - 1) /\ next \in Nat
    BY FileFields DEF RenderInv, TypeOK, BusyInv, Partial
  <2>2. Len(Append(pipe, next)) = Len(pipe) + 1 /\ Len(pipe) \in Nat /\ Len(partial.frames) \in Nat
    BY <2>1
  <2>3. ASSUME faults' = 0 PROVE Undisturbed'
    <3>1. Undisturbed /\ faults = 0
      BY <2>3 DEF RenderInv
    <3>2. pipe' = Append(pipe, next) /\ next' = next + 1 /\ partial' = partial /\ pc' = "decode"
          /\ ffmpeg' = "running"
      BY <3>1 DEF Undisturbed, RenderInv, TypeOK, BusyInv
    <3> QED
      <4>1. Len(pipe') = Len(pipe) + 1 /\ Len(partial'.frames) = Len(partial.frames)
        BY <2>2, <3>2
      <4>2. Len(partial.frames) + Len(pipe) = next \/ ffmpeg' # "running"
        BY <3>1, <3>2 DEF Undisturbed
      <4> DEFINE written == Len(partial.frames)
                 waiting == Len(pipe)
      <4>3. written \in Nat /\ waiting \in Nat /\ written + waiting = next
        BY <2>2, <3>2, <4>2
      <4>4. Len(partial'.frames) = written /\ Len(pipe') = waiting + 1 /\ next' = next + 1
        BY <3>2, <4>1
      <4> HIDE DEF written, waiting
      <4>5. Len(partial'.frames) + Len(pipe') = next'
        BY ONLY <4>3, <4>4
      <4> QED
        BY <3>2, <4>5 DEF Undisturbed
  <2> QED
    BY <2>3
<1> QED
  BY <1>1, <1>2, <1>3, <1>4, <1>5 DEF RenderInv

LEMMA CloseKeeps == RenderInv /\ Close => RenderInv'
PROOF
<1> SUFFICES ASSUME RenderInv, Close PROVE RenderInv'
  OBVIOUS
<1> USE RenderingAssumption DEF Close, Either, Fault, files, input, Busy, Idle
<1>1. TypeOK'
  BY DEF RenderInv, TypeOK
<1>2. BusyInv'
  BY DEF RenderInv, TypeOK, BusyInv, Partial, FramesInOrder
<1>3. IdleInv'
  BY DEF RenderInv, TypeOK, BusyInv, IdleInv
<1>4. OutputIsComplete'
  BY DEF RenderInv, OutputIsComplete, BusyInv, IdleInv
<1>5. faults' = 0 => Undisturbed'
  BY DEF RenderInv, TypeOK, BusyInv, Undisturbed
<1> QED
  BY <1>1, <1>2, <1>3, <1>4, <1>5 DEF RenderInv

LEMMA WaitKeeps == RenderInv /\ Wait => RenderInv'
PROOF
<1> SUFFICES ASSUME RenderInv, Wait PROVE RenderInv'
  OBVIOUS
<1> USE RenderingAssumption DEF Wait, Either, Fault, files, input, Busy, Idle
<1>1. TypeOK'
  BY DEF RenderInv, TypeOK
<1>2. BusyInv'
  BY DEF RenderInv, TypeOK, BusyInv, Partial, FramesInOrder
<1>3. IdleInv'
  BY DEF RenderInv, TypeOK, BusyInv, IdleInv
<1>4. OutputIsComplete'
  BY DEF RenderInv, OutputIsComplete, BusyInv, IdleInv
<1>5. faults' = 0 => Undisturbed'
  BY DEF RenderInv, TypeOK, BusyInv, Undisturbed
<1> QED
  BY <1>1, <1>2, <1>3, <1>4, <1>5 DEF RenderInv

LEMMA ValidateKeeps == RenderInv /\ Validate => RenderInv'
PROOF
<1> SUFFICES ASSUME RenderInv, Validate PROVE RenderInv'
  OBVIOUS
<1> USE RenderingAssumption DEF Validate, Either, Fault, files, input, Busy, Idle
<1>1. TypeOK'
  BY DEF RenderInv, TypeOK
<1>2. BusyInv'
  <2>1. Partial /\ FramesInOrder /\ ffmpeg = "ok" /\ pipe = <<>> /\ next = N
    BY DEF RenderInv, BusyInv
  <2>2. Valid(partial) => Complete(partial)
    BY <2>1, FullIsComplete DEF Partial, FramesInOrder, InOrder
  <2> QED
    BY <2>1, <2>2 DEF RenderInv, BusyInv, Partial, FramesInOrder
<1>3. IdleInv'
  BY DEF RenderInv, TypeOK, BusyInv, IdleInv
<1>4. OutputIsComplete'
  BY DEF RenderInv, OutputIsComplete, BusyInv, IdleInv
<1>5. faults' = 0 => Undisturbed'
  <2> SUFFICES ASSUME faults' = 0 PROVE Undisturbed'
    OBVIOUS
  <2>1. faults = 0 /\ Undisturbed
    BY DEF RenderInv, TypeOK
  <2>2. Valid(partial)
    BY <2>1, FileFields DEF RenderInv, BusyInv, Partial, Valid, Undisturbed
  <2> QED
    BY <2>1, <2>2 DEF RenderInv, TypeOK, BusyInv, Undisturbed
<1> QED
  BY <1>1, <1>2, <1>3, <1>4, <1>5 DEF RenderInv

LEMMA ReplaceKeeps == RenderInv /\ Replace => RenderInv'
PROOF
<1> SUFFICES ASSUME RenderInv, Replace PROVE RenderInv'
  OBVIOUS
<1> USE RenderingAssumption DEF Replace, Either, Fault, files, input, Busy, Idle
<1>1. TypeOK'
  BY DEF RenderInv, TypeOK
<1>2. BusyInv'
  BY DEF RenderInv, TypeOK, BusyInv, Partial, FramesInOrder
<1>3. IdleInv'
  BY NoFileAssumption DEF RenderInv, TypeOK, BusyInv, IdleInv, Partial
<1>4. OutputIsComplete'
  BY NoFileAssumption DEF RenderInv, OutputIsComplete, BusyInv, IdleInv, Partial
<1>5. faults' = 0 => Undisturbed'
  BY DEF RenderInv, TypeOK, BusyInv, Undisturbed
<1> QED
  BY <1>1, <1>2, <1>3, <1>4, <1>5 DEF RenderInv

LEMMA AbortKeeps == RenderInv /\ Abort => RenderInv'
PROOF
<1> SUFFICES ASSUME RenderInv, Abort PROVE RenderInv'
  OBVIOUS
<1> USE RenderingAssumption DEF Abort, Either, Fault, files, input, Busy, Idle
<1>1. TypeOK'
  BY DEF RenderInv, TypeOK
<1>2. BusyInv'
  BY DEF RenderInv, TypeOK, BusyInv, Partial, FramesInOrder
<1>3. IdleInv'
  BY DEF RenderInv, TypeOK, BusyInv, IdleInv
<1>4. OutputIsComplete'
  BY DEF RenderInv, OutputIsComplete, BusyInv, IdleInv
<1>5. faults' = 0 => Undisturbed'
  BY DEF RenderInv, TypeOK, BusyInv, Undisturbed
<1> QED
  BY <1>1, <1>2, <1>3, <1>4, <1>5 DEF RenderInv

LEMMA CleanKeeps == RenderInv /\ Clean => RenderInv'
PROOF
<1> SUFFICES ASSUME RenderInv, Clean PROVE RenderInv'
  OBVIOUS
<1> USE RenderingAssumption DEF Clean, Either, Fault, files, input, Busy, Idle
<1>1. TypeOK'
  <2>1. partial' \in File \union {NoFile} /\ stuck' \in BOOLEAN
    BY DEF RenderInv, TypeOK
  <2>2. faults' \in 0 .. MaxFaults
    BY DEF RenderInv, TypeOK
  <2> QED
    BY <2>1, <2>2 DEF RenderInv, TypeOK
<1>2. BusyInv'
  BY DEF RenderInv, TypeOK, BusyInv, IdleInv, Partial, FramesInOrder
<1>3. IdleInv'
  BY DEF RenderInv, TypeOK, BusyInv, IdleInv
<1>4. OutputIsComplete'
  BY DEF RenderInv, OutputIsComplete, BusyInv, IdleInv
<1>5. faults' = 0 => Undisturbed'
  BY DEF RenderInv, TypeOK, BusyInv, Undisturbed
<1> QED
  BY <1>1, <1>2, <1>3, <1>4, <1>5 DEF RenderInv

LEMMA WriteCacheKeeps == RenderInv /\ WriteCache => RenderInv'
PROOF
<1> SUFFICES ASSUME RenderInv, WriteCache PROVE RenderInv'
  OBVIOUS
<1> USE RenderingAssumption DEF WriteCache, Either, Fault, files, input, Busy, Idle
<1>1. TypeOK'
  BY DEF RenderInv, TypeOK
<1>2. BusyInv'
  BY DEF RenderInv, TypeOK, BusyInv, Partial, FramesInOrder
<1>3. IdleInv'
  BY DEF RenderInv, TypeOK, BusyInv, IdleInv
<1>4. OutputIsComplete'
  BY DEF RenderInv, OutputIsComplete, BusyInv, IdleInv
<1>5. faults' = 0 => Undisturbed'
  BY DEF RenderInv, TypeOK, BusyInv, Undisturbed
<1> QED
  BY <1>1, <1>2, <1>3, <1>4, <1>5 DEF RenderInv

LEMMA RecheckKeeps == RenderInv /\ Recheck => RenderInv'
PROOF
<1> SUFFICES ASSUME RenderInv, Recheck PROVE RenderInv'
  OBVIOUS
<1> USE RenderingAssumption DEF Recheck, Either, Fault, files, input, Busy, Idle
<1>1. TypeOK'
  BY DEF RenderInv, TypeOK
<1>2. BusyInv'
  BY DEF RenderInv, TypeOK, BusyInv, Partial, FramesInOrder
<1>3. IdleInv'
  BY DEF RenderInv, TypeOK, BusyInv, IdleInv
<1>4. OutputIsComplete'
  BY DEF RenderInv, OutputIsComplete, BusyInv, IdleInv
<1>5. faults' = 0 => Undisturbed'
  BY CompleteIsValid DEF RenderInv, TypeOK, BusyInv, IdleInv, OutputIsComplete, Undisturbed
<1> QED
  BY <1>1, <1>2, <1>3, <1>4, <1>5 DEF RenderInv

LEMMA CrashKeeps == RenderInv /\ Crash => RenderInv'
PROOF
<1> SUFFICES ASSUME RenderInv, Crash PROVE RenderInv'
  OBVIOUS
<1> USE RenderingAssumption DEF Crash, Either, Fault, files, input, Busy, Idle
<1>1. TypeOK'
  BY DEF RenderInv, TypeOK
<1>2. BusyInv'
  <2>1. partial \in File /\ pipe \in Seq(0 .. N - 1) /\ next \in Nat
    BY DEF RenderInv, TypeOK, BusyInv, Partial
  <2>2. FramesInOrder => InOrder(partial.frames, <<>>, next)
    BY <2>1, OrderKept, FileFields DEF FramesInOrder
  <2> QED
    BY <2>2 DEF RenderInv, TypeOK, BusyInv, Partial, FramesInOrder
<1>3. IdleInv'
  BY DEF RenderInv, TypeOK, BusyInv, IdleInv
<1>4. OutputIsComplete'
  BY DEF RenderInv, OutputIsComplete, BusyInv, IdleInv
<1>5. faults' = 0 => Undisturbed'
  BY DEF RenderInv, TypeOK, BusyInv, Undisturbed
<1> QED
  BY <1>1, <1>2, <1>3, <1>4, <1>5 DEF RenderInv

LEMMA EncodeKeeps == RenderInv /\ Encode => RenderInv'
PROOF
<1> SUFFICES ASSUME RenderInv, Encode PROVE RenderInv'
  OBVIOUS
<1> USE RenderingAssumption DEF Busy, Idle
<1> DEFINE longer == Append(partial.frames, Head(pipe))
           kept == partial' = [partial EXCEPT !.frames = longer]
<1>1. /\ pipe \in Seq(0 .. N - 1) /\ pipe # <<>> /\ next \in Nat /\ partial \in File
      /\ partial.frames \in Seq(0 .. N - 1) /\ partial.done \in BOOLEAN /\ Len(pipe) <= PipeSize
  BY FileFields DEF RenderInv, TypeOK, BusyInv, Partial, Encode
<1>2. /\ ffmpeg = "running" /\ ffmpeg' = ffmpeg /\ pc' = pc /\ next' = next /\ eof' = eof
      /\ pipe' = Tail(pipe)
  BY DEF Encode
<1>3. (kept /\ faults' = faults) \/ (partial' = partial /\ Fault)
  BY DEF Encode
<1>4. /\ Tail(pipe) \in Seq(0 .. N - 1) /\ Len(Tail(pipe)) = Len(pipe) - 1 /\ Len(pipe) \in Nat \ {0}
      /\ Head(pipe) \in 0 .. N - 1
      /\ longer \in Seq(0 .. N - 1) /\ Len(longer) = Len(partial.frames) + 1 /\ Len(partial.frames) \in Nat
  BY <1>1
<1>5. kept => /\ partial' \in File /\ partial'.frames = longer /\ partial'.done = partial.done
  BY <1>1, <1>4 DEF File
<1>6. InOrder(partial.frames, pipe, next) =>
        InOrder(partial.frames, Tail(pipe), next) /\ InOrder(longer, Tail(pipe), next)
  BY <1>1, OrderKept
<1> HIDE DEF kept, longer
<1>7. partial' \in File /\ partial'.done = partial.done
  BY <1>1, <1>3, <1>5
<1>8. TypeOK'
  BY <1>1, <1>2, <1>4, <1>7 DEF RenderInv, TypeOK, Encode, Fault
<1>9. FramesInOrder => FramesInOrder'
  <2>1. CASE kept
    BY ONLY <1>2, <1>5, <1>6, <2>1 DEF FramesInOrder
  <2>2. CASE partial' = partial
    BY ONLY <1>2, <1>6, <2>2 DEF FramesInOrder
  <2> QED
    BY <1>3, <2>1, <2>2
<1>10. BusyInv'
  BY <1>2, <1>7, <1>9 DEF RenderInv, BusyInv, Partial
<1>11. IdleInv'
  BY <1>2 DEF RenderInv, IdleInv, Encode
<1>12. OutputIsComplete'
  BY DEF RenderInv, OutputIsComplete, Encode
<1>13. faults' = 0 => Undisturbed'
  <2> SUFFICES ASSUME faults' = 0 PROVE Undisturbed'
    OBVIOUS
  <2>1. faults = 0 /\ Undisturbed /\ kept
    BY <1>3 DEF RenderInv, TypeOK, Fault
  <2>2. Len(partial'.frames) = Len(partial.frames) + 1 /\ Len(pipe') = Len(pipe) - 1
    BY ONLY <1>2, <1>4, <1>5, <2>1
  <2>3. Len(partial'.frames) + Len(pipe') = Len(partial.frames) + Len(pipe)
    BY ONLY <1>4, <2>2
  <2> QED
    BY ONLY <1>2, <2>1, <2>3 DEF Undisturbed
<1> QED
  BY <1>8, <1>10, <1>11, <1>12, <1>13 DEF RenderInv

LEMMA EndKeeps == RenderInv /\ End => RenderInv'
PROOF
<1> SUFFICES ASSUME RenderInv, End PROVE RenderInv'
  OBVIOUS
<1> USE RenderingAssumption DEF End, files, input, Busy, Idle
<1>1. /\ partial \in File /\ partial' = [frames |-> partial.frames, done |-> TRUE] /\ partial' \in File
      /\ partial'.frames = partial.frames /\ partial'.done
  <2>1. partial \in File /\ partial' = [partial EXCEPT !.done = TRUE]
    BY DEF RenderInv, BusyInv, Partial
  <2> QED
    BY <2>1 DEF File
<1>2. TypeOK'
  BY <1>1 DEF RenderInv, TypeOK
<1>3. FramesInOrder => FramesInOrder'
  BY <1>1 DEF FramesInOrder
<1>4. BusyInv'
  BY <1>1, <1>3 DEF RenderInv, BusyInv, Partial
<1>5. IdleInv'
  BY DEF RenderInv, BusyInv, IdleInv
<1>6. OutputIsComplete'
  BY DEF RenderInv, OutputIsComplete
<1>7. faults' = 0 => Undisturbed'
  BY <1>1 DEF RenderInv, BusyInv, Undisturbed
<1> QED
  BY <1>2, <1>4, <1>5, <1>6, <1>7 DEF RenderInv

\* The frames that were not read are missing: it is the count that finds them missing.
LEMMA EndEarlyKeeps == RenderInv /\ EndEarly => RenderInv'
PROOF
<1> SUFFICES ASSUME RenderInv, EndEarly PROVE RenderInv'
  OBVIOUS
<1> USE RenderingAssumption DEF EndEarly, Fault, files, input, Busy, Idle
<1>1. /\ partial \in File /\ partial' = [frames |-> partial.frames, done |-> TRUE] /\ partial' \in File
      /\ partial'.frames = partial.frames /\ partial'.done
  <2>1. partial \in File /\ partial' = [partial EXCEPT !.done = TRUE]
    BY DEF RenderInv, BusyInv, Partial
  <2> QED
    BY <2>1 DEF File
<1>2. TypeOK'
  BY <1>1 DEF RenderInv, TypeOK
<1>3. FramesInOrder => FramesInOrder'
  <2>1. pipe \in Seq(0 .. N - 1) /\ next \in Nat
    BY DEF RenderInv, TypeOK
  <2> QED
    BY <1>1, <2>1, OrderKept, FileFields DEF FramesInOrder
<1>4. BusyInv'
  BY <1>1, <1>3 DEF RenderInv, BusyInv, Partial
<1>5. IdleInv'
  BY DEF RenderInv, BusyInv, IdleInv
<1>6. OutputIsComplete'
  BY DEF RenderInv, OutputIsComplete
<1>7. faults' # 0
  BY DEF RenderInv, TypeOK
<1> QED
  BY <1>2, <1>4, <1>5, <1>6, <1>7 DEF RenderInv

\* A step of rendering keeps it.
LEMMA RenderKeeps == RenderInv /\ (Render \/ FFmpeg) => RenderInv'
PROOF
  BY CallKeeps, UnlinkKeeps, StartKeeps, DecodeKeeps, WriteKeeps, CloseKeeps, WaitKeeps,
     ValidateKeeps, ReplaceKeeps, AbortKeeps, CleanKeeps, WriteCacheKeeps, RecheckKeeps,
     EncodeKeeps, EndKeeps, EndEarlyKeeps, CrashKeeps
  DEF Render, FFmpeg

LEMMA RenderInitially == Init => RenderInv
PROOF
<1> SUFFICES ASSUME Init PROVE RenderInv
  OBVIOUS
<1> USE RenderingAssumption DEF Init, Busy, Idle
<1>1. TypeOK
  <2>1. next \in 0 .. N /\ pipe \in Seq(0 .. N - 1) /\ Len(pipe) <= PipeSize /\ faults \in 0 .. MaxFaults
    OBVIOUS
  <2>2. eof \in BOOLEAN /\ stuck \in BOOLEAN /\ sidecar \in BOOLEAN
    OBVIOUS
  <2> QED
    BY <2>1, <2>2 DEF TypeOK
<1>2. BusyInv /\ IdleInv
  BY DEF BusyInv, IdleInv
<1>3. OutputIsComplete /\ Undisturbed
  BY DEF OutputIsComplete, Undisturbed
<1> QED
  BY <1>1, <1>2, <1>3 DEF RenderInv

\* So does what happens to it outside: the next stage begins or the attempt ends, ...
LEMMA ProceedKeeps == RenderInv /\ Proceed /\ (UNCHANGED faults \/ Fault) => RenderInv'
PROOF
<1> SUFFICES ASSUME RenderInv, Proceed, UNCHANGED faults \/ Fault PROVE RenderInv'
  OBVIOUS
<1> USE RenderingAssumption DEF Proceed, Fault, files, input, Busy, Idle
<1>1. TypeOK'
  BY DEF RenderInv, TypeOK
<1>2. BusyInv' /\ IdleInv'
  BY DEF RenderInv, TypeOK, BusyInv, IdleInv
<1>3. OutputIsComplete'
  BY DEF RenderInv, OutputIsComplete
<1>4. faults' = 0 => Undisturbed'
  BY DEF RenderInv, TypeOK, Undisturbed
<1> QED
  BY <1>1, <1>2, <1>3, <1>4 DEF RenderInv

\* ... a call of the stage raises before or after rendering, ...
LEMMA RaiseKeeps ==
  ASSUME RenderInv, pc \in {"call", "rendered"}, Fault, pc' = "raised",
         uploaded' \in {uploaded, output},
         UNCHANGED <<stage, next, decoder, files, input, ffmpeg, stuck>>
  PROVE  RenderInv'
PROOF
<1> USE RenderingAssumption DEF Fault, files, input, Busy, Idle
<1>1. TypeOK'
  BY DEF RenderInv, TypeOK
<1>2. BusyInv' /\ IdleInv'
  BY DEF RenderInv, TypeOK, BusyInv, IdleInv
<1>3. OutputIsComplete'
  BY DEF RenderInv, OutputIsComplete
<1>4. faults' # 0
  BY DEF RenderInv, TypeOK
<1> QED
  BY <1>1, <1>2, <1>3, <1>4 DEF RenderInv

\* ... and a fault that does not concern it.
LEMMA ElsewhereKeeps ==
  ASSUME RenderInv, UNCHANGED <<rest, pc>>, UNCHANGED faults \/ Fault
  PROVE  RenderInv'
PROOF
<1> USE RenderingAssumption DEF rest, Fault, files, input
<1>1. TypeOK'
  BY DEF RenderInv, TypeOK
<1>2. BusyInv' /\ IdleInv' /\ OutputIsComplete'
  BY DEF RenderInv, BusyInv, IdleInv, OutputIsComplete, Partial, FramesInOrder
<1>3. faults' = 0 => Undisturbed'
  BY DEF RenderInv, TypeOK, Undisturbed
<1> QED
  BY <1>1, <1>2, <1>3 DEF RenderInv

-----------------------------------------------------------------------------
(* A step of the review.                                                   *)

\* The phases that are left are distinct.
LEMMA Remaining ==
  ASSUME ReviewTypeOK, todo # <<>>
  PROVE  /\ Current \in Phase /\ 1 \in DOMAIN todo /\ todo[1] = Current
         /\ Tail(todo) \in {Phases, <<"framing", "render">>, <<"render">>, <<>>}
         /\ \A k \in DOMAIN Tail(todo) :
              k + 1 \in DOMAIN todo /\ Tail(todo)[k] = todo[k + 1] /\ Tail(todo)[k] # Current
PROOF
<1> USE DEF Current, Phase, Phases
<1>1. CASE todo = Phases
  <2>1. Tail(todo) = <<"framing", "render">>
    BY <1>1
  <2> QED
    BY <1>1, <2>1
<1>2. CASE todo = <<"framing", "render">>
  <2>1. Tail(todo) = <<"render">>
    BY <1>2
  <2> QED
    BY <1>2, <2>1
<1>3. CASE todo = <<"render">>
  <2>1. Tail(todo) = <<>>
    BY <1>3
  <2> QED
    BY <1>3, <2>1
<1> QED
  BY <1>1, <1>2, <1>3 DEF ReviewTypeOK

LEMMA TodoPhases == ReviewTypeOK => \A k \in DOMAIN todo : todo[k] \in Phase
PROOF
  BY DEF ReviewTypeOK, Phase, Phases

\* A set of videos is as large as the set that contains it, or smaller.
LEMMA BytesBound ==
  ASSUME ReviewTypeOK, NEW S, NEW T, S \subseteq T, T \subseteq Phase, \A p \in T : videos[p] # NoFile
  PROVE  Bytes(S) \in Nat /\ Bytes(T) \in Nat /\ Bytes(S) <= Bytes(T)
PROOF
<1>1. \A p \in T : videos[p].size \in Nat
  BY ReviewAssumption DEF ReviewTypeOK
<1> QED
  BY <1>1 DEF Bytes, Phase

\* The videos of the phases that are ready stay as they are.
LEMMA ReadyKept ==
  ASSUME ReviewTypeOK, ReadyIsFinished, phases' = phases,
         \A p \in Phase : Settled(p) => Settled(p)' /\ videos'[p].size = videos[p].size
  PROVE  ReadyIsFinished'
PROOF
<1>1. \A p \in Phase : phases[p] = "ready" => Settled(p)
  BY DEF ReadyIsFinished, Settled
<1> QED
  BY <1>1 DEF ReadyIsFinished, Settled, Bytes, Phase

LEMMA MeasurableKept == rate' = rate => (Measurable' <=> Measurable)
PROOF
<1> SUFFICES ASSUME rate' = rate PROVE Measurable' <=> Measurable
  OBVIOUS
<1>1. clip' = clip
  BY DEF clip
<1>2. DurationMs(clip)' = DurationMs(clip) /\ clip'.frames = clip.frames
  BY <1>1 DEF DurationMs, Round
<1> QED
  BY <1>2, SMT DEF Measurable

\* Every action of the reviewer, the children and the clock keeps the invariant of the
\* review.

LEMMA BeginKeeps == ReviewInv /\ Begin => ReviewInv'
PROOF
<1> SUFFICES ASSUME ReviewInv, Begin PROVE ReviewInv'
  OBVIOUS
<1> USE ReviewAssumption DEF Begin, work, processes
<1>1. ReviewTypeOK'
  BY DEF ReviewInv, ReviewTypeOK, Steps, Safe
<1>2. ChildInv'
  BY TodoPhases DEF ReviewInv, ReviewTypeOK, ChildInv, Fresh, Alive, Within, Phases
<1>3. OutcomeInv'
  BY TodoPhases DEF ReviewInv, ReviewTypeOK, OutcomeInv
<1>4. \A p \in Phase : phases'[p] = "ready" => phases'[p] = phases[p]
  BY DEF ReviewInv, ReviewTypeOK
<1>5. ReadyIsFinished'
  BY <1>4 DEF ReviewInv, ReviewTypeOK, ReadyIsFinished, Bytes, Alive
<1> QED
  BY <1>1, <1>2, <1>3, <1>5 DEF ReviewInv

LEMMA StartPhaseKeeps == ReviewInv /\ StartPhase => ReviewInv'
PROOF
<1> SUFFICES ASSUME ReviewInv, StartPhase PROVE ReviewInv'
  OBVIOUS
<1> USE ReviewAssumption DEF StartPhase, Raise
<1>1. /\ Current \in Phase /\ Fresh(Current) /\ Current' = Current /\ todo # <<>> /\ step = "phase"
      /\ \A k \in DOMAIN todo : k > 1 => todo[k] # Current
  <2>1. Current \in Phase /\ 1 \in DOMAIN todo /\ todo[1] = Current
    BY Remaining DEF ReviewInv
  <2>2. \A k \in DOMAIN todo : k > 1 => todo[k] # Current
    BY <2>1 DEF ReviewInv, ReviewTypeOK, Phases
  <2> QED
    BY <2>1, <2>2 DEF ReviewInv, ChildInv, Current
<1>2. /\ step' \in {"judge", "join"} /\ UNCHANGED <<rate, todo, phases, late, encoders, leaked, videos>>
      /\ child' = child \/ (child' = [child EXCEPT ![Current] = "drawing"] /\ step' = "join")
      /\ status' = [status EXCEPT ![Current] = NoFile]
      /\ outcome' \in {outcome, "timeout", "unavailable"}
  OBVIOUS
<1>3. ReviewTypeOK'
  BY <1>1, <1>2 DEF ReviewInv, ReviewTypeOK, Steps
<1>4. ChildInv'
  <2>1. /\ \A q \in Phase \ {Current} : child'[q] = child[q]
        /\ child'[Current] = "drawing" => step' = "join"
        /\ child'[Current] \in {"none", "drawing"}
    BY <1>1, <1>2 DEF ReviewInv, ReviewTypeOK, Fresh
  <2>2. \A k \in DOMAIN todo : k > 1 => Fresh(todo[k])'
    BY <1>1, <1>2, <2>1, TodoPhases DEF ReviewInv, ChildInv, Fresh
  <2>3. \A p \in encoders' : child'[p] \in {"encoding", "reaped", "crashed"}
    BY <1>1, <1>2, <2>1 DEF ReviewInv, ReviewTypeOK, ChildInv, Fresh
  <2>4. \A p \in Phase : Alive(p)' => p \in leaked' \/ (step' \in Within /\ p = Current)
    BY <1>1, <1>2, <2>1 DEF ReviewInv, ChildInv, Alive, Within
  <2> QED
    BY <1>1, <1>2, <2>2, <2>3, <2>4 DEF ChildInv
<1>5. OutcomeInv'
  <2>1. status'[Current] # "ready" /\ outcome' # "ready"
    BY <1>1, <1>2 DEF ReviewInv, ReviewTypeOK, OutcomeInv
  <2> QED
    BY <1>1, <1>2, <2>1 DEF ReviewInv, OutcomeInv
<1>6. \A p \in Phase : Settled(p) /\ phases[p] = "ready" => Settled(p)'
  <2>1. phases[Current] # "ready"
    BY <1>1, Remaining DEF ReviewInv, OutcomeInv
  <2> QED
    BY <1>1, <1>2, <2>1 DEF ReviewInv, ReviewTypeOK, Settled, Alive
<1>7. ReadyIsFinished'
  BY <1>2, <1>6 DEF ReviewInv, ReadyIsFinished, Settled, Bytes
<1> QED
  BY <1>3, <1>4, <1>5, <1>7 DEF ReviewInv

LEMMA JoinKeeps == ReviewInv /\ Join => ReviewInv'
PROOF
<1> SUFFICES ASSUME ReviewInv, Join PROVE ReviewInv'
  OBVIOUS
<1> USE ReviewAssumption DEF Join, processes
<1>1. Current \in Phase /\ Current' = Current /\ todo # <<>>
  BY Remaining DEF ReviewInv, ChildInv, Within, Current
<1>2. /\ outcome' \in Safe \union {"ready", "unavailable", "timeout"}
      /\ outcome' = "ready" => status[Current] = "ready"
  BY DEF Joined, Reported, Reason, Safe
<1>3. ReviewTypeOK'
  BY <1>2 DEF ReviewInv, ReviewTypeOK, Steps
<1>4. ChildInv'
  BY <1>1, TodoPhases DEF ReviewInv, ChildInv, Fresh, Alive, Within
<1>5. OutcomeInv'
  BY <1>1, <1>2 DEF ReviewInv, OutcomeInv, Settled, Alive
<1>6. ReadyIsFinished'
  BY ReadyKept DEF ReviewInv, Settled, Alive
<1> QED
  BY <1>3, <1>4, <1>5, <1>6 DEF ReviewInv

LEMMA FinallyKeeps == ReviewInv /\ Finally => ReviewInv'
PROOF
<1> SUFFICES ASSUME ReviewInv, Finally PROVE ReviewInv'
  OBVIOUS
<1> USE ReviewAssumption DEF Finally, Raise
<1>1. Current \in Phase /\ Current' = Current /\ todo # <<>> /\ step = "finally"
  BY Remaining DEF ReviewInv, ChildInv, Within, Current
<1>2. /\ (step' = "reap" /\ outcome' = outcome) \/ (step' = "judge" /\ outcome' = "unavailable")
      /\ UNCHANGED <<rate, todo, phases, late, child, encoders, videos>>
  OBVIOUS
<1>3. ReviewTypeOK'
  BY <1>1, <1>2 DEF ReviewInv, ReviewTypeOK, Steps
<1>4. ChildInv'
  <2>1. \A p \in Phase : Alive(p) => p \in leaked' \/ (step' = "reap" /\ p = Current)
    BY <1>1 DEF ReviewInv, ChildInv
  <2>2. Alive(Current) <=> Alive(Current)'
    BY <1>1, <1>2 DEF Alive
  <2> QED
    BY <1>1, <1>2, <2>1, TodoPhases DEF ReviewInv, ChildInv, Fresh, Alive, Within
<1>5. OutcomeInv'
  BY <1>1, <1>2 DEF ReviewInv, OutcomeInv, Settled, Alive
<1>6. ReadyIsFinished'
  BY <1>2, ReadyKept DEF ReviewInv, Settled, Alive
<1> QED
  BY <1>3, <1>4, <1>5, <1>6 DEF ReviewInv

LEMMA ReapKeeps == ReviewInv /\ Reap => ReviewInv'
PROOF
<1> SUFFICES ASSUME ReviewInv, Reap PROVE ReviewInv'
  OBVIOUS
<1> USE ReviewAssumption
<1>1. /\ Current \in Phase /\ Current' = Current /\ todo # <<>> /\ step = "reap" /\ step' = "judge"
      /\ UNCHANGED <<rate, todo, outcome, phases, late, leaked, status, videos>>
      /\ \A k \in DOMAIN todo : k > 1 => todo[k] # Current
  <2>1. step = "reap" /\ Current \in Phase /\ todo # <<>> /\ todo[1] = Current /\ 1 \in DOMAIN todo
    BY Remaining DEF ReviewInv, ChildInv, Within, Reap
  <2>2. \A k \in DOMAIN todo : k > 1 => todo[k] # Current
    BY <2>1 DEF ReviewInv, ReviewTypeOK, Phases
  <2> QED
    BY <2>1, <2>2 DEF Current, Reap
<1>2. /\ \A q \in Phase \ {Current} : child'[q] = child[q] /\ (q \in encoders' <=> q \in encoders)
      /\ encoders' \subseteq encoders /\ child' \in [Phase -> {"none", "drawing", "encoding", "exited", "crashed", "reaped"}]
  <2>1. CASE Alive(Current)
    BY <1>1, <2>1 DEF Reap, ReviewInv, ReviewTypeOK
  <2>2. CASE ~Alive(Current)
    BY <1>1, <2>2 DEF Reap, ReviewInv, ReviewTypeOK
  <2> QED
    BY <2>1, <2>2
<1>3. ~Alive(Current)' /\ (Current \in encoders' => child'[Current] \in {"reaped", "crashed"})
  <2>1. CASE Alive(Current)
    BY <1>1, <2>1 DEF Reap, ReviewInv, ReviewTypeOK, Alive
  <2>2. CASE ~Alive(Current)
    <3>1. Current \in encoders => child[Current] = "reaped" \/ child[Current] = "crashed"
      BY <2>2 DEF ReviewInv, ChildInv, Alive
    <3> QED
      BY <1>1, <2>2, <3>1 DEF Reap, ReviewInv, ReviewTypeOK, Alive
  <2> QED
    BY <2>1, <2>2
<1>4. ReviewTypeOK'
  BY <1>1, <1>2 DEF ReviewInv, ReviewTypeOK, Steps
<1>5. ChildInv'
  <2>1. \A k \in DOMAIN todo : k > 1 => Fresh(todo[k])'
    BY <1>1, <1>2, TodoPhases DEF ReviewInv, ChildInv, Fresh
  <2>2. \A p \in encoders' : child'[p] \in {"encoding", "reaped", "crashed"}
    BY <1>1, <1>2, <1>3 DEF ReviewInv, ReviewTypeOK, ChildInv
  <2>3. \A p \in Phase : Alive(p)' => p \in leaked'
    BY <1>1, <1>2, <1>3 DEF ReviewInv, ChildInv, Alive
  <2> QED
    BY <1>1, <2>1, <2>2, <2>3 DEF ChildInv
<1>6. \A p \in Phase : Settled(p) => Settled(p)'
  BY <1>1, <1>2, <1>3 DEF Settled, Alive
<1>7. OutcomeInv'
  BY <1>1, <1>6 DEF ReviewInv, OutcomeInv
<1>8. ReadyIsFinished'
  BY <1>1, <1>6, ReadyKept DEF ReviewInv
<1> QED
  BY <1>4, <1>5, <1>7, <1>8 DEF ReviewInv

LEMMA RenderedKeeps == ReviewInv /\ (Rendered \/ WriteManifest) => ReviewInv'
PROOF
<1> SUFFICES ASSUME ReviewInv, Rendered \/ WriteManifest PROVE ReviewInv'
  OBVIOUS
<1> USE DEF processes
<1>1. /\ step \in {"phase", "manifest"} /\ step' \in {"manifest", "published", "unpublished"}
      /\ step' = "published" => Measurable
      /\ UNCHANGED <<rate, todo, outcome, phases, late, child, encoders, leaked, status, videos>>
  BY DEF Rendered, WriteManifest
<1>2. ReviewTypeOK'
  BY <1>1 DEF ReviewInv, ReviewTypeOK, Steps
<1>3. ChildInv'
  BY <1>1, TodoPhases DEF ReviewInv, ChildInv, Fresh, Alive, Within
<1>4. OutcomeInv'
  BY <1>1, MeasurableKept DEF ReviewInv, OutcomeInv
<1>5. ReadyIsFinished'
  BY <1>1, ReadyKept DEF ReviewInv, Settled, Alive
<1> QED
  BY <1>2, <1>3, <1>4, <1>5 DEF ReviewInv

\* A step of one child, or of its FFmpeg, while the phase is under way or the two were
\* left behind.
LEMMA OneChild ==
  ASSUME ReviewInv, ReviewTypeOK', NEW p \in Phase,
         UNCHANGED <<rate, step, todo, outcome, phases, leaked>>,
         \A q \in Phase \ {p} : /\ child'[q] = child[q] /\ status'[q] = status[q] /\ videos'[q] = videos[q]
                                /\ q \in encoders' <=> q \in encoders,
         ~Fresh(p), ~Settled(p), Alive(p)' => Alive(p),
         p \in encoders' => child'[p] \in {"encoding", "reaped", "crashed"},
         status'[p] = "ready" => status[p] = "ready" \/ Settled(p)'
  PROVE  ReviewInv'
PROOF
<1>1. \A q \in Phase : Settled(q) => Settled(q)' /\ videos'[q] = videos[q]
  BY DEF Settled, Alive
<1>2. ChildInv'
  <2>1. \A k \in DOMAIN todo : k > 1 \/ step \in {"waiting", "phase"} => Fresh(todo[k])'
    BY TodoPhases DEF ReviewInv, ChildInv, Fresh
  <2>2. \A q \in encoders' : child'[q] \in {"encoding", "reaped", "crashed"}
    BY DEF ReviewInv, ReviewTypeOK, ChildInv
  <2>3. \A q \in Phase : Alive(q)' => q \in leaked \/ (step \in Within /\ q = Current)
    BY DEF ReviewInv, ChildInv, Alive
  <2> QED
    BY <2>1, <2>2, <2>3 DEF ReviewInv, ChildInv, Current
<1>3. OutcomeInv'
  <2>1. step = "join" => Current \in Phase
    BY Remaining DEF ReviewInv, ChildInv, Within
  <2>2. ASSUME step = "join", status'[Current] = "ready"
        PROVE  Settled(Current)'
    <3>1. Current' = Current /\ (status[Current] = "ready" => Settled(Current))
      BY <2>2 DEF ReviewInv, OutcomeInv, Current
    <3>2. CASE Current = p
      BY <2>2, <3>1, <3>2
    <3>3. CASE Current # p
      BY <1>1, <2>1, <2>2, <3>1, <3>3
    <3> QED
      BY <3>2, <3>3
  <2>3. outcome = "ready" => Current \in Phase
    BY Remaining DEF ReviewInv, ChildInv, OutcomeInv, Within
  <2> QED
    BY <1>1, <2>2, <2>3, MeasurableKept DEF ReviewInv, OutcomeInv, Current, Settled, Alive
<1>4. ReadyIsFinished'
  BY <1>1, ReadyKept DEF ReviewInv
<1> QED
  BY <1>2, <1>3, <1>4 DEF ReviewInv

LEMMA DrawKeeps == ASSUME ReviewInv, NEW p \in Phase, Draw(p) \/ DrawFails(p) PROVE ReviewInv'
PROOF
<1> USE DEF Drawing, work
<1>1. CASE Draw(p)
  <2>1. /\ child[p] = "drawing" /\ child' = [child EXCEPT ![p] = "encoding"] /\ encoders' = encoders \union {p}
        /\ UNCHANGED <<rate, step, todo, outcome, phases, late, leaked, status, videos>>
    BY <1>1 DEF Draw
  <2>2. ReviewTypeOK' /\ child'[p] = "encoding"
    BY <2>1 DEF ReviewInv, ReviewTypeOK
  <2> QED
    BY <2>1, <2>2, OneChild DEF ReviewInv, ReviewTypeOK, Fresh, Settled, Alive
<1>2. CASE DrawFails(p)
  <2>1. PICK error \in {"decode_unavailable", "source_frame_alignment", "unavailable"} :
          status' = [status EXCEPT ![p] = error]
    BY <1>2 DEF DrawFails
  <2>2. /\ child[p] = "drawing" /\ child' = [child EXCEPT ![p] = "exited"]
        /\ UNCHANGED <<rate, step, todo, outcome, phases, late, leaked, encoders, videos>>
    BY <1>2 DEF DrawFails
  <2>3. ReviewTypeOK' /\ child'[p] = "exited" /\ status'[p] = error
    BY <2>1, <2>2 DEF ReviewInv, ReviewTypeOK, Safe
  <2>4. p \notin encoders
    BY <2>2 DEF ReviewInv, ChildInv
  <2> QED
    BY <2>1, <2>2, <2>3, <2>4, OneChild DEF ReviewInv, ReviewTypeOK, Fresh, Settled, Alive
<1> QED
  BY <1>1, <1>2

LEMMA ExitKeeps == ASSUME ReviewInv, NEW p \in Phase, Exit(p) PROVE ReviewInv'
PROOF
<1> USE ReviewAssumption DEF work
<1>1. /\ child[p] = "encoding" /\ p \notin encoders /\ child' = [child EXCEPT ![p] = "exited"]
      /\ UNCHANGED <<rate, step, todo, outcome, phases, late, leaked, encoders, videos>>
      /\ status' = [status EXCEPT ![p] = IF videos[p] # NoFile /\ videos[p].ended THEN "ready" ELSE "encode_failed"]
  BY DEF Exit
<1>2. ReviewTypeOK' /\ child'[p] = "exited"
  BY <1>1 DEF ReviewInv, ReviewTypeOK
<1>3. status'[p] = "ready" => Settled(p)'
  BY <1>1, <1>2 DEF ReviewInv, ReviewTypeOK, Settled, Alive
<1> QED
  BY <1>1, <1>2, <1>3, OneChild DEF ReviewInv, ReviewTypeOK, Fresh, Settled, Alive

LEMMA ChildDiesKeeps == ASSUME ReviewInv, NEW p \in Phase, ChildDies(p) PROVE ReviewInv'
PROOF
<1>1. /\ Alive(p) /\ child' = [child EXCEPT ![p] = "crashed"]
      /\ UNCHANGED <<rate, step, todo, outcome, phases, late, leaked, encoders, status, videos>>
  BY DEF ChildDies, work
<1>2. ReviewTypeOK' /\ child'[p] = "crashed"
  BY <1>1 DEF ReviewInv, ReviewTypeOK
<1> QED
  BY <1>1, <1>2, OneChild DEF ReviewInv, ReviewTypeOK, Fresh, Settled, Alive

LEMMA OpenVideoKeeps == ASSUME ReviewInv, NEW p \in Phase, OpenVideo(p) PROVE ReviewInv'
PROOF
<1>1. PICK size \in 1 .. MaxSize : videos' = [videos EXCEPT ![p] = [size |-> size, ended |-> FALSE]]
  BY DEF OpenVideo
<1>2. /\ p \in encoders /\ videos[p] = NoFile
      /\ UNCHANGED <<rate, step, todo, outcome, phases, late, leaked, child, encoders, status>>
  BY DEF OpenVideo, Encoder, work
<1>3. ReviewTypeOK'
  BY <1>1, <1>2 DEF ReviewInv, ReviewTypeOK
<1>4. \A q \in Phase \ {p} : videos'[q] = videos[q]
  BY <1>1 DEF ReviewInv, ReviewTypeOK
<1>5. child[p] \in {"encoding", "reaped", "crashed"}
  BY <1>2 DEF ReviewInv, ChildInv
<1> QED
  BY <1>2, <1>3, <1>4, <1>5, OneChild DEF Fresh, Settled, Alive

LEMMA EndVideoKeeps == ASSUME ReviewInv, NEW p \in Phase, EndVideo(p) PROVE ReviewInv'
PROOF
<1>1. /\ p \in encoders /\ encoders' = encoders \ {p}
      /\ UNCHANGED <<rate, step, todo, outcome, phases, late, leaked, child, status>>
  BY DEF EndVideo, Encoder, work
<1>2. (videos[p] # NoFile /\ videos' = [videos EXCEPT ![p].ended = TRUE]) \/ videos' = videos
  BY DEF EndVideo
<1>3. ReviewTypeOK'
  BY <1>1, <1>2 DEF ReviewInv, ReviewTypeOK
<1>4. \A q \in Phase \ {p} : videos'[q] = videos[q]
  BY <1>2 DEF ReviewInv, ReviewTypeOK
<1>5. child[p] \in {"encoding", "reaped", "crashed"}
  BY <1>1 DEF ReviewInv, ChildInv
<1> QED
  BY <1>1, <1>3, <1>4, <1>5, OneChild DEF Fresh, Settled, Alive

LEMMA DeadlineKeeps == ReviewInv /\ Deadline => ReviewInv'
PROOF
<1> SUFFICES ASSUME ReviewInv, Deadline PROVE ReviewInv'
  OBVIOUS
<1> USE DEF Deadline, work, processes
<1>1. ReviewTypeOK'
  BY DEF ReviewInv, ReviewTypeOK
<1>2. ChildInv'
  BY TodoPhases DEF ReviewInv, ChildInv, Fresh, Alive, Current
<1>3. OutcomeInv'
  BY MeasurableKept DEF ReviewInv, OutcomeInv, Settled, Alive, Current
<1>4. ReadyIsFinished'
  BY ReadyKept DEF ReviewInv, Settled, Alive
<1> QED
  BY <1>1, <1>2, <1>3, <1>4 DEF ReviewInv

\* A verdict is ready only on a settled video that fits beside those before it.
LEMMA JudgeKeeps == ReviewInv /\ Judge => ReviewInv'
PROOF
<1> SUFFICES ASSUME ReviewInv, Judge PROVE ReviewInv'
  OBVIOUS
<1> USE ReviewAssumption DEF work, processes
<1>1. /\ Current \in Phase /\ phases[Current] # "ready" /\ step = "judge" /\ outcome' = NoFile
      /\ ReviewTypeOK /\ todo # <<>> /\ \A p \in Phase : Alive(p) => p \in leaked
      /\ UNCHANGED <<rate, late, child, encoders, leaked, status>>
  BY Remaining DEF ReviewInv, ChildInv, OutcomeInv, Judge, Within
<1>2. CASE phases' = Nothing /\ step' = "manifest" /\ UNCHANGED <<videos, todo>>
  <2>1. ReviewTypeOK'
    BY <1>1, <1>2 DEF ReviewTypeOK, Nothing, Steps
  <2>2. \A q \in Phase : phases'[q] # "ready"
    BY <1>2 DEF Nothing
  <2>3. ChildInv'
    BY <1>1, <1>2, TodoPhases DEF ReviewInv, ChildInv, Fresh, Alive, Within
  <2>4. OutcomeInv'
    BY <1>1, <1>2, <2>2, TodoPhases DEF OutcomeInv
  <2>5. ReadyIsFinished'
    BY <2>2 DEF ReadyIsFinished, Bytes
  <2> QED
    BY <2>1, <2>3, <2>4, <2>5 DEF ReviewInv
<1>3. CASE /\ phases' = [phases EXCEPT ![Current] = Verdict]
           /\ videos' = IF Verdict = "ready" THEN videos ELSE [videos EXCEPT ![Current] = NoFile]
           /\ todo' = Tail(todo) /\ step' = "phase"
  <2>1. Verdict \in Safe \union {"ready", "unavailable", "timeout", NoFile}
    BY <1>1 DEF Verdict, ReviewTypeOK, Safe
  <2>2. ReviewTypeOK'
    BY <1>1, <1>3, <2>1, Remaining DEF ReviewTypeOK, Steps
  <2>3. /\ phases'[Current] = Verdict /\ \A q \in Phase \ {Current} : phases'[q] = phases[q]
        /\ \A q \in Phase \ {Current} : videos'[q] = videos[q]
        /\ Verdict = "ready" => videos' = videos
    BY <1>1, <1>3 DEF ReviewTypeOK
  <2>4. ChildInv'
    <3>1. \A k \in DOMAIN todo' : Fresh(todo'[k])
      BY <1>1, <1>3, Remaining DEF ReviewInv, ReviewTypeOK, ChildInv, Phases
    <3> QED
      BY <1>1, <1>3, <3>1 DEF ReviewInv, ChildInv, Fresh, Alive, Within
  <2>5. \A k \in DOMAIN todo' : phases'[todo'[k]] # "ready"
    BY <1>1, <1>3, <2>3, Remaining, TodoPhases DEF ReviewInv, OutcomeInv
  <2>6. OutcomeInv'
    BY <1>1, <1>3, <2>5 DEF OutcomeInv
  <2>7. PICK ready : ready = {q \in Phase : phases[q] = "ready"}
    OBVIOUS
  <2>8. /\ \A q \in ready : Settled(q) /\ q # Current /\ videos'[q] = videos[q]
        /\ Bytes(ready) <= MaxBytes /\ ready \subseteq Phase
    BY <1>1, <2>3, <2>7 DEF ReviewInv, ReadyIsFinished, Settled
  <2>9. ReadyIsFinished'
    <3>1. CASE Verdict # "ready"
      <4>1. {q \in Phase : phases'[q] = "ready"} = ready
        BY <1>1, <2>3, <2>7, <3>1
      <4>2. \A q \in ready : videos'[q] # NoFile /\ videos'[q].ended /\ ~Alive(q)' /\ q \notin encoders'
        BY <1>1, <2>8 DEF Settled, Alive
      <4> QED
        BY <2>8, <4>1, <4>2 DEF ReadyIsFinished, Bytes
    <3>2. CASE Verdict = "ready"
      <4>1. {q \in Phase : phases'[q] = "ready"} = ready \union {Current} /\ videos' = videos
        BY <1>1, <2>3, <2>7, <3>2
      <4>2. Aggregate \in Nat
        BY <1>1, BytesBound DEF Aggregate
      <4>3. Settled(Current) /\ Aggregate <= MaxBytes
        BY <3>2, <4>2 DEF Verdict, ReviewInv, OutcomeInv
      <4>4. \A q \in ready \union {Current} : videos[q] # NoFile /\ videos[q].ended /\ ~Alive(q) /\ q \notin encoders
        BY <2>8, <4>3 DEF Settled
      <4>5. Bytes(ready \union {Current}) <= MaxBytes
        <5>1. /\ Bytes(ready \union {Current}) \in Nat
              /\ Bytes(ready \union {Current}) <= Aggregate
          BY <1>1, <2>8, <4>4, BytesBound DEF Aggregate
        <5> QED
          BY <4>2, <4>3, <5>1, ReviewAssumption
      <4> QED
        BY <1>1, <4>1, <4>4, <4>5 DEF ReadyIsFinished, Bytes, Alive
    <3> QED
      BY <3>1, <3>2
  <2> QED
    BY <2>2, <2>4, <2>6, <2>9 DEF ReviewInv
<1> QED
  BY <1>2, <1>3 DEF Judge

LEMMA ChildrenKeep == ReviewInv /\ (Children \/ Deadline) => ReviewInv'
PROOF
  BY DrawKeeps, ExitKeeps, ChildDiesKeeps, OpenVideoKeeps, EndVideoKeeps, DeadlineKeeps
  DEF Children

LEMMA ReviewInitially == ReviewInit => ReviewInv
PROOF
<1> SUFFICES ASSUME ReviewInit PROVE ReviewInv
  OBVIOUS
<1> USE ReviewAssumption DEF ReviewInit
<1>1. ReviewTypeOK
  BY DEF ReviewTypeOK, Steps, Nothing, Phase
<1>2. ChildInv /\ OutcomeInv
  BY <1>1, TodoPhases DEF ChildInv, OutcomeInv, Nothing, Fresh, Alive, Within
<1>3. ReadyIsFinished
  BY DEF ReadyIsFinished, Nothing, Bytes
<1> QED
  BY <1>1, <1>2, <1>3 DEF ReviewInv

\* So does the worker when it gives the review up, ...
LEMMA GiveUpKeeps ==
  ASSUME ReviewInv, step \in {"waiting", "manifest"}, step' = "unpublished",
         UNCHANGED <<rate, todo, outcome, phases, late, processes, status, videos>>
  PROVE  ReviewInv'
PROOF
<1> USE DEF processes
<1>1. ReviewTypeOK' /\ ChildInv'
  BY TodoPhases DEF ReviewInv, ReviewTypeOK, ChildInv, Fresh, Alive, Within, Steps, Current
<1>2. OutcomeInv' /\ ReadyIsFinished'
  BY DEF ReviewInv, OutcomeInv, ReadyIsFinished, Bytes, Alive
<1> QED
  BY <1>1, <1>2 DEF ReviewInv

\* ... and a step that does not concern it.
LEMMA ReviewElsewhere == ASSUME ReviewInv, UNCHANGED reviewVars PROVE ReviewInv'
PROOF
<1> USE DEF reviewVars, work, processes
<1>1. ReviewTypeOK' /\ ChildInv'
  BY TodoPhases DEF ReviewInv, ReviewTypeOK, ChildInv, Fresh, Alive, Current
<1>2. OutcomeInv' /\ ReadyIsFinished'
  BY MeasurableKept DEF ReviewInv, OutcomeInv, ReadyIsFinished, Bytes, Settled, Alive, Current
<1> QED
  BY <1>1, <1>2 DEF ReviewInv

-----------------------------------------------------------------------------
(* A step of the attempt.                                                  *)

LEMMA AttemptTypes == AttemptInv => AttemptTypeOK
PROOF
<1>1. DOMAIN Stages = 1 .. 4
  BY DEF Stages
<1>2. ASSUME TrailInv, now \in 1 .. 4, trail \in Seq(Record)
      PROVE  Len(trail) <= 4
  BY <1>2 DEF TrailInv
<1> QED
  BY <1>1, <1>2 DEF AttemptInv, AttemptTypeOK, ScratchTypes, RenderInv, ReviewInv

\* What rendering leaves alone in the attempt, ...
LEMMA RenderFrame ==
  RenderInv /\ (Render \/ FFmpeg) =>
    /\ UNCHANGED <<stage, uploaded>> /\ pc' # "done" /\ pc # "raised"
    /\ output # NoFile => output' # NoFile
PROOF
<1> SUFFICES ASSUME RenderInv, Render \/ FFmpeg
             PROVE  /\ UNCHANGED <<stage, uploaded>> /\ pc' # "done" /\ pc # "raised"
                    /\ output # NoFile => output' # NoFile
  OBVIOUS
<1> USE DEF RenderInv, IdleInv, BusyInv, Partial, Idle, Busy, Either, Fault, files
<1>1. CASE Call \/ Unlink \/ Start \/ Decode \/ Write \/ Close
  BY <1>1 DEF Call, Unlink, Start, Decode, Write, Close
<1>2. CASE Wait \/ Validate \/ Abort \/ Clean \/ WriteCache \/ Recheck
  BY <1>2 DEF Wait, Validate, Abort, Clean, WriteCache, Recheck
<1>3. CASE Replace
  BY <1>3, NoFileAssumption DEF Replace
<1>4. CASE FFmpeg
  <2>1. ffmpeg = "running"
    BY <1>4 DEF FFmpeg, Encode, End, EndEarly, Crash
  <2> QED
    BY <1>4, <2>1 DEF FFmpeg, Encode, End, EndEarly, Crash, TypeOK
<1> QED
  BY <1>1, <1>2, <1>3, <1>4 DEF Render

\* ... the reviewer, ...
LEMMA ReviewerFrame ==
  ASSUME ReviewInv, StartPhase \/ Join \/ Finally \/ Reap \/ Judge \/ Rendered \/ WriteManifest
  PROVE  /\ UNCHANGED <<rest, pc>> /\ (UNCHANGED faults \/ Fault)
         /\ step # "waiting" /\ step' # "waiting" /\ step # "unpublished"
         /\ step' \in {"phase", "join", "finally", "reap", "judge"} =>
              step \in {"phase", "join", "finally", "reap", "judge"}
         /\ (\E p \in Phase : phases'[p] = "ready") =>
              step = "judge" \/ \E p \in Phase : phases[p] = "ready"
PROOF
<1> USE DEF StartPhase, Join, Finally, Reap, Judge, Rendered, WriteManifest, Raise, vars, rest, rendering, work
<1>1. CASE StartPhase
  BY <1>1
<1>2. CASE Join \/ Finally \/ Reap \/ Rendered \/ WriteManifest
  BY <1>2
<1>3. CASE Judge
  BY <1>3
<1> QED
  BY <1>1, <1>2, <1>3

\* ... and the children and the clock.
LEMMA ChildrenFrame ==
  Children \/ Deadline => UNCHANGED <<rest, pc, step, phases>> /\ (UNCHANGED faults \/ Fault)
PROOF
  BY DEF Children, Deadline, Draw, DrawFails, Drawing, Exit, ChildDies, OpenVideo, EndVideo, Encoder,
         vars, rest, rendering, work

\* No stage comes twice.
LEMMA StagesDiffer == \A k, l \in 1 .. 4 : Stages[k] = Stages[l] => k = l
PROOF
  BY DEF Stages

\* The trail stays true while its records and the end of the stage do.
LEMMA TrailKept ==
  ASSUME TrailInv, ScratchTypes, trail' = trail, now' = now, Over => Over' /\ pc' = pc
  PROVE  TrailInv'
PROOF
<1>1. Len(trail) \in Nat
  BY DEF ScratchTypes
<1>2. ASSUME NEW k \in DOMAIN trail
      PROVE  \E j \in 1 .. now : /\ trail[k].stage = Stages[j]
                                 /\ trail[k].failed <=> j = now /\ pc' = "raised"
                                 /\ j < now \/ Over'
  <2>1. PICK j \in 1 .. now : /\ trail[k].stage = Stages[j]
                              /\ trail[k].failed <=> j = now /\ pc = "raised"
                              /\ j < now \/ Over
    BY DEF TrailInv
  <2>2. CASE Over
    BY <2>1, <2>2
  <2>3. CASE ~Over
    BY <2>1, <2>3 DEF ScratchTypes
  <2> QED
    BY <2>2, <2>3
<1> QED
  BY <1>1, <1>2 DEF TrailInv, ScratchTypes

\* Every action keeps the invariant of the attempt.

LEMMA EnterKeeps == AttemptInv /\ Enter => AttemptInv'
PROOF
<1> SUFFICES ASSUME AttemptInv, Enter PROVE AttemptInv'
  OBVIOUS
<1> USE DEF AttemptInv
<1> USE TraceAssumption DEF Enter, fixed, scratch, sources, evidence, rest
<1>1. ScratchTypes'
  BY DEF ScratchTypes
<1>2. RenderInv'
  BY ElsewhereKeeps, RaiseKeeps DEF StageInv, rest
<1>3. ReviewInv'
  BY ReviewElsewhere, GiveUpKeeps DEF StageInv, Over, reviewVars, work
<1>4. StageInv'
  BY DEF StageInv, ScratchTypes, Over, rest
<1>5. CropsInv'
  BY DEF StageInv, CropsInv, ScratchTypes, Over
<1>6. EvidenceInv'
  BY DEF StageInv, EvidenceInv, ScratchTypes, Over, rest, files
<1>7. TrailInv'
  BY TrailKept DEF StageInv, Over
<1> QED
  BY <1>1, <1>2, <1>3, <1>4, <1>5, <1>6, <1>7

LEMMA InputsKeeps == AttemptInv /\ Inputs => AttemptInv'
PROOF
<1> SUFFICES ASSUME AttemptInv, Inputs PROVE AttemptInv'
  OBVIOUS
<1> USE DEF AttemptInv
<1> USE TraceAssumption DEF Inputs, fixed, scratch, sources, evidence
<1>1. /\ at = "inputs" /\ pc = "call" /\ step = "waiting" /\ ~Over /\ UNCHANGED <<step, phases>>
      /\ UNCHANGED <<stage, uploaded, output, timing, capture, now, report, crops, trace, trail, bundle>>
  BY DEF StageInv, Over, rest, files, reviewVars, work
<1>2. \/ Acquired /\ at' = (IF now = 1 THEN "leave" ELSE "crops") /\ UNCHANGED <<pc, faults>>
      \/ Unacquired /\ Raises
  OBVIOUS
<1>3. ScratchTypes'
  BY <1>1, <1>2 DEF ScratchTypes, Acquired, Unacquired, Raises
<1>4. RenderInv'
  BY ElsewhereKeeps, RaiseKeeps DEF StageInv, Raises, rest
<1>5. ReviewInv'
  BY ReviewElsewhere
<1>6. StageInv'
  BY <1>1, <1>2 DEF StageInv, ScratchTypes, Over, Raises
<1>7. CropsInv'
  <2>1. CASE Acquired /\ at' = (IF now = 1 THEN "leave" ELSE "crops") /\ UNCHANGED <<pc, faults>>
    BY <1>1, <2>1 DEF CropsInv, ScratchTypes, Acquired
  <2>2. CASE Unacquired /\ Raises
    BY <1>1, <2>2 DEF CropsInv, ScratchTypes, Unacquired, Raises
  <2> QED
    BY <1>2, <2>1, <2>2
<1>8. EvidenceInv'
  BY <1>1, <1>2 DEF EvidenceInv, Raises
<1>9. TrailInv'
  BY <1>1, TrailKept
<1> QED
  BY <1>3, <1>4, <1>5, <1>6, <1>7, <1>8, <1>9

LEMMA CropPathKeeps == AttemptInv /\ CropPath => AttemptInv'
PROOF
<1> SUFFICES ASSUME AttemptInv, CropPath PROVE AttemptInv'
  OBVIOUS
<1> USE DEF AttemptInv
<1> USE TraceAssumption DEF CropPath, fixed, scratch, sources, evidence
<1>1. /\ at = "crops" /\ pc = "call" /\ now > 1 /\ step = "waiting" /\ ~Over /\ UNCHANGED <<step, phases>>
      /\ UNCHANGED <<stage, uploaded, output, timing, capture, now, original, cfr, trail, bundle>>
  BY DEF StageInv, Over, rest, files, reviewVars, work
<1>2. /\ Source = (IF timing = "constant" THEN "original" ELSE "normalized")
      /\ timing = "variable" => cfr = "whole"
      /\ Source \in Origins /\ (crops = NoFile => trace = NoFile)
  BY <1>1 DEF CropsInv, EvidenceInv, ScratchTypes, Source, Origins
<1>3. Analyzed = (IF now = 2 THEN "leave" ELSE "render")
  BY DEF Analyzed
<1>4. \/ crops # NoFile /\ at' = Analyzed /\ UNCHANGED <<pc, report, crops, trace>>
      \/ /\ crops = NoFile /\ report' = TRUE /\ crops' = Source /\ at' = Analyzed /\ pc' = pc
         /\ trace' \in {NoFile, [of |-> Source, validated |-> FALSE]}
      \/ /\ at' = "leave" /\ pc' = "raised" /\ report' \in {report, TRUE}
         /\ UNCHANGED <<crops, trace>>
  BY <1>2 DEF KeepTrace, Raises
<1>5. [of |-> Source, validated |-> FALSE] \in [of : Origins, validated : BOOLEAN]
  BY <1>2
<1>6. ScratchTypes'
  <2>1. crops' \in Origins \union {NoFile} /\ trace' \in [of : Origins, validated : BOOLEAN] \union {NoFile}
    BY <1>4, <1>2, <1>5 DEF ScratchTypes
  <2>2. report' \in BOOLEAN /\ at' \in {"leave", "render"}
    BY <1>4, <1>3 DEF ScratchTypes
  <2> QED
    BY <1>1, <2>1, <2>2 DEF ScratchTypes
<1>7. RenderInv'
  BY ElsewhereKeeps, RaiseKeeps DEF StageInv, Raises, KeepTrace, rest
<1>8. ReviewInv'
  BY ReviewElsewhere
<1>9. StageInv'
  <2>1. (at' = Analyzed /\ pc' = "call") \/ (at' = "leave" /\ pc' = "raised")
    BY <1>1, <1>4
  <2> QED
    BY <1>1, <1>3, <2>1 DEF StageInv, ScratchTypes, Over
<1>10. CropsInv'
  BY <1>1, <1>4, <1>2, <1>3 DEF CropsInv, ScratchTypes, Origins, Over
<1>11. EvidenceInv'
  <2>1. at' \in {"leave", "render"} /\ \A p \in Phase : phases'[p] # "ready"
    BY <1>1, <1>4, <1>3 DEF EvidenceInv
  <2>2. trace' # NoFile => trace'.of = crops' /\ (trace'.validated => output' # NoFile)
    <3>1. CASE UNCHANGED <<crops, trace>>
      BY <1>1, <3>1 DEF EvidenceInv
    <3>2. CASE crops' = Source /\ trace' = NoFile
      BY <3>2
    <3>3. CASE crops' = Source /\ trace' = [of |-> Source, validated |-> FALSE]
      BY <3>3
    <3> QED
      BY <1>4, <1>2, <3>1, <3>2, <3>3
  <2> QED
    BY <1>1, <2>1, <2>2 DEF EvidenceInv
<1>12. TrailInv'
  BY <1>1, TrailKept
<1> QED
  BY <1>6, <1>7, <1>8, <1>9, <1>10, <1>11, <1>12

LEMMA RenderingKeeps == AttemptInv /\ Rendering => AttemptInv'
PROOF
<1> SUFFICES ASSUME AttemptInv, Rendering PROVE AttemptInv'
  OBVIOUS
<1> USE DEF AttemptInv
<1> USE TraceAssumption DEF Rendering, attemptVars, fixed, scratch, sources, evidence
<1>1. ScratchTypes'
  BY DEF ScratchTypes
<1>2. RenderInv'
  BY RenderKeeps
<1>3. ReviewInv'
  BY ReviewElsewhere
<1>4. StageInv'
  BY RenderFrame DEF StageInv, ScratchTypes, Over, reviewVars, work
<1>5. CropsInv'
  BY RenderFrame DEF StageInv, CropsInv, ScratchTypes, Over
<1>6. EvidenceInv'
  BY RenderFrame DEF StageInv, EvidenceInv, ScratchTypes, Over, reviewVars, work
<1>7. TrailInv'
  BY TrailKept DEF StageInv, Over
<1> QED
  BY <1>1, <1>2, <1>3, <1>4, <1>5, <1>6, <1>7

LEMMA ConcludeKeeps == AttemptInv /\ Conclude => AttemptInv'
PROOF
<1> SUFFICES ASSUME AttemptInv, Conclude PROVE AttemptInv'
  OBVIOUS
<1> USE DEF AttemptInv
<1> USE TraceAssumption DEF Conclude, fixed, scratch, sources, evidence, Raises, Marked
<1>1. ScratchTypes'
  BY DEF ScratchTypes
<1>2. RenderInv'
  BY ElsewhereKeeps, RaiseKeeps DEF StageInv, rest
<1>3. ReviewInv'
  BY ReviewElsewhere
<1>4. StageInv'
  BY DEF StageInv, ScratchTypes, Over, reviewVars, work, rest
<1>5. CropsInv'
  BY DEF StageInv, CropsInv, ScratchTypes, Over
<1>6. EvidenceInv'
  BY DEF StageInv, EvidenceInv, ScratchTypes, Over, reviewVars, work, rest, files, RenderInv, IdleInv
<1>7. TrailInv'
  BY TrailKept DEF StageInv, Over
<1> QED
  BY <1>1, <1>2, <1>3, <1>4, <1>5, <1>6, <1>7

LEMMA CollectKeeps == AttemptInv /\ Collect => AttemptInv'
PROOF
<1> SUFFICES ASSUME AttemptInv, Collect PROVE AttemptInv'
  OBVIOUS
<1> USE DEF AttemptInv
<1> USE TraceAssumption DEF Collect, fixed, scratch, sources, evidence, Acquired, Unacquired, Collected, Source
<1>1. /\ at = "ended" /\ step = "waiting" /\ phases' = phases
      /\ UNCHANGED <<output, crops, trace, trail>>
  BY DEF rest, files
<1>2. \/ step' = "unpublished" /\ at' = at
      \/ \E header \in {NoFile, Source} :
           bundle' = Collected(header) /\ at' = "collected" /\ step' = step
  OBVIOUS
<1>3. trace # NoFile => Source = trace.of
  BY DEF EvidenceInv, CropsInv, ScratchTypes, Source
<1>4. ScratchTypes'
  BY DEF ScratchTypes
<1>5. RenderInv'
  BY ElsewhereKeeps DEF rest
<1>6. ReviewInv'
  BY ReviewElsewhere, GiveUpKeeps DEF reviewVars, work
<1>7. StageInv'
  BY DEF StageInv, ScratchTypes, Over, rest
<1>8. CropsInv'
  BY DEF StageInv, CropsInv, ScratchTypes, Over
<1>9. EvidenceInv'
  <2>1. CASE step' = "unpublished" /\ at' = at
    BY <1>1, <2>1 DEF EvidenceInv
  <2>2. ASSUME NEW header \in {NoFile, Source},
               bundle' = [header |-> header, trail |-> trail, trace |-> trace],
               at' = "collected", step' = step
        PROVE  EvidenceInv'
    BY <1>1, <1>3, <2>2 DEF EvidenceInv
  <2> QED
    BY <1>2, <2>1, <2>2 DEF Collected
<1>10. TrailInv'
  BY TrailKept DEF StageInv, Over
<1> QED
  BY <1>4, <1>5, <1>6, <1>7, <1>8, <1>9, <1>10

LEMMA ReviewKeeps == AttemptInv /\ Review => AttemptInv'
PROOF
<1> SUFFICES ASSUME AttemptInv, Review PROVE AttemptInv'
  OBVIOUS
<1> USE DEF AttemptInv
<1> USE TraceAssumption DEF Review, attemptVars, fixed, scratch, sources, evidence
<1>1. ScratchTypes'
  BY DEF ScratchTypes
<1>2. RenderInv'
  BY ReviewerFrame, ElsewhereKeeps DEF Begin, vars, rest
<1>3. ReviewInv'
  BY BeginKeeps, StartPhaseKeeps, JoinKeeps, FinallyKeeps, ReapKeeps, JudgeKeeps, RenderedKeeps
<1>4. StageInv'
  BY ReviewerFrame DEF StageInv, ScratchTypes, Over, Begin, vars, rest
<1>5. CropsInv'
  BY ReviewerFrame DEF CropsInv, Begin, vars, rest
<1>6. EvidenceInv'
  BY ReviewerFrame DEF EvidenceInv, Begin, vars, rest, files, Reviewable
<1>7. TrailInv'
  BY ReviewerFrame, TrailKept DEF Begin, vars, rest, Over
<1> QED
  BY <1>1, <1>2, <1>3, <1>4, <1>5, <1>6, <1>7

LEMMA NoManifestKeeps == AttemptInv /\ NoManifest => AttemptInv'
PROOF
<1> SUFFICES ASSUME AttemptInv, NoManifest PROVE AttemptInv'
  OBVIOUS
<1> USE DEF AttemptInv
<1> USE TraceAssumption DEF NoManifest, attemptVars, fixed, scratch, sources, evidence
<1>1. ScratchTypes'
  BY DEF ScratchTypes
<1>2. RenderInv'
  BY ElsewhereKeeps DEF vars, rest
<1>3. ReviewInv'
  BY GiveUpKeeps
<1>4. StageInv'
  BY DEF StageInv, ScratchTypes, Over, vars
<1>5. CropsInv'
  BY DEF CropsInv, vars
<1>6. EvidenceInv'
  BY DEF EvidenceInv, vars, files
<1>7. TrailInv'
  BY TrailKept DEF Over, vars
<1> QED
  BY <1>1, <1>2, <1>3, <1>4, <1>5, <1>6, <1>7

LEMMA EnvironmentKeeps == AttemptInv /\ Environment => AttemptInv'
PROOF
<1> SUFFICES ASSUME AttemptInv, Environment PROVE AttemptInv'
  OBVIOUS
<1> USE DEF AttemptInv
<1> USE TraceAssumption DEF Environment, attemptVars, fixed, scratch, sources, evidence
<1>1. ScratchTypes'
  BY DEF ScratchTypes
<1>2. RenderInv'
  BY ChildrenFrame, ElsewhereKeeps DEF rest
<1>3. ReviewInv'
  BY ChildrenKeep
<1>4. StageInv'
  BY ChildrenFrame DEF StageInv, Over, rest
<1>5. CropsInv'
  BY ChildrenFrame DEF CropsInv, rest
<1>6. EvidenceInv'
  BY ChildrenFrame DEF EvidenceInv, rest, files
<1>7. TrailInv'
  BY ChildrenFrame, TrailKept DEF Over
<1> QED
  BY <1>1, <1>2, <1>3, <1>4, <1>5, <1>6, <1>7

\* A record that is added says how the stage ends.
LEMMA TrailExtended ==
  ASSUME TrailInv, ScratchTypes, ~Over, trail' \in {trail, Append(trail, [stage |-> Stages[now], failed |-> Failed])},
         \/ at' = "ended" /\ now' = now /\ pc' = pc /\ (Failed <=> pc = "raised")
         \/ at' = "ended" /\ now' = now /\ pc' # "raised" /\ ~Failed
         \/ at' = "enter" /\ now' = now + 1 /\ ~Failed
  PROVE  TrailInv'
PROOF
<1> DEFINE record == [stage |-> Stages[now], failed |-> Failed]
           Holds(r) == \E j \in 1 .. now' : /\ r.stage = Stages[j]
                                            /\ r.failed <=> j = now' /\ pc' = "raised"
                                            /\ j < now' \/ Over'
<1>1. now \in 1 .. 4 /\ Len(trail) \in Nat /\ Len(trail) <= now - 1 /\ now' \in {now, now + 1}
  BY DEF TrailInv, ScratchTypes
<1>2. Over' <=> now' = now
  BY <1>1 DEF Over
<1>3. ASSUME NEW k \in DOMAIN trail PROVE Holds(trail[k])
  <2>1. PICK j \in 1 .. now : /\ trail[k].stage = Stages[j]
                              /\ trail[k].failed <=> j = now /\ pc = "raised"
                              /\ j < now
    BY <1>1 DEF TrailInv
  <2> QED
    BY <1>1, <2>1
<1>4. Holds(record)
  <2>1. record.stage = Stages[now] /\ record.failed = Failed
    OBVIOUS
  <2>2. Failed <=> now = now' /\ pc' = "raised"
    BY <1>1
  <2>3. now \in 1 .. now' /\ (now < now' \/ Over')
    BY <1>1, <1>2
  <2> QED
    BY <2>1, <2>2, <2>3
<1>5. CASE trail' = trail
  BY <1>1, <1>2, <1>3, <1>5 DEF TrailInv
<1>6. CASE trail' = Append(trail, record)
  <2>1. /\ Len(trail') = Len(trail) + 1 /\ trail'[Len(trail) + 1] = record
        /\ DOMAIN trail' = 1 .. Len(trail) + 1 /\ DOMAIN trail = 1 .. Len(trail)
        /\ \A k \in 1 .. Len(trail) : trail'[k] = trail[k]
    BY <1>6 DEF ScratchTypes
  <2> HIDE DEF record, Holds
  <2>2. \A k \in DOMAIN trail' : Holds(trail'[k])
    BY <1>1, <1>3, <1>4, <2>1
  <2>3. Len(trail') <= IF Over' THEN now' ELSE now' - 1
    BY <1>1, <1>2, <2>1
  <2> QED
    BY <2>2, <2>3 DEF TrailInv, Holds
<1> QED
  BY <1>5, <1>6

LEMMA LeaveKeeps == AttemptInv /\ Leave => AttemptInv'
PROOF
<1> SUFFICES ASSUME AttemptInv, Leave PROVE AttemptInv'
  OBVIOUS
<1> USE DEF AttemptInv
<1> DEFINE record == [stage |-> Stages[now], failed |-> Failed]
<1>1. /\ at \in {"leave", "render"} /\ ~Over /\ step = "waiting"
      /\ UNCHANGED reviewVars /\ UNCHANGED <<step, phases>>
      /\ UNCHANGED <<timing, capture, original, cfr, report, crops, trace, bundle>>
  BY DEF Leave, Failed, StageInv, Over, fixed, sources, reviewVars, work
<1>2. trail' \in {trail, Append(trail, record)} /\ (UNCHANGED faults \/ Fault)
  BY DEF Leave, Recorded
<1>3. now \in 1 .. 4
  BY DEF ScratchTypes
<1>4. \/ Failed /\ pc = "raised" /\ at' = "ended" /\ UNCHANGED <<rest, pc, now>>
      \/ /\ ~Failed /\ at = "leave" /\ pc = "call" /\ now < 3
         /\ at' = "enter" /\ now' = now + 1 /\ UNCHANGED <<rest, pc>>
      \/ /\ ~Failed /\ at = "leave" /\ pc = "rendered" /\ now = 3 /\ stage = "rendering"
         /\ at' = "enter" /\ now' = 4 /\ Proceed
      \/ /\ ~Failed /\ at = "leave" /\ pc = "rendered" /\ now = 4 /\ stage = "uploading"
         /\ at' = "ended" /\ now' = 4 /\ Proceed
  <2>1. CASE Failed
    BY <2>1 DEF Leave, Failed
  <2>2. CASE ~Failed
    <3>1. at = "leave" /\ pc \in {"call", "rendered"}
      BY <2>2 DEF Leave, Failed, StageInv
    <3>2. pc = "call" => now < 3
      BY <3>1 DEF StageInv
    <3>3. pc = "rendered" => now > 2 /\ (now = 4 <=> stage = "uploading") /\ stage \in {"rendering", "uploading"}
      BY <3>1 DEF StageInv, RenderInv, TypeOK
    <3> QED
      BY <1>3, <2>2, <3>1, <3>2, <3>3 DEF Leave
  <2> QED
    BY <2>1, <2>2
<1>5. /\ stage' = (IF pc = "rendered" /\ now = 3 THEN "uploading" ELSE stage)
      /\ pc' = (IF pc # "rendered" THEN pc ELSE IF now = 3 THEN "call" ELSE "done")
      /\ output' = output
  BY <1>4 DEF Proceed, rest, files
<1>6. ScratchTypes'
  <2>1. [stage |-> Stages[now], failed |-> Failed] \in Record
    BY <1>3 DEF Record, Failed
  <2>2. trail' \in Seq(Record)
    BY <1>2, <2>1 DEF ScratchTypes
  <2> QED
    BY <1>1, <1>3, <1>4, <2>2 DEF ScratchTypes
<1>7. RenderInv'
  BY <1>2, <1>4, ElsewhereKeeps, ProceedKeeps
<1>8. ReviewInv'
  BY <1>1, ReviewElsewhere
<1>9. StageInv'
  BY <1>1, <1>3, <1>4, <1>5 DEF StageInv, Over
<1>10. CropsInv'
  BY <1>1, <1>3, <1>4, <1>5 DEF CropsInv, StageInv, Over
<1>11. EvidenceInv'
  BY <1>1, <1>4, <1>5 DEF EvidenceInv
<1>12. TrailInv'
  BY <1>1, <1>2, <1>4, <1>5, TrailExtended
<1> QED
  BY <1>6, <1>7, <1>8, <1>9, <1>10, <1>11, <1>12

LEMMA AttemptInitially == AttemptInit => AttemptInv
PROOF
<1> SUFFICES ASSUME AttemptInit PROVE AttemptInv
  OBVIOUS
<1> USE TraceAssumption DEF AttemptInit
<1>1. ReviewInit /\ Init /\ pc = "call" /\ step = "waiting" /\ phases = Nothing
  BY DEF ReviewInit, Init
<1>2. ScratchTypes
  <2>1. now \in 1 .. 4
    BY DEF Stages
  <2>2. trail \in Seq(Record)
    OBVIOUS
  <2>3. original \in BOOLEAN /\ report \in BOOLEAN
    OBVIOUS
  <2> QED
    BY <2>1, <2>2, <2>3 DEF ScratchTypes
<1>3. RenderInv /\ ReviewInv
  BY <1>1, RenderInitially, ReviewInitially
<1>4. StageInv /\ CropsInv /\ EvidenceInv
  BY <1>1, ReviewAssumption DEF StageInv, CropsInv, EvidenceInv, Over, Nothing, Stages
<1>5. TrailInv
  BY <1>2 DEF TrailInv, Over, ScratchTypes
<1> QED
  BY <1>2, <1>3, <1>4, <1>5 DEF AttemptInv

LEMMA AttemptStutters == AttemptInv /\ UNCHANGED everything => AttemptInv'
PROOF
<1> SUFFICES ASSUME AttemptInv, UNCHANGED everything PROVE AttemptInv'
  OBVIOUS
<1> USE DEF AttemptInv, everything, allVars, vars, files, input, attemptVars, fixed, scratch, sources, evidence
<1>1. ScratchTypes'
  BY DEF ScratchTypes
<1>2. RenderInv'
  BY ElsewhereKeeps DEF rest
<1>3. ReviewInv'
  BY ReviewElsewhere
<1>4. StageInv' /\ CropsInv'
  BY DEF StageInv, CropsInv, Over, reviewVars, work
<1>5. EvidenceInv'
  BY DEF EvidenceInv, reviewVars, work
<1>6. TrailInv'
  BY TrailKept DEF Over
<1> QED
  BY <1>1, <1>2, <1>3, <1>4, <1>5, <1>6

-----------------------------------------------------------------------------
(* The attempt.                                                            *)

\* AttemptInv holds of every reachable state of an attempt, whichever stage it resumes at
\* and whatever fails (Worker.process, the stage handlers, publish_debug).
THEOREM AttemptInvariant == AttemptSpec => []AttemptInv
PROOF
<1>1. AttemptInit => AttemptInv
  BY AttemptInitially
<1>2. AttemptInv /\ [AttemptNext]_everything => AttemptInv'
  BY EnterKeeps, InputsKeeps, CropPathKeeps, ConcludeKeeps, LeaveKeeps, CollectKeeps, ReviewKeeps,
     NoManifestKeeps, RenderingKeeps, EnvironmentKeeps, AttemptStutters
  DEF AttemptNext, Worker
<1> QED
  BY <1>1, <1>2, PTL DEF AttemptSpec

\* Every variable keeps its type: the scratch directory holds what its stages expect.
THEOREM AttemptTyped == AttemptSpec => []AttemptTypeOK
PROOF
  BY AttemptInvariant, AttemptTypes, PTL

\* However many frames are dropped and whatever fails, an output that is there, cached
\* or uploaded has all its frames in order (_render, validate_rendered_output), and a
\* phase that is called ready has a video that its FFmpeg ended with 0, that nothing
\* writes to any more, within the limit of bytes (ReviewRenderer.render).
THEOREM AttemptFinishesVideos == AttemptSpec => []VideosAreFinished
PROOF
<1>1. AttemptInv => VideosAreFinished
  BY DEF AttemptInv, RenderInv, ReviewInv, VideosAreFinished
<1> QED
  BY <1>1, AttemptInvariant, PTL

\* No FFmpeg, open source or partial file outlives rendering (render_crop_path); a child
\* outlives its phase only when unlink failed before it was reaped (_render_phase), and an
\* FFmpeg only with it, when it was told to end, or when the child had died.
THEOREM AttemptLeavesNothing == AttemptSpec => []NothingIsLeft
PROOF
<1>1. AttemptInv => NothingIsLeft
  <2> SUFFICES ASSUME AttemptInv PROVE NothingIsLeft
    OBVIOUS
  <2>1. NothingLeftBehind
    BY DEF AttemptInv, RenderInv, IdleInv, Idle, NothingLeftBehind
  <2>2. NothingOutlivesPhase
    BY DEF AttemptInv, ReviewInv, ReviewTypeOK, ChildInv, NothingOutlivesPhase, Within
  <2> QED
    BY <2>1, <2>2 DEF NothingIsLeft
<1> QED
  BY <1>1, AttemptInvariant, PTL

\* Evidence is never a reason to fail: without a fault the attempt ends with its output
\* uploaded and its report written, whether debug_capture is on or off.
THEOREM AttemptIgnoresEvidence == AttemptSpec => []EvidenceDecidesNothing
PROOF
<1>1. AttemptInv => EvidenceDecidesNothing
  <2> SUFFICES ASSUME AttemptInv, faults = 0
               PROVE  pc # "raised" /\ (Over => uploaded # NoFile /\ report)
    BY DEF EvidenceDecidesNothing, Over
  <2>1. pc # "raised"
    BY DEF AttemptInv, RenderInv, Undisturbed
  <2>2. Over => pc = "done"
    BY <2>1 DEF AttemptInv, StageInv
  <2>3. pc = "done" => uploaded # NoFile /\ report
    BY DEF AttemptInv, RenderInv, IdleInv, CropsInv
  <2> QED
    BY <2>1, <2>2, <2>3
<1> QED
  BY <1>1, AttemptInvariant, PTL

\* The header, the trace and the trail of the bundle say what happened in this attempt
\* (DebugBundleWriter, _write_debug_stage), whichever of its calls failed.
THEOREM AttemptTellsTheTruth == AttemptSpec => []TelemetryIsTrue
PROOF
<1>1. AttemptInv => TelemetryIsTrue
  <2> SUFFICES ASSUME AttemptInv PROVE TelemetryIsTrue
    OBVIOUS
  <2> USE DEF AttemptInv
  <2>1. trace # NoFile => trace.of = crops /\ (trace.validated => output # NoFile /\ Complete(output))
    BY DEF EvidenceInv, RenderInv, OutputIsComplete
  <2>2. ASSUME at = "collected", NEW k \in DOMAIN trail
        PROVE  trail[k].failed <=> pc = "raised" /\ trail[k].stage = Stages[now]
    <3>1. PICK j \in 1 .. now : /\ trail[k].stage = Stages[j]
                                /\ trail[k].failed <=> j = now /\ pc = "raised"
      BY DEF TrailInv
    <3>2. now \in 1 .. 4 /\ j \in 1 .. 4
      BY DEF ScratchTypes
    <3> QED
      BY <3>1, <3>2, StagesDiffer
  <2> QED
    BY <2>1, <2>2 DEF EvidenceInv, TelemetryIsTrue
<1> QED
  BY <1>1, AttemptInvariant, PTL

\* What the worker says of a phase.
LEMMA EntryIs ==
  ASSUME NEW p
  PROVE  /\ Entry(p).id = p /\ Entry(p).status \in {"ready", "unavailable"}
         /\ Entry(p).status = "ready" <=> phases[p] = "ready"
         /\ "detail" \in DOMAIN Entry(p) => Entry(p).status = "unavailable"
         /\ "url" \notin DOMAIN Entry(p)
PROOF
<1>1. CASE phases[p] = "ready"
  <2>1. Entry(p) = [id |-> p, status |-> "ready"]
    BY <1>1 DEF Entry
  <2>2. DOMAIN Entry(p) = {"id", "status"}
    BY <2>1
  <2> QED
    BY <1>1, <2>1, <2>2
<1>2. CASE phases[p] # "ready"
  <2>1. PICK d : Entry(p) = [id |-> p, status |-> "unavailable", detail |-> d]
    BY <1>2 DEF Entry
  <2>2. DOMAIN Entry(p) = {"id", "status", "detail"}
    BY <2>1
  <2> QED
    BY <1>2, <2>1, <2>2
<1> QED
  BY <1>1, <1>2

\* What the API makes of it.
LEMMA ProjectedIs ==
  ASSUME ReadyIsFinished, NEW p \in Phase
  PROVE  LET e == Projected(Entry(p)) IN
         /\ e.id = p /\ e.status \in {"ready", "unavailable"}
         /\ e.status = "ready" <=> phases[p] = "ready"
         /\ "detail" \in DOMAIN e => e.status = "unavailable"
         /\ "url" \in DOMAIN e <=> e.status # "unavailable"
PROOF
<1> DEFINE e == Projected(Entry(p))
<1>1. CASE phases[p] = "ready"
  <2>1. Entry(p).status = "ready" /\ Entry(p).id = p /\ p \in Artifacts
    BY <1>1, EntryIs DEF Artifacts, ReadyIsFinished
  <2>2. e = [id |-> p, status |-> "ready", url |-> videos[p]]
    BY <2>1 DEF Projected
  <2>3. DOMAIN e = {"id", "status", "url"}
    BY <2>2
  <2> HIDE DEF e
  <2>4. /\ e.id = p /\ e.status = "ready" /\ "detail" \notin DOMAIN e /\ "url" \in DOMAIN e
    BY <2>2, <2>3
  <2> QED
    BY <1>1, <2>4 DEF e
<1>2. CASE phases[p] # "ready"
  <2>1. Entry(p).status = "unavailable"
    BY <1>2, EntryIs
  <2>2. e = Entry(p)
    BY <2>1 DEF Projected
  <2> QED
    BY <1>2, <2>1, <2>2, EntryIs
<1> QED
  BY <1>1, <1>2

LEMMA InOrderOfPhases ==
  ASSUME NEW s, DOMAIN s = 1 .. 3, \A k \in 1 .. 3 : s[k].id = Phases[k]
  PROVE  Ordered(s)
PROOF
<1>1. [k \in DOMAIN s |-> s[k].id] = [k \in 1 .. 3 |-> Phases[k]]
  OBVIOUS
<1>2. [k \in 1 .. 3 |-> Phases[k]] = Phases
  BY DEF Phases
<1> QED
  BY <1>1, <1>2 DEF Ordered

\* A manifest that the worker publishes (_write_review_manifest) is parsed by the API
\* and shown by the page; each phase that is ready is shown with its video.
THEOREM AttemptReviewIsShown == AttemptSpec => []ReviewIsShown
PROOF
<1>1. ReviewInv => ReviewIsShown
  <2> SUFFICES ASSUME ReviewInv, step = "published"
               PROVE  /\ Parsed(Manifest) /\ Accepted(Evaluation)
                      /\ Evaluation.available <=> \E p \in Phase : phases[p] = "ready"
    BY DEF ReviewIsShown
  <2>1. ValidTiming(Manifest.timing)
    <3>1. rate \in [num : Nat \ {0}, den : Nat \ {0}]
      BY ReviewAssumption DEF ReviewInv, ReviewTypeOK
    <3>2. Measurable
      BY DEF ReviewInv, OutcomeInv
    <3>3. Manifest.timing = [rate |-> rate, duration |-> DurationMs(clip), frames |-> clip.frames]
      BY DEF Manifest
    <3> QED
      BY <3>1, <3>2, <3>3 DEF ValidTiming, Measurable
  <2>2. /\ DOMAIN Phases = 1 .. 3 /\ \A k \in 1 .. 3 : Phases[k] \in Phase
        /\ \A p \in Phase : \E k \in 1 .. 3 : Phases[k] = p
    BY DEF Phases, Phase
  <2>3. DOMAIN Manifest.phases = 1 .. 3 /\ \A k \in 1 .. 3 : Manifest.phases[k] = Entry(Phases[k])
    BY <2>2 DEF Manifest
  <2>4. Parsed(Manifest)
    <3>1. \A k \in 1 .. 3 : /\ Manifest.phases[k].id = Phases[k] /\ Manifest.phases[k].status \in Status
                            /\ "detail" \in DOMAIN Manifest.phases[k] =>
                                 Manifest.phases[k].status = "unavailable"
      BY <2>3, EntryIs DEF Status
    <3>2. Ordered(Manifest.phases)
      BY <2>3, <3>1, InOrderOfPhases
    <3> QED
      BY <2>1, <2>3, <3>1, <3>2 DEF Parsed
  <2>5. DOMAIN Shown = 1 .. 3 /\ \A k \in 1 .. 3 : Shown[k] = Projected(Entry(Phases[k]))
    BY <2>2, <2>3 DEF Shown
  <2>6. \A k \in 1 .. 3 : /\ Shown[k].id = Phases[k] /\ Shown[k].status \in {"ready", "unavailable"}
                          /\ Shown[k].status = "ready" <=> phases[Phases[k]] = "ready"
                          /\ "detail" \in DOMAIN Shown[k] => Shown[k].status = "unavailable"
                          /\ "url" \in DOMAIN Shown[k] <=> Shown[k].status # "unavailable"
    BY <2>2, <2>5, ProjectedIs DEF ReviewInv
  <2>7. (\E k \in DOMAIN Shown : Shown[k].status # "unavailable") <=> \E p \in Phase : phases[p] = "ready"
    BY <2>2, <2>5, <2>6
  <2>8. CASE \E p \in Phase : phases[p] = "ready"
    <3>1. Evaluation = [available |-> TRUE, timing |-> Manifest.timing, phases |-> Shown]
      BY <2>4, <2>7, <2>8 DEF Evaluation
    <3>2. Evaluation.available /\ Evaluation.timing = Manifest.timing /\ Evaluation.phases = Shown
      BY <3>1
    <3>3. Ordered(Shown)
      BY <2>5, <2>6, InOrderOfPhases
    <3>4. Accepted(Evaluation)
      BY <2>1, <2>5, <2>6, <3>2, <3>3 DEF Accepted, Status
    <3> QED
      BY <2>4, <2>8, <3>2, <3>4
  <2>9. CASE ~\E p \in Phase : phases[p] = "ready"
    <3>1. Evaluation = [available |-> FALSE]
      BY <2>7, <2>9 DEF Evaluation
    <3>2. ~Evaluation.available
      BY <3>1
    <3> QED
      BY <2>4, <2>9, <3>2 DEF Accepted
  <2> QED
    BY <2>8, <2>9
<1>2. AttemptInv => ReviewInv
  BY DEF AttemptInv
<1> QED
  BY <1>1, <1>2, AttemptInvariant, PTL

-----------------------------------------------------------------------------
(* Analysis: integers.                                                     *)

\* Division with remainder.
LEMMA Division ==
  ASSUME NEW n \in Int, NEW d \in Nat \ {0}
  PROVE  /\ n \div d \in Int /\ n % d \in Int
         /\ n = d * (n \div d) + (n % d) /\ 0 <= n % d /\ n % d < d
PROOF
  BY SMT

\* A product is monotone.
LEMMA Product ==
  ASSUME NEW m \in Int, NEW n \in Int, NEW k \in Nat, m <= n
  PROVE  k * m \in Int /\ k * n \in Int /\ k * m <= k * n
PROOF
  BY SMT

\* A quotient is the greatest multiple that is not beyond.
LEMMA QuotientBound ==
  ASSUME NEW n \in Int, NEW d \in Nat \ {0}, NEW t \in Int
  PROVE  t * d <= n <=> t <= n \div d
PROOF
<1> DEFINE q == n \div d
           r == n % d
<1>1. q \in Int /\ r \in Int /\ n = d * q + r /\ 0 <= r /\ r < d
  BY Division
<1> HIDE DEF q, r
<1>2. CASE t <= q
  <2>1. d * t <= d * q /\ d * t \in Int /\ d * q \in Int
    BY <1>1, <1>2, Product
  <2>2. t * d = d * t
    BY <1>1
  <2> QED
    BY <1>1, <1>2, <2>1, <2>2 DEF q
<1>3. CASE t > q
  <2>1. d * (q + 1) <= d * t /\ d * t \in Int /\ d * (q + 1) \in Int /\ d * q \in Int
    BY <1>1, <1>3, Product
  <2>2. t * d = d * t /\ d * (q + 1) = d * q + d
    BY <1>1
  <2>3. n < t * d /\ t * d \in Int
    BY <1>1, <2>1, <2>2
  <2> QED
    BY <1>1, <1>3, <2>3 DEF q
<1> QED
  BY <1>1, <1>2, <1>3

-----------------------------------------------------------------------------
(* The clock and the grid.                                                 *)

\* What the assumptions say of the job that is analysed.
LEMMA JobFacts ==
  ASSUME job \in Job
  PROVE  /\ video.frames \in Nat \ {0} /\ video.num \in Nat \ {0} /\ video.den \in Nat \ {0}
         /\ fps.num \in Nat /\ fps.den \in Nat \ {0}
         /\ job.time \in Nat /\ job.tap \in Int
         /\ job.scene \subseteq Seq(Person)
PROOF
  BY AnalysisAssumption DEF video, fps

\* Whatever the rounding, an integer below a rounded quotient is below the quotient.
LEMMA BelowRound ==
  ASSUME NEW n \in Int, NEW d \in Nat \ {0}, NEW t \in Int, t < Round(n, d)
  PROVE  t * d < n
PROOF
<1> DEFINE q == n \div d
           r == n % d
<1>1. q \in Int /\ r \in Int /\ n = d * q + r /\ 0 <= r /\ r < d
  BY Division
<1>2. Round(n, d) = IF 2 * r < d \/ (2 * r = d /\ q % 2 = 0) THEN q ELSE q + 1
  BY DEF Round
<1> HIDE DEF q, r
<1>3. CASE t <= q - 1
  <2>1. d * (t + 1) <= d * q /\ d * (t + 1) \in Int /\ d * q \in Int
    BY <1>1, <1>3, Product
  <2>2. d * (t + 1) = t * d + d
    OBVIOUS
  <2> QED
    BY <1>1, <2>1, <2>2
<1>4. CASE t > q - 1
  <2>1. t = q /\ ~(2 * r < d)
    BY <1>1, <1>2, <1>4
  <2>2. t * d = d * q
    BY <1>1, <2>1
  <2> QED
    BY <1>1, <2>1, <2>2
<1> QED
  BY <1>1, <1>3, <1>4

\* A time inside the clip selects a frame of it (frame_for_time_ms).
LEMMA SelectedIsFrame ==
  ASSUME job \in Job, job.time < DurationMs(video)
  PROVE  Selected \in Frame
PROOF
<1> DEFINE n == 1000 * video.frames * video.den
           d == 1000 * video.den
           t == job.time
<1>1. /\ video.frames \in Nat \ {0} /\ video.num \in Nat \ {0} /\ video.den \in Nat \ {0} /\ t \in Nat
  BY JobFacts
<1>2. n \in Int /\ d \in Nat \ {0} /\ n = d * video.frames
  BY <1>1
<1>3. t * video.num < n
  BY <1>1, <1>2, BelowRound DEF DurationMs
<1>4. t * video.num \in Nat
  BY <1>1
<1> DEFINE p == t * video.num
           s == p \div d
<1>5. Selected = s
  BY DEF Selected, FrameForTime
<1> HIDE DEF n, d, p
<1>6. s \in Int /\ p \in Int
  BY <1>2, <1>4, Division DEF p
<1>7. 0 <= s
  <2>1. 0 * d <= p
    BY <1>2, <1>4 DEF p
  <2> QED
    BY <1>2, <1>6, <2>1, QuotientBound
<1>8. ~(video.frames <= s)
  <2>1. video.frames * d = n
    BY <1>1, <1>2
  <2>2. ~(video.frames * d <= p)
    BY <1>2, <1>3, <1>6, <2>1 DEF p
  <2> QED
    BY <1>1, <1>2, <1>6, <2>2, QuotientBound
<1> QED
  BY <1>1, <1>5, <1>6, <1>7, <1>8 DEF Frame

\* A tick is crossed by a frame when the quotient grows, and by every frame when the grid
\* is finer than the frames.
LEMMA TickCrossed ==
  ASSUME NEW k \in Nat, NEW n \in Nat \ {0}, NEW d \in Nat \ {0}
  PROVE  (\E t \in 0 .. (k * n) \div d : t * d <= k * n /\ t * d > (k - 1) * n)
           <=> n >= d \/ k = 0 \/ (k * n) \div d > ((k - 1) * n) \div d
PROOF
<1> DEFINE m == k * n
           l == (k - 1) * n
           q == m \div d
<1>1. m \in Nat /\ l \in Int /\ m = l + n
  BY SMT
<1> SUFFICES (\E t \in 0 .. q : t * d <= m /\ t * d > l) <=> n >= d \/ k = 0 \/ q > l \div d
  OBVIOUS
<1>2. k = 0 => m = 0 /\ l = -n
  OBVIOUS
<1> HIDE DEF m, l
<1>3. q \in Int /\ l \div d \in Int
  BY <1>1, Division
<1>4. 0 <= q
  <2>1. 0 * d <= m
    BY <1>1
  <2> QED
    BY <1>1, <2>1, QuotientBound
<1>5. q * d <= m
  BY <1>1, <1>3, QuotientBound
<1>6. \A t \in Int : t * d > l <=> t > l \div d
  BY <1>1, <1>3, QuotientBound
<1>7. ASSUME NEW t \in 0 .. q, t * d <= m, t * d > l
      PROVE  q > l \div d
  BY <1>3, <1>6, <1>7
<1>8. ASSUME n >= d PROVE q * d > l
  <2>1. m = d * q + (m % d) /\ m % d \in Int /\ m % d < d
    BY <1>1, Division
  <2>2. d * q = q * d /\ q * d \in Int
    BY <1>3
  <2> QED
    BY <1>1, <1>8, <2>1, <2>2
<1>9. ASSUME k = 0 PROVE 0 * d <= m /\ 0 * d > l
  BY <1>2, <1>9
<1>10. q > l \div d => q * d > l
  BY <1>3, <1>6
<1> HIDE DEF q
<1> QED
  BY <1>3, <1>4, <1>5, <1>7, <1>8, <1>9, <1>10

\* Sampled, in the words of the documentation.
LEMMA SampledIsOnGrid ==
  ASSUME job \in Job, NEW k \in Frame
  PROVE  IsSampled(k) <=> fps.num = 0 \/ k = Selected \/ OnGrid(k)
PROOF
<1> DEFINE n == fps.num * video.den
           d == fps.den * video.num
<1>1. /\ fps.num \in Nat /\ fps.den \in Nat \ {0}
      /\ video.num \in Nat \ {0} /\ video.den \in Nat \ {0} /\ k \in Nat
  BY JobFacts DEF Frame
<1>2. n \in Nat /\ d \in Nat \ {0} /\ (n = 0 <=> fps.num = 0)
  BY <1>1
<1>3. IsSampled(k) <=> n = 0 \/ n >= d \/ k = 0 \/ k = Selected \/ (k * n) \div d > ((k - 1) * n) \div d
  BY DEF IsSampled, Sampled
<1>4. OnGrid(k) <=> \E t \in 0 .. (k * n) \div d : t * d <= k * n /\ t * d > (k - 1) * n
  BY DEF OnGrid
<1> HIDE DEF n, d
<1> QED
  BY <1>1, <1>2, <1>3, <1>4, TickCrossed

-----------------------------------------------------------------------------
(* Extremes of sets of integers.                                           *)

\* A set of naturals has a least element.
LEMMA LeastNatural ==
  ASSUME NEW S, S \subseteq Nat, S # {}
  PROVE  \E n \in S : \A m \in S : n <= m
PROOF
<1> DEFINE R == OpToRel(<, Nat)
<1>1. \A m, n \in Nat : <<m, n>> \in R <=> m < n
  BY DEF OpToRel
<1>2. IsWellFoundedOn(R, Nat)
  BY NatLessThanWellFounded
<1> HIDE DEF R
<1>3. PICK s \in S : \A t \in S : ~(<<t, s>> \in R)
  BY ONLY <1>2, S \subseteq Nat, S # {}, WFMin
<1>4. \A t \in S : ~(t < s) /\ t \in Nat /\ s \in Nat
  BY <1>1, <1>3
<1>5. \A t \in S : s <= t
  BY <1>4
<1> QED
  BY <1>5

\* What is at least everything in a set and in it is its Max.
LEMMA MaxIs ==
  ASSUME NEW S, S \subseteq Int, NEW m \in S, \A y \in S : y <= m
  PROVE  Max(S) = m
PROOF
<1>1. m \in S /\ \A y \in S : m >= y
  OBVIOUS
<1>2. Max(S) \in S /\ \A y \in S : Max(S) >= y
  BY <1>1 DEF Max
<1>3. Max(S) >= m /\ m >= Max(S) /\ m \in Int /\ Max(S) \in Int
  BY <1>1, <1>2
<1> QED
  BY <1>3

\* What is at most everything in a set and in it is its Min.
LEMMA MinIs ==
  ASSUME NEW S, S \subseteq Int, NEW m \in S, \A y \in S : m <= y
  PROVE  Min(S) = m
PROOF
<1>1. Min(S) \in S /\ \A y \in S : Min(S) =< y
  BY DEF Min
<1>2. Min(S) <= m /\ m <= Min(S) /\ m \in Int /\ Min(S) \in Int
  BY <1>1
<1> QED
  BY <1>2

\* A finite set of integers has a greatest element: take a smallest set without one and
\* remove an element.
LEMMA FiniteHasGreatest ==
  ASSUME NEW S, IsFiniteSet(S), S \subseteq Int, S # {}
  PROVE  \E m \in S : \A y \in S : y <= m
PROOF
<1> DEFINE Topped(T) == \E m \in T : \A y \in T : y <= m
           Bad == {T \in SUBSET S : T # {} /\ ~Topped(T)}
           Sizes == {Cardinality(T) : T \in Bad}
<1>1. \A T \in SUBSET S : IsFiniteSet(T) /\ Cardinality(T) \in Nat
  BY FS_Subset, FS_CardinalityType
<1>2. ASSUME Bad # {} PROVE FALSE
  <2>1. Sizes \subseteq Nat /\ Sizes # {}
    BY <1>1, <1>2
  <2>2. PICK T \in Bad : \A U \in Bad : Cardinality(T) <= Cardinality(U)
    <3> HIDE DEF Bad
    <3>1. PICK n \in Sizes : \A m \in Sizes : n <= m
      BY <2>1, LeastNatural
    <3> QED
      BY <3>1
  <2>3. PICK x : x \in T
    BY <2>2
  <2>4. T \ {x} \in SUBSET S /\ x \in Int /\ T \subseteq Int
    BY <2>2, <2>3
  <2>5. Cardinality(T \ {x}) < Cardinality(T)
    BY <1>1, <2>2, <2>3, <2>4, FS_RemoveElement
  <2>6. T \ {x} \notin Bad
    <3>1. Cardinality(T) \in Nat /\ Cardinality(T \ {x}) \in Nat
      BY <1>1, <2>2, <2>4
    <3>2. ~(Cardinality(T) <= Cardinality(T \ {x}))
      BY <2>5, <3>1
    <3> QED
      BY <2>2, <3>2
  <2>7. CASE T \ {x} = {}
    <3>1. T = {x}
      BY <2>3, <2>7
    <3> QED
      BY <2>2, <2>4, <3>1
  <2>8. CASE T \ {x} # {}
    <3>1. PICK m \in T \ {x} : \A y \in T \ {x} : y <= m
      BY <2>4, <2>6, <2>8
    <3>2. \A y \in T : y <= (IF m <= x THEN x ELSE m)
      BY <2>4, <3>1
    <3>3. (IF m <= x THEN x ELSE m) \in T
      BY <2>3, <3>1
    <3> QED
      BY <2>2, <3>2, <3>3
  <2> QED
    BY <2>7, <2>8
<1> QED
  BY <1>2

\* Max of a finite set is in it and nothing in it is greater.
LEMMA MaxIsGreatest ==
  ASSUME NEW S, IsFiniteSet(S), S \subseteq Int, S # {}
  PROVE  Max(S) \in S /\ \A y \in S : y <= Max(S)
PROOF
<1>1. PICK m \in S : \A y \in S : y <= m
  BY FiniteHasGreatest
<1>2. Max(S) = m
  BY <1>1, MaxIs
<1> QED
  BY <1>1, <1>2

-----------------------------------------------------------------------------
(* Following.                                                              *)

Loop == {"decode", "forward", "backward", "measure", "report", "detection", "framing", "done", "failed"}

\* The loops and their bounds.
LoopInv ==
  /\ job \in Job /\ job.time < DurationMs(video)
  /\ phase \in Loop
  /\ phase = "forward" => i \in Selected + 1 .. video.frames
  /\ phase = "backward" => i \in -1 .. Selected - 1
  /\ phase \notin {"forward", "backward", "failed"} => i \in 0 .. video.frames

\* The detector was asked about the sampled frames that were read, and no others.
SeenInv ==
  /\ seen \in [Frame -> Seq(Person) \union {None}]
  /\ phase \notin {"decode", "failed"} => \A k \in Frame : seen[k] # None <=> IsSampled(k)
  /\ phase = "decode" => \A k \in Frame : seen[k] # None <=> k < i /\ IsSampled(k)

\* A frame has what association finds in it, starting from the last box before it.
Followed(k) == box[k] = IF seen[k] = None THEN None ELSE Associate(seen[k], box[Prior(k)])

Ahead(n) == {j \in Selected .. n - 1 : box[j] # None}
Behind(n) == {j \in n + 1 .. Selected : box[j] # None}

\* Either pass starts from the selected box, and its reference is the box nearest to where
\* it is; the part of the clip it has not reached is empty.
FollowInv ==
  /\ box = [k \in Frame |-> box[k]]
  /\ phase = "decode" => \A k \in Frame : box[k] = None
  /\ phase \notin {"decode", "failed"} => box[Selected] # None
  /\ phase = "forward" =>
       /\ reference = box[Max(Ahead(i))]
       /\ \A k \in Frame : k >= i \/ k < Selected => box[k] = None
       /\ \A k \in Selected + 1 .. i - 1 : Followed(k)
  /\ phase = "backward" =>
       /\ reference = box[Min(Behind(i))]
       /\ \A k \in Frame : k <= i => box[k] = None
       /\ \A k \in Frame \ {Selected} : k > i => Followed(k)
  /\ phase \notin {"decode", "forward", "backward", "failed"} =>
       \A k \in Frame \ {Selected} : Followed(k)

\* The last frame up to k that the detector was asked about.
Latest(k) == Max({j \in 0 .. k : seen[j] # None})

GuideInv ==
  /\ DOMAIN guide = Frame
  /\ phase = "measure" =>
       /\ \A k \in 0 .. i - 1 : guide[k] = box[Latest(k)]
       /\ i > 0 => held = box[Latest(i - 1)]
  /\ phase \notin {"decode", "forward", "backward", "measure", "failed"} =>
       \A k \in Frame : guide[k] = box[Latest(k)]

AnalysisInv == LoopInv /\ SeenInv /\ FollowInv /\ GuideInv

\* What the job decides stays the same while the job does.
LEMMA SameJob ==
  ASSUME job' = job
  PROVE  /\ video' = video /\ fps' = fps /\ Frame' = Frame /\ Selected' = Selected
         /\ \A k : IsSampled(k)' = IsSampled(k)
PROOF
<1>1. video' = video /\ fps' = fps
  BY DEF video, fps
<1>2. Frame' = Frame /\ Selected' = Selected
  BY <1>1 DEF Frame, Selected
<1> QED
  BY <1>1, <1>2 DEF IsSampled

\* The frames of a clip.
LEMMA FrameFacts ==
  ASSUME job \in Job, job.time < DurationMs(video)
  PROVE  /\ video.frames \in Nat \ {0} /\ Frame = 0 .. video.frames - 1
         /\ Selected \in Nat /\ Selected < video.frames
         /\ IsSampled(Selected) /\ IsSampled(0)
PROOF
<1>1. Selected \in Frame
  BY SelectedIsFrame
<1> QED
  BY <1>1, JobFacts DEF Frame, IsSampled, Sampled

\* The boxes and detections before a frame do not depend on what comes after it.
LEMMA SamePrior ==
  ASSUME job' = job, job \in Job, job.time < DurationMs(video), NEW k \in Frame,
         \/ k > Selected /\ \A j \in Selected .. k - 1 : box'[j] = box[j]
         \/ k < Selected /\ \A j \in k + 1 .. Selected : box'[j] = box[j]
  PROVE  Prior(k)' = Prior(k)
PROOF
<1>1. Selected' = Selected /\ Selected \in Nat /\ k \in Nat
  BY SameJob, FrameFacts
<1>2. CASE k > Selected
  <2>1. {j \in Selected .. k - 1 : box[j] # None}' = {j \in Selected .. k - 1 : box[j] # None}
    BY <1>1, <1>2
  <2> QED
    BY <1>1, <1>2, <2>1 DEF Prior
<1>3. CASE k < Selected
  <2>1. {j \in k + 1 .. Selected : box[j] # None}' = {j \in k + 1 .. Selected : box[j] # None}
    BY <1>1, <1>3
  <2> QED
    BY <1>1, <1>3, <2>1 DEF Prior
<1> QED
  BY <1>1, <1>2, <1>3

\* The set of frames before one and its greatest element.
LEMMA PriorIs ==
  ASSUME job \in Job, job.time < DurationMs(video), box[Selected] # None, NEW k \in Frame
  PROVE  /\ k > Selected => Prior(k) = Max(Ahead(k)) /\ Max(Ahead(k)) \in Ahead(k)
         /\ k < Selected => Prior(k) = Min(Behind(k)) /\ Min(Behind(k)) \in Behind(k)
PROOF
<1>1. Selected \in Nat /\ k \in Nat
  BY FrameFacts
<1>2. ASSUME k > Selected PROVE Max(Ahead(k)) \in Ahead(k)
  <2>1. Ahead(k) \subseteq Int /\ Selected \in Ahead(k)
    BY <1>1, <1>2 DEF Ahead
  <2>2. IsFiniteSet(Ahead(k))
    <3>1. IsFiniteSet(Selected .. k - 1)
      BY <1>1, FS_Interval
    <3> QED
      BY <3>1, FS_Subset DEF Ahead
  <2> QED
    BY <2>1, <2>2, MaxIsGreatest
<1>3. ASSUME k < Selected PROVE Min(Behind(k)) \in Behind(k)
  <2>1. Behind(k) \subseteq Nat /\ Selected \in Behind(k)
    BY <1>1, <1>3 DEF Behind
  <2>2. PICK m \in Behind(k) : \A n \in Behind(k) : m <= n
    BY <2>1, LeastNatural
  <2> QED
    BY <2>1, <2>2, MinIs
<1> QED
  BY <1>1, <1>2, <1>3 DEF Prior, Ahead, Behind

\* Nothing that following looks at changes.
LEMMA SameFollowed ==
  ASSUME job' = job, job \in Job, job.time < DurationMs(video), box[Selected] # None,
         seen' = seen, NEW k \in Frame,
         \/ k > Selected /\ \A j \in Selected .. k : box'[j] = box[j]
         \/ k < Selected /\ \A j \in k .. Selected : box'[j] = box[j],
         Followed(k)
  PROVE  Followed(k)'
PROOF
<1>1. Selected' = Selected /\ Selected \in Nat /\ k \in Nat
  BY SameJob, FrameFacts
<1>2. Prior(k)' = Prior(k) /\ box'[k] = box[k]
  BY <1>1, SamePrior
<1>3. box'[Prior(k)] = box[Prior(k)]
  <2>1. CASE k > Selected
    <3>1. Prior(k) \in Ahead(k)
      BY <2>1, PriorIs
    <3>2. Prior(k) \in Selected .. k
      BY <1>1, <3>1 DEF Ahead
    <3> QED
      BY <1>1, <2>1, <3>2
  <2>2. CASE k < Selected
    <3>1. Prior(k) \in Behind(k)
      BY <2>2, PriorIs
    <3>2. Prior(k) \in k .. Selected
      BY <1>1, <3>1 DEF Behind
    <3> QED
      BY <1>1, <2>2, <3>2
  <2> QED
    BY <1>1, <2>1, <2>2
<1>4. box'[Prior(k)'] = box[Prior(k)] /\ seen'[k] = seen[k]
  BY <1>2, <1>3
<1>5. Associate(seen'[k], box'[Prior(k)']) = Associate(seen[k], box[Prior(k)])
  BY <1>4
<1> QED
  BY <1>2, <1>4, <1>5 DEF Followed

\* A failure ends the analysis and changes nothing else.
LEMMA FailuresKeep == AnalysisInv /\ (ReadFails \/ PlanFails) => AnalysisInv'
PROOF
<1> SUFFICES ASSUME AnalysisInv, ReadFails \/ PlanFails PROVE AnalysisInv'
  OBVIOUS
<1>1. /\ job' = job /\ phase' = "failed" /\ i' = i /\ seen' = seen /\ box' = box /\ guide' = guide
      /\ job \in Job /\ job.time < DurationMs(video)
  BY DEF AnalysisInv, LoopInv, ReadFails, PlanFails, results
<1>2. /\ video' = video /\ Frame' = Frame /\ Selected' = Selected
      /\ \A k : IsSampled(k)' = IsSampled(k)
  BY <1>1, SameJob
<1> QED
  BY <1>1, <1>2 DEF AnalysisInv, LoopInv, SeenInv, FollowInv, GuideInv, Loop

\* Reading: nothing is followed yet.
LEMMA ReadKeeps == AnalysisInv /\ ReadFrame => AnalysisInv'
PROOF
<1> SUFFICES ASSUME AnalysisInv, ReadFrame PROVE AnalysisInv'
  OBVIOUS
<1>1. /\ job' = job /\ phase = "decode"
      /\ job \in Job /\ job.time < DurationMs(video) /\ i \in 0 .. video.frames
  BY DEF AnalysisInv, LoopInv, ReadFrame
<1>2. /\ video' = video /\ Frame' = Frame /\ Selected' = Selected
      /\ \A k : IsSampled(k)' = IsSampled(k)
  BY <1>1, SameJob
<1>3. video.frames \in Nat \ {0} /\ Frame = 0 .. video.frames - 1
  BY <1>1, FrameFacts
<1>4. i \in Frame /\ i' = i + 1 /\ phase' = "decode"
  BY <1>1 DEF ReadFrame
<1>5. LoopInv'
  BY <1>1, <1>2, <1>3, <1>4 DEF LoopInv, Loop
<1>6. PICK list \in IF IsSampled(i) THEN job.scene ELSE {None} : seen' = [seen EXCEPT ![i] = list]
  BY DEF ReadFrame
<1>7. list \in Seq(Person) \union {None} /\ (list # None <=> IsSampled(i))
  BY <1>1, <1>6, JobFacts, AnalysisAssumption
<1>8. /\ seen \in [Frame -> Seq(Person) \union {None}]
      /\ \A k \in Frame : seen[k] # None <=> k < i /\ IsSampled(k)
  BY <1>1 DEF AnalysisInv, SeenInv
<1>9. SeenInv'
  <2>1. seen' \in [Frame -> Seq(Person) \union {None}]
    BY <1>4, <1>6, <1>7, <1>8
  <2>2. ASSUME NEW k \in Frame PROVE seen'[k] # None <=> k < i + 1 /\ IsSampled(k)
    BY <1>3, <1>4, <1>6, <1>7, <1>8
  <2> QED
    BY <1>2, <1>4, <2>1, <2>2 DEF SeenInv
<1>10. FollowInv'
  BY <1>1, <1>2, <1>4 DEF AnalysisInv, FollowInv, ReadFrame
<1>11. GuideInv'
  BY <1>1, <1>2, <1>4 DEF AnalysisInv, GuideInv, ReadFrame
<1> QED
  BY <1>5, <1>9, <1>10, <1>11 DEF AnalysisInv

\* The selection is its own reference.
LEMMA SelectKeeps == AnalysisInv /\ Select => AnalysisInv'
PROOF
<1> SUFFICES ASSUME AnalysisInv, Select PROVE AnalysisInv'
  OBVIOUS
<1>1. /\ job' = job /\ phase = "decode" /\ job \in Job /\ job.time < DurationMs(video)
      /\ i \in 0 .. video.frames /\ i \notin Frame /\ seen' = seen /\ guide' = guide
  BY DEF AnalysisInv, LoopInv, Select
<1>2. /\ video' = video /\ Frame' = Frame /\ Selected' = Selected
      /\ \A k : IsSampled(k)' = IsSampled(k)
  BY <1>1, SameJob
<1>3. /\ video.frames \in Nat \ {0} /\ Frame = 0 .. video.frames - 1
      /\ Selected \in Nat /\ Selected < video.frames /\ Selected \in Frame
  BY <1>1, FrameFacts, SelectedIsFrame
<1>4. i = video.frames
  BY <1>1, <1>3
<1> DEFINE target == SelectTarget(seen[Selected], job.tap)
<1>5. CASE target = None
  <2>1. phase' = "failed" /\ i' = i /\ box' = box
    BY <1>5 DEF Select
  <2> QED
    BY <1>1, <1>2, <2>1 DEF AnalysisInv, LoopInv, SeenInv, FollowInv, GuideInv, Loop
<1>6. CASE target # None
  <2>1. /\ phase' = "forward" /\ i' = Selected + 1 /\ reference' = target
        /\ box' = [box EXCEPT ![Selected] = target]
    BY <1>6 DEF Select
  <2> HIDE DEF target
  <2>2. LoopInv'
    BY <1>1, <1>2, <1>3, <2>1 DEF LoopInv, Loop
  <2>3. SeenInv'
    BY <1>1, <1>2, <1>3, <1>4, <2>1 DEF AnalysisInv, SeenInv
  <2>4. box = [k \in Frame |-> box[k]] /\ \A k \in Frame : box[k] = None
    BY <1>1 DEF AnalysisInv, FollowInv
  <2>5. /\ box' = [k \in Frame |-> box'[k]] /\ box'[Selected] = target
        /\ \A k \in Frame \ {Selected} : box'[k] = None
    BY <1>3, <2>1, <2>4
  <2>6. Ahead(i)' = {Selected}
    BY <1>2, <1>3, <1>6, <2>1, <2>5 DEF Ahead
  <2>7. Max(Ahead(i)') = Selected
    BY <1>3, <2>6, MaxIs
  <2>8. /\ reference' = box'[Max(Ahead(i)')]
        /\ \A k \in Frame : k >= i' \/ k < Selected => box'[k] = None
        /\ Selected + 1 .. i' - 1 = {}
    BY <1>3, <2>1, <2>5, <2>7
  <2>9. FollowInv'
    BY <1>2, <1>6, <2>1, <2>5, <2>8 DEF FollowInv
  <2>10. GuideInv'
    BY <1>1, <1>2, <2>1 DEF AnalysisInv, GuideInv
  <2> QED
    BY <2>2, <2>3, <2>9, <2>10 DEF AnalysisInv
<1> QED
  BY <1>5, <1>6

\* What a pass does with a frame: the box that association finds, if it was sampled, takes
\* its place and becomes the reference.
LEMMA FollowIs ==
  ASSUME AnalysisInv, Follow
  PROVE  \E b : /\ b = IF seen[i] = None THEN None ELSE Associate(seen[i], reference)
                /\ box' = [box EXCEPT ![i] = b]
                /\ reference' = IF b # None THEN b ELSE reference
PROOF
<1> DEFINE b == IF seen[i] = None THEN None ELSE Associate(seen[i], reference)
<1>1. box = [k \in Frame |-> box[k]] /\ i \in Frame /\ box[i] = None
  <2>1. box = [k \in Frame |-> box[k]] /\ i \in Frame
    BY DEF AnalysisInv, FollowInv, Follow
  <2>2. phase \in {"forward", "backward"}
    BY DEF Follow
  <2>3. i \in Int
    BY <2>2 DEF AnalysisInv, LoopInv
  <2> QED
    BY <2>1, <2>2, <2>3 DEF AnalysisInv, FollowInv
<1>2. CASE seen[i] = None
  <2>1. box' = box /\ reference' = reference /\ b = None
    BY <1>2 DEF Follow
  <2>2. box = [box EXCEPT ![i] = None]
    BY <1>1
  <2> QED
    BY <2>1, <2>2
<1>3. CASE seen[i] # None
  <2>1. /\ b = Associate(seen[i], reference)
        /\ box' = [box EXCEPT ![i] = b]
        /\ reference' = IF box'[i] # None THEN box'[i] ELSE reference
    BY <1>3 DEF Follow
  <2>2. box'[i] = b
    BY <1>1, <2>1
  <2> QED
    BY <2>1, <2>2
<1> QED
  BY <1>2, <1>3

\* The forward pass.
LEMMA ForwardKeeps ==
  ASSUME AnalysisInv, Follow, phase = "forward"
  PROVE  AnalysisInv'
PROOF
<1>1. /\ job' = job /\ phase' = phase /\ job \in Job /\ job.time < DurationMs(video)
      /\ i \in Selected + 1 .. video.frames /\ i \in Frame /\ i' = i + 1
      /\ seen' = seen /\ guide' = guide /\ held' = held
  BY DEF AnalysisInv, LoopInv, Follow
<1>2. /\ video' = video /\ Frame' = Frame /\ Selected' = Selected
      /\ \A k : IsSampled(k)' = IsSampled(k)
  BY <1>1, SameJob
<1>3. /\ video.frames \in Nat \ {0} /\ Frame = 0 .. video.frames - 1
      /\ Selected \in Nat /\ Selected < video.frames /\ Selected \in Frame
  BY <1>1, FrameFacts, SelectedIsFrame
<1>4. /\ box = [k \in Frame |-> box[k]] /\ box[Selected] # None /\ reference = box[Max(Ahead(i))]
      /\ \A k \in Frame : k >= i \/ k < Selected => box[k] = None
      /\ \A k \in Selected + 1 .. i - 1 : Followed(k)
  BY <1>1 DEF AnalysisInv, FollowInv
<1>5. PICK b : /\ b = IF seen[i] = None THEN None ELSE Associate(seen[i], reference)
               /\ box' = [box EXCEPT ![i] = b]
               /\ reference' = IF b # None THEN b ELSE reference
  BY FollowIs
<1>6. PICK n \in Frame : n = i
  BY <1>1
<1>7. /\ box' = [k \in Frame |-> box'[k]] /\ box'[n] = b
      /\ \A k \in Frame \ {n} : box'[k] = box[k]
  BY <1>4, <1>5, <1>6
<1>8. LoopInv' /\ SeenInv' /\ GuideInv'
  BY <1>1, <1>2, <1>3 DEF AnalysisInv, LoopInv, SeenInv, GuideInv, Loop
<1>9. n > Selected /\ \A j \in Selected .. n - 1 : box'[j] = box[j]
  BY <1>1, <1>3, <1>6, <1>7
<1>10. /\ Prior(n) = Max(Ahead(n)) /\ Prior(n)' = Prior(n)
       /\ Prior(n) \in Selected .. n - 1 /\ box[Prior(n)] # None
  <2>1. Prior(n) = Max(Ahead(n)) /\ Max(Ahead(n)) \in Ahead(n)
    BY <1>1, <1>4, <1>9, PriorIs
  <2>2. Prior(n)' = Prior(n)
    BY <1>1, <1>9, SamePrior
  <2> QED
    BY <2>1, <2>2 DEF Ahead
<1>11. Followed(n)'
  <2>1. seen'[n] = seen[n] /\ box'[Prior(n)'] = reference
    BY <1>1, <1>4, <1>6, <1>9, <1>10
  <2> QED
    BY <1>5, <1>6, <1>7, <2>1 DEF Followed
<1>12. ASSUME NEW k \in Selected + 1 .. n PROVE Followed(k)'
  <2>1. CASE k = n
    BY <1>11, <2>1
  <2>2. CASE k # n
    <3>1. k \in Selected + 1 .. i - 1 /\ k \in Frame /\ k > Selected
      BY <1>1, <1>3, <1>6, <2>2
    <3>2. Followed(k)
      BY <1>4, <3>1
    <3>3. \A j \in Selected .. k : box'[j] = box[j]
      BY <1>1, <1>3, <1>6, <1>9, <3>1
    <3> QED
      BY <1>1, <1>4, <3>1, <3>2, <3>3, SameFollowed
  <2> QED
    BY <2>1, <2>2
<1>13. Ahead(i)' = IF b # None THEN Ahead(n) \union {n} ELSE Ahead(n)
  <2>1. Ahead(i)' = {j \in Selected .. n : box'[j] # None}
    BY <1>1, <1>2, <1>6, <1>3 DEF Ahead
  <2> QED
    BY <1>3, <1>6, <1>7, <1>9, <2>1 DEF Ahead
<1>14. reference' = box'[Max(Ahead(i)')]
  <2>1. CASE b = None
    <3>1. Ahead(i)' = Ahead(n) /\ reference' = box[Prior(n)]
      BY <1>4, <1>5, <1>6, <1>10, <1>13, <2>1
    <3> QED
      BY <1>9, <1>10, <3>1
  <2>2. CASE b # None
    <3>1. Ahead(n) \subseteq Selected .. n - 1
      BY DEF Ahead
    <3>2. /\ Ahead(i)' \subseteq Int /\ n \in Ahead(i)' /\ \A j \in Ahead(i)' : j <= n
      BY <1>3, <1>9, <1>13, <2>2, <3>1
    <3>3. Max(Ahead(i)') = n
      BY <3>2, MaxIs
    <3> QED
      BY <1>5, <1>7, <2>2, <3>3
  <2> QED
    BY <2>1, <2>2
<1>15. FollowInv'
  <2>1. ASSUME NEW k \in Frame, k >= i' \/ k < Selected PROVE box'[k] = None
    <3>1. k # n /\ (k >= i \/ k < Selected)
      BY <1>1, <1>3, <1>6, <1>9, <2>1
    <3> QED
      BY <1>4, <1>7, <3>1
  <2>2. \A k \in Selected + 1 .. i' - 1 : Followed(k)'
    BY <1>1, <1>3, <1>6, <1>12
  <2>3. box'[Selected] # None
    BY <1>3, <1>4, <1>7, <1>9
  <2> QED
    BY <1>1, <1>2, <1>7, <1>14, <2>1, <2>2, <2>3 DEF FollowInv
<1> QED
  BY <1>8, <1>15 DEF AnalysisInv

\* The backward pass.
LEMMA BackwardKeeps ==
  ASSUME AnalysisInv, Follow, phase = "backward"
  PROVE  AnalysisInv'
PROOF
<1>1. /\ job' = job /\ phase' = phase /\ job \in Job /\ job.time < DurationMs(video)
      /\ i \in -1 .. Selected - 1 /\ i \in Frame /\ i' = i - 1
      /\ seen' = seen /\ guide' = guide /\ held' = held
  BY DEF AnalysisInv, LoopInv, Follow
<1>2. /\ video' = video /\ Frame' = Frame /\ Selected' = Selected
      /\ \A k : IsSampled(k)' = IsSampled(k)
  BY <1>1, SameJob
<1>3. /\ video.frames \in Nat \ {0} /\ Frame = 0 .. video.frames - 1
      /\ Selected \in Nat /\ Selected < video.frames /\ Selected \in Frame
  BY <1>1, FrameFacts, SelectedIsFrame
<1>4. /\ box = [k \in Frame |-> box[k]] /\ box[Selected] # None /\ reference = box[Min(Behind(i))]
      /\ \A k \in Frame : k <= i => box[k] = None
      /\ \A k \in Frame \ {Selected} : k > i => Followed(k)
  BY <1>1 DEF AnalysisInv, FollowInv
<1>5. PICK b : /\ b = IF seen[i] = None THEN None ELSE Associate(seen[i], reference)
               /\ box' = [box EXCEPT ![i] = b]
               /\ reference' = IF b # None THEN b ELSE reference
  BY FollowIs
<1>6. PICK n \in Frame : n = i
  BY <1>1
<1>7. /\ box' = [k \in Frame |-> box'[k]] /\ box'[n] = b
      /\ \A k \in Frame \ {n} : box'[k] = box[k]
  BY <1>4, <1>5, <1>6
<1>8. LoopInv' /\ SeenInv' /\ GuideInv'
  BY <1>1, <1>2, <1>3 DEF AnalysisInv, LoopInv, SeenInv, GuideInv, Loop
<1>9. n < Selected /\ \A j \in n + 1 .. Selected : box'[j] = box[j]
  BY <1>1, <1>3, <1>6, <1>7
<1>10. /\ Prior(n) = Min(Behind(n)) /\ Prior(n)' = Prior(n)
       /\ Prior(n) \in n + 1 .. Selected /\ box[Prior(n)] # None
  <2>1. Prior(n) = Min(Behind(n)) /\ Min(Behind(n)) \in Behind(n)
    BY <1>1, <1>4, <1>9, PriorIs
  <2>2. Prior(n)' = Prior(n)
    BY <1>1, <1>9, SamePrior
  <2> QED
    BY <2>1, <2>2 DEF Behind
<1>11. Followed(n)'
  <2>1. seen'[n] = seen[n] /\ box'[Prior(n)'] = reference
    BY <1>1, <1>4, <1>6, <1>9, <1>10
  <2> QED
    BY <1>5, <1>6, <1>7, <2>1 DEF Followed
<1>12. ASSUME NEW k \in Frame \ {Selected}, k > n - 1 PROVE Followed(k)'
  <2>1. CASE k = n
    BY <1>11, <2>1
  <2>2. CASE k # n
    <3>1. Followed(k) /\ k \in Nat /\ n \in Nat /\ k > n /\ k # Selected
      BY <1>3, <1>4, <1>6, <1>12, <2>2
    <3>2. \/ k > Selected /\ \A j \in Selected .. k : box'[j] = box[j]
          \/ k < Selected /\ \A j \in k .. Selected : box'[j] = box[j]
      <4>1. CASE k > Selected
        <5>1. \A j \in Selected .. k : j \in Frame /\ j # n
          BY <1>3, <1>9, <3>1, <4>1
        <5> QED
          BY <1>7, <4>1, <5>1
      <4>2. CASE k < Selected
        BY <1>3, <1>9, <3>1, <4>2
      <4> QED
        BY <1>3, <3>1, <4>1, <4>2
    <3> QED
      BY <1>1, <1>4, <3>1, <3>2, SameFollowed
  <2> QED
    BY <2>1, <2>2
<1>13. Behind(i)' = IF b # None THEN Behind(n) \union {n} ELSE Behind(n)
  <2>1. Behind(i)' = {j \in n .. Selected : box'[j] # None}
    BY <1>1, <1>2, <1>6, <1>3 DEF Behind
  <2> QED
    BY <1>3, <1>6, <1>7, <1>9, <2>1 DEF Behind
<1>14. reference' = box'[Min(Behind(i)')]
  <2>1. CASE b = None
    <3>1. Behind(i)' = Behind(n) /\ reference' = box[Prior(n)]
      BY <1>4, <1>5, <1>6, <1>10, <1>13, <2>1
    <3> QED
      BY <1>9, <1>10, <3>1
  <2>2. CASE b # None
    <3>1. Behind(n) \subseteq n + 1 .. Selected
      BY DEF Behind
    <3>2. /\ Behind(i)' \subseteq Int /\ n \in Behind(i)' /\ \A j \in Behind(i)' : n <= j
      BY <1>3, <1>9, <1>13, <2>2, <3>1
    <3>3. Min(Behind(i)') = n
      BY <3>2, MinIs
    <3> QED
      BY <1>5, <1>7, <2>2, <3>3
  <2> QED
    BY <2>1, <2>2
<1>15. FollowInv'
  <2>1. ASSUME NEW k \in Frame, k <= i' PROVE box'[k] = None
    <3>1. k # n /\ k <= i
      BY <1>1, <1>3, <1>6, <2>1
    <3> QED
      BY <1>4, <1>7, <3>1
  <2>2. ASSUME NEW k \in Frame \ {Selected}, k > i' PROVE Followed(k)'
    <3>1. k > n - 1
      BY <1>1, <1>3, <1>6, <2>2
    <3> QED
      BY <1>12, <3>1
  <2>3. box'[Selected] # None
    <3>1. Selected \in Frame \ {n}
      BY <1>3, <1>9
    <3> QED
      BY <1>4, <1>7, <3>1
  <2> QED
    BY <1>1, <1>2, <1>7, <1>14, <2>1, <2>2, <2>3 DEF FollowInv
<1> QED
  BY <1>8, <1>15 DEF AnalysisInv

\* Boxes and detections stay as they are, and with them what was followed.
LEMMA SameBoxes ==
  ASSUME job' = job, box' = box, seen' = seen
  PROVE  \A k : (Followed(k)' <=> Followed(k)) /\ Latest(k)' = Latest(k)
PROOF
<1>1. Selected' = Selected
  BY SameJob
<1>2. \A k : Prior(k)' = Prior(k)
  BY <1>1 DEF Prior
<1> QED
  BY <1>2 DEF Followed, Latest

\* The backward pass starts from the selection again.
LEMMA TurnKeeps == AnalysisInv /\ Turn => AnalysisInv'
PROOF
<1> SUFFICES ASSUME AnalysisInv, Turn PROVE AnalysisInv'
  OBVIOUS
<1>1. /\ job' = job /\ phase = "forward" /\ phase' = "backward"
      /\ job \in Job /\ job.time < DurationMs(video)
      /\ i \in Selected + 1 .. video.frames /\ i \notin Frame /\ i' = Selected - 1
      /\ box' = box /\ seen' = seen /\ guide' = guide /\ held' = held /\ reference' = box[Selected]
  BY DEF AnalysisInv, LoopInv, Turn, results
<1>2. /\ video' = video /\ Frame' = Frame /\ Selected' = Selected
      /\ \A k : IsSampled(k)' = IsSampled(k)
  BY <1>1, SameJob
<1>3. /\ video.frames \in Nat \ {0} /\ Frame = 0 .. video.frames - 1
      /\ Selected \in Nat /\ Selected < video.frames /\ Selected \in Frame
  BY <1>1, FrameFacts, SelectedIsFrame
<1>4. i = video.frames
  BY <1>1, <1>3
<1>5. LoopInv' /\ SeenInv' /\ GuideInv'
  BY <1>1, <1>2, <1>3 DEF AnalysisInv, LoopInv, SeenInv, GuideInv, Loop
<1>6. /\ box = [k \in Frame |-> box[k]] /\ box[Selected] # None
      /\ \A k \in Frame : k < Selected => box[k] = None
      /\ \A k \in Selected + 1 .. i - 1 : Followed(k)
  BY <1>1 DEF AnalysisInv, FollowInv
<1>7. Min(Behind(i)') = Selected
  <2>1. Behind(i)' = {Selected}
    BY <1>1, <1>2, <1>3, <1>6 DEF Behind
  <2> QED
    BY <1>3, <2>1, MinIs
<1>8. \A k \in Frame \ {Selected} : k > i' => Followed(k)'
  <2> SUFFICES ASSUME NEW k \in Frame \ {Selected}, k > i' PROVE Followed(k)'
    OBVIOUS
  <2>1. k \in Selected + 1 .. i - 1
    BY <1>1, <1>3, <1>4
  <2> QED
    BY <1>1, <1>6, <2>1, SameBoxes
<1>9. ASSUME NEW k \in Frame, k <= i' PROVE box'[k] = None
  <2>1. k < Selected
    BY <1>1, <1>3, <1>9
  <2> QED
    BY <1>1, <1>6, <2>1
<1>10. FollowInv'
  BY <1>1, <1>2, <1>6, <1>7, <1>8, <1>9 DEF FollowInv
<1> QED
  BY <1>5, <1>10 DEF AnalysisInv

\* Every frame is followed when both passes are over.
LEMMA MeasureKeeps == AnalysisInv /\ Measure => AnalysisInv'
PROOF
<1> SUFFICES ASSUME AnalysisInv, Measure PROVE AnalysisInv'
  OBVIOUS
<1>1. /\ job' = job /\ phase = "backward" /\ phase' = "measure"
      /\ job \in Job /\ job.time < DurationMs(video)
      /\ i \in -1 .. Selected - 1 /\ i \notin Frame /\ i' = 0
      /\ box' = box /\ seen' = seen /\ guide' = guide
  BY DEF AnalysisInv, LoopInv, Measure, results
<1>2. /\ video' = video /\ Frame' = Frame /\ Selected' = Selected
      /\ \A k : IsSampled(k)' = IsSampled(k)
  BY <1>1, SameJob
<1>3. /\ video.frames \in Nat \ {0} /\ Frame = 0 .. video.frames - 1
      /\ Selected \in Nat /\ Selected < video.frames
  BY <1>1, FrameFacts
<1>4. LoopInv' /\ SeenInv'
  BY <1>1, <1>2, <1>3 DEF AnalysisInv, LoopInv, SeenInv, Loop
<1>5. /\ box = [k \in Frame |-> box[k]] /\ box[Selected] # None
      /\ \A k \in Frame \ {Selected} : k > i => Followed(k)
      /\ DOMAIN guide = Frame
  BY <1>1 DEF AnalysisInv, FollowInv, GuideInv
<1>6. i = -1
  BY <1>1, <1>3
<1>7. \A k \in Frame \ {Selected} : Followed(k)'
  BY <1>1, <1>3, <1>5, <1>6, SameBoxes
<1>8. FollowInv'
  BY <1>1, <1>2, <1>5, <1>7 DEF FollowInv
<1>9. GuideInv'
  BY <1>1, <1>2, <1>5 DEF GuideInv
<1> QED
  BY <1>4, <1>8, <1>9 DEF AnalysisInv

\* A frame that was sampled is the latest one; one that was not has that of the frame before.
LEMMA LatestIs ==
  ASSUME NEW k \in Nat
  PROVE  /\ seen[k] # None => Latest(k) = k
         /\ k > 0 /\ seen[k] = None => Latest(k) = Latest(k - 1)
PROOF
<1>1. ASSUME seen[k] # None PROVE Latest(k) = k
  <2> DEFINE S == {j \in 0 .. k : seen[j] # None}
  <2>1. S \subseteq Int /\ k \in S /\ \A j \in S : j <= k
    BY <1>1
  <2> QED
    BY <2>1, MaxIs DEF Latest
<1>2. ASSUME k > 0, seen[k] = None PROVE Latest(k) = Latest(k - 1)
  <2>1. {j \in 0 .. k : seen[j] # None} = {j \in 0 .. k - 1 : seen[j] # None}
    BY <1>2
  <2> QED
    BY <2>1 DEF Latest
<1> QED
  BY <1>1, <1>2

\* The held box is that of the latest sample.
LEMMA HoldKeeps == AnalysisInv /\ Hold => AnalysisInv'
PROOF
<1> SUFFICES ASSUME AnalysisInv, Hold PROVE AnalysisInv'
  OBVIOUS
<1>1. /\ job' = job /\ phase = "measure" /\ phase' = "measure"
      /\ job \in Job /\ job.time < DurationMs(video)
      /\ i \in 0 .. video.frames /\ i \in Frame /\ i' = i + 1
      /\ box' = box /\ seen' = seen
      /\ held' = (IF IsSampled(i) THEN box[i] ELSE held)
      /\ guide' = [guide EXCEPT ![i] = held']
  BY DEF AnalysisInv, LoopInv, Hold
<1>2. /\ video' = video /\ Frame' = Frame /\ Selected' = Selected
      /\ \A k : IsSampled(k)' = IsSampled(k)
  BY <1>1, SameJob
<1>3. /\ video.frames \in Nat \ {0} /\ Frame = 0 .. video.frames - 1 /\ IsSampled(0)
  BY <1>1, FrameFacts
<1>4. LoopInv' /\ SeenInv'
  BY <1>1, <1>2, <1>3 DEF AnalysisInv, LoopInv, SeenInv, Loop
<1>5. /\ box = [k \in Frame |-> box[k]] /\ box[Selected] # None
      /\ \A k \in Frame \ {Selected} : Followed(k)
      /\ DOMAIN guide = Frame
      /\ \A k \in 0 .. i - 1 : guide[k] = box[Latest(k)]
      /\ i > 0 => held = box[Latest(i - 1)]
      /\ seen[i] # None <=> IsSampled(i)
  BY <1>1 DEF AnalysisInv, FollowInv, GuideInv, SeenInv
<1>6. \A k \in Frame \ {Selected} : Followed(k)'
  BY <1>1, <1>5, SameBoxes
<1>7. FollowInv'
  BY <1>1, <1>2, <1>5, <1>6 DEF FollowInv
<1>8. held' = box[Latest(i)]
  <2>1. CASE IsSampled(i)
    BY <1>1, <1>5, <2>1, LatestIs
  <2>2. CASE ~IsSampled(i)
    <3>1. i > 0
      BY <1>1, <1>3, <2>2
    <3>2. Latest(i) = Latest(i - 1)
      BY <1>1, <1>5, <2>2, <3>1, LatestIs
    <3> QED
      BY <1>1, <1>5, <2>2, <3>1, <3>2
  <2> QED
    BY <2>1, <2>2
<1>9. PICK n \in Frame : n = i
  BY <1>1
<1>10. \A k : Latest(k)' = Latest(k)
  BY <1>1, SameBoxes
<1>11. DOMAIN guide' = Frame /\ guide'[n] = box[Latest(n)] /\ \A k \in Frame \ {n} : guide'[k] = guide[k]
  BY <1>1, <1>5, <1>8, <1>9
<1>12. ASSUME NEW k \in 0 .. n PROVE guide'[k] = box'[Latest(k)']
  <2>1. CASE k = n
    BY <1>1, <1>10, <1>11, <2>1
  <2>2. CASE k # n
    <3>1. k \in 0 .. i - 1 /\ k \in Frame \ {n}
      BY <1>3, <1>9, <2>2
    <3> QED
      BY <1>1, <1>5, <1>10, <1>11, <3>1
  <2> QED
    BY <2>1, <2>2
<1>13. held' = box'[Latest(i - 1)']
  <2>1. held' = box'[Latest(n)']
    BY <1>1, <1>8, <1>9, <1>10
  <2>2. (Latest(i - 1))' = Latest(n)'
    <3>1. i' - 1 = n
      BY <1>1, <1>3, <1>9
    <3> QED
      BY <3>1 DEF Latest
  <2> QED
    BY <2>1, <2>2
<1>14. GuideInv'
  BY <1>1, <1>2, <1>3, <1>9, <1>11, <1>12, <1>13 DEF GuideInv
<1> QED
  BY <1>4, <1>7, <1>14 DEF AnalysisInv

\* Report, counting and review read the guide and change none of it.
LEMMA ReportingKeeps == AnalysisInv /\ (Report \/ Count \/ EnterReview \/ Warn) => AnalysisInv'
PROOF
<1> SUFFICES ASSUME AnalysisInv, Report \/ Count \/ EnterReview \/ Warn PROVE AnalysisInv'
  OBVIOUS
<1>1. /\ job' = job /\ box' = box /\ seen' = seen /\ guide' = guide
      /\ job \in Job /\ job.time < DurationMs(video)
      /\ \/ phase = "measure" /\ i \notin Frame /\ phase' = "report"
         \/ phase \in {"report", "detection", "framing"}
      /\ phase' \in {"report", "detection", "framing", "done"}
      /\ i \in 0 .. video.frames
      /\ i' = 0 \/ (i \in Frame /\ i' = i + 1)
  BY DEF AnalysisInv, LoopInv, Report, Count, EnterReview, Warn, NextPhase, results
<1>2. /\ video' = video /\ Frame' = Frame /\ Selected' = Selected
      /\ \A k : IsSampled(k)' = IsSampled(k)
  BY <1>1, SameJob
<1>3. /\ video.frames \in Nat \ {0} /\ Frame = 0 .. video.frames - 1
  BY <1>1, FrameFacts
<1>4. LoopInv'
  BY <1>1, <1>2, <1>3 DEF LoopInv, Loop
<1>5. SeenInv'
  BY <1>1, <1>2 DEF AnalysisInv, SeenInv
<1>6. /\ box = [k \in Frame |-> box[k]] /\ box[Selected] # None
      /\ \A k \in Frame \ {Selected} : Followed(k)
      /\ DOMAIN guide = Frame
  BY <1>1 DEF AnalysisInv, FollowInv, GuideInv
<1>7. \A k : (Followed(k)' <=> Followed(k)) /\ Latest(k)' = Latest(k)
  BY <1>1, SameBoxes
<1>8. FollowInv'
  BY <1>1, <1>2, <1>6, <1>7 DEF FollowInv
<1>9. \A k \in Frame : guide[k] = box[Latest(k)]
  <2>1. CASE phase = "measure"
    <3>1. i = video.frames
      BY <1>1, <1>3, <2>1
    <3>2. \A k \in 0 .. i - 1 : guide[k] = box[Latest(k)]
      BY <2>1 DEF AnalysisInv, GuideInv
    <3> QED
      BY <1>3, <3>1, <3>2
  <2>2. CASE phase # "measure"
    BY <1>1, <2>2 DEF AnalysisInv, GuideInv
  <2> QED
    BY <2>1, <2>2
<1>10. GuideInv'
  BY <1>1, <1>2, <1>6, <1>7, <1>9 DEF GuideInv
<1> QED
  BY <1>4, <1>5, <1>8, <1>10 DEF AnalysisInv

\* Nothing happens.
LEMMA AnalysisStutters == AnalysisInv /\ UNCHANGED analysisVars => AnalysisInv'
PROOF
<1> SUFFICES ASSUME AnalysisInv, UNCHANGED analysisVars PROVE AnalysisInv'
  OBVIOUS
<1>1. /\ job' = job /\ phase' = phase /\ i' = i /\ seen' = seen /\ box' = box /\ guide' = guide
      /\ held' = held /\ reference' = reference
  BY DEF analysisVars, results
<1>2. /\ video' = video /\ Frame' = Frame /\ Selected' = Selected
      /\ \A k : IsSampled(k)' = IsSampled(k)
  BY <1>1, SameJob
<1>3. \A k : (Followed(k)' <=> Followed(k)) /\ Latest(k)' = Latest(k)
  BY <1>1, SameBoxes
<1>4. Ahead(i)' = Ahead(i) /\ Behind(i)' = Behind(i) /\ Latest(i - 1)' = Latest(i - 1)
  BY <1>1, <1>2 DEF Ahead, Behind, Latest
<1> QED
  BY <1>1, <1>2, <1>3, <1>4 DEF AnalysisInv, LoopInv, SeenInv, FollowInv, GuideInv

\* What the loops of _crop_path, _associate_from_selected and _planner_measurements have
\* done up to their indexes.
THEOREM AnalysisInvariant == AnalysisSpec => []AnalysisInv
PROOF
<1>1. AnalysisInit => AnalysisInv
  <2> SUFFICES ASSUME AnalysisInit PROVE AnalysisInv
    OBVIOUS
  <2>1. /\ job \in Job /\ job.time < DurationMs(video) /\ phase = "decode" /\ i = 0
        /\ seen = [k \in Frame |-> None]
        /\ box = [k \in Frame |-> None] /\ guide = [k \in Frame |-> None]
    BY DEF AnalysisInit
  <2>2. video.frames \in Nat \ {0} /\ Frame = 0 .. video.frames - 1
    BY <2>1, FrameFacts
  <2>3. LoopInv
    BY <2>1, <2>2 DEF LoopInv, Loop
  <2>4. SeenInv
    BY <2>1, <2>2 DEF SeenInv
  <2>5. FollowInv
    BY <2>1 DEF FollowInv
  <2>6. GuideInv
    BY <2>1 DEF GuideInv
  <2> QED
    BY <2>3, <2>4, <2>5, <2>6 DEF AnalysisInv
<1>2. AnalysisInv /\ [AnalysisNext]_analysisVars => AnalysisInv'
  <2> SUFFICES ASSUME AnalysisInv, [AnalysisNext]_analysisVars PROVE AnalysisInv'
    OBVIOUS
  <2>1. CASE Follow
    <3>1. phase \in {"forward", "backward"}
      BY <2>1 DEF Follow
    <3> QED
      BY <2>1, <3>1, ForwardKeeps, BackwardKeeps
  <2> QED
    BY <2>1, ReadKeeps, FailuresKeep, SelectKeeps, TurnKeeps, MeasureKeeps, HoldKeeps, ReportingKeeps,
       AnalysisStutters
       DEF AnalysisNext
<1> QED
  BY <1>1, <1>2, PTL DEF AnalysisSpec

\* The loop of _crop_path asks the detector about the first frame at or after each tick of
\* the grid and the selected one, for every rate of the clip and of the samples, and
\* frame_for_time_ms never selects a frame that the clip does not have.
THEOREM DetectorRunsOnGrid == AnalysisSpec => []DetectsOnGrid
PROOF
<1>1. AnalysisInv => DetectsOnGrid
  <2> SUFFICES ASSUME AnalysisInv, phase = "decode", i \notin Frame
               PROVE  /\ Selected \in Frame
                      /\ \A k \in Frame : seen[k] # None <=> fps.num = 0 \/ k = Selected \/ OnGrid(k)
    BY DEF DetectsOnGrid
  <2>1. job \in Job /\ job.time < DurationMs(video) /\ i \in 0 .. video.frames
    BY DEF AnalysisInv, LoopInv
  <2>2. video.frames \in Nat \ {0} /\ Frame = 0 .. video.frames - 1 /\ Selected \in Frame
    BY <2>1, FrameFacts, SelectedIsFrame
  <2>3. \A k \in Frame : k < i
    BY <2>1, <2>2
  <2>4. \A k \in Frame : seen[k] # None <=> IsSampled(k)
    BY <2>3 DEF AnalysisInv, SeenInv
  <2> QED
    BY <2>1, <2>2, <2>4, SampledIsOnGrid
<1> QED
  BY <1>1, AnalysisInvariant, PTL

\* _associate_from_selected and _planner_measurements: the box that guides the camera is
\* that of the athlete who was tapped, followed outwards from the selection in both
\* directions, at the latest frame that was sampled.
THEOREM CameraFollowsAthlete == AnalysisSpec => []GuidedByFollowedAthlete
PROOF
<1>1. AnalysisInv => GuidedByFollowedAthlete
  <2> SUFFICES ASSUME AnalysisInv PROVE FollowsNearestBox /\ GuidedByLatestSample
    BY DEF GuidedByFollowedAthlete
  <2>1. FollowsNearestBox
    BY DEF AnalysisInv, FollowInv, FollowsNearestBox, Followed
  <2>2. GuidedByLatestSample
    BY DEF AnalysisInv, GuideInv, GuidedByLatestSample, Latest
  <2> QED
    BY <2>1, <2>2
<1> QED
  BY <1>1, AnalysisInvariant, PTL

\* The gate keeps some of the people it is given.
LEMMA AdmittedIs ==
  ASSUME NEW list \in Seq(Person), NEW from
  PROVE  Admitted(list, from) \in Seq(Person)
PROOF
<1> DEFINE Term(g, k) == IF k = 0 THEN <<>>
                         ELSE IF Gate(list[k], from) THEN Append(g[k - 1], list[k]) ELSE g[k - 1]
           Step(g) == [k \in 0 .. Len(list) |-> Term(g, k)]
           Good(n) == \E g \in [0 .. n -> Seq(Person)] : \A k \in 0 .. n : g[k] = Term(g, k)
           Bad == {n \in 0 .. Len(list) : ~Good(n)}
<1>1. Len(list) \in Nat /\ \A k \in 1 .. Len(list) : list[k] \in Person
  OBVIOUS
<1>2. Good(0)
  <2> DEFINE g == [k \in 0 .. 0 |-> <<>>]
  <2>1. g \in [0 .. 0 -> Seq(Person)]
    OBVIOUS
  <2>2. \A k \in 0 .. 0 : g[k] = Term(g, k)
    OBVIOUS
  <2> QED
    BY <2>1, <2>2
<1>3. ASSUME NEW n \in 0 .. Len(list) - 1, Good(n) PROVE Good(n + 1)
  <2>1. PICK g \in [0 .. n -> Seq(Person)] : \A k \in 0 .. n : g[k] = Term(g, k)
    BY <1>3
  <2> DEFINE h == [k \in 0 .. n + 1 |-> IF k <= n THEN g[k] ELSE Term(g, k)]
  <2>2. n \in Nat /\ n + 1 \in 1 .. Len(list)
    BY <1>1
  <2>3. Term(g, n + 1) \in Seq(Person)
    <3>1. g[n] \in Seq(Person) /\ list[n + 1] \in Person
      BY <1>1, <2>1, <2>2
    <3>2. Append(g[n], list[n + 1]) \in Seq(Person)
      BY <3>1
    <3> QED
      BY <2>2, <3>1, <3>2
  <2>4. h \in [0 .. n + 1 -> Seq(Person)]
    <3> HIDE DEF Term
    <3>1. ASSUME NEW k \in 0 .. n + 1 PROVE (IF k <= n THEN g[k] ELSE Term(g, k)) \in Seq(Person)
      <4>1. CASE k <= n
        BY <2>1, <2>2, <4>1
      <4>2. CASE ~(k <= n)
        BY <2>2, <2>3, <4>2
      <4> QED
        BY <4>1, <4>2
    <3> QED
      BY <3>1
  <2>5. \A k \in 0 .. n + 1 : k # 0 => h[k - 1] = g[k - 1]
    BY <2>2
  <2>6. \A k \in 0 .. n + 1 : Term(h, k) = Term(g, k)
    <3> HIDE DEF h
    <3> QED
      BY <2>5
  <2>7. \A k \in 0 .. n + 1 : h[k] = Term(h, k)
    <3> HIDE DEF Term
    <3> QED
      BY <2>1, <2>2, <2>6
  <2> HIDE DEF h, Term
  <2> QED
    BY <2>4, <2>7
<1> HIDE DEF Good
<1>4. Bad = {}
  <2> SUFFICES ASSUME Bad # {} PROVE FALSE
    OBVIOUS
  <2>1. Bad \subseteq Nat
    OBVIOUS
  <2>2. PICK n \in Bad : \A m \in Bad : n <= m
    <3> HIDE DEF Bad
    <3> QED
      BY <2>1, LeastNatural
  <2>3. n \in 0 .. Len(list) /\ n # 0 /\ ~Good(n)
    BY <1>2, <2>2
  <2>4. n - 1 \in 0 .. Len(list) - 1 /\ ~(n <= n - 1) /\ (n - 1) + 1 = n /\ n - 1 \in 0 .. Len(list)
    BY <1>1, <2>3
  <2>5. Good(n - 1)
    BY <2>2, <2>4
  <2>6. Good((n - 1) + 1)
    BY <1>3, <2>4, <2>5
  <2> QED
    BY <2>3, <2>4, <2>6
<1>5. PICK g \in [0 .. Len(list) -> Seq(Person)] : \A k \in 0 .. Len(list) : g[k] = Term(g, k)
  <2>1. Good(Len(list))
    BY <1>1, <1>4
  <2> QED
    BY <2>1 DEF Good
<1>6. g = Step(g)
  <2> HIDE DEF Term
  <2> QED
    BY <1>5
<1> DEFINE kept == CHOOSE f : f = Step(f)
<1>7. Admitted(list, from) = kept[Len(list)]
  BY DEF Admitted
<1>8. kept = Step(kept)
  <2> HIDE DEF Step
  <2> QED
    BY <1>6
<1>9. \A k \in 0 .. Len(list) : kept[k] = Term(kept, k)
  BY <1>8
<1> HIDE DEF kept
<1>10. kept[Len(list)] \in Seq(Person)
  <2> DEFINE Off == {k \in 0 .. Len(list) : kept[k] \notin Seq(Person)}
  <2>1. ASSUME Off # {} PROVE FALSE
    <3>1. PICK n \in Off : \A m \in Off : n <= m
      <4>1. Off \subseteq Nat
        OBVIOUS
      <4> HIDE DEF Off
      <4> QED
        BY <2>1, <4>1, LeastNatural
    <3>2. n \in 0 .. Len(list) /\ kept[n] \notin Seq(Person)
      BY <3>1
    <3>3. n # 0
      <4>1. 0 \in 0 .. Len(list) /\ Term(kept, 0) = <<>>
        BY <1>1
      <4>2. kept[0] = <<>>
        BY <1>9, <4>1
      <4>3. <<>> \in Seq(Person)
        OBVIOUS
      <4> QED
        BY ONLY <3>2, <4>2, <4>3
    <3>4. n - 1 \in 0 .. Len(list) /\ ~(n <= n - 1) /\ list[n] \in Person
      BY <1>1, <3>2, <3>3
    <3>5. kept[n - 1] \in Seq(Person)
      BY <3>1, <3>4
    <3>6. Append(kept[n - 1], list[n]) \in Seq(Person)
      BY <3>4, <3>5
    <3>7. kept[n] = Term(kept, n)
      BY <1>9, <3>2
    <3>8. kept[n] = Append(kept[n - 1], list[n]) \/ kept[n] = kept[n - 1]
      BY <3>3, <3>7
    <3> QED
      BY ONLY <3>2, <3>5, <3>6, <3>8
  <2>2. Len(list) \in 0 .. Len(list)
    BY <1>1
  <2>3. Off = {}
    BY <2>1
  <2> QED
    BY <2>2, <2>3
<1> QED
  BY <1>7, <1>10

\* Those of whom _select takes the nearest.
Pool(list, point) ==
  LET containing == {k \in DOMAIN list : Contains(list[k], point)}
  IN  IF containing # {} THEN containing ELSE DOMAIN list

\* The first of the nearest of a pool.
Nearest(list, point, k) ==
  \A l \in Pool(list, point) :
    \/ Distance(list[k], point) < Distance(list[l], point)
    \/ Distance(list[k], point) = Distance(list[l], point) /\ k <= l

\* There is exactly one.
LEMMA ChooseIs ==
  ASSUME NEW list, DOMAIN list # {}, DOMAIN list \subseteq Nat,
         \A k \in DOMAIN list : list[k] \in Person, NEW point \in Int
  PROVE  /\ Choose(list, point) \in Pool(list, point) /\ Pool(list, point) \subseteq DOMAIN list
         /\ Nearest(list, point, Choose(list, point))
         /\ \A k \in Pool(list, point) : Nearest(list, point, k) => k = Choose(list, point)
PROOF
<1> DEFINE P == Pool(list, point)
           far(k) == Distance(list[k], point)
<1>1. P \subseteq DOMAIN list /\ P # {}
  BY DEF Pool
<1>2. \A k \in P : k \in Nat /\ far(k) \in Nat
  <2> SUFFICES ASSUME NEW k \in P PROVE far(k) \in Nat
    BY <1>1
  <2>1. list[k].centre \in Int
    BY <1>1 DEF Person
  <2> QED
    BY <2>1 DEF Distance
<1>3. Choose(list, point) = CHOOSE k \in P : \A l \in P : far(k) < far(l) \/ (far(k) = far(l) /\ k <= l)
  BY DEF Choose, Pool
<1>4. \A k \in P : Nearest(list, point, k) <=> \A l \in P : far(k) < far(l) \/ (far(k) = far(l) /\ k <= l)
  BY DEF Nearest
<1> HIDE DEF P, far
<1>5. PICK m \in P : \A l \in P : far(m) <= far(l)
  <2> DEFINE D == {far(k) : k \in P}
  <2>1. D \subseteq Nat /\ D # {}
    BY <1>1, <1>2
  <2> HIDE DEF D
  <2>2. PICK d \in D : \A e \in D : d <= e
    BY <2>1, LeastNatural
  <2> QED
    BY <2>2 DEF D
<1>6. PICK k \in P : \A l \in P : far(k) < far(l) \/ (far(k) = far(l) /\ k <= l)
  <2> DEFINE K == {k \in P : far(k) = far(m)}
  <2>1. K \subseteq Nat /\ K # {}
    BY <1>2, <1>5
  <2>2. PICK k \in K : \A l \in K : k <= l
    <3> HIDE DEF K
    <3> QED
      BY <2>1, LeastNatural
  <2> QED
    BY <1>2, <1>5, <2>2
<1>7. \A l \in P : (\A j \in P : far(l) < far(j) \/ (far(l) = far(j) /\ l <= j)) => l = k
  BY <1>2, <1>6
<1>8. Choose(list, point) = k
  BY <1>3, <1>6, <1>7
<1> QED
  BY <1>1, <1>4, <1>6, <1>7, <1>8 DEF P

\* The retained candidates are not too many, and the selected one is among them.
LEMMA RetainedIs ==
  ASSUME NEW n \in Nat, NEW k \in Nat
  PROVE  /\ Retained(n, k) \subseteq 1 .. n
         /\ Cardinality(Retained(n, k)) \in Nat
         /\ Cardinality(Retained(n, k)) <= n /\ Cardinality(Retained(n, k)) <= MaxCandidates
         /\ k \in 1 .. n => k \in Retained(n, k)
PROOF
<1> DEFINE M == MaxCandidates
           wanted == {j \in 1 .. n : j <= M \/ j = k}
<1>1. M \in Nat /\ M >= 1
  BY AnalysisAssumption
<1>2. /\ IsFiniteSet(1 .. n) /\ Cardinality(1 .. n) = n
      /\ IsFiniteSet(1 .. M) /\ Cardinality(1 .. M) = M
  BY <1>1, FS_Interval
<1>3. wanted \subseteq 1 .. n /\ IsFiniteSet(wanted)
  BY <1>2, FS_Subset
<1>4. \A S : S \subseteq wanted => IsFiniteSet(S) /\ Cardinality(S) \in Nat /\ Cardinality(S) <= n
  <2> SUFFICES ASSUME NEW S, S \subseteq wanted
               PROVE  IsFiniteSet(S) /\ Cardinality(S) \in Nat /\ Cardinality(S) <= n
    OBVIOUS
  <2>1. IsFiniteSet(S) /\ S \subseteq 1 .. n
    BY <1>3, FS_Subset
  <2> QED
    BY <1>2, <2>1, FS_Subset, FS_CardinalityType
<1>5. CASE Cardinality(wanted) <= M
  <2>1. Retained(n, k) = wanted
    BY <1>1, <1>4, <1>5 DEF Retained
  <2> QED
    BY <1>3, <1>4, <1>5, <2>1
<1>6. CASE ~(Cardinality(wanted) <= M)
  <2>1. Retained(n, k) = wanted \ {M}
    BY <1>1, <1>4, <1>6 DEF Retained
  <2>2. n > M /\ k > M /\ k \in 1 .. n
    <3>1. ASSUME wanted \subseteq 1 .. M PROVE FALSE
      <4> HIDE DEF wanted
      <4>1. Cardinality(wanted) <= Cardinality(1 .. M)
        BY <1>2, <3>1, FS_Subset
      <4> QED
        BY <1>2, <1>6, <4>1
    <3> QED
      BY <1>1, <3>1
  <2>3. wanted \ {M} = ((1 .. M) \ {M}) \union {k}
    BY <1>1, <2>2
  <2>4. IsFiniteSet((1 .. M) \ {M}) /\ Cardinality((1 .. M) \ {M}) = M - 1
    <3>1. M \in 1 .. M
      BY <1>1
    <3> QED
      BY <1>2, <3>1, FS_RemoveElement
  <2>5. Cardinality(((1 .. M) \ {M}) \union {k}) = M
    <3>1. k \notin (1 .. M) \ {M}
      BY <1>1, <2>2
    <3> HIDE DEF M
    <3>2. Cardinality(((1 .. M) \ {M}) \union {k}) = (M - 1) + 1
      BY <2>4, <3>1, FS_AddElement
    <3> QED
      BY <1>1, <3>2
  <2>6. wanted \ {M} \subseteq wanted /\ k \in wanted \ {M}
    BY <1>1, <2>2
  <2> HIDE DEF wanted, M
  <2> QED
    BY <1>1, <1>3, <1>4, <2>1, <2>3, <2>5, <2>6 DEF M
<1> QED
  BY <1>5, <1>6

\* A list that is not empty has somebody in it.
LEMMA SomebodyListed ==
  ASSUME NEW list \in Seq(Person), list # <<>>
  PROVE  /\ DOMAIN list # {} /\ DOMAIN list \subseteq Nat
         /\ \A k \in DOMAIN list : list[k] \in Person
PROOF
<1>1. Len(list) \in Nat /\ Len(list) # 0 /\ DOMAIN list = 1 .. Len(list)
  OBVIOUS
<1>2. \A k \in 1 .. Len(list) : list[k] \in Person
  OBVIOUS
<1>3. 1 \in 1 .. Len(list) /\ 1 .. Len(list) \subseteq Nat
  BY <1>1
<1> QED
  BY <1>1, <1>2, <1>3

\* What a cut list says of its selected candidate is true of the whole list.
LEMMA SelectionIsSound ==
  ASSUME NEW list \in Seq(Person), NEW point \in Int
  PROVE  Sound(SelectionEvidence(list, point), SelectTarget(list, point))
PROOF
<1> DEFINE n == Len(list)
           e == SelectionEvidence(list, point)
<1>1. n \in Nat /\ DOMAIN list = 1 .. n /\ \A k \in 1 .. n : list[k] \in Person
  OBVIOUS
<1>2. CASE list = <<>>
  <2> DEFINE R == Retained(0, 0)
  <2>1. R = {}
    BY RetainedIs
  <2>2. Cardinality({}) = 0
    BY FS_EmptySet
  <2>3. Len(<<>>) = 0
    OBVIOUS
  <2>4. /\ e.outcome = "nobody" /\ e.count = 0 /\ e.selected = {}
        /\ DOMAIN e.candidates = {} /\ e.truncated = FALSE
    <3>1. e = Evidence("nobody", point, <<>>, 0)
      BY <1>2 DEF SelectionEvidence
    <3>2. {j \in {} : TRUE} = {} /\ {0} \intersect {} = {} /\ (0 < 0) = FALSE
      OBVIOUS
    <3> HIDE DEF e
    <3>3. /\ e.outcome = "nobody" /\ e.count = 0 /\ e.selected = {0} \intersect {}
          /\ e.candidates = [j \in {} |-> <<>>[j]] /\ e.truncated = (0 < 0)
      BY <2>1, <2>2, <2>3, <3>1 DEF Evidence
    <3> QED
      BY <3>2, <3>3
  <2>5. SelectTarget(list, point) = None /\ MaxCandidates \in Nat
    BY <1>2, AnalysisAssumption DEF SelectTarget
  <2> HIDE DEF e
  <2> QED
    BY <2>2, <2>4, <2>5 DEF Sound, e
<1>3. CASE list # <<>>
  <2> DEFINE k == Choose(list, point)
             R == Retained(n, k)
             c == [j \in R |-> list[j]]
  <2>1. DOMAIN list # {} /\ DOMAIN list \subseteq Nat
    BY <1>3, SomebodyListed
  <2>2. /\ k \in Pool(list, point) /\ Pool(list, point) \subseteq 1 .. n
        /\ Nearest(list, point, k)
    BY <1>1, <2>1, ChooseIs
  <2> HIDE DEF k
  <2>3. /\ R \subseteq 1 .. n /\ k \in R /\ Cardinality(R) \in Nat
        /\ Cardinality(R) <= n /\ Cardinality(R) <= MaxCandidates
    BY <1>1, <2>2, RetainedIs
  <2> HIDE DEF R
  <2>4. DOMAIN c = R /\ \A j \in R : c[j] = list[j]
    OBVIOUS
  <2> HIDE DEF c
  <2>5. k \in Pool(c, point) /\ Pool(c, point) \subseteq Pool(list, point)
    BY <1>1, <2>2, <2>3, <2>4 DEF Pool
  <2>6. Nearest(c, point, k)
    <3>1. Pool(c, point) \subseteq R
      BY <2>4 DEF Pool
    <3> QED
      BY <2>2, <2>4, <2>5, <3>1 DEF Nearest
  <2>7. Choose(c, point) = k
    <3>1. DOMAIN c # {} /\ DOMAIN c \subseteq Nat /\ \A j \in DOMAIN c : c[j] \in Person
      BY <1>1, <2>3, <2>4
    <3> QED
      BY <2>5, <2>6, <3>1, ChooseIs
  <2>8. /\ e = Evidence(IF Contains(list[k], point) THEN "containing" ELSE "nearest", point, list, k)
        /\ SelectTarget(list, point) = list[k]
    BY <1>3 DEF SelectionEvidence, SelectTarget, k
  <2> HIDE DEF e
  <2>9. /\ e.outcome = (IF Contains(list[k], point) THEN "containing" ELSE "nearest")
        /\ e.point = point /\ e.count = n /\ e.candidates = c
        /\ e.selected = {k} \intersect R /\ e.truncated = (Cardinality(R) < n)
    BY <2>8 DEF Evidence, R, c
  <2>10. {k} \intersect R = {k} /\ (Cardinality(R) < n <=> n > Cardinality(R))
    BY <1>1, <2>3
  <2>11. c[k] = list[k]
    BY <2>3, <2>4
  <2>12. e.outcome \notin {"nobody", "rejected"} /\ (e.outcome = "containing" <=> Contains(list[k], point))
    BY <2>9
  <2> HIDE DEF n
  <2> QED
    BY <2>3, <2>4, <2>7, <2>8, <2>9, <2>10, <2>11, <2>12 DEF Sound, e
<1> QED
  BY <1>2, <1>3

\* The same of an association, whose gate may leave nobody.
LEMMA AssociationIsSound ==
  ASSUME NEW list \in Seq(Person), NEW from \in Person
  PROVE  Sound(AssociationEvidence(list, from), Associate(list, from))
PROOF
<1> DEFINE near == Admitted(list, from)
           e == AssociationEvidence(list, from)
<1>1. near \in Seq(Person) /\ from.centre \in Int
  BY AdmittedIs DEF Person
<1>2. Associate(list, from) = SelectTarget(near, from.centre)
  BY DEF Associate
<1>3. CASE list # <<>> /\ near = <<>>
  <2> DEFINE n == Len(list)
             R == Retained(n, 1)
  <2>1. n \in Nat /\ n # 0
    BY <1>3
  <2>2. R \subseteq 1 .. n /\ Cardinality(R) \in Nat /\ Cardinality(R) <= n /\ Cardinality(R) <= MaxCandidates
    BY <2>1, RetainedIs
  <2>3. /\ e.outcome = "rejected" /\ e.count = n /\ e.selected = {}
        /\ DOMAIN e.candidates = R /\ e.truncated = (Cardinality(R) < n)
    BY <1>3 DEF AssociationEvidence, Evidence
  <2>4. Associate(list, from) = None
    BY <1>2, <1>3 DEF SelectTarget
  <2>5. Cardinality(R) < n <=> n > Cardinality(R)
    BY <2>1, <2>2
  <2> HIDE DEF e, R, n
  <2> QED
    BY <2>1, <2>2, <2>3, <2>4, <2>5 DEF Sound, e
<1>4. CASE ~(list # <<>> /\ near = <<>>)
  <2>1. e = SelectionEvidence(near, from.centre)
    BY <1>4 DEF AssociationEvidence
  <2> QED
    BY <1>1, <1>2, <2>1, SelectionIsSound
<1> QED
  BY <1>3, <1>4

\* A detection that was accepted is one of those that were made.
LEMMA TargetIs ==
  ASSUME NEW list \in Seq(Person)
  PROVE  /\ \A point \in Int : SelectTarget(list, point) \in Person \union {None}
         /\ \A from \in Person : Associate(list, from) \in Person \union {None}
PROOF
<1>1. ASSUME NEW l \in Seq(Person), NEW point \in Int
      PROVE  SelectTarget(l, point) \in Person \union {None}
  <2>1. CASE l = <<>>
    BY <2>1 DEF SelectTarget
  <2>2. CASE l # <<>>
    <3>1. DOMAIN l # {} /\ DOMAIN l \subseteq Nat /\ \A k \in DOMAIN l : l[k] \in Person
      BY <2>2, SomebodyListed
    <3>2. Choose(l, point) \in DOMAIN l
      BY <3>1, ChooseIs
    <3> QED
      BY <2>2, <3>1, <3>2 DEF SelectTarget
  <2> QED
    BY <2>1, <2>2
<1>2. ASSUME NEW from \in Person PROVE Associate(list, from) \in Person \union {None}
  <2>1. Admitted(list, from) \in Seq(Person) /\ from.centre \in Int
    BY AdmittedIs DEF Person
  <2> QED
    BY <1>1, <2>1 DEF Associate
<1> QED
  BY <1>1, <1>2

\* What is accepted is a detection, and its evidence is sound.
SoundnessInv ==
  /\ box \in [Frame -> Person \union {None}] /\ DOMAIN association = Frame
  /\ phase \in {"forward", "backward"} => reference \in Person
  /\ EvidenceIsSound

\* The selection.
LEMMA SelectIsSound ==
  ASSUME AnalysisInv, SoundnessInv, Select PROVE SoundnessInv'
PROOF
<1>1. /\ job' = job /\ phase = "decode" /\ job \in Job /\ job.time < DurationMs(video)
      /\ i \in 0 .. video.frames /\ i \notin Frame
  BY DEF AnalysisInv, LoopInv, Select
<1>2. Frame' = Frame
  BY <1>1, SameJob
<1>3. /\ video.frames \in Nat /\ Frame = 0 .. video.frames - 1 /\ Selected \in Frame
      /\ IsSampled(Selected) /\ job.tap \in Int
  BY <1>1, FrameFacts, SelectedIsFrame, JobFacts
<1>4. seen[Selected] \in Seq(Person)
  BY <1>1, <1>3 DEF AnalysisInv, SeenInv
<1> DEFINE target == SelectTarget(seen[Selected], job.tap)
           e == SelectionEvidence(seen[Selected], job.tap)
<1>5. target \in Person \union {None} /\ Sound(e, target)
  BY <1>3, <1>4, TargetIs, SelectionIsSound
<1>6. CASE target = None
  <2>1. phase' = "failed" /\ box' = box /\ association' = association
    BY <1>6 DEF Select
  <2> QED
    BY <1>2, <2>1 DEF SoundnessInv, EvidenceIsSound
<1>7. CASE target # None
  <2>1. /\ box' = [box EXCEPT ![Selected] = target] /\ reference' = target
        /\ association' = [association EXCEPT ![Selected] = e]
    BY <1>7 DEF Select
  <2> HIDE DEF target, e
  <2>2. box' \in [Frame -> Person \union {None}] /\ reference' \in Person /\ DOMAIN association' = Frame
    BY <1>3, <1>5, <1>7, <2>1 DEF SoundnessInv
  <2>3. ASSUME NEW k \in Frame, association'[k] # None PROVE Sound(association'[k], box'[k])
    <3>1. CASE k = Selected
      <4>1. association'[k] = e /\ box'[k] = target
        BY <2>1, <3>1 DEF SoundnessInv
      <4> QED
        BY <1>5, <4>1
    <3>2. CASE k # Selected
      <4>1. association'[k] = association[k] /\ box'[k] = box[k]
        BY <2>1, <3>2 DEF SoundnessInv
      <4> QED
        BY <2>3, <4>1 DEF SoundnessInv, EvidenceIsSound
    <3> QED
      BY <3>1, <3>2
  <2> QED
    BY <1>2, <2>2, <2>3 DEF SoundnessInv, EvidenceIsSound
<1> QED
  BY <1>6, <1>7

\* An association.
LEMMA FollowIsSound ==
  ASSUME AnalysisInv, SoundnessInv, Follow PROVE SoundnessInv'
PROOF
<1>1. /\ job' = job /\ phase \in {"forward", "backward"} /\ phase' = phase /\ i \in Frame
      /\ job \in Job /\ job.time < DurationMs(video)
  BY DEF AnalysisInv, LoopInv, Follow
<1>2. Frame' = Frame
  BY <1>1, SameJob
<1>3. CASE seen[i] = None
  <2>1. box' = box /\ association' = association /\ reference' = reference
    BY <1>3 DEF Follow
  <2> QED
    BY <1>1, <1>2, <2>1 DEF SoundnessInv, EvidenceIsSound
<1>4. CASE seen[i] # None
  <2> DEFINE b == Associate(seen[i], reference)
             e == AssociationEvidence(seen[i], reference)
  <2>1. seen[i] \in Seq(Person) /\ reference \in Person
    BY <1>1, <1>4 DEF AnalysisInv, SeenInv, SoundnessInv
  <2>2. b \in Person \union {None} /\ Sound(e, b)
    BY <2>1, TargetIs, AssociationIsSound
  <2>3. /\ box' = [box EXCEPT ![i] = b] /\ association' = [association EXCEPT ![i] = e]
        /\ reference' = IF box'[i] # None THEN box'[i] ELSE reference
    BY <1>4 DEF Follow
  <2> HIDE DEF b, e
  <2>4. box'[i] = b /\ box' \in [Frame -> Person \union {None}] /\ DOMAIN association' = Frame
    BY <1>1, <2>2, <2>3 DEF SoundnessInv
  <2>5. reference' \in Person
    BY <2>1, <2>2, <2>3, <2>4
  <2>6. ASSUME NEW k \in Frame, association'[k] # None PROVE Sound(association'[k], box'[k])
    <3>1. CASE k = i
      <4>1. association'[k] = e /\ box'[k] = b
        BY <2>3, <2>4, <3>1 DEF SoundnessInv
      <4> QED
        BY <2>2, <4>1
    <3>2. CASE k # i
      <4>1. association'[k] = association[k] /\ box'[k] = box[k]
        BY <2>3, <3>2 DEF SoundnessInv
      <4> QED
        BY <2>6, <4>1 DEF SoundnessInv, EvidenceIsSound
    <3> QED
      BY <3>1, <3>2
  <2> QED
    BY <1>2, <2>4, <2>5, <2>6 DEF SoundnessInv, EvidenceIsSound
<1> QED
  BY <1>3, <1>4

\* All other steps leave boxes and evidence as they are, and either pass starts from the
\* selected box.
LEMMA ElsewhereIsSound ==
  ASSUME AnalysisInv, SoundnessInv,
         \/ ReadFrame \/ ReadFails \/ Turn \/ Measure \/ Hold \/ PlanFails
         \/ Report \/ Count \/ EnterReview \/ Warn \/ UNCHANGED analysisVars
  PROVE  SoundnessInv'
PROOF
<1>1. job' = job /\ box' = box /\ association' = association
  BY DEF ReadFrame, ReadFails, Turn, Measure, Hold, PlanFails, Report, Count, EnterReview, Warn,
         analysisVars, results
<1>2. Frame' = Frame
  BY <1>1, SameJob
<1>3. \/ phase' \notin {"forward", "backward"}
      \/ phase' = phase /\ reference' = reference
      \/ phase = "forward" /\ reference' = box[Selected]
  BY DEF ReadFrame, ReadFails, Turn, Measure, Hold, PlanFails, Report, Count, EnterReview, NextPhase,
         Warn, analysisVars
<1>4. phase = "forward" => box[Selected] \in Person
  <2>1. job \in Job /\ job.time < DurationMs(video) => Selected \in Frame
    BY SelectedIsFrame
  <2> QED
    BY <2>1 DEF AnalysisInv, LoopInv, FollowInv, SoundnessInv
<1> QED
  BY <1>1, <1>2, <1>3, <1>4 DEF SoundnessInv, EvidenceIsSound

\* AssociationEvidence and RawFrameObservation never refuse what associate and
\* select_target_with_association give them, however many people the detector finds, and
\* the evidence shows what was decided although it is cut.
THEOREM EvidenceExplainsSelection == AnalysisSpec => []EvidenceIsSound
PROOF
<1>1. AnalysisInit => SoundnessInv
  BY DEF AnalysisInit, SoundnessInv, EvidenceIsSound
<1>2. AnalysisInv /\ SoundnessInv /\ [AnalysisNext]_analysisVars => SoundnessInv'
  BY SelectIsSound, FollowIsSound, ElsewhereIsSound DEF AnalysisNext
<1>3. SoundnessInv => EvidenceIsSound
  BY DEF SoundnessInv
<1> QED
  BY <1>1, <1>2, <1>3, AnalysisInvariant, PTL DEF AnalysisSpec

-----------------------------------------------------------------------------
(* Times.                                                                  *)

\* Rounding keeps the order.
LEMMA RoundOrder ==
  ASSUME NEW m \in Nat, NEW n \in Nat, m <= n, NEW d \in Nat \ {0}
  PROVE  Round(m, d) \in Nat /\ Round(n, d) \in Nat /\ Round(m, d) <= Round(n, d)
PROOF
<1> DEFINE q == m \div d
           r == m % d
           s == n \div d
           u == n % d
<1>1. /\ q \in Int /\ r \in Int /\ m = d * q + r /\ 0 <= r /\ r < d
      /\ s \in Int /\ u \in Int /\ n = d * s + u /\ 0 <= u /\ u < d
  BY Division
<1>2. q >= 0 /\ q <= s
  <2>1. 0 * d <= m /\ 0 \in Int
    OBVIOUS
  <2>2. q * d <= n
    <3>1. q * d = d * q
      BY <1>1
    <3>2. d * q \in Int
      BY <1>1
    <3> QED
      BY <1>1, <3>1, <3>2
  <2> QED
    BY <1>1, <2>1, <2>2, QuotientBound
<1>3. /\ Round(m, d) = IF 2 * r < d \/ (2 * r = d /\ q % 2 = 0) THEN q ELSE q + 1
      /\ Round(n, d) = IF 2 * u < d \/ (2 * u = d /\ s % 2 = 0) THEN s ELSE s + 1
  BY DEF Round
<1>4. q = s => r <= u
  BY <1>1
<1> HIDE DEF q, r, s, u
<1> QED
  BY <1>1, <1>2, <1>3, <1>4

\* The frames are in order, and none is later than the end of the clip.
LEMMA TimestampOrder ==
  ASSUME job \in Job
  PROVE  /\ \A k \in Nat : Timestamp(video, k) \in Nat
         /\ \A k, l \in Nat : k <= l => Timestamp(video, k) <= Timestamp(video, l)
         /\ \A k \in Nat : k <= video.frames => Timestamp(video, k) <= DurationMs(video)
         /\ DurationMs(video) \in Nat
PROOF
<1>1. video.frames \in Nat /\ video.num \in Nat \ {0} /\ video.den \in Nat
  BY JobFacts
<1>2. ASSUME NEW k \in Nat, NEW l \in Nat, k <= l
      PROVE  1000 * k * video.den \in Nat /\ 1000 * k * video.den <= 1000 * l * video.den
  <2>1. video.den * (1000 * k) <= video.den * (1000 * l)
    BY <1>1, <1>2, Product
  <2>2. /\ video.den * (1000 * k) = 1000 * k * video.den
        /\ video.den * (1000 * l) = 1000 * l * video.den
        /\ 1000 * k * video.den \in Nat
    BY <1>1
  <2> QED
    BY <2>1, <2>2
<1>3. \A k, l \in Nat : k <= l =>
        /\ Timestamp(video, k) \in Nat /\ Timestamp(video, l) \in Nat
        /\ Timestamp(video, k) <= Timestamp(video, l)
  <2> SUFFICES ASSUME NEW k \in Nat, NEW l \in Nat, k <= l
               PROVE  /\ Timestamp(video, k) \in Nat /\ Timestamp(video, l) \in Nat
                      /\ Timestamp(video, k) <= Timestamp(video, l)
    OBVIOUS
  <2>1. 1000 * k * video.den \in Nat /\ 1000 * l * video.den \in Nat
    BY <1>2
  <2>2. 1000 * k * video.den <= 1000 * l * video.den
    BY <1>2
  <2> QED
    BY <1>1, <2>1, <2>2, RoundOrder DEF Timestamp
<1>4. DurationMs(video) = Timestamp(video, video.frames)
  BY DEF DurationMs, Timestamp
<1> QED
  BY <1>1, <1>3, <1>4

-----------------------------------------------------------------------------
(* The gaps of the report.                                                 *)

\* Frames a to b - 1 are a gap of the first n frames.
IsGap(a, b, n) ==
  /\ a \in 0 .. n - 1 /\ b \in 1 .. n /\ a < b
  /\ \A k \in a .. b - 1 : guide[k] = None
  /\ a > 0 => guide[a - 1] # None
  /\ b < n => guide[b] # None

GapsUpTo(n) == {g \in (0 .. n - 1) \X (1 .. n) : IsGap(g[1], g[2], n)}

\* Those that were ended by a box.
Ended(n) == {g \in GapsUpTo(n) : g[2] < n}

Lasting(g) == Timestamp(video, g[2]) - Timestamp(video, g[1])

Longest(G) == Max({Lasting(g) : g \in G} \union {0})

\* The gaps are pairs.
LEMMA GapPairs ==
  ASSUME NEW n \in Nat
  PROVE  /\ \A g \in GapsUpTo(n) : /\ g = <<g[1], g[2]>> /\ IsGap(g[1], g[2], n)
                                   /\ g[1] \in 0 .. n - 1 /\ g[2] \in 1 .. n
         /\ \A a, b : IsGap(a, b, n) => <<a, b>> \in GapsUpTo(n)
         /\ IsFiniteSet(GapsUpTo(n))
PROOF
<1>1. ASSUME NEW g \in GapsUpTo(n)
      PROVE  /\ g = <<g[1], g[2]>> /\ IsGap(g[1], g[2], n)
             /\ g[1] \in 0 .. n - 1 /\ g[2] \in 1 .. n
  BY DEF GapsUpTo
<1>2. ASSUME NEW a, NEW b, IsGap(a, b, n) PROVE <<a, b>> \in GapsUpTo(n)
  <2>1. a \in 0 .. n - 1 /\ b \in 1 .. n
    BY <1>2 DEF IsGap
  <2> QED
    BY <1>2, <2>1 DEF GapsUpTo
<1>3. IsFiniteSet(GapsUpTo(n))
  <2>1. IsFiniteSet(0 .. n - 1) /\ IsFiniteSet(1 .. n)
    BY FS_Interval
  <2>2. IsFiniteSet((0 .. n - 1) \X (1 .. n))
    BY <2>1, FS_Product
  <2>3. GapsUpTo(n) \subseteq (0 .. n - 1) \X (1 .. n)
    BY DEF GapsUpTo
  <2> QED
    BY <2>2, <2>3, FS_Subset
<1> QED
  BY <1>1, <1>2, <1>3

\* A frame without a box before which there is one, or nothing, begins a gap.
LEMMA GapBegins ==
  ASSUME NEW n \in Nat, guide[n] = None, n > 0 => guide[n - 1] # None
  PROVE  /\ GapsUpTo(n + 1) = GapsUpTo(n) \union {<<n, n + 1>>}
         /\ <<n, n + 1>> \notin GapsUpTo(n)
         /\ Ended(n + 1) = Ended(n)
PROOF
<1>1. \A a, b : IsGap(a, b, n) => b < n
  <2> SUFFICES ASSUME NEW a, NEW b, IsGap(a, b, n), ~(b < n) PROVE FALSE
    OBVIOUS
  <2>1. a \in 0 .. n - 1 /\ b = n /\ n - 1 \in a .. b - 1 /\ n > 0
    BY DEF IsGap
  <2> QED
    BY <2>1 DEF IsGap
<1>2. \A a, b : IsGap(a, b, n + 1) <=> IsGap(a, b, n) \/ (a = n /\ b = n + 1)
  <2>1. ASSUME NEW a, NEW b, IsGap(a, b, n + 1) PROVE IsGap(a, b, n) \/ (a = n /\ b = n + 1)
    <3>1. a \in Int /\ b \in Int /\ 0 <= a /\ a < b /\ b <= n + 1
      BY <2>1 DEF IsGap
    <3>2. CASE b = n + 1
      <4>1. CASE a < n
        <5>1. n > 0 /\ n - 1 \in a .. b - 1
          BY <3>1, <3>2, <4>1
        <5> QED
          BY <2>1, <5>1 DEF IsGap
      <4> QED
        BY <3>1, <3>2, <4>1
    <3>3. CASE b < n + 1
      <4>1. guide[b] # None
        BY <2>1, <3>3 DEF IsGap
      <4>2. b < n
        BY <3>1, <3>3, <4>1
      <4> QED
        BY <2>1, <3>1, <4>1, <4>2 DEF IsGap
    <3> QED
      BY <3>1, <3>2, <3>3
  <2>2. ASSUME NEW a, NEW b, IsGap(a, b, n) PROVE IsGap(a, b, n + 1)
    BY <1>1, <2>2 DEF IsGap
  <2>3. IsGap(n, n + 1, n + 1)
    BY DEF IsGap
  <2> QED
    BY <2>1, <2>2, <2>3
<1>3. n + 1 \in Nat
  OBVIOUS
<1>4. GapsUpTo(n + 1) \subseteq GapsUpTo(n) \union {<<n, n + 1>>}
  <2> SUFFICES ASSUME NEW g \in GapsUpTo(n + 1) PROVE g \in GapsUpTo(n) \union {<<n, n + 1>>}
    OBVIOUS
  <2>1. g = <<g[1], g[2]>> /\ IsGap(g[1], g[2], n + 1)
    BY <1>3, GapPairs
  <2>2. IsGap(g[1], g[2], n) \/ g = <<n, n + 1>>
    BY <1>2, <2>1
  <2>3. IsGap(g[1], g[2], n) => g \in GapsUpTo(n)
    BY <2>1, GapPairs
  <2> QED
    BY <2>2, <2>3
<1>5. GapsUpTo(n) \union {<<n, n + 1>>} \subseteq GapsUpTo(n + 1)
  <2>1. \A g \in GapsUpTo(n) : g = <<g[1], g[2]>> /\ IsGap(g[1], g[2], n)
    BY GapPairs
  <2>2. \A g \in GapsUpTo(n) : <<g[1], g[2]>> \in GapsUpTo(n + 1)
    BY <1>2, <1>3, <2>1, GapPairs
  <2>3. <<n, n + 1>> \in GapsUpTo(n + 1)
    BY <1>2, <1>3, GapPairs
  <2> QED
    BY <2>1, <2>2, <2>3
<1>6. <<n, n + 1>> \notin GapsUpTo(n)
  BY DEF GapsUpTo
<1>7. \A g \in GapsUpTo(n) : g[2] < n /\ g[2] < n + 1
  BY <1>1, GapPairs
<1>8. ~(<<n, n + 1>>[2] < n + 1)
  OBVIOUS
<1> QED
  BY <1>4, <1>5, <1>6, <1>7, <1>8 DEF Ended

\* A frame without a box after another one lengthens its gap.
LEMMA GapGoesOn ==
  ASSUME NEW n \in Nat, guide[n] = None, NEW a \in Nat, <<a, n>> \in GapsUpTo(n)
  PROVE  /\ GapsUpTo(n + 1) = (GapsUpTo(n) \ {<<a, n>>}) \union {<<a, n + 1>>}
         /\ <<a, n + 1>> \notin GapsUpTo(n)
         /\ Ended(n + 1) = Ended(n)
PROOF
<1>0. n + 1 \in Nat
  OBVIOUS
<1>1. IsGap(a, n, n) /\ a < n
  BY GapPairs DEF IsGap
<1>2. \A c, b : IsGap(c, b, n) /\ ~(b < n) => c = a /\ b = n
  <2> SUFFICES ASSUME NEW c, NEW b, IsGap(c, b, n), ~(b < n) PROVE c = a /\ b = n
    OBVIOUS
  <2>1. c \in 0 .. n - 1 /\ b = n /\ \A k \in c .. n - 1 : guide[k] = None
    BY DEF IsGap
  <2>2. \A k \in a .. n - 1 : guide[k] = None
    BY <1>1 DEF IsGap
  <2>3. ~(c < a)
    <3>1. c < a => a > 0 /\ a - 1 \in c .. n - 1
      BY <1>1, <2>1
    <3> QED
      BY <1>1, <2>1, <3>1 DEF IsGap
  <2>4. ~(a < c)
    <3>1. a < c => c > 0 /\ c - 1 \in a .. n - 1
      BY <1>1, <2>1
    <3> QED
      BY <2>1, <2>2, <3>1 DEF IsGap
  <2> QED
    BY <2>1, <2>3, <2>4
<1>3. \A c, b : IsGap(c, b, n + 1) <=> (IsGap(c, b, n) /\ b < n) \/ (c = a /\ b = n + 1)
  <2>1. ASSUME NEW c, NEW b, IsGap(c, b, n + 1)
        PROVE  (IsGap(c, b, n) /\ b < n) \/ (c = a /\ b = n + 1)
    <3>1. c \in Int /\ b \in Int /\ 0 <= c /\ c < b /\ b <= n + 1
      BY <2>1 DEF IsGap
    <3>2. CASE b = n + 1
      <4>1. CASE c = n
        <5>1. n > 0 /\ guide[n - 1] # None
          BY <1>1, <2>1, <4>1 DEF IsGap
        <5>2. n - 1 \in a .. n - 1
          BY <1>1
        <5> QED
          BY <1>1, <5>1, <5>2 DEF IsGap
      <4>2. CASE c < n
        <5>1. \A k \in c .. n - 1 : guide[k] = None
          BY <2>1, <3>1, <3>2 DEF IsGap
        <5>2. c > 0 => guide[c - 1] # None
          BY <2>1 DEF IsGap
        <5>3. IsGap(c, n, n)
          BY <3>1, <4>2, <5>1, <5>2 DEF IsGap
        <5> QED
          BY <1>2, <3>2, <5>3
      <4> QED
        BY <3>1, <3>2, <4>1, <4>2
    <3>3. CASE b < n + 1
      <4>1. guide[b] # None
        BY <2>1, <3>3 DEF IsGap
      <4>2. b < n
        BY <3>1, <3>3, <4>1
      <4> QED
        BY <2>1, <3>1, <4>1, <4>2 DEF IsGap
    <3> QED
      BY <3>1, <3>2, <3>3
  <2>2. ASSUME NEW c, NEW b, IsGap(c, b, n), b < n PROVE IsGap(c, b, n + 1)
    BY <2>2 DEF IsGap
  <2>3. IsGap(a, n + 1, n + 1)
    BY <1>1 DEF IsGap
  <2> QED
    BY <2>1, <2>2, <2>3
<1>4. ASSUME NEW g \in GapsUpTo(n + 1) PROVE g \in (GapsUpTo(n) \ {<<a, n>>}) \union {<<a, n + 1>>}
  <2>1. g = <<g[1], g[2]>> /\ IsGap(g[1], g[2], n + 1)
    BY <1>0, GapPairs
  <2>2. CASE IsGap(g[1], g[2], n) /\ g[2] < n
    <3>1. g \in GapsUpTo(n)
      BY <2>1, <2>2, GapPairs
    <3>2. g # <<a, n>>
      BY <2>2
    <3> QED
      BY <3>1, <3>2
  <2>3. CASE g[1] = a /\ g[2] = n + 1
    BY <2>1, <2>3
  <2> QED
    BY <1>3, <2>1, <2>2, <2>3
<1>5. ASSUME NEW g \in GapsUpTo(n), g # <<a, n>> PROVE g \in GapsUpTo(n + 1) /\ g[2] < n
  <2>1. g = <<g[1], g[2]>> /\ IsGap(g[1], g[2], n)
    BY GapPairs
  <2>2. g[2] < n
    BY <1>2, <1>5, <2>1
  <2>3. IsGap(g[1], g[2], n + 1)
    BY <1>3, <2>1, <2>2
  <2> QED
    BY <1>0, <2>1, <2>2, <2>3, GapPairs
<1>6. <<a, n + 1>> \in GapsUpTo(n + 1)
  BY <1>0, <1>3, GapPairs
<1>7. <<a, n + 1>> \notin GapsUpTo(n)
  BY DEF GapsUpTo
<1>8. ~(<<a, n>>[2] < n) /\ ~(<<a, n + 1>>[2] < n + 1)
  OBVIOUS
<1>9. \A g : g \in Ended(n + 1) <=> g \in Ended(n)
  <2>1. \A g \in GapsUpTo(n) : g # <<a, n>> => g[2] < n + 1
    BY <1>5, GapPairs
  <2> QED
    BY <1>4, <1>5, <1>6, <1>8, <2>1 DEF Ended
<1> QED
  BY <1>4, <1>5, <1>6, <1>7, <1>9

\* A box ends the gap before it, if there is one.
LEMMA GapEnds ==
  ASSUME NEW n \in Nat, guide[n] # None
  PROVE  GapsUpTo(n + 1) = GapsUpTo(n) /\ Ended(n + 1) = GapsUpTo(n)
PROOF
<1>1. n + 1 \in Nat
  OBVIOUS
<1>2. \A a, b : IsGap(a, b, n + 1) <=> IsGap(a, b, n)
  <2>1. ASSUME NEW a, NEW b, IsGap(a, b, n + 1) PROVE IsGap(a, b, n)
    <3>1. a \in Int /\ b \in Int /\ 0 <= a /\ a < b /\ b <= n + 1
      BY <2>1 DEF IsGap
    <3>2. b # n + 1
      <4>1. b = n + 1 => n \in a .. b - 1
        BY <3>1
      <4> QED
        BY <2>1, <4>1 DEF IsGap
    <3>3. a \in 0 .. n - 1 /\ b \in 1 .. n
      BY <3>1, <3>2
    <3>4. b < n => guide[b] # None
      BY <2>1, <3>3 DEF IsGap
    <3>5. (a > 0 => guide[a - 1] # None) /\ \A k \in a .. b - 1 : guide[k] = None
      BY <2>1 DEF IsGap
    <3> QED
      BY <3>1, <3>3, <3>4, <3>5 DEF IsGap
  <2>2. ASSUME NEW a, NEW b, IsGap(a, b, n) PROVE IsGap(a, b, n + 1)
    <3>1. b = n \/ b < n
      BY <2>2 DEF IsGap
    <3> QED
      BY <2>2, <3>1 DEF IsGap
  <2> QED
    BY <2>1, <2>2
<1>3. ASSUME NEW g \in GapsUpTo(n + 1) PROVE g \in GapsUpTo(n)
  <2>1. g = <<g[1], g[2]>> /\ IsGap(g[1], g[2], n + 1)
    BY <1>1, GapPairs
  <2> QED
    BY <1>2, <2>1, GapPairs
<1>4. ASSUME NEW g \in GapsUpTo(n) PROVE g \in GapsUpTo(n + 1) /\ g[2] < n + 1
  <2>1. g = <<g[1], g[2]>> /\ IsGap(g[1], g[2], n) /\ g[2] \in 1 .. n
    BY GapPairs
  <2>2. IsGap(g[1], g[2], n + 1)
    BY <1>2, <2>1
  <2> QED
    BY <1>1, <2>1, <2>2, GapPairs
<1> QED
  BY <1>3, <1>4 DEF Ended

\* At most one gap is open.
LEMMA OneOpenGap ==
  ASSUME NEW n \in Nat, NEW a \in Nat, <<a, n>> \in GapsUpTo(n), NEW g \in GapsUpTo(n)
  PROVE  g = <<a, n>> \/ g[2] < n
PROOF
<1>1. g = <<g[1], g[2]>> /\ IsGap(g[1], g[2], n) /\ IsGap(a, n, n)
  BY GapPairs
<1>2. g[1] \in 0 .. n - 1 /\ g[2] \in 1 .. n /\ a \in 0 .. n - 1
  BY <1>1 DEF IsGap
<1>3. CASE g[2] = n
  <2>1. ~(g[1] < a)
    <3>1. g[1] < a => a > 0 /\ a - 1 \in g[1] .. n - 1
      BY <1>2
    <3> QED
      BY <1>1, <1>3, <3>1 DEF IsGap
  <2>2. ~(a < g[1])
    <3>1. a < g[1] => g[1] > 0 /\ g[1] - 1 \in a .. n - 1
      BY <1>2
    <3> QED
      BY <1>1, <3>1 DEF IsGap
  <2> QED
    BY <1>1, <1>2, <1>3, <2>1, <2>2
<1>4. CASE g[2] # n
  BY <1>2, <1>4
<1> QED
  BY <1>3, <1>4

\* A gap that ends makes the longest one longer, or does not.
LEMMA LongestGrows ==
  ASSUME job \in Job, NEW n \in Nat, NEW G \in SUBSET GapsUpTo(n), NEW g \in GapsUpTo(n)
  PROVE  Longest(G \union {g}) = Max({Longest(G), Lasting(g)})
PROOF
<1> DEFINE T(H) == {Lasting(h) : h \in H} \union {0}
<1>1. \A h \in GapsUpTo(n) : Lasting(h) \in 0 .. Timestamp(video, n)
  <2> SUFFICES ASSUME NEW h \in GapsUpTo(n) PROVE Lasting(h) \in 0 .. Timestamp(video, n)
    OBVIOUS
  <2>1. h[1] \in Nat /\ h[2] \in Nat /\ h[1] <= h[2] /\ h[2] <= n
    BY GapPairs DEF IsGap
  <2>2. /\ Timestamp(video, h[1]) \in Nat /\ Timestamp(video, h[2]) \in Nat
        /\ Timestamp(video, n) \in Nat
        /\ Timestamp(video, h[1]) <= Timestamp(video, h[2])
        /\ Timestamp(video, h[2]) <= Timestamp(video, n)
    BY <2>1, TimestampOrder
  <2> QED
    BY <2>2 DEF Lasting
<1>2. Timestamp(video, n) \in Nat
  BY TimestampOrder
<1>3. ASSUME NEW H, H \subseteq GapsUpTo(n)
      PROVE  Max(T(H)) \in T(H) /\ Max(T(H)) \in Int /\ \A y \in T(H) : y <= Max(T(H))
  <2>1. T(H) \subseteq 0 .. Timestamp(video, n) /\ T(H) # {}
    <3>1. \A h \in H : Lasting(h) \in 0 .. Timestamp(video, n)
      BY <1>1, <1>3
    <3>2. 0 \in 0 .. Timestamp(video, n)
      BY <1>2
    <3> QED
      BY ONLY <3>1, <3>2
  <2>2. IsFiniteSet(0 .. Timestamp(video, n))
    BY <1>2, FS_Interval
  <2> HIDE DEF T
  <2>3. IsFiniteSet(T(H)) /\ T(H) \subseteq Int
    <3>1. T(H) \in SUBSET (0 .. Timestamp(video, n))
      BY ONLY <2>1
    <3>2. 0 .. Timestamp(video, n) \subseteq Int
      BY <1>2
    <3> QED
      BY <2>2, <3>1, <3>2, FS_Subset
  <2> QED
    BY <2>1, <2>3, MaxIsGreatest
<1> DEFINE m == Max(T(G))
           k == Lasting(g)
           x == Max({m, k})
<1>4. m \in T(G) /\ m \in Int /\ \A y \in T(G) : y <= m
  BY <1>3
<1>5. k \in Int
  BY <1>1
<1>6. T(G \union {g}) = T(G) \union {k}
  OBVIOUS
<1> HIDE DEF T, m, k
<1>7. x = IF m <= k THEN k ELSE m
  <2>1. CASE m <= k
    <3>1. {m, k} \subseteq Int /\ k \in {m, k} /\ \A y \in {m, k} : y <= k
      BY <1>4, <1>5, <2>1
    <3> QED
      BY <2>1, <3>1, MaxIs
  <2>2. CASE ~(m <= k)
    <3>1. {m, k} \subseteq Int /\ m \in {m, k} /\ \A y \in {m, k} : y <= m
      BY <1>4, <1>5, <2>2
    <3> QED
      BY <2>2, <3>1, MaxIs
  <2> QED
    BY <2>1, <2>2
<1> HIDE DEF x
<1>8. /\ x \in T(G) \union {k} /\ x \in Int /\ \A y \in T(G) \union {k} : y <= x
  BY <1>4, <1>5, <1>7
<1>9. T(G) \union {k} \subseteq Int
  <2>1. \A y \in T(G) : y \in Int
    BY <1>1 DEF T
  <2> QED
    BY <1>5, <2>1
<1>10. Max(T(G) \union {k}) = x
  BY <1>8, <1>9, MaxIs
<1> QED
  BY <1>6, <1>10 DEF Longest, T, m, k, x

\* Before the report is made.
NoGap == [start |-> None, count |-> 0, longest |-> 0, unavailable |-> 0]

\* The report is that of the frames it has seen; a gap is open when the last of them has
\* no box.
Counted(n) ==
  /\ gap = [start |-> gap.start, count |-> gap.count, longest |-> gap.longest,
            unavailable |-> gap.unavailable]
  /\ gap.unavailable = Cardinality({k \in 0 .. n - 1 : guide[k] = None})
  /\ gap.count = Cardinality(GapsUpTo(n))
  /\ gap.longest = Longest(Ended(n))
  /\ IF n > 0 /\ guide[n - 1] = None
     THEN \E a \in Nat : <<a, n>> \in GapsUpTo(n) /\ gap.start = Timestamp(video, a)
     ELSE gap.start = None

GapInv ==
  /\ phase \in {"decode", "forward", "backward", "measure"} => gap = NoGap
  /\ phase = "report" => Counted(i)
  /\ ReportsGaps

\* The report of no frame.
LEMMA NothingCounted == gap = NoGap => Counted(0)
PROOF
<1> SUFFICES ASSUME gap = NoGap PROVE Counted(0)
  OBVIOUS
<1>1. GapsUpTo(0) = {} /\ Ended(0) = {} /\ {k \in 0 .. 0 - 1 : guide[k] = None} = {}
  BY DEF GapsUpTo, Ended
<1>2. Longest({}) = 0
  <2>1. {Lasting(g) : g \in {}} \union {0} = {0}
    OBVIOUS
  <2>2. Max({0}) = 0
    BY MaxIs
  <2> QED
    BY <2>1, <2>2 DEF Longest
<1>3. Cardinality({}) = 0
  BY FS_EmptySet
<1> QED
  BY <1>1, <1>2, <1>3 DEF Counted, NoGap

\* A gap is open when the last frame has no box.
LEMMA GapOpen ==
  ASSUME job \in Job, NEW n \in Nat, Counted(n)
  PROVE  gap.start = None <=> ~(n > 0 /\ guide[n - 1] = None)
PROOF
<1>1. \A a \in Nat : Timestamp(video, a) # None
  BY TimestampOrder, AnalysisAssumption
<1> QED
  BY <1>1 DEF Counted

\* The longest gap so far, if the open one ended now.
LEMMA LongestSoFar ==
  ASSUME job \in Job, NEW n \in Nat, Counted(n)
  PROVE  Longest(GapsUpTo(n)) = IF gap.start = None THEN gap.longest
                                ELSE Max({gap.longest, Timestamp(video, n) - gap.start})
PROOF
<1>1. CASE gap.start = None
  <2>1. ASSUME NEW g \in GapsUpTo(n) PROVE g[2] < n
    <3>1. g[1] \in 0 .. n - 1 /\ g[2] \in 1 .. n /\ IsGap(g[1], g[2], n)
      BY GapPairs
    <3>2. g[2] = n => n > 0 /\ n - 1 \in g[1] .. g[2] - 1
      BY <3>1
    <3>3. g[2] # n
      BY <1>1, <3>1, <3>2, GapOpen DEF IsGap
    <3> QED
      BY <3>1, <3>3
  <2>2. Ended(n) = GapsUpTo(n)
    BY <2>1 DEF Ended
  <2> QED
    BY <1>1, <2>2 DEF Counted
<1>2. CASE gap.start # None
  <2>1. PICK a \in Nat : <<a, n>> \in GapsUpTo(n) /\ gap.start = Timestamp(video, a)
    BY <1>2, GapOpen DEF Counted
  <2>2. Lasting(<<a, n>>) = Timestamp(video, n) - gap.start
    BY <2>1 DEF Lasting
  <2>3. Longest(Ended(n) \union {<<a, n>>}) = Max({Longest(Ended(n)), Lasting(<<a, n>>)})
    <3>1. Ended(n) \in SUBSET GapsUpTo(n)
      BY DEF Ended
    <3> QED
      BY <2>1, <3>1, LongestGrows
  <2>4. GapsUpTo(n) = Ended(n) \union {<<a, n>>}
    BY <2>1, OneOpenGap DEF Ended
  <2> QED
    BY <1>2, <2>2, <2>3, <2>4 DEF Counted
<1> QED
  BY <1>1, <1>2

\* One more frame is counted.
LEMMA CountIs ==
  ASSUME job \in Job, NEW n \in Nat, Counted(n), Count, i = n
  PROVE  Counted(n + 1)'
PROOF
<1>1. guide' = guide /\ video' = video /\ Now = Timestamp(video, n)
  BY DEF Count, results, video, Now
<1>2. /\ GapsUpTo(n + 1)' = GapsUpTo(n + 1) /\ Ended(n + 1)' = Ended(n + 1)
      /\ Longest(Ended(n + 1))' = Longest(Ended(n + 1))
  BY <1>1 DEF GapsUpTo, Ended, IsGap, Longest, Lasting
<1>3. /\ IsFiniteSet(GapsUpTo(n)) /\ Cardinality(GapsUpTo(n)) \in Nat
      /\ Timestamp(video, n) \in Nat /\ None \notin Nat
  BY GapPairs, FS_CardinalityType, TimestampOrder, AnalysisAssumption
<1> DEFINE U(m) == {k \in 0 .. m - 1 : guide[k] = None}
<1>4. IsFiniteSet(U(n)) /\ n \notin U(n)
  <2>1. IsFiniteSet(0 .. n - 1)
    BY FS_Interval
  <2> QED
    BY <2>1, FS_Subset
<1>5. gap.start = None <=> ~(n > 0 /\ guide[n - 1] = None)
  BY GapOpen
<1>6. CASE guide[n] = None
  <2>1. /\ gap'.unavailable = gap.unavailable + 1 /\ gap'.longest = gap.longest
        /\ gap'.count = IF gap.start = None THEN gap.count + 1 ELSE gap.count
        /\ gap'.start = IF gap.start = None THEN Timestamp(video, n) ELSE gap.start
        /\ gap' = [start |-> gap'.start, count |-> gap'.count, longest |-> gap'.longest,
                   unavailable |-> gap'.unavailable]
    BY <1>1, <1>6 DEF Count, Counted
  <2>2. gap'.unavailable = Cardinality(U(n + 1))
    <3>1. U(n + 1) = U(n) \union {n}
      BY <1>6
    <3>2. Cardinality(U(n) \union {n}) = Cardinality(U(n)) + 1
      <4> HIDE DEF U
      <4> QED
        BY <1>4, FS_AddElement
    <3> QED
      BY <2>1, <3>1, <3>2 DEF Counted
  <2>3. CASE gap.start = None
    <3>1. /\ GapsUpTo(n + 1) = GapsUpTo(n) \union {<<n, n + 1>>}
          /\ <<n, n + 1>> \notin GapsUpTo(n) /\ Ended(n + 1) = Ended(n)
      BY <1>5, <1>6, <2>3, GapBegins
    <3>2. gap'.count = Cardinality(GapsUpTo(n + 1))
      BY <1>3, <2>1, <2>3, <3>1, FS_AddElement DEF Counted
    <3>3. <<n, n + 1>> \in GapsUpTo(n + 1) /\ gap'.start = Timestamp(video, n)
      BY <2>1, <2>3, <3>1
    <3> QED
      BY <1>1, <1>2, <1>6, <2>1, <2>2, <3>1, <3>2, <3>3 DEF Counted
  <2>4. CASE gap.start # None
    <3>1. PICK a \in Nat : <<a, n>> \in GapsUpTo(n) /\ gap.start = Timestamp(video, a)
      BY <1>5, <2>4 DEF Counted
    <3>2. /\ GapsUpTo(n + 1) = (GapsUpTo(n) \ {<<a, n>>}) \union {<<a, n + 1>>}
          /\ <<a, n + 1>> \notin GapsUpTo(n) /\ Ended(n + 1) = Ended(n)
      BY <1>6, <3>1, GapGoesOn
    <3>3. Cardinality(GapsUpTo(n + 1)) = Cardinality(GapsUpTo(n))
      <4>1. /\ IsFiniteSet(GapsUpTo(n) \ {<<a, n>>})
            /\ Cardinality(GapsUpTo(n) \ {<<a, n>>}) = Cardinality(GapsUpTo(n)) - 1
        BY <1>3, <3>1, FS_RemoveElement
      <4>2. <<a, n + 1>> \notin GapsUpTo(n) \ {<<a, n>>}
        BY <3>2
      <4>3. Cardinality((GapsUpTo(n) \ {<<a, n>>}) \union {<<a, n + 1>>}) = (Cardinality(GapsUpTo(n)) - 1) + 1
        BY <4>1, <4>2, FS_AddElement
      <4>4. Cardinality(GapsUpTo(n + 1)) = (Cardinality(GapsUpTo(n)) - 1) + 1
        BY <3>2, <4>3
      <4> QED
        BY <1>3, <4>4
    <3>4. <<a, n + 1>> \in GapsUpTo(n + 1) /\ gap'.start = Timestamp(video, a)
      BY <2>1, <2>4, <3>1, <3>2
    <3> QED
      BY <1>1, <1>2, <1>6, <2>1, <2>2, <2>4, <3>2, <3>3, <3>4 DEF Counted
  <2> QED
    BY <2>3, <2>4
<1>7. CASE guide[n] # None
  <2>1. /\ gap'.unavailable = gap.unavailable /\ gap'.count = gap.count /\ gap'.start = None
        /\ gap'.longest = IF gap.start = None THEN gap.longest
                          ELSE Max({gap.longest, Timestamp(video, n) - gap.start})
        /\ gap' = [start |-> gap'.start, count |-> gap'.count, longest |-> gap'.longest,
                   unavailable |-> gap'.unavailable]
    BY <1>1, <1>7 DEF Count, Counted
  <2>2. U(n + 1) = U(n)
    BY <1>7
  <2>3. GapsUpTo(n + 1) = GapsUpTo(n) /\ Ended(n + 1) = GapsUpTo(n)
    BY <1>7, GapEnds
  <2>4. gap'.longest = Longest(GapsUpTo(n))
    BY <2>1, LongestSoFar
  <2>5. /\ gap'.unavailable = Cardinality(U(n + 1))
        /\ gap'.count = Cardinality(GapsUpTo(n + 1)) /\ gap'.longest = Longest(Ended(n + 1))
    BY <2>1, <2>2, <2>3, <2>4 DEF Counted
  <2>6. U(n + 1) = {k \in 0 .. (n + 1) - 1 : guide'[k] = None} /\ guide'[(n + 1) - 1] # None
    BY <1>1, <1>7
  <2> HIDE DEF U
  <2> QED
    BY <1>2, <2>1, <2>5, <2>6 DEF Counted
<1> QED
  BY <1>6, <1>7

\* At the end of the loop the open gap lasts to the end of the clip.
LEMMA ReportIs ==
  ASSUME job \in Job, Counted(video.frames), gap' = CloseGap, guide' = guide, job' = job
  PROVE  ReportsGaps'
PROOF
<1>1. video' = video /\ video.frames \in Nat /\ Frame' = Frame /\ Frame = 0 .. video.frames - 1
  BY JobFacts DEF video, Frame
<1>2. Gaps' = GapsUpTo(video.frames)
  BY <1>1 DEF Gaps, GapsUpTo, IsGap
<1>3. Longest(GapsUpTo(video.frames)) =
        Max({Timestamp(video, g[2]) - Timestamp(video, g[1]) : g \in GapsUpTo(video.frames)} \union {0})
  BY DEF Longest, Lasting
<1>4. /\ gap'.count = gap.count /\ gap'.unavailable = gap.unavailable
      /\ gap'.longest = IF gap.start = None THEN gap.longest
                        ELSE Max({gap.longest, Timestamp(video, video.frames) - gap.start})
  BY DEF CloseGap, Counted
<1>5. gap'.longest = Longest(GapsUpTo(video.frames))
  BY <1>1, <1>4, LongestSoFar
<1>6. gap'.unavailable = Cardinality({k \in Frame : guide[k] = None})
  BY <1>1, <1>4 DEF Counted
<1>7. gap'.count = Cardinality(GapsUpTo(video.frames))
  BY <1>4 DEF Counted
<1> QED
  BY <1>1, <1>2, <1>3, <1>5, <1>6, <1>7 DEF ReportsGaps

\* Every step keeps the report true.
LEMMA GapKeeps ==
  ASSUME AnalysisInv, GapInv, [AnalysisNext]_analysisVars PROVE GapInv'
PROOF
<1>1. job \in Job /\ job.time < DurationMs(video)
  BY DEF AnalysisInv, LoopInv
<1>2. video.frames \in Nat /\ Frame = 0 .. video.frames - 1
  BY <1>1, FrameFacts
<1>3. CASE Report
  <2>1. phase = "measure" /\ phase' = "report" /\ i' = 0 /\ gap' = gap /\ guide' = guide /\ job' = job
    BY <1>3 DEF Report, results
  <2>2. gap = NoGap
    BY <2>1 DEF GapInv
  <2>3. video' = video /\ gap' = NoGap
    BY <2>1, <2>2 DEF video
  <2>4. Counted(0)
    BY <2>2, NothingCounted
  <2>5. Counted(0)'
    <3>1. \A n : Counted(n)' <=> Counted(n)
      BY <2>1, <2>3 DEF Counted, GapsUpTo, IsGap, Ended, Longest, Lasting
    <3> QED
      BY <2>4, <3>1
  <2>6. phase' = "report" => Counted(i)'
    BY <2>1, <2>5 DEF Counted
  <2> QED
    BY <2>1, <2>6 DEF GapInv, ReportsGaps
<1>4. CASE Count
  <2>1. phase = "report" /\ i \in Nat /\ phase' = "report" /\ i' = i + 1
    BY <1>2, <1>4 DEF Count
  <2>2. PICK n \in Nat : n = i
    BY <2>1
  <2>3. Counted(n)
    BY <2>1, <2>2 DEF GapInv
  <2>4. Counted(n + 1)'
    BY <1>1, <1>4, <2>2, <2>3, CountIs
  <2>5. i' = n + 1
    BY <2>1, <2>2
  <2>6. Counted(i)'
    BY <2>4, <2>5 DEF Counted
  <2> QED
    BY <2>1, <2>6 DEF GapInv, ReportsGaps
<1>5. CASE EnterReview /\ phase = "report"
  <2>1. phase' = "detection" /\ gap' = CloseGap /\ guide' = guide /\ job' = job /\ i \notin Frame
    BY <1>5 DEF EnterReview, NextPhase, results
  <2>2. i = video.frames
    BY <1>2, <1>5, <2>1 DEF AnalysisInv, LoopInv
  <2>3. Counted(video.frames)
    BY <1>5, <2>2 DEF GapInv
  <2>4. ReportsGaps'
    BY <1>1, <2>1, <2>3, ReportIs
  <2> QED
    BY <2>1, <2>4 DEF GapInv
<1>6. CASE EnterReview /\ phase # "report"
  <2>1. phase' \in {"framing", "done"}
    BY <1>6 DEF EnterReview, NextPhase
  <2> QED
    BY <2>1 DEF GapInv, ReportsGaps
<1>7. CASE \/ ReadFrame \/ ReadFails \/ Select \/ Follow \/ Turn \/ Measure \/ Hold \/ PlanFails
  <2>1. /\ gap' = gap /\ phase \in {"decode", "forward", "backward", "measure"}
        /\ phase' \in {"decode", "forward", "backward", "measure", "failed"}
    BY <1>7 DEF ReadFrame, ReadFails, Select, Follow, Turn, Measure, Hold, PlanFails
  <2> QED
    BY <2>1 DEF GapInv, ReportsGaps, NoGap
<1>8. CASE Warn \/ UNCHANGED analysisVars
  <2>1. /\ gap' = gap /\ guide' = guide /\ job' = job /\ phase' = phase
        /\ phase \in {"detection", "framing"} \/ i' = i
    BY <1>8 DEF Warn, analysisVars, results
  <2>2. video' = video /\ Frame' = Frame
    BY <1>1, <2>1, SameJob
  <2>3. ReportsGaps' <=> ReportsGaps
    BY <2>1, <2>2 DEF ReportsGaps, Gaps
  <2>4. \A n : Counted(n)' <=> Counted(n)
    BY <2>1, <2>2 DEF Counted, GapsUpTo, IsGap, Ended, Longest, Lasting
  <2> QED
    BY <2>1, <2>3, <2>4 DEF GapInv, NoGap
<1> QED
  BY <1>3, <1>4, <1>5, <1>6, <1>7, <1>8 DEF AnalysisNext

-----------------------------------------------------------------------------
(* Warnings.                                                               *)

Marks == {"missed", "unavailable", "outside"}

\* The planner let these frames through: no two have the same millisecond.
Increasing(n) == \A k \in 1 .. n - 1 : Timestamp(video, k - 1) < Timestamp(video, k)

\* The mark l is on since its first warned frame in a row.
OpenAt(l, n) ==
  \E s \in 0 .. n - 1 : active[l] = Timestamp(video, s) /\ \A k \in s .. n - 1 : Warned(l, k)

\* The interval w is of a row of warned frames that has ended.
Closed(w, n) ==
  \E s, e \in 0 .. n - 1 :
    /\ s < e /\ w = [label |-> w.label, start |-> Timestamp(video, s), end |-> Timestamp(video, e)]
    /\ \A k \in s .. e - 1 : Warned(w.label, k)
    /\ ~Warned(w.label, e)

\* The frame k is under the mark l that is on, or in an interval of it.
Covered(l, k) ==
  \/ active[l] # None /\ active[l] <= Timestamp(video, k)
  \/ \E w \in warnings : w.label = l /\ w.start <= Timestamp(video, k) /\ Timestamp(video, k) < w.end

\* The review of the first n frames of a phase.
Reviewed(n) ==
  /\ On \subseteq Labels(phase)
  /\ \A l \in On : OpenAt(l, n)
  /\ IsFiniteSet(warnings)
  /\ \A w \in warnings : w.label \in Labels(phase) /\ Closed(w, n)
  /\ \A l \in Labels(phase), k \in 0 .. n - 1 : Warned(l, k) => Covered(l, k)

WarnInv ==
  /\ DOMAIN active = Marks
  /\ phase = "measure" => Increasing(i)
  /\ phase \in {"report", "detection", "framing"} => Increasing(video.frames)
  /\ phase \in {"detection", "framing"} => Reviewed(i)

\* Times that increase from frame to frame are in the order of the frames.
LEMMA OrderedTimes ==
  ASSUME job \in Job, NEW n \in Nat, Increasing(n), NEW a \in 0 .. n - 1, NEW b \in 0 .. n - 1
  PROVE  /\ Timestamp(video, a) \in Nat /\ Timestamp(video, b) \in Nat
         /\ a < b <=> Timestamp(video, a) < Timestamp(video, b)
         /\ a <= b <=> Timestamp(video, a) <= Timestamp(video, b)
         /\ a = b <=> Timestamp(video, a) = Timestamp(video, b)
PROOF
<1>1. \A c, d \in 0 .. n - 1 : c < d => Timestamp(video, c) < Timestamp(video, d)
  <2> SUFFICES ASSUME NEW c \in 0 .. n - 1, NEW d \in 0 .. n - 1, c < d
               PROVE  Timestamp(video, c) < Timestamp(video, d)
    OBVIOUS
  <2>1. c \in Nat /\ d - 1 \in Nat /\ d \in Nat /\ d \in 1 .. n - 1 /\ c <= d - 1
    OBVIOUS
  <2>2. Timestamp(video, c) <= Timestamp(video, d - 1)
    BY <2>1, TimestampOrder
  <2>3. Timestamp(video, d - 1) < Timestamp(video, d)
    BY <2>1 DEF Increasing
  <2>4. Timestamp(video, c) \in Nat /\ Timestamp(video, d - 1) \in Nat /\ Timestamp(video, d) \in Nat
    BY <2>1, TimestampOrder
  <2> QED
    BY <2>2, <2>3, <2>4
<1>2. Timestamp(video, a) \in Nat /\ Timestamp(video, b) \in Nat
  BY TimestampOrder
<1>3. /\ a < b => Timestamp(video, a) < Timestamp(video, b)
      /\ b < a => Timestamp(video, b) < Timestamp(video, a)
  BY <1>1
<1>4. a \in Int /\ b \in Int
  OBVIOUS
<1> QED
  BY <1>2, <1>3, <1>4

\* Which frames are warned about does not change any more.
LEMMA SameWarned ==
  ASSUME job' = job, box' = box, guide' = guide, outside' = outside
  PROVE  /\ \A l, k : Warned(l, k)' <=> Warned(l, k)
         /\ \A k : Timestamp(video, k)' = Timestamp(video, k)
         /\ video' = video
PROOF
<1>1. video' = video /\ \A k : IsSampled(k)' = IsSampled(k)
  BY SameJob
<1> QED
  BY <1>1 DEF Warned

\* What one step does to the marks.
LEMMA WarnIs ==
  ASSUME WarnInv, Warn, NEW n \in Nat, i = n, job \in Job,
         NEW current, current = {l \in Labels(phase) : Warned(l, n)}
  PROVE  /\ \A l \in Marks : active'[l] = IF l \notin current THEN None
                                          ELSE IF active[l] = None THEN Timestamp(video, n) ELSE active[l]
         /\ DOMAIN active' = Marks
         /\ On' = current
         /\ warnings' = warnings \union {Interval(l, Timestamp(video, n)) : l \in On \ current}
         /\ phase' = phase /\ i' = n + 1
         /\ job' = job /\ box' = box /\ guide' = guide /\ outside' = outside
PROOF
<1>1. /\ warnings' = warnings \union {Interval(l, Timestamp(video, n)) : l \in On \ current}
      /\ active' = [l \in DOMAIN active |-> IF l \notin current THEN None
                                            ELSE IF active[l] = None THEN Timestamp(video, n) ELSE active[l]]
      /\ phase' = phase /\ i' = n + 1
      /\ job' = job /\ box' = box /\ guide' = guide /\ outside' = outside
  BY DEF Warn, Now, results
<1>2. DOMAIN active = Marks
  BY DEF WarnInv
<1>3. DOMAIN active' = Marks
  BY <1>1, <1>2
<1>4. \A l \in Marks : active'[l] = IF l \notin current THEN None
                                    ELSE IF active[l] = None THEN Timestamp(video, n) ELSE active[l]
  BY <1>1, <1>2
<1>5. Timestamp(video, n) # None
  BY TimestampOrder, AnalysisAssumption
<1>6. current \subseteq Marks
  BY DEF Labels, Marks
<1>7. On' = current
  BY <1>3, <1>4, <1>5, <1>6 DEF On
<1> QED
  BY <1>1, <1>3, <1>4, <1>7

\* The intervals of a frame are few.
LEMMA FewIntervals ==
  ASSUME NEW L, L \subseteq Marks, NEW t
  PROVE  IsFiniteSet({Interval(l, t) : l \in L})
PROOF
<1> DEFINE a == Interval("missed", t)
           b == Interval("unavailable", t)
           c == Interval("outside", t)
           K == (({} \union {a}) \union {b}) \union {c}
<1>1. IsFiniteSet(K)
  <2>1. IsFiniteSet({} \union {a})
    BY FS_EmptySet, FS_AddElement
  <2>2. IsFiniteSet(({} \union {a}) \union {b})
    BY <2>1, FS_AddElement
  <2> QED
    BY <2>2, FS_AddElement
<1>2. {Interval(l, t) : l \in L} \subseteq K
  BY DEF Marks
<1> HIDE DEF K
<1> QED
  BY <1>1, <1>2, FS_Subset

\* One more frame is reviewed.
LEMMA ReviewGoesOn ==
  ASSUME WarnInv, Warn, NEW n \in Frame, i = n, job \in Job, job.time < DurationMs(video)
  PROVE  Reviewed(n + 1)'
PROOF
<1> DEFINE current == {l \in Labels(phase) : Warned(l, n)}
           t == Timestamp(video, n)
<1>1. n \in Nat /\ video.frames \in Nat /\ n < video.frames
  BY FrameFacts
<1>2. phase \in {"detection", "framing"} /\ Increasing(video.frames) /\ Reviewed(n)
  BY DEF Warn, WarnInv
<1>3. /\ \A l \in Marks : active'[l] = IF l \notin current THEN None
                                       ELSE IF active[l] = None THEN t ELSE active[l]
      /\ On' = current /\ DOMAIN active' = Marks /\ DOMAIN active = Marks
      /\ warnings' = warnings \union {Interval(l, t) : l \in On \ current}
      /\ phase' = phase
      /\ job' = job /\ box' = box /\ guide' = guide /\ outside' = outside
  BY <1>1, WarnIs DEF WarnInv
<1>4. /\ \A l, k : Warned(l, k)' <=> Warned(l, k)
      /\ \A k : Timestamp(video, k)' = Timestamp(video, k)
  BY <1>3, SameWarned
<1>5. Labels(phase)' = Labels(phase) /\ Labels(phase) \subseteq Marks
  BY <1>3 DEF Labels, Marks
<1>6. current \subseteq Marks /\ current \subseteq Labels(phase) /\ \A l \in current : Warned(l, n)
  BY <1>5
<1>7. \A l \in Labels(phase) \ current : ~Warned(l, n)
  OBVIOUS
<1>8. On \subseteq Labels(phase) /\ \A l \in On : active[l] # None
  BY <1>2 DEF Reviewed, On
<1>9. \A a, b \in 0 .. n : /\ Timestamp(video, a) \in Nat /\ Timestamp(video, b) \in Nat
                           /\ a < b <=> Timestamp(video, a) < Timestamp(video, b)
  <2>1. 0 .. n \subseteq 0 .. video.frames - 1
    BY <1>1
  <2> QED
    BY <1>1, <1>2, <2>1, OrderedTimes
<1> HIDE DEF current
<1>10. On' \subseteq Labels(phase)'
  BY <1>3, <1>5, <1>6
<1>11. ASSUME NEW l \in On' PROVE OpenAt(l, n + 1)'
  <2>1. l \in current /\ Warned(l, n) /\ l \in Labels(phase) /\ l \in Marks
    BY <1>3, <1>6, <1>11
  <2>2. CASE active[l] = None
    <3>1. active'[l] = t
      BY <1>3, <2>1, <2>2
    <3>2. n \in 0 .. (n + 1) - 1 /\ \A k \in n .. (n + 1) - 1 : k = n
      BY <1>1
    <3>3. \A k \in n .. (n + 1) - 1 : Warned(l, k)'
      BY <1>4, <2>1, <3>2
    <3>4. active'[l] = Timestamp(video, n)'
      BY <1>4, <3>1
    <3> QED
      BY <3>2, <3>3, <3>4 DEF OpenAt
  <2>3. CASE active[l] # None
    <3>1. active'[l] = active[l]
      BY <1>3, <2>1, <2>3
    <3>2. l \in On
      BY <1>3, <2>1, <2>3 DEF On
    <3>3. PICK s \in 0 .. n - 1 :
            active[l] = Timestamp(video, s) /\ \A k \in s .. n - 1 : Warned(l, k)
      BY <1>2, <3>2 DEF Reviewed, OpenAt
    <3>4. s \in 0 .. (n + 1) - 1 /\ \A k \in s .. (n + 1) - 1 : k = n \/ k \in s .. n - 1
      BY <1>1
    <3>5. \A k \in s .. (n + 1) - 1 : Warned(l, k)'
      BY <1>4, <2>1, <3>3, <3>4
    <3>6. active'[l] = Timestamp(video, s)'
      BY <1>4, <3>1, <3>3
    <3> QED
      BY <3>4, <3>5, <3>6 DEF OpenAt
  <2> QED
    BY <2>2, <2>3
<1>12. IsFiniteSet(warnings')
  <2>1. IsFiniteSet({Interval(l, t) : l \in On \ current})
    BY <1>5, <1>8, FewIntervals
  <2> QED
    BY <1>2, <1>3, <2>1, FS_Union DEF Reviewed
<1>13. ASSUME NEW w \in warnings' PROVE w.label \in Labels(phase)' /\ Closed(w, n + 1)'
  <2>1. CASE w \in warnings
    <3>1. w.label \in Labels(phase) /\ Closed(w, n)
      BY <1>2, <2>1 DEF Reviewed
    <3>2. PICK s \in 0 .. n - 1, e \in 0 .. n - 1 :
            /\ s < e
            /\ w = [label |-> w.label, start |-> Timestamp(video, s), end |-> Timestamp(video, e)]
            /\ \A k \in s .. e - 1 : Warned(w.label, k)
            /\ ~Warned(w.label, e)
      BY <3>1 DEF Closed
    <3>3. s \in 0 .. (n + 1) - 1 /\ e \in 0 .. (n + 1) - 1
      BY <1>1
    <3>4. /\ w = [label |-> w.label, start |-> Timestamp(video, s)', end |-> Timestamp(video, e)']
          /\ \A k \in s .. e - 1 : Warned(w.label, k)'
          /\ ~Warned(w.label, e)'
      BY <1>4, <3>2
    <3>5. Closed(w, n + 1)'
      BY <3>2, <3>3, <3>4 DEF Closed
    <3> QED
      BY <1>5, <3>1, <3>5
  <2>2. CASE w \notin warnings
    <3>1. PICK l \in On \ current : w = Interval(l, t)
      BY <1>3, <1>13, <2>2
    <3>2. PICK s \in 0 .. n - 1 :
            active[l] = Timestamp(video, s) /\ \A k \in s .. n - 1 : Warned(l, k)
      BY <1>2, <3>1 DEF Reviewed, OpenAt
    <3>3. w.label = l /\ w = [label |-> l, start |-> Timestamp(video, s)', end |-> Timestamp(video, n)']
      BY <1>4, <3>1, <3>2 DEF Interval
    <3>4. s \in 0 .. (n + 1) - 1 /\ n \in 0 .. (n + 1) - 1 /\ s < n
      BY <1>1
    <3>5. l \in Labels(phase) \ current
      BY <1>8, <3>1
    <3>6. ~Warned(w.label, n)' /\ \A k \in s .. n - 1 : Warned(w.label, k)'
      BY <1>4, <1>7, <3>2, <3>3, <3>5
    <3>7. Closed(w, n + 1)'
      BY <3>3, <3>4, <3>6 DEF Closed
    <3> QED
      BY <1>5, <3>3, <3>5, <3>7
  <2> QED
    BY <2>1, <2>2
<1>14. ASSUME NEW l \in Labels(phase), NEW k \in 0 .. n, Warned(l, k)
       PROVE  Covered(l, k)'
  <2>1. l \in Marks /\ Timestamp(video, k) \in Nat /\ t \in Nat
    BY <1>1, <1>5, <1>9
  <2>2. k = n => l \in current
    BY <1>7, <1>14
  <2>3. k # n => k \in 0 .. n - 1 /\ Timestamp(video, k) < t
    BY <1>1, <1>9
  <2>4. k # n => Covered(l, k)
    BY <1>2, <1>14, <2>3 DEF Reviewed
  <2>5. CASE k # n /\ \E w \in warnings : /\ w.label = l /\ w.start <= Timestamp(video, k)
                                          /\ Timestamp(video, k) < w.end
    BY <1>3, <1>4, <2>5 DEF Covered
  <2>6. CASE k # n /\ active[l] # None /\ active[l] <= Timestamp(video, k) /\ l \in current
    <3>1. active'[l] = active[l]
      BY <1>3, <2>1, <2>6
    <3> QED
      BY <1>4, <2>6, <3>1 DEF Covered
  <2>7. CASE k # n /\ active[l] # None /\ active[l] <= Timestamp(video, k) /\ l \notin current
    <3>1. l \in On \ current
      BY <1>3, <2>1, <2>7 DEF On
    <3>2. Interval(l, t) \in warnings'
      BY <1>3, <3>1
    <3>3. Interval(l, t).label = l /\ Interval(l, t).start = active[l] /\ Interval(l, t).end = t
      BY DEF Interval
    <3> QED
      BY <1>4, <2>3, <2>7, <3>2, <3>3 DEF Covered
  <2>8. CASE k = n /\ active[l] = None
    <3>1. active'[l] = t
      BY <1>3, <2>1, <2>2, <2>8
    <3>2. t # None /\ t <= Timestamp(video, k)
      BY <2>1, <2>8, AnalysisAssumption
    <3> QED
      BY <1>4, <3>1, <3>2 DEF Covered
  <2>9. CASE k = n /\ active[l] # None
    <3>1. active'[l] = active[l]
      BY <1>3, <2>1, <2>2, <2>9
    <3>2. l \in On
      BY <1>3, <2>1, <2>9 DEF On
    <3>3. PICK s \in 0 .. n - 1 : active[l] = Timestamp(video, s)
      BY <1>2, <3>2 DEF Reviewed, OpenAt
    <3>4. Timestamp(video, s) < Timestamp(video, n)
      BY <1>1, <1>9
    <3>5. active[l] <= Timestamp(video, k)
      BY <1>1, <1>9, <2>9, <3>3, <3>4
    <3> QED
      BY <1>4, <2>9, <3>1, <3>5 DEF Covered
  <2> QED
    BY <2>4, <2>5, <2>6, <2>7, <2>8, <2>9 DEF Covered
<1>15. \A l \in Labels(phase)', k \in 0 .. (n + 1) - 1 : Warned(l, k)' => Covered(l, k)'
  <2>1. 0 .. (n + 1) - 1 = 0 .. n
    BY <1>1
  <2> QED
    BY <1>4, <1>5, <1>14, <2>1
<1> QED
  BY <1>10, <1>11, <1>12, <1>13, <1>15 DEF Reviewed

\* Every step keeps the review true to the frames.
LEMMA WarnKeeps ==
  ASSUME AnalysisInv, WarnInv, [AnalysisNext]_analysisVars PROVE WarnInv'
PROOF
<1>1. job \in Job /\ job.time < DurationMs(video)
  BY DEF AnalysisInv, LoopInv
<1>2. video.frames \in Nat /\ Frame = 0 .. video.frames - 1
  BY <1>1, FrameFacts
<1>3. job' = job /\ DOMAIN active' = Marks
  BY DEF AnalysisNext, ReadFrame, ReadFails, Select, Follow, Turn, Measure, Hold, PlanFails, Report, Count,
         EnterReview, Warn, analysisVars, WarnInv
<1>4. video' = video /\ \A m : Increasing(m)' <=> Increasing(m)
  BY <1>3, SameJob DEF Increasing
<1>5. CASE ReadFrame \/ ReadFails \/ Select \/ Follow \/ Turn \/ PlanFails
  <2>1. phase' \notin {"measure", "report", "detection", "framing"}
    BY <1>5 DEF ReadFrame, ReadFails, Select, Follow, Turn, PlanFails
  <2> QED
    BY <1>3, <2>1 DEF WarnInv
<1>6. CASE Measure
  <2>1. phase' = "measure" /\ i' = 0
    BY <1>6 DEF Measure
  <2>2. Increasing(0)'
    BY DEF Increasing
  <2>3. Increasing(i)'
    BY <2>1, <2>2 DEF Increasing
  <2> QED
    BY <1>3, <2>1, <2>3 DEF WarnInv
<1>7. CASE Hold
  <2>1. phase = "measure" /\ i \in Frame /\ (i > 0 => Timestamp(video, i - 1) < Now)
        /\ phase' = "measure" /\ i' = i + 1
    BY <1>7 DEF Hold
  <2>2. Increasing(i) /\ i \in Nat
    BY <1>2, <2>1 DEF WarnInv
  <2>3. \A k \in 1 .. (i + 1) - 1 : k \in 1 .. i - 1 \/ (k = i /\ i > 0)
    BY <2>2
  <2>4. \A k \in 1 .. (i + 1) - 1 : Timestamp(video, k - 1) < Timestamp(video, k)
    BY <2>1, <2>2, <2>3 DEF Increasing, Now
  <2>5. Increasing(i)'
    BY <1>4, <2>1, <2>4 DEF Increasing
  <2> QED
    BY <1>3, <2>1, <2>5 DEF WarnInv
<1>8. CASE Report \/ Count
  <2>1. Increasing(video.frames)
    <3>1. CASE Report
      <4>1. i = video.frames /\ phase = "measure"
        BY <1>2, <3>1 DEF Report, AnalysisInv, LoopInv
      <4> QED
        BY <4>1 DEF WarnInv
    <3>2. CASE Count
      BY <3>2 DEF Count, WarnInv
    <3> QED
      BY <1>8, <3>1, <3>2
  <2>2. phase' = "report"
    BY <1>8 DEF Report, Count
  <2>3. Increasing(video.frames)'
    BY <1>4, <2>1 DEF Increasing
  <2> QED
    BY <1>3, <2>2, <2>3 DEF WarnInv
<1>9. CASE EnterReview
  <2>1. phase' \in {"detection", "framing", "done"} /\ i' = 0 /\ warnings' = {}
        /\ active' = [l \in DOMAIN active |-> None] /\ phase \in {"report", "detection", "framing"}
    BY <1>9 DEF EnterReview, NextPhase
  <2>2. Increasing(video.frames)'
    BY <1>4, <2>1 DEF Increasing, WarnInv
  <2>3. On' = {} /\ IsFiniteSet(warnings')
    BY <2>1, FS_EmptySet DEF On
  <2>4. Reviewed(i)'
    BY <2>1, <2>3 DEF Reviewed
  <2> QED
    BY <1>3, <2>1, <2>2, <2>4 DEF WarnInv
<1>10. CASE Warn
  <2>1. PICK n \in Frame : n = i
    BY <1>10 DEF Warn
  <2>2. Reviewed(n + 1)'
    BY <1>1, <1>10, <2>1, ReviewGoesOn
  <2>3. i' = n + 1 /\ phase' = phase /\ phase \in {"detection", "framing"}
    BY <1>10, <2>1 DEF Warn
  <2>4. Reviewed(i)'
    BY <2>2, <2>3 DEF Reviewed
  <2>5. Increasing(video.frames)'
    BY <1>4, <2>3 DEF Increasing, WarnInv
  <2> QED
    BY <1>3, <2>3, <2>4, <2>5 DEF WarnInv
<1>11. CASE UNCHANGED analysisVars
  <2>1. /\ job' = job /\ box' = box /\ guide' = guide /\ outside' = outside /\ phase' = phase /\ i' = i
        /\ active' = active /\ warnings' = warnings
    BY <1>11 DEF analysisVars, results
  <2>2. /\ \A l, k : Warned(l, k)' <=> Warned(l, k)
        /\ \A k : Timestamp(video, k)' = Timestamp(video, k)
    BY <2>1, SameWarned
  <2>3. \A m : Reviewed(m) => Reviewed(m)'
    BY <2>1, <2>2 DEF Reviewed, On, Labels, OpenAt, Closed, Covered
  <2>4. Reviewed(i) => Reviewed(i)'
    BY <2>1, <2>3 DEF Reviewed
  <2>5. Increasing(i) => Increasing(i)'
    BY <1>4, <2>1 DEF Increasing
  <2>6. Increasing(video.frames)' <=> Increasing(video.frames)
    BY <1>4 DEF Increasing
  <2> QED
    BY <1>3, <2>1, <2>4, <2>5, <2>6 DEF WarnInv
<1> QED
  BY <1>5, <1>6, <1>7, <1>8, <1>9, <1>10, <1>11 DEF AnalysisNext

-----------------------------------------------------------------------------
(* The cut.                                                                *)

Before(F, w) == {v \in F : Earlier(v, w)}

\* When the first M of a set in order are kept and one is not, M are kept, and none of
\* them comes after it.
LEMMA FirstKept ==
  ASSUME NEW F, IsFiniteSet(F), NEW M \in Nat,
         \A v \in F : ~Earlier(v, v),
         \A u, v, w \in F : Earlier(u, v) /\ Earlier(v, w) => Earlier(u, w),
         \A v, w \in F : v = w \/ Earlier(v, w) \/ Earlier(w, v),
         NEW K, K = {v \in F : Cardinality(Before(F, v)) < M},
         NEW w \in F \ K
  PROVE  /\ Cardinality(K) = M
         /\ \A v \in K : v # w /\ ~Earlier(w, v)
PROOF
<1> DEFINE rank(v) == Cardinality(Before(F, v))
<1>1. \A v \in F : rank(v) \in Nat /\ IsFiniteSet(Before(F, v))
  <2> SUFFICES ASSUME NEW v \in F PROVE rank(v) \in Nat /\ IsFiniteSet(Before(F, v))
    OBVIOUS
  <2>1. Before(F, v) \subseteq F
    BY DEF Before
  <2>2. IsFiniteSet(Before(F, v))
    BY <2>1, FS_Subset
  <2> QED
    BY <2>2, FS_CardinalityType
<1>2. ASSUME NEW u \in F, NEW v \in F, Earlier(u, v) PROVE rank(u) < rank(v)
  <2>1. Before(F, u) \subseteq Before(F, v) /\ u \in Before(F, v) /\ u \notin Before(F, u)
    BY <1>2 DEF Before
  <2>2. rank(u) <= rank(v) /\ (rank(v) = rank(u) => Before(F, v) = Before(F, u))
    BY <1>1, <2>1, FS_Subset
  <2> QED
    BY <1>1, <2>1, <2>2
<1>3. \A v \in K : v \in F /\ rank(v) < M
  OBVIOUS
<1>4. \A v \in F : v \in K \/ rank(v) >= M
  BY <1>1
<1>5. PICK u \in F : rank(u) >= M /\ \A v \in F : rank(v) >= M => rank(u) <= rank(v)
  <2> DEFINE S == {rank(v) : v \in {v \in F : rank(v) >= M}}
  <2>1. S \subseteq Nat /\ S # {}
    BY <1>1, <1>4
  <2>2. PICK n \in S : \A m \in S : n <= m
    BY <2>1, LeastNatural
  <2> QED
    BY <2>2
<1> HIDE DEF rank
<1>6. K = Before(F, u)
  <2>1. ASSUME NEW v \in K PROVE v \in Before(F, u)
    <3>1. v \in F /\ rank(v) < M
      BY <1>3, <2>1
    <3>2. v # u
      BY <1>1, <1>5, <3>1
    <3>3. ~Earlier(u, v)
      BY <1>1, <1>2, <1>5, <3>1
    <3> QED
      BY <3>1, <3>2, <3>3 DEF Before
  <2>2. ASSUME NEW v \in Before(F, u) PROVE v \in K
    <3>1. v \in F /\ Earlier(v, u)
      BY <2>2 DEF Before
    <3>2. rank(v) < rank(u)
      BY <1>2, <3>1
    <3> QED
      BY <1>1, <1>4, <1>5, <3>1, <3>2
  <2> QED
    BY <2>1, <2>2
<1>7. rank(u) <= M
  <2> SUFFICES ASSUME rank(u) > M PROVE FALSE
    BY <1>1
  <2>1. K # {} /\ IsFiniteSet(K) /\ Cardinality(K) = rank(u)
    <3>1. IsFiniteSet(K) /\ Cardinality(K) = rank(u)
      BY <1>1, <1>6 DEF rank
    <3>2. K # {}
      <4>1. Cardinality(K) # 0
        BY <1>1, <3>1
      <4> QED
        BY <4>1, FS_EmptySet
    <3> QED
      BY <3>1, <3>2
  <2>2. PICK z \in K : \A v \in K : rank(v) <= rank(z)
    <3> DEFINE R == {rank(v) : v \in K}
    <3>1. R \subseteq 0 .. M /\ R # {}
      BY <1>1, <1>3, <2>1
    <3>2. IsFiniteSet(R) /\ R \subseteq Int
      <4>1. IsFiniteSet(0 .. M)
        BY FS_Interval
      <4>2. R \subseteq Int
        BY <3>1
      <4> HIDE DEF R
      <4> QED
        BY <3>1, <4>1, <4>2, FS_Subset
    <3>3. PICK n \in R : \A m \in R : m <= n
      BY <3>1, <3>2, FiniteHasGreatest
    <3> QED
      BY <3>3
  <2>3. z \in F /\ rank(z) < M
    BY <1>3
  <2>4. K \ {z} \subseteq Before(F, z)
    <3> SUFFICES ASSUME NEW v \in K, v # z PROVE v \in Before(F, z)
      OBVIOUS
    <3>1. v \in F /\ ~Earlier(z, v)
      BY <1>1, <1>2, <1>3, <2>2, <2>3
    <3> QED
      BY <2>3, <3>1 DEF Before
  <2>5. Cardinality(K \ {z}) = rank(u) - 1 /\ IsFiniteSet(K \ {z})
    <3>1. IsFiniteSet(K)
      BY <2>1
    <3>2. /\ IsFiniteSet(K \ {z})
          /\ Cardinality(K \ {z}) = IF z \in K THEN Cardinality(K) - 1 ELSE Cardinality(K)
      BY ONLY <3>1, FS_RemoveElement
    <3> QED
      BY <2>1, <3>2
  <2>6. Cardinality(K \ {z}) <= rank(z)
    BY <1>1, <2>3, <2>4, FS_Subset DEF rank
  <2> QED
    BY <1>1, <2>3, <2>5, <2>6
<1>8. Cardinality(K) = M
  BY <1>1, <1>5, <1>6, <1>7 DEF rank
<1>9. ASSUME NEW v \in K PROVE v # w /\ ~Earlier(w, v)
  BY <1>1, <1>2, <1>3, <1>4
<1> QED
  BY <1>8, <1>9

\* The interval w is of the frames from s to e; only at the end of the clip may e be one of
\* those the warning is for.
Spans(w, s, e) ==
  /\ s \in Frame /\ e \in Frame /\ s <= e
  /\ w = [label |-> w.label, start |-> Timestamp(video, s), end |-> Timestamp(video, e)]
  /\ Warned(w.label, s)
  /\ \A k \in s .. e - 1 : Warned(w.label, k)
  /\ Warned(w.label, e) => e = video.frames - 1

\* The times of the frames of a planned clip.
LEMMA FrameTimes ==
  ASSUME job \in Job, Increasing(video.frames)
  PROVE  \A a, b \in Frame : /\ Timestamp(video, a) \in Nat /\ Timestamp(video, b) \in Nat
                             /\ a < b <=> Timestamp(video, a) < Timestamp(video, b)
                             /\ a <= b <=> Timestamp(video, a) <= Timestamp(video, b)
                             /\ a = b <=> Timestamp(video, a) = Timestamp(video, b)
PROOF
<1>1. video.frames \in Nat /\ Frame = 0 .. video.frames - 1
  BY JobFacts DEF Frame
<1> QED
  BY <1>1, OrderedTimes

\* Every interval at the end of the loop is of a row of warned frames.
LEMMA FinalSpans ==
  ASSUME job \in Job, Increasing(video.frames), Reviewed(video.frames), NEW w \in Final
  PROVE  w.label \in Labels(phase) /\ \E s, e \in Frame : Spans(w, s, e)
PROOF
<1>1. video.frames \in Nat \ {0} /\ Frame = 0 .. video.frames - 1
  BY JobFacts DEF Frame
<1>2. CASE w \in warnings
  <2>1. w.label \in Labels(phase) /\ Closed(w, video.frames)
    BY <1>2 DEF Reviewed
  <2>2. PICK s \in 0 .. video.frames - 1, e \in 0 .. video.frames - 1 :
          /\ s < e
          /\ w = [label |-> w.label, start |-> Timestamp(video, s), end |-> Timestamp(video, e)]
          /\ \A k \in s .. e - 1 : Warned(w.label, k)
          /\ ~Warned(w.label, e)
    BY <2>1 DEF Closed
  <2>3. s \in s .. e - 1 /\ s <= e
    BY <2>2
  <2>4. Spans(w, s, e)
    BY <1>1, <2>2, <2>3 DEF Spans
  <2> QED
    BY <1>1, <2>1, <2>4
<1>3. CASE w \notin warnings
  <2> DEFINE e == video.frames - 1
  <2>1. PICK l \in On : w = Interval(l, Timestamp(video, e))
    BY <1>3 DEF Final
  <2>2. PICK s \in 0 .. e : active[l] = Timestamp(video, s) /\ \A k \in s .. e : Warned(l, k)
    BY <2>1 DEF Reviewed, OpenAt
  <2>3. w.label = l /\ w = [label |-> l, start |-> Timestamp(video, s), end |-> Timestamp(video, e)]
    BY <2>1, <2>2 DEF Interval
  <2>4. e \in Frame /\ s \in Frame /\ s <= e /\ s \in s .. e /\ s .. e - 1 \subseteq s .. e
    BY <1>1
  <2>5. Spans(w, s, e)
    BY <2>2, <2>3, <2>4 DEF Spans
  <2>6. l \in Labels(phase)
    BY <2>1 DEF Reviewed
  <2> QED
    BY <2>3, <2>4, <2>5, <2>6
<1> QED
  BY <1>2, <1>3

\* No two intervals of one mark start with the same frame.
LEMMA OneFromEach ==
  ASSUME job \in Job, Increasing(video.frames), Reviewed(video.frames),
         NEW v \in Final, NEW w \in Final, v.label = w.label, v.start = w.start
  PROVE  v = w
PROOF
<1>1. video.frames \in Nat \ {0} /\ Frame = 0 .. video.frames - 1
  BY JobFacts DEF Frame
<1>2. PICK s \in Frame, e \in Frame : Spans(v, s, e)
  BY FinalSpans
<1>3. PICK t \in Frame, f \in Frame : Spans(w, t, f)
  BY FinalSpans
<1>4. s = t
  <2>1. v.start = Timestamp(video, s) /\ w.start = Timestamp(video, t)
    BY <1>2, <1>3 DEF Spans
  <2> QED
    BY <2>1, FrameTimes
<1>5. ~(e < f)
  <2> SUFFICES ASSUME e < f PROVE FALSE
    OBVIOUS
  <2>1. e \in t .. f - 1
    BY <1>1, <1>2, <1>4 DEF Spans
  <2>2. Warned(v.label, e)
    BY <1>3, <2>1 DEF Spans
  <2>3. e = video.frames - 1
    BY <1>2, <2>2 DEF Spans
  <2> QED
    BY <1>1, <2>3
<1>6. ~(f < e)
  <2> SUFFICES ASSUME f < e PROVE FALSE
    OBVIOUS
  <2>1. f \in s .. e - 1
    BY <1>1, <1>3, <1>4 DEF Spans
  <2>2. Warned(w.label, f)
    BY <1>2, <2>1 DEF Spans
  <2>3. f = video.frames - 1
    BY <1>3, <2>2 DEF Spans
  <2> QED
    BY <1>1, <2>3
<1>7. e = f
  BY <1>1, <1>5, <1>6
<1> QED
  BY <1>2, <1>3, <1>4, <1>7 DEF Spans

\* The intervals are in one order.
LEMMA FinalOrdered ==
  ASSUME job \in Job, Increasing(video.frames), Reviewed(video.frames)
  PROVE  /\ IsFiniteSet(Final)
         /\ \A v \in Final : v.start \in Nat
         /\ \A v \in Final : ~Earlier(v, v)
         /\ \A u, v, w \in Final : Earlier(u, v) /\ Earlier(v, w) => Earlier(u, w)
         /\ \A v, w \in Final : v = w \/ Earlier(v, w) \/ Earlier(w, v)
PROOF
<1>1. On \subseteq Marks
  BY DEF Reviewed, Labels, Marks
<1>2. IsFiniteSet(Final)
  <2>1. IsFiniteSet({Interval(l, Timestamp(video, video.frames - 1)) : l \in On})
    BY <1>1, FewIntervals
  <2> QED
    BY <2>1, FS_Union DEF Final, Reviewed
<1>3. \A v \in Final : v.start \in Nat /\ v.label \in Labels(phase)
  <2> SUFFICES ASSUME NEW v \in Final PROVE v.start \in Nat /\ v.label \in Labels(phase)
    OBVIOUS
  <2>1. PICK s \in Frame, e \in Frame : Spans(v, s, e)
    BY FinalSpans
  <2>2. v.start = Timestamp(video, s) /\ Timestamp(video, s) \in Nat
    BY <2>1, FrameTimes DEF Spans
  <2> QED
    BY <2>2, FinalSpans
<1>4. \A v \in Final : ~Earlier(v, v)
  BY <1>3 DEF Earlier
<1>5. \A u, v, w \in Final : Earlier(u, v) /\ Earlier(v, w) => Earlier(u, w)
  BY <1>3 DEF Earlier
<1>6. \A v, w \in Final : v = w \/ Earlier(v, w) \/ Earlier(w, v)
  <2> SUFFICES ASSUME NEW v \in Final, NEW w \in Final, v.start = w.start, v.label # w.label
               PROVE  Earlier(v, w) \/ Earlier(w, v)
    BY <1>3, OneFromEach DEF Earlier
  <2>1. v.label \in {"unavailable", "outside"} /\ w.label \in {"unavailable", "outside"}
    BY <1>3 DEF Labels
  <2> QED
    BY <2>1 DEF Earlier
<1> QED
  BY <1>2, <1>3, <1>4, <1>5, <1>6

\* The intervals that are kept show the warned frames, as far as the limit allows.
LEMMA KeptCover ==
  ASSUME job \in Job, DOMAIN active = Marks, Increasing(video.frames), Reviewed(video.frames)
  PROVE  WarningsCoverFrames
PROOF
<1>1. video.frames \in Nat \ {0} /\ Frame = 0 .. video.frames - 1
  BY JobFacts DEF Frame
<1>2. Kept \subseteq Final
  BY DEF Kept
<1>3. ASSUME NEW w \in Kept PROVE ValidInterval(w)
  <2>1. PICK s \in Frame, e \in Frame : Spans(w, s, e)
    BY <1>2, FinalSpans
  <2>2. w.start = Timestamp(video, s) /\ w.end = Timestamp(video, e) /\ s <= e
    BY <2>1 DEF Spans
  <2>3. /\ Timestamp(video, s) \in Nat /\ Timestamp(video, e) \in Nat
        /\ Timestamp(video, s) <= Timestamp(video, e)
    BY <2>2, FrameTimes
  <2>4. e \in Nat /\ e <= video.frames
    BY <1>1
  <2>5. Timestamp(video, e) <= DurationMs(video) /\ DurationMs(video) \in Nat
    BY <2>4, TimestampOrder
  <2> QED
    BY <2>2, <2>3, <2>5 DEF ValidInterval
<1>4. ASSUME NEW l \in Labels(phase), NEW k \in Frame, NEW w \in Kept, w.label = l,
             w.start <= Timestamp(video, k), Timestamp(video, k) < w.end
      PROVE  Warned(l, k)
  <2>1. PICK s \in Frame, e \in Frame : Spans(w, s, e)
    BY <1>2, FinalSpans
  <2>2. w.start = Timestamp(video, s) /\ w.end = Timestamp(video, e)
    BY <2>1 DEF Spans
  <2>3. s <= k /\ k < e
    BY <1>4, <2>2, FrameTimes
  <2>4. k \in s .. e - 1
    BY <1>1, <2>3
  <2> QED
    BY <1>4, <2>1, <2>4 DEF Spans
<1>5. ASSUME NEW l \in Labels(phase), NEW k \in Frame, Warned(l, k)
      PROVE  \E w \in Final : /\ w.label = l /\ w.start <= Timestamp(video, k)
                              /\ \/ Timestamp(video, k) < w.end
                                 \/ k = video.frames - 1 /\ Timestamp(video, k) = w.end
  <2>1. Covered(l, k)
    BY <1>1, <1>5 DEF Reviewed
  <2>2. CASE \E w \in warnings : w.label = l /\ w.start <= Timestamp(video, k) /\ Timestamp(video, k) < w.end
    BY <2>2 DEF Final
  <2>3. CASE active[l] # None /\ active[l] <= Timestamp(video, k)
    <3> DEFINE e == video.frames - 1
               w == Interval(l, Timestamp(video, e))
    <3>1. l \in On
      <4>1. On = {m \in DOMAIN active : active[m] # None} /\ l \in DOMAIN active
        BY <1>5 DEF On, Labels, Marks
      <4> QED
        BY <2>3, <4>1
    <3>2. w \in Final
      BY <3>1 DEF Final
    <3>3. w.label = l /\ w.start = active[l] /\ w.end = Timestamp(video, e)
      BY DEF Interval
    <3>4. e \in Frame /\ (k = e \/ k < e)
      BY <1>1
    <3>5. k < e => Timestamp(video, k) < Timestamp(video, e)
      BY <3>4, FrameTimes
    <3> HIDE DEF w
    <3> QED
      BY <2>3, <3>2, <3>3, <3>4, <3>5
  <2> QED
    BY <2>1, <2>2, <2>3 DEF Covered
<1>6. ASSUME NEW l \in Labels(phase), NEW k \in Frame, NEW w \in Final, w \notin Kept,
             w.start <= Timestamp(video, k)
      PROVE  Cardinality(Kept) = MaxIntervals /\ \A v \in Kept : v.start <= Timestamp(video, k)
  <2>1. Kept = {v \in Final : Cardinality(Before(Final, v)) < MaxIntervals}
    BY DEF Kept, Before
  <2>2. w \in Final \ Kept /\ MaxIntervals \in Nat
    BY <1>6, AnalysisAssumption
  <2>3. Cardinality(Kept) = MaxIntervals /\ \A v \in Kept : v # w /\ ~Earlier(w, v)
    BY <2>1, <2>2, FinalOrdered, FirstKept
  <2>4. ASSUME NEW v \in Kept PROVE v.start <= Timestamp(video, k)
    <3>1. v.start \in Nat /\ w.start \in Nat /\ Timestamp(video, k) \in Nat
      BY <1>2, FinalOrdered, FrameTimes
    <3>2. v.start <= w.start
      BY <2>3, <3>1 DEF Earlier
    <3> QED
      BY <1>6, <3>1, <3>2
  <2> QED
    BY <2>3, <2>4
<1>7. ASSUME NEW l \in Labels(phase), NEW k \in Frame
      PROVE  /\ Warned(l, k) =>
                  \/ Displayed(l, k)
                  \/ Cardinality(Kept) = MaxIntervals /\ \A w \in Kept : w.start <= Timestamp(video, k)
             /\ Displayed(l, k) => Warned(l, k) \/ k = video.frames - 1
  BY <1>4, <1>5, <1>6 DEF Displayed
<1> QED
  BY <1>3, <1>7 DEF WarningsCoverFrames

\* What the report and the review tell of an analysis is what happened in it: the gaps of
\* _analysis_report are those of the measurements, and the intervals of
\* _review_warning_intervals show the warned frames, in the order and up to the number the
\* API accepts.
THEOREM UserIsToldAsItWas == AnalysisSpec => []ToldAsItWas
PROOF
<1>1. AnalysisInit => GapInv /\ WarnInv
  BY DEF AnalysisInit, GapInv, NoGap, ReportsGaps, WarnInv, Marks
<1>2. AnalysisInv /\ GapInv /\ WarnInv /\ [AnalysisNext]_analysisVars => GapInv' /\ WarnInv'
  BY GapKeeps, WarnKeeps
<1>3. AnalysisInv /\ GapInv /\ WarnInv => ToldAsItWas
  <2> SUFFICES ASSUME AnalysisInv, GapInv, WarnInv, phase \in {"detection", "framing"}, i \notin Frame
               PROVE  WarningsCoverFrames
    BY DEF ToldAsItWas, GapInv, WarningsCoverFrames
  <2>1. job \in Job /\ i = video.frames
    BY FrameFacts DEF AnalysisInv, LoopInv
  <2>2. DOMAIN active = Marks /\ Increasing(video.frames) /\ Reviewed(video.frames)
    BY <2>1 DEF WarnInv
  <2> QED
    BY <2>1, <2>2, KeptCover
<1> QED
  BY <1>1, <1>2, <1>3, AnalysisInvariant, PTL DEF AnalysisSpec
=============================================================================
