# boulder-frame: specifications and proofs

Boulder Frame turns a wide, static-camera climbing video into a reframed close-up. A browser uploads a
video and posts a job; a Go API stores the job in PostgreSQL and appends an entry to a Redis stream;
Python workers consume the stream, process the video with FFmpeg and a person detector, put the result
in S3 and record it in PostgreSQL. This directory holds TLA+ models of the parts of that program where
several actors meet or where an algorithm has to keep a promise over many frames, the TLC runs that
check them, and TLAPS proofs of what they keep in every state, for any number of actors, frames and faults.

    tlasany M.tla                      parse
    tlc -config X.cfg M                check one run
    tlapm M.tla                        check the proofs of M

`PROJECT.json` lists components, runs, seeded defects, the source lines of every definition (`map`),
disagreements between code and documentation (`findings`), hazards and theorems. Paths below are
relative to the repository; `worker/` abbreviates `worker/src/boulder_frame_worker/`.

## 1. Inventory

| component | state it keeps | operations |
| --- | --- | --- |
| Web page, `frontend/src/App.tsx`, `api.ts` | React state: project, file, asset, selection, job, link, review | create project, choose file (upload and confirm), tap, submit, poll, fetch link, open review, retry |
| Job API, `backend/httpapi`, `backend/repository`, `backend/domain` | rows of `projects`, `assets`, `processing_jobs`, `job_artifacts` | upload, complete, create job, read job, download, evaluation |
| Queue publisher, `backend/queue` | stream `boulder-frame:jobs`, one index key per job | publish (WATCH, GET, MULTI, XADD, SET, EXEC) |
| Schema migrations, `backend/main.go`, `backend/migrations` | `schema_migrations`, the schema | `migrate up` |
| Streams consumer, `worker/queue_adapter.py` | pending list, cursor, thread pool, one heartbeat per entry | serve loop, XREADGROUP, XAUTOCLAIM, XCLAIM, XACK, drain |
| Job processing, `worker/worker.py`, `state.py`, `progress.py`, `errors.py` | the local record of an attempt, its lease heartbeat, stage durations | process: claim, five stages, completion, three ways to fail |
| Job repository, `worker/repository.py` | the job row with lease and report, `job_artifacts` | claim, update, renew, release, finalize output, finalize review |
| Pipeline, `worker/pipeline.py` | scratch files of an attempt: source, normalised source, report, crop path, traces, bundle | validate, analyse, render, upload, collect evidence, publish review, warnings |
| Detection and measurement, `worker/measurement.py` | the reference box | choose the target, associate, keep evidence |
| Crop planner, `worker/planner.py` | crop, velocities, gates, held box | seed controller, look-ahead linear programs, motion trace |
| Media adapters, `worker/media.py`, `frame_reader.py` | FFmpeg processes, partial files | probe, normalise, decode, render, validate |
| Review rendering, `worker/review.py` | child processes, status files, videos | render a phase, reap, bound |
| Telemetry and evaluation, `worker/debug.py`, `evaluation.py` | stage trace, bundle, metrics per frame | record a stage, collect a bundle, measure frames, attribute failures |

**How they interact.** The page calls the API over HTTP and PUTs straight to S3. The API and the workers
share PostgreSQL and Redis and never call each other. Two leases protect a job: the idle time of its
stream entry (XCLAIM heartbeat) and `lease_owner`/`lease_expires_at` of its row (renewed by a thread of the
attempt); they are independent, and either may end first. Within an attempt the worker talks to FFmpeg
through pipes and to the review children through status files.

**Which behaviours are hard.** Two stores are written one after the other with nothing to tie them
together (row then entry; object then row; row then XACK). A commit may take effect and its reply be lost.
An attempt is never interrupted when it loses its lease. Entries are delivered at least once, and to
anybody. The page takes answers in any order. FFmpeg may end early, late or not at all. The planner moves
a crop in four ways in turn, and each may undo the one before. A retry finds an empty scratch directory and
resumes in the middle of the stages. Evidence is collected beside the output, by calls that fail.

**What makes each component correct** is listed with its module in section 3, and the places where it
could go wrong are the 40 `hazards` of `PROJECT.json`.

## 2. Plan

Order: what is most important to the user (a job is done exactly once and ends) first, then what feeds it,
then the algorithms.

| stage | modules | what for | state |
| --- | --- | --- | --- |
| 1 | `JobStates`, `JobLifecycle`, `JobWorker` | one job, its row, lease, entry and output; abstract life cycle and refinement | modelled, checked, proved |
| 2 | `JobPublication`, `AssetUpload`, `JobIntake` | two stores and idempotent publication; the source; both together | modelled, checked, proved |
| 3 | `StreamDelivery` | the consumer that `JobWorker` abstracts to "delivered until acknowledged" | modelled, checked, proved |
| 4 | `ReviewPublication`, `SchemaMigrations`, `FrontendSession` | the other places where several actors meet | modelled, checked, proved |
| 5 | `MediaTime`, `FrameAnalysis`, `CropPlanner`, `CropRendering`, `ReviewRendering` | the pipeline: which frames, whose box, which crop, finished files | modelled, checked, proved |
| 6 | `LookaheadCamera`, `ShotEvaluation` | the camera of a whole shot, and whom the evaluation blames | modelled, checked, proved |
| 7 | `ProcessingAttempt` | the stages around rendering and review, scratch directory, telemetry | modelled, checked, proved |
| 8 | an abstract delivery service that both `JobWorker` and `StreamDelivery` are shown to implement | the interface below as a refinement | to do |

Composition: `JobWorker` EXTENDS `JobStates` and instantiates `JobLifecycle` under the refinement mapping
`published <- output # NoWorker`. `JobIntake` EXTENDS `AssetUpload` and `JobPublication` and lets them meet in the
row of the asset; it is proved to implement both. `ReviewRendering` EXTENDS `CropRendering` (the review runs after
rendering, in the same attempt, reading its files) and `MediaTime`, which `FrameAnalysis` shares;
`ProcessingAttempt` EXTENDS `ReviewRendering` with the stages around them. `ShotEvaluation` EXTENDS
`LookaheadCamera`, whose assumption on the frames of a shot is proved of the crops of `CropPlanner`, on each axis
(`PlannerSeedsCamera`). `StreamDelivery` and
`JobWorker` meet in an interface: the first treats a handler as one step that settles or fails, the second
treats delivery as "an entry that is not acknowledged may be handed to any idle thread", which allows
more than the first does. All modules declare no RECURSIVE operator, have one
action per operation, and state their constants' assumptions by name.

## 3. Modules

### JobStates, JobLifecycle, JobWorker

`JobStates` is the transition table of `state.py` and of `_UPDATE_SQL` (`Following`, `StageProgress`, `Writable`).
`JobLifecycle` is what a reader of the job sees: a state that advances, an output that is published before
completion, an entry acknowledged after the end.

`JobWorker` is `Worker.process` with one action per call it makes to a store and the local statements around
the call; the three stores and all threads interleave between any two actions.

| code | model |
| --- | --- |
| row of `processing_jobs` | `jobState`, `progress`, `owner`, `lease`, `report`; `output` for `output_asset_id` |
| `claim`, `current_state`, `update`, `renew_lease`, `release`, `finalize_output` | `ClaimRow`, `Lookup`, `Accepts`/`Written`, `Renewable`, `ReleaseRow`, `Finalizable`/`OutputLinked`: each one transaction with its WHERE clause |
| local `JobRecord`, `stage_durations`, heartbeat thread | `rec`, `timed`, `beat` |
| a broken connection | `UpdateRaises` and its like: before the commit, or after it with the reply lost |
| a killed process, a stalled one | `Crash`, `LeaseOverruns` |

Abstractions: `lease_expires_at` is none, live or expired; a worker stands for the attempt UUID of its last
claim, because it makes no call under an older one; `publish_debug` touches none of these variables; nobody
writes `cancelled`. Delivery is a superset of what Redis does.

Properties: `AckOnlyTerminal`, `CompletedByFinalizer` (a completed job links the output of the very attempt
that completed it), `LiveOwnerAccepted` (`LeaseLostError` means what it says), `TerminalIsFinal`,
`NoStageSkipped` (a retry resumes, because files are not shared between attempts), `ImplementsLifecycle`,
`EventuallySettled`. `ProgressTracksState`, `TerminalRowIsClosed` and `LiveLeaseIsExclusive` are proved only.

### JobPublication, AssetUpload, JobIntake

`JobPublication` is `Handler.createJob`, `PG.CreateOrGetJob`, `RedisStreamsPublisher.Publish`: one action for
the upsert, one for WATCH and GET, one for EXEC, by requests that race, repeat and die. `index` is the key
that makes publication idempotent, `dirty` what WATCH sees of it. `WorkerStarts` is the only thing workers do
here.

`AssetUpload` is one source: presigned URL, PUTs that begin before the URL expires and end later, HEAD and the
marking of the row as separate steps, attempts that download.

`JobIntake` is both against one asset: a request reads the row of the asset, and is refused or goes on, long
before it inserts its job; attempts at a started job download what S3 has by then.

Properties: `AtMostOneEntry`, `AcceptedIsPublished` (201 is answered only for a job with an entry), `JobsHaveSource`
(a job in any state has a confirmed source in S3, which relates the two halves), `EventuallyConfirmed`.
`KeyMeansEntry` and `SameConfigurationSameJob` are proved only.

### StreamDelivery

`RedisStreamsAdapter.serve` by several processes with `Concurrency` threads each: capacity, XAUTOCLAIM with its cursor,
XREADGROUP, dispatch to the pool, heartbeat, XACK, stop and drain; replies of Redis may be lost and
processes killed. `aged` is "idle for `reclaim_idle_ms`". Left out: the consumer an entry is pending for (it
decides nothing), the scan limit of XAUTOCLAIM (10 * COUNT, more than the instance has), XGROUP CREATE.
`NothingForgotten`, `UndisturbedIsExclusive` (which also fails when more is read than there are threads: what
waits has no heartbeat), `EveryEntryAcknowledged`, `StopEndsProcess`.

### ReviewPublication

`publish_debug` from its first upload to its clean-up, `finalize_review` in one transaction, and `GET
evaluation` reading links and manifest in two steps. An upload, a commit or a deletion may fail with or
without having taken effect. `OneReviewLinked` (links are those of one whole review), `ObjectsFollowLinks`
(the clean-up deletes nothing that is linked by an attempt that knows it, and leaves nothing behind),
`FrozenWhenTerminal`. History variables `finalized`, `unsure`, `spoiled` say which attempts lost a reply,
because the code cannot keep the promise for those (section 6).

### SchemaMigrations

`migrate up` statement by statement, by several processes under the advisory lock, with the five files as
what they do to the rows of `job_artifacts`; workers insert any row that the schema of the moment allows.
`ExecutedOnceInOrder`, `EveryRunSucceeds` (no deadlock on the lock, no row that a constraint refuses, and the
complete schema after success).

### FrontendSession

`App.tsx`: every click, answer, timer and effect that changes the component's state is an action; answers
arrive in any order and find the state as it is then. A job is named by its request (identical requests
get the same job, `JobPublication`); an upload is one call. The file input stays enabled while an upload is under
way, so the user need not wait for an answer: up to `MaxInFlight` projects and uploads are under way at once, and the
code lets the one that answers last win. History variables say where: `overtaken` are the projects and uploads that were
under way when the user started another, `doubled` that a job was asked for while one was being submitted.

Properties: `BelongsTogether` (a selection is submitted with the file it was made on unless that upload was overtaken,
and in the project of the file unless a project was; the link is that of the shown job unless two jobs were asked for at
once, and that takes an overtaken call), `ShownNeverGoesBack`, `EndIsShown`.

### MediaTime, FrameAnalysis

`MediaTime` is the clock of a constant-rate clip with Python's rounding (halves to even). `FrameAnalysis` is the
sampling grid, the choice of the target at the tap, the two passes from the selected frame, the held boxes,
the gap report and the warning intervals of the review. Boxes lie on a line (centre and half-width), which
keeps "nearest" and "within the gate" and drops the second axis. `outside` stands for everything the planner
may report of a frame. `Hold` goes through the frames with the planner, which refuses times that do not increase: above
1000 frames per second two frames may fall on one millisecond, and `PlanFails` fails the job. Every association leaves evidence: its candidates, cut at `MaxCandidates` with the selected
one kept, the point it was made around, its outcome. Each property compares the loops of the code with a
definition taken from the documentation: `DetectsOnGrid` (first frame at or after each tick, plus the selected
one, which exists), `GuidedByFollowedAthlete` (the box that guides the camera is that of the athlete followed
outwards from the selection, at the latest sample), `EvidenceIsSound` (what the constructors check holds, and the
documented rule applied to the retained candidates gives the accepted one), `ToldAsItWas` (gap report and warning
intervals, including the limit and what the API accepts).

### CropPlanner

The seed controller on exact half-pixel geometry: target size, gates with hysteresis, motion, clamping,
containment, the reaction to misses and holds; and the legal intervals of the look-ahead. A velocity is its
direction and may brake over at most `Momentum`, which allows every speed and acceleration limit the code
might be given; the linear programs may return any legal origins.

The code computes in floating point. Rounding keeps the order of values that differ by more than itself, and may give
values that are equal in exact arithmetic either order. That decides something in one place: `_contain` makes a crop
exactly as wide or as tall as the box it has to hold, and the look-ahead then compares the two exactly (`planner.py:534`,
`planner.py:590`), also after the corrections with `nextafter`, which move a bound of the interval by one unit, possibly
past the other. `Rounding` is a choice of the axes on which such a tie goes the wrong way; `Exact` is none. An origin of
zero is exact (`Torn`).

Properties: `AthleteInFrame`; `OnlyTightIsRefused` (the look-ahead fails a shot for nothing but such a tie with a fresh
box, never for a box that no crop holds, and what it accepts it can only turn into legal crops); `MissKeepsView`.
That a tie does fail a job is in section 6.

### LookaheadCamera, ShotEvaluation

`LookaheadCamera` is the second half of the planner: a shot with the crops of the causal planner goes through
`_axis_intervals`, then six linear programs, each an action that keeps the paths that are optimal for it among
those that were optimal before, and any of which may fail; one of the remaining paths becomes the plan. It is one
axis with whole pixels, so that a program chooses among finitely many paths and its tolerances are 0. Velocities
and accelerations are exact in units of 1/`MotionUnit` pixel. Trace and report are the formulas of `planner.py` and
`pipeline.py`, which differ from those of the programs. `ShotEvaluation` adds `evaluation.py`: what a person
annotated, availability, correctness and containment of every frame, the stage that is blamed, the aggregate.

Properties: `ExcessIsUnavoidable` (no camera that shows the sampled athlete is slower, nor smoother at the same
speed, whatever the later programs did), `NoNeedlessPan`, `ReportMatchesTrace` (three evaluations of the limits
agree), `BlameIsJust` (an athlete outside the crop is always a failure, and each stage is blamed only for its own).

### CropRendering, ReviewRendering, ProcessingAttempt

`CropRendering` is `_render` and `render_crop_path`: unlink, start, one frame at a time into a pipe, close, wait,
validate, move, or abort and clean, each of which may raise; FFmpeg reads, may drop a frame, end with status 0
before the end of its input (`EndEarly`), or crash. `uploading` renders again from the cache.

`ReviewRendering` continues the same attempt: `ReviewRenderer` with a child process and an FFmpeg per phase under one
deadline and one limit of bytes, the manifest, `ParseEvaluationManifest` and the projection of the API, and
`parseEvaluation` of the page. Every phase has a child and an FFmpeg of its own, and those of an earlier phase may still
run beside the next one: an unlink in the `finally` of `_render_phase` that raises skips the reaping (`Finally`), and
`_terminate_process` signals the group of the child but waits for the child alone, so its FFmpeg has been told to end and
may not have ended (`Reap`). `leaked` are the phases whose living child was not reaped. The FFmpeg of a child that *died* may go on:
nobody knows its process group. A video has a size and whether its FFmpeg ended with status 0; its frames are not modelled,
because nobody counts those of a review clip. Left out: texts and summaries, what is drawn, and the upload
(`ReviewPublication`). An error a child reports is one that `_reason` lets through or one it does not.

`ProcessingAttempt` is `Worker.process` from inside: the stages from the one at which the attempt resumes, with an
empty scratch directory, each on the files that earlier stages left or did not leave. `_inputs` downloads and
normalises what is not there, and takes what is there as it is, also part of a file that a failed FFmpeg left;
`_crop_path` reads or makes the crop path; `_render` marks the trace; the record of each stage is appended; then
`publish_debug` collects the evidence into a bundle, gives it up when it passes its limit, and reviews what it can.

Properties: `VideosAreFinished` (the output has each of its frames in its place; a review video that is called ready is
one whose FFmpeg ended with status 0, whatever it left out), `NothingIsLeft` (no partial file, open source or FFmpeg of
the output remains; a child of the review remains only where the unlinking before its reaping failed, an FFmpeg of it
only where it was told to end or its child died or remains), `ReviewIsShown`, `EvidenceDecidesNothing`
(while no call that the output needs fails, it is uploaded, whatever is captured, cut or lost),
`TelemetryIsTrue` (the bundle describes the files the frames and crops were made of), `AttemptEnds`.

## 4. Runs

Each module, or group of modules that compose, has one passing run that checks its safety and liveness together.

| run | instance | distinct states | shows |
| --- | --- | --- | --- |
| worker | 2 compatible threads, 1 with another model version, all kinds of failures, 2 faults | 205 650 | row, lease, entry and output agree through races, crashes and lost replies; the life cycle is implemented; the job ends |
| intake | 2 confirmations, 2 PUTs of right and wrong sizes, 3 requests for one configuration, 1 fault on each side | 1 649 193 | one entry per accepted job, a source for each job, confirmed in the end |
| stream | 2 processes of 1 thread, 3 entries (1 malformed), 2 faults or stalls | 56 673 | nothing forgotten, all acknowledged, undisturbed handlers alone, stops end |
| review | 2 attempts, any set of rendered phases, 2 faults | 387 413 | links are one whole, stored review |
| migration | 2 runs, any inserted rows, 2 faults | 353 607 | each file once and in order, every run ends with the complete schema |
| frontend | 2 projects, 2 files, 1 tap, 2 uploads or projects under way at once, 1 failing call | 724 941 | what is submitted belongs together, except for what an overtaken upload brings; the page follows the job |
| analysis | clips of 1, 2, 7 frames at five rates, one of them too fast for milliseconds, with six sampling rates and taps around every frame; 5 frames with up to three people, of whom two are kept as evidence | 434 619 | the loops compute what the documentation defines |
| rendering | any first stage, two kinds of source, with and without capture; 3 frames, a pipe of 1 frame, 3 phases, 3 rates, videos of 1 under a limit of 2, 2 faults | 3 228 678 | finished files or none, nothing left running but what is named, telemetry is true and decides nothing, the review is accepted by API and page |
| planner | source of 6 by 4, square crops, 5 boxes, misses and holds | 7 305 | the athlete stays in the crop, and only rounding of a tie makes the look-ahead refuse it |
| shot | shots of 4 frames (and of 1) with 6 kinds of frame and 2 series of time spans; 17 series of annotations | 135 942 | the camera moves and exceeds its limits only when it must; trace, report and evaluation agree |
| review_unsure | 1 attempt, 1 fault | violation | section 6 |
| frontend_polling | 1 failing call | violation | section 6 |

**Why the bounds are enough.** *Actors*: every guard compares an attempt, request or process with "me",
"another" or "nobody", so two rivals show any race, and a third is there where one may have a different role
(another model version; a request that repeats another after both have raced). *Faults*: the nested failure
paths are two deep (a call fails, and the call that would clean up fails too; a reply is lost and the retry
dies), so two faults reach every handler of an error; in `intake` one fault of each half does, because the
halves have no failure in common. The proofs remove the bounds on actors and faults for every module that has
one. *Entries*: three let the XAUTOCLAIM cursor stop between others and wrap round. *Frames*: three with a
pipe of one make the pipe block, refill and empty; seven frames cross several ticks of every rate; five leave
two samples on either side of the selection; four of a shot have a start, two inner changes of velocity and a
stop, and room for a miss, a hold and a frame that is limited (on this axis or on the other) between them. *Sizes*: no two of the three
videos pass the limit, all three do. *Candidates*: three people where two are retained cut the list with the
selected one first or last. *Source*: of 6 by 4 pixels the crop has room on one axis at full size and on both
below, boxes touch both edges, and one does not fit; the planner is closed under its own state space (no bound
on time).

The modules' type invariants hold on the same instances when they are added to a cfg; for the modules with proofs
the part of them that the argument needs is proved.

**Deadlock.** Finished jobs, answered requests, finished runs, an analysed or rendered video, an evaluated
shot and an idle page may really stop, so those cfgs say `CHECK_DEADLOCK FALSE`; liveness properties say where
they must not stop. The planner has a next frame always, and its run checks for deadlock.

**Seeded defects.** Beside many definitions stands the form a plausible bug would give them ("Seeded defect"):
a WHERE clause without the token, a cursor that does not wrap, a clean-up that forgets one file. Each property
of a passing run is violated by at least one of them (`mutants`), so each property says something of the
code. `Next` never uses them.

## 5. Fairness and liveness

Liveness holds under weak fairness of what the code or the environment keeps doing, and of nothing else;
faults are bounded, and nothing is assumed of them, of renewals or of appends.

- **JobWorker**: a thread that is inside `process` goes on; the stream goes on delivering a pending entry to
  *some* idle thread (the serve loop polls for ever); a lease that nobody renews expires.
- **StreamDelivery**: a process that is up serves, its threads run, idle times pass, leases expire; when no
  process is up somebody starts one (a restart policy or an operator).
- **SchemaMigrations**: PostgreSQL answers and grants a free lock; a failed run is repeated.
- **AssetUpload**, and with it `JobIntake`: confirmations are handled, PUTs end, a client repeats a refused
  confirmation. Nothing is assumed of requests for jobs, which may die.
- **FrontendSession**: timers fire, calls are answered, workers work on jobs. The user need not do anything.
- **ProcessingAttempt**, and with it rendering and review: the worker runs, the FFmpeg that encodes the output
  reads what it is given and ends at the end of its input (the code has no timeout for it: this is an assumption on FFmpeg, and a handler hangs
  without it), and the clock reaches the deadline. No progress at all is assumed of review children and of
  *their* FFmpeg: the deadline has to suffice.

Safety-only modules (`JobPublication`, `ReviewPublication`, `FrameAnalysis`, `CropPlanner`, `LookaheadCamera`,
`ShotEvaluation`) have no fairness.

## 6. Where code and documentation disagree

Two runs expect a violation and are listed as findings.

- `review_unsure` / `FinalizedIsReadable`: when COMMIT of `finalize_review` takes effect and its reply is lost,
  `publish_debug` deletes the objects it has just linked, and every evaluation of the job answers 502.
- `frontend_polling` / `PollsWhileRunning`: one failed poll ends the polling, because the timer effect depends on
  a job object that did not change.

Further configurations show disagreements met on the way; each ends with a
counterexample (`MCFrontendSessionReview` with one for each of its two properties under `tlc -continue`).

| configuration | invariant | what happens |
| --- | --- | --- |
| `MCJobWorkerOverlap` | `OneHandlerAtATime` | a stalled attempt goes on beside its successor: the lease does not "prevent two workers from processing the same active job concurrently" |
| `MCJobWorkerOutage` | `TransientNeverFails` | a database error in a stage transition is an internal error, which fails the job for good |
| `MCJobIntakeRace` | `UnavailableMeansUnpublished` | of two identical requests the loser of EXEC answers 503 though the entry is in the stream |
| `MCStreamDeliveryLeased` | `LeasedIsNotReclaimable` | an XCLAIM heartbeat that failed once leaves an entry reclaimable while the lease is renewed |
| `MCReviewPublicationTrace` | `ValidationFailureIsTraced` | a clip that cannot be measured leaves no trace of its failure |
| `MCJobIntakeImmutable` | `SourceIsImmutable` | the presigned URL outlives the confirmation, so two attempts may download different bytes |
| `MCFrontendSessionOverlap` | `SelectionIsOnSource` | the user replaces the file during an upload, the earlier upload answers last, and a tap on the later file is submitted with the earlier one |
| `MCFrontendSessionReview` | `ReviewIsOfShownJob` | the review of an earlier job arrives for a later one |
| `MCFrontendSessionReview` | `RetryShowsNewJob` | retrying a failed job with the same settings gets the same failed job |
| `MCCropPlannerRounding` | `NeverRefuses` | a fresh box as tall as its crop: rounded, its interval of origins is empty, and the job fails although the box is not `source_aspect_limited` |
| `MCProcessingAttemptReaped` | `DescendantsAreReaped` | the deadline passes, `_terminate_process` ends the child, and the FFmpeg it started still runs when the review goes on |

## 7. Proofs

All theorems hold for every value of the constants under the modules' named assumptions; none is taken on
trust.

**JobWorkerProofs** (assumptions: `Compatible \subseteq Worker`, `NoWorker \notin Worker`, `MaxFaults \in Nat`,
failures of the three kinds; any set of workers, also infinite). None of the properties is inductive alone:
that the output of a completed job is the finalizer's own needs to know that a thread at "complete" which
still owns the row has linked its output; that a live owner's write is accepted needs to know that its local
record is the row, or exactly one stage ahead after a transition whose write raised; that the
acknowledgement is safe needs "a thread at `ack` has seen a terminal row", and terminal rows never change.
`IInv` is therefore

- `TypeOK`,
- `RowInv`: what holds of the row alone (owned iff leased, progress of the state, closed when terminal,
  acknowledged only then, output of the reporter),
- `LocalInv(w)`: what a thread's control flow guarantees of its local record whether or not it owns the job,
- `OwnerInv(w)`: what the token adds (`InSync`, or `Ahead` on the way to the internal failure).

The proof that a step keeps it goes through two facts about SQL statements, whoever executes them: a terminal
row is kept (`TerminalRowKept`), and a statement of one attempt leaves the row of another live owner alone
(`OtherOwnersKept`). From `IInv` follow the theorems `TypeCorrect`, `AcknowledgedIsTerminal`,
`OutputOfCompletingAttempt`, `RowIsCoherent`, `LeaseLostMeansLost`; with it the action properties
`TerminalNeverChanges`, `LiveLeaseKept`, `StagesRunInOrder`; and `Refinement`, that every step is a step of
`JobLifecycle` or a stutter under `published <- output # NoWorker`.

**JobIntakeProofs** (the assumptions of both parts: `MaxFaults \in Nat`, `NoJob \notin Request` and the like). First
publication alone: the entries and the index key agree only because a request that may still append has seen no key
*since its WATCH*: `HandlerInv` says `pc = "exec" /\ ~dirty => got \notin index`. `StartedInv` (a job leaves "queued"
only through its entry) is what justifies not publishing a job that has started, and `RowsInv` that no two
configurations share a job. Theorems: `PublicationIsIdempotent`, `AcceptedJobRuns`, `OneJobPerConfiguration`. Then the
whole: `IntakePublishesJobs` and `IntakeUploads` show that every step of the composition is a step or a stutter of each
part, so that what is proved of publication holds of the whole (`IntakeIsIdempotent`). `JobsAlwaysHaveSource` is what no
part promises alone: between its look at the asset and its insert a request relies on a row that never changes back,
and the row on an object that no PUT takes away (`RequestInv`, `UploadInv`).

**StreamDeliveryProofs** (any number of processes, threads, entries and faults). `NoEntryIsForgotten` needs that only a
thread with nothing left to do is about to acknowledge (`AckInv`). `UndisturbedHandlersAreAlone` needs a count,
`LoadInv`: a process never has more entries, queued and handled, than threads. Then an entry that was read is taken up
by a free thread before it can age (`YoungInv`), and what XAUTOCLAIM returns nobody has. The count is what the
capacity of `serve` is for.

**ReviewPublicationProofs** (any number of attempts and faults, any set of phases). Until an attempt links its review it
is alone with its objects, so what is in S3 is what it registered (`AttemptInv`); links are those of one attempt that
committed them (`LinksInv`). `LinksOfOneReview`, `CleanUpIsExact`, `TerminalReviewIsFrozen`.

**SchemaMigrationsProofs** (any number of runs, faults and rows). Whoever is in a transaction has the lock, and whoever
executes is at the first file that was not executed: `MigrationInv`. `MigrationsRunOnce`; `NoMigrationIsRefused`: the
rewriting in 003 and 004 makes every row that workers of any release could link satisfy the constraint that follows.

**FrontendSessionProofs** (any projects, files, taps, failing calls and calls under way; nothing is assumed of the user).
`SessionInv` has two layers. `PageInv` holds whatever overlaps: an upload that was not overtaken is that of the latest
file (`FormInv`), while no project was overtaken all is of one (`ProjectInv`), a job is submitted from such a form
(`SubmittedInv`), and while nothing was overtaken `busy` is held by the one call under way (`LockInv`). The rest needs
that no two jobs were asked for at once, `~doubled`: there is no job on the page beside the one submitted (`SubmitInv`), there is at most one poll and no timer beside it (`FollowInv`), and the page lags behind
the poll, and the poll behind the server (`ServerInv`). `SessionBelongsTogether`, `ShownOnlyAdvances`.

**PipelineProofs**, the attempt (`N` and `MaxFaults` any natural numbers, any pipe of at least one frame, any rates, deadline
and sizes; the values that stand for "no file" are not files). `AttemptInvariant` has the layers of the model, and each is
there because a property fails to be inductive without it:

- `RenderInv`: pipe and partial file together are the frames written so far, in order, and each frame in the file has
  its number or, once FFmpeg drops frames, a later one (`InOrder`). The validation only counts frames; a file of `N` of
  them then has every frame in its place. An `Idle` worker has no partial file, and without a fault nothing is dropped
  and the worker never cleans up (`Undisturbed`).
- `ReviewInv`: at most the child of the current phase is neither reaped nor leaked (`OneChild`, `Fresh` before its phase,
  `Settled` after it); an encoder runs beside the child that started it, or after that has crashed or was reaped; and a
  phase is ready only as a file whose FFmpeg ended with status 0.
- `StageInv`, `CropsInv`: at which step of rendering a stage may be entered and left; a crop path is of the file that every
  stage takes, and part of a normalised file is never taken for a whole one, because an attempt that left it has failed.
- `EvidenceInv`, `TrailInv`: trace and bundle are of the crop path that is there, a validated trace has its output, and a
  record is of a stage that the attempt reached and failed only if it is the last one.

Theorems: `AttemptTyped`, `AttemptFinishesVideos`, `AttemptLeavesNothing`, `AttemptIgnoresEvidence`,
`AttemptTellsTheTruth`, `AttemptReviewIsShown`.

**PipelineProofs**, the analysis (any clip of at least one frame, any rates, times and taps, any people the detector may
return, in any number; `AnalysisAssumption`). `DetectsOnGrid` is arithmetic: the sampling test of the code compares two
integer quotients, and a tick lies between two frames exactly when they differ (`QuotientBound`, `TickCrossed`); and the
selected frame exists because rounding half to even stays below the next integer (`BelowRound`, `SelectedIsFrame`).
`GuidedByFollowedAthlete` compares the state of two loops with a definition on the whole clip, so the invariant says what
each loop has done up to its index (`AnalysisInvariant`):

- `LoopInv` bounds the index in each loop, `SeenInv` says which frames have been read.
- `FollowInv`: the one variable `reference` that a pass carries along is the box of the nearest frame behind the index that
  has one (`Ahead`, `Behind`), and what the pass has not reached is empty. The second pass needs both at its start, which
  is what resetting the reference is for; boxes behind the index never change, so what was followed stays followed
  (`SameFollowed`).
- `GuideInv`: the held box is that of the latest sample, and a frame without an answer changes neither.

What is said of the analysis has invariants of its own, each inductive relative to `AnalysisInvariant`:

- `SoundnessInv`: each association left a record that is sound, and `reference` is a person. The step is a fact about
  `Choose` (`ChooseIs`: it is the first nearest one of its pool, for any list) and one about the cut (`RetainedIs`: at
  most `MaxCandidates` are kept, the chosen one among them): leaving out others does not change who is first, nor whether
  somebody contains the point, so the rule applied to what is kept finds the same box (`SelectionIsSound`).
- `GapInv`: the counters are those of the gaps of the first `i` frames (`GapsUpTo`), of which at most one is open and then
  ends at `i` (`OneOpenGap`). One more frame opens a gap, makes the open one longer or ends it (`GapBegins`,
  `GapGoesOn`, `GapEnds`); that a gap which is made longer does not change the number of gaps is what makes the cardinality work.
- `WarnInv`: a mark that is on began with its first warned frame in a row, each interval is a row of warned frames that
  has ended, and every warned frame is under one or the other (`Reviewed`). It needs times that strictly increase
  (`Increasing`), which rounding alone does not give (`TimestampOrder` is not strict): the planner has refused all other
  clips before the review, and without that guard two rows of frames could have one interval.
- The limit: intervals are in a strict total order (`FinalOrdered`; two of one mark never start together,
  `OneFromEach`), and of any finite set in such an order the first M are M, none of them after one that was cut
  (`FirstKept`).

Theorems: `DetectorRunsOnGrid`, `CameraFollowsAthlete`, `EvidenceExplainsSelection`, `UserIsToldAsItWas`.

**PlannerProofs** (any source, aspect, boxes, thresholds, momentum, shots of any length, limits of motion and annotations;
integer geometry, with every outcome of rounding at a tie). Of the causal planner everything follows from what `Clamp` and `Contain` make of *any* candidate crop,
so that neither gates nor velocities need an invariant beyond their types: `AthleteStaysInFrame`,
`LookaheadRefusesOnlyTight` (the interval of each axis has an element unless rounding tears it at a tie, a box that no
crop holds binds nothing, and any pair of elements is a legal crop), `MissesKeepView`.
`PlannerSeedsCamera` joins the halves of the planner: what `LookaheadCamera` assumes of a frame is true of every crop of
the causal planner, and the boxes that bind the camera are those that are not marked as limited.

Of the camera, `ExcessIsUnavoidable` compares the plan with every path on the lattice, which no program looks at again
after the second one. `CameraInv` therefore says what the programs have left after each pass: all legal paths, then the
`Slowest`, then a subset of the `Smoothest`; legal paths are exactly those that show the boxes (`LegalShows`), and a
minimum exists because the costs are natural numbers. `RestInv` is the argument for `NoNeedlessPan`: a camera that may stay
costs nothing in the first four programs, so it survives until travel is minimised, and then only paths without travel
are left, whichever of them the last two programs take. `EvaluationInv` keeps the metrics tied to the plan they were made
of. The maxima and sums of the costs range over shots of any length; they are handled without induction by taking a
smallest counterexample, since the naturals are well-founded (`LeastNatural`, `FiniteHasGreatest`, `SumIs`). Theorems:
`ShotTyped`, `CameraExcessIsUnavoidable`, `CameraStaysWhereItMay`, `CameraReportsItsTrace`, `EvaluationBlamesJustly`.

**Only model-checked**: all liveness (the prover does not reach ENABLED), with it that an attempt ends;
and the runs that expect a violation.

## 8. What is not modelled

- In the look-ahead: the second axis (the code solves the axes one after the other, and `CropPlanner` has both), sizes
  below a pixel and with them the tolerances of the solver. In the seed controller: real-valued speeds.
- Rounding in the planner, except where it can fail a job (section 3, CropPlanner): `AthleteInFrame`, and all that is said of
  the camera, is exact arithmetic, true of the code's numbers up to rounding. `LookaheadCamera` plans the shots that
  rounding lets through.
- The frames of review clips: `review.py` compares the exit status of FFmpeg and the size of the file, and does not count
  frames, so a clip that FFmpeg ended early is ready in the code and in the model. The time a child or FFmpeg takes to
  obey a signal is unbounded; that SIGKILL reaches the group after one second is part of `Reap`.
- Of the evaluation: motion metrics, means and percentiles, which are arithmetic on annotated clips that nothing is
  decided by, and the comparison of files and hashes before it starts.
- Of the telemetry: the serialisation of records, and the diagnostics that are logged.
- Probing and parsing of FFprobe's answers, the choice and the command line of normalisation, pixel filtering, ONNX
  inference: external, or arithmetic on pixels. A source that is invalid, or too large to
  normalise, is one of the ways in which a stage fails.
- Drawing of the review: no effect on the job.
- Request validation, the configuration hash, other read-only handlers; configuration, logging, tracing and
  start-up checks: straight-line code without state of their own.
- `finalize_debug` and `SetJobFailed`: no caller. Cancellation: no writer.
- Playback in `PhaseReview`, pointer geometry, deployment files, vendored documentation.
