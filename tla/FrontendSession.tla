---------------------------- MODULE FrontendSession ----------------------------
(***************************************************************************)
(* The web page: one React component whose calls to the API are answered   *)
(* in any order, beside timers and clicks.  An answer changes the state    *)
(* whatever has happened since the call.                                   *)
(*                                                                         *)
(* - an upload is one call: what it does between requestUpload and         *)
(*   confirmUpload changes only a progress bar.  Its asset is the file.    *)
(* - a tap stands for a coordinate together with the output settings; a    *)
(*   selection remembers the file whose preview was tapped.                *)
(* - the API answers equal requests with the same job (JobPublication), so *)
(*   a job is named by its request.                                        *)
(***************************************************************************)
EXTENDS FiniteSets, Naturals

CONSTANTS
  Project, File, Tap,
  MaxInFlight,  \* bound on projects and uploads that a user has in flight together
  MaxFaults,    \* bound on failing calls other than those for a review
  None

Asset == [project : Project, file : File]
Selection == [file : File, tap : Tap]
Job == [project : Project, asset : Asset, selection : Selection]

Terminal == {"completed", "failed"}
JobState == {"queued", "running"} \union Terminal
ShownJob == [id : Job, state : JobState]

ASSUME SessionAssumption ==
  /\ MaxInFlight \in Nat \ {0} /\ MaxFaults \in Nat
  /\ None \notin Project \union File \union Asset \union ShownJob
  /\ Project \intersect Asset = {}

VARIABLES
  project, file, asset, selection,
  job,        \* the job shown and the state it is shown in
  link,       \* the job whose download is offered
  review,     \* the evaluation on the page: its job, and whether it is open
  busy,
  timer,      \* the timeout of the next poll is armed
  creating, uploads, polls, linking, loading,  \* calls in flight
  submits,    \* the number of requests for every job in flight
  server,     \* the state of every job at the API
  overtaken,  \* history: projects and uploads in flight when the user started another
  doubled,    \* history: a job was asked for while one was being submitted
  faults

history == <<overtaken, doubled>>

form == <<project, file, asset, selection>>
calls == <<creating, uploads, submits>>
shown == <<job, link, review, timer>>
vars == <<form, calls, shown, busy, polls, linking, loading, server, history, faults>>

Init ==
  /\ project = None /\ file = None /\ asset = None /\ selection = None
  /\ job = None /\ link = None /\ review = None
  /\ busy = FALSE /\ timer = FALSE
  /\ creating = {} /\ uploads = {} /\ submits = [j \in Job |-> 0]
  /\ polls = {} /\ linking = {} /\ loading = None
  /\ server = [j \in Job |-> "none"]
  /\ overtaken = {} /\ doubled = FALSE /\ faults = 0

Fault == faults < MaxFaults /\ faults' = faults + 1

-----------------------------------------------------------------------------
(* Project, source, selection.                                             *)

\* The button waits for the answer, the Enter key of the name field does not.
\* Every creation that is under way stands for a project of its own.
CreateProject ==
  /\ project = None
  /\ Project \ creating # {} /\ Cardinality(creating) < MaxInFlight
  /\ creating' = creating \union {CHOOSE p \in Project \ creating : TRUE}
  /\ overtaken' = overtaken \union creating
  /\ busy' = TRUE
  /\ UNCHANGED <<form, uploads, submits, shown, polls, linking, loading, server, doubled, faults>>

ProjectAnswer(p) ==
  /\ p \in creating
  /\ creating' = creating \ {p}
  /\ \/ project' = p /\ UNCHANGED faults
     \/ UNCHANGED project /\ Fault
  /\ busy' = FALSE
  /\ UNCHANGED <<file, asset, selection, uploads, submits, shown, polls, linking, loading, server, history>>

\* The upload of a file starts; those under way go on.
Upload(u) ==
  /\ u \notin uploads /\ Cardinality(creating) + Cardinality(uploads) < MaxInFlight
  /\ uploads' = uploads \union {u}
  /\ overtaken' = (overtaken \union uploads) \ {u}
  /\ file' = u.file /\ asset' = None
  /\ job' = None /\ timer' = FALSE /\ link' = None /\ review' = None
  /\ busy' = TRUE
  /\ UNCHANGED <<project, creating, submits, polls, linking, loading, server, doubled, faults>>

\* Seeded defect: the source can be replaced, and the selection is kept.
ReplaceFile(f) ==
  /\ project # None
  /\ Upload([project |-> project, file |-> f])
  /\ UNCHANGED selection

\* A file can be picked as long as no upload is confirmed, also while one is under way.
ChooseFile(f) ==
  /\ project # None /\ asset = None
  /\ Upload([project |-> project, file |-> f])
  /\ selection' = None

UploadAnswer(u) ==
  /\ u \in uploads
  /\ uploads' = uploads \ {u}
  /\ \/ asset' = u /\ UNCHANGED faults
     \/ UNCHANGED asset /\ Fault
  /\ busy' = FALSE
  /\ UNCHANGED <<project, file, selection, creating, submits, shown, polls, linking, loading, server, history>>

\* A tap on the preview of the file, or "Choose again".
Select(s) ==
  /\ project # None /\ asset # None
  /\ s = None => selection # None
  /\ s # None => s.file = file
  /\ selection' = s
  /\ UNCHANGED <<project, file, asset, calls, shown, busy, polls, linking, loading, server, history, faults>>

-----------------------------------------------------------------------------
(* The job.                                                                *)

\* Seeded defect: the timer depends on the state of the job, not on the job.
ShowChanged(j, s) ==
  /\ job' = [id |-> j, state |-> s]
  /\ timer' = (s \notin Terminal /\ (job = None \/ [id |-> j, state |-> s] # job))
  /\ linking' = IF s = "completed" /\ job' # job THEN linking \union {j} ELSE linking

\* setJob and its effects: a job that is not terminal arms the timer, a change to
\* completed asks for the download.
Show(j, s) ==
  /\ job' = [id |-> j, state |-> s]
  /\ timer' = (s \notin Terminal)
  /\ linking' = IF s = "completed" /\ job' # job THEN linking \union {j} ELSE linking

StartJob ==
  /\ asset # None /\ selection # None /\ job = None
  /\ project # None /\ ~busy
  /\ submits' = [submits EXCEPT ![[project |-> project, asset |-> asset, selection |-> selection]] = @ + 1]
  /\ doubled' = (doubled \/ \E i \in Job : submits[i] > 0)
  /\ busy' = TRUE
  /\ link' = None /\ review' = None
  /\ UNCHANGED <<form, creating, uploads, job, timer, polls, linking, loading, server, overtaken, faults>>

\* The API refuses the asset of another project.
SubmitAnswer(j) ==
  /\ submits[j] > 0
  /\ submits' = [submits EXCEPT ![j] = @ - 1]
  /\ \/ /\ j.project = j.asset.project
        /\ server' = [server EXCEPT ![j] = IF @ = "none" THEN "queued" ELSE @]
        /\ Show(j, server'[j])
        /\ UNCHANGED faults
     \/ /\ j.project # j.asset.project
        /\ UNCHANGED <<server, job, timer, linking, faults>>
     \/ /\ Fault
        /\ server' \in {server, [server EXCEPT ![j] = IF @ = "none" THEN "queued" ELSE @]}
        /\ UNCHANGED <<job, timer, linking>>
  /\ busy' = FALSE
  /\ UNCHANGED <<form, creating, uploads, link, review, polls, loading, history>>

\* Seeded defect: an interval instead of a timeout polls beside a poll.
Interval ==
  /\ timer
  /\ polls' = polls \union {[id |-> job.id, from |-> server[job.id]]}
  /\ UNCHANGED <<form, calls, shown, busy, linking, loading, server, history, faults>>

Poll ==
  /\ timer
  /\ timer' = FALSE
  /\ polls' = polls \union {[id |-> job.id, from |-> server[job.id]]}
  /\ UNCHANGED <<form, calls, job, link, review, busy, linking, loading, server, history, faults>>

\* The states a job had since the poll was sent.
Since(p) ==
  {p.from, server[p.id]}
    \union (IF p.from = "queued" /\ server[p.id] # "queued" THEN {"running"} ELSE {})

\* A failed poll changes only the error, so that no effect arms the timer again.
PollAnswer(p) ==
  /\ p \in polls
  /\ polls' = polls \ {p}
  /\ \/ \E s \in Since(p) : Show(p.id, s) /\ UNCHANGED faults
     \/ UNCHANGED <<job, timer, linking>> /\ Fault
  /\ UNCHANGED <<form, calls, link, review, busy, loading, server, history>>

LinkAnswer(j) ==
  /\ j \in linking
  /\ linking' = linking \ {j}
  /\ \/ link' = j /\ UNCHANGED faults
     \/ UNCHANGED link /\ Fault
  /\ UNCHANGED <<form, calls, job, review, timer, busy, polls, loading, server, history>>

\* "Review processing" of a finished job, or "Refresh review" of an open one.
OpenReview ==
  /\ job # None /\ loading = None
  /\ job.state \in Terminal \/ (review # None /\ review.open)
  /\ loading' = job.id
  /\ UNCHANGED <<form, calls, shown, busy, polls, linking, server, history, faults>>

ReviewAnswer ==
  /\ loading # None
  /\ loading' = None
  /\ review' \in {review} \union [of : {loading}, open : BOOLEAN]
  /\ UNCHANGED <<form, calls, job, link, timer, busy, polls, linking, server, history, faults>>

CloseReview ==
  /\ review # None /\ review.open
  /\ review' = [review EXCEPT !.open = FALSE]
  /\ UNCHANGED <<form, calls, job, link, timer, busy, polls, linking, loading, server, history, faults>>

\* "Create a new job", offered for a failed one.
Retry ==
  /\ job # None /\ job.state = "failed"
  /\ job' = None /\ timer' = FALSE /\ link' = None /\ review' = None
  /\ UNCHANGED <<form, calls, busy, polls, linking, loading, server, history, faults>>

\* A worker changes the state of a job.
Work(j) ==
  /\ \/ server[j] = "queued" /\ server' = [server EXCEPT ![j] = "running"]
     \/ server[j] = "running" /\ \E s \in Terminal : server' = [server EXCEPT ![j] = s]
  /\ UNCHANGED <<form, calls, shown, busy, polls, linking, loading, history, faults>>

-----------------------------------------------------------------------------
Answer ==
  \/ \E p \in creating : ProjectAnswer(p)
  \/ \E u \in uploads : UploadAnswer(u)
  \/ \E j \in Job : SubmitAnswer(j)
  \/ \E p \in polls : PollAnswer(p)
  \/ \E j \in linking : LinkAnswer(j)
  \/ ReviewAnswer

Next ==
  \/ Answer \/ Poll \/ StartJob \/ OpenReview \/ CloseReview \/ Retry
  \/ CreateProject
  \/ \E f \in File : ChooseFile(f)
  \/ \E s \in Selection \union {None} : Select(s)
  \/ \E j \in Job : Work(j)

Spec == Init /\ [][Next]_vars

\* Calls are answered, timers fire and jobs are worked on; the user need not act.
FairSpec ==
  /\ Spec
  /\ WF_vars(Poll)
  /\ WF_vars(\E p \in polls : PollAnswer(p)) /\ WF_vars(\E j \in linking : LinkAnswer(j))
  /\ WF_vars(\E j \in Job : Work(j))

-----------------------------------------------------------------------------
TypeOK ==
  /\ project \in Project \union {None} /\ file \in File \union {None}
  /\ asset \in Asset \union {None} /\ selection \in Selection \union {None}
  /\ job \in ShownJob \union {None}
  /\ link \in Job \union {None}
  /\ review \in [of : Job, open : BOOLEAN] \union {None}
  /\ busy \in BOOLEAN /\ timer \in BOOLEAN
  /\ creating \subseteq Project /\ uploads \subseteq Asset /\ submits \in [Job -> Nat]
  /\ polls \subseteq [id : Job, from : JobState]
  /\ linking \subseteq Job /\ loading \in Job \union {None}
  /\ server \in [Job -> JobState \union {"none"}]
  /\ overtaken \subseteq Project \union Asset /\ doubled \in BOOLEAN
  /\ faults \in 0..MaxFaults

\* What is submitted belongs together: the selection was made on the preview of
\* the file that was uploaded as the asset, and into the project of the job
\* (docs/specs/frontend/workflow.md:47: the marker's "displayed location matches
\* the submitted source coordinate").  The page does not keep this: while a file is
\* uploaded another one can be picked, and the first one's answer sets the asset.
SelectionIsOnSource ==
  \A j \in Job : submits[j] > 0 => j.selection.file = j.asset.file /\ j.asset.project = j.project

\* The download on the page is that of the job on the page, which is completed.
LinkIsOfShownJob ==
  link # None => job # None /\ job.id = link /\ job.state = "completed"

\* How far the session belongs together, with calls overlapping in any way.  A job is
\* submitted with a selection made on another file only when the upload of its own
\* asset was overtaken by another pick, and with the asset of another project only when
\* a project was overtaken.  The download is that of the job shown, unless a job was
\* asked for while one was being submitted; `busy` prevents that as long as nothing
\* was overtaken, whose answer would reset it.
BelongsTogether ==
  /\ \A j \in Job : submits[j] > 0 =>
       /\ j.selection.file # j.asset.file => j.asset \in overtaken
       /\ j.asset.project # j.project => overtaken \intersect Project # {}
  /\ ~doubled => LinkIsOfShownJob
  /\ doubled => overtaken # {}

Rank(s) == CASE s = "queued" -> 0 [] s = "running" -> 1 [] OTHER -> 2

\* A job on the page never goes back to an earlier state: the answers of polls
\* are not shown out of order, unless a job was asked for twice at once, each answer
\* of which starts polls of its own.
ShownNeverGoesBack ==
  [][~doubled /\ job # None /\ job' # None /\ job'.id = job.id => Rank(job.state) <= Rank(job'.state)]_vars

\* When no call fails and jobs are asked for one at a time, the end of a job that is
\* shown is shown too, with its download when it is completed.
EndIsShown ==
  job # None ~>
    \/ faults > 0 \/ doubled
    \/ job # None /\ (job.state = "failed" \/ (job.state = "completed" /\ link = job.id))

\* docs/specs/frontend/workflow.md: "the UI polls GET /api/v1/jobs/{id} every 1.8
\* seconds while the state is non-terminal".
PollsWhileRunning == job # None /\ job.state \notin Terminal => timer \/ polls # {}

\* docs/specs/frontend/phase-evaluation.md: "The terminal card requests evaluation
\* only after the user chooses Review processing": what is on the page was
\* asked for the job on the page.
ReviewIsOfShownJob == review # None => job # None /\ review.of = job.id

\* docs/specs/frontend/workflow.md: "A failure offers creation of a new job".
RetryShowsNewJob == [][job = None /\ job' # None => job'.state # "failed"]_vars
=============================================================================
