------------------------ MODULE FrontendSessionProofs ------------------------
(***************************************************************************)
(* What the page may rely on in whatever order its calls are started,      *)
(* answered and fail, for any number of projects, files, taps, calls in    *)
(* flight and failing calls.  The user need not wait for an answer: what   *)
(* an overtaken upload or project may spoil is part of the statements.     *)
(***************************************************************************)
EXTENDS FrontendSession, TLAPS

\* The selection was made on the file; so was every upload that was not overtaken.
FormInv ==
  /\ project \in Project \union {None} /\ file \in File \union {None}
  /\ creating \subseteq Project
  /\ uploads \subseteq Asset /\ asset \in Asset \union {None}
  /\ selection \in Selection \union {None}
  /\ project = None => uploads = {} /\ asset = None
  /\ selection # None => selection.file = file
  /\ \A u \in uploads : u.file # file => u \in overtaken
  /\ asset # None /\ asset.file # file => asset \in overtaken

\* The project is chosen once, unless one was overtaken.
ProjectInv ==
  overtaken \intersect Project = {} =>
    /\ \A p, q \in creating : p = q
    /\ creating # {} => project = None
    /\ \A u \in uploads : u.project = project
    /\ asset # None => asset.project = project

\* A job that is submitted was put together from such a form.
SubmittedInv ==
  /\ submits \in [Job -> Nat]
  /\ doubled => asset # None
  /\ \A j \in Job : submits[j] > 0 =>
       /\ asset # None
       /\ j.selection.file # j.asset.file => j.asset \in overtaken
       /\ j.asset.project # j.project => overtaken \intersect Project # {}

\* As long as nothing was overtaken, `busy` is held by the one call under way.
LockInv ==
  overtaken = {} =>
    /\ ~doubled
    /\ uploads # {} => asset = None
    /\ \A u, v \in uploads : u = v
    /\ (\E j \in Job : submits[j] > 0) => busy

\* One job is submitted at a time, and none beside the job shown.
SubmitInv ==
  /\ \A j \in Job : submits[j] > 0 => job = None /\ submits[j] = 1
  /\ \A i, j \in Job : submits[i] > 0 /\ submits[j] > 0 => i = j

\* At most one poll is under way, and no timer beside it; what is asked for belongs to
\* the job that is shown, which no longer changes once it has a terminal state.
FollowInv ==
  /\ job # None => job \in ShownJob /\ asset # None
  /\ job = None => ~timer /\ polls = {} /\ linking = {}
  /\ timer => polls = {} /\ job.state \notin Terminal
  /\ \A p, q \in polls : p = q
  /\ \A p \in polls : p.id = job.id /\ job.state \notin Terminal
  /\ \A j \in linking : j = job.id /\ job.state = "completed"

\* The page lags behind a poll, and the poll behind the server.
ServerInv ==
  /\ server \in [Job -> JobState \union {"none"}]
  /\ job # None => server[job.id] \in JobState /\ Rank(job.state) <= Rank(server[job.id])
  /\ \A p \in polls : /\ p.from \in JobState /\ server[p.id] \in JobState
                      /\ Rank(job.state) <= Rank(p.from) /\ Rank(p.from) <= Rank(server[p.id])

PageInv == FormInv /\ ProjectInv /\ SubmittedInv /\ LockInv
OneJobInv == SubmitInv /\ FollowInv /\ ServerInv /\ LinkIsOfShownJob

SessionInv == doubled \in BOOLEAN /\ PageInv /\ (~doubled => OneJobInv)

-----------------------------------------------------------------------------
(* The form.                                                               *)

\* Without an asset there is no job, nor a second one asked for.
LEMMA NoJobYet ==
  ASSUME SessionInv, asset = None
  PROVE  /\ ~doubled /\ job = None /\ link = None /\ ~timer /\ polls = {} /\ linking = {}
         /\ \A j \in Job : ~(submits[j] > 0)
PROOF
<1>1. ~doubled /\ \A j \in Job : ~(submits[j] > 0)
  BY DEF SessionInv, PageInv, SubmittedInv
<1> QED
  BY <1>1 DEF SessionInv, OneJobInv, FollowInv, LinkIsOfShownJob

\* A project or a file overtakes what is under way; the answer to an overtaken call is
\* remembered as such.
LEMMA PageStep ==
  ASSUME SessionInv,
         \/ CreateProject
         \/ \E p \in creating : ProjectAnswer(p)
         \/ \E f \in File : ChooseFile(f)
         \/ \E u \in uploads : UploadAnswer(u)
         \/ \E s \in Selection \union {None} : Select(s)
  PROVE  PageInv'
PROOF
<1> USE DEF SessionInv, PageInv
<1>1. ASSUME CreateProject PROVE PageInv'
  <2> DEFINE p == CHOOSE q \in Project \ creating : TRUE
  <2>1. /\ project = None /\ asset = None /\ uploads = {}
        /\ creating' = creating \union {p} /\ overtaken' = overtaken \union creating
        /\ UNCHANGED <<project, file, asset, selection, uploads, submits, doubled>>
    BY <1>1 DEF CreateProject, FormInv, form
  <2>2. p \in Project
    BY <1>1 DEF CreateProject
  <2> HIDE DEF p
  <2>3. FormInv'
    BY <2>1, <2>2 DEF FormInv
  <2>4. ProjectInv'
    BY <2>1, <2>2 DEF ProjectInv, FormInv
  <2>5. SubmittedInv' /\ LockInv'
    BY <2>1, NoJobYet DEF SubmittedInv, LockInv
  <2> QED
    BY <2>3, <2>4, <2>5
<1>2. ASSUME NEW p \in creating, ProjectAnswer(p) PROVE PageInv'
  <2>1. /\ creating' = creating \ {p} /\ project' \in {p, project}
        /\ UNCHANGED <<file, asset, selection, uploads, submits, overtaken, doubled>>
    BY <1>2 DEF ProjectAnswer, history
  <2>2. p \in Project /\ p # None
    BY SessionAssumption DEF FormInv
  <2>3. FormInv'
    BY <2>1, <2>2 DEF FormInv
  <2>4. overtaken \intersect Project = {} => project = None /\ creating = {p} /\ uploads = {} /\ asset = None
    BY DEF ProjectInv, FormInv
  <2>5. ProjectInv'
    BY <2>1, <2>4 DEF ProjectInv
  <2>6. SubmittedInv'
    BY <2>1 DEF SubmittedInv
  <2>7. LockInv'
    BY <2>1, <2>4, NoJobYet DEF LockInv
  <2> QED
    BY <2>3, <2>5, <2>6, <2>7
<1>3. ASSUME NEW f \in File, ChooseFile(f) PROVE PageInv'
  <2> DEFINE u == [project |-> project, file |-> f]
  <2>1. /\ project # None /\ asset = None /\ u \notin uploads
        /\ uploads' = uploads \union {u} /\ overtaken' = (overtaken \union uploads) \ {u}
        /\ file' = f /\ selection' = None /\ asset' = None
        /\ UNCHANGED <<project, creating, submits, doubled>>
    BY <1>3 DEF ChooseFile, Upload
  <2>2. u \in Asset /\ u.file = f /\ u.project = project
    BY <2>1 DEF FormInv, Asset
  <2> HIDE DEF u
  <2>3. u \notin Project
    BY <2>2, SessionAssumption
  <2>4. FormInv'
    BY <2>1, <2>2 DEF FormInv
  <2>5. overtaken' \intersect Project = {} => overtaken \intersect Project = {}
    BY <2>1, <2>3
  <2>6. ProjectInv'
    BY <2>1, <2>2, <2>5 DEF ProjectInv
  <2>7. SubmittedInv' /\ ~doubled'
    BY <2>1, NoJobYet DEF SubmittedInv
  <2>8. overtaken' = {} => uploads' = {u}
    BY <2>1
  <2>9. LockInv'
    BY <2>1, <2>7, <2>8, NoJobYet DEF LockInv
  <2> QED
    BY <2>4, <2>6, <2>7, <2>9
<1>4. ASSUME NEW u \in uploads, UploadAnswer(u) PROVE PageInv'
  <2>1. /\ uploads' = uploads \ {u} /\ asset' \in {u, asset}
        /\ UNCHANGED <<project, file, selection, creating, submits, overtaken, doubled>>
    BY <1>4 DEF UploadAnswer, history
  <2>2. u \in Asset /\ u # None
    BY SessionAssumption DEF FormInv, Asset
  <2>3. FormInv' /\ ProjectInv' /\ SubmittedInv'
    BY <2>1, <2>2 DEF FormInv, ProjectInv, SubmittedInv
  <2>4. overtaken = {} => asset = None /\ uploads = {u}
    BY DEF LockInv
  <2>5. LockInv'
    BY <2>1, <2>4, NoJobYet DEF LockInv
  <2> QED
    BY <2>3, <2>5
<1>5. ASSUME NEW s \in Selection \union {None}, Select(s) PROVE PageInv'
  <2>1. /\ selection' = s /\ (s # None => s.file = file)
        /\ UNCHANGED <<project, file, asset, creating, uploads, submits, busy, overtaken, doubled>>
    BY <1>5 DEF Select, calls, history
  <2> QED
    BY <2>1 DEF FormInv, ProjectInv, SubmittedInv, LockInv
<1> QED
  BY <1>1, <1>2, <1>3, <1>4, <1>5

\* Those steps find no job that depends on the form, or leave it alone.
LEMMA FormStep ==
  ASSUME SessionInv,
         \/ CreateProject
         \/ \E p \in creating : ProjectAnswer(p)
         \/ \E f \in File : ChooseFile(f)
         \/ \E u \in uploads : UploadAnswer(u)
         \/ \E s \in Selection \union {None} : Select(s)
  PROVE  SessionInv'
PROOF
<1>1. PageInv'
  BY PageStep
<1>2. UNCHANGED doubled
  BY DEF CreateProject, ProjectAnswer, ChooseFile, Upload, UploadAnswer, Select, history
<1>3. ASSUME NEW f \in File, ChooseFile(f), ~doubled PROVE OneJobInv'
  <2>1. /\ asset = None /\ job' = None /\ timer' = FALSE /\ link' = None
        /\ UNCHANGED <<submits, polls, linking, server>>
    BY <1>3 DEF ChooseFile, Upload
  <2> QED
    BY <1>3, <2>1, NoJobYet DEF SessionInv, OneJobInv, SubmitInv, FollowInv, ServerInv, LinkIsOfShownJob
<1>4. ASSUME ~doubled, UNCHANGED <<submits, job, link, timer, polls, linking, server>>,
             asset # None => asset' # None
      PROVE  OneJobInv'
  BY <1>4 DEF SessionInv, OneJobInv, SubmitInv, FollowInv, ServerInv, LinkIsOfShownJob
<1>5. \/ \E f \in File : ChooseFile(f)
      \/ /\ UNCHANGED <<submits, job, link, timer, polls, linking, server>>
         /\ asset # None => asset' # None
  <2>1. \A u \in uploads : u # None
    BY SessionAssumption DEF SessionInv, PageInv, FormInv, Asset
  <2> QED
    BY <2>1 DEF CreateProject, ProjectAnswer, UploadAnswer, Select, form, calls, shown
<1> QED
  BY <1>1, <1>2, <1>3, <1>4, <1>5 DEF SessionInv

-----------------------------------------------------------------------------
(* The job.                                                                *)

\* Setting the job that is shown arms the timer or asks for the download.
LEMMA ShowFollows ==
  ASSUME NEW j \in Job, NEW s \in JobState, asset # None,
         job = None => ~timer /\ linking = {},
         \A i \in linking : i = j /\ job.state = "completed" /\ s = "completed",
         Show(j, s), polls' = {}, UNCHANGED asset
  PROVE  FollowInv' /\ job' # None /\ job'.id = j /\ job'.state = s
PROOF
<1>1. /\ job' = [id |-> j, state |-> s] /\ timer' = (s \notin Terminal)
      /\ linking' \in {linking, linking \union {j}} /\ (s # "completed" => linking' = linking)
  BY DEF Show
<1>2. job' \in ShownJob /\ job' # None /\ job'.id = j /\ job'.state = s
  BY <1>1, SessionAssumption DEF ShownJob
<1> QED
  BY <1>1, <1>2 DEF FollowInv

\* What is submitted was put together from the form; while it is submitted no second
\* one is, unless a call that was overtaken has reset `busy`.
LEMMA StartJobStep ==
  ASSUME SessionInv, StartJob
  PROVE  SessionInv'
PROOF
<1> USE DEF SessionInv, PageInv
<1> DEFINE j == [project |-> project, asset |-> asset, selection |-> selection]
<1>1. /\ asset # None /\ selection # None /\ job = None /\ project # None /\ ~busy
      /\ submits' = [submits EXCEPT ![j] = @ + 1]
      /\ doubled' = (doubled \/ \E i \in Job : submits[i] > 0)
      /\ busy' = TRUE /\ link' = None
      /\ UNCHANGED <<project, file, asset, selection, creating, uploads, overtaken,
                     job, timer, polls, linking, server>>
  BY DEF StartJob, form
<1>2. j \in Job /\ j.asset = asset /\ j.project = project /\ j.selection = selection
  BY <1>1 DEF FormInv, Job
<1> HIDE DEF j
<1>3. submits \in [Job -> Nat]
  BY DEF SubmittedInv
<1>4. submits'[j] = submits[j] + 1 /\ \A i \in Job : i # j => submits'[i] = submits[i]
  BY <1>1, <1>2, <1>3
<1>5. submits' \in [Job -> Nat]
  BY <1>1, <1>2, <1>3
<1>6. FormInv' /\ ProjectInv'
  BY <1>1 DEF FormInv, ProjectInv
<1>7. /\ j.selection.file # j.asset.file => j.asset \in overtaken
      /\ j.asset.project # j.project => overtaken \intersect Project # {}
  BY <1>1, <1>2 DEF FormInv, ProjectInv
<1>8. SubmittedInv'
  BY <1>1, <1>4, <1>5, <1>7 DEF SubmittedInv
<1>9. LockInv'
  BY <1>1 DEF LockInv
<1>10. ASSUME ~doubled' PROVE OneJobInv'
  <2>1. ~doubled /\ \A i \in Job : ~(submits[i] > 0)
    BY <1>1, <1>10, Zenon
  <2>2. \A i \in Job : submits[i] = 0
    BY <1>3, <2>1
  <2>3. SubmitInv'
    BY <1>1, <1>2, <1>4, <2>2 DEF SubmitInv
  <2>4. FollowInv' /\ ServerInv' /\ LinkIsOfShownJob'
    BY <1>1, <2>1 DEF OneJobInv, FollowInv, ServerInv, LinkIsOfShownJob
  <2> QED
    BY <2>3, <2>4 DEF OneJobInv
<1> QED
  BY <1>1, <1>6, <1>8, <1>9, <1>10

\* The answer to the one submission shows its job, or nothing.
LEMMA SubmitAnswerStep ==
  ASSUME SessionInv, NEW j \in Job, SubmitAnswer(j)
  PROVE  SessionInv'
PROOF
<1> USE DEF SessionInv, PageInv
<1>1. /\ submits[j] > 0 /\ submits' = [submits EXCEPT ![j] = @ - 1] /\ busy' = FALSE
      /\ UNCHANGED <<project, file, asset, selection, creating, uploads, overtaken, doubled, link, polls>>
  BY DEF SubmitAnswer, form, history
<1>2. submits \in [Job -> Nat]
  BY DEF SubmittedInv
<1>3. submits' \in [Job -> Nat] /\ submits'[j] = submits[j] - 1
      /\ \A i \in Job : submits'[i] > 0 => submits[i] > 0
  BY <1>1, <1>2
<1>4. FormInv' /\ ProjectInv' /\ SubmittedInv'
  BY <1>1, <1>3 DEF FormInv, ProjectInv, SubmittedInv
<1>5. ~doubled => \A i \in Job : ~(submits'[i] > 0)
  BY <1>1, <1>2, <1>3 DEF OneJobInv, SubmitInv
<1>6. LockInv'
  BY <1>1, <1>5 DEF LockInv
<1>7. ASSUME ~doubled PROVE OneJobInv'
  <2>1. job = None /\ asset # None /\ ~timer /\ polls = {} /\ linking = {} /\ link = None
    BY <1>1, <1>7 DEF SubmittedInv, OneJobInv, SubmitInv, FollowInv, LinkIsOfShownJob
  <2>2. SubmitInv' /\ LinkIsOfShownJob'
    BY <1>1, <1>5, <1>7, <2>1 DEF SubmitInv, LinkIsOfShownJob
  <2>3. server' \in {server, [server EXCEPT ![j] = IF @ = "none" THEN "queued" ELSE @]}
    BY DEF SubmitAnswer
  <2>4. server' \in [Job -> JobState \union {"none"}]
    BY <1>7, <2>3 DEF OneJobInv, ServerInv, JobState
  <2>5. CASE UNCHANGED <<job, timer, linking>>
    BY <1>1, <2>1, <2>2, <2>4, <2>5 DEF OneJobInv, FollowInv, ServerInv
  <2>6. CASE Show(j, server'[j]) /\ server' = [server EXCEPT ![j] = IF @ = "none" THEN "queued" ELSE @]
    <3>1. server'[j] \in JobState
      BY <1>7, <2>6 DEF OneJobInv, ServerInv, JobState
    <3>2. FollowInv' /\ job' # None /\ job'.id = j /\ job'.state = server'[j]
      BY <1>1, <2>1, <2>6, <3>1, ShowFollows
    <3>3. Rank(server'[j]) <= Rank(server'[j])
      BY DEF Rank
    <3>4. ServerInv'
      BY <1>1, <2>1, <2>4, <3>1, <3>2, <3>3 DEF ServerInv
    <3> QED
      BY <2>2, <3>2, <3>4 DEF OneJobInv
  <2> QED
    BY <2>5, <2>6 DEF SubmitAnswer
<1> QED
  BY <1>1, <1>4, <1>6, <1>7

\* What follows the job leaves the form and its submission alone.
LEMMA PageAlone ==
  ASSUME SessionInv,
         UNCHANGED <<project, file, asset, selection, creating, uploads, submits, busy, overtaken, doubled>>
  PROVE  /\ doubled' \in BOOLEAN /\ PageInv'
         /\ ~doubled /\ (job = None <=> job' = None) => SubmitInv'
PROOF
<1>1. doubled' \in BOOLEAN /\ PageInv'
  BY DEF SessionInv, PageInv, FormInv, ProjectInv, SubmittedInv, LockInv
<1> QED
  BY <1>1 DEF SessionInv, OneJobInv, SubmitInv

\* A poll sees the job as it is now.
LEMMA PollStep ==
  ASSUME SessionInv, Poll
  PROVE  SessionInv'
PROOF
<1>1. /\ timer /\ timer' = FALSE /\ polls' = polls \union {[id |-> job.id, from |-> server[job.id]]}
      /\ UNCHANGED <<project, file, asset, selection, creating, uploads, submits, busy, overtaken, doubled,
                     job, link, linking, server>>
  BY DEF Poll, form, calls, history
<1>2. ASSUME ~doubled PROVE OneJobInv'
  <2> USE DEF SessionInv, OneJobInv
  <2>1. job # None /\ polls = {} /\ job.state \notin Terminal
    BY <1>1, <1>2 DEF FollowInv
  <2>2. SubmitInv' /\ FollowInv' /\ LinkIsOfShownJob'
    BY <1>1, <1>2, <2>1 DEF SubmitInv, FollowInv, LinkIsOfShownJob
  <2>3. Rank(server[job.id]) <= Rank(server[job.id])
    BY DEF Rank
  <2>4. ServerInv'
    BY <1>1, <1>2, <2>1, <2>3 DEF ServerInv
  <2> QED
    BY <2>2, <2>4
<1> QED
  BY <1>1, <1>2, PageAlone DEF SessionInv

\* What a poll may answer lies between the state it was sent in and the present one.
LEMMA SinceBetween ==
  ASSUME ServerInv, NEW p \in polls, NEW s \in Since(p)
  PROVE  s \in JobState /\ Rank(p.from) <= Rank(s) /\ Rank(s) <= Rank(server[p.id])
PROOF
  BY DEF ServerInv, Since, Rank, JobState, Terminal

\* The answer to the one poll shows a state at least as late as the one shown.
LEMMA PollAnswerStep ==
  ASSUME SessionInv, NEW p \in polls, PollAnswer(p)
  PROVE  /\ SessionInv'
         /\ ~doubled /\ job' # job => Rank(job.state) <= Rank(job'.state)
PROOF
<1>1. UNCHANGED <<project, file, asset, selection, creating, uploads, submits, busy, overtaken, doubled,
                  link, server>>
  BY DEF PollAnswer, form, calls, history
<1>2. ASSUME ~doubled
      PROVE  OneJobInv' /\ (job' # job => Rank(job.state) <= Rank(job'.state))
  <2> USE DEF SessionInv, PageInv, OneJobInv
  <2>1. /\ polls' = {} /\ job # None /\ p.id = job.id /\ job.state \notin Terminal /\ ~timer
    BY <1>2 DEF PollAnswer, FollowInv
  <2>2. /\ linking = {} /\ link = None /\ asset # None /\ job.id \in Job
        /\ \A j \in Job : ~(submits[j] > 0)
    BY <1>2, <2>1 DEF FollowInv, SubmitInv, LinkIsOfShownJob, Terminal, ShownJob
  <2>3. SubmitInv' /\ LinkIsOfShownJob'
    BY <1>1, <2>2 DEF SubmitInv, LinkIsOfShownJob
  <2>4. CASE UNCHANGED <<job, timer, linking>>
    BY <1>1, <1>2, <2>1, <2>2, <2>3, <2>4 DEF FollowInv, ServerInv
  <2>5. ASSUME NEW s \in Since(p), Show(p.id, s)
        PROVE  OneJobInv' /\ Rank(job.state) <= Rank(job'.state)
    <3>1. s \in JobState /\ Rank(p.from) <= Rank(s) /\ Rank(s) <= Rank(server[p.id])
      BY <1>2, SinceBetween
    <3>2. FollowInv' /\ job' # None /\ job'.id = p.id /\ job'.state = s
      BY <1>1, <2>1, <2>2, <2>5, <3>1, ShowFollows
    <3>3. server[p.id] \in JobState /\ Rank(job.state) <= Rank(p.from)
      BY <1>2 DEF ServerInv
    <3>4. ServerInv'
      BY <1>1, <1>2, <2>1, <3>1, <3>2, <3>3 DEF ServerInv
    <3>5. \A t \in {job.state, p.from, s} : Rank(t) \in Nat
      BY DEF Rank
    <3>6. Rank(job.state) <= Rank(s)
      BY <3>1, <3>3, <3>5
    <3> QED
      BY <2>3, <3>2, <3>4, <3>6
  <2> QED
    BY <2>4, <2>5 DEF PollAnswer
<1> QED
  BY <1>1, <1>2, PageAlone DEF SessionInv

\* The download arrives while its job is shown, completed.
LEMMA LinkAnswerStep ==
  ASSUME SessionInv, NEW j \in linking, LinkAnswer(j)
  PROVE  SessionInv'
PROOF
<1>1. /\ link' \in {j, link} /\ linking' \subseteq linking
      /\ UNCHANGED <<project, file, asset, selection, creating, uploads, submits, busy, overtaken, doubled,
                     job, timer, polls, server>>
  BY DEF LinkAnswer, form, calls, history
<1>2. ASSUME ~doubled PROVE OneJobInv'
  <2> USE DEF SessionInv, OneJobInv
  <2>1. job # None /\ j = job.id /\ job.state = "completed"
    BY <1>2 DEF FollowInv
  <2> QED
    BY <1>1, <1>2, <2>1 DEF SubmitInv, FollowInv, ServerInv, LinkIsOfShownJob
<1> QED
  BY <1>1, <1>2, PageAlone DEF SessionInv

\* A failed job is left only when nothing is under way for it.
LEMMA RetryStep ==
  ASSUME SessionInv, Retry
  PROVE  SessionInv'
PROOF
<1>1. /\ job # None /\ job.state = "failed" /\ job' = None /\ timer' = FALSE /\ link' = None
      /\ UNCHANGED <<project, file, asset, selection, creating, uploads, submits, busy, overtaken, doubled,
                     polls, linking, server>>
  BY DEF Retry, form, calls, history
<1>2. ASSUME ~doubled PROVE OneJobInv'
  <2> USE DEF SessionInv, OneJobInv
  <2>1. polls = {} /\ linking = {}
    BY <1>1, <1>2 DEF FollowInv, Terminal
  <2> QED
    BY <1>1, <1>2, <2>1 DEF SubmitInv, FollowInv, ServerInv, LinkIsOfShownJob
<1> QED
  BY <1>1, <1>2, PageAlone DEF SessionInv

\* A worker takes a job forwards, and the review is beside all this.
LEMMA ElsewhereStep ==
  ASSUME SessionInv,
         (\E j \in Job : Work(j)) \/ OpenReview \/ ReviewAnswer \/ CloseReview \/ UNCHANGED vars
  PROVE  SessionInv' /\ UNCHANGED job
PROOF
<1>1. UNCHANGED <<project, file, asset, selection, creating, uploads, submits, busy, overtaken, doubled,
                  job, link, timer, polls, linking>>
  BY DEF Work, OpenReview, ReviewAnswer, CloseReview, vars, form, calls, shown, history
<1>2. ASSUME ~doubled PROVE OneJobInv'
  <2> USE DEF SessionInv, OneJobInv
  <2>1. SubmitInv' /\ FollowInv' /\ LinkIsOfShownJob'
    BY <1>1, <1>2 DEF SubmitInv, FollowInv, LinkIsOfShownJob
  <2>2. CASE UNCHANGED server
    BY <1>1, <1>2, <2>1, <2>2 DEF ServerInv
  <2>3. ASSUME NEW j \in Job, Work(j) PROVE ServerInv'
    <3>1. server' \in [Job -> JobState \union {"none"}]
      BY <1>2, <2>3 DEF Work, ServerInv, JobState, Terminal
    <3>2. \A i \in Job : server[i] \in JobState =>
                           server'[i] \in JobState /\ Rank(server[i]) <= Rank(server'[i])
      BY <1>2, <2>3 DEF Work, ServerInv, JobState, Terminal, Rank
    <3>3. \A s : Rank(s) \in Nat
      BY DEF Rank
    <3>4. job # None => job.id \in Job
      BY <1>2 DEF FollowInv, ShownJob
    <3>5. \A p \in polls : job # None /\ p.id = job.id
      BY <1>2 DEF FollowInv
    <3> QED
      BY <1>1, <1>2, <3>1, <3>2, <3>3, <3>4, <3>5 DEF ServerInv
  <2>4. UNCHANGED server \/ \E j \in Job : Work(j)
    BY DEF OpenReview, ReviewAnswer, CloseReview, vars
  <2> QED
    BY <2>1, <2>2, <2>3, <2>4
<1> QED
  BY <1>1, <1>2, PageAlone DEF SessionInv

-----------------------------------------------------------------------------
\* Every step keeps the session together.
LEMMA NextStep == SessionInv /\ [Next]_vars => SessionInv'
PROOF
  BY FormStep, StartJobStep, SubmitAnswerStep, PollStep, PollAnswerStep, LinkAnswerStep, RetryStep,
     ElsewhereStep DEF Next, Answer

\* The session invariant, in whatever order calls are started, answered and fail.
THEOREM Invariant == Spec => []SessionInv
PROOF
<1>1. Init => SessionInv
  <2> SUFFICES ASSUME Init PROVE SessionInv
    OBVIOUS
  <2>1. submits \in [Job -> Nat] /\ \A j \in Job : ~(submits[j] > 0)
    BY DEF Init
  <2>2. PageInv
    BY <2>1 DEF Init, PageInv, FormInv, ProjectInv, SubmittedInv, LockInv
  <2>3. OneJobInv
    BY <2>1 DEF Init, OneJobInv, SubmitInv, FollowInv, ServerInv, LinkIsOfShownJob
  <2> QED
    BY <2>2, <2>3 DEF Init, SessionInv
<1>2. SessionInv /\ [Next]_vars => SessionInv'
  BY NextStep
<1> QED
  BY <1>1, <1>2, PTL DEF Spec

\* However the calls of the page overlap: startJob submits a selection made on the file it
\* submits unless the upload of that very asset was overtaken, and the page offers the
\* download of the job it shows unless a job was asked for while one was being submitted,
\* which `busy` prevents as long as no upload or project was overtaken.
THEOREM SessionBelongsTogether == Spec => []BelongsTogether
PROOF
<1>1. SessionInv => BelongsTogether
  BY DEF SessionInv, PageInv, SubmittedInv, LockInv, OneJobInv, BelongsTogether
<1> QED
  BY <1>1, Invariant, PTL

\* The effect that polls shows no answer out of order, as long as jobs are asked for one at
\* a time: the timer is armed only when no poll is under way.
THEOREM ShownOnlyAdvances == Spec => ShownNeverGoesBack
PROOF
<1> DEFINE Forwards == ~doubled /\ job # None /\ job' # None /\ job'.id = job.id =>
                         Rank(job.state) <= Rank(job'.state)
<1>1. SessionInv /\ [Next]_vars => [Forwards]_vars
  <2> SUFFICES ASSUME SessionInv, Next, ~doubled, job # None, job' # None
               PROVE  Rank(job.state) <= Rank(job'.state)
    OBVIOUS
  <2>1. \A s : Rank(s) <= Rank(s)
    BY DEF Rank
  <2>2. CASE \E p \in polls : PollAnswer(p)
    BY <2>1, <2>2, PollAnswerStep
  <2>3. asset # None /\ \A j \in Job : ~(submits[j] > 0)
    BY DEF SessionInv, OneJobInv, SubmitInv, FollowInv
  <2>4. CASE UNCHANGED job
    BY <2>1, <2>4
  <2>5. (\E p \in polls : PollAnswer(p)) \/ UNCHANGED job
    BY <2>3 DEF Next, Answer, SubmitAnswer, ProjectAnswer, UploadAnswer, LinkAnswer, ReviewAnswer, Poll,
                StartJob, OpenReview, CloseReview, Retry, CreateProject, ChooseFile, Select, Work, shown
  <2> QED
    BY <2>2, <2>4, <2>5
<1> QED
  BY <1>1, Invariant, PTL DEF Spec, ShownNeverGoesBack
=============================================================================
