---------------------------- MODULE JobIntakeProofs ----------------------------
(***************************************************************************)
(* The safety of the API, for any number of confirmations, uploads,        *)
(* requests for jobs and faults: first that of publication, then that of   *)
(* the whole.                                                              *)
(*                                                                         *)
(* Publication: the invariants of the two stores are tied together by the  *)
(* handlers that are between them.  A request that may still append an     *)
(* entry has seen no key since its WATCH, and a job past "queued" had an   *)
(* entry to start from.                                                    *)
(*                                                                         *)
(* The whole: it implements both of its parts, so that what is proved of   *)
(* publication holds of it; and what no part promises alone, that every    *)
(* job has a source, follows from what they hold of each other.            *)
(***************************************************************************)
EXTENDS JobIntake, TLAPS

-----------------------------------------------------------------------------
(* Publication.                                                            *)

\* A job is named by a request for its configuration, so that no two
\* configurations share one, and its row has a state.
RowsInv ==
  \A c \in Configuration : jobs[c] # NoJob =>
    /\ asked[jobs[c]] = c
    /\ jobState[jobs[c]] # "none"

\* A job leaves "queued" only through its entry.
StartedInv == \A j \in Request : jobState[j] = "started" => entries[j] > 0

\* What a request holds: the row of its configuration, and an EXEC that will
\* fail if the key is set by now.
HandlerInv(r) ==
  /\ got[r] # NoJob => got[r] = jobs[asked[r]]
  /\ pc[r] \in {"watch", "exec"} => got[r] # NoJob
  /\ pc[r] = "exec" /\ ~dirty[r] => got[r] \notin index
  /\ reply[r] = "201" => got[r] # NoJob /\ entries[got[r]] > 0

IInv ==
  /\ TypeOK
  /\ AtMostOneEntry
  /\ KeyMeansEntry
  /\ RowsInv
  /\ StartedInv
  /\ \A r \in Request : HandlerInv(r)

-----------------------------------------------------------------------------
\* The fault budget is never exceeded.
LEMMA FaultTypes ==
  ASSUME faults \in 0..MaxFaults, Fault \/ UNCHANGED faults
  PROVE  faults' \in 0..MaxFaults
PROOF
  BY PublicationAssumption DEF Fault

\* The upsert leaves exactly one row for the configuration, and every other
\* row as it was.
LEMMA UpsertRow ==
  ASSUME IInv, NEW r \in Request, Upsert(r)
  PROVE  /\ jobs' \in [Configuration -> Request \union {NoJob}]
         /\ jobState' \in [Request -> {"none", "queued", "started"}]
         /\ jobs'[asked[r]] \in Request
         /\ \A c \in Configuration : jobs[c] # NoJob => jobs'[c] = jobs[c]
         /\ asked' = asked => RowsInv'
         /\ entries' = entries => StartedInv'
         /\ ~MustPublish(r) => entries[jobs'[asked[r]]] > 0
PROOF
<1> USE PublicationAssumption DEF IInv, TypeOK
<1>1. CASE jobs[asked[r]] = NoJob
  <2>1. jobs' = [jobs EXCEPT ![asked[r]] = r] /\ jobState' = [jobState EXCEPT ![r] = "queued"]
    BY <1>1 DEF Upsert
  <2>2. \A c \in Configuration : jobs[c] # NoJob => jobs'[c] = jobs[c]
    BY <1>1, <2>1
  <2>3. asked' = asked => RowsInv'
    BY <1>1, <2>1 DEF RowsInv
  <2>4. entries' = entries => StartedInv'
    BY <2>1 DEF StartedInv
  <2> QED
    BY <1>1, <2>1, <2>2, <2>3, <2>4 DEF MustPublish
<1>2. CASE jobs[asked[r]] # NoJob
  <2>1. UNCHANGED <<jobs, jobState>>
    BY <1>2 DEF Upsert
  <2>2. ~MustPublish(r) => entries[jobs[asked[r]]] > 0
    <3> SUFFICES ASSUME ~MustPublish(r) PROVE entries[jobs[asked[r]]] > 0
      OBVIOUS
    <3>1. jobs[asked[r]] \in Request /\ asked[r] \in Configuration
      BY <1>2
    <3>2. jobState[jobs[asked[r]]] = "started"
      BY <1>2, <3>1 DEF RowsInv, MustPublish
    <3> QED
      BY <3>1, <3>2 DEF StartedInv
  <2> QED
    BY <1>2, <2>1, <2>2 DEF RowsInv, StartedInv
<1> QED
  BY <1>1, <1>2

\* A database transaction that is not committed changes no row.
LEMMA NoUpsertRow ==
  ASSUME IInv, UNCHANGED <<jobs, jobState, entries, asked>>
  PROVE  RowsInv' /\ StartedInv'
PROOF
  BY DEF IInv, RowsInv, StartedInv

\* An EXEC that is executed appends the first entry of its job, and every
\* request that watches the same key learns of it.
LEMMA PublishedStores ==
  ASSUME IInv, NEW r \in Request, pc[r] = "exec", Published(r)
  PROVE  /\ entries' \in [Request -> Nat] /\ index' \in SUBSET Request
         /\ dirty' \in [Request -> BOOLEAN]
         /\ AtMostOneEntry' /\ KeyMeansEntry'
         /\ got[r] \in Request /\ entries'[got[r]] > 0
         /\ \A j \in Request : entries[j] > 0 => entries'[j] > 0
         /\ \A q \in Request : pc[q] = "exec" /\ ~dirty'[q] /\ got[q] \notin index => got[q] \notin index'
         /\ \A q \in Request : dirty[q] => dirty'[q]
PROOF
<1> USE DEF IInv, TypeOK
<1>1. got[r] \in Request /\ got[r] \notin index /\ entries[got[r]] = 0
  BY PublicationAssumption DEF Published, HandlerInv, KeyMeansEntry
<1>2. entries' = [entries EXCEPT ![got[r]] = @ + 1] /\ index' = index \union {got[r]}
  BY DEF Published
<1>3. AtMostOneEntry' /\ KeyMeansEntry'
  BY <1>1, <1>2 DEF AtMostOneEntry, KeyMeansEntry
<1>4. \A q \in Request : (pc[q] = "exec" /\ got[q] = got[r] => dirty'[q]) /\ (dirty[q] => dirty'[q])
  BY DEF Published
<1>5. dirty' \in [Request -> BOOLEAN]
  BY DEF Published
<1>6. /\ entries' \in [Request -> Nat] /\ index' \in SUBSET Request
      /\ entries'[got[r]] > 0
      /\ \A j \in Request : entries[j] > 0 => entries'[j] > 0
  BY <1>1, <1>2
<1>7. \A q \in Request : pc[q] = "exec" /\ ~dirty'[q] /\ got[q] \notin index => got[q] \notin index'
  BY <1>2, <1>4
<1> QED
  BY <1>1, <1>3, <1>4, <1>5, <1>6, <1>7
-----------------------------------------------------------------------------
(* The steps.                                                              *)

\* Answering or moving on touches the request's own pc and reply only.
LEMMA HandlerMove ==
  ASSUME TypeOK, NEW r \in Request,
         \/ \E p \in {"insert", "watch", "exec"} : Goto(r, p)
         \/ \E status \in {"none", "201", "409", "500", "503"} : Reply(r, status)
  PROVE  /\ pc' \in [Request -> {"new", "insert", "watch", "exec", "done"}]
         /\ reply' \in [Request -> {"none", "201", "409", "500", "503"}]
         /\ \A q \in Request \ {r} : pc'[q] = pc[q] /\ reply'[q] = reply[q]
PROOF
  BY DEF TypeOK, Goto, Reply

\* A fresh configuration satisfies the invariant.
LEMMA InitInv == Init => IInv
PROOF
  BY PublicationAssumption DEF Init, IInv, TypeOK, AtMostOneEntry, KeyMeansEntry, RowsInv,
     StartedInv, HandlerInv

\* Before the insert a request holds nothing.
LEMMA ArriveInv ==
  ASSUME IInv, NEW r \in Request, Arrive(r)
  PROVE  IInv'
PROOF
<1>1. TypeOK'
  BY HandlerMove DEF IInv, Arrive, TypeOK, stores
<1>2. AtMostOneEntry' /\ KeyMeansEntry' /\ RowsInv' /\ StartedInv'
  BY DEF IInv, Arrive, stores, AtMostOneEntry, KeyMeansEntry, RowsInv, StartedInv
<1>3. ASSUME NEW q \in Request PROVE HandlerInv(q)'
  BY HandlerMove DEF IInv, Arrive, stores, HandlerInv, TypeOK, Goto
<1> QED
  BY <1>1, <1>2, <1>3 DEF IInv

\* A request that is refused holds nothing either.
LEMMA RefuseInv ==
  ASSUME IInv, NEW r \in Request, Refuse(r)
  PROVE  IInv'
PROOF
<1> USE DEF IInv
<1>1. TypeOK'
  BY HandlerMove DEF Refuse, TypeOK, stores
<1>2. AtMostOneEntry' /\ KeyMeansEntry' /\ RowsInv' /\ StartedInv'
  BY DEF Refuse, stores, AtMostOneEntry, KeyMeansEntry, RowsInv, StartedInv
<1>3. ASSUME NEW q \in Request PROVE HandlerInv(q)'
  BY DEF Refuse, Reply, stores, HandlerInv, TypeOK
<1> QED
  BY <1>1, <1>2, <1>3

\* The insert gives the request its row, which is published when it answers.
LEMMA CreateOrGetJobInv ==
  ASSUME IInv, NEW r \in Request, CreateOrGetJob(r)
  PROVE  IInv'
PROOF
<1> USE DEF IInv
<1>1. /\ pc[r] = "insert" /\ UNCHANGED <<entries, index, asked, dirty>>
      /\ Fault \/ UNCHANGED faults
  BY DEF CreateOrGetJob
<1>2. /\ jobs' \in [Configuration -> Request \union {NoJob}]
      /\ jobState' \in [Request -> {"none", "queued", "started"}]
      /\ \A c \in Configuration : jobs[c] # NoJob => jobs'[c] = jobs[c]
      /\ RowsInv' /\ StartedInv'
  BY <1>1, UpsertRow, NoUpsertRow DEF CreateOrGetJob, TypeOK
<1>3. /\ pc' \in [Request -> {"new", "insert", "watch", "exec", "done"}]
      /\ reply' \in [Request -> {"none", "201", "409", "500", "503"}]
      /\ \A q \in Request \ {r} : pc'[q] = pc[q] /\ reply'[q] = reply[q]
  BY HandlerMove DEF CreateOrGetJob
<1>4. got' = got \/ (jobs'[asked[r]] \in Request /\ got' = [got EXCEPT ![r] = jobs'[asked[r]]])
  BY UpsertRow DEF CreateOrGetJob
<1>5. TypeOK'
  BY <1>1, <1>2, <1>3, <1>4, FaultTypes DEF TypeOK
<1>6. HandlerInv(r)'
  <2>1. CASE Upsert(r) /\ got' = [got EXCEPT ![r] = jobs'[asked[r]]]
             /\ (IF MustPublish(r) THEN Goto(r, "watch") ELSE Reply(r, "201"))
    <3>1. got'[r] = jobs'[asked[r]] /\ got'[r] # NoJob
      BY <2>1, UpsertRow, PublicationAssumption DEF TypeOK
    <3>2. CASE MustPublish(r)
      <4>1. pc'[r] = "watch" /\ reply' = reply
        BY <2>1, <3>2 DEF Goto, TypeOK
      <4>2. reply[r] = "201" => entries[got'[r]] > 0
        <5> SUFFICES ASSUME reply[r] = "201" PROVE entries[got'[r]] > 0
          OBVIOUS
        <5>1. got[r] # NoJob /\ entries[got[r]] > 0 /\ got[r] = jobs[asked[r]]
          BY DEF HandlerInv
        <5>2. got'[r] = got[r]
          BY <1>2, <3>1, <5>1 DEF TypeOK
        <5> QED
          BY <5>1, <5>2
      <4> QED
        BY <1>1, <3>1, <4>1, <4>2 DEF HandlerInv
    <3>3. CASE ~MustPublish(r)
      <4>1. pc'[r] = "done" /\ reply'[r] = "201"
        BY <2>1, <3>3 DEF Reply, TypeOK
      <4>2. entries[got'[r]] > 0
        BY <2>1, <3>1, <3>3, UpsertRow
      <4> QED
        BY <1>1, <3>1, <4>1, <4>2 DEF HandlerInv
    <3> QED
      BY <3>2, <3>3
  <2>2. CASE Reply(r, "500") /\ UNCHANGED got
    <3>1. pc'[r] = "done" /\ reply'[r] = "500"
      BY <2>2 DEF Reply, TypeOK
    <3> QED
      BY <1>1, <1>2, <2>2, <3>1 DEF HandlerInv, TypeOK
  <2> QED
    BY <2>1, <2>2 DEF CreateOrGetJob
<1>7. ASSUME NEW q \in Request \ {r} PROVE HandlerInv(q)'
  BY <1>1, <1>2, <1>3, <1>4 DEF HandlerInv, TypeOK
<1>8. AtMostOneEntry' /\ KeyMeansEntry'
  BY <1>1 DEF AtMostOneEntry, KeyMeansEntry
<1> QED
  BY <1>2, <1>5, <1>6, <1>7, <1>8

\* A request that finds the key answers, since the entry is there; one that
\* does not find it will append the entry only if the key stays away.
LEMMA WatchInv ==
  ASSUME IInv, NEW r \in Request, Watch(r)
  PROVE  IInv'
PROOF
<1> USE DEF IInv
<1>1. /\ pc[r] = "watch" /\ UNCHANGED <<stores, asked, got>>
      /\ Fault \/ UNCHANGED faults
      /\ dirty' = dirty \/ dirty' = [dirty EXCEPT ![r] = FALSE]
  BY DEF Watch
<1>2. /\ pc' \in [Request -> {"new", "insert", "watch", "exec", "done"}]
      /\ reply' \in [Request -> {"none", "201", "409", "500", "503"}]
      /\ \A q \in Request \ {r} : pc'[q] = pc[q] /\ reply'[q] = reply[q]
  BY HandlerMove DEF Watch
<1>3. TypeOK'
  BY <1>1, <1>2, FaultTypes DEF TypeOK, stores
<1>4. AtMostOneEntry' /\ KeyMeansEntry' /\ RowsInv' /\ StartedInv'
  BY <1>1 DEF stores, AtMostOneEntry, KeyMeansEntry, RowsInv, StartedInv
<1>5. HandlerInv(r)'
  <2>1. CASE got[r] \in index /\ Reply(r, "201")
    BY <1>1, <2>1 DEF Reply, HandlerInv, KeyMeansEntry, stores, TypeOK
  <2>2. CASE got[r] \notin index /\ Goto(r, "exec")
    BY <1>1, <2>2 DEF Goto, HandlerInv, stores, TypeOK
  <2>3. CASE Reply(r, "503")
    BY <1>1, <2>3 DEF Reply, HandlerInv, stores, TypeOK
  <2> QED
    BY <2>1, <2>2, <2>3 DEF Watch
<1>6. ASSUME NEW q \in Request \ {r} PROVE HandlerInv(q)'
  BY <1>1, <1>2 DEF HandlerInv, stores, TypeOK
<1> QED
  BY <1>3, <1>4, <1>5, <1>6

\* One EXEC succeeds; the requests that watch the same key are then stale.
LEMMA ExecInv ==
  ASSUME IInv, NEW r \in Request, Exec(r)
  PROVE  IInv'
PROOF
<1> USE DEF IInv
<1>1. /\ pc[r] = "exec" /\ UNCHANGED <<asked, got>>
      /\ Fault \/ UNCHANGED faults
      /\ Published(r) \/ UNCHANGED <<stores, dirty>>
      /\ Reply(r, "201") \/ Reply(r, "503")
      /\ Reply(r, "201") => Published(r)
  BY DEF Exec, Reply, TypeOK
<1>2. /\ pc' \in [Request -> {"new", "insert", "watch", "exec", "done"}]
      /\ reply' \in [Request -> {"none", "201", "409", "500", "503"}]
      /\ pc'[r] = "done"
      /\ \A q \in Request \ {r} : pc'[q] = pc[q] /\ reply'[q] = reply[q]
  BY <1>1 DEF Reply, TypeOK
<1>3. /\ entries' \in [Request -> Nat] /\ index' \in SUBSET Request
      /\ dirty' \in [Request -> BOOLEAN]
      /\ AtMostOneEntry' /\ KeyMeansEntry'
      /\ \A j \in Request : entries[j] > 0 => entries'[j] > 0
      /\ \A q \in Request : pc[q] = "exec" /\ ~dirty'[q] /\ got[q] \notin index => got[q] \notin index'
      /\ \A q \in Request : dirty[q] => dirty'[q]
  BY <1>1, PublishedStores DEF stores, TypeOK, AtMostOneEntry, KeyMeansEntry
<1>4. UNCHANGED <<jobs, jobState>>
  BY <1>1 DEF Published, stores
<1>5. TypeOK'
  BY <1>1, <1>2, <1>3, <1>4, FaultTypes DEF TypeOK
<1>6. RowsInv' /\ StartedInv'
  BY <1>1, <1>3, <1>4 DEF RowsInv, StartedInv, TypeOK
<1>7. HandlerInv(r)'
  <2>1. got[r] # NoJob /\ got[r] = jobs[asked[r]]
    BY <1>1 DEF HandlerInv
  <2>2. CASE Reply(r, "201")
    BY <1>1, <1>2, <1>4, <2>1, <2>2, PublishedStores DEF HandlerInv
  <2>3. CASE Reply(r, "503")
    <3>1. reply'[r] = "503"
      BY <2>3 DEF Reply, TypeOK
    <3> QED
      BY <1>1, <1>2, <1>4, <2>1, <3>1 DEF HandlerInv
  <2> QED
    BY <1>1, <2>2, <2>3
<1>8. ASSUME NEW q \in Request \ {r} PROVE HandlerInv(q)'
  BY <1>1, <1>2, <1>3, <1>4, PublicationAssumption DEF HandlerInv, TypeOK
<1> QED
  BY <1>3, <1>5, <1>6, <1>7, <1>8

\* A request that dies is never answered.
LEMMA DieInv ==
  ASSUME IInv, NEW r \in Request, Die(r)
  PROVE  IInv'
PROOF
<1> USE DEF IInv
<1>1. TypeOK'
  BY HandlerMove, FaultTypes DEF Die, TypeOK, stores
<1>2. AtMostOneEntry' /\ KeyMeansEntry' /\ RowsInv' /\ StartedInv'
  BY DEF Die, stores, AtMostOneEntry, KeyMeansEntry, RowsInv, StartedInv
<1>3. ASSUME NEW q \in Request PROVE HandlerInv(q)'
  BY DEF Die, Reply, stores, HandlerInv, TypeOK
<1> QED
  BY <1>1, <1>2, <1>3

\* A worker starts what has an entry.
LEMMA WorkerStartsInv ==
  ASSUME IInv, NEW j \in Request, WorkerStarts(j)
  PROVE  IInv'
PROOF
<1> USE DEF IInv
<1>1. TypeOK'
  BY DEF WorkerStarts, handlers, TypeOK
<1>2. AtMostOneEntry' /\ KeyMeansEntry' /\ RowsInv' /\ StartedInv'
  BY DEF WorkerStarts, handlers, AtMostOneEntry, KeyMeansEntry, RowsInv, StartedInv, TypeOK
<1>3. ASSUME NEW q \in Request PROVE HandlerInv(q)'
  BY DEF WorkerStarts, handlers, HandlerInv
<1> QED
  BY <1>1, <1>2, <1>3

\* The invariant is inductive.
LEMMA NextInv == IInv /\ [Next]_vars => IInv'
PROOF
<1> SUFFICES ASSUME IInv, [Next]_vars PROVE IInv'
  OBVIOUS
<1>1. CASE UNCHANGED vars
  BY <1>1 DEF vars, stores, handlers, IInv, TypeOK, AtMostOneEntry, KeyMeansEntry, RowsInv,
     StartedInv, HandlerInv
<1>2. CASE Next
  BY <1>2, ArriveInv, RefuseInv, CreateOrGetJobInv, WatchInv, ExecInv, DieInv, WorkerStartsInv DEF Next
<1> QED
  BY <1>1, <1>2

-----------------------------------------------------------------------------
(* The properties.                                                         *)

\* The inductive invariant holds in every reachable state.
THEOREM Invariant == Spec => []IInv
PROOF
  BY InitInv, NextInv, PTL DEF Spec

\* PublicationIsIdempotent: Publish appends at most one entry for a job and
\* sets its index key with it, however many requests race, repeat or die.
THEOREM PublicationIsIdempotent == Spec => [](AtMostOneEntry /\ KeyMeansEntry)
PROOF
<1>1. IInv => AtMostOneEntry /\ KeyMeansEntry
  BY DEF IInv
<1> QED
  BY <1>1, Invariant, PTL

\* AcceptedJobRuns: createJob answers 201 only for a job with an entry.
THEOREM AcceptedJobRuns == Spec => []AcceptedIsPublished
PROOF
<1>1. IInv => AcceptedIsPublished
  BY DEF IInv, HandlerInv, AcceptedIsPublished
<1> QED
  BY <1>1, Invariant, PTL

\* OneJobPerConfiguration: CreateOrGetJob gives requests the same job exactly
\* when they ask for the same configuration.
THEOREM OneJobPerConfiguration == Spec => []SameConfigurationSameJob
PROOF
<1>1. IInv => SameConfigurationSameJob
  BY DEF IInv, TypeOK, HandlerInv, RowsInv, SameConfigurationSameJob
<1> QED
  BY <1>1, Invariant, PTL

-----------------------------------------------------------------------------
(* The composition implements its parts.                                   *)

\* The API, seen from its jobs, publishes jobs: what happens to assets only delays
\* the requests or refuses them.
THEOREM IntakePublishesJobs == IntakeSpec => Spec
PROOF
<1>1. IntakeInit => Init
  BY DEF IntakeInit
<1>2. [IntakeNext]_intakeVars => [Next]_vars
  <2> SUFFICES ASSUME [IntakeNext]_intakeVars PROVE [Next]_vars
    OBVIOUS
  <2>1. CASE UNCHANGED intakeVars
    BY <2>1 DEF intakeVars
  <2>2. CASE Intake /\ UNCHANGED vars
    BY <2>2
  <2>3. ASSUME NEW r \in Request, Accept(r) PROVE Next
    BY <2>3 DEF Accept, Next
  <2>4. ASSUME NEW r \in Request, Publish(r) PROVE Next
    BY <2>4 DEF Publish, Next
  <2>5. ASSUME NEW r \in Request, Attempt(r) PROVE [Next]_vars
    BY <2>5 DEF Attempt, Next
  <2> QED
    BY <2>1, <2>2, <2>3, <2>4, <2>5 DEF IntakeNext
<1> QED
  BY <1>1, <1>2, PTL DEF IntakeSpec, Spec

\* The API, seen from the asset, is an upload: no request for a job touches it.
THEOREM IntakeUploads == IntakeSpec => UploadSpec
PROOF
<1>1. IntakeInit => UploadInit
  BY DEF IntakeInit
<1>2. [IntakeNext]_intakeVars => [UploadNext]_uploadVars
  <2> SUFFICES ASSUME [IntakeNext]_intakeVars PROVE [UploadNext]_uploadVars
    OBVIOUS
  <2>1. CASE UNCHANGED intakeVars
    BY <2>1 DEF intakeVars
  <2>2. CASE Intake /\ UNCHANGED vars
    BY <2>2 DEF UploadNext
  <2>3. ASSUME NEW r \in Request, Accept(r) \/ Publish(r) PROVE UNCHANGED uploadVars
    BY <2>3 DEF Accept, Publish
  <2>4. ASSUME NEW r \in Request, Attempt(r) PROVE [UploadNext]_uploadVars
    BY <2>4 DEF Attempt, UploadNext
  <2> QED
    BY <2>1, <2>2, <2>3, <2>4 DEF IntakeNext
<1> QED
  BY <1>1, <1>2, PTL DEF IntakeSpec, UploadSpec

\* However confirmations, uploads and requests race, a job has at most one entry in
\* the stream, and 201 is answered only for a job that has it.
THEOREM IntakeIsIdempotent == IntakeSpec => [](AtMostOneEntry /\ AcceptedIsPublished)
PROOF
  BY IntakePublishesJobs, PublicationIsIdempotent, AcceptedJobRuns, PTL

-----------------------------------------------------------------------------
(* Every job has its source.                                               *)

\* What is uploaded stays: an object is there from the check of a confirmation on.
UploadInv ==
  /\ \A k \in Confirmation : confirms[k] = "mark" => object # NoObject
  /\ row = "uploaded" => object # NoObject

\* Between its look at the row and its insert a request relies on a row that cannot
\* change back.
RequestInv ==
  \A r \in Request :
    /\ pc[r] = "insert" => row = "uploaded"
    /\ jobState[r] # "none" => row = "uploaded"

SourceInv ==
  /\ confirms \in [Confirmation -> {"idle", "head", "mark", "200", "409", "500"}]
  /\ putting \subseteq Content
  /\ UploadInv
  /\ RequestInv

\* A PUT that ends leaves an object.
LEMMA ObjectStays ==
  ASSUME SourceInv, NEW c \in Content, EndPut(c), UNCHANGED vars
  PROVE  SourceInv'
PROOF
  BY UploadAssumption
  DEF SourceInv, UploadInv, RequestInv, EndPut, vars, stores, handlers

\* A confirmation marks the row only after it has seen the object.
LEMMA ConfirmationIsChecked ==
  ASSUME SourceInv, NEW k \in Confirmation, Complete(k) \/ Repeat(k), UNCHANGED vars
  PROVE  SourceInv'
PROOF
<1> USE DEF SourceInv, UploadInv, RequestInv, vars, stores, handlers, Answer
<1>1. CASE Load(k)
  BY <1>1 DEF Load
<1>2. CASE Head(k)
  BY <1>2, UploadAssumption DEF Head, Present
<1>3. CASE Mark(k)
  BY <1>3 DEF Mark
<1>4. CASE Repeat(k)
  BY <1>4 DEF Repeat
<1> QED
  BY <1>1, <1>2, <1>3, <1>4 DEF Complete

\* No step of the upload takes an object or a confirmation back.
LEMMA IntakeInv ==
  ASSUME SourceInv, Intake, UNCHANGED vars
  PROVE  SourceInv'
PROOF
<1> USE DEF SourceInv, UploadInv, RequestInv, vars, stores, handlers
<1>1. CASE RequestUpload
  BY <1>1 DEF RequestUpload
<1>2. CASE Expire
  BY <1>2 DEF Expire
<1>3. ASSUME NEW c \in Content, BeginPut(c) PROVE SourceInv'
  BY <1>3 DEF BeginPut
<1>4. ASSUME NEW c \in Content, EndPut(c) PROVE SourceInv'
  BY <1>4, ObjectStays
<1>5. ASSUME NEW k \in Confirmation, Complete(k) \/ Repeat(k) PROVE SourceInv'
  BY <1>5, ConfirmationIsChecked
<1> QED
  BY <1>1, <1>2, <1>3, <1>4, <1>5 DEF Intake

\* A request comes to its insert only past an uploaded row, and only an insert makes
\* a job.
LEMMA RequestKeepsSource ==
  ASSUME SourceInv, IInv, NEW r \in Request, Accept(r) \/ Publish(r) \/ Attempt(r)
  PROVE  SourceInv'
PROOF
<1> USE DEF SourceInv, UploadInv, RequestInv, IInv, TypeOK
<1>1. CASE Accept(r)
  BY <1>1 DEF Accept, Arrive, Refuse, Goto, Reply, stores, uploadVars
<1>2. CASE CreateOrGetJob(r) /\ UNCHANGED uploadVars
  <2>1. \A q \in Request : pc'[q] = "insert" => pc[q] = "insert"
    BY <1>2 DEF CreateOrGetJob, Goto, Reply
  <2>2. jobState' = jobState \/ jobState' = [jobState EXCEPT ![r] = "queued"]
    BY <1>2 DEF CreateOrGetJob, Upsert
  <2>3. row = "uploaded"
    BY <1>2 DEF CreateOrGetJob
  <2> QED
    BY <1>2, <2>1, <2>2, <2>3 DEF uploadVars
<1>3. CASE (Watch(r) \/ Exec(r) \/ Die(r)) /\ UNCHANGED uploadVars
  <2>1. jobState' = jobState
    BY <1>3 DEF Watch, Exec, Die, Published, stores
  <2>2. \A q \in Request : pc'[q] = "insert" => pc[q] = "insert"
    BY <1>3 DEF Watch, Exec, Die, Goto, Reply
  <2> QED
    BY <1>3, <2>1, <2>2 DEF uploadVars
<1>4. CASE Attempt(r)
  BY <1>4 DEF Attempt, WorkerStarts, Download, vars, stores, handlers, uploadVars
<1> QED
  BY <1>1, <1>2, <1>3, <1>4 DEF Publish

\* Every job, in any state, has a confirmed source that is in S3: the row is read in a
\* statement of its own before the insert, and that is enough.
THEOREM JobsAlwaysHaveSource == IntakeSpec => []JobsHaveSource
PROOF
<1>1. IntakeInit => SourceInv
  BY DEF IntakeInit, UploadInit, Init, SourceInv, UploadInv, RequestInv
<1>2. SourceInv /\ IInv /\ [IntakeNext]_intakeVars => SourceInv'
  <2> SUFFICES ASSUME SourceInv, IInv, [IntakeNext]_intakeVars PROVE SourceInv'
    OBVIOUS
  <2>1. CASE UNCHANGED intakeVars
    BY <2>1 DEF intakeVars, uploadVars, vars, stores, handlers, SourceInv, UploadInv, RequestInv
  <2>2. CASE IntakeNext
    BY <2>2, IntakeInv, RequestKeepsSource DEF IntakeNext
  <2> QED
    BY <2>1, <2>2
<1>3. SourceInv => JobsHaveSource
  BY DEF SourceInv, UploadInv, RequestInv, JobsHaveSource
<1> QED
  BY <1>1, <1>2, <1>3, IntakePublishesJobs, Invariant, PTL DEF IntakeSpec
=============================================================================
