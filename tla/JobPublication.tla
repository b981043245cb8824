---------------------------- MODULE JobPublication ----------------------------
(***************************************************************************)
(* POST /projects/{id}/jobs: Handler.createJob (backend/httpapi) with      *)
(* PG.CreateOrGetJob and RedisStreamsPublisher.Publish, for requests that  *)
(* run concurrently and for clients that repeat a request.                 *)
(*                                                                         *)
(* The row is inserted in one store and the entry appended in another,     *)
(* with nothing to tie them together: a request may die or lose a          *)
(* connection between any two calls, before or after a commit.  A later    *)
(* identical request is the only recovery.                                 *)
(*                                                                         *)
(* - a configuration stands for its hash within one project; 409 stands    *)
(*   for every refusal before the insert (4xx).                            *)
(* - a job is named by the request that inserted it (its fresh uuid).      *)
(* - "started" stands for every state of a job that is no longer queued.   *)
(***************************************************************************)
EXTENDS Naturals

CONSTANTS
  Request,        \* the POSTs of one behaviour
  Configuration,  \* job configurations
  MaxFaults,      \* bound on broken connections and killed requests
  NoJob           \* no row has this configuration

ASSUME PublicationAssumption == MaxFaults \in Nat /\ NoJob \notin Request

VARIABLES
  jobs,      \* the row with each configuration hash: its job, or NoJob
  jobState,  \* the state of each job's row, "none" before its insertion
  entries,   \* how many entries of boulder-frame:jobs carry a job's task_id
  index,     \* the jobs whose key boulder-frame:jobs:task:<id> is set
  pc,        \* where each request is
  asked,     \* the configuration it asks for
  got,       \* the job CreateOrGetJob returned to it
  dirty,     \* the key it watches was written since
  reply,     \* the HTTP status it was answered with
  faults

stores == <<jobs, jobState, entries, index>>
handlers == <<pc, asked, got, dirty, reply>>
vars == <<stores, handlers, faults>>

Init ==
  /\ jobs = [c \in Configuration |-> NoJob]
  /\ jobState = [j \in Request |-> "none"]
  /\ entries = [j \in Request |-> 0]
  /\ index = {}
  /\ pc = [r \in Request |-> "new"]
  /\ asked \in [Request -> Configuration]
  /\ got = [r \in Request |-> NoJob]
  /\ dirty = [r \in Request |-> FALSE]
  /\ reply = [r \in Request |-> "none"]
  /\ faults = 0

Fault == faults < MaxFaults /\ faults' = faults + 1

Reply(r, status) ==
  /\ pc' = [pc EXCEPT ![r] = "done"]
  /\ reply' = [reply EXCEPT ![r] = status]

Goto(r, p) == pc' = [pc EXCEPT ![r] = p] /\ UNCHANGED reply

-----------------------------------------------------------------------------
\* A request passes validation; the project, the asset and the settings are read.
Arrive(r) ==
  /\ pc[r] = "new"
  /\ Goto(r, "insert")
  /\ UNCHANGED <<stores, asked, got, dirty, faults>>

\* The request is refused, as when its asset is not uploaded.
Refuse(r) ==
  /\ pc[r] = "new"
  /\ Reply(r, "409")
  /\ UNCHANGED <<stores, asked, got, dirty, faults>>

\* INSERT ... ON CONFLICT (project_id, configuration_hash) DO UPDATE: the row
\* is inserted as queued, or the one that is there is returned.
Upsert(r) ==
  IF jobs[asked[r]] = NoJob
    THEN /\ jobs' = [jobs EXCEPT ![asked[r]] = r]
         /\ jobState' = [jobState EXCEPT ![r] = "queued"]
    ELSE UNCHANGED <<jobs, jobState>>

\* Seeded defect: only a new job is published.
MustPublishNew(r) == jobs[asked[r]] = NoJob

\* A new job is published, and one that is still queued: the request that
\* inserted it may not have got that far.
MustPublish(r) == jobs[asked[r]] = NoJob \/ jobState[jobs[asked[r]]] = "queued"

CreateOrGetJob(r) ==
  /\ pc[r] = "insert"
  /\ \/ /\ Upsert(r)
        /\ got' = [got EXCEPT ![r] = jobs'[asked[r]]]
        /\ IF MustPublish(r) THEN Goto(r, "watch") ELSE Reply(r, "201")
        /\ UNCHANGED faults
     \/ /\ Fault
        /\ Upsert(r) \/ UNCHANGED <<jobs, jobState>>
        /\ Reply(r, "500")
        /\ UNCHANGED got
  /\ UNCHANGED <<entries, index, asked, dirty>>

\* WATCH and GET of the job's index key.  The state that asked for publication
\* was read in the transaction before, so the job may have run by now.
Watch(r) ==
  /\ pc[r] = "watch"
  /\ \/ got[r] \in index /\ Reply(r, "201") /\ UNCHANGED <<dirty, faults>>
     \/ /\ got[r] \notin index
        /\ Goto(r, "exec")
        /\ dirty' = [dirty EXCEPT ![r] = FALSE]
        /\ UNCHANGED faults
     \/ Fault /\ Reply(r, "503") /\ UNCHANGED dirty
  /\ UNCHANGED <<stores, asked, got>>

\* Seeded defect: the entry is appended outside the transaction.
PublishedTwice(r) ==
  /\ entries' = [entries EXCEPT ![got[r]] = @ + 1]
  /\ index' = IF dirty[r] THEN index ELSE index \union {got[r]}
  /\ dirty' = [q \in Request |-> dirty[q] \/ (pc[q] = "exec" /\ got[q] = got[r])]
  /\ UNCHANGED <<jobs, jobState>>

\* MULTI, XADD, SET, EXEC: nothing happens if the watched key was written.
Published(r) ==
  /\ ~dirty[r]
  /\ entries' = [entries EXCEPT ![got[r]] = @ + 1]
  /\ index' = index \union {got[r]}
  /\ dirty' = [q \in Request |-> dirty[q] \/ (pc[q] = "exec" /\ got[q] = got[r])]
  /\ UNCHANGED <<jobs, jobState>>

\* Publish returns the error of a failed transaction like that of a broken
\* connection, and createJob answers both with 503 queue_unavailable.
Exec(r) ==
  /\ pc[r] = "exec"
  /\ \/ Published(r) /\ Reply(r, "201") /\ UNCHANGED faults
     \/ dirty[r] /\ Reply(r, "503") /\ UNCHANGED <<stores, dirty, faults>>
     \/ /\ Fault
        /\ Published(r) \/ UNCHANGED <<stores, dirty>>
        /\ Reply(r, "503")
  /\ UNCHANGED <<asked, got>>

\* The API process or the client's connection goes away during a request.
Die(r) ==
  /\ pc[r] \in {"insert", "watch", "exec"}
  /\ Fault
  /\ Reply(r, "none")
  /\ UNCHANGED <<stores, asked, got, dirty>>

\* A worker that was delivered the entry claims the row and starts the job.
WorkerStarts(j) ==
  /\ entries[j] > 0
  /\ jobState[j] = "queued"
  /\ jobState' = [jobState EXCEPT ![j] = "started"]
  /\ UNCHANGED <<jobs, entries, index, handlers, faults>>

Next ==
  \E r \in Request :
    \/ Arrive(r) \/ Refuse(r) \/ CreateOrGetJob(r) \/ Watch(r) \/ Exec(r) \/ Die(r)
    \/ WorkerStarts(r)

Spec == Init /\ [][Next]_vars

-----------------------------------------------------------------------------
TypeOK ==
  /\ jobs \in [Configuration -> Request \union {NoJob}]
  /\ jobState \in [Request -> {"none", "queued", "started"}]
  /\ entries \in [Request -> Nat]
  /\ index \in SUBSET Request
  /\ pc \in [Request -> {"new", "insert", "watch", "exec", "done"}]
  /\ asked \in [Request -> Configuration]
  /\ got \in [Request -> Request \union {NoJob}]
  /\ dirty \in [Request -> BOOLEAN]
  /\ reply \in [Request -> {"none", "201", "409", "500", "503"}]
  /\ faults \in 0..MaxFaults

\* Whatever requests race, repeat or die, a job has at most one stream entry
\* (the comment in Publish: "retries and concurrent API requests idempotent").
AtMostOneEntry == \A j \in Request : entries[j] <= 1

\* The index key, which never expires, is there exactly when the entry is: a key
\* without an entry would keep the job from ever being published again.
KeyMeansEntry == \A j \in Request : j \in index <=> entries[j] > 0

\* 201 promises that the job will run: its entry is in the stream, even when an
\* earlier request inserted the row and died before publishing it.
AcceptedIsPublished == \A r \in Request : reply[r] = "201" => entries[got[r]] > 0

\* Requests for one configuration are all given the same job, and no other
\* request is: neither a race nor an answer lost after the commit forks a job.
SameConfigurationSameJob ==
  \A q, r \in Request : got[q] # NoJob /\ got[r] # NoJob =>
    (got[q] = got[r] <=> asked[q] = asked[r])

\* docs/specs/backend/redis-streams-task-distribution.md: 503 is the answer "if
\* publication fails".  So while no connection breaks, it means unpublished.
UnavailableMeansUnpublished ==
  faults = 0 => \A r \in Request : reply[r] = "503" => entries[got[r]] = 0
=============================================================================
