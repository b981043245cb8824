------------------------------ MODULE JobWorker ------------------------------
(***************************************************************************)
(* Worker.process (worker/worker.py) run by several worker threads on one  *)
(* processing job: the job's PostgreSQL row with its lease, the job's      *)
(* Redis stream entry, its output object in S3, and one attempt per        *)
(* thread.  Jobs share nothing, so one row is the whole system.            *)
(*                                                                         *)
(* The three stores and the threads interleave between any two calls.      *)
(* Every database call may also fail before its commit or after it (the    *)
(* reply is lost), an upload may fail, a thread may die at any point, and  *)
(* a lease may outlive or fall behind its owner.  Each such fault is drawn *)
(* from the budget MaxFaults; everything else is free.                     *)
(*                                                                         *)
(* - lease abstracts lease_expires_at: "none" is NULL, "live" a time in    *)
(*   the database clock's future, "expired" one in its past.               *)
(* - a worker stands for the attempt UUID it drew at its last claim: it    *)
(*   makes no call under an older token, so the token needs no counter.    *)
(* - an entry that is not acknowledged may be delivered to any idle        *)
(*   thread, also while another one holds it: a superset of what           *)
(*   XREADGROUP, XAUTOCLAIM and a republication by the API can do.         *)
(* - publish_debug writes review artifacts only and its errors are         *)
(*   swallowed, so it is not visible in these variables.                   *)
(***************************************************************************)
EXTENDS JobStates, FiniteSets

CONSTANTS
  Worker,       \* worker threads, of all worker processes
  Compatible,   \* those whose process provides the job's model version
  Failures,     \* how a stage handler may fail: transient, terminal, internal
  MaxFaults,    \* bound on the faults of one behaviour
  NoWorker      \* NULL

ASSUME CompatibleAssumption == Compatible \subseteq Worker
ASSUME FailuresAssumption == Failures \subseteq {"transient", "terminal", "internal"}
ASSUME MaxFaultsAssumption == MaxFaults \in Nat
ASSUME NoWorkerAssumption == NoWorker \notin Worker

VARIABLES
  jobState, progress,  \* processing_jobs.state and progress
  owner, lease,        \* lease_owner and lease_expires_at
  output,              \* the attempt whose output metadata is linked
  report,              \* the attempt whose report is stored
  object,              \* the attempt whose bytes are under the output key
  acked,               \* XACK of the stream entry was executed
  pc,                  \* where each thread is in process()
  rec,                 \* its local JobRecord
  timed,               \* the keys of its stage_durations
  beat,                \* its lease heartbeat thread: off, beating, failed
  faults               \* faults so far

row == <<jobState, progress, owner, lease, output, report>>
local == <<pc, rec, timed, beat>>
vars == <<row, object, acked, local, faults>>

\* Points of process() at which the thread holds a claimed record.
Attempting == {"mismatch", "refuse", "begin", "enter", "handle", "put", "head",
               "finalize", "complete", "internal", "fail", "release"}
Points == {"idle", "claim", "lookup", "ack"} \union Attempting

Fresh == [state |-> "queued", progress |-> 0]

Init ==
  /\ jobState = "queued" /\ progress = 0
  /\ owner = NoWorker /\ lease = "none"
  /\ output = NoWorker /\ report = NoWorker /\ object = NoWorker
  /\ acked = FALSE
  /\ pc = [w \in Worker |-> "idle"]
  /\ rec = [w \in Worker |-> Fresh]
  /\ timed = [w \in Worker |-> {}]
  /\ beat = [w \in Worker |-> "off"]
  /\ faults = 0

Fault == faults < MaxFaults /\ faults' = faults + 1

-----------------------------------------------------------------------------
(* The statements of PostgresJobRepository, each one transaction.          *)

\* Seeded defect: only a NULL lease can be claimed.
ClaimableNullOnly == jobState \notin Terminal /\ lease = "none"

Claimable == jobState \notin Terminal /\ lease # "live"

ClaimRow(w) ==
  /\ Claimable
  /\ owner' = w
  /\ lease' = "live"
  /\ UNCHANGED <<jobState, progress, output, report>>

Owns(w) == owner = w /\ lease = "live"

\* The WHERE clause of _UPDATE_SQL for a record r written by w.
Accepts(w, r) ==
  /\ Owns(w)
  /\ progress <= r.progress
  /\ r.state = "completed" => r.progress = 100
  /\ Writable(jobState, r.state)

Written(w, r) ==
  /\ Accepts(w, r)
  /\ jobState' = r.state
  /\ progress' = r.progress
  /\ IF r.state \in Terminal
       THEN owner' = NoWorker /\ lease' = "none" /\ report' = w
       ELSE UNCHANGED <<owner, lease, report>>
  /\ UNCHANGED output

\* update() raises: no row matched (LeaseLostError), or the connection broke
\* before or after the commit.
UpdateRaises(w, r) ==
  \/ ~Accepts(w, r) /\ UNCHANGED <<row, faults>>
  \/ Fault /\ (Written(w, r) \/ UNCHANGED row)

\* Seeded defects: the output row is upserted without asking for the token,
\* or by its storage key alone.
FinalizableAnyOwner(w) == jobState = "uploading"
FinalizableByKey(w) == jobState \in {"uploading", "completed"}

Finalizable(w) == Owns(w) /\ jobState = "uploading"

OutputLinked(w) ==
  /\ Finalizable(w)
  /\ output' = w
  /\ UNCHANGED <<jobState, progress, owner, lease, report>>

\* _RELEASE_SQL asks for the token only, not for a live lease.
ReleaseRow(w) ==
  IF owner = w /\ jobState \notin Terminal
    THEN /\ owner' = NoWorker
         /\ lease' = "none"
         /\ UNCHANGED <<jobState, progress, output, report>>
    ELSE UNCHANGED row

-----------------------------------------------------------------------------
(* Control flow of one thread.                                             *)

Goto(w, p) == pc' = [pc EXCEPT ![w] = p]

Stay == UNCHANGED <<rec, timed, beat>>

\* process() returns or raises: the heartbeat thread is joined and the local
\* variables are gone.  Towards "ack" it returned True or ACK, towards
\* "idle" the adapter calls retry(), which leaves the entry pending.
Leave(w, p) ==
  /\ Goto(w, p)
  /\ rec' = [rec EXCEPT ![w] = Fresh]
  /\ timed' = [timed EXCEPT ![w] = {}]
  /\ beat' = [beat EXCEPT ![w] = "off"]

\* record = transition(record, ...), with the stage and progress that follow.
NextRecord(w) ==
  LET st == Following(rec[w].state)
  IN [state |-> st, progress |-> StageProgress(st)]

\* fail(record, error)
FailedRecord(w) == [rec[w] EXCEPT !.state = "failed"]

\* stage_durations gets the stage whose handler returned or raised.
Timed(w) == timed' = [timed EXCEPT ![w] = @ \union {rec[w].state}]

\* The thread writes r: on success it continues at p, else at q.
Writes(w, r, p, q) ==
  \/ Written(w, r) /\ UNCHANGED faults /\ Goto(w, p)
  \/ UpdateRaises(w, r) /\ Goto(w, q)

\* The thread writes a terminal r as the last thing of its attempt.
Concludes(w, r) ==
  \/ Written(w, r) /\ UNCHANGED faults /\ Leave(w, "ack")
  \/ UpdateRaises(w, r) /\ Leave(w, "idle")

-----------------------------------------------------------------------------
(* One action per call process() makes to a store, with the local          *)
(* statements around it.                                                   *)

\* The serve loop hands the pending entry to a free thread.
Deliver(w) ==
  /\ pc[w] = "idle"
  /\ ~acked
  /\ Goto(w, "claim")
  /\ Stay
  /\ UNCHANGED <<row, object, acked, faults>>

\* Seeded defect: an incompatible worker fails a queued job directly.
StartedNoValidating(w) == IF w \in Compatible THEN "begin" ELSE "refuse"

\* The point at which an attempt with the claimed row starts.
Started(w) ==
  IF w \in Compatible THEN "begin"
  ELSE IF jobState = "queued" THEN "mismatch" ELSE "refuse"

Claim(w) ==
  /\ pc[w] = "claim"
  /\ \/ /\ ClaimRow(w)
        /\ Goto(w, Started(w))
        /\ rec' = [rec EXCEPT ![w] = [state |-> jobState, progress |-> progress]]
        /\ beat' = [beat EXCEPT ![w] = IF w \in Compatible THEN "beating" ELSE "off"]
        /\ UNCHANGED <<timed, faults>>
     \/ ~Claimable /\ Goto(w, "lookup") /\ Stay /\ UNCHANGED <<row, faults>>
     \/ Fault /\ (ClaimRow(w) \/ UNCHANGED row) /\ Leave(w, "idle")
  /\ UNCHANGED <<object, acked>>

\* Seeded defect: a delivery that claims nothing is always acknowledged.
LookupAlwaysAcks(w) ==
  /\ pc[w] = "lookup"
  /\ \/ Leave(w, "ack") /\ UNCHANGED faults
     \/ Fault /\ Leave(w, "idle")
  /\ UNCHANGED <<row, object, acked>>

\* current_state() is a second transaction, after the claim found nothing.
Lookup(w) ==
  /\ pc[w] = "lookup"
  /\ \/ jobState \in Terminal /\ Leave(w, "ack") /\ UNCHANGED faults
     \/ jobState \notin Terminal /\ Leave(w, "idle") /\ UNCHANGED faults
     \/ Fault /\ Leave(w, "idle")
  /\ UNCHANGED <<row, object, acked>>

\* A worker with another model version: a queued job is first moved to
\* validating, because a queued job cannot be failed.  Errors escape process().
Mismatch(w) ==
  /\ pc[w] = "mismatch"
  /\ \/ /\ Written(w, NextRecord(w))
        /\ Goto(w, "refuse")
        /\ rec' = [rec EXCEPT ![w] = NextRecord(w)]
        /\ UNCHANGED <<timed, beat, faults>>
     \/ UpdateRaises(w, NextRecord(w)) /\ Leave(w, "idle")
  /\ UNCHANGED <<object, acked>>

Refuse(w) ==
  /\ pc[w] = "refuse"
  /\ Concludes(w, FailedRecord(w))
  /\ UNCHANGED <<object, acked>>

\* Seeded defect: a resumed attempt starts after the row's stage.
BeginAfterStage(w) ==
  /\ pc[w] = "begin"
  /\ Goto(w, "enter") /\ UNCHANGED faults
  /\ Stay
  /\ UNCHANGED <<row, object, acked>>

\* job_scratch() and the choice of the first stage.  A resumed attempt runs
\* the handler of the row's stage again without a write, a queued job
\* enters the loop at validating.
Begin(w) ==
  /\ pc[w] = "begin"
  /\ \/ rec[w].state = "queued" /\ Goto(w, "enter") /\ UNCHANGED faults
     \/ rec[w].state # "queued" /\ beat[w] # "failed" /\ Goto(w, "handle") /\ UNCHANGED faults
     \/ rec[w].state # "queued" /\ beat[w] = "failed" /\ Goto(w, "release") /\ UNCHANGED faults
     \/ Fault /\ Goto(w, "internal")
  /\ Stay
  /\ UNCHANGED <<row, object, acked>>

\* ensure_lease(), then the local record moves to the next stage before the
\* row does: an update that raises leaves them apart.
Enter(w) ==
  /\ pc[w] = "enter"
  /\ \/ /\ beat[w] = "failed"
        /\ Goto(w, "release")
        /\ UNCHANGED <<row, rec, faults>>
     \/ /\ beat[w] # "failed"
        /\ Writes(w, NextRecord(w), "handle", "internal")
        /\ rec' = [rec EXCEPT ![w] = NextRecord(w)]
  /\ UNCHANGED <<object, acked, timed, beat>>

\* Where an attempt goes after its handler raised an error of kind f.
OnFailure(f) ==
  CASE f = "transient" -> "release" [] f = "terminal" -> "fail" [] OTHER -> "internal"

\* After the last stage comes the completion, after the others the next one;
\* in both cases only if the heartbeat has not failed.
AfterHandler(w) ==
  IF beat[w] = "failed" THEN "release"
  ELSE IF rec[w].state = "uploading" THEN "complete" ELSE "enter"

\* A stage handler up to its end; for uploading, up to the upload.  Only
\* transient errors come from the environment and cost a fault.
Handle(w) ==
  /\ pc[w] = "handle"
  /\ \/ /\ rec[w].state # "uploading"
        /\ Goto(w, AfterHandler(w)) /\ Timed(w) /\ UNCHANGED faults
     \/ /\ rec[w].state = "uploading"
        /\ Goto(w, "put") /\ UNCHANGED <<timed, faults>>
     \/ \E f \in Failures :
          /\ IF f = "transient" THEN Fault ELSE UNCHANGED faults
          /\ Goto(w, OnFailure(f)) /\ Timed(w)
  /\ UNCHANGED <<row, object, acked, rec, beat>>

\* storage.upload: the PUT on the key derived from project and job ...
Put(w) ==
  /\ pc[w] = "put"
  /\ \/ object' = w /\ Goto(w, "head") /\ UNCHANGED <<timed, faults>>
     \/ Fault /\ object' \in {object, w} /\ Goto(w, "release") /\ Timed(w)
  /\ UNCHANGED <<row, acked, rec, beat>>

\* Seeded defect: the handler ends before the output is linked.
HeadEndsHandler(w) ==
  /\ pc[w] = "head"
  /\ Goto(w, AfterHandler(w)) /\ Timed(w) /\ UNCHANGED faults
  /\ UNCHANGED <<row, object, acked, rec, beat>>

\* ... and the HEAD whose size is compared with the local file: bytes of
\* another attempt may or may not have the same size.
Head(w) ==
  /\ pc[w] = "head"
  /\ \/ Goto(w, "finalize") /\ UNCHANGED <<timed, faults>>
     \/ object # w /\ Goto(w, "fail") /\ Timed(w) /\ UNCHANGED faults
     \/ Fault /\ Goto(w, "release") /\ Timed(w)
  /\ UNCHANGED <<row, object, acked, rec, beat>>

\* finalize_output links the output under the lease and ends the handler.
Finalize(w) ==
  /\ pc[w] = "finalize"
  /\ \/ OutputLinked(w) /\ Goto(w, AfterHandler(w)) /\ UNCHANGED faults
     \/ ~Finalizable(w) /\ Goto(w, "internal") /\ UNCHANGED <<row, faults>>
     \/ Fault /\ (OutputLinked(w) \/ UNCHANGED row) /\ Goto(w, "internal")
  /\ Timed(w)
  /\ UNCHANGED <<object, acked, rec, beat>>

Complete(w) ==
  /\ pc[w] = "complete"
  /\ \/ Written(w, NextRecord(w)) /\ UNCHANGED faults /\ Leave(w, "ack")
     \/ /\ UpdateRaises(w, NextRecord(w)) /\ Goto(w, "internal")
        /\ rec' = [rec EXCEPT ![w] = NextRecord(w)]
        /\ UNCHANGED <<timed, beat>>
  /\ UNCHANGED <<object, acked>>

\* except WorkerError, terminal: the job is failed with the error's code.
\* If that write raises, process() raises without releasing the lease.
Fail(w) ==
  /\ pc[w] = "fail"
  /\ Concludes(w, FailedRecord(w))
  /\ UNCHANGED <<object, acked>>

\* except Exception: the job is failed as "internal".  fail() itself raises
\* for a record already moved to completed; then, as when the write raises,
\* the lease is released.
Internal(w) ==
  /\ pc[w] = "internal"
  /\ \/ /\ rec[w].state \notin Terminal
        /\ \/ Written(w, FailedRecord(w)) /\ UNCHANGED faults /\ Leave(w, "ack")
           \/ UpdateRaises(w, FailedRecord(w)) /\ Goto(w, "release") /\ Stay
     \/ /\ rec[w].state \in Terminal
        /\ Goto(w, "release") /\ Stay /\ UNCHANGED <<row, faults>>
  /\ UNCHANGED <<object, acked>>

\* The release of a transient error (its own errors are swallowed) and of
\* except Exception; either way the entry stays pending.
Release(w) ==
  /\ pc[w] = "release"
  /\ \/ ReleaseRow(w) /\ UNCHANGED faults
     \/ Fault /\ (ReleaseRow(w) \/ UNCHANGED row)
  /\ Leave(w, "idle")
  /\ UNCHANGED <<object, acked>>

\* delivery.ack(); when XACK raises, the entry stays pending or is gone.
Ack(w) ==
  /\ pc[w] = "ack"
  /\ \/ acked' = TRUE /\ UNCHANGED faults
     \/ Fault /\ acked' \in {acked, TRUE}
  /\ Leave(w, "idle")
  /\ UNCHANGED <<row, object>>

-----------------------------------------------------------------------------
(* The heartbeat thread, the database clock and the operating system.      *)

Renewable(w) == Owns(w) /\ jobState \notin Terminal

\* A renewal moves lease_expires_at into the future again; the first one
\* that finds no row or raises ends the thread.
Renew(w) ==
  /\ beat[w] = "beating"
  /\ \/ Renewable(w) /\ lease' = "live" /\ UNCHANGED <<beat, faults>>
     \/ ~Renewable(w) /\ beat' = [beat EXCEPT ![w] = "failed"] /\ UNCHANGED <<lease, faults>>
     \/ Fault /\ beat' = [beat EXCEPT ![w] = "failed"] /\ UNCHANGED lease
  /\ UNCHANGED <<jobState, progress, owner, output, report, object, acked, pc, rec, timed>>

\* The owner runs and its renewals arrive: heartbeat_seconds < lease_seconds.
Protected == \E w \in Worker : owner = w /\ pc[w] \in Attempting /\ beat[w] # "failed"

Expired == lease = "live" /\ lease' = "expired"
           /\ UNCHANGED <<jobState, progress, owner, output, report, object, acked, local>>

\* The lease of an attempt that died, left or stopped renewing runs out.
LeaseExpires == ~Protected /\ Expired /\ UNCHANGED faults

\* A running attempt stalls for longer than lease_seconds.
LeaseOverruns == Protected /\ Expired /\ Fault

\* The process of the thread is killed.
Crash(w) ==
  /\ pc[w] # "idle"
  /\ Fault
  /\ Leave(w, "idle")
  /\ UNCHANGED <<row, object, acked>>

-----------------------------------------------------------------------------
Step(w) ==
  \/ Claim(w) \/ Lookup(w) \/ Mismatch(w) \/ Refuse(w)
  \/ Begin(w) \/ Enter(w) \/ Handle(w)
  \/ Put(w) \/ Head(w) \/ Finalize(w) \/ Complete(w)
  \/ Fail(w) \/ Internal(w) \/ Release(w) \/ Ack(w)

Next ==
  \/ \E w \in Worker : Deliver(w) \/ Step(w) \/ Renew(w) \/ Crash(w)
  \/ LeaseExpires
  \/ LeaseOverruns

Spec == Init /\ [][Next]_vars

\* Threads run, the stream keeps delivering what is pending to some thread,
\* and time passes.  Nothing is assumed of renewals or of faults.
Fairness ==
  /\ \A w \in Worker : WF_vars(Step(w))
  /\ WF_vars(\E w \in Worker : Deliver(w))
  /\ WF_vars(LeaseExpires)

FairSpec == Spec /\ Fairness

-----------------------------------------------------------------------------
TypeOK ==
  /\ jobState \in State /\ progress \in 0..100
  /\ owner \in Worker \union {NoWorker} /\ lease \in {"none", "live", "expired"}
  /\ output \in Worker \union {NoWorker}
  /\ report \in Worker \union {NoWorker}
  /\ object \in Worker \union {NoWorker}
  /\ acked \in BOOLEAN
  /\ pc \in [Worker -> Points]
  /\ rec \in [Worker -> [state : State, progress : 0..100]]
  /\ timed \in [Worker -> SUBSET Stage]
  /\ beat \in [Worker -> {"off", "beating", "failed"}]
  /\ faults \in 0..MaxFaults

-----------------------------------------------------------------------------
(* Safety.                                                                 *)

\* The stream entry is given up only for a job whose terminal state is durable
\* (process() returning True, DeliveryAction.ACK for a job already terminal):
\* an entry acknowledged earlier would leave a job nobody ever finishes.
AckOnlyTerminal == acked => jobState \in Terminal

\* A completed job links an output, and it is the output of the very attempt
\* whose report the job carries: no other attempt's finalize_output can come
\* between an attempt's own finalize_output and its completion.
CompletedByFinalizer == jobState = "completed" => output = report /\ output # NoWorker

\* LeaseLostError means what its docstring says: the writes of an attempt that
\* still holds a live lease are accepted, wherever earlier attempts and
\* earlier failed writes of its own left the row.  (Not claimed of the
\* "internal" failure, which is refused for a job that is still queued.)
LiveOwnerAccepted ==
  \A w \in Worker : Owns(w) =>
    /\ pc[w] \in {"enter", "complete", "mismatch"} => Accepts(w, NextRecord(w))
    /\ pc[w] \in {"fail", "refuse"} => Accepts(w, FailedRecord(w))
    /\ pc[w] = "finalize" => Finalizable(w)
    /\ pc[w] = "internal" /\ rec[w].state \in Stage /\ jobState # "queued"
         => Accepts(w, FailedRecord(w))

\* The poller of GET /jobs/{id} sees the progress that belongs to the state;
\* a failed job never shows the progress of a completed one.
ProgressTracksState ==
  /\ jobState \notin Terminal => progress = StageProgress(jobState)
  /\ jobState = "completed" => progress = 100
  /\ jobState = "failed" => progress \in {10, 45, 75, 90}

\* A report is stored with the terminal state and only then, and a terminal
\* job is owned by nobody: no lease survives _UPDATE_SQL's terminal write.
TerminalRowIsClosed ==
  IF jobState \in Terminal
    THEN report # NoWorker /\ owner = NoWorker /\ lease = "none"
    ELSE report = NoWorker

\* A redelivery, a late write, a late finalize_output, renewal or release of
\* an attempt that lost its lease leaves a terminal row as it is.
TerminalIsFinal == [][(jobState \in Terminal) => UNCHANGED row]_vars

\* A live lease is taken from its owner by no one: it ends when the owner
\* itself concludes or releases, or it first expires.
LiveLeaseIsExclusive ==
  [][lease = "live" /\ owner' # owner =>
       owner' = NoWorker /\ pc[owner] # pc'[owner]]_vars

\* A stage is left for the next one only by an attempt that ran that stage's
\* handler itself: a retry resumes the stage that failed, not the next one,
\* because the files of an earlier attempt's scratch directory are not its own.
NoStageSkipped ==
  [][jobState' # jobState /\ jobState \in Stage /\ jobState' # "failed" =>
       \E w \in Worker : Owns(w) /\ jobState \in timed[w]]_vars

\* Attempts, leases, lost replies and crashes are invisible from outside: the
\* job follows the abstract life cycle.
Lifecycle == INSTANCE JobLifecycle WITH published <- output # NoWorker
ImplementsLifecycle == Lifecycle!LifecycleSafety

-----------------------------------------------------------------------------
(* Liveness.                                                               *)

\* With finitely many faults the job reaches a terminal state and its entry is
\* acknowledged: every lease that nobody renews is freed and every pending
\* entry is picked up again.
EventuallySettled == <>(jobState \in Terminal /\ acked)

-----------------------------------------------------------------------------
(* What the documentation says and the code does not do.                   *)

\* docs/specs/backend/redis-streams-task-distribution.md: the lease "must
\* prevent two workers from processing the same active job concurrently".
OneHandlerAtATime ==
  \A v, w \in Worker :
    pc[v] \in {"handle", "put", "head", "finalize"} /\
    pc[w] \in {"handle", "put", "head", "finalize"} => v = w

\* The same document: after a transient failure the lease is released and the
\* entry left pending.  So where every handler succeeds or fails transiently
\* and every worker is compatible, no job is failed.
TransientNeverFails ==
  Failures \subseteq {"transient"} /\ Compatible = Worker => jobState # "failed"
=============================================================================
