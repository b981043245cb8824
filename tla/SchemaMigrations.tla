--------------------------- MODULE SchemaMigrations ----------------------------
(***************************************************************************)
(* `migrate up` of the API binary: several processes may run it at once.   *)
(* Each migration is one transaction under an advisory lock; the files     *)
(* 001 to 005 change what job_artifacts may hold, and rewrite its rows,    *)
(* while workers of any release go on inserting rows.                      *)
(*                                                                         *)
(* - rows are the kinds job_artifacts holds for one job (job_id, kind is   *)
(*   unique); the other tables have no data a migration could refuse.      *)
(* - a process may die, and the reply to a statement be lost, at any step. *)
(***************************************************************************)
EXTENDS Naturals, Sequences, SequencesExt

CONSTANTS
  Process,    \* runs of `migrate up`
  MaxFaults,  \* bound on faults
  Nobody      \* no holder of the advisory lock

ASSUME MigrationAssumption == MaxFaults \in Nat /\ Nobody \notin Process

VARIABLES
  table,    \* schema_migrations exists
  applied,  \* the versions it records
  rows,     \* kinds of the rows of job_artifacts
  lock,     \* holder of the advisory lock
  pc,       \* where each process is
  next,     \* the migration it is at
  faults,
  executed  \* history: the migrations whose statements were committed

vars == <<table, applied, rows, lock, pc, next, faults, executed>>

\* The files, sorted by name.
Paths == <<"001", "002", "003", "004", "005">>

Version == {"001", "002", "003", "004", "005"}

Review == {"debug_telemetry", "debug_manifest", "debug_render"}
Retired == {"debug_measurement", "debug_pose", "debug_tracking", "debug_planning"}
Kind == {"output", "debug", "debug_detection", "debug_framing"} \union Review \union Retired

\* job_artifacts_kind_check once the versions S are applied.
Allowed(S) ==
  IF "004" \in S THEN {"output", "debug_detection", "debug_framing"} \union Review
  ELSE IF "003" \in S THEN {"output"} \union Review \union Retired
  ELSE IF "001" \in S THEN {"output", "debug"}
  ELSE {}

Renamed == (rows \ {"debug"}) \union {"debug_telemetry"}

\* The rows that the UPDATE of 003 and the DELETE of 004 leave.
Rewritten(v) ==
  CASE v = "003" /\ "debug" \in rows -> Renamed
    [] v = "004" -> rows \ Retired
    [] OTHER -> rows

Init ==
  /\ table = FALSE
  /\ applied = {} /\ rows = {}
  /\ lock = Nobody
  /\ pc = [p \in Process |-> "start"]
  /\ next = [p \in Process |-> 1]
  /\ faults = 0
  /\ executed = <<>>

Goto(p, l) == pc' = [pc EXCEPT ![p] = l]

Fault == faults < MaxFaults /\ faults' = faults + 1

-----------------------------------------------------------------------------
\* CREATE TABLE IF NOT EXISTS looks for the table first.
FindTable(p) ==
  /\ pc[p] = "start"
  /\ Goto(p, IF table THEN "begin" ELSE "create")
  /\ UNCHANGED <<table, applied, rows, lock, next, faults, executed>>

\* It takes no lock: who is second to create the table gets a duplicate key.
CreateTable(p) ==
  /\ pc[p] = "create"
  /\ table' = TRUE
  /\ Goto(p, IF table THEN "failed" ELSE "begin")
  /\ UNCHANGED <<applied, rows, lock, next, faults, executed>>

\* The loop over the files; BEGIN.
NextFile(p) ==
  /\ pc[p] = "begin"
  /\ Goto(p, IF next[p] > Len(Paths) THEN "done" ELSE "lock")
  /\ UNCHANGED <<table, applied, rows, lock, next, faults, executed>>

\* pg_advisory_xact_lock waits for the transaction of another process.
Lock(p) ==
  /\ pc[p] = "lock"
  /\ lock = Nobody
  /\ lock' = p
  /\ Goto(p, "check")
  /\ UNCHANGED <<table, applied, rows, next, faults, executed>>

Advance(p) ==
  /\ next' = [next EXCEPT ![p] = @ + 1]
  /\ Goto(p, "begin")

\* Seeded defect: the lock of a session outlives the transaction.
CheckKeepsLock(p) ==
  /\ pc[p] = "check"
  /\ IF Paths[next[p]] \in applied THEN Advance(p) ELSE Goto(p, "execute") /\ UNCHANGED next
  /\ UNCHANGED <<table, applied, rows, lock, faults, executed>>

\* Whether this version is recorded.
Check(p) ==
  /\ pc[p] = "check"
  /\ IF Paths[next[p]] \in applied
       THEN Advance(p) /\ lock' = Nobody
       ELSE Goto(p, "execute") /\ UNCHANGED <<next, lock>>
  /\ UNCHANGED <<table, applied, rows, faults, executed>>

\* The file's statements; ADD CONSTRAINT refuses rows that do not conform.
Execute(p) ==
  LET v == Paths[next[p]] IN
  /\ pc[p] = "execute"
  /\ IF Rewritten(v) \subseteq Allowed(applied \union {v})
       THEN Goto(p, "commit") /\ UNCHANGED lock
       ELSE Goto(p, "failed") /\ lock' = Nobody
  /\ UNCHANGED <<table, applied, rows, next, faults, executed>>

\* Seeded defect: the version is recorded in a transaction of its own, too late.
WrittenUnrecorded(p) ==
  /\ rows' = Rewritten(Paths[next[p]])
  /\ executed' = Append(executed, Paths[next[p]])
  /\ UNCHANGED applied

\* What the transaction leaves: rows were locked since Execute.
Written(p) ==
  /\ rows' = Rewritten(Paths[next[p]])
  /\ applied' = applied \union {Paths[next[p]]}
  /\ executed' = Append(executed, Paths[next[p]])

\* COMMIT, which releases the lock.
Commit(p) ==
  /\ pc[p] = "commit"
  /\ Written(p)
  /\ lock' = Nobody
  /\ Advance(p)
  /\ UNCHANGED <<table, faults>>

\* The reply to COMMIT is lost: the process ends with an error.
CommitUnanswered(p) ==
  /\ pc[p] = "commit"
  /\ Fault
  /\ Written(p)
  /\ lock' = Nobody
  /\ Goto(p, "failed")
  /\ UNCHANGED <<table, next>>

\* The process dies, or its connection breaks: the server rolls back.
Crash(p) ==
  /\ pc[p] \in {"start", "create", "begin", "lock", "check", "execute", "commit"}
  /\ Fault
  /\ lock' = IF lock = p THEN Nobody ELSE lock
  /\ Goto(p, "failed")
  /\ UNCHANGED <<table, applied, rows, next, executed>>

\* A failed run is repeated.
Rerun(p) ==
  /\ pc[p] = "failed"
  /\ next' = [next EXCEPT ![p] = 1]
  /\ Goto(p, "start")
  /\ UNCHANGED <<table, applied, rows, lock, faults, executed>>

\* A worker of some release links an artifact.  ALTER TABLE keeps it waiting
\* for the transaction of 003 or 004.
Insert(k) ==
  /\ k \in Allowed(applied) \ rows
  /\ \A p \in Process : pc[p] = "commit" => Paths[next[p]] \notin {"003", "004"}
  /\ rows' = rows \union {k}
  /\ UNCHANGED <<table, applied, lock, pc, next, faults, executed>>

-----------------------------------------------------------------------------
Step(p) ==
  FindTable(p) \/ CreateTable(p) \/ NextFile(p) \/ Lock(p) \/ Check(p) \/ Execute(p) \/ Commit(p)

Next ==
  \/ \E p \in Process : Step(p) \/ CommitUnanswered(p) \/ Crash(p) \/ Rerun(p)
  \/ \E k \in Kind : Insert(k)

Spec == Init /\ [][Next]_vars

\* PostgreSQL answers and grants its locks; a failed run is repeated.
FairSpec == Spec /\ \A p \in Process : WF_vars(Step(p)) /\ WF_vars(Rerun(p))

-----------------------------------------------------------------------------
TypeOK ==
  /\ table \in BOOLEAN
  /\ applied \subseteq Version /\ rows \subseteq Kind
  /\ lock \in Process \union {Nobody}
  /\ pc \in [Process -> {"start", "create", "begin", "lock", "check", "execute", "commit",
                         "done", "failed"}]
  /\ next \in [Process -> 1..(Len(Paths) + 1)]
  /\ faults \in 0..MaxFaults
  /\ executed \in Seq(Version)

\* A migration is executed once, after all earlier ones, and recorded in the same
\* transaction, whoever races, dies or repeats the run.
ExecutedOnceInOrder ==
  /\ IsPrefix(executed, <<"001", "002", "003", "004", "005">>)
  /\ applied = ToSet(executed)

\* None waits for ever for the lock and no row that a worker could insert keeps a
\* migration from being applied: a run that is repeated when it fails succeeds, and
\* success leaves the complete schema.
EveryRunSucceeds == \A p \in Process : <>(pc[p] = "done" /\ applied = Version)
=============================================================================
