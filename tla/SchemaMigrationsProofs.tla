------------------------ MODULE SchemaMigrationsProofs ------------------------
(***************************************************************************)
(* What `migrate up` guarantees for any number of processes, faults and    *)
(* rows: the files are executed once and in order, and none of them is     *)
(* refused because of rows that workers have linked in the meantime.       *)
(***************************************************************************)
EXTENDS SchemaMigrations, SequenceTheorems, TLAPS

\* The versions of the first n files.
Versions(n) == {Paths[i] : i \in 1 .. n}

Done == Len(executed)

\* What was executed is recorded, in order; whoever is in a transaction has the lock, and
\* whoever executes is at the first file that was not executed.
MigrationInv ==
  /\ executed \in Seq(Version) /\ Done \in 0 .. 5
  /\ \A i \in 1 .. Done : executed[i] = Paths[i]
  /\ applied = Versions(Done)
  /\ rows \subseteq Allowed(applied)
  /\ pc \in [Process -> {"start", "create", "begin", "lock", "check", "execute", "commit",
                         "done", "failed"}]
  /\ next \in [Process -> Nat]
  /\ \A p \in Process :
       /\ next[p] \in 1 .. Done + 1
       /\ pc[p] \in {"lock", "check", "execute", "commit"} => next[p] <= 5
       /\ pc[p] \in {"check", "execute", "commit"} => lock = p
       /\ pc[p] \in {"execute", "commit"} => next[p] = Done + 1

\* ADD CONSTRAINT accepts the rows there are.
Acceptable(p) == Rewritten(Paths[next[p]]) \subseteq Allowed(applied \union {Paths[next[p]]})

NoneRefused == \A p \in Process : pc[p] = "execute" => Acceptable(p)

-----------------------------------------------------------------------------
(* The files.                                                              *)

\* No two files have the same version.
LEMMA PathsDistinct ==
  ASSUME NEW n \in 0 .. 5, NEW i \in 1 .. 5
  PROVE  /\ Paths[i] \in Version
         /\ Paths[i] \in Versions(n) <=> i <= n
         /\ n < 5 => Versions(n + 1) = Versions(n) \union {Paths[n + 1]}
PROOF
<1>1. /\ Paths[1] = "001" /\ Paths[2] = "002" /\ Paths[3] = "003" /\ Paths[4] = "004" /\ Paths[5] = "005"
  BY DEF Paths
<1>2. /\ i = 1 \/ i = 2 \/ i = 3 \/ i = 4 \/ i = 5
      /\ n = 0 \/ n = 1 \/ n = 2 \/ n = 3 \/ n = 4 \/ n = 5
  OBVIOUS
<1>3. \A j, k \in 1 .. 5 : Paths[j] = Paths[k] => j = k
  <2>1. \A j \in 1 .. 5 : j = 1 \/ j = 2 \/ j = 3 \/ j = 4 \/ j = 5
    OBVIOUS
  <2> QED
    BY <1>1, <2>1
<1>4. Paths[i] \in Version
  BY <1>1, <1>2 DEF Version
<1>5. Paths[i] \in Versions(n) <=> i <= n
  BY <1>3 DEF Versions
<1>6. n < 5 => Versions(n + 1) = Versions(n) \union {Paths[n + 1]}
  <2>1. 1 .. (n + 1) = 1 .. n \union {n + 1}
    OBVIOUS
  <2> QED
    BY <2>1 DEF Versions
<1> QED
  BY <1>4, <1>5, <1>6

\* What every file makes of rows that were allowed before it is allowed after it.
LEMMA RewrittenAllowed ==
  ASSUME NEW n \in 0 .. 4, applied = Versions(n), rows \subseteq Allowed(applied)
  PROVE  Rewritten(Paths[n + 1]) \subseteq Allowed(applied \union {Paths[n + 1]})
PROOF
<1>1. applied \union {Paths[n + 1]} = Versions(n + 1)
  BY PathsDistinct
<1>2. /\ Paths[1] = "001" /\ Paths[2] = "002" /\ Paths[3] = "003" /\ Paths[4] = "004" /\ Paths[5] = "005"
  BY DEF Paths
<1>3. \A m \in 0 .. 5 : /\ "001" \in Versions(m) <=> 1 <= m
                        /\ "003" \in Versions(m) <=> 3 <= m
                        /\ "004" \in Versions(m) <=> 4 <= m
  BY <1>2, PathsDistinct
<1>4. n = 0 \/ n = 1 \/ n = 2 \/ n = 3 \/ n = 4
  OBVIOUS
<1>5. CASE n = 0
  BY <1>1, <1>2, <1>3, <1>5 DEF Allowed, Rewritten
<1>6. CASE n = 1
  BY <1>1, <1>2, <1>3, <1>6 DEF Allowed, Rewritten
<1>7. CASE n = 2
  BY <1>1, <1>2, <1>3, <1>7 DEF Allowed, Rewritten, Renamed, Review
<1>8. CASE n = 3
  BY <1>1, <1>2, <1>3, <1>8 DEF Allowed, Rewritten, Review, Retired
<1>9. CASE n = 4
  BY <1>1, <1>2, <1>3, <1>9 DEF Allowed, Rewritten
<1> QED
  BY <1>4, <1>5, <1>6, <1>7, <1>8, <1>9

-----------------------------------------------------------------------------
(* The steps.                                                              *)

\* COMMIT executes the first file that was not executed.
LEMMA WrittenStep ==
  ASSUME MigrationInv, NEW p \in Process, pc[p] = "commit", Written(p), lock' = Nobody,
         \/ Advance(p)
         \/ Goto(p, "failed") /\ UNCHANGED next
  PROVE  MigrationInv'
PROOF
<1> DEFINE n == Done
           v == Paths[n + 1]
<1>1. n \in 0 .. 4 /\ next[p] = n + 1 /\ lock = p
  BY DEF MigrationInv
<1>2. v \in Version /\ Versions(n + 1) = Versions(n) \union {v}
  BY <1>1, PathsDistinct
<1>3. rows' = Rewritten(v) /\ applied' = applied \union {v} /\ executed' = Append(executed, v)
  BY <1>1 DEF Written
<1>4. Rewritten(v) \subseteq Allowed(applied \union {v})
  BY <1>1, RewrittenAllowed DEF MigrationInv
<1> HIDE DEF v
<1>5. /\ executed' \in Seq(Version) /\ Done' = n + 1
      /\ \A i \in 1 .. n : executed'[i] = executed[i]
      /\ executed'[n + 1] = v
  BY <1>2, <1>3, AppendProperties DEF MigrationInv, Done
<1>6. \A i \in 1 .. n + 1 : executed'[i] = Paths[i]
  BY <1>1, <1>5 DEF MigrationInv, v
<1>7. applied' = Versions(n + 1) /\ rows' \subseteq Allowed(applied')
  BY <1>2, <1>3, <1>4 DEF MigrationInv
<1>8. /\ pc' \in [Process -> {"start", "create", "begin", "lock", "check", "execute", "commit",
                              "done", "failed"}]
      /\ next' \in [Process -> Nat]
  BY DEF Advance, Goto, MigrationInv
<1>9. ASSUME NEW q \in Process
      PROVE  /\ next'[q] \in 1 .. n + 2
             /\ pc'[q] \in {"lock", "check", "execute", "commit"} => next'[q] <= 5
             /\ pc'[q] \notin {"check", "execute", "commit"}
  <2>1. CASE q = p
    BY <1>1, <2>1 DEF Advance, Goto, MigrationInv
  <2>2. CASE q # p
    BY <1>1, <2>2 DEF Advance, Goto, MigrationInv
  <2> QED
    BY <2>1, <2>2
<1> QED
  BY <1>1, <1>5, <1>6, <1>7, <1>8, <1>9 DEF MigrationInv

\* The other steps execute nothing.
LEMMA MoveStep ==
  ASSUME MigrationInv, NEW p \in Process,
         \/ FindTable(p) \/ CreateTable(p) \/ NextFile(p) \/ Lock(p) \/ Check(p) \/ Execute(p)
         \/ Crash(p) \/ Rerun(p)
  PROVE  MigrationInv'
PROOF
<1> DEFINE Place == {"start", "create", "begin", "lock", "check", "execute", "commit", "done", "failed"}
<1>1. UNCHANGED <<applied, rows, executed>>
  BY DEF FindTable, CreateTable, NextFile, Lock, Check, Execute, Crash, Rerun
<1>2. Done \in 0 .. 5 /\ Done' = Done
  BY <1>1 DEF MigrationInv, Done
<1>3. \E l \in Place : pc' = [pc EXCEPT ![p] = l]
  BY DEF FindTable, CreateTable, NextFile, Lock, Check, Execute, Crash, Rerun, Goto, Advance
<1>4. UNCHANGED next \/ \E m \in Nat : next' = [next EXCEPT ![p] = m]
  BY DEF FindTable, CreateTable, NextFile, Lock, Check, Execute, Crash, Rerun, Advance, MigrationInv
<1>5. pc' \in [Process -> Place] /\ next' \in [Process -> Nat]
  BY <1>3, <1>4 DEF MigrationInv
<1>6. \A q \in Process \ {p} : pc'[q] = pc[q] /\ next'[q] = next[q]
  BY <1>3, <1>4 DEF MigrationInv
<1>7. \A q \in Process \ {p} : lock = q => lock' = q
  BY MigrationAssumption DEF FindTable, CreateTable, NextFile, Lock, Check, Execute, Crash, Rerun, MigrationInv
<1>8. /\ next'[p] \in 1 .. Done + 1
      /\ pc'[p] \in {"lock", "check", "execute", "commit"} => next'[p] <= 5
      /\ pc'[p] \in {"check", "execute", "commit"} => lock' = p
      /\ pc'[p] \in {"execute", "commit"} => next'[p] = Done + 1
  <2>1. next[p] \in 1 .. Done + 1
    BY DEF MigrationInv
  <2>2. CASE FindTable(p) \/ CreateTable(p)
    BY <2>1, <2>2 DEF FindTable, CreateTable, Goto, MigrationInv
  <2>3. CASE NextFile(p)
    <3>1. Len(Paths) = 5
      BY DEF Paths
    <3> QED
      BY <1>2, <2>1, <2>3, <3>1 DEF NextFile, Goto, MigrationInv
  <2>4. CASE Lock(p)
    BY <2>1, <2>4 DEF Lock, Goto, MigrationInv
  <2>5. CASE Check(p)
    <3>1. next[p] \in 1 .. 5 /\ lock = p
      BY <1>2, <2>1, <2>5 DEF Check, MigrationInv
    <3>2. Paths[next[p]] \in applied <=> next[p] <= Done
      BY <1>2, <3>1, PathsDistinct DEF MigrationInv
    <3> QED
      BY <1>2, <2>1, <2>5, <3>1, <3>2 DEF Check, Advance, Goto, MigrationInv
  <2>6. CASE Execute(p)
    BY <2>1, <2>6 DEF Execute, Goto, MigrationInv
  <2>7. CASE Crash(p)
    BY <2>1, <2>7 DEF Crash, Goto, MigrationInv
  <2>8. CASE Rerun(p)
    BY <1>2, <2>8 DEF Rerun, Goto, MigrationInv
  <2> QED
    BY <2>2, <2>3, <2>4, <2>5, <2>6, <2>7, <2>8
<1> QED
  BY <1>1, <1>2, <1>5, <1>6, <1>7, <1>8 DEF MigrationInv, Done

\* The invariant is inductive.
LEMMA MigrationStep == MigrationInv /\ [Next]_vars => MigrationInv'
PROOF
<1> SUFFICES ASSUME MigrationInv, [Next]_vars PROVE MigrationInv'
  OBVIOUS
<1>1. ASSUME NEW p \in Process, Commit(p) \/ CommitUnanswered(p) PROVE MigrationInv'
  BY <1>1, WrittenStep DEF Commit, CommitUnanswered
<1>2. ASSUME NEW k \in Kind, Insert(k) PROVE MigrationInv'
  BY <1>2 DEF Insert, MigrationInv, Done
<1>3. CASE UNCHANGED vars
  BY <1>3 DEF vars, MigrationInv, Done
<1> QED
  BY <1>1, <1>2, <1>3, MoveStep DEF Next, Step

-----------------------------------------------------------------------------
\* The invariant of the migrations.
THEOREM Invariant == Spec => []MigrationInv
PROOF
<1>1. Init => MigrationInv
  BY EmptySeq DEF Init, MigrationInv, Done, Versions
<1> QED
  BY <1>1, MigrationStep, PTL DEF Spec

\* migrateUp executes every file once, after those before it, whoever races, dies or does
\* not hear the answer to its COMMIT.
THEOREM MigrationsRunOnce == Spec => []ExecutedOnceInOrder
PROOF
<1>1. MigrationInv => ExecutedOnceInOrder
  <2> SUFFICES ASSUME MigrationInv PROVE ExecutedOnceInOrder
    OBVIOUS
  <2>1. /\ Done \in 0 .. 5 /\ executed \in Seq(Version) /\ Len(Paths) = 5 /\ Paths \in Seq(Version)
        /\ Len(executed) = Done
    BY DEF MigrationInv, Done, Paths, Version
  <2>2. SubSeq(executed, 1, Done) = SubSeq(Paths, 1, Done)
    BY <2>1 DEF MigrationInv
  <2>3. IsPrefix(executed, Paths)
    BY <2>1, <2>2 DEF IsPrefix
  <2>4. ToSet(executed) = {executed[i] : i \in 1 .. Done}
    BY <2>1 DEF ToSet
  <2>5. applied = ToSet(executed)
    BY <2>4 DEF MigrationInv, Versions
  <2> QED
    BY <2>3, <2>5 DEF ExecutedOnceInOrder, Paths
<1> QED
  BY <1>1, Invariant, PTL

\* No row that a worker of any release could link keeps a file from being applied: what 003
\* and 004 rewrite satisfies the constraint that they add.
THEOREM NoMigrationIsRefused == Spec => []NoneRefused
PROOF
<1>1. MigrationInv => NoneRefused
  <2> SUFFICES ASSUME MigrationInv, NEW p \in Process, pc[p] = "execute" PROVE Acceptable(p)
    BY DEF NoneRefused
  <2>1. Done \in 0 .. 4 /\ next[p] = Done + 1
    BY DEF MigrationInv
  <2> QED
    BY <2>1, RewrittenAllowed DEF MigrationInv, Acceptable
<1> QED
  BY <1>1, Invariant, PTL
=============================================================================
