--------------------------- MODULE JobWorkerProofs ---------------------------
(***************************************************************************)
(* Proofs about JobWorker, for any set of workers, any subset of them with *)
(* the job's model version, any kinds of handler failures and any number   *)
(* of faults.                                                              *)
(***************************************************************************)
EXTENDS JobWorker, TLAPS

\* A step of Next names the thread that takes it; the clock has none.
ThreadStep(w) == Deliver(w) \/ Step(w) \/ Renew(w) \/ Crash(w)
ClockStep == LeaseExpires \/ LeaseOverruns

Record == [state : State, progress : 0..100]

\* TypeOK in the pieces its proof needs: the row, the threads, the rest.
RowTyped ==
  /\ jobState \in State /\ progress \in 0..100
  /\ owner \in Worker \union {NoWorker} /\ lease \in {"none", "live", "expired"}
  /\ output \in Worker \union {NoWorker} /\ report \in Worker \union {NoWorker}

LocalTyped ==
  /\ pc \in [Worker -> Points]
  /\ rec \in [Worker -> Record]
  /\ timed \in [Worker -> SUBSET Stage]
  /\ beat \in [Worker -> {"off", "beating", "failed"}]

RestTyped ==
  /\ object \in Worker \union {NoWorker}
  /\ acked \in BOOLEAN
  /\ faults \in 0..MaxFaults

-----------------------------------------------------------------------------
(* The inductive invariant.                                                *)

\* A row is owned exactly while it has a lease, and it obeys the properties
\* that speak of it alone.
LeaseHasOwner == owner = NoWorker <=> lease = "none"

RowInv ==
  /\ LeaseHasOwner
  /\ ProgressTracksState
  /\ TerminalRowIsClosed
  /\ AckOnlyTerminal
  /\ CompletedByFinalizer

\* What a thread's own control flow guarantees of its local variables,
\* whether or not it still owns the job.
LocalInv(w) ==
  /\ pc[w] = "mismatch" => rec[w].state = "queued"
  /\ pc[w] = "begin" => rec[w].state \in {"queued"} \union Stage
  /\ pc[w] = "enter" => rec[w].state \in {"queued", "validating", "analyzing", "rendering"}
  /\ pc[w] \in {"refuse", "handle", "fail"} => rec[w].state \in Stage
  /\ pc[w] \in {"put", "head", "finalize", "complete"} => rec[w].state = "uploading"
  /\ pc[w] = "internal" => rec[w].state \in {"queued", "completed"} \union Stage
  /\ pc[w] \in Attempting => rec[w].progress = StageProgress(rec[w].state)
  /\ pc[w] = "enter" /\ rec[w].state # "queued" => rec[w].state \in timed[w]
  /\ pc[w] = "complete" => "uploading" \in timed[w]

\* The local record of a live owner is the row, or one stage ahead of it when
\* the write that should have followed the transition raised.
InSync(w) == rec[w].state = jobState /\ rec[w].progress = progress
Ahead(w) ==
  /\ jobState \in {"queued"} \union Stage
  /\ rec[w].state = Following(jobState)

OwnerInv(w) ==
  /\ Owns(w) /\ pc[w] \in Attempting \ {"internal", "release"} => InSync(w)
  /\ Owns(w) /\ pc[w] = "internal" => InSync(w) \/ Ahead(w)
  /\ Owns(w) /\ pc[w] = "complete" => output = w
  /\ pc[w] = "ack" => jobState \in Terminal

IInv ==
  /\ TypeOK
  /\ RowInv
  /\ \A w \in Worker : LocalInv(w) /\ OwnerInv(w)

-----------------------------------------------------------------------------
\* The statement a step of w executes on the row.
RowStatement(w) ==
  \/ UNCHANGED row
  \/ ClaimRow(w)
  \/ OutputLinked(w)
  \/ ReleaseRow(w)
  \/ pc[w] \in {"mismatch", "enter", "complete"} /\ Written(w, NextRecord(w))
  \/ pc[w] \in {"refuse", "fail", "internal"} /\ rec[w].state \notin Terminal
       /\ Written(w, FailedRecord(w))

\* The local variables of every other thread stay as they are.
OthersKept(w) ==
  \A v \in Worker \ {w} :
    /\ pc'[v] = pc[v] /\ rec'[v] = rec[v]
    /\ timed'[v] = timed[v] /\ beat'[v] = beat[v]

-----------------------------------------------------------------------------
(* What the helpers of the control flow do to the local variables.         *)

\* The type invariant splits into what the row, the threads and the rest are.
LEMMA TypePieces == TypeOK <=> RowTyped /\ LocalTyped /\ RestTyped
PROOF
  BY DEF TypeOK, RowTyped, LocalTyped, RestTyped, Record

\* Goto moves the program counter of its thread and nothing else.
LEMMA GotoEffect ==
  ASSUME LocalTyped, NEW w \in Worker, NEW p \in Points, Goto(w, p)
  PROVE  /\ pc' \in [Worker -> Points] /\ pc'[w] = p
         /\ \A v \in Worker \ {w} : pc'[v] = pc[v]
PROOF
  BY DEF LocalTyped, Goto

\* Leave also clears what process() kept in local variables.
LEMMA LeaveEffect ==
  ASSUME LocalTyped, NEW w \in Worker, NEW p \in Points, Leave(w, p)
  PROVE  /\ LocalTyped' /\ OthersKept(w)
         /\ pc'[w] = p /\ rec'[w] = Fresh /\ timed'[w] = {} /\ beat'[w] = "off"
PROOF
<1>1. Fresh \in Record
  BY DEF Fresh, Record, State
<1> QED
  BY <1>1 DEF LocalTyped, Leave, Goto, OthersKept

\* Timed adds the stage of the handler that ended.
LEMMA TimedEffect ==
  ASSUME LocalTyped, NEW w \in Worker, rec[w].state \in Stage, Timed(w)
  PROVE  /\ timed' \in [Worker -> SUBSET Stage]
         /\ timed'[w] = timed[w] \union {rec[w].state}
         /\ \A v \in Worker \ {w} : timed'[v] = timed[v]
PROOF
  BY DEF LocalTyped, Timed

\* What the transitions compute are records.
LEMMA RecordTypes ==
  ASSUME LocalTyped, NEW w \in Worker
  PROVE  NextRecord(w) \in Record /\ FailedRecord(w) \in Record
PROOF
  BY DEF LocalTyped, Record, NextRecord, FailedRecord, Following, StageProgress,
         State, Stage, Terminal

\* An update leaves a typed row whether it returns or raises.
LEMMA WrittenTypes ==
  ASSUME RowTyped, NEW w \in Worker, NEW r \in Record, Written(w, r) \/ UpdateRaises(w, r)
  PROVE  RowTyped'
PROOF
  BY DEF RowTyped, Record, Written, UpdateRaises, row

\* The fault budget is never exceeded.
LEMMA FaultTypes ==
  ASSUME faults \in 0..MaxFaults, Fault \/ UNCHANGED faults
  PROVE  faults' \in 0..MaxFaults
PROOF
  BY MaxFaultsAssumption DEF Fault

-----------------------------------------------------------------------------
(* The row.                                                                *)

\* Every step of a thread executes at most one statement on the row.
LEMMA StepStatement ==
  ASSUME IInv, NEW w \in Worker, ThreadStep(w)
  PROVE  RowStatement(w)
PROOF
<1>0. LocalInv(w)
  BY DEF IInv
<1>1. CASE Deliver(w) \/ Lookup(w) \/ Begin(w) \/ Handle(w) \/ Put(w) \/ Head(w) \/ Ack(w) \/ Crash(w)
  BY <1>1 DEF RowStatement, Deliver, Lookup, Begin, Handle, Put, Head, Ack, Crash
<1>2. CASE Claim(w)
  BY <1>2 DEF RowStatement, Claim
<1>3. CASE Mismatch(w)
  BY <1>3 DEF RowStatement, Mismatch, UpdateRaises
<1>4. CASE Refuse(w)
  BY <1>0, <1>4 DEF RowStatement, Refuse, Concludes, UpdateRaises, LocalInv, Stage, Terminal
<1>5. CASE Enter(w)
  BY <1>5 DEF RowStatement, Enter, Writes, UpdateRaises
<1>6. CASE Finalize(w)
  BY <1>6 DEF RowStatement, Finalize
<1>7. CASE Complete(w)
  BY <1>7 DEF RowStatement, Complete, UpdateRaises
<1>8. CASE Fail(w)
  BY <1>0, <1>8 DEF RowStatement, Fail, Concludes, UpdateRaises, LocalInv, Stage, Terminal
<1>9. CASE Internal(w)
  BY <1>9 DEF RowStatement, Internal, UpdateRaises
<1>10. CASE Release(w)
  BY <1>10 DEF RowStatement, Release
<1>11. CASE Renew(w)
  BY <1>11 DEF RowStatement, Renew, Renewable, Owns, row
<1> QED
  BY <1>1, <1>2, <1>3, <1>4, <1>5, <1>6, <1>7, <1>8, <1>9, <1>10, <1>11
     DEF ThreadStep, Step

\* A terminal row has no owner and no free lease, so no statement matches it.
LEMMA TerminalRowKept ==
  ASSUME RowInv, NEW w \in Worker, RowStatement(w), jobState \in Terminal
  PROVE  UNCHANGED row
PROOF
  BY NoWorkerAssumption
     DEF RowInv, TerminalRowIsClosed, RowStatement, ClaimRow, Claimable, OutputLinked,
         Finalizable, ReleaseRow, Written, Accepts, Owns

\* A statement of w leaves nothing for another thread to own that it did not
\* own before, and does not change the row under a live owner.
LEMMA OtherOwnersKept ==
  ASSUME IInv, NEW w \in Worker, RowStatement(w), NEW v \in Worker \ {w}, Owns(v)'
  PROVE  Owns(v) /\ UNCHANGED <<jobState, progress, output>>
PROOF
<1>1. CASE ClaimRow(w) \/ UNCHANGED row
  BY <1>1 DEF ClaimRow, Owns, row
<1>2. CASE OutputLinked(w)
  BY <1>2 DEF OutputLinked, Finalizable, Owns
<1>3. CASE ReleaseRow(w)
  BY <1>3, NoWorkerAssumption DEF ReleaseRow, Owns, row
<1>4. CASE \E r \in {NextRecord(w), FailedRecord(w)} : Written(w, r)
  BY <1>4, NoWorkerAssumption DEF Written, Accepts, Owns
<1> QED
  BY <1>1, <1>2, <1>3, <1>4 DEF RowStatement

\* Every statement keeps the row's invariant.  The progress of a failed job is
\* the one place where the local record matters: it may be a stage ahead.
LEMMA RowInvStep ==
  ASSUME IInv, NEW w \in Worker, RowStatement(w),
         acked' => acked \/ pc[w] = "ack"
  PROVE  RowInv'
PROOF
<1> USE NoWorkerAssumption
<1>0. TypeOK /\ RowInv /\ LocalInv(w) /\ OwnerInv(w)
  BY DEF IInv
<1>1. acked' => jobState' \in Terminal
  <2>1. acked' => jobState \in Terminal
    BY <1>0 DEF RowInv, AckOnlyTerminal, OwnerInv
  <2> QED
    BY <1>0, <2>1, TerminalRowKept DEF row
<1>2. CASE UNCHANGED row
  BY <1>0, <1>1, <1>2 DEF RowInv, LeaseHasOwner, ProgressTracksState, TerminalRowIsClosed,
                        AckOnlyTerminal, CompletedByFinalizer, row
<1>3. CASE ClaimRow(w)
  BY <1>0, <1>1, <1>3 DEF RowInv, LeaseHasOwner, ProgressTracksState, TerminalRowIsClosed,
       AckOnlyTerminal, CompletedByFinalizer, ClaimRow, Claimable, Terminal
<1>4. CASE OutputLinked(w)
  BY <1>0, <1>1, <1>4 DEF RowInv, LeaseHasOwner, ProgressTracksState, TerminalRowIsClosed,
       AckOnlyTerminal, CompletedByFinalizer, OutputLinked, Finalizable, Terminal
<1>5. CASE ReleaseRow(w)
  BY <1>0, <1>1, <1>2, <1>5 DEF RowInv, LeaseHasOwner, ProgressTracksState, TerminalRowIsClosed,
       AckOnlyTerminal, CompletedByFinalizer, ReleaseRow, Terminal
<1>6. CASE pc[w] \in {"mismatch", "enter", "complete"} /\ Written(w, NextRecord(w))
  <2>1. /\ Owns(w) /\ InSync(w)
        /\ jobState' = Following(jobState) /\ progress' = StageProgress(jobState')
    BY <1>0, <1>6 DEF Written, Accepts, OwnerInv, InSync, NextRecord, Attempting
  <2>2. jobState' = "completed" => output = w
    BY <1>0, <1>6, <2>1
       DEF LocalInv, OwnerInv, InSync, Following, NextRecord
  <2>3. jobState' # "failed" /\ jobState \notin Terminal
    BY <1>0, <2>1 DEF Following, RowInv, TerminalRowIsClosed, Owns
  <2> QED
    BY <1>0, <1>1, <1>6, <2>1, <2>2, <2>3
       DEF RowInv, LeaseHasOwner, ProgressTracksState, TerminalRowIsClosed, AckOnlyTerminal,
           CompletedByFinalizer, Written, NextRecord, InSync, StageProgress, Terminal, Owns
<1>7. CASE /\ pc[w] \in {"refuse", "fail", "internal"} /\ rec[w].state \notin Terminal
           /\ Written(w, FailedRecord(w))
  <2>1. /\ jobState' = "failed" /\ progress' = rec[w].progress
        /\ rec[w].progress = StageProgress(rec[w].state)
        /\ jobState \in Stage /\ Owns(w)
    BY <1>0, <1>7 DEF Written, Accepts, FailedRecord, LocalInv, Attempting, Writable,
                      TypeOK, State, Stage, Terminal
  <2>2. rec[w].state \in Stage
    BY <1>0, <1>7, <2>1 DEF OwnerInv, InSync, Ahead, LocalInv, Attempting, Following, Stage, Terminal
  <2>3. progress' \in {10, 45, 75, 90}
    BY <2>1, <2>2 DEF StageProgress, Stage
  <2> QED
    BY <1>0, <1>1, <1>7, <2>1, <2>3
       DEF RowInv, LeaseHasOwner, ProgressTracksState, TerminalRowIsClosed, AckOnlyTerminal,
           CompletedByFinalizer, Written, FailedRecord, Terminal
<1> QED
  BY <1>2, <1>3, <1>4, <1>5, <1>6, <1>7 DEF RowStatement

-----------------------------------------------------------------------------
(* The threads.                                                            *)

\* A step of w touches the local variables of w only, keeps their types and
\* its control-flow invariant.
LEMMA LocalStep ==
  ASSUME IInv, NEW w \in Worker, ThreadStep(w)
  PROVE  LocalTyped' /\ OthersKept(w) /\ LocalInv(w)'
PROOF
<1>0. LocalTyped /\ RowTyped /\ LocalInv(w) /\ RowInv
  BY TypePieces DEF IInv
<1> USE <1>0, GotoEffect, LeaveEffect
<1> USE DEF Points, Attempting
<1>1. ASSUME Leave(w, "idle") \/ Leave(w, "ack")
      PROVE  LocalTyped' /\ OthersKept(w) /\ LocalInv(w)'
  BY <1>1 DEF LocalInv
<1>2. CASE Lookup(w) \/ Refuse(w) \/ Fail(w) \/ Release(w) \/ Ack(w) \/ Crash(w)
  BY <1>1, <1>2 DEF Lookup, Refuse, Fail, Concludes, Release, Ack, Crash
<1>3. CASE Deliver(w)
  BY <1>3 DEF Deliver, Stay, LocalTyped, OthersKept, LocalInv
<1>4. CASE Claim(w)
  <2>1. ASSUME ClaimRow(w), Goto(w, Started(w)),
               rec' = [rec EXCEPT ![w] = [state |-> jobState, progress |-> progress]],
               beat' = [beat EXCEPT ![w] = IF w \in Compatible THEN "beating" ELSE "off"],
               UNCHANGED timed
        PROVE  LocalTyped' /\ OthersKept(w) /\ LocalInv(w)'
    <3>1. /\ jobState \in {"queued"} \union Stage
          /\ progress = StageProgress(jobState)
      BY <2>1 DEF ClaimRow, Claimable, RowInv, ProgressTracksState, RowTyped, State
    <3>2. /\ Started(w) \in {"begin", "mismatch", "refuse"}
          /\ Started(w) = "mismatch" => jobState = "queued"
          /\ Started(w) = "refuse" => jobState # "queued"
      BY DEF Started
    <3>3. /\ pc' \in [Worker -> Points] /\ pc'[w] = Started(w)
          /\ \A v \in Worker \ {w} : pc'[v] = pc[v]
      BY <2>1, <3>2
    <3>4. /\ rec' \in [Worker -> Record]
          /\ rec'[w].state = jobState /\ rec'[w].progress = progress
          /\ \A v \in Worker \ {w} : rec'[v] = rec[v]
      BY <2>1 DEF LocalTyped, RowTyped, Record
    <3>5. /\ beat' \in [Worker -> {"off", "beating", "failed"}]
          /\ \A v \in Worker \ {w} : beat'[v] = beat[v]
      BY <2>1 DEF LocalTyped
    <3> QED
      BY <2>1, <3>1, <3>2, <3>3, <3>4, <3>5 DEF LocalTyped, OthersKept, LocalInv
  <2>2. ASSUME Goto(w, "lookup"), Stay
        PROVE  LocalTyped' /\ OthersKept(w) /\ LocalInv(w)'
    BY <2>2 DEF Stay, LocalTyped, OthersKept, LocalInv
  <2> QED
    BY <1>1, <1>4, <2>1, <2>2 DEF Claim
<1>5. ASSUME NEW p \in {"refuse", "handle", "internal"}, Goto(w, p),
             rec' = [rec EXCEPT ![w] = NextRecord(w)], UNCHANGED <<timed, beat>>,
             p = "refuse" => rec[w].state = "queued",
             p = "handle" => rec[w].state \in {"queued", "validating", "analyzing", "rendering"},
             rec[w].state \in {"queued"} \union Stage
      PROVE  LocalTyped' /\ OthersKept(w) /\ LocalInv(w)'
  <2>1. /\ rec' \in [Worker -> Record]
        /\ \A v \in Worker \ {w} : rec'[v] = rec[v]
        /\ rec'[w].state = Following(rec[w].state)
        /\ rec'[w].progress = StageProgress(rec'[w].state)
    BY <1>5, RecordTypes DEF LocalTyped, NextRecord
  <2>2. /\ Following(rec[w].state) \in Stage \union {"completed"}
        /\ p \in {"refuse", "handle"} => Following(rec[w].state) \in Stage
    BY <1>5 DEF Following, Stage
  <2> QED
    BY <1>5, <2>1, <2>2 DEF LocalTyped, OthersKept, LocalInv
<1>6. CASE Mismatch(w)
  BY <1>1, <1>5, <1>6 DEF Mismatch, LocalInv
<1>7. CASE Begin(w)
  BY <1>7 DEF Begin, Stay, LocalTyped, OthersKept, LocalInv, Stage
<1>8. CASE Enter(w)
  <2>1. CASE beat[w] = "failed"
    BY <1>8, <2>1 DEF Enter, LocalTyped, OthersKept, LocalInv
  <2>2. CASE beat[w] # "failed"
    BY <1>5, <1>8, <2>2 DEF Enter, Writes, LocalInv, Stage
  <2> QED
    BY <2>1, <2>2
<1>9. ASSUME NEW p \in {"enter", "complete", "release", "fail", "internal"}, Goto(w, p), Timed(w),
             rec[w].state \in Stage, UNCHANGED <<rec, beat>>,
             rec[w].progress = StageProgress(rec[w].state),
             p = "enter" => rec[w].state # "uploading",
             p = "complete" => rec[w].state = "uploading"
      PROVE  LocalTyped' /\ OthersKept(w) /\ LocalInv(w)'
  BY <1>9, TimedEffect DEF LocalTyped, OthersKept, LocalInv, Stage
<1>10. ASSUME NEW p \in {"put", "head", "finalize"}, Goto(w, p),
              rec[w].state = "uploading", rec[w].progress = StageProgress("uploading"),
              UNCHANGED <<rec, timed, beat>>
       PROVE  LocalTyped' /\ OthersKept(w) /\ LocalInv(w)'
  BY <1>10 DEF LocalTyped, OthersKept, LocalInv
<1>11. /\ AfterHandler(w) \in {"enter", "complete", "release"}
       /\ AfterHandler(w) = "enter" => rec[w].state # "uploading"
       /\ AfterHandler(w) = "complete" => rec[w].state = "uploading"
  BY DEF AfterHandler
<1>12. \A f \in Failures : OnFailure(f) \in {"release", "fail", "internal"}
  BY DEF OnFailure
<1>13. CASE Handle(w)
  BY <1>9, <1>10, <1>11, <1>12, <1>13 DEF Handle, LocalInv
<1>14. CASE Put(w)
  BY <1>9, <1>10, <1>14 DEF Put, LocalInv, Stage
<1>15. CASE Head(w)
  BY <1>9, <1>10, <1>15 DEF Head, LocalInv, Stage
<1>16. CASE Finalize(w)
  BY <1>9, <1>11, <1>16 DEF Finalize, LocalInv, Stage
<1>17. CASE Complete(w)
  BY <1>1, <1>5, <1>17 DEF Complete, LocalInv, Stage
<1>18. CASE Internal(w)
  BY <1>1, <1>18 DEF Internal, Stay, LocalTyped, OthersKept, LocalInv
<1>19. CASE Renew(w)
  BY <1>19 DEF Renew, LocalTyped, OthersKept, LocalInv
<1> QED
  BY <1>2, <1>3, <1>4, <1>6, <1>7, <1>8, <1>13, <1>14, <1>15, <1>16, <1>17, <1>18, <1>19
     DEF ThreadStep, Step

\* The thread that moves keeps its record in step with the row it owns.
LEMMA OwnerStep ==
  ASSUME IInv, NEW w \in Worker, ThreadStep(w)
  PROVE  OwnerInv(w)'
PROOF
<1>0. LocalTyped /\ RowTyped /\ LocalInv(w) /\ OwnerInv(w) /\ RowInv
  BY TypePieces DEF IInv
<1> USE <1>0, GotoEffect, LeaveEffect
<1> USE DEF Points, Attempting
<1>1. ASSUME Leave(w, "idle")
      PROVE  OwnerInv(w)'
  BY <1>1 DEF OwnerInv
<1>2. ASSUME Leave(w, "ack"), jobState' \in Terminal
      PROVE  OwnerInv(w)'
  BY <1>2 DEF OwnerInv
<1>3. ASSUME NEW p \in {"claim", "lookup", "release"}, Goto(w, p)
      PROVE  OwnerInv(w)'
  BY <1>3 DEF OwnerInv
<1>4. ASSUME UNCHANGED <<row, rec>>, NEW p \in Attempting \ {"complete"}, Goto(w, p),
             pc[w] \in Attempting \ {"internal", "release"}
      PROVE  OwnerInv(w)'
  BY <1>4 DEF OwnerInv, Owns, InSync, row
<1>5. CASE Deliver(w)
  BY <1>3, <1>5 DEF Deliver
<1>6. CASE Claim(w)
  <2>1. ASSUME ClaimRow(w), Goto(w, Started(w)),
               rec' = [rec EXCEPT ![w] = [state |-> jobState, progress |-> progress]]
        PROVE  OwnerInv(w)'
    <3>1. Started(w) \in {"begin", "mismatch", "refuse"}
      BY DEF Started
    <3>2. pc'[w] = Started(w)
      BY <2>1, <3>1
    <3>3. rec'[w].state = jobState' /\ rec'[w].progress = progress'
      BY <2>1 DEF LocalTyped, ClaimRow
    <3> QED
      BY <3>1, <3>2, <3>3 DEF OwnerInv, InSync
  <2> QED
    BY <1>1, <1>3, <1>6, <2>1 DEF Claim
<1>7. CASE Lookup(w) \/ Release(w) \/ Ack(w) \/ Crash(w)
  BY <1>1, <1>2, <1>7 DEF Lookup, Release, Ack, Crash, row
<1>8. ASSUME NEW r \in {NextRecord(w), FailedRecord(w)}, Written(w, r), r.state \in Terminal
      PROVE  jobState' \in Terminal
  BY <1>8 DEF Written
<1>9. FailedRecord(w).state \in Terminal
  BY DEF FailedRecord, LocalTyped, Record, Terminal
<1>10. CASE Refuse(w) \/ Fail(w)
  BY <1>1, <1>2, <1>8, <1>9, <1>10 DEF Refuse, Fail, Concludes
<1>11. rec' = [rec EXCEPT ![w] = NextRecord(w)] =>
         /\ rec'[w] = NextRecord(w)
         /\ rec'[w].state = Following(rec[w].state)
  BY DEF LocalTyped, NextRecord
<1>12. ASSUME NEW p \in {"refuse", "handle"}, Goto(w, p), Written(w, NextRecord(w)),
              rec' = [rec EXCEPT ![w] = NextRecord(w)]
       PROVE  OwnerInv(w)'
  BY <1>11, <1>12 DEF OwnerInv, InSync, Written
<1>13. ASSUME Goto(w, "internal"), UpdateRaises(w, NextRecord(w)),
              pc[w] \in {"enter", "complete"},
              rec' = [rec EXCEPT ![w] = NextRecord(w)]
       PROVE  OwnerInv(w)'
  <2>1. CASE Written(w, NextRecord(w))
    BY <1>11, <1>13, <2>1 DEF OwnerInv, InSync, Written
  <2>2. CASE UNCHANGED row
    <3>1. Owns(w) => InSync(w) /\ rec[w].state \in {"queued"} \union Stage
      BY <1>13 DEF OwnerInv, LocalInv, Stage
    <3> QED
      BY <1>11, <1>13, <2>2, <3>1 DEF OwnerInv, InSync, Ahead, Owns, row
  <2> QED
    BY <1>13, <2>1, <2>2 DEF UpdateRaises
<1>14. CASE Mismatch(w)
  BY <1>1, <1>12, <1>14 DEF Mismatch
<1>15. CASE Begin(w)
  BY <1>4, <1>15 DEF Begin, Stay
<1>16. CASE Enter(w)
  BY <1>3, <1>12, <1>13, <1>16 DEF Enter, Writes
<1>17. /\ AfterHandler(w) \in {"enter", "complete", "release"}
       /\ AfterHandler(w) = "complete" => rec[w].state = "uploading"
       /\ \A f \in Failures : OnFailure(f) \in {"release", "fail", "internal"}
  BY DEF AfterHandler, OnFailure
<1>18. CASE Handle(w)
  BY <1>4, <1>17, <1>18 DEF Handle
<1>19. CASE Put(w)
  BY <1>4, <1>19 DEF Put
<1>20. CASE Head(w)
  BY <1>4, <1>20 DEF Head
<1>21. CASE Finalize(w)
  <2>1. ASSUME OutputLinked(w), NEW p \in Attempting, Goto(w, p), UNCHANGED rec
        PROVE  OwnerInv(w)'
    BY <1>21, <2>1 DEF Finalize, OwnerInv, Owns, InSync, OutputLinked
  <2> QED
    BY <1>4, <1>17, <1>21, <2>1 DEF Finalize
<1>22. CASE Complete(w)
  <2>1. NextRecord(w).state \in Terminal
    BY <1>22 DEF Complete, NextRecord, LocalInv, Following, Terminal
  <2> QED
    BY <1>2, <1>8, <1>13, <1>22, <2>1 DEF Complete
<1>23. CASE Internal(w)
  BY <1>2, <1>3, <1>8, <1>9, <1>23 DEF Internal
<1>24. CASE Renew(w)
  BY <1>24 DEF Renew, Renewable, Owns, OwnerInv, InSync, Ahead
<1> QED
  BY <1>5, <1>6, <1>7, <1>10, <1>14, <1>15, <1>16, <1>18, <1>19, <1>20, <1>21, <1>22, <1>23, <1>24
     DEF ThreadStep, Step

-----------------------------------------------------------------------------
(* The invariant.                                                          *)

\* A freshly inserted job satisfies the invariant.
LEMMA InitInv == Init => IInv
PROOF
<1> SUFFICES ASSUME Init PROVE IInv
  OBVIOUS
<1>1. TypeOK
  <2>1. Fresh \in [state : State, progress : 0..100]
    BY DEF Fresh, State
  <2>2. 0 \in 0..MaxFaults
    BY MaxFaultsAssumption
  <2>3. RowTyped
    BY DEF Init, RowTyped, State
  <2>4. LocalTyped
    BY <2>1 DEF Init, LocalTyped, Points, Record
  <2>5. acked \in BOOLEAN
    BY DEF Init
  <2>6. RestTyped
    BY <2>2, <2>5 DEF Init, RestTyped
  <2> QED
    BY <2>3, <2>4, <2>6, TypePieces
<1>2. RowInv
  BY NoWorkerAssumption
     DEF Init, RowInv, LeaseHasOwner, ProgressTracksState, TerminalRowIsClosed, AckOnlyTerminal,
         CompletedByFinalizer, StageProgress, Terminal
<1>3. ASSUME NEW w \in Worker PROVE LocalInv(w) /\ OwnerInv(w)
  BY <1>3 DEF Init, LocalInv, OwnerInv, Attempting
<1> QED
  BY <1>1, <1>2, <1>3 DEF IInv

\* What no thread lemma says: the row's types, the object, acked and faults.
LEMMA RestStep ==
  ASSUME IInv, NEW w \in Worker, ThreadStep(w)
  PROVE  /\ RowTyped' /\ RestTyped'
         /\ acked' => acked \/ pc[w] = "ack"
PROOF
<1>0. RowTyped /\ LocalTyped /\ RestTyped
  BY TypePieces DEF IInv
<1>1. RowTyped'
  <2>1. RowStatement(w)
    BY StepStatement
  <2> QED
    BY <1>0, <2>1, RecordTypes, WrittenTypes
       DEF RowStatement, RowTyped, ClaimRow, OutputLinked, ReleaseRow, row
<1>2. faults' \in 0..MaxFaults
  <2>1. Fault \/ UNCHANGED faults
    BY DEF ThreadStep, Step, Deliver, Claim, Lookup, Mismatch, Refuse, Begin, Enter, Handle, Put,
           Head, Finalize, Complete, Fail, Internal, Release, Ack, Renew, Crash, Writes, Concludes,
           UpdateRaises
  <2> QED
    BY <1>0, <2>1, FaultTypes DEF RestTyped
<1>3. object' \in Worker \union {NoWorker}
  BY <1>0 DEF RestTyped, ThreadStep, Step, Deliver, Claim, Lookup, Mismatch, Refuse, Begin, Enter,
         Handle, Put, Head, Finalize, Complete, Fail, Internal, Release, Ack, Renew, Crash
<1>4. acked' = acked \/ (acked' = TRUE /\ pc[w] = "ack")
  BY DEF ThreadStep, Step, Deliver, Claim, Lookup, Mismatch, Refuse, Begin, Enter,
         Handle, Put, Head, Finalize, Complete, Fail, Internal, Release, Ack, Renew, Crash
<1>5. acked' \in BOOLEAN
  BY <1>0, <1>4 DEF RestTyped
<1>6. acked' => acked \/ pc[w] = "ack"
  BY <1>4
<1> QED
  BY <1>1, <1>2, <1>3, <1>5, <1>6 DEF RestTyped

\* A step of one thread preserves the invariant, its own part by LocalStep and
\* OwnerStep, that of every other thread because a lease has one owner.
LEMMA ThreadInv ==
  ASSUME IInv, NEW w \in Worker, ThreadStep(w)
  PROVE  IInv'
PROOF
<1>1. RowStatement(w)
  BY StepStatement
<1>2. TypeOK'
  BY LocalStep, RestStep, TypePieces, PTL
<1>3. RowInv'
  BY <1>1, RestStep, RowInvStep
<1>4. ASSUME NEW v \in Worker PROVE LocalInv(v)' /\ OwnerInv(v)'
  <2>1. CASE v = w
    BY <2>1, LocalStep, OwnerStep
  <2>2. CASE v # w
    <3>1. /\ LocalInv(v) /\ OwnerInv(v) /\ RowInv
          /\ pc'[v] = pc[v] /\ rec'[v] = rec[v] /\ timed'[v] = timed[v]
      BY <2>2, LocalStep DEF IInv, OthersKept
    <3>2. jobState \in Terminal => jobState' = jobState
      BY <1>1, <3>1, TerminalRowKept DEF row
    <3>3. Owns(v)' => Owns(v) /\ UNCHANGED <<jobState, progress, output>>
      BY <1>1, <2>2, OtherOwnersKept
    <3>4. LocalInv(v)'
      BY <3>1 DEF LocalInv
    <3>5. OwnerInv(v)'
      BY <3>1, <3>2, <3>3 DEF OwnerInv, InSync, Ahead
    <3> QED
      BY <3>4, <3>5
  <2> QED
    BY <2>1, <2>2
<1> QED
  BY <1>2, <1>3, <1>4 DEF IInv

\* An expiry takes a lease from everyone, and gives it to no one.
LEMMA ClockInv ==
  ASSUME IInv, ClockStep
  PROVE  IInv'
PROOF
<1>0. /\ lease = "live" /\ lease' = "expired"
      /\ UNCHANGED <<jobState, progress, owner, output, report, object, acked, local>>
      /\ Fault \/ UNCHANGED faults
  BY DEF ClockStep, LeaseExpires, LeaseOverruns, Expired
<1>1. TypeOK'
  BY <1>0, FaultTypes DEF IInv, TypeOK, local
<1>2. RowInv'
  BY <1>0 DEF IInv, RowInv, LeaseHasOwner, ProgressTracksState, TerminalRowIsClosed, AckOnlyTerminal,
         CompletedByFinalizer, Terminal
<1>3. ASSUME NEW v \in Worker PROVE LocalInv(v)' /\ OwnerInv(v)'
  BY <1>0 DEF IInv, LocalInv, OwnerInv, Owns, local
<1> QED
  BY <1>1, <1>2, <1>3 DEF IInv

\* The invariant speaks of nothing but the variables.
LEMMA StutterInv ==
  ASSUME IInv, UNCHANGED vars
  PROVE  IInv'
PROOF
  BY DEF IInv, TypeOK, RowInv, LeaseHasOwner, ProgressTracksState, TerminalRowIsClosed,
         AckOnlyTerminal, CompletedByFinalizer, LocalInv, OwnerInv, Owns, InSync, Ahead,
         vars, row, local

\* A step is one of a thread, of the database clock, or a stutter.
LEMMA StepCases ==
  ASSUME [Next]_vars
  PROVE  (\E w \in Worker : ThreadStep(w)) \/ ClockStep \/ UNCHANGED vars
PROOF
  BY DEF Next, ThreadStep, ClockStep

\* The invariant is inductive.
LEMMA NextInv == IInv /\ [Next]_vars => IInv'
PROOF
  BY StepCases, ThreadInv, ClockInv, StutterInv

\* The inductive invariant holds in every reachable state.
THEOREM Invariant == Spec => []IInv
PROOF
  BY InitInv, NextInv, PTL DEF Spec

\* Every reachable state is of the declared types.
THEOREM TypeCorrect == Spec => []TypeOK
PROOF
<1>1. IInv => TypeOK
  BY DEF IInv
<1> QED
  BY <1>1, Invariant, PTL

\* However attempts, crashes and lost replies interleave, XACK of the stream
\* entry is executed only after a terminal state is in the row.
THEOREM AcknowledgedIsTerminal == Spec => []AckOnlyTerminal
PROOF
<1>1. IInv => AckOnlyTerminal
  BY DEF IInv, RowInv
<1> QED
  BY <1>1, Invariant, PTL

\* A completed job links the output of the attempt that completed it.
THEOREM OutputOfCompletingAttempt == Spec => []CompletedByFinalizer
PROOF
<1>1. IInv => CompletedByFinalizer
  BY DEF IInv, RowInv
<1> QED
  BY <1>1, Invariant, PTL

\* Progress belongs to the state, and the terminal write closes the row.
THEOREM RowIsCoherent == Spec => [](ProgressTracksState /\ TerminalRowIsClosed)
PROOF
<1>1. IInv => ProgressTracksState /\ TerminalRowIsClosed
  BY DEF IInv, RowInv
<1> QED
  BY <1>1, Invariant, PTL

-----------------------------------------------------------------------------
(* Consequences of the invariant for single steps.                         *)

\* A write by the owner of a live lease is never refused, so LeaseLostError is
\* raised only to an attempt that lost its lease.
THEOREM LeaseLostMeansLost == Spec => []LiveOwnerAccepted
PROOF
<1>1. IInv => LiveOwnerAccepted
  <2> SUFFICES ASSUME IInv, NEW w \in Worker, Owns(w)
               PROVE  /\ pc[w] \in {"enter", "complete", "mismatch"} => Accepts(w, NextRecord(w))
                      /\ pc[w] \in {"fail", "refuse"} => Accepts(w, FailedRecord(w))
                      /\ pc[w] = "finalize" => Finalizable(w)
                      /\ pc[w] = "internal" /\ rec[w].state \in Stage /\ jobState # "queued"
                           => Accepts(w, FailedRecord(w))
    BY DEF LiveOwnerAccepted
  <2> USE DEF Attempting
  <2>0. LocalTyped /\ RowTyped /\ RowInv /\ LocalInv(w) /\ OwnerInv(w)
    BY TypePieces DEF IInv
  <2>1. jobState \notin Terminal /\ progress = StageProgress(jobState)
    BY <2>0, NoWorkerAssumption DEF RowInv, TerminalRowIsClosed, ProgressTracksState, Owns
  <2>2. ASSUME pc[w] \in {"enter", "complete", "mismatch"}
        PROVE  Accepts(w, NextRecord(w))
    <3>1. rec[w].state = jobState /\ jobState \in {"queued"} \union Stage
      BY <2>0, <2>1, <2>2 DEF OwnerInv, InSync, RowTyped, State
    <3> QED
      BY <2>1, <3>1 DEF Accepts, NextRecord, Writable, Following, StageProgress, Stage
  <2>3. FailedRecord(w).state = "failed" /\ FailedRecord(w).progress = rec[w].progress
    BY <2>0 DEF FailedRecord, LocalTyped, Record
  <2>4. ASSUME pc[w] \in {"fail", "refuse"}
        PROVE  Accepts(w, FailedRecord(w))
    <3>1. InSync(w) /\ rec[w].state \in Stage
      BY <2>0, <2>4 DEF OwnerInv, LocalInv
    <3> QED
      BY <2>0, <2>3, <3>1 DEF Accepts, Writable, InSync, RowTyped
  <2>5. pc[w] = "finalize" => Finalizable(w)
    BY <2>0 DEF OwnerInv, LocalInv, InSync, Finalizable
  <2>6. ASSUME pc[w] = "internal", rec[w].state \in Stage, jobState # "queued"
        PROVE  Accepts(w, FailedRecord(w))
    <3>1. jobState \in Stage
      BY <2>0, <2>1, <2>6 DEF RowTyped, State
    <3>2. progress <= rec[w].progress
      BY <2>0, <2>1, <2>6, <3>1
         DEF OwnerInv, LocalInv, InSync, Ahead, Following, StageProgress, Stage, RowTyped
    <3> QED
      BY <2>3, <3>1, <3>2 DEF Accepts, Writable
  <2> QED
    BY <2>2, <2>4, <2>5, <2>6
<1> QED
  BY <1>1, Invariant, PTL

\* Nothing changes a terminal row: neither redeliveries nor late calls of
\* attempts that lost the lease.
THEOREM TerminalNeverChanges == Spec => TerminalIsFinal
PROOF
<1>1. IInv /\ [Next]_vars => [(jobState \in Terminal) => UNCHANGED row]_vars
  <2> SUFFICES ASSUME IInv, [Next]_vars, jobState \in Terminal
               PROVE  UNCHANGED row
    BY DEF row
  <2>1. ASSUME NEW w \in Worker, ThreadStep(w) PROVE UNCHANGED row
    BY <2>1, StepStatement, TerminalRowKept DEF IInv
  <2>2. ASSUME ClockStep PROVE UNCHANGED row
    BY <2>2 DEF IInv, RowInv, TerminalRowIsClosed, ClockStep, LeaseExpires, LeaseOverruns, Expired
  <2>3. ASSUME UNCHANGED vars PROVE UNCHANGED row
    BY <2>3 DEF vars, row
  <2> QED
    BY <2>1, <2>2, <2>3, StepCases
<1> QED
  BY <1>1, Invariant, PTL DEF Spec, TerminalIsFinal

\* Every step of a thread but a renewal moves its program counter.
LEMMA PointMoves ==
  ASSUME LocalTyped, NEW w \in Worker, ThreadStep(w), ~Renew(w)
  PROVE  pc'[w] # pc[w]
PROOF
<1> USE GotoEffect, LeaveEffect DEF Points, Attempting
<1>1. CASE Deliver(w) \/ Begin(w) \/ Put(w) \/ Head(w)
  BY <1>1 DEF Deliver, Begin, Put, Head
<1>2. CASE Lookup(w) \/ Refuse(w) \/ Fail(w) \/ Release(w) \/ Ack(w) \/ Crash(w)
  <2>1. ASSUME NEW p \in {"idle", "ack"}, Leave(w, p), pc[w] # p
        PROVE  pc'[w] # pc[w]
    BY <2>1
  <2> HIDE DEF Points, Attempting
  <2> QED
    BY <1>2, <2>1 DEF Lookup, Refuse, Concludes, Fail, Release, Ack, Crash
<1>3. CASE Claim(w)
  BY <1>3 DEF Claim, Started
<1>4. CASE Mismatch(w) \/ Enter(w) \/ Complete(w) \/ Internal(w)
  BY <1>4 DEF Mismatch, Enter, Complete, Internal, Writes
<1>5. CASE Handle(w) \/ Finalize(w)
  <2>1. /\ AfterHandler(w) \in {"enter", "complete", "release"}
        /\ \A f \in Failures : OnFailure(f) \in {"release", "fail", "internal"}
    BY DEF AfterHandler, OnFailure
  <2> QED
    BY <1>5, <2>1 DEF Handle, Finalize
<1> QED
  BY <1>1, <1>2, <1>3, <1>4, <1>5 DEF ThreadStep, Step

\* A live lease ends only by expiring or by a step of its own attempt.
THEOREM LiveLeaseKept == Spec => LiveLeaseIsExclusive
PROOF
<1>1. IInv /\ [Next]_vars =>
        [(lease = "live" /\ owner' # owner) => owner' = NoWorker /\ pc[owner] # pc'[owner]]_vars
  <2> SUFFICES ASSUME IInv, [Next]_vars, lease = "live", owner' # owner
               PROVE  owner' = NoWorker /\ pc[owner] # pc'[owner]
    OBVIOUS
  <2>1. ASSUME NEW w \in Worker, ThreadStep(w)
        PROVE  owner' = NoWorker /\ pc[owner] # pc'[owner]
    <3>1. owner = w /\ owner' = NoWorker
      BY <2>1, StepStatement
         DEF RowStatement, ClaimRow, Claimable, OutputLinked, ReleaseRow, Written, Accepts, Owns, row
    <3>2. LocalTyped
      BY TypePieces DEF IInv
    <3>3. pc'[w] # pc[w]
      BY <2>1, <3>1, <3>2, PointMoves DEF Renew
    <3> QED
      BY <3>1, <3>3
  <2>2. ASSUME ClockStep PROVE FALSE
    BY <2>2 DEF ClockStep, LeaseExpires, LeaseOverruns, Expired
  <2>3. ASSUME UNCHANGED vars PROVE FALSE
    BY <2>3 DEF vars, row
  <2> QED
    BY <2>1, <2>2, <2>3, StepCases
<1> QED
  BY <1>1, Invariant, PTL DEF Spec, LiveLeaseIsExclusive

\* A stage is left forwards only by an attempt that ran its handler.
THEOREM StagesRunInOrder == Spec => NoStageSkipped
PROOF
<1>1. IInv /\ [Next]_vars =>
        [jobState' # jobState /\ jobState \in Stage /\ jobState' # "failed" =>
           \E w \in Worker : Owns(w) /\ jobState \in timed[w]]_vars
  <2> SUFFICES ASSUME IInv, [Next]_vars,
                      jobState' # jobState, jobState \in Stage, jobState' # "failed"
               PROVE  \E w \in Worker : Owns(w) /\ jobState \in timed[w]
    OBVIOUS
  <2>1. ASSUME NEW w \in Worker, ThreadStep(w)
        PROVE  Owns(w) /\ jobState \in timed[w]
    <3>0. LocalTyped /\ LocalInv(w) /\ OwnerInv(w)
      BY TypePieces DEF IInv
    <3>1. FailedRecord(w).state = "failed"
      BY <3>0 DEF FailedRecord, LocalTyped, Record
    <3>2. pc[w] \in {"mismatch", "enter", "complete"} /\ Owns(w)
      BY <2>1, <3>1, StepStatement
         DEF RowStatement, ClaimRow, OutputLinked, ReleaseRow, Written, Accepts, row
    <3>3. rec[w].state = jobState /\ rec[w].state # "queued"
      BY <3>0, <3>2 DEF OwnerInv, InSync, Attempting, Stage
    <3> QED
      BY <3>0, <3>2, <3>3 DEF LocalInv
  <2>2. ASSUME ClockStep \/ UNCHANGED vars PROVE FALSE
    BY <2>2 DEF ClockStep, LeaseExpires, LeaseOverruns, Expired, vars, row
  <2> QED
    BY <2>1, <2>2, StepCases
<1> QED
  BY <1>1, Invariant, PTL DEF Spec, NoStageSkipped

-----------------------------------------------------------------------------
(* Refinement.                                                             *)

\* Each statement on the row is one step of the life cycle, or none.
LEMMA StatementRefines ==
  ASSUME IInv, NEW w \in Worker, RowStatement(w), UNCHANGED acked
  PROVE  [Lifecycle!LifecycleNext]_(Lifecycle!lifecycleVars)
PROOF
<1> USE NoWorkerAssumption DEF Lifecycle!LifecycleNext, Lifecycle!lifecycleVars
<1>0. LocalTyped /\ RowTyped /\ RowInv /\ LocalInv(w) /\ OwnerInv(w)
  BY TypePieces DEF IInv
<1>1. CASE UNCHANGED row \/ ClaimRow(w) \/ ReleaseRow(w)
  BY <1>1 DEF ClaimRow, ReleaseRow, row
<1>2. CASE OutputLinked(w)
  BY <1>2 DEF OutputLinked, Finalizable, Lifecycle!PublishOutput
<1>3. CASE pc[w] \in {"mismatch", "enter", "complete"} /\ Written(w, NextRecord(w))
  <2>1. /\ jobState = rec[w].state /\ UNCHANGED output
        /\ jobState' = Following(jobState) /\ progress' = StageProgress(jobState')
    BY <1>0, <1>3 DEF Written, Accepts, OwnerInv, InSync, NextRecord, Attempting
  <2>2. CASE pc[w] = "complete"
    <3>1. jobState = "uploading" /\ output = w
      BY <1>0, <1>3, <2>1, <2>2 DEF LocalInv, OwnerInv, Written, Accepts
    <3> QED
      BY <2>1, <3>1 DEF Lifecycle!Complete, Following, StageProgress
  <2>3. CASE pc[w] \in {"mismatch", "enter"}
    BY <1>0, <2>1, <2>3
       DEF LocalInv, Lifecycle!Advance, Lifecycle!Following, Lifecycle!StageProgress, Following, StageProgress
  <2> QED
    BY <1>3, <2>2, <2>3
<1>4. CASE /\ pc[w] \in {"refuse", "fail", "internal"} /\ rec[w].state \notin Terminal
           /\ Written(w, FailedRecord(w))
  <2>1. /\ jobState' = "failed" /\ progress' = rec[w].progress /\ UNCHANGED output
        /\ Owns(w) /\ Writable(jobState, "failed")
    BY <1>0, <1>4 DEF Written, Accepts, FailedRecord, LocalTyped, Record
  <2>2. jobState \in Stage
    BY <2>1 DEF Writable
  <2>3. \/ rec[w].progress = progress
        \/ jobState # "uploading" /\ rec[w].progress = StageProgress(Following(jobState))
    BY <1>0, <1>4, <2>1, <2>2
       DEF OwnerInv, LocalInv, InSync, Ahead, Attempting, Following, Stage, Terminal
  <2> QED
    BY <2>1, <2>2, <2>3
       DEF Lifecycle!FailJob, Lifecycle!Stage, Lifecycle!Following, Lifecycle!StageProgress,
           Stage, Following, StageProgress
<1> QED
  BY <1>1, <1>2, <1>3, <1>4 DEF RowStatement

\* Seen through its state, progress, output and acknowledgement, the system is
\* the abstract life cycle of one job.
THEOREM Refinement == Spec => ImplementsLifecycle
PROOF
<1>1. Init => Lifecycle!LifecycleInit
  BY DEF Init, Lifecycle!LifecycleInit
<1>2. IInv /\ [Next]_vars => [Lifecycle!LifecycleNext]_(Lifecycle!lifecycleVars)
  <2> SUFFICES ASSUME IInv, [Next]_vars
               PROVE  [Lifecycle!LifecycleNext]_(Lifecycle!lifecycleVars)
    OBVIOUS
  <2>1. ASSUME NEW w \in Worker, ThreadStep(w)
        PROVE  [Lifecycle!LifecycleNext]_(Lifecycle!lifecycleVars)
    <3>1. CASE UNCHANGED acked
      BY <2>1, <3>1, StepStatement, StatementRefines
    <3>2. CASE acked' # acked
      <4>1. Ack(w)
        BY <2>1, <3>2 DEF ThreadStep, Step, Deliver, Claim, Lookup, Mismatch, Refuse, Begin, Enter,
             Handle, Put, Head, Finalize, Complete, Fail, Internal, Release, Renew, Crash
      <4>2. jobState \in Terminal
        BY <4>1 DEF Ack, IInv, OwnerInv
      <4>3. acked' = TRUE /\ ~acked /\ UNCHANGED <<jobState, progress, output>>
        BY <3>2, <4>1 DEF Ack, row, IInv, TypeOK
      <4> QED
        BY <4>2, <4>3 DEF Lifecycle!LifecycleNext, Lifecycle!Acknowledge, Lifecycle!Terminal, Terminal
    <3> QED
      BY <3>1, <3>2
  <2>2. ASSUME ClockStep \/ UNCHANGED vars
        PROVE  [Lifecycle!LifecycleNext]_(Lifecycle!lifecycleVars)
    BY <2>2 DEF ClockStep, LeaseExpires, LeaseOverruns, Expired, vars, row, Lifecycle!lifecycleVars
  <2> QED
    BY <2>1, <2>2, StepCases
<1> QED
  BY <1>1, <1>2, Invariant, PTL DEF Spec, ImplementsLifecycle, Lifecycle!LifecycleSafety
=============================================================================
