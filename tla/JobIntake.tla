------------------------------ MODULE JobIntake ------------------------------
(***************************************************************************)
(* The API from the first request to the first attempt: AssetUpload and    *)
(* JobPublication side by side, with the two places where they meet.       *)
(* createJob refers to an asset only when it reads its row as uploaded,    *)
(* and an attempt at a started job downloads what S3 has by then.          *)
(*                                                                         *)
(* Confirmations, PUTs and POSTs for jobs interleave freely: the row is    *)
(* read in a statement of its own, long before the job is inserted.        *)
(***************************************************************************)
EXTENDS AssetUpload, JobPublication

intakeVars == <<uploadVars, vars>>

IntakeInit == UploadInit /\ Init

\* GetAsset: the asset must be uploaded, else 409 asset_not_ready.
Accept(r) ==
  /\ pc[r] = "new" /\ row # "none"
  /\ IF row = "uploaded" THEN Arrive(r) ELSE Refuse(r)
  /\ UNCHANGED uploadVars

\* The calls of a request that was accepted.
Publish(r) ==
  /\ CreateOrGetJob(r) \/ Watch(r) \/ Exec(r) \/ Die(r)
  /\ UNCHANGED uploadVars

\* A worker claims the job; any number of attempts download its source.
Attempt(j) ==
  \/ WorkerStarts(j) /\ UNCHANGED uploadVars
  \/ jobState[j] = "started" /\ Download /\ UNCHANGED vars

IntakeNext ==
  \/ Intake /\ UNCHANGED vars
  \/ \E r \in Request : Accept(r) \/ Publish(r) \/ Attempt(r)

IntakeSpec == IntakeInit /\ [][IntakeNext]_intakeVars

FairIntakeSpec == IntakeSpec /\ UploadFairness

-----------------------------------------------------------------------------
IntakeTypeOK == UploadTypeOK /\ TypeOK

\* Every job that was created, in any state and by whatever race of requests, has
\* a source that was confirmed and is in S3: no attempt ever misses it, and no
\* PUT, late or repeated, takes it away.
JobsHaveSource ==
  \A j \in Request : jobState[j] # "none" => row = "uploaded" /\ object # NoObject
=============================================================================
