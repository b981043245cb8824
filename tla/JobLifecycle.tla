---------------------------- MODULE JobLifecycle ----------------------------
(***************************************************************************)
(* What the service promises about one processing job, as the API's        *)
(* callers and the Redis stream see it: the job walks the four stages in   *)
(* order, it is completed only when a downloadable output is linked, a     *)
(* completed or failed job never changes again, and its stream entry is    *)
(* acknowledged only then.  JobWorker implements this specification with   *)
(* concurrent attempts, leases, crashes and unreliable databases.          *)
(*                                                                         *)
(* It has no attempts, no leases and no failures of the environment: those *)
(* must not be visible at this level.                                      *)
(***************************************************************************)
EXTENDS JobStates

VARIABLES
  jobState,    \* processing_jobs.state
  progress,    \* processing_jobs.progress, a percentage
  published,   \* an output artifact is linked to the job
  acked        \* the job's stream entry is acknowledged

lifecycleVars == <<jobState, progress, published, acked>>

LifecycleInit ==
  /\ jobState = "queued"
  /\ progress = 0
  /\ published = FALSE
  /\ acked = FALSE

Advance ==
  /\ jobState \in {"queued", "validating", "analyzing", "rendering"}
  /\ jobState' = Following(jobState)
  /\ progress' = StageProgress(jobState')
  /\ UNCHANGED <<published, acked>>

PublishOutput ==
  /\ jobState = "uploading"
  /\ published' = TRUE
  /\ UNCHANGED <<jobState, progress, acked>>

Complete ==
  /\ jobState = "uploading"
  /\ published
  /\ jobState' = "completed"
  /\ progress' = 100
  /\ UNCHANGED <<published, acked>>

\* A failed job keeps the progress of its stage, or already shows that of
\* the stage whose first write did not reach the database.
FailJob ==
  /\ jobState \in Stage
  /\ jobState' = "failed"
  /\ \/ progress' = progress
     \/ jobState # "uploading" /\ progress' = StageProgress(Following(jobState))
  /\ UNCHANGED <<published, acked>>

Acknowledge ==
  /\ jobState \in Terminal
  /\ ~acked
  /\ acked' = TRUE
  /\ UNCHANGED <<jobState, progress, published>>

LifecycleNext == Advance \/ PublishOutput \/ Complete \/ FailJob \/ Acknowledge

LifecycleSafety == LifecycleInit /\ [][LifecycleNext]_lifecycleVars

=============================================================================
