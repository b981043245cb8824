------------------------------ MODULE JobStates ------------------------------
(***************************************************************************)
(* The states of a processing job and the tables over them that every      *)
(* other module uses: worker/state.py and the _UPDATE_SQL guard of         *)
(* worker/repository.py.  The column "stage" always repeats the state, so  *)
(* it is not modelled.  No code of the repository writes "cancelled"; it   *)
(* is kept because every guard names it.                                   *)
(***************************************************************************)
EXTENDS Naturals

Stage    == {"validating", "analyzing", "rendering", "uploading"}
Terminal == {"completed", "failed", "cancelled"}
State    == {"queued"} \union Stage \union Terminal

\* The state the stage loop of Worker.process enters after st.
Following(st) ==
  CASE st = "queued"     -> "validating"
    [] st = "validating" -> "analyzing"
    [] st = "analyzing"  -> "rendering"
    [] st = "rendering"  -> "uploading"
    [] OTHER             -> "completed"

\* The progress written on entering a state; "failed" has none of its own.
StageProgress(st) ==
  CASE st = "queued"     -> 0
    [] st = "validating" -> 10
    [] st = "analyzing"  -> 45
    [] st = "rendering"  -> 75
    [] st = "uploading"  -> 90
    [] OTHER             -> 100

\* The state changes _UPDATE_SQL accepts: a stage may be rewritten, left for
\* the next one or failed, but a queued job can only start.
Writable(from, to) ==
  \/ from = "queued" /\ to = "validating"
  \/ from \in Stage /\ to \in {from, Following(from), "failed"}
=============================================================================
