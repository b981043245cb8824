--------------------------- MODULE ReviewPublication ---------------------------
(***************************************************************************)
(* The optional review of a job: ProcessingPipeline.publish_debug uploads  *)
(* an attempt's review objects to S3 and finalize_review links them to the *)
(* job in one transaction; GET /jobs/{id}/evaluation reads the links and   *)
(* the manifest object of a terminal job.                                  *)
(*                                                                         *)
(* An attempt publishes at most once, before it concludes the job, so it   *)
(* also names its review (the uuid in its storage keys).  Uploads, commits *)
(* and deletions may fail, with or without having taken effect; leases run *)
(* out and processes die.                                                  *)
(*                                                                         *)
(* - "live lease" is owner: the stages and the other faults of an attempt  *)
(*   are in JobWorker.                                                     *)
(* - the contents of a manifest are the phases it calls ready.             *)
(***************************************************************************)
EXTENDS Naturals, Sequences

CONSTANTS
  Attempt,    \* the attempts at the job
  MaxFaults,  \* bound on faults
  NoAttempt   \* no lease, no link

ASSUME ReviewAssumption == MaxFaults \in Nat /\ NoAttempt \notin Attempt

Phase == {"detection", "framing", "render"}
Role == {"telemetry", "manifest"} \union Phase

VARIABLES
  done,      \* the job is terminal
  owner,     \* the attempt with the live lease
  links,     \* job_artifacts: the review whose object each role names
  objects,   \* the review objects in S3
  pc,        \* where each attempt is
  ready,     \* the phases whose video it rendered
  todo,      \* the artifacts it has still to upload
  uploaded,  \* the keys it has registered for a clean-up
  request,   \* an evaluation request: idle, or where it is
  seen,      \* the links it read
  answer,    \* what it was answered: none, unavailable, available, 502
  faults,
  finalized, \* history: reviews whose links were committed
  unsure,    \* history: those whose committer did not learn of it
  spoiled    \* history: attempts that died or could not delete

store == <<done, owner, links, objects>>
attempts == <<pc, ready, todo, uploaded>>
reader == <<request, seen, answer>>
history == <<finalized, unsure, spoiled>>
vars == <<store, attempts, reader, faults, history>>

Unlinked == [r \in Role |-> NoAttempt]

Init ==
  /\ done = FALSE
  /\ owner = NoAttempt
  /\ links = Unlinked
  /\ objects = {}
  /\ pc = [a \in Attempt |-> "waiting"]
  /\ ready = [a \in Attempt |-> {}]
  /\ todo = [a \in Attempt |-> <<>>]
  /\ uploaded = [a \in Attempt |-> <<>>]
  /\ request = "idle" /\ seen = Unlinked /\ answer = "none"
  /\ faults = 0
  /\ finalized = {} /\ unsure = {} /\ spoiled = {}

Fault == faults < MaxFaults /\ faults' = faults + 1

Goto(a, p) == pc' = [pc EXCEPT ![a] = p]

-----------------------------------------------------------------------------
(* publish_debug of one attempt.                                           *)

Claim(a) ==
  /\ pc[a] = "waiting"
  /\ ~done /\ owner = NoAttempt
  /\ owner' = a
  /\ Goto(a, "running")
  /\ UNCHANGED <<done, links, objects, ready, todo, uploaded, reader, faults, history>>

Artifact(p, S) == IF p \in S THEN <<p>> ELSE <<>>

\* The artifacts of a review, in the order of their upload.
Wanted(S) ==
  <<"telemetry", "manifest">> \o Artifact("detection", S) \o Artifact("framing", S)
    \o Artifact("render", S)

\* A stage has failed or all have succeeded.  When _inputs() raises, so does
\* the timing of the manifest, as does a bundle over its limits: nothing was
\* uploaded yet.  Rendering may fail for any of the phases.
Publish(a) ==
  /\ pc[a] = "running"
  /\ \/ \E S \in SUBSET Phase :
          /\ ready' = [ready EXCEPT ![a] = S]
          /\ todo' = [todo EXCEPT ![a] = Wanted(S)]
          /\ Goto(a, "upload")
     \/ Goto(a, "unmeasured") /\ UNCHANGED <<ready, todo>>
  /\ UNCHANGED <<store, uploaded, reader, faults, history>>

\* Seeded defect: the key is registered when the upload has succeeded.
UploadThenRegister(a) ==
  LET r == Head(todo[a]) IN
  /\ pc[a] = "upload" /\ todo[a] # <<>>
  /\ \/ /\ objects' = objects \union {<<a, r>>}
        /\ todo' = [todo EXCEPT ![a] = Tail(@)]
        /\ uploaded' = [uploaded EXCEPT ![a] = Append(@, r)]
        /\ UNCHANGED <<pc, faults>>
     \/ /\ Fault
        /\ objects' \in {objects, objects \union {<<a, r>>}}
        /\ Goto(a, "clean")
        /\ UNCHANGED <<todo, uploaded>>
  /\ UNCHANGED <<done, owner, links, ready, reader, history>>

\* The key is registered first; then PUT and HEAD, either of which may fail.
Upload(a) ==
  LET r == Head(todo[a]) IN
  /\ pc[a] = "upload" /\ todo[a] # <<>>
  /\ uploaded' = [uploaded EXCEPT ![a] = Append(@, r)]
  /\ \/ /\ objects' = objects \union {<<a, r>>}
        /\ todo' = [todo EXCEPT ![a] = Tail(@)]
        /\ UNCHANGED <<pc, faults>>
     \/ /\ Fault
        /\ objects' \in {objects, objects \union {<<a, r>>}}
        /\ Goto(a, "clean")
        /\ UNCHANGED todo
  /\ UNCHANGED <<done, owner, links, ready, reader, history>>

RolesOf(s) == {s[i] : i \in DOMAIN s}

\* Seeded defect: the links of the roles a review lacks are left.
LinkedMerge(a) ==
  links' = [r \in Role |-> IF r \in RolesOf(uploaded[a]) THEN a ELSE links[r]]

\* _FINALIZE_REVIEW_SQL replaces the links of all review roles.
Linked(a) ==
  links' = [r \in Role |-> IF r \in RolesOf(uploaded[a]) THEN a ELSE NoAttempt]

\* Seeded defect: the state of the job is not asked for.
MayLinkAlways(a) == owner = a \/ done

MayLink(a) == owner = a /\ ~done

Finalize(a) ==
  /\ pc[a] = "upload" /\ todo[a] = <<>>
  /\ \/ /\ MayLink(a)
        /\ Linked(a)
        /\ finalized' = finalized \union {a}
        /\ Goto(a, "conclude")
        /\ UNCHANGED <<faults, unsure>>
     \/ /\ ~MayLink(a)
        /\ Goto(a, "clean")
        /\ UNCHANGED <<links, faults, finalized, unsure>>
     \/ /\ Fault
        /\ IF MayLink(a)
             THEN Linked(a) /\ finalized' = finalized \union {a} /\ unsure' = unsure \union {a}
             ELSE UNCHANGED <<links, finalized, unsure>>
        /\ Goto(a, "clean")
     \/ /\ Fault
        /\ Goto(a, "clean")
        /\ UNCHANGED <<links, finalized, unsure>>
  /\ UNCHANGED <<done, owner, objects, ready, todo, uploaded, reader, spoiled>>

\* Every registered key is deleted; a deletion that fails is passed over.
Clean(a) ==
  /\ pc[a] = "clean"
  /\ \/ /\ uploaded[a] # <<>>
        /\ uploaded' = [uploaded EXCEPT ![a] = Tail(@)]
        /\ \/ objects' = objects \ {<<a, Head(uploaded[a])>>} /\ UNCHANGED <<faults, spoiled>>
           \/ Fault /\ spoiled' = spoiled \union {a} /\ UNCHANGED objects
        /\ UNCHANGED pc
     \/ /\ uploaded[a] = <<>>
        /\ Goto(a, "conclude")
        /\ UNCHANGED <<objects, uploaded, faults, spoiled>>
  /\ UNCHANGED <<done, owner, links, ready, todo, reader, finalized, unsure>>

\* The attempt completes, fails or releases the job, if it still may.
Conclude(a) ==
  /\ pc[a] \in {"conclude", "unmeasured"}
  /\ IF owner = a
       THEN owner' = NoAttempt /\ done' \in BOOLEAN
       ELSE UNCHANGED <<owner, done>>
  /\ Goto(a, IF pc[a] = "unmeasured" THEN "untraced" ELSE "ended")
  /\ UNCHANGED <<links, objects, ready, todo, uploaded, reader, faults, history>>

Crash(a) ==
  /\ pc[a] \in {"running", "unmeasured", "upload", "clean", "conclude"}
  /\ Fault
  /\ Goto(a, "ended")
  /\ spoiled' = spoiled \union {a}
  /\ UNCHANGED <<store, ready, todo, uploaded, reader, finalized, unsure>>

\* The lease of an attempt that is over runs out; that of another overruns.
LeaseExpires ==
  /\ owner # NoAttempt
  /\ IF pc[owner] = "ended" THEN UNCHANGED faults ELSE Fault
  /\ owner' = NoAttempt
  /\ UNCHANGED <<done, links, objects, attempts, reader, history>>

-----------------------------------------------------------------------------
(* Handler.evaluation                                                      *)

\* The job must be terminal; its links are read in another statement.
ReadLinks ==
  /\ request = "idle" /\ done
  /\ request' = "manifest"
  /\ seen' = links
  /\ UNCHANGED <<store, attempts, answer, faults, history>>

\* Phases the manifest of review m calls ready and that have an artifact.
Shown(m) == {p \in ready[m] : seen[p] = m}

\* Every artifact is an object of the review of the manifest.
OfOneReview(m) == \A r \in Role : seen[r] \in {m, NoAttempt}

\* The manifest's object is read and its review compared with every link.
Answer ==
  LET m == seen["manifest"] IN
  /\ request = "manifest"
  /\ request' = "answered"
  /\ answer' =
       IF m = NoAttempt THEN "unavailable"
       ELSE IF <<m, "manifest">> \notin objects THEN "502"
       ELSE IF ~OfOneReview(m) THEN "unavailable"
       ELSE IF Shown(m) = {} THEN "unavailable" ELSE "available"
  /\ UNCHANGED <<store, attempts, seen, faults, history>>

-----------------------------------------------------------------------------
Next ==
  \/ \E a \in Attempt :
       Claim(a) \/ Publish(a) \/ Upload(a) \/ Finalize(a) \/ Clean(a) \/ Conclude(a) \/ Crash(a)
  \/ LeaseExpires
  \/ ReadLinks \/ Answer

Spec == Init /\ [][Next]_vars

-----------------------------------------------------------------------------
TypeOK ==
  /\ done \in BOOLEAN
  /\ owner \in Attempt \union {NoAttempt}
  /\ links \in [Role -> Attempt \union {NoAttempt}]
  /\ objects \in SUBSET (Attempt \X Role)
  /\ pc \in [Attempt -> {"waiting", "running", "upload", "clean", "conclude",
                         "unmeasured", "ended", "untraced"}]
  /\ ready \in [Attempt -> SUBSET Phase]
  /\ \A a \in Attempt : RolesOf(todo[a]) \union RolesOf(uploaded[a]) \subseteq Role
  /\ request \in {"idle", "manifest", "answered"}
  /\ seen \in [Role -> Attempt \union {NoAttempt}]
  /\ answer \in {"none", "unavailable", "available", "502"}
  /\ faults \in 0..MaxFaults
  /\ finalized \in SUBSET Attempt /\ unsure \in SUBSET finalized /\ spoiled \in SUBSET Attempt

\* The links of a job are those of one complete review: telemetry, manifest and
\* exactly the phases its manifest calls ready, whoever published before.
OneReviewLinked ==
  \/ links = Unlinked
  \/ \E a \in Attempt :
       \A r \in Role : links[r] = IF r \in RolesOf(Wanted(ready[a])) THEN a ELSE NoAttempt

\* A linked object exists, unless the attempt that linked it did not learn that
\* its commit succeeded: the clean-up of every other attempt spares it.
LinkedObjectsExist ==
  \A r \in Role : links[r] \notin unsure \union {NoAttempt} => <<links[r], r>> \in objects

\* An attempt that lived to clean up leaves nothing behind that was not linked,
\* also when an upload failed after its object was stored.
NothingStranded ==
  \A a \in Attempt \ (spoiled \union finalized) :
    pc[a] \in {"ended", "untraced"} => \A r \in Role : <<a, r>> \notin objects

\* The clean-up deletes what is not linked and nothing that is: no link points to a
\* deleted object and no attempt that ended left an object without one, in every
\* order of registrations, uploads, commits and the deletions of another attempt.
ObjectsFollowLinks == LinkedObjectsExist /\ NothingStranded

\* The review of a terminal job does not change under its reader: an attempt
\* that comes too late is refused.
FrozenWhenTerminal == [][done => UNCHANGED links]_vars

-----------------------------------------------------------------------------
\* docs/specs/backend/http-api.md: a finalized review is answered with its
\* manifest and signed URLs; no read of S3 fails in this model.
FinalizedIsReadable == answer # "502"

\* The comment in publish_debug: "Validation failures still need their
\* sanitized stage trace for diagnosis."
ValidationFailureIsTraced ==
  \A a \in Attempt : pc[a] = "untraced" /\ faults = 0 /\ done => links["telemetry"] = a
=============================================================================
