------------------------------ MODULE AssetUpload ------------------------------
(***************************************************************************)
(* A source video: POST assets/upload creates its row and signs a URL, the *)
(* browser PUTs the bytes to S3, POST assets/{id}/complete checks the      *)
(* object and marks the row, and every attempt at a job that refers to the *)
(* asset downloads it.  Storage keys are unique: one asset is enough.      *)
(* JobIntake adds the jobs.                                                *)
(*                                                                         *)
(* - a content is what a PUT stores; those in Declared have the size of    *)
(*   the row.  The URL fixes the content type, not the size.               *)
(* - a PUT is authorised when it begins and takes effect when it ends.     *)
(***************************************************************************)
EXTENDS Naturals

CONSTANTS
  Confirmation,     \* calls of POST complete
  Content,          \* what may be uploaded
  Declared,         \* those of the declared size
  MaxPuts,          \* bound on PUTs
  MaxUploadFaults,  \* bound on faults
  NoObject          \* no object in S3

ASSUME UploadAssumption ==
  /\ MaxPuts \in Nat /\ MaxUploadFaults \in Nat
  /\ Declared \subseteq Content /\ NoObject \notin Content

VARIABLES
  row,       \* the asset: none, pending or uploaded
  url,       \* the presigned URL: none, valid or expired
  object,    \* the object in S3
  putting,   \* contents of the PUTs in progress
  puts,      \* how many were begun
  confirms,  \* where each confirmation is, and how it was answered
  reads,     \* what attempts at jobs have downloaded
  uploadFaults

uploadVars == <<row, url, object, putting, puts, confirms, reads, uploadFaults>>

UploadInit ==
  /\ row = "none" /\ url = "none" /\ object = NoObject
  /\ putting = {} /\ puts = 0
  /\ confirms = [k \in Confirmation |-> "idle"]
  /\ reads = {}
  /\ uploadFaults = 0

Answer(k, l) == confirms' = [confirms EXCEPT ![k] = l]

UploadFault == uploadFaults < MaxUploadFaults /\ uploadFaults' = uploadFaults + 1

-----------------------------------------------------------------------------
\* CreateSourceAsset, then PresignUpload, which may fail and leave the row.
RequestUpload ==
  /\ row = "none"
  /\ row' = "pending"
  /\ \/ url' = "valid" /\ UNCHANGED uploadFaults
     \/ url' = "none" /\ UploadFault
  /\ UNCHANGED <<object, putting, puts, confirms, reads>>

BeginPut(c) ==
  /\ url = "valid"
  /\ puts < MaxPuts
  /\ putting' = putting \union {c}
  /\ puts' = puts + 1
  /\ UNCHANGED <<row, url, object, confirms, reads, uploadFaults>>

EndPut(c) ==
  /\ c \in putting
  /\ putting' = putting \ {c}
  /\ \/ object' = c /\ UNCHANGED uploadFaults
     \/ UNCHANGED object /\ UploadFault
  /\ UNCHANGED <<row, url, puts, confirms, reads>>

Expire ==
  /\ url = "valid"
  /\ url' = "expired"
  /\ UNCHANGED <<row, object, putting, puts, confirms, reads, uploadFaults>>

\* Seeded defect: a confirmed asset cannot be confirmed again.
LoadOnce(k) ==
  /\ confirms[k] = "idle" /\ row # "none"
  /\ Answer(k, IF row = "uploaded" THEN "409" ELSE "head")
  /\ UNCHANGED <<row, url, object, putting, puts, reads, uploadFaults>>

\* completeAsset reads the row; an uploaded asset is answered at once.
Load(k) ==
  /\ confirms[k] = "idle" /\ row # "none"
  /\ Answer(k, IF row = "uploaded" THEN "200" ELSE "head")
  /\ UNCHANGED <<row, url, object, putting, puts, reads, uploadFaults>>

\* Seeded defect: a missing object, whose size reads as 0, is let through.
Acceptable == object \in Declared \union {NoObject}

Present == object \in Declared

\* The object must be there and have the declared size; HEAD may fail too.
Head(k) ==
  /\ confirms[k] = "head"
  /\ \/ Answer(k, IF Present THEN "mark" ELSE "409") /\ UNCHANGED uploadFaults
     \/ Answer(k, "409") /\ UploadFault
  /\ UNCHANGED <<row, url, object, putting, puts, reads>>

\* MarkAssetUploaded; the row is only ever left uploaded, so that a request
\* that finds it no longer pending is answered with it.
Mark(k) ==
  /\ confirms[k] = "mark"
  /\ \/ row' = "uploaded" /\ Answer(k, "200") /\ UNCHANGED uploadFaults
     \/ row' \in {row, "uploaded"} /\ Answer(k, "500") /\ UploadFault
  /\ UNCHANGED <<url, object, putting, puts, reads>>

\* The client calls complete again, as the API lets it; the web frontend starts
\* over with a new asset instead.
Repeat(k) ==
  /\ confirms[k] \in {"409", "500"}
  /\ Answer(k, "idle")
  /\ UNCHANGED <<row, url, object, putting, puts, reads, uploadFaults>>

\* An attempt at a job, which refers to an uploaded asset, downloads the source.
Download ==
  /\ row = "uploaded" /\ object # NoObject
  /\ reads' = reads \union {object}
  /\ UNCHANGED <<row, url, object, putting, puts, confirms, uploadFaults>>

-----------------------------------------------------------------------------
Complete(k) == Load(k) \/ Head(k) \/ Mark(k)

\* Everything but the downloads.
Intake ==
  \/ RequestUpload \/ Expire
  \/ \E c \in Content : BeginPut(c) \/ EndPut(c)
  \/ \E k \in Confirmation : Complete(k) \/ Repeat(k)

UploadNext == Intake \/ Download

UploadSpec == UploadInit /\ [][UploadNext]_uploadVars

\* Requests are handled and PUTs end; the client repeats what was refused.
UploadFairness ==
  /\ \A c \in Content : WF_uploadVars(EndPut(c))
  /\ \A k \in Confirmation : WF_uploadVars(Complete(k)) /\ WF_uploadVars(Repeat(k))

-----------------------------------------------------------------------------
UploadTypeOK ==
  /\ row \in {"none", "pending", "uploaded"}
  /\ url \in {"none", "valid", "expired"}
  /\ object \in Content \union {NoObject}
  /\ putting \subseteq Content /\ puts \in 0..MaxPuts
  /\ confirms \in [Confirmation -> {"idle", "head", "mark", "200", "409", "500"}]
  /\ reads \subseteq Content
  /\ uploadFaults \in 0..MaxUploadFaults

\* When the right bytes are there for good, every request to complete is confirmed
\* in the end, also one that is repeated because its reply was lost.
EventuallyConfirmed ==
  (<>[](object \in Declared)) => \A k \in Confirmation : <>(confirms[k] = "200")

\* docs/specs/worker/runtime-and-pipeline.md: "`validating` downloads the
\* immutable object as `source-original`": all attempts see the same bytes.
SourceIsImmutable == \A c, d \in reads : c = d
=============================================================================
