------------------------ MODULE ReviewPublicationProofs ------------------------
(***************************************************************************)
(* The safety of the review of a job, for any number of attempts, faults   *)
(* and any set of rendered phases.  Until an attempt links its review it   *)
(* is alone with its objects: what is in S3 is what it registered, and     *)
(* once linked nobody deletes it but an attempt that was not told.         *)
(***************************************************************************)
EXTENDS ReviewPublication, SequenceTheorems, TLAPS

Location == {"waiting", "running", "upload", "clean", "conclude", "unmeasured", "ended", "untraced"}

\* The types the argument rests on.
ShapeInv ==
  /\ links \in [Role -> Attempt \union {NoAttempt}]
  /\ objects \subseteq Attempt \X Role
  /\ pc \in [Attempt -> Location]
  /\ ready \in [Attempt -> SUBSET Phase]
  /\ todo \in [Attempt -> Seq(Role)]
  /\ uploaded \in [Attempt -> Seq(Role)]
  /\ finalized \subseteq Attempt /\ unsure \subseteq finalized

\* The roles of an attempt that have an object.
Stored(a) == {r \in Role : <<a, r>> \in objects}

\* The roles of its complete review.
Complete(a) == RolesOf(Wanted(ready[a]))

\* What an attempt has in S3, from its first upload to its end.
AttemptInv(a) ==
  /\ pc[a] \in {"waiting", "running", "unmeasured", "untraced"} =>
       uploaded[a] = <<>> /\ Stored(a) = {} /\ a \notin finalized
  /\ pc[a] = "upload" =>
       /\ a \notin finalized
       /\ Stored(a) = RolesOf(uploaded[a])
       /\ RolesOf(uploaded[a]) \union RolesOf(todo[a]) = Complete(a)
  /\ pc[a] = "clean" =>
       /\ a \in finalized => a \in unsure
       /\ Stored(a) \subseteq RolesOf(uploaded[a]) \/ a \in spoiled
  /\ pc[a] \in {"conclude", "ended"} => Stored(a) = {} \/ a \in spoiled \union finalized
  /\ a \in finalized \ unsure => Complete(a) \subseteq Stored(a)

\* The links are those of one attempt that committed them.
LinksInv ==
  \/ links = Unlinked
  \/ \E a \in finalized :
       \A r \in Role : links[r] = IF r \in Complete(a) THEN a ELSE NoAttempt

IInv == ShapeInv /\ LinksInv /\ \A a \in Attempt : AttemptInv(a)

-----------------------------------------------------------------------------
(* Sequences of roles.                                                     *)

\* Appending a role adds it.
LEMMA RolesOfAppend ==
  ASSUME NEW s \in Seq(Role), NEW r \in Role
  PROVE  RolesOf(Append(s, r)) = RolesOf(s) \union {r}
PROOF
<1> DEFINE t == Append(s, r)
<1>1. DOMAIN s = 1 .. Len(s) /\ DOMAIN t = 1 .. Len(s) + 1 /\ Len(s) \in Nat
  BY AppendProperties, LenProperties
<1>2. t[Len(s) + 1] = r /\ \A i \in 1 .. Len(s) : t[i] = s[i]
  BY AppendProperties
<1> HIDE DEF t
<1>3. RolesOf(t) = RolesOf(s) \union {r}
  BY <1>1, <1>2 DEF RolesOf
<1> QED
  BY <1>3 DEF t

\* Taking the head of a sequence takes at most that role.
LEMMA RolesOfHead ==
  ASSUME NEW s \in Seq(Role), s # <<>>
  PROVE  /\ Head(s) \in Role /\ Tail(s) \in Seq(Role)
         /\ RolesOf(s) = {Head(s)} \union RolesOf(Tail(s))
PROOF
<1>1. /\ Head(s) \in Role /\ Tail(s) \in Seq(Role)
      /\ Len(s) \in Nat \ {0} /\ Len(Tail(s)) = Len(s) - 1
      /\ Head(s) = s[1] /\ \A i \in 1 .. Len(Tail(s)) : Tail(s)[i] = s[i + 1]
  BY HeadTailProperties, EmptySeq, LenProperties
<1>2. DOMAIN s = 1 .. Len(s) /\ DOMAIN Tail(s) = 1 .. Len(s) - 1
  BY <1>1, LenProperties
<1>3. \A i \in 1 .. Len(s) : i = 1 \/ (i - 1 \in 1 .. Len(s) - 1 /\ s[i] = Tail(s)[i - 1])
  BY <1>1
<1>4. \A i \in 1 .. Len(s) - 1 : i + 1 \in 1 .. Len(s) /\ Tail(s)[i] = s[i + 1]
  BY <1>1
<1>5. RolesOf(s) \subseteq {Head(s)} \union RolesOf(Tail(s))
  <2> SUFFICES ASSUME NEW i \in 1 .. Len(s) PROVE s[i] \in {Head(s)} \union RolesOf(Tail(s))
    BY <1>2 DEF RolesOf
  <2>1. CASE i = 1
    BY <2>1, <1>1
  <2>2. CASE i # 1
    BY <2>2, <1>2, <1>3 DEF RolesOf
  <2> QED
    BY <2>1, <2>2
<1>6. {Head(s)} \union RolesOf(Tail(s)) \subseteq RolesOf(s)
  BY <1>1, <1>2, <1>4 DEF RolesOf
<1> QED
  BY <1>1, <1>5, <1>6

\* A complete review is a sequence of roles.
LEMMA WantedType == \A S \in SUBSET Phase : Wanted(S) \in Seq(Role)
PROOF
<1>1. \A p \in Phase, S \in SUBSET Phase : Artifact(p, S) \in Seq(Role)
  <2> SUFFICES ASSUME NEW p \in Phase, NEW S \in SUBSET Phase PROVE Artifact(p, S) \in Seq(Role)
    OBVIOUS
  <2>1. <<p>> \in Seq(Role)
    BY DEF Role
  <2>2. <<>> \in Seq(Role)
    OBVIOUS
  <2> QED
    BY <2>1, <2>2 DEF Artifact
<1>2. <<"telemetry", "manifest">> \in Seq(Role)
  BY DEF Role
<1> QED
  BY <1>1, <1>2, ConcatProperties DEF Wanted, Phase

\* An empty sequence has no roles.
LEMMA RolesOfEmpty == RolesOf(<<>>) = {}
PROOF
  BY DEF RolesOf

-----------------------------------------------------------------------------
(* The steps.                                                              *)

\* What a step of another attempt leaves of this one.
Untouched(b) ==
  /\ pc'[b] = pc[b] /\ ready'[b] = ready[b] /\ todo'[b] = todo[b] /\ uploaded'[b] = uploaded[b]
  /\ Stored(b)' = Stored(b)
  /\ b \in finalized' <=> b \in finalized
  /\ b \in unsure' <=> b \in unsure
  /\ b \in spoiled' <=> b \in spoiled

\* An attempt that is not touched keeps what it has.
LEMMA UntouchedKeeps ==
  ASSUME NEW b \in Attempt, AttemptInv(b), Untouched(b)
  PROVE  AttemptInv(b)'
PROOF
  BY DEF AttemptInv, Untouched, Complete

\* Links that are not touched stay those of an attempt that is settled.
LEMMA UntouchedLinks ==
  ASSUME IInv, UNCHANGED links, finalized' = finalized,
         \A a \in finalized : ready'[a] = ready[a]
  PROVE  LinksInv'
PROOF
  BY DEF IInv, LinksInv, Complete

\* Nothing has happened yet.
LEMMA InitInv == Init => IInv
PROOF
<1> SUFFICES ASSUME Init PROVE IInv
  OBVIOUS
<1>1. ShapeInv
  BY DEF Init, ShapeInv, Unlinked, Location
<1>2. LinksInv
  BY DEF Init, LinksInv
<1>3. ASSUME NEW a \in Attempt PROVE AttemptInv(a)
  BY DEF Init, AttemptInv, Stored
<1> QED
  BY <1>1, <1>2, <1>3 DEF IInv

\* An attempt that claims the job has published nothing.
LEMMA ClaimInv ==
  ASSUME IInv, NEW a \in Attempt, Claim(a)
  PROVE  IInv'
PROOF
<1> USE DEF IInv, Claim, Goto, history
<1>1. ShapeInv'
  BY DEF ShapeInv, Location
<1>2. LinksInv'
  BY UntouchedLinks
<1>3. AttemptInv(a)'
  BY DEF ShapeInv, AttemptInv, Stored, Complete
<1>4. ASSUME NEW b \in Attempt \ {a} PROVE AttemptInv(b)'
  BY UntouchedKeeps DEF ShapeInv, Untouched, Stored
<1> QED
  BY <1>1, <1>2, <1>3, <1>4

\* It sets out to upload a complete review, or none.
LEMMA PublishInv ==
  ASSUME IInv, NEW a \in Attempt, Publish(a)
  PROVE  IInv'
PROOF
<1> USE DEF IInv, Publish, Goto, history, store
<1>1. a \notin finalized /\ uploaded[a] = <<>> /\ Stored(a) = {}
  BY DEF AttemptInv
<1>2. ShapeInv'
  BY WantedType DEF ShapeInv, Location
<1>3. LinksInv'
  BY <1>1, UntouchedLinks DEF ShapeInv
<1>4. AttemptInv(a)'
  <2>1. PICK S \in SUBSET Phase :
          \/ pc'[a] = "upload" /\ ready'[a] = S /\ todo'[a] = Wanted(S)
          \/ pc'[a] = "unmeasured"
    BY DEF ShapeInv
  <2>2. uploaded'[a] = <<>> /\ Stored(a)' = {} /\ a \notin finalized'
    BY <1>1 DEF Stored
  <2> QED
    BY <2>1, <2>2, RolesOfEmpty DEF AttemptInv, Complete
<1>5. ASSUME NEW b \in Attempt \ {a} PROVE AttemptInv(b)'
  BY UntouchedKeeps DEF ShapeInv, Untouched, Stored
<1> QED
  BY <1>2, <1>3, <1>4, <1>5

\* A key is registered before its object can exist.
LEMMA UploadInv ==
  ASSUME IInv, NEW a \in Attempt, Upload(a)
  PROVE  IInv'
PROOF
<1> DEFINE r == Head(todo[a])
<1>1. /\ todo[a] \in Seq(Role) /\ uploaded[a] \in Seq(Role) /\ todo[a] # <<>>
      /\ pc[a] = "upload"
  BY DEF IInv, ShapeInv, Upload
<1>2. /\ r \in Role /\ Tail(todo[a]) \in Seq(Role)
      /\ RolesOf(todo[a]) = {r} \union RolesOf(Tail(todo[a]))
  BY <1>1, RolesOfHead
<1>3. /\ Append(uploaded[a], r) \in Seq(Role)
      /\ RolesOf(Append(uploaded[a], r)) = RolesOf(uploaded[a]) \union {r}
  BY <1>1, <1>2, RolesOfAppend, AppendProperties
<1>4. /\ uploaded' = [uploaded EXCEPT ![a] = Append(@, r)]
      /\ \/ /\ objects' = objects \union {<<a, r>>}
            /\ todo' = [todo EXCEPT ![a] = Tail(@)] /\ UNCHANGED pc
         \/ /\ objects' \in {objects, objects \union {<<a, r>>}}
            /\ pc' = [pc EXCEPT ![a] = "clean"] /\ UNCHANGED todo
      /\ UNCHANGED <<links, ready, finalized, unsure, spoiled>>
  BY DEF Upload, Goto, history
<1> HIDE DEF r
<1>5. /\ a \notin finalized
      /\ Stored(a) = RolesOf(uploaded[a])
      /\ RolesOf(uploaded[a]) \union RolesOf(todo[a]) = Complete(a)
  BY <1>1 DEF IInv, AttemptInv
<1>6. ShapeInv'
  <2>1. uploaded' \in [Attempt -> Seq(Role)]
    BY <1>3, <1>4 DEF IInv, ShapeInv
  <2>2. todo' \in [Attempt -> Seq(Role)]
    BY <1>2, <1>4 DEF IInv, ShapeInv
  <2>3. objects' \subseteq Attempt \X Role
    BY <1>2, <1>4 DEF IInv, ShapeInv
  <2>4. pc' \in [Attempt -> Location]
    BY <1>4 DEF IInv, ShapeInv, Location
  <2> QED
    BY <1>4, <2>1, <2>2, <2>3, <2>4 DEF IInv, ShapeInv
<1>7. LinksInv'
  BY <1>4, UntouchedLinks
<1>8. AttemptInv(a)'
  <2>1. uploaded'[a] = Append(uploaded[a], r)
    BY <1>4 DEF IInv, ShapeInv
  <2>2. a \notin finalized' /\ Complete(a)' = Complete(a)
    BY <1>4, <1>5 DEF Complete
  <2>3. CASE objects' = objects \union {<<a, r>>} /\ todo'[a] = Tail(todo[a]) /\ pc'[a] = "upload"
    <3>1. Stored(a)' = Stored(a) \union {r}
      BY <2>3, <1>2 DEF Stored
    <3> QED
      BY <2>1, <2>2, <2>3, <3>1, <1>2, <1>3, <1>5 DEF AttemptInv
  <2>4. CASE objects' \in {objects, objects \union {<<a, r>>}} /\ pc'[a] = "clean"
    <3>1. Stored(a)' \subseteq Stored(a) \union {r}
      BY <2>4 DEF Stored
    <3> QED
      BY <2>1, <2>2, <2>4, <3>1, <1>3, <1>5 DEF AttemptInv
  <2> QED
    BY <1>1, <1>4, <2>3, <2>4 DEF IInv, ShapeInv
<1>9. ASSUME NEW b \in Attempt \ {a} PROVE AttemptInv(b)'
  <2>1. Stored(b)' = Stored(b)
    BY <1>4 DEF Stored
  <2> QED
    BY <1>4, <2>1, UntouchedKeeps DEF IInv, ShapeInv, Untouched
<1> QED
  BY <1>6, <1>7, <1>8, <1>9 DEF IInv

\* The links are replaced by those of a review whose objects are all there; who is not
\* told that they are, is unsure.
LEMMA FinalizeInv ==
  ASSUME IInv, NEW a \in Attempt, Finalize(a)
  PROVE  IInv'
PROOF
<1>1. /\ pc[a] = "upload" /\ todo[a] = <<>> /\ a \notin finalized
      /\ Stored(a) = RolesOf(uploaded[a]) /\ RolesOf(uploaded[a]) = Complete(a)
  BY RolesOfEmpty DEF IInv, AttemptInv, Finalize
<1>2. UNCHANGED <<objects, ready, todo, uploaded, spoiled>>
  BY DEF Finalize
<1>3. \/ /\ Linked(a) /\ finalized' = finalized \union {a}
         /\ \/ pc' = [pc EXCEPT ![a] = "conclude"] /\ UNCHANGED unsure
            \/ pc' = [pc EXCEPT ![a] = "clean"] /\ unsure' = unsure \union {a}
      \/ pc' = [pc EXCEPT ![a] = "clean"] /\ UNCHANGED <<links, finalized, unsure>>
  BY DEF Finalize, Goto
<1>4. ShapeInv'
  BY <1>2, <1>3 DEF IInv, ShapeInv, Location, Linked
<1>5. LinksInv'
  <2>1. CASE Linked(a) /\ finalized' = finalized \union {a}
    BY <2>1, <1>1, <1>2 DEF LinksInv, Linked, Complete
  <2>2. CASE UNCHANGED <<links, finalized>>
    BY <2>2, <1>2, UntouchedLinks
  <2> QED
    BY <1>3, <2>1, <2>2
<1>6. Stored(a)' = Stored(a) /\ Complete(a)' = Complete(a) /\ UNCHANGED uploaded[a]
  BY <1>2 DEF Stored, Complete
<1>7. AttemptInv(a)'
  <2>1. CASE finalized' = finalized \union {a} /\ pc'[a] = "conclude" /\ UNCHANGED unsure
    BY <2>1, <1>1, <1>6 DEF AttemptInv
  <2>2. CASE pc'[a] = "clean" /\ unsure' = unsure \union {a}
    BY <2>2, <1>1, <1>6 DEF AttemptInv
  <2>3. CASE pc'[a] = "clean" /\ UNCHANGED <<finalized, unsure>>
    BY <2>3, <1>1, <1>6 DEF AttemptInv
  <2> QED
    BY <1>3, <2>1, <2>2, <2>3 DEF IInv, ShapeInv
<1>8. ASSUME NEW b \in Attempt \ {a} PROVE AttemptInv(b)'
  <2>1. Stored(b)' = Stored(b)
    BY <1>2 DEF Stored
  <2> QED
    BY <1>2, <1>3, <2>1, UntouchedKeeps DEF IInv, ShapeInv, Untouched
<1> QED
  BY <1>4, <1>5, <1>7, <1>8 DEF IInv

\* The clean-up goes through all keys that were registered, and only those of an
\* attempt that linked nothing, or was not told that it did.
LEMMA CleanInv ==
  ASSUME IInv, NEW a \in Attempt, Clean(a)
  PROVE  IInv'
PROOF
<1>1. /\ pc[a] = "clean" /\ uploaded[a] \in Seq(Role)
      /\ a \in finalized => a \in unsure
      /\ Stored(a) \subseteq RolesOf(uploaded[a]) \/ a \in spoiled
  BY DEF IInv, ShapeInv, AttemptInv, Clean
<1>2. UNCHANGED <<links, ready, todo, finalized, unsure>>
  BY DEF Clean
<1>3. LinksInv'
  BY <1>2, UntouchedLinks
<1>4. CASE uploaded[a] = <<>>
  <2>1. pc' = [pc EXCEPT ![a] = "conclude"] /\ UNCHANGED <<objects, uploaded, spoiled>>
    BY <1>4 DEF Clean, Goto
  <2>2. ShapeInv'
    BY <1>2, <2>1 DEF IInv, ShapeInv, Location
  <2>3. AttemptInv(a)'
    BY <1>1, <1>2, <1>4, <2>1, RolesOfEmpty DEF IInv, ShapeInv, AttemptInv, Stored, Complete
  <2>4. ASSUME NEW b \in Attempt \ {a} PROVE AttemptInv(b)'
    BY <1>2, <2>1, UntouchedKeeps DEF IInv, ShapeInv, Untouched, Stored
  <2> QED
    BY <1>3, <2>2, <2>3, <2>4 DEF IInv
<1>5. CASE uploaded[a] # <<>>
  <2> DEFINE r == Head(uploaded[a])
  <2>1. /\ r \in Role /\ Tail(uploaded[a]) \in Seq(Role)
        /\ RolesOf(uploaded[a]) = {r} \union RolesOf(Tail(uploaded[a]))
    BY <1>1, <1>5, RolesOfHead
  <2>2. /\ uploaded' = [uploaded EXCEPT ![a] = Tail(@)] /\ UNCHANGED pc
        /\ \/ objects' = objects \ {<<a, r>>} /\ UNCHANGED spoiled
           \/ spoiled' = spoiled \union {a} /\ UNCHANGED objects
    BY <1>5 DEF Clean
  <2> HIDE DEF r
  <2>3. ShapeInv'
    <3>1. uploaded' \in [Attempt -> Seq(Role)]
      BY <2>1, <2>2 DEF IInv, ShapeInv
    <3> QED
      BY <1>2, <2>2, <3>1 DEF IInv, ShapeInv
  <2>4. AttemptInv(a)'
    <3>1. uploaded'[a] = Tail(uploaded[a]) /\ pc'[a] = "clean"
      BY <1>1, <2>2 DEF IInv, ShapeInv
    <3>2. CASE objects' = objects \ {<<a, r>>} /\ UNCHANGED spoiled
      <4>1. Stored(a)' = Stored(a) \ {r}
        BY <3>2 DEF Stored
      <4> QED
        BY <1>1, <1>2, <2>1, <3>1, <3>2, <4>1 DEF AttemptInv
    <3>3. CASE spoiled' = spoiled \union {a} /\ UNCHANGED objects
      BY <1>1, <1>2, <3>1, <3>3 DEF AttemptInv
    <3> QED
      BY <2>2, <3>2, <3>3
  <2>5. ASSUME NEW b \in Attempt \ {a} PROVE AttemptInv(b)'
    <3>1. Stored(b)' = Stored(b)
      BY <2>2 DEF Stored
    <3> QED
      BY <1>2, <2>2, <3>1, UntouchedKeeps DEF IInv, ShapeInv, Untouched
  <2> QED
    BY <1>3, <2>3, <2>4, <2>5 DEF IInv
<1> QED
  BY <1>4, <1>5

\* An attempt that ends, by itself or not, leaves its objects as they are.
LEMMA EndInv ==
  ASSUME IInv, NEW a \in Attempt, Conclude(a) \/ Crash(a)
  PROVE  IInv'
PROOF
<1>1. UNCHANGED <<links, objects, ready, todo, uploaded, finalized, unsure>>
  BY DEF Conclude, Crash, history, store
<1>2. \/ pc[a] = "conclude" /\ pc' = [pc EXCEPT ![a] = "ended"] /\ UNCHANGED spoiled
      \/ pc[a] = "unmeasured" /\ pc' = [pc EXCEPT ![a] = "untraced"] /\ UNCHANGED spoiled
      \/ pc' = [pc EXCEPT ![a] = "ended"] /\ spoiled' = spoiled \union {a}
  BY DEF Conclude, Crash, history, Goto
<1>3. ShapeInv'
  BY <1>1, <1>2 DEF IInv, ShapeInv, Location
<1>4. LinksInv'
  BY <1>1, UntouchedLinks
<1>5. AttemptInv(a)'
  BY <1>1, <1>2 DEF IInv, ShapeInv, AttemptInv, Stored, Complete
<1>6. ASSUME NEW b \in Attempt \ {a} PROVE AttemptInv(b)'
  BY <1>1, <1>2, UntouchedKeeps DEF IInv, ShapeInv, Untouched, Stored
<1> QED
  BY <1>3, <1>4, <1>5, <1>6 DEF IInv

\* The lease and the readers have no say.
LEMMA ElsewhereInv ==
  ASSUME IInv, LeaseExpires \/ ReadLinks \/ Answer \/ UNCHANGED vars
  PROVE  IInv'
PROOF
<1>1. UNCHANGED <<links, objects, attempts, history>>
  BY DEF LeaseExpires, ReadLinks, Answer, vars, store
<1>2. ShapeInv' /\ LinksInv'
  BY <1>1 DEF IInv, ShapeInv, LinksInv, Complete, attempts, history
<1>3. ASSUME NEW b \in Attempt PROVE AttemptInv(b)'
  BY <1>1 DEF IInv, AttemptInv, Stored, Complete, attempts, history
<1> QED
  BY <1>2, <1>3 DEF IInv

\* The invariant is inductive.
LEMMA NextInv == IInv /\ [Next]_vars => IInv'
PROOF
  BY ClaimInv, PublishInv, UploadInv, FinalizeInv, CleanInv, EndInv, ElsewhereInv DEF Next

-----------------------------------------------------------------------------
(* The properties.                                                         *)

\* The inductive invariant holds in every reachable state.
THEOREM Invariant == Spec => []IInv
PROOF
  BY InitInv, NextInv, PTL DEF Spec

\* finalize_review leaves the links of one complete review, whichever attempts
\* published before or meanwhile.
THEOREM LinksOfOneReview == Spec => []OneReviewLinked
PROOF
<1>1. IInv => OneReviewLinked
  BY DEF IInv, ShapeInv, LinksInv, OneReviewLinked, Complete
<1> QED
  BY <1>1, Invariant, PTL

\* The clean-up of publish_debug never deletes what is linked, unless its own commit is
\* not known to it, and an attempt that lives to clean up strands nothing.
THEOREM CleanUpIsExact == Spec => []ObjectsFollowLinks
PROOF
<1>1. IInv => LinkedObjectsExist
  <2> SUFFICES ASSUME IInv, NEW r \in Role, links[r] \notin unsure \union {NoAttempt}
               PROVE  <<links[r], r>> \in objects
    BY DEF LinkedObjectsExist
  <2>1. PICK a \in finalized : links[r] = IF r \in Complete(a) THEN a ELSE NoAttempt
    BY DEF IInv, LinksInv, Unlinked
  <2>2. links[r] = a /\ r \in Complete(a) /\ a \in finalized \ unsure
    BY <2>1
  <2>3. Complete(a) \subseteq Stored(a)
    BY <2>2 DEF IInv, ShapeInv, AttemptInv
  <2> QED
    BY <2>2, <2>3 DEF Stored
<1>2. IInv => NothingStranded
  BY DEF IInv, AttemptInv, Stored, NothingStranded
<1> QED
  BY <1>1, <1>2, Invariant, PTL DEF ObjectsFollowLinks

\* A terminal job keeps its review: finalize_review is refused once the job is done.
THEOREM TerminalReviewIsFrozen == Spec => FrozenWhenTerminal
PROOF
<1>1. [Next]_vars => [done => UNCHANGED links]_vars
  <2> SUFFICES ASSUME Next, done PROVE UNCHANGED links
    OBVIOUS
  <2>1. ASSUME NEW a \in Attempt, Finalize(a) PROVE UNCHANGED links
    BY <2>1 DEF Finalize, MayLink
  <2>2. ASSUME NEW a \in Attempt,
               Claim(a) \/ Publish(a) \/ Upload(a) \/ Clean(a) \/ Conclude(a) \/ Crash(a)
        PROVE  UNCHANGED links
    BY <2>2 DEF Claim, Publish, Upload, Clean, Conclude, Crash, store
  <2>3. ASSUME LeaseExpires \/ ReadLinks \/ Answer PROVE UNCHANGED links
    BY <2>3 DEF LeaseExpires, ReadLinks, Answer, store
  <2> QED
    BY <2>1, <2>2, <2>3 DEF Next
<1> QED
  BY <1>1, PTL DEF Spec, FrozenWhenTerminal
=============================================================================
