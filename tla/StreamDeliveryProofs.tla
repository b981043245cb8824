------------------------- MODULE StreamDeliveryProofs -------------------------
(***************************************************************************)
(* What the consumer group may rely on, for any number of processes,       *)
(* threads, entries and faults: no entry is forgotten, and while nothing   *)
(* fails none is handled twice.  The second rests on a count: a process    *)
(* never has more entries than threads, so that what it has queued is      *)
(* taken up before it can be reclaimed.                                    *)
(***************************************************************************)
EXTENDS StreamDelivery, FiniteSetTheorems, TLAPS

\* The types the argument rests on: entries are delivered in order, as far as they
\* were appended, and what is pending or handled was delivered.
ShapeInv ==
  /\ appended \in 0 .. Entries
  /\ delivered \in 0 .. appended
  /\ pending \subseteq 1 .. delivered
  /\ aged \subseteq pending
  /\ loop \in [Process -> {"down", "top", "read"}]
  /\ room \in [Process -> Nat]
  /\ queued \in [Process -> SUBSET (1 .. delivered)]
  /\ slot \in [Thread -> 0 .. delivered]
  /\ phase \in [Thread -> {"free", "claim", "work", "ack"}]
  /\ \A s \in Thread : slot[s] = 0 <=> phase[s] = "free"
  /\ faults \in Nat

\* Only a thread that has nothing more to do for its entry acknowledges it.
AckInv == \A s \in Thread : phase[s] = "ack" => slot[s] \in settled \union Malformed

KeptInv == ShapeInv /\ AckInv /\ NothingForgotten

-----------------------------------------------------------------------------
(* Counting.                                                               *)

ThreadsOf(p) == {s \in Thread : s[1] = p}

\* A process has Concurrency threads.
LEMMA ThreadsCounted ==
  ASSUME NEW p \in Process
  PROVE  IsFiniteSet(ThreadsOf(p)) /\ Cardinality(ThreadsOf(p)) = Concurrency
PROOF
<1> DEFINE f == [n \in 1 .. Concurrency |-> <<p, n>>]
<1>1. IsFiniteSet(1 .. Concurrency) /\ Cardinality(1 .. Concurrency) = Concurrency
  BY ConcurrencyAssumption, FS_Interval
<1>2. ThreadsOf(p) = {<<p, n>> : n \in 1 .. Concurrency}
  BY DEF ThreadsOf, Thread
<1>3. f \in Bijection(1 .. Concurrency, ThreadsOf(p))
  BY <1>2 DEF Bijection, Injection, Surjection, IsInjective
<1>4. ExistsBijection(1 .. Concurrency, ThreadsOf(p))
  BY <1>3 DEF ExistsBijection
<1> QED
  BY <1>1, <1>4, FS_Bijection

\* First cuts a set to n elements.
LEMMA FirstCounted ==
  ASSUME NEW n \in Nat, NEW S, S \subseteq Nat, IsFiniteSet(S)
  PROVE  /\ First(n, S) \subseteq S /\ IsFiniteSet(First(n, S))
         /\ Cardinality(First(n, S)) \in 0 .. n
PROOF
<1> DEFINE Below(e) == {f \in S : f < e}
           rank == [e \in First(n, S) |-> Cardinality(Below(e))]
<1>1. First(n, S) \subseteq S
  BY DEF First
<1>2. IsFiniteSet(First(n, S)) /\ Cardinality(First(n, S)) \in Nat
  BY <1>1, FS_Subset, FS_CardinalityType
<1>3. \A e \in S : IsFiniteSet(Below(e)) /\ Cardinality(Below(e)) \in Nat
  <2> SUFFICES ASSUME NEW e \in S PROVE IsFiniteSet(Below(e)) /\ Cardinality(Below(e)) \in Nat
    OBVIOUS
  <2>1. Below(e) \in SUBSET S
    OBVIOUS
  <2> HIDE DEF Below
  <2> QED
    BY <2>1, FS_Subset, FS_CardinalityType
<1>4. IsFiniteSet(0 .. n - 1) /\ Cardinality(0 .. n - 1) = n
  BY FS_Interval
<1>5. rank \in [First(n, S) -> 0 .. n - 1]
  <2> SUFFICES ASSUME NEW e \in First(n, S) PROVE Cardinality(Below(e)) \in 0 .. n - 1
    OBVIOUS
  <2>1. e \in S /\ Cardinality(Below(e)) < n
    BY DEF First
  <2>2. Cardinality(Below(e)) \in Nat
    BY <2>1, <1>3
  <2> HIDE DEF Below
  <2> QED
    BY <2>1, <2>2
<1>6. ASSUME NEW d \in First(n, S), NEW e \in First(n, S), d < e PROVE rank[d] # rank[e]
  <2>1. d \in S /\ e \in S /\ d \in Nat /\ e \in Nat
    BY <1>1
  <2>2. Below(d) \in SUBSET Below(e) /\ d \in Below(e) /\ d \notin Below(d)
    <3>1. \A x \in S : x \in Nat
      OBVIOUS
    <3>2. \A x \in S : x < d => x < e
      BY <2>1, <1>6, <3>1
    <3>3. d < e /\ ~(d < d)
      BY <2>1, <1>6
    <3> QED
      BY <2>1, <3>2, <3>3
  <2> HIDE DEF Below
  <2> QED
    BY <2>1, <2>2, <1>3, FS_Subset
<1>7. rank \in Injection(First(n, S), 0 .. n - 1)
  <2>1. \A d, e \in First(n, S) : d # e => d < e \/ e < d
    <3> SUFFICES ASSUME NEW d \in First(n, S), NEW e \in First(n, S), d # e
                 PROVE  d < e \/ e < d
      OBVIOUS
    <3>1. d \in Nat /\ e \in Nat
      BY <1>1
    <3> QED
      BY <3>1
  <2> HIDE DEF rank
  <2> QED
    BY <2>1, <1>5, <1>6 DEF Injection, IsInjective
<1> HIDE DEF rank
<1>8. Cardinality(First(n, S)) <= n
  BY <1>4, <1>7, FS_Injection
<1> QED
  BY <1>1, <1>2, <1>8

\* The busy threads and the queue of a process can be counted.
LEMMA LoadCounted ==
  ASSUME ShapeInv, NEW p \in Process
  PROVE  /\ IsFiniteSet(Busy(p)) /\ Cardinality(Busy(p)) \in Nat
         /\ IsFiniteSet(queued[p]) /\ Cardinality(queued[p]) \in Nat
         /\ Capacity(p) \in Nat
PROOF
<1>1. Busy(p) \in SUBSET ThreadsOf(p)
  BY DEF Busy, ThreadsOf
<1>2. IsFiniteSet(Busy(p)) /\ Cardinality(Busy(p)) \in Nat
  BY <1>1, ThreadsCounted, FS_Subset, FS_CardinalityType
<1>3. delivered \in Nat /\ queued[p] \in SUBSET (1 .. delivered)
  BY EntriesAssumption DEF ShapeInv
<1>4. IsFiniteSet(queued[p]) /\ Cardinality(queued[p]) \in Nat
  <2>1. IsFiniteSet(1 .. delivered)
    BY <1>3, FS_Interval
  <2> QED
    BY <1>3, <2>1, FS_Subset, FS_CardinalityType
<1>5. Capacity(p) \in Nat
  BY <1>2, <1>4, ConcurrencyAssumption DEF Capacity
<1> QED
  BY <1>2, <1>4, <1>5

-----------------------------------------------------------------------------
(* The shape.                                                              *)

\* Nothing was delivered yet.
LEMMA InitShape == Init => ShapeInv
PROOF
  BY EntriesAssumption, ConcurrencyAssumption DEF Init, ShapeInv

\* XAUTOCLAIM hands out entries that are pending.
LEMMA ReclaimShape ==
  ASSUME ShapeInv, NEW p \in Process, Reclaim(p)
  PROVE  ShapeInv'
PROOF
<1> DEFINE S == Reclaimable(p)
<1>1. S \subseteq aged /\ S \subseteq 1 .. delivered
  BY DEF Reclaimable, First, ShapeInv
<1>2. Capacity(p) \in Nat
  BY LoadCounted
<1>3. /\ UNCHANGED <<appended, delivered, pending, slot, phase>>
      /\ aged' \subseteq aged
      /\ queued' = queued \/ queued' = [queued EXCEPT ![p] = @ \union S]
      /\ \/ UNCHANGED loop
         \/ \E l \in {"read", "top"} : loop' = [loop EXCEPT ![p] = l]
      /\ UNCHANGED room \/ \E n \in {0, Capacity(p)} : room' = [room EXCEPT ![p] = n]
      /\ UNCHANGED faults \/ faults' = faults + 1
  BY DEF Reclaim, threads, Fault
<1> HIDE DEF S
<1>4. queued' \in [Process -> SUBSET (1 .. delivered)]
  BY <1>1, <1>3 DEF ShapeInv
<1>5. loop' \in [Process -> {"down", "top", "read"}] /\ room' \in [Process -> Nat] /\ faults' \in Nat
  BY <1>2, <1>3 DEF ShapeInv
<1> QED
  BY <1>3, <1>4, <1>5 DEF ShapeInv

\* XREADGROUP delivers what was appended, whether its reply arrives or not.
LEMMA ReadShape ==
  ASSUME ShapeInv, NEW p \in Process, Read(p)
  PROVE  /\ ShapeInv'
         /\ delivered' \in delivered .. appended
         /\ pending' = pending \union (delivered + 1) .. delivered'
         /\ queued' = [queued EXCEPT ![p] = @ \union (delivered + 1) .. delivered'] \/ queued' = queued
PROOF
<1>1. LastRead(p) \in delivered .. appended /\ delivered \in Nat /\ appended \in 0 .. Entries
  BY EntriesAssumption DEF ShapeInv, LastRead
<1>2. /\ \/ /\ delivered' = LastRead(p) /\ pending' = pending \union (delivered + 1) .. LastRead(p)
            /\ \/ queued' = [queued EXCEPT ![p] = @ \union (delivered + 1) .. LastRead(p)]
               \/ UNCHANGED queued
         \/ UNCHANGED <<delivered, pending, queued>>
      /\ loop' = [loop EXCEPT ![p] = "top"]
      /\ room' = [room EXCEPT ![p] = 0]
      /\ UNCHANGED <<appended, aged, slot, phase>>
      /\ UNCHANGED faults \/ faults' = faults + 1
  BY DEF Read, threads, Fault
<1>3. /\ delivered' \in delivered .. appended
      /\ pending' = pending \union (delivered + 1) .. delivered'
      /\ queued' = [queued EXCEPT ![p] = @ \union (delivered + 1) .. delivered'] \/ queued' = queued
  <2>1. (delivered + 1) .. delivered = {}
    BY <1>1
  <2> QED
    BY <1>1, <1>2, <2>1
<1>4. 1 .. delivered \subseteq 1 .. delivered' /\ (delivered + 1) .. delivered' \subseteq 1 .. delivered'
  BY <1>1, <1>3
<1>5. pending' \subseteq 1 .. delivered' /\ aged' \subseteq pending'
  BY <1>2, <1>3, <1>4 DEF ShapeInv
<1>6. queued' \in [Process -> SUBSET (1 .. delivered')]
  BY <1>3, <1>4 DEF ShapeInv
<1>7. slot' \in [Thread -> 0 .. delivered'] /\ appended' \in 0 .. Entries /\ delivered' \in 0 .. appended'
  BY <1>1, <1>2, <1>3 DEF ShapeInv
<1>8. loop' \in [Process -> {"down", "top", "read"}] /\ room' \in [Process -> Nat] /\ faults' \in Nat
  BY <1>2 DEF ShapeInv
<1> QED
  BY <1>2, <1>3, <1>5, <1>6, <1>7, <1>8 DEF ShapeInv

\* The other steps of a process deliver nothing.
LEMMA ProcessShape ==
  ASSUME ShapeInv, NEW p \in Process, Start(p) \/ Exit(p) \/ Signal(p) \/ Crash(p)
  PROVE  ShapeInv'
PROOF
<1>1. CASE Start(p) \/ Exit(p) \/ Signal(p)
  <2>1. /\ UNCHANGED <<appended, delivered, pending, aged, room, queued, slot, phase>>
        /\ UNCHANGED loop \/ \E l \in {"down", "top"} : loop' = [loop EXCEPT ![p] = l]
        /\ UNCHANGED faults \/ faults' = faults + 1
    BY <1>1 DEF Start, Exit, Signal, Fault, redis, threads
  <2> QED
    BY <2>1 DEF ShapeInv
<1>2. CASE Crash(p)
  <2>1. /\ queued' = [queued EXCEPT ![p] = {}] /\ room' = [room EXCEPT ![p] = 0]
        /\ loop' = [loop EXCEPT ![p] = "down"]
        /\ slot' = [s \in Thread |-> IF s[1] = p THEN 0 ELSE slot[s]]
        /\ phase' = [s \in Thread |-> IF s[1] = p THEN "free" ELSE phase[s]]
        /\ UNCHANGED <<appended, delivered, pending, aged>> /\ faults' = faults + 1
    BY <1>2 DEF Crash, Fault, redis
  <2>2. slot' \in [Thread -> 0 .. delivered]
    BY <2>1, EntriesAssumption DEF ShapeInv
  <2>3. phase' \in [Thread -> {"free", "claim", "work", "ack"}]
    BY <2>1 DEF ShapeInv
  <2>4. \A s \in Thread : slot'[s] = 0 <=> phase'[s] = "free"
    BY <2>1 DEF ShapeInv
  <2> QED
    BY <2>1, <2>2, <2>3, <2>4 DEF ShapeInv
<1> QED
  BY <1>1, <1>2

\* A thread that goes on or returns takes up nothing.
LEMMA MoveShape ==
  ASSUME ShapeInv, NEW s \in Thread, phase[s] # "free",
         (\E l \in {"ack", "work"} : Continue(s, l)) \/ Return(s),
         UNCHANGED <<appended, delivered, loop, room, queued>>,
         pending' \subseteq pending, aged' \subseteq pending',
         UNCHANGED faults \/ faults' = faults + 1
  PROVE  ShapeInv'
PROOF
<1>1. CASE Return(s)
  <2>1. slot' \in [Thread -> 0 .. delivered] /\ slot' = [slot EXCEPT ![s] = 0]
    BY <1>1, EntriesAssumption DEF Return, ShapeInv
  <2>2. phase' \in [Thread -> {"free", "claim", "work", "ack"}] /\ phase' = [phase EXCEPT ![s] = "free"]
    BY <1>1 DEF Return, ShapeInv
  <2>3. \A t \in Thread : slot'[t] = 0 <=> phase'[t] = "free"
    BY <2>1, <2>2 DEF ShapeInv
  <2> QED
    BY <2>1, <2>2, <2>3 DEF ShapeInv
<1>2. CASE \E l \in {"ack", "work"} : Continue(s, l)
  BY <1>2 DEF Continue, ShapeInv
<1> QED
  BY <1>1, <1>2

\* A thread takes up what was delivered, or gives it back.
LEMMA ThreadShape ==
  ASSUME ShapeInv, NEW s \in Thread, Run(s) \/ Heartbeat(s)
  PROVE  ShapeInv'
PROOF
<1>1. CASE TakeUp(s)
  <2>1. s[1] \in Process
    BY DEF Thread
  <2>2. PICK e \in queued[s[1]] : /\ queued' = [queued EXCEPT ![s[1]] = @ \ {e}]
                                 /\ slot' = [slot EXCEPT ![s] = e]
    BY <1>1 DEF TakeUp
  <2>3. e \in 1 .. delivered /\ e # 0
    BY <2>1, <2>2 DEF ShapeInv
  <2> QED
    BY <1>1, <2>1, <2>2, <2>3 DEF TakeUp, redis, ShapeInv
<1>2. CASE Begin(s)
  <2>1. phase[s] = "claim" /\ UNCHANGED <<appended, delivered, pending, aged, loop, room, queued>>
    BY <1>2 DEF Begin, redis, serving
  <2>2. (\E l \in {"ack", "work"} : Continue(s, l)) \/ Return(s)
    BY <1>2 DEF Begin
  <2>3. UNCHANGED faults \/ faults' = faults + 1
    BY <1>2 DEF Begin, Fault
  <2> QED
    BY <2>1, <2>2, <2>3, MoveShape DEF ShapeInv
<1>3. CASE Conclude(s)
  <2>1. phase[s] = "work" /\ UNCHANGED <<appended, delivered, pending, aged, loop, room, queued>>
    BY <1>3 DEF Conclude, redis, serving
  <2>2. Continue(s, "ack") \/ Return(s)
    BY <1>3 DEF Conclude
  <2>3. UNCHANGED faults \/ faults' = faults + 1
    BY <1>3 DEF Conclude, Fault
  <2> QED
    BY <2>1, <2>2, <2>3, MoveShape DEF ShapeInv
<1>4. CASE Ack(s)
  <2>1. /\ phase[s] = "ack" /\ UNCHANGED <<appended, delivered, loop, room, queued>>
        /\ pending' \subseteq pending /\ aged' = aged \intersect pending'
    BY <1>4 DEF Ack, serving
  <2>2. Return(s)
    BY <1>4 DEF Ack
  <2>3. UNCHANGED faults \/ faults' = faults + 1
    BY <1>4 DEF Ack, Fault
  <2> QED
    BY <2>1, <2>2, <2>3, MoveShape
<1>5. CASE Heartbeat(s)
  <2>1. /\ UNCHANGED <<appended, delivered, pending, loop, room, queued, slot, phase>>
        /\ aged' \subseteq aged /\ (UNCHANGED faults \/ faults' = faults + 1)
    BY <1>5 DEF Heartbeat, Fault, serving
  <2> QED
    BY <2>1 DEF ShapeInv
<1> QED
  BY <1>1, <1>2, <1>3, <1>4, <1>5 DEF Run

\* Time passes, entries are appended.
LEMMA ElsewhereShape ==
  ASSUME ShapeInv, Append \/ (\E e \in Entry : Age(e) \/ LeaseExpires(e)) \/ UNCHANGED vars
  PROVE  ShapeInv'
PROOF
<1>1. CASE Append
  BY <1>1, EntriesAssumption DEF Append, serving, threads, ShapeInv
<1>2. ASSUME NEW e \in Entry, Age(e) PROVE ShapeInv'
  BY <1>2 DEF Age, Stall, Fault, serving, threads, ShapeInv
<1>3. ASSUME NEW e \in Entry, LeaseExpires(e) PROVE ShapeInv'
  BY <1>3 DEF LeaseExpires, Stall, Fault, redis, serving, threads, ShapeInv
<1>4. CASE UNCHANGED vars
  BY <1>4 DEF vars, redis, serving, threads, ShapeInv
<1> QED
  BY <1>1, <1>2, <1>3, <1>4

\* The shape is inductive.
LEMMA NextShape == ShapeInv /\ [Next]_vars => ShapeInv'
PROOF
  BY ReclaimShape, ReadShape, ProcessShape, ThreadShape, ElsewhereShape DEF Next, Serve

-----------------------------------------------------------------------------
(* No entry is forgotten.                                                  *)

\* What is read becomes pending.
LEMMA ReadKeeps ==
  ASSUME KeptInv, NEW p \in Process, Read(p)
  PROVE  AckInv' /\ NothingForgotten'
PROOF
<1>1. /\ delivered' \in delivered .. appended /\ delivered \in Nat /\ appended \in Nat
      /\ pending' = pending \union (delivered + 1) .. delivered'
  BY ReadShape, EntriesAssumption DEF KeptInv, ShapeInv
<1>2. UNCHANGED <<slot, phase, settled>>
  BY DEF Read, threads, database
<1>3. 1 .. delivered' = 1 .. delivered \union (delivered + 1) .. delivered'
  BY <1>1
<1> QED
  BY <1>1, <1>2, <1>3 DEF KeptInv, AckInv, NothingForgotten

\* A thread acknowledges only what is settled or was never a job.
LEMMA ThreadKeeps ==
  ASSUME KeptInv, NEW s \in Thread, Run(s) \/ Heartbeat(s)
  PROVE  AckInv' /\ NothingForgotten'
PROOF
<1> USE DEF KeptInv, AckInv, NothingForgotten
<1>1. CASE TakeUp(s)
  BY <1>1 DEF TakeUp, redis, database, ShapeInv
<1>2. CASE Begin(s)
  BY <1>2 DEF Begin, Return, Continue, redis, ShapeInv
<1>3. CASE Conclude(s)
  BY <1>3 DEF Conclude, Return, Continue, redis, ShapeInv
<1>4. CASE Ack(s)
  <2>1. slot[s] \in settled \union Malformed
    BY <1>4 DEF Ack
  <2>2. pending \ {slot[s]} \subseteq pending'
    BY <1>4 DEF Ack
  <2>3. NothingForgotten'
    BY <1>4, <2>1, <2>2 DEF Ack, database
  <2>4. AckInv'
    BY <1>4 DEF Ack, Return, database, ShapeInv
  <2> QED
    BY <2>3, <2>4
<1>5. CASE Heartbeat(s)
  BY <1>5 DEF Heartbeat, database
<1> QED
  BY <1>1, <1>2, <1>3, <1>4, <1>5 DEF Run

\* No other step delivers, acknowledges or settles.
LEMMA OthersKeep ==
  ASSUME KeptInv,
         \/ \E p \in Process : Start(p) \/ Reclaim(p) \/ Exit(p) \/ Signal(p) \/ Crash(p)
         \/ \E e \in Entry : Age(e) \/ LeaseExpires(e)
         \/ Append \/ UNCHANGED vars
  PROVE  AckInv' /\ NothingForgotten'
PROOF
<1>1. UNCHANGED <<delivered, pending, settled>>
  BY DEF Start, Reclaim, Exit, Signal, Crash, Age, LeaseExpires, Append, vars, redis, database
<1>2. \A s \in Thread : phase'[s] = "ack" => phase[s] = "ack" /\ slot'[s] = slot[s]
  <2>1. ASSUME NEW p \in Process, Crash(p)
        PROVE  \A s \in Thread : phase'[s] = "ack" => phase[s] = "ack" /\ slot'[s] = slot[s]
    BY <2>1 DEF Crash
  <2>2. CASE UNCHANGED <<slot, phase>>
    BY <2>2
  <2> QED
    BY <2>1, <2>2 DEF Start, Reclaim, Exit, Signal, Age, LeaseExpires, Append, vars, threads
<1> QED
  BY <1>1, <1>2 DEF KeptInv, AckInv, NothingForgotten

\* serve and handle lose no entry: whatever the group has delivered is pending until its
\* job is settled or there is none in it.
THEOREM NoEntryIsForgotten == Spec => []NothingForgotten
PROOF
<1>1. Init => KeptInv
  BY InitShape, EntriesAssumption DEF Init, KeptInv, AckInv, NothingForgotten
<1>2. KeptInv /\ [Next]_vars => KeptInv'
  BY NextShape, ReadKeeps, ThreadKeeps, OthersKeep DEF Next, Serve, KeptInv
<1>3. KeptInv => NothingForgotten
  BY DEF KeptInv
<1> QED
  BY <1>1, <1>2, <1>3, PTL DEF Spec

-----------------------------------------------------------------------------
(* A process never has more deliveries than threads.                       *)

\* The room that the loop has taken for the read it is about to make.
Reserved(p) == IF loop[p] = "read" THEN room[p] ELSE 0

Load(p) == Cardinality(Busy(p)) + Cardinality(queued[p]) + Reserved(p)

LoadInv == \A p \in Process : Load(p) <= Concurrency

\* Adding n elements to a set adds at most n to its size.
LEMMA UnionCounted ==
  ASSUME NEW S, NEW T, NEW n \in Nat, IsFiniteSet(S), IsFiniteSet(T), Cardinality(T) <= n
  PROVE  IsFiniteSet(S \union T) /\ Cardinality(S \union T) \in Nat
         /\ Cardinality(S \union T) <= Cardinality(S) + n
PROOF
<1>1. IsFiniteSet(S \intersect T) /\ Cardinality(S \intersect T) \in Nat
  BY FS_Intersection, FS_CardinalityType
<1>2. Cardinality(S \union T) = Cardinality(S) + Cardinality(T) - Cardinality(S \intersect T)
  BY FS_Union
<1>3. IsFiniteSet(S \union T)
  BY FS_Union
<1>4. Cardinality(S) \in Nat /\ Cardinality(T) \in Nat /\ Cardinality(S \union T) \in Nat
  BY <1>3, FS_CardinalityType
<1>5. \A s, t, i, u \in Nat : u = s + t - i /\ t <= n => u <= s + n
  OBVIOUS
<1>6. Cardinality(S \union T) <= Cardinality(S) + n
  BY <1>1, <1>2, <1>4, <1>5
<1> QED
  BY <1>3, <1>4, <1>6

\* Fewer busy threads, no more deliveries and no more room: no more load.
LEMMA LoadShrinks ==
  ASSUME ShapeInv, ShapeInv', NEW p \in Process,
         Busy(p)' \subseteq Busy(p), queued'[p] \subseteq queued[p], Reserved(p)' <= Reserved(p)
  PROVE  Load(p) \in Nat /\ Load(p)' \in Nat /\ Load(p)' <= Load(p)
PROOF
<1>1. /\ IsFiniteSet(Busy(p)) /\ Cardinality(Busy(p)) \in Nat
      /\ IsFiniteSet(queued[p]) /\ Cardinality(queued[p]) \in Nat
  BY LoadCounted
<1>2. Cardinality(Busy(p)') \in Nat /\ Cardinality(Busy(p)') <= Cardinality(Busy(p))
  BY <1>1, FS_Subset, FS_CardinalityType
<1>3. Cardinality(queued'[p]) \in Nat /\ Cardinality(queued'[p]) <= Cardinality(queued[p])
  BY <1>1, FS_Subset, FS_CardinalityType
<1>4. Reserved(p) \in Nat /\ Reserved(p)' \in Nat
  BY DEF Reserved, ShapeInv
<1>5. Load(p)' = Cardinality(Busy(p)') + Cardinality(queued'[p]) + Reserved(p)'
  BY DEF Load
<1> QED
  BY <1>1, <1>2, <1>3, <1>4, <1>5 DEF Load

\* XAUTOCLAIM is asked for no more than there is capacity for, and so is XREADGROUP.
LEMMA ReclaimLoad ==
  ASSUME ShapeInv, ShapeInv', LoadInv, NEW p \in Process, Reclaim(p)
  PROVE  LoadInv'
PROOF
<1> DEFINE S == Reclaimable(p)
<1>1. /\ IsFiniteSet(Busy(p)) /\ Cardinality(Busy(p)) \in Nat
      /\ IsFiniteSet(queued[p]) /\ Cardinality(queued[p]) \in Nat
      /\ Capacity(p) \in Nat /\ Capacity(p) > 0 /\ loop[p] = "top"
  BY LoadCounted DEF Reclaim
<1>2. Cardinality(Busy(p)) + Cardinality(queued[p]) + Capacity(p) = Concurrency
  BY <1>1, ConcurrencyAssumption DEF Capacity
<1>3. IsFiniteSet(S) /\ Cardinality(S) \in Nat /\ Cardinality(S) <= Capacity(p)
  <2> DEFINE A == {e \in aged : e >= cursor[p]}
  <2>1. A \in SUBSET (1 .. delivered) /\ delivered \in Nat
    <3>1. aged \subseteq 1 .. delivered /\ delivered \in 0 .. appended /\ appended \in 0 .. Entries
      BY DEF ShapeInv
    <3>2. A \subseteq aged
      BY Zenon
    <3> HIDE DEF A
    <3> QED
      BY <3>1, <3>2, EntriesAssumption
  <2>2. A \subseteq Nat /\ IsFiniteSet(A)
    <3> HIDE DEF A
    <3>1. A \subseteq Nat
      BY <2>1
    <3>2. IsFiniteSet(1 .. delivered)
      BY <2>1, FS_Interval
    <3>3. IsFiniteSet(A)
      BY <2>1, <3>2, FS_Subset
    <3> QED
      BY <3>1, <3>3
  <2>3. S = First(Capacity(p), A)
    BY DEF Reclaimable
  <2> HIDE DEF A, S
  <2>4. IsFiniteSet(S) /\ Cardinality(S) \in 0 .. Capacity(p)
    BY <1>1, <2>2, <2>3, FirstCounted
  <2> QED
    BY <1>1, <2>4
<1>4. \A q \in Process : Busy(q)' = Busy(q)
  BY DEF Reclaim, threads, Busy
<1>5. \A q \in Process \ {p} : queued'[q] = queued[q] /\ Reserved(q)' = Reserved(q)
  BY DEF Reclaim, ShapeInv, Reserved
<1>6. ASSUME NEW q \in Process \ {p} PROVE Load(q)' <= Concurrency
  BY <1>4, <1>5, <1>6 DEF Load, LoadInv
<1>7. Load(p)' = Cardinality(Busy(p)) + Cardinality(queued'[p]) + Reserved(p)'
  BY <1>4 DEF Load
<1>8. CASE queued'[p] = queued[p] \union S /\ loop'[p] = "top"
  <2>1. Cardinality(queued'[p]) \in Nat /\ Cardinality(queued'[p]) <= Cardinality(queued[p]) + Capacity(p)
    BY <1>1, <1>3, <1>8, UnionCounted
  <2>2. Reserved(p)' = 0
    BY <1>8 DEF Reserved
  <2>3. Load(p)' <= Concurrency
    BY <1>1, <1>2, <1>7, <2>1, <2>2, ConcurrencyAssumption
  <2> QED
    BY <1>6, <2>3 DEF LoadInv
<1>9. CASE queued'[p] = queued[p] /\ loop'[p] = "read" /\ room'[p] = Capacity(p)
  <2>1. Load(p)' <= Concurrency
    BY <1>1, <1>2, <1>7, <1>9, ConcurrencyAssumption DEF Reserved
  <2> QED
    BY <1>6, <2>1 DEF LoadInv
<1>10. CASE queued' = queued /\ loop' = loop
  <2>1. Load(p)' <= Concurrency
    BY <1>1, <1>2, <1>7, <1>10, ConcurrencyAssumption DEF Reserved
  <2> QED
    BY <1>6, <2>1 DEF LoadInv
<1>11. \/ queued'[p] = queued[p] \union S /\ loop'[p] = "top"
       \/ queued'[p] = queued[p] /\ loop'[p] = "read" /\ room'[p] = Capacity(p)
       \/ queued' = queued /\ loop' = loop
  <2>1. CASE queued' = queued /\ loop' = loop
    BY <2>1
  <2>2. CASE /\ queued' = [queued EXCEPT ![p] = @ \union S]
             /\ loop' = [loop EXCEPT ![p] = IF S = {} THEN "read" ELSE "top"]
             /\ room' = [room EXCEPT ![p] = IF S = {} THEN Capacity(p) ELSE 0]
    <3>1. /\ queued'[p] = queued[p] \union S
          /\ loop'[p] = IF S = {} THEN "read" ELSE "top"
          /\ room'[p] = IF S = {} THEN Capacity(p) ELSE 0
      BY <2>2 DEF ShapeInv
    <3> HIDE DEF S
    <3> QED
      BY <3>1
  <2> QED
    BY <2>1, <2>2 DEF Reclaim
<1> QED
  BY <1>8, <1>9, <1>10, <1>11

\* XREADGROUP delivers no more than there is room for.
LEMMA ReadLoad ==
  ASSUME ShapeInv, ShapeInv', LoadInv, NEW p \in Process, Read(p)
  PROVE  LoadInv'
PROOF
<1> DEFINE new == (delivered + 1) .. LastRead(p)
<1>1. /\ IsFiniteSet(Busy(p)) /\ Cardinality(Busy(p)) \in Nat
      /\ IsFiniteSet(queued[p]) /\ Cardinality(queued[p]) \in Nat
  BY LoadCounted
<1>2. loop[p] = "read" /\ room[p] \in Nat /\ Load(p) <= Concurrency
  BY DEF Read, LoadInv, ShapeInv
<1>3. Cardinality(Busy(p)) + Cardinality(queued[p]) + room[p] <= Concurrency
  BY <1>2 DEF Load, Reserved
<1>4. IsFiniteSet(new) /\ Cardinality(new) <= room[p]
  <2>1. delivered \in Nat /\ LastRead(p) \in Nat /\ LastRead(p) <= delivered + room[p]
    BY <1>2, EntriesAssumption DEF LastRead, ShapeInv
  <2>2. IsFiniteSet(new) /\ Cardinality(new) = IF delivered + 1 > LastRead(p) THEN 0 ELSE LastRead(p) - (delivered + 1) + 1
    <3>1. delivered + 1 \in Int /\ LastRead(p) \in Int
      BY <2>1
    <3> QED
      BY ONLY <3>1, FS_Interval
  <2> HIDE DEF new
  <2> QED
    BY <1>2, <2>1, <2>2
<1>5. \A q \in Process : Busy(q)' = Busy(q)
  BY DEF Read, threads, Busy
<1>6. \A q \in Process \ {p} : queued'[q] = queued[q] /\ Reserved(q)' = Reserved(q)
  BY DEF Read, ShapeInv, Reserved
<1>7. loop'[p] = "top" /\ (queued'[p] = queued[p] \union new \/ queued'[p] = queued[p])
  BY DEF Read, ShapeInv
<1> HIDE DEF new
<1>8. Cardinality(queued'[p]) \in Nat /\ Cardinality(queued'[p]) <= Cardinality(queued[p]) + room[p]
  <2>1. CASE queued'[p] = queued[p] \union new
    BY <1>1, <1>2, <1>4, <2>1, UnionCounted
  <2>2. CASE queued'[p] = queued[p]
    BY <1>1, <1>2, <2>2
  <2> QED
    BY <1>7, <2>1, <2>2
<1>9. Load(p)' <= Concurrency
  <2>1. Load(p)' = Cardinality(Busy(p)) + Cardinality(queued'[p]) + 0
    BY <1>5, <1>7 DEF Load, Reserved
  <2> QED
    BY <1>1, <1>2, <1>3, <1>8, <2>1, ConcurrencyAssumption
<1>10. \A q \in Process \ {p} : Load(q)' <= Concurrency
  BY <1>5, <1>6 DEF Load, LoadInv
<1> QED
  BY <1>9, <1>10 DEF LoadInv

\* A thread takes one delivery from the queue, or gives its own back.
LEMMA ThreadLoad ==
  ASSUME ShapeInv, ShapeInv', LoadInv, NEW s \in Thread, Run(s) \/ Heartbeat(s)
  PROVE  LoadInv'
PROOF
<1> DEFINE p == s[1]
<1>1. p \in Process /\ UNCHANGED <<loop, room>>
  BY DEF Thread, Run, TakeUp, Begin, Conclude, Ack, Heartbeat, serving
<1>2. \A q \in Process : Load(q) <= Concurrency
  BY DEF LoadInv
<1>4. CASE TakeUp(s)
  <2>1. PICK e \in queued[p] : queued' = [queued EXCEPT ![p] = @ \ {e}]
    BY <1>4 DEF TakeUp
  <2>2. phase[s] = "free" /\ phase' = [phase EXCEPT ![s] = "claim"]
    BY <1>4 DEF TakeUp
  <2>3. Busy(p)' = Busy(p) \union {s} /\ s \notin Busy(p)
    BY <2>2 DEF Busy, ShapeInv
  <2>4. queued'[p] = queued[p] \ {e}
    BY <1>1, <2>1 DEF ShapeInv
  <2>5. \A q \in Process \ {p} : Busy(q)' = Busy(q) /\ queued'[q] = queued[q]
    BY <1>1, <2>1, <2>2 DEF Busy, ShapeInv
  <2>6. \A q \in Process : Reserved(q)' = Reserved(q)
    BY <1>1 DEF Reserved
  <2>7. Load(p)' = Load(p)
    <3>1. /\ IsFiniteSet(Busy(p)) /\ Cardinality(Busy(p)) \in Nat
          /\ IsFiniteSet(queued[p]) /\ Cardinality(queued[p]) \in Nat
      BY <1>1, LoadCounted
    <3>2. Cardinality(Busy(p)') = Cardinality(Busy(p)) + 1
      BY <2>3, <3>1, FS_AddElement
    <3>3. Cardinality(queued'[p]) = Cardinality(queued[p]) - 1
      BY <2>1, <2>4, <3>1, FS_RemoveElement
    <3>4. Reserved(p) \in Nat
      BY <1>1 DEF Reserved, ShapeInv
    <3>5. Load(p)' = Cardinality(Busy(p)') + Cardinality(queued'[p]) + Reserved(p)'
      BY DEF Load
    <3> HIDE DEF p
    <3> QED
      BY <1>1, <2>6, <3>1, <3>2, <3>3, <3>4, <3>5 DEF Load
  <2>8. \A q \in Process \ {p} : Load(q)' = Load(q)
    BY <2>5, <2>6 DEF Load
  <2> QED
    BY <1>2, <2>7, <2>8 DEF LoadInv
<1>5. CASE ~TakeUp(s)
  <2>1. UNCHANGED queued
    BY <1>5 DEF Run, Begin, Conclude, Ack, Heartbeat, serving
  <2>2. \A t \in Thread : phase'[t] # "free" => phase[t] # "free"
    BY <1>5 DEF Run, Begin, Conclude, Ack, Heartbeat, Return, Continue, ShapeInv
  <2>3. ASSUME NEW q \in Process PROVE Load(q) \in Nat /\ Load(q)' \in Nat /\ Load(q)' <= Load(q)
    <3>1. Busy(q)' \subseteq Busy(q)
      BY <2>2 DEF Busy
    <3>2. Reserved(q)' = Reserved(q) /\ Reserved(q) \in Nat
      BY <1>1 DEF Reserved, ShapeInv
    <3>3. Reserved(q)' <= Reserved(q)
      BY <3>2
    <3> QED
      BY <2>1, <3>1, <3>3, LoadShrinks
  <2>4. ASSUME NEW q \in Process PROVE Load(q)' <= Concurrency
    BY <1>2, <2>3, <2>4, ConcurrencyAssumption
  <2> QED
    BY <2>4 DEF LoadInv
<1> QED
  BY <1>4, <1>5

\* No other step takes anything on.
LEMMA OthersLoad ==
  ASSUME ShapeInv, ShapeInv', LoadInv,
         \/ \E p \in Process : Start(p) \/ Exit(p) \/ Signal(p) \/ Crash(p)
         \/ \E e \in Entry : Age(e) \/ LeaseExpires(e)
         \/ Append \/ UNCHANGED vars
  PROVE  LoadInv'
PROOF
<1>1. \A q \in Process : queued'[q] \subseteq queued[q] /\ Reserved(q)' <= Reserved(q)
                         /\ Busy(q)' \subseteq Busy(q)
  <2>1. ASSUME NEW p \in Process, Crash(p), NEW q \in Process
        PROVE  queued'[q] \subseteq queued[q] /\ Reserved(q)' <= Reserved(q) /\ Busy(q)' \subseteq Busy(q)
    <3>1. queued'[q] \subseteq queued[q]
      BY <2>1 DEF Crash, ShapeInv
    <3>2. Reserved(q)' <= Reserved(q)
      BY <2>1 DEF Crash, Reserved, ShapeInv
    <3>3. Busy(q)' \subseteq Busy(q)
      BY <2>1 DEF Crash, Busy
    <3> QED
      BY <3>1, <3>2, <3>3
  <2>2. ASSUME UNCHANGED <<queued, room, phase>>,
               \A q \in Process : loop'[q] = "read" => loop[q] = "read",
               NEW q \in Process
        PROVE  queued'[q] \subseteq queued[q] /\ Reserved(q)' <= Reserved(q) /\ Busy(q)' \subseteq Busy(q)
    BY <2>2 DEF Reserved, Busy, ShapeInv
  <2>3. ASSUME NEW p \in Process, Start(p) \/ Exit(p) \/ Signal(p)
        PROVE  /\ UNCHANGED <<queued, room, phase>>
               /\ \A q \in Process : loop'[q] = "read" => loop[q] = "read"
    BY <2>3 DEF Start, Exit, Signal, threads, ShapeInv
  <2>4. ASSUME \/ \E e \in Entry : Age(e) \/ LeaseExpires(e)
               \/ Append \/ UNCHANGED vars
        PROVE  UNCHANGED <<queued, room, phase, loop>>
    BY <2>4 DEF Age, LeaseExpires, Append, vars, serving, threads
  <2> QED
    BY <2>1, <2>2, <2>3, <2>4
<1>2. ASSUME NEW q \in Process PROVE Load(q)' <= Concurrency
  <2>1. Load(q) \in Nat /\ Load(q)' \in Nat /\ Load(q)' <= Load(q)
    BY <1>1, LoadShrinks
  <2>2. Load(q) <= Concurrency
    BY DEF LoadInv
  <2> QED
    BY <2>1, <2>2, ConcurrencyAssumption
<1> QED
  BY <1>2 DEF LoadInv

-----------------------------------------------------------------------------
(* Undisturbed handlers have their entry to themselves.                    *)

\* While nothing fails a thread that handles an entry keeps it young, and what is
\* queued is taken up before it has aged.
YoungInv ==
  faults = 0 =>
    /\ \A s \in Thread : slot[s] # 0 => s \in beating /\ slot[s] \notin aged
    /\ \A p \in Process : queued[p] \intersect aged = {}

AloneInv == ShapeInv /\ LoadInv /\ YoungInv /\ UndisturbedIsExclusive

\* Steps that hand nothing out and stop no heartbeat.
LEMMA NothingHandedOut ==
  ASSUME AloneInv, UNCHANGED <<queued, slot, beating>>, aged' \subseteq aged,
         faults' = 0 => faults = 0
  PROVE  YoungInv' /\ UndisturbedIsExclusive'
PROOF
  BY DEF AloneInv, YoungInv, UndisturbedIsExclusive

\* What is reclaimed has aged, so that nobody has it.
LEMMA ReclaimAlone ==
  ASSUME AloneInv, NEW p \in Process, Reclaim(p)
  PROVE  YoungInv' /\ UndisturbedIsExclusive'
PROOF
<1> DEFINE S == Reclaimable(p)
<1> SUFFICES ASSUME faults' = 0 PROVE YoungInv' /\ UndisturbedIsExclusive'
  BY DEF YoungInv, UndisturbedIsExclusive
<1>1. S \subseteq aged /\ S \subseteq 1 .. delivered
  BY DEF Reclaimable, First, AloneInv, ShapeInv
<1>2. /\ faults = 0 /\ aged' = aged \ S /\ queued' = [queued EXCEPT ![p] = @ \union S]
      /\ UNCHANGED <<slot, beating>>
  BY DEF Reclaim, Fault, threads, AloneInv, ShapeInv
<1>3. queued'[p] = queued[p] \union S /\ \A q \in Process \ {p} : queued'[q] = queued[q]
  BY <1>2 DEF AloneInv, ShapeInv
<1>4. /\ \A s \in Thread : slot[s] # 0 => slot[s] \notin S
      /\ \A q \in Process : queued[q] \intersect S = {}
      /\ 0 \notin S
  BY <1>1, <1>2 DEF AloneInv, YoungInv
<1> HIDE DEF S
<1>5. YoungInv'
  BY <1>1, <1>2, <1>3 DEF AloneInv, YoungInv
<1>6. UndisturbedIsExclusive'
  <2>1. \A s, t \in Thread : slot'[s] = slot'[t] /\ slot'[s] # 0 => s = t
    BY <1>2 DEF AloneInv, UndisturbedIsExclusive
  <2>2. ASSUME NEW q \in Process, NEW r \in Process, q # r PROVE queued'[q] \intersect queued'[r] = {}
    BY <1>2, <1>3, <1>4, <2>2 DEF AloneInv, UndisturbedIsExclusive
  <2>3. ASSUME NEW s \in Thread, NEW q \in Process PROVE slot'[s] \notin queued'[q]
    BY <1>2, <1>3, <1>4 DEF AloneInv, UndisturbedIsExclusive
  <2> QED
    BY <2>1, <2>2, <2>3 DEF UndisturbedIsExclusive
<1> QED
  BY <1>5, <1>6

\* What is read is new to everybody.
LEMMA ReadAlone ==
  ASSUME AloneInv, NEW p \in Process, Read(p)
  PROVE  YoungInv' /\ UndisturbedIsExclusive'
PROOF
<1> DEFINE new == (delivered + 1) .. LastRead(p)
<1> SUFFICES ASSUME faults' = 0 PROVE YoungInv' /\ UndisturbedIsExclusive'
  BY DEF YoungInv, UndisturbedIsExclusive
<1>1. faults = 0 /\ queued' = [queued EXCEPT ![p] = @ \union new] /\ UNCHANGED <<slot, beating, aged>>
  BY DEF Read, Fault, threads, AloneInv, ShapeInv
<1>2. queued'[p] = queued[p] \union new /\ \A q \in Process \ {p} : queued'[q] = queued[q]
  BY <1>1 DEF AloneInv, ShapeInv
<1>3. 1 .. delivered \intersect new = {} /\ 0 \notin new
  <2>1. delivered \in Nat
    BY EntriesAssumption DEF AloneInv, ShapeInv
  <2> QED
    BY <2>1
<1> HIDE DEF new
<1>4. /\ \A s \in Thread : slot[s] \notin new
      /\ \A q \in Process : queued[q] \intersect new = {}
      /\ aged \intersect new = {}
  <2>1. delivered \in Nat
    BY EntriesAssumption DEF AloneInv, ShapeInv
  <2>2. \A s \in Thread : slot[s] = 0 \/ slot[s] \in 1 .. delivered
    BY <2>1 DEF AloneInv, ShapeInv
  <2> QED
    BY <1>3, <2>2 DEF AloneInv, ShapeInv
<1>5. YoungInv'
  BY <1>1, <1>2, <1>4 DEF AloneInv, YoungInv
<1>6. UndisturbedIsExclusive'
  <2>1. \A s, t \in Thread : slot'[s] = slot'[t] /\ slot'[s] # 0 => s = t
    BY <1>1 DEF AloneInv, UndisturbedIsExclusive
  <2>2. ASSUME NEW q \in Process, NEW r \in Process, q # r PROVE queued'[q] \intersect queued'[r] = {}
    BY <1>1, <1>2, <1>4, <2>2 DEF AloneInv, UndisturbedIsExclusive
  <2>3. ASSUME NEW s \in Thread, NEW q \in Process PROVE slot'[s] \notin queued'[q]
    BY <1>1, <1>2, <1>4 DEF AloneInv, UndisturbedIsExclusive
  <2> QED
    BY <2>1, <2>2, <2>3 DEF UndisturbedIsExclusive
<1> QED
  BY <1>5, <1>6

\* An entry moves from the queue of a process to one of its threads, which beats from then
\* on; a thread that returns only gives up its own.
LEMMA ThreadAlone ==
  ASSUME AloneInv, NEW s \in Thread, Run(s) \/ Heartbeat(s)
  PROVE  YoungInv' /\ UndisturbedIsExclusive'
PROOF
<1> SUFFICES ASSUME faults' = 0 PROVE YoungInv' /\ UndisturbedIsExclusive'
  BY DEF YoungInv, UndisturbedIsExclusive
<1>1. faults = 0
  BY DEF Run, TakeUp, Begin, Conclude, Ack, Heartbeat, Fault, AloneInv, ShapeInv
<1>2. CASE TakeUp(s)
  <2>1. s[1] \in Process
    BY DEF Thread
  <2>2. PICK e \in queued[s[1]] : /\ queued' = [queued EXCEPT ![s[1]] = @ \ {e}]
                                 /\ slot' = [slot EXCEPT ![s] = e]
    BY <1>2 DEF TakeUp
  <2>3. beating' = beating \union {s} /\ UNCHANGED aged
    BY <1>2 DEF TakeUp, redis
  <2>4. \A q \in Process : queued'[q] \subseteq queued[q] /\ e \notin queued'[q]
    BY <1>1, <2>1, <2>2 DEF AloneInv, ShapeInv, UndisturbedIsExclusive
  <2>5. slot'[s] = e /\ \A t \in Thread \ {s} : slot'[t] = slot[t] /\ slot[t] # e
    BY <1>1, <2>1, <2>2 DEF AloneInv, ShapeInv, UndisturbedIsExclusive
  <2>6. e \notin aged
    BY <1>1, <2>1, <2>2 DEF AloneInv, YoungInv
  <2>7. YoungInv'
    BY <1>1, <2>3, <2>4, <2>5, <2>6 DEF AloneInv, YoungInv
  <2>8. UndisturbedIsExclusive'
    <3>1. \A t, u \in Thread : slot'[t] = slot'[u] /\ slot'[t] # 0 => t = u
      BY <1>1, <2>5 DEF AloneInv, UndisturbedIsExclusive
    <3>2. \A q, r \in Process : q # r => queued'[q] \intersect queued'[r] = {}
      BY <1>1, <2>4 DEF AloneInv, UndisturbedIsExclusive
    <3>3. \A t \in Thread, q \in Process : slot'[t] \notin queued'[q]
      BY <1>1, <2>4, <2>5 DEF AloneInv, UndisturbedIsExclusive
    <3> QED
      BY <3>1, <3>2, <3>3 DEF UndisturbedIsExclusive
  <2> QED
    BY <2>7, <2>8
<1>3. CASE Return(s) /\ UNCHANGED queued /\ aged' \subseteq aged
  <2>1. slot' = [slot EXCEPT ![s] = 0] /\ beating' = beating \ {s}
    BY <1>3 DEF Return
  <2>2. slot'[s] = 0 /\ \A t \in Thread \ {s} : slot'[t] = slot[t]
    BY <2>1 DEF AloneInv, ShapeInv
  <2>3. \A q \in Process : 0 \notin queued[q]
    BY DEF AloneInv, ShapeInv
  <2>4. YoungInv'
    BY <1>1, <1>3, <2>1, <2>2 DEF AloneInv, YoungInv
  <2>5. UndisturbedIsExclusive'
    BY <1>1, <1>3, <2>2, <2>3 DEF AloneInv, UndisturbedIsExclusive
  <2> QED
    BY <2>4, <2>5
<1>4. CASE UNCHANGED <<queued, slot, beating>> /\ aged' \subseteq aged
  BY <1>1, <1>4, NothingHandedOut
<1>5. \/ TakeUp(s)
      \/ Return(s) /\ UNCHANGED queued /\ aged' \subseteq aged
      \/ UNCHANGED <<queued, slot, beating>> /\ aged' \subseteq aged
  <2>1. CASE Begin(s)
    BY <2>1 DEF Begin, Continue, redis, serving
  <2>2. CASE Conclude(s)
    BY <2>2 DEF Conclude, Continue, redis, serving
  <2>3. CASE Ack(s)
    BY <2>3 DEF Ack, serving
  <2>4. CASE Heartbeat(s)
    BY <1>1, <2>4 DEF Heartbeat, Fault, serving
  <2> QED
    BY <2>1, <2>2, <2>3, <2>4 DEF Run
<1> QED
  BY <1>2, <1>3, <1>4, <1>5

\* What a process has queued has a free thread: it is about to start.
LEMMA QueuedStarts ==
  ASSUME AloneInv, NEW p \in Process, NEW e \in queued[p]
  PROVE  AboutToStart(e)
PROOF
<1> SUFFICES ASSUME ~AboutToStart(e) PROVE FALSE
  OBVIOUS
<1>1. Busy(p) = ThreadsOf(p)
  BY DEF AboutToStart, Busy, ThreadsOf
<1>2. /\ Cardinality(Busy(p)) = Concurrency
      /\ IsFiniteSet(queued[p]) /\ Cardinality(queued[p]) \in Nat
  BY <1>1, ThreadsCounted, LoadCounted DEF AloneInv
<1>3. Reserved(p) \in Nat /\ Load(p) <= Concurrency
  BY DEF AloneInv, LoadInv, Reserved, ShapeInv
<1>4. Cardinality(queued[p]) = 0
  BY <1>2, <1>3, ConcurrencyAssumption DEF Load
<1> QED
  BY <1>2, <1>4, FS_EmptySet

\* Nothing ages that somebody handles or is about to.
LEMMA AgeAlone ==
  ASSUME AloneInv, NEW e \in Entry, Age(e)
  PROVE  YoungInv' /\ UndisturbedIsExclusive'
PROOF
<1> SUFFICES ASSUME faults' = 0 PROVE YoungInv' /\ UndisturbedIsExclusive'
  BY DEF YoungInv, UndisturbedIsExclusive
<1>1. /\ faults = 0 /\ ~AboutToStart(e) /\ ~\E s \in beating : slot[s] = e
      /\ aged' = aged \union {e} /\ UNCHANGED <<queued, slot, beating>>
  BY DEF Age, Stall, Fault, serving, threads, AloneInv, ShapeInv
<1>2. \A p \in Process : e \notin queued[p]
  BY <1>1, QueuedStarts
<1>3. \A s \in Thread : slot[s] # 0 => slot[s] # e
  BY <1>1 DEF AloneInv, YoungInv
<1> QED
  BY <1>1, <1>2, <1>3 DEF AloneInv, YoungInv, UndisturbedIsExclusive

\* The other steps hand nothing out, or are disturbances.
LEMMA OthersAlone ==
  ASSUME AloneInv,
         \/ \E p \in Process : Start(p) \/ Exit(p) \/ Signal(p) \/ Crash(p)
         \/ \E e \in Entry : LeaseExpires(e)
         \/ Append \/ UNCHANGED vars
  PROVE  YoungInv' /\ UndisturbedIsExclusive'
PROOF
<1>1. CASE \E p \in Process : Signal(p) \/ Crash(p)
  <2>1. faults' # 0
    BY <1>1 DEF Signal, Crash, Fault, AloneInv, ShapeInv
  <2> QED
    BY <2>1 DEF YoungInv, UndisturbedIsExclusive
<1>2. CASE \/ \E p \in Process : Start(p) \/ Exit(p)
           \/ \E e \in Entry : LeaseExpires(e)
           \/ Append \/ UNCHANGED vars
  <2>1. UNCHANGED <<queued, slot, beating, aged>> /\ (faults' = 0 => faults = 0)
    BY <1>2 DEF Start, Exit, LeaseExpires, Stall, Fault, Append, vars, redis, serving, threads,
                AloneInv, ShapeInv
  <2> QED
    BY <2>1, NothingHandedOut
<1> QED
  BY <1>1, <1>2

\* serve, _reclaim, _read and the heartbeat of _handle, as long as nothing is killed, lost or
\* stalled, never hand an entry to two handlers: what may be reclaimed nobody has.
THEOREM UndisturbedHandlersAreAlone == Spec => []UndisturbedIsExclusive
PROOF
<1>1. Init => AloneInv
  <2> SUFFICES ASSUME Init PROVE AloneInv
    OBVIOUS
  <2>1. ShapeInv
    BY InitShape
  <2>2. \A p \in Process : Busy(p) = {} /\ queued[p] = {} /\ Reserved(p) = 0
    BY DEF Init, Busy, Reserved
  <2>3. LoadInv
    BY <2>2, FS_EmptySet, ConcurrencyAssumption DEF LoadInv, Load
  <2>4. YoungInv /\ UndisturbedIsExclusive
    BY DEF Init, YoungInv, UndisturbedIsExclusive
  <2> QED
    BY <2>1, <2>3, <2>4 DEF AloneInv
<1>2. AloneInv /\ [Next]_vars => AloneInv'
  <2> SUFFICES ASSUME AloneInv, [Next]_vars PROVE AloneInv'
    OBVIOUS
  <2>1. ShapeInv /\ LoadInv /\ ShapeInv'
    BY NextShape DEF AloneInv
  <2>2. LoadInv'
    BY <2>1, ReclaimLoad, ReadLoad, ThreadLoad, OthersLoad DEF Next, Serve
  <2>3. YoungInv' /\ UndisturbedIsExclusive'
    BY ReclaimAlone, ReadAlone, ThreadAlone, AgeAlone, OthersAlone DEF Next, Serve
  <2> QED
    BY <2>1, <2>2, <2>3 DEF AloneInv
<1>3. AloneInv => UndisturbedIsExclusive
  BY DEF AloneInv
<1> QED
  BY <1>1, <1>2, <1>3, PTL DEF Spec
=============================================================================
