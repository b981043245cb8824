---------------------------- MODULE StreamDelivery ----------------------------
(***************************************************************************)
(* The Redis Streams consumer of worker/queue_adapter.py: several worker   *)
(* processes with Concurrency handler threads each serve one consumer      *)
(* group.  They read new entries, keep what they work on from being        *)
(* reclaimed by a heartbeat, and reclaim with a cursor what was abandoned. *)
(*                                                                         *)
(* What a handler does between claim and settlement is JobWorker; here it  *)
(* is one step that settles the job or fails.                              *)
(*                                                                         *)
(* - entries are numbered in stream order; 0 is the ID "0-0".              *)
(* - aged abstracts the idle time of a pending entry: reclaim_idle_ms or   *)
(*   more.  The consumer an entry is pending for decides nothing and is    *)
(*   left out.                                                             *)
(* - XAUTOCLAIM scans at most 10 * COUNT entries; there are fewer here.    *)
(***************************************************************************)
EXTENDS Naturals, FiniteSets, FiniteSetsExt

CONSTANTS
  Process,      \* worker processes
  Concurrency,  \* handler threads of each
  Entries,      \* bound on the entries appended
  Malformed,    \* those handle() rejects without processing them
  Stalls,       \* whether a thread may stall for as long as a lease
  MaxFaults,    \* bound on faults, signals and stalls
  NoThread      \* no lease

Entry == 1..Entries
Thread == Process \X (1..Concurrency)

ASSUME ConcurrencyAssumption == Concurrency \in Nat \ {0}
ASSUME EntriesAssumption == Entries \in Nat /\ Malformed \subseteq Entry
ASSUME FaultsAssumption == MaxFaults \in Nat /\ Stalls \in BOOLEAN
ASSUME NoThreadAssumption == NoThread \notin Thread

VARIABLES
  appended,   \* entries appended so far: 1..appended
  delivered,  \* last-delivered-id of the group
  pending,    \* the group's pending entries list
  aged,       \* those whose idle time has reached reclaim_idle_ms
  settled,    \* entries whose job is terminal in PostgreSQL
  lease,      \* the thread whose attempt holds the live lease of the job
  loop,       \* serve(): down, top (of the loop), read (nothing reclaimed)
  cursor,     \* _claim_cursor
  room,       \* its local capacity
  stopping,   \* processes whose stop event is set
  queued,     \* deliveries submitted to the pool, not yet taken up
  slot,       \* the entry each thread handles, or 0
  phase,      \* where it is: free, claim, work, ack
  beating,    \* threads whose stream heartbeat runs
  faults

redis == <<appended, delivered, pending, aged>>
database == <<settled, lease>>
serving == <<loop, cursor, room, stopping, queued>>
threads == <<slot, phase, beating>>
vars == <<redis, database, serving, threads, faults>>

Init ==
  /\ appended = 0 /\ delivered = 0
  /\ pending = {} /\ aged = {}
  /\ settled = {}
  /\ lease = [e \in Entry |-> NoThread]
  /\ loop = [p \in Process |-> "down"]
  /\ cursor = [p \in Process |-> 0]
  /\ room = [p \in Process |-> 0]
  /\ stopping = {}
  /\ queued = [p \in Process |-> {}]
  /\ slot = [s \in Thread |-> 0]
  /\ phase = [s \in Thread |-> "free"]
  /\ beating = {}
  /\ faults = 0

Fault == faults < MaxFaults /\ faults' = faults + 1

Stall == Stalls /\ Fault

\* The n smallest elements of S.
First(n, S) == {e \in S : Cardinality({f \in S : f < e}) < n}

Busy(p) == {s \in Thread : s[1] = p /\ phase[s] # "free"}

\* capacity = concurrency - len(active)
Capacity(p) ==
  LET active == Cardinality(Busy(p)) + Cardinality(queued[p])
  IN IF active < Concurrency THEN Concurrency - active ELSE 0

-----------------------------------------------------------------------------
(* The serve loop of a process.                                            *)

\* ready(): xgroup_create is idempotent; the transport's cursor is new.
Start(p) ==
  /\ loop[p] = "down"
  /\ loop' = [loop EXCEPT ![p] = "top"]
  /\ cursor' = [cursor EXCEPT ![p] = 0]
  /\ UNCHANGED <<redis, database, room, stopping, queued, threads, faults>>

\* What XAUTOCLAIM claims: from the cursor on, up to COUNT aged entries.
Reclaimable(p) == First(Capacity(p), {e \in aged : e >= cursor[p]})

\* Seeded defect: the cursor stays behind the last entry it claimed.
NextCursorNoWrap(p, S) == IF S = {} THEN cursor[p] ELSE Max(S) + 1

\* The ID at which the scan stopped, 0-0 when it reached the end.
NextCursor(p, S) ==
  LET rest == IF Cardinality(S) < Capacity(p) THEN {} ELSE {e \in pending : e > Max(S)}
  IN IF rest = {} THEN 0 ELSE Min(rest)

\* XAUTOCLAIM; when it claims nothing the loop goes on to XREADGROUP.  When
\* its reply is lost the entries are claimed, so young again, but not handled.
Reclaim(p) ==
  /\ loop[p] = "top" /\ p \notin stopping
  /\ Capacity(p) > 0
  /\ LET S == Reclaimable(p) IN
     \/ /\ aged' = aged \ S
        /\ cursor' = [cursor EXCEPT ![p] = NextCursor(p, S)]
        /\ queued' = [queued EXCEPT ![p] = @ \union S]
        /\ loop' = [loop EXCEPT ![p] = IF S = {} THEN "read" ELSE "top"]
        /\ room' = [room EXCEPT ![p] = IF S = {} THEN Capacity(p) ELSE 0]
        /\ UNCHANGED faults
     \/ /\ Fault
        /\ aged' \in {aged, aged \ S}
        /\ UNCHANGED <<cursor, queued, loop, room>>
  /\ UNCHANGED <<appended, delivered, pending, database, stopping, threads>>

\* Up to which entry XREADGROUP ">" with COUNT room[p] delivers.
LastRead(p) == IF delivered + room[p] < appended THEN delivered + room[p] ELSE appended

\* Seeded defect: entries are read without becoming pending (NOACK).
ReadNoAck(p) ==
  /\ loop[p] = "read"
  /\ queued' = [queued EXCEPT ![p] = @ \union (delivered + 1)..LastRead(p)]
  /\ delivered' = LastRead(p)
  /\ loop' = [loop EXCEPT ![p] = "top"]
  /\ room' = [room EXCEPT ![p] = 0]
  /\ UNCHANGED <<appended, pending, aged, database, cursor, stopping, threads, faults>>

\* XREADGROUP, which returns with nothing after block_ms.  The stop event is
\* not looked at again: what it reads is handled even when it is set.
Read(p) ==
  /\ loop[p] = "read"
  /\ LET new == (delivered + 1)..LastRead(p) IN
     \/ /\ delivered' = LastRead(p)
        /\ pending' = pending \union new
        /\ queued' = [queued EXCEPT ![p] = @ \union new]
        /\ UNCHANGED faults
     \/ /\ Fault
        /\ \/ delivered' = LastRead(p) /\ pending' = pending \union new
           \/ UNCHANGED <<delivered, pending>>
        /\ UNCHANGED queued
  /\ loop' = [loop EXCEPT ![p] = "top"]
  /\ room' = [room EXCEPT ![p] = 0]
  /\ UNCHANGED <<appended, aged, database, cursor, stopping, threads>>

\* Seeded defect: the process stays until the group has nothing pending.
ExitWhenDrained(p) ==
  /\ loop[p] = "top" /\ p \in stopping
  /\ Busy(p) = {} /\ queued[p] = {} /\ pending = {}
  /\ loop' = [loop EXCEPT ![p] = "down"]
  /\ stopping' = stopping \ {p}
  /\ UNCHANGED <<redis, database, cursor, room, queued, threads, faults>>

\* while not stop.is_set() or active
Exit(p) ==
  /\ loop[p] = "top" /\ p \in stopping
  /\ Busy(p) = {} /\ queued[p] = {}
  /\ loop' = [loop EXCEPT ![p] = "down"]
  /\ stopping' = stopping \ {p}
  /\ UNCHANGED <<redis, database, cursor, room, queued, threads, faults>>

\* SIGTERM or SIGINT; bounded like a fault.
Signal(p) ==
  /\ loop[p] # "down" /\ p \notin stopping
  /\ Fault
  /\ stopping' = stopping \union {p}
  /\ UNCHANGED <<redis, database, loop, cursor, room, queued, threads>>

\* The process is killed, or an error other than a connection error ends it.
Crash(p) ==
  /\ loop[p] # "down"
  /\ Fault
  /\ loop' = [loop EXCEPT ![p] = "down"]
  /\ room' = [room EXCEPT ![p] = 0]
  /\ stopping' = stopping \ {p}
  /\ queued' = [queued EXCEPT ![p] = {}]
  /\ slot' = [s \in Thread |-> IF s[1] = p THEN 0 ELSE slot[s]]
  /\ phase' = [s \in Thread |-> IF s[1] = p THEN "free" ELSE phase[s]]
  /\ beating' = {s \in beating : s[1] # p}
  /\ UNCHANGED <<redis, database, cursor>>

-----------------------------------------------------------------------------
(* A handler thread.                                                       *)

\* Seeded defect: the delivery is handled without a heartbeat.
TakeUpSilently(s) ==
  /\ phase[s] = "free"
  /\ \E e \in queued[s[1]] :
       /\ queued' = [queued EXCEPT ![s[1]] = @ \ {e}]
       /\ slot' = [slot EXCEPT ![s] = e]
  /\ phase' = [phase EXCEPT ![s] = "claim"]
  /\ UNCHANGED <<redis, database, loop, cursor, room, stopping, beating, faults>>

\* _handle: the heartbeat thread is started before the handler.
TakeUp(s) ==
  /\ phase[s] = "free"
  /\ \E e \in queued[s[1]] :
       /\ queued' = [queued EXCEPT ![s[1]] = @ \ {e}]
       /\ slot' = [slot EXCEPT ![s] = e]
  /\ phase' = [phase EXCEPT ![s] = "claim"]
  /\ beating' = beating \union {s}
  /\ UNCHANGED <<redis, database, loop, cursor, room, stopping, faults>>

\* The handler returns or raises: its heartbeat is joined, the future done.
Return(s) ==
  /\ slot' = [slot EXCEPT ![s] = 0]
  /\ phase' = [phase EXCEPT ![s] = "free"]
  /\ beating' = beating \ {s}

Continue(s, p) == phase' = [phase EXCEPT ![s] = p] /\ UNCHANGED <<slot, beating>>

\* handle() up to the claim: a malformed delivery is acknowledged at once, a
\* settled one because process() says so, one whose lease another attempt
\* holds is left pending.
Begin(s) ==
  LET e == slot[s] IN
  /\ phase[s] = "claim"
  /\ \/ /\ e \in Malformed \union settled
        /\ Continue(s, "ack") /\ UNCHANGED <<lease, faults>>
     \/ /\ e \notin Malformed \union settled
        /\ lease[e] = NoThread
        /\ lease' = [lease EXCEPT ![e] = s]
        /\ Continue(s, "work") /\ UNCHANGED faults
     \/ /\ e \notin Malformed \union settled
        /\ lease[e] # NoThread
        /\ Return(s) /\ UNCHANGED <<lease, faults>>
     \/ /\ e \notin Malformed
        /\ Fault
        /\ Return(s) /\ UNCHANGED lease
  /\ UNCHANGED <<redis, settled, serving>>

\* The attempt settles the job, or fails in a way that leaves the entry
\* pending and the lease released or not.  Having lost the lease it can only
\* do the latter.
Conclude(s) ==
  LET e == slot[s] IN
  /\ phase[s] = "work"
  /\ \/ /\ lease[e] = s
        /\ settled' = settled \union {e}
        /\ lease' = [lease EXCEPT ![e] = NoThread]
        /\ Continue(s, "ack") /\ UNCHANGED faults
     \/ /\ lease[e] = s
        /\ Fault
        /\ lease' \in {lease, [lease EXCEPT ![e] = NoThread]}
        /\ Return(s) /\ UNCHANGED settled
     \/ /\ lease[e] # s
        /\ Return(s) /\ UNCHANGED <<settled, lease, faults>>
  /\ UNCHANGED <<redis, serving>>

\* XACK; when it raises the entry may be gone or still pending.
Ack(s) ==
  /\ phase[s] = "ack"
  /\ \/ pending' = pending \ {slot[s]} /\ UNCHANGED faults
     \/ Fault /\ pending' \in {pending, pending \ {slot[s]}}
  /\ aged' = aged \intersect pending'
  /\ Return(s)
  /\ UNCHANGED <<appended, delivered, database, serving>>

\* XCLAIM makes a pending entry young again; the first error ends the thread.
Heartbeat(s) ==
  /\ s \in beating
  /\ \/ aged' = aged \ {slot[s]} /\ UNCHANGED <<beating, faults>>
     \/ Fault /\ beating' = beating \ {s} /\ UNCHANGED aged
  /\ UNCHANGED <<appended, delivered, pending, database, serving, slot, phase>>

-----------------------------------------------------------------------------
(* The API, time.                                                          *)

Append ==
  /\ appended < Entries
  /\ appended' = appended + 1
  /\ UNCHANGED <<delivered, pending, aged, database, serving, threads, faults>>

\* It waits for a thread that is free: that takes no time to speak of.
AboutToStart(e) ==
  \E p \in Process : e \in queued[p] /\ \E s \in Thread : s[1] = p /\ phase[s] = "free"

\* reclaim_idle_ms pass.  A heartbeat that runs prevents this, unless it
\* stalls: heartbeat_seconds < lease_seconds and that is <= reclaim_idle_ms.
Age(e) ==
  /\ e \in pending \ aged
  /\ ~AboutToStart(e)
  /\ IF \E s \in beating : slot[s] = e THEN Stall ELSE UNCHANGED faults
  /\ aged' = aged \union {e}
  /\ UNCHANGED <<appended, delivered, pending, database, serving, threads>>

Working(s, e) == slot[s] = e /\ phase[s] = "work" /\ lease[e] = s

\* lease_seconds pass without a renewal: the attempt is over, or stalls.
LeaseExpires(e) ==
  /\ lease[e] # NoThread
  /\ IF \E s \in Thread : Working(s, e) THEN Stall ELSE UNCHANGED faults
  /\ lease' = [lease EXCEPT ![e] = NoThread]
  /\ UNCHANGED <<redis, settled, serving, threads>>

-----------------------------------------------------------------------------
Serve(p) == Reclaim(p) \/ Read(p) \/ Exit(p)
Run(s) == TakeUp(s) \/ Begin(s) \/ Conclude(s) \/ Ack(s)

Next ==
  \/ \E p \in Process : Start(p) \/ Serve(p) \/ Signal(p) \/ Crash(p)
  \/ \E s \in Thread : Run(s) \/ Heartbeat(s)
  \/ \E e \in Entry : Age(e) \/ LeaseExpires(e)
  \/ Append

Spec == Init /\ [][Next]_vars

\* Somebody starts a process when none is up.
Restart == (\A p \in Process : loop[p] = "down") /\ \E p \in Process : Start(p)

\* Processes that are up and their threads run, time passes.
Fairness ==
  /\ WF_vars(Restart)
  /\ \A p \in Process : WF_vars(Serve(p))
  /\ \A s \in Thread : WF_vars(Run(s))
  /\ \A e \in Entry : WF_vars(Age(e)) /\ WF_vars(LeaseExpires(e))

FairSpec == Spec /\ Fairness

-----------------------------------------------------------------------------
TypeOK ==
  /\ appended \in 0..Entries /\ delivered \in 0..Entries
  /\ pending \in SUBSET Entry /\ aged \in SUBSET Entry /\ settled \in SUBSET Entry
  /\ lease \in [Entry -> Thread \union {NoThread}]
  /\ loop \in [Process -> {"down", "top", "read"}]
  /\ cursor \in [Process -> 0..Entries]
  /\ room \in [Process -> 0..Concurrency]
  /\ stopping \in SUBSET Process
  /\ queued \in [Process -> SUBSET Entry]
  /\ slot \in [Thread -> 0..Entries]
  /\ phase \in [Thread -> {"free", "claim", "work", "ack"}]
  /\ beating \in SUBSET Thread
  /\ faults \in 0..MaxFaults

\* Whatever is lost, duplicated or killed, an entry the group has delivered is
\* still pending unless its job is settled or there was no job in it: nothing
\* else would ever deliver it again.
NothingForgotten == (1..delivered) \ pending \subseteq settled \union Malformed

\* Handlers of a process that is not disturbed have their entry to themselves:
\* polling, reclaiming and heartbeats alone never hand an entry out twice.
UndisturbedIsExclusive ==
  faults = 0 =>
    /\ \A s, t \in Thread : slot[s] = slot[t] /\ slot[s] # 0 => s = t
    /\ \A p, q \in Process : p # q => queued[p] \intersect queued[q] = {}
    /\ \A s \in Thread, p \in Process : slot[s] \notin queued[p]

\* Every entry is acknowledged in the end: the cursor comes round to what was
\* abandoned, by whatever process and however often.
EveryEntryAcknowledged ==
  \A e \in Entry : (appended >= e) ~> (delivered >= e /\ e \notin pending)

\* A process told to stop finishes what it handles and ends.
StopEndsProcess == \A p \in Process : (p \in stopping) ~> (loop[p] = "down")

-----------------------------------------------------------------------------
\* docs/specs/backend/redis-streams-task-distribution.md: "active handlers
\* heartbeat with XCLAIM so they are not reclaimed while their database lease
\* is live".
LeasedIsNotReclaimable == \A s \in Thread : Working(s, slot[s]) => slot[s] \notin aged
=============================================================================
