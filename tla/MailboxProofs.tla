--------------------------- MODULE MailboxProofs ---------------------------
(***************************************************************************)
(* Proofs about Mailbox, for every set of submissions and threads and any  *)
(* number of claims, faults, controls and crashes.                         *)
(*                                                                         *)
(* What the store does to a record is taken from MailboxStoreProofs; what  *)
(* its callers may rely on is the invariant of this module.                *)
(***************************************************************************)
EXTENDS Mailbox, FiniteSetTheorems, TLAPS

\* The store below the service, with what is proved of it.
Proved == INSTANCE MailboxStoreProofs WITH
    DedupeKeys <- {}, NoKey <- "NoKey", Priorities <- {0}, Stamps <- {0}, ClaimLimit <- 1,
    EnqueuedAttempts <- {0}

(***************************************************************************)
(* The store of the service and the one proved about are the same.         *)
(***************************************************************************)

\* What MailboxStore assumes of its constants holds below the service.
LEMMA StoreAssumed == Proved!ConstantsAssumption
<1>1. Proved!IsFiniteSet(DispatchIds)
  BY MailboxAssumption DEF Proved!IsFiniteSet, IsFiniteSet
<1>2. QED
  BY <1>1, MailboxAssumption DEF Proved!ConstantsAssumption

\* The records of the two and the transitions on them are the same.
LEMMA SameRecords ==
  /\ Store!Terminal = Proved!Terminal /\ Store!Status = Proved!Status
  /\ Store!Dispatch = Proved!Dispatch
  /\ Store!NoDispatch = Proved!NoDispatch
  /\ \A r, n : Store!MarkClaimed(r, n) = Proved!MarkClaimed(r, n)
  /\ \A r : Store!MarkExtended(r) = Proved!MarkExtended(r)
  /\ \A r : Store!MarkStarted(r) = Proved!MarkStarted(r)
  /\ \A r, s : Store!MarkResult(r, s) = Proved!MarkResult(r, s)
  /\ \A r, s : Store!MarkTerminal(r, s) = Proved!MarkTerminal(r, s)
  /\ \A r, e : Store!MarkSuperseded(r, e) = Proved!MarkSuperseded(r, e)
  /\ \A r, v : Store!MarkNackResult(r, v) = Proved!MarkNackResult(r, v)
  /\ \A r : Store!MarkExpiredLease(r) = Proved!MarkExpiredLease(r)
  /\ \A t, p, k, c, v, e, n :
        Store!NewDispatch(t, p, k, c, v, e, n) = Proved!NewDispatch(t, p, k, c, v, e, n)
<1> USE DEF Store!Terminal, Store!Status, Store!RunStatus, Store!Dispatch, Store!NoDispatch,
            Store!NewDispatch, Store!MarkClaimed, Store!MarkExtended, Store!MarkStarted,
            Store!MarkResult, Store!MarkTerminal, Store!MarkSuperseded, Store!Requeue,
            Store!Bury, Store!MarkNackResult, Store!MarkExpiredLease,
            Proved!Terminal, Proved!Status, Proved!RunStatus, Proved!Dispatch,
            Proved!NoDispatch, Proved!NewDispatch, Proved!MarkClaimed,
            Proved!MarkExtended, Proved!MarkStarted, Proved!MarkResult,
            Proved!MarkTerminal, Proved!MarkSuperseded, Proved!Requeue, Proved!Bury,
            Proved!MarkNackResult, Proved!MarkExpiredLease
<1>1. /\ Store!Terminal = Proved!Terminal /\ Store!Status = Proved!Status
      /\ Store!Dispatch = Proved!Dispatch
  OBVIOUS
<1>2. \A t, p, k, c, v, e, n :
        Store!NewDispatch(t, p, k, c, v, e, n) = Proved!NewDispatch(t, p, k, c, v, e, n)
  OBVIOUS
<1>3. Store!NoDispatch = Proved!NoDispatch
  OBVIOUS
<1>4. /\ \A r, n : Store!MarkClaimed(r, n) = Proved!MarkClaimed(r, n)
      /\ \A r : Store!MarkExtended(r) = Proved!MarkExtended(r)
      /\ \A r : Store!MarkStarted(r) = Proved!MarkStarted(r)
      /\ \A r, s : Store!MarkResult(r, s) = Proved!MarkResult(r, s)
      /\ \A r, s : Store!MarkTerminal(r, s) = Proved!MarkTerminal(r, s)
      /\ \A r, e : Store!MarkSuperseded(r, e) = Proved!MarkSuperseded(r, e)
  OBVIOUS
<1>5. \A r, v : Store!MarkNackResult(r, v) = Proved!MarkNackResult(r, v)
  OBVIOUS
<1>6. \A r : Store!MarkExpiredLease(r) = Proved!MarkExpiredLease(r)
  OBVIOUS
<1>7. QED
  BY <1>1, <1>2, <1>3, <1>4, <1>5, <1>6

\* The questions asked of the records have the same answers.
LEMMA SameQueries ==
  /\ \A t, s : Store!Of(t, s) = Proved!Of(t, s)
  /\ \A d : Store!Stale(d) <=> Proved!Stale(d)
  /\ \A t : Store!Eligible(t) = Proved!Eligible(t)
  /\ \A t : Store!Batches(t) = Proved!Batches(t)
<1>1. \A t, s : Store!Of(t, s) = Proved!Of(t, s)
  BY DEF Store!Of, Proved!Of
<1>2. \A d : Store!Stale(d) <=> Proved!Stale(d)
  BY DEF Store!Stale, Proved!Stale
<1>3. \A t : Store!Eligible(t) = Proved!Eligible(t)
  BY <1>1, <1>2 DEF Store!Eligible, Proved!Eligible
<1>4. \A a, b : Store!Precedes(a, b) <=> Proved!Precedes(a, b)
  BY DEF Store!Precedes, Proved!Precedes
<1>5. \A S : Store!Cardinality(S) = Proved!Cardinality(S)
  BY DEF Store!Cardinality, Proved!Cardinality
<1>6. \A t : Store!Batches(t) = Proved!Batches(t)
  BY <1>3, <1>4, <1>5 DEF Store!Batches, Proved!Batches
<1>7. QED
  BY <1>1, <1>2, <1>3, <1>6

\* The calls that name a dispatch are the same.
LEMMA SameCalls ==
  /\ \A d, tok : Store!Ack(d, tok) <=> Proved!Ack(d, tok)
  /\ \A d, tok, v : Store!Nack(d, tok, v) <=> Proved!Nack(d, tok, v)
  /\ \A d, tok : Store!DeadLetter(d, tok) <=> Proved!DeadLetter(d, tok)
  /\ \A d, tok : Store!RecordDispatchStart(d, tok) <=> Proved!RecordDispatchStart(d, tok)
  /\ \A d, tok, s : Store!RecordRunResult(d, tok, s) <=> Proved!RecordRunResult(d, tok, s)
  /\ \A d, tok : Store!ExtendLease(d, tok) <=> Proved!ExtendLease(d, tok)
  /\ \A d, tok : Store!SupersedeClaimed(d, tok) <=> Proved!SupersedeClaimed(d, tok)
  /\ \A d : Store!Cancel(d) <=> Proved!Cancel(d)
  /\ \A d : Store!ClaimDispatch(d) <=> Proved!ClaimDispatch(d)
  /\ \A d, t, p, k, c, v, n : Store!Enqueue(d, t, p, k, c, v, n) <=> Proved!Enqueue(d, t, p, k, c, v, n)
<1>1. \A d, tok, next : Store!Fenced(d, tok, next) <=> Proved!Fenced(d, tok, next)
  BY SameRecords, SameQueries DEF Store!Fenced, Proved!Fenced
<1>2. /\ \A d, tok : Store!Ack(d, tok) <=> Proved!Ack(d, tok)
      /\ \A d, tok, v : Store!Nack(d, tok, v) <=> Proved!Nack(d, tok, v)
      /\ \A d, tok : Store!DeadLetter(d, tok) <=> Proved!DeadLetter(d, tok)
  BY <1>1, SameRecords DEF Store!Ack, Proved!Ack, Store!Nack, Proved!Nack,
                           Store!DeadLetter, Proved!DeadLetter
<1>3. /\ \A d, tok : Store!RecordDispatchStart(d, tok) <=> Proved!RecordDispatchStart(d, tok)
      /\ \A d, tok, s : Store!RecordRunResult(d, tok, s) <=> Proved!RecordRunResult(d, tok, s)
      /\ \A d, tok : Store!ExtendLease(d, tok) <=> Proved!ExtendLease(d, tok)
  BY <1>1, SameRecords DEF Store!RecordDispatchStart, Proved!RecordDispatchStart,
        Store!RecordRunResult, Proved!RecordRunResult, Store!ExtendLease, Proved!ExtendLease
<1>4. \A d, tok : Store!SupersedeClaimed(d, tok) <=> Proved!SupersedeClaimed(d, tok)
  BY SameRecords DEF Store!SupersedeClaimed, Proved!SupersedeClaimed
<1>5. \A d : Store!Cancel(d) <=> Proved!Cancel(d)
  BY SameRecords DEF Store!Cancel, Proved!Cancel
<1>6. \A d : Store!ClaimDispatch(d) <=> Proved!ClaimDispatch(d)
  BY SameRecords, SameQueries DEF Store!ClaimDispatch, Proved!ClaimDispatch
<1>7. \A d, t, p, k, c, v, n : Store!Enqueue(d, t, p, k, c, v, n) <=> Proved!Enqueue(d, t, p, k, c, v, n)
  BY SameRecords, SameQueries DEF Store!Enqueue, Proved!Enqueue
<1>8. QED
  BY <1>2, <1>3, <1>4, <1>5, <1>6, <1>7

\* The calls that name a thread or sweep are the same, and so is time.
LEMMA SameSweeps ==
  /\ \A t, S : Store!Claim(t, S) <=> Proved!Claim(t, S)
  /\ \A t : Store!Interrupt(t) <=> Proved!Interrupt(t)
  /\ \A S : Store!ReclaimExpiredLeases(S) <=> Proved!ReclaimExpiredLeases(S)
  /\ \A S : Store!PurgeTerminal(S) <=> Proved!PurgeTerminal(S)
  /\ \A d : Store!Elapse(d) <=> Proved!Elapse(d)
  /\ \A d : Store!Expire(d) <=> Proved!Expire(d)
<1>1. \A t, S : Store!Claim(t, S) <=> Proved!Claim(t, S)
  BY SameRecords, SameQueries DEF Store!Claim, Proved!Claim
<1>2. \A t : Store!Interrupt(t) <=> Proved!Interrupt(t)
  BY SameRecords, SameQueries DEF Store!Interrupt, Proved!Interrupt
<1>3. \A S : Store!ReclaimExpiredLeases(S) <=> Proved!ReclaimExpiredLeases(S)
  BY SameRecords, SameQueries DEF Store!ReclaimExpiredLeases, Proved!ReclaimExpiredLeases
<1>4. \A S : Store!PurgeTerminal(S) <=> Proved!PurgeTerminal(S)
  BY SameRecords, SameQueries DEF Store!PurgeTerminal, Proved!PurgeTerminal
<1>5. \A d : Store!Elapse(d) <=> Proved!Elapse(d)
  BY DEF Store!Elapse, Proved!Elapse
<1>6. \A d : Store!Expire(d) <=> Proved!Expire(d)
  BY DEF Store!Expire, Proved!Expire
<1>7. QED
  BY <1>1, <1>2, <1>3, <1>4, <1>5, <1>6

\* The two specifications have the same initial states and steps.
LEMMA SameStore ==
  /\ Store!Init <=> Proved!Init
  /\ Store!Next <=> Proved!Next
  /\ Store!vars = Proved!vars
  /\ Store!TypeOK <=> Proved!TypeOK
<1>1. Store!Init <=> Proved!Init
  BY SameRecords DEF Store!Init, Proved!Init
<1>2. \A d : Store!CallOn(d) <=> Proved!CallOn(d)
  <2>1. \A d, t, p, k, c, v, n :
           Store!EnqueueNew(d, t, p, k, c, v, n) <=> Proved!EnqueueNew(d, t, p, k, c, v, n)
    BY SameCalls DEF Store!EnqueueNew, Proved!EnqueueNew
  <2>2. QED
    BY <2>1, SameCalls DEF Store!CallOn, Proved!CallOn
<1>3. Store!Next <=> Proved!Next
  BY <1>2, SameSweeps DEF Store!Next, Proved!Next
<1>4. Store!vars = Proved!vars
  BY DEF Store!vars, Proved!vars
<1>5. Store!TypeOK <=> Proved!TypeOK
  BY SameRecords DEF Store!TypeOK, Proved!TypeOK
<1>6. QED
  BY <1>1, <1>3, <1>4, <1>5

(***************************************************************************)
(* The inductive invariant                                                 *)
(***************************************************************************)

RunStatuses == Ended \cup {"None", "Created", "Running", "Waiting"}

Places == {"New", "Stop", "Mark", "Cancel", "Release", "Prepare", "Enqueue", "Wake",
           "Inline", "Undo", "UndoMark", "Accepted", "Rejected", "Lost"}

Stages == {"None", "Install", "Check", "Epoch", "Start", "Enter", "Run", "Result",
           "Settle", "AckAgain", "Cancel", "Mark", "Finish", "Done"}

Runs == [DispatchIds -> [status : RunStatuses, dispatch : DispatchIds]]

Submissions ==
    [DispatchIds -> [pc : Places, superseded : SUBSET DispatchIds, claim : SUBSET DispatchIds]]

WakeCounts == [Threads -> [try : Nat, claim : Nat, revert : Nat]]

Workers == [Threads -> [st : {"Gone", "Idle", "Claiming", "Running"}, tok : 0..MaxToken]]

Tasks ==
    [Tokens -> [pc : Stages, d : DispatchIds,
                out : {"None", "Done", "Waiting", "Transient", "Permanent"},
                recorded : BOOLEAN, seen : RunStatuses]]

Found == [run : DispatchIds, d : DispatchIds]

Recoveries ==
    [pc : {"Idle", "Reclaim", "Wake", "List", "Load", "Enqueue"}, queued : SUBSET Threads,
     todo : SUBSET Found, pick : SUBSET Found, found : SUBSET Threads]

Counts == [crashes : Nat, faults : Nat, purges : Nat, controls : Nat]

RunType == runs \in Runs /\ runOf \in [DispatchIds -> DispatchIds]

WorkType == wakes \in WakeCounts /\ workers \in Workers

TaskType ==
    /\ exec \in Tasks
    /\ renewal \in SUBSET Tokens /\ cancelled \in SUBSET Tokens
    /\ active \in [Threads -> 0..MaxToken]

MaintType ==
    /\ marking \in SUBSET DispatchIds /\ stopping \in SUBSET Threads
    /\ swept \in SUBSET [d : DispatchIds, status : Store!Status]
    /\ gcIdle \in SUBSET Threads
    /\ recovery \in Recoveries
    /\ spent \in Counts

\* Every claim has a token of its own, a task is at work under a token that was
\* issued, and a record belongs to the thread its submission names.
TokenInv ==
    /\ lastToken <= MaxToken
    /\ \A a \in Tokens : exec[a].pc # "None" => a <= lastToken
    /\ \A x \in DispatchIds : dispatches[x].claim_token <= lastToken
    /\ \A x \in DispatchIds : Status(x) # "Absent" => dispatches[x].thread = ThreadOf[x]

TypeInv ==
    /\ Proved!RecordInv /\ TokenInv
    /\ RunType /\ submits \in Submissions /\ WorkType /\ TaskType /\ MaintType

\* A busy worker has a task that will free it, and the task is of its thread.
WorkerOf(t) ==
    /\ workers[t].st = "Running" =>
          /\ workers[t].tok \in Tokens
          /\ InFlight(workers[t].tok) /\ T(workers[t].tok) = t
    /\ workers[t].st = "Claiming" =>
          \/ wakes[t].claim + wakes[t].revert > 0
          \/ \E tok \in Tokens : exec[tok].pc = "Install" /\ T(tok) = t

WorkerInv == \A t \in Threads : WorkerOf(t)

Early == {"New", "Stop", "Mark", "Cancel", "Release", "Prepare", "Enqueue"}

\* No task is at work on x.
Free(x) == \A a \in Tokens : InFlight(a) => exec[a].d # x

\* As long as the process has not been restarted, a submission that has not
\* reached its enqueue has nothing in the store and no task.
FreshInv ==
    spent.crashes = 0 =>
        /\ recovery.pc = "Idle"
        /\ \A x \in DispatchIds : submits[x].pc \in Early => Status(x) = "Absent" /\ Free(x)

\* Where a task may still hold its claim.
Holding == {"Install", "Check", "Epoch", "Start", "Enter", "Run", "Result", "Settle"}

Over == Store!Terminal \cup {"Absent"}

\* Back in the queue, and hidden from claims for a while.
Parked(x) == Status(x) = "Queued" /\ dispatches[x].available = "Later"

\* Every claimed dispatch has its task, which is renewing a lease that lives.
Served(x) ==
    Status(x) = "Claimed" =>
        LET k == dispatches[x].claim_token
        IN  /\ k \in Tokens /\ exec[k].d = x /\ exec[k].pc \in Holding
            /\ k \in renewal /\ dispatches[x].lease = "Live"

\* A task that has lost its claim has lost it for good, or is about to finish.
Released(a) ==
    InFlight(a) /\ ~Holds(a) =>
        \/ Status(exec[a].d) \in Store!Terminal
        \/ exec[a].pc = "Finish" /\ Parked(exec[a].d)

\* A foreground submission keeps its dispatch to itself until it has claimed it.
Guarded(x) ==
    /\ submits[x].pc \in {"Inline", "Undo"} => (Parked(x) \/ Status(x) \in Over) /\ Free(x)
    /\ submits[x].pc = "UndoMark" \/ (submits[x].pc = "Rejected" /\ x \in Foreground) =>
          Status(x) \in Over

CalmInv ==
    Calm =>
        /\ \A x \in DispatchIds : Served(x) /\ Guarded(x)
        /\ \A a \in Tokens : Released(a)
        /\ \A a, b \in Tokens : InFlight(a) /\ InFlight(b) /\ exec[a].d = exec[b].d => a = b

ServiceInv == TypeInv /\ WorkerInv /\ FreshInv /\ CalmInv

(***************************************************************************)
(* What a store call does to the records                                   *)
(***************************************************************************)

\* The records are typed, whatever the call.
LEMMA RecordFacts ==
  ASSUME Proved!RecordInv
  PROVE  /\ dispatches \in [DispatchIds -> Store!Dispatch]
         /\ epoch \in [Threads -> Nat] /\ lastToken \in Nat
         /\ \A x \in DispatchIds :
               /\ Status(x) \in Store!Status /\ dispatches[x].claim_token \in Nat
               /\ dispatches[x].thread \in Threads
               /\ Status(x) # "Claimed" => dispatches[x].lease = "None"
               /\ Status(x) # "Claimed" => dispatches[x].claim_token = 0
<1>1. /\ dispatches \in [DispatchIds -> Store!Dispatch]
      /\ epoch \in [Threads -> Nat] /\ lastToken \in Nat
  BY SameRecords DEF Proved!RecordInv, Proved!TypeOK
<1>2. ASSUME NEW x \in DispatchIds
      PROVE  /\ Status(x) \in Store!Status /\ dispatches[x].claim_token \in Nat
             /\ dispatches[x].thread \in Threads
             /\ Status(x) # "Claimed" => dispatches[x].lease = "None"
             /\ Status(x) # "Claimed" => dispatches[x].claim_token = 0
  <2>1. dispatches[x] \in Proved!Dispatch /\ Proved!Sound(dispatches[x])
    BY <1>1, SameRecords DEF Proved!RecordInv, Proved!AllSound
  <2>2. /\ Status(x) \in Store!Status /\ dispatches[x].claim_token \in Nat
        /\ dispatches[x].thread \in Threads
    BY <2>1, SameRecords DEF Proved!Dispatch, Status
  <2>3. Status(x) # "Claimed" => dispatches[x].claim_token = 0 /\ dispatches[x].lease = "None"
    BY <2>1, StoreAssumed, Proved!TokenMeansClaimed DEF Status
  <2>4. QED
    BY <2>2, <2>3
<1>3. QED
  BY <1>1, <1>2

\* What a call may do to one record: nothing; make it terminal; leave it claimed
\* under the same token; claim it under a new one; put it back in the queue.
Kept(x) == dispatches'[x] = dispatches[x]

SameThread(x) == dispatches'[x].thread = dispatches[x].thread

Shut(x) ==
    /\ Status(x) # "Absent" /\ dispatches'[x].status \in Store!Terminal
    /\ dispatches'[x].claim_token = 0 /\ SameThread(x)

Stays(x) ==
    /\ Status(x) = "Claimed" /\ dispatches'[x].status = "Claimed" /\ SameThread(x)
    /\ dispatches'[x].claim_token = dispatches[x].claim_token
    /\ dispatches'[x].lease \in {dispatches[x].lease, "Live"}

Taken(x) ==
    /\ Status(x) = "Queued" /\ dispatches'[x].status = "Claimed" /\ SameThread(x)
    /\ dispatches'[x].claim_token = lastToken + 1 /\ dispatches'[x].lease = "Live"

Back(x) ==
    /\ Status(x) = "Claimed" /\ dispatches'[x].status = "Queued" /\ SameThread(x)
    /\ dispatches'[x].claim_token = 0

NextParked(x) == dispatches'[x].status = "Queued" /\ dispatches'[x].available = "Later"

Others(d) == \A x \in DispatchIds \ {d} : Kept(x)

\* Every call keeps the records sound.
LEMMA CallKeepsRecords ==
  ASSUME Proved!RecordInv, Proved!Next
  PROVE  Proved!RecordInv'
BY StoreAssumed, Proved!NextRecordInv

\* What the marks write, field by field.
LEMMA MarkFacts ==
  ASSUME NEW r \in Store!Dispatch, NEW n, NEW v
  PROVE  /\ Store!MarkClaimed(r, n).status = "Claimed"
         /\ Store!MarkClaimed(r, n).claim_token = n
         /\ Store!MarkClaimed(r, n).lease = "Live"
         /\ Store!MarkClaimed(r, n).thread = r.thread
         /\ Store!MarkSuperseded(r, n).status = "Superseded"
         /\ Store!MarkSuperseded(r, n).claim_token = 0
         /\ Store!MarkSuperseded(r, n).thread = r.thread
         /\ Store!MarkTerminal(r, v).status = v
         /\ Store!MarkTerminal(r, v).claim_token = 0
         /\ Store!MarkTerminal(r, v).thread = r.thread
<1>1. /\ Store!MarkClaimed(r, n).status = "Claimed"
      /\ Store!MarkClaimed(r, n).claim_token = n
      /\ Store!MarkClaimed(r, n).lease = "Live"
      /\ Store!MarkClaimed(r, n).thread = r.thread
  BY DEF Store!MarkClaimed, Store!Dispatch
<1>2. /\ Store!MarkSuperseded(r, n).status = "Superseded"
      /\ Store!MarkSuperseded(r, n).claim_token = 0
      /\ Store!MarkSuperseded(r, n).thread = r.thread
  BY DEF Store!MarkSuperseded, Store!Dispatch
<1>3. /\ Store!MarkTerminal(r, v).status = v
      /\ Store!MarkTerminal(r, v).claim_token = 0
      /\ Store!MarkTerminal(r, v).thread = r.thread
  BY DEF Store!MarkTerminal, Store!Dispatch
<1>4. QED
  BY <1>1, <1>2, <1>3

\* What a claim's own calls write over its record.
LEMMA ClaimedMarkFacts ==
  ASSUME NEW r \in Store!Dispatch, r.status = "Claimed", NEW s, NEW v \in {"Due", "Later"}
  PROVE  /\ \A m \in {Store!MarkStarted(r), Store!MarkResult(r, s)} :
               /\ m.status = "Claimed" /\ m.claim_token = r.claim_token
               /\ m.lease = r.lease /\ m.thread = r.thread
         /\ Store!MarkExtended(r).status = "Claimed"
         /\ Store!MarkExtended(r).claim_token = r.claim_token
         /\ Store!MarkExtended(r).lease = "Live"
         /\ Store!MarkExtended(r).thread = r.thread
         /\ \A m \in {Store!MarkNackResult(r, v), Store!MarkExpiredLease(r)} :
               /\ m.status \in {"Queued", "DeadLetter"} /\ m.claim_token = 0
               /\ m.thread = r.thread
         /\ LET m == Store!MarkNackResult(r, v)
            IN  m.status = "Queued" => m.available = v
<1>1. \A m \in {Store!MarkStarted(r), Store!MarkResult(r, s)} :
               /\ m.status = "Claimed" /\ m.claim_token = r.claim_token
               /\ m.lease = r.lease /\ m.thread = r.thread
  BY DEF Store!MarkStarted, Store!MarkResult, Store!Dispatch
<1>2. /\ Store!MarkExtended(r).status = "Claimed"
      /\ Store!MarkExtended(r).claim_token = r.claim_token
      /\ Store!MarkExtended(r).lease = "Live"
      /\ Store!MarkExtended(r).thread = r.thread
  BY DEF Store!MarkExtended, Store!Dispatch
<1>3. \A n, rs, w :
         /\ Store!Requeue(r, n, w).status = "Queued" /\ Store!Requeue(r, n, w).claim_token = 0
         /\ Store!Requeue(r, n, w).thread = r.thread
         /\ Store!Requeue(r, n, w).available = w
         /\ Store!Bury(r, n, rs, w).status = "DeadLetter"
         /\ Store!Bury(r, n, rs, w).claim_token = 0
         /\ Store!Bury(r, n, rs, w).thread = r.thread
  BY DEF Store!Requeue, Store!Bury, Store!Dispatch
<1>4. \A m \in {Store!MarkNackResult(r, v), Store!MarkExpiredLease(r)} :
               /\ m.status \in {"Queued", "DeadLetter"} /\ m.claim_token = 0
               /\ m.thread = r.thread
  BY <1>3 DEF Store!MarkNackResult, Store!MarkExpiredLease
<1>5. LET m == Store!MarkNackResult(r, v) IN m.status = "Queued" => m.available = v
  BY <1>3 DEF Store!MarkNackResult
<1>6. QED
  BY <1>1, <1>2, <1>4, <1>5

\* Nothing of a purged record is left.
LEMMA NoDispatchFacts ==
  Store!NoDispatch.status = "Absent" /\ Store!NoDispatch.claim_token = 0
BY DEF Store!NoDispatch, Store!NewDispatch

\* A superseded record is shut, and so is one that was marked terminal.
LEMMA SupersededIsShut ==
  ASSUME Proved!RecordInv, NEW x \in DispatchIds, Status(x) # "Absent", NEW n,
         dispatches'[x] = Store!MarkSuperseded(dispatches[x], n)
  PROVE  Shut(x)
<1>1. dispatches[x] \in Store!Dispatch
  BY RecordFacts
<1> DEFINE m == Store!MarkSuperseded(dispatches[x], n)
<1>2. m.status = "Superseded" /\ m.claim_token = 0 /\ m.thread = dispatches[x].thread
  BY <1>1, MarkFacts
<1>3. dispatches'[x] = m
  OBVIOUS
<1> HIDE DEF m
<1>4. QED
  BY <1>2, <1>3 DEF Shut, SameThread, Status, Store!Terminal

\* A record marked terminal is closed.
LEMMA TerminalIsShut ==
  ASSUME Proved!RecordInv, NEW x \in DispatchIds, Status(x) # "Absent", NEW s \in Store!Terminal,
         dispatches'[x] = Store!MarkTerminal(dispatches[x], s)
  PROVE  Shut(x)
<1>1. dispatches[x] \in Store!Dispatch
  BY RecordFacts
<1> DEFINE m == Store!MarkTerminal(dispatches[x], s)
<1>2. m.status = s /\ m.claim_token = 0 /\ m.thread = dispatches[x].thread
  BY <1>1, MarkFacts
<1>3. dispatches'[x] = m
  OBVIOUS
<1> HIDE DEF m
<1>4. QED
  BY <1>2, <1>3 DEF Shut, SameThread, Status

\* interrupt_detailed: what is queued may be superseded, nothing else changes.
LEMMA InterruptEffect ==
  ASSUME Proved!RecordInv, NEW t \in Threads, Store!Interrupt(t)
  PROVE  /\ Proved!Next /\ lastToken' = lastToken
         /\ \A x \in DispatchIds : Kept(x) \/ (Status(x) = "Queued" /\ Shut(x))
<1>1. Proved!Next
  BY SameSweeps DEF Proved!Next
<1>2. lastToken' = lastToken
  BY DEF Store!Interrupt
<1>3. ASSUME NEW x \in DispatchIds PROVE Kept(x) \/ (Status(x) = "Queued" /\ Shut(x))
  <2>1. CASE x \in Store!Of(t, "Queued") /\ dispatches[x].dispatch_epoch <= epoch[t]
    <3>1. dispatches'[x] = Store!MarkSuperseded(dispatches[x], dispatches[x].dispatch_epoch)
      BY <2>1 DEF Store!Interrupt
    <3>2. Status(x) = "Queued"
      BY <2>1 DEF Store!Of, Status
    <3>3. QED
      BY <3>1, <3>2, SupersededIsShut
  <2>2. CASE ~(x \in Store!Of(t, "Queued") /\ dispatches[x].dispatch_epoch <= epoch[t])
    BY <2>2 DEF Store!Interrupt, Kept
  <2>3. QED
    BY <2>1, <2>2
<1>4. QED
  BY <1>1, <1>2, <1>3

\* cancel: a queued dispatch is made terminal.
LEMMA CancelEffect ==
  ASSUME Proved!RecordInv, NEW d \in DispatchIds, Store!Cancel(d)
  PROVE  Proved!Next /\ lastToken' = lastToken /\ Others(d) /\ Shut(d) /\ Status(d) = "Queued"
<1>1. Proved!Next
  BY SameCalls DEF Proved!Next, Proved!CallOn
<1>2. dispatches'[d] = Store!MarkTerminal(dispatches[d], "Cancelled")
  BY RecordFacts DEF Store!Cancel
<1>3. lastToken' = lastToken /\ Others(d) /\ Status(d) = "Queued"
  BY RecordFacts DEF Store!Cancel, Others, Kept, Status
<1>4. Shut(d)
  BY <1>2, <1>3, TerminalIsShut DEF Store!Terminal
<1>5. QED
  BY <1>1, <1>3, <1>4

\* supersede_claimed, called by a claim's owner.
LEMMA SupersedeEffect ==
  ASSUME Proved!RecordInv, NEW d \in DispatchIds, NEW tok \in 1..lastToken,
         Store!SupersedeClaimed(d, tok)
  PROVE  Proved!Next /\ lastToken' = lastToken /\ Others(d) /\ Shut(d)
<1>1. Proved!Next
  BY SameCalls DEF Proved!Next, Proved!CallOn
<1> DEFINE e == epoch[dispatches[d].thread]
           m == IF dispatches[d].dispatch_epoch > e THEN dispatches[d].dispatch_epoch ELSE e
<1>2. dispatches'[d] = Store!MarkSuperseded(dispatches[d], m)
  BY RecordFacts DEF Store!SupersedeClaimed
<1>3. lastToken' = lastToken /\ Others(d) /\ Status(d) = "Claimed"
  BY RecordFacts DEF Store!SupersedeClaimed, Others, Kept, Status
<1> HIDE DEF m
<1>4. Shut(d)
  BY <1>2, <1>3, SupersededIsShut
<1>5. QED
  BY <1>1, <1>3, <1>4

\* A call fenced by a token: the claim is superseded, or the call has its way.
LEMMA FencedEffect ==
  ASSUME Proved!RecordInv, NEW d \in DispatchIds, NEW tok, NEW next,
         Status(d) = "Claimed", Store!Fenced(d, tok, next)
  PROVE  /\ lastToken' = lastToken /\ Others(d)
         /\ Store!Stale(d) => Shut(d)
         /\ ~Store!Stale(d) => dispatches'[d] = next
<1>1. lastToken' = lastToken /\ Others(d)
  BY RecordFacts DEF Store!Fenced, Others, Kept
<1>2. ASSUME Store!Stale(d) PROVE Shut(d)
  <2>1. dispatches'[d] = Store!MarkSuperseded(dispatches[d], epoch[dispatches[d].thread])
    BY <1>2, RecordFacts DEF Store!Fenced
  <2>2. QED
    BY <2>1, SupersededIsShut
<1>3. ~Store!Stale(d) => dispatches'[d] = next
  BY RecordFacts DEF Store!Fenced
<1>4. QED
  BY <1>1, <1>2, <1>3

\* ack and dead_letter end the dispatch.
LEMMA EndEffect ==
  ASSUME Proved!RecordInv, NEW d \in DispatchIds, NEW tok \in 1..lastToken,
         Status(d) = "Claimed", Store!Ack(d, tok) \/ Store!DeadLetter(d, tok)
  PROVE  Proved!Next /\ lastToken' = lastToken /\ Others(d) /\ Shut(d)
<1>1. Proved!Next
  BY SameCalls DEF Proved!Next, Proved!CallOn
<1>2. PICK s \in {"Acked", "DeadLetter"} :
         Store!Fenced(d, tok, Store!MarkTerminal(dispatches[d], s))
  BY DEF Store!Ack, Store!DeadLetter
<1>3. ASSUME dispatches'[d] = Store!MarkTerminal(dispatches[d], s) PROVE Shut(d)
  BY <1>3, TerminalIsShut DEF Store!Terminal
<1>4. QED
  BY <1>1, <1>2, <1>3, FencedEffect

\* nack with a delay: back to the queue and parked, or dead.
LEMMA NackEffect ==
  ASSUME Proved!RecordInv, NEW d \in DispatchIds, NEW tok \in 1..lastToken,
         Status(d) = "Claimed", Store!Nack(d, tok, "Later")
  PROVE  /\ Proved!Next /\ lastToken' = lastToken /\ Others(d)
         /\ Shut(d) \/ (Back(d) /\ NextParked(d))
<1>1. Proved!Next
  BY SameCalls DEF Proved!Next, Proved!CallOn
<1> DEFINE m == Store!MarkNackResult(dispatches[d], "Later")
<1>2. Store!Fenced(d, tok, m)
  BY DEF Store!Nack
<1>3. /\ m.status \in {"Queued", "DeadLetter"} /\ m.claim_token = 0
      /\ m.thread = dispatches[d].thread
      /\ m.status = "Queued" => m.available = "Later"
  BY RecordFacts, ClaimedMarkFacts DEF Status
<1> HIDE DEF m
<1>4. ASSUME dispatches'[d] = m PROVE Shut(d) \/ (Back(d) /\ NextParked(d))
  BY <1>3, <1>4 DEF Shut, SameThread, Status, Store!Terminal, Back, NextParked
<1>5. QED
  BY <1>1, <1>2, <1>4, FencedEffect

\* record_dispatch_start, record_run_result and extend_lease.
LEMMA HoldEffect ==
  ASSUME Proved!RecordInv, NEW d \in DispatchIds, NEW tok \in 1..lastToken,
         NEW s \in {"Waiting", "Done"},
         \/ Store!RecordDispatchStart(d, tok) \/ Store!RecordRunResult(d, tok, s)
         \/ Store!ExtendLease(d, tok)
  PROVE  /\ Proved!Next /\ lastToken' = lastToken /\ Others(d)
         /\ Shut(d) \/ (~Store!Stale(d) /\ Stays(d))
<1>1. Proved!Next
  BY SameCalls DEF Proved!Next, Proved!CallOn
<1>2. Status(d) = "Claimed"
  BY DEF Store!RecordDispatchStart, Store!RecordRunResult, Store!ExtendLease, Status
<1>3. PICK m \in {Store!MarkStarted(dispatches[d]), Store!MarkResult(dispatches[d], s),
                  Store!MarkExtended(dispatches[d])} : Store!Fenced(d, tok, m)
  BY DEF Store!RecordDispatchStart, Store!RecordRunResult, Store!ExtendLease
<1>4. /\ m.status = "Claimed" /\ m.claim_token = dispatches[d].claim_token
      /\ m.lease \in {dispatches[d].lease, "Live"} /\ m.thread = dispatches[d].thread
  BY <1>2, <1>3, RecordFacts, ClaimedMarkFacts DEF Status
<1>5. ASSUME dispatches'[d] = m PROVE Stays(d)
  BY <1>2, <1>4, <1>5 DEF Stays, SameThread, Status
<1>6. QED
  BY <1>1, <1>2, <1>3, <1>5, FencedEffect

\* enqueue: the record under the id is a fresh queued one.
LEMMA EnqueueEffect ==
  ASSUME Proved!RecordInv, NEW d \in DispatchIds, NEW v \in {"Due", "Later"},
         Store!Enqueue(d, ThreadOf[d], 0, "NoKey", 0, v, 0)
  PROVE  /\ Proved!RecordInv' /\ lastToken' = lastToken /\ Others(d)
         /\ Status(d) = "Absent" => Proved!Next
         /\ dispatches'[d].status = "Queued" /\ dispatches'[d].claim_token = 0
         /\ dispatches'[d].thread = ThreadOf[d] /\ dispatches'[d].available = v
<1>0. ThreadOf[d] \in Threads /\ epoch[ThreadOf[d]] \in Nat
  BY MailboxAssumption, RecordFacts
<1> DEFINE r == Proved!NewDispatch(ThreadOf[d], 0, "NoKey", 0, v, epoch[ThreadOf[d]], 0)
<1>1. Proved!Enqueue(d, ThreadOf[d], 0, "NoKey", 0, v, 0)
  BY SameCalls
<1>2. dispatches' = [dispatches EXCEPT ![d] = r] /\ UNCHANGED <<epoch, lastToken>>
  BY <1>1 DEF Proved!Enqueue
<1>3. r \in Proved!Dispatch
  BY <1>0, StoreAssumed, Proved!NewDispatchType
<1>4. Proved!Sound(r)
  BY <1>0, StoreAssumed, Proved!NewDispatchSound
<1>5. /\ r.status = "Queued" /\ r.claim_token = 0
      /\ r.thread = ThreadOf[d] /\ r.available = v
  BY DEF Proved!NewDispatch
<1> HIDE DEF r
<1>6. Proved!RecordInv'
  <2>1. lastToken' \in Nat
    BY <1>2, RecordFacts
  <2>2. QED
    BY <1>2, <1>3, <1>4, <2>1, StoreAssumed, Proved!UpdateOne
<1>7. Status(d) = "Absent" => Proved!Next
  BY <1>0, <1>1 DEF Proved!Next, Proved!CallOn, Proved!EnqueueNew, Status
<1>8. dispatches'[d] = r /\ Others(d)
  BY <1>2, RecordFacts DEF Others, Kept
<1>9. QED
  BY <1>2, <1>5, <1>6, <1>7, <1>8 DEF Status

\* claim_dispatch: a stale dispatch is superseded, another one is claimed.
LEMMA ClaimDispatchEffect ==
  ASSUME Proved!RecordInv, NEW d \in DispatchIds, Store!ClaimDispatch(d)
  PROVE  /\ Proved!Next /\ Others(d)
         /\ Store!Stale(d) => lastToken' = lastToken /\ Shut(d)
         /\ ~Store!Stale(d) =>
               lastToken' = lastToken + 1 /\ lastToken < MaxToken /\ Taken(d)
<1>1. Proved!Next
  BY SameCalls DEF Proved!Next, Proved!CallOn
<1>2. Others(d) /\ Status(d) = "Queued"
  BY RecordFacts DEF Store!ClaimDispatch, Others, Kept, Status
<1>3. ASSUME Store!Stale(d) PROVE lastToken' = lastToken /\ Shut(d)
  <2>1. dispatches'[d] = Store!MarkSuperseded(dispatches[d], epoch[dispatches[d].thread])
    BY <1>3, RecordFacts DEF Store!ClaimDispatch
  <2>2. Shut(d)
    BY <1>2, <2>1, SupersededIsShut
  <2>3. QED
    BY <1>3, <2>2 DEF Store!ClaimDispatch
<1>4. ASSUME ~Store!Stale(d)
      PROVE  lastToken' = lastToken + 1 /\ lastToken < MaxToken /\ Taken(d)
  <2>1. dispatches'[d] = Store!MarkClaimed(dispatches[d], lastToken + 1)
    BY <1>4, RecordFacts DEF Store!ClaimDispatch
  <2>2. Taken(d)
    BY <1>2, <2>1, RecordFacts, MarkFacts DEF Taken, SameThread, Status
  <2>3. QED
    BY <1>4, <2>2 DEF Store!ClaimDispatch
<1>5. QED
  BY <1>1, <1>2, <1>3, <1>4

\* claim with limit 1: nothing is claimed, or one dispatch of the thread that is
\* due; stale ones are superseded on the way.
LEMMA ClaimEffect ==
  ASSUME Proved!RecordInv, NEW t \in Threads, NEW S \in SUBSET DispatchIds, Store!Claim(t, S)
  PROVE  /\ Proved!Next
         /\ \A x \in DispatchIds \ S : Kept(x) \/ (Status(x) = "Queued" /\ Shut(x))
         /\ S = {} => lastToken' = lastToken
         /\ S # {} => /\ lastToken' = lastToken + 1 /\ lastToken < MaxToken
                      /\ \E d \in DispatchIds :
                            /\ S = {d} /\ Taken(d)
                            /\ dispatches[d].available = "Due" /\ dispatches[d].thread = t
<1>1. Proved!Next
  BY SameSweeps DEF Proved!Next
<1>2. ASSUME NEW x \in DispatchIds \ S
      PROVE  Kept(x) \/ (Status(x) = "Queued" /\ Shut(x))
  <2>1. CASE x \in Store!Of(t, "Queued") /\ Store!Stale(x)
    <3>1. dispatches'[x] = Store!MarkSuperseded(dispatches[x], epoch[t])
      BY <2>1 DEF Store!Claim
    <3>2. Status(x) = "Queued"
      BY <2>1 DEF Store!Of, Status
    <3>3. QED
      BY <3>1, <3>2, SupersededIsShut
  <2>2. CASE ~(x \in Store!Of(t, "Queued") /\ Store!Stale(x))
    BY <2>2 DEF Store!Claim, Kept
  <2>3. QED
    BY <2>1, <2>2
<1>3. S = {} => lastToken' = lastToken
  BY DEF Store!Claim
<1>4. ASSUME S # {}
      PROVE  /\ lastToken' = lastToken + 1 /\ lastToken < MaxToken
             /\ \E d \in DispatchIds :
                   /\ S = {d} /\ Taken(d)
                   /\ dispatches[d].available = "Due" /\ dispatches[d].thread = t
  <2>1. S \in Store!Batches(t) /\ lastToken' = lastToken + 1 /\ lastToken < MaxToken
    BY <1>4 DEF Store!Claim
  <2>2. S \subseteq Store!Eligible(t) /\ Store!Cardinality(S) <= 1
    BY <2>1 DEF Store!Batches
  <2>3. Cardinality(S) <= 1
    BY <2>2 DEF Store!Cardinality, Cardinality
  <2>4. IsFiniteSet(S)
    BY MailboxAssumption, FS_Subset
  <2>5. Cardinality(S) = 1
    BY <1>4, <2>3, <2>4, FS_EmptySet, FS_CardinalityType
  <2>6. PICK d \in S : S = {d}
    BY <2>4, <2>5, FS_Singleton
  <2>7. /\ d \in DispatchIds /\ Status(d) = "Queued"
        /\ dispatches[d].available = "Due" /\ dispatches[d].thread = t
    BY <2>2 DEF Store!Eligible, Store!Of, Status
  <2>8. dispatches'[d] = Store!MarkClaimed(dispatches[d], lastToken + 1)
    BY <2>7 DEF Store!Claim
  <2>9. Taken(d)
    BY <2>7, <2>8, RecordFacts, MarkFacts DEF Taken, SameThread, Status
  <2>10. QED
    BY <2>1, <2>6, <2>7, <2>9
<1>5. QED
  BY <1>1, <1>2, <1>3, <1>4

\* reclaim_expired_leases, over every expired claim there is.
LEMMA ReclaimEffect ==
  ASSUME Proved!RecordInv, Store!ReclaimExpiredLeases(Expired)
  PROVE  /\ Proved!Next /\ lastToken' = lastToken
         /\ \A x \in DispatchIds : Kept(x) \/ Shut(x) \/ Back(x)
         /\ \A x \in DispatchIds : x \notin Expired => Kept(x)
<1>1. Proved!Next
  <2>1. Expired \in SUBSET DispatchIds
    BY DEF Expired
  <2>2. QED
    BY <2>1, SameSweeps DEF Proved!Next
<1>2. lastToken' = lastToken
  BY DEF Store!ReclaimExpiredLeases
<1>3. ASSUME NEW x \in DispatchIds, x \notin Expired PROVE Kept(x)
  BY <1>3 DEF Store!ReclaimExpiredLeases, Kept
<1>4. ASSUME NEW x \in DispatchIds, x \in Expired PROVE Shut(x) \/ Back(x)
  <2>0. Status(x) = "Claimed" /\ dispatches[x] \in Store!Dispatch
    BY <1>4, RecordFacts DEF Expired
  <2>1. CASE Store!Stale(x)
    <3>1. dispatches'[x] = Store!MarkSuperseded(dispatches[x], epoch[dispatches[x].thread])
      BY <1>4, <2>1 DEF Store!ReclaimExpiredLeases
    <3>2. QED
      BY <2>0, <3>1, SupersededIsShut
  <2>2. CASE ~Store!Stale(x)
    <3> DEFINE m == Store!MarkExpiredLease(dispatches[x])
    <3>1. dispatches'[x] = m
      BY <1>4, <2>2 DEF Store!ReclaimExpiredLeases
    <3>2. m.status \in {"Queued", "DeadLetter"} /\ m.claim_token = 0
          /\ m.thread = dispatches[x].thread
      BY <2>0, ClaimedMarkFacts DEF Status
    <3> HIDE DEF m
    <3>3. QED
      BY <2>0, <3>1, <3>2 DEF Shut, Back, SameThread, Status, Store!Terminal
  <2>3. QED
    BY <2>1, <2>2
<1>5. QED
  BY <1>1, <1>2, <1>3, <1>4

\* purge_terminal, of one dispatch.
LEMMA PurgeEffect ==
  ASSUME Proved!RecordInv, NEW d \in DispatchIds, Store!PurgeTerminal({d})
  PROVE  /\ Proved!Next /\ lastToken' = lastToken /\ Others(d)
         /\ Status(d) \in Store!Terminal /\ dispatches'[d].status = "Absent"
         /\ dispatches'[d].claim_token = 0
<1>1. Proved!Next
  <2>1. {d} \in SUBSET DispatchIds
    OBVIOUS
  <2>2. QED
    BY <2>1, SameSweeps DEF Proved!Next
<1>2. dispatches'[d] = Store!NoDispatch
  BY DEF Store!PurgeTerminal
<1>3. dispatches'[d].status = "Absent" /\ dispatches'[d].claim_token = 0
  BY <1>2, NoDispatchFacts DEF Status
<1>4. lastToken' = lastToken /\ Others(d) /\ Status(d) \in Store!Terminal
  BY DEF Store!PurgeTerminal, Others, Kept, Status
<1>5. QED
  BY <1>1, <1>3, <1>4

\* Time: a delay passes, a lease runs out.
LEMMA TimeEffect ==
  ASSUME Proved!RecordInv, NEW d \in DispatchIds, Store!Elapse(d) \/ Store!Expire(d)
  PROVE  /\ Proved!Next /\ lastToken' = lastToken /\ Others(d)
         /\ SameThread(d) /\ dispatches'[d].claim_token = dispatches[d].claim_token
         /\ dispatches'[d].status = Status(d)
         /\ Store!Elapse(d) => Status(d) = "Queued"
         /\ Store!Expire(d) => Status(d) = "Claimed" /\ dispatches[d].lease = "Live"
<1>1. Proved!Next
  BY SameSweeps DEF Proved!Next
<1>2. dispatches[d] \in Store!Dispatch /\ dispatches \in [DispatchIds -> Store!Dispatch]
  BY RecordFacts
<1>3. CASE Store!Elapse(d)
  <2>1. dispatches'[d] = [dispatches[d] EXCEPT !.available = "Due"]
    BY <1>2, <1>3 DEF Store!Elapse
  <2>2. /\ SameThread(d) /\ dispatches'[d].claim_token = dispatches[d].claim_token
        /\ dispatches'[d].status = Status(d)
    BY <1>2, <2>1 DEF SameThread, Status, Store!Dispatch
  <2>3. lastToken' = lastToken /\ Others(d) /\ Status(d) = "Queued"
    BY <1>2, <1>3 DEF Store!Elapse, Others, Kept, Status
  <2>4. ~Store!Expire(d)
    BY <2>3, RecordFacts DEF Store!Expire
  <2>5. QED
    BY <1>1, <2>2, <2>3, <2>4
<1>4. CASE Store!Expire(d)
  <2>1. dispatches'[d] = [dispatches[d] EXCEPT !.lease = "Expired"]
    BY <1>2, <1>4 DEF Store!Expire
  <2>2. /\ SameThread(d) /\ dispatches'[d].claim_token = dispatches[d].claim_token
        /\ dispatches'[d].status = Status(d)
    BY <1>2, <2>1 DEF SameThread, Status, Store!Dispatch
  <2>3. lastToken' = lastToken /\ Others(d) /\ dispatches[d].lease = "Live"
    BY <1>2, <1>4 DEF Store!Expire, Others, Kept
  <2>4. Status(d) = "Claimed"
    BY <2>3, RecordFacts
  <2>5. ~Store!Elapse(d)
    BY <2>4 DEF Store!Elapse, Status
  <2>6. QED
    BY <1>1, <2>2, <2>3, <2>4, <2>5
<1>5. QED
  BY <1>3, <1>4

(***************************************************************************)
(* What the actions of the service do to the store                         *)
(***************************************************************************)

\* A task that holds its claim calls the store with a token that was issued.
LEMMA HolderFacts ==
  ASSUME TypeInv, NEW tok \in Tokens
  PROVE  /\ exec[tok].d \in DispatchIds
         /\ Holds(tok) => tok \in 1..lastToken /\ Status(exec[tok].d) = "Claimed"
<1>1. exec[tok].d \in DispatchIds
  BY DEF TypeInv, TaskType, Tasks
<1>2. ASSUME Holds(tok) PROVE tok \in 1..lastToken /\ Status(exec[tok].d) = "Claimed"
  <2>1. tok \in Nat /\ tok >= 1 /\ lastToken \in Nat
    BY MailboxAssumption, RecordFacts DEF TypeInv, Tokens
  <2>2. dispatches[exec[tok].d].claim_token <= lastToken
    BY <1>1 DEF TypeInv, TokenInv
  <2>3. tok <= lastToken
    BY <1>2, <2>2 DEF Holds
  <2>4. QED
    BY <1>2, <2>1, <2>3 DEF Holds
<1>3. QED
  BY <1>1, <1>2

\* A call made by a task for its dispatch d.
TaskCall(d) == Proved!Next /\ lastToken' = lastToken /\ Others(d) /\ d \in DispatchIds

\* The task's epoch check leaves the store alone or supersedes its dispatch.
LEMMA CheckEpochEffect ==
  ASSUME TypeInv, NEW tok \in Tokens, CheckEpoch(tok)
  PROVE  LET d == exec[tok].d
         IN  \/ UNCHANGED storeVars /\ (Holds(tok) => ~Store!Stale(d) /\ Status(d) # "Superseded")
             \/ Holds(tok) /\ TaskCall(d) /\ Shut(d)
<1> DEFINE d == exec[tok].d
           stale == Store!Stale(d) \/ Status(d) = "Superseded"
<1>1. CASE stale /\ Holds(tok)
  <2>1. Store!SupersedeClaimed(d, tok)
    BY <1>1 DEF CheckEpoch
  <2>2. QED
    BY <1>1, <2>1, HolderFacts, SupersedeEffect DEF TypeInv, TaskCall
<1>2. CASE ~(stale /\ Holds(tok))
  BY <1>2 DEF CheckEpoch
<1>3. QED
  BY <1>1, <1>2

\* record_dispatch_start: a lost claim, an interrupt that came first, or a start.
LEMMA StartEffect ==
  ASSUME TypeInv, NEW tok \in Tokens, Start(tok)
  PROVE  LET d == exec[tok].d
         IN  \/ UNCHANGED storeVars /\ ~Holds(tok)
             \/ Holds(tok) /\ TaskCall(d) /\ (Shut(d) \/ (Granted(tok) /\ Stays(d)))
<1> DEFINE d == exec[tok].d
<1>1. CASE Holds(tok)
  <2>1. Store!RecordDispatchStart(d, tok)
    BY <1>1 DEF Start
  <2>2. QED
    BY <1>1, <2>1, HolderFacts, HoldEffect DEF TypeInv, TaskCall, Granted
<1>2. CASE ~Holds(tok)
  BY <1>2 DEF Start
<1>3. QED
  BY <1>1, <1>2

\* record_run_result: a lost claim, an interrupt that came first, or the result.
LEMMA ResultEffect ==
  ASSUME TypeInv, NEW tok \in Tokens, Result(tok)
  PROVE  LET d == exec[tok].d
         IN  \/ UNCHANGED storeVars /\ ~Holds(tok)
             \/ Holds(tok) /\ TaskCall(d) /\ (Shut(d) \/ (Granted(tok) /\ Stays(d)))
<1> DEFINE d == exec[tok].d
<1>1. CASE Holds(tok)
  <2>1. PICK s \in {"Waiting", "Done"} : Store!RecordRunResult(d, tok, s)
    BY <1>1 DEF Result
  <2>2. QED
    BY <1>1, <2>1, HolderFacts, HoldEffect DEF TypeInv, TaskCall, Granted
<1>2. CASE ~Holds(tok)
  BY <1>2 DEF Result
<1>3. QED
  BY <1>1, <1>2

\* ack, nack and dead_letter close the dispatch or queue it for a retry.
LEMMA SettleEffect ==
  ASSUME TypeInv, NEW tok \in Tokens, Settle(tok)
  PROVE  LET d == exec[tok].d
         IN  \/ UNCHANGED storeVars /\ ~Holds(tok)
             \/ Holds(tok) /\ TaskCall(d) /\
                   (Shut(d) \/ (Back(d) /\ NextParked(d) /\ exec[tok].out = "Transient"))
<1> DEFINE d == exec[tok].d
<1>1. CASE Holds(tok)
  <2>1. \/ exec[tok].out = "Transient" /\ Store!Nack(d, tok, "Later")
        \/ Store!Ack(d, tok) \/ Store!DeadLetter(d, tok)
    <3>1. CASE exec[tok].out = "Transient"
      BY <1>1, <3>1 DEF Settle
    <3>2. CASE exec[tok].out = "Permanent"
      BY <1>1, <3>2 DEF Settle
    <3>3. CASE exec[tok].out \notin {"Transient", "Permanent"}
      BY <1>1, <3>3 DEF Settle
    <3>4. QED
      BY <3>1, <3>2, <3>3
  <2>2. CASE exec[tok].out = "Transient" /\ Store!Nack(d, tok, "Later")
    <3>1. d \in DispatchIds /\ tok \in 1..lastToken /\ Status(d) = "Claimed"
      BY <1>1, HolderFacts
    <3>2. Proved!RecordInv
      BY DEF TypeInv
    <3>3. /\ Proved!Next /\ lastToken' = lastToken /\ Others(d)
          /\ Shut(d) \/ (Back(d) /\ NextParked(d))
      BY <2>2, <3>1, <3>2, NackEffect
    <3>4. QED
      BY <1>1, <2>2, <3>1, <3>3 DEF TaskCall
  <2>3. CASE Store!Ack(d, tok) \/ Store!DeadLetter(d, tok)
    BY <1>1, <2>3, HolderFacts, EndEffect DEF TypeInv, TaskCall
  <2>4. QED
    BY <2>1, <2>2, <2>3
<1>2. CASE ~Holds(tok)
  BY <1>2 DEF Settle
<1>3. QED
  BY <1>1, <1>2

\* The second ack closes the dispatch or leaves it alone.
LEMMA AckAgainEffect ==
  ASSUME TypeInv, NEW tok \in Tokens, AckAgain(tok)
  PROVE  UNCHANGED storeVars \/ (Holds(tok) /\ TaskCall(exec[tok].d) /\ Shut(exec[tok].d))
<1> DEFINE d == exec[tok].d
<1>1. CASE Holds(tok) /\ dispatches[d].run_status = "Done"
  <2>1. Store!Ack(d, tok)
    BY <1>1 DEF AckAgain
  <2>2. QED
    BY <1>1, <2>1, HolderFacts, EndEffect DEF TypeInv, TaskCall
<1>2. CASE ~(Holds(tok) /\ dispatches[d].run_status = "Done")
  BY <1>2 DEF AckAgain
<1>3. QED
  BY <1>1, <1>2

\* extend_lease keeps a claim that is granted, and closes one that is not.
LEMMA RenewEffect ==
  ASSUME TypeInv, NEW tok \in Tokens, Renew(tok)
  PROVE  LET d == exec[tok].d
         IN  \/ UNCHANGED storeVars /\ ~Holds(tok)
             \/ Holds(tok) /\ TaskCall(d) /\ (Shut(d) \/ (Granted(tok) /\ Stays(d)))
<1> DEFINE d == exec[tok].d
<1>1. CASE Holds(tok)
  <2>1. Store!ExtendLease(d, tok)
    BY <1>1 DEF Renew
  <2>2. "Done" \in {"Waiting", "Done"}
    OBVIOUS
  <2>3. QED
    BY <1>1, <2>1, <2>2, HolderFacts, HoldEffect DEF TypeInv, TaskCall, Granted
<1>2. CASE ~Holds(tok)
  BY <1>2 DEF Renew
<1>3. QED
  BY <1>1, <1>2

\* submit's inline claim.
LEMMA InlineEffect ==
  ASSUME TypeInv, NEW d \in DispatchIds, SubmitInline(d)
  PROVE  \/ /\ UNCHANGED <<storeVars, execVars>> /\ Goto(d, "Undo")
         \/ /\ Proved!Next /\ lastToken' = lastToken /\ Others(d) /\ Shut(d)
            /\ UNCHANGED execVars /\ Goto(d, "Undo")
         \/ /\ Proved!Next /\ lastToken' = lastToken + 1 /\ lastToken < MaxToken
            /\ Others(d) /\ Taken(d) /\ Spawn(d) /\ Goto(d, "Accepted")
<1> DEFINE free == Status(d) = "Queued" /\ Store!Of(ThreadOf[d], "Claimed") = {}
<1>1. CASE Status(d) = "Queued" /\ Store!Stale(d)
  <2>1. Store!ClaimDispatch(d)
    BY <1>1 DEF SubmitInline
  <2>2. UNCHANGED execVars /\ Goto(d, "Undo")
    BY <1>1 DEF SubmitInline
  <2>3. QED
    BY <1>1, <2>1, <2>2, ClaimDispatchEffect DEF TypeInv
<1>2. CASE free /\ ~Store!Stale(d)
  <2>1. Store!ClaimDispatch(d)
    BY <1>2 DEF SubmitInline
  <2>2. Spawn(d) /\ Goto(d, "Accepted")
    BY <1>2 DEF SubmitInline
  <2>3. QED
    BY <1>2, <2>1, <2>2, ClaimDispatchEffect DEF TypeInv
<1>3. CASE ~(Status(d) = "Queued" /\ Store!Stale(d)) /\ ~(free /\ ~Store!Stale(d))
  <2>1. UNCHANGED storeVars
    BY <1>3 DEF SubmitInline
  <2>2. UNCHANGED execVars /\ Goto(d, "Undo")
    BY <1>3 DEF SubmitInline
  <2>3. QED
    BY <2>1, <2>2
<1>4. QED
  BY <1>1, <1>2, <1>3

\* try_dispatch_next's claim.
LEMMA WakeClaimEffect ==
  ASSUME TypeInv, NEW t \in Threads, WakeClaim(t)
  PROVE  /\ Proved!Next
         /\ \/ /\ lastToken' = lastToken /\ UNCHANGED execVars
               /\ wakes' = [wakes EXCEPT ![t].claim = @ - 1, ![t].revert = @ + 1]
               /\ \A x \in DispatchIds : Kept(x) \/ (Status(x) = "Queued" /\ Shut(x))
            \/ /\ lastToken' = lastToken + 1 /\ lastToken < MaxToken
               /\ wakes' = [wakes EXCEPT ![t].claim = @ - 1]
               /\ \E d \in DispatchIds :
                     /\ Taken(d) /\ Spawn(d)
                     /\ dispatches[d].available = "Due" /\ dispatches[d].thread = t
                     /\ \A x \in DispatchIds \ {d} :
                           Kept(x) \/ (Status(x) = "Queued" /\ Shut(x))
<1>1. PICK S \in SUBSET DispatchIds :
         /\ Store!Claim(t, S)
         /\ IF S = {}
            THEN /\ wakes' = [wakes EXCEPT ![t].claim = @ - 1, ![t].revert = @ + 1]
                 /\ UNCHANGED execVars
            ELSE /\ wakes' = [wakes EXCEPT ![t].claim = @ - 1]
                 /\ \E d \in S : Spawn(d)
  BY DEF WakeClaim
<1>2. /\ Proved!Next
      /\ \A x \in DispatchIds \ S : Kept(x) \/ (Status(x) = "Queued" /\ Shut(x))
      /\ S = {} => lastToken' = lastToken
      /\ S # {} => /\ lastToken' = lastToken + 1 /\ lastToken < MaxToken
                   /\ \E d \in DispatchIds :
                         /\ S = {d} /\ Taken(d)
                         /\ dispatches[d].available = "Due" /\ dispatches[d].thread = t
  BY <1>1, ClaimEffect DEF TypeInv
<1>3. CASE S = {}
  BY <1>1, <1>2, <1>3
<1>4. CASE S # {}
  <2>1. PICK d \in DispatchIds :
           /\ S = {d} /\ Taken(d)
           /\ dispatches[d].available = "Due" /\ dispatches[d].thread = t
    BY <1>2, <1>4
  <2>2. Spawn(d) /\ wakes' = [wakes EXCEPT ![t].claim = @ - 1]
    BY <1>1, <1>4, <2>1
  <2>3. \A x \in DispatchIds \ {d} : Kept(x) \/ (Status(x) = "Queued" /\ Shut(x))
    BY <1>2, <2>1
  <2>4. QED
    BY <1>2, <1>4, <2>1, <2>2, <2>3
<1>5. QED
  BY <1>3, <1>4

(***************************************************************************)
(* Every step keeps the records sound, and each record with its thread     *)
(***************************************************************************)

Ours(x) ==
    /\ dispatches'[x].claim_token <= lastToken'
    /\ dispatches'[x].status # "Absent" => dispatches'[x].thread = ThreadOf[x]

StoreKept ==
    /\ Proved!RecordInv' /\ lastToken' \in {lastToken, lastToken + 1} /\ lastToken' <= MaxToken
    /\ \A x \in DispatchIds : Ours(x)

\* A change of one record leaves it with its thread and an issued token.
LEMMA ChangeIsOurs ==
  ASSUME TypeInv, NEW x \in DispatchIds, lastToken' \in {lastToken, lastToken + 1},
         \/ Kept(x) \/ Shut(x) \/ Stays(x) \/ Back(x)
         \/ Taken(x) /\ lastToken' = lastToken + 1
  PROVE  Ours(x)
<1>1. /\ lastToken \in Nat /\ dispatches[x].claim_token \in Nat
      /\ dispatches[x].claim_token <= lastToken
      /\ Status(x) # "Absent" => dispatches[x].thread = ThreadOf[x]
  BY RecordFacts DEF TypeInv, TokenInv
<1>2. /\ Status(x) # "Absent" => SameThread(x)
      /\ dispatches'[x].claim_token \in {0, dispatches[x].claim_token, lastToken'}
      /\ dispatches'[x].status # "Absent" => Status(x) # "Absent"
  BY <1>1 DEF Kept, Shut, Stays, Back, Taken, SameThread, Status
<1>3. dispatches'[x].claim_token <= lastToken'
  BY <1>1, <1>2
<1>4. QED
  BY <1>1, <1>2, <1>3 DEF Ours, SameThread

\* Which actions touch the store.
LEMMA StoreActions ==
  ASSUME Next
  PROVE  \/ UNCHANGED storeVars
         \/ \E d \in DispatchIds :
               \/ SubmitInterrupt(d) \/ SubmitEnqueue(d) \/ SubmitInline(d) \/ SubmitUndo(d)
               \/ Expire(d) \/ Elapse(d) \/ Purge(d) \/ CancelDispatch(d)
         \/ \E t \in Threads : WakeClaim(t) \/ InterruptThread(t)
         \/ \E tok \in Tokens :
               \/ CheckEpoch(tok) \/ Start(tok) \/ Result(tok) \/ Settle(tok)
               \/ AckAgain(tok) \/ Renew(tok)
         \/ SweepReclaim \/ RecoverReclaim \/ RecoverEnqueue
<1>1. ASSUME NEW d \in DispatchIds,
             \/ SubmitStep(d) \/ SubmitInterruptFault(d) \/ SubmitFault(d)
             \/ Reconcile(d) \/ ControlMark(d)
      PROVE  \/ UNCHANGED storeVars
             \/ SubmitInterrupt(d) \/ SubmitEnqueue(d) \/ SubmitInline(d) \/ SubmitUndo(d)
  BY <1>1 DEF SubmitStep, SubmitStop, SubmitMark, SubmitCancel, SubmitRelease, SubmitPrepare,
              SubmitWake, SubmitUndoMark, SubmitInterruptFault, SubmitFault, Reconcile,
              ControlMark
<1>2. ASSUME NEW t \in Threads,
             WakeStep(t) \/ WakeFault(t) \/ GcScan(t) \/ GcRemove(t) \/ ControlStop(t)
      PROVE  UNCHANGED storeVars \/ WakeClaim(t)
  BY <1>2 DEF WakeStep, WakeTry, WakeRevert, WakeFault, GcScan, GcRemove, ControlStop
<1>3. ASSUME NEW tok \in Tokens, ExecStep(tok) \/ RunStep(tok) \/ Fault(tok) \/ RenewFault(tok)
      PROVE  \/ UNCHANGED storeVars
             \/ CheckEpoch(tok) \/ Start(tok) \/ Result(tok) \/ Settle(tok) \/ AckAgain(tok)
  BY <1>3 DEF ExecStep, Install, Check, Enter, RunEnd, MarkRun, Finish, RunStep, Fault,
              RenewFault
<1>4. ASSUME SweepOne \/ RecoverStep \/ Crash
      PROVE  UNCHANGED storeVars \/ RecoverReclaim \/ RecoverEnqueue
  BY <1>4 DEF SweepOne, RecoverStep, RecoverWake, RecoverList, RecoverLoad, RecoverFinish, Crash
<1>5. QED
  BY <1>1, <1>2, <1>3, <1>4 DEF Next

\* A call that may close, hold or put back records, and claims nothing.
LEMMA PlainCallKeeps ==
  ASSUME TypeInv, Proved!Next, lastToken' = lastToken,
         \A x \in DispatchIds : Kept(x) \/ Shut(x) \/ Stays(x) \/ Back(x) \/ Ours(x)
  PROVE  StoreKept
<1>1. Proved!RecordInv' /\ lastToken' <= MaxToken
  BY CallKeepsRecords DEF TypeInv, TokenInv
<1>2. ASSUME NEW x \in DispatchIds PROVE Ours(x)
  BY ChangeIsOurs
<1>3. QED
  BY <1>1, <1>2 DEF StoreKept

\* A call that claims one dispatch.
LEMMA ClaimKeeps ==
  ASSUME TypeInv, Proved!Next, lastToken' = lastToken + 1, lastToken < MaxToken,
         \A x \in DispatchIds : Kept(x) \/ Shut(x) \/ Taken(x)
  PROVE  StoreKept
<1>1. Proved!RecordInv'
  BY CallKeepsRecords DEF TypeInv
<1>2. lastToken' <= MaxToken
  BY MailboxAssumption, RecordFacts DEF TypeInv
<1>3. ASSUME NEW x \in DispatchIds PROVE Ours(x)
  BY ChangeIsOurs
<1>4. QED
  BY <1>1, <1>2, <1>3 DEF StoreKept

\* An enqueue, whatever was stored under the id.
LEMMA EnqueueKeeps ==
  ASSUME TypeInv, NEW d \in DispatchIds, NEW v \in {"Due", "Later"},
         Store!Enqueue(d, ThreadOf[d], 0, "NoKey", 0, v, 0)
  PROVE  StoreKept /\ (Status(d) = "Absent" => Proved!Next)
<1>1. /\ Proved!RecordInv' /\ lastToken' = lastToken /\ Others(d)
      /\ Status(d) = "Absent" => Proved!Next
      /\ dispatches'[d].claim_token = 0 /\ dispatches'[d].thread = ThreadOf[d]
  BY EnqueueEffect DEF TypeInv
<1>2. lastToken \in Nat /\ lastToken <= MaxToken
  BY RecordFacts DEF TypeInv, TokenInv
<1>3. Ours(d)
  BY <1>1, <1>2 DEF Ours
<1>4. ASSUME NEW x \in DispatchIds \ {d} PROVE Ours(x)
  BY <1>1, ChangeIsOurs DEF Others
<1>5. QED
  BY <1>1, <1>2, <1>3, <1>4 DEF StoreKept

\* Every step of the service is a step of the store or leaves it alone, but for
\* an enqueue under an id that is taken already.
LEMMA ServiceOnStore ==
  ASSUME TypeInv, Next
  PROVE  /\ StoreKept
         /\ \/ UNCHANGED storeVars \/ Proved!Next
            \/ \E d \in DispatchIds : SubmitEnqueue(d) /\ Status(d) # "Absent"
            \/ RecoverEnqueue
<1>0. /\ lastToken \in Nat /\ lastToken <= MaxToken /\ Proved!RecordInv
      /\ \A x \in DispatchIds : dispatches[x].claim_token <= lastToken
      /\ \A x \in DispatchIds : Status(x) # "Absent" => dispatches[x].thread = ThreadOf[x]
  BY RecordFacts DEF TypeInv, TokenInv
<1>1. CASE UNCHANGED storeVars
  <2>1. Proved!vars' = Proved!vars
    BY <1>1 DEF storeVars, Proved!vars
  <2>2. Proved!RecordInv'
    BY <1>0, <2>1, StoreAssumed, Proved!NextRecordInv
  <2>3. lastToken' = lastToken /\ \A x \in DispatchIds : Kept(x)
    BY <1>1 DEF storeVars, Kept
  <2>4. ASSUME NEW x \in DispatchIds PROVE Ours(x)
    BY <2>3, ChangeIsOurs
  <2>5. QED
    BY <1>0, <1>1, <2>2, <2>3, <2>4 DEF StoreKept
<1>2. ASSUME NEW t \in Threads, Store!Interrupt(t)
      PROVE  StoreKept /\ Proved!Next
  <2>1. /\ Proved!Next /\ lastToken' = lastToken
        /\ \A x \in DispatchIds : Kept(x) \/ Shut(x)
    BY <1>2, <1>0, InterruptEffect
  <2>2. QED
    BY <2>1, PlainCallKeeps
<1>3. ASSUME NEW d \in DispatchIds, Proved!Next, lastToken' = lastToken, Others(d),
             Shut(d) \/ Stays(d) \/ Back(d)
      PROVE  StoreKept /\ Proved!Next
  <2>1. \A x \in DispatchIds : Kept(x) \/ Shut(x) \/ Stays(x) \/ Back(x)
    BY <1>3 DEF Others
  <2>2. QED
    BY <1>3, <2>1, PlainCallKeeps
<1>4. ASSUME NEW d \in DispatchIds, SubmitInterrupt(d) PROVE StoreKept /\ Proved!Next
  <2>1. Store!Interrupt(ThreadOf[d]) /\ ThreadOf[d] \in Threads
    BY <1>4, MailboxAssumption DEF SubmitInterrupt
  <2>2. QED
    BY <2>1, <1>2
<1>5. ASSUME NEW d \in DispatchIds, SubmitEnqueue(d)
      PROVE  StoreKept /\ (Status(d) = "Absent" => Proved!Next)
  <2>1. PICK v \in {"Due", "Later"} : Store!Enqueue(d, ThreadOf[d], 0, "NoKey", 0, v, 0)
    BY <1>5 DEF SubmitEnqueue
  <2>2. QED
    BY <2>1, EnqueueKeeps
<1>6. ASSUME NEW d \in DispatchIds, SubmitInline(d)
      PROVE  StoreKept /\ (UNCHANGED storeVars \/ Proved!Next)
  <2>1. CASE Proved!Next /\ lastToken' = lastToken /\ Others(d) /\ Shut(d)
    BY <1>3, <2>1
  <2>2. CASE /\ Proved!Next /\ lastToken' = lastToken + 1 /\ lastToken < MaxToken
             /\ Others(d) /\ Taken(d)
    <3>1. \A x \in DispatchIds : Kept(x) \/ Shut(x) \/ Taken(x)
      BY <2>2 DEF Others
    <3>2. QED
      BY <2>2, <3>1, ClaimKeeps
  <2>3. CASE UNCHANGED storeVars
    BY <1>1, <2>3
  <2>4. QED
    BY <1>6, <2>1, <2>2, <2>3, InlineEffect
<1>7. ASSUME NEW d \in DispatchIds, SubmitUndo(d) \/ CancelDispatch(d)
      PROVE  StoreKept /\ (UNCHANGED storeVars \/ Proved!Next)
  <2>1. Store!Cancel(d) \/ UNCHANGED storeVars
    BY <1>7 DEF SubmitUndo, CancelDispatch
  <2>2. CASE Store!Cancel(d)
    BY <2>2, <1>3, <1>0, CancelEffect
  <2>3. QED
    BY <1>1, <2>1, <2>2
<1>8. ASSUME NEW d \in DispatchIds, Expire(d) \/ Elapse(d) PROVE StoreKept /\ Proved!Next
  <2>1. Store!Elapse(d) \/ Store!Expire(d)
    BY <1>8 DEF Expire, Elapse
  <2>2. /\ Proved!Next /\ lastToken' = lastToken /\ Others(d)
        /\ SameThread(d) /\ dispatches'[d].claim_token = dispatches[d].claim_token
        /\ dispatches'[d].status = Status(d)
    BY <2>1, <1>0, TimeEffect
  <2>3. Ours(d)
    BY <1>0, <2>2 DEF Ours, SameThread
  <2>4. QED
    BY <2>2, <2>3, PlainCallKeeps DEF Others
<1>9. ASSUME NEW d \in DispatchIds, Purge(d) PROVE StoreKept /\ Proved!Next
  <2>1. /\ Proved!Next /\ lastToken' = lastToken /\ Others(d)
        /\ dispatches'[d].status = "Absent" /\ dispatches'[d].claim_token = 0
    BY <1>9, <1>0, PurgeEffect DEF Purge
  <2>2. Ours(d)
    BY <1>0, <2>1 DEF Ours
  <2>3. QED
    BY <2>1, <2>2, PlainCallKeeps DEF Others
<1>10. ASSUME NEW t \in Threads, WakeClaim(t) PROVE StoreKept /\ Proved!Next
  <2>1. CASE lastToken' = lastToken /\ \A x \in DispatchIds : Kept(x) \/ Shut(x)
    BY <1>10, <2>1, WakeClaimEffect, PlainCallKeeps
  <2>2. CASE /\ lastToken' = lastToken + 1 /\ lastToken < MaxToken
             /\ \A x \in DispatchIds : Kept(x) \/ Shut(x) \/ Taken(x)
    BY <1>10, <2>2, WakeClaimEffect, ClaimKeeps
  <2>3. QED
    BY <1>10, <2>1, <2>2, WakeClaimEffect
<1>11. ASSUME NEW tok \in Tokens,
              \/ CheckEpoch(tok) \/ Start(tok) \/ Result(tok) \/ Settle(tok)
              \/ AckAgain(tok) \/ Renew(tok)
       PROVE  StoreKept /\ (UNCHANGED storeVars \/ Proved!Next)
  <2> DEFINE d == exec[tok].d
  <2>1. \/ UNCHANGED storeVars
        \/ TaskCall(d) /\ (Shut(d) \/ Stays(d) \/ Back(d))
    BY <1>11, CheckEpochEffect, StartEffect, ResultEffect, SettleEffect, AckAgainEffect,
       RenewEffect
  <2>2. CASE TaskCall(d) /\ (Shut(d) \/ Stays(d) \/ Back(d))
    BY <2>2, <1>3 DEF TaskCall
  <2>3. QED
    BY <1>1, <2>1, <2>2
<1>12. ASSUME SweepReclaim \/ RecoverReclaim PROVE StoreKept /\ Proved!Next
  <2>1. Store!ReclaimExpiredLeases(Expired)
    BY <1>12 DEF SweepReclaim, RecoverReclaim
  <2>2. /\ Proved!Next /\ lastToken' = lastToken
        /\ \A x \in DispatchIds : Kept(x) \/ Shut(x) \/ Back(x)
    BY <2>1, <1>0, ReclaimEffect
  <2>3. QED
    BY <2>2, PlainCallKeeps
<1>13. ASSUME RecoverEnqueue PROVE StoreKept
  <2>1. PICK x \in recovery.pick : Store!Enqueue(x.d, ThreadOf[x.d], 0, "NoKey", 0, "Due", 0)
    BY <1>13 DEF RecoverEnqueue
  <2>2. x.d \in DispatchIds
    BY <2>1 DEF TypeInv, MaintType, Recoveries, Found
  <2>3. QED
    BY <2>1, <2>2, EnqueueKeeps
<1>14. QED
  <2>1. CASE UNCHANGED storeVars
    BY <1>1, <2>1
  <2>2. ASSUME NEW d \in DispatchIds,
               \/ SubmitInterrupt(d) \/ SubmitEnqueue(d) \/ SubmitInline(d) \/ SubmitUndo(d)
               \/ Expire(d) \/ Elapse(d) \/ Purge(d) \/ CancelDispatch(d)
        PROVE  /\ StoreKept
               /\ \/ UNCHANGED storeVars \/ Proved!Next
                  \/ SubmitEnqueue(d) /\ Status(d) # "Absent"
    BY <2>2, <1>4, <1>5, <1>6, <1>7, <1>8, <1>9
  <2>3. QED
    BY <2>1, <2>2, <1>2, <1>10, <1>11, <1>12, <1>13, StoreActions DEF InterruptThread

(***************************************************************************)
(* Every step keeps the types                                              *)
(***************************************************************************)

\* The steps of submit, of control and of maintenance leave the others' state alone.
SubmitSteps == \E d \in DispatchIds : SubmitStep(d) \/ SubmitInterruptFault(d) \/ SubmitFault(d)

TimeSteps == \E d \in DispatchIds : Expire(d) \/ Elapse(d)

ControlSteps ==
    \/ \E d \in DispatchIds : CancelDispatch(d) \/ ControlMark(d)
    \/ \E t \in Threads : InterruptThread(t) \/ ControlStop(t)

SweepSteps ==
    \/ \E d \in DispatchIds : Reconcile(d) \/ Purge(d)
    \/ \E t \in Threads : GcScan(t) \/ GcRemove(t)
    \/ SweepReclaim \/ SweepOne \/ RecoverStep

WakeSteps == \E t \in Threads : WakeStep(t) \/ WakeFault(t)

TaskSteps ==
    \E tok \in Tokens : ExecStep(tok) \/ RunStep(tok) \/ Fault(tok) \/ Renew(tok) \/ RenewFault(tok)

\* Every step is of one of these groups, or the crash.
LEMMA StepGroups ==
  ASSUME Next
  PROVE  SubmitSteps \/ TimeSteps \/ ControlSteps \/ SweepSteps \/ WakeSteps \/ TaskSteps \/ Crash
BY DEF Next, SubmitSteps, TimeSteps, ControlSteps, SweepSteps, WakeSteps, TaskSteps

\* A run record that is marked is a run record.
LEMMA MarkedType ==
  ASSUME RunType, NEW d \in DispatchIds, NEW s
  PROVE  /\ s \in RunStatuses => Marked(d, s) \in Runs
         /\ Reconciled(d, s) \in Runs
<1>1. ASSUME NEW v \in RunStatuses PROVE Marked(d, v) \in Runs
  BY DEF Marked, RunType, Runs
<1>2. Marked(d, "Errored") \in Runs /\ Marked(d, "Cancelled") \in Runs /\ runs \in Runs
  BY <1>1 DEF RunStatuses, Ended, RunType
<1>3. Reconciled(d, s) \in {Marked(d, "Errored"), Marked(d, "Cancelled"), runs}
  BY DEF Reconciled
<1>4. QED
  BY <1>1, <1>2, <1>3

\* prepare_run_for_dispatch writes one run record.
LEMMA PrepareType ==
  ASSUME RunType, NEW d \in DispatchIds, SubmitPrepare(d)
  PROVE  RunType'
<1> DEFINE waiting == {r \in DispatchIds : runs[r].status = "Waiting" /\ ThreadOf[r] = ThreadOf[d]}
           r == IF waiting = {} THEN d ELSE CHOOSE w \in waiting : TRUE
           s == IF r = d THEN "Created" ELSE "Waiting"
<1>1. r \in DispatchIds
  OBVIOUS
<1>2. s \in RunStatuses
  BY DEF RunStatuses
<1>3. /\ runs' = [runs EXCEPT ![r] = [status |-> s, dispatch |-> d]]
      /\ runOf' = [runOf EXCEPT ![d] = r]
  BY DEF SubmitPrepare
<1> HIDE DEF r, s
<1>4. QED
  BY <1>1, <1>2, <1>3 DEF RunType, Runs

\* Every step keeps the run records typed.
LEMMA RunTypeStep ==
  ASSUME TypeInv, Next
  PROVE  RunType'
<1>0. RunType /\ TypeInv
  BY DEF TypeInv
<1>1. CASE UNCHANGED runVars
  BY <1>0, <1>1 DEF runVars, RunType
<1>2. ASSUME runs' \in Runs, UNCHANGED runOf PROVE RunType'
  BY <1>0, <1>2 DEF RunType
<1>3. "Cancelled" \in RunStatuses /\ "Running" \in RunStatuses
  BY DEF RunStatuses, Ended
<1>4. CASE SubmitSteps
  <2>1. PICK d \in DispatchIds : SubmitStep(d) \/ SubmitInterruptFault(d) \/ SubmitFault(d)
    BY <1>4 DEF SubmitSteps
  <2>2. CASE SubmitPrepare(d)
    BY <1>0, <2>2, PrepareType
  <2>3. CASE SubmitMark(d)
    <3>1. submits[d].superseded \subseteq DispatchIds
      BY DEF TypeInv, Submissions
    <3>2. UNCHANGED runVars \/ \E x \in DispatchIds : runs' = Marked(x, "Cancelled") /\ UNCHANGED runOf
      BY <2>3, <3>1 DEF SubmitMark, runVars
    <3>3. QED
      BY <3>2, <1>0, <1>1, <1>2, <1>3, MarkedType
  <2>4. CASE SubmitUndoMark(d)
    BY <2>4, <1>0, <1>2, MarkedType DEF SubmitUndoMark
  <2>5. CASE ~(SubmitPrepare(d) \/ SubmitMark(d) \/ SubmitUndoMark(d))
    <3>1. UNCHANGED runVars
      BY <2>1, <2>5 DEF SubmitStep, SubmitInterrupt, SubmitStop, SubmitCancel, SubmitRelease,
           SubmitEnqueue, SubmitWake, SubmitInline, SubmitUndo, SubmitInterruptFault, SubmitFault
    <3>2. QED
      BY <1>1, <3>1
  <2>6. QED
    BY <2>2, <2>3, <2>4, <2>5
<1>5. CASE TaskSteps
  <2>1. PICK tok \in Tokens :
           ExecStep(tok) \/ RunStep(tok) \/ Fault(tok) \/ Renew(tok) \/ RenewFault(tok)
    BY <1>5 DEF TaskSteps
  <2>2. exec[tok].d \in DispatchIds /\ runOf[exec[tok].d] \in DispatchIds
    BY HolderFacts DEF TypeInv, RunType
  <2>3. ASSUME NEW s \in RunStatuses, runs' = SetRun(tok, s), UNCHANGED runOf PROVE RunType'
    BY <1>0, <2>2, <2>3 DEF SetRun, RunType, Runs
  <2>4. CASE RunStep(tok)
    BY <1>3, <2>3, <2>4 DEF RunStep
  <2>5. CASE RunEnd(tok)
    <3>1. RunStatus(tok) \in RunStatuses
      BY <1>0, <2>2 DEF RunType, Runs, RunStatus
    <3>2. \E s \in RunStatuses : runs' = SetRun(tok, s)
      BY <2>5, <3>1 DEF RunEnd, RunStatuses, Ended
    <3>3. QED
      BY <2>3, <2>5, <3>2 DEF RunEnd
  <2>6. CASE MarkRun(tok)
    BY <1>0, <1>2, <1>3, <2>2, <2>6, MarkedType DEF MarkRun
  <2>7. CASE ~(RunStep(tok) \/ RunEnd(tok) \/ MarkRun(tok))
    <3>1. UNCHANGED runVars
      BY <2>1, <2>7 DEF ExecStep, Install, Check, CheckEpoch, Start, Enter, Result, Settle,
           AckAgain, Finish, Fault, Renew, RenewFault
    <3>2. QED
      BY <1>1, <3>1
  <2>8. QED
    BY <2>4, <2>5, <2>6, <2>7
<1>6. CASE SweepSteps
  <2>1. ASSUME SweepOne PROVE RunType'
    <3>1. \A x \in swept : x.d \in DispatchIds
      BY DEF TypeInv, MaintType
    <3>2. UNCHANGED runVars \/ \E x \in swept : runs' = Reconciled(x.d, x.status) /\ UNCHANGED runOf
      BY <2>1 DEF SweepOne, runVars
    <3>3. QED
      BY <3>1, <3>2, <1>0, <1>1, <1>2, MarkedType
  <2>2. ASSUME NEW d \in DispatchIds, Reconcile(d) PROVE RunType'
    BY <2>2, <1>0, <1>2, MarkedType DEF Reconcile
  <2>3. ASSUME NEW d \in DispatchIds, Purge(d) PROVE UNCHANGED runVars
    BY <2>3 DEF Purge
  <2>4. ASSUME NEW t \in Threads, GcScan(t) \/ GcRemove(t) PROVE UNCHANGED runVars
    BY <2>4 DEF GcScan, GcRemove
  <2>5. ASSUME SweepReclaim \/ RecoverStep PROVE UNCHANGED runVars
    BY <2>5 DEF SweepReclaim, RecoverStep, RecoverReclaim, RecoverWake, RecoverList, RecoverLoad,
                RecoverEnqueue, RecoverFinish
  <2>6. QED
    BY <1>1, <1>6, <2>1, <2>2, <2>3, <2>4, <2>5 DEF SweepSteps
<1>7. CASE ControlSteps
  <2>1. ASSUME NEW d \in DispatchIds, ControlMark(d) PROVE RunType'
    BY <2>1, <1>0, <1>2, MarkedType DEF ControlMark
  <2>2. ASSUME NEW d \in DispatchIds, CancelDispatch(d) PROVE UNCHANGED runVars
    BY <2>2 DEF CancelDispatch
  <2>3. ASSUME NEW t \in Threads, InterruptThread(t) \/ ControlStop(t) PROVE UNCHANGED runVars
    BY <2>3 DEF InterruptThread, ControlStop
  <2>4. QED
    BY <1>1, <1>7, <2>1, <2>2, <2>3 DEF ControlSteps
<1>8. CASE TimeSteps \/ WakeSteps \/ Crash
  <2>1. UNCHANGED runVars
    BY <1>8 DEF TimeSteps, WakeSteps, Crash, Expire, Elapse, WakeStep, WakeTry, WakeClaim,
                WakeRevert, WakeFault
  <2>2. QED
    BY <1>1, <2>1
<1>9. QED
  BY <1>4, <1>5, <1>6, <1>7, <1>8, StepGroups

\* A submission goes to another place, with what it has to do there.
LEMMA MoveType ==
  ASSUME submits \in Submissions, NEW d \in DispatchIds, NEW p \in Places,
         NEW sup \in SUBSET DispatchIds, NEW cl \in SUBSET DispatchIds,
         submits' = [submits EXCEPT ![d] = [pc |-> p, superseded |-> sup, claim |-> cl]]
  PROVE  /\ submits' \in Submissions /\ submits'[d].pc = p
         /\ \A x \in DispatchIds \ {d} : submits'[x] = submits[x]
BY DEF Submissions

\* A submission that moves on is typed, and no other is touched.
LEMMA GotoType ==
  ASSUME submits \in Submissions, NEW d \in DispatchIds, NEW p \in Places, Goto(d, p)
  PROVE  /\ submits' \in Submissions /\ submits'[d].pc = p
         /\ \A x \in DispatchIds \ {d} : submits'[x] = submits[x]
<1>1. submits' = [submits EXCEPT ![d] = [pc |-> p, superseded |-> {}, claim |-> {}]]
  BY DEF Goto, Submit
<1>2. {} \in SUBSET DispatchIds
  OBVIOUS
<1>3. QED
  BY <1>1, <1>2, MoveType

\* One field of a submission is written.
LEMMA FieldMoves ==
  ASSUME submits \in Submissions, NEW d \in DispatchIds
  PROVE  /\ \A q : [submits EXCEPT ![d].pc = q] =
               [submits EXCEPT ![d] = [pc |-> q, superseded |-> submits[d].superseded,
                                       claim |-> submits[d].claim]]
         /\ \A q, cl : [submits EXCEPT ![d].pc = q, ![d].claim = cl] =
               [submits EXCEPT ![d] = [pc |-> q, superseded |-> submits[d].superseded,
                                       claim |-> cl]]
         /\ \A y : [submits EXCEPT ![d].superseded = @ \ {y}] =
               [submits EXCEPT ![d] = [pc |-> submits[d].pc,
                                       superseded |-> submits[d].superseded \ {y},
                                       claim |-> submits[d].claim]]
<1> DEFINE s == submits[d]
<1>1. s \in [pc : Places, superseded : SUBSET DispatchIds, claim : SUBSET DispatchIds]
  BY DEF Submissions
<1>2. ASSUME NEW q
      PROVE  [submits EXCEPT ![d].pc = q] =
               [submits EXCEPT ![d] = [pc |-> q, superseded |-> s.superseded, claim |-> s.claim]]
  <2> HIDE DEF s
  <2>1. [s EXCEPT !.pc = q] = [pc |-> q, superseded |-> s.superseded, claim |-> s.claim]
    BY <1>1
  <2>2. [submits EXCEPT ![d].pc = q] = [submits EXCEPT ![d] = [s EXCEPT !.pc = q]]
    BY DEF s, Submissions
  <2>3. QED
    BY <2>1, <2>2
<1>3. ASSUME NEW y
      PROVE  [submits EXCEPT ![d].superseded = @ \ {y}] =
               [submits EXCEPT ![d] = [pc |-> s.pc, superseded |-> s.superseded \ {y},
                                       claim |-> s.claim]]
  <2> HIDE DEF s
  <2>1. [s EXCEPT !.superseded = @ \ {y}] =
           [pc |-> s.pc, superseded |-> s.superseded \ {y}, claim |-> s.claim]
    BY <1>1
  <2>2. [submits EXCEPT ![d].superseded = @ \ {y}] =
           [submits EXCEPT ![d] = [s EXCEPT !.superseded = @ \ {y}]]
    BY DEF s, Submissions
  <2>3. QED
    BY <2>1, <2>2
<1>4. ASSUME NEW q, NEW cl
      PROVE  [submits EXCEPT ![d].pc = q, ![d].claim = cl] =
               [submits EXCEPT ![d] = [pc |-> q, superseded |-> s.superseded, claim |-> cl]]
  <2> DEFINE r == [pc |-> q, superseded |-> s.superseded, claim |-> s.claim]
             n == [pc |-> q, superseded |-> s.superseded, claim |-> cl]
             g == [submits EXCEPT ![d] = r]
  <2>1. [submits EXCEPT ![d].pc = q, ![d].claim = cl] =
           [[submits EXCEPT ![d].pc = q] EXCEPT ![d].claim = cl]
    OBVIOUS
  <2>2. [submits EXCEPT ![d].pc = q] = g
    BY <1>2
  <2>3. g[d] = r
    BY DEF Submissions
  <2>4. [g EXCEPT ![d].claim = cl] = [g EXCEPT ![d] = [g[d] EXCEPT !.claim = cl]]
    OBVIOUS
  <2>5. [r EXCEPT !.claim = cl] = n
    OBVIOUS
  <2>6. [g EXCEPT ![d] = n] = [submits EXCEPT ![d] = n]
    BY DEF Submissions
  <2> HIDE DEF r, n, g
  <2>7. [submits EXCEPT ![d].pc = q, ![d].claim = cl] = [submits EXCEPT ![d] = n]
    BY <2>1, <2>2, <2>3, <2>4, <2>5, <2>6
  <2>8. QED
    BY <2>7 DEF n
<1>5. QED
  BY <1>2, <1>3, <1>4

\* Where a step of a submission leads.
SubmitMoves(d) ==
    /\ submits' \in Submissions
    /\ \A x \in DispatchIds \ {d} : submits'[x] = submits[x]
    /\ LET p == submits[d].pc
           q == submits'[d].pc
       IN  \/ p \in Early \ {"Enqueue"} /\ q \in Early \cup {"Rejected"}
           \/ p \in {"Enqueue", "Inline", "Undo"} /\ q = "Rejected" /\ spent'.faults > 0
           \/ p = "Enqueue" /\ q = (IF d \in Foreground THEN "Inline" ELSE "Wake")
           \/ p = "Wake" /\ q = "Accepted"
           \/ p = "Inline" /\ q \in {"Accepted", "Undo"}
           \/ p = "Undo" /\ q = "UndoMark"
           \/ p = "UndoMark" /\ q = "Rejected"

\* The steps of a submission make these moves.
LEMMA SubmitMovesStep ==
  ASSUME TypeInv, NEW d \in DispatchIds, SubmitStep(d) \/ SubmitInterruptFault(d) \/ SubmitFault(d)
  PROVE  SubmitMoves(d)
<1>0. /\ submits \in Submissions /\ submits[d].superseded \in SUBSET DispatchIds
      /\ submits[d].claim \in SUBSET DispatchIds /\ {} \in SUBSET DispatchIds
  BY DEF TypeInv, Submissions
<1>1. ASSUME NEW q \in Places, NEW sup \in SUBSET DispatchIds, NEW cl \in SUBSET DispatchIds,
             submits' = [submits EXCEPT ![d] = [pc |-> q, superseded |-> sup, claim |-> cl]]
      PROVE  /\ submits' \in Submissions /\ submits'[d].pc = q
             /\ \A x \in DispatchIds \ {d} : submits'[x] = submits[x]
  BY <1>0, <1>1, MoveType
<1>2. ASSUME NEW q \in Places, Goto(d, q)
      PROVE  /\ submits' \in Submissions /\ submits'[d].pc = q
             /\ \A x \in DispatchIds \ {d} : submits'[x] = submits[x]
  BY <1>0, <1>2, GotoType
<1>3. CASE SubmitInterrupt(d)
  <2>1. /\ Store!Of(ThreadOf[d], "Queued") \in SUBSET DispatchIds
        /\ Store!Of(ThreadOf[d], "Claimed") \in SUBSET DispatchIds
    BY DEF Store!Of
  <2>2. "Mark" \in Places
    BY DEF Places
  <2>3. /\ submits[d].pc = "New"
        /\ submits' = [submits EXCEPT ![d] = [pc |-> "Mark",
                           superseded |-> Store!Of(ThreadOf[d], "Queued"),
                           claim |-> Store!Of(ThreadOf[d], "Claimed")]]
    BY <1>3 DEF SubmitInterrupt
  <2>4. QED
    BY <1>1, <2>1, <2>2, <2>3 DEF SubmitMoves, Early
<1>4. CASE SubmitInterruptFault(d)
  <2> DEFINE a == active[ThreadOf[d]]
  <2>1. CASE a = 0
    BY <1>2, <1>4, <2>1 DEF SubmitInterruptFault, SubmitMoves, Early, Places
  <2>2. CASE a # 0
    <3>1. a \in Tokens
      <4>1. a \in 0..MaxToken
        BY MailboxAssumption DEF TypeInv, TaskType
      <4>2. QED
        BY <2>2, <4>1, MailboxAssumption DEF Tokens
    <3> DEFINE cl == {exec[a].d}
    <3>2. cl \in SUBSET DispatchIds
      BY <3>1, HolderFacts
    <3>3. submits' = [submits EXCEPT ![d].pc = "Stop", ![d].claim = cl]
      BY <1>4, <2>2 DEF SubmitInterruptFault
    <3> HIDE DEF a, cl
    <3>4. submits' = [submits EXCEPT ![d] = [pc |-> "Stop", superseded |-> submits[d].superseded,
                                             claim |-> cl]]
      <4>1. \A q, c : [submits EXCEPT ![d].pc = q, ![d].claim = c] =
               [submits EXCEPT ![d] = [pc |-> q, superseded |-> submits[d].superseded,
                                       claim |-> c]]
        BY <1>0, FieldMoves
      <4>2. [submits EXCEPT ![d].pc = "Stop", ![d].claim = cl] =
               [submits EXCEPT ![d] = [pc |-> "Stop", superseded |-> submits[d].superseded,
                                       claim |-> cl]]
        BY <4>1
      <4>3. QED
        BY <3>3, <4>2
    <3>5. "Stop" \in Places /\ submits[d].pc = "New"
      BY <1>4 DEF Places, SubmitInterruptFault
    <3>6. /\ submits' \in Submissions /\ submits'[d].pc = "Stop"
          /\ \A x \in DispatchIds \ {d} : submits'[x] = submits[x]
      BY <1>0, <1>1, <3>2, <3>4, <3>5
    <3>7. QED
      BY <3>5, <3>6 DEF SubmitMoves, Early
  <2>3. QED
    BY <2>1, <2>2
<1>5. CASE SubmitStop(d)
  BY <1>2, <1>5 DEF SubmitStop, SubmitMoves, Early, Places
<1>6. CASE SubmitMark(d)
  <2>1. CASE submits[d].superseded = {}
    <3> DEFINE q == IF submits[d].claim = {} THEN "Prepare" ELSE "Cancel"
    <3>1. submits' = [submits EXCEPT ![d].pc = q]
      BY <1>6, <2>1 DEF SubmitMark
    <3>2. q \in Places /\ q \in Early
      BY DEF Places, Early
    <3> HIDE DEF q
    <3>3. submits' = [submits EXCEPT ![d] = [pc |-> q, superseded |-> submits[d].superseded,
                                             claim |-> submits[d].claim]]
      BY <1>0, <3>1, FieldMoves
    <3>4. QED
      BY <1>0, <1>1, <1>6, <3>2, <3>3 DEF SubmitMoves, Early, SubmitMark
  <2>2. CASE submits[d].superseded # {}
    <3>1. PICK x \in DispatchIds : submits' = [submits EXCEPT ![d].superseded = @ \ {x}]
      BY <1>0, <1>6, <2>2 DEF SubmitMark
    <3>2. submits[d].superseded \ {x} \in SUBSET DispatchIds
      BY <1>0
    <3>3. submits' = [submits EXCEPT ![d] = [pc |-> "Mark",
                            superseded |-> submits[d].superseded \ {x},
                            claim |-> submits[d].claim]]
      <4>1. \A y : [submits EXCEPT ![d].superseded = @ \ {y}] =
               [submits EXCEPT ![d] = [pc |-> submits[d].pc,
                                       superseded |-> submits[d].superseded \ {y},
                                       claim |-> submits[d].claim]]
        BY <1>0, FieldMoves
      <4>2. submits[d].pc = "Mark"
        BY <1>6 DEF SubmitMark
      <4>3. [submits EXCEPT ![d].superseded = @ \ {x}] =
               [submits EXCEPT ![d] = [pc |-> submits[d].pc,
                                       superseded |-> submits[d].superseded \ {x},
                                       claim |-> submits[d].claim]]
        BY <4>1
      <4>4. QED
        BY <3>1, <4>2, <4>3
    <3>4. "Mark" \in Places /\ submits[d].pc = "Mark"
      BY <1>6 DEF SubmitMark, Places
    <3>5. QED
      BY <1>0, <1>1, <3>2, <3>3, <3>4 DEF SubmitMoves, Early
  <2>3. QED
    BY <2>1, <2>2
<1>7. CASE SubmitCancel(d)
  <2>1. CASE active[ThreadOf[d]] = 0
    BY <1>2, <1>7, <2>1 DEF SubmitCancel, SubmitMoves, Early, Places
  <2>2. CASE active[ThreadOf[d]] # 0
    <3>1. submits' = [submits EXCEPT ![d].pc = "Release"]
      BY <1>7, <2>2 DEF SubmitCancel
    <3>2. submits' = [submits EXCEPT ![d] = [pc |-> "Release", superseded |-> submits[d].superseded,
                                             claim |-> submits[d].claim]]
      BY <1>0, <3>1, FieldMoves
    <3>3. "Release" \in Places /\ submits[d].pc = "Cancel"
      BY <1>7 DEF SubmitCancel, Places
    <3>4. QED
      BY <1>0, <1>1, <3>2, <3>3 DEF SubmitMoves, Early
  <2>3. QED
    BY <2>1, <2>2
<1>8. CASE SubmitRelease(d)
  BY <1>2, <1>8 DEF SubmitRelease, SubmitMoves, Early, Places
<1>9. CASE SubmitPrepare(d)
  BY <1>2, <1>9 DEF SubmitPrepare, SubmitMoves, Early, Places
<1>10. CASE SubmitEnqueue(d)
  BY <1>2, <1>10 DEF SubmitEnqueue, SubmitMoves, Early, Places
<1>11. CASE SubmitWake(d)
  BY <1>2, <1>11 DEF SubmitWake, SubmitMoves, Early, Places
<1>12. CASE SubmitInline(d)
  <2>1. submits[d].pc = "Inline" /\ (Goto(d, "Undo") \/ Goto(d, "Accepted"))
    BY <1>12, InlineEffect DEF SubmitInline
  <2>2. QED
    BY <1>2, <2>1 DEF SubmitMoves, Early, Places
<1>13. CASE SubmitUndo(d)
  BY <1>2, <1>13 DEF SubmitUndo, SubmitMoves, Early, Places
<1>14. CASE SubmitUndoMark(d)
  BY <1>2, <1>14 DEF SubmitUndoMark, SubmitMoves, Early, Places
<1>15. CASE SubmitFault(d)
  <2>1. Goto(d, "Rejected") /\ submits[d].pc \in {"Prepare", "Enqueue", "Inline", "Undo"}
    BY <1>15 DEF SubmitFault
  <2>2. spent'.faults = spent.faults + 1 /\ spent.faults \in Nat
    BY <1>15 DEF SubmitFault, TypeInv, MaintType, Counts
  <2>3. spent'.faults > 0
    BY <2>2
  <2>4. QED
    BY <1>2, <2>1, <2>3 DEF SubmitMoves, Early, Places
<1>16. QED
  BY <1>3, <1>4, <1>5, <1>6, <1>7, <1>8, <1>9, <1>10, <1>11, <1>12, <1>13, <1>14, <1>15
     DEF SubmitStep

\* A crash forgets the submissions under way.
LEMMA CrashSubmits ==
  ASSUME submits \in Submissions, Crash
  PROVE  submits' \in Submissions
<1>1. Submit("Lost") \in [pc : Places, superseded : SUBSET DispatchIds, claim : SUBSET DispatchIds]
  BY DEF Submit, Places
<1>2. QED
  BY <1>1 DEF Crash, Submissions

\* Nobody else moves a submission, but for the crash.
LEMMA OtherSubmits ==
  ASSUME TimeSteps \/ ControlSteps \/ SweepSteps \/ WakeSteps \/ TaskSteps
  PROVE  UNCHANGED submits
<1>1. CASE TimeSteps \/ ControlSteps \/ WakeSteps
  BY <1>1 DEF TimeSteps, ControlSteps, WakeSteps, Expire, Elapse, CancelDispatch, ControlMark,
       InterruptThread, ControlStop, WakeStep, WakeTry, WakeClaim, WakeRevert, WakeFault
<1>2. CASE SweepSteps
  BY <1>2 DEF SweepSteps, Reconcile, Purge, GcScan, GcRemove, SweepReclaim, SweepOne, RecoverStep,
       RecoverReclaim, RecoverWake, RecoverList, RecoverLoad, RecoverEnqueue, RecoverFinish
<1>3. CASE TaskSteps
  BY <1>3 DEF TaskSteps, ExecStep, Install, Check, CheckEpoch, Start, Enter, RunEnd, Result,
       Settle, AckAgain, MarkRun, Finish, RunStep, Fault, Renew, RenewFault
<1>4. QED
  BY <1>1, <1>2, <1>3

\* Every step keeps the submissions typed.
LEMMA SubmitTypeStep ==
  ASSUME TypeInv, Next
  PROVE  submits' \in Submissions
<1>1. CASE SubmitSteps
  BY <1>1, SubmitMovesStep DEF SubmitSteps, SubmitMoves
<1>2. CASE Crash
  BY <1>2, CrashSubmits DEF TypeInv
<1>3. CASE TimeSteps \/ ControlSteps \/ SweepSteps \/ WakeSteps \/ TaskSteps
  BY <1>3, OtherSubmits DEF TypeInv
<1>4. QED
  BY <1>1, <1>2, <1>3, StepGroups

\* What the tasks are made of.
TaskRecord ==
    [pc : Stages, d : DispatchIds, out : {"None", "Done", "Waiting", "Transient", "Permanent"},
     recorded : BOOLEAN, seen : RunStatuses]

\* A task record made from NoTask is typed.
LEMMA NewTaskType ==
  ASSUME NEW d \in DispatchIds, NEW p \in {"Install", "Done"}
  PROVE  /\ [NoTask EXCEPT !.pc = p, !.d = d] \in TaskRecord
         /\ [NoTask EXCEPT !.pc = p, !.d = d].pc = p
         /\ [NoTask EXCEPT !.pc = p, !.d = d].d = d
         /\ NoTask \in TaskRecord /\ NoTask.pc = "None"
<1>1. (CHOOSE x \in DispatchIds : TRUE) \in DispatchIds
  BY MailboxAssumption
<1> DEFINE c == CHOOSE x \in DispatchIds : TRUE
           f == FALSE
           n == [pc |-> "None", d |-> c, out |-> "None", recorded |-> f, seen |-> "None"]
           m == [pc |-> p, d |-> c, out |-> "None", recorded |-> f, seen |-> "None"]
           l == [pc |-> p, d |-> d, out |-> "None", recorded |-> f, seen |-> "None"]
<1>2. c \in DispatchIds /\ f \in BOOLEAN
  BY <1>1
<1>3. NoTask = n
  BY DEF NoTask
<1> HIDE DEF c, f
<1>4. n \in TaskRecord /\ n.pc = "None" /\ l \in TaskRecord
  BY <1>2 DEF TaskRecord, Stages, RunStatuses
<1>5. [n EXCEPT !.pc = p, !.d = d] = [[n EXCEPT !.pc = p] EXCEPT !.d = d]
  OBVIOUS
<1>6. [n EXCEPT !.pc = p] = m
  OBVIOUS
<1>7. [m EXCEPT !.d = d] = l
  OBVIOUS
<1>8. l.pc = p /\ l.d = d
  OBVIOUS
<1> HIDE DEF n, m, l
<1>9. [NoTask EXCEPT !.pc = p, !.d = d] = l
  BY <1>3, <1>5, <1>6, <1>7
<1>10. QED
  BY <1>3, <1>4, <1>8, <1>9

\* A task is replaced by another record.
LEMMA TaskUpdate ==
  ASSUME exec \in Tasks, NEW tok \in Tokens, NEW n \in TaskRecord,
         exec' = [exec EXCEPT ![tok] = n]
  PROVE  /\ exec' \in Tasks /\ exec'[tok] = n
         /\ \A a \in Tokens \ {tok} : exec'[a] = exec[a]
BY DEF Tasks, TaskRecord

\* The fields of a task that its steps write.
LEMMA TaskFields ==
  ASSUME exec \in Tasks, NEW tok \in Tokens
  PROVE  LET s == exec[tok]
         IN  /\ \A q : [exec EXCEPT ![tok].pc = q] =
                   [exec EXCEPT ![tok] = [pc |-> q, d |-> s.d, out |-> s.out,
                                          recorded |-> s.recorded, seen |-> s.seen]]
             /\ \A q, v : [exec EXCEPT ![tok].pc = q, ![tok].seen = v] =
                   [exec EXCEPT ![tok] = [pc |-> q, d |-> s.d, out |-> s.out,
                                          recorded |-> s.recorded, seen |-> v]]
             /\ \A q, v : [exec EXCEPT ![tok].pc = q, ![tok].out = v] =
                   [exec EXCEPT ![tok] = [pc |-> q, d |-> s.d, out |-> v,
                                          recorded |-> s.recorded, seen |-> s.seen]]
             /\ \A q, v : [exec EXCEPT ![tok].pc = q, ![tok].recorded = v] =
                   [exec EXCEPT ![tok] = [pc |-> q, d |-> s.d, out |-> s.out,
                                          recorded |-> v, seen |-> s.seen]]
             /\ \A q, v, w : [exec EXCEPT ![tok].pc = q, ![tok].out = v, ![tok].seen = w] =
                   [exec EXCEPT ![tok] = [pc |-> q, d |-> s.d, out |-> v,
                                          recorded |-> s.recorded, seen |-> w]]
<1> DEFINE s == exec[tok]
           rec(q, o, r, v) == [pc |-> q, d |-> s.d, out |-> o, recorded |-> r, seen |-> v]
           g(q, o, r, v) == [exec EXCEPT ![tok] = rec(q, o, r, v)]
<1>1. s \in TaskRecord
  BY DEF Tasks, TaskRecord
<1>2. \A q : [exec EXCEPT ![tok].pc = q] = g(q, s.out, s.recorded, s.seen)
  <2> SUFFICES ASSUME NEW q
               PROVE  [exec EXCEPT ![tok].pc = q] = g(q, s.out, s.recorded, s.seen)
    OBVIOUS
  <2>1. [exec EXCEPT ![tok].pc = q] = [exec EXCEPT ![tok] = [s EXCEPT !.pc = q]]
    OBVIOUS
  <2> HIDE DEF s
  <2>2. [s EXCEPT !.pc = q] = rec(q, s.out, s.recorded, s.seen)
    BY <1>1 DEF TaskRecord
  <2>3. QED
    BY <2>1, <2>2
<1>3. ASSUME NEW q, NEW o, NEW r, NEW v
      PROVE  /\ \A n : [g(q, o, r, v) EXCEPT ![tok].out = n] = g(q, n, r, v)
             /\ \A n : [g(q, o, r, v) EXCEPT ![tok].recorded = n] = g(q, o, n, v)
             /\ \A n : [g(q, o, r, v) EXCEPT ![tok].seen = n] = g(q, o, r, n)
  <2> DEFINE h == g(q, o, r, v)
             m == rec(q, o, r, v)
  <2>1. h[tok] = m /\ \A n : [h EXCEPT ![tok] = n] = [exec EXCEPT ![tok] = n]
    BY DEF Tasks
  <2>2. /\ \A n : [m EXCEPT !.out = n] = rec(q, n, r, v)
        /\ \A n : [m EXCEPT !.recorded = n] = rec(q, o, n, v)
        /\ \A n : [m EXCEPT !.seen = n] = rec(q, o, r, n)
    OBVIOUS
  <2>3. ASSUME NEW n
        PROVE  /\ [h EXCEPT ![tok].out = n] = [h EXCEPT ![tok] = [h[tok] EXCEPT !.out = n]]
               /\ [h EXCEPT ![tok].recorded = n] = [h EXCEPT ![tok] = [h[tok] EXCEPT !.recorded = n]]
               /\ [h EXCEPT ![tok].seen = n] = [h EXCEPT ![tok] = [h[tok] EXCEPT !.seen = n]]
    OBVIOUS
  <2> HIDE DEF h, m, rec
  <2>4. QED
    BY <2>1, <2>2, <2>3 DEF h
<1>4. \A q, v : [exec EXCEPT ![tok].pc = q, ![tok].seen = v] = g(q, s.out, s.recorded, v)
  <2> SUFFICES ASSUME NEW q, NEW v
               PROVE  [exec EXCEPT ![tok].pc = q, ![tok].seen = v] = g(q, s.out, s.recorded, v)
    OBVIOUS
  <2>1. [exec EXCEPT ![tok].pc = q, ![tok].seen = v] =
           [[exec EXCEPT ![tok].pc = q] EXCEPT ![tok].seen = v]
    OBVIOUS
  <2> HIDE DEF g
  <2>2. QED
    BY <1>2, <1>3, <2>1
<1>5. \A q, v : [exec EXCEPT ![tok].pc = q, ![tok].out = v] = g(q, v, s.recorded, s.seen)
  <2> SUFFICES ASSUME NEW q, NEW v
               PROVE  [exec EXCEPT ![tok].pc = q, ![tok].out = v] = g(q, v, s.recorded, s.seen)
    OBVIOUS
  <2>1. [exec EXCEPT ![tok].pc = q, ![tok].out = v] =
           [[exec EXCEPT ![tok].pc = q] EXCEPT ![tok].out = v]
    OBVIOUS
  <2> HIDE DEF g
  <2>2. QED
    BY <1>2, <1>3, <2>1
<1>6. \A q, v : [exec EXCEPT ![tok].pc = q, ![tok].recorded = v] = g(q, s.out, v, s.seen)
  <2> SUFFICES ASSUME NEW q, NEW v
               PROVE  [exec EXCEPT ![tok].pc = q, ![tok].recorded = v] = g(q, s.out, v, s.seen)
    OBVIOUS
  <2>1. [exec EXCEPT ![tok].pc = q, ![tok].recorded = v] =
           [[exec EXCEPT ![tok].pc = q] EXCEPT ![tok].recorded = v]
    OBVIOUS
  <2> HIDE DEF g
  <2>2. QED
    BY <1>2, <1>3, <2>1
<1>7. \A q, v, w : [exec EXCEPT ![tok].pc = q, ![tok].out = v, ![tok].seen = w] =
                      g(q, v, s.recorded, w)
  <2> SUFFICES ASSUME NEW q, NEW v, NEW w
               PROVE  [exec EXCEPT ![tok].pc = q, ![tok].out = v, ![tok].seen = w] =
                         g(q, v, s.recorded, w)
    OBVIOUS
  <2>1. [exec EXCEPT ![tok].pc = q, ![tok].out = v, ![tok].seen = w] =
           [[exec EXCEPT ![tok].pc = q, ![tok].out = v] EXCEPT ![tok].seen = w]
    OBVIOUS
  <2> HIDE DEF g
  <2>2. QED
    BY <1>3, <1>5, <2>1
<1>8. QED
  BY <1>2, <1>4, <1>5, <1>6, <1>7

\* Where a step of a task leads: on, or to the end of it.
TaskMoves(tok) ==
    /\ exec' \in Tasks /\ exec'[tok].d = exec[tok].d
    /\ \A a \in Tokens \ {tok} : exec'[a] = exec[a]
    /\ LET p == exec[tok].pc
           q == exec'[tok].pc
       IN  \/ p = "Install" /\ q = "Check" /\ Install(tok)
           \/ p = "Check" /\ q = "Epoch"
           \/ p = "Check" /\ q \in {"Mark", "Finish"} /\ ~Holds(tok)
           \/ p = "Epoch" /\ q \in {"Start", "Cancel", "Finish"} /\ CheckEpoch(tok)
           \/ p = "Start" /\ q \in {"Enter", "Mark", "Finish"} /\ Start(tok)
           \/ p = "Enter" /\ q \in {"Run", "Result"}
           \/ p = "Run" /\ q = "Result"
           \/ p = "Result" /\ q = "Settle" /\ Result(tok)
           \/ p = "Settle" /\ q \in {"Mark", "Finish"} /\ Settle(tok)
           \/ p = "AckAgain" /\ q = "Finish" /\ AckAgain(tok)
           \/ p \in {"Cancel", "Mark"} /\ q = "Finish"
           \/ p = "Finish" /\ q = "Done" /\ Finish(tok)
           \/ /\ p \in {"Check", "Epoch", "Start", "Result", "Settle", "AckAgain"}
              /\ q \in {"Settle", "AckAgain", "Finish"} /\ spent'.faults > 0

\* One stage to the next, the fields a step writes being in range.
LEMMA StageMoves ==
  ASSUME exec \in Tasks, NEW tok \in Tokens, NEW q \in Stages
  PROVE  /\ Step(tok, q) =>
               /\ exec' \in Tasks /\ exec'[tok].d = exec[tok].d /\ exec'[tok].pc = q
               /\ \A a \in Tokens \ {tok} : exec'[a] = exec[a]
         /\ \A v \in RunStatuses :
               exec' = [exec EXCEPT ![tok].pc = q, ![tok].seen = v] =>
                  /\ exec' \in Tasks /\ exec'[tok].d = exec[tok].d /\ exec'[tok].pc = q
                  /\ \A a \in Tokens \ {tok} : exec'[a] = exec[a]
         /\ \A v \in {"None", "Done", "Waiting", "Transient", "Permanent"}, u \in RunStatuses :
               \/ exec' = [exec EXCEPT ![tok].pc = q, ![tok].out = v]
               \/ exec' = [exec EXCEPT ![tok].pc = q, ![tok].out = v, ![tok].seen = u]
               => /\ exec' \in Tasks /\ exec'[tok].d = exec[tok].d /\ exec'[tok].pc = q
                  /\ \A a \in Tokens \ {tok} : exec'[a] = exec[a]
         /\ \A v \in BOOLEAN :
               exec' = [exec EXCEPT ![tok].pc = q, ![tok].recorded = v] =>
                  /\ exec' \in Tasks /\ exec'[tok].d = exec[tok].d /\ exec'[tok].pc = q
                  /\ \A a \in Tokens \ {tok} : exec'[a] = exec[a]
<1> DEFINE s == exec[tok]
           rec(o, r, v) == [pc |-> q, d |-> s.d, out |-> o, recorded |-> r, seen |-> v]
           Outs == {"None", "Done", "Waiting", "Transient", "Permanent"}
<1>1. /\ s.d \in DispatchIds /\ s.out \in Outs /\ s.recorded \in BOOLEAN /\ s.seen \in RunStatuses
  BY DEF Tasks
<1>2. ASSUME NEW o \in Outs, NEW r \in BOOLEAN, NEW v \in RunStatuses,
             exec' = [exec EXCEPT ![tok] = rec(o, r, v)]
      PROVE  /\ exec' \in Tasks /\ exec'[tok].d = s.d /\ exec'[tok].pc = q
             /\ \A a \in Tokens \ {tok} : exec'[a] = exec[a]
  <2> DEFINE n == rec(o, r, v)
  <2>1. n \in TaskRecord /\ n.d = s.d /\ n.pc = q
    BY <1>1 DEF TaskRecord
  <2> HIDE DEF n, s
  <2>2. /\ exec' \in Tasks /\ exec'[tok] = n
        /\ \A a \in Tokens \ {tok} : exec'[a] = exec[a]
    BY <1>2, <2>1, TaskUpdate DEF n
  <2>3. QED
    BY <2>1, <2>2
<1>4. ASSUME Step(tok, q)
      PROVE  exec' = [exec EXCEPT ![tok] = rec(s.out, s.recorded, s.seen)]
  BY <1>4, TaskFields DEF Step
<1>5. ASSUME NEW v, exec' = [exec EXCEPT ![tok].pc = q, ![tok].seen = v]
      PROVE  exec' = [exec EXCEPT ![tok] = rec(s.out, s.recorded, v)]
  <2>1. \A k, w : [exec EXCEPT ![tok].pc = k, ![tok].seen = w] =
           [exec EXCEPT ![tok] = [pc |-> k, d |-> s.d, out |-> s.out,
               recorded |-> s.recorded, seen |-> w]]
    BY TaskFields
  <2>2. QED
    BY <1>5, <2>1
<1>6. ASSUME NEW v, exec' = [exec EXCEPT ![tok].pc = q, ![tok].out = v]
      PROVE  exec' = [exec EXCEPT ![tok] = rec(v, s.recorded, s.seen)]
  <2>1. \A k, w : [exec EXCEPT ![tok].pc = k, ![tok].out = w] =
           [exec EXCEPT ![tok] = [pc |-> k, d |-> s.d, out |-> w,
               recorded |-> s.recorded, seen |-> s.seen]]
    BY TaskFields
  <2>2. QED
    BY <1>6, <2>1
<1>7. ASSUME NEW v, NEW u, exec' = [exec EXCEPT ![tok].pc = q, ![tok].out = v, ![tok].seen = u]
      PROVE  exec' = [exec EXCEPT ![tok] = rec(v, s.recorded, u)]
  <2>1. \A k, w, z : [exec EXCEPT ![tok].pc = k, ![tok].out = w, ![tok].seen = z] =
           [exec EXCEPT ![tok] = [pc |-> k, d |-> s.d, out |-> w,
               recorded |-> s.recorded, seen |-> z]]
    BY TaskFields
  <2> HIDE DEF s
  <2>2. \A w, z : [exec EXCEPT ![tok].pc = q, ![tok].out = w, ![tok].seen = z] =
           [exec EXCEPT ![tok] = [pc |-> q, d |-> s.d, out |-> w,
               recorded |-> s.recorded, seen |-> z]]
    BY <2>1
  <2>3. [exec EXCEPT ![tok].pc = q, ![tok].out = v, ![tok].seen = u] =
           [exec EXCEPT ![tok] = rec(v, s.recorded, u)]
    BY <2>2
  <2>4. QED
    BY <1>7, <2>3
<1>8. ASSUME NEW v, exec' = [exec EXCEPT ![tok].pc = q, ![tok].recorded = v]
      PROVE  exec' = [exec EXCEPT ![tok] = rec(s.out, v, s.seen)]
  <2>1. \A k, w : [exec EXCEPT ![tok].pc = k, ![tok].recorded = w] =
           [exec EXCEPT ![tok] = [pc |-> k, d |-> s.d, out |-> s.out,
               recorded |-> w, seen |-> s.seen]]
    BY TaskFields
  <2>2. QED
    BY <1>8, <2>1
<1> HIDE DEF rec, s, Outs
<1>9. Step(tok, q) =>
               /\ exec' \in Tasks /\ exec'[tok].d = s.d /\ exec'[tok].pc = q
               /\ \A a \in Tokens \ {tok} : exec'[a] = exec[a]
  BY <1>1, <1>2, <1>4
<1>10. \A v \in RunStatuses :
               exec' = [exec EXCEPT ![tok].pc = q, ![tok].seen = v] =>
                  /\ exec' \in Tasks /\ exec'[tok].d = s.d /\ exec'[tok].pc = q
                  /\ \A a \in Tokens \ {tok} : exec'[a] = exec[a]
  <2> SUFFICES ASSUME NEW v \in RunStatuses,
                      exec' = [exec EXCEPT ![tok].pc = q, ![tok].seen = v]
               PROVE  /\ exec' \in Tasks /\ exec'[tok].d = s.d /\ exec'[tok].pc = q
                      /\ \A a \in Tokens \ {tok} : exec'[a] = exec[a]
    OBVIOUS
  <2>1. exec' = [exec EXCEPT ![tok] = rec(s.out, s.recorded, v)]
    BY <1>5
  <2>2. QED
    BY <1>1, <1>2, <2>1
<1>11. \A v \in Outs, u \in RunStatuses :
               \/ exec' = [exec EXCEPT ![tok].pc = q, ![tok].out = v]
               \/ exec' = [exec EXCEPT ![tok].pc = q, ![tok].out = v, ![tok].seen = u]
               => /\ exec' \in Tasks /\ exec'[tok].d = s.d /\ exec'[tok].pc = q
                  /\ \A a \in Tokens \ {tok} : exec'[a] = exec[a]
  <2> SUFFICES ASSUME NEW v \in Outs, NEW u \in RunStatuses,
                      \/ exec' = [exec EXCEPT ![tok].pc = q, ![tok].out = v]
                      \/ exec' = [exec EXCEPT ![tok].pc = q, ![tok].out = v, ![tok].seen = u]
               PROVE  /\ exec' \in Tasks /\ exec'[tok].d = s.d /\ exec'[tok].pc = q
                      /\ \A a \in Tokens \ {tok} : exec'[a] = exec[a]
    OBVIOUS
  <2>1. CASE exec' = [exec EXCEPT ![tok].pc = q, ![tok].out = v]
    BY <1>1, <1>2, <1>6, <2>1
  <2>2. CASE exec' = [exec EXCEPT ![tok].pc = q, ![tok].out = v, ![tok].seen = u]
    <3>1. exec' = [exec EXCEPT ![tok] = rec(v, s.recorded, u)]
      BY <1>7, <2>2, Zenon
    <3>2. QED
      BY <1>1, <1>2, <3>1
  <2>3. QED
    BY <2>1, <2>2
<1>12. \A v \in BOOLEAN :
               exec' = [exec EXCEPT ![tok].pc = q, ![tok].recorded = v] =>
                  /\ exec' \in Tasks /\ exec'[tok].d = s.d /\ exec'[tok].pc = q
                  /\ \A a \in Tokens \ {tok} : exec'[a] = exec[a]
  BY <1>1, <1>2, <1>8
<1>13. QED
  BY <1>9, <1>10, <1>11, <1>12 DEF s, Outs

\* The steps of a task make these moves.
LEMMA TaskMovesStep ==
  ASSUME TypeInv, NEW tok \in Tokens, ExecStep(tok) \/ Fault(tok)
  PROVE  TaskMoves(tok)
<1>0. exec \in Tasks /\ exec[tok].d \in DispatchIds
  BY HolderFacts DEF TypeInv, TaskType
<1> DEFINE On(q) == /\ exec' \in Tasks /\ exec'[tok].d = exec[tok].d /\ exec'[tok].pc = q
                    /\ \A a \in Tokens \ {tok} : exec'[a] = exec[a]
<1>1. ASSUME NEW q \in Stages, Step(tok, q) PROVE On(q)
  BY <1>0, <1>1, StageMoves
<1>2. RunStatus(tok) \in RunStatuses /\ "None" \in RunStatuses
  BY <1>0 DEF TypeInv, RunType, Runs, RunStatus, RunStatuses
<1>3. CASE Install(tok)
  <2>1. /\ exec' = [exec EXCEPT ![tok].pc = "Check", ![tok].seen = RunStatus(tok)]
        /\ exec[tok].pc = "Install" /\ "Check" \in Stages
    BY <1>3 DEF Install, At, Stages
  <2>2. On("Check")
    BY <1>0, <1>2, <2>1, StageMoves
  <2>3. QED
    BY <1>3, <2>1, <2>2 DEF TaskMoves
<1>4. CASE Check(tok)
  <2>1. PICK q \in {"Epoch", "Mark", "Finish"} :
           Step(tok, q) /\ exec[tok].pc = "Check" /\ (q # "Epoch" => ~Holds(tok))
    BY <1>4 DEF Check, At
  <2>2. On(q)
    BY <1>1, <2>1 DEF Stages
  <2>3. QED
    BY <2>1, <2>2 DEF TaskMoves
<1>5. CASE CheckEpoch(tok)
  <2>1. PICK q \in {"Start", "Cancel", "Finish"} : Step(tok, q) /\ exec[tok].pc = "Epoch"
    BY <1>5 DEF CheckEpoch, At
  <2>2. On(q)
    BY <1>1, <2>1 DEF Stages
  <2>3. QED
    BY <1>5, <2>1, <2>2 DEF TaskMoves
<1>6. CASE Start(tok)
  <2>1. PICK q \in {"Enter", "Mark", "Finish"} : Step(tok, q) /\ exec[tok].pc = "Start"
    BY <1>6 DEF Start, At
  <2>2. On(q)
    BY <1>1, <2>1 DEF Stages
  <2>3. QED
    BY <1>6, <2>1, <2>2 DEF TaskMoves
<1>7. CASE Enter(tok)
  <2> DEFINE none == "None"
  <2>1. /\ exec[tok].pc = "Enter"
        /\ \/ \E o \in {"Done", "Permanent"} :
                 exec' = [exec EXCEPT ![tok].pc = "Result", ![tok].out = o, ![tok].seen = none]
           \/ exec' = [exec EXCEPT ![tok].pc = "Run", ![tok].seen = none]
    BY <1>7 DEF Enter, At
  <2>0. none \in RunStatuses
    BY <1>2
  <2> HIDE DEF none
  <2>2. CASE exec' = [exec EXCEPT ![tok].pc = "Run", ![tok].seen = none]
    <3>1. On("Run")
      BY <1>0, <2>0, <2>2, StageMoves DEF Stages
    <3>2. QED
      BY <2>1, <3>1 DEF TaskMoves
  <2>3. ASSUME NEW o \in {"Done", "Permanent"},
               exec' = [exec EXCEPT ![tok].pc = "Result", ![tok].out = o, ![tok].seen = none]
        PROVE  TaskMoves(tok)
    <3>1. On("Result")
      BY <1>0, <2>0, <2>3, StageMoves DEF Stages
    <3>2. QED
      BY <2>1, <3>1 DEF TaskMoves
  <2>4. QED
    BY <2>1, <2>2, <2>3
<1>8. CASE RunEnd(tok)
  <2>1. PICK o \in {"None", "Done", "Waiting", "Transient", "Permanent"} :
           exec[tok].pc = "Run" /\ exec' = [exec EXCEPT ![tok].pc = "Result", ![tok].out = o]
    BY <1>8 DEF RunEnd, At
  <2>2. On("Result")
    BY <1>0, <1>2, <2>1, StageMoves DEF Stages
  <2>3. QED
    BY <2>1, <2>2 DEF TaskMoves
<1>9. CASE Result(tok)
  <2> DEFINE g == Granted(tok)
  <2>1. g \in BOOLEAN
    BY DEF Granted, Holds
  <2>2. exec[tok].pc = "Result" /\ exec' = [exec EXCEPT ![tok].pc = "Settle", ![tok].recorded = g]
    BY <1>9 DEF Result, At
  <2> HIDE DEF g
  <2>3. On("Settle")
    BY <1>0, <2>1, <2>2, StageMoves DEF Stages
  <2>4. QED
    BY <1>9, <2>2, <2>3 DEF TaskMoves
<1>10. CASE Settle(tok)
  <2>1. PICK q \in {"Mark", "Finish"} : Step(tok, q) /\ exec[tok].pc = "Settle"
    BY <1>10 DEF Settle, At
  <2>2. On(q)
    BY <1>1, <2>1 DEF Stages
  <2>3. QED
    BY <1>10, <2>1, <2>2 DEF TaskMoves
<1>11. CASE AckAgain(tok)
  <2>1. Step(tok, "Finish") /\ exec[tok].pc = "AckAgain"
    BY <1>11 DEF AckAgain, At
  <2>2. On("Finish")
    BY <1>1, <2>1 DEF Stages
  <2>3. QED
    BY <1>11, <2>1, <2>2 DEF TaskMoves
<1>12. CASE MarkRun(tok)
  <2>1. Step(tok, "Finish") /\ exec[tok].pc \in {"Cancel", "Mark"}
    BY <1>12 DEF MarkRun, At
  <2>2. On("Finish")
    BY <1>1, <2>1 DEF Stages
  <2>3. QED
    BY <2>1, <2>2 DEF TaskMoves
<1>13. CASE Finish(tok)
  <2> DEFINE n == [NoTask EXCEPT !.pc = "Done", !.d = exec[tok].d]
  <2>1. n \in TaskRecord /\ n.pc = "Done" /\ n.d = exec[tok].d
    BY <1>0, NewTaskType
  <2>2. exec[tok].pc = "Finish" /\ exec' = [exec EXCEPT ![tok] = n]
    BY <1>13 DEF Finish, At
  <2> HIDE DEF n
  <2>3. On("Done")
    BY <1>0, <2>1, <2>2, TaskUpdate
  <2>4. QED
    BY <1>13, <2>2, <2>3 DEF TaskMoves
<1>14. CASE Fault(tok)
  <2>1. PICK q \in {"Settle", "AckAgain", "Finish"} :
           Step(tok, q) /\ exec[tok].pc \in {"Check", "Epoch", "Start", "Result", "Settle", "AckAgain"}
    BY <1>14 DEF Fault
  <2>2. On(q)
    BY <1>1, <2>1 DEF Stages
  <2>3. spent'.faults = spent.faults + 1 /\ spent.faults \in Nat
    BY <1>14 DEF Fault, TypeInv, MaintType, Counts
  <2>4. spent'.faults > 0
    BY <2>3
  <2>5. QED
    BY <2>1, <2>2, <2>4 DEF TaskMoves
<1>15. QED
  BY <1>3, <1>4, <1>5, <1>6, <1>7, <1>8, <1>9, <1>10, <1>11, <1>12, <1>13, <1>14 DEF ExecStep

\* What a step may do to the worker of a thread and the calls at work for it
\* without stranding it: a Running worker stays, a Claiming one keeps a call.
WorkerOn(t) ==
    /\ workers'[t].st = "Running" => workers'[t] = workers[t]
    /\ workers'[t].st = "Claiming" =>
          \/ wakes'[t].claim + wakes'[t].revert > 0
          \/ workers[t].st = "Claiming" /\ wakes[t].claim + wakes[t].revert = 0

WorkStep == WorkType' /\ \A t \in Threads : WorkerOn(t)

\* A worker is written.
LEMMA WorkersUpdate ==
  ASSUME WorkType, NEW t \in Threads, NEW st \in {"Gone", "Idle", "Claiming", "Running"},
         NEW tok \in 0..MaxToken, workers' = [workers EXCEPT ![t] = Worker(st, tok)]
  PROVE  /\ workers' \in Workers /\ workers'[t].st = st /\ workers'[t].tok = tok
         /\ \A u \in Threads \ {t} : workers'[u] = workers[u]
BY DEF WorkType, Workers, Worker

\* The fields of a thread's calls that steps write.
LEMMA WakeFields ==
  ASSUME WorkType, NEW t \in Threads
  PROVE  LET w == wakes[t]
         IN  /\ w.try \in Nat /\ w.claim \in Nat /\ w.revert \in Nat
             /\ \A i : [wakes EXCEPT ![t].try = i] =
                   [wakes EXCEPT ![t] = [try |-> i, claim |-> w.claim, revert |-> w.revert]]
             /\ \A i : [wakes EXCEPT ![t].claim = i] =
                   [wakes EXCEPT ![t] = [try |-> w.try, claim |-> i, revert |-> w.revert]]
             /\ \A i : [wakes EXCEPT ![t].revert = i] =
                   [wakes EXCEPT ![t] = [try |-> w.try, claim |-> w.claim, revert |-> i]]
             /\ \A i, j : [wakes EXCEPT ![t].try = i, ![t].claim = j] =
                   [wakes EXCEPT ![t] = [try |-> i, claim |-> j, revert |-> w.revert]]
             /\ \A i, j : [wakes EXCEPT ![t].claim = i, ![t].revert = j] =
                   [wakes EXCEPT ![t] = [try |-> w.try, claim |-> i, revert |-> j]]
<1> DEFINE w == wakes[t]
           g(i, j, k) == [wakes EXCEPT ![t] = [try |-> i, claim |-> j, revert |-> k]]
<1>1. w \in [try : Nat, claim : Nat, revert : Nat]
  BY DEF WorkType, WakeCounts
<1>2. /\ \A i : [wakes EXCEPT ![t].try = i] = g(i, w.claim, w.revert)
      /\ \A i : [wakes EXCEPT ![t].claim = i] = g(w.try, i, w.revert)
      /\ \A i : [wakes EXCEPT ![t].revert = i] = g(w.try, w.claim, i)
  <2> SUFFICES ASSUME NEW i
               PROVE  /\ [wakes EXCEPT ![t].try = i] = g(i, w.claim, w.revert)
                      /\ [wakes EXCEPT ![t].claim = i] = g(w.try, i, w.revert)
                      /\ [wakes EXCEPT ![t].revert = i] = g(w.try, w.claim, i)
    OBVIOUS
  <2>1. /\ [wakes EXCEPT ![t].try = i] = [wakes EXCEPT ![t] = [w EXCEPT !.try = i]]
        /\ [wakes EXCEPT ![t].claim = i] = [wakes EXCEPT ![t] = [w EXCEPT !.claim = i]]
        /\ [wakes EXCEPT ![t].revert = i] = [wakes EXCEPT ![t] = [w EXCEPT !.revert = i]]
    OBVIOUS
  <2> HIDE DEF w
  <2>2. /\ [w EXCEPT !.try = i] = [try |-> i, claim |-> w.claim, revert |-> w.revert]
        /\ [w EXCEPT !.claim = i] = [try |-> w.try, claim |-> i, revert |-> w.revert]
        /\ [w EXCEPT !.revert = i] = [try |-> w.try, claim |-> w.claim, revert |-> i]
    BY <1>1
  <2>3. QED
    BY <2>1, <2>2
<1>3. ASSUME NEW i, NEW j, NEW k, NEW n
      PROVE  /\ [g(i, j, k) EXCEPT ![t].claim = n] = g(i, n, k)
             /\ [g(i, j, k) EXCEPT ![t].revert = n] = g(i, j, n)
  <2> DEFINE h == g(i, j, k)
             m == [try |-> i, claim |-> j, revert |-> k]
  <2>1. h[t] = m /\ \A v : [h EXCEPT ![t] = v] = [wakes EXCEPT ![t] = v]
    BY DEF WorkType, WakeCounts
  <2>2. /\ [m EXCEPT !.claim = n] = [try |-> i, claim |-> n, revert |-> k]
        /\ [m EXCEPT !.revert = n] = [try |-> i, claim |-> j, revert |-> n]
    OBVIOUS
  <2>3. /\ [h EXCEPT ![t].claim = n] = [h EXCEPT ![t] = [h[t] EXCEPT !.claim = n]]
        /\ [h EXCEPT ![t].revert = n] = [h EXCEPT ![t] = [h[t] EXCEPT !.revert = n]]
    OBVIOUS
  <2> HIDE DEF h, m
  <2>4. QED
    BY <2>1, <2>2, <2>3 DEF h
<1>4. \A i, j : [wakes EXCEPT ![t].try = i, ![t].claim = j] = g(i, j, w.revert)
  <2> SUFFICES ASSUME NEW i, NEW j
               PROVE  [wakes EXCEPT ![t].try = i, ![t].claim = j] = g(i, j, w.revert)
    OBVIOUS
  <2>1. [wakes EXCEPT ![t].try = i, ![t].claim = j] =
           [[wakes EXCEPT ![t].try = i] EXCEPT ![t].claim = j]
    OBVIOUS
  <2> HIDE DEF g
  <2>2. QED
    BY <1>2, <1>3, <2>1
<1>5. \A i, j : [wakes EXCEPT ![t].claim = i, ![t].revert = j] = g(w.try, i, j)
  <2> SUFFICES ASSUME NEW i, NEW j
               PROVE  [wakes EXCEPT ![t].claim = i, ![t].revert = j] = g(w.try, i, j)
    OBVIOUS
  <2>1. [wakes EXCEPT ![t].claim = i, ![t].revert = j] =
           [[wakes EXCEPT ![t].claim = i] EXCEPT ![t].revert = j]
    OBVIOUS
  <2> HIDE DEF g
  <2>2. QED
    BY <1>2, <1>3, <2>1
<1>6. QED
  BY <1>1, <1>2, <1>4, <1>5

\* A wake-up never takes a worker out of its work.
LEMMA WakeWorks ==
  ASSUME WorkType, NEW S, Wake(S)
  PROVE  WorkStep
<1>1. ASSUME NEW t \in Threads
      PROVE  /\ workers'[t] \in [st : {"Gone", "Idle", "Claiming", "Running"}, tok : 0..MaxToken]
             /\ workers'[t].st \in {"Running", "Claiming"} => workers'[t] = workers[t]
  <2>1. Worker("Idle", 0) \in [st : {"Gone", "Idle", "Claiming", "Running"}, tok : 0..MaxToken]
        /\ Worker("Idle", 0).st = "Idle"
    BY MailboxAssumption DEF Worker
  <2>2. workers'[t] \in {workers[t], Worker("Idle", 0)}
    BY DEF Wake, Created
  <2>3. workers[t] \in [st : {"Gone", "Idle", "Claiming", "Running"}, tok : 0..MaxToken]
    BY DEF WorkType, Workers
  <2>4. QED
    BY <2>1, <2>2, <2>3
<1>2. ASSUME NEW t \in Threads
      PROVE  /\ wakes'[t] \in [try : Nat, claim : Nat, revert : Nat]
             /\ wakes'[t].claim = wakes[t].claim /\ wakes'[t].revert = wakes[t].revert
  <2> DEFINE w == wakes[t]
  <2>1. w \in [try : Nat, claim : Nat, revert : Nat]
    BY DEF WorkType, WakeCounts
  <2>2. wakes'[t] \in {w, [w EXCEPT !.try = @ + 1]}
    BY DEF Wake
  <2> HIDE DEF w
  <2>3. /\ [w EXCEPT !.try = @ + 1] \in [try : Nat, claim : Nat, revert : Nat]
        /\ [w EXCEPT !.try = @ + 1].claim = w.claim /\ [w EXCEPT !.try = @ + 1].revert = w.revert
    BY <2>1
  <2>4. QED
    BY <2>1, <2>2, <2>3 DEF w
<1>3. workers' \in Workers
  <2>1. workers' = [t \in Threads |-> workers'[t]]
    BY DEF Wake
  <2>2. QED
    BY <1>1, <2>1 DEF Workers
<1>4. wakes' \in WakeCounts
  <2>1. wakes' = [t \in Threads |-> wakes'[t]]
    BY DEF Wake
  <2>2. QED
    BY <1>2, <2>1 DEF WakeCounts
<1>5. ASSUME NEW t \in Threads PROVE WorkerOn(t)
  <2>1. wakes[t].claim \in Nat /\ wakes[t].revert \in Nat
    BY DEF WorkType, WakeCounts
  <2>2. QED
    BY <1>1, <1>2, <2>1 DEF WorkerOn
<1>6. QED
  BY <1>3, <1>4, <1>5 DEF WorkStep, WorkType

\* try_dispatch_next takes an idle worker to Claiming, together with a call.
LEMMA TryWorks ==
  ASSUME WorkType, NEW t \in Threads, WakeTry(t)
  PROVE  WorkStep
<1> DEFINE w == wakes[t]
           idle == workers[t].st = "Idle"
           j == IF idle THEN w.claim + 1 ELSE w.claim
           i == w.try - 1
<1>0. w.try \in Nat /\ w.claim \in Nat /\ w.revert \in Nat
  BY WakeFields
<1>1. wakes' = [wakes EXCEPT ![t].try = i, ![t].claim = j] /\ w.try > 0
  BY DEF WakeTry
<1>2. i \in Nat
  BY <1>0, <1>1
<1>3. j \in Nat /\ (idle => j > 0) /\ (~idle => j = w.claim)
  BY <1>0
<1> HIDE DEF i, j, w
<1>4. wakes' = [wakes EXCEPT ![t] = [try |-> i, claim |-> j, revert |-> w.revert]]
  <2>1. \A m, n : [wakes EXCEPT ![t].try = m, ![t].claim = n] =
                   [wakes EXCEPT ![t] = [try |-> m, claim |-> n, revert |-> w.revert]]
    BY WakeFields DEF w
  <2>2. QED
    BY <1>1, <2>1 DEF w
<1>5. /\ wakes' \in WakeCounts /\ wakes'[t].claim = j /\ wakes'[t].revert = w.revert
      /\ \A u \in Threads \ {t} : wakes'[u] = wakes[u]
  BY <1>0, <1>2, <1>3, <1>4 DEF WorkType, WakeCounts
<1>6. CASE idle
  <2>1. workers' = [workers EXCEPT ![t] = Worker("Claiming", 0)]
    BY <1>6 DEF WakeTry
  <2>2. 0 \in 0..MaxToken
    BY MailboxAssumption
  <2>3. /\ workers' \in Workers /\ workers'[t].st = "Claiming"
        /\ \A u \in Threads \ {t} : workers'[u] = workers[u]
    BY <2>1, <2>2, WorkersUpdate
  <2>4. wakes'[t].claim + wakes'[t].revert > 0
    BY <1>0, <1>3, <1>5, <1>6
  <2>5. WorkerOn(t)
    BY <2>3, <2>4 DEF WorkerOn
  <2>6. ASSUME NEW u \in Threads \ {t} PROVE WorkerOn(u)
    <3>1. /\ workers'[u] = workers[u] /\ wakes'[u] = wakes[u]
          /\ wakes[u].claim \in Nat /\ wakes[u].revert \in Nat
      BY <1>5, <2>3 DEF WorkType, WakeCounts
    <3>2. QED
      BY <3>1 DEF WorkerOn
  <2>7. QED
    BY <1>5, <2>3, <2>5, <2>6 DEF WorkStep, WorkType
<1>7. CASE ~idle
  <2>1. workers' = workers
    BY <1>7 DEF WakeTry
  <2>2. ASSUME NEW u \in Threads PROVE WorkerOn(u)
    <3>1. /\ wakes'[u].claim = wakes[u].claim /\ wakes'[u].revert = wakes[u].revert
          /\ wakes[u].claim \in Nat /\ wakes[u].revert \in Nat
      BY <1>3, <1>5, <1>7 DEF WorkType, WakeCounts, w
    <3>2. QED
      BY <2>1, <3>1 DEF WorkerOn
  <2>3. QED
    BY <1>5, <2>1, <2>2 DEF WorkStep, WorkType
<1>8. QED
  BY <1>6, <1>7

\* A claim that came back empty or failed is to be reverted.
LEMMA MissedWorks ==
  ASSUME WorkType, NEW t \in Threads, wakes[t].claim > 0, UNCHANGED workers,
         wakes' = [wakes EXCEPT ![t].claim = @ - 1, ![t].revert = @ + 1]
  PROVE  WorkStep
<1> DEFINE w == wakes[t]
           j == w.claim - 1
           k == w.revert + 1
<1>0. w.try \in Nat /\ w.claim \in Nat /\ w.revert \in Nat
  BY WakeFields
<1>1. wakes' = [wakes EXCEPT ![t].claim = j, ![t].revert = k]
  OBVIOUS
<1>2. j \in Nat /\ k \in Nat /\ j + k > 0
  BY <1>0
<1> HIDE DEF j, k, w
<1>3. wakes' = [wakes EXCEPT ![t] = [try |-> w.try, claim |-> j, revert |-> k]]
  <2>1. \A m, n : [wakes EXCEPT ![t].claim = m, ![t].revert = n] =
                   [wakes EXCEPT ![t] = [try |-> w.try, claim |-> m, revert |-> n]]
    BY WakeFields DEF w
  <2>2. QED
    BY <1>1, <2>1 DEF w
<1>4. /\ wakes' \in WakeCounts /\ wakes'[t].claim = j /\ wakes'[t].revert = k
      /\ \A u \in Threads \ {t} : wakes'[u] = wakes[u]
  BY <1>0, <1>2, <1>3 DEF WorkType, WakeCounts
<1>5. ASSUME NEW u \in Threads PROVE WorkerOn(u)
  <2>1. CASE u = t
    BY <1>2, <1>4, <2>1 DEF WorkerOn
  <2>2. CASE u # t
    BY <1>4, <2>2 DEF WorkerOn, WorkType, WakeCounts
  <2>3. QED
    BY <2>1, <2>2
<1>6. QED
  BY <1>4, <1>5 DEF WorkStep, WorkType

\* revert_claiming_to_idle leaves no worker without its task.
LEMMA RevertWorks ==
  ASSUME WorkType, NEW t \in Threads, WakeRevert(t)
  PROVE  WorkStep
<1> DEFINE w == wakes[t]
           k == w.revert - 1
<1>0. w.try \in Nat /\ w.claim \in Nat /\ w.revert \in Nat
  BY WakeFields
<1>1. wakes' = [wakes EXCEPT ![t].revert = k] /\ w.revert > 0
  BY DEF WakeRevert
<1>2. k \in Nat
  BY <1>0, <1>1
<1> HIDE DEF k, w
<1>3. wakes' = [wakes EXCEPT ![t] = [try |-> w.try, claim |-> w.claim, revert |-> k]]
  <2>1. \A m : [wakes EXCEPT ![t].revert = m] =
                   [wakes EXCEPT ![t] = [try |-> w.try, claim |-> w.claim, revert |-> m]]
    BY WakeFields DEF w
  <2>2. QED
    BY <1>1, <2>1 DEF w
<1>4. /\ wakes' \in WakeCounts /\ wakes'[t].claim = w.claim /\ wakes'[t].revert = k
      /\ \A u \in Threads \ {t} : wakes'[u] = wakes[u]
  BY <1>0, <1>2, <1>3 DEF WorkType, WakeCounts
<1>5. /\ workers' \in Workers /\ workers'[t].st # "Claiming"
      /\ workers'[t].st = "Running" => workers'[t] = workers[t]
      /\ \A u \in Threads \ {t} : workers'[u] = workers[u]
  <2>1. CASE workers[t].st = "Claiming"
    <3>1. workers' = [workers EXCEPT ![t] = Worker("Idle", 0)] /\ 0 \in 0..MaxToken
      BY <2>1, MailboxAssumption DEF WakeRevert
    <3>2. /\ workers' \in Workers /\ workers'[t].st = "Idle"
          /\ \A u \in Threads \ {t} : workers'[u] = workers[u]
      BY <3>1, WorkersUpdate
    <3>3. QED
      BY <3>2
  <2>2. CASE workers[t].st # "Claiming"
    BY <2>2 DEF WakeRevert, WorkType
  <2>3. QED
    BY <2>1, <2>2
<1>6. ASSUME NEW u \in Threads PROVE WorkerOn(u)
  <2>1. CASE u = t
    BY <1>5, <2>1 DEF WorkerOn
  <2>2. CASE u # t
    <3>1. /\ workers'[u] = workers[u] /\ wakes'[u] = wakes[u]
          /\ wakes[u].claim \in Nat /\ wakes[u].revert \in Nat
      BY <1>4, <1>5, <2>2 DEF WorkType, WakeCounts
    <3>2. QED
      BY <3>1 DEF WorkerOn
  <2>3. QED
    BY <2>1, <2>2
<1>7. QED
  BY <1>4, <1>5, <1>6 DEF WorkStep, WorkType

\* gc_idle_workers removes idle workers only.
LEMMA RemoveWorks ==
  ASSUME WorkType, NEW t \in Threads, GcRemove(t)
  PROVE  WorkStep
<1>1. /\ workers' \in Workers
      /\ workers'[t].st \in {"Running", "Claiming"} => workers'[t] = workers[t]
      /\ \A u \in Threads \ {t} : workers'[u] = workers[u]
  <2>1. CASE workers[t].st = "Idle"
    <3>1. workers' = [workers EXCEPT ![t] = Worker("Gone", 0)] /\ 0 \in 0..MaxToken
      BY <2>1, MailboxAssumption DEF GcRemove
    <3>2. /\ workers' \in Workers /\ workers'[t].st = "Gone"
          /\ \A u \in Threads \ {t} : workers'[u] = workers[u]
      BY <3>1, WorkersUpdate
    <3>3. QED
      BY <3>2
  <2>2. CASE workers[t].st # "Idle"
    BY <2>2 DEF GcRemove, WorkType
  <2>3. QED
    BY <2>1, <2>2
<1>2. wakes' = wakes
  BY DEF GcRemove
<1>3. ASSUME NEW u \in Threads PROVE WorkerOn(u)
  <2>1. workers'[u].st \in {"Running", "Claiming"} => workers'[u] = workers[u]
    BY <1>1
  <2>2. wakes[u].claim \in Nat /\ wakes[u].revert \in Nat
    BY DEF WorkType, WakeCounts
  <2>3. QED
    BY <1>2, <2>1, <2>2 DEF WorkerOn
<1>4. QED
  BY <1>1, <1>2, <1>3 DEF WorkStep, WorkType

\* finish_execution frees the worker or leaves it to another task.
LEMMA FinishWorks ==
  ASSUME TypeInv, NEW tok \in Tokens, Finish(tok)
  PROVE  /\ WorkStep
         /\ \A t \in Threads : workers'[t].st = "Running" => workers'[t].tok # tok \/ t # T(tok)
<1> DEFINE t == T(tok)
           w == workers[t]
           mine == w.st = "Running" /\ exec[w.tok].d = exec[tok].d
<1>0. t \in Threads /\ WorkType
  BY HolderFacts, MailboxAssumption DEF T, TypeInv
<1>1. PICK n \in {Worker("Idle", 0), w} :
         /\ workers' = [workers EXCEPT ![t] = n]
         /\ n = w => ~mine
  <2>1. CASE mine
    <3>1. workers' = [workers EXCEPT ![t] = Worker("Idle", 0)]
      BY <2>1 DEF Finish
    <3>2. Worker("Idle", 0).st = "Idle"
      BY DEF Worker
    <3>3. QED
      BY <2>1, <3>1, <3>2
  <2>2. CASE ~mine
    <3>1. workers' = [workers EXCEPT ![t] = Created(t)]
      BY <2>2 DEF Finish
    <3>2. QED
      BY <2>2, <3>1 DEF Created
  <2>3. QED
    BY <2>1, <2>2
<1>2. Worker("Idle", 0) \in [st : {"Gone", "Idle", "Claiming", "Running"}, tok : 0..MaxToken]
      /\ Worker("Idle", 0).st = "Idle"
  BY MailboxAssumption DEF Worker
<1> HIDE DEF t
<1>3. n \in [st : {"Gone", "Idle", "Claiming", "Running"}, tok : 0..MaxToken]
  BY <1>0, <1>1, <1>2 DEF WorkType, Workers
<1>4. /\ workers' \in Workers /\ workers'[t] = n
      /\ \A u \in Threads \ {t} : workers'[u] = workers[u]
  BY <1>0, <1>1, <1>3 DEF WorkType, Workers
<1> DEFINE c == wakes[t]
           i == c.try + 1
<1>5. c.try \in Nat /\ c.claim \in Nat /\ c.revert \in Nat
  BY <1>0, WakeFields
<1>6. wakes' = [wakes EXCEPT ![t].try = i]
  BY DEF Finish, t
<1>7. i \in Nat
  BY <1>5
<1> HIDE DEF i, c
<1>8. wakes' = [wakes EXCEPT ![t] = [try |-> i, claim |-> c.claim, revert |-> c.revert]]
  <2>1. \A m : [wakes EXCEPT ![t].try = m] =
                   [wakes EXCEPT ![t] = [try |-> m, claim |-> c.claim, revert |-> c.revert]]
    BY <1>0, WakeFields DEF c
  <2>2. QED
    BY <1>6, <2>1 DEF c
<1>9. /\ wakes' \in WakeCounts /\ wakes'[t].claim = c.claim /\ wakes'[t].revert = c.revert
      /\ \A u \in Threads \ {t} : wakes'[u] = wakes[u]
  BY <1>0, <1>5, <1>7, <1>8 DEF WorkType, WakeCounts
<1>10. ASSUME NEW u \in Threads PROVE WorkerOn(u)
  <2>1. workers'[u].st \in {"Running", "Claiming"} => workers'[u] = workers[u]
    BY <1>1, <1>2, <1>4
  <2>2. /\ wakes[u].claim \in Nat /\ wakes[u].revert \in Nat
        /\ wakes'[u].claim = wakes[u].claim /\ wakes'[u].revert = wakes[u].revert
    BY <1>0, <1>9 DEF WorkType, WakeCounts, c
  <2>3. QED
    BY <2>1, <2>2 DEF WorkerOn
<1>11. workers'[t].st = "Running" => workers'[t].tok # tok
  BY <1>1, <1>2, <1>4
<1>12. QED
  BY <1>4, <1>9, <1>10, <1>11 DEF WorkStep, WorkType, t

\* The task of a new claim.
LEMMA InstallTask ==
  ASSUME NEW x \in DispatchIds
  PROVE  /\ [NoTask EXCEPT !.pc = "Install", !.d = x] \in TaskRecord
         /\ [NoTask EXCEPT !.pc = "Install", !.d = x].pc = "Install"
         /\ [NoTask EXCEPT !.pc = "Install", !.d = x].d = x
<1>1. "Install" \in {"Install", "Done"}
  OBVIOUS
<1>2. QED
  BY <1>1, NewTaskType, Zenon

\* A claim gets a task of its own, under a token that no task had.
Spawned(d) ==
    /\ lastToken' \in Tokens /\ lastToken' = lastToken + 1
    /\ exec' \in Tasks /\ exec[lastToken'].pc = "None"
    /\ exec'[lastToken'].pc = "Install" /\ exec'[lastToken'].d = d
    /\ \A a \in Tokens \ {lastToken'} : exec'[a] = exec[a]
    /\ renewal' = renewal \cup {lastToken'}

\* A claim spawns such a task.
LEMMA SpawnShape ==
  ASSUME TypeInv, NEW d \in DispatchIds, Spawn(d), lastToken' = lastToken + 1, lastToken < MaxToken
  PROVE  Spawned(d)
<1> DEFINE n == [NoTask EXCEPT !.pc = "Install", !.d = d]
           k == lastToken'
<1>1. lastToken \in Nat /\ exec \in Tasks
  BY RecordFacts DEF TypeInv, TaskType
<1>2. k \in Tokens /\ k = lastToken + 1 /\ ~(k <= lastToken)
  BY <1>1, MailboxAssumption DEF Tokens
<1>3. exec[k].pc = "None"
  BY <1>2 DEF TypeInv, TokenInv
<1>4. n \in TaskRecord /\ n.pc = "Install" /\ n.d = d
  BY InstallTask, Zenon
<1>5. exec' = [exec EXCEPT ![k] = n] /\ renewal' = renewal \cup {k}
  BY DEF Spawn
<1> HIDE DEF n, k
<1>6. /\ exec' \in Tasks /\ exec'[k] = n
      /\ \A a \in Tokens \ {k} : exec'[a] = exec[a]
  BY <1>1, <1>2, <1>4, <1>5, TaskUpdate
<1>7. QED
  BY <1>2, <1>3, <1>4, <1>5, <1>6 DEF Spawned, k

\* A claim that succeeded leaves the rest to its task.
LEMMA ClaimedWorks ==
  ASSUME WorkType, NEW t \in Threads, wakes[t].claim > 0, UNCHANGED workers,
         wakes' = [wakes EXCEPT ![t].claim = @ - 1]
  PROVE  WorkType' /\ \A u \in Threads \ {t} : WorkerOn(u)
<1> DEFINE w == wakes[t]
           j == w.claim - 1
<1>0. w.try \in Nat /\ w.claim \in Nat /\ w.revert \in Nat
  BY WakeFields
<1>1. wakes' = [wakes EXCEPT ![t].claim = j]
  OBVIOUS
<1>2. j \in Nat
  BY <1>0
<1> HIDE DEF j, w
<1>3. wakes' = [wakes EXCEPT ![t] = [try |-> w.try, claim |-> j, revert |-> w.revert]]
  <2>1. \A m : [wakes EXCEPT ![t].claim = m] =
                   [wakes EXCEPT ![t] = [try |-> w.try, claim |-> m, revert |-> w.revert]]
    BY WakeFields DEF w
  <2>2. QED
    BY <1>1, <2>1
<1>4. wakes' \in WakeCounts /\ \A u \in Threads \ {t} : wakes'[u] = wakes[u]
  BY <1>0, <1>2, <1>3 DEF WorkType, WakeCounts
<1>5. ASSUME NEW u \in Threads \ {t} PROVE WorkerOn(u)
  <2>1. /\ wakes'[u] = wakes[u] /\ wakes[u].claim \in Nat /\ wakes[u].revert \in Nat
    BY <1>4 DEF WorkType, WakeCounts
  <2>2. QED
    BY <2>1 DEF WorkerOn
<1>6. QED
  BY <1>4, <1>5 DEF WorkType

\* The claimer's last step makes the worker of the thread Running.
LEMMA InstallWorks ==
  ASSUME TypeInv, NEW tok \in Tokens, Install(tok)
  PROVE  /\ WorkType' /\ T(tok) \in Threads
         /\ workers'[T(tok)].st = "Running" /\ workers'[T(tok)].tok = tok
         /\ \A u \in Threads \ {T(tok)} : WorkerOn(u)
<1>1. T(tok) \in Threads /\ WorkType
  BY HolderFacts, MailboxAssumption DEF T, TypeInv
<1> DEFINE t == T(tok)
<1>2. workers' = [workers EXCEPT ![t] = Worker("Running", tok)] /\ wakes' = wakes
  BY DEF Install
<1>3. tok \in 0..MaxToken
  BY MailboxAssumption DEF Tokens
<1> HIDE DEF t
<1>4. /\ workers' \in Workers /\ workers'[t].st = "Running" /\ workers'[t].tok = tok
      /\ \A u \in Threads \ {t} : workers'[u] = workers[u]
  BY <1>1, <1>2, <1>3, WorkersUpdate DEF t
<1>5. ASSUME NEW u \in Threads \ {t} PROVE WorkerOn(u)
  <2>1. /\ wakes'[u] = wakes[u] /\ wakes[u].claim \in Nat /\ wakes[u].revert \in Nat
    BY <1>1, <1>2 DEF WorkType, WakeCounts
  <2>2. QED
    BY <1>4, <2>1 DEF WorkerOn
<1>6. QED
  BY <1>1, <1>2, <1>4, <1>5 DEF WorkType, t

\* Nothing happens to the workers.
LEMMA IdleWorks ==
  ASSUME WorkType, UNCHANGED workerVars
  PROVE  WorkStep
<1>1. ASSUME NEW t \in Threads PROVE WorkerOn(t)
  BY DEF WorkType, WakeCounts, WorkerOn, workerVars
<1>2. QED
  BY <1>1 DEF WorkStep, WorkType, workerVars

(***************************************************************************)
(* Tasks and workers, step by step                                         *)
(***************************************************************************)

\* The timers, the controls and the sweep leave the tasks alone, and do no more
\* to the workers than wake them or remove idle ones.
LEMMA QuietSteps ==
  ASSUME TimeSteps \/ ControlSteps \/ SweepSteps
  PROVE  /\ UNCHANGED execVars
         /\ UNCHANGED workerVars \/ (\E S : Wake(S)) \/ \E t \in Threads : GcRemove(t)
<1>1. ASSUME NEW d \in DispatchIds, Expire(d) \/ Elapse(d) PROVE UNCHANGED <<execVars, workerVars>>
  BY <1>1 DEF Expire, Elapse
<1>2. ASSUME NEW d \in DispatchIds, CancelDispatch(d) PROVE UNCHANGED <<execVars, workerVars>>
  BY <1>2 DEF CancelDispatch
<1>3. ASSUME NEW d \in DispatchIds, ControlMark(d) PROVE UNCHANGED <<execVars, workerVars>>
  BY <1>3 DEF ControlMark
<1>4. ASSUME NEW t \in Threads, InterruptThread(t) \/ ControlStop(t)
      PROVE  UNCHANGED <<execVars, workerVars>>
  BY <1>4 DEF InterruptThread, ControlStop
<1>5. ASSUME NEW d \in DispatchIds, Reconcile(d) \/ Purge(d) PROVE UNCHANGED <<execVars, workerVars>>
  BY <1>5 DEF Reconcile, Purge
<1>6. ASSUME NEW t \in Threads, GcScan(t) PROVE UNCHANGED <<execVars, workerVars>>
  BY <1>6 DEF GcScan
<1>7. ASSUME NEW t \in Threads, GcRemove(t) PROVE UNCHANGED execVars
  BY <1>7 DEF GcRemove
<1>8. ASSUME SweepReclaim \/ RecoverReclaim \/ RecoverList \/ RecoverLoad \/ RecoverEnqueue
      PROVE  UNCHANGED <<execVars, workerVars>>
  <2>1. SweepReclaim => UNCHANGED <<execVars, workerVars>>
    BY DEF SweepReclaim
  <2>2. RecoverReclaim \/ RecoverList => UNCHANGED <<execVars, workerVars>>
    BY DEF RecoverReclaim, RecoverList
  <2>3. RecoverLoad => UNCHANGED <<execVars, workerVars>>
    BY SMTT(30) DEF RecoverLoad
  <2>4. RecoverEnqueue => UNCHANGED <<execVars, workerVars>>
    BY DEF RecoverEnqueue
  <2>5. QED
    BY <1>8, <2>1, <2>2, <2>3, <2>4
<1>9. ASSUME SweepOne \/ RecoverWake \/ RecoverFinish
      PROVE  UNCHANGED execVars /\ (UNCHANGED workerVars \/ \E S : Wake(S))
  BY <1>9 DEF SweepOne, RecoverWake, RecoverFinish
<1>10. QED
  BY <1>1, <1>2, <1>3, <1>4, <1>5, <1>6, <1>7, <1>8, <1>9
     DEF TimeSteps, ControlSteps, SweepSteps, RecoverStep

\* Only a claim gives rise to a task.
LEMMA OtherTasks ==
  ASSUME TypeInv, SubmitSteps \/ TimeSteps \/ ControlSteps \/ SweepSteps \/ WakeSteps
  PROVE  \/ UNCHANGED execVars
         \/ \E d \in DispatchIds : Spawned(d) /\ Taken(d)
<1>1. CASE TimeSteps \/ ControlSteps \/ SweepSteps
  BY <1>1, QuietSteps
<1>3. ASSUME NEW d \in DispatchIds, SubmitInline(d)
      PROVE  UNCHANGED execVars \/ (Spawned(d) /\ Taken(d))
  BY <1>3, InlineEffect, SpawnShape
<1>4. CASE SubmitSteps
  <2>1. PICK d \in DispatchIds : SubmitStep(d) \/ SubmitInterruptFault(d) \/ SubmitFault(d)
    BY <1>4 DEF SubmitSteps
  <2>2. SubmitInline(d) \/ UNCHANGED execVars
    BY <2>1 DEF SubmitStep, SubmitInterrupt, SubmitStop, SubmitMark, SubmitCancel, SubmitRelease,
         SubmitPrepare, SubmitEnqueue, SubmitWake, SubmitUndo, SubmitUndoMark,
         SubmitInterruptFault, SubmitFault
  <2>3. QED
    BY <1>3, <2>2
<1>5. ASSUME NEW t \in Threads, WakeClaim(t)
      PROVE  UNCHANGED execVars \/ \E d \in DispatchIds : Spawned(d) /\ Taken(d)
  BY <1>5, WakeClaimEffect, SpawnShape
<1>6. CASE WakeSteps
  <2>1. PICK t \in Threads : WakeStep(t) \/ WakeFault(t)
    BY <1>6 DEF WakeSteps
  <2>2. WakeClaim(t) \/ UNCHANGED execVars
    BY <2>1 DEF WakeStep, WakeTry, WakeRevert, WakeFault
  <2>3. QED
    BY <1>5, <2>2
<1>7. QED
  BY <1>1, <1>4, <1>6

\* Submissions, controls and sweeps only wake workers, or remove idle ones.
LEMMA OtherWorks ==
  ASSUME TypeInv, SubmitSteps \/ TimeSteps \/ ControlSteps \/ SweepSteps
  PROVE  WorkStep
<1>0. WorkType
  BY DEF TypeInv
<1>1. CASE UNCHANGED workerVars
  BY <1>0, <1>1, IdleWorks
<1>2. ASSUME NEW S, Wake(S) PROVE WorkStep
  BY <1>0, <1>2, WakeWorks
<1>3. ASSUME NEW t \in Threads, GcRemove(t) PROVE WorkStep
  BY <1>0, <1>3, RemoveWorks
<1>4. CASE TimeSteps \/ ControlSteps \/ SweepSteps
  BY <1>1, <1>2, <1>3, <1>4, QuietSteps
<1>6. CASE SubmitSteps
  <2>1. PICK d \in DispatchIds : SubmitStep(d) \/ SubmitInterruptFault(d) \/ SubmitFault(d)
    BY <1>6 DEF SubmitSteps
  <2>2. UNCHANGED workerVars \/ Wake({ThreadOf[d]})
    BY <2>1 DEF SubmitStep, SubmitInterrupt, SubmitStop, SubmitMark, SubmitCancel, SubmitRelease,
         SubmitPrepare, SubmitEnqueue, SubmitWake, SubmitInline, SubmitUndo, SubmitUndoMark,
         SubmitInterruptFault, SubmitFault
  <2>3. QED
    BY <1>1, <1>2, <2>2
<1>7. QED
  BY <1>4, <1>6

\* A thread's worker keeps its task or its call as long as its tasks stay.
LEMMA WorkerStays ==
  ASSUME TypeInv, NEW t \in Threads, WorkerOf(t), WorkerOn(t),
         workers'[t].st = "Running" /\ workers'[t] = workers[t] =>
            /\ exec'[workers[t].tok].pc \notin {"None", "Done"}
            /\ exec'[workers[t].tok].d = exec[workers[t].tok].d,
         \A a \in Tokens : exec[a].pc = "Install" /\ T(a) = t =>
            exec'[a].pc = "Install" /\ exec'[a].d = exec[a].d
  PROVE  WorkerOf(t)'
<1>0. wakes[t].claim \in Nat /\ wakes[t].revert \in Nat
  BY DEF TypeInv, WorkType, WakeCounts
<1>1. CASE workers'[t].st = "Running"
  <2>1. workers'[t] = workers[t] /\ workers[t].st = "Running"
    BY <1>1 DEF WorkerOn
  <2>2. QED
    BY <1>1, <2>1 DEF WorkerOf, InFlight, T
<1>2. CASE workers'[t].st = "Claiming"
  <2>1. CASE wakes'[t].claim + wakes'[t].revert > 0
    BY <1>2, <2>1 DEF WorkerOf
  <2>2. CASE workers[t].st = "Claiming" /\ wakes[t].claim + wakes[t].revert = 0
    <3>1. PICK a \in Tokens : exec[a].pc = "Install" /\ T(a) = t
      BY <2>2 DEF WorkerOf
    <3>2. exec'[a].pc = "Install" /\ ThreadOf[exec'[a].d] = t
      BY <3>1 DEF T
    <3>3. QED
      BY <1>2, <3>2 DEF WorkerOf, T
  <2>3. QED
    BY <1>2, <2>1, <2>2 DEF WorkerOn
<1>3. QED
  BY <1>1, <1>2 DEF WorkerOf

\* Without a step of a task the workers keep theirs.
LEMMA TasksStay ==
  ASSUME TypeInv, WorkerInv,
         UNCHANGED exec \/ \E d \in DispatchIds : Spawned(d),
         NEW t \in Threads, WorkerOn(t)
  PROVE  WorkerOf(t)'
<1>1. \A a \in Tokens : InFlight(a) => exec'[a] = exec[a]
  BY DEF Spawned, InFlight
<1>2. WorkerOf(t)
  BY DEF WorkerInv
<1>3. workers'[t].st = "Running" /\ workers'[t] = workers[t] =>
            /\ exec'[workers[t].tok].pc \notin {"None", "Done"}
            /\ exec'[workers[t].tok].d = exec[workers[t].tok].d
  BY <1>1, <1>2 DEF WorkerOf, InFlight
<1>4. \A a \in Tokens : exec[a].pc = "Install" /\ T(a) = t =>
            exec'[a].pc = "Install" /\ exec'[a].d = exec[a].d
  BY <1>1 DEF InFlight
<1>5. QED
  BY <1>2, <1>3, <1>4, WorkerStays

\* A claim of a thread's own call leaves a task behind that will take the worker.
LEMMA WakeClaimWorkers ==
  ASSUME TypeInv, WorkerInv, NEW t \in Threads, WakeClaim(t)
  PROVE  WorkType' /\ WorkerInv'
<1>0. WorkType /\ wakes[t].claim > 0 /\ UNCHANGED workers
  BY DEF TypeInv, WakeClaim
<1>1. CASE /\ UNCHANGED execVars
           /\ wakes' = [wakes EXCEPT ![t].claim = @ - 1, ![t].revert = @ + 1]
  <2>1. WorkStep
    BY <1>0, <1>1, MissedWorks
  <2>2. UNCHANGED exec
    BY <1>1 DEF execVars
  <2>3. \A u \in Threads : WorkerOf(u)'
    BY <2>1, <2>2, TasksStay DEF WorkStep
  <2>4. QED
    BY <2>1, <2>3 DEF WorkStep, WorkerInv
<1>2. ASSUME NEW d \in DispatchIds, dispatches[d].thread = t, Taken(d),
             lastToken' = lastToken + 1, lastToken < MaxToken, Spawn(d),
             wakes' = [wakes EXCEPT ![t].claim = @ - 1]
      PROVE  WorkType' /\ WorkerInv'
  <2>1. WorkType' /\ \A u \in Threads \ {t} : WorkerOn(u)
    BY <1>0, <1>2, ClaimedWorks
  <2>2. Spawned(d)
    BY <1>2, SpawnShape
  <2>3. \A u \in Threads \ {t} : WorkerOf(u)'
    BY <2>1, <2>2, TasksStay
  <2>4. ThreadOf[d] = t
    BY <1>2 DEF TypeInv, TokenInv, Taken
  <2>5. \E a \in Tokens : exec'[a].pc = "Install" /\ ThreadOf[exec'[a].d] = t
    BY <2>2, <2>4 DEF Spawned
  <2>6. \A a \in Tokens : InFlight(a) => exec'[a] = exec[a]
    BY <2>2 DEF Spawned, InFlight
  <2>7. workers'[t] = workers[t] /\ WorkerOf(t)
    BY <1>0 DEF WorkerInv
  <2>8. WorkerOf(t)'
    BY <2>5, <2>6, <2>7 DEF WorkerOf, InFlight, T
  <2>9. QED
    BY <2>1, <2>3, <2>8 DEF WorkerInv
<1>3. QED
  BY <1>1, <1>2, WakeClaimEffect

\* A task that starts takes its thread's worker, and one that ends gives up its own.
LEMMA TaskWorkers ==
  ASSUME TypeInv, WorkerInv, NEW tok \in Tokens, ExecStep(tok) \/ Fault(tok)
  PROVE  WorkType' /\ WorkerInv'
<1>0. WorkType /\ TaskMoves(tok)
  BY TaskMovesStep DEF TypeInv
<1>1. /\ exec'[tok].d = exec[tok].d
      /\ \A a \in Tokens \ {tok} : exec'[a] = exec[a]
  BY <1>0 DEF TaskMoves
<1>2. CASE Install(tok)
  <2>1. /\ WorkType' /\ T(tok) \in Threads
        /\ workers'[T(tok)].st = "Running" /\ workers'[T(tok)].tok = tok
        /\ \A u \in Threads \ {T(tok)} : WorkerOn(u)
    BY <1>2, InstallWorks
  <2>2. exec[tok].pc = "Install" /\ exec'[tok].pc = "Check"
    BY <1>0, <1>2 DEF Install, At, TaskMoves
  <2> DEFINE t == T(tok)
  <2>3. WorkerOf(t)'
    <3>1. ThreadOf[exec'[tok].d] = t
      BY <1>1 DEF T
    <3> HIDE DEF t
    <3>2. workers'[t].st = "Running" /\ workers'[t].tok = tok
      BY <2>1 DEF t
    <3>3. t' = t
      BY <1>1 DEF t, T
    <3>4. QED
      BY <2>2, <3>1, <3>2, <3>3 DEF WorkerOf, InFlight, T
  <2>4. ASSUME NEW u \in Threads, u # T(tok) PROVE WorkerOf(u)'
    <3>1. WorkerOf(u) /\ WorkerOn(u)
      BY <2>1, <2>4 DEF WorkerInv
    <3>2. workers'[u].st = "Running" /\ workers'[u] = workers[u] =>
            /\ exec'[workers[u].tok].pc \notin {"None", "Done"}
            /\ exec'[workers[u].tok].d = exec[workers[u].tok].d
      BY <1>1, <2>4, <3>1 DEF WorkerOf, InFlight
    <3>3. \A a \in Tokens : exec[a].pc = "Install" /\ T(a) = u =>
            exec'[a].pc = "Install" /\ exec'[a].d = exec[a].d
      BY <1>1, <2>4
    <3>4. QED
      BY <3>1, <3>2, <3>3, WorkerStays
  <2>5. QED
    BY <1>1, <2>1, <2>3, <2>4 DEF WorkerInv, T
<1>3. CASE Finish(tok)
  <2>1. /\ WorkStep
        /\ \A t \in Threads : workers'[t].st = "Running" => workers'[t].tok # tok \/ t # T(tok)
    BY <1>3, FinishWorks
  <2>2. exec[tok].pc = "Finish"
    BY <1>3 DEF Finish, At
  <2>3. ASSUME NEW u \in Threads PROVE WorkerOf(u)'
    <3>1. WorkerOf(u) /\ WorkerOn(u)
      BY <2>1 DEF WorkerInv, WorkStep
    <3>2. workers'[u].st = "Running" /\ workers'[u] = workers[u] =>
            /\ exec'[workers[u].tok].pc \notin {"None", "Done"}
            /\ exec'[workers[u].tok].d = exec[workers[u].tok].d
      BY <1>1, <2>1, <3>1 DEF WorkerOf, InFlight
    <3>3. \A a \in Tokens : exec[a].pc = "Install" /\ T(a) = u =>
            exec'[a].pc = "Install" /\ exec'[a].d = exec[a].d
      BY <1>1, <2>2
    <3>4. QED
      BY <3>1, <3>2, <3>3, WorkerStays
  <2>4. QED
    BY <2>1, <2>3 DEF WorkerInv, WorkStep
<1>4. CASE ~(Install(tok) \/ Finish(tok))
  <2>1. UNCHANGED workerVars
    BY <1>4 DEF ExecStep, Check, CheckEpoch, Start, Enter, RunEnd, Result, Settle, AckAgain,
                MarkRun, Fault
  <2>2. WorkStep
    BY <1>0, <2>1, IdleWorks
  <2>3. /\ exec[tok].pc # "Install"
        /\ exec[tok].pc \notin {"None", "Done"} => exec'[tok].pc \notin {"None", "Done"}
    BY <1>0, <1>4 DEF TaskMoves
  <2>4. ASSUME NEW u \in Threads PROVE WorkerOf(u)'
    <3>1. WorkerOf(u) /\ WorkerOn(u)
      BY <2>2 DEF WorkerInv, WorkStep
    <3>2. workers'[u].st = "Running" /\ workers'[u] = workers[u] =>
            /\ exec'[workers[u].tok].pc \notin {"None", "Done"}
            /\ exec'[workers[u].tok].d = exec[workers[u].tok].d
      BY <1>1, <2>3, <3>1 DEF WorkerOf, InFlight
    <3>3. \A a \in Tokens : exec[a].pc = "Install" /\ T(a) = u =>
            exec'[a].pc = "Install" /\ exec'[a].d = exec[a].d
      BY <1>1, <2>3
    <3>4. QED
      BY <3>1, <3>2, <3>3, WorkerStays
  <2>5. QED
    BY <2>2, <2>4 DEF WorkerInv, WorkStep
<1>5. QED
  BY <1>2, <1>3, <1>4

\* Every step keeps the workers typed and leaves no busy one without a task.
LEMMA WorkerStep ==
  ASSUME TypeInv, WorkerInv, Next
  PROVE  WorkType' /\ WorkerInv'
<1>0. WorkType
  BY DEF TypeInv
<1>1. ASSUME WorkStep, UNCHANGED exec \/ \E d \in DispatchIds : Spawned(d)
      PROVE  WorkType' /\ WorkerInv'
  BY <1>1, TasksStay DEF WorkStep, WorkerInv
<1>2. CASE SubmitSteps \/ TimeSteps \/ ControlSteps \/ SweepSteps
  BY <1>1, <1>2, OtherWorks, OtherTasks DEF execVars
<1>3. CASE WakeSteps
  <2>1. PICK t \in Threads : WakeStep(t) \/ WakeFault(t)
    BY <1>3 DEF WakeSteps
  <2>2. CASE WakeClaim(t)
    BY <2>2, WakeClaimWorkers
  <2>3. CASE WakeTry(t)
    BY <1>0, <1>1, <2>3, TryWorks DEF WakeTry, execVars
  <2>4. CASE WakeRevert(t)
    BY <1>0, <1>1, <2>4, RevertWorks DEF WakeRevert, execVars
  <2>5. CASE WakeFault(t)
    <3>1. WorkStep
      BY <1>0, <2>5, MissedWorks DEF WakeFault
    <3>2. UNCHANGED exec
      BY <2>5 DEF WakeFault, execVars
    <3>3. QED
      BY <1>1, <3>1, <3>2
  <2>6. QED
    BY <2>1, <2>2, <2>3, <2>4, <2>5 DEF WakeStep
<1>4. CASE TaskSteps
  <2>1. PICK tok \in Tokens :
           ExecStep(tok) \/ RunStep(tok) \/ Fault(tok) \/ Renew(tok) \/ RenewFault(tok)
    BY <1>4 DEF TaskSteps
  <2>2. CASE ExecStep(tok) \/ Fault(tok)
    BY <2>2, TaskWorkers
  <2>3. CASE RunStep(tok) \/ Renew(tok) \/ RenewFault(tok)
    <3>1. UNCHANGED workerVars /\ UNCHANGED exec
      BY <2>3 DEF RunStep, Renew, RenewFault, execVars
    <3>2. QED
      BY <1>0, <1>1, <3>1, IdleWorks
  <2>4. QED
    BY <2>1, <2>2, <2>3
<1>5. CASE Crash
  <2>1. workers' = [t \in Threads |-> Worker("Gone", 0)] /\ wakes' = NoWakes
    BY <1>5 DEF Crash
  <2>2. WorkType'
    BY <2>1, MailboxAssumption DEF WorkType, Workers, WakeCounts, NoWakes, Worker
  <2>3. \A t \in Threads : workers'[t].st = "Gone"
    BY <2>1 DEF Worker
  <2>4. QED
    BY <2>2, <2>3 DEF WorkerInv, WorkerOf
<1>6. QED
  BY <1>2, <1>3, <1>4, <1>5, StepGroups

(***************************************************************************)
(* Every step keeps the state typed                                        *)
(***************************************************************************)

\* The runtime's slots hold tokens, and only they are told to cancel.
LEMMA RuntimeTypeStep ==
  ASSUME TypeInv, Next
  PROVE  cancelled' \in SUBSET Tokens /\ active' \in [Threads -> 0..MaxToken]
<1>0. /\ cancelled \in SUBSET Tokens /\ active \in [Threads -> 0..MaxToken]
      /\ {0} \cup Tokens \subseteq 0..MaxToken /\ 0..MaxToken \subseteq {0} \cup Tokens
  BY MailboxAssumption DEF TypeInv, TaskType, Tokens
<1>1. \A t \in Threads : active[t] # 0 => active[t] \in Tokens
  BY <1>0
<1>2. \A x \in DispatchIds : ThreadOf[x] \in Threads
  BY MailboxAssumption
<1>3. \A a \in Tokens : T(a) \in Threads
  BY <1>2, HolderFacts DEF T
<1>4. CASE UNCHANGED runtimeVars
  BY <1>0, <1>4 DEF runtimeVars
<1>5. ASSUME UNCHANGED active,
             \E t \in Threads : cancelled' \in {cancelled, cancelled \cup {active[t]}}
                                /\ (active[t] = 0 => cancelled' = cancelled)
      PROVE  cancelled' \in SUBSET Tokens /\ active' \in [Threads -> 0..MaxToken]
  BY <1>0, <1>1, <1>5
<1>6. CASE SubmitSteps
  <2>1. PICK d \in DispatchIds : SubmitStep(d) \/ SubmitInterruptFault(d) \/ SubmitFault(d)
    BY <1>6 DEF SubmitSteps
  <2>2. CASE SubmitInterruptFault(d)
    <3>1. UNCHANGED active /\ cancelled' \in {cancelled, cancelled \cup {active[ThreadOf[d]]}}
          /\ (active[ThreadOf[d]] = 0 => cancelled' = cancelled)
      BY <2>2 DEF SubmitInterruptFault
    <3>2. QED
      BY <1>2, <1>5, <3>1
  <2>3. CASE SubmitCancel(d)
    <3>1. UNCHANGED active /\ cancelled' \in {cancelled, cancelled \cup {active[ThreadOf[d]]}}
          /\ (active[ThreadOf[d]] = 0 => cancelled' = cancelled)
      BY <2>3 DEF SubmitCancel
    <3>2. QED
      BY <1>2, <1>5, <3>1
  <2>4. CASE ~(SubmitInterruptFault(d) \/ SubmitCancel(d))
    <3>1. UNCHANGED runtimeVars
      BY <2>1, <2>4 DEF SubmitStep, SubmitInterrupt, SubmitStop, SubmitMark, SubmitRelease,
           SubmitPrepare, SubmitEnqueue, SubmitWake, SubmitInline, SubmitUndo, SubmitUndoMark,
           SubmitFault
    <3>2. QED
      BY <1>4, <3>1
  <2>5. QED
    BY <2>2, <2>3, <2>4
<1>7. CASE ControlSteps
  <2>1. ASSUME NEW d \in DispatchIds, CancelDispatch(d)
        PROVE  UNCHANGED active /\ cancelled' \in {cancelled, cancelled \cup {active[ThreadOf[d]]}}
               /\ (active[ThreadOf[d]] = 0 => cancelled' = cancelled)
    BY <2>1 DEF CancelDispatch
  <2>2. ASSUME NEW d \in DispatchIds, ControlMark(d) PROVE UNCHANGED runtimeVars
    BY <2>2 DEF ControlMark
  <2>3. ASSUME NEW t \in Threads, InterruptThread(t) PROVE UNCHANGED runtimeVars
    BY <2>3 DEF InterruptThread
  <2>4. ASSUME NEW t \in Threads, ControlStop(t)
        PROVE  UNCHANGED active /\ cancelled' \in {cancelled, cancelled \cup {active[t]}}
               /\ (active[t] = 0 => cancelled' = cancelled)
    BY <2>4 DEF ControlStop
  <2>5. QED
    BY <1>2, <1>4, <1>5, <1>7, <2>1, <2>2, <2>3, <2>4 DEF ControlSteps
<1>8. CASE TimeSteps \/ WakeSteps
  <2>1. UNCHANGED runtimeVars
    BY <1>8 DEF TimeSteps, WakeSteps, Expire, Elapse, WakeStep, WakeTry, WakeClaim, WakeRevert,
                WakeFault
  <2>2. QED
    BY <1>4, <2>1
<1>9. CASE SweepSteps
  <2>1. ASSUME NEW d \in DispatchIds, Reconcile(d) \/ Purge(d) PROVE UNCHANGED runtimeVars
    BY <2>1 DEF Reconcile, Purge
  <2>2. ASSUME NEW t \in Threads, GcScan(t) \/ GcRemove(t) PROVE UNCHANGED runtimeVars
    BY <2>2 DEF GcScan, GcRemove
  <2>3. SweepReclaim \/ SweepOne => UNCHANGED runtimeVars
    BY DEF SweepReclaim, SweepOne
  <2>4. RecoverReclaim \/ RecoverWake \/ RecoverList => UNCHANGED runtimeVars
    BY DEF RecoverReclaim, RecoverWake, RecoverList
  <2>5. RecoverLoad => UNCHANGED runtimeVars
    BY SMTT(30) DEF RecoverLoad
  <2>6. RecoverEnqueue => UNCHANGED runtimeVars
    BY DEF RecoverEnqueue
  <2>7. RecoverFinish => UNCHANGED runtimeVars
    BY DEF RecoverFinish
  <2>8. UNCHANGED runtimeVars
    BY <1>9, <2>1, <2>2, <2>3, <2>4, <2>5, <2>6, <2>7 DEF SweepSteps, RecoverStep
  <2>9. QED
    BY <1>4, <2>8
<1>10. CASE TaskSteps
  <2>1. PICK tok \in Tokens :
           ExecStep(tok) \/ RunStep(tok) \/ Fault(tok) \/ Renew(tok) \/ RenewFault(tok)
    BY <1>10 DEF TaskSteps
  <2>2. CASE Renew(tok)
    <3>1. UNCHANGED active /\ cancelled' \in {cancelled, cancelled \cup {active[T(tok)]}}
          /\ (active[T(tok)] = 0 => cancelled' = cancelled)
      BY <2>2 DEF Renew
    <3>2. QED
      BY <1>3, <1>5, <3>1
  <2>3. CASE Enter(tok)
    <3>1. UNCHANGED cancelled /\ active' \in {active, [active EXCEPT ![T(tok)] = tok]}
      BY <2>3 DEF Enter
    <3>2. QED
      BY <1>0, <1>3, <3>1
  <2>4. CASE RunEnd(tok)
    <3>1. cancelled' = cancelled \ {tok} /\ active' = [active EXCEPT ![T(tok)] = 0]
      BY <2>4 DEF RunEnd
    <3>2. QED
      BY <1>0, <1>3, <3>1
  <2>5. CASE ~(Renew(tok) \/ Enter(tok) \/ RunEnd(tok))
    <3>1. UNCHANGED runtimeVars
      BY <2>1, <2>5 DEF ExecStep, Install, Check, CheckEpoch, Start, Result, Settle, AckAgain,
           MarkRun, Finish, RunStep, Fault, RenewFault
    <3>2. QED
      BY <1>4, <3>1
  <2>6. QED
    BY <2>2, <2>3, <2>4, <2>5
<1>11. CASE Crash
  BY <1>0, <1>11 DEF Crash
<1>12. QED
  BY <1>6, <1>7, <1>8, <1>9, <1>10, <1>11, StepGroups

\* Renewals end, and begin with a claim only.
LEMMA TaskTypeStep ==
  ASSUME TypeInv, Next
  PROVE  /\ TaskType'
         /\ \A a \in Tokens : exec'[a].pc # "None" => a <= lastToken'
<1>0. exec \in Tasks /\ renewal \in SUBSET Tokens
  BY DEF TypeInv, TaskType
<1>1. /\ lastToken \in Nat /\ lastToken' \in Nat /\ lastToken <= lastToken'
      /\ \A a \in Tokens : a \in Nat /\ (exec[a].pc # "None" => a <= lastToken)
  <2>1. lastToken \in Nat /\ lastToken' \in {lastToken, lastToken + 1}
    BY ServiceOnStore, RecordFacts DEF StoreKept, TypeInv
  <2>2. QED
    BY <2>1, MailboxAssumption DEF TypeInv, TokenInv, Tokens
<1>2. ASSUME exec' \in Tasks, renewal' \in SUBSET Tokens,
             \A a \in Tokens : exec'[a].pc # "None" => exec[a].pc # "None" \/ a = lastToken'
      PROVE  TaskType' /\ \A a \in Tokens : exec'[a].pc # "None" => a <= lastToken'
  <2>1. \A a \in Tokens : exec'[a].pc # "None" => a <= lastToken'
    BY <1>1, <1>2
  <2>2. QED
    BY <1>2, <2>1, RuntimeTypeStep DEF TaskType
<1>3. CASE UNCHANGED execVars
  BY <1>0, <1>2, <1>3 DEF execVars
<1>4. ASSUME NEW d \in DispatchIds, Spawned(d)
      PROVE  TaskType' /\ \A a \in Tokens : exec'[a].pc # "None" => a <= lastToken'
  BY <1>0, <1>2, <1>4 DEF Spawned
<1>5. CASE SubmitSteps \/ TimeSteps \/ ControlSteps \/ SweepSteps \/ WakeSteps
  BY <1>3, <1>4, <1>5, OtherTasks
<1>6. CASE TaskSteps
  <2>1. PICK tok \in Tokens :
           ExecStep(tok) \/ RunStep(tok) \/ Fault(tok) \/ Renew(tok) \/ RenewFault(tok)
    BY <1>6 DEF TaskSteps
  <2>2. CASE ExecStep(tok) \/ Fault(tok)
    <3>1. TaskMoves(tok)
      BY <2>2, TaskMovesStep
    <3>2. renewal' \in SUBSET Tokens
      BY <1>0, <2>2 DEF ExecStep, Install, Check, CheckEpoch, Start, Enter, RunEnd, Result,
           Settle, AckAgain, MarkRun, Finish, Fault
    <3>3. exec' \in Tasks /\ exec[tok].pc # "None"
          /\ \A a \in Tokens \ {tok} : exec'[a] = exec[a]
      BY <3>1 DEF TaskMoves
    <3>4. QED
      BY <1>2, <3>2, <3>3
  <2>3. CASE RunStep(tok)
    BY <1>3, <2>3 DEF RunStep
  <2>4. CASE Renew(tok) \/ RenewFault(tok)
    <3>1. exec' = exec /\ renewal' \in {renewal, renewal \ {tok}}
      BY <2>4 DEF Renew, RenewFault
    <3>2. QED
      BY <1>0, <1>2, <3>1
  <2>5. QED
    BY <2>1, <2>2, <2>3, <2>4
<1>7. CASE Crash
  <2>1. exec' = [tok \in Tokens |-> NoTask] /\ renewal' = {}
    BY <1>7 DEF Crash
  <2>2. NoTask \in TaskRecord /\ NoTask.pc = "None"
    <3>1. PICK d \in DispatchIds : TRUE
      BY MailboxAssumption
    <3>2. QED
      BY <3>1, NewTaskType, Zenon
  <2>3. exec' \in Tasks /\ \A a \in Tokens : exec'[a].pc = "None"
    BY <2>1, <2>2 DEF Tasks, TaskRecord
  <2>4. QED
    BY <1>2, <2>1, <2>3
<1>8. QED
  BY <1>5, <1>6, <1>7, StepGroups

\* The counters of a run only grow.
LEMMA SpentTypeStep ==
  ASSUME TypeInv, Next
  PROVE  /\ spent' \in Counts
         /\ spent'.faults >= spent.faults /\ spent'.crashes >= spent.crashes
         /\ Crash => spent'.crashes > 0
         /\ ~Crash => spent'.crashes = spent.crashes
<1>0. spent \in Counts
  BY DEF TypeInv, MaintType
<1>1. ASSUME spent' = [spent EXCEPT !.crashes = @ + 1]
      PROVE  /\ spent' \in Counts /\ spent'.faults = spent.faults
             /\ spent'.crashes = spent.crashes + 1 /\ spent.crashes \in Nat /\ spent.faults \in Nat
  BY <1>0, <1>1 DEF Counts
<1>2. ASSUME \/ spent' = [spent EXCEPT !.faults = @ + 1]
             \/ spent' = [spent EXCEPT !.purges = @ + 1]
             \/ spent' = [spent EXCEPT !.controls = @ + 1]
             \/ UNCHANGED spent
      PROVE  /\ spent' \in Counts /\ spent'.faults \in {spent.faults, spent.faults + 1}
             /\ spent'.crashes = spent.crashes /\ spent.crashes \in Nat /\ spent.faults \in Nat
  BY <1>0, <1>2 DEF Counts
<1>3. CASE Crash
  <2>1. spent' = [spent EXCEPT !.crashes = @ + 1]
    BY <1>3 DEF Crash
  <2>2. QED
    BY <1>1, <1>3, <2>1
<1>4. ASSUME NEW d \in DispatchIds,
             SubmitStep(d) \/ SubmitInterruptFault(d) \/ SubmitFault(d) \/ Expire(d) \/ Elapse(d)
      PROVE  spent' = [spent EXCEPT !.faults = @ + 1] \/ UNCHANGED spent
  BY <1>4 DEF SubmitStep, SubmitInterrupt, SubmitStop, SubmitMark, SubmitCancel, SubmitRelease,
       SubmitPrepare, SubmitEnqueue, SubmitWake, SubmitInline, SubmitUndo, SubmitUndoMark,
       SubmitInterruptFault, SubmitFault, Expire, Elapse, maintVars
<1>5. ASSUME NEW d \in DispatchIds, Reconcile(d) \/ Purge(d) \/ CancelDispatch(d) \/ ControlMark(d)
      PROVE  \/ spent' = [spent EXCEPT !.purges = @ + 1]
             \/ spent' = [spent EXCEPT !.controls = @ + 1]
             \/ UNCHANGED spent
  BY <1>5 DEF Reconcile, Purge, CancelDispatch, ControlMark, Control, maintVars
<1>6. ASSUME NEW t \in Threads,
             \/ WakeStep(t) \/ WakeFault(t) \/ GcScan(t) \/ GcRemove(t)
             \/ InterruptThread(t) \/ ControlStop(t)
      PROVE  \/ spent' = [spent EXCEPT !.faults = @ + 1]
             \/ spent' = [spent EXCEPT !.controls = @ + 1]
             \/ UNCHANGED spent
  BY <1>6 DEF WakeStep, WakeTry, WakeClaim, WakeRevert, WakeFault, GcScan, GcRemove,
       InterruptThread, ControlStop, Control, maintVars
<1>7. ASSUME NEW tok \in Tokens,
             ExecStep(tok) \/ RunStep(tok) \/ Fault(tok) \/ Renew(tok) \/ RenewFault(tok)
      PROVE  spent' = [spent EXCEPT !.faults = @ + 1] \/ UNCHANGED spent
  BY <1>7 DEF ExecStep, Install, Check, CheckEpoch, Start, Enter, RunEnd, Result, Settle,
       AckAgain, MarkRun, Finish, RunStep, Fault, Renew, RenewFault, maintVars
<1>8. SweepReclaim \/ SweepOne \/ RecoverStep => UNCHANGED spent
  <2>1. SweepReclaim \/ SweepOne => UNCHANGED spent
    BY DEF SweepReclaim, SweepOne
  <2>2. RecoverReclaim \/ RecoverWake \/ RecoverList => UNCHANGED spent
    BY DEF RecoverReclaim, RecoverWake, RecoverList
  <2>3. RecoverLoad => UNCHANGED spent
    BY SMTT(30) DEF RecoverLoad
  <2>4. RecoverEnqueue => UNCHANGED spent
    BY DEF RecoverEnqueue
  <2>5. RecoverFinish => UNCHANGED spent
    BY DEF RecoverFinish
  <2>6. QED
    BY <2>1, <2>2, <2>3, <2>4, <2>5 DEF RecoverStep
<1>9. CASE \/ spent' = [spent EXCEPT !.faults = @ + 1]
           \/ spent' = [spent EXCEPT !.purges = @ + 1]
           \/ spent' = [spent EXCEPT !.controls = @ + 1]
           \/ UNCHANGED spent
  <2>1. /\ spent' \in Counts /\ spent'.faults \in {spent.faults, spent.faults + 1}
        /\ spent'.crashes = spent.crashes /\ spent.crashes \in Nat /\ spent.faults \in Nat
    BY <1>2, <1>9
  <2>2. ~Crash
    BY <1>1, <2>1 DEF Crash
  <2>3. QED
    BY <2>1, <2>2
<1>10. QED
  BY <1>3, <1>4, <1>5, <1>6, <1>7, <1>8, <1>9 DEF Next

\* The fields of the recovery that its steps write.
LEMMA RecoveryFields ==
  ASSUME recovery \in Recoveries,
         NEW p \in {"Idle", "Reclaim", "Wake", "List", "Load", "Enqueue"},
         NEW q \in SUBSET Threads, NEW m \in SUBSET Found, NEW n \in SUBSET Found,
         \/ recovery' = [recovery EXCEPT !.pc = p]
         \/ recovery' = [recovery EXCEPT !.pc = p, !.queued = q]
         \/ recovery' = [recovery EXCEPT !.pc = p, !.todo = m]
         \/ recovery' = [recovery EXCEPT !.todo = m, !.pc = p, !.pick = n]
         \/ recovery' = [recovery EXCEPT !.pc = p, !.pick = n, !.found = q]
  PROVE  recovery' \in Recoveries
<1>1. ASSUME NEW r \in Recoveries
      PROVE  /\ [r EXCEPT !.pc = p] \in Recoveries /\ [r EXCEPT !.pc = p].pc = p
             /\ [r EXCEPT !.queued = q] \in Recoveries
             /\ [r EXCEPT !.todo = m] \in Recoveries
             /\ [r EXCEPT !.pick = n] \in Recoveries
             /\ [r EXCEPT !.found = q] \in Recoveries
  BY DEF Recoveries
<1>2. [recovery EXCEPT !.pc = p, !.queued = q] = [[recovery EXCEPT !.pc = p] EXCEPT !.queued = q]
  OBVIOUS
<1>3. [recovery EXCEPT !.pc = p, !.todo = m] = [[recovery EXCEPT !.pc = p] EXCEPT !.todo = m]
  OBVIOUS
<1>4. [recovery EXCEPT !.todo = m, !.pc = p, !.pick = n]
        = [[[recovery EXCEPT !.todo = m] EXCEPT !.pc = p] EXCEPT !.pick = n]
  OBVIOUS
<1>5. [recovery EXCEPT !.pc = p, !.pick = n, !.found = q]
        = [[[recovery EXCEPT !.pc = p] EXCEPT !.pick = n] EXCEPT !.found = q]
  OBVIOUS
<1>6. [recovery EXCEPT !.pc = p] \in Recoveries /\ [recovery EXCEPT !.pc = p].pc = p
  BY <1>1
<1> DEFINE u == [recovery EXCEPT !.pc = p]
           v == [recovery EXCEPT !.todo = m]
           w == [u EXCEPT !.pick = n]
           y == [v EXCEPT !.pc = p]
<1>7. u \in Recoveries /\ v \in Recoveries
  BY <1>1
<1> HIDE DEF u, v
<1>8. w \in Recoveries /\ y \in Recoveries
  BY <1>1, <1>7
<1>9. [u EXCEPT !.queued = q] \in Recoveries /\ [u EXCEPT !.todo = m] \in Recoveries
  BY <1>1, <1>7
<1> HIDE DEF w, y
<1>10. [y EXCEPT !.pick = n] \in Recoveries /\ [w EXCEPT !.found = q] \in Recoveries
  BY <1>1, <1>8
<1>11. /\ [recovery EXCEPT !.pc = p] \in Recoveries
       /\ [recovery EXCEPT !.pc = p, !.queued = q] \in Recoveries
       /\ [recovery EXCEPT !.pc = p, !.todo = m] \in Recoveries
       /\ [recovery EXCEPT !.todo = m, !.pc = p, !.pick = n] \in Recoveries
       /\ [recovery EXCEPT !.pc = p, !.pick = n, !.found = q] \in Recoveries
  BY <1>2, <1>3, <1>4, <1>5, <1>6, <1>9, <1>10 DEF u, v, w, y
<1>12. QED
  BY <1>11, Zenon

\* Recovery stays typed, and steps only after a crash has started it.
LEMMA RecoveryTypeStep ==
  ASSUME TypeInv, RecoverStep
  PROVE  recovery' \in Recoveries /\ recovery.pc # "Idle"
<1>0. /\ recovery \in Recoveries
      /\ recovery.queued \in SUBSET Threads /\ recovery.found \in SUBSET Threads
      /\ recovery.todo \in SUBSET Found /\ recovery.pick \in SUBSET Found
      /\ {} \in SUBSET Found /\ {} \in SUBSET Threads
  BY DEF TypeInv, MaintType, Recoveries
<1> DEFINE Known(q) == q \in {"Idle", "Reclaim", "Wake", "List", "Load", "Enqueue"}
<1>8. Known("Wake") /\ Known("List") /\ Known("Load")
  OBVIOUS
<1>1. CASE RecoverReclaim
  <2>1. recovery' = [recovery EXCEPT !.pc = "Wake"] /\ recovery.pc = "Reclaim"
    BY <1>1 DEF RecoverReclaim
  <2>2. QED
    BY <1>0, <2>1, <1>8, RecoveryFields, Zenon
<1>2. CASE RecoverWake
  <2> DEFINE queued == {t \in Threads : Store!Of(t, "Queued") # {}}
  <2>1. recovery' = [recovery EXCEPT !.pc = "List", !.queued = queued] /\ recovery.pc = "Wake"
    BY <1>2 DEF RecoverWake
  <2>2. queued \in SUBSET Threads
    OBVIOUS
  <2> HIDE DEF queued
  <2>3. QED
    BY <1>0, <2>1, <2>2, <1>8, RecoveryFields, Zenon
<1>3. CASE RecoverList
  <2> DEFINE todo == {[run |-> r, d |-> runs[r].dispatch] :
                r \in {x \in DispatchIds : runs[x].status \in {"Created", "Waiting"}}}
  <2>1. recovery' = [recovery EXCEPT !.pc = "Load", !.todo = todo] /\ recovery.pc = "List"
    BY <1>3 DEF RecoverList
  <2>2. todo \in SUBSET Found
    BY DEF Found, TypeInv, RunType, Runs
  <2> HIDE DEF todo
  <2>3. QED
    BY <1>0, <2>1, <2>2, <1>8, RecoveryFields, Zenon
<1>4. CASE RecoverLoad
  <2>1. PICK x \in recovery.todo :
          recovery' = [recovery EXCEPT !.todo = recovery.todo \ {x},
                        !.pc   = IF Status(x.d) = "Absent" THEN "Enqueue" ELSE "Load",
                        !.pick = IF Status(x.d) = "Absent" THEN {x} ELSE {}]
    BY <1>4, Zenon DEF RecoverLoad
  <2>2. recovery.pc = "Load"
    BY <1>4, Zenon DEF RecoverLoad
  <2> DEFINE m == recovery.todo \ {x}
             p == IF Status(x.d) = "Absent" THEN "Enqueue" ELSE "Load"
             n == IF Status(x.d) = "Absent" THEN {x} ELSE {}
  <2>3. m \in SUBSET Found /\ n \in SUBSET Found
    BY <1>0
  <2>4. p \in {"Idle", "Reclaim", "Wake", "List", "Load", "Enqueue"}
    OBVIOUS
  <2>5. recovery' = [recovery EXCEPT !.todo = m, !.pc = p, !.pick = n]
    BY <2>1
  <2> HIDE DEF m, n, p
  <2>6. QED
    BY <1>0, <2>2, <2>3, <2>4, <2>5, <1>8, RecoveryFields, Zenon
<1>5. CASE RecoverEnqueue
  <2>1. PICK x \in recovery.pick :
          recovery' = [recovery EXCEPT !.pc = "Load", !.pick = {},
                                       !.found = recovery.found \cup {ThreadOf[x.d]}]
    BY <1>5, Zenon DEF RecoverEnqueue
  <2>2. recovery.pc = "Enqueue"
    BY <1>5 DEF RecoverEnqueue
  <2> DEFINE q == recovery.found \cup {ThreadOf[x.d]}
  <2>3. q \in SUBSET Threads
    BY <1>0, MailboxAssumption DEF Found
  <2> HIDE DEF q
  <2>4. recovery' = [recovery EXCEPT !.pc = "Load", !.pick = {}, !.found = q]
    BY <2>1 DEF q
  <2>5. QED
    BY <1>0, <2>2, <2>3, <2>4, <1>8, RecoveryFields, Zenon
<1>6. CASE RecoverFinish
  <2>1. recovery' = NoRecovery /\ recovery.pc = "Load"
    BY <1>6 DEF RecoverFinish
  <2>2. QED
    BY <2>1 DEF NoRecovery, Recoveries
<1>7. QED
  BY <1>1, <1>2, <1>3, <1>4, <1>5, <1>6 DEF RecoverStep

\* What controls and the sweep remember names dispatches and threads.
LEMMA MaintTypeStep ==
  ASSUME TypeInv, Next
  PROVE  MaintType'
<1>0. /\ MaintType /\ spent' \in Counts
      /\ Proved!RecordInv'
  BY SpentTypeStep, ServiceOnStore DEF TypeInv, StoreKept
<1>1. \A t, s : Store!Of(t, s) \in SUBSET DispatchIds
  BY DEF Store!Of
<1>2. CASE UNCHANGED maintVars
  BY <1>0, <1>2 DEF maintVars, MaintType
<1>3. ASSUME UNCHANGED <<marking, stopping, swept, gcIdle, recovery>> PROVE MaintType'
  BY <1>0, <1>3 DEF MaintType
<1>4. ASSUME marking' \in SUBSET DispatchIds, stopping' \in SUBSET Threads,
             UNCHANGED <<swept, gcIdle, recovery>>
      PROVE  MaintType'
  BY <1>0, <1>4 DEF MaintType
<1>5. ASSUME swept' \in SUBSET [d : DispatchIds, status : Store!Status],
             gcIdle' \in SUBSET Threads, recovery' \in Recoveries,
             UNCHANGED <<marking, stopping>>
      PROVE  MaintType'
  BY <1>0, <1>5 DEF MaintType
<1>6. CASE SubmitSteps
  <2>1. PICK d \in DispatchIds : SubmitStep(d) \/ SubmitInterruptFault(d) \/ SubmitFault(d)
    BY <1>6 DEF SubmitSteps
  <2>2. UNCHANGED maintVars \/ UNCHANGED <<marking, stopping, swept, gcIdle, recovery>>
    BY <2>1 DEF SubmitStep, SubmitInterrupt, SubmitStop, SubmitMark, SubmitCancel, SubmitRelease,
       SubmitPrepare, SubmitEnqueue, SubmitWake, SubmitInline, SubmitUndo, SubmitUndoMark,
       SubmitInterruptFault, SubmitFault
  <2>3. QED
    BY <1>2, <1>3, <2>2
<1>7. CASE TimeSteps \/ WakeSteps
  <2>1. UNCHANGED maintVars \/ UNCHANGED <<marking, stopping, swept, gcIdle, recovery>>
    BY <1>7 DEF TimeSteps, WakeSteps, Expire, Elapse, WakeStep, WakeTry, WakeClaim, WakeRevert,
                WakeFault
  <2>2. QED
    BY <1>2, <1>3, <2>1
<1>8. CASE TaskSteps
  <2>1. PICK tok \in Tokens :
           ExecStep(tok) \/ RunStep(tok) \/ Fault(tok) \/ Renew(tok) \/ RenewFault(tok)
    BY <1>8 DEF TaskSteps
  <2>2. UNCHANGED maintVars \/ UNCHANGED <<marking, stopping, swept, gcIdle, recovery>>
    BY <2>1 DEF ExecStep, Install, Check, CheckEpoch, Start, Enter, RunEnd, Result, Settle,
       AckAgain, MarkRun, Finish, RunStep, Fault, Renew, RenewFault
  <2>3. QED
    BY <1>2, <1>3, <2>2
<1>9. CASE ControlSteps
  <2>1. ASSUME NEW d \in DispatchIds, CancelDispatch(d) PROVE MaintType'
    <3>1. /\ marking' \in {marking, marking \cup {d}}
          /\ UNCHANGED <<stopping, swept, gcIdle, recovery>>
      BY <2>1 DEF CancelDispatch, Control
    <3>2. QED
      BY <1>0, <1>4, <3>1 DEF MaintType
  <2>2. ASSUME NEW d \in DispatchIds, ControlMark(d) PROVE MaintType'
    <3>1. marking' = marking \ {d} /\ UNCHANGED <<stopping, swept, gcIdle, recovery>>
      BY <2>2 DEF ControlMark
    <3>2. QED
      BY <1>0, <1>4, <3>1 DEF MaintType
  <2>3. ASSUME NEW t \in Threads, InterruptThread(t) PROVE MaintType'
    <3>1. /\ marking' = marking \cup Store!Of(t, "Queued")
          /\ stopping' \in {stopping, stopping \cup {t}}
          /\ UNCHANGED <<swept, gcIdle, recovery>>
      BY <2>3 DEF InterruptThread, Control
    <3>2. QED
      BY <1>0, <1>1, <1>4, <3>1 DEF MaintType
  <2>4. ASSUME NEW t \in Threads, ControlStop(t) PROVE MaintType'
    <3>1. stopping' = stopping \ {t} /\ UNCHANGED <<marking, swept, gcIdle, recovery>>
      BY <2>4 DEF ControlStop
    <3>2. QED
      BY <1>0, <1>4, <3>1 DEF MaintType
  <2>5. QED
    BY <1>9, <2>1, <2>2, <2>3, <2>4 DEF ControlSteps
<1>10. CASE SweepSteps
  <2>0. /\ swept \in SUBSET [d : DispatchIds, status : Store!Status] /\ gcIdle \in SUBSET Threads
        /\ recovery \in Recoveries
    BY <1>0 DEF MaintType
  <2>1. ASSUME NEW d \in DispatchIds, Reconcile(d) \/ Purge(d) PROVE MaintType'
    BY <1>2, <1>3, <2>1 DEF Reconcile, Purge
  <2>2. ASSUME NEW t \in Threads, GcScan(t) \/ GcRemove(t) PROVE MaintType'
    <3>1. gcIdle' \in {gcIdle \cup {t}, gcIdle \ {t}} /\ UNCHANGED <<marking, stopping, swept, recovery>>
      BY <2>2 DEF GcScan, GcRemove
    <3>2. QED
      BY <1>5, <2>0, <3>1
  <2>3. CASE SweepReclaim
    <3>1. \A x \in DispatchIds : dispatches'[x].status \in Store!Status
      BY <1>0, SameRecords DEF Proved!RecordInv, Proved!TypeOK, Proved!Dispatch
    <3>2. /\ swept' = {[d |-> d, status |-> dispatches'[d].status] :
                          d \in {x \in Expired : ~Store!Stale(x)}}
          /\ UNCHANGED <<marking, stopping, gcIdle, recovery>>
      BY <2>3 DEF SweepReclaim
    <3>3. swept' \in SUBSET [d : DispatchIds, status : Store!Status]
      BY <3>1, <3>2 DEF Expired
    <3>4. QED
      BY <1>5, <2>0, <3>2, <3>3
  <2>4. CASE SweepOne
    <3>1. swept' \in SUBSET swept /\ UNCHANGED <<marking, stopping, gcIdle, recovery>>
      BY <2>4 DEF SweepOne
    <3>2. QED
      BY <1>5, <2>0, <3>1
  <2>5. CASE RecoverStep
    <3>1. UNCHANGED <<marking, stopping, swept, gcIdle>>
      <4>1. RecoverReclaim \/ RecoverWake \/ RecoverList => UNCHANGED <<marking, stopping, swept, gcIdle>>
        BY DEF RecoverReclaim, RecoverWake, RecoverList
      <4>2. RecoverLoad => UNCHANGED <<marking, stopping, swept, gcIdle>>
        BY SMTT(30) DEF RecoverLoad
      <4>3. RecoverEnqueue => UNCHANGED <<marking, stopping, swept, gcIdle>>
        BY DEF RecoverEnqueue
      <4>4. RecoverFinish => UNCHANGED <<marking, stopping, swept, gcIdle>>
        BY DEF RecoverFinish
      <4>5. QED
        BY <2>5, <4>1, <4>2, <4>3, <4>4 DEF RecoverStep
    <3>2. QED
      BY <1>5, <2>0, <2>5, <3>1, RecoveryTypeStep
  <2>6. QED
    BY <1>10, <2>1, <2>2, <2>3, <2>4, <2>5 DEF SweepSteps
<1>11. CASE Crash
  <2>1. /\ marking' = {} /\ stopping' = {} /\ swept' = {} /\ gcIdle' = {}
        /\ recovery' = [NoRecovery EXCEPT !.pc = "Reclaim"]
    BY <1>11 DEF Crash
  <2>2. recovery' \in Recoveries
    BY <2>1 DEF NoRecovery, Recoveries
  <2>3. QED
    BY <1>0, <2>1, <2>2 DEF MaintType
<1>12. QED
  BY <1>6, <1>7, <1>8, <1>9, <1>10, <1>11, StepGroups

\* Every step keeps the state typed, the records sound and every token in use issued.
LEMMA TypeStep ==
  ASSUME TypeInv, WorkerInv, Next
  PROVE  TypeInv'
<1>1. StoreKept
  BY ServiceOnStore
<1>2. Proved!RecordInv' /\ lastToken' <= MaxToken
  BY <1>1 DEF StoreKept
<1>3. \A a \in Tokens : exec'[a].pc # "None" => a <= lastToken'
  BY TaskTypeStep
<1>4. \A x \in DispatchIds :
         /\ dispatches'[x].claim_token <= lastToken'
         /\ dispatches'[x].status # "Absent" => dispatches'[x].thread = ThreadOf[x]
  BY <1>1 DEF StoreKept, Ours
<1>5. TokenInv'
  BY <1>2, <1>3, <1>4 DEF TokenInv, Status
<1>6. RunType' /\ submits' \in Submissions /\ WorkType' /\ TaskType' /\ MaintType'
  BY RunTypeStep, SubmitTypeStep, WorkerStep, TaskTypeStep, MaintTypeStep
<1>7. QED
  BY <1>2, <1>5, <1>6 DEF TypeInv

(***************************************************************************)
(* Claims and their tasks while nothing fails                              *)
(***************************************************************************)

\* What else may happen to a record while nothing fails: it is purged, when no
\* task is left; it is queued, or its delay ends, when no task is at work on it
\* and no submission relies on the delay; its task gives it back for a retry.
Gone(x) == Status(x) \in Store!Terminal /\ dispatches'[x].status = "Absent" /\ Free(x)

Loose(x) ==
    /\ dispatches'[x].status = "Queued" /\ Free(x) /\ submits[x].pc \notin {"Inline", "Undo"}
    /\ Status(x) = "Queued" \/ (Status(x) = "Absent" /\ submits[x].pc = "Enqueue")

Nacked(x) ==
    /\ Back(x) /\ NextParked(x)
    /\ \A a \in Tokens : dispatches[x].claim_token = a => exec'[a].pc = "Finish"

RecordsCalm ==
    \A x \in DispatchIds : Kept(x) \/ Shut(x) \/ Stays(x) \/ Gone(x) \/ Loose(x) \/ Nacked(x)

\* Tasks keep their dispatches, and their renewals for as long as they hold them.
StillHolds(a) ==
    dispatches'[exec[a].d].status = "Claimed" /\ dispatches'[exec[a].d].claim_token = a

TaskCalm(a) ==
    /\ exec'[a].d = exec[a].d
    /\ exec'[a].pc \notin {"None", "Done"} => InFlight(a)
    /\ exec[a].pc \in Holding /\ StillHolds(a) => exec'[a].pc \in Holding
    /\ exec[a].pc = "Finish" => exec'[a].pc \in {"Finish", "Done"}
    /\ a \in renewal /\ StillHolds(a) => a \in renewal'

\* Submissions are refused over what is out of the queue only.
SubmitCalm(x) ==
    /\ submits'[x].pc \in {"Inline", "Undo"} =>
          submits[x].pc \in {"Inline", "Undo"} \/ (NextParked(x) /\ Free(x))
    /\ submits'[x].pc = "UndoMark" \/ (submits'[x].pc = "Rejected" /\ x \in Foreground) =>
          \/ dispatches'[x].status \in Over
          \/ submits[x].pc = "UndoMark" \/ (submits[x].pc = "Rejected" /\ x \in Foreground)

\* What CalmInv says when nothing has failed.
CalmFacts ==
    /\ \A x \in DispatchIds : Served(x) /\ Guarded(x)
    /\ \A a \in Tokens : Released(a)
    /\ \A a, b \in Tokens : InFlight(a) /\ InFlight(b) /\ exec[a].d = exec[b].d => a = b

\* Terminal, queued and claimed are different things.
LEMMA StatusFacts ==
  /\ \A s \in Store!Terminal : s \notin {"Queued", "Claimed", "Absent"}
  /\ "Queued" \notin Over /\ "Claimed" \notin Over /\ "Absent" \in Over
  /\ Store!Terminal \subseteq Over
BY DEF Store!Terminal, Over

\* Such a step keeps everything in place.
LEMMA CalmKept ==
  ASSUME TypeInv, CalmFacts, RecordsCalm, \A a \in Tokens : TaskCalm(a),
         \A x \in DispatchIds : SubmitCalm(x)
  PROVE  CalmFacts'
<1>0. \A a \in Tokens : exec[a].d \in DispatchIds /\ exec'[a].d = exec[a].d
  BY HolderFacts DEF TaskCalm
<1>1. ASSUME NEW x \in DispatchIds PROVE Served(x)'
  <2> SUFFICES ASSUME dispatches'[x].status = "Claimed"
               PROVE  LET k == dispatches'[x].claim_token
                      IN  /\ k \in Tokens /\ exec'[k].d = x /\ exec'[k].pc \in Holding
                          /\ k \in renewal' /\ dispatches'[x].lease = "Live"
    BY DEF Served, Status
  <2>1. Kept(x) \/ Stays(x)
    BY StatusFacts DEF RecordsCalm, Shut, Gone, Loose, Nacked, Back
  <2>2. Status(x) = "Claimed" /\ dispatches'[x].claim_token = dispatches[x].claim_token
        /\ dispatches'[x].lease \in {dispatches[x].lease, "Live"}
    BY <2>1 DEF Kept, Stays, Status
  <2> DEFINE k == dispatches[x].claim_token
  <2>3. /\ k \in Tokens /\ exec[k].d = x /\ exec[k].pc \in Holding
        /\ k \in renewal /\ dispatches[x].lease = "Live"
    BY <2>2 DEF CalmFacts, Served
  <2>4. StillHolds(k) /\ TaskCalm(k)
    BY <2>2, <2>3 DEF StillHolds
  <2>5. exec'[k].d = x /\ exec'[k].pc \in Holding /\ k \in renewal'
    BY <2>3, <2>4 DEF TaskCalm
  <2>6. QED
    BY <2>2, <2>3, <2>5
<1>2. ASSUME NEW x \in DispatchIds, Free(x) PROVE Free(x)'
  BY <1>0, <1>2 DEF Free, TaskCalm, InFlight
<1>3. ASSUME NEW x \in DispatchIds PROVE Guarded(x)'
  <2>1. Guarded(x) /\ SubmitCalm(x)
        /\ (Kept(x) \/ Shut(x) \/ Stays(x) \/ Gone(x) \/ Loose(x) \/ Nacked(x))
    BY DEF CalmFacts, RecordsCalm
  <2>2. ASSUME Status(x) \in Over, ~Loose(x) PROVE dispatches'[x].status \in Over
    BY <2>1, <2>2, StatusFacts DEF Kept, Shut, Stays, Gone, Nacked, Back, Status
  <2>3. ASSUME submits'[x].pc \in {"Inline", "Undo"}
        PROVE  (NextParked(x) \/ dispatches'[x].status \in Over) /\ Free(x)'
    <3>1. CASE NextParked(x) /\ Free(x)
      BY <1>2, <3>1
    <3>2. CASE submits[x].pc \in {"Inline", "Undo"}
      <4>1. (Parked(x) \/ Status(x) \in Over) /\ Free(x) /\ ~Loose(x)
        BY <2>1, <3>2 DEF Guarded, Loose
      <4>2. CASE Status(x) \in Over
        BY <1>2, <2>2, <4>1, <4>2
      <4>3. CASE Parked(x)
        BY <1>2, <2>1, <4>1, <4>3, StatusFacts DEF Parked, NextParked, Kept, Shut, Stays, Gone,
             Nacked, Back, Status
      <4>4. QED
        BY <4>1, <4>2, <4>3
    <3>3. QED
      BY <2>1, <2>3, <3>1, <3>2 DEF SubmitCalm
  <2>4. ASSUME submits'[x].pc = "UndoMark" \/ (submits'[x].pc = "Rejected" /\ x \in Foreground)
        PROVE  dispatches'[x].status \in Over
    <3>1. CASE submits[x].pc = "UndoMark" \/ (submits[x].pc = "Rejected" /\ x \in Foreground)
      <4>1. Status(x) \in Over
        BY <2>1, <3>1 DEF Guarded
      <4>2. ~Loose(x)
        BY <3>1, <4>1, StatusFacts DEF Loose
      <4>3. QED
        BY <2>2, <4>1, <4>2
    <3>2. QED
      BY <2>1, <2>4, <3>1 DEF SubmitCalm
  <2>5. QED
    BY <2>3, <2>4 DEF Guarded, Parked, NextParked, Status
<1>4. ASSUME NEW a \in Tokens PROVE Released(a)'
  <2> DEFINE d == exec[a].d
             still == dispatches'[d].status = "Claimed" /\ dispatches'[d].claim_token = a
  <2> SUFFICES ASSUME exec'[a].pc \notin {"None", "Done"}, ~still
               PROVE  \/ dispatches'[d].status \in Store!Terminal
                      \/ exec'[a].pc = "Finish" /\ NextParked(d)
    BY <1>0 DEF Released, InFlight, Holds, Status, Parked, NextParked
  <2>1. InFlight(a) /\ TaskCalm(a) /\ Released(a) /\ d \in DispatchIds
    BY <1>0 DEF TaskCalm, CalmFacts
  <2>2. ~Free(d)
    BY <2>1 DEF Free
  <2>3. Kept(d) \/ Shut(d) \/ Stays(d) \/ Nacked(d)
    BY <2>1, <2>2 DEF RecordsCalm, Gone, Loose
  <2>4. CASE Holds(a)
    BY <2>3, <2>4 DEF Holds, Kept, Shut, Stays, Nacked, Status
  <2>5. CASE ~Holds(a)
    <3>1. CASE Status(d) \in Store!Terminal
      BY <2>3, <3>1, StatusFacts DEF Kept, Shut, Stays, Nacked, Back, Status
    <3>2. CASE exec[a].pc = "Finish" /\ Parked(d)
      <4>1. exec'[a].pc = "Finish"
        BY <2>1, <3>2 DEF TaskCalm
      <4>2. Kept(d) \/ Shut(d)
        BY <2>3, <3>2 DEF Parked, Stays, Nacked, Back
      <4>3. QED
        BY <3>2, <4>1, <4>2 DEF Kept, Shut, Parked, NextParked, Status
    <3>3. QED
      BY <2>1, <2>5, <3>1, <3>2 DEF Released
  <2>6. QED
    BY <2>4, <2>5
<1>5. ASSUME NEW a \in Tokens, NEW b \in Tokens, InFlight(a)', InFlight(b)', exec'[a].d = exec'[b].d
      PROVE  a = b
  BY <1>0, <1>5 DEF CalmFacts, TaskCalm, InFlight
<1>6. QED
  BY <1>1, <1>3, <1>4, <1>5 DEF CalmFacts

(***************************************************************************)
(* A submission has nothing in the store before its enqueue                *)
(***************************************************************************)

\* Only an enqueue puts an absent dispatch into the store.
LEMMA AbsentStays ==
  ASSUME TypeInv, Next, ~RecoverEnqueue, NEW x \in DispatchIds, Status(x) = "Absent"
  PROVE  dispatches'[x].status = "Absent" \/ SubmitEnqueue(x)
<1>0. Proved!RecordInv
  BY DEF TypeInv
<1>1. ASSUME Kept(x) \/ (Status(x) # "Absent" /\ dispatches'[x] # dispatches[x])
      PROVE  dispatches'[x].status = "Absent"
  BY <1>1 DEF Kept, Status
<1>2. ASSUME NEW d \in DispatchIds, Others(d),
             \/ Shut(d) \/ Stays(d) \/ Back(d) \/ Taken(d) \/ Status(d) # "Absent"
             \/ dispatches'[d].status = Status(d)
      PROVE  dispatches'[x].status = "Absent"
  <2>1. CASE x = d
    BY <1>2, <2>1 DEF Shut, Stays, Back, Taken
  <2>2. CASE x # d
    BY <1>2, <2>2 DEF Others, Kept, Status
  <2>3. QED
    BY <2>1, <2>2
<1>3. ASSUME \A y \in DispatchIds : Kept(y) \/ Shut(y) \/ Back(y) \/ Taken(y)
      PROVE  dispatches'[x].status = "Absent"
  BY <1>3 DEF Kept, Shut, Back, Taken, Status
<1>4. ASSUME NEW t \in Threads, Store!Interrupt(t) PROVE dispatches'[x].status = "Absent"
  BY <1>0, <1>3, <1>4, InterruptEffect
<1>5. ASSUME UNCHANGED storeVars PROVE dispatches'[x].status = "Absent"
  BY <1>5 DEF storeVars, Status
<1>6. ASSUME NEW d \in DispatchIds,
             \/ SubmitInterrupt(d) \/ SubmitEnqueue(d) \/ SubmitInline(d) \/ SubmitUndo(d)
             \/ Expire(d) \/ Elapse(d) \/ Purge(d) \/ CancelDispatch(d)
      PROVE  dispatches'[x].status = "Absent" \/ SubmitEnqueue(x)
  <2>1. CASE SubmitInterrupt(d)
    BY <1>4, <2>1, MailboxAssumption DEF SubmitInterrupt
  <2>2. CASE SubmitEnqueue(d)
    <3>1. PICK v \in {"Due", "Later"} : Store!Enqueue(d, ThreadOf[d], 0, "NoKey", 0, v, 0)
      BY <2>2 DEF SubmitEnqueue
    <3>2. Others(d)
      BY <1>0, <3>1, EnqueueEffect
    <3>3. CASE x # d
      BY <3>2, <3>3 DEF Others, Kept, Status
    <3>4. QED
      BY <2>2, <3>3
  <2>3. CASE SubmitInline(d)
    BY <1>2, <1>5, <2>3, InlineEffect DEF storeVars
  <2>4. CASE SubmitUndo(d) \/ CancelDispatch(d)
    <3>1. Store!Cancel(d) \/ UNCHANGED storeVars
      BY <2>4 DEF SubmitUndo, CancelDispatch
    <3>2. QED
      BY <1>0, <1>2, <1>5, <3>1, CancelEffect
  <2>5. CASE Expire(d) \/ Elapse(d)
    <3>1. Store!Elapse(d) \/ Store!Expire(d)
      BY <2>5 DEF Expire, Elapse
    <3>2. Others(d) /\ dispatches'[d].status = Status(d)
      BY <1>0, <3>1, TimeEffect
    <3>3. QED
      BY <1>2, <3>2
  <2>6. CASE Purge(d)
    <3>1. Others(d) /\ dispatches'[d].status = "Absent"
      BY <1>0, <2>6, PurgeEffect DEF Purge
    <3>2. QED
      BY <3>1 DEF Others, Kept, Status
  <2>7. QED
    BY <1>6, <2>1, <2>2, <2>3, <2>4, <2>5, <2>6
<1>7. ASSUME NEW t \in Threads, WakeClaim(t) PROVE dispatches'[x].status = "Absent"
  <2>1. \A y \in DispatchIds : Kept(y) \/ Shut(y) \/ Back(y) \/ Taken(y)
    BY <1>7, WakeClaimEffect
  <2>2. QED
    BY <1>3, <2>1
<1>8. ASSUME NEW tok \in Tokens,
             \/ CheckEpoch(tok) \/ Start(tok) \/ Result(tok) \/ Settle(tok)
             \/ AckAgain(tok) \/ Renew(tok)
      PROVE  dispatches'[x].status = "Absent"
  <2> DEFINE d == exec[tok].d
  <2>1. \/ UNCHANGED storeVars
        \/ TaskCall(d) /\ (Shut(d) \/ Stays(d) \/ Back(d))
    BY <1>8, CheckEpochEffect, StartEffect, ResultEffect, SettleEffect, AckAgainEffect,
       RenewEffect
  <2>2. CASE TaskCall(d) /\ (Shut(d) \/ Stays(d) \/ Back(d))
    BY <2>2, <1>2 DEF TaskCall
  <2>3. CASE UNCHANGED storeVars
    BY <1>5, <2>3
  <2>4. QED
    BY <2>1, <2>2, <2>3
<1>9. ASSUME SweepReclaim \/ RecoverReclaim PROVE dispatches'[x].status = "Absent"
  <2>1. Store!ReclaimExpiredLeases(Expired)
    BY <1>9 DEF SweepReclaim, RecoverReclaim
  <2>2. QED
    BY <1>0, <1>3, <2>1, ReclaimEffect
<1>10. QED
  BY <1>4, <1>5, <1>6, <1>7, <1>8, <1>9, StoreActions DEF InterruptThread

\* What a step does to the place of any one submission.
LEMMA PlacesStep ==
  ASSUME TypeInv, Next, ~Crash
  PROVE  \/ UNCHANGED submits
         \/ \E d \in DispatchIds :
               /\ SubmitMoves(d)
               /\ SubmitStep(d) \/ SubmitInterruptFault(d) \/ SubmitFault(d)
<1>1. CASE SubmitSteps
  <2>1. PICK d \in DispatchIds : SubmitStep(d) \/ SubmitInterruptFault(d) \/ SubmitFault(d)
    BY <1>1 DEF SubmitSteps
  <2>2. SubmitMoves(d)
    BY <2>1, SubmitMovesStep
  <2>3. QED
    BY <2>1, <2>2
<1>2. CASE TimeSteps \/ ControlSteps \/ SweepSteps \/ WakeSteps \/ TaskSteps
  BY <1>2, OtherSubmits
<1>3. QED
  BY <1>1, <1>2, StepGroups

\* Recovery begins with a restart.
LEMMA RecoveryStarts ==
  ASSUME TypeInv, Next, ~Crash, recovery.pc = "Idle"
  PROVE  recovery'.pc = "Idle" /\ ~RecoverStep
<1>1. ~RecoverStep
  BY RecoveryTypeStep
<1>2. ASSUME NEW d \in DispatchIds,
             \/ SubmitStep(d) \/ SubmitInterruptFault(d) \/ SubmitFault(d) \/ Expire(d) \/ Elapse(d)
      PROVE  UNCHANGED recovery
  BY <1>2 DEF SubmitStep, SubmitInterrupt, SubmitStop, SubmitMark, SubmitCancel, SubmitRelease,
       SubmitPrepare, SubmitEnqueue, SubmitWake, SubmitInline, SubmitUndo, SubmitUndoMark,
       SubmitInterruptFault, SubmitFault, Expire, Elapse, maintVars
<1>3. ASSUME NEW d \in DispatchIds, Reconcile(d) \/ Purge(d) \/ CancelDispatch(d) \/ ControlMark(d)
      PROVE  UNCHANGED recovery
  BY <1>3 DEF Reconcile, Purge, CancelDispatch, ControlMark, maintVars
<1>4. ASSUME NEW t \in Threads,
             \/ WakeStep(t) \/ WakeFault(t) \/ GcScan(t) \/ GcRemove(t)
             \/ InterruptThread(t) \/ ControlStop(t)
      PROVE  UNCHANGED recovery
  BY <1>4 DEF WakeStep, WakeTry, WakeClaim, WakeRevert, WakeFault, GcScan, GcRemove,
       InterruptThread, ControlStop, maintVars
<1>5. ASSUME NEW tok \in Tokens,
             ExecStep(tok) \/ RunStep(tok) \/ Fault(tok) \/ Renew(tok) \/ RenewFault(tok)
      PROVE  UNCHANGED recovery
  BY <1>5 DEF ExecStep, Install, Check, CheckEpoch, Start, Enter, RunEnd, Result, Settle,
       AckAgain, MarkRun, Finish, RunStep, Fault, Renew, RenewFault, maintVars
<1>6. SweepReclaim \/ SweepOne => UNCHANGED recovery
  BY DEF SweepReclaim, SweepOne
<1>7. QED
  BY <1>1, <1>2, <1>3, <1>4, <1>5, <1>6 DEF Next

\* No task comes to a dispatch but by a claim.
LEMMA FreeStays ==
  ASSUME TypeInv, Next, ~Crash, NEW x \in DispatchIds, Free(x), Status(x) # "Queued"
  PROVE  Free(x)'
<1>1. CASE UNCHANGED exec
  BY <1>1 DEF Free, InFlight
<1>2. ASSUME NEW d \in DispatchIds, Spawned(d), Taken(d) PROVE Free(x)'
  BY <1>2 DEF Free, InFlight, Spawned, Taken
<1>3. ASSUME NEW tok \in Tokens, TaskMoves(tok) PROVE Free(x)'
  BY <1>3 DEF Free, InFlight, TaskMoves
<1>4. CASE TaskSteps
  <2>1. PICK tok \in Tokens :
           ExecStep(tok) \/ RunStep(tok) \/ Fault(tok) \/ Renew(tok) \/ RenewFault(tok)
    BY <1>4 DEF TaskSteps
  <2>2. CASE ExecStep(tok) \/ Fault(tok)
    BY <1>3, <2>2, TaskMovesStep
  <2>3. CASE RunStep(tok) \/ Renew(tok) \/ RenewFault(tok)
    BY <1>1, <2>3 DEF RunStep, Renew, RenewFault, execVars
  <2>4. QED
    BY <2>1, <2>2, <2>3
<1>5. CASE SubmitSteps \/ TimeSteps \/ ControlSteps \/ SweepSteps \/ WakeSteps
  BY <1>1, <1>2, <1>5, OtherTasks DEF execVars
<1>6. QED
  BY <1>4, <1>5, StepGroups

\* Every step keeps early submissions out of the store.
LEMMA FreshStep ==
  ASSUME TypeInv, FreshInv, Next
  PROVE  FreshInv'
<1> SUFFICES ASSUME spent'.crashes = 0
             PROVE  /\ recovery'.pc = "Idle"
                    /\ \A x \in DispatchIds :
                          submits'[x].pc \in Early =>
                             dispatches'[x].status = "Absent" /\ Free(x)'
  BY DEF FreshInv, Status
<1>1. ~Crash /\ spent.crashes = 0
  BY SpentTypeStep
<1>2. recovery.pc = "Idle"
  BY <1>1 DEF FreshInv
<1>3. recovery'.pc = "Idle" /\ ~RecoverEnqueue
  BY <1>1, <1>2, RecoveryStarts DEF RecoverStep
<1>4. ASSUME NEW x \in DispatchIds, submits'[x].pc \in Early
      PROVE  dispatches'[x].status = "Absent" /\ Free(x)'
  <2>1. submits[x].pc \in Early /\ ~SubmitEnqueue(x)
    <3>1. CASE UNCHANGED submits
      <4>1. ASSUME SubmitEnqueue(x) PROVE FALSE
        BY <3>1, <4>1, <1>4, SubmitMovesStep DEF SubmitEnqueue, SubmitStep, SubmitMoves, Early
      <4>2. QED
        BY <1>4, <3>1, <4>1
    <3>2. ASSUME NEW d \in DispatchIds, SubmitMoves(d) PROVE submits[x].pc \in Early
      BY <1>4, <3>2 DEF SubmitMoves, Early
    <3>3. ASSUME SubmitEnqueue(x) PROVE FALSE
      <4>1. SubmitMoves(x) /\ submits[x].pc = "Enqueue"
        BY <3>3, SubmitMovesStep DEF SubmitEnqueue, SubmitStep
      <4>2. QED
        BY <1>4, <4>1 DEF SubmitMoves, Early
    <3>4. QED
      BY <1>1, <3>1, <3>2, <3>3, PlacesStep
  <2>2. Status(x) = "Absent" /\ Free(x)
    BY <1>1, <2>1 DEF FreshInv
  <2>3. QED
    BY <1>1, <1>3, <2>1, <2>2, AbsentStays, FreeStays
<1>5. QED
  BY <1>3, <1>4

\* A claim gives a dispatch that nobody is at work on to a new task.
LEMMA ClaimCalm ==
  ASSUME TypeInv, CalmFacts, NEW d \in DispatchIds, Free(d), Spawned(d), Taken(d),
         ~(submits'[d].pc \in {"Inline", "Undo", "UndoMark"}
             \/ (submits'[d].pc = "Rejected" /\ d \in Foreground)),
         \A x \in DispatchIds \ {d} : (Kept(x) \/ Shut(x)) /\ submits'[x] = submits[x]
  PROVE  CalmFacts'
<1> DEFINE k == lastToken'
<1>0. /\ k \in Tokens /\ exec[k].pc = "None" /\ exec'[k].pc = "Install" /\ exec'[k].d = d
      /\ \A a \in Tokens \ {k} : exec'[a] = exec[a]
      /\ renewal' = renewal \cup {k}
      /\ dispatches'[d].status = "Claimed" /\ dispatches'[d].claim_token = k
      /\ dispatches'[d].lease = "Live" /\ Status(d) = "Queued"
  BY DEF Spawned, Taken
<1>1. \A a \in Tokens : exec[a].d \in DispatchIds
  BY HolderFacts
<1> HIDE DEF k
<1>2. ASSUME NEW x \in DispatchIds PROVE Served(x)'
  <2>1. CASE x = d
    BY <1>0, <2>1 DEF Served, Status, Holding
  <2>2. CASE x # d
    <3> SUFFICES ASSUME dispatches'[x].status = "Claimed"
                 PROVE  LET j == dispatches'[x].claim_token
                        IN  /\ j \in Tokens /\ exec'[j].d = x /\ exec'[j].pc \in Holding
                            /\ j \in renewal' /\ dispatches'[x].lease = "Live"
      BY DEF Served, Status
    <3>1. Kept(x) /\ Status(x) = "Claimed"
      BY <2>2, StatusFacts DEF Shut, Kept, Status
    <3> DEFINE j == dispatches[x].claim_token
    <3>2. /\ j \in Tokens /\ exec[j].d = x /\ exec[j].pc \in Holding
          /\ j \in renewal /\ dispatches[x].lease = "Live"
      BY <3>1 DEF CalmFacts, Served
    <3>3. j # k
      BY <1>0, <3>2 DEF Holding
    <3>4. exec'[j] = exec[j] /\ j \in renewal'
      BY <1>0, <3>2, <3>3
    <3>5. QED
      BY <3>1, <3>2, <3>4 DEF Kept
  <2>3. QED
    BY <2>1, <2>2
<1>3. ASSUME NEW x \in DispatchIds \ {d}, Free(x) PROVE Free(x)'
  BY <1>0, <1>3 DEF Free, InFlight
<1>4. ASSUME NEW x \in DispatchIds PROVE Guarded(x)'
  <2>1. CASE x = d
    BY <2>1 DEF Guarded
  <2>2. CASE x # d
    <3>1. Guarded(x) /\ (Kept(x) \/ Shut(x)) /\ submits'[x] = submits[x]
      BY <2>2 DEF CalmFacts
    <3>2. Status(x) \in Over => dispatches'[x].status \in Over
      BY <3>1, StatusFacts DEF Kept, Shut, Status
    <3>3. Parked(x) => NextParked(x) \/ dispatches'[x].status \in Over
      BY <3>1, StatusFacts DEF Kept, Shut, Status, Parked, NextParked
    <3>4. QED
      BY <1>3, <2>2, <3>1, <3>2, <3>3 DEF Guarded, Parked, NextParked, Status
  <2>3. QED
    BY <2>1, <2>2
<1>5. ASSUME NEW a \in Tokens PROVE Released(a)'
  <2>1. CASE a = k
    BY <1>0, <2>1 DEF Released, Holds, Status
  <2>2. CASE a # k
    <3> DEFINE x == exec[a].d
               still == dispatches'[x].status = "Claimed" /\ dispatches'[x].claim_token = a
    <3>1. exec'[a] = exec[a] /\ Released(a) /\ x \in DispatchIds
      BY <1>0, <1>1, <2>2 DEF CalmFacts
    <3> SUFFICES ASSUME InFlight(a), ~still
                 PROVE  \/ dispatches'[x].status \in Store!Terminal
                        \/ exec[a].pc = "Finish" /\ NextParked(x)
      BY <3>1 DEF Released, InFlight, Holds, Status, Parked, NextParked
    <3>2. x # d /\ (Kept(x) \/ Shut(x))
      BY <3>1 DEF Free
    <3>3. Shut(x) => dispatches'[x].status \in Store!Terminal
      BY DEF Shut
    <3>4. Kept(x) => ~Holds(a)
      BY DEF Kept, Holds, Status
    <3>5. QED
      BY <3>1, <3>2, <3>3, <3>4 DEF Released, Kept, Parked, NextParked, Status
  <2>3. QED
    BY <2>1, <2>2
<1>6. ASSUME NEW a \in Tokens, NEW b \in Tokens, InFlight(a)', InFlight(b)', exec'[a].d = exec'[b].d
      PROVE  a = b
  <2>1. ASSUME NEW c \in Tokens, c # k, InFlight(c)' PROVE InFlight(c) /\ exec'[c].d = exec[c].d
                                                           /\ exec[c].d # d
    BY <1>0, <2>1 DEF InFlight, Free
  <2>2. QED
    BY <1>0, <1>6, <2>1 DEF CalmFacts
<1>7. QED
  BY <1>2, <1>4, <1>5, <1>6 DEF CalmFacts

\* While nothing fails, a task that steps keeps its claim or loses it for good.
LEMMA TaskCalmStep ==
  ASSUME TypeInv, WorkerInv, CalmFacts, NEW tok \in Tokens, ExecStep(tok), spent'.faults = 0
  PROVE  RecordsCalm /\ \A a \in Tokens : TaskCalm(a)
<1> DEFINE d == exec[tok].d
<1>0. TaskMoves(tok) /\ d \in DispatchIds
  BY TaskMovesStep, HolderFacts
<1>1. exec'[tok].d = d /\ \A a \in Tokens \ {tok} : exec'[a] = exec[a]
  BY <1>0 DEF TaskMoves
<1>2. ASSUME exec'[tok].pc \notin {"None", "Done"} => InFlight(tok),
             exec[tok].pc \in Holding /\ StillHolds(tok) => exec'[tok].pc \in Holding,
             exec[tok].pc = "Finish" => exec'[tok].pc \in {"Finish", "Done"},
             \A a \in renewal : StillHolds(a) => a \in renewal'
      PROVE  \A a \in Tokens : TaskCalm(a)
  BY <1>1, <1>2 DEF TaskCalm, InFlight
<1>3. ASSUME UNCHANGED storeVars PROVE RecordsCalm /\ (StillHolds(tok) => Holds(tok))
  BY <1>3 DEF storeVars, RecordsCalm, Kept, StillHolds, Holds, Status
<1>4. ASSUME TaskCall(d), Shut(d) PROVE RecordsCalm /\ ~StillHolds(tok)
  BY <1>4, StatusFacts DEF TaskCall, Others, RecordsCalm, StillHolds, Shut
<1>5. ASSUME TaskCall(d), Stays(d) PROVE RecordsCalm
  BY <1>5 DEF TaskCall, Others, RecordsCalm
<1>6. CASE UNCHANGED <<storeVars, renewal>> /\ (Install(tok) \/ Check(tok) \/ Enter(tok) \/ RunEnd(tok))
  <2>1. /\ exec[tok].pc \in {"Install", "Check", "Enter", "Run"}
        /\ Holds(tok) => exec'[tok].pc \in {"Check", "Epoch", "Run", "Result"}
    BY <1>0, <1>6 DEF TaskMoves, Install, Check, Enter, RunEnd, At
  <2>2. RecordsCalm /\ (StillHolds(tok) => Holds(tok))
    BY <1>3, <1>6
  <2>3. QED
    BY <1>2, <1>6, <2>1, <2>2 DEF InFlight, Holding
<1>7. CASE CheckEpoch(tok)
  <2>1. exec[tok].pc = "Epoch" /\ UNCHANGED renewal
    BY <1>7 DEF CheckEpoch, At
  <2>2. CASE UNCHANGED storeVars /\ (Holds(tok) => ~Store!Stale(d) /\ Status(d) # "Superseded")
    <3>1. Holds(tok) => exec'[tok].pc = "Start"
      <4>1. Holds(tok) => Step(tok, "Start")
        BY <1>7, <2>2 DEF CheckEpoch
      <4>2. Step(tok, "Start") => exec'[tok].pc = "Start"
        BY DEF Step, TypeInv, TaskType, Tasks
      <4>3. QED
        BY <4>1, <4>2
    <3>2. RecordsCalm /\ (StillHolds(tok) => Holds(tok))
      BY <1>3, <2>2
    <3>3. QED
      BY <1>2, <2>1, <3>1, <3>2 DEF InFlight, Holding
  <2>3. CASE TaskCall(d) /\ Shut(d)
    <3>1. RecordsCalm /\ ~StillHolds(tok)
      BY <1>4, <2>3
    <3>2. QED
      BY <1>2, <2>1, <3>1 DEF InFlight
  <2>4. QED
    BY <1>7, <2>2, <2>3, CheckEpochEffect
<1>8. CASE Start(tok)
  <2>1. exec[tok].pc = "Start" /\ UNCHANGED renewal
    BY <1>8 DEF Start, At
  <2>2. Granted(tok) => exec'[tok].pc = "Enter"
    <3>1. Granted(tok) => Step(tok, "Enter")
      BY <1>8 DEF Start
    <3>2. Step(tok, "Enter") => exec'[tok].pc = "Enter"
      BY DEF Step, TypeInv, TaskType, Tasks
    <3>3. QED
      BY <3>1, <3>2
  <2>3. CASE UNCHANGED storeVars /\ ~Holds(tok)
    <3>1. RecordsCalm /\ ~StillHolds(tok)
      BY <1>3, <2>3
    <3>2. QED
      BY <1>2, <2>1, <3>1 DEF InFlight
  <2>4. CASE TaskCall(d) /\ Shut(d)
    <3>1. RecordsCalm /\ ~StillHolds(tok)
      BY <1>4, <2>4
    <3>2. QED
      BY <1>2, <2>1, <3>1 DEF InFlight
  <2>5. CASE TaskCall(d) /\ Stays(d) /\ Granted(tok)
    BY <1>2, <1>5, <2>1, <2>2, <2>5 DEF InFlight, Holding
  <2>6. QED
    BY <1>8, <2>3, <2>4, <2>5, StartEffect
<1>9. CASE Result(tok)
  <2>1. exec[tok].pc = "Result" /\ exec'[tok].pc = "Settle" /\ UNCHANGED renewal
    BY <1>0, <1>9 DEF Result, At, TaskMoves
  <2>2. \A a \in Tokens : TaskCalm(a)
    BY <1>2, <2>1 DEF InFlight, Holding
  <2>3. RecordsCalm
    BY <1>3, <1>4, <1>5, <1>9, ResultEffect
  <2>4. QED
    BY <2>2, <2>3
<1>10. CASE Settle(tok)
  <2>1. exec[tok].pc = "Settle" /\ UNCHANGED renewal
    BY <1>10 DEF Settle, At
  <2>2. CASE UNCHANGED storeVars /\ ~Holds(tok)
    <3>1. RecordsCalm /\ ~StillHolds(tok)
      BY <1>3, <2>2
    <3>2. QED
      BY <1>2, <2>1, <3>1 DEF InFlight
  <2>3. CASE TaskCall(d) /\ Shut(d)
    <3>1. RecordsCalm /\ ~StillHolds(tok)
      BY <1>4, <2>3
    <3>2. QED
      BY <1>2, <2>1, <3>1 DEF InFlight
  <2>4. CASE Holds(tok) /\ TaskCall(d) /\ Back(d) /\ NextParked(d) /\ exec[tok].out = "Transient"
    <3>1. exec'[tok].pc = "Finish"
      <4>1. Step(tok, "Finish")
        BY <1>10, <2>4 DEF Settle
      <4>2. QED
        BY <4>1 DEF Step, TypeInv, TaskType, Tasks
    <3>2. Nacked(d)
      BY <2>4, <3>1 DEF Nacked, Holds
    <3>3. RecordsCalm
      BY <2>4, <3>2 DEF TaskCall, Others, RecordsCalm
    <3>4. ~StillHolds(tok)
      BY <2>4 DEF NextParked, StillHolds
    <3>5. QED
      BY <1>2, <2>1, <3>3, <3>4 DEF InFlight
  <2>5. QED
    BY <1>10, <2>2, <2>3, <2>4, SettleEffect
<1>11. CASE AckAgain(tok)
  <2>1. exec[tok].pc = "AckAgain" /\ UNCHANGED renewal
    BY <1>11 DEF AckAgain, At
  <2>2. \A a \in Tokens : TaskCalm(a)
    BY <1>2, <2>1 DEF InFlight, Holding
  <2>3. RecordsCalm
    BY <1>3, <1>4, <1>11, AckAgainEffect
  <2>4. QED
    BY <2>2, <2>3
<1>12. CASE MarkRun(tok)
  <2>1. exec[tok].pc \in {"Cancel", "Mark"} /\ UNCHANGED renewal /\ UNCHANGED storeVars
    BY <1>12 DEF MarkRun
  <2>2. QED
    BY <1>2, <1>3, <2>1 DEF InFlight, Holding
<1>13. CASE Finish(tok)
  <2> DEFINE w == workers[T(tok)]
  <2>1. /\ exec[tok].pc = "Finish" /\ exec'[tok].pc = "Done" /\ UNCHANGED storeVars
        /\ \/ UNCHANGED renewal
           \/ /\ renewal' = renewal \ {w.tok} /\ w.st = "Running"
              /\ exec[w.tok].d = exec[tok].d
    BY <1>0, <1>13 DEF Finish, At, TaskMoves
  <2>2. ~Holds(tok)
    <3>1. SUFFICES ASSUME Status(d) = "Claimed", dispatches[d].claim_token = tok
                   PROVE  FALSE
      BY DEF Holds
    <3>2. Served(d)
      BY <1>0 DEF CalmFacts
    <3>3. exec[tok].pc \in Holding
      BY <3>1, <3>2 DEF Served
    <3>4. QED
      BY <2>1, <3>3 DEF Holding
  <2>3. w.st = "Running" /\ exec[w.tok].d = exec[tok].d => w.tok = tok
    <3>1. T(tok) \in Threads
      BY <1>0, MailboxAssumption DEF T
    <3>2. InFlight(tok)
      BY <2>1 DEF InFlight
    <3>3. w.st = "Running" => w.tok \in Tokens /\ InFlight(w.tok)
      BY <3>1 DEF WorkerInv, WorkerOf
    <3>4. QED
      BY <3>2, <3>3 DEF CalmFacts
  <2>4. RecordsCalm /\ ~StillHolds(tok)
    BY <1>3, <2>1, <2>2
  <2>5. \A a \in renewal : StillHolds(a) => a \in renewal'
    BY <2>1, <2>3, <2>4
  <2>6. QED
    BY <1>2, <2>1, <2>4, <2>5 DEF InFlight, Holding
<1>14. QED
  <2>1. Install(tok) \/ Check(tok) \/ Enter(tok) \/ RunEnd(tok) => UNCHANGED <<storeVars, renewal>>
    BY DEF Install, Check, Enter, RunEnd
  <2>2. QED
    BY <1>6, <1>7, <1>8, <1>9, <1>10, <1>11, <1>12, <1>13, <2>1 DEF ExecStep

\* Steps that leave the tasks alone.
LEMMA QuietCalm ==
  ASSUME TypeInv, CalmFacts, RecordsCalm, UNCHANGED execVars,
         \A x \in DispatchIds : SubmitCalm(x) \/ submits'[x] = submits[x]
  PROVE  CalmFacts'
<1>1. \A a \in Tokens : TaskCalm(a)
  BY DEF execVars, TaskCalm, InFlight
<1>2. \A x \in DispatchIds : SubmitCalm(x)
  BY DEF SubmitCalm
<1>3. QED
  BY <1>1, <1>2, CalmKept

\* While nothing fails, a submission is refused only when its dispatch is out of
\* the queue or was never in it.
LEMMA SubmitCalmStep ==
  ASSUME TypeInv, FreshInv, CalmFacts, Next, spent.crashes = 0, spent'.faults = 0,
         NEW d \in DispatchIds, SubmitStep(d)
  PROVE  CalmFacts'
<1>0. /\ SubmitMoves(d) /\ Proved!RecordInv /\ ~RecoverEnqueue
      /\ submits[d].pc \in Early => Status(d) = "Absent" /\ Free(d)
  <2>1. ~RecoverStep
    BY RecoveryTypeStep DEF FreshInv
  <2>2. QED
    BY <2>1, SubmitMovesStep DEF TypeInv, FreshInv, RecoverStep
<1>1. \A x \in DispatchIds \ {d} : submits'[x] = submits[x]
  BY <1>0 DEF SubmitMoves
<1>2. ASSUME RecordsCalm, UNCHANGED execVars, SubmitCalm(d) PROVE CalmFacts'
  BY <1>1, <1>2, QuietCalm
<1>3. ASSUME UNCHANGED storeVars PROVE RecordsCalm
  BY <1>3 DEF storeVars, RecordsCalm, Kept
<1>4. ASSUME Others(d), Shut(d) PROVE RecordsCalm
  BY <1>4 DEF Others, RecordsCalm
<1>5. CASE \/ SubmitInterrupt(d) \/ SubmitStop(d) \/ SubmitMark(d) \/ SubmitCancel(d)
           \/ SubmitRelease(d) \/ SubmitPrepare(d)
  <2>1. UNCHANGED execVars /\ submits[d].pc \in Early \ {"Enqueue"}
    BY <1>5 DEF SubmitInterrupt, SubmitStop, SubmitMark, SubmitCancel, SubmitRelease,
                SubmitPrepare, Early
  <2>2. submits'[d].pc \in Early \cup {"Rejected"}
    BY <1>0, <2>1 DEF SubmitMoves, Early
  <2>3. dispatches'[d].status = "Absent"
    <3>1. ~SubmitEnqueue(d)
      BY <2>1 DEF SubmitEnqueue
    <3>2. QED
      BY <1>0, <2>1, <3>1, AbsentStays
  <2>4. SubmitCalm(d)
    BY <2>2, <2>3, StatusFacts DEF SubmitCalm, Early
  <2>5. RecordsCalm
    <3>1. CASE SubmitInterrupt(d)
      <4>1. Store!Interrupt(ThreadOf[d]) /\ ThreadOf[d] \in Threads
        BY <3>1, MailboxAssumption DEF SubmitInterrupt
      <4>2. QED
        BY <1>0, <4>1, InterruptEffect DEF RecordsCalm
    <3>2. CASE ~SubmitInterrupt(d)
      <4>1. UNCHANGED storeVars
        BY <1>5, <3>2 DEF SubmitStop, SubmitMark, SubmitCancel, SubmitRelease, SubmitPrepare
      <4>2. QED
        BY <1>3, <4>1
    <3>3. QED
      BY <3>1, <3>2
  <2>6. QED
    BY <1>2, <2>1, <2>4, <2>5
<1>6. CASE SubmitEnqueue(d)
  <2>1. submits[d].pc = "Enqueue" /\ UNCHANGED execVars
    BY <1>6 DEF SubmitEnqueue
  <2>2. submits'[d].pc = IF d \in Foreground THEN "Inline" ELSE "Wake"
    BY <1>0, <2>1 DEF SubmitMoves, Early
  <2>3. Status(d) = "Absent" /\ Free(d)
    BY <1>0, <2>1 DEF Early
  <2> DEFINE v == IF d \in Foreground THEN "Later" ELSE "Due"
  <2>4. Store!Enqueue(d, ThreadOf[d], 0, "NoKey", 0, v, 0) /\ v \in {"Due", "Later"}
    BY <1>6 DEF SubmitEnqueue
  <2>5. d \in Foreground => v = "Later"
    OBVIOUS
  <2> HIDE DEF v
  <2>6. Others(d) /\ dispatches'[d].status = "Queued" /\ dispatches'[d].available = v
    BY <1>0, <2>4, EnqueueEffect
  <2>7. Loose(d)
    BY <2>1, <2>3, <2>6 DEF Loose
  <2>8. RecordsCalm
    BY <2>6, <2>7 DEF Others, RecordsCalm
  <2>9. SubmitCalm(d)
    BY <2>2, <2>3, <2>5, <2>6 DEF SubmitCalm, NextParked
  <2>10. QED
    BY <1>2, <2>1, <2>8, <2>9
<1>7. CASE SubmitWake(d)
  <2>1. submits[d].pc = "Wake" /\ UNCHANGED <<storeVars, execVars>>
    BY <1>7 DEF SubmitWake
  <2>2. submits'[d].pc = "Accepted"
    BY <1>0, <2>1 DEF SubmitMoves, Early
  <2>3. QED
    BY <1>2, <1>3, <2>1, <2>2 DEF SubmitCalm
<1>8. CASE SubmitInline(d)
  <2>1. submits[d].pc = "Inline"
    BY <1>8 DEF SubmitInline
  <2>2. submits'[d].pc \in {"Accepted", "Undo"}
    BY <1>0, <2>1 DEF SubmitMoves, Early
  <2>3. SubmitCalm(d)
    BY <2>1, <2>2 DEF SubmitCalm
  <2>4. CASE UNCHANGED <<storeVars, execVars>>
    BY <1>2, <1>3, <2>3, <2>4
  <2>5. CASE Others(d) /\ Shut(d) /\ UNCHANGED execVars
    BY <1>2, <1>4, <2>3, <2>5
  <2>6. CASE /\ lastToken' = lastToken + 1 /\ lastToken < MaxToken
             /\ Others(d) /\ Taken(d) /\ Spawn(d) /\ Goto(d, "Accepted")
    <3>1. Spawned(d)
      BY <2>6, SpawnShape
    <3>2. submits'[d].pc = "Accepted"
      BY <2>6, GotoType DEF TypeInv, Places
    <3>3. Free(d)
      BY <2>1 DEF CalmFacts, Guarded
    <3>4. \A x \in DispatchIds \ {d} : Kept(x)
      BY <2>6 DEF Others
    <3>5. QED
      BY <1>1, <2>6, <3>1, <3>2, <3>3, <3>4, ClaimCalm
  <2>7. QED
    BY <1>8, <2>4, <2>5, <2>6, InlineEffect
<1>9. CASE SubmitUndo(d)
  <2>1. submits[d].pc = "Undo" /\ UNCHANGED execVars
    BY <1>9 DEF SubmitUndo
  <2>2. submits'[d].pc = "UndoMark"
    BY <1>0, <2>1, <1>9 DEF SubmitMoves, Early
  <2>3. CASE Status(d) = "Queued"
    <3>1. Store!Cancel(d)
      BY <1>9, <2>3 DEF SubmitUndo
    <3>2. Others(d) /\ Shut(d)
      BY <1>0, <3>1, CancelEffect
    <3>3. SubmitCalm(d)
      BY <2>2, <3>2, StatusFacts DEF SubmitCalm, Shut
    <3>4. QED
      BY <1>2, <1>4, <2>1, <3>2, <3>3
  <2>4. CASE Status(d) # "Queued"
    <3>1. UNCHANGED storeVars
      BY <1>9, <2>4 DEF SubmitUndo
    <3>2. Status(d) \in Over
      BY <2>1, <2>4 DEF CalmFacts, Guarded, Parked
    <3>3. dispatches'[d].status \in Over
      BY <3>1, <3>2 DEF storeVars, Status
    <3>4. SubmitCalm(d)
      BY <2>2, <3>3 DEF SubmitCalm
    <3>5. QED
      BY <1>2, <1>3, <2>1, <3>1, <3>4
  <2>5. QED
    BY <2>3, <2>4
<1>10. CASE SubmitUndoMark(d)
  <2>1. submits[d].pc = "UndoMark" /\ UNCHANGED <<storeVars, execVars>>
    BY <1>10 DEF SubmitUndoMark
  <2>2. submits'[d].pc = "Rejected"
    BY <1>0, <2>1 DEF SubmitMoves, Early
  <2>3. QED
    BY <1>2, <1>3, <2>1, <2>2 DEF SubmitCalm
<1>11. QED
  BY <1>5, <1>6, <1>7, <1>8, <1>9, <1>10 DEF SubmitStep

\* A call that fails is counted.
LEMMA FaultIsCounted ==
  ASSUME TypeInv, spent' = [spent EXCEPT !.faults = @ + 1]
  PROVE  spent'.faults # 0
<1>1. spent \in Counts
  BY DEF TypeInv, MaintType
<1>2. spent.faults \in Nat /\ spent'.faults = spent.faults + 1
  BY <1>1 DEF Counts
<1>3. QED
  BY <1>2

\* A lease does not expire under its task, and a delay ends when no task and no
\* submission relies on it.
LEMMA TimeCalm ==
  ASSUME TypeInv, CalmFacts, TimeSteps
  PROVE  CalmFacts'
<1>1. UNCHANGED execVars /\ UNCHANGED submits
  BY DEF TimeSteps, Expire, Elapse
<1>2. PICK d \in DispatchIds : Expire(d) \/ Elapse(d)
  BY DEF TimeSteps
<1>3. ASSUME Expire(d) PROVE FALSE
  <2>1. dispatches[d].claim_token \notin renewal /\ Store!Expire(d)
    BY <1>3 DEF Expire
  <2>2. Status(d) = "Claimed"
    BY <2>1, TimeEffect DEF TypeInv
  <2>3. QED
    BY <2>1, <2>2 DEF CalmFacts, Served
<1>4. /\ submits[d].pc \notin {"Inline", "Undo"}
      /\ \A tok \in Tokens : exec[tok].pc = "Finish" => exec[tok].d # d
      /\ Store!Elapse(d)
  BY <1>2, <1>3 DEF Elapse
<1>5. Others(d) /\ Status(d) = "Queued" /\ dispatches'[d].status = "Queued"
  BY <1>4, TimeEffect DEF TypeInv
<1>6. Free(d)
  <2> SUFFICES ASSUME NEW a \in Tokens, InFlight(a), exec[a].d = d PROVE FALSE
    BY DEF Free
  <2>1. Released(a) /\ ~Holds(a)
    BY <1>5 DEF CalmFacts, Holds
  <2>2. QED
    BY <1>4, <1>5, <2>1, StatusFacts DEF Released
<1>7. RecordsCalm
  BY <1>4, <1>5, <1>6 DEF RecordsCalm, Others, Loose
<1>8. QED
  BY <1>1, <1>7, QuietCalm

\* cancel and interrupt close what they touch.
LEMMA ControlCalm ==
  ASSUME TypeInv, CalmFacts, ControlSteps
  PROVE  CalmFacts'
<1>1. UNCHANGED execVars /\ UNCHANGED submits
  BY DEF ControlSteps, CancelDispatch, ControlMark, InterruptThread, ControlStop
<1>2. ASSUME UNCHANGED storeVars PROVE RecordsCalm
  BY <1>2 DEF storeVars, RecordsCalm, Kept
<1>3. ASSUME NEW d \in DispatchIds, CancelDispatch(d) PROVE RecordsCalm
  <2>1. UNCHANGED storeVars \/ Store!Cancel(d)
    BY <1>3 DEF CancelDispatch
  <2>2. ASSUME Store!Cancel(d) PROVE Others(d) /\ Shut(d)
    BY <2>2, CancelEffect DEF TypeInv
  <2>3. QED
    BY <1>2, <2>1, <2>2 DEF RecordsCalm, Others
<1>4. ASSUME NEW t \in Threads, InterruptThread(t) PROVE RecordsCalm
  <2>1. Store!Interrupt(t)
    BY <1>4 DEF InterruptThread
  <2>2. QED
    BY <2>1, InterruptEffect DEF TypeInv, RecordsCalm
<1>5. ASSUME NEW d \in DispatchIds, ControlMark(d) PROVE RecordsCalm
  BY <1>2, <1>5 DEF ControlMark
<1>6. ASSUME NEW t \in Threads, ControlStop(t) PROVE RecordsCalm
  BY <1>2, <1>6 DEF ControlStop
<1>7. RecordsCalm
  BY <1>3, <1>4, <1>5, <1>6 DEF ControlSteps
<1>8. QED
  BY <1>1, <1>7, QuietCalm

\* The sweep finds no lease expired, and GC purges what no task is at work on.
LEMMA SweepCalm ==
  ASSUME TypeInv, CalmFacts, SweepSteps, ~RecoverStep
  PROVE  CalmFacts'
<1>1. ~SweepReclaim
  <2> SUFFICES ASSUME SweepReclaim PROVE FALSE
    OBVIOUS
  <2>1. PICK d \in DispatchIds : Status(d) = "Claimed" /\ dispatches[d].lease = "Expired"
    BY DEF SweepReclaim, Expired
  <2>2. QED
    BY <2>1 DEF CalmFacts, Served
<1>2. UNCHANGED execVars /\ UNCHANGED submits
  BY <1>1 DEF SweepSteps, Reconcile, Purge, GcScan, GcRemove, SweepOne
<1>3. ASSUME UNCHANGED storeVars PROVE RecordsCalm
  BY <1>3 DEF storeVars, RecordsCalm, Kept
<1>4. ASSUME NEW d \in DispatchIds, Purge(d) PROVE RecordsCalm
  <2>1. Store!PurgeTerminal({d})
    BY <1>4 DEF Purge
  <2>2. Free(d)
    BY <1>4 DEF Purge, Free, InFlight
  <2>3. Others(d) /\ Status(d) \in Store!Terminal /\ dispatches'[d].status = "Absent"
    BY <2>1, PurgeEffect DEF TypeInv
  <2>4. QED
    BY <2>2, <2>3 DEF RecordsCalm, Others, Gone
<1>5. ASSUME NEW d \in DispatchIds, Reconcile(d) PROVE RecordsCalm
  BY <1>3, <1>5 DEF Reconcile
<1>6. ASSUME NEW t \in Threads, GcScan(t) \/ GcRemove(t) PROVE RecordsCalm
  BY <1>3, <1>6 DEF GcScan, GcRemove
<1>7. ASSUME SweepOne PROVE RecordsCalm
  BY <1>3, <1>7 DEF SweepOne
<1>8. RecordsCalm
  BY <1>1, <1>4, <1>5, <1>6, <1>7 DEF SweepSteps
<1>9. QED
  BY <1>2, <1>8, QuietCalm

\* A wake-up claims a dispatch that nobody is at work on.
LEMMA WakeCalm ==
  ASSUME TypeInv, CalmFacts, WakeSteps, spent'.faults = 0
  PROVE  CalmFacts'
<1>0. UNCHANGED submits
  BY OtherSubmits
<1>1. PICK t \in Threads : WakeStep(t) \/ WakeFault(t)
  BY DEF WakeSteps
<1>2. ~WakeFault(t)
  BY FaultIsCounted DEF WakeFault
<1>3. CASE WakeTry(t) \/ WakeRevert(t)
  <2>1. UNCHANGED storeVars /\ UNCHANGED execVars
    BY <1>3 DEF WakeTry, WakeRevert
  <2>2. RecordsCalm
    BY <2>1 DEF storeVars, RecordsCalm, Kept
  <2>3. QED
    BY <1>0, <2>1, <2>2, QuietCalm
<1>4. CASE WakeClaim(t)
  <2>1. CASE UNCHANGED execVars /\ \A x \in DispatchIds : Kept(x) \/ Shut(x)
    <3>1. RecordsCalm
      BY <2>1 DEF RecordsCalm
    <3>2. QED
      BY <1>0, <2>1, <3>1, QuietCalm
  <2>2. ASSUME NEW d \in DispatchIds, lastToken' = lastToken + 1, lastToken < MaxToken,
               Taken(d), Spawn(d), dispatches[d].available = "Due",
               \A x \in DispatchIds \ {d} : Kept(x) \/ Shut(x)
        PROVE  CalmFacts'
    <3>1. Spawned(d)
      BY <2>2, SpawnShape
    <3>2. Status(d) = "Queued" /\ ~Parked(d) /\ Status(d) \notin Over
      BY <2>2, StatusFacts DEF Taken, Parked
    <3>3. Free(d)
      <4> SUFFICES ASSUME NEW a \in Tokens, InFlight(a), exec[a].d = d PROVE FALSE
        BY DEF Free
      <4>1. Released(a) /\ ~Holds(a)
        BY <3>2 DEF CalmFacts, Holds
      <4>2. QED
        BY <3>2, <4>1, StatusFacts DEF Released
    <3>4. Guarded(d) /\ submits' = submits
      BY <1>0 DEF CalmFacts
    <3>5. ~(submits'[d].pc \in {"Inline", "Undo", "UndoMark"}
              \/ (submits'[d].pc = "Rejected" /\ d \in Foreground))
      BY <3>2, <3>4 DEF Guarded
    <3>6. \A x \in DispatchIds \ {d} : (Kept(x) \/ Shut(x)) /\ submits'[x] = submits[x]
      BY <2>2, <3>4
    <3>7. QED
      BY <2>2, <3>1, <3>3, <3>5, <3>6, ClaimCalm
  <2>3. QED
    BY <1>4, <2>1, <2>2, WakeClaimEffect
<1>5. QED
  BY <1>1, <1>2, <1>3, <1>4 DEF WakeStep

\* A task steps, or its lease is renewed.
LEMMA TasksCalm ==
  ASSUME TypeInv, WorkerInv, CalmFacts, TaskSteps, spent'.faults = 0
  PROVE  CalmFacts'
<1>0. UNCHANGED submits
  BY OtherSubmits
<1>1. PICK tok \in Tokens :
         ExecStep(tok) \/ RunStep(tok) \/ Fault(tok) \/ Renew(tok) \/ RenewFault(tok)
  BY DEF TaskSteps
<1>2. ~Fault(tok) /\ ~RenewFault(tok)
  BY FaultIsCounted DEF Fault, RenewFault
<1>3. \A x \in DispatchIds : SubmitCalm(x)
  BY <1>0 DEF SubmitCalm
<1>4. CASE ExecStep(tok)
  BY <1>3, <1>4, TaskCalmStep, CalmKept
<1>5. CASE RunStep(tok)
  <2>1. UNCHANGED storeVars /\ UNCHANGED execVars
    BY <1>5 DEF RunStep
  <2>2. RecordsCalm
    BY <2>1 DEF storeVars, RecordsCalm, Kept
  <2>3. QED
    BY <1>0, <2>1, <2>2, QuietCalm
<1>6. CASE Renew(tok)
  <2> DEFINE d == exec[tok].d
  <2>1. /\ UNCHANGED exec
        /\ renewal' = renewal \ {tok} \/ (Granted(tok) /\ renewal' = renewal)
    BY <1>6 DEF Renew
  <2>2. d \in DispatchIds
    BY HolderFacts
  <2>3. RecordsCalm /\ (StillHolds(tok) => Granted(tok))
    <3>1. CASE UNCHANGED storeVars /\ ~Holds(tok)
      BY <3>1 DEF storeVars, RecordsCalm, Kept, StillHolds, Holds, Status
    <3>2. CASE TaskCall(d) /\ Shut(d)
      BY <3>2, StatusFacts DEF TaskCall, Others, RecordsCalm, StillHolds, Shut
    <3>3. CASE TaskCall(d) /\ Granted(tok) /\ Stays(d)
      BY <3>3 DEF TaskCall, Others, RecordsCalm
    <3>4. QED
      BY <1>6, <3>1, <3>2, <3>3, RenewEffect
  <2>4. tok \in renewal /\ StillHolds(tok) => tok \in renewal'
    <3>1. Granted(tok) => UNCHANGED renewal
      BY <1>6 DEF Renew
    <3>2. QED
      BY <2>3, <3>1
  <2>5. \A a \in Tokens : TaskCalm(a)
    BY <2>1, <2>4 DEF TaskCalm, InFlight
  <2>6. QED
    BY <1>3, <2>3, <2>5, CalmKept
<1>7. QED
  BY <1>1, <1>2, <1>4, <1>5, <1>6

\* While nothing fails, every claim has the one task that renews and settles it.
LEMMA CalmStep ==
  ASSUME TypeInv, WorkerInv, FreshInv, CalmInv, Next
  PROVE  CalmInv'
<1> SUFFICES ASSUME spent'.faults + spent'.crashes = 0
             PROVE  CalmFacts'
  BY DEF CalmInv, CalmFacts, Calm
<1>1. /\ spent \in Counts /\ spent' \in Counts
      /\ spent'.faults >= spent.faults /\ spent'.crashes >= spent.crashes
  BY SpentTypeStep DEF TypeInv, MaintType
<1>2. /\ spent.faults \in Nat /\ spent.crashes \in Nat
      /\ spent'.faults \in Nat /\ spent'.crashes \in Nat
  BY <1>1 DEF Counts
<1>3. spent.faults = 0 /\ spent.crashes = 0 /\ spent'.faults = 0 /\ spent'.crashes = 0
  BY <1>1, <1>2
<1>4. Calm /\ CalmFacts
  BY <1>3 DEF Calm, CalmInv, CalmFacts
<1>5. ~Crash
  BY <1>3, SpentTypeStep
<1>6. ~RecoverStep
  BY <1>3, RecoveryTypeStep DEF FreshInv
<1>7. CASE SubmitSteps
  <2>1. PICK d \in DispatchIds : SubmitStep(d) \/ SubmitInterruptFault(d) \/ SubmitFault(d)
    BY <1>7 DEF SubmitSteps
  <2>2. ~SubmitInterruptFault(d) /\ ~SubmitFault(d)
    BY <1>3, FaultIsCounted DEF SubmitInterruptFault, SubmitFault
  <2>3. QED
    BY <1>3, <1>4, <2>1, <2>2, SubmitCalmStep
<1>8. QED
  BY <1>3, <1>4, <1>5, <1>6, <1>7, TimeCalm, ControlCalm, SweepCalm, WakeCalm, TasksCalm, StepGroups

(***************************************************************************)
(* The invariant and what follows from it                                  *)
(***************************************************************************)

\* The process starts with no task, no claim and an empty store.
LEMMA InitTypeInv ==
  ASSUME Init
  PROVE  TypeInv
<1>1. Proved!RecordInv
  BY SameStore, StoreAssumed, Proved!InitRecordInv DEF Init
<1>2. Proved!Init
  BY SameStore DEF Init
<1>3. lastToken = 0 /\ \A x \in DispatchIds : dispatches[x] = Store!NoDispatch
  BY SameRecords, <1>2 DEF Proved!Init
<1>4. /\ \A x \in DispatchIds : Status(x) = "Absent" /\ dispatches[x].claim_token = 0
      /\ MaxToken \in Nat
  BY <1>3, NoDispatchFacts, MailboxAssumption DEF Status
<1>5. NoTask \in TaskRecord /\ NoTask.pc = "None"
  <2>1. PICK d \in DispatchIds : TRUE
    BY MailboxAssumption
  <2>2. QED
    BY <2>1, NewTaskType, Zenon
<1>6. exec \in Tasks /\ \A a \in Tokens : exec[a].pc = "None"
  BY <1>5 DEF Init, Tasks, TaskRecord
<1>7. TokenInv
  BY <1>3, <1>4, <1>6 DEF TokenInv
<1>8. RunType
  BY DEF Init, RunType, Runs, RunStatuses
<1>9. submits \in Submissions
  BY DEF Init, Submissions, Submit, Places
<1>10. WorkType
  BY <1>4 DEF Init, WorkType, WakeCounts, Workers, NoWakes, Worker
<1>11. TaskType
  BY <1>4, <1>6 DEF Init, TaskType
<1>12. MaintType
  <2>1. NoRecovery \in Recoveries
    BY DEF NoRecovery, Recoveries
  <2>2. spent \in Counts
    BY DEF Init, Counts
  <2>3. /\ marking \in SUBSET DispatchIds /\ stopping \in SUBSET Threads
        /\ swept \in SUBSET [d : DispatchIds, status : Store!Status]
        /\ gcIdle \in SUBSET Threads /\ recovery = NoRecovery
    BY DEF Init
  <2>4. QED
    BY <2>1, <2>2, <2>3 DEF MaintType
<1>13. QED
  BY <1>1, <1>7, <1>8, <1>9, <1>10, <1>11, <1>12 DEF TypeInv

\* The invariant holds at the start.
LEMMA InitServiceInv ==
  ASSUME Init
  PROVE  ServiceInv
<1>1. TypeInv
  BY InitTypeInv
<1>2. \A x \in DispatchIds : Status(x) = "Absent"
  BY SameRecords, SameStore, NoDispatchFacts DEF Init, Proved!Init, Status
<1>3. \A a \in Tokens : ~InFlight(a) /\ exec[a].pc = "None"
  <2>1. PICK d \in DispatchIds : TRUE
    BY MailboxAssumption
  <2>2. NoTask.pc = "None"
    BY <2>1, NewTaskType, Zenon
  <2>3. exec = [tok \in Tokens |-> NoTask]
    BY DEF Init
  <2>4. QED
    BY <2>2, <2>3 DEF InFlight
<1>4. WorkerInv
  BY DEF Init, WorkerInv, WorkerOf, Worker
<1>5. FreshInv
  BY <1>2, <1>3 DEF Init, FreshInv, Free, NoRecovery
<1>6. ASSUME NEW x \in DispatchIds PROVE Served(x) /\ Guarded(x)
  <2>1. submits[x].pc = "New"
    BY DEF Init, Submit
  <2>2. QED
    BY <1>2, <2>1 DEF Served, Guarded
<1>7. CalmInv
  BY <1>3, <1>6 DEF CalmInv, Released
<1>8. QED
  BY <1>1, <1>4, <1>5, <1>7 DEF ServiceInv

\* Steps of others leave it alone.
LEMMA ServiceStutters ==
  ASSUME ServiceInv, UNCHANGED vars
  PROVE  ServiceInv'
<1>1. /\ dispatches' = dispatches /\ epoch' = epoch /\ lastToken' = lastToken
      /\ runs' = runs /\ runOf' = runOf /\ submits' = submits
      /\ wakes' = wakes /\ workers' = workers /\ exec' = exec /\ renewal' = renewal
      /\ active' = active /\ cancelled' = cancelled /\ marking' = marking
      /\ stopping' = stopping /\ swept' = swept /\ gcIdle' = gcIdle
      /\ recovery' = recovery /\ spent' = spent
  BY DEF vars, storeVars, runVars, workerVars, execVars, runtimeVars, maintVars
<1>2. Proved!RecordInv'
  BY <1>1, StoreAssumed, Proved!NextRecordInv DEF ServiceInv, TypeInv, Proved!vars
<1>3. TokenInv' /\ RunType' /\ submits' \in Submissions /\ WorkType' /\ TaskType' /\ MaintType'
  BY <1>1 DEF ServiceInv, TypeInv, TokenInv, RunType, WorkType, TaskType, MaintType, Status
<1>4. WorkerInv'
  BY <1>1 DEF ServiceInv, WorkerInv, WorkerOf, InFlight, T
<1>5. FreshInv'
  BY <1>1 DEF ServiceInv, FreshInv, Free, InFlight, Status
<1>6. CalmInv'
  BY <1>1 DEF ServiceInv, CalmInv, Calm, Served, Guarded, Free, Parked, Released, Holds,
              InFlight, Status
<1>7. QED
  BY <1>2, <1>3, <1>4, <1>5, <1>6 DEF ServiceInv, TypeInv

\* The service keeps its invariant, whatever the tasks, the callers, the clock,
\* failing calls and crashes do, and in whatever order.
THEOREM ServiceInvariant == Spec => []ServiceInv
<1>1. ASSUME ServiceInv, Next PROVE ServiceInv'
  BY <1>1, TypeStep, WorkerStep, FreshStep, CalmStep DEF ServiceInv
<1>2. ServiceInv /\ [Next]_vars => ServiceInv'
  BY <1>1, ServiceStutters
<1>3. QED
  BY <1>2, InitServiceInv, PTL DEF Spec

\* Every variable of the service stays in its type: run records, submissions,
\* wake-ups, workers, tasks and what the maintenance loops remember.
THEOREM ServiceIsTyped == Spec => []ServiceTypeOK
<1>1. ServiceInv => ServiceTypeOK
  <2> SUFFICES ASSUME ServiceInv PROVE ServiceTypeOK
    OBVIOUS
  <2>1. Store!TypeOK
    BY SameStore DEF ServiceInv, TypeInv, Proved!RecordInv
  <2>2. exec \in [Tokens -> [pc : {"None", "Install", "Check", "Epoch", "Start", "Enter", "Run",
                                  "Result", "Settle", "AckAgain", "Cancel", "Mark", "Finish", "Done"},
                            d : DispatchIds, recorded : BOOLEAN,
                            seen : Ended \cup {"None", "Created", "Running", "Waiting"},
                            out : {"None", "Done", "Waiting", "Transient", "Permanent"}]]
    BY DEF ServiceInv, TypeInv, TaskType, Tasks, Stages, RunStatuses
  <2>3. /\ runs \in [DispatchIds -> [status : Ended \cup {"None", "Created", "Running", "Waiting"},
                                     dispatch : DispatchIds]]
        /\ runOf \in [DispatchIds -> DispatchIds]
    BY DEF ServiceInv, TypeInv, RunType, Runs, RunStatuses
  <2>4. submits \in [DispatchIds -> [pc : {"New", "Stop", "Mark", "Cancel", "Release", "Prepare",
                                           "Enqueue", "Wake", "Inline", "Undo", "UndoMark",
                                           "Accepted", "Rejected", "Lost"},
                                     superseded : SUBSET DispatchIds, claim : SUBSET DispatchIds]]
    BY DEF ServiceInv, TypeInv, Submissions, Places
  <2>5. /\ wakes \in [Threads -> [try : Nat, claim : Nat, revert : Nat]]
        /\ workers \in [Threads -> [st : {"Gone", "Idle", "Claiming", "Running"}, tok : 0..MaxToken]]
    BY DEF ServiceInv, TypeInv, WorkType, WakeCounts, Workers
  <2>6. /\ renewal \subseteq Tokens /\ cancelled \subseteq Tokens
        /\ active \in [Threads -> 0..MaxToken]
        /\ marking \subseteq DispatchIds /\ stopping \subseteq Threads /\ gcIdle \subseteq Threads
    BY DEF ServiceInv, TypeInv, TaskType, MaintType
  <2>7. QED
    BY <2>1, <2>2, <2>3, <2>4, <2>5, <2>6 DEF ServiceTypeOK
<1>2. QED
  BY <1>1, ServiceInvariant, PTL

\* No worker is ever left busy without a task or an answer that will free it,
\* however claims, wake-ups, failing calls and GC interleave.
THEOREM BusyWorkersAreFreed == Spec => []BusyWorkerHasTask
<1>1. ServiceInv => BusyWorkerHasTask
  BY DEF ServiceInv, WorkerInv, WorkerOf, BusyWorkerHasTask
<1>2. QED
  BY <1>1, ServiceInvariant, PTL

\* While no call fails, an executing task that holds its claim has its lease
\* renewed, however other tasks of the thread overwrite the worker.
THEOREM ClaimsAreRenewed == Spec => []ClaimIsRenewed
<1>1. ServiceInv => ClaimIsRenewed
  <2> SUFFICES ASSUME ServiceInv, Calm, NEW tok \in Tokens, Holds(tok) PROVE tok \in renewal
    BY DEF ClaimIsRenewed
  <2>1. exec[tok].d \in DispatchIds
    BY HolderFacts DEF ServiceInv
  <2>2. Served(exec[tok].d)
    BY <2>1 DEF ServiceInv, CalmInv
  <2>3. QED
    BY <2>2 DEF Served, Holds
<1>2. QED
  BY <1>1, ServiceInvariant, PTL

\* While no call fails, a dispatch is executed by one task at a time.
THEOREM ExecutionsAreSingle == Spec => []OneLocalExecution
<1>1. ServiceInv => OneLocalExecution
  BY DEF ServiceInv, CalmInv, OneLocalExecution, Executing, InFlight
<1>2. QED
  BY <1>1, ServiceInvariant, PTL

\* While no call fails, the dispatch of a refused foreground submission is out
\* of the queue, so that nothing will ever claim it.
THEOREM RefusedNeverRuns == Spec => []RejectedNeverRuns
<1>1. ServiceInv => RejectedNeverRuns
  <2> SUFFICES ASSUME ServiceInv, Calm, NEW d \in Foreground, submits[d].pc = "Rejected"
               PROVE  Status(d) \in Store!Terminal \cup {"Absent"}
    BY DEF RejectedNeverRuns
  <2>1. d \in DispatchIds
    BY MailboxAssumption
  <2>2. QED
    BY <2>1 DEF ServiceInv, CalmInv, Guarded, Over
<1>2. QED
  BY <1>1, ServiceInvariant, PTL

(***************************************************************************)
(* The service keeps to the store's contract                               *)
(***************************************************************************)

\* Before the first crash every step of the service is one that MailboxStore
\* allows its callers, or leaves the store alone.
LEMMA StepOnStore ==
  ASSUME ServiceInv, Next, spent.crashes = 0
  PROVE  Store!Next \/ UNCHANGED storeVars
<1>1. ~RecoverEnqueue
  BY RecoveryTypeStep DEF ServiceInv, FreshInv, RecoverStep
<1>2. \A d \in DispatchIds : SubmitEnqueue(d) => Status(d) = "Absent"
  BY DEF ServiceInv, FreshInv, SubmitEnqueue, Early
<1>3. QED
  BY <1>1, <1>2, ServiceOnStore, SameStore DEF ServiceInv

\* So it is for any number of crashes, up to the first of them.
THEOREM StoreContractIsKept ==
  Spec => [][spent.crashes = 0 => Store!Next \/ UNCHANGED storeVars]_vars
<1>1. ServiceInv /\ [Next]_vars =>
        [spent.crashes = 0 => Store!Next \/ UNCHANGED storeVars]_vars
  BY StepOnStore
<1>2. QED
  BY <1>1, ServiceInvariant, PTL DEF Spec

\* In a process that is not restarted the service implements the store's
\* specification: what is proved there for arbitrary callers holds of it.
THEOREM ServiceImplementsStore ==
  ASSUME MaxCrashes = 0
  PROVE  Spec => ImplementsStore
<1>1. Init => Store!Init /\ spent.crashes = 0
  BY DEF Init
<1>2. ASSUME ServiceInv, Next, spent.crashes = 0
      PROVE  spent'.crashes = 0
  <2>1. ~Crash
    BY <1>2 DEF Crash
  <2>2. QED
    BY <1>2, <2>1, SpentTypeStep DEF ServiceInv
<1>3. ServiceInv /\ spent.crashes = 0 /\ [Next]_vars => (spent.crashes = 0)'
  BY <1>2 DEF vars, maintVars
<1>4. ServiceInv /\ spent.crashes = 0 /\ [Next]_vars => [Store!Next]_(Store!vars)
  BY StepOnStore DEF vars, storeVars, Store!vars
<1>5. QED
  BY <1>1, <1>3, <1>4, ServiceInvariant, PTL DEF Spec, ImplementsStore, Store!Spec

\* A thread never has two dispatches claimed, through any number of crashes: even
\* an enqueue that overwrites a dispatch, as recovery may make it, only releases
\* a claim.
THEOREM ThreadsAreServedSingly == Spec => []Store!OneClaimPerThread
<1>0. Store!OneClaimPerThread <=>
        \A t \in Threads, a, b \in DispatchIds :
           /\ Status(a) = "Claimed" /\ dispatches[a].thread = t
           /\ Status(b) = "Claimed" /\ dispatches[b].thread = t
           => a = b
  BY DEF Store!OneClaimPerThread, Store!Of, Status
<1>1. Init => Store!OneClaimPerThread
  <2>1. Store!NoDispatch.status = "Absent"
    BY NoDispatchFacts
  <2>2. QED
    BY <2>1 DEF Init, Store!Init, Store!OneClaimPerThread, Store!Of
<1>2. ASSUME ServiceInv, Store!OneClaimPerThread, [Next]_vars PROVE Store!OneClaimPerThread'
  <2> SUFFICES ASSUME NEW t \in Threads, NEW a \in DispatchIds, NEW b \in DispatchIds,
                      dispatches'[a].status = "Claimed", dispatches'[a].thread = t,
                      dispatches'[b].status = "Claimed", dispatches'[b].thread = t
               PROVE  a = b
    BY DEF Store!OneClaimPerThread, Store!Of
  <2>1. CASE UNCHANGED storeVars
    BY <1>0, <1>2, <2>1 DEF storeVars, Status
  <2>2. ASSUME NEW d \in DispatchIds, Others(d), dispatches'[d].status = "Queued"
        PROVE  a = b
    BY <1>0, <1>2, <2>2 DEF Others, Kept, Status
  <2>3. CASE Proved!Next
    <3>1. Proved!OnlyClaims
      BY <1>2, <2>3, StoreAssumed, Proved!NextOnlyClaims DEF ServiceInv, TypeInv
    <3>2. QED
      BY <1>0, <1>2, <3>1 DEF Proved!OnlyClaims, Proved!Of, Status
  <2>4. ASSUME NEW d \in DispatchIds, SubmitEnqueue(d)
        PROVE  a = b
    <3>1. PICK v \in {"Due", "Later"} : Store!Enqueue(d, ThreadOf[d], 0, "NoKey", 0, v, 0)
      BY <2>4 DEF SubmitEnqueue
    <3>2. QED
      BY <1>2, <2>2, <3>1, EnqueueEffect DEF ServiceInv, TypeInv
  <2>5. CASE RecoverEnqueue
    <3>1. PICK x \in recovery.pick : Store!Enqueue(x.d, ThreadOf[x.d], 0, "NoKey", 0, "Due", 0)
      BY <2>5 DEF RecoverEnqueue
    <3>2. x.d \in DispatchIds
      BY <1>2, <3>1 DEF ServiceInv, TypeInv, MaintType, Recoveries, Found
    <3>3. "Due" \in {"Due", "Later"}
      OBVIOUS
    <3>4. QED
      BY <1>2, <2>2, <3>1, <3>2, <3>3, EnqueueEffect DEF ServiceInv, TypeInv
  <2>6. CASE Next
    BY <1>2, <2>1, <2>3, <2>4, <2>5, <2>6, ServiceOnStore DEF ServiceInv
  <2>7. QED
    BY <1>2, <2>1, <2>6 DEF vars
<1>3. ServiceInv /\ Store!OneClaimPerThread /\ [Next]_vars => Store!OneClaimPerThread'
  BY <1>2
<1>4. QED
  BY <1>1, <1>3, ServiceInvariant, PTL DEF Spec

=============================================================================
