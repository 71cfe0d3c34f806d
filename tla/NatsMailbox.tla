---------------------------- MODULE NatsMailbox ----------------------------
(***************************************************************************)
(* The NATS mailbox store: one thread's dispatches in JetStream key-value  *)
(* buckets, used by callers on several nodes at once.  What the in-memory  *)
(* store does under one lock (module MailboxStore) is here a sequence of   *)
(* reads and compare-and-set writes on separate keys:                      *)
(*                                                                         *)
(*   records   one key per dispatch (kv_dispatch), the commit point        *)
(*   epoch     the thread's dispatch epoch (kv_epoch)                      *)
(*   guard     the thread's claim key: who may claim, until when           *)
(*   lock      the lock of a dedupe key, held by a dispatch id             *)
(*   index     the ids listed under the thread, what scans start from      *)
(*                                                                         *)
(* A caller's operation is a record in ops; callers may stop after any     *)
(* step (a crash, an I/O error, exhausted retries).  A write with an       *)
(* expected revision succeeds iff the key was not written since it was     *)
(* read: that is the flag fresh of the operation.  A loop that reads one   *)
(* key and compares-and-sets it with nothing in between is one step.       *)
(* The watcher of a node that starts beside the callers is boot, with the  *)
(* change events it has not applied yet in pending.                        *)
(***************************************************************************)
EXTENDS Integers, Sequences

CONSTANTS
    Dispatches,     \* dispatch ids of the thread
    Keyings,        \* which of them may carry the (one) dedupe key: sets of ids
    Nobody,         \* no dispatch
    Callers,        \* operations in flight, on whatever node
    Ops,            \* the operations callers use
    Lease,          \* lease_ms and extension_ms, in units of the clock
    MaxAttempts,
    SlowEnqueue,    \* may an enqueue outlast DEDUPE_ORPHAN_GRACE_MS?
    MaxToken, MaxClock, MaxEpoch, MaxBoots, MaxTroubles     \* bounds

ASSUME NatsConstants ==
    /\ Nobody \notin Dispatches
    /\ Keyings \subseteq SUBSET Dispatches
    /\ Lease \in Nat \ {0} /\ MaxAttempts \in Nat \ {0}
    /\ MaxToken \in Nat /\ MaxClock \in Nat \ {0} /\ MaxEpoch \in Nat
    /\ MaxBoots \in Nat /\ MaxTroubles \in Nat
    /\ SlowEnqueue \in BOOLEAN

VARIABLES keyed, records, epoch, guard, lock, index, ops, clock, lastToken, boot, pending

kv == <<keyed, records, epoch, guard, lock, index>>
vars == <<kv, ops, clock, lastToken, boot, pending>>

Terminal == {"Acked", "Cancelled", "DeadLetter", "Superseded"}
Status == {"Missing", "Queued", "Claimed", "Purged"} \cup Terminal

Missing == [status |-> "Missing", epoch |-> 0, tok |-> 0, lease |-> 0, attempts |-> 0]

Unheld == [d |-> Nobody, tok |-> 0, lease |-> 0]
\* slow is a history: enqueues that were under way when the grace of their lock
\* was over.
Unlocked == [d |-> Nobody, young |-> FALSE, slow |-> {}]

Idle == [op |-> "none", pc |-> "Idle", d |-> Nobody, tok |-> 0, now |-> 0, ep |-> 0,
         fresh |-> FALSE, todo |-> {}, chores |-> << >>]

Init ==
    /\ keyed \in Keyings
    /\ records = [d \in Dispatches |-> Missing]
    /\ epoch = 0 /\ guard = Unheld /\ lock = Unlocked /\ index = {}
    /\ ops = [c \in Callers |-> Idle]
    /\ clock = 1 /\ lastToken = 0
    /\ boot = [pc |-> "Off", keys |-> {}, found |-> {}, seen |-> FALSE, known |-> {},
               missed |-> {}, count |-> 0, troubles |-> 0]
    /\ pending = {}

-----------------------------------------------------------------------------
(* Records                                                                 *)

Queued(e) == [Missing EXCEPT !.status = "Queued", !.epoch = e]

Claimed(r, tok, until) == [r EXCEPT !.status = "Claimed", !.tok = tok, !.lease = until]

Ended(r, status) == [r EXCEPT !.status = status, !.tok = 0, !.lease = 0]

SupersededAt(r, e) == [Ended(r, "Superseded") EXCEPT !.epoch = e]

\* mark_nack_result and mark_expired_lease: back into the queue while attempts
\* are left.
Requeued(r) ==
    [Ended(r, IF r.attempts + 1 >= MaxAttempts THEN "DeadLetter" ELSE "Queued")
        EXCEPT !.attempts = @ + 1]

-----------------------------------------------------------------------------
(* Writes                                                                  *)

\* The operations after caller c has written record d and become o: whoever
\* else had read d will fail its compare-and-set.
Written(c, d, o) ==
    [x \in Callers |->
        IF x = c THEN o
        ELSE [ops[x] EXCEPT !.fresh = @ /\ (ops[x].d # d \/ ops[x].pc = "PurgeLock")]]

\* The same for a write to the dedupe lock.
Relocked(c, o) ==
    [x \in Callers |->
        IF x = c THEN o ELSE [ops[x] EXCEPT !.fresh = @ /\ ops[x].pc # "PurgeLock"]]

\* A plausible slip: the watcher subscribes after the scan.
NotedAfterScan(d, status) ==
    pending \cup
        (IF boot.pc # "Watch" \/ status = "Purged" THEN {}
         ELSE {<<d, IF status \in Terminal THEN "terminal" ELSE "live">>})

\* A subscribed watcher is told of every write; only whether the dispatch is
\* live matters to the thread index, and a live entry never follows a
\* terminal one.
Noted(d, status) ==
    pending \cup
        (IF boot.pc = "Off" \/ status = "Purged" THEN {}
         ELSE {<<d, IF status \in Terminal THEN "terminal" ELSE "live">>})

Write(c, d, r, o) ==
    /\ records' = [records EXCEPT ![d] = r]
    /\ ops' = Written(c, d, o)
    /\ pending' = Noted(d, r.status)

\* An operation has done what it came for with one dispatch: the clean-up
\* chores first, then the next dispatch of its list.
Continue(o) ==
    CASE o.chores # << >> -> [o EXCEPT !.pc = "Chore", !.fresh = FALSE]
      [] o.chores = << >> /\ o.todo # {} -> [o EXCEPT !.pc = "Pick", !.fresh = FALSE, !.d = Nobody]
      [] OTHER -> Idle

At(c, pc) == ops[c].pc = pc

\* release_dedupe_lock is called for dispatches that have a key.
Unlocking(d) == IF d \in keyed THEN <<"lock">> ELSE << >>

-----------------------------------------------------------------------------
(* enqueue: stamp the epoch, take the dedupe lock, list the id, put the    *)
(* record.                                                                 *)

StartEnqueue(c) ==
    \E d \in Dispatches :
        /\ "enqueue" \in Ops /\ At(c, "Idle")
        /\ records[d].status = "Missing"
        /\ \A x \in Callers : ~(ops[x].op = "enqueue" /\ ops[x].d = d)
        /\ ops' = [ops EXCEPT ![c] = [Idle EXCEPT !.op = "enqueue", !.d = d, !.ep = epoch,
                                          !.pc = IF d \in keyed THEN "Lock" ELSE "Append"]]
        /\ UNCHANGED <<kv, clock, lastToken, boot, pending>>

\* A plausible slip: a lock without a record is stale at once.
LockIsStaleAtOnce ==
    \/ records[lock.d].status \in {"Missing", "Purged"} \cup Terminal
    \/ records[lock.d].status = "Queued" /\ records[lock.d].epoch < epoch

\* reconcile_dedupe_lock: may the lock be taken from its holder?
LockIsStale ==
    \/ records[lock.d].status = "Missing" /\ ~lock.young
    \/ records[lock.d].status \in {"Purged"} \cup Terminal
    \/ records[lock.d].status = "Queued" /\ records[lock.d].epoch < epoch

\* acquire_dedupe_lock: create the lock, or look at the one that is there.
TakeLock(c) ==
    /\ At(c, "Lock")
    /\ \/ /\ lock.d = Nobody
          /\ lock' = [lock EXCEPT !.d = ops[c].d, !.young = TRUE]
          /\ ops' = Relocked(c, [ops[c] EXCEPT !.pc = "Append"])
       \/ /\ lock.d # Nobody
          /\ ops' = [ops EXCEPT ![c] =
                        IF LockIsStale THEN [@ EXCEPT !.pc = "PurgeLock", !.fresh = TRUE] ELSE Idle]
          /\ UNCHANGED lock
    /\ UNCHANGED <<keyed, records, epoch, guard, index, clock, lastToken, boot, pending>>

Freed == [lock EXCEPT !.d = Nobody, !.young = FALSE]

\* purge_lock_if_revision, then another round; a newer holder wins.
PurgeLock(c) ==
    /\ At(c, "PurgeLock")
    /\ \/ /\ ops[c].fresh
          /\ lock' = Freed
          /\ ops' = Relocked(c, [ops[c] EXCEPT !.pc = "Lock", !.fresh = FALSE])
       \/ /\ ~ops[c].fresh
          /\ ops' = [ops EXCEPT ![c] = IF lock.d = Nobody THEN [@ EXCEPT !.pc = "Lock"] ELSE Idle]
          /\ UNCHANGED lock
    /\ UNCHANGED <<keyed, records, epoch, guard, index, clock, lastToken, boot, pending>>

Enqueuing(d) == \E c \in Callers : ops[c].d = d /\ ops[c].pc \in {"Append", "Put", "Chore"}

\* DEDUPE_ORPHAN_GRACE_MS passes over a lock: unless enqueues may be that slow,
\* only over one whose enqueue was given up.
GraceLapses ==
    /\ lock.d # Nobody /\ lock.young
    /\ SlowEnqueue \/ ~Enqueuing(lock.d)
    /\ lock' = [lock EXCEPT !.young = FALSE, !.slow = IF Enqueuing(lock.d) THEN @ \cup {lock.d} ELSE @]
    /\ UNCHANGED <<keyed, records, epoch, guard, index, ops, clock, lastToken, boot, pending>>

AppendIndex(c) ==
    /\ At(c, "Append")
    /\ index' = index \cup {ops[c].d}
    /\ ops' = [ops EXCEPT ![c].pc = "Put"]
    /\ UNCHANGED <<keyed, records, epoch, guard, lock, clock, lastToken, boot, pending>>

Put(c) ==
    /\ At(c, "Put")
    /\ Write(c, ops[c].d, Queued(ops[c].ep), Idle)
    /\ UNCHANGED <<keyed, epoch, guard, lock, index, clock, lastToken, boot>>

\* The index or the record cannot be written: the lock is given back.
EnqueueFails(c) ==
    /\ ops[c].pc \in {"Append", "Put"}
    /\ ops' = [ops EXCEPT ![c] = Continue([@ EXCEPT !.chores = Unlocking(ops[c].d)])]
    /\ UNCHANGED <<kv, clock, lastToken, boot, pending>>

-----------------------------------------------------------------------------
(* claim and claim_dispatch                                                *)

GuardLive(now) == guard.lease >= now

StartClaim(c) ==
    /\ "claim" \in Ops /\ At(c, "Idle")
    /\ ~GuardLive(clock)
    /\ {d \in index : records[d].status = "Queued"} # {}
    /\ ops' = [ops EXCEPT ![c] =
                [Idle EXCEPT !.op = "claim", !.pc = "Pick", !.now = clock,
                             !.todo = {d \in index : records[d].status = "Queued"}]]
    /\ UNCHANGED <<kv, clock, lastToken, boot, pending>>

StartClaimDispatch(c) ==
    \E d \in Dispatches :
        /\ "claim" \in Ops /\ At(c, "Idle")
        /\ records[d].status = "Queued"
        /\ ops' = [ops EXCEPT ![c] = [Idle EXCEPT !.op = "claim", !.pc = "Pick", !.now = clock, !.todo = {d}]]
        /\ UNCHANGED <<kv, clock, lastToken, boot, pending>>

\* claim_dispatch_inner reads the record and the epoch.
PickClaim(c) ==
    \E d \in ops[c].todo :
        /\ At(c, "Pick") /\ ops[c].op = "claim"
        /\ LET o == [ops[c] EXCEPT !.d = d, !.todo = @ \ {d},
                                   !.ep = IF records[d].epoch < epoch THEN epoch ELSE 0] IN
           ops' = [ops EXCEPT ![c] =
                    IF records[d].status # "Queued" THEN Continue(o)
                    ELSE [o EXCEPT !.fresh = TRUE,
                                   !.pc = IF records[d].epoch < epoch THEN "Supersede" ELSE "Acquire"]]
        /\ UNCHANGED <<kv, clock, lastToken, boot, pending>>

\* claim_guard::acquire: refused while somebody's lease on the thread lives.
Acquire(c) ==
    /\ At(c, "Acquire")
    /\ \/ /\ GuardLive(ops[c].now)
          /\ ops' = [ops EXCEPT ![c] = Continue(@)]
          /\ UNCHANGED <<guard, lastToken>>
       \/ /\ ~GuardLive(ops[c].now)
          /\ lastToken < MaxToken
          /\ lastToken' = lastToken + 1
          /\ guard' = [d |-> ops[c].d, tok |-> lastToken + 1, lease |-> ops[c].now + Lease]
          /\ ops' = [ops EXCEPT ![c].pc = "ClaimCas", ![c].tok = lastToken + 1]
    /\ UNCHANGED <<keyed, records, epoch, lock, index, clock, boot, pending>>

\* The record is claimed under the guard's token and lease; after a conflict
\* the guard is released and the dispatch read again.
ClaimCas(c) ==
    /\ At(c, "ClaimCas")
    /\ LET o == ops[c] IN
       \/ /\ o.fresh
          /\ Write(c, o.d, Claimed(records[o.d], o.tok, o.now + Lease), Idle)
       \/ /\ ~o.fresh
          /\ ops' = [ops EXCEPT ![c] = Continue([o EXCEPT !.chores = <<"guard">>, !.todo = @ \cup {o.d}])]
          /\ UNCHANGED <<keyed, records, pending>>
    /\ UNCHANGED <<keyed, epoch, guard, lock, index, clock, lastToken, boot>>

-----------------------------------------------------------------------------
(* cas_update: ack, nack, dead_letter, record_*, cancel; and the loops of  *)
(* the same shape: extend_lease, supersede_claimed, reclaim_one.           *)

Updates == {"ack", "nack", "dead_letter", "record", "cancel", "extend", "supersede", "reclaim"}

\* Reading the record and, for a claimed one, the epoch: what comes next.
Reading(o) ==
    LET r == records[o.d]
        mine == r.status = "Claimed" /\ r.tok = o.tok
        stale == r.status = "Claimed" /\ r.epoch < epoch
        lapsed == r.status = "Claimed" /\ r.lease < o.now
        next == CASE o.op \in {"ack", "nack", "dead_letter", "record"} ->
                        IF stale THEN "Supersede" ELSE IF mine THEN "Cas" ELSE "Idle"
                  [] o.op = "extend" ->
                        IF ~mine THEN "Idle" ELSE IF stale THEN "Supersede" ELSE "ExtendGuard"
                  [] o.op = "supersede" -> IF mine THEN "Supersede" ELSE "Idle"
                  [] o.op = "cancel" -> IF r.status = "Queued" THEN "Cas" ELSE "Idle"
                  [] o.op = "reclaim" ->
                        IF ~lapsed THEN "Idle" ELSE IF stale THEN "Supersede" ELSE "Cas"
    IN IF next = "Idle" THEN Idle ELSE [o EXCEPT !.pc = next, !.fresh = TRUE,
                                            !.ep = IF next = "Supersede" THEN epoch ELSE 0]

StartUpdate(c) ==
    \E op \in Updates \cap Ops, d \in Dispatches, tok \in 0 .. lastToken :
        LET o == [Idle EXCEPT !.op = op, !.d = d, !.tok = tok,
                              !.now = IF op \in {"extend", "reclaim"} THEN clock ELSE 0] IN
        /\ At(c, "Idle")
        /\ (tok = 0) = (op \in {"cancel", "reclaim"})
        \* One renewal task per claim.
        /\ op = "extend" => \A x \in Callers : ~(ops[x].op = "extend" /\ ops[x].tok = tok)
        /\ Reading(o) # Idle
        /\ ops' = [ops EXCEPT ![c] = Reading(o)]
        /\ UNCHANGED <<kv, clock, lastToken, boot, pending>>

Outcome(o, r) ==
    CASE o.op = "ack" -> Ended(r, "Acked")
      [] o.op = "dead_letter" -> Ended(r, "DeadLetter")
      [] o.op \in {"nack", "reclaim"} -> Requeued(r)
      [] o.op = "cancel" -> Ended(r, "Cancelled")
      [] o.op = "extend" -> [r EXCEPT !.lease = o.now + Lease]
      [] OTHER -> r

\* What an update still has to tidy up once the record is written.
Chores(d, old, new) ==
    (IF old.status = "Claimed" /\ new.status # "Claimed" THEN <<"guard">> ELSE << >>)
    \o (IF new.status \in Terminal THEN Unlocking(d) \o <<"index">> ELSE << >>)

Retry(o) == IF o.op = "claim" THEN Continue([o EXCEPT !.todo = @ \cup {o.d}]) ELSE Reading(o)

Settled(c, r) ==
    LET old == records[ops[c].d] IN
    Write(c, ops[c].d, r,
          Continue([ops[c] EXCEPT !.tok = old.tok, !.chores = Chores(ops[c].d, old, r)]))

Cas(c) ==
    /\ At(c, "Cas")
    /\ \/ ops[c].fresh /\ Settled(c, Outcome(ops[c], records[ops[c].d]))
       \/ /\ ~ops[c].fresh
          /\ ops' = [ops EXCEPT ![c] = Retry(@)]
          /\ UNCHANGED <<keyed, records, pending>>
    /\ UNCHANGED <<keyed, epoch, guard, lock, index, clock, lastToken, boot>>

\* A dispatch that an interrupt has overtaken is superseded by whoever meets it.
Supersede(c) ==
    /\ At(c, "Supersede")
    /\ \/ ops[c].fresh /\ Settled(c, SupersededAt(records[ops[c].d], ops[c].ep))
       \/ /\ ~ops[c].fresh
          /\ ops' = [ops EXCEPT ![c] = Retry(@)]
          /\ UNCHANGED <<keyed, records, pending>>
    /\ UNCHANGED <<keyed, epoch, guard, lock, index, clock, lastToken, boot>>

HoldsGuard(o) == guard.d = o.d /\ guard.tok = o.tok

\* A plausible slip: the record is renewed although the guard is lost.
ExtendGuardUnchecked(c) ==
    /\ At(c, "ExtendGuard")
    /\ guard' = IF HoldsGuard(ops[c]) THEN [guard EXCEPT !.lease = ops[c].now + Lease] ELSE guard
    /\ ops' = [ops EXCEPT ![c].pc = "Cas"]
    /\ UNCHANGED <<keyed, records, epoch, lock, index, clock, lastToken, boot, pending>>

\* claim_guard::extend comes before the record's own lease.
ExtendGuard(c) ==
    /\ At(c, "ExtendGuard")
    /\ \/ /\ HoldsGuard(ops[c])
          /\ guard' = [guard EXCEPT !.lease = ops[c].now + Lease]
          /\ ops' = [ops EXCEPT ![c].pc = "Cas"]
       \/ /\ ~HoldsGuard(ops[c])
          /\ ops' = [ops EXCEPT ![c] = Idle]
          /\ UNCHANGED guard
    /\ UNCHANGED <<keyed, records, epoch, lock, index, clock, lastToken, boot, pending>>

-----------------------------------------------------------------------------
(* Clean-up after a transition: claim_guard::release, release_dedupe_lock, *)
(* cleanup_thread_index, each a key of its own.                            *)

Released(o) == IF HoldsGuard(o) THEN [guard EXCEPT !.lease = 0] ELSE guard

ReleaseGuard(c) ==
    /\ At(c, "Chore") /\ Head(ops[c].chores) = "guard"
    /\ guard' = Released(ops[c])
    /\ ops' = [ops EXCEPT ![c] = Continue([ops[c] EXCEPT !.chores = Tail(@)])]
    /\ UNCHANGED <<keyed, records, epoch, lock, index, clock, lastToken, boot, pending>>

ReleaseLock(c) ==
    /\ At(c, "Chore") /\ Head(ops[c].chores) = "lock"
    /\ LET o == Continue([ops[c] EXCEPT !.chores = Tail(@)]) IN
       \/ lock.d = ops[c].d /\ lock' = Freed /\ ops' = Relocked(c, o)
       \/ lock.d # ops[c].d /\ ops' = [ops EXCEPT ![c] = o] /\ UNCHANGED lock
    /\ UNCHANGED <<keyed, records, epoch, guard, index, clock, lastToken, boot, pending>>

CleanIndex(c) ==
    /\ At(c, "Chore") /\ Head(ops[c].chores) = "index"
    /\ index' = index \ {ops[c].d}
    /\ ops' = [ops EXCEPT ![c] = Continue([ops[c] EXCEPT !.chores = Tail(@)])]
    /\ UNCHANGED <<keyed, records, epoch, guard, lock, clock, lastToken, boot, pending>>

-----------------------------------------------------------------------------
(* interrupt and purge_terminal                                            *)

StartInterrupt(c) ==
    /\ "interrupt" \in Ops /\ At(c, "Idle")
    /\ epoch < MaxEpoch
    /\ epoch' = epoch + 1
    /\ ops' = [ops EXCEPT ![c] = [Idle EXCEPT !.op = "interrupt", !.pc = "Load", !.ep = epoch + 1, !.now = clock]]
    /\ UNCHANGED <<keyed, records, guard, lock, index, clock, lastToken, boot, pending>>

\* load_thread_dispatches, and the dispatch the guard names.
LoadThread(c) ==
    /\ At(c, "Load")
    /\ ops' = [ops EXCEPT ![c] =
                Continue([@ EXCEPT !.todo =
                    {d \in Dispatches : /\ d \in index \/ (GuardLive(ops[c].now) /\ guard.d = d)
                                        /\ records[d].status \notin {"Missing", "Purged"}}])]
    /\ UNCHANGED <<kv, clock, lastToken, boot, pending>>

PickInterrupt(c) ==
    \E d \in ops[c].todo :
        LET o == [ops[c] EXCEPT !.d = d, !.todo = @ \ {d}] IN
        /\ At(c, "Pick") /\ ops[c].op = "interrupt"
        /\ \/ /\ records[d].status = "Queued" /\ records[d].epoch < o.ep
              /\ Write(c, d, SupersededAt(records[d], o.ep), Continue([o EXCEPT !.chores = <<"index">> \o Unlocking(d)]))
           \/ /\ ~(records[d].status = "Queued" /\ records[d].epoch < o.ep)
              /\ ops' = [ops EXCEPT ![c] = Continue(o)]
              /\ UNCHANGED <<keyed, records, pending>>
        /\ UNCHANGED <<keyed, epoch, guard, lock, index, clock, lastToken, boot>>

PurgeTerminal(c) ==
    \E d \in Dispatches :
        /\ "purge" \in Ops /\ At(c, "Idle")
        /\ records[d].status \in Terminal
        /\ Write(c, d, [Missing EXCEPT !.status = "Purged"],
                 Continue([Idle EXCEPT !.op = "purge", !.d = d, !.chores = <<"index">>]))
        /\ UNCHANGED <<keyed, epoch, guard, lock, index, clock, lastToken, boot>>

-----------------------------------------------------------------------------
(* A node starts: subscribe to changes, scan the records, replace the      *)
(* thread's index by what was found, then apply the changes.  known is the *)
(* node's own copy of the records (DispatchIndex), whose queued ones its   *)
(* sweeper signals again and again; missed is a history: what the scan     *)
(* could not read and no event has brought since.                          *)

Listed == {d \in Dispatches : records[d].status \notin {"Missing", "Purged"}}

\* watch_all, then the listing of the keys.
BootSubscribe ==
    /\ boot.pc = "Off" /\ boot.count < MaxBoots
    /\ boot' = [boot EXCEPT !.pc = "List", !.count = @ + 1]
    /\ UNCHANGED <<kv, ops, clock, lastToken, pending>>

BootList ==
    /\ boot.pc = "List"
    /\ boot' = [boot EXCEPT !.pc = "Scan", !.keys = Listed]
    /\ UNCHANGED <<kv, ops, clock, lastToken, pending>>

BootScan ==
    \E d \in boot.keys :
        /\ boot.pc = "Scan"
        /\ boot' = [boot EXCEPT !.keys = @ \ {d},
                                !.seen = @ \/ records[d].status # "Purged",
                                !.found = IF records[d].status \in {"Queued", "Claimed"} THEN @ \cup {d} ELSE @,
                                !.known = IF records[d].status # "Purged" THEN @ \cup {d} ELSE @]
        /\ UNCHANGED <<kv, ops, clock, lastToken, pending>>

\* A key that cannot be listed, an entry that cannot be read or decoded: the
\* scan goes on without it.
BootSkip ==
    \E d \in boot.keys :
        /\ boot.pc = "Scan" /\ boot.troubles < MaxTroubles
        /\ boot' = [boot EXCEPT !.keys = @ \ {d}, !.missed = @ \cup {d}, !.troubles = @ + 1]
        /\ UNCHANGED <<kv, ops, clock, lastToken, pending>>

\* replace_thread_index_bucket, for a thread the scan has seen.
BootReplace ==
    /\ boot.pc = "Scan" /\ boot.keys = {}
    /\ index' = IF boot.seen THEN boot.found ELSE index
    /\ boot' = [boot EXCEPT !.pc = "Watch", !.found = {}, !.seen = FALSE]
    /\ UNCHANGED <<keyed, records, epoch, guard, lock, ops, clock, lastToken, pending>>

\* The watcher takes a change, the oldest of a key first.
Taken(d, kind) ==
    /\ boot.pc = "Watch"
    /\ <<d, kind>> \in pending
    /\ kind = "terminal" => <<d, "live">> \notin pending
    /\ pending' = pending \ {<<d, kind>>}
    /\ UNCHANGED <<keyed, records, epoch, guard, lock, ops, clock, lastToken>>

Learned(d) == [boot EXCEPT !.known = @ \cup {d}, !.missed = @ \ {d}]

\* apply_entry: the thread's index first, then the node's own.
ApplyEntry(d) ==
    \E kind \in {"live", "terminal"} :
        /\ Taken(d, kind)
        /\ index' = IF kind = "live" THEN index \cup {d} ELSE index \ {d}
        /\ boot' = Learned(d)

\* reconcile_thread_index fails, which is only logged.
ApplyFails(d) ==
    \E kind \in {"live", "terminal"} :
        /\ Taken(d, kind)
        /\ boot.troubles < MaxTroubles
        /\ boot' = [Learned(d) EXCEPT !.troubles = @ + 1]
        /\ UNCHANGED index

\* The sweeper publishes a signal for every queued dispatch it knows, after each
\* republish_after; the node that pulls it lists the dispatch again.
Signal(d) ==
    /\ boot.pc = "Watch" /\ d \in boot.known
    /\ records[d].status = "Queued"
    /\ index' = index \cup {d}
    /\ UNCHANGED <<keyed, records, epoch, guard, lock, ops, clock, lastToken, boot, pending>>

\* The node goes down; it will start again.
BootCrash ==
    /\ boot.pc # "Off" /\ boot.count < MaxBoots
    /\ boot' = [boot EXCEPT !.pc = "Off", !.keys = {}, !.found = {}, !.seen = FALSE,
                            !.known = {}, !.missed = {}]
    /\ pending' = {}
    /\ UNCHANGED <<kv, ops, clock, lastToken>>

-----------------------------------------------------------------------------

\* A caller stops: its node crashes, a request fails, its retries are used up.
Abandon(c) ==
    /\ ~At(c, "Idle")
    /\ ops' = [ops EXCEPT ![c] = Idle]
    /\ UNCHANGED <<kv, clock, lastToken, boot, pending>>

Tick ==
    /\ clock < MaxClock
    /\ clock' = clock + 1
    /\ UNCHANGED <<kv, ops, lastToken, boot, pending>>

Starting == BootSubscribe \/ BootList \/ BootScan \/ BootReplace

Next ==
    \/ \E c \in Callers :
        \/ StartEnqueue(c) \/ TakeLock(c) \/ PurgeLock(c) \/ AppendIndex(c) \/ Put(c) \/ EnqueueFails(c)
        \/ StartClaim(c) \/ StartClaimDispatch(c) \/ PickClaim(c) \/ Acquire(c) \/ ClaimCas(c)
        \/ StartUpdate(c) \/ Cas(c) \/ Supersede(c) \/ ExtendGuard(c)
        \/ ReleaseGuard(c) \/ ReleaseLock(c) \/ CleanIndex(c)
        \/ StartInterrupt(c) \/ LoadThread(c) \/ PickInterrupt(c) \/ PurgeTerminal(c)
        \/ Abandon(c)
    \/ \E d \in Dispatches : ApplyEntry(d) \/ ApplyFails(d) \/ Signal(d)
    \/ GraceLapses \/ Starting \/ BootSkip \/ BootCrash \/ Tick

Spec == Init /\ [][Next]_vars

\* The watcher task of a running node is scheduled and takes the changes in the
\* order of the stream, so each is taken some time; its sweeper runs on an
\* interval, and a signal is redelivered until it was handled.  Callers promise
\* nothing.
FairSpec ==
    /\ Spec
    /\ WF_vars(Starting)
    /\ \A d \in Dispatches : WF_vars(ApplyEntry(d)) /\ WF_vars(Signal(d))

-----------------------------------------------------------------------------
(* Properties                                                              *)

Record == [status : Status, epoch : 0 .. MaxEpoch, tok : 0 .. MaxToken,
           lease : 0 .. MaxClock + Lease, attempts : 0 .. MaxAttempts]

\* The keys keep their types, and a claim token and a lease are on record for
\* claimed dispatches only.
NatsTypeOK ==
    /\ keyed \subseteq Dispatches
    /\ records \in [Dispatches -> Record]
    /\ \A d \in Dispatches : records[d].status # "Claimed" => records[d].tok = 0 /\ records[d].lease = 0
    /\ epoch \in 0 .. MaxEpoch /\ clock \in 1 .. MaxClock /\ lastToken \in 0 .. MaxToken
    /\ guard \in [d : Dispatches \cup {Nobody}, tok : 0 .. MaxToken, lease : 0 .. MaxClock + Lease]
    /\ lock \in [d : Dispatches \cup {Nobody}, young : BOOLEAN, slow : SUBSET Dispatches]
    /\ index \subseteq Dispatches
    /\ pending \subseteq Dispatches \X {"live", "terminal"}

LiveClaim(d) == records[d].status = "Claimed" /\ records[d].lease >= clock

\* Whatever nodes claim, renew, settle, interrupt and reclaim at once, the
\* thread never has two dispatches under a lease that still runs, although
\* guard and record are two keys and a claimer may stall between them.
OneLiveClaim == \A d, e \in Dispatches : LiveClaim(d) /\ LiveClaim(e) => d = e

KeyedLive(d) ==
    d \in keyed /\ records[d].status \in {"Queued", "Claimed"} /\ records[d].epoch = epoch

\* Two live dispatches never share a dedupe key, unless an interrupt has
\* overtaken one of them or the enqueue of one outlasted the grace of its lock:
\* the lock is not lost while its holder is written, re-queued, claimed, or
\* cleaned up late.
DedupeHolds ==
    \A d, e \in Dispatches : KeyedLive(d) /\ KeyedLive(e) => d = e \/ {d, e} \cap lock.slow # {}

\* The comment on reconcile_dedupe_lock: within the grace a concurrent enqueue
\* cannot steal the lock, however long the enqueue that holds it takes.
NoLockStolen == \A d, e \in Dispatches : KeyedLive(d) /\ KeyedLive(e) => d = e

\* A queued dispatch that the index of its thread does not list (a starting
\* node replaced it by an older scan, or the watcher could not list it) is listed
\* again or no longer queued: claims find every queued dispatch in the end, but
\* for one that the scan of the node could not read and nobody has written since.
IndexHeals ==
    \A d \in Dispatches :
        records[d].status = "Queued" /\ d \notin index
        ~> d \in index \/ records[d].status # "Queued" \/ d \in boot.missed

=============================================================================
