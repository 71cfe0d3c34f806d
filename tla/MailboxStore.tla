---------------------------- MODULE MailboxStore ----------------------------
(***************************************************************************)
(* The durable run queue behind the mailbox: RunDispatch records, their    *)
(* life cycle (awaken-server-contract, contract/mailbox.rs) and the        *)
(* operations of the reference store (awaken-stores, memory_mailbox.rs).   *)
(*                                                                         *)
(* Every operation of the store holds the write lock of the dispatch map   *)
(* for its whole body, so it is one atomic action here.  Its callers are   *)
(* arbitrary: any operation may be called at any time, and an operation    *)
(* that takes a claim token may be called with any token ever issued, so   *)
(* zombies, retries and late answers are among the behaviours.             *)
(*                                                                         *)
(* Time is abstracted to the comparisons with `now` the store makes:       *)
(*   available  "Due" iff available_at <= now, else "Later";               *)
(*   lease      "Live", "Expired" iff lease_until < now, "None" if unset;  *)
(* and its passing to the actions Elapse and Expire.  The older_than of a  *)
(* purge and the limit of a reclaim are inputs, so any set of candidates   *)
(* may be taken.                                                           *)
(***************************************************************************)
EXTENDS Naturals, FiniteSets

CONSTANTS
    Threads,        \* thread ids
    DispatchIds,    \* dispatch ids
    DedupeKeys,     \* dedupe keys
    NoKey,          \* dedupe_key = None
    Priorities,     \* priority values callers use
    Stamps,         \* created_at values, stamped by the callers' clocks
    MaxAttempts,    \* max_attempts of every dispatch
    EnqueuedAttempts, \* attempt counts callers enqueue with (with_attempt_count)
    ClaimLimit,     \* the largest limit passed to claim
    MaxEpoch,       \* bound: interrupts per thread
    MaxToken        \* bound: claims

ASSUME ConstantsAssumption ==
    /\ Priorities \subseteq Nat
    /\ Stamps \subseteq Nat
    /\ IsFiniteSet(DispatchIds)
    /\ Threads # {}
    /\ MaxAttempts \in Nat \ {0}      \* validate_identity_and_retry
    /\ EnqueuedAttempts \subseteq 0..MaxAttempts   \* validate_for_enqueue
    /\ ClaimLimit \in Nat \ {0}
    /\ MaxEpoch \in Nat
    /\ MaxToken \in Nat
    /\ NoKey \notin DedupeKeys

VARIABLES
    dispatches,     \* InMemoryMailboxStore.dispatches; "Absent" is a missing key
    epoch,          \* InMemoryMailboxStore.state; a missing key reads as 0
    lastToken       \* the claim tokens issued so far are 1..lastToken, 0 is None

vars == <<dispatches, epoch, lastToken>>

Terminal == {"Acked", "Cancelled", "Superseded", "DeadLetter"}
Status   == {"Absent", "Queued", "Claimed"} \cup Terminal
RunStatus == {"None", "Running", "Waiting", "Done"}

Dispatch ==
    [thread : Threads, priority : Nat, dedupe_key : DedupeKeys \cup {NoKey},
     created_at : Nat, dispatch_epoch : Nat, status : Status,
     available : {"Due", "Later"}, attempt_count : Nat, claim_token : Nat,
     lease : {"None", "Live", "Expired"}, run_status : RunStatus,
     completed : BOOLEAN, spent : BOOLEAN]

-----------------------------------------------------------------------------
(* RunDispatch: the transitions of a record.                               *)

\* RunDispatch::queued with the caller's attempt count n, then
\* prepare_for_enqueue with the thread's epoch.  spent: it came without an
\* attempt left, which validate_for_enqueue lets pass (a history).
NewDispatch(t, p, k, c, avail, e, n) ==
    [thread |-> t, priority |-> p, dedupe_key |-> k, created_at |-> c,
     dispatch_epoch |-> e, status |-> "Queued", available |-> avail,
     attempt_count |-> n, claim_token |-> 0, lease |-> "None",
     run_status |-> "None", completed |-> FALSE, spent |-> n >= MaxAttempts]

\* What a missing key of the dispatch map is read as.
NoDispatch ==
    [NewDispatch(CHOOSE t \in Threads : TRUE, 0, NoKey, 0, "Due", 0, 0)
       EXCEPT !.status = "Absent"]

\* RunDispatch::claim
MarkClaimed(r, tok) ==
    [r EXCEPT !.status = "Claimed", !.claim_token = tok, !.lease = "Live"]

\* RunDispatch::extend_lease
MarkExtended(r) == [r EXCEPT !.lease = "Live"]

\* RunDispatch::record_dispatch_start
MarkStarted(r) == [r EXCEPT !.run_status = "Running", !.completed = FALSE]

\* RunDispatch::record_run_result
MarkResult(r, rs) == [r EXCEPT !.run_status = rs, !.completed = TRUE]

\* mark_acked, mark_cancelled and mark_dead_letter: the runtime projection stays.
MarkTerminal(r, s) ==
    [r EXCEPT !.status = s, !.completed = TRUE, !.claim_token = 0, !.lease = "None"]

\* mark_superseded keeps the record's epoch, mark_superseded_at_epoch moves it.
MarkSuperseded(r, e) ==
    [r EXCEPT !.dispatch_epoch = e, !.status = "Superseded", !.completed = TRUE,
              !.claim_token = 0, !.lease = "None", !.run_status = "None"]

\* A failed attempt: back to the queue, or dead once the budget is used up.
Requeue(r, n, avail) ==
    [r EXCEPT !.status = "Queued", !.attempt_count = n, !.available = avail,
              !.completed = FALSE, !.claim_token = 0, !.lease = "None",
              !.run_status = "None"]
Bury(r, n, rs, avail) ==
    [r EXCEPT !.status = "DeadLetter", !.attempt_count = n, !.available = avail,
              !.completed = TRUE, !.claim_token = 0, !.lease = "None",
              !.run_status = rs]

\* mark_nack_result: a dead letter keeps its runtime projection.
MarkNackResult(r, avail) ==
    LET n == r.attempt_count + 1
    IN  IF n >= MaxAttempts THEN Bury(r, n, r.run_status, r.available)
                            ELSE Requeue(r, n, avail)

\* Mutant: the abandoned attempt stays visible on the record.
MarkExpiredLeaseKeepsProjection(r) ==
    LET n == r.attempt_count + 1
    IN  IF n >= MaxAttempts THEN Bury(r, n, r.run_status, "Due")
                            ELSE [Requeue(r, n, "Due") EXCEPT !.run_status = r.run_status]

\* mark_expired_lease: due at once, and the projection is cleared on both outcomes.
MarkExpiredLease(r) ==
    LET n == r.attempt_count + 1
    IN  IF n >= MaxAttempts THEN Bury(r, n, "None", "Due")
                            ELSE Requeue(r, n, "Due")

\* The part of validate_for_persist that goes by the status.
FieldsValid(r) ==
    /\ r.status = "Queued" =>
         /\ r.claim_token = 0 /\ r.lease = "None"
         /\ ~r.completed
         /\ r.run_status = "None"
    /\ r.status = "Claimed" => r.claim_token # 0 /\ r.lease # "None"
    /\ r.status \in Terminal =>
         /\ r.claim_token = 0 /\ r.lease = "None"
         /\ r.completed

\* validate_for_persist, which every transition above ends with and whose
\* failure is a panic (the expect calls of mailbox_state.rs).
ValidForPersist(r) == r.attempt_count <= MaxAttempts /\ FieldsValid(r)

-----------------------------------------------------------------------------
(* Queries on the two maps.                                                *)

Of(t, s) == {d \in DispatchIds : dispatches[d].status = s /\ dispatches[d].thread = t}
Stale(d) == dispatches[d].dispatch_epoch < epoch[dispatches[d].thread]

\* Mutant: the token is checked and the epoch is not.
FencedByTokenOnly(d, tok, next) ==
    /\ dispatches[d].claim_token = tok
    /\ dispatches' = [dispatches EXCEPT ![d] = next]
    /\ UNCHANGED <<epoch, lastToken>>

\* The guard shared by ack, nack, dead_letter, record_dispatch_start,
\* record_run_result and extend_lease: the caller's token must be the current
\* one, and a claim that an interrupt has overtaken is superseded on the spot.
Fenced(d, tok, next) ==
    LET r == dispatches[d]
        e == epoch[r.thread]
    IN  /\ r.claim_token = tok
        /\ dispatches' = [dispatches EXCEPT ![d] =
                             IF Stale(d) THEN MarkSuperseded(r, e) ELSE next]
        /\ UNCHANGED <<epoch, lastToken>>

\* a goes before b in the order (priority, created_at); ties go either way.
Precedes(a, b) ==
    \/ dispatches[a].priority < dispatches[b].priority
    \/ /\ dispatches[a].priority = dispatches[b].priority
       /\ dispatches[a].created_at <= dispatches[b].created_at

\* The batches that claim may pick from the eligible dispatches of t.
Eligible(t) == {d \in Of(t, "Queued") : ~Stale(d) /\ dispatches[d].available = "Due"}
Batches(t) ==
    {S \in SUBSET Eligible(t) :
        /\ S # {} /\ Cardinality(S) <= ClaimLimit
        /\ \A a \in S, b \in Eligible(t) \ S : Precedes(a, b)}

-----------------------------------------------------------------------------
(* The operations of the store.                                            *)

\* Mutant: the key of a claimed dispatch is free again.
EnqueueDedupesQueuedOnly(d, t, p, k, c, avail, n) ==
    /\ k = NoKey \/ \A x \in Of(t, "Queued") : dispatches[x].dedupe_key # k
    /\ dispatches' = [dispatches EXCEPT ![d] = NewDispatch(t, p, k, c, avail, epoch[t], n)]
    /\ UNCHANGED <<epoch, lastToken>>

\* A non-terminal dispatch of the thread with the same dedupe key rejects the
\* call.  A record already stored under the id is replaced.
Enqueue(d, t, p, k, c, avail, n) ==
    /\ k = NoKey \/ \A x \in Of(t, "Queued") \cup Of(t, "Claimed") :
                        dispatches[x].dedupe_key # k
    /\ dispatches' = [dispatches EXCEPT ![d] = NewDispatch(t, p, k, c, avail, epoch[t], n)]
    /\ UNCHANGED <<epoch, lastToken>>

\* Stale queued dispatches are superseded first; then, if nothing of the thread
\* is claimed, the batch S is claimed under one fresh token.  S = {} is a claim
\* that comes back empty.
Claim(t, S) ==
    /\ IF Of(t, "Claimed") = {} /\ Eligible(t) # {} THEN S \in Batches(t) ELSE S = {}
    /\ S # {} => lastToken < MaxToken
    /\ dispatches' =
         [d \in DispatchIds |->
            IF d \in S THEN MarkClaimed(dispatches[d], lastToken + 1)
            ELSE IF d \in Of(t, "Queued") /\ Stale(d)
                 THEN MarkSuperseded(dispatches[d], epoch[t])
                 ELSE dispatches[d]]
    /\ lastToken' = IF S = {} THEN lastToken ELSE lastToken + 1
    /\ UNCHANGED epoch

\* Mutant: the inline claim does not look at the thread's other dispatches.
ClaimDispatchAlone(d) ==
    /\ dispatches[d].status = "Queued" /\ lastToken < MaxToken
    /\ dispatches' = [dispatches EXCEPT ![d] = MarkClaimed(@, lastToken + 1)]
    /\ lastToken' = lastToken + 1
    /\ UNCHANGED epoch

\* Claims one known dispatch, due or not.
ClaimDispatch(d) ==
    LET r == dispatches[d]
    IN  /\ r.status = "Queued"
        /\ IF Stale(d)
           THEN /\ dispatches' = [dispatches EXCEPT ![d] = MarkSuperseded(r, epoch[r.thread])]
                /\ UNCHANGED lastToken
           ELSE /\ Of(r.thread, "Claimed") = {}
                /\ lastToken < MaxToken
                /\ dispatches' = [dispatches EXCEPT ![d] = MarkClaimed(r, lastToken + 1)]
                /\ lastToken' = lastToken + 1
        /\ UNCHANGED epoch

Ack(d, tok)         == Fenced(d, tok, MarkTerminal(dispatches[d], "Acked"))
Nack(d, tok, avail) == Fenced(d, tok, MarkNackResult(dispatches[d], avail))
DeadLetter(d, tok)  == Fenced(d, tok, MarkTerminal(dispatches[d], "DeadLetter"))

RecordDispatchStart(d, tok) ==
    dispatches[d].status = "Claimed" /\ Fenced(d, tok, MarkStarted(dispatches[d]))

RecordRunResult(d, tok, rs) ==
    dispatches[d].status = "Claimed" /\ Fenced(d, tok, MarkResult(dispatches[d], rs))

ExtendLease(d, tok) ==
    dispatches[d].status = "Claimed" /\ Fenced(d, tok, MarkExtended(dispatches[d]))

\* The claim's owner gives it up, whatever the epoch (never moved back).
SupersedeClaimed(d, tok) ==
    LET r == dispatches[d]
        e == epoch[r.thread]
    IN  /\ r.status = "Claimed" /\ r.claim_token = tok
        /\ dispatches' = [dispatches EXCEPT ![d] =
               MarkSuperseded(r, IF r.dispatch_epoch > e THEN r.dispatch_epoch ELSE e)]
        /\ UNCHANGED <<epoch, lastToken>>

\* Mutant: everything that is not running can be cancelled.
CancelUnlessClaimed(d) ==
    /\ dispatches[d].status \notin {"Absent", "Claimed"}
    /\ dispatches' = [dispatches EXCEPT ![d] = MarkTerminal(@, "Cancelled")]
    /\ UNCHANGED <<epoch, lastToken>>

\* Works on queued dispatches only.
Cancel(d) ==
    /\ dispatches[d].status = "Queued"
    /\ dispatches' = [dispatches EXCEPT ![d] = MarkTerminal(@, "Cancelled")]
    /\ UNCHANGED <<epoch, lastToken>>

\* interrupt_detailed: bump the epoch, supersede what is queued; what is claimed
\* stays claimed (its owner is told to cancel the run) and is now stale.
Interrupt(t) ==
    /\ epoch[t] < MaxEpoch
    /\ epoch' = [epoch EXCEPT ![t] = @ + 1]
    /\ dispatches' =
         [d \in DispatchIds |->
            IF d \in Of(t, "Queued") /\ dispatches[d].dispatch_epoch <= epoch[t]
            THEN MarkSuperseded(dispatches[d], dispatches[d].dispatch_epoch)
            ELSE dispatches[d]]
    /\ UNCHANGED lastToken

\* Expired claims go back to the queue, or to Superseded if interrupted meanwhile.
ReclaimExpiredLeases(S) ==
    /\ \A d \in S : dispatches[d].status = "Claimed" /\ dispatches[d].lease = "Expired"
    /\ dispatches' =
         [d \in DispatchIds |->
            IF d \notin S THEN dispatches[d]
            ELSE IF Stale(d)
                 THEN MarkSuperseded(dispatches[d], epoch[dispatches[d].thread])
                 ELSE MarkExpiredLease(dispatches[d])]
    /\ UNCHANGED <<epoch, lastToken>>

\* Mutant: the epoch of a thread with nothing left to run is dropped.
PurgeTerminalDropsEpoch(S) ==
    /\ \A d \in S : dispatches[d].status \in Terminal
    /\ dispatches' = [d \in DispatchIds |->
                        IF d \in S THEN NoDispatch ELSE dispatches[d]]
    /\ epoch' = [t \in Threads |->
                   IF Of(t, "Queued") \cup Of(t, "Claimed") # {} THEN epoch[t] ELSE 0]
    /\ UNCHANGED lastToken

\* Old terminal dispatches go, and the epoch of every thread left without any.
PurgeTerminal(S) ==
    /\ \A d \in S : dispatches[d].status \in Terminal
    /\ dispatches' = [d \in DispatchIds |->
                        IF d \in S THEN NoDispatch ELSE dispatches[d]]
    /\ epoch' = [t \in Threads |->
                   IF \E d \in DispatchIds \ S :
                         dispatches[d].status # "Absent" /\ dispatches[d].thread = t
                   THEN epoch[t] ELSE 0]
    /\ UNCHANGED lastToken

-----------------------------------------------------------------------------
(* Time.                                                                   *)

\* available_at is reached.
Elapse(d) ==
    /\ dispatches[d].status = "Queued" /\ dispatches[d].available = "Later"
    /\ dispatches' = [dispatches EXCEPT ![d].available = "Due"]
    /\ UNCHANGED <<epoch, lastToken>>

\* lease_until is passed.
Expire(d) ==
    /\ dispatches[d].lease = "Live"
    /\ dispatches' = [dispatches EXCEPT ![d].lease = "Expired"]
    /\ UNCHANGED <<epoch, lastToken>>

-----------------------------------------------------------------------------
Init ==
    /\ dispatches = [d \in DispatchIds |-> NoDispatch]
    /\ epoch = [t \in Threads |-> 0]
    /\ lastToken = 0

\* What the callers of enqueue owe the store, which does not check it: the id
\* (a UUID) is new.  Mailbox shows what happens when two callers share one.
EnqueueNew(d, t, p, k, c, avail, n) ==
    dispatches[d].status = "Absent" /\ Enqueue(d, t, p, k, c, avail, n)

\* Calls that name a dispatch, with every argument a caller may pass.
CallOn(d) ==
    \/ \E t \in Threads, p \in Priorities, k \in DedupeKeys \cup {NoKey},
          c \in Stamps, avail \in {"Due", "Later"}, n \in EnqueuedAttempts :
             EnqueueNew(d, t, p, k, c, avail, n)
    \/ ClaimDispatch(d)
    \/ Cancel(d)
    \/ \E tok \in 1..lastToken :
         \/ Ack(d, tok)
         \/ \E avail \in {"Due", "Later"} : Nack(d, tok, avail)
         \/ DeadLetter(d, tok)
         \/ RecordDispatchStart(d, tok)
         \/ \E rs \in {"Waiting", "Done"} : RecordRunResult(d, tok, rs)
         \/ ExtendLease(d, tok)
         \/ SupersedeClaimed(d, tok)

Next ==
    \/ \E d \in DispatchIds : CallOn(d) \/ Elapse(d) \/ Expire(d)
    \/ \E t \in Threads : Interrupt(t) \/ \E S \in SUBSET DispatchIds : Claim(t, S)
    \/ \E S \in SUBSET DispatchIds : ReclaimExpiredLeases(S) \/ PurgeTerminal(S)

Spec == Init /\ [][Next]_vars

-----------------------------------------------------------------------------
(* Properties.                                                             *)

\* Type invariant of the two maps and the token supply.
TypeOK ==
    /\ dispatches \in [DispatchIds -> Dispatch]
    /\ epoch \in [Threads -> Nat]
    /\ lastToken \in Nat

\* "Same thread must not have two Claimed dispatches concurrently": whatever
\* mix of claim, claim_dispatch, nack, lease expiry and interrupt got there,
\* at most one dispatch of a thread is claimed (for callers that claim one at
\* a time, as the mailbox does).
OneClaimPerThread ==
    \A t \in Threads : \A a, b \in Of(t, "Claimed") : a = b

\* The expect calls of mailbox_state.rs do not panic: a record that was enqueued
\* with an attempt left passes validate_for_persist after any sequence of calls.
RecordsStayValid ==
    \A d \in DispatchIds :
        dispatches[d].status # "Absent" /\ ~dispatches[d].spent => ValidForPersist(dispatches[d])

\* "nack dispatch transition must preserve invariants", for every record that
\* validate_for_enqueue admits: one without an attempt left is among them, and
\* the nack or the lost lease of its claim counts one attempt too many.
FailuresPreserveInvariants ==
    \A d \in DispatchIds : dispatches[d].status # "Absent" => ValidForPersist(dispatches[d])

\* A live dispatch has an attempt left, so a retry budget of MaxAttempts is
\* never overrun by mixing nacks with lease expiries.
AttemptsLeft ==
    \A d \in DispatchIds :
        dispatches[d].status \in {"Queued", "Claimed"} /\ ~dispatches[d].spent
        => dispatches[d].attempt_count < MaxAttempts

\* Nothing queued is left over from before an interrupt: interrupt, retries,
\* reclaims and the epoch reset of purge_terminal never leave a queued
\* dispatch behind, or ahead of, the epoch of its thread.
QueuedIsCurrent ==
    \A d \in DispatchIds :
        /\ dispatches[d].status = "Queued" =>
               dispatches[d].dispatch_epoch = epoch[dispatches[d].thread]
        /\ dispatches[d].status # "Absent" =>
               dispatches[d].dispatch_epoch <= epoch[dispatches[d].thread]

\* A dedupe key admits one live dispatch per thread at a time.
DedupeKeyUnique ==
    \A a, b \in DispatchIds :
        /\ {dispatches[a].status, dispatches[b].status} \subseteq {"Queued", "Claimed"}
        /\ dispatches[a].thread = dispatches[b].thread
        /\ dispatches[a].dedupe_key = dispatches[b].dedupe_key
        /\ dispatches[a].dedupe_key # NoKey
        => a = b

\* An interrupt wins over every late call of the claim's owner: once a claimed
\* dispatch is stale, it is never acked, retried, dead-lettered, started or
\* renewed; it can only end as Superseded.
InterruptFencesClaims ==
    [][\A d \in DispatchIds :
         dispatches[d].status = "Claimed" /\ Stale(d) =>
            \/ dispatches'[d] \in {dispatches[d], [dispatches[d] EXCEPT !.lease = "Expired"]}
            \/ dispatches'[d].status = "Superseded"]_vars

\* is_terminal: "terminal states that cannot transition further".  A terminal
\* record is never touched again, only purged.
TerminalIsFinal ==
    [][\A d \in DispatchIds :
         dispatches[d].status \in Terminal =>
            dispatches'[d] \in {dispatches[d], NoDispatch}]_vars

\* "reject stale claims": a token that stops being a dispatch's current token
\* never becomes one again, so its holder is fenced for good.
TokensAreFresh ==
    [][\A d \in DispatchIds :
         \/ dispatches'[d].claim_token \in {0, dispatches[d].claim_token}
         \/ dispatches'[d].claim_token > lastToken]_vars
=============================================================================
