------------------------- MODULE MailboxStoreProofs -------------------------
(***************************************************************************)
(* Theorems about MailboxStore, for every set of threads, dispatches and   *)
(* dedupe keys and every retry budget.                                     *)
(*                                                                         *)
(* The transitions of a record come first: each keeps a record well typed  *)
(* (…Type) and sound (…Sound).  The inductive invariant is then the same   *)
(* two facts about every record of the map.                                *)
(***************************************************************************)
EXTENDS MailboxStore, FiniteSetTheorems, TLAPS

-----------------------------------------------------------------------------
(* Transitions of one record.                                              *)

\* A new record is typed.
LEMMA NewDispatchType ==
    ASSUME NEW t \in Threads, NEW p \in Nat, NEW k \in DedupeKeys \cup {NoKey},
           NEW c \in Nat, NEW avail \in {"Due", "Later"}, NEW e \in Nat,
           NEW n \in 0..MaxAttempts
    PROVE  NewDispatch(t, p, k, c, avail, e, n) \in Dispatch
BY DEF NewDispatch, Dispatch, Status, RunStatus

\* The record that stands for no dispatch is typed.
LEMMA NoDispatchType == NoDispatch \in Dispatch
<1>1. (CHOOSE t \in Threads : TRUE) \in Threads
  BY ConstantsAssumption
<1>2. NewDispatch(CHOOSE t \in Threads : TRUE, 0, NoKey, 0, "Due", 0, 0) \in Dispatch
  BY <1>1, ConstantsAssumption, NewDispatchType
<1> QED
  BY <1>2 DEF NoDispatch, Dispatch, Status

\* The failure transitions keep a record typed.
LEMMA FailureType ==
    ASSUME NEW r \in Dispatch, NEW n \in Nat, NEW rs \in RunStatus,
           NEW avail \in {"Due", "Later"}
    PROVE  Requeue(r, n, avail) \in Dispatch /\ Bury(r, n, rs, avail) \in Dispatch
<1>1. Requeue(r, n, avail) \in Dispatch
  BY DEF Requeue, Dispatch, Status, RunStatus
<1>2. Bury(r, n, rs, avail) \in Dispatch
  BY DEF Bury, Dispatch, Status, Terminal
<1> QED
  BY <1>1, <1>2

\* The other transitions keep a record typed.
LEMMA TransitionType ==
    ASSUME NEW r \in Dispatch, NEW n \in Nat, NEW s \in Status,
           NEW rs \in RunStatus, NEW avail \in {"Due", "Later"}
    PROVE  /\ MarkClaimed(r, n) \in Dispatch
           /\ MarkExtended(r) \in Dispatch
           /\ MarkStarted(r) \in Dispatch
           /\ MarkResult(r, rs) \in Dispatch
           /\ MarkTerminal(r, s) \in Dispatch
           /\ MarkSuperseded(r, n) \in Dispatch
           /\ MarkNackResult(r, avail) \in Dispatch
           /\ MarkExpiredLease(r) \in Dispatch
<1>1. MarkClaimed(r, n) \in Dispatch
  BY DEF MarkClaimed, Dispatch, Status
<1>2. MarkExtended(r) \in Dispatch
  BY DEF MarkExtended, Dispatch
<1>3. MarkStarted(r) \in Dispatch
  BY DEF MarkStarted, Dispatch, RunStatus
<1>4. MarkResult(r, rs) \in Dispatch
  BY DEF MarkResult, Dispatch
<1>5. MarkTerminal(r, s) \in Dispatch
  BY DEF MarkTerminal, Dispatch
<1>6. MarkSuperseded(r, n) \in Dispatch
  BY DEF MarkSuperseded, Dispatch, Status, Terminal, RunStatus
<1>7. /\ r.attempt_count + 1 \in Nat
      /\ r.run_status \in RunStatus /\ r.available \in {"Due", "Later"}
      /\ "None" \in RunStatus
  BY DEF Dispatch, RunStatus
<1>8. MarkNackResult(r, avail) \in Dispatch
  BY <1>7, FailureType DEF MarkNackResult
<1>9. MarkExpiredLease(r) \in Dispatch
  BY <1>7, FailureType DEF MarkExpiredLease
<1> QED
  BY <1>1, <1>2, <1>3, <1>4, <1>5, <1>6, <1>8, <1>9

\* The inductive invariant of one record: its fields fit its status,
\* it is within its retry budget, with an attempt left while it is live, unless it
\* was enqueued without one, and it carries no token when it is absent.
Sound(r) ==
    /\ r.status # "Absent" => FieldsValid(r)
    /\ r.status # "Absent" /\ ~r.spent => r.attempt_count <= MaxAttempts
    /\ r.status \in {"Queued", "Claimed"} /\ ~r.spent => r.attempt_count < MaxAttempts
    /\ r.status = "Absent" => r.claim_token = 0 /\ r.lease = "None"

\* A new record is sound.
LEMMA NewDispatchSound ==
    ASSUME NEW t \in Threads, NEW p \in Nat, NEW k \in DedupeKeys \cup {NoKey},
           NEW c \in Nat, NEW avail \in {"Due", "Later"}, NEW e \in Nat,
           NEW n \in 0..MaxAttempts
    PROVE  Sound(NewDispatch(t, p, k, c, avail, e, n)) /\ Sound(NoDispatch)
<1> DEFINE r == NewDispatch(t, p, k, c, avail, e, n)
<1>1. /\ r.status = "Queued" /\ r.claim_token = 0 /\ r.lease = "None"
      /\ r.run_status = "None" /\ r.attempt_count = n
  BY DEF NewDispatch
<1>2. ~r.completed
  BY DEF NewDispatch
<1>3. r.spent <=> n >= MaxAttempts
  BY DEF NewDispatch
<1>4. Sound(r)
  BY <1>1, <1>2, <1>3, ConstantsAssumption DEF Sound, FieldsValid, Terminal
<1>5. /\ NoDispatch.status = "Absent" /\ NoDispatch.claim_token = 0
      /\ NoDispatch.lease = "None"
  BY DEF NoDispatch, NewDispatch
<1>6. Sound(NoDispatch)
  BY <1>5 DEF Sound
<1> QED
  BY <1>4, <1>6

\* A token that is not None belongs to a claimed dispatch.
LEMMA TokenMeansClaimed ==
    ASSUME NEW r \in Dispatch, Sound(r), r.claim_token # 0 \/ r.lease # "None"
    PROVE  r.status = "Claimed"
BY DEF Sound, FieldsValid, Dispatch, Status

\* What happens to a claimed record leaves it sound.
LEMMA ClaimedSound ==
    ASSUME NEW r \in Dispatch, Sound(r), r.status = "Claimed",
           NEW n \in Nat, NEW rs \in RunStatus, NEW avail \in {"Due", "Later"}
    PROVE  /\ Sound(MarkExtended(r))
           /\ Sound(MarkStarted(r))
           /\ Sound(MarkResult(r, rs))
           /\ \A s \in Terminal : Sound(MarkTerminal(r, s))
           /\ Sound(MarkSuperseded(r, n))
           /\ Sound(MarkNackResult(r, avail))
           /\ Sound(MarkExpiredLease(r))
<1> USE ConstantsAssumption
<1>1. Sound(MarkExtended(r))
  BY DEF MarkExtended, Dispatch, Sound, FieldsValid, Terminal
<1>2. Sound(MarkStarted(r))
  BY DEF MarkStarted, Dispatch, Sound, FieldsValid, Terminal
<1>3. Sound(MarkResult(r, rs))
  BY DEF MarkResult, Dispatch, Sound, FieldsValid, Terminal
<1>4. \A s \in Terminal : Sound(MarkTerminal(r, s))
  BY DEF MarkTerminal, Dispatch, Sound, FieldsValid, Terminal
<1>5. Sound(MarkSuperseded(r, n))
  BY DEF MarkSuperseded, Dispatch, Sound, FieldsValid, Terminal
<1>6. Sound(MarkNackResult(r, avail))
  BY DEF MarkNackResult, Requeue, Bury, Dispatch, Sound, FieldsValid, Terminal
<1>7. Sound(MarkExpiredLease(r))
  BY DEF MarkExpiredLease, Requeue, Bury, Dispatch, Sound, FieldsValid, Terminal
<1> QED
  BY <1>1, <1>2, <1>3, <1>4, <1>5, <1>6, <1>7

\* What happens to a queued record leaves it sound.
LEMMA QueuedSound ==
    ASSUME NEW r \in Dispatch, Sound(r), r.status = "Queued", NEW n \in Nat
    PROVE  /\ n # 0 => Sound(MarkClaimed(r, n))
           /\ \A s \in Terminal : Sound(MarkTerminal(r, s))
           /\ Sound(MarkSuperseded(r, n))
<1>1. n # 0 => Sound(MarkClaimed(r, n))
  BY DEF MarkClaimed, Dispatch, Sound, FieldsValid, Terminal
<1>2. \A s \in Terminal : Sound(MarkTerminal(r, s))
  BY DEF MarkTerminal, Dispatch, Sound, FieldsValid, Terminal
<1>3. Sound(MarkSuperseded(r, n))
  BY DEF MarkSuperseded, Dispatch, Sound, FieldsValid, Terminal
<1> QED
  BY <1>1, <1>2, <1>3

-----------------------------------------------------------------------------
(* The inductive invariant: every record of the map is well typed and sound. *)

AllSound == \A d \in DispatchIds : Sound(dispatches[d])
RecordInv == TypeOK /\ AllSound

\* The empty store is sound.
LEMMA InitRecordInv == Init => RecordInv
<1> SUFFICES ASSUME Init PROVE RecordInv
  OBVIOUS
<1>1. NoDispatch \in Dispatch
  BY NoDispatchType
<1>2. Sound(NoDispatch)
  BY ConstantsAssumption DEF Sound, NoDispatch, NewDispatch
<1> QED
  BY <1>1, <1>2 DEF Init, RecordInv, TypeOK, AllSound

\* One record is replaced by a well typed and sound one.
LEMMA UpdateOne ==
    ASSUME RecordInv, NEW d \in DispatchIds, NEW r \in Dispatch, Sound(r),
           dispatches' = [dispatches EXCEPT ![d] = r], UNCHANGED epoch, lastToken' \in Nat
    PROVE  RecordInv'
BY DEF RecordInv, TypeOK, AllSound

\* A call under a claim token keeps the records sound, fenced or not.
LEMMA FencedRecordInv ==
    ASSUME RecordInv, NEW d \in DispatchIds, NEW tok \in 1..lastToken, NEW next,
           Fenced(d, tok, next),
           dispatches[d].status = "Claimed" => next \in Dispatch /\ Sound(next)
    PROVE  RecordInv'
<1>1. /\ dispatches[d] \in Dispatch /\ Sound(dispatches[d])
      /\ epoch[dispatches[d].thread] \in Nat /\ lastToken \in Nat
  BY DEF RecordInv, TypeOK, AllSound, Dispatch
<1>2. dispatches[d].status = "Claimed"
  BY <1>1, TokenMeansClaimed DEF Fenced
<1>3. LET r == MarkSuperseded(dispatches[d], epoch[dispatches[d].thread])
      IN  r \in Dispatch /\ Sound(r)
  BY <1>1, <1>2, ClaimedSound, TransitionType DEF RunStatus, Status
<1> DEFINE new == IF Stale(d) THEN MarkSuperseded(dispatches[d], epoch[dispatches[d].thread])
                              ELSE next
<1>4. new \in Dispatch /\ Sound(new)
  BY <1>2, <1>3
<1>5. dispatches' = [dispatches EXCEPT ![d] = new] /\ UNCHANGED <<epoch, lastToken>>
  BY DEF Fenced
<1> HIDE DEF new
<1> QED
  BY <1>1, <1>4, <1>5, UpdateOne

\* Every call that names a dispatch keeps the records sound.
LEMMA CallOnRecordInv ==
    ASSUME RecordInv, NEW d \in DispatchIds, CallOn(d)
    PROVE  RecordInv'
<1>0. /\ dispatches[d] \in Dispatch /\ Sound(dispatches[d])
      /\ epoch[dispatches[d].thread] \in Nat /\ lastToken \in Nat
  BY DEF RecordInv, TypeOK, AllSound, Dispatch
<1>1. ASSUME NEW t \in Threads, NEW p \in Priorities, NEW k \in DedupeKeys \cup {NoKey},
             NEW c \in Stamps, NEW avail \in {"Due", "Later"}, NEW n \in EnqueuedAttempts,
             EnqueueNew(d, t, p, k, c, avail, n)
      PROVE  RecordInv'
  <2>1. p \in Nat /\ c \in Nat /\ epoch[t] \in Nat /\ n \in 0..MaxAttempts
    BY ConstantsAssumption DEF RecordInv, TypeOK
  <2>2. LET r == NewDispatch(t, p, k, c, avail, epoch[t], n) IN r \in Dispatch /\ Sound(r)
    BY <2>1, NewDispatchType, NewDispatchSound
  <2> QED
    BY <1>0, <1>1, <2>2, UpdateOne DEF Enqueue, EnqueueNew
<1>2. ASSUME ClaimDispatch(d) PROVE RecordInv'
  <2>1. dispatches[d].status = "Queued"
    BY <1>2 DEF ClaimDispatch
  <2>2. LET r == MarkSuperseded(dispatches[d], epoch[dispatches[d].thread])
        IN  r \in Dispatch /\ Sound(r)
    BY <1>0, <2>1, QueuedSound, TransitionType DEF RunStatus, Status
  <2>3. LET r == MarkClaimed(dispatches[d], lastToken + 1) IN r \in Dispatch /\ Sound(r)
    BY <1>0, <2>1, QueuedSound, TransitionType DEF RunStatus, Status
  <2>4. CASE Stale(d)
    BY <1>0, <1>2, <2>2, <2>4, UpdateOne DEF ClaimDispatch
  <2>5. CASE ~Stale(d)
    BY <1>0, <1>2, <2>3, <2>5, UpdateOne DEF ClaimDispatch
  <2> QED
    BY <2>4, <2>5
<1>3. ASSUME Cancel(d) PROVE RecordInv'
  <2>1. LET r == MarkTerminal(dispatches[d], "Cancelled") IN r \in Dispatch /\ Sound(r)
    BY <1>0, <1>3, QueuedSound, TransitionType DEF Cancel, RunStatus, Status, Terminal
  <2> QED
    BY <1>0, <1>3, <2>1, UpdateOne DEF Cancel
<1>4. ASSUME NEW tok \in 1..lastToken, NEW rs \in {"Waiting", "Done"},
             NEW avail \in {"Due", "Later"}
      PROVE  /\ Ack(d, tok) \/ Nack(d, tok, avail) \/ DeadLetter(d, tok) => RecordInv'
             /\ RecordDispatchStart(d, tok) \/ RecordRunResult(d, tok, rs) => RecordInv'
             /\ ExtendLease(d, tok) \/ SupersedeClaimed(d, tok) => RecordInv'
  <2> DEFINE r == dispatches[d]
  <2>1. rs \in RunStatus /\ {"Acked", "DeadLetter"} \subseteq Status \cap Terminal
    BY DEF RunStatus, Status, Terminal
  <2>2. /\ MarkTerminal(r, "Acked") \in Dispatch /\ MarkTerminal(r, "DeadLetter") \in Dispatch
        /\ MarkNackResult(r, avail) \in Dispatch /\ MarkStarted(r) \in Dispatch
        /\ MarkResult(r, rs) \in Dispatch /\ MarkExtended(r) \in Dispatch
        /\ \A n \in Nat : MarkSuperseded(r, n) \in Dispatch
    BY <1>0, <2>1, TransitionType
  <2>3. r.status = "Claimed" =>
          /\ Sound(MarkTerminal(r, "Acked")) /\ Sound(MarkTerminal(r, "DeadLetter"))
          /\ Sound(MarkNackResult(r, avail)) /\ Sound(MarkStarted(r))
          /\ Sound(MarkResult(r, rs)) /\ Sound(MarkExtended(r))
          /\ \A n \in Nat : Sound(MarkSuperseded(r, n))
    BY <1>0, <2>1, ClaimedSound
  <2>4. Ack(d, tok) => RecordInv'
    BY <2>2, <2>3, FencedRecordInv DEF Ack
  <2>5. Nack(d, tok, avail) => RecordInv'
    BY <2>2, <2>3, FencedRecordInv DEF Nack
  <2>6. DeadLetter(d, tok) => RecordInv'
    BY <2>2, <2>3, FencedRecordInv DEF DeadLetter
  <2>7. RecordDispatchStart(d, tok) => RecordInv'
    BY <2>2, <2>3, FencedRecordInv DEF RecordDispatchStart
  <2>8. RecordRunResult(d, tok, rs) => RecordInv'
    BY <2>2, <2>3, FencedRecordInv DEF RecordRunResult
  <2>9. ExtendLease(d, tok) => RecordInv'
    BY <2>2, <2>3, FencedRecordInv DEF ExtendLease
  <2>10. SupersedeClaimed(d, tok) => RecordInv'
    <3> SUFFICES ASSUME SupersedeClaimed(d, tok) PROVE RecordInv'
      OBVIOUS
    <3> DEFINE n == IF r.dispatch_epoch > epoch[r.thread] THEN r.dispatch_epoch
                                                          ELSE epoch[r.thread]
    <3>1. n \in Nat
      BY <1>0 DEF Dispatch
    <3>2. r.status = "Claimed" /\ dispatches' = [dispatches EXCEPT ![d] = MarkSuperseded(r, n)]
          /\ UNCHANGED <<epoch, lastToken>>
      BY DEF SupersedeClaimed
    <3> HIDE DEF n
    <3> QED
      BY <1>0, <2>2, <2>3, <3>1, <3>2, UpdateOne
  <2> QED
    BY <2>4, <2>5, <2>6, <2>7, <2>8, <2>9, <2>10
<1> QED
  BY <1>1, <1>2, <1>3, <1>4 DEF CallOn

\* The passing of time keeps the records sound.
LEMMA TimeRecordInv ==
    ASSUME RecordInv, NEW d \in DispatchIds, Elapse(d) \/ Expire(d)
    PROVE  RecordInv'
<1>0. dispatches[d] \in Dispatch /\ Sound(dispatches[d]) /\ lastToken \in Nat
  BY DEF RecordInv, TypeOK, AllSound
<1>1. CASE Elapse(d)
  <2>1. LET r == [dispatches[d] EXCEPT !.available = "Due"] IN r \in Dispatch /\ Sound(r)
    BY <1>0 DEF Dispatch, Sound, FieldsValid
  <2> QED
    BY <1>0, <1>1, <2>1, UpdateOne DEF Elapse
<1>2. CASE Expire(d)
  <2>1. dispatches[d].status = "Claimed"
    BY <1>0, <1>2, TokenMeansClaimed DEF Expire
  <2>2. LET r == [dispatches[d] EXCEPT !.lease = "Expired"] IN r \in Dispatch /\ Sound(r)
    BY <1>0, <2>1 DEF Dispatch, Sound, FieldsValid, Terminal
  <2> QED
    BY <1>0, <1>2, <2>2, UpdateOne DEF Expire
<1> QED
  BY <1>1, <1>2

\* The operations that walk the whole map replace each record by a sound one.
LEMMA WalkRecordInv ==
    ASSUME RecordInv, NEW t \in Threads, NEW S \in SUBSET DispatchIds,
           Claim(t, S) \/ Interrupt(t) \/ ReclaimExpiredLeases(S) \/ PurgeTerminal(S)
    PROVE  RecordInv'
<1>0. /\ \A d \in DispatchIds : dispatches[d] \in Dispatch /\ Sound(dispatches[d])
      /\ epoch \in [Threads -> Nat] /\ lastToken \in Nat
  BY DEF RecordInv, TypeOK, AllSound
<1>1. /\ \A d \in DispatchIds, n \in Nat : MarkSuperseded(dispatches[d], n) \in Dispatch
      /\ \A d \in DispatchIds : MarkExpiredLease(dispatches[d]) \in Dispatch
      /\ \A d \in DispatchIds : MarkClaimed(dispatches[d], lastToken + 1) \in Dispatch
  BY <1>0, TransitionType DEF RunStatus, Status
<1>2. /\ \A d \in DispatchIds, n \in Nat :
            dispatches[d].status \in {"Queued", "Claimed"} => Sound(MarkSuperseded(dispatches[d], n))
      /\ \A d \in DispatchIds :
            dispatches[d].status = "Claimed" => Sound(MarkExpiredLease(dispatches[d]))
      /\ \A d \in DispatchIds :
            dispatches[d].status = "Queued" => Sound(MarkClaimed(dispatches[d], lastToken + 1))
  BY <1>0, ClaimedSound, QueuedSound DEF RunStatus
<1>3. CASE Claim(t, S)
  <2>1. \A d \in S : dispatches[d].status = "Queued"
    BY <1>3 DEF Claim, Batches, Eligible, Of
  <2>2. \A d \in DispatchIds : dispatches'[d] \in Dispatch /\ Sound(dispatches'[d])
    BY <1>0, <1>1, <1>2, <1>3, <2>1 DEF Claim, Of
  <2>3. dispatches' \in [DispatchIds -> Dispatch] /\ lastToken' \in Nat /\ epoch' = epoch
    BY <1>0, <1>3, <2>2 DEF Claim
  <2> QED
    BY <1>0, <2>2, <2>3 DEF RecordInv, TypeOK, AllSound
<1>4. CASE Interrupt(t)
  <2>1. \A d \in DispatchIds : dispatches[d].dispatch_epoch \in Nat
    BY <1>0 DEF Dispatch
  <2>2. \A d \in DispatchIds : dispatches'[d] \in Dispatch /\ Sound(dispatches'[d])
    BY <1>0, <1>1, <1>2, <1>4, <2>1 DEF Interrupt, Of
  <2>3. dispatches' \in [DispatchIds -> Dispatch] /\ lastToken' \in Nat
        /\ epoch' \in [Threads -> Nat]
    BY <1>0, <1>4, <2>2 DEF Interrupt
  <2> QED
    BY <2>2, <2>3 DEF RecordInv, TypeOK, AllSound
<1>5. CASE ReclaimExpiredLeases(S)
  <2>1. \A d \in DispatchIds : epoch[dispatches[d].thread] \in Nat
    BY <1>0 DEF Dispatch
  <2>2. \A d \in DispatchIds : dispatches'[d] \in Dispatch /\ Sound(dispatches'[d])
    BY <1>0, <1>1, <1>2, <1>5, <2>1 DEF ReclaimExpiredLeases
  <2>3. dispatches' \in [DispatchIds -> Dispatch] /\ lastToken' = lastToken /\ epoch' = epoch
    BY <1>5, <2>2 DEF ReclaimExpiredLeases
  <2> QED
    BY <1>0, <2>2, <2>3 DEF RecordInv, TypeOK, AllSound
<1>6. CASE PurgeTerminal(S)
  <2>1. NoDispatch \in Dispatch /\ Sound(NoDispatch)
    BY NoDispatchType, ConstantsAssumption DEF Sound, NoDispatch, NewDispatch
  <2>2. \A d \in DispatchIds : dispatches'[d] \in Dispatch /\ Sound(dispatches'[d])
    BY <1>0, <1>6, <2>1 DEF PurgeTerminal
  <2>3. dispatches' \in [DispatchIds -> Dispatch] /\ lastToken' = lastToken
        /\ epoch' \in [Threads -> Nat]
    BY <1>0, <1>6, <2>2 DEF PurgeTerminal
  <2> QED
    BY <1>0, <2>2, <2>3 DEF RecordInv, TypeOK, AllSound
<1> QED
  BY <1>3, <1>4, <1>5, <1>6

\* Every step keeps the records typed and sound.
LEMMA NextRecordInv == RecordInv /\ [Next]_vars => RecordInv'
<1> SUFFICES ASSUME RecordInv, [Next]_vars PROVE RecordInv'
  OBVIOUS
<1>1. CASE UNCHANGED vars
  BY <1>1 DEF vars, RecordInv, TypeOK, AllSound
<1>2. ASSUME NEW S \in SUBSET DispatchIds, ReclaimExpiredLeases(S) \/ PurgeTerminal(S)
      PROVE  RecordInv'
  BY <1>2, WalkRecordInv, ConstantsAssumption
<1>3. ASSUME NEW t \in Threads, Interrupt(t) PROVE RecordInv'
  BY <1>3, WalkRecordInv
<1> QED
  BY <1>1, <1>2, <1>3, CallOnRecordInv, TimeRecordInv, WalkRecordInv DEF Next

\* Whatever the callers do, the maps stay well typed: no sequence of store
\* operations leaves a field outside its range.
THEOREM TypeCorrect == Spec => []TypeOK
<1>1. RecordInv => TypeOK
  BY DEF RecordInv
<1> QED
  BY <1>1, InitRecordInv, NextRecordInv, PTL DEF Spec

\* No expect of mailbox_state.rs can panic, and no mix of nacks and lease
\* expiries overruns the retry budget, for every budget and every caller.
THEOREM RecordsValid == Spec => [](RecordsStayValid /\ AttemptsLeft)
<1>1. RecordInv => RecordsStayValid /\ AttemptsLeft
  BY DEF RecordInv, AllSound, Sound, RecordsStayValid, ValidForPersist, AttemptsLeft
<1> QED
  BY <1>1, InitRecordInv, NextRecordInv, PTL DEF Spec

-----------------------------------------------------------------------------
(* What one step may do to one record.  Everything else follows from this. *)

SameOwner(r, n) == n.thread = r.thread /\ n.dedupe_key = r.dedupe_key

Move(d) ==
    LET r == dispatches[d]
        n == dispatches'[d]
        e == epoch[r.thread]
    IN  \/ n = r
        \/ /\ r.status = "Absent" /\ n.status = "Queued"
           /\ n.dispatch_epoch = epoch[n.thread] /\ n.claim_token = 0
        \/ /\ r.status = "Queued" /\ SameOwner(r, n)
           /\ \/ /\ n.status = "Queued" /\ n.claim_token = 0
                 /\ n.dispatch_epoch = r.dispatch_epoch
              \/ /\ n.status = "Claimed" /\ n.claim_token = lastToken + 1
                 /\ n.dispatch_epoch = r.dispatch_epoch /\ ~Stale(d)
                 /\ lastToken' = lastToken + 1
              \/ /\ n.status \in Terminal /\ n.claim_token = 0
                 /\ n.dispatch_epoch \in {r.dispatch_epoch, e}
        \/ /\ r.status = "Claimed" /\ SameOwner(r, n)
           /\ \/ /\ n.status = "Claimed" /\ n.claim_token = r.claim_token
                 /\ n.dispatch_epoch = r.dispatch_epoch
                 /\ ~Stale(d) \/ n = [r EXCEPT !.lease = "Expired"]
              \/ /\ n.status \in {"Queued", "Acked", "DeadLetter"} /\ n.claim_token = 0
                 /\ n.dispatch_epoch = r.dispatch_epoch /\ ~Stale(d)
              \/ /\ n.status = "Superseded" /\ n.claim_token = 0
                 /\ n.dispatch_epoch \in {r.dispatch_epoch, e}
        \/ r.status \in Terminal /\ n = NoDispatch

\* A call under a claim token moves a record as the state machine allows.
LEMMA FencedMove ==
    ASSUME RecordInv, NEW d \in DispatchIds, NEW tok \in 1..lastToken, NEW next,
           Fenced(d, tok, next),
           \/ /\ next.status = "Claimed" /\ next.claim_token = dispatches[d].claim_token
           \/ next.status \in {"Queued", "Acked", "DeadLetter"} /\ next.claim_token = 0,
           SameOwner(dispatches[d], next), next.dispatch_epoch = dispatches[d].dispatch_epoch
    PROVE  \A x \in DispatchIds : Move(x)
<1>1. dispatches[d] \in Dispatch /\ Sound(dispatches[d]) /\ lastToken \in Nat
  BY DEF RecordInv, TypeOK, AllSound
<1>2. dispatches[d].status = "Claimed"
  BY <1>1, TokenMeansClaimed DEF Fenced
<1>3. \A x \in DispatchIds \ {d} : dispatches'[x] = dispatches[x]
  BY DEF Fenced, RecordInv, TypeOK
<1>4. CASE Stale(d)
  <2>1. dispatches'[d] = MarkSuperseded(dispatches[d], epoch[dispatches[d].thread])
    BY <1>4 DEF Fenced, RecordInv, TypeOK
  <2>2. Move(d)
    BY <1>1, <1>2, <2>1 DEF Move, MarkSuperseded, SameOwner, Dispatch
  <2> QED
    BY <1>3, <2>2 DEF Move
<1>5. CASE ~Stale(d)
  <2>1. dispatches'[d] = next
    BY <1>5 DEF Fenced, RecordInv, TypeOK
  <2>2. Move(d)
    BY <1>2, <1>5, <2>1 DEF Move
  <2> QED
    BY <1>3, <2>2 DEF Move
<1> QED
  BY <1>4, <1>5

\* Every call that names a dispatch moves each record as the state machine allows.
LEMMA CallOnMove ==
    ASSUME RecordInv, NEW d \in DispatchIds, CallOn(d)
    PROVE  \A x \in DispatchIds : Move(x)
<1>0. /\ dispatches[d] \in Dispatch /\ Sound(dispatches[d])
      /\ epoch[dispatches[d].thread] \in Nat /\ lastToken \in Nat
      /\ dispatches \in [DispatchIds -> Dispatch]
  BY DEF RecordInv, TypeOK, AllSound, Dispatch
<1>1. ASSUME NEW t \in Threads, NEW p \in Priorities, NEW k \in DedupeKeys \cup {NoKey},
             NEW c \in Stamps, NEW avail \in {"Due", "Later"}, NEW n \in EnqueuedAttempts,
             EnqueueNew(d, t, p, k, c, avail, n)
      PROVE  \A x \in DispatchIds : Move(x)
  BY <1>0, <1>1 DEF Enqueue, EnqueueNew, NewDispatch, Move
<1>2. ASSUME ClaimDispatch(d) PROVE \A x \in DispatchIds : Move(x)
  <2>1. dispatches[d].status = "Queued"
    BY <1>2 DEF ClaimDispatch
  <2>2. \A x \in DispatchIds \ {d} : dispatches'[x] = dispatches[x]
    BY <1>0, <1>2 DEF ClaimDispatch
  <2>3. CASE Stale(d)
    <3>1. dispatches'[d] = MarkSuperseded(dispatches[d], epoch[dispatches[d].thread])
      BY <1>0, <1>2, <2>3 DEF ClaimDispatch
    <3>2. Move(d)
      BY <1>0, <2>1, <3>1 DEF Move, MarkSuperseded, Dispatch, SameOwner, Terminal
    <3> QED
      BY <2>2, <3>2 DEF Move
  <2>4. CASE ~Stale(d)
    <3>1. /\ dispatches'[d] = MarkClaimed(dispatches[d], lastToken + 1)
          /\ lastToken' = lastToken + 1
      BY <1>0, <1>2, <2>4 DEF ClaimDispatch
    <3>2. Move(d)
      BY <1>0, <2>1, <2>4, <3>1 DEF Move, MarkClaimed, Dispatch, SameOwner
    <3> QED
      BY <2>2, <3>2 DEF Move
  <2> QED
    BY <2>3, <2>4
<1>3. ASSUME Cancel(d) PROVE \A x \in DispatchIds : Move(x)
  BY <1>0, <1>3 DEF Cancel, Move, MarkTerminal, Dispatch, SameOwner, Terminal
<1>4. ASSUME NEW tok \in 1..lastToken, Ack(d, tok) \/ DeadLetter(d, tok)
      PROVE  \A x \in DispatchIds : Move(x)
  <2>1. \A s \in {"Acked", "DeadLetter"} :
          LET n == MarkTerminal(dispatches[d], s)
          IN  /\ n.status = s /\ n.claim_token = 0 /\ SameOwner(dispatches[d], n)
              /\ n.dispatch_epoch = dispatches[d].dispatch_epoch
    BY <1>0 DEF MarkTerminal, Dispatch, SameOwner
  <2> QED
    BY <1>4, <2>1, FencedMove DEF Ack, DeadLetter
<1>5. ASSUME NEW tok \in 1..lastToken, NEW avail \in {"Due", "Later"}, Nack(d, tok, avail)
      PROVE  \A x \in DispatchIds : Move(x)
  <2>1. LET n == MarkNackResult(dispatches[d], avail)
        IN  /\ n.status \in {"Queued", "DeadLetter"} /\ n.claim_token = 0
            /\ SameOwner(dispatches[d], n)
            /\ n.dispatch_epoch = dispatches[d].dispatch_epoch
    BY <1>0 DEF MarkNackResult, Requeue, Bury, Dispatch, SameOwner
  <2> QED
    BY <1>5, <2>1, FencedMove DEF Nack
<1>6. ASSUME NEW tok \in 1..lastToken, NEW rs \in {"Waiting", "Done"},
             RecordDispatchStart(d, tok) \/ RecordRunResult(d, tok, rs) \/ ExtendLease(d, tok)
      PROVE  \A x \in DispatchIds : Move(x)
  <2>1. dispatches[d].status = "Claimed"
    BY <1>6 DEF RecordDispatchStart, RecordRunResult, ExtendLease
  <2>2. \A n \in {MarkStarted(dispatches[d]), MarkResult(dispatches[d], rs),
                   MarkExtended(dispatches[d])} :
              /\ n.status = "Claimed" /\ n.claim_token = dispatches[d].claim_token
              /\ SameOwner(dispatches[d], n)
              /\ n.dispatch_epoch = dispatches[d].dispatch_epoch
    BY <1>0, <2>1 DEF MarkStarted, MarkResult, MarkExtended, Dispatch, SameOwner
  <2> QED
    BY <1>6, <2>2, FencedMove DEF RecordDispatchStart, RecordRunResult, ExtendLease
<1>7. ASSUME NEW tok \in 1..lastToken, SupersedeClaimed(d, tok)
      PROVE  \A x \in DispatchIds : Move(x)
  BY <1>0, <1>7 DEF SupersedeClaimed, Move, MarkSuperseded, Dispatch, SameOwner
<1> QED
  BY <1>1, <1>2, <1>3, <1>4, <1>5, <1>6, <1>7 DEF CallOn

\* Claims, interrupts, the sweep and purges move each record as the state machine allows.
LEMMA WalkMove ==
    ASSUME RecordInv, NEW t \in Threads, NEW S \in SUBSET DispatchIds,
           Claim(t, S) \/ Interrupt(t) \/ ReclaimExpiredLeases(S) \/ PurgeTerminal(S)
    PROVE  \A x \in DispatchIds : Move(x)
<1> SUFFICES ASSUME NEW x \in DispatchIds PROVE Move(x)
  OBVIOUS
<1>0. dispatches[x] \in Dispatch /\ epoch \in [Threads -> Nat] /\ lastToken \in Nat
  BY DEF RecordInv, TypeOK
<1> DEFINE r == dispatches[x]
<1>1. CASE Claim(t, S)
  <2>1. x \in S => r.status = "Queued" /\ ~Stale(x)
    BY <1>1 DEF Claim, Batches, Eligible, Of
  <2>2. \/ /\ x \in S /\ dispatches'[x] = MarkClaimed(r, lastToken + 1)
           /\ lastToken' = lastToken + 1
        \/ /\ r.status = "Queued" /\ r.thread = t
           /\ dispatches'[x] = MarkSuperseded(r, epoch[t])
        \/ dispatches'[x] = r
    BY <1>1 DEF Claim, Of
  <2>3. LET n == MarkClaimed(r, lastToken + 1)
        IN  /\ n.status = "Claimed" /\ n.claim_token = lastToken + 1
            /\ SameOwner(r, n) /\ n.dispatch_epoch = r.dispatch_epoch
    BY <1>0 DEF MarkClaimed, Dispatch, SameOwner
  <2>4. LET n == MarkSuperseded(r, epoch[t])
        IN  /\ n.status \in Terminal /\ n.claim_token = 0
            /\ SameOwner(r, n) /\ n.dispatch_epoch = epoch[t]
    BY <1>0 DEF MarkSuperseded, Dispatch, SameOwner, Terminal
  <2> QED
    BY <2>1, <2>2, <2>3, <2>4 DEF Move
<1>2. CASE Interrupt(t)
  <2>1. \/ /\ r.status = "Queued" /\ r.thread = t
           /\ dispatches'[x] = MarkSuperseded(r, r.dispatch_epoch)
        \/ dispatches'[x] = r
    BY <1>2 DEF Interrupt, Of
  <2> QED
    BY <1>0, <2>1 DEF Move, MarkSuperseded, Dispatch, SameOwner, Terminal
<1>3. CASE ReclaimExpiredLeases(S)
  <2>1. \/ dispatches'[x] = r
        \/ r.status = "Claimed" /\ dispatches'[x] = MarkSuperseded(r, epoch[r.thread])
        \/ r.status = "Claimed" /\ ~Stale(x) /\ dispatches'[x] = MarkExpiredLease(r)
    BY <1>3 DEF ReclaimExpiredLeases
  <2>2. LET n == MarkExpiredLease(r)
        IN  /\ n.status \in {"Queued", "DeadLetter"} /\ n.claim_token = 0
            /\ SameOwner(r, n) /\ n.dispatch_epoch = r.dispatch_epoch
    BY <1>0 DEF MarkExpiredLease, Requeue, Bury, Dispatch, SameOwner
  <2>3. LET n == MarkSuperseded(r, epoch[r.thread])
        IN  /\ n.status = "Superseded" /\ n.claim_token = 0
            /\ SameOwner(r, n) /\ n.dispatch_epoch = epoch[r.thread]
    BY <1>0 DEF MarkSuperseded, Dispatch, SameOwner
  <2> QED
    BY <2>1, <2>2, <2>3 DEF Move
<1>4. CASE PurgeTerminal(S)
  BY <1>4 DEF PurgeTerminal, Move
<1> QED
  BY <1>1, <1>2, <1>3, <1>4

\* Time moves no record to another status.
LEMMA TimeMove ==
    ASSUME RecordInv, NEW d \in DispatchIds, Elapse(d) \/ Expire(d)
    PROVE  \A x \in DispatchIds : Move(x)
<1>0. /\ dispatches[d] \in Dispatch /\ Sound(dispatches[d])
      /\ dispatches \in [DispatchIds -> Dispatch]
  BY DEF RecordInv, TypeOK, AllSound
<1>1. CASE Elapse(d)
  BY <1>0, <1>1 DEF Elapse, Move, Dispatch, SameOwner, Sound, FieldsValid
<1>2. CASE Expire(d)
  <2>1. dispatches[d].status = "Claimed"
    BY <1>0, <1>2, TokenMeansClaimed DEF Expire
  <2> QED
    BY <1>0, <1>2, <2>1 DEF Expire, Move, Dispatch, SameOwner
<1> QED
  BY <1>1, <1>2

\* Every step moves every record as the state machine allows.
LEMMA NextMove == RecordInv /\ [Next]_vars => \A x \in DispatchIds : Move(x)
<1> SUFFICES ASSUME RecordInv, [Next]_vars PROVE \A x \in DispatchIds : Move(x)
  OBVIOUS
<1>1. CASE UNCHANGED vars
  BY <1>1 DEF vars, Move
<1>2. ASSUME NEW S \in SUBSET DispatchIds, ReclaimExpiredLeases(S) \/ PurgeTerminal(S)
      PROVE  \A x \in DispatchIds : Move(x)
  BY <1>2, WalkMove, ConstantsAssumption
<1>3. ASSUME NEW t \in Threads, Interrupt(t) PROVE \A x \in DispatchIds : Move(x)
  BY <1>3, WalkMove
<1> QED
  BY <1>1, <1>2, <1>3, CallOnMove, TimeMove, WalkMove DEF Next

\* A terminal record is final: no late ack, nack, renewal, reclaim or
\* interrupt touches it again before it is purged.
THEOREM TerminalFinal == Spec => TerminalIsFinal
<1>1. RecordInv /\ [Next]_vars => [\A d \in DispatchIds :
         dispatches[d].status \in Terminal =>
            dispatches'[d] \in {dispatches[d], NoDispatch}]_vars
  BY NextMove DEF Move, Terminal
<1> QED
  BY <1>1, InitRecordInv, NextRecordInv, PTL DEF Spec, TerminalIsFinal

\* An interrupt fences the claim it overtakes: every later call of its owner
\* ends it as Superseded or leaves it alone.
THEOREM InterruptFences == Spec => InterruptFencesClaims
<1>1. RecordInv /\ [Next]_vars => [\A d \in DispatchIds :
         dispatches[d].status = "Claimed" /\ Stale(d) =>
            \/ dispatches'[d] \in {dispatches[d], [dispatches[d] EXCEPT !.lease = "Expired"]}
            \/ dispatches'[d].status = "Superseded"]_vars
  BY NextMove DEF Move, Terminal
<1> QED
  BY <1>1, InitRecordInv, NextRecordInv, PTL DEF Spec, InterruptFencesClaims

\* A claim token that a dispatch has lost never becomes current again.
THEOREM FencedForGood == Spec => TokensAreFresh
<1>1. RecordInv /\ [Next]_vars => [\A d \in DispatchIds :
         \/ dispatches'[d].claim_token \in {0, dispatches[d].claim_token}
         \/ dispatches'[d].claim_token > lastToken]_vars
  <2> SUFFICES ASSUME RecordInv, [Next]_vars, NEW d \in DispatchIds
               PROVE  \/ dispatches'[d].claim_token \in {0, dispatches[d].claim_token}
                      \/ dispatches'[d].claim_token > lastToken
    OBVIOUS
  <2>1. Move(d) /\ lastToken \in Nat
    BY NextMove DEF RecordInv, TypeOK
  <2>2. NoDispatch.claim_token = 0
    BY DEF NoDispatch, NewDispatch
  <2>3. [dispatches[d] EXCEPT !.lease = "Expired"].claim_token = dispatches[d].claim_token
    BY DEF RecordInv, TypeOK, Dispatch
  <2> QED
    BY <2>1, <2>2, <2>3 DEF Move
<1> QED
  BY <1>1, InitRecordInv, NextRecordInv, PTL DEF Spec, TokensAreFresh

-----------------------------------------------------------------------------
(* One claim per thread.                                                   *)

\* Only claim and claim_dispatch make a dispatch claimed, and both look for
\* another claimed dispatch of the thread first.
OnlyClaims ==
    \/ \A d \in DispatchIds : dispatches'[d].status = "Claimed" =>
          dispatches[d].status = "Claimed" /\ dispatches'[d].thread = dispatches[d].thread
    \/ \E d \in DispatchIds :
          /\ Of(dispatches[d].thread, "Claimed") = {}
          /\ \A x \in DispatchIds \ {d} : dispatches'[x].status = "Claimed" =>
                dispatches[x].status = "Claimed" /\ dispatches'[x].thread = dispatches[x].thread
          /\ dispatches'[d].thread = dispatches[d].thread

\* For callers that claim one at a time, a step claims one dispatch of a free thread at most.
LEMMA NextOnlyClaims ==
    ASSUME RecordInv, [Next]_vars, ClaimLimit = 1
    PROVE  OnlyClaims
<1> DEFINE Kept(x) == dispatches'[x].status = "Claimed" =>
             dispatches[x].status = "Claimed" /\ dispatches'[x].thread = dispatches[x].thread
<1>0. /\ dispatches \in [DispatchIds -> Dispatch]
      /\ \A x \in DispatchIds : Move(x)
  BY NextMove DEF RecordInv, TypeOK
<1>1. \A x \in DispatchIds : dispatches[x].status # "Queued" => Kept(x)
  <2> SUFFICES ASSUME NEW x \in DispatchIds, dispatches[x].status # "Queued"
               PROVE  Kept(x)
    OBVIOUS
  <2>1. NoDispatch.status = "Absent"
    BY DEF NoDispatch, NewDispatch
  <2> QED
    BY <1>0, <2>1 DEF Move, SameOwner, Terminal
<1>2. ASSUME NEW d \in DispatchIds, ClaimDispatch(d) PROVE OnlyClaims
  <2>1. \A x \in DispatchIds \ {d} : dispatches'[x] = dispatches[x]
    BY <1>0, <1>2 DEF ClaimDispatch
  <2>2. CASE Stale(d)
    <3>1. dispatches'[d].status = "Superseded"
      BY <1>0, <1>2, <2>2 DEF ClaimDispatch, MarkSuperseded, Dispatch
    <3> QED
      BY <2>1, <3>1 DEF OnlyClaims
  <2>3. CASE ~Stale(d)
    <3>1. Of(dispatches[d].thread, "Claimed") = {}
      BY <1>2, <2>3 DEF ClaimDispatch
    <3>2. dispatches'[d].thread = dispatches[d].thread
      BY <1>0, <1>2, <2>3 DEF ClaimDispatch, MarkClaimed, Dispatch
    <3> QED
      BY <2>1, <3>1, <3>2 DEF OnlyClaims
  <2> QED
    BY <2>2, <2>3
<1>3. ASSUME NEW t \in Threads, NEW S \in SUBSET DispatchIds, Claim(t, S) PROVE OnlyClaims
  <2>1. \A x \in DispatchIds \ S : Kept(x)
    <3> SUFFICES ASSUME NEW x \in DispatchIds \ S PROVE Kept(x)
      OBVIOUS
    <3>1. \/ dispatches'[x] = dispatches[x]
          \/ dispatches'[x] = MarkSuperseded(dispatches[x], epoch[t])
      BY <1>3 DEF Claim
    <3> QED
      BY <1>0, <3>1 DEF MarkSuperseded, Dispatch
  <2>2. CASE S = {}
    BY <2>1, <2>2 DEF OnlyClaims
  <2>3. CASE S # {}
    <3>1. Of(t, "Claimed") = {} /\ S \in Batches(t)
      BY <1>3, <2>3 DEF Claim
    <3>2. Cardinality(S) <= 1 /\ IsFiniteSet(S)
      BY <3>1, ConstantsAssumption, FS_Subset DEF Batches
    <3>3. Cardinality(S) = 1
      BY <2>3, <3>2, FS_EmptySet, FS_CardinalityType
    <3>4. PICK d \in S : S = {d}
      BY <3>2, <3>3, FS_Singleton
    <3>5. d \in DispatchIds /\ dispatches[d].thread = t
      BY <3>1 DEF Batches, Eligible, Of
    <3>6. dispatches'[d] = MarkClaimed(dispatches[d], lastToken + 1)
      BY <1>3, <3>5 DEF Claim
    <3>7. dispatches'[d].thread = t
      BY <1>0, <3>5, <3>6 DEF MarkClaimed, Dispatch
    <3> QED
      BY <2>1, <3>1, <3>4, <3>5, <3>7 DEF OnlyClaims
  <2> QED
    BY <2>2, <2>3
<1>4. CASE UNCHANGED lastToken
  <2>1. \A x \in DispatchIds : Kept(x)
    <3> SUFFICES ASSUME NEW x \in DispatchIds, dispatches[x].status = "Queued" PROVE Kept(x)
      BY <1>1
    <3>1. lastToken' # lastToken + 1
      BY <1>4 DEF RecordInv, TypeOK
    <3> QED
      BY <1>0, <3>1 DEF Move, Terminal
  <2> QED
    BY <2>1 DEF OnlyClaims
<1>5. ASSUME NEW d \in DispatchIds, CallOn(d), ~ClaimDispatch(d) PROVE UNCHANGED lastToken
  BY <1>5 DEF CallOn, Enqueue, EnqueueNew, Cancel, Ack, Nack, DeadLetter, RecordDispatchStart,
              RecordRunResult, ExtendLease, SupersedeClaimed, Fenced
<1>6. ASSUME NEW d \in DispatchIds, Elapse(d) \/ Expire(d) PROVE UNCHANGED lastToken
  BY <1>6 DEF Elapse, Expire
<1>7. ASSUME NEW t \in Threads, Interrupt(t) PROVE UNCHANGED lastToken
  BY <1>7 DEF Interrupt
<1>8. ASSUME NEW S \in SUBSET DispatchIds, ReclaimExpiredLeases(S) \/ PurgeTerminal(S)
      PROVE  UNCHANGED lastToken
  BY <1>8 DEF ReclaimExpiredLeases, PurgeTerminal
<1>9. CASE UNCHANGED vars
  BY <1>4, <1>9 DEF vars
<1> QED
  BY <1>2, <1>3, <1>4, <1>5, <1>6, <1>7, <1>8, <1>9 DEF Next

\* For callers that claim one dispatch at a time, as the mailbox does, no two
\* dispatches of a thread are ever claimed together: the runs of a thread are
\* handed out one by one, for any number of threads, dispatches and callers.
THEOREM OneClaim ==
    ASSUME ClaimLimit = 1
    PROVE  Spec => []OneClaimPerThread
<1>1. Init => OneClaimPerThread
  <2>1. NoDispatch.status = "Absent"
    BY DEF NoDispatch, NewDispatch
  <2> QED
    BY <2>1 DEF Init, OneClaimPerThread, Of
<1>2. RecordInv /\ OneClaimPerThread /\ [Next]_vars => OneClaimPerThread'
  <2> SUFFICES ASSUME RecordInv, OneClaimPerThread, [Next]_vars,
                      NEW t \in Threads, NEW a \in Of(t, "Claimed")', NEW b \in Of(t, "Claimed")'
               PROVE  a = b
    BY DEF OneClaimPerThread
  <2>1. OnlyClaims
    BY NextOnlyClaims
  <2>2. /\ a \in DispatchIds /\ dispatches'[a].status = "Claimed" /\ dispatches'[a].thread = t
        /\ b \in DispatchIds /\ dispatches'[b].status = "Claimed" /\ dispatches'[b].thread = t
    BY DEF Of
  <2> QED
    BY <2>1, <2>2 DEF OnlyClaims, OneClaimPerThread, Of
<1> QED
  BY <1>1, <1>2, InitRecordInv, NextRecordInv, PTL DEF Spec

-----------------------------------------------------------------------------
(* Epochs and dedupe keys.                                                 *)

\* Only interrupt and purge_terminal touch the epochs.
LEMMA EpochChanges ==
    ASSUME [Next]_vars
    PROVE  \/ epoch' = epoch
           \/ \E t \in Threads : Interrupt(t)
           \/ \E S \in SUBSET DispatchIds : PurgeTerminal(S)
<1>1. ASSUME NEW d \in DispatchIds, CallOn(d) PROVE epoch' = epoch
  BY <1>1 DEF CallOn, Enqueue, EnqueueNew, ClaimDispatch, Cancel, Ack, Nack, DeadLetter,
              RecordDispatchStart, RecordRunResult, ExtendLease, SupersedeClaimed, Fenced
<1>2. ASSUME NEW d \in DispatchIds, Elapse(d) \/ Expire(d) PROVE epoch' = epoch
  BY <1>2 DEF Elapse, Expire
<1>3. ASSUME NEW t \in Threads, NEW S \in SUBSET DispatchIds, Claim(t, S) PROVE epoch' = epoch
  BY <1>3 DEF Claim
<1>4. ASSUME NEW S \in SUBSET DispatchIds, ReclaimExpiredLeases(S) PROVE epoch' = epoch
  BY <1>4 DEF ReclaimExpiredLeases
<1> QED
  BY <1>1, <1>2, <1>3, <1>4 DEF Next, vars

\* No interrupt, retry, reclaim or purge leaves a queued dispatch of an older
\* epoch behind, and no record is ever ahead of its thread: the epoch reset of
\* purge_terminal is safe.
THEOREM QueuedCurrent == Spec => []QueuedIsCurrent
<1>0. NoDispatch.status = "Absent"
  BY DEF NoDispatch, NewDispatch
<1>1. Init => QueuedIsCurrent
  BY <1>0 DEF Init, QueuedIsCurrent
<1>2. RecordInv /\ QueuedIsCurrent /\ [Next]_vars => QueuedIsCurrent'
  <2> SUFFICES ASSUME RecordInv, QueuedIsCurrent, [Next]_vars, NEW d \in DispatchIds
               PROVE  /\ dispatches'[d].status = "Queued" =>
                            dispatches'[d].dispatch_epoch = epoch'[dispatches'[d].thread]
                      /\ dispatches'[d].status # "Absent" =>
                            dispatches'[d].dispatch_epoch <= epoch'[dispatches'[d].thread]
    BY DEF QueuedIsCurrent
  <2>1. /\ dispatches[d] \in Dispatch /\ epoch \in [Threads -> Nat]
        /\ dispatches[d].thread \in Threads /\ dispatches[d].dispatch_epoch \in Nat
        /\ epoch[dispatches[d].thread] \in Nat
    BY DEF RecordInv, TypeOK, Dispatch
  <2>2. Move(d) /\ dispatches'[d] \in Dispatch
    BY NextMove, NextRecordInv DEF RecordInv, TypeOK
  <2>3. CASE epoch' = epoch
    <3>1. [dispatches[d] EXCEPT !.lease = "Expired"].dispatch_epoch = dispatches[d].dispatch_epoch
      BY <2>1 DEF Dispatch
    <3>2. dispatches'[d].thread \in Threads /\ epoch[dispatches'[d].thread] \in Nat
      BY <2>1, <2>2 DEF Dispatch
    <3> QED
      BY <1>0, <2>1, <2>2, <2>3, <3>1, <3>2 DEF Move, SameOwner, Stale, QueuedIsCurrent, Terminal
  <2>4. ASSUME NEW t \in Threads, Interrupt(t)
        PROVE  /\ dispatches'[d].status = "Queued" =>
                     dispatches'[d].dispatch_epoch = epoch'[dispatches'[d].thread]
               /\ dispatches'[d].status # "Absent" =>
                     dispatches'[d].dispatch_epoch <= epoch'[dispatches'[d].thread]
    <3>1. epoch' = [epoch EXCEPT ![t] = epoch[t] + 1]
      BY <2>4 DEF Interrupt
    <3>2. CASE dispatches[d].status = "Queued" /\ dispatches[d].thread = t
      <4>1. dispatches'[d] = MarkSuperseded(dispatches[d], dispatches[d].dispatch_epoch)
        BY <2>1, <2>4, <3>2 DEF Interrupt, Of, QueuedIsCurrent
      <4>2. /\ dispatches'[d].status = "Superseded" /\ dispatches'[d].thread = t
            /\ dispatches'[d].dispatch_epoch = dispatches[d].dispatch_epoch
        BY <2>1, <3>2, <4>1 DEF MarkSuperseded, Dispatch
      <4> QED
        BY <2>1, <3>1, <3>2, <4>2 DEF QueuedIsCurrent
    <3>3. CASE ~(dispatches[d].status = "Queued" /\ dispatches[d].thread = t)
      <4>1. dispatches'[d] = dispatches[d]
        BY <2>4, <3>3 DEF Interrupt, Of
      <4> QED
        BY <2>1, <3>1, <3>3, <4>1 DEF QueuedIsCurrent
    <3> QED
      BY <3>2, <3>3
  <2>5. ASSUME NEW S \in SUBSET DispatchIds, PurgeTerminal(S)
        PROVE  /\ dispatches'[d].status = "Queued" =>
                     dispatches'[d].dispatch_epoch = epoch'[dispatches'[d].thread]
               /\ dispatches'[d].status # "Absent" =>
                     dispatches'[d].dispatch_epoch <= epoch'[dispatches'[d].thread]
    <3>1. CASE d \in S \/ dispatches[d].status = "Absent"
      BY <1>0, <2>5, <3>1 DEF PurgeTerminal
    <3>2. CASE d \notin S /\ dispatches[d].status # "Absent"
      <4>1. dispatches'[d] = dispatches[d]
            /\ epoch'[dispatches[d].thread] = epoch[dispatches[d].thread]
        BY <2>1, <2>5, <3>2 DEF PurgeTerminal
      <4> QED
        BY <4>1 DEF QueuedIsCurrent
    <3> QED
      BY <3>1, <3>2
  <2> QED
    BY <2>3, <2>4, <2>5, EpochChanges
<1> QED
  BY <1>1, <1>2, InitRecordInv, NextRecordInv, PTL DEF Spec

EnqueueOf(d) ==
    \E t \in Threads, p \in Priorities, k \in DedupeKeys \cup {NoKey},
       c \in Stamps, avail \in {"Due", "Later"}, n \in EnqueuedAttempts : EnqueueNew(d, t, p, k, c, avail, n)

\* Only enqueue adds a record to the map.
LEMMA OnlyEnqueueAdds ==
    ASSUME RecordInv, [Next]_vars
    PROVE  \/ \E d \in DispatchIds : EnqueueOf(d)
           \/ \A x \in DispatchIds :
                 dispatches[x].status = "Absent" => dispatches'[x].status = "Absent"
<1> DEFINE Stays == \A x \in DispatchIds :
                 dispatches[x].status = "Absent" => dispatches'[x].status = "Absent"
<1>0. /\ dispatches \in [DispatchIds -> Dispatch] /\ lastToken \in Nat
      /\ NoDispatch.status = "Absent"
  BY DEF RecordInv, TypeOK, NoDispatch, NewDispatch
<1>1. ASSUME NEW d \in DispatchIds, CallOn(d), ~EnqueueOf(d) PROVE Stays
  <2>1. CASE ClaimDispatch(d)
    BY <1>0, <2>1 DEF ClaimDispatch
  <2>2. CASE Cancel(d)
    BY <1>0, <2>2 DEF Cancel
  <2>3. ASSUME NEW tok \in 1..lastToken, NEW next, Fenced(d, tok, next) PROVE Stays
    <3>1. dispatches[d].status = "Claimed"
      BY <1>0, <2>3, TokenMeansClaimed DEF Fenced, RecordInv, AllSound
    <3> QED
      BY <1>0, <2>3, <3>1 DEF Fenced
  <2>4. ASSUME NEW tok \in 1..lastToken, SupersedeClaimed(d, tok) PROVE Stays
    BY <1>0, <2>4 DEF SupersedeClaimed
  <2> QED
    BY <1>1, <2>1, <2>2, <2>3, <2>4
       DEF CallOn, EnqueueOf, EnqueueNew, Ack, Nack, DeadLetter, RecordDispatchStart, RecordRunResult,
           ExtendLease
<1>2. ASSUME NEW d \in DispatchIds, Elapse(d) \/ Expire(d) PROVE Stays
  BY <1>0, <1>2 DEF Elapse, Expire, Dispatch
<1>3. ASSUME NEW t \in Threads, NEW S \in SUBSET DispatchIds, Claim(t, S) PROVE Stays
  BY <1>3 DEF Claim, Batches, Eligible, Of
<1>4. ASSUME NEW t \in Threads, Interrupt(t) PROVE Stays
  BY <1>4 DEF Interrupt, Of
<1>5. ASSUME NEW S \in SUBSET DispatchIds, ReclaimExpiredLeases(S) \/ PurgeTerminal(S)
      PROVE  Stays
  BY <1>0, <1>5 DEF ReclaimExpiredLeases, PurgeTerminal
<1>6. CASE UNCHANGED vars
  BY <1>6 DEF vars
<1> QED
  BY <1>1, <1>2, <1>3, <1>4, <1>5, <1>6 DEF Next

\* A dedupe key admits one live dispatch per thread, through every retry,
\* reclaim and interrupt.
THEOREM DedupeUnique == Spec => []DedupeKeyUnique
<1>0. NoDispatch.status = "Absent"
  BY DEF NoDispatch, NewDispatch
<1>1. Init => DedupeKeyUnique
  BY <1>0 DEF Init, DedupeKeyUnique
<1>2. RecordInv /\ DedupeKeyUnique /\ [Next]_vars => DedupeKeyUnique'
  <2> SUFFICES ASSUME RecordInv, DedupeKeyUnique, [Next]_vars,
                      NEW a \in DispatchIds, NEW b \in DispatchIds,
                      dispatches'[a].status \in {"Queued", "Claimed"},
                      dispatches'[b].status \in {"Queued", "Claimed"},
                      dispatches'[a].thread = dispatches'[b].thread,
                      dispatches'[a].dedupe_key = dispatches'[b].dedupe_key,
                      dispatches'[a].dedupe_key # NoKey
               PROVE  a = b
    BY DEF DedupeKeyUnique
  <2>1. Move(a) /\ Move(b) /\ dispatches \in [DispatchIds -> Dispatch]
    BY NextMove DEF RecordInv, TypeOK
  <2>2. CASE \A x \in DispatchIds :
                dispatches[x].status = "Absent" => dispatches'[x].status = "Absent"
    <3>1. \A x \in {a, b} : /\ dispatches[x].status \in {"Queued", "Claimed"}
                             /\ SameOwner(dispatches[x], dispatches'[x])
      BY <1>0, <2>1, <2>2 DEF Move, Terminal, SameOwner
    <3> QED
      BY <3>1 DEF DedupeKeyUnique, SameOwner
  <2>3. ASSUME NEW d \in DispatchIds, NEW t \in Threads, NEW p \in Priorities,
               NEW k \in DedupeKeys \cup {NoKey}, NEW c \in Stamps,
               NEW avail \in {"Due", "Later"}, NEW n \in EnqueuedAttempts,
               EnqueueNew(d, t, p, k, c, avail, n)
        PROVE  a = b
    <3>1. /\ dispatches'[d].thread = t /\ dispatches'[d].dedupe_key = k
          /\ \A x \in DispatchIds \ {d} : dispatches'[x] = dispatches[x]
          /\ k = NoKey \/ \A x \in DispatchIds :
                 dispatches[x].status \in {"Queued", "Claimed"} /\ dispatches[x].thread = t
                    => dispatches[x].dedupe_key # k
      BY <2>1, <2>3 DEF Enqueue, EnqueueNew, NewDispatch, Of
    <3> QED
      BY <3>1 DEF DedupeKeyUnique
  <2> QED
    BY <2>2, <2>3, OnlyEnqueueAdds DEF EnqueueOf
<1> QED
  BY <1>1, <1>2, InitRecordInv, NextRecordInv, PTL DEF Spec
=============================================================================
