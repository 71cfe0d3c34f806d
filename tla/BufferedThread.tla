--------------------------- MODULE BufferedThread ---------------------------
(* One thread of the NATS buffered thread store                            *)
(* (awaken-stores/src/nats_buffered_thread): checkpoints go to a JetStream *)
(* write-ahead log and its commit states to a KV bucket; flushers of       *)
(* several processes drain the log into the inner store; readers overlay   *)
(* the tail of the log on the inner store.                                 *)
(*                                                                         *)
(* A checkpoint is a full snapshot, so the content of a thread, of its     *)
(* messages or of a run is the thread_seq of the entry that wrote it, and  *)
(* 0 when there is none.  The KV operations are compare-and-swap loops and *)
(* take effect in one step.  A check of a claim and the write it guards    *)
(* are one step while the claim holds; when it lapses, the process may     *)
(* have passed the check already and is `late` with that one write.        *)
EXTENDS Integers, Sequences, FiniteSets, FiniteSetsExt, SequencesExt

CONSTANTS
    Writers,        \* callers of checkpoint, each of a process of its own
    Flushers,       \* the flusher loops, one per process
    Runs,           \* run ids
    RunOf,          \* the run each writer checkpoints
    Deleter,        \* the caller of delete_thread
    Nobody,         \* the token of a claim never taken
    Lapsing,        \* the processes whose lease may lapse while they live
    Late,           \* those that may be past the check of their next write then
    MaxTroubles,    \* bound on such lapses, process crashes, and failed
                    \* calls of NATS or of the inner store
    MaxDeletes      \* 1: delete_thread is called

ASSUME BufferedAssumption ==
    /\ IsFiniteSet(Writers) /\ IsFiniteSet(Flushers)
    /\ RunOf \in [Writers -> Runs]
    /\ Lapsing \subseteq Writers \cup Flushers \cup {Deleter} /\ Late \subseteq Lapsing
    /\ Deleter \notin Writers /\ Nobody \notin Writers \cup Flushers \cup {Deleter}
    /\ MaxTroubles \in Nat
    /\ MaxDeletes \in 0 .. 1

VARIABLES
    meta,       \* ThreadHotMetadata: reserved_seq, latest_seq, latest_js_seq
    flushed,    \* the flushed_seq watermark
    wal,        \* WalEntryState of each thread_seq
    stream,     \* the JetStream log: thread_seq and run of each entry
    acked,      \* stream positions the durable consumer will not redeliver
    cache,      \* thread_seq of the cached record of each run
    hierarchy,  \* the hierarchy claim
    flushing,   \* the flush claim of the thread
    inner,      \* the inner store: thread projection, messages, run records
    writer,     \* the checkpoint calls
    flusher,    \* the flusher loops
    deleter,    \* the delete_thread call
    reader,     \* one reader with ReadYourWrites consistency
    committed,  \* history: the committed thread_seqs in commit order
    known,      \* history: the highest seq a checkpoint call returned Ok
                \* for, and the highest one a delete erased
    troubles    \* lapses, crashes and faults so far

kv == <<meta, flushed, wal, cache>>
vars == <<meta, flushed, wal, stream, acked, cache, hierarchy, flushing, inner,
          writer, flusher, deleter, reader, committed, known, troubles>>

MaxSeq == Cardinality(Writers)
Seqs == 1 .. MaxSeq
NoState == [status |-> "None", token |-> Nobody, js |-> 0]
Unclaimed == [token |-> Nobody, live |-> FALSE]

Init ==
    /\ meta = [reserved |-> 0, latest |-> 0, latestJs |-> 0]
    /\ flushed = 0
    /\ wal = [s \in Seqs |-> NoState]
    /\ stream = << >>
    /\ acked = {}
    /\ cache = [r \in Runs |-> 0]
    /\ hierarchy = Unclaimed
    /\ flushing = Unclaimed
    /\ inner = [thread |-> 0, messages |-> 0, runs |-> [r \in Runs |-> 0]]
    /\ writer = [w \in Writers |-> [pc |-> "Idle", seq |-> 0, js |-> 0,
                                      late |-> FALSE]]
    /\ flusher = [f \in Flushers |->
                    [pc |-> "Idle", todo |-> {}, good |-> {}, drop |-> {},
                     runs |-> {}, at |-> 0, latest |-> 0, late |-> FALSE]]
    /\ deleter = [pc |-> "Idle", target |-> 0]
    /\ reader = [pc |-> "Idle", floor |-> 0, latest |-> 0, js |-> 0, got |-> 0]
    /\ committed = << >>
    /\ known = [ok |-> 0, erased |-> 0]
    /\ troubles = 0

(***************************************************************************)
(* Distributed claims (hierarchy_claim.rs).                                *)
(***************************************************************************)
(* claim_token_is_current, ensure_current *)
Current(claim, p) == claim.token = p /\ claim.live

(* The process passes the ensure_current before its next write. *)
Passes(claim, p, late) == Current(claim, p) \/ late

(* acquire_for_key: the key is free, released or expired *)
Acquired(claim, p) == ~claim.live /\ claim' = [token |-> p, live |-> TRUE]

(* release: a claim taken over meanwhile is left alone *)
Released(claim, p) ==
    claim' = IF claim.token = p THEN [claim EXCEPT !.live = FALSE] ELSE claim

Trouble == troubles < MaxTroubles /\ troubles' = troubles + 1

(***************************************************************************)
(* WAL commit states and hot metadata (wal_state.rs, hot_meta.rs).         *)
(***************************************************************************)
(* settle_thread_state: a prepared entry whose writer lost the claim is    *)
(* aborted, whoever meets it.                                              *)
Settle(states, s) ==
    IF states[s].status = "Prepared" /\ ~Current(hierarchy, states[s].token)
    THEN [states EXCEPT ![s].status = "Aborted"]
    ELSE states

SettleAll == [s \in Seqs |-> Settle(wal, s)[s]]

(* promote_latest_seq *)
Promote(m, s, js) ==
    IF m.latest >= s THEN m
    ELSE [reserved |-> Max({m.reserved, s}), latest |-> s, latestJs |-> js]

(* cache_run_if_newer *)
CacheRun(c, r, s) == IF c[r] >= s THEN c ELSE [c EXCEPT ![r] = s]

Committed(states) == {s \in Seqs : states[s].status = "Committed"}

(* reconcile_thread_tail: settle, then catch the hot metadata up with the  *)
(* committed entries above latest_seq.                                     *)
Reconcile ==
    LET tail == {s \in Committed(SettleAll) : s > meta.latest}
        top == Max(tail)
    IN  /\ wal' = SettleAll
        /\ IF tail = {} THEN UNCHANGED <<meta, cache>>
           ELSE /\ meta' = Promote(meta, top, wal[top].js)
                /\ cache' = [r \in Runs |->
                     Max({cache[r]} \cup {s \in tail : stream[wal[s].js].run = r})]
        /\ UNCHANGED flushed

(***************************************************************************)
(* The write path (writer.rs, checkpoint in mod.rs).                       *)
(***************************************************************************)
Goto(w, from, to) ==
    writer[w].pc = from /\ writer' = [writer EXCEPT ![w].pc = to, ![w].late = FALSE]

(* Mutant: the claim is not checked again. *)
MayWriteAlways(w) == TRUE

MayWrite(w) == Passes(hierarchy, w, writer[w].late)

OthersThanWriters == <<flushing, inner, flusher, deleter, reader, acked>>

(* checkpoint takes the hierarchy claim, and load_thread_overlay reconciles *)
(* the tail before anything is reserved; `acquire` gives up after 10 s.    *)
WriterClaims(w) ==
    /\ Acquired(hierarchy, w)
    /\ Goto(w, "Idle", "Overlaid")
    /\ Reconcile
    /\ UNCHANGED <<stream, committed, known, troubles, OthersThanWriters>>

WriterTimesOut(w) ==
    /\ hierarchy.live
    /\ Goto(w, "Idle", "Err")
    /\ UNCHANGED <<kv, stream, hierarchy, committed, known, troubles, OthersThanWriters>>

(* ensure_current fails before the reservation, before or after the publish *)
(* or in mark_committed: past the prepare, the entry is aborted.           *)
WriterLosesClaim(w) ==
    /\ ~MayWrite(w)
    /\ \/ Goto(w, "Overlaid", "ReleaseErr")
       \/ Goto(w, "Prepared", "Abort")
       \/ Goto(w, "Published", "Abort")
    /\ UNCHANGED <<kv, stream, hierarchy, committed, known, troubles, OthersThanWriters>>

(* reserve_seq: the counter is never rolled back. *)
WriterReserves(w) ==
    /\ writer[w].pc = "Overlaid" /\ MayWrite(w)
    /\ meta' = [meta EXCEPT !.reserved = Max({@, meta.latest}) + 1]
    /\ writer' = [writer EXCEPT ![w].pc = "Reserved", ![w].seq = meta'.reserved,
                                ![w].late = FALSE]
    /\ UNCHANGED <<flushed, wal, cache, stream, hierarchy, committed, known, troubles,
                   OthersThanWriters>>

WriterPrepares(w) ==
    /\ Goto(w, "Reserved", "Prepared")
    /\ wal[writer[w].seq].status = "None"
    /\ wal' = [wal EXCEPT ![writer[w].seq] =
                 [status |-> "Prepared", token |-> w, js |-> 0]]
    /\ UNCHANGED <<meta, flushed, cache, stream, hierarchy, committed, known, troubles,
                   OthersThanWriters>>

(* A call fails up to mark_prepared: nothing was published, a reserved seq *)
(* is a gap.                                                               *)
WriterPrepareFails(w) ==
    /\ Trouble
    /\ \E from \in {"Overlaid", "Reserved"} : Goto(w, from, "ReleaseErr")
    /\ UNCHANGED <<kv, stream, hierarchy, committed, known, OthersThanWriters>>

WriterPublishes(w) ==
    /\ writer[w].pc = "Prepared" /\ MayWrite(w)
    /\ stream' = Append(stream, [seq |-> writer[w].seq, run |-> RunOf[w]])
    /\ writer' = [writer EXCEPT ![w].pc = "Published", ![w].js = Len(stream) + 1,
                                ![w].late = FALSE]
    /\ UNCHANGED <<kv, hierarchy, committed, known, troubles, OthersThanWriters>>

(* The publish, or only its acknowledgement, is lost. *)
WriterPublishFails(w) ==
    /\ MayWrite(w) /\ Trouble
    /\ Goto(w, "Prepared", "Abort")
    /\ stream' \in {stream, Append(stream, [seq |-> writer[w].seq, run |-> RunOf[w]])}
    /\ UNCHANGED <<kv, hierarchy, committed, known, OthersThanWriters>>

(* mark_committed: the state must still be prepared when it is swapped. *)
CommitTo(w, to) ==
    LET s == writer[w].seq
    IN  /\ MayWrite(w)
        /\ Goto(w, "Published", to)
        /\ wal[s].status = "Prepared" /\ wal[s].token = w
        /\ wal' = [wal EXCEPT ![s].status = "Committed", ![s].js = writer[w].js]
        /\ committed' = Append(committed, s)
        /\ UNCHANGED <<meta, flushed, cache, stream, hierarchy, known, OthersThanWriters>>

WriterCommits(w) == CommitTo(w, "Committed") /\ UNCHANGED troubles

(* The swap lands but its answers are lost: the call goes on as if it had  *)
(* failed, and mark_aborted leaves the committed state alone.              *)
WriterCommitUnsure(w) == CommitTo(w, "ReleaseUnsure") /\ Trouble

(* ensure_current or the swap fails, and nothing landed. *)
WriterCommitFails(w) ==
    /\ Trouble
    /\ Goto(w, "Published", "Abort")
    /\ UNCHANGED <<kv, stream, hierarchy, committed, known, OthersThanWriters>>

(* The entry was settled by a reader, a flusher or the next writer. *)
WriterFindsSettled(w) ==
    /\ Goto(w, "Published", "Abort")
    /\ wal[writer[w].seq].status # "Prepared"
    /\ UNCHANGED <<kv, stream, hierarchy, committed, known, troubles, OthersThanWriters>>

WriterCaches(w) ==
    /\ Goto(w, "Committed", "Cached")
    /\ cache' = CacheRun(cache, RunOf[w], writer[w].seq)
    /\ UNCHANGED <<meta, flushed, wal, stream, hierarchy, committed, known, troubles,
                   OthersThanWriters>>

WriterPromotes(w) ==
    /\ Goto(w, "Cached", "ReleaseOk")
    /\ meta' = Promote(meta, writer[w].seq, writer[w].js)
    /\ UNCHANGED <<flushed, wal, cache, stream, hierarchy, committed, known, troubles,
                   OthersThanWriters>>

(* A failure after the commit is reported as CommitUnknown. *)
WriterCommitUnknown(w) ==
    /\ Trouble
    /\ \E from \in {"Committed", "Cached"} : Goto(w, from, "ReleaseUnknown")
    /\ UNCHANGED <<kv, stream, hierarchy, committed, known, OthersThanWriters>>

(* mark_aborted, whose own failure is only logged *)
WriterAborts(w) ==
    LET s == writer[w].seq
        mine == wal[s].token = w /\ wal[s].status = "Prepared"
    IN  /\ Goto(w, "Abort", "ReleaseErr")
        /\ \/ /\ wal' = IF mine THEN [wal EXCEPT ![s].status = "Aborted"] ELSE wal
              /\ UNCHANGED troubles
           \/ Trouble /\ UNCHANGED wal
        /\ UNCHANGED <<meta, flushed, cache, stream, hierarchy, committed, known,
                       OthersThanWriters>>

(* Unsure: an error other than CommitUnknown is returned for a checkpoint   *)
(* that is committed.                                                      *)
WriterReturns(w) == \E hop \in {<<"ReleaseOk", "Ok">>, <<"ReleaseErr", "Err">>,
                                <<"ReleaseUnknown", "Unknown">>,
                                <<"ReleaseUnsure", "Unsure">>} :
    /\ Goto(w, hop[1], hop[2])
    /\ Released(hierarchy, w)
    /\ known' = IF hop[2] = "Ok" THEN [known EXCEPT !.ok = Max({@, writer[w].seq})]
                 ELSE known
    /\ UNCHANGED <<kv, stream, committed, troubles, OthersThanWriters>>

(* The release fails, and its error is returned when there is no other. *)
WriterReleaseFails(w) == \E hop \in {<<"ReleaseOk", "Unsure">>, <<"ReleaseErr", "Err">>,
                                     <<"ReleaseUnknown", "Unknown">>,
                                     <<"ReleaseUnsure", "Unsure">>} :
    /\ Trouble
    /\ Goto(w, hop[1], hop[2])
    /\ Released(hierarchy, w) \/ UNCHANGED hierarchy
    /\ UNCHANGED <<kv, stream, committed, known, OthersThanWriters>>

(***************************************************************************)
(* The flusher (flusher.rs).  The durable consumer may hand any entry that *)
(* is not acknowledged to any flusher at any time: deliveries are nacked,  *)
(* time out after ack_wait and overlap.                                    *)
(***************************************************************************)
OthersThanFlushers == <<hierarchy, writer, deleter, reader, stream, committed, known>>

FlushGoto(f, to) == flusher' = [flusher EXCEPT ![f].pc = to, ![f].late = FALSE]

(* The run of each entry of a batch, at its highest seq *)
RunSeqs(good) == {Max({stream[n].seq : n \in {g \in good : stream[g].run = stream[m].run}})
                   : m \in good}
RunAt(s) == stream[CHOOSE m \in DOMAIN stream : stream[m].seq = s].run
TopSeq(f) == Max({stream[m].seq : m \in flusher[f].good})
TopJs(f) == CHOOSE m \in flusher[f].good : stream[m].seq = TopSeq(f)

FlusherFetches(f) ==
    /\ flusher[f].pc = "Idle"
    /\ \E batch \in SUBSET (DOMAIN stream \ acked) \ {{}} :
         flusher' = [flusher EXCEPT ![f].pc = "Acquire", ![f].todo = batch,
                                    ![f].good = {}, ![f].drop = {}]
    /\ UNCHANGED <<kv, acked, flushing, inner, troubles, OthersThanFlushers>>

(* with_flush_claim, then the watermarks are read *)
FlusherClaims(f) ==
    /\ flusher[f].pc = "Acquire"
    /\ Acquired(flushing, f)
    /\ flusher' = [flusher EXCEPT ![f].pc = "Classify", ![f].at = flushed,
                                  ![f].latest = meta.latest]
    /\ UNCHANGED <<kv, acked, inner, troubles, OthersThanFlushers>>

(* The claim is not to be had in time: the batch is left to redelivery. *)
FlusherTimesOut(f) ==
    /\ flusher[f].pc = "Acquire" /\ flushing.live
    /\ flusher' = [flusher EXCEPT ![f].pc = "Idle", ![f].todo = {}]
    /\ UNCHANGED <<kv, acked, flushing, inner, troubles, OthersThanFlushers>>

(* Mutant: an entry is taken for committed unless it is known to be aborted. *)
FlusherClassifiesEager(f) == \E m \in flusher[f].todo :
    LET s == stream[m].seq
    IN  /\ flusher[f].pc = "Classify"
        /\ flusher' = [flusher EXCEPT
             ![f].todo = @ \ {m},
             ![f].good = IF wal[s].status = "Aborted" THEN @ ELSE @ \cup {m}]
        /\ UNCHANGED <<kv, acked, flushing, inner, troubles, OthersThanFlushers>>

(* classify_entry: Committed, AckIgnore, or Retry (in neither set) *)
FlusherClassifies(f) == \E m \in flusher[f].todo :
    LET s == stream[m].seq
        st == Settle(wal, s)[s]
    IN  /\ flusher[f].pc = "Classify"
        /\ wal' = Settle(wal, s)
        /\ flusher' = [flusher EXCEPT
             ![f].todo = @ \ {m},
             ![f].good = IF st.status = "Committed" /\ st.js = m THEN @ \cup {m} ELSE @,
             ![f].drop = IF \/ st.status = "Committed" /\ st.js # m
                            \/ st.status = "Aborted"
                            \/ st.status = "None" /\ s <= flusher[f].at
                         THEN @ \cup {m} ELSE @]
        /\ UNCHANGED <<meta, flushed, cache, acked, flushing, inner, troubles,
                       OthersThanFlushers>>

(* Mutant: a redelivered entry is applied whatever the watermark says. *)
FlusherPersistsStaleAsFresh(f) ==
    /\ flusher[f].pc = "Classify" /\ flusher[f].todo = {}
    /\ flusher' = [flusher EXCEPT
         ![f].pc = IF flusher[f].good # {} THEN "Run" ELSE "Finish",
         ![f].runs = RunSeqs(flusher[f].good)]
    /\ UNCHANGED <<kv, acked, flushing, inner, troubles, OthersThanFlushers>>

(* persist_stale_runs: records at or below the watermark are created when  *)
(* absent and never replaced.                                              *)
FlusherPersistsStale(f) ==
    LET stale == {s \in RunSeqs(flusher[f].good) : s <= flusher[f].at}
        fresh == RunSeqs(flusher[f].good) \ stale
    IN  /\ flusher[f].pc = "Classify" /\ flusher[f].todo = {}
        /\ inner' = [inner EXCEPT !.runs = [r \in Runs |->
             IF @[r] = 0 /\ \E s \in stale : RunAt(s) = r
             THEN CHOOSE s \in stale : RunAt(s) = r ELSE @[r]]]
        /\ flusher' = [flusher EXCEPT
             ![f].pc = IF fresh # {} THEN "Run"
                       ELSE IF flusher[f].good # {} /\ TopSeq(f) > flusher[f].latest
                       THEN "Promote" ELSE "Finish",
             ![f].runs = fresh]
        /\ UNCHANGED <<kv, acked, flushing, troubles, OthersThanFlushers>>

Guarded == {"Run", "Thread", "Messages", "Promote", "Mark"}

(* ensure_flush_claim_current before each write: a lost claim nacks the batch *)
At(f, pc) == flusher[f].pc = pc /\ Passes(flushing, f, flusher[f].late)

FlusherLosesClaim(f) ==
    /\ flusher[f].pc \in Guarded /\ ~Passes(flushing, f, flusher[f].late)
    /\ flusher' = [flusher EXCEPT ![f].pc = "Finish", ![f].good = {}]
    /\ UNCHANGED <<kv, acked, flushing, inner, troubles, OthersThanFlushers>>

(* apply_thread_batch_ordered: inner.checkpoint per run, lowest seq first,  *)
(* with the messages of the highest entry of the batch                     *)
FlusherCheckpoints(f) ==
    LET s == Min(flusher[f].runs)
    IN  /\ At(f, "Run")
        /\ inner' = [inner EXCEPT !.thread = s, !.messages = TopSeq(f),
                                  !.runs[RunAt(s)] = s]
        /\ flusher' = [flusher EXCEPT
             ![f].runs = @ \ {s}, ![f].late = FALSE,
             ![f].pc = IF flusher[f].runs = {s} THEN "Thread" ELSE @]
        /\ UNCHANGED <<kv, acked, flushing, troubles, OthersThanFlushers>>

(* materialize_projection *)
FlusherSavesThread(f) ==
    /\ At(f, "Thread")
    /\ inner' = [inner EXCEPT !.thread = TopSeq(f)]
    /\ FlushGoto(f, "Messages")
    /\ UNCHANGED <<kv, acked, flushing, troubles, OthersThanFlushers>>

FlusherSavesMessages(f) ==
    /\ At(f, "Messages")
    /\ inner' = [inner EXCEPT !.messages = TopSeq(f)]
    /\ FlushGoto(f, IF TopSeq(f) > flusher[f].latest THEN "Promote" ELSE "Mark")
    /\ UNCHANGED <<kv, acked, flushing, troubles, OthersThanFlushers>>

FlusherPromotes(f) ==
    /\ At(f, "Promote")
    /\ meta' = Promote(meta, TopSeq(f), TopJs(f))
    /\ FlushGoto(f, IF TopSeq(f) > flusher[f].at THEN "Mark" ELSE "Finish")
    /\ UNCHANGED <<flushed, wal, cache, acked, flushing, inner, troubles,
                   OthersThanFlushers>>

(* Mutant: the watermark is left to the next batch. *)
FlusherMarksNothing(f) ==
    /\ At(f, "Mark")
    /\ FlushGoto(f, "Finish")
    /\ UNCHANGED <<kv, acked, flushing, inner, troubles, OthersThanFlushers>>

(* write_flushed_seq *)
FlusherMarks(f) ==
    /\ At(f, "Mark")
    /\ flushed' = Max({flushed, TopSeq(f)})
    /\ FlushGoto(f, "Finish")
    /\ UNCHANGED <<meta, wal, cache, acked, flushing, inner, troubles, OthersThanFlushers>>

(* Mutant: a batch is acknowledged although a write failed. *)
FlusherFailsAcking(f) ==
    /\ \E pc \in Guarded : At(f, pc)
    /\ Trouble
    /\ flusher' = [flusher EXCEPT ![f].pc = "Finish"]
    /\ UNCHANGED <<kv, acked, flushing, inner, OthersThanFlushers>>

(* A write of the inner store or of the watermark fails: the batch is nacked. *)
FlusherFails(f) ==
    /\ \E pc \in Guarded : At(f, pc)
    /\ Trouble
    /\ flusher' = [flusher EXCEPT ![f].pc = "Finish", ![f].good = {}, ![f].late = FALSE]
    /\ UNCHANGED <<kv, acked, flushing, inner, OthersThanFlushers>>

(* finish_wal_messages: acknowledge, then delete the commit state; when the *)
(* acknowledgement fails the state is kept.                                *)
FlusherAcks(f) == \E m \in flusher[f].good \cup flusher[f].drop :
    /\ flusher[f].pc = "Finish"
    /\ flusher' = [flusher EXCEPT ![f].good = @ \ {m}, ![f].drop = @ \ {m}]
    /\ \/ /\ acked' = acked \cup {m}
          /\ wal' = [wal EXCEPT ![stream[m].seq] = NoState]
          /\ UNCHANGED troubles
       \/ Trouble /\ acked' \in {acked, acked \cup {m}} /\ UNCHANGED wal
    /\ UNCHANGED <<meta, flushed, cache, flushing, inner, OthersThanFlushers>>

FlusherReleases(f) ==
    /\ flusher[f].pc = "Finish" /\ flusher[f].good \cup flusher[f].drop = {}
    /\ Released(flushing, f)
    /\ flusher' = [flusher EXCEPT ![f].pc = "Idle", ![f].runs = {}, ![f].at = 0,
                                  ![f].latest = 0]
    /\ UNCHANGED <<kv, acked, inner, troubles, OthersThanFlushers>>

(***************************************************************************)
(* delete_thread (mod.rs).                                                 *)
(***************************************************************************)
OthersThanDeleter == <<stream, acked, cache, flushing, writer, flusher, reader,
                       committed, troubles>>

DeleterGoto(from, to) ==
    deleter.pc = from /\ deleter' = [deleter EXCEPT !.pc = to]

(* force_flush, before and after the claim: reconcile, read the target... *)
DeleterStarts ==
    /\ MaxDeletes = 1
    /\ deleter.pc = "Idle"
    /\ Reconcile
    /\ deleter' = [pc |-> "Wait", target |-> meta'.latest]
    /\ UNCHANGED <<stream, acked, flushing, writer, flusher, reader, committed, troubles,
                   hierarchy, inner, known>>

DeleterClaims ==
    /\ deleter.pc = "Claim"
    /\ Acquired(hierarchy, Deleter)
    /\ Reconcile
    /\ deleter' = [pc |-> "WaitClaimed", target |-> meta'.latest]
    /\ UNCHANGED <<stream, acked, flushing, writer, flusher, reader, committed, troubles,
                   inner, known>>

(* ...and poll the watermark for at most ten seconds. *)
DeleterFlushed ==
    /\ IF flushed >= deleter.target
       THEN \/ DeleterGoto("Wait", "Claim")
            \/ DeleterGoto("WaitClaimed", "Delete")
       ELSE \/ DeleterGoto("Wait", "Err")
            \/ DeleterGoto("WaitClaimed", "Release")
    /\ UNCHANGED <<kv, hierarchy, inner, known, OthersThanDeleter>>

DeleterLosesClaim ==
    /\ ~Current(hierarchy, Deleter)
    /\ \E from \in {"Delete", "Tombstone", "Cleared"} : DeleterGoto(from, "Release")
    /\ UNCHANGED <<kv, hierarchy, inner, known, OthersThanDeleter>>

(* inner.delete_thread keeps the run records. *)
DeleterDeletes ==
    /\ Current(hierarchy, Deleter)
    /\ DeleterGoto("Delete", "Tombstone")
    /\ inner' = [inner EXCEPT !.thread = 0, !.messages = 0]
    /\ known' = [known EXCEPT !.erased = Max({@} \cup Range(committed))]
    /\ UNCHANGED <<kv, hierarchy, OthersThanDeleter>>

(* Mutant: the tombstone forgets the counters. *)
DeleterTombstonesFromZero ==
    /\ Current(hierarchy, Deleter)
    /\ DeleterGoto("Tombstone", "MarkFlushed")
    /\ meta' = [reserved |-> 0, latest |-> 0, latestJs |-> 0]
    /\ UNCHANGED <<flushed, wal, hierarchy, inner, known, OthersThanDeleter>>

(* clear_hot_thread_state: write_delete_tombstone keeps the watermark so    *)
(* that a recreated thread cannot reuse a sequence number...               *)
DeleterTombstones ==
    LET mark == Max({meta.reserved, meta.latest, flushed})
    IN  /\ Current(hierarchy, Deleter)
        /\ deleter.pc = "Tombstone" /\ deleter' = [pc |-> "MarkFlushed", target |-> mark]
        /\ meta' = [reserved |-> mark, latest |-> mark, latestJs |-> 0]
        /\ UNCHANGED <<flushed, wal, hierarchy, inner, known, OthersThanDeleter>>

DeleterMarks ==
    /\ DeleterGoto("MarkFlushed", "Clear")
    /\ flushed' = deleter.target
    /\ UNCHANGED <<meta, wal, hierarchy, inner, known, OthersThanDeleter>>

(* ...and the commit states of its entries are dropped. *)
DeleterClears ==
    /\ DeleterGoto("Clear", "Cleared")
    /\ wal' = [s \in Seqs |-> NoState]
    /\ UNCHANGED <<meta, flushed, hierarchy, inner, known, OthersThanDeleter>>

DeleterReleases ==
    /\ \/ DeleterGoto("Release", "Done")
       \/ Current(hierarchy, Deleter) /\ DeleterGoto("Cleared", "Done")
    /\ Released(hierarchy, Deleter)
    /\ UNCHANGED <<kv, inner, known, OthersThanDeleter>>

(***************************************************************************)
(* A ReadYourWrites read (reader.rs): reconcile, read the metadata, read   *)
(* the watermark, then the log entry or the inner store.                   *)
(***************************************************************************)
OthersThanReader == <<stream, acked, hierarchy, flushing, inner, writer, flusher,
                      deleter, committed, known>>

ReaderReadsMeta ==
    /\ reader.pc = "Idle" /\ known.ok > known.erased
    /\ Reconcile
    /\ reader' = [pc |-> "Mark", floor |-> known.ok, got |-> 0,
                  latest |-> meta'.latest, js |-> meta'.latestJs]
    /\ UNCHANGED <<troubles, OthersThanReader>>

(* Mutant: the overlay starts one entry too late. *)
ReaderReadsMarkOffByOne ==
    /\ reader.pc = "Mark"
    /\ reader' = [reader EXCEPT !.pc = IF reader.latest <= flushed + 1 THEN "Inner" ELSE "Wal"]
    /\ UNCHANGED <<kv, troubles, OthersThanReader>>

ReaderReadsMark ==
    /\ reader.pc = "Mark"
    /\ reader' = [reader EXCEPT !.pc = IF reader.latest <= flushed THEN "Inner" ELSE "Wal"]
    /\ UNCHANGED <<kv, troubles, OthersThanReader>>

(* read_committed_wal_entry, with its fallback to the inner store *)
ReaderReadsBody ==
    LET bound == reader.js # 0 /\ stream[reader.js].seq = reader.latest
    IN  /\ reader.pc \in {"Inner", "Wal"}
        /\ reader' = [reader EXCEPT !.pc = "Done",
             !.got = IF reader.pc = "Wal" /\ bound THEN reader.latest ELSE inner.messages]
        /\ UNCHANGED <<kv, troubles, OthersThanReader>>

(* The fetch of the log entry fails: the read falls back to the inner store. *)
ReaderMissesBody ==
    /\ reader.pc = "Wal" /\ reader.js # 0 /\ Trouble
    /\ reader' = [reader EXCEPT !.pc = "Missed", !.got = inner.messages]
    /\ UNCHANGED <<kv, OthersThanReader>>

ReaderRests ==
    /\ reader.pc \in {"Done", "Missed"}
    /\ reader' = [pc |-> "Idle", floor |-> 0, latest |-> 0, js |-> 0, got |-> 0]
    /\ UNCHANGED <<kv, troubles, OthersThanReader>>

(***************************************************************************)
(* Crashes and leases.                                                     *)
(***************************************************************************)
Ended == {"Idle", "Ok", "Err", "Unknown", "Unsure", "Dead"}

WriterCrashes(w) ==
    /\ writer[w].pc \notin Ended /\ Trouble
    /\ writer' = [writer EXCEPT ![w].pc = "Dead"]
    /\ UNCHANGED <<kv, stream, hierarchy, committed, known, OthersThanWriters>>

(* A crashed flusher is restarted; its claim is left to expire. *)
FlusherCrashes(f) ==
    /\ flusher[f].pc # "Idle" /\ Trouble
    /\ flusher' = [flusher EXCEPT ![f] = [pc |-> "Idle", todo |-> {}, good |-> {},
         drop |-> {}, runs |-> {}, at |-> 0, latest |-> 0, late |-> FALSE]]
    /\ UNCHANGED <<kv, acked, flushing, inner, OthersThanFlushers>>

DeleterCrashes ==
    /\ deleter.pc \notin {"Idle", "Err", "Done", "Dead"} /\ Trouble
    /\ deleter' = [deleter EXCEPT !.pc = "Dead"]
    /\ UNCHANGED <<kv, stream, acked, hierarchy, flushing, inner, writer, flusher, reader,
                   committed, known>>

Holds(p) ==
    \/ p \in Writers /\ writer[p].pc \notin Ended
    \/ p \in Flushers /\ flusher[p].pc \notin {"Idle", "Acquire"}
    \/ p = Deleter /\ deleter.pc \notin {"Idle", "Wait", "Claim", "Err", "Done", "Dead"}

(* The lease of a dead holder runs out. *)
LeaseExpires ==
    \/ /\ hierarchy.live /\ ~Holds(hierarchy.token)
       /\ hierarchy' = [hierarchy EXCEPT !.live = FALSE]
       /\ UNCHANGED flushing
    \/ /\ flushing.live /\ ~Holds(flushing.token)
       /\ flushing' = [flushing EXCEPT !.live = FALSE]
       /\ UNCHANGED hierarchy

(* The lease of a living holder lapses before its renew task runs; a process *)
(* of Late may then be past the check of the write it is at.               *)
HierarchyLapses ==
    LET p == hierarchy.token
    IN  /\ hierarchy.live /\ p \in Lapsing /\ Holds(p) /\ Trouble
        /\ p = Deleter /\ p \notin Late =>
             deleter.pc \in {"WaitClaimed", "Delete", "Tombstone", "Cleared"}
        /\ hierarchy' = [hierarchy EXCEPT !.live = FALSE]
        /\ IF p \in Writers \cap Late /\ writer[p].pc \in {"Overlaid", "Prepared", "Published"}
           THEN \E late \in BOOLEAN : writer' = [writer EXCEPT ![p].late = late]
           ELSE UNCHANGED writer
        /\ UNCHANGED <<flushing, flusher>>

FlushLapses ==
    LET p == flushing.token
    IN  /\ flushing.live /\ p \in Lapsing /\ Holds(p) /\ Trouble
        /\ flushing' = [flushing EXCEPT !.live = FALSE]
        /\ IF p \in Late /\ flusher[p].pc \in Guarded
           THEN \E late \in BOOLEAN : flusher' = [flusher EXCEPT ![p].late = late]
           ELSE UNCHANGED flusher
        /\ UNCHANGED <<hierarchy, writer>>

(* renew revives a lapsed lease nobody took over. *)
LeaseRenewed ==
    \/ /\ ~hierarchy.live /\ Holds(hierarchy.token)
       /\ hierarchy' = [hierarchy EXCEPT !.live = TRUE]
       /\ UNCHANGED flushing
    \/ /\ ~flushing.live /\ Holds(flushing.token)
       /\ flushing' = [flushing EXCEPT !.live = TRUE]
       /\ UNCHANGED hierarchy

Leases ==
    /\ \/ (LeaseExpires \/ LeaseRenewed) /\ UNCHANGED <<writer, flusher, troubles>>
       \/ HierarchyLapses
       \/ FlushLapses
    /\ UNCHANGED <<kv, stream, acked, inner, deleter, reader, committed, known>>

(***************************************************************************)
(* The specification.                                                      *)
(***************************************************************************)
WriterStep(w) ==
    \/ WriterClaims(w) \/ WriterReserves(w)
    \/ WriterPrepares(w) \/ WriterPublishes(w) \/ WriterCommits(w)
    \/ WriterLosesClaim(w) \/ WriterFindsSettled(w) \/ WriterCaches(w) \/ WriterPromotes(w) \/ WriterAborts(w)
    \/ WriterReturns(w)

WriterTrouble(w) ==
    \/ WriterTimesOut(w) \/ WriterPrepareFails(w) \/ WriterPublishFails(w)
    \/ WriterCommitFails(w) \/ WriterCommitUnsure(w) \/ WriterCommitUnknown(w)
    \/ WriterReleaseFails(w) \/ WriterCrashes(w)

FlusherStep(f) ==
    \/ FlusherFetches(f) \/ FlusherClaims(f) \/ FlusherClassifies(f)
    \/ FlusherPersistsStale(f) \/ FlusherLosesClaim(f) \/ FlusherCheckpoints(f)
    \/ FlusherSavesThread(f) \/ FlusherSavesMessages(f) \/ FlusherPromotes(f)
    \/ FlusherMarks(f) \/ FlusherAcks(f) \/ FlusherReleases(f)

FlusherTrouble(f) == FlusherTimesOut(f) \/ FlusherFails(f) \/ FlusherCrashes(f)

DeleterStep ==
    \/ DeleterStarts \/ DeleterFlushed \/ DeleterClaims \/ DeleterLosesClaim
    \/ DeleterDeletes \/ DeleterTombstones \/ DeleterMarks \/ DeleterClears
    \/ DeleterReleases

ReaderStep ==
    \/ ReaderReadsMeta \/ ReaderReadsMark \/ ReaderReadsBody \/ ReaderMissesBody
    \/ ReaderRests

Next ==
    \/ \E w \in Writers : WriterStep(w) \/ WriterTrouble(w)
    \/ \E f \in Flushers : FlusherStep(f) \/ FlusherTrouble(f)
    \/ DeleterStep \/ DeleterCrashes \/ ReaderStep \/ Leases

Spec == Init /\ [][Next]_vars

(* Tasks that can run do, and the lease of a dead process ends. *)
FairSpec ==
    /\ Spec
    /\ \A w \in Writers : WF_vars(WriterStep(w))
    /\ \A f \in Flushers : WF_vars(FlusherStep(f))
    /\ WF_vars(DeleterStep)
    /\ WF_vars(LeaseExpires /\ UNCHANGED <<kv, stream, acked, inner, writer, flusher,
                                           deleter, reader, committed, known, troubles>>)

(***************************************************************************)
(* Properties.                                                             *)
(***************************************************************************)
(* Every field holds what its Rust type, and its use, allow. *)
BufferedTypeOK ==
    /\ meta \in [reserved : 0 .. MaxSeq, latest : 0 .. MaxSeq, latestJs : 0 .. MaxSeq]
    /\ flushed \in 0 .. MaxSeq
    /\ wal \in [Seqs -> [status : {"None", "Prepared", "Committed", "Aborted"},
                         token : Writers \cup {Nobody}, js : 0 .. MaxSeq]]
    /\ Len(stream) <= MaxSeq
    /\ \A n \in DOMAIN stream : stream[n] \in [seq : Seqs, run : Runs]
    /\ acked \subseteq DOMAIN stream
    /\ cache \in [Runs -> 0 .. MaxSeq]
    /\ inner \in [thread : 0 .. MaxSeq, messages : 0 .. MaxSeq, runs : [Runs -> 0 .. MaxSeq]]

(* The content a read would return if it ran alone now, and its fetch from *)
(* the log did not fail                                                    *)
View ==
    LET tail == {s \in Committed(SettleAll) : s > meta.latest}
        top == IF tail = {} THEN meta.latest ELSE Max(tail)
        js == IF tail = {} THEN meta.latestJs ELSE wal[top].js
    IN  IF top > flushed /\ js # 0 THEN top ELSE inner.messages

(* Readers see the last committed checkpoint: the thread shown by the      *)
(* overlay changes only when a checkpoint commits, to that checkpoint, or  *)
(* when the thread is deleted.  No flush, redelivery, settlement or crash  *)
(* changes it.                                                             *)
Shown == INSTANCE ThreadView WITH log <- committed, shown <- View
ImplementsThreadView == Shown!Spec

(* A read with ReadYourWrites consistency whose fetch from the log did not *)
(* fail returns at least what every checkpoint that returned Ok before it  *)
(* wrote, unless the thread was deleted since.                             *)
ReadYourWrites ==
    reader.pc = "Done" /\ reader.floor > known.erased => reader.got >= reader.floor

(* Any read with ReadYourWrites consistency that returns does so: what the *)
(* module promises, and a failed fetch from the log breaks.                *)
EveryReadSeesWrites ==
    reader.pc \in {"Done", "Missed"} /\ reader.floor > known.erased =>
        reader.got >= reader.floor

(* A checkpoint call that failed before its commit state was swapped has   *)
(* not committed: nobody swaps it later, whoever holds the claim by then.   *)
(* And what did not commit is in no store and in no read.                  *)
FailedNeverVisible ==
    /\ \A w \in Writers : writer[w].pc = "Err" => writer[w].seq \notin Range(committed)
    /\ {inner.thread, inner.messages, reader.got, View} \cup Range(inner.runs)
         \subseteq {0} \cup Range(committed)

(* No call returns an error other than CommitUnknown for a checkpoint that  *)
(* is committed: what the tests ask, and a failing release breaks.         *)
ErrMeansUncommitted == \A w \in Writers :
    writer[w].pc \in {"Err", "Unsure"} => writer[w].seq \notin Range(committed)

(* An entry leaves the log only when nothing is lost with it: the watermark *)
(* has passed it and the inner store has a record of its run.              *)
AckedIsMaterialized == \A m \in acked :
    stream[m].seq \in Range(committed) =>
        /\ flushed >= stream[m].seq
        /\ inner.runs[stream[m].run] # 0 \/ stream[m].seq <= known.erased

(* The inner store is never behind the flushed_seq watermark: what a Strong *)
(* read returns after force_flush is not older than what was flushed.      *)
InnerNotBehindWatermark == \A s \in Range(committed) :
    s <= flushed /\ s > known.erased => inner.messages >= s /\ inner.thread >= s

(* A recreated thread never reuses a sequence number of the deleted one.   *)
SequenceNeverReused ==
    \A m, n \in DOMAIN stream : stream[m].seq = stream[n].seq => m = n

(* Every committed checkpoint is flushed in the end. *)
Drained == \A s \in Seqs : s \in Range(committed) ~> flushed >= s

(* When the log is drained the inner store has the last record of each run. *)
LatestRunPersisted ==
    acked = DOMAIN stream /\ (\A f \in Flushers : flusher[f].pc = "Idle") =>
        \A r \in Runs : \A m \in DOMAIN stream :
            stream[m].run = r /\ stream[m].seq \in Range(committed)
                => inner.runs[r] >= stream[m].seq
=============================================================================
