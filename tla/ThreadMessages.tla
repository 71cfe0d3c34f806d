--------------------------- MODULE ThreadMessages ---------------------------
(* The messages of one thread (ADR-0042): the committed log and the pending *)
(* queue, and those who move messages between them: submissions that append *)
(* and freeze in one call, live steering of the active run, the boundary    *)
(* freezes and checkpoints of the agent loop, and clients that edit pending *)
(* messages.                                                                *)
(*                                                                         *)
(* A submission carries one message and starts one run, and the three have  *)
(* one name.  A call of the store is one step: the backend locks the thread *)
(* for it.  What a caller reads for its next call may be stale by then.     *)
EXTENDS Integers, Sequences, FiniteSets, SequencesExt

CONSTANTS
    Scenarios,      \* what is checked: pairs of a store, "postgres" or
                    \* "memory", and the set of actors that take part
    Runs,           \* submissions, their messages and their runs
    Steers,         \* the runs that are first tried as live steering
    Boundary,       \* the boundary at which each run's message is submitted
    Extras,         \* messages a user of the store's public API delivers,
    ExtraMode,      \* and the delivery mode of each
    Editors,        \* API clients that edit pending messages, one edit each
    NoRun,          \* not a run
    MaxAttempts,    \* MAX_PENDING_FREEZE_ATTEMPTS, MAX_APPEND_ATTEMPTS
    MaxSteps        \* bound on the steps of a run

(* DeliveryMode: where a message may be taken, whether alone, whether it     *)
(* waits for all before it, and by which run.                              *)
DeliveryMode == [boundary : {"Interrupt", "NextStep", "OnNaturalEnd", "ResumeInput", "NewRun"},
                 one : BOOLEAN, barrier : BOOLEAN, target : Runs \cup {NoRun},
                 fallback : BOOLEAN]

(* The id of an output is generated: no input has it.                      *)
ASSUME MessagesAssumption ==
    /\ Scenarios \subseteq {"postgres", "memory"}
                      \X SUBSET (Runs \cup Extras \cup Editors)
    /\ Steers \subseteq Runs /\ NoRun \notin Runs \cup Extras
    /\ Extras \cap Runs = {}
    /\ Boundary \in [Runs -> {"Interrupt", "NewRun"}]
    /\ ExtraMode \in [Extras -> DeliveryMode]
    /\ (Runs \cup Extras) \cap (Runs \X (1 .. MaxSteps)) = {}
    /\ MaxAttempts \in Nat \ {0} /\ MaxSteps \in Nat \ {0}

VARIABLES
    backend,    \* the store in use
    actors,     \* the submissions, deliveries and clients of this behaviour
    log,        \* committed messages: id and text
    pending,    \* the pending queue: id, text, rev, and delivery mode
    record,     \* run records: status and input (trigger_message_ids)
    latest,     \* latest_run of the thread
    call,       \* the submissions
    steer,      \* the live deliveries
    loop,       \* the agent loops
    editor,     \* the editing clients
    commit,     \* MemoryCommitCoordinator's commit lock: its holder, how far it
                \* is, and its snapshot of the store
    history     \* messages the store acknowledged, retracted ones, edits of
                \* each, and the run that consumed each

vars == <<backend, actors, log, pending, record, latest, call, steer, loop,
          editor, commit, history>>

Inputs == Runs \cup Extras

Ids(queue) == {queue[i].id : i \in DOMAIN queue}
Committed == Ids(log)
Waiting == Ids(pending)
NoRecord == [status |-> "None", input |-> << >>]
Unlocked == [holder |-> NoRun, stage |-> "Free", record |-> << >>, log |-> << >>,
             pending |-> << >>]

Init ==
    /\ \E sc \in Scenarios : backend = sc[1] /\ actors = sc[2]
    /\ log = << >>
    /\ pending = << >>
    /\ record = [r \in Runs |-> NoRecord]
    /\ latest = NoRun
    /\ call = [r \in Runs |-> [pc |-> "Idle", ver |-> 0, sel |-> << >>, tries |-> 0]]
    /\ steer = [v \in Steers |-> [pc |-> "Idle", target |-> NoRun]]
    /\ loop = [r \in Runs |->
                 [pc |-> "Idle", steps |-> 0, cache |-> NoRecord, prior |-> << >>,
                  boundary |-> "NextStep", output |-> << >>, ver |-> 0,
                  sel |-> << >>, tries |-> 0]]
    /\ editor = [e \in Editors |-> [pc |-> "Idle", view |-> << >>]]
    /\ commit = Unlocked
    /\ history = [ok |-> {}, gone |-> {}, edits |-> [m \in Inputs |-> 0],
                  taker |-> [m \in Inputs |-> NoRun]]

(* What a sequence has at some of its positions, in their order. *)
At(seq, positions) ==
    [k \in 1 .. Cardinality(positions) |->
       seq[CHOOSE i \in positions : Cardinality({j \in positions : j <= i}) = k]]

(***************************************************************************)
(* Which pending messages a freeze takes (message/delivery.rs).            *)
(***************************************************************************)
Precedence(b) ==
    CASE b = "Interrupt" -> 0 [] b = "NextStep" -> 1
      [] b = "OnNaturalEnd" -> 2 [] b = "ResumeInput" -> 3 [] b = "NewRun" -> 4

(* The fallback cascade: what wants boundary a may be taken at boundary b. *)
EligibleAt(a, b) ==
    IF "ResumeInput" \in {a, b} THEN a = b ELSE Precedence(a) <= Precedence(b)

(* delivery_mode_for_dispatch *)
SubmitMode(r) == [boundary |-> Boundary[r], one |-> FALSE, barrier |-> FALSE,
                  target |-> NoRun, fallback |-> TRUE]

(* next_step, targeted_to_run: steering of the active run *)
SteerMode(target) == [boundary |-> "NextStep", one |-> FALSE, barrier |-> FALSE,
                      target |-> target, fallback |-> FALSE]

(* Mutant: run affinity is ignored. *)
EligibleAnyRun(m, b, r) == EligibleAt(m.mode.boundary, b)

(* eligible_for_freeze *)
Eligible(m, b, r) ==
    /\ m.mode.target # NoRun =>
         IF b = "NewRun" THEN m.mode.fallback ELSE m.mode.target = r
    /\ EligibleAt(m.mode.boundary, b)

(* can_skip_ineligible, of a message that is not eligible *)
Skippable(m, b) ==
    /\ ~m.mode.barrier
    /\ IF b = "NewRun" THEN m.mode.boundary # "NewRun" /\ ~m.mode.fallback
                       ELSE m.mode.boundary = "NewRun"

(* Mutant: a barrier is taken past the messages skipped before it. *)
TakesLateBarrier(queue, b, r, i) ==
    /\ Eligible(queue[i], b, r)
    /\ queue[i].mode.one => \A j \in 1 .. i - 1 : ~Eligible(queue[j], b, r)

(* What the scan does at message i once it gets there: a barrier waits for *)
(* all before it, and a One message is taken alone.                        *)
Takes(queue, b, r, i) ==
    /\ Eligible(queue[i], b, r)
    /\ queue[i].mode.barrier => \A j \in 1 .. i - 1 : Eligible(queue[j], b, r)
    /\ queue[i].mode.one => \A j \in 1 .. i - 1 : ~Eligible(queue[j], b, r)

(* select_pending_for_freeze_for_run: the scan goes on past what it may    *)
(* skip and past the batched messages it takes; anything else ends it.     *)
SelectPending(queue, b, r) ==
    LET passes(i) == IF Eligible(queue[i], b, r)
                     THEN ~queue[i].mode.barrier /\ ~queue[i].mode.one
                     ELSE Skippable(queue[i], b)
        taken == {i \in DOMAIN queue : /\ \A j \in 1 .. i - 1 : passes(j)
                                       /\ Takes(queue, b, r, i)}
    IN  At([i \in DOMAIN queue |-> queue[i].id], taken)

Position(queue, id) == CHOOSE i \in DOMAIN queue : queue[i].id = id
Without(queue, ids) == At(queue, {i \in DOMAIN queue : queue[i].id \notin ids})
New(id, mode) == [id |-> id, text |-> 0, rev |-> 1, mode |-> mode]
Entry(queue, id) == [id |-> id, text |-> queue[Position(queue, id)].text]

(***************************************************************************)
(* The store: append, freeze, append and freeze (memory/pending.rs,        *)
(* postgres/pending.rs).                                                   *)
(***************************************************************************)
(* append_pending_message_records *)
Fresh(id) == id \notin Waiting /\ id \notin Committed

AppendPending(id, mode) == pending' = Append(pending, New(id, mode))

(* What a freeze tells its caller: these messages are the run's input now. *)
Taken(sel, r) ==
    history' = [history EXCEPT !.ok = @ \cup Range(sel),
      !.taker = [m \in Inputs |-> IF m \in Range(sel) THEN r ELSE @[m]]]

(* Mutant: the messages taken stay pending. *)
FreezeKeeps(queue, sel, r, input) ==
    /\ log' = log \o [k \in DOMAIN sel |-> Entry(queue, sel[k])]
    /\ pending' = queue
    /\ record' = [record EXCEPT ![r].input = input,
                    ![r].status = IF @ = "None" THEN "Created" ELSE @]
    /\ latest' = r
    /\ Taken(sel, r)

(* validate_append_only_delta: what a freeze takes is not in the log yet.   *)
AppendOnly(sel) == Range(sel) \cap Committed = {}

(* The freeze itself: the selection moves to the log and the run record is *)
(* written with it.                                                        *)
Freeze(queue, sel, r, input) ==
    /\ log' = log \o [k \in DOMAIN sel |-> Entry(queue, sel[k])]
    /\ pending' = Without(queue, Range(sel))
    /\ record' = [record EXCEPT ![r].input = input,
                    ![r].status = IF @ = "None" THEN "Created" ELSE @]
    /\ latest' = r
    /\ Taken(sel, r)

(* The trigger ids of the run input: those frozen before, then the new.    *)
Merge(prior, sel) == prior \o At(sel, {k \in DOMAIN sel : sel[k] \notin Range(prior)})

(***************************************************************************)
(* Submission (pending_delivery.rs, called by prepare_run_for_dispatch).   *)
(***************************************************************************)
InCall == <<backend, actors, steer, loop, editor, commit>>

(* preflight_foreground_pending: a foreground message that the queue would *)
(* block is refused before anything is interrupted.                        *)
Blocked(r) ==
    /\ Boundary[r] = "Interrupt" /\ pending # << >>
    /\ SelectPending(Append(pending, New(r, SubmitMode(r))), "Interrupt", NoRun) = << >>

SubmitBegins(r) ==
    /\ call[r].pc = "Idle"
    /\ r \in Steers => steer[r].pc = "Queued"
    /\ call' = [call EXCEPT ![r].pc = IF Blocked(r) THEN "Refused" ELSE "Version"]
    /\ UNCHANGED <<log, pending, record, latest, history, InCall>>

(* lock_thread_append, which prepare_run_for_dispatch holds to its end: one *)
(* lock per process, so it orders the callers of the memory store only.     *)
HoldsAppendLock(r) ==
    call[r].pc \in {"Select", "Freeze"} \/ (call[r].pc = "Version" /\ call[r].tries > 0)

SubmitReadsVersion(r) ==
    /\ call[r].pc = "Version"
    /\ backend = "memory" => \A q \in Runs \ {r} : ~HoldsAppendLock(q)
    /\ call' = [call EXCEPT ![r].pc = "Select", ![r].ver = Len(log)]
    /\ UNCHANGED <<log, pending, record, latest, history, InCall>>

(* The selection is made over the queue with the new message at its end. *)
SubmitSelects(r) ==
    /\ call[r].pc = "Select"
    /\ LET sel == SelectPending(Append(pending, New(r, SubmitMode(r))),
                                Boundary[r], r)
       IN  call' = [call EXCEPT ![r].sel = sel,
                      ![r].pc = IF sel = << >> THEN "Failed" ELSE "Freeze"]
    /\ UNCHANGED <<log, pending, record, latest, history, InCall>>

(* A version or selection conflict: another attempt, or the last one failed *)
SubmitRetries(r) ==
    call' = [call EXCEPT ![r].tries = @ + 1,
               ![r].pc = IF call[r].tries + 1 < MaxAttempts THEN "Version" ELSE "Failed"]

(* What a freeze that fails after the append leaves behind: the Postgres    *)
(* transaction is rolled back, the memory store has extended its queue.     *)
RolledBack(queue) == pending' = IF backend = "memory" THEN queue ELSE pending

(* append_and_freeze_pending_message_records_with_run: a selection that is *)
(* not append-only is an error of its own, and is not retried.  What comes *)
(* after the freeze is module Mailbox's: the dispatch is enqueued and, in   *)
(* the foreground, claimed, and when that fails the client is told of an   *)
(* error although its message is committed.                                *)
SubmitFreezes(r) ==
    LET queue == Append(pending, New(r, SubmitMode(r)))
        sel == call[r].sel
    IN  /\ call[r].pc = "Freeze"
        /\ \/ /\ call[r].ver # Len(log)
              /\ SubmitRetries(r)
              /\ UNCHANGED <<log, pending, record, latest, history>>
           \/ /\ call[r].ver = Len(log) /\ ~Fresh(r)
              /\ call' = [call EXCEPT ![r].pc = "Failed"]
              /\ UNCHANGED <<log, pending, record, latest, history>>
           \/ /\ call[r].ver = Len(log) /\ Fresh(r)
              /\ SelectPending(queue, Boundary[r], r) # sel
              /\ RolledBack(queue)
              /\ SubmitRetries(r)
              /\ UNCHANGED <<log, record, latest, history>>
           \/ /\ call[r].ver = Len(log) /\ Fresh(r)
              /\ SelectPending(queue, Boundary[r], r) = sel /\ ~AppendOnly(sel)
              /\ RolledBack(queue)
              /\ call' = [call EXCEPT ![r].pc = "Failed"]
              /\ UNCHANGED <<log, record, latest, history>>
           \/ /\ call[r].ver = Len(log) /\ Fresh(r)
              /\ SelectPending(queue, Boundary[r], r) = sel /\ AppendOnly(sel)
              /\ Freeze(queue, sel, r, Merge(record[r].input, sel))
              /\ call' = [call EXCEPT ![r].pc = "Frozen"]
        /\ UNCHANGED InCall

(***************************************************************************)
(* Live steering (live_delivery.rs) and direct deliveries.                 *)
(***************************************************************************)
InDelivery == <<backend, actors, log, record, latest, call, loop, editor, commit>>

Open(r) == loop[r].pc \notin {"Idle", "Ended"}

(* try_deliver_live_messages: stage the message for the active run *)
SteerDelivers(v, r) ==
    /\ steer[v].pc = "Idle" /\ Open(r)
    /\ Fresh(v)
    /\ AppendPending(v, SteerMode(r))
    /\ steer' = [steer EXCEPT ![v] = [pc |-> "Staged", target |-> r]]
    /\ UNCHANGED <<history, InDelivery>>

(* No run to steer: the message is queued like any other. *)
SteerFindsNoRun(v) ==
    /\ steer[v].pc = "Idle" /\ \A r \in Runs : ~Open(r)
    /\ steer' = [steer EXCEPT ![v].pc = "Queued"]
    /\ UNCHANGED <<pending, history, InDelivery>>

(* wake_pending_boundary: the loop still holds its inbox *)
SteerWakes(v) ==
    /\ steer[v].pc = "Staged" /\ Open(steer[v].target)
    /\ steer' = [steer EXCEPT ![v].pc = "Accepted"]
    /\ history' = [history EXCEPT !.ok = @ \cup {v}]
    /\ UNCHANGED <<pending, InDelivery>>

(* retract_pending_message_record: Postgres gives the remaining messages a *)
(* new revision with their new position.                                   *)
Retract(id) ==
    LET rest == Without(pending, {id})
    IN  pending' = IF backend = "memory" \/ id \notin Waiting THEN rest
                   ELSE [i \in DOMAIN rest |-> [rest[i] EXCEPT !.rev = @ + 1]]

(* The run has ended: cleanup_appended_pending_messages takes the message  *)
(* back unless it was consumed, and it is queued.  A clean-up that fails is *)
(* only warned of: the message stays pending, and is queued all the same.  *)
SteerMissesRun(v) ==
    /\ steer[v].pc = "Staged" /\ ~Open(steer[v].target)
    /\ Retract(v) \/ UNCHANGED pending
    /\ steer' = [steer EXCEPT ![v].pc = "Queued"]
    /\ UNCHANGED <<history, InDelivery>>

(* append_pending_message_records, called directly *)
Deliver(x) ==
    /\ x \notin history.ok /\ Fresh(x)
    /\ AppendPending(x, ExtraMode[x])
    /\ history' = [history EXCEPT !.ok = @ \cup {x}]
    /\ UNCHANGED <<steer, InDelivery>>

(***************************************************************************)
(* The agent loop: steps, checkpoints, boundary freezes (orchestrator.rs,   *)
(* loop_runner/checkpoint.rs, pending_delivery.rs).                        *)
(***************************************************************************)
InLoop == <<backend, actors, call, steer, editor>>

(* The dispatch is claimed; ThreadContext caches the record of the latest  *)
(* run, and the loop keeps that snapshot to its end.  Recovery enqueues a  *)
(* run whose submission failed to.                                         *)
RunBegins(r) ==
    /\ loop[r].pc = "Idle" /\ record[r].status = "Created"
    /\ \A q \in Runs : ~Open(q)
    /\ loop' = [loop EXCEPT ![r].pc = "Step",
                  ![r].cache = IF latest = r THEN record[r] ELSE NoRecord]
    /\ UNCHANGED <<log, pending, record, latest, commit, history, InLoop>>

(* A step of inference adds one message; it is to be followed by another   *)
(* step, or the model has ended its turn.                                  *)
StepEnds(r) ==
    /\ loop[r].pc = "Step" /\ loop[r].steps < MaxSteps
    /\ \E b \in {"NextStep", "OnNaturalEnd"} :
         loop' = [loop EXCEPT ![r].pc = "Save", ![r].boundary = b, ![r].tries = 0,
                    ![r].steps = @ + 1,
                    ![r].output = Append(@, [id |-> <<r, loop[r].steps + 1>>, text |-> 0])]
    /\ UNCHANGED <<log, pending, record, latest, commit, history, InLoop>>

(* A cancelled run does not pass the natural end. *)
StepCancelled(r) ==
    /\ loop[r].pc = "Step"
    /\ loop' = [loop EXCEPT ![r].pc = "Save", ![r].boundary = "Final", ![r].tries = 0]
    /\ UNCHANGED <<log, pending, record, latest, commit, history, InLoop>>

(* persist_checkpoint: the previous record comes from the cache if it has   *)
(* one; commit_checkpoint_appending reads the version.                     *)
SaveReads(r) ==
    /\ loop[r].pc = "Save"
    /\ loop' = [loop EXCEPT ![r].pc = "Commit", ![r].ver = Len(log),
                  ![r].prior = CASE loop[r].tries > 0 -> @
                                 [] loop[r].tries = 0 /\ loop[r].cache # NoRecord ->
                                      loop[r].cache.input
                                 [] OTHER -> record[r].input]
    /\ UNCHANGED <<log, pending, record, latest, commit, history, InLoop>>

SaveRetries(r) ==
    loop' = [loop EXCEPT ![r].tries = @ + 1,
               ![r].pc = IF loop[r].tries + 1 < MaxAttempts THEN "Save" ELSE "Ended"]

(* checkpoint_append, checkpoint_append_in_tx *)
AppendOutput(r) == loop[r].ver = Len(log) /\ log' = log \o loop[r].output

CheckpointWritten(r) ==
    /\ AppendOutput(r)
    /\ record' = [record EXCEPT ![r] =
         [status |-> IF loop[r].boundary = "Final" THEN "Done" ELSE "Running",
          input |-> loop[r].prior]]
    /\ latest' = r
    /\ loop' = [loop EXCEPT ![r].output = << >>, ![r].tries = 0,
                  ![r].pc = IF loop[r].boundary = "Final" THEN "Ended" ELSE "Version"]

(* PgCommitCoordinator: one transaction *)
CommitInTransaction(r) ==
    /\ backend = "postgres" /\ loop[r].pc = "Commit"
    /\ \/ CheckpointWritten(r)
       \/ /\ loop[r].ver # Len(log)
          /\ SaveRetries(r)
          /\ UNCHANGED <<log, record, latest>>
    /\ UNCHANGED <<pending, commit, history, InLoop>>

(***************************************************************************)
(* MemoryCommitCoordinator: under its commit lock it takes a snapshot of    *)
(* the store, appends, and on a failure puts the snapshot back.  It copies  *)
(* and restores runs, messages and pending messages each under a lock of   *)
(* its own, and the calls of others come in between.                       *)
(***************************************************************************)
CommitAt(r, stage) == commit.holder = r /\ commit.stage = stage

SnapshotRuns(r) ==
    /\ backend = "memory" /\ loop[r].pc = "Commit"
    /\ commit.holder = NoRun
    /\ commit' = [holder |-> r, stage |-> "Messages", record |-> record,
                  log |-> << >>, pending |-> << >>]
    /\ UNCHANGED <<log, pending, record, latest, loop, history, InLoop>>

SnapshotMessages(r) ==
    /\ CommitAt(r, "Messages")
    /\ commit' = [commit EXCEPT !.stage = "Pending", !.log = log]
    /\ UNCHANGED <<log, pending, record, latest, loop, history, InLoop>>

SnapshotPending(r) ==
    /\ CommitAt(r, "Pending")
    /\ commit' = [commit EXCEPT !.stage = "Append", !.pending = pending]
    /\ UNCHANGED <<log, pending, record, latest, loop, history, InLoop>>

CommitAppends(r) ==
    /\ CommitAt(r, "Append") /\ CheckpointWritten(r)
    /\ commit' = Unlocked
    /\ UNCHANGED <<pending, history, InLoop>>

CommitFails(r) ==
    /\ CommitAt(r, "Append") /\ loop[r].ver # Len(log)
    /\ commit' = [commit EXCEPT !.stage = "RestoreRuns"]
    /\ UNCHANGED <<log, pending, record, latest, loop, history, InLoop>>

RestoreRuns(r) ==
    /\ CommitAt(r, "RestoreRuns")
    /\ record' = commit.record
    /\ commit' = [commit EXCEPT !.stage = "RestoreMessages"]
    /\ UNCHANGED <<log, pending, latest, loop, history, InLoop>>

RestoreMessages(r) ==
    /\ CommitAt(r, "RestoreMessages")
    /\ log' = commit.log
    /\ commit' = [commit EXCEPT !.stage = "RestorePending"]
    /\ UNCHANGED <<pending, record, latest, loop, history, InLoop>>

RestorePending(r) ==
    /\ CommitAt(r, "RestorePending")
    /\ pending' = commit.pending
    /\ SaveRetries(r)
    /\ commit' = Unlocked
    /\ UNCHANGED <<log, record, latest, history, InLoop>>

InMemory(r) ==
    \/ SnapshotRuns(r) \/ SnapshotMessages(r) \/ SnapshotPending(r) \/ CommitAppends(r)
    \/ CommitFails(r) \/ RestoreRuns(r) \/ RestoreMessages(r) \/ RestorePending(r)

(* freeze_pending_boundary: load the run record, then the version *)
BoundaryReads(r) ==
    /\ loop[r].pc = "Version"
    /\ loop' = [loop EXCEPT ![r].pc = "Select", ![r].ver = Len(log),
                  ![r].prior = IF loop[r].tries = 0 THEN record[r].input ELSE @]
    /\ UNCHANGED <<log, pending, record, latest, commit, history, InLoop>>

(* Nothing to freeze: the next step, or the run is done. *)
BoundarySelects(r) ==
    /\ loop[r].pc = "Select"
    /\ LET sel == SelectPending(pending, loop[r].boundary, r)
       IN  loop' = [loop EXCEPT ![r].sel = sel,
             ![r].pc = CASE sel # << >> -> "Freeze"
                         [] sel = << >> /\ loop[r].boundary = "NextStep" -> "Step"
                         [] OTHER -> "Save",
             ![r].boundary = IF sel = << >> /\ @ = "OnNaturalEnd" THEN "Final" ELSE @,
             ![r].tries = IF sel = << >> THEN 0 ELSE @]
    /\ UNCHANGED <<log, pending, record, latest, commit, history, InLoop>>

(* Mutant: a failed attempt has already put its ids in the record. *)
PriorAfterConflictKept(r) == Merge(loop[r].prior, loop[r].sel)

(* The record keeps what it had before the first attempt. *)
PriorAfterConflict(r) == loop[r].prior

BoundaryRetries(r) ==
    loop' = [loop EXCEPT ![r].tries = @ + 1, ![r].prior = PriorAfterConflict(r),
               ![r].pc = IF loop[r].tries + 1 < MaxAttempts THEN "Version" ELSE "Ended"]

(* freeze_pending_message_records_with_run *)
BoundaryFreezes(r) ==
    LET now == SelectPending(pending, loop[r].boundary, r)
        sel == loop[r].sel
    IN  /\ loop[r].pc = "Freeze"
        /\ \/ /\ loop[r].ver # Len(log) \/ now # sel
              /\ BoundaryRetries(r)
              /\ UNCHANGED <<log, pending, record, latest, history>>
           \/ /\ loop[r].ver = Len(log) /\ now = sel /\ ~AppendOnly(sel)
              /\ loop' = [loop EXCEPT ![r].pc = "Ended"]
              /\ UNCHANGED <<log, pending, record, latest, history>>
           \/ /\ loop[r].ver = Len(log) /\ now = sel /\ AppendOnly(sel)
              /\ Freeze(pending, sel, r, Merge(loop[r].prior, sel))
              /\ loop' = [loop EXCEPT ![r].pc = "Step", ![r].tries = 0]
        /\ UNCHANGED <<commit, InLoop>>

(***************************************************************************)
(* Clients that edit what is pending: they read the queue, and edit under   *)
(* the revision they saw.                                                  *)
(***************************************************************************)
InEdit == <<backend, actors, log, record, latest, call, steer, loop, commit>>

EditorReads(e) ==
    /\ editor[e].pc = "Idle" /\ pending # << >>
    /\ editor' = [editor EXCEPT ![e] = [pc |-> "Edit", view |-> pending]]
    /\ UNCHANGED <<pending, history, InEdit>>

Edited(e) == editor' = [editor EXCEPT ![e].pc = "Done"]

(* Mutant: the message is found, its revision is not compared. *)
RevisionHoldsForId(m) == m.id \in Waiting

(* The record the client saw is pending, at the revision it saw. *)
RevisionHolds(m) ==
    m.id \in Waiting /\ pending[Position(pending, m.id)].rev = m.rev

(* update_pending_message_record_checked: the client writes the text it     *)
(* made from the one it read.                                              *)
EditorUpdates(e) ==
    /\ editor[e].pc = "Edit"
    /\ \E m \in Range(editor[e].view) :
         /\ RevisionHolds(m)
         /\ pending' = [pending EXCEPT ![Position(pending, m.id)].text = m.text + 1,
                                       ![Position(pending, m.id)].rev = @ + 1]
         /\ history' = [history EXCEPT !.edits[m.id] = @ + 1]
    /\ Edited(e) /\ UNCHANGED InEdit

(* retract_pending_message_record_checked *)
EditorRetracts(e) ==
    /\ editor[e].pc = "Edit"
    /\ \E m \in Range(editor[e].view) :
         /\ RevisionHolds(m)
         /\ Retract(m.id)
         /\ history' = [history EXCEPT !.gone = @ \cup {m.id}]
    /\ Edited(e) /\ UNCHANGED InEdit

(* pending_queue_revision: the ids and revisions, in their order *)
QueueRevisionHolds(queue) ==
    [i \in DOMAIN queue |-> <<queue[i].id, queue[i].rev>>]
      = [i \in DOMAIN pending |-> <<pending[i].id, pending[i].rev>>]

(* reorder_pending_message_records_checked: here, the reverse order *)
EditorReorders(e) ==
    /\ editor[e].pc = "Edit"
    /\ QueueRevisionHolds(editor[e].view)
    /\ LET queue == Reverse(pending)
       IN  pending' = [i \in DOMAIN queue |-> [queue[i] EXCEPT !.rev = @ + 1]]
    /\ Edited(e) /\ UNCHANGED <<history, InEdit>>

(* VersionConflict, already consumed or not found *)
EditorRefused(e) ==
    /\ editor[e].pc = "Edit"
    /\ \E m \in Range(editor[e].view) : ~RevisionHolds(m)
    /\ Edited(e) /\ UNCHANGED <<pending, history, InEdit>>

Submission(r) ==
    SubmitBegins(r) \/ SubmitReadsVersion(r) \/ SubmitSelects(r) \/ SubmitFreezes(r)

Steering(v) ==
    \/ \E r \in Runs : SteerDelivers(v, r)
    \/ SteerFindsNoRun(v) \/ SteerWakes(v) \/ SteerMissesRun(v)

AgentLoop(r) ==
    \/ RunBegins(r) \/ StepEnds(r) \/ StepCancelled(r) \/ SaveReads(r)
    \/ CommitInTransaction(r) \/ InMemory(r)
    \/ BoundaryReads(r) \/ BoundarySelects(r) \/ BoundaryFreezes(r)

Editing(e) ==
    \/ EditorReads(e) \/ EditorUpdates(e) \/ EditorRetracts(e)
    \/ EditorReorders(e) \/ EditorRefused(e)

Next ==
    \/ \E r \in Runs \cap actors : Submission(r) \/ AgentLoop(r)
    \/ \E v \in Steers \cap actors : Steering(v)
    \/ \E x \in Extras \cap actors : Deliver(x)
    \/ \E e \in Editors \cap actors : Editing(e)

Spec == Init /\ [][Next]_vars

(***************************************************************************)
(* Properties.                                                             *)
(***************************************************************************)
(* Every variable keeps its type: the log holds messages and outputs of    *)
(* runs, the queue holds pending records with revisions from 1, run inputs  *)
(* are sequences of message ids.                                           *)
MessagesTypeOK ==
    /\ backend \in {"postgres", "memory"}
    /\ \A m \in Range(log) : m.id \in Inputs \cup (Runs \X (1 .. MaxSteps)) /\ m.text \in Nat
    /\ \A m \in Range(pending) : m.id \in Inputs /\ m.text \in Nat /\ m.rev \in Nat \ {0}
    /\ \A r \in Runs : /\ record[r].status \in {"None", "Created", "Running", "Done"}
                       /\ Range(record[r].input) \subseteq Inputs
                       /\ call[r].tries \in 0 .. MaxAttempts
                       /\ loop[r].tries \in 0 .. MaxAttempts
    /\ latest \in Runs \cup {NoRun}

FellBack(m) == m \in Steers /\ steer[m].pc = "Queued"

Zones(m) == Cardinality({i \in DOMAIN log : log[i].id = m})
              + Cardinality({i \in DOMAIN pending : pending[i].id = m})

(* On Postgres no message is in the log and the queue at once, or in one of *)
(* them twice, and one whose delivery the store acknowledged is in one of   *)
(* them, through concurrent freezes, retries, steering fall-backs and edits;*)
(* one whose retraction was acknowledged is in neither, unless it was staged*)
(* as steering, missed its run and is submitted again.                      *)
ExactlyOnce ==
    backend = "postgres" =>
      \A m \in Inputs :
        /\ Zones(m) <= 1
        /\ m \in history.ok \ history.gone => Zones(m) = 1
        /\ m \in history.gone /\ ~FellBack(m) => Zones(m) = 0

(* A run record never claims an input that is not in the log, also after   *)
(* an attempt that lost the race and was retried with another selection.   *)
InputIsCommitted ==
    backend = "postgres" =>
      \A r \in Runs : Range(record[r].input) \subseteq Committed

ModeOf(m) == IF m \in Extras THEN ExtraMode[m] ELSE SteerMode(steer[m].target)

(* Steering meant for one run is never consumed by another: not by the     *)
(* foreground submission that interrupts, nor by the next run's boundaries. *)
TargetRespected ==
    \A m \in Steers \cup Extras :
      /\ m \in Steers => steer[m].pc \in {"Staged", "Accepted"}
      /\ ModeOf(m).target # NoRun /\ ~ModeOf(m).fallback
      => history.taker[m] \in {NoRun, ModeOf(m).target}

(* A barrier is not overtaken: when a barrier message is consumed, no      *)
(* message that was ahead of it in the queue stays behind.                 *)
BarrierHeld ==
    [][\A i, j \in DOMAIN pending :
         /\ i < j /\ pending[j].mode.barrier
         /\ pending[j].id \in Ids(log') \ Committed
         => pending[i].id \notin Ids(pending')]_vars

(* On Postgres no acknowledged edit is lost: the text of a message, pending *)
(* or committed, carries every update that was answered with success, for   *)
(* any number of clients and whatever moves, retracts or freezes the        *)
(* messages around it.  A message that missed its run is staged anew, with *)
(* revisions that start again, and is left out (see EditsDoNotClobber).     *)
NoLostEdit ==
    backend = "postgres" => \A m \in Range(log) \cup Range(pending) :
      m.id \in Inputs /\ ~FellBack(m.id) => m.text = history.edits[m.id]

(* A failed freeze leaves no orphan: a message is not pending once its     *)
(* submission has failed (memory/tests.rs "A freeze-side failure must roll  *)
(* the append back").                                                      *)
NoOrphanPending ==
    \A r \in Runs \ Steers : call[r].pc = "Failed" => r \notin Waiting

(* An update that is accepted replaces a text its client has read          *)
(* (pending_delivery.rs "concurrent edits cannot silently clobber each      *)
(* other"), also after the message missed its run and was queued again.    *)
EditsDoNotClobber ==
    [][\A e \in Editors, i \in DOMAIN pending \cap DOMAIN pending' :
         /\ editor'[e] # editor[e]
         /\ pending'[i].id = pending[i].id /\ pending'[i].text # pending[i].text
         => \E seen \in Range(editor[e].view) :
              seen.id = pending[i].id /\ seen.text = pending[i].text]_vars

(* Committed messages are immutable (ADR-0042): no step takes one away.    *)
CommittedStays == [][Committed \subseteq Ids(log')]_vars

=============================================================================
