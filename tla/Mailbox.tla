------------------------------ MODULE Mailbox ------------------------------
(***************************************************************************)
(* The mailbox service (awaken-server, mailbox/*.rs): one server process   *)
(* that turns submissions into runs of the agent runtime, over the durable *)
(* queue of MailboxStore and the durable run records.                      *)
(*                                                                         *)
(* The process is a set of tokio tasks that share the worker map.  Every   *)
(* store call and every section under a worker's lock is one action, so    *)
(* tasks interleave at each await:                                         *)
(*   submits   submit (Foreground) and submit_background (the others);     *)
(*   wakes     calls of try_dispatch_next, whoever made them;              *)
(*   exec      run_claimed_dispatch, one task per claim token;             *)
(*   renewal   the lease renewal tasks, one per claim token;               *)
(*   swept     run_sweep, gcIdle gc_idle_workers, recovery recover.        *)
(* A crash loses all of them; the store and the run records survive.       *)
(* Other processes sharing the store are not modelled here: MailboxStore   *)
(* takes calls from anyone.                                                *)
(***************************************************************************)
EXTENDS Naturals, FiniteSets

CONSTANTS
    Threads,        \* thread ids
    DispatchIds,    \* submissions; a run created for d is named d as well
    Foreground,     \* those made by submit, the others by submit_background
    ThreadOf,       \* the thread each one names
    Outcomes,       \* how the runtime may end a run that nobody cancels
    MaxAttempts,    \* MailboxConfig::default_max_attempts
    MaxToken,       \* bound: claims
    MaxEpoch,       \* bound: interrupts per thread
    MaxCrashes,     \* bound: crashes of the process
    MaxFaults,      \* bound: store calls that return an error
    MaxTroubles,    \* bound: both together
    MaxPurges,      \* bound: dispatches purged by GC
    MaxControls     \* bound: calls of cancel and interrupt

ASSUME MailboxAssumption ==
    /\ IsFiniteSet(DispatchIds) /\ DispatchIds # {}
    /\ Threads # {}
    /\ MaxAttempts \in Nat \ {0}
    /\ {MaxToken, MaxEpoch} \subseteq Nat
    /\ Foreground \subseteq DispatchIds
    /\ ThreadOf \in [DispatchIds -> Threads]
    /\ Outcomes \subseteq {"Natural", "Suspended", "Transient", "Permanent", "Phase"}

VARIABLES
    dispatches, epoch, lastToken,   \* the store
    runs,           \* ThreadRunStore: the run records
    runOf,          \* RunDispatch::run_id
    submits,        \* submission tasks
    wakes,          \* per thread, try_dispatch_next calls by where they are
    workers,        \* Mailbox::workers
    exec,           \* execution tasks
    renewal,        \* tokens whose lease renewal task is alive
    active,         \* ActiveRunRegistry: per thread the token of the active run, or 0
    cancelled,      \* tokens whose runtime run has been told to cancel
    marking,        \* dispatches cancel or interrupt still has to mark a run for
    stopping,       \* threads whose active run interrupt still has to stop
    swept,          \* what the sweep has reclaimed and not yet handled
    gcIdle,         \* idle threads gc_idle_workers found without work
    recovery,       \* startup recovery
    spent           \* bound counters

storeVars   == <<dispatches, epoch, lastToken>>
runVars     == <<runs, runOf>>
workerVars  == <<wakes, workers>>
execVars    == <<exec, renewal>>
runtimeVars == <<active, cancelled>>
maintVars   == <<marking, stopping, swept, gcIdle, recovery, spent>>
vars == <<storeVars, runVars, submits, workerVars, execVars, runtimeVars, maintVars>>

Store == INSTANCE MailboxStore WITH
    DedupeKeys <- {}, NoKey <- "NoKey", Priorities <- {0}, Stamps <- {0}, ClaimLimit <- 1,
    EnqueuedAttempts <- {0}

Tokens == 1..MaxToken
Ended  == {"Completed", "Cancelled", "Errored"}       \* RunStatus::Done, with its reason
Worker(st, tok) == [st |-> st, tok |-> tok]           \* MailboxWorkerStatus; "Gone" is no entry

-----------------------------------------------------------------------------
(* Helpers.                                                                *)

Status(d) == dispatches[d].status
T(tok) == ThreadOf[exec[tok].d]

\* The claim is still the task's own; a store call made under it also succeeds
\* unless an interrupt has overtaken the dispatch.
Holds(tok)   == Status(exec[tok].d) = "Claimed" /\ dispatches[exec[tok].d].claim_token = tok
Granted(tok) == Holds(tok) /\ ~Store!Stale(exec[tok].d)

\* mark_dispatch_run_cancelled_inner and mark_dead_letter_dispatch_run_error_inner:
\* a run that is done, or missing, is left alone.
Marked(d, s) ==
    LET r == runOf[d]
    IN  IF runs[r].status \in Ended \cup {"None"} THEN runs
        ELSE [runs EXCEPT ![r] = [status |-> s, dispatch |-> d]]

\* Mutant: dead letters are forgotten.
ReconciledUnlessDead(d, s) ==
    IF s \in {"Cancelled", "Superseded"} THEN Marked(d, "Cancelled") ELSE runs

\* reconcile_terminal_dispatch for a dispatch read with status s: live and acked
\* ones are left alone.
Reconciled(d, s) ==
    CASE s = "DeadLetter"                  -> Marked(d, "Errored")
      [] s \in {"Cancelled", "Superseded"} -> Marked(d, "Cancelled")
      [] OTHER                             -> runs

\* get_or_create_worker, then a call of try_dispatch_next.
Created(t) == IF workers[t].st = "Gone" THEN Worker("Idle", 0) ELSE workers[t]
Wake(S) ==
    /\ workers' = [t \in Threads |-> IF t \in S THEN Created(t) ELSE workers[t]]
    /\ wakes' = [t \in Threads |-> IF t \in S THEN [wakes[t] EXCEPT !.try = @ + 1] ELSE wakes[t]]

NoTask == [pc |-> "None", d |-> CHOOSE d \in DispatchIds : TRUE, out |-> "None", recorded |-> FALSE,
           seen |-> "None"]

\* Mutant: nobody renews the lease.
SpawnWithoutRenewal(d) ==
    /\ exec' = [exec EXCEPT ![lastToken'] = [NoTask EXCEPT !.pc = "Install", !.d = d]]
    /\ UNCHANGED renewal

\* A claim succeeded: its renewal task is spawned, its execution task about to be.
Spawn(d) ==
    /\ exec' = [exec EXCEPT ![lastToken'] = [NoTask EXCEPT !.pc = "Install", !.d = d]]
    /\ renewal' = renewal \cup {lastToken'}

-----------------------------------------------------------------------------
(* submit and submit_background.                                           *)

\* A store call returns an error, within the bounds on what goes wrong.
MayFail == spent.faults < MaxFaults /\ spent.crashes + spent.faults < MaxTroubles

Submit(pc) == [pc |-> pc, superseded |-> {}, claim |-> {}]
Goto(d, pc) == submits' = [submits EXCEPT ![d] = Submit(pc)]

\* submit, step 1: bump the epoch, supersede what is queued.
SubmitInterrupt(d) ==
    LET t == ThreadOf[d]
        claimed == Store!Of(t, "Claimed")
    IN  /\ submits[d].pc = "New" /\ d \in Foreground
        /\ Store!Interrupt(t)
        /\ submits' = [submits EXCEPT ![d] = [pc |-> "Mark", superseded |-> Store!Of(t, "Queued"),
                                              claim |-> claimed]]
        /\ UNCHANGED <<runVars, workerVars, execVars, runtimeVars, maintVars>>

\* The interrupt returns an error: cancel_and_wait_by_thread instead, which
\* fails without an active run, and gives up after CANCEL_WAIT_TIMEOUT.
SubmitInterruptFault(d) ==
    LET a == active[ThreadOf[d]]
    IN  /\ submits[d].pc = "New" /\ d \in Foreground
        /\ MayFail
        /\ IF a = 0 THEN Goto(d, "Rejected") /\ UNCHANGED cancelled
           ELSE /\ submits' = [submits EXCEPT ![d].pc = "Stop", ![d].claim = {exec[a].d}]
                /\ cancelled' = cancelled \cup {a}
        /\ spent' = [spent EXCEPT !.faults = @ + 1]
        /\ UNCHANGED <<storeVars, runVars, workerVars, execVars, active,
                       marking, stopping, swept, gcIdle, recovery>>
SubmitStop(d) ==
    LET a == active[ThreadOf[d]]
    IN  /\ submits[d].pc = "Stop"
        /\ \/ (a # 0 => exec[a].d \notin submits[d].claim) /\ Goto(d, "Prepare")
           \/ Goto(d, "Rejected")
        /\ UNCHANGED <<storeVars, runVars, workerVars, execVars, runtimeVars, maintVars>>

\* mark_superseded_dispatch_run_cancelled for each of them.
SubmitMark(d) ==
    /\ submits[d].pc = "Mark"
    /\ IF submits[d].superseded = {}
       THEN /\ submits' = [submits EXCEPT ![d].pc = IF submits[d].claim = {} THEN "Prepare" ELSE "Cancel"]
            /\ UNCHANGED runs
       ELSE \E x \in submits[d].superseded :
              /\ runs' = Marked(x, "Cancelled")
              /\ submits' = [submits EXCEPT ![d].superseded = @ \ {x}]
    /\ UNCHANGED <<storeVars, runOf, workerVars, execVars, runtimeVars, maintVars>>

\* cancel_active_dispatch: without an active run in the runtime there is nobody
\* to tell, and the submission is refused.
SubmitCancel(d) ==
    LET a == active[ThreadOf[d]]
    IN  /\ submits[d].pc = "Cancel"
        /\ IF a = 0 THEN Goto(d, "Rejected") ELSE submits' = [submits EXCEPT ![d].pc = "Release"]
        /\ cancelled' = IF a = 0 THEN cancelled ELSE cancelled \cup {a}
        /\ UNCHANGED <<storeVars, runVars, workerVars, execVars, active, maintVars>>

\* wait_for_dispatch_not_claimed, or its timeout.
SubmitRelease(d) ==
    /\ submits[d].pc = "Release"
    /\ \/ /\ \A x \in submits[d].claim : Status(x) # "Claimed"
          /\ Goto(d, "Prepare")
       \/ Goto(d, "Rejected")
    /\ UNCHANGED <<storeVars, runVars, workerVars, execVars, runtimeVars, maintVars>>

\* prepare_run_for_dispatch: the waiting run of the thread, or a new one.
SubmitPrepare(d) ==
    LET waiting == {r \in DispatchIds : runs[r].status = "Waiting" /\ ThreadOf[r] = ThreadOf[d]}
        r == IF waiting = {} THEN d ELSE CHOOSE w \in waiting : TRUE
    IN  /\ submits[d].pc = IF d \in Foreground THEN "Prepare" ELSE "New"
        /\ runs' = [runs EXCEPT ![r] = [status |-> IF r = d THEN "Created" ELSE "Waiting",
                                        dispatch |-> d]]
        /\ runOf' = [runOf EXCEPT ![d] = r]
        /\ Goto(d, "Enqueue")
        /\ UNCHANGED <<storeVars, workerVars, execVars, runtimeVars, maintVars>>

\* The WAL write.  A foreground dispatch is hidden from claims for
\* INLINE_CLAIM_GUARD_MS.
SubmitEnqueue(d) ==
    /\ submits[d].pc = "Enqueue"
    /\ Store!Enqueue(d, ThreadOf[d], 0, "NoKey", 0, IF d \in Foreground THEN "Later" ELSE "Due", 0)
    /\ Goto(d, IF d \in Foreground THEN "Inline" ELSE "Wake")
    /\ UNCHANGED <<runVars, workerVars, execVars, runtimeVars, maintVars>>

\* submit_background: wake the thread's worker and return.
SubmitWake(d) ==
    /\ submits[d].pc = "Wake"
    /\ Wake({ThreadOf[d]})
    /\ Goto(d, "Accepted")
    /\ UNCHANGED <<storeVars, runVars, execVars, runtimeVars, maintVars>>

\* submit: the inline claim_dispatch.
SubmitInline(d) ==
    LET free == Status(d) = "Queued" /\ Store!Of(ThreadOf[d], "Claimed") = {}
    IN  /\ submits[d].pc = "Inline"
        /\ IF Status(d) = "Queued" /\ (Store!Stale(d) \/ free)
           THEN Store!ClaimDispatch(d)
           ELSE UNCHANGED storeVars
        /\ IF free /\ ~Store!Stale(d)
           THEN Spawn(d) /\ Goto(d, "Accepted")
           ELSE Goto(d, "Undo") /\ UNCHANGED <<execVars>>
        /\ UNCHANGED <<runVars, workerVars, runtimeVars, maintVars>>

\* Mutant: the dispatch is left in the queue.
SubmitUndoNothing(d) ==
    /\ submits[d].pc = "Undo"
    /\ Goto(d, "UndoMark")
    /\ UNCHANGED <<storeVars, runVars, workerVars, execVars, runtimeVars, maintVars>>

\* The claim came back empty: cancel the dispatch so that it cannot linger.
SubmitUndo(d) ==
    /\ submits[d].pc = "Undo"
    /\ IF Status(d) = "Queued" THEN Store!Cancel(d) ELSE UNCHANGED storeVars
    /\ Goto(d, "UndoMark")
    /\ UNCHANGED <<runVars, workerVars, execVars, runtimeVars, maintVars>>

SubmitUndoMark(d) ==
    /\ submits[d].pc = "UndoMark"
    /\ runs' = Reconciled(d, Status(d))
    /\ Goto(d, "Rejected")
    /\ UNCHANGED <<storeVars, runOf, workerVars, execVars, runtimeVars, maintVars>>

\* The commit, the enqueue, the inline claim or its undo returns an error.
SubmitFault(d) ==
    /\ submits[d].pc \in {"Prepare", "Enqueue", "Inline", "Undo"}
    /\ MayFail
    /\ Goto(d, "Rejected")
    /\ spent' = [spent EXCEPT !.faults = @ + 1]
    /\ UNCHANGED <<storeVars, runVars, workerVars, execVars, runtimeVars,
                   marking, stopping, swept, gcIdle, recovery>>

SubmitStep(d) ==
    \/ SubmitInterrupt(d) \/ SubmitStop(d) \/ SubmitMark(d) \/ SubmitCancel(d) \/ SubmitRelease(d)
    \/ SubmitPrepare(d) \/ SubmitEnqueue(d) \/ SubmitWake(d)
    \/ SubmitInline(d) \/ SubmitUndo(d) \/ SubmitUndoMark(d)

-----------------------------------------------------------------------------
(* try_dispatch_next.                                                      *)

\* Idle -> Claiming under the worker's lock; a missing or a busy worker ends
\* the call.
WakeTry(t) ==
    LET idle == workers[t].st = "Idle"
    IN  /\ wakes[t].try > 0
        /\ wakes' = [wakes EXCEPT ![t].try = @ - 1, ![t].claim = IF idle THEN @ + 1 ELSE @]
        /\ workers' = IF idle THEN [workers EXCEPT ![t] = Worker("Claiming", 0)] ELSE workers
        /\ UNCHANGED <<storeVars, runVars, submits, execVars, runtimeVars, maintVars>>

\* dispatch_next_claim: claim with limit 1.
WakeClaim(t) ==
    /\ wakes[t].claim > 0
    /\ \E S \in SUBSET DispatchIds :
         /\ Store!Claim(t, S)
         /\ IF S = {}
            THEN /\ wakes' = [wakes EXCEPT ![t].claim = @ - 1, ![t].revert = @ + 1]
                 /\ UNCHANGED execVars
            ELSE /\ wakes' = [wakes EXCEPT ![t].claim = @ - 1]
                 /\ \E d \in S : Spawn(d)
    /\ UNCHANGED <<runVars, submits, workers, runtimeVars, maintVars>>

\* Mutant: the worker is left Claiming.
WakeRevertNothing(t) ==
    /\ wakes[t].revert > 0
    /\ wakes' = [wakes EXCEPT ![t].revert = @ - 1]
    /\ UNCHANGED <<storeVars, runVars, submits, workers, execVars, runtimeVars, maintVars>>

\* revert_claiming_to_idle: only if still Claiming.
WakeRevert(t) ==
    /\ wakes[t].revert > 0
    /\ wakes' = [wakes EXCEPT ![t].revert = @ - 1]
    /\ workers' = IF workers[t].st = "Claiming"
                  THEN [workers EXCEPT ![t] = Worker("Idle", 0)] ELSE workers
    /\ UNCHANGED <<storeVars, runVars, submits, execVars, runtimeVars, maintVars>>

\* The claim returns an error.
WakeFault(t) ==
    /\ wakes[t].claim > 0 /\ MayFail
    /\ wakes' = [wakes EXCEPT ![t].claim = @ - 1, ![t].revert = @ + 1]
    /\ spent' = [spent EXCEPT !.faults = @ + 1]
    /\ UNCHANGED <<storeVars, runVars, submits, workers, execVars, runtimeVars,
                   marking, stopping, swept, gcIdle, recovery>>

WakeStep(t) == WakeTry(t) \/ WakeClaim(t) \/ WakeRevert(t)

-----------------------------------------------------------------------------
(* run_claimed_dispatch.                                                   *)

At(tok, pc) == exec[tok].pc = pc
Step(tok, pc) == exec' = [exec EXCEPT ![tok].pc = pc]
RunStatus(tok) == runs[runOf[exec[tok].d]].status
SetRun(tok, s) == [runs EXCEPT ![runOf[exec[tok].d]] = [status |-> s, dispatch |-> exec[tok].d]]

\* The claimer's last step: the worker is Running, whatever it was before, with
\* a cache (ThreadContext) of the thread's latest run.
Install(tok) ==
    /\ At(tok, "Install")
    /\ exec' = [exec EXCEPT ![tok].pc = "Check", ![tok].seen = RunStatus(tok)]
    /\ workers' = [workers EXCEPT ![T(tok)] = Worker("Running", tok)]
    /\ UNCHANGED <<storeVars, runVars, submits, wakes, renewal, runtimeVars, maintVars>>

\* load_dispatch: is the claim still ours?
Check(tok) ==
    /\ At(tok, "Check")
    /\ Step(tok, IF Holds(tok) THEN "Epoch"
                 ELSE IF Status(exec[tok].d) = "Superseded" THEN "Mark" ELSE "Finish")
    /\ UNCHANGED <<storeVars, runVars, submits, workerVars, renewal, runtimeVars, maintVars>>

\* current_dispatch_epoch, and supersede_claimed if an interrupt came first.
\* The epoch compared is the one Check has read: a dispatch superseded since
\* had the older one.  Only a claim of another task is an error.
CheckEpoch(tok) ==
    LET d == exec[tok].d
        stale == Store!Stale(d) \/ Status(d) = "Superseded"
    IN  /\ At(tok, "Epoch")
        /\ Step(tok, IF ~stale THEN "Start"
                     ELSE IF Holds(tok) \/ Status(d) # "Claimed" THEN "Cancel" ELSE "Finish")
        /\ IF stale /\ Holds(tok) THEN Store!SupersedeClaimed(d, tok) ELSE UNCHANGED storeVars
        /\ UNCHANGED <<runVars, submits, workerVars, renewal, runtimeVars, maintVars>>

\* record_dispatch_start.
Start(tok) ==
    LET d == exec[tok].d
    IN  /\ At(tok, "Start")
        /\ IF Holds(tok) THEN Store!RecordDispatchStart(d, tok) ELSE UNCHANGED storeVars
        /\ Step(tok, IF Granted(tok) THEN "Enter"
                     ELSE IF Holds(tok) \/ Status(d) = "Superseded" THEN "Mark" ELSE "Finish")
        /\ UNCHANGED <<runVars, submits, workerVars, renewal, runtimeVars, maintVars>>

\* A run that a later submission has resumed: its activation says HitlResume.
Resumed(r) == \E d \in DispatchIds \ {r} : runOf[d] = r

\* resolve and register_run.  next_root_run_id turns a run away that is neither
\* new nor resumed (InvalidResume, which classify_error calls Completed), by the
\* cached record or, for a run that is not cached, by the stored one.  An
\* occupied slot and a failed resolution are permanent.
Enter(tok) ==
    LET t == T(tok)
        Open(s) == s \in {"Created", "Waiting"} \/ Resumed(runOf[exec[tok].d])
        Fail(out) == /\ exec' = [exec EXCEPT ![tok].pc = "Result", ![tok].out = out, ![tok].seen = "None"]
                     /\ UNCHANGED active
    IN  /\ At(tok, "Enter")
        /\ \E s \in {exec[tok].seen, RunStatus(tok)} :
             \/ ~Open(s) /\ Fail("Done")
             \/ Open(s) /\ active[t] # 0 /\ Fail("Permanent")
             \/ "Permanent" \in Outcomes /\ Fail("Permanent")
             \/ /\ Open(s) /\ active[t] = 0
                /\ exec' = [exec EXCEPT ![tok].pc = "Run", ![tok].seen = "None"]
                /\ active' = [active EXCEPT ![t] = tok]
        /\ UNCHANGED <<storeVars, runVars, submits, workerVars, renewal, cancelled, maintVars>>

\* A step checkpoint of the runtime (complete_step): the record says Running.
RunStep(tok) ==
    /\ At(tok, "Run") /\ RunStatus(tok) # "Running"
    /\ runs' = SetRun(tok, "Running")
    /\ UNCHANGED <<storeVars, runOf, submits, workerVars, execVars, runtimeVars, maintVars>>

\* The runtime returns and its slot is free.  An error, and a cancellation
\* before the first step, return without a checkpoint.
RunEnd(tok) ==
    LET End(s, out) == /\ runs' = SetRun(tok, s)
                       /\ exec' = [exec EXCEPT ![tok].pc = "Result", ![tok].out = out]
    IN  /\ At(tok, "Run")
        /\ active' = [active EXCEPT ![T(tok)] = 0]
        /\ \/ "Natural"   \in Outcomes /\ End("Completed", "Done")
           \/ "Suspended" \in Outcomes /\ End("Waiting", "Waiting")
           \/ "Transient" \in Outcomes /\ End(RunStatus(tok), "Transient")
           \/ "Permanent" \in Outcomes /\ End(RunStatus(tok), "Permanent")
           \/ "Phase"     \in Outcomes /\ End(RunStatus(tok), "Done")
           \/ tok \in cancelled /\ End("Cancelled", "Done")
           \/ tok \in cancelled /\ RunStatus(tok) # "Running" /\ End(RunStatus(tok), "Done")
        /\ cancelled' = cancelled \ {tok}
        /\ UNCHANGED <<storeVars, runOf, submits, workerVars, renewal, maintVars>>

\* record_run_result.
Result(tok) ==
    LET d == exec[tok].d
        rs == IF exec[tok].out = "Waiting" THEN "Waiting" ELSE "Done"
    IN  /\ At(tok, "Result")
        /\ IF Holds(tok) THEN Store!RecordRunResult(d, tok, rs) ELSE UNCHANGED storeVars
        /\ exec' = [exec EXCEPT ![tok].pc = "Settle", ![tok].recorded = Granted(tok)]
        /\ UNCHANGED <<runVars, submits, workerVars, renewal, runtimeVars, maintVars>>

\* Mutant: the claim's owner writes the outcome whatever the epoch.
SettleUnfenced(tok) ==
    LET d == exec[tok].d
    IN  /\ At(tok, "Settle") /\ Step(tok, "Finish")
        /\ dispatches' = IF Holds(tok)
                         THEN [dispatches EXCEPT ![d] = Store!MarkTerminal(@, "Acked")]
                         ELSE dispatches
        /\ UNCHANGED <<epoch, lastToken, runVars, submits, workerVars, renewal, runtimeVars, maintVars>>

\* ack, nack with backoff, or dead_letter and then the run's error.
Settle(tok) ==
    LET d == exec[tok].d
    IN  /\ At(tok, "Settle")
        /\ IF ~Holds(tok) THEN UNCHANGED storeVars
           ELSE CASE exec[tok].out = "Transient" -> Store!Nack(d, tok, "Later")
                  [] exec[tok].out = "Permanent" -> Store!DeadLetter(d, tok)
                  [] OTHER                       -> Store!Ack(d, tok)
        /\ Step(tok, IF exec[tok].out = "Permanent" /\ Granted(tok) THEN "Mark" ELSE "Finish")
        /\ UNCHANGED <<runVars, submits, workerVars, renewal, runtimeVars, maintVars>>

\* recover_completed_ack_after_result_recorded.
AckAgain(tok) ==
    LET d == exec[tok].d
    IN  /\ At(tok, "AckAgain") /\ Step(tok, "Finish")
        /\ IF Holds(tok) /\ dispatches[d].run_status = "Done"
           THEN Store!Ack(d, tok) ELSE UNCHANGED storeVars
        /\ UNCHANGED <<runVars, submits, workerVars, renewal, runtimeVars, maintVars>>

\* mark_superseded_dispatch_run_cancelled or mark_dead_letter_dispatch_run_error.
MarkRun(tok) ==
    LET d == exec[tok].d
    IN  /\ exec[tok].pc \in {"Cancel", "Mark"} /\ Step(tok, "Finish")
        /\ runs' = IF At(tok, "Cancel") THEN Marked(d, "Cancelled") ELSE Reconciled(d, Status(d))
        /\ UNCHANGED <<storeVars, runOf, submits, workerVars, renewal, runtimeVars, maintVars>>

\* Mutant: the worker's lease handle is aborted whichever dispatch it is for.
FinishAbortsAny(tok) ==
    LET t == T(tok)
        w == workers[t]
    IN  /\ At(tok, "Finish")
        /\ exec' = [exec EXCEPT ![tok] = [NoTask EXCEPT !.pc = "Done", !.d = exec[tok].d]]
        /\ renewal' = renewal \ {w.tok}
        /\ workers' = [workers EXCEPT ![t] = Worker("Idle", 0)]
        /\ wakes' = [wakes EXCEPT ![t].try = @ + 1]
        /\ UNCHANGED <<storeVars, runVars, submits, runtimeVars, maintVars>>

\* Mutant: nobody looks at what was queued behind the dispatch.
FinishWithoutNext(tok) ==
    LET t == T(tok)
        w == workers[t]
        mine == w.st = "Running" /\ exec[w.tok].d = exec[tok].d
    IN  /\ At(tok, "Finish")
        /\ exec' = [exec EXCEPT ![tok] = [NoTask EXCEPT !.pc = "Done", !.d = exec[tok].d]]
        /\ renewal' = IF mine THEN renewal \ {w.tok} ELSE renewal
        /\ workers' = [workers EXCEPT ![t] = IF mine THEN Worker("Idle", 0) ELSE Created(t)]
        /\ UNCHANGED <<storeVars, runVars, submits, wakes, runtimeVars, maintVars>>

\* finish_execution: the worker goes idle and the renewal is aborted, if the
\* worker is still running this dispatch; then the next dispatch is tried.
Finish(tok) ==
    LET t == T(tok)
        w == workers[t]
        mine == w.st = "Running" /\ exec[w.tok].d = exec[tok].d
    IN  /\ At(tok, "Finish")
        /\ exec' = [exec EXCEPT ![tok] = [NoTask EXCEPT !.pc = "Done", !.d = exec[tok].d]]
        /\ renewal' = IF mine THEN renewal \ {w.tok} ELSE renewal
        /\ workers' = [workers EXCEPT ![t] = IF mine THEN Worker("Idle", 0) ELSE Created(t)]
        /\ wakes' = [wakes EXCEPT ![t].try = @ + 1]
        /\ UNCHANGED <<storeVars, runVars, submits, runtimeVars, maintVars>>

ExecStep(tok) ==
    \/ Install(tok) \/ Check(tok) \/ CheckEpoch(tok) \/ Start(tok) \/ Enter(tok) \/ RunEnd(tok)
    \/ Result(tok) \/ Settle(tok) \/ AckAgain(tok) \/ MarkRun(tok) \/ Finish(tok)

\* A store call of the task returns an error instead.
Fault(tok) ==
    /\ exec[tok].pc \in {"Check", "Epoch", "Start", "Result", "Settle", "AckAgain"}
    /\ MayFail
    /\ Step(tok, IF At(tok, "Result") THEN "Settle"
                 ELSE IF At(tok, "Settle") /\ exec[tok].recorded /\ exec[tok].out \in {"Done", "Waiting"}
                 THEN "AckAgain" ELSE "Finish")
    /\ spent' = [spent EXCEPT !.faults = @ + 1]
    /\ UNCHANGED <<storeVars, runVars, submits, workerVars, renewal, runtimeVars,
                   marking, stopping, swept, gcIdle, recovery>>

-----------------------------------------------------------------------------
(* spawn_lease_renewal, and time.                                          *)

\* A refused extension cancels the active run of the thread and ends the task.
Renew(tok) ==
    LET a == active[T(tok)]
    IN  /\ tok \in renewal
        /\ IF Holds(tok) THEN Store!ExtendLease(exec[tok].d, tok) ELSE UNCHANGED storeVars
        /\ IF Granted(tok) THEN UNCHANGED <<renewal, cancelled>>
           ELSE /\ renewal' = renewal \ {tok}
                /\ cancelled' = IF a = 0 THEN cancelled ELSE cancelled \cup {a}
        /\ UNCHANGED <<runVars, submits, workerVars, exec, active, maintVars>>

\* An error ends the task and the run goes on without it.
RenewFault(tok) ==
    /\ tok \in renewal /\ MayFail
    /\ renewal' = renewal \ {tok}
    /\ spent' = [spent EXCEPT !.faults = @ + 1]
    /\ UNCHANGED <<storeVars, runVars, submits, workerVars, exec, runtimeVars,
                   marking, stopping, swept, gcIdle, recovery>>

\* A renewed lease does not expire (lease_renewal_interval < lease_ms).
Expire(d) ==
    /\ dispatches[d].claim_token \notin renewal
    /\ Store!Expire(d)
    /\ UNCHANGED <<runVars, submits, workerVars, execVars, runtimeVars, maintVars>>

\* The inline claim and its undo take less than INLINE_CLAIM_GUARD_MS, and a task that
\* nacked finishes within default_retry_delay_ms.
Elapse(d) ==
    /\ submits[d].pc \notin {"Inline", "Undo"}
    /\ \A tok \in Tokens : exec[tok].pc = "Finish" => exec[tok].d # d
    /\ Store!Elapse(d)
    /\ UNCHANGED <<runVars, submits, workerVars, execVars, runtimeVars, maintVars>>

-----------------------------------------------------------------------------
(* run_sweep and run_gc.                                                   *)

Expired == {d \in DispatchIds : Status(d) = "Claimed" /\ dispatches[d].lease = "Expired"}

\* Mutant: a dispatch whose run has started is left to its owner.
SweepReclaimUnstarted ==
    LET found == {d \in Expired : dispatches[d].run_status = "None"}
    IN  /\ swept = {} /\ found # {}
        /\ Store!ReclaimExpiredLeases(found)
        /\ swept' = {[d |-> d, status |-> dispatches'[d].status] : d \in {x \in found : ~Store!Stale(x)}}
        /\ UNCHANGED <<runVars, submits, workerVars, execVars, runtimeVars,
                       marking, stopping, gcIdle, recovery, spent>>

\* The answer leaves out what the reclaim has superseded.
SweepReclaim ==
    /\ swept = {} /\ Expired # {}
    /\ Store!ReclaimExpiredLeases(Expired)
    /\ swept' = {[d |-> d, status |-> dispatches'[d].status] : d \in {x \in Expired : ~Store!Stale(x)}}
    /\ UNCHANGED <<runVars, submits, workerVars, execVars, runtimeVars,
                   marking, stopping, gcIdle, recovery, spent>>

\* Each reclaimed dispatch wakes its thread, or its run is marked.
SweepOne ==
    \E x \in swept :
        /\ swept' = swept \ {x}
        /\ IF x.status = "Queued"
           THEN Wake({ThreadOf[x.d]}) /\ UNCHANGED runs
           ELSE runs' = Reconciled(x.d, x.status) /\ UNCHANGED workerVars
        /\ UNCHANGED <<storeVars, runOf, submits, execVars, runtimeVars,
                       marking, stopping, gcIdle, recovery, spent>>

\* reconcile_terminal_dispatches, run by every sweep and by recover: one
\* dispatch of its list.
Reconcile(d) ==
    /\ runs' = Reconciled(d, Status(d)) /\ runs' # runs
    /\ UNCHANGED <<storeVars, runOf, submits, workerVars, execVars, runtimeVars, maintVars>>

\* gc_idle_workers looks for idle workers without work, then, under the write
\* lock of the map, removes those that are idle still.
GcScan(t) ==
    /\ t \notin gcIdle /\ workers[t].st = "Idle"
    /\ Store!Of(t, "Queued") \cup Store!Of(t, "Claimed") = {}
    /\ gcIdle' = gcIdle \cup {t}
    /\ UNCHANGED <<storeVars, runVars, submits, workerVars, execVars, runtimeVars,
                   marking, stopping, swept, recovery, spent>>
GcRemove(t) ==
    /\ t \in gcIdle
    /\ gcIdle' = gcIdle \ {t}
    /\ workers' = IF workers[t].st = "Idle" THEN [workers EXCEPT ![t] = Worker("Gone", 0)]
                  ELSE workers
    /\ UNCHANGED <<storeVars, runVars, submits, wakes, execVars, runtimeVars,
                   marking, stopping, swept, recovery, spent>>

\* purge_terminal; gc_ttl (24 h) is long enough for the sweep to have been there
\* and for the dispatch's own tasks to be over.
Purge(d) ==
    /\ spent.purges < MaxPurges
    /\ Status(d) \in Store!Terminal /\ Reconciled(d, Status(d)) = runs
    /\ \A tok \in Tokens : exec[tok].d = d => exec[tok].pc \in {"None", "Done"}
    /\ Store!PurgeTerminal({d})
    /\ spent' = [spent EXCEPT !.purges = @ + 1]
    /\ UNCHANGED <<runVars, submits, workerVars, execVars, runtimeVars,
                   marking, stopping, swept, gcIdle, recovery>>

-----------------------------------------------------------------------------
(* recover, at startup, concurrently with new submissions.                 *)

RecoverReclaim ==
    /\ recovery.pc = "Reclaim"
    /\ Store!ReclaimExpiredLeases(Expired)
    /\ recovery' = [recovery EXCEPT !.pc = "Wake"]
    /\ UNCHANGED <<runVars, submits, workerVars, execVars, runtimeVars,
                   marking, stopping, swept, gcIdle, spent>>

\* queued_thread_ids, and a wake for each.
RecoverWake ==
    LET queued == {t \in Threads : Store!Of(t, "Queued") # {}}
    IN  /\ recovery.pc = "Wake"
        /\ Wake(queued)
        /\ recovery' = [recovery EXCEPT !.pc = "List", !.queued = queued]
        /\ UNCHANGED <<storeVars, runVars, submits, execVars, runtimeVars,
                       marking, stopping, swept, gcIdle, spent>>

\* prepared_runs_missing_dispatch_wal: the run records that name a dispatch and
\* are new or waiting.
RecoverList ==
    /\ recovery.pc = "List"
    /\ recovery' = [recovery EXCEPT !.pc = "Load", !.todo =
           {[run |-> r, d |-> runs[r].dispatch] :
                r \in {x \in DispatchIds : runs[x].status \in {"Created", "Waiting"}}}]
    /\ UNCHANGED <<storeVars, runVars, submits, workerVars, execVars, runtimeVars,
                   marking, stopping, swept, gcIdle, spent>>

\* A run whose dispatch is not in the store is picked for reconstruction.
RecoverLoad ==
    /\ recovery.pc = "Load"
    /\ \E x \in recovery.todo :
         recovery' = [recovery EXCEPT !.todo = @ \ {x},
                        !.pc   = IF Status(x.d) = "Absent" THEN "Enqueue" ELSE "Load",
                        !.pick = IF Status(x.d) = "Absent" THEN {x} ELSE {}]
    /\ UNCHANGED <<storeVars, runVars, submits, workerVars, execVars, runtimeVars,
                   marking, stopping, swept, gcIdle, spent>>

\* The enqueue, due at once.
RecoverEnqueue ==
    /\ recovery.pc = "Enqueue"
    /\ \E x \in recovery.pick :
         /\ Store!Enqueue(x.d, ThreadOf[x.d], 0, "NoKey", 0, "Due", 0)
         /\ recovery' = [recovery EXCEPT !.pc = "Load", !.pick = {}, !.found = @ \cup {ThreadOf[x.d]}]
    /\ UNCHANGED <<runVars, submits, workerVars, execVars, runtimeVars,
                   marking, stopping, swept, gcIdle, spent>>

NoRecovery == [pc |-> "Idle", queued |-> {}, todo |-> {}, pick |-> {}, found |-> {}]

\* The threads of reconstructed dispatches are woken, unless woken before.
RecoverFinish ==
    /\ recovery.pc = "Load" /\ recovery.todo = {}
    /\ Wake(recovery.found \ recovery.queued)
    /\ recovery' = NoRecovery
    /\ UNCHANGED <<storeVars, runVars, submits, execVars, runtimeVars,
                   marking, stopping, swept, gcIdle, spent>>

RecoverStep == \/ RecoverReclaim \/ RecoverWake \/ RecoverList
               \/ RecoverLoad \/ RecoverEnqueue \/ RecoverFinish

-----------------------------------------------------------------------------
(* cancel and interrupt; the crash.                                        *)

Control(S) == spent.controls < MaxControls
              /\ spent' = [spent EXCEPT !.controls = @ + 1]
              /\ marking' = marking \cup S

\* Mailbox::cancel: a queued dispatch is cancelled, a running one told to stop.
CancelDispatch(d) ==
    LET a == active[ThreadOf[d]]
    IN  /\ IF Status(d) = "Queued" THEN Store!Cancel(d) /\ UNCHANGED cancelled
           ELSE /\ a # 0 /\ exec[a].d = d
                /\ cancelled' = cancelled \cup {a} /\ UNCHANGED storeVars
        /\ Control(IF Status(d) = "Queued" THEN {d} ELSE {})
        /\ UNCHANGED <<runVars, submits, workerVars, execVars, active,
                       stopping, swept, gcIdle, recovery>>

\* Mailbox::interrupt: the store call, ControlMark for what it superseded, then,
\* if it met a claim, the active run is told to stop.
InterruptThread(t) ==
    /\ Store!Interrupt(t)
    /\ Control(Store!Of(t, "Queued"))
    /\ stopping' = IF Store!Of(t, "Claimed") = {} THEN stopping ELSE stopping \cup {t}
    /\ UNCHANGED <<runVars, submits, workerVars, execVars, runtimeVars, swept, gcIdle, recovery>>
ControlStop(t) ==
    LET a == active[t]
    IN  /\ t \in stopping /\ stopping' = stopping \ {t}
        /\ cancelled' = IF a = 0 THEN cancelled ELSE cancelled \cup {a}
        /\ UNCHANGED <<storeVars, runVars, submits, workerVars, execVars, active,
                       marking, swept, gcIdle, recovery, spent>>

\* The run record of a dispatch one of them made terminal.
ControlMark(d) ==
    /\ d \in marking
    /\ marking' = marking \ {d}
    /\ runs' = Reconciled(d, Status(d))
    /\ UNCHANGED <<storeVars, runOf, submits, workerVars, execVars, runtimeVars,
                   stopping, swept, gcIdle, recovery, spent>>

NoWakes == [t \in Threads |-> [try |-> 0, claim |-> 0, revert |-> 0]]

\* The process dies with all its tasks, and is started again.
Crash ==
    /\ spent.crashes < MaxCrashes /\ spent.crashes + spent.faults < MaxTroubles
    /\ spent' = [spent EXCEPT !.crashes = @ + 1]
    /\ submits' = [d \in DispatchIds |->
                     IF submits[d].pc \in {"New", "Accepted", "Rejected"} THEN submits[d]
                     ELSE Submit("Lost")]
    /\ wakes' = NoWakes /\ workers' = [t \in Threads |-> Worker("Gone", 0)]
    /\ exec' = [tok \in Tokens |-> NoTask] /\ renewal' = {}
    /\ active' = [t \in Threads |-> 0] /\ cancelled' = {}
    /\ marking' = {} /\ stopping' = {} /\ swept' = {} /\ gcIdle' = {}
    /\ recovery' = [NoRecovery EXCEPT !.pc = "Reclaim"]
    /\ UNCHANGED <<storeVars, runVars>>

-----------------------------------------------------------------------------
Init ==
    /\ Store!Init
    /\ runs = [d \in DispatchIds |-> [status |-> "None", dispatch |-> d]]
    /\ runOf = [d \in DispatchIds |-> d]
    /\ submits = [d \in DispatchIds |-> Submit("New")]
    /\ wakes = NoWakes /\ workers = [t \in Threads |-> Worker("Gone", 0)]
    /\ exec = [tok \in Tokens |-> NoTask] /\ renewal = {}
    /\ active = [t \in Threads |-> 0] /\ cancelled = {}
    /\ marking = {} /\ stopping = {} /\ swept = {} /\ gcIdle = {}
    /\ recovery = NoRecovery
    /\ spent = [crashes |-> 0, faults |-> 0, purges |-> 0, controls |-> 0]

Next ==
    \/ \E d \in DispatchIds :
         \/ SubmitStep(d) \/ SubmitInterruptFault(d) \/ SubmitFault(d) \/ Expire(d) \/ Elapse(d)
         \/ Reconcile(d) \/ Purge(d) \/ CancelDispatch(d) \/ ControlMark(d)
    \/ \E t \in Threads : WakeStep(t) \/ WakeFault(t) \/ GcScan(t) \/ GcRemove(t)
                           \/ InterruptThread(t) \/ ControlStop(t)
    \/ \E tok \in Tokens :
         ExecStep(tok) \/ RunStep(tok) \/ Fault(tok) \/ Renew(tok) \/ RenewFault(tok)
    \/ SweepReclaim \/ SweepOne \/ RecoverStep \/ Crash

Spec == Init /\ [][Next]_vars

\* Spawned tasks run, store calls return, runs end, timers fire and the sweep
\* ticks.  Clients owe nothing, and nothing fails or crashes by necessity.
Fairness ==
    /\ \A d \in DispatchIds :
         /\ WF_vars(submits[d].pc # "New" /\ SubmitStep(d))
         /\ WF_vars(Expire(d)) /\ WF_vars(Elapse(d))
         /\ WF_vars(Reconcile(d)) /\ WF_vars(ControlMark(d))
    /\ \A t \in Threads : WF_vars(WakeStep(t)) /\ WF_vars(ControlStop(t))
    /\ \A tok \in Tokens : WF_vars(ExecStep(tok)) /\ WF_vars(Renew(tok))
    /\ WF_vars(SweepReclaim) /\ WF_vars(SweepOne) /\ WF_vars(RecoverStep)

FairSpec == Spec /\ Fairness

-----------------------------------------------------------------------------
(* Properties.                                                             *)

InFlight(tok)  == exec[tok].pc \notin {"None", "Done"}
Executing(tok) == exec[tok].pc \in {"Enter", "Run", "Result", "Settle", "AckAgain"}

\* No store call has failed and the process has not been restarted.
Calm == spent.faults + spent.crashes = 0

\* Type invariant.
ServiceTypeOK ==
    /\ Store!TypeOK
    /\ runs \in [DispatchIds -> [status : Ended \cup {"None", "Created", "Running", "Waiting"},
                                 dispatch : DispatchIds]]
    /\ runOf \in [DispatchIds -> DispatchIds]
    /\ submits \in [DispatchIds -> [pc : {"New", "Stop", "Mark", "Cancel", "Release", "Prepare", "Enqueue",
                                           "Wake", "Inline", "Undo", "UndoMark", "Accepted",
                                           "Rejected", "Lost"},
                                    superseded : SUBSET DispatchIds, claim : SUBSET DispatchIds]]
    /\ wakes \in [Threads -> [try : Nat, claim : Nat, revert : Nat]]
    /\ workers \in [Threads -> [st : {"Gone", "Idle", "Claiming", "Running"}, tok : 0..MaxToken]]
    /\ exec \in [Tokens -> [pc : {"None", "Install", "Check", "Epoch", "Start", "Enter", "Run",
                                  "Result", "Settle", "AckAgain", "Cancel", "Mark", "Finish", "Done"},
                            d : DispatchIds, recorded : BOOLEAN,
                            seen : Ended \cup {"None", "Created", "Running", "Waiting"},
                            out : {"None", "Done", "Waiting", "Transient", "Permanent"}]]
    /\ renewal \subseteq Tokens /\ cancelled \subseteq Tokens
    /\ active \in [Threads -> 0..MaxToken]
    /\ marking \subseteq DispatchIds /\ stopping \subseteq Threads /\ gcIdle \subseteq Threads

\* A worker is never left busy with nobody to free it: a worker that is Running
\* belongs to a task that has yet to call finish_execution, and one that is
\* Claiming to a claim that has yet to be answered.  (A busy worker drops every
\* wake-up, so one left behind would stop its thread for good.)
BusyWorkerHasTask ==
    \A t \in Threads :
        /\ workers[t].st = "Running" => InFlight(workers[t].tok)
        /\ workers[t].st = "Claiming" =>
             \/ wakes[t].claim + wakes[t].revert > 0
             \/ \E tok \in Tokens : exec[tok].pc = "Install" /\ T(tok) = t

\* A task that holds its claim has its lease renewed until it is done with it,
\* however workers are overwritten by other tasks of the thread: while nothing
\* fails, no claim of a live task can expire under it.
ClaimIsRenewed ==
    Calm => \A tok \in Tokens : Executing(tok) /\ Holds(tok) => tok \in renewal

\* A dispatch is executed by one task at a time as long as no store call fails
\* and the process does not restart.
OneLocalExecution ==
    Calm =>
        \A a, b \in Tokens :
            Executing(a) /\ Executing(b) /\ exec[a].d = exec[b].d => a = b

\* submit refused with ACTIVE_RUN_CONFLICT_MESSAGE leaves no work behind: its
\* dispatch is not in the queue and is never claimed ("cancel the orphaned
\* dispatch to prevent it from lingering").
RejectedNeverRuns ==
    Calm =>
        \A d \in Foreground :
            submits[d].pc = "Rejected" => Status(d) \in Store!Terminal \cup {"Absent"}

\* The service keeps to what the store allows its callers: every step is a step
\* of MailboxStore or leaves the store alone, so what is proved of the store for
\* arbitrary callers holds below the service.
ImplementsStore == Store!Spec

\* A claim is always given up in the end, by its task or, if its process died
\* or its renewal failed, by the sweep: no thread stays blocked behind a claim.
ClaimReleased ==
    \A d \in DispatchIds : Status(d) = "Claimed" ~> Status(d) # "Claimed"

\* The run of a dispatch that was cancelled, superseded or dead-lettered ends
\* too, whichever task made it so and wherever it crashed before marking the run.
TerminalReconciled ==
    \A d \in DispatchIds :
        Status(d) \in {"Cancelled", "Superseded", "DeadLetter"} ~>
            \/ runs[runOf[d]].status \in Ended
            \/ Status(d) \notin Store!Terminal

\* A dispatch that is due while the thread's worker runs another one is picked
\* up after it: the try_dispatch_next of finish_execution is not lost, unless
\* gc_idle_workers had chosen to remove the worker before, or a store call
\* fails and takes the wake-up with it.
QueuedBehindRun ==
    \A d \in DispatchIds :
        /\ Status(d) = "Queued" /\ dispatches[d].available = "Due"
        /\ workers[ThreadOf[d]].st = "Running" /\ ThreadOf[d] \notin gcIdle
        /\ exec[workers[ThreadOf[d]].tok].pc \in {"Check", "Epoch", "Start", "Enter", "Run", "Result"}
        ~> Status(d) # "Queued" \/ spent.faults > 0

-----------------------------------------------------------------------------
(* What docs, comments and tests say, and the code does not do.            *)

\* INLINE_CLAIM_GUARD_MS: "if the process crashes between enqueue and claim, the
\* sweep will reclaim the dispatch after this period".
GuardedDispatchReclaimed ==
    \A d \in Foreground :
        submits[d].pc = "Lost" /\ Status(d) = "Queued" ~> Status(d) # "Queued"

\* MailboxDispatchStatus: "Job is queued, waiting for the current run to finish."
QueuedRunStarts ==
    \A d \in DispatchIds \ Foreground :
        submits[d].pc = "Accepted" /\ Status(d) = "Queued" ~> Status(d) # "Queued"

\* "Lease lost -- another process reclaimed.": a lost lease cancels the run
\* that held it, and no other.
RenewalCancelsOwnRun ==
    [][renewal' # renewal => cancelled' \ cancelled \subseteq renewal \ renewal']_vars

\* "waiting runs must stay suspended until explicit input": a waiting run gets a
\* dispatch from the submission that brings it, or from the recovery of one
\* that a crash cut short.
WaitingRunStaysSuspended ==
    [][\A d \in DispatchIds :
         Status(d) = "Absent" /\ dispatches'[d].status = "Queued"
           /\ runs[runOf[d]].status = "Waiting"
         => submits[d].pc \in {"Enqueue", "Lost"}]_vars

\* is_terminal: "terminal states that cannot transition further".
TerminalStaysTerminal ==
    [][\A d \in DispatchIds :
         Status(d) \in Store!Terminal =>
            dispatches'[d].status \in {Status(d), "Absent"}]_vars
====
