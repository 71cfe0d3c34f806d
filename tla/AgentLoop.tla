------------------------------ MODULE AgentLoop ------------------------------
(***************************************************************************)
(* One agent run: the loop of loop_runner (inference, the tool pipeline    *)
(* with its gate, suspension, the wait for decisions, replay and the end   *)
(* of the run), the tool-call life cycle it keeps in the state store, the  *)
(* background tasks its tools start, and what reaches it from outside:     *)
(* tool-call decisions, cancellation, task events through the inbox, and   *)
(* the dispatches that enter the loop again once it has returned. What an  *)
(* execution has not written into a checkpoint is gone when it returns.    *)
(*                                                                         *)
(* The loop is one process; its steps interleave with the tasks, with      *)
(* clients that decide or cancel, and with the mailbox that re-enters it.  *)
(* Messages are kept as the set of tool calls shown to the model and the   *)
(* set that has a tool message. Contents, tokens, phases without an effect *)
(* on the control flow, and the durable queue of pending messages (module  *)
(* ThreadMessages) are left out.                                           *)
(***************************************************************************)
EXTENDS Integers, Sequences, FiniteSets, SequencesExt

CONSTANTS
    Tasks,        \* background tasks a tool may start
    Modes,        \* tool executors: subset of {"sequential", "parallel"}
    Origins,      \* who runs the loop: subset of {"root", "subagent"}
    Channels,     \* whether the run has a live decision channel
    MaxCalls,     \* bound: tool calls the model asks for, in one or more batches
    MaxAsks,      \* bound: suspensions of one tool call
    MaxDecisions, \* bound: decisions clients make
    MaxTroubles,  \* bound: decisions delivered again, executions that fail
    MaxEntries    \* bound: executions of the loop on the thread

ASSUME LoopAssumption ==
    /\ Modes \subseteq {"sequential", "parallel"}
    /\ Origins \subseteq {"root", "subagent"}
    /\ Channels \subseteq BOOLEAN
    /\ {MaxCalls, MaxAsks, MaxDecisions, MaxTroubles} \subseteq Nat
    /\ MaxEntries \in Nat \ {0}

VARIABLES
    conf,     \* [origin, mode, live]: how this run was set up
    loop,     \* where the loop is, and its variables: the calls asked for,
              \* still gated, ready to run and to be replayed, and its flags
    life,     \* RunLifecycle; a waiting run is "Suspended" or "Awaiting"
    how,      \* the TerminationReason the loop broke off with
    calls,    \* ToolCallStates: [Call -> [status, input]]
    batch,    \* tool calls the model has asked for
    out,      \* calls answered in the step-local transcript
    log,      \* [shown, answered]: calls in the messages, calls with a result
    token,    \* the run's cancellation token
    pending,  \* PendingWorkKey: written by the StepEnd hook
    inbox,    \* task events in the run's inbox channel
    tasks,    \* [Tasks -> [state, home]]: background task and its inbox
    channel,  \* decisions in the live channel
    work,     \* dispatches queued for the thread: wakes and decisions
    job,      \* the dispatch this execution runs
    saved,    \* [life, calls, log] as the last checkpoint has them
    entry,    \* executions of the loop so far
    hist      \* what happened, for the properties only

vars == <<conf, loop, life, how, calls, batch, out, log, token, pending,
          inbox, tasks, channel, work, job, saved, entry, hist>>

Call == 1..MaxCalls

Nothing == [call |-> 0, action |-> "none", ask |-> 0]

Decision == [call : Call, action : {"resume", "cancel"}, ask : 1..MaxAsks]

Ended == {"Succeeded", "Failed", "Cancelled"}

Over == {"ended", "failed"}

(***************************************************************************)
(* Tool-call life cycle                                                    *)
(***************************************************************************)

CanTransition(from, to) ==
    \/ from = to
    \/ from = "New"
    \/ from = "Running" /\ to \in {"Suspended"} \cup Ended
    \/ from = "Suspended" /\ to \in {"Resuming", "Cancelled"}
    \/ from = "Resuming" /\ to \in {"Running", "Suspended"} \cup Ended

\* ToolCallStatesUpdate::Put: an invalid transition is logged and skipped.
Put(states, c, status, input) ==
    IF CanTransition(states[c].status, status)
    THEN [states EXCEPT ![c] = [status |-> status, input |-> input]]
    ELSE states

\* The state command of a completed call: Running, then its outcome.
Completed(states, c, status) ==
    Put(Put(states, c, "Running", Nothing), c, status, Nothing)

\* Calls that get no turn because the batch was cut short are closed.
Backfilled(states, cs) ==
    [c \in Call |-> IF c \in cs THEN Put(states, c, "Failed", Nothing)[c]
                                ELSE states[c]]

Absent == [c \in Call |-> [status |-> "New", input |-> Nothing]]

SuspendedCalls(states) == {c \in Call : states[c].status = "Suspended"}

HasSuspendedCalls == SuspendedCalls(calls) # {}

\* A decision is put on the call it names, whatever state that is in.
Decided(states, d) ==
    Put(states, d.call,
        IF d.action = "resume" THEN "Resuming" ELSE "Cancelled", d)

\* prepare_resume: in order, up to the first decision on an unknown call.
Prepared(states, ds) ==
    LET after[n \in 0..Len(ds)] ==
            IF n = 0 THEN states ELSE Decided(after[n - 1], ds[n])
    IN after[Len(ds)]

Known(states, ds) == \A d \in ToSet(ds) : states[d.call].status # "New"

\* Cancelled calls that still carry their decision get a marker message.
Marked(states) ==
    {c \in Call : states[c].status = "Cancelled" /\ states[c].input # Nothing}

MarksTaken(states) ==
    [c \in Call |-> IF c \in Marked(states) THEN [states[c] EXCEPT !.input = Nothing]
                                            ELSE states[c]]

\* A plausible slip: a call nobody has decided on is replayed too.
ResumingUndecided(states) ==
    {c \in Call : states[c].status \in {"Resuming", "Suspended"}}

Resuming(states) == {c \in Call : states[c].status = "Resuming"}

\* Calls are replayed in the order of their ids.
First(cs) == CHOOSE c \in cs : \A d \in cs : c <= d

(***************************************************************************)
(* The loop                                                                *)
(***************************************************************************)

At(place) ==
    [at |-> place, asked |-> {}, queue |-> <<>>, ready |-> <<>>, replay |-> {},
     blocked |-> FALSE, suspended |-> FALSE, first |-> TRUE]

Init ==
    /\ conf \in [origin : Origins, mode : Modes, live : Channels]
    /\ loop = At("replay")
    /\ life = "Running"
    /\ how = "none"
    /\ calls = Absent
    /\ batch = 0
    /\ out = {}
    /\ log = [shown |-> {}, answered |-> {}]
    /\ token = FALSE
    /\ pending = FALSE
    /\ inbox = {}
    /\ tasks = [t \in Tasks |-> [state |-> "Idle", home |-> 0]]
    /\ channel = <<>>
    /\ work = <<>>
    /\ job = Nothing
    /\ saved = [life |-> "Running", calls |-> Absent,
                log |-> [shown |-> {}, answered |-> {}]]
    /\ entry = 1
    /\ hist = [sent |-> {}, troubles |-> 0, asks |-> [c \in Call |-> 0],
               leave |-> [c \in Call |-> 0], again |-> [c \in Call |-> 0]]

dispatch == <<conf, work, job, entry>>

outside == <<dispatch, saved>>

\* persist_checkpoint: messages, run record and tool-call states in one commit.
Persists == saved' = [life |-> life', calls |-> calls', log |-> log']

\* A plausible slip: the hook never looks at the tasks again.
StepEndOnce == pending' = pending /\ Persists

\* complete_step: the StepEnd hook notes whether a task is still running, and
\* the step is checkpointed.
StepEnd ==
    /\ pending' = \E t \in Tasks : tasks[t].state = "Running"
    /\ Persists

\* The execution is over: its variables and channels are gone.
Returns(place) ==
    /\ loop' = At(place)
    /\ out' = {}
    /\ inbox' = {}
    /\ channel' = <<>>

\* So is what its last checkpoint does not have.
Forgets ==
    /\ life' = saved.life
    /\ calls' = saved.calls
    /\ log' = saved.log

Breaks(reason) ==
    /\ how' = reason
    /\ loop' = [loop EXCEPT !.at = "ending"]

\* A cancelled token is noticed at the top of a step: the step is closed.
StepCancelled ==
    /\ loop.at = "top"
    /\ token
    /\ calls' = Absent
    /\ life' = "Done"
    /\ Breaks("cancelled")
    /\ UNCHANGED <<dispatch, batch, out, log, token, inbox, tasks, channel, hist>>
    /\ StepEnd

\* The step begins: the tool-call states are cleared, the model is called.
Infer ==
    /\ loop.at = "top"
    /\ ~token
    /\ calls' = Absent
    /\ loop' = [loop EXCEPT !.at = "inference", !.first = FALSE]
    /\ UNCHANGED <<outside, life, how, batch, out, log, token, pending, inbox,
                   tasks, channel, hist>>

\* The answer comes back after a cancellation, or a stop policy ends the run.
Abandoned(reason) ==
    /\ loop.at = "inference"
    /\ reason = "cancelled" <=> token
    /\ life' = "Done"
    /\ Breaks(reason)
    /\ UNCHANGED <<dispatch, calls, batch, out, log, token, inbox, tasks,
                   channel, hist>>
    /\ StepEnd

\* The model answers with text: the step is complete and the run may end.
AnswersText ==
    /\ loop.at = "inference"
    /\ ~token
    /\ loop' = [loop EXCEPT !.at = "natural"]
    /\ UNCHANGED <<dispatch, life, how, calls, batch, out, log, token, inbox,
                   tasks, channel, hist>>
    /\ StepEnd

\* The model asks for tools.
AnswersTools ==
    /\ loop.at = "inference"
    /\ ~token
    /\ \E w \in 1..(MaxCalls - batch) :
       /\ batch' = batch + w
       /\ loop' = [loop EXCEPT !.at = "gate", !.ready = <<>>, !.blocked = FALSE,
                               !.suspended = FALSE,
                               !.asked = (batch + 1)..(batch + w),
                               !.queue = [i \in 1..w |-> batch + i]]
    /\ out' = {}
    /\ UNCHANGED <<outside, life, how, calls, log, token, pending, inbox,
                   tasks, channel, hist>>

(***************************************************************************)
(* The tool pipeline. A call the gate lets through joins the ready calls;  *)
(* they run when the gate stops a later call, or at the end of the batch.  *)
(***************************************************************************)

Asked(c) == [hist EXCEPT !.asks[c] = @ + 1]

\* The gate has no objection.
GateAllows ==
    /\ loop.at = "gate"
    /\ loop.queue # <<>>
    /\ loop' = [loop EXCEPT !.queue = Tail(@), !.ready = Append(@, Head(loop.queue))]
    /\ hist' = [hist EXCEPT !.leave[Head(loop.queue)] = @ + 1]
    /\ UNCHANGED <<outside, life, how, calls, batch, out, log, token, pending,
                   inbox, tasks, channel>>

\* It has one while calls are ready: they run first and it is asked again.
GateFlushes ==
    /\ loop.at = "gate"
    /\ loop.queue = <<>> \/ loop.ready # <<>>
    /\ loop' = [loop EXCEPT !.at = IF loop.ready = <<>> THEN "settle" ELSE "exec"]
    /\ UNCHANGED <<outside, life, how, calls, batch, out, log, token, pending,
                   inbox, tasks, channel, hist>>

\* A blocked call ends the batch: the calls after it are closed as interrupted.
GateBlocks ==
    /\ loop.at = "gate"
    /\ loop.queue # <<>>
    /\ loop.ready = <<>>
    /\ calls' = Backfilled(Completed(calls, Head(loop.queue), "Failed"),
                           ToSet(Tail(loop.queue)))
    /\ out' = out \cup ToSet(loop.queue)
    /\ loop' = [loop EXCEPT !.at = "settle", !.queue = <<>>, !.blocked = TRUE]
    /\ UNCHANGED <<outside, life, how, batch, log, token, pending, inbox,
                   tasks, channel, hist>>

\* A suspended call is answered by a placeholder; the batch goes on.
GateSuspends ==
    LET c == Head(loop.queue)
    IN /\ loop.at = "gate"
       /\ loop.queue # <<>>
       /\ loop.ready = <<>>
       /\ hist.asks[c] < MaxAsks
       /\ calls' = Put(calls, c, "Suspended", Nothing)
       /\ hist' = Asked(c)
       /\ out' = out \cup {c}
       /\ loop' = [loop EXCEPT !.queue = Tail(@), !.suspended = TRUE]
       /\ UNCHANGED <<outside, life, how, batch, log, token, pending, inbox,
                      tasks, channel>>

\* The gate supplies the result itself.
GateAnswers ==
    /\ loop.at = "gate"
    /\ loop.queue # <<>>
    /\ loop.ready = <<>>
    /\ calls' = Completed(calls, Head(loop.queue), "Succeeded")
    /\ out' = out \cup {Head(loop.queue)}
    /\ loop' = [loop EXCEPT !.queue = Tail(@)]
    /\ UNCHANGED <<outside, life, how, batch, log, token, pending, inbox,
                   tasks, channel, hist>>

\* The tools of the calls in DOMAIN o have run, each with its outcome.
Ran(h, o) ==
    [h EXCEPT !.leave = [c \in Call |-> IF c \in DOMAIN o THEN @[c] - 1 ELSE @[c]],
              !.asks = [c \in Call |-> IF c \in DOMAIN o /\ o[c] = "Suspended"
                                       THEN @[c] + 1 ELSE @[c]]]

MayEnd(c, o) == o = "Suspended" => hist.asks[c] < MaxAsks

\* A tool may start a background task, which keeps this run's inbox.
Spawns ==
    \/ tasks' = tasks
    \/ \E t \in Tasks :
          /\ tasks[t].state = "Idle"
          /\ tasks' = [tasks EXCEPT ![t] = [state |-> "Running", home |-> entry]]

\* A plausible slip: calls that got no turn are left without an answer.
AnsweredWithoutRest(cs, rest) == out \cup cs

\* The transcript answers the calls that ran and those closed with them.
Answered(cs, rest) == out \cup cs \cup rest

\* Sequential executor: one call; a suspension cuts the batch short.
ExecutesOne ==
    LET c == Head(loop.ready)
        rest == ToSet(Tail(loop.ready)) \cup ToSet(loop.queue)
    IN /\ loop.at = "exec"
       /\ conf.mode = "sequential"
       /\ \E o \in {"Succeeded", "Failed", "Suspended"} :
             /\ MayEnd(c, o)
             /\ hist' = Ran(hist, [x \in {c} |-> o])
             /\ IF o = "Suspended"
                THEN /\ calls' = Backfilled(Completed(calls, c, o), rest)
                     /\ out' = Answered({c}, rest)
                     /\ loop' = [loop EXCEPT !.at = "settle", !.queue = <<>>,
                                             !.ready = <<>>, !.suspended = TRUE]
                ELSE /\ calls' = Completed(calls, c, o)
                     /\ out' = out \cup {c}
                     /\ loop' = [loop EXCEPT !.ready = Tail(@),
                                   !.at = IF Len(loop.ready) = 1 THEN "gate" ELSE "exec"]
       /\ Spawns
       /\ UNCHANGED <<outside, life, how, batch, log, token, pending, inbox, channel>>

\* Parallel executor: all ready calls; only calls still gated are cut off.
ExecutesAll ==
    LET cs == ToSet(loop.ready)
        rest == ToSet(loop.queue)
    IN /\ loop.at = "exec"
       /\ conf.mode = "parallel"
       /\ \E o \in [cs -> {"Succeeded", "Failed", "Suspended"}] :
             LET stops == \E c \in cs : o[c] = "Suspended"
                 done == [c \in Call |-> IF c \in cs THEN Completed(calls, c, o[c])[c]
                                                     ELSE calls[c]]
             IN /\ \A c \in cs : MayEnd(c, o[c])
                /\ hist' = Ran(hist, o)
                /\ calls' = IF stops THEN Backfilled(done, rest) ELSE done
                /\ out' = Answered(cs, IF stops THEN rest ELSE {})
                /\ loop' = [loop EXCEPT !.ready = <<>>,
                              !.at = IF stops THEN "settle" ELSE "gate",
                              !.queue = IF stops THEN <<>> ELSE @,
                              !.suspended = @ \/ stops]
       /\ Spawns
       /\ UNCHANGED <<outside, life, how, batch, log, token, pending, inbox, channel>>

(***************************************************************************)
(* The end of a tool batch: the transcript joins the messages.             *)
(***************************************************************************)

Shown ==
    /\ log' = [shown |-> log.shown \cup loop.asked, answered |-> log.answered \cup out]
    /\ out' = {}

\* The run is cancelled, a call was blocked, or a tool hook has ended the run.
SettleEnds(reason) ==
    /\ loop.at = "settle"
    /\ \/ reason = "cancelled" /\ token
       \/ reason = "blocked" /\ ~token /\ loop.blocked
       \/ reason = "stopped" /\ ~token /\ ~loop.blocked
    /\ Shown
    /\ life' = "Done"
    /\ Breaks(reason)
    /\ UNCHANGED <<dispatch, calls, batch, token, inbox, tasks, channel, hist>>
    /\ StepEnd

\* A suspended call: the run waits, in place if it has a decision channel.
SettleSuspends ==
    /\ loop.at = "settle"
    /\ ~token /\ ~loop.blocked /\ loop.suspended
    /\ Shown
    /\ life' = "Suspended"
    /\ loop' = [loop EXCEPT !.at = "waiting"]
    /\ UNCHANGED <<dispatch, how, calls, batch, token, inbox, tasks,
                   channel, hist>>
    /\ StepEnd

\* All calls have their results: events are drained, the next step begins.
SettleContinues ==
    /\ loop.at = "settle"
    /\ ~token /\ ~loop.blocked /\ ~loop.suspended
    /\ Shown
    /\ inbox' = {}
    /\ loop' = [loop EXCEPT !.at = "top"]
    /\ UNCHANGED <<dispatch, life, how, calls, batch, token, tasks,
                   channel, hist>>
    /\ StepEnd

(***************************************************************************)
(* A step without tool calls: end, wait for tasks, or go on                *)
(***************************************************************************)

\* Events that came in during the step are shown to the model.
NaturalContinues ==
    /\ loop.at = "natural"
    /\ inbox # {}
    /\ inbox' = {}
    /\ loop' = [loop EXCEPT !.at = "top"]
    /\ UNCHANGED <<outside, life, how, calls, batch, out, log, token, pending,
                   tasks, channel, hist>>

\* A plausible slip: a sub-agent parks whether or not a task is running.
NaturalParksAlways ==
    /\ loop.at = "natural"
    /\ inbox = {}
    /\ conf.origin = "subagent"
    /\ loop' = [loop EXCEPT !.at = "parked"]
    /\ UNCHANGED <<outside, life, how, calls, batch, out, log, token, pending,
                   inbox, tasks, channel, hist>>

\* A sub-agent with a running task stays and waits on its inbox.
NaturalParks ==
    /\ loop.at = "natural"
    /\ inbox = {}
    /\ pending
    /\ conf.origin = "subagent"
    /\ loop' = [loop EXCEPT !.at = "parked"]
    /\ UNCHANGED <<outside, life, how, calls, batch, out, log, token, pending,
                   inbox, tasks, channel, hist>>

\* The run ends; a root run with a running task ends waiting for it.
NaturalEnds ==
    /\ loop.at = "natural"
    /\ inbox = {}
    /\ ~(pending /\ conf.origin = "subagent")
    /\ life' = IF pending THEN "Awaiting" ELSE life
    /\ Breaks("natural")
    /\ UNCHANGED <<outside, calls, batch, out, log, token, pending, inbox,
                   tasks, channel, hist>>

ParkedReceives ==
    /\ loop.at = "parked"
    /\ inbox # {}
    /\ inbox' = {}
    /\ loop' = [loop EXCEPT !.at = "top"]
    /\ UNCHANGED <<outside, life, how, calls, batch, out, log, token, pending,
                   tasks, channel, hist>>

ParkedCancelled ==
    /\ loop.at = "parked"
    /\ token
    /\ Breaks("cancelled")
    /\ UNCHANGED <<outside, life, calls, batch, out, log, token, pending,
                   inbox, tasks, channel, hist>>

(***************************************************************************)
(* Suspended: wait for decisions, replay the decided calls                 *)
(***************************************************************************)

\* Without a channel the run ends and a later dispatch resumes it. A cancelled
\* run leaves the wait as it is: its life cycle still says waiting.
WaitEnds(reason) ==
    /\ loop.at = "waiting"
    /\ \/ reason = "suspended" /\ ~conf.live
       \/ reason = "cancelled" /\ conf.live /\ token
    /\ Breaks(reason)
    /\ UNCHANGED <<outside, life, calls, batch, out, log, token, pending,
                   inbox, tasks, channel, hist>>

\* All decisions in the channel are taken at once; cancelled calls are marked,
\* the others replayed.
TakesDecisions(states, ds) ==
    LET prepared == Prepared(states, ds)
    IN /\ calls' = MarksTaken(prepared)
       /\ log' = [log EXCEPT !.answered = @ \cup Marked(prepared)]
       /\ loop' = [loop EXCEPT !.at = "replay", !.replay = Resuming(prepared)]

WaitResumes ==
    /\ loop.at = "waiting"
    /\ conf.live /\ ~token
    /\ channel # <<>>
    /\ Known(calls, channel)
    /\ TakesDecisions(calls, channel)
    /\ channel' = <<>>
    /\ UNCHANGED <<outside, life, how, batch, out, token, pending, inbox,
                   tasks, hist>>

\* A decision on a call that is not in the map fails the whole run.
WaitFails ==
    /\ loop.at = "waiting"
    /\ conf.live /\ ~token
    /\ channel # <<>>
    /\ ~Known(calls, channel)
    /\ Returns("failed")
    /\ Forgets
    /\ UNCHANGED <<outside, how, batch, token, pending, tasks, hist>>

\* A plausible slip: an event ends the wait.
WaitReceivesAndLeaves ==
    /\ loop.at = "waiting"
    /\ conf.live /\ ~token
    /\ channel = <<>>
    /\ inbox # {}
    /\ inbox' = {}
    /\ loop' = [loop EXCEPT !.at = "top"]
    /\ UNCHANGED <<outside, life, how, calls, batch, out, log, token, pending,
                   tasks, channel, hist>>

\* Events are taken into the messages, which are checkpointed unless a pending
\* boundary does it; the wait goes on.
WaitReceives ==
    /\ loop.at = "waiting"
    /\ conf.live /\ ~token
    /\ channel = <<>>
    /\ inbox # {}
    /\ inbox' = {}
    /\ UNCHANGED <<dispatch, loop, life, how, calls, batch, out, log, token,
                   pending, tasks, channel, hist>>
    /\ Persists \/ UNCHANGED saved

ReplayStep == [loop EXCEPT !.replay = @ \ {First(@)}]

\* The gate answers, blocks or suspends the replayed call.
ReplayGated(o) ==
    LET c == First(loop.replay)
    IN /\ loop.at = "replay"
       /\ loop.replay # {}
       /\ MayEnd(c, o)
       /\ calls' = Completed(calls, c, o)
       /\ log' = [log EXCEPT !.answered = @ \cup {c}]
       /\ hist' = IF o = "Suspended" THEN Asked(c) ELSE hist
       /\ loop' = ReplayStep
       /\ UNCHANGED <<outside, life, how, batch, out, token, pending, inbox,
                      tasks, channel>>

\* The tool runs again, with the decision in its context.
ReplayRuns(o) ==
    LET c == First(loop.replay)
    IN /\ loop.at = "replay"
       /\ loop.replay # {}
       /\ MayEnd(c, o)
       /\ calls' = Completed(calls, c, o)
       /\ log' = [log EXCEPT !.answered = @ \cup {c}]
       /\ hist' = Ran(hist, [x \in {c} |-> o])
       /\ loop' = ReplayStep
       /\ Spawns
       /\ UNCHANGED <<outside, life, how, batch, out, token, pending, inbox, channel>>

\* In the wait, the run goes on once no call is suspended.
ReplayEnds ==
    /\ loop.at = "replay"
    /\ loop.replay = {}
    /\ ~loop.first
    /\ loop' = [loop EXCEPT !.at = IF HasSuspendedCalls THEN "waiting" ELSE "top"]
    /\ life' = IF HasSuspendedCalls THEN life ELSE "Running"
    /\ UNCHANGED <<outside, how, calls, batch, out, log, token, pending, inbox,
                   tasks, channel, hist>>

\* At the start of an execution it goes on whatever is left.
StartEnds ==
    /\ loop.at = "replay"
    /\ loop.replay = {}
    /\ loop.first
    /\ ~token
    /\ loop' = [loop EXCEPT !.at = "top"]
    /\ UNCHANGED <<outside, life, how, calls, batch, out, log, token, pending,
                   inbox, tasks, channel, hist>>

\* An execution that is cancelled by then returns without a checkpoint.
StartCancelled ==
    /\ loop.at = "replay"
    /\ loop.replay = {}
    /\ loop.first
    /\ token
    /\ how' = "cancelled"
    /\ Returns("ended")
    /\ Forgets
    /\ UNCHANGED <<outside, batch, token, pending, tasks, hist>>

\* The loop returns. A waiting run stays waiting, and whatever is still in the
\* inbox is gone with its receiver.
Ends ==
    /\ loop.at = "ending"
    /\ life' = IF how # "suspended" /\ life \notin {"Suspended", "Awaiting"}
               THEN "Done" ELSE life
    /\ Returns("ended")
    /\ UNCHANGED <<dispatch, how, calls, batch, log, token, pending, tasks, hist>>
    /\ Persists

\* Deliveries that repeat an approval cover one more run each.
Repeated(h, d) ==
    IF d.action = "resume"
    THEN [h EXCEPT !.leave[d.call] = @ + 1, !.again[d.call] = @ + 1]
    ELSE h

\* A hook, the model, an executor or a checkpoint fails: the execution returns
\* without a checkpoint. After a transient error the mailbox nacks the dispatch,
\* which enters the loop again with the decision it brought; after another one
\* it is gone. A sub-agent has no dispatch of its own.
Fails(retried) ==
    /\ loop.at \notin Over
    /\ hist.troubles < MaxTroubles
    /\ retried => conf.origin = "root"
    /\ Returns("failed")
    /\ how' = "none"
    /\ Forgets
    /\ work' = IF retried THEN Append(work, job) ELSE work
    /\ hist' = LET h == [hist EXCEPT !.troubles = @ + 1]
               IN IF retried THEN Repeated(h, job) ELSE h
    /\ UNCHANGED <<conf, job, saved, entry, batch, token, pending, tasks>>

(***************************************************************************)
(* Background tasks                                                        *)
(***************************************************************************)

\* The task's result is committed to the store first...
TaskEnds(t) ==
    /\ tasks[t].state = "Running"
    /\ tasks' = [tasks EXCEPT ![t].state = "Stored"]
    /\ UNCHANGED <<outside, loop, life, how, calls, batch, out, log, token,
                   pending, inbox, channel, hist>>

\* ...then its event goes to the inbox of the execution that started it; when
\* that is closed, a root run gets a wake-up dispatch instead.
TaskReports(t) ==
    LET open == tasks[t].home = entry /\ loop.at \notin Over
    IN /\ tasks[t].state = "Stored"
       /\ tasks' = [tasks EXCEPT ![t].state = "Told"]
       /\ inbox' = IF open THEN inbox \cup {t} ELSE inbox
       /\ work' = IF ~open /\ conf.origin = "root" THEN Append(work, Nothing) ELSE work
       /\ UNCHANGED <<conf, entry, job, saved, loop, life, how, calls, batch,
                      out, log, token, pending, channel, hist>>

(***************************************************************************)
(* Clients and the mailbox                                                 *)
(***************************************************************************)

\* A decision reaches the live run, whatever it is about; else, if a root run
\* is waiting on that very call, it is queued as a dispatch.
Delivered(d) ==
    IF conf.live /\ loop.at \notin Over
    THEN channel' = Append(channel, d) /\ UNCHANGED work
    ELSE /\ conf.origin = "root"
         /\ loop.at \in Over
         /\ saved.life = "Suspended"
         /\ saved.calls[d.call].status = "Suspended"
         /\ work' = Append(work, d)
         /\ UNCHANGED channel

Approved(h, d) ==
    IF d.action = "resume" THEN [h EXCEPT !.leave[d.call] = @ + 1] ELSE h

\* A client answers a question: a suspension of a call nobody answered yet.
Decide(c, action) ==
    LET d == [call |-> c, action |-> action, ask |-> hist.asks[c]]
    IN /\ calls[c].status = "Suspended"
       /\ Cardinality(hist.sent) < MaxDecisions
       /\ ~\E e \in hist.sent : e.call = c /\ e.ask = d.ask
       /\ Delivered(d)
       /\ hist' = Approved([hist EXCEPT !.sent = @ \cup {d}], d)
       /\ UNCHANGED <<conf, entry, job, saved, loop, life, how, calls, batch,
                      out, log, token, pending, inbox, tasks>>

\* A decision whose acknowledgement was lost is delivered a second time.
DecideAgain(d) ==
    /\ d \in hist.sent
    /\ hist.troubles < MaxTroubles
    /\ Delivered(d)
    /\ hist' = Repeated([hist EXCEPT !.troubles = @ + 1], d)
    /\ UNCHANGED <<conf, entry, job, saved, loop, life, how, calls, batch, out,
                   log, token, pending, inbox, tasks>>

Cancel ==
    /\ loop.at \notin Over
    /\ ~token
    /\ token' = TRUE
    /\ UNCHANGED <<outside, loop, life, how, calls, batch, out, log, pending,
                   inbox, tasks, channel, hist>>

\* The next dispatch of the thread enters the loop, with fresh channels and a
\* fresh state store, filled from the last checkpoint; it may bring a decision.
Reenter ==
    LET d == Head(work)
        ds == IF d = Nothing THEN <<>> ELSE <<d>>
        prepared == Prepared(saved.calls, ds)
    IN /\ loop.at \in Over
       /\ work # <<>>
       /\ entry < MaxEntries
       /\ entry' = entry + 1
       /\ work' = Tail(work)
       /\ job' = d
       /\ token' = FALSE
       /\ how' = "none"
       /\ IF Known(saved.calls, ds)
          THEN /\ life' = "Running"
               /\ calls' = MarksTaken(prepared)
               /\ log' = [saved.log EXCEPT !.answered = @ \cup Marked(prepared)]
               /\ loop' = [loop EXCEPT !.at = "replay", !.first = TRUE,
                                       !.replay = Resuming(prepared)]
          ELSE /\ Forgets
               /\ loop' = [loop EXCEPT !.at = "failed"]
       /\ UNCHANGED <<conf, saved, batch, out, pending, inbox, tasks, channel, hist>>

(***************************************************************************)
(* Specification                                                           *)
(***************************************************************************)

Pipeline ==
    \/ GateAllows \/ GateFlushes \/ GateBlocks \/ GateSuspends \/ GateAnswers
    \/ ExecutesOne \/ ExecutesAll
    \/ \E r \in {"cancelled", "blocked", "stopped"} : SettleEnds(r)
    \/ SettleSuspends \/ SettleContinues

Loop ==
    \/ StepCancelled \/ Infer \/ AnswersText \/ AnswersTools
    \/ \E r \in {"cancelled", "stopped"} : Abandoned(r)
    \/ Pipeline
    \/ NaturalContinues \/ NaturalParks \/ NaturalEnds
    \/ ParkedReceives \/ ParkedCancelled
    \/ \E r \in {"suspended", "cancelled"} : WaitEnds(r)
    \/ WaitResumes \/ WaitFails \/ WaitReceives
    \/ \E o \in {"Succeeded", "Failed", "Suspended"} : ReplayGated(o) \/ ReplayRuns(o)
    \/ ReplayEnds \/ StartEnds \/ StartCancelled \/ Ends

Background == \E t \in Tasks : TaskEnds(t) \/ TaskReports(t)

Clients ==
    \/ \E c \in Call, a \in {"resume", "cancel"} : Decide(c, a)
    \/ \E d \in Decision : DecideAgain(d)
    \/ Cancel
    \/ Reenter

Next == Loop \/ Background \/ Clients \/ \E retried \in BOOLEAN : Fails(retried)

Spec == Init /\ [][Next]_vars

\* The runtime polls the loop and its tasks; tools, inferences and tasks end.
\* Nothing obliges a client to decide.
FairSpec ==
    /\ Spec
    /\ WF_vars(Loop)
    /\ \A t \in Tasks : WF_vars(TaskEnds(t)) /\ WF_vars(TaskReports(t))
------------------------------------------------------------------------------
(***************************************************************************)
(* Properties                                                              *)
(***************************************************************************)

\* Every variable keeps its type; a call beyond the batches asked for is new,
\* and the transcript answers only calls the model has asked for.
AgentTypeOK ==
    LET Input == Decision \cup {Nothing}
    IN  /\ life \in {"Running", "Suspended", "Awaiting", "Done"}
        /\ calls \in [Call -> [status : {"New", "Running", "Suspended", "Resuming"} \cup Ended,
                               input : Input]]
        /\ batch \in 0..MaxCalls
        /\ \A c \in Call : c > batch => calls[c] = Absent[c]
        /\ out \cup log.shown \cup log.answered \cup loop.asked \subseteq 1..batch
        /\ {token, pending} \subseteq BOOLEAN
        /\ \A t \in Tasks : tasks[t].home \in 0..MaxEntries
        /\ entry \in 1..MaxEntries
        /\ saved.log.shown \subseteq saved.log.answered
        /\ job \in Input

\* No tool call the model has asked for stays in the messages without a tool
\* message, whatever blocks, suspends or interrupts its batch.
PairedTranscript == log.shown \subseteq log.answered

\* A tool runs once for the gate that let its call through and once more for
\* each delivery of an approval (hist.leave: runs still covered), the retries of
\* a dispatch that brings one included: no blocked, refused or finished call
\* runs again on its own, whatever is lost with an execution that fails.
RunsOnlyWhenApproved == \A c \in Call : hist.leave[c] >= 0

\* Within one execution the model is not called while a tool call waits for
\* its decision, and a replayed one is finished first: neither a task event
\* nor the decision on another call starts the next step.
ModelWaitsForDecisions ==
    [][Infer /\ ~loop.first =>
          \A c \in Call : calls[c].status \notin {"Suspended", "Resuming"}]_vars

\* A run that came to its natural end and is done has no running task.
NoTaskLeftBehind ==
    loop.at = "ended" /\ life = "Done" /\ how = "natural" =>
        \A t \in Tasks : tasks[t].state # "Running"

\* The loop comes to rest: it has returned, or it waits, uncancelled, for a
\* decision nobody has sent.
AtRest ==
    \/ loop.at \in Over
    \/ loop.at = "waiting" /\ ~token /\ channel = <<>>

Settles == []<>AtRest

\* What mailbox/decision.rs asks of the consumer of decisions, that a decision
\* is idempotent: however often an approval is delivered, it covers one run.
DecisionIsIdempotent == \A c \in Call : hist.leave[c] >= hist.again[c]

\* The same for every execution, the first step of a re-entered run included.
ModelNeverOvertakesDecision ==
    [][Infer => \A c \in Call : calls[c].status # "Suspended"]_vars

\* A root run that waits for its tasks is taken up again.
AwaitedTasksResume ==
    (loop.at = "ended" /\ life = "Awaiting") ~> (loop.at # "ended" \/ work # <<>>)
==============================================================================
