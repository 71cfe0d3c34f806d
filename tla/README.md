# Verification of the Awaken agent server

Awaken is a Rust framework for running LLM agents. A server accepts messages for
conversation threads, turns each into a *run* of an agent, and keeps everything
that must survive a restart in durable stores. This directory holds TLA+ models
of its core, the configurations under which TLC checks them, and proofs checked
by TLAPS. Paths below are relative to the repository (`src/` prefix) and
`mailbox/` stands for `src/crates/awaken-server/src/mailbox/`.

## 1. Inventory

### The mailbox (modelled)

**Mailbox store**: `awaken-server-contract/src/contract/mailbox.rs` (records and
their transitions), `awaken-stores/src/memory_mailbox.rs` (reference store),
`mailbox_state.rs` (shared transitions).
- State: a map from dispatch id to `RunDispatch` (thread, status, priority,
  dedupe key, attempt count, `available_at`, claim token, lease, epoch, projection
  of the run); a map from thread to its current epoch.
- Operations: `enqueue`, `claim`, `claim_dispatch`, `ack`, `nack`, `dead_letter`,
  `record_dispatch_start`, `record_run_result`, `extend_lease`,
  `supersede_claimed`, `cancel`, `interrupt(_detailed)`,
  `reclaim_expired_leases`, `purge_terminal`, queries.
- Correct if: one claim per thread; a terminal record stays as it is; an interrupt
  fences the claim it overtook; a lost token is lost for good; the retry budget is
  kept; a dedupe key has one live holder; no record that was enqueued with an attempt
  left ever fails `validate_for_persist`, whose failure is a panic.

**Mailbox service**: `mailbox.rs` and `mailbox/*.rs`.
- State: `workers`, one per thread (`Idle`, `Claiming`, `Running` with the lease
  handle), and the tokio tasks in flight. Nothing of it survives a crash.
- Operations: `submit` (foreground: interrupt the thread, wait for the running
  dispatch to be released, write the dispatch, claim it inline),
  `submit_background` (write, then wake the worker), `try_dispatch_next`,
  `run_claimed_dispatch`, `finish_execution`, lease renewal, `cancel`,
  `interrupt`, `run_sweep`, `run_gc`, `recover`.
- Interaction: calls the store and the run store at every await; calls the
  runtime, which keeps one slot per thread (`ActiveRunRegistry`); is woken by
  submissions, by finished tasks, by the sweep and by recovery.
- Hard: every await is an interleaving point and the state read before it may be
  stale after it (workers are overwritten, claims superseded, threads removed by
  GC); store calls fail; the process dies between any two steps; wake-ups are
  dropped by busy workers, so whoever makes a worker busy owes the next look at
  the queue.
- Correct if: no worker stays busy without a task; a live task's lease is
  renewed; a dispatch is executed once at a time; a refused submission leaves
  nothing to run; claims are always released; the run of a dead dispatch ends;
  queued work starts.

**Run entry**: `awaken-runtime/src/runtime/agent_runtime/*.rs`. One active run per
thread, cancellation by thread or dispatch, and the decision whether a run id may
be (re-)entered. Modelled as the mailbox meets it.

### The other modelled parts

**NATS mailbox store** (`awaken-stores/src/nats_mailbox*`): the same contract over
JetStream key-value buckets.
- State: a key per dispatch, a claim guard and an epoch per thread, a lock per dedupe
  key, and an index of the dispatches of a thread, kept in memory by every node.
- Hard: one operation is several compare-and-set writes on different keys, callers run
  on several nodes and may stop between any two of them, a node builds its index from
  a scan while the watcher already delivers changes.
- Correct if: two live leases never overlap on a thread, a dedupe key has one live
  holder, scans find every queued dispatch in the end.

**NATS buffered thread store** (`awaken-stores/src/nats_buffered_thread/`): a
write-ahead stream in front of a cold store.
- State: hot metadata (reserved and latest sequence), the commit state of each entry,
  the stream, the flushed watermark, two kinds of claims with leases, the inner store.
- Hard: writers, flushers of several processes, a delete and readers interleave; a
  lease may lapse between a check and the write it guards; any call to NATS may fail,
  with its effect or without.
- Correct if: readers whose fetch from the log succeeds see one atomic register of
  snapshots; nothing committed is lost; what failed before its commit never shows up;
  sequences are never reused.

**Messages of a thread (ADR-0042)**: the committed log and run records (thread commit,
checkpoints), and the pending queue that feeds them, on the memory and the Postgres
store.
- Operations: append, freeze into a run, live steering with its fall-back, boundary
  freezes of the agent loop, retract, edit, reorder.
- Hard: a freeze needs the log version it read, so it retries; a steering message may
  reach the run, or miss it and be queued; edits race freezes.
- Correct if: a message is consumed once, by the run it was meant for, in the order
  barriers ask for, with the edits that were acknowledged.

**Agent loop** (`awaken-runtime/src/loop_runner/`): inference, the tool pipeline with
its gate, suspension, decisions, replay, background tasks, the end of the run.
- Hard: decisions arrive twice, late, or on another channel; cancellation at any step;
  an execution that fails is retried from the last checkpoint, and what it did since is
  forgotten; a run is entered again after a suspension; tasks end while the run does.
- Correct if: transcripts stay paired; a call runs once per delivery of an approval; the
  model is not called over an open decision; no task is left behind; the run settles.

**Outbox relay, projector, protocol replay log** (`awaken-server/src/`): canonical
events become outbox rows, a relay encodes them for each wire protocol and stores the
frames, a second relay publishes those.
- Hard: leases run out while a relay works; encoders are stateful and die with their
  process; a crash lies between a write and its acknowledgement.
- Correct if: two encodings of an event are never mixed; a row counted as delivered was
  published; a claim is settled by its holder only; every row ends.

**Model pool** (`awaken-runtime/src/engine/`): members behind one executor, a circuit
breaker per member, sticky sessions, a cache of stream attempts.
- Hard: a caller looks at circuits, then takes the lock of the sessions; a failure is
  seen by the observed stream and by the driver, and must be charged once; a half-open
  circuit admits few probes, which may be cancelled.
- Correct if: the member that served is charged, once; a probe resolves unless its end
  goes unheard (a request error, a future dropped while its stream opens).

### The rest (not modelled)

| part | state and operations | why not, or what is hard |
|---|---|---|
| SQLite mailbox store | the contract of the mailbox store over SQL rows | each operation is one transaction, which is what `MailboxStore` models |
| versioned registry | drafts, published versions, pointer; publish, pin, roll back | planned: concurrent publishers |
| credential broker | cached leases, refresh | planned: single flight |
| state store, parallel merge | typed slots, mutation batches, merge strategies | candidate for checked operators: order independence, conflicts |
| compaction, truncation, permissions, registry resolution | pure functions of their inputs | boundaries; much of it is string code |
| durable messages | delivery of a message between threads with its redelivery | shares the submission path of `Mailbox` |
| configuration service, HTTP API, console | request handling, formats | their concurrent core is the versioned registry |
| protocol encoders other than the text blocks of AI SDK | string and JSON conversion | no state of interest |
| extensions (MCP, skills, reminders, deferred tools, generative UI, observability) | plugins on the phase hooks; MCP keeps connections and reconnects | MCP's manager is planned; the others are content and I/O |
| evaluation and test kits, examples | batch scoring, history pages | not part of the concurrent core |

`PROJECT.json` lists every part with its sources and status, and under `hazards`
what in this code is hard to test, at the line where it bites.

## 2. Modules

| module | models |
|---|---|
| `MailboxStore` | the store, under arbitrary callers |
| `MailboxStoreProofs` | theorems about it |
| `MCMailboxStore` | model values and symmetry |
| `Mailbox` | the service over an instance of `MailboxStore` |
| `NatsMailbox` | the NATS store, key by key |
| `BufferedThread` | the buffered thread store, one thread |
| `ThreadView` | what a reader of a thread is promised; `BufferedThread` implements it |
| `ThreadMessages` | the messages of one thread, log and pending queue |
| `AgentLoop` | one run of the agent loop |
| `EventRelay` | outbox, projector and fan-out relays |
| `ModelPool` | pool, circuits, sessions, stream attempts |
| `MailboxProofs`, `NatsMailboxProofs`, `BufferedThreadProofs`, `ThreadMessagesProofs`, `AgentLoopProofs`, `EventRelayProofs`, `ModelPoolProofs` | theorems about the module each is named for |
| `MCMailbox`, `MCNatsMailbox`, ... | model values and symmetry of each |

### MailboxStore

`dispatches` is the dispatch map (status `Absent` is a missing key), `epoch` the
thread state map (a missing key reads as 0). The store holds the write lock of the
map for the whole of each operation, so each operation is one action. Callers are
unconstrained: any operation at any time, with any token issued so far. The one
thing they owe the store is a new id at `enqueue` (ids are UUIDs); the store does
not check it, `Enqueue` itself does not assume it, and `MCMailboxReenqueue.cfg`
shows where a caller breaks it.

A caller may enqueue a dispatch with attempts already counted (`with_attempt_count`):
`EnqueuedAttempts` are the counts it uses, from none to the whole budget, and the history
field `spent` marks a record that had no attempt left when it was enqueued.

Abstractions: a token, a random UUID in the code, is a number never issued before;
times are reduced to the comparisons the store makes (`available_at <= now`,
`lease_until < now`), and their passing to `Elapse` and `Expire`; the `limit` of a
reclaim and the age of a purge are arbitrary subsets of the candidates. Errors and
diagnostic fields are left out. A call that the code answers with an error and no
effect is no step.

### Mailbox

One server process. Each store call and each section under a worker's lock is one
action; between two of them any other task may run.

| variable | code |
|---|---|
| `dispatches`, `epoch`, `lastToken` | the store, through `INSTANCE MailboxStore` |
| `runs`, `runOf` | run records: status and the dispatch they name; `RunDispatch::run_id` |
| `submits` | `submit` and `submit_background`, one task per submission |
| `wakes` | calls of `try_dispatch_next`, counted by where they are |
| `workers` | `Mailbox::workers`; `Gone` is no entry |
| `exec` | `run_claimed_dispatch`, one task per claim token |
| `renewal` | lease renewal tasks by token |
| `active`, `cancelled` | `ActiveRunRegistry` and the cancellation tokens of its runs |
| `marking`, `stopping` | what `cancel` and `interrupt` still have to do |
| `swept`, `gcIdle`, `recovery` | `run_sweep`, `gc_idle_workers`, `recover` between their awaits |
| `spent` | counters for the bounds |

A submission goes New, Mark, Cancel, Release, Prepare, Enqueue, Inline, and ends
Accepted, Rejected or, after a crash, Lost; Undo and UndoMark clean up after an
inline claim that came back empty; Stop is the `cancel_and_wait_by_thread`
fall-back used when the interrupt itself fails. An execution goes Install, Check,
Epoch, Start, Enter, Run, Result, Settle, Finish, with Mark, Cancel and AckAgain on
the side paths. The runtime is external to the module: it enters or refuses a run
(`Enter`, with the cached run record of the `ThreadContext` in `exec[tok].seen`),
checkpoints it (`RunStep`) and ends it in one of `Outcomes` (`RunEnd`).

Assumptions about time, each a guard:
- `Expire`: a renewed lease does not expire (`lease_renewal_interval` is a
  fraction of `lease_ms`). Once its renewal task has stopped it may.
- `Elapse`: the inline claim and its undo take less than `INLINE_CLAIM_GUARD_MS`
  (60 s); a task that nacked its dispatch reaches the end of `finish_execution`
  within `default_retry_delay_ms` (250 ms).
- `Purge`: `gc_ttl` (24 h) is longer than the tasks of a dispatch and the next
  sweep.

Other simplifications: other server processes are not part of `Mailbox`
(`MailboxStore` takes calls from anyone); marking a run is one step, although the
code loads the record and commits it with a retry loop (a hazard in `PROJECT.json`);
a removed worker is not kept alive by a task that looked it up just before; a waiting
run of the thread is always reused by the next submission. `SubmitPrepare` is one step for
`submit.rs:425-622`, which reads the waiting run and the previous records and commits
afterwards: the code holds the append lock of the thread (`lock_thread_append`) for all of
it, but other writers of run records do not take that lock. The default application
starts with `start_lifecycle_ready` (`app.rs:737`), which runs recovery before it
serves; recovery beside submissions, which the model allows, needs
`start_lifecycle` or a second instance.

Not modelled in these files: barrier preflight, `submit_durable_message`,
the dispatch signal loop (NATS only), recovery of background-task waits, the report of
orphaned pending messages. Live steering is in `ThreadMessages`.

### NatsMailbox

| variable | code |
|---|---|
| `records` | `kv_dispatch`, one key per dispatch: the commit point of every operation |
| `epoch` | `kv_epoch` of the thread |
| `guard` | the claim key of the thread: who may claim, and until when |
| `lock`, `keyed` | the key of the one dedupe key; which dispatches carry it |
| `index` | the ids a node lists under the thread |
| `ops` | the operations in flight: where each is, what it read, what it has left to do |
| `boot`, `pending` | `index.rs`: subscription, scan and replacement of the index at start-up; the changes the watcher has still to apply. `known` is the node's own index, `missed` what the last scan could not read |
| `clock`, `lastToken` | the time that leases are compared with; tokens issued |

A caller reads a key and writes it with the revision it read. Whether another write
came between is the flag `fresh` of its operation: `Written` clears it for all
others, and `Cas` succeeds only with it. A loop that reads one key and writes it
again until it succeeds, with nothing in between, is one step. The writes that follow
the commit point (release the guard, free the dedupe lock, clean the index) are its
`chores`, each a step. `Abandon` drops an operation at any point: a crash, an error,
retries used up. `SlowEnqueue` says whether an enqueue may outlast
`DEDUPE_ORPHAN_GRACE_MS`; `lock.slow` remembers the enqueues during which the grace of
their lock ran out.

The scan of a starting node skips an entry it cannot read and then replaces the list of the
thread without it (`BootScan`, `index.rs:305-334`); the watcher only logs a change it fails
to list (`ApplyFails`, `:356-363`). Dispatch signals are modelled as the repair they are
for the index: `Signal` is one sweep, publication and pull, after which the dispatch is
listed again. A sweeper knows what its node's own index knows, so what a scan missed stays
out until the record is written again or the node restarts.

Not modelled: the terminal clean-up branch of a signal and the run it starts, entries that
can be read and not decoded, a watch stream that loses changes (it is taken to deliver each
one), the local fast path of the index, the order by priority, the live channel, bounds on retries, writes whose outcome is unknown
to their caller, clocks that differ between nodes.

### BufferedThread and ThreadView

A checkpoint is a full snapshot, so the content of anything stored is the
`thread_seq` of the checkpoint that wrote it.

| variable | code |
|---|---|
| `meta` | `ThreadHotMetadata`: reserved and latest sequence, stream position of the latest |
| `wal` | `WalEntryState` of each sequence: Prepared, Committed, Aborted |
| `stream`, `acked` | the JetStream log and what its durable consumer has acknowledged |
| `flushed` | the `flushed_seq` watermark |
| `cache` | the hot record of each run |
| `hierarchy`, `flushing` | the claims of writers and deleters, and of flushers, with their leases |
| `inner` | the inner store: thread projection, messages, run records |
| `writer`, `flusher`, `deleter`, `reader` | calls of `checkpoint`, the flusher loops, `delete_thread`, a read |
| `committed`, `known` | history for the properties |

A writer claims the hierarchy, reserves, prepares, publishes, commits, caches,
promotes and releases; a failed publish or a lost claim ends in an abort, or in
`CommitUnknown` when the commit may have happened. Two errors are not told apart from a
failure by the code: the answer of the commit is lost (`WriterCommitUnsure`), or the
release after it fails (`WriterReleaseFails`); a commit that fails without effect is
`WriterCommitFails`. A read whose fetch from the log fails is answered from the inner
store (`ReaderMissesBody`). A flusher fetches, claims,
classifies every entry by its commit state, writes run, thread and messages, promotes,
marks and acknowledges. While a claim holds, a check and the write it guards are one
step; when it lapses the process may be `late` with that one write.

`ThreadView` is the abstract register: `Commit` shows a later snapshot, `Erase` shows
nothing. `ImplementsThreadView` maps its log to the commits in order, and what it
shows to `View`, the content a read would return if it ran alone. A flush, a
redelivery, a settlement or a crash is a stutter there.

Not modelled: hierarchies of several threads, listings, back-pressure limits;
`save_thread`, `save_messages`, `delete_messages` and `update_thread_metadata`; the failed
fetch in a writer's own overlay read, which misses like a reader's. A flusher or deleter
whose release fails is one that crashes.

### ThreadMessages

A call of a store is one step where the back end locks the thread for it, and on
Postgres it always does. The commit coordinator of the memory store takes five locks to
snapshot a thread and five to restore it: `CommitSnapshots` and `CommitRestores` handle
one map at a time, and others write in between. What a caller read for its next call may be
stale by then. `Scenarios` pairs a back
end with the actors that take part.

| variable | code |
|---|---|
| `log`, `pending`, `record`, `latest` | committed messages, pending queue, run records, latest run |
| `call` | `submit` with a message: append, read the version, select, freeze, retry (`pending_delivery.rs`) |
| `steer` | a live delivery to the active run, its fall-back and its wake (`live_delivery.rs`) |
| `loop` | a run: its steps, checkpoints and boundary freezes (`checkpoint.rs`) |
| `editor` | a client that updates, retracts or reorders pending messages with a revision |
| `commit` | the snapshot `MemoryCommitCoordinator` restores when a commit fails |

`SelectPending` is the selection of messages at a boundary (boundary, target, order,
barriers), `Freeze` what the store then does in one transaction. The memory store has
no transactions: a freeze that fails after the append leaves the queue extended
(`RolledBack`), and a commit that fails restores the snapshot taken before it, map by map,
after which a message frozen in between is in the log and in the queue.

A steering message that misses its run is deleted from the queue, which gives what stays
behind it new revisions, and is appended again under its id; the deletion may fail too
(`SteerMissesRun`). A targeted message that was left in the queue then stands in the way
of later scans.

`call` follows a submission to its freeze. What comes after, and may still answer the caller
with an error although the message is committed (`submit.rs:140`, `:158`, `:255`, `:285`),
is the subject of `Mailbox`.

Not modelled: the `ResumeInput` mode of a dispatch that resumes a waiting run
(`pending_delivery.rs:25-27`, `:232-238`), an append of a live delivery that fails
(`live_delivery.rs:121`), state snapshots and staged events of a commit, the report of
orphans, the bounds of the queue.

### AgentLoop

`loop.at` is the place in `orchestrator.rs` (infer, gate, execute, settle, parked,
waiting, replay, ended); `calls` are the `ToolCallStates` with their transition table
`CanTransition`; `log` is the transcript reduced to the calls shown to the model and
those with a tool message. `channel` is the live decision channel, `work` the queued
dispatches that re-enter the loop, `inbox` and `tasks` the background tasks,
`token` the cancellation token, `pending` what the `StepEnd` hook last reported, `job` the
dispatch this execution runs and `saved` the last checkpoint. An execution that returns
with an error (`Fails`: inference, hook or executor, `orchestrator.rs:194`, `:219`, `:312`)
or is cancelled as it starts (`StartCancelled`) writes no checkpoint; the next one begins
with what `saved` has (`Forgets`), a retryable one with the same dispatch and its decisions
again. `MaxTroubles` bounds failures and repeated deliveries together.
Clients (`Decide`, `DecideAgain`, `Cancel`) and tasks (`TaskEnds`, `TaskReports`)
step at any time. Both executors, root runs and sub-agents, and runs with and without
a live channel are initial states.

A dispatch that failed is queued behind those that wait already; that one which arrives
during its delay overtakes it is not modelled. An error that is not retryable drops the
dispatch; what the mailbox then writes into the run record is left to `Mailbox`. Decisions
on the live channel die with the execution they were sent to.

Not modelled: a new user message that supersedes suspended calls, handoff, recovery
of truncated answers, custom task events, compaction. A crash of the process is not an
action of its own: it leaves the store as a failure does.

### EventRelay

`rows` is the outbox with status, attempts and lease, `log` the replay log by wire,
event and draft, `bus` what was published, and `relay` each relay's batch, its place
in it and its memory (encoder and projection cache). A tick claims a batch (`Claim`),
and for each row projects and stores frame by frame (`Project`, `StoreFrame`,
`FindFrame`, `ProjectDone`) or publishes (`Publish`), then acknowledges (`Ack`) or puts
it back (`Nack`). `Transcode` is the AI SDK encoder reduced to its text blocks: what
an event is encoded as depends on what the encoder saw before. `Crash` drops a relay's
memory; `LeaseOutrun` lets a lease lapse while its holder works.

Not modelled: how server events are captured, sequence numbers of the replay log, the
other encoders.

### ModelPool

| variable | code |
|---|---|
| `circuit` | `CircuitState` of each member; `cooled`: its cooldown is over |
| `quarantined` | members that answered with a permanent error |
| `session` | sticky home and number of switches of a session |
| `attempt` | `PoolStreamAttemptState`, in a cache of `StreamLimit` entries |
| `call` | where a request is in `execute`, `execute_streaming`, its stream, or the driver's retry loop (`inference.rs`) |

Each lock section is a step: a caller looks at the circuits (`Look`), chooses under the
lock of the sessions (`ChooseActive`, `ChooseNext`, `ChooseLater`), asks the circuit
for admission (`Check`), and records what became of it. An open stream is observed by
the pool (`NotesFailure`) and reported by the driver (`Report`), which is why a failure
could be charged twice. `call.member` is the member that served and stays so; whom a
failure was put down to is kept apart from it in `call.charge` and `call.blamed`.

Not modelled: `RetryingExecutor`, round-robin homes, sessions without a name, the
eviction of sessions, stream checkpoints for a resume in another process.

## 3. What TLC checks

| run | instance | states | shows |
|---|---|---|---|
| `store` | 1 thread, 2 dispatches enqueued with no or with all attempts used, 1 key, 2 attempts, 2 interrupts, 3 claims | @STORE | the rules of the store, for every sequence of calls |
| `service` | 1 background and 1 foreground submission, all outcomes, 2 claims, 1 failing call | @SERV | workers, leases, single execution, refused submissions; every step is one the store allows (`ImplementsStore`) |
| `restart` | 1 foreground submission, 1 trouble anywhere (a crash with recovery beside it, or a failing store call), a control call, a purge | 277 k | claims are released, runs of dead dispatches end |
| `nats` | 2 callers on 2 dispatches, with or without a shared dedupe key, 2 claims, 1 interrupt, clock to 3 | @NATS | one live lease per thread, one live holder of a key |
| `nats_index` | 1 writer, 2 dispatches, 2 node starts, 1 failed read of the scan or failed listing | @NIDX | the index lists every queued dispatch in the end |
| `buffered` | 2 writers of 2 runs, a flusher, a delete, a reader, 1 trouble | @BUF | a thread is an atomic register, nothing is lost or resurrected |
| `drain` | 2 writers of 2 runs, a flusher, 1 trouble | @DRAIN | every commit is flushed in the end |
| `pending` | 8 scenarios on Postgres and 1 on memory: up to 2 submissions, a steering message, 2 further deliveries and 3 editing clients | @PEND | a message is consumed once, by whom it was for, with its edits |
| `agent` | 2 calls, 1 task, 1 decision, 1 repeated delivery or failed execution, 3 executions | @AGENT | paired transcripts, approvals, no task left behind, the run settles |
| `events` | 2 events, 2 projectors, 1 fan-out relay, 2 attempts, cache of 1, 1 trouble | @EV | frames of two encodings never mix, rows settle |
| `pool` | 2 members, 2 requests of a session, every kind of error, cache of 1, 2 switches, 1 stream retry | @POOL | a failure is charged once and to the member that served, probes resolve |
| `lost_wakeup` | 2 background submissions, a transient failure | | a disagreement with a comment, below |

Why these bounds suffice for the questions asked:
- Mailbox: the rules concern one thread's dispatches, and threads share nothing but the
  token supply, so one thread with two dispatches contains every pair that could
  conflict. Two attempts are the least that lets a dispatch be both retried and
  dead-lettered, and a record enqueued with both used is the boundary case; two interrupts
  let one overtake the other. Two claims and a failing call let a second execution begin
  over the remains of the first.
- NATS: the hazards are races on one key, and two callers that may stop anywhere leave
  every half-done operation for the other to find. The clock lets a lease run out and
  another be taken over it.
- Buffered store: two checkpoints give an order to lose; one trouble (lapse, crash,
  failed call) is enough to reach every abort and takeover path. The
  runs have one flusher, which stops at its next check when its claim has lapsed; a second,
  and a write past the check, are in `MCBufferedLateFlush.cfg`, where they break a property.
- Messages: a race of a freeze needs two submissions; a barrier needs a message before
  and after it. With three clients an edit can meet a record that two others have
  changed since it was read.
- Agent: two calls make a batch where one waits and the other does not; three executions
  make a suspension that outlives its execution, a decision that resumes it, and the retry
  of that decision's dispatch after a failure.
- Relay: a text and the end of the run are the shortest stream whose encoding depends on
  state; two projectors make an outrun lease hurt.
- Pool: two members and two switches let a session leave a member and come back; a cache
  of one makes every second attempt meet a full cache; request errors and futures dropped
  at any await are among the endings of a call.

Bounds are guards (`MaxToken`, `MaxFaults`, `MaxTroubles`, `MaxClock`, ...), so a
behaviour stops short of them and is not cut off by a constraint. At the claim bound a
claim is never answered, so liveness is stated only for what does not need a further
claim, or in instances that cannot reach the bound. Deadlock checking is off
throughout: clients may have nothing left to ask, and the bounds end every behaviour.

Type invariants (`ServiceTypeOK`, `NatsTypeOK`, `BufferedTypeOK`, `MessagesTypeOK`,
`AgentTypeOK`, `RelayTypeOK`, `PoolTypeOK`) hold on the instances of the table and are
stated in the modules; all are proved. They are not in the list of properties, nor is
what follows from others.

Some properties that are easily misread:
- `BusyWorkerHasTask`: no path leaves a worker Claiming or Running with nobody to free
  it. A busy worker drops wake-ups, so this would stop the thread.
- `ClaimIsRenewed`, `OneLocalExecution`, `RejectedNeverRuns` are stated while no store
  call has failed and the process has not restarted (`Calm`). Beyond that the code
  makes no such promise: a failed renewal ends the renewal task while the run goes on,
  and the dispatch may be executed a second time after its lease expires.
- `ImplementsStore` is `Store!Spec` as a property. It ties the theorems below to the
  service, as long as no caller reuses an id, which recovery can do
  (`MCMailboxReenqueue.cfg`).
- `RecordsStayValid` excepts records that were enqueued with no attempt left, which do
  fail validation (`MCMailboxAttempts.cfg`).
- `ClaimReleased` in `restart` covers a renewal that fails: the run goes on, its lease
  expires, the sweep puts the dispatch back and another execution may start. Whatever the
  two do, the claim is given up.
- `DedupeHolds` excepts dispatches that an interrupt has overtaken, whose lock is free
  before their record is superseded, and pairs of which one was enqueued more slowly than
  the grace of its lock (`MCNatsGrace.cfg`).
- `IndexHeals` excepts what the node's last scan could not read: such a dispatch stays out
  of the thread's list until its record is written again or a node starts.
- `ReadYourWrites` and `View` are about reads whose fetch from the log did not fail
  (`MCBufferedMissedRead.cfg`).
- `FailedNeverVisible` speaks of calls that failed before their commit. An I/O error of the
  commit's answer, or of the release after it, is returned for a committed checkpoint
  (`MCBufferedErrCommitted.cfg`).
- `ExactlyOnce`, `InputIsCommitted` and `NoLostEdit` are about Postgres; on the memory
  store the rollback of a failed commit undoes what others did meanwhile (see the
  disagreements). `TargetRespected` and `BarrierHeld` hold on
  both.
- `ExactlyOnce` and `NoLostEdit` except a steering message that missed its run and was
  queued again under its id: a retraction or an edit of the first record does not bind the
  second, and revisions begin anew (`MCMessagesStaleEdit.cfg`).
- `RunsOnlyWhenApproved` counts deliveries: a call runs once for the gate that let it
  through and once for each delivery of an approval. A dispatch that is retried delivers its
  decision again, and the tool runs again (`MCAgentRetry.cfg`).
- `ModelWaitsForDecisions` speaks of one execution; over re-entries it fails
  (`MCAgentPartial.cfg`).
- `BlamedOnce` allows a second charge to the member after its attempt was evicted, which
  happens (`MCPoolEviction.cfg`). That it is the member that served holds in every case.
- `HeardProbeResolves` excepts circuits whose admitted calls ended in a request error or
  were dropped while their stream opened (`MCPoolProbe.cfg`).

### Fairness

Each liveness property is checked under weak fairness of steps that the code takes
without anyone's help, and nothing else:

| module | fair | because |
|---|---|---|
| `Mailbox` | started submissions, wake-ups, execution tasks, renewals, tails of `cancel` and `interrupt`, sweep, reconciliation, recovery, time | spawned tasks and awaited calls on a running executor, waits with timeouts, the sweep on an interval; that a run ends is the runtime's (stop policies, cancellation) |
| `NatsMailbox` | a node's start, the watcher, the signal sweeper | `Starting` runs before the node serves; watcher and sweeper are tasks of their own, the sweeper on an interval |
| `BufferedThread` | writers, flushers, the delete, expiry of leases | calls in progress, a loop on an interval, a TTL |
| `AgentLoop` | the loop, background tasks | polled futures; tools, inferences and tasks are assumed to end |
| `EventRelay` | the ticks of each relay, time | a loop on an interval; rows are due and leases lapse by the clock |
| `ModelPool` | each request | polled futures; a provider answers, fails, or runs into the idle timeout |

No fairness is assumed of clients, decisions, controls, GC, faults or crashes.

Every listed property has a mutant in `PROJECT.json`: a plausible bug in the modelled
code under which the same run reports the property violated.

### Disagreements between code and documentation

`lost_wakeup` states what a comment of the repository says and ends in a counterexample:
`mailbox.rs:346` and `:377` say that a queued job waits for the current run and that a
transient failure is retried, yet nobody wakes the thread at `retry_at` on stores
without signals. With `Outcomes = {"Natural"}` the same property fails because a
wake-up is dropped by a worker that GC removes or that is giving up an empty claim.

The configurations below do the same for other statements. They are kept beside the
listed runs; each ends in a counterexample, which TLC finds within a minute.

| configuration | property | statement | what happens |
|---|---|---|---|
| `MCMailboxAttempts` | `FailuresPreserveInvariants` | `mailbox_state.rs:65`, `:71`: nack and expired-lease transitions preserve the invariants (`expect`) | `validate_for_enqueue` admits `attempt_count = max_attempts`; the first nack or lost lease counts one more and the `expect` panics |
| `MCMailboxGuard` | `GuardedDispatchReclaimed` | `mailbox.rs:33`: a crash between enqueue and claim is repaired by the sweep | the sweep only reclaims claimed rows; recovery looks once, too early |
| `MCMailboxRenewal` | `RenewalCancelsOwnRun` | `signal_loop.rs:366`: the lease was lost to another process | the renewal of a superseded claim cancels the thread's next run |
| `MCMailboxWaiting` | `WaitingRunStaysSuspended` | `mailbox/tests.rs:7609`: waiting runs stay suspended until input | after a purge, startup recovery resumes them |
| `MCMailboxReenqueue` | `TerminalStaysTerminal` | `contract/mailbox.rs:44`: terminal states are final | recovery's enqueue can replace an acked record |
| `MCNatsGrace` | `NoLockStolen` | `ops_write.rs:218-220`: only a short orphan grace, so concurrent enqueue cannot steal the lock | the enqueue that holds the lock may spend 10 s in `append_thread_index` (`:387`), the grace is 5 s (`:13`), and its put does not look at the lock again |
| `MCBufferedLateFlush` | `InnerNotBehindWatermark` | `nats_buffered_thread_adversarial.rs:298`, `:682`: an old flusher cannot put an older snapshot back | one that passed its check writes it after another flusher has marked the newer one |
| `MCBufferedMissedRead` | `EveryReadSeesWrites` | `nats_buffered_thread/mod.rs:5`: reads serve read-your-writes consistency | a fetch from the log that fails is taken for an entry that is gone (`reader.rs:425`), and the older inner store answers |
| `MCBufferedErrCommitted` | `ErrMeansUncommitted` | `nats_buffered_thread_behavior.rs:470`: post-commit failures surface as `CommitUnknown` | the release after the commit fails and its Io error is returned (`mod.rs:856`), or the commit landed and its answer did not (`wal_state.rs:66`) |
| `MCBufferedStaleRun` | `LatestRunPersisted` | `flusher.rs:13`: entries of every run are persisted | a stale entry is persisted only when its run has no record (`flusher.rs:639`), so an older record stays |
| `MCMessagesOrphan` | `NoOrphanPending` | `memory/tests.rs:1341`: a freeze that fails rolls the append back | when the selection has gone stale, the memory store fails after it has extended its queue, and nobody takes the message out again |
| `MCMessagesRollback` | `CommittedStays` | ADR-0042: committed messages are immutable | `memory_commit_coordinator.rs:62` restores the thread as it was before, and with it drops what others committed meanwhile |
| `MCMessagesStaleEdit` | `EditsDoNotClobber` | `pending_delivery.rs:98`: edits under a revision cannot silently clobber each other | a steering message that misses its run is deleted (`pending_delivery.rs:272`) and queued again under its id with revision 1, so a client that read an earlier record passes the guard over a text it never read |
| `MCAgentRetry` | `DecisionIsIdempotent` | `mailbox/decision.rs:20`: a decision is treated as idempotent | an execution fails after the approved tool ran; it left no checkpoint (`orchestrator.rs:312`), its dispatch is retried with the same decision, and the tool runs again |
| `MCAgentPartial` | `ModelNeverOvertakesDecision` | `runtime/agent_runtime/runner/tests.rs:1888`: nothing reaches the model until the decision arrives | re-entered with one decision of two, the run infers before the other |
| `MCAgentLostEvent` | `AwaitedTasksResume` | `orchestrator.rs:397`: a parked run is taken up when its tasks report | the event is put into the inbox of a run that has decided to park and reads it no more |
| `MCEventGap` | `DeliveredIsWhole` | `protocol_projector_tests.rs:682`, ADR-0034: a restarted projection completes the event | another encoder state yields fewer frames; the row is delivered with a frame missing |
| `MCPoolProbe` | `ProbeResolves` | `circuit_breaker.rs:168`: a consumed probe must resolve | a request error resolves nothing (`pool_executor.rs:679`), nor does a future dropped while its stream opens (`pool_executor_llm.rs:84`): the circuit stays half-open and refuses for ever |
| `MCPoolEviction` | `ChargedOnce` | `pool_executor.rs:505`: a report whose attempt was evicted is skipped | evicted between two lock sections, the attempt is filed anew without its failure and charged again |

Temporal counterexamples are found under `FairSpec`.

`MCMailboxFallback.cfg` is a further configuration that passes: `QueuedBehindRun` on the
path where the foreground interrupt itself fails.

Reuse of an id has a further consequence that bounds what `restart` can say. If
recovery's enqueue replaces a record that is already *claimed*, two tasks of one
process execute the dispatch; with one failing store call besides, the
`finish_execution` of one aborts the other's renewal and the remaining renewal task
keeps the lease of a finished task alive, so the claim is never released. `restart`
therefore checks `ClaimReleased` with a crash or a failing call and not with both.

## 4. What is proved

TLAPS checks the theorems below for every value of the constants that the module's
named assumption allows: any sets of dispatches, callers, messages, relays, members,
calls and tasks, finite where the assumption says so, and any bounds. TLC evaluates those
assumptions in the runs. Each inductive invariant was checked by TLC on the instances of section 3 first.

| module | theorem | states |
|---|---|---|
| `MailboxStoreProofs` | `TypeCorrect` | the maps keep their types |
| | `RecordsValid` | every stored record passes `validate_for_persist`, and a live one has an attempt left, unless it was enqueued without one |
| | `TerminalFinal` | a terminal record is only ever purged |
| | `InterruptFences` | a claim an interrupt has overtaken can only end Superseded |
| | `FencedForGood` | a token a dispatch has lost never becomes its token again |
| | `OneClaim` | with `ClaimLimit = 1`, a thread has at most one claimed dispatch |
| | `QueuedCurrent` | what is queued carries its thread's epoch, and no record is ahead of it |
| | `DedupeUnique` | a key has at most one live dispatch per thread |
| `MailboxProofs` | `ServiceInvariant`, `ServiceIsTyped` | the inductive invariant of the service, and its types |
| | `BusyWorkersAreFreed` | `BusyWorkerHasTask`, under any faults and crashes |
| | `ClaimsAreRenewed`, `ExecutionsAreSingle`, `RefusedNeverRuns` | `ClaimIsRenewed`, `OneLocalExecution`, `RejectedNeverRuns` |
| | `StoreContractIsKept` | until the first crash each step is an operation the store allows |
| | `ServiceImplementsStore` | `ImplementsStore`, when `MaxCrashes = 0` |
| | `ThreadsAreServedSingly` | one claimed dispatch per thread, crashes and recovery included |
| `NatsMailboxProofs` | `KeysAreTyped` | types of keys, locks and operations in flight |
| | `ClaimsAreExclusive` | `OneLiveClaim` |
| | `DedupeIsKept` | `DedupeHolds`, however slow other enqueues are |
| `BufferedThreadProofs` | `StoreSafe`, `BufferedTypeCorrect` | the inductive invariant of the log, and its types |
| | `NumbersAreUnique`, `FailuresStayInvisible` | `SequenceNeverReused`, `FailedNeverVisible` |
| | `ViewSafe` | the inductive invariant of what readers see, when `DrainsInTime` |
| | `WritesAreRead`, `AckedIsSafe` | `ReadYourWrites`, `AckedIsMaterialized`, when `DrainsInTime` |
| | `OverlayImplementsView` | `ImplementsThreadView`, when `DrainsInTime` |
| `ThreadMessagesProofs` | `TypesHold` | types of log, queue, records, callers and clients |
| | `MessagesExactlyOnce` | `ExactlyOnce` |
| | `InputsAreCommitted`, `TargetsRespected`, `BarriersHeld` | `InputIsCommitted`, `TargetRespected`, `BarrierHeld` |
| | `CommittedStayCommitted` | on Postgres no step takes a committed message away |
| | `NoEditLost` | `NoLostEdit`, for any number of clients |
| `AgentLoopProofs` | `LoopInvariant`, `LoopIsTyped` | the inductive invariant of the loop, its checkpoint included, and its types |
| | `ToolCallsArePaired`, `RunsAreApproved` | `PairedTranscript`, `RunsOnlyWhenApproved` |
| | `TasksAreAwaited`, `DecisionsComeFirst` | `NoTaskLeftBehind`, `ModelWaitsForDecisions` |
| `EventRelayProofs` | `RelayIsTyped` | types of rows, log and relays |
| | `EncodingsAreNotMixed`, `FanoutIsPublished`, `OnlyHoldersSettle` | `NeverMixed`, `DeliveredIsPublished`, `ClaimHolderSettles` |
| `ModelPoolProofs` | `PoolIsTyped`, `ChargesAreSingle` | types of the pool; `BlamedOnce` |

### Hypotheses

Three hypotheses appear in theorems, each where the code breaks the property otherwise:
- `OneClaim`: `ClaimLimit = 1`. The store accepts larger limits and then claims several
  dispatches of a thread at once; the mailbox always passes 1, which is how
  `ThreadsAreServedSingly` uses it.
- `ServiceImplementsStore`: `MaxCrashes = 0`. After a crash, recovery may enqueue an id
  again (`MCMailboxReenqueue.cfg`), which the rule on callers of `MailboxStore` forbids.
  `StoreContractIsKept` says the same without the hypothesis, of all steps before the
  first crash.
- `ViewSafe`, `WritesAreRead`, `AckedIsSafe` and `OverlayImplementsView`: `DrainsInTime`, no
  flusher and no delete is past the check of its claim with a write still to come when its
  lease lapses. Their leases may lapse at any other time, and those of writers at any
  time. The check and the write are two calls in the code, so a late write is possible: a
  flusher's puts an older snapshot back (`MCBufferedLateFlush.cfg`), a delete's sets the
  watermark or the commit states of what was written and flushed since.

The other exceptions (a fetch that failed, an enqueue that was slow, a steering message
queued again, a record enqueued with no attempt left) are part of the properties and not
hypotheses: what a theorem says of all other cases it says in the same behaviours.

The assumption of `ThreadMessages` says that no output has the id of an input. Outputs get
generated ids; an input may be given one by its client, and without the assumption a
checkpoint could commit it a second time.

### Arguments

`MailboxStore`. `RecordInv == TypeOK /\ AllSound`, where `Sound(r)` strengthens
`ValidForPersist` by what the transitions need of the record they start from: a live
record has an attempt left, unless it is one enqueued without (`spent`, for which only the
`FieldsValid` part of the validation is kept), and a missing one carries no token and no
lease.
`ValidForPersist` alone is not inductive, because the fenced operations test the
token and not the status: that a matching token means a claimed record is
what `TokenMeansClaimed` gets from `Sound`. The action properties follow from
`NextMove`: in every step each record makes one of a few moves (`Move`). The last three
theorems each add one invariant to `RecordInv` and one lemma on what a step may add
(`NextOnlyClaims`, `EpochChanges`, `OnlyEnqueueAdds`).

`Mailbox`. `ServiceInv == TypeInv /\ WorkerInv /\ FreshInv /\ CalmInv`. The service is
proved over the store's lemmas, not over its definitions: `MailboxProofs` instantiates
`MailboxStoreProofs` (`Proved`), shows once that the two instances are the same store
(`SameRecords` and the other `Same...` lemmas), and uses `RecordInv` and `Move` from
there. `WorkerInv` names the task that will free a busy worker: a wake-up or a submission
that is Claiming for its thread, or an execution whose token the worker carries. It
holds in every state. `FreshInv` says that, until a crash, an id not yet written is
unknown to the store and to every task; it carries the refinement. `CalmInv` holds while
no call failed and nothing crashed (`Calm`): every claimed dispatch has a task that holds
it and renews its lease (`Served`), a task that lost its claim lost it for good or has
put its dispatch back and is about to finish (`Released`), and two tasks in flight have
different dispatches. The three properties need each other: an execution is single
because no lease expires, no lease expires because its claim is renewed, and it is
renewed because the only ways to lose a claim are an end of the dispatch or its own nack.

`NatsMailbox`. `OneLiveClaim` relates two keys written one after the other. The
inductive `GuardInv` says that every lease still running, on a record or about to be
written there, is covered by the claim guard with the same token and a lease at least as
long, that a token belongs to one operation until its record is written, and that nobody
renews or releases the guard with a token that is no longer its own: chores carry
tokens that no record has. `LockInv` does the same for the dedupe lock: a live
dispatch of the current epoch, and an enqueue past its lock, hold it, unless `lock.slow`
has it, and that set only grows.

`BufferedThread`. `StoreInv == TypeInv /\ CountInv /\ StreamInv /\ OriginInv /\ BatchInv`
holds without any hypothesis on leases. `CountInv` bounds the reserved counter by the
number of writers that have one of its numbers, and every other counter by it, so a
reservation is new: the tombstone of a delete keeps the counter. `StreamInv` traces each
entry of the log back to the one writer that published it, who is past its publish.
`OriginInv` says that everything stored, shown or promised (commit states, metadata,
the inner store, what a reader holds) is a committed number, and that a writer on the way to an
error has committed nothing. Most steps neither reserve, publish nor commit; one
lemma (`QuietKeeps`) says what such a step must leave alone, and the steps of flushers,
deleter, reader and leases are instances of it.

`ViewInv` carries the rest. `OrderInv`: whoever may still commit has the hierarchy claim,
by its token even when the lease has lapsed, and its number is above every commit, the
metadata and the watermark; a writer that takes the claim over aborts what was pending
first, so a late writer finds its entry settled. Commits therefore rise. `TailInv`: a
commit the metadata does not cover is still marked committed in the bucket, so reconciling
finds it. `FlushInv`: while a flusher has the flush claim, what it read of the
watermark still separates what is new from what is not, and what it has gone past
(thread, messages, run records) is in the inner store; so it marks only what is there.
`AckInv`: an entry that is acknowledged, or whose commit state is gone, is below the
watermark with its run recorded. `DeleteInv`: past its second wait a delete has
nothing left to flush. The refinement then needs three facts (`Shows`, `ShowsSame`): a
read shows the last commit above the watermark, or the inner store when there is none;
a flusher writes only while there is one; the watermark passes it only when the inner
store has it. Each action is a `Commit`, an `Erase` or a stutter.

`ThreadMessages`. `MessagesInv == TypeInv /\ SoundInv /\ TargetInv /\ PostgresInv`; `EditInv`
adds what the edits need, on Postgres. The
first lemmas are about the queue: what has been taken from a sequence at some of its
positions (`AtIsSelection`), what a selection takes and in particular that a barrier takes all
before it (`SelectFacts`), and what a freeze leaves (`FreezeFacts`). `SoundInv` says that
log and queue hold no input twice, each for itself and in the snapshot of a memory commit
under way, and that the snapshot's log has nothing the log has not. `TargetInv` says that
queue and snapshot carry the mode a message was staged with, and that one still to be tried
as steering is nowhere, so a freeze by another run cannot find it eligible. Both hold on
either store, and `TargetsRespected` and `BarriersHeld` follow. `PlaceInv` relates where a
message is to what its sender knows (acknowledged, retracted, failed, staged) and keeps log
and queue disjoint. `InputInv` adds to `InputIsCommitted` what a loop carries or has cached
from a record, since a checkpoint writes that back. Those two hold on Postgres only, where
nothing is rolled back after others have seen it.

For edits, `TextInv` says that each text is the number of its acknowledged edits, and that a
message that is nowhere has none. An update writes the text after the one that was read, so
this is inductive if what a client read under the revision it names is still the text.
`ReadInv` has that: a message that a client has read was staged, and while it is pending its
revision only grows, with every text. The exception in both (`Carries`, `FellBack`) is the
steering message that fell back, the only one that is staged a second time under one id.

`AgentLoop`. `LoopInv` has, besides types, what each phase of a step may assume of the
calls it has queued, gated and answered (`PipeInv`), what waits (`WaitInv`), that the
task hook's last report is not older than the tasks it saw (`TaskInv`), and a balance of
approvals and runs over the places where a call can be (`LeaveInv`). `SavedInv` says of the
last checkpoint that no call in it is being replayed, that its transcript is paired, and
that between two executions the state is what it says: forgetting the rest therefore loses
no answer and restores no permission to run but that of the retried decision. Decisions and
replays are folded in order of the calls, so two lemmas induct over the batch by its least
counterexample (`LeastOf`, `UpTo`): the library's induction theorems take an
operator as a parameter, which the provers cannot instantiate.

`EventRelay`. `RelayInv` says that the drafts a relay works through are one encoding
of its event, and agree with the stored frames up to where it is: it goes on only when
the stored frame equals its draft. Appending then keeps a prefix of one encoding,
whichever relay appends.

`ModelPool`. While a stream or its report is under way the attempt entry, if there is
one, is the stream's own and names the member that served it, which is what a report is
charged to (`call.charge`), and not where the session is by then; an open stream keeps the
entry from eviction; once the failure is charged the entry says so, unless it was evicted
in between.

### Only model-checked

- Liveness: `FairSpec` properties need ENABLED and fairness, which the prover does not
  handle.
- What a recursive definition computes for every input; the folds above are proved
  about by their steps only.

## 5. Plan

Every safety property of section 3 has its theorem, except those of the counterexamples. What
is left for proofs is the liveness the prover cannot reach.

Further models: the versioned registry with concurrent publishers; the credential
broker's single flight; the connection manager of MCP; the merge of parallel state
updates, stop policies and permission rules as operators against a reference
definition; NATS dispatch signals in full, with the wake-up properties of section 3 for
stores that have them.

## 6. Running

    tlc -config MCMailboxStore.cfg MCMailboxStore
    tlc -config MCMailbox.cfg MCMailbox
    tlapm MailboxProofs.tla

A configuration `MCX...cfg` belongs to the module whose name it begins with:
`MCMailbox*` to `MCMailbox`, `MCNats*` to `MCNatsMailbox`, `MCBuffered*` to
`MCBufferedThread`, `MCMessages*` to `MCThreadMessages`, `MCAgent*` to `MCAgentLoop`,
`MCEvent*` to `MCEventRelay`, `MCPool*` to `MCModelPool`. The passing runs take from a
few seconds to about three minutes each. The proofs take about a minute for
`MailboxStoreProofs`, a few minutes for the others, and about ten for `MailboxProofs` and
`BufferedThreadProofs`.
