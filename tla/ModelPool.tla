------------------------------ MODULE ModelPool ------------------------------
(***************************************************************************)
(* A model pool (awaken-runtime/src/engine): member models behind one       *)
(* executor, sticky sessions, a circuit breaker per member shared by all    *)
(* sessions, and the streaming driver of the agent loop on top, which opens *)
(* a stream again when it breaks.                                           *)
(*                                                                         *)
(* Callers run on several threads. Each lock section is a step of its own:  *)
(* a caller looks at the health of the members, and only then takes the     *)
(* sessions' lock. A provider answers, fails or stalls when it likes. Time  *)
(* is what it decides: whether the cooldown of an open circuit is over.     *)
(* A routing score is an order of preference; a stream's content is left    *)
(* out, but for whether it holds a finished tool call.                      *)
(***************************************************************************)
EXTENDS Naturals, Sequences, FiniteSets, SequencesExt

CONSTANTS
    Members,        \* the pool's members
    Backups,        \* those of role FailoverOnly
    Callers,        \* requests, each with a logical inference id of its own
    Modes,          \* what each may come through: "stream" (execute_streaming), "call"
    Sessions,
    SessionOf,      \* the session of each request
    Preference,     \* session -> the members, best routing score first
    Kinds,          \* errors that occur: subset of {"transient", "quota",
                    \* "permanent", "request"}
    Threshold,      \* failure_threshold
    HalfOpenMax,    \* half_open_max
    MaxSwitches,    \* max_switches_per_session
    StreamLimit,    \* MAX_POOL_STREAM_ATTEMPTS
    StreamRetries   \* max_stream_retries of each request's agent

ASSUME PoolAssumption ==
    /\ Backups \subseteq Members /\ Backups # Members /\ IsFiniteSet(Members)
    /\ Modes \in [Callers -> SUBSET {"stream", "call"}]
    /\ StreamRetries \in [Callers -> Nat]
    /\ SessionOf \in [Callers -> Sessions]
    /\ \A s \in Sessions : /\ Preference[s] \in Seq(Members)
                           /\ ToSet(Preference[s]) = Members
    /\ Kinds \subseteq {"transient", "quota", "permanent", "request"}
    /\ {Threshold, HalfOpenMax} \subseteq Nat \ {0}
    /\ {MaxSwitches, StreamLimit} \subseteq Nat

VARIABLES
    circuit,      \* member -> CircuitState: status, failures, probes, cooled; leaked: a
                  \* call it admitted half-open ended without a word to it (a history)
    quarantined,  \* members that answered with a permanent error
    session,      \* session -> [active, switches]
    attempt,      \* caller -> PoolStreamAttemptState
    call          \* caller -> where it is

vars == <<circuit, quarantined, session, attempt, call>>

Nowhere == "none"

NewCircuit == [status |-> "Closed", failures |-> 0, probes |-> 0, cooled |-> FALSE,
               leaked |-> FALSE]

(* lost: the entry was evicted (a history)                                  *)
NoAttempt ==
    [known |-> FALSE, active |-> Nowhere, tried |-> {}, failed |-> FALSE, live |-> 0,
     ambiguous |-> FALSE, lost |-> FALSE]

(* at      the caller's next step                                           *)
(* why     what the search for a member is for                              *)
(* member  the member it is at                                              *)
(* charge  the member whose failure is being recorded                       *)
(* mask    the members that looked healthy                                  *)
(* keyed   the open stream is filed under the request's attempt             *)
(* open    the open stream has not reported its end                         *)
(* blamed  the members charged with a failure of the latest call (a history)*)
NewCall ==
    [at |-> "Idle", mode |-> "call", why |-> "start", member |-> Nowhere,
     charge |-> Nowhere, mask |-> {},
     tried |-> {}, err |-> "transient", keyed |-> FALSE, open |-> FALSE, retries |-> 0,
     blamed |-> <<>>]

(* A call that has returned                                                 *)
Returned == [NewCall EXCEPT !.at = "Done"]

Init ==
    /\ circuit = [m \in Members |-> NewCircuit]
    /\ quarantined = {}
    /\ session = [s \in Sessions |-> [active |-> Nowhere, switches |-> 0]]
    /\ attempt = [c \in Callers |-> NoAttempt]
    /\ call = [c \in Callers |-> NewCall]

-----------------------------------------------------------------------------
(* The circuit breaker.                                                     *)

(* is_available: would check admit a request?                               *)
CanPass(state) ==
    \/ state.status = "Closed"
    \/ state.status = "Open" /\ state.cooled
    \/ state.status = "HalfOpen" /\ state.probes < HalfOpenMax

(* check, when it admits: what is not closed counts a probe.                *)
Admitted(m) ==
    [circuit EXCEPT ![m] =
       CASE @.status = "Closed"   -> @
         [] @.status = "Open"     -> [@ EXCEPT !.status = "HalfOpen", !.probes = 1,
                                              !.leaked = FALSE]
         [] @.status = "HalfOpen" -> [@ EXCEPT !.probes = @ + 1]]

Succeeded(m) == [circuit EXCEPT ![m] = NewCircuit]

(* record_failure. Beyond the threshold the count makes no difference.      *)
Failed(m) ==
    LET old == circuit[m]
        n == old.failures + 1
    IN  [circuit EXCEPT ![m] =
           [old EXCEPT !.failures = IF n > Threshold THEN Threshold ELSE n,
                       !.cooled = FALSE,
                       !.status = IF @ = "HalfOpen" \/ n >= Threshold THEN "Open" ELSE @]]

\* Mutant: an abandoned stream leaves its probe consumed.
AbandonedSilently(m) == circuit

(* record_abandoned_probe                                                   *)
Abandoned(m) ==
    IF circuit[m].status # "HalfOpen" THEN circuit
    ELSE [circuit EXCEPT ![m].status = "Open", ![m].probes = 0, ![m].cooled = FALSE]

(* A half-open circuit does not hear how a call it admitted has ended.      *)
Unheard(m) == [circuit EXCEPT ![m].leaked = @ \/ circuit[m].status = "HalfOpen"]

(* The cooldown of an open circuit ends.                                    *)
Cooldown(m) ==
    /\ circuit[m].status = "Open" /\ ~circuit[m].cooled
    /\ circuit' = [circuit EXCEPT ![m].cooled = TRUE]
    /\ UNCHANGED <<quarantined, session, attempt, call>>

-----------------------------------------------------------------------------
(* The router, with the default policies: switch on quota, on permanent     *)
(* errors and on open circuits.                                             *)

Healthy == {m \in Members \ quarantined : CanPass(circuit[m])}

(* should_switch_on_error                                                   *)
Switches(k) == k \in {"quota", "permanent"}

(* counts_toward_circuit_breaker: the transient kinds. StreamInterrupted is *)
(* one of them.                                                             *)
Counts(k) == k \in {"transient", "quota"}

(* best_by_score among the accepted members, or none                        *)
Best(s, accepted) ==
    LET ranks == {i \in DOMAIN Preference[s] : Preference[s][i] \in accepted}
    IN  IF ranks = {} THEN Nowhere ELSE Preference[s][Min(ranks)]

(* select_home: a healthy home-eligible member, or else any home-eligible   *)
Home(s, healthy) ==
    LET homes == Members \ Backups
    IN  IF homes \cap healthy # {} THEN Best(s, homes \cap healthy) ELSE Best(s, homes)

SwitchesRemain(s) == session[s].switches < MaxSwitches

-----------------------------------------------------------------------------
(* The stream attempts, one entry per logical inference.                    *)

(* ensure_stream_attempt_capacity: an entry without a live stream makes     *)
(* room, whichever was used longest ago (here: any); without one, the new   *)
(* attempt is not filed.                                                    *)
Filed == {c \in Callers : attempt[c].known}
Evictable(c) == {v \in Filed \ {c} : attempt[v].live = 0}
HasRoom(c) == c \in Filed \/ Cardinality(Filed) < StreamLimit
MakeRoom(c, v) ==
    \/ HasRoom(c) /\ v = c
    \/ ~HasRoom(c) /\ v \in Evictable(c)
CanFile(c) == HasRoom(c) \/ Evictable(c) # {}

(* Filing an entry for c, with the entry of v gone if v is not c.           *)
FiledAs(c, v, entry) ==
    [x \in Callers |-> IF x = c THEN entry
                      ELSE IF x = v THEN [NoAttempt EXCEPT !.lost = TRUE] ELSE attempt[x]]

-----------------------------------------------------------------------------
(* Finding a member.                                                        *)

(* A request arrives: select_active.                                        *)
Start(c) ==
    /\ call[c].at = "Idle"
    /\ \E mode \in Modes[c] :
          call' = [call EXCEPT ![c].at = "Look", ![c].why = "start", ![c].mode = mode]
    /\ UNCHANGED <<circuit, quarantined, session, attempt>>

(* health_mask; a search after a failure leaves out what has been tried.    *)
Look(c) ==
    /\ call[c].at = "Look"
    /\ call' = [call EXCEPT ![c].at = "Choose",
                  ![c].mask = IF call[c].why = "start" THEN Healthy
                              ELSE Healthy \ call[c].tried]
    /\ UNCHANGED <<circuit, quarantined, session, attempt>>

Moved(s, m) == [session EXCEPT ![s].active = m, ![s].switches = @ + 1]

(* The caller turns to member m.                                            *)
Turned(c, m, known) ==
    [call EXCEPT ![c].at = "Check", ![c].member = m, ![c].tried = known \cup {m},
       ![c].mask = {}, ![c].why = "start", ![c].err = "transient", ![c].blamed = <<>>]

(* select_active, under the sessions' lock: the session's member, its home  *)
(* on first use, or another one if its member looks unhealthy.              *)
ChooseActive(c) ==
    LET s    == SessionOf[c]
        now  == session[s].active
        next == Best(s, call[c].mask \ {now})
        leave == now \notin call[c].mask /\ SwitchesRemain(s) /\ next # Nowhere
        home == Home(s, call[c].mask)
    IN  /\ call[c].at = "Choose" /\ call[c].why = "start"
        /\ \/ /\ now = Nowhere
              /\ session' = [session EXCEPT ![s].active = home]
              /\ call' = Turned(c, home, attempt[c].tried)
           \/ /\ now # Nowhere /\ leave
              /\ session' = Moved(s, next)
              /\ call' = Turned(c, next, attempt[c].tried)
           \/ /\ now # Nowhere /\ ~leave
              /\ session' = session
              /\ call' = Turned(c, now, attempt[c].tried)
        /\ UNCHANGED <<circuit, quarantined, attempt>>

(* next_on_error and next_on_unavailable, under the sessions' lock: the     *)
(* member another caller has moved the session to, or a fail-over.          *)
Left(c) == IF call[c].why \in {"Report", "Drop"} THEN call[c].charge ELSE call[c].member

Found(c) ==
    LET s   == SessionOf[c]
        now == session[s].active
    IN  IF now # Left(c) THEN (IF now \in call[c].mask THEN now ELSE Nowhere)
        ELSE IF SwitchesRemain(s) THEN Best(s, call[c].mask \ {Left(c)}) ELSE Nowhere

ShiftSession(c, m) ==
    session' = IF m # Nowhere /\ session[SessionOf[c]].active = Left(c)
               THEN Moved(SessionOf[c], m) ELSE session

(* After a refused or failed call: on to the member found, or the request   *)
(* fails. A stream request merges what its attempt has tried by now.        *)
ChooseNext(c) ==
    /\ call[c].at = "Choose" /\ call[c].why \in {"unavailable", "error"}
    /\ ShiftSession(c, Found(c))
    /\ call' = IF Found(c) = Nowhere THEN [call EXCEPT ![c] = Returned]
               ELSE Turned(c, Found(c), call[c].tried \cup attempt[c].tried)
    /\ UNCHANGED <<circuit, quarantined, attempt>>

(* After a broken stream only the session moves; then the driver goes on.   *)
ChooseLater(c) ==
    /\ call[c].at = "Choose" /\ call[c].why \in {"Report", "Drop"}
    /\ ShiftSession(c, Found(c))
    /\ call' = [call EXCEPT ![c].at = call[c].why, ![c].mask = {}, ![c].tried = {}]
    /\ UNCHANGED <<circuit, quarantined, attempt>>

(* check_member                                                             *)
Check(c) ==
    LET m == call[c].member
    IN  /\ call[c].at = "Check"
        /\ m \notin quarantined /\ CanPass(circuit[m])
        /\ circuit' = Admitted(m)
        /\ call' = [call EXCEPT ![c].at = "Calling"]
        /\ UNCHANGED <<quarantined, session, attempt>>

CheckFails(c) ==
    LET m == call[c].member
    IN  /\ call[c].at = "Check"
        /\ m \in quarantined \/ ~CanPass(circuit[m])
        /\ call' = [call EXCEPT ![c].at = "Look", ![c].why = "unavailable"]
        /\ UNCHANGED <<circuit, quarantined, session, attempt>>

-----------------------------------------------------------------------------
(* The call and its outcome.                                                *)

(* record_failure: an error that does not count leaves the circuit alone.   *)
RecordFailure(m, k) ==
    /\ quarantined' = IF k = "permanent" THEN quarantined \cup {m} ELSE quarantined
    /\ circuit' = IF Counts(k) THEN Failed(m) ELSE Unheard(m)

Blames(c, m) == Append(call[c].blamed, m)

RecordSuccess(c) ==
    /\ circuit' = Succeeded(call[c].member)
    /\ session' = [session EXCEPT ![SessionOf[c]].switches = 0]

(* execute returns.                                                         *)
Answered(c) ==
    /\ call[c].at = "Calling" /\ call[c].mode = "call"
    /\ RecordSuccess(c)
    /\ call' = [call EXCEPT ![c] = Returned]
    /\ UNCHANGED <<quarantined, attempt>>

(* A stream opens: mark_stream_active.                                      *)
Opened(c) ==
    LET a == attempt[c]
        m == call[c].member
        entry == [known |-> TRUE, active |-> m, tried |-> a.tried \cup {m}, failed |-> FALSE,
                  live |-> a.live + 1, ambiguous |-> a.ambiguous \/ a.live > 0,
                  lost |-> FALSE]
    IN  /\ call[c].at = "Calling" /\ call[c].mode = "stream"
        /\ \/ \E v \in Callers : MakeRoom(c, v) /\ attempt' = FiledAs(c, v, entry)
           \/ ~CanFile(c) /\ attempt' = attempt
        /\ call' = [call EXCEPT ![c].at = "Streaming", ![c].open = TRUE,
                      ![c].keyed = CanFile(c), ![c].tried = {}]
        /\ UNCHANGED <<circuit, quarantined, session>>

(* The call, or the opening of the stream, fails: mark_stream_open_failure. *)
CallFails(c, k) ==
    LET a == attempt[c]
        m == call[c].member
        entry == [a EXCEPT !.known = TRUE, !.active = m, !.tried = @ \cup {m}, !.failed = TRUE]
    IN  /\ call[c].at = "Calling"
        /\ RecordFailure(m, k)
        /\ \/ /\ call[c].mode = "stream"
              /\ \E v \in Callers : MakeRoom(c, v) /\ attempt' = FiledAs(c, v, entry)
           \/ /\ call[c].mode = "call" \/ ~CanFile(c)
              /\ attempt' = attempt
        /\ call' = [call EXCEPT ![c] =
                      IF Switches(k) THEN [@ EXCEPT !.at = "Look", !.why = "error",
                                             !.blamed = Blames(c, m)]
                      ELSE Returned]
        /\ UNCHANGED session

(* The future of the call is dropped while it waits for the member: no      *)
(* PoolObservedStream exists yet, so nothing is recorded.                   *)
DropCall(c) ==
    /\ call[c].at = "Calling"
    /\ circuit' = Unheard(call[c].member)
    /\ call' = [call EXCEPT ![c] = Returned]
    /\ UNCHANGED <<quarantined, session, attempt>>

-----------------------------------------------------------------------------
(* Open streams: what PoolObservedStream sees and what the driver does.     *)

(* The attempt's entry belongs to the stream of member m.                   *)
Current(c, m) == attempt[c].known /\ attempt[c].active = m

(* record_stream_attempt_success                                            *)
StreamEnds(c) ==
    LET m == call[c].member
    IN  /\ call[c].at = "Streaming"
        /\ attempt' = IF ~call[c].keyed THEN attempt
                      ELSE IF Current(c, m) THEN [attempt EXCEPT ![c] = NoAttempt]
                      ELSE [attempt EXCEPT ![c].live = @ - 1]
        /\ IF call[c].keyed /\ ~Current(c, m) THEN UNCHANGED <<circuit, session>>
           ELSE RecordSuccess(c)
        /\ call' = [call EXCEPT ![c] = Returned]
        /\ UNCHANGED quarantined

\* Mutant: a stream that has reported a failure may report it again.
NotesFailureEach(c, m, k, finished, keyed) ==
    LET next == IF finished THEN "Report" ELSE "Drop"
    IN  /\ attempt' = IF ~keyed \/ ~Current(c, m) THEN attempt
                      ELSE [attempt EXCEPT ![c].failed = TRUE, ![c].tried = @ \cup {m},
                              ![c].live = IF finished THEN @ - 1 ELSE @]
        /\ call' = [call EXCEPT ![c].at = "Record", ![c].why = next, ![c].err = k,
                      ![c].charge = m, ![c].open = @ /\ ~finished]

(* record_stream_attempt_failure_once, up to the end of its lock: the entry *)
(* notes the failure of member m, and only the first report is recorded.    *)
(* Report and Drop are what the driver does next.                           *)
NotesFailure(c, m, k, finished, keyed) ==
    LET next  == IF finished THEN "Report" ELSE "Drop"
        ended == [attempt[c] EXCEPT !.live = IF finished THEN @ - 1 ELSE @]
        first == ~keyed \/ (Current(c, m) /\ ~attempt[c].failed)
    IN  /\ attempt' = [attempt EXCEPT ![c] =
                         IF ~keyed \/ ~attempt[c].known THEN @
                         ELSE IF ~Current(c, m) THEN ended
                         ELSE [ended EXCEPT !.failed = TRUE, !.tried = @ \cup {m}]]
        /\ call' = [call EXCEPT ![c].at = IF first THEN "Record" ELSE next,
                      ![c].why = next, ![c].err = k, ![c].charge = m,
                      ![c].open = @ /\ ~finished]

(* record_stream_attempt_failure: the failure counts, the entry is filed    *)
(* anew should it be gone, and the session leaves the member if the error   *)
(* or the circuit says so.                                                  *)
Record(c) ==
    LET m == call[c].charge
        k == call[c].err
        a == attempt[c]
        entry == [a EXCEPT !.known = TRUE, !.active = m, !.tried = @ \cup {m}]
        filing == call[c].keyed /\ CanFile(c)
        shift == Switches(k) \/ ~CanPass(circuit'[m])
    IN  /\ call[c].at = "Record"
        /\ RecordFailure(m, k)
        /\ \/ filing /\ \E v \in Callers : MakeRoom(c, v) /\ attempt' = FiledAs(c, v, entry)
           \/ ~filing /\ attempt' = attempt
        /\ call' = [call EXCEPT ![c].at = IF shift THEN "Look" ELSE call[c].why,
                      ![c].tried = IF ~shift THEN {} ELSE IF filing THEN entry.tried ELSE {m},
                      ![c].blamed = Blames(c, m)]
        /\ UNCHANGED session

(* The stream yields an error, and PoolObservedStream records it.           *)
StreamFails(c, k) ==
    /\ call[c].at = "Streaming"
    /\ NotesFailure(c, call[c].member, k, TRUE, call[c].keyed)
    /\ UNCHANGED <<circuit, quarantined, session>>

(* No item within the idle timeout: the driver gives the stream up.         *)
StreamStalls(c) ==
    /\ call[c].at = "Streaming"
    /\ call' = [call EXCEPT ![c].at = "Report", ![c].err = "transient"]
    /\ UNCHANGED <<circuit, quarantined, session, attempt>>

(* The run is cancelled: drive_one_stream drops the stream.                 *)
Cancel(c) ==
    /\ call[c].at = "Streaming"
    /\ call' = [call EXCEPT ![c].at = "Drop", ![c].err = "cancelled"]
    /\ UNCHANGED <<circuit, quarantined, session, attempt>>

(* classify_mid_stream: what the recovery loop takes is reported as         *)
(* StreamInterrupted, a transient kind.                                     *)
Interrupted(k) == Counts(k)

\* Mutant: without an entry to go by, the report blames the session's member.
BlamedMemberOfSession(c) ==
    IF attempt[c].known /\ ~attempt[c].ambiguous THEN attempt[c].active
    ELSE session[SessionOf[c]].active

(* record_stream_member_failure: the member of the request's entry, or none *)
BlamedMember(c) ==
    IF attempt[c].known /\ ~attempt[c].ambiguous THEN attempt[c].active ELSE Nowhere

(* The driver's own report, record_stream_failure.                          *)
Report(c) ==
    LET k == IF Interrupted(call[c].err) THEN "transient" ELSE call[c].err
        m == BlamedMember(c)
    IN  /\ call[c].at = "Report"
        /\ \/ m # Nowhere /\ NotesFailure(c, m, k, FALSE, attempt[c].known)
           \/ /\ m = Nowhere
              /\ call' = [call EXCEPT ![c].at = "Drop", ![c].err = k]
              /\ attempt' = attempt
        /\ UNCHANGED <<circuit, quarantined, session>>

(* record_stream_attempt_abandoned, when an unfinished stream is dropped    *)
DropStream(c) ==
    LET m == call[c].member
        left == [attempt[c] EXCEPT !.live = @ - 1]
        abandons == call[c].open /\ (call[c].keyed => Current(c, m))
    IN  /\ attempt' = IF ~call[c].open \/ ~call[c].keyed \/ ~attempt[c].known THEN attempt
                      ELSE [attempt EXCEPT ![c] = IF Current(c, m) /\ ~@.failed THEN NoAttempt
                                                  ELSE left]
        /\ circuit' = IF abandons THEN Abandoned(m) ELSE circuit

(* execute_streaming opens another stream.                                  *)
Retry(c) ==
    /\ call[c].at = "Drop" /\ Interrupted(call[c].err) /\ call[c].retries < StreamRetries[c]
    /\ DropStream(c)
    /\ call' = [call EXCEPT ![c].at = "Look", ![c].why = "start", ![c].open = FALSE,
                  ![c].retries = @ + 1]
    /\ UNCHANGED <<quarantined, session>>

(* Or it returns: an error, no retry left, a cancellation during the        *)
(* back-off, or a finished tool call to go on with (SynthesizedToolUse).    *)
GiveUp(c) ==
    /\ call[c].at = "Drop"
    /\ DropStream(c)
    /\ call' = [call EXCEPT ![c] = Returned]
    /\ UNCHANGED <<quarantined, session>>

-----------------------------------------------------------------------------
(* A caller's own steps, provider answers included. Only the provider can   *)
(* hold a caller up, and the idle timeout bounds that for streams.          *)
Step(c) ==
    \/ Look(c) \/ ChooseActive(c) \/ ChooseNext(c) \/ ChooseLater(c)
    \/ Check(c) \/ CheckFails(c)
    \/ Answered(c) \/ Opened(c) \/ \E k \in Kinds : CallFails(c, k)
    \/ StreamEnds(c) \/ StreamStalls(c) \/ \E k \in Kinds : StreamFails(c, k)
    \/ Record(c) \/ Report(c) \/ Retry(c) \/ GiveUp(c)

Next ==
    \/ \E c \in Callers : Start(c) \/ Step(c) \/ Cancel(c) \/ DropCall(c)
    \/ \E m \in Members : Cooldown(m)

Spec == Init /\ [][Next]_vars

FairSpec == Spec /\ \A c \in Callers : WF_vars(Step(c))

-----------------------------------------------------------------------------
(* Every variable keeps its type; counters stay within their limits.         *)
PoolTypeOK ==
    LET Place == Members \cup {Nowhere}
    IN  /\ circuit \in [Members -> [status: {"Closed", "Open", "HalfOpen"},
                          failures: 0..Threshold, probes: 0..HalfOpenMax, cooled: BOOLEAN,
                          leaked: BOOLEAN]]
        /\ quarantined \subseteq Members
        /\ session \in [Sessions -> [active: Place, switches: 0..MaxSwitches]]
        /\ attempt \in [Callers -> [known: BOOLEAN, active: Place, tried: SUBSET Members,
                          failed: BOOLEAN, live: 0..1, ambiguous: BOOLEAN, lost: BOOLEAN]]
        /\ \A c \in Callers : call[c].retries \in 0..StreamRetries[c]

(* A failed call or stream is charged once, and to the member that served   *)
(* it: the pool's observed stream, the driver's report and the other        *)
(* callers that move the session never add a second charge or another       *)
(* member, even when the full cache did not take the attempt or dropped it  *)
(* (record_stream_attempt_failure_once, record_stream_member_failure). Only *)
(* after an eviction may the charge be repeated: see ChargedOnce.           *)
BlamedOnce ==
    \A c \in Callers :
       /\ ToSet(call[c].blamed) \subseteq {call[c].member}
       /\ Len(call[c].blamed) > 1 => attempt[c].lost

(* A failed stream is charged at most once, evictions included              *)
(* (record_stream_member_failure: a report whose attempt was evicted is     *)
(* skipped). The entry can be evicted between record_stream_attempt_        *)
(* failure_once and record_stream_attempt_failure, which files it anew as   *)
(* one without a failure.                                                   *)
ChargedOnce == \A c \in Callers : Len(call[c].blamed) <= 1

(* A half-open circuit leaves that state by success, failure or abandonment *)
(* of a call it admitted, through cancellations, stalls and lost entries,   *)
(* unless its member is quarantined or one of those calls ended unheard: an *)
(* error that does not count, or a future dropped before its stream opened  *)
(* (record_abandoned_probe, PoolObservedStream::drop, record_failure).      *)
HeardProbeResolves ==
    \A m \in Members :
       circuit[m].status = "HalfOpen"
       ~> (circuit[m].status # "HalfOpen" \/ m \in quarantined \/ circuit[m].leaked)

(* What the comment of record_abandoned_probe says, "a consumed probe must  *)
(* resolve": a half-open circuit leaves that state, unless its member is    *)
(* quarantined. A request error is not recorded at the circuit.             *)
ProbeResolves ==
    \A m \in Members : circuit[m].status = "HalfOpen"
                       ~> (circuit[m].status # "HalfOpen" \/ m \in quarantined)

=============================================================================
