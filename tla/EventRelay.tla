------------------------------ MODULE EventRelay ------------------------------
(***************************************************************************)
(* From the canonical event log to protocol clients: an appended event      *)
(* leaves a row in the transactional outbox; projector relays claim the     *)
(* row under a lease, encode the event for each wire protocol and append    *)
(* the frames to the protocol replay log; each stored frame leaves an       *)
(* outbox row of its own, which fanout relays publish.                      *)
(*                                                                         *)
(* The relays are processes of one or more servers. Their encoders and      *)
(* projection caches are memory and die with them; rows, events and stored  *)
(* frames are durable. Time is kept as what it decides: whether a claim's   *)
(* lease has lapsed and whether a retried row is due again. A claim token   *)
(* is the attempt it was made with, which no other claim of the row has.    *)
(* One thread's stream is modelled; a frame is its kind and text block, kept *)
(* under its wire event id; stream-wide sequence numbers are left out.      *)
(***************************************************************************)
EXTENDS Naturals, Sequences, FiniteSets, SequencesExt

CONSTANTS
    Script,       \* the canonical events of the thread, by kind
    Wires,        \* wire protocols each event is projected to
    Projectors,   \* relays of the canonical lane
    Fanouts,      \* relays of the protocol replay lane
    Batch,        \* batch_limit of a tick
    MaxAttempts,  \* max_attempts of a row
    CacheLimit,   \* PROJECTION_CACHE_LIMIT
    MaxTroubles   \* bound: crashes, failed calls and outrun leases, together

ASSUME RelayAssumption ==
    /\ Script \in Seq({"start", "text", "step_end", "finish"})
    /\ {Wires, Batch, MaxAttempts, CacheLimit} \subseteq Nat \ {0}
    /\ MaxTroubles \in Nat
    /\ Projectors \cap Fanouts = {}

VARIABLES
    rows,    \* outbox: row id -> [status, attempts, lapsed, later, due, born]
    log,     \* protocol replay log: source event and draft index -> frame
    bus,     \* keys of the frames handed to the publisher
    relay,   \* relay -> [at, todo, wire, drafts, next, enc, cache]
    spent    \* troubles so far

vars == <<rows, log, bus, relay, spent>>

Faulty == spent < MaxTroubles /\ spent' = spent + 1

Relays == Projectors \cup Fanouts

Event == 1..Len(Script)

Wire == 1..Wires

EventRow(e) == [lane |-> "canonical", key |-> <<e>>]

FrameRow(k) == [lane |-> "protocol_replay", key |-> k]

\* f with x added, mapped to v, unless it is there.
Added(f, x, v) == [y \in DOMAIN f \cup {x} |-> IF y \in DOMAIN f THEN f[y] ELSE v]

Lane(r) == IF r \in Projectors THEN "canonical" ELSE "protocol_replay"

(***************************************************************************)
(* The stateful encoder of a protocol stream: text blocks are opened and   *)
(* closed around the deltas, and nothing follows the end of a run.         *)
(***************************************************************************)

FreshEncoder == [open |-> FALSE, count |-> 0, finished |-> FALSE]

CloseText(s) == [s EXCEPT !.open = FALSE, !.count = IF s.open THEN @ + 1 ELSE @]

TextEnd(s) == IF s.open THEN <<<<"text_end", s.count>>>> ELSE <<>>

\* StepEnd and a RunFinish that is not a suspension close the open text first.
StepEnd(s) == [enc |-> CloseText(s), frames |-> TextEnd(s) \o <<<<"finish_step", 0>>>>]

RunFinish(s) ==
    [enc |-> [CloseText(s) EXCEPT !.finished = TRUE],
     frames |-> TextEnd(s) \o <<<<"finish", 0>>>>]

Transcode(s, kind) ==
    CASE s.finished /\ kind # "start" -> [enc |-> s, frames |-> <<>>]
      [] kind = "start" ->
            [enc |-> [s EXCEPT !.finished = FALSE],
             frames |-> <<<<"start", 0>>, <<"run_info", 0>>>>]
      [] kind = "text" /\ ~s.finished ->
            [enc |-> [s EXCEPT !.open = TRUE],
             frames |-> (IF s.open THEN <<>> ELSE <<<<"text_start", s.count>>>>)
                            \o <<<<"text_delta", s.count>>>>]
      [] kind = "step_end" /\ ~s.finished -> StepEnd(s)
      [] kind = "finish" /\ ~s.finished -> RunFinish(s)

(***************************************************************************)
(* The projection cache: drafts are kept until stored, oldest first out    *)
(***************************************************************************)

Cached(cache, e) == {c \in ToSet(cache) : c.event = e}

Remember(cache, entry) ==
    LET known == Cached(cache, entry.event) # {}
        all == IF known
               THEN [i \in DOMAIN cache |->
                        IF cache[i].event = entry.event THEN entry ELSE cache[i]]
               ELSE Append(cache, entry)
    IN IF Len(all) > CacheLimit THEN Tail(all) ELSE all

Idle == [at |-> "idle", todo |-> <<>>, wire |-> 1, drafts |-> <<>>, next |-> 1,
         enc |-> [w \in Wire |-> FreshEncoder], cache |-> [w \in Wire |-> <<>>]]

Init ==
    /\ rows = [id \in {} |-> Idle]
    /\ log = [k \in {} |-> <<>>]
    /\ bus = {}
    /\ relay = [r \in Relays |-> Idle]
    /\ spent = 0

(***************************************************************************)
(* The outbox                                                              *)
(***************************************************************************)

NewRow == [status |-> "pending", attempts |-> 0, lapsed |-> FALSE,
           later |-> FALSE, due |-> TRUE, born |-> Cardinality(DOMAIN rows)]

Appended == Cardinality({id \in DOMAIN rows : id.lane = "canonical"})

\* The next event of the thread is appended, with its outbox row.
AppendEvent ==
    /\ Appended < Len(Script)
    /\ rows' = Added(rows, EventRow(Appended + 1), NewRow)
    /\ UNCHANGED <<log, bus, relay, spent>>

\* A plausible slip: a claim whose relay is gone is never taken over.
ClaimablePending(lane) ==
    {id \in DOMAIN rows : id.lane = lane /\ rows[id].status = "pending" /\ rows[id].due}

Claimable(lane) ==
    {id \in DOMAIN rows :
        /\ id.lane = lane
        /\ \/ rows[id].status = "pending" /\ rows[id].due
           \/ rows[id].status = "claimed" /\ rows[id].lapsed}

\* Rows are taken in the order of available_at: first those never retried, as
\* they were created; the delays decide the order of the others.
MayPrecede(a, b) ==
    \/ rows[b].later
    \/ ~rows[a].later /\ rows[a].born < rows[b].born

Batches(lane) ==
    LET ready == Claimable(lane)
        size == IF Cardinality(ready) < Batch THEN Cardinality(ready) ELSE Batch
    IN {ids \in [1..size -> ready] :
          /\ IsInjective(ids)
          /\ \A i \in 1..size : \A id \in ready \ {ids[j] : j \in 1..i} :
                MayPrecede(ids[i], id)}

\* A tick claims a batch of rows, each under a token of its own.
Claim(r) ==
    /\ relay[r].at = "idle"
    /\ Claimable(Lane(r)) # {}
    /\ \E ids \in Batches(Lane(r)) :
          /\ rows' = [id \in DOMAIN rows |->
                        IF id \in ToSet(ids)
                        THEN [rows[id] EXCEPT !.status = "claimed",
                                              !.attempts = @ + 1, !.lapsed = FALSE]
                        ELSE rows[id]]
          /\ relay' = [relay EXCEPT ![r].at = "deliver",
                         ![r].todo = [i \in DOMAIN ids |->
                             [row |-> ids[i], token |-> rows[ids[i]].attempts + 1]]]
    /\ UNCHANGED <<log, bus, spent>>

Holder(id) ==
    {r \in Relays : [row |-> id, token |-> rows[id].attempts] \in ToSet(relay[r].todo)}

Lapse(id) ==
    /\ rows[id].status = "claimed"
    /\ ~rows[id].lapsed
    /\ rows' = [rows EXCEPT ![id].lapsed = TRUE]
    /\ UNCHANGED <<log, bus, relay>>

\* The lease of a claim nobody works on any more runs out...
LeaseLapses(id) ==
    /\ Holder(id) = {}
    /\ Lapse(id)
    /\ UNCHANGED spent

\* ...or the relay is slower than its lease.
LeaseOutrun(id) ==
    /\ Holder(id) # {}
    /\ Lapse(id)
    /\ Faulty

\* The retry delay of a row that failed is over.
RetryDue(id) ==
    /\ rows[id].status = "pending"
    /\ ~rows[id].due
    /\ rows' = [rows EXCEPT ![id].due = TRUE]
    /\ UNCHANGED <<log, bus, relay, spent>>

(***************************************************************************)
(* A relay's tick: deliver each claimed row, then ack or nack it           *)
(***************************************************************************)

Job(r) == Head(relay[r].todo)

\* A plausible slip: any claim of the row will do.
HoldsAnyClaim(r) == rows[Job(r).row].status = "claimed"

\* The row is still claimed, and with this relay's token.
Holds(r) ==
    /\ rows[Job(r).row].status = "claimed"
    /\ rows[Job(r).row].attempts = Job(r).token

\* The relay's next row, or the end of the tick.
Advanced(r) ==
    [relay EXCEPT ![r].at = IF Len(relay[r].todo) = 1 THEN "idle" ELSE "deliver",
                  ![r].todo = Tail(@), ![r].wire = 1, ![r].drafts = <<>>,
                  ![r].next = 1]

\* The tick ends with an error: what it had claimed is left to its lease.
Dropped(r) ==
    [relay EXCEPT ![r].at = "idle", ![r].todo = <<>>, ![r].wire = 1,
                  ![r].drafts = <<>>, ![r].next = 1]

Acked(r) == IF Holds(r) THEN [rows EXCEPT ![Job(r).row].status = "delivered"] ELSE rows

Nacked(r) ==
    CASE ~Holds(r) -> rows
      [] Holds(r) /\ rows[Job(r).row].attempts >= MaxAttempts ->
            [rows EXCEPT ![Job(r).row].status = "dead_letter"]
      [] Holds(r) /\ rows[Job(r).row].attempts < MaxAttempts ->
            [rows EXCEPT ![Job(r).row].status = "pending",
                         ![Job(r).row].later = TRUE, ![Job(r).row].due = FALSE]

Ack(r) ==
    /\ relay[r].at = "ack"
    /\ rows' = Acked(r)
    /\ relay' = Advanced(r)
    /\ UNCHANGED <<log, bus, spent>>

Nack(r) ==
    /\ relay[r].at = "nack"
    /\ rows' = Nacked(r)
    /\ relay' = Advanced(r)
    /\ UNCHANGED <<log, bus, spent>>

\* The ack or nack itself fails, whether or not it took effect.
SettleFails(r) ==
    /\ relay[r].at \in {"ack", "nack"}
    /\ Faulty
    /\ rows' \in {rows, IF relay[r].at = "ack" THEN Acked(r) ELSE Nacked(r)}
    /\ relay' = Dropped(r)
    /\ UNCHANGED <<log, bus>>

(***************************************************************************)
(* Projection                                                              *)
(***************************************************************************)

\* On to the next protocol, or to the ack after the last.
NextWire(s) ==
    IF s.wire = Wires THEN [s EXCEPT !.at = "ack", !.drafts = <<>>, !.next = 1]
    ELSE [s EXCEPT !.at = "deliver", !.wire = @ + 1, !.drafts = <<>>, !.next = 1]

JobEvent(r) == Job(r).row.key[1]

\* An event stored before is done; one encoded before keeps its drafts; else
\* the encoder of the stream takes it, and the drafts are remembered.
Project(r) ==
    LET s == relay[r]
        known == Cached(s.cache[s.wire], JobEvent(r))
        made == Transcode(s.enc[s.wire], Script[JobEvent(r)])
    IN /\ s.at = "deliver"
       /\ r \in Projectors
       /\ \/ \E c \in known :
                /\ c.stored
                /\ relay' = [relay EXCEPT ![r] = NextWire(s)]
          \/ \E c \in known :
                /\ ~c.stored
                /\ relay' = [relay EXCEPT ![r].at = "append", ![r].drafts = c.drafts,
                                          ![r].next = 1]
          \/ /\ known = {}
             /\ relay' = [relay EXCEPT ![r].at = "append", ![r].drafts = made.frames,
                  ![r].next = 1, ![r].enc[s.wire] = made.enc,
                  ![r].cache[s.wire] = Remember(s.cache[s.wire],
                      [event |-> JobEvent(r), drafts |-> made.frames, stored |-> FALSE])]
       /\ UNCHANGED <<rows, log, bus, spent>>

DraftKey(r) == <<relay[r].wire, JobEvent(r), relay[r].next>>

Draft(r) == relay[r].drafts[relay[r].next]

StoredFrame(k) == k \in DOMAIN log

\* append_replay stores the frame and, in the same transaction, its fanout row.
AppendsFrame(r) ==
    /\ log' = Added(log, DraftKey(r), Draft(r))
    /\ rows' = Added(rows, FrameRow(DraftKey(r)), NewRow)

HasDraft(r) == relay[r].at = "append" /\ relay[r].next <= Len(relay[r].drafts)

StoreFrame(r) ==
    /\ HasDraft(r)
    /\ ~StoredFrame(DraftKey(r))
    /\ AppendsFrame(r)
    /\ relay' = [relay EXCEPT ![r].next = @ + 1]
    /\ UNCHANGED <<bus, spent>>

\* A plausible slip: the stored frame is not compared with the draft.
SameFrameById(r) == StoredFrame(DraftKey(r))

SameFrame(r) == log[DraftKey(r)] = Draft(r)

\* A frame stored before is returned; a different one under its id is a
\* conflict, which fails the delivery.
FindFrame(r) ==
    /\ HasDraft(r)
    /\ StoredFrame(DraftKey(r))
    /\ relay' = IF SameFrame(r) THEN [relay EXCEPT ![r].next = @ + 1]
                                ELSE [relay EXCEPT ![r].at = "nack"]
    /\ UNCHANGED <<rows, log, bus, spent>>

\* All frames of the event are stored.
ProjectDone(r) ==
    LET s == relay[r]
    IN /\ s.at = "append"
       /\ s.next > Len(s.drafts)
       /\ relay' = [relay EXCEPT ![r] =
            NextWire([s EXCEPT !.cache[s.wire] = Remember(@, [event |-> JobEvent(r),
                                  drafts |-> s.drafts, stored |-> TRUE])])]
       /\ UNCHANGED <<rows, log, bus, spent>>

\* A plausible slip: the frame is acknowledged although it was not sent.
PublishNothing(r) ==
    /\ relay[r].at = "deliver"
    /\ r \in Fanouts
    /\ relay' = [relay EXCEPT ![r].at = "ack"]
    /\ UNCHANGED <<rows, log, bus, spent>>

\* A fanout relay loads the stored frame and publishes it.
Publish(r) ==
    /\ relay[r].at = "deliver"
    /\ r \in Fanouts
    /\ bus' = bus \cup {Job(r).row.key}
    /\ relay' = [relay EXCEPT ![r].at = "ack"]
    /\ UNCHANGED <<rows, log, spent>>

\* A load, an append or a publication fails; an append may have committed.
DeliverFails(r) ==
    /\ relay[r].at \in {"deliver", "append"}
    /\ Faulty
    /\ \/ UNCHANGED <<log, rows>>
       \/ HasDraft(r) /\ ~StoredFrame(DraftKey(r)) /\ AppendsFrame(r)
    /\ relay' = [relay EXCEPT ![r].at = "nack"]
    /\ UNCHANGED bus

\* The relay's process dies and is started again.
Crash(r) ==
    /\ relay[r] # Idle
    /\ Faulty
    /\ relay' = [relay EXCEPT ![r] = Idle]
    /\ UNCHANGED <<rows, log, bus>>

(***************************************************************************)
(* Specification                                                           *)
(***************************************************************************)

Tick(r) ==
    \/ Claim(r) \/ Project(r) \/ StoreFrame(r) \/ FindFrame(r) \/ ProjectDone(r)
    \/ Publish(r) \/ Ack(r) \/ Nack(r)

Trouble(r) == SettleFails(r) \/ DeliverFails(r) \/ Crash(r)

Next ==
    \/ AppendEvent
    \/ \E r \in Relays : Tick(r) \/ Trouble(r)
    \/ \E id \in DOMAIN rows : LeaseLapses(id) \/ LeaseOutrun(id) \/ RetryDue(id)

Spec == Init /\ [][Next]_vars

TimePasses == \E id \in DOMAIN rows : LeaseLapses(id) \/ RetryDue(id)

\* Relays run in a loop and calls return; time passes.
FairSpec ==
    /\ Spec
    /\ \A r \in Relays : WF_vars(Tick(r))
    /\ WF_vars(TimePasses)
------------------------------------------------------------------------------
(***************************************************************************)
(* Properties                                                              *)
(***************************************************************************)

FramesOf(w, e) ==
    [i \in {k[3] : k \in {x \in DOMAIN log : x[1] = w /\ x[2] = e}} |-> log[<<w, e, i>>]]

Encoders == [open : BOOLEAN, count : Nat, finished : BOOLEAN]

\* Rows of events and frames, relays whose jobs are rows and whose encoders and
\* caches keep their shape, a fanout row for stored frames only.
RelayTypeOK ==
    /\ \A id \in DOMAIN rows :
          /\ id.lane = "canonical" => id.key[1] \in Event
          /\ id.lane = "protocol_replay" => id.key \in DOMAIN log
          /\ rows[id].status \in {"pending", "claimed", "delivered", "dead_letter"}
          /\ rows[id].attempts \in Nat
    /\ \A k \in DOMAIN log : k[1] \in Wire /\ k[2] \in Event
    /\ bus \subseteq DOMAIN log
    /\ \A r \in Relays :
          /\ \A i \in DOMAIN relay[r].todo : relay[r].todo[i].row \in DOMAIN rows
          /\ relay[r].enc \in [Wire -> Encoders]
          /\ \A w \in Wire : Len(relay[r].cache[w]) <= CacheLimit

\* The numbers of the text blocks among some frames.
Blocks(frames) == {frames[i][2] : i \in DOMAIN frames} \cup {0}

\* Whatever relays with different encoders deliver an event again, its stored
\* frames begin one encoding of it: two encodings are never mixed.
NeverMixed ==
    \A w \in Wire, e \in Event :
        \E s \in [open : BOOLEAN, count : Blocks(FramesOf(w, e)), finished : BOOLEAN] :
            IsPrefix(FramesOf(w, e), Transcode(s, Script[e]).frames)

\* A frame whose fanout row is delivered has been published: no crash, late
\* ack or failed call makes the outbox forget it.
DeliveredIsPublished ==
    \A id \in DOMAIN rows :
        id.lane = "protocol_replay" /\ rows[id].status = "delivered" => id.key \in bus

\* A claimed row is settled only by the relay whose claim is the current one:
\* a relay that outran its lease cannot take it from the one that has it now.
ClaimHolderSettles ==
    [][\A id \in DOMAIN rows :
          rows[id].status = "claimed" /\ rows'[id].status # "claimed" =>
              \E r \in Holder(id) : Job(r).row = id /\ relay'[r] # relay[r]]_vars

\* Every outbox row is delivered or ends as a dead letter, across crashes,
\* failures and leases that run out.
RowsSettle ==
    <>[](\A id \in DOMAIN rows : rows[id].status \in {"delivered", "dead_letter"})

\* What the restart test of the projector says of an interrupted projection:
\* a delivered event has its complete set of frames.
DeliveredIsWhole ==
    \A e \in Event :
        EventRow(e) \in DOMAIN rows /\ rows[EventRow(e)].status = "delivered" =>
            \A w \in Wire :
                \E s \in [open : BOOLEAN, count : 0..Len(Script), finished : {FALSE}] :
                    FramesOf(w, e) = Transcode(s, Script[e]).frames
==============================================================================
