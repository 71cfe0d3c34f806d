--------------------------- MODULE EventRelayProofs ---------------------------
(***************************************************************************)
(* Theorems about EventRelay, for every script, number of protocols, batch *)
(* size, cache and set of relays.                                          *)
(*                                                                         *)
(* NeverMixed: encoders differ, so a second relay may encode an event in   *)
(* another way. What it appends stays one encoding because a relay goes on *)
(* to its next draft only after the stored frame of this one equals it     *)
(* (Appending): the drafts and the stored frames agree up to there.       *)
(*                                                                         *)
(* DeliveredIsPublished: a relay of the fanout lane is about to ack a row  *)
(* only once its frame is on the bus, which forgets nothing.               *)
(*                                                                         *)
(* ClaimHolderSettles: a token is the attempt it was made with, and only   *)
(* its holder's ack or nack takes the claimed status away.                 *)
(***************************************************************************)
EXTENDS EventRelay, FiniteSetTheorems, TLAPS

-----------------------------------------------------------------------------
(* The invariant.                                                          *)

FrameKind == {"start", "run_info", "text_start", "text_delta", "text_end", "finish_step", "finish"}

Frame == FrameKind \X Nat

\* What some encoder would make of event e.
Encodings(e) == {Transcode(s, Script[e]).frames : s \in Encoders}

FrameKey == Wire \X Event \X Nat

RowId == {EventRow(e) : e \in Event} \cup {FrameRow(k) : k \in FrameKey}

RowType == [status : {"pending", "claimed", "delivered", "dead_letter"}, attempts : Nat,
            lapsed : BOOLEAN, later : BOOLEAN, due : BOOLEAN, born : Nat]

JobType == [row : RowId, token : Nat]

EntryType == [event : Event, drafts : Seq(Frame), stored : BOOLEAN]

RelayType == [at : {"idle", "deliver", "append", "ack", "nack"}, todo : Seq(JobType),
              wire : Wire, drafts : Seq(Frame), next : Nat,
              enc : [Wire -> Encoders], cache : [Wire -> Seq(EntryType)]]

RowsOK ==
    /\ IsFiniteSet(DOMAIN rows)
    /\ DOMAIN rows \subseteq RowId
    /\ rows \in [DOMAIN rows -> RowType]
    /\ bus \subseteq DOMAIN log
    /\ \A id \in DOMAIN rows :
          id.lane = "protocol_replay" =>
             /\ id.key \in DOMAIN log
             /\ rows[id].status = "delivered" => id.key \in bus

\* The frames of an event stored for a protocol begin one encoding of it.
LogOK ==
    /\ DOMAIN log \subseteq FrameKey
    /\ \A w \in Wire, e \in Event :
          \E d \in Encodings(e) : \E n \in 0..Len(d) :
             \A i \in Nat : /\ <<w, e, i>> \in DOMAIN log <=> i \in 1..n
                            /\ i \in 1..n => log[<<w, e, i>>] = d[i]

\* A relay at work has a job; all its jobs are rows of its lane.
Jobs(r, s, ids) ==
    /\ s.at # "idle" => s.todo # << >>
    /\ \A i \in DOMAIN s.todo : s.todo[i].row \in ids /\ s.todo[i].row.lane = Lane(r)

\* The drafts before the next one are stored.
Appending(r, s, l) ==
    LET e == s.todo[1].row.key[1]
    IN  s.at = "append" =>
          /\ r \in Projectors
          /\ s.drafts \in Encodings(e)
          /\ s.next \in 1..(Len(s.drafts) + 1)
          /\ \A j \in 1..(s.next - 1) :
                <<s.wire, e, j>> \in DOMAIN l /\ l[<<s.wire, e, j>>] = s.drafts[j]

\* Cached drafts are an encoding of their event.
CacheOK(s) ==
    \A w \in Wire :
        /\ Len(s.cache[w]) <= CacheLimit
        /\ \A i \in DOMAIN s.cache[w] :
              s.cache[w][i].drafts \in Encodings(s.cache[w][i].event)

\* A fanout relay acks what is on the bus.
Acking(r, s, b) == s.at = "ack" /\ r \in Fanouts => s.todo[1].row.key \in b

RelayOK(r, s, ids, l, b) ==
    Jobs(r, s, ids) /\ Appending(r, s, l) /\ CacheOK(s) /\ Acking(r, s, b)

RelayInv ==
    /\ RowsOK
    /\ LogOK
    /\ relay \in [Relays -> RelayType]
    /\ \A r \in Relays : RelayOK(r, relay[r], DOMAIN rows, log, bus)

-----------------------------------------------------------------------------
(* The operators the steps are built from.                                 *)

EventKind == {"start", "text", "step_end", "finish"}

\* Adding keeps what is there.
LEMMA AddedFacts ==
    ASSUME NEW f, NEW x, NEW v
    PROVE  /\ DOMAIN Added(f, x, v) = DOMAIN f \cup {x}
           /\ \A y \in DOMAIN f : Added(f, x, v)[y] = f[y]
           /\ x \notin DOMAIN f => Added(f, x, v)[x] = v
BY DEF Added

\* An encoder makes frames, and is an encoder still.
LEMMA TranscodeFacts ==
    ASSUME NEW s \in Encoders, NEW kind \in EventKind
    PROVE  Transcode(s, kind).enc \in Encoders /\ Transcode(s, kind).frames \in Seq(Frame)
<1>1. /\ s.open \in BOOLEAN /\ s.count \in Nat /\ s.finished \in BOOLEAN
  BY DEF Encoders
<1>2. CloseText(s) \in Encoders
  <2> DEFINE n == IF s.open THEN s.count + 1 ELSE s.count
  <2>1. n \in Nat
    BY <1>1
  <2>2. CloseText(s) = [s EXCEPT !.open = FALSE, !.count = n]
    BY DEF CloseText
  <2> HIDE DEF n
  <2> QED BY <2>1, <2>2 DEF Encoders
<1>3. [CloseText(s) EXCEPT !.finished = TRUE] \in Encoders
  BY <1>2 DEF Encoders
<1>4. [s EXCEPT !.finished = FALSE] \in Encoders /\ [s EXCEPT !.open = TRUE] \in Encoders
  BY DEF Encoders
<1> DEFINE One(b, n) == <<<<b, n>>>>
           Two == <<<<"start", 0>>, <<"run_info", 0>>>>
           Open == IF s.open THEN <<>> ELSE One("text_start", s.count)
<1>5. TextEnd(s) = IF s.open THEN One("text_end", s.count) ELSE <<>>
  BY DEF TextEnd
<1>6. ASSUME NEW b \in FrameKind, NEW n \in Nat PROVE One(b, n) \in Seq(Frame)
  <2> DEFINE x == <<b, n>>
  <2>1. x \in Frame
    BY <1>6 DEF Frame
  <2>2. One(b, n) = <<x>>
    OBVIOUS
  <2> HIDE DEF x, One
  <2> QED BY <2>1, <2>2
<1>e. << >> \in Seq(Frame)
  OBVIOUS
<1>t. Two \in Seq(Frame)
  <2> DEFINE x == <<"start", 0>>
             y == <<"run_info", 0>>
  <2>1. x \in Frame /\ y \in Frame
    BY DEF Frame, FrameKind
  <2>2. Two = <<x, y>>
    OBVIOUS
  <2> HIDE DEF x, y, Two
  <2> QED BY <2>1, <2>2
<1> HIDE DEF One
<1>o. Open \in Seq(Frame)
  BY <1>1, <1>e, <1>6 DEF FrameKind
<1> HIDE DEF Two, Open
<1>x. TextEnd(s) \in Seq(Frame)
  BY <1>1, <1>e, <1>5, <1>6 DEF FrameKind
<1>7. /\ TextEnd(s) \o One("finish_step", 0) \in Seq(Frame)
      /\ TextEnd(s) \o One("finish", 0) \in Seq(Frame)
      /\ Open \o One("text_delta", s.count) \in Seq(Frame)
  <2>1. One("finish_step", 0) \in Seq(Frame) /\ One("finish", 0) \in Seq(Frame) /\ One("text_delta", s.count) \in Seq(Frame)
    BY <1>1, <1>6 DEF FrameKind
  <2> QED BY <1>o, <1>x, <2>1
<1>8. CASE s.finished /\ kind # "start"
  BY <1>e, <1>8 DEF Transcode
<1>9. CASE kind = "start"
  BY <1>4, <1>t, <1>9 DEF Transcode, Two
<1>10. CASE kind = "text" /\ ~s.finished
  <2>1. Transcode(s, kind).frames = Open \o One("text_delta", s.count)
    BY <1>10 DEF Transcode, Open, One
  <2>2. Transcode(s, kind).enc = [s EXCEPT !.open = TRUE]
    BY <1>10 DEF Transcode
  <2> QED BY <1>4, <1>7, <2>1, <2>2
<1>11. CASE kind = "step_end" /\ ~s.finished
  <2>1. Transcode(s, kind) = StepEnd(s)
    BY <1>11 DEF Transcode
  <2>2. StepEnd(s).enc = CloseText(s)
    BY DEF StepEnd
  <2>3. StepEnd(s).frames = TextEnd(s) \o One("finish_step", 0)
    BY DEF StepEnd, One
  <2> QED BY <1>2, <1>7, <2>1, <2>2, <2>3
<1>12. CASE kind = "finish" /\ ~s.finished
  <2>1. Transcode(s, kind) = RunFinish(s)
    BY <1>12 DEF Transcode
  <2>2. RunFinish(s).enc = [CloseText(s) EXCEPT !.finished = TRUE]
    BY DEF RunFinish
  <2>3. RunFinish(s).frames = TextEnd(s) \o One("finish", 0)
    BY DEF RunFinish, One
  <2> QED BY <1>3, <1>7, <2>1, <2>2, <2>3
<1> QED BY <1>8, <1>9, <1>10, <1>11, <1>12 DEF EventKind

\* The script's events have kinds, and there is an encoding of each.
LEMMA EncodingFacts ==
    ASSUME NEW e \in Event
    PROVE  /\ Script[e] \in EventKind
           /\ \A d \in Encodings(e) : d \in Seq(Frame)
           /\ \A s \in Encoders : /\ Transcode(s, Script[e]).frames \in Encodings(e)
                                  /\ Transcode(s, Script[e]).enc \in Encoders
           /\ FreshEncoder \in Encoders
<1>1. Script[e] \in EventKind
  BY RelayAssumption DEF Event, EventKind
<1>2. FreshEncoder \in Encoders
  BY DEF FreshEncoder, Encoders
<1> QED BY <1>1, <1>2, TranscodeFacts DEF Encodings

\* What a cached entry becomes part of.
LEMMA RememberFacts ==
    ASSUME NEW cache \in Seq(EntryType), NEW entry \in EntryType,
           entry.drafts \in Encodings(entry.event), Len(cache) <= CacheLimit,
           \A i \in DOMAIN cache : cache[i].drafts \in Encodings(cache[i].event)
    PROVE  /\ Remember(cache, entry) \in Seq(EntryType)
           /\ Len(Remember(cache, entry)) <= CacheLimit
           /\ \A i \in DOMAIN Remember(cache, entry) :
                 Remember(cache, entry)[i].drafts \in Encodings(Remember(cache, entry)[i].event)
<1> DEFINE known == Cached(cache, entry.event) # {}
           over == [i \in DOMAIN cache |-> IF cache[i].event = entry.event THEN entry ELSE cache[i]]
           all == IF known THEN over ELSE Append(cache, entry)
           Good(q) == \A i \in DOMAIN q : q[i].drafts \in Encodings(q[i].event)
<1>1. Remember(cache, entry) = IF Len(all) > CacheLimit THEN Tail(all) ELSE all
  BY DEF Remember
<1>2. /\ over \in Seq(EntryType) /\ Len(over) = Len(cache)
      /\ \A i \in DOMAIN over : over[i] = entry \/ over[i] = cache[i]
      /\ DOMAIN over = DOMAIN cache
  OBVIOUS
<1>3. Good(over)
  BY <1>2
<1>4. Append(cache, entry) \in Seq(EntryType) /\ Len(Append(cache, entry)) = Len(cache) + 1 /\ Good(Append(cache, entry))
  OBVIOUS
<1>5. all \in Seq(EntryType) /\ Len(all) <= Len(cache) + 1 /\ Good(all)
  BY <1>2, <1>3, <1>4
<1> HIDE DEF all, over, known
<1>6. CacheLimit \in Nat \ {0}
  BY RelayAssumption
<1>7. CASE Len(all) > CacheLimit
  <2>1. Remember(cache, entry) = Tail(all) /\ all # << >>
    BY <1>1, <1>5, <1>6, <1>7
  <2>2. Tail(all) \in Seq(EntryType) /\ Len(Tail(all)) = Len(all) - 1
    BY <1>5, <2>1
  <2>3. Good(Tail(all))
    BY <1>5, <2>1, <2>2
  <2> QED BY <1>5, <1>6, <2>1, <2>2, <2>3
<1>8. CASE ~(Len(all) > CacheLimit)
  BY <1>1, <1>5, <1>6, <1>8
<1> QED BY <1>7, <1>8

-----------------------------------------------------------------------------
(* Steps.                                                                  *)

\* Lanes differ; the rows of a lane name its events or frames.
LEMMA RowFacts ==
    /\ \A e \in Event : EventRow(e) \in RowId /\ EventRow(e).lane = "canonical"
    /\ \A k \in FrameKey : /\ FrameRow(k) \in RowId /\ FrameRow(k).lane = "protocol_replay"
                           /\ FrameRow(k).key = k
    /\ \A id \in RowId : id.lane = "canonical" => id.key[1] \in Event
    /\ \A r \in Projectors : Lane(r) = "canonical"
    /\ \A r \in Fanouts : Lane(r) = "protocol_replay"
<1>1. \A e \in Event : EventRow(e) \in RowId /\ EventRow(e).lane = "canonical" /\ EventRow(e).key[1] = e
  BY DEF RowId, EventRow
<1>2. \A k \in FrameKey : /\ FrameRow(k) \in RowId /\ FrameRow(k).lane = "protocol_replay"
                          /\ FrameRow(k).key = k
  BY DEF RowId, FrameRow
<1>3. \A id \in RowId : id.lane = "canonical" => id.key[1] \in Event
  <2> HIDE DEF FrameKey
  <2> SUFFICES ASSUME NEW id \in RowId, id.lane = "canonical" PROVE id.key[1] \in Event
    OBVIOUS
  <2>1. CASE \E e \in Event : id = EventRow(e)
    BY <1>1, <2>1
  <2>2. CASE \E k \in FrameKey : id = FrameRow(k)
    BY <1>2, <2>2
  <2> QED BY <2>1, <2>2 DEF RowId
<1>4. \A r \in Projectors : Lane(r) = "canonical"
  BY DEF Lane
<1>5. \A r \in Fanouts : Lane(r) = "protocol_replay"
  BY RelayAssumption DEF Lane
<1> QED BY <1>1, <1>2, <1>3, <1>4, <1>5

\* A relay is not disturbed by more rows, frames and publications.
LEMMA GrownFacts ==
    ASSUME NEW r, NEW s, NEW ids, NEW ids2, ids \subseteq ids2, NEW b, NEW b2, b \subseteq b2,
           NEW l, NEW l2, \A k \in DOMAIN l : k \in DOMAIN l2 /\ l2[k] = l[k],
           RelayOK(r, s, ids, l, b)
    PROVE  RelayOK(r, s, ids2, l2, b2)
BY DEF RelayOK, Jobs, Appending, Acking

\* A step of relay r.
LEMMA OneRelay ==
    ASSUME RelayInv, NEW r \in Relays, NEW n \in RelayType, relay' = [relay EXCEPT ![r] = n],
           RowsOK', LogOK', DOMAIN rows \subseteq DOMAIN rows', bus \subseteq bus',
           \A k \in DOMAIN log : k \in DOMAIN log' /\ log'[k] = log[k],
           RelayOK(r, n, DOMAIN rows', log', bus')
    PROVE  RelayInv'
<1>1. relay' \in [Relays -> RelayType] /\ relay'[r] = n /\ \A x \in Relays \ {r} : relay'[x] = relay[x]
  BY DEF RelayInv
<1>2. \A x \in Relays \ {r} : RelayOK(x, relay'[x], DOMAIN rows', log', bus')
  <2> SUFFICES ASSUME NEW x \in Relays \ {r} PROVE RelayOK(x, relay'[x], DOMAIN rows', log', bus')
    OBVIOUS
  <2>1. RelayOK(x, relay[x], DOMAIN rows, log, bus)
    BY DEF RelayInv
  <2>2. RelayOK(x, relay[x], DOMAIN rows', log', bus')
    BY <2>1, GrownFacts
  <2> QED BY <1>1, <2>2
<1> QED BY <1>1, <1>2 DEF RelayInv

\* A step that leaves the relays alone.
LEMMA NoRelay ==
    ASSUME RelayInv, relay' = relay, RowsOK', LogOK', DOMAIN rows \subseteq DOMAIN rows',
           bus \subseteq bus', \A k \in DOMAIN log : k \in DOMAIN log' /\ log'[k] = log[k]
    PROVE  RelayInv'
<1>1. \A x \in Relays : RelayOK(x, relay'[x], DOMAIN rows', log', bus')
  <2> SUFFICES ASSUME NEW x \in Relays PROVE RelayOK(x, relay'[x], DOMAIN rows', log', bus')
    OBVIOUS
  <2>1. RelayOK(x, relay[x], DOMAIN rows, log, bus)
    BY DEF RelayInv
  <2> QED BY <2>1, GrownFacts
<1> QED BY <1>1 DEF RelayInv

\* What the invariant says of one relay.
LEMMA RelayFacts ==
    ASSUME RelayInv, NEW r \in Relays
    PROVE  /\ relay \in [Relays -> RelayType] /\ relay[r] \in RelayType
           /\ Jobs(r, relay[r], DOMAIN rows) /\ Appending(r, relay[r], log)
           /\ CacheOK(relay[r]) /\ Acking(r, relay[r], bus)
           /\ RelayOK(r, relay[r], DOMAIN rows, log, bus)
           /\ relay[r].todo \in Seq(JobType)
           /\ relay[r].at # "idle" => /\ Job(r) = relay[r].todo[1] /\ Job(r) \in JobType
                                      /\ Job(r).row \in DOMAIN rows /\ Job(r).row \in RowId
                                      /\ Job(r).row.lane = Lane(r)
                                      /\ Job(r) \in ToSet(relay[r].todo)
<1>1. /\ relay \in [Relays -> RelayType] /\ relay[r] \in RelayType
      /\ RelayOK(r, relay[r], DOMAIN rows, log, bus)
  BY DEF RelayInv
<1>2. relay[r].todo \in Seq(JobType)
  BY <1>1 DEF RelayType
<1>3. /\ Jobs(r, relay[r], DOMAIN rows) /\ Appending(r, relay[r], log)
      /\ CacheOK(relay[r]) /\ Acking(r, relay[r], bus)
  BY <1>1 DEF RelayOK
<1>4. ASSUME relay[r].at # "idle"
      PROVE  /\ Job(r) = relay[r].todo[1] /\ Job(r) \in JobType
             /\ Job(r).row \in DOMAIN rows /\ Job(r).row \in RowId
             /\ Job(r).row.lane = Lane(r)
             /\ Job(r) \in ToSet(relay[r].todo)
  <2>1. relay[r].todo # << >> /\ 1 \in DOMAIN relay[r].todo
    BY <1>2, <1>3, <1>4 DEF Jobs
  <2>2. Job(r) = relay[r].todo[1] /\ Job(r) \in JobType
    BY <1>2, <2>1 DEF Job
  <2>3. Job(r).row \in RowId
    BY <2>2 DEF JobType
  <2> QED BY <1>3, <2>1, <2>2, <2>3 DEF Jobs, ToSet
<1> QED BY <1>1, <1>2, <1>3, <1>4

\* Rows are updated one at a time; what becomes delivered has been published.
LEMMA RowUpdate ==
    ASSUME RowsOK, NEW id \in DOMAIN rows, NEW x \in RowType, rows' = [rows EXCEPT ![id] = x],
           UNCHANGED <<log, bus>>,
           x.status = "delivered" /\ id.lane = "protocol_replay" =>
              rows[id].status = "delivered" \/ id.key \in bus
    PROVE  RowsOK' /\ DOMAIN rows' = DOMAIN rows
<1>1. DOMAIN rows' = DOMAIN rows /\ rows'[id] = x /\ \A y \in DOMAIN rows \ {id} : rows'[y] = rows[y]
  BY DEF RowsOK
<1>2. rows' \in [DOMAIN rows' -> RowType]
  BY <1>1 DEF RowsOK
<1> QED BY <1>1, <1>2 DEF RowsOK

\* Rows that stay as they are.
LEMMA RowsStay ==
    ASSUME RowsOK, UNCHANGED <<rows, log>>, bus \subseteq bus', bus' \subseteq DOMAIN log
    PROVE  RowsOK'
BY DEF RowsOK

\* A row is added.
LEMMA RowAdded ==
    ASSUME RowsOK, NEW id \in RowId, rows' = Added(rows, id, NewRow), bus' = bus,
           id.lane = "protocol_replay" => id.key \in DOMAIN log',
           DOMAIN log \subseteq DOMAIN log'
    PROVE  /\ RowsOK' /\ DOMAIN rows \subseteq DOMAIN rows'
           /\ \A y \in DOMAIN rows : rows'[y] = rows[y]
<1>1. NewRow \in RowType /\ NewRow.status = "pending"
  <2>1. Cardinality(DOMAIN rows) \in Nat
    BY FS_CardinalityType DEF RowsOK
  <2> QED BY <2>1 DEF NewRow, RowType
<1>2. /\ DOMAIN rows' = DOMAIN rows \cup {id} /\ \A y \in DOMAIN rows : rows'[y] = rows[y]
      /\ id \notin DOMAIN rows => rows'[id] = NewRow
  BY DEF Added
<1>3. IsFiniteSet(DOMAIN rows')
  BY <1>2, FS_AddElement DEF RowsOK
<1>4. rows' \in [DOMAIN rows' -> RowType]
  <2>1. rows' = [y \in DOMAIN rows' |-> rows'[y]]
    BY <1>2 DEF Added
  <2>2. \A y \in DOMAIN rows' : rows'[y] \in RowType
    BY <1>1, <1>2 DEF RowsOK
  <2> QED BY <2>1, <2>2
<1>5. \A y \in DOMAIN rows' :
         y.lane = "protocol_replay" =>
            /\ y.key \in DOMAIN log'
            /\ rows'[y].status = "delivered" => y.key \in bus'
  BY <1>1, <1>2 DEF RowsOK
<1> QED BY <1>2, <1>3, <1>4, <1>5 DEF RowsOK

\* The next event of the thread is appended.
LEMMA AppendEventStep == ASSUME RelayInv, AppendEvent PROVE RelayInv'
<1>1. Appended + 1 \in Event
  <2> DEFINE old == {id \in DOMAIN rows : id.lane = "canonical"}
  <2>1. IsFiniteSet(old)
    BY FS_Subset DEF RelayInv, RowsOK
  <2>2. Cardinality(old) \in Nat
    BY <2>1, FS_CardinalityType
  <2>3. Appended \in Nat /\ Appended < Len(Script)
    BY <2>2 DEF AppendEvent, Appended
  <2>4. Len(Script) \in Nat
    BY RelayAssumption
  <2> QED BY <2>3, <2>4 DEF Event
<1>2. EventRow(Appended + 1) \in RowId /\ EventRow(Appended + 1).lane = "canonical"
  BY <1>1, RowFacts
<1>3. rows' = Added(rows, EventRow(Appended + 1), NewRow) /\ UNCHANGED <<log, bus, relay>>
  BY DEF AppendEvent
<1>4. RowsOK' /\ DOMAIN rows \subseteq DOMAIN rows'
  BY <1>2, <1>3, RowAdded DEF RelayInv
<1>5. LogOK'
  BY <1>3 DEF RelayInv, LogOK
<1> QED BY <1>3, <1>4, <1>5, NoRelay

\* Time passes for a row.
LEMMA TimeStep ==
    ASSUME RelayInv, NEW id \in DOMAIN rows, LeaseLapses(id) \/ LeaseOutrun(id) \/ RetryDue(id)
    PROVE  RelayInv'
<1>0. rows[id] \in RowType /\ RowsOK
  BY DEF RelayInv, RowsOK
<1>1. PICK x \in RowType : rows' = [rows EXCEPT ![id] = x] /\ x.status = rows[id].status
  <2> DEFINE x == [rows[id] EXCEPT !.lapsed = TRUE]
             y == [rows[id] EXCEPT !.due = TRUE]
  <2>1. rows' = [rows EXCEPT ![id] = x] \/ rows' = [rows EXCEPT ![id] = y]
    BY DEF LeaseLapses, LeaseOutrun, Lapse, RetryDue
  <2>2. x \in RowType /\ y \in RowType
    BY <1>0 DEF RowType
  <2>3. x.status = rows[id].status /\ y.status = rows[id].status
    BY <1>0 DEF RowType
  <2> QED BY <2>1, <2>2, <2>3
<1>2. UNCHANGED <<log, bus, relay>>
  BY DEF LeaseLapses, LeaseOutrun, Lapse, RetryDue
<1>3. RowsOK' /\ DOMAIN rows' = DOMAIN rows
  BY <1>0, <1>1, <1>2, RowUpdate
<1>4. LogOK'
  BY <1>2 DEF RelayInv, LogOK
<1> QED BY <1>2, <1>3, <1>4, NoRelay

\* What a tick claims are rows of its lane, at least one.
LEMMA BatchFacts ==
    ASSUME RelayInv, NEW lane, Claimable(lane) # {}, NEW ids \in Batches(lane)
    PROVE  \E size \in Nat \ {0} :
              /\ ids \in [1..size -> DOMAIN rows]
              /\ \A i \in 1..size : ids[i] \in DOMAIN rows /\ ids[i].lane = lane
              /\ ToSet(ids) \subseteq DOMAIN rows
<1> DEFINE ready == Claimable(lane)
           size == IF Cardinality(ready) < Batch THEN Cardinality(ready) ELSE Batch
<1>1. ready \subseteq DOMAIN rows /\ \A id \in ready : id.lane = lane
  BY DEF Claimable
<1>2. IsFiniteSet(ready)
  BY <1>1, FS_Subset DEF RelayInv, RowsOK
<1>3. Cardinality(ready) \in Nat /\ Cardinality(ready) # 0
  BY <1>2, FS_CardinalityType, FS_EmptySet
<1>4. size \in Nat \ {0}
  BY <1>3, RelayAssumption
<1>5. ids \in [1..size -> ready]
  BY DEF Batches
<1> HIDE DEF size, ready
<1>6. ids \in [1..size -> DOMAIN rows] /\ \A i \in 1..size : ids[i] \in DOMAIN rows /\ ids[i].lane = lane
  BY <1>1, <1>5
<1>7. ToSet(ids) \subseteq DOMAIN rows
  BY <1>6 DEF ToSet
<1> QED BY <1>4, <1>6, <1>7

\* A tick claims a batch of rows.
LEMMA ClaimStep == ASSUME RelayInv, NEW r \in Relays, Claim(r) PROVE RelayInv'
<1>0. relay \in [Relays -> RelayType] /\ relay[r] \in RelayType /\ CacheOK(relay[r]) /\ RowsOK
  BY RelayFacts DEF RelayInv
<1>1. PICK ids \in Batches(Lane(r)) :
          /\ rows' = [id \in DOMAIN rows |->
                        IF id \in ToSet(ids)
                        THEN [rows[id] EXCEPT !.status = "claimed",
                                              !.attempts = @ + 1, !.lapsed = FALSE]
                        ELSE rows[id]]
          /\ relay' = [relay EXCEPT ![r].at = "deliver",
                         ![r].todo = [i \in DOMAIN ids |->
                             [row |-> ids[i], token |-> rows[ids[i]].attempts + 1]]]
  BY DEF Claim
<1>2. PICK size \in Nat \ {0} :
              /\ ids \in [1..size -> DOMAIN rows]
              /\ \A i \in 1..size : ids[i] \in DOMAIN rows /\ ids[i].lane = Lane(r)
  BY BatchFacts DEF Claim
<1>3. UNCHANGED <<log, bus>>
  BY DEF Claim
<1> DEFINE todo == [i \in DOMAIN ids |-> [row |-> ids[i], token |-> rows[ids[i]].attempts + 1]]
           n == [relay[r] EXCEPT !.at = "deliver", !.todo = todo]
<1>4. relay' = [relay EXCEPT ![r] = n]
  BY <1>0, <1>1
<1>5. /\ todo \in Seq(JobType) /\ todo # << >> /\ DOMAIN todo = 1..size
      /\ \A i \in DOMAIN todo : todo[i].row = ids[i]
  <2>1. \A i \in 1..size : [row |-> ids[i], token |-> rows[ids[i]].attempts + 1] \in JobType
    <3> SUFFICES ASSUME NEW i \in 1..size
                 PROVE  [row |-> ids[i], token |-> rows[ids[i]].attempts + 1] \in JobType
      OBVIOUS
    <3>1. ids[i] \in RowId /\ rows[ids[i]] \in RowType
      BY <1>0, <1>2 DEF RowsOK
    <3>2. rows[ids[i]].attempts + 1 \in Nat
      BY <3>1 DEF RowType
    <3> QED BY <3>1, <3>2 DEF JobType
  <2>2. DOMAIN ids = 1..size
    BY <1>2
  <2>3. DOMAIN todo = 1..size /\ \A i \in 1..size : todo[i] \in JobType /\ todo[i].row = ids[i]
    BY <2>1, <2>2
  <2>4. todo = [i \in 1..size |-> todo[i]]
    BY <2>2
  <2> HIDE DEF todo
  <2>5. todo \in Seq(JobType)
    BY <2>3, <2>4
  <2>6. todo # << >>
    BY <2>3
  <2> QED BY <2>3, <2>5, <2>6
<1> HIDE DEF todo
<1>6. n \in RelayType /\ n.at = "deliver" /\ n.todo = todo /\ n.cache = relay[r].cache
  BY <1>0, <1>5 DEF RelayType
<1> HIDE DEF n
<1>7. RowsOK' /\ DOMAIN rows' = DOMAIN rows
  <2>1. DOMAIN rows' = DOMAIN rows
    BY <1>1
  <2>2. \A id \in DOMAIN rows : rows'[id] \in RowType /\ (rows'[id].status = "delivered" => rows'[id] = rows[id])
    <3> SUFFICES ASSUME NEW id \in DOMAIN rows
                 PROVE  rows'[id] \in RowType /\ (rows'[id].status = "delivered" => rows'[id] = rows[id])
      OBVIOUS
    <3> DEFINE more == rows[id].attempts + 1
               x == [rows[id] EXCEPT !.status = "claimed", !.attempts = more, !.lapsed = FALSE]
    <3>1. rows[id] \in RowType
      BY <1>0 DEF RowsOK
    <3>2. more \in Nat
      BY <3>1 DEF RowType
    <3>3. rows'[id] = x \/ rows'[id] = rows[id]
      BY <1>1
    <3> HIDE DEF more
    <3>4. x \in RowType /\ x.status = "claimed"
      BY <3>1, <3>2 DEF RowType
    <3> HIDE DEF x
    <3> QED BY <3>1, <3>3, <3>4
  <2>3. rows' \in [DOMAIN rows' -> RowType]
    BY <1>1, <2>1, <2>2
  <2>4. \A id \in DOMAIN rows' :
           id.lane = "protocol_replay" =>
              /\ id.key \in DOMAIN log'
              /\ rows'[id].status = "delivered" => id.key \in bus'
    BY <1>0, <1>3, <2>1, <2>2 DEF RowsOK
  <2>5. IsFiniteSet(DOMAIN rows') /\ DOMAIN rows' \subseteq RowId /\ bus' \subseteq DOMAIN log'
    BY <1>0, <1>3, <2>1 DEF RowsOK
  <2>6. RowsOK'
    BY <2>3, <2>4, <2>5 DEF RowsOK
  <2> QED BY <2>1, <2>6
<1>8. RelayOK(r, n, DOMAIN rows', log', bus')
  <2>1. Jobs(r, n, DOMAIN rows')
    BY <1>2, <1>5, <1>6, <1>7 DEF Jobs
  <2>2. CacheOK(n)
    BY <1>0, <1>6 DEF CacheOK
  <2> QED BY <1>6, <2>1, <2>2 DEF RelayOK, Appending, Acking
<1>9. LogOK'
  BY <1>3 DEF RelayInv, LogOK
<1> QED BY <1>3, <1>4, <1>6, <1>7, <1>8, <1>9, OneRelay

\* A relay that goes on to its next row, or ends its tick, is in order.
LEMMA NextJobFacts ==
    ASSUME RelayInv, NEW r \in Relays, relay[r].at # "idle"
    PROVE  /\ \E n \in RelayType : /\ Advanced(r) = [relay EXCEPT ![r] = n]
                                   /\ RelayOK(r, n, DOMAIN rows, log, bus)
           /\ \E n \in RelayType : /\ Dropped(r) = [relay EXCEPT ![r] = n]
                                   /\ RelayOK(r, n, DOMAIN rows, log, bus)
<1>0. /\ relay \in [Relays -> RelayType] /\ relay[r] \in RelayType /\ CacheOK(relay[r])
      /\ relay[r].todo \in Seq(JobType) /\ Jobs(r, relay[r], DOMAIN rows)
  BY RelayFacts
<1>1. relay[r].todo # << >>
  BY <1>0 DEF Jobs
<1>2. 1 \in Wire /\ << >> \in Seq(Frame) /\ 1 \in Nat /\ << >> \in Seq(JobType)
  BY RelayAssumption DEF Wire
<1>3. ASSUME NEW at \in {"idle", "deliver"}, NEW todo \in Seq(JobType), at # "idle" => todo # << >>,
             \A i \in DOMAIN todo : todo[i].row \in DOMAIN rows /\ todo[i].row.lane = Lane(r)
      PROVE  LET n == [relay[r] EXCEPT !.at = at, !.todo = todo, !.wire = 1, !.drafts = <<>>, !.next = 1]
             IN  n \in RelayType /\ RelayOK(r, n, DOMAIN rows, log, bus)
  <2> DEFINE n == [relay[r] EXCEPT !.at = at, !.todo = todo, !.wire = 1, !.drafts = <<>>, !.next = 1]
  <2>1. n \in RelayType /\ n.at = at /\ n.todo = todo /\ n.cache = relay[r].cache
    BY <1>0, <1>2 DEF RelayType
  <2> HIDE DEF n
  <2>2. Jobs(r, n, DOMAIN rows)
    BY <1>3, <2>1 DEF Jobs
  <2>3. CacheOK(n)
    BY <1>0, <2>1 DEF CacheOK
  <2>4. RelayOK(r, n, DOMAIN rows, log, bus)
    BY <1>3, <2>1, <2>2, <2>3 DEF RelayOK, Appending, Acking
  <2> QED BY <2>1, <2>4 DEF n
<1>4. \E n \in RelayType : Advanced(r) = [relay EXCEPT ![r] = n] /\ RelayOK(r, n, DOMAIN rows, log, bus)
  <2> DEFINE at == IF Len(relay[r].todo) = 1 THEN "idle" ELSE "deliver"
             todo == Tail(relay[r].todo)
             n == [relay[r] EXCEPT !.at = at, !.todo = todo, !.wire = 1, !.drafts = <<>>, !.next = 1]
  <2>1. /\ todo \in Seq(JobType) /\ Len(todo) = Len(relay[r].todo) - 1
        /\ \A i \in DOMAIN todo : i + 1 \in DOMAIN relay[r].todo /\ todo[i] = relay[r].todo[i + 1]
    BY <1>0, <1>1
  <2>2. at # "idle" => Len(todo) # 0
    BY <1>0, <1>1, <2>1
  <2>3. \A i \in DOMAIN todo : todo[i].row \in DOMAIN rows /\ todo[i].row.lane = Lane(r)
    BY <1>0, <2>1 DEF Jobs
  <2>4. Advanced(r) = [relay EXCEPT ![r] = n]
    BY <1>0 DEF Advanced
  <2>5. at \in {"idle", "deliver"}
    OBVIOUS
  <2> HIDE DEF at, todo
  <2>6. n \in RelayType /\ RelayOK(r, n, DOMAIN rows, log, bus)
    <3>1. at # "idle" => todo # << >>
      BY <2>2
    <3> QED BY <1>3, <2>1, <2>3, <2>5, <3>1
  <2> QED BY <2>4, <2>6
<1>5. \E n \in RelayType : Dropped(r) = [relay EXCEPT ![r] = n] /\ RelayOK(r, n, DOMAIN rows, log, bus)
  <2> DEFINE todo == <<>>
             n == [relay[r] EXCEPT !.at = "idle", !.todo = todo, !.wire = 1, !.drafts = <<>>, !.next = 1]
  <2>1. Dropped(r) = [relay EXCEPT ![r] = n]
    BY <1>0 DEF Dropped
  <2>2. todo \in Seq(JobType) /\ DOMAIN todo = {}
    BY <1>2
  <2> HIDE DEF todo
  <2>3. n \in RelayType /\ RelayOK(r, n, DOMAIN rows, log, bus)
    BY <1>3, <2>2
  <2> QED BY <2>1, <2>3
<1> QED BY <1>4, <1>5

\* Acked and nacked rows are in order: what a fanout relay acks is on the bus.
LEMMA SettledFacts ==
    ASSUME RelayInv, NEW r \in Relays, relay[r].at # "idle", UNCHANGED <<log, bus>>,
           \/ relay[r].at = "ack" /\ rows' = Acked(r)
           \/ rows' = Nacked(r)
           \/ rows' = rows
    PROVE  RowsOK' /\ DOMAIN rows' = DOMAIN rows
<1> DEFINE id == Job(r).row
           x == [rows[id] EXCEPT !.status = "delivered"]
           y == [rows[id] EXCEPT !.status = "dead_letter"]
           z == [rows[id] EXCEPT !.status = "pending", !.later = TRUE, !.due = FALSE]
<1>0. /\ id \in DOMAIN rows /\ id.lane = Lane(r) /\ Job(r) = relay[r].todo[1]
      /\ Acking(r, relay[r], bus) /\ RowsOK
  BY RelayFacts DEF RelayInv
<1>1. rows[id] \in RowType
  BY <1>0 DEF RowsOK
<1>2. /\ x \in RowType /\ y \in RowType /\ z \in RowType
      /\ y.status = "dead_letter" /\ z.status = "pending"
  BY <1>1 DEF RowType
<1>3. \/ relay[r].at = "ack" /\ rows' = [rows EXCEPT ![id] = x]
      \/ rows' = [rows EXCEPT ![id] = y]
      \/ rows' = [rows EXCEPT ![id] = z]
      \/ rows' = rows
  <2>1. Acked(r) = rows \/ Acked(r) = [rows EXCEPT ![id] = x]
    BY <1>0 DEF Acked, RowsOK
  <2>2. rows[id].attempts \in Nat /\ MaxAttempts \in Nat
    BY <1>1, RelayAssumption DEF RowType
  <2>3. CASE Holds(r) /\ rows[id].attempts < MaxAttempts
    <3>1. Nacked(r) = [rows EXCEPT ![id].status = "pending", ![id].later = TRUE, ![id].due = FALSE]
      BY <2>2, <2>3 DEF Nacked
    <3>2. [rows EXCEPT ![id].status = "pending", ![id].later = TRUE, ![id].due = FALSE] = [rows EXCEPT ![id] = z]
      BY <1>0 DEF RowsOK
    <3> QED BY <2>1, <3>1, <3>2
  <2>4. CASE Holds(r) /\ rows[id].attempts >= MaxAttempts
    <3>1. ~(rows[id].attempts < MaxAttempts)
      BY <2>2, <2>4
    <3>2. Nacked(r) = [rows EXCEPT ![id].status = "dead_letter"]
      BY <2>4, <3>1 DEF Nacked
    <3>3. [rows EXCEPT ![id].status = "dead_letter"] = [rows EXCEPT ![id] = y]
      BY <1>0 DEF RowsOK
    <3> QED BY <2>1, <3>2, <3>3
  <2>5. CASE ~Holds(r)
    <3>1. Nacked(r) = rows
      BY <2>5 DEF Nacked
    <3> QED BY <2>1, <3>1
  <2> QED BY <2>2, <2>3, <2>4, <2>5
<1> HIDE DEF x, y, z
<1>4. CASE relay[r].at = "ack" /\ rows' = [rows EXCEPT ![id] = x]
  <2>1. id.lane = "protocol_replay" => id.key \in bus
    <3> SUFFICES ASSUME id.lane = "protocol_replay" PROVE id.key \in bus
      OBVIOUS
    <3>1. r \in Fanouts
      BY <1>0, RowFacts DEF Relays
    <3> QED BY <1>0, <1>4, <3>1 DEF Acking
  <2> QED BY <1>0, <1>2, <1>4, <2>1, RowUpdate
<1>5. CASE rows' = [rows EXCEPT ![id] = y] \/ rows' = [rows EXCEPT ![id] = z]
  BY <1>0, <1>2, <1>5, RowUpdate
<1>6. CASE rows' = rows
  BY <1>0, <1>6, RowsStay DEF RowsOK
<1> QED BY <1>3, <1>4, <1>5, <1>6

\* A relay acks, or nacks, and goes on, or fails to.
LEMMA SettleStep ==
    ASSUME RelayInv, NEW r \in Relays, Ack(r) \/ Nack(r) \/ SettleFails(r) PROVE RelayInv'
<1>1. /\ relay[r].at \in {"ack", "nack"} /\ UNCHANGED <<log, bus>>
      /\ \/ relay[r].at = "ack" /\ rows' = Acked(r)
         \/ rows' = Nacked(r)
         \/ rows' = rows
      /\ relay' = Advanced(r) \/ relay' = Dropped(r)
  BY DEF Ack, Nack, SettleFails
<1>2. RowsOK' /\ DOMAIN rows' = DOMAIN rows
  BY <1>1, SettledFacts
<1>3. PICK n \in RelayType : relay' = [relay EXCEPT ![r] = n] /\ RelayOK(r, n, DOMAIN rows, log, bus)
  BY <1>1, NextJobFacts
<1>4. LogOK'
  BY <1>1 DEF RelayInv, LogOK
<1> QED BY <1>1, <1>2, <1>3, <1>4, OneRelay

\* A relay that has just started is in order.
LEMMA IdleFacts == Idle \in RelayType /\ \A q, ids, l, b : RelayOK(q, Idle, ids, l, b)
<1>1. 1 \in Wire /\ CacheLimit \in Nat /\ FreshEncoder \in Encoders
  BY RelayAssumption DEF Wire, FreshEncoder, Encoders
<1>2. << >> \in Seq(Frame) /\ << >> \in Seq(JobType) /\ << >> \in Seq(EntryType) /\ 1 \in Nat
  OBVIOUS
<1>3. Idle \in RelayType
  BY <1>1, <1>2 DEF Idle, RelayType
<1>4. /\ Idle.at = "idle" /\ Idle.todo = << >> /\ \A w \in Wire : Idle.cache[w] = << >>
  BY DEF Idle
<1>5. CacheOK(Idle)
  BY <1>1, <1>4 DEF CacheOK
<1> QED BY <1>3, <1>4, <1>5 DEF RelayOK, Jobs, Appending, Acking

\* A relay's process dies.
LEMMA CrashStep == ASSUME RelayInv, NEW r \in Relays, Crash(r) PROVE RelayInv'
<1>1. relay' = [relay EXCEPT ![r] = Idle] /\ UNCHANGED <<rows, log, bus>>
  BY DEF Crash
<1>2. RowsOK' /\ LogOK'
  BY <1>1 DEF RelayInv, LogOK, RowsOK
<1> QED BY <1>1, <1>2, IdleFacts, OneRelay

\* A fanout relay publishes the frame of its row.
LEMMA PublishStep == ASSUME RelayInv, NEW r \in Relays, Publish(r) PROVE RelayInv'
<1> DEFINE id == Job(r).row
           n == [relay[r] EXCEPT !.at = "ack"]
<1>0. /\ relay \in [Relays -> RelayType] /\ relay[r] \in RelayType /\ CacheOK(relay[r])
      /\ Jobs(r, relay[r], DOMAIN rows) /\ RowsOK /\ LogOK
  BY RelayFacts DEF RelayInv
<1>1. /\ relay[r].at = "deliver" /\ r \in Fanouts /\ bus' = bus \cup {id.key}
      /\ UNCHANGED <<rows, log>>
  BY DEF Publish
<1>2. relay' = [relay EXCEPT ![r] = n]
  BY <1>0 DEF Publish
<1>3. id \in DOMAIN rows /\ id.lane = "protocol_replay" /\ Job(r) = relay[r].todo[1]
  BY <1>1, RelayFacts, RowFacts
<1>4. id.key \in DOMAIN log
  BY <1>0, <1>3 DEF RowsOK
<1>5. n \in RelayType /\ n.at = "ack" /\ n.todo = relay[r].todo /\ n.cache = relay[r].cache
  BY <1>0 DEF RelayType
<1> HIDE DEF n
<1>6. RowsOK'
  <2>1. bus \subseteq bus' /\ bus' \subseteq DOMAIN log
    BY <1>0, <1>1, <1>4 DEF RowsOK
  <2> QED BY <1>0, <1>1, <2>1, RowsStay
<1>7. LogOK'
  BY <1>0, <1>1 DEF LogOK
<1>8. RelayOK(r, n, DOMAIN rows', log', bus')
  <2>1. Jobs(r, n, DOMAIN rows') /\ CacheOK(n)
    BY <1>0, <1>1, <1>5 DEF Jobs, CacheOK
  <2>2. Acking(r, n, bus')
    BY <1>1, <1>3, <1>5 DEF Acking
  <2> QED BY <1>5, <2>1, <2>2 DEF RelayOK, Appending
<1> QED BY <1>1, <1>2, <1>5, <1>6, <1>7, <1>8, OneRelay

\* A projector that is done with a protocol goes on to the next, or to the ack.
LEMMA NextWireFacts ==
    ASSUME RelayInv, NEW r \in Projectors, NEW s \in RelayType, s.at # "idle",
           Jobs(r, s, DOMAIN rows), CacheOK(s)
    PROVE  NextWire(s) \in RelayType /\ RelayOK(r, NextWire(s), DOMAIN rows, log, bus)
<1>1. Wires \in Nat \ {0} /\ s.wire \in Wire /\ << >> \in Seq(Frame) /\ 1 \in Nat
  BY RelayAssumption DEF RelayType
<1>2. s.wire # Wires => s.wire + 1 \in Wire
  BY <1>1 DEF Wire
<1> DEFINE n == [s EXCEPT !.at = "ack", !.drafts = <<>>, !.next = 1]
           m == [s EXCEPT !.at = "deliver", !.wire = @ + 1, !.drafts = <<>>, !.next = 1]
<1>3. n \in RelayType /\ n.at = "ack" /\ n.todo = s.todo /\ n.cache = s.cache
  BY <1>1 DEF RelayType
<1>4. s.wire # Wires => m \in RelayType /\ m.at = "deliver" /\ m.todo = s.todo /\ m.cache = s.cache
  <2> SUFFICES ASSUME s.wire # Wires
               PROVE  m \in RelayType /\ m.at = "deliver" /\ m.todo = s.todo /\ m.cache = s.cache
    OBVIOUS
  <2> DEFINE wire == s.wire + 1
             x == [s EXCEPT !.at = "deliver", !.wire = wire, !.drafts = <<>>, !.next = 1]
  <2>1. m = x
    OBVIOUS
  <2>2. wire \in Wire
    BY <1>2
  <2> HIDE DEF m, wire
  <2>3. x \in RelayType /\ x.at = "deliver" /\ x.todo = s.todo /\ x.cache = s.cache
    BY <1>1, <2>2 DEF RelayType
  <2> QED BY <2>1, <2>3
<1>5. NextWire(s) = n \/ (s.wire # Wires /\ NextWire(s) = m)
  BY DEF NextWire
<1> HIDE DEF n, m
<1>6. r \notin Fanouts
  BY RelayAssumption
<1>7. ASSUME NEW x \in RelayType, x.at \in {"ack", "deliver"}, x.todo = s.todo, x.cache = s.cache
      PROVE  RelayOK(r, x, DOMAIN rows, log, bus)
  BY <1>6, <1>7 DEF RelayOK, Jobs, CacheOK, Appending, Acking
<1> QED BY <1>3, <1>4, <1>5, <1>7

\* What a step of a projector that keeps rows, log and bus has to establish.
LEMMA ProjectorStep ==
    ASSUME RelayInv, NEW r \in Relays, NEW n \in RelayType, relay' = [relay EXCEPT ![r] = n],
           UNCHANGED <<rows, log, bus>>, RelayOK(r, n, DOMAIN rows, log, bus)
    PROVE  RelayInv'
<1>1. RowsOK' /\ LogOK'
  BY DEF RelayInv, LogOK, RowsOK
<1> QED BY <1>1, OneRelay

\* The job of a projector is an event.
LEMMA JobEventFacts ==
    ASSUME RelayInv, NEW r \in Projectors, relay[r].at # "idle"
    PROVE  JobEvent(r) \in Event /\ JobEvent(r) = relay[r].todo[1].row.key[1] /\ r \in Relays
<1>1. r \in Relays
  BY DEF Relays
<1> QED BY <1>1, RelayFacts, RowFacts DEF JobEvent

\* The event is done, has drafts, or is encoded.
LEMMA ProjectStep == ASSUME RelayInv, NEW r \in Relays, Project(r) PROVE RelayInv'
<1> DEFINE s == relay[r]
           e == JobEvent(r)
           w == s.wire
           known == Cached(s.cache[w], e)
           made == Transcode(s.enc[w], Script[e])
<1>0. /\ relay \in [Relays -> RelayType] /\ s \in RelayType /\ CacheOK(s)
      /\ Jobs(r, s, DOMAIN rows)
  BY RelayFacts
<1>1. s.at = "deliver" /\ r \in Projectors /\ UNCHANGED <<rows, log, bus>>
  BY DEF Project
<1>2. e \in Event /\ e = s.todo[1].row.key[1]
  BY <1>1, JobEventFacts
<1>3. w \in Wire /\ s.cache[w] \in Seq(EntryType) /\ s.enc[w] \in Encoders
      /\ s.enc \in [Wire -> Encoders] /\ s.cache \in [Wire -> Seq(EntryType)]
  BY <1>0 DEF RelayType
<1>4. r \notin Fanouts
  BY <1>1, RelayAssumption
<1>5. ASSUME NEW n \in RelayType, n.at = "append", n.todo = s.todo, CacheOK(n), n.next = 1,
             n.drafts \in Encodings(e)
      PROVE  RelayOK(r, n, DOMAIN rows, log, bus)
  <2>1. n.drafts \in Seq(Frame)
    BY <1>5 DEF RelayType
  <2>2. Len(n.drafts) \in Nat
    BY <2>1
  <2>3. 1 \in 1..(Len(n.drafts) + 1) /\ 1..(1 - 1) = {}
    BY <2>2
  <2>4. Appending(r, n, log)
    BY <1>1, <1>2, <1>5, <2>3 DEF Appending
  <2>5. Jobs(r, n, DOMAIN rows)
    BY <1>0, <1>1, <1>5 DEF Jobs
  <2> QED BY <1>4, <1>5, <2>4, <2>5 DEF RelayOK, Acking
<1>6. CASE \E c \in known : c.stored /\ relay' = [relay EXCEPT ![r] = NextWire(s)]
  BY <1>0, <1>1, <1>6, NextWireFacts, ProjectorStep
<1>7. CASE \E c \in known : /\ ~c.stored
                            /\ relay' = [relay EXCEPT ![r].at = "append", ![r].drafts = c.drafts,
                                                     ![r].next = 1]
  <2>1. PICK c \in known : relay' = [relay EXCEPT ![r].at = "append", ![r].drafts = c.drafts, ![r].next = 1]
    BY <1>7
  <2>2. PICK i \in DOMAIN s.cache[w] : c = s.cache[w][i] /\ c.event = e
    BY DEF Cached, ToSet
  <2>3. c \in EntryType /\ c.drafts \in Encodings(e)
    BY <1>0, <1>3, <2>2 DEF CacheOK
  <2> DEFINE n == [s EXCEPT !.at = "append", !.drafts = c.drafts, !.next = 1]
  <2>4. relay' = [relay EXCEPT ![r] = n]
    BY <1>0, <2>1
  <2>5. c.drafts \in Seq(Frame)
    BY <2>3 DEF EntryType
  <2>6. n \in RelayType /\ n.at = "append" /\ n.todo = s.todo /\ n.cache = s.cache /\ n.next = 1
        /\ n.drafts = c.drafts
    BY <1>0, <2>5 DEF RelayType
  <2> HIDE DEF n
  <2>7. CacheOK(n)
    BY <1>0, <2>6 DEF CacheOK
  <2> QED BY <1>1, <1>5, <2>3, <2>4, <2>6, <2>7, ProjectorStep
<1>8. CASE relay' = [relay EXCEPT ![r].at = "append", ![r].drafts = made.frames,
                  ![r].next = 1, ![r].enc[s.wire] = made.enc,
                  ![r].cache[s.wire] = Remember(s.cache[s.wire],
                      [event |-> JobEvent(r), drafts |-> made.frames, stored |-> FALSE])]
  <2> DEFINE frames == made.frames
             entry == [event |-> e, drafts |-> frames, stored |-> FALSE]
             enc == [s.enc EXCEPT ![w] = made.enc]
             more == Remember(s.cache[w], entry)
             cache == [s.cache EXCEPT ![w] = more]
             n == [s EXCEPT !.at = "append", !.drafts = frames, !.next = 1, !.enc = enc, !.cache = cache]
  <2>1. relay' = [relay EXCEPT ![r] = n]
    <3> HIDE DEF made
    <3> QED BY <1>0, <1>8 DEF RelayType
  <2>2. frames \in Encodings(e) /\ frames \in Seq(Frame) /\ made.enc \in Encoders
    BY <1>2, <1>3, EncodingFacts
  <2> HIDE DEF made, frames
  <2>3. enc \in [Wire -> Encoders]
    BY <1>3, <2>2
  <2>4. entry \in EntryType /\ entry.drafts = frames /\ entry.event = e
    BY <1>2, <2>2 DEF EntryType
  <2> HIDE DEF entry, enc
  <2>5. /\ more \in Seq(EntryType) /\ Len(more) <= CacheLimit
        /\ \A i \in DOMAIN more : more[i].drafts \in Encodings(more[i].event)
    BY <1>0, <1>3, <2>2, <2>4, RememberFacts DEF CacheOK
  <2> HIDE DEF more
  <2>6. cache \in [Wire -> Seq(EntryType)] /\ cache[w] = more /\ \A x \in Wire \ {w} : cache[x] = s.cache[x]
    BY <1>3, <2>5
  <2> HIDE DEF cache
  <2>7. /\ n \in RelayType /\ n.at = "append" /\ n.todo = s.todo /\ n.cache = cache /\ n.next = 1
        /\ n.drafts = frames
    BY <1>0, <2>2, <2>3, <2>6 DEF RelayType
  <2> HIDE DEF n
  <2>8. CacheOK(n)
    BY <1>0, <2>5, <2>6, <2>7 DEF CacheOK
  <2> QED BY <1>1, <1>5, <2>1, <2>2, <2>7, <2>8, ProjectorStep
<1> QED BY <1>6, <1>7, <1>8 DEF Project

\* All frames of the event are stored for this protocol.
LEMMA ProjectDoneStep == ASSUME RelayInv, NEW r \in Relays, ProjectDone(r) PROVE RelayInv'
<1> DEFINE s == relay[r]
           e == JobEvent(r)
           w == s.wire
           entry == [event |-> e, drafts |-> s.drafts, stored |-> TRUE]
           more == Remember(s.cache[w], entry)
           cache == [s.cache EXCEPT ![w] = more]
           n == [s EXCEPT !.cache = cache]
<1>0. /\ relay \in [Relays -> RelayType] /\ s \in RelayType /\ CacheOK(s)
      /\ Jobs(r, s, DOMAIN rows) /\ Appending(r, s, log)
  BY RelayFacts
<1>1. s.at = "append" /\ UNCHANGED <<rows, log, bus>> /\ relay' = [relay EXCEPT ![r] = NextWire(n)]
  BY <1>0 DEF ProjectDone
<1>2. r \in Projectors /\ s.drafts \in Encodings(s.todo[1].row.key[1])
  BY <1>0, <1>1 DEF Appending
<1>3. e \in Event /\ e = s.todo[1].row.key[1]
  BY <1>1, <1>2, JobEventFacts
<1>4. w \in Wire /\ s.cache[w] \in Seq(EntryType) /\ s.cache \in [Wire -> Seq(EntryType)] /\ s.drafts \in Seq(Frame)
  BY <1>0 DEF RelayType
<1>5. entry \in EntryType /\ entry.drafts = s.drafts /\ entry.event = e
  BY <1>3, <1>4 DEF EntryType
<1> HIDE DEF entry
<1>6. /\ more \in Seq(EntryType) /\ Len(more) <= CacheLimit
      /\ \A i \in DOMAIN more : more[i].drafts \in Encodings(more[i].event)
  BY <1>0, <1>2, <1>3, <1>4, <1>5, RememberFacts DEF CacheOK
<1> HIDE DEF more
<1>7. cache \in [Wire -> Seq(EntryType)] /\ cache[w] = more /\ \A x \in Wire \ {w} : cache[x] = s.cache[x]
  BY <1>4, <1>6
<1> HIDE DEF cache
<1>8. n \in RelayType /\ n.at = "append" /\ n.todo = s.todo /\ n.cache = cache
  BY <1>0, <1>1, <1>7 DEF RelayType
<1> HIDE DEF n
<1>9. CacheOK(n)
  BY <1>0, <1>6, <1>7, <1>8 DEF CacheOK
<1>10. Jobs(r, n, DOMAIN rows)
  BY <1>0, <1>1, <1>8 DEF Jobs
<1> QED BY <1>1, <1>2, <1>8, <1>9, <1>10, NextWireFacts, ProjectorStep

\* What a relay with a draft left is about to write.
LEMMA DraftFacts ==
    ASSUME RelayInv, NEW r \in Relays, HasDraft(r)
    PROVE  /\ r \in Projectors /\ relay[r].at = "append"
           /\ JobEvent(r) \in Event /\ JobEvent(r) = relay[r].todo[1].row.key[1]
           /\ relay[r].wire \in Wire /\ relay[r].next \in Nat \ {0}
           /\ relay[r].next \in 1..Len(relay[r].drafts) /\ Len(relay[r].drafts) \in Nat
           /\ relay[r].drafts \in Encodings(JobEvent(r))
           /\ \A j \in 1..(relay[r].next - 1) :
                 LET k == <<relay[r].wire, JobEvent(r), j>>
                 IN  k \in DOMAIN log /\ log[k] = relay[r].drafts[j]
           /\ DraftKey(r) = <<relay[r].wire, JobEvent(r), relay[r].next>>
           /\ DraftKey(r) \in FrameKey
<1>0. relay[r] \in RelayType /\ Appending(r, relay[r], log)
  BY RelayFacts
<1>1. relay[r].at = "append" /\ relay[r].next <= Len(relay[r].drafts)
  BY DEF HasDraft
<1>2. /\ r \in Projectors /\ relay[r].drafts \in Encodings(relay[r].todo[1].row.key[1])
      /\ relay[r].next \in 1..(Len(relay[r].drafts) + 1)
      /\ \A j \in 1..(relay[r].next - 1) :
            LET k == <<relay[r].wire, relay[r].todo[1].row.key[1], j>>
            IN  k \in DOMAIN log /\ log[k] = relay[r].drafts[j]
  BY <1>0, <1>1 DEF Appending
<1>3. JobEvent(r) \in Event /\ JobEvent(r) = relay[r].todo[1].row.key[1]
  BY <1>1, <1>2, JobEventFacts
<1>4. relay[r].wire \in Wire /\ Len(relay[r].drafts) \in Nat
  BY <1>0 DEF RelayType
<1>5. relay[r].next \in 1..Len(relay[r].drafts) /\ relay[r].next \in Nat \ {0}
  BY <1>1, <1>2, <1>4
<1>6. DraftKey(r) \in FrameKey
  BY <1>3, <1>4, <1>5 DEF DraftKey, FrameKey
<1> QED BY <1>1, <1>2, <1>3, <1>4, <1>5, <1>6 DEF DraftKey

\* A stored frame continues the encoding the earlier ones began.
LEMMA AppendsFrameFacts ==
    ASSUME RelayInv, NEW r \in Relays, HasDraft(r), ~StoredFrame(DraftKey(r)), AppendsFrame(r), bus' = bus
    PROVE  /\ RowsOK' /\ LogOK' /\ DOMAIN rows \subseteq DOMAIN rows'
           /\ \A y \in DOMAIN rows : rows'[y] = rows[y]
           /\ \A k \in DOMAIN log : k \in DOMAIN log' /\ log'[k] = log[k]
           /\ DraftKey(r) \in DOMAIN log' /\ log'[DraftKey(r)] = Draft(r)
<1> DEFINE w == relay[r].wire
           e == JobEvent(r)
           next == relay[r].next
           drafts == relay[r].drafts
           key == DraftKey(r)
<1>0. /\ e \in Event /\ w \in Wire /\ next \in Nat \ {0} /\ next \in 1..Len(drafts) /\ Len(drafts) \in Nat
      /\ drafts \in Encodings(e) /\ key = <<w, e, next>> /\ key \in FrameKey
      /\ \A j \in 1..(next - 1) : <<w, e, j>> \in DOMAIN log /\ log[<<w, e, j>>] = drafts[j]
  BY DraftFacts
<1>1. key \notin DOMAIN log /\ log' = Added(log, key, Draft(r)) /\ rows' = Added(rows, FrameRow(key), NewRow)
  BY DEF StoredFrame, AppendsFrame
<1>2. /\ DOMAIN log' = DOMAIN log \cup {key} /\ \A k \in DOMAIN log : log'[k] = log[k]
      /\ log'[key] = drafts[next]
  BY <1>1 DEF Added, Draft
<1>3. RowsOK' /\ DOMAIN rows \subseteq DOMAIN rows' /\ \A y \in DOMAIN rows : rows'[y] = rows[y]
  <2>1. FrameRow(key) \in RowId /\ FrameRow(key).key = key
    BY <1>0, RowFacts
  <2>2. bus' = bus /\ DOMAIN log \subseteq DOMAIN log' /\ FrameRow(key).key \in DOMAIN log'
    BY <1>2, <2>1
  <2> QED BY <1>1, <2>1, <2>2, RowAdded DEF RelayInv
<1> HIDE DEF w, e, next, drafts, key
<1>4. ASSUME NEW v \in Wire, NEW f \in Event, v # w \/ f # e
      PROVE  \A i \in Nat : /\ <<v, f, i>> \in DOMAIN log' <=> <<v, f, i>> \in DOMAIN log
                            /\ <<v, f, i>> \in DOMAIN log => log'[<<v, f, i>>] = log[<<v, f, i>>]
  <2>1. \A i : <<v, f, i>> # key
    BY <1>0, <1>4
  <2> QED BY <1>2, <2>1
<1>5. ASSUME NEW i \in Nat
      PROVE  /\ <<w, e, i>> \in DOMAIN log' <=> i \in 1..next
             /\ i \in 1..next => log'[<<w, e, i>>] = drafts[i]
  <2>d. PICK d \in Encodings(e) :
           \E n \in 0..Len(d) :
              \A j \in Nat : /\ <<w, e, j>> \in DOMAIN log <=> j \in 1..n
                             /\ j \in 1..n => log[<<w, e, j>>] = d[j]
    BY <1>0 DEF RelayInv, LogOK
  <2>1. PICK n \in 0..Len(d) :
           \A j \in Nat : /\ <<w, e, j>> \in DOMAIN log <=> j \in 1..n
                          /\ j \in 1..n => log[<<w, e, j>>] = d[j]
    BY <2>d
  <2>2. Len(d) \in Nat
    BY <1>0, <2>1, EncodingFacts
  <2>3. n \in Nat
    BY <2>2
  <2>4. next \notin 1..n
    BY <1>0, <1>1, <2>1
  <2>5. next # 1 => next - 1 \in 1..n
    <3>1. next # 1 => next - 1 \in 1..(next - 1) /\ next - 1 \in Nat
      BY <1>0
    <3>2. next # 1 => <<w, e, next - 1>> \in DOMAIN log
      BY <1>0, <3>1
    <3> QED BY <2>1, <3>1, <3>2
  <2>6. n = next - 1
    BY <1>0, <2>3, <2>4, <2>5
  <2>7. <<w, e, i>> = key <=> i = next
    BY <1>0
  <2>8. <<w, e, i>> \in DOMAIN log <=> i \in 1..(next - 1)
    BY <2>1, <2>6
  <2>9. i \in 1..next <=> i \in 1..(next - 1) \/ i = next
    BY <1>0
  <2>10. <<w, e, i>> \in DOMAIN log' <=> i \in 1..next
    BY <1>2, <2>7, <2>8, <2>9
  <2>11. CASE i = next
    BY <1>2, <2>7, <2>10, <2>11
  <2>12. CASE i # next
    BY <1>0, <1>2, <2>8, <2>9, <2>10, <2>12
  <2> QED BY <2>11, <2>12
<1>6. LogOK'
  <2>1. DOMAIN log' \subseteq FrameKey
    BY <1>0, <1>2 DEF RelayInv, LogOK
  <2>2. ASSUME NEW v \in Wire, NEW f \in Event
        PROVE  \E d \in Encodings(f) : \E n \in 0..Len(d) :
                  \A i \in Nat : /\ <<v, f, i>> \in DOMAIN log' <=> i \in 1..n
                                 /\ i \in 1..n => log'[<<v, f, i>>] = d[i]
    <3>1. CASE v = w /\ f = e
      <4>1. next \in 0..Len(drafts)
        BY <1>0
      <4> QED BY <1>0, <1>5, <3>1, <4>1
    <3>2. CASE v # w \/ f # e
      <4>d. PICK d \in Encodings(f) :
               \E n \in 0..Len(d) :
                  \A i \in Nat : /\ <<v, f, i>> \in DOMAIN log <=> i \in 1..n
                                 /\ i \in 1..n => log[<<v, f, i>>] = d[i]
        BY DEF RelayInv, LogOK
      <4>1. PICK n \in 0..Len(d) :
               \A i \in Nat : /\ <<v, f, i>> \in DOMAIN log <=> i \in 1..n
                              /\ i \in 1..n => log[<<v, f, i>>] = d[i]
        BY <4>d
      <4>2. \A i \in Nat : /\ <<v, f, i>> \in DOMAIN log' <=> i \in 1..n
                           /\ i \in 1..n => log'[<<v, f, i>>] = d[i]
        BY <1>4, <3>2, <4>1
      <4> QED BY <4>1, <4>2
    <3> QED BY <3>1, <3>2
  <2> QED BY <2>1, <2>2 DEF LogOK
<1> QED BY <1>2, <1>3, <1>6 DEF key, next, drafts, Draft

\* A frame is stored, or found.
LEMMA FrameStep == ASSUME RelayInv, NEW r \in Relays, StoreFrame(r) \/ FindFrame(r) PROVE RelayInv'
<1> DEFINE s == relay[r]
           more == s.next + 1
           n == [s EXCEPT !.next = more]
           m == [s EXCEPT !.at = "nack"]
           key == DraftKey(r)
<1>0. /\ relay \in [Relays -> RelayType] /\ s \in RelayType /\ RelayOK(r, s, DOMAIN rows, log, bus)
      /\ Jobs(r, s, DOMAIN rows) /\ CacheOK(s)
  BY RelayFacts
<1>1. HasDraft(r)
  BY DEF StoreFrame, FindFrame
<1>2. /\ r \in Projectors /\ s.at = "append"
      /\ JobEvent(r) = s.todo[1].row.key[1]
      /\ s.next \in Nat \ {0} /\ s.next \in 1..Len(s.drafts) /\ Len(s.drafts) \in Nat
      /\ s.drafts \in Encodings(JobEvent(r))
      /\ \A j \in 1..(s.next - 1) :
            <<s.wire, JobEvent(r), j>> \in DOMAIN log /\ log[<<s.wire, JobEvent(r), j>>] = s.drafts[j]
      /\ key = <<s.wire, JobEvent(r), s.next>>
  BY <1>1, DraftFacts
<1>3. r \notin Fanouts
  BY <1>2, RelayAssumption
<1>4. more \in Nat /\ more \in 1..(Len(s.drafts) + 1) /\ 1..(more - 1) = 1..(s.next - 1) \cup {s.next}
  BY <1>2
<1>5. /\ n \in RelayType /\ n.at = "append" /\ n.todo = s.todo /\ n.cache = s.cache /\ n.next = more
      /\ n.drafts = s.drafts /\ n.wire = s.wire
  <2> HIDE DEF more
  <2> QED BY <1>0, <1>2, <1>4 DEF RelayType
<1>6. m \in RelayType /\ m.at = "nack" /\ m.todo = s.todo /\ m.cache = s.cache
  BY <1>0 DEF RelayType
<1>7. ASSUME NEW ids, DOMAIN rows \subseteq ids, NEW l, key \in DOMAIN l, l[key] = Draft(r),
             \A k \in DOMAIN log : k \in DOMAIN l /\ l[k] = log[k]
      PROVE  RelayOK(r, n, ids, l, bus)
  <2> HIDE DEF n, more
  <2>1. Draft(r) = s.drafts[s.next]
    BY DEF Draft
  <2>2. \A j \in 1..(more - 1) :
           <<s.wire, JobEvent(r), j>> \in DOMAIN l /\ l[<<s.wire, JobEvent(r), j>>] = s.drafts[j]
    BY <1>2, <1>4, <1>7, <2>1
  <2>3. Appending(r, n, l)
    BY <1>2, <1>4, <1>5, <2>2 DEF Appending
  <2>4. Jobs(r, n, ids) /\ CacheOK(n)
    BY <1>0, <1>2, <1>5, <1>7 DEF Jobs, CacheOK
  <2> QED BY <1>3, <2>3, <2>4 DEF RelayOK, Acking
<1>8. RelayOK(r, m, DOMAIN rows, log, bus)
  BY <1>0, <1>2, <1>6 DEF RelayOK, Jobs, CacheOK, Appending, Acking
<1>9. CASE StoreFrame(r)
  <2>1. /\ ~StoredFrame(key) /\ AppendsFrame(r) /\ bus' = bus /\ relay' = [relay EXCEPT ![r] = n]
    BY <1>0, <1>9 DEF StoreFrame
  <2>2. /\ RowsOK' /\ LogOK' /\ DOMAIN rows \subseteq DOMAIN rows'
        /\ \A k \in DOMAIN log : k \in DOMAIN log' /\ log'[k] = log[k]
        /\ key \in DOMAIN log' /\ log'[key] = Draft(r)
    BY <1>1, <2>1, AppendsFrameFacts
  <2> HIDE DEF n, key
  <2>3. RelayOK(r, n, DOMAIN rows', log', bus')
    BY <1>7, <2>1, <2>2
  <2> QED BY <1>5, <2>1, <2>2, <2>3, OneRelay
<1>10. CASE FindFrame(r)
  <2>1. /\ key \in DOMAIN log /\ UNCHANGED <<rows, log, bus>>
        /\ \/ SameFrame(r) /\ relay' = [relay EXCEPT ![r] = n]
           \/ relay' = [relay EXCEPT ![r] = m]
    BY <1>0, <1>10 DEF FindFrame, StoredFrame
  <2>2. CASE SameFrame(r) /\ relay' = [relay EXCEPT ![r] = n]
    <3>1. log[key] = Draft(r)
      BY <2>2 DEF SameFrame
    <3> HIDE DEF n, key
    <3>2. RelayOK(r, n, DOMAIN rows, log, bus)
      BY <1>7, <2>1, <3>1
    <3> QED BY <1>5, <2>1, <2>2, <3>2, ProjectorStep
  <2>3. CASE relay' = [relay EXCEPT ![r] = m]
    BY <1>6, <1>8, <2>1, <2>3, ProjectorStep
  <2> QED BY <2>1, <2>2, <2>3
<1> QED BY <1>9, <1>10

\* A load, an append or a publication fails, after it took effect or before.
LEMMA DeliverFailsStep == ASSUME RelayInv, NEW r \in Relays, DeliverFails(r) PROVE RelayInv'
<1> DEFINE s == relay[r]
           m == [s EXCEPT !.at = "nack"]
<1>0. /\ relay \in [Relays -> RelayType] /\ s \in RelayType /\ Jobs(r, s, DOMAIN rows) /\ CacheOK(s)
  BY RelayFacts
<1>1. /\ s.at \in {"deliver", "append"} /\ bus' = bus
      /\ \/ UNCHANGED <<log, rows>>
         \/ HasDraft(r) /\ ~StoredFrame(DraftKey(r)) /\ AppendsFrame(r)
      /\ relay' = [relay EXCEPT ![r] = m]
  BY <1>0 DEF DeliverFails
<1>2. m \in RelayType /\ m.at = "nack" /\ m.todo = s.todo /\ m.cache = s.cache
  BY <1>0 DEF RelayType
<1> HIDE DEF m
<1>3. RelayOK(r, m, DOMAIN rows, log, bus)
  BY <1>0, <1>1, <1>2 DEF RelayOK, Jobs, CacheOK, Appending, Acking
<1>4. CASE UNCHANGED <<log, rows>>
  BY <1>1, <1>2, <1>3, <1>4, ProjectorStep
<1>5. CASE HasDraft(r) /\ ~StoredFrame(DraftKey(r)) /\ AppendsFrame(r)
  <2>1. /\ RowsOK' /\ LogOK' /\ DOMAIN rows \subseteq DOMAIN rows'
        /\ \A k \in DOMAIN log : k \in DOMAIN log' /\ log'[k] = log[k]
    BY <1>1, <1>5, AppendsFrameFacts
  <2>2. RelayOK(r, m, DOMAIN rows', log', bus')
    BY <1>1, <1>3, <2>1, GrownFacts
  <2> QED BY <1>1, <1>2, <2>1, <2>2, OneRelay
<1> QED BY <1>1, <1>4, <1>5

-----------------------------------------------------------------------------
(* The invariant holds.                                                    *)

\* The invariant holds at first.
LEMMA RelayInit == Init => RelayInv
<1> SUFFICES ASSUME Init PROVE RelayInv
  OBVIOUS
<1>1. DOMAIN rows = {} /\ DOMAIN log = {} /\ bus = {} /\ relay = [r \in Relays |-> Idle]
  BY DEF Init
<1>2. RowsOK
  <2>1. IsFiniteSet(DOMAIN rows)
    BY <1>1, FS_EmptySet
  <2>2. rows = [id \in {} |-> Idle]
    BY DEF Init
  <2> QED BY <1>1, <2>1, <2>2 DEF RowsOK
<1>3. LogOK
  <2>1. ASSUME NEW w \in Wire, NEW e \in Event
        PROVE  \E d \in Encodings(e) : \E n \in 0..Len(d) :
                  \A i \in Nat : /\ <<w, e, i>> \in DOMAIN log <=> i \in 1..n
                                 /\ i \in 1..n => log[<<w, e, i>>] = d[i]
    <3>1. PICK d \in Encodings(e) : d \in Seq(Frame)
      BY EncodingFacts
    <3>2. 0 \in 0..Len(d) /\ 1..0 = {}
      BY <3>1
    <3> QED BY <1>1, <3>1, <3>2
  <2> QED BY <1>1, <2>1 DEF LogOK
<1>4. Idle \in RelayType /\ \A q, ids, l, b : RelayOK(q, Idle, ids, l, b)
  BY IdleFacts
<1> QED BY <1>1, <1>2, <1>3, <1>4 DEF RelayInv

\* Every step keeps the invariant.
LEMMA RelayStep == RelayInv /\ [Next]_vars => RelayInv'
<1> SUFFICES ASSUME RelayInv, [Next]_vars PROVE RelayInv'
  OBVIOUS
<1>1. CASE AppendEvent
  BY <1>1, AppendEventStep
<1>2. ASSUME NEW r \in Relays, Tick(r) PROVE RelayInv'
  <2>1. Claim(r) \/ Publish(r) \/ Ack(r) \/ Nack(r) => RelayInv'
    BY ClaimStep, PublishStep, SettleStep
  <2>2. Project(r) \/ StoreFrame(r) \/ FindFrame(r) \/ ProjectDone(r) => RelayInv'
    BY ProjectStep, FrameStep, ProjectDoneStep
  <2> QED BY <1>2, <2>1, <2>2 DEF Tick
<1>3. ASSUME NEW r \in Relays, Trouble(r) PROVE RelayInv'
  BY <1>3, SettleStep, DeliverFailsStep, CrashStep DEF Trouble
<1>4. CASE \E id \in DOMAIN rows : LeaseLapses(id) \/ LeaseOutrun(id) \/ RetryDue(id)
  BY <1>4, TimeStep
<1>5. CASE UNCHANGED vars
  <2>1. UNCHANGED <<rows, log, bus, relay>>
    BY <1>5 DEF vars
  <2>2. RowsOK' /\ LogOK'
    BY <2>1 DEF RelayInv, RowsOK, LogOK
  <2> QED BY <2>1, <2>2, NoRelay
<1> QED BY <1>1, <1>2, <1>3, <1>4, <1>5 DEF Next

\* The invariant holds in every behaviour.
LEMMA RelayInvHolds == Spec => []RelayInv
BY RelayInit, RelayStep, PTL DEF Spec

\* Frames that begin an encoding begin one with a block number of theirs.
LEMMA BlockFacts ==
    ASSUME NEW s \in Encoders, NEW kind \in EventKind, NEW f,
           1 \in DOMAIN f, f[1] = Transcode(s, kind).frames[1],
           Transcode(s, kind).frames # << >>
    PROVE  \E t \in [open : BOOLEAN, count : Blocks(f), finished : BOOLEAN] :
              Transcode(t, kind).frames = Transcode(s, kind).frames
<1> DEFINE z == [s EXCEPT !.count = 0]
<1>0. s.open \in BOOLEAN /\ s.count \in Nat /\ s.finished \in BOOLEAN
  BY DEF Encoders
<1>1. 1 \in DOMAIN f /\ f[1] = Transcode(s, kind).frames[1]
  OBVIOUS
<1>2. f[1][2] \in Blocks(f) /\ 0 \in Blocks(f)
  BY <1>1 DEF Blocks
<1>3. z \in [open : BOOLEAN, count : Blocks(f), finished : BOOLEAN] /\ z.open = s.open /\ z.finished = s.finished
  BY <1>2 DEF Encoders
<1> HIDE DEF z
<1>4. CASE s.count = f[1][2]
  <2>1. s \in [open : BOOLEAN, count : Blocks(f), finished : BOOLEAN]
    BY <1>0, <1>2, <1>4 DEF Encoders
  <2> QED BY <2>1
<1>5. CASE Transcode(z, kind).frames = Transcode(s, kind).frames
  BY <1>3, <1>5
<1>6. CASE s.finished /\ kind # "start"
  <2>1. Transcode(s, kind).frames = << >>
    BY <1>6 DEF Transcode
  <2> QED BY <2>1
<1>7. CASE kind = "start"
  <2>1. Transcode(z, kind).frames = Transcode(s, kind).frames
    BY <1>3, <1>7 DEF Transcode
  <2> QED BY <1>5, <2>1
<1>8. CASE kind = "text" /\ ~s.finished
  <2>1. Transcode(s, kind).frames = (IF s.open THEN <<>> ELSE <<<<"text_start", s.count>>>>)
                                       \o <<<<"text_delta", s.count>>>>
    BY <1>8 DEF Transcode
  <2>2. Transcode(s, kind).frames[1][2] = s.count
    <3>1. CASE s.open
      BY <2>1, <3>1
    <3>2. CASE ~s.open
      BY <2>1, <3>2
    <3> QED BY <3>1, <3>2
  <2> QED BY <1>1, <1>4, <2>2
<1>9. CASE s.open /\ kind \in {"step_end", "finish"} /\ ~s.finished
  <2>1. TextEnd(s) = <<<<"text_end", s.count>>>>
    BY <1>9 DEF TextEnd
  <2>2. \E x : Transcode(s, kind).frames = TextEnd(s) \o <<x>>
    <3>1. CASE kind = "step_end"
      BY <1>9, <3>1 DEF Transcode, StepEnd
    <3>2. CASE kind = "finish"
      BY <1>9, <3>2 DEF Transcode, RunFinish
    <3> QED BY <1>9, <3>1, <3>2
  <2>3. Transcode(s, kind).frames[1][2] = s.count
    BY <2>1, <2>2
  <2> QED BY <1>1, <1>4, <2>3
<1>10. CASE ~s.open /\ kind \in {"step_end", "finish"} /\ ~s.finished
  <2>1. TextEnd(s) = TextEnd(z)
    BY <1>3, <1>10 DEF TextEnd
  <2>2. Transcode(z, kind).frames = Transcode(s, kind).frames
    <3>1. CASE kind = "step_end"
      BY <1>3, <1>10, <2>1, <3>1 DEF Transcode, StepEnd
    <3>2. CASE kind = "finish"
      BY <1>3, <1>10, <2>1, <3>2 DEF Transcode, RunFinish
    <3> QED BY <1>10, <3>1, <3>2
  <2> QED BY <1>5, <2>2
<1> QED BY <1>0, <1>6, <1>7, <1>8, <1>9, <1>10 DEF EventKind

\* Stored frames that agree with an encoding are the beginning of it.
LEMMA LogBeginsEncoding == RelayInv => NeverMixed
<1> SUFFICES ASSUME RelayInv, NEW w \in Wire, NEW e \in Event
             PROVE  \E s \in [open : BOOLEAN, count : Blocks(FramesOf(w, e)), finished : BOOLEAN] :
                       IsPrefix(FramesOf(w, e), Transcode(s, Script[e]).frames)
  BY DEF NeverMixed
<1> DEFINE f == FramesOf(w, e)
<1>1. PICK d \in Encodings(e) :
         \E n \in 0..Len(d) :
            \A i \in Nat : /\ <<w, e, i>> \in DOMAIN log <=> i \in 1..n
                           /\ i \in 1..n => log[<<w, e, i>>] = d[i]
  BY DEF RelayInv, LogOK
<1>2. PICK n \in 0..Len(d) :
         \A i \in Nat : /\ <<w, e, i>> \in DOMAIN log <=> i \in 1..n
                        /\ i \in 1..n => log[<<w, e, i>>] = d[i]
  BY <1>1
<1>3. d \in Seq(Frame) /\ Len(d) \in Nat /\ n \in Nat /\ n <= Len(d)
  <2>1. d \in Seq(Frame)
    BY EncodingFacts
  <2>2. Len(d) \in Nat
    BY <2>1
  <2> QED BY <2>1, <2>2
<1>4. PICK s \in Encoders : d = Transcode(s, Script[e]).frames
  BY DEF Encodings
<1>5. f = [i \in 1..n |-> d[i]]
  <2> DEFINE indices == {k[3] : k \in {x \in DOMAIN log : x[1] = w /\ x[2] = e}}
  <2>1. indices = 1..n
    <3>1. \A i \in 1..n : i \in indices
      <4> SUFFICES ASSUME NEW i \in 1..n PROVE i \in indices
        OBVIOUS
      <4>1. <<w, e, i>> \in DOMAIN log
        BY <1>2, <1>3
      <4>2. <<w, e, i>>[1] = w /\ <<w, e, i>>[2] = e /\ <<w, e, i>>[3] = i
        OBVIOUS
      <4> QED BY <4>1, <4>2
    <3>2. \A k \in DOMAIN log : k[1] = w /\ k[2] = e => k[3] \in 1..n
      <4> SUFFICES ASSUME NEW k \in DOMAIN log, k[1] = w, k[2] = e PROVE k[3] \in 1..n
        OBVIOUS
      <4>1. k \in FrameKey
        BY DEF RelayInv, LogOK
      <4>2. k = <<w, e, k[3]>> /\ k[3] \in Nat
        BY <4>1 DEF FrameKey
      <4> QED BY <1>2, <4>2
    <3> QED BY <3>1, <3>2
  <2>2. f = [i \in indices |-> log[<<w, e, i>>]]
    BY DEF FramesOf
  <2> HIDE DEF indices, f
  <2>3. \A i \in 1..n : log[<<w, e, i>>] = d[i]
    BY <1>2, <1>3
  <2> QED BY <2>1, <2>2, <2>3
<1> HIDE DEF f
<1>6. Len(f) = n /\ f \in Seq(Frame) /\ \A i \in 1..n : f[i] = d[i]
  <2>1. \A i \in 1..n : d[i] \in Frame
    BY <1>3
  <2> QED BY <1>3, <1>5, <2>1
<1>7. IsPrefix(f, d)
  BY <1>3, <1>6 DEF IsPrefix
<1>8. CASE n = 0
  <2> DEFINE t == [open |-> FALSE, count |-> 0, finished |-> FALSE]
  <2>1. t \in [open : BOOLEAN, count : Blocks(f), finished : BOOLEAN] /\ t \in Encoders
    BY DEF Blocks, Encoders
  <2> HIDE DEF t
  <2>2. Transcode(t, Script[e]).frames \in Seq(Frame)
    BY <2>1, EncodingFacts, TranscodeFacts
  <2>3. IsPrefix(f, Transcode(t, Script[e]).frames)
    BY <1>6, <1>8, <2>2 DEF IsPrefix
  <2> QED BY <2>1, <2>3 DEF f
<1>9. CASE n # 0
  <2>1. n \in Nat \ {0} /\ Script[e] \in EventKind
    BY <1>3, <1>9, EncodingFacts
  <2>2. PICK t \in [open : BOOLEAN, count : Blocks(f), finished : BOOLEAN] :
           Transcode(t, Script[e]).frames = d
    <3>1. 1 \in DOMAIN f /\ f[1] = Transcode(s, Script[e]).frames[1]
      BY <1>4, <1>5, <1>6, <2>1
    <3>2. Transcode(s, Script[e]).frames # << >>
      BY <1>3, <1>4, <2>1
    <3>3. \E t \in [open : BOOLEAN, count : Blocks(f), finished : BOOLEAN] :
             Transcode(t, Script[e]).frames = Transcode(s, Script[e]).frames
      BY <2>1, <3>1, <3>2, BlockFacts
    <3> QED BY <1>4, <3>3
  <2> QED BY <1>7, <2>2 DEF f
<1> QED BY <1>8, <1>9

\* The invariant bounds and types what the model keeps, and its delivered rows
\* are published.
LEMMA RelayInvImplies == RelayInv => RelayTypeOK /\ DeliveredIsPublished
<1> SUFFICES ASSUME RelayInv PROVE RelayTypeOK /\ DeliveredIsPublished
  OBVIOUS
<1>1. \A id \in DOMAIN rows :
          /\ id.lane = "canonical" => id.key[1] \in Event
          /\ id.lane = "protocol_replay" => id.key \in DOMAIN log
          /\ rows[id].status \in {"pending", "claimed", "delivered", "dead_letter"}
          /\ rows[id].attempts \in Nat
  BY RowFacts DEF RelayInv, RowsOK, RowType
<1>2. \A k \in DOMAIN log : k[1] \in Wire /\ k[2] \in Event
  BY DEF RelayInv, LogOK, FrameKey
<1>3. \A r \in Relays : /\ \A i \in DOMAIN relay[r].todo : relay[r].todo[i].row \in DOMAIN rows
                        /\ relay[r].enc \in [Wire -> Encoders]
                        /\ \A w \in Wire : Len(relay[r].cache[w]) <= CacheLimit
  BY RelayFacts DEF Jobs, CacheOK, RelayType
<1>4. RelayTypeOK
  BY <1>1, <1>2, <1>3 DEF RelayTypeOK, RelayInv, RowsOK
<1>5. DeliveredIsPublished
  BY DEF DeliveredIsPublished, RelayInv, RowsOK
<1> QED BY <1>4, <1>5

\* Whoever takes the claimed status of a row away holds its current claim.
LEMMA SettledByHolder ==
    ASSUME RelayInv, [Next]_vars, NEW id \in DOMAIN rows,
           rows[id].status = "claimed", rows'[id].status # "claimed"
    PROVE  \E r \in Holder(id) : Job(r).row = id /\ relay'[r] # relay[r]
<1>0. rows \in [DOMAIN rows -> RowType]
  BY DEF RelayInv, RowsOK
<1>1. ASSUME NEW r \in Relays, relay[r].at \in {"ack", "nack"}, rows' = Acked(r) \/ rows' = Nacked(r),
             relay' = Advanced(r) \/ relay' = Dropped(r)
      PROVE  \E q \in Holder(id) : Job(q).row = id /\ relay'[q] # relay[q]
  <2>1. Holds(r) /\ Job(r).row = id
    <3>1. rows' # rows
      OBVIOUS
    <3>2. Holds(r)
      BY <1>1, <3>1 DEF Acked, Nacked
    <3>3. CASE Job(r).row # id
      <4>1. Acked(r)[id] = rows[id]
        BY <1>0, <3>2, <3>3 DEF Acked
      <4>2. Nacked(r)[id] = rows[id]
        <5>1. Job(r).row \in DOMAIN rows
          BY <1>1, RelayFacts
        <5>2. rows[Job(r).row].attempts \in Nat /\ MaxAttempts \in Nat
          BY <1>0, <5>1, RelayAssumption DEF RowType
        <5>3. CASE rows[Job(r).row].attempts >= MaxAttempts
          <6>1. ~(rows[Job(r).row].attempts < MaxAttempts)
            BY <5>2, <5>3
          <6>2. Nacked(r) = [rows EXCEPT ![Job(r).row].status = "dead_letter"]
            BY <3>2, <5>3, <6>1 DEF Nacked
          <6> QED BY <1>0, <3>3, <6>2
        <5>4. CASE ~(rows[Job(r).row].attempts >= MaxAttempts)
          <6>1. rows[Job(r).row].attempts < MaxAttempts
            BY <5>2, <5>4
          <6>2. Nacked(r) = [rows EXCEPT ![Job(r).row].status = "pending",
                                 ![Job(r).row].later = TRUE, ![Job(r).row].due = FALSE]
            BY <3>2, <5>4, <6>1 DEF Nacked
          <6> QED BY <1>0, <3>3, <6>2
        <5> QED BY <5>3, <5>4
      <4> QED BY <1>1, <4>1, <4>2
    <3> QED BY <3>2, <3>3
  <2>2. Job(r) \in JobType /\ Job(r) \in ToSet(relay[r].todo)
    BY <1>1, RelayFacts
  <2>3. Job(r) = [row |-> id, token |-> rows[id].attempts]
    <3>1. Job(r) = [row |-> Job(r).row, token |-> Job(r).token]
      BY <2>2 DEF JobType
    <3>2. Job(r).row = id /\ Job(r).token = rows[id].attempts
      BY <2>1 DEF Holds
    <3> QED BY <3>1, <3>2
  <2>4. r \in Holder(id)
    BY <2>2, <2>3 DEF Holder
  <2>5. relay'[r].at \in {"idle", "deliver"}
    <3>1. relay \in [Relays -> RelayType] /\ relay[r] \in RelayType
      BY RelayFacts
    <3>2. Dropped(r)[r].at = "idle"
      BY <3>1 DEF Dropped, RelayType
    <3>3. Advanced(r)[r].at = IF Len(relay[r].todo) = 1 THEN "idle" ELSE "deliver"
      BY <3>1 DEF Advanced, RelayType
    <3> QED BY <1>1, <3>2, <3>3
  <2> QED BY <1>1, <2>1, <2>4, <2>5
<1>2. rows' # rows
  OBVIOUS
<1>3. ASSUME NEW r \in Relays, Tick(r) \/ Trouble(r)
      PROVE  \E q \in Holder(id) : Job(q).row = id /\ relay'[q] # relay[q]
  <2>1. CASE Ack(r) \/ Nack(r) \/ SettleFails(r)
    BY <1>1, <1>2, <2>1 DEF Ack, Nack, SettleFails
  <2>2. ~Claim(r)
    <3> SUFFICES ASSUME Claim(r) PROVE FALSE
      OBVIOUS
    <3>1. PICK ids : rows' = [x \in DOMAIN rows |->
                                IF x \in ids
                                THEN [rows[x] EXCEPT !.status = "claimed",
                                                     !.attempts = @ + 1, !.lapsed = FALSE]
                                ELSE rows[x]]
      BY DEF Claim
    <3> DEFINE more == rows[id].attempts + 1
               x == [rows[id] EXCEPT !.status = "claimed", !.attempts = more, !.lapsed = FALSE]
    <3>2. rows'[id] = x \/ rows'[id] = rows[id]
      BY <3>1
    <3>3. x.status = "claimed"
      BY <1>0 DEF RowType
    <3> HIDE DEF x
    <3> QED BY <3>2, <3>3
  <2>3. ~(Project(r) \/ FindFrame(r) \/ ProjectDone(r) \/ Publish(r) \/ Crash(r))
    BY <1>2 DEF Project, FindFrame, ProjectDone, Publish, Crash
  <2>4. ~(StoreFrame(r) \/ DeliverFails(r))
    <3>1. AppendsFrame(r) => rows'[id] = rows[id]
      BY DEF AppendsFrame, Added
    <3> QED BY <1>2, <3>1 DEF StoreFrame, DeliverFails
  <2> QED BY <1>3, <2>1, <2>2, <2>3, <2>4 DEF Tick, Trouble
<1>4. ~AppendEvent
  BY DEF AppendEvent, Added
<1>5. ASSUME NEW x \in DOMAIN rows, LeaseLapses(x) \/ LeaseOutrun(x) \/ RetryDue(x) PROVE FALSE
  <2>1. rows' = [rows EXCEPT ![x].lapsed = TRUE] \/ rows' = [rows EXCEPT ![x].due = TRUE]
    BY <1>5 DEF LeaseLapses, LeaseOutrun, Lapse, RetryDue
  <2>2. rows'[id].status = rows[id].status
    BY <1>0, <2>1 DEF RowType
  <2> QED BY <2>2
<1>6. ~(UNCHANGED vars)
  BY <1>2 DEF vars
<1> QED BY <1>3, <1>4, <1>5, <1>6 DEF Next

-----------------------------------------------------------------------------
(* The theorems.                                                           *)

\* Rows, frames and relays keep their types, a fanout row has its frame, a job
\* its row, and a projection cache never more than its limit
\* (outbox_relay.rs, protocol_projector.rs).
THEOREM RelayIsTyped == Spec => []RelayTypeOK
<1>1. Spec => []RelayInv
  BY RelayInvHolds
<1> QED BY <1>1, RelayInvImplies, PTL

\* However many relays deliver an event again, crashed or outrun, the frames
\* stored for a protocol begin one encoding of it: append_replay compares a
\* frame stored before with the draft and refuses another one.
THEOREM EncodingsAreNotMixed == Spec => []NeverMixed
<1>1. Spec => []RelayInv
  BY RelayInvHolds
<1> QED BY <1>1, LogBeginsEncoding, PTL

\* A fanout row is acked only after its frame was handed to the publisher
\* (OutboxRelay::tick, ProtocolReplayFanoutRelayHandler::deliver).
THEOREM FanoutIsPublished == Spec => []DeliveredIsPublished
<1>1. Spec => []RelayInv
  BY RelayInvHolds
<1> QED BY <1>1, RelayInvImplies, PTL

\* A claimed row is acked, returned or given up only by the relay whose token is
\* the current one (ack_outbox, nack_outbox).
THEOREM OnlyHoldersSettle == Spec => ClaimHolderSettles
<1>1. RelayInv /\ [Next]_vars =>
         [\A id \in DOMAIN rows :
             rows[id].status = "claimed" /\ rows'[id].status # "claimed" =>
                 \E r \in Holder(id) : Job(r).row = id /\ relay'[r] # relay[r]]_vars
  BY SettledByHolder
<1>2. Spec => []RelayInv
  BY RelayInvHolds
<1> QED BY <1>1, <1>2, PTL DEF Spec, ClaimHolderSettles

=============================================================================
