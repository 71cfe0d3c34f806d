------------------------ MODULE ThreadMessagesProofs ------------------------
(***************************************************************************)
(* Theorems about ThreadMessages, for any submissions, steering messages,  *)
(* deliveries and clients, both stores and every bound.                    *)
(***************************************************************************)
EXTENDS ThreadMessages, FiniteSetTheorems, TLAPS

(***************************************************************************)
(* The inductive invariant                                                 *)
(***************************************************************************)

Outputs == [id : Runs \X (1 .. MaxSteps), text : Nat]
Entries == [id : Inputs \cup (Runs \X (1 .. MaxSteps)), text : Nat]
Records == [id : Inputs, text : Nat, rev : Nat \ {0}, mode : DeliveryMode]
RunRecords == [status : {"None", "Created", "Running", "Done"}, input : Seq(Inputs)]

CallType == [pc : {"Idle", "Refused", "Version", "Select", "Freeze", "Failed", "Frozen"},
             ver : Nat, sel : Seq(Inputs), tries : 0 .. MaxAttempts]

SteerType == [pc : {"Idle", "Staged", "Accepted", "Queued"}, target : Runs \cup {NoRun}]

LoopType == [pc : {"Idle", "Step", "Save", "Commit", "Version", "Select", "Freeze", "Ended"},
             steps : 0 .. MaxSteps, cache : RunRecords, prior : Seq(Inputs),
             boundary : {"NextStep", "OnNaturalEnd", "Final"}, output : Seq(Outputs),
             ver : Nat, sel : Seq(Inputs), tries : 0 .. MaxAttempts]

EditorType == [pc : {"Idle", "Edit", "Done"}, view : Seq(Records)]

Snapshots == [holder : Runs,
              stage : {"Messages", "Pending", "Append", "RestoreRuns", "RestoreMessages",
                       "RestorePending"},
              record : [Runs -> RunRecords], log : Seq(Entries), pending : Seq(Records)]

HistoryType == [ok : SUBSET Inputs, gone : SUBSET Inputs, edits : [Inputs -> Nat],
                taker : [Inputs -> Runs \cup {NoRun}]]

StoreTypes ==
    /\ log \in Seq(Entries) /\ pending \in Seq(Records)
    /\ record \in [Runs -> RunRecords] /\ latest \in Runs \cup {NoRun}
    /\ commit = Unlocked \/ commit \in Snapshots

CallerTypes ==
    /\ call \in [Runs -> CallType]
    /\ steer \in [Steers -> SteerType]
    /\ loop \in [Runs -> LoopType]
    /\ editor \in [Editors -> EditorType]

\* An attempt is under way only while some are left.
TriesLeft ==
    \A r \in Runs :
      /\ call[r].pc \in {"Idle", "Version", "Select", "Freeze"} => call[r].tries < MaxAttempts
      /\ loop[r].pc # "Ended" => loop[r].tries < MaxAttempts

Locked == commit # Unlocked

\* The lock is of the memory coordinator; who holds it is about to commit.
LockInv == Locked => backend = "memory" /\ loop[commit.holder].pc = "Commit"

TypeInv ==
    /\ backend \in {"postgres", "memory"}
    /\ StoreTypes /\ CallerTypes /\ history \in HistoryType /\ TriesLeft /\ LockInv

\* A log and a queue that hold no input twice.
InputsOnce(entries) ==
    \A i, j \in DOMAIN entries :
       entries[i].id \in Inputs /\ entries[i].id = entries[j].id => i = j

Distinct(queue) == \A i, j \in DOMAIN queue : queue[i].id = queue[j].id => i = j

Sound(entries, queue) == InputsOnce(entries) /\ Distinct(queue)

Held == Committed \cup Waiting

SoundInv ==
    /\ Sound(log, pending)
    /\ Locked => Sound(commit.log, commit.pending) /\ Ids(commit.log) \subseteq Committed

\* Messages keep the delivery mode they were staged with.
ModesIn(queue, live) ==
    \A i \in DOMAIN queue :
      /\ queue[i].id \in Extras => queue[i].mode = ExtraMode[queue[i].id]
      /\ queue[i].id \in Steers /\ live[queue[i].id].pc \in {"Staged", "Accepted"}
           => queue[i].mode = SteerMode(live[queue[i].id].target)

ModesHold(queue) == ModesIn(queue, steer)

\* A message that is still to be tried as steering is nowhere.
UntriedInv ==
    \A v \in Steers :
      /\ steer[v].pc = "Idle" =>
           /\ v \notin Held /\ history.taker[v] = NoRun
           /\ Locked => v \notin Ids(commit.log) \cup Ids(commit.pending)
      /\ steer[v].pc \in {"Staged", "Accepted"} => steer[v].target \in Runs
      /\ call[v].pc # "Idle" => steer[v].pc = "Queued"

TargetInv ==
    /\ ModesHold(pending) /\ (Locked => ModesHold(commit.pending))
    /\ UntriedInv /\ TargetRespected

\* Where the messages of a Postgres thread are, by what their senders know.
PlaceInv ==
    /\ Committed \cap Waiting = {}
    /\ history.ok \ history.gone \subseteq Held
    /\ \A m \in history.gone : ~FellBack(m) => m \notin Held
    /\ \A r \in Runs \ Steers : r \in Held \cup history.gone => call[r].pc = "Frozen"
    /\ \A x \in Extras : x \in Held \cup history.gone => x \in history.ok
    /\ \A v \in Steers :
         /\ steer[v].pc = "Idle" => v \notin history.gone
         /\ steer[v].pc = "Staged" => v \in Held \cup history.gone
         /\ steer[v].pc = "Staged" /\ v \in history.ok => v \in Committed

\* What runs know, cache or carry as their input is in the log.
InputInv ==
    \A r \in Runs :
      /\ Range(record[r].input) \subseteq Committed
      /\ Range(loop[r].prior) \subseteq Committed
      /\ Range(loop[r].cache.input) \subseteq Committed

PostgresInv == backend = "postgres" => PlaceInv /\ InputInv

MessagesInv == TypeInv /\ SoundInv /\ TargetInv /\ PostgresInv

\* The messages that were staged: delivered, submitted, or tried as steering.
Staged(m, ok, callers, live) ==
    /\ m \in Extras => m \in ok
    /\ m \in Runs \ Steers => callers[m].pc = "Frozen"
    /\ m \in Steers => live[m].pc # "Idle"

\* Revisions grow while a message is pending, with every text.
Names(seen, m) ==
    seen.id = m.id => seen.rev <= m.rev /\ (seen.rev = m.rev => seen.text = m.text)

\* A revision that a client read names the text it read, unless the message
\* missed its run and may be staged anew.
ReadInv ==
    \A e \in Editors : editor[e].pc = "Edit" =>
      \A seen \in Range(editor[e].view) :
        /\ Staged(seen.id, history.ok, call, steer)
        /\ \A i \in DOMAIN pending : FellBack(seen.id) \/ Names(seen, pending[i])

\* A message has the text of its edits, unless it missed its run.
Carries(m, live, edits) ==
    (m.id \in Steers /\ live[m.id].pc = "Queued") \/ m.text = edits[m.id]

TextInv ==
    /\ \A i \in DOMAIN log : log[i].id \in Inputs => Carries(log[i], steer, history.edits)
    /\ \A i \in DOMAIN pending : Carries(pending[i], steer, history.edits)
    /\ \A m \in Inputs : ~Staged(m, history.ok, call, steer) => history.edits[m] = 0

EditInv == backend = "postgres" => ReadInv /\ TextInv

-----------------------------------------------------------------------------
(* The members of a sequence at some of its positions.                     *)

\* Ranks count the positions up to one: they number the positions from 1.
LEMMA RanksNumber ==
    ASSUME NEW n \in Nat, NEW S \in SUBSET (1 .. n),
           NEW rank, rank = [i \in S |-> Cardinality({j \in S : j <= i})]
    PROVE  /\ Cardinality(S) \in Nat
           /\ rank \in [S -> 1 .. Cardinality(S)]
           /\ \A i, j \in S : rank[i] = rank[j] => i = j
           /\ \A k \in 1 .. Cardinality(S) : \E i \in S : rank[i] = k
<1>1. IsFiniteSet(S) /\ Cardinality(S) \in Nat
  <2>1. IsFiniteSet(1 .. n)
    BY FS_Interval
  <2>2. IsFiniteSet(S)
    BY <2>1, FS_Subset
  <2> QED BY <2>2, FS_CardinalityType
<1> DEFINE U(i) == {j \in S : j <= i}
<1>2. ASSUME NEW i \in S
      PROVE  IsFiniteSet(U(i)) /\ Cardinality(U(i)) \in 1 .. Cardinality(S)
  <2>1. U(i) \in SUBSET S /\ i \in U(i)
    OBVIOUS
  <2>2. IsFiniteSet(U(i)) /\ Cardinality(U(i)) <= Cardinality(S)
    BY <2>1, <1>1, FS_Subset
  <2>3. Cardinality(U(i)) \in Nat /\ Cardinality(U(i)) # 0
    BY <2>1, <2>2, FS_CardinalityType, FS_EmptySet
  <2> QED BY <2>2, <2>3, <1>1
<1>3. ASSUME NEW i \in S, NEW j \in S, i < j
      PROVE  Cardinality(U(i)) < Cardinality(U(j))
  <2>0. i \in Nat /\ j \in Nat /\ \A x \in S : x \in Nat
    OBVIOUS
  <2>1. U(i) \in SUBSET U(j) /\ j \in U(j) /\ j \notin U(i)
    <3>1. \A x \in S : x <= i => x <= j
      BY <2>0, <1>3
    <3>2. j <= j /\ ~(j <= i)
      BY <2>0, <1>3
    <3> QED BY <3>1, <3>2
  <2>2. /\ Cardinality(U(i)) <= Cardinality(U(j))
        /\ Cardinality(U(i)) = Cardinality(U(j)) => U(i) = U(j)
    BY <2>1, <1>2, FS_Subset
  <2>3. Cardinality(U(i)) \in Nat /\ Cardinality(U(j)) \in Nat
    BY <1>2
  <2> QED BY <2>1, <2>2, <2>3
<1>4. \A i \in S : rank[i] = Cardinality(U(i))
  OBVIOUS
<1>5. rank \in [S -> 1 .. Cardinality(S)]
  BY <1>2, <1>4
<1>6. \A i, j \in S : rank[i] = rank[j] => i = j
  <2> SUFFICES ASSUME NEW i \in S, NEW j \in S, i # j PROVE rank[i] # rank[j]
    OBVIOUS
  <2>1. i < j \/ j < i
    OBVIOUS
  <2>2. rank[i] \in Nat /\ rank[j] \in Nat
    BY <1>5, <1>1
  <2> QED BY <2>1, <2>2, <1>3, <1>4
<1>7. rank \in Injection(S, 1 .. Cardinality(S))
  BY <1>5, <1>6 DEF Injection, IsInjective
<1>8. rank \in Surjection(S, 1 .. Cardinality(S))
  <2>1. IsFiniteSet(1 .. Cardinality(S)) /\ Cardinality(1 .. Cardinality(S)) = Cardinality(S)
    BY <1>1, FS_Interval
  <2> QED BY <1>7, <2>1, FS_Injection
<1>9. \A k \in 1 .. Cardinality(S) : \E i \in S : rank[i] = k
  BY <1>8 DEF Surjection
<1> QED BY <1>1, <1>5, <1>6, <1>9

\* p numbers the positions: At is the sequence it makes.
Numbers(p, seq, S) ==
    /\ p \in [1 .. Cardinality(S) -> S]
    /\ \A k, l \in 1 .. Cardinality(S) : p[k] = p[l] => k = l
    /\ \A i \in S : \E k \in 1 .. Cardinality(S) : p[k] = i
    /\ At(seq, S) = [k \in 1 .. Cardinality(S) |-> seq[p[k]]]

\* At goes through the positions, each once.
LEMMA AtIsSelection ==
    ASSUME NEW n \in Nat, NEW S \in SUBSET (1 .. n), NEW seq
    PROVE  Cardinality(S) \in Nat /\ \E p : Numbers(p, seq, S)
<1> DEFINE rank == [i \in S |-> Cardinality({j \in S : j <= i})]
           c == Cardinality(S)
           p == [k \in 1 .. c |-> CHOOSE i \in S : Cardinality({j \in S : j <= i}) = k]
<1>1. /\ c \in Nat
      /\ rank \in [S -> 1 .. c]
      /\ \A i, j \in S : rank[i] = rank[j] => i = j
      /\ \A k \in 1 .. c : \E i \in S : rank[i] = k
  <2> HIDE DEF rank
  <2>1. rank = [i \in S |-> Cardinality({j \in S : j <= i})]
    BY DEF rank
  <2> QED BY <2>1, RanksNumber
<1>2. \A i \in S : rank[i] = Cardinality({j \in S : j <= i})
  OBVIOUS
<1>3. ASSUME NEW k \in 1 .. c PROVE p[k] \in S /\ rank[p[k]] = k
  <2>1. \E i \in S : Cardinality({j \in S : j <= i}) = k
    BY <1>1, <1>2
  <2>2. p[k] = CHOOSE i \in S : Cardinality({j \in S : j <= i}) = k
    OBVIOUS
  <2>3. p[k] \in S /\ Cardinality({j \in S : j <= p[k]}) = k
    BY <2>1, <2>2
  <2> QED BY <2>3, <1>2
<1>4. At(seq, S) = [k \in 1 .. c |-> seq[p[k]]]
  BY DEF At
<1>5. p \in [1 .. c -> S]
  BY <1>3
<1> HIDE DEF rank, p, c
<1>6. \A k, l \in 1 .. c : p[k] = p[l] => k = l
  BY <1>3
<1>7. \A i \in S : \E k \in 1 .. c : p[k] = i
  <2> TAKE i \in S
  <2>1. rank[i] \in 1 .. c
    BY <1>1
  <2>2. p[rank[i]] = i
    BY <2>1, <1>1, <1>3
  <2> QED BY <2>1, <2>2
<1>8. Numbers(p, seq, S)
  BY <1>4, <1>5, <1>6, <1>7 DEF c, Numbers
<1> QED BY <1>1, <1>8 DEF c

\* The same for a sequence of known type.
LEMMA AtOfSeq ==
    ASSUME NEW T, NEW seq \in Seq(T), NEW S \in SUBSET DOMAIN seq
    PROVE  /\ At(seq, S) \in Seq(T)
           /\ \A k \in DOMAIN At(seq, S) : \E i \in S : At(seq, S)[k] = seq[i]
           /\ \A i \in S : \E k \in DOMAIN At(seq, S) : At(seq, S)[k] = seq[i]
           /\ \A k, l \in DOMAIN At(seq, S) : k # l =>
                \E i, j \in S : i # j /\ At(seq, S)[k] = seq[i] /\ At(seq, S)[l] = seq[j]
<1>1. Len(seq) \in Nat /\ DOMAIN seq = 1 .. Len(seq) /\ \A i \in DOMAIN seq : seq[i] \in T
  OBVIOUS
<1> DEFINE n == Len(seq)
<1>2. n \in Nat /\ S \in SUBSET (1 .. n)
  BY <1>1
<1> HIDE DEF n
<1>2a. Cardinality(S) \in Nat /\ \E p : Numbers(p, seq, S)
  BY <1>2, AtIsSelection
<1>3. PICK p : Numbers(p, seq, S)
  BY <1>2a
<1> DEFINE c == Cardinality(S)
<1>4. \A k \in 1 .. c : p[k] \in S /\ seq[p[k]] \in T
  BY <1>1, <1>3 DEF Numbers
<1> HIDE DEF c
<1>5. At(seq, S) = [k \in 1 .. c |-> seq[p[k]]]
  BY <1>3 DEF c, Numbers
<1>6. At(seq, S) \in [1 .. c -> T] /\ DOMAIN At(seq, S) = 1 .. c
  BY <1>4, <1>5
<1>7. At(seq, S) \in Seq(T)
  <2>1. c \in Nat
    BY <1>2a DEF c
  <2> QED BY <2>1, <1>6
<1>8. \A k \in 1 .. c : At(seq, S)[k] = seq[p[k]]
  BY <1>5
<1>9. \A i \in S : \E k \in 1 .. c : p[k] = i
  BY <1>3 DEF c, Numbers
<1>10. \A k, l \in 1 .. c : p[k] = p[l] => k = l
  BY <1>3 DEF c, Numbers
<1> QED BY <1>4, <1>6, <1>7, <1>8, <1>9, <1>10

-----------------------------------------------------------------------------
(* Queues.                                                                 *)

LEMMA SeqIsFunction ==
    ASSUME NEW T, NEW seq \in Seq(T)
    PROVE  /\ Len(seq) \in Nat /\ DOMAIN seq = 1 .. Len(seq)
           /\ \A i \in DOMAIN seq : seq[i] \in T
OBVIOUS

\* What is left of a queue without some ids.
LEMMA WithoutFacts ==
    ASSUME NEW queue \in Seq(Records), NEW ids
    PROVE  /\ Without(queue, ids) \in Seq(Records)
           /\ \A k \in DOMAIN Without(queue, ids) :
                \E i \in DOMAIN queue : queue[i].id \notin ids /\ Without(queue, ids)[k] = queue[i]
           /\ Ids(Without(queue, ids)) = Ids(queue) \ ids
           /\ Distinct(queue) => Distinct(Without(queue, ids))
<1> DEFINE S == {i \in DOMAIN queue : queue[i].id \notin ids}
           W == At(queue, S)
<1>1. S \in SUBSET DOMAIN queue
  OBVIOUS
<1>2. W = Without(queue, ids)
  BY DEF Without
<1>3. \A i \in S : i \in DOMAIN queue /\ queue[i].id \notin ids
  OBVIOUS
<1>4. \A i \in DOMAIN queue : queue[i].id \notin ids => i \in S
  OBVIOUS
<1> HIDE DEF S
<1>5. /\ W \in Seq(Records)
      /\ \A k \in DOMAIN W : \E i \in S : W[k] = queue[i]
      /\ \A i \in S : \E k \in DOMAIN W : W[k] = queue[i]
      /\ \A k, l \in DOMAIN W : k # l =>
           \E i, j \in S : i # j /\ W[k] = queue[i] /\ W[l] = queue[j]
  BY <1>1, AtOfSeq
<1> HIDE DEF W
<1>6. \A k \in DOMAIN W : \E i \in DOMAIN queue : queue[i].id \notin ids /\ W[k] = queue[i]
  BY <1>3, <1>5
<1>7. Ids(W) = Ids(queue) \ ids
  <2>1. \A x \in Ids(W) : x \in Ids(queue) \ ids
    BY <1>6 DEF Ids
  <2>2. ASSUME NEW x \in Ids(queue) \ ids PROVE x \in Ids(W)
    <3>1. PICK i \in DOMAIN queue : queue[i].id = x
      BY DEF Ids
    <3>2. i \in S
      BY <3>1, <1>4
    <3>3. PICK k \in DOMAIN W : W[k] = queue[i]
      BY <3>2, <1>5
    <3> QED BY <3>1, <3>3 DEF Ids
  <2> QED BY <2>1, <2>2
<1>8. ASSUME Distinct(queue) PROVE Distinct(W)
  <2> SUFFICES ASSUME NEW k \in DOMAIN W, NEW l \in DOMAIN W, k # l PROVE W[k].id # W[l].id
    BY DEF Distinct
  <2>1. PICK i \in S, j \in S : i # j /\ W[k] = queue[i] /\ W[l] = queue[j]
    BY <1>5
  <2> QED BY <2>1, <1>3, <1>8 DEF Distinct
<1> QED BY <1>2, <1>5, <1>6, <1>7, <1>8

\* A queue with a new record at its end.
LEMMA AppendFacts ==
    ASSUME NEW queue \in Seq(Records), NEW m \in Records
    PROVE  /\ Append(queue, m) \in Seq(Records)
           /\ Len(Append(queue, m)) = Len(queue) + 1
           /\ DOMAIN Append(queue, m) = DOMAIN queue \cup {Len(queue) + 1}
           /\ \A i \in DOMAIN queue : Append(queue, m)[i] = queue[i]
           /\ Append(queue, m)[Len(queue) + 1] = m
           /\ Ids(Append(queue, m)) = Ids(queue) \cup {m.id}
           /\ Distinct(queue) /\ m.id \notin Ids(queue) => Distinct(Append(queue, m))
<1> DEFINE q == Append(queue, m)
           n == Len(queue)
<1>1. /\ n \in Nat /\ DOMAIN queue = 1 .. n
      /\ q \in Seq(Records) /\ Len(q) = n + 1 /\ DOMAIN q = 1 .. (n + 1)
      /\ \A i \in 1 .. n : q[i] = queue[i]
      /\ q[n + 1] = m
  OBVIOUS
<1> HIDE DEF q, n
<1>2. DOMAIN q = DOMAIN queue \cup {n + 1} /\ n + 1 \notin DOMAIN queue
  BY <1>1
<1>3. Ids(q) = Ids(queue) \cup {m.id}
  <2>1. \A i \in DOMAIN queue : q[i].id = queue[i].id
    BY <1>1
  <2> QED BY <2>1, <1>1, <1>2 DEF Ids
<1>4. ASSUME Distinct(queue), m.id \notin Ids(queue) PROVE Distinct(q)
  <2>1. \A i \in DOMAIN queue : q[i].id = queue[i].id /\ q[i].id # m.id
    BY <1>1, <1>4 DEF Ids
  <2> SUFFICES ASSUME NEW i \in DOMAIN q, NEW j \in DOMAIN q, q[i].id = q[j].id PROVE i = j
    BY DEF Distinct
  <2>2. CASE i \in DOMAIN queue /\ j \in DOMAIN queue
    BY <2>1, <2>2, <1>4 DEF Distinct
  <2>3. CASE i \notin DOMAIN queue \/ j \notin DOMAIN queue
    BY <2>1, <2>3, <1>1, <1>2
  <2> QED BY <2>2, <2>3
<1> QED BY <1>1, <1>2, <1>3, <1>4 DEF q, n

\* What a freeze selects: each id once, only eligible ones, and a barrier only
\* together with all that is ahead of it.
LEMMA SelectFacts ==
    ASSUME NEW queue \in Seq(Records), Distinct(queue), NEW b, NEW r
    PROVE  LET sel == SelectPending(queue, b, r)
           IN  /\ sel \in Seq(Inputs)
               /\ \A k, l \in DOMAIN sel : sel[k] = sel[l] => k = l
               /\ Range(sel) \subseteq Ids(queue)
               /\ \A i \in DOMAIN queue : queue[i].id \in Range(sel) =>
                    /\ Eligible(queue[i], b, r)
                    /\ queue[i].mode.barrier =>
                         \A j \in DOMAIN queue : j < i => queue[j].id \in Range(sel)
<1> DEFINE passes(i) == IF Eligible(queue[i], b, r)
                        THEN ~queue[i].mode.barrier /\ ~queue[i].mode.one
                        ELSE Skippable(queue[i], b)
           taken == {i \in DOMAIN queue : /\ \A j \in 1 .. i - 1 : passes(j)
                                          /\ Takes(queue, b, r, i)}
           ids == [i \in DOMAIN queue |-> queue[i].id]
           sel == At(ids, taken)
<1>1. sel = SelectPending(queue, b, r)
  BY DEF SelectPending
<1>2. /\ Len(queue) \in Nat /\ DOMAIN queue = 1 .. Len(queue)
      /\ \A i \in DOMAIN queue : queue[i] \in Records
  BY SeqIsFunction
<1>3. ids \in Seq(Inputs) /\ DOMAIN ids = DOMAIN queue
  <2>1. \A i \in DOMAIN queue : queue[i].id \in Inputs
    BY <1>2 DEF Records
  <2> QED BY <1>2, <2>1
<1>4. \A i \in DOMAIN queue : ids[i] = queue[i].id
  OBVIOUS
<1>5. \A i \in DOMAIN queue :
        i \in taken <=> (\A j \in 1 .. i - 1 : passes(j)) /\ Takes(queue, b, r, i)
  OBVIOUS
<1>6. taken \in SUBSET DOMAIN ids
  BY <1>3
<1> HIDE DEF taken, ids, passes
<1>7. /\ sel \in Seq(Inputs)
      /\ \A k \in DOMAIN sel : \E i \in taken : sel[k] = ids[i]
      /\ \A i \in taken : \E k \in DOMAIN sel : sel[k] = ids[i]
      /\ \A k, l \in DOMAIN sel : k # l =>
           \E i, j \in taken : i # j /\ sel[k] = ids[i] /\ sel[l] = ids[j]
  BY <1>3, <1>6, AtOfSeq
<1> HIDE DEF sel
<1>8. \A i \in taken : i \in DOMAIN queue
  BY <1>3, <1>6
<1>9. \A k, l \in DOMAIN sel : sel[k] = sel[l] => k = l
  <2> SUFFICES ASSUME NEW k \in DOMAIN sel, NEW l \in DOMAIN sel, k # l PROVE sel[k] # sel[l]
    OBVIOUS
  <2>1. PICK i \in taken, j \in taken : i # j /\ sel[k] = ids[i] /\ sel[l] = ids[j]
    BY <1>7
  <2> QED BY <2>1, <1>4, <1>8 DEF Distinct
<1>10. \A i \in DOMAIN queue : queue[i].id \in Range(sel) <=> i \in taken
  <2>1. ASSUME NEW i \in taken PROVE queue[i].id \in Range(sel)
    <3>1. PICK k \in DOMAIN sel : sel[k] = ids[i]
      BY <1>7
    <3> QED BY <3>1, <1>4, <1>8 DEF Range
  <2>2. ASSUME NEW i \in DOMAIN queue, queue[i].id \in Range(sel) PROVE i \in taken
    <3>1. PICK k \in DOMAIN sel : sel[k] = queue[i].id
      BY <2>2 DEF Range
    <3>2. PICK j \in taken : sel[k] = ids[j]
      BY <1>7
    <3>3. queue[j].id = queue[i].id /\ j \in DOMAIN queue
      BY <3>1, <3>2, <1>4, <1>8
    <3> QED BY <3>3 DEF Distinct
  <2> QED BY <2>1, <2>2
<1>11. Range(sel) \subseteq Ids(queue)
  <2>1. ASSUME NEW k \in DOMAIN sel PROVE sel[k] \in Ids(queue)
    <3>1. PICK i \in taken : sel[k] = ids[i]
      BY <1>7
    <3> QED BY <3>1, <1>4, <1>8 DEF Ids
  <2> QED BY <2>1 DEF Range
<1>12. ASSUME NEW i \in taken PROVE Eligible(queue[i], b, r)
  BY <1>5, <1>8 DEF Takes
<1>13. ASSUME NEW i \in taken, queue[i].mode.barrier, NEW j \in DOMAIN queue, j < i
       PROVE  j \in taken
  <2>1. i \in 1 .. Len(queue) /\ j \in 1 .. Len(queue) /\ j \in 1 .. i - 1
    BY <1>2, <1>8, <1>13
  <2>2. /\ \A k \in 1 .. i - 1 : passes(k)
        /\ \A k \in 1 .. i - 1 : Eligible(queue[k], b, r)
    BY <1>5, <1>8, <1>13 DEF Takes
  <2>3. \A k \in 1 .. j - 1 : k \in 1 .. i - 1
    BY <2>1
  <2>4. ~queue[j].mode.barrier /\ ~queue[j].mode.one /\ Eligible(queue[j], b, r)
    BY <2>1, <2>2 DEF passes
  <2>5. Takes(queue, b, r, j)
    BY <2>4 DEF Takes
  <2> QED BY <2>2, <2>3, <2>5, <1>5
<1>14. \A i \in DOMAIN queue : queue[i].id \in Range(sel) =>
         /\ Eligible(queue[i], b, r)
         /\ queue[i].mode.barrier =>
              \A j \in DOMAIN queue : j < i => queue[j].id \in Range(sel)
  BY <1>10, <1>12, <1>13
<1> QED BY <1>1, <1>7, <1>9, <1>11, <1>14

\* Also of a queue that holds an id twice.
LEMMA SelectType ==
    ASSUME NEW queue \in Seq(Records), NEW b, NEW r
    PROVE  SelectPending(queue, b, r) \in Seq(Inputs)
<1> DEFINE passes(i) == IF Eligible(queue[i], b, r)
                        THEN ~queue[i].mode.barrier /\ ~queue[i].mode.one
                        ELSE Skippable(queue[i], b)
           taken == {i \in DOMAIN queue : /\ \A j \in 1 .. i - 1 : passes(j)
                                          /\ Takes(queue, b, r, i)}
           ids == [i \in DOMAIN queue |-> queue[i].id]
<1>1. /\ Len(queue) \in Nat /\ DOMAIN queue = 1 .. Len(queue)
      /\ \A i \in DOMAIN queue : queue[i] \in Records
  BY SeqIsFunction
<1>2. \A i \in DOMAIN queue : queue[i].id \in Inputs
  BY <1>1 DEF Records
<1>3. ids \in Seq(Inputs) /\ DOMAIN ids = DOMAIN queue
  BY <1>1, <1>2
<1>4. taken \in SUBSET DOMAIN queue
  OBVIOUS
<1>5. SelectPending(queue, b, r) = At(ids, taken)
  BY DEF SelectPending
<1> HIDE DEF ids, taken
<1> QED BY <1>3, <1>4, <1>5, AtOfSeq

\* The reverse of a queue holds the same records.
LEMMA ReverseFacts ==
    ASSUME NEW queue \in Seq(Records)
    PROVE  /\ Reverse(queue) \in Seq(Records)
           /\ \A k \in DOMAIN Reverse(queue) : \E i \in DOMAIN queue : Reverse(queue)[k] = queue[i]
           /\ Ids(Reverse(queue)) = Ids(queue)
           /\ Distinct(queue) => Distinct(Reverse(queue))
<1> DEFINE n == Len(queue)
           R == Reverse(queue)
<1>1. /\ n \in Nat /\ DOMAIN queue = 1 .. n
      /\ \A i \in 1 .. n : queue[i] \in Records
  BY SeqIsFunction
<1>2. R = [i \in 1 .. n |-> queue[(n - i) + 1]]
  BY DEF Reverse
<1> HIDE DEF n, R
<1>3. \A i \in 1 .. n : (n - i) + 1 \in 1 .. n
  BY <1>1
<1>4. DOMAIN R = 1 .. n /\ R \in Seq(Records) /\ \A i \in 1 .. n : R[i] = queue[(n - i) + 1]
  BY <1>1, <1>2, <1>3
<1>5. \A k \in DOMAIN R : \E i \in DOMAIN queue : R[k] = queue[i]
  BY <1>1, <1>3, <1>4
<1>6. \A i \in 1 .. n : \E k \in 1 .. n : (n - k) + 1 = i
  <2> TAKE i \in 1 .. n
  <2>1. (n - i) + 1 \in 1 .. n /\ (n - ((n - i) + 1)) + 1 = i
    BY <1>1
  <2> QED BY <2>1
<1>7. \A i \in DOMAIN queue : \E k \in DOMAIN R : R[k] = queue[i]
  BY <1>1, <1>4, <1>6
<1>8. Ids(R) = Ids(queue)
  <2>1. \A x \in Ids(R) : x \in Ids(queue)
    BY <1>5 DEF Ids
  <2>2. \A x \in Ids(queue) : x \in Ids(R)
    BY <1>7 DEF Ids
  <2> QED BY <2>1, <2>2
<1>9. ASSUME Distinct(queue) PROVE Distinct(R)
  <2> SUFFICES ASSUME NEW i \in 1 .. n, NEW j \in 1 .. n, R[i].id = R[j].id PROVE i = j
    BY <1>4 DEF Distinct
  <2>1. (n - i) + 1 \in DOMAIN queue /\ (n - j) + 1 \in DOMAIN queue
    BY <1>1, <1>3
  <2>2. (n - i) + 1 = (n - j) + 1
    BY <2>1, <1>4, <1>9 DEF Distinct
  <2> QED BY <2>2, <1>1
<1> QED BY <1>4, <1>5, <1>8, <1>9 DEF R

\* A message is in one place at most if log and queue are sound, and its zone
\* count says whether it is in either.
LEMMA ZonesCount ==
    ASSUME NEW m \in Inputs, log \in Seq(Entries), pending \in Seq(Records), Sound(log, pending),
           Committed \cap Waiting = {}
    PROVE  /\ Zones(m) \in {0, 1}
           /\ Zones(m) = 1 <=> m \in Held
<1> DEFINE L == {i \in DOMAIN log : log[i].id = m}
           P == {i \in DOMAIN pending : pending[i].id = m}
<1>1. m \in Committed <=> L # {}
  BY DEF Committed, Ids
<1>2. m \in Waiting <=> P # {}
  BY DEF Waiting, Ids
<1>3. \A i, j \in L : i = j
  BY DEF Sound, InputsOnce
<1>4. \A i, j \in P : i = j
  BY DEF Sound, Distinct
<1>5. L = {} \/ P = {}
  BY <1>1, <1>2
<1>6. Zones(m) = Cardinality(L) + Cardinality(P)
  BY DEF Zones
<1> HIDE DEF L, P
<1>7. /\ Cardinality(L) = IF L = {} THEN 0 ELSE 1
      /\ Cardinality(P) = IF P = {} THEN 0 ELSE 1
  <2>1. ASSUME NEW U, \A i, j \in U : i = j PROVE Cardinality(U) = IF U = {} THEN 0 ELSE 1
    <3>1. CASE U = {}
      BY <3>1, FS_EmptySet
    <3>2. CASE U # {}
      <4>1. PICK i \in U : TRUE
        BY <3>2
      <4>2. U = {i}
        BY <4>1, <2>1
      <4> QED BY <4>2, <3>2, FS_Singleton
    <3> QED BY <3>1, <3>2
  <2> QED BY <2>1, <1>3, <1>4
<1> QED BY <1>1, <1>2, <1>5, <1>6, <1>7 DEF Held

\* A log with entries at its end.
LEMMA ConcatFacts ==
    ASSUME NEW a \in Seq(Entries), NEW b \in Seq(Entries)
    PROVE  /\ a \o b \in Seq(Entries)
           /\ Len(a \o b) = Len(a) + Len(b)
           /\ DOMAIN (a \o b) = 1 .. Len(a) + Len(b)
           /\ \A i \in DOMAIN (a \o b) :
                \/ i \in DOMAIN a /\ (a \o b)[i] = a[i]
                \/ i - Len(a) \in DOMAIN b /\ (a \o b)[i] = b[i - Len(a)] /\ i > Len(a)
           /\ \A i \in DOMAIN a : (a \o b)[i] = a[i]
           /\ Ids(a \o b) = Ids(a) \cup Ids(b)
<1> DEFINE c == a \o b
           n == Len(a)
           k == Len(b)
<1>1. /\ n \in Nat /\ DOMAIN a = 1 .. n /\ k \in Nat /\ DOMAIN b = 1 .. k
      /\ c \in Seq(Entries) /\ Len(c) = n + k /\ DOMAIN c = 1 .. n + k
      /\ \A i \in 1 .. n + k : c[i] = IF i <= n THEN a[i] ELSE b[i - n]
  OBVIOUS
<1> HIDE DEF c, n, k
<1>2. ASSUME NEW i \in DOMAIN c
      PROVE  \/ i \in DOMAIN a /\ c[i] = a[i]
             \/ i - n \in DOMAIN b /\ c[i] = b[i - n] /\ i > n
  BY <1>1
<1>3. \A i \in DOMAIN a : i \in DOMAIN c /\ c[i] = a[i]
  BY <1>1
<1>4. \A i \in DOMAIN b : n + i \in DOMAIN c /\ c[n + i] = b[i]
  BY <1>1
<1>5. Ids(c) = Ids(a) \cup Ids(b)
  <2>1. \A x \in Ids(c) : x \in Ids(a) \cup Ids(b)
    BY <1>2 DEF Ids
  <2>2. \A x \in Ids(a) : x \in Ids(c)
    BY <1>3 DEF Ids
  <2>3. \A x \in Ids(b) : x \in Ids(c)
    BY <1>4 DEF Ids
  <2> QED BY <2>1, <2>2, <2>3
<1> QED BY <1>1, <1>2, <1>3, <1>5 DEF c, n, k

\* The entries a freeze makes of the records it takes.
LEMMA FrozenEntries ==
    ASSUME NEW queue \in Seq(Records), NEW sel \in Seq(Inputs),
           Range(sel) \subseteq Ids(queue)
    PROVE  LET new == [k \in DOMAIN sel |-> Entry(queue, sel[k])]
           IN  /\ new \in Seq(Entries) /\ DOMAIN new = DOMAIN sel
               /\ \A k \in DOMAIN sel :
                    /\ new[k].id = sel[k]
                    /\ \E i \in DOMAIN queue : queue[i].id = sel[k] /\ new[k].text = queue[i].text
               /\ Ids(new) = Range(sel)
<1> DEFINE new == [k \in DOMAIN sel |-> Entry(queue, sel[k])]
<1>1. Len(sel) \in Nat /\ DOMAIN sel = 1 .. Len(sel) /\ \A k \in DOMAIN sel : sel[k] \in Inputs
  BY SeqIsFunction
<1>2. \A i \in DOMAIN queue : queue[i] \in Records /\ queue[i].text \in Nat
  <2>1. \A i \in DOMAIN queue : queue[i] \in Records
    BY SeqIsFunction
  <2> QED BY <2>1 DEF Records
<1>3. ASSUME NEW k \in DOMAIN sel
      PROVE  \E i \in DOMAIN queue :
               queue[i].id = sel[k] /\ Entry(queue, sel[k]) = [id |-> sel[k], text |-> queue[i].text]
  <2>1. sel[k] \in Ids(queue)
    BY DEF Range
  <2>2. \E i \in DOMAIN queue : queue[i].id = sel[k]
    BY <2>1 DEF Ids
  <2>3. Position(queue, sel[k]) \in DOMAIN queue /\ queue[Position(queue, sel[k])].id = sel[k]
    BY <2>2 DEF Position
  <2> QED BY <2>3 DEF Entry
<1>4. \A k \in DOMAIN sel : new[k] = Entry(queue, sel[k])
  OBVIOUS
<1>5. ASSUME NEW k \in DOMAIN sel
      PROVE  /\ new[k] \in Entries /\ new[k].id = sel[k]
             /\ \E i \in DOMAIN queue : queue[i].id = sel[k] /\ new[k].text = queue[i].text
  <2>1. PICK i \in DOMAIN queue : queue[i].id = sel[k] /\ new[k] = [id |-> sel[k], text |-> queue[i].text]
    BY <1>3, <1>4
  <2> QED BY <2>1, <1>1, <1>2 DEF Entries
<1>6. DOMAIN new = 1 .. Len(sel)
  BY <1>1
<1>6a. new \in [1 .. Len(sel) -> Entries]
  BY <1>1, <1>5
<1> HIDE DEF new
<1>7. new \in Seq(Entries)
  BY <1>1, <1>6a
<1>8. Ids(new) = Range(sel)
  <2>1. \A k \in DOMAIN sel : new[k].id = sel[k]
    BY <1>5
  <2>2. \A x \in Ids(new) : x \in Range(sel)
    BY <2>1, <1>1, <1>6 DEF Ids, Range
  <2>3. \A x \in Range(sel) : x \in Ids(new)
    BY <2>1, <1>1, <1>6 DEF Ids, Range
  <2> QED BY <2>2, <2>3
<1>9. \A k \in DOMAIN sel : /\ new[k].id = sel[k]
        /\ \E i \in DOMAIN queue : queue[i].id = sel[k] /\ new[k].text = queue[i].text
  BY <1>5
<1>10. DOMAIN new = DOMAIN sel
  BY <1>1, <1>6
<1> QED BY <1>7, <1>8, <1>9, <1>10 DEF new

\* Every record of this queue is one of that.
Within(rest, queue) == \A i \in DOMAIN rest : \E j \in DOMAIN queue : rest[i] = queue[j]

\* What the log gets is in the queue, with that text.
Logged(new, entries, queue) ==
    \A i \in DOMAIN new :
      \/ i \in DOMAIN entries /\ new[i] = entries[i]
      \/ \E j \in DOMAIN queue : new[i].id = queue[j].id /\ new[i].text = queue[j].text

LogWith(entries, queue, sel) == entries \o [k \in DOMAIN sel |-> Entry(queue, sel[k])]

\* What a freeze of a sound thread leaves: the ids it takes move to the log.
LEMMA FreezeFacts ==
    ASSUME NEW entries \in Seq(Entries), NEW queue \in Seq(Records), Sound(entries, queue),
           NEW sel \in Seq(Inputs), \A k, l \in DOMAIN sel : sel[k] = sel[l] => k = l,
           Range(sel) \subseteq Ids(queue), Range(sel) \cap Ids(entries) = {}
    PROVE  LET new == LogWith(entries, queue, sel)
               rest == Without(queue, Range(sel))
           IN  /\ new \in Seq(Entries) /\ rest \in Seq(Records)
               /\ Sound(new, rest)
               /\ Ids(new) = Ids(entries) \cup Range(sel)
               /\ Ids(rest) = Ids(queue) \ Range(sel)
               /\ Within(rest, queue)
               /\ Logged(new, entries, queue)
<1> DEFINE taken == [k \in DOMAIN sel |-> Entry(queue, sel[k])]
           new == entries \o taken
           rest == Without(queue, Range(sel))
<1>1. /\ taken \in Seq(Entries) /\ DOMAIN taken = DOMAIN sel
      /\ \A k \in DOMAIN sel :
           /\ taken[k].id = sel[k]
           /\ \E i \in DOMAIN queue : queue[i].id = sel[k] /\ taken[k].text = queue[i].text
      /\ Ids(taken) = Range(sel)
  BY FrozenEntries
<1> HIDE DEF taken
<1>2. /\ new \in Seq(Entries)
      /\ \A i \in DOMAIN new :
           \/ i \in DOMAIN entries /\ new[i] = entries[i]
           \/ i - Len(entries) \in DOMAIN taken /\ new[i] = taken[i - Len(entries)]
                /\ i > Len(entries)
      /\ Ids(new) = Ids(entries) \cup Ids(taken)
      /\ DOMAIN new = 1 .. Len(entries) + Len(taken)
  BY <1>1, ConcatFacts
<1>3. /\ rest \in Seq(Records)
      /\ \A k \in DOMAIN rest :
           \E i \in DOMAIN queue : queue[i].id \notin Range(sel) /\ rest[k] = queue[i]
      /\ Ids(rest) = Ids(queue) \ Range(sel)
      /\ Distinct(queue) => Distinct(rest)
  BY WithoutFacts
<1> HIDE DEF new, rest
<1>5. InputsOnce(new)
  <2> SUFFICES ASSUME NEW i \in DOMAIN new, NEW j \in DOMAIN new,
                      new[i].id \in Inputs, new[i].id = new[j].id
               PROVE  i = j
    BY DEF InputsOnce
  <2>1. Len(entries) \in Nat /\ i \in Int /\ j \in Int
    BY <1>2, <1>1, SeqIsFunction
  <2>2. ASSUME NEW x \in DOMAIN new, x - Len(entries) \in DOMAIN taken,
               new[x] = taken[x - Len(entries)]
        PROVE  new[x].id \in Range(sel) /\ new[x].id = sel[x - Len(entries)]
    BY <2>2, <1>1 DEF Range
  <2>3. ASSUME NEW x \in DOMAIN entries PROVE entries[x].id \notin Range(sel)
    BY DEF Ids
  <2>4. CASE i \in DOMAIN entries /\ new[i] = entries[i]
    <3>1. j \in DOMAIN entries /\ new[j] = entries[j]
      <4> SUFFICES ASSUME j - Len(entries) \in DOMAIN taken, new[j] = taken[j - Len(entries)]
                   PROVE  FALSE
        BY <1>2
      <4> QED BY <2>2, <2>3, <2>4
    <3> QED BY <2>4, <3>1 DEF Sound, InputsOnce
  <2>5. CASE i - Len(entries) \in DOMAIN taken /\ new[i] = taken[i - Len(entries)]
    <3>1. j - Len(entries) \in DOMAIN taken /\ new[j] = taken[j - Len(entries)]
      <4> SUFFICES ASSUME j \in DOMAIN entries, new[j] = entries[j]
                   PROVE  FALSE
        BY <1>2
      <4> QED BY <2>2, <2>3, <2>5
    <3>2. i - Len(entries) = j - Len(entries)
      BY <2>2, <2>5, <3>1, <1>1
    <3> QED BY <2>1, <3>2
  <2> QED BY <2>4, <2>5, <1>2
<1>6. Sound(new, rest)
  BY <1>3, <1>5 DEF Sound
<1>7. ASSUME NEW i \in DOMAIN new
      PROVE  \/ i \in DOMAIN entries /\ new[i] = entries[i]
             \/ \E j \in DOMAIN queue :
                  new[i].id = queue[j].id /\ new[i].text = queue[j].text
  <2>1. CASE i - Len(entries) \in DOMAIN taken /\ new[i] = taken[i - Len(entries)]
    BY <2>1, <1>1
  <2> QED BY <2>1, <1>2
<1> QED BY <1>1, <1>2, <1>3, <1>6, <1>7 DEF Within, Logged, LogWith, new, rest, taken

\* The run input with the ids taken.
LEMMA MergeFacts ==
    ASSUME NEW prior \in Seq(Inputs), NEW sel \in Seq(Inputs)
    PROVE  /\ Merge(prior, sel) \in Seq(Inputs)
           /\ Range(Merge(prior, sel)) \subseteq Range(prior) \cup Range(sel)
<1> DEFINE S == {k \in DOMAIN sel : sel[k] \notin Range(prior)}
           a == At(sel, S)
<1>1. S \in SUBSET DOMAIN sel
  OBVIOUS
<1>2. Merge(prior, sel) = prior \o a
  BY DEF Merge
<1> HIDE DEF S
<1>3. a \in Seq(Inputs) /\ \A k \in DOMAIN a : \E i \in S : a[k] = sel[i]
  BY <1>1, AtOfSeq
<1> HIDE DEF a
<1>4. /\ Len(prior) \in Nat /\ DOMAIN prior = 1 .. Len(prior)
      /\ Len(a) \in Nat /\ DOMAIN a = 1 .. Len(a)
  BY <1>3, SeqIsFunction
<1> DEFINE c == prior \o a
<1>5. /\ c \in Seq(Inputs) /\ DOMAIN c = 1 .. Len(prior) + Len(a)
      /\ \A i \in 1 .. Len(prior) + Len(a) : c[i] = IF i <= Len(prior) THEN prior[i] ELSE a[i - Len(prior)]
  BY <1>3
<1> HIDE DEF c
<1>6. ASSUME NEW i \in DOMAIN c PROVE c[i] \in Range(prior) \cup Range(sel)
  <2>1. CASE i <= Len(prior)
    <3>1. i \in DOMAIN prior /\ c[i] = prior[i]
      BY <2>1, <1>4, <1>5
    <3> QED BY <3>1 DEF Range
  <2>2. CASE ~(i <= Len(prior))
    <3>1. i - Len(prior) \in DOMAIN a /\ c[i] = a[i - Len(prior)]
      BY <2>2, <1>4, <1>5
    <3>2. PICK k \in S : c[i] = sel[k]
      BY <3>1, <1>3
    <3>3. k \in DOMAIN sel
      BY <1>1
    <3> QED BY <3>2, <3>3 DEF Range
  <2> QED BY <2>1, <2>2
<1>7. Range(c) \subseteq Range(prior) \cup Range(sel)
  BY <1>6 DEF Range
<1> QED BY <1>2, <1>5, <1>7 DEF c

\* Outputs put no input in the log.
LEMMA OutputFacts ==
    ASSUME NEW entries \in Seq(Entries), NEW queue \in Seq(Records), Sound(entries, queue),
           NEW out \in Seq(Outputs)
    PROVE  /\ entries \o out \in Seq(Entries)
           /\ Sound(entries \o out, queue)
           /\ Ids(entries \o out) = Ids(entries) \cup Ids(out)
           /\ Ids(out) \cap Inputs = {}
           /\ \A i \in DOMAIN (entries \o out) :
                \/ i \in DOMAIN entries /\ (entries \o out)[i] = entries[i]
                \/ (entries \o out)[i].id \notin Inputs
<1> DEFINE new == entries \o out
<1>1. /\ \A i \in DOMAIN out : out[i] \in Outputs
      /\ Len(out) \in Nat /\ DOMAIN out = 1 .. Len(out)
  BY SeqIsFunction
<1>2. \A i \in DOMAIN out : out[i] \in Entries /\ out[i].id \notin Inputs
  BY <1>1, MessagesAssumption DEF Outputs, Entries, Inputs
<1>3. out \in Seq(Entries)
  BY <1>1, <1>2
<1>4. /\ new \in Seq(Entries)
      /\ \A i \in DOMAIN new :
           \/ i \in DOMAIN entries /\ new[i] = entries[i]
           \/ i - Len(entries) \in DOMAIN out /\ new[i] = out[i - Len(entries)]
                /\ i > Len(entries)
      /\ Ids(new) = Ids(entries) \cup Ids(out)
  BY <1>3, ConcatFacts
<1> HIDE DEF new
<1>5. Ids(out) \cap Inputs = {}
  BY <1>2 DEF Ids
<1>6. ASSUME NEW i \in DOMAIN new
      PROVE  (i \in DOMAIN entries /\ new[i] = entries[i]) \/ new[i].id \notin Inputs
  BY <1>2, <1>4
<1>7. InputsOnce(new)
  BY <1>6 DEF Sound, InputsOnce
<1>9. Sound(new, queue)
  BY <1>7 DEF Sound
<1> QED BY <1>4, <1>5, <1>6, <1>9 DEF new
-----------------------------------------------------------------------------
(* The steps of one submission and of one agent loop: the others keep       *)
(* still.                                                                  *)

CallMoves(r) ==
    \E y \in CallType :
      /\ call' = [call EXCEPT ![r] = y]
      /\ y.pc \in {"Idle", "Version", "Select", "Freeze"} => y.tries < MaxAttempts
      /\ y.pc # "Idle" /\ call[r].pc # "Frozen"

LoopMoves(r) ==
    \E y \in LoopType :
      /\ loop' = [loop EXCEPT ![r] = y]
      /\ y.pc # "Ended" => y.tries < MaxAttempts
      /\ y.prior \in {loop[r].prior, loop[r].cache.input, record[r].input}
      /\ y.cache \in {loop[r].cache, record[r], NoRecord}

LEMMA CallMoved ==
    ASSUME TypeInv, NEW r \in Runs, CallMoves(r)
    PROVE  /\ call' \in [Runs -> CallType]
           /\ \A q \in Runs : call'[q].pc \in {"Idle", "Version", "Select", "Freeze"} =>
                call'[q].tries < MaxAttempts
           /\ \A q \in Runs : call[q].pc = "Frozen" => call'[q] = call[q]
           /\ \A q \in Runs \ {r} : call'[q] = call[q]
           /\ call'[r].pc # "Idle"
<1>1. PICK y \in CallType :
        /\ call' = [call EXCEPT ![r] = y]
        /\ y.pc \in {"Idle", "Version", "Select", "Freeze"} => y.tries < MaxAttempts
        /\ y.pc # "Idle" /\ call[r].pc # "Frozen"
  BY DEF CallMoves
<1>2. call \in [Runs -> CallType]
  BY DEF TypeInv, CallerTypes
<1>3. call' \in [Runs -> CallType] /\ call'[r] = y /\ \A q \in Runs \ {r} : call'[q] = call[q]
  BY <1>1, <1>2
<1>4. \A q \in Runs : call[q].pc \in {"Idle", "Version", "Select", "Freeze"} =>
                call[q].tries < MaxAttempts
  BY DEF TypeInv, TriesLeft
<1> QED BY <1>1, <1>3, <1>4

LEMMA LoopMoved ==
    ASSUME TypeInv, NEW r \in Runs, LoopMoves(r)
    PROVE  /\ loop' \in [Runs -> LoopType]
           /\ \A q \in Runs : loop'[q].pc # "Ended" => loop'[q].tries < MaxAttempts
           /\ \A q \in Runs \ {r} : loop'[q] = loop[q]
           /\ loop'[r].prior \in {loop[r].prior, loop[r].cache.input, record[r].input}
           /\ loop'[r].cache \in {loop[r].cache, record[r], NoRecord}
<1>1. PICK y \in LoopType :
        /\ loop' = [loop EXCEPT ![r] = y]
        /\ y.pc # "Ended" => y.tries < MaxAttempts
        /\ y.prior \in {loop[r].prior, loop[r].cache.input, record[r].input}
        /\ y.cache \in {loop[r].cache, record[r], NoRecord}
  BY DEF LoopMoves
<1>2. loop \in [Runs -> LoopType]
  BY DEF TypeInv, CallerTypes
<1>3. loop' \in [Runs -> LoopType] /\ loop'[r] = y /\ \A q \in Runs \ {r} : loop'[q] = loop[q]
  BY <1>1, <1>2
<1>4. \A q \in Runs : loop[q].pc # "Ended" => loop[q].tries < MaxAttempts
  BY DEF TypeInv, TriesLeft
<1> QED BY <1>1, <1>3, <1>4

\* What the type invariant says of one submission and one loop.
LEMMA CallerFacts ==
    ASSUME TypeInv, NEW r \in Runs
    PROVE  /\ call \in [Runs -> CallType] /\ loop \in [Runs -> LoopType]
           /\ call[r] \in CallType /\ loop[r] \in LoopType /\ record[r] \in RunRecords
           /\ call[r].pc \in {"Idle", "Version", "Select", "Freeze"} => call[r].tries < MaxAttempts
           /\ loop[r].pc # "Ended" => loop[r].tries < MaxAttempts
           /\ MaxAttempts \in Nat \ {0} /\ MaxSteps \in Nat \ {0}
           /\ Len(log) \in Nat /\ NoRecord \in RunRecords
<1>1. Len(log) \in Nat
  BY SeqIsFunction DEF TypeInv, StoreTypes
<1>2. << >> \in Seq(Inputs)
  OBVIOUS
<1> QED BY <1>1, <1>2, MessagesAssumption DEF TypeInv, StoreTypes, CallerTypes, TriesLeft,
         NoRecord, RunRecords

\* The queue that a submission selects from.
LEMMA NewFacts ==
    ASSUME NEW id \in Inputs, NEW mode \in DeliveryMode
    PROVE  New(id, mode) \in Records /\ New(id, mode).id = id /\ New(id, mode).mode = mode
             /\ New(id, mode).text = 0 /\ New(id, mode).rev = 1
BY DEF New, Records

LEMMA ModeFacts ==
    /\ \A r \in Runs : SubmitMode(r) \in DeliveryMode /\ r \in Inputs /\ r # NoRun
    /\ \A r \in Runs : SteerMode(r) \in DeliveryMode
    /\ \A x \in Extras : ExtraMode[x] \in DeliveryMode /\ x \in Inputs
    /\ Steers \subseteq Runs
BY MessagesAssumption DEF SubmitMode, SteerMode, DeliveryMode, Inputs
\* Every action of a submission moves it.
LEMMA SubmissionMoves ==
    ASSUME TypeInv, NEW r \in Runs, Submission(r)
    PROVE  CallMoves(r)
<1> DEFINE c == call[r]
           queue == Append(pending, New(r, SubmitMode(r)))
           sel == SelectPending(queue, Boundary[r], r)
<1>1. /\ c \in CallType /\ call \in [Runs -> CallType]
      /\ c.pc \in {"Idle", "Version", "Select", "Freeze"} => c.tries < MaxAttempts
      /\ MaxAttempts \in Nat \ {0} /\ Len(log) \in Nat
  BY CallerFacts
<1>2. c.tries \in 0 .. MaxAttempts
  BY <1>1 DEF CallType
<1>3. SubmitRetries(r) /\ c.pc = "Freeze" => CallMoves(r)
  <2> DEFINE pc == IF c.tries + 1 < MaxAttempts THEN "Version" ELSE "Failed"
             y == [c EXCEPT !.tries = @ + 1, !.pc = pc]
  <2> SUFFICES ASSUME SubmitRetries(r), c.pc = "Freeze" PROVE CallMoves(r)
    OBVIOUS
  <2>1. call' = [call EXCEPT ![r] = y]
    BY DEF SubmitRetries
  <2>2. c.tries + 1 \in 0 .. MaxAttempts
    BY <1>1, <1>2
  <2>3. c.pc # "Frozen"
    OBVIOUS
  <2> HIDE DEF c
  <2>4. y \in CallType /\ y.pc = pc /\ y.tries = c.tries + 1
    BY <1>1, <2>2 DEF CallType
  <2> HIDE DEF y
  <2> QED BY <2>1, <2>3, <2>4, <1>2, <1>1 DEF CallMoves, c
<1>4. CASE SubmitBegins(r)
  <2> DEFINE pc == IF Blocked(r) THEN "Refused" ELSE "Version"
             y == [c EXCEPT !.pc = pc]
  <2>1. call' = [call EXCEPT ![r] = y] /\ c.pc = "Idle"
    BY <1>4 DEF SubmitBegins
  <2> HIDE DEF c
  <2>2. y \in CallType /\ y.pc = pc /\ y.tries = c.tries
    BY <1>1 DEF CallType
  <2> HIDE DEF y
  <2> QED BY <2>1, <2>2, <1>1 DEF CallMoves, c
<1>5. CASE SubmitReadsVersion(r)
  <2> DEFINE y == [c EXCEPT !.pc = "Select", !.ver = Len(log)]
  <2>1. call' = [call EXCEPT ![r] = y] /\ c.pc = "Version"
    BY <1>5 DEF SubmitReadsVersion
  <2> HIDE DEF c
  <2>2. y \in CallType /\ y.pc = "Select" /\ y.tries = c.tries
    BY <1>1 DEF CallType
  <2> HIDE DEF y
  <2> QED BY <2>1, <2>2, <1>1 DEF CallMoves, c
<1>6. CASE SubmitSelects(r)
  <2> DEFINE pc == IF sel = << >> THEN "Failed" ELSE "Freeze"
             y == [c EXCEPT !.sel = sel, !.pc = pc]
  <2>1. call' = [call EXCEPT ![r] = y] /\ c.pc = "Select"
    BY <1>6 DEF SubmitSelects
  <2>2. sel \in Seq(Inputs)
    <3>1. pending \in Seq(Records)
      BY DEF TypeInv, StoreTypes
    <3>2. New(r, SubmitMode(r)) \in Records
      BY ModeFacts, NewFacts
    <3>3. queue \in Seq(Records)
      BY <3>1, <3>2, AppendFacts
    <3> QED BY <3>3, SelectType
  <2> HIDE DEF c, sel
  <2>3. y \in CallType /\ y.pc = pc /\ y.tries = c.tries
    BY <1>1, <2>2 DEF CallType
  <2> HIDE DEF y
  <2> QED BY <2>1, <2>3, <1>1 DEF CallMoves, c
<1>7. CASE SubmitFreezes(r)
  <2>1. c.pc = "Freeze" /\ (SubmitRetries(r) \/ call' = [call EXCEPT ![r].pc = "Failed"]
                              \/ call' = [call EXCEPT ![r].pc = "Frozen"])
    BY <1>7, Zenon DEF SubmitFreezes
  <2>2. ASSUME NEW pc \in {"Failed", "Frozen"}, call' = [call EXCEPT ![r].pc = pc]
        PROVE  CallMoves(r)
    <3> DEFINE y == [c EXCEPT !.pc = pc]
    <3>1. call' = [call EXCEPT ![r] = y]
      BY <2>2
    <3> HIDE DEF c
    <3>2. y \in CallType /\ y.pc = pc
      BY <1>1 DEF CallType
    <3> HIDE DEF y
    <3> QED BY <3>1, <3>2, <2>1 DEF CallMoves, c
  <2> QED BY <2>1, <2>2, <1>3
<1> QED BY <1>4, <1>5, <1>6, <1>7 DEF Submission

\* The holder of the commit lock is about to commit.
LEMMA LockHolder ==
    ASSUME TypeInv, NEW r \in Runs, commit.holder = r
    PROVE  Locked /\ backend = "memory" /\ loop[r].pc = "Commit"
BY MessagesAssumption DEF TypeInv, LockInv, Locked, Unlocked

\* Every action of a loop moves it, but those that copy and restore the store.
LEMMA AgentLoopMoves ==
    ASSUME TypeInv, NEW r \in Runs, AgentLoop(r)
    PROVE  loop' = loop \/ LoopMoves(r)
<1> DEFINE l == loop[r]
<1>1. /\ l \in LoopType /\ loop \in [Runs -> LoopType] /\ record[r] \in RunRecords
      /\ l.pc # "Ended" => l.tries < MaxAttempts
      /\ MaxAttempts \in Nat \ {0} /\ MaxSteps \in Nat \ {0}
      /\ Len(log) \in Nat /\ NoRecord \in RunRecords
  BY CallerFacts
<1>2. l.tries \in 0 .. MaxAttempts /\ 0 \in 0 .. MaxAttempts
  BY <1>1 DEF LoopType
<1>3. ASSUME NEW y \in LoopType, loop' = [loop EXCEPT ![r] = y],
             y.tries \in {0, l.tries}, l.tries < MaxAttempts,
             y.prior \in {l.prior, l.cache.input, record[r].input},
             y.cache \in {l.cache, record[r], NoRecord}
      PROVE  LoopMoves(r)
  <2>1. y.tries < MaxAttempts
    BY <1>3, <1>1
  <2> QED BY <1>3, <2>1 DEF LoopMoves
<1>4. ASSUME NEW pc \in {"Save", "Version"}, l.pc # "Ended",
             loop' = [loop EXCEPT ![r].tries = @ + 1, ![r].prior = l.prior,
                        ![r].pc = IF l.tries + 1 < MaxAttempts THEN pc ELSE "Ended"]
      PROVE  LoopMoves(r)
  <2> DEFINE to == IF l.tries + 1 < MaxAttempts THEN pc ELSE "Ended"
             y == [l EXCEPT !.tries = @ + 1, !.prior = l.prior, !.pc = to]
  <2>1. loop' = [loop EXCEPT ![r] = y]
    BY <1>4
  <2>2. l.tries + 1 \in 0 .. MaxAttempts
    BY <1>1, <1>2, <1>4
  <2>3. l.pc # "Ended"
    BY <1>4
  <2> HIDE DEF l
  <2>4. y \in LoopType /\ y.pc = to /\ y.tries = l.tries + 1 /\ y.prior = l.prior /\ y.cache = l.cache
    BY <1>1, <2>2 DEF LoopType
  <2> HIDE DEF y
  <2> QED BY <2>1, <2>4, <1>2, <1>1 DEF LoopMoves, l
<1>5. SaveRetries(r) /\ l.pc # "Ended" => LoopMoves(r)
  <2> SUFFICES ASSUME SaveRetries(r), l.pc # "Ended" PROVE LoopMoves(r)
    OBVIOUS
  <2> DEFINE to == IF l.tries + 1 < MaxAttempts THEN "Save" ELSE "Ended"
             y == [l EXCEPT !.tries = @ + 1, !.pc = to]
  <2>1. loop' = [loop EXCEPT ![r] = y]
    BY DEF SaveRetries
  <2>2. l.tries + 1 \in 0 .. MaxAttempts
    BY <1>1, <1>2
  <2> HIDE DEF l
  <2>4. y \in LoopType /\ y.pc = to /\ y.tries = l.tries + 1 /\ y.prior = l.prior /\ y.cache = l.cache
    BY <1>1, <2>2 DEF LoopType
  <2> HIDE DEF y
  <2> QED BY <2>1, <2>4, <1>2, <1>1 DEF LoopMoves, l
<1>6. CheckpointWritten(r) /\ l.pc # "Ended" => LoopMoves(r)
  <2> SUFFICES ASSUME CheckpointWritten(r), l.pc # "Ended" PROVE LoopMoves(r)
    OBVIOUS
  <2> DEFINE to == IF l.boundary = "Final" THEN "Ended" ELSE "Version"
             y == [l EXCEPT !.output = << >>, !.tries = 0, !.pc = to]
  <2>1. loop' = [loop EXCEPT ![r] = y]
    BY DEF CheckpointWritten
  <2>2. << >> \in Seq(Outputs) /\ 0 \in 0 .. MaxAttempts /\ l.tries < MaxAttempts
    BY <1>1
  <2> HIDE DEF l
  <2>4. y \in LoopType /\ y.tries = 0 /\ y.prior = l.prior /\ y.cache = l.cache
    BY <1>1, <2>2 DEF LoopType
  <2> HIDE DEF y
  <2> QED BY <2>1, <2>2, <2>4, <1>3 DEF l
<1>7. CASE RunBegins(r)
  <2> DEFINE new == IF latest = r THEN record[r] ELSE NoRecord
             y == [l EXCEPT !.pc = "Step", !.cache = new]
  <2>1. loop' = [loop EXCEPT ![r] = y] /\ l.pc = "Idle"
    BY <1>7 DEF RunBegins
  <2>2. new \in RunRecords /\ new \in {record[r], NoRecord} /\ l.tries < MaxAttempts
    BY <1>1, <2>1
  <2> HIDE DEF l, new
  <2>4. y \in LoopType /\ y.tries = l.tries /\ y.prior = l.prior /\ y.cache = new
    BY <1>1, <2>2 DEF LoopType
  <2> HIDE DEF y
  <2> QED BY <2>1, <2>2, <2>4, <1>3 DEF l
<1>8. CASE StepEnds(r)
  <2>1. PICK b \in {"NextStep", "OnNaturalEnd"} :
         loop' = [loop EXCEPT ![r].pc = "Save", ![r].boundary = b, ![r].tries = 0,
                    ![r].steps = @ + 1,
                    ![r].output = Append(@, [id |-> <<r, loop[r].steps + 1>>, text |-> 0])]
    BY <1>8 DEF StepEnds
  <2> DEFINE out == Append(l.output, [id |-> <<r, l.steps + 1>>, text |-> 0])
             y == [l EXCEPT !.pc = "Save", !.boundary = b, !.tries = 0, !.steps = l.steps + 1,
                            !.output = out]
  <2>2. loop' = [loop EXCEPT ![r] = y]
    BY <2>1
  <2>3. l.steps < MaxSteps /\ l.tries < MaxAttempts
    BY <1>1, <1>8 DEF StepEnds
  <2> HIDE DEF l
  <2>4. out \in Seq(Outputs)
    BY <1>1, <2>3 DEF LoopType, Outputs
  <2> HIDE DEF out
  <2>5. l.steps + 1 \in 0 .. MaxSteps
    BY <1>1, <2>3 DEF LoopType
  <2>6. y \in LoopType /\ y.tries = 0 /\ y.prior = l.prior /\ y.cache = l.cache
    BY <1>1, <1>2, <2>5, <2>4 DEF LoopType
  <2> HIDE DEF y
  <2> QED BY <2>2, <2>3, <2>6, <1>3 DEF l
<1>9. CASE StepCancelled(r)
  <2> DEFINE y == [l EXCEPT !.pc = "Save", !.boundary = "Final", !.tries = 0]
  <2>1. loop' = [loop EXCEPT ![r] = y] /\ l.tries < MaxAttempts
    BY <1>1, <1>9 DEF StepCancelled
  <2> HIDE DEF l
  <2>2. y \in LoopType /\ y.tries = 0 /\ y.prior = l.prior /\ y.cache = l.cache
    BY <1>1, <1>2 DEF LoopType
  <2> HIDE DEF y
  <2> QED BY <2>1, <2>2, <1>3 DEF l
<1>10. CASE SaveReads(r)
  <2> DEFINE p == CASE l.tries > 0 -> l.prior
                    [] l.tries = 0 /\ l.cache # NoRecord -> l.cache.input
                    [] OTHER -> record[r].input
             y == [l EXCEPT !.pc = "Commit", !.ver = Len(log), !.prior = p]
  <2>0. loop' = [loop EXCEPT ![r].pc = "Commit", ![r].ver = Len(log), ![r].prior = p]
    BY <1>10 DEF SaveReads
  <2>1. loop' = [loop EXCEPT ![r] = y] /\ l.tries < MaxAttempts
    <3>1. l.tries < MaxAttempts
      BY <1>1, <1>10 DEF SaveReads
    <3> HIDE DEF p
    <3> QED BY <2>0, <3>1
  <2>2. p \in {l.prior, l.cache.input, record[r].input}
    BY <1>2
  <2> HIDE DEF l
  <2>3. p \in Seq(Inputs)
    BY <1>1, <2>2 DEF LoopType, RunRecords
  <2> HIDE DEF p
  <2>4. y \in LoopType /\ y.tries = l.tries /\ y.prior = p /\ y.cache = l.cache
    BY <1>1, <2>3 DEF LoopType
  <2> HIDE DEF y
  <2> QED BY <2>1, <2>2, <2>4, <1>3 DEF l
<1>11. CASE CommitInTransaction(r)
  <2>1. l.pc # "Ended" /\ (CheckpointWritten(r) \/ SaveRetries(r))
    BY <1>11 DEF CommitInTransaction
  <2> QED BY <2>1, <1>5, <1>6
<1>12. CASE \/ SnapshotRuns(r) \/ SnapshotMessages(r) \/ SnapshotPending(r)
            \/ CommitFails(r) \/ RestoreRuns(r) \/ RestoreMessages(r)
  <2>1. loop' = loop
    BY <1>12, Zenon DEF SnapshotRuns, SnapshotMessages, SnapshotPending, CommitFails,
         RestoreRuns, RestoreMessages
  <2> QED BY <2>1
<1>13. CASE CommitAppends(r)
  <2>1. l.pc # "Ended" /\ CheckpointWritten(r)
    BY <1>13, LockHolder DEF CommitAppends, CommitAt
  <2> QED BY <2>1, <1>6
<1>14. CASE RestorePending(r)
  <2>1. l.pc # "Ended" /\ SaveRetries(r)
    BY <1>14, LockHolder DEF RestorePending, CommitAt
  <2> QED BY <2>1, <1>5
<1>15. CASE BoundaryReads(r)
  <2> DEFINE p == IF l.tries = 0 THEN record[r].input ELSE l.prior
             y == [l EXCEPT !.pc = "Select", !.ver = Len(log), !.prior = p]
  <2>1. loop' = [loop EXCEPT ![r] = y] /\ l.tries < MaxAttempts
    BY <1>1, <1>15 DEF BoundaryReads
  <2>2. p \in {l.prior, l.cache.input, record[r].input}
    OBVIOUS
  <2> HIDE DEF l
  <2>3. p \in Seq(Inputs)
    BY <1>1, <2>2 DEF LoopType, RunRecords
  <2> HIDE DEF p
  <2>4. y \in LoopType /\ y.tries = l.tries /\ y.prior = p /\ y.cache = l.cache
    BY <1>1, <2>3 DEF LoopType
  <2> HIDE DEF y
  <2> QED BY <2>1, <2>2, <2>4, <1>3 DEF l
<1>16. CASE BoundarySelects(r)
  <2> DEFINE sel == SelectPending(pending, l.boundary, r)
             to == CASE sel # << >> -> "Freeze"
                     [] sel = << >> /\ l.boundary = "NextStep" -> "Step"
                     [] OTHER -> "Save"
             b == IF sel = << >> /\ l.boundary = "OnNaturalEnd" THEN "Final" ELSE l.boundary
             t == IF sel = << >> THEN 0 ELSE l.tries
             y == [l EXCEPT !.sel = sel, !.pc = to, !.boundary = b, !.tries = t]
  <2>1. loop' = [loop EXCEPT ![r] = y] /\ l.tries < MaxAttempts
    BY <1>1, <1>16 DEF BoundarySelects
  <2>2. sel \in Seq(Inputs)
    BY SelectType DEF TypeInv, StoreTypes
  <2> HIDE DEF sel, l
  <2>3. to \in {"Freeze", "Step", "Save"} /\ t \in {0, l.tries} /\ t \in 0 .. MaxAttempts
         /\ b \in {"NextStep", "OnNaturalEnd", "Final"}
    BY <1>1, <1>2 DEF LoopType
  <2> HIDE DEF to, b, t
  <2>4. y \in LoopType /\ y.tries = t /\ y.prior = l.prior /\ y.cache = l.cache
    BY <1>1, <2>2, <2>3 DEF LoopType
  <2> HIDE DEF y
  <2> QED BY <2>1, <2>3, <2>4, <1>3 DEF l
<1>17. CASE BoundaryFreezes(r)
  <2>1. /\ l.pc = "Freeze"
        /\ \/ BoundaryRetries(r) \/ loop' = [loop EXCEPT ![r].pc = "Ended"]
           \/ loop' = [loop EXCEPT ![r].pc = "Step", ![r].tries = 0]
    BY <1>17, Zenon DEF BoundaryFreezes
  <2>2. CASE BoundaryRetries(r)
    BY <2>1, <2>2, <1>4 DEF BoundaryRetries, PriorAfterConflict
  <2>3. CASE loop' = [loop EXCEPT ![r].pc = "Step", ![r].tries = 0]
    <3> DEFINE y == [l EXCEPT !.pc = "Step", !.tries = 0]
    <3>1. loop' = [loop EXCEPT ![r] = y] /\ l.tries < MaxAttempts
      BY <1>1, <2>1, <2>3
    <3> HIDE DEF l
    <3>2. y \in LoopType /\ y.tries = 0 /\ y.prior = l.prior /\ y.cache = l.cache
      BY <1>1, <1>2 DEF LoopType
    <3> HIDE DEF y
    <3> QED BY <3>1, <3>2, <1>3 DEF l
  <2>4. CASE loop' = [loop EXCEPT ![r].pc = "Ended"]
    <3> DEFINE y == [l EXCEPT !.pc = "Ended"]
    <3>1. loop' = [loop EXCEPT ![r] = y] /\ l.tries < MaxAttempts
      BY <1>1, <2>1, <2>4
    <3> HIDE DEF l
    <3>2. y \in LoopType /\ y.tries = l.tries /\ y.prior = l.prior /\ y.cache = l.cache
      BY <1>1, <1>2 DEF LoopType
    <3> HIDE DEF y
    <3> QED BY <3>1, <3>2, <1>3 DEF l
  <2> QED BY <2>1, <2>2, <2>3, <2>4
<1> QED BY <1>7, <1>8, <1>9, <1>10, <1>11, <1>12, <1>13, <1>14, <1>15, <1>16, <1>17 DEF AgentLoop, InMemory

-----------------------------------------------------------------------------
(* What the calls of the store do.                                         *)

LEMMA StoreFacts ==
    ASSUME TypeInv, SoundInv
    PROVE  /\ log \in Seq(Entries) /\ pending \in Seq(Records) /\ record \in [Runs -> RunRecords]
           /\ Sound(log, pending) /\ Distinct(pending) /\ history \in HistoryType
           /\ \A i \in DOMAIN pending : pending[i] \in Records /\ pending[i].id \in Inputs
           /\ Waiting \subseteq Inputs
<1>1. log \in Seq(Entries) /\ pending \in Seq(Records) /\ record \in [Runs -> RunRecords]
       /\ history \in HistoryType
  BY DEF TypeInv, StoreTypes
<1>2. \A i \in DOMAIN pending : pending[i] \in Records
  BY <1>1, SeqIsFunction
<1>3. \A i \in DOMAIN pending : pending[i].id \in Inputs
  BY <1>2 DEF Records
<1> QED BY <1>1, <1>2, <1>3 DEF SoundInv, Sound, Waiting, Ids

\* The history of a message that is taken, acknowledged, or edited.
LEMMA TakenFacts ==
    ASSUME history \in HistoryType, NEW r \in Runs, NEW sel \in Seq(Inputs), Taken(sel, r)
    PROVE  /\ history' \in HistoryType
           /\ history'.ok = history.ok \cup Range(sel)
           /\ history'.gone = history.gone /\ history'.edits = history.edits
           /\ \A m \in Inputs : history'.taker[m] = IF m \in Range(sel) THEN r ELSE history.taker[m]
<1> DEFINE ok == history.ok \cup Range(sel)
           taker == [m \in Inputs |-> IF m \in Range(sel) THEN r ELSE history.taker[m]]
<1>1. history' = [history EXCEPT !.ok = ok, !.taker = taker]
  BY DEF Taken
<1>2. \A k \in DOMAIN sel : sel[k] \in Inputs
  BY SeqIsFunction
<1>3. Range(sel) \subseteq Inputs
  BY <1>2 DEF Range
<1>4. ok \in SUBSET Inputs
  BY <1>3 DEF HistoryType
<1>5. taker \in [Inputs -> Runs \cup {NoRun}]
  BY DEF HistoryType
<1>6. \A m \in Inputs : taker[m] = IF m \in Range(sel) THEN r ELSE history.taker[m]
  OBVIOUS
<1> HIDE DEF ok, taker
<1>7. history' \in HistoryType
  BY <1>1, <1>4, <1>5 DEF HistoryType
<1>8. /\ history'.ok = ok /\ history'.taker = taker
      /\ history'.gone = history.gone /\ history'.edits = history.edits
  BY <1>1 DEF HistoryType
<1> QED BY <1>6, <1>7, <1>8 DEF ok

LEMMA HistoryFacts ==
    ASSUME history \in HistoryType, NEW m \in Inputs, NEW n \in Nat
    PROVE  /\ [history EXCEPT !.ok = @ \cup {m}] \in HistoryType
           /\ [history EXCEPT !.edits[m] = n] \in HistoryType
           /\ [history EXCEPT !.gone = @ \cup {m}] \in HistoryType
<1> DEFINE h == history
           edits == [h.edits EXCEPT ![m] = n]
<1>1. edits \in [Inputs -> Nat] /\ h \in HistoryType
  BY DEF HistoryType
<1>2. /\ [history EXCEPT !.ok = @ \cup {m}] = [h EXCEPT !.ok = h.ok \cup {m}]
      /\ [history EXCEPT !.edits[m] = n] = [h EXCEPT !.edits = edits]
      /\ [history EXCEPT !.gone = @ \cup {m}] = [h EXCEPT !.gone = h.gone \cup {m}]
  OBVIOUS
<1> HIDE DEF h, edits
<1> QED BY <1>1, <1>2 DEF HistoryType

\* A freeze moves what it selects from the queue to the log.
LEMMA FreezeStep ==
    ASSUME TypeInv, SoundInv, NEW r \in Runs,
           NEW queue \in Seq(Records), Sound(log, queue),
           NEW b, NEW sel, sel = SelectPending(queue, b, r), AppendOnly(sel),
           NEW input \in Seq(Inputs), Freeze(queue, sel, r, input)
    PROVE  /\ log' \in Seq(Entries) /\ pending' \in Seq(Records)
           /\ record' \in [Runs -> RunRecords] /\ latest' \in Runs \cup {NoRun}
           /\ history' \in HistoryType
           /\ Sound(log', pending')
           /\ Ids(log') = Committed \cup Range(sel)
           /\ Ids(pending') = Ids(queue) \ Range(sel)
           /\ Within(pending', queue)
           /\ Logged(log', log, queue)
           /\ \A q \in Runs : record'[q].input = IF q = r THEN input ELSE record[q].input
           /\ Taken(sel, r)
<1>1. log \in Seq(Entries) /\ record \in [Runs -> RunRecords] /\ history \in HistoryType
  BY StoreFacts
<1>2. /\ sel \in Seq(Inputs) /\ Range(sel) \subseteq Ids(queue)
      /\ \A k, l \in DOMAIN sel : sel[k] = sel[l] => k = l
      /\ Range(sel) \cap Ids(log) = {}
  BY SelectFacts DEF Sound, AppendOnly, Committed
<1>3. /\ log' = log \o [k \in DOMAIN sel |-> Entry(queue, sel[k])]
      /\ pending' = Without(queue, Range(sel))
      /\ latest' = r /\ Taken(sel, r)
  BY DEF Freeze
<1>4. /\ log' \in Seq(Entries) /\ pending' \in Seq(Records)
      /\ Sound(log', pending')
      /\ Ids(log') = Committed \cup Range(sel)
      /\ Ids(pending') = Ids(queue) \ Range(sel)
      /\ Within(pending', queue)
      /\ Logged(log', log, queue)
  <2> DEFINE new == LogWith(log, queue, sel)
             rest == Without(queue, Range(sel))
  <2>1. /\ new \in Seq(Entries) /\ rest \in Seq(Records)
        /\ Sound(new, rest)
        /\ Ids(new) = Ids(log) \cup Range(sel)
        /\ Ids(rest) = Ids(queue) \ Range(sel)
        /\ Within(rest, queue)
        /\ Logged(new, log, queue)
    <3>1. new \in Seq(Entries) /\ rest \in Seq(Records) /\ Sound(new, rest)
      BY <1>1, <1>2, FreezeFacts
    <3>2. Ids(new) = Ids(log) \cup Range(sel) /\ Ids(rest) = Ids(queue) \ Range(sel)
      BY <1>1, <1>2, FreezeFacts
    <3>3. Within(rest, queue)
      BY <1>1, <1>2, FreezeFacts
    <3>4. Logged(new, log, queue)
      BY <1>1, <1>2, FreezeFacts
    <3> QED BY <3>1, <3>2, <3>3, <3>4
  <2>2. log' = new /\ pending' = rest
    BY <1>3 DEF LogWith
  <2> HIDE DEF new, rest
  <2> QED BY <2>1, <2>2 DEF Committed
<1>5. history' \in HistoryType
  BY <1>1, <1>2, <1>3, TakenFacts
<1>6. /\ record' \in [Runs -> RunRecords]
      /\ \A q \in Runs : record'[q].input = IF q = r THEN input ELSE record[q].input
  <2> DEFINE d == record[r]
             st == IF d.status = "None" THEN "Created" ELSE d.status
             y == [d EXCEPT !.input = input, !.status = st]
  <2>1. record' = [record EXCEPT ![r] = y]
    BY DEF Freeze
  <2>2. d \in RunRecords
    BY <1>1
  <2> HIDE DEF d
  <2>3. y \in RunRecords /\ y.input = input
    BY <2>2 DEF RunRecords
  <2> HIDE DEF y
  <2> QED BY <2>1, <2>3, <1>1
<1> QED BY <1>3, <1>4, <1>5, <1>6

-----------------------------------------------------------------------------
(* Submissions.                                                            *)

StoreVars == <<log, pending, record, latest, history>>

SubmitQueue(r) == Append(pending, New(r, SubmitMode(r)))

\* The freeze of a submission that succeeds.
Submits(r) ==
    /\ Fresh(r) /\ AppendOnly(call[r].sel)
    /\ Freeze(SubmitQueue(r), call[r].sel, r, Merge(record[r].input, call[r].sel))
    /\ call[r].sel = SelectPending(SubmitQueue(r), Boundary[r], r)
    /\ call'[r].pc = "Frozen"

\* The append of one that fails, which the memory store keeps.
Orphans(r) ==
    /\ backend = "memory" /\ Fresh(r) /\ pending' = SubmitQueue(r)
    /\ UNCHANGED <<log, record, latest, history>>

LEMMA SubmissionStores ==
    ASSUME TypeInv, NEW r \in Runs, Submission(r)
    PROVE  UNCHANGED InCall /\ (UNCHANGED StoreVars \/ Orphans(r) \/ Submits(r))
<1>1. CASE SubmitBegins(r)
  BY <1>1 DEF SubmitBegins, StoreVars
<1>2. CASE SubmitReadsVersion(r)
  BY <1>2, Zenon DEF SubmitReadsVersion, StoreVars
<1>3. CASE SubmitSelects(r)
  BY <1>3, Zenon DEF SubmitSelects, StoreVars
<1>4. CASE SubmitFreezes(r)
  <2> DEFINE queue == Append(pending, New(r, SubmitMode(r)))
             sel == call[r].sel
  <2>1. UNCHANGED InCall
    BY <1>4, Zenon DEF SubmitFreezes
  <2>2. queue = SubmitQueue(r)
    BY DEF SubmitQueue
  <2>3. \/ UNCHANGED StoreVars
        \/ Fresh(r) /\ RolledBack(queue) /\ UNCHANGED <<log, record, latest, history>>
        \/ /\ Fresh(r) /\ Freeze(queue, sel, r, Merge(record[r].input, sel))
           /\ SelectPending(queue, Boundary[r], r) = sel /\ AppendOnly(sel)
           /\ call' = [call EXCEPT ![r].pc = "Frozen"]
    BY <1>4, Zenon DEF SubmitFreezes, StoreVars
  <2>4. CASE Fresh(r) /\ RolledBack(queue) /\ UNCHANGED <<log, record, latest, history>>
    BY <2>1, <2>2, <2>4 DEF RolledBack, Orphans, StoreVars
  <2>5. CASE /\ Fresh(r) /\ Freeze(queue, sel, r, Merge(record[r].input, sel))
             /\ SelectPending(queue, Boundary[r], r) = sel /\ AppendOnly(sel)
             /\ call' = [call EXCEPT ![r].pc = "Frozen"]
    <3>1. call'[r].pc = "Frozen"
      <4>1. call \in [Runs -> CallType] /\ call[r] \in CallType
        BY CallerFacts
      <4> QED BY <4>1, <2>5 DEF CallType
    <3>2. Submits(r)
      BY <2>2, <2>5, <3>1, Zenon DEF Submits
    <3> QED BY <2>1, <3>2
  <2> QED BY <2>1, <2>3, <2>4, <2>5
<1> QED BY <1>1, <1>2, <1>3, <1>4 DEF Submission

\* The queue with the new message at its end.
LEMMA SubmitQueueFacts ==
    ASSUME TypeInv, SoundInv, NEW r \in Runs, Fresh(r)
    PROVE  /\ SubmitQueue(r) \in Seq(Records)
           /\ DOMAIN SubmitQueue(r) = DOMAIN pending \cup {Len(pending) + 1}
           /\ \A i \in DOMAIN pending : SubmitQueue(r)[i] = pending[i]
           /\ SubmitQueue(r)[Len(pending) + 1] = New(r, SubmitMode(r))
           /\ Ids(SubmitQueue(r)) = Waiting \cup {r}
           /\ Sound(log, SubmitQueue(r))
<1> DEFINE m == New(r, SubmitMode(r))
           queue == Append(pending, m)
<1>1. m \in Records /\ m.id = r
  BY ModeFacts, NewFacts
<1>2. pending \in Seq(Records) /\ Sound(log, pending) /\ Distinct(pending)
  BY StoreFacts
<1>3. r \notin Ids(pending) /\ r \notin Ids(log)
  BY DEF Fresh, Waiting, Committed
<1> HIDE DEF m
<1>4. /\ queue \in Seq(Records)
      /\ DOMAIN queue = DOMAIN pending \cup {Len(pending) + 1}
      /\ \A i \in DOMAIN pending : queue[i] = pending[i]
      /\ queue[Len(pending) + 1] = m
      /\ Ids(queue) = Ids(pending) \cup {r}
      /\ Distinct(queue)
  BY <1>1, <1>2, <1>3, AppendFacts
<1>5. Sound(log, queue)
  BY <1>2, <1>3, <1>4 DEF Sound
<1>6. SubmitQueue(r) = queue
  BY DEF SubmitQueue, m
<1> HIDE DEF queue
<1> QED BY <1>4, <1>5, <1>6 DEF Waiting, m

LEMMA SubmitsFacts ==
    ASSUME TypeInv, SoundInv, NEW r \in Runs, Submits(r)
    PROVE  /\ StoreTypes' \/ commit' # commit
           /\ history' \in HistoryType
           /\ Sound(log', pending')
           /\ Ids(log') = Committed \cup Range(call[r].sel)
           /\ Ids(pending') = (Waiting \cup {r}) \ Range(call[r].sel)
           /\ Within(pending', SubmitQueue(r))
           /\ Logged(log', log, SubmitQueue(r))
           /\ \A q \in Runs : record'[q].input = IF q = r THEN Merge(record[r].input, call[r].sel)
                                                          ELSE record[q].input
           /\ Range(Merge(record[r].input, call[r].sel))
                \subseteq Range(record[r].input) \cup Range(call[r].sel)
           /\ Range(call[r].sel) \subseteq Waiting \cup {r}
           /\ call[r].sel \in Seq(Inputs)
           /\ Taken(call[r].sel, r)
<1> DEFINE sel == call[r].sel
           queue == SubmitQueue(r)
           input == Merge(record[r].input, sel)
<1>1. /\ Fresh(r) /\ AppendOnly(sel) /\ Freeze(queue, sel, r, input)
      /\ sel = SelectPending(queue, Boundary[r], r)
  BY DEF Submits
<1>2. queue \in Seq(Records) /\ Sound(log, queue) /\ Ids(queue) = Waiting \cup {r}
  BY <1>1, SubmitQueueFacts
<1>3. record[r].input \in Seq(Inputs) /\ sel \in Seq(Inputs)
  BY CallerFacts DEF RunRecords, CallType
<1>4. Range(sel) \subseteq Ids(queue)
  BY <1>1, <1>2, SelectFacts DEF Sound
<1>5. input \in Seq(Inputs) /\ Range(input) \subseteq Range(record[r].input) \cup Range(sel)
  BY <1>3, MergeFacts
<1> HIDE DEF sel, queue, input
<1>6. /\ log' \in Seq(Entries) /\ pending' \in Seq(Records)
      /\ record' \in [Runs -> RunRecords] /\ latest' \in Runs \cup {NoRun}
      /\ history' \in HistoryType
      /\ Sound(log', pending')
      /\ Ids(log') = Committed \cup Range(sel)
      /\ Ids(pending') = Ids(queue) \ Range(sel)
      /\ Within(pending', queue)
      /\ Logged(log', log, queue)
      /\ \A q \in Runs : record'[q].input = IF q = r THEN input ELSE record[q].input
      /\ Taken(sel, r)
  BY <1>1, <1>2, <1>5, FreezeStep
<1>7. StoreTypes' \/ commit' # commit
  BY <1>6 DEF StoreTypes, TypeInv
<1> QED BY <1>2, <1>3, <1>4, <1>5, <1>6, <1>7 DEF sel, queue, input

\* The types and the soundness of a store whose commit lock nobody touches.
LEMMA StoreKept ==
    ASSUME TypeInv, SoundInv, UNCHANGED commit,
           log' \in Seq(Entries), pending' \in Seq(Records), Sound(log', pending'),
           Committed \subseteq Ids(log')
    PROVE  SoundInv'
BY DEF SoundInv, Committed, Locked

LEMMA SubmissionKeeps ==
    ASSUME TypeInv, SoundInv, NEW r \in Runs, Submission(r)
    PROVE  TypeInv' /\ SoundInv'
<1>1. /\ call' \in [Runs -> CallType]
      /\ \A q \in Runs : call'[q].pc \in {"Idle", "Version", "Select", "Freeze"} =>
           call'[q].tries < MaxAttempts
  BY SubmissionMoves, CallMoved
<1>2. UNCHANGED InCall /\ (UNCHANGED StoreVars \/ Orphans(r) \/ Submits(r))
  BY SubmissionStores
<1>3. StoreTypes' /\ history' \in HistoryType /\ SoundInv'
  <2>1. CASE UNCHANGED StoreVars
    BY <1>2, <2>1 DEF TypeInv, StoreTypes, SoundInv, StoreVars, InCall, Committed, Locked
  <2>2. CASE Orphans(r)
    <3>1. pending' \in Seq(Records) /\ Sound(log, pending')
      BY <2>2, SubmitQueueFacts DEF Orphans
    <3>2. UNCHANGED <<log, record, latest, history, commit>>
      BY <1>2, <2>2 DEF Orphans, InCall
    <3> QED BY <3>1, <3>2 DEF TypeInv, StoreTypes, SoundInv, Committed, Locked
  <2>3. CASE Submits(r)
    <3>1. UNCHANGED commit
      BY <1>2 DEF InCall
    <3>2. /\ StoreTypes' /\ history' \in HistoryType
          /\ Sound(log', pending') /\ Committed \subseteq Ids(log')
      BY <2>3, <3>1, SubmitsFacts
    <3> QED BY <3>1, <3>2, StoreKept DEF StoreTypes
  <2> QED BY <1>2, <2>1, <2>2, <2>3
<1>4. UNCHANGED <<backend, steer, loop, editor, commit>>
  BY <1>2 DEF InCall
<1>5. TypeInv'
  BY <1>1, <1>3, <1>4 DEF TypeInv, CallerTypes, TriesLeft, LockInv, Locked
<1> QED BY <1>3, <1>5

-----------------------------------------------------------------------------
(* Steering and deliveries.                                                *)

\* A message appended to the queue as it is.
LEMMA AppendStep ==
    ASSUME TypeInv, SoundInv, NEW id \in Inputs, NEW mode \in DeliveryMode,
           Fresh(id), AppendPending(id, mode)
    PROVE  /\ pending' \in Seq(Records) /\ Sound(log, pending')
           /\ DOMAIN pending' = DOMAIN pending \cup {Len(pending) + 1}
           /\ \A i \in DOMAIN pending : pending'[i] = pending[i]
           /\ pending'[Len(pending) + 1] = New(id, mode)
           /\ Ids(pending') = Waiting \cup {id}
<1> DEFINE m == New(id, mode)
           queue == Append(pending, m)
<1>1. m \in Records /\ m.id = id
  BY NewFacts
<1>2. pending \in Seq(Records) /\ Sound(log, pending) /\ Distinct(pending)
  BY StoreFacts
<1>3. id \notin Ids(pending) /\ id \notin Ids(log)
  BY DEF Fresh, Waiting, Committed
<1> HIDE DEF m
<1>4. /\ queue \in Seq(Records)
      /\ DOMAIN queue = DOMAIN pending \cup {Len(pending) + 1}
      /\ \A i \in DOMAIN pending : queue[i] = pending[i]
      /\ queue[Len(pending) + 1] = m
      /\ Ids(queue) = Ids(pending) \cup {id}
      /\ Distinct(queue)
  BY <1>1, <1>2, <1>3, AppendFacts
<1>5. Sound(log, queue)
  BY <1>2, <1>3, <1>4 DEF Sound
<1>6. pending' = queue
  BY DEF AppendPending, m
<1> HIDE DEF queue
<1> QED BY <1>4, <1>5, <1>6 DEF Waiting, m

\* A message taken out of the queue.
LEMMA WithoutStep ==
    ASSUME TypeInv, SoundInv, NEW ids, NEW rest, rest = Without(pending, ids)
    PROVE  /\ rest \in Seq(Records) /\ Sound(log, rest)
           /\ Within(rest, pending) /\ Ids(rest) = Waiting \ ids
<1>1. pending \in Seq(Records) /\ Sound(log, pending) /\ Distinct(pending)
  BY StoreFacts
<1>2. /\ rest \in Seq(Records)
      /\ \A k \in DOMAIN rest :
           \E i \in DOMAIN pending : pending[i].id \notin ids /\ rest[k] = pending[i]
      /\ Ids(rest) = Ids(pending) \ ids
      /\ Distinct(rest)
  BY <1>1, WithoutFacts
<1>3. Within(rest, pending)
  BY <1>2 DEF Within
<1>4. Sound(log, rest)
  BY <1>1, <1>2 DEF Sound
<1> QED BY <1>2, <1>3, <1>4 DEF Waiting

\* New revisions for every record of a queue.
Bumped(queue) == [i \in DOMAIN queue |-> [queue[i] EXCEPT !.rev = @ + 1]]

LEMMA RevisedFacts ==
    ASSUME NEW m \in Records, NEW n \in Nat \ {0}, NEW y, y = [m EXCEPT !.rev = n]
    PROVE  y \in Records /\ y.id = m.id /\ y.text = m.text /\ y.mode = m.mode /\ y.rev = n
BY DEF Records

LEMMA BumpedFacts ==
    ASSUME NEW queue \in Seq(Records)
    PROVE  /\ Bumped(queue) \in Seq(Records) /\ DOMAIN Bumped(queue) = DOMAIN queue
           /\ \A i \in DOMAIN queue :
                LET m == Bumped(queue)[i]
                IN  /\ m.id = queue[i].id /\ m.text = queue[i].text /\ m.mode = queue[i].mode
                    /\ m.rev = queue[i].rev + 1
           /\ Ids(Bumped(queue)) = Ids(queue)
           /\ Distinct(queue) => Distinct(Bumped(queue))
<1> DEFINE q == Bumped(queue)
<1>1. /\ Len(queue) \in Nat /\ DOMAIN queue = 1 .. Len(queue)
      /\ \A i \in DOMAIN queue : queue[i] \in Records
  BY SeqIsFunction
<1>2. ASSUME NEW m \in Records
      PROVE  LET y == [m EXCEPT !.rev = m.rev + 1]
             IN  y \in Records /\ y.id = m.id /\ y.text = m.text /\ y.mode = m.mode /\ y.rev = m.rev + 1
  <2> DEFINE n == m.rev + 1
  <2>1. n \in Nat \ {0}
    BY <1>2 DEF Records
  <2> HIDE DEF n
  <2>2. LET y == [m EXCEPT !.rev = n]
        IN  y \in Records /\ y.id = m.id /\ y.text = m.text /\ y.mode = m.mode /\ y.rev = n
    BY <1>2, <2>1, RevisedFacts
  <2> QED BY <2>2 DEF n
<1>3. DOMAIN q = DOMAIN queue /\ \A i \in DOMAIN queue : q[i] = [queue[i] EXCEPT !.rev = queue[i].rev + 1]
  BY DEF Bumped
<1> HIDE DEF q
<1>4. \A i \in DOMAIN queue :
        /\ q[i] \in Records /\ q[i].id = queue[i].id /\ q[i].text = queue[i].text
        /\ q[i].mode = queue[i].mode /\ q[i].rev = queue[i].rev + 1
  BY <1>1, <1>2, <1>3
<1>5. q \in Seq(Records)
  <2>1. q \in [1 .. Len(queue) -> Records]
    <3>1. q = [i \in DOMAIN queue |-> [queue[i] EXCEPT !.rev = @ + 1]]
      BY DEF q, Bumped
    <3>2. q = [i \in DOMAIN queue |-> q[i]]
      BY <3>1
    <3> QED BY <3>2, <1>1, <1>4
  <2> QED BY <2>1, <1>1
<1>6. Ids(q) = Ids(queue)
  BY <1>3, <1>4 DEF Ids
<1>7. Distinct(queue) => Distinct(q)
  BY <1>3, <1>4 DEF Distinct
<1> QED BY <1>3, <1>4, <1>5, <1>6, <1>7 DEF q

\* A record that is written again, or is as it was.
Follows(new, m) == new = m \/ (new.id = m.id /\ new.mode = m.mode /\ new.rev > m.rev)

\* A queue whose records are of that queue, at the same or at later revisions.
Renumbered(new, queue) ==
    \A i \in DOMAIN new : \E j \in DOMAIN queue :
       Follows(new[i], queue[j]) /\ new[i].text = queue[j].text

LEMMA BumpedRenumbers ==
    ASSUME NEW rest \in Seq(Records), NEW queue, Within(rest, queue)
    PROVE  Renumbered(Bumped(rest), queue) /\ Renumbered(rest, queue)
<1>1. PICK new : new = Bumped(rest)
  OBVIOUS
<1>2. /\ DOMAIN new = DOMAIN rest
      /\ \A i \in DOMAIN rest :
           /\ new[i].id = rest[i].id /\ new[i].text = rest[i].text /\ new[i].mode = rest[i].mode
           /\ new[i].rev = rest[i].rev + 1
  BY <1>1, BumpedFacts
<1>3. \A i \in DOMAIN rest : rest[i] \in Records
  BY SeqIsFunction
<1>4. \A i \in DOMAIN rest : rest[i].rev \in Nat
  BY <1>3 DEF Records
<1>5. \A i \in DOMAIN rest : new[i].rev > rest[i].rev
  BY <1>2, <1>4
<1>6. \A i \in DOMAIN rest : Follows(new[i], rest[i])
  BY <1>2, <1>5 DEF Follows
<1>7. Renumbered(new, queue)
  BY <1>2, <1>6 DEF Renumbered, Within
<1>8. Renumbered(rest, queue)
  BY DEF Renumbered, Within, Follows
<1> QED BY <1>1, <1>7, <1>8

\* A retracted message leaves the queue; Postgres renumbers the others.
LEMMA RetractFacts ==
    ASSUME TypeInv, SoundInv, NEW id, Retract(id)
    PROVE  /\ pending' \in Seq(Records) /\ Sound(log, pending')
           /\ Ids(pending') = Waiting \ {id}
           /\ Renumbered(pending', pending)
<1>1. PICK rest : rest = Without(pending, {id})
  OBVIOUS
<1>2. /\ rest \in Seq(Records) /\ Sound(log, rest)
      /\ Within(rest, pending) /\ Ids(rest) = Waiting \ {id}
  BY <1>1, WithoutStep
<1>3. pending' = rest \/ pending' = Bumped(rest)
  BY <1>1, Zenon DEF Retract, Bumped
<1>4. Renumbered(rest, pending) /\ Renumbered(Bumped(rest), pending)
  BY <1>2, BumpedRenumbers
<1>5. /\ Bumped(rest) \in Seq(Records) /\ Ids(Bumped(rest)) = Ids(rest)
      /\ Distinct(Bumped(rest))
  BY <1>2, BumpedFacts DEF Sound
<1> QED BY <1>2, <1>3, <1>4, <1>5 DEF Sound

LEMMA SteerFacts ==
    ASSUME TypeInv, NEW v \in Steers
    PROVE  /\ steer \in [Steers -> SteerType] /\ steer[v] \in SteerType
           /\ v \in Runs /\ v \in Inputs
BY ModeFacts DEF TypeInv, CallerTypes

\* A step of steering keeps the other live deliveries still.
LEMMA SteeringMoves ==
    ASSUME TypeInv, NEW v \in Steers, Steering(v)
    PROVE  /\ steer' \in [Steers -> SteerType]
           /\ \A w \in Steers \ {v} : steer'[w] = steer[w]
<1>1. steer \in [Steers -> SteerType] /\ steer[v] \in SteerType
  BY SteerFacts
<1>2. ASSUME NEW y \in SteerType, steer' = [steer EXCEPT ![v] = y]
      PROVE  steer' \in [Steers -> SteerType] /\ \A w \in Steers \ {v} : steer'[w] = steer[w]
  BY <1>1, <1>2
<1>3. ASSUME NEW pc \in {"Queued", "Accepted"}, steer' = [steer EXCEPT ![v].pc = pc]
      PROVE  steer' \in [Steers -> SteerType] /\ \A w \in Steers \ {v} : steer'[w] = steer[w]
  <2> DEFINE s == steer[v]
             y == [s EXCEPT !.pc = pc]
  <2>1. steer' = [steer EXCEPT ![v] = y]
    BY <1>3
  <2> HIDE DEF s
  <2>2. y \in SteerType
    BY <1>1 DEF SteerType, s
  <2> QED BY <2>1, <2>2, <1>2
<1>4. ASSUME NEW r \in Runs, SteerDelivers(v, r)
      PROVE  steer' \in [Steers -> SteerType] /\ \A w \in Steers \ {v} : steer'[w] = steer[w]
  <2> DEFINE y == [pc |-> "Staged", target |-> r]
  <2>1. y \in SteerType
    BY DEF SteerType
  <2>2. steer' = [steer EXCEPT ![v] = y]
    BY <1>4 DEF SteerDelivers
  <2> QED BY <2>1, <2>2, <1>2
<1>5. SteerFindsNoRun(v) \/ SteerMissesRun(v) => steer' = [steer EXCEPT ![v].pc = "Queued"]
  BY DEF SteerFindsNoRun, SteerMissesRun
<1>6. SteerWakes(v) => steer' = [steer EXCEPT ![v].pc = "Accepted"]
  BY DEF SteerWakes
<1> QED BY <1>3, <1>4, <1>5, <1>6 DEF Steering

\* What a step of steering, or a delivery, does to the store.
LEMMA SteeringStore ==
    ASSUME TypeInv, SoundInv, UNCHANGED <<log, record, latest, commit>>,
           history' \in HistoryType, pending' \in Seq(Records), Sound(log, pending')
    PROVE  StoreTypes' /\ SoundInv'
<1>1. log' \in Seq(Entries) /\ Sound(log', pending') /\ Committed \subseteq Ids(log')
  BY StoreFacts DEF Committed
<1> QED BY <1>1, StoreKept DEF StoreTypes, TypeInv

LEMMA SteeringKeeps ==
    ASSUME TypeInv, SoundInv, NEW v \in Steers, Steering(v)
    PROVE  TypeInv' /\ SoundInv'
<1>1. UNCHANGED InDelivery
  BY DEF Steering, SteerDelivers, SteerFindsNoRun, SteerWakes, SteerMissesRun
<1>2. v \in Inputs /\ history \in HistoryType /\ pending \in Seq(Records) /\ Sound(log, pending)
  BY SteerFacts, StoreFacts
<1>3. history' \in HistoryType /\ pending' \in Seq(Records) /\ Sound(log, pending')
  <2>1. CASE \E r \in Runs : SteerDelivers(v, r)
    <3>1. PICK r \in Runs : SteerDelivers(v, r)
      BY <2>1
    <3>2. Fresh(v) /\ AppendPending(v, SteerMode(r)) /\ UNCHANGED history
      BY <3>1 DEF SteerDelivers
    <3> QED BY <3>2, <1>2, ModeFacts, AppendStep
  <2>2. CASE SteerFindsNoRun(v)
    BY <1>2, <2>2 DEF SteerFindsNoRun
  <2>3. CASE SteerWakes(v)
    <3>1. history' = [history EXCEPT !.ok = @ \cup {v}] /\ UNCHANGED pending
      BY <2>3 DEF SteerWakes
    <3> QED BY <3>1, <1>2, HistoryFacts
  <2>4. CASE SteerMissesRun(v)
    <3>1. (Retract(v) \/ UNCHANGED pending) /\ UNCHANGED history
      BY <2>4 DEF SteerMissesRun
    <3> QED BY <3>1, <1>2, RetractFacts
  <2> QED BY <2>1, <2>2, <2>3, <2>4 DEF Steering
<1>4. StoreTypes' /\ SoundInv'
  BY <1>1, <1>3, SteeringStore DEF InDelivery
<1>5. steer' \in [Steers -> SteerType]
  BY SteeringMoves
<1>6. UNCHANGED <<backend, call, loop, editor, commit>>
  BY <1>1 DEF InDelivery
<1> QED BY <1>3, <1>4, <1>5, <1>6 DEF TypeInv, CallerTypes, TriesLeft, LockInv, Locked

LEMMA DeliverKeeps ==
    ASSUME TypeInv, SoundInv, NEW x \in Extras, Deliver(x)
    PROVE  TypeInv' /\ SoundInv'
<1>1. /\ Fresh(x) /\ AppendPending(x, ExtraMode[x])
      /\ history' = [history EXCEPT !.ok = @ \cup {x}]
      /\ UNCHANGED <<steer, backend, log, record, latest, call, loop, editor, commit>>
  BY DEF Deliver, InDelivery
<1>2. history' \in HistoryType /\ pending' \in Seq(Records) /\ Sound(log, pending')
  BY <1>1, StoreFacts, ModeFacts, HistoryFacts, AppendStep
<1>3. StoreTypes' /\ SoundInv'
  BY <1>1, <1>2, SteeringStore
<1> QED BY <1>1, <1>2, <1>3 DEF TypeInv, CallerTypes, TriesLeft, LockInv, Locked

-----------------------------------------------------------------------------
(* Clients that edit.                                                      *)

LEMMA EditorFacts ==
    ASSUME TypeInv, NEW e \in Editors
    PROVE  /\ editor \in [Editors -> EditorType] /\ editor[e] \in EditorType
           /\ editor[e].view \in Seq(Records)
           /\ \A m \in Range(editor[e].view) : m \in Records /\ m.id \in Inputs
<1>1. editor \in [Editors -> EditorType] /\ editor[e] \in EditorType
       /\ editor[e].view \in Seq(Records)
  BY DEF TypeInv, CallerTypes, EditorType
<1>2. \A i \in DOMAIN editor[e].view : editor[e].view[i] \in Records
  BY <1>1, SeqIsFunction
<1>3. \A m \in Range(editor[e].view) : m \in Records
  BY <1>2 DEF Range
<1> QED BY <1>1, <1>3 DEF Records

\* A client reads the queue, or is done; the others are kept still.
LEMMA EditingMoves ==
    ASSUME TypeInv, NEW e \in Editors, Editing(e)
    PROVE  /\ editor' \in [Editors -> EditorType]
           /\ \A d \in Editors \ {e} : editor'[d] = editor[d]
           /\ editor'[e].pc = "Edit" => EditorReads(e) /\ editor'[e].view = pending
<1>1. editor \in [Editors -> EditorType] /\ editor[e] \in EditorType
  BY EditorFacts
<1>2. CASE EditorReads(e)
  <2>1. editor' = [editor EXCEPT ![e] = [pc |-> "Edit", view |-> pending]]
    BY <1>2 DEF EditorReads
  <2>2. [pc |-> "Edit", view |-> pending] \in EditorType
    BY DEF EditorType, TypeInv, StoreTypes
  <2> QED BY <1>1, <1>2, <2>1, <2>2
<1>3. CASE Edited(e)
  <2> DEFINE y == [editor[e] EXCEPT !.pc = "Done"]
  <2>1. y \in EditorType /\ y.pc = "Done"
    BY <1>1 DEF EditorType
  <2>2. editor' = [editor EXCEPT ![e] = y]
    BY <1>3 DEF Edited
  <2> HIDE DEF y
  <2> QED BY <1>1, <2>1, <2>2
<1> QED BY <1>2, <1>3 DEF Editing, EditorUpdates, EditorRetracts, EditorReorders, EditorRefused

\* A record of a queue that is written again.
Rewritten(new, queue, p, t) == new = [queue EXCEPT ![p].text = t, ![p].rev = @ + 1]

LEMMA RewriteFacts ==
    ASSUME NEW queue \in Seq(Records), NEW p \in DOMAIN queue, NEW t \in Nat,
           NEW new, Rewritten(new, queue, p, t)
    PROVE  /\ new \in Seq(Records) /\ DOMAIN new = DOMAIN queue
           /\ \A i \in DOMAIN queue \ {p} : new[i] = queue[i]
           /\ new[p].id = queue[p].id /\ new[p].mode = queue[p].mode
           /\ new[p].text = t /\ new[p].rev = queue[p].rev + 1
<1>1. PICK m : m = queue[p]
  OBVIOUS
<1>2. m \in Records
  BY <1>1, SeqIsFunction
<1>3. PICK n : n = m.rev + 1
  OBVIOUS
<1>4. n \in Nat \ {0}
  BY <1>2, <1>3 DEF Records
<1>5. PICK y : y = [m EXCEPT !.text = t, !.rev = n]
  OBVIOUS
<1>6. y \in Records /\ y.id = m.id /\ y.text = t /\ y.mode = m.mode /\ y.rev = n
  BY <1>2, <1>4, <1>5 DEF Records
<1>7. new = [queue EXCEPT ![p] = y]
  BY <1>1, <1>3, <1>5 DEF Rewritten
<1>8. /\ DOMAIN new = DOMAIN queue /\ new[p] = y
      /\ \A i \in DOMAIN queue \ {p} : new[i] = queue[i]
  BY <1>7
<1>9. new \in Seq(Records)
  <2>1. Len(queue) \in Nat /\ queue \in [1 .. Len(queue) -> Records]
    OBVIOUS
  <2>2. PICK k : k = Len(queue)
    OBVIOUS
  <2>3. k \in Nat /\ queue \in [1 .. k -> Records]
    BY <2>1, <2>2
  <2>4. new \in [1 .. k -> Records]
    BY <2>3, <1>6, <1>7
  <2> QED BY <2>3, <2>4
<1> QED BY <1>1, <1>3, <1>6, <1>8, <1>9

\* An update writes the text and the next revision of the message it names.
LEMMA UpdateFacts ==
    ASSUME TypeInv, SoundInv, NEW m \in Records, RevisionHolds(m),
           pending' = [pending EXCEPT ![Position(pending, m.id)].text = m.text + 1,
                                      ![Position(pending, m.id)].rev = @ + 1]
    PROVE  \E p \in DOMAIN pending :
              /\ p = Position(pending, m.id)
              /\ pending[p].id = m.id /\ pending[p].rev = m.rev
              /\ pending' \in Seq(Records) /\ DOMAIN pending' = DOMAIN pending
              /\ \A i \in DOMAIN pending \ {p} : pending'[i] = pending[i]
              /\ pending'[p].id = m.id /\ pending'[p].mode = pending[p].mode
              /\ pending'[p].text = m.text + 1 /\ pending'[p].rev = m.rev + 1
<1>1. PICK p : p = Position(pending, m.id)
  OBVIOUS
<1>2. p \in DOMAIN pending /\ pending[p].id = m.id /\ pending[p].rev = m.rev
  <2>1. \E i \in DOMAIN pending : pending[i].id = m.id
    BY DEF RevisionHolds, Waiting, Ids
  <2> QED BY <1>1, <2>1 DEF Position, RevisionHolds
<1>3. PICK t : t = m.text + 1
  OBVIOUS
<1>4. t \in Nat
  BY <1>3 DEF Records
<1>5. PICK new : new = pending'
  OBVIOUS
<1>6. Rewritten(new, pending, p, t)
  BY <1>1, <1>3, <1>5 DEF Rewritten
<1>7. pending \in Seq(Records)
  BY StoreFacts
<1>8. /\ new \in Seq(Records) /\ DOMAIN new = DOMAIN pending
      /\ \A i \in DOMAIN pending \ {p} : new[i] = pending[i]
      /\ new[p].id = pending[p].id /\ new[p].mode = pending[p].mode
      /\ new[p].text = t /\ new[p].rev = pending[p].rev + 1
  BY <1>2, <1>4, <1>6, <1>7, RewriteFacts
<1> QED BY <1>1, <1>2, <1>3, <1>5, <1>8

\* What an edit may do to the queue.
LEMMA EditingStores ==
    ASSUME TypeInv, SoundInv, NEW e \in Editors, Editing(e)
    PROVE  /\ UNCHANGED InEdit
           /\ history' \in HistoryType /\ pending' \in Seq(Records) /\ Sound(log, pending')
           /\ history'.ok = history.ok /\ history'.taker = history.taker
           /\ \A i \in DOMAIN pending' : \E j \in DOMAIN pending :
                pending'[i].id = pending[j].id /\ pending'[i].mode = pending[j].mode
           /\ \/ Ids(pending') = Waiting /\ history'.gone = history.gone
              \/ \E m \in Waiting : /\ Ids(pending') = Waiting \ {m}
                                    /\ history'.gone = history.gone \cup {m}
           /\ \/ Renumbered(pending', pending) /\ history'.edits = history.edits
              \/ EditorUpdates(e)
<1>1. /\ history \in HistoryType /\ pending \in Seq(Records) /\ Sound(log, pending)
      /\ \A i \in DOMAIN pending : pending[i] \in Records
  BY StoreFacts
<1>2. CASE EditorReads(e) \/ EditorRefused(e)
  <2>1. UNCHANGED <<pending, history, InEdit>>
    BY <1>2, Zenon DEF EditorReads, EditorRefused
  <2> QED BY <2>1, <1>1 DEF Waiting, Renumbered, Follows
<1>3. CASE EditorUpdates(e)
  <2>1. PICK m \in Range(editor[e].view) :
          /\ RevisionHolds(m)
          /\ pending' = [pending EXCEPT ![Position(pending, m.id)].text = m.text + 1,
                                        ![Position(pending, m.id)].rev = @ + 1]
          /\ history' = [history EXCEPT !.edits[m.id] = @ + 1]
    BY <1>3, Zenon DEF EditorUpdates
  <2>2. m \in Records /\ m.id \in Inputs
    BY EditorFacts
  <2>3. PICK p \in DOMAIN pending :
          /\ pending[p].id = m.id
          /\ pending' \in Seq(Records) /\ DOMAIN pending' = DOMAIN pending
          /\ \A i \in DOMAIN pending \ {p} : pending'[i] = pending[i]
          /\ pending'[p].id = m.id /\ pending'[p].mode = pending[p].mode
    BY <2>1, <2>2, UpdateFacts
  <2>4. PICK n : n = history.edits[m.id] + 1
    OBVIOUS
  <2>5. n \in Nat
    BY <2>2, <2>4, <1>1 DEF HistoryType
  <2>6. history' = [history EXCEPT !.edits[m.id] = n]
    BY <2>1, <2>4
  <2>7. history' \in HistoryType
    BY <2>2, <2>5, <2>6, <1>1, HistoryFacts
  <2>8. history'.ok = history.ok /\ history'.gone = history.gone /\ history'.taker = history.taker
    BY <2>6, <1>1 DEF HistoryType
  <2>9. \A i \in DOMAIN pending : pending'[i].id = pending[i].id /\ pending'[i].mode = pending[i].mode
    BY <2>3
  <2>10. Ids(pending') = Ids(pending)
    BY <2>3, <2>9 DEF Ids
  <2>11. Sound(log, pending')
    BY <2>3, <2>9, <1>1 DEF Sound, Distinct
  <2>12. UNCHANGED InEdit
    BY <1>3, Zenon DEF EditorUpdates
  <2> QED BY <1>3, <2>3, <2>7, <2>8, <2>9, <2>10, <2>11, <2>12 DEF Waiting
<1>4. CASE EditorRetracts(e)
  <2>1. PICK m \in Range(editor[e].view) :
          RevisionHolds(m) /\ Retract(m.id) /\ history' = [history EXCEPT !.gone = @ \cup {m.id}]
    BY <1>4, Zenon DEF EditorRetracts
  <2>2. m.id \in Inputs /\ m.id \in Waiting
    BY <2>1, EditorFacts DEF RevisionHolds
  <2>3. PICK id : id = m.id
    OBVIOUS
  <2>4. /\ pending' \in Seq(Records) /\ Sound(log, pending')
        /\ Ids(pending') = Waiting \ {id} /\ Renumbered(pending', pending)
    BY <2>1, <2>3, RetractFacts
  <2>5. history' \in HistoryType
    BY <2>1, <2>2, <1>1, HistoryFacts
  <2>6. /\ history'.ok = history.ok /\ history'.gone = history.gone \cup {id}
        /\ history'.taker = history.taker /\ history'.edits = history.edits
    BY <2>1, <2>3, <1>1 DEF HistoryType
  <2>7. \A i \in DOMAIN pending' : \E j \in DOMAIN pending :
                pending'[i].id = pending[j].id /\ pending'[i].mode = pending[j].mode
    BY <2>4 DEF Renumbered, Follows
  <2>8. UNCHANGED InEdit
    BY <1>4, Zenon DEF EditorRetracts
  <2> QED BY <2>2, <2>3, <2>4, <2>5, <2>6, <2>7, <2>8
<1>5. CASE EditorReorders(e)
  <2>1. pending' = Bumped(Reverse(pending)) /\ UNCHANGED <<history, InEdit>>
    BY <1>5, Zenon DEF EditorReorders, Bumped
  <2>2. PICK queue : queue = Reverse(pending)
    OBVIOUS
  <2>3. /\ queue \in Seq(Records) /\ Ids(queue) = Ids(pending) /\ Distinct(queue)
        /\ \A k \in DOMAIN queue : \E i \in DOMAIN pending : queue[k] = pending[i]
    BY <2>2, <1>1, ReverseFacts DEF Sound
  <2>4. /\ pending' \in Seq(Records) /\ DOMAIN pending' = DOMAIN queue
        /\ \A i \in DOMAIN queue : pending'[i].id = queue[i].id /\ pending'[i].mode = queue[i].mode
        /\ Ids(pending') = Ids(queue) /\ Distinct(pending')
    BY <2>1, <2>2, <2>3, BumpedFacts
  <2>5. Sound(log, pending')
    BY <1>1, <2>3, <2>4 DEF Sound
  <2>6. Renumbered(pending', pending)
    BY <2>1, <2>2, <2>3, BumpedRenumbers DEF Within
  <2> QED BY <1>1, <2>1, <2>3, <2>4, <2>5, <2>6 DEF Waiting
<1> QED BY <1>2, <1>3, <1>4, <1>5 DEF Editing

LEMMA EditingKeeps ==
    ASSUME TypeInv, SoundInv, NEW e \in Editors, Editing(e)
    PROVE  TypeInv' /\ SoundInv'
<1>1. /\ UNCHANGED <<backend, log, record, latest, call, steer, loop, commit>>
      /\ history' \in HistoryType /\ pending' \in Seq(Records) /\ Sound(log, pending')
  BY EditingStores DEF InEdit
<1>2. StoreTypes' /\ SoundInv'
  BY <1>1, SteeringStore
<1>3. editor' \in [Editors -> EditorType]
  BY EditingMoves
<1> QED BY <1>1, <1>2, <1>3 DEF TypeInv, CallerTypes, TriesLeft, LockInv, Locked

-----------------------------------------------------------------------------
(* Agent loops.                                                            *)

\* A boundary freeze that succeeds.
BoundaryTakes(r) ==
    /\ AppendOnly(loop[r].sel)
    /\ Freeze(pending, loop[r].sel, r, Merge(loop[r].prior, loop[r].sel))
    /\ loop[r].sel = SelectPending(pending, loop[r].boundary, r)

\* A checkpoint that is written, in one transaction or under the lock.
Checkpoints(r) ==
    CheckpointWritten(r) /\ commit' = Unlocked /\ UNCHANGED <<pending, history>>

\* The memory coordinator copies the store, or takes note of a failure.
Snapshotting(r) ==
    \/ SnapshotRuns(r) \/ SnapshotMessages(r) \/ SnapshotPending(r) \/ CommitFails(r)

\* It puts its copy back.
Restoring(r) == RestoreRuns(r) \/ RestoreMessages(r) \/ RestorePending(r)

LEMMA AgentLoopStores ==
    ASSUME TypeInv, NEW r \in Runs, AgentLoop(r)
    PROVE  /\ UNCHANGED InLoop
           /\ \/ /\ UNCHANGED StoreVars \/ BoundaryTakes(r)
                 /\ UNCHANGED commit /\ (Locked => loop[r].pc # "Commit")
              \/ Snapshotting(r) \/ Restoring(r) \/ Checkpoints(r)
<1>1. CASE RunBegins(r)
  BY <1>1, Zenon DEF RunBegins, StoreVars
<1>2. CASE StepEnds(r)
  BY <1>2, Zenon DEF StepEnds, StoreVars
<1>3. CASE StepCancelled(r)
  BY <1>3, Zenon DEF StepCancelled, StoreVars
<1>4. CASE SaveReads(r)
  BY <1>4, Zenon DEF SaveReads, StoreVars
<1>5. CASE CommitInTransaction(r)
  <2>1. ~Locked
    BY <1>5 DEF CommitInTransaction, TypeInv, LockInv
  <2>2. /\ UNCHANGED <<pending, commit, history, InLoop>>
        /\ CheckpointWritten(r) \/ UNCHANGED <<log, record, latest>>
    BY <1>5, Zenon DEF CommitInTransaction
  <2> QED BY <2>1, <2>2 DEF Locked, Checkpoints, StoreVars
<1>6. CASE Snapshotting(r)
  <2>1. UNCHANGED InLoop
    BY <1>6, Zenon DEF Snapshotting, SnapshotRuns, SnapshotMessages, SnapshotPending, CommitFails
  <2> QED BY <1>6, <2>1
<1>7. CASE CommitAppends(r)
  BY <1>7 DEF CommitAppends, Checkpoints
<1>8. CASE Restoring(r)
  <2>1. UNCHANGED InLoop
    BY <1>8, Zenon DEF Restoring, RestoreRuns, RestoreMessages, RestorePending
  <2> QED BY <1>8, <2>1
<1>9. CASE BoundaryReads(r)
  BY <1>9, Zenon DEF BoundaryReads, StoreVars
<1>10. CASE BoundarySelects(r)
  BY <1>10, Zenon DEF BoundarySelects, StoreVars
<1>11. CASE BoundaryFreezes(r)
  <2>1. /\ UNCHANGED <<commit, InLoop>> /\ loop[r].pc = "Freeze"
        /\ UNCHANGED StoreVars \/ BoundaryTakes(r)
    BY <1>11, Zenon DEF BoundaryFreezes, BoundaryTakes, StoreVars
  <2> QED BY <2>1
<1> QED BY <1>1, <1>2, <1>3, <1>4, <1>5, <1>6, <1>7, <1>8, <1>9, <1>10, <1>11 DEF AgentLoop, InMemory,
         Snapshotting, Restoring

LEMMA BoundaryTakesFacts ==
    ASSUME TypeInv, SoundInv, NEW r \in Runs, BoundaryTakes(r), UNCHANGED commit
    PROVE  /\ StoreTypes' /\ history' \in HistoryType
           /\ Sound(log', pending')
           /\ Ids(log') = Committed \cup Range(loop[r].sel)
           /\ Ids(pending') = Waiting \ Range(loop[r].sel)
           /\ Within(pending', pending)
           /\ Logged(log', log, pending)
           /\ \A q \in Runs : record'[q].input = IF q = r THEN Merge(loop[r].prior, loop[r].sel)
                                                          ELSE record[q].input
           /\ Range(Merge(loop[r].prior, loop[r].sel))
                \subseteq Range(loop[r].prior) \cup Range(loop[r].sel)
           /\ Range(loop[r].sel) \subseteq Waiting
           /\ loop[r].sel \in Seq(Inputs)
           /\ Taken(loop[r].sel, r)
<1> DEFINE sel == loop[r].sel
           input == Merge(loop[r].prior, sel)
<1>1. /\ AppendOnly(sel) /\ Freeze(pending, sel, r, input)
      /\ sel = SelectPending(pending, loop[r].boundary, r)
  BY DEF BoundaryTakes
<1>2. pending \in Seq(Records) /\ Sound(log, pending)
  BY StoreFacts
<1>3. loop[r].prior \in Seq(Inputs) /\ sel \in Seq(Inputs)
  BY CallerFacts DEF LoopType
<1>4. Range(sel) \subseteq Ids(pending)
  BY <1>1, <1>2, SelectFacts DEF Sound
<1>5. input \in Seq(Inputs) /\ Range(input) \subseteq Range(loop[r].prior) \cup Range(sel)
  BY <1>3, MergeFacts
<1> HIDE DEF sel, input
<1>6. /\ log' \in Seq(Entries) /\ pending' \in Seq(Records)
      /\ record' \in [Runs -> RunRecords] /\ latest' \in Runs \cup {NoRun}
      /\ history' \in HistoryType
      /\ Sound(log', pending')
      /\ Ids(log') = Committed \cup Range(sel)
      /\ Ids(pending') = Ids(pending) \ Range(sel)
      /\ Within(pending', pending)
      /\ Logged(log', log, pending)
      /\ \A q \in Runs : record'[q].input = IF q = r THEN input ELSE record[q].input
      /\ Taken(sel, r)
  BY <1>1, <1>2, <1>5, FreezeStep
<1>7. StoreTypes'
  BY <1>6 DEF StoreTypes, TypeInv
<1> QED BY <1>3, <1>4, <1>5, <1>6, <1>7 DEF sel, input, Waiting

LEMMA CheckpointFacts ==
    ASSUME TypeInv, SoundInv, NEW r \in Runs, Checkpoints(r)
    PROVE  /\ StoreTypes' /\ SoundInv' /\ UNCHANGED <<pending, history>> /\ ~Locked'
           /\ Sound(log', pending)
           /\ \A m \in Inputs : m \in Ids(log') <=> m \in Committed
           /\ Committed \subseteq Ids(log')
           /\ \A i \in DOMAIN log' :
                (i \in DOMAIN log /\ log'[i] = log[i]) \/ log'[i].id \notin Inputs
           /\ \A q \in Runs : record'[q].input = IF q = r THEN loop[r].prior ELSE record[q].input
<1> DEFINE out == loop[r].output
           st == IF loop[r].boundary = "Final" THEN "Done" ELSE "Running"
           y == [status |-> st, input |-> loop[r].prior]
<1>1. log' = log \o out /\ record' = [record EXCEPT ![r] = y] /\ latest' = r
       /\ commit' = Unlocked /\ UNCHANGED <<pending, history>>
  BY DEF Checkpoints, CheckpointWritten, AppendOutput
<1>2. out \in Seq(Outputs) /\ loop[r].prior \in Seq(Inputs)
  BY CallerFacts DEF LoopType
<1>3. y \in RunRecords /\ y.input = loop[r].prior
  BY <1>2 DEF RunRecords
<1>4. /\ log \in Seq(Entries) /\ pending \in Seq(Records) /\ Sound(log, pending)
      /\ record \in [Runs -> RunRecords]
  BY StoreFacts
<1> HIDE DEF out, y
<1>5. /\ log' \in Seq(Entries) /\ Sound(log', pending)
      /\ Ids(log') = Ids(log) \cup Ids(out) /\ Ids(out) \cap Inputs = {}
      /\ \A i \in DOMAIN log' :
           (i \in DOMAIN log /\ log'[i] = log[i]) \/ log'[i].id \notin Inputs
  <2>1. PICK new : new = log \o out
    OBVIOUS
  <2>2. /\ new \in Seq(Entries) /\ Sound(new, pending)
        /\ Ids(new) = Ids(log) \cup Ids(out) /\ Ids(out) \cap Inputs = {}
        /\ \A i \in DOMAIN new :
             (i \in DOMAIN log /\ new[i] = log[i]) \/ new[i].id \notin Inputs
    BY <1>2, <1>4, <2>1, OutputFacts
  <2> QED BY <1>1, <2>1, <2>2
<1>6. /\ record' \in [Runs -> RunRecords]
      /\ \A q \in Runs : record'[q].input = IF q = r THEN loop[r].prior ELSE record[q].input
  BY <1>1, <1>3, <1>4
<1>7. StoreTypes' /\ ~Locked'
  BY <1>1, <1>4, <1>5, <1>6 DEF StoreTypes, Locked
<1>8. SoundInv'
  BY <1>1, <1>5, <1>7 DEF SoundInv
<1> QED BY <1>1, <1>5, <1>6, <1>7, <1>8 DEF Committed

\* The copy the holder of the lock puts back, one part after another.
LEMMA RestoreFacts ==
    ASSUME TypeInv, SoundInv, NEW r \in Runs, Restoring(r)
    PROVE  /\ Locked /\ backend = "memory" /\ UNCHANGED history
           /\ loop[r].pc = "Commit" /\ commit.holder = r
           /\ log' = log \/ log' = commit.log
           /\ pending' = pending \/ pending' = commit.pending
           /\ \/ /\ Locked' /\ commit'.holder = r /\ loop' = loop
                 /\ commit'.log = commit.log /\ commit'.pending = commit.pending
              \/ ~Locked'
           /\ StoreTypes' /\ SoundInv'
<1>1. Locked /\ backend = "memory" /\ loop[r].pc = "Commit" /\ commit.holder = r
  BY LockHolder DEF Restoring, RestoreRuns, RestoreMessages, RestorePending, CommitAt
<1>2. /\ commit \in Snapshots /\ latest \in Runs \cup {NoRun}
      /\ Sound(commit.log, commit.pending) /\ Ids(commit.log) \subseteq Committed
      /\ log \in Seq(Entries) /\ pending \in Seq(Records) /\ record \in [Runs -> RunRecords]
      /\ Sound(log, pending)
  BY <1>1, StoreFacts DEF TypeInv, StoreTypes, SoundInv, Locked
<1>3. /\ commit.log \in Seq(Entries) /\ commit.pending \in Seq(Records)
      /\ commit.record \in [Runs -> RunRecords]
  BY <1>2 DEF Snapshots
<1>4. ASSUME NEW stage \in {"RestoreMessages", "RestorePending"}, commit' = [commit EXCEPT !.stage = stage]
      PROVE  /\ commit' \in Snapshots /\ commit'.holder = r /\ Locked'
             /\ commit'.log = commit.log /\ commit'.pending = commit.pending
  <2>1. /\ commit' \in Snapshots /\ commit'.holder = commit.holder
        /\ commit'.log = commit.log /\ commit'.pending = commit.pending
    BY <1>2, <1>4 DEF Snapshots
  <2> QED BY <1>1, <2>1, MessagesAssumption DEF Locked, Unlocked
<1>5. CASE RestoreRuns(r)
  <2>1. /\ record' = commit.record /\ UNCHANGED <<log, pending, latest, loop, history>>
        /\ commit' = [commit EXCEPT !.stage = "RestoreMessages"]
    BY <1>5 DEF RestoreRuns
  <2> QED BY <1>1, <1>2, <1>3, <1>4, <2>1 DEF StoreTypes, SoundInv, Committed
<1>6. CASE RestoreMessages(r)
  <2>1. /\ log' = commit.log /\ UNCHANGED <<pending, record, latest, loop, history>>
        /\ commit' = [commit EXCEPT !.stage = "RestorePending"]
    BY <1>6 DEF RestoreMessages
  <2>2. /\ commit' \in Snapshots /\ commit'.holder = r /\ Locked'
        /\ commit'.log = commit.log /\ commit'.pending = commit.pending
    BY <1>4, <2>1
  <2>3. Sound(log', pending') /\ Ids(commit'.log) \subseteq Ids(log')
    BY <1>2, <2>1, <2>2 DEF Sound
  <2> QED BY <1>1, <1>2, <1>3, <2>1, <2>2, <2>3 DEF StoreTypes, SoundInv, Committed
<1>7. CASE RestorePending(r)
  <2>1. /\ pending' = commit.pending /\ UNCHANGED <<log, record, latest, history>>
        /\ commit' = Unlocked
    BY <1>7 DEF RestorePending
  <2>2. Sound(log', pending') /\ ~Locked'
    BY <1>2, <2>1 DEF Sound, Locked
  <2> QED BY <1>1, <1>2, <1>3, <2>1, <2>2 DEF StoreTypes, SoundInv
<1> QED BY <1>5, <1>6, <1>7 DEF Restoring

LEMMA SnapshotFacts ==
    ASSUME TypeInv, SoundInv, NEW r \in Runs, Snapshotting(r)
    PROVE  /\ Locked' /\ backend = "memory" /\ UNCHANGED <<log, pending, record, history, loop>>
           /\ commit'.holder = r /\ loop[r].pc = "Commit"
           /\ Ids(commit'.log) \cup Ids(commit'.pending)
                \subseteq Held \cup (IF Locked THEN Ids(commit.log) \cup Ids(commit.pending) ELSE {})
           /\ \/ DOMAIN commit'.pending = {} \/ commit'.pending = pending
              \/ Locked /\ commit'.pending = commit.pending
           /\ StoreTypes' /\ SoundInv'
<1>1. UNCHANGED <<log, pending, record, latest, loop, history>>
  BY Zenon DEF Snapshotting, SnapshotRuns, SnapshotMessages, SnapshotPending, CommitFails
<1>2. /\ log \in Seq(Entries) /\ pending \in Seq(Records) /\ record \in [Runs -> RunRecords]
      /\ Sound(log, pending) /\ latest \in Runs \cup {NoRun}
  BY StoreFacts DEF TypeInv, StoreTypes
<1>3. /\ << >> \in Seq(Entries) /\ << >> \in Seq(Records) /\ DOMAIN << >> = {}
      /\ Ids(<< >>) = {} /\ InputsOnce(<< >>) /\ Distinct(<< >>)
  BY DEF Ids, InputsOnce, Distinct
<1>4. CASE SnapshotRuns(r)
  <2>1. /\ commit' = [holder |-> r, stage |-> "Messages", record |-> record,
                      log |-> << >>, pending |-> << >>]
        /\ backend = "memory" /\ loop[r].pc = "Commit"
    BY <1>4 DEF SnapshotRuns
  <2>2. /\ commit' \in Snapshots /\ commit'.holder = r
        /\ commit'.log = << >> /\ commit'.pending = << >>
    BY <1>2, <1>3, <2>1 DEF Snapshots
  <2>3. commit' # Unlocked
    BY <2>2, MessagesAssumption DEF Unlocked
  <2>4. StoreTypes' /\ SoundInv'
    BY <1>1, <1>2, <1>3, <2>2 DEF StoreTypes, SoundInv, Sound, Committed
  <2> QED BY <1>1, <1>3, <2>1, <2>2, <2>3, <2>4 DEF Locked
<1>5. CASE SnapshotMessages(r) \/ SnapshotPending(r) \/ CommitFails(r)
  <2>1. Locked /\ backend = "memory" /\ loop[r].pc = "Commit" /\ commit.holder = r
    BY <1>5, LockHolder DEF SnapshotMessages, SnapshotPending, CommitFails, CommitAt
  <2>2. /\ commit \in Snapshots /\ Sound(commit.log, commit.pending)
        /\ Ids(commit.log) \subseteq Committed
    BY <2>1 DEF TypeInv, StoreTypes, SoundInv, Locked
  <2>3. \/ commit' = [commit EXCEPT !.stage = "Pending", !.log = log]
        \/ commit' = [commit EXCEPT !.stage = "Append", !.pending = pending]
        \/ commit' = [commit EXCEPT !.stage = "RestoreRuns"]
    BY <1>5, Zenon DEF SnapshotMessages, SnapshotPending, CommitFails
  <2>4. /\ commit' \in Snapshots /\ commit'.holder = commit.holder
        /\ commit'.log \in {log, commit.log} /\ commit'.pending \in {pending, commit.pending}
    BY <1>2, <2>2, <2>3 DEF Snapshots
  <2>5. commit' # Unlocked
    BY <2>1, <2>4, MessagesAssumption DEF Unlocked
  <2>6. StoreTypes'
    BY <1>1, <1>2, <2>4 DEF StoreTypes
  <2>7. SoundInv'
    <3>1. Sound(commit'.log, commit'.pending) /\ Ids(commit'.log) \subseteq Committed
      BY <1>2, <2>2, <2>4 DEF Sound, Committed
    <3> QED BY <1>1, <1>2, <3>1 DEF SoundInv, Committed
  <2>8. Ids(commit'.log) \cup Ids(commit'.pending)
          \subseteq Held \cup Ids(commit.log) \cup Ids(commit.pending)
    BY <2>4 DEF Held, Committed, Waiting
  <2> QED BY <1>1, <2>1, <2>4, <2>5, <2>6, <2>7, <2>8 DEF Locked
<1> QED BY <1>4, <1>5 DEF Snapshotting

LEMMA AgentLoopKeeps ==
    ASSUME TypeInv, SoundInv, NEW r \in Runs, AgentLoop(r)
    PROVE  TypeInv' /\ SoundInv'
<1>1. /\ UNCHANGED InLoop
      /\ \/ /\ UNCHANGED StoreVars \/ BoundaryTakes(r)
            /\ UNCHANGED commit /\ (Locked => loop[r].pc # "Commit")
         \/ Snapshotting(r) \/ Restoring(r) \/ Checkpoints(r)
  BY AgentLoopStores
<1>2. UNCHANGED <<backend, call, steer, editor>>
  BY <1>1 DEF InLoop
<1>3. /\ loop' \in [Runs -> LoopType]
      /\ \A q \in Runs : loop'[q].pc # "Ended" => loop'[q].tries < MaxAttempts
      /\ \A q \in Runs \ {r} : loop'[q] = loop[q]
  BY AgentLoopMoves, LoopMoved DEF TypeInv, CallerTypes, TriesLeft
<1>4. StoreTypes' /\ history' \in HistoryType /\ SoundInv' /\ LockInv'
  <2>1. CASE UNCHANGED <<StoreVars, commit>> /\ (Locked => loop[r].pc # "Commit")
    <3>1. LockInv'
      <4>1. Locked => commit.holder \in Runs \ {r}
        BY <2>1 DEF TypeInv, LockInv, StoreTypes, Locked, Snapshots
      <4> QED BY <1>2, <1>3, <2>1, <4>1 DEF TypeInv, LockInv, Locked
    <3> QED BY <2>1, <3>1 DEF TypeInv, StoreTypes, SoundInv, StoreVars, Committed, Locked
  <2>2. CASE BoundaryTakes(r) /\ UNCHANGED commit /\ (Locked => loop[r].pc # "Commit")
    <3>1. /\ StoreTypes' /\ history' \in HistoryType
          /\ Sound(log', pending') /\ Committed \subseteq Ids(log')
      BY <2>2, BoundaryTakesFacts
    <3>2. SoundInv'
      BY <2>2, <3>1, StoreKept DEF StoreTypes
    <3>3. Locked => commit.holder \in Runs \ {r}
      BY <2>2 DEF TypeInv, LockInv, StoreTypes, Locked, Snapshots
    <3>4. LockInv'
      BY <1>2, <1>3, <2>2, <3>3 DEF TypeInv, LockInv, Locked
    <3> QED BY <3>1, <3>2, <3>4
  <2>3. CASE Snapshotting(r)
    BY <1>2, <2>3, SnapshotFacts DEF TypeInv, LockInv
  <2>4. CASE Restoring(r)
    <3>1. /\ StoreTypes' /\ SoundInv' /\ UNCHANGED history /\ backend = "memory"
          /\ loop[r].pc = "Commit"
          /\ \/ Locked' /\ commit'.holder = r /\ loop' = loop
             \/ ~Locked'
      BY <2>4, RestoreFacts
    <3>2. LockInv'
      BY <1>2, <3>1 DEF LockInv, Locked
    <3> QED BY <3>1, <3>2 DEF TypeInv
  <2>5. CASE Checkpoints(r)
    BY <2>5, CheckpointFacts DEF TypeInv, LockInv
  <2> QED BY <1>1, <2>1, <2>2, <2>3, <2>4, <2>5
<1> QED BY <1>2, <1>3, <1>4 DEF TypeInv, CallerTypes, TriesLeft

-----------------------------------------------------------------------------
(* Steering is consumed by the run it is for.                              *)

\* Who takes a message whose mode names a run is that run.
LEMMA TakenRespects ==
    ASSUME TypeInv, TargetRespected, UNCHANGED steer,
           NEW r \in Runs, NEW queue \in Seq(Records), Distinct(queue), ModesHold(queue),
           NEW b, NEW sel \in Seq(Inputs), sel = SelectPending(queue, b, r), Taken(sel, r)
    PROVE  TargetRespected'
<1> SUFFICES ASSUME NEW m \in Steers \cup Extras,
                    m \in Steers => steer[m].pc \in {"Staged", "Accepted"},
                    ModeOf(m).target # NoRun, ~ModeOf(m).fallback
             PROVE  history'.taker[m] \in {NoRun, ModeOf(m).target}
  BY Zenon DEF TargetRespected, ModeOf
<1>1. m \in Inputs /\ (m \in Extras => m \notin Steers)
  BY ModeFacts, MessagesAssumption
<1>2. history'.taker[m] = IF m \in Range(sel) THEN r ELSE history.taker[m]
  BY <1>1, TakenFacts DEF TypeInv
<1>3. CASE m \notin Range(sel)
  BY <1>2, <1>3 DEF TargetRespected
<1>4. CASE m \in Range(sel)
  <2>1. Range(sel) \subseteq Ids(queue)
    BY SelectFacts
  <2>2. PICK i \in DOMAIN queue : queue[i].id = m
    BY <1>4, <2>1 DEF Ids
  <2>3. Eligible(queue[i], b, r)
    BY <1>4, <2>2, SelectFacts
  <2>4. queue[i].mode = ModeOf(m)
    BY <1>1, <2>2 DEF ModesHold, ModesIn, ModeOf
  <2>5. ModeOf(m).target = r
    BY <2>3, <2>4 DEF Eligible
  <2> QED BY <1>2, <1>4, <2>5
<1> QED BY <1>3, <1>4

LEMMA SubmissionIsQueued ==
    ASSUME TypeInv, UntriedInv, NEW r \in Runs, Submission(r), r \in Steers
    PROVE  steer[r].pc = "Queued"
<1>1. CASE SubmitBegins(r)
  BY <1>1 DEF SubmitBegins
<1>2. CASE SubmitReadsVersion(r)
  BY <1>2 DEF SubmitReadsVersion, UntriedInv
<1>3. CASE SubmitSelects(r)
  BY <1>3 DEF SubmitSelects, UntriedInv
<1>4. CASE SubmitFreezes(r)
  <2>1. call[r].pc = "Freeze"
    BY <1>4, Zenon DEF SubmitFreezes
  <2> QED BY <2>1 DEF UntriedInv
<1> QED BY <1>1, <1>2, <1>3, <1>4 DEF Submission

LEMMA SubmissionTargets ==
    ASSUME TypeInv, SoundInv, TargetInv, NEW r \in Runs, Submission(r)
    PROVE  TargetInv'
<1>1. /\ UNCHANGED <<steer, commit>>
      /\ UNCHANGED StoreVars \/ Orphans(r) \/ Submits(r)
  BY SubmissionStores, Zenon DEF InCall
<1>2. r \in Steers => steer[r].pc = "Queued"
  BY SubmissionIsQueued DEF TargetInv
<1>3. \A q \in Runs \ {r} : call'[q] = call[q]
  BY SubmissionMoves, CallMoved
<1>4. ModesHold(pending) /\ (Locked => ModesHold(commit.pending)) /\ UntriedInv /\ TargetRespected
  BY DEF TargetInv
<1>5. (Locked => ModesHold(commit.pending))'
  BY <1>1, <1>4 DEF Locked, ModesHold, ModesIn
<1>6. ASSUME \A v \in Steers : steer[v].pc = "Idle" =>
               v \notin Ids(log') \cup Ids(pending') /\ history'.taker[v] = NoRun
      PROVE  UntriedInv'
  <2> SUFFICES ASSUME NEW v \in Steers
               PROVE  /\ steer[v].pc = "Idle" =>
                           /\ v \notin Ids(log') \cup Ids(pending') /\ history'.taker[v] = NoRun
                           /\ Locked => v \notin Ids(commit.log) \cup Ids(commit.pending)
                      /\ steer[v].pc \in {"Staged", "Accepted"} => steer[v].target \in Runs
                      /\ call'[v].pc # "Idle" => steer[v].pc = "Queued"
    BY <1>1 DEF UntriedInv, Held, Committed, Waiting, Locked
  <2>1. v \in Runs
    BY ModeFacts
  <2> QED BY <1>2, <1>3, <1>4, <1>6, <2>1 DEF UntriedInv
<1>7. CASE UNCHANGED StoreVars
  <2>1. UntriedInv'
    BY <1>4, <1>6, <1>7 DEF UntriedInv, StoreVars, Held, Committed, Waiting
  <2>2. ModesHold(pending)' /\ TargetRespected'
    BY <1>1, <1>4, <1>7, Zenon DEF ModesHold, ModesIn, TargetRespected, ModeOf, StoreVars
  <2> QED BY <1>5, <2>1, <2>2 DEF TargetInv
<1> DEFINE queue == SubmitQueue(r)
<1>8. ASSUME Fresh(r)
      PROVE  queue \in Seq(Records) /\ Distinct(queue) /\ Ids(queue) = Waiting \cup {r} /\ ModesHold(queue)
  <2>1. /\ queue \in Seq(Records)
        /\ DOMAIN queue = DOMAIN pending \cup {Len(pending) + 1}
        /\ \A i \in DOMAIN pending : queue[i] = pending[i]
        /\ queue[Len(pending) + 1] = New(r, SubmitMode(r))
        /\ Ids(queue) = Waiting \cup {r}
        /\ Distinct(queue)
    BY <1>8, SubmitQueueFacts DEF Sound
  <2>2. queue[Len(pending) + 1].id = r /\ r \notin Extras
    BY <2>1, MessagesAssumption DEF New
  <2> HIDE DEF queue
  <2>3. ModesHold(queue)
    BY <1>2, <1>4, <2>1, <2>2 DEF ModesHold, ModesIn
  <2> QED BY <2>1, <2>3
<1> HIDE DEF queue
<1>9. CASE Orphans(r)
  <2>1. Fresh(r) /\ pending' = queue /\ UNCHANGED <<log, history>>
    BY <1>9 DEF Orphans, queue
  <2>2. UntriedInv'
    BY <1>2, <1>4, <1>6, <1>8, <2>1 DEF UntriedInv, Held, Committed, Waiting
  <2>3. ModesHold(pending)'
    BY <1>1, <1>8, <2>1 DEF ModesHold, ModesIn
  <2>4. TargetRespected'
    BY <1>1, <1>4, <2>1, Zenon DEF TargetRespected, ModeOf
  <2> QED BY <1>5, <2>2, <2>3, <2>4 DEF TargetInv
<1>10. CASE Submits(r)
  <2>1. Fresh(r) /\ call[r].sel = SelectPending(queue, Boundary[r], r)
    BY <1>10 DEF Submits, queue
  <2>2. PICK sel : sel = call[r].sel
    OBVIOUS
  <2>3. /\ Ids(log') = Committed \cup Range(sel)
        /\ Ids(pending') = (Waiting \cup {r}) \ Range(sel)
        /\ Within(pending', queue) /\ Range(sel) \subseteq Waiting \cup {r}
        /\ sel \in Seq(Inputs) /\ Taken(sel, r)
    BY <1>10, <2>2, SubmitsFacts DEF queue
  <2>4. TargetRespected'
    BY <1>1, <1>4, <1>8, <2>1, <2>2, <2>3, TakenRespects
  <2>5. ModesHold(pending)'
    BY <1>1, <1>8, <2>1, <2>3 DEF Within, ModesHold, ModesIn
  <2>6. \A v \in Steers : steer[v].pc = "Idle" => v \notin Waiting \cup {r} \cup Committed
    BY <1>2, <1>4 DEF UntriedInv, Held
  <2>7. \A v \in Steers : steer[v].pc = "Idle" => history'.taker[v] = NoRun
    BY <1>4, <2>3, <2>6, TakenFacts, SteerFacts DEF UntriedInv, TypeInv
  <2>8. UntriedInv'
    BY <1>6, <2>3, <2>6, <2>7
  <2> QED BY <1>5, <2>4, <2>5, <2>8 DEF TargetInv
<1> QED BY <1>1, <1>7, <1>9, <1>10

\* What a step of steering does to the queue and to those it is about.
LEMMA SteeringStores ==
    ASSUME TypeInv, SoundInv, NEW v \in Steers, Steering(v)
    PROVE  /\ UNCHANGED InDelivery
           /\ history'.taker = history.taker /\ history'.gone = history.gone
           /\ history'.edits = history.edits
           /\ \/ /\ Fresh(v) /\ steer[v].pc = "Idle" /\ UNCHANGED history
                 /\ \E r \in Runs : AppendPending(v, SteerMode(r))
                                    /\ steer'[v].pc = "Staged" /\ steer'[v].target = r
              \/ /\ steer[v].pc = "Idle" /\ steer'[v].pc = "Queued"
                 /\ UNCHANGED <<pending, history>>
              \/ /\ steer[v].pc = "Staged" /\ steer'[v].pc = "Accepted"
                 /\ steer'[v].target = steer[v].target
                 /\ UNCHANGED pending
                 /\ history'.ok = history.ok \cup {v}
              \/ /\ steer[v].pc = "Staged" /\ steer'[v].pc = "Queued"
                 /\ UNCHANGED history
                 /\ Ids(pending') \in {Waiting, Waiting \ {v}}
                 /\ Renumbered(pending', pending)
<1>1. UNCHANGED InDelivery
  BY DEF Steering, SteerDelivers, SteerFindsNoRun, SteerWakes, SteerMissesRun
<1>2. steer \in [Steers -> SteerType] /\ steer[v] \in SteerType /\ history \in HistoryType /\ v \in Inputs
  BY SteerFacts, StoreFacts
<1>3. ASSUME NEW pc, steer' = [steer EXCEPT ![v].pc = pc]
      PROVE  steer'[v].pc = pc /\ steer'[v].target = steer[v].target
  <2> DEFINE s == steer[v]
             y == [s EXCEPT !.pc = pc]
  <2>1. steer' = [steer EXCEPT ![v] = y]
    BY <1>3
  <2> HIDE DEF s
  <2>2. y.pc = pc /\ y.target = s.target
    BY <1>2 DEF SteerType, s
  <2> HIDE DEF y
  <2> QED BY <2>1, <2>2, <1>2 DEF s
<1>4. CASE \E r \in Runs : SteerDelivers(v, r)
  <2>1. PICK r \in Runs : SteerDelivers(v, r)
    BY <1>4
  <2>2. /\ Fresh(v) /\ steer[v].pc = "Idle" /\ AppendPending(v, SteerMode(r)) /\ UNCHANGED history
        /\ steer' = [steer EXCEPT ![v] = [pc |-> "Staged", target |-> r]]
    BY <2>1 DEF SteerDelivers
  <2>3. steer'[v].pc = "Staged" /\ steer'[v].target = r
    BY <2>2, <1>2
  <2> QED BY <1>1, <2>2, <2>3
<1>5. CASE SteerFindsNoRun(v)
  BY <1>1, <1>3, <1>5 DEF SteerFindsNoRun
<1>6. CASE SteerWakes(v)
  <2>1. /\ steer[v].pc = "Staged" /\ UNCHANGED pending
        /\ history' = [history EXCEPT !.ok = @ \cup {v}]
        /\ steer' = [steer EXCEPT ![v].pc = "Accepted"]
    BY <1>6 DEF SteerWakes
  <2>2. /\ history'.ok = history.ok \cup {v} /\ history'.edits = history.edits
        /\ history'.taker = history.taker /\ history'.gone = history.gone
    BY <1>2, <2>1 DEF HistoryType
  <2> QED BY <1>1, <1>3, <2>1, <2>2
<1>7. CASE SteerMissesRun(v)
  <2>1. /\ steer[v].pc = "Staged"
        /\ Retract(v) \/ UNCHANGED pending
        /\ UNCHANGED history
        /\ steer' = [steer EXCEPT ![v].pc = "Queued"]
    BY <1>7 DEF SteerMissesRun
  <2>2. Ids(pending') \in {Waiting, Waiting \ {v}} /\ Renumbered(pending', pending)
    <3>1. CASE Retract(v)
      BY <3>1, RetractFacts
    <3>2. CASE UNCHANGED pending
      BY <3>2 DEF Waiting, Renumbered, Follows
    <3> QED BY <2>1, <3>1, <3>2
  <2>3. steer[v].pc = "Staged" /\ steer'[v].pc = "Queued" /\ UNCHANGED history
    BY <1>3, <2>1
  <2>4. /\ history'.taker = history.taker /\ history'.gone = history.gone
        /\ history'.edits = history.edits
    BY <2>3
  <2> QED BY <1>1, <2>2, <2>3, <2>4, Zenon
<1> QED BY <1>4, <1>5, <1>6, <1>7 DEF Steering

LEMMA SteeringTargets ==
    ASSUME TypeInv, SoundInv, TargetInv, NEW v \in Steers, Steering(v)
    PROVE  TargetInv'
<1>1. ModesHold(pending) /\ (Locked => ModesHold(commit.pending)) /\ UntriedInv /\ TargetRespected
  BY DEF TargetInv
<1>2. UNCHANGED <<log, call, commit>> /\ history'.taker = history.taker
  BY SteeringStores DEF InDelivery
<1>3. \A w \in Steers \ {v} : steer'[w] = steer[w]
  BY SteeringMoves
<1>4. v \notin Extras /\ v \in Inputs /\ Extras \subseteq Inputs
  BY ModeFacts, MessagesAssumption
\* Only the message of this delivery may be in doubt.
<1>5. ASSUME \A w \in Steers \ {v} : w \in Ids(pending') => w \in Waiting,
             steer[v].pc \in {"Idle", "Staged"},
             steer'[v].pc \in {"Staged", "Accepted", "Queued"},
             steer'[v].pc = "Staged" => steer'[v].target \in Runs,
             steer'[v].pc = "Accepted" => steer[v].pc = "Staged" /\ steer'[v].target = steer[v].target,
             steer'[v].pc = "Staged" => steer[v].pc = "Idle"
      PROVE  UntriedInv' /\ TargetRespected'
  <2>1. call[v].pc = "Idle"
    BY <1>1, <1>5 DEF UntriedInv
  <2>2. UntriedInv'
    <3> SUFFICES ASSUME NEW w \in Steers
                 PROVE  /\ steer'[w].pc = "Idle" =>
                             /\ w \notin Ids(log) \cup Ids(pending') /\ history.taker[w] = NoRun
                             /\ Locked => w \notin Ids(commit.log) \cup Ids(commit.pending)
                        /\ steer'[w].pc \in {"Staged", "Accepted"} => steer'[w].target \in Runs
                        /\ call[w].pc # "Idle" => steer'[w].pc = "Queued"
      BY <1>2 DEF UntriedInv, Held, Committed, Waiting, Locked
    <3>1. CASE w = v
      BY <1>1, <1>5, <2>1, <3>1 DEF UntriedInv
    <3>2. CASE w # v
      BY <1>1, <1>3, <1>5, <3>2 DEF UntriedInv, Held, Committed
    <3> QED BY <3>1, <3>2
  <2>3. TargetRespected'
    <3> SUFFICES ASSUME NEW m \in Steers \cup Extras,
                        m \in Steers => steer'[m].pc \in {"Staged", "Accepted"},
                        ModeOf(m)'.target # NoRun, ~ModeOf(m)'.fallback
                 PROVE  history.taker[m] \in {NoRun, ModeOf(m)'.target}
      BY <1>2, Zenon DEF TargetRespected
    <3>1. CASE m \notin Steers \/ m # v
      <4>1. m \in Steers => steer'[m] = steer[m]
        BY <1>3, <3>1
      <4>2. m \in Extras \/ m \in Steers
        OBVIOUS
      <4>3. ModeOf(m)' = ModeOf(m)
        BY <4>1, <4>2 DEF ModeOf
      <4> QED BY <1>1, <4>1, <4>3 DEF TargetRespected
    <3>2. CASE m = v
      <4>1. CASE steer[v].pc = "Idle"
        BY <1>1, <3>2, <4>1 DEF UntriedInv
      <4>2. CASE steer[v].pc = "Staged"
        <5>1. steer'[v].pc = "Accepted" /\ steer'[v].target = steer[v].target
          BY <1>5, <3>2, <4>2
        <5>2. ModeOf(v)' = ModeOf(v)
          BY <1>4, <5>1 DEF ModeOf
        <5> QED BY <1>1, <3>2, <4>2, <5>2 DEF TargetRespected
      <4> QED BY <1>5, <4>1, <4>2
    <3> QED BY <3>1, <3>2
  <2> QED BY <2>2, <2>3
\* A queue that held its modes holds them, if this message is not in it.
<1>6. ASSUME NEW queue, ModesHold(queue),
             \/ v \notin Ids(queue) \/ steer'[v].pc = "Queued"
             \/ steer'[v].target = steer[v].target /\ steer[v].pc = "Staged"
      PROVE  ModesIn(queue, steer')
  <2> SUFFICES ASSUME NEW i \in DOMAIN queue
               PROVE  /\ queue[i].id \in Extras => queue[i].mode = ExtraMode[queue[i].id]
                      /\ queue[i].id \in Steers /\ steer'[queue[i].id].pc \in {"Staged", "Accepted"}
                           => queue[i].mode = SteerMode(steer'[queue[i].id].target)
    BY Zenon DEF ModesIn
  <2>1. CASE queue[i].id = v
    BY <1>4, <1>6, <2>1 DEF ModesHold, ModesIn, Ids
  <2>2. CASE queue[i].id # v
    BY <1>3, <1>6, <2>2 DEF ModesHold, ModesIn
  <2> QED BY <2>1, <2>2
<1>7. CASE /\ Fresh(v) /\ steer[v].pc = "Idle" /\ UNCHANGED history
           /\ \E r \in Runs : AppendPending(v, SteerMode(r))
                              /\ steer'[v].pc = "Staged" /\ steer'[v].target = r
  <2>1. PICK r \in Runs : AppendPending(v, SteerMode(r)) /\ steer'[v].pc = "Staged" /\ steer'[v].target = r
    BY <1>7
  <2>2. /\ DOMAIN pending' = DOMAIN pending \cup {Len(pending) + 1}
        /\ \A i \in DOMAIN pending : pending'[i] = pending[i]
        /\ pending'[Len(pending) + 1] = New(v, SteerMode(r))
        /\ Ids(pending') = Waiting \cup {v}
    BY <1>4, <1>7, <2>1, ModeFacts, AppendStep
  <2>3. UntriedInv' /\ TargetRespected'
    BY <1>5, <1>7, <2>1, <2>2
  <2>4. ModesHold(pending)'
    <3> SUFFICES ASSUME NEW i \in DOMAIN pending'
                 PROVE  /\ pending'[i].id \in Extras => pending'[i].mode = ExtraMode[pending'[i].id]
                        /\ pending'[i].id \in Steers /\ steer'[pending'[i].id].pc \in {"Staged", "Accepted"}
                             => pending'[i].mode = SteerMode(steer'[pending'[i].id].target)
      BY Zenon DEF ModesHold, ModesIn
    <3>1. CASE i \in DOMAIN pending
      <4>1. pending[i].id # v
        BY <1>7, <3>1 DEF Fresh, Waiting, Ids
      <4> QED BY <1>1, <1>3, <2>2, <3>1, <4>1 DEF ModesHold, ModesIn
    <3>2. CASE i = Len(pending) + 1
      BY <1>4, <2>1, <2>2, <3>2 DEF New
    <3> QED BY <2>2, <3>1, <3>2
  <2>5. (Locked => ModesHold(commit.pending))'
    <3>1. Locked => v \notin Ids(commit.pending)
      BY <1>1, <1>7 DEF UntriedInv
    <3>2. PICK queue : queue = commit.pending
      OBVIOUS
    <3>3. Locked => ModesIn(queue, steer')
      <4> SUFFICES ASSUME Locked PROVE ModesIn(queue, steer')
        OBVIOUS
      <4>1. ModesHold(queue) /\ v \notin Ids(queue)
        BY <1>1, <3>1, <3>2
      <4> QED BY <1>6, <4>1, Zenon
    <3> QED BY <1>2, <3>2, <3>3 DEF Locked, ModesHold
  <2> QED BY <2>3, <2>4, <2>5 DEF TargetInv
<1>8. CASE /\ steer[v].pc \in {"Idle", "Staged"}
           /\ \/ steer'[v].pc = "Queued"
              \/ steer[v].pc = "Staged" /\ steer'[v].pc = "Accepted" /\ steer'[v].target = steer[v].target
           /\ UNCHANGED pending \/ (Ids(pending') \subseteq Waiting /\ Renumbered(pending', pending))
  <2>1. /\ Ids(pending') \subseteq Waiting
        /\ Renumbered(pending', pending)
    BY <1>8 DEF Waiting, Renumbered, Follows
  <2>2. UntriedInv' /\ TargetRespected'
    BY <1>5, <1>8, <2>1
  <2>3. PICK queue, snap : queue = pending' /\ snap = commit.pending
    OBVIOUS
  <2>4. ModesHold(queue)
    BY <1>1, <2>1, <2>3 DEF ModesHold, ModesIn, Renumbered, Follows
  <2>5. ModesIn(queue, steer') /\ (Locked => ModesIn(snap, steer'))
    <3>1. \/ steer'[v].pc = "Queued"
          \/ steer'[v].target = steer[v].target /\ steer[v].pc = "Staged"
      BY <1>8
    <3>2. ModesIn(queue, steer')
      BY <1>6, <2>4, <3>1, Zenon
    <3>3. ASSUME Locked PROVE ModesIn(snap, steer')
      <4>1. ModesHold(snap)
        BY <1>1, <2>3, <3>3
      <4> QED BY <1>6, <3>1, <4>1, Zenon
    <3> QED BY <3>2, <3>3
  <2>6. ModesHold(pending)' /\ (Locked => ModesHold(commit.pending))'
    BY <1>2, <2>3, <2>5 DEF ModesHold, Locked
  <2> QED BY <2>2, <2>6 DEF TargetInv
<1> QED BY <1>7, <1>8, SteeringStores

\* Steps that keep the live deliveries and the submissions still, and who took
\* what, and bring no steering message back.
LEMMA TargetKept ==
    ASSUME TargetInv, UNCHANGED <<steer, call>>, history'.taker = history.taker,
           \A v \in Steers : v \in Ids(log') \cup Ids(pending') => v \in Held,
           \A v \in Steers : Locked' /\ v \in Ids(commit'.log) \cup Ids(commit'.pending) =>
             \/ v \in Held
             \/ Locked /\ v \in Ids(commit.log) \cup Ids(commit.pending),
           ModesIn(pending', steer), Locked' => ModesIn(commit'.pending, steer)
    PROVE  TargetInv'
<1>1. UntriedInv'
  BY DEF TargetInv, UntriedInv, Held, Committed, Waiting
<1>2. TargetRespected'
  BY Zenon DEF TargetInv, TargetRespected, ModeOf
<1> QED BY <1>1, <1>2 DEF TargetInv, ModesHold

LEMMA DeliverTargets ==
    ASSUME TypeInv, SoundInv, TargetInv, NEW x \in Extras, Deliver(x)
    PROVE  TargetInv'
<1>1. /\ Fresh(x) /\ AppendPending(x, ExtraMode[x])
      /\ history' = [history EXCEPT !.ok = @ \cup {x}]
      /\ UNCHANGED <<steer, log, call, commit>>
  BY DEF Deliver, InDelivery
<1>2. x \in Inputs /\ x \notin Steers /\ ExtraMode[x] \in DeliveryMode
  BY ModeFacts, MessagesAssumption
<1>3. /\ DOMAIN pending' = DOMAIN pending \cup {Len(pending) + 1}
      /\ \A i \in DOMAIN pending : pending'[i] = pending[i]
      /\ pending'[Len(pending) + 1] = New(x, ExtraMode[x])
      /\ Ids(pending') = Waiting \cup {x}
  BY <1>1, <1>2, AppendStep
<1>4. history'.taker = history.taker
  BY <1>1, StoreFacts DEF HistoryType
<1>5. pending'[Len(pending) + 1].id = x /\ pending'[Len(pending) + 1].mode = ExtraMode[x]
  BY <1>3 DEF New
<1>6. ModesIn(pending', steer)
  BY <1>2, <1>3, <1>5 DEF TargetInv, ModesHold, ModesIn
<1>7. Locked' = Locked /\ (Locked => ModesIn(commit.pending, steer))
  BY <1>1 DEF TargetInv, ModesHold, Locked
<1>8. \A v \in Steers : v \in Ids(log') \cup Ids(pending') => v \in Held
  BY <1>1, <1>2, <1>3 DEF Held, Committed
<1> QED BY <1>1, <1>4, <1>6, <1>7, <1>8, TargetKept

LEMMA EditingTargets ==
    ASSUME TypeInv, SoundInv, TargetInv, NEW e \in Editors, Editing(e)
    PROVE  TargetInv'
<1>1. /\ UNCHANGED <<steer, log, call, commit>>
      /\ history'.taker = history.taker
      /\ \A i \in DOMAIN pending' : \E j \in DOMAIN pending :
           pending'[i].id = pending[j].id /\ pending'[i].mode = pending[j].mode
      /\ Ids(pending') \subseteq Waiting
  BY EditingStores DEF InEdit
<1>2. ModesIn(pending', steer)
  BY <1>1 DEF TargetInv, ModesHold, ModesIn
<1>3. Locked' = Locked /\ (Locked => ModesIn(commit.pending, steer))
  BY <1>1 DEF TargetInv, ModesHold, Locked
<1>4. \A v \in Steers : v \in Ids(log') \cup Ids(pending') => v \in Held
  BY <1>1 DEF Held, Committed
<1> QED BY <1>1, <1>2, <1>3, <1>4, TargetKept

LEMMA AgentLoopTargets ==
    ASSUME TypeInv, SoundInv, TargetInv, NEW r \in Runs, AgentLoop(r)
    PROVE  TargetInv'
<1>1. /\ UNCHANGED <<call, steer>>
      /\ \/ (UNCHANGED StoreVars \/ BoundaryTakes(r)) /\ UNCHANGED commit
         \/ Snapshotting(r) \/ Restoring(r) \/ Checkpoints(r)
  BY AgentLoopStores DEF InLoop
<1>2. ModesIn(pending, steer) /\ (Locked => ModesIn(commit.pending, steer))
  BY DEF TargetInv, ModesHold
<1>3. CASE UNCHANGED StoreVars /\ UNCHANGED commit
  BY <1>1, <1>2, <1>3, TargetKept DEF StoreVars, Locked, Held, Committed, Waiting
<1>4. CASE BoundaryTakes(r) /\ UNCHANGED commit
  <2>1. PICK sel : sel = loop[r].sel
    OBVIOUS
  <2>2. /\ Ids(log') = Committed \cup Range(sel) /\ Ids(pending') = Waiting \ Range(sel)
        /\ Within(pending', pending) /\ Range(sel) \subseteq Waiting
        /\ sel \in Seq(Inputs) /\ Taken(sel, r)
    BY <1>4, <2>1, BoundaryTakesFacts
  <2>3. sel = SelectPending(pending, loop[r].boundary, r)
    BY <1>4, <2>1 DEF BoundaryTakes
  <2>4. TargetRespected'
    BY <1>1, <2>2, <2>3, StoreFacts, TakenRespects DEF TargetInv
  <2>5. ModesHold(pending)' /\ (Locked => ModesHold(commit.pending))'
    BY <1>1, <1>2, <1>4, <2>2 DEF ModesHold, ModesIn, Within, Locked
  <2>6. \A v \in Steers : steer[v].pc = "Idle" => v \notin Held /\ history'.taker[v] = NoRun
    BY <2>2, SteerFacts, TakenFacts DEF TargetInv, UntriedInv, Held, TypeInv
  <2>7. UntriedInv'
    <3>1. Ids(log') \cup Ids(pending') = Held
      BY <2>2 DEF Held
    <3> QED BY <1>1, <1>4, <2>6, <3>1 DEF TargetInv, UntriedInv, Held, Committed, Waiting, Locked
  <2> QED BY <2>4, <2>5, <2>7 DEF TargetInv
<1>5. CASE Snapshotting(r)
  <2>1. /\ UNCHANGED <<log, pending, history>>
        /\ Ids(commit'.log) \cup Ids(commit'.pending)
             \subseteq Held \cup (IF Locked THEN Ids(commit.log) \cup Ids(commit.pending) ELSE {})
        /\ \/ DOMAIN commit'.pending = {} \/ commit'.pending = pending
           \/ Locked /\ commit'.pending = commit.pending
    BY <1>5, SnapshotFacts
  <2>2. ModesIn(commit'.pending, steer) /\ ModesIn(pending', steer)
    <3>1. PICK queue : queue = commit'.pending
      OBVIOUS
    <3>2. DOMAIN queue = {} \/ queue = pending \/ (Locked /\ queue = commit.pending)
      BY <2>1, <3>1
    <3>3. DOMAIN queue = {} => ModesIn(queue, steer)
      BY DEF ModesIn
    <3>4. ModesIn(queue, steer)
      BY <1>2, <3>2, <3>3
    <3> QED BY <1>2, <2>1, <3>1, <3>4
  <2>3. \A v \in Steers : v \in Ids(log') \cup Ids(pending') => v \in Held
    BY <2>1 DEF Held, Committed, Waiting
  <2> QED BY <1>1, <2>1, <2>2, <2>3, TargetKept
<1>6. CASE Restoring(r)
  <2>1. /\ Locked /\ UNCHANGED history
        /\ log' = log \/ log' = commit.log
        /\ pending' = pending \/ pending' = commit.pending
        /\ \/ Locked' /\ commit'.log = commit.log /\ commit'.pending = commit.pending
           \/ ~Locked'
    BY <1>6, RestoreFacts
  <2>2. UntriedInv'
    <3> SUFFICES ASSUME NEW v \in Steers, steer[v].pc = "Idle"
                 PROVE  /\ v \notin Ids(log') \cup Ids(pending') /\ history.taker[v] = NoRun
                        /\ Locked' => v \notin Ids(commit'.log) \cup Ids(commit'.pending)
      BY <1>1, <2>1 DEF TargetInv, UntriedInv, Held, Committed, Waiting
    <3>1. /\ v \notin Ids(log) \cup Ids(pending) /\ history.taker[v] = NoRun
          /\ v \notin Ids(commit.log) \cup Ids(commit.pending)
      BY <2>1 DEF TargetInv, UntriedInv, Held, Committed, Waiting
    <3> QED BY <2>1, <3>1
  <2>3. TargetRespected'
    BY <1>1, <2>1, Zenon DEF TargetInv, TargetRespected, ModeOf
  <2>4. ModesIn(pending', steer) /\ (Locked' => ModesIn(commit'.pending, steer))
    BY <1>2, <2>1
  <2> QED BY <1>1, <2>2, <2>3, <2>4 DEF TargetInv, ModesHold
<1>7. CASE Checkpoints(r)
  <2>1. /\ UNCHANGED <<pending, history>> /\ ~Locked'
        /\ \A m \in Inputs : m \in Ids(log') <=> m \in Committed
    BY <1>7, CheckpointFacts
  <2>2. \A v \in Steers : v \in Ids(log') \cup Ids(pending') => v \in Held
    BY <2>1, SteerFacts DEF Held, Waiting
  <2> QED BY <1>1, <1>2, <2>1, <2>2, TargetKept
<1> QED BY <1>1, <1>3, <1>4, <1>5, <1>6, <1>7

-----------------------------------------------------------------------------
(* Where the messages of a Postgres thread are.                            *)

LEMMA SubmissionPlaces ==
    ASSUME TypeInv, SoundInv, TargetInv, backend = "postgres", PlaceInv, InputInv,
           NEW r \in Runs, Submission(r)
    PROVE  PlaceInv' /\ InputInv'
<1>1. UNCHANGED <<steer, loop>> /\ (UNCHANGED StoreVars \/ Submits(r))
  BY SubmissionStores DEF InCall, Orphans
<1>2. \A q \in Runs : call[q].pc = "Frozen" => call'[q].pc = "Frozen"
  BY SubmissionMoves, CallMoved
<1>3. r \in Steers => steer[r].pc = "Queued"
  BY SubmissionIsQueued DEF TargetInv
<1>4. CASE UNCHANGED StoreVars
  <2>1. PlaceInv'
    BY <1>1, <1>2, <1>4 DEF PlaceInv, StoreVars, Held, Committed, Waiting, FellBack
  <2>2. InputInv'
    BY <1>1, <1>4 DEF InputInv, StoreVars, Committed
  <2> QED BY <2>1, <2>2
<1>5. CASE Submits(r)
  <2>1. PICK sel, input : sel = call[r].sel /\ input = Merge(record[r].input, sel)
    OBVIOUS
  <2>2. /\ Ids(log') = Committed \cup Range(sel)
        /\ Ids(pending') = (Waiting \cup {r}) \ Range(sel)
        /\ \A q \in Runs : record'[q].input = IF q = r THEN input ELSE record[q].input
        /\ Range(input) \subseteq Range(record[r].input) \cup Range(sel)
        /\ Range(sel) \subseteq Waiting \cup {r}
        /\ sel \in Seq(Inputs) /\ Taken(sel, r)
    BY <1>5, <2>1, SubmitsFacts
  <2>3. history'.ok = history.ok \cup Range(sel) /\ history'.gone = history.gone
    BY <2>2, TakenFacts DEF TypeInv
  <2>4. Held' = Held \cup {r} /\ Committed \subseteq Committed' /\ Committed' = Ids(log')
    BY <2>2 DEF Held, Committed, Waiting
  <2>5. call'[r].pc = "Frozen" /\ call[r].pc # "Frozen"
    BY <1>5, SubmissionMoves DEF Submits, CallMoves
  <2>6. r \in history.gone => r \in Steers
    BY <2>5 DEF PlaceInv
  <2>7. PlaceInv'
    <3>0. (Committed \cap Waiting = {})'
      <4>1. r \notin Committed /\ Committed \cap Waiting = {}
        BY <1>5 DEF Submits, Fresh, PlaceInv
      <4> QED BY <2>2, <4>1 DEF Committed, Waiting
    <3>1. (history.ok \ history.gone \subseteq Held)'
      BY <2>2, <2>3, <2>4 DEF PlaceInv, Held
    <3>2. (\A m \in history.gone : ~FellBack(m) => m \notin Held)'
      BY <1>1, <1>3, <2>3, <2>4, <2>6 DEF PlaceInv, FellBack
    <3>3. (\A q \in Runs \ Steers : q \in Held \cup history.gone => call[q].pc = "Frozen")'
      BY <1>2, <2>3, <2>4, <2>5 DEF PlaceInv
    <3>4. (\A x \in Extras : x \in Held \cup history.gone => x \in history.ok)'
      BY <2>3, <2>4, MessagesAssumption DEF PlaceInv
    <3>5. ASSUME NEW v \in Steers
          PROVE  /\ steer[v].pc = "Idle" => v \notin history.gone
                 /\ steer[v].pc = "Staged" => v \in Held' \cup history.gone
                 /\ steer[v].pc = "Staged" /\ v \in history'.ok => v \in Committed'
      BY <2>2, <2>3, <2>4 DEF PlaceInv
    <3> QED BY <1>1, <2>3, <3>0, <3>1, <3>2, <3>3, <3>4, <3>5 DEF PlaceInv
  <2>8. InputInv'
    BY <1>1, <2>2, <2>4 DEF InputInv
  <2> QED BY <2>7, <2>8
<1> QED BY <1>1, <1>4, <1>5

LEMMA SteeringPlaces ==
    ASSUME TypeInv, SoundInv, TargetInv, backend = "postgres", PlaceInv, InputInv,
           NEW v \in Steers, Steering(v)
    PROVE  PlaceInv' /\ InputInv'
<1>1. UNCHANGED <<log, record, call, loop>> /\ history'.gone = history.gone
  BY SteeringStores DEF InDelivery
<1>2. \A w \in Steers \ {v} : steer'[w] = steer[w]
  BY SteeringMoves
<1>3. v \in Inputs /\ v \in Runs /\ v \notin Extras
  BY ModeFacts, MessagesAssumption
<1>4. InputInv'
  BY <1>1 DEF InputInv, Committed
<1>5. Committed' = Committed
  BY <1>1 DEF Committed
\* Enough for the other messages, and what is left for this one.
<1>6. ASSUME Committed \cap Ids(pending') = {}, Held' \ {v} = Held \ {v}, history'.ok \ {v} = history.ok \ {v},
             v \in history'.ok \ history.gone => v \in Held',
             v \in history.gone /\ ~FellBack(v)' => v \notin Held',
             steer'[v].pc # "Idle",
             steer'[v].pc = "Staged" => v \in Held' \cup history.gone,
             steer'[v].pc = "Staged" /\ v \in history'.ok => v \in Committed
      PROVE  PlaceInv'
  <2>1. (history.ok \ history.gone \subseteq Held)'
    BY <1>1, <1>6 DEF PlaceInv
  <2>2. (\A m \in history.gone : ~FellBack(m) => m \notin Held)'
    BY <1>1, <1>2, <1>6 DEF PlaceInv, FellBack
  <2>3. (\A q \in Runs \ Steers : q \in Held \cup history.gone => call[q].pc = "Frozen")'
    BY <1>1, <1>6 DEF PlaceInv
  <2>4. (\A x \in Extras : x \in Held \cup history.gone => x \in history.ok)'
    BY <1>1, <1>3, <1>6 DEF PlaceInv
  <2>5. ASSUME NEW w \in Steers
        PROVE  /\ steer'[w].pc = "Idle" => w \notin history.gone
               /\ steer'[w].pc = "Staged" => w \in Held' \cup history.gone
               /\ steer'[w].pc = "Staged" /\ w \in history'.ok => w \in Committed
    <3>1. CASE w = v
      BY <1>6, <3>1
    <3>2. CASE w # v
      BY <1>2, <1>6, <3>2 DEF PlaceInv
    <3> QED BY <3>1, <3>2
  <2>6. (Committed \cap Waiting = {})'
    BY <1>5, <1>6 DEF Waiting
  <2> QED BY <1>1, <1>5, <2>1, <2>2, <2>3, <2>4, <2>5, <2>6 DEF PlaceInv
<1>7. CASE /\ Fresh(v) /\ steer[v].pc = "Idle" /\ UNCHANGED history
           /\ \E r \in Runs : AppendPending(v, SteerMode(r))
                              /\ steer'[v].pc = "Staged" /\ steer'[v].target = r
  <2>1. Ids(pending') = Waiting \cup {v}
    BY <1>3, <1>7, ModeFacts, AppendStep
  <2>2. Held' = Held \cup {v}
    BY <1>1, <2>1 DEF Held, Committed, Waiting
  <2>3. v \notin Held /\ v \notin history.gone /\ v \notin history.ok
    BY <1>7 DEF PlaceInv, TargetInv, UntriedInv
  <2>4. Committed \cap Ids(pending') = {}
    BY <2>1, <2>3 DEF PlaceInv, Held
  <2> QED BY <1>4, <1>6, <1>7, <2>2, <2>3, <2>4
<1>8. CASE steer[v].pc = "Idle" /\ steer'[v].pc = "Queued" /\ UNCHANGED <<pending, history>>
  <2>1. Held' = Held
    BY <1>1, <1>8 DEF Held, Committed, Waiting
  <2>2. v \notin history.gone
    BY <1>8 DEF PlaceInv
  <2>3. Committed \cap Ids(pending') = {}
    BY <1>8 DEF PlaceInv, Waiting
  <2> QED BY <1>4, <1>6, <1>8, <2>1, <2>2, <2>3 DEF PlaceInv
<1>9. CASE /\ steer[v].pc = "Staged" /\ steer'[v].pc = "Accepted" /\ UNCHANGED pending
           /\ history'.ok = history.ok \cup {v}
  <2>1. Held' = Held
    BY <1>1, <1>9 DEF Held, Committed, Waiting
  <2>2. v \in Held \cup history.gone /\ (v \in history.gone => v \notin Held)
    BY <1>9 DEF PlaceInv, FellBack
  <2>3. Committed \cap Ids(pending') = {}
    BY <1>9 DEF PlaceInv, Waiting
  <2> QED BY <1>4, <1>6, <1>9, <2>1, <2>2, <2>3
<1>10. CASE /\ steer[v].pc = "Staged" /\ steer'[v].pc = "Queued"
            /\ Ids(pending') \in {Waiting, Waiting \ {v}} /\ history'.ok = history.ok
  <2>1. Ids(pending') \subseteq Waiting /\ Waiting \ {v} \subseteq Ids(pending')
    BY <1>10
  <2>2. Held' \ {v} = Held \ {v} /\ Committed \subseteq Held'
    BY <1>1, <2>1 DEF Held, Committed, Waiting
  <2>3. FellBack(v)'
    BY <1>10 DEF FellBack
  <2>4. v \in history.ok => v \in Committed
    BY <1>10 DEF PlaceInv
  <2>5. Committed \cap Ids(pending') = {}
    BY <2>1 DEF PlaceInv
  <2> QED BY <1>4, <1>6, <1>10, <2>2, <2>3, <2>4, <2>5
<1> QED BY <1>7, <1>8, <1>9, <1>10, SteeringStores

LEMMA DeliverPlaces ==
    ASSUME TypeInv, SoundInv, TargetInv, PlaceInv, InputInv, NEW x \in Extras, Deliver(x)
    PROVE  PlaceInv' /\ InputInv'
<1>1. /\ Fresh(x) /\ AppendPending(x, ExtraMode[x]) /\ x \notin history.ok
      /\ history' = [history EXCEPT !.ok = @ \cup {x}]
      /\ UNCHANGED <<steer, log, call, loop, record>>
  BY DEF Deliver, InDelivery
<1>2. x \in Inputs /\ x \notin Runs /\ x \notin Steers /\ ExtraMode[x] \in DeliveryMode
  BY ModeFacts, MessagesAssumption
<1>3. Ids(pending') = Waiting \cup {x}
  BY <1>1, <1>2, AppendStep
<1>4. Held' = Held \cup {x} /\ Committed' = Committed
  BY <1>1, <1>3 DEF Held, Committed, Waiting
<1>5. history'.ok = history.ok \cup {x} /\ history'.gone = history.gone
  BY <1>1, StoreFacts DEF HistoryType
<1>6. x \notin history.gone
  BY <1>1 DEF PlaceInv
<1>7. PlaceInv'
  <2>1. (history.ok \ history.gone \subseteq Held)'
    BY <1>4, <1>5 DEF PlaceInv
  <2>2. (\A m \in history.gone : ~FellBack(m) => m \notin Held)'
    BY <1>1, <1>4, <1>5, <1>6 DEF PlaceInv, FellBack
  <2>3. (\A q \in Runs \ Steers : q \in Held \cup history.gone => call[q].pc = "Frozen")'
    BY <1>1, <1>2, <1>4, <1>5 DEF PlaceInv
  <2>4. (\A y \in Extras : y \in Held \cup history.gone => y \in history.ok)'
    BY <1>4, <1>5 DEF PlaceInv
  <2>5. ASSUME NEW w \in Steers
        PROVE  /\ steer[w].pc = "Idle" => w \notin history.gone
               /\ steer[w].pc = "Staged" => w \in Held' \cup history.gone
               /\ steer[w].pc = "Staged" /\ w \in history'.ok => w \in Committed
    BY <1>2, <1>4, <1>5 DEF PlaceInv
  <2>6. (Committed \cap Waiting = {})'
    BY <1>1, <1>3, <1>4 DEF PlaceInv, Fresh, Waiting
  <2> QED BY <1>1, <1>4, <1>5, <2>1, <2>2, <2>3, <2>4, <2>5, <2>6 DEF PlaceInv
<1>8. InputInv'
  BY <1>1, <1>4 DEF InputInv
<1> QED BY <1>7, <1>8

LEMMA EditingPlaces ==
    ASSUME TypeInv, SoundInv, TargetInv, PlaceInv, InputInv, NEW e \in Editors, Editing(e)
    PROVE  PlaceInv' /\ InputInv'
<1>1. /\ UNCHANGED <<steer, log, call, loop, record>> /\ history'.ok = history.ok
      /\ \/ Ids(pending') = Waiting /\ history'.gone = history.gone
         \/ \E m \in Waiting : /\ Ids(pending') = Waiting \ {m}
                               /\ history'.gone = history.gone \cup {m}
  BY EditingStores DEF InEdit
<1>2. Committed' = Committed
  BY <1>1 DEF Committed
<1>3. InputInv'
  BY <1>1, <1>2 DEF InputInv
<1>4. CASE Ids(pending') = Waiting /\ history'.gone = history.gone
  <2>1. Held' = Held
    BY <1>2, <1>4 DEF Held, Waiting
  <2>2. (Committed \cap Waiting = {})'
    BY <1>2, <1>4 DEF PlaceInv, Waiting
  <2> QED BY <1>1, <1>2, <1>3, <1>4, <2>1, <2>2 DEF PlaceInv, FellBack
<1>5. CASE \E m \in Waiting : /\ Ids(pending') = Waiting \ {m}
                              /\ history'.gone = history.gone \cup {m}
  <2>1. PICK m \in Waiting : /\ Ids(pending') = Waiting \ {m}
                             /\ history'.gone = history.gone \cup {m}
    BY <1>5
  <2>2. m \in Held /\ m \notin Committed
    BY DEF PlaceInv, Held
  <2>3. Held' = Held \ {m}
    BY <1>2, <2>1, <2>2 DEF Held, Waiting
  <2>4. (history.ok \ history.gone \subseteq Held)'
    BY <1>1, <2>1, <2>3 DEF PlaceInv
  <2>5. (\A d \in history.gone : ~FellBack(d) => d \notin Held)'
    BY <1>1, <2>1, <2>3 DEF PlaceInv, FellBack
  <2>6. (\A q \in Runs \ Steers : q \in Held \cup history.gone => call[q].pc = "Frozen")'
    BY <1>1, <2>1, <2>2, <2>3 DEF PlaceInv
  <2>7. (\A y \in Extras : y \in Held \cup history.gone => y \in history.ok)'
    BY <1>1, <2>1, <2>2, <2>3 DEF PlaceInv
  <2>8. ASSUME NEW w \in Steers
        PROVE  /\ steer[w].pc = "Idle" => w \notin history'.gone
               /\ steer[w].pc = "Staged" => w \in Held' \cup history'.gone
               /\ steer[w].pc = "Staged" /\ w \in history.ok => w \in Committed
    BY <2>1, <2>2, <2>3 DEF PlaceInv, TargetInv, UntriedInv
  <2>9. (Committed \cap Waiting = {})'
    BY <1>2, <2>1 DEF PlaceInv, Waiting
  <2> QED BY <1>1, <1>2, <1>3, <2>4, <2>5, <2>6, <2>7, <2>8, <2>9 DEF PlaceInv
<1> QED BY <1>1, <1>4, <1>5

LEMMA AgentLoopPlaces ==
    ASSUME TypeInv, SoundInv, TargetInv, backend = "postgres", PlaceInv, InputInv,
           NEW r \in Runs, AgentLoop(r)
    PROVE  PlaceInv' /\ InputInv'
<1>1. /\ UNCHANGED <<call, steer>>
      /\ UNCHANGED StoreVars \/ (BoundaryTakes(r) /\ UNCHANGED commit) \/ Checkpoints(r)
  BY AgentLoopStores, SnapshotFacts, RestoreFacts DEF InLoop
<1>2. loop' = loop \/ LoopMoves(r)
  BY AgentLoopMoves
\* What the loop knows comes from what it knew and from its record.
<1>3. ASSUME NEW q \in Runs
      PROVE  /\ Range(loop'[q].prior) \subseteq Committed
             /\ Range(loop'[q].cache.input) \subseteq Committed
  <2>1. CASE loop' = loop \/ q # r
    <3>1. loop'[q] = loop[q]
      BY <1>2, <2>1, LoopMoved
    <3> QED BY <3>1 DEF InputInv
  <2>2. CASE LoopMoves(r) /\ q = r
    <3>1. /\ loop'[q].prior \in {loop[q].prior, loop[q].cache.input, record[q].input}
          /\ loop'[q].cache \in {loop[q].cache, record[q], NoRecord}
      BY <2>2, LoopMoved
    <3>2. Range(NoRecord.input) = {}
      BY DEF NoRecord, Range
    <3> QED BY <3>1, <3>2 DEF InputInv
  <2> QED BY <1>2, <2>1, <2>2
<1>4. CASE UNCHANGED StoreVars
  <2>1. PlaceInv'
    BY <1>1, <1>4 DEF PlaceInv, StoreVars, Held, Committed, Waiting, FellBack
  <2>2. InputInv'
    BY <1>3, <1>4 DEF InputInv, StoreVars, Committed
  <2> QED BY <2>1, <2>2
<1>5. CASE BoundaryTakes(r) /\ UNCHANGED commit
  <2>1. PICK sel, input : sel = loop[r].sel /\ input = Merge(loop[r].prior, sel)
    OBVIOUS
  <2>2. /\ Ids(log') = Committed \cup Range(sel)
        /\ Ids(pending') = Waiting \ Range(sel)
        /\ \A q \in Runs : record'[q].input = IF q = r THEN input ELSE record[q].input
        /\ Range(input) \subseteq Range(loop[r].prior) \cup Range(sel)
        /\ Range(sel) \subseteq Waiting
        /\ sel \in Seq(Inputs) /\ Taken(sel, r)
    BY <1>5, <2>1, BoundaryTakesFacts
  <2>3. history'.ok = history.ok \cup Range(sel) /\ history'.gone = history.gone
    BY <2>2, TakenFacts DEF TypeInv
  <2>4. Held' = Held /\ Committed' = Committed \cup Range(sel)
    BY <2>2 DEF Held, Committed, Waiting
  <2>5. Range(sel) \subseteq Held
    BY <2>2 DEF Held
  <2>6. PlaceInv'
    <3>0. (Committed \cap Waiting = {})'
      BY <2>2, <2>4 DEF PlaceInv, Waiting
    <3>1. (history.ok \ history.gone \subseteq Held)'
      BY <2>3, <2>4, <2>5 DEF PlaceInv
    <3>2. (\A m \in history.gone : ~FellBack(m) => m \notin Held)'
      BY <1>1, <2>3, <2>4 DEF PlaceInv, FellBack
    <3>3. (\A q \in Runs \ Steers : q \in Held \cup history.gone => call[q].pc = "Frozen")'
      BY <1>1, <2>3, <2>4 DEF PlaceInv
    <3>4. (\A x \in Extras : x \in Held \cup history.gone => x \in history.ok)'
      BY <2>3, <2>4 DEF PlaceInv
    <3>5. ASSUME NEW v \in Steers
          PROVE  /\ steer[v].pc = "Idle" => v \notin history.gone
                 /\ steer[v].pc = "Staged" => v \in Held' \cup history.gone
                 /\ steer[v].pc = "Staged" /\ v \in history'.ok => v \in Committed'
      BY <2>3, <2>4 DEF PlaceInv
    <3> QED BY <1>1, <2>3, <3>0, <3>1, <3>2, <3>3, <3>4, <3>5 DEF PlaceInv
  <2>7. InputInv'
    BY <1>3, <2>2, <2>4 DEF InputInv
  <2> QED BY <2>6, <2>7
<1>6. CASE Checkpoints(r)
  <2>1. /\ UNCHANGED <<pending, history>>
        /\ \A m \in Inputs : m \in Ids(log') <=> m \in Committed
        /\ Committed \subseteq Ids(log')
        /\ \A q \in Runs : record'[q].input = IF q = r THEN loop[r].prior ELSE record[q].input
    BY <1>6, CheckpointFacts
  <2>2. \A m \in Inputs : (m \in Held' <=> m \in Held) /\ (m \in Committed' <=> m \in Committed)
    BY <2>1 DEF Held, Committed, Waiting
  <2>3. history.ok \subseteq Inputs /\ history.gone \subseteq Inputs
         /\ Runs \subseteq Inputs /\ Extras \subseteq Inputs /\ Steers \subseteq Inputs
    BY StoreFacts, ModeFacts DEF HistoryType
  <2>4. PlaceInv'
    <3>0. (Committed \cap Waiting = {})'
      <4>1. Waiting' = Waiting /\ Waiting \subseteq Inputs
        BY <2>1, StoreFacts DEF Waiting
      <4> QED BY <2>2, <4>1 DEF PlaceInv
    <3> QED BY <1>1, <2>1, <2>2, <2>3, <3>0 DEF PlaceInv, FellBack
  <2>5. InputInv'
    BY <1>3, <2>1 DEF InputInv, Committed
  <2> QED BY <2>4, <2>5
<1> QED BY <1>1, <1>4, <1>5, <1>6

-----------------------------------------------------------------------------
(* The invariant holds.                                                    *)

LEMMA InitTypes == Init => TypeInv
<1> SUFFICES ASSUME Init PROVE TypeInv
  OBVIOUS
<1>0. MaxAttempts \in Nat \ {0} /\ MaxSteps \in Nat \ {0}
  BY MessagesAssumption
<1>1. << >> \in Seq(Inputs) /\ << >> \in Seq(Entries) /\ << >> \in Seq(Records) /\ << >> \in Seq(Outputs)
  OBVIOUS
<1>2. NoRecord \in RunRecords
  BY <1>1 DEF NoRecord, RunRecords
<1>3. backend \in {"postgres", "memory"}
  BY MessagesAssumption DEF Init
<1>4. StoreTypes /\ ~Locked
  BY <1>1, <1>2 DEF Init, StoreTypes, Locked
<1>5. call \in [Runs -> CallType] /\ \A r \in Runs : call[r].tries = 0
  BY <1>0, <1>1 DEF Init, CallType
<1>6. steer \in [Steers -> SteerType]
  BY DEF Init, SteerType
<1>7. loop \in [Runs -> LoopType] /\ \A r \in Runs : loop[r].tries = 0
  BY <1>0, <1>1, <1>2 DEF Init, LoopType
<1>8. editor \in [Editors -> EditorType]
  BY <1>1 DEF Init, EditorType
<1>9. history \in HistoryType
  BY DEF Init, HistoryType
<1>10. TriesLeft
  BY <1>0, <1>5, <1>7 DEF TriesLeft
<1> QED BY <1>3, <1>4, <1>5, <1>6, <1>7, <1>8, <1>9, <1>10 DEF TypeInv, CallerTypes, LockInv

LEMMA InitMessages == Init => MessagesInv
<1> SUFFICES ASSUME Init PROVE MessagesInv
  OBVIOUS
<1>1. TypeInv
  BY InitTypes
<1>2. log = << >> /\ pending = << >> /\ ~Locked
  BY DEF Init, Locked
<1>3. DOMAIN log = {} /\ DOMAIN pending = {}
  BY <1>2
<1>4. Committed = {} /\ Waiting = {} /\ Held = {}
  BY <1>3 DEF Committed, Waiting, Held, Ids
<1>5. SoundInv
  BY <1>2, <1>3, <1>4 DEF SoundInv, Sound, InputsOnce, Distinct, Committed, Waiting
<1>6. /\ \A m \in Inputs : history.taker[m] = NoRun
      /\ history.ok = {} /\ history.gone = {}
      /\ \A v \in Steers : steer[v].pc = "Idle"
      /\ \A r \in Runs : /\ call[r].pc = "Idle" /\ record[r] = NoRecord
                         /\ loop[r].prior = << >> /\ loop[r].cache = NoRecord
  BY DEF Init
<1>7. Steers \subseteq Inputs /\ Extras \subseteq Inputs /\ Steers \subseteq Runs
  BY ModeFacts
<1>8. TargetInv
  BY <1>2, <1>3, <1>4, <1>6, <1>7 DEF TargetInv, ModesHold, ModesIn, UntriedInv, TargetRespected
<1>9. Range(<< >>) = {} /\ NoRecord.input = << >>
  BY DEF Range, NoRecord
<1>10. PostgresInv
  BY <1>4, <1>6, <1>9 DEF PostgresInv, PlaceInv, InputInv
<1> QED BY <1>1, <1>5, <1>8, <1>10 DEF MessagesInv

LEMMA NextMessages == MessagesInv /\ [Next]_vars => MessagesInv'
<1> SUFFICES ASSUME MessagesInv, [Next]_vars PROVE MessagesInv'
  OBVIOUS
<1>1. TypeInv /\ SoundInv /\ TargetInv /\ (backend = "postgres" => PlaceInv /\ InputInv)
  BY DEF MessagesInv, PostgresInv
<1>2. ASSUME NEW r \in Runs, Submission(r) PROVE MessagesInv'
  <2>1. backend' = backend
    BY <1>1, <1>2, SubmissionStores DEF InCall
  <2> QED BY <1>1, <1>2, <2>1, SubmissionKeeps, SubmissionTargets, SubmissionPlaces
        DEF MessagesInv, PostgresInv
<1>3. ASSUME NEW r \in Runs, AgentLoop(r) PROVE MessagesInv'
  <2>1. backend' = backend
    BY <1>1, <1>3, AgentLoopStores DEF InLoop
  <2> QED BY <1>1, <1>3, <2>1, AgentLoopKeeps, AgentLoopTargets, AgentLoopPlaces
        DEF MessagesInv, PostgresInv
<1>4. ASSUME NEW v \in Steers, Steering(v) PROVE MessagesInv'
  <2>1. backend' = backend
    BY <1>1, <1>4, SteeringStores DEF InDelivery
  <2> QED BY <1>1, <1>4, <2>1, SteeringKeeps, SteeringTargets, SteeringPlaces
        DEF MessagesInv, PostgresInv
<1>5. ASSUME NEW x \in Extras, Deliver(x) PROVE MessagesInv'
  <2>1. backend' = backend
    BY <1>5 DEF Deliver, InDelivery
  <2> QED BY <1>1, <1>5, <2>1, DeliverKeeps, DeliverTargets, DeliverPlaces
        DEF MessagesInv, PostgresInv
<1>6. ASSUME NEW e \in Editors, Editing(e) PROVE MessagesInv'
  <2>1. backend' = backend
    BY <1>1, <1>6, EditingStores DEF InEdit
  <2> QED BY <1>1, <1>6, <2>1, EditingKeeps, EditingTargets, EditingPlaces
        DEF MessagesInv, PostgresInv
<1>7. CASE UNCHANGED vars
  <2>1. TypeInv' /\ SoundInv'
    BY <1>1, <1>7 DEF vars, TypeInv, StoreTypes, CallerTypes, TriesLeft, LockInv, Locked,
         SoundInv, Committed
  <2>2. TargetInv'
    BY <1>1, <1>7 DEF vars, TargetInv, ModesHold, UntriedInv, Held, Committed, Waiting, Locked,
         TargetRespected, ModeOf
  <2>3. PostgresInv'
    BY <1>1, <1>7 DEF vars, PostgresInv, PlaceInv, InputInv, Held, Committed, Waiting, FellBack
  <2> QED BY <2>1, <2>2, <2>3 DEF MessagesInv
<1> QED BY <1>2, <1>3, <1>4, <1>5, <1>6, <1>7, Zenon DEF Next

LEMMA MessagesInvariant == Spec => []MessagesInv
<1> QED BY InitMessages, NextMessages, PTL DEF Spec

-----------------------------------------------------------------------------
(* What it means for the thread.                                           *)

\* Every variable keeps its type: the log, the queue, run inputs, attempts.
THEOREM TypesHold == Spec => []MessagesTypeOK
<1>1. TypeInv => MessagesTypeOK
  <2> SUFFICES ASSUME TypeInv PROVE MessagesTypeOK
    OBVIOUS
  <2>1. ASSUME NEW m \in Range(log)
        PROVE  m.id \in Inputs \cup (Runs \X (1 .. MaxSteps)) /\ m.text \in Nat
    <3>1. \A i \in DOMAIN log : log[i] \in Entries
      BY SeqIsFunction DEF TypeInv, StoreTypes
    <3>2. m \in Entries
      BY <3>1 DEF Range
    <3> QED BY <3>2 DEF Entries
  <2>2. ASSUME NEW m \in Range(pending)
        PROVE  m.id \in Inputs /\ m.text \in Nat /\ m.rev \in Nat \ {0}
    <3>1. \A i \in DOMAIN pending : pending[i] \in Records
      BY SeqIsFunction DEF TypeInv, StoreTypes
    <3>2. m \in Records
      BY <3>1 DEF Range
    <3> QED BY <3>2 DEF Records
  <2>3. ASSUME NEW r \in Runs
        PROVE  /\ record[r].status \in {"None", "Created", "Running", "Done"}
               /\ Range(record[r].input) \subseteq Inputs
               /\ call[r].tries \in 0 .. MaxAttempts
               /\ loop[r].tries \in 0 .. MaxAttempts
    <3>1. call[r] \in CallType /\ loop[r] \in LoopType /\ record[r] \in RunRecords
      BY CallerFacts
    <3>2. record[r].input \in Seq(Inputs)
      BY <3>1 DEF RunRecords
    <3>3. \A i \in DOMAIN record[r].input : record[r].input[i] \in Inputs
      BY <3>2, SeqIsFunction
    <3>4. Range(record[r].input) \subseteq Inputs
      BY <3>3 DEF Range
    <3> QED BY <3>1, <3>4 DEF CallType, LoopType, RunRecords
  <2> QED BY <2>1, <2>2, <2>3 DEF MessagesTypeOK, TypeInv, StoreTypes
<1>2. MessagesInv => MessagesTypeOK
  BY <1>1 DEF MessagesInv
<1> QED BY <1>2, MessagesInvariant, PTL

\* On Postgres a message is in the log or in the queue, and there once; an
\* acknowledged one is there, a retracted one is not.
THEOREM MessagesExactlyOnce == Spec => []ExactlyOnce
<1>1. MessagesInv => ExactlyOnce
  <2> SUFFICES ASSUME MessagesInv, backend = "postgres", NEW m \in Inputs
               PROVE  /\ Zones(m) <= 1
                      /\ m \in history.ok \ history.gone => Zones(m) = 1
                      /\ m \in history.gone /\ ~FellBack(m) => Zones(m) = 0
    BY DEF ExactlyOnce
  <2>1. Zones(m) \in {0, 1} /\ (Zones(m) = 1 <=> m \in Held)
    BY ZonesCount, StoreFacts DEF MessagesInv, PostgresInv, PlaceInv
  <2>2. Zones(m) <= 1
    BY <2>1
  <2> QED BY <2>1, <2>2 DEF MessagesInv, PostgresInv, PlaceInv
<1> QED BY <1>1, MessagesInvariant, PTL

\* A run record claims no input that is not in the log.
THEOREM InputsAreCommitted == Spec => []InputIsCommitted
<1>1. MessagesInv => InputIsCommitted
  BY DEF MessagesInv, PostgresInv, InputInv, InputIsCommitted
<1> QED BY <1>1, MessagesInvariant, PTL

\* Steering meant for one run is never consumed by another.
THEOREM TargetsRespected == Spec => []TargetRespected
<1>1. MessagesInv => TargetRespected
  BY DEF MessagesInv, TargetInv
<1> QED BY <1>1, MessagesInvariant, PTL

LEMMA BarrierStep ==
    ASSUME TypeInv, SoundInv, NEW r \in Runs, NEW queue \in Seq(Records), Sound(log, queue),
           NEW b, NEW sel, sel = SelectPending(queue, b, r), DOMAIN pending \subseteq DOMAIN queue,
           \A i \in DOMAIN pending : queue[i] = pending[i],
           Ids(log') = Committed \cup Range(sel), Ids(pending') = Ids(queue) \ Range(sel),
           NEW i \in DOMAIN pending, NEW j \in DOMAIN pending,
           i < j, pending[j].mode.barrier, pending[j].id \in Ids(log') \ Committed
    PROVE  pending[i].id \notin Ids(pending')
<1>1. pending[j].id \in Range(sel)
  OBVIOUS
<1>2. queue[j].id \in Range(sel) /\ queue[j].mode.barrier
  BY <1>1
<1>3. queue[i].id \in Range(sel)
  BY <1>2, SelectFacts DEF Sound
<1> QED BY <1>3

\* When a barrier message is consumed, no message ahead of it stays behind.
THEOREM BarriersHeld == Spec => BarrierHeld
<1>1. ASSUME MessagesInv, [Next]_vars
      PROVE  \/ UNCHANGED vars
             \/ \A i, j \in DOMAIN pending :
                  /\ i < j /\ pending[j].mode.barrier /\ pending[j].id \in Ids(log') \ Committed
                  => pending[i].id \notin Ids(pending')
  <2> SUFFICES ASSUME ~(UNCHANGED vars), NEW i \in DOMAIN pending, NEW j \in DOMAIN pending,
                      i < j, pending[j].mode.barrier, pending[j].id \in Ids(log') \ Committed
               PROVE  pending[i].id \notin Ids(pending')
    BY Zenon
  <2>1. TypeInv /\ SoundInv
    BY <1>1 DEF MessagesInv
  <2>2. pending[j].id \in Inputs /\ (log' = log => FALSE)
    BY <2>1, StoreFacts DEF Committed
  <2>3. ASSUME NEW r \in Runs, Submission(r) PROVE pending[i].id \notin Ids(pending')
    <3>1. Submits(r)
      BY <2>1, <2>2, <2>3, SubmissionStores DEF StoreVars, Orphans
    <3>2. PICK queue, sel : queue = SubmitQueue(r) /\ sel = call[r].sel
      OBVIOUS
    <3>3. /\ queue \in Seq(Records) /\ DOMAIN pending \subseteq DOMAIN queue
          /\ \A k \in DOMAIN pending : queue[k] = pending[k]
          /\ Ids(queue) = Waiting \cup {r} /\ Sound(log, queue)
          /\ sel = SelectPending(queue, Boundary[r], r)
      BY <2>1, <3>1, <3>2, SubmitQueueFacts DEF Submits
    <3>4. Ids(log') = Committed \cup Range(sel) /\ Ids(pending') = Ids(queue) \ Range(sel)
      BY <2>1, <3>1, <3>2, <3>3, SubmitsFacts
    <3> QED BY <2>1, <3>3, <3>4, BarrierStep
  <2>4. ASSUME NEW r \in Runs, AgentLoop(r) PROVE pending[i].id \notin Ids(pending')
    <3>1. CASE BoundaryTakes(r) /\ UNCHANGED commit
      <4>1. PICK sel : sel = loop[r].sel
        OBVIOUS
      <4>2. sel = SelectPending(pending, loop[r].boundary, r)
        BY <3>1, <4>1 DEF BoundaryTakes
      <4>3. Ids(log') = Committed \cup Range(sel) /\ Ids(pending') = Ids(pending) \ Range(sel)
        BY <2>1, <3>1, <4>1, BoundaryTakesFacts DEF Waiting
      <4> QED BY <2>1, <4>2, <4>3, StoreFacts, BarrierStep
    <3>2. CASE Restoring(r)
      <4>1. Locked /\ (log' = log \/ log' = commit.log)
        BY <2>1, <3>2, RestoreFacts
      <4>2. Ids(log') \subseteq Committed
        BY <2>1, <4>1 DEF SoundInv, Committed
      <4> QED BY <4>2
    <3>3. CASE Checkpoints(r)
      BY <2>1, <2>2, <3>3, CheckpointFacts
    <3>4. CASE UNCHANGED StoreVars \/ Snapshotting(r)
      BY <2>1, <2>2, <3>4, SnapshotFacts DEF StoreVars
    <3> QED BY <2>1, <2>4, <3>1, <3>2, <3>3, <3>4, AgentLoopStores
  <2>5. ASSUME NEW v \in Steers, Steering(v) PROVE FALSE
    BY <2>1, <2>2, <2>5, SteeringStores DEF InDelivery
  <2>6. ASSUME NEW x \in Extras, Deliver(x) PROVE FALSE
    BY <2>2, <2>6 DEF Deliver, InDelivery
  <2>7. ASSUME NEW e \in Editors, Editing(e) PROVE FALSE
    BY <2>1, <2>2, <2>7, EditingStores DEF InEdit
  <2> QED BY <1>1, <2>3, <2>4, <2>5, <2>6, <2>7, Zenon DEF Next
<1>2. MessagesInv /\ [Next]_vars =>
        [\A i, j \in DOMAIN pending :
           /\ i < j /\ pending[j].mode.barrier
           /\ pending[j].id \in Ids(log') \ Committed
           => pending[i].id \notin Ids(pending')]_vars
  BY <1>1
<1> QED BY <1>2, MessagesInvariant, PTL DEF Spec, BarrierHeld

\* No step takes a committed message of a Postgres thread away.
THEOREM CommittedStayCommitted ==
    Spec => [][backend = "postgres" => Committed \subseteq Ids(log')]_vars
<1>1. ASSUME MessagesInv, [Next]_vars, backend = "postgres"
      PROVE  UNCHANGED vars \/ Committed \subseteq Ids(log')
  <2>1. TypeInv /\ SoundInv
    BY <1>1 DEF MessagesInv
  <2>2. UNCHANGED log => Committed \subseteq Ids(log')
    BY DEF Committed
  <2>3. ASSUME NEW r \in Runs, Submission(r) PROVE Committed \subseteq Ids(log')
    <3>1. CASE Submits(r)
      BY <2>1, <3>1, SubmitsFacts
    <3> QED BY <2>1, <2>2, <2>3, <3>1, SubmissionStores DEF StoreVars, Orphans
  <2>4. ASSUME NEW r \in Runs, AgentLoop(r) PROVE Committed \subseteq Ids(log')
    <3>1. CASE BoundaryTakes(r) /\ UNCHANGED commit
      BY <2>1, <3>1, BoundaryTakesFacts
    <3>2. CASE Checkpoints(r)
      BY <2>1, <3>2, CheckpointFacts
    <3> QED BY <1>1, <2>1, <2>2, <2>4, <3>1, <3>2, AgentLoopStores, SnapshotFacts, RestoreFacts
          DEF StoreVars
  <2>5. ASSUME NEW v \in Steers, Steering(v) PROVE UNCHANGED log
    BY <2>1, <2>5, SteeringStores DEF InDelivery
  <2>6. ASSUME NEW x \in Extras, Deliver(x) PROVE UNCHANGED log
    BY <2>6 DEF Deliver, InDelivery
  <2>7. ASSUME NEW e \in Editors, Editing(e) PROVE UNCHANGED log
    BY <2>1, <2>7, EditingStores DEF InEdit
  <2> QED BY <1>1, <2>2, <2>3, <2>4, <2>5, <2>6, <2>7, Zenon DEF Next
<1>2. MessagesInv /\ [Next]_vars => [backend = "postgres" => Committed \subseteq Ids(log')]_vars
  BY <1>1
<1> QED BY <1>2, MessagesInvariant, PTL DEF Spec

-----------------------------------------------------------------------------
(* Edits.                                                                  *)

\* What is acknowledged, frozen or staged stays so.
Onward ==
    /\ history.ok \subseteq history'.ok
    /\ \A r \in Runs : call[r].pc = "Frozen" => call'[r].pc = "Frozen"
    /\ \A v \in Steers :
         /\ steer[v].pc = "Queued" => steer'[v].pc = "Queued"
         /\ steer[v].pc # "Idle" => steer'[v].pc # "Idle"

LEMMA StagedStays ==
    ASSUME Onward, NEW m
    PROVE  /\ Staged(m, history.ok, call, steer) => Staged(m, history'.ok, call', steer')
           /\ FellBack(m) => FellBack(m)'
BY DEF Staged, Onward, FellBack

LEMMA SubmissionOnward ==
    ASSUME TypeInv, SoundInv, NEW r \in Runs, Submission(r)
    PROVE  Onward /\ history'.edits = history.edits
<1>1. \A q \in Runs : call[q].pc = "Frozen" => call'[q].pc = "Frozen"
  BY SubmissionMoves, CallMoved
<1>2. UNCHANGED steer /\ history.ok \subseteq history'.ok /\ history'.edits = history.edits
  <2>1. CASE Submits(r)
    <3>1. Taken(call[r].sel, r) /\ call[r].sel \in Seq(Inputs)
      BY <2>1, SubmitsFacts
    <3>2. history'.ok = history.ok \cup Range(call[r].sel) /\ history'.edits = history.edits
      BY <3>1, TakenFacts DEF TypeInv
    <3> QED BY <3>2, SubmissionStores DEF InCall
  <2>2. CASE ~Submits(r)
    BY <2>2, SubmissionStores DEF InCall, StoreVars, Orphans
  <2> QED BY <2>1, <2>2
<1> QED BY <1>1, <1>2 DEF Onward

LEMMA AgentLoopOnward ==
    ASSUME TypeInv, SoundInv, NEW r \in Runs, AgentLoop(r)
    PROVE  Onward /\ history'.edits = history.edits
<1>1. UNCHANGED <<call, steer>>
  BY AgentLoopStores DEF InLoop
<1>2. history.ok \subseteq history'.ok /\ history'.edits = history.edits
  <2>1. CASE BoundaryTakes(r) /\ UNCHANGED commit
    <3>1. Taken(loop[r].sel, r) /\ loop[r].sel \in Seq(Inputs)
      BY <2>1, BoundaryTakesFacts
    <3>2. history'.ok = history.ok \cup Range(loop[r].sel) /\ history'.edits = history.edits
      BY <3>1, TakenFacts DEF TypeInv
    <3> QED BY <3>2
  <2>2. CASE UNCHANGED StoreVars \/ Snapshotting(r) \/ Restoring(r) \/ Checkpoints(r)
    BY <2>2, SnapshotFacts, RestoreFacts, CheckpointFacts DEF StoreVars
  <2> QED BY <2>1, <2>2, AgentLoopStores
<1> QED BY <1>1, <1>2 DEF Onward

LEMMA SteeringOnward ==
    ASSUME TypeInv, SoundInv, NEW v \in Steers, Steering(v)
    PROVE  Onward /\ history'.edits = history.edits
<1>1. UNCHANGED call /\ history.ok \subseteq history'.ok /\ history'.edits = history.edits
  BY SteeringStores DEF InDelivery
<1>2. \A w \in Steers \ {v} : steer'[w] = steer[w]
  BY SteeringMoves
<1>3. steer[v].pc \in {"Idle", "Staged"} /\ steer'[v].pc # "Idle"
  BY SteeringStores
<1> QED BY <1>1, <1>2, <1>3 DEF Onward

LEMMA DeliverOnward ==
    ASSUME TypeInv, NEW x \in Extras, Deliver(x)
    PROVE  Onward /\ history'.edits = history.edits /\ history'.ok = history.ok \cup {x}
<1>1. history' = [history EXCEPT !.ok = @ \cup {x}] /\ UNCHANGED <<call, steer>>
  BY DEF Deliver, InDelivery
<1>2. history'.ok = history.ok \cup {x} /\ history'.edits = history.edits
  BY <1>1 DEF TypeInv, HistoryType
<1> QED BY <1>1, <1>2 DEF Onward

\* A message that is in the thread was staged.
LEMMA HeldStaged ==
    ASSUME PlaceInv, UntriedInv, NEW m \in Held
    PROVE  Staged(m, history.ok, call, steer)
BY DEF PlaceInv, UntriedInv, Staged

\* A message that comes to the queue without having been there: it carries
\* no edit, unless it is queued after it missed its run.
Arrives(m) ==
    /\ m.id \in Inputs
    /\ \/ FellBack(m.id)
       \/ ~Staged(m.id, history.ok, call, steer) /\ m.text = 0

Arrivals(queue) ==
    \A i \in DOMAIN queue :
       (\E j \in DOMAIN pending : queue[i] = pending[j]) \/ Arrives(queue[i])

\* The inputs that the log gets are of that queue, with their texts.
InputsLogged(new, entries, queue) ==
    \A i \in DOMAIN new : new[i].id \in Inputs =>
      \/ i \in DOMAIN entries /\ new[i] = entries[i]
      \/ \E j \in DOMAIN queue : new[i].id = queue[j].id /\ new[i].text = queue[j].text

NobodyReads ==
    \A e \in Editors : editor'[e].pc = "Edit" =>
       editor[e].pc = "Edit" /\ editor'[e].view = editor[e].view

\* A message of such a queue has the text of its edits.
LEMMA ArrivalTexts ==
    ASSUME TextInv, NEW queue, Arrivals(queue), NEW j \in DOMAIN queue
    PROVE  Carries(queue[j], steer, history.edits)
BY DEF TextInv, Arrivals, Arrives, Carries, FellBack

LEMMA ArrivalNames ==
    ASSUME TypeInv, TypeInv', ReadInv, NEW queue \in Seq(Records), Arrivals(queue),
           NEW e \in Editors, editor[e].pc = "Edit", NEW seen \in Range(editor[e].view),
           NEW j \in DOMAIN queue, NEW n \in Records, Follows(n, queue[j]), n.text = queue[j].text
    PROVE  FellBack(seen.id) \/ Names(seen, n)
<1>1. PICK m : m = queue[j]
  OBVIOUS
<1>2. m \in Records
  BY <1>1, SeqIsFunction
<1>3. Staged(seen.id, history.ok, call, steer) /\ seen \in Records
  BY EditorFacts DEF ReadInv
<1>4. CASE Arrives(m)
  <2>1. FellBack(m.id) \/ seen.id # m.id
    BY <1>3, <1>4 DEF Arrives
  <2>2. n.id = m.id
    BY <1>1 DEF Follows
  <2> QED BY <2>1, <2>2 DEF Names
<1>5. CASE \E i \in DOMAIN pending : m = pending[i]
  <2>1. FellBack(seen.id) \/ Names(seen, m)
    BY <1>5 DEF ReadInv
  <2>2. seen.rev \in Nat /\ m.rev \in Nat /\ n.rev \in Nat
    BY <1>2, <1>3 DEF Records
  <2> QED BY <1>1, <2>1, <2>2 DEF Names, Follows
<1> QED BY <1>1, <1>4, <1>5 DEF Arrivals

\* A step that edits nothing keeps texts and revisions together.
LEMMA EditsMoved ==
    ASSUME TypeInv, TypeInv', ReadInv, TextInv, Onward, history'.edits = history.edits,
           NobodyReads, NEW queue \in Seq(Records), Arrivals(queue),
           Renumbered(pending', queue), InputsLogged(log', log, queue)
    PROVE  ReadInv' /\ TextInv'
<1>1. \A i \in DOMAIN pending' : pending'[i] \in Records
  <2>1. pending' \in Seq(Records)
    BY DEF TypeInv, StoreTypes
  <2> QED BY <2>1, SeqIsFunction
<1>2. ASSUME NEW e \in Editors, editor'[e].pc = "Edit", NEW seen \in Range(editor'[e].view)
      PROVE  /\ Staged(seen.id, history'.ok, call', steer')
             /\ \A i \in DOMAIN pending' : FellBack(seen.id)' \/ Names(seen, pending'[i])
  <2>1. editor[e].pc = "Edit" /\ seen \in Range(editor[e].view)
    BY <1>2 DEF NobodyReads
  <2>2. Staged(seen.id, history'.ok, call', steer')
    BY <2>1, StagedStays DEF ReadInv
  <2>3. ASSUME NEW i \in DOMAIN pending' PROVE FellBack(seen.id) \/ Names(seen, pending'[i])
    <3>1. PICK j \in DOMAIN queue :
            Follows(pending'[i], queue[j]) /\ pending'[i].text = queue[j].text
      BY DEF Renumbered
    <3>2. PICK n : n = pending'[i]
      OBVIOUS
    <3>3. n \in Records /\ Follows(n, queue[j]) /\ n.text = queue[j].text
      BY <1>1, <3>1, <3>2
    <3> QED BY <2>1, <3>2, <3>3, ArrivalNames
  <2> QED BY <2>2, <2>3, StagedStays
<1>3. ReadInv'
  BY <1>2 DEF ReadInv
<1>4. \A m : Carries(m, steer, history.edits) => Carries(m, steer', history'.edits)
  BY DEF Carries, Onward
<1>5. ASSUME NEW i \in DOMAIN pending'
      PROVE  Carries(pending'[i], steer', history'.edits)
  <2>1. PICK j \in DOMAIN queue : Follows(pending'[i], queue[j]) /\ pending'[i].text = queue[j].text
    BY DEF Renumbered
  <2>2. Carries(queue[j], steer', history'.edits)
    BY <1>4, ArrivalTexts
  <2>3. pending'[i].id = queue[j].id
    BY <2>1 DEF Follows
  <2> QED BY <2>1, <2>2, <2>3 DEF Carries
<1>6. ASSUME NEW i \in DOMAIN log', log'[i].id \in Inputs
      PROVE  Carries(log'[i], steer', history'.edits)
  <2>1. CASE i \in DOMAIN log /\ log'[i] = log[i]
    BY <1>4, <1>6, <2>1 DEF TextInv
  <2>2. CASE \E j \in DOMAIN queue : log'[i].id = queue[j].id /\ log'[i].text = queue[j].text
    <3>1. PICK j \in DOMAIN queue : log'[i].id = queue[j].id /\ log'[i].text = queue[j].text
      BY <2>2
    <3>2. Carries(queue[j], steer', history'.edits)
      BY <1>4, ArrivalTexts
    <3> QED BY <3>1, <3>2 DEF Carries
  <2> QED BY <1>6, <2>1, <2>2 DEF InputsLogged
<1>7. \A m \in Inputs : ~Staged(m, history'.ok, call', steer') => history'.edits[m] = 0
  BY StagedStays DEF TextInv
<1>8. TextInv'
  BY <1>5, <1>6, <1>7 DEF TextInv
<1> QED BY <1>3, <1>8

\* The queue as it is, taken over whole, in part, or with later revisions.
LEMMA SameQueue ==
    /\ Arrivals(pending)
    /\ \A rest : Within(rest, pending) => Renumbered(rest, pending)
    /\ \A rest, queue : Within(rest, queue) => Renumbered(rest, queue)
    /\ InputsLogged(log, log, pending)
    /\ \A new, queue : Logged(new, log, queue) => InputsLogged(new, log, queue)
BY DEF Arrivals, Renumbered, Follows, Within, InputsLogged, Logged

LEMMA SubmissionEdits ==
    ASSUME MessagesInv, TypeInv', ReadInv, TextInv, backend = "postgres",
           NEW r \in Runs, Submission(r)
    PROVE  ReadInv' /\ TextInv'
<1>1. TypeInv /\ SoundInv /\ UntriedInv
  BY DEF MessagesInv, TargetInv
<1>2. Onward /\ history'.edits = history.edits /\ NobodyReads
  BY <1>1, SubmissionOnward, SubmissionStores DEF NobodyReads, InCall
<1>3. pending \in Seq(Records) /\ Within(pending, pending)
  BY <1>1, StoreFacts DEF Within
<1>4. CASE UNCHANGED StoreVars
  <2>1. Renumbered(pending', pending) /\ InputsLogged(log', log, pending)
    BY <1>3, <1>4, SameQueue DEF StoreVars
  <2> QED BY <1>1, <1>2, <1>3, <2>1, SameQueue, EditsMoved
<1>5. CASE Submits(r)
  <2>1. PICK queue : queue = SubmitQueue(r)
    OBVIOUS
  <2>2. /\ queue \in Seq(Records)
        /\ DOMAIN queue = DOMAIN pending \cup {Len(pending) + 1}
        /\ \A i \in DOMAIN pending : queue[i] = pending[i]
        /\ queue[Len(pending) + 1] = New(r, SubmitMode(r))
    BY <1>1, <1>5, <2>1, SubmitQueueFacts DEF Submits
  <2>3. Within(pending', queue) /\ Logged(log', log, queue)
    BY <1>1, <1>5, <2>1, SubmitsFacts
  <2>4. Arrives(New(r, SubmitMode(r)))
    <3>1. call[r].pc # "Frozen"
      BY <1>1, SubmissionMoves DEF CallMoves
    <3>2. r \in Steers => FellBack(r)
      BY <1>1, SubmissionIsQueued DEF FellBack
    <3>3. r \notin Steers => ~Staged(r, history.ok, call, steer)
      BY <3>1 DEF Staged
    <3> QED BY <3>2, <3>3, ModeFacts, NewFacts DEF Arrives
  <2>5. Arrivals(queue)
    BY <2>2, <2>4 DEF Arrivals
  <2> QED BY <1>1, <1>2, <2>2, <2>3, <2>5, SameQueue, EditsMoved
<1>6. ~Orphans(r)
  BY DEF Orphans
<1> QED BY <1>1, <1>4, <1>5, <1>6, SubmissionStores

LEMMA AgentLoopEdits ==
    ASSUME MessagesInv, TypeInv', ReadInv, TextInv, backend = "postgres",
           NEW r \in Runs, AgentLoop(r)
    PROVE  ReadInv' /\ TextInv'
<1>1. TypeInv /\ SoundInv
  BY DEF MessagesInv
<1>2. Onward /\ history'.edits = history.edits /\ NobodyReads
  BY <1>1, AgentLoopOnward, AgentLoopStores DEF NobodyReads, InLoop
<1>3. pending \in Seq(Records) /\ Within(pending, pending)
  BY <1>1, StoreFacts DEF Within
<1>4. Within(pending', pending) /\ InputsLogged(log', log, pending)
  <2>1. CASE UNCHANGED StoreVars
    BY <1>3, <2>1, SameQueue DEF StoreVars
  <2>2. CASE BoundaryTakes(r) /\ UNCHANGED commit
    <3>1. Within(pending', pending) /\ Logged(log', log, pending)
      BY <1>1, <2>2, BoundaryTakesFacts
    <3> QED BY <3>1, SameQueue
  <2>3. CASE Checkpoints(r)
    <3>1. /\ UNCHANGED pending
          /\ \A i \in DOMAIN log' : (i \in DOMAIN log /\ log'[i] = log[i]) \/ log'[i].id \notin Inputs
      BY <1>1, <2>3, CheckpointFacts
    <3> QED BY <1>3, <3>1 DEF InputsLogged
  <2>4. ~Snapshotting(r) /\ ~Restoring(r)
    BY <1>1, SnapshotFacts, RestoreFacts
  <2> QED BY <1>1, <2>1, <2>2, <2>3, <2>4, AgentLoopStores
<1> QED BY <1>1, <1>2, <1>3, <1>4, SameQueue, EditsMoved

LEMMA DeliverEdits ==
    ASSUME MessagesInv, TypeInv', ReadInv, TextInv, NEW x \in Extras, Deliver(x)
    PROVE  ReadInv' /\ TextInv'
<1>1. TypeInv /\ SoundInv
  BY DEF MessagesInv
<1>2. Onward /\ history'.edits = history.edits /\ NobodyReads
  BY <1>1, DeliverOnward DEF NobodyReads, Deliver, InDelivery
<1>3. PICK m : m = New(x, ExtraMode[x])
  OBVIOUS
<1>4. /\ pending' = Append(pending, m) /\ log' = log
      /\ m \in Records /\ m.id = x /\ m.text = 0
      /\ x \notin history.ok
  BY <1>3, ModeFacts, NewFacts DEF Deliver, AppendPending, InDelivery
<1>5. Arrives(m)
  BY <1>4, ModeFacts DEF Arrives, Staged
<1>6. PICK queue : queue = Append(pending, m)
  OBVIOUS
<1>7. /\ queue \in Seq(Records)
      /\ DOMAIN queue = DOMAIN pending \cup {Len(pending) + 1}
      /\ \A i \in DOMAIN pending : queue[i] = pending[i]
      /\ queue[Len(pending) + 1] = m
  BY <1>1, <1>4, <1>6, StoreFacts, AppendFacts
<1>8. Arrivals(queue)
  BY <1>5, <1>7 DEF Arrivals
<1>9. Renumbered(pending', queue) /\ InputsLogged(log', log, queue)
  BY <1>4, <1>6 DEF Renumbered, Follows, InputsLogged
<1> QED BY <1>1, <1>2, <1>7, <1>8, <1>9, EditsMoved

LEMMA SteeringEdits ==
    ASSUME MessagesInv, TypeInv', ReadInv, TextInv, NEW v \in Steers, Steering(v)
    PROVE  ReadInv' /\ TextInv'
<1>1. TypeInv /\ SoundInv
  BY DEF MessagesInv
<1>2. Onward /\ history'.edits = history.edits /\ NobodyReads /\ log' = log
  BY <1>1, SteeringOnward, SteeringStores DEF NobodyReads, InDelivery
<1>3. pending \in Seq(Records) /\ Within(pending, pending)
  BY <1>1, StoreFacts DEF Within
<1>4. CASE Renumbered(pending', pending)
  BY <1>1, <1>2, <1>3, <1>4, SameQueue, EditsMoved
<1>5. CASE steer[v].pc = "Idle" /\ \E r \in Runs : AppendPending(v, SteerMode(r))
  <2>1. PICK r \in Runs : AppendPending(v, SteerMode(r))
    BY <1>5
  <2>2. PICK m : m = New(v, SteerMode(r))
    OBVIOUS
  <2>3. pending' = Append(pending, m) /\ m \in Records /\ m.id = v /\ m.text = 0
    BY <2>1, <2>2, ModeFacts, NewFacts DEF AppendPending
  <2>4. Arrives(m)
    BY <1>5, <2>3, ModeFacts DEF Arrives, Staged
  <2>5. PICK queue : queue = Append(pending, m)
    OBVIOUS
  <2>6. /\ queue \in Seq(Records)
        /\ DOMAIN queue = DOMAIN pending \cup {Len(pending) + 1}
        /\ \A i \in DOMAIN pending : queue[i] = pending[i]
        /\ queue[Len(pending) + 1] = m
    BY <1>3, <2>3, <2>5, AppendFacts
  <2>7. Arrivals(queue)
    BY <2>4, <2>6 DEF Arrivals
  <2>8. Renumbered(pending', queue) /\ InputsLogged(log', log, queue)
    BY <1>2, <2>3, <2>5 DEF Renumbered, Follows, InputsLogged
  <2> QED BY <1>1, <1>2, <2>6, <2>7, <2>8, EditsMoved
<1>6. UNCHANGED pending => Renumbered(pending', pending)
  BY <1>3, SameQueue
<1> QED BY <1>1, <1>4, <1>5, <1>6, SteeringStores

\* An update writes over the text that its client read.
LEMMA UpdateEdits ==
    ASSUME MessagesInv, PlaceInv, ReadInv, TextInv, NEW e \in Editors, EditorUpdates(e)
    PROVE  ReadInv' /\ TextInv'
<1>1. TypeInv /\ SoundInv
  BY DEF MessagesInv
<1>2. PICK m \in Range(editor[e].view) :
        /\ RevisionHolds(m)
        /\ pending' = [pending EXCEPT ![Position(pending, m.id)].text = m.text + 1,
                                      ![Position(pending, m.id)].rev = @ + 1]
        /\ history' = [history EXCEPT !.edits[m.id] = @ + 1]
  BY Zenon DEF EditorUpdates
<1>3. m \in Records /\ m.id \in Inputs
  BY <1>1, EditorFacts
<1>4. PICK p \in DOMAIN pending :
        /\ pending[p].id = m.id /\ pending[p].rev = m.rev
        /\ DOMAIN pending' = DOMAIN pending
        /\ \A i \in DOMAIN pending \ {p} : pending'[i] = pending[i]
        /\ pending'[p].id = m.id /\ pending'[p].text = m.text + 1 /\ pending'[p].rev = m.rev + 1
  BY <1>1, <1>2, <1>3, UpdateFacts
<1>5. editor[e].pc = "Edit" /\ Edited(e) /\ UNCHANGED InEdit
  BY Zenon DEF EditorUpdates
<1>6. UNCHANGED <<log, call, steer>>
  BY <1>5 DEF InEdit
<1>7. /\ Staged(m.id, history.ok, call, steer)
      /\ FellBack(m.id) \/ Names(m, pending[p])
  BY <1>4, <1>5 DEF ReadInv
<1>8. FellBack(m.id) \/ m.text = history.edits[m.id]
  BY <1>4, <1>7 DEF Names, TextInv, Carries, FellBack
<1>9. PICK h, n : h = history.edits /\ n = history.edits[m.id] + 1
  OBVIOUS
<1>10. /\ history'.ok = history.ok
       /\ history'.edits[m.id] = n
       /\ \A x \in Inputs \ {m.id} : history'.edits[x] = history.edits[x]
  <2>1. history' = [history EXCEPT !.edits[m.id] = n]
    BY <1>2, <1>9
  <2>2. history \in HistoryType
    BY <1>1 DEF TypeInv
  <2>3. history'.ok = history.ok /\ history'.edits = [h EXCEPT ![m.id] = n] /\ h \in [Inputs -> Nat]
    BY <1>9, <2>1, <2>2 DEF HistoryType
  <2> QED BY <1>3, <1>9, <2>3
<1>11. \A i \in DOMAIN pending : pending[i] \in Records /\ pending[i].id \in Inputs
  BY <1>1, StoreFacts
<1>12. \A i \in DOMAIN pending \ {p} : pending[i].id # m.id
  BY <1>1, <1>4, StoreFacts DEF Distinct
<1>13. \A d \in Editors : editor'[d].pc = "Edit" => editor'[d] = editor[d]
  <2>1. Editing(e) /\ ~(UNCHANGED history)
    <3>1. history.edits[m.id] \in Nat
      BY <1>1, <1>3 DEF TypeInv, HistoryType
    <3> QED BY <1>9, <1>10, <3>1 DEF Editing
  <2>2. /\ \A d \in Editors \ {e} : editor'[d] = editor[d]
        /\ editor'[e].pc = "Edit" => EditorReads(e)
    BY <1>1, <2>1, EditingMoves
  <2>3. ~EditorReads(e)
    BY <2>1, Zenon DEF EditorReads
  <2> QED BY <2>2, <2>3
<1>15. \A x : FellBack(x)' <=> FellBack(x)
  BY <1>6 DEF FellBack
<1>16. ReadInv'
  <2> SUFFICES ASSUME NEW d \in Editors, editor'[d].pc = "Edit", NEW seen \in Range(editor'[d].view)
               PROVE  /\ Staged(seen.id, history'.ok, call', steer')
                      /\ \A i \in DOMAIN pending' : FellBack(seen.id)' \/ Names(seen, pending'[i])
    BY DEF ReadInv
  <2>1. editor[d].pc = "Edit" /\ seen \in Range(editor[d].view)
    BY <1>13
  <2>2. /\ Staged(seen.id, history.ok, call, steer) /\ seen \in Records
        /\ \A i \in DOMAIN pending : FellBack(seen.id) \/ Names(seen, pending[i])
    BY <1>1, <2>1, EditorFacts DEF ReadInv
  <2>3. FellBack(seen.id) \/ Names(seen, pending'[p])
    <3>1. FellBack(seen.id) \/ Names(seen, pending[p])
      BY <2>2
    <3>2. seen.rev \in Nat /\ m.rev \in Nat
      BY <1>3, <2>2 DEF Records
    <3> QED BY <1>4, <3>1, <3>2 DEF Names
  <2>4. \A i \in DOMAIN pending' : FellBack(seen.id) \/ Names(seen, pending'[i])
    BY <1>4, <2>2, <2>3
  <2> QED BY <1>6, <1>10, <1>15, <2>2, <2>4
<1>17. ASSUME NEW i \in DOMAIN pending'
       PROVE  Carries(pending'[i], steer', history'.edits)
  <2>1. CASE i = p
    BY <1>4, <1>6, <1>8, <1>9, <1>10, <2>1 DEF Carries, FellBack
  <2>2. CASE i # p
    <3>1. i \in DOMAIN pending \ {p} /\ pending'[i] = pending[i]
      BY <1>4, <2>2
    <3>2. Carries(pending[i], steer, history.edits)
      BY <3>1 DEF TextInv
    <3>3. history'.edits[pending[i].id] = history.edits[pending[i].id]
      BY <1>10, <1>11, <1>12, <3>1
    <3> QED BY <1>6, <3>1, <3>2, <3>3 DEF Carries
  <2> QED BY <2>1, <2>2
<1>18. ASSUME NEW i \in DOMAIN log', log'[i].id \in Inputs
       PROVE  Carries(log'[i], steer', history'.edits)
  <2>1. log[i].id # m.id
    <3>1. m.id \in Waiting /\ Committed \cap Waiting = {}
      BY <1>2 DEF RevisionHolds, PlaceInv
    <3>2. log[i].id \in Committed
      BY <1>6, <1>18 DEF Committed, Ids
    <3> QED BY <3>1, <3>2
  <2>2. Carries(log[i], steer, history.edits)
    BY <1>6, <1>18 DEF TextInv
  <2> QED BY <1>6, <1>10, <1>18, <2>1, <2>2 DEF Carries
<1>19. \A x \in Inputs : ~Staged(x, history'.ok, call', steer') => history'.edits[x] = 0
  BY <1>6, <1>7, <1>10 DEF TextInv
<1> QED BY <1>16, <1>17, <1>18, <1>19 DEF TextInv

LEMMA EditingEdits ==
    ASSUME MessagesInv, TypeInv', PlaceInv, ReadInv, TextInv, NEW e \in Editors, Editing(e)
    PROVE  ReadInv' /\ TextInv'
<1>1. TypeInv /\ SoundInv /\ UntriedInv
  BY DEF MessagesInv, TargetInv
<1>2. UNCHANGED <<log, call, steer>> /\ history'.ok = history.ok
  BY <1>1, EditingStores DEF InEdit
<1>3. Onward
  BY <1>2 DEF Onward
<1>4. CASE EditorReads(e)
  <2>1. UNCHANGED <<pending, history>>
    BY <1>4, Zenon DEF EditorReads
  <2>2. TextInv'
    BY <1>2, <2>1 DEF TextInv
  <2> SUFFICES ASSUME NEW d \in Editors, editor'[d].pc = "Edit", NEW seen \in Range(editor'[d].view)
               PROVE  /\ Staged(seen.id, history'.ok, call', steer')
                      /\ \A i \in DOMAIN pending' : FellBack(seen.id)' \/ Names(seen, pending'[i])
    BY <2>2 DEF ReadInv
  <2>3. CASE d # e
    <3>1. editor'[d] = editor[d]
      BY <1>1, <2>3, EditingMoves
    <3> QED BY <1>2, <2>1, <3>1 DEF ReadInv, FellBack
  <2>4. CASE d = e
    <3>1. PICK k \in DOMAIN pending : seen = pending[k]
      BY <1>1, <2>4, EditingMoves DEF Range
    <3>2. seen.id \in Held
      BY <3>1 DEF Held, Waiting, Ids
    <3>3. Staged(seen.id, history.ok, call, steer)
      BY <1>1, <3>2, HeldStaged
    <3>4. seen \in Records
      BY <1>1, <3>1, StoreFacts
    <3>5. \A i \in DOMAIN pending : Names(seen, pending[i])
      <4>1. seen.rev \in Nat
        BY <3>4 DEF Records
      <4>2. ASSUME NEW i \in DOMAIN pending, seen.id = pending[i].id PROVE seen = pending[i]
        BY <1>1, <3>1, <4>2, StoreFacts DEF Distinct
      <4> QED BY <4>1, <4>2 DEF Names
    <3> QED BY <1>2, <2>1, <3>3, <3>5
  <2> QED BY <2>3, <2>4
<1>5. CASE EditorUpdates(e)
  BY <1>5, UpdateEdits
<1>6. CASE ~EditorReads(e) /\ ~EditorUpdates(e)
  <2>1. NobodyReads
    BY <1>1, <1>6, EditingMoves DEF NobodyReads
  <2>2. Renumbered(pending', pending) /\ history'.edits = history.edits
    BY <1>1, <1>6, EditingStores
  <2>3. pending \in Seq(Records) /\ InputsLogged(log', log, pending)
    BY <1>1, <1>2, StoreFacts, SameQueue
  <2> QED BY <1>1, <1>3, <2>1, <2>2, <2>3, SameQueue, EditsMoved
<1> QED BY <1>4, <1>5, <1>6

LEMMA InitEdits == Init => EditInv
<1> SUFFICES ASSUME Init PROVE ReadInv /\ TextInv
  BY DEF EditInv
<1>1. log = << >> /\ pending = << >> /\ \A e \in Editors : editor[e].pc = "Idle"
  BY DEF Init
<1>2. \A m \in Inputs : history.edits[m] = 0
  BY DEF Init
<1> QED BY <1>1, <1>2 DEF ReadInv, TextInv

LEMMA NextEdits == MessagesInv /\ EditInv /\ [Next]_vars => EditInv'
<1> SUFFICES ASSUME MessagesInv, EditInv, [Next]_vars, backend' = "postgres"
             PROVE  ReadInv' /\ TextInv'
  BY DEF EditInv
<1>1. TypeInv /\ SoundInv /\ TypeInv'
  <2>1. MessagesInv'
    BY NextMessages
  <2> QED BY <2>1 DEF MessagesInv
<1>2. backend = "postgres"
  <2>1. ASSUME NEW r \in Runs, Submission(r) PROVE backend' = backend
    BY <1>1, <2>1, SubmissionStores DEF InCall
  <2>2. ASSUME NEW r \in Runs, AgentLoop(r) PROVE backend' = backend
    BY <1>1, <2>2, AgentLoopStores DEF InLoop
  <2>3. ASSUME NEW v \in Steers, Steering(v) PROVE backend' = backend
    BY <1>1, <2>3, SteeringStores DEF InDelivery
  <2>4. ASSUME NEW x \in Extras, Deliver(x) PROVE backend' = backend
    BY <2>4 DEF Deliver, InDelivery
  <2>5. ASSUME NEW e \in Editors, Editing(e) PROVE backend' = backend
    BY <1>1, <2>5, EditingStores DEF InEdit
  <2>6. UNCHANGED vars => backend' = backend
    BY DEF vars
  <2> QED BY <2>1, <2>2, <2>3, <2>4, <2>5, <2>6, Zenon DEF Next
<1>3. ReadInv /\ TextInv /\ PlaceInv
  BY <1>2 DEF EditInv, MessagesInv, PostgresInv
<1>4. ASSUME NEW r \in Runs, Submission(r) PROVE ReadInv' /\ TextInv'
  BY <1>1, <1>2, <1>3, <1>4, SubmissionEdits
<1>5. ASSUME NEW r \in Runs, AgentLoop(r) PROVE ReadInv' /\ TextInv'
  BY <1>1, <1>2, <1>3, <1>5, AgentLoopEdits
<1>6. ASSUME NEW v \in Steers, Steering(v) PROVE ReadInv' /\ TextInv'
  BY <1>1, <1>3, <1>6, SteeringEdits
<1>7. ASSUME NEW x \in Extras, Deliver(x) PROVE ReadInv' /\ TextInv'
  BY <1>1, <1>3, <1>7, DeliverEdits
<1>8. ASSUME NEW e \in Editors, Editing(e) PROVE ReadInv' /\ TextInv'
  BY <1>1, <1>3, <1>8, EditingEdits
<1>9. CASE UNCHANGED vars
  BY <1>3, <1>9 DEF vars, ReadInv, TextInv, FellBack
<1> QED BY <1>4, <1>5, <1>6, <1>7, <1>8, <1>9, Zenon DEF Next

\* The texts of a Postgres thread carry every update that succeeded.
THEOREM NoEditLost == Spec => []NoLostEdit
<1>1. MessagesInv /\ EditInv => NoLostEdit
  <2> SUFFICES ASSUME MessagesInv, EditInv, backend = "postgres",
                      NEW m \in Range(log) \cup Range(pending), m.id \in Inputs, ~FellBack(m.id)
               PROVE  m.text = history.edits[m.id]
    BY DEF NoLostEdit
  <2>1. TextInv
    BY DEF EditInv
  <2>2. CASE m \in Range(log)
    <3>1. PICK i \in DOMAIN log : m = log[i]
      BY <2>2 DEF Range
    <3> QED BY <2>1, <3>1 DEF TextInv, Carries, FellBack
  <2>3. CASE m \in Range(pending)
    <3>1. PICK i \in DOMAIN pending : m = pending[i]
      BY <2>3 DEF Range
    <3> QED BY <2>1, <3>1 DEF TextInv, Carries, FellBack
  <2> QED BY <2>2, <2>3
<1>2. Spec => [](MessagesInv /\ EditInv)
  BY InitMessages, InitEdits, NextMessages, NextEdits, PTL DEF Spec
<1> QED BY <1>1, <1>2, PTL

=============================================================================
