------------------------ MODULE BufferedThreadProofs ------------------------
(***************************************************************************)
(* Theorems about BufferedThread, for every set of writers and flushers,   *)
(* every bound and, where not said otherwise, leases that lapse at any     *)
(* write of any process.                                                   *)
(***************************************************************************)
EXTENDS BufferedThread, FiniteSetTheorems, WellFoundedInduction, TLAPS

-----------------------------------------------------------------------------
(* Finite sets of sequence numbers.                                        *)

\* Every non-empty set of naturals has a least element: what Min picks.
LEMMA MinIs ==
    ASSUME NEW T, T \subseteq Nat, T # {}
    PROVE  Min(T) \in T /\ \A x \in T : Min(T) <= x
<1> DEFINE R == OpToRel(<, Nat)
<1>1. IsWellFoundedOn(R, Nat)
  BY NatLessThanWellFounded, Zenon
<1>2. \A m, n \in Nat : m < n => <<m, n>> \in R
  BY DEF OpToRel
<1> HIDE DEF R
<1>3. PICK x \in T : \A y \in T : ~ (<<y, x>> \in R)
  BY <1>1, WFMin
<1>4. ASSUME NEW y \in T PROVE x <= y
  <2>1. x \in Nat /\ y \in Nat
    OBVIOUS
  <2>2. ~(y < x)
    BY <1>2, <1>3, <2>1
  <2> QED BY <2>1, <2>2
<1>5. \E m \in T : \A y \in T : m =< y
  BY <1>4
<1>6. QED
  BY <1>5 DEF Min

\* A bounded non-empty set of naturals has a greatest element: what Max picks.
LEMMA MaxIs ==
    ASSUME NEW T, T \subseteq Nat, T # {}, NEW b \in Nat, \A x \in T : x <= b
    PROVE  Max(T) \in T /\ \A x \in T : x <= Max(T)
<1> DEFINE U == {b - x : x \in T}
<1>1. U \subseteq Nat /\ U # {}
  <2>1. ASSUME NEW x \in T PROVE b - x \in Nat
    <3>1. x \in Nat /\ x <= b
      OBVIOUS
    <3> QED BY <3>1
  <2>2. PICK x \in T : TRUE
    OBVIOUS
  <2> QED BY <2>1, <2>2
<1>2. Min(U) \in U /\ \A u \in U : Min(U) <= u
  <2> HIDE DEF U
  <2> QED BY <1>1, MinIs
<1>3. PICK t \in T : Min(U) = b - t
  BY <1>2
<1>4. \A x \in T : t >= x
  <2>1. ASSUME NEW x \in T PROVE t >= x
    <3>1. b - x \in U
      OBVIOUS
    <3>2. b - t <= b - x
      BY <1>2, <1>3, <3>1
    <3>3. x \in Nat /\ t \in Nat
      OBVIOUS
    <3> QED BY <3>2, <3>3
  <2> QED BY <2>1
<1>5. \E m \in T : \A x \in T : m >= x
  BY <1>4
<1>6. Max(T) \in T /\ \A x \in T : Max(T) >= x
  BY <1>5 DEF Max
<1>7. Max(T) \in Nat
  BY <1>6
<1> QED BY <1>6, <1>7

\* The greater of two numbers.
LEMMA MaxOfTwo ==
    ASSUME NEW a \in Nat, NEW b \in Nat
    PROVE  Max({a, b}) = IF a >= b THEN a ELSE b
<1>1. /\ Max({a, b}) \in {a, b} /\ \A x \in {a, b} : x <= Max({a, b})
  <2>1. \A x \in {a, b} : x <= a + b
    OBVIOUS
  <2>2. {a, b} \subseteq Nat /\ {a, b} # {} /\ a + b \in Nat
    OBVIOUS
  <2> QED BY <2>1, <2>2, MaxIs
<1> QED BY <1>1

-----------------------------------------------------------------------------
(* The invariant of the log: what holds whatever leases do.                *)

WriterStage == {"Idle", "Overlaid", "Reserved", "Prepared", "Published", "Committed",
                "Cached", "Abort", "ReleaseOk", "ReleaseErr", "ReleaseUnknown", "ReleaseUnsure",
                "Ok", "Err", "Unknown", "Unsure", "Dead"}

FlusherStage == {"Idle", "Acquire", "Classify", "Run", "Thread", "Messages", "Promote",
                 "Mark", "Finish"}

DeleterStage == {"Idle", "Wait", "Claim", "WaitClaimed", "Delete", "Tombstone",
                 "MarkFlushed", "Clear", "Cleared", "Release", "Err", "Done", "Dead"}

ReaderStage == {"Idle", "Mark", "Inner", "Wal", "Done", "Missed"}

MetaType == [reserved : Nat, latest : Nat, latestJs : Nat]

WalType == [status : {"None", "Prepared", "Committed", "Aborted"},
            token : Writers \cup {Nobody}, js : Nat]

EntryType == [seq : Seqs, run : Runs]

InnerType == [thread : Nat, messages : Nat, runs : [Runs -> Nat]]

WriterType == [pc : WriterStage, seq : Nat, js : Nat, late : BOOLEAN]

FlusherType == [pc : FlusherStage, todo : SUBSET Nat, good : SUBSET Nat, drop : SUBSET Nat,
                runs : SUBSET Seqs, at : Nat, latest : Nat, late : BOOLEAN]

ReaderType == [pc : ReaderStage, floor : Nat, latest : Nat, js : Nat, got : Nat]

HierarchyType == [token : Writers \cup {Deleter, Nobody}, live : BOOLEAN]

FlushingType == [token : Flushers \cup {Nobody}, live : BOOLEAN]

DeleterType == [pc : DeleterStage, target : Nat]

KnownType == [ok : Nat, erased : Nat]

ClaimTypes == hierarchy \in HierarchyType /\ flushing \in FlushingType

StoreTypes ==
    /\ meta \in MetaType
    /\ flushed \in Nat
    /\ wal \in [Seqs -> WalType]
    /\ stream \in Seq(EntryType)
    /\ acked \subseteq DOMAIN stream
    /\ cache \in [Runs -> Nat]
    /\ inner \in InnerType
    /\ committed \in Seq(Seqs)

FlusherTypes ==
    /\ flusher \in [Flushers -> FlusherType]
    /\ \A f \in Flushers :
          flusher[f].todo \cup flusher[f].good \cup flusher[f].drop \subseteq DOMAIN stream

TypeInv ==
    /\ ClaimTypes /\ StoreTypes /\ FlusherTypes
    /\ writer \in [Writers -> WriterType]
    /\ deleter \in DeleterType
    /\ reader \in ReaderType
    /\ known \in KnownType
    /\ troubles \in Nat

Commits == Range(committed)

\* The writers that have reserved a sequence number.
Numbered == {w \in Writers : writer[w].seq # 0}

Unpublished == {"Idle", "Overlaid", "Reserved", "Prepared"}

MayBeUnnumbered == {"Idle", "Overlaid", "ReleaseErr", "Err", "Dead"}

\* Sequence numbers are counted up, one for each writer that has one.
CountInv ==
    /\ meta.reserved <= Cardinality(Numbered)
    /\ meta.latest <= meta.reserved /\ flushed <= meta.reserved
    /\ deleter.target <= meta.reserved
    /\ \A r \in Runs : cache[r] <= meta.reserved
    /\ \A w \in Writers :
          /\ writer[w].seq <= meta.reserved
          /\ writer[w].pc \in {"Idle", "Overlaid"} => writer[w].seq = 0
          /\ writer[w].pc \notin MayBeUnnumbered => writer[w].seq # 0
    /\ \A w, v \in Writers : writer[w].seq = writer[v].seq /\ writer[w].seq # 0 => w = v

\* Entry n of the log is the one of sequence number s.
EntryOf(n, s) == n \in DOMAIN stream /\ stream[n].seq = s

\* A writer publishes its one number once.
StreamInv ==
    /\ \A n \in DOMAIN stream : \E w \in Writers :
          /\ writer[w].seq = stream[n].seq /\ RunOf[w] = stream[n].run
          /\ writer[w].pc \notin Unpublished
    /\ SequenceNeverReused
    /\ \A w \in Writers : writer[w].pc \in {"Published", "Committed", "Cached"} =>
          EntryOf(writer[w].js, writer[w].seq)

Kept == {"Committed", "Cached", "ReleaseOk", "ReleaseUnknown", "ReleaseUnsure", "Ok",
         "Unknown", "Unsure"}

\* A writer before its commit, or on the way to an error, has committed nothing.
WriterOrigin == \A w \in Writers :
    /\ writer[w].pc \in Kept => writer[w].seq \in Commits
    /\ writer[w].pc \notin Kept \cup {"Dead"} => writer[w].seq \notin Commits

\* What is stored, shown or promised was committed.
WalOrigin == \A s \in Seqs :
    /\ wal[s].status = "Committed" => s \in Commits /\ EntryOf(wal[s].js, s)
    /\ wal[s].js # 0 => wal[s].js \in DOMAIN stream

MetaOrigin == meta.latestJs # 0 => meta.latest \in Commits /\ EntryOf(meta.latestJs, meta.latest)

ReaderOrigin ==
    /\ reader.js # 0 => reader.latest \in Commits /\ EntryOf(reader.js, reader.latest)
    /\ reader.got \in {0} \cup Commits

InnerOrigin ==
    /\ {inner.thread, inner.messages} \subseteq {0} \cup Commits
    /\ \A r \in Runs : inner.runs[r] \in {0} \cup Commits

OriginInv ==
    /\ \A s \in Commits : s <= meta.reserved
    /\ WriterOrigin /\ WalOrigin /\ MetaOrigin /\ ReaderOrigin /\ InnerOrigin
    /\ known.ok \in {0} \cup Commits

\* The sequence numbers of the entries a flusher writes.
Batch(f) == {stream[m].seq : m \in flusher[f].good}

\* A flusher writes what is committed, and has something to write.
BatchInv ==
    \A f \in Flushers :
       /\ Batch(f) \subseteq Commits
       /\ flusher[f].pc = "Run" => flusher[f].runs # {} /\ flusher[f].runs \subseteq Batch(f)
       /\ flusher[f].pc \in Guarded => flusher[f].good # {}

StoreInv == TypeInv /\ CountInv /\ StreamInv /\ OriginInv /\ BatchInv

-----------------------------------------------------------------------------
(* Facts about the operators of the module.                                *)

\* No more numbers are reserved than there are writers.
LEMMA Bounds ==
    ASSUME TypeInv, CountInv
    PROVE  /\ MaxSeq \in Nat /\ IsFiniteSet(Numbered) /\ Cardinality(Numbered) \in Nat
           /\ Cardinality(Numbered) <= MaxSeq /\ meta.reserved \in Nat
           /\ meta.reserved <= MaxSeq
           /\ \A w \in Writers : writer[w].seq # 0 => writer[w].seq \in Seqs
<1>1. MaxSeq \in Nat
  BY BufferedAssumption, FS_CardinalityType DEF MaxSeq
<1>2. IsFiniteSet(Numbered) /\ Cardinality(Numbered) <= MaxSeq
  BY BufferedAssumption, FS_Subset DEF Numbered, MaxSeq
<1>3. Cardinality(Numbered) \in Nat
  BY <1>2, FS_CardinalityType
<1>4. meta.reserved \in Nat /\ meta.reserved <= Cardinality(Numbered)
  BY DEF TypeInv, StoreTypes, MetaType, CountInv
<1>5. meta.reserved <= MaxSeq
  BY <1>1, <1>2, <1>3, <1>4
<1>6. ASSUME NEW w \in Writers, writer[w].seq # 0 PROVE writer[w].seq \in Seqs
  <2>1. writer[w].seq \in Nat /\ writer[w].seq <= meta.reserved
    BY DEF TypeInv, WriterType, CountInv
  <2> QED BY <1>1, <1>4, <1>5, <1>6, <2>1 DEF Seqs
<1> QED BY <1>1, <1>2, <1>3, <1>4, <1>5, <1>6

\* The next number is still within the bounds when a writer without one takes it.
LEMMA NextNumber ==
    ASSUME TypeInv, CountInv, NEW w \in Writers, writer[w].seq = 0
    PROVE  /\ w \notin Numbered
           /\ Cardinality(Numbered \cup {w}) = Cardinality(Numbered) + 1
           /\ meta.reserved + 1 \in Seqs
<1>1. w \notin Numbered
  BY DEF Numbered
<1>2. Cardinality(Numbered \cup {w}) = Cardinality(Numbered) + 1
  BY <1>1, Bounds, FS_AddElement
<1>3. Cardinality(Numbered \cup {w}) <= MaxSeq
  <2>1. Numbered \cup {w} \subseteq Writers
    BY DEF Numbered
  <2> QED BY <2>1, BufferedAssumption, FS_Subset DEF MaxSeq
<1>4. meta.reserved + 1 <= MaxSeq
  <2>1. meta.reserved <= Cardinality(Numbered)
    BY DEF CountInv
  <2> HIDE DEF Numbered
  <2> QED BY <2>1, <1>2, <1>3, Bounds
<1>5. meta.reserved \in Nat /\ MaxSeq \in Nat
  BY Bounds
<1> QED BY <1>1, <1>2, <1>4, <1>5 DEF Seqs

\* Committed numbers, and those in the log.
LEMMA CommitFacts ==
    ASSUME StoreInv
    PROVE  /\ Commits \subseteq Seqs /\ Seqs \subseteq Nat /\ 0 \notin Seqs
           /\ \A s \in Commits : s <= meta.reserved
           /\ \A n \in DOMAIN stream : stream[n] \in EntryType /\ n \in Nat /\ n # 0
<1>1. Commits \subseteq Seqs
  BY DEF StoreInv, TypeInv, StoreTypes, Commits, Range
<1>2. Seqs \subseteq Nat /\ 0 \notin Seqs
  BY Bounds DEF Seqs, StoreInv
<1>3. \A s \in Commits : s <= meta.reserved
  BY DEF StoreInv, OriginInv
<1>4. \A n \in DOMAIN stream : stream[n] \in EntryType /\ n \in Nat /\ n # 0
  BY DEF StoreInv, TypeInv, StoreTypes
<1> QED BY <1>1, <1>2, <1>3, <1>4

\* The batch of a flusher, its highest entry and where that is in the log.
LEMMA TopIs ==
    ASSUME StoreInv, NEW f \in Flushers
    PROVE  /\ flusher[f].good \subseteq DOMAIN stream
           /\ Batch(f) \subseteq Commits /\ Batch(f) \subseteq Seqs
           /\ \A m \in flusher[f].good : stream[m].seq \in Batch(f)
           /\ flusher[f].good # {} =>
                /\ TopSeq(f) \in Batch(f) /\ TopSeq(f) \in Nat /\ TopSeq(f) # 0
                /\ \A s \in Batch(f) : s <= TopSeq(f)
                /\ EntryOf(TopJs(f), TopSeq(f)) /\ TopJs(f) \in Nat /\ TopJs(f) # 0
<1>1. flusher[f].good \subseteq DOMAIN stream
  BY DEF StoreInv, TypeInv, FlusherTypes
<1>2. Batch(f) \subseteq Commits /\ Batch(f) \subseteq Seqs
  BY CommitFacts DEF StoreInv, BatchInv
<1>3. \A m \in flusher[f].good : stream[m].seq \in Batch(f)
  BY DEF Batch
<1>4. ASSUME flusher[f].good # {}
      PROVE  /\ TopSeq(f) \in Batch(f) /\ TopSeq(f) \in Nat /\ TopSeq(f) # 0
             /\ \A s \in Batch(f) : s <= TopSeq(f)
             /\ EntryOf(TopJs(f), TopSeq(f)) /\ TopJs(f) \in Nat /\ TopJs(f) # 0
  <2>1. TopSeq(f) = Max(Batch(f))
    BY DEF TopSeq, Batch
  <2>2. Batch(f) \subseteq Nat /\ Batch(f) # {}
    BY <1>2, <1>3, <1>4, CommitFacts
  <2>3. MaxSeq \in Nat /\ \A s \in Batch(f) : s <= MaxSeq
    BY <1>2, Bounds DEF Seqs, StoreInv
  <2>4. TopSeq(f) \in Batch(f) /\ \A s \in Batch(f) : s <= TopSeq(f)
    <3> HIDE DEF MaxSeq
    <3> QED BY <2>1, <2>2, <2>3, MaxIs
  <2>5. \E m \in flusher[f].good : stream[m].seq = TopSeq(f)
    BY <2>4 DEF Batch
  <2>6. TopJs(f) \in flusher[f].good /\ stream[TopJs(f)].seq = TopSeq(f)
    BY <2>5 DEF TopJs
  <2>7. TopSeq(f) \in Nat /\ TopSeq(f) # 0
    BY <2>4, <1>2, CommitFacts
  <2>8. TopJs(f) \in Nat /\ TopJs(f) # 0
    BY <2>6, <1>1, CommitFacts
  <2> QED BY <2>4, <2>6, <2>7, <2>8, <1>1 DEF EntryOf
<1> QED BY <1>1, <1>2, <1>3, <1>4

\* The run of a sequence number is that of its one entry.
LEMMA RunAtIs ==
    ASSUME StoreInv, NEW n \in DOMAIN stream
    PROVE  RunAt(stream[n].seq) = stream[n].run /\ stream[n].run \in Runs
<1>1. \A m \in DOMAIN stream : stream[m].seq = stream[n].seq => m = n
  BY DEF StoreInv, StreamInv, SequenceNeverReused
<1>2. (CHOOSE m \in DOMAIN stream : stream[m].seq = stream[n].seq) = n
  BY <1>1
<1>3. stream[n].run \in Runs
  BY CommitFacts DEF EntryType
<1> QED BY <1>2, <1>3 DEF RunAt

\* The highest entry of each run of a batch.
LEMMA RunSeqsIs ==
    ASSUME StoreInv, NEW f \in Flushers
    PROVE  LET S == RunSeqs(flusher[f].good)
           IN  /\ S \subseteq Batch(f)
               /\ \A m \in flusher[f].good : \E n \in flusher[f].good :
                     /\ stream[n].seq \in S /\ stream[n].run = stream[m].run
                     /\ stream[m].seq <= stream[n].seq
<1> DEFINE Of(m) == {stream[n].seq : n \in {g \in flusher[f].good : stream[g].run = stream[m].run}}
<1>1. ASSUME NEW m \in flusher[f].good
      PROVE  \E n \in flusher[f].good :
                /\ stream[n].seq = Max(Of(m)) /\ stream[n].run = stream[m].run
                /\ stream[m].seq <= stream[n].seq
  <2>1. Of(m) \subseteq Batch(f) /\ stream[m].seq \in Of(m)
    BY <1>1 DEF Batch
  <2>2. Of(m) \subseteq Nat /\ Of(m) # {} /\ MaxSeq \in Nat /\ \A s \in Of(m) : s <= MaxSeq
    BY <2>1, TopIs, CommitFacts, Bounds DEF Seqs, StoreInv
  <2>3. \A n : n \in Of(m) => \E k \in flusher[f].good : stream[k].seq = n /\ stream[k].run = stream[m].run
    OBVIOUS
  <2> HIDE DEF Of
  <2>4. Max(Of(m)) \in Of(m) /\ \A s \in Of(m) : s <= Max(Of(m))
    <3> HIDE DEF MaxSeq
    <3> QED BY <2>2, MaxIs
  <2> QED BY <2>1, <2>3, <2>4
<1>2. RunSeqs(flusher[f].good) = {Max(Of(m)) : m \in flusher[f].good}
  BY DEF RunSeqs
<1> HIDE DEF Of
<1>3. RunSeqs(flusher[f].good) \subseteq Batch(f)
  BY <1>1, <1>2 DEF Batch
<1> QED BY <1>1, <1>2, <1>3

\* Settling an entry aborts it if it is prepared and its claim is lost, and
\* leaves every other entry alone.
SettledTo(before, after) ==
    \/ after = before
    \/ /\ before.status = "Prepared" /\ ~Current(hierarchy, before.token)
       /\ after = [before EXCEPT !.status = "Aborted"]

\* Settling one entry touches that entry only, and aborts it when its writer's claim is gone.
LEMMA SettleIs ==
    ASSUME wal \in [Seqs -> WalType], NEW s \in Seqs
    PROVE  /\ Settle(wal, s) \in [Seqs -> WalType]
           /\ \A r \in Seqs : SettledTo(wal[r], Settle(wal, s)[r])
           /\ wal[s].status = "Prepared" /\ ~Current(hierarchy, wal[s].token) =>
                Settle(wal, s)[s].status = "Aborted"
<1>1. wal[s] \in WalType /\ [wal[s] EXCEPT !.status = "Aborted"] \in WalType
  BY DEF WalType
<1>2. [wal EXCEPT ![s].status = "Aborted"] = [wal EXCEPT ![s] = [wal[s] EXCEPT !.status = "Aborted"]]
  OBVIOUS
<1>3. CASE wal[s].status = "Prepared" /\ ~Current(hierarchy, wal[s].token)
  <2>1. Settle(wal, s) = [wal EXCEPT ![s] = [wal[s] EXCEPT !.status = "Aborted"]]
    BY <1>2, <1>3 DEF Settle
  <2> DEFINE a == [wal[s] EXCEPT !.status = "Aborted"]
  <2>2. a.status = "Aborted" /\ a \in WalType
    BY <1>1 DEF WalType
  <2>3. SettledTo(wal[s], a)
    BY <1>3 DEF SettledTo
  <2> HIDE DEF a
  <2>4. Settle(wal, s)[s] = a /\ \A r \in Seqs : r # s => Settle(wal, s)[r] = wal[r]
    BY <2>1 DEF a
  <2>5. Settle(wal, s) \in [Seqs -> WalType]
    BY <2>1, <2>2 DEF a
  <2> QED BY <2>2, <2>3, <2>4, <2>5 DEF SettledTo
<1>4. CASE ~(wal[s].status = "Prepared" /\ ~Current(hierarchy, wal[s].token))
  BY <1>4 DEF Settle, SettledTo
<1> QED BY <1>3, <1>4

\* Settling every entry commits none: it only aborts those whose writer's claim is gone.
LEMMA SettleAllIs ==
    ASSUME wal \in [Seqs -> WalType]
    PROVE  /\ SettleAll \in [Seqs -> WalType]
           /\ \A s \in Seqs :
                 /\ SettledTo(wal[s], SettleAll[s])
                 /\ wal[s].status = "Prepared" /\ ~Current(hierarchy, wal[s].token) =>
                       SettleAll[s].status = "Aborted"
                 /\ SettleAll[s].status = "Committed" <=> wal[s].status = "Committed"
<1>1. ASSUME NEW s \in Seqs
      PROVE  /\ SettleAll[s] \in WalType /\ SettledTo(wal[s], SettleAll[s])
             /\ wal[s].status = "Prepared" /\ ~Current(hierarchy, wal[s].token) =>
                   SettleAll[s].status = "Aborted"
  <2>1. SettleAll[s] = Settle(wal, s)[s]
    BY DEF SettleAll
  <2> QED BY <2>1, SettleIs
<1>2. SettleAll = [s \in Seqs |-> SettleAll[s]]
  BY DEF SettleAll
<1>3. SettleAll \in [Seqs -> WalType]
  BY <1>1, <1>2
<1>4. ASSUME NEW s \in Seqs
      PROVE  SettleAll[s].status = "Committed" <=> wal[s].status = "Committed"
  <2>1. wal[s] \in WalType
    OBVIOUS
  <2>2. [wal[s] EXCEPT !.status = "Aborted"].status = "Aborted"
    BY <2>1 DEF WalType
  <2> QED BY <1>1, <2>2 DEF SettledTo
<1> QED BY <1>1, <1>3, <1>4

\* What reconciling the tail does: it settles every entry, and catches the
\* metadata up with the highest committed entry, if that is ahead.
CatchesUp(top) ==
    /\ top \in Seqs /\ wal[top].status = "Committed" /\ top > meta.latest
    /\ \A s \in Seqs : wal[s].status = "Committed" => s <= top
    /\ meta' = [reserved |-> meta.reserved, latest |-> top, latestJs |-> wal[top].js]

\* Reconciling the tail settles every entry, and catches the metadata up at most.
LEMMA ReconcileIs ==
    ASSUME StoreInv, Reconcile
    PROVE  /\ wal' \in [Seqs -> WalType] /\ flushed' = flushed
           /\ \A s \in Seqs :
                 /\ SettledTo(wal[s], wal'[s])
                 /\ wal[s].status = "Prepared" /\ ~Current(hierarchy, wal[s].token) =>
                       wal'[s].status = "Aborted"
           /\ \/ /\ meta' = meta
                 /\ \A s \in Seqs : wal[s].status = "Committed" => s <= meta.latest
              \/ \E top \in Seqs : CatchesUp(top)
           /\ cache' \in [Runs -> Nat] /\ \A r \in Runs : cache'[r] <= meta.reserved
<1> DEFINE tail == {s \in Committed(SettleAll) : s > meta.latest}
           top == Max(tail)
           caught(r) == {cache[r]} \cup {s \in tail : stream[wal[s].js].run = r}
<1>0. /\ wal \in [Seqs -> WalType] /\ meta \in MetaType /\ cache \in [Runs -> Nat]
      /\ meta.reserved \in Nat /\ meta.latest \in Nat
      /\ \A r \in Runs : cache[r] \in Nat /\ cache[r] <= meta.reserved
  BY DEF StoreInv, TypeInv, StoreTypes, MetaType, CountInv
<1>1. /\ wal' = SettleAll /\ flushed' = flushed
      /\ tail = {} => meta' = meta /\ cache' = cache
      /\ tail # {} => /\ meta' = Promote(meta, top, wal[top].js)
                      /\ cache' = [r \in Runs |-> Max(caught(r))]
  BY DEF Reconcile
<1>2. tail = {s \in Seqs : wal[s].status = "Committed" /\ s > meta.latest}
  BY <1>0, SettleAllIs DEF Committed
<1>3. \A s \in tail : s \in Commits /\ s \in Nat /\ s <= meta.reserved
  BY <1>2, CommitFacts DEF StoreInv, OriginInv, WalOrigin
<1>4. wal' \in [Seqs -> WalType]
      /\ \A s \in Seqs :
            /\ SettledTo(wal[s], wal'[s])
            /\ wal[s].status = "Prepared" /\ ~Current(hierarchy, wal[s].token) =>
                  wal'[s].status = "Aborted"
  BY <1>0, <1>1, SettleAllIs
<1>5. CASE tail = {}
  <2>1. ASSUME NEW s \in Seqs, wal[s].status = "Committed" PROVE s <= meta.latest
    BY <1>0, <1>2, <1>5, <2>1, CommitFacts
  <2>2. meta' = meta /\ cache' = cache
    BY <1>1, <1>5
  <2> QED BY <1>0, <1>1, <1>4, <2>1, <2>2
<1>6. CASE tail # {}
  <2> HIDE DEF tail
  <2>1. tail \subseteq Nat
    BY <1>3
  <2>2. top \in tail /\ \A s \in tail : s <= top
    BY <2>1, <1>0, <1>3, <1>6, MaxIs
  <2>3. top \in Seqs /\ wal[top].status = "Committed" /\ top > meta.latest /\ top \in Nat
        /\ top <= meta.reserved
    BY <2>2, <1>2, <1>3
  <2>4. ASSUME NEW s \in Seqs, wal[s].status = "Committed" PROVE s <= top
    <3>1. CASE s > meta.latest
      BY <3>1, <2>2, <2>4, <1>2
    <3>2. CASE ~(s > meta.latest)
      BY <3>2, <2>3, <1>0, CommitFacts
    <3> QED BY <3>1, <3>2
  <2>5. meta' = [reserved |-> meta.reserved, latest |-> top, latestJs |-> wal[top].js]
    <3>1. Max({meta.reserved, top}) = meta.reserved
      BY <1>0, <2>3, MaxOfTwo
    <3>2. ~(meta.latest >= top)
      BY <1>0, <2>3
    <3> QED BY <1>1, <1>6, <3>1, <3>2 DEF Promote
  <2>6. ASSUME NEW r \in Runs PROVE Max(caught(r)) \in Nat /\ Max(caught(r)) <= meta.reserved
    <3>1. caught(r) \subseteq Nat /\ caught(r) # {} /\ \A s \in caught(r) : s <= meta.reserved
      BY <1>0, <1>3
    <3> HIDE DEF caught
    <3>2. Max(caught(r)) \in caught(r)
      BY <3>1, <1>0, MaxIs
    <3> QED BY <3>1, <3>2
  <2>7. cache' \in [Runs -> Nat] /\ \A r \in Runs : cache'[r] <= meta.reserved
    <3> HIDE DEF caught
    <3> QED BY <1>1, <1>6, <2>6
  <2>8. CatchesUp(top)
    BY <2>3, <2>4, <2>5 DEF CatchesUp
  <2> QED BY <1>1, <1>4, <2>3, <2>7, <2>8
<1> QED BY <1>5, <1>6

\* A writer's step that moves its program counter only.
Moved(w, to) ==
    /\ writer' \in [Writers -> WriterType]
    /\ writer'[w].pc = to /\ ~writer'[w].late
    /\ writer'[w].seq = writer[w].seq /\ writer'[w].js = writer[w].js
    /\ \A v \in Writers : v # w => writer'[v] = writer[v]

\* A step that moves a writer's program counter leaves its number and its entry alone.
LEMMA GotoIs ==
    ASSUME TypeInv, NEW w \in Writers, NEW from, NEW to \in WriterStage, Goto(w, from, to)
    PROVE  writer[w].pc = from /\ Moved(w, to)
<1>1. writer \in [Writers -> WriterType]
  BY DEF TypeInv
<1>2. writer[w].pc = from
      /\ writer' = [writer EXCEPT ![w] = [writer[w] EXCEPT !.pc = to, !.late = FALSE]]
  BY <1>1 DEF Goto
<1> DEFINE x == [writer[w] EXCEPT !.pc = to, !.late = FALSE]
<1>3. /\ x \in WriterType /\ x.pc = to /\ ~x.late
      /\ x.seq = writer[w].seq /\ x.js = writer[w].js
  BY <1>1 DEF WriterType
<1> HIDE DEF x
<1>4. writer' = [writer EXCEPT ![w] = x]
  BY <1>2 DEF x
<1> QED BY <1>1, <1>2, <1>3, <1>4 DEF Moved

-----------------------------------------------------------------------------
(* What each step of a flusher does to its own state.                      *)

\* The state of flusher f becomes x.
Turned(f, x) ==
    /\ flusher' \in [Flushers -> FlusherType]
    /\ flusher'[f] = x
    /\ \A g \in Flushers : g # f => flusher'[g] = flusher[g]

\* State o, field by field, at another place and with other entries to work on.
Turn(o, pc, todo, good, drop, runs) ==
    [pc |-> pc, todo |-> todo, good |-> good, drop |-> drop, runs |-> runs,
     at |-> o.at, latest |-> o.latest, late |-> o.late]

Calm(o) == [pc |-> o.pc, todo |-> o.todo, good |-> o.good, drop |-> o.drop, runs |-> o.runs,
            at |-> o.at, latest |-> o.latest, late |-> FALSE]

\* Replacing one flusher's state leaves the others alone.
LEMMA TurnedIs ==
    ASSUME flusher \in [Flushers -> FlusherType], NEW f \in Flushers, NEW x \in FlusherType,
           flusher' = [flusher EXCEPT ![f] = x]
    PROVE  Turned(f, x)
BY DEF Turned

\* The fields of a flusher's state.
LEMMA FieldsOf ==
    ASSUME TypeInv, NEW f \in Flushers
    PROVE  /\ flusher \in [Flushers -> FlusherType] /\ flusher[f] \in FlusherType
           /\ flusher[f].todo \in SUBSET Nat /\ flusher[f].good \in SUBSET Nat
           /\ flusher[f].drop \in SUBSET Nat /\ flusher[f].runs \in SUBSET Seqs
           /\ flusher[f].at \in Nat /\ flusher[f].latest \in Nat /\ flusher[f].late \in BOOLEAN
           /\ flusher[f].pc \in FlusherStage
           /\ flusher[f].todo \subseteq DOMAIN stream /\ flusher[f].good \subseteq DOMAIN stream
           /\ flusher[f].drop \subseteq DOMAIN stream /\ DOMAIN stream \subseteq Nat
<1>1. flusher \in [Flushers -> FlusherType] /\ flusher[f] \in FlusherType
  BY DEF TypeInv, FlusherTypes
<1>2. /\ flusher[f].todo \subseteq DOMAIN stream /\ flusher[f].good \subseteq DOMAIN stream
      /\ flusher[f].drop \subseteq DOMAIN stream
  BY DEF TypeInv, FlusherTypes
<1>3. DOMAIN stream \subseteq Nat
  BY DEF TypeInv, StoreTypes
<1> QED BY <1>1, <1>2, <1>3 DEF FlusherType

\* A flusher's state is determined by its fields.
LEMMA SameFields ==
    ASSUME NEW y \in FlusherType
    PROVE  y = [pc |-> y.pc, todo |-> y.todo, good |-> y.good, drop |-> y.drop,
                runs |-> y.runs, at |-> y.at, latest |-> y.latest, late |-> y.late]
BY DEF FlusherType

\* A fetch leaves a flusher with a batch of the log's entries and nothing classified.
LEMMA FetchTurns ==
    ASSUME TypeInv, NEW f \in Flushers, FlusherFetches(f)
    PROVE  /\ flusher[f].pc = "Idle"
           /\ \E batch \in SUBSET DOMAIN stream :
                 Turned(f, Turn(flusher[f], "Acquire", batch, {}, {}, flusher[f].runs))
<1> DEFINE x(b) == Turn(flusher[f], "Acquire", b, {}, {}, flusher[f].runs)
<1>1. PICK batch \in SUBSET (DOMAIN stream \ acked) \ {{}} :
         flusher' = [flusher EXCEPT ![f].pc = "Acquire", ![f].todo = batch,
                                    ![f].good = {}, ![f].drop = {}]
  BY Zenon DEF FlusherFetches
<1>2. batch \in SUBSET DOMAIN stream /\ batch \in SUBSET Nat
  BY FieldsOf
<1>3. x(batch) \in FlusherType
  BY <1>2, FieldsOf DEF Turn, FlusherType, FlusherStage
<1>4. flusher' = [flusher EXCEPT ![f] = x(batch)]
  <2> DEFINE y == [flusher[f] EXCEPT !.pc = "Acquire", !.todo = batch, !.good = {},
                                     !.drop = {}]
  <2>1. flusher' = [flusher EXCEPT ![f] = y]
    BY <1>1, FieldsOf
  <2>2. /\ y \in FlusherType
        /\ y.pc = "Acquire" /\ y.todo = batch /\ y.good = {} /\ y.drop = {}
        /\ y.runs = flusher[f].runs /\ y.at = flusher[f].at /\ y.latest = flusher[f].latest
        /\ y.late = flusher[f].late
    BY <1>2, FieldsOf DEF FlusherType, FlusherStage
  <2> HIDE DEF y
  <2>3. y = x(batch)
    BY <2>2, SameFields DEF Turn, Calm
  <2> QED BY <2>1, <2>3
<1>5. flusher[f].pc = "Idle"
  BY DEF FlusherFetches
<1> QED BY <1>2, <1>3, <1>4, <1>5, FieldsOf, TurnedIs

\* With the flush claim a flusher goes on to classify its batch.
LEMMA ClaimTurns ==
    ASSUME TypeInv, NEW f \in Flushers, FlusherClaims(f)
    PROVE  /\ flusher[f].pc = "Acquire"
           /\ Turned(f, [pc |-> "Classify", todo |-> flusher[f].todo, good |-> flusher[f].good,
                         drop |-> flusher[f].drop, runs |-> flusher[f].runs, at |-> flushed,
                         latest |-> meta.latest, late |-> flusher[f].late])
<1> DEFINE x == [pc |-> "Classify", todo |-> flusher[f].todo, good |-> flusher[f].good,
                 drop |-> flusher[f].drop, runs |-> flusher[f].runs, at |-> flushed,
                 latest |-> meta.latest, late |-> flusher[f].late]
<1>1. flushed \in Nat /\ meta.latest \in Nat
  BY DEF TypeInv, StoreTypes, MetaType
<1>2. x \in FlusherType
  BY <1>1, FieldsOf DEF Turn, FlusherType, FlusherStage
<1>3. flusher' = [flusher EXCEPT ![f] = x]
  <2> DEFINE y == [flusher[f] EXCEPT !.pc = "Classify", !.at = flushed,
                                     !.latest = meta.latest]
  <2>1. flusher' = [flusher EXCEPT ![f] = y]
    BY FieldsOf DEF FlusherClaims
  <2>2. /\ y \in FlusherType
        /\ y.pc = "Classify" /\ y.todo = flusher[f].todo /\ y.good = flusher[f].good
        /\ y.drop = flusher[f].drop /\ y.runs = flusher[f].runs /\ y.at = flushed
        /\ y.latest = meta.latest /\ y.late = flusher[f].late
    BY <1>1, FieldsOf DEF FlusherType, FlusherStage
  <2> HIDE DEF y
  <2>3. y = x
    BY <2>2, SameFields DEF Turn, Calm
  <2> QED BY <2>1, <2>3
<1>4. flusher[f].pc = "Acquire"
  BY DEF FlusherClaims
<1> QED BY <1>2, <1>3, <1>4, FieldsOf, TurnedIs

\* Without the flush claim a flusher leaves its batch to redelivery.
LEMMA TimeoutTurns ==
    ASSUME TypeInv, NEW f \in Flushers, FlusherTimesOut(f)
    PROVE  /\ flusher[f].pc = "Acquire"
           /\ Turned(f, Turn(flusher[f], "Idle", {}, flusher[f].good, flusher[f].drop,
                             flusher[f].runs))
<1> DEFINE x == Turn(flusher[f], "Idle", {}, flusher[f].good, flusher[f].drop, flusher[f].runs)
<1>1. x \in FlusherType
  BY FieldsOf DEF Turn, FlusherType, FlusherStage
<1>2. flusher' = [flusher EXCEPT ![f] = x]
  <2> DEFINE y == [flusher[f] EXCEPT !.pc = "Idle", !.todo = {}]
  <2>1. flusher' = [flusher EXCEPT ![f] = y]
    BY FieldsOf DEF FlusherTimesOut
  <2>2. /\ y \in FlusherType
        /\ y.pc = "Idle" /\ y.todo = {} /\ y.good = flusher[f].good
        /\ y.drop = flusher[f].drop /\ y.runs = flusher[f].runs /\ y.at = flusher[f].at
        /\ y.latest = flusher[f].latest /\ y.late = flusher[f].late
    BY FieldsOf DEF FlusherType, FlusherStage
  <2> HIDE DEF y
  <2>3. y = x
    BY <2>2, SameFields DEF Turn, Calm
  <2> QED BY <2>1, <2>3
<1> QED BY <1>1, <1>2, FieldsOf, TurnedIs DEF FlusherTimesOut

\* A flusher that finds its claim lost acknowledges no committed entry.
LEMMA LossTurns ==
    ASSUME TypeInv, NEW f \in Flushers, FlusherLosesClaim(f)
    PROVE  Turned(f, Turn(flusher[f], "Finish", flusher[f].todo, {}, flusher[f].drop,
                          flusher[f].runs))
<1> DEFINE x == Turn(flusher[f], "Finish", flusher[f].todo, {}, flusher[f].drop, flusher[f].runs)
<1>1. x \in FlusherType
  BY FieldsOf DEF Turn, FlusherType, FlusherStage
<1>2. flusher' = [flusher EXCEPT ![f] = x]
  <2> DEFINE y == [flusher[f] EXCEPT !.pc = "Finish", !.good = {}]
  <2>1. flusher' = [flusher EXCEPT ![f] = y]
    BY FieldsOf DEF FlusherLosesClaim
  <2>2. /\ y \in FlusherType
        /\ y.pc = "Finish" /\ y.todo = flusher[f].todo /\ y.good = {}
        /\ y.drop = flusher[f].drop /\ y.runs = flusher[f].runs /\ y.at = flusher[f].at
        /\ y.latest = flusher[f].latest /\ y.late = flusher[f].late
    BY FieldsOf DEF FlusherType, FlusherStage
  <2> HIDE DEF y
  <2>3. y = x
    BY <2>2, SameFields DEF Turn, Calm
  <2> QED BY <2>1, <2>3
<1> QED BY <1>1, <1>2, FieldsOf, TurnedIs

\* A flusher whose write fails acknowledges no committed entry.
LEMMA FailTurns ==
    ASSUME TypeInv, NEW f \in Flushers, FlusherFails(f)
    PROVE  Turned(f, Calm(Turn(flusher[f], "Finish", flusher[f].todo, {}, flusher[f].drop,
                               flusher[f].runs)))
<1> DEFINE x == Calm(Turn(flusher[f], "Finish", flusher[f].todo, {}, flusher[f].drop,
                          flusher[f].runs))
<1>1. x \in FlusherType
  BY FieldsOf DEF Turn, Calm, FlusherType, FlusherStage
<1>2. flusher' = [flusher EXCEPT ![f] = x]
  <2> DEFINE y == [flusher[f] EXCEPT !.pc = "Finish", !.good = {}, !.late = FALSE]
  <2>1. flusher' = [flusher EXCEPT ![f] = y]
    BY FieldsOf DEF FlusherFails
  <2>2. /\ y \in FlusherType
        /\ y.pc = "Finish" /\ y.todo = flusher[f].todo /\ y.good = {}
        /\ y.drop = flusher[f].drop /\ y.runs = flusher[f].runs /\ y.at = flusher[f].at
        /\ y.latest = flusher[f].latest /\ y.late = FALSE
    BY FieldsOf DEF FlusherType, FlusherStage
  <2> HIDE DEF y
  <2>3. y = x
    BY <2>2, SameFields DEF Turn, Calm
  <2> QED BY <2>1, <2>3
<1> QED BY <1>1, <1>2, FieldsOf, TurnedIs

\* A crashed flusher starts again with nothing.
LEMMA CrashTurns ==
    ASSUME TypeInv, NEW f \in Flushers, FlusherCrashes(f)
    PROVE  Turned(f, [pc |-> "Idle", todo |-> {}, good |-> {}, drop |-> {}, runs |-> {},
                      at |-> 0, latest |-> 0, late |-> FALSE])
<1> DEFINE x == [pc |-> "Idle", todo |-> {}, good |-> {}, drop |-> {}, runs |-> {},
                 at |-> 0, latest |-> 0, late |-> FALSE]
<1>1. x \in FlusherType
  BY DEF FlusherType, FlusherStage
<1>2. flusher' = [flusher EXCEPT ![f] = x]
  BY DEF FlusherCrashes
<1> QED BY <1>1, <1>2, FieldsOf, TurnedIs

\* A flusher that releases its claim has acknowledged all it meant to.
LEMMA ReleaseTurns ==
    ASSUME TypeInv, NEW f \in Flushers, FlusherReleases(f)
    PROVE  /\ flusher[f].pc = "Finish" /\ flusher[f].good = {} /\ flusher[f].drop = {}
           /\ Turned(f, [pc |-> "Idle", todo |-> flusher[f].todo, good |-> {}, drop |-> {},
                         runs |-> {}, at |-> 0, latest |-> 0, late |-> flusher[f].late])
<1> DEFINE x == [pc |-> "Idle", todo |-> flusher[f].todo, good |-> {}, drop |-> {},
                 runs |-> {}, at |-> 0, latest |-> 0, late |-> flusher[f].late]
<1>1. flusher[f].pc = "Finish" /\ flusher[f].good = {} /\ flusher[f].drop = {}
  BY DEF FlusherReleases
<1>2. x \in FlusherType
  BY FieldsOf DEF FlusherType, FlusherStage
<1>3. flusher' = [flusher EXCEPT ![f] = x]
  <2> DEFINE y == [flusher[f] EXCEPT !.pc = "Idle", !.runs = {}, !.at = 0, !.latest = 0]
  <2>1. flusher' = [flusher EXCEPT ![f] = y]
    BY FieldsOf DEF FlusherReleases
  <2>2. /\ y \in FlusherType
        /\ y.pc = "Idle" /\ y.todo = flusher[f].todo /\ y.good = flusher[f].good
        /\ y.drop = flusher[f].drop /\ y.runs = {} /\ y.at = 0 /\ y.latest = 0
        /\ y.late = flusher[f].late
    BY FieldsOf DEF FlusherType, FlusherStage
  <2> HIDE DEF y
  <2>3. y = x
    BY <1>1, <2>2, SameFields DEF Turn, Calm
  <2> QED BY <2>1, <2>3
<1> QED BY <1>1, <1>2, <1>3, FieldsOf, TurnedIs

\* Saving, promoting and marking move on and change nothing else.
LEMMA GotoTurns ==
    ASSUME TypeInv, NEW f \in Flushers, NEW to \in FlusherStage, FlushGoto(f, to)
    PROVE  Turned(f, Calm(Turn(flusher[f], to, flusher[f].todo, flusher[f].good,
                               flusher[f].drop, flusher[f].runs)))
<1> DEFINE x == Calm(Turn(flusher[f], to, flusher[f].todo, flusher[f].good, flusher[f].drop,
                          flusher[f].runs))
<1>1. x \in FlusherType
  BY FieldsOf DEF Turn, Calm, FlusherType
<1>2. flusher' = [flusher EXCEPT ![f] = x]
  <2> DEFINE y == [flusher[f] EXCEPT !.pc = to, !.late = FALSE]
  <2>1. flusher' = [flusher EXCEPT ![f] = y]
    BY FieldsOf DEF FlushGoto
  <2>2. /\ y \in FlusherType
        /\ y.pc = to /\ y.todo = flusher[f].todo /\ y.good = flusher[f].good
        /\ y.drop = flusher[f].drop /\ y.runs = flusher[f].runs /\ y.at = flusher[f].at
        /\ y.latest = flusher[f].latest /\ y.late = FALSE
    BY FieldsOf DEF FlusherType, FlusherStage
  <2> HIDE DEF y
  <2>3. y = x
    BY <2>2, SameFields DEF Turn, Calm
  <2> QED BY <2>1, <2>3
<1> QED BY <1>1, <1>2, FieldsOf, TurnedIs

\* An entry is taken into the batch only when its commit state says Committed.
LEMMA ClassifyTurns ==
    ASSUME TypeInv, NEW f \in Flushers, FlusherClassifies(f)
    PROVE  /\ flusher[f].pc = "Classify"
           /\ \E m \in flusher[f].todo :
                 LET s == stream[m].seq
                     st == Settle(wal, s)[s]
                 IN  /\ wal' = Settle(wal, s)
                     /\ Turned(f, Turn(flusher[f], "Classify", flusher[f].todo \ {m},
                          IF st.status = "Committed" /\ st.js = m THEN flusher[f].good \cup {m}
                                                                 ELSE flusher[f].good,
                          IF \/ st.status = "Committed" /\ st.js # m
                             \/ st.status = "Aborted"
                             \/ st.status = "None" /\ s <= flusher[f].at
                          THEN flusher[f].drop \cup {m} ELSE flusher[f].drop,
                          flusher[f].runs))
<1> DEFINE s(m) == stream[m].seq
           st(m) == Settle(wal, s(m))[s(m)]
           good(m) == IF st(m).status = "Committed" /\ st(m).js = m
                      THEN flusher[f].good \cup {m} ELSE flusher[f].good
           drop(m) == IF \/ st(m).status = "Committed" /\ st(m).js # m
                         \/ st(m).status = "Aborted"
                         \/ st(m).status = "None" /\ s(m) <= flusher[f].at
                      THEN flusher[f].drop \cup {m} ELSE flusher[f].drop
           x(m) == Turn(flusher[f], "Classify", flusher[f].todo \ {m}, good(m), drop(m),
                        flusher[f].runs)
<1>1. PICK m \in flusher[f].todo :
         /\ flusher[f].pc = "Classify"
         /\ wal' = Settle(wal, s(m))
         /\ flusher' = [flusher EXCEPT ![f].todo = @ \ {m}, ![f].good = good(m),
                                       ![f].drop = drop(m)]
  BY DEF FlusherClassifies
<1>2. m \in Nat
  BY FieldsOf
<1>3. good(m) \in SUBSET Nat /\ drop(m) \in SUBSET Nat
  <2> HIDE DEF st, s
  <2> QED BY <1>2, FieldsOf
<1> HIDE DEF good, drop
<1>4. x(m) \in FlusherType
  BY <1>3, FieldsOf DEF Turn, FlusherType, FlusherStage
<1>5. flusher' = [flusher EXCEPT ![f] = x(m)]
  <2> DEFINE y == [flusher[f] EXCEPT !.todo = flusher[f].todo \ {m}, !.good = good(m),
                                     !.drop = drop(m)]
  <2>1. flusher' = [flusher EXCEPT ![f] = y]
    BY <1>1, FieldsOf
  <2>2. /\ y \in FlusherType
        /\ y.pc = flusher[f].pc /\ y.todo = flusher[f].todo \ {m} /\ y.good = good(m)
        /\ y.drop = drop(m) /\ y.runs = flusher[f].runs /\ y.at = flusher[f].at
        /\ y.latest = flusher[f].latest /\ y.late = flusher[f].late
    BY <1>1, <1>3, FieldsOf DEF FlusherType, FlusherStage
  <2> HIDE DEF y
  <2>3. y = x(m)
    BY <1>1, <2>2, SameFields DEF Turn, Calm
  <2> QED BY <2>1, <2>3
<1>6. Turned(f, x(m))
  BY <1>4, <1>5, FieldsOf, TurnedIs
<1> QED BY <1>1, <1>6 DEF good, drop

\* Once classified, a batch is written run by run, but for the runs flushed already.
LEMMA StaleTurns ==
    ASSUME StoreInv, NEW f \in Flushers, FlusherPersistsStale(f)
    PROVE  LET fresh == {s \in RunSeqs(flusher[f].good) : ~(s <= flusher[f].at)}
               to == IF fresh # {} THEN "Run"
                     ELSE IF flusher[f].good # {} /\ TopSeq(f) > flusher[f].latest
                     THEN "Promote" ELSE "Finish"
           IN  /\ flusher[f].pc = "Classify" /\ flusher[f].todo = {}
               /\ Turned(f, Turn(flusher[f], to, {}, flusher[f].good, flusher[f].drop, fresh))
<1> DEFINE S == RunSeqs(flusher[f].good)
           stale == {s \in S : s <= flusher[f].at}
           fresh == {s \in S : ~(s <= flusher[f].at)}
           to == IF fresh # {} THEN "Run"
                 ELSE IF flusher[f].good # {} /\ TopSeq(f) > flusher[f].latest
                 THEN "Promote" ELSE "Finish"
           x == Turn(flusher[f], to, {}, flusher[f].good, flusher[f].drop, fresh)
<1>0. TypeInv
  BY DEF StoreInv
<1>1. S \subseteq Seqs
  BY RunSeqsIs, TopIs
<1>2. fresh = S \ stale
  <2> HIDE DEF S
  <2> QED OBVIOUS
<1>3. /\ flusher[f].pc = "Classify" /\ flusher[f].todo = {}
      /\ flusher' = [flusher EXCEPT
             ![f].pc = IF S \ stale # {} THEN "Run"
                       ELSE IF flusher[f].good # {} /\ TopSeq(f) > flusher[f].latest
                       THEN "Promote" ELSE "Finish",
             ![f].runs = S \ stale]
  BY DEF FlusherPersistsStale
<1>4. flusher' = [flusher EXCEPT ![f].pc = to, ![f].runs = fresh]
  <2> HIDE DEF S, stale, fresh
  <2> QED BY <1>2, <1>3
<1>5. to \in FlusherStage
  BY DEF FlusherStage
<1>6. fresh \in SUBSET Seqs
  BY <1>1
<1> HIDE DEF to, fresh
<1>7. x \in FlusherType
  BY <1>0, <1>5, <1>6, FieldsOf DEF Turn, FlusherType
<1>8. flusher' = [flusher EXCEPT ![f] = x]
  <2> DEFINE y == [flusher[f] EXCEPT !.pc = to, !.runs = fresh]
  <2>1. flusher' = [flusher EXCEPT ![f] = y]
    BY <1>0, <1>4, FieldsOf
  <2>2. /\ y \in FlusherType
        /\ y.pc = to /\ y.todo = flusher[f].todo /\ y.good = flusher[f].good
        /\ y.drop = flusher[f].drop /\ y.runs = fresh /\ y.at = flusher[f].at
        /\ y.latest = flusher[f].latest /\ y.late = flusher[f].late
    BY <1>0, <1>5, <1>6, FieldsOf DEF FlusherType, FlusherStage
  <2> HIDE DEF y
  <2>3. y = x
    BY <1>3, <2>2, SameFields DEF Turn, Calm
  <2> QED BY <2>1, <2>3
<1>9. Turned(f, x)
  BY <1>0, <1>7, <1>8, FieldsOf, TurnedIs
<1> QED BY <1>3, <1>9 DEF to, fresh

\* A flusher writes the record of one run, the oldest first, before the thread.
LEMMA CheckpointTurns ==
    ASSUME TypeInv, NEW f \in Flushers, FlusherCheckpoints(f)
    PROVE  LET s == Min(flusher[f].runs)
               to == IF flusher[f].runs = {s} THEN "Thread" ELSE "Run"
           IN  /\ flusher[f].pc = "Run"
               /\ Turned(f, Calm(Turn(flusher[f], to, flusher[f].todo, flusher[f].good,
                                      flusher[f].drop, flusher[f].runs \ {s})))
<1> DEFINE s == Min(flusher[f].runs)
           to == IF flusher[f].runs = {s} THEN "Thread" ELSE "Run"
           x == Calm(Turn(flusher[f], to, flusher[f].todo, flusher[f].good,
                          flusher[f].drop, flusher[f].runs \ {s}))
<1>1. /\ flusher[f].pc = "Run"
      /\ flusher' = [flusher EXCEPT
             ![f].runs = @ \ {s}, ![f].late = FALSE,
             ![f].pc = IF flusher[f].runs = {s} THEN "Thread" ELSE @]
  BY DEF FlusherCheckpoints, At
<1> HIDE DEF s
<1>2. to \in FlusherStage
  BY DEF FlusherStage
<1>3. flusher' = [flusher EXCEPT ![f].runs = @ \ {s}, ![f].late = FALSE, ![f].pc = to]
  BY <1>1
<1> HIDE DEF to
<1>4. x \in FlusherType
  BY <1>2, FieldsOf DEF Turn, Calm, FlusherType
<1>5. flusher' = [flusher EXCEPT ![f] = x]
  <2> DEFINE y == [flusher[f] EXCEPT !.runs = flusher[f].runs \ {s}, !.late = FALSE,
                                     !.pc = to]
  <2>1. flusher' = [flusher EXCEPT ![f] = y]
    BY <1>3, FieldsOf
  <2>2. /\ y \in FlusherType
        /\ y.pc = to /\ y.todo = flusher[f].todo /\ y.good = flusher[f].good
        /\ y.drop = flusher[f].drop /\ y.runs = flusher[f].runs \ {s}
        /\ y.at = flusher[f].at /\ y.latest = flusher[f].latest /\ y.late = FALSE
    BY <1>2, FieldsOf DEF FlusherType, FlusherStage
  <2> HIDE DEF y
  <2>3. y = x
    BY <2>2, SameFields DEF Turn, Calm
  <2> QED BY <2>1, <2>3
<1>6. Turned(f, x)
  BY <1>4, <1>5, FieldsOf, TurnedIs
<1> QED BY <1>1, <1>6 DEF s, to

\* An acknowledged entry leaves the batch, and its commit state at most is dropped.
LEMMA AckTurns ==
    ASSUME TypeInv, NEW f \in Flushers, FlusherAcks(f)
    PROVE  /\ flusher[f].pc = "Finish"
           /\ \E m \in flusher[f].good \cup flusher[f].drop :
                 /\ Turned(f, Turn(flusher[f], "Finish", flusher[f].todo, flusher[f].good \ {m},
                                   flusher[f].drop \ {m}, flusher[f].runs))
                 /\ \/ acked' = acked \cup {m} /\ wal' = [wal EXCEPT ![stream[m].seq] = NoState]
                    \/ acked' \in {acked, acked \cup {m}} /\ wal' = wal
<1> DEFINE x(m) == Turn(flusher[f], "Finish", flusher[f].todo, flusher[f].good \ {m},
                        flusher[f].drop \ {m}, flusher[f].runs)
<1>1. PICK m \in flusher[f].good \cup flusher[f].drop :
         /\ flusher[f].pc = "Finish"
         /\ flusher' = [flusher EXCEPT ![f].good = @ \ {m}, ![f].drop = @ \ {m}]
         /\ \/ acked' = acked \cup {m} /\ wal' = [wal EXCEPT ![stream[m].seq] = NoState]
            \/ acked' \in {acked, acked \cup {m}} /\ wal' = wal
  BY DEF FlusherAcks
<1>2. x(m) \in FlusherType
  BY FieldsOf DEF Turn, FlusherType, FlusherStage
<1>3. flusher' = [flusher EXCEPT ![f] = x(m)]
  <2> DEFINE y == [flusher[f] EXCEPT !.good = flusher[f].good \ {m},
                                     !.drop = flusher[f].drop \ {m}]
  <2>1. flusher' = [flusher EXCEPT ![f] = y]
    BY <1>1, FieldsOf
  <2>2. /\ y \in FlusherType
        /\ y.pc = flusher[f].pc /\ y.todo = flusher[f].todo
        /\ y.good = flusher[f].good \ {m} /\ y.drop = flusher[f].drop \ {m}
        /\ y.runs = flusher[f].runs /\ y.at = flusher[f].at /\ y.latest = flusher[f].latest
        /\ y.late = flusher[f].late
    BY FieldsOf DEF FlusherType, FlusherStage
  <2> HIDE DEF y
  <2>3. y.pc = "Finish" /\ x(m) \in FlusherType
    BY <1>1, <1>2, <2>2
  <2>4. /\ x(m).pc = "Finish" /\ x(m).todo = flusher[f].todo
        /\ x(m).good = flusher[f].good \ {m} /\ x(m).drop = flusher[f].drop \ {m}
        /\ x(m).runs = flusher[f].runs /\ x(m).at = flusher[f].at
        /\ x(m).latest = flusher[f].latest /\ x(m).late = flusher[f].late
    BY DEF Turn
  <2> HIDE DEF x
  <2>5. y = [pc |-> y.pc, todo |-> y.todo, good |-> y.good, drop |-> y.drop,
             runs |-> y.runs, at |-> y.at, latest |-> y.latest, late |-> y.late]
    BY <2>2, SameFields
  <2>6. x(m) = [pc |-> x(m).pc, todo |-> x(m).todo, good |-> x(m).good,
                drop |-> x(m).drop, runs |-> x(m).runs, at |-> x(m).at,
                latest |-> x(m).latest, late |-> x(m).late]
    BY <2>3, SameFields
  <2>7. y = x(m)
    BY <2>2, <2>3, <2>4, <2>5, <2>6
  <2> QED BY <2>1, <2>7
<1>4. Turned(f, x(m))
  BY <1>2, <1>3, FieldsOf, TurnedIs
<1> QED BY <1>1, <1>4

-----------------------------------------------------------------------------
(* What the other steps do.                                                *)

\* One entry more in the log.
LEMMA AppendIs ==
    ASSUME stream \in Seq(EntryType), NEW e \in EntryType, stream' = Append(stream, e)
    PROVE  /\ stream' \in Seq(EntryType)
           /\ Len(stream) + 1 \in Nat /\ Len(stream) + 1 # 0 /\ Len(stream) + 1 \notin DOMAIN stream
           /\ DOMAIN stream' = DOMAIN stream \cup {Len(stream) + 1}
           /\ stream'[Len(stream) + 1] = e
           /\ \A n \in DOMAIN stream : stream'[n] = stream[n]
OBVIOUS

\* One number more among the commits.
LEMMA CommitIs ==
    ASSUME committed \in Seq(Seqs), NEW s \in Seqs, committed' = Append(committed, s)
    PROVE  committed' \in Seq(Seqs) /\ Commits' = Commits \cup {s}
<1>1. /\ committed' \in Seq(Seqs) /\ DOMAIN committed' = DOMAIN committed \cup {Len(committed) + 1}
      /\ committed'[Len(committed) + 1] = s
      /\ \A n \in DOMAIN committed : committed'[n] = committed[n]
      /\ Len(committed) + 1 \notin DOMAIN committed
  OBVIOUS
<1>2. Commits' = {committed'[n] : n \in DOMAIN committed'}
  BY DEF Commits, Range
<1>3. Commits = {committed[n] : n \in DOMAIN committed}
  BY DEF Commits, Range
<1> QED BY <1>1, <1>2, <1>3

\* A reservation counts the metadata up by one and gives the writer that number.
LEMMA ReserveIs ==
    ASSUME StoreInv, NEW w \in Writers, WriterReserves(w)
    PROVE  /\ writer[w].pc = "Overlaid" /\ writer[w].seq = 0
           /\ meta' = [reserved |-> meta.reserved + 1, latest |-> meta.latest,
                       latestJs |-> meta.latestJs]
           /\ writer' \in [Writers -> WriterType]
           /\ writer'[w].pc = "Reserved" /\ writer'[w].seq = meta.reserved + 1
           /\ ~writer'[w].late /\ meta.reserved + 1 \in Nat
           /\ \A v \in Writers : v # w => writer'[v] = writer[v]
<1>0. /\ meta \in MetaType /\ meta.latest \in Nat /\ meta.reserved \in Nat
      /\ meta.latest <= meta.reserved /\ writer \in [Writers -> WriterType]
      /\ writer[w] \in WriterType
  BY DEF StoreInv, TypeInv, StoreTypes, MetaType, CountInv
<1>1. writer[w].pc = "Overlaid" /\ writer[w].seq = 0
  BY DEF WriterReserves, StoreInv, CountInv
<1>2. Max({meta.reserved, meta.latest}) = meta.reserved
  BY <1>0, MaxOfTwo
<1>3. meta' = [reserved |-> meta.reserved + 1, latest |-> meta.latest, latestJs |-> meta.latestJs]
  BY <1>0, <1>2 DEF WriterReserves, MetaType
<1>6. meta'.reserved = meta.reserved + 1
  BY <1>3
<1> DEFINE y == [writer[w] EXCEPT !.pc = "Reserved", !.seq = meta.reserved + 1, !.late = FALSE]
<1>4. writer' = [writer EXCEPT ![w] = y]
  <2>1. writer' = [writer EXCEPT ![w].pc = "Reserved", ![w].seq = meta'.reserved,
                                 ![w].late = FALSE]
    BY DEF WriterReserves
  <2>2. writer' = [writer EXCEPT ![w].pc = "Reserved", ![w].seq = meta.reserved + 1,
                                 ![w].late = FALSE]
    BY <2>1, <1>6
  <2> QED BY <2>2, <1>0
<1>5. y \in WriterType /\ y.pc = "Reserved" /\ y.seq = meta.reserved + 1 /\ ~y.late
  <2> DEFINE n == meta.reserved + 1
             o == writer[w]
  <2>1. n \in Nat /\ o \in WriterType /\ "Reserved" \in WriterStage
    BY <1>0 DEF WriterStage
  <2>2. y = [o EXCEPT !.pc = "Reserved", !.seq = n, !.late = FALSE]
    OBVIOUS
  <2> HIDE DEF n, o, y
  <2>5. y \in WriterType /\ y.pc = "Reserved" /\ y.seq = n /\ ~y.late
    BY <2>1, <2>2 DEF WriterType
  <2> QED BY <2>5 DEF n
<1> HIDE DEF y
<1> QED BY <1>0, <1>1, <1>3, <1>4, <1>5

\* A publish appends the writer's one entry to the log and tells it where.
LEMMA PublishIs ==
    ASSUME StoreInv, NEW w \in Writers, WriterPublishes(w)
    PROVE  /\ writer[w].pc = "Prepared" /\ writer[w].seq \in Seqs /\ writer[w].seq # 0
           /\ [seq |-> writer[w].seq, run |-> RunOf[w]] \in EntryType
           /\ stream' = Append(stream, [seq |-> writer[w].seq, run |-> RunOf[w]])
           /\ writer' \in [Writers -> WriterType]
           /\ writer'[w].pc = "Published" /\ writer'[w].seq = writer[w].seq
           /\ writer'[w].js = Len(stream) + 1 /\ ~writer'[w].late
           /\ \A v \in Writers : v # w => writer'[v] = writer[v]
<1>0. writer \in [Writers -> WriterType] /\ writer[w] \in WriterType
      /\ stream \in Seq(EntryType) /\ Len(stream) + 1 \in Nat
  BY DEF StoreInv, TypeInv, StoreTypes
<1>1. writer[w].pc = "Prepared" /\ stream' = Append(stream, [seq |-> writer[w].seq, run |-> RunOf[w]])
  BY DEF WriterPublishes
<1>2. writer[w].seq \in Seqs /\ writer[w].seq # 0
  BY <1>1, Bounds DEF StoreInv, CountInv, MayBeUnnumbered
<1>3. [seq |-> writer[w].seq, run |-> RunOf[w]] \in EntryType
  BY <1>2, BufferedAssumption DEF EntryType
<1> DEFINE y == [writer[w] EXCEPT !.pc = "Published", !.js = Len(stream) + 1, !.late = FALSE]
<1>4. writer' = [writer EXCEPT ![w] = y]
  BY <1>0 DEF WriterPublishes
<1>5. /\ y \in WriterType /\ y.pc = "Published" /\ y.seq = writer[w].seq
      /\ y.js = Len(stream) + 1 /\ ~y.late
  BY <1>0 DEF WriterType, WriterStage
<1> HIDE DEF y
<1> QED BY <1>0, <1>1, <1>2, <1>3, <1>4, <1>5

\* The runs of the inner store after stale records were filled in: only absent
\* ones, and with an entry of the batch.
LEMMA StaleIs ==
    ASSUME StoreInv, NEW f \in Flushers, FlusherPersistsStale(f)
    PROVE  /\ inner' \in InnerType
           /\ inner'.thread = inner.thread /\ inner'.messages = inner.messages
           /\ \A r \in Runs :
                 /\ inner.runs[r] # 0 => inner'.runs[r] = inner.runs[r]
                 /\ inner'.runs[r] # inner.runs[r] => inner'.runs[r] \in Batch(f)
                 /\ \A s \in RunSeqs(flusher[f].good) :
                       s <= flusher[f].at /\ RunAt(s) = r => inner'.runs[r] # 0
<1> DEFINE S == RunSeqs(flusher[f].good)
           stale == {s \in S : s <= flusher[f].at}
           R(r) == IF inner.runs[r] = 0 /\ \E s \in stale : RunAt(s) = r
                   THEN CHOOSE s \in stale : RunAt(s) = r ELSE inner.runs[r]
<1>0. inner \in InnerType /\ inner.runs \in [Runs -> Nat]
  BY DEF StoreInv, TypeInv, StoreTypes, InnerType
<1>1. inner' = [inner EXCEPT !.runs = [r \in Runs |-> R(r)]]
  BY DEF FlusherPersistsStale
<1>2. stale \subseteq Batch(f) /\ stale \subseteq Nat /\ 0 \notin stale
  BY RunSeqsIs, TopIs, CommitFacts
<1>3. ASSUME NEW r \in Runs
      PROVE  /\ R(r) \in Nat
             /\ inner.runs[r] # 0 => R(r) = inner.runs[r]
             /\ R(r) # inner.runs[r] => R(r) \in Batch(f)
             /\ \A s \in S : s <= flusher[f].at /\ RunAt(s) = r => R(r) # 0
  <2>1. CASE inner.runs[r] = 0 /\ \E s \in stale : RunAt(s) = r
    <3>1. R(r) \in stale
      <4> HIDE DEF stale
      <4> QED BY <2>1
    <3> QED BY <2>1, <3>1, <1>2
  <2>2. CASE ~(inner.runs[r] = 0 /\ \E s \in stale : RunAt(s) = r)
    <3>1. R(r) = inner.runs[r]
      <4> HIDE DEF stale
      <4> QED BY <2>2
    <3>2. ASSUME NEW s \in S, s <= flusher[f].at, RunAt(s) = r PROVE R(r) # 0
      <4>1. s \in stale
        BY <3>2
      <4> HIDE DEF stale
      <4> QED BY <4>1, <2>2, <3>1, <3>2
    <3> HIDE DEF R
    <3> QED BY <3>1, <3>2, <1>0
  <2> QED BY <2>1, <2>2
<1> HIDE DEF R, stale, S
<1>4. inner'.runs = [r \in Runs |-> R(r)]
  BY <1>0, <1>1 DEF InnerType
<1>5. inner' \in InnerType /\ inner'.thread = inner.thread /\ inner'.messages = inner.messages
  <2>1. [r \in Runs |-> R(r)] \in [Runs -> Nat]
    BY <1>3
  <2> QED BY <2>1, <1>0, <1>1 DEF InnerType
<1> QED BY <1>3, <1>4, <1>5 DEF S

\* The inner store after a checkpoint of the lowest run that is left.
LEMMA CheckpointIs ==
    ASSUME StoreInv, NEW f \in Flushers, FlusherCheckpoints(f)
    PROVE  LET s == Min(flusher[f].runs)
           IN  /\ s \in flusher[f].runs /\ s \in Batch(f) /\ s \in Nat /\ s # 0
               /\ \A x \in flusher[f].runs : s <= x
               /\ RunAt(s) \in Runs
               /\ inner' \in InnerType
               /\ inner'.thread = s /\ inner'.messages = TopSeq(f)
               /\ inner'.runs = [inner.runs EXCEPT ![RunAt(s)] = s]
<1> DEFINE s == Min(flusher[f].runs)
<1>0. inner \in InnerType /\ inner.runs \in [Runs -> Nat]
  BY DEF StoreInv, TypeInv, StoreTypes, InnerType
<1>1. /\ flusher[f].pc = "Run"
      /\ inner' = [inner EXCEPT !.thread = s, !.messages = TopSeq(f), !.runs[RunAt(s)] = s]
  BY DEF FlusherCheckpoints, At
<1>2. flusher[f].runs # {} /\ flusher[f].runs \subseteq Batch(f) /\ flusher[f].good # {}
  BY <1>1 DEF StoreInv, BatchInv, Guarded
<1>3. s \in flusher[f].runs /\ \A x \in flusher[f].runs : s <= x
  <2>1. flusher[f].runs \subseteq Nat
    BY <1>2, TopIs, CommitFacts
  <2> QED BY <2>1, <1>2, MinIs
<1>4. s \in Batch(f) /\ s \in Nat /\ s # 0
  BY <1>2, <1>3, TopIs, CommitFacts
<1>5. RunAt(s) \in Runs
  BY <1>4, TopIs, RunAtIs DEF Batch
<1>6. TopSeq(f) \in Nat
  BY <1>2, TopIs
<1> HIDE DEF s
<1> DEFINE a == [inner EXCEPT !.thread = s]
           b == [a EXCEPT !.messages = TopSeq(f)]
           rs == [inner.runs EXCEPT ![RunAt(s)] = s]
<1>7. rs \in [Runs -> Nat]
  BY <1>0, <1>4, <1>5
<1>8. inner' = [b EXCEPT !.runs = rs]
  BY <1>0, <1>1 DEF InnerType
<1> HIDE DEF rs
<1>9. a = [thread |-> s, messages |-> inner.messages, runs |-> inner.runs]
  BY <1>0 DEF InnerType
<1> HIDE DEF a
<1>10. b = [thread |-> s, messages |-> TopSeq(f), runs |-> inner.runs]
  BY <1>9
<1> HIDE DEF b
<1>11. inner' = [thread |-> s, messages |-> TopSeq(f), runs |-> rs]
  BY <1>8, <1>10
<1>12. inner' \in InnerType /\ inner'.thread = s /\ inner'.messages = TopSeq(f) /\ inner'.runs = rs
  BY <1>4, <1>6, <1>7, <1>11 DEF InnerType
<1> QED BY <1>3, <1>4, <1>5, <1>12 DEF s, rs

\* Promoting a committed number: it becomes the latest if it was ahead.
LEMMA PromoteIs ==
    ASSUME StoreInv, NEW s \in Nat, s <= meta.reserved, NEW js \in Nat
    PROVE  /\ Promote(meta, s, js) \in MetaType
           /\ Promote(meta, s, js) =
                 IF meta.latest >= s THEN meta
                 ELSE [reserved |-> meta.reserved, latest |-> s, latestJs |-> js]
<1>1. meta \in MetaType /\ meta.reserved \in Nat
  BY DEF StoreInv, TypeInv, StoreTypes, MetaType
<1>2. Max({meta.reserved, s}) = meta.reserved
  BY <1>1, MaxOfTwo
<1> QED BY <1>1, <1>2 DEF Promote, MetaType

-----------------------------------------------------------------------------
(* Steps that neither reserve, nor publish, nor commit.                    *)

\* A writer goes on, or not, without a number, an entry or a commit more.
Along(o, n) ==
    /\ n.seq = o.seq /\ n.js = o.js
    /\ n.pc \in {"Idle", "Overlaid"} => o.pc \in {"Idle", "Overlaid"}
    /\ o.pc \in MayBeUnnumbered => n.pc \in MayBeUnnumbered
    /\ n.pc \in Unpublished => o.pc \in Unpublished
    /\ n.pc \in {"Published", "Committed", "Cached"} => o.pc \in {"Published", "Committed", "Cached"}
    /\ n.pc \in Kept => o.pc \in Kept
    /\ o.pc \in Kept \cup {"Dead"} => n.pc \in Kept \cup {"Dead"}

\* The parts of the invariant such a step does not touch by itself.
LEMMA QuietKeeps ==
    ASSUME StoreInv, TypeInv', stream' = stream, committed' = committed,
           meta'.reserved = meta.reserved, meta'.latest <= meta.reserved,
           flushed' <= meta.reserved, deleter'.target <= meta.reserved,
           \A r \in Runs : cache'[r] <= meta.reserved,
           \A w \in Writers : Along(writer[w], writer'[w]),
           WalOrigin', MetaOrigin', ReaderOrigin', InnerOrigin', BatchInv',
           known'.ok \in {0} \cup Commits
    PROVE  StoreInv'
<1>1. \A w \in Writers : writer'[w].seq = writer[w].seq /\ writer'[w].js = writer[w].js
  BY DEF Along
<1>2. Commits' = Commits
  BY DEF Commits
<1>3. CountInv'
  <2>1. Numbered' = Numbered
    BY <1>1 DEF Numbered
  <2>2. meta'.reserved <= Cardinality(Numbered)'
    BY <2>1 DEF StoreInv, CountInv
  <2>3. ASSUME NEW w \in Writers
        PROVE  /\ writer'[w].seq <= meta'.reserved
               /\ writer'[w].pc \in {"Idle", "Overlaid"} => writer'[w].seq = 0
               /\ writer'[w].pc \notin MayBeUnnumbered => writer'[w].seq # 0
    BY <1>1 DEF StoreInv, CountInv, Along
  <2>4. ASSUME NEW w \in Writers, NEW v \in Writers
        PROVE  writer'[w].seq = writer'[v].seq /\ writer'[w].seq # 0 => w = v
    BY <1>1 DEF StoreInv, CountInv
  <2> QED BY <2>2, <2>3, <2>4 DEF CountInv
<1>4. StreamInv'
  <2>1. ASSUME NEW n \in DOMAIN stream
        PROVE  \E w \in Writers :
                  /\ writer'[w].seq = stream[n].seq /\ RunOf[w] = stream[n].run
                  /\ writer'[w].pc \notin Unpublished
    BY <1>1 DEF StoreInv, StreamInv, Along
  <2>2. ASSUME NEW w \in Writers, writer'[w].pc \in {"Published", "Committed", "Cached"}
        PROVE  EntryOf(writer'[w].js, writer'[w].seq)
    <3>1. writer[w].pc \in {"Published", "Committed", "Cached"}
      BY <2>2 DEF Along
    <3> QED BY <1>1, <3>1 DEF StoreInv, StreamInv
  <2>3. SequenceNeverReused'
    BY DEF StoreInv, StreamInv, SequenceNeverReused
  <2> QED BY <2>1, <2>2, <2>3 DEF StreamInv, EntryOf
<1>5. OriginInv'
  <2>1. WriterOrigin'
    BY <1>1, <1>2 DEF StoreInv, OriginInv, WriterOrigin, Along
  <2>2. (\A s \in Commits : s <= meta.reserved)'
    BY <1>2 DEF StoreInv, OriginInv
  <2> QED BY <1>2, <2>1, <2>2 DEF OriginInv
<1> QED BY <1>3, <1>4, <1>5 DEF StoreInv

\* Commit states may be settled, or go, but never become committed.
Weaker(states) ==
    /\ states \in [Seqs -> WalType]
    /\ \A s \in Seqs : states[s].status = "Committed" => states[s] = wal[s]
    /\ \A s \in Seqs : states[s].js \in {0, wal[s].js}

\* The metadata moves to nothing that was not committed.
Sound(m) ==
    /\ m \in MetaType /\ m.reserved = meta.reserved /\ m.latest <= meta.reserved
    /\ m.latestJs # 0 => m.latest \in Commits /\ EntryOf(m.latestJs, m.latest)

\* Commit states that are only settled or dropped still name committed entries.
LEMMA WalKept ==
    ASSUME StoreInv, stream' = stream, committed' = committed, Weaker(wal')
    PROVE  WalOrigin'
BY DEF StoreInv, OriginInv, WalOrigin, Weaker, EntryOf, Commits

\* Metadata that is sound still names a committed entry.
LEMMA MetaKept ==
    ASSUME stream' = stream, committed' = committed, Sound(meta')
    PROVE  MetaOrigin'
BY DEF MetaOrigin, Sound, EntryOf, Commits

\* The metadata and the commit states are sound as they are.
LEMMA SameMeta ==
    ASSUME StoreInv
    PROVE  Sound(meta) /\ Weaker(wal)
<1>1. Sound(meta)
  BY DEF StoreInv, TypeInv, StoreTypes, MetaType, CountInv, OriginInv, MetaOrigin, Sound
<1>2. Weaker(wal)
  BY DEF StoreInv, TypeInv, StoreTypes, Weaker
<1> QED BY <1>1, <1>2

\* Reconciling the tail does no more than that.
LEMMA ReconcileKeeps ==
    ASSUME StoreInv, Reconcile
    PROVE  /\ Weaker(wal') /\ Sound(meta') /\ flushed' = flushed
           /\ cache' \in [Runs -> Nat] /\ \A r \in Runs : cache'[r] <= meta.reserved
<1>1. Weaker(wal')
  <2>1. ASSUME NEW s \in Seqs, wal'[s].status = "Committed" PROVE wal'[s] = wal[s]
    <3>1. wal[s] \in WalType
      BY DEF StoreInv, TypeInv, StoreTypes
    <3>2. [wal[s] EXCEPT !.status = "Aborted"].status = "Aborted"
      BY <3>1 DEF WalType
    <3> QED BY <2>1, <3>2, ReconcileIs DEF SettledTo
  <2>2. ASSUME NEW s \in Seqs PROVE wal'[s].js \in {0, wal[s].js}
    <3>1. wal[s] \in WalType
      BY DEF StoreInv, TypeInv, StoreTypes
    <3>2. [wal[s] EXCEPT !.status = "Aborted"].js = wal[s].js
      BY <3>1 DEF WalType
    <3> QED BY <3>2, ReconcileIs DEF SettledTo
  <2> QED BY <2>1, <2>2, ReconcileIs DEF Weaker
<1>2. Sound(meta')
  <2>1. CASE meta' = meta
    BY <2>1, SameMeta
  <2>2. CASE \E top \in Seqs : CatchesUp(top)
    <3>1. PICK top \in Seqs : CatchesUp(top)
      BY <2>2
    <3>2. top \in Commits /\ EntryOf(wal[top].js, top) /\ top <= meta.reserved
      BY <3>1, CommitFacts DEF CatchesUp, StoreInv, OriginInv, WalOrigin
    <3>3. meta' = [reserved |-> meta.reserved, latest |-> top, latestJs |-> wal[top].js]
      BY <3>1 DEF CatchesUp
    <3>4. meta.reserved \in Nat /\ top \in Nat /\ wal[top].js \in Nat
      BY <3>2, CommitFacts DEF StoreInv, TypeInv, StoreTypes, MetaType, WalType
    <3> QED BY <3>2, <3>3, <3>4 DEF Sound, MetaType
  <2> QED BY <2>1, <2>2, ReconcileIs
<1> QED BY <1>1, <1>2, ReconcileIs

\* Promoting an entry of the log that was committed does, too.
LEMMA PromoteKeeps ==
    ASSUME StoreInv, NEW s \in Commits, NEW js \in Nat, EntryOf(js, s)
    PROVE  Sound(Promote(meta, s, js))
<1>1. s \in Nat /\ s <= meta.reserved /\ meta.reserved \in Nat
  BY CommitFacts DEF StoreInv, TypeInv, StoreTypes, MetaType
<1>2. Promote(meta, s, js) = IF meta.latest >= s THEN meta
                             ELSE [reserved |-> meta.reserved, latest |-> s, latestJs |-> js]
  BY <1>1, PromoteIs
<1> QED BY <1>1, <1>2, SameMeta DEF Sound, MetaType

-----------------------------------------------------------------------------
(* The steps of a writer.                                                  *)

\* What a step of writer w changes, if it neither reserves, publishes nor commits.
LEMMA WriterKeeps ==
    ASSUME StoreInv, NEW w \in Writers,
           writer' \in [Writers -> WriterType], Along(writer[w], writer'[w]),
           \A v \in Writers : v # w => writer'[v] = writer[v],
           UNCHANGED <<stream, committed, OthersThanWriters>>,
           Weaker(wal'), Sound(meta'), flushed' = flushed,
           cache' \in [Runs -> Nat], \A r \in Runs : cache'[r] <= meta.reserved,
           hierarchy' \in HierarchyType, known' \in KnownType, known'.ok \in {0} \cup Commits,
           troubles' \in Nat
    PROVE  StoreInv'
<1>0. /\ stream' = stream /\ committed' = committed /\ flushing' = flushing /\ inner' = inner
      /\ flusher' = flusher /\ deleter' = deleter /\ reader' = reader /\ acked' = acked
  BY DEF OthersThanWriters
<1>1. \A v \in Writers : Along(writer[v], writer'[v])
  <2>1. ASSUME NEW v \in Writers PROVE Along(writer[v], writer[v])
    BY DEF Along
  <2> QED BY <2>1
<1>2. StoreTypes'
  <2>1. meta' \in MetaType /\ wal' \in [Seqs -> WalType]
    BY DEF Sound, Weaker
  <2> QED BY <1>0, <2>1 DEF StoreTypes, StoreInv, TypeInv
<1>3. FlusherTypes' /\ ClaimTypes'
  BY <1>0 DEF StoreInv, TypeInv, FlusherTypes, ClaimTypes
<1>4. TypeInv'
  BY <1>0, <1>2, <1>3 DEF StoreInv, TypeInv
<1>5. WalOrigin' /\ MetaOrigin'
  BY <1>0, WalKept, MetaKept
<1>6. ReaderOrigin' /\ InnerOrigin'
  BY <1>0 DEF StoreInv, OriginInv, ReaderOrigin, InnerOrigin, EntryOf, Commits
<1>7. BatchInv'
  BY <1>0 DEF StoreInv, BatchInv, Batch, Commits
<1>8. flushed' <= meta.reserved /\ deleter'.target <= meta.reserved
  BY <1>0 DEF StoreInv, CountInv
<1>9. meta'.reserved = meta.reserved /\ meta'.latest <= meta.reserved
  BY DEF Sound
<1> QED BY <1>0, <1>1, <1>4, <1>5, <1>6, <1>7, <1>8, <1>9, QuietKeeps

\* The same, for a step that leaves the stores alone.
LEMMA WriterMoves ==
    ASSUME StoreInv, NEW w \in Writers,
           writer' \in [Writers -> WriterType], Along(writer[w], writer'[w]),
           \A v \in Writers : v # w => writer'[v] = writer[v],
           UNCHANGED <<kv, stream, committed, OthersThanWriters>>,
           hierarchy' \in HierarchyType, known' \in KnownType, known'.ok \in {0} \cup Commits,
           troubles' \in Nat
    PROVE  StoreInv'
<1>1. wal' = wal /\ meta' = meta /\ flushed' = flushed /\ cache' = cache
  BY DEF kv
<1>2. cache \in [Runs -> Nat] /\ \A r \in Runs : cache[r] <= meta.reserved
  BY DEF StoreInv, TypeInv, StoreTypes, CountInv
<1> QED BY <1>1, <1>2, SameMeta, WriterKeeps

\* What no step of a writer but its claim and its return changes.
LEMMA StillKnown ==
    ASSUME StoreInv
    PROVE  /\ hierarchy \in HierarchyType /\ known \in KnownType /\ troubles \in Nat
           /\ known.ok \in {0} \cup Commits
           /\ cache \in [Runs -> Nat] /\ \A r \in Runs : cache[r] <= meta.reserved
           /\ troubles + 1 \in Nat
BY DEF StoreInv, TypeInv, ClaimTypes, OriginInv, StoreTypes, CountInv

\* Moving on from one place to another that asks no more.
LEMMA MovesAlong ==
    ASSUME NEW w \in Writers, NEW from, NEW to, writer[w].pc = from, Moved(w, to),
           to \in {"Idle", "Overlaid"} => from \in {"Idle", "Overlaid"},
           from \in MayBeUnnumbered => to \in MayBeUnnumbered,
           to \in Unpublished => from \in Unpublished,
           to \in {"Published", "Committed", "Cached"} => from \in {"Published", "Committed", "Cached"},
           to \in Kept => from \in Kept,
           from \in Kept \cup {"Dead"} => to \in Kept \cup {"Dead"}
    PROVE  /\ writer' \in [Writers -> WriterType] /\ Along(writer[w], writer'[w])
           /\ \A v \in Writers : v # w => writer'[v] = writer[v]
BY DEF Moved, Along

\* The hops of a writer that touch no store.
Hops == {<<"Idle", "Overlaid">>, <<"Idle", "Err">>, <<"Overlaid", "ReleaseErr">>,
         <<"Prepared", "Abort">>, <<"Published", "Abort">>, <<"Reserved", "Prepared">>,
         <<"Reserved", "ReleaseErr">>, <<"Committed", "Cached">>, <<"Cached", "ReleaseOk">>,
         <<"Committed", "ReleaseUnknown">>, <<"Cached", "ReleaseUnknown">>,
         <<"Abort", "ReleaseErr">>, <<"ReleaseOk", "Ok">>, <<"ReleaseErr", "Err">>,
         <<"ReleaseUnknown", "Unknown">>, <<"ReleaseUnsure", "Unsure">>,
         <<"ReleaseOk", "Unsure">>}

\* A hop between two stages of a checkpoint call that reserve, publish or commit nothing.
LEMMA HopIs ==
    ASSUME StoreInv, NEW w \in Writers, NEW from, NEW to, <<from, to>> \in Hops, Goto(w, from, to)
    PROVE  /\ writer' \in [Writers -> WriterType] /\ Along(writer[w], writer'[w])
           /\ \A v \in Writers : v # w => writer'[v] = writer[v]
           /\ writer[w].pc = from /\ Moved(w, to)
<1>1. to \in WriterStage
  BY DEF Hops, WriterStage
<1>2. writer[w].pc = from /\ Moved(w, to)
  BY <1>1, GotoIs DEF StoreInv
<1>3. /\ to \in {"Idle", "Overlaid"} => from \in {"Idle", "Overlaid"}
      /\ from \in MayBeUnnumbered => to \in MayBeUnnumbered
      /\ to \in Unpublished => from \in Unpublished
      /\ to \in {"Published", "Committed", "Cached"} => from \in {"Published", "Committed", "Cached"}
      /\ to \in Kept => from \in Kept
      /\ from \in Kept \cup {"Dead"} => to \in Kept \cup {"Dead"}
  BY DEF Hops, MayBeUnnumbered, Unpublished, Kept
<1> QED BY <1>2, <1>3, MovesAlong

\* A released hierarchy claim is a hierarchy claim.
LEMMA ReleasedType ==
    ASSUME StoreInv, NEW p, Released(hierarchy, p)
    PROVE  hierarchy' \in HierarchyType
<1>1. hierarchy \in HierarchyType
  BY DEF StoreInv, TypeInv, ClaimTypes
<1> QED BY <1>1 DEF Released, HierarchyType

\* An acquired hierarchy claim is a hierarchy claim.
LEMMA AcquiredType ==
    ASSUME NEW p \in Writers \cup {Deleter}, Acquired(hierarchy, p)
    PROVE  hierarchy' \in HierarchyType
BY DEF Acquired, HierarchyType

\* The failures a checkpoint call meets keep the invariant.
LEMMA WriterHops ==
    ASSUME StoreInv, NEW w \in Writers
    PROVE  /\ WriterTimesOut(w) \/ WriterLosesClaim(w) \/ WriterPrepareFails(w)
                \/ WriterFindsSettled(w) \/ WriterCommitFails(w)
                \/ WriterCommitUnknown(w) => StoreInv'
<1>1. ASSUME NEW from, NEW to, <<from, to>> \in Hops, Goto(w, from, to),
             UNCHANGED <<kv, stream, hierarchy, committed, known, OthersThanWriters>>,
             troubles' \in {troubles, troubles + 1}
      PROVE  StoreInv'
  <2>1. /\ hierarchy' \in HierarchyType /\ known' \in KnownType /\ troubles' \in Nat
        /\ known'.ok \in {0} \cup Commits
    BY <1>1, StillKnown
  <2>2. UNCHANGED <<kv, stream, committed, OthersThanWriters>>
    BY <1>1
  <2> QED BY <1>1, <2>1, <2>2, HopIs, WriterMoves
<1>2. ASSUME WriterTimesOut(w) PROVE StoreInv'
  <2>1. <<"Idle", "Err">> \in Hops
    BY DEF Hops
  <2> QED BY <1>1, <1>2, <2>1 DEF WriterTimesOut
<1>3. ASSUME WriterLosesClaim(w) PROVE StoreInv'
  <2>1. <<"Overlaid", "ReleaseErr">> \in Hops /\ <<"Prepared", "Abort">> \in Hops
        /\ <<"Published", "Abort">> \in Hops
    BY DEF Hops
  <2>2. /\ UNCHANGED <<kv, stream, hierarchy, committed, known, OthersThanWriters>>
        /\ troubles' = troubles
    BY <1>3 DEF WriterLosesClaim
  <2>3. CASE Goto(w, "Overlaid", "ReleaseErr")
    BY <1>1, <2>1, <2>2, <2>3
  <2>4. CASE Goto(w, "Prepared", "Abort")
    BY <1>1, <2>1, <2>2, <2>4
  <2>5. CASE Goto(w, "Published", "Abort")
    BY <1>1, <2>1, <2>2, <2>5
  <2> QED BY <1>3, <2>3, <2>4, <2>5 DEF WriterLosesClaim
<1>4. ASSUME WriterPrepareFails(w) PROVE StoreInv'
  <2>1. <<"Overlaid", "ReleaseErr">> \in Hops /\ <<"Reserved", "ReleaseErr">> \in Hops
    BY DEF Hops
  <2>2. PICK from \in {"Overlaid", "Reserved"} : Goto(w, from, "ReleaseErr")
    BY <1>4 DEF WriterPrepareFails
  <2>3. /\ UNCHANGED <<kv, stream, hierarchy, committed, known, OthersThanWriters>>
        /\ troubles' = troubles + 1
    BY <1>4 DEF WriterPrepareFails, Trouble
  <2>4. <<from, "ReleaseErr">> \in Hops
    BY <2>1
  <2> QED BY <1>1, <2>2, <2>3, <2>4
<1>5. ASSUME WriterFindsSettled(w) PROVE StoreInv'
  <2>1. <<"Published", "Abort">> \in Hops
    BY DEF Hops
  <2> QED BY <1>1, <1>5, <2>1 DEF WriterFindsSettled
<1>6. ASSUME WriterCommitUnknown(w) PROVE StoreInv'
  <2>1. <<"Committed", "ReleaseUnknown">> \in Hops /\ <<"Cached", "ReleaseUnknown">> \in Hops
    BY DEF Hops
  <2>2. PICK from \in {"Committed", "Cached"} : Goto(w, from, "ReleaseUnknown")
    BY <1>6 DEF WriterCommitUnknown
  <2>3. /\ UNCHANGED <<kv, stream, hierarchy, committed, known, OthersThanWriters>>
        /\ troubles' = troubles + 1
    BY <1>6 DEF WriterCommitUnknown, Trouble
  <2>4. <<from, "ReleaseUnknown">> \in Hops
    BY <2>1
  <2> QED BY <1>1, <2>2, <2>3, <2>4
<1>7. ASSUME WriterCommitFails(w) PROVE StoreInv'
  <2>1. <<"Published", "Abort">> \in Hops
    BY DEF Hops
  <2> QED BY <1>1, <1>7, <2>1 DEF WriterCommitFails, Trouble
<1> QED BY <1>2, <1>3, <1>4, <1>5, <1>6, <1>7

\* A crash of a writer keeps the invariant, wherever it strikes.
LEMMA WriterCrashKeeps ==
    ASSUME StoreInv, NEW w \in Writers, WriterCrashes(w)
    PROVE  StoreInv'
<1>1. writer \in [Writers -> WriterType] /\ writer[w] \in WriterType /\ "Dead" \in WriterStage
  BY DEF StoreInv, TypeInv, WriterStage
<1> DEFINE y == [writer[w] EXCEPT !.pc = "Dead"]
<1>2. writer' = [writer EXCEPT ![w] = y]
  BY <1>1 DEF WriterCrashes
<1>3. y \in WriterType /\ y.pc = "Dead" /\ y.seq = writer[w].seq /\ y.js = writer[w].js
  BY <1>1 DEF WriterType
<1> HIDE DEF y
<1>4. Along(writer[w], y)
  BY <1>3 DEF Along, MayBeUnnumbered, Unpublished, Kept
<1>5. /\ UNCHANGED <<kv, stream, hierarchy, committed, known, OthersThanWriters>>
      /\ troubles' = troubles + 1
  BY DEF WriterCrashes, Trouble
<1>6. /\ writer' \in [Writers -> WriterType] /\ Along(writer[w], writer'[w])
      /\ \A v \in Writers : v # w => writer'[v] = writer[v]
  BY <1>1, <1>2, <1>3, <1>4
<1>7. UNCHANGED <<kv, stream, committed, OthersThanWriters>>
  BY <1>5
<1> QED BY <1>5, <1>6, <1>7, StillKnown, WriterMoves

\* Taking the hierarchy claim, with the reconciliation that follows, keeps the invariant.
LEMMA WriterClaimKeeps ==
    ASSUME StoreInv, NEW w \in Writers, WriterClaims(w)
    PROVE  StoreInv'
<1>1. <<"Idle", "Overlaid">> \in Hops
  BY DEF Hops
<1>2. /\ writer' \in [Writers -> WriterType] /\ Along(writer[w], writer'[w])
      /\ \A v \in Writers : v # w => writer'[v] = writer[v]
  BY <1>1, HopIs DEF WriterClaims
<1>3. /\ UNCHANGED <<stream, committed, OthersThanWriters>>
      /\ known' = known /\ troubles' = troubles
  BY DEF WriterClaims
<1>4. hierarchy' \in HierarchyType
  BY AcquiredType DEF WriterClaims
<1>5. Reconcile
  BY DEF WriterClaims
<1> QED BY <1>2, <1>3, <1>4, <1>5, ReconcileKeeps, StillKnown, WriterKeeps

\* A prepared commit state keeps the invariant: it is not committed.
LEMMA WriterPrepareKeeps ==
    ASSUME StoreInv, NEW w \in Writers, WriterPrepares(w)
    PROVE  StoreInv'
<1>1. <<"Reserved", "Prepared">> \in Hops
  BY DEF Hops
<1>2. /\ writer' \in [Writers -> WriterType] /\ Along(writer[w], writer'[w])
      /\ \A v \in Writers : v # w => writer'[v] = writer[v]
      /\ writer[w].pc = "Reserved"
  BY <1>1, HopIs DEF WriterPrepares
<1>3. /\ UNCHANGED <<stream, committed, OthersThanWriters>>
      /\ known' = known /\ troubles' = troubles /\ hierarchy' = hierarchy
      /\ meta' = meta /\ flushed' = flushed /\ cache' = cache
  BY DEF WriterPrepares
<1>4. Weaker(wal')
  <2> DEFINE s == writer[w].seq
             p == [status |-> "Prepared", token |-> w, js |-> 0]
  <2>1. wal' = [wal EXCEPT ![s] = p]
    BY DEF WriterPrepares
  <2>2. p \in WalType /\ p.status = "Prepared" /\ p.js = 0
    BY DEF WalType
  <2> HIDE DEF p, s
  <2>3. wal \in [Seqs -> WalType]
    BY DEF StoreInv, TypeInv, StoreTypes
  <2> QED BY <2>1, <2>2, <2>3 DEF Weaker
<1> QED BY <1>2, <1>3, <1>4, SameMeta, StillKnown, WriterKeeps

\* Caching the run record keeps the invariant.
LEMMA WriterCacheKeeps ==
    ASSUME StoreInv, NEW w \in Writers, WriterCaches(w)
    PROVE  StoreInv'
<1>1. <<"Committed", "Cached">> \in Hops
  BY DEF Hops
<1>2. /\ writer' \in [Writers -> WriterType] /\ Along(writer[w], writer'[w])
      /\ \A v \in Writers : v # w => writer'[v] = writer[v]
  BY <1>1, HopIs DEF WriterCaches
<1>3. /\ UNCHANGED <<stream, committed, OthersThanWriters>>
      /\ known' = known /\ troubles' = troubles /\ hierarchy' = hierarchy
      /\ meta' = meta /\ flushed' = flushed /\ wal' = wal
  BY DEF WriterCaches
<1>4. cache' \in [Runs -> Nat] /\ \A r \in Runs : cache'[r] <= meta.reserved
  <2>1. writer[w].seq \in Nat /\ writer[w].seq <= meta.reserved
    BY DEF StoreInv, TypeInv, WriterType, CountInv
  <2>2. cache' = CacheRun(cache, RunOf[w], writer[w].seq)
    BY DEF WriterCaches
  <2> QED BY <2>1, <2>2, StillKnown DEF CacheRun
<1> QED BY <1>2, <1>3, <1>4, SameMeta, StillKnown, WriterKeeps

\* Promoting the metadata to a committed entry keeps the invariant.
LEMMA WriterPromoteKeeps ==
    ASSUME StoreInv, NEW w \in Writers, WriterPromotes(w)
    PROVE  StoreInv'
<1>1. <<"Cached", "ReleaseOk">> \in Hops
  BY DEF Hops
<1>2. /\ writer' \in [Writers -> WriterType] /\ Along(writer[w], writer'[w])
      /\ \A v \in Writers : v # w => writer'[v] = writer[v]
      /\ writer[w].pc = "Cached"
  BY <1>1, HopIs DEF WriterPromotes
<1>3. /\ UNCHANGED <<stream, committed, OthersThanWriters>>
      /\ known' = known /\ troubles' = troubles /\ hierarchy' = hierarchy
      /\ wal' = wal /\ flushed' = flushed /\ cache' = cache
  BY DEF WriterPromotes
<1>4. Sound(meta')
  <2>1. writer[w].seq \in Commits
    BY <1>2 DEF StoreInv, OriginInv, WriterOrigin, Kept
  <2>2. writer[w].js \in Nat /\ EntryOf(writer[w].js, writer[w].seq)
    BY <1>2 DEF StoreInv, TypeInv, WriterType, StreamInv
  <2>3. meta' = Promote(meta, writer[w].seq, writer[w].js)
    BY DEF WriterPromotes
  <2> QED BY <2>1, <2>2, <2>3, PromoteKeeps
<1> QED BY <1>2, <1>3, <1>4, SameMeta, StillKnown, WriterKeeps

\* Aborting one's own entry keeps the invariant: a committed one is left alone.
LEMMA WriterAbortKeeps ==
    ASSUME StoreInv, NEW w \in Writers, WriterAborts(w)
    PROVE  StoreInv'
<1>1. <<"Abort", "ReleaseErr">> \in Hops
  BY DEF Hops
<1>2. /\ writer' \in [Writers -> WriterType] /\ Along(writer[w], writer'[w])
      /\ \A v \in Writers : v # w => writer'[v] = writer[v]
  BY <1>1, HopIs DEF WriterAborts
<1>3. /\ UNCHANGED <<stream, committed, OthersThanWriters>>
      /\ known' = known /\ troubles' \in {troubles, troubles + 1} /\ hierarchy' = hierarchy
      /\ meta' = meta /\ flushed' = flushed /\ cache' = cache
  BY DEF WriterAborts, Trouble
<1>4. Weaker(wal')
  <2>0. wal \in [Seqs -> WalType]
    BY DEF StoreInv, TypeInv, StoreTypes
  <2>1. wal' = wal \/ wal' = [wal EXCEPT ![writer[w].seq].status = "Aborted"]
    BY DEF WriterAborts
  <2>2. CASE wal' = [wal EXCEPT ![writer[w].seq].status = "Aborted"]
    <3> DEFINE s == writer[w].seq
               p == [wal[s] EXCEPT !.status = "Aborted"]
    <3>1. ASSUME s \in Seqs PROVE p \in WalType /\ p.status = "Aborted" /\ p.js = wal[s].js
      BY <2>0, <3>1 DEF WalType
    <3>2. wal' = [wal EXCEPT ![s] = p]
      BY <2>0, <2>2
    <3> HIDE DEF p, s
    <3> QED BY <2>0, <3>1, <3>2 DEF Weaker
  <2> QED BY <2>1, <2>2, SameMeta
<1> QED BY <1>2, <1>3, <1>4, SameMeta, StillKnown, WriterKeeps

\* A call that returns Ok has committed its number, one that returns Err has not.
LEMMA WriterReturnKeeps ==
    ASSUME StoreInv, NEW w \in Writers, WriterReturns(w)
    PROVE  StoreInv'
<1>1. PICK hop \in {<<"ReleaseOk", "Ok">>, <<"ReleaseErr", "Err">>,
                     <<"ReleaseUnknown", "Unknown">>, <<"ReleaseUnsure", "Unsure">>} :
         /\ Goto(w, hop[1], hop[2])
         /\ Released(hierarchy, w)
         /\ known' = IF hop[2] = "Ok" THEN [known EXCEPT !.ok = Max({@, writer[w].seq})] ELSE known
         /\ UNCHANGED <<kv, stream, committed, troubles, OthersThanWriters>>
  BY DEF WriterReturns
<1>2. <<hop[1], hop[2]>> \in Hops
      /\ (hop[2] = "Ok" => hop[1] = "ReleaseOk")
  BY DEF Hops
<1>3. /\ writer' \in [Writers -> WriterType] /\ Along(writer[w], writer'[w])
      /\ \A v \in Writers : v # w => writer'[v] = writer[v]
      /\ writer[w].pc = hop[1]
  BY <1>1, <1>2, HopIs
<1>4. known' \in KnownType /\ known'.ok \in {0} \cup Commits
  <2>1. CASE hop[2] = "Ok"
    <3>1. writer[w].seq \in Commits /\ writer[w].seq \in Nat
      BY <1>2, <1>3, <2>1, CommitFacts DEF StoreInv, OriginInv, WriterOrigin, Kept
    <3>2. known.ok \in Nat /\ known \in KnownType
      BY StillKnown DEF KnownType
    <3>3. Max({known.ok, writer[w].seq}) \in {known.ok, writer[w].seq}
      BY <3>1, <3>2, MaxOfTwo
    <3>4. known' = [known EXCEPT !.ok = Max({known.ok, writer[w].seq})]
      BY <1>1, <2>1
    <3>5. Max({known.ok, writer[w].seq}) \in Nat
          /\ Max({known.ok, writer[w].seq}) \in {0} \cup Commits
      BY <3>1, <3>2, <3>3, StillKnown
    <3> QED BY <3>2, <3>4, <3>5 DEF KnownType
  <2>2. CASE hop[2] # "Ok"
    BY <1>1, <2>2, StillKnown
  <2> QED BY <2>1, <2>2
<1>5. hierarchy' \in HierarchyType
  BY <1>1, ReleasedType
<1>6. troubles' \in Nat /\ UNCHANGED <<kv, stream, committed, OthersThanWriters>>
  BY <1>1, StillKnown
<1> QED BY <1>3, <1>4, <1>5, <1>6, WriterMoves

\* A claim that is not released for sure keeps the invariant.
LEMMA WriterReleaseFailKeeps ==
    ASSUME StoreInv, NEW w \in Writers, WriterReleaseFails(w)
    PROVE  StoreInv'
<1>1. PICK hop \in {<<"ReleaseOk", "Unsure">>, <<"ReleaseErr", "Err">>,
                     <<"ReleaseUnknown", "Unknown">>, <<"ReleaseUnsure", "Unsure">>} :
         /\ Trouble
         /\ Goto(w, hop[1], hop[2])
         /\ Released(hierarchy, w) \/ UNCHANGED hierarchy
         /\ UNCHANGED <<kv, stream, committed, known, OthersThanWriters>>
  BY DEF WriterReleaseFails
<1>2. <<hop[1], hop[2]>> \in Hops
  BY DEF Hops
<1>3. /\ writer' \in [Writers -> WriterType] /\ Along(writer[w], writer'[w])
      /\ \A v \in Writers : v # w => writer'[v] = writer[v]
  BY <1>1, <1>2, HopIs
<1>4. hierarchy' \in HierarchyType
  BY <1>1, ReleasedType, StillKnown
<1>5. /\ known' \in KnownType /\ known'.ok \in {0} \cup Commits /\ troubles' \in Nat
      /\ UNCHANGED <<kv, stream, committed, OthersThanWriters>>
  BY <1>1, StillKnown DEF Trouble
<1> QED BY <1>3, <1>4, <1>5, WriterMoves

\* Reserving takes the next number, which nobody has and nothing is committed under.
LEMMA WriterReserveKeeps ==
    ASSUME StoreInv, NEW w \in Writers, WriterReserves(w)
    PROVE  StoreInv'
<1>0. /\ stream' = stream /\ committed' = committed /\ flushing' = flushing /\ inner' = inner
      /\ flusher' = flusher /\ deleter' = deleter /\ reader' = reader /\ acked' = acked
      /\ flushed' = flushed /\ wal' = wal /\ cache' = cache /\ hierarchy' = hierarchy
      /\ known' = known /\ troubles' = troubles
  BY DEF WriterReserves, OthersThanWriters
<1>1. /\ writer[w].pc = "Overlaid" /\ writer[w].seq = 0
      /\ meta'.reserved = meta.reserved + 1 /\ meta'.latest = meta.latest
      /\ meta'.latestJs = meta.latestJs
      /\ writer' \in [Writers -> WriterType]
      /\ writer'[w].pc = "Reserved" /\ writer'[w].seq = meta.reserved + 1
      /\ \A v \in Writers : v # w => writer'[v] = writer[v]
  BY ReserveIs
<1>2. /\ meta.reserved \in Nat /\ meta.latest \in Nat /\ meta.latestJs \in Nat
      /\ flushed \in Nat /\ deleter.target \in Nat
      /\ \A r \in Runs : cache[r] \in Nat
      /\ \A v \in Writers : writer[v].seq \in Nat
  BY DEF StoreInv, TypeInv, StoreTypes, MetaType, DeleterType, WriterType
<1>3. meta.reserved + 1 \in Seqs /\ meta.reserved + 1 # 0
      /\ Cardinality(Numbered \cup {w}) = Cardinality(Numbered) + 1
      /\ Cardinality(Numbered) \in Nat
  BY <1>1, <1>2, NextNumber, Bounds DEF StoreInv
<1>4. Commits' = Commits /\ \A s \in Commits : s <= meta.reserved /\ s \in Nat
  BY <1>0, CommitFacts DEF Commits
<1>5. TypeInv'
  <2>1. meta' \in MetaType
    BY ReserveIs, <1>2 DEF MetaType
  <2> QED BY <2>1, <1>0, <1>1 DEF StoreInv, TypeInv, StoreTypes, FlusherTypes, ClaimTypes
<1>6. CountInv'
  <2>1. Numbered' = Numbered \cup {w}
    BY <1>1, <1>3 DEF Numbered
  <2>2. meta'.reserved <= Cardinality(Numbered')
    <3> HIDE DEF Numbered
    <3>1. meta.reserved <= Cardinality(Numbered)
      BY DEF StoreInv, CountInv
    <3> QED BY <2>1, <3>1, <1>1, <1>2, <1>3
  <2>3. meta'.latest <= meta'.reserved /\ flushed' <= meta'.reserved
        /\ deleter'.target <= meta'.reserved
        /\ \A r \in Runs : cache'[r] <= meta'.reserved
    BY <1>0, <1>1, <1>2 DEF StoreInv, CountInv
  <2>4. ASSUME NEW v \in Writers
        PROVE  /\ writer'[v].seq <= meta'.reserved
               /\ writer'[v].pc \in {"Idle", "Overlaid"} => writer'[v].seq = 0
               /\ writer'[v].pc \notin MayBeUnnumbered => writer'[v].seq # 0
    <3>1. CASE v = w
      BY <3>1, <1>1, <1>2, <1>3
    <3>2. CASE v # w
      <4>1. writer'[v] = writer[v]
        BY <3>2, <1>1
      <4>2. /\ writer[v].seq <= meta.reserved
            /\ writer[v].pc \in {"Idle", "Overlaid"} => writer[v].seq = 0
            /\ writer[v].pc \notin MayBeUnnumbered => writer[v].seq # 0
        BY DEF StoreInv, CountInv
      <4>3. writer[v].seq \in Nat /\ meta.reserved \in Nat
        BY <1>2
      <4>4. writer[v].seq <= meta'.reserved
        BY <4>2, <4>3, <1>1
      <4> QED BY <4>1, <4>2, <4>4
    <3> QED BY <3>1, <3>2
  <2>5. ASSUME NEW u \in Writers, NEW v \in Writers,
               writer'[u].seq = writer'[v].seq, writer'[u].seq # 0
        PROVE  u = v
    <3>1. \A x \in Writers : x # w => writer'[x].seq # meta.reserved + 1
      BY <1>1, <1>2 DEF StoreInv, CountInv
    <3> QED BY <2>5, <3>1, <1>1 DEF StoreInv, CountInv
  <2> QED BY <2>2, <2>3, <2>4, <2>5 DEF CountInv
<1>7. StreamInv'
  <2>1. ASSUME NEW n \in DOMAIN stream
        PROVE  \E v \in Writers :
                  /\ writer'[v].seq = stream[n].seq /\ RunOf[v] = stream[n].run
                  /\ writer'[v].pc \notin Unpublished
    BY <1>1 DEF StoreInv, StreamInv, Unpublished
  <2>2. ASSUME NEW v \in Writers, writer'[v].pc \in {"Published", "Committed", "Cached"}
        PROVE  EntryOf(writer'[v].js, writer'[v].seq)
    BY <1>1, <2>2 DEF StoreInv, StreamInv
  <2>3. SequenceNeverReused'
    BY <1>0 DEF StoreInv, StreamInv, SequenceNeverReused
  <2> QED BY <1>0, <2>1, <2>2, <2>3 DEF StreamInv, EntryOf
<1>8. OriginInv'
  <2>1. WriterOrigin'
    <3>1. meta.reserved + 1 \notin Commits
      BY <1>2, <1>4
    <3> QED BY <3>1, <1>1, <1>4 DEF StoreInv, OriginInv, WriterOrigin, Kept
  <2>2. \A s \in Commits : s <= meta'.reserved
    BY <1>1, <1>2, <1>4
  <2>3. WalOrigin' /\ MetaOrigin' /\ ReaderOrigin' /\ InnerOrigin'
    BY <1>0, <1>1, <1>4 DEF StoreInv, OriginInv, WalOrigin, MetaOrigin, ReaderOrigin,
       InnerOrigin, EntryOf
  <2>4. known'.ok \in {0} \cup Commits
    BY <1>0, StillKnown
  <2> QED BY <1>4, <2>1, <2>2, <2>3, <2>4 DEF OriginInv
<1>9. BatchInv'
  BY <1>0 DEF StoreInv, BatchInv, Batch, Commits
<1> QED BY <1>5, <1>6, <1>7, <1>8, <1>9 DEF StoreInv

\* An entry is published at most once, by the one writer of its number.
LEMMA PublishKeeps ==
    ASSUME StoreInv, NEW w \in Writers, writer[w].pc = "Prepared",
           stream' = Append(stream, [seq |-> writer[w].seq, run |-> RunOf[w]]),
           writer' \in [Writers -> WriterType], writer'[w].seq = writer[w].seq,
           \/ writer'[w].pc = "Published" /\ writer'[w].js = Len(stream) + 1
           \/ writer'[w].pc = "Abort",
           \A v \in Writers : v # w => writer'[v] = writer[v],
           UNCHANGED <<kv, hierarchy, committed, known, OthersThanWriters>>,
           troubles' \in Nat
    PROVE  StoreInv'
<1>0. /\ committed' = committed /\ flushing' = flushing /\ inner' = inner
      /\ flusher' = flusher /\ deleter' = deleter /\ reader' = reader /\ acked' = acked
      /\ flushed' = flushed /\ wal' = wal /\ cache' = cache /\ hierarchy' = hierarchy
      /\ known' = known /\ meta' = meta
  BY DEF kv, OthersThanWriters
<1> DEFINE e == [seq |-> writer[w].seq, run |-> RunOf[w]]
           k == Len(stream) + 1
<1>1. writer[w].seq \in Seqs /\ writer[w].seq # 0
  BY Bounds DEF StoreInv, CountInv, MayBeUnnumbered
<1>2. e \in EntryType /\ e.seq = writer[w].seq /\ e.run = RunOf[w]
  BY <1>1, BufferedAssumption DEF EntryType
<1>3. stream \in Seq(EntryType)
  BY DEF StoreInv, TypeInv, StoreTypes
<1> HIDE DEF e
<1>4. /\ stream' \in Seq(EntryType) /\ k \in Nat /\ k \notin DOMAIN stream
      /\ DOMAIN stream' = DOMAIN stream \cup {k} /\ stream'[k] = e
      /\ \A n \in DOMAIN stream : stream'[n] = stream[n]
  <2>1. stream' = Append(stream, e)
    BY DEF e
  <2> QED BY <2>1, <1>2, <1>3, AppendIs
<1> HIDE DEF k
<1>5. Commits' = Commits
  BY <1>0 DEF Commits
<1>7. TypeInv'
  <2>1. StoreTypes'
    BY <1>0, <1>4 DEF StoreInv, TypeInv, StoreTypes
  <2>2. FlusherTypes'
    BY <1>0, <1>4 DEF StoreInv, TypeInv, FlusherTypes
  <2> QED BY <1>0, <2>1, <2>2 DEF StoreInv, TypeInv, ClaimTypes
<1>8. \A v \in Writers : writer'[v].seq = writer[v].seq
  OBVIOUS
<1>9. CountInv'
  <2>1. Numbered' = Numbered
    BY <1>8 DEF Numbered
  <2>2. meta'.reserved <= Cardinality(Numbered)'
    BY <2>1, <1>0 DEF StoreInv, CountInv
  <2>3. ASSUME NEW v \in Writers
        PROVE  /\ writer'[v].seq <= meta'.reserved
               /\ writer'[v].pc \in {"Idle", "Overlaid"} => writer'[v].seq = 0
               /\ writer'[v].pc \notin MayBeUnnumbered => writer'[v].seq # 0
    BY <1>0, <1>1, <1>8 DEF StoreInv, CountInv
  <2>4. ASSUME NEW u \in Writers, NEW v \in Writers
        PROVE  writer'[u].seq = writer'[v].seq /\ writer'[u].seq # 0 => u = v
    BY <1>8 DEF StoreInv, CountInv
  <2>5. /\ meta'.latest <= meta'.reserved /\ flushed' <= meta'.reserved
        /\ deleter'.target <= meta'.reserved
        /\ \A r \in Runs : cache'[r] <= meta'.reserved
    BY <1>0 DEF StoreInv, CountInv
  <2> QED BY <2>2, <2>3, <2>4, <2>5 DEF CountInv
<1>10. StreamInv'
  <2>1. \A n \in DOMAIN stream : stream[n].seq # writer[w].seq
    <3>1. ASSUME NEW n \in DOMAIN stream PROVE stream[n].seq # writer[w].seq
      <4>1. PICK v \in Writers : writer[v].seq = stream[n].seq /\ writer[v].pc \notin Unpublished
        BY DEF StoreInv, StreamInv
      <4>2. v # w
        BY <4>1 DEF Unpublished
      <4> QED BY <4>1, <4>2, <1>1 DEF StoreInv, CountInv
    <3> QED BY <3>1
  <2>2. SequenceNeverReused'
    BY <2>1, <1>2, <1>4 DEF StoreInv, StreamInv, SequenceNeverReused
  <2>3. ASSUME NEW n \in DOMAIN stream'
        PROVE  \E v \in Writers :
                  /\ writer'[v].seq = stream'[n].seq /\ RunOf[v] = stream'[n].run
                  /\ writer'[v].pc \notin Unpublished
    <3>1. CASE n = k
      BY <3>1, <1>2, <1>4 DEF Unpublished
    <3>2. CASE n \in DOMAIN stream
      <4>1. PICK v \in Writers : /\ writer[v].seq = stream[n].seq /\ RunOf[v] = stream[n].run
                                 /\ writer[v].pc \notin Unpublished
        BY <3>2 DEF StoreInv, StreamInv
      <4>2. v # w
        BY <4>1 DEF Unpublished
      <4> QED BY <3>2, <4>1, <4>2, <1>4
    <3> QED BY <3>1, <3>2, <1>4
  <2>4. ASSUME NEW v \in Writers, writer'[v].pc \in {"Published", "Committed", "Cached"}
        PROVE  /\ writer'[v].js \in DOMAIN stream'
               /\ stream'[writer'[v].js].seq = writer'[v].seq
    <3>1. CASE v = w
      <4>1. writer'[w].js = k
        BY <2>4, <3>1 DEF k
      <4> QED BY <3>1, <4>1, <1>2, <1>4
    <3>2. CASE v # w
      <4>1. writer'[v] = writer[v] /\ EntryOf(writer[v].js, writer[v].seq)
        BY <2>4, <3>2 DEF StoreInv, StreamInv
      <4> QED BY <4>1, <1>4 DEF EntryOf
    <3> QED BY <3>1, <3>2
  <2> QED BY <2>2, <2>3, <2>4 DEF StreamInv, EntryOf
<1>11. OriginInv'
  <2>1. WriterOrigin'
    BY <1>5, <1>8 DEF StoreInv, OriginInv, WriterOrigin, Kept
  <2>2. WalOrigin'
    <3>1. \A s \in Seqs :
             /\ wal[s].status = "Committed" => s \in Commits /\ EntryOf(wal[s].js, s)
             /\ wal[s].js # 0 => wal[s].js \in DOMAIN stream
      BY DEF StoreInv, OriginInv, WalOrigin
    <3> QED BY <1>0, <1>4, <1>5, <3>1 DEF WalOrigin, EntryOf
  <2>3. MetaOrigin' /\ ReaderOrigin'
    BY <1>0, <1>4, <1>5 DEF StoreInv, OriginInv, MetaOrigin, ReaderOrigin, EntryOf
  <2>4. InnerOrigin' /\ known'.ok \in {0} \cup Commits' /\ \A s \in Commits' : s <= meta'.reserved
    BY <1>0, <1>5 DEF StoreInv, OriginInv, InnerOrigin
  <2> QED BY <2>1, <2>2, <2>3, <2>4 DEF OriginInv
<1>12. BatchInv'
  <2>1. \A f \in Flushers : Batch(f)' = Batch(f)
    <3>1. ASSUME NEW f \in Flushers PROVE Batch(f)' = Batch(f)
      BY <1>0, <1>4, TopIs DEF Batch
    <3> QED BY <3>1
  <2> QED BY <1>0, <1>5, <2>1 DEF StoreInv, BatchInv
<1> QED BY <1>7, <1>9, <1>10, <1>11, <1>12 DEF StoreInv

\* A publish keeps the invariant, whether its acknowledgement arrives or not.
LEMMA WriterPublishKeeps ==
    ASSUME StoreInv, NEW w \in Writers, WriterPublishes(w) \/ WriterPublishFails(w)
    PROVE  StoreInv'
<1>1. CASE WriterPublishes(w)
  <2>1. /\ UNCHANGED <<kv, hierarchy, committed, known, OthersThanWriters>>
        /\ troubles' \in Nat
    BY <1>1, StillKnown DEF WriterPublishes
  <2> QED BY <1>1, <2>1, PublishIs, PublishKeeps
<1>2. CASE WriterPublishFails(w)
  <2>1. /\ UNCHANGED <<kv, hierarchy, committed, known, OthersThanWriters>>
        /\ troubles' \in Nat
    BY <1>2, StillKnown DEF WriterPublishFails, Trouble
  <2>2. <<"Prepared", "Abort">> \in Hops /\ Goto(w, "Prepared", "Abort")
    BY <1>2 DEF Hops, WriterPublishFails
  <2>3. /\ writer' \in [Writers -> WriterType] /\ Along(writer[w], writer'[w])
        /\ \A v \in Writers : v # w => writer'[v] = writer[v]
        /\ writer[w].pc = "Prepared" /\ writer'[w].pc = "Abort" /\ writer'[w].seq = writer[w].seq
    BY <2>2, HopIs DEF Moved
  <2>4. CASE stream' = stream
    <3>1. UNCHANGED <<kv, stream, committed, OthersThanWriters>> /\ hierarchy' = hierarchy
          /\ known' = known
      BY <2>1, <2>4
    <3> QED BY <2>1, <2>3, <3>1, StillKnown, WriterMoves
  <2>5. CASE stream' = Append(stream, [seq |-> writer[w].seq, run |-> RunOf[w]])
    BY <2>1, <2>3, <2>5, PublishKeeps
  <2> QED BY <1>2, <2>4, <2>5 DEF WriterPublishFails
<1> QED BY <1>1, <1>2

\* A commit, whether its answers arrive or not.
Commitment(w) == WriterCommits(w) \/ WriterCommitUnsure(w)

LEMMA CommitmentIs ==
    ASSUME StoreInv, NEW w, Commitment(w)
    PROVE  /\ \E to \in {"Committed", "ReleaseUnsure"} : CommitTo(w, to)
           /\ troubles' \in Nat
BY StillKnown DEF Commitment, WriterCommits, WriterCommitUnsure, Trouble

\* What is committed is in the log, and its writer has not failed.
LEMMA WriterCommitKeeps ==
    ASSUME StoreInv, NEW w \in Writers, Commitment(w)
    PROVE  StoreInv'
<1> DEFINE s == writer[w].seq
<1>a. PICK to \in {"Committed", "ReleaseUnsure"} : CommitTo(w, to)
  BY CommitmentIs
<1>b. troubles' \in Nat
  BY CommitmentIs
<1>0. /\ stream' = stream /\ flushing' = flushing /\ inner' = inner
      /\ flusher' = flusher /\ deleter' = deleter /\ reader' = reader /\ acked' = acked
      /\ flushed' = flushed /\ meta' = meta /\ cache' = cache /\ hierarchy' = hierarchy
      /\ known' = known
  BY <1>a DEF CommitTo, OthersThanWriters
<1>1. writer[w].pc = "Published" /\ Moved(w, to)
  BY <1>a, GotoIs DEF CommitTo, WriterStage, StoreInv
<1>2. /\ writer' \in [Writers -> WriterType]
      /\ writer'[w].pc = to /\ writer'[w].seq = s /\ writer'[w].js = writer[w].js
      /\ \A v \in Writers : v # w => writer'[v] = writer[v]
  BY <1>1 DEF Moved
<1>3. s \in Seqs /\ s # 0 /\ EntryOf(writer[w].js, s) /\ s <= meta.reserved
      /\ writer[w].js \in Nat
  BY <1>1, Bounds DEF StoreInv, CountInv, MayBeUnnumbered, StreamInv, TypeInv, WriterType
<1>4. committed' \in Seq(Seqs) /\ Commits' = Commits \cup {s}
  BY <1>a, <1>3, CommitIs DEF CommitTo, StoreInv, TypeInv, StoreTypes
<1>5. wal' \in [Seqs -> WalType] /\ wal'[s].status = "Committed" /\ wal'[s].js = writer[w].js
      /\ \A t \in Seqs : t # s => wal'[t] = wal[t]
  <2>1. wal \in [Seqs -> WalType]
    BY DEF StoreInv, TypeInv, StoreTypes
  <2>2. wal' = [wal EXCEPT ![s].status = "Committed", ![s].js = writer[w].js]
    BY <1>a DEF CommitTo
  <2> DEFINE o == wal[s]
             j == writer[w].js
             p == [o EXCEPT !.status = "Committed", !.js = j]
  <2>3. o \in WalType /\ j \in Nat
    BY <2>1, <1>3
  <2>4. wal' = [wal EXCEPT ![s] = p]
    BY <2>1, <2>2
  <2> HIDE DEF o, j
  <2>5. p \in WalType /\ p.status = "Committed" /\ p.js = j
    BY <2>3 DEF WalType
  <2> HIDE DEF p, s
  <2> QED BY <2>1, <2>4, <2>5, <1>3 DEF j
<1> HIDE DEF s
<1>7. TypeInv'
  BY <1>b, <1>0, <1>2, <1>4, <1>5
     DEF StoreInv, TypeInv, StoreTypes, ClaimTypes, FlusherTypes
<1>8. \A v \in Writers : writer'[v].seq = writer[v].seq
  BY <1>2 DEF s
<1>9. CountInv'
  <2>1. Numbered' = Numbered
    BY <1>8 DEF Numbered
  <2>2. meta'.reserved <= Cardinality(Numbered)'
    BY <2>1, <1>0 DEF StoreInv, CountInv
  <2>3. ASSUME NEW v \in Writers
        PROVE  /\ writer'[v].seq <= meta'.reserved
               /\ writer'[v].pc \in {"Idle", "Overlaid"} => writer'[v].seq = 0
               /\ writer'[v].pc \notin MayBeUnnumbered => writer'[v].seq # 0
    BY <1>0, <1>2, <1>3, <1>8 DEF StoreInv, CountInv
  <2>4. ASSUME NEW u \in Writers, NEW v \in Writers
        PROVE  writer'[u].seq = writer'[v].seq /\ writer'[u].seq # 0 => u = v
    BY <1>8 DEF StoreInv, CountInv
  <2>5. /\ meta'.latest <= meta'.reserved /\ flushed' <= meta'.reserved
        /\ deleter'.target <= meta'.reserved
        /\ \A r \in Runs : cache'[r] <= meta'.reserved
    BY <1>0 DEF StoreInv, CountInv
  <2> QED BY <2>2, <2>3, <2>4, <2>5 DEF CountInv
<1>10. StreamInv'
  <2>1. ASSUME NEW n \in DOMAIN stream
        PROVE  \E v \in Writers :
                  /\ writer'[v].seq = stream[n].seq /\ RunOf[v] = stream[n].run
                  /\ writer'[v].pc \notin Unpublished
    <3>1. PICK v \in Writers : /\ writer[v].seq = stream[n].seq /\ RunOf[v] = stream[n].run
                               /\ writer[v].pc \notin Unpublished
      BY DEF StoreInv, StreamInv
    <3>2. writer'[v].pc \notin Unpublished
      BY <3>1, <1>2 DEF Unpublished
    <3> QED BY <3>1, <3>2, <1>8
  <2>2. ASSUME NEW v \in Writers, writer'[v].pc \in {"Published", "Committed", "Cached"}
        PROVE  EntryOf(writer'[v].js, writer'[v].seq)
    BY <1>2, <1>3, <2>2 DEF StoreInv, StreamInv
  <2>3. SequenceNeverReused'
    BY <1>0 DEF StoreInv, StreamInv, SequenceNeverReused
  <2> QED BY <1>0, <2>1, <2>2, <2>3 DEF StreamInv, EntryOf
<1>11. OriginInv'
  <2>1. WriterOrigin'
    <3>1. ASSUME NEW v \in Writers, v # w PROVE writer[v].seq # s
      BY <3>1, <1>3 DEF StoreInv, CountInv, s
    <3>2. ASSUME NEW v \in Writers
          PROVE  /\ writer'[v].pc \in Kept => writer'[v].seq \in Commits'
                 /\ writer'[v].pc \notin Kept \cup {"Dead"} => writer'[v].seq \notin Commits'
      <4>1. CASE v = w
        BY <4>1, <1>2, <1>4 DEF Kept
      <4>2. CASE v # w
        BY <4>2, <3>1, <1>2, <1>4 DEF StoreInv, OriginInv, WriterOrigin
      <4> QED BY <4>1, <4>2
    <3> QED BY <3>2 DEF WriterOrigin
  <2>2. WalOrigin'
    <3>1. \A t \in Seqs :
             /\ wal'[t].status = "Committed" => t \in Commits' /\ EntryOf(wal'[t].js, t)
             /\ wal'[t].js # 0 => wal'[t].js \in DOMAIN stream
      BY <1>3, <1>4, <1>5 DEF StoreInv, OriginInv, WalOrigin, EntryOf
    <3> QED BY <1>0, <3>1 DEF WalOrigin, EntryOf
  <2>3. MetaOrigin' /\ ReaderOrigin' /\ InnerOrigin'
    BY <1>0, <1>4 DEF StoreInv, OriginInv, MetaOrigin, ReaderOrigin, InnerOrigin, EntryOf
  <2>4. known'.ok \in {0} \cup Commits' /\ \A t \in Commits' : t <= meta'.reserved
    BY <1>0, <1>3, <1>4 DEF StoreInv, OriginInv
  <2> QED BY <2>1, <2>2, <2>3, <2>4 DEF OriginInv
<1>12. BatchInv'
  <2>1. \A f \in Flushers : Batch(f)' = Batch(f)
    BY <1>0 DEF Batch
  <2> QED BY <1>0, <1>4, <2>1 DEF StoreInv, BatchInv
<1> QED BY <1>7, <1>9, <1>10, <1>11, <1>12 DEF StoreInv

\* Every step of a writer keeps the invariant.
LEMMA WriterStoreStep ==
    ASSUME StoreInv, NEW w \in Writers, WriterStep(w) \/ WriterTrouble(w)
    PROVE  StoreInv'
BY WriterHops, WriterCrashKeeps, WriterClaimKeeps, WriterReserveKeeps, WriterPrepareKeeps,
   WriterPublishKeeps, WriterCommitKeeps, WriterCacheKeeps, WriterPromoteKeeps, WriterAbortKeeps,
   WriterReturnKeeps, WriterReleaseFailKeeps DEF WriterStep, WriterTrouble, Commitment

-----------------------------------------------------------------------------
(* The steps of a flusher.                                                 *)

SeqsAt(ms) == {stream[m].seq : m \in ms}

\* What a flusher may have in hand.
Fit(x) ==
    /\ x.todo \subseteq DOMAIN stream /\ x.good \subseteq DOMAIN stream
    /\ x.drop \subseteq DOMAIN stream
    /\ SeqsAt(x.good) \subseteq Commits
    /\ x.pc = "Run" => x.runs # {} /\ x.runs \subseteq SeqsAt(x.good)
    /\ x.pc \in Guarded => x.good # {}

\* The state of a flusher fits the log.
LEMMA FitIs ==
    ASSUME StoreInv, NEW f \in Flushers
    PROVE  Fit(flusher[f]) /\ SeqsAt(flusher[f].good) = Batch(f)
<1>1. SeqsAt(flusher[f].good) = Batch(f)
  BY DEF SeqsAt, Batch
<1>2. /\ flusher[f].todo \subseteq DOMAIN stream /\ flusher[f].good \subseteq DOMAIN stream
      /\ flusher[f].drop \subseteq DOMAIN stream
  BY DEF StoreInv, TypeInv, FlusherTypes
<1> QED BY <1>1, <1>2 DEF StoreInv, BatchInv, Fit

\* A flusher whose next state fits the log, and that stores committed content, keeps the
\* invariant.
LEMMA FlusherKeeps ==
    ASSUME StoreInv, NEW f \in Flushers, NEW x, Turned(f, x), Fit(x),
           UNCHANGED OthersThanFlushers, cache' = cache,
           Weaker(wal'), Sound(meta'), flushed' \in Nat, flushed' <= meta.reserved,
           acked' \subseteq DOMAIN stream, flushing' \in FlushingType,
           inner' \in InnerType, InnerOrigin', troubles' \in Nat
    PROVE  StoreInv'
<1>0. /\ hierarchy' = hierarchy /\ writer' = writer /\ deleter' = deleter /\ reader' = reader
      /\ stream' = stream /\ committed' = committed /\ known' = known
  BY DEF OthersThanFlushers
<1>1. /\ flusher' \in [Flushers -> FlusherType] /\ flusher'[f] = x
      /\ \A g \in Flushers : g # f => flusher'[g] = flusher[g]
  BY DEF Turned
<1>2. \A g \in Flushers : Fit(flusher'[g])
  BY <1>1, FitIs
<1>3. StoreTypes'
  <2>1. meta' \in MetaType /\ wal' \in [Seqs -> WalType]
    BY DEF Sound, Weaker
  <2>2. stream' \in Seq(EntryType) /\ committed' \in Seq(Seqs) /\ cache' \in [Runs -> Nat]
    BY <1>0 DEF StoreInv, TypeInv, StoreTypes
  <2>3. acked' \subseteq DOMAIN stream'
    BY <1>0
  <2> QED BY <2>1, <2>2, <2>3 DEF StoreTypes
<1>4. FlusherTypes'
  <2>1. ASSUME NEW g \in Flushers
        PROVE  flusher'[g].todo \cup flusher'[g].good \cup flusher'[g].drop \subseteq DOMAIN stream
    BY <1>2 DEF Fit
  <2> QED BY <1>0, <1>1, <2>1 DEF FlusherTypes
<1>5. TypeInv'
  BY <1>0, <1>3, <1>4 DEF StoreInv, TypeInv, ClaimTypes
<1>6. BatchInv'
  <2>1. ASSUME NEW g \in Flushers
        PROVE  /\ Batch(g)' \subseteq Commits
               /\ flusher'[g].pc = "Run" => flusher'[g].runs # {} /\ flusher'[g].runs \subseteq Batch(g)'
               /\ flusher'[g].pc \in Guarded => flusher'[g].good # {}
    <3>1. Batch(g)' = SeqsAt(flusher'[g].good)
      BY <1>0 DEF Batch, SeqsAt
    <3> QED BY <1>2, <3>1 DEF Fit
  <2>2. Commits' = Commits
    BY <1>0 DEF Commits
  <2> QED BY <2>1, <2>2 DEF BatchInv
<1>7. WalOrigin' /\ MetaOrigin'
  BY <1>0, WalKept, MetaKept
<1>8. ReaderOrigin'
  BY <1>0 DEF StoreInv, OriginInv, ReaderOrigin, EntryOf, Commits
<1>9. \A w \in Writers : Along(writer[w], writer'[w])
  BY <1>0 DEF Along
<1>10. deleter'.target <= meta.reserved /\ meta'.reserved = meta.reserved
       /\ meta'.latest <= meta.reserved /\ known'.ok \in {0} \cup Commits
  BY <1>0, StillKnown DEF Sound, StoreInv, CountInv
<1>11. \A r \in Runs : cache'[r] <= meta.reserved
  BY StillKnown
<1> QED BY <1>0, <1>5, <1>6, <1>7, <1>8, <1>9, <1>10, <1>11, QuietKeeps

\* A flusher that stores nothing keeps the invariant when its next state fits the log.
LEMMA FlusherMoves ==
    ASSUME StoreInv, NEW f \in Flushers, NEW x, Turned(f, x), Fit(x),
           UNCHANGED <<kv, acked, inner, OthersThanFlushers>>,
           flushing' \in FlushingType, troubles' \in Nat
    PROVE  StoreInv'
<1>1. /\ meta' = meta /\ wal' = wal /\ flushed' = flushed /\ cache' = cache
      /\ acked' = acked /\ inner' = inner /\ committed' = committed
  BY DEF kv, OthersThanFlushers
<1>2. flushed \in Nat /\ flushed <= meta.reserved /\ acked \subseteq DOMAIN stream /\ inner \in InnerType
  BY DEF StoreInv, TypeInv, StoreTypes, CountInv
<1>3. InnerOrigin'
  BY <1>1 DEF StoreInv, OriginInv, InnerOrigin, Commits
<1>4. UNCHANGED OthersThanFlushers
  OBVIOUS
<1> QED BY <1>1, <1>2, <1>3, <1>4, SameMeta, FlusherKeeps

\* The same for the steps that leave all but the metadata and the commit states.
LEMMA FlusherStores ==
    ASSUME StoreInv, NEW f \in Flushers, NEW x, Turned(f, x), Fit(x),
           UNCHANGED <<cache, inner, flushing, OthersThanFlushers>>,
           Weaker(wal'), Sound(meta'), flushed' \in Nat, flushed' <= meta.reserved,
           acked' \subseteq DOMAIN stream, troubles' \in Nat
    PROVE  StoreInv'
<1>1. inner' = inner /\ cache' = cache /\ flushing' = flushing /\ committed' = committed
  BY DEF OthersThanFlushers
<1>2. flushing \in FlushingType /\ inner \in InnerType
  BY DEF StoreInv, TypeInv, StoreTypes, ClaimTypes
<1>3. InnerOrigin'
  BY <1>1 DEF StoreInv, OriginInv, InnerOrigin, Commits
<1>4. UNCHANGED OthersThanFlushers
  OBVIOUS
<1> QED BY <1>1, <1>2, <1>3, <1>4, FlusherKeeps

\* What a flusher's step may leave as it is.
LEMMA FlusherStill ==
    ASSUME StoreInv
    PROVE  /\ flushing \in FlushingType /\ troubles \in Nat /\ troubles + 1 \in Nat
           /\ flushed \in Nat /\ flushed <= meta.reserved /\ acked \subseteq DOMAIN stream
           /\ inner \in InnerType
           /\ \A p : Released(flushing, p) => flushing' \in FlushingType
           /\ \A f \in Flushers : Acquired(flushing, f) => flushing' \in FlushingType
<1>1. /\ flushing \in FlushingType /\ troubles \in Nat /\ troubles + 1 \in Nat
      /\ flushed \in Nat /\ flushed <= meta.reserved /\ acked \subseteq DOMAIN stream
      /\ inner \in InnerType
  BY DEF StoreInv, TypeInv, StoreTypes, ClaimTypes, CountInv
<1>2. ASSUME NEW p, Released(flushing, p) PROVE flushing' \in FlushingType
  BY <1>1, <1>2 DEF Released, FlushingType
<1>3. ASSUME NEW f \in Flushers, Acquired(flushing, f) PROVE flushing' \in FlushingType
  BY <1>3 DEF Acquired, FlushingType
<1> QED BY <1>1, <1>2, <1>3

\* The steps that change nothing but the flusher and its claim.
LEMMA FlusherQuietKeeps ==
    ASSUME StoreInv, NEW f \in Flushers,
           \/ FlusherFetches(f) \/ FlusherClaims(f) \/ FlusherTimesOut(f) \/ FlusherLosesClaim(f)
           \/ FlusherFails(f) \/ FlusherCrashes(f) \/ FlusherReleases(f)
    PROVE  StoreInv'
<1>0. TypeInv /\ SeqsAt({}) = {}
  BY DEF StoreInv, SeqsAt
<1>e. flusher[f].todo \subseteq DOMAIN stream /\ flusher[f].good \subseteq DOMAIN stream
      /\ flusher[f].drop \subseteq DOMAIN stream /\ SeqsAt(flusher[f].good) \subseteq Commits
  BY FitIs DEF Fit
<1>1. CASE FlusherFetches(f)
  <2>1. PICK batch \in SUBSET DOMAIN stream :
           Turned(f, Turn(flusher[f], "Acquire", batch, {}, {}, flusher[f].runs))
    BY <1>0, <1>1, FetchTurns
  <2> DEFINE x == Turn(flusher[f], "Acquire", batch, {}, {}, flusher[f].runs)
  <2>2. Fit(x)
    BY <1>0 DEF Fit, Turn, Guarded
  <2>5. UNCHANGED <<kv, acked, flushing, inner, troubles, OthersThanFlushers>>
    BY <1>1, Zenon DEF FlusherFetches
  <2>3. UNCHANGED <<kv, acked, inner, OthersThanFlushers>> /\ flushing' \in FlushingType
        /\ troubles' \in Nat
    BY <2>5, FlusherStill
  <2>4. Turned(f, x)
    BY <2>1
  <2> HIDE DEF x
  <2> QED BY <2>2, <2>3, <2>4, FlusherMoves
<1>2. CASE FlusherClaims(f)
  <2> DEFINE x == [pc |-> "Classify", todo |-> flusher[f].todo, good |-> flusher[f].good,
                   drop |-> flusher[f].drop, runs |-> flusher[f].runs, at |-> flushed,
                   latest |-> meta.latest, late |-> flusher[f].late]
  <2>1. Turned(f, x)
    BY <1>0, <1>2, ClaimTurns
  <2>2. Fit(x)
    BY <1>e DEF Fit, Guarded
  <2>3. UNCHANGED <<kv, acked, inner, OthersThanFlushers>> /\ flushing' \in FlushingType
        /\ troubles' \in Nat
    BY <1>2, FlusherStill DEF FlusherClaims
  <2> HIDE DEF x
  <2> QED BY <2>1, <2>2, <2>3, FlusherMoves
<1>3. CASE FlusherTimesOut(f)
  <2> DEFINE x == Turn(flusher[f], "Idle", {}, flusher[f].good, flusher[f].drop, flusher[f].runs)
  <2>1. Turned(f, x)
    BY <1>0, <1>3, TimeoutTurns
  <2>2. Fit(x)
    BY <1>e DEF Fit, Guarded, Turn
  <2>3. UNCHANGED <<kv, acked, inner, OthersThanFlushers>> /\ flushing' \in FlushingType
        /\ troubles' \in Nat
    BY <1>3, FlusherStill DEF FlusherTimesOut
  <2> HIDE DEF x
  <2> QED BY <2>1, <2>2, <2>3, FlusherMoves
<1>4. CASE FlusherLosesClaim(f)
  <2> DEFINE x == Turn(flusher[f], "Finish", flusher[f].todo, {}, flusher[f].drop, flusher[f].runs)
  <2>1. Turned(f, x)
    BY <1>0, <1>4, LossTurns
  <2>2. Fit(x)
    BY <1>0, <1>e DEF Fit, Guarded, Turn
  <2>3. UNCHANGED <<kv, acked, inner, OthersThanFlushers>> /\ flushing' \in FlushingType
        /\ troubles' \in Nat
    BY <1>4, FlusherStill DEF FlusherLosesClaim
  <2> HIDE DEF x
  <2> QED BY <2>1, <2>2, <2>3, FlusherMoves
<1>5. CASE FlusherFails(f)
  <2> DEFINE x == Calm(Turn(flusher[f], "Finish", flusher[f].todo, {}, flusher[f].drop,
                            flusher[f].runs))
  <2>1. Turned(f, x)
    BY <1>0, <1>5, FailTurns
  <2>2. Fit(x)
    BY <1>0, <1>e DEF Fit, Guarded, Turn, Calm
  <2>3. UNCHANGED <<kv, acked, inner, OthersThanFlushers>> /\ flushing' \in FlushingType
        /\ troubles' \in Nat
    BY <1>5, FlusherStill DEF FlusherFails, Trouble
  <2> HIDE DEF x
  <2> QED BY <2>1, <2>2, <2>3, FlusherMoves
<1>6. CASE FlusherCrashes(f)
  <2> DEFINE x == [pc |-> "Idle", todo |-> {}, good |-> {}, drop |-> {}, runs |-> {},
                   at |-> 0, latest |-> 0, late |-> FALSE]
  <2>1. Turned(f, x)
    BY <1>0, <1>6, CrashTurns
  <2>2. Fit(x)
    BY <1>0, <1>e DEF Fit, Guarded
  <2>3. UNCHANGED <<kv, acked, inner, OthersThanFlushers>> /\ flushing' \in FlushingType
        /\ troubles' \in Nat
    BY <1>6, FlusherStill DEF FlusherCrashes, Trouble
  <2> HIDE DEF x
  <2> QED BY <2>1, <2>2, <2>3, FlusherMoves
<1>7. CASE FlusherReleases(f)
  <2> DEFINE x == [pc |-> "Idle", todo |-> flusher[f].todo, good |-> {}, drop |-> {},
                   runs |-> {}, at |-> 0, latest |-> 0, late |-> flusher[f].late]
  <2>1. Turned(f, x)
    BY <1>0, <1>7, ReleaseTurns
  <2>2. Fit(x)
    BY <1>0, <1>e DEF Fit, Guarded
  <2>3. UNCHANGED <<kv, acked, inner, OthersThanFlushers>> /\ flushing' \in FlushingType
        /\ troubles' \in Nat
    BY <1>7, FlusherStill DEF FlusherReleases
  <2> HIDE DEF x
  <2> QED BY <2>1, <2>2, <2>3, FlusherMoves
<1> QED BY <1>1, <1>2, <1>3, <1>4, <1>5, <1>6, <1>7

\* Settling an entry commits nothing, and what it finds committed was committed.
LEMMA SettleWeakens ==
    ASSUME StoreInv, NEW s \in Seqs
    PROVE  /\ Weaker(Settle(wal, s))
           /\ Settle(wal, s)[s].status = "Committed" => Settle(wal, s)[s] = wal[s] /\ s \in Commits
<1>1. wal \in [Seqs -> WalType]
  BY DEF StoreInv, TypeInv, StoreTypes
<1> DEFINE n == Settle(wal, s)
<1>2. n \in [Seqs -> WalType] /\ \A r \in Seqs : SettledTo(wal[r], n[r])
  BY <1>1, SettleIs
<1> HIDE DEF n
<1>3. ASSUME NEW r \in Seqs, n[r].status = "Committed" PROVE n[r] = wal[r]
  <2>1. wal[r] \in WalType
    BY <1>1
  <2>2. [wal[r] EXCEPT !.status = "Aborted"].status = "Aborted"
    BY <2>1 DEF WalType
  <2> QED BY <1>2, <1>3, <2>2 DEF SettledTo
<1>4. n[s].status = "Committed" => s \in Commits
  BY <1>3 DEF StoreInv, OriginInv, WalOrigin
<1>5. ASSUME NEW r \in Seqs PROVE n[r].js \in {0, wal[r].js}
  <2>1. wal[r] \in WalType
    BY <1>1
  <2>2. [wal[r] EXCEPT !.status = "Aborted"].js = wal[r].js
    BY <2>1 DEF WalType
  <2> QED BY <1>2, <2>2 DEF SettledTo
<1> QED BY <1>2, <1>3, <1>4, <1>5 DEF Weaker, n

\* Classifying an entry keeps the invariant.
LEMMA ClassifyKeeps ==
    ASSUME StoreInv, NEW f \in Flushers, FlusherClassifies(f)
    PROVE  StoreInv'
<1>0. TypeInv
  BY DEF StoreInv
<1>1. PICK m \in flusher[f].todo :
         LET s == stream[m].seq
             st == Settle(wal, s)[s]
         IN  /\ wal' = Settle(wal, s)
             /\ Turned(f, Turn(flusher[f], "Classify", flusher[f].todo \ {m},
                          IF st.status = "Committed" /\ st.js = m THEN flusher[f].good \cup {m}
                                                                 ELSE flusher[f].good,
                          IF \/ st.status = "Committed" /\ st.js # m
                             \/ st.status = "Aborted"
                             \/ st.status = "None" /\ s <= flusher[f].at
                          THEN flusher[f].drop \cup {m} ELSE flusher[f].drop,
                          flusher[f].runs))
  BY <1>0, ClassifyTurns
<1> DEFINE s == stream[m].seq
           st == Settle(wal, s)[s]
           good == IF st.status = "Committed" /\ st.js = m THEN flusher[f].good \cup {m}
                                                           ELSE flusher[f].good
           drop == IF \/ st.status = "Committed" /\ st.js # m
                      \/ st.status = "Aborted"
                      \/ st.status = "None" /\ s <= flusher[f].at
                   THEN flusher[f].drop \cup {m} ELSE flusher[f].drop
           x == Turn(flusher[f], "Classify", flusher[f].todo \ {m}, good, drop, flusher[f].runs)
<1>2. wal' = Settle(wal, s) /\ Turned(f, x)
  BY <1>1
<1>3. /\ flusher[f].todo \subseteq DOMAIN stream /\ flusher[f].good \subseteq DOMAIN stream
      /\ flusher[f].drop \subseteq DOMAIN stream /\ SeqsAt(flusher[f].good) \subseteq Commits
  BY FitIs DEF Fit
<1>4. m \in DOMAIN stream /\ s \in Seqs
  BY <1>3, CommitFacts DEF EntryType
<1>5. Weaker(wal') /\ (st.status = "Committed" => s \in Commits)
  BY <1>2, <1>4, SettleWeakens
<1>6. good \subseteq DOMAIN stream /\ drop \subseteq DOMAIN stream
  <2> HIDE DEF s, st
  <2> QED BY <1>3, <1>4
<1>7. SeqsAt(good) \subseteq Commits
  <2>1. good = flusher[f].good \/ (good = flusher[f].good \cup {m} /\ s \in Commits)
    BY <1>5
  <2> HIDE DEF good
  <2> QED BY <2>1, <1>3 DEF SeqsAt
<1> HIDE DEF good, drop, st
<1>8. Fit(x)
  BY <1>3, <1>6, <1>7 DEF Fit, Turn, Guarded
<1>9. UNCHANGED <<cache, inner, flushing, OthersThanFlushers>> /\ meta' = meta
      /\ flushed' = flushed /\ acked' = acked /\ troubles' = troubles
  BY DEF FlusherClassifies
<1> HIDE DEF x
<1> QED BY <1>2, <1>5, <1>8, <1>9, FlusherStill, SameMeta, FlusherStores

\* Passing over the runs flushed already keeps the invariant.
LEMMA StaleKeeps ==
    ASSUME StoreInv, NEW f \in Flushers, FlusherPersistsStale(f)
    PROVE  StoreInv'
<1> DEFINE S == RunSeqs(flusher[f].good)
           fresh == {s \in S : ~(s <= flusher[f].at)}
           to == IF fresh # {} THEN "Run"
                 ELSE IF flusher[f].good # {} /\ TopSeq(f) > flusher[f].latest
                 THEN "Promote" ELSE "Finish"
           x == Turn(flusher[f], to, {}, flusher[f].good, flusher[f].drop, fresh)
<1>1. Turned(f, x)
  BY StaleTurns
<1>2. S \subseteq Batch(f)
  BY RunSeqsIs
<1>3. fresh \subseteq SeqsAt(flusher[f].good)
  BY <1>2, FitIs
<1>4. to \in {"Run", "Promote", "Finish"} /\ (to = "Run" => fresh # {})
      /\ (to = "Promote" => flusher[f].good # {})
  <2> HIDE DEF fresh
  <2> QED OBVIOUS
<1>5. fresh # {} => flusher[f].good # {}
  BY <1>3 DEF SeqsAt
<1> HIDE DEF to, fresh
<1>6. Fit(x)
  BY <1>3, <1>4, <1>5, FitIs DEF Fit, Turn, Guarded
<1>7. InnerOrigin' /\ inner' \in InnerType
  <2>1. /\ inner' \in InnerType /\ inner'.thread = inner.thread /\ inner'.messages = inner.messages
        /\ \A r \in Runs : inner'.runs[r] # inner.runs[r] => inner'.runs[r] \in Batch(f)
    BY StaleIs
  <2>2. Batch(f) \subseteq Commits
    BY TopIs
  <2>3. Commits' = Commits
    BY DEF FlusherPersistsStale, OthersThanFlushers, Commits
  <2> QED BY <2>1, <2>2, <2>3 DEF StoreInv, OriginInv, InnerOrigin
<1>8. /\ UNCHANGED OthersThanFlushers /\ cache' = cache /\ wal' = wal /\ meta' = meta
      /\ flushed' = flushed /\ acked' = acked /\ flushing' = flushing /\ troubles' = troubles
  BY DEF FlusherPersistsStale, kv
<1> HIDE DEF x
<1> QED BY <1>1, <1>6, <1>7, <1>8, FlusherStill, SameMeta, FlusherKeeps

\* Writing a run record to the inner store keeps the invariant.
LEMMA CheckpointKeeps ==
    ASSUME StoreInv, NEW f \in Flushers, FlusherCheckpoints(f)
    PROVE  StoreInv'
<1> DEFINE s == Min(flusher[f].runs)
           to == IF flusher[f].runs = {s} THEN "Thread" ELSE "Run"
           x == Calm(Turn(flusher[f], to, flusher[f].todo, flusher[f].good, flusher[f].drop,
                          flusher[f].runs \ {s}))
<1>1. Turned(f, x) /\ flusher[f].pc = "Run"
  BY CheckpointTurns DEF StoreInv
<1>2. /\ s \in flusher[f].runs /\ s \in Batch(f) /\ RunAt(s) \in Runs /\ inner' \in InnerType
      /\ inner'.thread = s /\ inner'.messages = TopSeq(f)
      /\ inner'.runs = [inner.runs EXCEPT ![RunAt(s)] = s]
  BY CheckpointIs
<1> HIDE DEF s
<1>3. to \in {"Thread", "Run"} /\ (to = "Run" => flusher[f].runs \ {s} # {})
  BY <1>2
<1>4. flusher[f].good # {} /\ flusher[f].runs \subseteq SeqsAt(flusher[f].good)
  BY <1>1, FitIs DEF Fit, Guarded
<1> HIDE DEF to
<1>5. Fit(x)
  <2>1. flusher[f].runs \ {s} \subseteq SeqsAt(flusher[f].good)
    BY <1>4
  <2> QED BY <1>3, <1>4, <2>1, FitIs DEF Fit, Turn, Calm
<1>6. InnerOrigin'
  <2>1. s \in Commits /\ TopSeq(f) \in Commits
    BY <1>2, <1>4, TopIs
  <2>2. Commits' = Commits
    BY DEF FlusherCheckpoints, OthersThanFlushers, Commits
  <2>3. \A r \in Runs : inner'.runs[r] = s \/ inner'.runs[r] = inner.runs[r]
    BY <1>2 DEF StoreInv, TypeInv, StoreTypes, InnerType
  <2> QED BY <1>2, <2>1, <2>2, <2>3 DEF StoreInv, OriginInv, InnerOrigin
<1>7. /\ UNCHANGED OthersThanFlushers /\ cache' = cache /\ wal' = wal /\ meta' = meta
      /\ flushed' = flushed /\ acked' = acked /\ flushing' = flushing /\ troubles' = troubles
  BY DEF FlusherCheckpoints, kv
<1> HIDE DEF x
<1> QED BY <1>1, <1>2, <1>5, <1>6, <1>7, FlusherStill, SameMeta, FlusherKeeps

\* The inner store after one of its fields was saved.
LEMMA SavedIs ==
    ASSUME StoreInv, NEW c \in Commits, committed' = committed
    PROVE  /\ inner' = [inner EXCEPT !.thread = c] =>
                /\ inner' \in InnerType /\ InnerOrigin'
                /\ inner'.thread = c /\ inner'.messages = inner.messages /\ inner'.runs = inner.runs
           /\ inner' = [inner EXCEPT !.messages = c] =>
                /\ inner' \in InnerType /\ InnerOrigin'
                /\ inner'.thread = inner.thread /\ inner'.messages = c /\ inner'.runs = inner.runs
<1>1. inner \in InnerType /\ c \in Nat
  BY CommitFacts DEF StoreInv, TypeInv, StoreTypes
<1>2. InnerOrigin /\ Commits' = Commits
  BY DEF StoreInv, OriginInv, Commits
<1>3. ASSUME inner' = [inner EXCEPT !.thread = c]
      PROVE  /\ inner' \in InnerType
             /\ inner'.thread = c /\ inner'.messages = inner.messages /\ inner'.runs = inner.runs
  BY <1>1, <1>3 DEF InnerType
<1>4. ASSUME inner' = [inner EXCEPT !.messages = c]
      PROVE  /\ inner' \in InnerType
             /\ inner'.thread = inner.thread /\ inner'.messages = c /\ inner'.runs = inner.runs
  BY <1>1, <1>4 DEF InnerType
<1>5. ASSUME \/ inner' = [inner EXCEPT !.thread = c]
             \/ inner' = [inner EXCEPT !.messages = c]
      PROVE  InnerOrigin'
  BY <1>2, <1>3, <1>4, <1>5 DEF InnerOrigin
<1> QED BY <1>3, <1>4, <1>5

\* Saving the thread or its messages, and promoting or marking what was saved.
LEMMA MaterializeKeeps ==
    ASSUME StoreInv, NEW f \in Flushers,
           \/ FlusherSavesThread(f) \/ FlusherSavesMessages(f)
           \/ FlusherPromotes(f) \/ FlusherMarks(f)
    PROVE  StoreInv'
<1> DEFINE x(to) == Calm(Turn(flusher[f], to, flusher[f].todo, flusher[f].good,
                              flusher[f].drop, flusher[f].runs))
<1>1. flusher[f].pc \in Guarded
  BY DEF FlusherSavesThread, FlusherSavesMessages, FlusherPromotes, FlusherMarks, At, Guarded
<1>2. flusher[f].good # {} /\ TopSeq(f) \in Commits /\ TopSeq(f) \in Nat
      /\ TopSeq(f) <= meta.reserved /\ EntryOf(TopJs(f), TopSeq(f)) /\ TopJs(f) \in Nat
  BY <1>1, FitIs, TopIs, CommitFacts DEF Fit
<1>3. ASSUME NEW to \in {"Messages", "Promote", "Mark", "Finish"}, FlushGoto(f, to)
      PROVE  Turned(f, x(to)) /\ Fit(x(to))
  <2>1. Turned(f, x(to))
    BY <1>3, GotoTurns DEF StoreInv, FlusherStage
  <2>2. Fit(x(to))
    BY <1>2, FitIs DEF Fit, Turn, Calm
  <2> QED BY <2>1, <2>2
<1> HIDE DEF x
<1>6. CASE FlusherSavesThread(f)
  <2>1. /\ UNCHANGED OthersThanFlushers /\ cache' = cache /\ wal' = wal /\ meta' = meta
        /\ flushed' = flushed /\ acked' = acked /\ flushing' = flushing /\ troubles' = troubles
        /\ inner' = [inner EXCEPT !.thread = TopSeq(f)] /\ FlushGoto(f, "Messages")
        /\ committed' = committed
    BY <1>6 DEF FlusherSavesThread, kv, OthersThanFlushers
  <2>2. inner' \in InnerType /\ InnerOrigin'
    BY <2>1, <1>2, SavedIs
  <2> QED BY <2>1, <2>2, <1>3, FlusherStill, SameMeta, FlusherKeeps
<1>7. CASE FlusherSavesMessages(f)
  <2> DEFINE to == IF TopSeq(f) > flusher[f].latest THEN "Promote" ELSE "Mark"
  <2>1. /\ UNCHANGED OthersThanFlushers /\ cache' = cache /\ wal' = wal /\ meta' = meta
        /\ flushed' = flushed /\ acked' = acked /\ flushing' = flushing /\ troubles' = troubles
        /\ inner' = [inner EXCEPT !.messages = TopSeq(f)] /\ FlushGoto(f, to)
        /\ committed' = committed
    BY <1>7 DEF FlusherSavesMessages, kv, OthersThanFlushers
  <2>2. inner' \in InnerType /\ InnerOrigin'
    BY <2>1, <1>2, SavedIs
  <2>3. to \in {"Messages", "Promote", "Mark", "Finish"}
    OBVIOUS
  <2> HIDE DEF to
  <2> QED BY <2>1, <2>2, <2>3, <1>3, FlusherStill, SameMeta, FlusherKeeps
<1>8. CASE FlusherPromotes(f)
  <2> DEFINE to == IF TopSeq(f) > flusher[f].at THEN "Mark" ELSE "Finish"
  <2>1. /\ UNCHANGED <<cache, inner, flushing, OthersThanFlushers>> /\ wal' = wal
        /\ flushed' = flushed /\ acked' = acked /\ troubles' = troubles
        /\ meta' = Promote(meta, TopSeq(f), TopJs(f)) /\ FlushGoto(f, to)
    BY <1>8 DEF FlusherPromotes
  <2>2. Sound(meta')
    BY <2>1, <1>2, PromoteKeeps
  <2>3. to \in {"Messages", "Promote", "Mark", "Finish"}
    OBVIOUS
  <2> HIDE DEF to
  <2> QED BY <2>1, <2>2, <2>3, <1>3, FlusherStill, SameMeta, FlusherStores
<1>9. CASE FlusherMarks(f)
  <2>1. /\ UNCHANGED <<cache, inner, flushing, OthersThanFlushers>> /\ wal' = wal
        /\ meta' = meta /\ acked' = acked /\ troubles' = troubles
        /\ flushed' = Max({flushed, TopSeq(f)}) /\ FlushGoto(f, "Finish")
    BY <1>9 DEF FlusherMarks
  <2>2. flushed' \in Nat /\ flushed' <= meta.reserved
    BY <2>1, <1>2, FlusherStill, MaxOfTwo
  <2> QED BY <2>1, <2>2, <1>3, FlusherStill, SameMeta, FlusherStores
<1> QED BY <1>6, <1>7, <1>8, <1>9

\* Acknowledging an entry keeps the invariant.
LEMMA AckKeeps ==
    ASSUME StoreInv, NEW f \in Flushers, FlusherAcks(f)
    PROVE  StoreInv'
<1>1. PICK m \in flusher[f].good \cup flusher[f].drop :
         /\ Turned(f, Turn(flusher[f], "Finish", flusher[f].todo, flusher[f].good \ {m},
                           flusher[f].drop \ {m}, flusher[f].runs))
         /\ \/ acked' = acked \cup {m} /\ wal' = [wal EXCEPT ![stream[m].seq] = NoState]
            \/ acked' \in {acked, acked \cup {m}} /\ wal' = wal
  BY AckTurns DEF StoreInv
<1> DEFINE x == Turn(flusher[f], "Finish", flusher[f].todo, flusher[f].good \ {m},
                     flusher[f].drop \ {m}, flusher[f].runs)
<1>2. m \in DOMAIN stream
  BY FitIs DEF Fit
<1>3. Turned(f, x)
  BY <1>1
<1>4. Fit(x)
  BY FitIs DEF Fit, SeqsAt, Turn, Guarded
<1> HIDE DEF x
<1>5. acked' \subseteq DOMAIN stream
  BY <1>1, <1>2, FlusherStill
<1>6. Weaker(wal')
  <2>1. wal \in [Seqs -> WalType] /\ NoState \in WalType /\ NoState.status = "None"
        /\ NoState.js = 0
    BY DEF StoreInv, TypeInv, StoreTypes, NoState, WalType
  <2>2. Weaker([wal EXCEPT ![stream[m].seq] = NoState])
    BY <2>1 DEF Weaker
  <2> QED BY <1>1, <2>2, SameMeta
<1>7. UNCHANGED <<cache, inner, flushing, OthersThanFlushers>> /\ meta' = meta
      /\ flushed' = flushed /\ troubles' \in {troubles, troubles + 1}
  BY DEF FlusherAcks, Trouble
<1> QED BY <1>3, <1>4, <1>5, <1>6, <1>7, FlusherStill, SameMeta, FlusherStores

\* Every step of a flusher keeps the invariant.
LEMMA FlusherStoreStep ==
    ASSUME StoreInv, NEW f \in Flushers, FlusherStep(f) \/ FlusherTrouble(f)
    PROVE  StoreInv'
BY FlusherQuietKeeps, ClassifyKeeps, StaleKeeps, CheckpointKeeps, MaterializeKeeps, AckKeeps
   DEF FlusherStep, FlusherTrouble

-----------------------------------------------------------------------------
(* The steps of the deleter and of the reader, and those of the leases.    *)

\* A step of neither a writer nor a flusher keeps the invariant when it leaves the log alone
\* and the metadata sound.
LEMMA DeskKeeps ==
    ASSUME StoreInv, UNCHANGED <<stream, acked, writer, flusher, committed>>,
           Weaker(wal'), Sound(meta'), flushed' \in Nat, flushed' <= meta.reserved,
           cache' \in [Runs -> Nat], \A r \in Runs : cache'[r] <= meta.reserved,
           hierarchy' \in HierarchyType, flushing' \in FlushingType,
           inner' \in InnerType, InnerOrigin',
           deleter' \in DeleterType, deleter'.target <= meta.reserved,
           reader' \in ReaderType, ReaderOrigin',
           known' \in KnownType, known'.ok = known.ok, troubles' \in Nat
    PROVE  StoreInv'
<1>1. StoreTypes'
  <2>1. meta' \in MetaType /\ wal' \in [Seqs -> WalType]
    BY DEF Sound, Weaker
  <2>2. stream' \in Seq(EntryType) /\ committed' \in Seq(Seqs) /\ acked' \subseteq DOMAIN stream'
    BY DEF StoreInv, TypeInv, StoreTypes
  <2> QED BY <2>1, <2>2 DEF StoreTypes
<1>2. TypeInv'
  BY <1>1 DEF StoreInv, TypeInv, ClaimTypes, FlusherTypes
<1>3. WalOrigin' /\ MetaOrigin'
  BY WalKept, MetaKept
<1>4. \A w \in Writers : Along(writer[w], writer'[w])
  BY DEF Along
<1>5. BatchInv'
  BY DEF StoreInv, BatchInv, Batch, Commits
<1>6. meta'.reserved = meta.reserved /\ meta'.latest <= meta.reserved
      /\ known'.ok \in {0} \cup Commits
  BY StillKnown DEF Sound
<1> QED BY <1>2, <1>3, <1>4, <1>5, <1>6, QuietKeeps

\* What most steps leave as it is.
LEMMA DeskStill ==
    ASSUME StoreInv
    PROVE  /\ flushed \in Nat /\ flushed <= meta.reserved
           /\ hierarchy \in HierarchyType /\ flushing \in FlushingType
           /\ inner \in InnerType /\ (committed' = committed /\ inner' = inner => InnerOrigin')
           /\ deleter \in DeleterType /\ deleter.target <= meta.reserved /\ deleter.target \in Nat
           /\ reader \in ReaderType
           /\ committed' = committed /\ stream' = stream /\ reader' = reader => ReaderOrigin'
           /\ known \in KnownType /\ troubles \in Nat /\ troubles + 1 \in Nat
           /\ meta.reserved \in Nat /\ meta.latest \in Nat /\ meta.latest <= meta.reserved
<1>1. /\ flushed \in Nat /\ flushed <= meta.reserved
      /\ hierarchy \in HierarchyType /\ flushing \in FlushingType
      /\ inner \in InnerType
      /\ deleter \in DeleterType /\ deleter.target <= meta.reserved /\ deleter.target \in Nat
      /\ reader \in ReaderType
      /\ known \in KnownType /\ troubles \in Nat /\ troubles + 1 \in Nat
      /\ meta.reserved \in Nat /\ meta.latest \in Nat /\ meta.latest <= meta.reserved
  BY DEF StoreInv, TypeInv, StoreTypes, ClaimTypes, CountInv, DeleterType, MetaType
<1>2. ASSUME committed' = committed, inner' = inner PROVE InnerOrigin'
  BY <1>2 DEF StoreInv, OriginInv, InnerOrigin, Commits
<1>3. ASSUME committed' = committed, stream' = stream, reader' = reader PROVE ReaderOrigin'
  BY <1>3 DEF StoreInv, OriginInv, ReaderOrigin, Commits, EntryOf
<1> QED BY <1>1, <1>2, <1>3

\* A step that moves the deleter leaves its target alone.
LEMMA DeleterGotoIs ==
    ASSUME StoreInv, NEW from, NEW to \in DeleterStage, DeleterGoto(from, to)
    PROVE  /\ deleter.pc = from /\ deleter' = [pc |-> to, target |-> deleter.target]
           /\ deleter' \in DeleterType /\ deleter'.target <= meta.reserved
<1>1. deleter \in DeleterType
  BY DEF StoreInv, TypeInv
<1>2. deleter.pc = from /\ deleter' = [pc |-> to, target |-> deleter.target]
  BY <1>1 DEF DeleterGoto, DeleterType
<1> QED BY <1>2, DeskStill DEF DeleterType

\* A step of the deleter keeps the invariant when it leaves the metadata sound.
LEMMA DeleterStepKeeps ==
    ASSUME StoreInv, UNCHANGED <<stream, acked, cache, flushing, writer, flusher, reader, committed>>,
           Weaker(wal'), Sound(meta'), flushed' \in Nat, flushed' <= meta.reserved,
           hierarchy' \in HierarchyType, inner' \in InnerType, InnerOrigin',
           deleter' \in DeleterType, deleter'.target <= meta.reserved,
           known' \in KnownType, known'.ok = known.ok, troubles' \in Nat
    PROVE  StoreInv'
BY DeskStill, StillKnown, DeskKeeps

\* Reading the flush target, with the reconciliation before it, keeps the invariant.
LEMMA DeleterReconciles ==
    ASSUME StoreInv, DeleterStarts \/ DeleterClaims
    PROVE  StoreInv'
<1>1. /\ UNCHANGED <<stream, acked, writer, flusher, committed>> /\ flushing' = flushing
      /\ reader' = reader /\ troubles' = troubles /\ inner' = inner /\ known' = known /\ Reconcile
  BY DEF DeleterStarts, DeleterClaims
<1>2. hierarchy' \in HierarchyType
  BY AcquiredType, DeskStill DEF DeleterStarts, DeleterClaims
<1>3. /\ Weaker(wal') /\ Sound(meta') /\ flushed' = flushed /\ cache' \in [Runs -> Nat]
      /\ \A r \in Runs : cache'[r] <= meta.reserved
  BY <1>1, ReconcileKeeps
<1>4. meta'.latest \in Nat /\ meta'.latest <= meta.reserved
  BY <1>3 DEF Sound, MetaType
<1>5. deleter' \in DeleterType /\ deleter'.target <= meta.reserved
  <2>1. PICK to \in {"Wait", "WaitClaimed"} : deleter' = [pc |-> to, target |-> meta'.latest]
    BY DEF DeleterStarts, DeleterClaims
  <2> QED BY <2>1, <1>4 DEF DeleterType, DeleterStage
<1> QED BY <1>1, <1>2, <1>3, <1>5, DeskStill, DeskKeeps

\* The highest number erased so far covers all that was committed.
LEMMA ErasedIs ==
    ASSUME StoreInv, DeleterDeletes
    PROVE  /\ known' = [ok |-> known.ok, erased |-> known'.erased] /\ known'.erased \in Nat
           /\ known.erased <= known'.erased /\ \A s \in Commits : s <= known'.erased
<1> DEFINE T == {known.erased} \cup Commits
<1>1. known \in KnownType /\ known.erased \in Nat
  BY DEF StoreInv, TypeInv, KnownType
<1>2. T \subseteq Nat /\ T # {} /\ known.erased + meta.reserved \in Nat
      /\ \A x \in T : x <= known.erased + meta.reserved
  BY <1>1, CommitFacts, DeskStill
<1>3. known' = [known EXCEPT !.erased = Max(T)]
  BY DEF DeleterDeletes, Commits
<1> HIDE DEF T
<1>4. Max(T) \in T /\ \A x \in T : x <= Max(T)
  BY <1>2, MaxIs
<1>5. known' = [ok |-> known.ok, erased |-> Max(T)]
  BY <1>1, <1>3 DEF KnownType
<1>6. known'.erased = Max(T) /\ Max(T) \in Nat
  BY <1>2, <1>4, <1>5
<1>7. known.erased \in T /\ \A s \in Commits : s \in T
  BY DEF T
<1> QED BY <1>4, <1>5, <1>6, <1>7

\* The tombstone keeps the counter: its mark is the highest number reserved.
LEMMA TombstoneIs ==
    ASSUME StoreInv, DeleterTombstones
    PROVE  /\ deleter.pc = "Tombstone"
           /\ deleter' = [pc |-> "MarkFlushed", target |-> meta.reserved]
           /\ meta' = [reserved |-> meta.reserved, latest |-> meta.reserved, latestJs |-> 0]
<1> DEFINE T == {meta.reserved, meta.latest, flushed}
<1>1. T \subseteq Nat /\ T # {} /\ \A x \in T : x <= meta.reserved
  BY DeskStill
<1>2. meta.reserved \in T /\ meta.reserved \in Nat
  BY DeskStill
<1>3. Max(T) = meta.reserved
  <2> HIDE DEF T
  <2>1. Max(T) \in T /\ \A x \in T : x <= Max(T)
    BY <1>1, <1>2, MaxIs
  <2>2. Max(T) \in Nat /\ Max(T) <= meta.reserved /\ meta.reserved <= Max(T)
    BY <1>1, <1>2, <2>1
  <2> QED BY <1>2, <2>2
<1>4. /\ deleter.pc = "Tombstone" /\ deleter' = [pc |-> "MarkFlushed", target |-> Max(T)]
      /\ meta' = [reserved |-> Max(T), latest |-> Max(T), latestJs |-> 0]
  BY DEF DeleterTombstones
<1> QED BY <1>3, <1>4

\* Every step of the deleter keeps the invariant.
LEMMA DeleterStoreStep ==
    ASSUME StoreInv, DeleterStep \/ DeleterCrashes
    PROVE  StoreInv'
<1>1. CASE DeleterStarts \/ DeleterClaims
  BY <1>1, DeleterReconciles
<1>2. ASSUME UNCHANGED <<kv, stream, acked, flushing, writer, flusher, reader, committed>>,
             inner' = inner, known' = known, hierarchy' \in HierarchyType,
             troubles' \in {troubles, troubles + 1},
             deleter' \in DeleterType, deleter'.target <= meta.reserved
      PROVE  StoreInv'
  <2>1. /\ meta' = meta /\ wal' = wal /\ flushed' = flushed /\ cache' = cache
        /\ committed' = committed
        /\ UNCHANGED <<stream, acked, cache, flushing, writer, flusher, reader, committed>>
    BY <1>2 DEF kv
  <2> QED BY <1>2, <2>1, DeskStill, SameMeta, DeleterStepKeeps
<1>3. ASSUME DeleterFlushed \/ DeleterLosesClaim PROVE StoreInv'
  <2>1. /\ UNCHANGED <<kv, stream, acked, flushing, writer, flusher, reader, committed>>
        /\ inner' = inner /\ known' = known /\ hierarchy' = hierarchy /\ troubles' = troubles
    BY <1>3 DEF DeleterFlushed, DeleterLosesClaim, OthersThanDeleter
  <2>2. \E from, to \in DeleterStage : DeleterGoto(from, to)
    BY <1>3 DEF DeleterFlushed, DeleterLosesClaim, DeleterStage
  <2> QED BY <1>2, <2>1, <2>2, DeleterGotoIs, DeskStill
<1>4. ASSUME DeleterReleases PROVE StoreInv'
  <2>1. /\ UNCHANGED <<kv, stream, acked, flushing, writer, flusher, reader, committed>>
        /\ inner' = inner /\ known' = known /\ troubles' = troubles
    BY <1>4 DEF DeleterReleases, OthersThanDeleter
  <2>2. \E from, to \in DeleterStage : DeleterGoto(from, to)
    BY <1>4 DEF DeleterReleases, DeleterStage
  <2>3. hierarchy' \in HierarchyType
    BY <1>4, ReleasedType DEF DeleterReleases
  <2> QED BY <1>2, <2>1, <2>2, <2>3, DeleterGotoIs
<1>5. ASSUME DeleterCrashes PROVE StoreInv'
  <2>1. /\ UNCHANGED <<kv, stream, acked, flushing, writer, flusher, reader, committed>>
        /\ inner' = inner /\ known' = known /\ troubles' = troubles + 1 /\ hierarchy' = hierarchy
    BY <1>5 DEF DeleterCrashes, Trouble
  <2>2. deleter' = [deleter EXCEPT !.pc = "Dead"]
    BY <1>5 DEF DeleterCrashes
  <2>3. deleter' \in DeleterType /\ deleter'.target <= meta.reserved
    BY <2>2, DeskStill DEF DeleterType, DeleterStage
  <2> QED BY <1>2, <2>1, <2>3, DeskStill
<1>6. ASSUME DeleterDeletes PROVE StoreInv'
  <2>1. /\ UNCHANGED <<kv, hierarchy>>
        /\ UNCHANGED <<stream, acked, cache, flushing, writer, flusher, reader, committed>>
        /\ troubles' = troubles /\ DeleterGoto("Delete", "Tombstone")
        /\ inner' = [inner EXCEPT !.thread = 0, !.messages = 0]
    BY <1>6 DEF DeleterDeletes, OthersThanDeleter
  <2>2. meta' = meta /\ wal' = wal /\ flushed' = flushed /\ committed' = committed
    BY <2>1 DEF kv
  <2>3. known' \in KnownType /\ known'.ok = known.ok
    <3>1. known' = [ok |-> known.ok, erased |-> known'.erased] /\ known'.erased \in Nat
      BY <1>6, ErasedIs
    <3>2. known.ok \in Nat
      BY StillKnown DEF KnownType
    <3> DEFINE e == known'.erased
    <3> HIDE DEF e
    <3>3. known' = [ok |-> known.ok, erased |-> e] /\ e \in Nat
      BY <3>1 DEF e
    <3> QED BY <3>2, <3>3 DEF KnownType
  <2>4. inner' = [thread |-> 0, messages |-> 0, runs |-> inner.runs]
    BY <2>1, DeskStill DEF InnerType
  <2>5. inner' \in InnerType /\ InnerOrigin'
    <3>1. inner.runs \in [Runs -> Nat]
      BY DeskStill DEF InnerType
    <3>2. inner' \in InnerType
      BY <2>4, <3>1 DEF InnerType
    <3> QED BY <2>2, <2>4, <3>2 DEF StoreInv, OriginInv, InnerOrigin, Commits
  <2>6. deleter' \in DeleterType /\ deleter'.target <= meta.reserved
    BY <2>1, DeleterGotoIs DEF DeleterStage
  <2> QED BY <2>1, <2>2, <2>3, <2>5, <2>6, DeskStill, SameMeta, DeleterStepKeeps
<1>7. ASSUME DeleterTombstones PROVE StoreInv'
  <2>1. /\ UNCHANGED <<stream, acked, cache, flushing, writer, flusher, reader, committed>>
        /\ flushed' = flushed /\ wal' = wal /\ hierarchy' = hierarchy /\ inner' = inner
        /\ known' = known /\ troubles' = troubles /\ committed' = committed
    BY <1>7 DEF DeleterTombstones, OthersThanDeleter
  <2>2. Sound(meta')
    BY <1>7, TombstoneIs, DeskStill DEF Sound, MetaType
  <2>3. deleter' \in DeleterType /\ deleter'.target <= meta.reserved
    BY <1>7, TombstoneIs, DeskStill DEF DeleterType, DeleterStage
  <2> QED BY <2>1, <2>2, <2>3, DeskStill, SameMeta, DeleterStepKeeps
<1>8. ASSUME DeleterMarks PROVE StoreInv'
  <2>1. /\ UNCHANGED <<stream, acked, cache, flushing, writer, flusher, reader, committed>>
        /\ flushed' = deleter.target /\ wal' = wal /\ hierarchy' = hierarchy /\ inner' = inner
        /\ known' = known /\ troubles' = troubles /\ meta' = meta /\ committed' = committed
        /\ DeleterGoto("MarkFlushed", "Clear")
    BY <1>8 DEF DeleterMarks, OthersThanDeleter
  <2>2. deleter' \in DeleterType /\ deleter'.target <= meta.reserved
    BY <2>1, DeleterGotoIs DEF DeleterStage
  <2> QED BY <2>1, <2>2, DeskStill, SameMeta, DeleterStepKeeps
<1>9. ASSUME DeleterClears PROVE StoreInv'
  <2>1. /\ UNCHANGED <<stream, acked, cache, flushing, writer, flusher, reader, committed>>
        /\ flushed' = flushed /\ hierarchy' = hierarchy /\ inner' = inner
        /\ known' = known /\ troubles' = troubles /\ meta' = meta /\ committed' = committed
        /\ DeleterGoto("Clear", "Cleared") /\ wal' = [s \in Seqs |-> NoState]
    BY <1>9 DEF DeleterClears, OthersThanDeleter
  <2>2. deleter' \in DeleterType /\ deleter'.target <= meta.reserved
    BY <2>1, DeleterGotoIs DEF DeleterStage
  <2>3. Weaker(wal')
    <3>1. NoState \in WalType /\ NoState.status = "None" /\ NoState.js = 0
      BY DEF NoState, WalType
    <3> HIDE DEF NoState
    <3> QED BY <2>1, <3>1 DEF Weaker
  <2> QED BY <2>1, <2>2, <2>3, DeskStill, SameMeta, DeleterStepKeeps
<1> QED BY <1>1, <1>3, <1>4, <1>5, <1>6, <1>7, <1>8, <1>9 DEF DeleterStep

\* Every step of the reader keeps the invariant: what it gets was committed.
LEMMA ReaderStoreStep ==
    ASSUME StoreInv, ReaderStep
    PROVE  StoreInv'
<1>0. reader \in ReaderType /\ ReaderOrigin
  BY DEF StoreInv, TypeInv, OriginInv
<1>1. /\ UNCHANGED <<stream, acked, writer, flusher, committed>> /\ hierarchy' = hierarchy
      /\ flushing' = flushing /\ inner' = inner /\ deleter' = deleter /\ known' = known
      /\ troubles' \in Nat /\ committed' = committed /\ stream' = stream
  BY StillKnown DEF ReaderStep, ReaderReadsMeta, ReaderReadsMark, ReaderReadsBody,
     ReaderMissesBody, ReaderRests, Trouble, OthersThanReader
<1>2. ASSUME UNCHANGED kv, reader' \in ReaderType, ReaderOrigin' PROVE StoreInv'
  <2>1. meta' = meta /\ wal' = wal /\ flushed' = flushed /\ cache' = cache
    BY <1>2 DEF kv
  <2> QED BY <1>1, <1>2, <2>1, DeskStill, StillKnown, SameMeta, DeskKeeps
<1>3. CASE ReaderReadsMeta
  <2>1. /\ Weaker(wal') /\ Sound(meta') /\ flushed' = flushed /\ cache' \in [Runs -> Nat]
        /\ \A r \in Runs : cache'[r] <= meta.reserved
    BY <1>3, ReconcileKeeps DEF ReaderReadsMeta
  <2>2. reader' = [pc |-> "Mark", floor |-> known.ok, got |-> 0,
                   latest |-> meta'.latest, js |-> meta'.latestJs]
    BY <1>3 DEF ReaderReadsMeta
  <2>3. meta'.latest \in Nat /\ meta'.latestJs \in Nat /\ known.ok \in Nat
    BY <2>1, StillKnown DEF Sound, MetaType, KnownType
  <2>4. reader' \in ReaderType
    BY <2>2, <2>3 DEF ReaderType, ReaderStage
  <2>5. ReaderOrigin'
    BY <2>1, <2>2, <1>1 DEF Sound, ReaderOrigin, EntryOf, Commits
  <2> QED BY <1>1, <2>1, <2>4, <2>5, DeskStill, DeskKeeps
<1>4. CASE ReaderReadsMark
  <2>1. \E to \in {"Inner", "Wal"} : reader' = [reader EXCEPT !.pc = to]
    BY <1>4 DEF ReaderReadsMark
  <2>2. UNCHANGED kv
    BY <1>4 DEF ReaderReadsMark
  <2>3. reader' \in ReaderType /\ reader'.js = reader.js /\ reader'.latest = reader.latest
        /\ reader'.got = reader.got
    BY <1>0, <2>1 DEF ReaderType, ReaderStage
  <2>4. ReaderOrigin'
    BY <1>0, <1>1, <2>3 DEF ReaderOrigin, EntryOf, Commits
  <2> QED BY <1>2, <2>2, <2>3, <2>4
<1>5. CASE ReaderReadsBody
  <2> DEFINE bound == reader.js # 0 /\ stream[reader.js].seq = reader.latest
             got == IF reader.pc = "Wal" /\ bound THEN reader.latest ELSE inner.messages
  <2>1. reader' = [reader EXCEPT !.pc = "Done", !.got = got] /\ UNCHANGED kv
    BY <1>5 DEF ReaderReadsBody
  <2>2. got \in {0} \cup Commits /\ got \in Nat
    <3>1. bound => reader.latest \in Commits
      BY <1>0 DEF ReaderOrigin
    <3>2. inner.messages \in {0} \cup Commits
      BY DEF StoreInv, OriginInv, InnerOrigin
    <3>3. got \in {0} \cup Commits
      <4> HIDE DEF bound
      <4> QED BY <3>1, <3>2
    <3> HIDE DEF got
    <3> QED BY <3>3, CommitFacts
  <2> HIDE DEF got
  <2>3. reader' \in ReaderType /\ reader'.js = reader.js /\ reader'.latest = reader.latest
        /\ reader'.got = got
    BY <1>0, <2>1, <2>2 DEF ReaderType, ReaderStage
  <2>4. ReaderOrigin'
    BY <1>0, <1>1, <2>2, <2>3 DEF ReaderOrigin, EntryOf, Commits
  <2> QED BY <1>2, <2>1, <2>3, <2>4
<1>7. CASE ReaderMissesBody
  <2>1. reader' = [reader EXCEPT !.pc = "Missed", !.got = inner.messages] /\ UNCHANGED kv
    BY <1>7 DEF ReaderMissesBody
  <2>2. inner.messages \in {0} \cup Commits /\ inner.messages \in Nat
    BY CommitFacts DEF StoreInv, OriginInv, InnerOrigin
  <2>3. reader' \in ReaderType /\ reader'.js = reader.js /\ reader'.latest = reader.latest
        /\ reader'.got = inner.messages
    BY <1>0, <2>1, <2>2 DEF ReaderType, ReaderStage
  <2>4. ReaderOrigin'
    BY <1>0, <1>1, <2>2, <2>3 DEF ReaderOrigin, EntryOf, Commits
  <2> QED BY <1>2, <2>1, <2>3, <2>4
<1>6. CASE ReaderRests
  <2>1. reader' = [pc |-> "Idle", floor |-> 0, latest |-> 0, js |-> 0, got |-> 0] /\ UNCHANGED kv
    BY <1>6 DEF ReaderRests
  <2>2. reader' \in ReaderType /\ ReaderOrigin'
    BY <2>1 DEF ReaderType, ReaderStage, ReaderOrigin
  <2> QED BY <1>2, <2>1, <2>2
<1> QED BY <1>3, <1>4, <1>5, <1>6, <1>7 DEF ReaderStep

\* A lease ends, lapses or is renewed.
LEMMA LeaseIs ==
    ASSUME StoreInv, Leases
    PROVE  /\ UNCHANGED <<kv, stream, acked, inner, deleter, reader, committed, known>>
           /\ hierarchy' \in HierarchyType /\ hierarchy'.token = hierarchy.token
           /\ flushing' \in FlushingType /\ flushing'.token = flushing.token
           /\ troubles' \in Nat
           /\ \/ UNCHANGED <<writer, flusher>>
              \/ /\ HierarchyLapses /\ UNCHANGED <<flushing, flusher>>
                 /\ \E w \in Writers \cap Late, late \in BOOLEAN :
                       writer[w].pc \in {"Overlaid", "Prepared", "Published"}
                         /\ w = hierarchy.token /\ writer' = [writer EXCEPT ![w].late = late]
              \/ /\ FlushLapses /\ UNCHANGED <<hierarchy, writer>>
                 /\ \E f \in Flushers \cap Late, late \in BOOLEAN :
                       flusher' = [flusher EXCEPT ![f].late = late]
<1>0. hierarchy \in HierarchyType /\ flushing \in FlushingType
  BY DeskStill
<1>1. UNCHANGED <<kv, stream, acked, inner, deleter, reader, committed, known>>
  BY DEF Leases
<1>2. \A b \in BOOLEAN : /\ [hierarchy EXCEPT !.live = b] \in HierarchyType
                         /\ [hierarchy EXCEPT !.live = b].token = hierarchy.token
                         /\ [flushing EXCEPT !.live = b] \in FlushingType
                         /\ [flushing EXCEPT !.live = b].token = flushing.token
  BY <1>0 DEF HierarchyType, FlushingType
<1>3. CASE (LeaseExpires \/ LeaseRenewed) /\ UNCHANGED <<writer, flusher, troubles>>
  <2>1. /\ hierarchy' = hierarchy \/ \E b \in BOOLEAN : hierarchy' = [hierarchy EXCEPT !.live = b]
        /\ flushing' = flushing \/ \E b \in BOOLEAN : flushing' = [flushing EXCEPT !.live = b]
    BY <1>3 DEF LeaseExpires, LeaseRenewed
  <2> QED BY <1>0, <1>1, <1>2, <1>3, <2>1, DeskStill
<1>4. CASE HierarchyLapses
  <2>1. /\ hierarchy' = [hierarchy EXCEPT !.live = FALSE] /\ flushing' = flushing
        /\ flusher' = flusher /\ troubles' = troubles + 1
    BY <1>4 DEF HierarchyLapses, Trouble
  <2>2. \/ writer' = writer
        \/ \E w \in Writers \cap Late, late \in BOOLEAN :
              writer[w].pc \in {"Overlaid", "Prepared", "Published"}
                /\ w = hierarchy.token /\ writer' = [writer EXCEPT ![w].late = late]
    BY <1>4 DEF HierarchyLapses
  <2>3. /\ hierarchy' \in HierarchyType /\ hierarchy'.token = hierarchy.token
        /\ flushing' \in FlushingType /\ flushing'.token = flushing.token
        /\ troubles' \in Nat
    BY <1>0, <1>2, <2>1, DeskStill
  <2> QED BY <1>1, <1>4, <2>1, <2>2, <2>3
<1>5. CASE FlushLapses
  <2>1. /\ flushing' = [flushing EXCEPT !.live = FALSE] /\ hierarchy' = hierarchy
        /\ writer' = writer /\ troubles' = troubles + 1
    BY <1>5 DEF FlushLapses, Trouble
  <2>2. \/ flusher' = flusher
        \/ \E f \in Flushers \cap Late, late \in BOOLEAN :
              flusher' = [flusher EXCEPT ![f].late = late]
    <3>1. flushing.live => flushing.token \in Flushers \/ flushing.token = Nobody
      BY <1>0 DEF FlushingType
    <3>2. Holds(flushing.token) => flushing.token # Nobody
      BY BufferedAssumption DEF Holds
    <3> QED BY <1>5, <3>1, <3>2 DEF FlushLapses
  <2>3. /\ hierarchy' \in HierarchyType /\ hierarchy'.token = hierarchy.token
        /\ flushing' \in FlushingType /\ flushing'.token = flushing.token
        /\ troubles' \in Nat
    BY <1>0, <1>2, <2>1, DeskStill
  <2> QED BY <1>1, <1>5, <2>1, <2>2, <2>3
<1> QED BY <1>3, <1>4, <1>5 DEF Leases

\* A lease may lapse at any write without breaking the invariant.
LEMMA LeaseStoreStep ==
    ASSUME StoreInv, Leases
    PROVE  StoreInv'
<1>0. /\ UNCHANGED <<kv, stream, acked, inner, deleter, reader, committed, known>>
      /\ hierarchy' \in HierarchyType /\ flushing' \in FlushingType /\ troubles' \in Nat
  BY LeaseIs
<1>1. CASE UNCHANGED <<writer, flusher>>
  <2>1. /\ meta' = meta /\ wal' = wal /\ flushed' = flushed /\ cache' = cache /\ inner' = inner
        /\ deleter' = deleter /\ reader' = reader /\ known' = known /\ committed' = committed
        /\ stream' = stream
        /\ UNCHANGED <<stream, acked, writer, flusher, committed>>
    BY <1>0, <1>1 DEF kv
  <2> QED BY <1>0, <2>1, DeskStill, StillKnown, SameMeta, DeskKeeps
<1>2. CASE /\ UNCHANGED <<flushing, flusher>>
           /\ \E w \in Writers \cap Late, late \in BOOLEAN :
                 writer' = [writer EXCEPT ![w].late = late]
  <2>1. PICK w \in Writers, late \in BOOLEAN : writer' = [writer EXCEPT ![w].late = late]
    BY <1>2
  <2> DEFINE y == [writer[w] EXCEPT !.late = late]
  <2>2. writer \in [Writers -> WriterType] /\ writer[w] \in WriterType
    BY DEF StoreInv, TypeInv
  <2>3. y \in WriterType /\ y.pc = writer[w].pc /\ y.seq = writer[w].seq /\ y.js = writer[w].js
    BY <2>2 DEF WriterType
  <2>4. writer' = [writer EXCEPT ![w] = y]
    BY <2>1, <2>2
  <2> HIDE DEF y
  <2>5. /\ writer' \in [Writers -> WriterType] /\ Along(writer[w], writer'[w])
        /\ \A v \in Writers : v # w => writer'[v] = writer[v]
    BY <2>2, <2>3, <2>4 DEF Along
  <2>6. UNCHANGED <<kv, stream, committed, OthersThanWriters>> /\ known' = known
    BY <1>0, <1>2 DEF OthersThanWriters
  <2> QED BY <1>0, <2>5, <2>6, StillKnown, WriterMoves
<1>3. CASE /\ UNCHANGED <<hierarchy, writer>>
           /\ \E f \in Flushers \cap Late, late \in BOOLEAN :
                 flusher' = [flusher EXCEPT ![f].late = late]
  <2>1. PICK f \in Flushers, late \in BOOLEAN : flusher' = [flusher EXCEPT ![f].late = late]
    BY <1>3
  <2> DEFINE y == [flusher[f] EXCEPT !.late = late]
  <2>2. flusher \in [Flushers -> FlusherType] /\ flusher[f] \in FlusherType
    BY FieldsOf DEF StoreInv
  <2>3. /\ y \in FlusherType /\ y.pc = flusher[f].pc /\ y.todo = flusher[f].todo
        /\ y.good = flusher[f].good /\ y.drop = flusher[f].drop /\ y.runs = flusher[f].runs
    BY <2>2 DEF FlusherType
  <2>4. flusher' = [flusher EXCEPT ![f] = y]
    BY <2>1, <2>2
  <2> HIDE DEF y
  <2>5. Turned(f, y)
    BY <2>2, <2>3, <2>4, TurnedIs
  <2>6. Fit(y)
    BY <2>3, FitIs DEF Fit
  <2>7. UNCHANGED <<kv, acked, inner, OthersThanFlushers>>
    BY <1>0, <1>3 DEF OthersThanFlushers
  <2> QED BY <1>0, <2>5, <2>6, <2>7, FlusherMoves
<1> QED BY <1>1, <1>2, <1>3, LeaseIs

-----------------------------------------------------------------------------
(* The log: what holds whatever leases do.                                 *)

\* The invariant holds of an empty log.
LEMMA StoreInit ==
    ASSUME Init
    PROVE  StoreInv
<1>0. /\ meta = [reserved |-> 0, latest |-> 0, latestJs |-> 0] /\ flushed = 0
      /\ wal = [s \in Seqs |-> NoState] /\ stream = << >> /\ acked = {}
      /\ cache = [r \in Runs |-> 0] /\ hierarchy = Unclaimed /\ flushing = Unclaimed
      /\ inner = [thread |-> 0, messages |-> 0, runs |-> [r \in Runs |-> 0]]
      /\ deleter = [pc |-> "Idle", target |-> 0]
      /\ reader = [pc |-> "Idle", floor |-> 0, latest |-> 0, js |-> 0, got |-> 0]
      /\ committed = << >> /\ known = [ok |-> 0, erased |-> 0] /\ troubles = 0
  BY DEF Init
<1>1. \A w \in Writers : writer[w] = [pc |-> "Idle", seq |-> 0, js |-> 0, late |-> FALSE]
  BY DEF Init
<1>2. \A f \in Flushers :
         flusher[f] = [pc |-> "Idle", todo |-> {}, good |-> {}, drop |-> {}, runs |-> {},
                       at |-> 0, latest |-> 0, late |-> FALSE]
  BY DEF Init
<1>3. writer \in [Writers -> WriterType]
  <2>1. [pc |-> "Idle", seq |-> 0, js |-> 0, late |-> FALSE] \in WriterType
    BY DEF WriterType, WriterStage
  <2> QED BY <2>1 DEF Init
<1>4. flusher \in [Flushers -> FlusherType]
  <2>1. [pc |-> "Idle", todo |-> {}, good |-> {}, drop |-> {}, runs |-> {},
         at |-> 0, latest |-> 0, late |-> FALSE] \in FlusherType
    BY DEF FlusherType, FlusherStage
  <2> QED BY <2>1 DEF Init
<1>5. Commits = {} /\ DOMAIN stream = {}
  BY <1>0 DEF Commits, Range
<1>6. TypeInv
  <2>1. NoState \in WalType /\ Unclaimed \in HierarchyType /\ Unclaimed \in FlushingType
    BY DEF NoState, WalType, Unclaimed, HierarchyType, FlushingType
  <2> HIDE DEF NoState, Unclaimed
  <2>2. StoreTypes
    <3>1. meta \in MetaType /\ flushed \in Nat /\ wal \in [Seqs -> WalType]
      BY <1>0, <2>1 DEF MetaType
    <3>2. stream \in Seq(EntryType) /\ committed \in Seq(Seqs) /\ acked \subseteq DOMAIN stream
      BY <1>0
    <3>3. cache \in [Runs -> Nat] /\ inner \in InnerType
      BY <1>0 DEF InnerType
    <3> QED BY <3>1, <3>2, <3>3 DEF StoreTypes
  <2>3. FlusherTypes
    BY <1>2, <1>4 DEF FlusherTypes
  <2>4. deleter \in DeleterType /\ reader \in ReaderType /\ known \in KnownType /\ troubles \in Nat
    BY <1>0 DEF DeleterType, ReaderType, KnownType, DeleterStage, ReaderStage
  <2>5. ClaimTypes
    BY <1>0, <2>1 DEF ClaimTypes
  <2> QED BY <1>3, <2>2, <2>3, <2>4, <2>5 DEF TypeInv
<1>7. CountInv
  <2>1. Numbered = {}
    BY <1>1 DEF Numbered
  <2>2. Cardinality(Numbered) = 0
    BY <2>1, FS_EmptySet
  <2> HIDE DEF Numbered
  <2>3. /\ meta.reserved = 0 /\ meta.latest = 0 /\ flushed = 0 /\ deleter.target = 0
        /\ \A r \in Runs : cache[r] = 0
    BY <1>0
  <2>4. \A w \in Writers : writer[w].seq = 0 /\ writer[w].pc = "Idle"
    BY <1>1
  <2>5. "Idle" \in MayBeUnnumbered
    BY DEF MayBeUnnumbered
  <2>6. \A w \in Writers :
          /\ writer[w].seq <= meta.reserved
          /\ writer[w].pc \in {"Idle", "Overlaid"} => writer[w].seq = 0
          /\ writer[w].pc \notin MayBeUnnumbered => writer[w].seq # 0
    BY <2>3, <2>4, <2>5
  <2> QED BY <2>2, <2>3, <2>4, <2>6 DEF CountInv
<1>8. StreamInv
  BY <1>1, <1>5 DEF StreamInv, SequenceNeverReused
<1>9. OriginInv
  <2>1. WriterOrigin
    BY <1>1, <1>5 DEF WriterOrigin, Kept
  <2>2. WalOrigin
    BY <1>0 DEF WalOrigin, NoState
  <2>3. MetaOrigin /\ ReaderOrigin /\ InnerOrigin
    BY <1>0 DEF MetaOrigin, ReaderOrigin, InnerOrigin
  <2> QED BY <1>0, <1>5, <2>1, <2>2, <2>3 DEF OriginInv
<1>10. BatchInv
  BY <1>2 DEF BatchInv, Batch, Guarded
<1> QED BY <1>6, <1>7, <1>8, <1>9, <1>10 DEF StoreInv

\* Every step keeps the invariant.
LEMMA StoreStep ==
    ASSUME StoreInv, [Next]_vars
    PROVE  StoreInv'
<1>1. CASE UNCHANGED vars
  <2>1. TypeInv'
    BY <1>1 DEF vars, StoreInv, TypeInv, ClaimTypes, StoreTypes, FlusherTypes
  <2>2. /\ stream' = stream /\ committed' = committed /\ meta' = meta /\ flushed' = flushed
        /\ deleter' = deleter /\ cache' = cache /\ writer' = writer /\ known' = known
        /\ flusher' = flusher /\ wal' = wal /\ reader' = reader /\ inner' = inner
    BY <1>1 DEF vars
  <2>3. \A w \in Writers : Along(writer[w], writer'[w])
    BY <2>2 DEF Along
  <2>4. WalOrigin' /\ MetaOrigin' /\ ReaderOrigin' /\ InnerOrigin'
    BY <2>2, SameMeta, WalKept, MetaKept, DeskStill
  <2>5. BatchInv'
    BY <2>2 DEF StoreInv, BatchInv, Batch, Commits
  <2>6. meta.latest <= meta.reserved
    BY DEF StoreInv, CountInv
  <2> QED BY <2>1, <2>2, <2>3, <2>4, <2>5, <2>6, DeskStill, StillKnown, QuietKeeps
<1>2. CASE Next
  BY <1>2, WriterStoreStep, FlusherStoreStep, DeleterStoreStep, ReaderStoreStep, LeaseStoreStep
     DEF Next
<1> QED BY <1>1, <1>2

\* The inductive invariant of the log.
THEOREM StoreSafe == Spec => []StoreInv
BY StoreInit, StoreStep, PTL DEF Spec

\* A number of the log names one entry, also after the thread was deleted and
\* created again.
THEOREM NumbersAreUnique == Spec => []SequenceNeverReused
<1>1. StoreInv => SequenceNeverReused
  BY DEF StoreInv, StreamInv
<1> QED BY <1>1, StoreSafe, PTL

\* What a read shows, with and without committed entries above the metadata.
LEMMA ViewIs ==
    ASSUME StoreInv
    PROVE  /\ (\A s \in Seqs : wal[s].status = "Committed" => s <= meta.latest) =>
                View = IF meta.latest > flushed /\ meta.latestJs # 0 THEN meta.latest
                                                                     ELSE inner.messages
           /\ \A top \in Seqs :
                 /\ wal[top].status = "Committed" /\ top > meta.latest
                 /\ \A s \in Seqs : wal[s].status = "Committed" => s <= top
                 => View = IF top > flushed /\ wal[top].js # 0 THEN top ELSE inner.messages
<1> DEFINE tail == {s \in Committed(SettleAll) : s > meta.latest}
           top == IF tail = {} THEN meta.latest ELSE Max(tail)
           js == IF tail = {} THEN meta.latestJs ELSE wal[top].js
<1>1. View = IF top > flushed /\ js # 0 THEN top ELSE inner.messages
  BY DEF View
<1>2. tail = {s \in Seqs : wal[s].status = "Committed" /\ s > meta.latest}
  BY SettleAllIs DEF Committed, StoreInv, TypeInv, StoreTypes
<1>3. meta.latest \in Nat /\ Seqs \subseteq Nat
  BY CommitFacts, DeskStill
<1>4. ASSUME \A s \in Seqs : wal[s].status = "Committed" => s <= meta.latest
      PROVE  View = IF meta.latest > flushed /\ meta.latestJs # 0 THEN meta.latest
                                                                  ELSE inner.messages
  <2>1. tail = {}
    <3>1. ASSUME NEW s \in tail PROVE FALSE
      <4>1. s \in Seqs /\ s <= meta.latest /\ s > meta.latest
        BY <1>2, <1>4, <3>1
      <4> QED BY <4>1, <1>3
    <3> HIDE DEF tail
    <3> QED BY <3>1
  <2> HIDE DEF tail
  <2> QED BY <1>1, <2>1
<1>5. ASSUME NEW u \in Seqs, wal[u].status = "Committed", u > meta.latest,
             \A s \in Seqs : wal[s].status = "Committed" => s <= u
      PROVE  View = IF u > flushed /\ wal[u].js # 0 THEN u ELSE inner.messages
  <2>1. u \in tail /\ tail \subseteq Nat /\ \A s \in tail : s <= u
    BY <1>2, <1>3, <1>5
  <2> HIDE DEF tail
  <2>2. Max(tail) \in tail /\ \A s \in tail : s <= Max(tail)
    BY <2>1, MaxIs
  <2>3. Max(tail) = u
    <3>1. Max(tail) <= u /\ u <= Max(tail) /\ Max(tail) \in Nat /\ u \in Nat
      BY <2>1, <2>2
    <3> QED BY <3>1
  <2>4. top = u /\ js = wal[u].js
    BY <2>1, <2>3
  <2> HIDE DEF top, js
  <2> QED BY <1>1, <2>4
<1> QED BY <1>4, <1>5

\* Where the content of the thread is now: in the metadata, or in the tail.
LEMMA TailIs ==
    ASSUME StoreInv
    PROVE  \/ \A s \in Seqs : wal[s].status = "Committed" => s <= meta.latest
           \/ \E top \in Seqs :
                 /\ wal[top].status = "Committed" /\ top > meta.latest
                 /\ \A s \in Seqs : wal[s].status = "Committed" => s <= top
<1> DEFINE T == {s \in Seqs : wal[s].status = "Committed" /\ s > meta.latest}
<1>1. meta.latest \in Nat /\ Seqs \subseteq Nat /\ MaxSeq \in Nat /\ \A s \in Seqs : s <= MaxSeq
  BY CommitFacts, DeskStill, Bounds DEF Seqs, StoreInv
<1>2. CASE T = {}
  <2>1. ASSUME NEW s \in Seqs, wal[s].status = "Committed" PROVE s <= meta.latest
    <3>1. s \notin T
      BY <1>2
    <3>2. ~(s > meta.latest) /\ s \in Nat
      BY <1>1, <2>1, <3>1
    <3> QED BY <1>1, <3>2
  <2> QED BY <2>1
<1>3. CASE T # {}
  <2>1. T \subseteq Nat /\ \A s \in T : s <= MaxSeq
    BY <1>1
  <2>2. Max(T) \in T /\ \A s \in T : s <= Max(T)
    <3> HIDE DEF T, MaxSeq
    <3> QED BY <1>1, <1>3, <2>1, MaxIs
  <2>3. ASSUME NEW s \in Seqs, wal[s].status = "Committed" PROVE s <= Max(T)
    <3>1. Max(T) > meta.latest /\ Max(T) \in Nat /\ s \in Nat
      BY <1>1, <2>2
    <3>2. CASE s > meta.latest
      <4>1. s \in T
        BY <2>3, <3>2
      <4> HIDE DEF T
      <4> QED BY <2>2, <4>1
    <3>3. CASE ~(s > meta.latest)
      <4> HIDE DEF T
      <4> QED BY <3>1, <3>3, <1>1
    <3> QED BY <3>2, <3>3
  <2>4. Max(T) \in Seqs /\ wal[Max(T)].status = "Committed" /\ Max(T) > meta.latest
    BY <2>2
  <2> HIDE DEF T
  <2> QED BY <2>3, <2>4
<1> QED BY <1>2, <1>3

\* A checkpoint that failed is in no store and in no read, and a call that says
\* it failed did not commit.
THEOREM FailuresStayInvisible == Spec => []FailedNeverVisible
<1>1. ASSUME StoreInv PROVE FailedNeverVisible
  <2>1. \A w \in Writers : writer[w].pc = "Err" => writer[w].seq \notin Commits
    BY <1>1 DEF StoreInv, OriginInv, WriterOrigin, Kept
  <2>2. {inner.thread, inner.messages, reader.got} \subseteq {0} \cup Commits
        /\ \A r \in Runs : inner.runs[r] \in {0} \cup Commits
    BY <1>1 DEF StoreInv, OriginInv, InnerOrigin, ReaderOrigin
  <2>3. View \in {0} \cup Commits
    <3>1. CASE \A s \in Seqs : wal[s].status = "Committed" => s <= meta.latest
      <4>1. View \in {meta.latest, inner.messages} /\ (View # inner.messages => meta.latestJs # 0)
        BY <1>1, <3>1, ViewIs
      <4> QED BY <1>1, <2>2, <4>1 DEF StoreInv, OriginInv, MetaOrigin
    <3>2. CASE \E top \in Seqs :
                  /\ wal[top].status = "Committed" /\ top > meta.latest
                  /\ \A s \in Seqs : wal[s].status = "Committed" => s <= top
      <4>1. PICK top \in Seqs :
                  /\ wal[top].status = "Committed" /\ top > meta.latest
                  /\ \A s \in Seqs : wal[s].status = "Committed" => s <= top
        BY <3>2
      <4>2. View \in {top, inner.messages}
        BY <1>1, <4>1, ViewIs
      <4> QED BY <1>1, <2>2, <4>1, <4>2 DEF StoreInv, OriginInv, WalOrigin
    <3> QED BY <1>1, <3>1, <3>2, TailIs
  <2>4. Range(inner.runs) \subseteq {0} \cup Commits
    <3>1. inner.runs \in [Runs -> Nat]
      BY <1>1 DEF StoreInv, TypeInv, StoreTypes, InnerType
    <3> QED BY <2>2, <3>1 DEF Range
  <2> QED BY <2>1, <2>2, <2>3, <2>4 DEF FailedNeverVisible, Commits
<1> QED BY <1>1, StoreSafe, PTL

\* There are n numbers up to n.
LEMMA UpToSize ==
    ASSUME NEW n \in Nat
    PROVE  IsFiniteSet(1 .. n) /\ Cardinality(1 .. n) = n
<1>1. 1 \in Int /\ n \in Int
  OBVIOUS
<1>2. IsFiniteSet(1 .. n) /\ Cardinality(1 .. n) = IF 1 > n THEN 0 ELSE n - 1 + 1
  BY <1>1, FS_Interval, Zenon
<1>3. (IF 1 > n THEN 0 ELSE n - 1 + 1) = n
  OBVIOUS
<1> QED BY <1>2, <1>3

\* Nothing outgrows the number of checkpoint calls.
THEOREM BufferedTypeCorrect == Spec => []BufferedTypeOK
<1>1. ASSUME StoreInv PROVE BufferedTypeOK
  <2>0. MaxSeq \in Nat /\ meta.reserved \in Nat /\ meta.reserved <= MaxSeq
    BY <1>1, Bounds DEF StoreInv
  <2>1. Len(stream) \in Nat /\ DOMAIN stream = 1 .. Len(stream)
        /\ \A n \in DOMAIN stream : stream[n] \in EntryType
    BY <1>1 DEF StoreInv, TypeInv, StoreTypes
  <2>2. Len(stream) <= MaxSeq
    <3> DEFINE g == [n \in 1 .. Len(stream) |-> stream[n].seq]
    <3>1. \A n \in 1 .. Len(stream) : stream[n].seq \in Seqs
      BY <2>1 DEF EntryType
    <3>2. \A m, n \in 1 .. Len(stream) : stream[m].seq = stream[n].seq => m = n
      BY <1>1, <2>1 DEF StoreInv, StreamInv, SequenceNeverReused
    <3>3. g \in Injection(1 .. Len(stream), Seqs)
      BY <3>1, <3>2 DEF Injection, IsInjective
    <3>4. IsFiniteSet(Seqs) /\ Cardinality(Seqs) = MaxSeq
      BY <2>0, UpToSize DEF Seqs
    <3>5. IsFiniteSet(1 .. Len(stream)) /\ Cardinality(1 .. Len(stream)) = Len(stream)
      BY <2>1, UpToSize
    <3>6. Cardinality(1 .. Len(stream)) <= Cardinality(Seqs)
      BY <3>3, <3>4, FS_Injection
    <3> QED BY <3>4, <3>5, <3>6
  <2>3. \A n \in DOMAIN stream : n \in 0 .. MaxSeq
    BY <2>0, <2>1, <2>2
  <2>4. \A s \in {0} \cup Commits : s \in 0 .. MaxSeq
    BY <1>1, <2>0, CommitFacts DEF Seqs
  <2>5. meta \in [reserved : 0 .. MaxSeq, latest : 0 .. MaxSeq, latestJs : 0 .. MaxSeq]
    <3>1. meta \in MetaType /\ meta.latest \in Nat /\ meta.latestJs \in Nat
          /\ meta.latest <= meta.reserved
      BY <1>1 DEF StoreInv, TypeInv, StoreTypes, MetaType, CountInv
    <3>2. meta.latestJs # 0 => meta.latestJs \in DOMAIN stream
      BY <1>1 DEF StoreInv, OriginInv, MetaOrigin, EntryOf
    <3>3. meta.latestJs \in 0 .. MaxSeq
      BY <2>0, <2>3, <3>2
    <3>4. meta.reserved \in 0 .. MaxSeq /\ meta.latest \in 0 .. MaxSeq
      BY <2>0, <3>1
    <3> HIDE DEF MaxSeq
    <3> QED BY <3>1, <3>3, <3>4 DEF MetaType
  <2>6. flushed \in 0 .. MaxSeq /\ cache \in [Runs -> 0 .. MaxSeq]
    <3>1. flushed \in Nat /\ flushed <= meta.reserved /\ cache \in [Runs -> Nat]
          /\ \A r \in Runs : cache[r] <= meta.reserved
      BY <1>1 DEF StoreInv, TypeInv, StoreTypes, CountInv
    <3> HIDE DEF MaxSeq
    <3> QED BY <2>0, <3>1
  <2>7. wal \in [Seqs -> [status : {"None", "Prepared", "Committed", "Aborted"},
                          token : Writers \cup {Nobody}, js : 0 .. MaxSeq]]
    <3>1. ASSUME NEW s \in Seqs
          PROVE  wal[s] \in [status : {"None", "Prepared", "Committed", "Aborted"},
                             token : Writers \cup {Nobody}, js : 0 .. MaxSeq]
      <4>1. wal[s] \in WalType /\ (wal[s].js # 0 => wal[s].js \in DOMAIN stream)
        BY <1>1 DEF StoreInv, TypeInv, StoreTypes, OriginInv, WalOrigin
      <4>2. wal[s].js \in 0 .. MaxSeq
        BY <2>0, <2>3, <4>1
      <4> HIDE DEF MaxSeq
      <4> QED BY <4>1, <4>2 DEF WalType
    <3>2. wal \in [Seqs -> WalType]
      BY <1>1 DEF StoreInv, TypeInv, StoreTypes
    <3> HIDE DEF MaxSeq
    <3> QED BY <3>1, <3>2
  <2>8. inner \in [thread : 0 .. MaxSeq, messages : 0 .. MaxSeq, runs : [Runs -> 0 .. MaxSeq]]
    <3>1. inner \in InnerType /\ inner.thread \in {0} \cup Commits
          /\ inner.messages \in {0} \cup Commits
          /\ \A r \in Runs : inner.runs[r] \in {0} \cup Commits
      BY <1>1 DEF StoreInv, TypeInv, StoreTypes, OriginInv, InnerOrigin
    <3>2. inner.runs \in [Runs -> 0 .. MaxSeq]
      <4>1. inner.runs \in [Runs -> Nat]
        BY <3>1 DEF InnerType
      <4> HIDE DEF MaxSeq
      <4> QED BY <2>4, <3>1, <4>1
    <3> HIDE DEF MaxSeq
    <3> QED BY <2>4, <3>1, <3>2 DEF InnerType
  <2>9. acked \subseteq DOMAIN stream /\ \A n \in DOMAIN stream : stream[n] \in [seq : Seqs, run : Runs]
    BY <1>1, <2>1 DEF StoreInv, TypeInv, StoreTypes, EntryType
  <2> QED BY <2>2, <2>5, <2>6, <2>7, <2>8, <2>9 DEF BufferedTypeOK
<1> QED BY <1>1, StoreSafe, PTL
-----------------------------------------------------------------------------
(* What readers see.  The processes that drain or delete are not late with *)
(* a write (DrainsInTime); the writers may be.                             *)

\* No commit is above n.
Below(n) == \A s \in Commits : s <= n

Writing == {"Reserved", "Prepared", "Published"}

\* Writer w may still commit, or publish what it may then commit.
Pending(w) ==
    /\ \/ writer[w].pc = "Published"
       \/ writer[w].pc = "Prepared" /\ writer[w].late
    /\ wal[writer[w].seq].status = "Prepared"

\* Commits come in the order of their numbers, under one claim at a time.
OrderInv ==
    /\ \A i, j \in DOMAIN committed : i < j => committed[i] < committed[j]
    /\ \A w \in Writers :
          /\ hierarchy.token = w /\ writer[w].pc \in Writing =>
                /\ \A s \in Commits : s < writer[w].seq
                /\ meta.latest < writer[w].seq /\ flushed < writer[w].seq
          /\ Pending(w) => hierarchy.token = w

\* The tail of the log has every commit the metadata has not.
TailInv ==
    /\ \A s \in Commits : s <= meta.latest \/ wal[s].status = "Committed"
    /\ meta.latestJs = 0 => \A s \in Commits : s <= meta.latest => s <= flushed

\* A thread is deleted with nothing left to flush, and no writer at work.
DeleteInv ==
    /\ hierarchy.token = Deleter /\ deleter.pc \in {"WaitClaimed", "Delete", "Tombstone"} =>
          /\ Below(meta.latest) /\ meta.latest <= deleter.target
          /\ deleter.pc # "WaitClaimed" => deleter.target <= flushed
          /\ deleter.pc = "Tombstone" => Below(known.erased)
    /\ deleter.pc \in {"MarkFlushed", "Clear"} =>
          /\ Current(hierarchy, Deleter)
          /\ Below(flushed) /\ Below(meta.latest) /\ Below(known.erased)
    /\ deleter.pc = "MarkFlushed" => meta.latestJs = 0 /\ flushed <= deleter.target

\* The inner store has a record of the run of each entry of sequence number s.
Recorded(s) == \A n \in DOMAIN stream : stream[n].seq = s => inner.runs[stream[n].run] # 0

\* An entry that may go: all a reader needs of it is in the inner store.
Safe(s) == s <= flushed /\ (s <= known.erased \/ Recorded(s))

Working == {"Classify", "Run", "Thread", "Messages", "Promote", "Mark"}

\* Sequence number s is the highest of what flusher f writes, and new.
IsTop(f, s) == s \in Batch(f) /\ s > flusher[f].at /\ \A t \in Batch(f) : t <= s

Settled(m) == wal[stream[m].seq].status \in {"Aborted", "None"}

\* What a flusher has read of the watermarks still holds while it has the
\* flush claim, and what it has written of its batch is in the inner store.
FlushOk(f) ==
    /\ ~flusher[f].late
    /\ flusher[f].at <= flushed /\ flusher[f].latest <= meta.latest
    /\ flushing.token = f /\ flusher[f].pc \in Working =>
          \A s \in Commits : s > flusher[f].at => s > flushed
    /\ flusher[f].pc = "Run" => \A s \in flusher[f].runs : s > flusher[f].at
    /\ flusher[f].pc \in {"Thread", "Messages", "Mark"} => \E s \in Batch(f) : s > flusher[f].at
    /\ flusher[f].pc \in {"Mark", "Finish"} => \A s \in Batch(f) : s <= meta.latest
    /\ flushing.token = f /\ flusher[f].pc \in {"Messages", "Promote", "Mark"} =>
          \A s \in Seqs : IsTop(f, s) => inner.thread = s
    /\ flushing.token = f /\ flusher[f].pc \in {"Promote", "Mark"} =>
          \A s \in Seqs : IsTop(f, s) => inner.messages = s

\* The run records a flusher has written, or is to write.
RunsOk(f) ==
    /\ \A m \in flusher[f].drop : Settled(m)
    /\ flusher[f].pc = "Run" => \A m \in flusher[f].good :
          \/ inner.runs[stream[m].run] # 0
          \/ \E n \in flusher[f].good :
                stream[n].seq \in flusher[f].runs /\ stream[n].run = stream[m].run
    /\ flusher[f].pc \in {"Thread", "Messages", "Promote", "Mark"} =>
          \A m \in flusher[f].good : inner.runs[stream[m].run] # 0
    /\ flusher[f].pc = "Finish" => \A m \in flusher[f].good : Safe(stream[m].seq)

FlushInv == \A f \in Flushers : FlushOk(f) /\ RunsOk(f)

\* What is acknowledged, or has lost its commit state, is settled and safe.
AckInv ==
    /\ \A s \in Commits : wal[s].status # "Prepared"
    /\ \A m \in acked : wal[stream[m].seq].status # "Prepared"
    /\ \A s \in Commits :
          wal[s].status # "Committed" \/ (\E m \in acked : stream[m].seq = s) => Safe(s)

\* What a reader has read of the metadata and of the watermark still holds.
ReadInv ==
    /\ reader.pc # "Idle" =>
          /\ reader.floor \in {0} \cup Commits
          /\ reader.floor <= reader.latest /\ reader.latest <= meta.latest
    /\ reader.pc = "Inner" => reader.latest <= flushed
    /\ reader.pc # "Idle" /\ reader.js = 0 =>
          \A s \in Commits : s <= reader.latest => s <= flushed
    /\ ReadYourWrites

ViewInv ==
    /\ OrderInv /\ TailInv /\ DeleteInv /\ FlushInv /\ AckInv /\ ReadInv
    /\ InnerNotBehindWatermark


\* All of these are numbers.
LEMMA Numbers ==
    ASSUME StoreInv
    PROVE  /\ meta.latest \in Nat /\ meta.latestJs \in Nat /\ meta.reserved \in Nat
           /\ flushed \in Nat /\ known.erased \in Nat /\ known.ok \in Nat
           /\ inner.thread \in Nat /\ inner.messages \in Nat /\ deleter.target \in Nat
           /\ Commits \subseteq Seqs /\ Seqs \subseteq Nat /\ 0 \notin Seqs
           /\ \A w \in Writers : writer[w].seq \in Nat
           /\ \A f \in Flushers : /\ flusher[f].at \in Nat /\ flusher[f].latest \in Nat
                                  /\ Batch(f) \subseteq Commits
           /\ reader.floor \in Nat /\ reader.latest \in Nat /\ reader.got \in Nat
           /\ reader.js \in Nat
<1>1. /\ meta \in MetaType /\ flushed \in Nat /\ known \in KnownType /\ inner \in InnerType
      /\ deleter \in DeleterType /\ reader \in ReaderType
      /\ writer \in [Writers -> WriterType] /\ flusher \in [Flushers -> FlusherType]
  BY DEF StoreInv, TypeInv, StoreTypes, FlusherTypes
<1>2. \A w \in Writers : writer[w].seq \in Nat
  BY <1>1 DEF WriterType
<1>3. \A f \in Flushers : flusher[f].at \in Nat /\ flusher[f].latest \in Nat
  BY <1>1 DEF FlusherType
<1>4. \A f \in Flushers : Batch(f) \subseteq Commits
  BY DEF StoreInv, BatchInv
<1>5. Commits \subseteq Seqs /\ Seqs \subseteq Nat /\ 0 \notin Seqs
  BY CommitFacts
<1>6. meta.latest \in Nat /\ meta.latestJs \in Nat /\ meta.reserved \in Nat
  BY <1>1 DEF MetaType
<1>7. known.erased \in Nat /\ known.ok \in Nat
  BY <1>1 DEF KnownType
<1>8. inner.thread \in Nat /\ inner.messages \in Nat
  BY <1>1 DEF InnerType
<1>9. deleter.target \in Nat
  BY <1>1 DEF DeleterType
<1>10. reader.floor \in Nat /\ reader.latest \in Nat /\ reader.got \in Nat /\ reader.js \in Nat
  BY <1>1 DEF ReaderType
<1> QED BY <1>1, <1>2, <1>3, <1>4, <1>5, <1>6, <1>7, <1>8, <1>9, <1>10

\* And so they are after the step.
LEMMA NumbersNext ==
    ASSUME StoreInv'
    PROVE  /\ meta'.latest \in Nat /\ meta'.latestJs \in Nat /\ flushed' \in Nat
           /\ known'.erased \in Nat /\ inner'.thread \in Nat /\ inner'.messages \in Nat
           /\ deleter'.target \in Nat /\ Commits' \subseteq Seqs
           /\ reader'.floor \in Nat /\ reader'.latest \in Nat /\ reader'.got \in Nat
<1>1. /\ meta' \in MetaType /\ flushed' \in Nat /\ known' \in KnownType /\ inner' \in InnerType
      /\ deleter' \in DeleterType /\ reader' \in ReaderType /\ committed' \in Seq(Seqs)
  BY DEF StoreInv, TypeInv, StoreTypes
<1>2. meta'.latest \in Nat /\ meta'.latestJs \in Nat
  BY <1>1 DEF MetaType
<1>3. known'.erased \in Nat
  BY <1>1 DEF KnownType
<1>4. inner'.thread \in Nat /\ inner'.messages \in Nat
  BY <1>1 DEF InnerType
<1>5. deleter'.target \in Nat
  BY <1>1 DEF DeleterType
<1>6. reader'.floor \in Nat /\ reader'.latest \in Nat /\ reader'.got \in Nat
  BY <1>1 DEF ReaderType
<1>7. Commits' \subseteq Seqs
  BY <1>1 DEF Commits, Range
<1> QED BY <1>1, <1>2, <1>3, <1>4, <1>5, <1>6, <1>7

\* The log is only added to, and never a committed number.
Extends ==
    /\ \A n \in DOMAIN stream : n \in DOMAIN stream' /\ stream'[n] = stream[n]
    /\ \A n \in DOMAIN stream' : n \in DOMAIN stream \/ stream'[n].seq \notin Commits

\* What only grows.
Forward ==
    /\ meta.latest <= meta'.latest /\ flushed <= flushed' /\ known.erased <= known'.erased
    /\ \A r \in Runs : inner.runs[r] # 0 => inner'.runs[r] # 0
    /\ Extends

\* What is safe stays so.
LEMMA SafeKeeps ==
    ASSUME StoreInv, StoreInv', Forward, NEW s \in Commits, Safe(s)
    PROVE  Safe(s)'
<1>1. s \in Nat /\ flushed \in Nat /\ flushed' \in Nat /\ known.erased \in Nat /\ known'.erased \in Nat
  BY Numbers, NumbersNext
<1>2. s <= flushed'
  BY <1>1 DEF Safe, Forward
<1>3. s <= known.erased => s <= known'.erased
  BY <1>1 DEF Forward
<1>4. ASSUME Recorded(s) PROVE Recorded(s)'
  <2>1. ASSUME NEW n \in DOMAIN stream', stream'[n].seq = s PROVE inner'.runs[stream'[n].run] # 0
    <3>1. n \in DOMAIN stream /\ stream'[n] = stream[n]
      BY <2>1 DEF Forward, Extends
    <3>2. inner.runs[stream[n].run] # 0 /\ stream[n].run \in Runs
      BY <1>4, <2>1, <3>1, CommitFacts DEF Recorded, EntryType
    <3> QED BY <3>1, <3>2 DEF Forward
  <2> QED BY <2>1 DEF Recorded
<1> QED BY <1>2, <1>3, <1>4 DEF Safe

\* Steps that commit nothing, and keep what the tail needs, keep TailInv.
LEMMA TailKeeps ==
    ASSUME StoreInv, StoreInv', TailInv, committed' = committed,
           meta.latest <= meta'.latest, flushed <= flushed',
           \A s \in Commits : wal[s].status = "Committed" =>
              wal'[s].status = "Committed" \/ s <= meta'.latest,
           \/ meta'.latest = meta.latest /\ meta'.latestJs = meta.latestJs
           \/ meta'.latestJs # 0
    PROVE  TailInv'
<1>1. Commits' = Commits /\ Commits \subseteq Nat
  BY Numbers DEF Commits
<1>2. /\ meta.latest \in Nat /\ meta'.latest \in Nat /\ flushed \in Nat /\ flushed' \in Nat
  BY Numbers, NumbersNext
<1>3. ASSUME NEW s \in Commits PROVE s <= meta'.latest \/ wal'[s].status = "Committed"
  BY <1>1, <1>2 DEF TailInv
<1>4. ASSUME meta'.latestJs = 0, NEW s \in Commits, s <= meta'.latest PROVE s <= flushed'
  BY <1>1, <1>2, <1>4 DEF TailInv
<1> QED BY <1>1, <1>3, <1>4 DEF TailInv

\* The numbers of a claim's writer stay above every commit when no writer gets there anew.
LEMMA OrderKeeps ==
    ASSUME StoreInv, OrderInv, committed' = committed,
           meta'.latest \in {meta.latest} \cup Commits \/ hierarchy'.token \notin Writers,
           flushed' \in {flushed} \cup Commits \/ hierarchy'.token \notin Writers,
           \A w \in Writers :
              /\ hierarchy'.token = w /\ writer'[w].pc \in Writing =>
                    /\ hierarchy.token = w /\ writer[w].pc \in Writing
                    /\ writer'[w].seq = writer[w].seq
              /\ Pending(w)' => hierarchy'.token = w
    PROVE  OrderInv'
<1>1. Commits' = Commits
  BY DEF Commits
<1>2. \A i, j \in DOMAIN committed' : i < j => committed'[i] < committed'[j]
  BY DEF OrderInv
<1>3. ASSUME NEW w \in Writers, hierarchy'.token = w, writer'[w].pc \in Writing
      PROVE  /\ \A s \in Commits' : s < writer'[w].seq
             /\ meta'.latest < writer'[w].seq /\ flushed' < writer'[w].seq
  <2>1. /\ \A s \in Commits : s < writer[w].seq
        /\ meta.latest < writer[w].seq /\ flushed < writer[w].seq
        /\ writer'[w].seq = writer[w].seq
    BY <1>3 DEF OrderInv
  <2>2. meta'.latest \in {meta.latest} \cup Commits /\ flushed' \in {flushed} \cup Commits
    BY <1>3
  <2> QED BY <1>1, <2>1, <2>2
<1> QED BY <1>2, <1>3 DEF OrderInv

\* The deleter's knowledge stands while it has the claim.
LEMMA DeleteKeeps ==
    ASSUME StoreInv, StoreInv', DeleteInv, committed' = committed, deleter' = deleter,
           hierarchy'.token = Deleter => hierarchy.token = Deleter,
           Current(hierarchy, Deleter) /\ deleter.pc \in {"MarkFlushed", "Clear"} =>
              hierarchy'.token = Deleter /\ hierarchy'.live,
           \/ meta'.latest = meta.latest /\ meta'.latestJs = meta.latestJs
           \/ meta'.latest > meta.latest /\ meta'.latest \in Commits,
           flushed' = flushed \/ (flushed' > flushed /\ flushed' \in Commits),
           known.erased <= known'.erased
    PROVE  DeleteInv'
<1>1. Commits' = Commits /\ Commits \subseteq Nat
  BY Numbers DEF Commits
<1>2. /\ meta.latest \in Nat /\ meta'.latest \in Nat /\ flushed \in Nat /\ flushed' \in Nat
      /\ known.erased \in Nat /\ known'.erased \in Nat /\ deleter.target \in Nat
  BY Numbers, NumbersNext
<1>3. Below(meta.latest) => meta'.latest = meta.latest /\ meta'.latestJs = meta.latestJs
  BY <1>2 DEF Below
<1>4. Below(flushed) => flushed' = flushed
  BY <1>2 DEF Below
<1>5. flushed <= flushed'
  BY <1>2
<1>6. Below(known.erased) => \A s \in Commits : s <= known'.erased
  BY <1>1, <1>2 DEF Below
<1>7. ASSUME hierarchy'.token = Deleter, deleter.pc \in {"WaitClaimed", "Delete", "Tombstone"}
      PROVE  /\ \A s \in Commits : s <= meta'.latest
             /\ meta'.latest <= deleter.target
             /\ deleter.pc # "WaitClaimed" => deleter.target <= flushed'
             /\ deleter.pc = "Tombstone" => \A s \in Commits : s <= known'.erased
  <2>1. /\ Below(meta.latest) /\ meta.latest <= deleter.target
        /\ deleter.pc # "WaitClaimed" => deleter.target <= flushed
        /\ deleter.pc = "Tombstone" => Below(known.erased)
    BY <1>7 DEF DeleteInv
  <2>2. deleter.pc # "WaitClaimed" => deleter.target <= flushed'
    BY <1>2, <1>5, <2>1
  <2> QED BY <1>3, <1>6, <2>1, <2>2 DEF Below
<1>8. ASSUME deleter.pc \in {"MarkFlushed", "Clear"}
      PROVE  /\ hierarchy'.token = Deleter /\ hierarchy'.live
             /\ \A s \in Commits : s <= flushed' /\ s <= meta'.latest /\ s <= known'.erased
             /\ deleter.pc = "MarkFlushed" => meta'.latestJs = 0 /\ flushed' <= deleter.target
  <2>1. /\ Current(hierarchy, Deleter)
        /\ Below(flushed) /\ Below(meta.latest) /\ Below(known.erased)
        /\ deleter.pc = "MarkFlushed" => meta.latestJs = 0 /\ flushed <= deleter.target
    BY <1>8 DEF DeleteInv
  <2> QED BY <1>3, <1>4, <1>6, <1>8, <2>1 DEF Below
<1> QED BY <1>1, <1>7, <1>8 DEF DeleteInv, Below, Current

\* A flusher that does not move keeps what it knows: whoever moves the
\* watermark or the content without its claim has nothing new for it.
LEMMA FlushKeeps ==
    ASSUME StoreInv, StoreInv', NEW f \in Flushers, FlushOk(f), Forward,
           flusher'[f] = flusher[f], flushing'.token = f => flushing.token = f,
           \A s \in Commits' : s \in Commits \/ s > flushed',
           flushed' = flushed \/ Below(flushed) \/ flushing.token # f,
           \/ inner'.thread = inner.thread /\ inner'.messages = inner.messages
           \/ Below(flushed) \/ flushing.token # f
    PROVE  FlushOk(f)'
<1>1. /\ meta.latest \in Nat /\ meta'.latest \in Nat /\ flushed \in Nat /\ flushed' \in Nat
      /\ flusher[f].at \in Nat /\ flusher[f].latest \in Nat /\ Batch(f) \subseteq Commits
      /\ Commits \subseteq Nat /\ Commits' \subseteq Nat
      /\ meta.latest <= meta'.latest /\ flushed <= flushed'
  BY Numbers, NumbersNext DEF Forward
<1>2. Batch(f)' = Batch(f)
  <2>1. flusher[f].good \subseteq DOMAIN stream
    BY TopIs
  <2>2. \A m \in flusher[f].good : stream'[m] = stream[m]
    BY <2>1 DEF Forward, Extends
  <2> QED BY <2>2 DEF Batch
<1>3. ~flusher'[f].late /\ flusher'[f].at <= flushed' /\ flusher'[f].latest <= meta'.latest
  BY <1>1 DEF FlushOk
<1>4. ASSUME flushing'.token = f, flusher'[f].pc \in Working,
             NEW s \in Commits', s > flusher'[f].at
      PROVE  s > flushed'
  <2>1. CASE s \in Commits
    <3>1. s > flushed
      BY <1>4, <2>1 DEF FlushOk
    <3>2. ~Below(flushed)
      BY <1>1, <2>1, <3>1 DEF Below
    <3> QED BY <1>4, <3>1, <3>2
  <2> QED BY <2>1
<1>5. flusher'[f].pc = "Run" => \A s \in flusher'[f].runs : s > flusher'[f].at
  BY DEF FlushOk
<1>6. flusher'[f].pc \in {"Thread", "Messages", "Mark"} =>
        \E s \in Batch(f)' : s > flusher'[f].at
  BY <1>2 DEF FlushOk
<1>7. ASSUME flusher'[f].pc \in {"Mark", "Finish"}, NEW s \in Batch(f)'
      PROVE  s <= meta'.latest
  <2>1. s <= meta.latest /\ s \in Nat
    BY <1>1, <1>2, <1>7 DEF FlushOk
  <2> QED BY <1>1, <2>1
<1>8. ASSUME NEW s \in Seqs, IsTop(f, s)',
             flushing'.token = f, flusher'[f].pc \in {"Messages", "Promote", "Mark"}
      PROVE  /\ IsTop(f, s) /\ flushing.token = f
             /\ inner'.thread = inner.thread /\ inner'.messages = inner.messages
  <2>1. IsTop(f, s)
    BY <1>2, <1>8 DEF IsTop
  <2>2. s \in Commits /\ s > flusher[f].at
    BY <1>1, <2>1 DEF IsTop
  <2>3. s > flushed
    BY <1>8, <2>2 DEF FlushOk, Working
  <2>4. ~Below(flushed)
    BY <1>1, <2>2, <2>3 DEF Below
  <2> QED BY <1>8, <2>1, <2>4
<1>9. flushing'.token = f /\ flusher'[f].pc \in {"Messages", "Promote", "Mark"} =>
        \A s \in Seqs : IsTop(f, s)' => inner'.thread = s
  BY <1>8 DEF FlushOk
<1>10. flushing'.token = f /\ flusher'[f].pc \in {"Promote", "Mark"} =>
        \A s \in Seqs : IsTop(f, s)' => inner'.messages = s
  BY <1>8 DEF FlushOk
<1> QED BY <1>3, <1>4, <1>5, <1>6, <1>7, <1>9, <1>10 DEF FlushOk

\* Its run records stay written, and its dropped entries settled.
LEMMA RunsKeep ==
    ASSUME StoreInv, StoreInv', NEW f \in Flushers, RunsOk(f), Forward,
           flusher'[f] = flusher[f],
           \A m \in flusher[f].drop : Settled(m) =>
              wal'[stream[m].seq].status \in {"Aborted", "None"}
    PROVE  RunsOk(f)'
<1>1. /\ flusher[f].good \subseteq DOMAIN stream /\ flusher[f].drop \subseteq DOMAIN stream
      /\ \A m \in flusher[f].good : stream[m].seq \in Commits
  BY TopIs, Numbers DEF StoreInv, TypeInv, FlusherTypes
<1>2. \A m \in flusher[f].good \cup flusher[f].drop : stream'[m] = stream[m]
  BY <1>1 DEF Forward, Extends
<1>3. \A m \in flusher[f].good : inner.runs[stream[m].run] # 0 => inner'.runs[stream'[m].run] # 0
  <2>1. ASSUME NEW m \in flusher[f].good PROVE stream[m].run \in Runs
    BY <1>1, CommitFacts DEF EntryType
  <2> QED BY <1>2, <2>1 DEF Forward
<1>4. \A m \in flusher'[f].drop : Settled(m)'
  <2>1. ASSUME NEW m \in flusher'[f].drop PROVE wal'[stream'[m].seq].status \in {"Aborted", "None"}
    BY <1>2 DEF RunsOk
  <2> QED BY <2>1 DEF Settled
<1>5. ASSUME flusher'[f].pc = "Run", NEW m \in flusher'[f].good
      PROVE  \/ inner'.runs[stream'[m].run] # 0
             \/ \E n \in flusher'[f].good :
                   stream'[n].seq \in flusher'[f].runs /\ stream'[n].run = stream'[m].run
  BY <1>2, <1>3, <1>5 DEF RunsOk
<1>6. ASSUME flusher'[f].pc \in {"Thread", "Messages", "Promote", "Mark"},
             NEW m \in flusher'[f].good
      PROVE  inner'.runs[stream'[m].run] # 0
  BY <1>3, <1>6 DEF RunsOk
<1>7. ASSUME flusher'[f].pc = "Finish", NEW m \in flusher'[f].good
      PROVE  Safe(stream[m].seq)'
  <2>1. PICK s \in Commits : s = stream[m].seq
    BY <1>1
  <2>2. Safe(s)
    BY <1>7, <2>1 DEF RunsOk
  <2>3. Safe(s)'
    BY <2>2, SafeKeeps
  <2>4. stream'[m].seq = s
    BY <1>2, <1>7, <2>1
  <2> QED BY <2>3, <2>4 DEF Safe, Recorded
<1> QED BY <1>4, <1>5, <1>6, <1>7 DEF RunsOk

\* What is acknowledged stays safe.
LEMMA AcksKeep ==
    ASSUME StoreInv, StoreInv', AckInv, Forward, committed' = committed,
           \A s \in Commits : wal'[s].status = "Prepared" => wal[s].status = "Prepared",
           \A m \in acked' : wal'[stream'[m].seq].status = "Prepared" =>
              m \in acked /\ wal[stream[m].seq].status = "Prepared",
           \A s \in Commits :
              wal'[s].status # "Committed" \/ (\E m \in acked' : stream'[m].seq = s) =>
                 Safe(s) \/ wal[s].status # "Committed" \/ (\E m \in acked : stream[m].seq = s)
    PROVE  AckInv'
<1>1. Commits' = Commits
  BY DEF Commits
<1>2. \A s \in Commits : wal'[s].status # "Prepared"
  BY DEF AckInv
<1>3. \A m \in acked' : wal'[stream'[m].seq].status # "Prepared"
  BY DEF AckInv
<1>4. ASSUME NEW s \in Commits,
             wal'[s].status # "Committed" \/ (\E m \in acked' : stream'[m].seq = s)
      PROVE  Safe(s)'
  <2>1. Safe(s)
    BY <1>4 DEF AckInv
  <2> QED BY <2>1, SafeKeeps
<1> QED BY <1>1, <1>2, <1>3, <1>4 DEF AckInv

\* What a reader has read stays true.
LEMMA ReadKeeps ==
    ASSUME StoreInv, StoreInv', ReadInv, Forward, reader' = reader,
           \A s \in Commits : s \in Commits',
           \A s \in Commits' : s \in Commits \/ s > meta.latest
    PROVE  ReadInv'
<1>1. /\ meta.latest \in Nat /\ meta'.latest \in Nat /\ flushed \in Nat /\ flushed' \in Nat
      /\ known.erased \in Nat /\ known'.erased \in Nat
      /\ Commits \subseteq Nat /\ Commits' \subseteq Nat
      /\ reader.latest \in Nat /\ reader.floor \in Nat
      /\ meta.latest <= meta'.latest /\ flushed <= flushed' /\ known.erased <= known'.erased
  BY Numbers, NumbersNext DEF Forward
<1>2. reader.pc # "Idle" => /\ reader.floor \in {0} \cup Commits'
                            /\ reader.floor <= reader.latest /\ reader.latest <= meta'.latest
  BY <1>1 DEF ReadInv
<1>3. reader.pc = "Inner" => reader.latest <= flushed'
  BY <1>1 DEF ReadInv
<1>4. ASSUME reader.pc # "Idle", reader.js = 0, NEW s \in Commits', s <= reader.latest
      PROVE  s <= flushed'
  <2>1. s \in Commits
    BY <1>1, <1>4 DEF ReadInv
  <2>2. s <= flushed /\ s \in Nat
    BY <1>1, <1>4, <2>1 DEF ReadInv
  <2> QED BY <1>1, <2>2
<1>5. reader.pc = "Done" /\ reader.floor > known'.erased => reader.got >= reader.floor
  BY <1>1 DEF ReadInv, ReadYourWrites
<1> QED BY <1>2, <1>3, <1>4, <1>5 DEF ReadInv, ReadYourWrites

\* The inner store stays as new as the watermark says.
LEMMA InnerKeeps ==
    ASSUME StoreInv, StoreInv', InnerNotBehindWatermark, Forward,
           \A s \in Commits' : s \in Commits \/ s > flushed',
           flushed' = flushed \/ \A s \in Commits' : s <= known'.erased,
           \/ inner'.thread = inner.thread /\ inner'.messages = inner.messages
           \/ \A s \in Commits' : s <= known'.erased
    PROVE  InnerNotBehindWatermark'
<1>1. /\ flushed \in Nat /\ flushed' \in Nat /\ known.erased \in Nat /\ known'.erased \in Nat
      /\ Commits \subseteq Nat /\ Commits' \subseteq Nat /\ known.erased <= known'.erased
  BY Numbers, NumbersNext DEF Forward
<1>2. ASSUME NEW s \in Commits', s <= flushed', s > known'.erased
      PROVE  inner'.messages >= s /\ inner'.thread >= s
  <2>1. ~(\A t \in Commits' : t <= known'.erased)
    BY <1>1, <1>2
  <2>2. /\ flushed' = flushed /\ s \in Commits
        /\ inner'.thread = inner.thread /\ inner'.messages = inner.messages
    BY <1>1, <1>2, <2>1
  <2>3. s > known.erased
    BY <1>1, <1>2
  <2> QED BY <1>2, <2>2, <2>3 DEF InnerNotBehindWatermark, Commits
<1> QED BY <1>2 DEF InnerNotBehindWatermark, Commits

-----------------------------------------------------------------------------
(* Steps that commit nothing and leave the stores alone.                   *)

\* The metadata stays, or catches up with a commit.
CatchUp ==
    \/ meta'.latest = meta.latest /\ meta'.latestJs = meta.latestJs
    \/ meta'.latest > meta.latest /\ meta'.latest \in Commits /\ meta'.latestJs # 0

\* No commit state changes, but for prepared ones that are aborted and those
\* of numbers that are neither committed nor in the log.
Settles(states) == \A s \in Seqs :
    \/ states[s].status = wal[s].status
    \/ wal[s].status = "Prepared" /\ states[s].status = "Aborted"
    \/ s \notin Commits /\ \A n \in DOMAIN stream : stream[n].seq # s

\* Such a step keeps all but what it says of the claim, the deleter and the reader.
LEMMA RestKeeps ==
    ASSUME StoreInv, StoreInv', ViewInv, committed' = committed, CatchUp,
           flushed' = flushed, known'.erased = known.erased, inner' = inner, Extends,
           Settles(wal'), acked' = acked, flushing'.token = flushing.token, flusher' = flusher
    PROVE  /\ Forward /\ TailInv' /\ FlushInv' /\ AckInv' /\ InnerNotBehindWatermark'
           /\ reader' = reader => ReadInv'
<1>1. Commits' = Commits /\ Commits \subseteq Seqs
  BY Numbers DEF Commits
<1>2. Forward
  BY Numbers, NumbersNext DEF Forward, CatchUp
<1>3. /\ OrderInv /\ TailInv /\ DeleteInv /\ FlushInv /\ AckInv /\ ReadInv
      /\ InnerNotBehindWatermark
  BY DEF ViewInv
<1>4. TailInv'
  <2>1. ASSUME NEW s \in Commits, wal[s].status = "Committed" PROVE wal'[s].status = "Committed"
    BY <1>1, <2>1 DEF Settles
  <2>2. meta.latest <= meta'.latest /\ flushed <= flushed'
    BY <1>2 DEF Forward
  <2>3. \/ meta'.latest = meta.latest /\ meta'.latestJs = meta.latestJs
        \/ meta'.latestJs # 0
    BY DEF CatchUp
  <2> QED BY <1>3, <2>1, <2>2, <2>3, TailKeeps
<1>5. \A n \in DOMAIN stream : stream[n].seq \in Seqs
  BY CommitFacts DEF EntryType
<1>6. FlushInv'
  <2>1. ASSUME NEW f \in Flushers PROVE FlushOk(f)' /\ RunsOk(f)'
    <3>1. FlushOk(f) /\ RunsOk(f) /\ flusher'[f] = flusher[f]
      BY <1>3 DEF FlushInv
    <3>2. FlushOk(f)'
      BY <1>1, <1>2, <3>1, FlushKeeps
    <3>3. flusher[f].drop \subseteq DOMAIN stream
      BY DEF StoreInv, TypeInv, FlusherTypes
    <3>4. ASSUME NEW m \in flusher[f].drop, Settled(m)
          PROVE  wal'[stream[m].seq].status \in {"Aborted", "None"}
      <4>1. m \in DOMAIN stream /\ stream[m].seq \in Seqs
        BY <1>5, <3>3
      <4> QED BY <3>4, <4>1 DEF Settled, Settles
    <3>5. RunsOk(f)'
      BY <1>2, <3>1, <3>4, RunsKeep
    <3> QED BY <3>2, <3>5
  <2> QED BY <2>1 DEF FlushInv
<1>7. AckInv'
  <2>1. acked \subseteq DOMAIN stream /\ \A m \in acked : stream'[m] = stream[m]
    BY DEF StoreInv, TypeInv, StoreTypes, Extends
  <2>2. \A s \in Commits : wal'[s].status = "Prepared" => wal[s].status = "Prepared"
    BY <1>1 DEF Settles
  <2>3. ASSUME NEW m \in acked', wal'[stream'[m].seq].status = "Prepared"
        PROVE  m \in acked /\ wal[stream[m].seq].status = "Prepared"
    <3>1. m \in DOMAIN stream /\ stream[m].seq \in Seqs /\ stream'[m] = stream[m]
      BY <1>5, <2>1
    <3> QED BY <2>3, <3>1 DEF Settles
  <2>4. ASSUME NEW s \in Commits,
               wal'[s].status # "Committed" \/ (\E m \in acked' : stream'[m].seq = s)
        PROVE  wal[s].status # "Committed" \/ (\E m \in acked : stream[m].seq = s)
    BY <1>1, <2>1, <2>4 DEF Settles
  <2> QED BY <1>2, <1>3, <2>2, <2>3, <2>4, AcksKeep
<1>8. InnerNotBehindWatermark'
  BY <1>1, <1>2, <1>3, InnerKeeps
<1>9. reader' = reader => ReadInv'
  BY <1>1, <1>2, <1>3, ReadKeeps
<1> QED BY <1>2, <1>4, <1>6, <1>7, <1>8, <1>9

\* A writer that goes on within its number keeps the view.
LEMMA WriterQuiet ==
    ASSUME StoreInv, StoreInv', ViewInv, NEW w \in Writers,
           committed' = committed, CatchUp, flushed' = flushed, known'.erased = known.erased,
           UNCHANGED OthersThanWriters, Extends, Settles(wal'),
           hierarchy'.token = hierarchy.token, hierarchy.token # w => hierarchy' = hierarchy,
           \A s \in Seqs : wal'[s].status = "Prepared" =>
              wal[s].status = "Prepared" \/ s = writer[w].seq,
           writer'[w].seq = writer[w].seq,
           writer'[w].pc \in Writing => writer[w].pc \in Writing,
           Pending(w)' => Pending(w) \/ hierarchy.token = w,
           \A v \in Writers : v # w => writer'[v] = writer[v]
    PROVE  ViewInv'
<1>0. /\ flushing' = flushing /\ inner' = inner /\ flusher' = flusher /\ deleter' = deleter
      /\ reader' = reader /\ acked' = acked
  BY DEF OthersThanWriters
<1>1. OrderInv /\ DeleteInv
  BY DEF ViewInv
<1>2. Deleter \notin Writers
  BY BufferedAssumption
<1>3. \A v \in Writers : Pending(v) => hierarchy.token = v
  BY <1>1 DEF OrderInv
<1>4. ASSUME NEW v \in Writers, v # w, Pending(v)' PROVE Pending(v)
  <2>1. /\ writer[v].pc \in {"Published", "Prepared"}
        /\ writer'[v] = writer[v] /\ wal'[writer[v].seq].status = "Prepared"
    BY <1>4 DEF Pending
  <2>2. writer[v].seq # 0
    BY <2>1 DEF StoreInv, CountInv, MayBeUnnumbered
  <2>3. writer[v].seq \in Seqs /\ writer[v].seq # writer[w].seq
    BY <1>4, <2>2, Bounds DEF StoreInv, CountInv
  <2>4. wal[writer[v].seq].status = "Prepared"
    BY <2>1, <2>3
  <2> QED BY <1>4, <2>1, <2>4 DEF Pending
<1>5. ASSUME NEW v \in Writers
      PROVE  /\ hierarchy'.token = v /\ writer'[v].pc \in Writing =>
                   /\ hierarchy.token = v /\ writer[v].pc \in Writing
                   /\ writer'[v].seq = writer[v].seq
             /\ Pending(v)' => hierarchy'.token = v
  BY <1>3, <1>4
<1>6. meta'.latest \in {meta.latest} \cup Commits
  BY DEF CatchUp
<1>7. OrderInv'
  BY <1>1, <1>5, <1>6, OrderKeeps
<1>8. DeleteInv'
  <2>1. Current(hierarchy, Deleter) => hierarchy'.token = Deleter /\ hierarchy'.live
    BY <1>2 DEF Current
  <2>2. known.erased <= known'.erased
    BY Numbers
  <2>3. \/ meta'.latest = meta.latest /\ meta'.latestJs = meta.latestJs
        \/ meta'.latest > meta.latest /\ meta'.latest \in Commits
    BY DEF CatchUp
  <2> QED BY <1>0, <1>1, <2>1, <2>2, <2>3, DeleteKeeps
<1> QED BY <1>0, <1>7, <1>8, RestKeeps DEF ViewInv

\* What is left alone neither catches up, settles nor extends anything wrongly.
LEMMA Standing ==
    /\ meta' = meta => CatchUp
    /\ wal' = wal => Settles(wal')
    /\ stream' = stream => Extends
BY DEF CatchUp, Settles, Extends

\* A hop of a writer keeps the view.
LEMMA HopView ==
    ASSUME StoreInv, StoreInv', ViewInv, NEW w \in Writers,
           NEW from, NEW to, <<from, to>> \in Hops, Goto(w, from, to),
           committed' = committed, CatchUp, flushed' = flushed, known'.erased = known.erased,
           UNCHANGED OthersThanWriters, Extends, Settles(wal'),
           hierarchy'.token = hierarchy.token, hierarchy.token # w => hierarchy' = hierarchy,
           \A s \in Seqs : wal'[s].status = "Prepared" =>
              wal[s].status = "Prepared" \/ s = writer[w].seq
    PROVE  ViewInv'
<1>1. /\ writer[w].pc = from /\ writer'[w].pc = to /\ ~writer'[w].late
      /\ writer'[w].seq = writer[w].seq
      /\ \A v \in Writers : v # w => writer'[v] = writer[v]
  BY HopIs DEF Moved
<1>2. to # "Published" /\ (to \in Writing => from \in Writing)
  BY DEF Hops, Writing
<1>3. ~Pending(w)'
  BY <1>1, <1>2 DEF Pending
<1> QED BY <1>1, <1>2, <1>3, WriterQuiet

\* The failures a checkpoint call meets change nothing a reader sees.
LEMMA WriterHopsView ==
    ASSUME StoreInv, StoreInv', ViewInv, NEW w \in Writers,
           \/ WriterTimesOut(w) \/ WriterLosesClaim(w) \/ WriterPrepareFails(w)
           \/ WriterFindsSettled(w) \/ WriterCommitFails(w) \/ WriterCommitUnknown(w)
    PROVE  ViewInv'
<1>1. UNCHANGED <<kv, stream, hierarchy, committed, known, OthersThanWriters>>
  BY DEF WriterTimesOut, WriterLosesClaim, WriterPrepareFails, WriterFindsSettled,
         WriterCommitFails, WriterCommitUnknown
<1>2. \E from, to : <<from, to>> \in Hops /\ Goto(w, from, to)
  <2>1. CASE WriterTimesOut(w)
    <3>1. <<"Idle", "Err">> \in Hops
      BY DEF Hops
    <3> QED BY <2>1, <3>1 DEF WriterTimesOut
  <2>2. CASE WriterLosesClaim(w)
    <3>1. <<"Overlaid", "ReleaseErr">> \in Hops /\ <<"Prepared", "Abort">> \in Hops
          /\ <<"Published", "Abort">> \in Hops
      BY DEF Hops
    <3>2. \/ Goto(w, "Overlaid", "ReleaseErr") \/ Goto(w, "Prepared", "Abort")
          \/ Goto(w, "Published", "Abort")
      BY <2>2 DEF WriterLosesClaim
    <3> QED BY <3>1, <3>2
  <2>3. CASE WriterPrepareFails(w)
    <3>1. <<"Overlaid", "ReleaseErr">> \in Hops /\ <<"Reserved", "ReleaseErr">> \in Hops
      BY DEF Hops
    <3>2. PICK from \in {"Overlaid", "Reserved"} : Goto(w, from, "ReleaseErr")
      BY <2>3 DEF WriterPrepareFails
    <3>3. <<from, "ReleaseErr">> \in Hops
      BY <3>1
    <3> QED BY <3>2, <3>3
  <2>4. CASE WriterFindsSettled(w)
    <3>1. <<"Published", "Abort">> \in Hops
      BY DEF Hops
    <3> QED BY <2>4, <3>1 DEF WriterFindsSettled
  <2>5. CASE WriterCommitUnknown(w)
    <3>1. <<"Committed", "ReleaseUnknown">> \in Hops /\ <<"Cached", "ReleaseUnknown">> \in Hops
      BY DEF Hops
    <3>2. PICK from \in {"Committed", "Cached"} : Goto(w, from, "ReleaseUnknown")
      BY <2>5 DEF WriterCommitUnknown
    <3>3. <<from, "ReleaseUnknown">> \in Hops
      BY <3>1
    <3> QED BY <3>2, <3>3
  <2>6. CASE WriterCommitFails(w)
    <3>1. <<"Published", "Abort">> \in Hops
      BY DEF Hops
    <3> QED BY <2>6, <3>1 DEF WriterCommitFails
  <2> QED BY <2>1, <2>2, <2>3, <2>4, <2>5, <2>6
<1>3. PICK from, to : <<from, to>> \in Hops /\ Goto(w, from, to)
  BY <1>2
<1>4. /\ meta' = meta /\ wal' = wal /\ flushed' = flushed /\ stream' = stream
      /\ hierarchy' = hierarchy /\ committed' = committed /\ known' = known
      /\ UNCHANGED OthersThanWriters
  BY <1>1 DEF kv
<1>5. CatchUp /\ Settles(wal') /\ Extends
  BY <1>4, Standing
<1> QED BY <1>3, <1>4, <1>5, HopView

\* Nor does caching the run record.
LEMMA WriterCacheView ==
    ASSUME StoreInv, StoreInv', ViewInv, NEW w \in Writers, WriterCaches(w)
    PROVE  ViewInv'
<1>1. <<"Committed", "Cached">> \in Hops /\ Goto(w, "Committed", "Cached")
  BY DEF Hops, WriterCaches
<1>2. /\ meta' = meta /\ wal' = wal /\ flushed' = flushed /\ stream' = stream
      /\ hierarchy' = hierarchy /\ committed' = committed /\ known' = known
      /\ UNCHANGED OthersThanWriters
  BY DEF WriterCaches
<1>3. CatchUp /\ Settles(wal') /\ Extends
  BY <1>2, Standing
<1> QED BY <1>1, <1>2, <1>3, HopView

\* Promoting to a committed entry catches up with it.
LEMMA PromoteView ==
    ASSUME StoreInv, NEW s \in Commits, NEW js \in Nat, js # 0, meta' = Promote(meta, s, js)
    PROVE  CatchUp /\ meta'.latest >= s
<1>1. s \in Nat /\ s <= meta.reserved /\ meta.latest \in Nat
  BY CommitFacts, Numbers
<1>2. meta' = IF meta.latest >= s THEN meta
              ELSE [reserved |-> meta.reserved, latest |-> s, latestJs |-> js]
  BY <1>1, PromoteIs
<1>3. CASE meta.latest >= s
  BY <1>2, <1>3 DEF CatchUp
<1>4. CASE ~(meta.latest >= s)
  <2>1. meta'.latest = s /\ meta'.latestJs = js /\ s > meta.latest
    BY <1>1, <1>2, <1>4
  <2> QED BY <1>1, <2>1 DEF CatchUp
<1> QED BY <1>3, <1>4

\* Promoting the metadata shows what was shown from the tail.
LEMMA WriterPromoteView ==
    ASSUME StoreInv, StoreInv', ViewInv, NEW w \in Writers, WriterPromotes(w)
    PROVE  ViewInv'
<1>1. <<"Cached", "ReleaseOk">> \in Hops /\ Goto(w, "Cached", "ReleaseOk")
  BY DEF Hops, WriterPromotes
<1>2. /\ wal' = wal /\ flushed' = flushed /\ stream' = stream
      /\ hierarchy' = hierarchy /\ committed' = committed /\ known' = known
      /\ UNCHANGED OthersThanWriters
  BY DEF WriterPromotes
<1>3. CatchUp
  <2>1. writer[w].pc = "Cached"
    BY <1>1, HopIs
  <2>2. writer[w].seq \in Commits
    BY <2>1 DEF StoreInv, OriginInv, WriterOrigin, Kept
  <2>3. writer[w].js \in Nat /\ writer[w].js \in DOMAIN stream
    BY <2>1 DEF StoreInv, TypeInv, WriterType, StreamInv, EntryOf
  <2>4. writer[w].js # 0
    BY <2>3, CommitFacts
  <2>5. meta' = Promote(meta, writer[w].seq, writer[w].js)
    BY DEF WriterPromotes
  <2> QED BY <2>2, <2>3, <2>4, <2>5, PromoteView
<1>4. Settles(wal') /\ Extends
  BY <1>2, Standing
<1> QED BY <1>1, <1>2, <1>3, <1>4, HopView

\* Aborting one's own entry hides nothing.
LEMMA WriterAbortView ==
    ASSUME StoreInv, StoreInv', ViewInv, NEW w \in Writers, WriterAborts(w)
    PROVE  ViewInv'
<1>1. <<"Abort", "ReleaseErr">> \in Hops /\ Goto(w, "Abort", "ReleaseErr")
  BY DEF Hops, WriterAborts
<1>2. /\ meta' = meta /\ flushed' = flushed /\ stream' = stream
      /\ hierarchy' = hierarchy /\ committed' = committed /\ known' = known
      /\ UNCHANGED OthersThanWriters
  BY DEF WriterAborts
<1>3. \A s \in Seqs : \/ wal'[s].status = wal[s].status
                      \/ wal[s].status = "Prepared" /\ wal'[s].status = "Aborted"
  <2>0. wal \in [Seqs -> WalType]
    BY DEF StoreInv, TypeInv, StoreTypes
  <2>1. \/ wal' = wal
        \/ /\ wal[writer[w].seq].status = "Prepared"
           /\ wal' = [wal EXCEPT ![writer[w].seq].status = "Aborted"]
    BY DEF WriterAborts
  <2>2. CASE /\ wal[writer[w].seq].status = "Prepared"
             /\ wal' = [wal EXCEPT ![writer[w].seq].status = "Aborted"]
    <3> DEFINE q == writer[w].seq
               p == [wal[q] EXCEPT !.status = "Aborted"]
    <3>1. q \in Seqs => p.status = "Aborted"
      BY <2>0 DEF WalType
    <3>2. wal' = [wal EXCEPT ![q] = p] /\ wal[q].status = "Prepared"
      BY <2>0, <2>2
    <3> HIDE DEF p, q
    <3> QED BY <2>0, <3>1, <3>2
  <2> QED BY <2>1, <2>2
<1>4. CatchUp /\ Extends
  BY <1>2, Standing
<1>5. Settles(wal')
  BY <1>3 DEF Settles
<1>6. \A s \in Seqs : wal'[s].status = "Prepared" => wal[s].status = "Prepared"
  BY <1>3
<1> QED BY <1>1, <1>2, <1>4, <1>5, <1>6, HopView

\* Returning releases the claim.
LEMMA WriterReturnView ==
    ASSUME StoreInv, StoreInv', ViewInv, NEW w \in Writers, WriterReturns(w)
    PROVE  ViewInv'
<1>1. PICK hop \in {<<"ReleaseOk", "Ok">>, <<"ReleaseErr", "Err">>,
                     <<"ReleaseUnknown", "Unknown">>, <<"ReleaseUnsure", "Unsure">>} :
         /\ Goto(w, hop[1], hop[2])
         /\ Released(hierarchy, w)
         /\ known' = IF hop[2] = "Ok" THEN [known EXCEPT !.ok = Max({@, writer[w].seq})] ELSE known
         /\ UNCHANGED <<kv, stream, committed, troubles, OthersThanWriters>>
  BY DEF WriterReturns
<1>2. <<hop[1], hop[2]>> \in Hops
  BY DEF Hops
<1>3. known'.erased = known.erased
  <2>1. known \in KnownType
    BY StillKnown
  <2> QED BY <1>1, <2>1 DEF KnownType
<1>4. hierarchy'.token = hierarchy.token /\ (hierarchy.token # w => hierarchy' = hierarchy)
  <2>1. hierarchy \in HierarchyType
    BY StillKnown
  <2> QED BY <1>1, <2>1 DEF Released, HierarchyType
<1>5. /\ meta' = meta /\ wal' = wal /\ flushed' = flushed /\ stream' = stream
      /\ committed' = committed /\ UNCHANGED OthersThanWriters
  BY <1>1 DEF kv
<1>6. CatchUp /\ Settles(wal') /\ Extends
  BY <1>5, Standing
<1> QED BY <1>1, <1>2, <1>3, <1>4, <1>5, <1>6, HopView

\* So does a release that fails, or nothing happens to the claim.
LEMMA WriterReleaseFailView ==
    ASSUME StoreInv, StoreInv', ViewInv, NEW w \in Writers, WriterReleaseFails(w)
    PROVE  ViewInv'
<1>1. PICK hop \in {<<"ReleaseOk", "Unsure">>, <<"ReleaseErr", "Err">>,
                     <<"ReleaseUnknown", "Unknown">>, <<"ReleaseUnsure", "Unsure">>} :
         /\ Goto(w, hop[1], hop[2])
         /\ Released(hierarchy, w) \/ UNCHANGED hierarchy
         /\ UNCHANGED <<kv, stream, committed, known, OthersThanWriters>>
  BY DEF WriterReleaseFails
<1>2. <<hop[1], hop[2]>> \in Hops
  BY DEF Hops
<1>3. hierarchy'.token = hierarchy.token /\ (hierarchy.token # w => hierarchy' = hierarchy)
  <2>1. hierarchy \in HierarchyType
    BY StillKnown
  <2> QED BY <1>1, <2>1 DEF Released, HierarchyType
<1>4. /\ meta' = meta /\ wal' = wal /\ flushed' = flushed /\ stream' = stream
      /\ committed' = committed /\ known' = known /\ UNCHANGED OthersThanWriters
  BY <1>1 DEF kv
<1>5. CatchUp /\ Settles(wal') /\ Extends
  BY <1>4, Standing
<1> QED BY <1>1, <1>2, <1>3, <1>4, <1>5, HopView

\* A crash of a writer changes nothing a reader sees.
LEMMA WriterCrashView ==
    ASSUME StoreInv, StoreInv', ViewInv, NEW w \in Writers, WriterCrashes(w)
    PROVE  ViewInv'
<1>1. writer \in [Writers -> WriterType] /\ writer[w] \in WriterType
  BY DEF StoreInv, TypeInv
<1> DEFINE y == [writer[w] EXCEPT !.pc = "Dead"]
<1>2. writer' = [writer EXCEPT ![w] = y]
  BY <1>1 DEF WriterCrashes
<1>3. y.pc = "Dead" /\ y.seq = writer[w].seq
  BY <1>1 DEF WriterType
<1> HIDE DEF y
<1>4. /\ meta' = meta /\ wal' = wal /\ flushed' = flushed /\ stream' = stream
      /\ hierarchy' = hierarchy /\ committed' = committed /\ known' = known
      /\ UNCHANGED OthersThanWriters
  BY DEF WriterCrashes, kv
<1>5. CatchUp /\ Settles(wal') /\ Extends
  BY <1>4, Standing
<1>6. /\ writer'[w].pc = "Dead" /\ writer'[w].seq = writer[w].seq
      /\ \A v \in Writers : v # w => writer'[v] = writer[v]
  BY <1>1, <1>2, <1>3
<1>7. ~Pending(w)' /\ writer'[w].pc \notin Writing
  BY <1>6 DEF Pending, Writing
<1> QED BY <1>4, <1>5, <1>6, <1>7, WriterQuiet

\* A writer before its commit has nothing committed, and before its publish
\* nothing in the log.
LEMMA NotYet ==
    ASSUME StoreInv, NEW w \in Writers, writer[w].pc \in {"Reserved", "Prepared"}
    PROVE  /\ writer[w].seq \in Seqs /\ writer[w].seq \notin Commits
           /\ \A n \in DOMAIN stream : stream[n].seq # writer[w].seq
<1>1. writer[w].seq # 0
  BY DEF StoreInv, CountInv, MayBeUnnumbered
<1>2. writer[w].seq \in Seqs
  BY <1>1, Bounds DEF StoreInv
<1>3. writer[w].seq \notin Commits
  BY DEF StoreInv, OriginInv, WriterOrigin, Kept
<1>4. ASSUME NEW n \in DOMAIN stream, stream[n].seq = writer[w].seq PROVE FALSE
  <2>1. PICK v \in Writers : writer[v].seq = stream[n].seq /\ writer[v].pc \notin Unpublished
    BY DEF StoreInv, StreamInv
  <2>2. v = w
    BY <1>1, <1>4, <2>1 DEF StoreInv, CountInv
  <2> QED BY <2>1, <2>2 DEF Unpublished
<1> QED BY <1>2, <1>3, <1>4

\* A writer's publish adds to the log what is not committed.
LEMMA PublishExtends ==
    ASSUME StoreInv, NEW w \in Writers, writer[w].pc = "Prepared",
           stream' = Append(stream, [seq |-> writer[w].seq, run |-> RunOf[w]])
    PROVE  Extends
<1> DEFINE e == [seq |-> writer[w].seq, run |-> RunOf[w]]
<1>1. e.seq \notin Commits /\ e \in EntryType
  <2>1. RunOf[w] \in Runs
    BY BufferedAssumption
  <2> QED BY <2>1, NotYet DEF EntryType
<1>2. stream \in Seq(EntryType) /\ stream' = Append(stream, e)
  BY DEF StoreInv, TypeInv, StoreTypes
<1> HIDE DEF e
<1>3. /\ DOMAIN stream' = DOMAIN stream \cup {Len(stream) + 1}
      /\ \A n \in DOMAIN stream : stream'[n] = stream[n]
      /\ stream'[Len(stream) + 1] = e
  BY <1>1, <1>2, AppendIs
<1> QED BY <1>1, <1>3 DEF Extends

\* Publishing an entry shows nothing yet: it is not committed.
LEMMA WriterPublishView ==
    ASSUME StoreInv, StoreInv', ViewInv, NEW w \in Writers,
           WriterPublishes(w) \/ WriterPublishFails(w)
    PROVE  ViewInv'
<1>1. /\ meta' = meta /\ wal' = wal /\ flushed' = flushed
      /\ hierarchy' = hierarchy /\ committed' = committed /\ known' = known
      /\ UNCHANGED OthersThanWriters
  BY DEF WriterPublishes, WriterPublishFails, kv
<1>2. CatchUp /\ Settles(wal') /\ (stream' = stream => Extends)
  BY <1>1, Standing
<1>3. CASE WriterPublishes(w)
  <2>1. /\ writer[w].pc = "Prepared"
        /\ stream' = Append(stream, [seq |-> writer[w].seq, run |-> RunOf[w]])
        /\ writer'[w].pc = "Published" /\ writer'[w].seq = writer[w].seq
        /\ \A v \in Writers : v # w => writer'[v] = writer[v]
    BY <1>3, PublishIs
  <2>2. Extends
    BY <2>1, PublishExtends
  <2>3. hierarchy.token = w \/ writer[w].late
    BY <1>3 DEF WriterPublishes, MayWrite, Passes, Current
  <2>4. Pending(w)' => Pending(w) \/ hierarchy.token = w
    BY <1>1, <2>1, <2>3 DEF Pending
  <2>5. writer'[w].pc \in Writing => writer[w].pc \in Writing
    BY <2>1 DEF Writing
  <2> QED BY <1>1, <1>2, <2>1, <2>2, <2>4, <2>5, WriterQuiet
<1>4. CASE WriterPublishFails(w)
  <2>1. <<"Prepared", "Abort">> \in Hops /\ Goto(w, "Prepared", "Abort")
    BY <1>4 DEF Hops, WriterPublishFails
  <2>2. writer[w].pc = "Prepared"
    BY <2>1, HopIs
  <2>3. Extends
    BY <1>2, <1>4, <2>2, PublishExtends DEF WriterPublishFails
  <2> QED BY <1>1, <1>2, <2>1, <2>3, HopView
<1> QED BY <1>3, <1>4

\* Preparing the commit state of a new number concerns no committed entry.
LEMMA WriterPrepareView ==
    ASSUME StoreInv, StoreInv', ViewInv, NEW w \in Writers, WriterPrepares(w)
    PROVE  ViewInv'
<1>1. <<"Reserved", "Prepared">> \in Hops /\ Goto(w, "Reserved", "Prepared")
  BY DEF Hops, WriterPrepares
<1>2. /\ meta' = meta /\ flushed' = flushed /\ stream' = stream
      /\ hierarchy' = hierarchy /\ committed' = committed /\ known' = known
      /\ UNCHANGED OthersThanWriters
  BY DEF WriterPrepares
<1>3. writer[w].pc = "Reserved"
  BY <1>1, HopIs
<1>4. \A s \in Seqs : s # writer[w].seq => wal'[s] = wal[s]
  <2>1. wal \in [Seqs -> WalType]
    BY DEF StoreInv, TypeInv, StoreTypes
  <2> DEFINE q == writer[w].seq
             p == [status |-> "Prepared", token |-> w, js |-> 0]
  <2>2. wal' = [wal EXCEPT ![q] = p]
    BY DEF WriterPrepares
  <2> HIDE DEF p, q
  <2>3. \A s \in Seqs : s # q => wal'[s] = wal[s]
    BY <2>1, <2>2
  <2> QED BY <2>3 DEF q
<1>5. Settles(wal')
  BY <1>3, <1>4, NotYet DEF Settles
<1>6. CatchUp /\ Extends
  BY <1>2, Standing
<1>7. \A s \in Seqs : wal'[s].status = "Prepared" =>
         wal[s].status = "Prepared" \/ s = writer[w].seq
  BY <1>4
<1> QED BY <1>1, <1>2, <1>5, <1>6, <1>7, HopView

\* A number is reserved above all that is committed, shown or flushed.
LEMMA WriterReserveView ==
    ASSUME StoreInv, StoreInv', ViewInv, NEW w \in Writers, WriterReserves(w)
    PROVE  ViewInv'
<1>1. /\ writer[w].pc = "Overlaid"
      /\ meta' = [reserved |-> meta.reserved + 1, latest |-> meta.latest,
                  latestJs |-> meta.latestJs]
      /\ writer'[w].pc = "Reserved" /\ writer'[w].seq = meta.reserved + 1
      /\ \A v \in Writers : v # w => writer'[v] = writer[v]
  BY ReserveIs
<1>2. /\ wal' = wal /\ flushed' = flushed /\ stream' = stream
      /\ hierarchy' = hierarchy /\ committed' = committed /\ known' = known
      /\ UNCHANGED OthersThanWriters
  BY DEF WriterReserves
<1>3. /\ flushing' = flushing /\ inner' = inner /\ flusher' = flusher /\ deleter' = deleter
      /\ reader' = reader /\ acked' = acked
  BY <1>2 DEF OthersThanWriters
<1>4. meta'.latest = meta.latest /\ meta'.latestJs = meta.latestJs
  BY <1>1
<1>5. CatchUp /\ Settles(wal') /\ Extends
  BY <1>2, <1>4, Standing DEF CatchUp
<1>6. OrderInv /\ DeleteInv
  BY DEF ViewInv
<1>7. Commits' = Commits
  BY <1>2 DEF Commits
<1>8. OrderInv'
  <2>1. \A i, j \in DOMAIN committed' : i < j => committed'[i] < committed'[j]
    BY <1>2, <1>6 DEF OrderInv
  <2>2. /\ \A s \in Commits : s \in Nat /\ s < meta.reserved + 1
        /\ meta.latest < meta.reserved + 1 /\ flushed < meta.reserved + 1
    <3>1. \A s \in Commits : s \in Nat /\ s <= meta.reserved
      BY CommitFacts
    <3>2. /\ meta.latest \in Nat /\ meta.latest <= meta.reserved /\ meta.reserved \in Nat
          /\ flushed \in Nat /\ flushed <= meta.reserved
      BY Numbers DEF StoreInv, CountInv
    <3> QED BY <3>1, <3>2
  <2>3. ASSUME NEW v \in Writers, hierarchy'.token = v, writer'[v].pc \in Writing
        PROVE  /\ \A s \in Commits' : s < writer'[v].seq
               /\ meta'.latest < writer'[v].seq /\ flushed' < writer'[v].seq
    <3>1. CASE v = w
      BY <1>1, <1>2, <1>4, <1>7, <2>2, <3>1
    <3>2. CASE v # w
      <4>1. writer'[v] = writer[v] /\ hierarchy.token = v
        BY <1>1, <1>2, <2>3, <3>2
      <4>2. /\ \A s \in Commits : s < writer[v].seq
            /\ meta.latest < writer[v].seq /\ flushed < writer[v].seq
        BY <1>6, <2>3, <4>1 DEF OrderInv
      <4> QED BY <1>2, <1>4, <1>7, <4>1, <4>2
    <3> QED BY <3>1, <3>2
  <2>4. ASSUME NEW v \in Writers, Pending(v)' PROVE hierarchy'.token = v
    <3>1. v # w
      BY <1>1, <2>4 DEF Pending
    <3>2. Pending(v)
      BY <1>1, <1>2, <2>4, <3>1 DEF Pending
    <3> QED BY <1>2, <1>6, <3>2 DEF OrderInv
  <2> QED BY <2>1, <2>3, <2>4 DEF OrderInv
<1>9. DeleteInv'
  <2>1. known.erased <= known'.erased
    BY <1>2, Numbers
  <2>2. Current(hierarchy, Deleter) => hierarchy'.token = Deleter /\ hierarchy'.live
    BY <1>2 DEF Current
  <2> QED BY <1>2, <1>3, <1>4, <1>6, <2>1, <2>2, DeleteKeeps
<1> QED BY <1>2, <1>3, <1>5, <1>8, <1>9, RestKeeps DEF ViewInv

\* Reconciling the tail catches up with every commit, and settles all the rest
\* when the hierarchy claim is free.
LEMMA ReconcileView ==
    ASSUME StoreInv, TailInv, Reconcile
    PROVE  /\ CatchUp /\ Settles(wal') /\ flushed' = flushed
           /\ \A s \in Seqs : wal'[s].status = "Prepared" => wal[s].status = "Prepared"
           /\ ~hierarchy.live => \A s \in Seqs : wal'[s].status # "Prepared"
           /\ \A s \in Commits : s <= meta'.latest
<1>1. wal \in [Seqs -> WalType] /\ Commits \subseteq Seqs
  BY Numbers DEF StoreInv, TypeInv, StoreTypes
<1>2. ASSUME NEW s \in Seqs
      PROVE  \/ wal'[s].status = wal[s].status
             \/ wal[s].status = "Prepared" /\ wal'[s].status = "Aborted"
  <2>1. SettledTo(wal[s], wal'[s]) /\ wal[s] \in WalType
    BY <1>1, ReconcileIs
  <2> QED BY <2>1 DEF SettledTo, WalType
<1>3. Settles(wal') /\ \A s \in Seqs : wal'[s].status = "Prepared" => wal[s].status = "Prepared"
  BY <1>2 DEF Settles
<1>4. ASSUME ~hierarchy.live, NEW s \in Seqs PROVE wal'[s].status # "Prepared"
  <2>1. wal[s].status = "Prepared" => wal'[s].status = "Aborted"
    BY <1>4, ReconcileIs DEF Current
  <2> QED BY <1>2, <2>1
<1>5. CatchUp /\ \A s \in Commits : s <= meta'.latest
  <2>1. CASE /\ meta' = meta
             /\ \A s \in Seqs : wal[s].status = "Committed" => s <= meta.latest
    BY <1>1, <2>1 DEF CatchUp, TailInv
  <2>2. CASE \E top \in Seqs : CatchesUp(top)
    <3>1. PICK top \in Seqs : CatchesUp(top)
      BY <2>2
    <3>2. /\ wal[top].status = "Committed" /\ top > meta.latest
          /\ \A s \in Seqs : wal[s].status = "Committed" => s <= top
          /\ meta'.latest = top /\ meta'.latestJs = wal[top].js
      BY <3>1 DEF CatchesUp
    <3>3. top \in Commits /\ wal[top].js \in DOMAIN stream
      BY <3>2 DEF StoreInv, OriginInv, WalOrigin, EntryOf
    <3>4. wal[top].js # 0
      BY <3>3, CommitFacts
    <3>5. CatchUp
      BY <3>2, <3>3, <3>4 DEF CatchUp
    <3>6. ASSUME NEW s \in Commits PROVE s <= meta'.latest
      <4>1. s \in Nat /\ s \in Seqs /\ top \in Nat /\ meta.latest \in Nat
        BY <3>3, Numbers
      <4>2. s <= meta.latest \/ wal[s].status = "Committed"
        BY DEF TailInv
      <4> QED BY <3>2, <4>1, <4>2
    <3> QED BY <3>5, <3>6
  <2> QED BY <2>1, <2>2, ReconcileIs
<1>6. flushed' = flushed
  BY ReconcileIs
<1> QED BY <1>3, <1>4, <1>5, <1>6

\* A writer takes the claim when it is free, and settles what was under way.
LEMMA WriterClaimView ==
    ASSUME StoreInv, StoreInv', ViewInv, NEW w \in Writers, WriterClaims(w)
    PROVE  ViewInv'
<1>1. <<"Idle", "Overlaid">> \in Hops /\ Goto(w, "Idle", "Overlaid")
  BY DEF Hops, WriterClaims
<1>2. /\ Reconcile /\ ~hierarchy.live /\ hierarchy' = [token |-> w, live |-> TRUE]
      /\ stream' = stream /\ committed' = committed /\ known' = known
      /\ UNCHANGED OthersThanWriters
  BY DEF WriterClaims, Acquired
<1>3. /\ flushing' = flushing /\ inner' = inner /\ flusher' = flusher /\ deleter' = deleter
      /\ reader' = reader /\ acked' = acked
  BY <1>2 DEF OthersThanWriters
<1>4. OrderInv /\ TailInv /\ DeleteInv
  BY DEF ViewInv
<1>5. /\ CatchUp /\ Settles(wal') /\ flushed' = flushed
      /\ \A s \in Seqs : wal'[s].status # "Prepared"
  BY <1>2, <1>4, ReconcileView
<1>6. Extends
  BY <1>2, Standing
<1>7. /\ writer'[w].pc = "Overlaid" /\ \A v \in Writers : writer'[v].seq = writer[v].seq
      /\ \A v \in Writers : v # w => writer'[v] = writer[v]
  BY <1>1, HopIs DEF Moved
<1>8. ASSUME NEW v \in Writers PROVE ~Pending(v)'
  <2>1. SUFFICES ASSUME writer'[v].pc \in {"Published", "Prepared"}
                 PROVE  writer'[v].seq \in Seqs
    BY <1>5 DEF Pending
  <2>2. writer'[v] = writer[v]
    BY <1>7, <2>1
  <2>3. writer[v].seq # 0
    BY <2>1, <2>2 DEF StoreInv, CountInv, MayBeUnnumbered
  <2> QED BY <2>2, <2>3, Bounds DEF StoreInv
<1>9. hierarchy'.token = w /\ w # Deleter
  BY <1>2, BufferedAssumption
<1>10. OrderInv'
  <2>1. ASSUME NEW v \in Writers
        PROVE  ~(hierarchy'.token = v /\ writer'[v].pc \in Writing)
    BY <1>7, <1>9 DEF Writing
  <2>2. meta'.latest \in {meta.latest} \cup Commits
    BY <1>5 DEF CatchUp
  <2> QED BY <1>2, <1>4, <1>5, <1>8, <2>1, <2>2, OrderKeeps
<1>11. DeleteInv'
  <2>1. ~Current(hierarchy, Deleter)
    BY <1>2 DEF Current
  <2>2. known.erased <= known'.erased
    BY <1>2, Numbers
  <2>3. \/ meta'.latest = meta.latest /\ meta'.latestJs = meta.latestJs
        \/ meta'.latest > meta.latest /\ meta'.latest \in Commits
    BY <1>5 DEF CatchUp
  <2> QED BY <1>2, <1>3, <1>4, <1>5, <1>9, <2>1, <2>2, <2>3, DeleteKeeps
<1> QED BY <1>2, <1>3, <1>5, <1>6, <1>10, <1>11, RestKeeps DEF ViewInv

\* A commit comes above all that is committed, shown or flushed.
LEMMA CommitIsNew ==
    ASSUME StoreInv, OrderInv, NEW w \in Writers, Commitment(w)
    PROVE  LET s == writer[w].seq
           IN  /\ s \in Seqs /\ hierarchy.token = w
               /\ writer'[w].pc \in {"Committed", "ReleaseUnsure"} /\ writer'[w].seq = s
               /\ \A v \in Writers : v # w => writer'[v] = writer[v]
               /\ committed' = Append(committed, s) /\ Commits' = Commits \cup {s}
               /\ wal[s].status = "Prepared" /\ wal'[s].status = "Committed"
               /\ \A t \in Seqs : t # s => wal'[t] = wal[t]
               /\ \A t \in Commits : t < s
               /\ meta.latest < s /\ flushed < s
<1> DEFINE s == writer[w].seq
<1>a. PICK to \in {"Committed", "ReleaseUnsure"} : CommitTo(w, to)
  BY CommitmentIs
<1>1. writer[w].pc = "Published" /\ Moved(w, to)
  BY <1>a, GotoIs DEF CommitTo, WriterStage, StoreInv
<1>2. writer'[w].pc = to /\ writer'[w].seq = s
      /\ \A v \in Writers : v # w => writer'[v] = writer[v]
  BY <1>1 DEF Moved
<1>3. s \in Seqs
  BY <1>1, Bounds DEF StoreInv, CountInv, MayBeUnnumbered
<1>4. committed' = Append(committed, s) /\ Commits' = Commits \cup {s}
  BY <1>a, <1>3, CommitIs DEF CommitTo, StoreInv, TypeInv, StoreTypes
<1>5. wal'[s].status = "Committed" /\ \A t \in Seqs : t # s => wal'[t] = wal[t]
  <2>1. wal \in [Seqs -> WalType]
    BY DEF StoreInv, TypeInv, StoreTypes
  <2>2. wal' = [wal EXCEPT ![s].status = "Committed", ![s].js = writer[w].js]
    BY <1>a DEF CommitTo
  <2> DEFINE o == wal[s]
             p == [o EXCEPT !.status = "Committed", !.js = writer[w].js]
  <2>3. o \in WalType
    BY <2>1, <1>3
  <2>4. wal' = [wal EXCEPT ![s] = p]
    BY <2>1, <2>2
  <2> HIDE DEF o
  <2>5. p.status = "Committed"
    BY <2>3 DEF WalType
  <2> HIDE DEF p, s
  <2> QED BY <2>1, <2>4, <2>5, <1>3
<1>6. wal[s].status = "Prepared"
  BY <1>a DEF CommitTo
<1>7. Pending(w)
  BY <1>1, <1>6 DEF Pending
<1>8. hierarchy.token = w
  BY <1>7 DEF OrderInv
<1>9. (\A t \in Commits : t < s) /\ meta.latest < s /\ flushed < s
  BY <1>1, <1>8 DEF OrderInv, Writing
<1> QED BY <1>2, <1>3, <1>4, <1>5, <1>6, <1>8, <1>9

\* A commit is new to everyone.
LEMMA WriterCommitView ==
    ASSUME StoreInv, StoreInv', ViewInv, NEW w \in Writers, Commitment(w)
    PROVE  ViewInv'
<1> DEFINE s == writer[w].seq
<1>0. /\ OrderInv /\ TailInv /\ DeleteInv /\ FlushInv /\ AckInv /\ ReadInv
      /\ InnerNotBehindWatermark
  BY DEF ViewInv
<1>1. /\ stream' = stream /\ flushing' = flushing /\ inner' = inner
      /\ flusher' = flusher /\ deleter' = deleter /\ reader' = reader /\ acked' = acked
      /\ flushed' = flushed /\ meta' = meta /\ cache' = cache /\ hierarchy' = hierarchy
      /\ known' = known
  BY CommitmentIs DEF CommitTo, OthersThanWriters
<1>2. /\ s \in Seqs /\ hierarchy.token = w
      /\ writer'[w].pc \in {"Committed", "ReleaseUnsure"} /\ writer'[w].seq = s
      /\ \A v \in Writers : v # w => writer'[v] = writer[v]
      /\ committed' = Append(committed, s) /\ Commits' = Commits \cup {s}
      /\ wal[s].status = "Prepared" /\ wal'[s].status = "Committed"
      /\ \A t \in Seqs : t # s => wal'[t] = wal[t]
      /\ \A t \in Commits : t < s
      /\ meta.latest < s /\ flushed < s
  BY <1>0, CommitIsNew
<1> HIDE DEF s
<1>3. /\ Commits \subseteq Seqs /\ Seqs \subseteq Nat /\ meta.latest \in Nat /\ flushed \in Nat
      /\ committed \in Seq(Seqs) /\ acked \subseteq DOMAIN stream
      /\ \A n \in DOMAIN stream : stream[n].seq \in Seqs
  BY Numbers, CommitFacts DEF StoreInv, TypeInv, StoreTypes, EntryType
<1>4. Forward
  <2>1. Extends
    BY <1>1, Standing
  <2> QED BY <1>1, <2>1, Numbers DEF Forward
<1>5. OrderInv'
  <2>1. ASSUME NEW i \in DOMAIN committed', NEW j \in DOMAIN committed', i < j
        PROVE  committed'[i] < committed'[j]
    <3>1. /\ DOMAIN committed' = 1 .. Len(committed) + 1 /\ DOMAIN committed = 1 .. Len(committed)
          /\ committed'[Len(committed) + 1] = s /\ Len(committed) \in Nat
          /\ \A n \in DOMAIN committed : committed'[n] = committed[n]
      BY <1>2, <1>3
    <3>2. i \in DOMAIN committed
      BY <2>1, <3>1
    <3>3. committed[i] \in Commits
      BY <3>2 DEF Commits, Range
    <3>4. CASE j \in DOMAIN committed
      BY <1>0, <2>1, <3>1, <3>2, <3>4 DEF OrderInv
    <3>5. CASE j = Len(committed) + 1
      BY <1>2, <3>1, <3>2, <3>3, <3>5
    <3> QED BY <3>1, <3>4, <3>5
  <2>2. ASSUME NEW v \in Writers
        PROVE  /\ ~(hierarchy'.token = v /\ writer'[v].pc \in Writing)
               /\ Pending(v)' => hierarchy'.token = v
    <3>1. CASE v = w
      BY <1>2, <3>1 DEF Writing, Pending
    <3>2. CASE v # w
      <4>1. writer'[v] = writer[v]
        BY <1>2, <3>2
      <4>2. ASSUME Pending(v)' PROVE FALSE
        <5>1. /\ writer[v].pc \in {"Published", "Prepared"} /\ wal'[writer[v].seq].status = "Prepared"
              /\ \/ writer[v].pc = "Published"
                 \/ writer[v].pc = "Prepared" /\ writer[v].late
          BY <4>1, <4>2 DEF Pending
        <5>2. writer[v].seq # 0
          BY <5>1 DEF StoreInv, CountInv, MayBeUnnumbered
        <5>3. writer[v].seq \in Seqs
          BY <5>2, Bounds DEF StoreInv
        <5>4. wal[writer[v].seq].status = "Prepared"
          BY <1>2, <5>1, <5>3
        <5>5. Pending(v)
          BY <5>1, <5>4 DEF Pending
        <5> QED BY <1>0, <1>2, <3>2, <5>5 DEF OrderInv
      <4> QED BY <1>1, <1>2, <3>2, <4>2
    <3> QED BY <3>1, <3>2
  <2> QED BY <2>1, <2>2 DEF OrderInv
<1>6. TailInv'
  <2>1. \A t \in Commits' : t <= meta'.latest \/ wal'[t].status = "Committed"
    <3>1. ASSUME NEW t \in Commits', t # s PROVE t <= meta.latest \/ wal'[t].status = "Committed"
      <4>1. t \in Commits /\ t \in Seqs /\ wal'[t] = wal[t]
        BY <1>2, <1>3, <3>1
      <4> QED BY <1>0, <4>1 DEF TailInv
    <3> QED BY <1>1, <1>2, <3>1
  <2>2. ASSUME meta'.latestJs = 0, NEW t \in Commits', t <= meta'.latest PROVE t <= flushed'
    <3>1. t # s
      BY <1>1, <1>2, <1>3, <2>2
    <3> QED BY <1>0, <1>1, <1>2, <2>2, <3>1 DEF TailInv
  <2> QED BY <2>1, <2>2 DEF TailInv
<1>7. DeleteInv'
  <2>1. hierarchy'.token = w /\ w # Deleter /\ ~Current(hierarchy, Deleter)
    BY <1>1, <1>2, BufferedAssumption DEF Current
  <2>2. deleter.pc \notin {"MarkFlushed", "Clear"}
    BY <1>0, <2>1 DEF DeleteInv
  <2> QED BY <1>1, <2>1, <2>2 DEF DeleteInv
<1>8. \A t \in Commits' : t \in Commits \/ (t > flushed /\ t > meta.latest)
  BY <1>2, <1>3
<1>9. FlushInv'
  <2>1. ASSUME NEW f \in Flushers PROVE FlushOk(f)' /\ RunsOk(f)'
    <3>1. FlushOk(f) /\ RunsOk(f)
      BY <1>0 DEF FlushInv
    <3>2. FlushOk(f)'
      BY <1>1, <1>4, <1>8, <3>1, FlushKeeps
    <3>3. flusher[f].drop \subseteq DOMAIN stream
      BY DEF StoreInv, TypeInv, FlusherTypes
    <3>4. ASSUME NEW m \in flusher[f].drop, Settled(m)
          PROVE  wal'[stream[m].seq].status \in {"Aborted", "None"}
      BY <1>2, <1>3, <3>3, <3>4 DEF Settled
    <3> QED BY <1>1, <1>4, <3>1, <3>2, <3>4, RunsKeep
  <2> QED BY <2>1 DEF FlushInv
<1>10. AckInv'
  <2>1. ASSUME NEW m \in acked PROVE stream[m].seq # s /\ wal'[stream[m].seq] = wal[stream[m].seq]
    BY <1>0, <1>2, <1>3 DEF AckInv
  <2>2. \A m \in acked' : wal'[stream'[m].seq].status # "Prepared"
    BY <1>0, <1>1, <2>1 DEF AckInv
  <2>3. \A t \in Commits' : wal'[t].status # "Prepared"
    BY <1>0, <1>2, <1>3 DEF AckInv
  <2>4. ASSUME NEW t \in Commits',
               wal'[t].status # "Committed" \/ (\E m \in acked' : stream'[m].seq = t)
        PROVE  Safe(t)'
    <3>1. t # s
      BY <1>1, <1>2, <2>1, <2>4
    <3>2. t \in Commits /\ t \in Seqs /\ wal'[t] = wal[t]
      BY <1>2, <1>3, <3>1
    <3>3. Safe(t)
      BY <1>0, <1>1, <2>4, <3>2 DEF AckInv
    <3> QED BY <1>4, <3>2, <3>3, SafeKeeps
  <2> QED BY <2>2, <2>3, <2>4 DEF AckInv
<1>11. ReadInv'
  BY <1>0, <1>1, <1>2, <1>4, <1>8, ReadKeeps
<1>12. InnerNotBehindWatermark'
  BY <1>0, <1>1, <1>4, <1>8, InnerKeeps
<1> QED BY <1>5, <1>6, <1>7, <1>9, <1>10, <1>11, <1>12 DEF ViewInv

\* What a writer does keeps the view.
LEMMA WriterViewStep ==
    ASSUME StoreInv, StoreInv', ViewInv, NEW w \in Writers, WriterStep(w) \/ WriterTrouble(w)
    PROVE  ViewInv'
BY WriterHopsView, WriterCacheView, WriterPromoteView, WriterAbortView, WriterReturnView,
   WriterCrashView, WriterPublishView, WriterPrepareView, WriterReserveView, WriterClaimView,
   WriterCommitView, WriterReleaseFailView DEF WriterStep, WriterTrouble, Commitment

-----------------------------------------------------------------------------
(* Steps of the flushers.                                                  *)

\* A commit state goes only when it is of no use, or the metadata has its number.
Fades(states) == \A s \in Seqs :
    \/ states[s].status = wal[s].status
    \/ wal[s].status = "Prepared" /\ states[s].status = "Aborted"
    \/ states[s].status = "None" /\ (wal[s].status # "Committed" \/ s <= meta.latest)

\* A step of a flusher concerns the others only so far: what it writes of the
\* watermark and the content it writes with the claim.
LEMMA DrainView ==
    ASSUME StoreInv, StoreInv', ViewInv, NEW f \in Flushers, NEW x, Turned(f, x),
           UNCHANGED OthersThanFlushers, CatchUp, Fades(wal'),
           \A r \in Runs : inner.runs[r] # 0 => inner'.runs[r] # 0,
           \/ flushed' = flushed
           \/ flushed' > flushed /\ flushed' \in Commits /\ flushing.token = f,
           \/ inner'.thread = inner.thread /\ inner'.messages = inner.messages
           \/ flushing.token = f,
           flushing'.token \in {flushing.token, f}
    PROVE  /\ Forward /\ OrderInv' /\ TailInv' /\ DeleteInv' /\ ReadInv'
           /\ \A g \in Flushers : g # f => FlushOk(g)' /\ RunsOk(g)'
           /\ acked' = acked /\ Settles(wal') => AckInv'
           /\ flushed' = flushed /\ inner'.thread = inner.thread
                /\ inner'.messages = inner.messages => InnerNotBehindWatermark'
<1>0. /\ OrderInv /\ TailInv /\ DeleteInv /\ FlushInv /\ AckInv /\ ReadInv
      /\ InnerNotBehindWatermark
  BY DEF ViewInv
<1>1. /\ hierarchy' = hierarchy /\ writer' = writer /\ deleter' = deleter /\ reader' = reader
      /\ stream' = stream /\ committed' = committed /\ known' = known
  BY DEF OthersThanFlushers
<1>2. Commits' = Commits /\ Commits \subseteq Seqs
  BY <1>1, Numbers DEF Commits
<1>3. \A n \in DOMAIN stream : stream[n].seq \in Seqs
  BY CommitFacts DEF EntryType
<1>4. Extends /\ known.erased <= known'.erased /\ flushed <= flushed' /\ meta.latest <= meta'.latest
  BY <1>1, Standing, Numbers, NumbersNext DEF CatchUp
<1>5. Forward
  BY <1>4 DEF Forward
<1>6. \A s \in Seqs : wal'[s].status = "Prepared" => wal[s].status = "Prepared"
  BY DEF Fades
<1>7. OrderInv'
  <2>1. ASSUME NEW v \in Writers, Pending(v)' PROVE hierarchy'.token = v
    <3>1. /\ writer[v].pc \in {"Published", "Prepared"} /\ wal'[writer[v].seq].status = "Prepared"
          /\ \/ writer[v].pc = "Published"
             \/ writer[v].pc = "Prepared" /\ writer[v].late
      BY <1>1, <2>1 DEF Pending
    <3>2. writer[v].seq # 0
      BY <3>1 DEF StoreInv, CountInv, MayBeUnnumbered
    <3>3. writer[v].seq \in Seqs
      BY <3>2, Bounds DEF StoreInv
    <3>4. Pending(v)
      BY <1>6, <3>1, <3>3 DEF Pending
    <3> QED BY <1>0, <1>1, <3>4 DEF OrderInv
  <2>2. meta'.latest \in {meta.latest} \cup Commits /\ flushed' \in {flushed} \cup Commits
    BY DEF CatchUp
  <2> QED BY <1>0, <1>1, <2>1, <2>2, OrderKeeps
<1>8. TailInv'
  <2>1. ASSUME NEW s \in Commits, wal[s].status = "Committed"
        PROVE  wal'[s].status = "Committed" \/ s <= meta'.latest
    <3>1. wal'[s].status = "Committed" \/ s <= meta.latest
      BY <1>2, <2>1 DEF Fades
    <3> QED BY <1>4, <3>1, Numbers, NumbersNext
  <2>2. \/ meta'.latest = meta.latest /\ meta'.latestJs = meta.latestJs
        \/ meta'.latestJs # 0
    BY DEF CatchUp
  <2> QED BY <1>0, <1>1, <1>4, <2>1, <2>2, TailKeeps
<1>9. DeleteInv'
  <2>1. \/ meta'.latest = meta.latest /\ meta'.latestJs = meta.latestJs
        \/ meta'.latest > meta.latest /\ meta'.latest \in Commits
    BY DEF CatchUp
  <2> QED BY <1>0, <1>1, <1>4, <2>1, DeleteKeeps DEF Current
<1>10. ReadInv'
  BY <1>0, <1>1, <1>2, <1>5, ReadKeeps
<1>11. ASSUME NEW g \in Flushers, g # f PROVE FlushOk(g)' /\ RunsOk(g)'
  <2>1. FlushOk(g) /\ RunsOk(g) /\ flusher'[g] = flusher[g]
    BY <1>0, <1>11 DEF FlushInv, Turned
  <2>2. flushing'.token = g => flushing.token = g
    BY <1>11
  <2>3. flushed' = flushed \/ flushing.token # g
    BY <1>11
  <2>4. \/ inner'.thread = inner.thread /\ inner'.messages = inner.messages
        \/ flushing.token # g
    BY <1>11
  <2>5. FlushOk(g)'
    BY <1>2, <1>5, <2>1, <2>2, <2>3, <2>4, FlushKeeps
  <2>6. flusher[g].drop \subseteq DOMAIN stream
    BY DEF StoreInv, TypeInv, FlusherTypes
  <2>7. ASSUME NEW m \in flusher[g].drop, Settled(m)
        PROVE  wal'[stream[m].seq].status \in {"Aborted", "None"}
    BY <1>3, <2>6, <2>7 DEF Settled, Fades
  <2> QED BY <1>5, <2>1, <2>5, <2>7, RunsKeep
<1>12. ASSUME acked' = acked, Settles(wal') PROVE AckInv'
  <2>1. acked \subseteq DOMAIN stream
    BY DEF StoreInv, TypeInv, StoreTypes
  <2>2. \A s \in Commits : wal'[s].status = "Prepared" => wal[s].status = "Prepared"
    BY <1>2, <1>6
  <2>3. ASSUME NEW m \in acked', wal'[stream'[m].seq].status = "Prepared"
        PROVE  m \in acked /\ wal[stream[m].seq].status = "Prepared"
    BY <1>1, <1>3, <1>6, <1>12, <2>1, <2>3
  <2>4. ASSUME NEW s \in Commits,
               wal'[s].status # "Committed" \/ (\E m \in acked' : stream'[m].seq = s)
        PROVE  wal[s].status # "Committed" \/ (\E m \in acked : stream[m].seq = s)
    BY <1>1, <1>2, <1>12, <2>4 DEF Settles
  <2> QED BY <1>0, <1>1, <1>5, <2>2, <2>3, <2>4, AcksKeep
<1>13. ASSUME flushed' = flushed, inner'.thread = inner.thread, inner'.messages = inner.messages
       PROVE  InnerNotBehindWatermark'
  BY <1>0, <1>2, <1>5, <1>13, InnerKeeps
<1> QED BY <1>5, <1>7, <1>8, <1>9, <1>10, <1>11, <1>12, <1>13

\* A flusher that leaves what it holds, or begins anew, knows nothing to be broken.
LEMMA RestsWell ==
    ASSUME StoreInv, NEW f \in Flushers, FlushOk(f), RunsOk(f),
           UNCHANGED <<stream, wal, flushed, meta>>,
           LET n == flusher'[f] IN
              /\ n.pc \in {"Idle", "Acquire", "Classify"} \/ (n.pc = "Finish" /\ n.good = {})
              /\ n.drop \subseteq flusher[f].drop
              /\ n.late => flusher[f].late
              /\ n.at \in {flusher[f].at, flushed, 0} /\ n.latest \in {flusher[f].latest, meta.latest, 0}
              /\ n.pc = "Classify" => n.at = flushed
    PROVE  FlushOk(f)' /\ RunsOk(f)'
<1>1. /\ meta.latest \in Nat /\ flushed \in Nat
      /\ flusher[f].at \in Nat /\ flusher[f].latest \in Nat
  BY Numbers
<1>2. ~flusher'[f].late /\ flusher'[f].at <= flushed' /\ flusher'[f].latest <= meta'.latest
  <2>1. ~flusher[f].late /\ flusher[f].at <= flushed /\ flusher[f].latest <= meta.latest
    BY DEF FlushOk
  <2>2. ~flusher'[f].late
    BY <2>1
  <2>3. flusher'[f].at <= flushed'
    BY <1>1, <2>1
  <2>4. flusher'[f].latest <= meta'.latest
    BY <1>1, <2>1
  <2> QED BY <2>2, <2>3, <2>4
<1>3. flusher'[f].pc = "Finish" => flusher'[f].good = {}
  OBVIOUS
<1>4. flusher'[f].pc = "Finish" => Batch(f)' = {}
  BY <1>3 DEF Batch
<1>5. flusher'[f].pc \in Working => \A s \in Commits' : s > flusher'[f].at => s > flushed'
  BY DEF Working
<1>6. FlushOk(f)'
  BY <1>2, <1>4, <1>5 DEF FlushOk
<1>7. \A m \in flusher'[f].drop : Settled(m)'
  BY DEF RunsOk, Settled
<1>8. RunsOk(f)'
  BY <1>3, <1>7 DEF RunsOk
<1> QED BY <1>6, <1>8

\* What is left alone does not fade.
LEMMA StandsUp ==
    ASSUME wal' = wal
    PROVE  Fades(wal') /\ Settles(wal')
BY DEF Fades, Settles

\* A flusher that takes up, gives up or puts down a batch.
Restful(f, n) ==
    /\ n.pc \in {"Idle", "Acquire", "Classify"} \/ (n.pc = "Finish" /\ n.good = {})
    /\ n.drop \subseteq flusher[f].drop
    /\ n.late => flusher[f].late
    /\ n.at \in {flusher[f].at, flushed, 0} /\ n.latest \in {flusher[f].latest, meta.latest, 0}
    /\ n.pc = "Classify" => n.at = flushed

\* It keeps the view.
LEMMA RestView ==
    ASSUME StoreInv, StoreInv', ViewInv, NEW f \in Flushers, NEW x, Turned(f, x), Restful(f, x),
           UNCHANGED <<kv, acked, inner, OthersThanFlushers>>,
           flushing' = flushing \/ Acquired(flushing, f) \/ Released(flushing, f)
    PROVE  ViewInv'
<1>1. /\ meta' = meta /\ wal' = wal /\ flushed' = flushed /\ stream' = stream
      /\ acked' = acked /\ inner' = inner /\ UNCHANGED OthersThanFlushers
  BY DEF kv, OthersThanFlushers
<1>2. flushing'.token \in {flushing.token, f}
  <2>1. flushing \in FlushingType
    BY FlusherStill
  <2> QED BY <2>1 DEF Acquired, Released, FlushingType
<1>3. CatchUp /\ Fades(wal') /\ Settles(wal')
  BY <1>1, Standing, StandsUp
<1>4. flusher'[f] = x /\ FlushOk(f) /\ RunsOk(f)
  BY DEF Turned, ViewInv, FlushInv
<1>5. FlushOk(f)' /\ RunsOk(f)'
  BY <1>1, <1>4, RestsWell DEF Restful
<1>6. /\ OrderInv' /\ TailInv' /\ DeleteInv' /\ ReadInv' /\ AckInv' /\ InnerNotBehindWatermark'
      /\ \A g \in Flushers : g # f => FlushOk(g)' /\ RunsOk(g)'
  BY <1>1, <1>2, <1>3, DrainView
<1> QED BY <1>5, <1>6 DEF ViewInv, FlushInv

\* So do all of these.
LEMMA FlusherRestView ==
    ASSUME StoreInv, StoreInv', ViewInv, NEW f \in Flushers,
           \/ FlusherFetches(f) \/ FlusherClaims(f) \/ FlusherTimesOut(f) \/ FlusherLosesClaim(f)
           \/ FlusherFails(f) \/ FlusherCrashes(f) \/ FlusherReleases(f)
    PROVE  ViewInv'
<1>0. TypeInv
  BY DEF StoreInv
<1>1. CASE FlusherFetches(f)
  <2>1. PICK batch \in SUBSET DOMAIN stream :
           Turned(f, Turn(flusher[f], "Acquire", batch, {}, {}, flusher[f].runs))
    BY <1>0, <1>1, FetchTurns
  <2> DEFINE x == Turn(flusher[f], "Acquire", batch, {}, {}, flusher[f].runs)
  <2>2. Restful(f, x)
    BY DEF Restful, Turn
  <2>3. UNCHANGED <<kv, acked, flushing, inner, troubles, OthersThanFlushers>>
    BY <1>1, Zenon DEF FlusherFetches
  <2>4. UNCHANGED <<kv, acked, inner, OthersThanFlushers>> /\ flushing' = flushing
    BY <2>3
  <2>5. Turned(f, x)
    BY <2>1
  <2> HIDE DEF x
  <2> QED BY <2>2, <2>4, <2>5, RestView
<1>2. CASE FlusherClaims(f)
  <2> DEFINE x == [pc |-> "Classify", todo |-> flusher[f].todo, good |-> flusher[f].good,
                   drop |-> flusher[f].drop, runs |-> flusher[f].runs, at |-> flushed,
                   latest |-> meta.latest, late |-> flusher[f].late]
  <2>1. Turned(f, x)
    BY <1>0, <1>2, ClaimTurns
  <2>2. Restful(f, x)
    BY DEF Restful
  <2>3. UNCHANGED <<kv, acked, inner, OthersThanFlushers>> /\ Acquired(flushing, f)
    BY <1>2, Zenon DEF FlusherClaims
  <2> HIDE DEF x
  <2> QED BY <2>1, <2>2, <2>3, RestView
<1>3. CASE FlusherTimesOut(f)
  <2> DEFINE x == Turn(flusher[f], "Idle", {}, flusher[f].good, flusher[f].drop, flusher[f].runs)
  <2>1. Turned(f, x)
    BY <1>0, <1>3, TimeoutTurns
  <2>2. Restful(f, x)
    BY DEF Restful, Turn
  <2>3. UNCHANGED <<kv, acked, inner, OthersThanFlushers>> /\ flushing' = flushing
    BY <1>3 DEF FlusherTimesOut
  <2> HIDE DEF x
  <2> QED BY <2>1, <2>2, <2>3, RestView
<1>4. CASE FlusherLosesClaim(f)
  <2> DEFINE x == Turn(flusher[f], "Finish", flusher[f].todo, {}, flusher[f].drop, flusher[f].runs)
  <2>1. Turned(f, x)
    BY <1>0, <1>4, LossTurns
  <2>2. Restful(f, x)
    BY DEF Restful, Turn
  <2>3. UNCHANGED <<kv, acked, inner, OthersThanFlushers>> /\ flushing' = flushing
    BY <1>4 DEF FlusherLosesClaim
  <2> HIDE DEF x
  <2> QED BY <2>1, <2>2, <2>3, RestView
<1>5. CASE FlusherFails(f)
  <2> DEFINE x == Calm(Turn(flusher[f], "Finish", flusher[f].todo, {}, flusher[f].drop,
                            flusher[f].runs))
  <2>1. Turned(f, x)
    BY <1>0, <1>5, FailTurns
  <2>2. Restful(f, x)
    BY DEF Restful, Turn, Calm
  <2>3. UNCHANGED <<kv, acked, inner, OthersThanFlushers>> /\ flushing' = flushing
    BY <1>5 DEF FlusherFails
  <2> HIDE DEF x
  <2> QED BY <2>1, <2>2, <2>3, RestView
<1>6. CASE FlusherCrashes(f)
  <2> DEFINE x == [pc |-> "Idle", todo |-> {}, good |-> {}, drop |-> {}, runs |-> {},
                   at |-> 0, latest |-> 0, late |-> FALSE]
  <2>1. Turned(f, x)
    BY <1>0, <1>6, CrashTurns
  <2>2. Restful(f, x)
    BY DEF Restful
  <2>3. UNCHANGED <<kv, acked, inner, OthersThanFlushers>> /\ flushing' = flushing
    BY <1>6 DEF FlusherCrashes
  <2> HIDE DEF x
  <2> QED BY <2>1, <2>2, <2>3, RestView
<1>7. CASE FlusherReleases(f)
  <2> DEFINE x == [pc |-> "Idle", todo |-> flusher[f].todo, good |-> {}, drop |-> {},
                   runs |-> {}, at |-> 0, latest |-> 0, late |-> flusher[f].late]
  <2>1. Turned(f, x)
    BY <1>0, <1>7, ReleaseTurns
  <2>2. Restful(f, x)
    BY DEF Restful
  <2>3. UNCHANGED <<kv, acked, inner, OthersThanFlushers>> /\ Released(flushing, f)
    BY <1>7, Zenon DEF FlusherReleases
  <2> HIDE DEF x
  <2> QED BY <2>1, <2>2, <2>3, RestView
<1> QED BY <1>1, <1>2, <1>3, <1>4, <1>5, <1>6, <1>7

\* An entry is classified by its settled commit state: none is dropped that
\* is committed.
LEMMA FlusherClassifyView ==
    ASSUME StoreInv, StoreInv', ViewInv, NEW f \in Flushers, FlusherClassifies(f)
    PROVE  ViewInv'
<1>0. TypeInv /\ FlushOk(f) /\ RunsOk(f)
  BY DEF StoreInv, ViewInv, FlushInv
<1>1. /\ meta' = meta /\ flushed' = flushed /\ stream' = stream /\ committed' = committed
      /\ acked' = acked /\ inner' = inner /\ flushing' = flushing /\ UNCHANGED OthersThanFlushers
  BY DEF FlusherClassifies, OthersThanFlushers
<1>2. flusher[f].pc = "Classify"
  BY <1>0, ClassifyTurns
<1>3. PICK m \in flusher[f].todo :
        LET s == stream[m].seq
            st == Settle(wal, s)[s]
        IN  /\ wal' = Settle(wal, s)
            /\ Turned(f, Turn(flusher[f], "Classify", flusher[f].todo \ {m},
                 IF st.status = "Committed" /\ st.js = m THEN flusher[f].good \cup {m}
                                                        ELSE flusher[f].good,
                 IF \/ st.status = "Committed" /\ st.js # m
                    \/ st.status = "Aborted"
                    \/ st.status = "None" /\ s <= flusher[f].at
                 THEN flusher[f].drop \cup {m} ELSE flusher[f].drop,
                 flusher[f].runs))
  BY <1>0, ClassifyTurns
<1> DEFINE s == stream[m].seq
           x == flusher'[f]
<1>4. /\ x.pc = "Classify" /\ x.at = flusher[f].at /\ x.latest = flusher[f].latest
      /\ x.late = flusher[f].late
      /\ x.drop = IF \/ wal'[s].status = "Committed" /\ wal'[s].js # m
                     \/ wal'[s].status = "Aborted"
                     \/ wal'[s].status = "None" /\ s <= flusher[f].at
                  THEN flusher[f].drop \cup {m} ELSE flusher[f].drop
  BY <1>3 DEF Turned, Turn
<1>5. \E y : Turned(f, y)
  BY <1>3
<1>6. m \in DOMAIN stream /\ s \in Seqs /\ wal \in [Seqs -> WalType]
      /\ \A n \in DOMAIN stream : stream[n].seq \in Seqs
  BY <1>0, CommitFacts DEF TypeInv, FlusherTypes, StoreTypes, EntryType
<1>7. \A t \in Seqs : \/ wal'[t].status = wal[t].status
                      \/ wal[t].status = "Prepared" /\ wal'[t].status = "Aborted"
  <2>1. ASSUME NEW t \in Seqs PROVE SettledTo(wal[t], wal'[t]) /\ wal[t] \in WalType
    BY <1>3, <1>6, SettleIs
  <2> QED BY <2>1 DEF SettledTo, WalType
<1>8. CatchUp /\ Fades(wal') /\ Settles(wal')
  BY <1>1, <1>7, Standing DEF Fades, Settles
<1>9. wal'[s].status = "Committed" => wal'[s].js = m
  <2>1. wal'[s].status = "Committed" => wal'[s] = wal[s]
    BY <1>3, <1>6, SettleWeakens
  <2>2. wal[s].status = "Committed" => EntryOf(wal[s].js, s)
    BY <1>6 DEF StoreInv, OriginInv, WalOrigin
  <2>3. \A n \in DOMAIN stream : stream[n].seq = s => n = m
    BY <1>6 DEF StoreInv, StreamInv, SequenceNeverReused
  <2> QED BY <2>1, <2>2, <2>3 DEF EntryOf
<1>10. FlushOk(f)'
  BY <1>0, <1>1, <1>2, <1>4 DEF FlushOk, Working, Commits
<1>11. RunsOk(f)'
  <2>1. ASSUME NEW n \in x.drop PROVE wal'[stream[n].seq].status \in {"Aborted", "None"}
    <3>1. CASE n \in flusher[f].drop
      <4>1. Settled(n) /\ n \in DOMAIN stream
        BY <1>0, <3>1 DEF RunsOk, TypeInv, FlusherTypes
      <4> QED BY <1>6, <1>7, <4>1 DEF Settled
    <3>2. CASE n \notin flusher[f].drop
      BY <1>4, <1>9, <2>1, <3>2
    <3> QED BY <3>1, <3>2
  <2> QED BY <1>1, <1>4, <2>1 DEF RunsOk, Settled
<1>12. /\ OrderInv' /\ TailInv' /\ DeleteInv' /\ ReadInv' /\ AckInv' /\ InnerNotBehindWatermark'
       /\ \A g \in Flushers : g # f => FlushOk(g)' /\ RunsOk(g)'
  BY <1>1, <1>5, <1>8, DrainView
<1> QED BY <1>10, <1>11, <1>12 DEF ViewInv, FlushInv

\* Stale run records are written where there are none; what is not above the
\* watermarks needs nothing more.
LEMMA FlusherStaleView ==
    ASSUME StoreInv, StoreInv', ViewInv, NEW f \in Flushers, FlusherPersistsStale(f)
    PROVE  ViewInv'
<1>0. TypeInv /\ FlushOk(f) /\ RunsOk(f)
  BY DEF StoreInv, ViewInv, FlushInv
<1>1. UNCHANGED <<kv, acked, flushing, troubles, OthersThanFlushers>>
  BY Zenon DEF FlusherPersistsStale
<1>2. /\ meta' = meta /\ wal' = wal /\ flushed' = flushed /\ stream' = stream
      /\ committed' = committed /\ known' = known
      /\ acked' = acked /\ flushing' = flushing /\ UNCHANGED OthersThanFlushers
  BY <1>1 DEF kv, OthersThanFlushers
<1>3. /\ inner'.thread = inner.thread /\ inner'.messages = inner.messages
      /\ \A r \in Runs :
            /\ inner.runs[r] # 0 => inner'.runs[r] = inner.runs[r]
            /\ \A s \in RunSeqs(flusher[f].good) :
                  s <= flusher[f].at /\ RunAt(s) = r => inner'.runs[r] # 0
  BY StaleIs
<1> DEFINE S == RunSeqs(flusher[f].good)
           fresh == {s \in S : ~(s <= flusher[f].at)}
           x == flusher'[f]
           at == flusher[f].at
<1>4. /\ flusher[f].pc = "Classify"
      /\ x.good = flusher[f].good /\ x.drop = flusher[f].drop /\ x.runs = fresh
      /\ x.at = at /\ x.latest = flusher[f].latest /\ x.late = flusher[f].late
      /\ x.pc = IF fresh # {} THEN "Run"
                ELSE IF flusher[f].good # {} /\ TopSeq(f) > flusher[f].latest
                THEN "Promote" ELSE "Finish"
      /\ \E y : Turned(f, y)
  <2> DEFINE to == IF fresh # {} THEN "Run"
                   ELSE IF flusher[f].good # {} /\ TopSeq(f) > flusher[f].latest
                   THEN "Promote" ELSE "Finish"
             y == Turn(flusher[f], to, {}, flusher[f].good, flusher[f].drop, fresh)
  <2>1. flusher[f].pc = "Classify" /\ Turned(f, y)
    BY StaleTurns
  <2>2. x = y
    BY <2>1 DEF Turned
  <2> HIDE DEF to, fresh
  <2>3. /\ y.pc = to /\ y.good = flusher[f].good /\ y.drop = flusher[f].drop /\ y.runs = fresh
        /\ y.at = at /\ y.latest = flusher[f].latest /\ y.late = flusher[f].late
    BY DEF Turn
  <2> HIDE DEF y
  <2> QED BY <2>1, <2>2, <2>3 DEF to
<1>5. /\ S \subseteq Batch(f)
      /\ \A m \in flusher[f].good : \E n \in flusher[f].good :
            /\ stream[n].seq \in S /\ stream[n].run = stream[m].run
            /\ stream[m].seq <= stream[n].seq
  BY RunSeqsIs
<1> HIDE DEF S
<1>6. /\ Batch(f) \subseteq Commits /\ Commits \subseteq Nat /\ at \in Nat
      /\ flusher[f].latest \in Nat /\ meta.latest \in Nat /\ flushed \in Nat
      /\ at <= flushed /\ flusher[f].latest <= meta.latest
      /\ Batch(f)' = Batch(f) /\ Commits' = Commits
      /\ flusher[f].good \subseteq DOMAIN stream
      /\ \A m \in flusher[f].good : stream[m].seq \in Batch(f)
  BY <1>0, <1>2, <1>4, Numbers, TopIs DEF FlushOk, Batch, Commits
<1>7. CatchUp /\ Fades(wal') /\ Settles(wal')
  BY <1>2, Standing, StandsUp
<1>8. ASSUME NEW n \in flusher[f].good, stream[n].seq \in S, stream[n].seq \notin fresh
      PROVE  inner'.runs[stream[n].run] # 0 /\ stream[n].seq <= at
  <2>1. stream[n].seq <= at
    BY <1>8
  <2>2. RunAt(stream[n].seq) = stream[n].run /\ stream[n].run \in Runs
    BY <1>6, RunAtIs
  <2> QED BY <1>3, <1>8, <2>1, <2>2 DEF S
<1>9. ASSUME fresh = {}, NEW m \in flusher[f].good
      PROVE  inner'.runs[stream[m].run] # 0 /\ stream[m].seq <= at
  <2>1. PICK n \in flusher[f].good :
            /\ stream[n].seq \in S /\ stream[n].run = stream[m].run
            /\ stream[m].seq <= stream[n].seq
    BY <1>5
  <2>2. inner'.runs[stream[n].run] # 0 /\ stream[n].seq <= at
    BY <1>8, <1>9, <2>1
  <2>3. stream[m].seq \in Nat /\ stream[n].seq \in Nat
    BY <1>6
  <2> QED BY <1>6, <2>1, <2>2, <2>3
<1>10. fresh = {} => \A s \in Batch(f) : s <= at
  BY <1>9 DEF Batch
<1>11. ASSUME x.pc = "Finish", NEW s \in Batch(f) PROVE s <= meta.latest
  <2>1. flusher[f].good # {}
    BY <1>11 DEF Batch
  <2>2. ~(TopSeq(f) > flusher[f].latest) /\ TopSeq(f) \in Nat /\ s <= TopSeq(f)
    BY <1>4, <1>11, <2>1, TopIs
  <2>3. s \in Nat
    BY <1>6
  <2> QED BY <1>6, <2>2, <2>3
<1>12. x.pc \in {"Run", "Promote", "Finish"} /\ (x.pc # "Run" => fresh = {})
  BY <1>4
<1>13. FlushOk(f)'
  <2>1. ~x.late /\ x.at <= flushed' /\ x.latest <= meta'.latest
    BY <1>0, <1>2, <1>4 DEF FlushOk
  <2>2. flushing'.token = f => \A s \in Commits' : s > x.at => s > flushed'
    BY <1>0, <1>2, <1>4, <1>6 DEF FlushOk, Working
  <2>3. ASSUME NEW s \in x.runs PROVE s > x.at
    <3>1. s \in fresh
      BY <1>4
    <3>2. s \in Nat /\ ~(s <= at)
      BY <1>5, <1>6, <3>1
    <3> QED BY <1>4, <1>6, <3>2
  <2>4. \A s \in Batch(f)' : x.pc = "Finish" => s <= meta'.latest
    BY <1>2, <1>6, <1>11
  <2>5. x.pc \in {"Messages", "Promote", "Mark"} => \A s \in Seqs : ~IsTop(f, s)'
    <3>1. ASSUME x.pc = "Promote", NEW s \in Seqs, IsTop(f, s)' PROVE FALSE
      <4>1. s \in Batch(f) /\ s > at /\ s \in Nat
        BY <1>4, <1>6, <3>1 DEF IsTop
      <4> QED BY <1>6, <1>10, <1>12, <3>1, <4>1
    <3> QED BY <1>12, <3>1
  <2> QED BY <1>12, <2>1, <2>2, <2>3, <2>4, <2>5 DEF FlushOk
<1>14. RunsOk(f)'
  <2>1. \A m \in x.drop : Settled(m)'
    BY <1>0, <1>2, <1>4 DEF RunsOk, Settled
  <2>2. ASSUME NEW m \in x.good
        PROVE  \/ inner'.runs[stream'[m].run] # 0
               \/ \E n \in x.good :
                     stream'[n].seq \in x.runs /\ stream'[n].run = stream'[m].run
    <3>1. m \in flusher[f].good
      BY <1>4
    <3>2. PICK n \in flusher[f].good : stream[n].seq \in S /\ stream[n].run = stream[m].run
      BY <1>5, <3>1
    <3>3. CASE stream[n].seq \in fresh
      BY <1>2, <1>4, <3>2, <3>3
    <3>4. CASE stream[n].seq \notin fresh
      BY <1>2, <1>8, <3>2, <3>4
    <3> QED BY <3>3, <3>4
  <2>3. x.pc \in {"Thread", "Messages", "Promote", "Mark"} =>
          \A m \in x.good : inner'.runs[stream'[m].run] # 0
    BY <1>2, <1>4, <1>9, <1>12
  <2>4. ASSUME x.pc = "Finish", NEW m \in x.good PROVE Safe(stream[m].seq)'
    <3>1. m \in flusher[f].good /\ m \in DOMAIN stream
      BY <1>4, <1>6, <2>4
    <3>2. inner'.runs[stream[m].run] # 0 /\ stream[m].seq <= at /\ stream[m].seq \in Nat
      BY <1>6, <1>9, <1>12, <2>4, <3>1
    <3>3. \A n \in DOMAIN stream : stream[n].seq = stream[m].seq => n = m
      BY <3>1 DEF StoreInv, StreamInv, SequenceNeverReused
    <3>4. \A n \in DOMAIN stream' : stream'[n].seq = stream'[m].seq => inner'.runs[stream'[n].run] # 0
      BY <1>2, <3>2, <3>3
    <3>5. stream'[m].seq <= flushed'
      BY <1>2, <1>6, <3>2
    <3> QED BY <3>4, <3>5 DEF Safe, Recorded
  <2> QED BY <2>1, <2>2, <2>3, <2>4 DEF RunsOk
<1>15. /\ OrderInv' /\ TailInv' /\ DeleteInv' /\ ReadInv' /\ AckInv' /\ InnerNotBehindWatermark'
       /\ \A g \in Flushers : g # f => FlushOk(g)' /\ RunsOk(g)'
  <2>1. \A r \in Runs : inner.runs[r] # 0 => inner'.runs[r] # 0
    BY <1>3
  <2>2. PICK y : Turned(f, y)
    BY <1>4
  <2> QED BY <1>2, <1>3, <1>7, <2>1, <2>2, DrainView
<1> QED BY <1>13, <1>14, <1>15 DEF ViewInv, FlushInv

\* A flusher that is not late has the claim when it writes.
LEMMA HasClaim ==
    ASSUME NEW f \in Flushers, NEW pc, FlushOk(f), At(f, pc)
    PROVE  flusher[f].pc = pc /\ flushing.token = f
BY DEF FlushOk, At, Passes, Current

\* The highest entry of a batch with something new is new.
LEMMA FreshTop ==
    ASSUME StoreInv, NEW f \in Flushers, FlushOk(f), flushing.token = f,
           flusher[f].pc \in {"Thread", "Messages", "Mark"}
    PROVE  LET s == TopSeq(f)
           IN  /\ flusher[f].good # {} /\ s \in Commits /\ s \in Seqs /\ s \in Nat
               /\ s \in Batch(f) /\ s > flusher[f].at /\ s > flushed /\ IsTop(f, s)
               /\ \A t \in Batch(f) : t <= s
               /\ \A t \in Seqs : IsTop(f, t) => t = s
<1>1. PICK t \in Batch(f) : t > flusher[f].at
  BY DEF FlushOk
<1>2. flusher[f].good # {}
  BY <1>1 DEF Batch
<1> DEFINE s == TopSeq(f)
<1>3. s \in Batch(f) /\ s \in Nat /\ \A u \in Batch(f) : u <= s
  BY <1>2, TopIs
<1>4. s \in Commits /\ s \in Seqs /\ Batch(f) \subseteq Nat /\ flusher[f].at \in Nat
  BY <1>3, TopIs, Numbers
<1> HIDE DEF s
<1>5. s > flusher[f].at
  BY <1>1, <1>3, <1>4
<1>6. s > flushed
  BY <1>4, <1>5 DEF FlushOk, Working
<1>7. IsTop(f, s)
  BY <1>3, <1>5 DEF IsTop
<1>8. ASSUME NEW u \in Seqs, IsTop(f, u) PROVE u = s
  <2>1. u \in Batch(f) /\ s <= u
    BY <1>3, <1>8 DEF IsTop
  <2> QED BY <1>3, <1>4, <2>1
<1> QED BY <1>2, <1>3, <1>4, <1>5, <1>6, <1>7, <1>8 DEF s

\* An entry the watermark passes, with a record of its run, is safe.
LEMMA MadeSafe ==
    ASSUME StoreInv, stream' = stream, NEW m \in DOMAIN stream,
           inner'.runs[stream[m].run] # 0, stream[m].seq <= flushed'
    PROVE  Safe(stream[m].seq)'
<1>1. \A n \in DOMAIN stream : stream[n].seq = stream[m].seq => n = m
  BY DEF StoreInv, StreamInv, SequenceNeverReused
<1>2. \A n \in DOMAIN stream' : stream'[n].seq = stream'[m].seq => inner'.runs[stream'[n].run] # 0
  BY <1>1
<1>3. stream'[m].seq <= flushed'
  OBVIOUS
<1> QED BY <1>2, <1>3 DEF Safe, Recorded

\* A checkpoint of a run that is new is newer than the watermark.
LEMMA FlusherCheckpointView ==
    ASSUME StoreInv, StoreInv', ViewInv, NEW f \in Flushers, FlusherCheckpoints(f)
    PROVE  ViewInv'
<1>0. TypeInv /\ FlushOk(f) /\ RunsOk(f) /\ InnerNotBehindWatermark
  BY DEF StoreInv, ViewInv, FlushInv
<1>1. UNCHANGED <<kv, acked, flushing, troubles, OthersThanFlushers>>
  BY Zenon DEF FlusherCheckpoints
<1>2. /\ meta' = meta /\ wal' = wal /\ flushed' = flushed /\ stream' = stream
      /\ committed' = committed /\ known' = known
      /\ acked' = acked /\ flushing' = flushing /\ UNCHANGED OthersThanFlushers
  BY <1>1 DEF kv, OthersThanFlushers
<1>3. flusher[f].pc = "Run" /\ flushing.token = f
  <2>1. At(f, "Run")
    BY Zenon DEF FlusherCheckpoints
  <2> QED BY <1>0, <2>1, HasClaim
<1> DEFINE s == Min(flusher[f].runs)
           x == flusher'[f]
           at == flusher[f].at
<1>4. /\ s \in flusher[f].runs /\ s \in Batch(f) /\ s \in Nat /\ s # 0
      /\ RunAt(s) \in Runs
      /\ inner'.thread = s /\ inner'.messages = TopSeq(f)
      /\ inner'.runs = [inner.runs EXCEPT ![RunAt(s)] = s]
  BY CheckpointIs
<1>5. /\ x.good = flusher[f].good /\ x.drop = flusher[f].drop /\ x.runs = flusher[f].runs \ {s}
      /\ x.at = at /\ x.latest = flusher[f].latest /\ ~x.late
      /\ x.pc \in {"Run", "Thread"} /\ (x.pc = "Thread" => flusher[f].runs = {s})
      /\ \E y : Turned(f, y)
  <2> DEFINE to == IF flusher[f].runs = {s} THEN "Thread" ELSE "Run"
             y == Calm(Turn(flusher[f], to, flusher[f].todo, flusher[f].good,
                            flusher[f].drop, flusher[f].runs \ {s}))
  <2>1. Turned(f, y)
    BY <1>0, CheckpointTurns
  <2>2. x = y
    BY <2>1 DEF Turned
  <2> HIDE DEF to, s
  <2>3. /\ y.pc = to /\ y.good = flusher[f].good /\ y.drop = flusher[f].drop
        /\ y.runs = flusher[f].runs \ {s}
        /\ y.at = at /\ y.latest = flusher[f].latest /\ ~y.late
    BY DEF Turn, Calm
  <2> HIDE DEF y
  <2> QED BY <2>1, <2>2, <2>3 DEF to
<1> HIDE DEF s
<1>6. inner.runs \in [Runs -> Nat]
  BY FlusherStill DEF InnerType
<1>7. /\ inner'.runs[RunAt(s)] # 0
      /\ \A r \in Runs : inner.runs[r] # 0 => inner'.runs[r] # 0
  BY <1>4, <1>6
<1>8. /\ Batch(f) \subseteq Commits /\ Commits \subseteq Nat /\ at \in Nat /\ flushed \in Nat
      /\ Batch(f)' = Batch(f) /\ Commits' = Commits
      /\ flusher[f].good \subseteq DOMAIN stream /\ flusher[f].good # {}
      /\ \A m \in flusher[f].good : stream[m].seq \in Batch(f)
  BY <1>2, <1>3, <1>5, Numbers, TopIs DEF StoreInv, BatchInv, Guarded, Batch, Commits
<1>9. s > at /\ s > flushed
  <2>1. s > at
    BY <1>0, <1>3, <1>4 DEF FlushOk
  <2> QED BY <1>0, <1>3, <1>4, <1>8, <2>1 DEF FlushOk, Working
<1>10. CatchUp /\ Fades(wal') /\ Settles(wal')
  BY <1>2, Standing, StandsUp
<1>11. FlushOk(f)'
  <2>1. ~x.late /\ x.at <= flushed' /\ x.latest <= meta'.latest
    BY <1>0, <1>2, <1>5 DEF FlushOk
  <2>2. flushing'.token = f => \A t \in Commits' : t > x.at => t > flushed'
    BY <1>0, <1>2, <1>3, <1>5, <1>8 DEF FlushOk, Working
  <2>3. \A t \in x.runs : t > x.at
    BY <1>0, <1>3, <1>5 DEF FlushOk
  <2>4. \E t \in Batch(f)' : t > x.at
    BY <1>4, <1>5, <1>8, <1>9
  <2> QED BY <1>5, <2>1, <2>2, <2>3, <2>4 DEF FlushOk
<1>12. RunsOk(f)'
  <2>1. \A m \in x.drop : Settled(m)'
    BY <1>0, <1>2, <1>5 DEF RunsOk, Settled
  <2>2. ASSUME NEW m \in x.good
        PROVE  \/ inner'.runs[stream'[m].run] # 0
               \/ \E n \in x.good :
                     stream'[n].seq \in x.runs /\ stream'[n].run = stream'[m].run
    <3>1. m \in flusher[f].good /\ stream[m].run \in Runs
      BY <1>5, <1>8, CommitFacts DEF EntryType
    <3>2. CASE inner.runs[stream[m].run] # 0
      BY <1>2, <1>7, <3>1, <3>2
    <3>3. CASE \E n \in flusher[f].good :
                  stream[n].seq \in flusher[f].runs /\ stream[n].run = stream[m].run
      <4>1. PICK n \in flusher[f].good :
                  stream[n].seq \in flusher[f].runs /\ stream[n].run = stream[m].run
        BY <3>3
      <4>2. CASE stream[n].seq = s
        <5>1. RunAt(s) = stream[n].run
          BY <1>8, <4>2, RunAtIs
        <5> QED BY <1>2, <1>7, <4>1, <5>1
      <4>3. CASE stream[n].seq # s
        BY <1>2, <1>5, <4>1, <4>3
      <4> QED BY <4>2, <4>3
    <3> QED BY <1>0, <1>3, <3>1, <3>2, <3>3 DEF RunsOk
  <2>3. ASSUME x.pc = "Thread", NEW m \in x.good PROVE inner'.runs[stream'[m].run] # 0
    BY <1>5, <2>2, <2>3
  <2> QED BY <1>5, <2>1, <2>2, <2>3 DEF RunsOk
<1>13. InnerNotBehindWatermark'
  <2>1. TopSeq(f) \in Nat /\ s <= TopSeq(f)
    BY <1>4, <1>8, TopIs
  <2>2. ASSUME NEW c \in Commits, c <= flushed PROVE s >= c /\ TopSeq(f) >= c
    BY <1>4, <1>8, <1>9, <2>1, <2>2
  <2> QED BY <1>2, <1>4, <2>2 DEF InnerNotBehindWatermark, Commits
<1>14. /\ OrderInv' /\ TailInv' /\ DeleteInv' /\ ReadInv' /\ AckInv'
       /\ \A g \in Flushers : g # f => FlushOk(g)' /\ RunsOk(g)'
  <2>1. PICK y : Turned(f, y)
    BY <1>5
  <2> QED BY <1>2, <1>3, <1>7, <1>10, <2>1, DrainView
<1> QED BY <1>11, <1>12, <1>13, <1>14 DEF ViewInv, FlushInv

\* What a flusher goes on with.
LEMMA GoesOn ==
    ASSUME StoreInv, NEW f \in Flushers, NEW to \in FlusherStage, FlushGoto(f, to), stream' = stream
    PROVE  /\ \E y : Turned(f, y)
           /\ flusher'[f].pc = to /\ ~flusher'[f].late
           /\ flusher'[f].good = flusher[f].good /\ flusher'[f].drop = flusher[f].drop
           /\ flusher'[f].at = flusher[f].at /\ flusher'[f].latest = flusher[f].latest
           /\ Batch(f)' = Batch(f)
           /\ flusher[f].good \subseteq DOMAIN stream
           /\ \A m \in flusher[f].good : stream[m].run \in Runs /\ stream[m].seq \in Batch(f)
<1> DEFINE y == Calm(Turn(flusher[f], to, flusher[f].todo, flusher[f].good,
                          flusher[f].drop, flusher[f].runs))
<1>1. Turned(f, y)
  BY GotoTurns DEF StoreInv
<1>2. /\ y.pc = to /\ ~y.late /\ y.good = flusher[f].good /\ y.drop = flusher[f].drop
      /\ y.at = flusher[f].at /\ y.latest = flusher[f].latest
  BY DEF Turn, Calm
<1> HIDE DEF y
<1>3. flusher'[f] = y
  BY <1>1 DEF Turned
<1>4. Batch(f)' = Batch(f)
  BY <1>2, <1>3 DEF Batch
<1>5. flusher[f].good \subseteq DOMAIN stream
      /\ \A m \in flusher[f].good : stream[m].run \in Runs /\ stream[m].seq \in Batch(f)
  BY TopIs, CommitFacts DEF EntryType
<1> QED BY <1>1, <1>2, <1>3, <1>4, <1>5

\* The thread projection is written from the highest entry, which is new.
LEMMA FlusherThreadView ==
    ASSUME StoreInv, StoreInv', ViewInv, NEW f \in Flushers, FlusherSavesThread(f)
    PROVE  ViewInv'
<1>0. FlushOk(f) /\ RunsOk(f) /\ InnerNotBehindWatermark
  BY DEF ViewInv, FlushInv
<1>1. /\ At(f, "Thread") /\ FlushGoto(f, "Messages") /\ "Messages" \in FlusherStage
      /\ inner' = [inner EXCEPT !.thread = TopSeq(f)]
      /\ UNCHANGED <<kv, acked, flushing, troubles, OthersThanFlushers>>
  BY Zenon DEF FlusherSavesThread, FlusherStage
<1>2. /\ meta' = meta /\ wal' = wal /\ flushed' = flushed /\ stream' = stream
      /\ committed' = committed /\ known' = known /\ Commits' = Commits
      /\ acked' = acked /\ flushing' = flushing /\ UNCHANGED OthersThanFlushers
  BY <1>1 DEF kv, OthersThanFlushers, Commits
<1>3. flusher[f].pc = "Thread" /\ flushing.token = f
  BY <1>0, <1>1, HasClaim
<1> DEFINE s == TopSeq(f)
           x == flusher'[f]
<1>4. /\ s \in Commits /\ s \in Nat /\ s \in Batch(f) /\ s > flusher[f].at /\ s > flushed
      /\ \A t \in Seqs : IsTop(f, t) => t = s
  BY <1>0, <1>3, FreshTop
<1>5. /\ \E y : Turned(f, y)
      /\ x.pc = "Messages" /\ ~x.late /\ x.good = flusher[f].good /\ x.drop = flusher[f].drop
      /\ x.at = flusher[f].at /\ x.latest = flusher[f].latest /\ Batch(f)' = Batch(f)
      /\ flusher[f].good \subseteq DOMAIN stream
  BY <1>1, <1>2, GoesOn
<1>6. /\ inner'.thread = s /\ inner'.messages = inner.messages /\ inner'.runs = inner.runs
  BY <1>1, <1>2, <1>4, SavedIs
<1> HIDE DEF s
<1>7. CatchUp /\ Fades(wal') /\ Settles(wal')
  BY <1>2, Standing, StandsUp
<1>8. FlushOk(f)'
  <2>1. x.at <= flushed' /\ x.latest <= meta'.latest
    BY <1>0, <1>2, <1>5 DEF FlushOk
  <2>2. flushing'.token = f => \A t \in Commits' : t > x.at => t > flushed'
    BY <1>0, <1>2, <1>3, <1>5 DEF FlushOk, Working
  <2>3. \E t \in Batch(f)' : t > x.at
    BY <1>4, <1>5
  <2>4. ASSUME NEW t \in Seqs, IsTop(f, t)' PROVE inner'.thread = t
    <3>1. IsTop(f, t)
      BY <1>5, <2>4 DEF IsTop
    <3> QED BY <1>4, <1>6, <3>1
  <2> QED BY <1>5, <2>1, <2>2, <2>3, <2>4 DEF FlushOk
<1>9. RunsOk(f)'
  BY <1>0, <1>2, <1>3, <1>5, <1>6 DEF RunsOk, Settled
<1>10. InnerNotBehindWatermark'
  <2>1. ASSUME NEW c \in Commits, c <= flushed PROVE s >= c
    BY <1>4, <2>1, Numbers
  <2> QED BY <1>0, <1>2, <1>6, <2>1 DEF InnerNotBehindWatermark, Commits
<1>11. /\ OrderInv' /\ TailInv' /\ DeleteInv' /\ ReadInv' /\ AckInv'
       /\ \A g \in Flushers : g # f => FlushOk(g)' /\ RunsOk(g)'
  <2>1. PICK y : Turned(f, y)
    BY <1>5
  <2> QED BY <1>2, <1>3, <1>6, <1>7, <2>1, DrainView
<1> QED BY <1>8, <1>9, <1>10, <1>11 DEF ViewInv, FlushInv

\* So are the messages.
LEMMA FlusherMessagesView ==
    ASSUME StoreInv, StoreInv', ViewInv, NEW f \in Flushers, FlusherSavesMessages(f)
    PROVE  ViewInv'
<1>0. FlushOk(f) /\ RunsOk(f) /\ InnerNotBehindWatermark
  BY DEF ViewInv, FlushInv
<1> DEFINE s == TopSeq(f)
           x == flusher'[f]
           to == IF s > flusher[f].latest THEN "Promote" ELSE "Mark"
<1>1. /\ At(f, "Messages") /\ FlushGoto(f, to)
      /\ inner' = [inner EXCEPT !.messages = TopSeq(f)]
      /\ UNCHANGED <<kv, acked, flushing, troubles, OthersThanFlushers>>
  BY Zenon DEF FlusherSavesMessages
<1>p. to \in FlusherStage
  BY DEF FlusherStage
<1>2. /\ meta' = meta /\ wal' = wal /\ flushed' = flushed /\ stream' = stream
      /\ committed' = committed /\ known' = known /\ Commits' = Commits
      /\ acked' = acked /\ flushing' = flushing /\ UNCHANGED OthersThanFlushers
  BY <1>1 DEF kv, OthersThanFlushers, Commits
<1>3. flusher[f].pc = "Messages" /\ flushing.token = f
  BY <1>0, <1>1, HasClaim
<1>4. /\ s \in Commits /\ s \in Nat /\ s \in Batch(f) /\ s > flusher[f].at /\ s > flushed
      /\ s \in Seqs /\ IsTop(f, s)
      /\ \A t \in Seqs : IsTop(f, t) => t = s
      /\ \A t \in Batch(f) : t <= s
  BY <1>0, <1>3, FreshTop
<1>5. /\ \E y : Turned(f, y)
      /\ x.pc = to /\ ~x.late /\ x.good = flusher[f].good /\ x.drop = flusher[f].drop
      /\ x.at = flusher[f].at /\ x.latest = flusher[f].latest /\ Batch(f)' = Batch(f)
      /\ flusher[f].good \subseteq DOMAIN stream
  <2> HIDE DEF to
  <2> QED BY <1>1, <1>p, <1>2, GoesOn
<1>6. /\ inner'.messages = s /\ inner'.thread = inner.thread /\ inner'.runs = inner.runs
  BY <1>1, <1>2, <1>4, SavedIs
<1>q. x.pc \in {"Promote", "Mark"} /\ (x.pc = "Mark" => s <= flusher[f].latest)
  <2>1. flusher[f].latest \in Nat
    BY Numbers
  <2> QED BY <1>4, <1>5, <2>1
<1>t. inner.thread = s
  BY <1>0, <1>3, <1>4 DEF FlushOk
<1> HIDE DEF s, to
<1>7. CatchUp /\ Fades(wal') /\ Settles(wal')
  BY <1>2, Standing, StandsUp
<1>8. FlushOk(f)'
  <2>1. x.at <= flushed' /\ x.latest <= meta'.latest
    BY <1>0, <1>2, <1>5 DEF FlushOk
  <2>2. flushing'.token = f => \A t \in Commits' : t > x.at => t > flushed'
    BY <1>0, <1>2, <1>3, <1>5 DEF FlushOk, Working
  <2>3. \E t \in Batch(f)' : t > x.at
    BY <1>4, <1>5
  <2>4. ASSUME NEW t \in Seqs, IsTop(f, t)' PROVE inner'.thread = t /\ inner'.messages = t
    <3>1. IsTop(f, t)
      BY <1>5, <2>4 DEF IsTop
    <3> QED BY <1>4, <1>6, <1>t, <3>1
  <2>5. ASSUME x.pc = "Mark", NEW t \in Batch(f)' PROVE t <= meta'.latest
    <3>1. t <= s /\ t \in Nat /\ s <= flusher[f].latest /\ flusher[f].latest <= meta.latest
          /\ flusher[f].latest \in Nat /\ meta.latest \in Nat
      BY <1>0, <1>4, <1>5, <1>q, <2>5, Numbers DEF FlushOk
    <3> QED BY <1>2, <1>4, <3>1
  <2> QED BY <1>5, <1>q, <2>1, <2>2, <2>3, <2>4, <2>5 DEF FlushOk
<1>9. RunsOk(f)'
  BY <1>0, <1>2, <1>3, <1>5, <1>6, <1>q DEF RunsOk, Settled
<1>10. InnerNotBehindWatermark'
  <2>1. ASSUME NEW c \in Commits, c <= flushed PROVE s >= c
    BY <1>4, <2>1, Numbers
  <2> QED BY <1>0, <1>2, <1>6, <2>1 DEF InnerNotBehindWatermark, Commits
<1>11. /\ OrderInv' /\ TailInv' /\ DeleteInv' /\ ReadInv' /\ AckInv'
       /\ \A g \in Flushers : g # f => FlushOk(g)' /\ RunsOk(g)'
  <2>1. PICK y : Turned(f, y)
    BY <1>5
  <2> QED BY <1>2, <1>3, <1>6, <1>7, <2>1, DrainView
<1> QED BY <1>8, <1>9, <1>10, <1>11 DEF ViewInv, FlushInv

\* The metadata catches up with the highest entry of a batch.
LEMMA FlusherPromoteView ==
    ASSUME StoreInv, StoreInv', ViewInv, NEW f \in Flushers, FlusherPromotes(f)
    PROVE  ViewInv'
<1>0. FlushOk(f) /\ RunsOk(f)
  BY DEF ViewInv, FlushInv
<1> DEFINE s == TopSeq(f)
           x == flusher'[f]
           at == flusher[f].at
           to == IF s > at THEN "Mark" ELSE "Finish"
<1>1. /\ At(f, "Promote") /\ FlushGoto(f, to)
      /\ meta' = Promote(meta, TopSeq(f), TopJs(f))
      /\ UNCHANGED <<flushed, wal, cache, acked, flushing, inner, troubles, OthersThanFlushers>>
  BY Zenon DEF FlusherPromotes
<1>p. to \in FlusherStage
  BY DEF FlusherStage
<1>2. /\ wal' = wal /\ flushed' = flushed /\ stream' = stream /\ inner' = inner
      /\ committed' = committed /\ known' = known /\ Commits' = Commits
      /\ acked' = acked /\ flushing' = flushing /\ UNCHANGED OthersThanFlushers
  BY <1>1 DEF OthersThanFlushers, Commits
<1>3. flusher[f].pc = "Promote" /\ flushing.token = f
  BY <1>0, <1>1, HasClaim
<1>4. /\ s \in Batch(f) /\ s \in Nat /\ s \in Commits /\ \A t \in Batch(f) : t <= s
      /\ TopJs(f) \in Nat /\ TopJs(f) # 0
  <2>1. flusher[f].good # {}
    BY <1>3 DEF StoreInv, BatchInv, Guarded
  <2> QED BY <2>1, TopIs
<1>5. /\ \E y : Turned(f, y)
      /\ x.pc = to /\ ~x.late /\ x.good = flusher[f].good /\ x.drop = flusher[f].drop
      /\ x.at = at /\ x.latest = flusher[f].latest /\ Batch(f)' = Batch(f)
      /\ flusher[f].good \subseteq DOMAIN stream
      /\ \A m \in flusher[f].good : stream[m].seq \in Batch(f)
  <2> HIDE DEF to
  <2> QED BY <1>1, <1>p, <1>2, GoesOn
<1>6. CatchUp /\ meta'.latest >= s
  BY <1>1, <1>4, PromoteView
<1>7. /\ Batch(f) \subseteq Nat /\ at \in Nat /\ flushed \in Nat
      /\ meta.latest \in Nat /\ meta'.latest \in Nat /\ flusher[f].latest \in Nat
      /\ meta.latest <= meta'.latest
  BY <1>6, Numbers, NumbersNext DEF CatchUp
<1>q. /\ x.pc \in {"Mark", "Finish"} /\ (x.pc = "Mark" => s > at)
      /\ x.pc = "Finish" => s <= at
  BY <1>4, <1>5, <1>7
<1> HIDE DEF s, to
<1>8. Fades(wal') /\ Settles(wal')
  BY <1>2, StandsUp
<1>9. FlushOk(f)'
  <2>1. x.at <= flushed' /\ x.latest <= meta'.latest
    <3>1. at <= flushed /\ flusher[f].latest <= meta.latest
      BY <1>0 DEF FlushOk
    <3> QED BY <1>2, <1>5, <1>7, <3>1
  <2>2. flushing'.token = f => \A t \in Commits' : t > x.at => t > flushed'
    BY <1>0, <1>2, <1>3, <1>5 DEF FlushOk, Working
  <2>3. x.pc = "Mark" => \E t \in Batch(f)' : t > x.at
    BY <1>4, <1>5, <1>q
  <2>4. ASSUME NEW t \in Seqs, IsTop(f, t)' PROVE inner'.thread = t /\ inner'.messages = t
    <3>1. IsTop(f, t)
      BY <1>5, <2>4 DEF IsTop
    <3> QED BY <1>0, <1>2, <1>3, <3>1 DEF FlushOk
  <2>5. ASSUME NEW t \in Batch(f)' PROVE t <= meta'.latest
    <3>1. t <= s /\ t \in Nat
      BY <1>4, <1>5, <1>7, <2>5
    <3> QED BY <1>4, <1>6, <1>7, <3>1
  <2> QED BY <1>5, <1>q, <2>1, <2>2, <2>3, <2>4, <2>5 DEF FlushOk
<1>10. RunsOk(f)'
  <2>1. \A m \in x.good : inner'.runs[stream'[m].run] # 0
    BY <1>0, <1>2, <1>3, <1>5 DEF RunsOk
  <2>2. ASSUME x.pc = "Finish", NEW m \in x.good PROVE Safe(stream[m].seq)'
    <3>1. m \in DOMAIN stream /\ inner'.runs[stream[m].run] # 0
      BY <1>2, <1>5, <2>1, <2>2
    <3>2. stream[m].seq \in Nat /\ stream[m].seq <= s /\ s <= at /\ at <= flushed
      BY <1>0, <1>4, <1>5, <1>7, <1>q, <2>2 DEF FlushOk
    <3>3. stream[m].seq <= flushed'
      BY <1>2, <1>4, <1>7, <3>2
    <3> QED BY <1>2, <3>1, <3>3, MadeSafe
  <2>3. \A m \in x.drop : Settled(m)'
    BY <1>0, <1>2, <1>5 DEF RunsOk, Settled
  <2> QED BY <1>q, <2>1, <2>2, <2>3 DEF RunsOk
<1>11. /\ OrderInv' /\ TailInv' /\ DeleteInv' /\ ReadInv' /\ AckInv' /\ InnerNotBehindWatermark'
       /\ \A g \in Flushers : g # f => FlushOk(g)' /\ RunsOk(g)'
  <2>1. PICK y : Turned(f, y)
    BY <1>5
  <2> QED BY <1>2, <1>3, <1>6, <1>8, <2>1, DrainView
<1> QED BY <1>9, <1>10, <1>11 DEF ViewInv, FlushInv

\* The watermark passes a batch when all of it is in the inner store.
LEMMA FlusherMarkView ==
    ASSUME StoreInv, StoreInv', ViewInv, NEW f \in Flushers, FlusherMarks(f)
    PROVE  ViewInv'
<1>0. FlushOk(f) /\ RunsOk(f) /\ InnerNotBehindWatermark
  BY DEF ViewInv, FlushInv
<1> DEFINE s == TopSeq(f)
           x == flusher'[f]
<1>1. /\ At(f, "Mark") /\ FlushGoto(f, "Finish") /\ "Finish" \in FlusherStage
      /\ flushed' = Max({flushed, TopSeq(f)})
      /\ UNCHANGED <<meta, wal, cache, acked, flushing, inner, troubles, OthersThanFlushers>>
  BY Zenon DEF FlusherMarks, FlusherStage
<1>2. /\ meta' = meta /\ wal' = wal /\ stream' = stream /\ inner' = inner
      /\ committed' = committed /\ known' = known /\ Commits' = Commits
      /\ acked' = acked /\ flushing' = flushing /\ UNCHANGED OthersThanFlushers
  BY <1>1 DEF OthersThanFlushers, Commits
<1>3. flusher[f].pc = "Mark" /\ flushing.token = f
  BY <1>0, <1>1, HasClaim
<1>4. /\ s \in Commits /\ s \in Seqs /\ s \in Nat /\ s \in Batch(f) /\ s > flushed
      /\ IsTop(f, s) /\ \A t \in Batch(f) : t <= s
  BY <1>0, <1>3, FreshTop
<1>5. /\ \E y : Turned(f, y)
      /\ x.pc = "Finish" /\ ~x.late /\ x.good = flusher[f].good /\ x.drop = flusher[f].drop
      /\ x.at = flusher[f].at /\ x.latest = flusher[f].latest /\ Batch(f)' = Batch(f)
      /\ flusher[f].good \subseteq DOMAIN stream
      /\ \A m \in flusher[f].good : stream[m].seq \in Batch(f)
  BY <1>1, <1>2, GoesOn
<1>6. flushed' = s /\ flushed \in Nat
  <2>1. flushed \in Nat
    BY Numbers
  <2>2. flushed' = IF flushed >= s THEN flushed ELSE s
    BY <1>1, <1>4, <2>1, MaxOfTwo
  <2> HIDE DEF s
  <2> QED BY <1>4, <2>1, <2>2
<1>7. inner.thread = s /\ inner.messages = s
  BY <1>0, <1>3, <1>4 DEF FlushOk
<1> HIDE DEF s
<1>8. CatchUp /\ Fades(wal') /\ Settles(wal')
  BY <1>2, Standing, StandsUp
<1>9. FlushOk(f)'
  <2>1. x.at <= flushed' /\ x.latest <= meta'.latest
    <3>1. flusher[f].at <= flushed /\ flusher[f].latest <= meta.latest /\ flusher[f].at \in Nat
      BY <1>0, Numbers DEF FlushOk
    <3> QED BY <1>2, <1>4, <1>5, <1>6, <3>1
  <2>2. \A t \in Batch(f)' : t <= meta'.latest
    BY <1>0, <1>2, <1>3, <1>5 DEF FlushOk
  <2> QED BY <1>5, <2>1, <2>2 DEF FlushOk, Working
<1>10. RunsOk(f)'
  <2>1. ASSUME NEW m \in x.good PROVE Safe(stream[m].seq)'
    <3>1. m \in DOMAIN stream /\ inner'.runs[stream[m].run] # 0 /\ stream[m].seq <= s
      BY <1>0, <1>2, <1>3, <1>4, <1>5, <2>1 DEF RunsOk
    <3>2. stream[m].seq <= flushed'
      BY <1>6, <3>1
    <3> QED BY <1>2, <3>1, <3>2, MadeSafe
  <2>2. \A m \in x.drop : Settled(m)'
    BY <1>0, <1>2, <1>5 DEF RunsOk, Settled
  <2> QED BY <1>5, <2>1, <2>2 DEF RunsOk
<1>11. InnerNotBehindWatermark'
  <2>1. ASSUME NEW c \in Commits, c <= s PROVE inner.messages >= c /\ inner.thread >= c
    BY <1>4, <1>7, <2>1, Numbers
  <2> QED BY <1>2, <1>6, <2>1 DEF InnerNotBehindWatermark, Commits
<1>12. /\ OrderInv' /\ TailInv' /\ DeleteInv' /\ ReadInv' /\ AckInv'
       /\ \A g \in Flushers : g # f => FlushOk(g)' /\ RunsOk(g)'
  <2>1. PICK y : Turned(f, y)
    BY <1>5
  <2>2. flushed' > flushed /\ flushed' \in Commits
    BY <1>4, <1>6
  <2> QED BY <1>2, <1>3, <1>8, <2>1, <2>2, DrainView
<1> QED BY <1>9, <1>10, <1>11, <1>12 DEF ViewInv, FlushInv

\* What is acknowledged is safe, or was never committed.
LEMMA FlusherAckView ==
    ASSUME StoreInv, StoreInv', ViewInv, NEW f \in Flushers, FlusherAcks(f)
    PROVE  ViewInv'
<1>0. FlushOk(f) /\ RunsOk(f) /\ AckInv /\ TypeInv
  BY DEF ViewInv, FlushInv, StoreInv
<1>1. UNCHANGED <<meta, flushed, cache, flushing, inner, OthersThanFlushers>>
  BY Zenon DEF FlusherAcks
<1>2. /\ meta' = meta /\ flushed' = flushed /\ stream' = stream /\ inner' = inner
      /\ committed' = committed /\ known' = known /\ Commits' = Commits
      /\ flushing' = flushing /\ UNCHANGED OthersThanFlushers
  BY <1>1 DEF OthersThanFlushers, Commits
<1>3. PICK m \in flusher[f].good \cup flusher[f].drop :
         /\ Turned(f, Turn(flusher[f], "Finish", flusher[f].todo, flusher[f].good \ {m},
                           flusher[f].drop \ {m}, flusher[f].runs))
         /\ \/ acked' = acked \cup {m} /\ wal' = [wal EXCEPT ![stream[m].seq] = NoState]
            \/ acked' \in {acked, acked \cup {m}} /\ wal' = wal
  BY <1>0, AckTurns
<1> DEFINE s == stream[m].seq
           x == flusher'[f]
<1>4. /\ flusher[f].pc = "Finish" /\ x.pc = "Finish"
      /\ x.good \subseteq flusher[f].good /\ x.drop \subseteq flusher[f].drop
      /\ x.at = flusher[f].at /\ x.latest = flusher[f].latest /\ x.late = flusher[f].late
  BY <1>0, <1>3, AckTurns DEF Turned, Turn
<1>5. /\ m \in DOMAIN stream /\ s \in Seqs /\ wal \in [Seqs -> WalType]
      /\ acked \subseteq DOMAIN stream /\ Commits \subseteq Seqs
      /\ flusher[f].good \subseteq DOMAIN stream /\ flusher[f].drop \subseteq DOMAIN stream
      /\ \A n \in DOMAIN stream : stream[n].seq \in Seqs
  BY <1>0, CommitFacts DEF TypeInv, FlusherTypes, StoreTypes, EntryType
<1>6. \/ m \in flusher[f].good /\ s \in Commits /\ s <= meta.latest /\ Safe(s)
      \/ wal[s].status \in {"Aborted", "None"}
  <2>1. CASE m \in flusher[f].good
    <3>1. s \in Batch(f) /\ Batch(f) \subseteq Commits
      BY <2>1, TopIs
    <3> QED BY <1>0, <1>4, <2>1, <3>1 DEF FlushOk, RunsOk
  <2>2. CASE m \in flusher[f].drop
    BY <1>0, <2>2 DEF RunsOk, Settled
  <2> QED BY <2>1, <2>2
<1>7. /\ acked' \in {acked, acked \cup {m}}
      /\ \A t \in Seqs : wal'[t].status = wal[t].status \/ (t = s /\ wal'[t].status = "None")
  <2>1. NoState.status = "None"
    BY DEF NoState
  <2> HIDE DEF s
  <2> QED BY <1>3, <1>5, <2>1 DEF s
<1> HIDE DEF s
<1>8. Fades(wal') /\ CatchUp
  <2>1. s <= meta.latest \/ wal[s].status # "Committed"
    BY <1>6
  <2>2. Fades(wal')
    BY <1>7, <2>1 DEF Fades
  <2> QED BY <1>2, <2>2, Standing
<1>9. FlushOk(f)'
  <2>1. \A t \in Batch(f)' : t \in Batch(f)
    BY <1>2, <1>4 DEF Batch
  <2>2. \A t \in Batch(f)' : t <= meta'.latest
    BY <1>0, <1>2, <1>4, <2>1 DEF FlushOk
  <2>3. ~x.late /\ x.at <= flushed' /\ x.latest <= meta'.latest
    BY <1>0, <1>2, <1>4 DEF FlushOk
  <2> QED BY <1>4, <2>2, <2>3 DEF FlushOk, Working
<1>10. RunsOk(f)'
  <2>1. ASSUME NEW n \in x.drop PROVE wal'[stream[n].seq].status \in {"Aborted", "None"}
    <3>1. n \in flusher[f].drop /\ stream[n].seq \in Seqs
      BY <1>4, <1>5, <2>1
    <3>2. wal[stream[n].seq].status \in {"Aborted", "None"}
      BY <1>0, <3>1 DEF RunsOk, Settled
    <3> QED BY <1>7, <3>1, <3>2
  <2>2. ASSUME NEW n \in x.good PROVE Safe(stream[n].seq)'
    <3>1. Safe(stream[n].seq)
      BY <1>0, <1>4, <2>2 DEF RunsOk
    <3> QED BY <1>2, <3>1 DEF Safe, Recorded
  <2> QED BY <1>2, <1>4, <2>1, <2>2 DEF RunsOk, Settled
<1>11. /\ Forward /\ OrderInv' /\ TailInv' /\ DeleteInv' /\ ReadInv' /\ InnerNotBehindWatermark'
       /\ \A g \in Flushers : g # f => FlushOk(g)' /\ RunsOk(g)'
  <2>1. PICK y : Turned(f, y)
    BY <1>3
  <2> QED BY <1>2, <1>8, <2>1, DrainView
<1>12. AckInv'
  <2>1. \A t \in Seqs : wal'[t].status = "Prepared" => wal[t].status = "Prepared"
    BY <1>7
  <2>2. wal[s].status # "Prepared"
    BY <1>0, <1>6 DEF AckInv
  <2>3. ASSUME NEW n \in acked', wal'[stream'[n].seq].status = "Prepared"
        PROVE  n \in acked /\ wal[stream[n].seq].status = "Prepared"
    <3>1. n \in DOMAIN stream /\ stream[n].seq \in Seqs
      BY <1>5, <1>7
    <3>2. wal[stream[n].seq].status = "Prepared"
      BY <1>2, <2>1, <2>3, <3>1
    <3>3. n # m
      BY <2>2, <3>2 DEF s
    <3> QED BY <1>7, <3>2, <3>3
  <2>4. ASSUME NEW t \in Commits,
               wal'[t].status # "Committed" \/ (\E n \in acked' : stream'[n].seq = t)
        PROVE  Safe(t) \/ wal[t].status # "Committed" \/ (\E n \in acked : stream[n].seq = t)
    <3>1. CASE t = s
      BY <1>6, <3>1
    <3>2. CASE t # s
      <4>1. wal'[t].status = wal[t].status
        BY <1>5, <1>7, <3>2
      <4>2. \A n \in acked' : stream'[n].seq = t => n \in acked /\ stream[n].seq = t
        BY <1>2, <1>7, <3>2 DEF s
      <4> QED BY <2>4, <4>1, <4>2
    <3> QED BY <3>1, <3>2
  <2>5. \A t \in Commits : wal'[t].status = "Prepared" => wal[t].status = "Prepared"
    BY <1>5, <2>1
  <2> QED BY <1>0, <1>2, <1>11, <2>3, <2>4, <2>5, AcksKeep
<1> QED BY <1>9, <1>10, <1>11, <1>12 DEF ViewInv, FlushInv

\* What a flusher does keeps the view.
LEMMA FlusherViewStep ==
    ASSUME StoreInv, StoreInv', ViewInv, NEW f \in Flushers, FlusherStep(f) \/ FlusherTrouble(f)
    PROVE  ViewInv'
BY FlusherRestView, FlusherClassifyView, FlusherStaleView, FlusherCheckpointView,
   FlusherThreadView, FlusherMessagesView, FlusherPromoteView, FlusherMarkView,
   FlusherAckView DEF FlusherStep, FlusherTrouble

-----------------------------------------------------------------------------
(* Steps of the deleter and of the reader, and leases.                     *)

\* No step but a writer's brings a writer nearer to its commit.
LEMMA DeskOrder ==
    ASSUME StoreInv, OrderInv, committed' = committed,
           \A w \in Writers : /\ writer'[w].pc = writer[w].pc /\ writer'[w].seq = writer[w].seq
                              /\ Pending(w)' => Pending(w) \/ hierarchy'.token = w,
           hierarchy'.token = hierarchy.token \/ (hierarchy'.token \notin Writers
                                                   /\ \A w \in Writers : ~Pending(w)'),
           \/ meta'.latest \in {meta.latest} \cup Commits /\ flushed' = flushed
           \/ hierarchy'.token \notin Writers
    PROVE  OrderInv'
<1>1. ASSUME NEW w \in Writers
      PROVE  /\ hierarchy'.token = w /\ writer'[w].pc \in Writing =>
                   /\ hierarchy.token = w /\ writer[w].pc \in Writing
                   /\ writer'[w].seq = writer[w].seq
             /\ Pending(w)' => hierarchy'.token = w
  BY DEF OrderInv
<1> QED BY <1>1, OrderKeeps

\* A writer that does not move is no nearer to its commit.
LEMMA StillPending ==
    ASSUME StoreInv, writer' = writer,
           \A s \in Seqs : wal'[s].status = "Prepared" => wal[s].status = "Prepared"
    PROVE  /\ \A w \in Writers : writer'[w].pc = writer[w].pc /\ writer'[w].seq = writer[w].seq
           /\ \A w \in Writers : Pending(w)' => Pending(w)
           /\ (\A s \in Seqs : wal'[s].status # "Prepared") => \A w \in Writers : ~Pending(w)'
<1>1. ASSUME NEW w \in Writers, Pending(w)'
      PROVE  Pending(w) /\ ~(\A s \in Seqs : wal'[s].status # "Prepared")
  <2>1. /\ writer[w].pc \in {"Published", "Prepared"} /\ wal'[writer[w].seq].status = "Prepared"
        /\ \/ writer[w].pc = "Published"
           \/ writer[w].pc = "Prepared" /\ writer[w].late
    BY <1>1 DEF Pending
  <2>2. writer[w].seq # 0
    BY <2>1 DEF StoreInv, CountInv, MayBeUnnumbered
  <2>3. writer[w].seq \in Seqs
    BY <2>2, Bounds DEF StoreInv
  <2> QED BY <2>1, <2>3 DEF Pending
<1> QED BY <1>1

\* Reading the flush target, before and under the claim, keeps the view.
LEMMA DeleterReconcileView ==
    ASSUME StoreInv, StoreInv', ViewInv, DeleterStarts \/ DeleterClaims
    PROVE  ViewInv'
<1>1. /\ stream' = stream /\ acked' = acked /\ writer' = writer /\ flusher' = flusher
      /\ committed' = committed /\ flushing' = flushing
      /\ reader' = reader /\ inner' = inner /\ known' = known /\ Reconcile
  BY DEF DeleterStarts, DeleterClaims
<1>2. OrderInv /\ TailInv
  BY DEF ViewInv
<1>3. /\ CatchUp /\ Settles(wal') /\ flushed' = flushed
      /\ \A s \in Seqs : wal'[s].status = "Prepared" => wal[s].status = "Prepared"
      /\ ~hierarchy.live => \A s \in Seqs : wal'[s].status # "Prepared"
      /\ \A s \in Commits : s <= meta'.latest
  BY <1>1, <1>2, ReconcileView
<1>4. Extends
  BY <1>1, Standing
<1>5. /\ \A w \in Writers : writer'[w].pc = writer[w].pc /\ writer'[w].seq = writer[w].seq
      /\ \A w \in Writers : Pending(w)' => Pending(w)
      /\ (\A s \in Seqs : wal'[s].status # "Prepared") => \A w \in Writers : ~Pending(w)'
  BY <1>1, <1>3, StillPending
<1>6. meta'.latest \in {meta.latest} \cup Commits
  BY <1>3 DEF CatchUp
<1>7. OrderInv' /\ DeleteInv'
  <2>1. CASE DeleterStarts
    <3>1. hierarchy' = hierarchy /\ deleter' = [pc |-> "Wait", target |-> meta'.latest]
      BY <2>1 DEF DeleterStarts
    <3>2. deleter'.pc = "Wait"
      BY <3>1
    <3>3. OrderInv'
      BY <1>1, <1>2, <1>3, <1>5, <1>6, <3>1, DeskOrder
    <3> QED BY <3>2, <3>3 DEF DeleteInv
  <2>2. CASE DeleterClaims
    <3>1. /\ ~hierarchy.live /\ hierarchy' = [token |-> Deleter, live |-> TRUE]
          /\ deleter' = [pc |-> "WaitClaimed", target |-> meta'.latest]
      BY <2>2 DEF DeleterClaims, Acquired
    <3>2. hierarchy'.token = Deleter /\ Deleter \notin Writers
      BY <3>1, BufferedAssumption
    <3>3. OrderInv'
      BY <1>1, <1>2, <1>3, <1>5, <1>6, <3>1, <3>2, DeskOrder
    <3>4. deleter'.pc = "WaitClaimed" /\ deleter'.target = meta'.latest
      BY <3>1
    <3>5. meta'.latest <= deleter'.target
      BY <3>4, NumbersNext
    <3>6. Below(meta.latest)'
      BY <1>1, <1>3 DEF Below, Commits
    <3> QED BY <3>3, <3>4, <3>5, <3>6 DEF DeleteInv
  <2> QED BY <2>1, <2>2
<1> QED BY <1>1, <1>3, <1>4, <1>7, RestKeeps DEF ViewInv

\* So do the deleter's decisions, its release and its crash.
LEMMA DeleterHopView ==
    ASSUME StoreInv, StoreInv', ViewInv,
           DeleterFlushed \/ DeleterLosesClaim \/ DeleterReleases \/ DeleterCrashes
    PROVE  ViewInv'
<1>1. UNCHANGED <<kv, inner, known, stream, acked, flushing, writer, flusher, reader, committed>>
  BY DEF DeleterFlushed, DeleterLosesClaim, DeleterReleases, DeleterCrashes, OthersThanDeleter
<1>2. /\ stream' = stream /\ acked' = acked /\ writer' = writer /\ flusher' = flusher
      /\ committed' = committed /\ flushing' = flushing /\ meta' = meta /\ wal' = wal
      /\ flushed' = flushed
      /\ reader' = reader /\ inner' = inner /\ known' = known
  BY <1>1 DEF kv
<1>3. hierarchy'.token = hierarchy.token
  <2>1. hierarchy' = hierarchy \/ Released(hierarchy, Deleter)
    BY DEF DeleterFlushed, DeleterLosesClaim, DeleterReleases, DeleterCrashes
  <2>2. hierarchy \in HierarchyType
    BY DeskStill
  <2> QED BY <2>1, <2>2 DEF Released, HierarchyType
<1>4. CatchUp /\ Extends /\ Settles(wal')
  BY <1>2, Standing
<1>5. OrderInv'
  <2>1. OrderInv
    BY DEF ViewInv
  <2> QED BY <1>2, <1>3, <2>1, DeskOrder, StillPending
<1>6. \/ deleter'.pc \notin {"WaitClaimed", "Delete", "Tombstone", "MarkFlushed", "Clear"}
      \/ /\ deleter.pc = "WaitClaimed" /\ deleter'.pc = "Delete"
         /\ flushed >= deleter.target /\ deleter'.target = deleter.target
  <2>0. deleter \in DeleterType
    BY DeskStill
  <2>1. CASE DeleterFlushed
    <3>1. \/ /\ flushed >= deleter.target
             /\ DeleterGoto("Wait", "Claim") \/ DeleterGoto("WaitClaimed", "Delete")
          \/ DeleterGoto("Wait", "Err") \/ DeleterGoto("WaitClaimed", "Release")
      BY <2>1 DEF DeleterFlushed
    <3> QED BY <3>1, DeleterGotoIs DEF DeleterStage
  <2>2. CASE DeleterLosesClaim
    <3>1. \E from \in DeleterStage : DeleterGoto(from, "Release")
      BY <2>2 DEF DeleterLosesClaim, DeleterStage
    <3> QED BY <3>1, DeleterGotoIs DEF DeleterStage
  <2>3. CASE DeleterReleases
    <3>1. \E from \in DeleterStage : DeleterGoto(from, "Done")
      BY <2>3 DEF DeleterReleases, DeleterStage
    <3> QED BY <3>1, DeleterGotoIs DEF DeleterStage
  <2>4. CASE DeleterCrashes
    <3>1. deleter' = [deleter EXCEPT !.pc = "Dead"]
      BY <2>4 DEF DeleterCrashes
    <3> QED BY <2>0, <3>1 DEF DeleterType
  <2> QED BY <2>1, <2>2, <2>3, <2>4
<1>7. DeleteInv'
  <2>1. CASE deleter'.pc \notin {"WaitClaimed", "Delete", "Tombstone", "MarkFlushed", "Clear"}
    BY <2>1 DEF DeleteInv
  <2>2. CASE /\ deleter.pc = "WaitClaimed" /\ deleter'.pc = "Delete"
             /\ flushed >= deleter.target /\ deleter'.target = deleter.target
    <3>1. hierarchy.token = Deleter => Below(meta.latest) /\ meta.latest <= deleter.target
      BY <2>2 DEF ViewInv, DeleteInv
    <3>2. Below(meta.latest) => Below(meta.latest)'
      BY <1>2 DEF Below, Commits
    <3>3. deleter.target <= flushed
      BY <2>2, Numbers
    <3> QED BY <1>2, <1>3, <2>2, <3>1, <3>2, <3>3 DEF DeleteInv
  <2> QED BY <1>6, <2>1, <2>2
<1> QED BY <1>2, <1>4, <1>5, <1>7, RestKeeps DEF ViewInv

\* What the deleter writes, once everything is flushed and no writer is at work.
LEMMA DeletionView ==
    ASSUME StoreInv, StoreInv', ViewInv,
           UNCHANGED <<stream, acked, flushing, writer, flusher, reader, committed, hierarchy>>,
           hierarchy.token = Deleter, Below(flushed), Below(meta.latest),
           meta.latest <= meta'.latest, flushed <= flushed', known.erased <= known'.erased,
           inner'.runs = inner.runs,
           \A s \in Commits : s <= known'.erased,
           wal' = wal \/ \A s \in Seqs : wal'[s].status = "None",
           meta'.latestJs \in {meta.latestJs, 0},
           DeleteInv'
    PROVE  ViewInv'
<1>0. /\ OrderInv /\ TailInv /\ FlushInv /\ AckInv /\ ReadInv /\ InnerNotBehindWatermark
  BY DEF ViewInv
<1>1. /\ stream' = stream /\ acked' = acked /\ writer' = writer /\ flusher' = flusher
      /\ committed' = committed /\ flushing' = flushing /\ reader' = reader
      /\ hierarchy' = hierarchy /\ Commits' = Commits
  BY DEF Commits
<1>2. Extends
  BY <1>1, Standing
<1>3. Forward
  BY <1>2 DEF Forward
<1>4. \A s \in Seqs : wal'[s].status = "Prepared" => wal[s].status = "Prepared"
  OBVIOUS
<1>5. OrderInv'
  <2>1. hierarchy'.token \notin Writers
    BY <1>1, BufferedAssumption
  <2> QED BY <1>0, <1>1, <1>4, <2>1, DeskOrder, StillPending
<1>6. TailInv'
  <2>1. ASSUME NEW s \in Commits PROVE s <= meta'.latest /\ s <= flushed'
    <3>1. s <= meta.latest /\ s <= flushed /\ s \in Nat
      BY Numbers DEF Below
    <3>2. meta.latest \in Nat /\ meta'.latest \in Nat /\ flushed \in Nat /\ flushed' \in Nat
      BY Numbers, NumbersNext
    <3> QED BY <3>1, <3>2
  <2> QED BY <1>1, <2>1 DEF TailInv
<1>7. FlushInv'
  <2>1. ASSUME NEW f \in Flushers PROVE FlushOk(f)' /\ RunsOk(f)'
    <3>1. FlushOk(f) /\ RunsOk(f)
      BY <1>0 DEF FlushInv
    <3>2. FlushOk(f)'
      BY <1>1, <1>3, <3>1, FlushKeeps
    <3>3. flusher[f].drop \subseteq DOMAIN stream
      BY DEF StoreInv, TypeInv, FlusherTypes
    <3>4. \A m \in flusher[f].drop : stream[m].seq \in Seqs
      BY <3>3, CommitFacts DEF EntryType
    <3>5. ASSUME NEW m \in flusher[f].drop, Settled(m)
          PROVE  wal'[stream[m].seq].status \in {"Aborted", "None"}
      BY <3>4, <3>5 DEF Settled
    <3> QED BY <1>1, <1>3, <3>1, <3>2, <3>5, RunsKeep
  <2> QED BY <2>1 DEF FlushInv
<1>8. AckInv'
  <2>1. Commits \subseteq Seqs /\ acked \subseteq DOMAIN stream
        /\ \A n \in DOMAIN stream : stream[n].seq \in Seqs
    BY Numbers, CommitFacts DEF StoreInv, TypeInv, StoreTypes, EntryType
  <2>2. \A s \in Commits : wal'[s].status = "Prepared" => wal[s].status = "Prepared"
    BY <1>4, <2>1
  <2>3. \A m \in acked' : wal'[stream'[m].seq].status = "Prepared" =>
           m \in acked /\ wal[stream[m].seq].status = "Prepared"
    BY <1>1, <1>4, <2>1
  <2>4. CASE wal' = wal
    BY <1>0, <1>1, <1>3, <2>2, <2>3, <2>4, AcksKeep
  <2>5. CASE \A s \in Seqs : wal'[s].status = "None"
    <3>1. ASSUME NEW s \in Commits PROVE Safe(s)'
      <4>1. s <= flushed'
        <5>1. s \in Nat /\ s <= flushed /\ flushed \in Nat /\ flushed' \in Nat
          BY Numbers, NumbersNext DEF Below
        <5> QED BY <5>1
      <4>2. s <= known'.erased
        OBVIOUS
      <4> QED BY <4>1, <4>2 DEF Safe
    <3>2. /\ \A s \in Commits' : wal'[s].status # "Prepared"
          /\ \A m \in acked' : wal'[stream'[m].seq].status # "Prepared"
      BY <1>1, <2>1, <2>5
    <3> QED BY <1>1, <3>1, <3>2 DEF AckInv
  <2> QED BY <2>4, <2>5
<1>9. ReadInv'
  BY <1>0, <1>1, <1>3, ReadKeeps
<1>10. InnerNotBehindWatermark'
  BY <1>0, <1>1, <1>3, InnerKeeps
<1> QED BY <1>5, <1>6, <1>7, <1>8, <1>9, <1>10 DEF ViewInv

\* Deleting the thread, its tombstone, the watermark and the commit states.
LEMMA DeleterWriteView ==
    ASSUME StoreInv, StoreInv', ViewInv,
           DeleterDeletes \/ DeleterTombstones \/ DeleterMarks \/ DeleterClears
    PROVE  ViewInv'
<1>0. DeleteInv /\ deleter \in DeleterType
  BY DeskStill DEF ViewInv
<1>1. UNCHANGED <<hierarchy, stream, acked, flushing, writer, flusher, reader, committed>>
  BY DEF DeleterDeletes, DeleterTombstones, DeleterMarks, DeleterClears, OthersThanDeleter
<1>2. hierarchy' = hierarchy /\ Commits' = Commits
  BY <1>1 DEF Commits
<1>3. /\ meta.latest \in Nat /\ flushed \in Nat /\ known.erased \in Nat /\ deleter.target \in Nat
      /\ meta.reserved \in Nat /\ meta.latest <= meta.reserved /\ flushed <= meta.reserved
      /\ Commits \subseteq Nat
  BY Numbers, DeskStill
<1>4. CASE DeleterDeletes
  <2>1. /\ meta' = meta /\ wal' = wal /\ flushed' = flushed /\ Current(hierarchy, Deleter)
        /\ DeleterGoto("Delete", "Tombstone")
        /\ inner' = [inner EXCEPT !.thread = 0, !.messages = 0]
    BY <1>4 DEF DeleterDeletes, kv
  <2>2. /\ deleter.pc = "Delete" /\ deleter'.pc = "Tombstone" /\ deleter'.target = deleter.target
    BY <2>1, DeleterGotoIs DEF DeleterStage
  <2>3. /\ hierarchy.token = Deleter /\ Below(meta.latest) /\ meta.latest <= deleter.target
        /\ deleter.target <= flushed
    BY <1>0, <2>1, <2>2 DEF DeleteInv, Current
  <2>4. Below(flushed)
    BY <1>3, <2>3 DEF Below
  <2>5. known.erased <= known'.erased /\ \A s \in Commits : s <= known'.erased
    BY <1>4, ErasedIs
  <2>6. inner'.runs = inner.runs
    BY <2>1, DeskStill DEF InnerType
  <2>7. DeleteInv'
    <3>1. /\ Below(meta.latest)' /\ meta'.latest <= deleter'.target
          /\ deleter'.target <= flushed' /\ Below(known.erased)'
      BY <1>2, <2>1, <2>2, <2>3, <2>5 DEF Below
    <3> QED BY <2>2, <3>1 DEF DeleteInv
  <2>8. meta.latest <= meta'.latest /\ flushed <= flushed'
    BY <1>3, <2>1
  <2> QED BY <1>1, <2>1, <2>3, <2>4, <2>5, <2>6, <2>7, <2>8, DeletionView
<1>5. CASE DeleterTombstones
  <2>1. /\ wal' = wal /\ flushed' = flushed /\ Current(hierarchy, Deleter) /\ inner' = inner
        /\ known' = known
    BY <1>5 DEF DeleterTombstones
  <2>2. /\ deleter.pc = "Tombstone"
        /\ deleter' = [pc |-> "MarkFlushed", target |-> meta.reserved]
        /\ meta' = [reserved |-> meta.reserved, latest |-> meta.reserved, latestJs |-> 0]
    BY <1>5, TombstoneIs
  <2>3. /\ hierarchy.token = Deleter /\ Below(meta.latest) /\ meta.latest <= deleter.target
        /\ deleter.target <= flushed /\ Below(known.erased)
    BY <1>0, <2>1, <2>2 DEF DeleteInv, Current
  <2>4. Below(flushed)
    BY <1>3, <2>3 DEF Below
  <2>5. /\ meta'.latest = meta.reserved /\ meta'.latestJs = 0
        /\ deleter'.pc = "MarkFlushed" /\ deleter'.target = meta.reserved
    BY <2>2
  <2>6. \A s \in Commits : s <= flushed /\ s <= meta'.latest /\ s <= known'.erased
    BY <1>3, <2>1, <2>3, <2>4, <2>5 DEF Below
  <2>7. DeleteInv'
    <3>1. Below(flushed)' /\ Below(meta.latest)' /\ Below(known.erased)'
      BY <1>2, <2>1, <2>6 DEF Below
    <3>2. Current(hierarchy, Deleter)'
      BY <1>2, <2>1 DEF Current
    <3>3. flushed' <= deleter'.target
      BY <1>3, <2>1, <2>5
    <3> QED BY <2>5, <3>1, <3>2, <3>3 DEF DeleteInv
  <2>8. meta.latest <= meta'.latest /\ flushed <= flushed' /\ known.erased <= known'.erased
    BY <1>3, <2>1, <2>5
  <2> QED BY <1>1, <2>1, <2>3, <2>4, <2>5, <2>6, <2>7, <2>8, DeletionView
<1>6. CASE DeleterMarks
  <2>1. /\ wal' = wal /\ flushed' = deleter.target /\ meta' = meta /\ inner' = inner
        /\ known' = known /\ DeleterGoto("MarkFlushed", "Clear")
    BY <1>6 DEF DeleterMarks
  <2>2. deleter.pc = "MarkFlushed" /\ deleter'.pc = "Clear"
    BY <2>1, DeleterGotoIs DEF DeleterStage
  <2>3. /\ Current(hierarchy, Deleter) /\ hierarchy.token = Deleter
        /\ Below(flushed) /\ Below(meta.latest) /\ Below(known.erased)
        /\ flushed <= deleter.target
    BY <1>0, <2>2 DEF DeleteInv, Current
  <2>4. \A s \in Commits : s <= flushed' /\ s <= meta'.latest /\ s <= known'.erased
    BY <1>3, <2>1, <2>3 DEF Below
  <2>5. DeleteInv'
    <3>1. Below(flushed)' /\ Below(meta.latest)' /\ Below(known.erased)'
      BY <1>2, <2>4 DEF Below
    <3>2. Current(hierarchy, Deleter)'
      BY <1>2, <2>3 DEF Current
    <3> QED BY <2>2, <3>1, <3>2 DEF DeleteInv
  <2>6. meta.latest <= meta'.latest /\ flushed <= flushed' /\ known.erased <= known'.erased
    BY <1>3, <2>1, <2>3
  <2> QED BY <1>1, <2>1, <2>3, <2>4, <2>5, <2>6, DeletionView
<1>7. CASE DeleterClears
  <2>1. /\ flushed' = flushed /\ meta' = meta /\ inner' = inner
        /\ known' = known /\ DeleterGoto("Clear", "Cleared") /\ wal' = [s \in Seqs |-> NoState]
    BY <1>7 DEF DeleterClears
  <2>2. deleter.pc = "Clear" /\ deleter'.pc = "Cleared"
    BY <2>1, DeleterGotoIs DEF DeleterStage
  <2>3. /\ hierarchy.token = Deleter
        /\ Below(flushed) /\ Below(meta.latest) /\ Below(known.erased)
    BY <1>0, <2>2 DEF DeleteInv, Current
  <2>4. \A s \in Commits : s <= known'.erased
    BY <2>1, <2>3 DEF Below
  <2>5. DeleteInv'
    BY <2>2 DEF DeleteInv
  <2>6. meta.latest <= meta'.latest /\ flushed <= flushed' /\ known.erased <= known'.erased
    BY <1>3, <2>1
  <2>7. \A s \in Seqs : wal'[s].status = "None"
    BY <2>1 DEF NoState
  <2> QED BY <1>1, <2>1, <2>3, <2>4, <2>5, <2>6, <2>7, DeletionView
<1> QED BY <1>4, <1>5, <1>6, <1>7

\* What the deleter does keeps the view.
LEMMA DeleterViewStep ==
    ASSUME StoreInv, StoreInv', ViewInv, DeleterStep \/ DeleterCrashes
    PROVE  ViewInv'
BY DeleterReconcileView, DeleterHopView, DeleterWriteView DEF DeleterStep

\* A read with the reader alone moving keeps all but what it has read.
LEMMA ReadingKeeps ==
    ASSUME StoreInv, StoreInv', ViewInv, UNCHANGED <<kv, OthersThanReader>>, ReadInv'
    PROVE  ViewInv'
<1>1. /\ meta' = meta /\ wal' = wal /\ flushed' = flushed /\ stream' = stream /\ acked' = acked
      /\ hierarchy' = hierarchy /\ flushing' = flushing /\ inner' = inner /\ writer' = writer
      /\ flusher' = flusher /\ deleter' = deleter /\ committed' = committed /\ known' = known
  BY DEF kv, OthersThanReader
<1>2. CatchUp /\ Extends /\ Settles(wal')
  BY <1>1, Standing
<1>3. OrderInv' /\ DeleteInv'
  <2>1. OrderInv /\ DeleteInv
    BY DEF ViewInv
  <2> QED BY <1>1, <2>1 DEF OrderInv, DeleteInv, Pending, Current, Below, Commits
<1> QED BY <1>1, <1>2, <1>3, RestKeeps DEF ViewInv

\* A read keeps the view, and returns what it has promised.
LEMMA ReaderViewStep ==
    ASSUME StoreInv, StoreInv', ViewInv, ReaderStep
    PROVE  ViewInv'
<1>0. /\ OrderInv /\ TailInv /\ DeleteInv /\ ReadInv /\ InnerNotBehindWatermark
  BY DEF ViewInv
<1>r. reader \in ReaderType
  BY DEF StoreInv, TypeInv
<1>n. /\ reader.latest \in Nat /\ reader.floor \in Nat /\ reader.js \in Nat /\ flushed \in Nat
      /\ meta.latest \in Nat /\ known.erased \in Nat /\ inner.messages \in Nat
      /\ Commits \subseteq Nat
  BY Numbers
<1>1. CASE ReaderReadsMeta
  <2>1. /\ stream' = stream /\ acked' = acked /\ hierarchy' = hierarchy /\ flushing' = flushing
        /\ inner' = inner /\ writer' = writer /\ flusher' = flusher /\ deleter' = deleter
        /\ committed' = committed /\ known' = known /\ Reconcile
    BY <1>1 DEF ReaderReadsMeta, OthersThanReader
  <2>2. reader' = [pc |-> "Mark", floor |-> known.ok, got |-> 0,
                   latest |-> meta'.latest, js |-> meta'.latestJs]
    BY <1>1 DEF ReaderReadsMeta
  <2>3. /\ CatchUp /\ Settles(wal') /\ flushed' = flushed
        /\ \A s \in Seqs : wal'[s].status = "Prepared" => wal[s].status = "Prepared"
        /\ \A s \in Commits : s <= meta'.latest
    BY <1>0, <2>1, ReconcileView
  <2>4. Extends
    BY <2>1, Standing
  <2>5. OrderInv'
    <3>1. meta'.latest \in {meta.latest} \cup Commits
      BY <2>3 DEF CatchUp
    <3> QED BY <1>0, <2>1, <2>3, <3>1, DeskOrder, StillPending
  <2>6. DeleteInv'
    <3>1. \/ meta'.latest = meta.latest /\ meta'.latestJs = meta.latestJs
          \/ meta'.latest > meta.latest /\ meta'.latest \in Commits
      BY <2>3 DEF CatchUp
    <3>2. known.erased <= known'.erased
      BY <1>n, <2>1
    <3>3. Current(hierarchy, Deleter) => hierarchy'.token = Deleter /\ hierarchy'.live
      BY <2>1 DEF Current
    <3> QED BY <1>0, <2>1, <2>3, <3>1, <3>2, <3>3, DeleteKeeps
  <2>7. TailInv' /\ FlushInv' /\ AckInv' /\ InnerNotBehindWatermark'
    BY <2>1, <2>3, <2>4, RestKeeps
  <2>8. ReadInv'
    <3>1. /\ reader'.pc = "Mark" /\ reader'.floor = known.ok
          /\ reader'.latest = meta'.latest /\ reader'.js = meta'.latestJs
      BY <2>2
    <3>2. known.ok \in {0} \cup Commits /\ meta'.latest \in Nat
      BY NumbersNext DEF StoreInv, OriginInv
    <3>3. known.ok <= meta'.latest
      BY <2>3, <3>2
    <3>4. meta'.latestJs = 0 => \A s \in Commits' : s <= meta'.latest => s <= flushed'
      BY <2>7 DEF TailInv
    <3>5. Commits' = Commits
      BY <2>1 DEF Commits
    <3> QED BY <3>1, <3>2, <3>3, <3>4, <3>5 DEF ReadInv, ReadYourWrites
  <2> QED BY <2>5, <2>6, <2>7, <2>8 DEF ViewInv
<1>2. CASE ReaderReadsMark \/ ReaderReadsBody \/ ReaderMissesBody \/ ReaderRests
  <2>1. UNCHANGED <<kv, OthersThanReader>>
    BY <1>2 DEF ReaderReadsMark, ReaderReadsBody, ReaderMissesBody, ReaderRests
  <2>2. meta' = meta /\ flushed' = flushed /\ known' = known /\ Commits' = Commits
    BY <2>1 DEF kv, OthersThanReader, Commits
  <2>3. CASE ReaderReadsMark
    <3>1. /\ reader.pc = "Mark" /\ reader'.pc \in {"Inner", "Wal"}
          /\ reader'.pc = "Inner" => reader.latest <= flushed
          /\ reader'.floor = reader.floor /\ reader'.latest = reader.latest
          /\ reader'.js = reader.js
      BY <1>r, <2>3 DEF ReaderReadsMark, ReaderType
    <3>2. ReadInv'
      BY <1>0, <2>2, <3>1 DEF ReadInv, ReadYourWrites
    <3> QED BY <2>1, <3>2, ReadingKeeps
  <2>4. CASE ReaderReadsBody
    <3> DEFINE bound == reader.js # 0 /\ stream[reader.js].seq = reader.latest
               got == IF reader.pc = "Wal" /\ bound THEN reader.latest ELSE inner.messages
    <3>1. /\ reader.pc \in {"Inner", "Wal"}
          /\ reader' = [reader EXCEPT !.pc = "Done", !.got = got]
      BY <2>4 DEF ReaderReadsBody
    <3>2. reader.js # 0 => bound
      BY DEF StoreInv, OriginInv, ReaderOrigin, EntryOf
    <3>3. /\ reader.floor \in {0} \cup Commits /\ reader.floor <= reader.latest
          /\ reader.latest <= meta.latest
          /\ reader.pc = "Inner" => reader.latest <= flushed
          /\ reader.js = 0 => \A s \in Commits : s <= reader.latest => s <= flushed
      BY <1>0, <3>1 DEF ReadInv
    <3>4. ASSUME reader.floor > known.erased PROVE got >= reader.floor
      <4>1. CASE reader.pc = "Wal" /\ bound
        BY <1>n, <3>3, <4>1
      <4>2. CASE ~(reader.pc = "Wal" /\ bound)
        <5>1. reader.floor \in Commits
          BY <1>n, <3>3, <3>4
        <5>2. reader.floor <= flushed
          <6>1. CASE reader.pc = "Inner"
            BY <1>n, <3>3, <6>1
          <6>2. CASE reader.js = 0
            BY <3>3, <5>1, <6>2
          <6> QED BY <3>1, <3>2, <4>2, <6>1, <6>2
        <5>3. inner.messages >= reader.floor
          BY <1>0, <3>4, <5>1, <5>2 DEF InnerNotBehindWatermark, Commits
        <5> QED BY <4>2, <5>3
      <4> QED BY <4>1, <4>2
    <3> HIDE DEF got
    <3>5. /\ reader'.pc = "Done" /\ reader'.got = got
          /\ reader'.floor = reader.floor /\ reader'.latest = reader.latest
          /\ reader'.js = reader.js
      BY <1>r, <3>1 DEF ReaderType
    <3>6. ReadInv'
      BY <2>2, <3>3, <3>4, <3>5 DEF ReadInv, ReadYourWrites
    <3> QED BY <2>1, <3>6, ReadingKeeps
  <2>5. CASE ReaderRests
    <3>1. reader'.pc = "Idle"
      BY <2>5 DEF ReaderRests
    <3>2. ReadInv'
      BY <3>1 DEF ReadInv, ReadYourWrites
    <3> QED BY <2>1, <3>2, ReadingKeeps
  <2>6. CASE ReaderMissesBody
    <3>1. /\ reader.pc = "Wal" /\ reader'.pc = "Missed"
          /\ reader'.floor = reader.floor /\ reader'.latest = reader.latest
          /\ reader'.js = reader.js
      BY <1>r, <2>6 DEF ReaderMissesBody, ReaderType
    <3>2. ReadInv'
      BY <1>0, <2>2, <3>1 DEF ReadInv, ReadYourWrites
    <3> QED BY <2>1, <3>2, ReadingKeeps
  <2> QED BY <1>2, <2>3, <2>4, <2>5, <2>6
<1> QED BY <1>1, <1>2 DEF ReaderStep

\* Flushers and the deleter have no write under way when their lease lapses.
DrainsInTime == Late \cap (Flushers \cup {Deleter}) = {}

\* Leases that lapse in time for those who drain and delete keep the view.
LEMMA LeaseViewStep ==
    ASSUME DrainsInTime, StoreInv, StoreInv', ViewInv, Leases
    PROVE  ViewInv'
<1>0. OrderInv /\ DeleteInv
  BY DEF ViewInv
<1>1. /\ UNCHANGED <<kv, stream, acked, inner, deleter, reader, committed, known>>
      /\ hierarchy'.token = hierarchy.token /\ flushing'.token = flushing.token
  BY LeaseIs
<1>2. /\ flusher' = flusher
      /\ \/ writer' = writer
         \/ \E w \in Writers, late \in BOOLEAN :
               w = hierarchy.token /\ writer' = [writer EXCEPT ![w].late = late]
  <2>1. ~(\E f \in Flushers \cap Late : TRUE)
    BY DEF DrainsInTime
  <2> QED BY <2>1, LeaseIs
<1>3. /\ meta' = meta /\ wal' = wal /\ flushed' = flushed /\ stream' = stream /\ acked' = acked
      /\ inner' = inner /\ deleter' = deleter /\ reader' = reader /\ committed' = committed
      /\ known' = known
  BY <1>1 DEF kv
<1>4. CatchUp /\ Extends /\ Settles(wal')
  BY <1>3, Standing
<1>5. \A v \in Writers : /\ writer'[v].pc = writer[v].pc /\ writer'[v].seq = writer[v].seq
                         /\ v # hierarchy.token => writer'[v] = writer[v]
  <2>1. CASE writer' = writer
    BY <2>1
  <2>2. ASSUME NEW w \in Writers, NEW late \in BOOLEAN,
               w = hierarchy.token, writer' = [writer EXCEPT ![w].late = late]
        PROVE  \A v \in Writers : /\ writer'[v].pc = writer[v].pc /\ writer'[v].seq = writer[v].seq
                                  /\ v # hierarchy.token => writer'[v] = writer[v]
    <3> DEFINE y == [writer[w] EXCEPT !.late = late]
    <3>1. writer \in [Writers -> WriterType] /\ writer[w] \in WriterType
      BY DEF StoreInv, TypeInv
    <3>2. y.pc = writer[w].pc /\ y.seq = writer[w].seq
      BY <3>1 DEF WriterType
    <3>3. writer' = [writer EXCEPT ![w] = y]
      BY <2>2, <3>1
    <3> HIDE DEF y
    <3> QED BY <2>2, <3>1, <3>2, <3>3
  <2> QED BY <1>2, <2>1, <2>2
<1>6. OrderInv'
  <2>1. ASSUME NEW v \in Writers, Pending(v)' PROVE Pending(v) \/ hierarchy'.token = v
    <3>1. CASE v # hierarchy.token
      <4>1. writer'[v] = writer[v] /\ wal' = wal
        BY <1>3, <1>5, <3>1
      <4> QED BY <2>1, <4>1 DEF Pending
    <3>2. CASE v = hierarchy.token
      BY <1>1, <3>2
    <3> QED BY <3>1, <3>2
  <2> QED BY <1>0, <1>1, <1>3, <1>5, <2>1, DeskOrder
<1>7. DeleteInv'
  <2>1. ASSUME Current(hierarchy, Deleter), deleter.pc \in {"MarkFlushed", "Clear"}
        PROVE  hierarchy'.token = Deleter /\ hierarchy'.live
    <3>1. Holds(hierarchy.token) /\ hierarchy.token = Deleter /\ hierarchy.live
      BY <2>1 DEF Holds, Current
    <3>2. hierarchy' = hierarchy \/ hierarchy'.live
      <4>1. CASE LeaseExpires
        BY <3>1, <4>1 DEF LeaseExpires
      <4>2. CASE LeaseRenewed
        BY <3>1, <4>2 DEF LeaseRenewed
      <4>3. CASE HierarchyLapses
        <5>1. Deleter \notin Late
          BY DEF DrainsInTime
        <5> QED BY <2>1, <3>1, <4>3, <5>1 DEF HierarchyLapses
      <4>4. CASE FlushLapses
        BY <4>4 DEF FlushLapses
      <4> QED BY <4>1, <4>2, <4>3, <4>4 DEF Leases
    <3> QED BY <1>1, <3>1, <3>2
  <2>2. known.erased <= known'.erased
    BY <1>3, Numbers
  <2> QED BY <1>0, <1>1, <1>3, <2>1, <2>2, DeleteKeeps
<1> QED BY <1>1, <1>2, <1>3, <1>4, <1>6, <1>7, RestKeeps DEF ViewInv

\* What readers are promised holds of an empty thread.
LEMMA ViewInit ==
    ASSUME Init
    PROVE  ViewInv
<1>1. /\ meta = [reserved |-> 0, latest |-> 0, latestJs |-> 0] /\ flushed = 0
      /\ stream = << >> /\ acked = {} /\ hierarchy = Unclaimed /\ committed = << >>
      /\ deleter = [pc |-> "Idle", target |-> 0]
      /\ reader = [pc |-> "Idle", floor |-> 0, latest |-> 0, js |-> 0, got |-> 0]
  BY DEF Init
<1>2. \A w \in Writers : writer[w].pc = "Idle"
  BY DEF Init
<1>3. \A f \in Flushers : /\ flusher[f].pc = "Idle" /\ flusher[f].good = {}
                          /\ flusher[f].drop = {} /\ flusher[f].at = 0
                          /\ flusher[f].latest = 0 /\ ~flusher[f].late
  BY DEF Init
<1>4. Commits = {} /\ DOMAIN committed = {}
  BY <1>1 DEF Commits, Range
<1>5. OrderInv
  BY <1>2, <1>4 DEF OrderInv, Pending, Writing
<1>6. TailInv /\ DeleteInv /\ AckInv /\ ReadInv
  BY <1>1, <1>4 DEF TailInv, DeleteInv, AckInv, ReadInv, ReadYourWrites
<1>7. FlushInv
  <2>1. ASSUME NEW f \in Flushers PROVE FlushOk(f) /\ RunsOk(f)
    <3>1. flusher[f].at <= flushed /\ flusher[f].latest <= meta.latest
      BY <1>1, <1>3
    <3> QED BY <1>3, <3>1 DEF FlushOk, RunsOk, Working
  <2> QED BY <2>1 DEF FlushInv
<1>8. InnerNotBehindWatermark
  BY <1>4 DEF InnerNotBehindWatermark, Commits
<1> QED BY <1>5, <1>6, <1>7, <1>8 DEF ViewInv

\* A step of nobody changes nothing of it.
LEMMA ViewStutters ==
    ASSUME StoreInv, StoreInv', ViewInv, UNCHANGED vars
    PROVE  ViewInv'
<1>1. UNCHANGED <<kv, OthersThanReader>> /\ reader' = reader
  BY DEF vars, kv, OthersThanReader
<1>2. meta' = meta /\ flushed' = flushed /\ known' = known /\ Commits' = Commits
  BY <1>1 DEF kv, OthersThanReader, Commits
<1>3. ReadInv'
  BY <1>1, <1>2 DEF ViewInv, ReadInv, ReadYourWrites
<1> QED BY <1>1, <1>3, ReadingKeeps

\* Every step keeps what readers are promised.
LEMMA ViewStep ==
    ASSUME DrainsInTime, StoreInv, ViewInv, [Next]_vars
    PROVE  StoreInv' /\ ViewInv'
<1>1. StoreInv'
  BY StoreStep
<1>2. CASE UNCHANGED vars
  BY <1>1, <1>2, ViewStutters
<1>3. CASE Next
  BY <1>1, <1>3, WriterViewStep, FlusherViewStep, DeleterViewStep, ReaderViewStep, LeaseViewStep
     DEF Next
<1> QED BY <1>1, <1>2, <1>3

\* The inductive invariant of what readers see.
THEOREM ViewSafe ==
    ASSUME DrainsInTime
    PROVE  Spec => [](StoreInv /\ ViewInv)
<1>1. Init => StoreInv /\ ViewInv
  BY StoreInit, ViewInit
<1>2. StoreInv /\ ViewInv /\ [Next]_vars => (StoreInv /\ ViewInv)'
  BY ViewStep
<1> QED BY <1>1, <1>2, PTL DEF Spec

\* A read with ReadYourWrites consistency whose fetch from the log did not fail is
\* not older than any checkpoint that returned Ok before it, but for those a delete
\* erased.
THEOREM WritesAreRead ==
    ASSUME DrainsInTime
    PROVE  Spec => []ReadYourWrites
<1>1. ViewInv => ReadYourWrites
  BY DEF ViewInv, ReadInv
<1> QED BY <1>1, ViewSafe, PTL

\* What the consumer will not deliver again is in the inner store.
THEOREM AckedIsSafe ==
    ASSUME DrainsInTime
    PROVE  Spec => []AckedIsMaterialized
<1>1. ASSUME StoreInv, ViewInv PROVE AckedIsMaterialized
  <2>1. ASSUME NEW m \in acked, stream[m].seq \in Commits
        PROVE  /\ flushed >= stream[m].seq
               /\ inner.runs[stream[m].run] # 0 \/ stream[m].seq <= known.erased
    <3>1. Safe(stream[m].seq)
      BY <1>1, <2>1 DEF ViewInv, AckInv
    <3>2. m \in DOMAIN stream
      BY <1>1 DEF StoreInv, TypeInv, StoreTypes
    <3>3. stream[m].seq \in Nat /\ flushed \in Nat
      BY <1>1, <2>1, Numbers
    <3> QED BY <3>1, <3>2, <3>3 DEF Safe, Recorded
  <2> QED BY <2>1 DEF AckedIsMaterialized, Commits
<1> QED BY <1>1, ViewSafe, PTL

-----------------------------------------------------------------------------
(* The overlay implements the view of ThreadView.                          *)

\* A read shows the last commit while it is not flushed, the inner store after.
LEMMA Shows ==
    ASSUME StoreInv, TailInv
    PROVE  /\ Below(flushed) => View = inner.messages
           /\ \A t \in Commits : t > flushed /\ Below(t) => View = t
<1>1. /\ meta.latest \in Nat /\ flushed \in Nat /\ Commits \subseteq Seqs /\ Seqs \subseteq Nat
  BY Numbers
<1>2. CASE \A s \in Seqs : wal[s].status = "Committed" => s <= meta.latest
  <2>1. View = IF meta.latest > flushed /\ meta.latestJs # 0 THEN meta.latest ELSE inner.messages
    BY <1>2, ViewIs
  <2>2. meta.latestJs # 0 => meta.latest \in Commits
    BY DEF StoreInv, OriginInv, MetaOrigin
  <2>3. \A s \in Commits : s <= meta.latest
    BY <1>1, <1>2 DEF TailInv
  <2>4. Below(flushed) => View = inner.messages
    BY <1>1, <2>1, <2>2 DEF Below
  <2>5. ASSUME NEW t \in Commits, t > flushed, Below(t) PROVE View = t
    <3>1. t <= meta.latest /\ t \in Nat
      BY <1>1, <2>3
    <3>2. meta.latestJs # 0
      BY <1>1, <2>5, <3>1 DEF TailInv
    <3>3. meta.latest = t
      BY <1>1, <2>2, <2>5, <3>1, <3>2 DEF Below
    <3> QED BY <2>1, <2>5, <3>2, <3>3
  <2> QED BY <2>4, <2>5
<1>3. CASE \E top \in Seqs :
              /\ wal[top].status = "Committed" /\ top > meta.latest
              /\ \A s \in Seqs : wal[s].status = "Committed" => s <= top
  <2>1. PICK top \in Seqs :
              /\ wal[top].status = "Committed" /\ top > meta.latest
              /\ \A s \in Seqs : wal[s].status = "Committed" => s <= top
    BY <1>3
  <2>2. View = IF top > flushed /\ wal[top].js # 0 THEN top ELSE inner.messages
    BY <2>1, ViewIs
  <2>3. top \in Commits /\ wal[top].js \in DOMAIN stream
    BY <2>1 DEF StoreInv, OriginInv, WalOrigin, EntryOf
  <2>4. wal[top].js # 0
    BY <2>3, CommitFacts
  <2>5. ASSUME NEW s \in Commits PROVE s <= top
    <3>1. s \in Nat /\ s \in Seqs /\ top \in Nat
      BY <1>1
    <3>2. s <= meta.latest \/ wal[s].status = "Committed"
      BY DEF TailInv
    <3> QED BY <1>1, <2>1, <3>1, <3>2
  <2>6. Below(flushed) => View = inner.messages
    BY <1>1, <2>2, <2>3 DEF Below
  <2>7. ASSUME NEW t \in Commits, t > flushed, Below(t) PROVE View = t
    <3>1. top <= t /\ t <= top /\ t \in Nat /\ top \in Nat
      BY <1>1, <2>3, <2>5, <2>7 DEF Below
    <3>2. t = top
      BY <3>1
    <3> QED BY <2>2, <2>4, <2>7, <3>2
  <2> QED BY <2>6, <2>7
<1> QED BY <1>2, <1>3, TailIs

\* What is not flushed has a last commit.
LEMMA LastCommit ==
    ASSUME StoreInv, ~Below(flushed)
    PROVE  \E t \in Commits : t > flushed /\ Below(t)
<1>1. flushed \in Nat /\ Commits \subseteq Nat /\ MaxSeq \in Nat /\ \A s \in Commits : s <= MaxSeq
  <2>1. flushed \in Nat /\ Commits \subseteq Nat /\ Commits \subseteq Seqs
    BY Numbers
  <2>2. MaxSeq \in Nat /\ \A s \in Seqs : s <= MaxSeq
    BY Bounds DEF Seqs, StoreInv
  <2> QED BY <2>1, <2>2
<1>2. PICK u \in Commits : ~(u <= flushed)
  BY DEF Below
<1>3. Max(Commits) \in Commits /\ \A s \in Commits : s <= Max(Commits)
  <2> HIDE DEF MaxSeq, Commits
  <2> QED BY <1>1, <1>2, MaxIs
<1> DEFINE t == Max(Commits)
<1>4. t \in Commits /\ t \in Nat /\ u <= t /\ \A s \in Commits : s <= t
  BY <1>1, <1>3
<1> HIDE DEF t
<1>5. t > flushed
  BY <1>1, <1>2, <1>4
<1> QED BY <1>4, <1>5 DEF Below

\* So it does after a step.
LEMMA ShowsNext ==
    (StoreInv /\ TailInv => /\ Below(flushed) => View = inner.messages
                           /\ \A t \in Commits : t > flushed /\ Below(t) => View = t)'
<1>1. StoreInv /\ TailInv => /\ Below(flushed) => View = inner.messages
                            /\ \A t \in Commits : t > flushed /\ Below(t) => View = t
  BY Shows
<1> QED BY <1>1, PTL

\* A step that commits nothing shows nothing new, when the inner store is
\* left alone once all is flushed, and the watermark passes the last commit
\* only when the inner store has it.
LEMMA ShowsSame ==
    ASSUME StoreInv, StoreInv', TailInv, TailInv', committed' = committed, flushed <= flushed',
           Below(flushed) => inner'.messages = inner.messages,
           \A t \in Commits : t > flushed /\ Below(t) /\ t <= flushed' => inner'.messages = t
    PROVE  View' = View
<1>1. Commits' = Commits /\ Commits \subseteq Nat /\ flushed \in Nat /\ flushed' \in Nat
  BY Numbers, NumbersNext DEF Commits
<1>2. /\ Below(flushed) => View = inner.messages
      /\ \A t \in Commits : t > flushed /\ Below(t) => View = t
  BY Shows
<1>3. /\ Below(flushed)' => View' = inner'.messages
      /\ \A t \in Commits' : t > flushed' /\ Below(t)' => View' = t
  BY ShowsNext
<1>4. CASE Below(flushed)
  <2>1. Below(flushed)'
    BY <1>1, <1>4 DEF Below
  <2> QED BY <1>2, <1>3, <1>4, <2>1
<1>5. CASE ~Below(flushed)
  <2>1. PICK t \in Commits : t > flushed /\ Below(t)
    BY <1>5, LastCommit
  <2>2. View = t
    BY <1>2, <2>1
  <2>3. Below(t)'
    BY <1>1, <2>1 DEF Below
  <2>4. CASE t > flushed'
    BY <1>1, <1>3, <2>2, <2>3, <2>4
  <2>5. CASE ~(t > flushed')
    <3>1. t <= flushed' /\ t \in Nat
      BY <1>1, <2>5
    <3>2. inner'.messages = t
      BY <2>1, <3>1
    <3>3. ASSUME NEW s \in Commits PROVE s <= flushed'
      BY <1>1, <2>1, <3>1 DEF Below
    <3>4. Below(flushed)'
      BY <1>1, <3>3 DEF Below
    <3> QED BY <1>3, <2>2, <3>2, <3>4
  <2> QED BY <2>4, <2>5
<1> QED BY <1>4, <1>5

\* A step that commits and flushes nothing and writes no messages shows nothing new.
LEMMA NothingShown ==
    ASSUME StoreInv, StoreInv', ViewInv, ViewInv', committed' = committed, flushed' = flushed,
           inner'.messages = inner.messages \/ ~Below(flushed)
    PROVE  View' = View
<1>1. TailInv /\ TailInv'
  BY DEF ViewInv
<1>2. flushed \in Nat /\ Commits \subseteq Nat
  BY Numbers
<1>3. \A t \in Commits : ~(t > flushed /\ t <= flushed')
  BY <1>2
<1> QED BY <1>1, <1>2, <1>3, ShowsSame

\* A commit is shown at once.
LEMMA CommitShows ==
    ASSUME StoreInv, StoreInv', ViewInv, ViewInv', NEW w \in Writers, Commitment(w)
    PROVE  Shown!Commit
<1>1. OrderInv /\ TailInv'
  BY DEF ViewInv
<1>s. PICK s : s = writer[w].seq
  OBVIOUS
<1>2. /\ s \in Seqs /\ committed' = Append(committed, s) /\ Commits' = Commits \cup {s}
      /\ \A t \in Commits : t < s
      /\ flushed < s
  BY <1>1, <1>s, CommitIsNew
<1>3. flushed' = flushed /\ flushed \in Nat /\ Commits \subseteq Nat /\ Seqs \subseteq Nat
  BY Numbers, CommitmentIs DEF CommitTo
<1>4. \A t \in Commits' : t <= s
  BY <1>2, <1>3
<1>5. s \in Commits' /\ s > flushed' /\ s \in 1 .. MaxSeq
  BY <1>2, <1>3 DEF Seqs
<1>6. Below(s)'
  BY <1>4 DEF Below
<1>7. View' = s
  BY <1>1, <1>5, <1>6, ShowsNext
<1>8. \A i \in DOMAIN committed : committed[i] < s
  BY <1>2 DEF Commits, Range
<1> QED BY <1>2, <1>5, <1>7, <1>8 DEF Shown!Commit

\* All else a writer does shows nothing new.
LEMMA WriterShows ==
    ASSUME StoreInv, StoreInv', ViewInv, ViewInv', NEW w \in Writers,
           WriterStep(w) \/ WriterTrouble(w), ~Commitment(w)
    PROVE  committed' = committed /\ View' = View
<1>1. CASE WriterClaims(w)
  <2>1. committed' = committed /\ inner' = inner /\ flushed' = flushed
    BY <1>1 DEF WriterClaims, Reconcile, OthersThanWriters
  <2> QED BY <2>1, NothingShown
<1>2. CASE WriterReserves(w)
  BY <1>2, NothingShown DEF WriterReserves, OthersThanWriters
<1>3. CASE WriterPrepares(w)
  BY <1>3, NothingShown DEF WriterPrepares, OthersThanWriters
<1>4. CASE WriterPublishes(w)
  BY <1>4, NothingShown DEF WriterPublishes, OthersThanWriters, kv
<1>5. CASE WriterLosesClaim(w)
  BY <1>5, NothingShown DEF WriterLosesClaim, OthersThanWriters, kv
<1>6. CASE WriterFindsSettled(w)
  BY <1>6, NothingShown DEF WriterFindsSettled, OthersThanWriters, kv
<1>7. CASE WriterCaches(w)
  BY <1>7, NothingShown DEF WriterCaches, OthersThanWriters
<1>8. CASE WriterPromotes(w)
  BY <1>8, NothingShown DEF WriterPromotes, OthersThanWriters
<1>9. CASE WriterAborts(w)
  <2>1. committed' = committed /\ inner' = inner /\ flushed' = flushed
    BY <1>9 DEF WriterAborts, OthersThanWriters
  <2> QED BY <2>1, NothingShown
<1>10. CASE WriterReturns(w)
  <2>1. committed' = committed /\ inner' = inner /\ flushed' = flushed
    BY <1>10 DEF WriterReturns, OthersThanWriters, kv
  <2> QED BY <2>1, NothingShown
<1>11. CASE WriterTrouble(w)
  <2>1. CASE WriterTimesOut(w)
    BY <2>1, NothingShown DEF WriterTimesOut, OthersThanWriters, kv
  <2>2. CASE WriterPrepareFails(w)
    BY <2>2, NothingShown DEF WriterPrepareFails, OthersThanWriters, kv
  <2>3. CASE WriterPublishFails(w)
    BY <2>3, NothingShown DEF WriterPublishFails, OthersThanWriters, kv
  <2>4. CASE WriterCommitUnknown(w)
    BY <2>4, NothingShown DEF WriterCommitUnknown, OthersThanWriters, kv
  <2>5. CASE WriterCrashes(w)
    BY <2>5, NothingShown DEF WriterCrashes, OthersThanWriters, kv
  <2>6. CASE WriterCommitFails(w)
    BY <2>6, NothingShown DEF WriterCommitFails, OthersThanWriters, kv
  <2>7. CASE WriterReleaseFails(w)
    <3>1. committed' = committed /\ inner' = inner /\ flushed' = flushed
      BY <2>7 DEF WriterReleaseFails, OthersThanWriters, kv
    <3> QED BY <3>1, NothingShown
  <2> QED BY <1>11, <2>1, <2>2, <2>3, <2>4, <2>5, <2>6, <2>7 DEF WriterTrouble, Commitment
<1> QED BY <1>1, <1>2, <1>3, <1>4, <1>5, <1>6, <1>7, <1>8, <1>9, <1>10, <1>11
        DEF WriterStep, Commitment

\* A flusher shows nothing new: it writes messages before the watermark has
\* passed them, and lets the watermark pass only what it has written.
LEMMA FlusherShows ==
    ASSUME StoreInv, StoreInv', ViewInv, ViewInv', NEW f \in Flushers,
           FlusherStep(f) \/ FlusherTrouble(f)
    PROVE  committed' = committed /\ View' = View
<1>0. FlushOk(f) /\ TailInv /\ TailInv' /\ inner \in InnerType
      /\ flushed \in Nat /\ Commits \subseteq Nat
  BY Numbers DEF ViewInv, FlushInv, StoreInv, TypeInv, StoreTypes
<1>1. ASSUME \/ FlusherFetches(f) \/ FlusherClaims(f) \/ FlusherLosesClaim(f)
             \/ FlusherReleases(f) \/ FlusherTrouble(f)
      PROVE  committed' = committed /\ inner' = inner /\ flushed' = flushed
  <2>1. CASE FlusherFetches(f)
    BY <2>1, Zenon DEF FlusherFetches, OthersThanFlushers, kv
  <2>2. CASE FlusherClaims(f)
    BY <2>2, Zenon DEF FlusherClaims, OthersThanFlushers, kv
  <2>3. CASE FlusherLosesClaim(f)
    BY <2>3, Zenon DEF FlusherLosesClaim, OthersThanFlushers, kv
  <2>4. CASE FlusherReleases(f)
    BY <2>4, Zenon DEF FlusherReleases, OthersThanFlushers, kv
  <2>5. CASE FlusherTimesOut(f)
    BY <2>5, Zenon DEF FlusherTimesOut, OthersThanFlushers, kv
  <2>6. CASE FlusherFails(f)
    BY <2>6, Zenon DEF FlusherFails, OthersThanFlushers, kv
  <2>7. CASE FlusherCrashes(f)
    BY <2>7, Zenon DEF FlusherCrashes, OthersThanFlushers, kv
  <2> QED BY <1>1, <2>1, <2>2, <2>3, <2>4, <2>5, <2>6, <2>7 DEF FlusherTrouble
<1>2. ASSUME FlusherClassifies(f) \/ FlusherPromotes(f) \/ FlusherAcks(f)
      PROVE  committed' = committed /\ inner' = inner /\ flushed' = flushed
  <2>1. CASE FlusherClassifies(f)
    BY <2>1, Zenon DEF FlusherClassifies, OthersThanFlushers
  <2>2. CASE FlusherPromotes(f)
    BY <2>2, Zenon DEF FlusherPromotes, OthersThanFlushers
  <2>3. CASE FlusherAcks(f)
    BY <2>3, Zenon DEF FlusherAcks, OthersThanFlushers
  <2> QED BY <1>2, <2>1, <2>2, <2>3
<1>3. CASE FlusherPersistsStale(f)
  <2>1. committed' = committed /\ flushed' = flushed
    BY <1>3, Zenon DEF FlusherPersistsStale, OthersThanFlushers, kv
  <2>2. inner'.messages = inner.messages
    BY <1>3, StaleIs
  <2> QED BY <2>1, <2>2, NothingShown
<1>4. CASE FlusherCheckpoints(f)
  <2>1. committed' = committed /\ flushed' = flushed /\ At(f, "Run")
    BY <1>4, Zenon DEF FlusherCheckpoints, OthersThanFlushers, kv
  <2>2. flusher[f].pc = "Run" /\ flushing.token = f
    BY <1>0, <2>1, HasClaim
  <2>3. PICK s \in flusher[f].runs : s \in Commits /\ s > flusher[f].at
    BY <1>0, <2>2 DEF FlushOk, StoreInv, BatchInv
  <2>4. s > flushed /\ s \in Nat
    BY <1>0, <2>2, <2>3 DEF FlushOk, Working
  <2>5. ~(s <= flushed)
    BY <1>0, <2>4
  <2>6. ~Below(flushed)
    BY <2>3, <2>5 DEF Below
  <2> QED BY <2>1, <2>6, NothingShown
<1>5. CASE FlusherSavesThread(f) \/ FlusherSavesMessages(f)
  <2>1. committed' = committed /\ flushed' = flushed /\ (At(f, "Thread") \/ At(f, "Messages"))
    BY <1>5, Zenon DEF FlusherSavesThread, FlusherSavesMessages, OthersThanFlushers, kv
  <2>2. flusher[f].pc \in {"Thread", "Messages"} /\ flushing.token = f
    BY <1>0, <2>1, HasClaim
  <2>3. TopSeq(f) \in Commits /\ TopSeq(f) > flushed
    BY <1>0, <2>2, FreshTop
  <2>4. ~(TopSeq(f) <= flushed)
    <3>1. \A n \in Nat : n > flushed => ~(n <= flushed)
      BY <1>0
    <3> QED BY <1>0, <2>3, <3>1
  <2>5. ~Below(flushed)
    BY <2>3, <2>4, Zenon DEF Below
  <2> QED BY <2>1, <2>5, NothingShown
<1>6. CASE FlusherMarks(f)
  <2>1. /\ committed' = committed /\ inner' = inner /\ At(f, "Mark")
        /\ flushed' = Max({flushed, TopSeq(f)})
    BY <1>6, Zenon DEF FlusherMarks, OthersThanFlushers
  <2>2. flusher[f].pc = "Mark" /\ flushing.token = f
    BY <1>0, <2>1, HasClaim
  <2> DEFINE s == TopSeq(f)
  <2>3. s \in Commits /\ s \in Nat /\ s \in Seqs /\ s > flushed /\ IsTop(f, s)
    BY <1>0, <2>2, FreshTop
  <2>4. flushed' = IF flushed >= s THEN flushed ELSE s
    BY <1>0, <2>1, <2>3, MaxOfTwo
  <2>5. inner.messages = s
    BY <1>0, <2>2, <2>3 DEF FlushOk
  <2> HIDE DEF s
  <2>6. flushed' = s
    BY <1>0, <2>3, <2>4
  <2>7. ASSUME NEW t \in Commits, Below(t), t <= flushed' PROVE inner'.messages = t
    BY <1>0, <2>1, <2>3, <2>5, <2>6, <2>7 DEF Below
  <2>8. flushed <= flushed'
    BY <1>0, <2>3, <2>6
  <2> QED BY <1>0, <2>1, <2>7, <2>8, ShowsSame
<1> QED BY <1>1, <1>2, <1>3, <1>4, <1>5, <1>6, NothingShown DEF FlusherStep

\* A thread that is deleted shows nothing: all it had was in the inner store.
LEMMA DeletionShows ==
    ASSUME StoreInv, StoreInv', ViewInv, ViewInv', DeleterDeletes
    PROVE  Shown!Erase
<1>1. /\ hierarchy.token = Deleter /\ deleter.pc = "Delete"
      /\ committed' = committed /\ flushed' = flushed
  BY Zenon DEF DeleterDeletes, Current, DeleterGoto, OthersThanDeleter, kv
<1>2. inner'.messages = 0
  <2>1. inner \in InnerType /\ inner' = [inner EXCEPT !.thread = 0, !.messages = 0]
    BY DEF DeleterDeletes, StoreInv, TypeInv, StoreTypes
  <2> QED BY <2>1 DEF InnerType
<1>3. /\ meta.latest \in Nat /\ deleter.target \in Nat /\ flushed \in Nat /\ Commits \subseteq Nat
  BY Numbers
<1>4. Below(meta.latest) /\ meta.latest <= deleter.target /\ deleter.target <= flushed
  BY <1>1 DEF ViewInv, DeleteInv
<1>5. ASSUME NEW s \in Commits PROVE s <= flushed
  BY <1>3, <1>4 DEF Below
<1>6. Below(flushed)'
  BY <1>1, <1>5 DEF Below, Commits
<1>7. View' = 0
  BY <1>2, <1>6, ShowsNext DEF ViewInv
<1> QED BY <1>1, <1>7 DEF Shown!Erase

\* All else the deleter does shows nothing new: it moves the watermark when
\* all is flushed.
LEMMA DeleterShows ==
    ASSUME StoreInv, StoreInv', ViewInv, ViewInv', DeleterStep \/ DeleterCrashes, ~DeleterDeletes
    PROVE  committed' = committed /\ View' = View
<1>1. CASE DeleterStarts
  <2>1. committed' = committed /\ inner' = inner /\ flushed' = flushed
    BY <1>1 DEF DeleterStarts, Reconcile
  <2> QED BY <2>1, NothingShown
<1>2. CASE DeleterClaims
  <2>1. committed' = committed /\ inner' = inner /\ flushed' = flushed
    BY <1>2 DEF DeleterClaims, Reconcile
  <2> QED BY <2>1, NothingShown
<1>3. CASE DeleterFlushed \/ DeleterLosesClaim \/ DeleterReleases
  <2>1. committed' = committed /\ inner' = inner /\ flushed' = flushed
    BY <1>3, Zenon DEF DeleterFlushed, DeleterLosesClaim, DeleterReleases, OthersThanDeleter, kv
  <2> QED BY <2>1, NothingShown
<1>4. CASE DeleterTombstones \/ DeleterClears
  <2>1. committed' = committed /\ inner' = inner /\ flushed' = flushed
    BY <1>4 DEF DeleterTombstones, DeleterClears, OthersThanDeleter
  <2> QED BY <2>1, NothingShown
<1>5. CASE DeleterCrashes
  <2>1. committed' = committed /\ inner' = inner /\ flushed' = flushed
    BY <1>5, Zenon DEF DeleterCrashes, kv
  <2> QED BY <2>1, NothingShown
<1>6. CASE DeleterMarks
  <2>1. /\ committed' = committed /\ inner' = inner /\ flushed' = deleter.target
        /\ deleter.pc = "MarkFlushed"
    BY <1>6, Zenon DEF DeleterMarks, DeleterGoto, OthersThanDeleter
  <2>2. Below(flushed) /\ flushed <= deleter.target /\ TailInv /\ TailInv'
    BY <2>1 DEF ViewInv, DeleteInv
  <2>3. \A t \in Commits : t <= flushed /\ t \in Nat /\ flushed \in Nat
    BY <2>2, Numbers DEF Below
  <2>4. \A t \in Commits : ~(t > flushed)
    BY <2>3
  <2> QED BY <2>1, <2>2, <2>4, ShowsSame
<1> QED BY <1>1, <1>2, <1>3, <1>4, <1>5, <1>6 DEF DeleterStep

\* Reads and leases show nothing new.
LEMMA ReaderShows ==
    ASSUME StoreInv, StoreInv', ViewInv, ViewInv', ReaderStep \/ Leases \/ UNCHANGED vars
    PROVE  committed' = committed /\ View' = View
<1>1. CASE ReaderReadsMeta
  <2>1. committed' = committed /\ inner' = inner /\ flushed' = flushed
    BY <1>1 DEF ReaderReadsMeta, Reconcile, OthersThanReader
  <2> QED BY <2>1, NothingShown
<1>2. CASE ReaderReadsMark \/ ReaderReadsBody \/ ReaderMissesBody \/ ReaderRests
  <2>1. committed' = committed /\ inner' = inner /\ flushed' = flushed
    BY <1>2, Zenon DEF ReaderReadsMark, ReaderReadsBody, ReaderMissesBody, ReaderRests,
       OthersThanReader, kv
  <2> QED BY <2>1, NothingShown
<1>3. CASE Leases
  <2>1. committed' = committed /\ inner' = inner /\ flushed' = flushed
    BY <1>3, LeaseIs DEF kv
  <2> QED BY <2>1, NothingShown
<1>4. CASE UNCHANGED vars
  <2>1. committed' = committed /\ inner' = inner /\ flushed' = flushed
    BY <1>4 DEF vars
  <2> QED BY <2>1, NothingShown
<1> QED BY <1>1, <1>2, <1>3, <1>4 DEF ReaderStep

\* Every step commits, erases or shows nothing new.
LEMMA ShownStep ==
    ASSUME StoreInv, StoreInv', ViewInv, ViewInv', [Next]_vars
    PROVE  [Shown!Next]_<<committed, View>>
<1>1. CASE \E w \in Writers : Commitment(w)
  BY <1>1, CommitShows DEF Shown!Next
<1>2. CASE DeleterDeletes
  BY <1>2, DeletionShows DEF Shown!Next
<1>3. ASSUME ~(\E w \in Writers : Commitment(w)), ~DeleterDeletes
      PROVE  committed' = committed /\ View' = View
  <2>1. ASSUME NEW w \in Writers, WriterStep(w) \/ WriterTrouble(w)
        PROVE  committed' = committed /\ View' = View
    BY <1>3, <2>1, WriterShows
  <2>2. ASSUME NEW f \in Flushers, FlusherStep(f) \/ FlusherTrouble(f)
        PROVE  committed' = committed /\ View' = View
    BY <2>2, FlusherShows
  <2>3. CASE DeleterStep \/ DeleterCrashes
    BY <1>3, <2>3, DeleterShows
  <2>4. CASE ReaderStep \/ Leases \/ UNCHANGED vars
    BY <2>4, ReaderShows
  <2> QED BY <2>1, <2>2, <2>3, <2>4 DEF Next
<1> QED BY <1>1, <1>2, <1>3

\* The overlay of the log on the inner store implements the view of the thread:
\* what it shows changes when a checkpoint commits, and when the thread is deleted.
THEOREM OverlayImplementsView ==
    ASSUME DrainsInTime
    PROVE  Spec => ImplementsThreadView
<1>1. Init => Shown!Init
  <2> SUFFICES ASSUME Init PROVE Shown!Init
    OBVIOUS
  <2>1. committed = << >> /\ flushed = 0 /\ inner.messages = 0
    BY DEF Init
  <2>2. Commits = {}
    BY <2>1 DEF Commits, Range
  <2>3. View = inner.messages
    BY <2>2, StoreInit, ViewInit, Shows DEF ViewInv, Below
  <2> QED BY <2>1, <2>3 DEF Shown!Init
<1>2. /\ StoreInv /\ ViewInv /\ (StoreInv /\ ViewInv)' /\ [Next]_vars
      => [Shown!Next]_<<committed, View>>
  BY ShownStep
<1> QED BY <1>1, <1>2, ViewSafe, PTL DEF Spec, ImplementsThreadView, Shown!Spec
=============================================================================
