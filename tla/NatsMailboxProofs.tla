------------------------- MODULE NatsMailboxProofs -------------------------
(***************************************************************************)
(* Theorems about NatsMailbox, for every set of dispatches and callers,    *)
(* every lease and every bound.                                            *)
(*                                                                         *)
(* OneLiveClaim: the guard and the record of a claim are two keys, written *)
(* one after the other.  What keeps two leases apart is that every lease   *)
(* still running, on record or about to be, is covered by the guard        *)
(* (GuardCovers...), and that nobody releases or renews the guard with a   *)
(* token that is not its own any more (the other conjuncts of GuardInv).   *)
(*                                                                         *)
(* DedupeHolds: a live dispatch of the current epoch, and an enqueue past  *)
(* its lock, hold the dedupe lock (LockInv).                               *)
(***************************************************************************)
EXTENDS NatsMailbox, SequenceTheorems, TLAPS

-----------------------------------------------------------------------------
(* Types.                                                                  *)

Place == {"Idle", "Lock", "PurgeLock", "Append", "Put", "Pick", "Acquire", "ClaimCas",
          "Cas", "Supersede", "ExtendGuard", "Chore", "Load"}

OpName == Updates \cup {"none", "enqueue", "claim", "interrupt", "purge"}

Chore == {"guard", "lock", "index"}

Operation ==
    [op : OpName, pc : Place, d : Dispatches \cup {Nobody}, tok : Nat, now : Nat,
     ep : Nat, fresh : BOOLEAN, todo : SUBSET Dispatches,
     chores : Seq(Chore)]

\* Which operations have which steps.
InPlace(o) ==
    /\ o.pc = "Idle" => o.op = "none"
    /\ o.pc \in {"Lock", "PurgeLock", "Append", "Put"} => o.op = "enqueue"
    /\ o.pc \in {"Acquire", "ClaimCas"} => o.op = "claim"
    /\ o.pc = "Cas" => o.op \in Updates
    /\ o.pc = "Supersede" => o.op \in Updates \cup {"claim"}
    /\ o.pc = "ExtendGuard" => o.op = "extend"
    /\ o.pc = "Load" => o.op = "interrupt"
    /\ o.pc = "Pick" => o.op \in {"claim", "interrupt"}
    /\ o.todo # {} => o.op \in {"claim", "interrupt"}

\* An operation is at a dispatch while it works on one, its tokens, times and
\* epochs are known ones, and it has chores exactly while it does them.
Formed(o) ==
    /\ o \in Operation /\ InPlace(o)
    /\ o.tok <= lastToken /\ o.now <= clock /\ o.ep <= epoch
    /\ o.pc \notin {"Idle", "Pick", "Load"} => o.d \in Dispatches
    /\ o.pc = "Chore" <=> o.chores # << >>

\* What a fresh operation has read of its record.
Seen(o) ==
    o.fresh =>
      /\ o.pc \in {"Acquire", "ClaimCas"} => records[o.d].status = "Queued"
      /\ o.pc \in {"Cas", "ExtendGuard"} =>
            records[o.d].status = IF o.op = "cancel" THEN "Queued" ELSE "Claimed"
      /\ o.pc = "Supersede" => records[o.d].status \in {"Queued", "Claimed"}
      /\ o.op = "extend" /\ o.pc \in {"Cas", "ExtendGuard", "Supersede"} =>
            records[o.d].status = "Claimed" /\ records[o.d].tok = o.tok

Stored == [status : Status, epoch : Nat, tok : Nat, lease : Nat, attempts : 0 .. MaxAttempts]

\* A live record has an attempt left; epochs, tokens and leases are not ahead.
RecordOK(r) ==
    /\ r \in Stored
    /\ r.epoch <= epoch /\ r.tok <= lastToken /\ r.lease <= clock + Lease
    /\ r.status # "Claimed" => r.tok = 0 /\ r.lease = 0
    /\ r.status \in {"Missing", "Queued", "Claimed"} => r.attempts < MaxAttempts

LockType == [d : Dispatches \cup {Nobody}, young : BOOLEAN, slow : SUBSET Dispatches]

BootType == [pc : {"Off", "List", "Scan", "Watch"}, keys : SUBSET Dispatches,
             found : SUBSET Dispatches, seen : BOOLEAN, known : SUBSET Dispatches,
             missed : SUBSET Dispatches, count : Nat, troubles : Nat]

KeyInv ==
    /\ keyed \subseteq Dispatches
    /\ records \in [Dispatches -> Stored]
    /\ \A d \in Dispatches : RecordOK(records[d])
    /\ epoch \in 0 .. MaxEpoch /\ clock \in 1 .. MaxClock /\ lastToken \in 0 .. MaxToken
    /\ guard \in [d : Dispatches \cup {Nobody}, tok : 0 .. lastToken, lease : 0 .. clock + Lease]
    /\ lock \in LockType
    /\ index \subseteq Dispatches
    /\ pending \subseteq Dispatches \X {"live", "terminal"}
    /\ boot \in BootType

OpInv ==
    /\ ops \in [Callers -> Operation]
    /\ \A c \in Callers : Formed(ops[c]) /\ Seen(ops[c])

TypeInv == KeyInv /\ OpInv

-----------------------------------------------------------------------------
(* The guard.                                                              *)

Unlocks(o) == \E i \in DOMAIN o.chores : o.chores[i] = "lock"

Releasing(o) == \E i \in DOMAIN o.chores : o.chores[i] = "guard"

Covered(d, tok, until) == guard.d = d /\ guard.tok = tok /\ guard.lease >= until

\* The token of a claimer that has not written its record is its own.
TokenPrivate ==
    \A c \in Callers : ops[c].pc = "ClaimCas" =>
        /\ ops[c].tok # 0
        /\ \A d \in Dispatches : records[d].tok # ops[c].tok
        /\ \A x \in Callers \ {c} :
              ops[x].pc = "ClaimCas" \/ ops[x].op = "extend" \/ Releasing(ops[x])
                => ops[x].tok # ops[c].tok

\* One renewal per claim.
OneRenewal ==
    \A c, x \in Callers :
        ops[c].op = "extend" /\ ops[x].op = "extend" /\ ops[c].tok = ops[x].tok => c = x

GuardCoversRecord ==
    \A d \in Dispatches : LiveClaim(d) => Covered(d, records[d].tok, records[d].lease)

GuardCoversClaimer ==
    \A c \in Callers : ops[c].pc = "ClaimCas" /\ ops[c].now + Lease >= clock
        => Covered(ops[c].d, ops[c].tok, ops[c].now + Lease)

GuardCoversRenewal ==
    \A c \in Callers :
        /\ ops[c].op = "extend" /\ ops[c].pc = "Cas" /\ ops[c].fresh
        /\ ops[c].now + Lease >= clock
        => Covered(ops[c].d, ops[c].tok, ops[c].now + Lease)

\* Who is about to release the guard has lost the claim it was for.
ReleaseIsOwn ==
    \A c \in Callers : Releasing(ops[c]) =>
        ~(records[ops[c].d].status = "Claimed" /\ records[ops[c].d].tok = ops[c].tok)

\* A renewal does not shorten the lease on record.
RenewalIsLater ==
    \A c \in Callers :
        /\ ops[c].op = "extend"
        /\ records[ops[c].d].status = "Claimed" /\ records[ops[c].d].tok = ops[c].tok
        => records[ops[c].d].lease <= ops[c].now + Lease

GuardInv ==
    /\ TokenPrivate /\ OneRenewal /\ ReleaseIsOwn /\ RenewalIsLater
    /\ GuardCoversRecord /\ GuardCoversClaimer /\ GuardCoversRenewal

-----------------------------------------------------------------------------
(* The dedupe lock.                                                        *)

Live(d) == records[d].status \in {"Queued", "Claimed"}

\* The lock may be taken away from its holder for good.
LockLost ==
    \/ records[lock.d].status = "Missing" /\ ~lock.young
    \/ records[lock.d].status \in {"Purged"} \cup Terminal
    \/ Live(lock.d) /\ records[lock.d].epoch < epoch

\* An enqueue is the only one of its dispatch, and holds the lock once past it.
EnqueueHolds ==
    \A c \in Callers : ops[c].op = "enqueue" =>
        /\ records[ops[c].d].status = "Missing"
        /\ \A x \in Callers : ops[x].op = "enqueue" /\ ops[x].d = ops[c].d => x = c
        /\ ops[c].pc \in {"Lock", "PurgeLock"} => ops[c].d \in keyed
        /\ ops[c].pc \in {"Append", "Put"} /\ ops[c].d \in keyed =>
              (lock.d = ops[c].d /\ lock.young) \/ ops[c].d \in lock.slow

\* Who may still purge the lock has seen it lost.
PurgeIsLate ==
    \A c \in Callers : ops[c].pc = "PurgeLock" /\ ops[c].fresh =>
        lock.d # Nobody /\ (LockLost \/ lock.d \in lock.slow)

\* Who gives the lock back has a dispatch that failed or ended.
UnlockIsLate ==
    \A c \in Callers : Unlocks(ops[c]) =>
        ops[c].op = "enqueue" \/ records[ops[c].d].status \in {"Purged"} \cup Terminal

LiveIsLocked ==
    \A d \in keyed : Live(d) /\ records[d].epoch = epoch => lock.d = d \/ d \in lock.slow

LockInv ==
    /\ lock.d \in keyed \cup {Nobody}
    /\ EnqueueHolds /\ PurgeIsLate /\ UnlockIsLate /\ LiveIsLocked

-----------------------------------------------------------------------------
(* The operators the steps are built from.                                 *)

\* Somebody else's write leaves an operation as it was, at most less fresh.
Kept(o, n) ==
    /\ n.op = o.op /\ n.pc = o.pc /\ n.d = o.d /\ n.tok = o.tok /\ n.now = o.now
    /\ n.ep = o.ep /\ n.todo = o.todo /\ n.chores = o.chores
    /\ n.fresh => o.fresh

\* A write to record d leaves the other operations as they were, except that
\* those which had read d have lost their compare-and-set.
LEMMA WrittenFacts ==
    ASSUME ops \in [Callers -> Operation], NEW c \in Callers, NEW d, NEW o \in Operation
    PROVE  /\ Written(c, d, o) \in [Callers -> Operation]
           /\ Written(c, d, o)[c] = o
           /\ \A x \in Callers \ {c} :
                 /\ Kept(ops[x], Written(c, d, o)[x])
                 /\ Written(c, d, o)[x].fresh => ops[x].d # d \/ ops[x].pc = "PurgeLock"
BY DEF Written, Kept, Operation

\* The same for a write to the lock.
LEMMA RelockedFacts ==
    ASSUME ops \in [Callers -> Operation], NEW c \in Callers, NEW o \in Operation
    PROVE  /\ Relocked(c, o) \in [Callers -> Operation]
           /\ Relocked(c, o)[c] = o
           /\ \A x \in Callers \ {c} :
                 /\ Kept(ops[x], Relocked(c, o)[x])
                 /\ Relocked(c, o)[x].fresh => ops[x].pc # "PurgeLock"
BY DEF Relocked, Kept, Operation

\* A step of one caller leaves the operations of the others alone.
LEMMA OwnStep ==
    ASSUME ops \in [Callers -> Operation], NEW c \in Callers, NEW o \in Operation
    PROVE  /\ [ops EXCEPT ![c] = o] \in [Callers -> Operation]
           /\ [ops EXCEPT ![c] = o][c] = o
           /\ \A x \in Callers \ {c} :
                 [ops EXCEPT ![c] = o][x] = ops[x] /\ Kept(ops[x], [ops EXCEPT ![c] = o][x])
BY DEF Kept, Operation

\* An idle caller is on nothing.
LEMMA IdleFacts ==
    /\ Idle \in Operation
    /\ Idle.op = "none" /\ Idle.pc = "Idle" /\ Idle.d = Nobody /\ Idle.tok = 0 /\ Idle.now = 0
    /\ Idle.ep = 0 /\ Idle.fresh = FALSE /\ Idle.todo = {} /\ Idle.chores = << >>
BY DEF Idle, Operation, OpName, Place

\* What an operation that is through with one dispatch becomes.
LEMMA ContinueFacts ==
    ASSUME NEW o \in Operation
    PROVE  /\ Continue(o) \in Operation
           /\ Continue(o).fresh = FALSE
           /\ o.chores # << >> =>
                /\ Continue(o).pc = "Chore" /\ Continue(o).op = o.op /\ Continue(o).d = o.d
                /\ Continue(o).tok = o.tok /\ Continue(o).now = o.now /\ Continue(o).ep = o.ep
                /\ Continue(o).todo = o.todo /\ Continue(o).chores = o.chores
           /\ o.chores = << >> /\ o.todo # {} =>
                /\ Continue(o).pc = "Pick" /\ Continue(o).op = o.op /\ Continue(o).d = Nobody
                /\ Continue(o).tok = o.tok /\ Continue(o).now = o.now /\ Continue(o).ep = o.ep
                /\ Continue(o).chores = << >>
           /\ o.chores = << >> /\ o.todo = {} => Continue(o) = Idle
BY IdleFacts DEF Continue, Operation, Place, OpName

\* What a read of the record makes of an update.
LEMMA ReadingFacts ==
    ASSUME NEW o \in Operation, epoch \in Nat, o.op \in Updates
    PROVE  /\ Reading(o) \in Operation
           /\ \/ Reading(o) = Idle
              \/ /\ Reading(o).op = o.op /\ Reading(o).d = o.d /\ Reading(o).tok = o.tok
                 /\ Reading(o).now = o.now /\ Reading(o).todo = o.todo
                 /\ Reading(o).chores = o.chores /\ Reading(o).ep \in {0, epoch}
                 /\ Reading(o).fresh = TRUE
                 /\ Reading(o).pc \in {"Cas", "Supersede", "ExtendGuard"}
                 /\ Reading(o).pc = "ExtendGuard" <=> o.op = "extend" /\ Reading(o).pc # "Supersede"
                 /\ Reading(o).pc = "Cas" =>
                      records[o.d].status = IF o.op = "cancel" THEN "Queued" ELSE "Claimed"
                 /\ Reading(o).pc \in {"Supersede", "ExtendGuard"} => records[o.d].status = "Claimed"
                 /\ o.op = "extend" => records[o.d].tok = o.tok /\ records[o.d].status = "Claimed"
<1> DEFINE r == records[o.d]
           mine == r.status = "Claimed" /\ r.tok = o.tok
           stale == r.status = "Claimed" /\ r.epoch < epoch
           n(p) == [o EXCEPT !.pc = p, !.fresh = TRUE, !.ep = IF p = "Supersede" THEN epoch ELSE 0]
<1>0. \A p \in {"Cas", "Supersede", "ExtendGuard"} :
         /\ n(p) \in Operation
         /\ n(p).op = o.op /\ n(p).d = o.d /\ n(p).tok = o.tok /\ n(p).now = o.now
         /\ n(p).todo = o.todo /\ n(p).chores = o.chores /\ n(p).ep \in {0, epoch}
         /\ n(p).fresh = TRUE /\ n(p).pc = p
  <2> TAKE p \in {"Cas", "Supersede", "ExtendGuard"}
  <2>1. CASE p = "Supersede" BY <2>1 DEF Operation, Place
  <2>2. CASE p # "Supersede" BY <2>2 DEF Operation, Place
  <2> QED BY <2>1, <2>2
<1>1. CASE o.op \in {"ack", "nack", "dead_letter", "record"}
  <2>1. Reading(o) = IF stale THEN n("Supersede") ELSE IF mine THEN n("Cas") ELSE Idle
    BY <1>1 DEF Reading
  <2> HIDE DEF n
  <2> QED BY <2>1, <1>1, <1>0, IdleFacts
<1>2. CASE o.op = "extend"
  <2>1. Reading(o) = IF ~mine THEN Idle ELSE IF stale THEN n("Supersede") ELSE n("ExtendGuard")
    BY <1>2 DEF Reading
  <2> HIDE DEF n
  <2> QED BY <2>1, <1>2, <1>0, IdleFacts
<1>3. CASE o.op = "supersede"
  <2>1. Reading(o) = IF mine THEN n("Supersede") ELSE Idle
    BY <1>3 DEF Reading
  <2> HIDE DEF n
  <2> QED BY <2>1, <1>3, <1>0, IdleFacts
<1>4. CASE o.op = "cancel"
  <2>1. Reading(o) = IF r.status = "Queued" THEN n("Cas") ELSE Idle
    BY <1>4 DEF Reading
  <2> HIDE DEF n
  <2> QED BY <2>1, <1>4, <1>0, IdleFacts
<1>5. CASE o.op = "reclaim"
  <2>1. Reading(o) = IF ~(r.status = "Claimed" /\ r.lease < o.now) THEN Idle
                     ELSE IF stale THEN n("Supersede") ELSE n("Cas")
    BY <1>5 DEF Reading
  <2> HIDE DEF n
  <2> QED BY <2>1, <1>5, <1>0, IdleFacts
<1> QED BY <1>1, <1>2, <1>3, <1>4, <1>5 DEF Updates

-----------------------------------------------------------------------------
(* The types are inductive.                                                *)

\* A step of caller c keeps all operations well formed if it keeps its own so
\* and spoils the freshness of those whose record it writes.
LEMMA OperationsStep ==
    ASSUME TypeInv, NEW c \in Callers, ops' \in [Callers -> Operation],
           lastToken' \in Nat, clock' \in Nat, epoch' \in Nat,
           lastToken <= lastToken', clock <= clock', epoch <= epoch',
           Formed(ops[c])', Seen(ops[c])',
           \A x \in Callers \ {c} :
              /\ Kept(ops[x], ops'[x])
              /\ ops'[x].fresh /\ ops[x].pc # "PurgeLock" /\ ops[x].d \in Dispatches
                   => records'[ops[x].d] = records[ops[x].d]
    PROVE  OpInv'
<1> SUFFICES ASSUME NEW x \in Callers \ {c} PROVE Formed(ops[x])' /\ Seen(ops[x])'
  BY DEF OpInv
<1>1. Formed(ops[x]) /\ Seen(ops[x]) /\ ops[x] \in Operation /\ ops'[x] \in Operation
  BY DEF TypeInv, OpInv
<1>2. lastToken \in Nat /\ clock \in Nat /\ epoch \in Nat
  BY NatsConstants DEF TypeInv, KeyInv
<1>3. Kept(ops[x], ops'[x])
  OBVIOUS
<1>4. Formed(ops[x])'
  <2>1. InPlace(ops[x])'
    BY <1>1, <1>3 DEF Formed, InPlace, Kept
  <2>2. ops'[x].tok <= lastToken' /\ ops'[x].now <= clock' /\ ops'[x].ep <= epoch'
    BY <1>1, <1>2, <1>3 DEF Formed, Kept, Operation
  <2>3. /\ ops'[x].pc \notin {"Idle", "Pick", "Load"} => ops'[x].d \in Dispatches
        /\ ops'[x].pc = "Chore" <=> ops'[x].chores # << >>
    BY <1>1, <1>3 DEF Formed, Kept
  <2> QED BY <1>1, <2>1, <2>2, <2>3 DEF Formed
<1>5. Seen(ops[x])'
  <2>1. ops'[x].pc # "PurgeLock" /\ ops'[x].pc \in {"Acquire", "ClaimCas", "Cas", "ExtendGuard", "Supersede"}
            /\ ops'[x].fresh
        => ops'[x].d \in Dispatches /\ records'[ops'[x].d] = records[ops[x].d] /\ ops[x].fresh
    BY <1>1, <1>3 DEF Formed, Kept
  <2> QED BY <1>1, <1>3, <2>1 DEF Seen, Kept
<1> QED BY <1>4, <1>5

\* Nothing but operations and the index, the lock or a marker changes.
LEMMA KeysStep ==
    ASSUME KeyInv, keyed' = keyed, records' = records, epoch' = epoch, clock' = clock,
           lastToken' = lastToken, guard' = guard, index' \subseteq Dispatches,
           lock' \in LockType,
           pending' \subseteq Dispatches \X {"live", "terminal"}, boot' = boot
    PROVE  KeyInv'
BY DEF KeyInv, RecordOK

\* One record is written.
LEMMA RecordStep ==
    ASSUME KeyInv, keyed' = keyed, epoch' = epoch, clock' = clock, lastToken' = lastToken,
           guard' = guard, index' = index, lock' = lock, boot' = boot,
           NEW d \in Dispatches, NEW r, RecordOK(r), records' = [records EXCEPT ![d] = r],
           pending' = Noted(d, r.status)
    PROVE  KeyInv'
<1>1. pending' \subseteq Dispatches \X {"live", "terminal"}
  <2>1. <<d, "live">> \in Dispatches \X {"live", "terminal"} /\ <<d, "terminal">> \in Dispatches \X {"live", "terminal"}
    OBVIOUS
  <2> QED BY <2>1 DEF KeyInv, Noted
<1>2. /\ records' \in [Dispatches -> Stored]
      /\ \A e \in Dispatches : RecordOK(records[e])'
  BY DEF KeyInv, RecordOK
<1> QED BY <1>1, <1>2 DEF KeyInv

\* Where the other operations stand after a step of caller c.
OthersKept(c) == \A x \in Callers \ {c} : Kept(ops[x], ops'[x])

\* An operation gets no guard to release and no lease to renew it did not have.
Tame(o, n) ==
    /\ n.pc # "ClaimCas"
    /\ Releasing(n) => Releasing(o) /\ n.d = o.d /\ n.tok = o.tok
    /\ n.op = "extend" =>
         /\ o.op = "extend" /\ n.d = o.d /\ n.tok = o.tok /\ n.now = o.now
         /\ n.pc = "Cas" /\ n.fresh => o.pc = "Cas" /\ o.fresh

\* Lists of chores.
LEMMA ChoreLists ==
    /\ << >> \in Seq(Chore) /\ <<"guard">> \in Seq(Chore) /\ <<"index">> \in Seq(Chore)
    /\ \A d : /\ Unlocking(d) \in Seq(Chore)
              /\ <<"index">> \o Unlocking(d) \in Seq(Chore)
              /\ <<"index">> \o Unlocking(d) # << >>
    /\ \A d, old, new : Chores(d, old, new) \in Seq(Chore)
    /\ \A s \in Seq(Chore) : s # << >> => Head(s) \in Chore /\ Tail(s) \in Seq(Chore)
<1>1. /\ << >> \in Seq(Chore) /\ <<"guard">> \in Seq(Chore) /\ <<"index">> \in Seq(Chore)
      /\ <<"lock">> \in Seq(Chore)
  BY DEF Chore
<1>2. \A d : Unlocking(d) \in Seq(Chore)
  BY <1>1 DEF Unlocking
<1>3. \A d : <<"index">> \o Unlocking(d) \in Seq(Chore) /\ <<"index">> \o Unlocking(d) # << >>
  BY <1>1, <1>2
<1>4. \A d, old, new : Chores(d, old, new) \in Seq(Chore)
  BY <1>1, <1>2 DEF Chores
<1>5. \A s \in Seq(Chore) : s # << >> => Head(s) \in Chore /\ Tail(s) \in Seq(Chore)
  OBVIOUS
<1> QED BY <1>1, <1>2, <1>3, <1>4, <1>5

\* What is written to the lock.
LEMMA LockValues == Unlocked \in LockType
BY DEF Unlocked, LockType

\* The lock without a holder.
LEMMA FreedLock ==
    ASSUME lock \in LockType
    PROVE  Freed \in LockType /\ Freed.d = Nobody /\ Freed.slow = lock.slow
BY DEF Freed, LockType

\* What the type invariant says about one caller and the keys.
LEMMA TypeFacts ==
    ASSUME TypeInv, NEW c \in Callers
    PROVE  /\ ops \in [Callers -> Operation] /\ ops[c] \in Operation
           /\ Formed(ops[c]) /\ InPlace(ops[c]) /\ Seen(ops[c])
           /\ lastToken \in Nat /\ clock \in Nat /\ epoch \in Nat /\ keyed \subseteq Dispatches
           /\ lock \in LockType
           /\ index \subseteq Dispatches
BY NatsConstants DEF TypeInv, KeyInv, OpInv, Formed

\* Who becomes idle is well formed, and so is who goes on to its chores or to
\* its next dispatch.
LEMMA ContinueFormed ==
    ASSUME TypeInv, NEW o \in Operation, o.tok <= lastToken, o.now <= clock, o.ep <= epoch,
           o.chores # << >> => o.d \in Dispatches,
           o.todo # {} => o.op \in {"claim", "interrupt"}
    PROVE  Formed(Continue(o)) /\ Seen(Continue(o))
<1>1. lastToken \in Nat /\ clock \in Nat /\ epoch \in Nat
  BY NatsConstants DEF TypeInv, KeyInv
<1>2. Formed(Idle) /\ Seen(Idle)
  BY <1>1, IdleFacts DEF Formed, InPlace, Seen
<1>3. CASE o.chores # << >>
  BY <1>3, ContinueFacts DEF Formed, InPlace, Seen
<1>4. CASE o.chores = << >> /\ o.todo # {}
  <2>1. InPlace(Continue(o))
    BY <1>4, ContinueFacts DEF InPlace
  <2> QED BY <1>4, <2>1, ContinueFacts DEF Formed, Seen
<1>5. CASE o.chores = << >> /\ o.todo = {}
  BY <1>5, <1>2, ContinueFacts
<1> QED BY <1>3, <1>4, <1>5

\* An update that has read its record is well formed.
LEMMA ReadingFormed ==
    ASSUME TypeInv, NEW o \in Operation, o.op \in Updates, o.d \in Dispatches,
           o.tok <= lastToken, o.now <= clock, o.todo = {}, o.chores = << >>
    PROVE  Formed(Reading(o)) /\ Seen(Reading(o))
<1>1. lastToken \in Nat /\ clock \in Nat /\ epoch \in Nat
  BY NatsConstants DEF TypeInv, KeyInv
<1>2. Formed(Idle) /\ Seen(Idle)
  BY <1>1, IdleFacts DEF Formed, InPlace, Seen
<1>3. CASE Reading(o) # Idle
  <2>1. InPlace(Reading(o))
    BY <1>1, <1>3, ReadingFacts DEF InPlace
  <2>2. /\ Reading(o).tok <= lastToken /\ Reading(o).now <= clock /\ Reading(o).d \in Dispatches
        /\ Reading(o) \in Operation /\ Reading(o).pc # "Chore" /\ Reading(o).chores = << >>
    BY <1>1, <1>3, ReadingFacts
  <2>4. Reading(o).ep <= epoch
    <3>1. Reading(o).ep \in {0, epoch}
      BY <1>1, <1>3, ReadingFacts
    <3> QED BY <1>1, <3>1
  <2>5. Formed(Reading(o))
    BY <2>1, <2>2, <2>4 DEF Formed
  <2>3. Seen(Reading(o))
    BY <1>1, <1>3, ReadingFacts DEF Seen
  <2> QED BY <2>3, <2>5
<1> QED BY <1>2, <1>3

\* A step that makes an operation n of caller c and writes no record, guard or
\* epoch.
LEMMA QuietTypes ==
    ASSUME TypeInv, NEW c \in Callers, NEW n, Formed(n), Seen(n),
           ops' = [ops EXCEPT ![c] = n] \/ ops' = Relocked(c, n),
           UNCHANGED <<keyed, records, epoch, guard, clock, lastToken, boot, pending>>,
           index' \subseteq Dispatches, lock' \in LockType
    PROVE  TypeInv' /\ OthersKept(c) /\ ops'[c] = n
<1>0. n \in Operation BY DEF Formed
<1>1. ops' \in [Callers -> Operation] /\ OthersKept(c) /\ ops'[c] = n
  <2>1. ops \in [Callers -> Operation]
    BY TypeFacts
  <2>2. CASE ops' = [ops EXCEPT ![c] = n]
    BY <1>0, <2>1, <2>2, OwnStep DEF OthersKept
  <2>3. CASE ops' = Relocked(c, n)
    BY <1>0, <2>1, <2>3, RelockedFacts DEF OthersKept
  <2> QED BY <2>2, <2>3
<1>2. Formed(ops[c])' /\ Seen(ops[c])'
  BY <1>1 DEF Formed, InPlace, Seen
<1>3. KeyInv' BY KeysStep DEF TypeInv, KeyInv
<1>4. OpInv' BY <1>1, <1>2, OperationsStep, TypeFacts DEF OthersKept
<1> QED BY <1>1, <1>3, <1>4 DEF TypeInv

\* The enqueue of a dispatch, up to its record.
LEMMA EnqueueTypes ==
    ASSUME TypeInv, NEW c \in Callers,
           \/ StartEnqueue(c) \/ TakeLock(c) \/ PurgeLock(c) \/ AppendIndex(c) \/ EnqueueFails(c)
    PROVE  TypeInv' /\ OthersKept(c) /\ Tame(ops[c], ops'[c])
<1>0. /\ ops \in [Callers -> Operation] /\ ops[c] \in Operation
      /\ Formed(ops[c]) /\ InPlace(ops[c]) /\ Seen(ops[c])
      /\ lastToken \in Nat /\ clock \in Nat /\ epoch \in Nat /\ keyed \subseteq Dispatches
      /\ lock \in LockType
      /\ index \subseteq Dispatches
  BY TypeFacts
<1> DEFINE Enq(n) == Formed(n) /\ Seen(n) /\ Tame(ops[c], n)
<1>1. CASE StartEnqueue(c)
  <2>1. PICK d \in Dispatches :
          ops' = [ops EXCEPT ![c] = [Idle EXCEPT !.op = "enqueue", !.d = d, !.ep = epoch,
                                          !.pc = IF d \in keyed THEN "Lock" ELSE "Append"]]
    BY <1>1 DEF StartEnqueue
  <2> DEFINE p == IF d \in keyed THEN "Lock" ELSE "Append"
             n == [Idle EXCEPT !.op = "enqueue", !.d = d, !.ep = epoch, !.pc = p]
  <2>2. ops' = [ops EXCEPT ![c] = n] /\ p \in {"Lock", "Append"}
    BY <2>1
  <2> HIDE DEF p
  <2>3. /\ n \in Operation /\ n.op = "enqueue" /\ n.d = d /\ n.ep = epoch /\ n.tok = 0 /\ n.now = 0
        /\ n.pc \in {"Lock", "Append"} /\ n.fresh = FALSE /\ n.todo = {} /\ n.chores = << >>
    BY <1>0, <2>2, IdleFacts DEF Operation, OpName, Place
  <2> HIDE DEF n
  <2>4. Enq(n)
    BY <1>0, <2>3 DEF Formed, InPlace, Seen, Tame, Releasing
  <2> QED BY <1>0, <1>1, <2>2, <2>4, QuietTypes DEF StartEnqueue, kv
<1>2. CASE TakeLock(c)
  <2> DEFINE a == [ops[c] EXCEPT !.pc = "Append"]
             q == [ops[c] EXCEPT !.pc = "PurgeLock", !.fresh = TRUE]
  <2>1. At(c, "Lock")
    BY <1>2 DEF TakeLock
  <2>2. /\ a \in Operation /\ a.op = "enqueue" /\ a.d = ops[c].d /\ a.ep = ops[c].ep /\ a.tok = ops[c].tok
        /\ a.now = ops[c].now /\ a.pc = "Append" /\ a.todo = ops[c].todo /\ a.chores = << >>
        /\ q \in Operation /\ q.op = "enqueue" /\ q.d = ops[c].d /\ q.ep = ops[c].ep /\ q.tok = ops[c].tok
        /\ q.now = ops[c].now /\ q.pc = "PurgeLock" /\ q.todo = ops[c].todo /\ q.chores = << >>
    BY <1>0, <2>1 DEF Operation, OpName, Place, Formed, InPlace, At
  <2> HIDE DEF a, q
  <2>3. Enq(a) /\ Enq(q) /\ Enq(Idle)
    BY <1>0, <2>1, <2>2, IdleFacts DEF Formed, InPlace, Seen, Tame, Releasing, At
  <2>4. \/ /\ lock' = [lock EXCEPT !.d = ops[c].d, !.young = TRUE]
           /\ ops' = Relocked(c, a)
        \/ /\ lock' = lock
           /\ ops' = [ops EXCEPT ![c] = q] \/ ops' = [ops EXCEPT ![c] = Idle]
    BY <1>2 DEF TakeLock, a, q
  <2>5. UNCHANGED <<keyed, records, epoch, guard, index, clock, lastToken, boot, pending>>
    BY <1>2 DEF TakeLock
  <2>6. lock' \in LockType
    <3>1. ops[c].d \in Dispatches \cup {Nobody}
      BY <1>0 DEF Operation
    <3> QED BY <1>0, <2>4, <3>1 DEF LockType
  <2> QED BY <1>0, <2>3, <2>4, <2>5, <2>6, QuietTypes
<1>3. CASE PurgeLock(c)
  <2> DEFINE a == [ops[c] EXCEPT !.pc = "Lock", !.fresh = FALSE]
             q == [ops[c] EXCEPT !.pc = "Lock"]
  <2>1. At(c, "PurgeLock")
    BY <1>3 DEF PurgeLock
  <2>2. /\ a \in Operation /\ a.op = "enqueue" /\ a.d = ops[c].d /\ a.ep = ops[c].ep /\ a.tok = ops[c].tok
        /\ a.now = ops[c].now /\ a.pc = "Lock" /\ a.todo = ops[c].todo /\ a.chores = << >>
        /\ q \in Operation /\ q.op = "enqueue" /\ q.d = ops[c].d /\ q.ep = ops[c].ep /\ q.tok = ops[c].tok
        /\ q.now = ops[c].now /\ q.pc = "Lock" /\ q.todo = ops[c].todo /\ q.chores = << >>
    BY <1>0, <2>1 DEF Operation, OpName, Place, Formed, InPlace, At
  <2> HIDE DEF a, q
  <2>3. Enq(a) /\ Enq(q) /\ Enq(Idle)
    BY <1>0, <2>1, <2>2, IdleFacts DEF Formed, InPlace, Seen, Tame, Releasing, At
  <2>4. \/ lock' = Freed /\ ops' = Relocked(c, a)
        \/ /\ lock' = lock
           /\ ops' = [ops EXCEPT ![c] = q] \/ ops' = [ops EXCEPT ![c] = Idle]
    BY <1>3 DEF PurgeLock, a, q
  <2>5. UNCHANGED <<keyed, records, epoch, guard, index, clock, lastToken, boot, pending>>
    BY <1>3 DEF PurgeLock
  <2>6. lock' \in LockType
    BY <1>0, <2>4, FreedLock
  <2> QED BY <1>0, <2>3, <2>4, <2>5, <2>6, QuietTypes
<1>4. CASE AppendIndex(c)
  <2> DEFINE a == [ops[c] EXCEPT !.pc = "Put"]
  <2>1. At(c, "Append") /\ ops' = [ops EXCEPT ![c] = a]
    BY <1>4 DEF AppendIndex
  <2>2. /\ a \in Operation /\ a.op = "enqueue" /\ a.d = ops[c].d /\ a.ep = ops[c].ep /\ a.tok = ops[c].tok
        /\ a.now = ops[c].now /\ a.pc = "Put" /\ a.todo = ops[c].todo /\ a.chores = << >>
    BY <1>0, <2>1 DEF Operation, OpName, Place, Formed, InPlace, At
  <2> HIDE DEF a
  <2>3. Enq(a)
    BY <1>0, <2>1, <2>2 DEF Formed, InPlace, Seen, Tame, Releasing, At
  <2>4. index' \subseteq Dispatches
    BY <1>0, <1>4 DEF AppendIndex, At, Formed
  <2> QED BY <1>0, <1>4, <2>1, <2>3, <2>4, QuietTypes DEF AppendIndex
<1>5. CASE EnqueueFails(c)
  <2> DEFINE a == [ops[c] EXCEPT !.chores = Unlocking(ops[c].d)]
  <2>1. ops[c].pc \in {"Append", "Put"} /\ ops' = [ops EXCEPT ![c] = Continue(a)]
    BY <1>5 DEF EnqueueFails
  <2>2. /\ a \in Operation /\ a.op = "enqueue" /\ a.d = ops[c].d /\ a.ep = ops[c].ep /\ a.tok = ops[c].tok
        /\ a.now = ops[c].now /\ a.todo = ops[c].todo /\ a.chores = Unlocking(ops[c].d)
    BY <1>0, <2>1, ChoreLists DEF Operation, OpName, Place, Formed, InPlace
  <2> HIDE DEF a
  <2>3. Formed(Continue(a)) /\ Seen(Continue(a))
    BY <1>0, <2>1, <2>2, ContinueFormed DEF Formed, InPlace
  <2>4. ~Releasing(Continue(a))
    <3>1. Continue(a).chores \in {<< >>, <<"lock">>}
      BY <2>2, ContinueFacts, IdleFacts DEF Unlocking
    <3> QED BY <3>1 DEF Releasing
  <2>5. Tame(ops[c], Continue(a))
    <3>1. Continue(a).op # "extend" /\ Continue(a).pc # "ClaimCas"
      BY <2>2, ContinueFacts, IdleFacts
    <3> QED BY <2>4, <3>1 DEF Tame
  <2> QED BY <1>0, <1>5, <2>1, <2>3, <2>5, QuietTypes DEF EnqueueFails, kv
<1> QED BY <1>1, <1>2, <1>3, <1>4, <1>5

\* A step that writes record r and makes an operation n of caller c.
LEMMA WriteTypes ==
    ASSUME TypeInv, NEW c \in Callers, NEW d \in Dispatches, NEW r, RecordOK(r),
           NEW n, Formed(n), ~n.fresh, Write(c, d, r, n),
           UNCHANGED <<keyed, epoch, guard, lock, index, clock, lastToken, boot>>
    PROVE  /\ TypeInv' /\ OthersKept(c) /\ ops'[c] = n
           /\ records'[d] = r /\ \A e \in Dispatches \ {d} : records'[e] = records[e]
<1>0. n \in Operation BY DEF Formed
<1>1. /\ ops' = Written(c, d, n) /\ records' = [records EXCEPT ![d] = r]
      /\ pending' = Noted(d, r.status)
  BY DEF Write
<1>2. ops \in [Callers -> Operation]
  BY TypeFacts
<1>3. ops' \in [Callers -> Operation] /\ OthersKept(c) /\ ops'[c] = n
  BY <1>0, <1>1, <1>2, WrittenFacts DEF OthersKept
<1>4. records'[d] = r /\ \A e \in Dispatches \ {d} : records'[e] = records[e]
  BY <1>1 DEF TypeInv, KeyInv
<1>5. Formed(ops[c])' /\ Seen(ops[c])'
  BY <1>3 DEF Formed, InPlace, Seen
<1>6. KeyInv'
  BY <1>1, RecordStep DEF TypeInv
<1>7. \A x \in Callers \ {c} : ops'[x].fresh /\ ops[x].pc # "PurgeLock" /\ ops[x].d \in Dispatches
         => records'[ops[x].d] = records[ops[x].d]
  BY <1>0, <1>1, <1>2, <1>4, WrittenFacts
<1>8. OpInv'
  BY <1>3, <1>5, <1>7, OperationsStep, TypeFacts DEF OthersKept
<1> QED BY <1>3, <1>4, <1>6, <1>8 DEF TypeInv

Fields(n, status, e, tok, lease, attempts) ==
    /\ n \in Stored /\ n.status = status /\ n.epoch = e /\ n.tok = tok /\ n.lease = lease
    /\ n.attempts = attempts

\* What the records the operations write consist of.
LEMMA QueuedFields ==
    ASSUME NEW e \in Nat
    PROVE  Fields(Queued(e), "Queued", e, 0, 0, 0)
<1>1. Missing \in Stored /\ Missing.tok = 0 /\ Missing.lease = 0 /\ Missing.attempts = 0
  BY NatsConstants DEF Stored, Missing, Status
<1> QED BY <1>1 DEF Stored, Queued, Status, Fields

\* A claim.
LEMMA ClaimedFields ==
    ASSUME NEW r \in Stored, NEW tok \in Nat, NEW until \in Nat
    PROVE  Fields(Claimed(r, tok, until), "Claimed", r.epoch, tok, until, r.attempts)
BY DEF Stored, Claimed, Status, Fields

\* An ended dispatch.
LEMMA EndedFields ==
    ASSUME NEW r \in Stored, NEW status \in Status
    PROVE  Fields(Ended(r, status), status, r.epoch, 0, 0, r.attempts)
BY DEF Stored, Ended, Fields

\* One that an interrupt has overtaken.
LEMMA SupersededFields ==
    ASSUME NEW r \in Stored, NEW e \in Nat
    PROVE  Fields(SupersededAt(r, e), "Superseded", e, 0, 0, r.attempts)
<1>1. "Superseded" \in Status
  BY DEF Status, Terminal
<1>2. Fields(Ended(r, "Superseded"), "Superseded", r.epoch, 0, 0, r.attempts)
  BY <1>1, EndedFields
<1> QED BY <1>2 DEF Stored, SupersededAt, Fields

\* A purged one.
LEMMA PurgedFields ==
    Fields([Missing EXCEPT !.status = "Purged"], "Purged", 0, 0, 0, 0)
BY NatsConstants DEF Stored, Missing, Status, Fields

\* A renewed claim.
LEMMA RenewedFields ==
    ASSUME NEW r \in Stored, NEW until \in Nat
    PROVE  Fields([r EXCEPT !.lease = until], r.status, r.epoch, r.tok, until, r.attempts)
BY DEF Stored, Fields

\* What a failed attempt leaves of a record.
LEMMA RequeuedFields ==
    ASSUME NEW r \in Stored, r.attempts < MaxAttempts
    PROVE  Fields(Requeued(r), IF r.attempts + 1 >= MaxAttempts THEN "DeadLetter" ELSE "Queued",
                  r.epoch, 0, 0, r.attempts + 1)
<1> DEFINE s == IF r.attempts + 1 >= MaxAttempts THEN "DeadLetter" ELSE "Queued"
           e == Ended(r, s)
<1>1. s \in Status
  BY DEF Status, Terminal
<1> HIDE DEF s
<1>2. Fields(e, s, r.epoch, 0, 0, r.attempts)
  BY <1>1, EndedFields
<1>3. Requeued(r) = [e EXCEPT !.attempts = @ + 1]
  BY DEF Requeued, s
<1> HIDE DEF e
<1>4. Fields([e EXCEPT !.attempts = @ + 1], s, r.epoch, 0, 0, r.attempts + 1)
  BY <1>2, NatsConstants DEF Stored, Fields
<1> QED BY <1>3, <1>4 DEF s

\* They are in order.
LEMMA FieldsOK ==
    ASSUME NEW n, NEW s, NEW e \in Nat, NEW t \in Nat, NEW l \in Nat, NEW a \in Nat,
           Fields(n, s, e, t, l, a), e <= epoch, t <= lastToken, l <= clock + Lease,
           s # "Claimed" => t = 0 /\ l = 0,
           s \in {"Missing", "Queued", "Claimed"} => a < MaxAttempts
    PROVE  RecordOK(n)
BY DEF Fields, RecordOK

\* What the type invariant says about one record.
LEMMA RecordFacts ==
    ASSUME TypeInv, NEW d \in Dispatches
    PROVE  /\ records[d] \in Stored /\ RecordOK(records[d])
           /\ records[d].status \in Status /\ records[d].epoch \in Nat /\ records[d].tok \in Nat
           /\ records[d].lease \in Nat /\ records[d].attempts \in Nat
           /\ epoch \in Nat /\ clock \in Nat /\ lastToken \in Nat /\ Lease \in Nat
           /\ MaxAttempts \in Nat
           /\ records[d].epoch <= epoch /\ records[d].tok <= lastToken
           /\ records[d].lease <= clock + Lease
           /\ records[d].status # "Claimed" => records[d].tok = 0 /\ records[d].lease = 0
           /\ records[d].status \in {"Missing", "Queued", "Claimed"} => records[d].attempts < MaxAttempts
BY NatsConstants DEF TypeInv, KeyInv, RecordOK, Stored

\* A claim up to the guard.
LEMMA ClaimTypes ==
    ASSUME TypeInv, NEW c \in Callers,
           StartClaim(c) \/ StartClaimDispatch(c) \/ PickClaim(c)
    PROVE  /\ TypeInv' /\ OthersKept(c) /\ Tame(ops[c], ops'[c])
           /\ ops'[c].op # "enqueue" /\ ops'[c].chores = << >>
<1>0. /\ ops \in [Callers -> Operation] /\ ops[c] \in Operation
      /\ Formed(ops[c]) /\ InPlace(ops[c]) /\ Seen(ops[c])
      /\ lastToken \in Nat /\ clock \in Nat /\ epoch \in Nat /\ keyed \subseteq Dispatches
      /\ lock \in LockType
      /\ index \subseteq Dispatches
  BY TypeFacts
<1> DEFINE Fine(n) == /\ Formed(n) /\ Seen(n) /\ Tame(ops[c], n)
                      /\ n.op # "enqueue" /\ n.chores = << >>
<1>1. ASSUME NEW S \in SUBSET Dispatches, S # {},
             ops' = [ops EXCEPT ![c] = [Idle EXCEPT !.op = "claim", !.pc = "Pick", !.now = clock, !.todo = S]],
             UNCHANGED <<kv, clock, lastToken, boot, pending>>
      PROVE  /\ TypeInv' /\ OthersKept(c) /\ Tame(ops[c], ops'[c])
           /\ ops'[c].op # "enqueue" /\ ops'[c].chores = << >>
  <2> DEFINE n == [Idle EXCEPT !.op = "claim", !.pc = "Pick", !.now = clock, !.todo = S]
  <2>1. /\ n \in Operation /\ n.op = "claim" /\ n.pc = "Pick" /\ n.now = clock /\ n.tok = 0 /\ n.ep = 0
        /\ n.fresh = FALSE /\ n.todo = S /\ n.chores = << >>
    BY <1>0, IdleFacts DEF Operation, OpName, Place
  <2>2. ops' = [ops EXCEPT ![c] = n]
    BY <1>1
  <2> HIDE DEF n
  <2>3. Fine(n)
    BY <1>0, <2>1 DEF Formed, InPlace, Seen, Tame, Releasing
  <2> QED BY <1>0, <1>1, <2>2, <2>3, QuietTypes DEF kv
<1>2. CASE StartClaim(c)
  BY <1>0, <1>1, <1>2 DEF StartClaim
<1>3. CASE StartClaimDispatch(c)
  <2>1. PICK d \in Dispatches :
          ops' = [ops EXCEPT ![c] = [Idle EXCEPT !.op = "claim", !.pc = "Pick", !.now = clock, !.todo = {d}]]
    BY <1>3 DEF StartClaimDispatch
  <2>2. {d} \in SUBSET Dispatches /\ {d} # {}
    OBVIOUS
  <2> QED BY <1>1, <1>3, <2>1, <2>2 DEF StartClaimDispatch
<1>4. CASE PickClaim(c)
  <2>1. PICK d \in ops[c].todo :
          LET o == [ops[c] EXCEPT !.d = d, !.todo = @ \ {d},
                                   !.ep = IF records[d].epoch < epoch THEN epoch ELSE 0] IN
          ops' = [ops EXCEPT ![c] =
                    IF records[d].status # "Queued" THEN Continue(o)
                    ELSE [o EXCEPT !.fresh = TRUE,
                                   !.pc = IF records[d].epoch < epoch THEN "Supersede" ELSE "Acquire"]]
    BY <1>4 DEF PickClaim
  <2> DEFINE e == IF records[d].epoch < epoch THEN epoch ELSE 0
             p == IF records[d].epoch < epoch THEN "Supersede" ELSE "Acquire"
             o == [ops[c] EXCEPT !.d = d, !.todo = @ \ {d}, !.ep = e]
             q == [o EXCEPT !.fresh = TRUE, !.pc = p]
  <2>2. ops' = [ops EXCEPT ![c] = IF records[d].status # "Queued" THEN Continue(o) ELSE q]
    BY <2>1
  <2>3. At(c, "Pick") /\ ops[c].op = "claim" /\ UNCHANGED <<kv, clock, lastToken, boot, pending>>
    BY <1>4 DEF PickClaim
  <2>4. e \in Nat /\ e <= epoch /\ p \in {"Supersede", "Acquire"} /\ d \in Dispatches
    BY <1>0 DEF Operation
  <2> HIDE DEF e, p
  <2>5. /\ o \in Operation /\ o.op = "claim" /\ o.d = d /\ o.tok = ops[c].tok /\ o.now = ops[c].now
        /\ o.ep = e /\ o.chores = << >>
    BY <1>0, <2>3, <2>4 DEF Operation, Formed, At
  <2> HIDE DEF o
  <2>6. /\ q \in Operation /\ q.op = "claim" /\ q.d = d /\ q.tok = ops[c].tok /\ q.now = ops[c].now
        /\ q.ep = e /\ q.chores = << >> /\ q.pc = p
    BY <2>4, <2>5 DEF Operation, Place
  <2> HIDE DEF q
  <2>7. CASE records[d].status # "Queued"
    <3>1. Formed(Continue(o)) /\ Seen(Continue(o))
      BY <1>0, <2>4, <2>5, ContinueFormed DEF Formed
    <3>2. /\ Continue(o).pc # "ClaimCas" /\ Continue(o).op \in {"claim", "none"}
          /\ Continue(o).chores = << >>
      BY <2>5, ContinueFacts, IdleFacts
    <3>3. Tame(ops[c], Continue(o))
      BY <3>2 DEF Tame, Releasing
    <3> QED BY <1>0, <2>2, <2>3, <2>7, <3>1, <3>2, <3>3, QuietTypes DEF kv
  <2>8. CASE records[d].status = "Queued"
    <3>1. Formed(q)
      BY <1>0, <2>4, <2>6 DEF Formed, InPlace
    <3>2. Seen(q)
      BY <2>4, <2>6, <2>8 DEF Seen
    <3>3. Tame(ops[c], q)
      BY <2>4, <2>6 DEF Tame, Releasing
    <3> QED BY <1>0, <2>2, <2>3, <2>6, <2>8, <3>1, <3>2, <3>3, QuietTypes DEF kv
  <2> QED BY <2>7, <2>8
<1> QED BY <1>2, <1>3, <1>4

\* The guard is refused: the claim goes on.
LEMMA RefusedTypes ==
    ASSUME TypeInv, NEW c \in Callers, Acquire(c), GuardLive(ops[c].now)
    PROVE  /\ TypeInv' /\ OthersKept(c) /\ Tame(ops[c], ops'[c])
           /\ UNCHANGED <<records, guard, clock, lastToken, keyed, epoch, lock>>
           /\ ops'[c].op # "enqueue" /\ ops'[c].chores = << >>
<1>1. /\ At(c, "Acquire") /\ ops' = [ops EXCEPT ![c] = Continue(ops[c])]
      /\ UNCHANGED <<keyed, records, epoch, guard, lock, index, clock, lastToken, boot, pending>>
  BY DEF Acquire
<1>2. /\ ops[c] \in Operation /\ Formed(ops[c]) /\ InPlace(ops[c])
      /\ lock \in LockType /\ index \subseteq Dispatches
  BY TypeFacts
<1>3. Formed(Continue(ops[c])) /\ Seen(Continue(ops[c]))
  BY <1>2, ContinueFormed DEF Formed, InPlace
<1>4. /\ Continue(ops[c]).pc # "ClaimCas" /\ Continue(ops[c]).op \in {"claim", "none"}
      /\ Continue(ops[c]).chores = << >>
  BY <1>1, <1>2, ContinueFacts, IdleFacts DEF Formed, InPlace, At
<1>5. Tame(ops[c], Continue(ops[c]))
  BY <1>4 DEF Tame, Releasing
<1> QED BY <1>1, <1>2, <1>3, <1>4, <1>5, QuietTypes

\* The guard is taken, under a new token.
LEMMA AcquiredTypes ==
    ASSUME TypeInv, NEW c \in Callers, Acquire(c), ~GuardLive(ops[c].now)
    PROVE  /\ TypeInv' /\ OthersKept(c)
           /\ UNCHANGED <<records, clock, keyed, epoch, lock>> /\ lastToken' = lastToken + 1
           /\ guard' = [d |-> ops[c].d, tok |-> lastToken + 1, lease |-> ops[c].now + Lease]
           /\ ops'[c].op = "claim" /\ ops'[c].pc = "ClaimCas" /\ ops'[c].d = ops[c].d
           /\ ops'[c].tok = lastToken + 1 /\ ops'[c].now = ops[c].now /\ ops'[c].chores = << >>
<1> DEFINE n == [ops[c] EXCEPT !.pc = "ClaimCas", !.tok = lastToken + 1]
<1>1. /\ At(c, "Acquire") /\ ops' = [ops EXCEPT ![c] = n] /\ lastToken' = lastToken + 1
      /\ guard' = [d |-> ops[c].d, tok |-> lastToken + 1, lease |-> ops[c].now + Lease]
      /\ lastToken < MaxToken
      /\ UNCHANGED <<keyed, records, epoch, lock, index, clock, boot, pending>>
  BY DEF Acquire
<1>2. /\ ops \in [Callers -> Operation] /\ ops[c] \in Operation
      /\ Formed(ops[c]) /\ InPlace(ops[c]) /\ Seen(ops[c])
      /\ lastToken \in Nat /\ clock \in Nat /\ epoch \in Nat
  BY TypeFacts
<1>3. /\ n \in Operation /\ n.op = "claim" /\ n.pc = "ClaimCas" /\ n.d = ops[c].d /\ n.tok = lastToken + 1
      /\ n.now = ops[c].now /\ n.ep = ops[c].ep /\ (n.fresh => ops[c].fresh) /\ n.todo = ops[c].todo
      /\ n.chores = << >>
  <2>1. ops[c].op = "claim" /\ ops[c].chores = << >> /\ lastToken + 1 \in Nat
    BY <1>1, <1>2 DEF Formed, InPlace, At
  <2>2. n \in Operation
    BY <1>2, <2>1 DEF Operation, Place
  <2>3. n.fresh = ops[c].fresh
    BY <1>2 DEF Operation
  <2> QED BY <1>2, <2>1, <2>2, <2>3 DEF Operation
<1> HIDE DEF n
<1>4. ops' \in [Callers -> Operation] /\ OthersKept(c) /\ ops'[c] = n
  BY <1>1, <1>2, <1>3, OwnStep DEF OthersKept
<1>5. Formed(ops[c])'
  <2>1. InPlace(ops[c])'
    BY <1>1, <1>2, <1>3, <1>4 DEF InPlace, At
  <2>2. /\ ops'[c].tok <= lastToken' /\ ops'[c].now <= clock' /\ ops'[c].ep <= epoch'
        /\ ops'[c].d \in Dispatches
    BY <1>1, <1>2, <1>3, <1>4 DEF Formed, At
  <2> QED BY <1>3, <1>4, <2>1, <2>2 DEF Formed
<1>6. Seen(ops[c])'
  <2>1. ops[c].fresh => records'[ops'[c].d].status = "Queued"
    BY <1>1, <1>2, <1>3, <1>4 DEF Seen, At
  <2>2. ops'[c].fresh => ops[c].fresh
    BY <1>3, <1>4
  <2>3. ops'[c].pc = "ClaimCas"
    BY <1>3, <1>4
  <2> QED BY <2>1, <2>2, <2>3 DEF Seen
<1>7. KeyInv'
  <2>1. ops[c].now \in Nat /\ ops[c].now <= clock /\ ops[c].d \in Dispatches /\ Lease \in Nat
    BY <1>1, <1>2, NatsConstants DEF Operation, Formed, At
  <2>2. guard' \in [d : Dispatches \cup {Nobody}, tok : 0 .. lastToken', lease : 0 .. clock' + Lease]
    BY <1>1, <1>2, <2>1
  <2>3. \A d \in Dispatches : RecordOK(records[d])'
    BY <1>1, <1>2 DEF TypeInv, KeyInv, RecordOK, Stored
  <2>4. lastToken' \in 0 .. MaxToken
    BY <1>1, <1>2, NatsConstants
  <2> QED BY <1>1, <2>2, <2>3, <2>4 DEF TypeInv, KeyInv
<1>8. OpInv'
  <2>1. lastToken <= lastToken' /\ lastToken' \in Nat
    BY <1>1, <1>2
  <2> QED BY <1>1, <1>2, <1>4, <1>5, <1>6, <2>1, OperationsStep DEF OthersKept
<1> QED BY <1>1, <1>3, <1>4, <1>7, <1>8 DEF TypeInv

\* The claim reaches the record.
LEMMA ClaimedTypes ==
    ASSUME TypeInv, NEW c \in Callers, ClaimCas(c), ops[c].fresh
    PROVE  /\ TypeInv' /\ OthersKept(c) /\ ops'[c] = Idle
           /\ UNCHANGED <<guard, clock, lastToken, keyed, epoch, lock>>
           /\ records[ops[c].d].status = "Queued"
           /\ records'[ops[c].d].status = "Claimed" /\ records'[ops[c].d].tok = ops[c].tok
           /\ records'[ops[c].d].lease = ops[c].now + Lease
           /\ records'[ops[c].d].epoch = records[ops[c].d].epoch
           /\ \A e \in Dispatches \ {ops[c].d} : records'[e] = records[e]
<1> DEFINE r == Claimed(records[ops[c].d], ops[c].tok, ops[c].now + Lease)
<1>1. /\ At(c, "ClaimCas") /\ Write(c, ops[c].d, r, Idle)
      /\ UNCHANGED <<keyed, epoch, guard, lock, index, clock, lastToken, boot>>
  BY DEF ClaimCas
<1>2. /\ ops[c] \in Operation /\ Formed(ops[c]) /\ Seen(ops[c])
      /\ lastToken \in Nat /\ clock \in Nat /\ epoch \in Nat /\ Lease \in Nat
  BY TypeFacts, NatsConstants
<1>3. /\ ops[c].d \in Dispatches /\ records[ops[c].d].status = "Queued"
      /\ ops[c].tok \in Nat /\ ops[c].tok <= lastToken /\ ops[c].now \in Nat
      /\ ops[c].now + Lease \in Nat /\ ops[c].now + Lease <= clock + Lease
  BY <1>1, <1>2 DEF Formed, Seen, At, Operation
<1>4. Fields(r, "Claimed", records[ops[c].d].epoch, ops[c].tok, ops[c].now + Lease, records[ops[c].d].attempts)
  BY <1>3, RecordFacts, ClaimedFields
<1> HIDE DEF r
<1>5. RecordOK(r)
  BY <1>3, <1>4, RecordFacts, FieldsOK
<1>6. Formed(Idle) /\ ~Idle.fresh
  BY <1>2, IdleFacts DEF Formed, InPlace
<1>7. /\ TypeInv' /\ OthersKept(c) /\ ops'[c] = Idle /\ records'[ops[c].d] = r
      /\ \A e \in Dispatches \ {ops[c].d} : records'[e] = records[e]
  BY <1>1, <1>3, <1>5, <1>6, WriteTypes
<1> QED BY <1>1, <1>3, <1>4, <1>7 DEF Fields

\* The claim has lost the record: the guard is given back.
LEMMA ClaimLostTypes ==
    ASSUME TypeInv, NEW c \in Callers, ClaimCas(c), ~ops[c].fresh
    PROVE  /\ TypeInv' /\ OthersKept(c)
           /\ UNCHANGED <<records, guard, clock, lastToken, keyed, epoch, lock>>
           /\ ops'[c].op = "claim" /\ ops'[c].pc = "Chore" /\ ops'[c].d = ops[c].d
           /\ ops'[c].tok = ops[c].tok /\ ops'[c].chores = <<"guard">>
<1> DEFINE o == [ops[c] EXCEPT !.chores = <<"guard">>, !.todo = @ \cup {ops[c].d}]
<1>1. /\ At(c, "ClaimCas") /\ ops' = [ops EXCEPT ![c] = Continue(o)]
      /\ UNCHANGED <<keyed, records, epoch, guard, lock, index, clock, lastToken, boot, pending>>
  BY DEF ClaimCas
<1>2. /\ ops[c] \in Operation /\ Formed(ops[c]) /\ InPlace(ops[c]) /\ ops[c].d \in Dispatches
      /\ lock \in LockType /\ index \subseteq Dispatches
  BY <1>1, TypeFacts DEF Formed, At
<1>3. /\ o \in Operation /\ o.op = "claim" /\ o.d = ops[c].d /\ o.tok = ops[c].tok /\ o.now = ops[c].now
      /\ o.ep = ops[c].ep /\ o.chores = <<"guard">> /\ o.chores # << >>
  BY <1>1, <1>2, ChoreLists DEF Operation, InPlace, At
<1> HIDE DEF o
<1>4. Formed(Continue(o)) /\ Seen(Continue(o))
  BY <1>2, <1>3, ContinueFormed DEF Formed
<1>5. TypeInv' /\ OthersKept(c) /\ ops'[c] = Continue(o)
  BY <1>1, <1>2, <1>4, QuietTypes
<1>6. /\ Continue(o).op = "claim" /\ Continue(o).pc = "Chore" /\ Continue(o).d = ops[c].d
      /\ Continue(o).tok = ops[c].tok /\ Continue(o).chores = <<"guard">>
  BY <1>3, ContinueFacts
<1> QED BY <1>1, <1>5, <1>6

\* An update starts by reading its record.
LEMMA UpdateTypes ==
    ASSUME TypeInv, NEW c \in Callers, StartUpdate(c)
    PROVE  /\ TypeInv' /\ OthersKept(c)
           /\ UNCHANGED <<records, guard, clock, lastToken, keyed, epoch, lock>>
           /\ ops'[c].op \in Updates /\ ops'[c].chores = << >>
           /\ ops'[c].pc \in {"Cas", "Supersede", "ExtendGuard"}
           /\ ops'[c].op = "extend" =>
                /\ ops'[c].d \in Dispatches /\ ops'[c].now = clock /\ ops'[c].pc # "Cas"
                /\ records[ops'[c].d].status = "Claimed" /\ records[ops'[c].d].tok = ops'[c].tok
                /\ \A x \in Callers : ~(ops[x].op = "extend" /\ ops[x].tok = ops'[c].tok)
<1>0. /\ lastToken \in Nat /\ clock \in Nat /\ epoch \in Nat
      /\ lock \in LockType /\ index \subseteq Dispatches
  BY TypeFacts
<1>1. PICK op \in Updates \cap Ops, d \in Dispatches, tok \in 0 .. lastToken :
        LET o == [Idle EXCEPT !.op = op, !.d = d, !.tok = tok,
                              !.now = IF op \in {"extend", "reclaim"} THEN clock ELSE 0] IN
        /\ op = "extend" => \A x \in Callers : ~(ops[x].op = "extend" /\ ops[x].tok = tok)
        /\ Reading(o) # Idle
        /\ ops' = [ops EXCEPT ![c] = Reading(o)]
        /\ UNCHANGED <<kv, clock, lastToken, boot, pending>>
  BY DEF StartUpdate
<1> DEFINE now == IF op \in {"extend", "reclaim"} THEN clock ELSE 0
           o == [Idle EXCEPT !.op = op, !.d = d, !.tok = tok, !.now = now]
<1>2. /\ op = "extend" => \A x \in Callers : ~(ops[x].op = "extend" /\ ops[x].tok = tok)
      /\ Reading(o) # Idle /\ ops' = [ops EXCEPT ![c] = Reading(o)]
      /\ UNCHANGED <<keyed, records, epoch, guard, lock, index, clock, lastToken, boot, pending>>
  BY <1>1 DEF kv
<1>3. now \in Nat /\ now <= clock /\ (op = "extend" => now = clock) /\ tok \in Nat /\ tok <= lastToken
  BY <1>0
<1> HIDE DEF now
<1>4. /\ o \in Operation /\ o.op = op /\ o.d = d /\ o.tok = tok /\ o.now = now
      /\ o.todo = {} /\ o.chores = << >>
  BY <1>3, IdleFacts DEF Operation, OpName
<1> HIDE DEF o
<1>5. Formed(Reading(o)) /\ Seen(Reading(o))
  BY <1>3, <1>4, ReadingFormed
<1>6. TypeInv' /\ OthersKept(c) /\ ops'[c] = Reading(o)
  BY <1>0, <1>2, <1>5, QuietTypes
<1>7. /\ Reading(o).op = op /\ Reading(o).chores = << >> /\ Reading(o).d = d /\ Reading(o).tok = tok
      /\ Reading(o).now = now
      /\ Reading(o).pc \in {"Cas", "Supersede", "ExtendGuard"}
      /\ op = "extend" => /\ records[d].status = "Claimed" /\ records[d].tok = tok
                          /\ Reading(o).pc # "Cas"
  BY <1>0, <1>2, <1>4, ReadingFacts
<1> QED BY <1>2, <1>3, <1>6, <1>7

\* A conflict on the record: it is read again, or looked for again.
LEMMA RetryTypes ==
    ASSUME TypeInv, NEW c \in Callers, Cas(c) \/ Supersede(c), ~ops[c].fresh
    PROVE  /\ TypeInv' /\ OthersKept(c) /\ Tame(ops[c], ops'[c])
           /\ UNCHANGED <<records, guard, clock, lastToken, keyed, epoch, lock>>
           /\ ops[c].op # "enqueue" /\ ops'[c].op # "enqueue" /\ ops'[c].chores = << >>
<1>1. /\ ops[c].pc \in {"Cas", "Supersede"} /\ ops' = [ops EXCEPT ![c] = Retry(ops[c])]
      /\ UNCHANGED <<keyed, records, epoch, guard, lock, index, clock, lastToken, boot, pending>>
  BY DEF Cas, Supersede, At
<1>2. /\ ops[c] \in Operation /\ Formed(ops[c]) /\ InPlace(ops[c]) /\ ops[c].d \in Dispatches
      /\ lock \in LockType /\ index \subseteq Dispatches /\ epoch \in Nat
      /\ ops[c].chores = << >> /\ ops[c].op \in Updates \cup {"claim"}
  BY <1>1, TypeFacts DEF Formed, InPlace
<1>3. "claim" \notin Updates /\ "enqueue" \notin Updates /\ "none" \notin Updates
  BY DEF Updates
<1>4. CASE ops[c].op = "claim"
  <2> DEFINE o == [ops[c] EXCEPT !.todo = @ \cup {ops[c].d}]
  <2>1. /\ o \in Operation /\ o.op = "claim" /\ o.d = ops[c].d /\ o.tok = ops[c].tok /\ o.now = ops[c].now
        /\ o.ep = ops[c].ep /\ o.chores = << >>
    BY <1>2, <1>4 DEF Operation
  <2>2. Retry(ops[c]) = Continue(o)
    BY <1>4 DEF Retry
  <2> HIDE DEF o
  <2>3. Formed(Continue(o)) /\ Seen(Continue(o))
    BY <1>2, <2>1, ContinueFormed DEF Formed
  <2>4. /\ Continue(o).pc # "ClaimCas" /\ Continue(o).op \in {"claim", "none"} /\ Continue(o).chores = << >>
    BY <2>1, ContinueFacts, IdleFacts
  <2>5. Tame(ops[c], Continue(o))
    BY <2>4 DEF Tame, Releasing
  <2> QED BY <1>1, <1>2, <1>4, <2>2, <2>3, <2>4, <2>5, QuietTypes
<1>5. CASE ops[c].op # "claim"
  <2>1. Retry(ops[c]) = Reading(ops[c]) /\ ops[c].op \in Updates
    BY <1>2, <1>5 DEF Retry
  <2>2. ops[c].todo = {}
    BY <1>2, <1>3, <1>5, <2>1 DEF InPlace, Updates
  <2>3. Formed(Reading(ops[c])) /\ Seen(Reading(ops[c]))
    BY <1>2, <2>1, <2>2, ReadingFormed DEF Formed
  <2>4. /\ Reading(ops[c]).pc # "ClaimCas" /\ Reading(ops[c]).chores = << >>
        /\ Reading(ops[c]).op \in {ops[c].op, "none"}
        /\ Reading(ops[c]).op = "extend" =>
              /\ ops[c].op = "extend" /\ Reading(ops[c]).d = ops[c].d /\ Reading(ops[c]).tok = ops[c].tok
              /\ Reading(ops[c]).now = ops[c].now /\ Reading(ops[c]).pc # "Cas"
    <3>1. CASE Reading(ops[c]) = Idle
      BY <3>1, IdleFacts
    <3>2. CASE Reading(ops[c]) # Idle
      <4>1. /\ Reading(ops[c]).op = ops[c].op /\ Reading(ops[c]).d = ops[c].d
            /\ Reading(ops[c]).tok = ops[c].tok /\ Reading(ops[c]).now = ops[c].now
            /\ Reading(ops[c]).chores = ops[c].chores
            /\ Reading(ops[c]).pc \in {"Cas", "Supersede", "ExtendGuard"}
            /\ Reading(ops[c]).pc = "ExtendGuard"
                 <=> ops[c].op = "extend" /\ Reading(ops[c]).pc # "Supersede"
        BY <1>2, <2>1, <3>2, ReadingFacts
      <4> QED BY <1>2, <4>1
    <3> QED BY <3>1, <3>2
  <2>5. Tame(ops[c], Reading(ops[c]))
    BY <2>4 DEF Tame, Releasing
  <2> QED BY <1>1, <1>2, <1>3, <2>1, <2>3, <2>4, <2>5, QuietTypes
<1> QED BY <1>4, <1>5

\* Why an update has chores.
LEMMA ChoreReasons ==
    ASSUME NEW d, NEW old, NEW new, NEW i \in DOMAIN Chores(d, old, new)
    PROVE  /\ Chores(d, old, new)[i] = "guard" => old.status = "Claimed" /\ new.status # "Claimed"
           /\ Chores(d, old, new)[i] = "lock" => new.status \in Terminal
<1> DEFINE g == IF old.status = "Claimed" /\ new.status # "Claimed" THEN <<"guard">> ELSE << >>
           t == IF new.status \in Terminal THEN Unlocking(d) \o <<"index">> ELSE << >>
<1>1. Chores(d, old, new) = g \o t
  BY DEF Chores
<1>2. g \in Seq(Chore) /\ t \in Seq(Chore) /\ Unlocking(d) \in Seq(Chore)
  <2>1. <<"index">> \in Seq(Chore) /\ << >> \in Seq(Chore) /\ <<"guard">> \in Seq(Chore)
    BY ChoreLists
  <2>2. Unlocking(d) \in Seq(Chore)
    BY ChoreLists
  <2>3. Unlocking(d) \o <<"index">> \in Seq(Chore)
    BY <2>1, <2>2
  <2> QED BY <2>1, <2>2, <2>3
<1>3. \A j \in DOMAIN g : g[j] = "guard" /\ old.status = "Claimed" /\ new.status # "Claimed"
  OBVIOUS
<1>4. \A j \in DOMAIN t : t[j] \in {"lock", "index"} /\ new.status \in Terminal
  <2>1. \A j \in DOMAIN Unlocking(d) : Unlocking(d)[j] = "lock"
    BY DEF Unlocking
  <2> QED BY <1>2, <2>1
<1> HIDE DEF g, t
<1>5. i \in DOMAIN g \/ \E j \in DOMAIN t : (g \o t)[i] = t[j]
  BY <1>1, <1>2
<1>6. i \in DOMAIN g => (g \o t)[i] = g[i]
  BY <1>2
<1> QED BY <1>1, <1>3, <1>4, <1>5, <1>6

\* What caller c is left with once its update is on record.
Done(c) ==
    LET n == ops'[c]
        d == ops[c].d IN
    /\ n.op \in {ops[c].op, "none"} /\ n.pc \in {"Idle", "Pick", "Chore"}
    /\ n.pc = "Chore" => n.d = d /\ n.tok = records[d].tok /\ n.now = ops[c].now
    /\ Releasing(n) => records[d].status = "Claimed" /\ records'[d].status # "Claimed"
    /\ Unlocks(n) => records'[d].status \in Terminal
    /\ n.pc # "Chore" => n.chores = << >>
    /\ n.op = "extend" => n.pc = "Chore"

\* An update of a record, with what it leaves to tidy up.
LEMMA SettledTypes ==
    ASSUME TypeInv, NEW c \in Callers, NEW r, RecordOK(r), Settled(c, r),
           ops[c].pc \in {"Cas", "Supersede"},
           UNCHANGED <<keyed, epoch, guard, lock, index, clock, lastToken, boot>>
    PROVE  /\ TypeInv' /\ OthersKept(c) /\ Done(c) /\ ops[c].d \in Dispatches
           /\ records'[ops[c].d] = r
           /\ \A e \in Dispatches \ {ops[c].d} : records'[e] = records[e]
<1> DEFINE d == ops[c].d
           old == records[d]
           o == [ops[c] EXCEPT !.tok = old.tok, !.chores = Chores(d, old, r)]
<1>1. /\ ops[c] \in Operation /\ Formed(ops[c]) /\ InPlace(ops[c]) /\ d \in Dispatches
      /\ ops[c].op \in Updates \cup {"claim"}
  BY TypeFacts DEF Formed, InPlace
<1>2. Write(c, d, r, Continue(o))
  BY DEF Settled
<1>3. /\ o \in Operation /\ o.op = ops[c].op /\ o.d = d /\ o.tok = old.tok /\ o.now = ops[c].now
      /\ o.ep = ops[c].ep /\ o.todo = ops[c].todo /\ o.chores = Chores(d, old, r)
  <2>1. old.tok \in Nat
    BY <1>1, RecordFacts
  <2>2. Chores(d, old, r) \in Seq(Chore)
    BY ChoreLists
  <2> HIDE DEF old
  <2> QED BY <1>1, <2>1, <2>2 DEF Operation
<1> HIDE DEF o
<1>4. Formed(Continue(o)) /\ ~Continue(o).fresh
  BY <1>1, <1>3, RecordFacts, ContinueFormed, ContinueFacts DEF Formed, InPlace
<1>5. /\ TypeInv' /\ OthersKept(c) /\ ops'[c] = Continue(o) /\ records'[d] = r
      /\ \A e \in Dispatches \ {d} : records'[e] = records[e]
  BY <1>1, <1>2, <1>4, WriteTypes
<1>6. Done(c)
  <2>1. CASE o.chores # << >>
    <3>1. /\ Continue(o).pc = "Chore" /\ Continue(o).op = ops[c].op /\ Continue(o).d = d
          /\ Continue(o).tok = old.tok /\ Continue(o).now = ops[c].now
          /\ Continue(o).chores = Chores(d, old, r)
      BY <1>3, <2>1, ContinueFacts
    <3>2. Releasing(Continue(o)) => old.status = "Claimed" /\ r.status # "Claimed"
      BY <3>1, ChoreReasons DEF Releasing
    <3>3. Unlocks(Continue(o)) => r.status \in Terminal
      BY <3>1, ChoreReasons DEF Unlocks
    <3> QED BY <1>5, <3>1, <3>2, <3>3 DEF Done
  <2>2. CASE o.chores = << >>
    <3>1. /\ Continue(o).pc \in {"Idle", "Pick"} /\ Continue(o).op \in {ops[c].op, "none"}
          /\ Continue(o).chores = << >>
      BY <1>3, <2>2, ContinueFacts, IdleFacts
    <3>2. Continue(o).op # "extend"
      <4>1. CASE o.todo = {}
        BY <1>3, <2>2, <4>1, ContinueFacts, IdleFacts
      <4>2. CASE o.todo # {}
        BY <1>1, <1>3, <2>2, <4>2, ContinueFacts DEF InPlace
      <4> QED BY <4>1, <4>2
    <3> QED BY <1>5, <3>1, <3>2 DEF Done, Releasing, Unlocks
  <2> QED BY <2>1, <2>2
<1> QED BY <1>1, <1>5, <1>6

\* A fresh compare-and-set of a record: an update that ends the claim, or the
\* renewal or the annotation of one.
LEMMA CasTypes ==
    ASSUME TypeInv, NEW c \in Callers, Cas(c), ops[c].fresh
    PROVE  /\ TypeInv' /\ OthersKept(c) /\ Done(c) /\ ops[c].d \in Dispatches
           /\ UNCHANGED <<keyed, epoch, guard, lock, clock, lastToken>>
           /\ \A e \in Dispatches \ {ops[c].d} : records'[e] = records[e]
           /\ records'[ops[c].d].epoch = records[ops[c].d].epoch
           /\ records[ops[c].d].status \in {"Queued", "Claimed"}
           /\ \/ /\ ops[c].op \in {"ack", "nack", "dead_letter", "cancel", "reclaim"}
                 /\ records'[ops[c].d].status \in {"Queued"} \cup Terminal
                 /\ records'[ops[c].d].tok = 0
              \/ /\ ops[c].op = "extend"
                 /\ records[ops[c].d].status = "Claimed" /\ records[ops[c].d].tok = ops[c].tok
                 /\ records'[ops[c].d].status = "Claimed" /\ records'[ops[c].d].tok = ops[c].tok
                 /\ records'[ops[c].d].lease = ops[c].now + Lease
              \/ ops[c].op \in {"record", "supersede"} /\ records'[ops[c].d] = records[ops[c].d]
<1> DEFINE d == ops[c].d
           old == records[d]
           r == Outcome(ops[c], old)
<1>1. /\ ops[c].pc = "Cas" /\ Settled(c, r)
      /\ UNCHANGED <<keyed, epoch, guard, lock, index, clock, lastToken, boot>>
  BY DEF Cas, At
<1>2. /\ ops[c] \in Operation /\ Formed(ops[c]) /\ InPlace(ops[c]) /\ Seen(ops[c]) /\ d \in Dispatches
      /\ ops[c].op \in Updates
  BY <1>1, TypeFacts DEF Formed, InPlace
<1>3. /\ old.status = IF ops[c].op = "cancel" THEN "Queued" ELSE "Claimed"
      /\ ops[c].op = "extend" => old.tok = ops[c].tok
  BY <1>1, <1>2 DEF Seen
<1>4. ops[c].now \in Nat /\ ops[c].now + Lease \in Nat /\ ops[c].now + Lease <= clock + Lease
  BY <1>2, RecordFacts DEF Formed, Operation
<1>5. ASSUME ops[c].op \in {"ack", "dead_letter", "cancel"}
      PROVE  RecordOK(r) /\ r.epoch = old.epoch /\ r.status \in {"Queued"} \cup Terminal /\ r.tok = 0
  <2>1. PICK s \in Terminal : r = Ended(old, s)
    BY <1>5 DEF Outcome, Terminal
  <2>2. s \in Status /\ s # "Claimed" /\ s \notin {"Missing", "Queued", "Claimed"}
    BY DEF Status, Terminal
  <2>3. Fields(r, s, old.epoch, 0, 0, old.attempts)
    BY <1>2, <2>1, <2>2, RecordFacts, EndedFields
  <2> HIDE DEF r
  <2>4. RecordOK(r)
    BY <1>2, <2>2, <2>3, RecordFacts, FieldsOK
  <2> QED BY <2>3, <2>4 DEF Fields
<1>6. ASSUME ops[c].op \in {"nack", "reclaim"}
      PROVE  RecordOK(r) /\ r.epoch = old.epoch /\ r.status \in {"Queued"} \cup Terminal /\ r.tok = 0
  <2>1. r = Requeued(old)
    BY <1>6 DEF Outcome
  <2>2. old.attempts < MaxAttempts
    BY <1>2, <1>3, RecordFacts
  <2>3. PICK s \in {"DeadLetter", "Queued"} :
           /\ Fields(r, s, old.epoch, 0, 0, old.attempts + 1)
           /\ s = "Queued" => old.attempts + 1 < MaxAttempts
    BY <1>2, <2>1, <2>2, RecordFacts, RequeuedFields
  <2> HIDE DEF r
  <2>4. RecordOK(r)
    BY <1>2, <2>2, <2>3, RecordFacts, FieldsOK
  <2> QED BY <2>3, <2>4 DEF Fields, Terminal
<1>7. ASSUME ops[c].op = "extend"
      PROVE  /\ RecordOK(r) /\ r.epoch = old.epoch /\ r.status = "Claimed" /\ r.tok = ops[c].tok
             /\ r.lease = ops[c].now + Lease
  <2>1. r = [old EXCEPT !.lease = ops[c].now + Lease]
    BY <1>7 DEF Outcome
  <2>2. Fields(r, "Claimed", old.epoch, ops[c].tok, ops[c].now + Lease, old.attempts)
    BY <1>2, <1>3, <1>4, <1>7, <2>1, RecordFacts, RenewedFields
  <2> HIDE DEF r
  <2>3. RecordOK(r)
    BY <1>2, <1>3, <1>4, <1>7, <2>2, RecordFacts, FieldsOK
  <2> QED BY <2>2, <2>3 DEF Fields
<1>8. ASSUME ops[c].op \in {"record", "supersede"}
      PROVE  RecordOK(r) /\ r = old
  BY <1>2, <1>8, RecordFacts DEF Outcome
<1> HIDE DEF r
<1>9. RecordOK(r)
  BY <1>2, <1>5, <1>6, <1>7, <1>8 DEF Updates
<1>10. /\ TypeInv' /\ OthersKept(c) /\ Done(c) /\ records'[d] = r
       /\ \A e \in Dispatches \ {d} : records'[e] = records[e]
  BY <1>1, <1>9, SettledTypes
<1>11. \/ ops[c].op \in {"ack", "nack", "dead_letter", "cancel", "reclaim"}
       \/ ops[c].op = "extend"
       \/ ops[c].op \in {"record", "supersede"}
  BY <1>2 DEF Updates
<1>12. records'[d].epoch = old.epoch /\ old.status \in {"Queued", "Claimed"}
  BY <1>2, <1>3, <1>5, <1>6, <1>7, <1>8, <1>10, <1>11
<1>13. \/ /\ ops[c].op \in {"ack", "nack", "dead_letter", "cancel", "reclaim"}
          /\ records'[d].status \in {"Queued"} \cup Terminal /\ records'[d].tok = 0
       \/ /\ ops[c].op = "extend" /\ old.status = "Claimed" /\ old.tok = ops[c].tok
          /\ records'[d].status = "Claimed" /\ records'[d].tok = ops[c].tok
          /\ records'[d].lease = ops[c].now + Lease
       \/ ops[c].op \in {"record", "supersede"} /\ records'[d] = old
  BY <1>3, <1>5, <1>6, <1>7, <1>8, <1>10, <1>11
<1> QED BY <1>1, <1>2, <1>10, <1>12, <1>13

\* A dispatch that an interrupt has overtaken is superseded.
LEMMA SupersedeTypes ==
    ASSUME TypeInv, NEW c \in Callers, Supersede(c), ops[c].fresh
    PROVE  /\ TypeInv' /\ OthersKept(c) /\ Done(c) /\ ops[c].d \in Dispatches
           /\ UNCHANGED <<keyed, epoch, guard, lock, clock, lastToken>>
           /\ \A e \in Dispatches \ {ops[c].d} : records'[e] = records[e]
           /\ records[ops[c].d].status \in {"Queued", "Claimed"}
           /\ records'[ops[c].d].status = "Superseded" /\ records'[ops[c].d].tok = 0
<1> DEFINE d == ops[c].d
           old == records[d]
           r == SupersededAt(old, ops[c].ep)
<1>1. /\ ops[c].pc = "Supersede" /\ Settled(c, r)
      /\ UNCHANGED <<keyed, epoch, guard, lock, index, clock, lastToken, boot>>
  BY DEF Supersede, At
<1>2. /\ ops[c] \in Operation /\ Formed(ops[c]) /\ Seen(ops[c]) /\ d \in Dispatches
      /\ ops[c].ep \in Nat /\ ops[c].ep <= epoch
  BY <1>1, TypeFacts DEF Formed, Operation
<1>3. old.status \in {"Queued", "Claimed"}
  BY <1>1, <1>2 DEF Seen
<1>4. Fields(r, "Superseded", ops[c].ep, 0, 0, old.attempts)
  BY <1>2, RecordFacts, SupersededFields
<1> HIDE DEF r
<1>5. RecordOK(r)
  BY <1>2, <1>4, RecordFacts, FieldsOK
<1>6. /\ TypeInv' /\ OthersKept(c) /\ Done(c) /\ records'[d] = r
      /\ \A e \in Dispatches \ {d} : records'[e] = records[e]
  BY <1>1, <1>5, SettledTypes
<1> QED BY <1>1, <1>2, <1>3, <1>4, <1>6 DEF Fields

\* The renewal of the guard.
LEMMA ExtendGuardTypes ==
    ASSUME TypeInv, NEW c \in Callers, ExtendGuard(c)
    PROVE  /\ TypeInv' /\ OthersKept(c)
           /\ UNCHANGED <<records, clock, lastToken, keyed, epoch, lock>>
           /\ ops[c].op = "extend" /\ ops[c].pc = "ExtendGuard"
           /\ \/ /\ HoldsGuard(ops[c]) /\ guard' = [guard EXCEPT !.lease = ops[c].now + Lease]
                 /\ ops'[c].op = "extend" /\ ops'[c].pc = "Cas" /\ ops'[c].d = ops[c].d
                 /\ ops'[c].tok = ops[c].tok /\ ops'[c].now = ops[c].now /\ ops'[c].chores = << >>
              \/ guard' = guard /\ ops'[c] = Idle
<1>0. /\ ops \in [Callers -> Operation] /\ ops[c] \in Operation
      /\ Formed(ops[c]) /\ InPlace(ops[c]) /\ Seen(ops[c])
      /\ lastToken \in Nat /\ clock \in Nat /\ epoch \in Nat
      /\ lock \in LockType /\ index \subseteq Dispatches
  BY TypeFacts
<1>1. /\ ops[c].pc = "ExtendGuard" /\ ops[c].op = "extend" /\ ops[c].chores = << >>
      /\ UNCHANGED <<keyed, records, epoch, lock, index, clock, lastToken, boot, pending>>
  BY <1>0 DEF ExtendGuard, At, InPlace, Formed
<1>2. CASE HoldsGuard(ops[c])
  <2> DEFINE n == [ops[c] EXCEPT !.pc = "Cas"]
  <2>1. ops' = [ops EXCEPT ![c] = n] /\ guard' = [guard EXCEPT !.lease = ops[c].now + Lease]
    BY <1>2 DEF ExtendGuard
  <2>2. /\ n \in Operation /\ n.op = "extend" /\ n.pc = "Cas" /\ n.d = ops[c].d /\ n.tok = ops[c].tok
        /\ n.now = ops[c].now /\ n.ep = ops[c].ep /\ n.todo = ops[c].todo /\ n.chores = << >>
    BY <1>0, <1>1 DEF Operation, Place
  <2>3. n.fresh = ops[c].fresh
    BY <1>0 DEF Operation
  <2> HIDE DEF n
  <2>4. Formed(n)
    BY <1>0, <1>1, <2>2 DEF Formed, InPlace, Updates
  <2>5. Seen(n)
    BY <1>0, <1>1, <2>2, <2>3 DEF Seen
  <2>6. ops' \in [Callers -> Operation] /\ OthersKept(c) /\ ops'[c] = n
    BY <1>0, <2>1, <2>2, OwnStep DEF OthersKept
  <2>7. Formed(ops[c])' /\ Seen(ops[c])'
    BY <1>1, <2>4, <2>5, <2>6 DEF Formed, InPlace, Seen
  <2>8. OpInv'
    BY <1>0, <1>1, <2>6, <2>7, OperationsStep DEF OthersKept
  <2>9. KeyInv'
    <3>1. guard' \in [d : Dispatches \cup {Nobody}, tok : 0 .. lastToken', lease : 0 .. clock' + Lease]
      <4>1. ops[c].now \in Nat /\ ops[c].now <= clock /\ Lease \in Nat
        BY <1>0, NatsConstants DEF Formed, Operation
      <4> QED BY <1>0, <1>1, <2>1, <4>1 DEF TypeInv, KeyInv
    <3> QED BY <1>1, <3>1 DEF TypeInv, KeyInv, RecordOK
  <2> QED BY <1>1, <1>2, <2>1, <2>2, <2>6, <2>8, <2>9 DEF TypeInv
<1>3. CASE ~HoldsGuard(ops[c])
  <2>1. ops' = [ops EXCEPT ![c] = Idle] /\ guard' = guard
    BY <1>3 DEF ExtendGuard
  <2>2. Formed(Idle) /\ Seen(Idle)
    BY <1>0, IdleFacts DEF Formed, InPlace, Seen
  <2> QED BY <1>0, <1>1, <2>1, <2>2, QuietTypes
<1> QED BY <1>2, <1>3

\* What caller c is left with after a chore.
Tidied(c) ==
    LET n == ops'[c] IN
    /\ n.op \in {ops[c].op, "none"} /\ n.pc \in {"Idle", "Pick", "Chore"}
    /\ n.pc = "Chore" => n.op = ops[c].op /\ n.d = ops[c].d /\ n.tok = ops[c].tok /\ n.now = ops[c].now
    /\ n.op = "extend" => n.pc = "Chore"
    /\ n.pc # "Chore" => n.chores = << >>
    /\ Releasing(n) => Releasing(ops[c])
    /\ Unlocks(n) => Unlocks(ops[c])

\* A chore: the guard, the lock or the index.
LEMMA ChoreTypes ==
    ASSUME TypeInv, NEW c \in Callers, ReleaseGuard(c) \/ ReleaseLock(c) \/ CleanIndex(c)
    PROVE  /\ TypeInv' /\ OthersKept(c) /\ Tidied(c) /\ Tame(ops[c], ops'[c])
           /\ ops[c].pc = "Chore" /\ ops[c].d \in Dispatches
           /\ UNCHANGED <<records, clock, lastToken, keyed, epoch>>
<1> DEFINE t == Tail(ops[c].chores)
           o == [ops[c] EXCEPT !.chores = t]
           n == Continue(o)
<1>0. /\ ops \in [Callers -> Operation] /\ ops[c] \in Operation
      /\ Formed(ops[c]) /\ InPlace(ops[c]) /\ Seen(ops[c])
      /\ lastToken \in Nat /\ clock \in Nat /\ epoch \in Nat
      /\ lock \in LockType /\ index \subseteq Dispatches
  BY TypeFacts
<1>1. /\ ops[c].pc = "Chore" /\ ops[c].d \in Dispatches /\ ops[c].chores # << >>
      /\ ops[c].chores \in Seq(Chore)
      /\ UNCHANGED <<records, clock, lastToken, keyed, epoch, boot, pending>>
  BY <1>0 DEF ReleaseGuard, ReleaseLock, CleanIndex, At, Formed, Operation
<1>2. /\ t \in Seq(Chore)
      /\ \A i \in DOMAIN t : i + 1 \in DOMAIN ops[c].chores /\ t[i] = ops[c].chores[i + 1]
  BY <1>1
<1>e. /\ ReleaseGuard(c) => /\ ops' = [ops EXCEPT ![c] = n] /\ guard' = Released(ops[c])
                            /\ UNCHANGED <<lock, index>>
      /\ ReleaseLock(c) => /\ index' = index /\ guard' = guard
                           /\ lock' = lock \/ lock' = Freed
                           /\ ops' = [ops EXCEPT ![c] = n] \/ ops' = Relocked(c, n)
      /\ CleanIndex(c) => /\ index' = index \ {ops[c].d} /\ guard' = guard /\ lock' = lock
                          /\ ops' = [ops EXCEPT ![c] = n]
  <2>1. ReleaseGuard(c) => /\ ops' = [ops EXCEPT ![c] = n] /\ guard' = Released(ops[c])
                            /\ UNCHANGED <<lock, index>>
    BY DEF ReleaseGuard
  <2>2. ReleaseLock(c) => /\ index' = index /\ guard' = guard
                          /\ lock' = lock \/ lock' = Freed
                          /\ ops' = [ops EXCEPT ![c] = n] \/ ops' = Relocked(c, n)
    BY DEF ReleaseLock
  <2>3. CleanIndex(c) => /\ index' = index \ {ops[c].d} /\ guard' = guard /\ lock' = lock
                         /\ ops' = [ops EXCEPT ![c] = n]
    BY DEF CleanIndex
  <2> QED BY <2>1, <2>2, <2>3
<1> HIDE DEF t
<1>3. /\ o \in Operation /\ o.op = ops[c].op /\ o.d = ops[c].d /\ o.tok = ops[c].tok /\ o.now = ops[c].now
      /\ o.ep = ops[c].ep /\ o.todo = ops[c].todo /\ o.chores = t
  BY <1>0, <1>2 DEF Operation
<1> HIDE DEF o
<1>4. Formed(n) /\ Seen(n)
  BY <1>0, <1>1, <1>3, ContinueFormed DEF Formed, InPlace
<1>5. /\ n.op \in {ops[c].op, "none"} /\ n.pc \in {"Idle", "Pick", "Chore"}
      /\ n.pc = "Chore" => /\ n.op = ops[c].op /\ n.d = ops[c].d /\ n.tok = ops[c].tok
                           /\ n.now = ops[c].now /\ n.chores = t
      /\ n.op = "extend" => n.pc = "Chore"
      /\ n.pc # "Chore" => n.chores = << >>
  <2>1. CASE t # << >>
    BY <1>3, <2>1, ContinueFacts
  <2>2. CASE t = << >> /\ o.todo = {}
    BY <1>3, <2>2, ContinueFacts, IdleFacts
  <2>3. CASE t = << >> /\ o.todo # {}
    <3>1. ops[c].op # "extend"
      BY <1>0, <1>3, <2>3 DEF InPlace
    <3> QED BY <1>3, <2>3, <3>1, ContinueFacts
  <2> QED BY <2>1, <2>2, <2>3
<1>6. /\ n.pc = "Chore" \/ (~Releasing(n) /\ ~Unlocks(n))
      /\ Releasing(n) => Releasing(ops[c])
      /\ Unlocks(n) => Unlocks(ops[c])
  BY <1>2, <1>5 DEF Releasing, Unlocks
<1>7. Tame(ops[c], n)
  BY <1>1, <1>5, <1>6 DEF Tame
<1>8. CASE ReleaseLock(c) \/ CleanIndex(c)
  <2>1. /\ index' \subseteq Dispatches /\ guard' = guard
        /\ lock' = lock \/ lock' = Freed
        /\ ops' = [ops EXCEPT ![c] = n] \/ ops' = Relocked(c, n)
    BY <1>0, <1>8, <1>e
  <2>2. lock' \in LockType
    BY <1>0, <2>1, FreedLock
  <2> HIDE DEF n
  <2>3. TypeInv' /\ OthersKept(c) /\ ops'[c] = n
    BY <1>1, <1>4, <2>1, <2>2, QuietTypes
  <2> QED BY <1>1, <1>5, <1>6, <1>7, <2>3 DEF Tidied
<1>9. CASE ReleaseGuard(c)
  <2>1. /\ ops' = [ops EXCEPT ![c] = n] /\ guard' = Released(ops[c])
        /\ UNCHANGED <<lock, index>>
    BY <1>9, <1>e
  <2> HIDE DEF n
  <2>2. n \in Operation
    BY <1>4 DEF Formed
  <2>3. ops' \in [Callers -> Operation] /\ OthersKept(c) /\ ops'[c] = n
    BY <1>0, <2>1, <2>2, OwnStep DEF OthersKept
  <2>4. Formed(ops[c])' /\ Seen(ops[c])'
    BY <1>1, <1>4, <2>3 DEF Formed, InPlace, Seen
  <2>5. OpInv'
    BY <1>0, <1>1, <2>3, <2>4, OperationsStep DEF OthersKept
  <2>6. KeyInv'
    <3>1. guard' \in [d : Dispatches \cup {Nobody}, tok : 0 .. lastToken', lease : 0 .. clock' + Lease]
      <4> DEFINE G(tok, end) == [d : Dispatches \cup {Nobody}, tok : 0 .. tok, lease : 0 .. end]
      <4>1. guard \in G(lastToken, clock + Lease)
        BY DEF TypeInv, KeyInv
      <4>2. clock + Lease \in Nat /\ lastToken' = lastToken /\ clock' = clock
        BY <1>1, NatsConstants DEF TypeInv, KeyInv
      <4>3. guard' = guard \/ guard' = [guard EXCEPT !.lease = 0]
        BY <2>1 DEF Released
      <4>4. [guard EXCEPT !.lease = 0] \in G(lastToken, clock + Lease)
        BY <4>1, <4>2
      <4>5. guard' \in G(lastToken, clock + Lease)
        BY <4>1, <4>3, <4>4
      <4> QED BY <4>2, <4>5
    <3> QED BY <1>1, <2>1, <3>1 DEF TypeInv, KeyInv, RecordOK
  <2> QED BY <1>1, <1>5, <1>6, <1>7, <2>3, <2>5, <2>6 DEF Tidied, TypeInv
<1> QED BY <1>8, <1>9

\* An interrupt moves the epoch, lists the thread, and passes a dispatch by.
LEMMA InterruptTypes ==
    ASSUME TypeInv, NEW c \in Callers,
           \/ StartInterrupt(c) \/ LoadThread(c) \/ Abandon(c)
           \/ PickInterrupt(c) /\ records' = records
    PROVE  /\ TypeInv' /\ OthersKept(c) /\ Tame(ops[c], ops'[c])
           /\ UNCHANGED <<records, guard, clock, lastToken, keyed, lock>>
           /\ ops'[c].op \in {"interrupt", "none"} /\ ops'[c].chores = << >>
           /\ epoch' = epoch \/ epoch' = epoch + 1
<1>0. /\ ops \in [Callers -> Operation] /\ ops[c] \in Operation
      /\ Formed(ops[c]) /\ InPlace(ops[c]) /\ Seen(ops[c])
      /\ lastToken \in Nat /\ clock \in Nat /\ epoch \in Nat
      /\ lock \in LockType /\ index \subseteq Dispatches
  BY TypeFacts
<1> DEFINE Fine(n) == /\ Formed(n) /\ Seen(n) /\ Tame(ops[c], n)
                      /\ n.op \in {"interrupt", "none"} /\ n.chores = << >>
<1>1. CASE StartInterrupt(c)
  <2> DEFINE n == [Idle EXCEPT !.op = "interrupt", !.pc = "Load", !.ep = epoch + 1, !.now = clock]
  <2>1. /\ ops' = [ops EXCEPT ![c] = n] /\ epoch' = epoch + 1 /\ epoch < MaxEpoch
        /\ UNCHANGED <<keyed, records, guard, lock, index, clock, lastToken, boot, pending>>
    BY <1>1 DEF StartInterrupt
  <2>2. epoch + 1 \in Nat
    BY <1>0
  <2>3. /\ n \in Operation /\ n.op = "interrupt" /\ n.pc = "Load" /\ n.ep = epoch + 1 /\ n.now = clock
        /\ n.tok = 0 /\ n.fresh = FALSE /\ n.todo = {} /\ n.chores = << >>
    BY <1>0, <2>2, IdleFacts DEF Operation, OpName, Place
  <2> HIDE DEF n
  <2>4. ops' \in [Callers -> Operation] /\ OthersKept(c) /\ ops'[c] = n
    BY <1>0, <2>1, <2>3, OwnStep DEF OthersKept
  <2>5. Formed(ops[c])'
    <3>1. InPlace(ops[c])'
      BY <2>3, <2>4 DEF InPlace
    <3> QED BY <1>0, <2>1, <2>3, <2>4, <3>1 DEF Formed
  <2>6. Seen(ops[c])'
    BY <2>3, <2>4 DEF Seen
  <2>7. epoch' \in Nat /\ epoch <= epoch' /\ epoch' \in 0 .. MaxEpoch
    BY <1>0, <2>1, NatsConstants
  <2>8. OpInv'
    BY <1>0, <2>1, <2>4, <2>5, <2>6, <2>7, OperationsStep DEF OthersKept
  <2>9. KeyInv'
    <3>1. \A d \in Dispatches : RecordOK(records[d])'
      <4> TAKE d \in Dispatches
      <4>1. records'[d] = records[d] /\ records[d].epoch \in Nat /\ records[d].epoch <= epoch'
        BY <1>0, <2>1, RecordFacts
      <4> QED BY <2>1, <4>1, RecordFacts DEF RecordOK
    <3> QED BY <2>1, <2>7, <3>1 DEF TypeInv, KeyInv
  <2>10. Tame(ops[c], ops'[c])
    BY <2>3, <2>4 DEF Tame, Releasing
  <2> QED BY <2>1, <2>3, <2>4, <2>7, <2>8, <2>9, <2>10 DEF TypeInv
<1>2. CASE LoadThread(c)
  <2> DEFINE S == {d \in Dispatches : /\ d \in index \/ (GuardLive(ops[c].now) /\ guard.d = d)
                                      /\ records[d].status \notin {"Missing", "Purged"}}
             o == [ops[c] EXCEPT !.todo = S]
  <2>1. /\ ops[c].pc = "Load" /\ ops' = [ops EXCEPT ![c] = Continue(o)]
        /\ UNCHANGED <<kv, clock, lastToken, boot, pending>>
    BY <1>2 DEF LoadThread, At
  <2>2. S \in SUBSET Dispatches
    OBVIOUS
  <2> HIDE DEF S
  <2>3. /\ o \in Operation /\ o.op = "interrupt" /\ o.tok = ops[c].tok /\ o.now = ops[c].now
        /\ o.ep = ops[c].ep /\ o.chores = << >>
    BY <1>0, <2>1, <2>2 DEF Operation, Formed, InPlace
  <2> HIDE DEF o
  <2>4. Formed(Continue(o)) /\ Seen(Continue(o))
    BY <1>0, <2>3, ContinueFormed DEF Formed
  <2>5. /\ Continue(o).op \in {"interrupt", "none"} /\ Continue(o).chores = << >>
        /\ Continue(o).pc # "ClaimCas"
    BY <2>3, ContinueFacts, IdleFacts
  <2>6. Fine(Continue(o))
    BY <2>4, <2>5 DEF Tame, Releasing
  <2> QED BY <1>0, <2>1, <2>6, QuietTypes DEF kv
<1>3. CASE Abandon(c)
  <2>1. Fine(Idle)
    BY <1>0, IdleFacts DEF Formed, InPlace, Seen, Tame, Releasing
  <2> QED BY <1>0, <1>3, <2>1, QuietTypes DEF Abandon, kv
<1>4. CASE PickInterrupt(c) /\ records' = records
  <2>1. PICK d \in ops[c].todo :
          /\ ops[c].pc = "Pick" /\ ops[c].op = "interrupt"
          /\ \/ /\ records[d].status = "Queued"
                /\ records' = [records EXCEPT ![d] = SupersededAt(records[d], ops[c].ep)]
             \/ /\ ops' = [ops EXCEPT ![c] = Continue([ops[c] EXCEPT !.d = d, !.todo = @ \ {d}])]
                /\ UNCHANGED <<keyed, records, pending>>
          /\ UNCHANGED <<keyed, epoch, guard, lock, index, clock, lastToken, boot>>
    <3>1. PICK d \in ops[c].todo :
            LET o == [ops[c] EXCEPT !.d = d, !.todo = @ \ {d}] IN
            /\ At(c, "Pick") /\ ops[c].op = "interrupt"
            /\ \/ /\ records[d].status = "Queued" /\ records[d].epoch < o.ep
                  /\ Write(c, d, SupersededAt(records[d], o.ep), Continue([o EXCEPT !.chores = <<"index">> \o Unlocking(d)]))
               \/ /\ ~(records[d].status = "Queued" /\ records[d].epoch < o.ep)
                  /\ ops' = [ops EXCEPT ![c] = Continue(o)]
                  /\ UNCHANGED <<keyed, records, pending>>
            /\ UNCHANGED <<keyed, epoch, guard, lock, index, clock, lastToken, boot>>
      BY <1>4 DEF PickInterrupt
    <3>2. [ops[c] EXCEPT !.d = d, !.todo = @ \ {d}].ep = ops[c].ep
      BY <1>0 DEF Operation
    <3> QED BY <3>1, <3>2 DEF At, Write
  <2>2. d \in Dispatches
    BY <1>0, <2>1 DEF Operation
  <2>3. ~(records[d].status = "Queued" /\ records' = [records EXCEPT ![d] = SupersededAt(records[d], ops[c].ep)])
    <3>1. ops[c].ep \in Nat
      BY <1>0 DEF Operation
    <3>2. SupersededAt(records[d], ops[c].ep).status = "Superseded"
      BY <2>2, <3>1, RecordFacts, SupersededFields DEF Fields
    <3>3. [records EXCEPT ![d] = SupersededAt(records[d], ops[c].ep)][d].status = "Superseded"
      BY <2>2, <3>2 DEF TypeInv, KeyInv
    <3> QED BY <1>4, <3>3
  <2> DEFINE o == [ops[c] EXCEPT !.d = d, !.todo = @ \ {d}]
  <2>4. ops' = [ops EXCEPT ![c] = Continue(o)] /\ pending' = pending
    BY <2>1, <2>3
  <2>5. /\ o \in Operation /\ o.op = "interrupt" /\ o.tok = ops[c].tok /\ o.now = ops[c].now
        /\ o.ep = ops[c].ep /\ o.chores = << >>
    BY <1>0, <2>1, <2>2 DEF Operation, Formed, InPlace
  <2> HIDE DEF o
  <2>6. Formed(Continue(o)) /\ Seen(Continue(o))
    BY <1>0, <2>5, ContinueFormed DEF Formed
  <2>7. /\ Continue(o).op \in {"interrupt", "none"} /\ Continue(o).chores = << >>
        /\ Continue(o).pc # "ClaimCas"
    BY <2>5, ContinueFacts, IdleFacts
  <2>8. Fine(Continue(o))
    BY <2>6, <2>7 DEF Tame, Releasing
  <2> QED BY <1>0, <1>4, <2>1, <2>4, <2>8, QuietTypes
<1> QED BY <1>1, <1>2, <1>3, <1>4

\* The record of a new dispatch.
LEMMA PutTypes ==
    ASSUME TypeInv, NEW c \in Callers, Put(c)
    PROVE  /\ TypeInv' /\ OthersKept(c) /\ ops'[c] = Idle
           /\ UNCHANGED <<guard, clock, lastToken, keyed, epoch, lock>>
           /\ ops[c].op = "enqueue" /\ ops[c].pc = "Put" /\ ops[c].d \in Dispatches
           /\ records'[ops[c].d].status = "Queued" /\ records'[ops[c].d].tok = 0
           /\ \A e \in Dispatches \ {ops[c].d} : records'[e] = records[e]
<1> DEFINE r == Queued(ops[c].ep)
<1>1. /\ ops[c].pc = "Put" /\ Write(c, ops[c].d, r, Idle)
      /\ UNCHANGED <<keyed, epoch, guard, lock, index, clock, lastToken, boot>>
  BY DEF Put, At
<1>2. /\ ops[c] \in Operation /\ Formed(ops[c]) /\ InPlace(ops[c]) /\ ops[c].d \in Dispatches
      /\ ops[c].op = "enqueue" /\ ops[c].ep \in Nat /\ ops[c].ep <= epoch
      /\ lastToken \in Nat /\ clock \in Nat /\ epoch \in Nat /\ Lease \in Nat
  BY <1>1, TypeFacts, NatsConstants DEF Formed, InPlace, Operation
<1>3. Fields(r, "Queued", ops[c].ep, 0, 0, 0)
  BY <1>2, QueuedFields
<1> HIDE DEF r
<1>4. RecordOK(r)
  BY <1>2, <1>3, FieldsOK, NatsConstants
<1>5. Formed(Idle) /\ ~Idle.fresh
  BY <1>2, IdleFacts DEF Formed, InPlace
<1>6. /\ TypeInv' /\ OthersKept(c) /\ ops'[c] = Idle /\ records'[ops[c].d] = r
      /\ \A e \in Dispatches \ {ops[c].d} : records'[e] = records[e]
  BY <1>1, <1>2, <1>4, <1>5, WriteTypes
<1> QED BY <1>1, <1>2, <1>3, <1>6 DEF Fields

\* Caller c ends dispatch d and has no guard to give back.
Ends(c, d) ==
    /\ OthersKept(c) /\ UNCHANGED <<guard, clock, lastToken, keyed, epoch, lock>>
    /\ records'[d].status \in {"Purged"} \cup Terminal /\ records'[d].tok = 0
    /\ \A e \in Dispatches \ {d} : records'[e] = records[e]
    /\ ops'[c].op \in {"interrupt", "purge", "none"} /\ ops'[c].pc # "ClaimCas" /\ ~Releasing(ops'[c])
    /\ Unlocks(ops'[c]) => ops'[c].d = d
    /\ records[d].status \in {"Queued"} \cup Terminal

\* An interrupt supersedes a queued dispatch.
LEMMA OvertakeTypes ==
    ASSUME TypeInv, NEW c \in Callers, PickInterrupt(c), records' # records
    PROVE  TypeInv' /\ \E d \in Dispatches : Ends(c, d)
<1>0. /\ ops[c] \in Operation /\ Formed(ops[c]) /\ InPlace(ops[c])
      /\ lastToken \in Nat /\ clock \in Nat /\ epoch \in Nat
  BY TypeFacts
<1>1. PICK d \in ops[c].todo :
        LET o == [ops[c] EXCEPT !.d = d, !.todo = @ \ {d}] IN
        /\ At(c, "Pick") /\ ops[c].op = "interrupt"
        /\ \/ /\ records[d].status = "Queued" /\ records[d].epoch < o.ep
              /\ Write(c, d, SupersededAt(records[d], o.ep), Continue([o EXCEPT !.chores = <<"index">> \o Unlocking(d)]))
           \/ /\ ~(records[d].status = "Queued" /\ records[d].epoch < o.ep)
              /\ ops' = [ops EXCEPT ![c] = Continue(o)]
              /\ UNCHANGED <<keyed, records, pending>>
        /\ UNCHANGED <<keyed, epoch, guard, lock, index, clock, lastToken, boot>>
  BY DEF PickInterrupt
<1> DEFINE o == [ops[c] EXCEPT !.d = d, !.todo = @ \ {d}]
           k == <<"index">> \o Unlocking(d)
           q == [o EXCEPT !.chores = k]
           r == SupersededAt(records[d], o.ep)
<1>2. /\ ops[c].pc = "Pick" /\ ops[c].op = "interrupt" /\ records[d].status = "Queued"
      /\ Write(c, d, r, Continue(q))
      /\ UNCHANGED <<keyed, epoch, guard, lock, index, clock, lastToken, boot>>
  BY <1>1 DEF At
<1>3. k \in Seq(Chore) /\ k # << >> /\ \A i \in DOMAIN k : k[i] # "guard"
  <2>1. k \in Seq(Chore) /\ k # << >>
    BY ChoreLists
  <2>2. CASE d \in keyed
    <3>1. k = <<"index">> \o <<"lock">>
      BY <2>2 DEF Unlocking
    <3> QED BY <2>1, <3>1
  <2>3. CASE d \notin keyed
    <3>1. k = <<"index">> \o << >>
      BY <2>3 DEF Unlocking
    <3> QED BY <2>1, <3>1
  <2> QED BY <2>2, <2>3
<1> HIDE DEF k
<1>4. /\ o \in Operation /\ o.op = "interrupt" /\ o.d = d /\ o.tok = ops[c].tok /\ o.now = ops[c].now
      /\ o.ep = ops[c].ep /\ o.ep \in Nat /\ d \in Dispatches
  BY <1>0, <1>2 DEF Operation
<1> HIDE DEF o
<1>5. /\ q \in Operation /\ q.op = "interrupt" /\ q.d = d /\ q.tok = ops[c].tok /\ q.now = ops[c].now
      /\ q.ep = ops[c].ep /\ q.chores = k
  BY <1>3, <1>4 DEF Operation
<1> HIDE DEF q
<1>6. Formed(Continue(q)) /\ ~Continue(q).fresh
  BY <1>0, <1>4, <1>5, ContinueFormed, ContinueFacts DEF Formed
<1>7. Fields(r, "Superseded", o.ep, 0, 0, records[d].attempts)
  BY <1>4, RecordFacts, SupersededFields
<1> HIDE DEF r
<1>8. RecordOK(r)
  BY <1>0, <1>4, <1>7, RecordFacts, FieldsOK DEF Formed
<1>9. /\ TypeInv' /\ OthersKept(c) /\ ops'[c] = Continue(q) /\ records'[d] = r
      /\ \A e \in Dispatches \ {d} : records'[e] = records[e]
  BY <1>2, <1>4, <1>6, <1>8, WriteTypes
<1>10. /\ Continue(q).op = "interrupt" /\ Continue(q).pc = "Chore" /\ Continue(q).d = d
       /\ Continue(q).chores = k
  BY <1>3, <1>5, ContinueFacts
<1>11. ~Releasing(Continue(q))
  BY <1>3, <1>10 DEF Releasing
<1> QED BY <1>2, <1>4, <1>7, <1>9, <1>10, <1>11 DEF Ends, Fields, Terminal

\* A terminal record is purged.
LEMMA PurgeTypes ==
    ASSUME TypeInv, NEW c \in Callers, PurgeTerminal(c)
    PROVE  TypeInv' /\ \E d \in Dispatches : Ends(c, d)
<1>0. /\ lastToken \in Nat /\ clock \in Nat /\ epoch \in Nat /\ Lease \in Nat
  BY TypeFacts, NatsConstants
<1> DEFINE r == [Missing EXCEPT !.status = "Purged"]
<1>1. PICK d \in Dispatches :
        /\ records[d].status \in Terminal
        /\ Write(c, d, r, Continue([Idle EXCEPT !.op = "purge", !.d = d, !.chores = <<"index">>]))
        /\ UNCHANGED <<keyed, epoch, guard, lock, index, clock, lastToken, boot>>
  BY DEF PurgeTerminal
<1> DEFINE q == [Idle EXCEPT !.op = "purge", !.d = d, !.chores = <<"index">>]
<1>2. /\ q \in Operation /\ q.op = "purge" /\ q.d = d /\ q.tok = 0 /\ q.now = 0 /\ q.ep = 0
      /\ q.todo = {} /\ q.chores = <<"index">> /\ q.chores # << >>
  BY IdleFacts, ChoreLists DEF Operation, OpName
<1>3. Fields(r, "Purged", 0, 0, 0, 0)
  BY PurgedFields
<1> HIDE DEF q, r
<1>4. RecordOK(r)
  BY <1>0, <1>3, FieldsOK
<1>5. Formed(Continue(q)) /\ ~Continue(q).fresh
  <2>1. q.tok <= lastToken /\ q.now <= clock /\ q.ep <= epoch
    BY <1>0, <1>2
  <2> QED BY <1>2, <2>1, ContinueFormed, ContinueFacts
<1>6. Write(c, d, r, Continue(q))
  BY <1>1 DEF q
<1>7. /\ TypeInv' /\ OthersKept(c) /\ ops'[c] = Continue(q) /\ records'[d] = r
      /\ \A e \in Dispatches \ {d} : records'[e] = records[e]
  BY <1>1, <1>4, <1>5, <1>6, WriteTypes
<1>8. /\ Continue(q).op = "purge" /\ Continue(q).pc = "Chore" /\ Continue(q).chores = <<"index">>
      /\ Continue(q).d = d
  BY <1>2, ContinueFacts
<1>9. ~Releasing(Continue(q)) /\ ~Unlocks(Continue(q))
  BY <1>8 DEF Releasing, Unlocks
<1> QED BY <1>1, <1>3, <1>7, <1>8, <1>9 DEF Ends, Fields

\* The steps of no caller.
Quiet ==
    \/ \E d \in Dispatches : ApplyEntry(d) \/ ApplyFails(d) \/ Signal(d)
    \/ GraceLapses \/ Starting \/ BootSkip \/ BootCrash \/ Tick

\* The other steps: time, the grace of a lock, a starting node.
LEMMA QuietKeys ==
    ASSUME TypeInv,
           Quiet
    PROVE  /\ TypeInv' /\ UNCHANGED <<keyed, records, epoch, guard, ops, lastToken>>
           /\ clock' = clock \/ clock' = clock + 1
           /\ clock' # clock => UNCHANGED lock
           /\ lock' # lock => GraceLapses
<1>0. /\ lastToken \in Nat /\ clock \in Nat /\ epoch \in Nat /\ Lease \in Nat /\ KeyInv /\ OpInv
  BY NatsConstants DEF TypeInv, KeyInv
<1>1. UNCHANGED <<keyed, records, epoch, guard, ops, lastToken>>
  BY DEF Quiet, GraceLapses, Starting, BootSubscribe, BootList, BootScan, BootSkip, BootReplace, ApplyEntry,
         ApplyFails, Taken, Signal, BootCrash, Tick, kv
<1>2. clock' \in 1 .. MaxClock /\ clock' \in Nat /\ clock <= clock' /\ (clock' = clock \/ clock' = clock + 1)
  <2>1. CASE Tick
    BY <1>0, <2>1, NatsConstants DEF Tick, KeyInv
  <2>2. CASE ~Tick
    <3>1. clock' = clock
      BY <2>2 DEF Quiet, GraceLapses, Starting, BootSubscribe, BootList, BootScan, BootSkip, BootReplace, ApplyEntry,
         ApplyFails, Taken, Signal, BootCrash
    <3> QED BY <1>0, <3>1 DEF KeyInv
  <2> QED BY <2>1, <2>2
<1>3. \/ lock' = lock
      \/ /\ GraceLapses /\ clock' = clock /\ lock.d # Nobody
         /\ lock' = [lock EXCEPT !.young = FALSE,
                                 !.slow = IF Enqueuing(lock.d) THEN @ \cup {lock.d} ELSE @]
  BY DEF Quiet, GraceLapses, Starting, BootSubscribe, BootList, BootScan, BootSkip, BootReplace, ApplyEntry,
         ApplyFails, Taken, Signal, BootCrash, Tick, kv
<1>4. lock' \in LockType
  <2> DEFINE s == IF Enqueuing(lock.d) THEN lock.slow \cup {lock.d} ELSE lock.slow
  <2>1. lock \in LockType
    BY <1>0 DEF KeyInv
  <2>2. lock.d # Nobody => s \in SUBSET Dispatches
    BY <2>1 DEF LockType
  <2>3. lock' = lock \/ (lock.d # Nobody /\ lock' = [lock EXCEPT !.young = FALSE, !.slow = s])
    BY <1>3
  <2> HIDE DEF s
  <2>4. CASE lock' = lock
    BY <2>1, <2>4
  <2>5. CASE lock.d # Nobody /\ lock' = [lock EXCEPT !.young = FALSE, !.slow = s]
    <3>1. s \in SUBSET Dispatches
      BY <2>2, <2>5
    <3> QED BY <2>1, <2>5, <3>1 DEF LockType
  <2> QED BY <2>3, <2>4, <2>5
<1>5. index' \subseteq Dispatches
  <2>0. index \subseteq Dispatches /\ boot.found \subseteq Dispatches
    BY <1>0 DEF KeyInv, BootType
  <2>1. ASSUME NEW d \in Dispatches, ApplyEntry(d) \/ ApplyFails(d) \/ Signal(d)
        PROVE  index' \subseteq Dispatches
    BY <2>0, <2>1 DEF ApplyEntry, ApplyFails, Signal
  <2>2. CASE Starting
    BY <2>0, <2>2 DEF Starting, BootSubscribe, BootList, BootScan, BootReplace, kv
  <2>3. CASE GraceLapses \/ BootSkip \/ BootCrash \/ Tick
    BY <2>0, <2>3 DEF GraceLapses, BootSkip, BootCrash, Tick, kv
  <2> QED BY <2>1, <2>2, <2>3 DEF Quiet
<1>6. pending' \subseteq Dispatches \X {"live", "terminal"}
  BY <1>0 DEF Quiet, GraceLapses, Starting, BootSubscribe, BootList, BootScan, BootSkip, BootReplace, ApplyEntry,
         ApplyFails, Taken, Signal, BootCrash, Tick, kv, KeyInv
<1>7. boot' \in BootType
  <2>0. boot \in BootType
    BY <1>0 DEF KeyInv
  <2>l. \A d \in Dispatches : Learned(d) \in BootType
    BY <2>0 DEF Learned, BootType
  <2>1. CASE BootSubscribe
    <3>1. boot.count + 1 \in Nat
      BY <2>0 DEF BootType
    <3> QED BY <2>0, <2>1, <3>1 DEF BootSubscribe, BootType
  <2>2. CASE BootList
    BY <2>0, <2>2 DEF BootList, Listed, BootType
  <2>3. CASE BootScan
    <3>1. PICK d \in boot.keys :
             boot' = [boot EXCEPT !.keys = @ \ {d},
                                !.seen = @ \/ records[d].status # "Purged",
                                !.found = IF records[d].status \in {"Queued", "Claimed"} THEN @ \cup {d} ELSE @,
                                !.known = IF records[d].status # "Purged" THEN @ \cup {d} ELSE @]
      BY <2>3 DEF BootScan
    <3> DEFINE k == boot.keys \ {d}
               s == (boot.seen \/ records[d].status # "Purged")
               f == IF records[d].status \in {"Queued", "Claimed"} THEN boot.found \cup {d} ELSE boot.found
               n == IF records[d].status # "Purged" THEN boot.known \cup {d} ELSE boot.known
    <3>2. k \in SUBSET Dispatches /\ s \in BOOLEAN /\ f \in SUBSET Dispatches /\ n \in SUBSET Dispatches
      BY <2>0 DEF BootType
    <3>3. boot' = [boot EXCEPT !.keys = k, !.seen = s, !.found = f, !.known = n]
      BY <3>1
    <3> HIDE DEF k, s, f, n
    <3> QED BY <2>0, <3>2, <3>3 DEF BootType
  <2>4. CASE BootSkip
    <3>1. PICK d \in boot.keys :
             boot' = [boot EXCEPT !.keys = @ \ {d}, !.missed = @ \cup {d}, !.troubles = @ + 1]
      BY <2>4 DEF BootSkip
    <3> DEFINE k == boot.keys \ {d}
               m == boot.missed \cup {d}
               t == boot.troubles + 1
    <3>2. k \in SUBSET Dispatches /\ m \in SUBSET Dispatches /\ t \in Nat
      BY <2>0 DEF BootType
    <3>3. boot' = [boot EXCEPT !.keys = k, !.missed = m, !.troubles = t]
      BY <3>1
    <3> HIDE DEF k, m, t
    <3> QED BY <2>0, <3>2, <3>3 DEF BootType
  <2>5. CASE BootReplace
    BY <2>0, <2>5 DEF BootReplace, BootType
  <2>6. CASE BootCrash
    BY <2>0, <2>6 DEF BootCrash, BootType
  <2>7. ASSUME NEW d \in Dispatches, ApplyFails(d) PROVE boot' \in BootType
    <3> DEFINE n == Learned(d)
               t == n.troubles + 1
    <3>1. n \in BootType /\ boot' = [n EXCEPT !.troubles = t]
      BY <2>l, <2>7 DEF ApplyFails
    <3> HIDE DEF n
    <3>2. t \in Nat
      BY <3>1 DEF BootType
    <3> HIDE DEF t
    <3> QED BY <3>1, <3>2 DEF BootType
  <2>8. ASSUME NEW d \in Dispatches, ApplyEntry(d) \/ Signal(d) PROVE boot' \in BootType
    BY <2>0, <2>l, <2>8 DEF ApplyEntry, Signal
  <2>9. CASE GraceLapses \/ Tick
    BY <2>0, <2>9 DEF GraceLapses, Tick
  <2> QED BY <2>1, <2>2, <2>3, <2>4, <2>5, <2>6, <2>7, <2>8, <2>9 DEF Starting, Quiet
<1>8. KeyInv'
  <2>1. \A d \in Dispatches : RecordOK(records[d])'
    <3> TAKE d \in Dispatches
    <3>1. records[d].lease <= clock' + Lease
      BY <1>0, <1>2, RecordFacts
    <3> QED BY <1>1, <3>1, RecordFacts DEF RecordOK
  <2>2. guard' \in [d : Dispatches \cup {Nobody}, tok : 0 .. lastToken', lease : 0 .. clock' + Lease]
    BY <1>0, <1>1, <1>2 DEF KeyInv
  <2> QED BY <1>0, <1>1, <1>2, <1>4, <1>5, <1>6, <1>7, <2>1, <2>2 DEF KeyInv
<1>9. OpInv'
  <2> SUFFICES ASSUME NEW c \in Callers PROVE Formed(ops[c])' /\ Seen(ops[c])'
    BY <1>0, <1>1 DEF OpInv
  <2>1. Formed(ops[c]) /\ Seen(ops[c]) /\ ops[c] \in Operation
    BY <1>0 DEF OpInv
  <2>2. ops[c].now <= clock'
    BY <1>0, <1>2, <2>1 DEF Formed, Operation
  <2> QED BY <1>1, <2>1, <2>2 DEF Formed, InPlace, Seen
<1> QED BY <1>1, <1>2, <1>3, <1>8, <1>9 DEF TypeInv

\* The types hold initially.
LEMMA TypeInit == Init => TypeInv
<1> SUFFICES ASSUME Init PROVE TypeInv
  OBVIOUS
<1>1. Missing \in Stored
  BY NatsConstants DEF Missing, Stored, Status
<1>2. RecordOK(Missing)
  BY <1>1, NatsConstants DEF Init, RecordOK, Missing
<1>3. Unheld \in [d : Dispatches \cup {Nobody}, tok : 0 .. lastToken, lease : 0 .. clock + Lease]
  BY NatsConstants DEF Init, Unheld
<1>4. Unlocked \in LockType
  BY LockValues
<1>5. boot \in BootType
  BY DEF Init, BootType
<1>6. KeyInv
  <2>1. keyed \subseteq Dispatches
    BY NatsConstants DEF Init
  <2>2. epoch \in 0 .. MaxEpoch /\ clock \in 1 .. MaxClock /\ lastToken \in 0 .. MaxToken
    BY NatsConstants DEF Init
  <2> QED BY <1>1, <1>2, <1>3, <1>4, <1>5, <2>1, <2>2 DEF Init, KeyInv
<1>7. OpInv
  <2>1. Formed(Idle) /\ Seen(Idle)
    BY IdleFacts, NatsConstants DEF Init, Formed, InPlace, Seen
  <2> QED BY <2>1, IdleFacts DEF Init, OpInv
<1> QED BY <1>6, <1>7 DEF TypeInv

\* A step of the store leaves everything but its steps alone.
LEMMA TypeStutter == ASSUME TypeInv, UNCHANGED vars PROVE TypeInv'
<1>1. UNCHANGED <<keyed, records, epoch, guard, lock, index, ops, clock, lastToken, boot, pending>>
  BY DEF vars, kv
<1>2. KeyInv'
  BY <1>1 DEF TypeInv, KeyInv, RecordOK
<1>3. OpInv'
  <2> SUFFICES ASSUME NEW c \in Callers PROVE Formed(ops[c])' /\ Seen(ops[c])'
    BY <1>1 DEF TypeInv, OpInv
  <2>1. Formed(ops[c]) /\ Seen(ops[c])
    BY DEF TypeInv, OpInv
  <2> QED BY <1>1, <2>1 DEF Formed, InPlace, Seen
<1> QED BY <1>2, <1>3 DEF TypeInv

\* Every step keeps the types.
LEMMA TypeStep == TypeInv /\ [Next]_vars => TypeInv'
<1> SUFFICES ASSUME TypeInv, [Next]_vars PROVE TypeInv'
  OBVIOUS
<1>1. ASSUME NEW c \in Callers,
             \/ StartEnqueue(c) \/ TakeLock(c) \/ PurgeLock(c) \/ AppendIndex(c) \/ Put(c) \/ EnqueueFails(c)
      PROVE  TypeInv'
  BY <1>1, EnqueueTypes, PutTypes
<1>2. ASSUME NEW c \in Callers,
             \/ StartClaim(c) \/ StartClaimDispatch(c) \/ PickClaim(c) \/ Acquire(c) \/ ClaimCas(c)
      PROVE  TypeInv'
  BY <1>2, ClaimTypes, RefusedTypes, AcquiredTypes, ClaimedTypes, ClaimLostTypes
<1>3. ASSUME NEW c \in Callers, StartUpdate(c) \/ Cas(c) \/ Supersede(c) \/ ExtendGuard(c)
      PROVE  TypeInv'
  BY <1>3, UpdateTypes, RetryTypes, CasTypes, SupersedeTypes, ExtendGuardTypes
<1>4. ASSUME NEW c \in Callers, ReleaseGuard(c) \/ ReleaseLock(c) \/ CleanIndex(c)
      PROVE  TypeInv'
  BY <1>4, ChoreTypes
<1>5. ASSUME NEW c \in Callers,
             \/ StartInterrupt(c) \/ LoadThread(c) \/ PickInterrupt(c) \/ PurgeTerminal(c) \/ Abandon(c)
      PROVE  TypeInv'
  BY <1>5, InterruptTypes, OvertakeTypes, PurgeTypes
<1>6. CASE Quiet
  BY <1>6, QuietKeys
<1>7. CASE UNCHANGED vars
  BY <1>7, TypeStutter
<1> QED BY <1>1, <1>2, <1>3, <1>4, <1>5, <1>6, <1>7 DEF Next, Quiet

\* The keys of the store keep their types, and tokens and leases are on record
\* for claimed dispatches only, whatever callers do at once and wherever they stop.
THEOREM KeysAreTyped == Spec => []NatsTypeOK
<1>1. TypeInv => NatsTypeOK
  <2> SUFFICES ASSUME TypeInv PROVE NatsTypeOK
    OBVIOUS
  <2>1. records \in [Dispatches -> Record]
    <3>1. \A d \in Dispatches : records[d] \in Record
      <4> TAKE d \in Dispatches
      <4>1. /\ records[d] \in Stored /\ records[d].epoch <= epoch /\ epoch <= MaxEpoch /\ epoch \in Nat
            /\ records[d].tok <= lastToken /\ lastToken <= MaxToken /\ lastToken \in Nat
            /\ records[d].lease <= clock + Lease /\ clock <= MaxClock /\ clock \in Nat
        BY RecordFacts, NatsConstants DEF TypeInv, KeyInv
      <4>2. /\ records[d].epoch \in 0 .. MaxEpoch /\ records[d].tok \in 0 .. MaxToken
            /\ records[d].lease \in 0 .. MaxClock + Lease
        BY <4>1, NatsConstants, RecordFacts
      <4> QED BY <4>1, <4>2 DEF Stored, Record
    <3> QED BY <3>1 DEF TypeInv, KeyInv
  <2>2. guard \in [d : Dispatches \cup {Nobody}, tok : 0 .. MaxToken, lease : 0 .. MaxClock + Lease]
    BY NatsConstants DEF TypeInv, KeyInv
  <2>3. \A d \in Dispatches : records[d].status # "Claimed" => records[d].tok = 0 /\ records[d].lease = 0
    BY RecordFacts
  <2> QED BY <2>1, <2>2, <2>3 DEF TypeInv, KeyInv, NatsTypeOK, LockType
<1> QED BY <1>1, TypeInit, TypeStep, PTL DEF Spec

-----------------------------------------------------------------------------
(* The guard invariant is inductive.                                       *)

\* An operation claims, releases and renews nothing it did not before.
Was(o, n) ==
    /\ n.pc = "ClaimCas" => o.pc = "ClaimCas" /\ n.d = o.d /\ n.tok = o.tok /\ n.now = o.now
    /\ Releasing(n) => Releasing(o) /\ n.d = o.d /\ n.tok = o.tok
    /\ n.op = "extend" =>
         /\ o.op = "extend" /\ n.d = o.d /\ n.tok = o.tok /\ n.now = o.now
         /\ n.pc = "Cas" /\ n.fresh => o.pc = "Cas" /\ o.fresh

\* That is so of the others in a step of caller c, and of itself when tame.
LEMMA WasLemma ==
    /\ \A o, n : Kept(o, n) => Was(o, n)
    /\ \A o, n : Tame(o, n) => Was(o, n)
    /\ \A o : Was(o, o) /\ Was(o, Idle)
BY IdleFacts DEF Kept, Tame, Was, Releasing

\* Where operations that matter to the guard are.
LEMMA GuardPlaces ==
    ASSUME TypeInv, NEW c \in Callers
    PROVE  /\ ops[c].pc = "ClaimCas" => ops[c].d \in Dispatches
           /\ Releasing(ops[c]) => ops[c].d \in Dispatches
           /\ ops[c].op = "extend" => ops[c].d \in Dispatches
           /\ ops[c].tok \in Nat /\ ops[c].now \in Nat /\ ops[c].tok <= lastToken /\ ops[c].now <= clock
           /\ clock \in Nat /\ lastToken \in Nat /\ Lease \in Nat /\ Lease # 0
           /\ guard \in [d : Dispatches \cup {Nobody}, tok : 0 .. lastToken, lease : 0 .. clock + Lease]
<1>1. /\ Formed(ops[c]) /\ InPlace(ops[c]) /\ ops[c] \in Operation
  BY TypeFacts
<1>2. Releasing(ops[c]) => ops[c].pc = "Chore"
  BY <1>1 DEF Releasing, Formed
<1>3. /\ ops[c].pc = "ClaimCas" => ops[c].d \in Dispatches
      /\ Releasing(ops[c]) => ops[c].d \in Dispatches
      /\ ops[c].op = "extend" => ops[c].d \in Dispatches
  BY <1>1, <1>2 DEF Formed, InPlace
<1> QED BY <1>1, <1>3, NatsConstants DEF TypeInv, KeyInv, Formed, Operation

\* And where they are after a step.
LEMMA GuardPlacesNext ==
    ASSUME TypeInv', NEW c \in Callers
    PROVE  /\ Releasing(ops'[c]) => ops'[c].d \in Dispatches
           /\ ops'[c].op = "extend" => ops'[c].d \in Dispatches
<1>1. /\ ops'[c].pc \notin {"Idle", "Pick", "Load"} => ops'[c].d \in Dispatches
      /\ ops'[c].pc = "Chore" <=> ops'[c].chores # << >>
      /\ ops'[c].pc = "Idle" => ops'[c].op = "none"
      /\ ops'[c].pc = "Load" => ops'[c].op = "interrupt"
      /\ ops'[c].pc = "Pick" => ops'[c].op \in {"claim", "interrupt"}
  BY DEF TypeInv, OpInv, Formed, InPlace
<1>2. Releasing(ops'[c]) => ops'[c].chores # << >>
  BY DEF Releasing
<1> QED BY <1>1, <1>2

\* A step that leaves records and guard alone.
LEMMA QuietGuard ==
    ASSUME TypeInv, GuardInv, \A x \in Callers : Was(ops[x], ops'[x]),
           UNCHANGED <<records, guard, clock, lastToken>>
    PROVE  GuardInv'
<1>1. TokenPrivate'
  BY DEF GuardInv, TokenPrivate, Was
<1>2. OneRenewal'
  BY DEF GuardInv, OneRenewal, Was
<1>3. ReleaseIsOwn'
  BY DEF GuardInv, ReleaseIsOwn, Was
<1>4. RenewalIsLater'
  BY DEF GuardInv, RenewalIsLater, Was
<1>5. GuardCoversRecord'
  BY DEF GuardInv, GuardCoversRecord, LiveClaim, Covered
<1>6. GuardCoversClaimer'
  BY DEF GuardInv, GuardCoversClaimer, Covered, Was
<1>7. GuardCoversRenewal'
  BY DEF GuardInv, GuardCoversRenewal, Covered, Was
<1> QED BY <1>1, <1>2, <1>3, <1>4, <1>5, <1>6, <1>7 DEF GuardInv

\* A step that ends the claim on a record, or writes an unclaimed one.
LEMMA EndingGuard ==
    ASSUME TypeInv, GuardInv, TypeInv', NEW c \in Callers, NEW d \in Dispatches,
           \A x \in Callers \ {c} : Was(ops[x], ops'[x]),
           UNCHANGED <<guard, clock, lastToken>>,
           records'[d].status # "Claimed", records'[d].tok = 0,
           \A e \in Dispatches \ {d} : records'[e] = records[e],
           ops'[c].pc # "ClaimCas",
           Releasing(ops'[c]) => /\ ops'[c].d = d /\ records[d].status = "Claimed"
                                 /\ ops'[c].tok = records[d].tok,
           ops'[c].op = "extend" => /\ ops[c].op = "extend" /\ ops'[c].d = ops[c].d
                                    /\ ops'[c].tok = ops[c].tok /\ ops'[c].now = ops[c].now
                                    /\ ops'[c].pc # "Cas"
    PROVE  GuardInv'
<1>0. \A x \in Callers : /\ Releasing(ops'[x]) => ops'[x].d \in Dispatches
                         /\ ops'[x].op = "extend" => ops'[x].d \in Dispatches
  BY GuardPlacesNext
<1>1. TokenPrivate'
  BY DEF GuardInv, TokenPrivate, Was
<1>2. OneRenewal'
  BY DEF GuardInv, OneRenewal, Was
<1>3. ReleaseIsOwn'
  BY <1>0 DEF GuardInv, ReleaseIsOwn, Was
<1>4. RenewalIsLater'
  BY <1>0 DEF GuardInv, RenewalIsLater, Was
<1>5. GuardCoversRecord'
  BY DEF GuardInv, GuardCoversRecord, LiveClaim, Covered
<1>6. GuardCoversClaimer'
  BY DEF GuardInv, GuardCoversClaimer, Covered, Was
<1>7. GuardCoversRenewal'
  BY DEF GuardInv, GuardCoversRenewal, Covered, Was
<1> QED BY <1>1, <1>2, <1>3, <1>4, <1>5, <1>6, <1>7 DEF GuardInv

\* The guard is taken only when every lease it covers is over.
LEMMA AcquiredGuard ==
    ASSUME TypeInv, GuardInv, NEW c \in Callers, Acquire(c), ~GuardLive(ops[c].now)
    PROVE  GuardInv'
<1>0. /\ TypeInv' /\ UNCHANGED <<records, clock>> /\ lastToken' = lastToken + 1
      /\ guard' = [d |-> ops[c].d, tok |-> lastToken + 1, lease |-> ops[c].now + Lease]
      /\ ops'[c].op = "claim" /\ ops'[c].pc = "ClaimCas" /\ ops'[c].d = ops[c].d
      /\ ops'[c].tok = lastToken + 1 /\ ops'[c].now = ops[c].now /\ ~Releasing(ops'[c])
      /\ \A x \in Callers \ {c} : Was(ops[x], ops'[x])
  BY AcquiredTypes, WasLemma DEF OthersKept, Releasing
<1>1. /\ \A x \in Callers : /\ ops[x].tok \in Nat /\ ops[x].tok <= lastToken
                            /\ ops[x].now \in Nat /\ ops[x].now <= clock
      /\ clock \in Nat /\ lastToken \in Nat /\ Lease \in Nat /\ guard.lease \in Nat
      /\ guard.lease < ops[c].now
      /\ \A d \in Dispatches : /\ records[d].tok \in Nat /\ records[d].tok <= lastToken
                               /\ records[d].lease \in Nat
  <2>1. /\ ops[c].now \in Nat /\ clock \in Nat /\ lastToken \in Nat /\ Lease \in Nat
        /\ guard \in [d : Dispatches \cup {Nobody}, tok : 0 .. lastToken, lease : 0 .. clock + Lease]
    BY GuardPlaces
  <2>2. guard.lease \in Nat
    BY <2>1
  <2>3. guard.lease < ops[c].now
    BY <2>1, <2>2 DEF GuardLive
  <2>4. \A x \in Callers : /\ ops[x].tok \in Nat /\ ops[x].tok <= lastToken
                            /\ ops[x].now \in Nat /\ ops[x].now <= clock
    BY GuardPlaces
  <2>5. \A d \in Dispatches : /\ records[d].tok \in Nat /\ records[d].tok <= lastToken
                               /\ records[d].lease \in Nat
    BY RecordFacts
  <2> QED BY <2>1, <2>2, <2>3, <2>4, <2>5
<1>2. \A d \in Dispatches : ~LiveClaim(d)
  <2> SUFFICES ASSUME NEW d \in Dispatches, LiveClaim(d) PROVE FALSE
    OBVIOUS
  <2>1. guard.lease >= records[d].lease
    BY DEF GuardInv, GuardCoversRecord, Covered
  <2>2. records[d].lease >= clock
    BY DEF LiveClaim
  <2>3. ops[c].now <= clock /\ ops[c].now \in Nat
    BY <1>1
  <2> QED BY <1>1, <2>1, <2>2, <2>3
<1>3. \A x \in Callers : ops[x].pc = "ClaimCas" => ~(ops[x].now + Lease >= clock)
  BY <1>1 DEF GuardInv, GuardCoversClaimer, Covered
<1>4. \A x \in Callers : ops[x].op = "extend" /\ ops[x].pc = "Cas" /\ ops[x].fresh => ~(ops[x].now + Lease >= clock)
  BY <1>1 DEF GuardInv, GuardCoversRenewal, Covered
<1>5. TokenPrivate'
  <2>1. \A x \in Callers \ {c} : ops'[x].pc = "ClaimCas" \/ ops'[x].op = "extend" \/ Releasing(ops'[x])
            => ops'[x].tok = ops[x].tok /\ ops'[x].tok # lastToken + 1
    BY <1>0, <1>1 DEF Was
  <2>2. \A d \in Dispatches : records'[d].tok # lastToken + 1
    BY <1>0, <1>1
  <2>3. lastToken + 1 # 0
    BY <1>1
  <2> QED BY <1>0, <2>1, <2>2, <2>3 DEF GuardInv, TokenPrivate, Was
<1>6. OneRenewal'
  BY <1>0 DEF GuardInv, OneRenewal, Was
<1>7. ReleaseIsOwn'
  BY <1>0 DEF GuardInv, ReleaseIsOwn, Was
<1>8. RenewalIsLater'
  BY <1>0 DEF GuardInv, RenewalIsLater, Was
<1>9. GuardCoversRecord'
  BY <1>0, <1>2 DEF GuardCoversRecord, LiveClaim
<1>10. GuardCoversClaimer'
  BY <1>0, <1>1, <1>3 DEF GuardCoversClaimer, Covered, Was
<1>11. GuardCoversRenewal'
  BY <1>0, <1>4 DEF GuardCoversRenewal, Was
<1> QED BY <1>5, <1>6, <1>7, <1>8, <1>9, <1>10, <1>11 DEF GuardInv

\* The record takes over the lease of its claimer.
LEMMA ClaimedGuard ==
    ASSUME TypeInv, GuardInv, NEW c \in Callers, ClaimCas(c), ops[c].fresh
    PROVE  GuardInv'
<1> DEFINE d == ops[c].d
<1>0. /\ TypeInv' /\ UNCHANGED <<guard, clock, lastToken>>
      /\ records'[d].status = "Claimed" /\ records'[d].tok = ops[c].tok
      /\ records'[d].lease = ops[c].now + Lease
      /\ \A e \in Dispatches \ {d} : records'[e] = records[e]
      /\ ops'[c] = Idle /\ ops[c].pc = "ClaimCas"
      /\ \A x \in Callers : Was(ops[x], ops'[x])
  BY ClaimedTypes, WasLemma DEF OthersKept, ClaimCas, At
<1>1. \A x \in Callers : /\ Releasing(ops'[x]) => ops'[x].d \in Dispatches /\ x # c
                         /\ ops'[x].op = "extend" => ops'[x].d \in Dispatches /\ x # c
                         /\ ops'[x].pc = "ClaimCas" => x # c
  BY <1>0, GuardPlacesNext, IdleFacts DEF Releasing
<1>2. d \in Dispatches
  BY <1>0, GuardPlaces
<1>3. TokenPrivate'
  <2>1. \A x \in Callers \ {c} : ops[x].pc = "ClaimCas" => ops[x].tok # ops[c].tok
    BY <1>0 DEF GuardInv, TokenPrivate
  <2> QED BY <1>0, <1>1, <1>2, <2>1 DEF GuardInv, TokenPrivate, Was
<1>4. OneRenewal'
  BY <1>0 DEF GuardInv, OneRenewal, Was
<1>5. ReleaseIsOwn'
  <2>1. \A x \in Callers \ {c} : Releasing(ops[x]) => ops[x].tok # ops[c].tok
    BY <1>0 DEF GuardInv, TokenPrivate
  <2> QED BY <1>0, <1>1, <1>2, <2>1 DEF GuardInv, ReleaseIsOwn, Was
<1>6. RenewalIsLater'
  <2>1. \A x \in Callers \ {c} : ops[x].op = "extend" => ops[x].tok # ops[c].tok
    BY <1>0 DEF GuardInv, TokenPrivate
  <2> QED BY <1>0, <1>1, <1>2, <2>1 DEF GuardInv, RenewalIsLater, Was
<1>7. GuardCoversRecord'
  BY <1>0, <1>2 DEF GuardInv, GuardCoversRecord, GuardCoversClaimer, LiveClaim, Covered
<1>8. GuardCoversClaimer'
  BY <1>0 DEF GuardInv, GuardCoversClaimer, Covered, Was
<1>9. GuardCoversRenewal'
  BY <1>0 DEF GuardInv, GuardCoversRenewal, Covered, Was
<1> QED BY <1>3, <1>4, <1>5, <1>6, <1>7, <1>8, <1>9 DEF GuardInv

\* A claimer that lost its record has only its guard to give back.
LEMMA ClaimLostGuard ==
    ASSUME TypeInv, GuardInv, NEW c \in Callers, ClaimCas(c), ~ops[c].fresh
    PROVE  GuardInv'
<1>0. /\ UNCHANGED <<records, guard, clock, lastToken>>
      /\ ops'[c].op = "claim" /\ ops'[c].pc = "Chore" /\ ops'[c].d = ops[c].d
      /\ ops'[c].tok = ops[c].tok /\ ops[c].pc = "ClaimCas"
      /\ \A x \in Callers \ {c} : Was(ops[x], ops'[x])
  BY ClaimLostTypes, WasLemma DEF OthersKept, ClaimCas, At
<1>1. ops[c].d \in Dispatches
  BY <1>0, GuardPlaces
<1>2. TokenPrivate'
  <2>1. \A x \in Callers \ {c} : ops[x].pc = "ClaimCas" => ops[x].tok # ops[c].tok
    BY <1>0 DEF GuardInv, TokenPrivate
  <2> QED BY <1>0, <2>1 DEF GuardInv, TokenPrivate, Was
<1>3. OneRenewal'
  BY <1>0 DEF GuardInv, OneRenewal, Was
<1>4. ReleaseIsOwn'
  BY <1>0, <1>1 DEF GuardInv, TokenPrivate, ReleaseIsOwn, Was
<1>5. RenewalIsLater'
  BY <1>0 DEF GuardInv, RenewalIsLater, Was
<1>6. GuardCoversRecord'
  BY <1>0 DEF GuardInv, GuardCoversRecord, LiveClaim, Covered
<1>7. GuardCoversClaimer'
  BY <1>0 DEF GuardInv, GuardCoversClaimer, Covered, Was
<1>8. GuardCoversRenewal'
  BY <1>0 DEF GuardInv, GuardCoversRenewal, Covered, Was
<1> QED BY <1>2, <1>3, <1>4, <1>5, <1>6, <1>7, <1>8 DEF GuardInv

\* A renewal starts from a claim on record, at a later time.
LEMMA UpdateGuard ==
    ASSUME TypeInv, GuardInv, NEW c \in Callers, StartUpdate(c)
    PROVE  GuardInv'
<1>0. /\ UNCHANGED <<records, guard, clock, lastToken>>
      /\ ~Releasing(ops'[c]) /\ ops'[c].pc # "ClaimCas"
      /\ ops'[c].op = "extend" =>
           /\ ops'[c].d \in Dispatches /\ ops'[c].now = clock /\ ops'[c].pc # "Cas"
           /\ records[ops'[c].d].status = "Claimed" /\ records[ops'[c].d].tok = ops'[c].tok
           /\ \A x \in Callers : ~(ops[x].op = "extend" /\ ops[x].tok = ops'[c].tok)
      /\ \A x \in Callers \ {c} : Was(ops[x], ops'[x])
  BY UpdateTypes, WasLemma DEF OthersKept, Releasing
<1>1. TokenPrivate'
  BY <1>0 DEF GuardInv, TokenPrivate, Was
<1>2. OneRenewal'
  BY <1>0 DEF GuardInv, OneRenewal, Was
<1>3. ReleaseIsOwn'
  BY <1>0 DEF GuardInv, ReleaseIsOwn, Was
<1>4. RenewalIsLater'
  <2>1. ops'[c].op = "extend" => records'[ops'[c].d].lease <= ops'[c].now + Lease
    BY <1>0, RecordFacts
  <2> QED BY <1>0, <2>1 DEF GuardInv, RenewalIsLater, Was
<1>5. GuardCoversRecord'
  BY <1>0 DEF GuardInv, GuardCoversRecord, LiveClaim, Covered
<1>6. GuardCoversClaimer'
  BY <1>0 DEF GuardInv, GuardCoversClaimer, Covered, Was
<1>7. GuardCoversRenewal'
  BY <1>0 DEF GuardInv, GuardCoversRenewal, Covered, Was
<1> QED BY <1>1, <1>2, <1>3, <1>4, <1>5, <1>6, <1>7 DEF GuardInv

\* A renewed lease is covered by the guard that was renewed before it.
LEMMA RenewedGuard ==
    ASSUME TypeInv, GuardInv, NEW c \in Callers, Cas(c), ops[c].fresh, ops[c].op = "extend"
    PROVE  GuardInv'
<1> DEFINE d == ops[c].d
<1>0. /\ TypeInv' /\ UNCHANGED <<guard, clock, lastToken>> /\ d \in Dispatches
      /\ records[d].status = "Claimed" /\ records[d].tok = ops[c].tok
      /\ records'[d].status = "Claimed" /\ records'[d].tok = ops[c].tok
      /\ records'[d].lease = ops[c].now + Lease
      /\ \A e \in Dispatches \ {d} : records'[e] = records[e]
      /\ Done(c) /\ OthersKept(c) /\ ops[c].pc = "Cas"
  BY CasTypes DEF Cas, At
<1>1. /\ ops'[c].pc \notin {"ClaimCas", "Cas"} /\ ~Releasing(ops'[c])
      /\ ops'[c].op = "extend" => ops'[c].d = d /\ ops'[c].tok = ops[c].tok /\ ops'[c].now = ops[c].now
  BY <1>0 DEF Done
<1>2. \A x \in Callers \ {c} : Was(ops[x], ops'[x])
  BY <1>0, WasLemma DEF OthersKept
<1>3. \A x \in Callers : /\ Releasing(ops'[x]) => ops'[x].d \in Dispatches
                         /\ ops'[x].op = "extend" => ops'[x].d \in Dispatches
  BY <1>0, GuardPlacesNext
<1>4. TokenPrivate'
  BY <1>0, <1>1, <1>2 DEF GuardInv, TokenPrivate, Was
<1>5. OneRenewal'
  BY <1>0, <1>1, <1>2 DEF GuardInv, OneRenewal, Was
<1>6. ReleaseIsOwn'
  BY <1>0, <1>1, <1>2, <1>3 DEF GuardInv, ReleaseIsOwn, Was
<1>7. RenewalIsLater'
  <2>1. ops'[c].op = "extend" => records'[ops'[c].d].lease <= ops'[c].now + Lease
    <3>1. ops[c].now + Lease \in Nat
      BY GuardPlaces
    <3> QED BY <1>0, <1>1, <3>1
  <2>2. \A x \in Callers \ {c} : ops'[x].op = "extend" => ops[x].op = "extend" /\ ops'[x].tok # ops[c].tok
    BY <1>2 DEF GuardInv, OneRenewal, Was
  <2> QED BY <1>0, <1>1, <1>2, <1>3, <2>1, <2>2 DEF GuardInv, RenewalIsLater, Was
<1>8. GuardCoversRecord'
  BY <1>0 DEF GuardInv, GuardCoversRecord, GuardCoversRenewal, LiveClaim, Covered
<1>9. GuardCoversClaimer'
  BY <1>0, <1>1, <1>2 DEF GuardInv, GuardCoversClaimer, Covered, Was
<1>10. GuardCoversRenewal'
  BY <1>0, <1>1, <1>2 DEF GuardInv, GuardCoversRenewal, Covered, Was
<1> QED BY <1>4, <1>5, <1>6, <1>7, <1>8, <1>9, <1>10 DEF GuardInv

\* The guard is renewed by the holder of its token, and no lease it covers gets
\* shorter.
LEMMA ExtendedGuard ==
    ASSUME TypeInv, GuardInv, NEW c \in Callers, ExtendGuard(c)
    PROVE  GuardInv'
<1>0. /\ UNCHANGED <<records, clock, lastToken>> /\ ops[c].op = "extend" /\ ops[c].pc = "ExtendGuard"
      /\ \A x \in Callers \ {c} : Was(ops[x], ops'[x])
      /\ \/ /\ HoldsGuard(ops[c]) /\ guard' = [guard EXCEPT !.lease = ops[c].now + Lease]
            /\ ops'[c].op = "extend" /\ ops'[c].pc = "Cas" /\ ops'[c].d = ops[c].d
            /\ ops'[c].tok = ops[c].tok /\ ops'[c].now = ops[c].now /\ ~Releasing(ops'[c])
         \/ guard' = guard /\ ops'[c] = Idle
  BY ExtendGuardTypes, WasLemma DEF OthersKept, Releasing
<1>1. CASE guard' = guard /\ ops'[c] = Idle
  <2>1. \A x \in Callers : Was(ops[x], ops'[x])
    BY <1>0, <1>1, WasLemma
  <2> QED BY <1>0, <1>1, <2>1, QuietGuard
<1>2. CASE /\ HoldsGuard(ops[c]) /\ guard' = [guard EXCEPT !.lease = ops[c].now + Lease]
           /\ ops'[c].op = "extend" /\ ops'[c].pc = "Cas" /\ ops'[c].d = ops[c].d
           /\ ops'[c].tok = ops[c].tok /\ ops'[c].now = ops[c].now /\ ~Releasing(ops'[c])
  <2>0. /\ guard.d = ops[c].d /\ guard.tok = ops[c].tok /\ guard'.d = ops[c].d /\ guard'.tok = ops[c].tok
        /\ guard'.lease = ops[c].now + Lease
    BY <1>2, GuardPlaces DEF HoldsGuard
  <2>1. TokenPrivate'
    BY <1>0, <1>2 DEF GuardInv, TokenPrivate, Was
  <2>2. OneRenewal'
    BY <1>0, <1>2 DEF GuardInv, OneRenewal, Was
  <2>3. ReleaseIsOwn'
    BY <1>0, <1>2 DEF GuardInv, ReleaseIsOwn, Was
  <2>4. RenewalIsLater'
    BY <1>0, <1>2 DEF GuardInv, RenewalIsLater, Was
  <2>5. GuardCoversRecord'
    <3> SUFFICES ASSUME NEW e \in Dispatches, LiveClaim(e)'
                 PROVE  Covered(e, records[e].tok, records[e].lease)'
      BY DEF GuardCoversRecord
    <3>1. LiveClaim(e) /\ e = ops[c].d /\ records[e].tok = ops[c].tok
      BY <1>0, <2>0 DEF GuardInv, GuardCoversRecord, LiveClaim, Covered
    <3>2. records[e].lease <= ops[c].now + Lease
      BY <1>0, <3>1 DEF GuardInv, RenewalIsLater, LiveClaim
    <3>3. records[e].lease \in Nat /\ ops[c].now + Lease \in Nat
      BY GuardPlaces, RecordFacts
    <3> QED BY <1>0, <2>0, <3>1, <3>2, <3>3 DEF Covered
  <2>6. GuardCoversClaimer'
    <3>1. \A x \in Callers : ops[x].pc = "ClaimCas" => ~(ops[x].now + Lease >= clock)
      BY <1>0, <2>0 DEF GuardInv, GuardCoversClaimer, TokenPrivate, Covered
    <3> QED BY <1>0, <1>2, <3>1 DEF GuardCoversClaimer, Was
  <2>7. GuardCoversRenewal'
    <3>1. \A x \in Callers \ {c} :
            ops[x].op = "extend" /\ ops[x].pc = "Cas" /\ ops[x].fresh => ~(ops[x].now + Lease >= clock)
      BY <1>0, <2>0 DEF GuardInv, GuardCoversRenewal, OneRenewal, Covered
    <3>2. ops[c].now + Lease \in Nat
      BY GuardPlaces
    <3> QED BY <1>0, <1>2, <2>0, <3>1, <3>2 DEF GuardCoversRenewal, Covered, Was
  <2> QED BY <2>1, <2>2, <2>3, <2>4, <2>5, <2>6, <2>7 DEF GuardInv
<1> QED BY <1>0, <1>1, <1>2

\* Who releases the guard has no claim under it any more, and nobody else has.
LEMMA ReleasedGuard ==
    ASSUME TypeInv, GuardInv, NEW c \in Callers, ReleaseGuard(c)
    PROVE  GuardInv'
<1>0. /\ UNCHANGED <<records, clock, lastToken>> /\ guard' = Released(ops[c])
      /\ \A x \in Callers : Was(ops[x], ops'[x])
  BY ChoreTypes, WasLemma DEF OthersKept, ReleaseGuard
<1>1. Releasing(ops[c]) /\ ops[c].d \in Dispatches
  <2>1. /\ ops[c].chores \in Seq(Chore) /\ ops[c].chores # << >> /\ Head(ops[c].chores) = "guard"
    BY TypeFacts DEF ReleaseGuard, At, Formed, Operation
  <2>2. 1 \in DOMAIN ops[c].chores /\ ops[c].chores[1] = "guard"
    BY <2>1
  <2>3. Releasing(ops[c])
    BY <2>2 DEF Releasing
  <2> QED BY <2>3, GuardPlaces
<1>2. CASE ~HoldsGuard(ops[c])
  <2>1. guard' = guard
    BY <1>0, <1>2 DEF Released
  <2> QED BY <1>0, <2>1, QuietGuard
<1>3. CASE HoldsGuard(ops[c])
  <2>1. \A e \in Dispatches : ~LiveClaim(e)
    BY <1>1, <1>3 DEF GuardInv, GuardCoversRecord, ReleaseIsOwn, LiveClaim, Covered, HoldsGuard
  <2>2. \A x \in Callers : ops[x].pc = "ClaimCas" => ~(ops[x].now + Lease >= clock)
    <3> SUFFICES ASSUME NEW x \in Callers, ops[x].pc = "ClaimCas", ops[x].now + Lease >= clock PROVE FALSE
      OBVIOUS
    <3>1. ops[x].tok = ops[c].tok
      BY <1>3 DEF GuardInv, GuardCoversClaimer, Covered, HoldsGuard
    <3>2. x # c
      BY TypeFacts DEF ReleaseGuard, At
    <3> QED BY <1>1, <3>1, <3>2 DEF GuardInv, TokenPrivate
  <2>3. \A x \in Callers :
          ops[x].op = "extend" /\ ops[x].pc = "Cas" /\ ops[x].fresh => ~(ops[x].now + Lease >= clock)
    <3> SUFFICES ASSUME NEW x \in Callers, ops[x].op = "extend", ops[x].pc = "Cas", ops[x].fresh,
                        ops[x].now + Lease >= clock
                 PROVE  FALSE
      OBVIOUS
    <3>1. ops[x].tok = ops[c].tok /\ ops[x].d = ops[c].d
      BY <1>3 DEF GuardInv, GuardCoversRenewal, Covered, HoldsGuard
    <3>2. records[ops[x].d].status = "Claimed" /\ records[ops[x].d].tok = ops[x].tok
      BY TypeFacts DEF Seen
    <3> QED BY <1>1, <3>1, <3>2 DEF GuardInv, ReleaseIsOwn
  <2>4. TokenPrivate'
    BY <1>0 DEF GuardInv, TokenPrivate, Was
  <2>5. OneRenewal'
    BY <1>0 DEF GuardInv, OneRenewal, Was
  <2>6. ReleaseIsOwn'
    BY <1>0 DEF GuardInv, ReleaseIsOwn, Was
  <2>7. RenewalIsLater'
    BY <1>0 DEF GuardInv, RenewalIsLater, Was
  <2>8. GuardCoversRecord'
    BY <1>0, <2>1 DEF GuardCoversRecord, LiveClaim
  <2>9. GuardCoversClaimer'
    BY <1>0, <2>2 DEF GuardCoversClaimer, Was
  <2>10. GuardCoversRenewal'
    BY <1>0, <2>3 DEF GuardCoversRenewal, Was
  <2> QED BY <2>4, <2>5, <2>6, <2>7, <2>8, <2>9, <2>10 DEF GuardInv
<1> QED BY <1>2, <1>3

\* Time only ends leases.
LEMMA TickGuard ==
    ASSUME TypeInv, GuardInv, UNCHANGED <<records, guard, ops, lastToken>>, clock' = clock + 1
    PROVE  GuardInv'
<1>0. /\ clock \in Nat /\ Lease \in Nat
      /\ \A d \in Dispatches : records[d].lease \in Nat
      /\ \A c \in Callers : ops[c].now \in Nat
  BY GuardPlaces, RecordFacts, NatsConstants DEF TypeInv, KeyInv
<1>1. TokenPrivate' /\ OneRenewal' /\ ReleaseIsOwn' /\ RenewalIsLater'
  BY DEF GuardInv, TokenPrivate, OneRenewal, ReleaseIsOwn, RenewalIsLater, Releasing
<1>2. GuardCoversRecord'
  BY <1>0 DEF GuardInv, GuardCoversRecord, LiveClaim, Covered
<1>3. GuardCoversClaimer'
  BY <1>0 DEF GuardInv, GuardCoversClaimer, Covered
<1>4. GuardCoversRenewal'
  BY <1>0 DEF GuardInv, GuardCoversRenewal, Covered
<1> QED BY <1>1, <1>2, <1>3, <1>4 DEF GuardInv

\* Every step keeps the guard invariant.
LEMMA GuardStep == TypeInv /\ GuardInv /\ [Next]_vars => GuardInv'
<1> SUFFICES ASSUME TypeInv, GuardInv, [Next]_vars PROVE GuardInv'
  OBVIOUS
<1>t. TypeInv'
  BY TypeStep
<1>1. ASSUME NEW c \in Callers, OthersKept(c), Tame(ops[c], ops'[c]),
             UNCHANGED <<records, guard, clock, lastToken>>
      PROVE  GuardInv'
  <2>1. \A x \in Callers : Was(ops[x], ops'[x])
    BY <1>1, WasLemma DEF OthersKept
  <2> QED BY <1>1, <2>1, QuietGuard
<1>2. ASSUME NEW c \in Callers,
             \/ StartEnqueue(c) \/ TakeLock(c) \/ PurgeLock(c) \/ AppendIndex(c) \/ EnqueueFails(c)
      PROVE  GuardInv'
  <2>1. UNCHANGED <<records, guard, clock, lastToken>>
    BY <1>2 DEF StartEnqueue, TakeLock, PurgeLock, AppendIndex, EnqueueFails, kv
  <2> QED BY <1>1, <1>2, <2>1, EnqueueTypes
<1>3. ASSUME NEW c \in Callers, Put(c) PROVE GuardInv'
  <2>1. \A x \in Callers \ {c} : Was(ops[x], ops'[x])
    BY <1>3, PutTypes, WasLemma DEF OthersKept
  <2>2. ops'[c].pc # "ClaimCas" /\ ~Releasing(ops'[c]) /\ ops'[c].op # "extend"
    BY <1>3, PutTypes, IdleFacts DEF Releasing
  <2> QED BY <1>t, <1>3, <2>1, <2>2, PutTypes, EndingGuard
<1>4. ASSUME NEW c \in Callers, StartClaim(c) \/ StartClaimDispatch(c) \/ PickClaim(c)
      PROVE  GuardInv'
  <2>1. UNCHANGED <<records, guard, clock, lastToken>>
    BY <1>4 DEF StartClaim, StartClaimDispatch, PickClaim, kv
  <2> QED BY <1>1, <1>4, <2>1, ClaimTypes
<1>5. ASSUME NEW c \in Callers, Acquire(c) PROVE GuardInv'
  <2>1. CASE GuardLive(ops[c].now)
    BY <1>1, <1>5, <2>1, RefusedTypes
  <2>2. CASE ~GuardLive(ops[c].now)
    BY <1>5, <2>2, AcquiredGuard
  <2> QED BY <2>1, <2>2
<1>6. ASSUME NEW c \in Callers, ClaimCas(c) PROVE GuardInv'
  BY <1>6, ClaimedGuard, ClaimLostGuard
<1>7. ASSUME NEW c \in Callers, StartUpdate(c) PROVE GuardInv'
  BY <1>7, UpdateGuard
<1>8. ASSUME NEW c \in Callers, Cas(c) \/ Supersede(c), ~ops[c].fresh PROVE GuardInv'
  BY <1>1, <1>8, RetryTypes
<1>9. ASSUME NEW c \in Callers, OthersKept(c), Done(c), ops[c].d \in Dispatches, Seen(ops[c]),
             ops[c].pc \in {"Cas", "Supersede"}, ops[c].fresh, UNCHANGED <<guard, clock, lastToken>>,
             records'[ops[c].d].status # "Claimed", records'[ops[c].d].tok = 0,
             \A e \in Dispatches \ {ops[c].d} : records'[e] = records[e]
      PROVE  GuardInv'
  <2>1. \A x \in Callers \ {c} : Was(ops[x], ops'[x])
    BY <1>9, WasLemma DEF OthersKept
  <2>2. Releasing(ops'[c]) => ops'[c].pc = "Chore"
    BY <1>9 DEF Done, Releasing
  <2>3. ops'[c].op = "extend" => records[ops[c].d].tok = ops[c].tok
    BY <1>9 DEF Done, Seen
  <2>4. /\ ops'[c].pc # "ClaimCas"
        /\ Releasing(ops'[c]) => /\ ops'[c].d = ops[c].d /\ records[ops[c].d].status = "Claimed"
                                 /\ ops'[c].tok = records[ops[c].d].tok
        /\ ops'[c].op = "extend" => /\ ops[c].op = "extend" /\ ops'[c].d = ops[c].d
                                    /\ ops'[c].tok = ops[c].tok /\ ops'[c].now = ops[c].now
                                    /\ ops'[c].pc # "Cas"
    BY <1>9, <2>2, <2>3 DEF Done
  <2> QED BY <1>t, <1>9, <2>1, <2>4, EndingGuard
<1>10. ASSUME NEW c \in Callers, Cas(c), ops[c].fresh PROVE GuardInv'
  <2>0. ops[c].pc = "Cas" /\ Seen(ops[c])
    BY <1>10, TypeFacts DEF Cas, At
  <2>1. CASE ops[c].op = "extend"
    BY <1>10, <2>1, RenewedGuard
  <2>2. CASE ops[c].op \in {"ack", "nack", "dead_letter", "cancel", "reclaim"}
    <3>1. records'[ops[c].d].status # "Claimed" /\ records'[ops[c].d].tok = 0
      BY <1>10, <2>2, CasTypes DEF Terminal
    <3> QED BY <1>9, <1>10, <2>0, <3>1, CasTypes
  <2>3. CASE ops[c].op \in {"record", "supersede"}
    <3>1. /\ records' = records /\ UNCHANGED <<guard, clock, lastToken>> /\ OthersKept(c) /\ Done(c)
      <4>1. \A e \in Dispatches : records'[e] = records[e]
        BY <1>10, <2>3, CasTypes
      <4>2. records \in [Dispatches -> Stored] /\ records' \in [Dispatches -> Stored]
        BY <1>t DEF TypeInv, KeyInv
      <4> QED BY <1>10, <4>1, <4>2, CasTypes
    <3>2. Tame(ops[c], ops'[c])
      BY <2>3, <3>1 DEF Tame, Done
    <3> QED BY <1>1, <3>1, <3>2
  <2> QED BY <1>10, <2>1, <2>2, <2>3, CasTypes
<1>11. ASSUME NEW c \in Callers, Supersede(c), ops[c].fresh PROVE GuardInv'
  <2>0. ops[c].pc = "Supersede" /\ Seen(ops[c])
    BY <1>11, TypeFacts DEF Supersede, At
  <2>1. records'[ops[c].d].status # "Claimed" /\ records'[ops[c].d].tok = 0
    BY <1>11, SupersedeTypes
  <2> QED BY <1>9, <1>11, <2>0, <2>1, SupersedeTypes
<1>12. ASSUME NEW c \in Callers, ExtendGuard(c) \/ ReleaseGuard(c) PROVE GuardInv'
  BY <1>12, ExtendedGuard, ReleasedGuard
<1>13. ASSUME NEW c \in Callers, ReleaseLock(c) \/ CleanIndex(c) PROVE GuardInv'
  <2>1. guard' = guard
    BY <1>13 DEF ReleaseLock, CleanIndex
  <2> QED BY <1>1, <1>13, <2>1, ChoreTypes
<1>14. ASSUME NEW c \in Callers,
             \/ StartInterrupt(c) \/ LoadThread(c) \/ Abandon(c)
             \/ PickInterrupt(c) /\ records' = records
       PROVE  GuardInv'
  BY <1>1, <1>14, InterruptTypes
<1>15. ASSUME NEW c \in Callers, NEW d \in Dispatches, Ends(c, d) PROVE GuardInv'
  <2>1. \A x \in Callers \ {c} : Was(ops[x], ops'[x])
    BY <1>15, WasLemma DEF Ends, OthersKept
  <2>2. records'[d].status # "Claimed"
    BY <1>15 DEF Ends, Terminal
  <2> QED BY <1>t, <1>15, <2>1, <2>2, EndingGuard DEF Ends
<1>16. ASSUME NEW c \in Callers, PurgeTerminal(c) \/ (PickInterrupt(c) /\ records' # records)
       PROVE  GuardInv'
  BY <1>15, <1>16, OvertakeTypes, PurgeTypes
<1>17. CASE Quiet
  <2>1. /\ UNCHANGED <<records, guard, ops, lastToken>> /\ (clock' = clock \/ clock' = clock + 1)
    BY <1>17, QuietKeys
  <2>2. CASE clock' = clock + 1
    BY <2>1, <2>2, TickGuard
  <2>3. CASE clock' = clock
    <3>1. \A x \in Callers : Was(ops[x], ops'[x])
      BY <2>1, WasLemma
    <3> QED BY <2>1, <2>3, <3>1, QuietGuard
  <2> QED BY <2>1, <2>2, <2>3
<1>18. CASE UNCHANGED vars
  <2>1. UNCHANGED <<records, guard, ops, clock, lastToken>>
    BY <1>18 DEF vars, kv
  <2>2. \A x \in Callers : Was(ops[x], ops'[x])
    BY <2>1, WasLemma
  <2> QED BY <2>1, <2>2, QuietGuard
<1>19. ASSUME NEW c \in Callers, Cas(c) \/ Supersede(c) PROVE GuardInv'
  BY <1>8, <1>10, <1>11, <1>19
<1>20. ASSUME NEW c \in Callers, PickInterrupt(c) PROVE GuardInv'
  BY <1>14, <1>16, <1>20
<1> QED BY <1>2, <1>3, <1>4, <1>5, <1>6, <1>7, <1>12, <1>13, <1>14, <1>16, <1>17, <1>18, <1>19, <1>20
        DEF Next, Quiet

\* The guard invariant holds initially.
LEMMA GuardInit == Init => GuardInv
<1> SUFFICES ASSUME Init PROVE GuardInv
  OBVIOUS
<1>1. \A c \in Callers : ops[c].pc = "Idle" /\ ops[c].op = "none" /\ ~Releasing(ops[c])
  BY IdleFacts DEF Init, Releasing
<1>2. \A d \in Dispatches : records[d].status = "Missing"
  BY DEF Init, Missing
<1>3. TokenPrivate /\ OneRenewal /\ ReleaseIsOwn /\ RenewalIsLater
  BY <1>1 DEF TokenPrivate, OneRenewal, ReleaseIsOwn, RenewalIsLater
<1>4. GuardCoversRecord
  BY <1>2 DEF GuardCoversRecord, LiveClaim
<1>5. GuardCoversClaimer /\ GuardCoversRenewal
  BY <1>1 DEF GuardCoversClaimer, GuardCoversRenewal
<1> QED BY <1>3, <1>4, <1>5 DEF GuardInv

\* At no time do two dispatches of the thread run under a lease, whatever the
\* callers do at once and wherever they stop: claim_guard and the dispatch record
\* are two keys, but no lease on record outlives the guard that covers it.
THEOREM ClaimsAreExclusive == Spec => []OneLiveClaim
<1>1. TypeInv /\ GuardInv => OneLiveClaim
  BY DEF GuardInv, GuardCoversRecord, OneLiveClaim, Covered
<1> QED BY <1>1, TypeInit, TypeStep, GuardInit, GuardStep, PTL DEF Spec

-----------------------------------------------------------------------------
(* The dedupe lock.                                                        *)

\* An operation has nothing to do with the lock it did not have before.
Same(o, n) ==
    /\ n.op = "enqueue" => o.op = "enqueue" /\ n.d = o.d
    /\ n.pc \in {"Lock", "PurgeLock", "Append", "Put"} => n.pc = o.pc /\ n.op = "enqueue"
    /\ n.pc = "PurgeLock" /\ n.fresh => o.fresh
    /\ Unlocks(n) => Unlocks(o) /\ n.d = o.d /\ n.op = o.op

\* Others' writes do nothing to the lock, nor does what is no enqueue.
LEMMA SameLemma ==
    /\ \A o, n : Kept(o, n) /\ InPlace(n) => Same(o, n)
    /\ \A o, n : InPlace(n) /\ n.op # "enqueue" /\ n.chores = << >> => Same(o, n)
BY DEF Kept, Same, Unlocks, InPlace

\* The dispatches that enqueues and those who give the lock back are at.
LEMMA LockPlaces ==
    ASSUME TypeInv, NEW c \in Callers
    PROVE  /\ ops[c].op = "enqueue" => ops[c].d \in Dispatches
           /\ Unlocks(ops[c]) => ops[c].d \in Dispatches /\ ops[c].pc = "Chore"
           /\ InPlace(ops[c])
           /\ epoch \in Nat /\ keyed \subseteq Dispatches
<1>1. Formed(ops[c]) /\ InPlace(ops[c]) /\ epoch \in Nat /\ keyed \subseteq Dispatches
  BY TypeFacts
<1>2. ops[c].op = "enqueue" => ops[c].pc \notin {"Idle", "Pick", "Load"}
  BY <1>1 DEF InPlace
<1>3. Unlocks(ops[c]) => ops[c].chores # << >>
  BY DEF Unlocks
<1> QED BY <1>1, <1>2, <1>3 DEF Formed

\* The same after the step.
LEMMA LockPlacesNext ==
    ASSUME TypeInv', NEW c \in Callers
    PROVE  InPlace(ops'[c]) /\ keyed' \subseteq Dispatches
<1>1. Formed(ops[c])' /\ keyed' \subseteq Dispatches
  BY DEF TypeInv, OpInv, KeyInv
<1> QED BY <1>1 DEF Formed

\* A step that leaves records and lock alone, and at most adds to the epoch.
LEMMA QuietLock ==
    ASSUME TypeInv, LockInv, \A x \in Callers : Same(ops[x], ops'[x]),
           UNCHANGED <<keyed, records, lock>>, epoch' = epoch \/ epoch' = epoch + 1
    PROVE  LockInv'
<1>1. EnqueueHolds'
  BY DEF LockInv, EnqueueHolds, Same
<1>2. PurgeIsLate'
  <2>1. epoch \in Nat /\ \A d \in Dispatches : records[d].epoch \in Nat
    BY NatsConstants DEF TypeInv, KeyInv, RecordOK, Stored
  <2>2. lock.d # Nobody => lock.d \in Dispatches
    BY DEF LockInv, TypeInv, KeyInv
  <2>3. lock.d # Nobody /\ LockLost => LockLost'
    BY <2>1, <2>2 DEF LockLost, Live
  <2> QED BY <2>3 DEF LockInv, PurgeIsLate, Same
<1>3. UnlockIsLate'
  BY DEF LockInv, UnlockIsLate, Same
<1>4. LiveIsLocked'
  <2>1. \A d \in keyed : records[d].epoch \in Nat /\ records[d].epoch <= epoch /\ epoch \in Nat
    BY NatsConstants DEF TypeInv, KeyInv, RecordOK, Stored
  <2>2. \A d \in keyed : records[d].epoch = epoch' => epoch' = epoch
    BY <2>1
  <2> QED BY <2>2 DEF LockInv, LiveIsLocked, Live
<1> QED BY <1>1, <1>2, <1>3, <1>4 DEF LockInv

\* A step that writes a record which is there already: it does not bring an
\* ended dispatch back to life, nor into another epoch.
LEMMA WriteLock ==
    ASSUME TypeInv, TypeInv', LockInv, NEW c \in Callers, NEW d \in Dispatches,
           \A x \in Callers \ {c} : Same(ops[x], ops'[x]),
           UNCHANGED <<keyed, epoch, lock>>,
           \A e \in Dispatches \ {d} : records'[e] = records[e],
           records[d].status # "Missing", records'[d].status # "Missing",
           Live(d)' => Live(d) /\ records'[d].epoch = records[d].epoch,
           ops'[c].op # "enqueue",
           Unlocks(ops'[c]) => ops'[c].d = d /\ records'[d].status \in {"Purged"} \cup Terminal
    PROVE  LockInv'
<1>0. \A e \in Dispatches : records[e].status \in Status /\ records'[e].status \in Status
  BY DEF TypeInv, KeyInv, Stored
<1>1. InPlace(ops'[c]) /\ epoch \in Nat /\ keyed \subseteq Dispatches
  BY LockPlaces, LockPlacesNext
<1>2. ops'[c].pc \notin {"Lock", "PurgeLock", "Append", "Put"}
  BY <1>1 DEF InPlace
<1>3. \A e \in Dispatches :
        /\ records'[e].status = "Missing" <=> records[e].status = "Missing"
        /\ records[e].status \in {"Purged"} \cup Terminal => records'[e].status \in {"Purged"} \cup Terminal
        /\ Live(e)' => Live(e) /\ records'[e].epoch = records[e].epoch
        /\ Live(e) => Live(e)' \/ records'[e].status \in {"Purged"} \cup Terminal
  BY <1>0 DEF Live, Status, Terminal
<1>4. EnqueueHolds'
  <2> SUFFICES ASSUME NEW x \in Callers, ops'[x].op = "enqueue"
               PROVE  /\ records'[ops'[x].d].status = "Missing"
                      /\ \A y \in Callers : ops'[y].op = "enqueue" /\ ops'[y].d = ops'[x].d => y = x
                      /\ ops'[x].pc \in {"Lock", "PurgeLock"} => ops'[x].d \in keyed
                      /\ ops'[x].pc \in {"Append", "Put"} /\ ops'[x].d \in keyed =>
                            (lock.d = ops'[x].d /\ lock.young) \/ ops'[x].d \in lock.slow
    BY DEF EnqueueHolds
  <2>1. x # c /\ \A y \in Callers : ops'[y].op = "enqueue" => ops[y].op = "enqueue" /\ ops'[y].d = ops[y].d
    BY DEF Same
  <2>2. ops[x].d \in Dispatches /\ records[ops[x].d].status = "Missing"
    BY <2>1, LockPlaces DEF LockInv, EnqueueHolds
  <2>3. ops'[x].pc \in {"Lock", "PurgeLock", "Append", "Put"} => ops[x].pc = ops'[x].pc
    BY <2>1 DEF Same
  <2> QED BY <1>3, <2>1, <2>2, <2>3 DEF LockInv, EnqueueHolds
<1>5. PurgeIsLate'
  <2> SUFFICES ASSUME NEW x \in Callers, ops'[x].pc = "PurgeLock", ops'[x].fresh
               PROVE  lock.d # Nobody /\ (LockLost' \/ lock.d \in lock.slow)
    BY DEF PurgeIsLate
  <2>1. lock.d # Nobody /\ (LockLost \/ lock.d \in lock.slow)
    BY <1>2 DEF Same, LockInv, PurgeIsLate
  <2>2. lock.d \in Dispatches
    BY <1>1, <2>1 DEF LockInv
  <2> QED BY <1>3, <2>1, <2>2 DEF LockLost
<1>6. UnlockIsLate'
  <2> SUFFICES ASSUME NEW x \in Callers, Unlocks(ops'[x])
               PROVE  ops'[x].op = "enqueue" \/ records'[ops'[x].d].status \in {"Purged"} \cup Terminal
    BY DEF UnlockIsLate, Unlocks
  <2>1. CASE x = c
    BY <2>1
  <2>2. CASE x # c
    <3>1. Unlocks(ops[x]) /\ ops'[x].d = ops[x].d /\ ops'[x].op = ops[x].op
      BY <2>2 DEF Same
    <3>2. ops[x].d \in Dispatches
      BY <3>1, LockPlaces
    <3> QED BY <1>3, <3>1, <3>2 DEF LockInv, UnlockIsLate
  <2> QED BY <2>1, <2>2
<1>7. LiveIsLocked'
  BY <1>1, <1>3 DEF LockInv, LiveIsLocked
<1> QED BY <1>4, <1>5, <1>6, <1>7 DEF LockInv

\* The enqueue of a dispatch starts.
LEMMA StartedLock ==
    ASSUME TypeInv, TypeInv', LockInv, NEW c \in Callers, StartEnqueue(c)
    PROVE  LockInv'
<1>1. PICK d \in Dispatches :
        /\ records[d].status = "Missing"
        /\ \A x \in Callers : ~(ops[x].op = "enqueue" /\ ops[x].d = d)
        /\ ops' = [ops EXCEPT ![c] = [Idle EXCEPT !.op = "enqueue", !.d = d, !.ep = epoch,
                                          !.pc = IF d \in keyed THEN "Lock" ELSE "Append"]]
        /\ UNCHANGED <<keyed, records, epoch, lock>>
  BY DEF StartEnqueue, kv
<1> DEFINE p == IF d \in keyed THEN "Lock" ELSE "Append"
           n == [Idle EXCEPT !.op = "enqueue", !.d = d, !.ep = epoch, !.pc = p]
<1>2. ops' = [ops EXCEPT ![c] = n] /\ p \in {"Lock", "Append"} /\ (p = "Lock" <=> d \in keyed)
  BY <1>1
<1> HIDE DEF p
<1>3. epoch \in Nat /\ ops \in [Callers -> Operation]
  BY TypeFacts
<1>4. n \in Operation /\ n.op = "enqueue" /\ n.d = d /\ n.pc = p /\ n.chores = << >>
  BY <1>2, <1>3, IdleFacts DEF Operation, OpName, Place
<1> HIDE DEF n
<1>5. ops'[c] = n /\ \A x \in Callers \ {c} : ops'[x] = ops[x]
  BY <1>2, <1>3, <1>4, OwnStep
<1>6. EnqueueHolds'
  BY <1>1, <1>2, <1>4, <1>5 DEF LockInv, EnqueueHolds
<1>7. PurgeIsLate'
  BY <1>1, <1>2, <1>4, <1>5 DEF LockInv, PurgeIsLate, LockLost, Live
<1>8. UnlockIsLate'
  BY <1>1, <1>4, <1>5 DEF LockInv, UnlockIsLate, Unlocks
<1>9. LiveIsLocked'
  BY <1>1 DEF LockInv, LiveIsLocked, Live
<1> QED BY <1>1, <1>6, <1>7, <1>8, <1>9 DEF LockInv

\* acquire_dedupe_lock creates the lock: nobody had it.
LEMMA CreatedLock ==
    ASSUME TypeInv, TypeInv', LockInv, NEW c \in Callers, TakeLock(c), lock.d = Nobody
    PROVE  LockInv'
<1> DEFINE n == [ops[c] EXCEPT !.pc = "Append"]
<1>1. /\ ops[c].pc = "Lock" /\ lock' = [lock EXCEPT !.d = ops[c].d, !.young = TRUE]
      /\ ops' = Relocked(c, n)
      /\ UNCHANGED <<keyed, records, epoch>>
  BY DEF TakeLock, At
<1>2. ops \in [Callers -> Operation] /\ InPlace(ops[c]) /\ Formed(ops[c])
  BY TypeFacts
<1>3. /\ n \in Operation /\ n.op = "enqueue" /\ n.d = ops[c].d /\ n.pc = "Append"
      /\ n.chores = << >> /\ ops[c].op = "enqueue" /\ ops[c].d \in Dispatches
  BY <1>1, <1>2 DEF Operation, Place, InPlace, Formed
<1> HIDE DEF n
<1>4. /\ ops'[c] = n
      /\ \A x \in Callers \ {c} : Kept(ops[x], ops'[x]) /\ (ops'[x].fresh => ops[x].pc # "PurgeLock")
  BY <1>1, <1>2, <1>3, RelockedFacts
<1>5. Nobody \notin keyed /\ keyed \subseteq Dispatches
  BY NatsConstants, LockPlaces
<1>6. lock'.d = ops[c].d /\ lock'.young = TRUE /\ lock'.slow = lock.slow
  BY <1>1, <1>3 DEF TypeInv, KeyInv, LockType
<1>7. ops[c].d \in keyed /\ records[ops[c].d].status = "Missing"
  BY <1>1, <1>3 DEF LockInv, EnqueueHolds
<1>8. EnqueueHolds'
  <2>1. \A x \in Callers : /\ ops'[x].op = ops[x].op /\ ops'[x].d = ops[x].d
                           /\ ops'[x].pc = ops[x].pc \/ x = c
    BY <1>3, <1>4 DEF Kept
  <2>2. \A x \in Callers \ {c} : ops[x].op = "enqueue" /\ ops[x].pc \in {"Append", "Put"} =>
          ops[x].d \notin keyed \/ ops[x].d \in lock.slow
    BY <1>5 DEF LockInv, EnqueueHolds
  <2> QED BY <1>1, <1>3, <1>4, <1>6, <1>7, <2>1, <2>2 DEF LockInv, EnqueueHolds
<1>9. PurgeIsLate'
  BY <1>3, <1>4 DEF PurgeIsLate, Kept
<1>10. UnlockIsLate'
  BY <1>1, <1>3, <1>4 DEF LockInv, UnlockIsLate, Unlocks, Kept
<1>11. LiveIsLocked'
  <2>1. \A d \in keyed : Live(d) /\ records[d].epoch = epoch => d \in lock.slow
    BY <1>5 DEF LockInv, LiveIsLocked
  <2> QED BY <1>1, <1>6, <2>1 DEF LiveIsLocked, Live
<1> QED BY <1>1, <1>6, <1>7, <1>8, <1>9, <1>10, <1>11 DEF LockInv

\* acquire_dedupe_lock finds the lock held: it is stale, or the enqueue is refused.
LEMMA HeldLock ==
    ASSUME TypeInv, TypeInv', LockInv, NEW c \in Callers, TakeLock(c), lock.d # Nobody
    PROVE  LockInv'
<1> DEFINE n == [ops[c] EXCEPT !.pc = "PurgeLock", !.fresh = TRUE]
<1>1. /\ ops[c].pc = "Lock" /\ UNCHANGED <<keyed, records, epoch, lock>>
      /\ \/ LockIsStale /\ ops' = [ops EXCEPT ![c] = n]
         \/ ~LockIsStale /\ ops' = [ops EXCEPT ![c] = Idle]
  BY DEF TakeLock, At
<1>2. ops \in [Callers -> Operation] /\ InPlace(ops[c]) /\ Formed(ops[c])
  BY TypeFacts
<1>3. /\ n \in Operation /\ n.op = "enqueue" /\ n.d = ops[c].d /\ n.pc = "PurgeLock"
      /\ n.chores = << >> /\ ops[c].op = "enqueue" /\ ops[c].d \in Dispatches
  BY <1>1, <1>2 DEF Operation, Place, InPlace, Formed
<1> HIDE DEF n
<1>4. CASE ops' = [ops EXCEPT ![c] = Idle]
  <2>1. \A x \in Callers : ops'[x] = ops[x] \/ ops'[x] = Idle
    BY <1>2, <1>4
  <2>2. \A x \in Callers : InPlace(ops'[x])
    BY LockPlacesNext
  <2>3. \A x \in Callers : Same(ops[x], ops'[x])
    BY <2>1, <2>2, SameLemma, IdleFacts DEF Kept
  <2> QED BY <1>1, <2>3, QuietLock
<1>5. CASE LockIsStale /\ ops' = [ops EXCEPT ![c] = n]
  <2>1. ops'[c] = n /\ \A x \in Callers \ {c} : ops'[x] = ops[x]
    BY <1>2, <1>3, <1>5, OwnStep
  <2>2. LockLost
    BY <1>5 DEF LockIsStale, LockLost, Live
  <2>3. EnqueueHolds'
    <3>1. \A x \in Callers : /\ ops'[x].op = ops[x].op /\ ops'[x].d = ops[x].d
                             /\ ops'[x].pc = ops[x].pc \/ x = c
      BY <1>3, <2>1
    <3> QED BY <1>1, <1>3, <2>1, <3>1 DEF LockInv, EnqueueHolds
  <2>4. PurgeIsLate'
    BY <1>1, <2>2 DEF PurgeIsLate, LockLost, Live
  <2>5. UnlockIsLate'
    BY <1>1, <1>3, <2>1 DEF LockInv, UnlockIsLate, Unlocks
  <2>6. LiveIsLocked'
    BY <1>1 DEF LockInv, LiveIsLocked, Live
  <2> QED BY <1>1, <2>3, <2>4, <2>5, <2>6 DEF LockInv
<1> QED BY <1>1, <1>4, <1>5

\* purge_lock_if_revision: the lock is still the one that was seen lost, and no
\* live dispatch and no enqueue holds it.
LEMMA PurgedLock ==
    ASSUME TypeInv, TypeInv', LockInv, NEW c \in Callers, PurgeLock(c), ops[c].fresh
    PROVE  LockInv'
<1> DEFINE n == [ops[c] EXCEPT !.pc = "Lock", !.fresh = FALSE]
<1>1. /\ ops[c].pc = "PurgeLock" /\ lock' = Freed /\ ops' = Relocked(c, n)
      /\ UNCHANGED <<keyed, records, epoch>>
  BY DEF PurgeLock, At
<1>2. ops \in [Callers -> Operation] /\ InPlace(ops[c]) /\ Formed(ops[c])
  BY TypeFacts
<1>3. /\ n \in Operation /\ n.op = "enqueue" /\ n.d = ops[c].d /\ n.pc = "Lock"
      /\ n.chores = << >> /\ ops[c].op = "enqueue" /\ ops[c].d \in Dispatches
  BY <1>1, <1>2 DEF Operation, Place, InPlace, Formed
<1> HIDE DEF n
<1>4. /\ ops'[c] = n
      /\ \A x \in Callers \ {c} : Kept(ops[x], ops'[x]) /\ (ops'[x].fresh => ops[x].pc # "PurgeLock")
  BY <1>1, <1>2, <1>3, RelockedFacts
<1>5. /\ lock.d # Nobody /\ (LockLost \/ lock.d \in lock.slow)
      /\ lock'.d = Nobody /\ lock'.slow = lock.slow
  BY <1>1, FreedLock DEF LockInv, PurgeIsLate, TypeInv, KeyInv
<1>6. \A d \in keyed : Live(d) /\ records[d].epoch = epoch => d \in lock.slow
  <2> SUFFICES ASSUME NEW d \in keyed, Live(d), records[d].epoch = epoch, d \notin lock.slow PROVE FALSE
    OBVIOUS
  <2>1. lock.d = d
    BY DEF LockInv, LiveIsLocked
  <2>2. epoch \in Nat
    BY TypeFacts
  <2>3. ~(records[d].epoch < epoch)
    BY <2>2
  <2> QED BY <1>5, <2>1, <2>3 DEF LockLost, Live, Terminal
<1>7. EnqueueHolds'
  <2>1. \A x \in Callers : /\ ops'[x].op = ops[x].op /\ ops'[x].d = ops[x].d
                           /\ ops'[x].pc = ops[x].pc \/ x = c
    BY <1>3, <1>4 DEF Kept
  <2>2. \A x \in Callers : ops[x].op = "enqueue" /\ ops[x].pc \in {"Append", "Put"} =>
          ops[x].d \notin keyed \/ ops[x].d \in lock.slow
    BY <1>5 DEF LockInv, EnqueueHolds, LockLost, Live, Terminal
  <2> QED BY <1>1, <1>3, <1>4, <1>5, <2>1, <2>2 DEF LockInv, EnqueueHolds
<1>8. PurgeIsLate'
  BY <1>3, <1>4 DEF PurgeIsLate, Kept
<1>9. UnlockIsLate'
  BY <1>1, <1>3, <1>4 DEF LockInv, UnlockIsLate, Unlocks, Kept
<1>10. LiveIsLocked'
  BY <1>1, <1>5, <1>6 DEF LiveIsLocked, Live
<1> QED BY <1>5, <1>7, <1>8, <1>9, <1>10 DEF LockInv

\* The lock has changed hands since it was seen lost.
LEMMA OvertakenLock ==
    ASSUME TypeInv, TypeInv', LockInv, NEW c \in Callers, PurgeLock(c), ~ops[c].fresh
    PROVE  LockInv'
<1> DEFINE n == [ops[c] EXCEPT !.pc = "Lock"]
<1>1. /\ ops[c].pc = "PurgeLock" /\ UNCHANGED <<keyed, records, epoch, lock>>
      /\ ops' = [ops EXCEPT ![c] = n] \/ ops' = [ops EXCEPT ![c] = Idle]
  BY DEF PurgeLock, At
<1>2. ops \in [Callers -> Operation] /\ InPlace(ops[c]) /\ Formed(ops[c])
  BY TypeFacts
<1>3. /\ n \in Operation /\ n.op = "enqueue" /\ n.d = ops[c].d /\ n.pc = "Lock"
      /\ n.chores = << >> /\ ops[c].op = "enqueue" /\ ops[c].d \in Dispatches
  BY <1>1, <1>2 DEF Operation, Place, InPlace, Formed
<1> HIDE DEF n
<1>4. CASE ops' = [ops EXCEPT ![c] = Idle]
  <2>1. \A x \in Callers : ops'[x] = ops[x] \/ ops'[x] = Idle
    BY <1>2, <1>4
  <2>2. \A x \in Callers : InPlace(ops'[x])
    BY LockPlacesNext
  <2>3. \A x \in Callers : Same(ops[x], ops'[x])
    BY <2>1, <2>2, SameLemma, IdleFacts DEF Kept
  <2> QED BY <1>1, <2>3, QuietLock
<1>5. CASE ops' = [ops EXCEPT ![c] = n]
  <2>1. ops'[c] = n /\ \A x \in Callers \ {c} : ops'[x] = ops[x]
    BY <1>2, <1>3, <1>5, OwnStep
  <2>2. EnqueueHolds'
    <3>1. \A x \in Callers : /\ ops'[x].op = ops[x].op /\ ops'[x].d = ops[x].d
                             /\ ops'[x].pc = ops[x].pc \/ x = c
      BY <1>3, <2>1
    <3> QED BY <1>1, <1>3, <2>1, <3>1 DEF LockInv, EnqueueHolds
  <2>3. PurgeIsLate'
    BY <1>1, <1>3, <2>1 DEF LockInv, PurgeIsLate, LockLost, Live
  <2>4. UnlockIsLate'
    BY <1>1, <1>3, <2>1 DEF LockInv, UnlockIsLate, Unlocks
  <2>5. LiveIsLocked'
    BY <1>1 DEF LockInv, LiveIsLocked, Live
  <2> QED BY <1>1, <2>2, <2>3, <2>4, <2>5 DEF LockInv
<1> QED BY <1>1, <1>4, <1>5

\* The id is listed, or the enqueue fails and goes to give its lock back.
LEMMA ListedLock ==
    ASSUME TypeInv, TypeInv', LockInv, NEW c \in Callers, AppendIndex(c) \/ EnqueueFails(c)
    PROVE  LockInv'
<1> DEFINE a == [ops[c] EXCEPT !.pc = "Put"]
           b == [ops[c] EXCEPT !.chores = Unlocking(ops[c].d)]
<1>1. /\ UNCHANGED <<keyed, records, epoch, lock>>
      /\ \/ ops[c].pc = "Append" /\ ops' = [ops EXCEPT ![c] = a]
         \/ ops[c].pc \in {"Append", "Put"} /\ ops' = [ops EXCEPT ![c] = Continue(b)]
  BY DEF AppendIndex, EnqueueFails, kv, At
<1>2. ops \in [Callers -> Operation] /\ InPlace(ops[c]) /\ Formed(ops[c])
  BY TypeFacts
<1>3. /\ a \in Operation /\ a.op = "enqueue" /\ a.d = ops[c].d /\ a.pc = "Put" /\ a.chores = << >>
      /\ b \in Operation /\ b.op = "enqueue" /\ b.d = ops[c].d /\ b.todo = {}
      /\ ops[c].op = "enqueue" /\ ops[c].d \in Dispatches
  BY <1>1, <1>2, ChoreLists DEF Operation, Place, InPlace, Formed
<1> HIDE DEF a, b
<1>4. /\ Continue(b) \in Operation
      /\ \/ Continue(b) = Idle
         \/ Continue(b).op = "enqueue" /\ Continue(b).d = ops[c].d /\ Continue(b).pc = "Chore"
  BY <1>3, ContinueFacts
<1>5. PICK n \in Operation :
        /\ ops' = [ops EXCEPT ![c] = n]
        /\ \/ n = Idle
           \/ n.op = "enqueue" /\ n.d = ops[c].d /\ n.pc \in {"Put", "Chore"}
  BY <1>1, <1>3, <1>4
<1>6. ops'[c] = n /\ \A x \in Callers \ {c} : ops'[x] = ops[x]
  BY <1>2, <1>5, OwnStep
<1>7. EnqueueHolds'
  <2>1. \A x \in Callers : ops'[x].op = "enqueue" =>
          /\ ops[x].op = "enqueue" /\ ops'[x].d = ops[x].d
          /\ ops'[x].pc \in {"Lock", "PurgeLock"} => ops[x].pc = ops'[x].pc
          /\ ops'[x].pc \in {"Append", "Put"} => ops[x].pc \in {"Append", "Put"}
    BY <1>1, <1>3, <1>5, <1>6, IdleFacts
  <2> QED BY <1>1, <2>1 DEF LockInv, EnqueueHolds
<1>8. PurgeIsLate'
  BY <1>1, <1>5, <1>6, IdleFacts DEF LockInv, PurgeIsLate, LockLost, Live
<1>9. UnlockIsLate'
  BY <1>1, <1>5, <1>6, IdleFacts DEF LockInv, UnlockIsLate, Unlocks
<1>10. LiveIsLocked'
  BY <1>1 DEF LockInv, LiveIsLocked, Live
<1> QED BY <1>1, <1>7, <1>8, <1>9, <1>10 DEF LockInv

\* The record is put: under the lock, which is young, so nobody has seen it lost.
LEMMA PutLock ==
    ASSUME TypeInv, TypeInv', LockInv, NEW c \in Callers, Put(c)
    PROVE  LockInv'
<1> DEFINE d == ops[c].d
<1>1. /\ ops'[c] = Idle /\ OthersKept(c) /\ UNCHANGED <<keyed, epoch, lock>>
      /\ ops[c].op = "enqueue" /\ ops[c].pc = "Put" /\ d \in Dispatches
      /\ records'[d].status = "Queued"
      /\ \A e \in Dispatches \ {d} : records'[e] = records[e]
  BY PutTypes
<1>2. /\ records[d].status = "Missing"
      /\ \A x \in Callers : ops[x].op = "enqueue" /\ ops[x].d = d => x = c
      /\ d \in keyed => (lock.d = d /\ lock.young) \/ d \in lock.slow
  BY <1>1 DEF LockInv, EnqueueHolds
<1> HIDE DEF d
<1>3. keyed \subseteq Dispatches
  BY LockPlaces
<1>4. EnqueueHolds'
  <2> SUFFICES ASSUME NEW x \in Callers, ops'[x].op = "enqueue"
               PROVE  /\ records'[ops'[x].d].status = "Missing"
                      /\ \A y \in Callers : ops'[y].op = "enqueue" /\ ops'[y].d = ops'[x].d => y = x
                      /\ ops'[x].pc \in {"Lock", "PurgeLock"} => ops'[x].d \in keyed
                      /\ ops'[x].pc \in {"Append", "Put"} /\ ops'[x].d \in keyed =>
                            (lock.d = ops'[x].d /\ lock.young) \/ ops'[x].d \in lock.slow
    BY <1>1 DEF EnqueueHolds
  <2>1. x # c /\ \A y \in Callers : ops'[y].op = "enqueue" => ops[y].op = "enqueue" /\ ops'[y].d = ops[y].d
    BY <1>1, IdleFacts DEF OthersKept, Kept
  <2>2. ops[x].d \in Dispatches /\ records[ops[x].d].status = "Missing" /\ ops[x].d # d
    BY <1>2, <2>1, LockPlaces DEF LockInv, EnqueueHolds
  <2>3. ops'[x].pc = ops[x].pc
    BY <1>1, <2>1 DEF OthersKept, Kept
  <2> QED BY <1>1, <2>1, <2>2, <2>3 DEF LockInv, EnqueueHolds
<1>5. PurgeIsLate'
  <2> SUFFICES ASSUME NEW x \in Callers, ops'[x].pc = "PurgeLock", ops'[x].fresh
               PROVE  lock.d # Nobody /\ (LockLost' \/ lock.d \in lock.slow)
    BY <1>1 DEF PurgeIsLate
  <2>1. lock.d # Nobody /\ (LockLost \/ lock.d \in lock.slow)
    BY <1>1, IdleFacts DEF OthersKept, Kept, LockInv, PurgeIsLate
  <2>2. lock.d \in keyed /\ lock.d \in Dispatches
    BY <1>3, <2>1 DEF LockInv
  <2>3. lock.d # d \/ lock.d \in lock.slow
    BY <1>2, <2>1, <2>2 DEF LockLost, Live, Terminal
  <2>4. records'[lock.d] = records[lock.d] \/ lock.d \in lock.slow
    BY <1>1, <2>2, <2>3
  <2> QED BY <1>1, <2>1, <2>4 DEF LockLost, Live
<1>6. UnlockIsLate'
  <2> SUFFICES ASSUME NEW x \in Callers, Unlocks(ops'[x])
               PROVE  ops'[x].op = "enqueue" \/ records'[ops'[x].d].status \in {"Purged"} \cup Terminal
    BY DEF UnlockIsLate, Unlocks
  <2>1. x # c /\ Unlocks(ops[x]) /\ ops'[x].d = ops[x].d /\ ops'[x].op = ops[x].op
    BY <1>1, IdleFacts DEF OthersKept, Kept, Unlocks
  <2>2. ops[x].d \in Dispatches
    BY <2>1, LockPlaces
  <2>3. ops[x].op = "enqueue" \/ records[ops[x].d].status \in {"Purged"} \cup Terminal
    BY <2>1 DEF LockInv, UnlockIsLate
  <2> QED BY <1>1, <1>2, <2>1, <2>2, <2>3 DEF Terminal
<1>7. LiveIsLocked'
  <2> SUFFICES ASSUME NEW e \in keyed, Live(e)', records'[e].epoch = epoch
               PROVE  lock.d = e \/ e \in lock.slow
    BY <1>1 DEF LiveIsLocked
  <2>1. CASE e = d
    BY <1>2, <2>1
  <2>2. CASE e # d
    BY <1>1, <1>3, <2>2 DEF LockInv, LiveIsLocked, Live
  <2> QED BY <2>1, <2>2
<1> QED BY <1>1, <1>4, <1>5, <1>6, <1>7 DEF LockInv

\* What a chore makes of an operation has nothing new to do with the lock.
LEMMA TidiedSame ==
    ASSUME TypeInv, TypeInv', NEW c \in Callers, Tidied(c), ops[c].pc = "Chore"
    PROVE  Same(ops[c], ops'[c])
<1>1. InPlace(ops'[c])
  BY LockPlacesNext
<1>2. ops'[c].op = "enqueue" => ops'[c].pc = "Chore"
  BY <1>1 DEF Tidied, InPlace
<1>3. Unlocks(ops'[c]) => ops'[c].pc = "Chore"
  BY DEF Tidied, Unlocks
<1> QED BY <1>2, <1>3 DEF Tidied, Same

\* release_dedupe_lock: only the failed enqueue or the ended dispatch of the
\* lock itself deletes it.
LEMMA ReleasedLock ==
    ASSUME TypeInv, TypeInv', LockInv, NEW c \in Callers, ReleaseLock(c)
    PROVE  LockInv'
<1>1. /\ OthersKept(c) /\ Tidied(c) /\ ops[c].pc = "Chore" /\ ops[c].d \in Dispatches
      /\ UNCHANGED <<records, keyed, epoch>>
  BY ChoreTypes
<1>2. Same(ops[c], ops'[c])
  BY <1>1, TidiedSame
<1>3. \A x \in Callers : Same(ops[x], ops'[x])
  BY <1>1, <1>2, SameLemma, LockPlacesNext DEF OthersKept
<1>4. CASE lock' = lock
  BY <1>1, <1>3, <1>4, QuietLock
<1>5. CASE lock.d = ops[c].d /\ lock' = Freed
  <2> DEFINE n == Continue([ops[c] EXCEPT !.chores = Tail(@)])
  <2>1. ops' = Relocked(c, n) \/ lock' = lock
    BY DEF ReleaseLock
  <2>2. lock'.d = Nobody /\ lock.d # Nobody /\ lock'.slow = lock.slow
    BY <1>1, <1>5, NatsConstants, FreedLock DEF TypeInv, KeyInv
  <2>3. Unlocks(ops[c])
    <3>1. Head(ops[c].chores) = "lock" /\ ops[c].chores # << >> /\ ops[c].chores \in Seq(Chore)
      BY <1>1, TypeFacts DEF ReleaseLock, Formed, Operation
    <3>2. 1 \in DOMAIN ops[c].chores /\ ops[c].chores[1] = "lock"
      BY <3>1
    <3> QED BY <3>2 DEF Unlocks
  <2>4. ops[c].op = "enqueue" \/ records[ops[c].d].status \in {"Purged"} \cup Terminal
    BY <2>3 DEF LockInv, UnlockIsLate
  <2>5. \A d \in keyed : Live(d) /\ records[d].epoch = epoch => d \in lock.slow
    BY <1>5, <2>4 DEF LockInv, LiveIsLocked, EnqueueHolds, Live, Terminal
  <2>6. \A x \in Callers : ops[x].op = "enqueue" /\ ops[x].pc \in {"Append", "Put"} =>
          ops[x].d \notin keyed \/ ops[x].d \in lock.slow
    BY <1>1, <1>5, <2>4 DEF LockInv, EnqueueHolds, Terminal
  <2>7. \A x \in Callers : ~(ops'[x].pc = "PurgeLock" /\ ops'[x].fresh)
    <3>1. ops'[c].pc # "PurgeLock"
      BY <1>1 DEF Tidied
    <3>2. ops \in [Callers -> Operation] /\ lock' # lock
      BY <2>2, TypeFacts
    <3>3. ops' = Relocked(c, n)
      BY <2>1, <3>2
    <3>4. \A x \in Callers \ {c} : ops'[x] = [ops[x] EXCEPT !.fresh = @ /\ ops[x].pc # "PurgeLock"]
      BY <3>3 DEF Relocked
    <3>5. \A x \in Callers \ {c} : ops[x] \in Operation
      BY <3>2
    <3>6. \A x \in Callers \ {c} : ops'[x].fresh => ops[x].pc # "PurgeLock"
      BY <3>4, <3>5 DEF Operation
    <3> QED BY <1>1, <3>1, <3>6 DEF OthersKept, Kept
  <2>8. EnqueueHolds'
    BY <1>1, <1>3, <2>2, <2>6 DEF LockInv, EnqueueHolds, Same
  <2>9. PurgeIsLate'
    BY <2>7 DEF PurgeIsLate
  <2>10. UnlockIsLate'
    BY <1>1, <1>3 DEF LockInv, UnlockIsLate, Same
  <2>11. LiveIsLocked'
    BY <1>1, <2>2, <2>5 DEF LiveIsLocked, Live
  <2> QED BY <2>2, <2>8, <2>9, <2>10, <2>11 DEF LockInv
<1> QED BY <1>4, <1>5 DEF ReleaseLock

\* The grace period passes over a lock: an enqueue that is under it was slow.
LEMMA LapsedLock ==
    ASSUME TypeInv, LockInv, GraceLapses
    PROVE  LockInv'
<1>0. /\ lock \in LockType /\ lock.d \in Dispatches
      /\ lock' = [lock EXCEPT !.young = FALSE,
                              !.slow = IF Enqueuing(lock.d) THEN @ \cup {lock.d} ELSE @]
      /\ UNCHANGED <<keyed, records, epoch, ops>>
  BY DEF GraceLapses, TypeInv, KeyInv, LockType
<1>1. \A c \in Callers : ops[c].d = lock.d /\ ops[c].pc \in {"Append", "Put"} => Enqueuing(lock.d)
  BY DEF Enqueuing
<1>2. /\ lock'.d = lock.d /\ ~lock'.young
      /\ lock.slow \subseteq lock'.slow
      /\ Enqueuing(lock.d) => lock.d \in lock'.slow
  <2> DEFINE s == IF Enqueuing(lock.d) THEN lock.slow \cup {lock.d} ELSE lock.slow
  <2>1. s \in SUBSET Dispatches /\ lock' = [lock EXCEPT !.young = FALSE, !.slow = s]
    BY <1>0 DEF LockType
  <2>2. lock.slow \subseteq s /\ (Enqueuing(lock.d) => lock.d \in s)
    OBVIOUS
  <2> HIDE DEF s
  <2> QED BY <1>0, <2>1, <2>2 DEF LockType
<1>3. EnqueueHolds'
  BY <1>0, <1>1, <1>2 DEF LockInv, EnqueueHolds
<1>4. PurgeIsLate'
  BY <1>0, <1>2 DEF LockInv, PurgeIsLate, LockLost, Live
<1>5. UnlockIsLate'
  BY <1>0 DEF LockInv, UnlockIsLate, Unlocks
<1>6. LiveIsLocked'
  BY <1>0, <1>2 DEF LockInv, LiveIsLocked, Live
<1> QED BY <1>0, <1>2, <1>3, <1>4, <1>5, <1>6 DEF LockInv

\* Every step keeps the lock invariant.
LEMMA LockStep == TypeInv /\ LockInv /\ [Next]_vars => LockInv'
<1> SUFFICES ASSUME TypeInv, LockInv, [Next]_vars PROVE LockInv'
  OBVIOUS
<1>t. TypeInv'
  BY TypeStep
<1>p. \A x \in Callers : InPlace(ops'[x])
  BY <1>t, LockPlacesNext
<1>1. ASSUME NEW c \in Callers, OthersKept(c), ops'[c].op # "enqueue", ops'[c].chores = << >>,
             UNCHANGED <<keyed, records, lock>>, epoch' = epoch \/ epoch' = epoch + 1
      PROVE  LockInv'
  <2>1. \A x \in Callers : Same(ops[x], ops'[x])
    BY <1>p, <1>1, SameLemma DEF OthersKept
  <2> QED BY <1>1, <2>1, QuietLock
<1>2. ASSUME NEW c \in Callers,
             \/ StartEnqueue(c) \/ TakeLock(c) \/ PurgeLock(c) \/ AppendIndex(c) \/ Put(c) \/ EnqueueFails(c)
      PROVE  LockInv'
  BY <1>t, <1>2, StartedLock, CreatedLock, HeldLock, PurgedLock, OvertakenLock, ListedLock, PutLock
<1>3. ASSUME NEW c \in Callers, StartClaim(c) \/ StartClaimDispatch(c) \/ PickClaim(c)
      PROVE  LockInv'
  <2>1. UNCHANGED <<keyed, records, lock, epoch>>
    BY <1>3 DEF StartClaim, StartClaimDispatch, PickClaim, kv
  <2> QED BY <1>1, <1>3, <2>1, ClaimTypes
<1>4. ASSUME NEW c \in Callers, Acquire(c) PROVE LockInv'
  BY <1>1, <1>4, RefusedTypes, AcquiredTypes
<1>5. ASSUME NEW c \in Callers, NEW d \in Dispatches, OthersKept(c),
             UNCHANGED <<keyed, epoch, lock>>,
             \A e \in Dispatches \ {d} : records'[e] = records[e],
             records[d].status # "Missing", records'[d].status # "Missing",
             Live(d)' => Live(d) /\ records'[d].epoch = records[d].epoch,
             ops'[c].op # "enqueue",
             Unlocks(ops'[c]) => ops'[c].d = d /\ records'[d].status \in {"Purged"} \cup Terminal
      PROVE  LockInv'
  <2>1. \A x \in Callers \ {c} : Same(ops[x], ops'[x])
    BY <1>p, <1>5, SameLemma DEF OthersKept
  <2> QED BY <1>t, <1>5, <2>1, WriteLock
<1>6. ASSUME NEW c \in Callers, ClaimCas(c) PROVE LockInv'
  <2>1. CASE ops[c].fresh
    <3>1. ops[c].d \in Dispatches
      BY <1>6, TypeFacts DEF ClaimCas, At, Formed
    <3>2. ~Unlocks(ops'[c]) /\ ops'[c].op # "enqueue"
      BY <1>6, <2>1, ClaimedTypes, IdleFacts DEF Unlocks
    <3>3. Live(ops[c].d)
      BY <1>6, <2>1, ClaimedTypes DEF Live
    <3> QED BY <1>5, <1>6, <2>1, <3>1, <3>2, <3>3, ClaimedTypes
  <2>2. CASE ~ops[c].fresh
    <3>1. ~Unlocks(ops'[c]) /\ ops'[c].op # "enqueue" /\ ops'[c].pc = "Chore"
      BY <1>6, <2>2, ClaimLostTypes DEF Unlocks
    <3>2. OthersKept(c) /\ UNCHANGED <<keyed, records, lock, epoch>>
      BY <1>6, <2>2, ClaimLostTypes
    <3>3. \A x \in Callers : Same(ops[x], ops'[x])
      BY <1>p, <3>1, <3>2, SameLemma DEF OthersKept, Same
    <3> QED BY <3>2, <3>3, QuietLock
  <2> QED BY <2>1, <2>2
<1>7. ASSUME NEW c \in Callers, StartUpdate(c) PROVE LockInv'
  <2>1. ops'[c].op # "enqueue"
    BY <1>7, UpdateTypes DEF Updates
  <2> QED BY <1>1, <1>7, <2>1, UpdateTypes
<1>8. ASSUME NEW c \in Callers, Cas(c) \/ Supersede(c), ~ops[c].fresh PROVE LockInv'
  BY <1>1, <1>8, RetryTypes
<1>9. ASSUME NEW c \in Callers, Cas(c) \/ Supersede(c), ops[c].fresh PROVE LockInv'
  <2>0. PICK d \in Dispatches : d = ops[c].d
    BY <1>9, CasTypes, SupersedeTypes
  <2>1. /\ OthersKept(c) /\ Done(c) /\ d \in Dispatches /\ UNCHANGED <<keyed, epoch, lock>>
        /\ \A e \in Dispatches \ {d} : records'[e] = records[e]
        /\ records[d].status \in {"Queued", "Claimed"}
    BY <1>9, <2>0, CasTypes, SupersedeTypes
  <2>2. /\ records'[d].status # "Missing"
        /\ records'[d].status \in {"Queued", "Claimed"} => records'[d].epoch = records[d].epoch
    <3>1. CASE Cas(c)
      BY <1>9, <2>0, <2>1, <3>1, CasTypes DEF Terminal
    <3>2. CASE Supersede(c)
      BY <1>9, <2>0, <3>2, SupersedeTypes
    <3> QED BY <1>9, <3>1, <3>2
  <2>3. ops'[c].op # "enqueue"
    <3>1. ops[c].pc \in {"Cas", "Supersede"} /\ InPlace(ops[c])
      BY <1>9, TypeFacts DEF Cas, Supersede, At
    <3>2. ops[c].op # "enqueue"
      BY <3>1 DEF InPlace, Updates
    <3> QED BY <2>1, <3>2 DEF Done
  <2>4. Unlocks(ops'[c]) => ops'[c].d = d /\ records'[d].status \in {"Purged"} \cup Terminal
    <3>1. Unlocks(ops'[c]) => ops'[c].chores # << >>
      BY DEF Unlocks
    <3> QED BY <2>0, <2>1, <3>1 DEF Done
  <2>5. Live(d)' => Live(d) /\ records'[d].epoch = records[d].epoch
    BY <2>1, <2>2 DEF Live
  <2> QED BY <1>5, <2>1, <2>2, <2>3, <2>4, <2>5
<1>10. ASSUME NEW c \in Callers, ExtendGuard(c) PROVE LockInv'
  BY <1>1, <1>10, ExtendGuardTypes, IdleFacts
<1>11. ASSUME NEW c \in Callers, ReleaseGuard(c) \/ CleanIndex(c) PROVE LockInv'
  <2>1. /\ OthersKept(c) /\ Tidied(c) /\ ops[c].pc = "Chore" /\ UNCHANGED <<keyed, records, epoch>>
    BY <1>11, ChoreTypes
  <2>2. lock' = lock
    BY <1>11 DEF ReleaseGuard, CleanIndex
  <2>3. Same(ops[c], ops'[c])
    BY <1>t, <2>1, TidiedSame
  <2>4. \A x \in Callers \ {c} : Same(ops[x], ops'[x])
    BY <1>p, <2>1, SameLemma DEF OthersKept
  <2>5. \A x \in Callers : Same(ops[x], ops'[x])
    BY <2>3, <2>4
  <2> QED BY <2>1, <2>2, <2>5, QuietLock
<1>12. ASSUME NEW c \in Callers, ReleaseLock(c) PROVE LockInv'
  BY <1>t, <1>12, ReleasedLock
<1>13. ASSUME NEW c \in Callers,
             \/ StartInterrupt(c) \/ LoadThread(c) \/ Abandon(c)
             \/ PickInterrupt(c) /\ records' = records
       PROVE  LockInv'
  BY <1>1, <1>13, InterruptTypes
<1>14. ASSUME NEW c \in Callers, NEW d \in Dispatches, Ends(c, d) PROVE LockInv'
  <2>1. /\ records[d].status # "Missing" /\ records'[d].status # "Missing" /\ ~Live(d)'
        /\ ops'[c].op # "enqueue"
    BY <1>14 DEF Ends, Live, Terminal
  <2> QED BY <1>5, <1>14, <2>1 DEF Ends
<1>15. ASSUME NEW c \in Callers, PurgeTerminal(c) \/ (PickInterrupt(c) /\ records' # records)
       PROVE  LockInv'
  BY <1>14, <1>15, OvertakeTypes, PurgeTypes
<1>16. CASE GraceLapses
  BY <1>16, LapsedLock
<1>17. CASE lock' = lock /\ UNCHANGED <<keyed, records, epoch, ops>>
  <2>1. \A x \in Callers : Same(ops[x], ops'[x])
    BY <1>p, <1>17, SameLemma DEF Kept
  <2> QED BY <1>17, <2>1, QuietLock
<1>18. CASE Quiet
  BY <1>16, <1>17, <1>18, QuietKeys
<1>19. CASE UNCHANGED vars
  BY <1>17, <1>19 DEF vars, kv
<1>20. ASSUME NEW c \in Callers, PickInterrupt(c) PROVE LockInv'
  BY <1>13, <1>15, <1>20
<1>21. ASSUME NEW c \in Callers, Cas(c) \/ Supersede(c) PROVE LockInv'
  BY <1>8, <1>9, <1>21
<1> QED BY <1>2, <1>3, <1>4, <1>6, <1>7, <1>10, <1>11, <1>12, <1>13, <1>15, <1>18, <1>19, <1>20, <1>21
        DEF Next, Quiet

\* Nobody holds the lock at first, and nothing is live.
LEMMA LockInit == Init => LockInv
<1> SUFFICES ASSUME Init PROVE LockInv
  OBVIOUS
<1>1. \A c \in Callers : ops[c].pc = "Idle" /\ ops[c].op = "none" /\ ops[c].chores = << >>
  BY IdleFacts DEF Init
<1>2. keyed \subseteq Dispatches /\ lock.d = Nobody
  BY NatsConstants DEF Init, Unlocked
<1>3. \A d \in Dispatches : records[d].status = "Missing"
  BY DEF Init, Missing
<1>4. EnqueueHolds /\ PurgeIsLate
  BY <1>1 DEF EnqueueHolds, PurgeIsLate
<1>5. UnlockIsLate
  BY <1>1 DEF UnlockIsLate, Unlocks
<1>6. LiveIsLocked
  BY <1>2, <1>3 DEF LiveIsLocked, Live
<1> QED BY <1>2, <1>4, <1>5, <1>6 DEF LockInv

\* Two live dispatches of the current epoch never share the dedupe key, unless
\* the enqueue of one outlasted DEDUPE_ORPHAN_GRACE_MS: neither a purge of a stale
\* lock, nor a late release, nor a failed enqueue takes the lock from them.
THEOREM DedupeIsKept == Spec => []DedupeHolds
<1>1. TypeInv /\ LockInv => DedupeHolds
  BY DEF LockInv, LiveIsLocked, DedupeHolds, KeyedLive, Live
<1> QED BY <1>1, TypeInit, TypeStep, LockInit, LockStep, PTL DEF Spec

=============================================================================
