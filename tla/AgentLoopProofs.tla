-------------------------- MODULE AgentLoopProofs --------------------------
(***************************************************************************)
(* Proofs about AgentLoop, for every number of tool calls, tasks,          *)
(* decisions and executions.                                               *)
(***************************************************************************)
EXTENDS AgentLoop, FiniteSetTheorems, WellFoundedInduction, TLAPS

(***************************************************************************)
(* The inductive invariant                                                 *)
(***************************************************************************)

Statuses == {"New", "Running", "Suspended", "Resuming"} \cup Ended

CallStates == [Call -> [status : Statuses, input : Decision \cup {Nothing}]]

Places == {"replay", "top", "inference", "gate", "exec", "settle", "natural",
           "parked", "waiting", "ending", "ended", "failed"}

Reasons == {"none", "natural", "cancelled", "stopped", "blocked", "suspended"}

LoopStates ==
    [at : Places, asked : SUBSET Call, queue : Seq(Call), ready : Seq(Call),
     replay : SUBSET Call, blocked : BOOLEAN, suspended : BOOLEAN, first : BOOLEAN]

Hists == [sent : SUBSET Decision, troubles : Nat, asks : [Call -> 0..MaxAsks],
          leave : [Call -> Int], again : [Call -> Nat]]

TaskStates == [state : {"Idle", "Running", "Stored", "Told"}, home : 0..MaxEntries]

Lives == {"Running", "Suspended", "Awaiting", "Done"}

Logs == [shown : SUBSET Call, answered : SUBSET Call]

TypeInv ==
    /\ conf \in [origin : {"root", "subagent"}, mode : {"sequential", "parallel"},
                 live : BOOLEAN]
    /\ loop \in LoopStates
    /\ life \in {"Running", "Suspended", "Awaiting", "Done"}
    /\ how \in Reasons
    /\ calls \in CallStates
    /\ batch \in 0..MaxCalls
    /\ out \in SUBSET Call
    /\ log \in [shown : SUBSET Call, answered : SUBSET Call]
    /\ token \in BOOLEAN
    /\ pending \in BOOLEAN
    /\ inbox \in SUBSET Tasks
    /\ tasks \in [Tasks -> TaskStates]
    /\ channel \in Seq(Decision)
    /\ work \in Seq(Decision \cup {Nothing})
    /\ entry \in 1..MaxEntries
    /\ hist \in Hists

\* Calls beyond the batches asked for are unknown everywhere, and a suspended
\* call has asked at least once.
Within(cs) == \A c \in Call : c \in cs => c <= batch

BatchInv ==
    /\ \A c \in Call : c > batch => calls[c] = Absent[c]
    /\ Within(out) /\ Within(log.shown) /\ Within(log.answered) /\ Within(loop.asked)
    /\ Within(ToSet(loop.queue)) /\ Within(ToSet(loop.ready))
    /\ \A c \in Call : calls[c].status = "Suspended" => hist.asks[c] >= 1

Distinct(s) == \A i, j \in 1..Len(s) : s[i] = s[j] => i = j

PipeInv ==
    /\ log.shown \subseteq log.answered
    /\ loop.at \in {"gate", "exec"} =>
          loop.asked \subseteq out \cup ToSet(loop.ready) \cup ToSet(loop.queue)
    /\ loop.at = "settle" => loop.asked \subseteq out
    /\ loop.at \in {"exec"} => loop.ready # <<>>
    /\ loop.at \notin {"gate", "exec"} => loop.ready = <<>> /\ loop.queue = <<>>
    /\ Distinct(loop.queue) /\ Distinct(loop.ready)
    /\ ToSet(loop.queue) \cap ToSet(loop.ready) = {}

WaitInv ==
    /\ loop.replay = Resuming(calls)
    /\ loop.at # "replay" => loop.replay = {}
    /\ loop.at = "top" /\ ~loop.first => SuspendedCalls(calls) = {}
    /\ loop.at \in {"inference", "natural", "parked"} => calls = Absent
    /\ loop.at \in {"gate", "exec", "settle"} /\ ~loop.suspended => SuspendedCalls(calls) = {}

TaskInv ==
    LET Quiet == \A t \in Tasks : tasks[t].state # "Running"
    IN /\ loop.at = "natural" /\ ~pending => Quiet
       /\ how = "natural" => /\ loop.at \in {"ending", "ended"}
                             /\ life = "Awaiting" \/ Quiet

\* A checkpoint has no call that is being replayed, its transcript is complete,
\* and it is all there is of the run between two executions.
SavedInv ==
    /\ saved \in [life : Lives, calls : CallStates, log : Logs]
    /\ job \in Decision \cup {Nothing}
    /\ \A c \in Call : c > batch => saved.calls[c] = Absent[c]
    /\ \A c \in Call : saved.calls[c].status = "Suspended" => hist.asks[c] >= 1
    /\ Within(saved.log.shown) /\ Within(saved.log.answered)
    /\ saved.log.shown \subseteq saved.log.answered
    /\ Resuming(saved.calls) = {}
    /\ loop.at \in Over => life = saved.life /\ calls = saved.calls /\ log = saved.log

\* How often c is approved by the decisions of s.
Approvals(s, c) == {i \in 1..Len(s) : s[i].call = c /\ s[i].action = "resume"}

One(b) == IF b THEN 1 ELSE 0

LeaveInv ==
    \A c \in Call :
        hist.leave[c] >= One(c \in ToSet(loop.ready)) + One(calls[c].status = "Resuming")
              + Cardinality(Approvals(channel, c)) + Cardinality(Approvals(work, c))

LoopInv == TypeInv /\ BatchInv /\ PipeInv /\ WaitInv /\ TaskInv /\ LeaveInv /\ SavedInv

(***************************************************************************)
(* Induction, by the least counterexample                                  *)
(***************************************************************************)

\* Every non-empty set of naturals has a least element. Induction over the
\* length of a sequence of decisions, and the order of replay, rest on it.
LEMMA LeastOf ==
  ASSUME NEW T, T \subseteq Nat, T # {}
  PROVE  \E n \in T : \A m \in T : ~(m < n)
<1> DEFINE R == OpToRel(<, Nat)
<1>1. IsWellFoundedOn(R, Nat)
  BY NatLessThanWellFounded
<1>2. \A m, n \in Nat : m < n => <<m, n>> \in R
  BY DEF OpToRel
<1> HIDE DEF R
<1>3. \E x \in T : \A y \in T : ~ (<<y, x>> \in R)
  BY <1>1, WFMin
<1>4. PICK x \in T : \A y \in T : ~ (<<y, x>> \in R)
  BY <1>3
<1>5. x \in Nat
  BY <1>4
<1>6. ASSUME NEW y \in T PROVE ~(y < x)
  <2>1. y \in Nat
    OBVIOUS
  <2>2. <<y, x>> \notin R
    BY <1>4
  <2>3. QED
    BY <2>1, <2>2, <1>2, <1>5
<1>7. QED
  BY <1>4, <1>6

\* A set of naturals that contains 0 and the successor of each of its members
\* below a bound contains every number up to it.
LEMMA UpTo ==
  ASSUME NEW N \in Nat, NEW G, 0 \in G,
         \A n \in 0..(N - 1) : n \in G => n + 1 \in G
  PROVE  \A n \in 0..N : n \in G
<1>1. SUFFICES ASSUME NEW k \in 0..N, k \notin G PROVE FALSE
  OBVIOUS
<1> DEFINE T == {n \in 0..N : n \notin G}
<1>2. T \subseteq Nat /\ T # {}
  BY <1>1
<1>3. \E n \in T : \A m \in T : ~(m < n)
  <2> HIDE DEF T
  <2> QED
    BY <1>2, LeastOf
<1>4. PICK n \in T : \A m \in T : ~(m < n)
  BY <1>3
<1>5. n \in 0..N /\ n \notin G /\ n # 0
  BY <1>4
<1>6. n - 1 \in 0..(N - 1) /\ n - 1 \in 0..N
  BY <1>5
<1>7. n - 1 \in G
  <2>1. ~(n - 1 \in T)
    BY <1>4, <1>5, <1>6
  <2>2. QED
    BY <2>1, <1>6
<1>8. (n - 1) + 1 \in G
  BY <1>6, <1>7
<1>9. QED
  BY <1>5, <1>8

\* A decided call is replayed lowest id first: there is a lowest one.
LEMMA FirstIsOne ==
  ASSUME NEW cs \in SUBSET Call, cs # {}
  PROVE  First(cs) \in cs
<1>1. cs \subseteq Nat
  BY LoopAssumption DEF Call, LoopAssumption
<1>2. \E n \in cs : \A m \in cs : ~(m < n)
  BY <1>1, LeastOf
<1>3. \E n \in cs : \A m \in cs : n <= m
  BY <1>1, <1>2
<1>4. QED
  BY <1>3 DEF First

(***************************************************************************)
(* Tool-call states                                                        *)
(***************************************************************************)

\* Put keeps the states typed, touches one call, and writes the status it is
\* given or none.
LEMMA PutFacts ==
  ASSUME NEW s \in CallStates, NEW c \in Call, NEW status \in Statuses,
         NEW input \in Decision \cup {Nothing}
  PROVE  /\ Put(s, c, status, input) \in CallStates
         /\ \A x \in Call : x # c => Put(s, c, status, input)[x] = s[x]
         /\ Put(s, c, status, input)[c].status =
               IF CanTransition(s[c].status, status) THEN status ELSE s[c].status
<1> DEFINE n == [status |-> status, input |-> input]
<1>1. n \in [status : Statuses, input : Decision \cup {Nothing}] /\ n.status = status
  OBVIOUS
<1>2. Put(s, c, status, input) =
         IF CanTransition(s[c].status, status) THEN [s EXCEPT ![c] = n] ELSE s
  BY DEF Put
<1> HIDE DEF n
<1>3. QED
  BY <1>1, <1>2 DEF CallStates

\* A completed call is the only one that changes; it does not become Resuming,
\* and it is suspended only if it ended so or was so before.
LEMMA CompletedFacts ==
  ASSUME NEW s \in CallStates, NEW c \in Call,
         NEW o \in {"Succeeded", "Failed", "Suspended"}
  PROVE  /\ Completed(s, c, o) \in CallStates
         /\ \A x \in Call : x # c => Completed(s, c, o)[x] = s[x]
         /\ Completed(s, c, o)[c].status # "Resuming"
         /\ Completed(s, c, o)[c].status = "Suspended" =>
               o = "Suspended" \/ s[c].status = "Suspended"
<1> DEFINE r == Put(s, c, "Running", Nothing)
<1>1. "Running" \in Statuses /\ o \in Statuses /\ Nothing \in Decision \cup {Nothing}
  BY DEF Statuses, Ended
<1>2. /\ r \in CallStates
      /\ \A x \in Call : x # c => r[x] = s[x]
      /\ r[c].status = IF CanTransition(s[c].status, "Running") THEN "Running" ELSE s[c].status
  BY <1>1, PutFacts
<1> HIDE DEF r
<1>3. /\ Put(r, c, o, Nothing) \in CallStates
      /\ \A x \in Call : x # c => Put(r, c, o, Nothing)[x] = r[x]
      /\ Put(r, c, o, Nothing)[c].status =
            IF CanTransition(r[c].status, o) THEN o ELSE r[c].status
  BY <1>1, <1>2, PutFacts
<1>4. Completed(s, c, o) = Put(r, c, o, Nothing)
  BY DEF Completed, r
<1>5. s[c].status \in Statuses
  BY DEF CallStates
<1>6. s[c].status = "Resuming" => Put(r, c, o, Nothing)[c].status = o
  BY <1>2, <1>3 DEF CanTransition, Ended
<1>7. s[c].status # "Resuming" => r[c].status # "Resuming"
  BY <1>2
<1>8. Put(r, c, o, Nothing)[c].status # "Resuming"
  BY <1>3, <1>6, <1>7
<1>9. Put(r, c, o, Nothing)[c].status = "Suspended" => o = "Suspended" \/ s[c].status = "Suspended"
  BY <1>2, <1>3
<1>10. QED
  BY <1>2, <1>3, <1>4, <1>8, <1>9

\* Closing calls that get no turn touches those only, resumes none of them and
\* suspends none.
LEMMA BackfilledFacts ==
  ASSUME NEW s \in CallStates, NEW cs \in SUBSET Call
  PROVE  /\ Backfilled(s, cs) \in CallStates
         /\ \A x \in Call : x \notin cs => Backfilled(s, cs)[x] = s[x]
         /\ \A x \in Call : Backfilled(s, cs)[x].status \in {s[x].status, "Failed"}
<1>1. "Failed" \in Statuses /\ Nothing \in Decision \cup {Nothing}
  BY DEF Statuses, Ended
<1>2. ASSUME NEW x \in Call
      PROVE  /\ Put(s, x, "Failed", Nothing) \in CallStates
             /\ Put(s, x, "Failed", Nothing)[x].status \in {s[x].status, "Failed"}
  BY <1>1, PutFacts
<1>3. Backfilled(s, cs) = [x \in Call |-> IF x \in cs THEN Put(s, x, "Failed", Nothing)[x]
                                                    ELSE s[x]]
  BY DEF Backfilled
<1> DEFINE p(x) == Put(s, x, "Failed", Nothing)
<1>4. \A x \in Call : p(x) \in CallStates /\ p(x)[x].status \in {s[x].status, "Failed"}
  BY <1>2
<1>5. Backfilled(s, cs) = [x \in Call |-> IF x \in cs THEN p(x)[x] ELSE s[x]]
  BY <1>3
<1> HIDE DEF p
<1>6. QED
  BY <1>4, <1>5 DEF CallStates

\* Taking the marks changes no status, and leaves a new call alone.
LEMMA MarksTakenFacts ==
  ASSUME NEW s \in CallStates
  PROVE  /\ MarksTaken(s) \in CallStates
         /\ \A x \in Call : MarksTaken(s)[x].status = s[x].status
         /\ \A x \in Call : s[x].status = "New" => MarksTaken(s)[x] = s[x]
         /\ \A x \in Call : x \in Marked(s) => s[x].status # "New"
<1>1. MarksTaken(s) = [c \in Call |-> IF c \in Marked(s) THEN [s[c] EXCEPT !.input = Nothing]
                                                         ELSE s[c]]
  BY DEF MarksTaken
<1>2. \A c \in Call : c \in Marked(s) => s[c].status = "Cancelled"
  BY DEF Marked
<1>3. QED
  BY <1>1, <1>2 DEF CallStates

\* What decisions ds make of states s: typed; calls they do not name are left
\* alone; a call is Resuming only if it was or is approved by one of them.
DecidedBy(s, ds, n, t) ==
    /\ t \in CallStates
    /\ \A x \in Call : (\A i \in 1..n : ds[i].call # x) => t[x] = s[x]
    /\ \A x \in Call : t[x].status = "Resuming" =>
          \/ s[x].status = "Resuming"
          \/ \E i \in 1..n : ds[i].call = x /\ ds[i].action = "resume"
    /\ \A x \in Call : t[x].status = "Suspended" => s[x].status = "Suspended"

\* One decision after n others.
LEMMA DecidedFacts ==
  ASSUME NEW s \in CallStates, NEW ds \in Seq(Decision), NEW n \in 0..(Len(ds) - 1),
         NEW t, DecidedBy(s, ds, n, t)
  PROVE  DecidedBy(s, ds, n + 1, Decided(t, ds[n + 1]))
<1> DEFINE d == ds[n + 1]
           o == IF d.action = "resume" THEN "Resuming" ELSE "Cancelled"
           u == Put(t, d.call, o, d)
<1>1. n + 1 \in 1..Len(ds) /\ n \in Nat /\ n + 1 \in 1..(n + 1)
  OBVIOUS
<1>2. d \in Decision /\ d.call \in Call
  <2>1. d \in Decision
    BY <1>1
  <2> HIDE DEF d
  <2>2. QED
    BY <2>1 DEF Decision
<1>3. o \in Statuses /\ o # "Suspended" /\ (o = "Resuming" => d.action = "resume")
  BY <1>2 DEF Statuses, Ended
<1>4. t \in CallStates
  BY DEF DecidedBy
<1>5. Decided(t, d) = u
  BY DEF Decided
<1>6. d \in Decision \cup {Nothing}
  BY <1>2
<1> HIDE DEF o
<1>7. /\ u \in CallStates
      /\ \A x \in Call : x # d.call => u[x] = t[x]
      /\ u[d.call].status \in {o, t[d.call].status}
  BY <1>2, <1>3, <1>4, <1>6, PutFacts
<1> HIDE DEF u
<1>8. ASSUME NEW x \in Call, \A i \in 1..(n + 1) : ds[i].call # x
      PROVE  u[x] = s[x]
  <2>1. x # d.call
    BY <1>1, <1>8
  <2>2. \A i \in 1..n : ds[i].call # x
    BY <1>1, <1>8
  <2>3. QED
    BY <2>1, <2>2, <1>7 DEF DecidedBy
<1>9. ASSUME NEW x \in Call, u[x].status = "Resuming", s[x].status # "Resuming"
      PROVE  \E i \in 1..(n + 1) : ds[i].call = x /\ ds[i].action = "resume"
  <2>1. CASE x = d.call /\ o = "Resuming"
    BY <2>1, <1>1, <1>3
  <2>2. CASE ~(x = d.call /\ o = "Resuming")
    <3>1. t[x].status = "Resuming"
      BY <2>2, <1>7, <1>9
    <3>2. PICK i \in 1..n : ds[i].call = x /\ ds[i].action = "resume"
      BY <3>1, <1>9 DEF DecidedBy
    <3>3. i \in 1..(n + 1)
      BY <1>1
    <3>4. QED
      BY <3>2, <3>3
  <2>3. QED
    BY <2>1, <2>2
<1>10. ASSUME NEW x \in Call, u[x].status = "Suspended"
       PROVE  s[x].status = "Suspended"
  <2>1. t[x].status = "Suspended"
    BY <1>3, <1>7, <1>10
  <2>2. QED
    BY <2>1 DEF DecidedBy
<1>11. DecidedBy(s, ds, n + 1, u)
  BY <1>7, <1>8, <1>9, <1>10 DEF DecidedBy
<1>12. QED
  BY <1>5, <1>11

\* All decisions of a sequence, one after the other.
LEMMA PreparedFacts ==
  ASSUME NEW s \in CallStates, NEW ds \in Seq(Decision)
  PROVE  DecidedBy(s, ds, Len(ds), Prepared(s, ds))
<1> DEFINE N == Len(ds)
           Steps(n, g) == /\ g \in [0..n -> CallStates]
                          /\ g[0] = s
                          /\ \A i \in 1..n : g[i] = Decided(g[i - 1], ds[i])
                          /\ \A i \in 0..n : DecidedBy(s, ds, i, g[i])
           G == {n \in 0..N : \E g : Steps(n, g)}
<1>1. N \in Nat
  OBVIOUS
<1>2. 0 \in G
  <2> DEFINE g == [i \in 0..0 |-> s]
  <2>1. DecidedBy(s, ds, 0, s)
    BY DEF DecidedBy
  <2>2. g \in [0..0 -> CallStates] /\ g[0] = s
    OBVIOUS
  <2>3. \A i \in 0..0 : DecidedBy(s, ds, i, g[i])
    <3> SUFFICES ASSUME NEW i \in 0..0 PROVE DecidedBy(s, ds, i, g[i])
      OBVIOUS
    <3>1. i = 0
      OBVIOUS
    <3>2. QED
      BY <3>1, <2>1, <2>2
  <2> HIDE DEF g
  <2>4. Steps(0, g)
    BY <2>2, <2>3
  <2>5. QED
    BY <2>4, <1>1
<1>3. ASSUME NEW n \in 0..(N - 1), n \in G
      PROVE  n + 1 \in G
  <2>1. PICK g : Steps(n, g)
    BY <1>3
  <2> DEFINE e == Decided(g[n], ds[n + 1])
             h == [i \in 0..(n + 1) |-> IF i = n + 1 THEN e ELSE g[i]]
  <2>2. n \in Nat /\ n \in 0..n /\ n + 1 \in 0..N
    BY <1>1
  <2>3. DecidedBy(s, ds, n + 1, e)
    <3>1. DecidedBy(s, ds, n, g[n])
      BY <2>1, <2>2
    <3>2. QED
      BY <3>1, DecidedFacts
  <2>4. e \in CallStates
    BY <2>3 DEF DecidedBy
  <2>5. h[n + 1] = e /\ \A i \in 0..n : h[i] = g[i]
    BY <2>2
  <2>6. h \in [0..(n + 1) -> CallStates]
    <3> HIDE DEF e
    <3> QED
      BY <2>1, <2>2, <2>4
  <2> HIDE DEF h
  <2>7. h[0] = s
    BY <2>1, <2>2, <2>5
  <2>8. ASSUME NEW i \in 1..(n + 1)
        PROVE  h[i] = Decided(h[i - 1], ds[i])
    <3>1. CASE i = n + 1
      BY <3>1, <2>2, <2>5
    <3>2. CASE i # n + 1
      <4>1. i \in 1..n /\ i \in 0..n /\ i - 1 \in 0..n
        BY <3>2, <2>2
      <4>2. QED
        BY <4>1, <2>1, <2>5
    <3>3. QED
      BY <3>1, <3>2
  <2>9. ASSUME NEW i \in 0..(n + 1)
        PROVE  DecidedBy(s, ds, i, h[i])
    <3>1. CASE i = n + 1
      BY <3>1, <2>3, <2>5
    <3>2. CASE i # n + 1
      <4>1. i \in 0..n
        BY <3>2, <2>2
      <4>2. QED
        BY <4>1, <2>1, <2>5
    <3>3. QED
      BY <3>1, <3>2
  <2>10. Steps(n + 1, h)
    <3> HIDE DEF e
    <3> QED
      BY <2>6, <2>7, <2>8, <2>9
  <2>11. QED
    BY <2>10, <2>2
<1>4. N \in G
  <2>1. \A n \in 0..(N - 1) : n \in G => n + 1 \in G
    BY <1>3
  <2> HIDE DEF G
  <2>2. \A n \in 0..N : n \in G
    BY <1>1, <1>2, <2>1, UpTo
  <2>3. QED
    BY <2>2, <1>1
<1>5. PICK g : Steps(N, g)
  BY <1>4
<1> DEFINE D(f) == [n \in 0..N |-> IF n = 0 THEN s ELSE Decided(f[n - 1], ds[n])]
           after == CHOOSE f : f = D(f)
<1>6. g = D(g)
  BY <1>1, <1>5
<1>7. after = D(after)
  <2> HIDE DEF D
  <2> QED
    BY <1>6
<1>8. Prepared(s, ds) = after[N]
  BY DEF Prepared
<1>9. after[0] = s /\ \A n \in 1..N : after[n] = Decided(after[n - 1], ds[n])
  <2> HIDE DEF after
  <2>1. DOMAIN D(after) = 0..N /\ 0 \in 0..N
    BY <1>1
  <2>2. QED
    BY <1>1, <1>7, <2>1
<1> HIDE DEF after
<1> DEFINE E == {n \in 0..N : DecidedBy(s, ds, n, after[n])}
<1>10. 0 \in E
  <2>1. DecidedBy(s, ds, 0, s)
    BY DEF DecidedBy
  <2>2. QED
    BY <2>1, <1>1, <1>9
<1>11. ASSUME NEW n \in 0..(N - 1), n \in E
       PROVE  n + 1 \in E
  <2>1. n + 1 \in 1..N /\ n + 1 \in 0..N /\ (n + 1) - 1 = n
    BY <1>1
  <2>2. DecidedBy(s, ds, n + 1, Decided(after[n], ds[n + 1]))
    BY <1>11, DecidedFacts
  <2>3. QED
    BY <2>1, <2>2, <1>9
<1>12. N \in E
  <2>1. \A n \in 0..(N - 1) : n \in E => n + 1 \in E
    BY <1>11
  <2> HIDE DEF E
  <2>2. \A n \in 0..N : n \in E
    BY <1>1, <1>10, <2>1, UpTo
  <2>3. QED
    BY <2>2, <1>1
<1>13. QED
  BY <1>8, <1>12

(***************************************************************************)
(* Types                                                                   *)
(***************************************************************************)

\* The head and the tail of a sequence.
LEMMA HeadTail ==
  ASSUME NEW S, NEW s \in Seq(S), s # <<>>
  PROVE  /\ Head(s) \in S /\ Head(s) \in ToSet(s)
         /\ Tail(s) \in Seq(S) /\ Len(Tail(s)) = Len(s) - 1
         /\ \A i \in 1..Len(Tail(s)) : Tail(s)[i] = s[i + 1]
         /\ ToSet(s) = {Head(s)} \cup ToSet(Tail(s))
         /\ ToSet(Tail(s)) \subseteq ToSet(s)
         /\ Distinct(s) => Distinct(Tail(s)) /\ Head(s) \notin ToSet(Tail(s))
<1>1. /\ Len(s) \in Nat \ {0} /\ Head(s) = s[1] /\ Tail(s) \in Seq(S)
      /\ Len(Tail(s)) = Len(s) - 1
      /\ \A i \in 1..Len(Tail(s)) : Tail(s)[i] = s[i + 1]
  OBVIOUS
<1>2. /\ ToSet(s) = {s[i] : i \in 1..Len(s)}
      /\ ToSet(Tail(s)) = {Tail(s)[i] : i \in 1..Len(Tail(s))}
  <2>1. \A q \in Seq(S) : ToSet(q) = {q[i] : i \in 1..Len(q)}
    BY DEF ToSet
  <2>2. QED
    BY <1>1, <2>1
<1>3. 1 \in 1..Len(s) /\ Head(s) \in S /\ Head(s) \in ToSet(s)
  BY <1>1, <1>2
<1>4. ASSUME NEW x \in ToSet(Tail(s))
      PROVE  \E i \in 1..Len(s) : i # 1 /\ x = s[i]
  <2>1. PICK i \in 1..Len(Tail(s)) : x = Tail(s)[i]
    BY <1>2
  <2>2. i + 1 \in 1..Len(s) /\ i + 1 # 1 /\ x = s[i + 1]
    BY <1>1, <2>1
  <2>3. QED
    BY <2>2
<1>5. ASSUME NEW x \in ToSet(s), x # Head(s)
      PROVE  x \in ToSet(Tail(s))
  <2>1. PICK i \in 1..Len(s) : x = s[i]
    BY <1>2
  <2>2. i # 1
    BY <1>1, <1>5, <2>1
  <2>3. i - 1 \in 1..Len(Tail(s)) /\ (i - 1) + 1 = i
    BY <1>1, <2>2
  <2>4. x = Tail(s)[i - 1]
    BY <1>1, <2>1, <2>3
  <2>5. QED
    BY <1>2, <2>3, <2>4
<1>6. ToSet(Tail(s)) \subseteq ToSet(s)
  BY <1>2, <1>4
<1>7. ToSet(s) = {Head(s)} \cup ToSet(Tail(s))
  BY <1>3, <1>5, <1>6
<1>8. ASSUME Distinct(s)
      PROVE  Distinct(Tail(s)) /\ Head(s) \notin ToSet(Tail(s))
  <2>1. Head(s) \notin ToSet(Tail(s))
    BY <1>1, <1>3, <1>4, <1>8 DEF Distinct
  <2>2. ASSUME NEW i \in 1..Len(Tail(s)), NEW j \in 1..Len(Tail(s)), Tail(s)[i] = Tail(s)[j]
        PROVE  i = j
    <3>1. i + 1 \in 1..Len(s) /\ j + 1 \in 1..Len(s) /\ s[i + 1] = s[j + 1]
      BY <1>1, <2>2
    <3>2. i + 1 = j + 1
      BY <3>1, <1>8 DEF Distinct
    <3>3. QED
      BY <3>2
  <2>3. QED
    BY <2>1, <2>2 DEF Distinct
<1>9. QED
  BY <1>1, <1>3, <1>6, <1>7, <1>8

\* A sequence with one more element.
LEMMA AppendFacts ==
  ASSUME NEW S, NEW s \in Seq(S), NEW x \in S
  PROVE  /\ Append(s, x) \in Seq(S)
         /\ ToSet(Append(s, x)) = ToSet(s) \cup {x}
         /\ Append(s, x) # <<>>
         /\ Distinct(s) /\ x \notin ToSet(s) => Distinct(Append(s, x))
<1> DEFINE a == Append(s, x)
<1>1. /\ a \in Seq(S) /\ Len(a) = Len(s) + 1 /\ Len(s) \in Nat
      /\ \A i \in 1..Len(s) : a[i] = s[i]
      /\ a[Len(s) + 1] = x
  OBVIOUS
<1> HIDE DEF a
<1>2. ToSet(a) = {a[i] : i \in 1..Len(a)} /\ ToSet(s) = {s[i] : i \in 1..Len(s)}
  BY <1>1 DEF ToSet
<1>3. 1..Len(a) = (1..Len(s)) \cup {Len(s) + 1}
  BY <1>1
<1>4. ToSet(a) = ToSet(s) \cup {x}
  BY <1>1, <1>2, <1>3
<1>5. a # <<>>
  BY <1>1
<1>6. ASSUME Distinct(s), x \notin ToSet(s)
      PROVE  Distinct(a)
  <2>1. \A i \in 1..Len(s) : a[i] # x
    BY <1>1, <1>2, <1>6
  <2>2. QED
    BY <1>1, <1>3, <1>6, <2>1 DEF Distinct
<1>7. QED
  BY <1>1, <1>4, <1>5, <1>6 DEF a

\* The elements of a sequence of calls are calls.
LEMMA SetOfSeq ==
  ASSUME NEW S, NEW s \in Seq(S)
  PROVE  /\ ToSet(s) = {s[i] : i \in 1..Len(s)}
         /\ ToSet(s) \in SUBSET S
<1>1. ToSet(s) = {s[i] : i \in 1..Len(s)}
  BY DEF ToSet
<1>2. QED
  BY <1>1

\* A task that is started is a task of this execution.
LEMMA SpawnsTyped ==
  ASSUME TypeInv, Spawns
  PROVE  tasks' \in [Tasks -> TaskStates]
<1>1. entry \in 0..MaxEntries
  BY DEF TypeInv
<1>2. [state |-> "Running", home |-> entry] \in TaskStates
  BY <1>1 DEF TaskStates
<1>3. QED
  BY <1>2 DEF Spawns, TypeInv

\* What is noted of a call the gate lets through, an approval or a question.
LEMMA NotedFacts ==
  ASSUME NEW h \in Hists, NEW c \in Call
  PROVE  /\ [h EXCEPT !.leave[c] = @ + 1] \in Hists
         /\ h.asks[c] < MaxAsks =>
               /\ [h EXCEPT !.asks[c] = @ + 1] \in Hists
               /\ [h EXCEPT !.asks[c] = @ + 1].asks[c] >= 1
<1>1. MaxAsks \in Nat /\ h.asks[c] \in 0..MaxAsks /\ h.leave[c] \in Int
  BY LoopAssumption DEF Hists
<1>2. [h EXCEPT !.leave[c] = @ + 1] \in Hists
  <2>1. [h.leave EXCEPT ![c] = @ + 1] \in [Call -> Int]
    BY <1>1 DEF Hists
  <2>2. QED
    BY <2>1 DEF Hists
<1>3. ASSUME h.asks[c] < MaxAsks
      PROVE  /\ [h EXCEPT !.asks[c] = @ + 1] \in Hists
             /\ [h EXCEPT !.asks[c] = @ + 1].asks[c] >= 1
  <2>1. h.asks[c] + 1 \in 0..MaxAsks /\ h.asks[c] + 1 >= 1
    BY <1>1, <1>3
  <2>2. [h.asks EXCEPT ![c] = @ + 1] \in [Call -> 0..MaxAsks]
    BY <2>1 DEF Hists
  <2>3. QED
    BY <2>1, <2>2 DEF Hists
<1>4. QED
  BY <1>2, <1>3

\* What is noted of a decision that is sent, or sent again.
LEMMA RecordedFacts ==
  ASSUME NEW h \in Hists
  PROVE  /\ [h EXCEPT !.troubles = @ + 1] \in Hists
         /\ [h EXCEPT !.troubles = @ + 1].leave = h.leave
         /\ [h EXCEPT !.troubles = @ + 1].asks = h.asks
         /\ \A d \in Decision :
               /\ [h EXCEPT !.sent = @ \cup {d}] \in Hists
               /\ [h EXCEPT !.sent = @ \cup {d}].leave = h.leave
               /\ [h EXCEPT !.sent = @ \cup {d}].asks = h.asks
<1>1. h.troubles \in Nat /\ h.troubles + 1 \in Nat
  BY DEF Hists
<1>2. QED
  BY <1>1 DEF Hists

\* What is noted of the tools that ran.
LEMMA RanFacts ==
  ASSUME NEW h \in Hists, NEW o, DOMAIN o \subseteq Call,
         \A x \in DOMAIN o : o[x] = "Suspended" => h.asks[x] < MaxAsks
  PROVE  /\ Ran(h, o) \in Hists
         /\ \A x \in Call : Ran(h, o).leave[x] =
               IF x \in DOMAIN o THEN h.leave[x] - 1 ELSE h.leave[x]
         /\ \A x \in Call : Ran(h, o).asks[x] >= h.asks[x]
         /\ \A x \in DOMAIN o : o[x] = "Suspended" => Ran(h, o).asks[x] >= 1
<1> DEFINE leave == [c \in Call |-> IF c \in DOMAIN o THEN h.leave[c] - 1 ELSE h.leave[c]]
           asks == [c \in Call |-> IF c \in DOMAIN o /\ o[c] = "Suspended"
                                   THEN h.asks[c] + 1 ELSE h.asks[c]]
<1>1. h.leave \in [Call -> Int] /\ h.asks \in [Call -> 0..MaxAsks] /\ MaxAsks \in Nat
  BY LoopAssumption DEF Hists
<1>2. leave \in [Call -> Int]
  BY <1>1
<1>3. asks \in [Call -> 0..MaxAsks]
  BY <1>1
<1>4. Ran(h, o) = [h EXCEPT !.leave = leave, !.asks = asks]
  BY DEF Ran
<1>5. /\ \A x \in Call : leave[x] = IF x \in DOMAIN o THEN h.leave[x] - 1 ELSE h.leave[x]
      /\ \A x \in Call : asks[x] >= h.asks[x]
      /\ \A x \in DOMAIN o : o[x] = "Suspended" => asks[x] >= 1
  BY <1>1
<1> HIDE DEF leave, asks
<1>6. Ran(h, o) \in Hists /\ Ran(h, o).leave = leave /\ Ran(h, o).asks = asks
  BY <1>2, <1>3, <1>4 DEF Hists
<1>7. QED
  BY <1>5, <1>6

\* The states after all ready calls ran at once.
Done(s, cs, o) ==
    [c \in Call |-> IF c \in cs THEN Completed(s, c, o[c])[c] ELSE s[c]]

\* Each call ends as if it had run alone.
LEMMA DoneFacts ==
  ASSUME NEW s \in CallStates, NEW cs \in SUBSET Call,
         NEW o \in [cs -> {"Succeeded", "Failed", "Suspended"}]
  PROVE  /\ Done(s, cs, o) \in CallStates
         /\ \A x \in Call : x \notin cs => Done(s, cs, o)[x] = s[x]
         /\ \A x \in cs : Done(s, cs, o)[x].status # "Resuming"
         /\ \A x \in cs : Done(s, cs, o)[x].status = "Suspended" =>
               o[x] = "Suspended" \/ s[x].status = "Suspended"
<1> DEFINE d(c) == Completed(s, c, o[c])
<1>1. ASSUME NEW c \in cs
      PROVE  /\ d(c) \in CallStates
             /\ d(c)[c].status # "Resuming"
             /\ d(c)[c].status = "Suspended" => o[c] = "Suspended" \/ s[c].status = "Suspended"
  <2>1. c \in Call /\ o[c] \in {"Succeeded", "Failed", "Suspended"}
    OBVIOUS
  <2>2. QED
    BY <2>1, CompletedFacts
<1>2. Done(s, cs, o) = [c \in Call |-> IF c \in cs THEN d(c)[c] ELSE s[c]]
  BY DEF Done
<1> HIDE DEF d
<1>3. QED
  BY <1>1, <1>2 DEF CallStates

\* Where a decision goes.
LEMMA DeliveredFacts ==
  ASSUME TypeInv, NEW d \in Decision, Delivered(d)
  PROVE  /\ channel' \in Seq(Decision) /\ work' \in Seq(Decision \cup {Nothing})
         /\ \/ channel' = Append(channel, d) /\ work' = work
            \/ work' = Append(work, d) /\ channel' = channel
<1>1. channel \in Seq(Decision) /\ work \in Seq(Decision \cup {Nothing})
  BY DEF TypeInv
<1>2. d \in Decision \cup {Nothing}
  OBVIOUS
<1>3. \/ channel' = Append(channel, d) /\ work' = work
      \/ work' = Append(work, d) /\ channel' = channel
  BY DEF Delivered
<1>4. Append(channel, d) \in Seq(Decision)
  BY <1>1, AppendFacts
<1>5. Append(work, d) \in Seq(Decision \cup {Nothing})
  BY <1>1, <1>2, AppendFacts
<1>6. QED
  BY <1>1, <1>3, <1>4, <1>5

\* What is noted of a decision.
LEMMA ApprovedFacts ==
  ASSUME NEW h \in Hists, NEW d \in Decision
  PROVE  /\ Approved(h, d) \in Hists
         /\ Approved(h, d).asks = h.asks
         /\ \A x \in Call : Approved(h, d).leave[x] =
               IF x = d.call /\ d.action = "resume" THEN h.leave[x] + 1 ELSE h.leave[x]
<1>1. d.call \in Call
  BY DEF Decision
<1>2. [h EXCEPT !.leave[d.call] = @ + 1] \in Hists
  BY <1>1, NotedFacts
<1>3. QED
  BY <1>1, <1>2 DEF Approved, Hists

\* What is noted of a delivery that repeats a decision, or of one without any.
LEMMA RepeatedFacts ==
  ASSUME NEW h \in Hists, NEW d \in Decision \cup {Nothing}
  PROVE  /\ Repeated(h, d) \in Hists
         /\ Repeated(h, d).asks = h.asks
         /\ \A x \in Call : Repeated(h, d).leave[x] =
               IF x = d.call /\ d.action = "resume" THEN h.leave[x] + 1 ELSE h.leave[x]
<1>1. CASE d.action = "resume"
  <2>1. d.call \in Call
    BY <1>1 DEF Decision, Nothing
  <2> DEFINE l == [h.leave EXCEPT ![d.call] = @ + 1]
             a == [h.again EXCEPT ![d.call] = @ + 1]
  <2>2. /\ h.leave \in [Call -> Int] /\ h.again \in [Call -> Nat]
    BY DEF Hists
  <2>3. /\ l \in [Call -> Int] /\ a \in [Call -> Nat]
        /\ \A x \in Call : l[x] = IF x = d.call THEN h.leave[x] + 1 ELSE h.leave[x]
    BY <2>1, <2>2
  <2>4. Repeated(h, d) = [h EXCEPT !.leave = l, !.again = a]
    BY <1>1 DEF Repeated, Hists
  <2> HIDE DEF l, a
  <2>5. /\ Repeated(h, d) \in Hists
        /\ Repeated(h, d).asks = h.asks /\ Repeated(h, d).leave = l
    BY <2>3, <2>4 DEF Hists
  <2>6. QED
    BY <1>1, <2>3, <2>5
<1>2. CASE d.action # "resume"
  BY <1>2 DEF Repeated
<1>3. QED
  BY <1>1, <1>2

\* What is noted of an execution that fails.
LEMMA FailFacts ==
  ASSUME hist \in Hists, job \in Decision \cup {Nothing}, NEW r \in BOOLEAN, Fails(r)
  PROVE  /\ hist' \in Hists
         /\ hist'.asks = hist.asks
         /\ \A x \in Call : hist'.leave[x] =
               IF r /\ x = job.call /\ job.action = "resume" THEN hist.leave[x] + 1
                                                            ELSE hist.leave[x]
         /\ work' = IF r THEN Append(work, job) ELSE work
<1> DEFINE h == [hist EXCEPT !.troubles = @ + 1]
<1>1. h \in Hists /\ h.leave = hist.leave /\ h.asks = hist.asks
  BY RecordedFacts
<1>2. hist' = IF r THEN Repeated(h, job) ELSE h
  BY DEF Fails
<1>3. work' = IF r THEN Append(work, job) ELSE work
  BY DEF Fails
<1> HIDE DEF h
<1>4. QED
  BY <1>1, <1>2, <1>3, RepeatedFacts

\* The variables of an execution that is over.
LEMMA AtFacts ==
  ASSUME NEW place \in Places
  PROVE  /\ At(place) \in LoopStates
         /\ At(place).at = place /\ At(place).asked = {} /\ At(place).replay = {}
         /\ At(place).queue = <<>> /\ At(place).ready = <<>>
<1>1. <<>> \in Seq(Call) /\ {} \in SUBSET Call
  OBVIOUS
<1>2. QED
  BY <1>1 DEF At, LoopStates

\* The steps that end an execution without a checkpoint.
Stops == WaitFails \/ StartCancelled \/ \E r \in BOOLEAN : Fails(r)

LEMMA StopFacts ==
  ASSUME Stops, SavedInv, hist \in Hists
  PROVE  /\ \E place \in {"ended", "failed"} : loop' = At(place)
         /\ out' = {} /\ inbox' = {} /\ channel' = <<>>
         /\ life' = saved.life /\ calls' = saved.calls /\ log' = saved.log
         /\ UNCHANGED <<conf, job, saved, entry, batch, token, pending, tasks>>
         /\ how' \in {how, "none", "cancelled"}
         /\ hist'.asks = hist.asks
<1>1. CASE WaitFails
  BY <1>1 DEF WaitFails, Returns, Forgets, outside, dispatch
<1>2. CASE StartCancelled
  BY <1>2 DEF StartCancelled, Returns, Forgets, outside, dispatch
<1>3. CASE \E r \in BOOLEAN : Fails(r)
  <2>1. PICK r \in BOOLEAN : Fails(r)
    BY <1>3
  <2>2. hist'.asks = hist.asks
    BY <2>1, FailFacts DEF SavedInv
  <2>3. QED
    BY <2>1, <2>2 DEF Fails, Returns, Forgets
<1>4. QED
  BY <1>1, <1>2, <1>3 DEF Stops

\* The loop variables after such a step.
LEMMA StopPlace ==
  ASSUME \E place \in {"ended", "failed"} : loop' = At(place)
  PROVE  /\ loop' \in LoopStates /\ loop'.at \in {"ended", "failed"}
         /\ loop'.asked = {} /\ loop'.replay = {}
         /\ loop'.queue = <<>> /\ loop'.ready = <<>>
<1>1. PICK place \in {"ended", "failed"} : loop' = At(place)
  OBVIOUS
<1>2. place \in Places
  BY DEF Places
<1>3. QED
  BY <1>1, <1>2, AtFacts

\* A dispatch is taken up with what the last checkpoint has.
LEMMA ReenterFacts ==
  ASSUME SavedInv, Reenter
  PROVE  /\ saved.calls = calls /\ saved.log = log /\ saved.life = life
         /\ ~Known(calls, IF Head(work) = Nothing THEN <<>> ELSE <<Head(work)>>) =>
               /\ loop' = [loop EXCEPT !.at = "failed"]
               /\ UNCHANGED <<life, calls, log>>
BY DEF SavedInv, Reenter, Forgets

\* Moving the loop to another place keeps its type.
LEMMA PlaceTyped ==
  ASSUME loop \in LoopStates, NEW at \in Places, loop' = [loop EXCEPT !.at = at]
  PROVE  loop' \in LoopStates
BY DEF LoopStates

\* Every action keeps the types.
LEMMA TypeStep ==
  ASSUME TypeInv, BatchInv, PipeInv, WaitInv, SavedInv, Next
  PROVE  TypeInv'
<1> USE DEF TypeInv, outside, dispatch, Breaks, Shown, StepEnd, LoopStates, Places, Reasons, Statuses
<1>0. Absent \in CallStates
  BY DEF Absent, CallStates, Statuses, Ended
<1>e. <<>> \in Seq(Decision) /\ <<>> \in Seq(Call) /\ Nothing \in Decision \cup {Nothing}
  OBVIOUS
<1> USE <1>0, <1>e
<1>1. CASE StepCancelled
  BY <1>1 DEF StepCancelled, LoopStates
<1>2. CASE Infer
  BY <1>2 DEF Infer
<1>3. CASE \E r \in {"cancelled", "stopped"} : Abandoned(r)
  BY <1>3 DEF Abandoned
<1>4. CASE AnswersText
  BY <1>4 DEF AnswersText
<1>5. CASE AnswersTools
  <2>1. PICK w \in 1..(MaxCalls - batch) :
           /\ batch' = batch + w
           /\ loop' = [loop EXCEPT !.at = "gate", !.ready = <<>>, !.blocked = FALSE,
                                   !.suspended = FALSE,
                                   !.asked = (batch + 1)..(batch + w),
                                   !.queue = [i \in 1..w |-> batch + i]]
    BY <1>5 DEF AnswersTools
  <2> DEFINE q == [i \in 1..w |-> batch + i]
             a == (batch + 1)..(batch + w)
  <2>2. MaxCalls \in Nat /\ batch \in Nat /\ w \in Nat /\ batch + w \in 0..MaxCalls
    BY <2>1, LoopAssumption
  <2>3. \A i \in 1..w : batch + i \in Call
    BY <2>2 DEF Call
  <2>4. q \in Seq(Call)
    BY <2>2, <2>3
  <2>5. a \in SUBSET Call
    BY <2>2 DEF Call
  <2>6. /\ loop' = [loop EXCEPT !.at = "gate", !.ready = <<>>, !.blocked = FALSE,
                                !.suspended = FALSE, !.asked = a, !.queue = q]
        /\ batch' \in 0..MaxCalls
    BY <2>1, <2>2
  <2> HIDE DEF q, a
  <2>7. loop' \in LoopStates
    BY <2>4, <2>5, <2>6
  <2>8. QED
    BY <1>5, <2>6, <2>7 DEF AnswersTools
<1>6. CASE GateAllows
  <2> DEFINE c == Head(loop.queue)
  <2>1. c \in Call /\ Tail(loop.queue) \in Seq(Call) /\ Append(loop.ready, c) \in Seq(Call)
    BY <1>6, HeadTail, AppendFacts DEF GateAllows
  <2>2. loop' \in LoopStates
    BY <1>6, <2>1 DEF GateAllows
  <2>3. hist' \in Hists
    <3>1. hist' = [hist EXCEPT !.leave[c] = @ + 1]
      BY <1>6 DEF GateAllows
    <3> HIDE DEF c
    <3>2. QED
      BY <2>1, <3>1, NotedFacts
  <2>4. QED
    BY <1>6, <2>2, <2>3 DEF GateAllows
<1>7. CASE GateFlushes
  BY <1>7 DEF GateFlushes
<1>8. CASE GateBlocks
  <2> DEFINE c == Head(loop.queue)
  <2>1. c \in Call /\ Tail(loop.queue) \in Seq(Call)
    BY <1>8, HeadTail DEF GateBlocks
  <2>2. ToSet(loop.queue) \in SUBSET Call /\ ToSet(Tail(loop.queue)) \in SUBSET Call
    BY <2>1, SetOfSeq
  <2>3. Completed(calls, c, "Failed") \in CallStates
    BY <2>1, CompletedFacts
  <2>4. calls' \in CallStates
    BY <1>8, <2>2, <2>3, BackfilledFacts DEF GateBlocks
  <2>5. QED
    BY <1>8, <2>2, <2>4 DEF GateBlocks
<1>9. CASE GateSuspends
  <2> DEFINE c == Head(loop.queue)
  <2>1. c \in Call /\ Tail(loop.queue) \in Seq(Call)
    BY <1>9, HeadTail DEF GateSuspends
  <2>2. calls' \in CallStates
    BY <1>9, <2>1, PutFacts DEF GateSuspends
  <2>5. hist' \in Hists
    <3>1. hist' = [hist EXCEPT !.asks[c] = @ + 1] /\ hist.asks[c] < MaxAsks
      BY <1>9 DEF GateSuspends, Asked
    <3> HIDE DEF c
    <3>2. QED
      BY <2>1, <3>1, NotedFacts
  <2>6. QED
    BY <1>9, <2>1, <2>2, <2>5 DEF GateSuspends
<1>10. CASE GateAnswers
  <2> DEFINE c == Head(loop.queue)
  <2>1. c \in Call /\ Tail(loop.queue) \in Seq(Call)
    BY <1>10, HeadTail DEF GateAnswers
  <2>2. calls' \in CallStates
    BY <1>10, <2>1, CompletedFacts DEF GateAnswers
  <2>3. QED
    BY <1>10, <2>1, <2>2 DEF GateAnswers
<1>11. CASE ExecutesOne
  <2> DEFINE c == Head(loop.ready)
             rest == ToSet(Tail(loop.ready)) \cup ToSet(loop.queue)
  <2>1. loop.ready # <<>>
    BY <1>11 DEF ExecutesOne, PipeInv
  <2>2. c \in Call /\ Tail(loop.ready) \in Seq(Call)
    BY <2>1, HeadTail
  <2>3. rest \in SUBSET Call
    BY <2>2, SetOfSeq
  <2>4. tasks' \in [Tasks -> TaskStates]
    BY <1>11, SpawnsTyped DEF ExecutesOne
  <2>5. PICK o \in {"Succeeded", "Failed", "Suspended"} :
           /\ MayEnd(c, o)
           /\ hist' = Ran(hist, [x \in {c} |-> o])
           /\ IF o = "Suspended"
              THEN /\ calls' = Backfilled(Completed(calls, c, o), rest)
                   /\ out' = Answered({c}, rest)
                   /\ loop' = [loop EXCEPT !.at = "settle", !.queue = <<>>,
                                           !.ready = <<>>, !.suspended = TRUE]
              ELSE /\ calls' = Completed(calls, c, o)
                   /\ out' = out \cup {c}
                   /\ loop' = [loop EXCEPT !.ready = Tail(@),
                                 !.at = IF Len(loop.ready) = 1 THEN "gate" ELSE "exec"]
    BY <1>11 DEF ExecutesOne
  <2>6. Completed(calls, c, o) \in CallStates
    BY <2>2, CompletedFacts
  <2>7. Backfilled(Completed(calls, c, o), rest) \in CallStates
    <3> HIDE DEF rest, c
    <3> QED
      BY <2>3, <2>6, BackfilledFacts
  <2>8. calls' \in CallStates /\ out' \in SUBSET Call
    BY <2>2, <2>3, <2>5, <2>6, <2>7 DEF Answered
  <2>9. loop' \in LoopStates
    <3> HIDE DEF rest, c
    <3>1. CASE o = "Suspended"
      <4>1. loop' = [loop EXCEPT !.at = "settle", !.queue = <<>>, !.ready = <<>>,
                                 !.suspended = TRUE]
        BY <2>5, <3>1
      <4>2. QED
        BY <4>1
    <3>2. CASE o # "Suspended"
      <4>1. PICK at \in {"gate", "exec"} : loop' = [loop EXCEPT !.ready = Tail(@), !.at = at]
        BY <2>5, <3>2
      <4>2. QED
        BY <2>2, <4>1
    <3>3. QED
      BY <3>1, <3>2
  <2>10. hist' \in Hists
    <3> DEFINE p == [x \in {c} |-> o]
    <3>1. /\ DOMAIN p \subseteq Call
          /\ \A x \in DOMAIN p : p[x] = "Suspended" => hist.asks[x] < MaxAsks
      BY <2>2, <2>5 DEF MayEnd
    <3> HIDE DEF p, c
    <3>2. hist' = Ran(hist, p)
      BY <2>5 DEF p, c
    <3>3. QED
      BY <3>1, <3>2, RanFacts
  <2>11. QED
    BY <1>11, <2>4, <2>8, <2>9, <2>10 DEF ExecutesOne
<1>12. CASE ExecutesAll
  <2> DEFINE cs == ToSet(loop.ready)
             rest == ToSet(loop.queue)
  <2>1. cs \in SUBSET Call /\ rest \in SUBSET Call
    BY SetOfSeq
  <2>2. tasks' \in [Tasks -> TaskStates]
    BY <1>12, SpawnsTyped DEF ExecutesAll
  <2> DEFINE stops(o) == \E c \in cs : o[c] = "Suspended"
             done(o) == [c \in Call |-> IF c \in cs THEN Completed(calls, c, o[c])[c]
                                                    ELSE calls[c]]
  <2>3. PICK o \in [cs -> {"Succeeded", "Failed", "Suspended"}] :
           /\ \A c \in cs : MayEnd(c, o[c])
           /\ hist' = Ran(hist, o)
           /\ calls' = IF stops(o) THEN Backfilled(done(o), rest) ELSE done(o)
           /\ out' = Answered(cs, IF stops(o) THEN rest ELSE {})
           /\ loop' = [loop EXCEPT !.ready = <<>>,
                         !.at = IF stops(o) THEN "settle" ELSE "gate",
                         !.queue = IF stops(o) THEN <<>> ELSE @,
                         !.suspended = @ \/ stops(o)]
    BY <1>12 DEF ExecutesAll
  <2>4. done(o) \in CallStates
    <3>1. done(o) = Done(calls, cs, o)
      BY DEF Done
    <3>2. Done(calls, cs, o) \in CallStates
      BY <2>1, DoneFacts
    <3>3. QED
      BY <3>1, <3>2
  <2>5. Backfilled(done(o), rest) \in CallStates
    <3> HIDE DEF done, rest
    <3> QED
      BY <2>1, <2>4, BackfilledFacts
  <2>6. calls' \in CallStates /\ out' \in SUBSET Call
    <3> HIDE DEF done, rest, cs, stops
    <3> QED
      BY <2>1, <2>3, <2>4, <2>5 DEF Answered
  <2>7. loop' \in LoopStates
    <3> DEFINE b == stops(o)
               l == [loop EXCEPT !.ready = <<>>,
                         !.at = IF b THEN "settle" ELSE "gate",
                         !.queue = IF b THEN <<>> ELSE @,
                         !.suspended = @ \/ b]
    <3>1. loop' = l
      BY <2>3
    <3>2. b \in BOOLEAN
      OBVIOUS
    <3> HIDE DEF b
    <3>3. l \in LoopStates
      <4>1. CASE b
        BY <4>1
      <4>2. CASE ~b
        BY <4>2
      <4>3. QED
        BY <4>1, <4>2
    <3>4. QED
      BY <3>1, <3>3
  <2>8. hist' \in Hists
    <3>1. /\ DOMAIN o \subseteq Call
          /\ \A x \in DOMAIN o : o[x] = "Suspended" => hist.asks[x] < MaxAsks
      BY <2>1, <2>3 DEF MayEnd
    <3>2. QED
      BY <2>3, <3>1, RanFacts
  <2>9. QED
    BY <1>12, <2>2, <2>6, <2>7, <2>8 DEF ExecutesAll
<1>13. CASE \E r \in {"cancelled", "blocked", "stopped"} : SettleEnds(r)
  <2>1. PICK r \in {"cancelled", "blocked", "stopped"} : SettleEnds(r)
    BY <1>13
  <2>2. r \in Reasons
    OBVIOUS
  <2>3. loop' \in LoopStates /\ how' = r
    BY <2>1 DEF SettleEnds
  <2>4. log' \in [shown : SUBSET Call, answered : SUBSET Call] /\ out' \in SUBSET Call
    BY <2>1 DEF SettleEnds
  <2>5. QED
    BY <2>1, <2>2, <2>3, <2>4 DEF SettleEnds
<1>14. CASE SettleSuspends
  BY <1>14 DEF SettleSuspends
<1>15. CASE SettleContinues
  BY <1>15 DEF SettleContinues
<1>16. CASE NaturalContinues
  BY <1>16 DEF NaturalContinues
<1>17. CASE NaturalParks
  BY <1>17 DEF NaturalParks
<1>18. CASE NaturalEnds
  BY <1>18 DEF NaturalEnds
<1>19. CASE ParkedReceives
  BY <1>19 DEF ParkedReceives
<1>20. CASE ParkedCancelled
  BY <1>20 DEF ParkedCancelled
<1>21. CASE \E r \in {"suspended", "cancelled"} : WaitEnds(r)
  BY <1>21 DEF WaitEnds
<1>23. CASE Stops
  <2>1. /\ \E place \in {"ended", "failed"} : loop' = At(place)
        /\ out' = {} /\ inbox' = {} /\ channel' = <<>>
        /\ life' = saved.life /\ calls' = saved.calls /\ log' = saved.log
        /\ UNCHANGED <<conf, entry, batch, token, pending, tasks>>
        /\ how' \in {how, "none", "cancelled"}
    BY <1>23, StopFacts
  <2>2. loop' \in LoopStates
    <3> HIDE DEF LoopStates
    <3> QED
      BY <2>1, StopPlace
  <2>3. saved.life \in Lives /\ saved.calls \in CallStates /\ saved.log \in Logs
    BY DEF SavedInv
  <2>4. hist' \in Hists /\ work' \in Seq(Decision \cup {Nothing})
    <3>1. CASE WaitFails \/ StartCancelled
      BY <3>1 DEF WaitFails, StartCancelled
    <3>2. CASE \E r \in BOOLEAN : Fails(r)
      <4>1. PICK r \in BOOLEAN : Fails(r)
        BY <3>2
      <4>2. job \in Decision \cup {Nothing}
        BY DEF SavedInv
      <4>3. hist' \in Hists /\ work' = IF r THEN Append(work, job) ELSE work
        BY <4>1, <4>2, FailFacts
      <4>4. Append(work, job) \in Seq(Decision \cup {Nothing})
        BY <4>2, AppendFacts
      <4>5. QED
        BY <4>3, <4>4
    <3>3. QED
      BY <1>23, <3>1, <3>2 DEF Stops
  <2>5. QED
    BY <2>1, <2>2, <2>3, <2>4 DEF Lives, Logs
<1>22. CASE WaitResumes
  <2>1. DecidedBy(calls, channel, Len(channel), Prepared(calls, channel))
    BY PreparedFacts
  <2>2. Prepared(calls, channel) \in CallStates
    BY <2>1 DEF DecidedBy
  <2>3. MarksTaken(Prepared(calls, channel)) \in CallStates
    BY <2>2, MarksTakenFacts
  <2>4. Resuming(Prepared(calls, channel)) \in SUBSET Call
    BY DEF Resuming
  <2>5. Marked(Prepared(calls, channel)) \in SUBSET Call
    BY DEF Marked
  <2>6. QED
    BY <1>22, <2>3, <2>4, <2>5 DEF WaitResumes, TakesDecisions
<1>24. CASE WaitReceives
  BY <1>24 DEF WaitReceives
<1>25. CASE \E o \in {"Succeeded", "Failed", "Suspended"} : ReplayGated(o)
  <2> DEFINE c == First(loop.replay)
  <2>1. PICK o \in {"Succeeded", "Failed", "Suspended"} : ReplayGated(o)
    BY <1>25
  <2>2. c \in Call
    BY <2>1, FirstIsOne DEF ReplayGated
  <2>3. calls' \in CallStates
    BY <2>1, <2>2, CompletedFacts DEF ReplayGated
  <2>4. loop' \in LoopStates
    BY <2>1 DEF ReplayGated, ReplayStep
  <2>5. hist' \in Hists
    <3>1. hist' = IF o = "Suspended" THEN [hist EXCEPT !.asks[c] = @ + 1] ELSE hist
      BY <2>1 DEF ReplayGated, Asked
    <3>2. o = "Suspended" => hist.asks[c] < MaxAsks
      BY <2>1 DEF ReplayGated, MayEnd
    <3> HIDE DEF c
    <3>3. QED
      BY <2>2, <3>1, <3>2, NotedFacts
  <2>6. log' \in [shown : SUBSET Call, answered : SUBSET Call]
    BY <2>1, <2>2 DEF ReplayGated
  <2>7. QED
    BY <2>1, <2>3, <2>4, <2>5, <2>6 DEF ReplayGated
<1>26. CASE \E o \in {"Succeeded", "Failed", "Suspended"} : ReplayRuns(o)
  <2> DEFINE c == First(loop.replay)
  <2>1. PICK o \in {"Succeeded", "Failed", "Suspended"} : ReplayRuns(o)
    BY <1>26
  <2>2. c \in Call
    BY <2>1, FirstIsOne DEF ReplayRuns
  <2>3. calls' \in CallStates
    BY <2>1, <2>2, CompletedFacts DEF ReplayRuns
  <2>4. loop' \in LoopStates
    BY <2>1 DEF ReplayRuns, ReplayStep
  <2>5. hist' \in Hists
    <3> DEFINE p == [x \in {c} |-> o]
    <3>1. /\ DOMAIN p \subseteq Call
          /\ \A x \in DOMAIN p : p[x] = "Suspended" => hist.asks[x] < MaxAsks
      BY <2>1, <2>2 DEF ReplayRuns, MayEnd
    <3>2. hist' = Ran(hist, p)
      BY <2>1 DEF ReplayRuns
    <3> HIDE DEF p, c
    <3>3. QED
      BY <3>1, <3>2, RanFacts
  <2>6. log' \in [shown : SUBSET Call, answered : SUBSET Call]
    BY <2>1, <2>2 DEF ReplayRuns
  <2>7. tasks' \in [Tasks -> TaskStates]
    BY <2>1, SpawnsTyped DEF ReplayRuns
  <2>8. QED
    BY <2>1, <2>3, <2>4, <2>5, <2>6, <2>7 DEF ReplayRuns
<1>27. CASE ReplayEnds
  <2>1. loop' \in LoopStates
    <3>1. PICK at \in {"top", "waiting"} : loop' = [loop EXCEPT !.at = at]
      BY <1>27 DEF ReplayEnds
    <3>2. at \in Places
      OBVIOUS
    <3>3. QED
      BY <3>1, <3>2, PlaceTyped
  <2>2. QED
    BY <1>27, <2>1 DEF ReplayEnds
<1>34. CASE StartEnds
  BY <1>34 DEF StartEnds
<1>28. CASE Ends
  <2>1. loop' = At("ended") /\ "ended" \in Places
    BY <1>28 DEF Ends, Returns
  <2>2. loop' \in LoopStates
    <3> HIDE DEF LoopStates, Places
    <3> QED
      BY <2>1, AtFacts
  <2>3. QED
    BY <1>28, <2>2 DEF Ends, Returns
<1>29. CASE Background
  <2>1. PICK t \in Tasks : TaskEnds(t) \/ TaskReports(t)
    BY <1>29 DEF Background
  <2>2. CASE TaskEnds(t)
    <3>1. tasks' \in [Tasks -> TaskStates]
      BY <2>2 DEF TaskEnds, TaskStates
    <3>2. QED
      BY <2>2, <3>1 DEF TaskEnds
  <2>3. CASE TaskReports(t)
    <3>1. tasks' \in [Tasks -> TaskStates] /\ inbox' \in SUBSET Tasks
      BY <2>3 DEF TaskReports, TaskStates
    <3>2. work' \in Seq(Decision \cup {Nothing})
      BY <2>3 DEF TaskReports
    <3>3. QED
      BY <2>3, <3>1, <3>2 DEF TaskReports
  <2>4. QED
    BY <2>1, <2>2, <2>3
<1>30. CASE \E c \in Call, a \in {"resume", "cancel"} : Decide(c, a)
  <2>1. PICK c \in Call, a \in {"resume", "cancel"} : Decide(c, a)
    BY <1>30
  <2> DEFINE d == [call |-> c, action |-> a, ask |-> hist.asks[c]]
  <2>2. d \in Decision
    <3>1. hist.asks[c] \in 0..MaxAsks /\ hist.asks[c] >= 1 /\ MaxAsks \in Nat
      BY <2>1, LoopAssumption DEF Decide, BatchInv, Hists
    <3>2. hist.asks[c] \in 1..MaxAsks
      BY <3>1
    <3>3. QED
      BY <3>2 DEF Decision
  <2> HIDE DEF d
  <2>3. Delivered(d)
    BY <2>1 DEF Decide, d
  <2>4. hist' = Approved([hist EXCEPT !.sent = @ \cup {d}], d)
    BY <2>1 DEF Decide, d
  <2>5. channel' \in Seq(Decision) /\ work' \in Seq(Decision \cup {Nothing})
    BY <2>2, <2>3, DeliveredFacts
  <2>6. [hist EXCEPT !.sent = @ \cup {d}] \in Hists
    BY <2>2, RecordedFacts
  <2>7. hist' \in Hists
    BY <2>2, <2>4, <2>6, ApprovedFacts
  <2>8. QED
    BY <2>1, <2>5, <2>7 DEF Decide
<1>31. CASE \E d \in Decision : DecideAgain(d)
  <2>1. PICK d \in Decision : DecideAgain(d)
    BY <1>31
  <2>2. Delivered(d) /\ hist' = Repeated([hist EXCEPT !.troubles = @ + 1], d)
    BY <2>1 DEF DecideAgain
  <2>3. channel' \in Seq(Decision) /\ work' \in Seq(Decision \cup {Nothing})
    BY <2>2, DeliveredFacts
  <2>4. [hist EXCEPT !.troubles = @ + 1] \in Hists
    BY RecordedFacts
  <2>5. hist' \in Hists
    BY <2>2, <2>4, RepeatedFacts
  <2>6. QED
    BY <2>1, <2>3, <2>5 DEF DecideAgain
<1>32. CASE Cancel
  BY <1>32 DEF Cancel
<1>33. CASE Reenter
  <2> DEFINE d == Head(work)
             ds == IF d = Nothing THEN <<>> ELSE <<d>>
             p == Prepared(calls, ds)
  <2>1. d \in Decision \cup {Nothing} /\ Tail(work) \in Seq(Decision \cup {Nothing})
    BY <1>33, HeadTail DEF Reenter
  <2>2. ds \in Seq(Decision)
    <3> HIDE DEF d
    <3>1. d # Nothing => <<d>> \in Seq(Decision)
      BY <2>1
    <3>2. QED
      BY <3>1
  <2>3. p \in CallStates /\ MarksTaken(p) \in CallStates
    <3> HIDE DEF ds
    <3>1. DecidedBy(calls, ds, Len(ds), p)
      BY <2>2, PreparedFacts
    <3>2. p \in CallStates
      BY <3>1 DEF DecidedBy
    <3>3. QED
      BY <3>2, MarksTakenFacts
  <2>4. Resuming(p) \in SUBSET Call /\ Marked(p) \in SUBSET Call
    BY DEF Resuming, Marked
  <2>5. entry' \in 1..MaxEntries
    BY <1>33, LoopAssumption DEF Reenter
  <2>6. /\ work' = Tail(work) /\ token' = FALSE /\ how' = "none"
        /\ \/ /\ life' = "Running"
              /\ calls' = MarksTaken(p)
              /\ log' = [log EXCEPT !.answered = @ \cup Marked(p)]
              /\ loop' = [loop EXCEPT !.at = "replay", !.first = TRUE,
                                      !.replay = Resuming(p)]
           \/ /\ loop' = [loop EXCEPT !.at = "failed"]
              /\ UNCHANGED <<life, calls, log>>
        /\ UNCHANGED <<conf, batch, out, pending, inbox, tasks, channel, hist>>
    BY <1>33, ReenterFacts DEF Reenter
  <2> HIDE DEF p, ds, d
  <2>7. loop' \in LoopStates /\ calls' \in CallStates /\ life' \in {"Running", "Suspended", "Awaiting", "Done"}
        /\ log' \in [shown : SUBSET Call, answered : SUBSET Call]
    <3>1. CASE loop' = [loop EXCEPT !.at = "failed"] /\ UNCHANGED <<life, calls, log>>
      BY <3>1
    <3>2. CASE /\ life' = "Running"
               /\ calls' = MarksTaken(p)
               /\ log' = [log EXCEPT !.answered = @ \cup Marked(p)]
               /\ loop' = [loop EXCEPT !.at = "replay", !.first = TRUE,
                                       !.replay = Resuming(p)]
      <4>1. loop' \in LoopStates
        BY <2>4, <3>2
      <4>2. QED
        BY <2>3, <2>4, <3>2, <4>1
    <3>3. QED
      BY <2>6, <3>1, <3>2
  <2>8. QED
    BY <2>1, <2>5, <2>6, <2>7 DEF d
<1>40. QED
  BY <1>1, <1>2, <1>3, <1>4, <1>5, <1>6, <1>7, <1>8, <1>9, <1>10, <1>11, <1>12,
     <1>13, <1>14, <1>15, <1>16, <1>17, <1>18, <1>19, <1>20, <1>21, <1>22, <1>23,
     <1>24, <1>25, <1>26, <1>27, <1>28, <1>29, <1>30, <1>31, <1>32, <1>33, <1>34
     DEF Next, Loop, Pipeline, Clients, Stops

\* Decisions on known calls stay within the batches, marks included, and
\* suspend nothing.
LEMMA DecidedKnown ==
  ASSUME TypeInv, BatchInv, NEW ds \in Seq(Decision), NEW p,
         DecidedBy(calls, ds, Len(ds), p),
         \A i \in 1..Len(ds) : calls[ds[i].call].status # "New"
  PROVE  /\ \A c \in Call : c > batch => MarksTaken(p)[c] = Absent[c]
         /\ \A c \in Call : c \in Marked(p) => c <= batch
         /\ \A c \in Call : MarksTaken(p)[c].status = "Suspended" => calls[c].status = "Suspended"
<1>1. /\ p \in CallStates
      /\ \A c \in Call : p[c].status = "Suspended" => calls[c].status = "Suspended"
  BY DEF DecidedBy
<1>2. \A c \in Call : Absent[c].status = "New" /\ c \in Nat /\ batch \in Nat
  BY LoopAssumption DEF Absent, Call, TypeInv
<1>3. ASSUME NEW c \in Call, c > batch
      PROVE  p[c] = Absent[c]
  <2>1. calls[c].status = "New" /\ calls[c] = Absent[c]
    BY <1>2, <1>3 DEF BatchInv
  <2>2. \A i \in 1..Len(ds) : ds[i].call # c
    BY <2>1
  <2>3. QED
    BY <2>1, <2>2 DEF DecidedBy
<1>4. QED
  BY <1>1, <1>2, <1>3, MarksTakenFacts

\* Only calls the model has asked for are known anywhere.
LEMMA BatchStep ==
  ASSUME TypeInv, BatchInv, PipeInv, WaitInv, SavedInv, Next, TypeInv'
  PROVE  BatchInv'
<1> USE DEF BatchInv, Within, outside, dispatch, Breaks, Shown
<1>t. /\ loop \in LoopStates /\ loop' \in LoopStates
      /\ calls \in CallStates /\ calls' \in CallStates
      /\ hist \in Hists /\ batch \in 0..MaxCalls
      /\ log \in [shown : SUBSET Call, answered : SUBSET Call]
      /\ out \in SUBSET Call /\ out' \in SUBSET Call
  BY DEF TypeInv
<1>u. /\ \A c \in Call : Absent[c].status = "New"
      /\ Call \subseteq Nat /\ batch \in Nat
  BY <1>t, LoopAssumption DEF Absent, Call
<1>1. CASE StepCancelled
  BY <1>1, <1>t, <1>u DEF StepCancelled, LoopStates
<1>2. CASE Infer
  BY <1>2, <1>t, <1>u DEF Infer, LoopStates
<1>3. CASE AnswersText
  BY <1>3, <1>t, <1>u DEF AnswersText, LoopStates
<1>4. CASE GateFlushes
  BY <1>4, <1>t, <1>u DEF GateFlushes, LoopStates
<1>5. CASE SettleSuspends
  BY <1>5, <1>t, <1>u DEF SettleSuspends, LoopStates
<1>6. CASE SettleContinues
  BY <1>6, <1>t, <1>u DEF SettleContinues, LoopStates
<1>7. CASE NaturalContinues
  BY <1>7, <1>t, <1>u DEF NaturalContinues, LoopStates
<1>8. CASE NaturalParks
  BY <1>8, <1>t, <1>u DEF NaturalParks, LoopStates
<1>9. CASE NaturalEnds
  BY <1>9, <1>t, <1>u DEF NaturalEnds, LoopStates
<1>10. CASE ParkedReceives
  BY <1>10, <1>t, <1>u DEF ParkedReceives, LoopStates
<1>11. CASE ParkedCancelled
  BY <1>11, <1>t, <1>u DEF ParkedCancelled, LoopStates
<1>12. CASE Stops
  <2>1. /\ \E place \in {"ended", "failed"} : loop' = At(place)
        /\ out' = {} /\ calls' = saved.calls /\ log' = saved.log /\ batch' = batch
        /\ hist'.asks = hist.asks
    BY <1>12, <1>t, StopFacts
  <2>2. loop'.asked = {} /\ loop'.queue = <<>> /\ loop'.ready = <<>>
    BY <2>1, StopPlace
  <2>3. ToSet(<<>>) = {}
    BY DEF ToSet
  <2>4. QED
    BY <2>1, <2>2, <2>3 DEF SavedInv
<1>13. CASE WaitReceives
  BY <1>13, <1>t, <1>u DEF WaitReceives, LoopStates
<1>14. CASE ReplayEnds
  BY <1>14, <1>t, <1>u DEF ReplayEnds, LoopStates
<1>17. CASE StartEnds
  BY <1>17, <1>t, <1>u DEF StartEnds, LoopStates
<1>15. CASE Ends
  <2>1. loop' = At("ended") /\ out' = {} /\ UNCHANGED <<calls, log, batch, hist>>
    BY <1>15 DEF Ends, Returns
  <2>2. loop'.asked = {} /\ loop'.queue = <<>> /\ loop'.ready = <<>>
    BY <2>1, StopPlace
  <2>3. ToSet(<<>>) = {}
    BY DEF ToSet
  <2>4. QED
    BY <2>1, <2>2, <2>3
<1>16. CASE Cancel
  BY <1>16, <1>t, <1>u DEF Cancel, LoopStates
<1>21. CASE \E r \in {"cancelled", "stopped"} : Abandoned(r)
  BY <1>21, <1>t, <1>u DEF Abandoned, LoopStates
<1>22. CASE AnswersTools
  <2>1. PICK w \in 1..(MaxCalls - batch) :
           /\ batch' = batch + w
           /\ loop' = [loop EXCEPT !.at = "gate", !.ready = <<>>, !.blocked = FALSE,
                                   !.suspended = FALSE,
                                   !.asked = (batch + 1)..(batch + w),
                                   !.queue = [i \in 1..w |-> batch + i]]
    BY <1>22 DEF AnswersTools
  <2> DEFINE q == [i \in 1..w |-> batch + i]
             a == (batch + 1)..(batch + w)
  <2>2. w \in Nat /\ batch' = batch + w /\ batch' > batch
    BY <1>u, <2>1
  <2>3. q \in Seq(Nat) /\ Len(q) = w /\ \A i \in 1..w : q[i] = batch + i
    BY <1>u, <2>2
  <2>4. \A c \in Call : c \in a => c <= batch'
    BY <1>u, <2>2
  <2>5. loop'.asked = a /\ loop'.queue = q /\ loop'.ready = <<>>
    <3> HIDE DEF a, q
    <3>1. loop' = [loop EXCEPT !.at = "gate", !.ready = <<>>, !.blocked = FALSE,
                               !.suspended = FALSE, !.asked = a, !.queue = q]
      BY <2>1 DEF a, q
    <3>2. QED
      BY <1>t, <3>1 DEF LoopStates
  <2>6. \A c \in Call : c \in ToSet(loop'.queue) => c <= batch'
    <3> HIDE DEF q
    <3>1. ToSet(q) = {q[i] : i \in 1..Len(q)}
      BY <2>3, SetOfSeq
    <3>2. QED
      BY <1>u, <2>2, <2>3, <2>5, <3>1
  <2>7. ToSet(loop'.ready) = {}
    BY <2>5 DEF ToSet
  <2>8. \A c \in Call : c <= batch => c <= batch'
    BY <1>u, <2>2
  <2>9. calls' = calls /\ log' = log /\ out' = {} /\ hist' = hist
    BY <1>22 DEF AnswersTools
  <2>10. \A c \in Call : c > batch' => c > batch
    BY <1>u, <2>2
  <2> HIDE DEF a, q
  <2>11. QED
    BY <2>4, <2>5, <2>6, <2>7, <2>8, <2>9, <2>10
<1>q. /\ loop.queue # <<>> =>
            /\ Head(loop.queue) \in Call /\ Head(loop.queue) <= batch
            /\ Tail(loop.queue) \in Seq(Call)
            /\ ToSet(Tail(loop.queue)) \subseteq ToSet(loop.queue)
      /\ loop.ready # <<>> =>
            /\ Head(loop.ready) \in Call /\ Head(loop.ready) <= batch
            /\ Tail(loop.ready) \in Seq(Call)
            /\ ToSet(Tail(loop.ready)) \subseteq ToSet(loop.ready)
      /\ ToSet(loop.queue) \in SUBSET Call /\ ToSet(loop.ready) \in SUBSET Call
      /\ ToSet(<<>>) = {}
  <2>1. loop.queue \in Seq(Call) /\ loop.ready \in Seq(Call)
    BY <1>t DEF LoopStates
  <2>2. ToSet(<<>>) = {}
    BY DEF ToSet
  <2>3. ToSet(loop.queue) \in SUBSET Call /\ ToSet(loop.ready) \in SUBSET Call
    BY <2>1, SetOfSeq
  <2>4. QED
    BY <2>1, <2>2, <2>3, HeadTail
<1>23. CASE GateAllows
  <2> DEFINE c == Head(loop.queue)
  <2>1. loop.queue # <<>> /\ loop.ready \in Seq(Call)
    BY <1>23, <1>t DEF GateAllows, LoopStates
  <2>2. ToSet(Append(loop.ready, c)) = ToSet(loop.ready) \cup {c}
    BY <1>q, <2>1, AppendFacts
  <2>3. loop'.queue = Tail(loop.queue) /\ loop'.ready = Append(loop.ready, c) /\ loop'.asked = loop.asked
    BY <1>23, <1>t DEF GateAllows, LoopStates
  <2>4. hist'.asks = hist.asks
    BY <1>23, <1>t DEF GateAllows, Hists
  <2> HIDE DEF c
  <2>5. QED
    BY <1>23, <1>q, <2>1, <2>2, <2>3, <2>4 DEF GateAllows, c
<1>24. CASE GateBlocks
  <2> DEFINE c == Head(loop.queue)
             s == Completed(calls, c, "Failed")
             rest == ToSet(Tail(loop.queue))
  <2>1. loop.queue # <<>> /\ c \in Call /\ c <= batch /\ rest \in SUBSET Call
    BY <1>24, <1>q DEF GateBlocks
  <2>2. /\ s \in CallStates
        /\ \A x \in Call : x # c => s[x] = calls[x]
        /\ s[c].status = "Suspended" => calls[c].status = "Suspended"
    BY <1>t, <2>1, CompletedFacts
  <2>3. calls' = Backfilled(s, rest) /\ out' = out \cup ToSet(loop.queue)
    BY <1>24 DEF GateBlocks
  <2>4. loop'.queue = <<>> /\ loop'.ready = loop.ready /\ loop'.asked = loop.asked
    BY <1>24, <1>t DEF GateBlocks, LoopStates
  <2>5. \A x \in rest : x <= batch
    BY <1>q, <2>1
  <2> HIDE DEF s, c, rest
  <2>6. /\ \A x \in Call : x \notin rest => calls'[x] = s[x]
        /\ \A x \in Call : calls'[x].status \in {s[x].status, "Failed"}
    BY <2>1, <2>2, <2>3, BackfilledFacts
  <2>7. \A x \in Call : calls'[x].status = "Suspended" => hist.asks[x] >= 1
    BY <2>2, <2>6
  <2>8. QED
    BY <1>24, <1>q, <1>u, <2>1, <2>2, <2>3, <2>4, <2>5, <2>6, <2>7 DEF GateBlocks
<1>25. CASE GateSuspends
  <2> DEFINE c == Head(loop.queue)
  <2>1. loop.queue # <<>> /\ c \in Call /\ c <= batch
    BY <1>25, <1>q DEF GateSuspends
  <2>2. "Suspended" \in Statuses
    BY DEF Statuses
  <2>3. \A x \in Call : x # c => calls'[x] = calls[x]
    BY <1>25, <1>t, <2>1, <2>2, PutFacts DEF GateSuspends
  <2>4. loop'.queue = Tail(loop.queue) /\ loop'.ready = loop.ready /\ loop'.asked = loop.asked
    BY <1>25, <1>t DEF GateSuspends, LoopStates
  <2>5. hist' = [hist EXCEPT !.asks[c] = @ + 1] /\ hist.asks[c] < MaxAsks /\ out' = out \cup {c}
    BY <1>25 DEF GateSuspends, Asked
  <2> HIDE DEF c
  <2>6. hist'.asks[c] >= 1 /\ \A x \in Call : x # c => hist'.asks[x] = hist.asks[x]
    <3>1. hist'.asks[c] >= 1
      BY <1>t, <2>1, <2>5, NotedFacts
    <3>2. QED
      BY <1>t, <2>1, <2>5, <3>1 DEF Hists
  <2>7. QED
    BY <1>25, <1>q, <1>u, <2>1, <2>3, <2>4, <2>5, <2>6 DEF GateSuspends
<1>26. CASE GateAnswers
  <2> DEFINE c == Head(loop.queue)
  <2>1. loop.queue # <<>> /\ c \in Call /\ c <= batch
    BY <1>26, <1>q DEF GateAnswers
  <2>2. calls' = Completed(calls, c, "Succeeded") /\ out' = out \cup {c}
    BY <1>26 DEF GateAnswers
  <2>3. loop'.queue = Tail(loop.queue) /\ loop'.ready = loop.ready /\ loop'.asked = loop.asked
    BY <1>26, <1>t DEF GateAnswers, LoopStates
  <2> HIDE DEF c
  <2>4. /\ \A x \in Call : x # c => calls'[x] = calls[x]
        /\ calls'[c].status = "Suspended" => calls[c].status = "Suspended"
    <3>1. /\ Completed(calls, c, "Succeeded") \in CallStates
          /\ \A x \in Call : x # c => Completed(calls, c, "Succeeded")[x] = calls[x]
          /\ Completed(calls, c, "Succeeded")[c].status # "Resuming"
          /\ Completed(calls, c, "Succeeded")[c].status = "Suspended" =>
                "Succeeded" = "Suspended" \/ calls[c].status = "Suspended"
      BY <1>t, <2>1, CompletedFacts
    <3>2. QED
      BY <2>2, <3>1
  <2>5. QED
    BY <1>26, <1>q, <1>u, <2>1, <2>2, <2>3, <2>4 DEF GateAnswers, c
<1>27. CASE ExecutesOne
  <2> DEFINE c == Head(loop.ready)
             rest == ToSet(Tail(loop.ready)) \cup ToSet(loop.queue)
  <2>1. loop.ready # <<>> /\ c \in Call /\ c <= batch /\ rest \in SUBSET Call
        /\ \A x \in rest : x <= batch
    BY <1>27, <1>q DEF ExecutesOne, PipeInv
  <2>2. PICK o \in {"Succeeded", "Failed", "Suspended"} :
           /\ MayEnd(c, o)
           /\ hist' = Ran(hist, [x \in {c} |-> o])
           /\ IF o = "Suspended"
              THEN /\ calls' = Backfilled(Completed(calls, c, o), rest)
                   /\ out' = Answered({c}, rest)
                   /\ loop' = [loop EXCEPT !.at = "settle", !.queue = <<>>,
                                           !.ready = <<>>, !.suspended = TRUE]
              ELSE /\ calls' = Completed(calls, c, o)
                   /\ out' = out \cup {c}
                   /\ loop' = [loop EXCEPT !.ready = Tail(@),
                                 !.at = IF Len(loop.ready) = 1 THEN "gate" ELSE "exec"]
    BY <1>27 DEF ExecutesOne
  <2> DEFINE s == Completed(calls, c, o)
  <2>3. /\ s \in CallStates
        /\ \A x \in Call : x # c => s[x] = calls[x]
        /\ s[c].status = "Suspended" => o = "Suspended" \/ calls[c].status = "Suspended"
    <3> HIDE DEF c, rest
    <3>1. c \in Call /\ calls \in CallStates
      BY <1>t, <2>1
    <3>2. /\ Completed(calls, c, o) \in CallStates
          /\ \A x \in Call : x # c => Completed(calls, c, o)[x] = calls[x]
          /\ Completed(calls, c, o)[c].status # "Resuming"
          /\ Completed(calls, c, o)[c].status = "Suspended" =>
                o = "Suspended" \/ calls[c].status = "Suspended"
      BY <3>1, CompletedFacts
    <3>3. QED
      BY <3>2
  <2>4. hist'.asks \in [Call -> 0..MaxAsks]
    BY DEF TypeInv, Hists
  <2>5. /\ \A x \in Call : hist'.asks[x] >= hist.asks[x]
        /\ o = "Suspended" => hist'.asks[c] >= 1
    <3> DEFINE p == [x \in {c} |-> o]
    <3>1. /\ DOMAIN p \subseteq Call /\ c \in DOMAIN p /\ p[c] = o
          /\ \A x \in DOMAIN p : p[x] = "Suspended" => hist.asks[x] < MaxAsks
      BY <2>1, <2>2 DEF MayEnd
    <3>2. hist' = Ran(hist, p)
      BY <2>2
    <3> HIDE DEF p, c
    <3>3. QED
      BY <1>t, <3>1, <3>2, RanFacts
  <2>6. /\ ToSet(loop'.queue) \subseteq ToSet(loop.queue)
        /\ ToSet(loop'.ready) \subseteq ToSet(loop.ready)
        /\ loop'.asked = loop.asked
    <3> HIDE DEF s, c, rest
    <3>1. CASE o = "Suspended"
      <4>1. loop'.queue = <<>> /\ loop'.ready = <<>> /\ loop'.asked = loop.asked
        BY <1>t, <2>2, <3>1 DEF LoopStates
      <4>2. QED
        BY <1>q, <4>1
    <3>2. CASE o # "Suspended"
      <4>1. loop'.queue = loop.queue /\ loop'.ready = Tail(loop.ready) /\ loop'.asked = loop.asked
        BY <1>t, <2>2, <3>2 DEF LoopStates
      <4>2. QED
        BY <1>q, <2>1, <4>1
    <3>3. QED
      BY <3>1, <3>2
  <2>7. out' \subseteq out \cup {c} \cup rest
    <3> HIDE DEF c, rest
    <3>1. QED
      BY <2>2 DEF Answered
  <2>8. /\ \A x \in Call : x # c /\ x \notin rest => calls'[x] = calls[x]
        /\ \A x \in Call : calls'[x].status = "Suspended" => s[x].status = "Suspended"
    <3> HIDE DEF c, rest
    <3>1. CASE o = "Suspended"
      <4>1. calls' = Backfilled(s, rest)
        BY <2>2, <3>1
      <4> HIDE DEF s
      <4>2. QED
        BY <2>1, <2>3, <4>1, BackfilledFacts
    <3>2. CASE o # "Suspended"
      <4>1. calls' = s
        BY <2>2, <3>2
      <4> HIDE DEF s
      <4>2. QED
        BY <2>3, <4>1
    <3>3. QED
      BY <3>1, <3>2
  <2> HIDE DEF s, c, rest
  <2>9. ASSUME NEW x \in Call, calls'[x].status = "Suspended"
        PROVE  hist'.asks[x] >= 1
    <3>1. hist.asks[x] \in Nat /\ hist'.asks[x] \in Nat /\ hist'.asks[x] >= hist.asks[x]
      BY <1>t, <2>4, <2>5, LoopAssumption DEF Hists
    <3>2. calls[x].status = "Suspended" \/ (x = c /\ o = "Suspended")
      <4> HIDE DEF BatchInv, Within
      <4>1. s[x].status = "Suspended"
        BY <2>8, <2>9
      <4>2. QED
        BY <2>3, <4>1
    <3>3. QED
      BY <2>5, <3>1, <3>2
  <2>10. UNCHANGED <<batch, log>>
    BY <1>27 DEF ExecutesOne
  <2>11. QED
    BY <1>t, <1>u, <2>1, <2>6, <2>7, <2>8, <2>9, <2>10
<1>28. CASE ExecutesAll
  <2> DEFINE cs == ToSet(loop.ready)
             rest == ToSet(loop.queue)
  <2>1. /\ cs \in SUBSET Call /\ rest \in SUBSET Call
        /\ \A x \in cs : x <= batch
        /\ \A x \in rest : x <= batch
    BY <1>q
  <2> DEFINE stops(o) == \E c \in cs : o[c] = "Suspended"
  <2>2. PICK o \in [cs -> {"Succeeded", "Failed", "Suspended"}] :
           /\ \A c \in cs : MayEnd(c, o[c])
           /\ hist' = Ran(hist, o)
           /\ calls' = IF stops(o) THEN Backfilled(Done(calls, cs, o), rest) ELSE Done(calls, cs, o)
           /\ out' = Answered(cs, IF stops(o) THEN rest ELSE {})
           /\ loop' = [loop EXCEPT !.ready = <<>>,
                         !.at = IF stops(o) THEN "settle" ELSE "gate",
                         !.queue = IF stops(o) THEN <<>> ELSE @,
                         !.suspended = @ \/ stops(o)]
    BY <1>28 DEF ExecutesAll, Done
  <2> DEFINE s == Done(calls, cs, o)
             b == stops(o)
  <2>3. /\ s \in CallStates
        /\ \A x \in Call : x \notin cs => s[x] = calls[x]
        /\ \A x \in cs : s[x].status = "Suspended" => o[x] = "Suspended" \/ calls[x].status = "Suspended"
    <3> HIDE DEF cs, rest, BatchInv, Within
    <3> QED
      BY <1>t, <2>1, <2>2, DoneFacts
  <2>4. hist'.asks \in [Call -> 0..MaxAsks]
    BY DEF TypeInv, Hists
  <2>5. /\ \A x \in Call : hist'.asks[x] >= hist.asks[x]
        /\ \A x \in cs : o[x] = "Suspended" => hist'.asks[x] >= 1
    <3>1. /\ DOMAIN o = cs
          /\ \A x \in DOMAIN o : o[x] = "Suspended" => hist.asks[x] < MaxAsks
      BY <2>1, <2>2 DEF MayEnd
    <3>2. QED
      BY <1>t, <2>1, <2>2, <3>1, RanFacts
  <2>6. /\ ToSet(loop'.queue) \subseteq ToSet(loop.queue)
        /\ ToSet(loop'.ready) \subseteq ToSet(loop.ready)
        /\ loop'.asked = loop.asked
    <3>1. loop' = [loop EXCEPT !.ready = <<>>, !.at = IF b THEN "settle" ELSE "gate",
                               !.queue = IF b THEN <<>> ELSE @, !.suspended = @ \/ b]
      BY <2>2
    <3> HIDE DEF b
    <3>2. /\ loop'.queue = (IF b THEN <<>> ELSE loop.queue)
          /\ loop'.ready = <<>> /\ loop'.asked = loop.asked
      BY <1>t, <3>1 DEF LoopStates
    <3>3. QED
      BY <1>q, <3>2
  <2>7. out' \subseteq out \cup cs \cup rest
    <3> HIDE DEF cs, rest
    <3>1. QED
      BY <2>2 DEF Answered
  <2>8. /\ \A x \in Call : x \notin cs /\ x \notin rest => calls'[x] = calls[x]
        /\ \A x \in Call : calls'[x].status = "Suspended" => s[x].status = "Suspended"
    <3>1. CASE stops(o)
      <4>1. calls' = Backfilled(s, rest)
        BY <2>2, <3>1
      <4> HIDE DEF s, cs, rest
      <4>2. QED
        BY <2>1, <2>3, <4>1, BackfilledFacts
    <3>2. CASE ~stops(o)
      <4>1. calls' = s
        BY <2>2, <3>2
      <4> HIDE DEF s, cs, rest
      <4>2. QED
        BY <2>3, <4>1
    <3>3. QED
      BY <3>1, <3>2
  <2> HIDE DEF s, cs, rest, stops
  <2>9. ASSUME NEW x \in Call, calls'[x].status = "Suspended"
        PROVE  hist'.asks[x] >= 1
    <3>1. hist.asks[x] \in Nat /\ hist'.asks[x] \in Nat /\ hist'.asks[x] >= hist.asks[x]
      BY <1>t, <2>4, <2>5, LoopAssumption DEF Hists
    <3>2. calls[x].status = "Suspended" \/ (x \in cs /\ o[x] = "Suspended")
      <4> HIDE DEF BatchInv, Within
      <4>1. s[x].status = "Suspended"
        BY <2>8, <2>9
      <4>2. QED
        BY <2>3, <4>1
    <3>3. QED
      BY <2>5, <3>1, <3>2
  <2>10. UNCHANGED <<batch, log>>
    BY <1>28 DEF ExecutesAll
  <2>11. QED
    BY <1>t, <1>u, <2>1, <2>6, <2>7, <2>8, <2>9, <2>10
<1>29. CASE \E r \in {"cancelled", "blocked", "stopped"} : SettleEnds(r)
  BY <1>29, <1>t, <1>u DEF SettleEnds, LoopStates
<1>30. CASE \E r \in {"suspended", "cancelled"} : WaitEnds(r)
  BY <1>30, <1>t, <1>u DEF WaitEnds, LoopStates
<1>31. CASE WaitResumes
  <2> DEFINE p == Prepared(calls, channel)
  <2>1. DecidedBy(calls, channel, Len(channel), p) /\ channel \in Seq(Decision)
    BY <1>t, PreparedFacts DEF TypeInv
  <2>2. \A i \in 1..Len(channel) : calls[channel[i].call].status # "New"
    BY <1>31, <2>1, SetOfSeq DEF WaitResumes, Known
  <2>3. QED
    <3>1. /\ calls' = MarksTaken(p)
          /\ log' = [log EXCEPT !.answered = @ \cup Marked(p)]
          /\ loop' = [loop EXCEPT !.at = "replay", !.replay = Resuming(p)]
          /\ UNCHANGED <<batch, out, hist>>
      BY <1>31 DEF WaitResumes, TakesDecisions
    <3> HIDE DEF p
    <3>2. /\ \A c \in Call : c > batch => calls'[c] = Absent[c]
          /\ \A c \in Call : c \in Marked(p) => c <= batch
          /\ \A c \in Call : calls'[c].status = "Suspended" => calls[c].status = "Suspended"
      BY <2>1, <2>2, <3>1, DecidedKnown
    <3>3. QED
      BY <1>t, <1>u, <3>1, <3>2 DEF LoopStates
<1>32. CASE \E o \in {"Succeeded", "Failed", "Suspended"} : ReplayGated(o)
  <2> DEFINE c == First(loop.replay)
  <2>1. PICK o \in {"Succeeded", "Failed", "Suspended"} : ReplayGated(o)
    BY <1>32
  <2>2. c \in Call /\ calls[c].status = "Resuming"
    BY <1>t, <2>1, FirstIsOne DEF ReplayGated, WaitInv, Resuming
  <2>3. c <= batch
    <3>1. c \in Nat /\ batch \in Nat /\ calls[c] # Absent[c]
      BY <1>u, <2>2
    <3>2. ~(c > batch)
      BY <2>2, <3>1
    <3>3. QED
      BY <3>1, <3>2
  <2>4. /\ \A x \in Call : x # c => calls'[x] = calls[x]
        /\ calls'[c].status = "Suspended" => o = "Suspended"
    <3>1. calls' = Completed(calls, c, o)
      BY <2>1 DEF ReplayGated
    <3> HIDE DEF c
    <3>2. /\ Completed(calls, c, o) \in CallStates
          /\ \A x \in Call : x # c => Completed(calls, c, o)[x] = calls[x]
          /\ Completed(calls, c, o)[c].status # "Resuming"
          /\ Completed(calls, c, o)[c].status = "Suspended" =>
                o = "Suspended" \/ calls[c].status = "Suspended"
      BY <1>t, <2>2, CompletedFacts
    <3>3. QED
      BY <2>2, <3>1, <3>2
  <2>5. /\ hist' = IF o = "Suspended" THEN [hist EXCEPT !.asks[c] = @ + 1] ELSE hist
        /\ o = "Suspended" => hist.asks[c] < MaxAsks
        /\ log' = [log EXCEPT !.answered = @ \cup {c}]
    BY <2>1 DEF ReplayGated, Asked, MayEnd
  <2>6. loop'.queue = loop.queue /\ loop'.ready = loop.ready /\ loop'.asked = loop.asked
    BY <1>t, <2>1 DEF ReplayGated, ReplayStep, LoopStates
  <2> HIDE DEF c
  <2>7. /\ \A x \in Call : x # c => hist'.asks[x] = hist.asks[x]
        /\ o = "Suspended" => hist'.asks[c] >= 1
    <3>1. o = "Suspended" => hist'.asks[c] >= 1
      BY <1>t, <2>2, <2>5, NotedFacts
    <3>2. QED
      BY <1>t, <2>5, <3>1 DEF Hists
  <2>8. UNCHANGED <<batch, out>>
    BY <2>1 DEF ReplayGated
  <2>9. QED
    BY <1>t, <1>u, <2>2, <2>3, <2>4, <2>5, <2>6, <2>7, <2>8
<1>33. CASE \E o \in {"Succeeded", "Failed", "Suspended"} : ReplayRuns(o)
  <2> DEFINE c == First(loop.replay)
  <2>1. PICK o \in {"Succeeded", "Failed", "Suspended"} : ReplayRuns(o)
    BY <1>33
  <2>2. c \in Call /\ calls[c].status = "Resuming"
    BY <1>t, <2>1, FirstIsOne DEF ReplayRuns, WaitInv, Resuming
  <2>3. c <= batch
    <3>1. c \in Nat /\ batch \in Nat /\ calls[c] # Absent[c]
      BY <1>u, <2>2
    <3>2. ~(c > batch)
      BY <2>2, <3>1
    <3>3. QED
      BY <3>1, <3>2
  <2>4. /\ \A x \in Call : x # c => calls'[x] = calls[x]
        /\ calls'[c].status = "Suspended" => o = "Suspended"
    <3>1. calls' = Completed(calls, c, o)
      BY <2>1 DEF ReplayRuns
    <3> HIDE DEF c
    <3>2. /\ Completed(calls, c, o) \in CallStates
          /\ \A x \in Call : x # c => Completed(calls, c, o)[x] = calls[x]
          /\ Completed(calls, c, o)[c].status # "Resuming"
          /\ Completed(calls, c, o)[c].status = "Suspended" =>
                o = "Suspended" \/ calls[c].status = "Suspended"
      BY <1>t, <2>2, CompletedFacts
    <3>3. QED
      BY <2>2, <3>1, <3>2
  <2>5. log' = [log EXCEPT !.answered = @ \cup {c}]
    BY <2>1 DEF ReplayRuns
  <2>6. loop'.queue = loop.queue /\ loop'.ready = loop.ready /\ loop'.asked = loop.asked
    BY <1>t, <2>1 DEF ReplayRuns, ReplayStep, LoopStates
  <2>7. /\ \A x \in Call : hist'.asks[x] >= hist.asks[x]
        /\ o = "Suspended" => hist'.asks[c] >= 1
    <3> DEFINE p == [x \in {c} |-> o]
    <3>1. /\ DOMAIN p \subseteq Call /\ c \in DOMAIN p /\ p[c] = o
          /\ \A x \in DOMAIN p : p[x] = "Suspended" => hist.asks[x] < MaxAsks
      BY <2>1, <2>2 DEF ReplayRuns, MayEnd
    <3>2. hist' = Ran(hist, p)
      BY <2>1 DEF ReplayRuns
    <3> HIDE DEF p, c
    <3>3. QED
      BY <1>t, <3>1, <3>2, RanFacts
  <2>8. UNCHANGED <<batch, out>>
    BY <2>1 DEF ReplayRuns
  <2> HIDE DEF c
  <2>9. ASSUME NEW x \in Call, calls'[x].status = "Suspended"
        PROVE  hist'.asks[x] >= 1
    <3>1. hist.asks[x] \in Nat /\ hist'.asks[x] \in Nat /\ hist'.asks[x] >= hist.asks[x]
      BY <1>t, <2>7, LoopAssumption DEF Hists, TypeInv
    <3>2. calls[x].status = "Suspended" \/ (x = c /\ o = "Suspended")
      BY <2>4, <2>9
    <3>3. QED
      BY <2>7, <3>1, <3>2
  <2>10. QED
    BY <1>t, <1>u, <2>2, <2>3, <2>4, <2>5, <2>6, <2>8, <2>9
<1>34. CASE Background
  BY <1>34 DEF Background, TaskEnds, TaskReports
<1>35. CASE \E c \in Call, a \in {"resume", "cancel"} : Decide(c, a)
  <2>1. PICK c \in Call, a \in {"resume", "cancel"} : Decide(c, a)
    BY <1>35
  <2> DEFINE d == [call |-> c, action |-> a, ask |-> hist.asks[c]]
  <2>2. d \in Decision
    <3>1. hist.asks[c] \in 0..MaxAsks /\ hist.asks[c] >= 1 /\ MaxAsks \in Nat
      BY <1>t, <2>1, LoopAssumption DEF Decide, Hists
    <3>2. hist.asks[c] \in 1..MaxAsks
      BY <3>1
    <3>3. QED
      BY <3>2 DEF Decision
  <2>3. hist' = Approved([hist EXCEPT !.sent = @ \cup {d}], d)
    BY <2>1 DEF Decide
  <2> HIDE DEF d
  <2>4. hist'.asks = hist.asks
    <3>1. /\ [hist EXCEPT !.sent = @ \cup {d}] \in Hists
          /\ [hist EXCEPT !.sent = @ \cup {d}].asks = hist.asks
      BY <1>t, <2>2, RecordedFacts
    <3>2. QED
      BY <2>2, <2>3, <3>1, ApprovedFacts
  <2>5. QED
    BY <2>1, <2>4 DEF Decide
<1>36. CASE \E d \in Decision : DecideAgain(d)
  <2>1. PICK d \in Decision : DecideAgain(d)
    BY <1>36
  <2>2. hist' = Repeated([hist EXCEPT !.troubles = @ + 1], d)
    BY <2>1 DEF DecideAgain
  <2>3. hist'.asks = hist.asks
    <3>1. /\ [hist EXCEPT !.troubles = @ + 1] \in Hists
          /\ [hist EXCEPT !.troubles = @ + 1].asks = hist.asks
      BY <1>t, RecordedFacts
    <3>2. d \in Decision \cup {Nothing}
      OBVIOUS
    <3>3. QED
      BY <2>2, <3>1, <3>2, RepeatedFacts
  <2>4. QED
    BY <2>1, <2>3 DEF DecideAgain
<1>37. CASE Reenter
  <2> DEFINE d == Head(work)
             ds == IF d = Nothing THEN <<>> ELSE <<d>>
             p == Prepared(calls, ds)
  <2>1. d \in Decision \cup {Nothing}
    BY <1>37, HeadTail DEF Reenter, TypeInv
  <2>2. ds \in Seq(Decision)
    <3> HIDE DEF d
    <3>1. d # Nothing => <<d>> \in Seq(Decision)
      BY <2>1
    <3>2. QED
      BY <3>1
  <2>3. CASE Known(calls, ds)
    <3>1. /\ calls' = MarksTaken(p)
          /\ log' = [log EXCEPT !.answered = @ \cup Marked(p)]
          /\ loop' = [loop EXCEPT !.at = "replay", !.first = TRUE, !.replay = Resuming(p)]
          /\ UNCHANGED <<batch, out, hist>>
      BY <1>37, <2>3, ReenterFacts DEF Reenter
    <3> HIDE DEF ds
    <3>2. DecidedBy(calls, ds, Len(ds), p)
      BY <1>t, <2>2, PreparedFacts
    <3>3. \A i \in 1..Len(ds) : calls[ds[i].call].status # "New"
      BY <2>2, <2>3, SetOfSeq DEF Known
    <3> HIDE DEF p
    <3>4. /\ \A c \in Call : c > batch => calls'[c] = Absent[c]
          /\ \A c \in Call : c \in Marked(p) => c <= batch
          /\ \A c \in Call : calls'[c].status = "Suspended" => calls[c].status = "Suspended"
      BY <2>2, <3>1, <3>2, <3>3, DecidedKnown
    <3>5. QED
      BY <1>t, <1>u, <3>1, <3>4 DEF LoopStates
  <2>4. CASE ~Known(calls, ds)
    <3>1. /\ loop' = [loop EXCEPT !.at = "failed"]
          /\ UNCHANGED <<calls, log, batch, out, hist>>
      BY <1>37, <2>4, ReenterFacts DEF Reenter
    <3>2. QED
      BY <1>t, <3>1 DEF LoopStates
  <2>5. QED
    BY <2>3, <2>4
<1>90. QED
  BY <1>1, <1>2, <1>3, <1>4, <1>5, <1>6, <1>7, <1>8, <1>9, <1>10, <1>11, <1>12,
     <1>13, <1>14, <1>15, <1>16, <1>17, <1>21, <1>22, <1>23, <1>24, <1>25, <1>26, <1>27,
     <1>28, <1>29, <1>30, <1>31, <1>32, <1>33, <1>34, <1>35, <1>36, <1>37
     DEF Next, Loop, Pipeline, Clients, Stops

(***************************************************************************)
(* Counting approvals                                                      *)
(***************************************************************************)

\* d lets call c run once more.
Approves(d, c) == d.call = c /\ d.action = "resume"

\* The approvals of a sequence can be counted; the empty one has none.
LEMMA ApprovalsCount ==
  ASSUME NEW S, NEW s \in Seq(S), NEW c
  PROVE  /\ IsFiniteSet(Approvals(s, c))
         /\ Cardinality(Approvals(s, c)) \in Nat
         /\ Approvals(s, c) # {} => Cardinality(Approvals(s, c)) >= 1
         /\ Cardinality(Approvals(<<>>, c)) = 0
<1>1. IsFiniteSet(1..Len(s))
  BY FS_Interval
<1>2. Approvals(s, c) \in SUBSET (1..Len(s))
  BY DEF Approvals
<1>3. IsFiniteSet(Approvals(s, c))
  BY <1>1, <1>2, FS_Subset
<1>4. Cardinality(Approvals(s, c)) \in Nat
  BY <1>3, FS_CardinalityType
<1>5. Approvals(s, c) # {} => Cardinality(Approvals(s, c)) # 0
  BY <1>3, FS_EmptySet
<1>6. Approvals(<<>>, c) = {}
  BY DEF Approvals
<1>7. Cardinality(Approvals(<<>>, c)) = 0
  BY <1>6, FS_EmptySet
<1>8. QED
  BY <1>3, <1>4, <1>5, <1>7

\* One more decision counts once if it approves.
LEMMA ApprovalsAppend ==
  ASSUME NEW S, NEW s \in Seq(S), NEW d \in S, NEW c
  PROVE  Cardinality(Approvals(Append(s, d), c)) =
            Cardinality(Approvals(s, c)) + One(Approves(d, c))
<1> DEFINE a == Append(s, d)
           n == Len(s) + 1
<1>1. /\ a \in Seq(S) /\ Len(a) = n /\ Len(s) \in Nat
      /\ \A i \in 1..Len(s) : a[i] = s[i]
      /\ a[n] = d
      /\ 1..n = (1..Len(s)) \cup {n} /\ n \notin 1..Len(s)
  OBVIOUS
<1> HIDE DEF a, n
<1>2. IsFiniteSet(Approvals(s, c)) /\ Cardinality(Approvals(s, c)) \in Nat
  BY ApprovalsCount
<1>3. n \notin Approvals(s, c)
  BY <1>1 DEF Approvals
<1>4. CASE Approves(d, c)
  <2>1. Approvals(a, c) = Approvals(s, c) \cup {n}
    BY <1>1, <1>4 DEF Approvals, Approves
  <2>2. Cardinality(Approvals(a, c)) = Cardinality(Approvals(s, c)) + 1
    BY <1>2, <1>3, <2>1, FS_AddElement
  <2>3. QED
    BY <1>4, <2>2 DEF One, a
<1>5. CASE ~Approves(d, c)
  <2>1. Approvals(a, c) = Approvals(s, c)
    BY <1>1, <1>5 DEF Approvals, Approves
  <2>2. QED
    BY <1>2, <1>5, <2>1 DEF One, a
<1>6. QED
  BY <1>4, <1>5

\* Taking the first decision takes its approval.
LEMMA ApprovalsTail ==
  ASSUME NEW S, NEW s \in Seq(S), s # <<>>, NEW c
  PROVE  Cardinality(Approvals(s, c)) >=
            Cardinality(Approvals(Tail(s), c)) + One(Approves(Head(s), c))
<1> DEFINE t == Tail(s)
           A == Approvals(s, c)
           B == Approvals(t, c)
           f == [i \in B |-> i + 1]
<1>1. /\ t \in Seq(S) /\ Len(t) = Len(s) - 1 /\ Len(s) \in Nat \ {0} /\ Head(s) = s[1]
      /\ \A i \in 1..Len(t) : t[i] = s[i + 1]
  OBVIOUS
<1> HIDE DEF t
<1>2. /\ IsFiniteSet(A) /\ Cardinality(A) \in Nat
      /\ IsFiniteSet(B) /\ Cardinality(B) \in Nat
  BY <1>1, ApprovalsCount
<1>3. B \subseteq 1..Len(t)
  BY DEF Approvals
<1>4. \A i \in B : i + 1 \in A \ {1}
  BY <1>1 DEF Approvals
<1>5. f \in Injection(B, A \ {1})
  <2>1. \A i, j \in B : i + 1 = j + 1 => i = j
    BY <1>3
  <2> HIDE DEF A, B
  <2>2. f \in [B -> A \ {1}]
    BY <1>4
  <2>3. QED
    BY <2>1, <2>2 DEF Injection, IsInjective
<1>6. IsFiniteSet(A \ {1}) /\ Cardinality(A \ {1}) = IF 1 \in A THEN Cardinality(A) - 1 ELSE Cardinality(A)
  <2> HIDE DEF A, B, f
  <2> QED
    BY <1>2, FS_RemoveElement
<1>7. Cardinality(B) <= Cardinality(A \ {1})
  <2> DEFINE C == A \ {1}
  <2>1. f \in Injection(B, C) /\ IsFiniteSet(C)
    BY <1>5, <1>6
  <2> HIDE DEF A, B, C, f
  <2>2. Cardinality(B) <= Cardinality(C)
    BY <2>1, FS_Injection
  <2>3. QED
    BY <2>2 DEF C
<1>8. Approves(Head(s), c) => 1 \in A
  BY <1>1 DEF Approvals, Approves
<1>9. CASE Approves(Head(s), c)
  <2> HIDE DEF A, B
  <2>1. Cardinality(A) >= Cardinality(B) + 1
    BY <1>2, <1>6, <1>7, <1>8, <1>9
  <2>2. QED
    BY <1>9, <2>1 DEF One, A, B, t
<1>10. CASE ~Approves(Head(s), c)
  <2> HIDE DEF A, B
  <2>1. Cardinality(A) >= Cardinality(B) + 0
    BY <1>2, <1>6, <1>7
  <2>2. QED
    BY <1>10, <2>1 DEF One, A, B, t
<1>11. QED
  BY <1>9, <1>10

(***************************************************************************)
(* The pipeline and the tool-call states                                   *)
(***************************************************************************)

\* The pipeline resumes no call, and a call it suspends is noted by the loop.
LEMMA PipelineCalls ==
  ASSUME TypeInv, PipeInv, Pipeline, TypeInv'
  PROVE  /\ \A x \in Call : calls'[x].status = "Resuming" => calls[x].status = "Resuming"
         /\ \A x \in Call : calls'[x].status = "Suspended" =>
               calls[x].status = "Suspended" \/ loop'.suspended
         /\ loop.suspended => loop'.suspended
         /\ loop'.replay = loop.replay
<1>t. /\ loop \in LoopStates /\ calls \in CallStates
      /\ loop.queue \in Seq(Call) /\ loop.ready \in Seq(Call)
  BY DEF TypeInv, LoopStates
<1>q. /\ loop.queue # <<>> => Head(loop.queue) \in Call /\ Tail(loop.queue) \in Seq(Call)
      /\ loop.ready # <<>> => Head(loop.ready) \in Call /\ Tail(loop.ready) \in Seq(Call)
  BY <1>t, HeadTail
<1>1. CASE GateAllows
  BY <1>1, <1>t DEF GateAllows, LoopStates
<1>2. CASE GateFlushes
  BY <1>2, <1>t DEF GateFlushes, LoopStates
<1>3. CASE GateBlocks
  <2> DEFINE c == Head(loop.queue)
             s == Completed(calls, c, "Failed")
             rest == ToSet(Tail(loop.queue))
  <2>1. c \in Call /\ Tail(loop.queue) \in Seq(Call)
    BY <1>3, <1>q DEF GateBlocks
  <2>2. rest \in SUBSET Call
    BY <2>1, SetOfSeq
  <2>3. /\ s \in CallStates
        /\ \A x \in Call : x # c => s[x] = calls[x]
        /\ s[c].status # "Resuming"
        /\ s[c].status = "Suspended" => calls[c].status = "Suspended"
    BY <1>t, <2>1, CompletedFacts
  <2>4. calls' = Backfilled(s, rest)
    BY <1>3 DEF GateBlocks
  <2> HIDE DEF s, c, rest
  <2>5. \A x \in Call : calls'[x].status \in {s[x].status, "Failed"}
    BY <2>2, <2>3, <2>4, BackfilledFacts
  <2>6. loop'.suspended = loop.suspended /\ loop'.replay = loop.replay
    BY <1>3, <1>t DEF GateBlocks, LoopStates
  <2>7. QED
    BY <2>3, <2>5, <2>6
<1>4. CASE GateSuspends
  <2> DEFINE c == Head(loop.queue)
  <2>1. c \in Call /\ "Suspended" \in Statuses
    BY <1>4, <1>q DEF GateSuspends, Statuses
  <2>2. calls' = Put(calls, c, "Suspended", Nothing)
    BY <1>4 DEF GateSuspends
  <2> HIDE DEF c
  <2>3. /\ \A x \in Call : x # c => calls'[x] = calls[x]
        /\ calls'[c].status \in {"Suspended", calls[c].status}
    BY <1>t, <2>1, <2>2, PutFacts
  <2>4. loop'.suspended /\ loop'.replay = loop.replay
    BY <1>4, <1>t DEF GateSuspends, LoopStates
  <2>5. QED
    BY <2>3, <2>4
<1>5. CASE GateAnswers
  <2> DEFINE c == Head(loop.queue)
             s == Completed(calls, c, "Succeeded")
  <2>1. c \in Call
    BY <1>5, <1>q DEF GateAnswers
  <2>2. /\ \A x \in Call : x # c => s[x] = calls[x]
        /\ s[c].status # "Resuming"
        /\ s[c].status = "Suspended" => calls[c].status = "Suspended"
    <3> HIDE DEF c
    <3>1. /\ s \in CallStates
          /\ \A x \in Call : x # c => s[x] = calls[x]
          /\ s[c].status # "Resuming"
          /\ s[c].status = "Suspended" =>
                "Succeeded" = "Suspended" \/ calls[c].status = "Suspended"
      BY <1>t, <2>1, CompletedFacts
    <3>2. QED
      BY <3>1
  <2>3. calls' = s
    BY <1>5 DEF GateAnswers
  <2>4. loop'.suspended = loop.suspended /\ loop'.replay = loop.replay
    BY <1>5, <1>t DEF GateAnswers, LoopStates
  <2> HIDE DEF s, c
  <2>5. QED
    BY <2>2, <2>3, <2>4
<1>6. CASE ExecutesOne
  <2> DEFINE c == Head(loop.ready)
             rest == ToSet(Tail(loop.ready)) \cup ToSet(loop.queue)
  <2>1. c \in Call /\ Tail(loop.ready) \in Seq(Call)
    BY <1>6, <1>q DEF ExecutesOne, PipeInv
  <2>2. rest \in SUBSET Call
    BY <1>t, <2>1, SetOfSeq
  <2>3. PICK o \in {"Succeeded", "Failed", "Suspended"} :
           IF o = "Suspended"
           THEN /\ calls' = Backfilled(Completed(calls, c, o), rest)
                /\ loop' = [loop EXCEPT !.at = "settle", !.queue = <<>>,
                                        !.ready = <<>>, !.suspended = TRUE]
           ELSE /\ calls' = Completed(calls, c, o)
                /\ loop' = [loop EXCEPT !.ready = Tail(@),
                              !.at = IF Len(loop.ready) = 1 THEN "gate" ELSE "exec"]
    BY <1>6 DEF ExecutesOne
  <2> DEFINE s == Completed(calls, c, o)
  <2>4. /\ s \in CallStates
        /\ \A x \in Call : x # c => s[x] = calls[x]
        /\ s[c].status # "Resuming"
        /\ s[c].status = "Suspended" => o = "Suspended" \/ calls[c].status = "Suspended"
    <3> HIDE DEF c
    <3> QED
      BY <1>t, <2>1, CompletedFacts
  <2>5. CASE o = "Suspended"
    <3>1. calls' = Backfilled(s, rest)
      BY <2>3, <2>5
    <3>2. loop'.suspended /\ loop'.replay = loop.replay
      BY <1>t, <2>3, <2>5 DEF LoopStates
    <3> HIDE DEF s, c, rest
    <3>3. \A x \in Call : calls'[x].status \in {s[x].status, "Failed"}
      BY <2>2, <2>4, <3>1, BackfilledFacts
    <3>4. QED
      BY <2>4, <3>2, <3>3
  <2>6. CASE o # "Suspended"
    <3>1. calls' = s
      BY <2>3, <2>6
    <3>2. loop'.suspended = loop.suspended /\ loop'.replay = loop.replay
      BY <1>t, <2>3, <2>6 DEF LoopStates
    <3> HIDE DEF s, c
    <3>3. QED
      BY <2>4, <2>6, <3>1, <3>2
  <2>7. QED
    BY <2>5, <2>6
<1>7. CASE ExecutesAll
  <2> DEFINE cs == ToSet(loop.ready)
             rest == ToSet(loop.queue)
             stops(o) == \E c \in cs : o[c] = "Suspended"
  <2>1. cs \in SUBSET Call /\ rest \in SUBSET Call
    BY <1>t, SetOfSeq
  <2>2. PICK o \in [cs -> {"Succeeded", "Failed", "Suspended"}] :
           /\ calls' = IF stops(o) THEN Backfilled(Done(calls, cs, o), rest) ELSE Done(calls, cs, o)
           /\ loop' = [loop EXCEPT !.ready = <<>>,
                         !.at = IF stops(o) THEN "settle" ELSE "gate",
                         !.queue = IF stops(o) THEN <<>> ELSE @,
                         !.suspended = @ \/ stops(o)]
    BY <1>7 DEF ExecutesAll, Done
  <2> DEFINE s == Done(calls, cs, o)
             b == stops(o)
  <2>3. /\ s \in CallStates
        /\ \A x \in Call : x \notin cs => s[x] = calls[x]
        /\ \A x \in cs : s[x].status # "Resuming"
        /\ \A x \in cs : s[x].status = "Suspended" => o[x] = "Suspended" \/ calls[x].status = "Suspended"
    BY <1>t, <2>1, DoneFacts
  <2>4. /\ loop' = [loop EXCEPT !.ready = <<>>, !.at = IF b THEN "settle" ELSE "gate",
                               !.queue = IF b THEN <<>> ELSE @, !.suspended = @ \/ b]
        /\ calls' = IF b THEN Backfilled(s, rest) ELSE s
        /\ \A x \in cs : o[x] = "Suspended" => b
    BY <2>2
  <2> HIDE DEF s, b, cs, rest, stops
  <2>5. /\ loop'.suspended <=> (loop.suspended \/ b)
        /\ loop'.replay = loop.replay
    BY <1>t, <2>4 DEF LoopStates
  <2>6. \A x \in Call : calls'[x].status \in {s[x].status, "Failed"}
    <3>1. CASE b
      BY <2>1, <2>3, <2>4, <3>1, BackfilledFacts
    <3>2. CASE ~b
      BY <2>4, <3>2
    <3>3. QED
      BY <3>1, <3>2
  <2>7. \A x \in Call : /\ s[x].status = "Resuming" => calls[x].status = "Resuming"
                        /\ s[x].status = "Suspended" => calls[x].status = "Suspended" \/ b
    BY <2>3, <2>4
  <2>8. QED
    BY <2>5, <2>6, <2>7
<1>8. CASE \/ \E r \in {"cancelled", "blocked", "stopped"} : SettleEnds(r)
           \/ SettleSuspends \/ SettleContinues
  BY <1>8, <1>t DEF SettleEnds, SettleSuspends, SettleContinues, Breaks, LoopStates
<1>9. QED
  BY <1>1, <1>2, <1>3, <1>4, <1>5, <1>6, <1>7, <1>8 DEF Pipeline

\* Decisions are replayed in the wait or at the start of an execution only, and
\* no call waits for one when the model is called again.
LEMMA WaitStep ==
  ASSUME TypeInv, PipeInv, WaitInv, SavedInv, Next, TypeInv'
  PROVE  WaitInv'
<1> USE DEF WaitInv, Breaks
<1>t. /\ loop \in LoopStates /\ calls \in CallStates /\ calls' \in CallStates
      /\ loop' \in LoopStates
  BY DEF TypeInv
<1>a. /\ Resuming(Absent) = {} /\ SuspendedCalls(Absent) = {}
  BY DEF Resuming, SuspendedCalls, Absent
<1>1. CASE StepCancelled
  BY <1>1, <1>t, <1>a DEF StepCancelled, LoopStates
<1>2. CASE Infer
  BY <1>2, <1>t, <1>a DEF Infer, LoopStates
<1>3. CASE AnswersText
  BY <1>3, <1>t, <1>a DEF AnswersText, LoopStates
<1>4. CASE AnswersTools
  BY <1>4, <1>t, <1>a DEF AnswersTools, LoopStates
<1>5. CASE NaturalContinues
  BY <1>5, <1>t, <1>a DEF NaturalContinues, LoopStates
<1>6. CASE NaturalParks
  BY <1>6, <1>t, <1>a DEF NaturalParks, LoopStates
<1>7. CASE NaturalEnds
  BY <1>7, <1>t, <1>a DEF NaturalEnds, LoopStates
<1>8. CASE ParkedReceives
  BY <1>8, <1>t, <1>a DEF ParkedReceives, LoopStates
<1>9. CASE ParkedCancelled
  BY <1>9, <1>t, <1>a DEF ParkedCancelled, LoopStates
<1>10. CASE Stops
  <2>1. (\E place \in {"ended", "failed"} : loop' = At(place)) /\ calls' = saved.calls
    BY <1>10, StopFacts DEF TypeInv
  <2>2. loop'.at \in {"ended", "failed"} /\ loop'.replay = {}
    BY <2>1, StopPlace
  <2>3. QED
    BY <2>1, <2>2 DEF SavedInv
<1>11. CASE WaitReceives
  BY <1>11, <1>t, <1>a DEF WaitReceives, LoopStates
<1>12. CASE Ends
  <2>1. loop' = At("ended") /\ calls' = calls /\ loop.at = "ending"
    BY <1>12 DEF Ends, Returns
  <2>2. loop'.at = "ended" /\ loop'.replay = {}
    BY <2>1, AtFacts DEF Places
  <2>3. QED
    BY <2>1, <2>2
<1>14. CASE StartEnds
  BY <1>14, <1>t, <1>a DEF StartEnds, LoopStates
<1>13. CASE Cancel
  BY <1>13, <1>t, <1>a DEF Cancel, LoopStates
<1>20. CASE \E r \in {"cancelled", "stopped"} : Abandoned(r)
  BY <1>20, <1>t, <1>a DEF Abandoned, LoopStates
<1>21. CASE Pipeline
  <2>1. loop.at \in {"gate", "exec", "settle"}
    BY <1>21 DEF Pipeline, GateAllows, GateFlushes, GateBlocks, GateSuspends, GateAnswers,
                 ExecutesOne, ExecutesAll, SettleEnds, SettleSuspends, SettleContinues
  <2>2. Resuming(calls) = {} /\ loop.replay = {}
    BY <2>1
  <2>3. Resuming(calls') = {} /\ loop'.replay = {}
    BY <1>21, <2>2, PipelineCalls DEF Resuming
  <2>4. ~loop'.suspended => SuspendedCalls(calls') = {}
    <3>1. ~loop'.suspended => ~loop.suspended
      BY <1>21, PipelineCalls
    <3>2. ~loop.suspended => \A x \in Call : calls[x].status # "Suspended"
      BY <2>1 DEF SuspendedCalls
    <3>3. \A x \in Call : calls'[x].status = "Suspended" =>
               calls[x].status = "Suspended" \/ loop'.suspended
      BY <1>21, PipelineCalls
    <3>4. QED
      BY <3>1, <3>2, <3>3 DEF SuspendedCalls
  <2>5. /\ loop'.at \in {"gate", "exec", "settle", "ending", "waiting", "top"}
        /\ loop'.at = "top" => ~loop'.suspended
    <3>1. CASE GateAllows \/ GateFlushes \/ GateBlocks \/ GateSuspends \/ GateAnswers
      BY <1>t, <2>1, <3>1 DEF GateAllows, GateFlushes, GateBlocks, GateSuspends,
                              GateAnswers, LoopStates
    <3>2. CASE ExecutesOne
      BY <1>t, <3>2 DEF ExecutesOne, LoopStates
    <3>3. CASE ExecutesAll
      BY <1>t, <3>3 DEF ExecutesAll, LoopStates
    <3>4. CASE \/ \E r \in {"cancelled", "blocked", "stopped"} : SettleEnds(r)
               \/ SettleSuspends \/ SettleContinues
      BY <1>t, <3>4 DEF SettleEnds, SettleSuspends, SettleContinues, LoopStates
    <3>5. QED
      BY <1>21, <3>1, <3>2, <3>3, <3>4 DEF Pipeline
  <2>6. QED
    BY <2>3, <2>4, <2>5
<1>22. CASE \E r \in {"suspended", "cancelled"} : WaitEnds(r)
  BY <1>22, <1>t, <1>a DEF WaitEnds, LoopStates
<1>23. CASE WaitResumes
  <2> DEFINE p == Prepared(calls, channel)
  <2>1. p \in CallStates
    <3>1. DecidedBy(calls, channel, Len(channel), p)
      BY PreparedFacts DEF TypeInv
    <3>2. QED
      BY <3>1 DEF DecidedBy
  <2>2. calls' = MarksTaken(p) /\ loop' = [loop EXCEPT !.at = "replay", !.replay = Resuming(p)]
    BY <1>23 DEF WaitResumes, TakesDecisions
  <2> HIDE DEF p
  <2>3. Resuming(calls') = Resuming(p)
    BY <2>1, <2>2, MarksTakenFacts DEF Resuming
  <2>4. loop'.at = "replay" /\ loop'.replay = Resuming(p)
    BY <1>t, <2>2 DEF LoopStates
  <2>5. QED
    BY <2>3, <2>4
<1>24. ASSUME NEW o \in {"Succeeded", "Failed", "Suspended"}, ReplayGated(o) \/ ReplayRuns(o)
       PROVE  WaitInv'
  <2> DEFINE c == First(loop.replay)
  <2>1. /\ loop.at = "replay" /\ loop.replay # {}
        /\ calls' = Completed(calls, c, o)
        /\ loop' = [loop EXCEPT !.replay = @ \ {c}]
    BY <1>24 DEF ReplayGated, ReplayRuns, ReplayStep
  <2>2. c \in Call
    BY <1>t, <2>1, FirstIsOne DEF LoopStates
  <2> HIDE DEF c
  <2>3. /\ \A x \in Call : x # c => calls'[x] = calls[x]
        /\ calls'[c].status # "Resuming"
    <3>1. /\ Completed(calls, c, o) \in CallStates
          /\ \A x \in Call : x # c => Completed(calls, c, o)[x] = calls[x]
          /\ Completed(calls, c, o)[c].status # "Resuming"
          /\ Completed(calls, c, o)[c].status = "Suspended" =>
                o = "Suspended" \/ calls[c].status = "Suspended"
      BY <1>t, <2>2, CompletedFacts
    <3>2. QED
      BY <2>1, <3>1
  <2>4. Resuming(calls') = Resuming(calls) \ {c}
    BY <2>2, <2>3 DEF Resuming
  <2>5. loop'.at = "replay" /\ loop'.replay = loop.replay \ {c}
    BY <1>t, <2>1 DEF LoopStates
  <2>6. QED
    BY <2>4, <2>5
<1>25. CASE ReplayEnds
  <2>1. calls' = calls /\ loop.replay = {} /\ Resuming(calls) = {}
    BY <1>25 DEF ReplayEnds
  <2>2. /\ loop'.replay = {} /\ loop'.first = loop.first
        /\ loop'.at \in {"top", "waiting"}
        /\ loop'.at = "top" => ~HasSuspendedCalls
    BY <1>25, <1>t, <2>1 DEF ReplayEnds, LoopStates
  <2>3. QED
    BY <2>1, <2>2 DEF HasSuspendedCalls
<1>26. CASE Background
  BY <1>26 DEF Background, TaskEnds, TaskReports
<1>27. CASE \/ \E c \in Call, a \in {"resume", "cancel"} : Decide(c, a)
            \/ \E d \in Decision : DecideAgain(d)
  BY <1>27 DEF Decide, DecideAgain
<1>28. CASE Reenter
  <2> DEFINE d == Head(work)
             ds == IF d = Nothing THEN <<>> ELSE <<d>>
             p == Prepared(calls, ds)
  <2>1. d \in Decision \cup {Nothing}
    BY <1>28, HeadTail DEF Reenter, TypeInv
  <2>2. ds \in Seq(Decision)
    <3> HIDE DEF d
    <3>1. d # Nothing => <<d>> \in Seq(Decision)
      BY <2>1
    <3>2. QED
      BY <3>1
  <2>3. p \in CallStates
    <3> HIDE DEF ds
    <3>1. DecidedBy(calls, ds, Len(ds), p)
      BY <1>t, <2>2, PreparedFacts
    <3>2. QED
      BY <3>1 DEF DecidedBy
  <2>4. \/ /\ calls' = MarksTaken(p)
           /\ loop' = [loop EXCEPT !.at = "replay", !.first = TRUE, !.replay = Resuming(p)]
        \/ /\ loop' = [loop EXCEPT !.at = "failed"]
           /\ calls' = calls
    BY <1>28, ReenterFacts DEF Reenter
  <2>5. loop.at \in {"ended", "failed"}
    BY <1>28 DEF Reenter, Over
  <2> HIDE DEF p
  <2>6. CASE /\ calls' = MarksTaken(p)
             /\ loop' = [loop EXCEPT !.at = "replay", !.first = TRUE, !.replay = Resuming(p)]
    <3>1. Resuming(calls') = Resuming(p)
      BY <2>3, <2>6, MarksTakenFacts DEF Resuming
    <3>2. loop'.at = "replay" /\ loop'.replay = Resuming(p)
      BY <1>t, <2>6 DEF LoopStates
    <3>3. QED
      BY <3>1, <3>2
  <2>7. CASE loop' = [loop EXCEPT !.at = "failed"] /\ calls' = calls
    BY <1>t, <2>5, <2>7 DEF LoopStates
  <2>8. QED
    BY <2>4, <2>6, <2>7
<1>90. QED
  BY <1>1, <1>2, <1>3, <1>4, <1>5, <1>6, <1>7, <1>8, <1>9, <1>10, <1>11, <1>12, <1>13,
     <1>14, <1>20, <1>21, <1>22, <1>23, <1>24, <1>25, <1>26, <1>27, <1>28
     DEF Next, Loop, Clients, Stops

\* A call that is shown to the model stays with the loop until it is answered.
LEMMA PipeStep ==
  ASSUME TypeInv, PipeInv, SavedInv, Next
  PROVE  PipeInv'
<1> USE DEF PipeInv, Breaks, Shown
<1>t. /\ loop \in LoopStates /\ log \in [shown : SUBSET Call, answered : SUBSET Call]
      /\ loop.queue \in Seq(Call) /\ loop.ready \in Seq(Call)
  BY DEF TypeInv, LoopStates
<1>e. ToSet(<<>>) = {} /\ Distinct(<<>>)
  BY DEF ToSet, Distinct
<1>q. loop.queue # <<>> =>
         /\ Tail(loop.queue) \in Seq(Call) /\ Head(loop.queue) \in Call
         /\ ToSet(loop.queue) = {Head(loop.queue)} \cup ToSet(Tail(loop.queue))
         /\ Distinct(Tail(loop.queue)) /\ Head(loop.queue) \notin ToSet(Tail(loop.queue))
  BY <1>t, HeadTail
<1>r. loop.ready # <<>> =>
         /\ Tail(loop.ready) \in Seq(Call) /\ Head(loop.ready) \in Call
         /\ Len(Tail(loop.ready)) = Len(loop.ready) - 1
         /\ ToSet(loop.ready) = {Head(loop.ready)} \cup ToSet(Tail(loop.ready))
         /\ Distinct(Tail(loop.ready)) /\ Head(loop.ready) \notin ToSet(Tail(loop.ready))
  BY <1>t, HeadTail
<1>1. CASE StepCancelled
  BY <1>1, <1>t, <1>e DEF StepCancelled, LoopStates
<1>2. CASE Infer
  BY <1>2, <1>t, <1>e DEF Infer, LoopStates
<1>3. CASE AnswersText
  BY <1>3, <1>t, <1>e DEF AnswersText, LoopStates
<1>4. CASE SettleSuspends
  BY <1>4, <1>t, <1>e DEF SettleSuspends, LoopStates
<1>5. CASE SettleContinues
  BY <1>5, <1>t, <1>e DEF SettleContinues, LoopStates
<1>6. CASE NaturalContinues
  BY <1>6, <1>t, <1>e DEF NaturalContinues, LoopStates
<1>7. CASE NaturalParks
  BY <1>7, <1>t, <1>e DEF NaturalParks, LoopStates
<1>8. CASE NaturalEnds
  BY <1>8, <1>t, <1>e DEF NaturalEnds, LoopStates
<1>9. CASE ParkedReceives
  BY <1>9, <1>t, <1>e DEF ParkedReceives, LoopStates
<1>10. CASE ParkedCancelled
  BY <1>10, <1>t, <1>e DEF ParkedCancelled, LoopStates
<1>11. CASE Stops
  <2>1. (\E place \in {"ended", "failed"} : loop' = At(place)) /\ log' = saved.log
    BY <1>11, StopFacts DEF TypeInv
  <2>2. loop'.at \in {"ended", "failed"} /\ loop'.queue = <<>> /\ loop'.ready = <<>>
    BY <2>1, StopPlace
  <2>3. QED
    BY <1>e, <2>1, <2>2 DEF SavedInv
<1>12. CASE WaitReceives
  BY <1>12, <1>t, <1>e DEF WaitReceives, LoopStates
<1>13. CASE Ends
  <2>1. loop' = At("ended") /\ log' = log
    BY <1>13 DEF Ends, Returns
  <2>2. loop'.at \in {"ended", "failed"} /\ loop'.queue = <<>> /\ loop'.ready = <<>>
    BY <2>1, StopPlace
  <2>3. QED
    BY <1>e, <2>1, <2>2
<1>16. CASE StartEnds
  BY <1>16, <1>t, <1>e DEF StartEnds, LoopStates
<1>14. CASE Cancel
  BY <1>14, <1>t, <1>e DEF Cancel, LoopStates
<1>15. CASE GateFlushes
  BY <1>15, <1>t, <1>e DEF GateFlushes, LoopStates
<1>20. CASE \/ \E r \in {"cancelled", "stopped"} : Abandoned(r)
            \/ \E r \in {"cancelled", "blocked", "stopped"} : SettleEnds(r)
            \/ \E r \in {"suspended", "cancelled"} : WaitEnds(r)
  BY <1>20, <1>t, <1>e DEF Abandoned, SettleEnds, WaitEnds, LoopStates
<1>21. CASE AnswersTools
  <2>1. PICK w \in 1..(MaxCalls - batch) :
           loop' = [loop EXCEPT !.at = "gate", !.ready = <<>>, !.blocked = FALSE,
                                !.suspended = FALSE,
                                !.asked = (batch + 1)..(batch + w),
                                !.queue = [i \in 1..w |-> batch + i]]
    BY <1>21 DEF AnswersTools
  <2> DEFINE q == [i \in 1..w |-> batch + i]
             a == (batch + 1)..(batch + w)
  <2>2. batch \in Nat /\ w \in Nat
    BY <2>1, LoopAssumption DEF TypeInv
  <2>3. q \in Seq(Nat) /\ Len(q) = w /\ \A i \in 1..w : q[i] = batch + i
    BY <2>2
  <2>4. Distinct(q)
    <3> HIDE DEF q
    <3> QED
      BY <2>2, <2>3 DEF Distinct
  <2>5. a \subseteq ToSet(q)
    <3>1. ToSet(q) = {q[i] : i \in 1..w}
      <4> HIDE DEF q
      <4> QED
        BY <2>3, SetOfSeq
    <3>2. ASSUME NEW c \in a PROVE c \in ToSet(q)
      <4>1. c - batch \in 1..w /\ batch + (c - batch) = c
        BY <2>2
      <4> HIDE DEF q
      <4>2. QED
        BY <2>3, <3>1, <4>1
    <3>3. QED
      BY <3>2
  <2> HIDE DEF a, q
  <2>6. loop' = [loop EXCEPT !.at = "gate", !.ready = <<>>, !.blocked = FALSE,
                             !.suspended = FALSE, !.asked = a, !.queue = q]
    BY <2>1 DEF a, q
  <2>7. /\ loop'.at = "gate" /\ loop'.asked = a /\ loop'.queue = q /\ loop'.ready = <<>>
    BY <1>t, <2>6 DEF LoopStates
  <2>8. log' = log
    BY <1>21 DEF AnswersTools
  <2>9. QED
    BY <1>e, <2>4, <2>5, <2>7, <2>8
<1>22. CASE GateAllows
  <2> DEFINE c == Head(loop.queue)
  <2>1. loop.queue # <<>> /\ loop.at = "gate" /\ log' = log /\ out' = out
        /\ loop' = [loop EXCEPT !.queue = Tail(@), !.ready = Append(@, c)]
    BY <1>22 DEF GateAllows
  <2>2. c \in Call /\ c \notin ToSet(loop.ready) /\ c \in ToSet(loop.queue)
    BY <1>q, <2>1
  <2>3. /\ ToSet(Append(loop.ready, c)) = ToSet(loop.ready) \cup {c}
        /\ Distinct(Append(loop.ready, c))
    BY <1>t, <2>2, AppendFacts
  <2> HIDE DEF c
  <2>4. /\ loop'.queue = Tail(loop.queue) /\ loop'.ready = Append(loop.ready, c)
        /\ loop'.asked = loop.asked /\ loop'.at = "gate"
    BY <1>t, <2>1 DEF LoopStates
  <2>5. QED
    BY <1>q, <2>1, <2>2, <2>3, <2>4 DEF c
<1>23. CASE GateBlocks
  <2>1. /\ loop.ready = <<>> /\ loop.at = "gate" /\ log' = log
        /\ out' = out \cup ToSet(loop.queue)
        /\ loop' = [loop EXCEPT !.at = "settle", !.queue = <<>>, !.blocked = TRUE]
    BY <1>23 DEF GateBlocks
  <2>2. loop'.at = "settle" /\ loop'.queue = <<>> /\ loop'.ready = <<>> /\ loop'.asked = loop.asked
    BY <1>t, <2>1 DEF LoopStates
  <2>3. QED
    BY <1>e, <2>1, <2>2
<1>24. CASE GateSuspends \/ GateAnswers
  <2> DEFINE c == Head(loop.queue)
  <2>1. /\ loop.ready = <<>> /\ loop.queue # <<>> /\ loop.at = "gate" /\ log' = log
        /\ out' = out \cup {c}
    BY <1>24 DEF GateSuspends, GateAnswers
  <2>2. /\ loop'.queue = Tail(loop.queue) /\ loop'.ready = loop.ready
        /\ loop'.asked = loop.asked /\ loop'.at = "gate"
    BY <1>24, <1>t DEF GateSuspends, GateAnswers, LoopStates
  <2>3. QED
    BY <1>e, <1>q, <2>1, <2>2
<1>25. CASE ExecutesOne
  <2> DEFINE c == Head(loop.ready)
             rest == ToSet(Tail(loop.ready)) \cup ToSet(loop.queue)
  <2>1. loop.at = "exec" /\ loop.ready # <<>> /\ log' = log
    BY <1>25 DEF ExecutesOne
  <2>2. PICK o \in {"Succeeded", "Failed", "Suspended"} :
           IF o = "Suspended"
           THEN /\ out' = Answered({c}, rest)
                /\ loop' = [loop EXCEPT !.at = "settle", !.queue = <<>>,
                                        !.ready = <<>>, !.suspended = TRUE]
           ELSE /\ out' = out \cup {c}
                /\ loop' = [loop EXCEPT !.ready = Tail(@),
                              !.at = IF Len(loop.ready) = 1 THEN "gate" ELSE "exec"]
    BY <1>25 DEF ExecutesOne
  <2>3. ToSet(loop.ready) = {c} \cup ToSet(Tail(loop.ready))
    BY <1>r, <2>1
  <2>4. CASE o = "Suspended"
    <3>1. out' = out \cup {c} \cup rest
      BY <2>2, <2>4 DEF Answered
    <3> HIDE DEF c
    <3>2. loop'.at = "settle" /\ loop'.queue = <<>> /\ loop'.ready = <<>> /\ loop'.asked = loop.asked
      BY <1>t, <2>2, <2>4 DEF LoopStates
    <3>3. QED
      BY <1>e, <2>1, <2>3, <3>1, <3>2
  <2>5. CASE o # "Suspended"
    <3>1. /\ out' = out \cup {c}
          /\ loop' = [loop EXCEPT !.ready = Tail(@),
                        !.at = IF Len(loop.ready) = 1 THEN "gate" ELSE "exec"]
      BY <2>2, <2>5
    <3> HIDE DEF c
    <3>2. /\ loop'.queue = loop.queue /\ loop'.ready = Tail(loop.ready)
          /\ loop'.asked = loop.asked
          /\ loop'.at = IF Len(loop.ready) = 1 THEN "gate" ELSE "exec"
      BY <1>t, <3>1 DEF LoopStates
    <3>3. loop'.at \in {"gate", "exec"} /\ (loop'.at = "exec" => loop'.ready # <<>>)
      <4>1. Len(loop.ready) \in Nat \ {0} /\ Len(Tail(loop.ready)) = Len(loop.ready) - 1
        BY <1>t, <1>r, <2>1
      <4>2. Len(loop.ready) # 1 => Len(Tail(loop.ready)) # 0
        BY <4>1
      <4>3. Len(loop.ready) # 1 => Tail(loop.ready) # <<>>
        BY <4>2
      <4>4. QED
        BY <3>2, <4>3
    <3>4. QED
      BY <1>r, <2>1, <2>3, <3>1, <3>2, <3>3
  <2>6. QED
    BY <2>4, <2>5
<1>26. CASE ExecutesAll
  <2> DEFINE cs == ToSet(loop.ready)
             rest == ToSet(loop.queue)
             stops(o) == \E c \in cs : o[c] = "Suspended"
  <2>1. PICK o \in [cs -> {"Succeeded", "Failed", "Suspended"}] :
           /\ out' = Answered(cs, IF stops(o) THEN rest ELSE {})
           /\ loop' = [loop EXCEPT !.ready = <<>>,
                         !.at = IF stops(o) THEN "settle" ELSE "gate",
                         !.queue = IF stops(o) THEN <<>> ELSE @,
                         !.suspended = @ \/ stops(o)]
    BY <1>26 DEF ExecutesAll
  <2> DEFINE b == stops(o)
  <2>2. /\ loop' = [loop EXCEPT !.ready = <<>>, !.at = IF b THEN "settle" ELSE "gate",
                                !.queue = IF b THEN <<>> ELSE @, !.suspended = @ \/ b]
        /\ out' = out \cup cs \cup (IF b THEN rest ELSE {})
    BY <2>1 DEF Answered
  <2>3. loop.at = "exec" /\ log' = log
    BY <1>26 DEF ExecutesAll
  <2> HIDE DEF b
  <2>4. /\ loop'.queue = (IF b THEN <<>> ELSE loop.queue) /\ loop'.ready = <<>>
        /\ loop'.asked = loop.asked /\ loop'.at = IF b THEN "settle" ELSE "gate"
    BY <1>t, <2>2 DEF LoopStates
  <2>5. CASE b
    BY <1>e, <2>2, <2>3, <2>4, <2>5
  <2>6. CASE ~b
    BY <1>e, <2>2, <2>3, <2>4, <2>6
  <2>7. QED
    BY <2>5, <2>6
<1>27. CASE WaitResumes
  BY <1>27, <1>t DEF WaitResumes, TakesDecisions, LoopStates
<1>28. CASE \E o \in {"Succeeded", "Failed", "Suspended"} : ReplayGated(o) \/ ReplayRuns(o)
  BY <1>28, <1>t DEF ReplayGated, ReplayRuns, ReplayStep, LoopStates
<1>29. CASE ReplayEnds
  <2>1. /\ loop'.queue = loop.queue /\ loop'.ready = loop.ready /\ loop'.asked = loop.asked
        /\ loop'.at \in {"top", "waiting"} /\ loop.at = "replay" /\ log' = log
    BY <1>29, <1>t DEF ReplayEnds, LoopStates
  <2>2. QED
    BY <2>1
<1>30. CASE Background
  BY <1>30 DEF Background, TaskEnds, TaskReports
<1>31. CASE \/ \E c \in Call, a \in {"resume", "cancel"} : Decide(c, a)
            \/ \E d \in Decision : DecideAgain(d)
  BY <1>31 DEF Decide, DecideAgain
<1>32. CASE Reenter
  <2>1. /\ loop.at \in {"ended", "failed"}
        /\ log'.shown = log.shown /\ log.answered \subseteq log'.answered
        /\ \/ \E r : loop' = [loop EXCEPT !.at = "replay", !.first = TRUE, !.replay = r]
           \/ loop' = [loop EXCEPT !.at = "failed"]
    <3>1. \E d :
             \/ /\ log' = [log EXCEPT !.answered = @ \cup d]
                /\ \E r : loop' = [loop EXCEPT !.at = "replay", !.first = TRUE, !.replay = r]
             \/ loop' = [loop EXCEPT !.at = "failed"] /\ log' = log
      BY <1>32, ReenterFacts DEF Reenter
    <3>2. log'.shown = log.shown /\ log.answered \subseteq log'.answered
      BY <1>t, <3>1
    <3>3. loop.at \in {"ended", "failed"}
      BY <1>32 DEF Reenter, Over
    <3>4. QED
      BY <3>1, <3>2, <3>3
  <2>2. /\ loop'.queue = loop.queue /\ loop'.ready = loop.ready /\ loop'.asked = loop.asked
        /\ loop'.at \in {"replay", "failed"}
    BY <1>t, <2>1 DEF LoopStates
  <2>3. QED
    <3>1. UNCHANGED out
      BY <1>32 DEF Reenter
    <3>2. loop.ready = <<>> /\ loop.queue = <<>>
      BY <2>1
    <3>3. QED
      BY <1>e, <2>1, <2>2, <3>1, <3>2
<1>90. QED
  BY <1>1, <1>2, <1>3, <1>4, <1>5, <1>6, <1>7, <1>8, <1>9, <1>10, <1>11, <1>12, <1>13,
     <1>14, <1>15, <1>16, <1>20, <1>21, <1>22, <1>23, <1>24, <1>25, <1>26, <1>27, <1>28,
     <1>29, <1>30, <1>31, <1>32
     DEF Next, Loop, Pipeline, Clients, Stops

\* No task runs unnoticed past the step in which the run comes to its end.
LEMMA TaskStep ==
  ASSUME TypeInv, TaskInv, SavedInv, Next
  PROVE  TaskInv'
<1> USE DEF TaskInv, Breaks, StepEnd
<1>t. /\ loop \in LoopStates /\ tasks \in [Tasks -> TaskStates] /\ how \in Reasons
  BY DEF TypeInv
<1>1. CASE StepCancelled
  BY <1>1, <1>t DEF StepCancelled, LoopStates
<1>2. CASE Infer
  BY <1>2, <1>t DEF Infer, LoopStates
<1>3. CASE AnswersText
  BY <1>3, <1>t DEF AnswersText, LoopStates
<1>4. CASE AnswersTools
  BY <1>4, <1>t DEF AnswersTools, LoopStates
<1>5. CASE NaturalContinues
  BY <1>5, <1>t DEF NaturalContinues, LoopStates
<1>6. CASE NaturalParks
  BY <1>6, <1>t DEF NaturalParks, LoopStates
<1>7. CASE NaturalEnds
  BY <1>7, <1>t DEF NaturalEnds, LoopStates
<1>8. CASE ParkedReceives
  BY <1>8, <1>t DEF ParkedReceives, LoopStates
<1>9. CASE ParkedCancelled
  BY <1>9, <1>t DEF ParkedCancelled, LoopStates
<1>10. CASE WaitResumes
  BY <1>10, <1>t DEF WaitResumes, TakesDecisions, LoopStates
<1>11. CASE Stops
  <2>1. \E place \in {"ended", "failed"} : loop' = At(place)
    BY <1>11, StopFacts DEF TypeInv
  <2>2. loop'.at \in {"ended", "failed"}
    BY <2>1, StopPlace
  <2>3. how' # "natural"
    <3>1. CASE WaitFails
      BY <3>1 DEF WaitFails
    <3>2. CASE StartCancelled
      BY <3>2 DEF StartCancelled
    <3>3. CASE \E r \in BOOLEAN : Fails(r)
      BY <3>3 DEF Fails
    <3>4. QED
      BY <1>11, <3>1, <3>2, <3>3 DEF Stops
  <2>4. QED
    BY <2>2, <2>3
<1>12. CASE WaitReceives
  BY <1>12, <1>t DEF WaitReceives, LoopStates
<1>13. CASE Ends
  <2>1. loop'.at = "ended"
    BY <1>13, AtFacts DEF Ends, Returns, Places
  <2>2. QED
    BY <1>13, <1>t, <2>1 DEF Ends
<1>16. CASE StartEnds
  BY <1>16, <1>t DEF StartEnds, LoopStates
<1>14. CASE Cancel
  BY <1>14, <1>t DEF Cancel, LoopStates
<1>15. CASE Reenter
  BY <1>15, <1>t DEF Reenter, Over, LoopStates
<1>20. CASE \/ \E r \in {"cancelled", "stopped"} : Abandoned(r)
            \/ \E r \in {"suspended", "cancelled"} : WaitEnds(r)
  BY <1>20, <1>t DEF Abandoned, WaitEnds, LoopStates
<1>21. CASE Pipeline
  <2>1. CASE GateAllows \/ GateFlushes \/ GateBlocks \/ GateSuspends \/ GateAnswers
    BY <1>t, <2>1 DEF GateAllows, GateFlushes, GateBlocks, GateSuspends, GateAnswers, LoopStates
  <2>2. CASE ExecutesOne
    BY <1>t, <2>2 DEF ExecutesOne, LoopStates
  <2>3. CASE ExecutesAll
    BY <1>t, <2>3 DEF ExecutesAll, LoopStates
  <2>4. CASE \/ \E r \in {"cancelled", "blocked", "stopped"} : SettleEnds(r)
             \/ SettleSuspends \/ SettleContinues
    BY <1>t, <2>4 DEF SettleEnds, SettleSuspends, SettleContinues, LoopStates
  <2>5. QED
    BY <1>21, <2>1, <2>2, <2>3, <2>4 DEF Pipeline
<1>22. CASE \E o \in {"Succeeded", "Failed", "Suspended"} : ReplayGated(o) \/ ReplayRuns(o)
  BY <1>22, <1>t DEF ReplayGated, ReplayRuns, ReplayStep, LoopStates
<1>23. CASE ReplayEnds
  BY <1>23, <1>t DEF ReplayEnds, LoopStates
<1>24. CASE Background
  <2>1. /\ UNCHANGED <<loop, life, how, pending>>
        /\ \A t \in Tasks : tasks'[t].state = "Running" => tasks[t].state = "Running"
    <3>1. PICK t \in Tasks : TaskEnds(t) \/ TaskReports(t)
      BY <1>24 DEF Background
    <3>2. QED
      BY <1>t, <3>1 DEF TaskEnds, TaskReports, TaskStates
  <2>2. QED
    BY <2>1
<1>25. CASE \/ \E c \in Call, a \in {"resume", "cancel"} : Decide(c, a)
            \/ \E d \in Decision : DecideAgain(d)
  BY <1>25 DEF Decide, DecideAgain
<1>90. QED
  BY <1>1, <1>2, <1>3, <1>4, <1>5, <1>6, <1>7, <1>8, <1>9, <1>10, <1>11, <1>12, <1>13,
     <1>14, <1>15, <1>16, <1>20, <1>21, <1>22, <1>23, <1>24, <1>25
     DEF Next, Loop, Clients, Stops

\* The approvals that reached call c and are still on their way to it.
Waiting(c) == Cardinality(Approvals(channel, c)) + Cardinality(Approvals(work, c))

\* A call runs only on an approval that is still unused.
LEMMA LeaveStep ==
  ASSUME TypeInv, BatchInv, PipeInv, WaitInv, LeaveInv, SavedInv, Next, TypeInv'
  PROVE  LeaveInv'
<1> USE DEF Breaks, outside, dispatch
<1>t. /\ loop \in LoopStates /\ calls \in CallStates /\ calls' \in CallStates
      /\ hist \in Hists /\ channel \in Seq(Decision)
      /\ work \in Seq(Decision \cup {Nothing})
      /\ loop.queue \in Seq(Call) /\ loop.ready \in Seq(Call)
      /\ channel' \in Seq(Decision) /\ work' \in Seq(Decision \cup {Nothing})
  BY DEF TypeInv, LoopStates
<1>l. hist.leave \in [Call -> Int] /\ hist'.leave \in [Call -> Int]
  BY DEF TypeInv, Hists
<1>n. \A c \in Call : /\ Cardinality(Approvals(channel, c)) \in Nat
                      /\ Cardinality(Approvals(work, c)) \in Nat
                      /\ Cardinality(Approvals(channel', c)) \in Nat
                      /\ Cardinality(Approvals(work', c)) \in Nat
                      /\ Cardinality(Approvals(<<>>, c)) = 0
  BY <1>t, ApprovalsCount
<1>e. ToSet(<<>>) = {}
  BY DEF ToSet
<1> DEFINE Due(c) == One(c \in ToSet(loop.ready)) + One(calls[c].status = "Resuming")
<1>i. \A c \in Call : hist.leave[c] >= Due(c) + Waiting(c)
  BY <1>n DEF LeaveInv, Waiting, One
<1>g. ASSUME \A c \in Call : hist'.leave[c] >= Due(c)' + Waiting(c)'
      PROVE  LeaveInv'
  BY <1>g, <1>n DEF LeaveInv, Waiting, One
<1>w. \A c \in Call : /\ channel' \in {channel, <<>>} /\ work' = work => Waiting(c)' <= Waiting(c)
                      /\ Waiting(c) \in Nat /\ Waiting(c)' \in Nat
  BY <1>n DEF Waiting
<1>d. \A c \in Call : Due(c) \in {0, 1, 2} /\ Due(c)' \in {0, 1, 2}
  BY DEF One
<1>k. ASSUME /\ \A c \in Call : hist'.leave[c] = hist.leave[c]
             /\ ToSet(loop'.ready) \subseteq ToSet(loop.ready)
             /\ \A c \in Call : calls'[c].status = "Resuming" => calls[c].status = "Resuming"
             /\ channel' \in {channel, <<>>} /\ work' = work
      PROVE  LeaveInv'
  <2>1. \A c \in Call : Due(c)' <= Due(c)
    BY <1>k DEF One
  <2> HIDE DEF Due
  <2>2. \A c \in Call : Waiting(c)' <= Waiting(c)
    BY <1>k, <1>w
  <2>3. \A c \in Call : hist'.leave[c] >= Due(c)' + Waiting(c)'
    BY <1>k, <1>i, <1>l, <1>w, <1>d, <2>1, <2>2
  <2>4. QED
    BY <1>g, <2>3
<1>a. \A c \in Call : Absent[c].status # "Resuming"
  BY DEF Absent
<1>1. CASE StepCancelled
  BY <1>1, <1>t, <1>a, <1>k DEF StepCancelled, LoopStates
<1>2. CASE Infer
  BY <1>2, <1>t, <1>a, <1>k DEF Infer, LoopStates
<1>3. CASE AnswersText
  BY <1>3, <1>t, <1>a, <1>k DEF AnswersText, LoopStates
<1>4. CASE NaturalContinues
  BY <1>4, <1>t, <1>a, <1>k DEF NaturalContinues, LoopStates
<1>5. CASE NaturalParks
  BY <1>5, <1>t, <1>a, <1>k DEF NaturalParks, LoopStates
<1>6. CASE NaturalEnds
  BY <1>6, <1>t, <1>a, <1>k DEF NaturalEnds, LoopStates
<1>7. CASE ParkedReceives
  BY <1>7, <1>t, <1>a, <1>k DEF ParkedReceives, LoopStates
<1>8. CASE ParkedCancelled
  BY <1>8, <1>t, <1>a, <1>k DEF ParkedCancelled, LoopStates
<1>9. CASE Stops
  <2>1. /\ \E place \in {"ended", "failed"} : loop' = At(place)
        /\ calls' = saved.calls /\ channel' = <<>>
    BY <1>9, <1>t, StopFacts
  <2>2. loop'.ready = <<>>
    BY <2>1, StopPlace
  <2>3. \A c \in Call : Due(c)' = 0
    BY <1>e, <2>1, <2>2 DEF One, SavedInv, Resuming
  <2> HIDE DEF Due
  <2>4. job \in Decision \cup {Nothing}
    BY DEF SavedInv
  <2>5. \E b \in BOOLEAN :
          /\ work' = IF b THEN Append(work, job) ELSE work
          /\ \A c \in Call : hist'.leave[c] =
                IF b /\ Approves(job, c) THEN hist.leave[c] + 1 ELSE hist.leave[c]
    <3>1. CASE WaitFails \/ StartCancelled
      BY <3>1 DEF WaitFails, StartCancelled
    <3>2. CASE \E r \in BOOLEAN : Fails(r)
      BY <1>t, <2>4, <3>2, FailFacts DEF Approves
    <3>3. QED
      BY <1>9, <3>1, <3>2 DEF Stops
  <2>6. PICK b \in BOOLEAN :
          /\ work' = IF b THEN Append(work, job) ELSE work
          /\ \A c \in Call : hist'.leave[c] =
                IF b /\ Approves(job, c) THEN hist.leave[c] + 1 ELSE hist.leave[c]
    BY <2>5
  <2>7. ASSUME NEW c \in Call
        PROVE  hist'.leave[c] >= Due(c)' + Waiting(c)'
    <3>1. Cardinality(Approvals(Append(work, job), c)) =
             Cardinality(Approvals(work, c)) + One(Approves(job, c))
      BY <1>t, <2>4, ApprovalsAppend
    <3>2. One(Approves(job, c)) = IF Approves(job, c) THEN 1 ELSE 0
      BY DEF One
    <3>3. Waiting(c)' = Cardinality(Approvals(work', c))
      BY <1>n, <2>1 DEF Waiting
    <3>4. hist.leave[c] >= Cardinality(Approvals(work, c))
      <4>1. hist.leave[c] >= Due(c) + Waiting(c) /\ Due(c) \in {0, 1, 2}
        BY <1>i, <1>d
      <4>2. /\ Waiting(c) = Cardinality(Approvals(channel, c)) + Cardinality(Approvals(work, c))
            /\ Cardinality(Approvals(channel, c)) \in Nat
            /\ Cardinality(Approvals(work, c)) \in Nat
            /\ hist.leave[c] \in Int
        BY <1>n, <1>l DEF Waiting
      <4>3. QED
        BY <4>1, <4>2
    <3>5. CASE b
      <4>1. Waiting(c)' = Cardinality(Approvals(work, c)) + One(Approves(job, c))
        BY <2>6, <3>1, <3>3, <3>5
      <4>2. hist'.leave[c] = hist.leave[c] + One(Approves(job, c))
        BY <1>l, <2>6, <3>2, <3>5
      <4>3. One(Approves(job, c)) \in {0, 1}
        BY <3>2
      <4>4. QED
        BY <1>l, <1>n, <2>3, <3>4, <4>1, <4>2, <4>3
    <3>6. CASE ~b
      BY <1>l, <1>n, <2>3, <2>6, <3>3, <3>4, <3>6
    <3>7. QED
      BY <3>5, <3>6
  <2>8. QED
    BY <1>g, <2>7
<1>10. CASE WaitReceives
  BY <1>10, <1>t, <1>a, <1>k DEF WaitReceives, LoopStates
<1>11. CASE Ends
  <2>1. loop' = At("ended") /\ channel' = <<>> /\ UNCHANGED <<calls, work, hist>>
    BY <1>11 DEF Ends, Returns
  <2>2. loop'.ready = <<>>
    BY <2>1, StopPlace
  <2>3. QED
    BY <1>e, <1>k, <2>1, <2>2
<1>13. CASE StartEnds
  BY <1>13, <1>t, <1>a, <1>k DEF StartEnds, LoopStates
<1>12. CASE Cancel
  BY <1>12, <1>t, <1>a, <1>k DEF Cancel, LoopStates
<1>20. CASE \/ \E r \in {"cancelled", "stopped"} : Abandoned(r)
            \/ \E r \in {"suspended", "cancelled"} : WaitEnds(r)
  BY <1>20, <1>t, <1>k DEF Abandoned, WaitEnds, LoopStates
<1>21. CASE AnswersTools
  <2>1. loop'.ready = <<>>
    BY <1>21, <1>t DEF AnswersTools, LoopStates
  <2>2. QED
    BY <1>21, <1>e, <1>k, <2>1 DEF AnswersTools
<1>22. CASE GateAllows
  <2> DEFINE c == Head(loop.queue)
  <2>1. loop.queue # <<>> /\ calls' = calls /\ channel' = channel /\ work' = work
        /\ hist' = [hist EXCEPT !.leave[c] = @ + 1]
        /\ loop' = [loop EXCEPT !.queue = Tail(@), !.ready = Append(@, c)]
    BY <1>22 DEF GateAllows
  <2>2. c \in Call /\ c \in ToSet(loop.queue)
    BY <1>t, <2>1, HeadTail
  <2>3. c \notin ToSet(loop.ready)
    BY <2>2 DEF PipeInv
  <2> HIDE DEF c
  <2>4. ToSet(loop'.ready) = ToSet(loop.ready) \cup {c}
    BY <1>t, <2>1, <2>2, AppendFacts DEF LoopStates
  <2>5. \A x \in Call : hist'.leave[x] = IF x = c THEN hist.leave[x] + 1 ELSE hist.leave[x]
    BY <1>t, <2>1, <2>2 DEF Hists
  <2>6. \A x \in Call : Due(x)' = IF x = c THEN Due(x) + 1 ELSE Due(x)
    BY <2>1, <2>3, <2>4 DEF One
  <2>7. \A x \in Call : Waiting(x)' <= Waiting(x)
    BY <1>w, <2>1
  <2> HIDE DEF Due
  <2>8. \A x \in Call : hist'.leave[x] >= Due(x)' + Waiting(x)'
    BY <1>i, <1>l, <1>w, <1>d, <2>5, <2>6, <2>7
  <2>9. QED
    BY <1>g, <2>8
<1>23. CASE GateFlushes \/ GateBlocks \/ GateSuspends \/ GateAnswers
  <2>1. loop'.ready = loop.ready /\ UNCHANGED <<channel, work>>
    BY <1>23, <1>t DEF GateFlushes, GateBlocks, GateSuspends, GateAnswers, LoopStates
  <2>2. hist'.leave = hist.leave
    BY <1>23, <1>t DEF GateFlushes, GateBlocks, GateSuspends, GateAnswers, Asked, Hists
  <2>3. Pipeline
    BY <1>23 DEF Pipeline
  <2>4. \A c \in Call : calls'[c].status = "Resuming" => calls[c].status = "Resuming"
    BY <2>3, PipelineCalls
  <2>5. QED
    BY <1>k, <2>1, <2>2, <2>4
<1>24. CASE ExecutesOne
  <2> DEFINE c == Head(loop.ready)
  <2>1. loop.ready # <<>> /\ UNCHANGED <<channel, work>>
    BY <1>24 DEF ExecutesOne, PipeInv
  <2>2. c \in Call /\ c \in ToSet(loop.ready) /\ c \notin ToSet(Tail(loop.ready))
        /\ ToSet(Tail(loop.ready)) \subseteq ToSet(loop.ready)
    BY <1>t, <2>1, HeadTail DEF PipeInv
  <2>3. PICK o \in {"Succeeded", "Failed", "Suspended"} :
           /\ MayEnd(c, o)
           /\ hist' = Ran(hist, [x \in {c} |-> o])
           /\ \/ loop' = [loop EXCEPT !.at = "settle", !.queue = <<>>,
                                      !.ready = <<>>, !.suspended = TRUE]
              \/ loop' = [loop EXCEPT !.ready = Tail(@),
                             !.at = IF Len(loop.ready) = 1 THEN "gate" ELSE "exec"]
    BY <1>24 DEF ExecutesOne
  <2>4. loop'.ready \in {<<>>, Tail(loop.ready)}
    <3> HIDE DEF c
    <3> QED
      BY <1>t, <2>3 DEF LoopStates
  <2>5. \A x \in Call : hist'.leave[x] = IF x = c THEN hist.leave[x] - 1 ELSE hist.leave[x]
    <3> DEFINE p == [x \in {c} |-> o]
    <3>1. /\ DOMAIN p \subseteq Call /\ DOMAIN p = {c}
          /\ \A x \in DOMAIN p : p[x] = "Suspended" => hist.asks[x] < MaxAsks
      BY <2>2, <2>3 DEF MayEnd
    <3>2. hist' = Ran(hist, p)
      BY <2>3
    <3> HIDE DEF p, c
    <3>3. QED
      BY <1>t, <3>1, <3>2, RanFacts
  <2>6. c \notin ToSet(loop'.ready) /\ ToSet(loop'.ready) \subseteq ToSet(loop.ready)
    BY <1>e, <2>2, <2>4
  <2>7. Pipeline
    BY <1>24 DEF Pipeline
  <2>8. \A x \in Call : calls'[x].status = "Resuming" => calls[x].status = "Resuming"
    BY <2>7, PipelineCalls
  <2> HIDE DEF c
  <2>9. \A x \in Call : Due(x)' <= IF x = c THEN Due(x) - 1 ELSE Due(x)
    BY <2>2, <2>6, <2>8 DEF One
  <2>10. \A x \in Call : Waiting(x)' <= Waiting(x)
    BY <1>w, <2>1
  <2> HIDE DEF Due
  <2>11. \A x \in Call : hist'.leave[x] >= Due(x)' + Waiting(x)'
    BY <1>i, <1>l, <1>w, <1>d, <2>5, <2>9, <2>10
  <2>12. QED
    BY <1>g, <2>11
<1>25. CASE ExecutesAll
  <2> DEFINE cs == ToSet(loop.ready)
  <2>1. cs \in SUBSET Call
    BY <1>t, SetOfSeq
  <2>2. PICK o \in [cs -> {"Succeeded", "Failed", "Suspended"}] :
           /\ \A c \in cs : MayEnd(c, o[c])
           /\ hist' = Ran(hist, o)
    BY <1>25 DEF ExecutesAll
  <2>3. loop'.ready = <<>> /\ UNCHANGED <<channel, work>>
    BY <1>25, <1>t DEF ExecutesAll, LoopStates
  <2>4. \A x \in Call : hist'.leave[x] = IF x \in cs THEN hist.leave[x] - 1 ELSE hist.leave[x]
    <3>1. /\ DOMAIN o = cs
          /\ \A x \in DOMAIN o : o[x] = "Suspended" => hist.asks[x] < MaxAsks
      BY <2>1, <2>2 DEF MayEnd
    <3>2. QED
      BY <1>t, <2>1, <2>2, <3>1, RanFacts
  <2>5. Pipeline
    BY <1>25 DEF Pipeline
  <2>6. \A x \in Call : calls'[x].status = "Resuming" => calls[x].status = "Resuming"
    BY <2>5, PipelineCalls
  <2>7. \A x \in Call : Due(x)' <= IF x \in cs THEN Due(x) - 1 ELSE Due(x)
    BY <1>e, <2>3, <2>6 DEF One
  <2>8. \A x \in Call : Waiting(x)' <= Waiting(x)
    BY <1>w, <2>3
  <2> HIDE DEF Due, cs
  <2>9. \A x \in Call : hist'.leave[x] >= Due(x)' + Waiting(x)'
    BY <1>i, <1>l, <1>w, <1>d, <2>4, <2>7, <2>8
  <2>10. QED
    BY <1>g, <2>9
<1>26. CASE \/ \E r \in {"cancelled", "blocked", "stopped"} : SettleEnds(r)
            \/ SettleSuspends \/ SettleContinues
  BY <1>26, <1>t, <1>k DEF SettleEnds, SettleSuspends, SettleContinues, LoopStates
<1>27. CASE WaitResumes
  <2> DEFINE p == Prepared(calls, channel)
  <2>1. DecidedBy(calls, channel, Len(channel), p)
    BY <1>t, PreparedFacts
  <2>2. /\ calls' = MarksTaken(p) /\ channel' = <<>> /\ UNCHANGED <<work, hist>>
        /\ loop'.ready = loop.ready
    BY <1>27, <1>t DEF WaitResumes, TakesDecisions, LoopStates
  <2> HIDE DEF p
  <2>3. \A x \in Call : calls'[x].status = p[x].status
    BY <2>1, <2>2, MarksTakenFacts DEF DecidedBy
  <2>4. ASSUME NEW x \in Call
        PROVE  hist'.leave[x] >= Due(x)' + Waiting(x)'
    <3>1. /\ Waiting(x)' = Cardinality(Approvals(work, x))
          /\ Waiting(x) = Cardinality(Approvals(channel, x)) + Cardinality(Approvals(work, x))
      BY <1>n, <2>2 DEF Waiting
    <3>2. CASE calls'[x].status = "Resuming" /\ calls[x].status # "Resuming"
      <4>1. \E i \in 1..Len(channel) : channel[i].call = x /\ channel[i].action = "resume"
        BY <2>1, <2>3, <3>2 DEF DecidedBy
      <4>2. Approvals(channel, x) # {}
        BY <4>1 DEF Approvals
      <4>3. Cardinality(Approvals(channel, x)) >= 1
        BY <1>t, <4>2, ApprovalsCount
      <4>4. Due(x)' <= Due(x) + 1
        BY <2>2 DEF One
      <4> HIDE DEF Due
      <4>5. hist'.leave[x] = hist.leave[x]
        BY <2>2
      <4>6. hist.leave[x] \in Int /\ hist.leave[x] >= Due(x) + Waiting(x)
        BY <1>i, <1>l
      <4>7. Due(x) \in {0, 1, 2} /\ Due(x)' \in {0, 1, 2}
        BY <1>d
      <4>8. Cardinality(Approvals(channel, x)) \in Nat /\ Cardinality(Approvals(work, x)) \in Nat
        BY <1>n
      <4>9. QED
        BY <3>1, <4>3, <4>4, <4>5, <4>6, <4>7, <4>8
    <3>3. CASE ~(calls'[x].status = "Resuming" /\ calls[x].status # "Resuming")
      <4>1. Due(x)' <= Due(x)
        BY <2>2, <3>3 DEF One
      <4> HIDE DEF Due
      <4>2. hist'.leave[x] = hist.leave[x]
        BY <2>2
      <4>3. hist.leave[x] \in Int /\ hist.leave[x] >= Due(x) + Waiting(x)
        BY <1>i, <1>l
      <4>4. Due(x) \in {0, 1, 2} /\ Due(x)' \in {0, 1, 2}
        BY <1>d
      <4>5. Cardinality(Approvals(channel, x)) \in Nat /\ Cardinality(Approvals(work, x)) \in Nat
        BY <1>n
      <4>6. QED
        BY <3>1, <4>1, <4>2, <4>3, <4>4, <4>5
    <3>4. QED
      BY <3>2, <3>3
  <2>5. QED
    BY <1>g, <2>4
<1>r. ASSUME NEW o \in {"Succeeded", "Failed", "Suspended"}, ReplayGated(o) \/ ReplayRuns(o)
      PROVE  LET c == First(loop.replay)
             IN /\ c \in Call
                /\ loop'.ready = loop.ready /\ UNCHANGED <<channel, work>>
                /\ calls[c].status = "Resuming" /\ calls'[c].status # "Resuming"
                /\ \A x \in Call : x # c => calls'[x] = calls[x]
  <2> DEFINE c == First(loop.replay)
  <2>1. /\ loop.replay # {} /\ loop.replay = Resuming(calls)
        /\ calls' = Completed(calls, c, o)
        /\ loop' = [loop EXCEPT !.replay = @ \ {c}]
        /\ UNCHANGED <<channel, work>>
    BY <1>r DEF ReplayGated, ReplayRuns, ReplayStep, WaitInv
  <2>2. c \in Call /\ c \in loop.replay
    BY <1>t, <2>1, FirstIsOne DEF LoopStates
  <2> HIDE DEF c
  <2>3. /\ Completed(calls, c, o) \in CallStates
        /\ \A x \in Call : x # c => Completed(calls, c, o)[x] = calls[x]
        /\ Completed(calls, c, o)[c].status # "Resuming"
        /\ Completed(calls, c, o)[c].status = "Suspended" =>
              o = "Suspended" \/ calls[c].status = "Suspended"
    BY <1>t, <2>2, CompletedFacts
  <2>4. calls[c].status = "Resuming"
    BY <2>1, <2>2 DEF Resuming
  <2>5. loop'.ready = loop.ready
    BY <1>t, <2>1 DEF LoopStates
  <2>6. QED
    BY <2>1, <2>2, <2>3, <2>4, <2>5 DEF c
<1>28. CASE \E o \in {"Succeeded", "Failed", "Suspended"} : ReplayGated(o)
  <2>1. PICK o \in {"Succeeded", "Failed", "Suspended"} : ReplayGated(o)
    BY <1>28
  <2>2. hist'.leave = hist.leave
    BY <1>t, <2>1 DEF ReplayGated, Asked, Hists
  <2>3. /\ loop'.ready = loop.ready /\ UNCHANGED <<channel, work>>
        /\ \A x \in Call : calls'[x].status = "Resuming" => calls[x].status = "Resuming"
    BY <1>r, <2>1
  <2>4. QED
    BY <1>k, <2>2, <2>3
<1>29. CASE \E o \in {"Succeeded", "Failed", "Suspended"} : ReplayRuns(o)
  <2> DEFINE c == First(loop.replay)
  <2>1. PICK o \in {"Succeeded", "Failed", "Suspended"} : ReplayRuns(o)
    BY <1>29
  <2>2. /\ c \in Call
        /\ loop'.ready = loop.ready /\ UNCHANGED <<channel, work>>
        /\ calls[c].status = "Resuming" /\ calls'[c].status # "Resuming"
        /\ \A x \in Call : x # c => calls'[x] = calls[x]
    BY <1>r, <2>1
  <2>3. MayEnd(c, o) /\ hist' = Ran(hist, [x \in {c} |-> o])
    BY <2>1 DEF ReplayRuns
  <2>4. \A x \in Call : hist'.leave[x] = IF x = c THEN hist.leave[x] - 1 ELSE hist.leave[x]
    <3> DEFINE p == [x \in {c} |-> o]
    <3>1. /\ DOMAIN p \subseteq Call /\ DOMAIN p = {c}
          /\ \A x \in DOMAIN p : p[x] = "Suspended" => hist.asks[x] < MaxAsks
      BY <2>2, <2>3 DEF MayEnd
    <3>2. hist' = Ran(hist, p)
      BY <2>3
    <3> HIDE DEF p, c
    <3>3. QED
      BY <1>t, <3>1, <3>2, RanFacts
  <2> HIDE DEF c
  <2>5. \A x \in Call : Due(x)' <= IF x = c THEN Due(x) - 1 ELSE Due(x)
    BY <2>2 DEF One
  <2>6. \A x \in Call : Waiting(x)' <= Waiting(x)
    BY <1>w, <2>2
  <2> HIDE DEF Due
  <2>7. \A x \in Call : hist'.leave[x] >= Due(x)' + Waiting(x)'
    BY <1>i, <1>l, <1>w, <1>d, <2>4, <2>5, <2>6
  <2>8. QED
    BY <1>g, <2>7
<1>30. CASE ReplayEnds
  <2>1. loop'.ready = loop.ready
    BY <1>30, <1>t DEF ReplayEnds, LoopStates
  <2>2. QED
    BY <1>30, <1>k, <2>1 DEF ReplayEnds
<1>31. CASE Background
  <2>1. /\ UNCHANGED <<loop, calls, channel, hist>>
        /\ work' \in {work, Append(work, Nothing)}
    BY <1>31 DEF Background, TaskEnds, TaskReports
  <2>2. \A x \in Call : Cardinality(Approvals(Append(work, Nothing), x)) = Cardinality(Approvals(work, x))
    <3> SUFFICES ASSUME NEW x \in Call
                 PROVE  Cardinality(Approvals(Append(work, Nothing), x)) = Cardinality(Approvals(work, x))
      OBVIOUS
    <3>1. Nothing \in Decision \cup {Nothing}
      OBVIOUS
    <3>2. Cardinality(Approvals(Append(work, Nothing), x)) =
             Cardinality(Approvals(work, x)) + One(Approves(Nothing, x))
      BY <1>t, <3>1, ApprovalsAppend
    <3>3. One(Approves(Nothing, x)) = 0
      BY DEF One, Approves, Nothing
    <3>4. QED
      BY <1>n, <3>2, <3>3
  <2>3. \A x \in Call : Waiting(x)' = Waiting(x)
    BY <2>1, <2>2 DEF Waiting
  <2>4. \A x \in Call : Due(x)' = Due(x) /\ hist'.leave[x] = hist.leave[x]
    BY <2>1
  <2> HIDE DEF Due
  <2>5. \A x \in Call : hist'.leave[x] >= Due(x)' + Waiting(x)'
    BY <1>i, <2>3, <2>4
  <2>6. QED
    BY <1>g, <2>5
<1>s. ASSUME NEW d \in Decision, Delivered(d), UNCHANGED <<loop, calls>>,
             NEW h \in Hists, h.leave = hist.leave, hist' \in {Approved(h, d), Repeated(h, d)}
      PROVE  LeaveInv'
  <2>1. \A x \in Call : hist'.leave[x] = IF Approves(d, x) THEN hist.leave[x] + 1 ELSE hist.leave[x]
    BY <1>s, ApprovedFacts, RepeatedFacts DEF Approves
  <2>2. \A x \in Call : Waiting(x)' = Waiting(x) + One(Approves(d, x))
    <3> SUFFICES ASSUME NEW x \in Call
                 PROVE  Waiting(x)' = Waiting(x) + One(Approves(d, x))
      OBVIOUS
    <3>1. Cardinality(Approvals(Append(channel, d), x)) =
             Cardinality(Approvals(channel, x)) + One(Approves(d, x))
      BY <1>t, ApprovalsAppend
    <3>2. d \in Decision \cup {Nothing}
      OBVIOUS
    <3>3. Cardinality(Approvals(Append(work, d), x)) =
             Cardinality(Approvals(work, x)) + One(Approves(d, x))
      BY <1>t, <3>2, ApprovalsAppend
    <3>4. One(Approves(d, x)) \in {0, 1}
      BY DEF One
    <3>5. \/ channel' = Append(channel, d) /\ work' = work
          \/ work' = Append(work, d) /\ channel' = channel
      BY <1>s, DeliveredFacts
    <3>6. /\ Cardinality(Approvals(channel, x)) \in Nat
          /\ Cardinality(Approvals(work, x)) \in Nat
      BY <1>n
    <3>7. CASE channel' = Append(channel, d) /\ work' = work
      <4>1. Waiting(x)' = Cardinality(Approvals(Append(channel, d), x)) + Cardinality(Approvals(work, x))
        BY <3>7 DEF Waiting
      <4>2. QED
        BY <3>1, <3>4, <3>6, <4>1 DEF Waiting
    <3>8. CASE work' = Append(work, d) /\ channel' = channel
      <4>1. Waiting(x)' = Cardinality(Approvals(channel, x)) + Cardinality(Approvals(Append(work, d), x))
        BY <3>8 DEF Waiting
      <4>2. QED
        BY <3>3, <3>4, <3>6, <4>1 DEF Waiting
    <3>9. QED
      BY <3>5, <3>7, <3>8
  <2>3. \A x \in Call : Due(x)' = Due(x)
    BY <1>s
  <2> HIDE DEF Due
  <2>4. \A x \in Call : hist'.leave[x] = hist.leave[x] + One(Approves(d, x))
    BY <1>l, <2>1 DEF One
  <2>5. \A x \in Call : One(Approves(d, x)) \in {0, 1}
    BY DEF One
  <2>6. \A x \in Call : hist'.leave[x] >= Due(x)' + Waiting(x)'
    BY <1>i, <1>l, <1>w, <1>d, <2>2, <2>3, <2>4, <2>5
  <2>7. QED
    BY <1>g, <2>6
<1>32. CASE \E c \in Call, a \in {"resume", "cancel"} : Decide(c, a)
  <2>1. PICK c \in Call, a \in {"resume", "cancel"} : Decide(c, a)
    BY <1>32
  <2> DEFINE d == [call |-> c, action |-> a, ask |-> hist.asks[c]]
             h == [hist EXCEPT !.sent = @ \cup {d}]
  <2>2. d \in Decision
    <3>1. hist.asks[c] \in 0..MaxAsks /\ hist.asks[c] >= 1 /\ MaxAsks \in Nat
      BY <1>t, <2>1, LoopAssumption DEF Decide, Hists, BatchInv
    <3>2. hist.asks[c] \in 1..MaxAsks
      BY <3>1
    <3>3. QED
      BY <3>2 DEF Decision
  <2>3. Delivered(d) /\ hist' = Approved(h, d) /\ UNCHANGED <<loop, calls>>
    BY <2>1 DEF Decide
  <2> HIDE DEF d
  <2>4. h \in Hists /\ h.leave = hist.leave
    BY <1>t, <2>2, RecordedFacts
  <2> HIDE DEF h
  <2>5. QED
    BY <1>s, <2>2, <2>3, <2>4
<1>33. CASE \E d \in Decision : DecideAgain(d)
  <2>1. PICK d \in Decision : DecideAgain(d)
    BY <1>33
  <2> DEFINE h == [hist EXCEPT !.troubles = @ + 1]
  <2>2. Delivered(d) /\ hist' = Repeated(h, d) /\ UNCHANGED <<loop, calls>>
    BY <2>1 DEF DecideAgain
  <2>3. h \in Hists /\ h.leave = hist.leave
    BY <1>t, RecordedFacts
  <2> HIDE DEF h
  <2>4. QED
    BY <1>s, <2>2, <2>3
<1>34. CASE Reenter
  <2> DEFINE d == Head(work)
             ds == IF d = Nothing THEN <<>> ELSE <<d>>
             p == Prepared(calls, ds)
  <2>1. work # <<>> /\ work' = Tail(work) /\ UNCHANGED <<channel, hist>>
    BY <1>34 DEF Reenter
  <2>2. d \in Decision \cup {Nothing}
    BY <1>t, <2>1, HeadTail
  <2>3. /\ ds \in Seq(Decision)
        /\ \A i \in 1..Len(ds) : ds[i] = d
    <3> HIDE DEF d
    <3>1. d # Nothing => <<d>> \in Seq(Decision)
      BY <2>2
    <3>2. QED
      BY <3>1
  <2>4. /\ loop'.ready = loop.ready
        /\ (calls' = MarksTaken(p) \/ calls' = calls)
    <3>1. CASE Known(calls, ds)
      <4>1. /\ calls' = MarksTaken(p)
            /\ loop' = [loop EXCEPT !.at = "replay", !.first = TRUE, !.replay = Resuming(p)]
        BY <1>34, <3>1, ReenterFacts DEF Reenter
      <4> HIDE DEF p
      <4>2. QED
        BY <1>t, <4>1 DEF LoopStates
    <3>2. CASE ~Known(calls, ds)
      <4>1. calls' = calls /\ loop' = [loop EXCEPT !.at = "failed"]
        BY <1>34, <3>2, ReenterFacts DEF Reenter
      <4>2. QED
        BY <1>t, <4>1 DEF LoopStates
    <3>3. QED
      BY <3>1, <3>2
  <2>5. DecidedBy(calls, ds, Len(ds), p)
    <3> HIDE DEF ds
    <3> QED
      BY <1>t, <2>3, PreparedFacts
  <2> HIDE DEF d, ds, p
  <2>6. ASSUME NEW x \in Call, calls'[x].status = "Resuming", calls[x].status # "Resuming"
        PROVE  Approves(d, x)
    <3>1. calls' = MarksTaken(p) /\ p \in CallStates
      BY <2>4, <2>5, <2>6 DEF DecidedBy
    <3>2. p[x].status = "Resuming"
      BY <2>6, <3>1, MarksTakenFacts
    <3>3. \E i \in 1..Len(ds) : ds[i].call = x /\ ds[i].action = "resume"
      BY <2>5, <2>6, <3>2 DEF DecidedBy
    <3>4. QED
      BY <2>3, <3>3 DEF Approves
  <2>7. ASSUME NEW x \in Call
        PROVE  hist'.leave[x] >= Due(x)' + Waiting(x)'
    <3>1. Cardinality(Approvals(work, x)) >= Cardinality(Approvals(Tail(work), x)) + One(Approves(d, x))
      BY <1>t, <2>1, ApprovalsTail DEF d
    <3>2. One(Approves(d, x)) \in {0, 1}
      BY DEF One
    <3>3. Waiting(x) >= Waiting(x)' + One(Approves(d, x))
      BY <1>n, <2>1, <3>1, <3>2 DEF Waiting
    <3>4. Due(x)' <= Due(x) + One(Approves(d, x))
      BY <2>4, <2>6 DEF One
    <3>5. hist'.leave[x] = hist.leave[x]
      BY <2>1
    <3> HIDE DEF Due
    <3>6. QED
      BY <1>i, <1>l, <1>w, <1>d, <3>2, <3>3, <3>4, <3>5
  <2>8. QED
    BY <1>g, <2>7
<1>90. QED
  BY <1>1, <1>2, <1>3, <1>4, <1>5, <1>6, <1>7, <1>8, <1>9, <1>10, <1>11, <1>12,
     <1>13, <1>20, <1>21, <1>22, <1>23, <1>24, <1>25, <1>26, <1>27, <1>28, <1>29,
     <1>30, <1>31, <1>32, <1>33, <1>34
     DEF Next, Loop, Pipeline, Clients, Stops

(***************************************************************************)
(* The checkpoint                                                          *)
(***************************************************************************)

\* What an action notes of the questions asked only grows.
LEMMA AsksGrow ==
  ASSUME hist \in Hists, NEW c
  PROVE  \A x \in Call : /\ hist.asks[x] >= hist.asks[x]
                         /\ Asked(c).asks[x] >= hist.asks[x]
                         /\ [hist EXCEPT !.leave[c] = @ + 1].asks[x] >= hist.asks[x]
<1>1. MaxAsks \in Nat /\ \A x \in Call : hist.asks[x] \in 0..MaxAsks
  BY LoopAssumption DEF Hists
<1>2. [hist EXCEPT !.leave[c] = @ + 1].asks = hist.asks
  BY DEF Hists
<1> DEFINE a == [hist.asks EXCEPT ![c] = @ + 1]
<1>3. \A x \in Call : a[x] = IF x = c THEN hist.asks[x] + 1 ELSE hist.asks[x]
  BY DEF Hists
<1>4. Asked(c).asks = a
  BY DEF Asked, Hists
<1> HIDE DEF a
<1>5. QED
  BY <1>1, <1>2, <1>3, <1>4

\* No question is taken back.
Notes == \A c \in Call : hist'.asks[c] >= hist.asks[c]

\* A checkpoint is written between replays only; calls and questions are never
\* taken back.
LEMMA Checkpointed ==
  ASSUME TypeInv, BatchInv, PipeInv, WaitInv, SavedInv, Next
  PROVE  /\ \/ saved' = saved
            \/ Persists /\ loop'.at # "replay"
         /\ job' \in Decision \cup {Nothing}
         /\ batch' >= batch
         /\ \A c \in Call : hist'.asks[c] >= hist.asks[c]
<1> DEFINE Same == saved' = saved /\ job' = job /\ batch' = batch
           Written == Persists /\ loop'.at # "replay" /\ job' = job /\ batch' = batch
           Goal == /\ \/ saved' = saved
                      \/ Persists /\ loop'.at # "replay"
                   /\ job' \in Decision \cup {Nothing}
                   /\ batch' >= batch
                   /\ Notes
<1>h. /\ hist \in Hists /\ batch \in Nat /\ job \in Decision \cup {Nothing}
      /\ loop \in LoopStates
  BY LoopAssumption DEF TypeInv, SavedInv, LoopAssumption
<1>n. hist' = hist => Notes
  BY <1>h, AsksGrow DEF Notes
<1>g. (Same \/ Written) /\ Notes => Goal
  BY <1>h
<1>a. CASE StepCancelled \/ AnswersText \/ (\E r \in {"cancelled", "stopped"} : Abandoned(r))
  <2>1. Written /\ hist' = hist
    BY <1>a, <1>h DEF StepCancelled, AnswersText, Abandoned, StepEnd, Breaks, dispatch, LoopStates
  <2> HIDE DEF Written, Same, Goal
  <2>2. QED
    BY <1>g, <1>n, <2>1 DEF Goal, Notes
<1>b. CASE (\E r \in {"cancelled", "blocked", "stopped"} : SettleEnds(r))
           \/ SettleSuspends \/ SettleContinues
  <2>1. Written /\ hist' = hist
    BY <1>b, <1>h DEF SettleEnds, SettleSuspends, SettleContinues, StepEnd, Breaks, dispatch,
       LoopStates
  <2> HIDE DEF Written, Same, Goal
  <2>2. QED
    BY <1>g, <1>n, <2>1 DEF Goal, Notes
<1>c. CASE WaitReceives
  <2>1. (Same \/ Written) /\ hist' = hist
    BY <1>c DEF WaitReceives, dispatch
  <2> HIDE DEF Written, Same, Goal
  <2>2. QED
    BY <1>g, <1>n, <2>1 DEF Goal, Notes
<1>d. CASE Ends
  <2>1. loop' = At("ended") /\ "ended" \in Places
    BY <1>d DEF Ends, Returns, Places
  <2>2. loop'.at = "ended"
    BY <2>1, AtFacts
  <2>3. Written /\ hist' = hist
    BY <1>d, <2>2 DEF Ends, dispatch
  <2> HIDE DEF Written, Same, Goal
  <2>4. QED
    BY <1>g, <1>n, <2>3 DEF Goal, Notes
<1>e. CASE Infer \/ GateFlushes \/ GateBlocks \/ GateAnswers \/ NaturalContinues
           \/ NaturalParks \/ NaturalEnds \/ ParkedReceives \/ ParkedCancelled
  <2>1. Same /\ hist' = hist
    BY <1>e DEF Infer, GateFlushes, GateBlocks, GateAnswers, NaturalContinues, NaturalParks,
       NaturalEnds, ParkedReceives, ParkedCancelled, outside, dispatch
  <2> HIDE DEF Written, Same, Goal
  <2>2. QED
    BY <1>g, <1>n, <2>1 DEF Goal, Notes
<1>f. CASE (\E r \in {"suspended", "cancelled"} : WaitEnds(r)) \/ WaitResumes
           \/ ReplayEnds \/ StartEnds \/ Cancel \/ Background
  <2>1. Same /\ hist' = hist
    BY <1>f DEF WaitEnds, WaitResumes, ReplayEnds, StartEnds, Cancel, Background, TaskEnds,
       TaskReports, outside, dispatch
  <2> HIDE DEF Written, Same, Goal
  <2>2. QED
    BY <1>g, <1>n, <2>1 DEF Goal, Notes
<1>i. CASE Stops
  <2>1. Same /\ hist'.asks = hist.asks
    BY <1>i, <1>h, StopFacts
  <2>2. Notes
    BY <1>h, <2>1, AsksGrow DEF Notes
  <2> HIDE DEF Written, Same, Goal
  <2>3. QED
    BY <1>g, <2>1, <2>2 DEF Goal, Notes
<1>j. CASE AnswersTools
  <2>1. PICK w \in 1..(MaxCalls - batch) : batch' = batch + w
    BY <1>j DEF AnswersTools
  <2>2. batch' >= batch
    BY <1>h, <2>1, LoopAssumption DEF LoopAssumption
  <2>3. saved' = saved /\ job' = job /\ hist' = hist
    BY <1>j DEF AnswersTools, outside, dispatch
  <2>4. QED
    BY <1>h, <1>n, <2>2, <2>3 DEF Notes
<1>k. CASE GateAllows \/ GateSuspends
  <2>1. PICK c \in Call : \/ hist' = [hist EXCEPT !.leave[c] = @ + 1]
                          \/ hist' = Asked(c)
    <3>1. loop.queue # <<>> /\ loop.queue \in Seq(Call)
      BY <1>k, <1>h DEF GateAllows, GateSuspends, LoopStates
    <3>2. Head(loop.queue) \in Call
      BY <3>1, HeadTail
    <3>3. QED
      BY <1>k, <3>2 DEF GateAllows, GateSuspends
  <2>2. Notes
    BY <1>h, <2>1, AsksGrow DEF Notes
  <2>3. Same
    BY <1>k DEF GateAllows, GateSuspends, outside, dispatch
  <2> HIDE DEF Written, Same, Goal
  <2>4. QED
    BY <1>g, <2>2, <2>3 DEF Goal, Notes
<1>l. CASE ExecutesOne
  <2> DEFINE c == Head(loop.ready)
  <2>1. c \in Call
    <3>1. loop.ready # <<>> /\ loop.ready \in Seq(Call)
      BY <1>l, <1>h DEF ExecutesOne, PipeInv, LoopStates
    <3>2. QED
      BY <3>1, HeadTail
  <2>2. PICK o \in {"Succeeded", "Failed", "Suspended"} :
           MayEnd(c, o) /\ hist' = Ran(hist, [x \in {c} |-> o])
    BY <1>l DEF ExecutesOne
  <2> DEFINE p == [x \in {c} |-> o]
  <2>3. /\ DOMAIN p \subseteq Call /\ hist' = Ran(hist, p)
        /\ \A x \in DOMAIN p : p[x] = "Suspended" => hist.asks[x] < MaxAsks
    BY <2>1, <2>2 DEF MayEnd
  <2>4. Same
    BY <1>l DEF ExecutesOne, outside, dispatch
  <2> HIDE DEF p, Written, Same, Goal
  <2>5. Notes
    BY <1>h, <2>3, RanFacts DEF Notes
  <2>6. QED
    BY <1>g, <2>4, <2>5 DEF Goal, Notes
<1>m. CASE ExecutesAll
  <2> DEFINE cs == ToSet(loop.ready)
  <2>1. cs \in SUBSET Call
    BY <1>h, SetOfSeq DEF LoopStates
  <2>2. PICK o \in [cs -> {"Succeeded", "Failed", "Suspended"}] :
           (\A c \in cs : MayEnd(c, o[c])) /\ hist' = Ran(hist, o)
    BY <1>m DEF ExecutesAll
  <2>3. /\ DOMAIN o \subseteq Call
        /\ \A x \in DOMAIN o : o[x] = "Suspended" => hist.asks[x] < MaxAsks
    BY <2>1, <2>2 DEF MayEnd
  <2>4. Same
    BY <1>m DEF ExecutesAll, outside, dispatch
  <2> HIDE DEF cs, Written, Same, Goal
  <2>5. Notes
    BY <1>h, <2>2, <2>3, RanFacts DEF Notes
  <2>6. QED
    BY <1>g, <2>4, <2>5 DEF Goal, Notes
<1>o. CASE \E o \in {"Succeeded", "Failed", "Suspended"} : ReplayGated(o)
  <2>1. PICK o \in {"Succeeded", "Failed", "Suspended"} : ReplayGated(o)
    BY <1>o
  <2>2. Same /\ hist' \in {hist, Asked(First(loop.replay))}
    BY <2>1 DEF ReplayGated, outside, dispatch
  <2>3. Notes
    BY <1>h, <2>2, AsksGrow DEF Notes
  <2> HIDE DEF Written, Same, Goal
  <2>4. QED
    BY <1>g, <2>2, <2>3 DEF Goal, Notes
<1>p. CASE \E o \in {"Succeeded", "Failed", "Suspended"} : ReplayRuns(o)
  <2>1. PICK o \in {"Succeeded", "Failed", "Suspended"} : ReplayRuns(o)
    BY <1>p
  <2> DEFINE c == First(loop.replay)
             p == [x \in {c} |-> o]
  <2>2. c \in Call
    <3>1. loop.replay \in SUBSET Call /\ loop.replay # {}
      BY <1>h, <2>1 DEF ReplayRuns, LoopStates
    <3>2. QED
      BY <3>1, FirstIsOne
  <2>3. /\ DOMAIN p \subseteq Call /\ hist' = Ran(hist, p)
        /\ \A x \in DOMAIN p : p[x] = "Suspended" => hist.asks[x] < MaxAsks
    BY <2>1, <2>2 DEF MayEnd, ReplayRuns
  <2>4. Same
    BY <2>1 DEF ReplayRuns, outside, dispatch
  <2> HIDE DEF p, Written, Same, Goal
  <2>5. Notes
    BY <1>h, <2>3, RanFacts DEF Notes
  <2>6. QED
    BY <1>g, <2>4, <2>5 DEF Goal, Notes
<1>q. CASE \E c \in Call, a \in {"resume", "cancel"} : Decide(c, a)
  <2>1. PICK c \in Call, a \in {"resume", "cancel"} : Decide(c, a)
    BY <1>q
  <2> DEFINE d == [call |-> c, action |-> a, ask |-> hist.asks[c]]
             h == [hist EXCEPT !.sent = @ \cup {d}]
  <2>2. d \in Decision
    <3>1. hist.asks[c] >= 1
      BY <2>1 DEF Decide, BatchInv
    <3>2. hist.asks[c] \in 1..MaxAsks
      BY <1>h, <3>1, LoopAssumption DEF Hists, LoopAssumption
    <3>3. QED
      BY <3>2 DEF Decision
  <2>3. hist' = Approved(h, d)
    BY <2>1 DEF Decide
  <2>4. h \in Hists /\ h.asks = hist.asks
    BY <1>h, <2>2, RecordedFacts
  <2>5. Same
    BY <2>1 DEF Decide
  <2> HIDE DEF d, h, Written, Same, Goal
  <2>6. Notes
    BY <1>h, <2>2, <2>3, <2>4, ApprovedFacts, AsksGrow DEF Notes
  <2>7. QED
    BY <1>g, <2>5, <2>6 DEF Goal, Notes
<1>r. CASE \E d \in Decision : DecideAgain(d)
  <2>1. PICK d \in Decision : DecideAgain(d)
    BY <1>r
  <2> DEFINE h == [hist EXCEPT !.troubles = @ + 1]
  <2>2. hist' = Repeated(h, d) /\ Same
    BY <2>1 DEF DecideAgain
  <2>3. h \in Hists /\ h.asks = hist.asks
    BY <1>h, RecordedFacts
  <2> HIDE DEF h, Written, Same, Goal
  <2>4. Notes
    BY <1>h, <2>2, <2>3, RepeatedFacts, AsksGrow DEF Notes
  <2>5. QED
    BY <1>g, <2>2, <2>4 DEF Goal, Notes
<1>s. CASE Reenter
  <2>1. work \in Seq(Decision \cup {Nothing}) /\ work # <<>>
    BY <1>s DEF Reenter, TypeInv
  <2>2. job' = Head(work) /\ saved' = saved /\ batch' = batch /\ hist' = hist
    BY <1>s DEF Reenter
  <2>3. job' \in Decision \cup {Nothing}
    BY <2>1, <2>2, HeadTail
  <2>4. QED
    BY <1>h, <1>n, <2>2, <2>3 DEF Notes
<1> HIDE DEF Same, Written, Goal
<1>90. QED
  BY <1>a, <1>b, <1>c, <1>d, <1>e, <1>f, <1>i, <1>j, <1>k, <1>l, <1>m, <1>o, <1>p, <1>q,
     <1>r, <1>s
     DEF Next, Loop, Pipeline, Clients, Stops

\* Between two executions there is nothing but the checkpoint.
LEMMA OverStep ==
  ASSUME TypeInv, SavedInv, Next, loop'.at \in Over
  PROVE  life' = saved'.life /\ calls' = saved'.calls /\ log' = saved'.log
<1>h. /\ loop \in LoopStates
      /\ loop.at \in Over => life = saved.life /\ calls = saved.calls /\ log = saved.log
  BY DEF TypeInv, SavedInv
<1>1. CASE Ends
  BY <1>1 DEF Ends, Persists
<1>2. CASE Stops
  BY <1>2, StopFacts DEF TypeInv
<1>3. CASE Reenter
  BY <1>3, <1>h DEF Reenter, Forgets, LoopStates, Over
<1>4. CASE Clients /\ ~Reenter
  BY <1>4, <1>h DEF Clients, Decide, DecideAgain, Cancel, outside, dispatch
<1>5. CASE Background
  BY <1>5, <1>h DEF Background, TaskEnds, TaskReports, outside, dispatch
<1>6. CASE \/ StepCancelled \/ Infer \/ AnswersText \/ AnswersTools
           \/ \E r \in {"cancelled", "stopped"} : Abandoned(r)
  <2>1. loop'.at \notin Over
    BY <1>6, <1>h DEF StepCancelled, Infer, AnswersText, AnswersTools, Abandoned, Breaks,
       LoopStates, Over
  <2>2. QED
    BY <2>1
<1>7. CASE Pipeline
  <2>1. CASE GateAllows \/ GateFlushes \/ GateBlocks \/ GateSuspends \/ GateAnswers
    BY <2>1, <1>h DEF GateAllows, GateFlushes, GateBlocks, GateSuspends, GateAnswers,
       LoopStates, Over
  <2>2. CASE ExecutesOne
    BY <2>2, <1>h DEF ExecutesOne, LoopStates, Over
  <2>3. CASE ExecutesAll
    BY <2>3, <1>h DEF ExecutesAll, LoopStates, Over
  <2>4. CASE (\E r \in {"cancelled", "blocked", "stopped"} : SettleEnds(r))
             \/ SettleSuspends \/ SettleContinues
    BY <2>4, <1>h DEF SettleEnds, SettleSuspends, SettleContinues, Breaks, LoopStates, Over
  <2>5. QED
    BY <1>7, <2>1, <2>2, <2>3, <2>4 DEF Pipeline
<1>8. CASE NaturalContinues \/ NaturalParks \/ NaturalEnds \/ ParkedReceives \/ ParkedCancelled
  BY <1>8, <1>h DEF NaturalContinues, NaturalParks, NaturalEnds, ParkedReceives,
     ParkedCancelled, Breaks, LoopStates, Over
<1>9. CASE (\E r \in {"suspended", "cancelled"} : WaitEnds(r)) \/ WaitResumes \/ WaitReceives
  BY <1>9, <1>h DEF WaitEnds, WaitResumes, WaitReceives, TakesDecisions, Breaks, LoopStates, Over
<1>10. CASE (\E o \in {"Succeeded", "Failed", "Suspended"} : ReplayGated(o) \/ ReplayRuns(o))
            \/ ReplayEnds \/ StartEnds
  BY <1>10, <1>h DEF ReplayGated, ReplayRuns, ReplayStep, ReplayEnds, StartEnds, LoopStates, Over
<1>11. QED
  BY <1>1, <1>2, <1>3, <1>4, <1>5, <1>6, <1>7, <1>8, <1>9, <1>10 DEF Next, Loop, Stops

\* Each step keeps the checkpoint whole.
LEMMA SavedStep ==
  ASSUME TypeInv, PipeInv, WaitInv, BatchInv, SavedInv, Next,
         TypeInv', BatchInv', PipeInv', WaitInv'
  PROVE  SavedInv'
<1>1. /\ \/ saved' = saved
         \/ Persists /\ loop'.at # "replay"
      /\ job' \in Decision \cup {Nothing}
      /\ batch' >= batch
      /\ \A c \in Call : hist'.asks[c] >= hist.asks[c]
  BY Checkpointed
<1>2. loop'.at \in Over => life' = saved'.life /\ calls' = saved'.calls /\ log' = saved'.log
  BY OverStep
<1>3. /\ batch \in Nat /\ batch' \in Nat
      /\ \A c \in Call : hist.asks[c] \in Nat /\ hist'.asks[c] \in Nat /\ c \in Nat
  <2>1. MaxCalls \in Nat /\ MaxAsks \in Nat
    BY LoopAssumption DEF LoopAssumption
  <2>2. /\ batch \in 0..MaxCalls /\ batch' \in 0..MaxCalls
        /\ hist \in Hists /\ hist' \in Hists
    BY DEF TypeInv
  <2>3. \A c \in Call : hist.asks[c] \in 0..MaxAsks /\ hist'.asks[c] \in 0..MaxAsks
    BY <2>2 DEF Hists
  <2>4. QED
    BY <2>1, <2>2, <2>3 DEF Call
<1>4. CASE saved' = saved
  <2>1. /\ saved' \in [life : Lives, calls : CallStates, log : Logs]
        /\ saved'.log.shown \subseteq saved'.log.answered
        /\ Resuming(saved'.calls) = {}
    BY <1>4 DEF SavedInv
  <2>2. \A c \in Call : c > batch' => saved'.calls[c] = Absent[c]
    BY <1>1, <1>3, <1>4 DEF SavedInv
  <2>3. \A c \in Call : saved'.calls[c].status = "Suspended" => hist'.asks[c] >= 1
    BY <1>1, <1>3, <1>4 DEF SavedInv
  <2>4. \A c \in Call : c \in saved'.log.shown \/ c \in saved'.log.answered => c <= batch'
    BY <1>1, <1>3, <1>4 DEF SavedInv, Within
  <2>5. QED
    BY <1>1, <1>2, <2>1, <2>2, <2>3, <2>4 DEF SavedInv, Within, Resuming
<1>5. CASE Persists /\ loop'.at # "replay"
  <2>1. saved'.life = life' /\ saved'.calls = calls' /\ saved'.log = log'
    BY <1>5 DEF Persists
  <2>2. saved' \in [life : Lives, calls : CallStates, log : Logs]
    BY <1>5 DEF Persists, TypeInv, Lives, Logs
  <2>3. Resuming(saved'.calls) = {}
    BY <1>5, <2>1 DEF WaitInv
  <2>4. QED
    BY <1>1, <1>2, <2>1, <2>2, <2>3 DEF SavedInv, BatchInv, PipeInv, Within, Resuming, Absent
<1>6. QED
  BY <1>1, <1>4, <1>5

(***************************************************************************)
(* The theorems                                                            *)
(***************************************************************************)

\* The loop starts with no call, no decision and no task of its own.
LEMMA LoopStarts ==
  ASSUME Init
  PROVE  LoopInv
<1>1. /\ calls \in CallStates /\ calls = Absent
      /\ \A c \in Call : calls[c].status = "New"
  BY DEF Init, Absent, CallStates, Statuses
<1>2. ToSet(<<>>) = {} /\ <<>> \in Seq(Call) /\ Len(<<>>) = 0
  BY DEF ToSet
<1>3. loop \in LoopStates /\ hist \in Hists
  <2>1. /\ loop = [at |-> "replay", asked |-> {}, queue |-> <<>>, ready |-> <<>>, replay |-> {},
                  blocked |-> FALSE, suspended |-> FALSE, first |-> TRUE]
        /\ {} \in SUBSET Call /\ "replay" \in Places
    BY DEF Init, At, Places
  <2>2. /\ [c \in Call |-> 0] \in [Call -> 0..MaxAsks] /\ [c \in Call |-> 0] \in [Call -> Int]
        /\ [c \in Call |-> 0] \in [Call -> Nat]
    BY LoopAssumption DEF LoopAssumption
  <2>3. hist \in Hists
    BY <2>2 DEF Init, Hists
  <2>4. loop \in LoopStates
    BY <1>2, <2>1 DEF LoopStates
  <2>5. QED
    BY <2>3, <2>4
<1>4. TypeInv
  <2>1. conf \in [origin : {"root", "subagent"}, mode : {"sequential", "parallel"},
                  live : BOOLEAN]
    BY LoopAssumption DEF Init, LoopAssumption
  <2>2. tasks \in [Tasks -> TaskStates]
    <3>1. [state |-> "Idle", home |-> 0] \in TaskStates
      BY LoopAssumption DEF LoopAssumption, TaskStates
    <3>2. QED
      BY <3>1 DEF Init
  <2>3. batch \in 0..MaxCalls /\ entry \in 1..MaxEntries
    BY LoopAssumption DEF Init, LoopAssumption
  <2>4. /\ life \in {"Running", "Suspended", "Awaiting", "Done"} /\ how \in Reasons
        /\ out \in SUBSET Call /\ inbox \in SUBSET Tasks
        /\ token \in BOOLEAN /\ pending \in BOOLEAN
    BY DEF Init, Reasons
  <2>5. log \in [shown : SUBSET Call, answered : SUBSET Call]
    BY DEF Init
  <2>6. channel \in Seq(Decision) /\ work \in Seq(Decision \cup {Nothing})
    <3>1. <<>> \in Seq(Decision) /\ <<>> \in Seq(Decision \cup {Nothing})
      OBVIOUS
    <3>2. QED
      BY <3>1 DEF Init
  <2>7. QED
    BY <1>1, <1>3, <2>1, <2>2, <2>3, <2>4, <2>5, <2>6 DEF TypeInv
<1>5. BatchInv
  BY <1>1, <1>2 DEF Init, At, BatchInv, Within
<1>6. PipeInv
  BY <1>2 DEF Init, At, PipeInv, Distinct
<1>7. WaitInv
  BY <1>1 DEF Init, At, WaitInv, Resuming
<1>8. TaskInv
  BY DEF Init, At, TaskInv
<1>9. LeaveInv
  <2>1. \A c \in Call : Cardinality(Approvals(<<>>, c)) = 0
    <3>1. <<>> \in Seq(Decision)
      OBVIOUS
    <3>2. QED
      BY <3>1, ApprovalsCount
  <2>2. QED
    BY <1>1, <1>2, <2>1 DEF Init, At, LeaveInv, One
<1>10. SavedInv
  <2>1. saved = [life |-> "Running", calls |-> Absent, log |-> [shown |-> {}, answered |-> {}]]
    BY DEF Init
  <2>2. saved \in [life : Lives, calls : CallStates, log : Logs]
    BY <1>1, <2>1 DEF Lives, Logs
  <2>3. saved.calls = calls /\ saved.log.shown = {} /\ saved.log.answered = {}
    BY <1>1, <2>1
  <2>4. job \in Decision \cup {Nothing} /\ loop.at \notin Over
    BY DEF Init, At, Over
  <2>5. QED
    BY <1>1, <2>2, <2>3, <2>4 DEF SavedInv, Within, Resuming
<1>11. QED
  BY <1>4, <1>5, <1>6, <1>7, <1>8, <1>9, <1>10 DEF LoopInv

\* Every step of the loop, of a task and of a client keeps the invariant.
LEMMA LoopKeeps ==
  ASSUME LoopInv, [Next]_vars
  PROVE  LoopInv'
<1>1. CASE Next
  <2> USE <1>1 DEF LoopInv
  <2>1. TypeInv'
    BY TypeStep
  <2>2. BatchInv'
    BY <2>1, BatchStep
  <2>3. PipeInv'
    BY <2>1, PipeStep
  <2>4. WaitInv'
    BY <2>1, WaitStep
  <2>5. TaskInv'
    BY <2>1, TaskStep
  <2>6. LeaveInv'
    BY <2>1, LeaveStep
  <2>7. SavedInv'
    BY <2>1, <2>2, <2>3, <2>4, SavedStep
  <2>8. QED
    BY <2>1, <2>2, <2>3, <2>4, <2>5, <2>6, <2>7
<1>2. CASE UNCHANGED vars
  BY <1>2 DEF vars, LoopInv, TypeInv, BatchInv, Within, PipeInv, WaitInv, TaskInv, LeaveInv,
     SavedInv
<1>3. QED
  BY <1>1, <1>2

\* LoopInv is an invariant of the specification.
THEOREM LoopInvariant == Spec => []LoopInv
<1>1. Init => LoopInv
  BY LoopStarts
<1>2. LoopInv /\ [Next]_vars => LoopInv'
  BY LoopKeeps
<1>3. QED
  BY <1>1, <1>2, PTL DEF Spec

\* Every variable keeps its type, a call beyond the batches asked for is new,
\* and the transcript answers only calls the model has asked for
\* (tool_call_state.rs, orchestrator.rs), for every bound.
THEOREM LoopIsTyped == Spec => []AgentTypeOK
<1>1. LoopInv => AgentTypeOK
  <2> SUFFICES ASSUME LoopInv PROVE AgentTypeOK
    OBVIOUS
  <2> USE DEF LoopInv
  <2>1. /\ life \in {"Running", "Suspended", "Awaiting", "Done"}
        /\ calls \in CallStates /\ batch \in 0..MaxCalls /\ MaxCalls \in Nat
        /\ {token, pending} \subseteq BOOLEAN /\ entry \in 1..MaxEntries
        /\ out \subseteq Call /\ log.shown \subseteq Call /\ log.answered \subseteq Call
        /\ loop.asked \subseteq Call
    BY LoopAssumption DEF TypeInv, LoopStates, LoopAssumption
  <2>2. \A c \in Call : c > batch => calls[c] = Absent[c]
    BY DEF BatchInv
  <2>3. \A c \in Call : c <= batch => c \in 1..batch
    BY <2>1 DEF Call
  <2>4. out \cup log.shown \cup log.answered \cup loop.asked \subseteq 1..batch
    BY <2>1, <2>3 DEF BatchInv, Within
  <2>5. \A t \in Tasks : tasks[t].home \in 0..MaxEntries
    BY DEF TypeInv, TaskStates
  <2>6. saved.log.shown \subseteq saved.log.answered /\ job \in Decision \cup {Nothing}
    BY DEF SavedInv
  <2>7. QED
    BY <2>1, <2>2, <2>4, <2>5, <2>6 DEF AgentTypeOK, CallStates, Statuses
<1>2. QED
  BY <1>1, LoopInvariant, PTL

\* No tool call shown to the model stays without a tool message, for every
\* batch size and however its batch is blocked, suspended or interrupted
\* (step.rs, resume.rs).
THEOREM ToolCallsArePaired == Spec => []PairedTranscript
<1>1. LoopInv => PairedTranscript
  BY DEF LoopInv, PipeInv, PairedTranscript
<1>2. QED
  BY <1>1, LoopInvariant, PTL

\* A tool runs at most once for the gate and once for each delivery of an
\* approval, the retries of a dispatch included, however decisions are repeated,
\* delayed or batched and wherever an execution fails (step.rs, resume.rs).
THEOREM RunsAreApproved == Spec => []RunsOnlyWhenApproved
<1>1. LoopInv => RunsOnlyWhenApproved
  <2> SUFFICES ASSUME LoopInv, NEW c \in Call PROVE hist.leave[c] >= 0
    BY DEF RunsOnlyWhenApproved
  <2>1. hist.leave[c] \in Int
    BY DEF LoopInv, TypeInv, Hists
  <2>2. /\ Cardinality(Approvals(channel, c)) \in Nat
        /\ Cardinality(Approvals(work, c)) \in Nat
    BY ApprovalsCount DEF LoopInv, TypeInv
  <2>3. hist.leave[c] >= One(c \in ToSet(loop.ready)) + One(calls[c].status = "Resuming")
              + Cardinality(Approvals(channel, c)) + Cardinality(Approvals(work, c))
    BY DEF LoopInv, LeaveInv
  <2>4. QED
    BY <2>1, <2>2, <2>3 DEF One
<1>2. QED
  BY <1>1, LoopInvariant, PTL

\* A run that came to its natural end and is done leaves no task running
\* behind it, whatever number of tasks its tools start (orchestrator.rs).
THEOREM TasksAreAwaited == Spec => []NoTaskLeftBehind
<1>1. LoopInv => NoTaskLeftBehind
  BY DEF LoopInv, TaskInv, NoTaskLeftBehind
<1>2. QED
  BY <1>1, LoopInvariant, PTL

\* Within one execution the model is called only when no tool call waits for
\* its decision or for its replay (wait_for_resume_or_cancel, resume.rs).
THEOREM DecisionsComeFirst == Spec => ModelWaitsForDecisions
<1> DEFINE Waits == Infer /\ ~loop.first =>
                       \A c \in Call : calls[c].status \notin {"Suspended", "Resuming"}
<1>1. LoopInv /\ [Next]_vars => [Waits]_vars
  BY DEF LoopInv, WaitInv, SuspendedCalls, Resuming, Infer
<1>2. [][Waits]_vars <=> ModelWaitsForDecisions
  BY DEF ModelWaitsForDecisions
<1> HIDE DEF Waits
<1>3. QED
  BY <1>1, <1>2, LoopInvariant, PTL DEF Spec

=============================================================================
