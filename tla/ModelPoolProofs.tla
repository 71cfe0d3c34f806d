-------------------------- MODULE ModelPoolProofs --------------------------
(***************************************************************************)
(* Theorems about ModelPool, for every set of members, callers and         *)
(* sessions and every limit.                                               *)
(*                                                                         *)
(* BlamedOnce: what keeps a second charge away is the entry of the stream  *)
(* attempt.  While a stream and its report are under way, the entry, if    *)
(* there is one, is the stream's own (OwnEntry), an open stream keeps it   *)
(* from being evicted (LiveIsOpen), and once a failure is charged it says  *)
(* so, unless it was evicted in between (FailureNoted).  The member charged *)
(* is the one of that entry, which is the stream's (Charging, AtMember).   *)
(***************************************************************************)
EXTENDS ModelPool, WellFoundedInduction, TLAPS

-----------------------------------------------------------------------------
(* The invariant.                                                          *)

Place == Members \cup {Nowhere}

CircuitType == [status: {"Closed", "Open", "HalfOpen"},
                failures: 0..Threshold, probes: 0..HalfOpenMax, cooled: BOOLEAN, leaked: BOOLEAN]

SessionType == [active: Place, switches: 0..MaxSwitches]

AttemptType == [known: BOOLEAN, active: Place, tried: SUBSET Members,
                failed: BOOLEAN, live: 0..1, ambiguous: BOOLEAN, lost: BOOLEAN]

CallType == [at: {"Idle", "Look", "Choose", "Check", "Calling", "Streaming", "Record", "Report",
                  "Drop", "Done"},
             mode: {"stream", "call"},
             why: {"start", "unavailable", "error", "Report", "Drop"},
             member: Place, charge: Place, mask: SUBSET Members, tried: SUBSET Members,
             err: {"transient", "quota", "permanent", "request", "cancelled"},
             keyed: BOOLEAN, open: BOOLEAN, retries: Nat, blamed: Seq(Members)]

\* A stream is under way, or what is left to do after it broke.
InStream(o) ==
    \/ o.at \in {"Streaming", "Record", "Report", "Drop"}
    \/ o.at \in {"Look", "Choose"} /\ o.why \in {"Report", "Drop"}

\* The driver's report is still to come.
Reporting(o) == o.at = "Report" \/ (o.at \in {"Look", "Choose"} /\ o.why = "Report")

\* A failure is being recorded.
Charging(o) == o.at = "Record" \/ (o.at \in {"Look", "Choose"} /\ o.why \in {"Report", "Drop"})

\* From the check on, a caller is at a member, and that is the one it charges.
AtMember(o) ==
    /\ o.at \in {"Check", "Calling"} \/ InStream(o) => o.member \in Members
    /\ Charging(o) => o.charge = o.member

\* An entry counts a live stream exactly while the stream filed under it is open.
LiveIsOpen(o, a) ==
    /\ o.open => InStream(o)
    /\ o.at = "Streaming" => o.open
    /\ o.open /\ o.keyed => a.known
    /\ a.live = IF o.open /\ o.keyed THEN 1 ELSE 0

\* The entry is that of the stream under way.
OwnEntry(o, a) == InStream(o) /\ a.known => o.keyed /\ a.active = o.member

\* Whoever is charged is the member of the call; a second charge is to come, or
\* has come, only if the entry has been evicted.
FailureNoted(o, a) ==
    /\ o.at \in {"Idle", "Check", "Calling", "Streaming", "Done"} => o.blamed = << >>
    /\ \A i \in DOMAIN o.blamed : o.blamed[i] = o.member
    /\ Len(o.blamed) > 1 => a.lost /\ ~o.open
    /\ o.at = "Record" =>
         /\ o.why \in {"Report", "Drop"}
         /\ o.why = "Report" => ~o.open
         /\ o.keyed => a.failed \/ a.lost
         /\ o.blamed # << >> => a.lost /\ ~o.open
    /\ Reporting(o) /\ o.blamed # << >> =>
         /\ ~o.open
         /\ o.keyed => a.failed \/ a.lost

CallOK(o, a) == AtMember(o) /\ LiveIsOpen(o, a) /\ OwnEntry(o, a) /\ FailureNoted(o, a)

TypeInv ==
    /\ circuit \in [Members -> CircuitType]
    /\ quarantined \subseteq Members
    /\ session \in [Sessions -> SessionType]
    /\ attempt \in [Callers -> AttemptType]
    /\ call \in [Callers -> CallType]

PoolInv ==
    /\ TypeInv
    /\ \A c \in Callers : CallOK(call[c], attempt[c]) /\ call[c].retries <= StreamRetries[c]

-----------------------------------------------------------------------------
(* The operators the steps are built from.                                 *)

Less == OpToRel(<, Nat)

\* The order of the natural numbers is well founded.
LEMMA LessFacts ==
    /\ IsWellFoundedOn(Less, Nat)
    /\ \A y, x \in Nat : y < x => <<y, x>> \in Less
<1>1. IsWellFoundedOn(Less, Nat)
  BY NatLessThanWellFounded, Zenon DEF Less
<1>2. \A y, x \in Nat : y < x => <<y, x>> \in Less
  BY DEF Less, OpToRel
<1> QED BY <1>1, <1>2

\* A set of ranks has a smallest one.
LEMMA SmallestRank ==
    ASSUME NEW T \in SUBSET Nat, T # {}
    PROVE  Min(T) \in T
<1>0. IsWellFoundedOn(Less, Nat) /\ T \subseteq Nat
  BY LessFacts
<1>1. PICK x \in T : \A y \in T : ~(<<y, x>> \in Less)
  BY <1>0, WFMin, Zenon
<1>2. \A y \in T : ~(y < x)
  BY <1>1, LessFacts
<1>3. \A y \in T : x <= y
  BY <1>2
<1> QED BY <1>3 DEF Min

\* best_by_score finds a member, one of the accepted if there is one.
LEMMA BestFacts ==
    ASSUME NEW s \in Sessions, NEW accepted
    PROVE  /\ Best(s, accepted) \in Place
           /\ accepted \cap Members # {} => Best(s, accepted) \in Members
<1> DEFINE ranks == {i \in DOMAIN Preference[s] : Preference[s][i] \in accepted}
<1>1. /\ Preference[s] \in Seq(Members)
      /\ Members = {Preference[s][i] : i \in DOMAIN Preference[s]}
  BY PoolAssumption DEF ToSet
<1>2. ranks \in SUBSET Nat
  BY <1>1
<1>3. Best(s, accepted) = IF ranks = {} THEN Nowhere ELSE Preference[s][Min(ranks)]
  BY DEF Best
<1>4. accepted \cap Members # {} => ranks # {}
  BY <1>1
<1>5. ranks # {} => Min(ranks) \in DOMAIN Preference[s]
  BY <1>2, SmallestRank
<1> HIDE DEF ranks
<1>6. ranks # {} => Preference[s][Min(ranks)] \in Members
  BY <1>1, <1>5
<1> QED BY <1>3, <1>4, <1>6 DEF Place

\* A session's home is a member, healthy or not.
LEMMA HomeFacts ==
    ASSUME NEW s \in Sessions, NEW healthy
    PROVE  Home(s, healthy) \in Members
<1>1. (Members \ Backups) \cap Members # {}
  BY PoolAssumption
<1>2. Best(s, Members \ Backups) \in Members
  BY <1>1, BestFacts
<1>3. (Members \ Backups) \cap healthy # {} => ((Members \ Backups) \cap healthy) \cap Members # {}
  OBVIOUS
<1>4. (Members \ Backups) \cap healthy # {} => Best(s, (Members \ Backups) \cap healthy) \in Members
  BY <1>3, BestFacts
<1> QED BY <1>2, <1>4 DEF Home

\* The circuits keep their types.
LEMMA CircuitFacts ==
    ASSUME circuit \in [Members -> CircuitType], NEW m
    PROVE  /\ CanPass(circuit[m]) /\ m \in Members => Admitted(m) \in [Members -> CircuitType]
           /\ Succeeded(m) \in [Members -> CircuitType]
           /\ Failed(m) \in [Members -> CircuitType]
           /\ Abandoned(m) \in [Members -> CircuitType]
           /\ Unheard(m) \in [Members -> CircuitType]
<1>0. Threshold \in Nat \ {0} /\ HalfOpenMax \in Nat \ {0}
  BY PoolAssumption
<1>p. 0 \in 0..HalfOpenMax /\ 1 \in 0..HalfOpenMax /\ 0 \in 0..Threshold
  BY <1>0
<1>1. ASSUME NEW r \in CircuitType
      PROVE  m \in Members => [circuit EXCEPT ![m] = r] \in [Members -> CircuitType]
  OBVIOUS
<1>2. CanPass(circuit[m]) /\ m \in Members => Admitted(m) \in [Members -> CircuitType]
  <2> SUFFICES ASSUME CanPass(circuit[m]), m \in Members PROVE Admitted(m) \in [Members -> CircuitType]
    OBVIOUS
  <2>1. circuit[m] \in CircuitType
    OBVIOUS
  <2> DEFINE r == CASE circuit[m].status = "Closed"   -> circuit[m]
                    [] circuit[m].status = "Open"     -> [circuit[m] EXCEPT !.status = "HalfOpen", !.probes = 1, !.leaked = FALSE]
                    [] circuit[m].status = "HalfOpen" -> [circuit[m] EXCEPT !.probes = @ + 1]
  <2>2. r \in CircuitType
    <3>1. CASE circuit[m].status = "Closed"
      BY <2>1, <3>1
    <3>2. CASE circuit[m].status = "Open"
      BY <1>p, <2>1, <3>2 DEF CircuitType
    <3>3. CASE circuit[m].status = "HalfOpen"
      <4>1. circuit[m].probes + 1 \in 0..HalfOpenMax
        BY <1>0, <2>1, <3>3 DEF CanPass, CircuitType
      <4> QED BY <2>1, <3>3, <4>1 DEF CircuitType
    <3> QED BY <2>1, <3>1, <3>2, <3>3 DEF CircuitType
  <2>3. Admitted(m) = [circuit EXCEPT ![m] = r]
    BY DEF Admitted
  <2> HIDE DEF r
  <2> QED BY <2>2, <2>3
<1>3. Succeeded(m) \in [Members -> CircuitType]
  <2>1. NewCircuit \in CircuitType
    BY <1>0 DEF NewCircuit, CircuitType
  <2> QED BY <2>1 DEF Succeeded
<1>4. Failed(m) \in [Members -> CircuitType]
  <2>1. CASE m \in Members
    <3> DEFINE n == circuit[m].failures + 1
               f == IF n > Threshold THEN Threshold ELSE n
               t == IF circuit[m].status = "HalfOpen" \/ n >= Threshold THEN "Open" ELSE circuit[m].status
               r == [circuit[m] EXCEPT !.failures = f, !.cooled = FALSE, !.status = t]
    <3>1. circuit[m] \in CircuitType
      BY <2>1
    <3>2. f \in 0..Threshold /\ t \in {"Closed", "Open", "HalfOpen"}
      BY <1>0, <3>1 DEF CircuitType
    <3>3. Failed(m) = [circuit EXCEPT ![m] = r]
      BY DEF Failed
    <3> HIDE DEF f, t
    <3>4. r \in CircuitType
      BY <3>1, <3>2 DEF CircuitType
    <3> QED BY <1>1, <2>1, <3>3, <3>4
  <2>2. CASE m \notin Members
    BY <2>2 DEF Failed
  <2> QED BY <2>1, <2>2
<1>5. Abandoned(m) \in [Members -> CircuitType]
  <2>1. CASE m \in Members
    <3> DEFINE r == [circuit[m] EXCEPT !.status = "Open", !.probes = 0, !.cooled = FALSE]
    <3>1. r \in CircuitType
      BY <1>p, <2>1 DEF CircuitType
    <3>2. Abandoned(m) = circuit \/ Abandoned(m) = [circuit EXCEPT ![m] = r]
      BY <2>1 DEF Abandoned
    <3> QED BY <1>1, <2>1, <3>1, <3>2
  <2>2. CASE m \notin Members
    BY <2>2 DEF Abandoned
  <2> QED BY <2>1, <2>2
<1>6. Unheard(m) \in [Members -> CircuitType]
  <2>1. CASE m \in Members
    <3> DEFINE b == circuit[m].leaked \/ circuit[m].status = "HalfOpen"
               r == [circuit[m] EXCEPT !.leaked = b]
    <3>1. b \in BOOLEAN
      OBVIOUS
    <3> HIDE DEF b
    <3>2. r \in CircuitType
      BY <2>1, <3>1 DEF CircuitType
    <3>3. Unheard(m) = [circuit EXCEPT ![m] = r]
      BY <2>1 DEF Unheard, b
    <3> HIDE DEF r
    <3> QED BY <1>1, <2>1, <3>2, <3>3
  <2>2. CASE m \notin Members
    BY <2>2 DEF Unheard
  <2> QED BY <2>1, <2>2
<1> QED BY <1>2, <1>3, <1>4, <1>5, <1>6

-----------------------------------------------------------------------------
(* Steps.                                                                  *)

Evicted == [NoAttempt EXCEPT !.lost = TRUE]

\* A step of caller c, which may evict the entry of another one without a live
\* stream.
LEMMA CallStep ==
    ASSUME PoolInv, NEW c \in Callers, NEW n \in CallType, NEW a \in AttemptType,
           call' = [call EXCEPT ![c] = n],
           attempt' \in [Callers -> AttemptType], attempt'[c] = a,
           \A x \in Callers \ {c} :
              attempt'[x] = attempt[x] \/ (attempt[x].live = 0 /\ attempt'[x] = Evicted),
           CallOK(n, a), n.retries <= StreamRetries[c],
           circuit' \in [Members -> CircuitType], quarantined' \subseteq Members,
           session' \in [Sessions -> SessionType]
    PROVE  PoolInv'
<1>1. TypeInv'
  BY DEF PoolInv, TypeInv
<1>2. call'[c] = n /\ \A x \in Callers \ {c} : call'[x] = call[x]
  BY DEF PoolInv, TypeInv
<1>3. Evicted.known = FALSE /\ Evicted.live = 0 /\ Evicted.lost = TRUE
  BY DEF Evicted, NoAttempt
<1>4. ASSUME NEW x \in Callers \ {c} PROVE CallOK(call'[x], attempt'[x])
  <2>1. CallOK(call[x], attempt[x]) /\ call'[x] = call[x] /\ call[x] \in CallType
    BY <1>2 DEF PoolInv, TypeInv
  <2>2. CASE attempt'[x] = attempt[x]
    BY <2>1, <2>2
  <2>3. CASE attempt[x].live = 0 /\ attempt'[x] = Evicted
    <3>1. ~(call[x].open /\ call[x].keyed)
      BY <2>1, <2>3 DEF CallOK, LiveIsOpen
    <3>2. LiveIsOpen(call[x], Evicted)
      BY <1>3, <2>1, <3>1 DEF CallOK, LiveIsOpen
    <3>3. OwnEntry(call[x], Evicted)
      BY <1>3 DEF OwnEntry
    <3>4. FailureNoted(call[x], Evicted)
      BY <1>3, <2>1 DEF CallOK, FailureNoted
    <3> QED BY <2>1, <2>3, <3>2, <3>3, <3>4 DEF CallOK
  <2> QED BY <2>2, <2>3
<1>5. \A x \in Callers : CallOK(call'[x], attempt'[x]) /\ call'[x].retries <= StreamRetries[x]
  BY <1>2, <1>4 DEF PoolInv
<1> QED BY <1>1, <1>5 DEF PoolInv

\* A step of caller c that leaves all entries alone.
LEMMA QuietStep ==
    ASSUME PoolInv, NEW c \in Callers, NEW n \in CallType,
           call' = [call EXCEPT ![c] = n], attempt' = attempt,
           CallOK(n, attempt[c]), n.retries <= StreamRetries[c],
           circuit' \in [Members -> CircuitType], quarantined' \subseteq Members,
           session' \in [Sessions -> SessionType]
    PROVE  PoolInv'
<1>1. attempt \in [Callers -> AttemptType] /\ attempt[c] \in AttemptType
  BY DEF PoolInv, TypeInv
<1> QED BY <1>1, CallStep

\* What the invariant says of one caller.
LEMMA CallFacts ==
    ASSUME PoolInv, NEW c \in Callers
    PROVE  /\ call \in [Callers -> CallType] /\ call[c] \in CallType
           /\ attempt \in [Callers -> AttemptType] /\ attempt[c] \in AttemptType
           /\ AtMember(call[c]) /\ LiveIsOpen(call[c], attempt[c]) /\ OwnEntry(call[c], attempt[c])
           /\ FailureNoted(call[c], attempt[c]) /\ CallOK(call[c], attempt[c])
           /\ call[c].retries <= StreamRetries[c] /\ call[c].retries \in Nat /\ StreamRetries[c] \in Nat
           /\ circuit \in [Members -> CircuitType] /\ quarantined \subseteq Members
           /\ session \in [Sessions -> SessionType]
           /\ SessionOf[c] \in Sessions
BY PoolAssumption DEF PoolInv, TypeInv, CallOK, CallType

\* Charging nobody is fine at any place but Record.
LEMMA Unblamed ==
    /\ << >> \in Seq(Members) /\ Len(<< >>) = 0
    /\ \A o, a : o.blamed = << >> /\ o.at # "Record" => FailureNoted(o, a)
BY DEF FailureNoted

\* A call that has returned, and one that has not begun, is in order.
LEMMA ReturnedFacts ==
    /\ Returned \in CallType /\ Returned.retries = 0 /\ NewCall \in CallType /\ NewCall.retries = 0
    /\ \A a : a.live = 0 => CallOK(Returned, a) /\ CallOK(NewCall, a)
<1>1. /\ Returned \in CallType /\ Returned.at = "Done" /\ Returned.retries = 0 /\ Returned.blamed = << >>
      /\ NewCall \in CallType /\ NewCall.at = "Idle" /\ NewCall.retries = 0 /\ NewCall.blamed = << >>
  BY Unblamed DEF Returned, NewCall, CallType, Place
<1>2. Returned.open = FALSE /\ NewCall.open = FALSE
  BY DEF Returned, NewCall
<1>3. ~InStream(Returned) /\ ~InStream(NewCall)
  BY <1>1 DEF InStream
<1>4. \A a : FailureNoted(Returned, a) /\ FailureNoted(NewCall, a)
  BY <1>1, Unblamed
<1> QED BY <1>1, <1>2, <1>3, <1>4 DEF CallOK, AtMember, Charging, LiveIsOpen, OwnEntry

\* The sessions' types.
LEMMA SessionFacts ==
    ASSUME session \in [Sessions -> SessionType], NEW s \in Sessions, NEW m \in Place
    PROVE  /\ [session EXCEPT ![s].active = m] \in [Sessions -> SessionType]
           /\ SwitchesRemain(s) => Moved(s, m) \in [Sessions -> SessionType]
           /\ [session EXCEPT ![s].switches = 0] \in [Sessions -> SessionType]
<1>0. MaxSwitches \in Nat /\ 0 \in 0..MaxSwitches
  BY PoolAssumption
<1>1. [session EXCEPT ![s].active = m] \in [Sessions -> SessionType]
  BY DEF SessionType
<1>2. [session EXCEPT ![s].switches = 0] \in [Sessions -> SessionType]
  BY <1>0 DEF SessionType
<1>3. ASSUME SwitchesRemain(s) PROVE Moved(s, m) \in [Sessions -> SessionType]
  <2>1. session[s].switches + 1 \in 0..MaxSwitches
    BY <1>0, <1>3 DEF SwitchesRemain, SessionType
  <2> DEFINE r == [session[s] EXCEPT !.active = m, !.switches = session[s].switches + 1]
  <2>2. r \in SessionType
    BY <2>1 DEF SessionType
  <2>3. Moved(s, m) = [session EXCEPT ![s] = r]
    BY DEF Moved, SessionType
  <2> QED BY <2>2, <2>3
<1> QED BY <1>1, <1>2, <1>3

\* A caller that is not in a stream and has charged nobody is in order.
LEMMA OutsideStream ==
    \A o, a : /\ ~InStream(o) /\ ~o.open /\ a.live = 0 /\ o.blamed = << >>
              /\ o.at \in {"Check", "Calling"} => o.member \in Members
              => CallOK(o, a)
<1> SUFFICES ASSUME NEW o, NEW a, ~InStream(o), ~o.open, a.live = 0, o.blamed = << >>,
                    o.at \in {"Check", "Calling"} => o.member \in Members
             PROVE  CallOK(o, a)
  OBVIOUS
<1>1. o.at # "Record"
  BY DEF InStream
<1>2. FailureNoted(o, a)
  BY <1>1, Unblamed
<1> QED BY <1>2 DEF CallOK, AtMember, Charging, LiveIsOpen, OwnEntry, InStream

\* Nobody has a stream live outside of one.
LEMMA NoStream ==
    ASSUME PoolInv, NEW c \in Callers, ~InStream(call[c])
    PROVE  ~call[c].open /\ attempt[c].live = 0
BY CallFacts DEF LiveIsOpen

\* A request arrives.
LEMMA StartStep == ASSUME PoolInv, NEW c \in Callers, Start(c) PROVE PoolInv'
<1>0. /\ call \in [Callers -> CallType] /\ call[c] \in CallType
      /\ FailureNoted(call[c], attempt[c])
      /\ call[c].retries <= StreamRetries[c]
  BY CallFacts
<1>1. PICK mode \in Modes[c] :
        /\ call[c].at = "Idle"
        /\ call' = [call EXCEPT ![c].at = "Look", ![c].why = "start", ![c].mode = mode]
        /\ UNCHANGED <<circuit, quarantined, session, attempt>>
  BY DEF Start
<1> DEFINE n == [call[c] EXCEPT !.at = "Look", !.why = "start", !.mode = mode]
<1>2. call' = [call EXCEPT ![c] = n]
  BY <1>0, <1>1
<1>3. mode \in {"stream", "call"}
  BY PoolAssumption
<1>4. /\ n \in CallType /\ n.at = "Look" /\ n.why = "start" /\ n.blamed = call[c].blamed
      /\ n.retries = call[c].retries
  BY <1>0, <1>3 DEF CallType
<1>5. n.open = call[c].open
  BY <1>0 DEF CallType
<1> HIDE DEF n
<1>6. ~call[c].open /\ attempt[c].live = 0
  BY <1>1, NoStream DEF InStream
<1>7. n.blamed = << >>
  BY <1>0, <1>1, <1>4 DEF FailureNoted
<1>8. CallOK(n, attempt[c])
  BY <1>4, <1>5, <1>6, <1>7, OutsideStream DEF InStream
<1> QED BY <1>0, <1>1, <1>2, <1>4, <1>8, QuietStep, CallFacts

\* A caller looks at the members' health: nothing else about it changes.
LEMMA LookStep == ASSUME PoolInv, NEW c \in Callers, Look(c) PROVE PoolInv'
<1>0. /\ call \in [Callers -> CallType] /\ call[c] \in CallType /\ CallOK(call[c], attempt[c])
      /\ call[c].retries <= StreamRetries[c]
  BY CallFacts
<1> DEFINE mask == IF call[c].why = "start" THEN Healthy ELSE Healthy \ call[c].tried
           n == [call[c] EXCEPT !.at = "Choose", !.mask = mask]
<1>1. /\ call[c].at = "Look" /\ call' = [call EXCEPT ![c] = n]
      /\ UNCHANGED <<circuit, quarantined, session, attempt>>
  BY <1>0 DEF Look
<1>2. mask \in SUBSET Members
  BY DEF Healthy
<1> HIDE DEF mask
<1>3. /\ n \in CallType /\ n.at = "Choose" /\ n.why = call[c].why /\ n.blamed = call[c].blamed
      /\ n.retries = call[c].retries /\ n.member = call[c].member /\ n.charge = call[c].charge
  BY <1>0, <1>2 DEF CallType
<1>4. n.open = call[c].open /\ n.keyed = call[c].keyed
  BY <1>0 DEF CallType
<1> HIDE DEF n
<1>5. (InStream(n) <=> InStream(call[c])) /\ (Reporting(n) <=> Reporting(call[c]))
  BY <1>1, <1>3 DEF InStream, Reporting
<1>6. LiveIsOpen(n, attempt[c]) /\ AtMember(n)
  BY <1>0, <1>1, <1>3, <1>4, <1>5 DEF CallOK, LiveIsOpen, AtMember, Charging
<1>7. OwnEntry(n, attempt[c])
  BY <1>0, <1>3, <1>4, <1>5 DEF CallOK, OwnEntry
<1>8. FailureNoted(n, attempt[c])
  BY <1>0, <1>1, <1>3, <1>4, <1>5 DEF CallOK, FailureNoted
<1>9. CallOK(n, attempt[c])
  BY <1>6, <1>7, <1>8 DEF CallOK
<1> QED BY <1>0, <1>1, <1>3, <1>9, QuietStep, CallFacts

\* A caller that is in no stream turns to a member.
LEMMA TurnedStep ==
    ASSUME PoolInv, NEW c \in Callers, ~InStream(call[c]), NEW m \in Members, NEW known \in SUBSET Members,
           call' = Turned(c, m, known), session' \in [Sessions -> SessionType],
           UNCHANGED <<circuit, quarantined, attempt>>
    PROVE  PoolInv'
<1>0. call \in [Callers -> CallType] /\ call[c] \in CallType /\ call[c].retries <= StreamRetries[c]
  BY CallFacts
<1> DEFINE tried == known \cup {m}
           n == [call[c] EXCEPT !.at = "Check", !.member = m, !.tried = tried,
                   !.mask = {}, !.why = "start", !.err = "transient", !.blamed = << >>]
<1>1. call' = [call EXCEPT ![c] = n]
  BY <1>0 DEF Turned
<1>2. tried \in SUBSET Members /\ m \in Place /\ {} \in SUBSET Members
  BY DEF Place
<1> HIDE DEF tried
<1>3. /\ n \in CallType /\ n.at = "Check" /\ n.member = m /\ n.blamed = << >> /\ n.retries = call[c].retries
  BY <1>0, <1>2, Unblamed DEF CallType
<1>4. n.open = call[c].open
  BY <1>0 DEF CallType
<1> HIDE DEF n
<1>5. CallOK(n, attempt[c])
  BY <1>3, <1>4, NoStream, OutsideStream DEF InStream
<1> QED BY <1>0, <1>1, <1>3, <1>5, QuietStep, CallFacts

\* What the entry of a request has tried are members.
LEMMA TriedFacts ==
    ASSUME PoolInv, NEW c \in Callers
    PROVE  attempt[c].tried \in SUBSET Members /\ call[c].tried \in SUBSET Members
           /\ attempt[c].active \in Place
BY CallFacts DEF AttemptType, CallType

\* select_active
LEMMA ChooseActiveStep == ASSUME PoolInv, NEW c \in Callers, ChooseActive(c) PROVE PoolInv'
<1> DEFINE s == SessionOf[c]
           now == session[s].active
           next == Best(s, call[c].mask \ {now})
           home == Home(s, call[c].mask)
<1>0. s \in Sessions /\ session \in [Sessions -> SessionType]
  BY CallFacts
<1>1. now \in Place /\ home \in Members /\ next \in Place
  BY <1>0, HomeFacts, BestFacts DEF SessionType
<1>2. home \in Place /\ (now # Nowhere => now \in Members) /\ (next # Nowhere => next \in Members)
  BY <1>1 DEF Place
<1>3. /\ call[c].at = "Choose" /\ call[c].why = "start"
      /\ UNCHANGED <<circuit, quarantined, attempt>>
      /\ \/ /\ session' = [session EXCEPT ![s].active = home]
            /\ call' = Turned(c, home, attempt[c].tried)
         \/ /\ SwitchesRemain(s) /\ next # Nowhere
            /\ session' = Moved(s, next)
            /\ call' = Turned(c, next, attempt[c].tried)
         \/ /\ now # Nowhere
            /\ session' = session
            /\ call' = Turned(c, now, attempt[c].tried)
  BY DEF ChooseActive
<1>4. ~InStream(call[c])
  BY <1>3 DEF InStream
<1> HIDE DEF s, now, next, home
<1>5. CASE session' = [session EXCEPT ![s].active = home] /\ call' = Turned(c, home, attempt[c].tried)
  <2>1. session' \in [Sessions -> SessionType]
    BY <1>0, <1>2, <1>5, SessionFacts
  <2> QED BY <1>1, <1>3, <1>4, <1>5, <2>1, TriedFacts, TurnedStep
<1>6. CASE /\ SwitchesRemain(s) /\ next # Nowhere
           /\ session' = Moved(s, next)
           /\ call' = Turned(c, next, attempt[c].tried)
  <2>1. session' \in [Sessions -> SessionType]
    BY <1>0, <1>1, <1>6, SessionFacts
  <2> QED BY <1>2, <1>3, <1>4, <1>6, <2>1, TriedFacts, TurnedStep
<1>7. CASE now # Nowhere /\ session' = session /\ call' = Turned(c, now, attempt[c].tried)
  BY <1>0, <1>2, <1>3, <1>4, <1>7, TriedFacts, TurnedStep
<1> QED BY <1>3, <1>5, <1>6, <1>7

\* A fail-over finds a member and counts a switch that is left, or does nothing.
LEMMA ShiftFacts ==
    ASSUME PoolInv, NEW c \in Callers, ShiftSession(c, Found(c))
    PROVE  Found(c) \in Place /\ session' \in [Sessions -> SessionType]
<1> DEFINE s == SessionOf[c]
           now == session[s].active
<1>0. s \in Sessions /\ session \in [Sessions -> SessionType]
  BY CallFacts
<1>1. now \in Place
  BY <1>0 DEF SessionType
<1>2. Found(c) \in Place
  BY <1>0, <1>1, BestFacts DEF Found, Place
<1>3. CASE session' = session
  BY <1>0, <1>2, <1>3
<1>4. CASE session' = Moved(s, Found(c)) /\ Found(c) # Nowhere /\ now = Left(c)
  <2>1. SwitchesRemain(s)
    BY <1>4 DEF Found
  <2> QED BY <1>0, <1>2, <1>4, <2>1, SessionFacts
<1> QED BY <1>3, <1>4 DEF ShiftSession

\* next_on_error, next_on_unavailable
LEMMA ChooseNextStep == ASSUME PoolInv, NEW c \in Callers, ChooseNext(c) PROVE PoolInv'
<1>1. /\ call[c].at = "Choose" /\ call[c].why \in {"unavailable", "error"}
      /\ UNCHANGED <<circuit, quarantined, attempt>>
      /\ call' = IF Found(c) = Nowhere THEN [call EXCEPT ![c] = Returned]
                 ELSE Turned(c, Found(c), call[c].tried \cup attempt[c].tried)
      /\ Found(c) \in Place /\ session' \in [Sessions -> SessionType]
  BY ShiftFacts DEF ChooseNext
<1>2. ~InStream(call[c])
  BY <1>1 DEF InStream
<1>3. CASE call' = [call EXCEPT ![c] = Returned]
  <2>1. CallOK(Returned, attempt[c])
    BY <1>2, NoStream, ReturnedFacts
  <2>2. Returned.retries <= StreamRetries[c]
    BY CallFacts, ReturnedFacts
  <2> QED BY <1>1, <1>3, <2>1, <2>2, ReturnedFacts, QuietStep, CallFacts
<1>4. CASE Found(c) # Nowhere /\ call' = Turned(c, Found(c), call[c].tried \cup attempt[c].tried)
  <2>1. Found(c) \in Members /\ call[c].tried \cup attempt[c].tried \in SUBSET Members
    BY <1>1, <1>4, TriedFacts DEF Place
  <2> QED BY <1>1, <1>2, <1>4, <2>1, TurnedStep
<1> QED BY <1>1, <1>3, <1>4

\* After a broken stream only the session moves.
LEMMA ChooseLaterStep == ASSUME PoolInv, NEW c \in Callers, ChooseLater(c) PROVE PoolInv'
<1>0. /\ call \in [Callers -> CallType] /\ call[c] \in CallType /\ CallOK(call[c], attempt[c])
      /\ call[c].retries <= StreamRetries[c]
  BY CallFacts
<1> DEFINE n == [call[c] EXCEPT !.at = call[c].why, !.mask = {}, !.tried = {}]
<1>1. /\ call[c].at = "Choose" /\ call[c].why \in {"Report", "Drop"}
      /\ call' = [call EXCEPT ![c] = n]
      /\ UNCHANGED <<circuit, quarantined, attempt>>
  BY <1>0 DEF ChooseLater
<1>2. session' \in [Sessions -> SessionType]
  BY ShiftFacts DEF ChooseLater
<1>3. /\ n \in CallType /\ n.at = call[c].why /\ n.why = call[c].why /\ n.blamed = call[c].blamed
      /\ n.retries = call[c].retries /\ n.member = call[c].member /\ n.charge = call[c].charge
  BY <1>0, <1>1 DEF CallType
<1>4. n.open = call[c].open /\ n.keyed = call[c].keyed
  BY <1>0 DEF CallType
<1> HIDE DEF n
<1>5. InStream(n) /\ InStream(call[c]) /\ (Reporting(n) <=> Reporting(call[c]))
  BY <1>1, <1>3 DEF InStream, Reporting
<1>6. LiveIsOpen(n, attempt[c]) /\ AtMember(n)
  BY <1>0, <1>1, <1>3, <1>4, <1>5 DEF CallOK, LiveIsOpen, AtMember, Charging
<1>7. OwnEntry(n, attempt[c])
  BY <1>0, <1>3, <1>4, <1>5 DEF CallOK, OwnEntry
<1>8. FailureNoted(n, attempt[c])
  BY <1>0, <1>1, <1>3, <1>4, <1>5 DEF CallOK, FailureNoted
<1>9. CallOK(n, attempt[c])
  BY <1>6, <1>7, <1>8 DEF CallOK
<1> QED BY <1>0, <1>1, <1>2, <1>3, <1>9, QuietStep, CallFacts

\* check_member admits the request, or does not.
LEMMA CheckStep == ASSUME PoolInv, NEW c \in Callers, Check(c) \/ CheckFails(c) PROVE PoolInv'
<1>0. /\ call \in [Callers -> CallType] /\ call[c] \in CallType /\ CallOK(call[c], attempt[c])
      /\ call[c].retries <= StreamRetries[c]
      /\ circuit \in [Members -> CircuitType]
  BY CallFacts
<1> DEFINE n == [call[c] EXCEPT !.at = "Calling"]
           r == [call[c] EXCEPT !.at = "Look", !.why = "unavailable"]
<1>1. /\ call[c].at = "Check" /\ UNCHANGED <<quarantined, session, attempt>>
      /\ \/ /\ call' = [call EXCEPT ![c] = n]
            /\ CanPass(circuit[call[c].member]) /\ circuit' = Admitted(call[c].member)
         \/ call' = [call EXCEPT ![c] = r] /\ circuit' = circuit
  BY <1>0 DEF Check, CheckFails
<1>2. /\ n \in CallType /\ n.at = "Calling" /\ n.blamed = call[c].blamed
      /\ n.retries = call[c].retries /\ n.member = call[c].member /\ n.charge = call[c].charge
      /\ r \in CallType /\ r.at = "Look" /\ r.why = "unavailable" /\ r.blamed = call[c].blamed
      /\ r.retries = call[c].retries /\ r.member = call[c].member
  BY <1>0 DEF CallType
<1>3. n.open = call[c].open /\ r.open = call[c].open
  BY <1>0 DEF CallType
<1> HIDE DEF n, r
<1>4. ~InStream(call[c]) /\ call[c].member \in Members /\ call[c].blamed = << >>
  BY <1>0, <1>1 DEF CallOK, InStream, AtMember, Charging, FailureNoted
<1>5. CallOK(n, attempt[c]) /\ CallOK(r, attempt[c])
  BY <1>2, <1>3, <1>4, NoStream, OutsideStream DEF InStream
<1>6. circuit' \in [Members -> CircuitType]
  BY <1>0, <1>1, <1>4, CircuitFacts
<1> QED BY <1>0, <1>1, <1>2, <1>5, <1>6, QuietStep, CallFacts

\* What recording an outcome does to circuits and sessions.
LEMMA OutcomeFacts ==
    ASSUME PoolInv, NEW c \in Callers
    PROVE  /\ RecordSuccess(c) => /\ circuit' \in [Members -> CircuitType]
                                  /\ session' \in [Sessions -> SessionType]
           /\ \A m \in Members : \A k : RecordFailure(m, k) => /\ circuit' \in [Members -> CircuitType]
                                                               /\ quarantined' \subseteq Members
<1>1. /\ circuit \in [Members -> CircuitType] /\ session \in [Sessions -> SessionType]
      /\ quarantined \subseteq Members /\ SessionOf[c] \in Sessions
  BY CallFacts
<1>2. Nowhere \in Place
  BY DEF Place
<1>3. [session EXCEPT ![SessionOf[c]].switches = 0] \in [Sessions -> SessionType]
  BY <1>1, <1>2, SessionFacts
<1>4. Succeeded(call[c].member) \in [Members -> CircuitType]
  BY <1>1, CircuitFacts
<1>5. \A m : Failed(m) \in [Members -> CircuitType]
  BY <1>1, CircuitFacts
<1>6. \A m : Unheard(m) \in [Members -> CircuitType]
  BY <1>1, CircuitFacts
<1> QED BY <1>1, <1>3, <1>4, <1>5, <1>6 DEF RecordSuccess, RecordFailure

\* execute returns.
LEMMA AnsweredStep == ASSUME PoolInv, NEW c \in Callers, Answered(c) PROVE PoolInv'
<1>1. /\ call[c].at = "Calling" /\ call' = [call EXCEPT ![c] = Returned]
      /\ UNCHANGED <<quarantined, attempt>> /\ RecordSuccess(c)
  BY DEF Answered
<1>2. ~InStream(call[c])
  BY <1>1 DEF InStream
<1>3. CallOK(Returned, attempt[c])
  BY <1>2, NoStream, ReturnedFacts
<1>4. Returned.retries <= StreamRetries[c]
  BY CallFacts, ReturnedFacts
<1>5. /\ circuit' \in [Members -> CircuitType] /\ session' \in [Sessions -> SessionType]
      /\ quarantined' \subseteq Members
  BY <1>1, OutcomeFacts, CallFacts
<1> QED BY <1>1, <1>3, <1>4, <1>5, ReturnedFacts, QuietStep

\* The call's future is dropped.
LEMMA DropCallStep == ASSUME PoolInv, NEW c \in Callers, DropCall(c) PROVE PoolInv'
<1>1. /\ call[c].at = "Calling" /\ call' = [call EXCEPT ![c] = Returned]
      /\ circuit' = Unheard(call[c].member) /\ UNCHANGED <<quarantined, session, attempt>>
  BY DEF DropCall
<1>2. CallOK(Returned, attempt[c])
  BY <1>1, NoStream, ReturnedFacts DEF InStream
<1>3. Returned.retries <= StreamRetries[c]
  BY CallFacts, ReturnedFacts
<1>4. /\ circuit' \in [Members -> CircuitType] /\ session' \in [Sessions -> SessionType]
      /\ quarantined' \subseteq Members
  BY <1>1, CircuitFacts, CallFacts
<1> QED BY <1>1, <1>2, <1>3, <1>4, ReturnedFacts, QuietStep

\* Filing an entry evicts at most one without a live stream.
LEMMA FiledFacts ==
    ASSUME PoolInv, NEW c \in Callers, NEW v \in Callers, MakeRoom(c, v), NEW entry \in AttemptType,
           attempt' = FiledAs(c, v, entry)
    PROVE  /\ attempt' \in [Callers -> AttemptType] /\ attempt'[c] = entry
           /\ \A x \in Callers \ {c} :
                attempt'[x] = attempt[x] \/ (attempt[x].live = 0 /\ attempt'[x] = Evicted)
           /\ CanFile(c)
<1>1. Evicted \in AttemptType
  <2>1. 0 \in 0..1 /\ Nowhere \in Place /\ {} \in SUBSET Members
    BY DEF Place
  <2> QED BY <2>1 DEF Evicted, NoAttempt, AttemptType
<1>2. attempt' = [x \in Callers |-> IF x = c THEN entry ELSE IF x = v THEN Evicted ELSE attempt[x]]
  BY DEF FiledAs, Evicted
<1>3. v # c => attempt[v].live = 0
  BY DEF MakeRoom, Evictable
<1>4. CanFile(c)
  BY DEF MakeRoom, CanFile
<1> QED BY <1>1, <1>2, <1>3, <1>4, CallFacts

\* A stream opens: its entry is filed, unless there is no room for it.
LEMMA OpenedStep == ASSUME PoolInv, NEW c \in Callers, Opened(c) PROVE PoolInv'
<1>0. /\ call \in [Callers -> CallType] /\ call[c] \in CallType /\ CallOK(call[c], attempt[c])
      /\ call[c].retries <= StreamRetries[c]
      /\ attempt \in [Callers -> AttemptType] /\ attempt[c] \in AttemptType
  BY CallFacts
<1> DEFINE a == attempt[c]
           m == call[c].member
           tried == a.tried \cup {m}
           ambiguous == a.ambiguous \/ a.live > 0
           entry == [known |-> TRUE, active |-> m, tried |-> tried, failed |-> FALSE,
                     live |-> a.live + 1, ambiguous |-> ambiguous, lost |-> FALSE]
           n == [call[c] EXCEPT !.at = "Streaming", !.open = TRUE, !.keyed = CanFile(c), !.tried = {}]
<1>1. /\ call[c].at = "Calling"
      /\ \/ \E v \in Callers : MakeRoom(c, v) /\ attempt' = FiledAs(c, v, entry)
         \/ ~CanFile(c) /\ attempt' = attempt
      /\ call' = [call EXCEPT ![c] = n]
      /\ UNCHANGED <<circuit, quarantined, session>>
  BY <1>0 DEF Opened
<1>2. m \in Members /\ ~call[c].open /\ a.live = 0 /\ call[c].blamed = << >>
  BY <1>0, <1>1, NoStream DEF CallOK, InStream, AtMember, Charging, FailureNoted
<1>3. tried \in SUBSET Members /\ m \in Place /\ a.live + 1 = 1 /\ 1 \in 0..1
  BY <1>2, TriedFacts DEF Place
<1>4. ambiguous \in BOOLEAN
  OBVIOUS
<1> HIDE DEF tried, ambiguous
<1>5. /\ entry \in AttemptType /\ entry.active = m /\ entry.live = 1
  BY <1>3, <1>4 DEF AttemptType
<1>6. entry.known = TRUE /\ entry.failed = FALSE
  OBVIOUS
<1>7. CanFile(c) \in BOOLEAN
  BY DEF CanFile, HasRoom
<1>8. /\ n \in CallType /\ n.at = "Streaming" /\ n.blamed = << >> /\ n.member = m
      /\ n.retries = call[c].retries
  BY <1>0, <1>2, <1>7 DEF CallType
<1>9. n.open /\ (n.keyed <=> CanFile(c))
  BY <1>0, <1>7 DEF CallType
<1> HIDE DEF n, entry
<1>10. InStream(n) /\ AtMember(n) /\ \A e : FailureNoted(n, e)
  BY <1>2, <1>8, Unblamed DEF InStream, AtMember, Charging
<1>11. CASE \E v \in Callers : MakeRoom(c, v) /\ attempt' = FiledAs(c, v, entry)
  <2>1. PICK v \in Callers : MakeRoom(c, v) /\ attempt' = FiledAs(c, v, entry)
    BY <1>11
  <2>2. /\ attempt' \in [Callers -> AttemptType] /\ attempt'[c] = entry
        /\ \A x \in Callers \ {c} :
             attempt'[x] = attempt[x] \/ (attempt[x].live = 0 /\ attempt'[x] = Evicted)
        /\ CanFile(c)
    BY <1>5, <2>1, FiledFacts
  <2>3. CallOK(n, entry)
    BY <1>5, <1>6, <1>8, <1>9, <1>10, <2>2 DEF CallOK, LiveIsOpen, OwnEntry
  <2> QED BY <1>0, <1>1, <1>5, <1>8, <2>2, <2>3, CallStep, CallFacts
<1>12. CASE ~CanFile(c) /\ attempt' = attempt
  <2>1. ~a.known
    BY <1>12 DEF CanFile, HasRoom, Filed
  <2>2. CallOK(n, attempt[c])
    BY <1>2, <1>8, <1>9, <1>10, <1>12, <2>1 DEF CallOK, LiveIsOpen, OwnEntry
  <2> QED BY <1>0, <1>1, <1>8, <1>12, <2>2, QuietStep, CallFacts
<1> QED BY <1>1, <1>11, <1>12

\* A step of caller c that files an entry for it, or does not.
LEMMA FilingStep ==
    ASSUME PoolInv, NEW c \in Callers, NEW n \in CallType, NEW entry \in AttemptType,
           call' = [call EXCEPT ![c] = n],
           \/ \E v \in Callers : MakeRoom(c, v) /\ attempt' = FiledAs(c, v, entry)
           \/ attempt' = attempt,
           CallOK(n, entry), CallOK(n, attempt[c]), n.retries <= StreamRetries[c],
           circuit' \in [Members -> CircuitType], quarantined' \subseteq Members,
           session' \in [Sessions -> SessionType]
    PROVE  PoolInv'
<1>1. CASE \E v \in Callers : MakeRoom(c, v) /\ attempt' = FiledAs(c, v, entry)
  <2>1. PICK v \in Callers : MakeRoom(c, v) /\ attempt' = FiledAs(c, v, entry)
    BY <1>1
  <2>2. /\ attempt' \in [Callers -> AttemptType] /\ attempt'[c] = entry
        /\ \A x \in Callers \ {c} :
             attempt'[x] = attempt[x] \/ (attempt[x].live = 0 /\ attempt'[x] = Evicted)
    BY <2>1, FiledFacts
  <2> QED BY <2>2, CallStep
<1>2. CASE attempt' = attempt
  BY <1>2, QuietStep
<1> QED BY <1>1, <1>2

\* The call, or the opening of the stream, fails: the member is charged once.
LEMMA CallFailsStep == ASSUME PoolInv, NEW c \in Callers, NEW k, CallFails(c, k) PROVE PoolInv'
<1>0. /\ call \in [Callers -> CallType] /\ call[c] \in CallType /\ CallOK(call[c], attempt[c])
      /\ call[c].retries <= StreamRetries[c]
      /\ attempt \in [Callers -> AttemptType] /\ attempt[c] \in AttemptType
  BY CallFacts
<1> DEFINE a == attempt[c]
           m == call[c].member
           tried == a.tried \cup {m}
           blamed == Append(call[c].blamed, m)
           entry == [a EXCEPT !.known = TRUE, !.active = m, !.tried = tried, !.failed = TRUE]
           n == [call[c] EXCEPT !.at = "Look", !.why = "error", !.blamed = blamed]
<1>1. /\ call[c].at = "Calling" /\ RecordFailure(m, k)
      /\ \/ \E v \in Callers : MakeRoom(c, v) /\ attempt' = FiledAs(c, v, entry)
         \/ attempt' = attempt
      /\ call' = [call EXCEPT ![c] = n] \/ call' = [call EXCEPT ![c] = Returned]
      /\ UNCHANGED session
  BY <1>0 DEF CallFails, Blames
<1>2. m \in Members /\ ~call[c].open /\ a.live = 0 /\ call[c].blamed = << >>
  BY <1>0, <1>1, NoStream DEF CallOK, InStream, AtMember, Charging, FailureNoted
<1>3. tried \in SUBSET Members /\ m \in Place
  BY <1>2, TriedFacts DEF Place
<1>4. blamed = <<m>> /\ blamed \in Seq(Members) /\ Len(blamed) = 1 /\ blamed[1] = m
  BY <1>2
<1> HIDE DEF tried, blamed
<1>5. entry \in AttemptType /\ entry.live = 0
  BY <1>0, <1>2, <1>3 DEF AttemptType
<1>6. /\ n \in CallType /\ n.at = "Look" /\ n.why = "error" /\ n.blamed = blamed /\ n.member = m
      /\ n.retries = call[c].retries
  BY <1>0, <1>4 DEF CallType
<1>7. n.open = call[c].open
  BY <1>0 DEF CallType
<1> HIDE DEF n, entry
<1>8. ~InStream(n) /\ ~Reporting(n)
  BY <1>6 DEF InStream, Reporting
<1>9. \A e : FailureNoted(n, e)
  BY <1>4, <1>6, <1>8 DEF FailureNoted
<1>10. \A e : e.live = 0 => CallOK(n, e)
  BY <1>2, <1>6, <1>7, <1>8, <1>9 DEF CallOK, AtMember, Charging, LiveIsOpen, OwnEntry
<1>11. circuit' \in [Members -> CircuitType] /\ quarantined' \subseteq Members /\ session' \in [Sessions -> SessionType]
  BY <1>1, <1>2, OutcomeFacts, CallFacts
<1>12. CASE call' = [call EXCEPT ![c] = n]
  BY <1>0, <1>1, <1>2, <1>5, <1>6, <1>10, <1>11, <1>12, FilingStep
<1>13. CASE call' = [call EXCEPT ![c] = Returned]
  <2>1. Returned.retries <= StreamRetries[c]
    BY CallFacts, ReturnedFacts
  <2>2. CallOK(Returned, entry) /\ CallOK(Returned, attempt[c])
    BY <1>2, <1>5, ReturnedFacts
  <2> QED BY <1>1, <1>5, <1>11, <1>13, <2>1, <2>2, ReturnedFacts, FilingStep
<1> QED BY <1>1, <1>12, <1>13

\* A caller's own entry is written, or none.
LEMMA OwnEntryStep ==
    ASSUME PoolInv, NEW c \in Callers, NEW n \in CallType, NEW entry \in AttemptType,
           call' = [call EXCEPT ![c] = n], attempt' = [attempt EXCEPT ![c] = entry],
           CallOK(n, entry), n.retries <= StreamRetries[c],
           circuit' \in [Members -> CircuitType], quarantined' \subseteq Members,
           session' \in [Sessions -> SessionType]
    PROVE  PoolInv'
<1>1. /\ attempt' \in [Callers -> AttemptType] /\ attempt'[c] = entry
      /\ \A x \in Callers \ {c} : attempt'[x] = attempt[x]
  BY CallFacts
<1> QED BY <1>1, CallStep

\* An entry is removed, or its stream's end is counted.
LEMMA EntryFacts ==
    ASSUME PoolInv, NEW c \in Callers
    PROVE  /\ NoAttempt \in AttemptType /\ NoAttempt.live = 0 /\ ~NoAttempt.known
           /\ attempt[c].live = 1 => /\ [attempt[c] EXCEPT !.live = @ - 1] \in AttemptType
                                     /\ [attempt[c] EXCEPT !.live = @ - 1].live = 0
<1>1. attempt[c] \in AttemptType
  BY CallFacts
<1>2. 0 \in 0..1 /\ 1 - 1 = 0 /\ Nowhere \in Place /\ {} \in SUBSET Members
  BY DEF Place
<1>3. NoAttempt \in AttemptType /\ NoAttempt.live = 0
  BY <1>2 DEF NoAttempt, AttemptType
<1>4. NoAttempt.known = FALSE
  BY DEF NoAttempt
<1>5. ASSUME attempt[c].live = 1
      PROVE  /\ [attempt[c] EXCEPT !.live = @ - 1] \in AttemptType
             /\ [attempt[c] EXCEPT !.live = @ - 1].live = 0
  <2>1. [attempt[c] EXCEPT !.live = @ - 1] = [attempt[c] EXCEPT !.live = 0]
    BY <1>2, <1>5
  <2>2. [attempt[c] EXCEPT !.live = 0] \in AttemptType /\ [attempt[c] EXCEPT !.live = 0].live = 0
    BY <1>1, <1>2 DEF AttemptType
  <2> QED BY <2>1, <2>2
<1> QED BY <1>3, <1>4, <1>5

\* record_stream_attempt_success
LEMMA StreamEndsStep == ASSUME PoolInv, NEW c \in Callers, StreamEnds(c) PROVE PoolInv'
<1>0. /\ call \in [Callers -> CallType] /\ call[c] \in CallType /\ CallOK(call[c], attempt[c])
      /\ attempt \in [Callers -> AttemptType] /\ attempt[c] \in AttemptType
  BY CallFacts
<1> DEFINE a == attempt[c]
           left == [a EXCEPT !.live = @ - 1]
<1>1. /\ call[c].at = "Streaming"
      /\ \/ ~call[c].keyed /\ attempt' = attempt
         \/ attempt' = [attempt EXCEPT ![c] = NoAttempt]
         \/ call[c].keyed /\ attempt' = [attempt EXCEPT ![c] = left]
      /\ UNCHANGED <<circuit, session>> \/ RecordSuccess(c)
      /\ call' = [call EXCEPT ![c] = Returned]
      /\ UNCHANGED quarantined
  BY <1>0 DEF StreamEnds
<1>2. a.live = IF call[c].keyed THEN 1 ELSE 0
  BY <1>0, <1>1 DEF CallOK, LiveIsOpen
<1>3. circuit' \in [Members -> CircuitType] /\ session' \in [Sessions -> SessionType] /\ quarantined' \subseteq Members
  BY <1>1, OutcomeFacts, CallFacts
<1>4. Returned.retries <= StreamRetries[c]
  BY CallFacts, ReturnedFacts
<1>5. CASE ~call[c].keyed /\ attempt' = attempt
  <2>1. CallOK(Returned, attempt[c])
    BY <1>2, <1>5, ReturnedFacts
  <2> QED BY <1>1, <1>3, <1>4, <1>5, <2>1, ReturnedFacts, QuietStep
<1>6. CASE attempt' = [attempt EXCEPT ![c] = NoAttempt]
  <2>1. CallOK(Returned, NoAttempt)
    BY EntryFacts, ReturnedFacts
  <2> QED BY <1>1, <1>3, <1>4, <1>6, <2>1, ReturnedFacts, EntryFacts, OwnEntryStep
<1>7. CASE call[c].keyed /\ attempt' = [attempt EXCEPT ![c] = left]
  <2>1. left \in AttemptType /\ left.live = 0
    BY <1>2, <1>7, EntryFacts
  <2> HIDE DEF left
  <2>2. CallOK(Returned, left)
    BY <2>1, ReturnedFacts
  <2> QED BY <1>1, <1>3, <1>4, <1>7, <2>1, <2>2, ReturnedFacts, OwnEntryStep
<1> QED BY <1>1, <1>5, <1>6, <1>7

\* PoolObservedStream notes the failure of its stream, which is over with it.
LEMMA StreamFailsStep == ASSUME PoolInv, NEW c \in Callers, NEW k \in Kinds, StreamFails(c, k) PROVE PoolInv'
<1>0. /\ call \in [Callers -> CallType] /\ call[c] \in CallType /\ CallOK(call[c], attempt[c])
      /\ call[c].retries <= StreamRetries[c]
      /\ attempt \in [Callers -> AttemptType] /\ attempt[c] \in AttemptType
  BY CallFacts
<1> DEFINE a == attempt[c]
           m == call[c].member
           tried == a.tried \cup {m}
           ended == [a EXCEPT !.live = @ - 1]
           entry == [ended EXCEPT !.failed = TRUE, !.tried = @ \cup {m}]
           first == ~call[c].keyed \/ (Current(c, m) /\ ~a.failed)
           at == IF first THEN "Record" ELSE "Report"
           n == [call[c] EXCEPT !.at = at, !.why = "Report", !.err = k, !.charge = m, !.open = FALSE]
<1>1. /\ call[c].at = "Streaming" /\ call[c].open /\ call[c].blamed = << >> /\ m \in Members
      /\ UNCHANGED <<circuit, quarantined, session>>
  BY <1>0 DEF StreamFails, CallOK, LiveIsOpen, FailureNoted, AtMember, Charging, InStream
<1>2. call[c].keyed => a.known /\ Current(c, m) /\ a.live = 1
  BY <1>0, <1>1 DEF CallOK, LiveIsOpen, OwnEntry, InStream, Current
<1>3. ~call[c].keyed => a.live = 0
  BY <1>0, <1>1 DEF CallOK, LiveIsOpen
<1>4. call' = [call EXCEPT ![c] = n]
  BY <1>0, <1>1 DEF StreamFails, NotesFailure, CallType
<1>5. attempt' = [attempt EXCEPT ![c] = IF ~call[c].keyed THEN attempt[c] ELSE entry]
  BY <1>2 DEF StreamFails, NotesFailure
<1>6. k \in {"transient", "quota", "permanent", "request", "cancelled"} /\ m \in Place
  BY <1>1, PoolAssumption DEF Place
<1>7. at \in {"Record", "Report"}
  OBVIOUS
<1> HIDE DEF at
<1>8. /\ n \in CallType /\ n.at = at /\ n.why = "Report" /\ n.blamed = << >> /\ n.member = m
      /\ n.charge = m /\ n.retries = call[c].retries
  BY <1>0, <1>1, <1>6, <1>7 DEF CallType
<1>9. ~n.open /\ (n.keyed <=> call[c].keyed)
  BY <1>0 DEF CallType
<1> HIDE DEF n
<1>10. ASSUME NEW e, e.live = 0, n.keyed => e.known /\ e.active = m /\ e.failed, ~n.keyed => ~e.known
       PROVE  CallOK(n, e)
  <2>1. FailureNoted(n, e)
    BY <1>8, <1>9, <1>10, Unblamed DEF FailureNoted
  <2>2. AtMember(n) /\ LiveIsOpen(n, e)
    BY <1>1, <1>7, <1>8, <1>9, <1>10 DEF AtMember, Charging, LiveIsOpen, InStream
  <2>3. OwnEntry(n, e)
    BY <1>8, <1>10 DEF OwnEntry
  <2> QED BY <2>1, <2>2, <2>3 DEF CallOK
<1>11. CASE ~call[c].keyed
  <2>1. ~a.known
    BY <1>0, <1>1, <1>11 DEF CallOK, OwnEntry, InStream
  <2>2. CallOK(n, attempt[c])
    BY <1>3, <1>9, <1>10, <1>11, <2>1
  <2>3. attempt' = attempt
    BY <1>0, <1>5, <1>11
  <2> QED BY <1>0, <1>1, <1>4, <1>8, <2>2, <2>3, QuietStep, CallFacts
<1>12. CASE call[c].keyed
  <2>1. ended \in AttemptType /\ ended.live = 0
    BY <1>2, <1>12, EntryFacts
  <2>2. ended.tried = a.tried /\ ended.active = a.active
    BY <1>0 DEF AttemptType
  <2>3. ended.known = a.known
    BY <1>0 DEF AttemptType
  <2> HIDE DEF ended
  <2>4. ended.tried \cup {m} \in SUBSET Members
    BY <1>1, <2>2, TriedFacts
  <2>5. entry \in AttemptType /\ entry.live = 0 /\ entry.active = a.active
    BY <2>1, <2>2, <2>4 DEF AttemptType
  <2>6. entry.known = a.known /\ entry.failed = TRUE
    BY <2>1, <2>3 DEF AttemptType
  <2> HIDE DEF entry
  <2>7. entry.active = m
    BY <1>2, <1>12, <2>5 DEF Current
  <2>8. CallOK(n, entry)
    BY <1>2, <1>9, <1>10, <1>12, <2>5, <2>6, <2>7
  <2>9. attempt' = [attempt EXCEPT ![c] = entry]
    BY <1>5, <1>12
  <2> QED BY <1>0, <1>1, <1>4, <1>8, <2>5, <2>8, <2>9, OwnEntryStep, CallFacts
<1> QED BY <1>11, <1>12

\* The idle timeout or a cancellation ends the driver's wait.
LEMMA WaitEndsStep == ASSUME PoolInv, NEW c \in Callers, StreamStalls(c) \/ Cancel(c) PROVE PoolInv'
<1>0. /\ call \in [Callers -> CallType] /\ call[c] \in CallType /\ CallOK(call[c], attempt[c])
      /\ call[c].retries <= StreamRetries[c]
  BY CallFacts
<1>1. PICK at \in {"Report", "Drop"}, err \in {"transient", "cancelled"} :
        /\ call' = [call EXCEPT ![c].at = at, ![c].err = err]
        /\ call[c].at = "Streaming"
        /\ UNCHANGED <<circuit, quarantined, session, attempt>>
  BY DEF StreamStalls, Cancel
<1> DEFINE n == [call[c] EXCEPT !.at = at, !.err = err]
<1>2. call' = [call EXCEPT ![c] = n]
  BY <1>0, <1>1
<1>3. /\ n \in CallType /\ n.at = at /\ n.blamed = call[c].blamed /\ n.member = call[c].member /\ n.charge = call[c].charge
      /\ n.retries = call[c].retries /\ n.why = call[c].why
  BY <1>0 DEF CallType
<1>4. n.open = call[c].open /\ n.keyed = call[c].keyed
  BY <1>0 DEF CallType
<1> HIDE DEF n
<1>5. InStream(n) /\ InStream(call[c])
  BY <1>1, <1>3 DEF InStream
<1>6. n.blamed = << >>
  BY <1>0, <1>1, <1>3 DEF CallOK, FailureNoted
<1>7. FailureNoted(n, attempt[c])
  BY <1>3, <1>6, Unblamed
<1>8. AtMember(n) /\ LiveIsOpen(n, attempt[c]) /\ OwnEntry(n, attempt[c])
  BY <1>0, <1>1, <1>3, <1>4, <1>5 DEF CallOK, AtMember, Charging, LiveIsOpen, OwnEntry
<1>9. CallOK(n, attempt[c])
  BY <1>7, <1>8 DEF CallOK
<1> QED BY <1>0, <1>1, <1>2, <1>3, <1>9, QuietStep, CallFacts

\* The driver's report charges the entry's member unless that has been done.
LEMMA ReportStep == ASSUME PoolInv, NEW c \in Callers, Report(c) PROVE PoolInv'
<1>0. /\ call \in [Callers -> CallType] /\ call[c] \in CallType /\ CallOK(call[c], attempt[c])
      /\ call[c].retries <= StreamRetries[c]
      /\ attempt \in [Callers -> AttemptType] /\ attempt[c] \in AttemptType
  BY CallFacts
<1> DEFINE a == attempt[c]
           m == BlamedMember(c)
           k == IF Interrupted(call[c].err) THEN "transient" ELSE call[c].err
<1>1. /\ call[c].at = "Report" /\ InStream(call[c]) /\ Reporting(call[c])
      /\ call[c].member \in Members /\ UNCHANGED <<circuit, quarantined, session>>
  BY <1>0 DEF Report, CallOK, AtMember, Charging, InStream, Reporting
<1>2. k \in {"transient", "quota", "permanent", "request", "cancelled"}
  BY <1>0 DEF CallType
<1>3. m # Nowhere => a.known /\ call[c].keyed /\ m = call[c].member /\ Current(c, m)
  BY <1>0, <1>1 DEF BlamedMember, CallOK, OwnEntry, Current
<1> HIDE DEF k, m
<1>4. CASE m = Nowhere
  <2> DEFINE n == [call[c] EXCEPT !.at = "Drop", !.err = k]
  <2>1. call' = [call EXCEPT ![c] = n] /\ attempt' = attempt
    BY <1>0, <1>4 DEF Report, k, m
  <2>2. /\ n \in CallType /\ n.at = "Drop" /\ n.blamed = call[c].blamed /\ n.member = call[c].member /\ n.charge = call[c].charge
        /\ n.retries = call[c].retries
    BY <1>0, <1>2 DEF CallType
  <2>3. n.open = call[c].open /\ n.keyed = call[c].keyed
    BY <1>0 DEF CallType
  <2> HIDE DEF n
  <2>4. InStream(n) /\ ~Reporting(n)
    BY <2>2 DEF InStream, Reporting
  <2>5. AtMember(n) /\ LiveIsOpen(n, a) /\ OwnEntry(n, a)
    BY <1>0, <1>1, <2>2, <2>3, <2>4 DEF CallOK, AtMember, Charging, LiveIsOpen, OwnEntry
  <2>6. FailureNoted(n, a)
    BY <1>0, <2>2, <2>3, <2>4 DEF CallOK, FailureNoted
  <2> QED BY <1>0, <1>1, <2>1, <2>2, <2>5, <2>6, QuietStep, CallFacts DEF CallOK
<1>5. CASE m # Nowhere
  <2> DEFINE at == IF ~a.failed THEN "Record" ELSE "Drop"
             tried == a.tried \cup {m}
             entry == [a EXCEPT !.failed = TRUE, !.tried = tried]
             n == [call[c] EXCEPT !.at = at, !.why = "Drop", !.err = k, !.charge = m]
  <2>1. NotesFailure(c, m, k, FALSE, a.known)
    BY <1>5 DEF Report, k, m
  <2>2. a.known /\ call[c].keyed /\ m = call[c].member /\ Current(c, m)
    BY <1>3, <1>5
  <2>3. call' = [call EXCEPT ![c] = n]
    <3>1. call' = [call EXCEPT ![c] = [call[c] EXCEPT !.at = at, !.why = "Drop", !.err = k,
                                           !.charge = m, !.open = call[c].open /\ TRUE]]
      BY <1>0, <2>1, <2>2 DEF NotesFailure
    <3>2. call[c].open \in BOOLEAN
      BY <1>0 DEF CallType
    <3>3. (call[c].open /\ TRUE) = call[c].open
      BY <3>2
    <3>4. [call[c] EXCEPT !.at = at, !.why = "Drop", !.err = k, !.charge = m, !.open = call[c].open] = n
      BY <1>0 DEF CallType
    <3> QED BY <3>1, <3>3, <3>4
  <2>4. attempt' = [attempt EXCEPT ![c] = entry]
    BY <1>0, <2>1, <2>2 DEF NotesFailure, AttemptType
  <2>5. tried \in SUBSET Members /\ m \in Place /\ at \in {"Record", "Drop"} /\ (at = "Record" <=> ~a.failed)
    BY <1>1, <2>2, TriedFacts DEF Place
  <2> HIDE DEF tried, at
  <2>6. /\ n \in CallType /\ n.at = at /\ n.why = "Drop" /\ n.blamed = call[c].blamed /\ n.member = m
        /\ n.charge = m /\ n.retries = call[c].retries
    BY <1>0, <1>2, <2>2, <2>5 DEF CallType
  <2>7. n.open = call[c].open /\ n.keyed = call[c].keyed
    BY <1>0 DEF CallType
  <2>8. entry \in AttemptType /\ entry.live = a.live /\ entry.active = a.active
    BY <1>0, <2>5 DEF AttemptType
  <2>9. entry.known = a.known /\ entry.failed = TRUE /\ entry.lost = a.lost
    BY <1>0 DEF AttemptType
  <2> HIDE DEF n, entry
  <2>10. InStream(n) /\ ~Reporting(n)
    BY <2>5, <2>6 DEF InStream, Reporting
  <2>11. AtMember(n) /\ LiveIsOpen(n, entry) /\ OwnEntry(n, entry)
    BY <1>0, <1>1, <2>2, <2>5, <2>6, <2>7, <2>8, <2>9, <2>10 DEF CallOK, AtMember, Charging, LiveIsOpen, OwnEntry
  <2>12. n.at = "Record" /\ n.blamed # << >> => entry.lost /\ ~n.open
    BY <1>0, <1>1, <2>2, <2>5, <2>6, <2>7, <2>9 DEF CallOK, FailureNoted
  <2>13. FailureNoted(n, entry)
    BY <1>0, <2>2, <2>5, <2>6, <2>7, <2>9, <2>10, <2>12 DEF CallOK, FailureNoted
  <2> QED BY <1>0, <1>1, <2>3, <2>4, <2>6, <2>8, <2>11, <2>13, OwnEntryStep, CallFacts DEF CallOK
<1> QED BY <1>4, <1>5

\* The failure is charged to the member of the call, a second time only if the
\* entry was evicted since it was noted there.
LEMMA RecordStep == ASSUME PoolInv, NEW c \in Callers, Record(c) PROVE PoolInv'
<1>0. /\ call \in [Callers -> CallType] /\ call[c] \in CallType /\ CallOK(call[c], attempt[c])
      /\ call[c].retries <= StreamRetries[c]
      /\ attempt \in [Callers -> AttemptType] /\ attempt[c] \in AttemptType
  BY CallFacts
<1> DEFINE a == attempt[c]
           m == call[c].charge
           k == call[c].err
           shift == Switches(k) \/ ~CanPass(circuit'[m])
           filing == call[c].keyed /\ CanFile(c)
           more == a.tried \cup {m}
           at == IF shift THEN "Look" ELSE call[c].why
           tried == IF ~shift THEN {} ELSE IF filing THEN more ELSE {m}
           blamed == Append(call[c].blamed, m)
           entry == [a EXCEPT !.known = TRUE, !.active = m, !.tried = more]
           n == [call[c] EXCEPT !.at = at, !.tried = tried, !.blamed = blamed]
<1>1. /\ call[c].at = "Record" /\ RecordFailure(m, k)
      /\ \/ filing /\ \E v \in Callers : MakeRoom(c, v) /\ attempt' = FiledAs(c, v, entry)
         \/ ~filing /\ attempt' = attempt
      /\ UNCHANGED session
  BY DEF Record
<1>2. call' = [call EXCEPT ![c] = n]
  <2>1. [a EXCEPT !.known = TRUE, !.active = m, !.tried = @ \cup {m}].tried = more
    BY <1>0 DEF AttemptType
  <2> QED BY <1>0, <2>1 DEF Record, Blames
<1>3. /\ m \in Members /\ call[c].member = m /\ call[c].why \in {"Report", "Drop"}
      /\ call[c].why = "Report" => ~call[c].open
      /\ call[c].keyed => a.failed \/ a.lost
      /\ call[c].blamed # << >> => a.lost /\ ~call[c].open
      /\ call[c].open /\ call[c].keyed => a.known
      /\ a.live = IF call[c].open /\ call[c].keyed THEN 1 ELSE 0
      /\ a.known => call[c].keyed /\ a.active = m
  BY <1>0, <1>1 DEF CallOK, AtMember, Charging, LiveIsOpen, OwnEntry, FailureNoted, InStream
<1>4. /\ blamed \in Seq(Members) /\ \A i \in DOMAIN blamed : blamed[i] = m
      /\ Len(blamed) > 1 => call[c].blamed # << >>
  <2>1. call[c].blamed \in Seq(Members) /\ \A i \in DOMAIN call[c].blamed : call[c].blamed[i] = m
    BY <1>0, <1>3 DEF CallType, CallOK, FailureNoted
  <2> QED BY <1>3, <2>1
<1>5. m \in Place /\ more \in SUBSET Members
  BY <1>3, TriedFacts DEF Place
<1> HIDE DEF more, blamed
<1>6. tried \in SUBSET Members /\ at \in {"Look", "Report", "Drop"} /\ (at # "Look" => at = call[c].why)
  BY <1>3, <1>5
<1> HIDE DEF tried, at
<1>7. /\ n \in CallType /\ n.at = at /\ n.why = call[c].why /\ n.blamed = blamed /\ n.member = m
      /\ n.charge = m /\ n.retries = call[c].retries
  BY <1>0, <1>3, <1>4, <1>6 DEF CallType
<1>8. n.open = call[c].open /\ n.keyed = call[c].keyed
  BY <1>0 DEF CallType
<1>9. entry \in AttemptType /\ entry.live = a.live /\ entry.active = m
  BY <1>0, <1>5 DEF AttemptType
<1>10. entry.known = TRUE /\ entry.lost = a.lost /\ entry.failed = a.failed
  BY <1>0 DEF AttemptType
<1> HIDE DEF n, entry
<1>11. InStream(n) /\ AtMember(n) /\ (Reporting(n) => call[c].why = "Report")
  BY <1>3, <1>6, <1>7 DEF InStream, AtMember, Charging, Reporting
<1>12. ASSUME NEW e, e.live = a.live, e.lost = a.lost, e.failed = a.failed,
              call[c].open /\ call[c].keyed => e.known, e.known => call[c].keyed /\ e.active = m
       PROVE  CallOK(n, e)
  <2>1. LiveIsOpen(n, e)
    BY <1>3, <1>6, <1>7, <1>8, <1>11, <1>12 DEF LiveIsOpen
  <2>2. OwnEntry(n, e)
    BY <1>7, <1>8, <1>12 DEF OwnEntry
  <2>3. FailureNoted(n, e)
    BY <1>3, <1>4, <1>6, <1>7, <1>8, <1>11, <1>12 DEF FailureNoted
  <2> QED BY <1>11, <2>1, <2>2, <2>3 DEF CallOK
<1>13. CallOK(n, attempt[c])
  BY <1>3, <1>12
<1>14. circuit' \in [Members -> CircuitType] /\ quarantined' \subseteq Members /\ session' \in [Sessions -> SessionType]
  BY <1>1, <1>3, OutcomeFacts, CallFacts
<1>15. CASE call[c].keyed
  <2>1. CallOK(n, entry)
    BY <1>9, <1>10, <1>12, <1>15
  <2> QED BY <1>0, <1>1, <1>2, <1>7, <1>9, <1>13, <1>14, <2>1, FilingStep
<1>16. CASE ~call[c].keyed
  <2>1. attempt' = attempt
    BY <1>1, <1>16
  <2> QED BY <1>0, <1>2, <1>7, <1>13, <1>14, <2>1, QuietStep
<1> QED BY <1>15, <1>16

\* An unfinished stream is dropped: its entry goes, or counts no live stream.
\* After a second charge the stream has ended, and the entry stays.
LEMMA DropStep ==
    ASSUME PoolInv, NEW c \in Callers, DropStream(c), call[c].at = "Drop", NEW n \in CallType,
           call' = [call EXCEPT ![c] = n],
           \A e : e.live = 0 /\ (Len(call[c].blamed) > 1 => e = attempt[c]) => CallOK(n, e),
           n.retries <= StreamRetries[c], UNCHANGED <<quarantined, session>>
    PROVE  PoolInv'
<1>0. /\ call \in [Callers -> CallType] /\ call[c] \in CallType /\ CallOK(call[c], attempt[c])
      /\ attempt \in [Callers -> AttemptType] /\ attempt[c] \in AttemptType
  BY CallFacts
<1> DEFINE a == attempt[c]
           left == [a EXCEPT !.live = @ - 1]
           live == call[c].open /\ call[c].keyed
<1>1. a.live = IF live THEN 1 ELSE 0
  BY <1>0 DEF CallOK, LiveIsOpen
<1>2. circuit' \in [Members -> CircuitType] /\ quarantined' \subseteq Members /\ session' \in [Sessions -> SessionType]
  <2>1. circuit' = circuit \/ circuit' = Abandoned(call[c].member)
    BY DEF DropStream
  <2> QED BY <2>1, CircuitFacts, CallFacts
<1>3. live => a.known /\ ~(Len(call[c].blamed) > 1)
  BY <1>0 DEF CallOK, LiveIsOpen, FailureNoted
<1>4. \/ ~live /\ attempt' = attempt
      \/ live /\ attempt' = [attempt EXCEPT ![c] = NoAttempt]
      \/ live /\ attempt' = [attempt EXCEPT ![c] = left]
  BY <1>0, <1>3 DEF DropStream
<1>5. CASE ~live /\ attempt' = attempt
  <2>1. CallOK(n, attempt[c])
    BY <1>1, <1>5
  <2> QED BY <1>2, <1>5, <2>1, QuietStep
<1>6. CASE live /\ attempt' = [attempt EXCEPT ![c] = NoAttempt]
  <2>1. CallOK(n, NoAttempt)
    BY <1>3, <1>6, EntryFacts
  <2> QED BY <1>2, <1>6, <2>1, EntryFacts, OwnEntryStep
<1>7. CASE live /\ attempt' = [attempt EXCEPT ![c] = left]
  <2>1. left \in AttemptType /\ left.live = 0
    BY <1>1, <1>7, EntryFacts
  <2> HIDE DEF left
  <2>2. CallOK(n, left)
    BY <1>3, <1>7, <2>1
  <2> QED BY <1>2, <1>7, <2>1, <2>2, OwnEntryStep
<1> QED BY <1>4, <1>5, <1>6, <1>7

\* The driver opens another stream.
LEMMA RetryStep == ASSUME PoolInv, NEW c \in Callers, Retry(c) PROVE PoolInv'
<1>0. /\ call \in [Callers -> CallType] /\ call[c] \in CallType /\ CallOK(call[c], attempt[c])
      /\ call[c].retries \in Nat /\ StreamRetries[c] \in Nat
  BY CallFacts
<1> DEFINE more == call[c].retries + 1
           n == [call[c] EXCEPT !.at = "Look", !.why = "start", !.open = FALSE, !.retries = more]
<1>1. /\ call[c].at = "Drop" /\ DropStream(c) /\ call[c].retries < StreamRetries[c]
      /\ UNCHANGED <<quarantined, session>>
  BY DEF Retry
<1>2. call' = [call EXCEPT ![c] = n]
  BY <1>0 DEF Retry
<1>3. more \in Nat /\ more <= StreamRetries[c]
  BY <1>0, <1>1
<1> HIDE DEF more
<1>4. /\ n \in CallType /\ n.at = "Look" /\ n.why = "start" /\ n.retries = more
      /\ n.blamed = call[c].blamed /\ n.member = call[c].member /\ n.charge = call[c].charge
  BY <1>0, <1>3 DEF CallType
<1>5. n.open = FALSE
  BY <1>0 DEF CallType
<1> HIDE DEF n
<1>6. ~InStream(n) /\ ~Reporting(n)
  BY <1>4 DEF InStream, Reporting
<1>7. ASSUME NEW e, e.live = 0, Len(call[c].blamed) > 1 => e = attempt[c]
      PROVE  CallOK(n, e)
  <2>1. FailureNoted(n, e)
    BY <1>0, <1>4, <1>5, <1>6, <1>7 DEF CallOK, FailureNoted
  <2> QED BY <1>4, <1>5, <1>6, <1>7, <2>1 DEF CallOK, AtMember, Charging, LiveIsOpen, OwnEntry
<1>8. \A e : e.live = 0 /\ (Len(call[c].blamed) > 1 => e = attempt[c]) => CallOK(n, e)
  BY <1>7
<1> QED BY <1>1, <1>2, <1>3, <1>4, <1>8, DropStep

\* Or it returns.
LEMMA GiveUpStep == ASSUME PoolInv, NEW c \in Callers, GiveUp(c) PROVE PoolInv'
<1>1. /\ call[c].at = "Drop" /\ DropStream(c) /\ call' = [call EXCEPT ![c] = Returned]
      /\ UNCHANGED <<quarantined, session>>
  BY DEF GiveUp
<1>2. Returned.retries <= StreamRetries[c]
  BY CallFacts, ReturnedFacts
<1> QED BY <1>1, <1>2, ReturnedFacts, DropStep

\* The cooldown of a circuit ends.
LEMMA CooldownStep == ASSUME PoolInv, NEW m \in Members, Cooldown(m) PROVE PoolInv'
<1>1. circuit \in [Members -> CircuitType] /\ circuit[m] \in CircuitType
  BY DEF PoolInv, TypeInv
<1> DEFINE r == [circuit[m] EXCEPT !.cooled = TRUE]
<1>2. r \in CircuitType
  BY <1>1 DEF CircuitType
<1>3. circuit' = [circuit EXCEPT ![m] = r] /\ UNCHANGED <<quarantined, session, attempt, call>>
  BY DEF Cooldown
<1> HIDE DEF r
<1> QED BY <1>1, <1>2, <1>3 DEF PoolInv, TypeInv

-----------------------------------------------------------------------------
(* The theorems.                                                           *)

\* The invariant holds at first.
LEMMA PoolInit == Init => PoolInv
<1> SUFFICES ASSUME Init PROVE PoolInv
  OBVIOUS
<1>1. Threshold \in Nat /\ HalfOpenMax \in Nat /\ MaxSwitches \in Nat
  BY PoolAssumption
<1>2. 0 \in 0..Threshold /\ 0 \in 0..HalfOpenMax /\ 0 \in 0..MaxSwitches /\ 0 \in 0..1 /\ Nowhere \in Place
  BY <1>1 DEF Place
<1>3. NewCircuit \in CircuitType
  BY <1>2 DEF NewCircuit, CircuitType
<1>4. [active |-> Nowhere, switches |-> 0] \in SessionType
  BY <1>2 DEF SessionType
<1>5. NoAttempt \in AttemptType /\ NoAttempt.live = 0
  BY <1>2 DEF NoAttempt, AttemptType
<1>6. TypeInv
  BY <1>3, <1>4, <1>5, ReturnedFacts DEF Init, TypeInv
<1>7. \A c \in Callers : call[c] = NewCall /\ attempt[c] = NoAttempt /\ StreamRetries[c] \in Nat
  BY PoolAssumption DEF Init
<1>8. \A c \in Callers : CallOK(call[c], attempt[c]) /\ call[c].retries <= StreamRetries[c]
  BY <1>5, <1>7, ReturnedFacts
<1> QED BY <1>6, <1>8 DEF PoolInv

\* A step of a caller keeps the invariant.
LEMMA CallerStep == ASSUME PoolInv, NEW c \in Callers, Step(c) PROVE PoolInv'
<1>1. Look(c) \/ ChooseActive(c) \/ ChooseNext(c) \/ ChooseLater(c) \/ Check(c) \/ CheckFails(c) => PoolInv'
  BY LookStep, ChooseActiveStep, ChooseNextStep, ChooseLaterStep, CheckStep
<1>2. Answered(c) \/ Opened(c) \/ (\E k \in Kinds : CallFails(c, k)) => PoolInv'
  BY AnsweredStep, OpenedStep, CallFailsStep
<1>3. StreamEnds(c) \/ StreamStalls(c) \/ (\E k \in Kinds : StreamFails(c, k)) => PoolInv'
  BY StreamEndsStep, WaitEndsStep, StreamFailsStep
<1>4. Record(c) \/ Report(c) \/ Retry(c) \/ GiveUp(c) => PoolInv'
  BY RecordStep, ReportStep, RetryStep, GiveUpStep
<1> QED BY <1>1, <1>2, <1>3, <1>4 DEF Step

\* Every step keeps the invariant.
LEMMA PoolStep == PoolInv /\ [Next]_vars => PoolInv'
<1> SUFFICES ASSUME PoolInv, [Next]_vars PROVE PoolInv'
  OBVIOUS
<1>1. CASE \E c \in Callers : Start(c) \/ Step(c) \/ Cancel(c) \/ DropCall(c)
  BY <1>1, StartStep, CallerStep, WaitEndsStep, DropCallStep
<1>2. CASE \E m \in Members : Cooldown(m)
  BY <1>2, CooldownStep
<1>3. CASE UNCHANGED vars
  BY <1>3 DEF vars, PoolInv, TypeInv
<1> QED BY <1>1, <1>2, <1>3 DEF Next

\* The invariant says what the properties say.
LEMMA PoolInvImplies == PoolInv => PoolTypeOK /\ BlamedOnce
<1> SUFFICES ASSUME PoolInv PROVE PoolTypeOK /\ BlamedOnce
  OBVIOUS
<1>1. PoolTypeOK
  <2>1. \A c \in Callers : call[c].retries \in 0..StreamRetries[c]
    BY CallFacts
  <2> QED BY <2>1 DEF PoolInv, TypeInv, PoolTypeOK, CircuitType, SessionType, AttemptType, Place
<1>2. BlamedOnce
  BY DEF PoolInv, CallOK, FailureNoted, BlamedOnce, ToSet
<1> QED BY <1>1, <1>2

\* Circuits, sessions, attempts and calls keep their types and every counter
\* its limit: an entry counts at most one live stream, a session no more
\* switches than it may make, a half-open circuit no more probes than it admits
\* (stream_attempts.rs, router.rs, circuit_breaker.rs).
THEOREM PoolIsTyped == Spec => []PoolTypeOK
<1>1. Spec => []PoolInv
  BY PoolInit, PoolStep, PTL DEF Spec
<1> QED BY <1>1, PoolInvImplies, PTL

\* A failure is charged to the member that served the call or stream, although
\* the driver's report goes by the entry of the attempt alone, and only
\* once, unless the entry of the attempt was evicted between two reports
\* (record_stream_attempt_failure_once, record_stream_member_failure).
THEOREM ChargesAreSingle == Spec => []BlamedOnce
<1>1. Spec => []PoolInv
  BY PoolInit, PoolStep, PTL DEF Spec
<1> QED BY <1>1, PoolInvImplies, PTL

=============================================================================
