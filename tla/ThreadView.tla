----------------------------- MODULE ThreadView -----------------------------
(* What a reader of one thread is promised: the thread shows the snapshot  *)
(* of the last committed checkpoint, and nothing once it is deleted.       *)
EXTENDS Naturals, Sequences

CONSTANT MaxSeq

VARIABLES
    log,    \* thread sequence numbers of the checkpoints, in commit order
    shown   \* the snapshot a read returns; 0: the thread does not exist

Init == log = << >> /\ shown = 0

(* A checkpoint becomes visible at its commit, and later than every one    *)
(* committed before it.                                                    *)
Commit == \E s \in 1 .. MaxSeq :
    /\ \A i \in DOMAIN log : log[i] < s
    /\ log' = Append(log, s)
    /\ shown' = s

Erase == shown' = 0 /\ UNCHANGED log

Next == Commit \/ Erase

Spec == Init /\ [][Next]_<<log, shown>>
=============================================================================
