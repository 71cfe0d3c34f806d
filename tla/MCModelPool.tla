----------------------------- MODULE MCModelPool -----------------------------
(* Instances of ModelPool: members m1, m2, requests c1, c2.                  *)
EXTENDS ModelPool

CONSTANTS m1, m2, c1, c2, s1

OneSession == [c \in Callers |-> s1]
AlwaysStreams == [c \in Callers |-> {"stream"}]
SecondMayCall == [c \in Callers |-> IF c = c2 THEN {"stream", "call"} ELSE {"stream"}]
NoRetries == [c \in Callers |-> 0]
FirstRetries == [c \in Callers |-> IF c = c1 THEN 1 ELSE 0]
TwoRetries == [c \in Callers |-> 2]
FirstThenSecond == [s \in Sessions |-> <<m1, m2>>]

=============================================================================
