--------------------------- MODULE MCNatsMailbox ---------------------------
(* Small instances of NatsMailbox.                                         *)
EXTENDS NatsMailbox, TLC

CONSTANTS d1, d2, c1, c2

\* Callers are alike, and so are dispatches.
Alike == Permutations({c1, c2}) \cup Permutations({d1, d2})

=============================================================================
