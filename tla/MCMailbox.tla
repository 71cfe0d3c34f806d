----------------------------- MODULE MCMailbox -----------------------------
(* Instances of Mailbox for TLC.                                           *)
EXTENDS Mailbox, TLC

CONSTANTS t1, d1, d2, d3

OneThread == [d \in DispatchIds |-> t1]
=============================================================================
