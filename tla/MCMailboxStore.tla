--------------------------- MODULE MCMailboxStore ---------------------------
(* A small instance of MailboxStore for TLC.                               *)
EXTENDS MailboxStore, TLC

CONSTANTS d1, d2, t1, t2

DispatchSymmetry == Permutations(DispatchIds)
=============================================================================
