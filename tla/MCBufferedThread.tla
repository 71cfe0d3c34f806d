-------------------------- MODULE MCBufferedThread --------------------------
(* Instances of BufferedThread for TLC.                                    *)
EXTENDS BufferedThread, TLC

CONSTANTS w1, w2, w3, r1, r2, f1, f2, d

TwoRuns == [w \in Writers |-> IF w = w3 THEN r2 ELSE r1]
=============================================================================
