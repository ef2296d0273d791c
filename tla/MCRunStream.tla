---------------------------- MODULE MCRunStream ----------------------------
(* Instances of RunStream for TLC.                                          *)
EXTENDS RunStream

CONSTANTS r1, r2, c1, c2, c3

\* A stream of each run; two streams of r1 and one of r2.
OneEach == [c \in Streams |-> IF c = c1 THEN r1 ELSE r2]
Shared == [c \in Streams |-> IF c = c3 THEN r2 ELSE r1]
=============================================================================
