------------------------------ MODULE MCBronze ------------------------------
(* Instances of Bronze for TLC.  w1 and w2 are fetches of one payload; w3   *)
(* writes the very bytes of w1 again.                                       *)
EXTENDS Bronze

CONSTANTS w1, w2, w3

Marks == [w \in Writers |-> IF w = w2 THEN "second" ELSE "first"]
Lengths == [w \in Writers |-> IF w = w2 THEN 2 ELSE 3]
=============================================================================
