------------------------------ MODULE MCIngest ------------------------------
(* Instances of Ingest for TLC.                                             *)
EXTENDS IngestCorpus

CONSTANTS r1, r2, s1, s2, v1, v2, v3, v4

OneSeed == [r \in Runs |-> <<s1>>]
TwoSeeds == [r \in Runs |-> IF r = r1 THEN <<s1, s2>> ELSE <<s2, s1>>]
NoLimit == [r \in Runs |-> 0]
SomeLimit == [r \in Runs |-> IF r = r1 THEN 1 ELSE 0]
NoCap == [s \in Sources |-> 0]
SomeCap == [s \in Sources |-> IF s = s1 THEN 2 ELSE 0]
OneVideo == [s \in Sources |-> <<v1>>]
TwoVideos == [s \in Sources |-> <<v1, v2>>]
SecondIsSilent == {<<v2, "p">>}
ThreeAndOne == [s \in Sources |-> IF s = s1 THEN <<v1, v2, v3>> ELSE <<v4>>]
=============================================================================
