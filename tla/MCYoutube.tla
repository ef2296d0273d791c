----------------------------- MODULE MCYoutube -----------------------------
(* Instances of YoutubeIngest for TLC.                                      *)
EXTENDS YoutubeIngest

CONSTANTS r1, r2, s1, v1, v2

OneSeed == [r \in Runs |-> <<s1>>]
NoLimit == [r \in Runs |-> 0]
NoCap == [s \in Sources |-> 0]
OneVideo == [s \in Sources |-> <<v1>>]
TwoVideos == [s \in Sources |-> <<v1, v2>>]

\* build_adapter's order, for a machine YouTube does not block; then the server's.
LocalOrder == <<"ytapi", "supadata">>
ServerOrder == <<"supadata", "ytapi">>
=============================================================================
