------------------------------- MODULE Corpus -------------------------------
(***************************************************************************)
(* What ingestion promises, whatever runs there are and however they end:  *)
(* a corpus of documents that are published whole, once, and never changed *)
(* afterwards, each transcript backed by the response it was made from,    *)
(* archived before.                                                        *)
(*                                                                         *)
(* A document is <<source, video, outcome>>.  Its outcome is the response  *)
(* <<provider, payload>> its transcript was made from, or NoTranscript.    *)
(* An archive entry is whole, or doubtful: two runs wrote it at once, and  *)
(* nothing is promised of what it holds.                                   *)
(***************************************************************************)
CONSTANTS Sources, Videos, Responses, NoTranscript

VARIABLES
    archive,     \* <<response, video>> pairs archived whole
    doubtful,    \* those whose entry two runs wrote at once
    documents    \* the published documents

corpusVars == <<archive, doubtful, documents>>

CorpusInit == archive = {} /\ doubtful = {} /\ documents = {}

Archive(response, v) ==
    /\ archive' = archive \cup {<<response, v>>}
    /\ UNCHANGED <<doubtful, documents>>

Doubt(response, v) ==
    /\ archive' = archive \ {<<response, v>>}
    /\ doubtful' = doubtful \cup {<<response, v>>}
    /\ UNCHANGED documents

Publish(s, v, outcome) ==
    /\ \A d \in documents : d[1] # s \/ d[2] # v
    /\ outcome = NoTranscript \/ <<outcome, v>> \in archive \cup doubtful
    /\ documents' = documents \cup {<<s, v, outcome>>}
    /\ UNCHANGED <<archive, doubtful>>

CorpusNext ==
    \/ \E response \in Responses, v \in Videos : Archive(response, v) \/ Doubt(response, v)
    \/ \E s \in Sources, v \in Videos, outcome \in Responses \cup {NoTranscript} :
          Publish(s, v, outcome)

CorpusSpec == CorpusInit /\ [][CorpusNext]_corpusVars
=============================================================================
