---------------------------- MODULE IngestCorpus ----------------------------
(***************************************************************************)
(* Ingest implements Corpus.  A document row counts with the rows that     *)
(* belong to it: marked failed it is published without a transcript, with  *)
(* a transcript row and the segments its response has it is published with *)
(* that transcript, and anything else is no document of Corpus.            *)
(***************************************************************************)
EXTENDS Ingest

Responses == Providers \X Payloads

TranscriptsOf(d) ==
    {t \in InTable(db, "transcript") :
        /\ SameDocument(d, t)
        /\ <<t.video, t.payload>> \notin Silent => \E g \in InTable(db, "segment") : SameDocument(d, g)}

Published(d) ==
    IF d.value = "failed" THEN {<<d.source, d.video, None>>}
    ELSE IF TranscriptsOf(d) = {} THEN {<<d.source, d.video>>}
    ELSE {<<d.source, d.video, <<t.value, t.payload>>>> : t \in TranscriptsOf(d)}

documentsBar == UNION {Published(d) : d \in InTable(db, "document")}

\* The archive key of a response to a video.
EntryOf(k) == <<k[1][1], k[2], k[1][2]>>

archiveBar == {k \in Responses \X Videos : EntryOf(k) \notin crossed /\ bronze[EntryOf(k)] \in Whole}
doubtfulBar == {k \in Responses \X Videos : EntryOf(k) \in crossed /\ bronze[EntryOf(k)] # None}

Abstract == INSTANCE Corpus WITH NoTranscript <- None, archive <- archiveBar,
                                 doubtful <- doubtfulBar, documents <- documentsBar

\* Every run of ingestion, with runs overlapping and dying anywhere, is a behaviour of
\* the corpus: documents appear whole, once, after the response they were made from is
\* archived, and are never changed (ingest_source and _persist).
ImplementsCorpus == Abstract!CorpusSpec
=============================================================================
