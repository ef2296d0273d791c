--------------------------- MODULE DocumentProofs ---------------------------
(***************************************************************************)
(* Theorems about what a committed document comes with: its transcript and *)
(* segments in the same commit, and the response it was made from in the   *)
(* archive before it, in an entry that is whole unless two runs wrote it   *)
(* at once.  They rest on the row rules of IngestProofs.                   *)
(***************************************************************************)
EXTENDS IngestProofs

USE SeedsAssumption, LimitAssumption, CatalogueAssumption, VideosAssumption,
    NoneAssumption, ContentAssumption, EndpointAssumption, KillAssumption

-----------------------------------------------------------------------------
(* Whole documents.  A commit puts all of a document's rows in at once, and *)
(* no document of its key is there before.                                  *)

Parts == {"document", "transcript", "segment"}

LEMMA CommittedParts ==
    ASSUME RowRules, NEW r \in Runs, Commit(r)
    PROVE  \A row : row.table \in Parts => (row \in db' <=> row \in db \/ row \in txn[r])
<1> SUFFICES ASSUME NEW row, row.table \in Parts
             PROVE  row \in db' <=> row \in db \/ row \in txn[r]
  OBVIOUS
<1>1. db' = {x \in db : \A new \in txn[r] : Key(new) # Key(x)} \cup txn[r]
  BY DEF Commit
<1>2. row.table # "ingest_state"
  BY DEF Parts
<1>3. ASSUME row \in db, NEW new \in txn[r], Key(new) = Key(row) PROVE FALSE
  <2>1. new.table = "ingest_state"
    BY <1>3 DEF RowRules, KeyRules, HeldKeysFree
  <2> QED
    BY <1>2, <1>3, <2>1 DEF Key
<1> QED
  BY <1>1, <1>3

\* The rows of a commit that are a document's.
LEMMA HeldParts ==
    ASSUME RowRules, NEW r \in Runs, pc[r] \in CommitPlaces
    PROVE  \/ \A row \in txn[r] : row.table \notin Parts
           \/ transcript[r] = None /\ txn[r] = {DocumentRow(r)}
           \/ /\ transcript[r] # None
              /\ {DocumentRow(r), TranscriptRow(r)} \subseteq txn[r]
              /\ txn[r] \subseteq {DocumentRow(r), TranscriptRow(r), SegmentRow(r)}
              /\ SegmentRow(r) \in txn[r] <=> <<Video(r), transcript[r][2]>> \notin Silent
<1>1. OwnRowsOf(r)
  BY DEF RowRules, OwnRows
<1>2. /\ TenantRow(r).table = "tenant"
      /\ SourceRow(r).table = "source"
      /\ StateRow(r).table = "ingest_state"
      /\ DocumentRow(r).table = "document"
      /\ TranscriptRow(r).table = "transcript"
      /\ SegmentRow(r).table = "segment"
  BY DEF TenantRow, SourceRow, StateRow, DocumentRow, TranscriptRow, SegmentRow, VideoRow
<1>3. CASE pc[r] = "commit"
  BY <1>1, <1>2, <1>3 DEF OwnRowsOf
<1>4. CASE pc[r] # "commit"
  BY <1>1, <1>2, <1>4 DEF OwnRowsOf, CommitPlaces, Parts
<1> QED
  BY <1>3, <1>4

\* Only a commit of CommitVideo holds them.
LEMMA RowsOfDocument ==
    ASSUME RowRules, NEW r \in Runs, pc[r] \in CommitPlaces,
           NEW row \in txn[r], row.table \in Parts
    PROVE  pc[r] = "commit"
<1>1. OwnRowsOf(r)
  BY DEF RowRules, OwnRows
<1>2. /\ TenantRow(r).table = "tenant"
      /\ SourceRow(r).table = "source"
      /\ StateRow(r).table = "ingest_state"
  BY DEF TenantRow, SourceRow, StateRow
<1> QED
  BY <1>1, <1>2 DEF OwnRowsOf, CommitPlaces, Parts

LEMMA WholeStep == Typed /\ RowRules /\ NoHalfDocument /\ [Next]_vars => NoHalfDocument'
<1> SUFFICES ASSUME Typed, RowRules, NoHalfDocument, [Next]_vars
             PROVE  NoHalfDocument'
  OBVIOUS
<1>1. CASE db' = db
  BY <1>1 DEF NoHalfDocument, InTable, SameDocument
<1>2. ASSUME NEW r \in Runs, Commit(r), pc[r] \in CommitPlaces
      PROVE  NoHalfDocument'
  <2>1. \A row : row.table \in Parts => (row \in db' <=> row \in db \/ row \in txn[r])
    BY <1>2, CommittedParts
  <2>2. CASE \A row \in txn[r] : row.table \notin Parts
    <3>1. \A row : row.table \in Parts => (row \in db' <=> row \in db)
      BY <2>1, <2>2
    <3>2. /\ InTable(db', "document") = InTable(db, "document")
          /\ InTable(db', "transcript") = InTable(db, "transcript")
          /\ InTable(db', "segment") = InTable(db, "segment")
      BY <3>1 DEF InTable, Parts
    <3> QED
      BY <3>2 DEF NoHalfDocument, SameDocument
  <2>3. CASE ~ \A row \in txn[r] : row.table \notin Parts
    <3> DEFINE d0 == DocumentRow(r)
               t0 == TranscriptRow(r)
               s0 == SegmentRow(r)
               empty == <<Video(r), transcript[r][2]>> \in Silent
    <3>1. \/ transcript[r] = None /\ txn[r] = {d0}
          \/ /\ transcript[r] # None /\ {d0, t0} \subseteq txn[r]
             /\ txn[r] \subseteq {d0, t0, s0}
             /\ s0 \in txn[r] <=> ~ empty
      BY <1>2, <2>3, HeldParts
    <3>2. /\ d0.table = "document" /\ t0.table = "transcript" /\ s0.table = "segment"
          /\ SameDocument(d0, t0) /\ SameDocument(d0, s0) /\ SameDocument(t0, s0)
          /\ d0.value = "enriched" <=> transcript[r] # None
          /\ t0.video = Video(r) /\ t0.payload = transcript[r][2] /\ s0.payload = t0.payload
      BY DEF DocumentRow, TranscriptRow, SegmentRow, VideoRow, SameDocument
    <3>3. d0 \in txn[r]
      BY <3>1
    <3>30. <<t0.video, t0.payload>> \in Silent <=> empty
      BY <3>2
    <3> HIDE DEF d0, t0, s0, empty
    <3>4. \A d \in InTable(db, "document") : ~(d.source = d0.source /\ d.video = d0.video)
      <4>1. SUFFICES ASSUME NEW d \in db, d.table = "document",
                            d.source = d0.source, d.video = d0.video
                     PROVE  FALSE
        BY DEF InTable
      <4>2. Key(d0) = Key(d)
        BY <3>2, <4>1 DEF Key
      <4>3. d0.table = "ingest_state"
        BY <3>3, <4>2 DEF RowRules, KeyRules, HeldKeysFree
      <4> QED
        BY <3>2, <4>3
    <3>5. \A t \in InTable(db, "transcript") : ~SameDocument(d0, t)
      <4>1. SUFFICES ASSUME NEW t \in InTable(db, "transcript"), SameDocument(d0, t)
                     PROVE  FALSE
        OBVIOUS
      <4>2. PICK d \in InTable(db, "document") : SameDocument(d, t)
        BY <4>1 DEF NoHalfDocument
      <4> QED
        BY <3>4, <4>1, <4>2 DEF SameDocument
    <3>6. \A g \in InTable(db, "segment") : ~SameDocument(d0, g)
      <4>1. SUFFICES ASSUME NEW g \in InTable(db, "segment"), SameDocument(d0, g)
                     PROVE  FALSE
        OBVIOUS
      <4>2. PICK t \in InTable(db, "transcript") : SameDocument(t, g)
        BY <4>1 DEF NoHalfDocument
      <4> QED
        BY <3>5, <4>1, <4>2 DEF SameDocument
    <3>7. ASSUME NEW d \in InTable(db', "document")
          PROVE  d.value = "enriched" <=> \E t \in InTable(db', "transcript") : SameDocument(d, t)
      <4>1. d \in db \/ d \in txn[r]
        BY <2>1, <3>7 DEF InTable, Parts
      <4>2. CASE d \in db
        <5>1. d \in InTable(db, "document")
          BY <3>7, <4>2 DEF InTable
        <5>2. d.value = "enriched" <=> \E t \in InTable(db, "transcript") : SameDocument(d, t)
          BY <5>1 DEF NoHalfDocument
        <5>3. ASSUME NEW t \in InTable(db', "transcript"), SameDocument(d, t)
              PROVE  t \in InTable(db, "transcript")
          <6>1. t.table = "transcript" /\ (t \in db \/ t \in txn[r])
            BY <2>1, <5>3 DEF InTable, Parts
          <6>2. t # t0
            BY <3>2, <3>4, <5>1, <5>3 DEF SameDocument
          <6>3. t # d0 /\ t # s0
            BY <3>2, <6>1
          <6> QED
            BY <3>1, <6>1, <6>2, <6>3 DEF InTable
        <5>4. \A t \in InTable(db, "transcript") : t \in InTable(db', "transcript")
          BY <2>1 DEF InTable, Parts
        <5> QED
          BY <5>2, <5>3, <5>4
      <4>3. CASE d \in txn[r]
        <5>1. d = d0
          BY <3>1, <3>2, <3>7, <4>3 DEF InTable
        <5>2. \A t \in InTable(db', "transcript") : SameDocument(d0, t) => t \in txn[r]
          BY <2>1, <3>5 DEF InTable, Parts
        <5>3. CASE transcript[r] = None
          <6>1. ~ \E t \in InTable(db', "transcript") : SameDocument(d0, t)
            BY <3>1, <3>2, <5>2, <5>3 DEF InTable
          <6> QED
            BY <3>2, <5>1, <5>3, <6>1
        <5>4. CASE transcript[r] # None
          <6>1. t0 \in InTable(db', "transcript")
            BY <2>1, <3>1, <3>2, <5>4 DEF InTable, Parts
          <6> QED
            BY <3>2, <5>1, <5>4, <6>1
        <5> QED
          BY <5>3, <5>4
      <4> QED
        BY <4>1, <4>2, <4>3
    <3>8. ASSUME NEW t \in InTable(db', "transcript")
          PROVE  /\ \E d \in InTable(db', "document") : SameDocument(d, t)
                 /\ <<t.video, t.payload>> \notin Silent
                      <=> \E g \in InTable(db', "segment") : SameDocument(t, g)
      <4>1. t.table = "transcript" /\ (t \in db \/ t \in txn[r])
        BY <2>1, <3>8 DEF InTable, Parts
      <4>2. CASE t \in db
        <5>1. t \in InTable(db, "transcript")
          BY <4>1, <4>2 DEF InTable
        <5>2. PICK d \in InTable(db, "document") : SameDocument(d, t)
          BY <5>1 DEF NoHalfDocument
        <5>3. d \in InTable(db', "document")
          BY <2>1, <5>2 DEF InTable, Parts
        <5>4. <<t.video, t.payload>> \notin Silent
                 <=> \E g \in InTable(db, "segment") : SameDocument(t, g)
          BY <5>1 DEF NoHalfDocument
        <5>5. ASSUME NEW g \in InTable(db', "segment"), SameDocument(t, g)
              PROVE  g \in InTable(db, "segment")
          <6>1. g.table = "segment" /\ (g \in db \/ g \in txn[r])
            BY <2>1, <5>5 DEF InTable, Parts
          <6>2. g # s0
            BY <3>2, <3>5, <5>1, <5>5 DEF SameDocument
          <6>3. g # d0 /\ g # t0
            BY <3>2, <6>1
          <6> QED
            BY <3>1, <6>1, <6>2, <6>3 DEF InTable
        <5>6. \A g \in InTable(db, "segment") : g \in InTable(db', "segment")
          BY <2>1 DEF InTable, Parts
        <5> QED
          BY <5>2, <5>3, <5>4, <5>5, <5>6
      <4>3. CASE t \in txn[r]
        <5>1. t = t0 /\ transcript[r] # None
          BY <3>1, <3>2, <4>1, <4>3
        <5>2. d0 \in InTable(db', "document")
          BY <2>1, <3>2, <3>3 DEF InTable, Parts
        <5>3. ASSUME NEW g \in InTable(db', "segment"), SameDocument(t0, g)
              PROVE  g = s0 /\ s0 \in txn[r]
          <6>1. g.table = "segment" /\ (g \in db \/ g \in txn[r])
            BY <2>1, <5>3 DEF InTable, Parts
          <6>2. g \notin db
            BY <3>2, <3>6, <5>3, <6>1 DEF InTable, SameDocument
          <6>3. g # d0 /\ g # t0
            BY <3>2, <6>1
          <6> QED
            BY <3>1, <6>1, <6>2, <6>3
        <5>4. s0 \in txn[r] => s0 \in InTable(db', "segment")
          BY <2>1, <3>2 DEF InTable, Parts
        <5> QED
          BY <3>1, <3>2, <3>30, <5>1, <5>2, <5>3, <5>4
      <4> QED
        BY <4>1, <4>2, <4>3
    <3>9. ASSUME NEW g \in InTable(db', "segment")
          PROVE  \E t \in InTable(db', "transcript") :
                    SameDocument(t, g) /\ t.payload = g.payload
      <4>1. g.table = "segment" /\ (g \in db \/ g \in txn[r])
        BY <2>1, <3>9 DEF InTable, Parts
      <4>2. CASE g \in db
        <5>1. PICK t \in InTable(db, "transcript") : SameDocument(t, g) /\ t.payload = g.payload
          BY <4>1, <4>2 DEF NoHalfDocument, InTable
        <5>2. t \in InTable(db', "transcript")
          BY <2>1, <5>1 DEF InTable, Parts
        <5> QED
          BY <5>1, <5>2
      <4>3. CASE g \in txn[r]
        <5>1. g = s0 /\ t0 \in txn[r]
          BY <3>1, <3>2, <4>1, <4>3
        <5>2. t0 \in InTable(db', "transcript")
          BY <2>1, <3>2, <5>1 DEF InTable, Parts
        <5> QED
          BY <3>2, <5>1, <5>2
      <4> QED
        BY <4>1, <4>2, <4>3
    <3> QED
      BY <3>7, <3>8, <3>9 DEF NoHalfDocument, InTable, SameDocument
  <2> QED
    BY <2>2, <2>3
<1> QED
  BY <1>1, <1>2, DatabaseStep DEF Next, Idle, vars, store

\* Whatever runs, kills and failures come between its steps, a document is committed with
\* its transcript, and with its segments unless the response has none, or it is marked
\* failed and comes without them.
THEOREM DocumentsWhole == Spec => []NoHalfDocument
<1>1. Init => NoHalfDocument
  BY DEF Init, NoHalfDocument, InTable
<1> QED
  BY <1>1, TypedInit, TypedStep, RowRulesInit, RowRulesStep, WholeStep, PTL DEF Spec

-----------------------------------------------------------------------------
(* The archive.  From the fetch to the commit, the response of a run's      *)
(* transcript is still to archive or is in the archive, and it is there     *)
(* when the rows are flushed.                                               *)

Unarchived == {"archive", "put", "write", "replace"}
Persisting == Unarchived \cup {"transcript", "segments", "commit"}

InArchive(r) == bronze[KeyOf(Video(r), transcript[r])] # None
ToArchive(r) == \E i \in 1..Len(raws[r]) : raws[r][i] = transcript[r]

ArchivedOf(r) ==
    pc[r] \in Persisting /\ transcript[r] # None =>
        InArchive(r) \/ (ToArchive(r) /\ pc[r] \in Unarchived)

\* A committed transcript row names the archive key of its response.
KeyOfRow(t) == <<t.value, t.video, t.payload>>
TranscriptsNamed ==
    \A t \in db : t.table = "transcript" => KeyOfRow(t) \in BronzeKeys /\ bronze[KeyOfRow(t)] # None

Archived == (\A r \in Runs : ArchivedOf(r)) /\ TranscriptsNamed

(* Of a key that two runs never had in hand at once, the entry is whole:    *)
(* its one writer opened an empty file, filled it where it was, and nobody  *)
(* renames it before.                                                       *)
SoundEntry(k) ==
    k \notin crossed =>
        /\ bronze[k] \in Whole \cup {None}
        /\ \A q, r \in Writing(k) : q = r
        /\ \A r \in Writing(k) :
              /\ pc[r] = "write" => file[r] = "temp" /\ temp[k] = Partial
              /\ pc[r] = "replace" => temp[k] = Stamp(r)

Entries == \A k \in BronzeKeys : SoundEntry(k)

LEMMA KeyType ==
    ASSUME Typed, NEW r \in Runs, pc[r] \in HasVideo, transcript[r] # None
    PROVE  KeyOf(Video(r), transcript[r]) \in BronzeKeys
<1>1. Video(r) \in Videos
  BY VideoType DEF Typed, InRange
<1>2. transcript[r][1] \in Providers /\ transcript[r][2] \in Payloads
  BY DEF Typed, TypeOK
<1> QED
  BY <1>1, <1>2 DEF KeyOf, BronzeKeys

\* Three steps write to the archive's files.
Writes(r) == BronzeOpen(r) \/ BronzeFill(r) \/ BronzeReplace(r)

LEMMA FilesStep ==
    ASSUME Typed, NEW r \in Runs, Begin(r) \/ Step(r) \/ Kill(r), ~ Writes(r)
    PROVE  /\ bronze' = bronze /\ temp' = temp /\ crossed' = crossed
           /\ \A q \in Runs : pc'[q] # "killed" => file'[q] = file[q]
<1>1. CASE Prepare(r)
  BY <1>1 DEF Prepare, store, files, SelectTenant, InsertTenant, TenantRace, CommitTenant,
     SelectSource, InsertSource, SourceRace, CommitSource, SeedRaises, Discover,
     DiscoverRaises, QueryExisting, Finish, Flush, IntegrityError
<1>2. CASE Fetch(r)
  BY <1>2 DEF Fetch, store, files, Skip, StartFetch, FetchReturns, SourceError,
     CreditBudgetExceeded, FetchRaises
<1>3. CASE Persist(r)
  BY <1>3 DEF Writes, Persist, store, files, BronzeLookup, BronzeWriteConflict,
     BronzeReplaceRaises, FlushDocument, DocumentRace, FlushTranscript, FlushSegments,
     NoSegments, CommitVideo, Flush, IntegrityError
<1>4. CASE Close(r)
  BY <1>4 DEF Close, store, files, EndOfListing, TouchIngestState, CommitState
<1>5. CASE Begin(r) \/ Kill(r)
  BY <1>5 DEF Begin, Kill, store, files, Goto, Typed, TypeOK
<1> QED
  BY <1>1, <1>2, <1>3, <1>4, <1>5 DEF Step

\* No step takes a file out of the archive.
BronzeGrows ==
    \A k \in BronzeKeys : bronze[k] # None => bronze'[k] # None

LEMMA Grows ==
    ASSUME Typed, [Next]_vars
    PROVE  BronzeGrows
<1>0. bronze \in [BronzeKeys -> Contents] /\ temp \in [BronzeKeys -> Contents]
  BY DEF Typed, TypeOK
<1>1. CASE bronze' = bronze
  BY <1>1 DEF BronzeGrows
<1>2. ASSUME NEW r \in Runs, BronzeFill(r) PROVE BronzeGrows
  <2> DEFINE k == Archiving(r)
  <2>1. k \in BronzeKeys /\ Stamp(r) \in Whole
    BY <1>2, ArchivingType DEF BronzeFill, At, Typed, InRange, HasVideo, HasRaws
  <2>2. PICK content \in Filled(r, IF file[r] = "temp" THEN temp[k] ELSE bronze[k]) :
           bronze' = [bronze EXCEPT ![k] = IF file[r] = "entry" THEN content ELSE @]
    BY <1>2 DEF BronzeFill
  <2>3. content # None
    BY <2>1, <2>2 DEF Filled, Whole
  <2> HIDE DEF k
  <2> QED
    BY <1>0, <2>1, <2>2, <2>3 DEF BronzeGrows
<1>3. ASSUME NEW r \in Runs, BronzeReplace(r) PROVE BronzeGrows
  <2> DEFINE k == Archiving(r)
  <2>1. bronze' = [bronze EXCEPT ![k] = temp[k]] /\ temp[k] # None
    BY <1>3 DEF BronzeReplace
  <2> HIDE DEF k
  <2> QED
    BY <1>0, <2>1 DEF BronzeGrows
<1>4. ASSUME NEW r \in Runs, BronzeOpen(r) PROVE BronzeGrows
  BY <1>1, <1>4 DEF BronzeOpen
<1>5. ASSUME NEW r \in Runs, Begin(r) \/ Step(r) \/ Kill(r), ~ Writes(r)
      PROVE  bronze' = bronze
  BY <1>5, FilesStep
<1> QED
  BY <1>1, <1>2, <1>3, <1>4, <1>5 DEF Next, Idle, vars, store, files, Writes

\* A run that neither archives nor fetches keeps its response where it is.
SameFetch(q) ==
    pc'[q] \in Persisting =>
        /\ pc[q] \in Persisting
        /\ pc'[q] \in Unarchived => pc[q] \in Unarchived
        /\ pc'[q] \in HasRaws => pc'[q] = pc[q]
        /\ pc[q] \in Unarchived /\ pc'[q] \notin Unarchived => raws[q] = <<>>
        /\ raws'[q] = raws[q]
        /\ transcript'[q] = transcript[q]
        /\ Video(q)' = Video(q)
        /\ Source(q)' = Source(q)

LEMMA FetchKept ==
    ASSUME Typed, BronzeGrows, NEW q \in Runs, ArchivedOf(q),
           pc'[q] \in Persisting =>
              /\ pc[q] \in Persisting
              /\ pc[q] \in Unarchived /\ pc'[q] \notin Unarchived => raws[q] = <<>>
              /\ raws'[q] = raws[q]
              /\ transcript'[q] = transcript[q]
              /\ Video(q)' = Video(q)
    PROVE  ArchivedOf(q)'
<1> SUFFICES ASSUME pc'[q] \in Persisting, transcript'[q] # None
             PROVE  InArchive(q)' \/ (ToArchive(q)' /\ pc'[q] \in Unarchived)
  BY DEF ArchivedOf
<1>1. InArchive(q) \/ (ToArchive(q) /\ pc[q] \in Unarchived)
  BY DEF ArchivedOf
<1>2. CASE InArchive(q)
  <2>1. KeyOf(Video(q), transcript[q]) \in BronzeKeys
    BY KeyType DEF Persisting, Unarchived, HasVideo
  <2> QED
    BY <1>2, <2>1 DEF InArchive, BronzeGrows, KeyOf
<1>3. CASE ToArchive(q) /\ pc[q] \in Unarchived
  <2>1. raws[q] # <<>>
    BY <1>3 DEF ToArchive
  <2> QED
    BY <1>3, <2>1 DEF ToArchive
<1> QED
  BY <1>1, <1>2, <1>3

\* The other runs, and all but a few steps of the run itself.
LEMMA OthersFetch ==
    ASSUME Typed, NEW r \in Runs, NEW q \in Runs, Begin(r) \/ Step(r) \/ Kill(r),
           q # r \/ ~ (FetchReturns(r) \/ BronzeLookup(r) \/ Writes(r))
    PROVE  SameFetch(q)
<1> USE DEF Typed, TypeOK, SameFetch, Persisting, Unarchived, HasRaws, Video, Source, At,
            Goto, Terminal, locals
<1>2. CASE Begin(r) \/ Kill(r)
  BY <1>2 DEF Begin, Kill
<1>3. CASE Prepare(r)
  <2>1. q # r => /\ pc'[q] = pc[q] /\ raws'[q] = raws[q] /\ transcript'[q] = transcript[q]
                 /\ listing'[q] = listing[q] /\ ix'[q] = ix[q] /\ seedIx'[q] = seedIx[q]
    BY <1>3 DEF Prepare, SelectTenant, InsertTenant, TenantRace, CommitTenant, SelectSource,
       InsertSource, SourceRace, CommitSource, SeedRaises, Discover, DiscoverRaises,
       QueryExisting, Finish, Flush, IntegrityError, Raise
  <2>2. pc'[r] \notin Persisting
    BY <1>3 DEF Prepare, SelectTenant, InsertTenant, TenantRace, CommitTenant, SelectSource,
       InsertSource, SourceRace, CommitSource, SeedRaises, Discover, DiscoverRaises,
       QueryExisting, Finish, Flush, IntegrityError, Raise
  <2> QED
    BY <2>1, <2>2
<1>4. CASE Fetch(r)
  <2>1. q # r => /\ pc'[q] = pc[q] /\ raws'[q] = raws[q] /\ transcript'[q] = transcript[q]
                 /\ listing'[q] = listing[q] /\ ix'[q] = ix[q] /\ seedIx'[q] = seedIx[q]
    BY <1>4 DEF Fetch, Skip, StartFetch, FetchReturns, SourceError, CreditBudgetExceeded,
       FetchRaises, Raise
  <2>2. q = r => pc'[r] \notin Persisting
    BY <1>4 DEF Fetch, Skip, StartFetch, SourceError, CreditBudgetExceeded, FetchRaises, Raise
  <2> QED
    BY <2>1, <2>2
<1>5. CASE Persist(r)
  <2>1. q # r => /\ pc'[q] = pc[q] /\ raws'[q] = raws[q] /\ transcript'[q] = transcript[q]
                 /\ listing'[q] = listing[q] /\ ix'[q] = ix[q] /\ seedIx'[q] = seedIx[q]
    BY <1>5 DEF Persist, BronzeLookup, BronzeWriteConflict, BronzeOpen, BronzeFill,
       BronzeReplace, BronzeReplaceRaises, FlushDocument, DocumentRace, FlushTranscript,
       FlushSegments, NoSegments, CommitVideo, Flush, IntegrityError, Raise
  <2>2. CASE q # r
    BY <2>1, <2>2
  <2>3. CASE q = r /\ (\/ BronzeWriteConflict(r) \/ BronzeReplaceRaises(r)
                       \/ DocumentRace(r) \/ CommitVideo(r))
    BY <2>3 DEF BronzeWriteConflict, BronzeReplaceRaises, DocumentRace, CommitVideo,
       IntegrityError, Raise
  <2>4. CASE q = r /\ FlushDocument(r)
    <3>1. /\ pc[r] = "archive" /\ raws[r] = <<>> /\ pc'[r] = AfterDocument(r)
          /\ UNCHANGED <<raws, transcript, listing, ix, seedIx>>
      BY <2>4 DEF FlushDocument, Flush
    <3>2. AfterDocument(r) \in {"commit", "transcript"}
      BY DEF AfterDocument
    <3> QED
      BY <2>4, <3>1, <3>2
  <2>5. CASE q = r /\ (FlushTranscript(r) \/ FlushSegments(r) \/ NoSegments(r))
    <3>1. /\ pc[r] \in {"transcript", "segments"} /\ pc'[r] \in {"segments", "commit"}
          /\ UNCHANGED <<raws, transcript, listing, ix, seedIx>>
      BY <2>5 DEF FlushTranscript, FlushSegments, NoSegments, Flush
    <3> QED
      BY <2>5, <3>1
  <2> QED
    BY <1>5, <2>2, <2>3, <2>4, <2>5 DEF Persist, Writes
<1>6. CASE Close(r)
  BY <1>6 DEF Close, EndOfListing, TouchIngestState, CommitState
<1> QED
  BY <1>2, <1>3, <1>4, <1>5, <1>6 DEF Step

\* What is appended to a sequence is its last element.
LEMMA Appended ==
    ASSUME NEW S, NEW m \in Seq(S), NEW x \in S
    PROVE  /\ Len(m \o <<x>>) = Len(m) + 1
           /\ (m \o <<x>>)[Len(m) + 1] = x
OBVIOUS

\* FetchResult.raw ends with the response of the transcript, if there is one.
LEMMA FetchArchives ==
    ASSUME Typed, NEW r \in Runs, FetchReturns(r)
    PROVE  ArchivedOf(r)'
<1>1. PICK t \in (Providers \X Payloads) \cup {None}, m \in MetadataRaws :
         /\ transcript' = [transcript EXCEPT ![r] = t]
         /\ raws' = [raws EXCEPT ![r] = m \o TranscriptRaws(t)]
  BY DEF FetchReturns
<1>2. transcript'[r] = t /\ raws'[r] = m \o TranscriptRaws(t) /\ pc'[r] = "archive"
  BY <1>1 DEF FetchReturns, Goto, Typed, TypeOK
<1>3. CASE t # None
  <2>1. t \in Raw /\ TranscriptRaws(t) = <<t>>
    BY <1>3 DEF TranscriptRaws, Raw
  <2>2. m \in Seq(Raw)
    <3>1. CASE m = <<>>
      BY <3>1
    <3>2. CASE \E x \in Payloads : m = <<<<"metadata", x>>>>
      BY <3>2 DEF Raw
    <3> QED
      BY <3>1, <3>2 DEF MetadataRaws
  <2>3. Len(m) \in Nat /\ Len(m \o <<t>>) = Len(m) + 1 /\ (m \o <<t>>)[Len(m) + 1] = t
    <3>1. Len(m) \in Nat
      BY <2>2
    <3> QED
      BY <2>1, <2>2, <3>1, Appended
  <2>4. Len(m) + 1 \in 1..Len(m \o <<t>>)
    BY <2>3
  <2>5. ToArchive(r)'
    BY <1>2, <2>1, <2>3, <2>4 DEF ToArchive
  <2> QED
    BY <1>2, <2>5 DEF ArchivedOf, Unarchived
<1>4. CASE t = None
  BY <1>2, <1>4 DEF ArchivedOf
<1> QED
  BY <1>3, <1>4

\* What leaves the list of responses to archive is in the archive.
LEMMA HeadArchived ==
    ASSUME Typed, BronzeGrows, NEW r \in Runs, ArchivedOf(r), pc[r] \in Unarchived,
           raws[r] # <<>>, raws'[r] = Tail(raws[r]), bronze'[Archiving(r)] # None,
           UNCHANGED <<transcript, ix, listing>>, pc'[r] = "archive"
    PROVE  ArchivedOf(r)'
<1> SUFFICES ASSUME transcript[r] # None
             PROVE  InArchive(r)' \/ ToArchive(r)'
  BY DEF ArchivedOf, Unarchived
<1>1. Video(r)' = Video(r) /\ raws[r] \in Seq(Raw)
  BY DEF Video, Typed, TypeOK
<1>3. InArchive(r) \/ ToArchive(r)
  BY DEF ArchivedOf, Persisting
<1>4. CASE InArchive(r)
  <2>1. KeyOf(Video(r), transcript[r]) \in BronzeKeys
    BY KeyType DEF Unarchived, HasVideo
  <2> QED
    BY <1>1, <1>4, <2>1 DEF InArchive, BronzeGrows, KeyOf
<1>5. CASE ToArchive(r)
  <2>1. PICK i \in 1..Len(raws[r]) : raws[r][i] = transcript[r]
    BY <1>5 DEF ToArchive
  <2>2. /\ Head(raws[r]) = raws[r][1] /\ Len(raws[r]) \in Nat
        /\ Len(Tail(raws[r])) = Len(raws[r]) - 1
        /\ \A j \in 1..Len(Tail(raws[r])) : Tail(raws[r])[j] = raws[r][j + 1]
    BY <1>1, HeadTailProperties
  <2>3. CASE i = 1
    <3>1. Archiving(r) = KeyOf(Video(r), transcript[r])
      BY <2>1, <2>2, <2>3 DEF Archiving
    <3> QED
      BY <1>1, <3>1 DEF InArchive, KeyOf
  <2>4. CASE i # 1
    <3>1. i - 1 \in 1..Len(Tail(raws[r])) /\ (i - 1) + 1 = i
      BY <2>2, <2>4
    <3>2. raws'[r][i - 1] = transcript[r]
      BY <2>1, <2>2, <3>1
    <3> QED
      BY <3>1, <3>2 DEF ToArchive
  <2> QED
    BY <2>3, <2>4
<1> QED
  BY <1>3, <1>4, <1>5

LEMMA ArchivedStep == Typed /\ RowRules /\ Archived /\ [Next]_vars => Archived'
<1> SUFFICES ASSUME Typed, RowRules, Archived, [Next]_vars
             PROVE  Archived'
  OBVIOUS
<1>1. BronzeGrows
  BY Grows
<1>2. ASSUME NEW q \in Runs PROVE ArchivedOf(q)'
  <2>1. ArchivedOf(q)
    BY DEF Archived
  <2>2. CASE UNCHANGED vars
    BY <2>1, <2>2 DEF vars, store, files, locals, ArchivedOf, InArchive, ToArchive, Video, KeyOf
  <2>3. ASSUME NEW r \in Runs, Begin(r) \/ Step(r) \/ Kill(r) PROVE ArchivedOf(q)'
    <3>1. CASE q # r \/ ~(FetchReturns(r) \/ BronzeLookup(r) \/ Writes(r))
      BY <1>1, <2>1, <2>3, <3>1, OthersFetch, FetchKept DEF SameFetch
    <3>2. CASE q = r /\ FetchReturns(r)
      BY <3>2, FetchArchives
    <3>3. CASE q = r /\ BronzeLookup(r) /\ bronze[Archiving(r)] = None
      <4>1. /\ pc[r] = "archive" /\ pc'[r] = "put"
            /\ UNCHANGED <<raws, transcript, listing, ix>>
        BY <3>3 DEF BronzeLookup, At, Goto, Typed, TypeOK
      <4> QED
        BY <1>1, <2>1, <3>3, <4>1, FetchKept DEF Persisting, Unarchived, Video
    <3>4. CASE q = r /\ BronzeLookup(r) /\ bronze[Archiving(r)] # None
      <4>1. /\ pc[r] \in Unarchived /\ pc'[r] = "archive" /\ raws[r] # <<>>
            /\ raws'[r] = Tail(raws[r]) /\ bronze' = bronze
            /\ UNCHANGED <<transcript, listing, ix>>
        BY <3>4 DEF BronzeLookup, At, Typed, TypeOK, store, files, Unarchived
      <4> QED
        BY <1>1, <2>1, <3>4, <4>1, HeadArchived
    <3>5. CASE q = r /\ (BronzeOpen(r) \/ BronzeFill(r))
      <4>1. /\ pc[r] \in {"put", "write"} /\ pc'[r] \in {"write", "replace"}
            /\ UNCHANGED <<raws, transcript, listing, ix>>
        BY <3>5 DEF BronzeOpen, BronzeFill, At, Goto, locals, Typed, TypeOK
      <4> QED
        BY <1>1, <2>1, <3>5, <4>1, FetchKept DEF Persisting, Unarchived, Video
    <3>6. CASE q = r /\ BronzeReplace(r)
      <4>1. /\ pc[r] = "replace" /\ pc'[r] = "archive" /\ raws'[r] = Tail(raws[r])
            /\ bronze' = [bronze EXCEPT ![Archiving(r)] = temp[Archiving(r)]]
            /\ temp[Archiving(r)] # None
            /\ UNCHANGED <<transcript, listing, ix>>
        BY <3>6 DEF BronzeReplace, At, Goto, Typed, TypeOK
      <4>2. raws[r] # <<>> /\ pc[r] \in HasVideo /\ pc[r] \in Unarchived
        BY <4>1 DEF Typed, InRange, HasVideo, HasRaws, Unarchived
      <4>3. Archiving(r) \in BronzeKeys
        BY <4>2, ArchivingType
      <4>4. bronze'[Archiving(r)] # None
        BY <4>1, <4>3 DEF Typed, TypeOK
      <4> QED
        BY <1>1, <2>1, <3>6, <4>1, <4>2, <4>4, HeadArchived
    <3> QED
      BY <3>1, <3>2, <3>3, <3>4, <3>5, <3>6 DEF Writes
  <2> QED
    BY <2>2, <2>3 DEF Next, Idle
<1>3. ASSUME NEW t \in db', t.table = "transcript"
      PROVE  KeyOfRow(t) \in BronzeKeys /\ bronze'[KeyOfRow(t)] # None
  <2>1. CASE t \in db
    BY <1>1, <1>3, <2>1 DEF Archived, TranscriptsNamed, BronzeGrows
  <2>2. CASE t \notin db
    <3>1. PICK r \in Runs : Commit(r) /\ pc[r] \in CommitPlaces
      BY <1>3, <2>2, DatabaseStep DEF Next, Idle, vars, store
    <3>2. t \in txn[r] /\ t.table \in Parts
      BY <1>3, <2>2, <3>1 DEF Commit, Parts
    <3>0. DocumentRow(r).table = "document" /\ SegmentRow(r).table = "segment"
      BY DEF DocumentRow, SegmentRow, VideoRow
    <3>3. /\ transcript[r] # None
          /\ txn[r] \subseteq {DocumentRow(r), TranscriptRow(r), SegmentRow(r)}
      BY <1>3, <3>0, <3>1, <3>2, HeldParts
    <3>4. t = TranscriptRow(r)
      <4>1. t \in {DocumentRow(r), TranscriptRow(r), SegmentRow(r)}
        BY <3>2, <3>3
      <4> QED
        BY <1>3, <3>0, <4>1
    <3>5. KeyOfRow(t) = KeyOf(Video(r), transcript[r])
      BY <3>4 DEF TranscriptRow, VideoRow, KeyOf, KeyOfRow
    <3>6. pc[r] = "commit"
      BY <3>1, <3>2, RowsOfDocument
    <3>7. KeyOf(Video(r), transcript[r]) \in BronzeKeys
      BY <3>3, <3>6, KeyType DEF HasVideo
    <3>8. InArchive(r)
      BY <3>3, <3>6 DEF Archived, ArchivedOf, Persisting, Unarchived
    <3> QED
      BY <1>1, <3>5, <3>7, <3>8 DEF BronzeGrows, InArchive
  <2> QED
    BY <2>1, <2>2
<1> QED
  BY <1>2, <1>3 DEF Archived, TranscriptsNamed, KeyOfRow

\* Who writes to the files of a key.
LEMMA WriterType ==
    ASSUME Typed, NEW k, NEW q \in Writing(k)
    PROVE  /\ q \in Runs /\ pc[q] \in HasVideo /\ raws[q] # <<>> /\ Archiving(q) = k
           /\ Stamp(q) \in Whole /\ Stamp(q) # None
<1>1. q \in Runs /\ pc[q] \in HasVideo /\ raws[q] # <<>> /\ Archiving(q) = k
  BY DEF Writing, Typed, InRange, HasVideo, HasRaws
<1>2. Stamp(q) \in Whole
  BY <1>1, ArchivingType
<1> QED
  BY <1>1, <1>2 DEF Whole

\* A step that leaves the files of a key alone, and brings it no writer.
LEMMA EntryKept ==
    ASSUME NEW k, SoundEntry(k), bronze'[k] = bronze[k], temp'[k] = temp[k],
           k \notin crossed' => k \notin crossed,
           \A q \in Writing(k)' : /\ q \in Writing(k)
                                  /\ pc'[q] = pc[q]
                                  /\ file'[q] = file[q]
                                  /\ Stamp(q)' = Stamp(q)
    PROVE  SoundEntry(k)'
<1> SUFFICES ASSUME k \notin crossed'
             PROVE  /\ bronze'[k] \in Whole \cup {None}
                    /\ \A q, r \in Writing(k)' : q = r
                    /\ \A r \in Writing(k)' :
                          /\ pc'[r] = "write" => file'[r] = "temp" /\ temp'[k] = Partial
                          /\ pc'[r] = "replace" => temp'[k] = Stamp(r)'
  BY DEF SoundEntry
<1> QED
  BY DEF SoundEntry

\* A run that keeps what it has in hand writes to the key it wrote to.
LEMMA WriterKept ==
    ASSUME NEW k, NEW q \in Writing(k)', SameFetch(q)
    PROVE  q \in Writing(k) /\ pc'[q] = pc[q] /\ Stamp(q)' = Stamp(q) /\ pc'[q] # "killed"
<1>1. q \in Runs /\ pc'[q] \in {"write", "replace"} /\ Archiving(q)' = k
  BY DEF Writing
<1>2. Archiving(q)' = Archiving(q) /\ Stamp(q)' = Stamp(q) /\ pc'[q] = pc[q]
  BY <1>1 DEF SameFetch, Persisting, Unarchived, HasRaws, Archiving, KeyOf, Stamp
<1> QED
  BY <1>1, <1>2 DEF Writing

LEMMA EntriesStep == Typed /\ Entries /\ [Next]_vars => Entries'
<1> SUFFICES ASSUME Typed, Entries, [Next]_vars, NEW k \in BronzeKeys
             PROVE  SoundEntry(k)'
  BY DEF Entries, BronzeKeys
<1>1. SoundEntry(k)
  BY DEF Entries
<1>2. CASE UNCHANGED vars
  <2>1. \A q \in Runs : Archiving(q)' = Archiving(q) /\ Stamp(q)' = Stamp(q)
    BY <1>2 DEF vars, locals, Archiving, KeyOf, Video, Stamp, Source
  <2>2. Writing(k)' = Writing(k)
    BY <1>2, <2>1 DEF vars, Writing
  <2> QED
    BY <1>1, <1>2, <2>1, <2>2, EntryKept DEF vars, store, files, Writing
<1>3. ASSUME NEW r \in Runs, Begin(r) \/ Step(r) \/ Kill(r), ~ Writes(r)
      PROVE  SoundEntry(k)'
  <2>1. /\ bronze' = bronze /\ temp' = temp /\ crossed' = crossed
        /\ \A q \in Runs : pc'[q] # "killed" => file'[q] = file[q]
    BY <1>3, FilesStep
  <2>2. ASSUME NEW q \in Writing(k)'
        PROVE  /\ q \in Writing(k) /\ pc'[q] = pc[q] /\ Stamp(q)' = Stamp(q)
               /\ pc'[q] # "killed"
    <3>1. q \in Runs /\ pc'[q] \in {"write", "replace"}
      BY <2>2 DEF Writing
    <3>2. CASE q = r /\ (FetchReturns(r) \/ BronzeLookup(r))
      <4>1. pc'[r] \in {"archive", "put"}
        BY <3>2 DEF FetchReturns, BronzeLookup, At, Goto, Typed, TypeOK
      <4> QED
        BY <3>1, <3>2, <4>1
    <3>3. CASE ~ (q = r /\ (FetchReturns(r) \/ BronzeLookup(r)))
      BY <1>3, <2>2, <3>1, <3>3, OthersFetch, WriterKept
    <3> QED
      BY <3>2, <3>3
  <2>3. \A q \in Writing(k)' : q \in Runs
    BY DEF Writing
  <2> QED
    BY <1>1, <2>1, <2>2, <2>3, EntryKept
<1>4. ASSUME NEW r \in Runs, Writes(r)
      PROVE  SoundEntry(k)'
  <2> DEFINE mine == Archiving(r)
  <2>1. Step(r)
    BY <1>4 DEF Writes, Step, Persist
  <2>2. \A q \in Writing(k)' \ {r} : q \in Writing(k) /\ pc'[q] = pc[q] /\ Stamp(q)' = Stamp(q)
    <3>1. ASSUME NEW q \in Writing(k)' \ {r}
          PROVE  q \in Writing(k) /\ pc'[q] = pc[q] /\ Stamp(q)' = Stamp(q)
      <4>1. q \in Runs
        BY DEF Writing
      <4> QED
        BY <2>1, <3>1, <4>1, OthersFetch, WriterKept
    <3> QED
      BY <3>1
  <2>3. /\ mine \in BronzeKeys /\ Stamp(r) \in Whole
        /\ pc[r] \in {"put", "write", "replace"}
    BY <1>4, ArchivingType DEF Writes, BronzeOpen, BronzeFill, BronzeReplace, At, Typed,
       InRange, HasVideo, HasRaws
  <2>4. bronze \in [BronzeKeys -> Contents] /\ temp \in [BronzeKeys -> Contents]
    BY DEF Typed, TypeOK
  <2>5. CASE BronzeOpen(r)
    <3>1. /\ pc[r] = "put" /\ pc'[r] = "write" /\ bronze' = bronze /\ file'[r] = "temp"
          /\ \A q \in Runs \ {r} : file'[q] = file[q]
          /\ temp' = [temp EXCEPT ![mine] =
                         IF \E q \in Writing(mine) : file[q] = "temp" THEN Mixed ELSE Partial]
          /\ crossed' = IF Writing(mine) = {} THEN crossed ELSE crossed \cup {mine}
          /\ Archiving(r)' = Archiving(r) /\ Stamp(r)' = Stamp(r)
      BY <2>5 DEF BronzeOpen, At, Goto, Typed, TypeOK, locals, Archiving, KeyOf, Video, Stamp,
         Source
    <3>2. CASE k # mine
      <4>1. r \notin Writing(k)'
        BY <3>1, <3>2 DEF Writing
      <4>2. temp'[k] = temp[k] /\ (k \notin crossed' => k \notin crossed)
        BY <3>1, <3>2
      <4>3. \A q \in Writing(k)' : q \in Runs
        BY DEF Writing
      <4> QED
        BY <1>1, <2>2, <3>1, <4>1, <4>2, <4>3, EntryKept
    <3>3. CASE k = mine
      <4>1. SUFFICES ASSUME k \notin crossed' PROVE SoundEntry(k)'
        BY DEF SoundEntry
      <4>2. Writing(k) = {} /\ k \notin crossed
        BY <3>1, <3>3, <4>1
      <4>3. temp'[k] = Partial
        BY <2>3, <2>4, <3>1, <3>3, <4>2
      <4>4. \A q \in Writing(k)' : q = r
        BY <2>2, <4>2
      <4> QED
        BY <1>1, <3>1, <4>2, <4>3, <4>4 DEF SoundEntry
    <3> QED
      BY <3>2, <3>3
  <2>6. CASE BronzeFill(r)
    <3>0. PICK content \in Filled(r, IF file[r] = "temp" THEN temp[mine] ELSE bronze[mine]) :
             /\ temp' = [temp EXCEPT ![mine] = IF file[r] = "temp" THEN content ELSE @]
             /\ bronze' = [bronze EXCEPT ![mine] = IF file[r] = "entry" THEN content ELSE @]
      BY <2>6 DEF BronzeFill
    <3>1. /\ pc[r] = "write" /\ pc'[r] = "replace" /\ crossed' = crossed
          /\ \A q \in Runs \ {r} : file'[q] = file[q]
          /\ Archiving(r)' = Archiving(r) /\ Stamp(r)' = Stamp(r)
      BY <2>6 DEF BronzeFill, At, Goto, Typed, TypeOK, locals, Archiving, KeyOf, Video, Stamp,
         Source
    <3>2. CASE k # mine
      <4>1. r \notin Writing(k)'
        BY <3>1, <3>2 DEF Writing
      <4>2. temp'[k] = temp[k] /\ bronze'[k] = bronze[k]
        BY <3>0, <3>2
      <4>3. \A q \in Writing(k)' : q \in Runs
        BY DEF Writing
      <4> QED
        BY <1>1, <2>2, <3>1, <4>1, <4>2, <4>3, EntryKept
    <3>3. CASE k = mine
      <4>1. SUFFICES ASSUME k \notin crossed PROVE SoundEntry(k)'
        BY <3>1 DEF SoundEntry
      <4>2. r \in Writing(k)
        BY <3>1, <3>3 DEF Writing
      <4>3. file[r] = "temp" /\ temp[k] = Partial /\ \A q \in Writing(k) : q = r
        BY <1>1, <3>1, <4>1, <4>2 DEF SoundEntry
      <4>4. content = Stamp(r)
        BY <3>0, <3>3, <4>3 DEF Filled
      <4>5. temp'[k] = Stamp(r) /\ bronze'[k] = bronze[k]
        BY <2>3, <2>4, <3>0, <3>3, <4>3, <4>4
      <4>6. \A q \in Writing(k)' : q = r
        BY <2>2, <4>3
      <4> QED
        BY <1>1, <3>1, <4>1, <4>5, <4>6 DEF SoundEntry
    <3> QED
      BY <3>2, <3>3
  <2>7. CASE BronzeReplace(r)
    <3>1. /\ pc[r] = "replace" /\ pc'[r] = "archive" /\ crossed' = crossed
          /\ bronze' = [bronze EXCEPT ![mine] = temp[mine]]
          /\ temp' = [temp EXCEPT ![mine] = None]
          /\ \A q \in Runs : q \notin Writing(mine) => file'[q] = file[q]
      BY <2>7 DEF BronzeReplace, At, Goto, Typed, TypeOK
    <3>2. r \notin Writing(k)'
      BY <3>1 DEF Writing
    <3>3. CASE k # mine
      <4>1. temp'[k] = temp[k] /\ bronze'[k] = bronze[k]
        BY <3>1, <3>3
      <4>2. \A q \in Writing(k)' : q \in Runs /\ q \notin Writing(mine)
        BY <2>2, <3>2, <3>3 DEF Writing
      <4> QED
        BY <1>1, <2>2, <3>1, <3>2, <4>1, <4>2, EntryKept
    <3>4. CASE k = mine
      <4>1. SUFFICES ASSUME k \notin crossed PROVE SoundEntry(k)'
        BY <3>1 DEF SoundEntry
      <4>2. r \in Writing(k)
        BY <3>1, <3>4 DEF Writing
      <4>3. temp[k] = Stamp(r) /\ \A q \in Writing(k) : q = r
        BY <1>1, <3>1, <4>1, <4>2 DEF SoundEntry
      <4>4. bronze'[k] \in Whole
        BY <2>3, <2>4, <3>1, <3>4, <4>3
      <4>5. Writing(k)' = {}
        BY <2>2, <3>2, <4>3
      <4> QED
        BY <4>4, <4>5 DEF SoundEntry, Whole
    <3> QED
      BY <3>3, <3>4
  <2> QED
    BY <1>4, <2>5, <2>6, <2>7 DEF Writes
<1> QED
  BY <1>2, <1>3, <1>4 DEF Next, Idle

LEMMA EntriesInit == Init => Entries
BY DEF Init, Entries, SoundEntry, Writing

LEMMA ArchivedInit == Init => Archived
BY DEF Init, Archived, ArchivedOf, Persisting, Unarchived, TranscriptsNamed

\* Whatever runs, kills and failures come between its steps, the response a transcript
\* was made from has an entry in the archive before the transcript is committed, and the
\* entry is whole unless two runs wrote it at once.
THEOREM ResponsesArchived == Spec => []TranscriptsArchived
<1>1. Archived /\ Entries => TranscriptsArchived
  BY DEF Archived, Entries, SoundEntry, TranscriptsNamed, TranscriptsArchived, KeyOfRow, InTable
<1> QED
  BY <1>1, ArchivedInit, EntriesInit, TypedInit, TypedStep, RowRulesInit, RowRulesStep,
     ArchivedStep, EntriesStep, PTL DEF Spec
=============================================================================
