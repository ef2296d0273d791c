---------------------------- MODULE IngestProofs ----------------------------
(***************************************************************************)
(* Theorems about Ingest, for every set of runs, channels and videos.      *)
(***************************************************************************)
EXTENDS Ingest, TLAPS, FiniteSetTheorems, SequenceTheorems

-----------------------------------------------------------------------------
(* Types.  A row is only well-typed when the run's position in its seeds    *)
(* and in its listing is a position of theirs, so the two go together.      *)

HasSource == {"insertSource", "commitSource", "discover", "existing"} \cup InListing
HasVideo == {"fetching", "archive", "put", "write", "replace", "transcript", "segments",
             "commit"}
HasRaws == {"put", "write", "replace"}
HasTranscript == {"transcript", "segments"}

InRange ==
    \A r \in Runs :
        /\ pc[r] \in HasSource => seedIx[r] <= Len(SeedsOf[r])
        /\ pc[r] \in HasVideo => ix[r] <= Len(listing[r])
        /\ pc[r] \in HasRaws => raws[r] # <<>>
        /\ pc[r] \in HasTranscript => transcript[r] # None

Typed == TypeOK /\ InRange

USE SeedsAssumption, LimitAssumption, CatalogueAssumption, VideosAssumption,
    NoneAssumption, ContentAssumption, EndpointAssumption, KillAssumption

\* The handle and the video a run is working on are a handle and a video.
LEMMA SourceType ==
    ASSUME Typed, NEW r \in Runs, seedIx[r] <= Len(SeedsOf[r])
    PROVE  Source(r) \in Sources
BY DEF Typed, TypeOK, Source

LEMMA VideoType ==
    ASSUME Typed, NEW r \in Runs, ix[r] <= Len(listing[r])
    PROVE  Video(r) \in Videos
BY DEF Typed, TypeOK, Video

\* The rows a run inserts are rows.
LEMMA TenantRowType ==
    ASSUME NEW r \in Runs
    PROVE  TenantRow(r) \in Row
BY DEF TenantRow, Row, Tables

LEMMA SourceRowType ==
    ASSUME Typed, NEW r \in Runs, seedIx[r] <= Len(SeedsOf[r])
    PROVE  SourceRow(r) \in Row /\ StateRow(r) \in Row
BY SourceType DEF SourceRow, StateRow, Row, Tables

LEMMA VideoRowType ==
    ASSUME Typed, NEW r \in Runs, pc[r] \in HasVideo
    PROVE  /\ DocumentRow(r) \in Row
           /\ transcript[r] # None => TranscriptRow(r) \in Row /\ SegmentRow(r) \in Row
<1>1. seedIx[r] <= Len(SeedsOf[r]) /\ ix[r] <= Len(listing[r])
  BY DEF Typed, InRange, HasVideo, HasSource, InListing
<1>2. Source(r) \in Sources /\ Video(r) \in Videos
  BY <1>1, SourceType, VideoType
<1>3. transcript[r] # None => transcript[r][1] \in Providers /\ transcript[r][2] \in Payloads
  BY DEF Typed, TypeOK
<1> QED
  BY <1>2, <1>3 DEF DocumentRow, TranscriptRow, SegmentRow, VideoRow, Row, Tables

\* What a run archives has a key, and its bytes a stamp.
LEMMA ArchivingType ==
    ASSUME Typed, NEW r \in Runs, pc[r] \in HasVideo, raws[r] # <<>>
    PROVE  /\ Archiving(r) \in BronzeKeys
           /\ Stamp(r) \in Whole
           /\ Tail(raws[r]) \in Seq(Raw)
<1>1. seedIx[r] <= Len(SeedsOf[r]) /\ ix[r] <= Len(listing[r])
  BY DEF Typed, InRange, HasVideo, HasSource, InListing
<1>2. Source(r) \in Sources /\ Video(r) \in Videos
  BY <1>1, SourceType, VideoType
<1>3. raws[r] \in Seq(Raw)
  BY DEF Typed, TypeOK
<1>4. Head(raws[r]) \in Raw /\ Tail(raws[r]) \in Seq(Raw)
  BY <1>3, HeadTailProperties
<1> QED
  BY <1>2, <1>4 DEF Archiving, KeyOf, BronzeKeys, Raw, Stamp, Whole

LEMMA EffectiveLimitType ==
    ASSUME NEW limit \in Nat, NEW cap \in Nat
    PROVE  EffectiveLimit(limit, cap) \in Nat
BY DEF EffectiveLimit

\* What discovery answers is a sequence of videos.
LEMMA ListingsType ==
    ASSUME NEW s \in Sources, NEW n \in Nat, NEW ids \in Listings(s, n)
    PROVE  ids \in Seq(Videos)
<1>1. PICK k \in 1..Len(Catalogue[s]) + 1 :
         ids = Limited(SubSeq(Catalogue[s], k, Len(Catalogue[s])), n)
  BY DEF Listings
<1>2. Catalogue[s] \in Seq(Videos)
  OBVIOUS
<1> DEFINE rest == SubSeq(Catalogue[s], k, Len(Catalogue[s]))
<1>3. rest \in Seq(Videos)
  BY <1>2, SubSeqProperties
<1>4. ASSUME n # 0, ~ (n >= Len(rest))
      PROVE  SubSeq(rest, 1, n) \in Seq(Videos)
  BY <1>3, <1>4, SubSeqProperties
<1> QED
  BY <1>1, <1>3, <1>4 DEF Limited

LEMMA RawsType ==
    ASSUME NEW t \in (Providers \X Payloads) \cup {None}, NEW m \in MetadataRaws
    PROVE  m \o TranscriptRaws(t) \in Seq(Raw)
<1>1. ASSUME NEW raw \in Raw
      PROVE  <<raw>> \in Seq(Raw)
  BY <1>1
<1>2. <<>> \in Seq(Raw)
  OBVIOUS
<1>3. m \in Seq(Raw)
  <2>1. CASE m = <<>>
    BY <2>1, <1>2
  <2>2. CASE \E p \in Payloads : m = <<<<"metadata", p>>>>
    BY <2>2, <1>1 DEF Raw
  <2> QED
    BY <2>1, <2>2 DEF MetadataRaws
<1>4. TranscriptRaws(t) \in Seq(Raw)
  <2>1. CASE t = None
    BY <2>1, <1>2 DEF TranscriptRaws
  <2>2. CASE t # None
    <3>1. t \in Raw
      BY <2>2 DEF Raw
    <3> QED
      BY <2>2, <3>1, <1>1 DEF TranscriptRaws
  <2> QED
    BY <2>1, <2>2
<1> QED
  BY <1>3, <1>4

\* Counters and positions go up by one.
LEMMA CounterType ==
    ASSUME NEW f, NEW S \in {Nat, Nat \ {0}}, f \in [Runs -> S], NEW r \in Runs
    PROVE  [f EXCEPT ![r] = f[r] + 1] \in [Runs -> S]
<1>1. f[r] \in S
  OBVIOUS
<1>2. CASE S = Nat
  BY <1>1, <1>2
<1>3. CASE S = Nat \ {0}
  BY <1>1, <1>3
<1> QED
  BY <1>2, <1>3

\* A commit moves well-typed rows.
LEMMA CommitType ==
    ASSUME Typed, NEW r \in Runs, Commit(r)
    PROVE  db' \subseteq Row /\ txn' \in [Runs -> SUBSET Row]
BY DEF Typed, TypeOK, Commit

\* The steps before the loop preserve the types.
LEMMA PrepareTyped ==
    ASSUME Typed, NEW r \in Runs, Prepare(r)
    PROVE  Typed'
<1> USE DEF Typed, TypeOK, InRange, At, Goto, HasSource, HasVideo, HasRaws,
            HasTranscript, InListing, Places,
            Terminal, store, files, locals
<1>1. CASE SelectTenant(r)
  BY <1>1 DEF SelectTenant
<1>2. CASE InsertTenant(r)
  BY <1>2, TenantRowType DEF InsertTenant, Flush
<1>3. CASE TenantRace(r)
  BY <1>3 DEF TenantRace, IntegrityError, Raise
<1>4. CASE CommitTenant(r)
  BY <1>4, CommitType DEF CommitTenant
<1>5. CASE SelectSource(r)
  BY <1>5 DEF SelectSource
<1>6. CASE InsertSource(r)
  BY <1>6, SourceRowType DEF InsertSource, Flush
<1>7. CASE SourceRace(r)
  BY <1>7 DEF SourceRace, IntegrityError, Raise
<1>8. CASE CommitSource(r)
  BY <1>8, CommitType DEF CommitSource
<1>9. CASE Discover(r)
  <2>1. TypeOK'
    <3>1. listing' \in [Runs -> Seq(Videos)]
      <4>1. Source(r) \in Sources
        BY <1>9, SourceType DEF Discover
      <4>2. EffectiveLimit(LimitOf[r], CapOf[Source(r)]) \in Nat
        BY <4>1, EffectiveLimitType
      <4>3. PICK ids \in Listings(Source(r), EffectiveLimit(LimitOf[r], CapOf[Source(r)])) :
               listing' = [listing EXCEPT ![r] = ids]
        BY <1>9 DEF Discover
      <4>4. ids \in Seq(Videos)
        BY <4>1, <4>2, ListingsType
      <4> QED
        BY <4>3, <4>4
    <3>2. pc' \in [Runs -> Places]
      BY <1>9 DEF Discover
    <3> QED
      BY <1>9, <3>1, <3>2 DEF Discover
  <2>2. InRange'
    BY <1>9 DEF Discover
  <2> QED
    BY <2>1, <2>2
<1>10. CASE DiscoverRaises(r)
  BY <1>10 DEF DiscoverRaises, Raise
<1>11. CASE QueryExisting(r)
  <2>1. TypeOK'
    <3>1. existing' \in [Runs -> SUBSET Videos]
      <4>1. \A j \in 1..Len(listing[r]) : listing[r][j] \in Videos
        OBVIOUS
      <4> QED
        BY <1>11, <4>1 DEF QueryExisting
    <3>2. ix' \in [Runs -> Nat \ {0}] /\ fetched' \in [Runs -> Nat]
      BY <1>11 DEF QueryExisting
    <3>3. errors' \in [Runs -> Seq(Videos)]
      BY <1>11 DEF QueryExisting
    <3>4. pc' \in [Runs -> Places]
      BY <1>11 DEF QueryExisting
    <3> QED
      BY <1>11, <3>1, <3>2, <3>3, <3>4 DEF QueryExisting
  <2>2. InRange'
    BY <1>11 DEF QueryExisting
  <2> QED
    BY <2>1, <2>2
<1>12. CASE Finish(r)
  BY <1>12 DEF Finish
<1>13. CASE SeedRaises(r)
  BY <1>13 DEF SeedRaises, Raise
<1> QED
  BY <1>1, <1>2, <1>3, <1>4, <1>5, <1>6, <1>7, <1>8, <1>9, <1>10, <1>11, <1>12, <1>13
     DEF Prepare

\* The steps of the loop up to a fetch result preserve the types.
LEMMA FetchTyped ==
    ASSUME Typed, NEW r \in Runs, Fetch(r)
    PROVE  Typed'
<1> USE DEF Typed, TypeOK, InRange, At, Goto, HasSource, HasVideo, HasRaws,
            HasTranscript, InListing, Places,
            Terminal, store, files, locals
<1>1. CASE Skip(r)
  <2>1. TypeOK'
    <3>1. ix' \in [Runs -> Nat \ {0}]
      BY <1>1 DEF Skip
    <3> QED
      BY <1>1, <3>1 DEF Skip
  <2>2. InRange'
    BY <1>1 DEF Skip
  <2> QED
    BY <2>1, <2>2
<1>2. CASE StartFetch(r)
  BY <1>2 DEF StartFetch
<1>3. CASE FetchReturns(r)
  <2>1. TypeOK'
    <3>1. raws' \in [Runs -> Seq(Raw)]
      <4>1. PICK t \in (Providers \X Payloads) \cup {None}, m \in MetadataRaws :
               raws' = [raws EXCEPT ![r] = m \o TranscriptRaws(t)]
        BY <1>3 DEF FetchReturns
      <4>2. m \o TranscriptRaws(t) \in Seq(Raw)
        BY RawsType
      <4> QED
        BY <4>1, <4>2
    <3>2. transcript' \in [Runs -> (Providers \X Payloads) \cup {None}]
      BY <1>3 DEF FetchReturns
    <3>3. pc' \in [Runs -> Places]
      BY <1>3 DEF FetchReturns
    <3> QED
      BY <1>3, <3>1, <3>2, <3>3 DEF FetchReturns
  <2>2. InRange'
    BY <1>3 DEF FetchReturns
  <2> QED
    BY <2>1, <2>2
<1>4. CASE SourceError(r)
  <2>1. TypeOK'
    <3>1. errors' \in [Runs -> Seq(Videos)]
      <4>1. Video(r) \in Videos
        BY <1>4, VideoType DEF SourceError
      <4> QED
        BY <1>4, <4>1 DEF SourceError
    <3>2. ix' \in [Runs -> Nat \ {0}]
      BY <1>4, CounterType DEF SourceError
    <3>3. pc' \in [Runs -> Places]
      BY <1>4 DEF SourceError
    <3> QED
      BY <1>4, <3>1, <3>2, <3>3 DEF SourceError
  <2>2. InRange'
    BY <1>4, VideoType DEF SourceError
  <2> QED
    BY <2>1, <2>2
<1>5. CASE CreditBudgetExceeded(r)
  BY <1>5 DEF CreditBudgetExceeded
<1>6. CASE FetchRaises(r)
  BY <1>6 DEF FetchRaises, Raise
<1> QED
  BY <1>1, <1>2, <1>3, <1>4, <1>5, <1>6 DEF Fetch

\* The steps of _persist and its commit preserve the types.
LEMMA PersistTyped ==
    ASSUME Typed, NEW r \in Runs, Persist(r)
    PROVE  Typed'
<1> USE DEF Typed, TypeOK, InRange, At, Goto, HasSource, HasVideo, HasRaws,
            HasTranscript, InListing, Places,
            Terminal, store, files, locals
<1>1. CASE BronzeLookup(r)
  <2>1. TypeOK'
    <3>1. raws' \in [Runs -> Seq(Raw)]
      <4>1. CASE raws' = raws
        BY <4>1
      <4>2. CASE raws' = [raws EXCEPT ![r] = Tail(@)]
        <5>1. raws[r] \in Seq(Raw) /\ raws[r] # <<>>
          BY <1>1 DEF BronzeLookup
        <5>2. Tail(raws[r]) \in Seq(Raw)
          BY <5>1, HeadTailProperties
        <5> QED
          BY <4>2, <5>2
      <4> QED
        BY <1>1, <4>1, <4>2 DEF BronzeLookup
    <3>2. pc' \in [Runs -> Places]
      <4>1. pc' = pc \/ pc' = [pc EXCEPT ![r] = "put"]
        BY <1>1 DEF BronzeLookup
      <4> QED
        BY <4>1
    <3> QED
      BY <1>1, <3>1, <3>2 DEF BronzeLookup
  <2>2. InRange'
    BY <1>1 DEF BronzeLookup
  <2> QED
    BY <2>1, <2>2
<1>2. CASE BronzeWriteConflict(r)
  BY <1>2 DEF BronzeWriteConflict, Raise
<1>3. CASE BronzeOpen(r)
  <2>1. TypeOK'
    <3>1. Archiving(r) \in BronzeKeys
      BY <1>3, ArchivingType DEF BronzeOpen
    <3>2. temp' \in [BronzeKeys -> Contents] /\ crossed' \subseteq BronzeKeys
      BY <1>3, <3>1 DEF BronzeOpen, Contents
    <3>3. /\ file' \in [Runs -> {"closed", "temp", "entry", "replaced"}]
          /\ pc' \in [Runs -> Places]
      BY <1>3 DEF BronzeOpen
    <3> QED
      BY <1>3, <3>2, <3>3 DEF BronzeOpen
  <2>2. InRange'
    BY <1>3 DEF BronzeOpen
  <2> QED
    BY <2>1, <2>2
<1>9. CASE BronzeFill(r)
  <2> DEFINE k == Archiving(r)
  <2>1. TypeOK'
    <3>1. k \in BronzeKeys /\ Stamp(r) \in Whole
      BY <1>9, ArchivingType DEF BronzeFill
    <3>2. PICK content \in Filled(r, IF file[r] = "temp" THEN temp[k] ELSE bronze[k]) :
             /\ temp' = [temp EXCEPT ![k] = IF file[r] = "temp" THEN content ELSE @]
             /\ bronze' = [bronze EXCEPT ![k] = IF file[r] = "entry" THEN content ELSE @]
      BY <1>9 DEF BronzeFill
    <3>3. content \in Contents
      BY <3>1, <3>2 DEF Filled, Contents
    <3>4. bronze' \in [BronzeKeys -> Contents] /\ temp' \in [BronzeKeys -> Contents]
      BY <3>2, <3>3
    <3>5. /\ file' \in [Runs -> {"closed", "temp", "entry", "replaced"}]
          /\ pc' \in [Runs -> Places]
      BY <1>9 DEF BronzeFill
    <3> QED
      BY <1>9, <3>4, <3>5 DEF BronzeFill
  <2>2. InRange'
    BY <1>9 DEF BronzeFill
  <2> QED
    BY <2>1, <2>2
<1>10. CASE BronzeReplace(r)
  <2>1. TypeOK'
    <3>1. Archiving(r) \in BronzeKeys /\ Tail(raws[r]) \in Seq(Raw)
      BY <1>10, ArchivingType DEF BronzeReplace
    <3>2. bronze' \in [BronzeKeys -> Contents] /\ temp' \in [BronzeKeys -> Contents]
      BY <1>10, <3>1 DEF BronzeReplace, Contents
    <3>3. raws' \in [Runs -> Seq(Raw)] /\ pc' \in [Runs -> Places]
      BY <1>10, <3>1 DEF BronzeReplace
    <3>4. file' \in [Runs -> {"closed", "temp", "entry", "replaced"}]
      BY <1>10 DEF BronzeReplace, Moved
    <3> QED
      BY <1>10, <3>2, <3>3, <3>4 DEF BronzeReplace
  <2>2. InRange'
    BY <1>10 DEF BronzeReplace
  <2> QED
    BY <2>1, <2>2
<1>11. CASE BronzeReplaceRaises(r)
  BY <1>11 DEF BronzeReplaceRaises, Raise
<1>4. CASE FlushDocument(r)
  BY <1>4, VideoRowType DEF FlushDocument, Flush, AfterDocument
<1>5. CASE DocumentRace(r)
  BY <1>5 DEF DocumentRace, IntegrityError, Raise
<1>6. CASE FlushTranscript(r)
  BY <1>6, VideoRowType DEF FlushTranscript, Flush
<1>7. CASE FlushSegments(r)
  BY <1>7, VideoRowType DEF FlushSegments, Flush
<1>12. CASE NoSegments(r)
  BY <1>12 DEF NoSegments
<1>8. CASE CommitVideo(r)
  <2>1. TypeOK'
    <3>1. fetched' \in [Runs -> Nat] /\ ix' \in [Runs -> Nat \ {0}]
      <4>1. /\ fetched' = [fetched EXCEPT ![r] = @ + 1] /\ fetched \in [Runs -> Nat]
            /\ ix' = [ix EXCEPT ![r] = @ + 1] /\ ix \in [Runs -> Nat \ {0}]
        BY <1>8 DEF CommitVideo
      <4> HIDE DEF Typed, TypeOK, InRange
      <4> QED
        BY <4>1, CounterType
    <3>2. db' \subseteq Row /\ txn' \in [Runs -> SUBSET Row] /\ pc' \in [Runs -> Places]
      BY <1>8, CommitType DEF CommitVideo
    <3> QED
      BY <1>8, <3>1, <3>2 DEF CommitVideo
  <2>2. InRange'
    BY <1>8, CommitType DEF CommitVideo
  <2> QED
    BY <2>1, <2>2
<1> QED
  BY <1>1, <1>2, <1>3, <1>4, <1>5, <1>6, <1>7, <1>8, <1>9, <1>10, <1>11, <1>12 DEF Persist

LEMMA SummaryType ==
    ASSUME Typed, NEW r \in Runs, seedIx[r] <= Len(SeedsOf[r])
    PROVE  Summary(r) \in [source : Sources, discovered : Nat, already : Nat,
                           fetched : Nat, failed : Nat, cut : BOOLEAN]
<1>1. Cardinality(existing[r]) \in Nat
  BY FS_Subset, FS_CardinalityType DEF Typed, TypeOK
<1>2. Source(r) \in Sources
  BY SourceType
<1>3. /\ Len(listing[r]) \in Nat
      /\ Len(errors[r]) \in Nat
      /\ fetched[r] \in Nat
  BY DEF Typed, TypeOK
<1> QED
  BY <1>1, <1>2, <1>3 DEF Summary

\* The end of a source preserves the types.
LEMMA CloseTyped ==
    ASSUME Typed, NEW r \in Runs, Close(r)
    PROVE  Typed'
<1> USE DEF Typed, TypeOK, InRange, At, Goto, HasSource, HasVideo, HasRaws,
            HasTranscript, InListing, Places,
            Terminal, store, files, locals
<1>1. CASE EndOfListing(r)
  BY <1>1 DEF EndOfListing
<1>2. CASE TouchIngestState(r)
  BY <1>2, SourceRowType DEF TouchIngestState
<1>3. CASE CommitState(r)
  <2>1. TypeOK'
    <3>1. summaries' \in [Runs -> Seq([source : Sources, discovered : Nat, already : Nat,
                                         fetched : Nat, failed : Nat, cut : BOOLEAN])]
      <4>1. Summary(r) \in [source : Sources, discovered : Nat, already : Nat,
                            fetched : Nat, failed : Nat, cut : BOOLEAN]
        BY <1>3, SummaryType DEF CommitState
      <4> DEFINE S == [source : Sources, discovered : Nat, already : Nat,
                       fetched : Nat, failed : Nat, cut : BOOLEAN]
      <4>2. summaries \in [Runs -> Seq(S)]
        OBVIOUS
      <4>3. Append(summaries[r], Summary(r)) \in Seq(S)
        BY <4>1, <4>2, AppendProperties
      <4> HIDE DEF S
      <4>4. summaries' \in [Runs -> Seq(S)]
        BY <1>3, <4>2, <4>3 DEF CommitState
      <4> QED
        BY <4>4 DEF S
    <3>2. seedIx' \in [Runs -> Nat \ {0}]
      BY <1>3, CounterType DEF CommitState
    <3>4. pc' \in [Runs -> Places]
      BY <1>3 DEF CommitState
    <3>3. db' \subseteq Row /\ txn' \in [Runs -> SUBSET Row]
      BY <1>3, CommitType DEF CommitState
    <3> QED
      BY <1>3, <3>1, <3>2, <3>3, <3>4 DEF CommitState
  <2>2. InRange'
    BY <1>3, CommitType, SummaryType DEF CommitState
  <2> QED
    BY <2>1, <2>2
<1> QED
  BY <1>1, <1>2, <1>3 DEF Close

LEMMA TypedInit == Init => Typed
<1> SUFFICES ASSUME Init
             PROVE  Typed
  OBVIOUS
<1>1. InRange
  BY DEF Init, InRange, HasSource, HasVideo, HasRaws, HasTranscript, InListing
<1>2. /\ bronze \in [BronzeKeys -> Contents] /\ temp \in [BronzeKeys -> Contents]
      /\ crossed \subseteq BronzeKeys
  BY DEF Init, Contents
<1>3. /\ pc \in [Runs -> Places]
      /\ file \in [Runs -> {"closed", "temp", "entry", "replaced"}]
      /\ cause \in [Runs -> {None, "seed", "adapter", "integrity", "bronze", "file"}]
  BY DEF Init, Places
<1> QED
  BY <1>1, <1>2, <1>3 DEF Init, Typed, TypeOK

LEMMA TypedStep == Typed /\ [Next]_vars => Typed'
<1> SUFFICES ASSUME Typed, [Next]_vars
             PROVE  Typed'
  OBVIOUS
<1>1. CASE UNCHANGED vars
  BY <1>1 DEF Typed, TypeOK, InRange, vars, store, files, locals
<1>2. ASSUME NEW r \in Runs, Begin(r)
      PROVE  Typed'
  BY <1>2 DEF Begin, Typed, TypeOK, InRange, At, Goto, HasSource, HasVideo, HasRaws,
            HasTranscript, InListing,
              Places, Terminal, store, files, locals
<1>3. ASSUME NEW r \in Runs, Step(r)
      PROVE  Typed'
  BY <1>3, PrepareTyped, FetchTyped, PersistTyped, CloseTyped DEF Step
<1>4. ASSUME NEW r \in Runs, Kill(r)
      PROVE  Typed'
  <2>1. txn' \in [Runs -> SUBSET Row] /\ pc' \in [Runs -> Places] /\ kills' \in 0..MaxKills
    BY <1>4 DEF Kill, Goto, Typed, TypeOK, Places, Terminal
  <2>2. TypeOK'
    BY <1>4, <2>1 DEF Kill, Typed, TypeOK, locals
  <2>3. InRange'
    BY <1>4 DEF Kill, Goto, Typed, TypeOK, InRange, HasSource, HasVideo, HasRaws,
            HasTranscript, InListing, locals
  <2> QED
    BY <2>2, <2>3 DEF Typed
<1> QED
  BY <1>1, <1>2, <1>3, <1>4 DEF Next, Idle

\* Every variable of an ingestion keeps its type, and a run never leaves its seeds or
\* the listing it discovered.
THEOREM TypeCorrect == Spec => []TypeOK
<1>1. Spec => []Typed
  BY TypedInit, TypedStep, PTL DEF Spec
<1> QED
  BY <1>1, PTL DEF Typed

-----------------------------------------------------------------------------
(* Rows.  What keeps two rows with one key out of the database: the rows a  *)
(* run has flushed are the ones its position says, no two transactions hold *)
(* one key, and a key being held is not committed, save for the watermark,  *)
(* whose row is replaced.                                                   *)

OwnRowsOf(r) ==
    /\ pc[r] = "commitTenant" => txn[r] = {TenantRow(r)}
    /\ pc[r] = "commitSource" => txn[r] = {SourceRow(r)}
    /\ pc[r] = "transcript" => transcript[r] # None /\ txn[r] = {DocumentRow(r)}
    /\ pc[r] = "segments" => /\ transcript[r] # None
                             /\ txn[r] = {DocumentRow(r), TranscriptRow(r)}
    /\ pc[r] = "commit" =>
          txn[r] = IF transcript[r] = None
                     THEN {DocumentRow(r)}
                     ELSE IF <<Video(r), transcript[r][2]>> \in Silent
                     THEN {DocumentRow(r), TranscriptRow(r)}
                     ELSE {DocumentRow(r), TranscriptRow(r), SegmentRow(r)}
    /\ pc[r] = "commitState" => txn[r] = {StateRow(r)}
    /\ pc[r] \notin {"commitTenant", "commitSource", "transcript", "segments", "commit",
                     "commitState"} => txn[r] = {}

OwnRows == \A r \in Runs : OwnRowsOf(r)

KeysApart ==
    \A q, r \in Runs : q # r => \A x \in txn[q], y \in txn[r] : Key(x) # Key(y)

HeldKeysFree ==
    \A r \in Runs : \A x \in txn[r], y \in db : Key(x) = Key(y) => x.table = "ingest_state"

KeyRules == KeysApart /\ HeldKeysFree /\ UniqueRows

\* A run never holds two rows with one key: the rows it holds are of different tables.
LEMMA OwnKeysDiffer ==
    ASSUME OwnRows, NEW r \in Runs, NEW x \in txn[r], NEW y \in txn[r], Key(x) = Key(y)
    PROVE  x = y
<1>1. x.table = y.table
  BY DEF Key
<1>2. OwnRowsOf(r)
  BY DEF OwnRows
<1>3. \/ txn[r] = {}
      \/ txn[r] = {TenantRow(r)} \/ txn[r] = {SourceRow(r)} \/ txn[r] = {StateRow(r)}
      \/ txn[r] \subseteq {DocumentRow(r), TranscriptRow(r), SegmentRow(r)}
  BY <1>2 DEF OwnRowsOf
<1>4. /\ DocumentRow(r).table = "document"
      /\ TranscriptRow(r).table = "transcript"
      /\ SegmentRow(r).table = "segment"
  BY DEF DocumentRow, TranscriptRow, SegmentRow, VideoRow
<1>5. CASE txn[r] \subseteq {DocumentRow(r), TranscriptRow(r), SegmentRow(r)}
  <2>1. x \in {DocumentRow(r), TranscriptRow(r), SegmentRow(r)}
    BY <1>5
  <2>2. y \in {DocumentRow(r), TranscriptRow(r), SegmentRow(r)}
    BY <1>5
  <2> QED
    BY <1>1, <1>4, <2>1, <2>2
<1>6. CASE txn[r] = {} \/ txn[r] = {TenantRow(r)} \/ txn[r] = {SourceRow(r)}
           \/ txn[r] = {StateRow(r)}
  BY <1>6
<1> QED
  BY <1>3, <1>5, <1>6

\* A flush that is neither made to wait nor refused keeps the keys apart.
LEMMA FlushKeepsKeys ==
    ASSUME Typed, KeyRules, NEW r \in Runs, NEW row, ~ Locked(r, row),
           \A y \in db : Key(y) = Key(row) => row.table = "ingest_state",
           db' = db, txn' = [txn EXCEPT ![r] = @ \cup {row}]
    PROVE  KeyRules'
<1>1. txn \in [Runs -> SUBSET Row]
  BY DEF Typed, TypeOK
<1>2. \A q \in Runs \ {r} : \A x \in txn[q] : Key(x) # Key(row)
  BY DEF Locked
<1>3. KeysApart'
  <2>1. SUFFICES ASSUME NEW p \in Runs, NEW q \in Runs, p # q,
                        NEW x \in txn'[p], NEW y \in txn'[q]
                 PROVE  Key(x) # Key(y)
    BY DEF KeysApart, Key
  <2>2. /\ x \in txn[p] \/ (p = r /\ x = row)
        /\ y \in txn[q] \/ (q = r /\ y = row)
    BY <1>1, <2>1
  <2> QED
    BY <1>2, <2>1, <2>2 DEF KeyRules, KeysApart
<1>4. HeldKeysFree'
  BY <1>1 DEF KeyRules, HeldKeysFree, Key
<1> QED
  BY <1>3, <1>4 DEF KeyRules, UniqueRows, Key

\* A commit moves its rows in beside rows of other keys, or in the place of the one
\* they update.
LEMMA CommitKeepsKeys ==
    ASSUME Typed, OwnRows, KeyRules, NEW r \in Runs, Commit(r)
    PROVE  KeyRules'
<1>1. txn \in [Runs -> SUBSET Row]
  BY DEF Typed, TypeOK
<1>2. KeysApart'
  BY <1>1 DEF KeyRules, KeysApart, Commit, Key
<1>3. HeldKeysFree'
  BY <1>1 DEF KeyRules, KeysApart, HeldKeysFree, Commit, Key
<1>4. UniqueRows'
  BY OwnKeysDiffer DEF KeyRules, UniqueRows, Commit, Key
<1> QED
  BY <1>2, <1>3, <1>4 DEF KeyRules

LEMMA RollbackKeepsKeys ==
    ASSUME Typed, KeyRules, NEW r \in Runs, db' = db, txn' = [txn EXCEPT ![r] = {}]
    PROVE  KeyRules'
<1>1. txn \in [Runs -> SUBSET Row]
  BY DEF Typed, TypeOK
<1> QED
  BY <1>1 DEF KeyRules, KeysApart, HeldKeysFree, UniqueRows, Key

\* The rows of a run only depend on its own variables.
LEMMA RowsKept ==
    ASSUME NEW q \in Runs, OwnRowsOf(q), pc'[q] = pc[q], txn'[q] = txn[q],
           seedIx'[q] = seedIx[q], listing'[q] = listing[q], ix'[q] = ix[q],
           transcript'[q] = transcript[q]
    PROVE  OwnRowsOf(q)'
<1>1. Source(q)' = Source(q) /\ Video(q)' = Video(q)
  BY DEF Source, Video
<1>2. /\ TenantRow(q)' = TenantRow(q)
      /\ SourceRow(q)' = SourceRow(q)
      /\ StateRow(q)' = StateRow(q)
  BY <1>1 DEF TenantRow, SourceRow, StateRow
<1>3. /\ DocumentRow(q)' = DocumentRow(q)
      /\ TranscriptRow(q)' = TranscriptRow(q)
      /\ SegmentRow(q)' = SegmentRow(q)
  BY <1>1 DEF DocumentRow, TranscriptRow, SegmentRow, VideoRow
<1> QED
  BY <1>1, <1>2, <1>3 DEF OwnRowsOf

LEMMA OthersKeepRows ==
    ASSUME OwnRows, NEW r \in Runs, OwnRowsOf(r)',
           \A q \in Runs \ {r} :
              /\ pc'[q] = pc[q]
              /\ txn'[q] = txn[q]
              /\ seedIx'[q] = seedIx[q]
              /\ listing'[q] = listing[q]
              /\ ix'[q] = ix[q]
              /\ transcript'[q] = transcript[q]
    PROVE  OwnRows'
<1>1. ASSUME NEW q \in Runs, q # r
      PROVE  OwnRowsOf(q)'
  BY <1>1, RowsKept DEF OwnRows
<1> QED
  BY <1>1 DEF OwnRows

RowRules == OwnRows /\ KeyRules

\* Places where a run holds no row.
HoldsNothing == Places \ {"commitTenant", "commitSource", "transcript", "segments", "commit",
                          "commitState"}

\* A step that neither touches rows nor enters or leaves a place where some are held.
LEMMA QuietStep ==
    ASSUME Typed, RowRules, NEW r \in Runs,
           pc[r] \in HoldsNothing, pc'[r] \in HoldsNothing,
           db' = db, txn' = txn,
           \A q \in Runs \ {r} :
              /\ pc'[q] = pc[q]
              /\ seedIx'[q] = seedIx[q]
              /\ listing'[q] = listing[q]
              /\ ix'[q] = ix[q]
              /\ transcript'[q] = transcript[q]
    PROVE  RowRules'
<1>1. OwnRowsOf(r)'
  BY DEF RowRules, OwnRows, OwnRowsOf, HoldsNothing, Places
<1>2. OwnRows'
  BY <1>1, OthersKeepRows DEF RowRules
<1> QED
  BY <1>2 DEF RowRules, KeyRules, KeysApart, HeldKeysFree, UniqueRows, Key

\* A run that ends gives up what it holds.
LEMMA EndingStep ==
    ASSUME Typed, RowRules, NEW r \in Runs,
           pc' = [pc EXCEPT ![r] = "failed"] \/ pc' = [pc EXCEPT ![r] = "killed"],
           db' = db, txn' = [txn EXCEPT ![r] = {}], UNCHANGED locals
    PROVE  RowRules'
<1>1. OwnRowsOf(r)'
  BY DEF Typed, TypeOK, OwnRowsOf
<1>2. OwnRows'
  BY <1>1, OthersKeepRows DEF RowRules, Typed, TypeOK, locals
<1> QED
  BY <1>2, RollbackKeepsKeys DEF RowRules

\* A flush that gets its row in.
LEMMA FlushStep ==
    ASSUME Typed, RowRules, NEW r \in Runs, NEW row, NEW there, Flush(r, row, there),
           OwnRowsOf(r)'
    PROVE  RowRules'
<1>1. OwnRows'
  BY OthersKeepRows DEF RowRules, Flush, Goto, Typed, TypeOK, locals
<1>2. \A y \in db : Key(y) # Key(row)
  BY DEF Flush, Taken
<1>3. ~ Locked(r, row) /\ db' = db /\ txn' = [txn EXCEPT ![r] = @ \cup {row}]
  BY DEF Flush
<1>4. \A y \in db : Key(y) = Key(row) => row.table = "ingest_state"
  BY <1>2
<1>5. KeyRules
  BY DEF RowRules
<1>6. KeyRules'
  BY <1>3, <1>4, <1>5, FlushKeepsKeys
<1> QED
  BY <1>1, <1>6 DEF RowRules

\* A commit, after which the run holds nothing.
LEMMA CommitStep ==
    ASSUME Typed, RowRules, NEW r \in Runs, Commit(r), pc'[r] \in HoldsNothing,
           \A q \in Runs \ {r} :
              /\ pc'[q] = pc[q]
              /\ seedIx'[q] = seedIx[q]
              /\ listing'[q] = listing[q]
              /\ ix'[q] = ix[q]
              /\ transcript'[q] = transcript[q]
    PROVE  RowRules'
<1>1. OwnRowsOf(r)'
  BY DEF Typed, TypeOK, OwnRowsOf, HoldsNothing, Commit
<1>2. OwnRows'
  BY <1>1, OthersKeepRows DEF RowRules, Commit, Typed, TypeOK
<1> QED
  BY <1>2, CommitKeepsKeys DEF RowRules

\* The steps before the loop keep the row rules.
LEMMA PrepareRows ==
    ASSUME Typed, RowRules, NEW r \in Runs, Prepare(r)
    PROVE  RowRules'
<1> USE DEF At, Goto, HoldsNothing, Places, Terminal, store, files, locals
<1>1. CASE SelectTenant(r)
  BY <1>1, QuietStep DEF SelectTenant, Typed, TypeOK
<1>2. CASE InsertTenant(r)
  <2>1. Flush(r, TenantRow(r), "commitTenant")
    BY <1>2 DEF InsertTenant
  <2>2. OwnRowsOf(r)'
    <3>1. txn[r] = {}
      BY <1>2 DEF InsertTenant, RowRules, OwnRows, OwnRowsOf
    <3>2. txn'[r] = {TenantRow(r)} /\ pc'[r] = "commitTenant" /\ transcript'[r] = transcript[r]
      BY <2>1, <3>1 DEF Flush, Typed, TypeOK
    <3>3. TenantRow(r)' = TenantRow(r)
      BY <2>1 DEF Flush, TenantRow
    <3> QED
      BY <3>1, <3>2, <3>3 DEF OwnRowsOf
  <2> QED
    BY <2>1, <2>2, FlushStep
<1>3. CASE TenantRace(r)
  BY <1>3, EndingStep DEF TenantRace, IntegrityError, Raise
<1>4. CASE CommitTenant(r)
  BY <1>4, CommitStep DEF CommitTenant, Typed, TypeOK
<1>5. CASE SelectSource(r)
  BY <1>5, QuietStep DEF SelectSource, Typed, TypeOK
<1>6. CASE InsertSource(r)
  <2>1. Flush(r, SourceRow(r), "commitSource")
    BY <1>6 DEF InsertSource
  <2>2. OwnRowsOf(r)'
    <3>1. txn[r] = {}
      BY <1>6 DEF InsertSource, RowRules, OwnRows, OwnRowsOf
    <3>2. txn'[r] = {SourceRow(r)} /\ pc'[r] = "commitSource" /\ transcript'[r] = transcript[r]
      BY <2>1, <3>1 DEF Flush, Typed, TypeOK
    <3>3. SourceRow(r)' = SourceRow(r)
      BY <2>1 DEF Flush, SourceRow, Source
    <3> QED
      BY <3>1, <3>2, <3>3 DEF OwnRowsOf
  <2> QED
    BY <2>1, <2>2, FlushStep
<1>7. CASE SourceRace(r)
  BY <1>7, EndingStep DEF SourceRace, IntegrityError, Raise
<1>8. CASE CommitSource(r)
  BY <1>8, CommitStep DEF CommitSource, Typed, TypeOK
<1>9. CASE Discover(r)
  BY <1>9, QuietStep DEF Discover, Typed, TypeOK
<1>10. CASE DiscoverRaises(r)
  BY <1>10, EndingStep DEF DiscoverRaises, Raise
<1>11. CASE QueryExisting(r)
  BY <1>11, QuietStep DEF QueryExisting, Typed, TypeOK
<1>12. CASE Finish(r)
  BY <1>12, QuietStep DEF Finish, Typed, TypeOK
<1>13. CASE SeedRaises(r)
  BY <1>13, EndingStep DEF SeedRaises, Raise
<1> QED
  BY <1>1, <1>2, <1>3, <1>4, <1>5, <1>6, <1>7, <1>8, <1>9, <1>10, <1>11, <1>12, <1>13
     DEF Prepare

\* The steps up to a fetch result keep the row rules.
LEMMA FetchRows ==
    ASSUME Typed, RowRules, NEW r \in Runs, Fetch(r)
    PROVE  RowRules'
<1> USE DEF At, Goto, HoldsNothing, Places, Terminal, store, files, locals
<1>1. CASE Skip(r)
  BY <1>1, QuietStep DEF Skip, Typed, TypeOK
<1>2. CASE StartFetch(r)
  BY <1>2, QuietStep DEF StartFetch, Typed, TypeOK
<1>3. CASE FetchReturns(r)
  BY <1>3, QuietStep DEF FetchReturns, Typed, TypeOK
<1>4. CASE SourceError(r)
  BY <1>4, QuietStep DEF SourceError, Typed, TypeOK
<1>5. CASE CreditBudgetExceeded(r)
  BY <1>5, QuietStep DEF CreditBudgetExceeded, Typed, TypeOK
<1>6. CASE FetchRaises(r)
  BY <1>6, EndingStep DEF FetchRaises, Raise
<1> QED
  BY <1>1, <1>2, <1>3, <1>4, <1>5, <1>6 DEF Fetch

\* The steps of _persist and its commit keep the row rules.
LEMMA PersistRows ==
    ASSUME Typed, RowRules, NEW r \in Runs, Persist(r)
    PROVE  RowRules'
<1> USE DEF At, Goto, HoldsNothing, Places, Terminal, store, files, locals
<1>1. CASE BronzeLookup(r)
  BY <1>1, QuietStep DEF BronzeLookup, Typed, TypeOK
<1>2. CASE BronzeWriteConflict(r)
  BY <1>2, EndingStep DEF BronzeWriteConflict, Raise
<1>3. CASE BronzeOpen(r)
  BY <1>3, QuietStep DEF BronzeOpen, Typed, TypeOK
<1>9. CASE BronzeFill(r)
  BY <1>9, QuietStep DEF BronzeFill, Typed, TypeOK
<1>10. CASE BronzeReplace(r)
  BY <1>10, QuietStep DEF BronzeReplace, Typed, TypeOK
<1>11. CASE BronzeReplaceRaises(r)
  BY <1>11, EndingStep DEF BronzeReplaceRaises, Raise
<1>4. CASE FlushDocument(r)
  <2>1. Flush(r, DocumentRow(r), AfterDocument(r))
    BY <1>4 DEF FlushDocument
  <2>2. OwnRowsOf(r)'
    <3>1. txn[r] = {}
      BY <1>4 DEF FlushDocument, RowRules, OwnRows, OwnRowsOf
    <3>2. txn'[r] = {DocumentRow(r)} /\ pc'[r] = AfterDocument(r) /\ transcript'[r] = transcript[r]
      BY <2>1, <3>1 DEF Flush, Typed, TypeOK, AfterDocument
    <3>3. DocumentRow(r)' = DocumentRow(r)
      BY <2>1 DEF Flush, DocumentRow, VideoRow, Source, Video
    <3> QED
      BY <3>1, <3>2, <3>3 DEF OwnRowsOf, AfterDocument
  <2> QED
    BY <2>1, <2>2, FlushStep
<1>5. CASE DocumentRace(r)
  BY <1>5, EndingStep DEF DocumentRace, IntegrityError, Raise
<1>6. CASE FlushTranscript(r)
  <2>1. Flush(r, TranscriptRow(r), "segments")
    BY <1>6 DEF FlushTranscript
  <2>2. OwnRowsOf(r)'
    <3>1. txn[r] = {DocumentRow(r)} /\ transcript[r] # None
      BY <1>6 DEF FlushTranscript, RowRules, OwnRows, OwnRowsOf
    <3>2. txn'[r] = {DocumentRow(r), TranscriptRow(r)} /\ pc'[r] = "segments" /\ transcript'[r] = transcript[r]
      BY <2>1, <3>1 DEF Flush, Typed, TypeOK
    <3>3. DocumentRow(r)' = DocumentRow(r) /\ TranscriptRow(r)' = TranscriptRow(r)
      BY <2>1 DEF Flush, DocumentRow, TranscriptRow, VideoRow, Source, Video
    <3> QED
      BY <3>1, <3>2, <3>3 DEF OwnRowsOf
  <2> QED
    BY <2>1, <2>2, FlushStep
<1>7. CASE FlushSegments(r)
  <2>1. Flush(r, SegmentRow(r), "commit")
    BY <1>7 DEF FlushSegments
  <2>2. OwnRowsOf(r)'
    <3>1. /\ txn[r] = {DocumentRow(r), TranscriptRow(r)}
          /\ transcript[r] # None
          /\ <<Video(r), transcript[r][2]>> \notin Silent
      BY <1>7 DEF FlushSegments, RowRules, OwnRows, OwnRowsOf
    <3>2. txn'[r] = {DocumentRow(r), TranscriptRow(r), SegmentRow(r)} /\ pc'[r] = "commit" /\ transcript'[r] = transcript[r]
      BY <2>1, <3>1 DEF Flush, Typed, TypeOK
    <3>3. /\ DocumentRow(r)' = DocumentRow(r)
          /\ TranscriptRow(r)' = TranscriptRow(r)
          /\ SegmentRow(r)' = SegmentRow(r)
          /\ Video(r)' = Video(r)
      BY <2>1 DEF Flush, DocumentRow, TranscriptRow, SegmentRow, VideoRow, Source, Video
    <3> QED
      BY <3>1, <3>2, <3>3 DEF OwnRowsOf
  <2> QED
    BY <2>1, <2>2, FlushStep
<1>12. CASE NoSegments(r)
  <2>1. txn[r] = {DocumentRow(r), TranscriptRow(r)} /\ transcript[r] # None
    BY <1>12 DEF NoSegments, RowRules, OwnRows, OwnRowsOf
  <2>2. /\ pc'[r] = "commit"
        /\ <<Video(r), transcript[r][2]>> \in Silent
        /\ UNCHANGED <<db, txn, locals>>
    BY <1>12 DEF NoSegments, Typed, TypeOK
  <2>3. /\ DocumentRow(r)' = DocumentRow(r)
        /\ TranscriptRow(r)' = TranscriptRow(r)
        /\ Video(r)' = Video(r)
    BY <2>2 DEF DocumentRow, TranscriptRow, VideoRow, Source, Video
  <2>4. OwnRowsOf(r)'
    BY <2>1, <2>2, <2>3 DEF OwnRowsOf
  <2>5. OwnRows'
    BY <1>12, <2>4, OthersKeepRows DEF NoSegments, RowRules, Typed, TypeOK
  <2> QED
    BY <2>2, <2>5 DEF RowRules, KeyRules, KeysApart, HeldKeysFree, UniqueRows, Key
<1>8. CASE CommitVideo(r)
  BY <1>8, CommitStep DEF CommitVideo, Typed, TypeOK
<1> QED
  BY <1>1, <1>2, <1>3, <1>4, <1>5, <1>6, <1>7, <1>8, <1>9, <1>10, <1>11, <1>12 DEF Persist

\* The end of a source keeps the row rules: its watermark row replaces the one there.
LEMMA CloseRows ==
    ASSUME Typed, RowRules, NEW r \in Runs, Close(r)
    PROVE  RowRules'
<1> USE DEF At, Goto, HoldsNothing, Places, Terminal, store, files, locals
<1>1. CASE EndOfListing(r)
  BY <1>1, QuietStep DEF EndOfListing, Typed, TypeOK
<1>2. CASE TouchIngestState(r)
  <2>1. ~ Locked(r, StateRow(r)) /\ StateRow(r).table = "ingest_state"
    BY <1>2 DEF TouchIngestState, StateRow
  <2>2. KeyRules'
    BY <1>2, <2>1, FlushKeepsKeys DEF TouchIngestState, RowRules
  <2>3. OwnRowsOf(r)'
    <3>1. txn[r] = {}
      BY <1>2 DEF TouchIngestState, RowRules, OwnRows, OwnRowsOf
    <3>2. txn'[r] = {StateRow(r)} /\ pc'[r] = "commitState"
      BY <1>2, <3>1 DEF TouchIngestState, Typed, TypeOK
    <3>3. StateRow(r)' = StateRow(r)
      BY <1>2 DEF TouchIngestState, StateRow, Source
    <3> QED
      BY <3>2, <3>3 DEF OwnRowsOf
  <2>4. OwnRows'
    BY <1>2, <2>3, OthersKeepRows DEF TouchIngestState, RowRules, Typed, TypeOK
  <2> QED
    BY <2>2, <2>4 DEF RowRules
<1>3. CASE CommitState(r)
  BY <1>3, CommitStep DEF CommitState, Typed, TypeOK
<1> QED
  BY <1>1, <1>2, <1>3 DEF Close

LEMMA RowRulesInit == Init => RowRules
BY DEF Init, RowRules, OwnRows, OwnRowsOf, KeyRules, KeysApart, HeldKeysFree, UniqueRows

LEMMA RowRulesStep == Typed /\ RowRules /\ [Next]_vars => RowRules'
<1> SUFFICES ASSUME Typed, RowRules, [Next]_vars
             PROVE  RowRules'
  OBVIOUS
<1>1. CASE UNCHANGED vars
  <2>1. OwnRows'
    BY <1>1, RowsKept DEF vars, store, files, locals, RowRules, OwnRows
  <2>2. KeyRules'
    BY <1>1 DEF vars, store, files, RowRules, KeyRules, KeysApart, HeldKeysFree, UniqueRows, Key
  <2> QED
    BY <2>1, <2>2 DEF RowRules
<1>2. ASSUME NEW r \in Runs, Begin(r)
      PROVE  RowRules'
  BY <1>2, QuietStep DEF Begin, At, Goto, HoldsNothing, Places, Terminal, store, files, locals,
                         Typed, TypeOK
<1>3. ASSUME NEW r \in Runs, Step(r)
      PROVE  RowRules'
  BY <1>3, PrepareRows, FetchRows, PersistRows, CloseRows DEF Step
<1>4. ASSUME NEW r \in Runs, Kill(r)
      PROVE  RowRules'
  BY <1>4, EndingStep DEF Kill, Goto
<1> QED
  BY <1>1, <1>2, <1>3, <1>4 DEF Next, Idle

\* No interleaving of runs, kills and failures puts two rows with one key in the
\* database: the select-then-insert of get_or_create_source and the stale `existing`
\* snapshot of ingest_source are harmless to it.
THEOREM RowsUnique == Spec => []UniqueRows
<1>1. Spec => [](Typed /\ RowRules)
  BY TypedInit, TypedStep, RowRulesInit, RowRulesStep, PTL DEF Spec
<1> QED
  BY <1>1, PTL DEF RowRules, KeyRules

-----------------------------------------------------------------------------
(* What is committed stays.  Only a commit changes `db`, and the row a      *)
(* commit takes out has the key of one that its run held.                   *)

Stays == \A row \in db : row.table # "ingest_state" => row \in db'

CommitPlaces == {"commitTenant", "commitSource", "commit", "commitState"}

LEMMA DatabaseStep ==
    ASSUME NEW r \in Runs, Begin(r) \/ Step(r) \/ Kill(r)
    PROVE  db' = db \/ (Commit(r) /\ pc[r] \in CommitPlaces)
<1> USE DEF At, CommitPlaces
<1>1. CASE Prepare(r)
  BY <1>1 DEF Prepare, store, SelectTenant, InsertTenant, TenantRace, CommitTenant, SelectSource,
     InsertSource, SourceRace, CommitSource, SeedRaises, Discover, DiscoverRaises,
     QueryExisting, Finish, Flush, IntegrityError
<1>2. CASE Fetch(r)
  BY <1>2 DEF Fetch, store, Skip, StartFetch, FetchReturns, SourceError, CreditBudgetExceeded,
     FetchRaises
<1>3. CASE Persist(r)
  BY <1>3 DEF Persist, store, BronzeLookup, BronzeWriteConflict, BronzeOpen, BronzeFill,
     BronzeReplace, BronzeReplaceRaises, FlushDocument, DocumentRace, FlushTranscript,
     FlushSegments, NoSegments, CommitVideo, Flush, IntegrityError
<1>4. CASE Close(r)
  BY <1>4 DEF Close, store, EndOfListing, TouchIngestState, CommitState
<1>5. CASE Begin(r) \/ Kill(r)
  BY <1>5 DEF Begin, Kill, store
<1> QED
  BY <1>1, <1>2, <1>3, <1>4, <1>5 DEF Step

LEMMA StaysStep == RowRules /\ [Next]_vars => Stays
<1> SUFFICES ASSUME RowRules, [Next]_vars
             PROVE  Stays
  OBVIOUS
<1>1. CASE db' = db
  BY <1>1 DEF Stays
<1>2. ASSUME NEW r \in Runs, Commit(r)
      PROVE  Stays
  <2>1. SUFFICES ASSUME NEW row \in db, NEW new \in txn[r], Key(new) = Key(row)
                 PROVE  row.table = "ingest_state"
    BY <1>2 DEF Stays, Commit
  <2>2. new.table = "ingest_state"
    BY <2>1 DEF RowRules, KeyRules, HeldKeysFree
  <2> QED
    BY <2>1, <2>2 DEF Key
<1> QED
  BY <1>1, <1>2, DatabaseStep DEF Next, Idle, vars, store

\* A committed tenant, channel, document, transcript or segment row is never changed or
\* removed by a step of ingestion.
THEOREM CommittedRowsStay == Spec => CommittedStays
<1>1. Spec => [](Typed /\ RowRules)
  BY TypedInit, TypedStep, RowRulesInit, RowRulesStep, PTL DEF Spec
<1>2. RowRules /\ [Next]_vars => [Stays]_vars
  BY StaysStep
<1>3. Spec => [][Stays]_vars
  BY <1>1, <1>2, PTL DEF Spec
<1> QED
  BY <1>3 DEF CommittedStays, Stays

-----------------------------------------------------------------------------
(* Nothing is passed over.  A run believes its snapshot: an id in it keeps  *)
(* its document because rows stay, so skipping it loses nothing.            *)

CoverOf(r) ==
    pc[r] \in InListing =>
        /\ \A v \in existing[r] : HasDocument(Source(r), v)
        /\ \A i \in 1..ix[r] - 1 :
              \/ HasDocument(Source(r), listing[r][i])
              \/ \E j \in 1..Len(errors[r]) : errors[r][j] = listing[r][i]

Cover == \A r \in Runs : CoverOf(r)

\* The run is where it was in the same listing, or is in none.
SameListing(q) ==
    pc'[q] \in InListing =>
        /\ pc[q] \in InListing
        /\ seedIx'[q] = seedIx[q]
        /\ listing'[q] = listing[q]
        /\ existing'[q] = existing[q]
        /\ ix'[q] = ix[q]
        /\ errors'[q] = errors[q]

LEMMA DocumentStays ==
    ASSUME Stays, NEW s, NEW v, HasDocument(s, v)
    PROVE  \E d \in db' : d.table = "document" /\ d.source = s /\ d.video = v
BY DEF Stays, HasDocument, InTable

LEMMA CoverKept ==
    ASSUME Stays, NEW q \in Runs, CoverOf(q), SameListing(q)
    PROVE  CoverOf(q)'
<1> SUFFICES ASSUME pc'[q] \in InListing
             PROVE  CoverOf(q)'
  BY DEF CoverOf
<1>1. Source(q)' = Source(q) /\ CoverOf(q) /\ pc[q] \in InListing
  BY DEF SameListing, Source
<1>2. \A v \in existing'[q] :
         \E d \in db' : d.table = "document" /\ d.source = Source(q) /\ d.video = v
  BY <1>1, DocumentStays DEF SameListing, CoverOf
<1>3. \A i \in 1..ix'[q] - 1 :
         \/ \E d \in db' : /\ d.table = "document"
                           /\ d.source = Source(q)
                           /\ d.video = listing'[q][i]
         \/ \E j \in 1..Len(errors'[q]) : errors'[q][j] = listing'[q][i]
  <2>1. /\ ix'[q] = ix[q]
        /\ listing'[q] = listing[q]
        /\ errors'[q] = errors[q]
    BY DEF SameListing
  <2>2. SUFFICES ASSUME NEW i \in 1..ix[q] - 1,
                        ~ \E j \in 1..Len(errors[q]) : errors[q][j] = listing[q][i]
                 PROVE  \E d \in db' : /\ d.table = "document"
                                      /\ d.source = Source(q)
                                      /\ d.video = listing[q][i]
    BY <2>1
  <2>3. HasDocument(Source(q), listing[q][i])
    BY <1>1, <2>2 DEF CoverOf
  <2> QED
    BY <2>3 DEF Stays, HasDocument, InTable
<1> QED
  BY <1>1, <1>2, <1>3 DEF CoverOf, HasDocument, InTable

\* The steps that move a run in its listing are three; the snapshot starts it.
LEMMA ListingKept ==
    ASSUME Typed, NEW r \in Runs, NEW q \in Runs, Begin(r) \/ Step(r) \/ Kill(r),
           q # r \/ ~ (QueryExisting(r) \/ Skip(r) \/ SourceError(r) \/ CommitVideo(r))
    PROVE  SameListing(q)
<1> USE DEF Typed, TypeOK, SameListing, InListing, At, Goto, Terminal, locals
<1>1. CASE Begin(r) \/ Kill(r)
  BY <1>1 DEF Begin, Kill
<1>2. CASE Prepare(r)
  <2>1. CASE SelectTenant(r)
    BY <2>1 DEF SelectTenant
  <2>2. CASE InsertTenant(r)
    BY <2>2 DEF InsertTenant, Flush
  <2>3. CASE TenantRace(r)
    BY <2>3 DEF TenantRace, IntegrityError, Raise
  <2>4. CASE CommitTenant(r)
    BY <2>4 DEF CommitTenant
  <2>5. CASE SelectSource(r)
    BY <2>5 DEF SelectSource
  <2>6. CASE InsertSource(r)
    BY <2>6 DEF InsertSource, Flush
  <2>7. CASE SourceRace(r)
    BY <2>7 DEF SourceRace, IntegrityError, Raise
  <2>8. CASE CommitSource(r)
    BY <2>8 DEF CommitSource
  <2>9. CASE Discover(r)
    BY <2>9 DEF Discover
  <2>10. CASE DiscoverRaises(r)
    BY <2>10 DEF DiscoverRaises, Raise
  <2>11. CASE QueryExisting(r)
    BY <2>11 DEF QueryExisting
  <2>12. CASE Finish(r)
    BY <2>12 DEF Finish
  <2>13. CASE SeedRaises(r)
    BY <2>13 DEF SeedRaises, Raise
  <2> QED
    BY <1>2, <2>1, <2>2, <2>3, <2>4, <2>5, <2>6,
       <2>7, <2>8, <2>9, <2>10, <2>11, <2>12, <2>13 DEF Prepare
<1>3. CASE Fetch(r)
  BY <1>3 DEF Fetch, Skip, StartFetch, FetchReturns, SourceError, CreditBudgetExceeded,
     FetchRaises, Raise
<1>4. CASE Persist(r)
  BY <1>4 DEF Persist, BronzeLookup, BronzeWriteConflict, BronzeOpen, BronzeFill,
     BronzeReplace, BronzeReplaceRaises, FlushDocument, DocumentRace, FlushTranscript,
     FlushSegments, NoSegments, CommitVideo, Flush, IntegrityError, Raise, AfterDocument
<1>5. CASE Close(r)
  BY <1>5 DEF Close, EndOfListing, TouchIngestState, CommitState
<1> QED
  BY <1>1, <1>2, <1>3, <1>4, <1>5 DEF Step

\* What CoverOf(r) becomes, said with the rows of the new state.
LEMMA CoverNext ==
    ASSUME NEW r \in Runs, Source(r)' = Source(r), listing' = listing,
           \A v \in existing'[r] :
              \E d \in db' : d.table = "document" /\ d.source = Source(r) /\ d.video = v,
           \A i \in 1..ix'[r] - 1 :
              \/ \E d \in db' : /\ d.table = "document"
                                /\ d.source = Source(r)
                                /\ d.video = listing[r][i]
              \/ \E j \in 1..Len(errors'[r]) : errors'[r][j] = listing[r][i]
    PROVE  CoverOf(r)'
BY DEF CoverOf, HasDocument, InTable

LEMMA CoverSnapshot ==
    ASSUME Typed, NEW r \in Runs, QueryExisting(r)
    PROVE  CoverOf(r)'
<1>1. /\ Source(r)' = Source(r) /\ listing' = listing /\ db' = db
      /\ ix'[r] = 1
      /\ existing'[r] = {listing[r][i] : i \in {j \in 1..Len(listing[r]) :
                                                  HasDocument(Source(r), listing[r][j])}}
  BY DEF QueryExisting, Source, store, Typed, TypeOK
<1>2. \A v \in existing'[r] : HasDocument(Source(r), v)
  BY <1>1
<1>3. \A v \in existing'[r] :
         \E d \in db' : d.table = "document" /\ d.source = Source(r) /\ d.video = v
  BY <1>1, <1>2 DEF HasDocument, InTable
<1>4. 1..ix'[r] - 1 = {}
  BY <1>1
<1> QED
  BY <1>1, <1>3, <1>4, CoverNext

\* One more position is behind the run, and it is covered.
LEMMA CoverAdvance ==
    ASSUME Typed, NEW r \in Runs, CoverOf(r), Stays, pc[r] \in InListing,
           Source(r)' = Source(r), listing' = listing, existing' = existing,
           ix'[r] = ix[r] + 1, errors[r] \in Seq(Videos),
           \A j \in 1..Len(errors[r]) :
              \E n \in 1..Len(errors'[r]) : errors'[r][n] = errors[r][j],
           \/ \E d \in db' : /\ d.table = "document"
                             /\ d.source = Source(r)
                             /\ d.video = Video(r)
           \/ \E n \in 1..Len(errors'[r]) : errors'[r][n] = Video(r)
    PROVE  CoverOf(r)'
<1>1. ix[r] \in Nat \ {0}
  BY DEF Typed, TypeOK
<1>2. \A v \in existing'[r] :
         \E d \in db' : d.table = "document" /\ d.source = Source(r) /\ d.video = v
  BY DocumentStays DEF CoverOf
<1>3. ASSUME NEW i \in 1..ix'[r] - 1
      PROVE  \/ \E d \in db' : /\ d.table = "document"
                               /\ d.source = Source(r)
                               /\ d.video = listing[r][i]
             \/ \E n \in 1..Len(errors'[r]) : errors'[r][n] = listing[r][i]
  <2>1. CASE i = ix[r]
    BY <2>1 DEF Video
  <2>2. CASE i # ix[r]
    <3>1. i \in 1..ix[r] - 1
      BY <1>1, <2>2
    <3>2. CASE HasDocument(Source(r), listing[r][i])
      BY <3>2 DEF Stays, HasDocument, InTable
    <3>3. CASE \E j \in 1..Len(errors[r]) : errors[r][j] = listing[r][i]
      BY <3>3
    <3> QED
      BY <3>1, <3>2, <3>3 DEF CoverOf
  <2> QED
    BY <2>1, <2>2
<1> QED
  BY <1>2, <1>3, CoverNext

LEMMA CoverStep == Typed /\ RowRules /\ Cover /\ [Next]_vars => Cover'
<1> SUFFICES ASSUME Typed, RowRules, Cover, [Next]_vars
             PROVE  Cover'
  OBVIOUS
<1>1. Stays
  BY StaysStep
<1>2. CASE UNCHANGED vars
  BY <1>2, <1>1, CoverKept DEF vars, store, files, locals, SameListing, Cover
<1>3. ASSUME NEW r \in Runs, Begin(r) \/ Step(r) \/ Kill(r), NEW q \in Runs
      PROVE  CoverOf(q)'
  <2>1. CoverOf(q)
    BY DEF Cover
  <2>2. CASE q # r \/ ~ (QueryExisting(r) \/ Skip(r) \/ SourceError(r) \/ CommitVideo(r))
    BY <1>1, <1>3, <2>1, <2>2, ListingKept, CoverKept
  <2>3. CASE q = r /\ QueryExisting(r)
    BY <2>3, CoverSnapshot
  <2>4. CASE q = r /\ Skip(r)
    <3>1. HasDocument(Source(r), Video(r))
      BY <2>1, <2>4 DEF CoverOf, Skip, At, InListing
    <3>2. /\ Source(r)' = Source(r) /\ listing' = listing /\ existing' = existing
          /\ ix'[r] = ix[r] + 1 /\ errors' = errors /\ db' = db /\ pc[r] \in InListing
      BY <2>4 DEF Skip, At, Source, InListing, Typed, TypeOK, store
    <3>3. errors[r] \in Seq(Videos)
      BY DEF Typed, TypeOK
    <3> QED
      BY <1>1, <2>1, <2>4, <3>1, <3>2, <3>3, CoverAdvance DEF HasDocument, InTable
  <2>5. CASE q = r /\ SourceError(r)
    <3>1. /\ Source(r)' = Source(r) /\ listing' = listing /\ existing' = existing
          /\ ix'[r] = ix[r] + 1 /\ pc[r] \in InListing
          /\ errors'[r] = Append(errors[r], Video(r))
      BY <2>5 DEF SourceError, At, Source, InListing, Typed, TypeOK
    <3>2. errors[r] \in Seq(Videos) /\ Video(r) \in Videos
      BY <2>5, VideoType DEF SourceError, At, Typed, TypeOK, InRange, HasVideo
    <3>3. /\ Len(errors'[r]) = Len(errors[r]) + 1
          /\ errors'[r][Len(errors[r]) + 1] = Video(r)
          /\ \A j \in 1..Len(errors[r]) : errors'[r][j] = errors[r][j]
      BY <3>1, <3>2, AppendProperties
    <3>4. Len(errors[r]) \in Nat
      BY <3>2
    <3>5. \E n \in 1..Len(errors'[r]) : errors'[r][n] = Video(r)
      <4>1. Len(errors[r]) + 1 \in 1..Len(errors'[r])
        BY <3>3, <3>4
      <4> QED
        BY <3>3, <4>1
    <3>6. ASSUME NEW j \in 1..Len(errors[r])
          PROVE  \E n \in 1..Len(errors'[r]) : errors'[r][n] = errors[r][j]
      <4>1. j \in 1..Len(errors'[r])
        BY <3>3, <3>4
      <4> QED
        BY <3>3, <4>1
    <3> QED
      BY <1>1, <2>1, <2>5, <3>1, <3>2, <3>5, <3>6, CoverAdvance
  <2>6. CASE q = r /\ CommitVideo(r)
    <3>1. /\ Source(r)' = Source(r) /\ listing' = listing /\ existing' = existing
          /\ ix'[r] = ix[r] + 1 /\ errors' = errors /\ pc[r] \in InListing
          /\ txn[r] \subseteq db'
      BY <2>6 DEF CommitVideo, Commit, At, Source, InListing, Typed, TypeOK
    <3>2. DocumentRow(r) \in txn[r]
      BY <2>6 DEF CommitVideo, At, RowRules, OwnRows, OwnRowsOf
    <3>3. \E d \in db' : d.table = "document" /\ d.source = Source(r) /\ d.video = Video(r)
      <4>1. /\ DocumentRow(r).table = "document"
            /\ DocumentRow(r).source = Source(r)
            /\ DocumentRow(r).video = Video(r)
        BY DEF DocumentRow, VideoRow
      <4> QED
        BY <3>1, <3>2, <4>1
    <3>4. errors[r] \in Seq(Videos)
      BY DEF Typed, TypeOK
    <3> QED
      BY <1>1, <2>1, <2>6, <3>1, <3>3, <3>4, CoverAdvance
  <2> QED
    BY <2>2, <2>3, <2>4, <2>5, <2>6
<1> QED
  BY <1>2, <1>3 DEF Next, Idle, Cover

\* Behind its position a run leaves no video without a document or a reported error,
\* with any number of other runs and kills beside it.
THEOREM NoVideoPassedOver == Spec => []NothingPassedOver
<1>1. Init => Cover
  BY DEF Init, Cover, CoverOf, InListing
<1>2. Spec => [](Typed /\ RowRules)
  BY TypedInit, TypedStep, RowRulesInit, RowRulesStep, PTL DEF Spec
<1>3. Spec => []Cover
  BY <1>1, <1>2, CoverStep, PTL DEF Spec
<1>4. Cover => NothingPassedOver
  BY DEF Cover, CoverOf, NothingPassedOver
<1> QED
  BY <1>3, <1>4, PTL

=============================================================================
