---------------------------- MODULE SummaryProofs ----------------------------
(***************************************************************************)
(* Theorems about what a run of Ingest reports and leaves behind, for      *)
(* every set of runs, channels and videos.                                 *)
(***************************************************************************)
EXTENDS DocumentProofs, IngestCorpus

LEMMA SeedsLength ==
    ASSUME NEW r \in Runs
    PROVE  SeedsOf[r] \in Seq(Sources) /\ Len(SeedsOf[r]) \in Nat
<1>1. SeedsOf[r] \in Seq(Sources)
  BY SeedsAssumption
<1> QED
  BY <1>1

\* Positions before n, at n and after it.
LEMMA Positions ==
    ASSUME NEW l \in Nat, NEW n \in Nat \ {0}, n <= l, NEW j \in 1..l
    PROVE  /\ j \in Nat /\ n \in 1..l
           /\ j = n \/ j < n \/ j > n
           /\ j < n + 1 => j = n \/ j < n
           /\ j = n + 1 => j > n
           /\ j > n + 1 => j > n
           /\ j < n => j \in 1..n - 1 /\ j \in 1..n /\ ~ j >= n + 1
           /\ j = n => ~ j >= n + 1
           /\ j > n => j >= n + 1 /\ ~ j < n + 1
OBVIOUS

LEMMA Before ==
    ASSUME NEW l \in Nat, NEW n \in Nat, n - 1 <= l, NEW i \in 1..n - 1
    PROVE  i \in 1..l /\ i < n
OBVIOUS

LEMMA PlusOne ==
    ASSUME NEW f \in Nat, NEW k \in Nat
    PROVE  f + k \in Nat /\ f + (k + 1) = f + k + 1 /\ f + (k + 1) \in Nat
OBVIOUS

\* What was attempted before position k of a listing of length l.
LEMMA CutShort ==
    ASSUME NEW c \in Nat, NEW p \in Nat, NEW l \in Nat, NEW e \in Nat, NEW f \in Nat,
           NEW k \in Nat, f + e + p = k - 1, c <= p + (l - k), k <= l
    PROVE  c + f + e < l
OBVIOUS

USE SeedsAssumption, LimitAssumption, CatalogueAssumption, VideosAssumption,
    NoneAssumption, ContentAssumption, EndpointAssumption, KillAssumption

-----------------------------------------------------------------------------
(* A step is a step of one run.                                             *)

StepOf(r) == Begin(r) \/ Step(r) \/ Kill(r)

SameRun(q) ==
    /\ pc'[q] = pc[q]
    /\ txn'[q] = txn[q]
    /\ seedIx'[q] = seedIx[q]
    /\ listing'[q] = listing[q]
    /\ existing'[q] = existing[q]
    /\ ix'[q] = ix[q]
    /\ raws'[q] = raws[q]
    /\ transcript'[q] = transcript[q]
    /\ fetched'[q] = fetched[q]
    /\ errors'[q] = errors[q]
    /\ summaries'[q] = summaries[q]
    /\ cause'[q] = cause[q]

\* A step of one run leaves what the others know as it is.
LEMMA OthersKept ==
    ASSUME Typed, NEW r \in Runs, NEW q \in Runs \ {r}, StepOf(r)
    PROVE  SameRun(q)
<1> USE DEF Typed, TypeOK, SameRun, At, Goto, store, files, locals
<1>1. CASE Begin(r) \/ Kill(r)
  BY <1>1 DEF Begin, Kill
<1>2. CASE Prepare(r)
  <2>1. CASE SelectTenant(r) \/ SelectSource(r) \/ Finish(r)
    BY <2>1 DEF SelectTenant, SelectSource, Finish
  <2>2. CASE InsertTenant(r) \/ InsertSource(r)
    BY <2>2 DEF InsertTenant, InsertSource, Flush
  <2>3. CASE TenantRace(r) \/ SourceRace(r) \/ SeedRaises(r) \/ DiscoverRaises(r)
    BY <2>3 DEF TenantRace, SourceRace, SeedRaises, DiscoverRaises, IntegrityError, Raise
  <2>4. CASE CommitTenant(r) \/ CommitSource(r)
    BY <2>4 DEF CommitTenant, CommitSource, Commit
  <2>5. CASE Discover(r)
    BY <2>5 DEF Discover
  <2>6. CASE QueryExisting(r)
    BY <2>6 DEF QueryExisting
  <2> QED
    BY <1>2, <2>1, <2>2, <2>3, <2>4, <2>5, <2>6 DEF Prepare
<1>3. CASE Fetch(r)
  <2>1. CASE Skip(r) \/ StartFetch(r) \/ CreditBudgetExceeded(r)
    BY <2>1 DEF Skip, StartFetch, CreditBudgetExceeded
  <2>2. CASE FetchReturns(r)
    BY <2>2 DEF FetchReturns
  <2>3. CASE SourceError(r)
    BY <2>3 DEF SourceError
  <2>4. CASE FetchRaises(r)
    BY <2>4 DEF FetchRaises, Raise
  <2> QED
    BY <1>3, <2>1, <2>2, <2>3, <2>4 DEF Fetch
<1>4. CASE Persist(r)
  <2>1. CASE BronzeLookup(r)
    BY <2>1 DEF BronzeLookup
  <2>2. CASE BronzeOpen(r) \/ BronzeFill(r) \/ BronzeReplace(r)
    BY <2>2 DEF BronzeOpen, BronzeFill, BronzeReplace
  <2>3. CASE BronzeWriteConflict(r) \/ BronzeReplaceRaises(r)
    BY <2>3 DEF BronzeWriteConflict, BronzeReplaceRaises, Raise
  <2>6. CASE DocumentRace(r)
    BY <2>6 DEF DocumentRace, IntegrityError, Raise
  <2>4. CASE FlushDocument(r) \/ FlushTranscript(r) \/ FlushSegments(r) \/ NoSegments(r)
    BY <2>4 DEF FlushDocument, FlushTranscript, FlushSegments, NoSegments, Flush
  <2>5. CASE CommitVideo(r)
    BY <2>5 DEF CommitVideo, Commit
  <2> QED
    BY <1>4, <2>1, <2>2, <2>3, <2>4, <2>5, <2>6 DEF Persist
<1>5. CASE Close(r)
  <2>1. CASE EndOfListing(r) \/ TouchIngestState(r)
    BY <2>1 DEF EndOfListing, TouchIngestState
  <2>2. CASE CommitState(r)
    BY <2>2 DEF CommitState, Commit
  <2> QED
    BY <1>5, <2>1, <2>2 DEF Close
<1> QED
  BY <1>1, <1>2, <1>3, <1>4, <1>5 DEF Step, StepOf

\* At its commit a run commits or dies.
LEMMA AtCommit ==
    ASSUME NEW r \in Runs, StepOf(r), pc[r] = "commit"
    PROVE  CommitVideo(r) \/ Kill(r)
<1> USE DEF At
<1>1. ~ Begin(r)
  BY DEF Begin
<1>2. ~ Prepare(r)
  BY DEF Prepare, SelectTenant, InsertTenant, TenantRace, CommitTenant, SelectSource,
     InsertSource, SourceRace, CommitSource, SeedRaises, Discover, DiscoverRaises, QueryExisting, Finish
<1>3. ~ Fetch(r)
  BY DEF Fetch, Skip, StartFetch, FetchReturns, SourceError, CreditBudgetExceeded, FetchRaises
<1>4. ~ Close(r)
  BY DEF Close, EndOfListing, TouchIngestState, CommitState
<1>5. Persist(r) => CommitVideo(r)
  BY DEF Persist, BronzeLookup, BronzeWriteConflict, BronzeOpen, BronzeFill,
     BronzeReplace, BronzeReplaceRaises, FlushDocument, DocumentRace,
     FlushTranscript, FlushSegments, NoSegments
<1> QED
  BY <1>1, <1>2, <1>3, <1>4, <1>5 DEF Step, StepOf

\* A document row appears in the database only by CommitVideo, and is the row of the
\* video in hand.
LEMMA NewDocuments ==
    ASSUME Typed, RowRules, NEW r \in Runs, StepOf(r),
           NEW d \in db', d \notin db, d.table = "document"
    PROVE  CommitVideo(r) /\ d = DocumentRow(r)
<1>1. Commit(r) /\ pc[r] \in CommitPlaces
  BY DatabaseStep DEF StepOf
<1>2. d \in txn[r]
  BY <1>1 DEF Commit
<1>3. pc[r] = "commit"
  BY <1>1, <1>2, RowsOfDocument DEF Parts
<1>4. CommitVideo(r)
  <2>1. ~ Kill(r)
    BY DEF Kill
  <2> QED
    BY <1>3, <2>1, AtCommit
<1>5. d = DocumentRow(r)
  <2>1. TranscriptRow(r).table = "transcript" /\ SegmentRow(r).table = "segment"
    BY DEF TranscriptRow, SegmentRow, VideoRow
  <2>2. \/ \A row \in txn[r] : row.table \notin Parts
        \/ txn[r] = {DocumentRow(r)}
        \/ txn[r] \subseteq {DocumentRow(r), TranscriptRow(r), SegmentRow(r)}
    BY <1>1, HeldParts
  <2> QED
    BY <1>2, <2>1, <2>2 DEF Parts
<1> QED
  BY <1>4, <1>5

\* CommitVideo commits that row.
LEMMA CommitsDocument ==
    ASSUME RowRules, NEW r \in Runs, CommitVideo(r)
    PROVE  DocumentRow(r) \in db'
<1>1. DocumentRow(r) \in txn[r]
  BY DEF RowRules, OwnRows, OwnRowsOf, CommitVideo, At
<1> QED
  BY <1>1 DEF CommitVideo, Commit

LEMMA DocumentFields ==
    ASSUME NEW r \in Runs
    PROVE  /\ DocumentRow(r).table = "document"
           /\ DocumentRow(r).source = Source(r)
           /\ DocumentRow(r).video = Video(r)
           /\ DocumentRow(r).by = r
BY DEF DocumentRow, VideoRow

-----------------------------------------------------------------------------
(* Listings.  A catalogue names a video once, and so does what discovery    *)
(* cuts out of it.                                                          *)

Distinct(ids) == \A i, j \in 1..Len(ids) : ids[i] = ids[j] => i = j

DistinctListings == \A r \in Runs : Distinct(listing[r])

LEMMA PartDistinct ==
    ASSUME NEW ids \in Seq(Videos), Distinct(ids), NEW k \in Nat \ {0}, NEW n \in Nat,
           n <= Len(ids)
    PROVE  Distinct(SubSeq(ids, k, n))
<1>1. Len(SubSeq(ids, k, n)) = IF k <= n THEN n - k + 1 ELSE 0
  BY SMT
<1>2. \A i \in 1..Len(SubSeq(ids, k, n)) : /\ SubSeq(ids, k, n)[i] = ids[k + i - 1]
                                           /\ k + i - 1 \in 1..Len(ids)
  BY <1>1
<1> DEFINE part == SubSeq(ids, k, n)
<1>3. ASSUME NEW i \in 1..Len(part), NEW j \in 1..Len(part), part[i] = part[j]
      PROVE  i = j
  <2>1. k + i - 1 = k + j - 1
    BY <1>2, <1>3 DEF Distinct
  <2> QED
    BY <2>1, <1>1
<1> HIDE DEF part
<1>4. Distinct(part)
  BY <1>3 DEF Distinct
<1> QED
  BY <1>4 DEF part

LEMMA ListingsDistinct ==
    ASSUME NEW s \in Sources, NEW n \in Nat, NEW ids \in Listings(s, n)
    PROVE  Distinct(ids)
<1>1. PICK k \in 1..Len(Catalogue[s]) + 1 :
         ids = Limited(SubSeq(Catalogue[s], k, Len(Catalogue[s])), n)
  BY DEF Listings
<1>2. Catalogue[s] \in Seq(Videos) /\ Distinct(Catalogue[s])
  BY DEF Distinct
<1> DEFINE rest == SubSeq(Catalogue[s], k, Len(Catalogue[s]))
<1>3. k \in Nat \ {0} /\ Len(Catalogue[s]) \in Nat
  BY <1>2
<1>4. rest \in Seq(Videos)
  BY <1>2, SubSeqProperties
<1>5. Distinct(rest)
  BY <1>2, <1>3, PartDistinct
<1> HIDE DEF rest
<1>6. ASSUME n # 0, ~ (n >= Len(rest))
      PROVE  Distinct(SubSeq(rest, 1, n))
  <2>1. n <= Len(rest) /\ 1 \in Nat \ {0}
    BY <1>4, <1>6
  <2> QED
    BY <1>4, <1>5, <2>1, PartDistinct
<1> QED
  BY <1>1, <1>5, <1>6 DEF Limited, rest

LEMMA DistinctInit == Init => DistinctListings
BY DEF Init, DistinctListings, Distinct

LEMMA DistinctStep == Typed /\ DistinctListings /\ [Next]_vars => DistinctListings'
<1> SUFFICES ASSUME Typed, DistinctListings, [Next]_vars
             PROVE  DistinctListings'
  OBVIOUS
<1>1. CASE listing' = listing
  BY <1>1 DEF DistinctListings, Distinct
<1>2. ASSUME NEW r \in Runs, Discover(r)
      PROVE  DistinctListings'
  <2>1. Source(r) \in Sources
    BY <1>2, SourceType DEF Discover, At, HasSource, Typed, InRange
  <2>2. EffectiveLimit(LimitOf[r], CapOf[Source(r)]) \in Nat
    BY <2>1, EffectiveLimitType
  <2>3. PICK ids \in Listings(Source(r), EffectiveLimit(LimitOf[r], CapOf[Source(r)])) :
           listing' = [listing EXCEPT ![r] = ids]
    BY <1>2 DEF Discover
  <2>4. Distinct(ids)
    BY <2>1, <2>2, ListingsDistinct
  <2> QED
    <3>1. \A q \in Runs : listing'[q] = IF q = r THEN ids ELSE listing[q]
      BY <2>3 DEF Typed, TypeOK
    <3>2. \A q \in Runs : Distinct(listing'[q])
      BY <2>4, <3>1 DEF DistinctListings
    <3> QED
      BY <3>2 DEF DistinctListings
<1>3. ASSUME NEW r \in Runs, StepOf(r), ~ Discover(r)
      PROVE  listing' = listing
  <2> USE DEF locals
  <2>1. CASE Begin(r) \/ Kill(r)
    BY <2>1 DEF Begin, Kill
  <2>2. CASE Prepare(r)
    BY <1>3, <2>2 DEF Prepare, SelectTenant, InsertTenant, TenantRace, CommitTenant,
       SelectSource, InsertSource, SourceRace, CommitSource, SeedRaises, DiscoverRaises,
       QueryExisting, Finish, Flush, IntegrityError
  <2>3. CASE Fetch(r)
    BY <2>3 DEF Fetch, Skip, StartFetch, FetchReturns, SourceError, CreditBudgetExceeded,
       FetchRaises
  <2>4. CASE Persist(r)
    BY <2>4 DEF Persist, BronzeLookup, BronzeWriteConflict, BronzeOpen, BronzeFill,
     BronzeReplace, BronzeReplaceRaises, FlushDocument,
       DocumentRace, FlushTranscript, FlushSegments, NoSegments, CommitVideo, Flush, IntegrityError
  <2>5. CASE Close(r)
    BY <2>5 DEF Close, EndOfListing, TouchIngestState, CommitState
  <2> QED
    BY <1>3, <2>1, <2>2, <2>3, <2>4, <2>5 DEF Step, StepOf
<1>4. CASE UNCHANGED vars
  BY <1>4, <1>1 DEF vars, locals
<1> QED
  BY <1>1, <1>2, <1>3, <1>4 DEF Next, StepOf, Idle

-----------------------------------------------------------------------------
(* A run does not meet its own documents.  One it committed for the source  *)
(* in progress is behind its position, or was there when it asked, also if  *)
(* the source is in its seeds twice.                                        *)

OwnBehindOf(r) ==
    pc[r] \in InListing =>
        \A d \in db : d.table = "document" /\ d.by = r /\ d.source = Source(r) =>
            \A i \in ix[r]..Len(listing[r]) :
                listing[r][i] = d.video => d.video \in existing[r]

OwnBehind == \A r \in Runs : OwnBehindOf(r)

\* While nothing moves in the listing of q, it is enough that no document of q is new.
LEMMA BehindKept ==
    ASSUME Typed, NEW q \in Runs, OwnBehindOf(q), SameListing(q),
           \A d \in db' : d.table = "document" /\ d.by = q => d \in db
    PROVE  OwnBehindOf(q)'
BY DEF OwnBehindOf, SameListing, Source

LEMMA BehindStep ==
    Typed /\ RowRules /\ DistinctListings /\ OwnBehind /\ [Next]_vars => OwnBehind'
<1> SUFFICES ASSUME Typed, RowRules, DistinctListings, OwnBehind, [Next]_vars,
                    NEW q \in Runs
             PROVE  OwnBehindOf(q)'
  BY DEF OwnBehind
<1>1. OwnBehindOf(q)
  BY DEF OwnBehind
<1>2. CASE UNCHANGED vars
  BY <1>1, <1>2 DEF OwnBehindOf, Source, vars, store, files, locals
<1>3. ASSUME NEW r \in Runs, StepOf(r)
      PROVE  OwnBehindOf(q)'
  <2>1. ASSUME NEW d \in db', d.table = "document", d \notin db
        PROVE  CommitVideo(r) /\ d.by = r /\ d.source = Source(r) /\ d.video = Video(r)
    BY <1>3, <2>1, NewDocuments, DocumentFields
  <2>2. CASE q # r
    <3>1. SameListing(q)
      BY <1>3, <2>2, ListingKept DEF StepOf
    <3> QED
      BY <1>1, <2>1, <2>2, <3>1, BehindKept
  <2>3. CASE q = r /\ QueryExisting(r)
    <3>1. /\ existing'[r] = {listing[r][i] : i \in {j \in 1..Len(listing[r]) :
                                                  HasDocument(Source(r), listing[r][j])}}
          /\ ix'[r] = 1 /\ db' = db /\ listing' = listing /\ seedIx' = seedIx
      BY <2>3 DEF QueryExisting, Typed, TypeOK, store
    <3> QED
      BY <2>3, <3>1 DEF OwnBehindOf, HasDocument, InTable, Source
  <2>4. CASE q = r /\ (Skip(r) \/ SourceError(r))
    <3>1. /\ ix[r] \in Nat /\ ix'[r] = ix[r] + 1 /\ db' = db /\ listing' = listing
          /\ seedIx' = seedIx /\ existing' = existing /\ pc[r] \in InListing
      BY <2>4 DEF Skip, SourceError, Typed, TypeOK, store, InListing, At
    <3>2. Len(listing[r]) \in Nat /\ OwnBehindOf(r)
      BY <1>1, <2>4 DEF Typed, TypeOK
    <3>3. ix'[r]..Len(listing[r]) \subseteq ix[r]..Len(listing[r])
      BY <3>1, <3>2
    <3> QED
      BY <2>4, <3>1, <3>2, <3>3 DEF OwnBehindOf, Source
  <2>5. CASE q = r /\ CommitVideo(r)
    <3>1. /\ ix[r] \in Nat \ {0} /\ ix'[r] = ix[r] + 1 /\ listing' = listing
          /\ seedIx' = seedIx /\ existing' = existing /\ pc[r] = "commit"
      BY <2>5 DEF CommitVideo, Typed, TypeOK, At
    <3>2. ix[r] <= Len(listing[r]) /\ Len(listing[r]) \in Nat
      BY <3>1 DEF Typed, InRange, HasVideo, TypeOK
    <3>3. SUFFICES ASSUME NEW d \in db', d.table = "document", d.by = r,
                          d.source = Source(r), NEW i \in ix[r] + 1..Len(listing[r]),
                          listing[r][i] = d.video
                   PROVE  d.video \in existing[r]
      BY <2>5, <3>1, <3>2 DEF OwnBehindOf, Source
    <3> DEFINE n == Len(listing[r])
    <3> HIDE DEF n
    <3>0. i \in ix[r]..n /\ i \in 1..n /\ ix[r] \in 1..n /\ i # ix[r]
      BY <3>1, <3>2, <3>3 DEF n
    <3>4. CASE d \in db
      <4>1. OwnBehindOf(r) /\ pc[r] \in InListing
        BY <1>1, <2>5, <3>1 DEF InListing
      <4> QED
        BY <3>0, <3>3, <3>4, <4>1 DEF OwnBehindOf, n
    <3>5. CASE d \notin db
      <4>1. d.video = listing[r][ix[r]]
        BY <2>1, <3>3, <3>5 DEF Video
      <4>2. i = ix[r]
        BY <3>0, <3>3, <4>1 DEF DistinctListings, Distinct, n
      <4> QED
        BY <3>0, <4>2
    <3> QED
      BY <3>4, <3>5
  <2>6. CASE q = r /\ ~ (QueryExisting(r) \/ Skip(r) \/ SourceError(r) \/ CommitVideo(r))
    <3>1. SameListing(q)
      BY <1>3, <2>6, ListingKept DEF StepOf
    <3> QED
      BY <1>1, <2>1, <2>6, <3>1, BehindKept
  <2> QED
    BY <2>2, <2>3, <2>4, <2>5, <2>6
<1> QED
  BY <1>2, <1>3 DEF Next, StepOf, Idle

\* What holds of every state of the specification, and what it rests on.
Standing == Typed /\ RowRules /\ DistinctListings /\ OwnBehind /\ Entries

LEMMA StandingInit == Init => Standing
<1>1. Init => OwnBehind
  BY DEF Init, OwnBehind, OwnBehindOf, InListing
<1> QED
  BY <1>1, TypedInit, RowRulesInit, DistinctInit, EntriesInit DEF Standing

LEMMA StandingStep == Standing /\ [Next]_vars => Standing'
BY TypedStep, RowRulesStep, DistinctStep, BehindStep, EntriesStep DEF Standing

-----------------------------------------------------------------------------
(* Counting what was passed.  Of the ids in S, those before position n.     *)

Passed(ids, n, S) == {v \in S : \E i \in 1..n - 1 : ids[i] = v}

LEMMA PassedNone ==
    ASSUME NEW ids, NEW S
    PROVE  Passed(ids, 1, S) = {}
BY DEF Passed

LEMMA PassedFinite ==
    ASSUME NEW ids, NEW n, NEW S, IsFiniteSet(S)
    PROVE  /\ IsFiniteSet(Passed(ids, n, S))
           /\ Cardinality(Passed(ids, n, S)) \in Nat
           /\ Cardinality(Passed(ids, n, S)) <= Cardinality(S)
<1>1. Passed(ids, n, S) \in SUBSET S
  BY DEF Passed
<1> QED
  BY <1>1, FS_Subset, FS_CardinalityType

LEMMA PassedOver ==
    ASSUME NEW ids \in Seq(Videos), NEW n \in 1..Len(ids), NEW S, ids[n] \notin S
    PROVE  Passed(ids, n + 1, S) = Passed(ids, n, S)
<1>1. ASSUME NEW v \in S
      PROVE  (\E i \in 1..n + 1 - 1 : ids[i] = v) <=> (\E i \in 1..n - 1 : ids[i] = v)
  <2>1. 1..n + 1 - 1 = (1..n - 1) \cup {n}
    OBVIOUS
  <2> QED
    BY <1>1, <2>1
<1> QED
  BY <1>1 DEF Passed

LEMMA PassedOneMore ==
    ASSUME NEW ids \in Seq(Videos), Distinct(ids), NEW n \in 1..Len(ids), NEW S,
           IsFiniteSet(S), ids[n] \in S
    PROVE  Cardinality(Passed(ids, n + 1, S)) = Cardinality(Passed(ids, n, S)) + 1
<1>1. 1..n + 1 - 1 = (1..n - 1) \cup {n} /\ n \notin 1..n - 1 /\ 1..n - 1 \subseteq 1..Len(ids)
  OBVIOUS
<1>2. Passed(ids, n + 1, S) = Passed(ids, n, S) \cup {ids[n]}
  BY <1>1 DEF Passed
<1>3. ids[n] \notin Passed(ids, n, S)
  BY <1>1 DEF Passed, Distinct
<1>4. IsFiniteSet(Passed(ids, n, S))
  BY PassedFinite
<1> QED
  BY <1>2, <1>3, <1>4, FS_AddElement

LEMMA PassedAll ==
    ASSUME NEW ids \in Seq(Videos), NEW S \in SUBSET {ids[i] : i \in 1..Len(ids)}
    PROVE  Passed(ids, Len(ids) + 1, S) = S
<1>1. 1..Len(ids) + 1 - 1 = 1..Len(ids)
  OBVIOUS
<1> QED
  BY <1>1 DEF Passed

\* What is not passed is at the positions ahead, and there are no more of it than of them.
LEMMA AheadBound ==
    ASSUME NEW ids \in Seq(Videos), NEW n \in 1..Len(ids), NEW S, IsFiniteSet(S),
           S \subseteq {ids[i] : i \in 1..Len(ids)}, ids[n] \notin S
    PROVE  Cardinality(S) <= Cardinality(Passed(ids, n, S)) + (Len(ids) - n)
<1> DEFINE ahead == n + 1..Len(ids)
           A == {ids[i] : i \in ahead}
           f == [i \in ahead |-> ids[i]]
           P == Passed(ids, n, S)
<1>1. IsFiniteSet(ahead) /\ Cardinality(ahead) = Len(ids) - n
  <2>1. n + 1 \in Int /\ Len(ids) \in Int /\ n <= Len(ids)
    OBVIOUS
  <2>2. /\ IsFiniteSet(ahead)
        /\ Cardinality(ahead) = IF n + 1 > Len(ids) THEN 0 ELSE Len(ids) - (n + 1) + 1
    BY <2>1, FS_Interval
  <2> QED
    BY <2>1, <2>2
<1>2. f \in Surjection(ahead, A)
  BY DEF Surjection
<1> HIDE DEF ahead, A, f
<1>3. IsFiniteSet(A) /\ Cardinality(A) <= Cardinality(ahead)
  BY <1>1, <1>2, FS_Surjection
<1>4. IsFiniteSet(P) /\ Cardinality(P) \in Nat
  BY PassedFinite
<1>5. S \subseteq P \cup A
  <2>1. 1..Len(ids) = (1..n - 1) \cup {n} \cup ahead
    BY DEF ahead
  <2>2. ASSUME NEW v \in S
        PROVE  v \in P \cup A
    <3>1. PICK i \in 1..Len(ids) : ids[i] = v
      BY <2>2
    <3>2. i \in 1..n - 1 \/ i \in ahead
      BY <2>1, <2>2, <3>1
    <3> QED
      BY <2>2, <3>1, <3>2 DEF Passed, A
  <2> QED
    BY <2>2
<1> HIDE DEF P
<1>6. /\ IsFiniteSet(P \cup A)
      /\ Cardinality(P \cup A) = Cardinality(P) + Cardinality(A) - Cardinality(P \cap A)
  BY <1>3, <1>4, FS_Union
<1>7. Cardinality(P \cap A) \in Nat /\ Cardinality(A) \in Nat
  BY <1>3, <1>4, FS_Intersection, FS_CardinalityType
<1>8. Cardinality(S) <= Cardinality(P \cup A) /\ Cardinality(S) \in Nat
  BY <1>5, <1>6, FS_Subset, FS_CardinalityType
<1>9. Cardinality(S) <= Cardinality(P) + (Len(ids) - n)
  BY <1>1, <1>3, <1>4, <1>6, <1>7, <1>8
<1> QED
  BY <1>9 DEF P

-----------------------------------------------------------------------------
(* Summaries.                                                               *)

\* What Summary(r) is made of, while the source is in progress.
TallyOf(r) ==
    pc[r] \in InListing =>
        /\ existing[r] \subseteq {listing[r][i] : i \in 1..Len(listing[r])}
        /\ ix[r] <= Len(listing[r]) + 1
        /\ fetched[r] + Len(errors[r]) + Cardinality(Passed(listing[r], ix[r], existing[r]))
              = ix[r] - 1
        /\ pc[r] # "loop" /\ ix[r] <= Len(listing[r]) => Video(r) \notin existing[r]

AddsUp(m) ==
    LET attempted == m.already + m.fetched + m.failed
    IN IF m.cut THEN attempted < m.discovered ELSE attempted = m.discovered

Tally ==
    \A r \in Runs : TallyOf(r) /\ \A i \in 1..Len(summaries[r]) : AddsUp(summaries[r][i])

\* The steps of a run that count nothing: they leave what is counted as it is, and take
\* the run no further than out of its listing.
Counting(r) ==
    QueryExisting(r) \/ Skip(r) \/ SourceError(r) \/ CommitVideo(r) \/ CommitState(r)

LEMMA NothingCounted ==
    ASSUME Typed, NEW r \in Runs, StepOf(r), ~ Counting(r)
    PROVE  /\ UNCHANGED <<seedIx, existing, ix, fetched, errors, summaries>>
           /\ pc'[r] \in InListing => pc[r] \in InListing /\ listing' = listing
           /\ pc'[r] \in InListing \ {"loop"} =>
                 \/ pc[r] # "loop"
                 \/ Video(r) \notin existing[r]
                 \/ ~ ix[r] <= Len(listing[r])
           /\ pc[r] \in InListing => pc'[r] \in InListing \cup {"failed", "killed"}
           /\ pc[r] \notin {"failed", "killed"}
<1>0. pc \in [Runs -> Places]
  BY DEF Typed, TypeOK
<1> USE DEF At, Goto, locals
<1>1. CASE Begin(r)
  BY <1>0, <1>1 DEF Begin, InListing
<1>2. CASE Kill(r)
  BY <1>0, <1>2 DEF Kill, InListing, Active, Terminal
<1>3. CASE Prepare(r)
  <2>1. CASE SelectTenant(r)
    BY <1>0, <2>1 DEF SelectTenant, InListing
  <2>2. CASE SelectSource(r) \/ Finish(r)
    BY <1>0, <2>2 DEF SelectSource, Finish, InListing
  <2>3. CASE InsertTenant(r) \/ InsertSource(r)
    BY <1>0, <2>3 DEF InsertTenant, InsertSource, Flush, InListing
  <2>4. CASE TenantRace(r) \/ SourceRace(r) \/ SeedRaises(r) \/ DiscoverRaises(r)
    BY <1>0, <2>4 DEF TenantRace, SourceRace, SeedRaises, DiscoverRaises, IntegrityError, Raise, InListing
  <2>5. CASE CommitTenant(r) \/ CommitSource(r)
    BY <1>0, <2>5 DEF CommitTenant, CommitSource, InListing
  <2>6. CASE Discover(r)
    BY <1>0, <2>6 DEF Discover, InListing
  <2> QED
    BY <1>3, <2>1, <2>2, <2>3, <2>4, <2>5, <2>6 DEF Prepare, Counting
<1>4. CASE Fetch(r)
  <2>1. CASE StartFetch(r) \/ CreditBudgetExceeded(r)
    BY <1>0, <2>1 DEF StartFetch, CreditBudgetExceeded, InListing
  <2>2. CASE FetchReturns(r)
    BY <1>0, <2>2 DEF FetchReturns, InListing
  <2>3. CASE FetchRaises(r)
    BY <1>0, <2>3 DEF FetchRaises, Raise, InListing
  <2> QED
    BY <1>4, <2>1, <2>2, <2>3 DEF Fetch, Counting
<1>5. CASE Persist(r)
  <2>1. CASE BronzeLookup(r) \/ BronzeOpen(r) \/ BronzeFill(r) \/ BronzeReplace(r)
    BY <1>0, <2>1 DEF BronzeLookup, BronzeOpen, BronzeFill, BronzeReplace, InListing
  <2>2. CASE BronzeWriteConflict(r) \/ BronzeReplaceRaises(r) \/ DocumentRace(r)
    BY <1>0, <2>2 DEF BronzeWriteConflict, BronzeReplaceRaises, DocumentRace, IntegrityError, Raise, InListing
  <2>3. CASE FlushDocument(r) \/ FlushTranscript(r) \/ FlushSegments(r) \/ NoSegments(r)
    BY <1>0, <2>3 DEF FlushDocument, FlushTranscript, FlushSegments, NoSegments, Flush,
       AfterDocument, InListing
  <2> QED
    BY <1>5, <2>1, <2>2, <2>3 DEF Persist, Counting
<1>6. CASE Close(r)
  <2>1. CASE EndOfListing(r)
    <3>1. ix[r] \in Nat /\ Len(listing[r]) \in Nat
      BY DEF Typed, TypeOK
    <3> QED
      BY <1>0, <2>1, <3>1 DEF EndOfListing, InListing
  <2>2. CASE TouchIngestState(r)
    BY <1>0, <2>2 DEF TouchIngestState, InListing
  <2> QED
    BY <1>6, <2>1, <2>2 DEF Close, Counting
<1> QED
  BY <1>1, <1>2, <1>3, <1>4, <1>5, <1>6 DEF Step, StepOf

LEMMA TallyKept ==
    ASSUME NEW q \in Runs, TallyOf(q),
           pc'[q] \in InListing =>
              /\ pc[q] \in InListing
              /\ listing'[q] = listing[q]
              /\ existing'[q] = existing[q]
              /\ ix'[q] = ix[q]
              /\ fetched'[q] = fetched[q]
              /\ errors'[q] = errors[q]
              /\ pc'[q] # "loop" => \/ pc[q] # "loop"
                                    \/ Video(q) \notin existing[q]
                                    \/ ~ ix[q] <= Len(listing[q])
    PROVE  TallyOf(q)'
<1>1. SUFFICES ASSUME pc'[q] \in InListing
               PROVE  /\ existing'[q] \subseteq {listing'[q][i] : i \in 1..Len(listing'[q])}
                      /\ ix'[q] <= Len(listing'[q]) + 1
                      /\ fetched'[q] + Len(errors'[q])
                            + Cardinality(Passed(listing'[q], ix'[q], existing'[q])) = ix'[q] - 1
                      /\ pc'[q] # "loop" /\ ix'[q] <= Len(listing'[q]) =>
                            listing'[q][ix'[q]] \notin existing'[q]
  BY DEF TallyOf, Passed, Video
<1>2. pc'[q] # "loop" /\ ix[q] <= Len(listing[q]) => Video(q) \notin existing[q]
  BY <1>1 DEF TallyOf
<1>3. PICK ids, S, n : /\ ids = listing[q] /\ ids = listing'[q]
                       /\ S = existing[q] /\ S = existing'[q]
                       /\ n = ix[q] /\ n = ix'[q]
  BY <1>1
<1>4. /\ S \subseteq {ids[i] : i \in 1..Len(ids)}
      /\ n <= Len(ids) + 1
      /\ fetched[q] + Len(errors[q]) + Cardinality(Passed(ids, n, S)) = n - 1
  BY <1>1, <1>3 DEF TallyOf
<1> QED
  BY <1>1, <1>2, <1>3, <1>4 DEF Video

\* One more id is behind: it was met in the snapshot, or counted.
LEMMA OneMoreBehind ==
    ASSUME NEW ids \in Seq(Videos), Distinct(ids), NEW S, IsFiniteSet(S),
           NEW n \in 1..Len(ids), NEW old \in Nat, NEW new \in Nat,
           old + Cardinality(Passed(ids, n, S)) = n - 1,
           \/ ids[n] \in S /\ new = old
           \/ ids[n] \notin S /\ new = old + 1
    PROVE  new + Cardinality(Passed(ids, n + 1, S)) = n
<1>1. PICK c \in Nat : c = Cardinality(Passed(ids, n, S))
  BY PassedFinite
<1>2. CASE ids[n] \in S
  <2>1. PICK d : d = Cardinality(Passed(ids, n + 1, S)) /\ d = c + 1
    BY <1>1, <1>2, PassedOneMore
  <2> QED
    BY <1>1, <1>2, <2>1
<1>3. CASE ids[n] \notin S
  <2>1. Passed(ids, n + 1, S) = Passed(ids, n, S)
    BY <1>3, PassedOver
  <2>2. PICK d : d = Cardinality(Passed(ids, n + 1, S)) /\ d = c
    BY <1>1, <2>1
  <2> QED
    BY <1>1, <1>3, <2>2
<1> QED
  BY <1>2, <1>3

LEMMA TallyAdvances ==
    ASSUME Typed, DistinctListings, NEW r \in Runs, TallyOf(r),
           Skip(r) \/ SourceError(r) \/ CommitVideo(r)
    PROVE  TallyOf(r)'
<1>1. PICK ids, S, n, f, g :
         /\ ids = listing[r] /\ S = existing[r] /\ n = ix[r]
         /\ f = fetched[r] /\ g = errors[r]
  OBVIOUS
<1>2. /\ ids \in Seq(Videos) /\ n \in Nat \ {0} /\ f \in Nat /\ g \in Seq(Videos)
      /\ S \in SUBSET Videos /\ Video(r) = ids[n]
  BY <1>1 DEF Typed, TypeOK, Video
<1>3. n <= Len(ids) /\ pc[r] \in InListing
  BY <1>1, <1>2 DEF Skip, SourceError, CommitVideo, Typed, InRange, HasVideo, At, InListing
<1>4. n \in 1..Len(ids) /\ Len(ids) \in Nat
  BY <1>2, <1>3
<1>5. IsFiniteSet(S)
  BY <1>2, FS_Subset
<1>6. /\ S \subseteq {ids[i] : i \in 1..Len(ids)}
      /\ f + Len(g) + Cardinality(Passed(ids, n, S)) = n - 1
      /\ pc[r] # "loop" => ids[n] \notin S
  BY <1>1, <1>2, <1>3 DEF TallyOf
<1>7. Distinct(ids)
  BY <1>1 DEF DistinctListings
<1>8. /\ listing' = listing /\ existing' = existing /\ ix'[r] = n + 1 /\ pc'[r] = "loop"
      /\ \/ ids[n] \in S /\ fetched'[r] = f /\ errors'[r] = g
         \/ ids[n] \notin S /\ fetched'[r] = f + 1 /\ errors'[r] = g
         \/ ids[n] \notin S /\ fetched'[r] = f /\ errors'[r] = Append(g, ids[n])
  <2>1. CASE Skip(r)
    BY <1>1, <1>2, <2>1 DEF Skip, At, Typed, TypeOK
  <2>2. CASE SourceError(r)
    <3>1. errors'[r] = Append(g, ids[n]) /\ fetched' = fetched /\ pc[r] = "fetching"
      BY <1>1, <1>2, <2>2 DEF SourceError, At, Typed, TypeOK
    <3> QED
      BY <1>1, <1>6, <2>2, <3>1 DEF SourceError, At, Goto, Typed, TypeOK
  <2>3. CASE CommitVideo(r)
    <3>1. fetched'[r] = f + 1 /\ errors' = errors /\ pc[r] = "commit"
      BY <1>1, <2>3 DEF CommitVideo, At, Typed, TypeOK
    <3> QED
      BY <1>1, <1>6, <2>3, <3>1 DEF CommitVideo, At, Goto, Typed, TypeOK
  <2> QED
    BY <2>1, <2>2, <2>3
<1>9. Len(g) \in Nat /\ Len(Append(g, ids[n])) = Len(g) + 1
  BY <1>2, <1>4
<1>10. PICK old, new \in Nat : /\ old = f + Len(g) /\ new = fetched'[r] + Len(errors'[r])
                               /\ \/ ids[n] \in S /\ new = old
                                  \/ ids[n] \notin S /\ new = old + 1
  <2>1. CASE ids[n] \in S
    <3>1. fetched'[r] = f /\ errors'[r] = g
      BY <1>8, <2>1
    <3> QED
      BY <1>2, <1>9, <2>1, <3>1
  <2>2. CASE ids[n] \notin S
    <3>1. PICK k \in Nat : k = Len(g)
      BY <1>9
    <3>2. CASE fetched'[r] = f + 1 /\ errors'[r] = g
      <4>1. f + k + 1 \in Nat /\ fetched'[r] + Len(errors'[r]) = f + k + 1 /\ f + k \in Nat
        BY <1>2, <3>1, <3>2
      <4> QED
        BY <2>2, <3>1, <4>1
    <3>3. CASE fetched'[r] = f /\ errors'[r] = Append(g, ids[n])
      <4>1. PICK e, l : e = errors'[r] /\ l = Len(e) /\ l = k + 1
        BY <1>9, <3>1, <3>3
      <4>2. f \in Nat
        BY <1>2
      <4>3. f + k \in Nat /\ f + (k + 1) = f + k + 1 /\ f + (k + 1) \in Nat
        BY <3>1, <4>2, PlusOne
      <4> QED
        BY <2>2, <3>1, <3>3, <4>1, <4>3
    <3> QED
      BY <1>8, <2>2, <3>2, <3>3
  <2> QED
    BY <2>1, <2>2
<1>11. old + Cardinality(Passed(ids, n, S)) = n - 1
  BY <1>6, <1>10
<1>12. new + Cardinality(Passed(ids, n + 1, S)) = n
  <2>1. \/ ids[n] \in S /\ new = old
        \/ ids[n] \notin S /\ new = old + 1
    BY <1>10
  <2>2. ids \in Seq(Videos) /\ n \in 1..Len(ids) /\ old \in Nat /\ new \in Nat
    BY <1>2, <1>4, <1>10
  <2> QED
    BY <1>5, <1>7, <1>11, <2>1, <2>2, OneMoreBehind
<1>13. PICK L, T, m : /\ L = listing'[r] /\ L = ids
                      /\ T = existing'[r] /\ T = S
                      /\ m = ix'[r] /\ m = n + 1
  BY <1>1, <1>8
<1>14. m <= Len(L) + 1 /\ m - 1 = n
  BY <1>4, <1>13
<1>15. fetched'[r] + Len(errors'[r]) + Cardinality(Passed(L, m, T)) = m - 1
  BY <1>10, <1>12, <1>13, <1>14
<1>16. T \subseteq {L[i] : i \in 1..Len(L)}
  BY <1>6, <1>13
<1> QED
  BY <1>8, <1>13, <1>14, <1>15, <1>16 DEF TallyOf, Passed

\* A snapshot starts the tally at nothing.
LEMMA TallyBegins ==
    ASSUME Typed, NEW r \in Runs, QueryExisting(r)
    PROVE  TallyOf(r)'
<1>0. /\ listing \in [Runs -> Seq(Videos)] /\ existing \in [Runs -> SUBSET Videos]
      /\ ix \in [Runs -> Nat \ {0}] /\ fetched \in [Runs -> Nat]
      /\ errors \in [Runs -> Seq(Videos)] /\ pc \in [Runs -> Places]
  BY DEF Typed, TypeOK
<1>1a. /\ listing' = listing /\ ix'[r] = 1 /\ fetched'[r] = 0 /\ errors'[r] = <<>>
       /\ pc'[r] = "loop"
  BY <1>0 DEF QueryExisting, Goto
<1>1b. existing'[r] = {listing[r][i] : i \in {j \in 1..Len(listing[r]) :
                                                HasDocument(Source(r), listing[r][j])}}
  BY <1>0 DEF QueryExisting
<1>1. /\ listing' = listing /\ ix'[r] = 1 /\ fetched'[r] = 0 /\ errors'[r] = <<>>
      /\ existing'[r] = {listing[r][i] : i \in {j \in 1..Len(listing[r]) :
                                                  HasDocument(Source(r), listing[r][j])}}
      /\ pc'[r] = "loop" /\ Len(listing[r]) \in Nat
  BY <1>0, <1>1a, <1>1b
<1>2. PICK L, T : L = listing'[r] /\ L = listing[r] /\ T = existing'[r]
  BY <1>1
<1>3. Passed(L, 1, T) = {} /\ Cardinality(Passed(L, 1, T)) = 0
  BY PassedNone, FS_EmptySet
<1>4. T \subseteq {L[i] : i \in 1..Len(L)}
  BY <1>1, <1>2
<1>5. PICK P : P = Passed(L, 1, T) /\ Cardinality(P) = 0
  BY <1>3
<1>6. Passed(listing'[r], ix'[r], existing'[r]) = P
  BY <1>1, <1>2, <1>5
<1>7. Len(errors'[r]) = 0
  BY <1>1
<1>8. Passed(listing[r], ix[r], existing[r])' = P
  BY <1>6 DEF Passed
<1> QED
  BY <1>1, <1>2, <1>4, <1>5, <1>7, <1>8 DEF TallyOf

\* The summary a source ends with adds up: everything is behind the run, or the budget
\* broke the listing off at a video that was not there before.
LEMMA SummaryAdds ==
    ASSUME Typed, NEW r \in Runs, TallyOf(r), pc[r] = "commitState"
    PROVE  AddsUp(Summary(r))
<1> DEFINE ids == listing[r]
           S == existing[r]
           n == ix[r]
           P == Passed(ids, n, S)
<1>1. /\ ids \in Seq(Videos) /\ n \in Nat \ {0} /\ fetched[r] \in Nat /\ errors[r] \in Seq(Videos)
      /\ S \in SUBSET Videos /\ Video(r) = ids[n]
  BY DEF Typed, TypeOK, Video
<1>2. /\ S \subseteq {ids[i] : i \in 1..Len(ids)}
      /\ n <= Len(ids) + 1
      /\ fetched[r] + Len(errors[r]) + Cardinality(P) = n - 1
      /\ n <= Len(ids) => ids[n] \notin S
  BY <1>1 DEF TallyOf, InListing
<1>3. IsFiniteSet(S) /\ Cardinality(S) \in Nat
  BY <1>1, FS_Subset, FS_CardinalityType
<1>4. Cardinality(P) \in Nat
  BY <1>3, PassedFinite
<1>5. Len(ids) \in Nat /\ Len(errors[r]) \in Nat
  BY <1>1
<1>6. CASE n <= Len(ids)
  <2> HIDE DEF ids, S, n
  <2>1. n \in 1..Len(ids) /\ ids[n] \notin S
    BY <1>1, <1>2, <1>5, <1>6
  <2>2. Cardinality(S) <= Cardinality(P) + (Len(ids) - n)
    BY <1>1, <1>2, <1>3, <2>1, AheadBound
  <2>3. PICK c, p, l, e, f, k \in Nat :
          /\ c = Cardinality(S) /\ p = Cardinality(P) /\ l = Len(ids) /\ e = Len(errors[r])
          /\ f = fetched[r] /\ k = n
    BY <1>1, <1>3, <1>4, <1>5
  <2>4. f + e + p = k - 1 /\ c <= p + (l - k) /\ k <= l
    BY <1>2, <1>6, <2>2, <2>3
  <2>5. c + f + e < l
    BY ONLY <2>3, <2>4, CutShort
  <2> QED
    BY <1>6, <2>3, <2>5 DEF AddsUp, Summary, ids, S, n
<1>7. CASE ~ n <= Len(ids)
  <2>1. n = Len(ids) + 1
    BY <1>1, <1>2, <1>5, <1>7
  <2>2. P = S
    BY <1>1, <1>2, <2>1, PassedAll
  <2>3. Cardinality(S) + fetched[r] + Len(errors[r]) = Len(ids)
    BY <1>1, <1>2, <1>3, <1>5, <2>1, <2>2
  <2> QED
    BY <1>7, <2>3 DEF AddsUp, Summary
<1> QED
  BY <1>6, <1>7

\* What an element of a sequence with one more at its end is.
LEMMA LastOfAppend ==
    ASSUME NEW M, NEW s \in Seq(M), NEW m, NEW i \in 1..Len(Append(s, m))
    PROVE  \/ i \in 1..Len(s) /\ Append(s, m)[i] = s[i]
           \/ i = Len(s) + 1 /\ Append(s, m)[i] = m
<1>1. Len(Append(s, m)) = Len(s) + 1 /\ Len(s) \in Nat
  OBVIOUS
<1>2. i \in 1..Len(s) \/ i = Len(s) + 1
  BY <1>1
<1> QED
  BY <1>1, <1>2

LEMMA TallyStep == Typed /\ DistinctListings /\ Tally /\ [Next]_vars => Tally'
<1> SUFFICES ASSUME Typed, DistinctListings, Tally, [Next]_vars, NEW q \in Runs
             PROVE  TallyOf(q)' /\ \A i \in 1..Len(summaries'[q]) : AddsUp(summaries'[q][i])
  BY DEF Tally, AddsUp
<1>1. TallyOf(q) /\ \A i \in 1..Len(summaries[q]) : AddsUp(summaries[q][i])
  BY DEF Tally
<1>2. CASE UNCHANGED vars
  BY <1>1, <1>2 DEF TallyOf, Passed, Video, vars, locals
<1>3. ASSUME NEW r \in Runs, StepOf(r)
      PROVE  TallyOf(q)' /\ \A i \in 1..Len(summaries'[q]) : AddsUp(summaries'[q][i])
  <2>1. CASE q # r
    <3>1. SameRun(q)
      BY <1>3, <2>1, OthersKept
    <3> QED
      BY <1>1, <3>1, TallyKept DEF SameRun
  <2>2. CASE q = r /\ ~ Counting(r)
    <3>1. TallyOf(r)'
      BY <1>1, <1>3, <2>2, NothingCounted, TallyKept
    <3>2. summaries' = summaries
      BY <1>3, <2>2, NothingCounted
    <3> QED
      BY <1>1, <2>2, <3>1, <3>2
  <2>3. CASE q = r /\ (Skip(r) \/ SourceError(r) \/ CommitVideo(r))
    <3>1. TallyOf(r)'
      BY <1>1, <2>3, TallyAdvances
    <3>2. summaries' = summaries
      BY <2>3 DEF Skip, SourceError, CommitVideo
    <3> QED
      BY <1>1, <2>3, <3>1, <3>2
  <2>4. CASE q = r /\ QueryExisting(r)
    <3>1. summaries' = summaries
      BY <2>4 DEF QueryExisting
    <3> QED
      BY <1>1, <2>4, <3>1, TallyBegins
  <2>5. CASE q = r /\ CommitState(r)
    <3>1. /\ pc[r] = "commitState" /\ pc'[r] = "source"
          /\ summaries'[r] = Append(summaries[r], Summary(r))
          /\ seedIx[r] <= Len(SeedsOf[r])
      BY <2>5 DEF CommitState, At, Goto, Typed, TypeOK, InRange, HasSource, InListing
    <3>2. TallyOf(r)'
      BY <3>1 DEF TallyOf, InListing
    <3>3. AddsUp(Summary(r))
      BY <1>1, <2>5, <3>1, SummaryAdds
    <3>4. PICK m, s : /\ m = Summary(r) /\ AddsUp(m)
                      /\ s = summaries[r] /\ summaries'[r] = Append(s, m)
      BY <3>1, <3>3
    <3>5. PICK M : s \in Seq(M)
      BY <3>4 DEF Typed, TypeOK
    <3>6. \A i \in 1..Len(Append(s, m)) : \/ i \in 1..Len(s) /\ Append(s, m)[i] = s[i]
                                          \/ Append(s, m)[i] = m
      BY <3>5, LastOfAppend
    <3> QED
      BY <1>1, <2>5, <3>2, <3>4, <3>6
  <2> QED
    BY <2>1, <2>2, <2>3, <2>4, <2>5 DEF Counting
<1> QED
  BY <1>2, <1>3 DEF Next, StepOf, Idle

\* A source's summary adds up, except after a budget break: discovered = already ingested
\* + fetched + failed (IngestSummary, as ingest_source fills it).
THEOREM SummaryTotals == Spec => []SummariesAddUp
<1>1. Init => Standing /\ Tally
  <2>1. Init => Tally
    BY DEF Init, Tally, TallyOf, InListing
  <2> QED
    BY <2>1, StandingInit
<1>2. Standing /\ Tally /\ [Next]_vars => (Standing /\ Tally)'
  BY StandingStep, TallyStep DEF Standing
<1>3. Standing /\ Tally => SummariesAddUp
  BY DEF Tally, AddsUp, SummariesAddUp
<1> QED
  BY <1>1, <1>2, <1>3, PTL DEF Spec

-----------------------------------------------------------------------------
(* What a summary counts is in the database.  Documents of a source that a  *)
(* run inserted appear only by its own commits, one row each, and its       *)
(* counter follows them from the snapshot to the summary; the rows stay.    *)

\* The document rows run r inserted for source s, and a source its seeds name once.
DocumentsOf(r, s) == {d \in db : d.table = "document" /\ d.source = s /\ d.by = r}
Once(r, s) == \A j, k \in 1..Len(SeedsOf[r]) : SeedsOf[r][j] = s /\ SeedsOf[r][k] = s => j = k

Ended == {"failed", "killed"}

\* The j-th seed of r is done, in its listing, or not begun.
CountAt(r, j) ==
    LET rows == DocumentsOf(r, SeedsOf[r][j])
    IN /\ j < seedIx[r] => Cardinality(rows) = summaries[r][j].fetched
       /\ j = seedIx[r] /\ pc[r] \in InListing => Cardinality(rows) = fetched[r]
       /\ j = seedIx[r] /\ pc[r] \notin InListing \cup Ended => rows = {}
       /\ j > seedIx[r] => rows = {}

CountsOf(r) ==
    /\ Len(summaries[r]) = seedIx[r] - 1
    /\ Len(summaries[r]) <= Len(SeedsOf[r])
    /\ \A i \in 1..Len(summaries[r]) : summaries[r][i].source = SeedsOf[r][i]
    /\ \A j \in 1..Len(SeedsOf[r]) :
          /\ IsFiniteSet(DocumentsOf(r, SeedsOf[r][j]))
          /\ Once(r, SeedsOf[r][j]) => CountAt(r, j)

Counts == \A r \in Runs : CountsOf(r)

LEMMA DocumentsKept ==
    ASSUME Typed, RowRules, NEW r \in Runs, StepOf(r), NEW q, NEW s,
           ~ (CommitVideo(r) /\ q = r /\ s = Source(r))
    PROVE  DocumentsOf(q, s)' = DocumentsOf(q, s)
<1>1. Stays
  BY StaysStep DEF Next, StepOf
<1>2. \A d \in db' : d \notin db /\ d.table = "document" => CommitVideo(r) /\ d = DocumentRow(r)
  BY NewDocuments
<1>3. DocumentRow(r).source = Source(r) /\ DocumentRow(r).by = r
  BY DocumentFields
<1>4. \A d \in db' : d.table = "document" /\ d.source = s /\ d.by = q => d \in db
  BY <1>2, <1>3
<1> QED
  BY <1>1, <1>4 DEF DocumentsOf, Stays

\* A commit of a video adds one row that was not there.
LEMMA DocumentAdded ==
    ASSUME Typed, RowRules, NEW r \in Runs, CommitVideo(r), NEW s, s = Source(r)
    PROVE  /\ DocumentRow(r) \notin db
           /\ DocumentsOf(r, s)' = DocumentsOf(r, s) \cup {DocumentRow(r)}
<1>1. DocumentRow(r) \in txn[r]
  BY DEF RowRules, OwnRows, OwnRowsOf, CommitVideo, At
<1>2. /\ DocumentRow(r).table = "document"
      /\ DocumentRow(r).source = s /\ DocumentRow(r).by = r
  BY DocumentFields
<1>3. DocumentRow(r) \notin db
  BY <1>1, <1>2 DEF RowRules, KeyRules, HeldKeysFree
<1>4. StepOf(r)
  BY DEF StepOf, Step, Persist
<1>5. Stays
  BY <1>4, StaysStep DEF Next, StepOf
<1>6. \A d \in db' : d \notin db /\ d.table = "document" => d = DocumentRow(r)
  BY <1>4, NewDocuments
<1>7. DocumentRow(r) \in db'
  BY CommitsDocument
<1>8. \A d : d \in db' /\ d.table = "document" /\ d.source = s /\ d.by = r
                <=> \/ d \in db /\ d.table = "document" /\ d.source = s /\ d.by = r
                    \/ d = DocumentRow(r)
  BY <1>2, <1>5, <1>6, <1>7 DEF Stays
<1> QED
  BY <1>3, <1>8 DEF DocumentsOf

\* Counters and rows stay, or a snapshot starts the count at nothing.
LEMMA CountsKept ==
    ASSUME NEW q \in Runs, CountsOf(q),
           \A j \in 1..Len(SeedsOf[q]) :
               DocumentsOf(q, SeedsOf[q][j])' = DocumentsOf(q, SeedsOf[q][j]),
           seedIx'[q] = seedIx[q], summaries'[q] = summaries[q],
           pc'[q] \in InListing => \/ pc[q] \in InListing /\ fetched'[q] = fetched[q]
                                   \/ pc[q] \notin InListing \cup Ended /\ fetched'[q] = 0,
           pc'[q] \notin InListing \cup Ended => pc[q] \notin InListing \cup Ended
    PROVE  CountsOf(q)'
<1>1. ASSUME NEW j \in 1..Len(SeedsOf[q])
      PROVE  /\ IsFiniteSet(DocumentsOf(q, SeedsOf[q][j]))'
             /\ Once(q, SeedsOf[q][j]) => CountAt(q, j)'
  <2>1. PICK rows : rows = DocumentsOf(q, SeedsOf[q][j]) /\ rows = DocumentsOf(q, SeedsOf[q][j])'
    BY <1>1
  <2>2. IsFiniteSet(rows)
    BY <1>1, <2>1 DEF CountsOf
  <2>3. Cardinality({}) = 0
    BY FS_EmptySet
  <2>4. ASSUME Once(q, SeedsOf[q][j])
        PROVE  /\ j < seedIx'[q] => Cardinality(rows) = summaries'[q][j].fetched
               /\ j = seedIx'[q] /\ pc'[q] \in InListing => Cardinality(rows) = fetched'[q]
               /\ j = seedIx'[q] /\ pc'[q] \notin InListing \cup Ended => rows = {}
               /\ j > seedIx'[q] => rows = {}
    <3>1. CountAt(q, j)
      BY <1>1, <2>4 DEF CountsOf
    <3> QED
      BY <2>1, <2>3, <3>1 DEF CountAt
  <2> QED
    BY <2>1, <2>2, <2>4 DEF CountAt
<1> QED
  BY <1>1 DEF CountsOf, Once

LEMMA CountsAdvance ==
    ASSUME Typed, RowRules, NEW r \in Runs, CountsOf(r), CommitVideo(r)
    PROVE  CountsOf(r)'
<1>1. /\ seedIx' = seedIx /\ summaries' = summaries /\ fetched'[r] = fetched[r] + 1
      /\ pc[r] \in InListing /\ pc'[r] \in InListing
      /\ Source(r) = SeedsOf[r][seedIx[r]] /\ seedIx[r] \in 1..Len(SeedsOf[r])
  BY DEF CommitVideo, At, Goto, Typed, TypeOK, InRange, HasSource, InListing, Source
<1>2. StepOf(r)
  BY DEF StepOf, Step, Persist
<1>3. ASSUME NEW j \in 1..Len(SeedsOf[r])
      PROVE  /\ IsFiniteSet(DocumentsOf(r, SeedsOf[r][j]))'
             /\ Once(r, SeedsOf[r][j]) => CountAt(r, j)'
  <2>1. PICK rows, more : /\ rows = DocumentsOf(r, SeedsOf[r][j])
                          /\ more = DocumentsOf(r, SeedsOf[r][j])'
    OBVIOUS
  <2>2. IsFiniteSet(rows) /\ (Once(r, SeedsOf[r][j]) => CountAt(r, j))
    BY <1>3, <2>1 DEF CountsOf
  <2>3. CASE SeedsOf[r][j] # Source(r)
    <3>1. more = rows
      BY <1>2, <2>1, <2>3, DocumentsKept
    <3>2. j # seedIx[r]
      BY <1>1, <2>3
    <3> QED
      BY <1>1, <2>1, <2>2, <3>1, <3>2 DEF CountAt
  <2>4. CASE SeedsOf[r][j] = Source(r)
    <3>0. PICK s : s = SeedsOf[r][j] /\ s = Source(r)
      BY <2>4
    <3>1. PICK d : d \notin rows /\ more = rows \cup {d}
      <4>1. DocumentRow(r) \notin db /\ more = rows \cup {DocumentRow(r)}
        BY <2>1, <3>0, DocumentAdded
      <4>2. DocumentRow(r) \notin rows
        BY <2>1, <4>1 DEF DocumentsOf
      <4> QED
        BY <4>1, <4>2
    <3>2. IsFiniteSet(more) /\ Cardinality(more) = Cardinality(rows) + 1
      BY <2>2, <3>1, FS_AddElement
    <3>3. ASSUME Once(r, SeedsOf[r][j])
          PROVE  /\ j = seedIx[r] /\ Cardinality(more) = fetched'[r]
                 /\ seedIx[r] \in Nat
      <4>1. j = seedIx[r]
        BY <1>1, <1>3, <2>4, <3>3 DEF Once
      <4>2. Cardinality(rows) = fetched[r]
        BY <1>1, <2>1, <2>2, <3>3, <4>1 DEF CountAt
      <4> QED
        BY <1>1, <3>2, <4>1, <4>2
    <3>4. Once(r, SeedsOf[r][j]) =>
             /\ j < seedIx'[r] => Cardinality(more) = summaries'[r][j].fetched
             /\ j = seedIx'[r] /\ pc'[r] \in InListing => Cardinality(more) = fetched'[r]
             /\ j = seedIx'[r] /\ pc'[r] \notin InListing \cup Ended => more = {}
             /\ j > seedIx'[r] => more = {}
      BY <1>1, <3>3
    <3> QED
      BY <2>1, <3>2, <3>4 DEF CountAt
  <2> QED
    BY <2>3, <2>4
<1> QED
  BY <1>1, <1>3 DEF CountsOf, Once

\* The summary takes the counter over when its source ends.
LEMMA CountsClose ==
    ASSUME Typed, RowRules, NEW r \in Runs, CountsOf(r), CommitState(r)
    PROVE  CountsOf(r)'
<1>1. /\ pc[r] = "commitState" /\ pc'[r] = "source"
      /\ summaries'[r] = Append(summaries[r], Summary(r))
      /\ seedIx'[r] = seedIx[r] + 1
      /\ seedIx[r] \in Nat \ {0} /\ seedIx[r] <= Len(SeedsOf[r])
  <2>1. pc[r] = "commitState" /\ pc'[r] = "source"
    BY DEF CommitState, At, Goto, Typed, TypeOK
  <2>2. summaries'[r] = Append(summaries[r], Summary(r)) /\ seedIx'[r] = seedIx[r] + 1
    BY DEF CommitState, Typed, TypeOK
  <2>3. seedIx[r] <= Len(SeedsOf[r])
    BY <2>1 DEF Typed, InRange, HasSource, InListing
  <2>4. seedIx[r] \in Nat \ {0}
    BY DEF Typed, TypeOK
  <2> QED
    BY <2>1, <2>2, <2>3, <2>4
<1>2. PICK s, m, n : /\ s = summaries[r] /\ m = Summary(r)
                     /\ summaries'[r] = Append(s, m)
                     /\ n = seedIx[r] /\ n \in Nat \ {0} /\ n <= Len(SeedsOf[r])
                     /\ seedIx'[r] = n + 1
  BY <1>1
<1>3. PICK M : s \in Seq(M) /\ Len(s) = n - 1
  BY <1>2 DEF CountsOf, Typed, TypeOK
<1>4. /\ Len(Append(s, m)) = n
      /\ \A i \in 1..n - 1 : Append(s, m)[i] = s[i]
      /\ Append(s, m)[n] = m
  <2>1. Len(s) \in Nat /\ Len(Append(s, m)) = Len(s) + 1
    BY <1>3
  <2>2. n \in Nat /\ Len(s) + 1 = n
    BY <1>2, <1>3, <2>1
  <2>3. \A i \in 1..Len(s) : Append(s, m)[i] = s[i]
    BY <1>3
  <2>4. Append(s, m)[Len(s) + 1] = m
    BY <1>3
  <2> QED
    BY <1>3, <2>1, <2>2, <2>3, <2>4
<1>5. m.source = SeedsOf[r][n] /\ m.fetched = fetched[r]
  BY <1>2 DEF Summary, Source
<1>6. PICK l \in Nat : l = Len(SeedsOf[r]) /\ n <= l /\ n \in Nat \ {0}
  BY <1>2, SeedsLength
<1>7. ASSUME NEW i \in 1..n
      PROVE  Append(s, m)[i] = IF i = n THEN m ELSE s[i]
  BY <1>4, <1>6
<1>8. \A i \in 1..Len(summaries'[r]) : summaries'[r][i].source = SeedsOf[r][i]
  <2>1. \A i \in 1..n - 1 : s[i].source = SeedsOf[r][i]
    BY <1>2, <1>3 DEF CountsOf
  <2>2. \A i \in 1..n : i = n \/ i \in 1..n - 1
    BY <1>6
  <2>3. \A i \in 1..n : Append(s, m)[i].source = SeedsOf[r][i]
    BY <1>5, <1>7, <2>1, <2>2
  <2> QED
    BY <1>2, <1>4, <2>3
<1>9. ASSUME NEW j \in 1..Len(SeedsOf[r])
      PROVE  /\ IsFiniteSet(DocumentsOf(r, SeedsOf[r][j]))'
             /\ Once(r, SeedsOf[r][j]) => CountAt(r, j)'
  <2>1. StepOf(r) /\ ~ CommitVideo(r)
    BY <1>1 DEF StepOf, Step, Close, CommitVideo, At
  <2>2. PICK rows : rows = DocumentsOf(r, SeedsOf[r][j]) /\ rows = DocumentsOf(r, SeedsOf[r][j])'
    BY <2>1, DocumentsKept
  <2>3. IsFiniteSet(rows) /\ (Once(r, SeedsOf[r][j]) => CountAt(r, j))
    BY <1>9, <2>2 DEF CountsOf
  <2>4. /\ j = n \/ j < n \/ j > n
        /\ j < n + 1 => j = n \/ j < n
        /\ j = n + 1 => j > n
        /\ j > n + 1 => j > n
        /\ j < n => j \in 1..n - 1
    BY <1>6, <1>9, Positions
  <2>5. ASSUME Once(r, SeedsOf[r][j])
        PROVE  /\ j < n + 1 => Cardinality(rows) = Append(s, m)[j].fetched
               /\ j = n + 1 => rows = {}
               /\ j > n + 1 => rows = {}
    <3>1. /\ j < n => Cardinality(rows) = s[j].fetched
          /\ j = n => Cardinality(rows) = fetched[r]
          /\ j > n => rows = {}
      BY <1>1, <1>2, <2>2, <2>3, <2>5 DEF CountAt, InListing
    <3>2. j = n => Append(s, m)[j].fetched = fetched[r]
      BY <1>4, <1>5
    <3>3. j < n => Append(s, m)[j] = s[j]
      BY <1>4, <2>4
    <3>4. j < n + 1 => Cardinality(rows) = Append(s, m)[j].fetched
      BY <2>4, <3>1, <3>2, <3>3
    <3>5. (j = n + 1 => rows = {}) /\ (j > n + 1 => rows = {})
      BY <2>4, <3>1
    <3> QED
      BY <3>4, <3>5
  <2>6. pc'[r] \notin InListing
    BY <1>1 DEF InListing
  <2> QED
    BY <1>2, <2>2, <2>3, <2>5, <2>6 DEF CountAt
<1>10. Len(summaries'[r]) = n /\ n = seedIx'[r] - 1 /\ n <= Len(SeedsOf[r])
  BY <1>2, <1>4, <1>6
<1> QED
  BY <1>8, <1>9, <1>10 DEF CountsOf, Once

LEMMA CountsStep == Typed /\ RowRules /\ Counts /\ [Next]_vars => Counts'
<1> SUFFICES ASSUME Typed, RowRules, Counts, [Next]_vars, NEW q \in Runs
             PROVE  CountsOf(q)'
  BY DEF Counts
<1>1. CountsOf(q)
  BY DEF Counts
<1>2. CASE UNCHANGED vars
  BY <1>1, <1>2 DEF CountsOf, CountAt, Once, DocumentsOf, vars, store, files, locals
<1>3. ASSUME NEW r \in Runs, StepOf(r)
      PROVE  CountsOf(q)'
  <2>1. CASE q # r
    <3>1. SameRun(q)
      BY <1>3, <2>1, OthersKept
    <3>2. \A j \in 1..Len(SeedsOf[q]) :
             DocumentsOf(q, SeedsOf[q][j])' = DocumentsOf(q, SeedsOf[q][j])
      BY <1>3, <2>1, DocumentsKept
    <3> QED
      BY <1>1, <3>1, <3>2, CountsKept DEF SameRun
  <2>2. CASE q = r /\ ~ CommitVideo(r) /\ ~ CommitState(r)
    <3>1. \A j \in 1..Len(SeedsOf[r]) :
             DocumentsOf(r, SeedsOf[r][j])' = DocumentsOf(r, SeedsOf[r][j])
      BY <1>3, <2>2, DocumentsKept
    <3>2. CASE ~ Counting(r)
      <4>1. /\ seedIx'[r] = seedIx[r] /\ summaries'[r] = summaries[r]
            /\ pc'[r] \in InListing => pc[r] \in InListing /\ fetched'[r] = fetched[r]
            /\ pc'[r] \notin InListing \cup Ended => pc[r] \notin InListing \cup Ended
        BY <1>3, <3>2, NothingCounted DEF Ended
      <4> QED
        BY <1>1, <2>2, <3>1, <4>1, CountsKept
    <3>3. CASE Skip(r) \/ SourceError(r)
      <4>1. /\ seedIx'[r] = seedIx[r] /\ summaries'[r] = summaries[r]
            /\ pc[r] \in InListing /\ fetched'[r] = fetched[r] /\ pc'[r] = "loop"
        BY <3>3 DEF Skip, SourceError, At, Goto, Typed, TypeOK, InListing
      <4>2. "loop" \in InListing
        BY DEF InListing
      <4> QED
        BY <1>1, <2>2, <3>1, <4>1, <4>2, CountsKept
    <3>4. CASE QueryExisting(r)
      <4>1. /\ seedIx'[r] = seedIx[r] /\ summaries'[r] = summaries[r]
            /\ pc[r] \notin InListing \cup Ended /\ fetched'[r] = 0 /\ pc'[r] = "loop"
        BY <3>4 DEF QueryExisting, At, Goto, Typed, TypeOK, InListing, Ended
      <4>2. "loop" \in InListing
        BY DEF InListing
      <4> QED
        BY <1>1, <2>2, <3>1, <4>1, <4>2, CountsKept
    <3> QED
      BY <2>2, <3>2, <3>3, <3>4 DEF Counting
  <2> QED
    BY <1>1, <1>3, <2>1, <2>2, CountsAdvance, CountsClose
<1> QED
  BY <1>2, <1>3 DEF Next, StepOf, Idle

LEMMA CountsInit == Init => Counts
<1> SUFFICES ASSUME Init, NEW r \in Runs
             PROVE  CountsOf(r)
  BY DEF Counts
<1>1. SeedsOf[r] \in Seq(Sources) /\ Len(SeedsOf[r]) \in Nat
  OBVIOUS
<1>2. db = {} /\ seedIx[r] = 1 /\ pc[r] = "idle" /\ summaries[r] = <<>>
  BY DEF Init
<1>3. \A s : DocumentsOf(r, s) = {}
  BY <1>2 DEF DocumentsOf
<1>4. IsFiniteSet({})
  BY FS_EmptySet
<1>5. Len(summaries[r]) = 0 /\ seedIx[r] - 1 = 0
  BY <1>2
<1>6. \A j \in 1..Len(SeedsOf[r]) : CountAt(r, j)
  BY <1>1, <1>2, <1>3 DEF CountAt, InListing
<1>7. \A i \in 1..Len(summaries[r]) : FALSE
  BY <1>5
<1>8. Len(summaries[r]) <= Len(SeedsOf[r])
  BY <1>1, <1>5
<1> QED
  BY <1>3, <1>4, <1>5, <1>6, <1>7, <1>8 DEF CountsOf

\* What a run reports as fetched for a source its seeds name once is the number of
\* document rows it committed for it, whatever other runs committed meanwhile.
THEOREM SummaryCounts == Spec => []SummariesCountRows
<1>1. Init => Standing /\ Counts
  BY StandingInit, CountsInit
<1>2. Standing /\ Counts /\ [Next]_vars => (Standing /\ Counts)'
  BY StandingStep, CountsStep DEF Standing
<1>3. Standing /\ Counts => SummariesCountRows
  <2> SUFFICES ASSUME Standing, Counts, NEW r \in Runs, NEW i \in 1..Len(summaries[r]),
                      Once(r, summaries[r][i].source)
               PROVE  summaries[r][i].fetched
                         = Cardinality({d \in InTable(db, "document") :
                                           d.source = summaries[r][i].source /\ d.by = r})
    BY DEF SummariesCountRows, Once
  <2>1. CountsOf(r)
    BY DEF Counts
  <2>2. PICK l, n \in Nat : l = Len(SeedsOf[r]) /\ n = seedIx[r]
    <3>1. SeedsOf[r] \in Seq(Sources) /\ Len(SeedsOf[r]) \in Nat
      OBVIOUS
    <3>2. seedIx[r] \in Nat
      BY DEF Standing, Typed, TypeOK
    <3> QED
      BY <3>1, <3>2
  <2>3. i \in 1..Len(SeedsOf[r]) /\ i < seedIx[r] /\ summaries[r][i].source = SeedsOf[r][i]
    <3>1. /\ Len(summaries[r]) = n - 1 /\ Len(summaries[r]) <= l
          /\ summaries[r][i].source = SeedsOf[r][i]
      BY <2>1, <2>2 DEF CountsOf
    <3>2. i \in 1..n - 1 /\ n - 1 <= l
      BY <3>1
    <3>3. i \in 1..l /\ i < n
      BY <2>2, <3>2, Before
    <3> QED
      BY <2>2, <3>1, <3>3
  <2>4. Cardinality(DocumentsOf(r, SeedsOf[r][i])) = summaries[r][i].fetched
    BY <2>1, <2>3 DEF CountsOf, CountAt
  <2>5. DocumentsOf(r, SeedsOf[r][i])
           = {d \in InTable(db, "document") : d.source = summaries[r][i].source /\ d.by = r}
    BY <2>3 DEF DocumentsOf, InTable
  <2> QED
    BY <2>4, <2>5
<1> QED
  BY <1>1, <1>2, <1>3, PTL DEF Spec

-----------------------------------------------------------------------------
(* Ingest implements Corpus.  A step that writes to the archive's files      *)
(* archives a response, or leaves its entry to doubt; the commit of a video  *)
(* publishes its document; every other step stutters: it leaves the rows of  *)
(* the documents as they are, and the archive.                               *)

PartsSame == \A row : row.table \in Parts => (row \in db' <=> row \in db)

LEMMA PartsKept ==
    ASSUME Typed, RowRules, NEW r \in Runs, StepOf(r), ~ CommitVideo(r)
    PROVE  PartsSame
<1>1. CASE db' = db
  BY <1>1 DEF PartsSame
<1>2. CASE db' # db
  <2>1. Commit(r) /\ pc[r] \in CommitPlaces
    BY <1>2, DatabaseStep DEF StepOf
  <2>2. ~ Kill(r)
    BY <1>2 DEF Kill
  <2>3. pc[r] # "commit"
    BY <2>2, AtCommit
  <2>4. \A row \in txn[r] : row.table \notin Parts
    BY <2>1, <2>3, RowsOfDocument
  <2> QED
    BY <2>1, <2>4, CommittedParts DEF PartsSame
<1> QED
  BY <1>1, <1>2

LEMMA DocumentsBarKept ==
    ASSUME PartsSame
    PROVE  documentsBar' = documentsBar
<1>1. /\ InTable(db, "document")' = InTable(db, "document")
      /\ InTable(db, "transcript")' = InTable(db, "transcript")
      /\ InTable(db, "segment")' = InTable(db, "segment")
  BY DEF PartsSame, Parts, InTable
<1>2. \A d : TranscriptsOf(d)' = TranscriptsOf(d)
  BY <1>1 DEF TranscriptsOf, SameDocument
<1>3. \A d : Published(d)' = Published(d)
  BY <1>2 DEF Published
<1> QED
  BY <1>1, <1>3 DEF documentsBar

\* What becomes of one entry, while the others stay: it is there from now on and whole,
\* or two runs have had it in hand.
LEMMA EntryMoves ==
    ASSUME NEW k \in BronzeKeys,
           \A x \in BronzeKeys \ {k} :
              bronze'[x] = bronze[x] /\ (x \in crossed' <=> x \in crossed),
           k \in crossed => k \in crossed',
           bronze[k] # None => bronze'[k] # None,
           k \notin crossed' => {bronze[k], bronze'[k]} \subseteq Whole \cup {None}
    PROVE  \/ UNCHANGED <<archiveBar, doubtfulBar>>
           \/ \E response \in Responses, v \in Videos :
                 \/ /\ archiveBar' = archiveBar \cup {<<response, v>>}
                    /\ UNCHANGED doubtfulBar
                 \/ /\ archiveBar' = archiveBar \ {<<response, v>>}
                    /\ doubtfulBar' = doubtfulBar \cup {<<response, v>>}
<1>1. None \notin Whole
  BY DEF Whole
<1>2. PICK e, v, p : k = <<e, v, p>> /\ e \in Providers \cup {"metadata"}
                     /\ v \in Videos /\ p \in Payloads
  BY DEF BronzeKeys
<1>3. PICK A, B, C, D : /\ A = archiveBar /\ B = archiveBar'
                        /\ C = doubtfulBar /\ D = doubtfulBar'
  OBVIOUS
<1>4. \A x \in Responses \X Videos : EntryOf(x) \in BronzeKeys
  BY DEF Responses, EntryOf, BronzeKeys
<1>5. /\ A \subseteq Responses \X Videos /\ B \subseteq Responses \X Videos
      /\ C \subseteq Responses \X Videos /\ D \subseteq Responses \X Videos
      /\ \A x \in Responses \X Videos :
            /\ x \in A <=> EntryOf(x) \notin crossed /\ bronze[EntryOf(x)] \in Whole
            /\ x \in B <=> EntryOf(x) \notin crossed' /\ bronze'[EntryOf(x)] \in Whole
            /\ x \in C <=> EntryOf(x) \in crossed /\ bronze[EntryOf(x)] # None
            /\ x \in D <=> EntryOf(x) \in crossed' /\ bronze'[EntryOf(x)] # None
  BY <1>3 DEF archiveBar, doubtfulBar, EntryOf, Whole
<1>6. \A x \in Responses \X Videos :
         EntryOf(x) # k => (x \in B <=> x \in A) /\ (x \in D <=> x \in C)
  BY <1>4, <1>5
<1>7. CASE e \in Providers
  <2>1. PICK mine \in Responses \X Videos : mine = <<<<e, p>>, v>>
    BY <1>2, <1>7 DEF Responses
  <2>2. \A x \in Responses \X Videos : EntryOf(x) = k <=> x = mine
    <3>1. SUFFICES ASSUME NEW x \in Responses \X Videos
                   PROVE  EntryOf(x) = k <=> x = mine
      OBVIOUS
    <3>2. PICK a \in Providers, b \in Payloads, c \in Videos : x = <<<<a, b>>, c>>
      BY DEF Responses
    <3>3. EntryOf(x) = <<a, c, b>>
      BY <3>2 DEF EntryOf
    <3> QED
      BY <1>2, <2>1, <3>2, <3>3
  <2>3. EntryOf(mine) = k
    BY <2>2
  <2>4. CASE k \in crossed' /\ bronze'[k] # None
    <3>1. B = A \ {mine} /\ D = C \cup {mine}
      BY <1>5, <1>6, <2>2, <2>3, <2>4
    <3> QED
      BY <1>2, <1>3, <1>7, <2>1, <3>1 DEF Responses
  <2>5. CASE k \notin crossed' /\ bronze'[k] # None
    <3>1. B = A \cup {mine} /\ D = C
      BY <1>5, <1>6, <2>2, <2>3, <2>5
    <3> QED
      BY <1>2, <1>3, <1>7, <2>1, <3>1 DEF Responses
  <2>6. CASE bronze'[k] = None
    <3>1. B = A /\ D = C
      BY <1>1, <1>5, <1>6, <2>2, <2>3, <2>6
    <3> QED
      BY <1>3, <3>1
  <2> QED
    BY <2>4, <2>5, <2>6
<1>8. CASE e \notin Providers
  <2>1. \A x \in Responses \X Videos : EntryOf(x) # k
    BY <1>2, <1>8 DEF Responses, EntryOf
  <2>2. B = A /\ D = C
    BY <1>5, <1>6, <2>1
  <2> QED
    BY <1>3, <2>2
<1> QED
  BY <1>7, <1>8

LEMMA WriteArchives ==
    ASSUME Typed, Entries, Entries', BronzeGrows, NEW r \in Runs, Writes(r)
    PROVE  \/ UNCHANGED <<archiveBar, doubtfulBar>>
           \/ \E response \in Responses, v \in Videos :
                 \/ /\ archiveBar' = archiveBar \cup {<<response, v>>}
                    /\ UNCHANGED doubtfulBar
                 \/ /\ archiveBar' = archiveBar \ {<<response, v>>}
                    /\ doubtfulBar' = doubtfulBar \cup {<<response, v>>}
<1>1. PICK k \in BronzeKeys : k = Archiving(r)
  BY ArchivingType DEF Writes, BronzeOpen, BronzeFill, BronzeReplace, At, Typed, InRange,
     HasVideo, HasRaws
<1>2. bronze \in [BronzeKeys -> Contents]
  BY DEF Typed, TypeOK
<1>3. /\ \A x \in BronzeKeys \ {k} :
            bronze'[x] = bronze[x] /\ (x \in crossed' <=> x \in crossed)
      /\ k \in crossed => k \in crossed'
  <2>1. CASE BronzeOpen(r)
    BY <1>1, <2>1 DEF BronzeOpen
  <2>2. CASE BronzeFill(r)
    BY <1>1, <1>2, <2>2 DEF BronzeFill
  <2>3. CASE BronzeReplace(r)
    BY <1>1, <1>2, <2>3 DEF BronzeReplace
  <2> QED
    BY <2>1, <2>2, <2>3 DEF Writes
<1>4. bronze[k] # None => bronze'[k] # None
  BY DEF BronzeGrows
<1>5. k \notin crossed' => {bronze[k], bronze'[k]} \subseteq Whole \cup {None}
  <2>1. SoundEntry(k)
    BY DEF Entries
  <2>2. k \notin crossed' => bronze'[k] \in Whole \cup {None}
    BY DEF Entries, SoundEntry, BronzeKeys, Whole
  <2> QED
    BY <1>3, <2>1, <2>2 DEF SoundEntry
<1> QED
  BY <1>3, <1>4, <1>5, EntryMoves

\* The commit of a video publishes its document: nothing is published for the video
\* before, and the response its transcript came from is in the archive.
LEMMA CommitPublishes ==
    ASSUME Typed, RowRules, NoHalfDocument, Entries, NEW r \in Runs, ArchivedOf(r),
           CommitVideo(r)
    PROVE  \E s \in Sources, v \in Videos, outcome \in Responses \cup {None} :
              /\ \A x \in documentsBar : x[1] # s \/ x[2] # v
              /\ outcome = None \/ <<outcome, v>> \in archiveBar \cup doubtfulBar
              /\ documentsBar' = documentsBar \cup {<<s, v, outcome>>}
<1>1. PICK d, t, g, s, v : /\ d = DocumentRow(r) /\ t = TranscriptRow(r) /\ g = SegmentRow(r)
                           /\ s = Source(r) /\ v = Video(r)
  OBVIOUS
<1>2. /\ d.table = "document" /\ d.source = s /\ d.video = v /\ d.by = r
      /\ d.value = IF transcript[r] = None THEN "failed" ELSE "enriched"
      /\ t.table = "transcript" /\ t.source = s /\ t.video = v /\ t.by = r
      /\ t.value = transcript[r][1] /\ t.payload = transcript[r][2]
      /\ g.table = "segment" /\ g.source = s /\ g.video = v /\ g.by = r
  BY <1>1 DEF DocumentRow, TranscriptRow, SegmentRow, VideoRow
<1>3. /\ pc[r] = "commit" /\ Commit(r)
  BY DEF CommitVideo, At
<1>3a. \/ transcript[r] = None /\ txn[r] = {d}
       \/ /\ transcript[r] # None /\ d \in txn[r] /\ t \in txn[r] /\ txn[r] \subseteq {d, t, g}
          /\ g \in txn[r] <=> <<v, transcript[r][2]>> \notin Silent
  <2>1. d \in txn[r]
    BY <1>1, <1>3 DEF RowRules, OwnRows, OwnRowsOf
  <2>2. pc[r] \in CommitPlaces /\ d.table \in Parts
    BY <1>2, <1>3 DEF CommitPlaces, Parts
  <2> QED
    BY <1>1, <2>1, <2>2, HeldParts
<1>4. s \in Sources /\ v \in Videos
  BY <1>1, <1>3, SourceType, VideoType DEF Typed, InRange, HasSource, HasVideo, InListing
<1>5. ASSUME NEW e \in db, e.table = "document"
      PROVE  e.source # s \/ e.video # v
  <2>1. d \in txn[r]
    BY <1>3a
  <2>2. Key(d) = Key(e) => d.table = "ingest_state"
    BY <1>5, <2>1 DEF RowRules, KeyRules, HeldKeysFree
  <2> QED
    BY <1>2, <1>5, <2>2 DEF Key
<1>6. ASSUME NEW x \in db, x.table \in {"transcript", "segment"}
      PROVE  x.source # s \/ x.video # v
  <2>1. PICK e \in db : e.table = "document" /\ SameDocument(e, x)
    <3>1. PICK y \in InTable(db, "transcript") : SameDocument(y, x)
      <4>1. CASE x.table = "transcript"
        BY <1>6, <4>1 DEF InTable, SameDocument
      <4>2. CASE x.table = "segment"
        BY <1>6, <4>2 DEF NoHalfDocument, InTable
      <4> QED
        BY <1>6, <4>1, <4>2
    <3>2. PICK e \in InTable(db, "document") : SameDocument(e, y)
      BY <3>1 DEF NoHalfDocument
    <3> QED
      BY <3>1, <3>2 DEF InTable, SameDocument
  <2> QED
    BY <1>5, <2>1 DEF SameDocument
<1>7. /\ \A x : x.table = "document" => (x \in db' <=> x \in db \/ x = d)
      /\ \A x : x.table = "transcript" =>
                   (x \in db' <=> x \in db \/ (transcript[r] # None /\ x = t))
      /\ \A x : x.table = "segment" =>
                   (x \in db' => x \in db \/ x = g)
      /\ transcript[r] # None =>
            (g \in db' <=> g \in db \/ <<v, transcript[r][2]>> \notin Silent)
      /\ \A x \in db : x.table \in Parts => x \in db'
  <2>1. \A x : x.table \in Parts => (x \in db' <=> x \in db \/ x \in txn[r])
    BY <1>3, CommittedParts
  <2>2. \A x : /\ x.table = "document" => (x \in txn[r] <=> x = d)
               /\ x.table = "transcript" => (x \in txn[r] <=> transcript[r] # None /\ x = t)
               /\ x.table = "segment" => (x \in txn[r] => x = g)
    <3>1. CASE transcript[r] = None
      BY <1>2, <1>3a, <3>1
    <3>2. CASE transcript[r] # None
      BY <1>2, <1>3a, <3>2
    <3> QED
      BY <3>1, <3>2
  <2>3. transcript[r] # None => (g \in db' <=> g \in db \/ g \in txn[r])
    BY <1>2, <2>1 DEF Parts
  <2>4. \A x : /\ x.table = "document" => x.table \in Parts
               /\ x.table = "transcript" => x.table \in Parts
               /\ x.table = "segment" => x.table \in Parts
    BY DEF Parts
  <2> QED
    BY <1>3a, <2>1, <2>2, <2>3, <2>4
<1>8. ASSUME NEW e \in db, e.table = "document"
      PROVE  Published(e)' = Published(e)
  <2>1. \A x : x.table \in {"transcript", "segment"} /\ SameDocument(e, x) =>
                  (x \in db' <=> x \in db)
    <3>1. e.source # s \/ e.video # v
      BY <1>5, <1>8
    <3>2. ~ SameDocument(e, t) /\ ~ SameDocument(e, g)
      BY <1>2, <3>1 DEF SameDocument
    <3>3. \A x : x.table \in {"transcript", "segment"} => x.table \in Parts
      BY DEF Parts
    <3> QED
      BY <1>7, <3>2, <3>3
  <2>2. TranscriptsOf(e)' = TranscriptsOf(e)
    BY <2>1 DEF TranscriptsOf, InTable, SameDocument
  <2> QED
    BY <2>2 DEF Published
<1>9. InTable(db, "document")' = InTable(db, "document") \cup {d}
  BY <1>2, <1>7 DEF InTable
<1>10. PICK outcome : outcome = transcript[r]
  OBVIOUS
<1>11. Published(d)' = {<<s, v, outcome>>}
  <2>1. CASE transcript[r] = None
    BY <1>2, <1>10, <2>1 DEF Published
  <2>2. CASE transcript[r] # None
    <3>1. \A x : x.table = "transcript" /\ SameDocument(d, x) => (x \in db' <=> x = t)
      BY <1>2, <1>6, <1>7, <2>2 DEF SameDocument
    <3>2. t \in db' /\ SameDocument(d, t) /\ SameDocument(d, g)
      BY <1>2, <1>7, <2>2 DEF SameDocument
    <3>4. <<v, transcript[r][2]>> \notin Silent => g \in InTable(db, "segment")'
      BY <1>2, <1>7, <2>2 DEF InTable
    <3>3. TranscriptsOf(d)' = {t}
      <4>1. <<t.video, t.payload>> \notin Silent
               => \E x \in InTable(db, "segment")' : SameDocument(d, x)
        BY <1>2, <3>2, <3>4
      <4>2. \A x : x \in InTable(db, "transcript")' /\ SameDocument(d, x) <=> x = t
        BY <1>2, <3>1, <3>2 DEF InTable
      <4> QED
        BY <4>1, <4>2 DEF TranscriptsOf, SameDocument
    <3>5. <<t.value, t.payload>> = transcript[r]
      BY <1>2, <2>2 DEF Typed, TypeOK
    <3>6. {<<s, v, <<x.value, x.payload>>>> : x \in {t}} = {<<s, v, outcome>>}
      BY <1>10, <3>5
    <3>7. d.value # "failed" /\ TranscriptsOf(d)' # {}
      BY <1>2, <2>2, <3>3
    <3> QED
      BY <1>2, <3>3, <3>6, <3>7 DEF Published
  <2> QED
    BY <2>1, <2>2
<1>12. documentsBar' = documentsBar \cup {<<s, v, outcome>>}
  <2>1. \A e \in InTable(db, "document") : Published(e)' = Published(e)
    BY <1>8 DEF InTable
  <2> QED
    BY <1>9, <1>11, <2>1 DEF documentsBar
<1>13. \A x \in documentsBar : x[1] # s \/ x[2] # v
  <2>1. SUFFICES ASSUME NEW e \in db, e.table = "document", NEW x \in Published(e)
                 PROVE  x[1] # s \/ x[2] # v
    BY DEF documentsBar, InTable
  <2>2. x[1] = e.source /\ x[2] = e.video
    BY <2>1 DEF Published
  <2> QED
    BY <1>5, <2>1, <2>2
<1>14. outcome = None \/ <<outcome, v>> \in archiveBar \cup doubtfulBar
  <2> SUFFICES ASSUME transcript[r] # None
               PROVE  <<transcript[r], v>> \in archiveBar \cup doubtfulBar
    BY <1>10
  <2>1. transcript[r] \in Responses
    BY DEF Typed, TypeOK, Responses
  <2>2. PICK k : k = EntryOf(<<transcript[r], v>>) /\ k = KeyOf(v, transcript[r])
    BY DEF EntryOf, KeyOf
  <2>3. k \in BronzeKeys /\ bronze[k] # None
    <3>1. InArchive(r)
      BY <1>3 DEF ArchivedOf, Persisting, Unarchived
    <3>2. pc[r] \in HasVideo
      BY <1>3 DEF HasVideo
    <3> QED
      BY <1>1, <2>2, <3>1, <3>2, KeyType DEF InArchive
  <2>4. k \in crossed \/ bronze[k] \in Whole
    BY <2>3 DEF Entries, SoundEntry
  <2> QED
    BY <1>4, <2>1, <2>2, <2>3, <2>4 DEF archiveBar, doubtfulBar
<1>15. outcome \in Responses \cup {None}
  BY <1>10 DEF Typed, TypeOK, Responses
<1> QED
  BY <1>4, <1>12, <1>13, <1>14, <1>15

LEMMA CorpusStep ==
    ASSUME Typed, RowRules, NoHalfDocument, Archived, Entries, Entries', [Next]_vars
    PROVE  [Abstract!CorpusNext]_<<archiveBar, doubtfulBar, documentsBar>>
<1>0. ASSUME bronze' = bronze, crossed' = crossed
      PROVE  UNCHANGED <<archiveBar, doubtfulBar>>
  BY <1>0 DEF archiveBar, doubtfulBar, EntryOf, Whole
<1>1. CASE UNCHANGED vars
  <2>1. db' = db /\ bronze' = bronze /\ crossed' = crossed
    BY <1>1 DEF vars, store, files
  <2>2. documentsBar' = documentsBar
    BY <2>1, DocumentsBarKept DEF PartsSame
  <2> QED
    BY <1>0, <2>1, <2>2
<1>2. ASSUME NEW r \in Runs, StepOf(r)
      PROVE  [Abstract!CorpusNext]_<<archiveBar, doubtfulBar, documentsBar>>
  <2>1. CASE CommitVideo(r)
    <3>1. bronze' = bronze /\ crossed' = crossed
      BY <2>1 DEF CommitVideo, files
    <3>2. UNCHANGED <<archiveBar, doubtfulBar>>
      BY <1>0, <3>1
    <3>3. ArchivedOf(r)
      BY DEF Archived
    <3>4. PICK s \in Sources, v \in Videos, outcome \in Responses \cup {None} :
             /\ \A x \in documentsBar : x[1] # s \/ x[2] # v
             /\ outcome = None \/ <<outcome, v>> \in archiveBar \cup doubtfulBar
             /\ documentsBar' = documentsBar \cup {<<s, v, outcome>>}
      BY <2>1, <3>3, CommitPublishes
    <3>5. Abstract!Publish(s, v, outcome)
      BY <3>2, <3>4 DEF Abstract!Publish
    <3> QED
      BY <3>5 DEF Abstract!CorpusNext
  <2>2. CASE ~ CommitVideo(r) /\ Writes(r)
    <3>1. documentsBar' = documentsBar
      BY <1>2, <2>2, PartsKept, DocumentsBarKept
    <3>2. BronzeGrows
      BY Grows
    <3>3. \/ UNCHANGED <<archiveBar, doubtfulBar>>
          \/ \E response \in Responses, v \in Videos :
                Abstract!Archive(response, v) \/ Abstract!Doubt(response, v)
      BY <2>2, <3>1, <3>2, WriteArchives DEF Abstract!Archive, Abstract!Doubt
    <3> QED
      BY <3>1, <3>3 DEF Abstract!CorpusNext
  <2>3. CASE ~ CommitVideo(r) /\ ~ Writes(r)
    <3>1. documentsBar' = documentsBar
      BY <1>2, <2>3, PartsKept, DocumentsBarKept
    <3>2. bronze' = bronze /\ crossed' = crossed
      BY <1>2, <2>3, FilesStep DEF StepOf
    <3> QED
      BY <1>0, <3>1, <3>2
  <2> QED
    BY <2>1, <2>2, <2>3
<1> QED
  BY <1>1, <1>2 DEF Next, StepOf, Idle

LEMMA CorpusBegins == Init => Abstract!CorpusInit
<1> SUFFICES ASSUME Init
             PROVE  archiveBar = {} /\ doubtfulBar = {} /\ documentsBar = {}
  BY DEF Abstract!CorpusInit
<1>1. InTable(db, "document") = {}
  BY DEF Init, InTable
<1>2. \A k \in BronzeKeys : bronze[k] = None
  BY DEF Init
<1>3. \A k \in Responses \X Videos : EntryOf(k) \in BronzeKeys
  BY DEF Responses, EntryOf, BronzeKeys
<1>4. archiveBar = {} /\ doubtfulBar = {}
  BY <1>2, <1>3 DEF archiveBar, doubtfulBar, Whole
<1>5. documentsBar = {}
  BY <1>1 DEF documentsBar
<1> QED
  BY <1>4, <1>5

\* Every behaviour of ingestion, with any number of runs that overlap and die anywhere,
\* is a behaviour of the corpus: documents appear whole, once, after the response they
\* were made from is archived, and are never changed (ingest_source and _persist); an
\* archive entry is whole unless two runs wrote it at once.
THEOREM IngestionImplementsCorpus == Spec => ImplementsCorpus
<1>1. Init => Abstract!CorpusInit
  BY CorpusBegins
<1>2. Typed /\ RowRules /\ NoHalfDocument /\ Archived /\ Entries /\ Entries' /\ [Next]_vars
         => [Abstract!CorpusNext]_<<archiveBar, doubtfulBar, documentsBar>>
  BY CorpusStep
<1>3. Spec => [](Typed /\ RowRules /\ Archived /\ Entries)
  BY ArchivedInit, EntriesInit, TypedInit, TypedStep, RowRulesInit, RowRulesStep,
     ArchivedStep, EntriesStep, PTL DEF Spec
<1>4. Spec => []NoHalfDocument
  BY DocumentsWhole
<1> QED
  BY <1>1, <1>2, <1>3, <1>4, PTL DEF Spec, ImplementsCorpus, Abstract!CorpusSpec,
     Abstract!corpusVars

-----------------------------------------------------------------------------
(* One run at a time.  A run finds its own rows and files where it left     *)
(* them: nothing it is about to insert or to put has come in since it       *)
(* looked.  This holds after kills too.                                     *)

\* The exceptions that are no lost race.
Unraced == {None, "seed", "adapter", "bronze"}

ForeseenOf(r) ==
    /\ pc[r] = "insertTenant" => ~ Taken(TenantRow(r))
    /\ pc[r] = "insertSource" => ~ Taken(SourceRow(r))
    /\ pc[r] \in {"loop"} \cup HasVideo =>
          \A i \in ix[r]..Len(listing[r]) :
              HasDocument(Source(r), listing[r][i]) => listing[r][i] \in existing[r]
    /\ pc[r] \in HasVideo => Video(r) \notin existing[r]
    /\ pc[r] \in HasRaws => bronze[Archiving(r)] = None
    /\ cause[r] \in Unraced

Foreseen == crossed = {} /\ \A r \in Runs : ForeseenOf(r)

\* While one run takes a step no other is under way, before it and after.
LEMMA OthersIdle ==
    ASSUME Typed, OneAtATime, OneAtATime', NEW r \in Runs, StepOf(r), NEW q \in Runs \ {r}
    PROVE  ~ Active(q) /\ ~ Active(q)'
<1>1. pc'[q] = pc[q]
  BY OthersKept DEF SameRun
<1>2. CASE Begin(r)
  <2>1. pc'[r] = "tenant"
    BY <1>2 DEF Begin, Goto, Typed, TypeOK
  <2>2. Active(r)'
    BY <2>1 DEF Active, Terminal
  <2>3. ~ Active(q)'
    BY <2>2 DEF OneAtATime
  <2> QED
    BY <1>1, <2>3 DEF Active
<1>3. CASE ~ Begin(r)
  <2>1. Kill(r) => Active(r)
    BY DEF Kill
  <2>2. Prepare(r) => Active(r)
    BY DEF Active, Terminal, At, Prepare, SelectTenant, InsertTenant, TenantRace,
       CommitTenant, SelectSource, InsertSource, SourceRace, CommitSource, SeedRaises, Discover,
       DiscoverRaises, QueryExisting, Finish
  <2>3. Fetch(r) => Active(r)
    BY DEF Active, Terminal, At, Fetch, Skip, StartFetch, FetchReturns, SourceError,
       CreditBudgetExceeded, FetchRaises
  <2>4. Persist(r) => Active(r)
    BY DEF Active, Terminal, At, Persist, BronzeLookup, BronzeWriteConflict, BronzeOpen, BronzeFill,
     BronzeReplace, BronzeReplaceRaises,
       FlushDocument, DocumentRace, FlushTranscript, FlushSegments, NoSegments, CommitVideo
  <2>5. Close(r) => Active(r)
    BY DEF Active, Terminal, At, Close, EndOfListing, TouchIngestState, CommitState
  <2>6. Active(r)
    BY <1>3, <2>1, <2>2, <2>3, <2>4, <2>5 DEF StepOf, Step
  <2>7. ~ Active(q)
    BY <2>6 DEF OneAtATime
  <2> QED
    BY <1>1, <2>7 DEF Active
<1> QED
  BY <1>2, <1>3

\* Nobody else has the temporary file of a key in hand,
LEMMA StaysUncrossed ==
    ASSUME Typed, OneAtATime, crossed = {}, [Next]_vars
    PROVE  crossed' = {}
<1>1. ASSUME NEW r \in Runs, BronzeOpen(r)
      PROVE  crossed' = {}
  <2>1. pc[r] = "put" /\ Active(r)
    BY <1>1 DEF BronzeOpen, At, Active, Terminal
  <2>2. ASSUME NEW q \in Writing(Archiving(r))
        PROVE  FALSE
    <3>1. q \in Runs /\ pc[q] \in {"write", "replace"}
      BY <2>2 DEF Writing
    <3>2. Active(q)
      BY <3>1 DEF Active, Terminal
    <3> QED
      BY <2>1, <3>1, <3>2 DEF OneAtATime
  <2>3. Writing(Archiving(r)) = {}
    BY <2>2
  <2> QED
    BY <1>1, <2>3 DEF BronzeOpen
<1>2. ASSUME NEW r \in Runs, BronzeFill(r) \/ BronzeReplace(r)
      PROVE  crossed' = {}
  BY <1>2 DEF BronzeFill, BronzeReplace
<1>3. ASSUME NEW r \in Runs, StepOf(r), ~ Writes(r)
      PROVE  crossed' = {}
  BY <1>3, FilesStep DEF StepOf
<1> QED
  BY <1>1, <1>2, <1>3 DEF Writes, Next, StepOf, Idle, vars, store, files

\* so a run fills the file it opened where it is, and renames what it wrote.
LEMMA FillsOwn ==
    ASSUME Typed, Entries, crossed = {}, NEW r \in Runs, BronzeFill(r)
    PROVE  bronze' = bronze
<1>1. PICK k : k = Archiving(r)
  OBVIOUS
<1>2. k \in BronzeKeys /\ r \in Writing(k) /\ pc[r] = "write"
  BY <1>1, ArchivingType DEF BronzeFill, At, Typed, InRange, HasVideo, HasRaws, Writing
<1>3. file[r] = "temp"
  BY <1>2 DEF Entries, SoundEntry
<1>4. bronze' = [bronze EXCEPT ![k] = @]
  BY <1>1, <1>3 DEF BronzeFill
<1> QED
  BY <1>2, <1>4 DEF Typed, TypeOK

LEMMA ReplacesOwn ==
    ASSUME Typed, Entries, crossed = {}, NEW r \in Runs, pc[r] = "replace"
    PROVE  /\ ~ BronzeReplaceRaises(r)
           /\ BronzeReplace(r) => bronze' = [bronze EXCEPT ![Archiving(r)] = Stamp(r)]
<1>1. PICK k : k = Archiving(r)
  OBVIOUS
<1>2. k \in BronzeKeys /\ r \in Writing(k) /\ Stamp(r) \in Whole
  BY <1>1, ArchivingType DEF Typed, InRange, HasVideo, HasRaws, Writing
<1>3. temp[k] = Stamp(r) /\ Stamp(r) # None
  BY <1>2 DEF Entries, SoundEntry, Whole
<1> QED
  BY <1>1, <1>3 DEF BronzeReplace, BronzeReplaceRaises

LEMMA ArchiveKept ==
    ASSUME Typed, Entries, crossed = {}, NEW r \in Runs, StepOf(r), ~ BronzeReplace(r)
    PROVE  bronze' = bronze
<1>1. BronzeOpen(r) => bronze' = bronze
  BY DEF BronzeOpen
<1> QED
  BY <1>1, FillsOwn, FilesStep DEF Writes, StepOf

\* The document of the video in hand is not there.
LEMMA VideoIsNew ==
    ASSUME Typed, NEW r \in Runs, ForeseenOf(r), pc[r] \in HasVideo
    PROVE  ~ HasDocument(Source(r), Video(r)) /\ ~ Taken(DocumentRow(r))
<1>1. ix[r] \in Nat \ {0} /\ ix[r] <= Len(listing[r]) /\ Len(listing[r]) \in Nat
  BY DEF Typed, TypeOK, InRange
<1>2. ix[r] \in ix[r]..Len(listing[r])
  BY <1>1
<1>3. ~ HasDocument(Source(r), Video(r))
  BY <1>2 DEF ForeseenOf, Video
<1>4. SUFFICES ASSUME NEW d \in db, Key(d) = Key(DocumentRow(r))
               PROVE  FALSE
  BY <1>3 DEF Taken
<1>5. d.table = "document" /\ d.source = Source(r) /\ d.video = Video(r)
  BY <1>4, DocumentFields DEF Key
<1> QED
  BY <1>3, <1>5 DEF HasDocument, InTable

\* No flush is refused.
LEMMA NoRace ==
    ASSUME Typed, NEW r \in Runs, ForeseenOf(r)
    PROVE  ~ TenantRace(r) /\ ~ SourceRace(r) /\ ~ DocumentRace(r)
<1>1. ~ TenantRace(r) /\ ~ SourceRace(r)
  BY DEF TenantRace, SourceRace, IntegrityError, ForeseenOf, At
<1>2. ~ DocumentRace(r)
  BY VideoIsNew DEF DocumentRace, IntegrityError, At, HasVideo
<1> QED
  BY <1>1, <1>2

\* A run with no video in hand and nothing looked for.
LEMMA ForeseenAway ==
    ASSUME NEW r \in Runs, cause'[r] \in Unraced,
           pc'[r] \notin {"insertTenant", "insertSource", "loop"} \cup HasVideo
    PROVE  ForeseenOf(r)'
BY DEF ForeseenOf, HasVideo, HasRaws, Unraced

\* A step within the video in hand.
LEMMA ForeseenStays ==
    ASSUME NEW r \in Runs, ForeseenOf(r), pc[r] \in {"loop"} \cup HasVideo,
           pc'[r] \in HasVideo, Video(r) \notin existing[r], cause'[r] = cause[r],
           db' = db, seedIx' = seedIx, listing' = listing, ix' = ix, existing' = existing,
           pc'[r] \in HasRaws => raws'[r] = raws[r] /\ bronze' = bronze
                                 /\ bronze[Archiving(r)] = None
    PROVE  ForeseenOf(r)'
<1>1. pc'[r] # "insertTenant" /\ pc'[r] # "insertSource"
  BY DEF HasVideo
<1>2. Source(r)' = Source(r) /\ Video(r)' = Video(r)
  BY DEF Source, Video
<1>3. pc'[r] \in HasRaws => (bronze[Archiving(r)] = None)'
  BY <1>2 DEF Archiving
<1>4. \A i \in ix[r]..Len(listing[r]) :
         HasDocument(Source(r), listing[r][i]) => listing[r][i] \in existing[r]
  BY DEF ForeseenOf
<1>5. (\A i \in ix[r]..Len(listing[r]) :
         HasDocument(Source(r), listing[r][i]) => listing[r][i] \in existing[r])'
  BY <1>4 DEF HasDocument, InTable, Source
<1>6. cause'[r] \in Unraced
  BY DEF ForeseenOf
<1> QED
  BY <1>1, <1>2, <1>3, <1>5, <1>6 DEF ForeseenOf

\* The run knows every document ahead of it when it asks, and none is added ahead.
LEMMA ForeseenListing ==
    ASSUME Typed, RowRules, DistinctListings, NEW r \in Runs, ForeseenOf(r),
           QueryExisting(r) \/ Skip(r) \/ SourceError(r) \/ CommitVideo(r)
    PROVE  ForeseenOf(r)'
<1>1. pc'[r] = "loop" /\ cause'[r] \in Unraced /\ seedIx' = seedIx /\ listing' = listing
  BY DEF QueryExisting, Skip, SourceError, CommitVideo, At, Goto, ForeseenOf, Typed, TypeOK
<1>2. SUFFICES ASSUME NEW i \in ix'[r]..Len(listing[r]), HasDocument(Source(r), listing[r][i])'
               PROVE  listing[r][i] \in existing'[r]
  BY <1>1 DEF ForeseenOf, HasVideo, HasRaws
<1>3. PICK d \in db' : /\ d.table = "document"
                       /\ d.source = Source(r)
                       /\ d.video = listing[r][i]
  BY <1>1, <1>2 DEF HasDocument, InTable, Source
<1>4. CASE QueryExisting(r)
  <2>1. /\ existing'[r] = {listing[r][j] : j \in {n \in 1..Len(listing[r]) :
                                                HasDocument(Source(r), listing[r][n])}}
        /\ ix'[r] = 1 /\ db' = db
    BY <1>4 DEF QueryExisting, Typed, TypeOK, store
  <2>2. HasDocument(Source(r), listing[r][i])
    BY <1>3, <2>1 DEF HasDocument, InTable
  <2> QED
    BY <1>2, <2>1, <2>2
<1>5. CASE ~ QueryExisting(r)
  <2>1. /\ ix[r] \in Nat \ {0} /\ ix'[r] = ix[r] + 1 /\ existing' = existing
        /\ pc[r] \in {"loop"} \cup HasVideo /\ Len(listing[r]) \in Nat
        /\ ix[r] <= Len(listing[r])
    BY <1>5 DEF Skip, SourceError, CommitVideo, At, HasVideo, Typed, TypeOK, InRange
  <2>2. i \in ix[r]..Len(listing[r]) /\ i \in 1..Len(listing[r]) /\ i # ix[r]
        /\ ix[r] \in 1..Len(listing[r])
    BY <1>2, <2>1
  <2>3. CASE d \in db
    <3>1. HasDocument(Source(r), listing[r][i])
      BY <1>3, <2>3 DEF HasDocument, InTable
    <3> QED
      BY <2>1, <2>2, <3>1 DEF ForeseenOf
  <2>4. CASE d \notin db
    <3>1. StepOf(r)
      BY <1>5 DEF StepOf, Step, Fetch, Persist
    <3>2. d.video = Video(r)
      BY <1>3, <2>4, <3>1, NewDocuments, DocumentFields
    <3>3. listing[r][i] = listing[r][ix[r]]
      BY <1>3, <3>2 DEF Video
    <3> QED
      BY <2>2, <3>3 DEF DistinctListings, Distinct
  <2> QED
    BY <2>3, <2>4
<1> QED
  BY <1>4, <1>5

LEMMA ForeseenPrepare ==
    ASSUME Typed, RowRules, DistinctListings, NEW r \in Runs, ForeseenOf(r), Prepare(r)
    PROVE  ForeseenOf(r)'
<1> USE DEF At, Goto
<1>1. /\ cause[r] \in Unraced
      /\ cause \in [Runs -> {None, "seed", "adapter", "integrity", "bronze", "file"}]
      /\ pc \in [Runs -> Places]
  BY DEF ForeseenOf, Typed, TypeOK
<1>2. CASE SelectTenant(r) \/ SelectSource(r)
  <2>1. /\ db' = db /\ cause' = cause /\ seedIx' = seedIx
        /\ \/ pc'[r] = "source" \/ pc'[r] = "discover"
           \/ pc'[r] = "insertTenant" /\ ~ Taken(TenantRow(r))
           \/ pc'[r] = "insertSource" /\ ~ Taken(SourceRow(r))
    BY <1>1, <1>2 DEF SelectTenant, SelectSource, store, files, locals
  <2>2. TenantRow(r)' = TenantRow(r) /\ SourceRow(r)' = SourceRow(r)
    BY <2>1 DEF TenantRow, SourceRow, Source
  <2>3. Taken(TenantRow(r))' = Taken(TenantRow(r)) /\ Taken(SourceRow(r))' = Taken(SourceRow(r))
    BY <2>1, <2>2 DEF Taken, Key
  <2> QED
    BY <1>1, <2>1, <2>3 DEF ForeseenOf, HasVideo, HasRaws
<1>3. CASE InsertTenant(r) \/ InsertSource(r)
  <2>1. cause' = cause /\ pc'[r] \in {"commitTenant", "commitSource"}
    BY <1>1, <1>3 DEF InsertTenant, InsertSource, Flush
  <2> QED
    BY <1>1, <2>1, ForeseenAway DEF HasVideo
<1>4. CASE CommitTenant(r) \/ CommitSource(r) \/ Finish(r) \/ Discover(r)
  <2>1. cause' = cause /\ pc'[r] \in {"source", "discover", "finished", "existing"}
    BY <1>1, <1>4 DEF CommitTenant, CommitSource, Finish, Discover
  <2> QED
    BY <1>1, <2>1, ForeseenAway DEF HasVideo
<1>5. CASE DiscoverRaises(r) \/ SeedRaises(r)
  <2>1. cause'[r] \in {"adapter", "seed"} /\ pc'[r] = "failed"
    BY <1>1, <1>5 DEF DiscoverRaises, SeedRaises, Raise
  <2> QED
    BY <2>1, ForeseenAway DEF HasVideo, Unraced
<1> QED
  BY <1>2, <1>3, <1>4, <1>5, NoRace, ForeseenListing DEF Prepare

LEMMA ForeseenFetch ==
    ASSUME Typed, RowRules, DistinctListings, NEW r \in Runs, ForeseenOf(r), Fetch(r)
    PROVE  ForeseenOf(r)'
<1> USE DEF At, Goto
<1>1. /\ cause[r] \in Unraced
      /\ cause \in [Runs -> {None, "seed", "adapter", "integrity", "bronze", "file"}]
      /\ pc \in [Runs -> Places]
      /\ pc[r] \in HasVideo => Video(r) \notin existing[r]
  BY DEF ForeseenOf, Typed, TypeOK
<1>2. CASE StartFetch(r)
  <2>1. /\ db' = db /\ cause' = cause /\ seedIx' = seedIx /\ listing' = listing
        /\ ix' = ix /\ existing' = existing /\ pc'[r] = "fetching" /\ pc[r] = "loop"
        /\ Video(r) \notin existing[r]
    BY <1>1, <1>2 DEF StartFetch, store, files, locals
  <2>2. pc[r] \in {"loop"} \cup HasVideo /\ pc'[r] \in HasVideo /\ pc'[r] \notin HasRaws
    BY <2>1 DEF HasVideo, HasRaws
  <2> QED
    BY <2>1, <2>2, ForeseenStays
<1>3. CASE FetchReturns(r)
  <2>1. /\ db' = db /\ cause' = cause /\ seedIx' = seedIx /\ listing' = listing
        /\ ix' = ix /\ existing' = existing /\ pc'[r] = "archive" /\ pc[r] = "fetching"
    BY <1>1, <1>3 DEF FetchReturns, store
  <2>2. pc[r] \in {"loop"} \cup HasVideo /\ pc'[r] \in HasVideo /\ pc'[r] \notin HasRaws
        /\ Video(r) \notin existing[r]
    BY <1>1, <2>1 DEF HasVideo, HasRaws
  <2> QED
    BY <2>1, <2>2, ForeseenStays
<1>4. CASE CreditBudgetExceeded(r) \/ FetchRaises(r)
  <2>1. cause'[r] \in Unraced /\ pc'[r] \in {"touch", "failed"}
    BY <1>1, <1>4 DEF CreditBudgetExceeded, FetchRaises, Raise, Unraced
  <2> QED
    BY <2>1, ForeseenAway DEF HasVideo, Unraced
<1> QED
  BY <1>2, <1>3, <1>4, ForeseenListing DEF Fetch

LEMMA ForeseenPersist ==
    ASSUME Typed, RowRules, DistinctListings, Entries, crossed = {}, NEW r \in Runs,
           ForeseenOf(r), Persist(r)
    PROVE  ForeseenOf(r)'
<1> USE DEF At, Goto
<1>1. /\ cause[r] \in Unraced
      /\ cause \in [Runs -> {None, "seed", "adapter", "integrity", "bronze", "file"}]
      /\ pc \in [Runs -> Places]
      /\ pc[r] \in HasVideo => Video(r) \notin existing[r]
      /\ raws \in [Runs -> Seq(Raw)]
  BY DEF ForeseenOf, Typed, TypeOK
<1>2. CASE BronzeLookup(r)
  <2>1. /\ db' = db /\ cause' = cause /\ seedIx' = seedIx /\ listing' = listing
        /\ ix' = ix /\ existing' = existing /\ pc[r] = "archive" /\ bronze' = bronze
        /\ \/ pc'[r] = "put" /\ bronze[Archiving(r)] = None /\ raws' = raws
           \/ pc'[r] = "archive"
    BY <1>1, <1>2 DEF BronzeLookup, store, files
  <2>2. pc[r] \in {"loop"} \cup HasVideo /\ pc'[r] \in HasVideo
        /\ Video(r) \notin existing[r] /\ "archive" \notin HasRaws
    BY <1>1, <2>1 DEF HasVideo, HasRaws
  <2> QED
    BY <2>1, <2>2, ForeseenStays
<1>3. CASE BronzeOpen(r) \/ BronzeFill(r)
  <2>1. /\ db' = db /\ cause' = cause /\ seedIx' = seedIx /\ listing' = listing
        /\ ix' = ix /\ existing' = existing /\ raws' = raws /\ pc[r] \in HasRaws
        /\ pc'[r] \in HasRaws
    BY <1>1, <1>3 DEF BronzeOpen, BronzeFill, locals, HasRaws
  <2>2. bronze' = bronze
    BY <1>3, FillsOwn DEF BronzeOpen
  <2>3. pc[r] \in {"loop"} \cup HasVideo /\ pc'[r] \in HasVideo
        /\ Video(r) \notin existing[r] /\ bronze[Archiving(r)] = None
    BY <1>1, <2>1 DEF HasVideo, HasRaws, ForeseenOf
  <2> QED
    BY <2>1, <2>2, <2>3, ForeseenStays
<1>5. CASE BronzeReplace(r) \/ FlushDocument(r) \/ FlushTranscript(r) \/ FlushSegments(r)
           \/ NoSegments(r)
  <2>1. /\ db' = db /\ cause' = cause /\ seedIx' = seedIx /\ listing' = listing
        /\ ix' = ix /\ existing' = existing /\ pc[r] \in HasVideo
        /\ pc'[r] \in {"archive", "transcript", "segments", "commit"}
    BY <1>1, <1>5 DEF BronzeReplace, FlushDocument, FlushTranscript, FlushSegments,
       NoSegments, Flush, AfterDocument, store, locals, HasVideo
  <2>2. pc[r] \in {"loop"} \cup HasVideo /\ pc'[r] \in HasVideo /\ pc'[r] \notin HasRaws
        /\ Video(r) \notin existing[r]
    BY <1>1, <2>1 DEF HasVideo, HasRaws
  <2> QED
    BY <2>1, <2>2, ForeseenStays
<1>6. ~ BronzeReplaceRaises(r)
  BY ReplacesOwn DEF BronzeReplaceRaises
<1>4. CASE BronzeWriteConflict(r)
  <2>1. cause'[r] = "bronze" /\ pc'[r] = "failed"
    BY <1>1, <1>4 DEF BronzeWriteConflict, Raise
  <2> QED
    BY <2>1, ForeseenAway DEF HasVideo, Unraced
<1> QED
  BY <1>2, <1>3, <1>4, <1>5, <1>6, NoRace, ForeseenListing DEF Persist

LEMMA ForeseenStep ==
    ASSUME Standing, Foreseen, OneAtATime, [Next /\ OneAtATime']_vars
    PROVE  Foreseen'
<1>0. crossed' = {}
  BY StaysUncrossed DEF Standing, Foreseen
<1> SUFFICES ASSUME NEW q \in Runs
             PROVE  ForeseenOf(q)'
  BY <1>0 DEF Foreseen
<1>1. Typed /\ RowRules /\ DistinctListings /\ Entries /\ crossed = {} /\ ForeseenOf(q)
  BY DEF Standing, Foreseen
<1>2. CASE UNCHANGED vars
  BY <1>1, <1>2 DEF ForeseenOf, Taken, TenantRow, SourceRow, HasDocument, InTable, Source,
     Video, Archiving, vars, store, files, locals
<1>3. ASSUME NEW r \in Runs, StepOf(r), OneAtATime', r # q
      PROVE  ForeseenOf(q)'
  <2>1. ~ Active(q)' /\ cause'[q] = cause[q]
    BY <1>1, <1>3, OthersIdle, OthersKept DEF SameRun
  <2> QED
    BY <1>1, <2>1, ForeseenAway DEF ForeseenOf, Active, Terminal, HasVideo
<1>4. ASSUME StepOf(q)
      PROVE  ForeseenOf(q)'
  <2>1. CASE Begin(q) \/ Kill(q)
    <3>1. cause'[q] = cause[q] /\ pc'[q] \in {"tenant", "killed"}
      BY <1>1, <2>1 DEF Begin, Kill, Goto, Typed, TypeOK
    <3> QED
      BY <1>1, <3>1, ForeseenAway DEF ForeseenOf, HasVideo
  <2>2. CASE Close(q)
    <3>1. cause'[q] = cause[q] /\ pc'[q] \in {"touch", "commitState", "source"}
      BY <1>1, <2>2 DEF Close, EndOfListing, TouchIngestState, CommitState, Goto, Typed, TypeOK
    <3> QED
      BY <1>1, <3>1, ForeseenAway DEF ForeseenOf, HasVideo
  <2> QED
    BY <1>1, <1>4, <2>1, <2>2, ForeseenPrepare, ForeseenFetch, ForeseenPersist
    DEF StepOf, Step
<1> QED
  BY <1>2, <1>3, <1>4 DEF Next, StepOf, Idle

LEMMA SerialInit == Init => OneAtATime /\ Foreseen
<1>1. Init => OneAtATime
  BY DEF Init, OneAtATime, Active
<1>2. Init => Foreseen
  BY DEF Init, Foreseen, ForeseenOf, HasVideo, HasRaws, Unraced
<1> QED
  BY <1>1, <1>2

LEMMA SerialStep == OneAtATime /\ [Next /\ OneAtATime']_vars => OneAtATime'
BY DEF OneAtATime, Active, vars

\* What holds while no two runs overlap.
LEMMA InTurn == SerialSpec => [](Standing /\ OneAtATime /\ Foreseen)
<1>1. [Next /\ OneAtATime']_vars => [Next]_vars
  OBVIOUS
<1>2. Standing /\ OneAtATime /\ Foreseen /\ [Next /\ OneAtATime']_vars
         => (Standing /\ OneAtATime /\ Foreseen)'
  BY <1>1, StandingStep, SerialStep, ForeseenStep
<1>3. Init => Standing /\ OneAtATime /\ Foreseen
  BY StandingInit, SerialInit
<1> QED
  BY <1>2, <1>3, PTL DEF SerialSpec

\* One run at a time, the archive is write-once: a file is put where none is, because
\* the look-up of the same call saw none and no other run has put one since.
THEOREM ArchiveWrittenOnce == SerialSpec => WriteOnce
<1>1. ASSUME Standing, Foreseen, [Next]_vars
      PROVE  [\A k \in BronzeKeys : bronze[k] # None => bronze'[k] = bronze[k]]_vars
  <2>0. Typed /\ Entries /\ crossed = {}
    BY <1>1 DEF Standing, Foreseen
  <2>1. CASE bronze' = bronze
    BY <2>1
  <2>2. ASSUME NEW r \in Runs, BronzeReplace(r)
        PROVE  \A k \in BronzeKeys : bronze[k] # None => bronze'[k] = bronze[k]
    <3>1. bronze[Archiving(r)] = None
      BY <1>1, <2>2 DEF BronzeReplace, At, Foreseen, ForeseenOf, HasRaws
    <3>2. bronze' = [bronze EXCEPT ![Archiving(r)] = temp[Archiving(r)]]
      BY <2>2 DEF BronzeReplace
    <3> QED
      BY <2>0, <3>1, <3>2 DEF Typed, TypeOK
  <2> QED
    BY <1>1, <2>0, <2>1, <2>2, ArchiveKept DEF Next, StepOf, Idle, vars, store, files
<1>2. [Next /\ OneAtATime']_vars => [Next]_vars
  OBVIOUS
<1> QED
  BY <1>1, <1>2, InTurn, PTL DEF SerialSpec, WriteOnce

-----------------------------------------------------------------------------
(* Safe to call twice.  Without a kill every file of the archive belongs to *)
(* a committed document or to the video some run has in hand, so a run      *)
(* never finds a file that was left behind.  A key does not name the        *)
(* channel: two that listed one video would meet in the archive, which the  *)
(* theorem excludes (a video of YouTube is of one channel).                 *)

OneChannelEach ==
    \A s, t \in Sources : \A i \in 1..Len(Catalogue[s]), j \in 1..Len(Catalogue[t]) :
        Catalogue[s][i] = Catalogue[t][j] => s = t

VideosOf(s) == {Catalogue[s][i] : i \in 1..Len(Catalogue[s])}

Listed ==
    \A r \in Runs : pc[r] \in {"existing"} \cup InListing =>
        \A i \in 1..Len(listing[r]) : listing[r][i] \in VideosOf(Source(r))

Holds(q, s, k) ==
    /\ pc[q] \in Persisting
    /\ Source(q) = s
    /\ Video(q) = k[2]
    /\ bronze[k] = Stamp(q)

Used(k) ==
    \E s \in Sources :
        /\ k[2] \in VideosOf(s)
        /\ HasDocument(s, k[2]) \/ \E q \in Runs : Holds(q, s, k)

NothingLeft ==
    kills = 0 =>
        /\ \A k \in BronzeKeys : bronze[k] # None => Used(k)
        /\ \A r \in Runs : cause[r] \in {None, "seed", "adapter"}

LEMMA PartOf ==
    ASSUME NEW ids \in Seq(Videos), NEW k \in Nat \ {0}, NEW n \in Nat, n <= Len(ids),
           NEW i \in 1..Len(SubSeq(ids, k, n))
    PROVE  \E j \in 1..Len(ids) : SubSeq(ids, k, n)[i] = ids[j]
<1>1. Len(SubSeq(ids, k, n)) = IF k <= n THEN n - k + 1 ELSE 0
  BY SMT
<1>2. /\ SubSeq(ids, k, n)[i] = ids[k + i - 1]
      /\ k + i - 1 \in 1..Len(ids)
  BY <1>1
<1> QED
  BY <1>2

\* Discovery lists videos of the channel.
LEMMA ListingsWithin ==
    ASSUME NEW s \in Sources, NEW n \in Nat, NEW ids \in Listings(s, n),
           NEW i \in 1..Len(ids)
    PROVE  ids[i] \in VideosOf(s)
<1>1. PICK k \in 1..Len(Catalogue[s]) + 1 :
         ids = Limited(SubSeq(Catalogue[s], k, Len(Catalogue[s])), n)
  BY DEF Listings
<1> DEFINE all == Catalogue[s]
           rest == SubSeq(all, k, Len(all))
<1>2. all \in Seq(Videos) /\ k \in Nat \ {0} /\ Len(all) \in Nat
  BY <1>1
<1>3. rest \in Seq(Videos)
  BY <1>2, SubSeqProperties
<1>4. ASSUME NEW j \in 1..Len(rest)
      PROVE  \E m \in 1..Len(all) : rest[j] = all[m]
  <2> HIDE DEF all
  <2>1. Len(all) <= Len(all)
    BY <1>2
  <2>2. j \in 1..Len(SubSeq(all, k, Len(all)))
    BY <1>4
  <2>3. \E m \in 1..Len(all) : SubSeq(all, k, Len(all))[j] = all[m]
    BY ONLY <1>2, <2>1, <2>2, PartOf
  <2> QED
    BY <2>3
<1>5. ids = Limited(rest, n)
  BY <1>1
<1> HIDE DEF rest
<1>6. \E j \in 1..Len(rest) : ids[i] = rest[j]
  <2>1. CASE n = 0 \/ n >= Len(rest)
    BY <1>5, <2>1 DEF Limited
  <2>2. CASE ~ (n = 0 \/ n >= Len(rest))
    <3>1. ids = SubSeq(rest, 1, n) /\ n <= Len(rest)
      BY <1>3, <1>5, <2>2 DEF Limited
    <3> QED
      BY <1>3, <3>1, PartOf
  <2> QED
    BY <2>1, <2>2
<1> QED
  BY <1>4, <1>6 DEF VideosOf

\* A run asks what exists after its discovery only.
LEMMA OnlyDiscover ==
    ASSUME Typed, NEW r \in Runs, StepOf(r), ~ Discover(r)
    PROVE  pc'[r] # "existing"
<1> USE DEF Typed, TypeOK, At, Goto
<1>1. CASE Begin(r) \/ Kill(r)
  BY <1>1 DEF Begin, Kill
<1>2. CASE Prepare(r)
  BY <1>2 DEF Prepare, SelectTenant, InsertTenant, TenantRace, CommitTenant, SelectSource,
     InsertSource, SourceRace, CommitSource, SeedRaises, DiscoverRaises, QueryExisting, Finish, Flush,
     IntegrityError, Raise
<1>3. CASE Fetch(r)
  BY <1>3 DEF Fetch, Skip, StartFetch, FetchReturns, SourceError, CreditBudgetExceeded,
     FetchRaises, Raise
<1>4. CASE Persist(r)
  BY <1>4 DEF Persist, BronzeLookup, BronzeWriteConflict, BronzeOpen, BronzeFill,
     BronzeReplace, BronzeReplaceRaises, FlushDocument,
     DocumentRace, FlushTranscript, FlushSegments, NoSegments, CommitVideo, Flush, IntegrityError, Raise,
     AfterDocument
<1>5. CASE Close(r)
  BY <1>5 DEF Close, EndOfListing, TouchIngestState, CommitState
<1> QED
  BY <1>1, <1>2, <1>3, <1>4, <1>5 DEF StepOf, Step

LEMMA ListedStep == Typed /\ Listed /\ [Next]_vars => Listed'
<1> SUFFICES ASSUME Typed, Listed, [Next]_vars, NEW q \in Runs,
                    pc'[q] \in {"existing"} \cup InListing,
                    NEW i \in 1..Len(listing'[q])
             PROVE  listing'[q][i] \in VideosOf(Source(q)')
  BY DEF Listed, VideosOf
<1>1. ASSUME pc[q] \in {"existing"} \cup InListing, listing'[q] = listing[q],
             seedIx'[q] = seedIx[q]
      PROVE  listing'[q][i] \in VideosOf(Source(q)')
  BY <1>1 DEF Listed, Source
<1>2. CASE UNCHANGED vars
  BY <1>1, <1>2 DEF vars, locals
<1>3. ASSUME NEW r \in Runs, StepOf(r), q # r
      PROVE  listing'[q][i] \in VideosOf(Source(q)')
  BY <1>1, <1>3, OthersKept DEF SameRun
<1>4. ASSUME StepOf(q), ~ Discover(q)
      PROVE  listing'[q][i] \in VideosOf(Source(q)')
  <2>1. CASE QueryExisting(q) \/ Skip(q) \/ SourceError(q) \/ CommitVideo(q)
    <3>1. /\ pc[q] \in {"existing"} \cup InListing
          /\ listing'[q] = listing[q] /\ seedIx'[q] = seedIx[q]
      BY <2>1 DEF QueryExisting, Skip, SourceError, CommitVideo, At, InListing
    <3> QED
      BY <1>1, <3>1
  <2>2. CASE ~ (QueryExisting(q) \/ Skip(q) \/ SourceError(q) \/ CommitVideo(q))
    <3>1. pc'[q] # "existing"
      BY <1>4, OnlyDiscover
    <3>2. pc'[q] \in InListing
      BY <3>1
    <3> QED
      BY <1>1, <1>4, <2>2, <3>2, ListingKept DEF SameListing, StepOf
  <2> QED
    BY <2>1, <2>2
<1>5. CASE Discover(q)
  <2>1. seedIx[q] <= Len(SeedsOf[q]) /\ Source(q)' = Source(q)
    BY <1>5 DEF Discover, At, Typed, InRange, HasSource, Source
  <2>2. Source(q) \in Sources
    BY <2>1, SourceType
  <2>3. EffectiveLimit(LimitOf[q], CapOf[Source(q)]) \in Nat
    BY <2>2, EffectiveLimitType
  <2>4. listing'[q] \in Listings(Source(q), EffectiveLimit(LimitOf[q], CapOf[Source(q)]))
    BY <1>5 DEF Discover, Typed, TypeOK
  <2> QED
    BY <2>1, <2>2, <2>3, <2>4, ListingsWithin
<1> QED
  BY <1>2, <1>3, <1>4, <1>5 DEF Next, StepOf, Idle

\* The archive refuses nothing: what is there is what the run itself put.
LEMMA NoConflict ==
    ASSUME OneChannelEach, Typed, Listed, Foreseen, OneAtATime, NothingLeft, kills = 0,
           NEW r \in Runs
    PROVE  ~ BronzeWriteConflict(r)
<1> SUFFICES ASSUME BronzeWriteConflict(r)
             PROVE  FALSE
  OBVIOUS
<1>1. /\ pc[r] = "archive" /\ raws[r] # <<>>
      /\ bronze[Archiving(r)] # None /\ bronze[Archiving(r)] # Stamp(r)
  BY DEF BronzeWriteConflict, At
<1>2. /\ pc[r] \in HasVideo /\ pc[r] \in HasSource /\ pc[r] \in InListing /\ Active(r)
  BY <1>1 DEF HasVideo, HasSource, InListing, Active, Terminal
<1>3. ix[r] \in 1..Len(listing[r]) /\ seedIx[r] <= Len(SeedsOf[r])
  BY <1>2 DEF Typed, TypeOK, InRange
<1>4. Source(r) \in Sources /\ Video(r) \in VideosOf(Source(r)) /\ Video(r) \in Videos
  BY <1>2, <1>3, SourceType, VideoType DEF Listed, Video
<1>5. Archiving(r) \in BronzeKeys /\ Archiving(r)[2] = Video(r)
  BY <1>1, <1>2, ArchivingType DEF Archiving, KeyOf
<1>6a. PICK k \in BronzeKeys : k = Archiving(r)
  BY <1>5
<1>6b. PICK s \in Sources :
         /\ k[2] \in VideosOf(s)
         /\ HasDocument(s, k[2]) \/ \E q \in Runs : Holds(q, s, k)
  BY <1>1, <1>6a DEF NothingLeft, Used
<1>6. /\ Video(r) \in VideosOf(s)
      /\ HasDocument(s, Video(r)) \/ \E q \in Runs : Holds(q, s, Archiving(r))
  BY <1>5, <1>6a, <1>6b
<1>7. s = Source(r)
  BY <1>4, <1>6 DEF OneChannelEach, VideosOf
<1>8. ForeseenOf(r)
  BY DEF Foreseen
<1>9. ~ HasDocument(s, Video(r))
  BY <1>2, <1>7, <1>8, VideoIsNew
<1>10. PICK q \in Runs : Holds(q, s, Archiving(r))
  BY <1>6, <1>9
<1>11. Active(q) /\ bronze[Archiving(r)] = Stamp(q)
  BY <1>10 DEF Holds, Persisting, Unarchived, Active, Terminal
<1>12. q = r
  BY <1>2, <1>11 DEF OneAtATime
<1> QED
  BY <1>1, <1>11, <1>12

\* The video a run has in hand stays in hand until its document is committed.
LEMMA HandKept ==
    ASSUME Typed, RowRules, NEW q \in Runs, pc[q] \in Persisting, StepOf(q), ~ Kill(q),
           ~ DocumentRace(q), ~ BronzeWriteConflict(q), ~ BronzeReplaceRaises(q)
    PROVE  \/ CommitVideo(q)
           \/ /\ pc'[q] \in Persisting
              /\ Source(q)' = Source(q)
              /\ Video(q)' = Video(q)
<1> USE DEF At, Goto
<1>1. pc \in [Runs -> Places]
  BY DEF Typed, TypeOK
<1>2. ~ Begin(q)
  BY DEF Begin, Persisting, Unarchived
<1>3. ~ Prepare(q)
  BY DEF Persisting, Unarchived, Prepare, SelectTenant, InsertTenant, TenantRace, CommitTenant,
     SelectSource, InsertSource, SourceRace, CommitSource, SeedRaises, Discover, DiscoverRaises,
     QueryExisting, Finish
<1>4. ~ Fetch(q)
  BY DEF Persisting, Unarchived, Fetch, Skip, StartFetch, FetchReturns, SourceError,
     CreditBudgetExceeded, FetchRaises
<1>5. ~ Close(q)
  BY DEF Persisting, Unarchived, Close, EndOfListing, TouchIngestState, CommitState
<1>6. \/ CommitVideo(q)
      \/ BronzeLookup(q) \/ BronzeOpen(q) \/ BronzeFill(q) \/ BronzeReplace(q)
      \/ FlushDocument(q) \/ FlushTranscript(q) \/ FlushSegments(q) \/ NoSegments(q)
  BY <1>2, <1>3, <1>4, <1>5 DEF StepOf, Step, Persist
<1>7. ASSUME ~ CommitVideo(q)
      PROVE  pc'[q] \in Persisting /\ UNCHANGED <<seedIx, listing, ix>>
  <2>1. CASE BronzeLookup(q)
    BY <1>1, <2>1 DEF BronzeLookup, Persisting, Unarchived
  <2>2. CASE BronzeOpen(q) \/ BronzeFill(q) \/ BronzeReplace(q)
    BY <1>1, <2>2 DEF BronzeOpen, BronzeFill, BronzeReplace, locals, Persisting, Unarchived
  <2>3. CASE FlushDocument(q) \/ FlushTranscript(q) \/ FlushSegments(q) \/ NoSegments(q)
    BY <1>1, <2>3 DEF FlushDocument, FlushTranscript, FlushSegments, NoSegments, Flush,
       AfterDocument, locals, Persisting, Unarchived
  <2> QED
    BY <1>6, <1>7, <2>1, <2>2, <2>3
<1> QED
  BY <1>7 DEF Source, Video

LEMMA UsedStays ==
    ASSUME Typed, RowRules, Entries, Stays, Foreseen, NEW r \in Runs, StepOf(r),
           ~ Kill(r), ~ BronzeWriteConflict(r), NEW k \in BronzeKeys, Used(k), bronze'[k] = bronze[k]
    PROVE  Used(k)'
<1>1. PICK s \in Sources :
         /\ k[2] \in VideosOf(s)
         /\ HasDocument(s, k[2]) \/ \E q \in Runs : Holds(q, s, k)
  BY DEF Used
<1>2. SUFFICES HasDocument(s, k[2])' \/ \E q \in Runs : Holds(q, s, k)'
  BY <1>1 DEF Used, VideosOf
<1>3. ASSUME HasDocument(s, k[2])
      PROVE  HasDocument(s, k[2])'
  BY <1>3 DEF Stays, HasDocument, InTable
<1>4. ASSUME NEW q \in Runs, Holds(q, s, k)
      PROVE  HasDocument(s, k[2])' \/ Holds(q, s, k)'
  <2>1. CASE q # r
    <3>1. Source(q)' = Source(q) /\ Video(q)' = Video(q) /\ pc'[q] = pc[q]
      BY <2>1, OthersKept DEF SameRun, Source, Video
    <3> QED
      BY <1>4, <3>1 DEF Holds, Stamp
  <2>2. CASE q = r
    <3>1. ~ DocumentRace(q) /\ ~ BronzeReplaceRaises(q)
      BY NoRace, ReplacesOwn DEF Foreseen, BronzeReplaceRaises, At
    <3>2. CASE CommitVideo(q)
      <4>1. DocumentRow(q) \in db'
        BY <3>2, CommitsDocument
      <4>2. DocumentRow(q).source = s /\ DocumentRow(q).video = k[2]
            /\ DocumentRow(q).table = "document"
        BY <1>4, DocumentFields DEF Holds
      <4> QED
        BY <4>1, <4>2 DEF HasDocument, InTable
    <3>3. CASE ~ CommitVideo(q)
      <4>1. pc'[q] \in Persisting /\ Source(q)' = Source(q) /\ Video(q)' = Video(q)
        BY <1>4, <2>2, <3>1, <3>3, HandKept DEF Holds
      <4> QED
        BY <1>4, <4>1 DEF Holds, Stamp
    <3> QED
      BY <3>2, <3>3
  <2> QED
    BY <2>1, <2>2
<1> QED
  BY <1>1, <1>3, <1>4

LEMMA PutUsed ==
    ASSUME Typed, Entries, crossed = {}, Listed, NEW r \in Runs, BronzeReplace(r),
           NEW k \in BronzeKeys, k = Archiving(r)
    PROVE  Used(k)'
<1>0. /\ pc[r] = "replace" /\ pc'[r] = "archive"
      /\ UNCHANGED <<seedIx, listing, ix>>
  BY DEF BronzeReplace, At, Goto, Typed, TypeOK
<1>1. /\ pc[r] = "replace" /\ pc'[r] = "archive"
      /\ bronze' = [bronze EXCEPT ![k] = Stamp(r)]
      /\ UNCHANGED <<seedIx, listing, ix>>
  BY <1>0, ReplacesOwn
<1>2. ix[r] \in 1..Len(listing[r]) /\ seedIx[r] <= Len(SeedsOf[r]) /\ pc[r] \in InListing
  BY <1>1 DEF Typed, TypeOK, InRange, HasSource, HasVideo, InListing
<1>3. Source(r) \in Sources /\ Video(r) \in VideosOf(Source(r)) /\ k[2] = Video(r)
  BY <1>2, SourceType DEF Listed, Video, Archiving, KeyOf
<1>4. Source(r)' = Source(r) /\ Video(r)' = Video(r) /\ Stamp(r)' = Stamp(r)
  BY <1>1 DEF Source, Video, Stamp
<1>5. bronze'[k] = Stamp(r)
  BY <1>1 DEF Typed, TypeOK
<1>6. PICK s \in Sources : s = Source(r)
  BY <1>3
<1>7. Holds(r, s, k)'
  BY <1>1, <1>3, <1>4, <1>5, <1>6 DEF Holds, Persisting, Unarchived
<1> QED
  BY <1>3, <1>6, <1>7 DEF Used, VideosOf

\* Only a kill is counted, and only a conflict ends a run with it.
LEMMA KillsKept ==
    ASSUME NEW r \in Runs, StepOf(r), ~ Kill(r)
    PROVE  kills' = kills
<1>1. CASE Prepare(r)
  BY <1>1 DEF Prepare, SelectTenant, InsertTenant, TenantRace, CommitTenant, SelectSource,
     InsertSource, SourceRace, CommitSource, SeedRaises, Discover, DiscoverRaises, QueryExisting, Finish,
     Flush, IntegrityError
<1>2. CASE Fetch(r)
  BY <1>2 DEF Fetch, Skip, StartFetch, FetchReturns, SourceError, CreditBudgetExceeded,
     FetchRaises
<1>3. CASE Persist(r)
  BY <1>3 DEF Persist, BronzeLookup, BronzeWriteConflict, BronzeOpen, BronzeFill,
     BronzeReplace, BronzeReplaceRaises, FlushDocument,
     DocumentRace, FlushTranscript, FlushSegments, NoSegments, CommitVideo, Flush, IntegrityError
<1>4. CASE Close(r)
  BY <1>4 DEF Close, EndOfListing, TouchIngestState, CommitState
<1>5. CASE Begin(r)
  BY <1>5 DEF Begin
<1> QED
  BY <1>1, <1>2, <1>3, <1>4, <1>5 DEF StepOf, Step

LEMMA BronzeCause ==
    ASSUME Typed, Entries, crossed = {}, NEW r \in Runs, StepOf(r), ~ Kill(r),
           ~ BronzeWriteConflict(r), ForeseenOf(r),
           \A q \in Runs : cause[q] \in {None, "seed", "adapter"}
    PROVE  \A q \in Runs : cause'[q] \in {None, "seed", "adapter"}
<1>0. /\ cause \in [Runs -> {None, "seed", "adapter", "integrity", "bronze", "file"}]
      /\ ~ TenantRace(r) /\ ~ SourceRace(r) /\ ~ DocumentRace(r) /\ ~ BronzeReplaceRaises(r)
  BY NoRace, ReplacesOwn DEF Typed, TypeOK, BronzeReplaceRaises, At
<1>1. CASE Prepare(r)
  BY <1>0, <1>1 DEF Prepare, SelectTenant, InsertTenant, CommitTenant, SelectSource,
     InsertSource, CommitSource, SeedRaises, Discover, DiscoverRaises, QueryExisting, Finish,
     Flush, Raise
<1>2. CASE Fetch(r)
  BY <1>0, <1>2 DEF Fetch, Skip, StartFetch, FetchReturns, SourceError, CreditBudgetExceeded,
     FetchRaises, Raise
<1>3. CASE Persist(r)
  BY <1>0, <1>3 DEF Persist, BronzeLookup, BronzeOpen, BronzeFill, BronzeReplace,
     FlushDocument, FlushTranscript, FlushSegments, NoSegments, CommitVideo, Flush
<1>4. CASE Close(r)
  BY <1>0, <1>4 DEF Close, EndOfListing, TouchIngestState, CommitState
<1>5. CASE Begin(r)
  BY <1>0, <1>5 DEF Begin
<1> QED
  BY <1>1, <1>2, <1>3, <1>4, <1>5 DEF StepOf, Step

LEMMA LeftStep ==
    ASSUME OneChannelEach, Standing, Listed, Foreseen, OneAtATime, NothingLeft, [Next]_vars
    PROVE  NothingLeft'
<1>0. Typed /\ RowRules /\ Entries /\ crossed = {}
  BY DEF Standing, Foreseen
<1>0a. bronze \in [BronzeKeys -> Contents] /\ kills \in 0..MaxKills
  BY <1>0 DEF Typed, TypeOK
<1>0b. kills \in Nat
  BY <1>0a
<1>1. Typed /\ RowRules /\ Entries /\ crossed = {} /\ kills \in Nat
      /\ bronze \in [BronzeKeys -> Contents]
  BY <1>0, <1>0a, <1>0b
<1>2. CASE UNCHANGED vars
  BY <1>2 DEF NothingLeft, Used, Holds, HasDocument, InTable, Source, Video, Stamp,
     vars, store, files, locals
<1>3. ASSUME NEW r \in Runs, StepOf(r)
      PROVE  NothingLeft'
  <2>1. SUFFICES ASSUME kills' = 0
                 PROVE  /\ \A k \in BronzeKeys : bronze'[k] # None => Used(k)'
                        /\ \A q \in Runs : cause'[q] \in {None, "seed", "adapter"}
    BY DEF NothingLeft
  <2>2. ~ Kill(r)
    BY <1>1, <2>1 DEF Kill
  <2>3. kills = 0
    BY <1>3, <2>1, <2>2, KillsKept
  <2>4. ~ BronzeWriteConflict(r)
    BY <1>1, <2>3, NoConflict
  <2>5. \A q \in Runs : cause'[q] \in {None, "seed", "adapter"}
    BY <1>1, <1>3, <2>2, <2>3, <2>4, BronzeCause DEF NothingLeft, Foreseen
  <2>6. ASSUME NEW k \in BronzeKeys, bronze'[k] # None
        PROVE  Used(k)'
    <3>1. CASE BronzeReplace(r) /\ k = Archiving(r)
      BY <1>1, <3>1, PutUsed
    <3>2. CASE ~ (BronzeReplace(r) /\ k = Archiving(r))
      <4>1. bronze'[k] = bronze[k]
        BY <1>1, <1>3, <3>2, ArchiveKept DEF BronzeReplace
      <4>2. Stays
        BY <1>1, <1>3, StaysStep DEF Next, StepOf
      <4>3. Used(k)
        BY <2>3, <2>6, <4>1 DEF NothingLeft
      <4> QED
        BY <1>1, <1>3, <2>2, <2>4, <4>1, <4>2, <4>3, UsedStays
    <3> QED
      BY <3>1, <3>2
  <2> QED
    BY <2>5, <2>6
<1> QED
  BY <1>2, <1>3 DEF Next, StepOf, Idle

\* With one run at a time and none killed, a second call never trips over what an earlier
\* one left: no flush meets a committed key, no archive write meets a file of an earlier
\* run, and no temporary file is renamed away.  What can still end a run early is the
\* adapter, or a seed row that is wrong by itself ("safe to call twice", for channels that
\* share no video).
THEOREM CallingTwiceIsSafe ==
    ASSUME OneChannelEach
    PROVE  SerialSpec => []SafeToCallTwice
<1>1. [Next /\ OneAtATime']_vars => [Next]_vars
  OBVIOUS
<1>2. Standing /\ OneAtATime /\ Foreseen /\ Listed /\ NothingLeft /\ [Next /\ OneAtATime']_vars
         => (Listed /\ NothingLeft)'
  BY <1>1, ListedStep, LeftStep DEF Standing
<1>3. Init => Listed /\ NothingLeft
  BY DEF Init, Listed, InListing, NothingLeft
<1>4. NothingLeft => SafeToCallTwice
  BY DEF NothingLeft, SafeToCallTwice
<1>5. SerialSpec => [](Standing /\ OneAtATime /\ Foreseen)
  BY InTurn
<1> QED
  BY <1>2, <1>3, <1>4, <1>5, PTL DEF SerialSpec
=============================================================================
