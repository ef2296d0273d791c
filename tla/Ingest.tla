------------------------------- MODULE Ingest -------------------------------
(***************************************************************************)
(* Ingestion runs over a PostgreSQL database and the bronze archive.       *)
(*                                                                         *)
(* A run is one call of run_ingestion (corpus/ingest/runner.py): it takes  *)
(* its seed rows in order and gives each to ingest_source                  *)
(* (corpus/ingest/pipelines.py), which discovers the channel's videos,     *)
(* skips the ones that already have a document row, and fetches, archives  *)
(* and commits the others one by one.  Runs are started by the command     *)
(* line (a process each) and by the dashboard (a thread each), and nothing *)
(* in the code keeps two from overlapping.                                 *)
(*                                                                         *)
(* The source adapter is its contract here (corpus/sources/base.py):       *)
(* discover returns a listing or raises; fetch returns a result, or raises *)
(* CreditBudgetExceeded, another SourceError, or an exception that is not  *)
(* a SourceError.                                                          *)
(*                                                                         *)
(* One step is one call that another run, or a kill, can come before: a    *)
(* query, a flush, a commit, an archive look-up or write, an adapter call. *)
(* The database is read-committed: rows of `txn[r]` are flushed by run r   *)
(* but seen by nobody else until its commit moves them to `db`.            *)
(***************************************************************************)
EXTENDS Integers, Sequences, FiniteSets

CONSTANTS
    Runs,             \* calls of run_ingestion, each made at most once
    Sources,          \* channel handles
    Videos,           \* video ids
    Providers,        \* transcript providers; also their bronze endpoints
    Payloads,         \* what a provider may answer for one video
    Silent,           \* <<video, payload>>: the answers whose list of segments is empty
    SeedsOf,          \* run -> the sequence of handles it was given
    LimitOf,          \* run -> the limit it was given, 0 for none
    CapOf,            \* handle -> the cap its seed row's note states, 0 for none
    Catalogue,        \* handle -> its videos, newest first
    MaxKills,         \* bound: processes killed in a behaviour
    None,             \* no value
    Partial,          \* what a file holds that one writer has not filled yet,
    Mixed             \* or that several have had open since it was emptied

ASSUME SeedsAssumption == SeedsOf \in [Runs -> Seq(Sources)]
ASSUME LimitAssumption == LimitOf \in [Runs -> Nat] /\ CapOf \in [Sources -> Nat]
ASSUME CatalogueAssumption ==
    /\ Catalogue \in [Sources -> Seq(Videos)]
    /\ \A s \in Sources : \A i, j \in 1..Len(Catalogue[s]) :
          Catalogue[s][i] = Catalogue[s][j] => i = j
ASSUME VideosAssumption == IsFiniteSet(Videos)
ASSUME NoneAssumption ==
    None \notin Sources \cup Videos \cup Providers \cup (Providers \X Payloads)
ASSUME ContentAssumption ==
    /\ {None, Partial, Mixed} \cap (Runs \X Sources) = {}
    /\ None # Partial /\ None # Mixed /\ Partial # Mixed
ASSUME EndpointAssumption == "metadata" \notin Providers
ASSUME KillAssumption == MaxKills \in Nat

VARIABLES
    db,          \* committed rows
    txn,         \* run -> rows flushed and not committed
    bronze,      \* archive key -> what its file holds, None if there is no file
    temp,        \* archive key -> what its .json.tmp holds, None if there is none
    crossed,     \* archive keys whose temporary file two runs have used at once (history)
    pc,          \* run -> where it is
    seedIx,      \* run -> index of the seed row in progress
    listing,     \* run -> external_ids of the source in progress
    existing,    \* run -> the ids that had a document row when it asked
    ix,          \* run -> position in listing
    raws,        \* run -> raw responses of the fetch in hand, still to archive
    file,        \* run -> where the file it writes to is by now, or "closed"
    transcript,  \* run -> <<provider, payload>> of the transcript in hand, or None
    fetched,     \* run -> documents committed for the source in progress
    errors,      \* run -> videos whose fetch raised SourceError (failed = its length)
    summaries,   \* run -> summaries of the sources it completed
    cause,       \* run -> the exception that ended it, or None
    kills        \* processes killed so far

files == <<bronze, temp, crossed, file>>
store == <<db, txn, files>>
locals == <<seedIx, listing, existing, ix, raws, transcript, fetched, errors>>
vars == <<store, pc, locals, summaries, cause, kills>>

-----------------------------------------------------------------------------
(* Rows.  `by` is the run that inserted the row: rows have surrogate ids,   *)
(* so two inserts of one key make two rows unless a constraint refuses one. *)

Tables == {"tenant", "source", "document", "transcript", "segment", "ingest_state"}
Row == [table   : Tables,
        source  : Sources \cup {None},
        video   : Videos \cup {None},
        value   : {"failed", "enriched", None} \cup Providers,
        payload : Payloads \cup {None},
        by      : Runs]

\* The columns of the table's unique constraint.
Key(row) == <<row.table, row.source, row.video>>

Source(r) == SeedsOf[r][seedIx[r]]
Video(r) == listing[r][ix[r]]

TenantRow(r) ==
    [table |-> "tenant", source |-> None, video |-> None, value |-> None,
     payload |-> None, by |-> r]
SourceRow(r) ==
    [table |-> "source", source |-> Source(r), video |-> None, value |-> None,
     payload |-> None, by |-> r]
StateRow(r) ==
    [table |-> "ingest_state", source |-> Source(r), video |-> None, value |-> None,
     payload |-> None, by |-> r]
VideoRow(r, table, value, payload) ==
    [table |-> table, source |-> Source(r), video |-> Video(r), value |-> value,
     payload |-> payload, by |-> r]

DocumentRow(r) ==
    VideoRow(r, "document", IF transcript[r] = None THEN "failed" ELSE "enriched", None)
\* The payload says which response the rows were made from; one row stands for the
\* segments of a transcript, however many they are.
TranscriptRow(r) == VideoRow(r, "transcript", transcript[r][1], transcript[r][2])
SegmentRow(r) == VideoRow(r, "segment", None, transcript[r][2])

InTable(rows, table) == {row \in rows : row.table = table}
\* Variant: documents marked failed are looked for again.
HasDocument_EnrichedOnly(s, v) ==
    \E d \in InTable(db, "document") : d.source = s /\ d.video = v /\ d.value = "enriched"

HasDocument(s, v) == \E d \in InTable(db, "document") : d.source = s /\ d.video = v

-----------------------------------------------------------------------------
(* The archive.  A key is a hash of provider, endpoint, id and payload; the *)
(* content also holds fetched_at and the response headers, so two fetches   *)
(* never write the same bytes.  A run fetches a video of a source once, so  *)
(* the stamp <<run, source>> stands for those bytes.  All writers of a key  *)
(* share one temporary name; module Bronze has the same calls block by      *)
(* block.                                                                   *)

BronzeKeys == (Providers \cup {"metadata"}) \X Videos \X Payloads
Raw == (Providers \cup {"metadata"}) \X Payloads
KeyOf(v, raw) == <<raw[1], v, raw[2]>>
Stamp(r) == <<r, Source(r)>>
Whole == Runs \X Sources

\* What FetchResult.raw may hold: the metadata response when there was one, then
\* the transcript response when there was one.
MetadataRaws == {<<>>} \cup {<<<<"metadata", p>>>> : p \in Payloads}
\* Variant: only the metadata response is handed on.
TranscriptRaws_Dropped(t) == <<>>

TranscriptRaws(t) == IF t = None THEN <<>> ELSE <<t>>

\* Both limits given: the smaller.  One: that one.  0 is falsy, and means none.
EffectiveLimit(limit, cap) ==
    IF limit # 0 /\ cap # 0 THEN (IF limit < cap THEN limit ELSE cap)
    ELSE IF limit # 0 THEN limit ELSE cap

\* The newest n ids, all of them for n = 0.
Limited(ids, n) == IF n = 0 \/ n >= Len(ids) THEN ids ELSE SubSeq(ids, 1, n)

\* What discovery may answer: the catalogue without its newest k entries, which are
\* not uploaded yet, cut to the limit.
Listings(s, n) ==
    {Limited(SubSeq(Catalogue[s], k, Len(Catalogue[s])), n) : k \in 1..Len(Catalogue[s]) + 1}

-----------------------------------------------------------------------------
Init ==
    /\ db = {}
    /\ txn = [r \in Runs |-> {}]
    /\ bronze = [k \in BronzeKeys |-> None]
    /\ temp = [k \in BronzeKeys |-> None]
    /\ crossed = {}
    /\ file = [r \in Runs |-> "closed"]
    /\ pc = [r \in Runs |-> "idle"]
    /\ seedIx = [r \in Runs |-> 1]
    /\ listing = [r \in Runs |-> <<>>]
    /\ existing = [r \in Runs |-> {}]
    /\ ix = [r \in Runs |-> 1]
    /\ raws = [r \in Runs |-> <<>>]
    /\ transcript = [r \in Runs |-> None]
    /\ fetched = [r \in Runs |-> 0]
    /\ errors = [r \in Runs |-> <<>>]
    /\ summaries = [r \in Runs |-> <<>>]
    /\ cause = [r \in Runs |-> None]
    /\ kills = 0

Terminal == {"finished", "failed", "killed"}
Active(r) == pc[r] \notin Terminal \cup {"idle"}

At(r, here) == pc[r] = here
Goto(r, there) == pc' = [pc EXCEPT ![r] = there]

\* An exception leaves run_ingestion: tenant_session rolls back and closes.
Raise(r, exception) ==
    /\ Goto(r, "failed")
    /\ txn' = [txn EXCEPT ![r] = {}]
    /\ cause' = [cause EXCEPT ![r] = exception]

(* A flushed row waits for a transaction that holds its unique key, and is  *)
(* refused when the key is committed.                                       *)
Locked(r, row) == \E q \in Runs \ {r} : \E other \in txn[q] : Key(other) = Key(row)
Taken(row) == \E other \in db : Key(other) = Key(row)

\* Variant: every insert is an upsert.
Flush_Upsert(r, row, there) ==
    /\ ~ Locked(r, row)
    /\ txn' = [txn EXCEPT ![r] = @ \cup {row}]
    /\ Goto(r, there)
    /\ UNCHANGED <<db, files, locals, summaries, cause, kills>>

Flush(r, row, there) ==
    /\ ~ Locked(r, row)
    /\ ~ Taken(row)
    /\ txn' = [txn EXCEPT ![r] = @ \cup {row}]
    /\ Goto(r, there)
    /\ UNCHANGED <<db, files, locals, summaries, cause, kills>>

IntegrityError(r, row) ==
    /\ ~ Locked(r, row)
    /\ Taken(row)
    /\ Raise(r, "integrity")
    /\ UNCHANGED <<db, files, locals, summaries, kills>>

\* Variant: the watermark is inserted, not upserted.
Commit_Insert(r) ==
    /\ db' = db \cup txn[r]
    /\ txn' = [txn EXCEPT ![r] = {}]

\* Committed rows; an upserted row takes the place of the one it updates.
Commit(r) ==
    /\ db' = {row \in db : \A new \in txn[r] : Key(new) # Key(row)} \cup txn[r]
    /\ txn' = [txn EXCEPT ![r] = {}]

-----------------------------------------------------------------------------
(* run_ingestion: the tenant row, then one source per seed row.             *)

Begin(r) ==
    /\ At(r, "idle")
    /\ Goto(r, "tenant")
    /\ UNCHANGED <<store, locals, summaries, cause, kills>>

SelectTenant(r) ==
    /\ At(r, "tenant")
    /\ Goto(r, IF Taken(TenantRow(r)) THEN "source" ELSE "insertTenant")
    /\ UNCHANGED <<store, locals, summaries, cause, kills>>

InsertTenant(r) == At(r, "insertTenant") /\ Flush(r, TenantRow(r), "commitTenant")
TenantRace(r) == At(r, "insertTenant") /\ IntegrityError(r, TenantRow(r))

CommitTenant(r) ==
    /\ At(r, "commitTenant")
    /\ Commit(r)
    /\ Goto(r, "source")
    /\ UNCHANGED <<files, locals, summaries, cause, kills>>

SelectSource(r) ==
    /\ At(r, "source")
    /\ seedIx[r] <= Len(SeedsOf[r])
    /\ Goto(r, IF Taken(SourceRow(r)) THEN "discover" ELSE "insertSource")
    /\ UNCHANGED <<store, locals, summaries, cause, kills>>

InsertSource(r) == At(r, "insertSource") /\ Flush(r, SourceRow(r), "commitSource")
SourceRace(r) == At(r, "insertSource") /\ IntegrityError(r, SourceRow(r))

CommitSource(r) ==
    /\ At(r, "commitSource")
    /\ Commit(r)
    /\ Goto(r, "discover")
    /\ UNCHANGED <<files, locals, summaries, cause, kills>>

Finish(r) ==
    /\ At(r, "source")
    /\ seedIx[r] > Len(SeedsOf[r])
    /\ Goto(r, "finished")
    /\ UNCHANGED <<store, locals, summaries, cause, kills>>

-----------------------------------------------------------------------------
(* ingest_source.                                                           *)

Discover(r) ==
    /\ At(r, "discover")
    /\ \E ids \in Listings(Source(r), EffectiveLimit(LimitOf[r], CapOf[Source(r)])) :
          listing' = [listing EXCEPT ![r] = ids]
    /\ Goto(r, "existing")
    /\ UNCHANGED <<store, seedIx, existing, ix, raws, transcript, fetched, errors,
                   summaries, cause, kills>>

\* A seed row that names a tier or domain there is none of (a dashboard request may add
\* one), or whose note has a cap that is no number.
SeedRaises(r) ==
    /\ pc[r] \in {"insertSource", "discover"}
    /\ Raise(r, "seed")
    /\ UNCHANGED <<db, files, locals, summaries, kills>>

\* Nothing in ingest_source or run_ingestion catches what discover raises.
DiscoverRaises(r) ==
    /\ At(r, "discover")
    /\ Raise(r, "adapter")
    /\ UNCHANGED <<db, files, locals, summaries, kills>>

\* Variant: the loop starts before the first video.
QueryExisting_FromZero(r) ==
    /\ At(r, "existing")
    /\ existing' = [existing EXCEPT ![r] =
                       {listing[r][i] : i \in {j \in 1..Len(listing[r]) :
                                                  HasDocument(Source(r), listing[r][j])}}]
    /\ ix' = [ix EXCEPT ![r] = 0]
    /\ fetched' = [fetched EXCEPT ![r] = 0]
    /\ errors' = [errors EXCEPT ![r] = <<>>]
    /\ Goto(r, "loop")
    /\ UNCHANGED <<store, seedIx, listing, raws, transcript, summaries, cause, kills>>

QueryExisting(r) ==
    /\ At(r, "existing")
    /\ existing' = [existing EXCEPT ![r] =
                       {listing[r][i] : i \in {j \in 1..Len(listing[r]) :
                                                  HasDocument(Source(r), listing[r][j])}}]
    /\ ix' = [ix EXCEPT ![r] = 1]
    /\ fetched' = [fetched EXCEPT ![r] = 0]
    /\ errors' = [errors EXCEPT ![r] = <<>>]
    /\ Goto(r, "loop")
    /\ UNCHANGED <<store, seedIx, listing, raws, transcript, summaries, cause, kills>>

\* Variant: a skipped video is not left behind.
Skip_Stays(r) ==
    /\ At(r, "loop")
    /\ ix[r] <= Len(listing[r])
    /\ Video(r) \in existing[r]
    /\ UNCHANGED vars

Skip(r) ==
    /\ At(r, "loop")
    /\ ix[r] <= Len(listing[r])
    /\ Video(r) \in existing[r]
    /\ ix' = [ix EXCEPT ![r] = @ + 1]
    /\ UNCHANGED <<store, pc, seedIx, listing, existing, raws, transcript, fetched,
                   errors, summaries, cause, kills>>

StartFetch(r) ==
    /\ At(r, "loop")
    /\ ix[r] <= Len(listing[r])
    /\ Video(r) \notin existing[r]
    /\ Goto(r, "fetching")
    /\ UNCHANGED <<store, locals, summaries, cause, kills>>

FetchReturns(r) ==
    /\ At(r, "fetching")
    /\ \E t \in (Providers \X Payloads) \cup {None}, m \in MetadataRaws :
          /\ transcript' = [transcript EXCEPT ![r] = t]
          /\ raws' = [raws EXCEPT ![r] = m \o TranscriptRaws(t)]
    /\ Goto(r, "archive")
    /\ UNCHANGED <<store, seedIx, listing, existing, ix, fetched, errors,
                   summaries, cause, kills>>

\* Variants: a failed fetch is not recorded; it is counted as fetched too.
SourceError_Swallowed(r) ==
    /\ At(r, "fetching")
    /\ ix' = [ix EXCEPT ![r] = @ + 1]
    /\ Goto(r, "loop")
    /\ UNCHANGED <<store, seedIx, listing, existing, raws, transcript, fetched, errors,
                   summaries, cause, kills>>

SourceError_Counted(r) ==
    /\ At(r, "fetching")
    /\ errors' = [errors EXCEPT ![r] = Append(@, Video(r))]
    /\ fetched' = [fetched EXCEPT ![r] = @ + 1]
    /\ ix' = [ix EXCEPT ![r] = @ + 1]
    /\ Goto(r, "loop")
    /\ UNCHANGED <<store, seedIx, listing, existing, raws, transcript,
                   summaries, cause, kills>>

SourceError(r) ==
    /\ At(r, "fetching")
    /\ errors' = [errors EXCEPT ![r] = Append(@, Video(r))]
    /\ ix' = [ix EXCEPT ![r] = @ + 1]
    /\ Goto(r, "loop")
    /\ UNCHANGED <<store, seedIx, listing, existing, raws, transcript, fetched,
                   summaries, cause, kills>>

\* The loop breaks; what is left of the listing is not attempted.
CreditBudgetExceeded(r) ==
    /\ At(r, "fetching")
    /\ Goto(r, "touch")
    /\ UNCHANGED <<store, locals, summaries, cause, kills>>

FetchRaises(r) ==
    /\ At(r, "fetching")
    /\ Raise(r, "adapter")
    /\ UNCHANGED <<db, files, locals, summaries, kills>>

-----------------------------------------------------------------------------
(* _persist: archive every raw response, then insert the rows.              *)

Archiving(r) == KeyOf(Video(r), Head(raws[r]))

\* Variant: the file that is there is not looked at.
BronzeLookup_Blind(r) ==
    /\ At(r, "archive")
    /\ raws[r] # <<>>
    /\ Goto(r, "put")
    /\ UNCHANGED <<store, locals, summaries, cause, kills>>

\* path.exists() and, when the file is there, the comparison of its bytes.
BronzeLookup(r) ==
    /\ At(r, "archive")
    /\ raws[r] # <<>>
    /\ bronze[Archiving(r)] \in {None, Stamp(r)}
    /\ IF bronze[Archiving(r)] = None
         THEN Goto(r, "put") /\ UNCHANGED raws
         ELSE raws' = [raws EXCEPT ![r] = Tail(@)] /\ UNCHANGED pc
    /\ UNCHANGED <<store, seedIx, listing, existing, ix, transcript, fetched, errors,
                   summaries, cause, kills>>

BronzeWriteConflict(r) ==
    /\ At(r, "archive")
    /\ raws[r] # <<>>
    /\ bronze[Archiving(r)] \notin {None, Stamp(r)}
    /\ Raise(r, "bronze")
    /\ UNCHANGED <<db, files, locals, summaries, kills>>

\* The runs that are between opening the temporary file of a key and renaming it.
Writing(k) == {q \in Runs : pc[q] \in {"write", "replace"} /\ Archiving(q) = k}

\* tmp.write_bytes opens the name: a new file, or the one there emptied,
BronzeOpen(r) ==
    LET k == Archiving(r)
    IN  /\ At(r, "put")
        /\ temp' = [temp EXCEPT ![k] =
                       IF \E q \in Writing(k) : file[q] = "temp" THEN Mixed ELSE Partial]
        /\ crossed' = IF Writing(k) = {} THEN crossed ELSE crossed \cup {k}
        /\ file' = [file EXCEPT ![r] = "temp"]
        /\ Goto(r, "write")
        /\ UNCHANGED <<db, txn, bronze, locals, summaries, cause, kills>>

\* What a file holds once run r has written its record to it.
Filled(r, content) == IF content = Partial THEN {Stamp(r)} ELSE {Stamp(r), Mixed}

\* writes the record, wherever the file has been moved to by then, and closes it.
BronzeFill(r) ==
    LET k == Archiving(r)
    IN  /\ At(r, "write")
        /\ \E content \in Filled(r, IF file[r] = "temp" THEN temp[k] ELSE bronze[k]) :
              /\ temp' = [temp EXCEPT ![k] = IF file[r] = "temp" THEN content ELSE @]
              /\ bronze' = [bronze EXCEPT ![k] = IF file[r] = "entry" THEN content ELSE @]
        /\ file' = [file EXCEPT ![r] = "closed"]
        /\ Goto(r, "replace")
        /\ UNCHANGED <<db, txn, crossed, locals, summaries, cause, kills>>

\* Who still writes to a file goes with it when it is renamed.
Moved(where) ==
    IF where = "temp" THEN "entry" ELSE IF where = "entry" THEN "replaced" ELSE where

\* tmp.replace(path) puts there what the temporary file holds, whether or not an entry
\* came in meanwhile,
BronzeReplace(r) ==
    LET k == Archiving(r)
    IN  /\ At(r, "replace")
        /\ temp[k] # None
        /\ bronze' = [bronze EXCEPT ![k] = temp[k]]
        /\ temp' = [temp EXCEPT ![k] = None]
        /\ file' = [q \in Runs |-> IF q \in Writing(k) THEN Moved(file[q]) ELSE file[q]]
        /\ raws' = [raws EXCEPT ![r] = Tail(@)]
        /\ Goto(r, "archive")
        /\ UNCHANGED <<db, txn, crossed, seedIx, listing, existing, ix, transcript, fetched,
                       errors, summaries, cause, kills>>

\* or raises FileNotFoundError, when another run has renamed it away.
BronzeReplaceRaises(r) ==
    /\ At(r, "replace")
    /\ temp[Archiving(r)] = None
    /\ Raise(r, "file")
    /\ UNCHANGED <<db, files, locals, summaries, kills>>

\* Variant: the document is committed before its transcript.
AfterDocument_Commit(r) == "commit"

AfterDocument(r) == IF transcript[r] = None THEN "commit" ELSE "transcript"

\* Variant: the row does not wait for the archive.
FlushDocument_First(r) ==
    /\ At(r, "archive")
    /\ Flush(r, DocumentRow(r), AfterDocument(r))

FlushDocument(r) ==
    /\ At(r, "archive")
    /\ raws[r] = <<>>
    /\ Flush(r, DocumentRow(r), AfterDocument(r))

DocumentRace(r) ==
    /\ At(r, "archive")
    /\ raws[r] = <<>>
    /\ IntegrityError(r, DocumentRow(r))

FlushTranscript(r) == At(r, "transcript") /\ Flush(r, TranscriptRow(r), "segments")

\* Segments are only added; the commit flushes them.
FlushSegments(r) ==
    /\ At(r, "segments")
    /\ <<Video(r), transcript[r][2]>> \notin Silent
    /\ Flush(r, SegmentRow(r), "commit")

\* A response without segments is a transcript all the same.
NoSegments(r) ==
    /\ At(r, "segments")
    /\ <<Video(r), transcript[r][2]>> \in Silent
    /\ Goto(r, "commit")
    /\ UNCHANGED <<store, locals, summaries, cause, kills>>

\* Variant: a committed video is not counted.
CommitVideo_Uncounted(r) ==
    /\ At(r, "commit")
    /\ Commit(r)
    /\ ix' = [ix EXCEPT ![r] = @ + 1]
    /\ Goto(r, "loop")
    /\ UNCHANGED <<files, seedIx, listing, existing, raws, transcript, fetched, errors,
                   summaries, cause, kills>>

CommitVideo(r) ==
    /\ At(r, "commit")
    /\ Commit(r)
    /\ fetched' = [fetched EXCEPT ![r] = @ + 1]
    /\ ix' = [ix EXCEPT ![r] = @ + 1]
    /\ Goto(r, "loop")
    /\ UNCHANGED <<files, seedIx, listing, existing, raws, transcript, errors,
                   summaries, cause, kills>>

-----------------------------------------------------------------------------
(* The end of ingest_source: the watermark row, then the summary.           *)

EndOfListing(r) ==
    /\ At(r, "loop")
    /\ ix[r] > Len(listing[r])
    /\ Goto(r, "touch")
    /\ UNCHANGED <<store, locals, summaries, cause, kills>>

\* INSERT ... ON CONFLICT DO UPDATE: waits like an insert, is never refused.
TouchIngestState(r) ==
    /\ At(r, "touch")
    /\ ~ Locked(r, StateRow(r))
    /\ txn' = [txn EXCEPT ![r] = @ \cup {StateRow(r)}]
    /\ Goto(r, "commitState")
    /\ UNCHANGED <<db, files, locals, summaries, cause, kills>>

Summary(r) == [source     |-> Source(r),
               discovered |-> Len(listing[r]),
               already    |-> Cardinality(existing[r]),
               fetched    |-> fetched[r],
               failed     |-> Len(errors[r]),
               cut        |-> ix[r] <= Len(listing[r])]

CommitState(r) ==
    /\ At(r, "commitState")
    /\ Commit(r)
    /\ summaries' = [summaries EXCEPT ![r] = Append(@, Summary(r))]
    /\ seedIx' = [seedIx EXCEPT ![r] = @ + 1]
    /\ Goto(r, "source")
    /\ UNCHANGED <<files, listing, existing, ix, raws, transcript, fetched, errors,
                   cause, kills>>

-----------------------------------------------------------------------------
\* The process dies, or the server drops its connection and the run with it: an
\* open transaction is rolled back, files stay as they are.
Kill(r) ==
    /\ kills < MaxKills
    /\ Active(r)
    /\ Goto(r, "killed")
    /\ txn' = [txn EXCEPT ![r] = {}]
    /\ file' = [file EXCEPT ![r] = "closed"]
    /\ kills' = kills + 1
    /\ UNCHANGED <<db, bronze, temp, crossed, locals, summaries, cause>>

Prepare(r) ==
    \/ SelectTenant(r) \/ InsertTenant(r) \/ TenantRace(r) \/ CommitTenant(r)
    \/ SelectSource(r) \/ InsertSource(r) \/ SourceRace(r) \/ CommitSource(r)
    \/ SeedRaises(r) \/ Discover(r) \/ DiscoverRaises(r) \/ QueryExisting(r) \/ Finish(r)

Fetch(r) ==
    \/ Skip(r) \/ StartFetch(r) \/ FetchReturns(r) \/ SourceError(r)
    \/ CreditBudgetExceeded(r) \/ FetchRaises(r)

Persist(r) ==
    \/ BronzeLookup(r) \/ BronzeWriteConflict(r) \/ BronzeOpen(r) \/ BronzeFill(r)
    \/ BronzeReplace(r) \/ BronzeReplaceRaises(r) \/ FlushDocument(r) \/ DocumentRace(r)
    \/ FlushTranscript(r) \/ FlushSegments(r) \/ NoSegments(r) \/ CommitVideo(r)

Close(r) == EndOfListing(r) \/ TouchIngestState(r) \/ CommitState(r)

Step(r) == Prepare(r) \/ Fetch(r) \/ Persist(r) \/ Close(r)

\* Every run has ended, or was never started.
Quiescent == \A r \in Runs : ~ Active(r)
Idle == Quiescent /\ UNCHANGED vars

Next == (\E r \in Runs : Begin(r) \/ Step(r) \/ Kill(r)) \/ Idle

Spec == Init /\ [][Next]_vars

\* A run's thread is scheduled and every call it makes returns: subprocesses and HTTP
\* requests have timeouts, a lock wait ends with the transaction that holds the row.
FairSpec == Spec /\ \A r \in Runs : WF_vars(Step(r))

\* The operator never has two runs at once.
OneAtATime == \A q, r \in Runs : Active(q) /\ Active(r) => q = r
SerialSpec == Init /\ [][Next /\ OneAtATime']_vars

-----------------------------------------------------------------------------
(* Properties.                                                              *)

Places == {"idle", "tenant", "insertTenant", "commitTenant", "source", "insertSource",
           "commitSource", "discover", "existing", "loop", "fetching", "archive", "put",
           "write", "replace", "transcript", "segments", "commit", "touch", "commitState"}
          \cup Terminal

Contents == Whole \cup {None, Partial, Mixed}

\* Every variable holds a value of its type.
TypeOK ==
    /\ db \subseteq Row
    /\ txn \in [Runs -> SUBSET Row]
    /\ bronze \in [BronzeKeys -> Contents]
    /\ temp \in [BronzeKeys -> Contents]
    /\ crossed \subseteq BronzeKeys
    /\ file \in [Runs -> {"closed", "temp", "entry", "replaced"}]
    /\ pc \in [Runs -> Places]
    /\ seedIx \in [Runs -> Nat \ {0}]
    /\ listing \in [Runs -> Seq(Videos)]
    /\ existing \in [Runs -> SUBSET Videos]
    /\ ix \in [Runs -> Nat \ {0}]
    /\ raws \in [Runs -> Seq(Raw)]
    /\ transcript \in [Runs -> (Providers \X Payloads) \cup {None}]
    /\ fetched \in [Runs -> Nat]
    /\ errors \in [Runs -> Seq(Videos)]
    /\ summaries \in [Runs -> Seq([source : Sources, discovered : Nat, already : Nat,
                                   fetched : Nat, failed : Nat, cut : BOOLEAN])]
    /\ cause \in [Runs -> {None, "seed", "adapter", "integrity", "bronze", "file"}]
    /\ kills \in 0..MaxKills

\* However runs overlap and die, the database never holds two rows for one tenant,
\* channel, video, transcript or watermark: what a run decided from a query that was
\* already out of date is caught at the flush (select-then-insert in
\* get_or_create_source, the `existing` snapshot of ingest_source).
UniqueRows == \A a, b \in db : Key(a) = Key(b) => a = b

SameDocument(a, b) == a.source = b.source /\ a.video = b.video /\ a.by = b.by

\* "Never a half-written document": a document is committed as enriched exactly when its
\* transcript is; with the transcript come its segments, unless the response it was made
\* from has none; and no transcript or segment is there without what it belongs to.
NoHalfDocument ==
    LET documents == InTable(db, "document")
        transcripts == InTable(db, "transcript")
        segments == InTable(db, "segment")
    IN  /\ \A d \in documents :
              d.value = "enriched" <=> \E t \in transcripts : SameDocument(d, t)
        /\ \A t \in transcripts :
              /\ \E d \in documents : SameDocument(d, t)
              /\ <<t.video, t.payload>> \notin Silent <=> \E g \in segments : SameDocument(t, g)
        /\ \A g \in segments :
              \E t \in transcripts : SameDocument(t, g) /\ t.payload = g.payload

\* The rebuild guarantee: the very response a committed transcript was made from has its
\* entry in the archive, put there before the commit by that run or an earlier one; and
\* the entry is whole, unless two runs had its temporary file in hand at once.
TranscriptsArchived ==
    \A t \in InTable(db, "transcript") :
        LET k == <<t.value, t.video, t.payload>>
        IN  bronze[k] # None /\ (k \in crossed \/ bronze[k] \in Whole)

InListing == {"loop", "fetching", "archive", "put", "write", "replace", "transcript",
              "segments", "commit", "touch", "commitState"}

\* No video is passed over in silence: behind its position in the listing, every
\* video a run discovered has a committed document or is in the run's error list (which
\* an adapter that keeps to the contract may fill, and the YouTube adapter never does),
\* whatever other runs do to the database meanwhile.
NothingPassedOver ==
    \A r \in Runs : pc[r] \in InListing =>
        \A i \in 1..ix[r] - 1 :
            \/ HasDocument(Source(r), listing[r][i])
            \/ \E j \in 1..Len(errors[r]) : errors[r][j] = listing[r][i]

\* A source's summary adds up: discovered = already ingested + fetched + failed,
\* except after a budget break, when the rest was not attempted.
SummariesAddUp ==
    \A r \in Runs : \A i \in 1..Len(summaries[r]) :
        LET m == summaries[r][i]
            attempted == m.already + m.fetched + m.failed
        IN IF m.cut THEN attempted < m.discovered ELSE attempted = m.discovered

\* What a run reports as fetched is what it left in the database: for a source that
\* is in its seeds once, the document rows the run inserted.
SummariesCountRows ==
    \A r \in Runs : \A i \in 1..Len(summaries[r]) :
        LET m == summaries[r][i]
        IN (\A j, k \in 1..Len(SeedsOf[r]) :
               SeedsOf[r][j] = m.source /\ SeedsOf[r][k] = m.source => j = k)
           => m.fetched = Cardinality({d \in InTable(db, "document") :
                                          d.source = m.source /\ d.by = r})

\* With one run at a time and none killed so far, a second call never trips over what the
\* first one left in the database or the archive ("Safe to call twice"): what ends a run
\* early is the adapter, or a seed row that is wrong by itself.
SafeToCallTwice ==
    kills = 0 => \A r \in Runs : cause[r] \in {None, "seed", "adapter"}

\* What a run committed is not changed or taken away by a later step of any run; the
\* watermark alone is updated in place.
CommittedStays ==
    [][\A row \in db : row.table # "ingest_state" => row \in db']_vars

\* A file of the archive is never replaced (one run at a time).
WriteOnce == [][\A k \in BronzeKeys : bronze[k] # None => bronze'[k] = bronze[k]]_vars

\* A run that was started ends, also when it waits for the rows of other runs.
RunsEnd == []<>Quiescent

\* key_for and write (bronze/store.py) call a re-fetch of identical upstream state a
\* no-op: no run is refused by the archive.
RefetchIsNoOp == \A r \in Runs : cause[r] # "bronze"
=============================================================================
