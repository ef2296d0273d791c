# research-corpus: a TLA+ model and proofs

This project models the parts of research-corpus that keep state: the ingestion of YouTube channels
into PostgreSQL and the bronze archive, with what surrounds it (the source adapter, the credit ledger,
the dashboard's runs and their event streams); the seed table, from the scripts that build it to the
requests and the folder watcher that add to it; and the database schema through its migrations, with
the tenant each session is bound to. TLC checks the models on small instances; TLAPS proves, for every
number of runs, channels, videos, providers, writers, threads, observers, connections and migrations,
every safety property the passing runs check. Paths below are relative to the repository; `corpus/`
stands for `src/corpus/`.

## 1. The system

| component | state it keeps | operations | talks to |
|---|---|---|---|
| runner, `corpus/ingest/runner.py` | tenant and source rows | `run_ingestion`, `resolve_tenant_id`, `get_or_create_source`, `build_adapter` | pipeline, database, adapter |
| pipeline, `corpus/ingest/pipelines.py` | document, transcript, segment and watermark rows; a run's counters | `ingest_source`, `_persist`, `_touch_ingest_state` | adapter, bronze store, database, event sink |
| bronze store, `corpus/bronze/store.py` | one file per key | `write` | file system |
| adapter, `corpus/sources/youtube/adapter.py` | nothing | `discover`, `fetch` with failover | yt-dlp, ytapi, Supadata |
| Supadata client, `.../supadata.py` | credits spent by this run | `fetch_transcript`, `CreditLedger.reserve`, `_get` with retries | HTTP, usage log |
| usage log, `corpus/ops/credit_usage.py` | `credit_usage_event` rows | `record_spend`, `summarize` | database, a session of its own |
| database, `corpus/db/models.py`, `session.py` | rows, unique constraints | transactions, rollback, pool of 5 + 10 connections | all of the above |
| dashboard runs, `corpus/web/runs.py` | runs, an event queue each | `start`, `_execute`, `stream` | runner, thread pool, browser |
| schema, `migrations/` | revision, tables, types, policies, event trigger | upgrade, downgrade, new partition | `models.py`, PostgreSQL |
| sessions, `corpus/db/session.py` | `app.tenant_id` of each pooled connection | `tenant_session`, commits inside it | pool, policies |
| survey and build scripts, `scripts/` | `channels/candidates.json`, `seeds/youtube_channels.yaml` | survey, merge, sort, write | Supadata, files |
| seed table, `corpus/web/seeds.py` | rows appended to that file | `resolve_input`, `append_seed` | yt-dlp, file |
| folder watcher, `corpus/web/watch.py` | observer and its thread, folder, remembered mtimes | `start`, `stop`, `_maybe_process`, `_process` | seed table, file system |
| command line and page, `flows/`, `web/src/` | a run; an open stream | start a run, open and close a stream | runner; HTTP API |

The packages chunking, embedding, enrich, retrieval, synthesis, analytics, eval, mcp and
sources/rss are empty in this commit.

**How they interact.** A run is one call of `run_ingestion`, in a process of its own (command
line) or in a thread (dashboard). For each seed row it takes or makes the source row, discovers the
channel's videos, asks once which of them have a document row, and fetches, archives and commits
the others one at a time. Nothing stops two runs from overlapping, on the same channel too. Events go
through a queue to the stream of the page that follows the run. The channels come from one YAML
file that the build script writes whole and that requests and observer threads append to, each
after a read of its own. A run's session borrows a connection from the pool for each transaction, a
second session does while a credit is recorded, and alembic changes the schema under all of them.

**What is hard.** Select-then-insert and the once-read `existing` set against overlapping runs; an
archive on disk that is no part of the transaction that commits its document; kills between the two;
two layers of error handling (the adapter's failover, the pipeline's `except` clauses) over one
exception hierarchy; one credit for several attempts, logged in another transaction; one temporary
file name for all writers of an archive key; a blocking queue read in a shared thread pool by streams
that can be abandoned; check-then-append on a file several threads and a script write; a `stop` that
reads the watcher's fields again in every statement, with its lock taken by only one of its two
callers; a setting that ends with the transaction in a session that has many; a migration that takes
its list of tables from today's models. `PROJECT.json` lists these and others, each at its line.

**What makes the parts correct.** Pipeline: rows unique, documents whole, transcripts archived first,
committed rows stay, no discovered video passed over, summaries that agree with the database, runs
that end, and a second call that trips over nothing the first one left. Bronze store: write-once and
whole. Adapter: a fetch ends, and costs one credit at most. Ledger: within its budget, every credit
logged before its request. Streams: the complete log in order to a run's only client, and an end. Seed
table: what the lists say, one row per channel, nothing appended lost. Watcher: what its status says
is what runs, dropped files are read. Schema: what its revision says, with a policy on every scoped
table. Sessions: no other tenant's rows, and no waiting for ever.

## 2. Modules

| module | models | with |
|---|---|---|
| `Ingest` | runner, pipeline, database and archive, over the adapter's contract | the core |
| `Corpus` | what ingestion promises: an archive whose entries are whole or, written by two runs at once, doubtful; documents published whole and once | abstract |
| `IngestCorpus` | the refinement mapping from `Ingest` to `Corpus` | EXTENDS `Ingest` |
| `YoutubeIngest` | `YouTubeAdapter`, yt-dlp, ytapi, Supadata with ledger and usage log, inside `Ingest` | EXTENDS `Ingest` |
| `Bronze` | `BronzeStore.write` at the level of files, for one key | |
| `WriteOnce` | what an archive entry promises | abstract |
| `RunStream` | `RunManager`, its queues, the streams and the thread pool | |
| `SeedBuild` | `verify_channels.py` and `build_channel_seeds.py` | |
| `SeedTable` | `append_seed` by requests and observer threads | EXTENDS `SeedBuild` |
| `FolderWatch` | the watcher: observers, handlers, `start` and `stop` | EXTENDS `SeedTable` |
| `Migrations` | the alembic chain and what PostgreSQL refuses of it | |
| `TenantSession` | sessions, pool, tenant binding and policies | EXTENDS `Migrations` |
| `IngestProofs` | theorems about `Ingest`: types, rows, positions | EXTENDS `Ingest`, TLAPS |
| `DocumentProofs` | theorems about `Ingest`: documents and the archive | EXTENDS `IngestProofs` |
| `SummaryProofs` | theorems about `Ingest`: summaries, the refinement of `Corpus`, runs one at a time | EXTENDS `DocumentProofs`, `IngestCorpus` |
| `YoutubeProofs` | theorems about `YoutubeIngest`: types, credits | EXTENDS `YoutubeIngest`, `SummaryProofs` |
| `BronzeProofs` | theorems about `Bronze`, and that it implements `WriteOnce` | EXTENDS `Bronze`, TLAPS |
| `FolderProofs` | theorems about `FolderWatch`, with the seed table under it | EXTENDS `FolderWatch`, TLAPS |
| `StreamProofs` | theorems about `RunStream` | EXTENDS `RunStream`, TLAPS |
| `TenantProofs` | theorems about `TenantSession`, with the migrations under it | EXTENDS `TenantSession`, TLAPS |
| `MCIngest`, `MCYoutube`, `MCBronze`, `MCRunStream`, `MCSeeds`, `MCTenants`, `MCMigrations` | instances for TLC | |

Operators whose name has a suffix after an underscore (`Commit_Insert`) are variants of the
definition before the underscore with a plausible bug put in; no specification uses them. They
record, for each property, a mistake in the code that the property tells apart.

### Ingest

A step is one call another run, or a kill, can come before: a query, a flush, a commit, a look-up in
the archive, the opening, filling or renaming of its temporary file, an adapter call. `db` holds
committed rows, `txn[r]` what run `r` has flushed; a commit moves the one into the other, `Raise` (the
`except` of `tenant_session`) and `Kill` drop it. `Flush` waits while another transaction holds the
unique key (`Locked`) and `IntegrityError` is what happens when that key turns out to be committed
(`Taken`): PostgreSQL's rules for the constraints of `models.py`. A row records which run inserted it,
in place of its surrogate id.

| code | actions |
|---|---|
| `resolve_tenant_id` | `SelectTenant`, `InsertTenant`, `TenantRace`, `CommitTenant` |
| `get_or_create_source`, commit, `cap_for` | `SelectSource`, `InsertSource`, `SourceRace`, `CommitSource`; `SeedRaises` |
| `ingest_source` before the loop | `Discover`, `DiscoverRaises`, `QueryExisting` |
| the loop | `Skip`, `StartFetch`, `FetchReturns`, `SourceError`, `CreditBudgetExceeded`, `FetchRaises` |
| `_persist`, commit | `BronzeLookup`, `BronzeWriteConflict`, `BronzeOpen`, `BronzeFill`, `BronzeReplace`, `BronzeReplaceRaises`, `FlushDocument`, `DocumentRace`, `FlushTranscript`, `FlushSegments` or `NoSegments`, `CommitVideo` |
| after the loop | `EndOfListing`, `TouchIngestState`, `CommitState` |
| end of the run | `Finish`; `Kill` |

Data are abstracted to what the properties tell apart: a video is an id, a payload a value, an
archived record the run and source that wrote it (`Stamp`), since `fetched_at` and the headers make
two fetches' records differ. A transcript's and a segment's row carry the payload they were made
from. `Payloads` has one member in the instances, the case where upstream has not changed between
two fetches, which is the one with conflicts; the theorems hold for any number. `Silent` names the
responses whose list of segments is empty: they are committed as enriched with no segment row.

The archive's write is not atomic. All writers of a key share one temporary name; `file[r]` is where
the file a run has open is by now (still the temporary one, renamed to the entry, or replaced there),
and a file holds a whole record (`Stamp`), is `Partial` (one writer has not filled it), or `Mixed`
(several have had it open since it was emptied, so that nothing is known of its bytes).
`BronzeReplaceRaises` is the `FileNotFoundError` of a run whose temporary file another has renamed
away; it ends the run. `crossed` is history: the keys whose temporary file two runs have had in hand
at once. `SeedRaises` is the `ValueError` of a row whose tier or domain is none, or whose cap is no
number; any row may be such a row. The loop's `failed`
counter is the length of `errors`. A limit of 0 means none, as `limit and cap` and `ids[:limit] if
limit` make it. `cut` in a summary is history: it marks a summary made after a budget break.
The database role is the one of `DATABASE_URL`, which bypasses row-level security.

### YoutubeIngest

One `fetch` of Ingest becomes the calls it consists of: metadata, the provider loop, ledger, usage
log, HTTP attempts. Until it returns or raises, no variable of Ingest moves; `Return` and `Escape`
are Ingest's `FetchReturns` and `FetchRaises` with the result the calls gave. So the composition is a
behaviour of Ingest by the way it is written (the lemma `ContractStep`), which claims nothing about the
code but lets the theorems of Ingest be used for it. With this adapter Ingest's `SourceError` and
`CreditBudgetExceeded` never happen: `_fetch_transcript` swallows every `SourceError`, so the two
handlers of `ingest_source` are unreachable and belong to the contract only. Usage rows and requests
are counted for each call of `fetch`, by its run, source and video (`Calls`).

### Bronze

`path` and `tmp` are the two names, each leading to a file or to none; `blocks` is what the files
hold. Opening a name makes or empties its file, a rename moves the file under whoever has it open,
writes go to the writer's own offset. `overlapped` is history: two calls have been in progress at
once.

### RunStream

A run's queue holds event numbers and `DONE`. A stream's `get` is a task: `pending` until a worker
is free, then in `getting` until the queue has an item. `Disconnect` cancels the generator; a task
that has started goes on and takes one more item, which is lost. `OpenUnknown` is the error envelope
for a run that does not exist. The page never reconnects (`onerror` closes the source).

### SeedBuild, SeedTable, FolderWatch

| code | actions |
|---|---|
| `verify_channels.py`, `main` | `VerifyChannels` |
| `build_channel_seeds.py`: `main`, `SeedBuilder.add`, `emit` | `StartBuild` (the turns of the loops over the lists, in order), `AddListing` or `BuildRaises`, `Emit` |
| `manual_add` | `Ask`, then the actions of `append_seed` |
| `resolve_input`, `append_seed`, `_append_row` | `Unresolvable`, `ResolveRaises`, `Duplicate`, `Load`, `AppendRow` |
| somebody saves a file in the folder | `WriteFile` |
| `_maybe_process`, `_process`, end of the observer's thread | `TakeEvent`, `ReadFile`, `EndThread` |
| `POST /api/watch`, `FolderWatcher.start` | `CallStart`, `Launch` or `LaunchFails`, `AssignObserver`, `AssignPath` |
| `DELETE /api/watch`, `FolderWatcher.stop` (called by `start` too) | `CallStop`; `Halt`, `Join`, `Joined`, `ClearObserver`, `ClearPath`, one per access to the fields |

A listing is one turn of the script's loops: the row its call of `add` would make, and whether the
call is made (`kept`) or the turn is a `continue`; `_norm` is the constant `Norm`, which lets two
spellings be one key. The survey's row has the handle Supadata answers with, any of `Answers` for the
handle asked for: another spelling, another channel's, or null (`NoHandle`), of which `_norm` raises
and ends the script (`BuildRaises`). `key` of a row is the lower-cased handle `append_seed` compares.
`known` is what a thread has read, as the length of the table: it has no use in `AppendRow`, which
appends to whatever the file is by then, and is what a write-back of the read list would need.
`Serving` is the table being there; before that every read of it raises. One file, in one of the
folders, stands for all: handlers keep an mtime per path. Two writes may fall within one tick of the
clock. History: `added`, `overlapped`, `crossed`, `owed`; they record what a property is about and
guard nothing.

### Migrations, TenantSession

A schema is `[rev, tables, types, secured, trigger]`. `Upgrade` and `Downgrade` give each revision's
migration: what it needs to be accepted, and the schema it makes. A command is `Alembic`, `Migrate`
for every revision in between on the copy `work`, then `CommitMigrations` or `MigrationFails`, since
`env.py` runs a command in one transaction. `CreatePartition` is the DDL for a new embedding model;
with the event trigger of 0003 the partition is secured as it is made, without it its name goes into
the history variable `bare`. Attaching a partition locks the default one, so it waits for a running
command that has touched that table (`DefaultLocked`) and for no other. 0003 is refused when the event
trigger is there already; the unique constraint of 0006 finds no duplicates, since the only writer of
`ingest_state` is an ON CONFLICT statement that PostgreSQL refuses when the constraint is missing. The
first schema is empty, or the one of a database that was migrated when `models.py` had no
`CreditUsageEvent`.

`conn[t]` and `second[t]` are the connections of a thread's session and of the one inside `on_spend`
(sets of at most one), `bound[c]` the `app.tenant_id` of a connection as a policy reads it. `Enter`
and `EnterSecond` set it, every end of a transaction unsets it, `Autobegin` begins the next
transaction without one: that is the code, where a run's later statements match no tenant under a
role the policies apply to. `InsertRefused` is the policy's (or a missing table's) refusal. The runs
of this commit connect with the role of `DATABASE_URL`, which bypasses row-level security; this
module is what happens under `corpus_app` and `corpus_ingest`.

## 3. Runs

| run | instance | shows |
|---|---|---|
| `ingest_concurrent` | 2 runs, 1 channel, 2 videos, the second without segments, 1 kill | `UniqueRows`, `NoHalfDocument`, `TranscriptsArchived`, `NothingPassedOver`, `SummariesAddUp`, `SummariesCountRows`, `CommittedStays`, and that Ingest implements `Corpus` |
| `ingest_serial` | 2 runs one at a time, 2 channels of 3 and 1 videos, limit 1, cap 2, 1 kill | a later run is refused neither by the database nor by the archive unless an earlier one was killed (`SafeToCallTwice`); no file is replaced (`WriteOnce`) |
| `ingest_refetch` | 2 runs one at a time, 1 kill | **violated**: `RefetchIsNoOp` |
| `youtube_concurrent` | 2 runs, 1 video, 1 credit, 2 attempts, 1 kill, fair | `LoggedBeforeSent`, `ChargesBuyDocuments`, and that runs end, lock waits and the real adapter included (`RunsEnd`) |
| `youtube_single` | 1 run, 2 videos, 1 credit, 3 attempts, 1 kill, fair | `LedgerCoversUsage`, `FetchesEnd` |
| `youtube_stops_at_budget` | 1 run, 2 videos, no credit | **violated**: `StopsAtBudget` |
| `bronze_writers` | 3 calls (two payload marks, lengths 3 and 2), 2 kills | `ReturnMeansStored`, `WriteOnceInTurn` (calls one after the other), `SomeWriterReturns` (overlapping) |
| `bronze_torn` | the same, no kill | **violated**: `NeverHalfWritten` |
| `streams` | 2 runs of 2 events, 3 streams, 1 worker, fair | `NothingLost`, `CompleteIsFinal`, `LogIsSplit`, `StreamsEnd` |
| `seed_watch` | lists that overlap in three ways, 1 build, then 1 request, 2 observers, 1 folder, 2 writes, 2 POSTs, 1 DELETE | `RowsMatchListings`, `AwsStaysDeferred`, `NoAddLost`, `UniqueInTurn`, `StatusTrue`, `DropsAreRead` |
| `tenants` | 2 sessions of 2 tenants, 2 connections, 2 statements each, 2 commands, 1 partition, fair | `SchemaIsRevision`, `TablesSecured`, `OnlyRlsFails`, `OwnRowsOnly`, `SessionsEnd` |
| `fresh_upgrade` | 3 commands, 1 partition | **violated**: `UpgradeSucceeds` |

**Bounds.** Two runs are enough for every conflict the code can have: each is between a row or file
one run has and one another is about to make. Two videos give a run something behind its position
and something ahead, and a second conflict after the first. One channel is where runs collide; two
channels in opposite orders are in `ingest_serial`. The catalogue may lack its newest videos at
discovery, so two runs may see different listings. One kill per behaviour reaches every crash point
of either run; a second one adds nothing the first did not leave behind. In Bronze a record of
three blocks and one of two make torn mixtures and leftover tails visible. One credit puts the
ledger at its limit. A pool of one worker is the pool exhausted by a single stream. In `seed_watch` the
listings have a channel in two lists in two spellings, one whose first list has no count, one that is
excluded, and AWS in the survey, which Supadata answers with another spelling, another channel's handle,
or null; the request and the file name the same new channel, so that request
and observers meet; two POSTs make the second replace the first's observer, and the DELETE may cross
either. One build means that a rebuild beside the dashboard is covered by the theorems alone, which
have no bound on builds. In `tenants` two connections for two sessions that may each want two is the
smallest pool they can exhaust, and two commands are a way down and up again. The bounds are
`MaxKills`, `MaxEvents`, `MaxBuilds`, `MaxWrites`, `MaxStarts`, `MaxStops`, `MaxCommands`,
`MaxStatements` and the sets of actors; no state constraint is used.

**Deadlock** is checked in every run: `Idle` lets a behaviour stop only when every run or call has
ended (in RunStream when every thread has and no stream has an item in hand; in FolderWatch when no
call and no file is in progress; in TenantSession when no command runs and every session is over).

**Fairness.** `FairSpec` of Ingest: weak fairness of each run's steps. A run is a thread, its
subprocesses have a process timeout and its HTTP calls read timeouts, so each call returns; waiting
for a row lock ends with the other transaction, and no two runs wait for each other, since the
tenant, the source, a video's document and the watermark are each the first key of a transaction: who
waits for one holds nothing yet, and who holds a document's key is alone at its transcript and segments.
The instance of `RunsEnd` has the waits and kills, and one such key at a time. `YoutubeFairSpec`: the same for the steps of a run with those inside a fetch. `FairSpec` of TenantSession: weak fairness
of each thread's steps; a statement returns, and the pool's `TimeoutError` after 30 seconds is a step
of the thread that waits, which is why sessions that hold every connection and each want one more come
to an end. Nothing is assumed of alembic. `FairSpec` of RunStream: weak fairness of the run's thread
(a run ends, by `RunsEnd`), of the pool's workers and of sending. No fairness is assumed of starts,
opens, disconnections and kills.

**`RefetchIsNoOp`.** The key of an archive entry is a hash of provider, endpoint, id and payload,
but `write` compares the whole record, with `fetched_at` and the headers. A run that is killed, or
that raises, after archiving a response and before committing the document leaves an entry that no
later fetch of the same payload can match: the next run raises `BronzeWriteConflict`, which nothing
catches, at that video and at every later try, until the payload changes upstream or the file is
removed. `store.py:48-50` and `66-67` promise a no-op.

**`StopsAtBudget`.** `CreditBudgetExceeded` is a `SourceError`, so the last handler of
`_fetch_transcript` turns it into `provider-error`; `ingest_source` never sees it, goes on to every
remaining video, and commits each as a failed document, which later runs skip
(`pipelines.py:152-153` says the run stops).

**`NeverHalfWritten`.** Writers of one key share the `.json.tmp`; one may rename it while another
has truncated and half refilled it, and then writes on into what is now the entry. Only overlapping
runs that fetch one video with the same payload meet this. One call after the other is safe, killed
writers included (`WriteOnceInTurn`).

**`UpgradeSucceeds`.** Migration 0002 secures `tenant_scoped_tables()`, which are the tables of
`models.py` as it is now; `credit_usage_event` is among them and is created by 0007. On an empty
database `alembic upgrade head` is refused at `0002_rls_and_embeddings.py:52` and rolled back whole. A
database that is past 0002 is refused the way down by the same list of tables, so it never meets the
upgrade again. `OnlyRlsFails` is the other
half: every other migration works in both directions from whatever the commands before it left.

## 4. Proofs

Every theorem holds for every value of the constants that meets the named assumptions of the modules.
For `Ingest`: seed sequences, limits and catalogues of the right type, no video twice in a catalogue,
`None` outside the other sets, `Partial` and `Mixed` no records, `Videos` finite; `Silent`, `Payloads`
and `Providers` are any sets. For `YoutubeIngest`: `ProviderOrder` names providers of the two there
are, none twice (`build_adapter` passes one fixed order), `Budget` is a number, `MaxAttempts` at least
1. For `Bronze`: there is a writer, records have a positive length, equal bytes have equal lengths,
`None` is no record. For `RunStream`: every stream is of a run, there is a worker at least, and a
run's events are bounded by a number. For `SeedBuild`: the lists are sequences of records whose
handles `Norm` knows, as are the answers to the survey, and null is its own key. For `FolderWatch`:
requests are no observers, lists are non-empty sequences of channels. For `TenantSession`: partitions
have names of their own, a thread's tenant is one of the tenants, `Unset` is none.

One theorem has a hypothesis of its own. `CallingTwiceIsSafe` is about catalogues that share no video
(`OneChannelEach`), as a video of YouTube is of one channel. Without it the statement is false: the
key of an archive entry does not name the channel, so the second channel's fetch of a video that both
list raises `BronzeWriteConflict`; TLC finds that in an instance with such a video and no kill.

| theorem | statement | invariant it rests on |
|---|---|---|
| `IngestProofs!TypeCorrect` | `Spec => []TypeOK` | `Typed`: `TypeOK` with `InRange`, the positions that make `Source(r)` and `Video(r)` defined (a run beyond "source" has a seed in progress, one inside a fetch has a video) |
| `RowsUnique` | `Spec => []UniqueRows` | `RowRules`: the rows of a transaction are the run's own and of the table its place says (`OwnRows`); keys within a transaction and between transactions differ, and no flushed key but a watermark's is committed (`KeyRules`). The last part is why a commit cannot clash: the key has been held since the flush |
| `CommittedRowsStay` | `Spec => CommittedStays` | `RowRules`: a commit only replaces rows with keys it holds, and those are watermarks |
| `NoVideoPassedOver` | `Spec => []NothingPassedOver` | `Cover`, over `Typed` and `RowRules`: what `existing` holds is committed, and stays so (`CommittedRowsStay`); the video at "commit" is the one whose document the transaction holds |
| `DocumentsWhole` | `Spec => []NoHalfDocument` | `RowRules`: a transaction with a document in it holds all the document's rows when it commits (its segments, unless the response is in `Silent`), and nothing of its key is committed before |
| `ResponsesArchived` | `Spec => []TranscriptsArchived` | `Archived`: from the fetch on, the response of the transcript in hand is in the archive or still on the list to archive, and that list is empty at the flush; no step removes a file (`Grows`). `Entries`: unless its key is crossed, an entry is whole, a key has one writer, and the temporary file is what that writer has made of it (`SoundEntry`) |
| `SummaryTotals` | `Spec => []SummariesAddUp` | `Tally`: at position `ix`, fetched, failed and already ingested make `ix - 1`; `existing` is part of the listing, and a listing names no video twice (`DistinctListings`), so that counting ids is counting positions |
| `SummaryCounts` | `Spec => []SummariesCountRows` | `Counts`: the `fetched` counter is the number of this run's document rows of the source, of which a source not reached yet has none; a commit adds one and no other run's step changes it |
| `IngestionImplementsCorpus` | `Spec => ImplementsCorpus` | step simulation (`CorpusStep`), from `RowRules`, `NoHalfDocument`, `Archived` and `Entries`: `CommitVideo` is the publication of one whole document with an archived response, `BronzeReplace` an archiving or, of a crossed key, a doubt; opening a temporary file that another run has in hand, or writing into an entry, is a doubt or nothing; everything else a stutter |
| `ArchiveWrittenOnce` | `SerialSpec => WriteOnce` | `Foreseen`: while one run is under way, what its queries and look-ups saw is still so when it uses it: no key it is about to flush is taken, the file it is about to put is not there. Kills included |
| `CallingTwiceIsSafe` | `OneChannelEach` gives `SerialSpec => []SafeToCallTwice` | `NothingLeft`: until the first kill every file of the archive is of a committed document or of the video in hand, and no run has ended on the database or the archive; with `Listed` (a listing is of its source's catalogue) and `Foreseen` |
| `AdapterTypes` | `YoutubeSpec => []AdapterTypeOK` | itself |
| `RequestsAreLogged`, `LedgerCovers`, `ChargesBuy` | `YoutubeSpec => []LoggedBeforeSent`, `[]LedgerCoversUsage`, `[]ChargesBuyDocuments` | `CreditRules`: a request in flight has its usage row (`CallRules`); a call is charged once at most, and its document is committed or in hand unless the run broke off (`CallsPaid`); the ledger is the number of charged calls, one more between reserve and log (`Ledgers`) |
| `FilesTyped` | `Spec => []TypeOK` of `Bronze` | `Typed`: who writes has a file open (`OpenFiles`) |
| `OneReturns` | `Spec => []SomeWriterReturns` | `Replaced`: an entry that is there was stored by a writer that returned, and a writer before its rename finds the temporary file or the entry |
| `ReturnsStored`, `EntryWrittenOnce` | `Spec => []ReturnMeansStored`, `Spec => WriteOnceInTurn` | `Turns`: until calls overlap one writer at most is active (`Alone`), the entry is a whole record (`Whole`), and the temporary file holds what the writer at it has written so far, whatever a killed one left (`PlaceOf`) |
| `RowsStayUnique`, `AddedRowsStay` | `WatchSpec => []UniqueInTurn`, `[]NoAddLost` | `TableRules`: rows of the running script and of the table have different keys until calls overlap; while none has, the channel of a thread between read and append is not in the table, and no other thread is at it (`AppendsApart`) |
| `FolderProofs!TypeCorrect` | `WatchSpec => []TypeOK` | `Typed`: what an adder is to add is not empty where it is used; an observer is at its own places, a request at its own |
| `DropsRead` | `WatchSpec => []DropsAreRead` | `ReadRules`: an observer that owes a read (`Owes`) has the event pending with a new mtime, or is at the file |
| `StatusIsTrue` | `WatchSpec => []StatusTrue` | `StatusRules`: without a crossing at most one caller is active, and which observer may run is known at each of its statements (`InTurn`) |
| `RowsAreListings` | `WatchSpec => []RowsMatchListings` | `RowRules` of `FolderProofs`: a row is what the turns so far made of it (`Matches`), and every channel called for has one; with `BuildTyped` and the rows' different keys. The lemmas `FirstCall`, `LaterCall` and `OtherTurn` are the three things a turn can mean to a row |
| `AwsIsDeferred` | `WatchSpec => []AwsStaysDeferred` | `AwsRules`: a table there is lists AWS, so no thread can come to append it; a build's row of its own handle is of the first listing, which is the deferred one (`Matches` again), whatever the survey was answered |
| `SchemaFollows`, `PoliciesHold`, `OnlyRlsIsRefused` | `Spec => []SchemaIsRevision`, `[]TablesSecured`, `[]OnlyRlsFails` | `SchemaRules`: the committed schema and the one in the running command are those of their revision (`IsAt`), with the partitions' policies; one lemma per migration and direction |
| `OwnRowsAreSeen`, `TenantProofs!TypeCorrect` | `Spec => []OwnRowsOnly`, `[]TypeOK` | `SessionRules`: a connection is of one session, is bound to the thread's tenant exactly in the first transaction, and to none when it is free; with `SchemaRules` |
| `StreamProofs!TypeCorrect` | `Spec => []TypeOK` | `Typed`: a stream has one task at most, and one in the pool's queue only while it waits (`PoolRules`); it holds an item exactly while it sends (`StreamRule`); a thread that is over has an outcome (`Threads`) |
| `CompleteComesLast`, `LogSplits` | `Spec => []CompleteIsFinal`, `[]LogIsSplit` | `Ordered`: ranked by number, with run_complete last, every item a client has comes before all that are queued, the queue and each client's items are in order, and no two clients of a run have one in common (`Apart`) |
| `NothingIsLost` | `Spec => []NothingLost` | `Kept`: with it, the queue of a run that nobody has opened a stream of is all of its log, which is what the first stream starts from |

Each proof has one step per action or group of actions and, under it, one per conjunct the action
disturbs; steps that leave the variables of a conjunct alone share one lemma. What stays with TLC:
liveness under fairness (`RunsEnd`, `FetchesEnd`, `StreamsEnd`, `SessionsEnd`), which the prover
cannot do, and the four violations. Every other property of the runs is proved.

## 5. Not modelled

Which caption track is chosen, segment times and document fields (data no property tells apart);
`summarize` and the read-only endpoints; Supadata's unused endpoints; the rate limiter, which only
delays; rendering in the page. Of the schema: columns, indexes, roles and grants. Of the scripts:
`resolve_channels_ytdlp.py`, whose output no code reads; a crash inside `write_text` (`Emit` is one
step); the domain and tier a dashboard row is later edited to, by hand. Of the seed table:
`load_seeds` and `cap_for`, which are the constants `SeedsOf` and `CapOf` of `Ingest`, and a channel
without a handle, which gets its id as one. A file moved into the watched folder makes an event the
handler has no method for, so it is not read; `WriteFile` is a file made or saved there.

What the code and its texts disagree about, and no run is made of:

- `seeds/README.md:28-36` and `runner.py:41` speak of capped rows; no row of the table has a cap.
- `flows/ingest_youtube.py:2` says "in phase order"; the runner takes the file's order, in which the
  domain comes first.
- `seeds/README.md:20-21` says that phase `research-p3-deferred` (AWS) is never ingested by channel;
  `load_seeds` without a phase returns its row with the others, so a run without a phase ingests it. And
  the exclusion is by handle: were the survey's AWS answered with another handle, the channel would get
  a second row, in phase `research-p2`. `AwsStaysDeferred` is about the label of the one row only.
- `docs/DECISIONS.md:198` says "Explicit RLS on every partition of `chunk_embedding`", and
  `tests/integration/test_rls.py:160` expects it "including new partitions". 0003 secures the default
  partition and those made after it; one that was made between 0002 and 0003 stays without a policy
  (`bare`), whatever is migrated later.
- `build_channel_seeds.py:143` says duplicates of `SUB_DEDUPE` are recorded as `also_verified_in`;
  the code skips them, and the entries with capitals match no normalised handle.
- `watch.py:11-12` says a bad file is reported instead of crashing the watcher; a `UnicodeDecodeError`
  or yt-dlp's `TimeoutExpired` ends the observer's thread (`ReadFile`, `ResolveRaises`), and the
  status goes on naming the folder.
- A document committed as failed is skipped by every later run, since `existing` asks for a row of any
  status; `tests/unit/test_adapter_failover.py:142-143` expects that the transcript "can be retried
  later", and nothing in the repository does.

## 6. Plan

Done so far: the core with its adapter and refinement, bronze at the level of files, streams; the seed
table with its scripts and watcher; the migrations and the sessions; the theorems of section 4. Left:

1. The credit log across runs, composed with `YoutubeIngest` and the calendar month `summarize` uses.
2. Theorems beyond the properties of the runs: that the entries of `Ingest`'s archive are those of
   `Bronze` while calls do not overlap, and a measure that every step of a run lowers, which
   is the part of `RunsEnd` that needs neither fairness nor `ENABLED`.
3. `seed_watch` with two folders and a build beside the dashboard, at the cost of its running time.
