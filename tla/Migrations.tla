----------------------------- MODULE Migrations -----------------------------
(***************************************************************************)
(* The database schema under alembic (migrations/env.py and versions/):    *)
(* which tables, enum types and row-level security policies there are at   *)
(* each revision, and what upgrade and downgrade do to them.               *)
(*                                                                         *)
(* A command runs its migrations one after the other in one transaction.   *)
(* One that PostgreSQL refuses (a table that is missing, a type or policy  *)
(* that is there already) ends the command and rolls all of it back.       *)
(* Migration 0002 takes the tables it secures from models.py as it is when *)
(* the command runs, not as it was when the migration was written.         *)
(***************************************************************************)
EXTENDS Integers, FiniteSets

CONSTANTS
    Partitions,     \* partitions of chunk_embedding made for a model version
    MaxCommands,    \* bound: alembic commands
    NoCommand

VARIABLES
    db,         \* the committed schema
    work,       \* the schema inside the running command's transaction
    goal,       \* the revision the running command is to reach, or NoCommand
    commands,   \* commands so far
    failed,     \* history: [from, up] of the migrations that were refused
    bare        \* history: partitions made while the event trigger was not installed

migrateVars == <<db, work, goal, commands, failed, bare>>

Head == 7

\* What models.py marks TenantScoped today (rls.py, tenant_scoped_tables).
ScopedTables ==
    {"chunk", "credit_usage_event", "document", "document_summary", "entity",
     "entity_mention", "heartbeat", "ingest_state", "purge_log", "segment", "source",
     "speaker", "transcript_version", "utterance"}

\* What the first migration creates, in its order.
RegistryTables == {"tenant", "entity", "heartbeat", "purge_log", "source"}
DocumentTables == {"document", "ingest_state", "document_summary"}
TranscriptTables ==
    {"speaker", "transcript_version", "chunk", "segment", "utterance", "entity_mention"}

InitialTables == RegistryTables \cup DocumentTables \cup TranscriptTables

InitialTypes ==
    {"attribution_method", "authority_tier", "date_precision", "document_status",
     "entity_kind", "provenance_confidence", "source_kind", "source_status",
     "summary_method", "transcript_provider"}

Embedding == {"chunk_embedding", "chunk_embedding_default"}

ASSUME PartitionsAssumption ==
    Partitions \cap (InitialTables \cup ScopedTables \cup Embedding) = {}
ASSUME NoCommandAssumption == NoCommand \notin 0..Head

-----------------------------------------------------------------------------
(* Migrations: whether PostgreSQL accepts one, and the schema it makes.     *)

Result(ok, schema) == [ok |-> ok, db |-> schema]

CreateTables(d, tables) == [d EXCEPT !.tables = @ \cup tables]

\* Variant: the policies are kept apart from their tables.
DropTables_PoliciesStay(d, tables) == [d EXCEPT !.tables = @ \ tables]

\* A table's policy goes with it.
DropTables(d, tables) == [d EXCEPT !.tables = @ \ tables, !.secured = @ \ tables]

\* enable_rls_sql: ALTER TABLE needs the table, CREATE POLICY that it has none yet.
CanSecure(d, tables) == tables \subseteq d.tables /\ tables \cap d.secured = {}
Secure(d, tables) == [d EXCEPT !.secured = @ \cup tables]

InitialUp(d) ==
    Result(InitialTables \cap d.tables = {} /\ InitialTypes \cap d.types = {},
           [CreateTables(d, InitialTables) EXCEPT !.types = @ \cup InitialTypes])

InitialDown(d) ==
    Result(InitialTables \subseteq d.tables,
           [DropTables(d, InitialTables) EXCEPT !.types = @ \ InitialTypes])

Scoped == ScopedTables \cup {"chunk_embedding"}

RlsUp(d) ==
    LET made == CreateTables(d, Embedding)
    IN  Result(Embedding \cap d.tables = {} /\ CanSecure(made, Scoped), Secure(made, Scoped))

\* The policies are dropped from every scoped table; the partitions go with their parent.
RlsDown(d) ==
    Result(Scoped \subseteq d.tables,
           DropTables([d EXCEPT !.secured = @ \ Scoped], Embedding \cup Partitions))

\* 0003 secures the default partition, and no other that is there already.  CREATE EVENT
\* TRIGGER is refused when there is one of its name.
PartitionsUp(d) ==
    Result(CanSecure(d, {"chunk_embedding_default"}) /\ ~d.trigger,
           [Secure(d, {"chunk_embedding_default"}) EXCEPT !.trigger = TRUE])

\* Variant: the policy of the default partition stays too.
PartitionsDown_PolicyStays(d) ==
    Result("chunk_embedding_default" \in d.tables, [d EXCEPT !.trigger = FALSE])

\* The policies that the trigger has made stay.
PartitionsDown(d) ==
    Result("chunk_embedding_default" \in d.tables,
           [d EXCEPT !.secured = @ \ {"chunk_embedding_default"}, !.trigger = FALSE])

\* checkfirst: the type is created unless it is there.
DomainUp(d) == Result("source" \in d.tables, [d EXCEPT !.types = @ \cup {"domain"}])

\* Variant: the type is not dropped.
DomainDown_TypeStays(d) == Result("source" \in d.tables, d)

DomainDown(d) == Result("source" \in d.tables, [d EXCEPT !.types = @ \ {"domain"}])

\* Variant: the new table gets no policy.
CreditsUp_Bare(d) ==
    Result("credit_usage_event" \notin d.tables, CreateTables(d, {"credit_usage_event"}))

CreditsUp(d) ==
    Result("credit_usage_event" \notin d.tables,
           Secure(CreateTables(d, {"credit_usage_event"}), {"credit_usage_event"}))

CreditsDown(d) ==
    Result("credit_usage_event" \in d.tables, DropTables(d, {"credit_usage_event"}))

\* 0004 and 0006 change defaults and a constraint of tables that are there, and none of
\* what is modelled.  The unique constraint that 0006 adds finds no duplicates: rows of
\* ingest_state are written by _touch_ingest_state alone, and PostgreSQL refuses its ON
\* CONFLICT when there is no such constraint.
Alters(d, tables) == Result(tables \subseteq d.tables, d)

DefaultsAlter(d) == Alters(d, {"source", "document", "transcript_version", "speaker"})
IngestStateAlters(d) == Alters(d, {"ingest_state"})

Upgrade(d) ==
    CASE d.rev = 0 -> InitialUp(d)
      [] d.rev = 1 -> RlsUp(d)
      [] d.rev = 2 -> PartitionsUp(d)
      [] d.rev = 3 -> DefaultsAlter(d)
      [] d.rev = 4 -> DomainUp(d)
      [] d.rev = 5 -> IngestStateAlters(d)
      [] d.rev = 6 -> CreditsUp(d)

Downgrade(d) ==
    CASE d.rev = 1 -> InitialDown(d)
      [] d.rev = 2 -> RlsDown(d)
      [] d.rev = 3 -> PartitionsDown(d)
      [] d.rev = 4 -> DefaultsAlter(d)
      [] d.rev = 5 -> DomainDown(d)
      [] d.rev = 6 -> IngestStateAlters(d)
      [] d.rev = 7 -> CreditsDown(d)

-----------------------------------------------------------------------------
EmptySchema == [rev |-> 0, tables |-> {}, types |-> {}, secured |-> {}, trigger |-> FALSE]

\* A database that was migrated before models.py had CreditUsageEvent.
EarlierSchema ==
    [rev |-> 6, tables |-> InitialTables \cup Embedding, types |-> InitialTypes \cup {"domain"},
     secured |-> (InitialTables \ {"tenant"}) \cup Embedding, trigger |-> TRUE]

MigrateInit ==
    /\ db \in {EmptySchema, EarlierSchema}
    /\ work = EmptySchema
    /\ goal = NoCommand
    /\ commands = 0
    /\ failed = {}
    /\ bare = {}

\* alembic upgrade or downgrade, by any number of revisions.
Alembic ==
    /\ goal = NoCommand
    /\ commands < MaxCommands
    /\ goal' \in (0..Head) \ {db.rev}
    /\ work' = db
    /\ commands' = commands + 1
    /\ UNCHANGED <<db, failed, bare>>

Up == work.rev < goal
NextMigration == IF Up THEN Upgrade(work) ELSE Downgrade(work)

Migrate ==
    /\ goal # NoCommand
    /\ work.rev # goal
    /\ NextMigration.ok
    /\ work' = [NextMigration.db EXCEPT !.rev = IF Up THEN work.rev + 1 ELSE work.rev - 1]
    /\ UNCHANGED <<db, goal, commands, failed, bare>>

MigrationFails ==
    /\ goal # NoCommand
    /\ work.rev # goal
    /\ ~NextMigration.ok
    /\ failed' = failed \cup {[from |-> work.rev, up |-> Up]}
    /\ goal' = NoCommand
    /\ work' = EmptySchema
    /\ UNCHANGED <<db, commands, bare>>

CommitMigrations ==
    /\ goal # NoCommand
    /\ work.rev = goal
    /\ db' = work
    /\ bare' = bare \cap work.tables
    /\ goal' = NoCommand
    /\ work' = EmptySchema
    /\ UNCHANGED <<commands, failed>>

\* The running command has locked the default partition (0002 and 0003, in either
\* direction), and keeps the lock until it ends.
DefaultLocked == goal # NoCommand /\ work.rev # db.rev /\ (work.rev < 3 \/ db.rev < 3)

Attach(d, p) == IF d.trigger THEN Secure(CreateTables(d, {p}), {p}) ELSE CreateTables(d, {p})

\* CREATE TABLE p PARTITION OF chunk_embedding, for a new embedding model; the trigger
\* function corpus_secure_new_partitions runs with it.  It needs the lock of the default
\* partition, and a running command sees what it commits.
CreatePartition(p) ==
    /\ db.rev >= 2
    /\ ~DefaultLocked
    /\ p \notin db.tables
    /\ db' = Attach(db, p)
    /\ work' = IF goal = NoCommand THEN work ELSE Attach(work, p)
    /\ bare' = IF db.trigger THEN bare ELSE bare \cup {p}
    /\ UNCHANGED <<goal, commands, failed>>

MigrateNext ==
    \/ Alembic \/ Migrate \/ MigrationFails \/ CommitMigrations
    \/ \E p \in Partitions : CreatePartition(p)

Quiet == goal = NoCommand /\ commands = MaxCommands /\ UNCHANGED migrateVars

MigrateSpec == MigrateInit /\ [][MigrateNext \/ Quiet]_migrateVars

-----------------------------------------------------------------------------
(* Properties.                                                              *)

\* However often the schema was migrated up and down, its tables and enum types are those
\* of its revision: none is left behind and none is missing (the DROP TYPEs that
\* autogenerate does not emit, 388b2efa5820 and 0005).
SchemaIsRevision ==
    /\ db.tables \ Partitions =
          (IF db.rev >= 1 THEN InitialTables ELSE {}) \cup
          (IF db.rev >= 2 THEN Embedding ELSE {}) \cup
          (IF db.rev >= 7 THEN {"credit_usage_event"} ELSE {})
    /\ db.types =
          (IF db.rev >= 1 THEN InitialTypes ELSE {}) \cup
          (IF db.rev >= 5 THEN {"domain"} ELSE {})

\* From 0003 on, whatever commands came before, every table with a tenant_id has its
\* forced policy, the default partition included, and so has every partition that was made
\* while the event trigger was there.  One that was made before, between 0002 and 0003,
\* stays without a policy: 0003 does not look for it (it is in `bare`).
TablesSecured ==
    db.rev >= 3 => db.tables \ ({"tenant"} \cup bare) \subseteq db.secured

\* Only one migration can be refused, 0002, which wants to secure a table that 0007 makes:
\* the others work in both directions, any number of times.
OnlyRlsFails == \A f \in failed : f = [from |-> IF f.up THEN 1 ELSE 2, up |-> f.up]

\* An upgrade is never refused ("Without this, downgrade base leaves them behind and the
\* next upgrade head fails", 388b2efa5820).
UpgradeSucceeds == \A f \in failed : ~f.up
=============================================================================
