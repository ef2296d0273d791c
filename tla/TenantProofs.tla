---------------------------- MODULE TenantProofs ----------------------------
(***************************************************************************)
(* Theorems about the schema and the sessions, for any number of commands, *)
(* partitions, threads, tenants and connections.                           *)
(***************************************************************************)
EXTENDS TenantSession, TLAPS

USE PartitionsAssumption, NoCommandAssumption, TenantOfAssumption, UnsetAssumption,
    MaxStatementsAssumption

-----------------------------------------------------------------------------
(* The schema at a revision.  Its tables, types and policies are sets of    *)
(* names of which only this matters.                                        *)

Default == "chunk_embedding_default"
Credits == "credit_usage_event"

AllTables == InitialTables \cup ScopedTables \cup Embedding \cup Partitions

TablesAt(rev) ==
    (IF rev >= 1 THEN InitialTables ELSE {}) \cup
    (IF rev >= 2 THEN Embedding ELSE {}) \cup
    (IF rev >= 7 THEN {Credits} ELSE {})

TypesAt(rev) ==
    (IF rev >= 1 THEN InitialTypes ELSE {}) \cup
    (IF rev >= 5 THEN {"domain"} ELSE {})

LEMMA Names ==
    /\ Default \in Embedding /\ Default # Credits /\ Default # "tenant"
    /\ Credits \in ScopedTables
    /\ Credits \notin InitialTables /\ Credits \notin Embedding /\ Credits \notin Partitions
    /\ Credits # "tenant"
    /\ InitialTables \cap Embedding = {}
    /\ InitialTables \cap Partitions = {} /\ Embedding \cap Partitions = {}
    /\ "domain" \notin InitialTypes
    /\ {"source", "document", "transcript_version", "speaker", "ingest_state"} \subseteq InitialTables
<1>1. Credits \in ScopedTables
  BY DEF Credits, ScopedTables
<1>2. Default \in Embedding
  BY DEF Default, Embedding
<1>3. /\ Credits \notin InitialTables
      /\ {"source", "document", "transcript_version", "speaker", "ingest_state"} \subseteq InitialTables
  BY DEF Credits, InitialTables, RegistryTables, DocumentTables, TranscriptTables
<1>4. InitialTables \cap Embedding = {}
  BY DEF Embedding, InitialTables, RegistryTables, DocumentTables, TranscriptTables
<1>5. Credits \notin Embedding /\ Default # Credits /\ Credits # "tenant" /\ Default # "tenant"
  BY DEF Credits, Default, Embedding
<1>6. "domain" \notin InitialTypes
  BY DEF InitialTypes
<1> QED
  BY <1>1, <1>2, <1>3, <1>4, <1>5, <1>6

SchemaRecords ==
    [rev : 0..Head, tables : SUBSET AllTables, types : SUBSET (InitialTypes \cup {"domain"}),
     secured : SUBSET AllTables, trigger : BOOLEAN]

\* What a schema is at a revision, when the partitions in b were made without a trigger.
IsAt(d, b, rev) ==
    /\ d \in SchemaRecords
    /\ d.secured \subseteq d.tables
    /\ d.trigger <=> rev >= 3
    /\ d.tables \ Partitions = TablesAt(rev)
    /\ d.types = TypesAt(rev)
    /\ rev >= 2 => d.tables \ ({"tenant", Default} \cup b) \subseteq d.secured
    /\ Default \in d.secured <=> rev >= 3

Schema(d, b) == IsAt(d, b, d.rev)

LEMMA SetRevision ==
    ASSUME NEW d, NEW b, NEW rev \in 0..Head, IsAt(d, b, rev)
    PROVE  Schema([d EXCEPT !.rev = rev], b)
<1> DEFINE e == [d EXCEPT !.rev = rev]
<1>1. /\ e \in SchemaRecords
      /\ e.rev = rev /\ e.tables = d.tables /\ e.types = d.types
      /\ e.secured = d.secured /\ e.trigger = d.trigger
  BY DEF IsAt, SchemaRecords
<1> HIDE DEF e
<1>2. Schema(e, b)
  BY <1>1 DEF Schema, IsAt
<1> QED
  BY <1>2 DEF e

\* Writing the types changes nothing else.
LEMMA SetTypes ==
    ASSUME NEW d \in SchemaRecords, NEW types \in SUBSET (InitialTypes \cup {"domain"})
    PROVE  /\ [d EXCEPT !.types = types] \in SchemaRecords
           /\ [d EXCEPT !.types = types].types = types
           /\ [d EXCEPT !.types = types].tables = d.tables
           /\ [d EXCEPT !.types = types].secured = d.secured
           /\ [d EXCEPT !.types = types].trigger = d.trigger
BY DEF SchemaRecords

\* The operators migrations are made of.
LEMMA SchemaOperators ==
    ASSUME NEW d \in SchemaRecords, NEW tables \in SUBSET AllTables
    PROVE  /\ CreateTables(d, tables) \in SchemaRecords
           /\ CreateTables(d, tables).tables = d.tables \cup tables
           /\ CreateTables(d, tables).types = d.types
           /\ CreateTables(d, tables).secured = d.secured
           /\ CreateTables(d, tables).trigger = d.trigger
           /\ CreateTables(d, tables).rev = d.rev
           /\ DropTables(d, tables) \in SchemaRecords
           /\ DropTables(d, tables).tables = d.tables \ tables
           /\ DropTables(d, tables).types = d.types
           /\ DropTables(d, tables).secured = d.secured \ tables
           /\ DropTables(d, tables).trigger = d.trigger
           /\ DropTables(d, tables).rev = d.rev
           /\ Secure(d, tables) \in SchemaRecords
           /\ Secure(d, tables).tables = d.tables
           /\ Secure(d, tables).types = d.types
           /\ Secure(d, tables).secured = d.secured \cup tables
           /\ Secure(d, tables).trigger = d.trigger
           /\ Secure(d, tables).rev = d.rev
<1>1. /\ d.tables \cup tables \in SUBSET AllTables
      /\ d.tables \ tables \in SUBSET AllTables
      /\ d.secured \cup tables \in SUBSET AllTables
      /\ d.secured \ tables \in SUBSET AllTables
  BY DEF SchemaRecords
<1>2. CreateTables(d, tables) \in SchemaRecords
  BY <1>1 DEF CreateTables, SchemaRecords
<1>3. DropTables(d, tables) \in SchemaRecords
  BY <1>1 DEF DropTables, SchemaRecords
<1>4. Secure(d, tables) \in SchemaRecords
  BY <1>1 DEF Secure, SchemaRecords
<1> QED
  BY <1>2, <1>3, <1>4 DEF CreateTables, DropTables, Secure, SchemaRecords

-----------------------------------------------------------------------------
(* Migrations.                                                              *)

LEMMA Revision ==
    ASSUME NEW d, NEW b, Schema(d, b)
    PROVE  d \in SchemaRecords /\ d.rev \in 0..7
BY DEF Schema, IsAt, SchemaRecords, Head

LEMMA InitialMoves ==
    ASSUME NEW d, NEW b, Schema(d, b)
    PROVE  /\ d.rev = 0 => InitialUp(d).ok /\ IsAt(InitialUp(d).db, b, 1)
           /\ d.rev = 1 => InitialDown(d).ok /\ IsAt(InitialDown(d).db, b, 0)
<1>1. d \in SchemaRecords /\ InitialTables \in SUBSET AllTables
  BY Revision DEF AllTables
<1>2. CASE d.rev = 0
  <2> DEFINE c == CreateTables(d, InitialTables)
             e == [c EXCEPT !.types = @ \cup InitialTypes]
  <2>1. /\ d.tables \ Partitions = {} /\ d.types = {} /\ d.secured \subseteq d.tables
        /\ ~d.trigger /\ Default \notin d.secured
    BY <1>2 DEF Schema, IsAt, TablesAt, TypesAt
  <2>2. InitialUp(d).ok /\ InitialUp(d).db = e
    BY <2>1, Names DEF InitialUp, Result
  <2>3. /\ c \in SchemaRecords
        /\ c.tables = d.tables \cup InitialTables /\ c.secured = d.secured
        /\ c.types = {} /\ c.trigger = d.trigger
    BY <1>1, <2>1, SchemaOperators
  <2> HIDE DEF c
  <2>4. c.types \cup InitialTypes = InitialTypes
    BY <2>3
  <2>5. /\ e \in SchemaRecords
        /\ e.tables = d.tables \cup InitialTables /\ e.secured = d.secured
        /\ e.types = InitialTypes /\ e.trigger = d.trigger
    BY <2>3, <2>4, SetTypes
  <2> HIDE DEF e
  <2>6. e.tables \ Partitions = TablesAt(1) /\ e.types = TypesAt(1)
    BY <2>1, <2>5, Names DEF TablesAt, TypesAt
  <2>7. IsAt(e, b, 1)
    BY <2>1, <2>5, <2>6 DEF IsAt
  <2> QED
    BY <1>2, <2>2, <2>7
<1>3. CASE d.rev = 1
  <2> DEFINE c == DropTables(d, InitialTables)
             e == [c EXCEPT !.types = @ \ InitialTypes]
  <2>1. /\ d.tables \ Partitions = InitialTables /\ d.types = InitialTypes
        /\ d.secured \subseteq d.tables /\ ~d.trigger /\ Default \notin d.secured
    BY <1>3 DEF Schema, IsAt, TablesAt, TypesAt
  <2>2. InitialDown(d).ok /\ InitialDown(d).db = e
    BY <2>1, Names DEF InitialDown, Result
  <2>3. /\ c \in SchemaRecords
        /\ c.tables = d.tables \ InitialTables /\ c.secured = d.secured \ InitialTables
        /\ c.types = InitialTypes /\ c.trigger = d.trigger
    BY <1>1, <2>1, SchemaOperators
  <2> HIDE DEF c
  <2>4. c.types \ InitialTypes = {}
    BY <2>3
  <2>5. /\ e \in SchemaRecords
        /\ e.tables = d.tables \ InitialTables /\ e.secured = d.secured \ InitialTables
        /\ e.types = {} /\ e.trigger = d.trigger
    BY <2>3, <2>4, SetTypes
  <2> HIDE DEF e
  <2>6. e.tables \ Partitions = TablesAt(0) /\ e.types = TypesAt(0)
    BY <2>1, <2>5, Names DEF TablesAt, TypesAt
  <2>7. IsAt(e, b, 0)
    BY <2>1, <2>5, <2>6 DEF IsAt
  <2> QED
    BY <1>3, <2>2, <2>7
<1> QED
  BY <1>2, <1>3

\* 0002 wants to secure a table that 0007 makes; its downgrade, one that 0007 has dropped.
LEMMA RlsMoves ==
    ASSUME NEW d, NEW b, Schema(d, b)
    PROVE  /\ d.rev = 1 => ~RlsUp(d).ok
           /\ d.rev = 2 => ~RlsDown(d).ok
<1>1. d.rev \in {1, 2} => Credits \notin d.tables
  BY Names DEF Schema, IsAt, TablesAt
<1>2. Credits \in Scoped
  BY Names DEF Scoped
<1>3. d \in SchemaRecords /\ Embedding \in SUBSET AllTables
  BY Revision DEF AllTables
<1>4. CASE d.rev = 1
  <2> DEFINE made == CreateTables(d, Embedding)
  <2>1. made.tables = d.tables \cup Embedding
    BY <1>3, SchemaOperators
  <2>2. Credits \notin made.tables
    BY <1>1, <1>4, <2>1, Names
  <2>3. ~CanSecure(made, Scoped)
    BY <1>2, <2>2 DEF CanSecure
  <2>4. RlsUp(d).ok = (Embedding \cap d.tables = {} /\ CanSecure(made, Scoped))
    BY DEF RlsUp, Result
  <2>5. ~RlsUp(d).ok
    BY <2>3, <2>4, Zenon
  <2> QED
    BY <1>4, <2>5
<1>5. CASE d.rev = 2
  <2>1. RlsDown(d).ok = (Scoped \subseteq d.tables)
    BY DEF RlsDown, Result
  <2>2. ~(Scoped \subseteq d.tables)
    BY <1>1, <1>2, <1>5
  <2>3. ~RlsDown(d).ok
    BY <2>1, <2>2, Zenon
  <2> QED
    BY <1>5, <2>3
<1> QED
  BY <1>4, <1>5

\* The default partition gets its policy with 0003 and loses it on the way down; the
\* policies that the trigger has made stay.
LEMMA PartitionsMoves ==
    ASSUME NEW d, NEW b, Schema(d, b)
    PROVE  /\ d.rev = 2 => PartitionsUp(d).ok /\ IsAt(PartitionsUp(d).db, b, 3)
           /\ d.rev = 3 => PartitionsDown(d).ok /\ IsAt(PartitionsDown(d).db, b, 2)
<1>1. d \in SchemaRecords /\ {Default} \in SUBSET AllTables
  BY Revision, Names DEF AllTables
<1>2. CASE d.rev = 2
  <2> DEFINE c == Secure(d, {Default})
             e == [c EXCEPT !.trigger = TRUE]
  <2>1. /\ d.tables \ Partitions = TablesAt(2) /\ d.types = TypesAt(2)
        /\ d.secured \subseteq d.tables /\ Default \notin d.secured /\ ~d.trigger
        /\ d.tables \ ({"tenant", Default} \cup b) \subseteq d.secured
    BY <1>2 DEF Schema, IsAt
  <2>2. Default \in d.tables
    BY <2>1, Names DEF TablesAt
  <2>3. PartitionsUp(d).ok /\ PartitionsUp(d).db = e
    BY <2>1, <2>2 DEF PartitionsUp, CanSecure, Result, Default
  <2>4. /\ c \in SchemaRecords /\ c.tables = d.tables /\ c.types = d.types
        /\ c.secured = d.secured \cup {Default}
    BY <1>1, SchemaOperators
  <2> HIDE DEF c
  <2>5. /\ e \in SchemaRecords /\ e.tables = d.tables /\ e.types = d.types
        /\ e.secured = d.secured \cup {Default} /\ e.trigger
    BY <2>4 DEF SchemaRecords
  <2> HIDE DEF e
  <2>6. e.tables \ Partitions = TablesAt(3) /\ e.types = TypesAt(3)
    BY <2>1, <2>5 DEF TablesAt, TypesAt
  <2>7. IsAt(e, b, 3)
    BY <2>1, <2>2, <2>5, <2>6 DEF IsAt
  <2> QED
    BY <1>2, <2>3, <2>7
<1>3. CASE d.rev = 3
  <2> DEFINE e == [d EXCEPT !.secured = @ \ {Default}, !.trigger = FALSE]
  <2>1. /\ d.tables \ Partitions = TablesAt(3) /\ d.types = TypesAt(3)
        /\ d.secured \subseteq d.tables
        /\ d.tables \ ({"tenant", Default} \cup b) \subseteq d.secured
    BY <1>3 DEF Schema, IsAt
  <2>2. Default \in d.tables
    BY <2>1, Names DEF TablesAt
  <2>3. PartitionsDown(d).ok /\ PartitionsDown(d).db = e
    BY <2>2 DEF PartitionsDown, Result, Default
  <2>4. /\ e \in SchemaRecords /\ e.tables = d.tables /\ e.types = d.types
        /\ e.secured = d.secured \ {Default} /\ ~e.trigger
    BY <1>1 DEF SchemaRecords
  <2> HIDE DEF e
  <2>5. e.tables \ Partitions = TablesAt(2) /\ e.types = TypesAt(2)
    BY <2>1, <2>4 DEF TablesAt, TypesAt
  <2>6. IsAt(e, b, 2)
    BY <2>1, <2>4, <2>5 DEF IsAt
  <2> QED
    BY <1>3, <2>3, <2>6
<1> QED
  BY <1>2, <1>3

\* 0004 and 0006 find their tables, and change nothing that is modelled.
LEMMA AlterMoves ==
    ASSUME NEW d, NEW b, Schema(d, b)
    PROVE  /\ d.rev \in {3, 4} => DefaultsAlter(d).ok /\ DefaultsAlter(d).db = d
           /\ d.rev \in {5, 6} => IngestStateAlters(d).ok /\ IngestStateAlters(d).db = d
           /\ d.rev = 3 => IsAt(d, b, 4)
           /\ d.rev = 4 => IsAt(d, b, 3)
           /\ d.rev = 5 => IsAt(d, b, 6)
           /\ d.rev = 6 => IsAt(d, b, 5)
<1>1. d.rev \in {3, 4, 5, 6} => InitialTables \subseteq d.tables
  BY DEF Schema, IsAt, TablesAt
<1>2. /\ d.rev \in {3, 4} => DefaultsAlter(d).ok /\ DefaultsAlter(d).db = d
      /\ d.rev \in {5, 6} => IngestStateAlters(d).ok /\ IngestStateAlters(d).db = d
  BY <1>1, Names DEF DefaultsAlter, IngestStateAlters, Alters, Result
<1>3. TablesAt(3) = TablesAt(4) /\ TypesAt(3) = TypesAt(4)
  BY DEF TablesAt, TypesAt
<1>4. TablesAt(5) = TablesAt(6) /\ TypesAt(5) = TypesAt(6)
  BY DEF TablesAt, TypesAt
<1> QED
  BY <1>2, <1>3, <1>4 DEF Schema, IsAt

LEMMA DomainMoves ==
    ASSUME NEW d, NEW b, Schema(d, b)
    PROVE  /\ d.rev = 4 => DomainUp(d).ok /\ IsAt(DomainUp(d).db, b, 5)
           /\ d.rev = 5 => DomainDown(d).ok /\ IsAt(DomainDown(d).db, b, 4)
<1>1. d \in SchemaRecords
  BY Revision
<1>2. CASE d.rev = 4
  <2> DEFINE e == [d EXCEPT !.types = @ \cup {"domain"}]
  <2>1. /\ d.tables \ Partitions = TablesAt(4) /\ d.types = TypesAt(4)
        /\ "source" \in d.tables
    BY <1>2, Names DEF Schema, IsAt, TablesAt
  <2>2. DomainUp(d).ok /\ DomainUp(d).db = e
    BY <2>1 DEF DomainUp, Result
  <2>3. d.types \cup {"domain"} = TypesAt(5)
    BY <2>1 DEF TypesAt
  <2>4. TypesAt(5) \in SUBSET (InitialTypes \cup {"domain"})
    BY DEF TypesAt
  <2>5. /\ e \in SchemaRecords /\ e.tables = d.tables /\ e.types = TypesAt(5)
        /\ e.secured = d.secured /\ e.trigger = d.trigger
    BY <1>1, <2>3, <2>4, SetTypes
  <2> HIDE DEF e
  <2>6. e.tables \ Partitions = TablesAt(5)
    BY <2>1, <2>5 DEF TablesAt
  <2>7. IsAt(e, b, 5)
    BY <1>2, <2>5, <2>6 DEF Schema, IsAt
  <2> QED
    BY <1>2, <2>2, <2>7
<1>3. CASE d.rev = 5
  <2> DEFINE e == [d EXCEPT !.types = @ \ {"domain"}]
  <2>1. /\ d.tables \ Partitions = TablesAt(5) /\ d.types = TypesAt(5)
        /\ "source" \in d.tables
    BY <1>3, Names DEF Schema, IsAt, TablesAt
  <2>2. DomainDown(d).ok /\ DomainDown(d).db = e
    BY <2>1 DEF DomainDown, Result
  <2>3. d.types \ {"domain"} = TypesAt(4)
    BY <2>1, Names DEF TypesAt
  <2>4. TypesAt(4) \in SUBSET (InitialTypes \cup {"domain"})
    BY DEF TypesAt
  <2>5. /\ e \in SchemaRecords /\ e.tables = d.tables /\ e.types = TypesAt(4)
        /\ e.secured = d.secured /\ e.trigger = d.trigger
    BY <1>1, <2>3, <2>4, SetTypes
  <2> HIDE DEF e
  <2>6. e.tables \ Partitions = TablesAt(4)
    BY <2>1, <2>5 DEF TablesAt
  <2>7. IsAt(e, b, 4)
    BY <1>3, <2>5, <2>6 DEF Schema, IsAt
  <2> QED
    BY <1>3, <2>2, <2>7
<1> QED
  BY <1>2, <1>3

LEMMA CreditsMoves ==
    ASSUME NEW d, NEW b, Schema(d, b)
    PROVE  /\ d.rev = 6 => CreditsUp(d).ok /\ IsAt(CreditsUp(d).db, b, 7)
           /\ d.rev = 7 => CreditsDown(d).ok /\ IsAt(CreditsDown(d).db, b, 6)
<1>1. d \in SchemaRecords /\ {Credits} \in SUBSET AllTables
  BY Revision, Names DEF AllTables
<1>2. CASE d.rev = 6
  <2> DEFINE c == CreateTables(d, {Credits})
             e == Secure(c, {Credits})
  <2>1. /\ d.tables \ Partitions = TablesAt(6) /\ d.types = TypesAt(6)
        /\ d.secured \subseteq d.tables /\ Default \in d.secured /\ d.trigger
        /\ d.tables \ ({"tenant", Default} \cup b) \subseteq d.secured
    BY <1>2 DEF Schema, IsAt
  <2>2. Credits \notin d.tables
    BY <2>1, Names DEF TablesAt
  <2>3. CreditsUp(d).ok /\ CreditsUp(d).db = e
    BY <2>2 DEF CreditsUp, Result, Credits
  <2>4. /\ c \in SchemaRecords /\ c.tables = d.tables \cup {Credits} /\ c.types = d.types
        /\ c.secured = d.secured /\ c.trigger = d.trigger
    BY <1>1, SchemaOperators
  <2> HIDE DEF c
  <2>5. /\ e \in SchemaRecords /\ e.tables = d.tables \cup {Credits} /\ e.types = d.types
        /\ e.secured = d.secured \cup {Credits} /\ e.trigger = d.trigger
    BY <1>1, <2>4, SchemaOperators
  <2> HIDE DEF e
  <2>6. e.tables \ Partitions = TablesAt(7) /\ e.types = TypesAt(7)
    BY <2>1, <2>5, Names DEF TablesAt, TypesAt
  <2>7. IsAt(e, b, 7)
    BY <2>1, <2>5, <2>6 DEF IsAt
  <2> QED
    BY <1>2, <2>3, <2>7
<1>3. CASE d.rev = 7
  <2> DEFINE e == DropTables(d, {Credits})
  <2>1. /\ d.tables \ Partitions = TablesAt(7) /\ d.types = TypesAt(7)
        /\ d.secured \subseteq d.tables /\ Default \in d.secured /\ d.trigger
        /\ d.tables \ ({"tenant", Default} \cup b) \subseteq d.secured
    BY <1>3 DEF Schema, IsAt
  <2>2. Credits \in d.tables
    BY <2>1, Names DEF TablesAt
  <2>3. CreditsDown(d).ok /\ CreditsDown(d).db = e
    BY <2>2 DEF CreditsDown, Result, Credits
  <2>4. /\ e \in SchemaRecords /\ e.tables = d.tables \ {Credits} /\ e.types = d.types
        /\ e.secured = d.secured \ {Credits} /\ e.trigger = d.trigger
    BY <1>1, SchemaOperators
  <2> HIDE DEF e
  <2>5. e.tables \ Partitions = TablesAt(6) /\ e.types = TypesAt(6)
    BY <2>1, <2>4, Names DEF TablesAt, TypesAt
  <2>6. IsAt(e, b, 6)
    BY <2>1, <2>4, <2>5, Names DEF IsAt
  <2> QED
    BY <1>3, <2>3, <2>6
<1> QED
  BY <1>2, <1>3

\* Every migration but 0002 is accepted, in both directions, and makes the schema of the
\* revision it leads to.
LEMMA UpgradeMoves ==
    ASSUME NEW d, NEW b, Schema(d, b), d.rev < Head
    PROVE  (~Upgrade(d).ok => d.rev = 1) /\ (Upgrade(d).ok => IsAt(Upgrade(d).db, b, d.rev + 1))
<1>1. d.rev \in 0..6
  BY Revision DEF Head
<1>2. CASE d.rev = 0
  BY <1>2, InitialMoves DEF Upgrade
<1>3. CASE d.rev = 1
  <2>1. Upgrade(d) = RlsUp(d)
    BY <1>3 DEF Upgrade
  <2> QED
    BY <1>3, <2>1, RlsMoves
<1>4. CASE d.rev = 2
  <2>1. Upgrade(d) = PartitionsUp(d)
    BY <1>4 DEF Upgrade
  <2> QED
    BY <1>4, <2>1, PartitionsMoves
<1>5. CASE d.rev = 3
  <2>1. Upgrade(d) = DefaultsAlter(d)
    BY <1>5 DEF Upgrade
  <2> QED
    BY <1>5, <2>1, AlterMoves
<1>6. CASE d.rev = 4
  <2>1. Upgrade(d) = DomainUp(d)
    BY <1>6 DEF Upgrade
  <2> QED
    BY <1>6, <2>1, DomainMoves
<1>7. CASE d.rev = 5
  <2>1. Upgrade(d) = IngestStateAlters(d)
    BY <1>7 DEF Upgrade
  <2> QED
    BY <1>7, <2>1, AlterMoves
<1>8. CASE d.rev = 6
  <2>1. Upgrade(d) = CreditsUp(d)
    BY <1>8 DEF Upgrade
  <2> QED
    BY <1>8, <2>1, CreditsMoves
<1> QED
  BY <1>1, <1>2, <1>3, <1>4, <1>5, <1>6, <1>7, <1>8

LEMMA DowngradeMoves ==
    ASSUME NEW d, NEW b, Schema(d, b), d.rev > 0
    PROVE  (~Downgrade(d).ok => d.rev = 2) /\ (Downgrade(d).ok => IsAt(Downgrade(d).db, b, d.rev - 1))
<1>1. d.rev \in 1..7
  BY Revision
<1>2. CASE d.rev = 1
  <2>1. Downgrade(d) = InitialDown(d)
    BY <1>2 DEF Downgrade
  <2> QED
    BY <1>2, <2>1, InitialMoves
<1>3. CASE d.rev = 2
  <2>1. Downgrade(d) = RlsDown(d)
    BY <1>3 DEF Downgrade
  <2> QED
    BY <1>3, <2>1, RlsMoves
<1>4. CASE d.rev = 3
  <2>1. Downgrade(d) = PartitionsDown(d)
    BY <1>4 DEF Downgrade
  <2> QED
    BY <1>4, <2>1, PartitionsMoves
<1>5. CASE d.rev = 4
  <2>1. Downgrade(d) = DefaultsAlter(d)
    BY <1>5 DEF Downgrade
  <2> QED
    BY <1>5, <2>1, AlterMoves
<1>6. CASE d.rev = 5
  <2>1. Downgrade(d) = DomainDown(d)
    BY <1>6 DEF Downgrade
  <2> QED
    BY <1>6, <2>1, DomainMoves
<1>7. CASE d.rev = 6
  <2>1. Downgrade(d) = IngestStateAlters(d)
    BY <1>7 DEF Downgrade
  <2> QED
    BY <1>7, <2>1, AlterMoves
<1>8. CASE d.rev = 7
  <2>1. Downgrade(d) = CreditsDown(d)
    BY <1>8 DEF Downgrade
  <2> QED
    BY <1>8, <2>1, CreditsMoves
<1> QED
  BY <1>1, <1>2, <1>3, <1>4, <1>5, <1>6, <1>7, <1>8

-----------------------------------------------------------------------------
(* Commands.                                                                *)

SchemaRules ==
    /\ Schema(db, bare)
    /\ Schema(work, bare)
    /\ goal \in (0..Head) \cup {NoCommand}
    /\ bare \subseteq Partitions
    /\ OnlyRlsFails

LEMMA SchemaRulesInit == SessionInit => SchemaRules
<1> SUFFICES ASSUME SessionInit PROVE SchemaRules
  OBVIOUS
<1>1. db \in {EmptySchema, EarlierSchema} /\ work = EmptySchema /\ goal = NoCommand /\ failed = {} /\ bare = {}
  BY DEF SessionInit, MigrateInit
<1>2. Schema(EmptySchema, {})
  <2>1. EmptySchema \in SchemaRecords
    BY DEF EmptySchema, SchemaRecords, Head
  <2>2. TablesAt(0) = {} /\ TypesAt(0) = {}
    BY DEF TablesAt, TypesAt
  <2> QED
    BY <2>1, <2>2 DEF EmptySchema, Schema, IsAt
<1>3. Schema(EarlierSchema, {})
  <2> DEFINE d == EarlierSchema
  <2>1. /\ d.rev = 6 /\ d.tables = InitialTables \cup Embedding
        /\ d.types = InitialTypes \cup {"domain"}
        /\ d.secured = (InitialTables \ {"tenant"}) \cup Embedding /\ d.trigger = TRUE
    BY DEF EarlierSchema
  <2>2. d \in SchemaRecords
    <3>1. /\ InitialTables \cup Embedding \in SUBSET AllTables
          /\ (InitialTables \ {"tenant"}) \cup Embedding \in SUBSET AllTables
      BY DEF AllTables
    <3> QED
      BY <3>1 DEF EarlierSchema, SchemaRecords, Head
  <2> HIDE DEF d
  <2>3. d.tables \ Partitions = TablesAt(6) /\ d.types = TypesAt(6)
    BY <2>1, Names DEF TablesAt, TypesAt
  <2>4. IsAt(d, {}, 6)
    BY <2>1, <2>2, <2>3, Names DEF IsAt
  <2>5. Schema(d, {})
    BY <2>1, <2>4 DEF Schema
  <2> QED
    BY <2>5 DEF d
<1> QED
  BY <1>1, <1>2, <1>3 DEF SchemaRules, OnlyRlsFails

\* A schema stays one of its revision when a partition it does not hold is forgotten, or
\* one is added to those without a policy.
LEMMA SchemaBare ==
    ASSUME NEW d, NEW b, NEW c, Schema(d, b), b \cap d.tables \subseteq c
    PROVE  Schema(d, c)
BY DEF Schema, IsAt

\* A partition that is made in a schema, with the trigger or as one of those without a
\* policy.
LEMMA SchemaAttach ==
    ASSUME NEW d, NEW b, NEW c, NEW p \in Partitions, Schema(d, b), d.rev >= 2,
           b \subseteq c, d.trigger \/ p \in c
    PROVE  Schema(Attach(d, p), c)
<1> DEFINE m == CreateTables(d, {p})
           e == Secure(m, {p})
<1>1. d \in SchemaRecords /\ {p} \in SUBSET AllTables
  BY Revision DEF AllTables
<1>2. /\ m \in SchemaRecords /\ m.tables = d.tables \cup {p} /\ m.types = d.types
      /\ m.secured = d.secured /\ m.trigger = d.trigger /\ m.rev = d.rev
  BY <1>1, SchemaOperators
<1> HIDE DEF m
<1>3. /\ e \in SchemaRecords /\ e.tables = d.tables \cup {p} /\ e.types = d.types
      /\ e.secured = d.secured \cup {p} /\ e.trigger = d.trigger /\ e.rev = d.rev
  BY <1>1, <1>2, SchemaOperators
<1> HIDE DEF e
<1>4. (d.tables \cup {p}) \ Partitions = d.tables \ Partitions /\ p # Default
  BY Names
<1>5. Schema(e, c)
  BY <1>3, <1>4 DEF Schema, IsAt
<1>6. p \in c => Schema(m, c)
  BY <1>2, <1>4 DEF Schema, IsAt
<1>7. Attach(d, p) = IF d.trigger THEN e ELSE m
  BY DEF Attach, e, m
<1> QED
  BY <1>5, <1>6, <1>7

LEMMA SchemaRulesStep == SchemaRules /\ [Next]_vars => SchemaRules'
<1> SUFFICES ASSUME SchemaRules, [Next]_vars PROVE SchemaRules'
  OBVIOUS
<1>1. Schema(db, bare) /\ Schema(work, bare) /\ bare \subseteq Partitions /\ OnlyRlsFails
      /\ goal \in (0..Head) \cup {NoCommand}
  BY DEF SchemaRules
<1>2. work.rev \in 0..7 /\ db.rev \in 0..7 /\ Head = 7
  BY <1>1, Revision DEF Head
<1>3. Schema(EmptySchema, bare)
  <2>1. EmptySchema \in SchemaRecords
    BY DEF EmptySchema, SchemaRecords, Head
  <2>2. TablesAt(0) = {} /\ TypesAt(0) = {}
    BY DEF TablesAt, TypesAt
  <2> QED
    BY <2>1, <2>2 DEF EmptySchema, Schema, IsAt
<1>4. CASE UNCHANGED migrateVars
  BY <1>1, <1>4 DEF migrateVars, SchemaRules, OnlyRlsFails
<1>5. CASE Alembic
  BY <1>1, <1>5 DEF Alembic, SchemaRules, OnlyRlsFails
<1>6. CASE Migrate
  <2>1. /\ goal \in 0..Head /\ work.rev # goal /\ NextMigration.ok
        /\ work' = [NextMigration.db EXCEPT !.rev = IF Up THEN work.rev + 1 ELSE work.rev - 1]
        /\ UNCHANGED <<db, goal, failed, bare>>
    BY <1>1, <1>6 DEF Migrate
  <2>2. CASE Up
    <3>1. work.rev < Head /\ work.rev + 1 \in 0..Head /\ NextMigration = Upgrade(work)
      BY <1>2, <2>1, <2>2 DEF Up, NextMigration
    <3>2. IsAt(Upgrade(work).db, bare, work.rev + 1)
      BY <1>1, <2>1, <3>1, UpgradeMoves
    <3>3. Schema(work', bare)
      BY <2>1, <2>2, <3>1, <3>2, SetRevision
    <3> QED
      BY <1>1, <2>1, <3>3 DEF SchemaRules, OnlyRlsFails
  <2>3. CASE ~Up
    <3>1. work.rev > 0 /\ work.rev - 1 \in 0..Head /\ NextMigration = Downgrade(work)
      BY <1>2, <2>1, <2>3 DEF Up, NextMigration
    <3>2. IsAt(Downgrade(work).db, bare, work.rev - 1)
      BY <1>1, <2>1, <3>1, DowngradeMoves
    <3>3. Schema(work', bare)
      BY <2>1, <2>3, <3>1, <3>2, SetRevision
    <3> QED
      BY <1>1, <2>1, <3>3 DEF SchemaRules, OnlyRlsFails
  <2> QED
    BY <2>2, <2>3
<1>7. CASE MigrationFails
  <2>1. /\ goal \in 0..Head /\ work.rev # goal /\ ~NextMigration.ok
        /\ failed' = failed \cup {[from |-> work.rev, up |-> Up]}
        /\ goal' = NoCommand /\ work' = EmptySchema
        /\ UNCHANGED <<db, bare>>
    BY <1>1, <1>7 DEF MigrationFails
  <2>2. work.rev = IF Up THEN 1 ELSE 2
    <3>1. CASE Up
      BY <1>1, <1>2, <2>1, <3>1, UpgradeMoves DEF Up, NextMigration
    <3>2. CASE ~Up
      BY <1>1, <1>2, <2>1, <3>2, DowngradeMoves DEF Up, NextMigration
    <3> QED
      BY <3>1, <3>2
  <2>3. OnlyRlsFails'
    BY <1>1, <2>1, <2>2 DEF OnlyRlsFails
  <2> QED
    BY <1>1, <1>3, <2>1, <2>3 DEF SchemaRules
<1>8. CASE CommitMigrations
  <2>1. /\ db' = work /\ bare' = bare \cap work.tables
        /\ goal' = NoCommand /\ work' = EmptySchema /\ failed' = failed
    BY <1>8 DEF CommitMigrations
  <2>2. Schema(work, bare') /\ Schema(EmptySchema, bare')
    BY <1>1, <1>3, <2>1, SchemaBare DEF EmptySchema
  <2> QED
    BY <1>1, <2>1, <2>2 DEF SchemaRules, OnlyRlsFails
<1>9. ASSUME NEW p \in Partitions, CreatePartition(p) PROVE SchemaRules'
  <2>1. /\ db.rev >= 2 /\ ~DefaultLocked
        /\ db' = Attach(db, p)
        /\ work' = IF goal = NoCommand THEN work ELSE Attach(work, p)
        /\ bare' = IF db.trigger THEN bare ELSE bare \cup {p}
        /\ UNCHANGED <<goal, failed>>
    BY <1>9 DEF CreatePartition
  <2>2. bare \subseteq bare' /\ bare' \subseteq Partitions /\ (db.trigger \/ p \in bare')
    BY <1>1, <2>1
  <2>3. Schema(db', bare')
    BY <1>1, <2>1, <2>2, SchemaAttach
  <2>4. Schema(work', bare')
    <3>1. CASE goal = NoCommand
      BY <1>1, <2>1, <2>2, <3>1, SchemaBare
    <3>2. CASE goal # NoCommand
      <4>1. work.rev >= 2 /\ (work.rev >= 3 <=> db.rev >= 3)
        BY <1>2, <2>1, <3>2 DEF DefaultLocked
      <4>2. work.trigger \/ p \in bare'
        BY <1>1, <2>2, <4>1 DEF Schema, IsAt
      <4>3. Schema(Attach(work, p), bare')
        BY <1>1, <2>2, <4>1, <4>2, SchemaAttach
      <4> QED
        BY <2>1, <3>2, <4>3
    <3> QED
      BY <3>1, <3>2
  <2> QED
    BY <1>1, <2>1, <2>2, <2>3, <2>4 DEF SchemaRules, OnlyRlsFails
<1>10. ASSUME NEW t \in Threads, Work(t) PROVE UNCHANGED migrateVars
  BY <1>10 DEF Work, Enter, Autobegin, InsertRefused, Commit, OnSpend, EnterSecond,
               LeaveSecond, SpendRefused, PoolTimeout, Leave
<1> QED
  BY <1>4, <1>5, <1>6, <1>7, <1>8, <1>9, <1>10 DEF Next, MigrateNext, Idle, vars

\* However often the schema was migrated up and down, its tables and enum types are those
\* of its revision.
THEOREM SchemaFollows == Spec => []SchemaIsRevision
<1>1. SchemaRules => SchemaIsRevision
  <2> SUFFICES ASSUME SchemaRules PROVE SchemaIsRevision
    OBVIOUS
  <2>1. db.tables \ Partitions = TablesAt(db.rev) /\ db.types = TypesAt(db.rev)
    BY DEF SchemaRules, Schema, IsAt
  <2> QED
    BY <2>1 DEF SchemaIsRevision, TablesAt, TypesAt, Credits
<1> QED
  BY <1>1, SchemaRulesInit, SchemaRulesStep, PTL DEF Spec

LEMMA SchemaSecures ==
    ASSUME SchemaRules
    PROVE  TablesSecured
<1>1. Schema(db, bare)
  BY DEF SchemaRules
<1>2. db.rev \in 0..7
  BY <1>1, Revision
<1> QED
  BY <1>1, <1>2 DEF Schema, IsAt, TablesSecured

\* From 0003 on no table with a tenant_id is without its policy, but the partitions that
\* were made below 0003, whatever commands came before.
THEOREM PoliciesHold == Spec => []TablesSecured
BY SchemaSecures, SchemaRulesInit, SchemaRulesStep, PTL DEF Spec

\* No other migration is ever refused, in either direction.
THEOREM OnlyRlsIsRefused == Spec => []OnlyRlsFails
<1>1. SchemaRules => OnlyRlsFails
  BY DEF SchemaRules
<1> QED
  BY <1>1, SchemaRulesInit, SchemaRulesStep, PTL DEF Spec

-----------------------------------------------------------------------------
(* Sessions.  A connection belongs to one session or to none; its setting   *)
(* is the tenant of a session in its first transaction, and unset in every  *)
(* later one and in the pool.                                               *)

SessionTypes ==
    /\ place \in [Threads -> {"new", "body", "spending", "done", "failed"}]
    /\ conn \in [Threads -> SUBSET Conns]
    /\ second \in [Threads -> SUBSET Conns]
    /\ bound \in [Conns -> Tenants \cup {Unset}]
    /\ fresh \in [Threads -> BOOLEAN]
    /\ statements \in [Threads -> 0..MaxStatements]

SessionRules ==
    /\ SessionTypes
    /\ \A t, u \in Threads :
          /\ conn[t] \cap second[u] = {}
          /\ t # u => conn[t] \cap conn[u] = {} /\ second[t] \cap second[u] = {}
    /\ \A t \in Threads :
          /\ \A c \in conn[t] : bound[c] = IF fresh[t] THEN TenantOf[t] ELSE Unset
          /\ \A c \in second[t] : bound[c] = TenantOf[t]
          /\ place[t] = "new" => conn[t] = {}
          /\ place[t] \in {"body", "spending"} /\ conn[t] = {} => ~fresh[t]
    /\ \A c \in Free : bound[c] = Unset

LEMMA SessionRulesInit == SessionInit => SessionRules
<1> SUFFICES ASSUME SessionInit PROVE SessionRules
  OBVIOUS
<1>1. SessionTypes
  BY DEF SessionInit, SessionTypes
<1> QED
  BY <1>1 DEF SessionInit, SessionRules, Free

\* What a step of thread t may do to connections: it takes free ones, or gives its own
\* back with their transaction ended.  Other sessions do not notice.
Others(t) ==
    /\ SessionTypes'
    /\ \A u \in Threads : u # t =>
          conn'[u] = conn[u] /\ second'[u] = second[u] /\ fresh'[u] = fresh[u] /\ place'[u] = place[u]
    /\ conn'[t] \subseteq conn[t] \cup Free
    /\ second'[t] \subseteq second[t] \cup Free
    /\ conn'[t] \cap second'[t] = {}
    /\ \A c \in Conns \ (conn[t] \cup second[t] \cup conn'[t] \cup second'[t]) : bound'[c] = bound[c]
    /\ \A c \in (conn[t] \cup second[t]) \ (conn'[t] \cup second'[t]) : bound'[c] = Unset

LEMMA OneSession ==
    ASSUME SessionRules, NEW t \in Threads, Others(t),
           \A c \in conn'[t] : bound'[c] = IF fresh'[t] THEN TenantOf[t] ELSE Unset,
           \A c \in second'[t] : bound'[c] = TenantOf[t],
           place'[t] # "new",
           place'[t] \in {"body", "spending"} /\ conn'[t] = {} => ~fresh'[t]
    PROVE  SessionRules'
<1>1. \A u \in Threads : u # t =>
         conn'[u] = conn[u] /\ second'[u] = second[u] /\ fresh'[u] = fresh[u] /\ place'[u] = place[u]
  BY DEF Others
<1>2. /\ SessionTypes /\ SessionTypes'
      /\ conn'[t] \subseteq conn[t] \cup Free /\ second'[t] \subseteq second[t] \cup Free
      /\ conn'[t] \cap second'[t] = {}
  BY DEF Others, SessionRules
<1>3. \A u \in Threads : Free \cap (conn[u] \cup second[u]) = {}
  BY DEF Free
<1>4. \A u, v \in Threads :
         /\ conn[u] \cap second[v] = {}
         /\ u # v => conn[u] \cap conn[v] = {} /\ second[u] \cap second[v] = {}
  BY DEF SessionRules
<1>5. \A u \in Threads : u # t =>
         /\ (conn'[t] \cup second'[t]) \cap (conn[u] \cup second[u]) = {}
         /\ (conn[t] \cup second[t]) \cap (conn[u] \cup second[u]) = {}
  BY <1>2, <1>3, <1>4
<1>6. \A u, v \in Threads :
         /\ conn'[u] \cap second'[v] = {}
         /\ u # v => conn'[u] \cap conn'[v] = {} /\ second'[u] \cap second'[v] = {}
  BY <1>1, <1>2, <1>4, <1>5
<1>7. ASSUME NEW u \in Threads, u # t, NEW c \in conn'[u]
      PROVE  bound'[c] = IF fresh'[u] THEN TenantOf[u] ELSE Unset
  <2>1. c \in conn[u] /\ c \in Conns
    BY <1>1, <1>2, <1>7 DEF SessionTypes
  <2>2. c \notin conn[t] \cup second[t] \cup conn'[t] \cup second'[t]
    BY <1>5, <1>7, <2>1
  <2>3. bound'[c] = bound[c]
    BY <2>1, <2>2 DEF Others
  <2> QED
    BY <1>1, <1>7, <2>1, <2>3 DEF SessionRules
<1>10. ASSUME NEW u \in Threads, u # t, NEW c \in second'[u]
       PROVE  bound'[c] = TenantOf[u]
  <2>1. c \in second[u] /\ c \in Conns
    BY <1>1, <1>2, <1>10 DEF SessionTypes
  <2>2. c \notin conn[t] \cup second[t] \cup conn'[t] \cup second'[t]
    BY <1>5, <1>10, <2>1
  <2>3. bound'[c] = bound[c]
    BY <2>1, <2>2 DEF Others
  <2> QED
    BY <1>10, <2>1, <2>3 DEF SessionRules
<1>8. ASSUME NEW c \in Free' PROVE bound'[c] = Unset
  <2>1. c \in Conns /\ \A u \in Threads : c \notin conn'[u] \cup second'[u]
    BY <1>8 DEF Free
  <2>2. CASE c \in conn[t] \cup second[t]
    BY <2>1, <2>2 DEF Others
  <2>3. CASE c \notin conn[t] \cup second[t]
    <3>1. c \in Free
      BY <1>1, <2>1, <2>3 DEF Free
    <3>2. bound'[c] = bound[c]
      BY <2>1, <2>3 DEF Others
    <3> QED
      BY <3>1, <3>2 DEF SessionRules
  <2> QED
    BY <2>2, <2>3
<1>9. \A u \in Threads : u # t =>
         /\ place'[u] = "new" => conn'[u] = {}
         /\ place'[u] \in {"body", "spending"} /\ conn'[u] = {} => ~fresh'[u]
  BY <1>1 DEF SessionRules
<1> QED
  BY <1>2, <1>6, <1>7, <1>8, <1>9, <1>10 DEF SessionRules

LEMMA WorkRules ==
    ASSUME SessionRules, NEW t \in Threads, Work(t)
    PROVE  SessionRules'
<1>1. /\ SessionTypes
      /\ TenantOf[t] \in Tenants
      /\ conn[t] \cap second[t] = {}
      /\ conn[t] \subseteq Conns /\ second[t] \subseteq Conns
      /\ Free \subseteq Conns /\ Free \cap (conn[t] \cup second[t]) = {}
      /\ \A c \in conn[t] : bound[c] = IF fresh[t] THEN TenantOf[t] ELSE Unset
      /\ \A c \in second[t] : bound[c] = TenantOf[t]
      /\ \A c \in Free : bound[c] = Unset
      /\ place[t] = "new" => conn[t] = {}
      /\ place[t] \in {"body", "spending"} /\ conn[t] = {} => ~fresh[t]
  BY DEF SessionRules, SessionTypes, Free
<1>2. CASE Enter(t)
  <2>1. PICK c \in Free : /\ conn' = [conn EXCEPT ![t] = {c}]
                          /\ bound' = [bound EXCEPT ![c] = TenantOf[t]]
    BY <1>2 DEF Enter
  <2>2. /\ place[t] = "new" /\ place' = [place EXCEPT ![t] = "body"]
        /\ fresh' = [fresh EXCEPT ![t] = TRUE] /\ UNCHANGED <<second, statements>>
    BY <1>2 DEF Enter, Move
  <2>3. SessionTypes'
    BY <1>1, <2>1, <2>2 DEF SessionTypes
  <2>4. Others(t)
    BY <1>1, <2>1, <2>2, <2>3 DEF Others, SessionTypes
  <2>5. conn'[t] = {c} /\ bound'[c] = TenantOf[t] /\ fresh'[t] = TRUE /\ place'[t] = "body"
    BY <1>1, <2>1, <2>2 DEF SessionTypes
  <2>6. \A d \in second'[t] : bound'[d] = TenantOf[t]
    BY <1>1, <2>1, <2>2 DEF SessionTypes
  <2> QED
    BY <2>4, <2>5, <2>6, OneSession
<1>3. CASE Autobegin(t)
  <2>1. PICK c \in Free : conn' = [conn EXCEPT ![t] = {c}]
    BY <1>3 DEF Autobegin
  <2>2. /\ place[t] = "body" /\ conn[t] = {} /\ statements[t] < MaxStatements
        /\ statements' = [statements EXCEPT ![t] = @ + 1]
        /\ UNCHANGED <<place, second, bound, fresh>>
    BY <1>3 DEF Autobegin, InBody, Counted
  <2>3. SessionTypes'
    BY <1>1, <2>1, <2>2 DEF SessionTypes
  <2>4. Others(t)
    BY <1>1, <2>1, <2>2, <2>3 DEF Others, SessionTypes
  <2>5. conn'[t] = {c} /\ bound'[c] = Unset /\ ~fresh'[t] /\ place'[t] = "body"
    BY <1>1, <2>1, <2>2 DEF SessionTypes
  <2> QED
    BY <1>1, <2>2, <2>4, <2>5, OneSession
<1>4. CASE InsertRefused(t) \/ PoolTimeout(t) \/ Leave(t) \/ Commit(t)
  <2>1. /\ bound' = [c \in Conns |-> IF c \in conn[t] THEN Unset ELSE bound[c]]
        /\ conn' = [conn EXCEPT ![t] = {}]
        /\ UNCHANGED second
    BY <1>4 DEF InsertRefused, PoolTimeout, Leave, Commit, EndTransaction
  <2>2. /\ statements' \in [Threads -> 0..MaxStatements]
        /\ fresh' \in [Threads -> BOOLEAN]
        /\ place' \in [Threads -> {"new", "body", "spending", "done", "failed"}]
        /\ \A u \in Threads : u # t => fresh'[u] = fresh[u] /\ place'[u] = place[u]
        /\ place'[t] \in {"done", "failed"} \/ (place'[t] = "body" /\ ~fresh'[t])
    <3>1. CASE InsertRefused(t)
      BY <1>1, <3>1 DEF InsertRefused, Move, SessionTypes
    <3>2. CASE PoolTimeout(t)
      BY <1>1, <3>2 DEF PoolTimeout, Move, SessionTypes
    <3>3. CASE Leave(t)
      BY <1>1, <3>3 DEF Leave, Move, SessionTypes
    <3>4. CASE Commit(t)
      <4>1. statements[t] < MaxStatements /\ place[t] = "body"
        BY <3>4 DEF Commit, InBody
      <4>2. /\ statements' = [statements EXCEPT ![t] = @ + 1]
            /\ fresh' = [fresh EXCEPT ![t] = FALSE] /\ place' = place
        BY <3>4 DEF Commit, Counted
      <4> QED
        BY <1>1, <4>1, <4>2 DEF SessionTypes
    <3> QED
      BY <1>4, <3>1, <3>2, <3>3, <3>4
  <2>3. SessionTypes'
    BY <1>1, <2>1, <2>2 DEF SessionTypes
  <2>4. conn'[t] = {}
    BY <1>1, <2>1 DEF SessionTypes
  <2>5. Others(t)
    BY <1>1, <2>1, <2>2, <2>3, <2>4 DEF Others, SessionTypes
  <2>6. \A c \in second'[t] : bound'[c] = TenantOf[t]
    BY <1>1, <2>1
  <2> QED
    BY <2>2, <2>4, <2>5, <2>6, OneSession
<1>5. CASE OnSpend(t)
  <2>1. /\ place[t] = "body" /\ statements[t] < MaxStatements
        /\ place' = [place EXCEPT ![t] = "spending"]
        /\ statements' = [statements EXCEPT ![t] = @ + 1]
        /\ UNCHANGED <<conn, second, bound, fresh>>
    BY <1>5 DEF OnSpend, InBody, Counted, Move
  <2>2. SessionTypes' /\ place'[t] = "spending"
    BY <1>1, <2>1 DEF SessionTypes
  <2>3. Others(t)
    BY <1>1, <2>1, <2>2 DEF Others, SessionTypes
  <2> QED
    BY <1>1, <2>1, <2>2, <2>3, OneSession
<1>6. CASE EnterSecond(t)
  <2>1. PICK c \in Free : /\ second' = [second EXCEPT ![t] = {c}]
                          /\ bound' = [bound EXCEPT ![c] = TenantOf[t]]
    BY <1>6 DEF EnterSecond
  <2>2. /\ place[t] = "spending" /\ second[t] = {} /\ UNCHANGED <<place, conn, fresh, statements>>
    BY <1>6 DEF EnterSecond
  <2>3. SessionTypes' /\ second'[t] = {c}
    BY <1>1, <2>1, <2>2 DEF SessionTypes
  <2>4. \A d \in Conns : d # c => bound'[d] = bound[d]
    BY <1>1, <2>1 DEF SessionTypes
  <2>5. Others(t)
    BY <1>1, <2>1, <2>2, <2>3, <2>4 DEF Others, SessionTypes
  <2>6. \A d \in conn[t] : bound'[d] = bound[d]
    BY <1>1, <2>1, <2>4
  <2>7. bound'[c] = TenantOf[t]
    BY <1>1, <2>1 DEF SessionTypes
  <2> QED
    BY <1>1, <2>2, <2>3, <2>5, <2>6, <2>7, OneSession
<1>7. CASE LeaveSecond(t)
  <2>1. /\ place[t] = "spending" /\ place' = [place EXCEPT ![t] = "body"]
        /\ bound' = [c \in Conns |-> IF c \in second[t] THEN Unset ELSE bound[c]]
        /\ second' = [second EXCEPT ![t] = {}]
        /\ UNCHANGED <<conn, fresh, statements>>
    BY <1>7 DEF LeaveSecond, EndTransaction, Move
  <2>2. SessionTypes' /\ place'[t] = "body" /\ second'[t] = {}
    BY <1>1, <2>1 DEF SessionTypes
  <2>3. Others(t)
    BY <1>1, <2>1, <2>2 DEF Others, SessionTypes
  <2>4. \A c \in conn[t] : bound'[c] = bound[c]
    BY <1>1, <2>1
  <2> QED
    BY <1>1, <2>1, <2>2, <2>3, <2>4, OneSession
<1>8. CASE SpendRefused(t)
  <2>1. /\ place' = [place EXCEPT ![t] = "failed"]
        /\ bound' = [c \in Conns |-> IF c \in conn[t] \cup second[t] THEN Unset ELSE bound[c]]
        /\ conn' = [conn EXCEPT ![t] = {}] /\ second' = [second EXCEPT ![t] = {}]
        /\ UNCHANGED <<fresh, statements>>
    BY <1>8 DEF SpendRefused, EndTransaction, Move
  <2>2. SessionTypes' /\ place'[t] = "failed" /\ conn'[t] = {} /\ second'[t] = {}
    BY <1>1, <2>1 DEF SessionTypes
  <2>3. Others(t)
    BY <1>1, <2>1, <2>2 DEF Others, SessionTypes
  <2> QED
    BY <2>2, <2>3, OneSession
<1> QED
  BY <1>2, <1>3, <1>4, <1>5, <1>6, <1>7, <1>8 DEF Work

LEMMA SessionRulesStep == SessionRules /\ [Next]_vars => SessionRules'
<1> SUFFICES ASSUME SessionRules, [Next]_vars PROVE SessionRules'
  OBVIOUS
<1>1. CASE UNCHANGED sessionVars
  BY <1>1 DEF sessionVars, SessionRules, SessionTypes, Free
<1> QED
  BY <1>1, WorkRules DEF Next, Idle, vars

\* A session sees its tenant's rows in its first transaction and no row after a commit,
\* never another tenant's, for any pool, any number of sessions on it, and while the
\* schema is migrated; the partitions made before 0003 are left out.
THEOREM OwnRowsAreSeen == Spec => []OwnRowsOnly
<1>1. SchemaRules /\ SessionRules => OwnRowsOnly
  <2> SUFFICES ASSUME SchemaRules, SessionRules, db.rev >= 3,
                      NEW t \in Threads, NEW table \in db.tables \ ({"tenant"} \cup bare)
               PROVE  /\ \A c \in conn[t] :
                            Visible(c, table) = IF fresh[t] THEN {TenantOf[t]} ELSE {}
                      /\ \A c \in second[t] : Visible(c, table) = {TenantOf[t]}
    BY DEF OwnRowsOnly
  <2>1. table \in db.secured
    BY SchemaSecures DEF TablesSecured
  <2>2. /\ \A c \in conn[t] : bound[c] = IF fresh[t] THEN TenantOf[t] ELSE Unset
        /\ \A c \in second[t] : bound[c] = TenantOf[t]
    BY DEF SessionRules
  <2>3. TenantOf[t] # Unset
    OBVIOUS
  <2> QED
    BY <2>1, <2>2, <2>3 DEF Visible
<1> QED
  BY <1>1, SchemaRulesInit, SchemaRulesStep, SessionRulesInit, SessionRulesStep, PTL DEF Spec

\* Every variable keeps its type.
THEOREM TypeCorrect == Spec => []TypeOK
<1>1. SchemaRules /\ SessionRules => TypeOK
  <2> SUFFICES ASSUME SchemaRules, SessionRules PROVE TypeOK
    OBVIOUS
  <2>1. db \in SchemaRecords /\ db.secured \subseteq db.tables
    BY DEF SchemaRules, Schema, IsAt
  <2>2. db.rev \in 0..Head /\ db.tables \subseteq InitialTables \cup ScopedTables \cup Embedding \cup Partitions
    BY <2>1 DEF SchemaRecords, AllTables
  <2> QED
    BY <2>1, <2>2 DEF SessionRules, SessionTypes, TypeOK
<1> QED
  BY <1>1, SchemaRulesInit, SchemaRulesStep, SessionRulesInit, SessionRulesStep, PTL DEF Spec
=============================================================================
