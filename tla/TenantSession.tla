---------------------------- MODULE TenantSession ----------------------------
(***************************************************************************)
(* Sessions, the connection pool and the tenant they are bound to          *)
(* (corpus/db/session.py), over the schema of module Migrations.           *)
(*                                                                         *)
(* tenant_session sets app.tenant_id with is_local, so that the value ends *)
(* with the transaction.  A session gets a connection of the pool with its *)
(* first statement and gives it back when it commits.  A run commits after *)
(* every source and document (corpus/ingest), and what it then executes in *)
(* the same session begins a transaction that has no tenant.  While it is  *)
(* in one, recording a credit opens a second session.                      *)
(*                                                                         *)
(* The sessions here are of a role that is subject to the policies, like   *)
(* corpus_app and corpus_ingest.  One thread is one run, or one request.   *)
(***************************************************************************)
EXTENDS Migrations

CONSTANTS
    Threads,        \* runs and requests
    Tenants,
    TenantOf,       \* thread -> the tenant it was given
    Conns,          \* connections: pool_size + max_overflow
    Unset,          \* app.tenant_id missing or empty
    MaxStatements   \* bound: statements and commits of a thread's session

ASSUME TenantOfAssumption == TenantOf \in [Threads -> Tenants]
ASSUME UnsetAssumption == Unset \notin Tenants
ASSUME MaxStatementsAssumption == MaxStatements \in Nat

VARIABLES
    place,      \* thread -> where it is
    conn,       \* thread -> the connection its session holds, as a set
    second,     \* thread -> the connection of its inner session, as a set
    bound,      \* connection -> app.tenant_id as a policy reads it
    fresh,      \* thread -> its session is still in its first transaction
    statements  \* thread -> statements and commits so far

sessionVars == <<place, conn, second, bound, fresh, statements>>
vars == <<migrateVars, sessionVars>>

Free == Conns \ UNION {conn[t] \cup second[t] : t \in Threads}

Move(t, there) == place' = [place EXCEPT ![t] = there]

SessionInit ==
    /\ MigrateInit
    /\ place = [t \in Threads |-> "new"]
    /\ conn = [t \in Threads |-> {}]
    /\ second = [t \in Threads |-> {}]
    /\ bound = [c \in Conns |-> Unset]
    /\ fresh = [t \in Threads |-> FALSE]
    /\ statements = [t \in Threads |-> 0]

\* Variant: set_config without is_local: the value outlives the transaction.
EndTransaction_Kept(cs) == bound' = bound

\* Commit or rollback on these connections: the local setting is gone.
EndTransaction(cs) == bound' = [c \in Conns |-> IF c \in cs THEN Unset ELSE bound[c]]

-----------------------------------------------------------------------------
(* tenant_session, and the statements of its body.                          *)

\* session.begin() and the set_config, which takes a connection.
Enter(t) ==
    /\ place[t] = "new"
    /\ \E c \in Free :
          /\ conn' = [conn EXCEPT ![t] = {c}]
          /\ bound' = [bound EXCEPT ![c] = TenantOf[t]]
    /\ fresh' = [fresh EXCEPT ![t] = TRUE]
    /\ Move(t, "body")
    /\ UNCHANGED <<migrateVars, second, statements>>

InBody(t) == place[t] = "body" /\ statements[t] < MaxStatements
Counted(t) == statements' = [statements EXCEPT ![t] = @ + 1]

\* A statement after a commit: the session begins again, on any free connection.
Autobegin(t) ==
    /\ InBody(t)
    /\ conn[t] = {}
    /\ \E c \in Free : conn' = [conn EXCEPT ![t] = {c}]
    /\ Counted(t)
    /\ UNCHANGED <<migrateVars, place, second, bound, fresh>>

\* What a statement of a session with connection c sees of a table that holds rows of
\* every tenant: NULLIF makes an empty setting match none.
Visible(c, table) == IF table \in db.secured THEN {bound[c]} \ {Unset} ELSE Tenants

Accepts(c, t, table) == table \in db.tables /\ TenantOf[t] \in Visible(c, table)

\* An insert of a row of the thread's tenant that PostgreSQL refuses, because there is no
\* such table or by the policy's WITH CHECK, is an exception: rollback, and the connection
\* goes back.
InsertRefused(t) ==
    /\ place[t] = "body"
    /\ \E c \in conn[t] : ~Accepts(c, t, "document")
    /\ EndTransaction(conn[t])
    /\ conn' = [conn EXCEPT ![t] = {}]
    /\ Move(t, "failed")
    /\ UNCHANGED <<migrateVars, second, fresh, statements>>

\* session.commit() inside the body (run_ingestion, ingest_source).
Commit(t) ==
    /\ InBody(t)
    /\ conn[t] # {}
    /\ EndTransaction(conn[t])
    /\ conn' = [conn EXCEPT ![t] = {}]
    /\ fresh' = [fresh EXCEPT ![t] = FALSE]
    /\ Counted(t)
    /\ UNCHANGED <<migrateVars, place, second>>

\* on_spend: a tenant_session of its own, while the thread's first one may hold a
\* connection.
OnSpend(t) ==
    /\ InBody(t)
    /\ Move(t, "spending")
    /\ Counted(t)
    /\ UNCHANGED <<migrateVars, conn, second, bound, fresh>>

EnterSecond(t) ==
    /\ place[t] = "spending"
    /\ second[t] = {}
    /\ \E c \in Free :
          /\ second' = [second EXCEPT ![t] = {c}]
          /\ bound' = [bound EXCEPT ![c] = TenantOf[t]]
    /\ UNCHANGED <<migrateVars, place, conn, fresh, statements>>

\* record_spend inserts its row, and both sessions' commits end the transaction.
LeaveSecond(t) ==
    /\ place[t] = "spending"
    /\ \E c \in second[t] : Accepts(c, t, "credit_usage_event")
    /\ EndTransaction(second[t])
    /\ second' = [second EXCEPT ![t] = {}]
    /\ Move(t, "body")
    /\ UNCHANGED <<migrateVars, conn, fresh, statements>>

\* Before 0007 there is no table for it, and the exception ends the run too.
SpendRefused(t) ==
    /\ place[t] = "spending"
    /\ \E c \in second[t] : ~Accepts(c, t, "credit_usage_event")
    /\ EndTransaction(conn[t] \cup second[t])
    /\ conn' = [conn EXCEPT ![t] = {}]
    /\ second' = [second EXCEPT ![t] = {}]
    /\ Move(t, "failed")
    /\ UNCHANGED <<migrateVars, fresh, statements>>

\* A thread that wants a connection and finds none.
Waits(t) ==
    /\ Free = {}
    /\ \/ place[t] = "new"
       \/ InBody(t) /\ conn[t] = {}
       \/ place[t] = "spending" /\ second[t] = {}

\* Variant: the pool lets its borrowers wait for ever.
PoolTimeout_Never(t) == FALSE /\ UNCHANGED vars

\* After 30 seconds the pool raises TimeoutError, which ends the session, and the one
\* around it.
PoolTimeout(t) ==
    /\ Waits(t)
    /\ EndTransaction(conn[t])
    /\ conn' = [conn EXCEPT ![t] = {}]
    /\ Move(t, "failed")
    /\ UNCHANGED <<migrateVars, second, fresh, statements>>

\* The end of the with block: commit and close.
Leave(t) ==
    /\ place[t] = "body"
    /\ EndTransaction(conn[t])
    /\ conn' = [conn EXCEPT ![t] = {}]
    /\ Move(t, "done")
    /\ UNCHANGED <<migrateVars, second, fresh, statements>>

Work(t) ==
    \/ Enter(t) \/ Autobegin(t) \/ InsertRefused(t) \/ Commit(t) \/ OnSpend(t)
    \/ EnterSecond(t) \/ LeaveSecond(t) \/ SpendRefused(t) \/ PoolTimeout(t) \/ Leave(t)

Idle ==
    /\ goal = NoCommand
    /\ \A t \in Threads : place[t] \in {"done", "failed"}
    /\ UNCHANGED vars

Next ==
    \/ MigrateNext /\ UNCHANGED sessionVars
    \/ \E t \in Threads : Work(t)
    \/ Idle

Spec == SessionInit /\ [][Next]_vars

\* Threads are scheduled, every statement returns, and a wait for a connection ends with
\* one or with the pool's timeout.
FairSpec == Spec /\ \A t \in Threads : WF_vars(Work(t))

-----------------------------------------------------------------------------
(* Properties.                                                              *)

TypeOK ==
    /\ db.rev \in 0..Head
    /\ db.secured \subseteq db.tables
    /\ db.tables \subseteq InitialTables \cup ScopedTables \cup Embedding \cup Partitions
    /\ place \in [Threads -> {"new", "body", "spending", "done", "failed"}]
    /\ conn \in [Threads -> SUBSET Conns]
    /\ second \in [Threads -> SUBSET Conns]
    /\ bound \in [Conns -> Tenants \cup {Unset}]
    /\ fresh \in [Threads -> BOOLEAN]
    /\ statements \in [Threads -> 0..MaxStatements]

\* A session sees its own tenant's rows in its first transaction and none after a commit,
\* never another tenant's, whoever had the connection before (session.py: "the next
\* borrower of that connection inherits the previous tenant"); the inner session of
\* on_spend sees its own tenant's.  So it is once the schema is at 0003, in every table
\* with a tenant_id but the partitions that were made before 0003 (`bare`).
OwnRowsOnly ==
    db.rev >= 3 =>
        \A t \in Threads, table \in db.tables \ ({"tenant"} \cup bare) :
            /\ \A c \in conn[t] : Visible(c, table) = IF fresh[t] THEN {TenantOf[t]} ELSE {}
            /\ \A c \in second[t] : Visible(c, table) = {TenantOf[t]}

\* Every session ends, even if sessions hold all connections and each wants a second one.
SessionsEnd == \A t \in Threads : <>(place[t] \in {"done", "failed"})
=============================================================================
