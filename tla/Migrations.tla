------------------------------- MODULE Migrations -------------------------------
(***************************************************************************)
(* Gateway processes that start, each of which first brings the schema up  *)
(* to date (platform/postgres.go, RunMigrations), then serves, and stops   *)
(* (cmd/server/main.go).  They share a database and know nothing of each   *)
(* other.  A process may crash at any step; its transaction is rolled back.*)
(*                                                                         *)
(* A migration is the number of its file in the sorted list.               *)
(***************************************************************************)
EXTENDS Naturals

CONSTANTS
    Instance,     \* processes of the gateway
    Last,         \* number of migrations
    Repeatable    \* those whose SQL can run twice: 005 (ON CONFLICT) and 010

Migration == 1..Last

ASSUME MigrationsAssumption == Last \in Nat /\ Repeatable \subseteq Migration

VARIABLES
    table,        \* schema_migrations exists
    recorded,     \* its rows
    ran,          \* ran[m]: how often the SQL of m has been committed
    state,        \* state[i]: what instance i does next
    at,           \* at[i]: the migration it is at in its loop
    seen          \* history: seen[i], table and rows when i last looked

database == <<table, recorded, ran>>
migrationVars == <<database, state, at, seen>>

\* What an instance at "record" or "commit" has written is not committed yet.
InTransaction == {"record", "commit"}
Starting == {"create", "creating", "check", "exec"} \union InTransaction
Stopped == {"down", "failed"}

MigrationsTypeOK ==
    /\ table \in BOOLEAN
    /\ recorded \subseteq Migration
    /\ ran \in [Migration -> Nat]
    /\ state \in [Instance -> Starting \union Stopped \union {"serving", "stopping"}]
    /\ at \in [Instance -> 1..(Last + 1)]
    /\ seen \in [Instance -> BOOLEAN \X SUBSET Migration]

MigrationsInit ==
    /\ table = FALSE /\ recorded = {}
    /\ ran = [m \in Migration |-> 0]
    /\ state = [i \in Instance |-> "down"]
    /\ at = [i \in Instance |-> 1]
    /\ seen = [i \in Instance |-> <<FALSE, {}>>]

Goto(i, to) == state' = [state EXCEPT ![i] = to]

Look(i) == seen' = [seen EXCEPT ![i] = <<table, recorded>>]

--------------------------------------------------------------------------------
\* RunMigrations

Start(i) ==
    /\ state[i] \in Stopped
    /\ Goto(i, "create")
    /\ at' = [at EXCEPT ![i] = 1]
    /\ UNCHANGED <<database, seen>>

\* CREATE TABLE IF NOT EXISTS looks for the table, and creates it later: if
\* another instance was faster, a unique index of the catalogue refuses it.
LookForTable(i) ==
    /\ state[i] = "create"
    /\ Goto(i, IF table THEN "check" ELSE "creating")
    /\ Look(i)
    /\ UNCHANGED <<database, at>>

CreateTable(i) ==
    /\ state[i] = "creating"
    /\ table' = TRUE
    /\ Goto(i, IF table THEN "failed" ELSE "check")
    /\ UNCHANGED <<recorded, ran, at, seen>>

\* SELECT EXISTS for the version of one file; after the last one, main serves.
Check(i) ==
    /\ state[i] = "check"
    /\ Look(i)
    /\ \/ at[i] > Last /\ Goto(i, "serving") /\ UNCHANGED at
       \/ at[i] \in recorded /\ at' = [at EXCEPT ![i] = @ + 1] /\ UNCHANGED state
       \/ at[i] \in Migration \ recorded /\ Goto(i, "exec") /\ UNCHANGED at
    /\ UNCHANGED database

\* An uncommitted transaction of another instance has the same rows, names or
\* table locks.
Blocked(i) == \E j \in Instance \ {i} : state[j] \in InTransaction /\ at[j] = at[i]

\* Mutant of Exec: no transaction; what the file does is there before its version.
ExecAutocommit(i) ==
    /\ state[i] = "exec"
    /\ ~Blocked(i)
    /\ IF ran[at[i]] > 0 /\ at[i] \notin Repeatable
       THEN Goto(i, "failed") /\ UNCHANGED ran
       ELSE Goto(i, "record") /\ ran' = [ran EXCEPT ![at[i]] = @ + 1]
    /\ UNCHANGED <<table, recorded, at, seen>>

\* Mutant of Exec: it waits for everybody who is at the same file.
ExecPolite(i) ==
    /\ state[i] = "exec"
    /\ ~\E j \in Instance \ {i} : state[j] \in {"exec"} \union InTransaction /\ at[j] = at[i]
    /\ Goto(i, IF ran[at[i]] > 0 /\ at[i] \notin Repeatable THEN "failed" ELSE "record")
    /\ UNCHANGED <<database, at, seen>>

\* tx.Exec of the file.  (A transaction of another file may delay it, too.)
Exec(i) ==
    /\ state[i] = "exec"
    /\ ~Blocked(i)
    /\ Goto(i, IF ran[at[i]] > 0 /\ at[i] \notin Repeatable THEN "failed" ELSE "record")
    /\ UNCHANGED <<database, at, seen>>

\* Mutant of Record: ON CONFLICT DO NOTHING.
RecordAnyway(i) ==
    /\ state[i] = "record"
    /\ Goto(i, "commit")
    /\ UNCHANGED <<database, at, seen>>

\* INSERT INTO schema_migrations, whose primary key is the version.
Record(i) ==
    /\ state[i] = "record"
    /\ Goto(i, IF at[i] \in recorded THEN "failed" ELSE "commit")
    /\ UNCHANGED <<database, at, seen>>

\* Mutant of Commit: the loop moves on twice.
CommitSkips(i) ==
    /\ state[i] = "commit"
    /\ recorded' = recorded \union {at[i]}
    /\ ran' = [ran EXCEPT ![at[i]] = @ + 1]
    /\ Goto(i, "check")
    /\ at' = [at EXCEPT ![i] = @ + 2]
    /\ UNCHANGED <<table, seen>>

Commit(i) ==
    /\ state[i] = "commit"
    /\ recorded' = recorded \union {at[i]}
    /\ ran' = [ran EXCEPT ![at[i]] = @ + 1]
    /\ Goto(i, "check")
    /\ at' = [at EXCEPT ![i] = @ + 1]
    /\ UNCHANGED <<table, seen>>

Migrate(i) == LookForTable(i) \/ CreateTable(i) \/ Check(i) \/ Exec(i) \/ Record(i) \/ Commit(i)

--------------------------------------------------------------------------------
\* The rest of main

\* SIGINT, SIGTERM: srv.Shutdown.
Stop(i) ==
    /\ state[i] = "serving"
    /\ Goto(i, "stopping")
    /\ UNCHANGED <<database, at, seen>>

Exit(i) ==
    /\ state[i] = "stopping"
    /\ Goto(i, "down")
    /\ UNCHANGED <<database, at, seen>>

\* Killed, disconnected from the database, or a shutdown that took too long.
Crash(i) ==
    /\ state[i] \notin Stopped
    /\ Goto(i, "down")
    /\ UNCHANGED <<database, at, seen>>

MigrationsNext == \E i \in Instance : Start(i) \/ Migrate(i) \/ Stop(i) \/ Exit(i) \/ Crash(i)

MigrationsSpec == MigrationsInit /\ [][MigrationsNext]_migrationVars

--------------------------------------------------------------------------------
\* Properties

\* While an instance serves, every migration has been applied, and none twice, by
\* however many instances started at once or crashed on the way.
ServingComplete ==
    \A i \in Instance : state[i] \in {"serving", "stopping"} =>
        recorded = Migration /\ \A m \in Migration : ran[m] = 1

\* RunMigrations gives up only because another instance was faster: the schema is
\* further on than when it last looked.  So no database is ever in a state in
\* which no instance can start.
FailedBehind ==
    \A i \in Instance : state[i] = "failed" => seen[i] # <<table, recorded>>

\* Instances that migrate never wait for each other for good.
StartsEnd == \A i \in Instance : state[i] \in Starting ~> state[i] \notin Starting
================================================================================
