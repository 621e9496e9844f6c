------------------------------ MODULE Migrator ------------------------------
(***************************************************************************)
(* db/migrator and db/migrations: several gateway instances, possibly of   *)
(* different versions, bring one database to their latest schema when they *)
(* start.  Each migration runs in a transaction of its own that locks the  *)
(* migrations table, reads which migrations are marked, runs the first one *)
(* that is not and marks it.  Any statement can fail, an instance can die  *)
(* at any point, and the answer to a commit can be lost.  The command      *)
(* truncate-db (DropTables) is run while no instance migrates.             *)
(*                                                                         *)
(* Migrations are numbered in the order of their names.  What a migration  *)
(* does to the schema is not modelled: runs counts how often its Up has    *)
(* been committed on the data tables that now exist.                       *)
(***************************************************************************)
EXTENDS Integers

CONSTANTS
    Instances,      \* the gateway processes that use the database
    Version,        \* Version[i]: the last migration instance i knows
    Env,            \* which of "truncate", "dropFails" happen
    None,           \* nobody holds the lock, no migration is chosen
    MaxStarts       \* bound on how often an instance is started

(* An instance registers at least one migration: Migrate returns an error  *)
(* for an empty list.                                                      *)
ASSUME MigratorAssumption ==
    /\ Version \in [Instances -> Nat \ {0}]
    /\ None \notin Instances
    /\ None \notin Nat
    /\ MaxStarts \in Nat

Migrations == UNION {1 .. Version[i] : i \in Instances}

VARIABLES
    hasTable,       \* the migrations table exists
    marks,          \* its rows: the migrations marked as applied
    runs,           \* how often each migration was run on the data tables
    lock,           \* the instance whose transaction locks the table
    chosen,         \* per instance, the migration its transaction has run
    pc,             \* per instance, where RunMigrations is
    starts          \* per instance, how often it was started

vars == <<hasTable, marks, runs, lock, chosen, pc, starts>>

TypeOK ==
    /\ hasTable \in BOOLEAN
    /\ marks \in SUBSET Migrations
    /\ runs \in [Migrations -> Nat]
    /\ lock \in Instances \cup {None}
    /\ chosen \in [Instances -> Migrations \cup {None}]
    /\ pc \in [Instances -> {"off", "init", "begin", "fetch", "commit", "status", "done"}]
    /\ starts \in [Instances -> 0 .. MaxStarts]

Init ==
    /\ hasTable = FALSE
    /\ marks = {}
    /\ runs = [m \in Migrations |-> 0]
    /\ lock = None
    /\ chosen = [i \in Instances |-> None]
    /\ pc = [i \in Instances |-> "off"]
    /\ starts = [i \in Instances |-> 0]

Goes(i, place) == pc' = [pc EXCEPT ![i] = place]

Unlock(i) == lock' = IF lock = i THEN None ELSE lock

-----------------------------------------------------------------------------
(* An instance that is not running, or one that finished, is started.      *)
Start(i) ==
    /\ pc[i] \in {"off", "done"}
    /\ starts[i] < MaxStarts
    /\ starts' = [starts EXCEPT ![i] = @ + 1]
    /\ Goes(i, "init")
    /\ UNCHANGED <<hasTable, marks, runs, lock, chosen>>

(* Migrator.Init: CREATE TABLE IF NOT EXISTS.                              *)
InitTable(i) ==
    /\ pc[i] = "init"
    /\ hasTable' = TRUE
    /\ Goes(i, "begin")
    /\ UNCHANGED <<marks, runs, lock, chosen, starts>>

(* Mutant: a transaction that does not lock the table. *)
NoLock(i) ==
    /\ pc[i] = "begin"
    /\ Goes(i, "fetch")
    /\ UNCHANGED <<hasTable, marks, runs, lock, chosen, starts>>

(* lockMigrations: LOCK TABLE waits for the transaction that holds it.     *)
lockMigrations(i) ==
    /\ pc[i] = "begin"
    /\ hasTable
    /\ lock = None
    /\ lock' = i
    /\ Goes(i, "fetch")
    /\ UNCHANGED <<hasTable, marks, runs, chosen, starts>>

(* migrationsWithStatus(...).Unapplied(): what i knows and is not marked.  *)
Unapplied(i) == {m \in 1 .. Version[i] : m \notin marks}

(* The first migration of the ascending list.                              *)
IsFirst(m, ms) == m \in ms /\ \A k \in ms : m <= k

(* The body of the transaction: fetch, run the Up, markApplied.  With      *)
(* nothing to do it sets stop and commits an empty transaction.            *)
FetchAndRun(i) ==
    /\ pc[i] = "fetch"
    /\ \/ /\ Unapplied(i) = {}
          /\ Unlock(i)
          /\ Goes(i, "status")
          /\ UNCHANGED chosen
       \/ /\ \E m \in Migrations :
               /\ IsFirst(m, Unapplied(i))
               /\ chosen' = [chosen EXCEPT ![i] = m]
          /\ Goes(i, "commit")
          /\ UNCHANGED lock
    /\ UNCHANGED <<hasTable, marks, runs, starts>>

(* The effects of the transaction become visible together.                 *)
Committed(i) ==
    /\ runs' = [runs EXCEPT ![chosen[i]] = @ + 1]
    /\ marks' = marks \cup {chosen[i]}

(* The commit succeeds, and the loop begins the next transaction.          *)
Commit(i) ==
    /\ pc[i] = "commit"
    /\ Committed(i)
    /\ Unlock(i)
    /\ chosen' = [chosen EXCEPT ![i] = None]
    /\ Goes(i, "begin")
    /\ UNCHANGED <<hasTable, starts>>

(* MigrationsWithStatus after the loop, for the log line.                  *)
Status(i) ==
    /\ pc[i] = "status"
    /\ Goes(i, "done")
    /\ UNCHANGED <<hasTable, marks, runs, lock, chosen, starts>>

(* Mutant: a process that dies inside the transaction and keeps the table locked. *)
FailLocked(i) ==
    /\ pc[i] \in {"init", "begin", "fetch", "commit", "status"}
    /\ \/ UNCHANGED <<marks, runs>>
       \/ pc[i] = "commit" /\ Committed(i)
    /\ chosen' = [chosen EXCEPT ![i] = None]
    /\ Goes(i, "off")
    /\ UNCHANGED <<hasTable, starts, lock>>

(* A statement fails or the process dies: the transaction is rolled back,  *)
(* the lock is released and RunMigrations, and with it the process, ends.  *)
(* A commit whose answer is lost takes effect all the same.                *)
Fail(i) ==
    /\ pc[i] \in {"init", "begin", "fetch", "commit", "status"}
    /\ \/ UNCHANGED <<marks, runs>>
       \/ pc[i] = "commit" /\ Committed(i)
    /\ Unlock(i)
    /\ chosen' = [chosen EXCEPT ![i] = None]
    /\ Goes(i, "off")
    /\ UNCHANGED <<hasTable, starts>>

-----------------------------------------------------------------------------
(* DropTables: one DROP per table of the public schema, not in one         *)
(* transaction.  A drop that fails is logged and skipped, and nil is       *)
(* returned.  Everyone is stopped before, and started again after.         *)
DropTables ==
    /\ "truncate" \in Env
    /\ hasTable
    /\ \A i \in Instances : pc[i] \in {"off", "done"}
    /\ \E dropped \in SUBSET {"migrations", "data"} :
         /\ "dropFails" \in Env \/ dropped = {"migrations", "data"}
         /\ IF "migrations" \in dropped
            THEN hasTable' = FALSE /\ marks' = {}
            ELSE UNCHANGED <<hasTable, marks>>
         /\ runs' = IF "data" \in dropped THEN [m \in Migrations |-> 0] ELSE runs
    /\ pc' = [i \in Instances |-> "off"]
    /\ UNCHANGED <<lock, chosen, starts>>

Next ==
    \/ \E i \in Instances :
         \/ Start(i) \/ InitTable(i) \/ lockMigrations(i) \/ FetchAndRun(i)
         \/ Commit(i) \/ Status(i) \/ Fail(i)
    \/ DropTables

Spec == Init /\ [][Next]_vars

-----------------------------------------------------------------------------
(* Each migration that is marked has been run exactly once, and each one   *)
(* that is not marked has not been run: instances that start together, die *)
(* between the Up and the mark, or lose the answer to a commit never run a *)
(* migration twice or skip one (TestConcurentMigrations checks the first   *)
(* part for five goroutines and no failure).                               *)
ExactlyOnce == \A m \in Migrations : runs[m] = IF m \in marks THEN 1 ELSE 0

(* Every migration finds the schema of its predecessors: no marked         *)
(* migration has an unmarked one before it, also when an older instance    *)
(* migrates concurrently with a newer one ("the order is important and is  *)
(* used in Migrate").                                                      *)
InOrder == \A m \in marks : \A k \in 1 .. m : k \in marks

(* When Migrate has returned nil, the database has every migration the     *)
(* instance knows: its "Migrate migrates the DB to latest version."        *)
LatestAfterMigrate ==
    \A i \in Instances : pc[i] = "done" => \A m \in 1 .. Version[i] : runs[m] > 0

(* Everyone who starts to migrate gets an answer: the table lock is given  *)
(* back on every path, so that no instance waits for it forever.           *)
MigrateReturns ==
    \A i \in Instances : pc[i] = "init" ~> pc[i] \in {"off", "done"}
=============================================================================
