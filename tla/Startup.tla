------------------------------ MODULE Startup ------------------------------
(***************************************************************************)
(* Migrator and LogTxIndexFixer composed as runRoot (main.go) composes     *)
(* them: a process migrates the database first and starts its fixer when   *)
(* RunMigrations has returned nil.  Several instances share the database;  *)
(* the fixer of one of them, Runner, is followed.  Those of the others do  *)
(* no more than take rounds out of the mismatched ones.                    *)
(***************************************************************************)
EXTENDS Migrator, LogTxIndexFixer

CONSTANT Runner     \* the instance whose fixer is followed

ASSUME RunnerAssumption == Runner \in Instances

allVars == <<vars, fixerVars>>

StartupInit == Init /\ FixerInit

(* The process is started, for the first time, after a failed migration or *)
(* after the fixer was stopped with its process.                           *)
StartProcess(i) ==
    /\ Start(i)
    /\ IF i = Runner /\ pc[i] = "done" THEN Restart ELSE UNCHANGED fixerVars

Migrate(i) ==
    /\ InitTable(i) \/ lockMigrations(i) \/ FetchAndRun(i) \/ Commit(i) \/ Status(i)
    /\ UNCHANGED fixerVars

MigrateFails(i) == Fail(i) /\ UNCHANGED fixerVars

(* Mutant: the fixer is started before the migrations. *)
FixerRunsEarly ==
    /\ FindHighest \/ FindFails \/ CheckContext \/ FixBatch \/ FixFails
         \/ BackoffEnds \/ Cancel
    /\ UNCHANGED vars

(* The fixer runs between the return of RunMigrations and the end of its   *)
(* process.                                                                *)
FixerRuns ==
    /\ pc[Runner] = "done"
    /\ FindHighest \/ FindFails \/ CheckContext \/ FixBatch \/ FixFails
         \/ BackoffEnds \/ Cancel
    /\ UNCHANGED vars

OthersPrune == Prune /\ UNCHANGED vars

(* truncate-db, with every process stopped: the logs go with the data. *)
Truncate ==
    /\ DropTables
    /\ mismatched' = IF \A m \in Migrations : runs'[m] = 0 THEN {} ELSE mismatched
    /\ fixerPc' = "search" /\ currentEndRound' = 0 /\ cancelled' = FALSE
    /\ UNCHANGED stops

StartupNext ==
    \/ \E i \in Instances : StartProcess(i) \/ Migrate(i) \/ MigrateFails(i)
    \/ FixerRuns \/ OthersPrune \/ Truncate

StartupSpec == StartupInit /\ [][StartupNext]_allVars

Runs(A) == A /\ pc[Runner] = "done" /\ UNCHANGED vars

(* Every process that runs takes its steps, a free table lock is given to  *)
(* a transaction that waits for it, and a batch of the fixer that is       *)
(* repeated forever succeeds in the end.                                   *)
StartupFairness ==
    /\ \A i \in Instances : WF_allVars(Migrate(i))
    /\ WF_allVars(Runs(CheckContext)) /\ WF_allVars(Runs(BackoffEnds))
    /\ SF_allVars(Runs(FixBatch))

StartupFairSpec == StartupSpec /\ StartupFairness

-----------------------------------------------------------------------------
(* The fixer never works on a database without the columns it needs: when  *)
(* it has searched, every migration its process knows has been applied to  *)
(* the data tables, whatever older instances and truncate-db did.          *)
FixerOnLatestSchema ==
    fixerPc # "search" => \A m \in 1 .. Version[Runner] : runs[m] > 0
=============================================================================
