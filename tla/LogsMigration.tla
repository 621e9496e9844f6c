--------------------------- MODULE LogsMigration ---------------------------
(***************************************************************************)
(* The migration 20220109122505_logs (db/migrations): LogsUp gives the     *)
(* logs of every retained round new indexes, batch by batch, inside the    *)
(* database transaction in which the migrator runs it.                     *)
(*                                                                         *)
(* A log is its round, its transaction, its index, which with the          *)
(* transaction is the primary key, and what it says.                       *)
(***************************************************************************)
EXTENDS Integers, FiniteSets, Functions, SequencesExt

CONSTANTS
    LogTables,          \* the log tables the migration may find
    LogTips,            \* the tips it may find: [lastRetained, continues]
    LogsBatchSize       \* batchSize

(* No two rows have the same primary key. *)
KeysDiffer(rows) ==
    \A l, m \in rows : l.tx = m.tx /\ l.index = m.index => l = m

ASSUME LogsAssumption ==
    /\ LogsBatchSize \in Nat \ {0}
    /\ LogTips \subseteq [lastRetained : Nat, continues : Nat]

(* A log table is a finite set of rows with a primary key, and the logs of *)
(* a transaction are those of the one round in which it succeeded.         *)
ASSUME TablesAssumption ==
    \A table \in LogTables :
        /\ IsFiniteSet(table)
        /\ \A l \in table :
              /\ l.round \in Nat /\ l.index \in Nat
              /\ l = [round |-> l.round, tx |-> l.tx, index |-> l.index, data |-> l.data]
        /\ KeysDiffer(table)
        /\ \A l, m \in table : l.tx = m.tx => l.round = m.round

VARIABLES
    logs,       \* the log table, as the transaction sees it
    logsBefore, \* the log table as it is committed
    logTips,    \* the two tips
    upPc,       \* where LogsUp is
    upRound     \* its loop variable

logsVars == <<logs, logsBefore, logTips, upPc, upRound>>

LogsInit ==
    /\ logs \in LogTables
    /\ logsBefore = logs
    /\ logTips \in LogTips
    /\ upPc = "loop"
    /\ upRound = logTips.lastRetained

-----------------------------------------------------------------------------
(* GetLogs: ordered by round, in any order within a round. *)
GetLogs(first, last) ==
    {s \in SetToSeqs({l \in logs : l.round \in first..last}) :
        \A i \in 1..Len(s) - 1 : s[i].round <= s[i + 1].round}

(* Mutant: the index is not reset when the round changes. *)
RenumberThrough(rows) ==
    [i \in DOMAIN rows |-> [rows[i] EXCEPT !.index = i - 1]]

(* The index counts from 0 in every round. *)
Renumber(rows) ==
    LET index[i \in DOMAIN rows] ==
            IF i = 1 \/ rows[i].round # rows[i - 1].round THEN 0 ELSE index[i - 1] + 1
    IN  [i \in DOMAIN rows |-> [rows[i] EXCEPT !.index = index[i]]]

(* An iteration: the rows of the batch are read, deleted, renumbered and   *)
(* inserted; that no primary key is in the way is part of LogsRenumbered.  *)
MigrateBatch ==
    /\ upPc = "loop"
    /\ upRound <= logTips.continues
    /\ LET last == IF upRound + LogsBatchSize - 1 <= logTips.continues
                   THEN upRound + LogsBatchSize - 1 ELSE logTips.continues
           kept == {l \in logs : l.round \notin upRound..last}
       IN  \E rows \in GetLogs(upRound, last) :
               logs' = kept \cup Range(Renumber(rows))
    /\ upRound' = upRound + LogsBatchSize
    /\ UNCHANGED <<logsBefore, logTips, upPc>>

(* A statement fails, or the process dies: the transaction is rolled back, *)
(* and the migration starts over.                                          *)
MigrationFails ==
    /\ upPc = "loop"
    /\ logs' = logsBefore
    /\ upRound' = logTips.lastRetained
    /\ UNCHANGED <<logsBefore, logTips, upPc>>

LogsMigrated ==
    /\ upPc = "loop"
    /\ upRound > logTips.continues
    /\ upPc' = "done"
    /\ UNCHANGED <<logs, logsBefore, logTips, upRound>>

LogsUp == MigrateBatch \/ MigrationFails \/ LogsMigrated

LogsSpec == LogsInit /\ [][LogsUp]_logsVars

-----------------------------------------------------------------------------
(* Once it is done, the logs of every retained round have the indexes 0,   *)
(* 1, ... without a hole or a repetition, in whatever order the database   *)
(* returned them and wherever the batches begin and end; no log was lost,  *)
(* doubled or moved to another round.  No batch meets the primary key of a *)
(* log that is already in the table.                                       *)
LogsRenumbered ==
    /\ KeysDiffer(logs)
    /\ upPc = "done" =>
        /\ Cardinality(logs) = Cardinality(logsBefore)
        /\ \A l \in logsBefore : \E m \in logs : m = [l EXCEPT !.index = m.index]
        /\ \A r \in logTips.lastRetained..logTips.continues :
              LET mine == {l \in logs : l.round = r}
              IN  {l.index : l \in mine} = 0..Cardinality(mine) - 1
=============================================================================
