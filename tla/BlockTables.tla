---------------------------- MODULE BlockTables ----------------------------
(***************************************************************************)
(* The rows of transactions and receipts, statement by statement: the      *)
(* database transaction of StoreBlockData (indexer/utils.go) beside the    *)
(* one of Prune (indexer/backend.go), under PostgreSQL's READ COMMITTED    *)
(* isolation, the default that RunInTransaction leaves in place.           *)
(*                                                                         *)
(* A statement sees what was committed before it and what its own          *)
(* transaction wrote.  It waits for a row that the other transaction has   *)
(* updated or deleted.  ON CONFLICT DO NOTHING locks no row it finds.      *)
(***************************************************************************)
EXTENDS RuntimeBlocks, FiniteSets, Functions

CONSTANTS
    PruningStep,    \* cfg.PruningStep
    Failures        \* whether statements and commits can fail

ASSUME StepAssumption == PruningStep \in Nat
ASSUME FailuresAssumption == Failures \in BOOLEAN

VARIABLES
    history,        \* the runtime's blocks
    continues,      \* the Continues tip, 0 when there is no row
    lastIndexedRound,   \* CachingBackend.lastIndexedRound: the last round reported stored
    lastRetained,   \* the LastRetained tip
    blocks,         \* rounds with a block row
    txs,            \* transactions table: hash |-> row
    receipts,       \* receipts table: hash |-> row
    stPc,           \* where StoreBlockData's transaction is
    stPos,          \* the index of the transaction or receipt it is at
    stTxs,          \* its uncommitted rows
    stReceipts,
    prPc,           \* where Prune's transaction is
    prRound,        \* the round it prunes below
    prTxs,          \* the hashes whose rows it has deleted, uncommitted
    prReceipts

stVars == <<stPc, stPos, stTxs, stReceipts>>
prVars == <<prPc, prRound, prTxs, prReceipts>>
vars == <<history, continues, lastIndexedRound, lastRetained, blocks, txs, receipts,
          stPc, stPos, stTxs, stReceipts, prPc, prRound, prTxs, prReceipts>>

NoRows == [h \in {} |-> 0]

(* A table after the rows of new are written over it. *)
Over(new, table) ==
    [h \in DOMAIN new \cup DOMAIN table |-> IF h \in DOMAIN new THEN new[h] ELSE table[h]]

-----------------------------------------------------------------------------
Init ==
    /\ history \in Histories
    /\ continues = 0 /\ lastIndexedRound = 0 /\ lastRetained = 0
    /\ blocks = {} /\ txs = NoRows /\ receipts = NoRows
    /\ stPc = "idle" /\ stPos = 0 /\ stTxs = NoRows /\ stReceipts = NoRows
    /\ prPc = "idle" /\ prRound = 0 /\ prTxs = {} /\ prReceipts = {}

-----------------------------------------------------------------------------
(* StoreBlockData.  The next round is the one after the last reported. *)

(* What is left of the round's transactions after they are decoded: the    *)
(* Ethereum ones with their hash and status, in order.  Gas, prices and    *)
(* logs are abstracted.  A round that cannot be decoded is not started.    *)
Block == history[lastIndexedRound + 1]

(* The model row of the transaction in hand, and of its receipt, with the  *)
(* columns that a property tells apart.                                    *)
Row == [round |-> lastIndexedRound + 1, index |-> stPos, status |-> Block[stPos].status]

Begin ==
    /\ stPc = "idle"
    /\ lastIndexedRound < MaxRound
    /\ stPc' = "txs"
    /\ stPos' = 1
    /\ UNCHANGED <<history, continues, lastIndexedRound, lastRetained, blocks, txs, receipts,
                   stTxs, stReceipts, prVars>>

(* The statement on the row of hash h need not wait for Prune. *)
Unlocked(h, own, deleted) == h \in DOMAIN own \/ h \notin deleted

(* The row of h the transaction sees. *)
Sees(h, own, table) == h \in DOMAIN own \cup DOMAIN table

(* Mutant: a failed transaction is upserted like a successful one. *)
WrittenAlways(h, own, table) == Over([x \in {h} |-> Row], own)

(* The uncommitted rows after a transaction or receipt is stored: a failed *)
(* one is inserted if there is none yet, a successful one is upserted.     *)
Written(h, own, table) ==
    IF Succeeded(Block[stPos]) \/ ~Sees(h, own, table)
    THEN Over([x \in {h} |-> Row], own)
    ELSE own

(* Mutant: any earlier encounter is an error, a failed one too. *)
DuplicateAny(h, own, table) == Succeeded(Block[stPos]) /\ Sees(h, own, table)

(* An earlier success of the same hash is an error. *)
Duplicate(h, own, table) ==
    /\ Succeeded(Block[stPos])
    /\ Sees(h, own, table)
    /\ Succeeded(Over(own, table)[h])

StoreTx ==
    /\ stPc = "txs"
    /\ stPos <= Len(Block)
    /\ LET h == Block[stPos].hash IN
           /\ Unlocked(h, stTxs, prTxs)
           /\ ~Duplicate(h, stTxs, txs)
           /\ stTxs' = Written(h, stTxs, txs)
    /\ stPos' = stPos + 1
    /\ UNCHANGED <<history, continues, lastIndexedRound, lastRetained, blocks, txs, receipts,
                   stPc, stReceipts, prVars>>

TxsStored ==
    /\ stPc = "txs"
    /\ stPos > Len(Block)
    /\ stPc' = "receipts"
    /\ stPos' = 1
    /\ UNCHANGED <<history, continues, lastIndexedRound, lastRetained, blocks, txs, receipts,
                   stTxs, stReceipts, prVars>>

StoreReceipt ==
    /\ stPc = "receipts"
    /\ stPos <= Len(Block)
    /\ LET h == Block[stPos].hash IN
           /\ Unlocked(h, stReceipts, prReceipts)
           /\ ~Duplicate(h, stReceipts, receipts)
           /\ stReceipts' = Written(h, stReceipts, receipts)
    /\ stPos' = stPos + 1
    /\ UNCHANGED <<history, continues, lastIndexedRound, lastRetained, blocks, txs, receipts,
                   stPc, stTxs, prVars>>

(* The logs, the block row and the tip are written and all is committed. *)
Commit ==
    /\ stPc = "receipts"
    /\ stPos > Len(Block)
    /\ continues' = lastIndexedRound + 1
    /\ lastIndexedRound' = lastIndexedRound + 1
    /\ blocks' = blocks \cup {lastIndexedRound + 1}
    /\ txs' = Over(stTxs, txs)
    /\ receipts' = Over(stReceipts, receipts)
    /\ stPc' = "idle" /\ stPos' = 0 /\ stTxs' = NoRows /\ stReceipts' = NoRows
    /\ UNCHANGED <<history, lastRetained, prVars>>

(* The transaction or receipt in hand is a duplicate. *)
InHandDuplicate ==
    /\ stPos <= Len(Block)
    /\ LET h == Block[stPos].hash IN
           \/ stPc = "txs" /\ Duplicate(h, stTxs, txs)
           \/ stPc = "receipts" /\ Duplicate(h, stReceipts, receipts)

(* A duplicate, or a failed statement or commit, rolls the transaction     *)
(* back; the round is tried again later.                                   *)
Abort ==
    /\ stPc # "idle"
    /\ Failures \/ InHandDuplicate
    /\ stPc' = "idle" /\ stPos' = 0 /\ stTxs' = NoRows /\ stReceipts' = NoRows
    /\ UNCHANGED <<history, continues, lastIndexedRound, lastRetained, blocks, txs, receipts, prVars>>

(* The lookup of the earlier transaction or receipt fails.  The closure    *)
(* returns the outer err, which is nil; COMMIT of the failed transaction   *)
(* rolls it back and StoreBlockData reports the round as stored.           *)
LookupFails ==
    /\ Failures
    /\ stPc # "idle"
    /\ stPos <= Len(Block)
    /\ Succeeded(Block[stPos])
    /\ lastIndexedRound' = lastIndexedRound + 1
    /\ stPc' = "idle" /\ stPos' = 0 /\ stTxs' = NoRows /\ stReceipts' = NoRows
    /\ UNCHANGED <<history, continues, lastRetained, blocks, txs, receipts, prVars>>

Store == Begin \/ StoreTx \/ TxsStored \/ StoreReceipt \/ Commit

-----------------------------------------------------------------------------
(* Prune.  The LastRetained tip is committed at once, outside the          *)
(* transaction; the rows of blocks and logs meet no other writer.          *)

PruneBegin ==
    /\ prPc = "idle"
    /\ lastIndexedRound > PruningStep
    /\ prRound' = lastIndexedRound - PruningStep
    /\ lastRetained' = prRound'
    /\ prPc' = "txs"
    /\ UNCHANGED <<history, continues, lastIndexedRound, blocks, txs, receipts, stVars, prTxs, prReceipts>>

Below(table) == {h \in DOMAIN table : table[h].round < prRound}

PruneTxs ==
    /\ prPc = "txs"
    /\ Below(txs) \cap DOMAIN stTxs = {}
    /\ prTxs' = Below(txs)
    /\ prPc' = "receipts"
    /\ UNCHANGED <<history, continues, lastIndexedRound, lastRetained, blocks, txs, receipts, stVars,
                   prRound, prReceipts>>

PruneReceipts ==
    /\ prPc = "receipts"
    /\ Below(receipts) \cap DOMAIN stReceipts = {}
    /\ prReceipts' = Below(receipts)
    /\ prPc' = "commit"
    /\ UNCHANGED <<history, continues, lastIndexedRound, lastRetained, blocks, txs, receipts, stVars,
                   prRound, prTxs>>

(* Mutant: the rows of the transactions are left behind. *)
PruneCommitNoTxs ==
    /\ prPc = "commit"
    /\ blocks' = {r \in blocks : r >= prRound}
    /\ receipts' = Restrict(receipts, DOMAIN receipts \ prReceipts)
    /\ prPc' = "idle" /\ prRound' = 0 /\ prTxs' = {} /\ prReceipts' = {}
    /\ UNCHANGED <<history, continues, lastIndexedRound, lastRetained, txs, stVars>>

PruneCommit ==
    /\ prPc = "commit"
    /\ blocks' = {r \in blocks : r >= prRound}
    /\ txs' = Restrict(txs, DOMAIN txs \ prTxs)
    /\ receipts' = Restrict(receipts, DOMAIN receipts \ prReceipts)
    /\ prPc' = "idle" /\ prRound' = 0 /\ prTxs' = {} /\ prReceipts' = {}
    /\ UNCHANGED <<history, continues, lastIndexedRound, lastRetained, stVars>>

PruneAbort ==
    /\ Failures
    /\ prPc # "idle"
    /\ prPc' = "idle" /\ prRound' = 0 /\ prTxs' = {} /\ prReceipts' = {}
    /\ UNCHANGED <<history, continues, lastIndexedRound, lastRetained, blocks, txs, receipts, stVars>>

Prune == PruneBegin \/ PruneTxs \/ PruneReceipts \/ PruneCommit

-----------------------------------------------------------------------------
Next == Store \/ Abort \/ LookupFails \/ Prune \/ PruneAbort

Spec == Init /\ [][Next]_vars

(* Each transaction goes on unless it waits for a row of the other. *)
Fairness == WF_vars(Store) /\ WF_vars(Prune)

FairSpec == Spec /\ Fairness

-----------------------------------------------------------------------------
(* Queries (storage/psql/psql.go). *)

(* The transactions of the block of round r, the relation that             *)
(* GetBlockByNumber loads by block hash, in the order of their index.      *)
IndexesOf(r) == {txs[h].index : h \in {x \in DOMAIN txs : txs[x].round = r}}

-----------------------------------------------------------------------------
IsTable(t) == t \in [DOMAIN t -> [round : Rounds, index : Nat \ {0}, status : Statuses]]
                /\ DOMAIN t \subseteq Hashes

(* The types of the variables. *)
TypeOK ==
    /\ history \in Histories
    /\ continues \in 0..MaxRound
    /\ lastIndexedRound \in continues..MaxRound
    /\ lastRetained \in 0..MaxRound
    /\ blocks \subseteq Rounds
    /\ IsTable(txs) /\ IsTable(receipts) /\ IsTable(stTxs) /\ IsTable(stReceipts)
    /\ stPc \in {"idle", "txs", "receipts"}
    /\ stPos \in Nat
    /\ prPc \in {"idle", "txs", "receipts", "commit"}
    /\ prRound \in 0..MaxRound
    /\ prTxs \subseteq DOMAIN txs /\ prReceipts \subseteq DOMAIN receipts

(* A transaction that succeeded in a retained, stored round has the row    *)
(* and the receipt of that execution: no failed inclusion, earlier or      *)
(* later, no concurrent deletion and no failed lookup ever hides it.       *)
SuccessKept ==
    \A r \in blocks : r >= lastRetained =>
        \A i \in DOMAIN history[r] : Succeeded(history[r][i]) =>
            LET h == history[r][i].hash
                row == [round |-> r, index |-> i, status |-> ReceiptStatusSuccessful]
            IN  /\ h \in DOMAIN txs /\ txs[h] = row
                /\ h \in DOMAIN receipts /\ receipts[h] = row

(* Every row tells the truth and belongs to a block that is still stored:  *)
(* a query by hash never leads to a block that was pruned away.            *)
RowsHaveBlocks ==
    \A t \in {txs, receipts} : \A h \in DOMAIN t :
        /\ t[h].round \in blocks
        /\ history[t[h].round][t[h].index] = [hash |-> h, status |-> t[h].status]

(* A statement or commit fails although nothing is wrong with the block. *)
Fault == (Abort /\ ~InHandDuplicate) \/ LookupFails \/ PruneAbort

(* The two transactions never block each other for ever, and no block is   *)
(* refused for ever: once statements stop failing, the last round is       *)
(* reached.                                                                *)
StoresAll == <>[][~Fault]_vars => <>(lastIndexedRound = MaxRound)

(* The two tables name the same transactions: a duplicate that is dropped  *)
(* ("the gateway should drop these transactions", indexer/utils.go) is     *)
(* dropped with its receipt.                                               *)
TablesAgree == DOMAIN txs = DOMAIN receipts

(* GetBlockTransaction "returns transaction by bock hash and transaction   *)
(* index": it takes the index-th element of the block's rows, so that rows *)
(* must have the indexes 1, 2, ... without a hole.                         *)
IndexIsPosition ==
    \A r \in blocks : IndexesOf(r) = 1..Cardinality(IndexesOf(r))
=============================================================================
