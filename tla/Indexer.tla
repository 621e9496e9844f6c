------------------------------ MODULE Indexer ------------------------------
(***************************************************************************)
(* The indexer's bookkeeping of rounds: the indexing worker and the        *)
(* pruning worker of indexer/indexer.go, the block table and the two tips  *)
(* they keep in PostgreSQL (indexer/backend.go, indexer/utils.go,          *)
(* storage/psql/psql.go), and the copy of the newer tip that the caching   *)
(* backend serves instead of the database (indexer/backend_cache.go).      *)
(*                                                                         *)
(* A block is reduced to its round, its header type and the parameters it  *)
(* was stored with.  The rows of its transactions, receipts and logs are   *)
(* written and deleted in the same database transactions as its block row. *)
(***************************************************************************)
EXTENDS Integers, FiniteSets, Functions

CONSTANTS
    MaxRound,       \* bound: the last round the node ever produces
    Chains,         \* the chains the node may be serving
    IndexingStart,  \* cfg.IndexingStart, 0 when unset
    IndexingEnd,    \* cfg.IndexingEnd, 0 when unset
    EnablePruning,  \* cfg.EnablePruning
    PruningStep,    \* cfg.PruningStep
    Env             \* what the environment does, see EnvBehaviours

(* "source":    a call to the node fails or times out                      *)
(* "storage":   a database transaction fails and is rolled back            *)
(* "lostAck":   a transaction commits, its acknowledgement is lost         *)
(* "lookup":    the lookup of an earlier transaction row fails (utils.go,  *)
(*              lines 441 and 476, return the outer err, which is nil)     *)
(* "slowStart": CachingBackend.Start takes longer than the indexer's first *)
(*              one-second delay                                           *)
(* "nodePrune": the node prunes old rounds                                 *)
(* "crash":     the gateway process is killed and started again            *)
EnvBehaviours ==
    {"source", "storage", "lostAck", "lookup", "slowStart", "nodePrune", "crash"}

Rounds == 0..MaxRound
HeaderTypes == {"Normal", "RoundFailed", "EpochTransition"}

NoRound == -1       \* storage.ErrNoRoundsIndexed
NoParams == -1      \* a nil *core.Parameters

ASSUME MaxRoundAssumption == MaxRound \in Nat
ASSUME ChainsAssumption == Chains \subseteq [Rounds -> HeaderTypes]
ASSUME ConfigAssumption ==
    /\ IndexingStart \in Nat
    /\ IndexingEnd \in Nat
    /\ EnablePruning \in BOOLEAN
    /\ PruningStep \in Nat
ASSUME EnvAssumption == Env \subseteq EnvBehaviours

VARIABLES
    chain,          \* header type of every round of the runtime's chain
    nodeLatest,     \* the latest round on the node
    nodeRetained,   \* the last retained round on the node
    ackLost,        \* history: some commit acknowledgement has been lost
    blocks,         \* the block table: round |-> epoch of the stored parameters
    continues,      \* the Continues tip
    lastRetained,   \* the LastRetained tip, 0 when there is no row
    lastIndexedRound,   \* CachingBackend.lastIndexedRound, 0 when unset
    coreParameters, \* Service.coreParameters: the epoch they were queried in
    rtInfo,         \* Service.rtInfo is not nil
    queryEpochParameters,   \* Service.queryEpochParameters
    ixPc,           \* where the indexing worker is
    round,          \* its startAt, then its loop variable
    latest,         \* its last round to index
    prPc,           \* where the pruning worker is
    pruneRound,     \* the round it passes to Prune
    csPc,           \* where CachingBackend.Start is
    csRead          \* the tip it has read and not yet stored

envVars == <<chain, nodeLatest, nodeRetained, ackLost>>
dbVars == <<blocks, continues, lastRetained>>
paramVars == <<coreParameters, rtInfo, queryEpochParameters>>
ixVars == <<ixPc, round, latest>>
prVars == <<prPc, pruneRound>>
csVars == <<csPc, csRead>>
vars == <<chain, nodeLatest, nodeRetained, ackLost, blocks, continues,
          lastRetained, lastIndexedRound, coreParameters, rtInfo, queryEpochParameters,
          ixPc, round, latest, prPc, pruneRound, csPc, csRead>>

-----------------------------------------------------------------------------
(* Derived values. *)

(* The epoch of a round: its parameters are those of this epoch. *)
Epoch(r) == Cardinality({t \in 0..r : chain[t] = "EpochTransition"})

(* CachingBackend.QueryLastIndexedRound: a cached 0 means "ask the database". *)
QueryLastIndexedRound ==
    IF lastIndexedRound # 0 THEN lastIndexedRound ELSE continues

MaxOf(a, b) == IF a >= b THEN a ELSE b

(* The first round the indexer wants, from the configuration or the node. *)
FirstWanted == IF IndexingStart = 0 THEN nodeRetained ELSE IndexingStart

(* Mutant: the last indexed round is ignored. *)
StartAtForgetful == FirstWanted

(* The first round an iteration of the indexing worker tries. *)
StartAt ==
    LET next == IF QueryLastIndexedRound = NoRound
                THEN 0
                ELSE QueryLastIndexedRound + 1
    IN  MaxOf(next, FirstWanted)

(* The node can serve the round. *)
Serves(r) == r \in nodeRetained..nodeLatest

StoreRow(r) == [x \in DOMAIN blocks \cup {r} |->
                    IF x = r THEN coreParameters ELSE blocks[x]]

(* Mutant: the row of round r itself goes too. *)
DeleteInclusive(r) == Restrict(blocks, {x \in DOMAIN blocks : x > r})

(* PostDB.Delete: rows of rounds strictly below r go. *)
Delete(r) == Restrict(blocks, {x \in DOMAIN blocks : x >= r})

-----------------------------------------------------------------------------
Init ==
    /\ chain \in Chains
    /\ nodeLatest \in Rounds
    /\ nodeRetained \in 0..nodeLatest
    /\ ackLost = FALSE
    /\ blocks = [r \in {} |-> NoParams]
    /\ continues = NoRound
    /\ lastRetained = 0
    /\ lastIndexedRound = 0
    /\ coreParameters = NoParams
    /\ rtInfo = FALSE
    /\ queryEpochParameters = FALSE
    /\ ixPc = "idle" /\ round = 0 /\ latest = 0
    /\ prPc = "idle" /\ pruneRound = 0
    /\ csPc = "read" /\ csRead = 0

-----------------------------------------------------------------------------
(* The node, from how the indexer uses it. *)

NodeProduces ==
    /\ nodeLatest < MaxRound
    /\ nodeLatest' = nodeLatest + 1
    /\ UNCHANGED <<chain, nodeRetained, ackLost, dbVars, lastIndexedRound, paramVars,
                   ixVars, prVars, csVars>>

NodePrunes ==
    /\ "nodePrune" \in Env
    /\ nodeRetained < nodeLatest
    /\ nodeRetained' = nodeRetained + 1
    /\ UNCHANGED <<chain, nodeLatest, ackLost, dbVars, lastIndexedRound, paramVars,
                   ixVars, prVars, csVars>>

-----------------------------------------------------------------------------
(* CachingBackend.Start: the tip is read from the database and stored with *)
(* a plain write.  A read that fails leaves 0.                             *)

CacheStartRead ==
    /\ csPc = "read"
    /\ csPc' = "store"
    /\ \/ csRead' = IF continues = NoRound THEN 0 ELSE continues
       \/ "storage" \in Env /\ csRead' = 0
    /\ UNCHANGED <<envVars, dbVars, lastIndexedRound, paramVars, ixVars, prVars>>

CacheStartStore ==
    /\ csPc = "store"
    /\ csPc' = "done"
    /\ lastIndexedRound' = csRead
    /\ UNCHANGED <<envVars, dbVars, paramVars, ixVars, prVars, csRead>>

(* The workers' first timers fire long after Start has finished, unless it *)
(* is slow.                                                                *)
WorkersRun == csPc = "done" \/ "slowStart" \in Env

-----------------------------------------------------------------------------
(* indexingWorker.  A failed query ends the iteration and changes nothing. *)

QueryStart ==
    /\ ixPc = "idle"
    /\ WorkersRun
    /\ ixPc' = "range"
    /\ round' = StartAt
    /\ UNCHANGED <<envVars, dbVars, lastIndexedRound, paramVars, latest, prVars, csVars>>

(* Mutant: an off-by-one in the comparisons of startAt with latest. *)
ConfigureEndStrict ==
    /\ ixPc = "range"
    /\ latest' = IF IndexingEnd = 0 THEN nodeLatest ELSE IndexingEnd
    /\ ixPc' = CASE round < latest' -> "fetch"
                 [] round >= latest' /\ IndexingEnd = 0 -> "idle"
                 [] round >= latest' /\ IndexingEnd # 0 -> "done"
    /\ UNCHANGED <<envVars, dbVars, lastIndexedRound, paramVars, round, prVars, csVars>>

ConfigureEnd ==
    /\ ixPc = "range"
    /\ latest' = IF IndexingEnd = 0 THEN nodeLatest ELSE IndexingEnd
    /\ ixPc' = CASE round <= latest' -> "fetch"
                 [] round > latest' /\ IndexingEnd = 0 -> "idle"
                 [] round > latest' /\ IndexingEnd # 0 -> "done"
    /\ UNCHANGED <<envVars, dbVars, lastIndexedRound, paramVars, round, prVars, csVars>>

(* A failed query of the latest block. *)
ConfigureEndFails ==
    /\ ixPc = "range"
    /\ "source" \in Env
    /\ IndexingEnd = 0
    /\ ixPc' = "idle"
    /\ UNCHANGED <<envVars, dbVars, lastIndexedRound, paramVars, round, latest,
                   prVars, csVars>>

NeedParameters == coreParameters = NoParams \/ ~rtInfo \/ queryEpochParameters

(* indexBlock up to the call of Index: the block, the parameters if they   *)
(* are needed, and the transactions are fetched from the node.             *)
Fetch ==
    /\ ixPc = "fetch"
    /\ Serves(round)
    /\ coreParameters' = IF NeedParameters THEN Epoch(round) ELSE coreParameters
    /\ rtInfo' = TRUE
    /\ ixPc' = "store"
    /\ UNCHANGED <<envVars, dbVars, lastIndexedRound, queryEpochParameters,
                   round, latest, prVars, csVars>>

(* indexBlock fails before Index and the loop is left: at the block or the *)
(* parameters; at the runtime info, which is then nil beside the new       *)
(* parameters; or at the transactions.                                     *)
FetchFails ==
    /\ ixPc = "fetch"
    /\ \/ /\ ~Serves(round) \/ "source" \in Env
          /\ UNCHANGED <<coreParameters, rtInfo>>
       \/ /\ Serves(round) /\ "source" \in Env
          /\ NeedParameters
          /\ coreParameters' = Epoch(round)
          /\ rtInfo' \in BOOLEAN
    /\ ixPc' = "idle"
    /\ UNCHANGED <<envVars, dbVars, lastIndexedRound, queryEpochParameters,
                   round, latest, prVars, csVars>>

(* Mutant: the Continues tip is not upserted. *)
StoreCommitsNoTip ==
    /\ ixPc = "store"
    /\ round \notin DOMAIN blocks
    /\ blocks' = StoreRow(round)
    /\ ixPc' = "notify"
    /\ UNCHANGED <<envVars, continues, lastRetained, lastIndexedRound, paramVars,
                   round, latest, prVars, csVars>>

(* StoreBlockData's database transaction.  The row of a round that is      *)
(* already in the block table conflicts.                                   *)
StoreCommits ==
    /\ ixPc = "store"
    /\ round \notin DOMAIN blocks
    /\ blocks' = StoreRow(round)
    /\ continues' = round
    /\ ixPc' = "notify"
    /\ UNCHANGED <<envVars, lastRetained, lastIndexedRound, paramVars,
                   round, latest, prVars, csVars>>

(* Mutant: the loop continues with the next round instead of breaking. *)
StoreFailsContinues ==
    /\ ixPc = "store"
    /\ round \in DOMAIN blocks \/ "storage" \in Env
    /\ round' = round + 1
    /\ ixPc' = IF round + 1 <= latest THEN "fetch" ELSE "idle"
    /\ UNCHANGED <<envVars, dbVars, lastIndexedRound, paramVars,
                   latest, prVars, csVars>>

StoreFails ==
    /\ ixPc = "store"
    /\ round \in DOMAIN blocks \/ "storage" \in Env
    /\ ixPc' = "idle"
    /\ UNCHANGED <<envVars, dbVars, lastIndexedRound, paramVars,
                   round, latest, prVars, csVars>>

(* The transaction commits, but Commit returns an error. *)
StoreAckLost ==
    /\ "lostAck" \in Env
    /\ ixPc = "store"
    /\ round \notin DOMAIN blocks
    /\ blocks' = StoreRow(round)
    /\ continues' = round
    /\ ackLost' = TRUE
    /\ ixPc' = "idle"
    /\ UNCHANGED <<chain, nodeLatest, nodeRetained, lastRetained, lastIndexedRound, paramVars,
                   round, latest, prVars, csVars>>

(* GetTransaction fails with something other than sql.ErrNoRows.  The      *)
(* closure returns the outer err, which is nil, before it stores the block *)
(* and the tip: neither is written and StoreBlockData goes on.             *)
StoreLookupFails ==
    /\ "lookup" \in Env
    /\ ixPc = "store"
    /\ ixPc' = "notify"
    /\ UNCHANGED <<envVars, dbVars, lastIndexedRound, paramVars,
                   round, latest, prVars, csVars>>

(* Mutant: an epoch transition does not ask for new parameters. *)
NotifyForgetsEpoch ==
    /\ ixPc = "notify"
    /\ lastIndexedRound' = MaxOf(round, lastIndexedRound)
    /\ round' = round + 1
    /\ ixPc' = IF round + 1 <= latest THEN "fetch" ELSE "idle"
    /\ UNCHANGED <<envVars, dbVars, paramVars, latest, prVars, csVars>>

(* Mutant: OnBlockIndexed does not raise the cached round. *)
NotifyKeepsCache ==
    /\ ixPc = "notify"
    /\ queryEpochParameters' =
          CASE chain[round] = "EpochTransition" -> TRUE
            [] chain[round] = "Normal" -> FALSE
            [] OTHER -> queryEpochParameters
    /\ round' = round + 1
    /\ ixPc' = IF round + 1 <= latest THEN "fetch" ELSE "idle"
    /\ UNCHANGED <<envVars, dbVars, lastIndexedRound, coreParameters, rtInfo, latest,
                   prVars, csVars>>

(* After the transaction: OnBlockIndexed raises the cached round, the      *)
(* header type decides whether the next round queries the parameters, and  *)
(* the loop goes on.                                                       *)
Notify ==
    /\ ixPc = "notify"
    /\ lastIndexedRound' = MaxOf(round, lastIndexedRound)
    /\ queryEpochParameters' =
          CASE chain[round] = "EpochTransition" -> TRUE
            [] chain[round] = "Normal" -> FALSE
            [] OTHER -> queryEpochParameters
    /\ round' = round + 1
    /\ ixPc' = IF round + 1 <= latest THEN "fetch" ELSE "idle"
    /\ UNCHANGED <<envVars, dbVars, coreParameters, rtInfo, latest, prVars, csVars>>

IndexingWorker ==
    \/ QueryStart \/ ConfigureEnd \/ ConfigureEndFails
    \/ Fetch \/ FetchFails
    \/ StoreCommits \/ StoreFails \/ StoreAckLost \/ StoreLookupFails
    \/ Notify

-----------------------------------------------------------------------------
(* pruningWorker and Prune.  The LastRetained tip is written through       *)
(* ib.storage, outside the transaction that deletes the rows.              *)

PruneQuery ==
    /\ EnablePruning
    /\ prPc = "idle"
    /\ WorkersRun /\ ixPc # "done"
    /\ QueryLastIndexedRound > PruningStep
    /\ pruneRound' = QueryLastIndexedRound - PruningStep
    /\ prPc' = "tip"
    /\ UNCHANGED <<envVars, dbVars, lastIndexedRound, paramVars, ixVars, csVars>>

PruneStoreTip ==
    /\ prPc = "tip"
    /\ lastRetained' = pruneRound
    /\ prPc' = "delete"
    /\ UNCHANGED <<envVars, blocks, continues, lastIndexedRound, paramVars,
                   ixVars, pruneRound, csVars>>

PruneDelete ==
    /\ prPc = "delete"
    /\ blocks' = Delete(pruneRound)
    /\ prPc' = "idle"
    /\ UNCHANGED <<envVars, continues, lastRetained, lastIndexedRound, paramVars,
                   ixVars, pruneRound, csVars>>

(* A failed statement, or the context that the indexing worker cancelled   *)
(* when it was done: the transaction is rolled back, the tip is not.       *)
PruneFails ==
    /\ prPc \in {"tip", "delete"}
    /\ "storage" \in Env \/ ixPc = "done"
    /\ prPc' = "idle"
    /\ UNCHANGED <<envVars, dbVars, lastIndexedRound, paramVars, ixVars,
                   pruneRound, csVars>>

PruningWorker == PruneQuery \/ PruneStoreTip \/ PruneDelete \/ PruneFails

-----------------------------------------------------------------------------
(* The process dies and is started again: only the database survives. *)
Crash ==
    /\ "crash" \in Env
    /\ lastIndexedRound' = 0
    /\ coreParameters' = NoParams
    /\ rtInfo' = FALSE
    /\ queryEpochParameters' = FALSE
    /\ ixPc' = "idle" /\ round' = 0 /\ latest' = 0
    /\ prPc' = "idle" /\ pruneRound' = 0
    /\ csPc' = "read" /\ csRead' = 0
    /\ UNCHANGED <<envVars, dbVars>>

Next ==
    \/ NodeProduces \/ NodePrunes
    \/ CacheStartRead \/ CacheStartStore
    \/ IndexingWorker
    \/ PruningWorker
    \/ Crash

Spec == Init /\ [][Next]_vars

(* Each goroutine keeps running, and a call that is retried for ever does  *)
(* not fail for ever.                                                      *)
Fairness ==
    /\ WF_vars(CacheStartRead) /\ WF_vars(CacheStartStore)
    /\ WF_vars(QueryStart) /\ SF_vars(ConfigureEnd)
    /\ SF_vars(Fetch) /\ WF_vars(FetchFails)
    /\ SF_vars(StoreCommits) /\ WF_vars(StoreFails) /\ WF_vars(Notify)

FairSpec == Spec /\ Fairness

-----------------------------------------------------------------------------
(* The types of the variables. *)
TypeOK ==
    /\ chain \in [Rounds -> HeaderTypes]
    /\ nodeLatest \in Rounds
    /\ nodeRetained \in 0..nodeLatest
    /\ ackLost \in BOOLEAN
    /\ DOMAIN blocks \subseteq Rounds
    /\ blocks \in [DOMAIN blocks -> Nat]
    /\ continues \in Rounds \cup {NoRound}
    /\ lastRetained \in Rounds
    /\ lastIndexedRound \in Rounds
    /\ coreParameters \in Nat \cup {NoParams}
    /\ rtInfo \in BOOLEAN
    /\ queryEpochParameters \in BOOLEAN
    /\ ixPc \in {"idle", "range", "fetch", "store", "notify", "done"}
    /\ round \in Nat
    /\ latest \in Nat
    /\ prPc \in {"idle", "tip", "delete"}
    /\ pruneRound \in Rounds
    /\ csPc \in {"read", "store", "done"}
    /\ csRead \in Rounds

(* The Continues tip is "the latest Indexed Block Round" (db/model): it    *)
(* names a round that is in the block table and no row is newer, whatever  *)
(* the pruning worker deletes meanwhile and wherever the process dies.     *)
TipIsNewestBlock ==
    /\ continues = NoRound <=> DOMAIN blocks = {}
    /\ continues # NoRound => /\ continues \in DOMAIN blocks
                              /\ \A r \in DOMAIN blocks : r <= continues

(* No round is lost, for "StoreBlockData parses oasis block and stores in  *)
(* db" (indexer/utils.go, line 249): below the tip, every round that is    *)
(* not in the block table was pruned (it is below the LastRetained tip),   *)
(* or the worker has passed over it because the "node pruned missing       *)
(* rounds" (indexer/indexer.go, line 254) or indexing_start says "Skip     *)
(* indexing before this block number" (conf/config.go, line 26).           *)
NoAvoidableGap ==
    \A r \in 0..continues :
        \/ r \in DOMAIN blocks
        \/ r < lastRetained
        \/ r < FirstWanted

(* The worker stops "after reaching" indexing_end (conf/config.go) and not *)
(* before: by then every wanted round up to it is stored or pruned.        *)
EndMeansComplete ==
    ixPc = "done" =>
        \A r \in FirstWanted..IndexingEnd : r \in DOMAIN blocks \/ r < lastRetained

(* With the indexing worker between two iterations, QueryLastIndexedRound  *)
(* returns the "continues indexed block round" (indexer/backend.go), over  *)
(* failed transactions, pruning and restarts, until the acknowledgement of *)
(* a commit is lost.                                                       *)
CachedTipIsFresh ==
    WorkersRun /\ ixPc = "idle" /\ ~ackLost => QueryLastIndexedRound = continues

(* A normal round is stored with the parameters of its own epoch, though   *)
(* they are queried only after an epoch transition was indexed: over       *)
(* failed calls, retries and restarts, unless the node prunes a transition *)
(* before it is fetched or the acknowledgement of its commit is lost.      *)
ParametersOfOwnEpoch ==
    nodeRetained = 0 /\ ~ackLost =>
        \A r \in DOMAIN blocks : chain[r] = "Normal" => blocks[r] = Epoch(r)

(* Pruning never deletes one of the pruning_step rounds below the tip,     *)
(* although it computes its bound long before it deletes.  The bound       *)
(* itself is kept: Delete is "less than the given round"                   *)
(* (storage/psql/psql.go, line 196), against the comment of Prune, see     *)
(* PruneIncludesRound.                                                     *)
PruneKeepsWindow ==
    [][\A r \in DOMAIN blocks \ DOMAIN blocks' : r + PruningStep < continues]_vars

(* What Prune says of itself: it "removes indexed data for rounds equal to *)
(* or earlier than the passed round" (indexer/backend.go, line 92).        *)
PruneIncludesRound ==
    [][PruneDelete => \A r \in DOMAIN blocks' : r > pruneRound]_vars

(* Neither tip ever moves back, over failures, restarts and pruning.       *)
TipsNeverRetreat ==
    [][continues' >= continues /\ lastRetained' >= lastRetained]_vars

(* The round that QueryLastIndexedRound answers reaches every round of the *)
(* node, when indexing_end is not set: a failed call, transaction or       *)
(* lookup and a round the node prunes while it is being retried delay the  *)
(* indexing worker and never stop it.                                      *)
CatchesUp == \A r \in Rounds : nodeLatest >= r ~> QueryLastIndexedRound >= r

(* The database behaves as an IndexedWindow.                               *)
Window == INSTANCE IndexedWindow WITH stored <- DOMAIN blocks, tip <- continues
WindowSpec == Window!Spec
=============================================================================
