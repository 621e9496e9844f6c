----------------------------- MODULE BlockCache ----------------------------
(***************************************************************************)
(* The content caches of CachingBackend (indexer/backend_cache.go): the    *)
(* indexing goroutine stores a block, then OnBlockIndexed inserts it map   *)
(* by map and evicts the oldest rounds, while requests read the maps       *)
(* without a lock and fall back to the database, and the pruning worker    *)
(* deletes old rounds from the database and not from the caches.  The      *)
(* process may stop anywhere; it then starts with empty caches on the      *)
(* database it left.                                                       *)
(*                                                                         *)
(* Here the transaction of StoreBlockData and that of Prune are one step   *)
(* each; BlockTables takes them apart.  The LastRetained tip, which no     *)
(* request for content reads, is left to Indexer and LastRetainedCache.  A *)
(* successful transaction emits one log.                                   *)
(***************************************************************************)
EXTENDS RuntimeBlocks, FiniteSets, FiniteSetsExt, Functions

CONSTANTS
    MaxCacheSize,   \* CachingBackend.maxCacheSize
    PruningStep     \* cfg.PruningStep

ASSUME SizeAssumption == MaxCacheSize \in Nat \ {0} /\ PruningStep \in Nat

VARIABLES
    history,        \* the runtime's blocks
    blocks,         \* the block table: rounds
    continues,      \* the Continues tip, 0 when there is none
    txs,            \* transactions table: hash |-> round and status
    pruned,         \* history: rounds that Prune has deleted and nobody stored again
    lost,           \* history: rounds whose lookups failed, since the start
    indexed,        \* history: rounds given to OnBlockIndexed since the start
    bd,             \* the BlockData that StoreBlockData has just made
    blockDataByNumber,  \* the maps of the cache: round |-> BlockData
    blockByHashHex,     \* a block is its round
    logsByBlockNumber,  \* round |-> the hashes whose logs are cached
    txByHashHex,        \* hash |-> blockNumber
    receiptByTxHashHex,
    cacheSize,
    lastIndexedRound,
    ixPc,           \* where the indexing goroutine is
    pruneRound,     \* the round that is being passed to Prune, 0 when there is none
    blPc, blRound,  \* a request for a block
    lgPc,           \* a request for the logs of a range of rounds
    startRound, endRound, lgNext, lgLogs

dbVars == <<history, blocks, continues, txs, pruned>>
historyVars == <<lost, indexed>>
mapVars == <<blockDataByNumber, blockByHashHex, logsByBlockNumber, txByHashHex,
             receiptByTxHashHex>>
cacheVars == <<mapVars, cacheSize, lastIndexedRound>>
ixVars == <<bd, ixPc>>
blVars == <<blPc, blRound>>
lgVars == <<lgPc, startRound, endRound, lgNext, lgLogs>>
vars == <<history, blocks, continues, txs, pruned, lost, indexed, bd, blockDataByNumber,
          blockByHashHex, logsByBlockNumber, txByHashHex, receiptByTxHashHex,
          cacheSize, lastIndexedRound, ixPc, pruneRound, blPc, blRound, lgPc,
          startRound, endRound, lgNext, lgLogs>>

NoRows == [h \in {} |-> 0]
NoData == [round |-> 0, uniqueTxes |-> {}, receipts |-> {}]

(* A map with the entry k |-> v for every k in keys. *)
StoreAll(map, keys, v) ==
    [k \in DOMAIN map \cup keys |-> IF k \in keys THEN v ELSE map[k]]

Remove(map, keys) == Restrict(map, DOMAIN map \ keys)

(* The hashes of the transactions of a block that succeeded, among those   *)
(* at some positions and in all, and that failed.                          *)
SuccessfulAt(r, positions) ==
    {history[r][i].hash : i \in {j \in positions : Succeeded(history[r][j])}}
Successful(r) == SuccessfulAt(r, DOMAIN history[r])
Failed(r) == {history[r][i].hash : i \in {j \in DOMAIN history[r] : ~Succeeded(history[r][j])}}

Logs(rounds) == UNION {{<<r, h>> : h \in Successful(r)} : r \in rounds}

Init ==
    /\ history \in Histories
    /\ blocks = {} /\ continues = 0 /\ txs = NoRows /\ pruned = {}
    /\ lost = {} /\ indexed = {}
    /\ blockDataByNumber = NoRows /\ blockByHashHex = {} /\ logsByBlockNumber = NoRows
    /\ txByHashHex = NoRows /\ receiptByTxHashHex = NoRows
    /\ cacheSize = 0 /\ lastIndexedRound = 0
    /\ bd = NoData /\ ixPc = "start"
    /\ pruneRound = 0
    /\ blPc = "idle" /\ blRound = 0
    /\ lgPc = "idle" /\ startRound = 0 /\ endRound = 0 /\ lgNext = 0 /\ lgLogs = {}

(* The process stops and is started again: the database survives. *)
Restart ==
    /\ lost' = {} /\ indexed' = {}
    /\ blockDataByNumber' = NoRows /\ blockByHashHex' = {} /\ logsByBlockNumber' = NoRows
    /\ txByHashHex' = NoRows /\ receiptByTxHashHex' = NoRows
    /\ cacheSize' = 0 /\ lastIndexedRound' = 0
    /\ bd' = NoData /\ ixPc' = "start"
    /\ pruneRound' = 0
    /\ blPc' = "idle" /\ blRound' = 0
    /\ lgPc' = "idle" /\ startRound' = 0 /\ endRound' = 0 /\ lgNext' = 0 /\ lgLogs' = {}
    /\ UNCHANGED dbVars

(* Start reads the tip of the database; if that fails, the tip stays 0.    *)
(* The workers' first timers fire after it ("slowStart" of Indexer is the  *)
(* other case).                                                            *)
Start ==
    /\ ixPc = "start"
    /\ lastIndexedRound' \in {continues, 0}
    /\ ixPc' = "idle"
    /\ UNCHANGED <<dbVars, historyVars, bd, mapVars, cacheSize, pruneRound, blVars, lgVars>>

-----------------------------------------------------------------------------
(* The indexing goroutine. *)

QueryLastIndexedRound == IF lastIndexedRound # 0 THEN lastIndexedRound ELSE continues

(* The round to index is the next one, or a later one when the node does   *)
(* not have it or indexing_start excludes it.                              *)
ToIndex == QueryLastIndexedRound + 1 .. MaxRound

(* A success in the table: StoreBlockData refuses another one of the hash. *)
Duplicate(h) == h \in DOMAIN txs /\ txs[h].status = ReceiptStatusSuccessful

(* The transaction of StoreBlockData: failed transactions are inserted if  *)
(* there is no row, successful ones upserted, and a block that is stored   *)
(* already conflicts.                                                      *)
StoreBlockData(r) ==
    /\ ixPc = "idle"
    /\ r \notin blocks /\ \A h \in Successful(r) : ~Duplicate(h)
    /\ LET rows == StoreAll(txs, Failed(r) \ DOMAIN txs, [round |-> r, status |-> ReceiptStatusFailed])
       IN  txs' = StoreAll(rows, Successful(r), [round |-> r, status |-> ReceiptStatusSuccessful])
    /\ blocks' = blocks \cup {r}
    /\ continues' = r
    /\ pruned' = pruned \ {r}
    /\ UNCHANGED history

(* StoreBlockData goes on to OnBlockIndexed. *)
Notify(r, uniqueTxes, receipts) ==
    /\ bd' = [round |-> r, uniqueTxes |-> uniqueTxes, receipts |-> receipts]
    /\ indexed' = indexed \cup {r}
    /\ ixPc' = "blocks"
    /\ UNCHANGED <<cacheVars, pruneRound, blVars, lgVars>>

(* Mutant: every transaction of the block counts as upserted. *)
CommitAllUnique ==
    \E r \in ToIndex :
        /\ StoreBlockData(r)
        /\ Notify(r, Successful(r) \cup Failed(r), Successful(r) \cup Failed(r))
        /\ UNCHANGED lost

(* What was upserted becomes UniqueTxes and Receipts. *)
Commit ==
    \E r \in ToIndex :
        /\ StoreBlockData(r)
        /\ Notify(r, Successful(r), Successful(r))
        /\ UNCHANGED lost

(* The transaction commits and its answer is lost: an error, no event. *)
CommitAckLost ==
    /\ \E r \in ToIndex : StoreBlockData(r)
    /\ UNCHANGED <<historyVars, ixVars, cacheVars, pruneRound, blVars, lgVars>>

(* The lookup of an earlier transaction, or receipt, fails at position i.  *)
(* The closure returns the outer err, which is nil: nothing is stored, and *)
(* OnBlockIndexed is given what was upserted before.                       *)
LookupFails ==
    /\ ixPc = "idle"
    /\ \E r \in ToIndex : \E i \in DOMAIN history[r] :
         LET before == SuccessfulAt(r, 1..i - 1) IN
         /\ Succeeded(history[r][i])
         /\ \/ /\ \A h \in before : ~Duplicate(h)
               /\ Notify(r, before, {})
            \/ /\ \A h \in Successful(r) : ~Duplicate(h)
               /\ Notify(r, Successful(r), before)
         /\ lost' = lost \cup {r}
    /\ UNCHANGED dbVars

(* OnBlockIndexed, map by map. *)
CacheBlock ==
    /\ ixPc = "blocks"
    /\ blockDataByNumber' = StoreAll(blockDataByNumber, {bd.round}, bd)
    /\ blockByHashHex' = blockByHashHex \cup {bd.round}
    /\ ixPc' = "logs"
    /\ UNCHANGED <<dbVars, historyVars, bd, logsByBlockNumber, txByHashHex, receiptByTxHashHex,
                   cacheSize, lastIndexedRound, pruneRound, blVars, lgVars>>

CacheLogs ==
    /\ ixPc = "logs"
    /\ logsByBlockNumber' = StoreAll(logsByBlockNumber, {bd.round}, bd.receipts)
    /\ ixPc' = "txes"
    /\ UNCHANGED <<dbVars, historyVars, bd, blockDataByNumber, blockByHashHex, txByHashHex,
                   receiptByTxHashHex, cacheSize, lastIndexedRound, pruneRound, blVars, lgVars>>

CacheTxes ==
    /\ ixPc = "txes"
    /\ txByHashHex' = StoreAll(txByHashHex, bd.uniqueTxes, bd.round)
    /\ receiptByTxHashHex' = StoreAll(receiptByTxHashHex, bd.receipts, bd.round)
    /\ cacheSize' = cacheSize + 1
    /\ ixPc' = "tip"
    /\ UNCHANGED <<dbVars, historyVars, bd, blockDataByNumber, blockByHashHex,
                   logsByBlockNumber, lastIndexedRound, pruneRound, blVars, lgVars>>

(* Mutant: the next round is announced. *)
RaiseTipNext ==
    /\ ixPc = "tip"
    /\ lastIndexedRound' = bd.round + 1
    /\ ixPc' = IF cacheSize > MaxCacheSize THEN "evictTxes" ELSE "idle"
    /\ UNCHANGED <<dbVars, historyVars, bd, mapVars, cacheSize, pruneRound, blVars, lgVars>>

RaiseTip ==
    /\ ixPc = "tip"
    /\ lastIndexedRound' = IF bd.round > lastIndexedRound THEN bd.round ELSE lastIndexedRound
    /\ ixPc' = IF cacheSize > MaxCacheSize THEN "evictTxes" ELSE "idle"
    /\ UNCHANGED <<dbVars, historyVars, bd, mapVars, cacheSize, pruneRound, blVars, lgVars>>

Oldest == Min(DOMAIN blockDataByNumber)

(* The keys among hashes whose entry is that of the oldest cached round. *)
OfOldest(map, hashes) == {h \in hashes \cap DOMAIN map : map[h] = Oldest}

(* Mutant: the receipts of the evicted block are kept. *)
EvictTxesKeeps ==
    /\ ixPc = "evictTxes"
    /\ txByHashHex' =
          Remove(txByHashHex, OfOldest(txByHashHex, blockDataByNumber[Oldest].uniqueTxes))
    /\ ixPc' = "evictBlock"
    /\ UNCHANGED <<dbVars, historyVars, bd, blockDataByNumber, blockByHashHex, logsByBlockNumber,
                   receiptByTxHashHex, cacheSize, lastIndexedRound, pruneRound, blVars, lgVars>>

(* pruneCache of the oldest cached round. *)
EvictTxes ==
    /\ ixPc = "evictTxes"
    /\ txByHashHex' =
          Remove(txByHashHex, OfOldest(txByHashHex, blockDataByNumber[Oldest].uniqueTxes))
    /\ receiptByTxHashHex' =
          Remove(receiptByTxHashHex, OfOldest(receiptByTxHashHex, blockDataByNumber[Oldest].receipts))
    /\ ixPc' = "evictBlock"
    /\ UNCHANGED <<dbVars, historyVars, bd, blockDataByNumber, blockByHashHex, logsByBlockNumber,
                   cacheSize, lastIndexedRound, pruneRound, blVars, lgVars>>

EvictBlock ==
    /\ ixPc = "evictBlock"
    /\ blockByHashHex' = blockByHashHex \ {Oldest}
    /\ logsByBlockNumber' = Remove(logsByBlockNumber, {Oldest})
    /\ blockDataByNumber' = Remove(blockDataByNumber, {Oldest})
    /\ cacheSize' = cacheSize - 1
    /\ ixPc' = IF cacheSize' > MaxCacheSize THEN "evictTxes" ELSE "idle"
    /\ UNCHANGED <<dbVars, historyVars, bd, txByHashHex, receiptByTxHashHex, lastIndexedRound,
                   pruneRound, blVars, lgVars>>

OnBlockIndexed ==
    \/ CacheBlock \/ CacheLogs \/ CacheTxes \/ RaiseTip \/ EvictTxes \/ EvictBlock

-----------------------------------------------------------------------------
(* The pruning worker: the bound is computed from the tip, and rows go     *)
(* later, from the database only.  A prune that fails changes nothing here.*)

PruneQuery ==
    /\ ixPc # "start" /\ pruneRound = 0
    /\ QueryLastIndexedRound > PruningStep
    /\ pruneRound' = QueryLastIndexedRound - PruningStep
    /\ UNCHANGED <<dbVars, historyVars, ixVars, cacheVars, blVars, lgVars>>

Prune ==
    /\ pruneRound # 0
    /\ LET gone == {r \in blocks : r < pruneRound} IN
       \/ /\ blocks' = blocks \ gone
          /\ pruned' = pruned \cup gone
          /\ txs' = Restrict(txs, {h \in DOMAIN txs : txs[h].round >= pruneRound})
       \/ UNCHANGED <<blocks, pruned, txs>>
    /\ pruneRound' = 0
    /\ UNCHANGED <<history, continues, historyVars, ixVars, cacheVars, blVars, lgVars>>

-----------------------------------------------------------------------------
(* A request for a block whose number BlockNumber has announced, which     *)
(* looks in the cache first and in the database next: GetBlockByRound (the *)
(* transaction counts do the same), or QueryBlockHash and GetBlockByHash   *)
(* (GetTransactionByBlockNumberAndIndex of rpc/eth/api.go).                *)

BlockNumber ==
    /\ blPc = "idle"
    /\ lastIndexedRound # 0
    /\ blRound' = lastIndexedRound
    /\ blPc' \in {"lookup", "hash"}
    /\ UNCHANGED <<dbVars, historyVars, ixVars, cacheVars, pruneRound, lgVars>>

GetBlockByRound ==
    /\ blPc = "lookup"
    /\ blPc' = IF blRound \in DOMAIN blockDataByNumber THEN "found" ELSE "query"
    /\ UNCHANGED <<dbVars, historyVars, ixVars, cacheVars, pruneRound, blRound, lgVars>>

(* Not in the cache, "latest" is resolved once more, by the database. *)
QueryBlockHash ==
    /\ blPc = "hash"
    /\ \/ /\ blRound \in DOMAIN blockDataByNumber \/ blRound \in blocks
          /\ blPc' = "byHash" /\ UNCHANGED blRound
       \/ /\ blRound \notin DOMAIN blockDataByNumber /\ blocks # {}
          /\ blPc' = "byHash" /\ blRound' = Max(blocks)
       \/ /\ blRound \notin DOMAIN blockDataByNumber /\ blRound \notin blocks
          /\ blPc' = "missing" /\ UNCHANGED blRound
    /\ UNCHANGED <<dbVars, historyVars, ixVars, cacheVars, pruneRound, lgVars>>

GetBlockByHash ==
    /\ blPc = "byHash"
    /\ blPc' = IF blRound \in blockByHashHex THEN "found" ELSE "query"
    /\ UNCHANGED <<dbVars, historyVars, ixVars, cacheVars, pruneRound, blRound, lgVars>>

QueryBlock ==
    /\ blPc = "query"
    /\ blPc' = IF blRound \in blocks THEN "found" ELSE "missing"
    /\ UNCHANGED <<dbVars, historyVars, ixVars, cacheVars, pruneRound, blRound, lgVars>>

BlockAnswered ==
    /\ blPc \in {"found", "missing"}
    /\ blPc' = "idle" /\ blRound' = 0
    /\ UNCHANGED <<dbVars, historyVars, ixVars, cacheVars, pruneRound, lgVars>>

BlockRequest ==
    \/ BlockNumber \/ GetBlockByRound \/ QueryBlockHash \/ GetBlockByHash \/ QueryBlock
    \/ BlockAnswered

-----------------------------------------------------------------------------
(* A request for the logs of a range, one cache lookup after the other.    *)

GetLogs ==
    /\ lgPc = "idle"
    /\ startRound' \in Rounds
    /\ endRound' \in startRound'..MaxRound
    /\ lgNext' = startRound'
    /\ lgPc' = IF endRound' - startRound' + 1 < MaxCacheSize THEN "loop" ELSE "query"
    /\ UNCHANGED <<dbVars, historyVars, ixVars, cacheVars, pruneRound, blVars, lgLogs>>

(* Mutant: a miss does not end the loop, only the last lookup counts. *)
LookupLogsLast ==
    /\ lgPc = "loop"
    /\ lgLogs' = IF lgNext \in DOMAIN logsByBlockNumber
                 THEN lgLogs \cup {<<lgNext, h>> : h \in logsByBlockNumber[lgNext]}
                 ELSE lgLogs
    /\ lgNext' = lgNext + 1
    /\ lgPc' = CASE lgNext < endRound -> "loop"
                 [] lgNext = endRound /\ lgNext \in DOMAIN logsByBlockNumber -> "cached"
                 [] OTHER -> "query"
    /\ UNCHANGED <<dbVars, historyVars, ixVars, cacheVars, pruneRound, blVars, startRound, endRound>>

LookupLogs ==
    /\ lgPc = "loop"
    /\ IF lgNext \in DOMAIN logsByBlockNumber
       THEN /\ lgLogs' = lgLogs \cup {<<lgNext, h>> : h \in logsByBlockNumber[lgNext]}
            /\ lgPc' = IF lgNext = endRound THEN "cached" ELSE "loop"
       ELSE /\ UNCHANGED lgLogs
            /\ lgPc' = "query"
    /\ lgNext' = lgNext + 1
    /\ UNCHANGED <<dbVars, historyVars, ixVars, cacheVars, pruneRound, blVars, startRound, endRound>>

QueryLogs ==
    /\ lgPc = "query"
    /\ lgLogs' = Logs((startRound..endRound) \cap blocks)
    /\ lgPc' = "queried"
    /\ UNCHANGED <<dbVars, historyVars, ixVars, cacheVars, pruneRound, blVars, startRound, endRound, lgNext>>

LogsAnswered ==
    /\ lgPc \in {"cached", "queried"}
    /\ lgPc' = "idle" /\ startRound' = 0 /\ endRound' = 0 /\ lgNext' = 0 /\ lgLogs' = {}
    /\ UNCHANGED <<dbVars, historyVars, ixVars, cacheVars, pruneRound, blVars>>

LogsRequest == GetLogs \/ LookupLogs \/ QueryLogs \/ LogsAnswered

-----------------------------------------------------------------------------
Next ==
    \/ Restart \/ Start
    \/ Commit \/ CommitAckLost \/ LookupFails \/ OnBlockIndexed
    \/ PruneQuery \/ Prune
    \/ BlockRequest \/ LogsRequest

Spec == Init /\ [][Next]_vars

-----------------------------------------------------------------------------
(* The types of the variables. *)
BlockData == [round : 0..MaxRound, uniqueTxes : SUBSET Hashes, receipts : SUBSET Hashes]

TypeOK ==
    /\ history \in Histories
    /\ {blocks, pruned, lost, indexed, blockByHashHex} \subseteq SUBSET Rounds
    /\ continues \in 0..MaxRound /\ lastIndexedRound \in 0..MaxRound
    /\ txs \in [DOMAIN txs -> [round : Rounds, status : Statuses]]
    /\ bd \in BlockData
    /\ blockDataByNumber \in [DOMAIN blockDataByNumber -> BlockData]
    /\ logsByBlockNumber \in [DOMAIN logsByBlockNumber -> SUBSET Hashes]
    /\ txByHashHex \in [DOMAIN txByHashHex -> Rounds]
    /\ receiptByTxHashHex \in [DOMAIN receiptByTxHashHex -> Rounds]
    /\ cacheSize \in 0..(MaxCacheSize + 1)
    /\ ixPc \in {"start", "idle", "blocks", "logs", "txes", "tip", "evictTxes", "evictBlock"}
    /\ pruneRound \in 0..MaxRound
    /\ blPc \in {"idle", "lookup", "hash", "byHash", "query", "found", "missing"}
    /\ blRound \in 0..MaxRound
    /\ lgPc \in {"idle", "loop", "cached", "query", "queried"}
    /\ startRound \in 0..MaxRound /\ endRound \in 0..MaxRound

(* Between two blocks every map of the cache holds the newest of the       *)
(* rounds indexed since the start, as many as fit, and nothing that        *)
(* eviction would never find, whatever StoreBlockData left out of the data *)
(* of a round.                                                             *)
CacheHoldsNewest ==
    ixPc = "idle" =>
        LET cached == DOMAIN blockDataByNumber
        IN  /\ blockByHashHex = cached /\ DOMAIN logsByBlockNumber = cached
            /\ cached \subseteq indexed
            /\ \A r \in indexed \ cached : \A s \in cached : r < s
            /\ cacheSize = Cardinality(cached) /\ cacheSize <= MaxCacheSize
            /\ cached # indexed => cacheSize = MaxCacheSize
            /\ \A map \in {txByHashHex, receiptByTxHashHex} :
                  \A h \in DOMAIN map : map[h] \in cached

(* A cached transaction or receipt is the one of the database, unless the  *)
(* database has pruned it ("harmless", CachingBackend.Prune): a request by *)
(* hash gets the same answer whether the entry is evicted or not.  A       *)
(* failed lookup spoils the entries of its own round and of no other.      *)
CachedTxIsStored ==
    \A map \in {txByHashHex, receiptByTxHashHex} : \A h \in DOMAIN map :
        map[h] \notin pruned \cup lost =>
            h \in DOMAIN txs /\ txs[h] = [round |-> map[h], status |-> ReceiptStatusSuccessful]

(* Logs answered from the cache are complete and exact, although the       *)
(* request looks rounds up one by one while rounds are inserted and        *)
(* evicted; only those of a round whose lookups failed can be incomplete.  *)
CachedLogsExact ==
    lgPc = "cached" =>
        /\ lgLogs \subseteq Logs(startRound..endRound)
        /\ Logs((startRound..endRound) \ lost) \subseteq lgLogs

(* A block whose number BlockNumber has returned can be had, by number or  *)
(* by its hash, unless the database has pruned it: no request falls        *)
(* between a cache that evicts it and a database that does not have it.    *)
(* The rounds whose lookups failed are the ones that do.                   *)
AnnouncedServable == blPc = "missing" => blRound \in pruned \cup lost

(* A cached block lists the transactions that the database lists for it:   *)
(* "The gateway should drop these transactions" (indexer/utils.go) holds   *)
(* for a cached block as for a stored one.                                 *)
CachedBlockIsStored ==
    ixPc = "idle" =>
        \A r \in DOMAIN blockDataByNumber \cap blocks :
            Successful(r) \cup Failed(r) = {h \in DOMAIN txs : txs[h].round = r}

(* What is cached and announced is stored until it is pruned: "A new block *)
(* was indexed, insert it into the various caches"                         *)
(* (indexer/backend_cache.go, line 129).                                   *)
CachedIsIndexed == DOMAIN blockDataByNumber \subseteq blocks \cup pruned
=============================================================================
