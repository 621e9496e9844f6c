--------------------------- MODULE HealthChecks ---------------------------
(***************************************************************************)
(* The two health checks behind the /health endpoint: healthWorker of the  *)
(* indexer (indexer/indexer.go), which compares the last indexed round     *)
(* with the node's latest, and the health checker of the oasis_ API        *)
(* (rpc/oasis/health.go), which probes the node and tolerates short        *)
(* outages.  They share the context of runRoot, and the first one also     *)
(* shares the indexer's health with the end of the indexing worker.        *)
(*                                                                         *)
(* Node and indexing worker are reduced to the two rounds the check reads; *)
(* Indexer has their detail.  The probe goes through the pebble cache of   *)
(* the node source, if there is one (source/pebble/pebble.go), which keeps *)
(* the public key it asks for; the latest round is never cached.           *)
(***************************************************************************)
EXTENDS Integers, Sequences

CONSTANTS
    MaxRound,       \* bound: the last round the node produces
    IndexingEnds,   \* the values of cfg.IndexingEnd, 0 when unset
    DriftThreshold, \* healthCheckIndexerDriftThreshold
    UnhealthyThreshold, \* healthUnhealthyThreshold
    NodeCaches      \* whether cfg.NodeCachePath is set

ASSUME HealthAssumption ==
    /\ MaxRound \in Nat /\ IndexingEnds \subseteq Nat /\ DriftThreshold \in Nat
    /\ UnhealthyThreshold \in Nat \ {0} /\ NodeCaches \subseteq BOOLEAN

NoRound == -1       \* storage.ErrNoRoundsIndexed

VARIABLES
    indexingEnd,    \* Service.indexingEnd
    nodeLatest,     \* the node's latest round
    nodeUp,         \* the node answers
    indexed,        \* what QueryLastIndexedRound returns
    cached,         \* CachingBackend.lastIndexedRound is not 0
    stopped,        \* the context of runRoot is cancelled
    finished,       \* the indexing worker has reached indexing_end
    workerPc,       \* where healthWorker is
    lastIndexed,    \* what it has read, before it asks the node
    health,         \* Service.health
    checkerPc,      \* where healthChecker.run is
    failures,       \* healthChecker.failures
    oasisHealth,    \* healthChecker.health
    nodeCache,      \* cfg.NodeCachePath is set
    keyCached,      \* CoreCallDataPublicKey is in the pebble database
    results         \* history: the last UnhealthyThreshold probes, 1 for a success, 0 for a failure

rounds == <<indexingEnd, nodeLatest, nodeUp, indexed, cached>>
worker == <<finished, workerPc, lastIndexed, health>>
checker == <<checkerPc, failures, oasisHealth, nodeCache, keyCached, results>>
vars == <<rounds, stopped, worker, checker>>

(* The Start of the cache has read the last indexed round, or failed to:   *)
(* "Failures are ok."                                                      *)
Init ==
    /\ indexingEnd \in IndexingEnds
    /\ nodeLatest \in 0..MaxRound /\ indexed \in NoRound..nodeLatest
    /\ indexingEnd = 0 \/ indexed <= indexingEnd
    /\ cached \in {FALSE, indexed > 0}
    /\ stopped = FALSE /\ finished = FALSE
    /\ workerPc = "sleep" /\ lastIndexed = 0 /\ health = FALSE
    /\ checkerPc = "sleep" /\ failures = 0 /\ oasisHealth = FALSE
    /\ nodeUp = TRUE
    /\ nodeCache \in NodeCaches /\ keyCached \in {FALSE, nodeCache}
    /\ results = <<>>

-----------------------------------------------------------------------------
(* The surroundings. *)

NodeProduces ==
    /\ nodeLatest < MaxRound
    /\ nodeLatest' = nodeLatest + 1
    /\ UNCHANGED <<indexingEnd, nodeUp, indexed, cached, stopped, worker, checker>>

(* An outage of the node, or of the way to it, begins or ends. *)
Outage ==
    /\ nodeUp' = ~nodeUp
    /\ UNCHANGED <<indexingEnd, nodeLatest, indexed, cached, stopped, worker, checker>>

IndexRound ==
    /\ ~stopped /\ ~finished /\ nodeUp
    /\ indexed < nodeLatest /\ (indexingEnd = 0 \/ indexed < indexingEnd)
    /\ indexed' = indexed + 1
    /\ cached' = (indexed' > 0)
    /\ UNCHANGED <<indexingEnd, nodeLatest, nodeUp, stopped, worker, checker>>

(* runRoot cancels its context. *)
Stop ==
    /\ ~stopped
    /\ stopped' = TRUE
    /\ UNCHANGED <<rounds, worker, checker>>

(* indexingWorker is done: it reports healthy, returns, and its goroutine  *)
(* cancels the context of the workers.                                     *)
IndexingDone ==
    /\ ~stopped /\ ~finished
    /\ indexingEnd # 0 /\ indexed = indexingEnd
    /\ finished' = TRUE
    /\ health' = TRUE
    /\ UNCHANGED <<rounds, stopped, workerPc, lastIndexed, checker>>

WorkersCancelled == stopped \/ finished

-----------------------------------------------------------------------------
(* healthWorker.  When its timer and its cancelled context are both ready, *)
(* select may still choose the timer.                                      *)

(* Mutant: the round that is being indexed is taken for an indexed one. *)
QueryNextRound ==
    /\ workerPc = "sleep"
    /\ indexed # NoRound
    /\ lastIndexed' = indexed + 1
    /\ workerPc' = "node"
    /\ UNCHANGED <<rounds, stopped, finished, health, checker>>

QueryIndexed ==
    /\ workerPc = "sleep"
    /\ indexed # NoRound
    /\ lastIndexed' = indexed
    /\ workerPc' = "node"
    /\ UNCHANGED <<rounds, stopped, finished, health, checker>>

(* No round above 0 is cached, so the database is asked, and it has no     *)
(* round or the query fails.                                               *)
QueryIndexedFails ==
    /\ workerPc = "sleep"
    /\ ~cached
    /\ health' = FALSE
    /\ UNCHANGED <<rounds, stopped, finished, workerPc, lastIndexed, checker>>

(* The node answers with its latest round. *)
Judge ==
    /\ workerPc = "node" /\ nodeUp
    /\ health' = (nodeLatest >= lastIndexed /\ nodeLatest - lastIndexed <= DriftThreshold)
    /\ workerPc' = "sleep"
    /\ UNCHANGED <<rounds, stopped, finished, lastIndexed, checker>>

(* Mutant: the worker gives up. *)
JudgeFailsReturns ==
    /\ workerPc = "node"
    /\ health' = FALSE
    /\ workerPc' = "returned"
    /\ UNCHANGED <<rounds, stopped, finished, lastIndexed, checker>>

(* The call fails or is cancelled. *)
JudgeFails ==
    /\ workerPc = "node"
    /\ health' = FALSE
    /\ workerPc' = "sleep"
    /\ UNCHANGED <<rounds, stopped, finished, lastIndexed, checker>>

WorkerReturns ==
    /\ workerPc = "sleep" /\ WorkersCancelled
    /\ workerPc' = "returned"
    /\ UNCHANGED <<rounds, stopped, finished, lastIndexed, health, checker>>

-----------------------------------------------------------------------------
(* healthChecker, with the same select. *)

Remember(ok) ==
    results' = IF Len(results) = UnhealthyThreshold
               THEN Append(Tail(results), ok) ELSE Append(results, ok)

StartProbe ==
    /\ checkerPc = "sleep"
    /\ checkerPc' = "probe"
    /\ UNCHANGED <<rounds, stopped, worker, failures, oasisHealth, nodeCache, keyCached, results>>

(* The key comes from the cache, or from the node and then is cached. *)
KeyAnswered ==
    /\ nodeUp \/ keyCached
    /\ keyCached' = nodeCache
    /\ UNCHANGED nodeCache

(* Mutant: a success does not clear the counter. *)
ProbeSucceedsKeepsCount ==
    /\ checkerPc = "probe" /\ checkerPc' = "sleep"
    /\ KeyAnswered
    /\ oasisHealth' = TRUE
    /\ Remember(1)
    /\ UNCHANGED <<rounds, stopped, worker, failures>>

ProbeSucceeds ==
    /\ checkerPc = "probe" /\ checkerPc' = "sleep"
    /\ KeyAnswered
    /\ failures' = 0
    /\ oasisHealth' = TRUE
    /\ Remember(1)
    /\ UNCHANGED <<rounds, stopped, worker>>

(* Mutant: a tolerated failure is forgotten. *)
ProbeFailsForgotten ==
    /\ checkerPc = "probe" /\ checkerPc' = "sleep"
    /\ failures' = IF failures + 1 < UnhealthyThreshold THEN 0 ELSE failures + 1
    /\ oasisHealth' = (oasisHealth /\ failures + 1 < UnhealthyThreshold)
    /\ Remember(0)
    /\ UNCHANGED <<rounds, stopped, worker, nodeCache, keyCached>>

(* The counter is capped at the threshold, above which nothing depends on  *)
(* it any more.                                                            *)
ProbeFails ==
    /\ checkerPc = "probe" /\ checkerPc' = "sleep"
    /\ failures' = IF failures < UnhealthyThreshold THEN failures + 1 ELSE failures
    /\ oasisHealth' = (oasisHealth /\ failures' < UnhealthyThreshold)
    /\ Remember(0)
    /\ UNCHANGED <<rounds, stopped, worker, nodeCache, keyCached>>

CheckerReturns ==
    /\ checkerPc = "sleep" /\ stopped
    /\ checkerPc' = "returned"
    /\ oasisHealth' = FALSE
    /\ UNCHANGED <<rounds, stopped, worker, failures, nodeCache, keyCached, results>>

-----------------------------------------------------------------------------
Next ==
    \/ NodeProduces \/ Outage \/ IndexRound \/ Stop \/ IndexingDone
    \/ QueryIndexed \/ QueryIndexedFails \/ Judge \/ JudgeFails \/ WorkerReturns
    \/ StartProbe \/ ProbeSucceeds \/ ProbeFails \/ CheckerReturns

Spec == Init /\ [][Next]_vars

(* The goroutines run, the indexer catches up (Indexer), and a query that  *)
(* is repeated for ever does not fail for ever.  A probe ends either way,  *)
(* and select does not pass over a cancelled context for ever.             *)
FairSpec ==
    /\ Spec
    /\ WF_vars(IndexRound) /\ WF_vars(IndexingDone)
    /\ SF_vars(QueryIndexed) /\ SF_vars(Judge) /\ SF_vars(WorkerReturns)
    /\ WF_vars(StartProbe) /\ WF_vars(ProbeSucceeds \/ ProbeFails)
    /\ SF_vars(CheckerReturns)

-----------------------------------------------------------------------------
(* The types of the variables. *)
TypeOK ==
    /\ indexingEnd \in IndexingEnds
    /\ nodeLatest \in 0..MaxRound /\ indexed \in NoRound..MaxRound
    /\ {cached, stopped, finished, nodeUp, health, oasisHealth, nodeCache, keyCached} \subseteq BOOLEAN
    /\ workerPc \in {"sleep", "node", "returned"}
    /\ checkerPc \in {"sleep", "probe", "returned"}
    /\ lastIndexed \in 0..MaxRound
    /\ failures \in 0..UnhealthyThreshold
    /\ results \in Seq({0, 1}) /\ Len(results) <= UnhealthyThreshold

(* The branch "Indexer in front of node - not healthy" (indexer.go) is not *)
(* taken while the node only moves forward, however far both get between   *)
(* the two calls, because the indexed round is read first.                 *)
IndexerNotInFront == workerPc = "node" => lastIndexed <= nodeLatest

(* A running oasis_ check is healthy exactly if one of its last three      *)
(* probes succeeded: short outages are tolerated, longer ones reported,    *)
(* and one success is enough to recover.                                   *)
OasisHealthIsRecent ==
    checkerPc # "returned" => (oasisHealth <=> \E i \in DOMAIN results : results[i] = 1)

(* Without a shutdown or an end of indexing, and once the node stays up,   *)
(* the indexer's check always comes back to healthy.                       *)
HealthRecovers == ([]~WorkersCancelled /\ <>[]nodeUp) => []<>health

(* An outage of the node that lasts is reported by the oasis_ check, if    *)
(* there is no pebble cache, and so is a shutdown.                         *)
OutageReported == (([]~nodeCache /\ <>[]~nodeUp) \/ <>stopped) => <>[]~oasisHealth

(* The same whether there is a cache or not: the key "should" be volatile  *)
(* (source/pebble/pebble.go), but once cached it answers every probe.      *)
OutageReportedCached == <>[]~nodeUp => <>[]~oasisHealth

(* A finished indexer stays healthy. *)
FinishedIsHealthy == finished => health
=============================================================================
