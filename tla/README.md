# Verification of the Oasis Web3 gateway

TLA+ models of the gateway's stateful parts, TLC runs on small instances, and
theorems checked by TLAPS for every instance. `PROJECT.json` lists the runs, the
source lines of each definition, the findings, the hazards and the theorems.

## The system

The gateway indexes the blocks of an Oasis runtime into PostgreSQL and serves
them as Ethereum JSON-RPC.

| part | state | operations |
|---|---|---|
| indexing worker (`indexer/indexer.go`) | epoch parameters, position | query range, fetch, store, notify |
| pruning worker (`indexer/indexer.go`, `indexer/backend.go`) | bound to prune below | query tip, write `LastRetained`, delete |
| database (`storage/psql`, `indexer/utils.go`) | blocks, transactions, receipts, logs, two tips | `StoreBlockData`, `Prune`, queries |
| caching backend (`indexer/backend_cache.go`) | maps of recent blocks, cached tips | `Start`, `OnBlockIndexed`, `pruneCache`, reads |
| event system (`filters/`) | bounded channel, subscriptions | subscribe, unsubscribe, event loop |
| gas oracle (`gas/`) | price window, node price, fee history | handle block, query node, answer |
| log tx_index fixer (`worker/`) | position | search, fix a batch, retry |
| migrator (`db/migrator`, `db/migrations`) | migrations table | init, migrate, truncate |
| process (`main.go`) | goroutines, `errCh`, context | start, error, signal, shutdown |
| web3 server (`server/`) | stop channel, two endpoints | start, close |
| health checks (`indexer/indexer.go`, `rpc/oasis/health.go`) | two health flags, failure counter | compare rounds, probe the node |
| node source (`source/`) | a persistent cache of answers | look up, fetch, store |
| eth API (`rpc/eth/api.go`), archive client | the locals of requests in flight | resolve a block, choose archive or node, query; logs, fee history |
| net/web3/txpool/oasis APIs, metrics | stateless | see "Not modelled" |

A block flows from the node to the indexing worker, is committed by
`StoreBlockData`, inserted into the caches by `OnBlockIndexed`, and broadcast to
the event system and the gas oracle. The pruning worker deletes old rounds at the
same time, and requests read the caches and the database without a common lock.
A request for the state at a block goes to the archive node or to the node source,
whose pebble cache outlives the process.

What is hard to get right: two workers, a start-up routine and many readers on
shared rounds; READ COMMITTED transactions that overlap; commits whose answer is
lost; restarts anywhere; a compare-and-swap loop; bounded channels between
goroutines; shutdown with more senders than buffer. The `hazards` list has each
one at its line.

## Modules

| module | models | state and actions |
|---|---|---|
| `IndexedWindow` | abstract promise of the indexed database | a set of rounds and a tip: `Extend`, `DropBelow` |
| `Indexer` | indexing and pruning workers, block table, tips, cached tip | `QueryStart`, `ConfigureEnd`, `Fetch`, `StoreCommits`, `Notify` are the steps of one loop iteration; `*Fails`, `StoreAckLost`, `StoreLookupFails` its error paths; `PruneQuery`, `PruneStoreTip`, `PruneDelete` the pruner; `CacheStart*` the start of the cache; `Crash` keeps only the database |
| `RuntimeBlocks` | the chain as sequences of transactions | constants only |
| `BlockModels` | the decoding loop and `blockToModels`: a runtime block to rows | pure operators; `batch` holds the block examined |
| `BlockTables` | the transactions of `StoreBlockData` and `Prune`, per statement | committed tables, uncommitted rows of each transaction, row waits |
| `BlockCache` | content caches beside database and readers | the maps, the tables, the block in hand; `Commit`, `CommitAckLost`, `LookupFails` are the ends of `StoreBlockData`, then insertion map by map and eviction; `PruneQuery`, `Prune`; requests in steps; `Restart` keeps only the database |
| `LastRetainedCache` | `QueryLastRetainedRound` | readers in the compare-and-swap loop, `Start`, pruning |
| `NodeSource` | node and pebble cache, `getFromCacheOrFetch` | the node's range of rounds, the cache, a call per caller: `Get`, `Fetch`, `Set` |
| `StateQueries` | the eth_ calls about the state at a block, with the archive | composes the two above; a request resolves its block (`ReceiveBlock`, `QueryBlockRound`, `GetLastRetainedBlock`, `QueryLastRetainedRound`, `Earliest`) and then asks (`QueryArchive`, or `CallSource` and the steps of the source) |
| `LogFilter` | `eth_getLogs` and log subscriptions: bounds, addresses, topics | pure operators; `criteria` holds the filter examined |
| `FeeRewards` | validation and percentiles of `eth_feeHistory` | pure operators; `sample` holds the block examined |
| `Lifecycle` | `runRoot`, `Service.Start`, `Web3Gateway.Start` and `Close` | one state per goroutine, `errCh`, context, wait group; `Start*` start one service or endpoint each, `*Fails` end the start |
| `HealthChecks` | the two checks behind `/health` | rounds of node and indexer, whether the tip and the probe's answer are cached, the health flags, a failure counter; `QueryIndexed` and `Judge` are one iteration of `healthWorker`, `StartProbe` and `Probe*` one of the oasis_ checker |
| `EventSystem` | chain events and subscriptions | channel, event loop, subscriber goroutines |
| `GasOracle` | gas price and fee history | blocks in flight, price window, queries in flight |
| `LogTxIndexFixer` | the fixer's walk | mismatched rounds, position, failures, restarts |
| `Migrator` | concurrent migrations | migrations table, table lock, a place per instance |
| `LogsMigration` | the migration `LogsUp` | log table, position: `MigrateBatch`, `MigrationFails` rolls back |
| `Startup` | migrations, then the fixer, as `runRoot` orders them | composes the two above: `StartProcess`, `Migrate`, `FixerRuns`, `OthersPrune`, `Truncate` |

`MC*` modules give TLC its constants. Three of them also carry a module of pure
operators, and one `LogsMigration`, beside the system they instantiate: a behaviour
either runs the system, with a neutral sample, or examines one sample, so the
operators are checked on every small input against a definition of what they should
compute. The `*Proofs` modules hold the theorems. Operators commented
"Mutant:" are deliberately wrong variants of the definition that follows them; no
specification uses them.

`Indexer` treats a commit as one step and `BlockTables` opens it up; `BlockCache`
uses one-step commits and prunes again. `Indexer` implements `IndexedWindow`
(rows of the block table as the set, `Continues` as the tip), checked as
`WindowSpec` and proved as `Refinement`; so does `BlockTables`, one statement at a
time, while no lookup fails (proved as `TablesImplementWindow`). `Startup` implements
`Migrator`. `Lifecycle` names its specification `ProcessSpec`, and its parts
accordingly, because `IndexerProofs` extends it beside `Indexer`.

## Runs

"Violation" runs state what a comment says and show that the code does otherwise;
the finding of each quotes the line.

| run | checks | result |
|---|---|---|
| indexer_safety | `TipIsNewestBlock`, `NoAvoidableGap`, `EndMeansComplete`, `CachedTipIsFresh`, `ParametersOfOwnEpoch`, `PruneKeepsWindow`, `WindowSpec` | hold on every chain, under failures, lost answers, node pruning and restarts |
| indexer_progress | `CatchesUp` | holds while the node prunes and calls fail |
| indexer_lookup | `NoAvoidableGap` | violated: a failed lookup counts as success and skips the round |
| tables | `SuccessKept`, `RowsHaveBlocks`, `StoresAll` | hold with both transactions open and failing; the row locks do not deadlock |
| | `ModelsConsistent` | holds for every block of three transactions: indexes, logs and gas of the rows agree |
| cache | `CacheHoldsNewest`, `CachedTxIsStored`, `CachedLogsExact`, `AnnouncedServable` | hold with pruning, lost answers, failed lookups and restarts; the last three except for the rounds that were pruned or whose lookups failed |
| api | `NeverAhead`, `AnswersNamedBlock`, `MissingOnlyIfGone`, `RequestsEnd` | hold with two requests, outages, pruning and restarts |
| retained_spin | `CallsReturn` | violated: one prune makes the loser of the swap spin |
| lifecycle | `StopsCleanlyAfterFixer`, `ErrorStopsProcess` | hold in every configuration, whichever start fails |
| health | `IndexerNotInFront`, `OasisHealthIsRecent`, `HealthRecovers`, `OutageReported` | hold, the last without a pebble cache |
| events | `ReceivesWhatIsTaken`, `UnsubscribeReturns`, `EventsAreTaken` | hold |
| | `FiltersAgree` | holds: polling and subscribing with the same criteria give the same logs |
| gas | `ComputedIsWindowMax`, `FeeHistoryAnswers`, `NodePriceNeverOlder` | hold |
| | `RewardsArePercentiles` | holds for every block of three transactions |
| startup | `ExactlyOnce`, `AllFixed`, `FixerOnLatestSchema`, `MigrateReturns`, `WalkEnds` | hold with two versions, restarts and truncate-db |
| | `LogsRenumbered` | holds for every small log table and order of its rows |

The type invariants hold on the same instances; they say what the state is made of
and the runs do not list them. Most are part of the proofs, as are
`TipsNeverRetreat`, `NothingSkipped`, `InOrder` and `LatestAfterMigrate`, which
hold on these instances too.

`CachedTipIsFresh` and `ParametersOfOwnEpoch` are claimed until an acknowledgement
is lost, which the history variable `ackLost` records, and the second until the
node prunes. The table below says what happens otherwise.

A lookup of an earlier transaction or receipt that fails (utils.go:442 and 477)
makes `StoreBlockData` report success with nothing stored, and the observer is given
a `BlockData` that lacks what was not upserted. `BlockCache` takes that step, and
records the round in the history variable `lost`: such a round is announced and
cached, its logs may be incomplete, and after its eviction it is nowhere. The
properties of the run show that the damage stays in that round: what the caches
answer for all others is exact, and eviction still finds every entry.

A cancelled request leaves the loop that `retained_spin` shows, because its next
query fails. An HTTP request is cancelled by its timeout; one over WebSocket is not.

## Other disagreements met while modelling

These properties are defined in the modules but no run checks them. Each states a
comment of the code and is violated under the instance named.

| property | instance | source | what happens |
|---|---|---|---|
| `CachedTipIsFresh` without `~ackLost` | `Indexer`, Env with "lostAck" | indexer/utils.go:516 | the commit is stored, its answer is lost; the cached round stays behind and the worker retries the stored round until a restart. backend.go:49: "QueryLastIndexedRound query continues indexed block round." |
| `CachedTipIsFresh` | `Indexer`, Env with "slowStart" | indexer/backend_cache.go:616 | the plain write of `Start` overwrites a newer round |
| `ParametersOfOwnEpoch` without its premise | `Indexer`, `EpochChains`, IndexingStart 0, Env with "nodePrune" or "lostAck" | indexer/indexer.go:113 | the start of the range jumps past a transition: "Epoch parameters were queried in last block, no need to re-query until next epoch." A lost acknowledgement does the same when nothing is cached yet: the transition is stored and never notified |
| `TablesAgree` | `BlockTables` | indexer/utils.go:470 | a prune between the two loops: a duplicate's receipt is inserted without its transaction. utils.go:433: "The gateway should drop these" |
| `IndexIsPosition` | `BlockTables` | storage/psql/psql.go:332 | position used as index after a dropped duplicate. psql.go:318: "returns transaction by bock hash and transaction index" |
| `PruneIncludesRound` | `Indexer` | storage/psql/psql.go:198 | the passed round itself is kept: the condition is `round < ?`, as psql.go:196 says. indexer/backend.go:92: "removes indexed data for rounds equal to or earlier than the passed round" |
| `CachedBlockIsStored` | `BlockCache` | indexer/utils.go:534 | the cached block lists a dropped duplicate. utils.go:433: "The gateway should drop these" |
| `CachedIsIndexed` | `BlockCache` | indexer/utils.go:442 | after a failed lookup the block is cached and announced and was never stored. backend_cache.go:129: "A new block was indexed, insert it into the various caches." `CachedTxIsStored`, `CachedLogsExact` and `AnnouncedServable` without `lost` fail in the same way |
| `CachedIsCurrent` | `LastRetainedCache` | indexer/backend_cache.go:237 | the cached round never follows the pruner. backend.go:52: "QueryLastRetainedRound query the minimum round not pruned." |
| `StopsCleanly` | `Lifecycle` | main.go:257 | five senders, room for four, while the fixer works: exit after 30 s. main.go:387: "Ensure clean shutdown." |
| `ServerOutlivesIndexer` | `Lifecycle` | indexer/indexer.go:397 | `indexing_end` stops a gateway that has a server. main.go:308: "If no server is running, stop the process when the indexer finishes." |
| `WorkersReturnFirst` | `Lifecycle` | indexer/indexer.go:393 | `Start` may return before its workers. indexer.go:386: "Wait for services to shutdown." |
| `StartReportsErrors` | `Lifecycle` | server/server.go:261 | when the first endpoint fails, `stopRPC` shuts down a WebSocket server that does not exist yet: `runRoot` panics instead of returning "starting web3 server" (main.go:362) |
| `ClosedServerIsSilent` | `Lifecycle` | server/server.go:193 | `Close` only closes the stop channel and both endpoints go on serving until the process ends. server.go:192: "release resources acquired by Start()" |
| `FinishedIsHealthy` | `HealthChecks` | indexer/indexer.go:317 | an iteration of `healthWorker` that the end of indexing cancels reports unhealthy after `updateHealth(true)`, and nothing reports again |
| `EveryHeadNotified` | `EventSystem`, MaxRound above the channel size | indexer/utils.go:529 | a full channel drops the block. rpc/eth/filters/api.go:20: "NewHeads send a notification each time a new (header) block is appended to the chain." |
| `PriceOfLastBlock` | `GasOracle` | gas/backend.go:182 | a block that arrives during a query starts none. backend.go:76: "after every block, query the oasis-node for its configured gas price" |
| `FeeHistoryIsRange` | `GasOracle`, MaxJump 1 | gas/fee_history.go:183 | entries are not consecutive after a skipped round. rpc/eth/api.go:75: "for the requested/supported block range" |
| `OutageReportedCached` | `HealthChecks` | source/pebble/pebble.go:110 | once the public key is cached, an outage of the node is never reported, over restarts too. pebble.go:108: "we should treat this as volatile, but we don't as we need to cache it for tests." |
| `MedianIsMiddle` | `BlockModels` | indexer/utils.go:267 | in a block of three, the price of a first transaction that is not Ethereum's is taken. indexer/backend.go:107: "is the price of the median transaction in the runtime block" |
| `RangeWithinLimit` | `LogFilter`, GetLogsMaxRounds 1 | rpc/eth/api.go:690 | one round more than the limit is accepted. conf/config.go:236: "the maximum number of rounds to query for in a get logs query." |
| `LatestAfterMigrate` | `Startup`, Env with "dropFails" | db/migrations/migrations.go:55 | a skipped DROP leaves the marks without the tables. migrations.go:70: "Migrate migrates the DB to latest version." |

With `indexing_disable`, `runRoot` runs no migrations and still starts the fixer
(main.go:226-271); `Startup` models the other case. The gas oracle is given only
successful transactions, while the gas of the block counts failed ones:
`RewardsArePercentiles` is stated relative to the block's gas, as the code computes
it. For a round whose receipt lookup failed it is given fewer receipts than
transactions, and `trackFeeHistory` indexes the receipts by transaction
(gas/fee_history.go:167): an index out of range, one more consequence of the
disagreement that `indexer_lookup` shows. `GasOracle` leaves these rounds out.
`LogsUp` orders the rows by round alone, so within a round it may number logs in
another order than they were emitted; `LogsRenumbered` does not claim otherwise.

## Bounds

- Rounds: up to 4 (5 rounds) in `Indexer`, with every sequence of header types
  that starts with a transition and ends with a normal round. An epoch transition with rounds on both
  sides, a prune behind an indexed tip, and a retry all fit in three rounds.
- `BlockTables`: four rounds and two hashes: a failed inclusion, the success, a
  failed duplicate after it, and a prune between them. `BlockCache`: a
  cache of three so that eviction happens within four rounds, and two hashes, which
  are symmetric. Either both are included twice, in blocks of their own, one as a
  success in round 1 and then a failed duplicate, the other as a failure and then a
  success, or one block has two successes, so that a lookup can fail after
  an upsert. The constraint `OneRequest` follows one request at a time: requests only
  read, so they do not see each other.
- `LastRetainedCache` (retained_spin): two callers beside `Start`, the least that
  can race, and one prune.
- `StateQueries`: two requests and two rounds, on a young chain without archive and
  on one whose first round only the archive has. A round that is produced, cached
  and pruned, and one that is not, are all that the answers tell apart; that more
  rounds, requests or an absent cache change nothing is proved.
- `BlockModels`: three transactions, of which some are skipped and some repeat a
  hash, with logs in several events, a gas report, a fee, and a refused block. One
  gas limit and two prices: a report of gas differs from the limit, and two prices
  tell which transaction the median came from.
  `LogFilter`: three rounds, two addresses, two topics in up to two positions, every
  criteria of that size, no limit. `FeeRewards`: three transactions with amounts 1
  and 3, so that gas and rewards rank differently, and requests of two percentiles,
  the invalid 101 among those refused. `LogsMigration`: four rounds of up to three
  logs in batches of two, with rows below the retained tip or not.
- `Lifecycle`: no bound; all 256 configurations are initial states.
- `HealthChecks`: rounds up to 3 and a drift of one, so that the indexer falls behind
  and catches up; the code's threshold of three probes.
- `EventSystem`: a channel of two and three blocks, so that it fills up while the
  event loop and both kinds of subscriber are anywhere.
- `GasOracle`: a window of two and a history of three, both of which overflow
  within four blocks; one round may be skipped.
- `Startup`: an instance of two migrations and one of three, three starts in all;
  five rounds in batches of two, and two stops of the fixer.

`CHECK_DEADLOCK FALSE` is used where the system may stop: an exited process, a
bounded number of blocks, migrated instances with a finished fixer.

## Fairness

Goroutines are weakly fair: the Go scheduler runs every runnable one. A call to the
node or the database that the code repeats forever is strongly fair in its success
(it does not fail every time). `StoresAll` instead assumes in the property that
statements stop failing at some time, and `RequestsEnd` that nothing is
pruned from the index and the query of `Start` succeeds; it needs the fairness of
the request's own goroutine only, so one request is followed beside an unfair one.
Signals, new blocks, pruning, crashes, process starts and subscribers' wishes have
no fairness. A query of the gas oracle returns because it has a timeout, and so does
a probe of the oasis_ check, either way. A select that is reached again and again
does not pass over a cancelled context for ever. A free table lock is given to a
waiting transaction.

## Proofs

Assumptions are the named ASSUMEs of the modules: types of the constants;
`HistoryAssumption`, that the runtime executes a transaction successfully at most
once; and `TablesAssumption`, that the log table has its primary key and that the
logs of a transaction are those of one round. `ModelsConsistent` is proved for every
block of `Batches`, whose definition has the same fact of the runtime for one block,
and that a failed transaction has no logs.

The library's induction theorems are out of the provers' reach. Where a proof needs
induction over a sequence or a recursive function, it takes a least counterexample
instead: `LeastNumber`, that a set of numbers has a least one, follows from the
theorem that `<` is well-founded. `CountUp` restates it: a set that has 0 and with
each number the next one has them all.

`IndexerProofs`. `TypeCorrect` holds in every environment. The others are for
`NormalOperation`, without the failed lookup that `indexer_lookup` shows to break
them and without a cache that starts after the workers ("slowStart" above).
The inductive invariant `IInv` adds to the checked properties what the workers'
positions promise: before the workers run nothing is cached (`StartupInv`), the
cached tip is never ahead of the stored one (`CacheInv`), the round about to be
stored is the first wanted one above the tip (`RoundInv`), and the bound of a
prune stays `pruning_step` below the tip (`PruneInv`). Without `RoundInv`, no-gap
is not preserved by a store; without `PruneInv`, a prune could delete the tip.
From it follow `TipCorrect`, `NoGap`, `EndComplete`, `CacheFresh`, `PruningSafe`,
`TipsMonotone` and `Refinement`. `ParametersCorrect` needs `EpochInv` as well: the
parameters in hand, unless they are to be queried again, are those of the epoch of
the next round, or that round is itself a transition (`ParamsInv`).

The same module has what is proved of `Lifecycle`, for every configuration, failing
start and order of signals and errors; these are the safety halves of its two
liveness properties. `ReturnsHeard`: while `runRoot` selects, the error of every
service that should not have returned is still to be received, and without a server
the end of the indexer has cancelled the context. With a fixer that has nothing to
do, `NoBlockedSend`: whoever writes to `errCh` finds room, and `StopsClean`: the
timer never forces the exit. `StopsClean` also says that an exit leaves the server
and the node source closed. `LifecycleInv` counts the errors in the channel by the
services that have returned (`RoomInv`), and says what is not yet started
(`StartInv`), what a service that has returned has closed (`ClosedInv`), and that
its error stays until the select (`HeardInv`).

`StartupProofs`. `MigratesOnce`, `MigratesInOrder` and `MigratesToLatest` for any
instances and versions, if no DROP fails (`DropsSucceed`). The invariant needs that
whoever is in a transaction holds the table lock (`LockInv`), so the migration it
has chosen is still the first unmarked one (`ChosenInv`). `MigratesAsOne` says it of
the steps: the instances together change the database as one would that applies the
first missing migration, and then the next. `LockGivenBack` is the safety half of
`MigrateReturns`. `FixerComplete` and `FixerWalk`, for every batch size: `AllFixed`
needs `NothingSkipped`, that every mismatch is at or below the batch's end.
`WalkDescends` is the safety half of `WalkEnds`: a batch that succeeds takes the
walk to a smaller round and one that fails to no larger one, and no mismatch is
added. Every
step of the composed system is a step of `Migrator` or leaves its variables alone
(`StartupRefinesMigrator`), so its theorems carry over.
`StartupFixes` repeats the fixer's induction with truncate-db as one more step.
`FixerAfterMigrations` joins `LatestAfterMigrate` with `RunnerInv`, which ties the
two parts: a fixer past its search belongs to a process that has migrated.
`LogsMigrate`, for every log table, batch size and order of the rows: in rows that
are ordered by round, those of a round follow one another, and counting gives them
the indexes 0, 1, ... (`RowsOfRun`, `BatchRows`); `LogsInv` says that the rounds
passed are numbered and that the rows are those of the beginning. Two rows of one
primary key cannot come from different batches, because they are of one round.

`BlockTablesProofs`. `SuccessesKept` and `RowsTrue`, for every set of histories. `TablesInv`
says that every row, committed or not, records an execution of its hash in its
block (`TableInv`, `OwnInv`), that uncommitted rows cover what the loops have
passed (`WrittenBefore`), that Prune holds exactly rows below its bound
(`DeletedInv`), and that a retained round's success has its row (`KeptInv`). A
success overwrites the row of a failure and nothing overwrites a success: that
needs `OneExecution`, from `HistoryAssumption`.

`TablesImplementWindow`: the block table and the `Continues` tip, changed statement
by statement and at the commits of two open transactions, implement `IndexedWindow`.
`WindowInv` has that the cached round is the tip and that Prune works below it. The
theorem assumes that `LookupFails` does not happen, and needs to: after a failed
lookup the cached round is ahead of the database, Prune counts from it, and can
delete the newest block; TLC shows that when it is allowed. Failed statements,
rollbacks and pruning are not restricted.

`RowsAgree` is `ModelsConsistent` for a runtime block of any length, with any
transactions skipped, any hashes repeated and any events. Every part is an invariant
of the decoding loop, proved from one iteration (`DecodeStep`) by `CountUp`: the
transactions decoded so far are Ethereum transactions of the block, with one success
of a hash at most (`DecodedTxs`), each log has the index of its place and belongs to the one success
of its hash (`DecodedLogs`), there are as many logs of a hash as the block has
(`DecodedLogCount`), and the gas adds up (`DecodedGas`). Selecting the logs of a
hash keeps them all and in order (`SelectedLogs`, `SelectOfMore`), and sums split
(`SumsAdd`, `SumsPrefix`). A failed execution of the same hash does not disturb
this because it has no logs.

`BlockCacheProofs`. `CachedTxStored`, `CachedLogsTrue`, `AnnouncedFound` and
`CacheExact`, for every history, cache size and pruning step, with lost answers,
failed lookups and restarts anywhere. `CacheInv` says of each entry by itself that its
round is one that was stored, pruned or lost its lookups (`Known`) and that its hash
succeeded there (`EntriesTrue`), that the cached logs of a round not lost are all of
its logs (`CachesTrue`), and that a success of a stored round has its row (`RowsInv`,
from `HistoryAssumption`). `IxInv` has that the block in hand is at or above the tip
and that a prune never reaches above the tip, so that a round above it that a request
was given is still stored (`BlockInv`); `LogsInv` says what a request has gathered so
far. For `CacheExact`, `HoldInv` says which rounds each map holds at every step of an
insertion and of the eviction after it. `Start` comes before the workers here, as in
`NormalOperation` above: they wait for a timer first. A later one can lower the tip
("slowStart").

`StateQueriesProofs`. `RetainedNeverAhead`, `AnswersCorrect` and `MissesOnlyGone`,
for any number of requests, rounds and deployments, with and without cache, under
outages and restarts. `QueriesInv` rests on the cache mapping a round to itself and
never holding the latest one (`DbExact`), on the node and the index only moving
forward, and on each request carrying the round its block stands for (`RoundInv`)
through the call of the source (`CallInv`).

`HealthAndFeesProofs`. `NotInFront`, because the round read first cannot overtake
the one read second (`DriftInv`), and `OasisHealthExact`: the counter is the number
of failures since the last success, up to the threshold (`CountInv`). `RewardsExact`,
for every block and accepted request: the stable sort puts each transaction at its
rank (`RankOrder`, `RankOnto`), so the running sum at a place of the sorted list is
the gas of the transactions up to that rank (`SumOfFirst`), and those with at most
some reward are such a set (`Cut`); what the walk has passed for one percentile does
not reach a later one (`NonePassed`), because an accepted request is ascending.

`EventSystemProofs`. `Delivery`, for any number of blocks, subscribers and channel
slots: a subscription has received what it asked for of the events taken since it
was installed, up to the last one, which it may still be waiting for (`GotInv`). That needs
the order of the events (`OrderInv`) and who is still to be served by the loop
(`LoopInv`). `ReadersLive`, the safety half of `UnsubscribeReturns` and
`EventsAreTaken`: a subscription is in the index exactly while its goroutine reads
its channel, and the loop sends to no other. `SameFilter`, for every criteria and log, where no limit on the rounds
of eth_getLogs is set.

`GasOracleProofs`, for every window, history, price and skipped round. `WindowMax`:
the rolling array has the price of a block in the slot that its age, counted in
tracked blocks, gives (`RingInv`), so the slot overwritten is that of the block that leaves
the window. `NeverOlder`: one query is in flight at most, and no block still to come
is older than its block (`QueryInv`). `HistoryAnswers`: the fee history is the end
of the sequence of blocks handled (`HistoryInv`), and the indices that `FeeHistory`
computes stay inside it.

Every safety property that a passing run checks is stated by a theorem. Only
model-checked are the liveness properties, since liveness under fairness and ENABLED
are outside the prover: `CatchesUp`, `StoresAll`, `RequestsEnd`,
`HealthRecovers`, `OutageReported`, and, with a safety half that is proved as said
above, `StopsCleanlyAfterFixer`, `ErrorStopsProcess`, `UnsubscribeReturns`,
`EventsAreTaken`, `MigrateReturns` and `WalkEnds`. That the row locks of
`StoreBlockData` and `Prune` do not deadlock is checked as part of `StoresAll` and
not proved: a statement is one step in `BlockTables`, whereas PostgreSQL locks the
rows of a DELETE one at a time, so a theorem would say more than the model shows.

## Not modelled

- Hashes, blooms, encodings and addresses in `blockToModels`, and their conversion
  back in `rpc/utils`. A block that cannot be decoded: the indexing worker retries
  it for ever.
- A second `Close` of the web3 server, which nothing calls; a signal before
  `runRoot` listens for signals, which ends the process at once.
- `Migrator.Rollback` and `Delete`: no caller. What a migration does to the schema.
- `eth_getLogs` by block hash, which is one lookup followed by the same filter, and
  the bounds pending, safe, finalized and earliest, which subscriptions refuse.
- `SendRawTransaction` and the building of simulated transactions: one call to the
  node without state here.
- net/web3/txpool/oasis APIs, metrics, configuration, HTTP handlers: constant
  answers, wrappers and input or output.

## Plan

Done: the indexer with its abstract specification, the tables, the caches, requests
with node source and archive, health checks, events, gas, fixer, migrations and the
lifecycle, all with proofs of their safety properties; the pure algorithms against
their definitions, proved for every input.

Next: `NodeSource` as the source of `Indexer`, whose fetches are now one step each.
