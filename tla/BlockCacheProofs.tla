-------------------------- MODULE BlockCacheProofs -------------------------
(***************************************************************************)
(* Proofs about BlockCache, for every history, cache size and pruning      *)
(* step, with restarts, lost answers and failed lookups.  A request reads  *)
(* the maps without a lock, so the invariant says what each entry means by *)
(* itself, whatever the other maps hold at that moment: an entry names a   *)
(* round that was stored or lost its lookups, and what happened in it.     *)
(***************************************************************************)
EXTENDS BlockCache, FiniteSetTheorems, WellFoundedInduction, TLAPS

Tip == QueryLastIndexedRound

(* The rounds that are stored, were pruned or lost their lookups. *)
Known == blocks \cup pruned \cup lost

(* A success of a stored round has its row. *)
RowsInv ==
    \A r \in blocks : \A h \in Successful(r) :
        h \in DOMAIN txs /\ txs[h] = [round |-> r, status |-> ReceiptStatusSuccessful]

DbInv ==
    /\ history \in Histories
    /\ blocks \subseteq Rounds /\ pruned \subseteq Rounds
    /\ continues \in 0..MaxRound
    /\ continues # 0 => continues \in blocks \cup pruned
    /\ RowsInv

(* BlockData in the hands of the indexing goroutine. *)
DataInv ==
    /\ bd.round \in Known /\ bd.round \in Rounds /\ bd.round >= Tip
    /\ bd.uniqueTxes \subseteq Successful(bd.round)
    /\ bd.receipts \subseteq Successful(bd.round)
    /\ bd.round \notin lost => bd.receipts = Successful(bd.round)

IxInv ==
    /\ lost \subseteq Rounds
    /\ lastIndexedRound \in 0..MaxRound
    /\ lastIndexedRound # 0 => lastIndexedRound \in Known
    /\ ixPc = "start" => lastIndexedRound = 0
    /\ ixPc \in {"blocks", "logs", "txes", "tip"} => DataInv
    /\ pruneRound \in Nat /\ pruneRound <= Tip

(* An entry of a map of transactions or receipts names the success. *)
EntriesTrue(map) == \A h \in DOMAIN map : map[h] \in Known /\ h \in Successful(map[h])

CachesTrue ==
    /\ EntriesTrue(txByHashHex) /\ EntriesTrue(receiptByTxHashHex)
    /\ \A r \in DOMAIN logsByBlockNumber :
          /\ logsByBlockNumber[r] \subseteq Successful(r)
          /\ r \notin lost => logsByBlockNumber[r] = Successful(r)

(* A round above the tip is stored: it is not pruned before it is passed.  *)
BlockInv ==
    /\ blPc # "idle" => blRound \in Known /\ (blRound \in blocks \/ blRound <= Tip)
    /\ blPc = "missing" => blRound \in pruned \cup lost /\ blRound <= Tip

LogsBetween(rounds) ==
    lgLogs \subseteq Logs(rounds) /\ Logs(rounds \ lost) \subseteq lgLogs

LogsInv ==
    /\ lgPc = "idle" => lgLogs = {}
    /\ lgPc = "loop" =>
          /\ startRound \in Nat /\ endRound \in Nat /\ lgNext \in startRound..endRound
          /\ LogsBetween(startRound..(lgNext - 1))
    /\ lgPc = "cached" => LogsBetween(startRound..endRound)

(* The inductive invariant. *)
CacheInv == DbInv /\ IxInv /\ CachesTrue /\ BlockInv /\ LogsInv

-----------------------------------------------------------------------------
LEMMA InSuccessful ==
    ASSUME NEW r, NEW S, NEW h
    PROVE  h \in SuccessfulAt(r, S) <=>
               \E i \in S : Succeeded(history[r][i]) /\ history[r][i].hash = h
  BY Zenon DEF SuccessfulAt

(* A hash succeeds in one round only. *)
LEMMA OneRound ==
    ASSUME history \in Histories, NEW r \in Rounds, NEW s \in Rounds,
           NEW h \in Successful(r), h \in Successful(s)
    PROVE  r = s
<1>1. OneSuccess(history)
  BY HistoryAssumption
<1>2. PICK i \in DOMAIN history[r] : Succeeded(history[r][i]) /\ history[r][i].hash = h
  BY InSuccessful DEF Successful
<1>3. PICK j \in DOMAIN history[s] : Succeeded(history[s][j]) /\ history[s][j].hash = h
  BY InSuccessful DEF Successful
<1> QED BY <1>1, <1>2, <1>3 DEF OneSuccess

(* What precedes a transaction of a block is in the block. *)
LEMMA BeforeInBlock ==
    ASSUME history \in Histories, NEW r \in Rounds, NEW i \in DOMAIN history[r]
    PROVE  SuccessfulAt(r, 1..i - 1) \subseteq Successful(r)
<1>1. history[r] \in Seq(Tx)
  BY HistoryAssumption
<1>2. 1..i - 1 \subseteq DOMAIN history[r]
  BY <1>1
<1>3. ASSUME NEW S, S \subseteq DOMAIN history[r] PROVE SuccessfulAt(r, S) \subseteq Successful(r)
  BY <1>3 DEF Successful, SuccessfulAt
<1> QED BY <1>2, <1>3, Zenon

LEMMA SuccessfulFrame ==
    ASSUME history' = history
    PROVE  \A r : Successful(r)' = Successful(r)
  BY DEF Successful, SuccessfulAt

LEMMA InLogs ==
    ASSUME NEW S, NEW x
    PROVE  x \in Logs(S) <=> \E r \in S : \E h \in Successful(r) : x = <<r, h>>
  BY DEF Logs

LEMMA LogsMonotone == ASSUME NEW S, NEW T, S \subseteq T PROVE Logs(S) \subseteq Logs(T)
  BY InLogs

LEMMA LogsFrame ==
    ASSUME LogsInv, UNCHANGED <<lgVars, history>>, lost \subseteq lost'
    PROVE  LogsInv'
<1>1. \A S : Logs(S)' = Logs(S)
  BY SuccessfulFrame DEF Logs
<1>2. \A S : LogsBetween(S) => LogsBetween(S)'
  <2> SUFFICES ASSUME NEW S, LogsBetween(S) PROVE LogsBetween(S)'
    BY Zenon
  <2>1. Logs(S \ lost') \subseteq Logs(S \ lost)
    BY LogsMonotone
  <2> QED BY <1>1, <2>1 DEF LogsBetween, lgVars
<1>3. UNCHANGED <<lgPc, startRound, endRound, lgNext, lgLogs>>
  BY DEF lgVars
<1> QED BY <1>2, <1>3, Zenon DEF LogsInv

LEMMA CachesFrame ==
    ASSUME CachesTrue, UNCHANGED <<history, logsByBlockNumber, txByHashHex, receiptByTxHashHex>>,
           Known \subseteq Known', lost \subseteq lost'
    PROVE  CachesTrue'
<1>1. \A r : Successful(r)' = Successful(r)
  BY SuccessfulFrame
<1> QED BY <1>1, Zenon DEF CachesTrue, EntriesTrue

(* A request for a block that makes no step, while the tip does not fall.  *)
LEMMA BlockFrame ==
    ASSUME BlockInv, UNCHANGED blVars, Tip \in Nat, Tip' \in Nat, Tip <= Tip',
           blocks \subseteq Nat, pruned \subseteq Nat, lost \subseteq Nat,
           Known \subseteq Known',
           \A r \in blocks : r \in blocks' \/ r <= Tip',
           \A r \in pruned \cup lost : r <= Tip => r \in pruned' \cup lost'
    PROVE  BlockInv'
<1>1. UNCHANGED <<blPc, blRound>>
  BY DEF blVars
<1>2. blPc # "idle" => blRound \in Known /\ (blRound \in blocks \/ blRound <= Tip)
                          /\ blRound \in Nat
  BY Zenon DEF BlockInv, Known
<1>3. blPc = "missing" => blRound \in pruned \cup lost /\ blRound <= Tip /\ blRound \in Nat
  BY Zenon DEF BlockInv
<1>4. blPc # "idle" => blRound \in Known' /\ (blRound \in blocks' \/ blRound <= Tip')
  BY <1>2
<1>5. blPc = "missing" => blRound \in pruned' \cup lost' /\ blRound <= Tip'
  BY <1>3
<1> QED BY <1>1, <1>4, <1>5 DEF BlockInv

(* A step that touches neither the database nor the indexing goroutine. *)
LEMMA RequestFrame ==
    ASSUME CacheInv, UNCHANGED <<dbVars, historyVars, ixVars, cacheVars, pruneRound>>
    PROVE  DbInv' /\ IxInv' /\ CachesTrue'
<1>1. /\ UNCHANGED <<history, blocks, continues, txs, pruned, lost, bd, ixPc,
                     logsByBlockNumber, txByHashHex, receiptByTxHashHex, lastIndexedRound,
                     pruneRound>>
  BY DEF dbVars, historyVars, ixVars, cacheVars, mapVars
<1>2. \A r : Successful(r)' = Successful(r)
  BY <1>1, SuccessfulFrame
<1>3. Known' = Known /\ Tip' = Tip
  BY <1>1 DEF Known, Tip, QueryLastIndexedRound
<1>4. DbInv'
  BY <1>1, <1>2, Zenon DEF CacheInv, DbInv, RowsInv
<1>5. IxInv'
  BY <1>1, <1>2, <1>3, Zenon DEF CacheInv, IxInv, DataInv
<1>6. CachesTrue'
  BY <1>1, <1>3, CachesFrame, Zenon DEF CacheInv
<1> QED BY <1>4, <1>5, <1>6

LEMMA TipType == ASSUME CacheInv PROVE Tip \in Nat /\ Tip \in 0..MaxRound
  BY RoundAssumption DEF CacheInv, DbInv, IxInv, Tip, QueryLastIndexedRound

LEMMA RoundTypes ==
    ASSUME CacheInv
    PROVE  /\ blocks \subseteq Nat /\ pruned \subseteq Nat /\ lost \subseteq Nat
           /\ Rounds \subseteq Nat
  BY RoundAssumption DEF CacheInv, DbInv, IxInv, Rounds

LEMMA RequestBlockFrame ==
    ASSUME CacheInv, UNCHANGED <<dbVars, historyVars, cacheVars, blVars>>
    PROVE  BlockInv'
<1>1. UNCHANGED <<blocks, pruned, lost, Tip, Known, blPc, blRound>>
  BY DEF dbVars, historyVars, cacheVars, blVars, Tip, QueryLastIndexedRound, Known
<1> QED BY <1>1, Zenon DEF CacheInv, BlockInv

-----------------------------------------------------------------------------
(* A process that has just started on a database. *)
LEMMA FreshProcess ==
    ASSUME DbInv, lost = {}, DOMAIN txByHashHex = {}, DOMAIN receiptByTxHashHex = {},
           DOMAIN logsByBlockNumber = {}, lastIndexedRound = 0, ixPc = "start",
           pruneRound = 0, blPc = "idle", lgPc = "idle", lgLogs = {}
    PROVE  CacheInv
<1>1. IxInv
  BY RoundAssumption DEF DbInv, IxInv, Tip, QueryLastIndexedRound
<1>2. CachesTrue
  BY DEF CachesTrue, EntriesTrue
<1>3. BlockInv /\ LogsInv
  BY DEF BlockInv, LogsInv
<1> QED BY <1>1, <1>2, <1>3 DEF CacheInv

LEMMA CacheInit == Init => CacheInv
<1> SUFFICES ASSUME Init PROVE CacheInv
  OBVIOUS
<1>1. DbInv
  BY RoundAssumption DEF Init, DbInv, RowsInv
<1>2. DOMAIN NoRows = {}
  BY DEF NoRows
<1> QED BY <1>1, <1>2, FreshProcess DEF Init

(* The process stops anywhere and starts again. *)
LEMMA RestartStep == CacheInv /\ Restart => CacheInv'
<1> SUFFICES ASSUME CacheInv, Restart PROVE CacheInv'
  OBVIOUS
<1>1. UNCHANGED <<history, blocks, continues, txs, pruned>>
  BY DEF Restart, dbVars
<1>2. \A r : Successful(r)' = Successful(r)
  BY <1>1, SuccessfulFrame
<1>3. DbInv'
  BY <1>1, <1>2, Zenon DEF CacheInv, DbInv, RowsInv
<1>4. DOMAIN NoRows = {}
  BY DEF NoRows
<1>5. IxInv'
  <2>1. lastIndexedRound' = 0 /\ lost' = {} /\ ixPc' = "start" /\ pruneRound' = 0
    BY DEF Restart
  <2>2. Tip' = continues' /\ continues' \in Nat
    BY <2>1, <1>3, RoundAssumption DEF Tip, QueryLastIndexedRound, DbInv
  <2> QED BY <2>1, <2>2, RoundAssumption DEF IxInv
<1>6. CachesTrue'
  BY <1>4 DEF Restart, CachesTrue, EntriesTrue
<1>7. BlockInv' /\ LogsInv'
  BY DEF Restart, BlockInv, LogsInv
<1> QED BY <1>3, <1>5, <1>6, <1>7 DEF CacheInv

(* Start reads the tip that QueryLastIndexedRound would read itself. *)
LEMMA StartStep == CacheInv /\ Start => CacheInv'
<1> SUFFICES ASSUME CacheInv, Start PROVE CacheInv'
  OBVIOUS
<1>1. /\ ixPc = "start" /\ ixPc' = "idle" /\ lastIndexedRound' \in {continues, 0}
      /\ UNCHANGED <<history, blocks, continues, txs, pruned, lost, logsByBlockNumber,
                     txByHashHex, receiptByTxHashHex, pruneRound, blVars, lgVars>>
  BY DEF Start, dbVars, historyVars, mapVars
<1>2. \A r : Successful(r)' = Successful(r)
  BY <1>1, SuccessfulFrame
<1>3. Known' = Known /\ Tip' = Tip /\ lastIndexedRound = 0
  BY <1>1 DEF CacheInv, IxInv, Known, Tip, QueryLastIndexedRound
<1>4. DbInv'
  BY <1>1, <1>2, Zenon DEF CacheInv, DbInv, RowsInv
<1>5. IxInv'
  <2>1. continues \in 0..MaxRound /\ (continues # 0 => continues \in Known)
    BY DEF CacheInv, DbInv, Known
  <2> QED BY <1>1, <1>3, <2>1, RoundAssumption DEF CacheInv, IxInv
<1>6. CachesTrue'
  BY <1>1, <1>3, CachesFrame DEF CacheInv
<1>7. BlockInv'
  <2>1. UNCHANGED <<blPc, blRound>>
    BY <1>1 DEF blVars
  <2> QED BY <1>1, <1>3, <2>1, Zenon DEF CacheInv, BlockInv
<1>8. LogsInv'
  BY <1>1, LogsFrame DEF CacheInv
<1> QED BY <1>4, <1>5, <1>6, <1>7, <1>8 DEF CacheInv

-----------------------------------------------------------------------------
(* StoreBlockData. *)

LEMMA ToIndexAboveTip ==
    ASSUME CacheInv, NEW r \in ToIndex
    PROVE  r \in Rounds /\ r \in Nat /\ r > Tip
  BY TipType, RoundAssumption DEF ToIndex, Rounds, Tip

(* The rows of the rounds that are stored stay, those of r come. *)
LEMMA StoreDb ==
    ASSUME CacheInv, NEW r \in ToIndex, StoreBlockData(r)
    PROVE  /\ DbInv' /\ history' = history /\ continues' = r
           /\ blocks' = blocks \cup {r} /\ pruned' = pruned \ {r}
<1> DEFINE failed == Failed(r) \ DOMAIN txs
           rows == StoreAll(txs, failed, [round |-> r, status |-> ReceiptStatusFailed])
           row == [round |-> r, status |-> ReceiptStatusSuccessful]
<1>1. /\ blocks' = blocks \cup {r} /\ pruned' = pruned \ {r} /\ continues' = r
      /\ history' = history /\ r \notin blocks
      /\ txs' = StoreAll(rows, Successful(r), row)
  BY Zenon DEF StoreBlockData
<1>2. r \in Rounds /\ history \in Histories /\ blocks \subseteq Rounds /\ RowsInv
  BY ToIndexAboveTip DEF CacheInv, DbInv
<1>3. \A s : Successful(s)' = Successful(s)
  BY <1>1, SuccessfulFrame
<1>4. /\ \A h \in Successful(r) : h \in DOMAIN txs' /\ txs'[h] = row
      /\ \A h \in DOMAIN txs \ Successful(r) : h \in DOMAIN txs' /\ txs'[h] = txs[h]
  <2>1. /\ DOMAIN txs \subseteq DOMAIN rows
        /\ \A h \in DOMAIN txs : rows[h] = txs[h]
    BY DEF StoreAll
  <2> HIDE DEF rows, row
  <2>2. /\ DOMAIN txs' = DOMAIN rows \cup Successful(r)
        /\ \A h \in DOMAIN rows \cup Successful(r) :
              txs'[h] = IF h \in Successful(r) THEN row ELSE rows[h]
    BY <1>1 DEF StoreAll
  <2> QED BY <2>1, <2>2
<1>5. ASSUME NEW s \in blocks', NEW h \in Successful(s)
      PROVE  h \in DOMAIN txs' /\ txs'[h] = [round |-> s, status |-> ReceiptStatusSuccessful]
  <2>1. CASE s = r
    BY <2>1, <1>4, <1>5
  <2>2. CASE s # r
    <3>1. s \in blocks /\ s \in Rounds
      BY <2>2, <1>1, <1>2, <1>5
    <3>2. h \notin Successful(r)
      BY <3>1, <2>2, <1>2, <1>5, OneRound
    <3> QED BY <3>1, <3>2, <1>2, <1>4, <1>5 DEF RowsInv
  <2> QED BY <2>1, <2>2
<1>6. RowsInv'
  BY <1>3, <1>5, Zenon DEF RowsInv
<1>7. r \in 0..MaxRound /\ blocks' \subseteq Rounds /\ pruned' \subseteq Rounds
  <2>1. r \in 0..MaxRound
    BY <1>2, RoundAssumption DEF Rounds
  <2> QED BY <1>1, <1>2, <2>1, Zenon DEF CacheInv, DbInv
<1>8. DbInv'
  BY <1>1, <1>2, <1>6, <1>7, Zenon DEF DbInv
<1> QED BY <1>1, <1>8

(* A step of StoreBlockData, whatever became of it, keeps what the caches  *)
(* and the requests know: the round it is about lies above the tip.        *)
LEMMA StoreFrame ==
    ASSUME CacheInv, NEW r \in ToIndex, history' = history, lastIndexedRound' = lastIndexedRound,
           \/ blocks' = blocks \cup {r} /\ pruned' = pruned \ {r} /\ continues' = r
           \/ UNCHANGED <<blocks, pruned, continues>>,
           lost \subseteq lost',
           UNCHANGED <<mapVars, blVars, lgVars>>
    PROVE  /\ Known \subseteq Known' /\ Tip' \in Nat /\ Tip <= Tip' /\ r >= Tip'
           /\ CachesTrue' /\ BlockInv' /\ LogsInv'
<1>1. r \in Rounds /\ r \in Nat /\ r > Tip /\ Tip \in Nat
  BY ToIndexAboveTip, TipType
<1>2. Known \subseteq Known'
  BY DEF Known
<1>3. Tip' \in Nat /\ Tip <= Tip' /\ r >= Tip'
  BY <1>1 DEF Tip, QueryLastIndexedRound
<1>4. CachesTrue'
  BY <1>2, CachesFrame DEF CacheInv, mapVars
<1>5. BlockInv'
  <2>1. \A s \in blocks : s \in blocks'
    OBVIOUS
  <2>2. \A s \in pruned \cup lost : s <= Tip => s \in pruned' \cup lost'
    BY <1>1
  <2> QED BY <1>1, <1>2, <1>3, <2>1, <2>2, RoundTypes, BlockFrame DEF CacheInv
<1>6. LogsInv'
  BY LogsFrame DEF CacheInv
<1> QED BY <1>2, <1>3, <1>4, <1>5, <1>6

(* The data given to OnBlockIndexed. *)
LEMMA NotifyIx ==
    ASSUME CacheInv, NEW r \in ToIndex, NEW unique, NEW receipts,
           bd' = [round |-> r, uniqueTxes |-> unique, receipts |-> receipts], ixPc' = "blocks",
           UNCHANGED <<history, lastIndexedRound, pruneRound>>,
           lost' \subseteq Rounds, lost \subseteq lost',
           Known \subseteq Known', r \in Known', Tip' \in Nat, Tip <= Tip', r >= Tip',
           unique \subseteq Successful(r), receipts \subseteq Successful(r),
           r \notin lost' => receipts = Successful(r)
    PROVE  IxInv'
<1>2. bd'.round = r /\ bd'.uniqueTxes = unique /\ bd'.receipts = receipts
  OBVIOUS
<1>3. \A s : Successful(s)' = Successful(s)
  BY SuccessfulFrame
<1>4. DataInv'
  BY <1>2, <1>3, ToIndexAboveTip DEF DataInv
<1>5. pruneRound' \in Nat /\ pruneRound' <= Tip'
  BY TipType DEF CacheInv, IxInv
<1> QED BY <1>4, <1>5 DEF CacheInv, IxInv

LEMMA CommitStep == CacheInv /\ Commit => CacheInv'
<1> SUFFICES ASSUME CacheInv, Commit PROVE CacheInv'
  OBVIOUS
<1>1. PICK r \in ToIndex : /\ StoreBlockData(r)
                           /\ Notify(r, Successful(r), Successful(r))
                           /\ lost' = lost
  BY Zenon DEF Commit
<1>2. /\ DbInv' /\ history' = history /\ continues' = r
      /\ blocks' = blocks \cup {r} /\ pruned' = pruned \ {r}
  BY <1>1, StoreDb
<1>3. /\ bd' = [round |-> r, uniqueTxes |-> Successful(r), receipts |-> Successful(r)]
      /\ ixPc' = "blocks"
      /\ UNCHANGED <<lastIndexedRound, pruneRound, mapVars, blVars, lgVars>>
  BY <1>1 DEF Notify, cacheVars
<1>4. /\ Known \subseteq Known' /\ Tip' \in Nat /\ Tip <= Tip' /\ r >= Tip'
      /\ CachesTrue' /\ BlockInv' /\ LogsInv'
  BY <1>1, <1>2, <1>3, StoreFrame
<1>5. r \in Known' /\ lost' \subseteq Rounds
  BY <1>1, <1>2 DEF Known, CacheInv, IxInv
<1>6. IxInv'
  BY <1>1, <1>2, <1>3, <1>4, <1>5, NotifyIx
<1> QED BY <1>2, <1>4, <1>6 DEF CacheInv

(* The answer of the commit is lost: the row is there and nobody knows. *)
LEMMA AckLostStep == CacheInv /\ CommitAckLost => CacheInv'
<1> SUFFICES ASSUME CacheInv, CommitAckLost PROVE CacheInv'
  OBVIOUS
<1>1. PICK r \in ToIndex : StoreBlockData(r)
  BY Zenon DEF CommitAckLost
<1>2. /\ DbInv' /\ history' = history /\ continues' = r
      /\ blocks' = blocks \cup {r} /\ pruned' = pruned \ {r}
  BY <1>1, StoreDb
<1>3. UNCHANGED <<lost, bd, ixPc, pruneRound, lastIndexedRound, mapVars, blVars, lgVars>>
  BY DEF CommitAckLost, historyVars, ixVars, cacheVars
<1>4. /\ Known \subseteq Known' /\ Tip' \in Nat /\ Tip <= Tip'
      /\ CachesTrue' /\ BlockInv' /\ LogsInv'
  BY <1>2, <1>3, StoreFrame
<1>5. ixPc = "idle"
  BY <1>1 DEF StoreBlockData
<1>6. IxInv'
  BY <1>3, <1>4, <1>5, TipType DEF CacheInv, IxInv
<1> QED BY <1>2, <1>4, <1>6 DEF CacheInv

(* A lookup fails: nothing is stored, and a part is passed on. *)
LEMMA LookupFailsStep == CacheInv /\ LookupFails => CacheInv'
<1> SUFFICES ASSUME CacheInv, LookupFails PROVE CacheInv'
  OBVIOUS
<1>1. UNCHANGED <<history, blocks, continues, txs, pruned>>
  BY DEF LookupFails, dbVars
<1>a. PICK r \in ToIndex : \E i \in DOMAIN history[r] :
         /\ \/ Notify(r, SuccessfulAt(r, 1..i - 1), {})
            \/ Notify(r, Successful(r), SuccessfulAt(r, 1..i - 1))
         /\ lost' = lost \cup {r}
  BY Zenon DEF LookupFails
<1>2. PICK i \in DOMAIN history[r] :
         /\ \/ Notify(r, SuccessfulAt(r, 1..i - 1), {})
            \/ Notify(r, Successful(r), SuccessfulAt(r, 1..i - 1))
         /\ lost' = lost \cup {r}
  BY <1>a, Zenon
<1>3. PICK unique, receipts :
         /\ bd' = [round |-> r, uniqueTxes |-> unique, receipts |-> receipts]
         /\ unique \subseteq Successful(r) /\ receipts \subseteq Successful(r)
  <2> DEFINE before == SuccessfulAt(r, 1..i - 1)
             none == {}
  <2>1. before \subseteq Successful(r)
    BY ToIndexAboveTip, BeforeInBlock DEF CacheInv, DbInv
  <2>2. \/ bd' = [round |-> r, uniqueTxes |-> before, receipts |-> none]
        \/ bd' = [round |-> r, uniqueTxes |-> Successful(r), receipts |-> before]
    BY <1>2 DEF Notify
  <2>3. none \subseteq Successful(r) /\ Successful(r) \subseteq Successful(r)
    OBVIOUS
  <2> HIDE DEF before, none
  <2>4. CASE bd' = [round |-> r, uniqueTxes |-> before, receipts |-> none]
    BY <2>1, <2>3, <2>4, Zenon
  <2>5. CASE bd' = [round |-> r, uniqueTxes |-> Successful(r), receipts |-> before]
    BY <2>1, <2>3, <2>5
  <2> QED BY <2>2, <2>4, <2>5
<1>4. ixPc' = "blocks" /\ UNCHANGED <<lastIndexedRound, pruneRound, mapVars, blVars, lgVars>>
  BY <1>2 DEF Notify, cacheVars
<1>5. lost' \subseteq Rounds /\ r \in Known' /\ r \in lost' /\ lost \subseteq lost'
  BY <1>2, ToIndexAboveTip DEF Known, CacheInv, IxInv
<1>6. /\ Known \subseteq Known' /\ Tip' \in Nat /\ Tip <= Tip' /\ r >= Tip'
      /\ CachesTrue' /\ BlockInv' /\ LogsInv'
  BY <1>1, <1>4, <1>5, StoreFrame
<1>7. IxInv'
  BY <1>1, <1>3, <1>4, <1>5, <1>6, NotifyIx
<1>8. DbInv'
  <2>1. \A s : Successful(s)' = Successful(s)
    BY <1>1, SuccessfulFrame
  <2> QED BY <1>1, <2>1, Zenon DEF CacheInv, DbInv, RowsInv
<1> QED BY <1>6, <1>7, <1>8 DEF CacheInv

-----------------------------------------------------------------------------
(* OnBlockIndexed inserts a round map by map and evicts old ones. *)
LEMMA CachingSteps == CacheInv /\ OnBlockIndexed => CacheInv'
<1> SUFFICES ASSUME CacheInv, OnBlockIndexed PROVE CacheInv'
  OBVIOUS
<1>1. UNCHANGED <<history, blocks, continues, txs, pruned, lost, bd, pruneRound, blVars, lgVars>>
  BY DEF OnBlockIndexed, CacheBlock, CacheLogs, CacheTxes, RaiseTip, EvictTxes, EvictBlock,
         dbVars, historyVars
<1>2. \A r : Successful(r)' = Successful(r)
  BY <1>1, SuccessfulFrame
<1>3. DbInv'
  BY <1>1, <1>2, Zenon DEF CacheInv, DbInv, RowsInv
<1>4. Known' = Known
  BY <1>1 DEF Known
<1>5. ASSUME ~RaiseTip PROVE lastIndexedRound' = lastIndexedRound /\ Tip' = Tip
  BY <1>1, <1>5 DEF OnBlockIndexed, CacheBlock, CacheLogs, CacheTxes, EvictTxes, EvictBlock,
         Tip, QueryLastIndexedRound
<1>6. CASE RaiseTip
  <2>1. /\ ixPc = "tip" /\ ixPc' \in {"evictTxes", "idle"}
        /\ lastIndexedRound' = IF bd.round > lastIndexedRound THEN bd.round ELSE lastIndexedRound
        /\ UNCHANGED mapVars
    BY <1>6 DEF RaiseTip
  <2>2. /\ bd.round \in Known /\ bd.round \in Rounds /\ bd.round >= Tip
        /\ lastIndexedRound \in 0..MaxRound
    BY <2>1 DEF CacheInv, IxInv, DataInv
  <2>3. lastIndexedRound' = bd.round /\ Tip' = bd.round /\ Tip' \in Nat
    BY <2>1, <2>2, RoundAssumption DEF Tip, QueryLastIndexedRound, Rounds
  <2>4. pruneRound' \in Nat /\ pruneRound' <= Tip'
    BY <1>1, <2>2, <2>3, TipType DEF CacheInv, IxInv
  <2>5. lastIndexedRound' \in 0..MaxRound
    BY <2>2, <2>3, RoundAssumption DEF Rounds
  <2>6. IxInv'
    BY <1>1, <1>4, <2>1, <2>2, <2>3, <2>4, <2>5 DEF CacheInv, IxInv
  <2>7. CachesTrue' /\ LogsInv'
    BY <1>1, <1>4, <2>1, CachesFrame, LogsFrame DEF CacheInv, mapVars
  <2>8. BlockInv'
    BY <1>1, <1>4, <2>2, <2>3, TipType, RoundTypes, BlockFrame DEF CacheInv
  <2> QED BY <1>3, <2>6, <2>7, <2>8 DEF CacheInv
<1>7. CASE ~RaiseTip
  <2>1. IxInv'
    <3>1. ixPc' \in {"blocks", "logs", "txes", "tip"} => ixPc \in {"blocks", "logs", "txes", "tip"}
      BY <1>7 DEF OnBlockIndexed, CacheBlock, CacheLogs, CacheTxes, EvictTxes, EvictBlock
    <3>2. ixPc' # "start"
      BY <1>7 DEF OnBlockIndexed, CacheBlock, CacheLogs, CacheTxes, EvictTxes, EvictBlock
    <3>3. DataInv => DataInv'
      BY <1>1, <1>2, <1>4, <1>5, <1>7, Zenon DEF DataInv
    <3> QED BY <1>1, <1>4, <1>5, <1>7, <3>1, <3>2, <3>3 DEF CacheInv, IxInv
  <2>2. BlockInv'
    <3>1. UNCHANGED <<blPc, blRound>>
      BY <1>1 DEF blVars
    <3> QED BY <1>1, <1>4, <1>5, <1>7, <3>1, Zenon DEF CacheInv, BlockInv
  <2>3. LogsInv'
    BY <1>1, LogsFrame DEF CacheInv
  <2>4. CachesTrue'
    <3>1. CASE CacheBlock
      BY <3>1, <1>1, <1>4, CachesFrame DEF CacheInv, CacheBlock
    <3>2. CASE CacheLogs
      <4>1. DataInv /\ CachesTrue
        BY <3>2 DEF CacheInv, IxInv, CacheLogs
      <4>2. UNCHANGED <<txByHashHex, receiptByTxHashHex>>
        BY <3>2 DEF CacheLogs
      <4>3. \A r \in DOMAIN logsByBlockNumber' :
               /\ logsByBlockNumber'[r] \subseteq Successful(r)
               /\ r \notin lost => logsByBlockNumber'[r] = Successful(r)
        BY <3>2, <4>1 DEF CacheLogs, StoreAll, DataInv, CachesTrue
      <4> QED BY <1>1, <1>2, <1>4, <4>1, <4>2, <4>3, Zenon DEF CachesTrue, EntriesTrue
    <3>3. CASE CacheTxes
      <4>1. DataInv /\ CachesTrue
        BY <3>3 DEF CacheInv, IxInv, CacheTxes
      <4>2. EntriesTrue(txByHashHex)'
        BY <3>3, <4>1, <1>1, <1>2, <1>4 DEF CacheTxes, StoreAll, DataInv, CachesTrue, EntriesTrue
      <4>3. EntriesTrue(receiptByTxHashHex)'
        BY <3>3, <4>1, <1>1, <1>2, <1>4 DEF CacheTxes, StoreAll, DataInv, CachesTrue, EntriesTrue
      <4>4. logsByBlockNumber' = logsByBlockNumber
        BY <3>3 DEF CacheTxes
      <4> QED BY <4>1, <4>2, <4>3, <4>4, <1>1, <1>2, Zenon DEF CachesTrue
    <3>4. CASE EvictTxes
      BY <3>4, <1>1, <1>2, <1>4 DEF CacheInv, CachesTrue, EntriesTrue, EvictTxes, Remove, Restrict
    <3>5. CASE EvictBlock
      BY <3>5, <1>1, <1>2, <1>4 DEF CacheInv, CachesTrue, EntriesTrue, EvictBlock, Remove, Restrict
    <3> QED BY <1>7, <3>1, <3>2, <3>3, <3>4, <3>5 DEF OnBlockIndexed
  <2> QED BY <1>3, <2>1, <2>2, <2>3, <2>4 DEF CacheInv
<1> QED BY <1>6, <1>7

(* The pruning worker computes its bound from the tip. *)
LEMMA PruneQueryStep == CacheInv /\ PruneQuery => CacheInv'
<1> SUFFICES ASSUME CacheInv, PruneQuery PROVE CacheInv'
  OBVIOUS
<1>1. /\ UNCHANGED <<history, blocks, continues, txs, pruned, lost, bd, ixPc, lastIndexedRound,
                     logsByBlockNumber, txByHashHex, receiptByTxHashHex, blVars, lgVars>>
      /\ pruneRound' = Tip - PruningStep /\ Tip > PruningStep
  BY DEF PruneQuery, dbVars, historyVars, ixVars, cacheVars, mapVars, Tip
<1>2. \A r : Successful(r)' = Successful(r)
  BY <1>1, SuccessfulFrame
<1>3. Known' = Known /\ Tip' = Tip
  BY <1>1 DEF Known, Tip, QueryLastIndexedRound
<1>4. pruneRound' \in Nat /\ pruneRound' <= Tip'
  BY <1>1, <1>3, TipType, SizeAssumption
<1>5. DbInv'
  BY <1>1, <1>2, Zenon DEF CacheInv, DbInv, RowsInv
<1>6. IxInv'
  BY <1>1, <1>2, <1>3, <1>4, Zenon DEF CacheInv, IxInv, DataInv
<1>7. CachesTrue' /\ LogsInv'
  BY <1>1, <1>3, CachesFrame, LogsFrame DEF CacheInv
<1>8. BlockInv'
  <2>1. UNCHANGED <<blPc, blRound>>
    BY <1>1 DEF blVars
  <2> QED BY <1>1, <1>3, <2>1, Zenon DEF CacheInv, BlockInv
<1> QED BY <1>5, <1>6, <1>7, <1>8 DEF CacheInv

(* Prune deletes below its bound, which the tip has passed. *)
LEMMA PruneStep == CacheInv /\ Prune => CacheInv'
<1> SUFFICES ASSUME CacheInv, Prune PROVE CacheInv'
  OBVIOUS
<1> DEFINE gone == {r \in blocks : r < pruneRound}
<1>1. /\ UNCHANGED <<history, continues, lost, bd, ixPc, lastIndexedRound, logsByBlockNumber,
                     txByHashHex, receiptByTxHashHex, blVars, lgVars>>
      /\ pruneRound' = 0
  BY DEF Prune, historyVars, ixVars, cacheVars, mapVars
<1>2. \A r : Successful(r)' = Successful(r)
  BY <1>1, SuccessfulFrame
<1>3. Tip' = Tip /\ Tip \in Nat
  BY <1>1, TipType DEF Tip, QueryLastIndexedRound
<1>4. \/ /\ blocks' = blocks \ gone /\ pruned' = pruned \cup gone
         /\ txs' = Restrict(txs, {h \in DOMAIN txs : txs[h].round >= pruneRound})
      \/ UNCHANGED <<blocks, pruned, txs>>
  BY Zenon DEF Prune
<1>5. pruneRound \in Nat /\ pruneRound <= Tip /\ \A r \in gone : r <= Tip
  BY <1>3, RoundTypes DEF CacheInv, IxInv
<1>6. /\ Known' = Known /\ pruned \subseteq pruned' /\ blocks' \subseteq Rounds
      /\ pruned' \subseteq Rounds /\ blocks' \cup pruned' = blocks \cup pruned
  BY <1>1, <1>4 DEF Known, CacheInv, DbInv
<1>7. RowsInv'
  <2>1. CASE UNCHANGED <<blocks, pruned, txs>>
    BY <2>1, <1>2, Zenon DEF CacheInv, DbInv, RowsInv
  <2>2. CASE /\ blocks' = blocks \ gone /\ pruned' = pruned \cup gone
             /\ txs' = Restrict(txs, {h \in DOMAIN txs : txs[h].round >= pruneRound})
    <3>1. ASSUME NEW r \in blocks', NEW h \in Successful(r)
          PROVE  h \in DOMAIN txs' /\ txs'[h] = [round |-> r, status |-> ReceiptStatusSuccessful]
      <4>1. r \in blocks /\ r >= pruneRound
        BY <2>2, <1>5, RoundTypes
      <4>2. h \in DOMAIN txs /\ txs[h] = [round |-> r, status |-> ReceiptStatusSuccessful]
        BY <3>1, <4>1 DEF CacheInv, DbInv, RowsInv
      <4> QED BY <2>2, <4>1, <4>2 DEF Restrict
    <3> QED BY <1>2, <3>1, Zenon DEF RowsInv
  <2> QED BY <1>4, <2>1, <2>2
<1>8. DbInv'
  BY <1>1, <1>6, <1>7, Zenon DEF CacheInv, DbInv
<1>9. IxInv'
  <2>1. pruneRound' \in Nat /\ pruneRound' <= Tip'
    BY <1>1, <1>3
  <2> QED BY <1>1, <1>2, <1>3, <1>6, <2>1, Zenon DEF CacheInv, IxInv, DataInv
<1>10. CachesTrue' /\ LogsInv'
  BY <1>1, <1>6, CachesFrame, LogsFrame DEF CacheInv
<1>11. BlockInv'
  <2>1. \A r \in blocks : r \in blocks' \/ r <= Tip'
    BY <1>3, <1>4, <1>5
  <2> QED BY <1>1, <1>3, <1>6, <2>1, RoundTypes, BlockFrame DEF CacheInv
<1> QED BY <1>8, <1>9, <1>10, <1>11 DEF CacheInv

-----------------------------------------------------------------------------
(* The requests. *)

LEMMA LeastNumber ==
    ASSUME NEW T, T \subseteq Nat, T # {}
    PROVE  \E x \in T : \A y \in T : x <= y
<1>1. PICK x \in T : \A y \in T : ~(<<y, x>> \in OpToRel(<, Nat))
  BY WFMin, NatLessThanWellFounded, Zenon
<1>2. ASSUME NEW y \in T PROVE x <= y
  <2>1. ~(<<y, x>> \in OpToRel(<, Nat)) /\ x \in Nat /\ y \in Nat
    BY <1>1, <1>2
  <2> QED BY <2>1 DEF OpToRel
<1> QED BY <1>2

(* The latest block of the table is one of it. *)
LEMMA MaxStored ==
    ASSUME NEW S, S \subseteq Rounds, S # {}
    PROVE  Max(S) \in S
<1> DEFINE fromTop == {MaxRound - r : r \in S}
<1>1. \A r \in S : r \in Nat /\ MaxRound - r \in Nat /\ MaxRound \in Nat
  BY RoundAssumption DEF Rounds
<1>2. fromTop \subseteq Nat /\ fromTop # {}
  BY <1>1
<1>3. PICK d \in fromTop : \A e \in fromTop : d <= e
  BY <1>2, LeastNumber, Zenon
<1>4. PICK m \in S : d = MaxRound - m
  BY <1>3
<1>5. ASSUME NEW n \in S PROVE m >= n
  <2>1. d <= MaxRound - n
    BY <1>3
  <2>2. m \in Nat /\ n \in Nat /\ MaxRound \in Nat
    BY <1>1
  <2> HIDE DEF fromTop
  <2> QED BY <1>4, <2>1, <2>2
<1> QED BY <1>5, Zenon DEF Max

(* One more round's cached logs. *)
LEMMA LogsGrow ==
    ASSUME NEW s \in Nat, NEW n \in Nat, s <= n, LogsBetween(s..(n - 1)), NEW cached,
           cached \subseteq Successful(n), n \notin lost => cached = Successful(n),
           lgLogs' = lgLogs \cup {<<n, h>> : h \in cached}
    PROVE  lgLogs' \subseteq Logs(s..n) /\ Logs((s..n) \ lost) \subseteq lgLogs'
<1>1. s..n = (s..(n - 1)) \cup {n}
  OBVIOUS
<1>2. lgLogs' \subseteq Logs(s..n)
  <2>1. lgLogs \subseteq Logs(s..n)
    BY <1>1, LogsMonotone DEF LogsBetween
  <2>2. \A h \in cached : <<n, h>> \in Logs(s..n)
    BY <1>1, InLogs
  <2> QED BY <2>1, <2>2
<1>3. ASSUME NEW x \in Logs((s..n) \ lost) PROVE x \in lgLogs'
  <2>1. PICK r \in (s..n) \ lost : \E h \in Successful(r) : x = <<r, h>>
    BY InLogs
  <2>2. PICK h \in Successful(r) : x = <<r, h>>
    BY <2>1
  <2>3. CASE r = n
    BY <2>1, <2>2, <2>3
  <2>4. CASE r # n
    <3>1. r \in (s..(n - 1)) \ lost
      BY <1>1, <2>1, <2>4
    <3>2. x \in Logs((s..(n - 1)) \ lost)
      BY <2>2, <3>1, InLogs
    <3> QED BY <3>2 DEF LogsBetween
  <2> QED BY <2>3, <2>4
<1> QED BY <1>2, <1>3, Zenon

LEMMA BlockSteps == CacheInv /\ BlockRequest => CacheInv'
<1> SUFFICES ASSUME CacheInv, BlockRequest PROVE CacheInv'
  OBVIOUS
<1>1. UNCHANGED <<dbVars, historyVars, ixVars, cacheVars, pruneRound, lgVars>>
  BY DEF BlockRequest, BlockNumber, GetBlockByRound, QueryBlockHash, GetBlockByHash,
         QueryBlock, BlockAnswered
<1>2. DbInv' /\ IxInv' /\ CachesTrue'
  BY <1>1, RequestFrame
<1>3. LogsInv'
  BY <1>1, LogsFrame DEF CacheInv, dbVars, historyVars
<1>4. UNCHANGED <<blocks, pruned, lost, Known, Tip>>
  BY <1>1 DEF dbVars, historyVars, cacheVars, Known, Tip, QueryLastIndexedRound
<1>5. /\ blPc # "idle" => blRound \in Known /\ (blRound \in blocks \/ blRound <= Tip)
      /\ blRound \in Known /\ blRound \notin blocks => blRound \in pruned \cup lost
      /\ lastIndexedRound # 0 => lastIndexedRound \in Known /\ lastIndexedRound <= Tip
  BY RoundAssumption DEF CacheInv, BlockInv, IxInv, Known, Tip, QueryLastIndexedRound
<1>6. BlockInv'
  <2>1. CASE BlockNumber
    BY <2>1, <1>4, <1>5 DEF BlockInv, BlockNumber
  <2>2. CASE GetBlockByRound \/ GetBlockByHash \/ QueryBlock
    BY <2>2, <1>4, <1>5 DEF BlockInv, GetBlockByRound, GetBlockByHash, QueryBlock
  <2>3. CASE QueryBlockHash
    <3>1. blPc # "idle" /\ blPc' \in {"byHash", "missing"}
      BY <2>3 DEF QueryBlockHash
    <3>2. CASE blRound' = blRound /\ (blPc' = "missing" => blRound \notin blocks)
      BY <3>1, <3>2, <1>4, <1>5 DEF BlockInv
    <3>3. CASE blocks # {} /\ blRound' = Max(blocks) /\ blPc' = "byHash"
      <4>1. Max(blocks) \in blocks
        BY <3>3, MaxStored, Zenon DEF CacheInv, DbInv
      <4> QED BY <3>3, <4>1, <1>4 DEF BlockInv, Known
    <3> QED BY <2>3, <3>2, <3>3 DEF QueryBlockHash
  <2>4. CASE BlockAnswered
    BY <2>4 DEF BlockInv, BlockAnswered
  <2> QED BY <2>1, <2>2, <2>3, <2>4 DEF BlockRequest
<1> QED BY <1>2, <1>3, <1>6 DEF CacheInv

LEMMA LogsSteps == CacheInv /\ LogsRequest => CacheInv'
<1> SUFFICES ASSUME CacheInv, LogsRequest PROVE CacheInv'
  OBVIOUS
<1>1. UNCHANGED <<dbVars, historyVars, ixVars, cacheVars, pruneRound, blVars>>
  BY DEF LogsRequest, GetLogs, LookupLogs, QueryLogs, LogsAnswered
<1>2. DbInv' /\ IxInv' /\ CachesTrue' /\ BlockInv'
  BY <1>1, RequestFrame, RequestBlockFrame
<1>3. history' = history /\ lost' = lost
  BY <1>1 DEF dbVars, historyVars
<1>4. \A S : Logs(S)' = Logs(S)
  BY <1>3, SuccessfulFrame DEF Logs
<1>5. CASE GetLogs
  <2>1. /\ startRound' \in Nat /\ endRound' \in Nat /\ startRound' <= endRound'
        /\ lgNext' = startRound' /\ lgLogs' = {} /\ lgPc' \in {"loop", "query"}
    BY <1>5, RoundAssumption DEF GetLogs, Rounds, CacheInv, LogsInv
  <2>2. \A n \in Nat : n..(n - 1) = {}
    OBVIOUS
  <2>3. LogsBetween(startRound..(lgNext - 1))'
    BY <2>1, <2>2, <1>3, <1>4 DEF LogsBetween, Logs
  <2>4. LogsInv'
    BY <2>1, <2>3 DEF LogsInv
  <2> QED BY <1>2, <2>4 DEF CacheInv
<1>6. CASE LookupLogs
  <2>1. /\ startRound \in Nat /\ endRound \in Nat /\ lgNext \in startRound..endRound
        /\ LogsBetween(startRound..(lgNext - 1))
        /\ lgNext' = lgNext + 1 /\ startRound' = startRound /\ endRound' = endRound
    BY <1>6 DEF LookupLogs, CacheInv, LogsInv
  <2>2. CASE lgNext \in DOMAIN logsByBlockNumber
    <3>1. lgLogs' = lgLogs \cup {<<lgNext, h>> : h \in logsByBlockNumber[lgNext]}
      BY <2>2, <1>6 DEF LookupLogs
    <3>2. /\ lgLogs' \subseteq Logs(startRound..lgNext)
          /\ Logs((startRound..lgNext) \ lost) \subseteq lgLogs'
      <4>1. /\ logsByBlockNumber[lgNext] \subseteq Successful(lgNext)
            /\ lgNext \notin lost => logsByBlockNumber[lgNext] = Successful(lgNext)
        BY <2>2 DEF CacheInv, CachesTrue
      <4>2. lgNext \in Nat /\ startRound <= lgNext
        BY <2>1
      <4> QED BY <2>1, <3>1, <4>1, <4>2, LogsGrow, Zenon
    <3>3. lgPc' = IF lgNext = endRound THEN "cached" ELSE "loop"
      BY <2>2, <1>6 DEF LookupLogs
    <3>4. LogsBetween(startRound..(lgNext - 1))'
      <4>1. lgNext' - 1 = lgNext
        BY <2>1
      <4> QED BY <1>3, <1>4, <2>1, <3>2, <4>1, Zenon DEF LogsBetween
    <3>5. lgNext = endRound => LogsBetween(startRound..endRound)'
      BY <1>3, <1>4, <2>1, <3>2, Zenon DEF LogsBetween
    <3>6. lgNext # endRound => lgNext' \in startRound'..endRound'
      BY <2>1
    <3>7. LogsInv'
      BY <2>1, <3>3, <3>4, <3>5, <3>6 DEF LogsInv
    <3> QED BY <1>2, <3>7 DEF CacheInv
  <2>3. CASE lgNext \notin DOMAIN logsByBlockNumber
    <3>1. LogsInv'
      BY <2>3, <1>6 DEF LookupLogs, LogsInv
    <3> QED BY <1>2, <3>1 DEF CacheInv
  <2> QED BY <2>2, <2>3
<1>7. CASE QueryLogs \/ LogsAnswered
  <2>1. LogsInv'
    BY <1>7 DEF QueryLogs, LogsAnswered, LogsInv
  <2> QED BY <1>2, <2>1 DEF CacheInv
<1> QED BY <1>5, <1>6, <1>7 DEF LogsRequest

LEMMA CacheStep == CacheInv /\ [Next]_vars => CacheInv'
<1> SUFFICES ASSUME CacheInv, [Next]_vars PROVE CacheInv'
  OBVIOUS
<1>1. CASE Next
  BY <1>1, RestartStep, StartStep, CommitStep, AckLostStep, LookupFailsStep, CachingSteps,
     PruneQueryStep, PruneStep, BlockSteps, LogsSteps DEF Next
<1>2. CASE UNCHANGED vars
  <2>1. UNCHANGED <<dbVars, historyVars, ixVars, cacheVars, pruneRound, blVars, lgVars>>
    BY <1>2 DEF vars, dbVars, historyVars, ixVars, cacheVars, mapVars, blVars, lgVars
  <2>2. DbInv' /\ IxInv' /\ CachesTrue' /\ BlockInv'
    BY <2>1, RequestFrame, RequestBlockFrame
  <2>3. LogsInv'
    BY <2>1, LogsFrame DEF CacheInv, dbVars, historyVars
  <2> QED BY <2>2, <2>3 DEF CacheInv
<1> QED BY <1>1, <1>2

-----------------------------------------------------------------------------
(* A cached transaction or receipt is the one the database has until it is *)
(* pruned there, at any moment of an insertion or eviction (OnBlockIndexed *)
(* and pruneCache take no lock), through restarts and lost answers; a      *)
(* failed lookup of StoreBlockData spoils the entries of its round alone.  *)
THEOREM CachedTxStored == Spec => []CachedTxIsStored
<1>1. CacheInv => CachedTxIsStored
  BY DEF CacheInv, DbInv, RowsInv, CachesTrue, EntriesTrue, Known, CachedTxIsStored
<1> QED BY <1>1, CacheInit, CacheStep, PTL DEF Spec

(* Logs that GetLogs collects from the cache round by round, while rounds  *)
(* come and go, are logs of the range, and all of those of every round in  *)
(* it whose lookups did not fail.                                          *)
THEOREM CachedLogsTrue == Spec => []CachedLogsExact
<1>1. CacheInv => CachedLogsExact
  BY Zenon DEF CacheInv, LogsInv, LogsBetween, CachedLogsExact
<1> QED BY <1>1, CacheInit, CacheStep, PTL DEF Spec

(* A block that BlockNumber has announced is found in the cache or in the  *)
(* database unless it has been pruned or its lookups failed, on either     *)
(* path of lookups, whatever the process found in the database when it     *)
(* started.                                                                *)
THEOREM AnnouncedFound == Spec => []AnnouncedServable
<1>1. CacheInv => AnnouncedServable
  BY DEF CacheInv, BlockInv, AnnouncedServable
<1> QED BY <1>1, CacheInit, CacheStep, PTL DEF Spec

-----------------------------------------------------------------------------
(* What the caches hold while a round is inserted and old ones evicted.    *)

(* The cached rounds are the newest of the seen ones, as many as fit.      *)
Newest(cached, seen) ==
    /\ cached \subseteq seen
    /\ \A r \in seen \ cached : \A s \in cached : r < s
    /\ cached # seen => Cardinality(cached) >= MaxCacheSize

InBlockMaps == DOMAIN blockDataByNumber

(* Every entry can be found by eviction: its round is cached, with it.     *)
Findable(rounds) ==
    /\ \A h \in DOMAIN txByHashHex :
          /\ txByHashHex[h] \in rounds
          /\ h \in blockDataByNumber[txByHashHex[h]].uniqueTxes
    /\ \A h \in DOMAIN receiptByTxHashHex :
          /\ receiptByTxHashHex[h] \in rounds
          /\ h \in blockDataByNumber[receiptByTxHashHex[h]].receipts

(* The round in hand is being put on top of the others. *)
Inserting ==
    LET before == InBlockMaps \ {bd.round}
    IN  /\ bd.round \in indexed /\ \A r \in indexed \ {bd.round} : r < bd.round
        /\ bd.round \in InBlockMaps <=> ixPc # "blocks"
        /\ ixPc # "blocks" => blockDataByNumber[bd.round] = bd
        /\ Newest(before, indexed \ {bd.round})
        /\ cacheSize = Cardinality(before) /\ cacheSize <= MaxCacheSize
        /\ DOMAIN logsByBlockNumber = IF ixPc = "txes" THEN InBlockMaps ELSE before
        /\ Findable(before)

(* The maps agree. *)
Settled ==
    /\ Newest(InBlockMaps, indexed)
    /\ cacheSize = Cardinality(InBlockMaps)
    /\ DOMAIN logsByBlockNumber = InBlockMaps
    /\ ixPc # "evictBlock" => Findable(InBlockMaps)

Evicting == {"evictTxes", "evictBlock"}

HoldInv ==
    /\ indexed \subseteq Rounds
    /\ InBlockMaps \subseteq Rounds
    /\ blockByHashHex = InBlockMaps
    /\ ixPc \in {"start", "idle", "blocks", "logs", "txes", "tip"} \cup Evicting
    /\ ixPc = "start" => indexed = {}
    /\ ixPc \in {"blocks", "logs", "txes"} => Inserting
    /\ ixPc \in {"start", "idle", "tip"} \cup Evicting => Settled
    /\ ixPc \in {"start", "idle"} => cacheSize <= MaxCacheSize
    /\ ixPc = "tip" => cacheSize <= MaxCacheSize + 1 /\ \A r \in indexed : r <= bd.round
    /\ ixPc \in Evicting => cacheSize = MaxCacheSize + 1
    /\ ixPc = "evictBlock" => Findable(InBlockMaps \ {Oldest})
    /\ ixPc \in {"idle"} \cup Evicting => \A r \in indexed : r <= Tip

LEMMA RoundsSize ==
    ASSUME NEW S, S \subseteq Rounds
    PROVE  IsFiniteSet(S) /\ Cardinality(S) \in Nat /\ (S = {} <=> Cardinality(S) = 0)
<1>1. IsFiniteSet(Rounds)
  BY RoundAssumption, FS_Interval DEF Rounds
<1>2. IsFiniteSet(S)
  BY <1>1, FS_Subset
<1> QED BY <1>2, FS_CardinalityType, FS_EmptySet

(* A round above all others joins the newest ones. *)
LEMMA NewestOnTop ==
    ASSUME NEW before, NEW seen, before \subseteq Rounds, seen \subseteq Rounds,
           NEW b \in seen, b \notin before, \A r \in seen \ {b} : r < b,
           Newest(before, seen \ {b})
    PROVE  /\ Newest(before \cup {b}, seen)
           /\ Cardinality(before \cup {b}) = Cardinality(before) + 1
<1>1. Cardinality(before \cup {b}) = Cardinality(before) + 1 /\ Cardinality(before) \in Nat
  BY RoundsSize, FS_AddElement
<1>2. before \cup {b} \subseteq seen
  BY DEF Newest
<1>3. ASSUME NEW r \in seen \ (before \cup {b}), NEW s \in before \cup {b} PROVE r < s
  BY <1>3 DEF Newest
<1>4. before \cup {b} # seen => before # seen \ {b}
  OBVIOUS
<1>5. before \cup {b} # seen => Cardinality(before \cup {b}) >= MaxCacheSize
  BY <1>1, <1>4, SizeAssumption DEF Newest
<1> QED BY <1>1, <1>2, <1>3, <1>5 DEF Newest

(* The oldest of one too many leaves them. *)
LEMMA NewestEvicts ==
    ASSUME NEW cached, NEW seen, cached \subseteq Rounds, seen \subseteq Rounds,
           Newest(cached, seen), Cardinality(cached) = MaxCacheSize + 1,
           NEW o \in cached, \A s \in cached : o <= s
    PROVE  Newest(cached \ {o}, seen) /\ Cardinality(cached \ {o}) = MaxCacheSize
<1>1. Cardinality(cached \ {o}) = MaxCacheSize
  <2>1. Cardinality(cached \ {o}) = Cardinality(cached) - 1
    BY RoundsSize, FS_RemoveElement, Zenon
  <2> QED BY <2>1, SizeAssumption
<1>2. ASSUME NEW r \in seen \ (cached \ {o}), NEW s \in cached \ {o} PROVE r < s
  <2>1. r \in Nat /\ s \in Nat /\ o \in Nat
    BY RoundAssumption DEF Rounds
  <2>2. CASE r = o
    BY <2>1, <2>2
  <2>3. CASE r # o
    BY <2>3 DEF Newest
  <2> QED BY <2>2, <2>3
<1>3. cached \ {o} \subseteq seen
  BY DEF Newest
<1> QED BY <1>1, <1>2, <1>3, SizeAssumption DEF Newest

(* OnBlockIndexed finds the oldest round by its minimum. *)
LEMMA OldestIsLowest ==
    ASSUME InBlockMaps \subseteq Rounds, Cardinality(InBlockMaps) = MaxCacheSize + 1
    PROVE  Oldest \in InBlockMaps /\ \A s \in InBlockMaps : Oldest <= s
<1>1. InBlockMaps # {} /\ InBlockMaps \subseteq Nat
  BY RoundsSize, SizeAssumption, RoundAssumption DEF Rounds
<1>2. \E x \in InBlockMaps : \A y \in InBlockMaps : x <= y
  BY <1>1, LeastNumber, Zenon
<1> QED BY <1>2, Zenon DEF Oldest, Min, InBlockMaps

-----------------------------------------------------------------------------
(* A step that leaves the caches and the indexing goroutine alone. *)
LEMMA HoldFrame ==
    ASSUME HoldInv, UNCHANGED <<indexed, bd, mapVars, cacheSize, ixPc>>,
           Tip \in Nat, Tip' \in Nat, Tip <= Tip'
    PROVE  HoldInv'
<1>1. UNCHANGED <<indexed, bd, blockDataByNumber, blockByHashHex, logsByBlockNumber,
                  txByHashHex, receiptByTxHashHex, cacheSize, ixPc>>
  BY DEF mapVars
<1>2. InBlockMaps' = InBlockMaps /\ Oldest' = Oldest
  BY <1>1 DEF InBlockMaps, Oldest
<1>3. \A S : Findable(S)' <=> Findable(S)
  BY <1>1, Zenon DEF Findable
<1>4. Inserting => Inserting'
  BY <1>1, <1>2, <1>3, Zenon DEF Inserting, Newest
<1>5. Settled => Settled'
  BY <1>1, <1>2, <1>3, Zenon DEF Settled, Newest
<1>6. (\A r \in indexed : r <= Tip) /\ indexed \subseteq Rounds => \A r \in indexed' : r <= Tip'
  BY <1>1, RoundAssumption DEF Rounds
<1> QED BY <1>1, <1>2, <1>3, <1>4, <1>5, <1>6, Zenon DEF HoldInv

LEMMA HoldFresh ==
    ASSUME indexed = {}, DOMAIN blockDataByNumber = {}, blockByHashHex = {},
           DOMAIN logsByBlockNumber = {}, DOMAIN txByHashHex = {},
           DOMAIN receiptByTxHashHex = {}, cacheSize = 0, ixPc = "start"
    PROVE  HoldInv
<1>1. InBlockMaps = {} /\ Cardinality(InBlockMaps) = 0
  BY FS_EmptySet DEF InBlockMaps
<1>2. Findable(InBlockMaps)
  BY DEF Findable
<1>3. Settled
  BY <1>1, <1>2 DEF Settled, Newest
<1> QED BY <1>1, <1>3, SizeAssumption DEF HoldInv, Evicting

LEMMA HoldRestart == ASSUME Restart PROVE HoldInv'
<1>0. DOMAIN NoRows = {}
  BY DEF NoRows
<1>1. /\ indexed' = {} /\ DOMAIN blockDataByNumber' = {} /\ blockByHashHex' = {}
      /\ DOMAIN logsByBlockNumber' = {} /\ DOMAIN txByHashHex' = {}
      /\ DOMAIN receiptByTxHashHex' = {} /\ cacheSize' = 0 /\ ixPc' = "start"
  BY <1>0 DEF Restart
<1>2. InBlockMaps' = {} /\ Cardinality(InBlockMaps') = 0
  BY <1>1, FS_EmptySet DEF InBlockMaps
<1>3. Findable(InBlockMaps)'
  BY <1>1 DEF Findable
<1>4. Settled'
  BY <1>1, <1>2, <1>3 DEF Settled, Newest
<1> QED BY <1>1, <1>2, <1>4, SizeAssumption DEF HoldInv, Evicting

LEMMA HoldStart == ASSUME HoldInv, Start PROVE HoldInv'
<1>1. /\ ixPc = "start" /\ ixPc' = "idle" /\ indexed = {}
      /\ UNCHANGED <<indexed, blockDataByNumber, blockByHashHex, logsByBlockNumber, txByHashHex,
                     receiptByTxHashHex, cacheSize>>
  BY DEF Start, HoldInv, historyVars, mapVars
<1>2. InBlockMaps' = InBlockMaps
  BY <1>1 DEF InBlockMaps
<1>3. \A S : Findable(S)' <=> Findable(S)
  BY <1>1, Zenon DEF Findable
<1>4. Settled'
  BY <1>1, <1>2, <1>3, Zenon DEF HoldInv, Settled, Newest
<1> QED BY <1>1, <1>2, <1>4 DEF HoldInv, Evicting

(* A round above the tip comes into the hands of OnBlockIndexed. *)
LEMMA HoldNotify ==
    ASSUME CacheInv, HoldInv, ixPc = "idle", NEW r \in ToIndex, bd'.round = r, ixPc' = "blocks",
           indexed' = indexed \cup {r}, UNCHANGED <<mapVars, cacheSize>>
    PROVE  HoldInv'
<1>1. UNCHANGED <<blockDataByNumber, blockByHashHex, logsByBlockNumber, txByHashHex,
                  receiptByTxHashHex, cacheSize>>
  BY DEF mapVars
<1>2. /\ Settled /\ cacheSize <= MaxCacheSize /\ Findable(InBlockMaps)
      /\ indexed \subseteq Rounds /\ InBlockMaps \subseteq Rounds
      /\ \A s \in indexed : s <= Tip
  BY DEF HoldInv, Settled
<1>3. r \in Rounds /\ \A s \in indexed : s < r
  BY <1>2, ToIndexAboveTip, TipType, RoundTypes
<1>4. r \notin indexed /\ r \notin InBlockMaps
  <2>1. ~(r < r)
    BY ToIndexAboveTip
  <2> QED BY <1>2, <1>3, <2>1, Zenon DEF Settled, Newest
<1>5. /\ InBlockMaps' = InBlockMaps /\ InBlockMaps \ {r} = InBlockMaps
      /\ indexed' \ {r} = indexed
  BY <1>1, <1>4 DEF InBlockMaps
<1>6. \A S : Findable(S)' <=> Findable(S)
  BY <1>1, Zenon DEF Findable
<1>7. Inserting'
  <2>1. r \in indexed' /\ \A s \in indexed' \ {r} : s < r
    BY <1>3
  <2>2. Newest(InBlockMaps \ {r}, indexed' \ {r})
    BY <1>2, <1>5 DEF Settled
  <2> QED BY <1>1, <1>2, <1>4, <1>5, <1>6, <2>1, <2>2, Zenon DEF Inserting, Settled, Newest
<1>8. indexed' \subseteq Rounds
  BY <1>2, <1>3, SMTT(30)
<1> QED BY <1>1, <1>2, <1>5, <1>7, <1>8 DEF HoldInv, Evicting

(* The three insertions. *)
LEMMA HoldBlock == ASSUME HoldInv, CacheBlock PROVE HoldInv'
<1> DEFINE b == bd.round
<1>1. /\ ixPc = "blocks" /\ ixPc' = "logs"
      /\ blockDataByNumber' = StoreAll(blockDataByNumber, {b}, bd)
      /\ blockByHashHex' = blockByHashHex \cup {b}
      /\ UNCHANGED <<indexed, bd, logsByBlockNumber, txByHashHex, receiptByTxHashHex, cacheSize>>
  BY ZenonT(30) DEF CacheBlock, historyVars
<1>2. Inserting /\ b \notin InBlockMaps /\ indexed \subseteq Rounds /\ b \in Rounds
  BY <1>1 DEF HoldInv, Inserting
<1>3. /\ InBlockMaps' = InBlockMaps \cup {b} /\ InBlockMaps' \ {b} = InBlockMaps
      /\ InBlockMaps \ {b} = InBlockMaps /\ b \in InBlockMaps'
      /\ blockDataByNumber'[b] = bd
      /\ \A r \in InBlockMaps : blockDataByNumber'[r] = blockDataByNumber[r]
  <2>1. /\ InBlockMaps' = InBlockMaps \cup {b}
        /\ \A r \in InBlockMaps \cup {b} :
              blockDataByNumber'[r] = IF r \in {b} THEN bd ELSE blockDataByNumber[r]
    BY <1>1 DEF InBlockMaps, StoreAll
  <2> QED BY <1>2, <2>1
<1>4. Findable(InBlockMaps) /\ Newest(InBlockMaps, indexed \ {b})
  BY <1>2, <1>3 DEF Inserting
<1> HIDE DEF b
<1>5. Findable(InBlockMaps \ {b})'
  <2>1. (InBlockMaps \ {b})' = InBlockMaps
    BY <1>1, <1>3 DEF b
  <2> QED BY <1>1, <1>3, <1>4, <2>1, Zenon DEF Findable
<1>6. b' = b
  BY <1>1 DEF b
<1>7. Inserting'
  <2>1. ixPc' # "blocks" /\ ixPc' # "txes" /\ ixPc # "txes"
    BY <1>1
  <2> QED BY <1>1, <1>2, <1>3, <1>4, <1>5, <1>6, <2>1, Zenon DEF Inserting, Newest, b
<1> QED BY <1>1, <1>2, <1>3, <1>7 DEF HoldInv, Evicting

LEMMA HoldLogs == ASSUME HoldInv, CacheLogs PROVE HoldInv'
<1>1. /\ ixPc = "logs" /\ ixPc' = "txes"
      /\ logsByBlockNumber' = StoreAll(logsByBlockNumber, {bd.round}, bd.receipts)
      /\ UNCHANGED <<indexed, bd, blockDataByNumber, blockByHashHex, txByHashHex,
                     receiptByTxHashHex, cacheSize>>
  BY SMTT(30) DEF CacheLogs, historyVars
<1>2. InBlockMaps' = InBlockMaps /\ Inserting /\ bd.round \in InBlockMaps
  <2>1. InBlockMaps' = InBlockMaps
    BY <1>1, Zenon DEF InBlockMaps
  <2>2. ixPc # "blocks"
    BY <1>1
  <2>3. Inserting
    BY <1>1, Zenon DEF HoldInv
  <2>4. bd.round \in InBlockMaps
    BY <2>2, <2>3, Zenon DEF Inserting
  <2> QED BY <2>1, <2>3, <2>4, Zenon
<1>3. DOMAIN logsByBlockNumber' = InBlockMaps
  <2>1. DOMAIN logsByBlockNumber = InBlockMaps \ {bd.round}
    BY <1>1, <1>2 DEF Inserting
  <2>2. DOMAIN logsByBlockNumber' = DOMAIN logsByBlockNumber \cup {bd.round}
    BY <1>1 DEF StoreAll
  <2> QED BY <1>2, <2>1, <2>2, SMTT(30)
<1>4. \A S : Findable(S)' <=> Findable(S)
  BY <1>1, Zenon DEF Findable
<1>5. Inserting'
  <2>1. ixPc # "blocks" /\ ixPc' # "blocks"
    BY <1>1, SMTT(30)
  <2> QED BY <1>1, <1>2, <1>3, <1>4, <2>1, Zenon DEF Inserting, Newest
<1> QED BY <1>1, <1>2, <1>5 DEF HoldInv, Evicting

LEMMA HoldTxes == ASSUME HoldInv, CacheTxes PROVE HoldInv'
<1> DEFINE b == bd.round
           before == InBlockMaps \ {b}
<1>1. /\ ixPc = "txes" /\ ixPc' = "tip"
      /\ txByHashHex' = StoreAll(txByHashHex, bd.uniqueTxes, b)
      /\ receiptByTxHashHex' = StoreAll(receiptByTxHashHex, bd.receipts, b)
      /\ cacheSize' = cacheSize + 1
      /\ UNCHANGED <<indexed, bd, blockDataByNumber, blockByHashHex, logsByBlockNumber>>
  BY Zenon DEF CacheTxes, historyVars
<1>2. /\ Inserting /\ InBlockMaps' = InBlockMaps /\ indexed \subseteq Rounds
      /\ InBlockMaps \subseteq Rounds
  BY <1>1, SMTT(30) DEF HoldInv, InBlockMaps
<1>3. /\ b \in InBlockMaps /\ b \in indexed /\ blockDataByNumber[b] = bd
      /\ \A r \in indexed \ {b} : r < b
      /\ Newest(before, indexed \ {b}) /\ cacheSize = Cardinality(before)
      /\ cacheSize <= MaxCacheSize /\ DOMAIN logsByBlockNumber = InBlockMaps /\ Findable(before)
  BY <1>1, <1>2 DEF Inserting
<1>4. before \cup {b} = InBlockMaps /\ b \notin before /\ before \subseteq Rounds
  BY <1>2, <1>3
<1> HIDE DEF b, before
<1>5. /\ Newest(InBlockMaps, indexed)
      /\ Cardinality(InBlockMaps) = cacheSize + 1 /\ cacheSize \in Nat
  <2>1. /\ Newest(before \cup {b}, indexed)
        /\ Cardinality(before \cup {b}) = Cardinality(before) + 1
    BY <1>2, <1>3, <1>4, NewestOnTop, Zenon
  <2>2. Cardinality(before) \in Nat
    BY <1>4, RoundsSize, Zenon
  <2> QED BY <1>3, <1>4, <2>1, <2>2, Zenon
<1>6. \A h \in DOMAIN txByHashHex' :
         txByHashHex'[h] \in InBlockMaps /\ h \in blockDataByNumber[txByHashHex'[h]].uniqueTxes
  BY <1>1, <1>3, <1>4, SMTT(30) DEF StoreAll, Findable
<1>7. \A h \in DOMAIN receiptByTxHashHex' :
         receiptByTxHashHex'[h] \in InBlockMaps /\ h \in blockDataByNumber[receiptByTxHashHex'[h]].receipts
  BY <1>1, <1>3, <1>4 DEF StoreAll, Findable
<1>8. Findable(InBlockMaps)'
  BY <1>1, <1>2, <1>6, <1>7, Zenon DEF Findable
<1>9. Settled'
  BY <1>1, <1>2, <1>3, <1>5, <1>8, Zenon DEF Settled, Newest
<1>10. \A r \in indexed' : r <= bd'.round
  <2>1. indexed \subseteq Nat
    BY <1>2, RoundAssumption DEF Rounds
  <2>2. ASSUME NEW r \in indexed PROVE r <= b
    BY <1>3, <2>1
  <2> QED BY <1>1, <2>2, Zenon DEF b
<1>11. cacheSize' <= MaxCacheSize + 1
  BY <1>1, <1>3, <1>5, SizeAssumption
<1> QED BY <1>1, <1>2, <1>9, <1>10, <1>11 DEF HoldInv, Evicting

LEMMA HoldTip == ASSUME CacheInv, HoldInv, RaiseTip PROVE HoldInv'
<1>1. /\ ixPc = "tip"
      /\ lastIndexedRound' = IF bd.round > lastIndexedRound THEN bd.round ELSE lastIndexedRound
      /\ ixPc' = IF cacheSize > MaxCacheSize THEN "evictTxes" ELSE "idle"
      /\ UNCHANGED <<indexed, bd, blockDataByNumber, blockByHashHex, logsByBlockNumber,
                     txByHashHex, receiptByTxHashHex, cacheSize, continues>>
  BY DEF RaiseTip, historyVars, mapVars, dbVars
<1>2. /\ Settled /\ cacheSize <= MaxCacheSize + 1 /\ \A r \in indexed : r <= bd.round
      /\ InBlockMaps' = InBlockMaps /\ InBlockMaps \subseteq Rounds /\ indexed \subseteq Rounds
  BY <1>1 DEF HoldInv, InBlockMaps
<1>3. \A S : Findable(S)' <=> Findable(S)
  BY <1>1, Zenon DEF Findable
<1>4. Settled'
  <2>1. ixPc # "evictBlock"
    BY <1>1
  <2> QED BY <1>1, <1>2, <1>3, <2>1, Zenon DEF Settled, Newest
<1>5. \A r \in indexed' : r <= Tip'
  <2>1. bd.round \in Rounds /\ lastIndexedRound \in 0..MaxRound
    BY <1>1 DEF CacheInv, IxInv, DataInv
  <2>2. bd.round <= Tip' /\ Tip' \in Nat /\ bd.round \in Nat
    BY <1>1, <2>1, RoundAssumption DEF Tip, QueryLastIndexedRound, Rounds
  <2>3. indexed \subseteq Nat
    BY <1>2, RoundAssumption DEF Rounds
  <2> QED BY <1>1, <1>2, <2>2, <2>3
<1>6. cacheSize \in Nat
  BY <1>2, RoundsSize DEF Settled
<1>7. CASE cacheSize > MaxCacheSize
  <2>1. ixPc' = "evictTxes" /\ cacheSize' = MaxCacheSize + 1
    BY <1>1, <1>2, <1>6, <1>7, SizeAssumption, SMTT(30)
  <2> QED BY <1>1, <1>2, <1>4, <1>5, <2>1 DEF HoldInv, Evicting
<1>8. CASE ~(cacheSize > MaxCacheSize)
  <2>1. ixPc' = "idle" /\ cacheSize' <= MaxCacheSize
    BY <1>1, <1>6, <1>8, SizeAssumption, SMTT(30)
  <2> QED BY <1>1, <1>2, <1>4, <1>5, <2>1 DEF HoldInv, Evicting
<1> QED BY <1>7, <1>8

(* pruneCache finds every entry of the round that it evicts. *)
LEMMA HoldEvictTxes == ASSUME HoldInv, EvictTxes PROVE HoldInv'
<1> DEFINE o == Oldest
<1>1. /\ ixPc = "evictTxes" /\ ixPc' = "evictBlock"
      /\ txByHashHex' = Remove(txByHashHex, OfOldest(txByHashHex, blockDataByNumber[o].uniqueTxes))
      /\ receiptByTxHashHex' =
            Remove(receiptByTxHashHex, OfOldest(receiptByTxHashHex, blockDataByNumber[o].receipts))
      /\ UNCHANGED <<indexed, bd, blockDataByNumber, blockByHashHex, logsByBlockNumber, cacheSize,
                     continues, lastIndexedRound>>
  BY ZenonT(30) DEF EvictTxes, historyVars, dbVars
<1>2. /\ Settled /\ cacheSize = MaxCacheSize + 1 /\ InBlockMaps' = InBlockMaps /\ Oldest' = o
      /\ InBlockMaps \subseteq Rounds /\ Tip' = Tip /\ Findable(InBlockMaps)
  BY <1>1, Zenon DEF HoldInv, InBlockMaps, Oldest, Evicting, Settled, Tip, QueryLastIndexedRound
<1> HIDE DEF o
<1>3. \A h \in DOMAIN txByHashHex' :
         /\ txByHashHex'[h] \in InBlockMaps \ {o}
         /\ h \in blockDataByNumber[txByHashHex'[h]].uniqueTxes
  BY <1>1, <1>2, Zenon DEF Remove, Restrict, OfOldest, Findable, o
<1>4. \A h \in DOMAIN receiptByTxHashHex' :
         /\ receiptByTxHashHex'[h] \in InBlockMaps \ {o}
         /\ h \in blockDataByNumber[receiptByTxHashHex'[h]].receipts
  BY <1>1, <1>2, Zenon DEF Remove, Restrict, OfOldest, Findable, o
<1>5. Findable(InBlockMaps \ {Oldest})'
  BY <1>1, <1>2, <1>3, <1>4, Zenon DEF Findable
<1>6. Settled'
  BY <1>1, <1>2, Zenon DEF Settled, Newest
<1> QED BY <1>1, <1>2, <1>5, <1>6 DEF HoldInv, Evicting

LEMMA HoldEvictBlock == ASSUME HoldInv, EvictBlock PROVE HoldInv'
<1> DEFINE o == Oldest
<1>1. /\ ixPc = "evictBlock"
      /\ blockByHashHex' = blockByHashHex \ {o}
      /\ logsByBlockNumber' = Remove(logsByBlockNumber, {o})
      /\ blockDataByNumber' = Remove(blockDataByNumber, {o})
      /\ cacheSize' = cacheSize - 1
      /\ ixPc' = IF cacheSize' > MaxCacheSize THEN "evictTxes" ELSE "idle"
      /\ UNCHANGED <<indexed, bd, txByHashHex, receiptByTxHashHex, continues, lastIndexedRound>>
  BY Zenon DEF EvictBlock, historyVars, dbVars
<1>2. /\ Settled /\ cacheSize = MaxCacheSize + 1 /\ InBlockMaps \subseteq Rounds
      /\ indexed \subseteq Rounds /\ Findable(InBlockMaps \ {o}) /\ Tip' = Tip
      /\ \A r \in indexed : r <= Tip
  BY <1>1 DEF HoldInv, Evicting, Tip, QueryLastIndexedRound
<1>3. o \in InBlockMaps /\ \A s \in InBlockMaps : o <= s
  BY <1>2, OldestIsLowest, Zenon DEF Settled
<1> HIDE DEF o
<1>4. /\ Newest(InBlockMaps \ {o}, indexed) /\ Cardinality(InBlockMaps \ {o}) = MaxCacheSize
  BY <1>2, <1>3, NewestEvicts, Zenon DEF Settled
<1>5. /\ InBlockMaps' = InBlockMaps \ {o} /\ DOMAIN logsByBlockNumber' = InBlockMaps \ {o}
      /\ \A r \in InBlockMaps \ {o} : blockDataByNumber'[r] = blockDataByNumber[r]
  BY <1>1, <1>2, Zenon DEF Remove, Restrict, InBlockMaps, Settled
<1>6. cacheSize' = MaxCacheSize /\ ixPc' = "idle" /\ cacheSize' <= MaxCacheSize
  BY <1>1, <1>2, SizeAssumption
<1>7. Findable(InBlockMaps)'
  BY <1>1, <1>2, <1>5, Zenon DEF Findable
<1>8. Settled'
  BY <1>1, <1>4, <1>5, <1>6, <1>7, Zenon DEF Settled, Newest
<1>9. blockByHashHex' = InBlockMaps'
  BY <1>1, <1>5 DEF HoldInv
<1> QED BY <1>1, <1>2, <1>5, <1>6, <1>8, <1>9 DEF HoldInv, Evicting

(* Every step keeps it: requests and the pruning worker touch no map, the  *)
(* indexing goroutine takes it from one position to the next.              *)
LEMMA HoldStep == ASSUME CacheInv, HoldInv, [Next]_vars PROVE HoldInv'
<1>1. CASE PruneQuery \/ Prune \/ BlockRequest \/ LogsRequest \/ UNCHANGED vars
  <2>1. UNCHANGED <<indexed, bd, mapVars, cacheSize, ixPc, lastIndexedRound, continues>>
    BY <1>1, Zenon DEF PruneQuery, Prune, BlockRequest, BlockNumber, GetBlockByRound,
       QueryBlockHash, GetBlockByHash, QueryBlock, BlockAnswered, LogsRequest, GetLogs,
       LookupLogs, QueryLogs, LogsAnswered, vars, dbVars, historyVars, ixVars, cacheVars, mapVars
  <2>2. Tip' = Tip
    BY <2>1 DEF Tip, QueryLastIndexedRound
  <2> QED BY <2>1, <2>2, TipType, HoldFrame
<1>2. CASE CommitAckLost
  <2>1. PICK r \in ToIndex : StoreBlockData(r)
    BY <1>2, ZenonT(30) DEF CommitAckLost
  <2>2. continues' = r /\ UNCHANGED <<indexed, bd, mapVars, cacheSize, ixPc, lastIndexedRound>>
    BY <1>2, <2>1 DEF CommitAckLost, StoreBlockData, historyVars, ixVars, cacheVars
  <2>3. Tip' \in Nat /\ Tip <= Tip'
    BY <2>2, TipType, ToIndexAboveTip DEF Tip, QueryLastIndexedRound
  <2> QED BY <2>2, <2>3, TipType, HoldFrame
<1>3. CASE Commit \/ LookupFails
  <2>1. PICK r \in ToIndex : \E unique, receipts :
           /\ ixPc = "idle" /\ ixPc' = "blocks" /\ indexed' = indexed \cup {r}
           /\ bd' = [round |-> r, uniqueTxes |-> unique, receipts |-> receipts]
           /\ UNCHANGED <<mapVars, cacheSize>>
    BY <1>3, Zenon DEF Commit, LookupFails, StoreBlockData, Notify, cacheVars
  <2> QED BY <2>1, HoldNotify, SMTT(30)
<1>4. CASE Restart
  BY <1>4, HoldRestart
<1>5. CASE Start
  BY <1>5, HoldStart
<1>6. CASE OnBlockIndexed
  BY <1>6, HoldBlock, HoldLogs, HoldTxes, HoldTip, HoldEvictTxes, HoldEvictBlock, Zenon
     DEF OnBlockIndexed
<1> QED BY <1>1, <1>2, <1>3, <1>4, <1>5, <1>6, Zenon DEF Next

(* Between two blocks every map of the cache holds the newest of the       *)
(* rounds indexed since the process started, as many as fit: the           *)
(* insertions of OnBlockIndexed and the eviction of pruneCache, which      *)
(* follow one another map by map, leave nothing behind that no later       *)
(* eviction would find, also of a round whose lookups failed.              *)
THEOREM CacheExact == Spec => []CacheHoldsNewest
<1>1. Init => HoldInv
  <2>1. DOMAIN NoRows = {}
    BY DEF NoRows
  <2> QED BY <2>1, HoldFresh DEF Init
<1>2. CacheInv /\ HoldInv /\ [Next]_vars => HoldInv'
  BY HoldStep, Zenon
<1>3. HoldInv => CacheHoldsNewest
  <2> SUFFICES ASSUME HoldInv, ixPc = "idle" PROVE CacheHoldsNewest
    BY Zenon DEF CacheHoldsNewest
  <2>1. /\ Settled /\ blockByHashHex = InBlockMaps /\ cacheSize <= MaxCacheSize
        /\ InBlockMaps \subseteq Rounds /\ Findable(InBlockMaps)
    BY DEF HoldInv, Settled
  <2>2. InBlockMaps # indexed => cacheSize = MaxCacheSize
    BY <2>1, RoundsSize, SizeAssumption DEF Settled, Newest
  <2>3. \A map \in {txByHashHex, receiptByTxHashHex} : \A h \in DOMAIN map : map[h] \in InBlockMaps
    BY <2>1, Zenon DEF Findable
  <2> QED BY <2>1, <2>2, <2>3, Zenon DEF CacheHoldsNewest, Settled, Newest, InBlockMaps
<1> QED BY <1>1, <1>2, <1>3, CacheInit, CacheStep, PTL DEF Spec

=============================================================================
