---------------------------- MODULE BlockModels ----------------------------
(***************************************************************************)
(* What StoreBlockData makes of a runtime block before it opens its        *)
(* database transaction (indexer/utils.go): the loop that decodes the      *)
(* transactions and their events, and blockToModels, which turns them into *)
(* rows.  The transactions that are not Ethereum's are skipped, and every  *)
(* position and sum is taken over what is left.                            *)
(*                                                                         *)
(* A transaction is its hash, outcome, gas limit, price and events; a log  *)
(* is the transaction it came from and its place in the block.             *)
(***************************************************************************)
EXTENDS Integers, Sequences, SequencesExt

CONSTANTS
    MaxBatch,       \* bound: transactions of a runtime block
    TxHashes,       \* hashes of Ethereum transactions
    EventLists,     \* events of a transaction: sequences of [kind, n]
    GasLimits,      \* gas limits of Ethereum transactions
    Prices          \* gas prices of transactions

VARIABLE batch      \* the runtime block: a sequence of transactions

NoPrice == -1       \* a nil *quantity.Quantity, or a price that cannot be parsed

(* "evm" carries n logs, "gas" reports n gas used, "fee" pays n to the fee *)
(* accumulator, "bad" cannot be decoded.                                   *)
EventKinds == {"evm", "gas", "fee", "bad"}

ASSUME BatchAssumption ==
    /\ MaxBatch \in Nat
    /\ EventLists \subseteq Seq([kind : EventKinds, n : Nat])
    /\ GasLimits \subseteq Nat
    /\ Prices \subseteq Nat

-----------------------------------------------------------------------------
(* The events of one transaction. *)

(* The sums of the first n amounts of a sequence. *)
Sums(amounts) ==
    LET sum[n \in 0..Len(amounts)] == IF n = 0 THEN 0 ELSE sum[n - 1] + amounts[n]
    IN  sum

Sum(amounts) == Sums(amounts)[Len(amounts)]

EventsOf(t, kind) == {i \in DOMAIN t.events : t.events[i].kind = kind}

(* What a transaction's events of one kind amount to. *)
Amount(t, kind) ==
    Sum([i \in DOMAIN t.events |-> IF i \in EventsOf(t, kind) THEN t.events[i].n ELSE 0])

(* A report of 0 is as good as none. *)
GasReports(t) == {i \in EventsOf(t, "gas") : t.events[i].n # 0}

(* An event that cannot be decoded, or another report after one of gas     *)
(* used, fails the block.                                                  *)
EventsRefused(t) ==
    \/ EventsOf(t, "bad") # {}
    \/ \E i \in GasReports(t), j \in EventsOf(t, "gas") : i < j

(* Without a report the gas limit counts as used; there is one at most. *)
GasUsed(t) ==
    IF GasReports(t) = {} THEN t.gas
    ELSE t.events[CHOOSE i \in GasReports(t) : TRUE].n

EffectivePrice(t) ==
    LET spent == Amount(t, "fee")
    IN  IF spent > 0 THEN spent \div GasUsed(t) ELSE t.price

-----------------------------------------------------------------------------
(* The decoding loop. *)

Logs2EthLogs(t, startIndex, txIndex) ==
    [i \in 1..Amount(t, "evm") |->
        [tx |-> t.hash, index |-> startIndex + i - 1, txIndex |-> txIndex]]

(* Mutant: the position in the runtime block is taken as the index. *)
DecodeLogsAtPosition(acc, b, n) ==
    Logs2EthLogs(b[n], Len(acc.logs), n - 1)

(* The logs of an Ethereum transaction, which has just been appended. *)
DecodeLogs(acc, b, n) ==
    Logs2EthLogs(b[n], Len(acc.logs), Len(acc.ethTxs) - 1)

(* The price of the first transaction from the middle on that has one: an  *)
(* Ethereum transaction counts one position later than another.            *)
MedianPrice(acc, b, n) ==
    LET txIndex == n - 1
        middle == Len(b) \div 2 - 1
    IN  IF acc.median = NoPrice
           /\ (IF b[n].eth THEN txIndex > middle ELSE txIndex >= middle)
        THEN b[n].price ELSE acc.median

(* One iteration: a transaction that is not Ethereum's is skipped. *)
DecodeTx(acc, b, n) ==
    LET priced == [acc EXCEPT !.median = MedianPrice(acc, b, n)]
        with == [priced EXCEPT !.ethTxs = Append(@, b[n])]
    IN  IF b[n].eth THEN [with EXCEPT !.logs = @ \o DecodeLogs(with, b, n)]
        ELSE priced

(* What the first n iterations leave. *)
Decoding(b) ==
    LET decode[n \in 0..Len(b)] ==
            IF n = 0 THEN [ethTxs |-> <<>>, logs |-> <<>>, median |-> NoPrice]
            ELSE DecodeTx(decode[n - 1], b, n)
    IN  decode

Decode(b) == Decoding(b)[Len(b)]

Refused(b) == \E i \in DOMAIN b : b[i].eth /\ EventsRefused(b[i])

-----------------------------------------------------------------------------
(* blockToModels: the rows of transactions, of receipts and of the block.  *)
(* A receipt takes its logs by the hash of its transaction.                *)

TxRows(b) ==
    LET txs == Decode(b).ethTxs
    IN  [i \in DOMAIN txs |-> [hash |-> txs[i].hash, ok |-> txs[i].ok, index |-> i - 1]]

CumulativeGasUsed(txs) == Sums([i \in DOMAIN txs |-> GasUsed(txs[i])])

(* txLogs: of the first n logs, those of the transaction of hash h. *)
TxLogs(logs, h) ==
    LET select[n \in 0..Len(logs)] ==
            IF n = 0 THEN <<>>
            ELSE IF logs[n].tx = h THEN Append(select[n - 1], logs[n]) ELSE select[n - 1]
    IN  select

Receipts(b) ==
    LET d == Decode(b)
    IN  [i \in DOMAIN d.ethTxs |->
            [hash |-> d.ethTxs[i].hash, ok |-> d.ethTxs[i].ok, index |-> i - 1,
             gasUsed |-> GasUsed(d.ethTxs[i]),
             cumulative |-> CumulativeGasUsed(d.ethTxs)[i],
             effectivePrice |-> EffectivePrice(d.ethTxs[i]),
             logs |-> TxLogs(d.logs, d.ethTxs[i].hash)[Len(d.logs)]]]

HeaderGasUsed(b) ==
    LET txs == Decode(b).ethTxs IN CumulativeGasUsed(txs)[Len(txs)]

-----------------------------------------------------------------------------
(* The runtime executes a transaction successfully at most once, and a     *)
(* failed one leaves no logs.                                              *)
NoBatch == <<>>
EthTx == [eth : {TRUE}, hash : TxHashes, ok : BOOLEAN, gas : GasLimits, price : Prices,
          events : EventLists]
OtherTx == [eth : {FALSE}, price : Prices \cup {NoPrice}]
RuntimeTx == {t \in EthTx : t.ok \/ EventsOf(t, "evm") = {}} \cup OtherTx

IsBatch(b) ==
    \A i, j \in DOMAIN b :
        b[i].eth /\ b[j].eth /\ b[i].ok /\ b[j].ok /\ b[i].hash = b[j].hash => i = j

Batches == {b \in SeqOf(RuntimeTx, MaxBatch) : IsBatch(b)}

(* The row that the tables keep for a hash of the block: the success, or   *)
(* the first failure (StoreTx of BlockTables).                             *)
Kept(rows, h) ==
    LET mine == {i \in DOMAIN rows : rows[i].hash = h}
    IN  rows[CHOOSE i \in mine :
                IF \E j \in mine : rows[j].ok THEN rows[i].ok
                ELSE \A j \in mine : i <= j]

(* The rows of a block agree with each other whatever is skipped: its logs *)
(* are numbered through the block, the tx_index of a log is the index of   *)
(* the stored transaction it names (there is nothing left for the log      *)
(* tx_index fixer to correct), a stored receipt has exactly the logs that  *)
(* its execution left, and the cumulative gas rises by the gas of each     *)
(* receipt up to the gas of the block, which is what all of the Ethereum   *)
(* transactions used.                                                      *)
ModelsConsistent ==
    ~Refused(batch) =>
        LET logs == Decode(batch).logs
            rows == TxRows(batch)
            receipts == Receipts(batch)
            runtimeLogs(h) ==
                Sum([i \in DOMAIN batch |->
                        IF batch[i].eth /\ batch[i].hash = h /\ batch[i].ok
                        THEN Amount(batch[i], "evm") ELSE 0])
            runtimeGas ==
                Sum([i \in DOMAIN batch |-> IF batch[i].eth THEN GasUsed(batch[i]) ELSE 0])
        IN  /\ \A k \in DOMAIN logs :
                  /\ logs[k].index = k - 1
                  /\ logs[k].txIndex = Kept(rows, logs[k].tx).index
            /\ \A i \in DOMAIN receipts :
                  LET stored == Kept(receipts, receipts[i].hash) IN
                  /\ Len(stored.logs) = runtimeLogs(stored.hash)
                  /\ \A k \in DOMAIN stored.logs : stored.logs[k].txIndex = stored.index
                  /\ receipts[i].cumulative =
                        receipts[i].gasUsed + (IF i = 1 THEN 0 ELSE receipts[i - 1].cumulative)
            /\ HeaderGasUsed(batch) = runtimeGas
            /\ receipts # <<>> => Last(receipts).cumulative = HeaderGasUsed(batch)

(* The median price "is the price of the median transaction in the runtime *)
(* block" (indexer/backend.go, line 107), or of the first one after it     *)
(* whose price can be parsed; said of blocks that have a middle.           *)
MedianIsMiddle ==
    LET middle == (Len(batch) + 1) \div 2
        later == {i \in middle..Len(batch) : batch[i].price # NoPrice}
    IN  Len(batch) % 2 = 1 /\ ~Refused(batch) =>
            Decode(batch).median =
                IF later = {} THEN NoPrice
                ELSE batch[CHOOSE i \in later : \A j \in later : i <= j].price
=============================================================================
