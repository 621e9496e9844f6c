----------------------------- MODULE GasOracle -----------------------------
(***************************************************************************)
(* The gas price oracle (gas/backend.go) and its fee history               *)
(* (gas/fee_history.go): a goroutine that handles the blocks the indexer   *)
(* broadcasts, and the queries of the node's minimum price it starts.      *)
(*                                                                         *)
(* A block is its round, whether it is full, and the price tracked for it  *)
(* if it is (its median price with the margin added; NoPrice when no       *)
(* median could be found).  The price the node reports is the round it was *)
(* asked for.                                                              *)
(***************************************************************************)
EXTENDS Integers, Sequences, FiniteSets, FiniteSetsExt

CONSTANTS
    MaxRound,           \* bound: the last round that is indexed
    WindowSize,         \* cfg.WindowSize
    FeeHistorySize,     \* cfg.FeeHistorySize
    Prices,             \* prices of full blocks, NoPrice among them or not
    MaxJump,            \* rounds the indexer skips at most, where the node pruned
    QueryFailures       \* TRUE: queries of the node may fail

NoPrice == -1           \* a nil *quantity.Quantity
NoRound == -1           \* no price from the node yet

Rounds == 0..MaxRound
Blocks == [round : Rounds, full : BOOLEAN, price : Prices]

ASSUME SizeAssumption ==
    /\ MaxRound \in Nat
    /\ WindowSize \in Nat \ {0}
    /\ FeeHistorySize \in Nat \ {0}
    /\ MaxJump \in Nat
ASSUME PriceAssumption == Prices \subseteq (Nat \ {0}) \cup {NoPrice}

VARIABLES
    indexed,        \* the last round that was indexed
    ch,             \* blocks broadcast and not yet handled
    blockPrices,    \* the rolling array of prices, 0 for blocks not full
    blockPricesCurrentIdx,
    computedGasPrice,
    queryInProgress,
    queries,        \* the rounds of the goroutines in fetchMinGasPrice
    nodeMinGasPrice,    \* the round the reported price is for, or NoRound
    feeHistoryData, \* the rounds of the fee history
    handled         \* history: the blocks handled

priceVars == <<blockPrices, blockPricesCurrentIdx, computedGasPrice>>
vars == <<indexed, ch, blockPrices, blockPricesCurrentIdx, computedGasPrice,
          queryInProgress, queries, nodeMinGasPrice, feeHistoryData, handled>>

Init ==
    /\ indexed = 0
    /\ ch = <<>>
    /\ blockPrices = [i \in 0..WindowSize - 1 |-> 0]
    /\ blockPricesCurrentIdx = 0
    /\ computedGasPrice = NoPrice
    /\ queryInProgress = FALSE
    /\ queries = {}
    /\ nodeMinGasPrice = NoRound
    /\ feeHistoryData = <<>>
    /\ handled = <<>>

-----------------------------------------------------------------------------
(* The indexer stores a block and broadcasts it.  The subscription keeps   *)
(* the newest WindowSize blocks.                                           *)
Broadcast ==
    \E r \in indexed + 1 .. indexed + 1 + MaxJump, full \in BOOLEAN, p \in Prices :
        LET queue == Append(ch, [round |-> r, full |-> full, price |-> p]) IN
        /\ r \in Rounds
        /\ indexed' = r
        /\ ch' = IF Len(queue) > WindowSize THEN Tail(queue) ELSE queue
        /\ UNCHANGED <<priceVars, queryInProgress, queries, nodeMinGasPrice,
                       feeHistoryData, handled>>

(* Mutant: the index is advanced past the last slot before it wraps. *)
TrackPriceWraps(p) ==
    LET prices == [blockPrices EXCEPT ![blockPricesCurrentIdx] = p]
        max == Max({prices[i] : i \in DOMAIN prices})
    IN  /\ blockPrices' = prices
        /\ blockPricesCurrentIdx' =
              IF blockPricesCurrentIdx = WindowSize - 1 THEN 1 % WindowSize
              ELSE blockPricesCurrentIdx + 1
        /\ computedGasPrice' = IF max = 0 THEN NoPrice ELSE max

(* trackPrice *)
TrackPrice(p) ==
    LET prices == [blockPrices EXCEPT ![blockPricesCurrentIdx] = p]
        max == Max({prices[i] : i \in DOMAIN prices})
    IN  /\ blockPrices' = prices
        /\ blockPricesCurrentIdx' = (blockPricesCurrentIdx + 1) % WindowSize
        /\ computedGasPrice' = IF max = 0 THEN NoPrice ELSE max

(* onBlock: a full block without a median price is not tracked. *)
OnBlock(b) ==
    \/ ~b.full /\ TrackPrice(0)
    \/ b.full /\ b.price # NoPrice /\ TrackPrice(b.price)
    \/ b.full /\ b.price = NoPrice /\ UNCHANGED priceVars

(* Mutant: a query is started for every block. *)
StartQueryAlways(r) ==
    /\ queryInProgress' = TRUE
    /\ queries' = queries \cup {r}

(* At most one query at a time. *)
StartQuery(r) ==
    /\ queryInProgress' = TRUE
    /\ queries' = IF queryInProgress THEN queries ELSE queries \cup {r}

(* trackFeeHistory returns early on a fee it cannot decode: fees are the   *)
(* decimal numbers that StoreBlockData wrote, so it does not.  Data of a   *)
(* round whose lookups failed (LookupFails of BlockCache), where it would  *)
(* find fewer receipts than transactions, is left out.                     *)
TrackFeeHistory(r) ==
    feeHistoryData' =
        Append(IF Len(feeHistoryData) = FeeHistorySize
               THEN Tail(feeHistoryData) ELSE feeHistoryData, r)

(* An iteration of the loop in Start. *)
HandleBlock ==
    /\ ch # <<>>
    /\ ch' = Tail(ch)
    /\ StartQuery(Head(ch).round)
    /\ OnBlock(Head(ch))
    /\ TrackFeeHistory(Head(ch).round)
    /\ handled' = Append(handled, Head(ch))
    /\ UNCHANGED <<indexed, nodeMinGasPrice>>

(* fetchMinGasPrice stores the node's answer, or nothing if it fails, and  *)
(* its goroutine then clears queryInProgress.                              *)
FetchMinGasPrice(r) ==
    /\ r \in queries
    /\ queries' = queries \ {r}
    /\ \/ nodeMinGasPrice' = r
       \/ QueryFailures /\ UNCHANGED nodeMinGasPrice
    /\ UNCHANGED <<indexed, ch, priceVars, queryInProgress, feeHistoryData, handled>>

QueryDone ==
    /\ queryInProgress
    /\ queries = {}
    /\ queryInProgress' = FALSE
    /\ UNCHANGED <<indexed, ch, priceVars, queries, nodeMinGasPrice, feeHistoryData, handled>>

Next ==
    \/ Broadcast \/ HandleBlock \/ QueryDone
    \/ \E r \in Rounds : FetchMinGasPrice(r)

Spec == Init /\ [][Next]_vars

(* The oracle's goroutines run, and a query returns: it has a timeout. *)
Fairness ==
    /\ WF_vars(HandleBlock) /\ WF_vars(QueryDone)
    /\ \A r \in Rounds : WF_vars(FetchMinGasPrice(r))

FairSpec == Spec /\ Fairness

-----------------------------------------------------------------------------
(* FeeHistory: the rounds it answers for, with data[i] at index i - 1.     *)
(* lastBlock is a round, Latest for pending, latest, finalized and safe,   *)
(* or Earliest.                                                            *)

Latest == -1
Earliest == -5

LastBlockIdx(data, lastBlock) ==
    IF lastBlock = Latest THEN Len(data) - 1
    ELSE Min({i \in 0..Len(data) - 1 : data[i + 1] = lastBlock})

(* Mutant: the block count is taken as a distance. *)
OldestBlockIdxFar(blockCount, lastIdx) ==
    IF blockCount > lastIdx THEN 0 ELSE lastIdx - blockCount

OldestBlockIdx(blockCount, lastIdx) ==
    IF blockCount > lastIdx THEN 0 ELSE lastIdx + 1 - blockCount

FeeHistory(data, blockCount, lastBlock) ==
    IF \/ data = <<>> \/ lastBlock = Earliest
       \/ lastBlock # Latest /\ \A i \in DOMAIN data : data[i] # lastBlock
    THEN <<>>
    ELSE LET last == LastBlockIdx(data, lastBlock)
             oldest == OldestBlockIdx(blockCount, last)
         IN  [i \in 1..last - oldest + 1 |-> data[oldest + i]]

-----------------------------------------------------------------------------
(* The types of the variables. *)
TypeOK ==
    /\ indexed \in Rounds
    /\ ch \in Seq(Blocks) /\ Len(ch) <= WindowSize
    /\ blockPrices \in [0..WindowSize - 1 -> Prices \cup {0}]
    /\ blockPricesCurrentIdx \in 0..WindowSize - 1
    /\ computedGasPrice \in Prices \cup {NoPrice}
    /\ queryInProgress \in BOOLEAN
    /\ queries \subseteq Rounds
    /\ nodeMinGasPrice \in Rounds \cup {NoRound}
    /\ feeHistoryData \in Seq(Rounds) /\ Len(feeHistoryData) <= FeeHistorySize
    /\ handled \in Seq(Blocks)

(* The newest n elements of a sequence. *)
Newest(s, n) == SubSeq(s, Len(s) - Min({n, Len(s)}) + 1, Len(s))

(* A full block without a median price is not tracked. *)
Tracked(b) == b.full => b.price # NoPrice

(* How many blocks were tracked after the i-th block handled. *)
TrackedSince(i) == Cardinality({j \in i + 1 .. Len(handled) : Tracked(handled[j])})

(* The computed price is the highest price of the full blocks among the    *)
(* last WindowSize blocks tracked, and there is none if none of them was   *)
(* full: no price outlives its window, none leaves it early.               *)
ComputedIsWindowMax ==
    LET window == {i \in DOMAIN handled : Tracked(handled[i]) /\ TrackedSince(i) < WindowSize}
        full == {handled[i].price : i \in {j \in window : handled[j].full}}
    IN  computedGasPrice = IF full = {} THEN NoPrice ELSE Max(full)

(* A late answer of the node never replaces a newer one. *)
NodePriceNeverOlder == [][nodeMinGasPrice' >= nodeMinGasPrice]_vars

(* The fee history holds the newest blocks handled, and for every request  *)
(* that eth_feeHistory lets through (at least one block) FeeHistory        *)
(* answers with as many of them as it has, up to the one asked for, and    *)
(* with nothing for "earliest" or a block that it does not hold.           *)
FeeHistoryAnswers ==
    LET kept == Newest([i \in DOMAIN handled |-> handled[i].round], FeeHistorySize)
    IN  \A n \in 1..MaxRound + 1 :
            /\ FeeHistory(feeHistoryData, n, Latest) = Newest(kept, n)
            /\ \A i \in DOMAIN kept :
                  FeeHistory(feeHistoryData, n, kept[i]) = Newest(SubSeq(kept, 1, i), n)
            /\ \A r \in Rounds \cup {Earliest} :
                  (\A i \in DOMAIN kept : kept[i] # r) => FeeHistory(feeHistoryData, n, r) = <<>>

(* "after every block, query the oasis-node for its configured gas price"  *)
(* (gas/backend.go): when all blocks are handled and no query fails, the   *)
(* reported price becomes that of the last block.                          *)
PriceOfLastBlock == indexed = MaxRound ~> nodeMinGasPrice = MaxRound

(* eth_feeHistory answers for a "block range" (rpc/eth/api.go): entry i of *)
(* the answer is for the block oldestBlock + i.                            *)
FeeHistoryIsRange ==
    \A n \in 1..MaxRound + 1 :
        LET answer == FeeHistory(feeHistoryData, n, Latest)
        IN  \A i \in DOMAIN answer : answer[i] = answer[1] + i - 1
=============================================================================
