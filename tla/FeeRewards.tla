----------------------------- MODULE FeeRewards -----------------------------
(***************************************************************************)
(* The rewards of eth_feeHistory: the validation of the request            *)
(* (rpc/eth/api.go), the sorted list of a block's transactions that the    *)
(* oracle keeps (trackFeeHistory) and the percentiles it reads off it      *)
(* (rewards, gas/fee_history.go).                                          *)
(*                                                                         *)
(* The gas and the fees of a transaction are small numbers, a percentile   *)
(* is an integer.                                                          *)
(***************************************************************************)
EXTENDS Integers, Sequences, FiniteSets, SequencesExt

CONSTANTS
    MaxTxs,         \* bound: successful transactions of a block
    Amounts,        \* bound: gas used, tip caps and fee caps
    Percentiles,    \* bound: percentiles asked for
    MaxQueryLimit   \* maxQueryLimit: percentiles in one request

ASSUME RewardsAssumption ==
    /\ MaxTxs \in Nat /\ MaxQueryLimit \in Nat
    /\ Amounts \subseteq Nat \ {0}
    /\ Percentiles \subseteq Int

VARIABLE sample     \* the block whose rewards are asked for

-----------------------------------------------------------------------------
(* Mutant: the order of the percentiles is not checked. *)
AcceptedInAnyOrder(percentiles) ==
    /\ Len(percentiles) <= MaxQueryLimit
    /\ \A i \in DOMAIN percentiles : percentiles[i] \in 0..100

(* The requests for which FeeHistory of rpc/eth/api.go asks the oracle. *)
Accepted(percentiles) ==
    /\ Len(percentiles) <= MaxQueryLimit
    /\ \A i \in DOMAIN percentiles : percentiles[i] \in 0..100
    /\ \A i \in 2..Len(percentiles) : percentiles[i - 1] < percentiles[i]

(* The reward of a transaction: its tip, at most its fee cap. *)
Reward(tx) == IF tx.tip > tx.cap THEN tx.cap ELSE tx.tip

(* Where SortStableFunc puts the j-th transaction: after those of a lower  *)
(* reward, and after the earlier ones of the same.                         *)
Rank(txs, j) ==
    Cardinality({k \in DOMAIN txs : \/ Reward(txs[k]) < Reward(txs[j])
                                    \/ Reward(txs[k]) = Reward(txs[j]) /\ k <= j})

(* sortedTxs: the gas and the rewards of a block's transactions, by reward. *)
SortedTxs(txs) ==
    [i \in DOMAIN txs |->
        LET tx == txs[CHOOSE j \in DOMAIN txs : Rank(txs, j) = i]
        IN  [gas |-> tx.gas, reward |-> Reward(tx)]]

(* The sums of the first n amounts of a sequence. *)
Sums(amounts) ==
    LET sum[n \in 0..Len(amounts)] == IF n = 0 THEN 0 ELSE sum[n - 1] + amounts[n]
    IN  sum

SumGas(txs) == Sums([i \in DOMAIN txs |-> txs[i].gas])

ThresholdGasUsed(gasUsed, p) == (gasUsed * p) \div 100

(* rewards: the index moves on from one percentile to the next and never   *)
(* back, and stops at the last transaction.                                *)
Rewards(gasUsed, sorted, percentiles) ==
    LET sum == SumGas(sorted)
        reaches(t, p) == sum[t] >= ThresholdGasUsed(gasUsed, p)
        txIndex[i \in 0..Len(percentiles)] ==
            IF i = 0 THEN 1
            ELSE CHOOSE t \in txIndex[i - 1]..Len(sorted) :
                    /\ reaches(t, percentiles[i]) \/ t = Len(sorted)
                    /\ \A u \in txIndex[i - 1]..t - 1 : ~reaches(u, percentiles[i])
    IN  [i \in DOMAIN percentiles |->
            IF sorted = <<>> THEN 0 ELSE sorted[txIndex[i]].reward]

-----------------------------------------------------------------------------
(* A block of a small instance: failed transactions add to the gas of the  *)
(* block and are not listed.                                               *)
NoSample == [txs |-> <<>>, failedGas |-> 0]
Samples == [txs : SeqOf([gas : Amounts, tip : Amounts, cap : Amounts], MaxTxs),
            failedGas : Amounts \cup {0}]
Requests == {ps \in SeqOf(Percentiles, MaxQueryLimit + 1) : Accepted(ps)}

(* The p-th percentile by its definition: the lowest reward such that the  *)
(* transactions with at most this reward used p per cent of the block's    *)
(* gas, or the highest reward if the listed transactions did not.          *)
IsPercentile(v, txs, gasUsed, p) ==
    LET upTo(w) == [i \in DOMAIN txs |-> IF Reward(txs[i]) <= w THEN txs[i].gas ELSE 0]
        gasUpTo(w) == Sums(upTo(w))[Len(txs)]
        enough == {w \in {Reward(txs[i]) : i \in DOMAIN txs} :
                      gasUpTo(w) >= ThresholdGasUsed(gasUsed, p)}
    IN  /\ \E i \in DOMAIN txs : v = Reward(txs[i])
        /\ IF enough = {} THEN \A i \in DOMAIN txs : Reward(txs[i]) <= v
           ELSE v \in enough /\ \A w \in enough : v <= w

(* Every reward of an accepted request is the percentile that was asked    *)
(* for, although one pass over the sorted transactions answers the whole   *)
(* request and the block's gas counts transactions that are not listed.    *)
RewardsArePercentiles ==
    \A ps \in Requests :
        LET txs == sample.txs
            gasUsed == SumGas(txs)[Len(txs)] + sample.failedGas
            answer == Rewards(gasUsed, SortedTxs(txs), ps)
        IN  \A i \in DOMAIN ps :
                IF txs = <<>> THEN answer[i] = 0
                ELSE IsPercentile(answer[i], txs, gasUsed, ps[i])
=============================================================================
