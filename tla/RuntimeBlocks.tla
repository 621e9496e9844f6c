--------------------------- MODULE RuntimeBlocks ---------------------------
(***************************************************************************)
(* The runtime's blocks as the indexer meets them: the Ethereum            *)
(* transactions of each round, reduced to their hash and their outcome.    *)
(***************************************************************************)
EXTENDS Integers, Sequences

CONSTANTS
    MaxRound,       \* bound: rounds 1..MaxRound are indexed
    Hashes,         \* transaction hashes
    Histories       \* the possible chains: round |-> sequence of transactions

Rounds == 1..MaxRound

ReceiptStatusFailed == 0
ReceiptStatusSuccessful == 1
Statuses == {ReceiptStatusFailed, ReceiptStatusSuccessful}

Tx == [hash : Hashes, status : Statuses]
Succeeded(t) == t.status = ReceiptStatusSuccessful

(* The runtime executes a transaction successfully at most once; failed    *)
(* inclusions of it may come before and after.                             *)
OneSuccess(h) ==
    \A r, s \in Rounds : \A i \in DOMAIN h[r], j \in DOMAIN h[s] :
        /\ Succeeded(h[r][i]) /\ Succeeded(h[s][j])
        /\ h[r][i].hash = h[s][j].hash
        => r = s /\ i = j

ASSUME RoundAssumption == MaxRound \in Nat \ {0}
ASSUME HistoryAssumption ==
    \A h \in Histories : h \in [Rounds -> Seq(Tx)] /\ OneSuccess(h)
=============================================================================
