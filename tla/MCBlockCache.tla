---------------------------- MODULE MCBlockCache ---------------------------
(* Small instances of BlockCache. *)
EXTENDS BlockCache, TLC

(* Chains in which two transactions are included twice, in blocks of their *)
(* own: one fails first and then succeeds, the other succeeds first, in    *)
(* round 1, which is the round that eviction reaches.                      *)
Executed(h, hash, first, second) ==
    \E r \in Rounds, s \in Rounds :
        /\ r < s
        /\ h[r] = <<[hash |-> hash, status |-> first]>>
        /\ h[s] = <<[hash |-> hash, status |-> second]>>

OneTxChains ==
    {h \in [Rounds -> {<<t>> : t \in Tx}] : \E a \in Hashes, b \in Hashes :
        /\ Executed(h, a, ReceiptStatusFailed, ReceiptStatusSuccessful)
        /\ Executed(h, b, ReceiptStatusSuccessful, ReceiptStatusFailed)
        /\ a # b /\ h[1][1].hash = b}

(* Chains in which one block has two successes and the others are empty.   *)
TwoTxChains ==
    {[r \in Rounds |-> IF r = 2 THEN b ELSE << >>] :
        b \in {s \in [1..2 -> [hash : Hashes, status : {ReceiptStatusSuccessful}]] :
                  s[1].hash # s[2].hash}}

Chains == OneTxChains \cup TwoTxChains

(* Chains is closed under it. *)
HashSymmetry == Permutations(Hashes)

(* The requests only read, so each is followed without the other. *)
OneRequest == blPc = "idle" \/ lgPc = "idle"
=============================================================================
