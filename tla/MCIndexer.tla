----------------------------- MODULE MCIndexer -----------------------------
(* Small instances of Indexer. *)
EXTENDS Indexer

(* A quiet chain, for the runs in which header types play no part. *)
NormalChains == {[r \in Rounds |-> "Normal"]}

(* Every chain that starts with an epoch transition, as a runtime's does,  *)
(* and ends with a round that is stored with parameters.                   *)
EpochChains ==
    {c \in [Rounds -> HeaderTypes] :
        c[0] = "EpochTransition" /\ c[MaxRound] = "Normal"}
=============================================================================
