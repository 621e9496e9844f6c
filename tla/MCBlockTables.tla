--------------------------- MODULE MCBlockTables ---------------------------
(* Small instances of BlockTables, and the runtime blocks of BlockModels    *)
(* beside them: a behaviour either runs the two transactions or examines    *)
(* one block.                                                               *)
EXTENDS BlockTables, BlockModels

(* All blocks of at most one transaction. *)
Blocks1 == {<< >>} \cup {<<t>> : t \in Tx}

(* All blocks of at most two transactions of different hashes. *)
Blocks2 == Blocks1 \cup {b \in Tx \X Tx : b[1].hash # b[2].hash}

(* The last round has up to two transactions, the others up to one. *)
MixedHistories ==
    {h \in [Rounds -> Blocks2] :
        OneSuccess(h) /\ \A r \in 1..(MaxRound - 1) : h[r] \in Blocks1}

Event(kind, n) == [kind |-> kind, n |-> n]

(* No event, logs in two events, gas with its fee, gas reported twice. *)
SomeEvents ==
    {<<>>,
     <<Event("evm", 1), Event("gas", 1), Event("evm", 2)>>,
     <<Event("gas", 1), Event("fee", 3)>>,
     <<Event("gas", 1), Event("gas", 1)>>}

MCInit ==
    /\ Init
    /\ \/ batch = NoBatch
       \/ history = [r \in Rounds |-> <<>>] /\ batch \in Batches
MCNext ==
    \/ batch = NoBatch /\ Next /\ UNCHANGED batch
    \/ batch # NoBatch /\ UNCHANGED <<vars, batch>>
MCSpec == MCInit /\ [][MCNext]_<<vars, batch>> /\ Fairness
=============================================================================
