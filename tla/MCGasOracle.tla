---------------------------- MODULE MCGasOracle ----------------------------
(* A small instance of GasOracle, and the blocks of FeeRewards beside it:   *)
(* a behaviour either runs the oracle or examines one block.                *)
EXTENDS GasOracle, FeeRewards

PricesOrNone == {1, 2, NoPrice}

MCInit == Init /\ sample \in Samples
MCNext == sample = NoSample /\ Next /\ UNCHANGED sample
MCSpec == MCInit /\ [][MCNext]_<<vars, sample>> /\ Fairness
=============================================================================
