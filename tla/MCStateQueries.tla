--------------------------- MODULE MCStateQueries --------------------------
(***************************************************************************)
(* StateQueries for TLC: a young chain without archive, of which the node  *)
(* may prune what it produces, and a chain whose first round only the      *)
(* archive has.                                                            *)
(***************************************************************************)
EXTENDS StateQueries

SmallDeployments == {[archive |-> 0, latest |-> 1, retained |-> 1],
                     [archive |-> 1, latest |-> 2, retained |-> 2]}

(* Nothing tells the requests apart: what holds of this one holds of all. *)
Watched == CHOOSE r \in Readers : TRUE

WatchedFairSpec == QueriesSpec /\ RequestFair(Watched)

(* Every request ends (RequestEnds), though only its own goroutine is sure *)
(* to keep running.                                                        *)
RequestsEnd == RequestEnds(Watched)
=============================================================================
