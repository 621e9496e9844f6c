-------------------------- MODULE LogTxIndexFixer --------------------------
(***************************************************************************)
(* worker/log_tx_index_fixer.go: the background worker that repairs the    *)
(* tx_index column of the logs an old version of the indexer wrote.  It    *)
(* searches the highest round with a mismatch once, then walks down from   *)
(* there in batches of rounds, one UPDATE statement per batch.  Meanwhile  *)
(* the pruner deletes rounds, queries fail, and the process may be stopped *)
(* and started again at any point.                                         *)
(*                                                                         *)
(* A round is "mismatched" when it holds a log whose tx_index differs from *)
(* the index of its transaction.  The indexer of this version stores the   *)
(* right index, so it never adds a mismatched round and is left out.       *)
(***************************************************************************)
EXTENDS Integers

CONSTANTS
    batchSize,      \* rounds per UPDATE
    MaxRound,       \* highest round that was indexed by the old version
    MaxStops        \* bound on the number of times the process is stopped

(* Round 0 is the genesis block of the runtime, which has no transactions: *)
(* findHighestMismatchedRound uses 0 for "no mismatches".                  *)
ASSUME FixerAssumption ==
    /\ batchSize \in Nat \ {0}
    /\ MaxRound \in Nat
    /\ MaxStops \in Nat

Rounds == 1 .. MaxRound

VARIABLES
    mismatched,         \* the rounds with a log whose tx_index is wrong
    fixerPc,                 \* where Start is; "done" is its return of nil
    currentEndRound,    \* local of Start
    cancelled,          \* ctx.Done() is closed
    stops               \* how often the process was stopped

fixerVars == <<mismatched, fixerPc, currentEndRound, cancelled, stops>>

FixerTypeOK ==
    /\ mismatched \in SUBSET Rounds
    /\ fixerPc \in {"search", "loop", "fix", "backoff", "done", "returned"}
    /\ currentEndRound \in Nat
    /\ cancelled \in BOOLEAN
    /\ stops \in 0 .. MaxStops

FixerInit ==
    /\ mismatched \in SUBSET Rounds
    /\ fixerPc = "search"
    /\ currentEndRound = 0
    /\ cancelled = FALSE
    /\ stops = 0

-----------------------------------------------------------------------------
(* findHighestMismatchedRound: 0 when there is none.                       *)
IsHighestMismatched(r) ==
    \/ mismatched = {} /\ r = 0
    \/ r \in mismatched /\ \A q \in mismatched : q <= r

(* The search at the start.  A failed query makes Start return its error.  *)
FindHighest ==
    /\ fixerPc = "search"
    /\ \E r \in Rounds \cup {0} :
         /\ IsHighestMismatched(r)
         /\ currentEndRound' = r
         /\ fixerPc' = IF r = 0 THEN "done" ELSE "loop"
    /\ UNCHANGED <<mismatched, cancelled, stops>>

FindFails ==
    /\ fixerPc = "search"
    /\ fixerPc' = "returned"
    /\ UNCHANGED <<mismatched, currentEndRound, cancelled, stops>>

(* The top of the loop: the context is looked at once per batch.           *)
CheckContext ==
    /\ fixerPc = "loop"
    /\ fixerPc' = IF cancelled THEN "returned" ELSE "fix"
    /\ UNCHANGED <<mismatched, currentEndRound, cancelled, stops>>

(* The first round of the batch that ends at currentEndRound.              *)
StartRound(end) == IF end >= batchSize THEN end - batchSize + 1 ELSE 0

(* Mutant: a BETWEEN that leaves its upper end out. *)
FixedToExclusive(start, end) == {r \in mismatched : r < start \/ r >= end}

(* fixRoundRange(startRound, endRound): one UPDATE, atomic in the database. *)
Fixed(start, end) == {r \in mismatched : r < start \/ r > end}

(* The end of the batch below the one that starts at the given round.      *)
NextEnd(start) == start - 1

(* Mutant: a loop without the break at round 0. *)
FixBatchWithoutStop ==
    /\ fixerPc = "fix"
    /\ LET start == StartRound(currentEndRound)
       IN  /\ mismatched' = Fixed(start, currentEndRound)
           /\ fixerPc' = "loop"
           /\ currentEndRound' = NextEnd(start)
    /\ UNCHANGED <<cancelled, stops>>

(* The batch succeeds: stop after the batch that reaches round 0.          *)
FixBatch ==
    /\ fixerPc = "fix"
    /\ LET start == StartRound(currentEndRound)
       IN  /\ mismatched' = Fixed(start, currentEndRound)
           /\ IF start = 0
              THEN fixerPc' = "done" /\ UNCHANGED currentEndRound
              ELSE fixerPc' = "loop" /\ currentEndRound' = NextEnd(start)
    /\ UNCHANGED <<cancelled, stops>>

(* The batch fails, and is retried after the backoff.  The UPDATE may have *)
(* been committed although its answer was lost.                            *)
FixFails ==
    /\ fixerPc = "fix"
    /\ \/ UNCHANGED mismatched
       \/ mismatched' = Fixed(StartRound(currentEndRound), currentEndRound)
    /\ fixerPc' = "backoff"
    /\ UNCHANGED <<currentEndRound, cancelled, stops>>

BackoffEnds ==
    /\ fixerPc = "backoff"
    /\ fixerPc' = "loop"
    /\ UNCHANGED <<mismatched, currentEndRound, cancelled, stops>>

-----------------------------------------------------------------------------
(* The pruner deletes the rounds below some round, mismatched or not.      *)
Prune ==
    /\ \E r \in Rounds : mismatched' = {q \in mismatched : q >= r}
    /\ mismatched' # mismatched
    /\ UNCHANGED <<fixerPc, currentEndRound, cancelled, stops>>

(* The process is asked to stop.                                           *)
Cancel ==
    /\ ~cancelled
    /\ stops < MaxStops
    /\ cancelled' = TRUE
    /\ stops' = stops + 1
    /\ UNCHANGED <<mismatched, fixerPc, currentEndRound>>

(* A process that was asked to stop, or whose worker returned an error, is *)
(* replaced by a new one.  The 30 second exit of main.go can end it at any *)
(* point of the worker; only the database survives.                        *)
Restart ==
    /\ cancelled \/ fixerPc = "returned"
    /\ fixerPc' = "search"
    /\ currentEndRound' = 0
    /\ cancelled' = FALSE
    /\ UNCHANGED <<mismatched, stops>>

FixerNext ==
    \/ FindHighest \/ FindFails \/ CheckContext
    \/ FixBatch \/ FixFails \/ BackoffEnds
    \/ Prune \/ Cancel \/ Restart

FixerSpec == FixerInit /\ [][FixerNext]_fixerVars

-----------------------------------------------------------------------------
(* When Start returns nil ("all log tx_index mismatches fixed, worker      *)
(* stopping") no mismatched log is left, whatever failed, was retried, was *)
(* pruned or was interrupted on the way.                                   *)
AllFixed == fixerPc = "done" => mismatched = {}

(* The worker never walks past a mismatch: while it is in its loop, every  *)
(* mismatched round is at or below the end of the batch it works on.  This *)
(* is what makes one search at the start enough.                           *)
NothingSkipped ==
    fixerPc \in {"loop", "fix", "backoff"} => \A r \in mismatched : r <= currentEndRound

(* Every walk ends, with success, an error or the end of the process: it  *)
(* stops at round 0, where the subtraction on unsigned round numbers would *)
(* wrap around.                                                            *)
WalkEnds == fixerPc = "loop" ~> fixerPc \in {"done", "returned", "search"}
=============================================================================
