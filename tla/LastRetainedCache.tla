------------------------ MODULE LastRetainedCache --------------------------
(***************************************************************************)
(* The cached LastRetained tip of CachingBackend (indexer/backend_cache.go)*)
(* and everyone who touches it: Start, which initialises it with plain     *)
(* writes, the callers of QueryLastRetainedRound, each with its            *)
(* compare-and-swap loop, and the pruning worker, which moves the tip in   *)
(* the database and leaves the cache alone.  OnLastRetainedRound has no    *)
(* caller.                                                                 *)
(***************************************************************************)
EXTENDS Integers

CONSTANTS
    Readers,        \* concurrent calls of QueryLastRetainedRound
    FirstTip,       \* the tip in the database when the process starts
    LastTip,        \* bound: the tip is not pruned beyond it
    Failures        \* whether a database query can fail

ASSUME TipAssumption == FirstTip \in Nat /\ LastTip \in Nat /\ FirstTip <= LastTip
ASSUME FailuresAssumption == Failures \in BOOLEAN

VARIABLES
    dbTip,                  \* the LastRetained tip in the database
    lastRetainedRound,      \* CachingBackend.lastRetainedRound
    lastRetainedRoundValid, \* CachingBackend.lastRetainedRoundValid # 0
    startPc,                \* where Start is
    startRead,              \* what its query returned, until it is stored
    startErr,               \* its query failed, likewise
    pc,                     \* where each reader is
    prevLastRetained,       \* each reader's local variables, this one until the swap
    lastRetained

cacheVars == <<lastRetainedRound, lastRetainedRoundValid>>
startVars == <<startPc, startRead, startErr>>
readVars == <<pc, prevLastRetained, lastRetained>>
vars == <<dbTip, lastRetainedRound, lastRetainedRoundValid, startPc, startRead,
          startErr, pc, prevLastRetained, lastRetained>>

Init ==
    /\ dbTip = FirstTip
    /\ lastRetainedRound = 0 /\ lastRetainedRoundValid = FALSE
    /\ startPc = "query" /\ startRead = 0 /\ startErr = FALSE
    /\ pc = [r \in Readers |-> "load"]
    /\ prevLastRetained = [r \in Readers |-> 0]
    /\ lastRetained = [r \in Readers |-> 0]

(* The pruning worker stores a higher tip. *)
Prune ==
    /\ dbTip < LastTip
    /\ dbTip' \in (dbTip + 1)..LastTip
    /\ UNCHANGED <<cacheVars, startVars, readVars>>

-----------------------------------------------------------------------------
(* CachingBackend.Start: a failed query yields 0. *)

StartQuery ==
    /\ startPc = "query"
    /\ \/ startRead' = dbTip /\ startErr' = FALSE
       \/ Failures /\ startRead' = 0 /\ startErr' = TRUE
    /\ startPc' = "store"
    /\ UNCHANGED <<dbTip, cacheVars, readVars>>

StartStore ==
    /\ startPc = "store"
    /\ lastRetainedRound' = startRead
    /\ startPc' = IF startErr THEN "done" ELSE "valid"
    /\ startRead' = 0 /\ startErr' = FALSE
    /\ UNCHANGED <<dbTip, lastRetainedRoundValid, readVars>>

StartValid ==
    /\ startPc = "valid"
    /\ lastRetainedRoundValid' = TRUE
    /\ startPc' = "done"
    /\ UNCHANGED <<dbTip, lastRetainedRound, startRead, startErr, readVars>>

-----------------------------------------------------------------------------
(* QueryLastRetainedRound. *)

Goto(r, label) == pc' = [pc EXCEPT ![r] = label]

Load(r) ==
    /\ pc[r] = "load"
    /\ lastRetained' = [lastRetained EXCEPT ![r] = lastRetainedRound]
    /\ Goto(r, "check")
    /\ UNCHANGED <<dbTip, cacheVars, startVars, prevLastRetained>>

Check(r) ==
    /\ pc[r] = "check"
    /\ Goto(r, IF lastRetainedRoundValid THEN "returned" ELSE "query")
    /\ UNCHANGED <<dbTip, cacheVars, startVars, prevLastRetained, lastRetained>>

(* Mutant: the previous value is not remembered before the query. *)
QueryForgetsPrev(r) ==
    /\ pc[r] = "query"
    /\ \/ /\ lastRetained' = [lastRetained EXCEPT ![r] = dbTip]
          /\ Goto(r, "cas")
       \/ /\ Failures
          /\ lastRetained' = [lastRetained EXCEPT ![r] = 0]
          /\ Goto(r, "failed")
    /\ UNCHANGED <<dbTip, cacheVars, startVars, prevLastRetained>>

(* One turn of the loop up to the compare-and-swap. *)
Query(r) ==
    /\ pc[r] = "query"
    /\ prevLastRetained' = [prevLastRetained EXCEPT ![r] = lastRetained[r]]
    /\ \/ /\ lastRetained' = [lastRetained EXCEPT ![r] = dbTip]
          /\ Goto(r, "cas")
       \/ /\ Failures
          /\ lastRetained' = [lastRetained EXCEPT ![r] = 0]
          /\ Goto(r, "failed")
    /\ UNCHANGED <<dbTip, cacheVars, startVars>>

(* Mutant: a plain store of the value plus one round, as if the tip named  *)
(* the last pruned round.                                                  *)
CompareAndSwapNext(r) ==
    /\ pc[r] = "cas"
    /\ IF lastRetainedRound = prevLastRetained[r]
       THEN /\ lastRetainedRound' = lastRetained[r] + 1
            /\ Goto(r, "mark")
       ELSE /\ UNCHANGED lastRetainedRound
            /\ Goto(r, "query")
    /\ prevLastRetained' = [prevLastRetained EXCEPT ![r] = 0]
    /\ UNCHANGED <<dbTip, lastRetainedRoundValid, startVars, lastRetained>>

CompareAndSwap(r) ==
    /\ pc[r] = "cas"
    /\ IF lastRetainedRound = prevLastRetained[r]
       THEN /\ lastRetainedRound' = lastRetained[r]
            /\ Goto(r, "mark")
       ELSE /\ UNCHANGED lastRetainedRound
            /\ Goto(r, "query")
    /\ prevLastRetained' = [prevLastRetained EXCEPT ![r] = 0]
    /\ UNCHANGED <<dbTip, lastRetainedRoundValid, startVars, lastRetained>>

MarkValid(r) ==
    /\ pc[r] = "mark"
    /\ lastRetainedRoundValid' = TRUE
    /\ Goto(r, "returned")
    /\ UNCHANGED <<dbTip, lastRetainedRound, startVars, prevLastRetained, lastRetained>>

(* The call is over; the same goroutine may serve another request. *)
Again(r) ==
    /\ pc[r] \in {"returned", "failed"}
    /\ Goto(r, "load")
    /\ UNCHANGED <<dbTip, cacheVars, startVars, prevLastRetained, lastRetained>>

Step(r) == Load(r) \/ Check(r) \/ Query(r) \/ CompareAndSwap(r) \/ MarkValid(r)

Next ==
    \/ Prune
    \/ StartQuery \/ StartStore \/ StartValid
    \/ \E r \in Readers : Step(r) \/ Again(r)

Spec == Init /\ [][Next]_vars

(* Start and every call keep running. *)
FairSpec ==
    /\ Spec
    /\ WF_vars(StartQuery) /\ WF_vars(StartStore) /\ WF_vars(StartValid)
    /\ \A r \in Readers : WF_vars(Step(r))

-----------------------------------------------------------------------------
(* The types of the variables. *)
TypeOK ==
    /\ dbTip \in FirstTip..LastTip
    /\ lastRetainedRound \in 0..LastTip
    /\ lastRetainedRoundValid \in BOOLEAN
    /\ startPc \in {"query", "store", "valid", "done"}
    /\ startRead \in 0..LastTip
    /\ startErr \in BOOLEAN
    /\ pc \in [Readers -> {"load", "check", "query", "cas", "mark", "returned", "failed"}]
    /\ prevLastRetained \in [Readers -> 0..LastTip]
    /\ lastRetained \in [Readers -> 0..LastTip]

(* No call claims that a round is pruned which the database still has:     *)
(* what the cache holds and what any call is about to answer or to store   *)
(* is never above the tip in the database.                                 *)
NeverAhead ==
    /\ lastRetainedRound <= dbTip
    /\ \A r \in Readers : lastRetained[r] <= dbTip /\ prevLastRetained[r] <= dbTip

(* Every call of QueryLastRetainedRound returns, with a round or an error. *)
CallsReturn ==
    \A r \in Readers : pc[r] = "load" ~> pc[r] \in {"returned", "failed"}

(* A valid cached round is "the minimum round not pruned" that             *)
(* QueryLastRetainedRound is documented to return (indexer/backend.go).    *)
CachedIsCurrent ==
    lastRetainedRoundValid => lastRetainedRound = dbTip
=============================================================================
