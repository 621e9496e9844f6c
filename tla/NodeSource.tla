----------------------------- MODULE NodeSource ----------------------------
(***************************************************************************)
(* The source of runtime data: oasis-node (source/node/node.go passes each *)
(* call on to it) behind the optional pebble cache                         *)
(* (source/pebble/pebble.go), which persists answers by method and         *)
(* arguments, is read and filled without a lock, and outlives the process. *)
(*                                                                         *)
(* The answer about a round is that round, whatever is asked about it: the *)
(* method and the arguments other than the round are fixed.  The methods   *)
(* without a round are CoreRuntimeInfo and CoreCallDataPublicKey           *)
(* (HealthChecks) and GetLastRetainedBlock, which is not cached.           *)
(***************************************************************************)
EXTENDS Integers

CONSTANTS
    Callers,        \* goroutines that call the source
    MaxRound,       \* bound: the last round the node produces
    NodeCache,      \* cfg.NodeCachePath is set
    Outages         \* calls of the node and of pebble may fail

ASSUME NodeAssumption == MaxRound \in Nat \ {0} /\ {NodeCache, Outages} \subseteq BOOLEAN

Rounds == 1..MaxRound
RoundLatest == MaxRound + 1     \* client.RoundLatest, above every round

VARIABLES
    latest,         \* the node's newest round
    retained,       \* the node's oldest round
    db,             \* the pebble database: key |-> answer
    srcPc,          \* where each caller is
    srcKey,         \* what it asks for
    srcVal          \* what it is answered, or why it is not

nodeVars == <<latest, retained>>
sourceVars == <<latest, retained, db, srcPc, srcKey, srcVal>>

Missing == -1       \* the node does not have the round
Down == -2          \* the node, or pebble, does not answer

(* makeKey: of the method and its arguments only the round matters here. *)
makeKey(round) == round
NoKey == 0

SourceInit ==
    /\ latest \in Rounds
    /\ retained \in 1..latest
    /\ db = [k \in {} |-> 0]
    /\ srcPc = [c \in Callers |-> "off"]
    /\ srcKey = [c \in Callers |-> NoKey]
    /\ srcVal = [c \in Callers |-> 0]

-----------------------------------------------------------------------------
(* The node. *)

NodeProduces ==
    /\ latest < MaxRound
    /\ latest' = latest + 1
    /\ UNCHANGED <<retained, db, srcPc, srcKey, srcVal>>

NodePrunes ==
    /\ retained < latest
    /\ retained' = retained + 1
    /\ UNCHANGED <<latest, db, srcPc, srcKey, srcVal>>

(* What the node answers when it answers. *)
NodeAnswer(key) ==
    CASE key = RoundLatest          -> latest
      [] key \in retained..latest   -> key
      [] OTHER                      -> Missing

-----------------------------------------------------------------------------
(* A call, as getFromCacheOrFetch makes it when there is a cache. *)

At(c, pc, val) ==
    /\ srcPc' = [srcPc EXCEPT ![c] = pc]
    /\ srcVal' = [srcVal EXCEPT ![c] = val]

(* Mutant: an answer about the latest round is cached like any other. *)
NeverVolatile(key) == FALSE

(* The volatile argument that each method passes. *)
Volatile(key) == key = RoundLatest

UsesCache(key) == NodeCache /\ ~Volatile(key)

(* The part of a caller's step that makes the call. *)
Call(c, key) ==
    /\ srcKey' = [srcKey EXCEPT ![c] = key]
    /\ At(c, IF UsesCache(key) THEN "get" ELSE "fetch", 0)
    /\ UNCHANGED <<latest, retained, db>>

Get(c) ==
    /\ srcPc[c] = "get"
    /\ \/ srcKey[c] \in DOMAIN db /\ At(c, "answered", db[srcKey[c]])
       \/ srcKey[c] \notin DOMAIN db /\ At(c, "fetch", 0)
       \/ Outages /\ At(c, "failed", Down)
    /\ UNCHANGED <<latest, retained, db, srcKey>>

Fetch(c) ==
    /\ srcPc[c] = "fetch"
    /\ LET answer == NodeAnswer(srcKey[c]) IN
       \/ answer = Missing /\ At(c, "failed", Missing)
       \/ answer # Missing /\ At(c, IF UsesCache(srcKey[c]) THEN "set" ELSE "answered", answer)
       \/ Outages /\ At(c, "failed", Down)
    /\ UNCHANGED <<latest, retained, db, srcKey>>

(* An error of Set is ignored. *)
Set(c) ==
    /\ srcPc[c] = "set"
    /\ \/ db' = [k \in DOMAIN db \cup {srcKey[c]} |->
                    IF k = srcKey[c] THEN srcVal[c] ELSE db[k]]
       \/ Outages /\ db' = db
    /\ At(c, "answered", srcVal[c])
    /\ UNCHANGED <<latest, retained, srcKey>>

SourceStep(c) == Get(c) \/ Fetch(c) \/ Set(c)

(* The part of a caller's step that leaves the call behind. *)
Return(c) ==
    /\ srcKey' = [srcKey EXCEPT ![c] = NoKey]
    /\ At(c, "off", 0)
    /\ UNCHANGED <<latest, retained, db>>

(* The process dies: its calls with it, the pebble database not. *)
SourceRestart ==
    /\ srcPc' = [c \in Callers |-> "off"]
    /\ srcKey' = [c \in Callers |-> NoKey]
    /\ srcVal' = [c \in Callers |-> 0]
    /\ UNCHANGED <<latest, retained, db>>

-----------------------------------------------------------------------------
Keys == {makeKey(n) : n \in 1..RoundLatest} \cup {NoKey}

(* The types of the variables. *)
SourceTypeOK ==
    /\ latest \in Rounds /\ retained \in 1..latest
    /\ db \in [DOMAIN db -> Rounds] /\ DOMAIN db \subseteq Keys
    /\ srcPc \in [Callers -> {"off", "get", "fetch", "set", "answered", "failed"}]
    /\ srcKey \in [Callers -> Keys]
    /\ srcVal \in [Callers -> {Missing, Down, 0} \cup Rounds]
=============================================================================
