---------------------------- MODULE StateQueries ---------------------------
(***************************************************************************)
(* The eth_ calls that ask about the state at a block (rpc/eth/api.go):    *)
(* GetBalance, GetStorageAt, GetTransactionCount, GetCode and Call turn    *)
(* the block they are given into a round, then ask the archive node        *)
(* (archive/client.go) or the node source.  EstimateGas, which never asks  *)
(* the archive, is covered by the deployments that have none.              *)
(*                                                                         *)
(* Several requests run at a time, beside a node that produces and prunes  *)
(* rounds, an indexer that prunes its own, the start of the caching        *)
(* backend, and restarts of the process.                                   *)
(***************************************************************************)
EXTENDS LastRetainedCache, NodeSource

CONSTANT
    Deployments     \* initial archiveHeight, latest and retained round

ASSUME QueriesAssumption ==
    /\ Callers = Readers
    /\ FirstTip \in Rounds /\ LastTip \in Rounds
    /\ \A d \in Deployments : d.archive \in 0..MaxRound

VARIABLES
    archiveHeight,  \* archiveClient.LatestBlock(), 0 without an archive
    reqPc,          \* where each request is
    block,          \* the block it was given
    round,          \* the round that stands for it
    clrRound,       \* clrBlk.Header.Round of roundParamFromBlockNum
    asked           \* history: the latest round when the request came, and its
                    \* own round if the answer was in the cache

retainedVars == vars
requestVars == <<reqPc, block, round, clrRound, asked>>
allVars == <<retainedVars, sourceVars, archiveHeight, requestVars>>

(* latest stands for pending too; number and hash name a round. *)
Blocks == [by : {"number", "hash"}, n : Rounds]
            \cup [by : {"latest", "earliest"}, n : {NoKey}]

NoBlock == [by |-> "latest", n |-> NoKey]
NotAsked == [latest |-> 0, cached |-> {}]

QueriesInit ==
    /\ Init /\ SourceInit
    /\ dbTip <= latest
    /\ \E d \in Deployments :
          archiveHeight = d.archive /\ latest = d.latest /\ retained = d.retained
    /\ reqPc = [r \in Readers |-> "idle"]
    /\ block = [r \in Readers |-> NoBlock]
    /\ round = [r \in Readers |-> 0]
    /\ clrRound = [r \in Readers |-> 0]
    /\ asked = [r \in Readers |-> NotAsked]

-----------------------------------------------------------------------------
(* The surroundings. *)

NodeMoves ==
    /\ NodeProduces \/ NodePrunes
    /\ UNCHANGED <<retainedVars, archiveHeight, requestVars>>

(* The indexer prunes below a round that it has indexed. *)
IndexPruned ==
    /\ Prune /\ dbTip' <= latest
    /\ UNCHANGED <<sourceVars, archiveHeight, requestVars>>

BackendStarts ==
    /\ StartQuery \/ StartStore \/ StartValid
    /\ UNCHANGED <<sourceVars, archiveHeight, requestVars>>

Restart ==
    /\ SourceRestart
    /\ lastRetainedRound' = 0 /\ lastRetainedRoundValid' = FALSE
    /\ startPc' = "query" /\ startRead' = 0 /\ startErr' = FALSE
    /\ pc' = [r \in Readers |-> "load"]
    /\ prevLastRetained' = [r \in Readers |-> 0]
    /\ lastRetained' = [r \in Readers |-> 0]
    /\ reqPc' = [r \in Readers |-> "idle"]
    /\ block' = [r \in Readers |-> NoBlock]
    /\ round' = [r \in Readers |-> 0]
    /\ clrRound' = [r \in Readers |-> 0]
    /\ asked' = [r \in Readers |-> NotAsked]
    /\ UNCHANGED <<dbTip, archiveHeight>>

-----------------------------------------------------------------------------
(* getBlockRound and roundParamFromBlockNum. *)

ReqAt(r, label) == reqPc' = [reqPc EXCEPT ![r] = label]
RoundIs(r, n) == round' = [round EXCEPT ![r] = n]

(* The request is over, with an answer or an error. *)
Over(r) ==
    /\ ReqAt(r, "idle")
    /\ block' = [block EXCEPT ![r] = NoBlock]
    /\ RoundIs(r, 0)
    /\ clrRound' = [clrRound EXCEPT ![r] = 0]
    /\ asked' = [asked EXCEPT ![r] = NotAsked]

(* A client has the hash of a round the node has produced.  A malformed    *)
(* number is refused at once and leaves no trace.                          *)
ReceiveBlock(r, b) ==
    /\ reqPc[r] = "idle"
    /\ b.by = "hash" => b.n <= latest
    /\ block' = [block EXCEPT ![r] = b]
    /\ asked' = [asked EXCEPT ![r] =
                    [latest |-> IF b.by = "latest" THEN latest ELSE 0,
                     cached |-> {makeKey(b.n)} \cap DOMAIN db]]
    /\ \/ b.by = "number" /\ ReqAt(r, "route") /\ RoundIs(r, b.n)
       \/ b.by = "latest" /\ ReqAt(r, "route") /\ RoundIs(r, RoundLatest)
       \/ b.by = "hash" /\ ReqAt(r, "hash") /\ UNCHANGED round
       \/ b.by = "earliest" /\ ReqAt(r, "node") /\ UNCHANGED round
    /\ UNCHANGED <<retainedVars, sourceVars, archiveHeight, clrRound>>

Receive(r) == \E b \in Blocks : ReceiveBlock(r, b)

(* QueryBlockRound of the backend: a pruned block may still be cached.     *)
(* From here on the hash is the number it stands for.                      *)
QueryBlockRound(r) ==
    /\ reqPc[r] = "hash"
    /\ \/ /\ ReqAt(r, "route")
          /\ RoundIs(r, block[r].n)
          /\ block' = [block EXCEPT ![r].by = "number"]
          /\ UNCHANGED <<clrRound, asked>>
       \/ /\ Failures \/ block[r].n < dbTip
          /\ Over(r)
    /\ UNCHANGED <<retainedVars, sourceVars, archiveHeight>>

(* GetLastRetainedBlock of the source is never cached; with its answer in  *)
(* hand the request calls QueryLastRetainedRound of the backend.           *)
GetLastRetainedBlock(r) ==
    /\ reqPc[r] = "node"
    /\ \/ /\ clrRound' = [clrRound EXCEPT ![r] = retained]
          /\ ReqAt(r, "retained")
          /\ UNCHANGED <<block, round, asked>>
       \/ Outages /\ Over(r)
    /\ UNCHANGED <<retainedVars, sourceVars, archiveHeight>>

QueryLastRetainedRound(r) ==
    /\ reqPc[r] = "retained"
    /\ Step(r)
    /\ UNCHANGED <<sourceVars, archiveHeight, requestVars>>

(* The locals of the call end with it. *)
ResetCall(r) ==
    /\ pc' = [pc EXCEPT ![r] = "load"]
    /\ lastRetained' = [lastRetained EXCEPT ![r] = 0]
    /\ prevLastRetained' = [prevLastRetained EXCEPT ![r] = 0]
    /\ UNCHANGED <<dbTip, lastRetainedRound, lastRetainedRoundValid, startPc, startRead,
                   startErr>>

(* Mutant: the smaller of the two rounds is taken. *)
EarliestOfBoth(m, n) == IF m < n THEN m ELSE n

EarliestRound(m, n) == IF m > n THEN m ELSE n

Earliest(r) ==
    /\ reqPc[r] = "retained"
    /\ \/ /\ pc[r] = "returned"
          /\ RoundIs(r, EarliestRound(clrRound[r], lastRetained[r]))
          /\ ReqAt(r, "route")
          /\ UNCHANGED <<block, clrRound, asked>>
       \/ pc[r] = "failed" /\ Over(r)
    /\ ResetCall(r)
    /\ UNCHANGED <<sourceVars, archiveHeight>>

-----------------------------------------------------------------------------
(* The query itself. *)

(* Mutant: the archive's last block is asked of the node. *)
shouldQueryArchiveBelow(n) == archiveHeight # 0 /\ n < archiveHeight

shouldQueryArchive(n) == archiveHeight # 0 /\ n <= archiveHeight

QueryArchive(r) ==
    /\ reqPc[r] = "route"
    /\ shouldQueryArchive(round[r])
    /\ \/ /\ At(r, "answered", round[r])
          /\ ReqAt(r, "query")
          /\ UNCHANGED <<nodeVars, db, srcKey, block, round, clrRound, asked>>
       \/ Outages /\ Over(r) /\ UNCHANGED sourceVars
    /\ UNCHANGED <<retainedVars, archiveHeight>>

CallSource(r) ==
    /\ reqPc[r] = "route"
    /\ ~shouldQueryArchive(round[r])
    /\ Call(r, makeKey(round[r]))
    /\ ReqAt(r, "query")
    /\ UNCHANGED <<retainedVars, archiveHeight, block, round, clrRound, asked>>

SourceWorks(r) ==
    /\ SourceStep(r)
    /\ UNCHANGED <<retainedVars, archiveHeight, requestVars>>

Answered(r) == reqPc[r] = "query" /\ srcPc[r] = "answered"
NotFound(r) == reqPc[r] = "query" /\ srcPc[r] = "failed" /\ srcVal[r] = Missing

(* The answer, or the error, goes to the client. *)
Done(r) ==
    /\ reqPc[r] = "query"
    /\ srcPc[r] \in {"answered", "failed"}
    /\ Return(r)
    /\ Over(r)
    /\ UNCHANGED <<retainedVars, archiveHeight>>

RequestStep(r) ==
    \/ QueryBlockRound(r) \/ GetLastRetainedBlock(r) \/ QueryLastRetainedRound(r)
    \/ Earliest(r) \/ QueryArchive(r) \/ CallSource(r) \/ SourceWorks(r)
    \/ Done(r)

QueriesNext ==
    \/ NodeMoves \/ IndexPruned \/ BackendStarts \/ Restart
    \/ \E r \in Readers : Receive(r) \/ RequestStep(r)

QueriesSpec == QueriesInit /\ [][QueriesNext]_allVars

(* Where the requests are: every step of a request moves one of these. *)
requestPlaces == <<reqPc, srcPc, pc>>

(* The goroutine of a request keeps running. *)
RequestFair(r) == WF_requestPlaces(RequestStep(r))

-----------------------------------------------------------------------------
(* The types of the variables. *)
QueriesTypeOK ==
    /\ TypeOK /\ SourceTypeOK
    /\ archiveHeight \in {d.archive : d \in Deployments}
    /\ reqPc \in [Readers -> {"idle", "hash", "node", "retained", "route", "query"}]
    /\ block \in [Readers -> Blocks]
    /\ round \in [Readers -> 0..MaxRound + 1]
    /\ clrRound \in [Readers -> 0..MaxRound]
    /\ asked \in [Readers -> [latest : 0..MaxRound, cached : SUBSET Rounds]]

(* A request is answered with the state at the block it named, from        *)
(* whichever of archive, cache and node the answer comes: a number or hash *)
(* with that very round, "latest" with a round no older than the newest    *)
(* one when the request came, "earliest" with the round it resolved to,    *)
(* which the node still had when it was asked for its oldest one.          *)
AnswersNamedBlock ==
    \A r \in Readers : Answered(r) =>
        /\ block[r].by = "number" => srcVal[r] = block[r].n
        /\ block[r].by = "latest" => srcVal[r] \in asked[r].latest..latest
        /\ block[r].by = "earliest" => srcVal[r] = round[r] /\ srcVal[r] >= clrRound[r]

(* A request fails for want of the round only if the round is really gone: *)
(* one the archive has is not asked of the node, one in the pebble cache   *)
(* when the request came is served although the node has pruned it, across *)
(* restarts too, "latest" always exists, and "earliest" is missing only if *)
(* the node pruned it while the request ran.                               *)
MissingOnlyIfGone ==
    \A r \in Readers : NotFound(r) =>
        /\ ~(archiveHeight # 0 /\ round[r] <= archiveHeight)
        /\ NodeCache => asked[r].cached = {}
        /\ block[r].by # "latest"
        /\ block[r].by = "earliest" => clrRound[r] < retained

(* A request ends, with an answer or an error, as long as the index is not *)
(* pruned and the query of Start succeeds: no order of fetches, fills of   *)
(* the cache, failing calls and lost compare-and-swaps keeps it, and none  *)
(* of the other requests, nor Start, has to go on for it.                  *)
RequestEnds(r) ==
    [](dbTip = FirstTip /\ ~startErr) => (reqPc[r] # "idle" ~> reqPc[r] = "idle")
=============================================================================
