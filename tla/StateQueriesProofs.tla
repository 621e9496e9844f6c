------------------------- MODULE StateQueriesProofs ------------------------
(***************************************************************************)
(* The inductive invariant of StateQueries, and the theorems that follow   *)
(* from it.  What a request answers rests on three facts kept by every     *)
(* step of everyone: the pebble database maps a round to itself and never  *)
(* holds the latest one (DbExact), the cached tip of the index is never    *)
(* ahead of the database (RetainedInv), and a request carries the round    *)
(* that its block stands for until it ends (RoundInv, CallInv).            *)
(***************************************************************************)
EXTENDS StateQueries, TLAPS

RetainedInv ==
    /\ dbTip \in FirstTip..LastTip
    /\ lastRetainedRound \in Nat /\ startRead \in 0..dbTip
    /\ lastRetained \in [Readers -> Nat] /\ prevLastRetained \in [Readers -> Nat]
    /\ NeverAhead

(* The steps of LastRetainedCache, the end of a call included. *)
RetainedNext == Prune \/ StartQuery \/ StartStore \/ StartValid
                    \/ \E r \in Readers : Step(r) \/ ResetCall(r)

LEMMA RetainedInit == Init => RetainedInv
  BY TipAssumption DEF Init, RetainedInv, NeverAhead

LEMMA RetainedStep == RetainedInv /\ [RetainedNext]_retainedVars => RetainedInv'
<1> SUFFICES ASSUME RetainedInv, [RetainedNext]_retainedVars PROVE RetainedInv'
  OBVIOUS
<1> USE TipAssumption DEF RetainedInv, NeverAhead
<1>1. CASE Prune
  BY <1>1 DEF Prune, cacheVars, startVars, readVars
<1>2. CASE StartQuery
  BY <1>2 DEF StartQuery, cacheVars, readVars
<1>3. CASE StartStore
  BY <1>3 DEF StartStore, readVars
<1>4. CASE StartValid
  BY <1>4, Zenon DEF StartValid, readVars
<1>5. ASSUME NEW r \in Readers, Load(r) PROVE RetainedInv'
  BY <1>5, Zenon DEF Load, Goto, cacheVars, startVars
<1>6. ASSUME NEW r \in Readers, Check(r) PROVE RetainedInv'
  BY <1>6, Zenon DEF Check, Goto, cacheVars, startVars
<1>7. ASSUME NEW r \in Readers, Query(r) PROVE RetainedInv'
  BY <1>7 DEF Query, Goto, cacheVars, startVars
<1>8. ASSUME NEW r \in Readers, CompareAndSwap(r) PROVE RetainedInv'
  BY <1>8 DEF CompareAndSwap, Goto, startVars
<1>9. ASSUME NEW r \in Readers, MarkValid(r) PROVE RetainedInv'
  BY <1>9, Zenon DEF MarkValid, Goto, startVars
<1>10. ASSUME NEW r \in Readers, ResetCall(r) PROVE RetainedInv'
  BY <1>10 DEF ResetCall
<1>11. CASE UNCHANGED retainedVars
  BY <1>11, Zenon DEF retainedVars, vars
<1>12. QED
  BY <1>1, <1>2, <1>3, <1>4, <1>5, <1>6, <1>7, <1>8, <1>9, <1>10, <1>11, Zenon
     DEF RetainedNext, Step

-----------------------------------------------------------------------------
ReqLabels == {"idle", "hash", "node", "retained", "route", "query"}
SrcLabels == {"off", "get", "fetch", "set", "answered", "failed"}

RequestTypes ==
    /\ reqPc \in [Readers -> ReqLabels] /\ block \in [Readers -> Blocks]
    /\ round \in [Readers -> 0..RoundLatest] /\ clrRound \in [Readers -> Nat]
    /\ asked \in [Readers -> [latest : 0..MaxRound, cached : SUBSET Rounds]]

CallTypes ==
    /\ srcPc \in [Readers -> SrcLabels]
    /\ srcKey \in [Readers -> Keys] /\ srcVal \in [Readers -> Int]

Typed ==
    /\ latest \in Rounds /\ retained \in 1..latest
    /\ archiveHeight \in 0..MaxRound
    /\ RequestTypes /\ CallTypes

DbExact == \A k \in DOMAIN db : k \in 1..latest /\ db[k] = k

(* The round of a request stands for its block. *)
RoundInv(r) ==
    /\ asked[r].latest <= latest
    /\ asked[r].cached \subseteq {block[r].n} \cap DOMAIN db
    /\ reqPc[r] = "hash" => block[r].by = "hash"
    /\ reqPc[r] = "node" => block[r].by = "earliest"
    /\ reqPc[r] = "retained" => block[r].by = "earliest" /\ clrRound[r] \in 1..retained
    /\ reqPc[r] \in {"route", "query"} =>
          \/ block[r].by = "number" /\ round[r] = block[r].n
          \/ block[r].by = "latest" /\ round[r] = RoundLatest
          \/ block[r].by = "earliest" /\ round[r] \in 1..latest /\ clrRound[r] <= round[r]

(* Where a call of the source is, for the request that makes it. *)
CallInv(r) ==
    /\ srcPc[r] # "off" => reqPc[r] = "query"
    /\ srcPc[r] \in {"get", "fetch", "set"} =>
          srcKey[r] = round[r] /\ ~shouldQueryArchive(round[r])
    /\ srcPc[r] \in {"get", "set"} => round[r] # RoundLatest
    /\ srcPc[r] = "fetch" => (NodeCache => asked[r].cached = {})
    /\ srcPc[r] = "set" => srcVal[r] = round[r] /\ round[r] \in 1..latest
    /\ srcPc[r] = "answered" =>
          IF round[r] = RoundLatest THEN srcVal[r] \in asked[r].latest..latest
                                    ELSE srcVal[r] = round[r]
    /\ srcPc[r] = "failed" /\ srcVal[r] = Missing =>
          /\ ~shouldQueryArchive(round[r])
          /\ NodeCache => asked[r].cached = {}
          /\ round[r] # RoundLatest
          /\ block[r].by = "earliest" => clrRound[r] < retained

QueriesInv ==
    /\ RetainedInv /\ dbTip <= latest
    /\ Typed /\ DbExact
    /\ \A r \in Readers : RoundInv(r) /\ CallInv(r)

LEMMA QueriesInitInv == QueriesInit => QueriesInv
<1> SUFFICES ASSUME QueriesInit PROVE QueriesInv
  OBVIOUS
<1>1. RetainedInv
  BY RetainedInit, Zenon DEF QueriesInit
<1>2. Typed
  <2> USE QueriesAssumption, NodeAssumption
  <2>1. /\ latest \in Rounds /\ retained \in 1..latest
        /\ archiveHeight \in 0..MaxRound
    BY Zenon DEF QueriesInit, SourceInit
  <2>2. /\ reqPc \in [Readers -> ReqLabels] /\ srcPc \in [Readers -> SrcLabels]
        /\ srcVal \in [Readers -> Int] /\ clrRound \in [Readers -> Nat]
    BY DEF QueriesInit, SourceInit, ReqLabels, SrcLabels
  <2>6. srcKey \in [Readers -> Keys]
    <3>1. NoKey \in Keys
      BY Zenon DEF Keys
    <3>2. QED
      BY <3>1, Zenon DEF QueriesInit, SourceInit
  <2>7. round \in [Readers -> 0..RoundLatest]
    BY DEF QueriesInit, RoundLatest
  <2>3. block \in [Readers -> Blocks]
    BY Zenon DEF QueriesInit, Blocks, NoBlock
  <2>4. asked \in [Readers -> [latest : 0..MaxRound, cached : SUBSET Rounds]]
    BY DEF QueriesInit, NotAsked
  <2>5. QED
    BY <2>1, <2>2, <2>3, <2>4, <2>6, <2>7, Zenon DEF Typed, RequestTypes, CallTypes
<1>3. DbExact
  BY Zenon DEF QueriesInit, SourceInit, DbExact
<1>4. ASSUME NEW r \in Readers PROVE RoundInv(r) /\ CallInv(r)
  BY QueriesAssumption, NodeAssumption
     DEF QueriesInit, SourceInit, Rounds, RoundInv, CallInv, NoBlock, NotAsked
<1>5. QED
  BY <1>1, <1>2, <1>3, <1>4, Zenon DEF QueriesInit, QueriesInv

(* Whoever takes it, a step is one of LastRetainedCache, or a restart. *)
LEMMA StepRetains == RetainedInv /\ [QueriesNext]_allVars => RetainedInv'
<1> SUFFICES ASSUME RetainedInv, [QueriesNext]_allVars PROVE RetainedInv'
  OBVIOUS
<1>1. CASE NodeMoves
  BY <1>1, RetainedStep, Zenon DEF NodeMoves
<1>2. CASE IndexPruned
  BY <1>2, RetainedStep, Zenon DEF IndexPruned, RetainedNext
<1>3. CASE BackendStarts
  BY <1>3, RetainedStep, Zenon DEF BackendStarts, RetainedNext
<1>4. CASE Restart
  BY <1>4, TipAssumption DEF Restart, RetainedInv, NeverAhead
<1>5. ASSUME NEW r \in Readers, Receive(r) \/ RequestStep(r) PROVE [RetainedNext]_retainedVars
  BY <1>5, Zenon DEF Receive, RequestStep, QueryBlockRound, GetLastRetainedBlock,
              QueryLastRetainedRound, Earliest, QueryArchive, CallSource, SourceWorks,
              Done, RetainedNext, ReceiveBlock
<1>6. UNCHANGED allVars => UNCHANGED retainedVars
  BY Zenon DEF allVars
<1>7. QED
  BY <1>1, <1>2, <1>3, <1>4, <1>5, <1>6, RetainedStep, Zenon DEF QueriesNext

-----------------------------------------------------------------------------
(* The surroundings only move forward, so they leave what is known of a    *)
(* request intact, and so does a step of another request.                  *)
Forward ==
    /\ latest \in Nat /\ latest' \in Nat /\ retained \in Nat /\ retained' \in Nat
    /\ latest <= latest' /\ retained <= retained'
    /\ DOMAIN db \subseteq DOMAIN db'
    /\ archiveHeight' = archiveHeight

SameRequest(q) ==
    /\ reqPc'[q] = reqPc[q] /\ block'[q] = block[q] /\ round'[q] = round[q]
    /\ clrRound'[q] = clrRound[q] /\ asked'[q] = asked[q]

SameCall(q) == srcPc'[q] = srcPc[q] /\ srcKey'[q] = srcKey[q] /\ srcVal'[q] = srcVal[q]

OnlyRequest(r) == \A q \in Readers \ {r} : SameRequest(q)
OnlyCall(r) == \A q \in Readers \ {r} : SameCall(q)

LEMMA NodeRests ==
    ASSUME Typed, UNCHANGED <<latest, retained, archiveHeight>>, DOMAIN db \subseteq DOMAIN db'
    PROVE  Forward
<1>1. latest \in Nat /\ retained \in Nat
  BY NodeAssumption DEF Typed, Rounds
<1>2. QED
  BY <1>1 DEF Forward

LEMMA RoundFrame ==
    ASSUME Typed, Forward, NEW q \in Readers, RoundInv(q), SameRequest(q)
    PROVE  RoundInv(q)'
<1>1. asked[q].latest \in Nat /\ clrRound[q] \in Nat /\ round[q] \in Int
  BY NodeAssumption DEF Typed, RequestTypes, RoundLatest
<1>2. QED
  BY <1>1 DEF RoundInv, Forward, SameRequest

LEMMA CallFrame ==
    ASSUME Typed, Forward, NEW q \in Readers, CallInv(q), SameRequest(q), SameCall(q)
    PROVE  CallInv(q)'
<1>1. asked[q].latest \in Nat /\ clrRound[q] \in Nat /\ round[q] \in Int
  BY NodeAssumption DEF Typed, RequestTypes, RoundLatest
<1>2. QED
  BY <1>1 DEF CallInv, Forward, SameRequest, SameCall, shouldQueryArchive

(* What is left to show of a step, RetainedInv being kept by StepRetains. *)
RestInv ==
    /\ dbTip <= latest /\ Typed /\ DbExact
    /\ \A r \in Readers : RoundInv(r) /\ CallInv(r)

(* A step in which only request r moves needs a look at r alone. *)
Kept(r) ==
    /\ UNCHANGED <<latest, retained, archiveHeight, dbTip>>
    /\ DbExact' /\ DOMAIN db \subseteq DOMAIN db'
    /\ RequestTypes' /\ CallTypes' /\ OnlyRequest(r) /\ OnlyCall(r)
    /\ RoundInv(r)' /\ CallInv(r)'

LEMMA OneRequest == ASSUME QueriesInv, NEW r \in Readers, Kept(r) PROVE RestInv'
<1>1. Typed /\ dbTip <= latest /\ \A q \in Readers : RoundInv(q) /\ CallInv(q)
  BY Zenon DEF QueriesInv
<1>2. Forward
  BY <1>1, NodeRests, Zenon DEF Kept
<1>3. Typed' /\ dbTip' <= latest'
  BY <1>1, Zenon DEF Kept, Typed
<1>4. ASSUME NEW q \in Readers PROVE RoundInv(q)' /\ CallInv(q)'
  <2>1. CASE q = r
    BY <2>1, Zenon DEF Kept
  <2>2. CASE q # r
    <3>1. SameRequest(q) /\ SameCall(q)
      BY <2>2, Zenon DEF Kept, OnlyRequest, OnlyCall
    <3>2. QED
      BY <3>1, <1>1, <1>2, RoundFrame, CallFrame, Zenon
  <2>3. QED
    BY <2>1, <2>2, Zenon
<1>5. DbExact'
  BY Zenon DEF Kept
<1>6. QED
  BY <1>3, <1>4, <1>5, Zenon DEF RestInv

(* The end of a request. *)
LEMMA OverInv ==
    ASSUME Typed, NEW r \in Readers, Over(r), srcPc'[r] = "off", latest' = latest
    PROVE  RoundInv(r)' /\ CallInv(r)' /\ RequestTypes' /\ OnlyRequest(r)
<1>1. NoBlock \in Blocks /\ 0 \in 0..RoundLatest
      /\ NotAsked \in [latest : 0..MaxRound, cached : SUBSET Rounds]
  BY NodeAssumption DEF NoBlock, Blocks, RoundLatest, NotAsked
<1>2. RequestTypes'
  BY <1>1, Zenon DEF Over, ReqAt, RoundIs, Typed, RequestTypes, ReqLabels
<1>3. reqPc'[r] = "idle" /\ asked'[r] = NotAsked /\ OnlyRequest(r)
  BY Zenon DEF Over, ReqAt, RoundIs, Typed, RequestTypes, OnlyRequest, SameRequest
<1>4. latest' \in Nat
  BY NodeAssumption DEF Typed, Rounds
<1>5. RoundInv(r)' /\ CallInv(r)'
  BY <1>3, <1>4 DEF RoundInv, CallInv, NotAsked
<1>6. QED
  BY <1>2, <1>3, <1>5, Zenon

LEMMA SurroundingsStep ==
    ASSUME QueriesInv, NodeMoves \/ IndexPruned \/ BackendStarts \/ UNCHANGED allVars
    PROVE  RestInv'
<1>1. /\ UNCHANGED <<archiveHeight, requestVars>> /\ UNCHANGED <<db, srcPc, srcKey, srcVal>>
      /\ latest' \in Rounds /\ retained' \in 1..latest'
      /\ latest <= latest' /\ retained <= retained'
  BY NodeAssumption
     DEF QueriesInv, Typed, Rounds, NodeMoves, NodeProduces, NodePrunes, IndexPruned,
         BackendStarts, sourceVars, requestVars, allVars
<1>2. dbTip' <= latest'
  BY <1>1, TipAssumption
     DEF QueriesInv, RetainedInv, Typed, Rounds, NodeMoves, IndexPruned, BackendStarts, Prune,
         StartQuery, StartStore, StartValid, retainedVars, vars, sourceVars, allVars
<1>3. Typed' /\ DbExact'
  BY <1>1 DEF QueriesInv, Typed, RequestTypes, CallTypes, DbExact, requestVars, Rounds
<1>4. Forward
  BY <1>1 DEF Forward, QueriesInv, Typed, Rounds
<1>5. ASSUME NEW q \in Readers PROVE SameRequest(q) /\ SameCall(q)
  BY <1>1, Zenon DEF SameRequest, SameCall, requestVars
<1>6. QED
  BY <1>2, <1>3, <1>4, <1>5, RoundFrame, CallFrame, Zenon DEF RestInv, QueriesInv

LEMMA RestartStep == ASSUME QueriesInv, Restart PROVE RestInv'
<1>1. /\ NoBlock \in Blocks /\ NoKey \in Keys /\ 0 \in 0..RoundLatest
      /\ NotAsked \in [latest : 0..MaxRound, cached : SUBSET Rounds]
  BY NodeAssumption DEF NoBlock, Blocks, RoundLatest, NotAsked, Keys
<1>2. Typed'
  BY <1>1, QueriesAssumption
     DEF QueriesInv, Typed, RequestTypes, CallTypes, Restart, SourceRestart, ReqLabels, SrcLabels
<1>3. dbTip' <= latest' /\ DbExact'
  BY Zenon DEF QueriesInv, Restart, SourceRestart, DbExact
<1>4. ASSUME NEW r \in Readers PROVE RoundInv(r)' /\ CallInv(r)'
  BY <1>2, QueriesAssumption, NodeAssumption
     DEF Restart, SourceRestart, RoundInv, CallInv, NotAsked, Typed, Rounds
<1>5. QED
  BY <1>2, <1>3, <1>4, Zenon DEF RestInv

(* Steps that leave the source alone. *)
LEMMA ResolveStep ==
    ASSUME RetainedInv, dbTip <= latest, Typed, DbExact,
           NEW r \in Readers, RoundInv(r), CallInv(r),
           \/ Receive(r) \/ QueryBlockRound(r) \/ GetLastRetainedBlock(r)
           \/ QueryLastRetainedRound(r) \/ Earliest(r)
    PROVE  Kept(r)
<1>1. UNCHANGED sourceVars /\ archiveHeight' = archiveHeight /\ dbTip' = dbTip
  BY Zenon DEF Receive, ReceiveBlock, QueryBlockRound, GetLastRetainedBlock, QueryLastRetainedRound, Earliest,
         ResetCall, retainedVars, vars, Step, Load, Check, Query, CompareAndSwap, MarkValid
<1>2. UNCHANGED <<latest, retained, db, srcPc, srcKey, srcVal>>
  BY <1>1, Zenon DEF sourceVars
<1>3. /\ DbExact' /\ CallTypes' /\ OnlyCall(r) /\ DOMAIN db \subseteq DOMAIN db'
  BY <1>2, Zenon DEF DbExact, Typed, CallTypes, OnlyCall, SameCall
<1>4. /\ latest \in Nat /\ retained \in Nat /\ latest \in 1..MaxRound /\ retained \in 1..latest
      /\ MaxRound \in Nat /\ RoundLatest = MaxRound + 1
  BY NodeAssumption DEF Typed, Rounds, RoundLatest
<1>5. SUFFICES RequestTypes' /\ OnlyRequest(r) /\ RoundInv(r)' /\ CallInv(r)'
  BY <1>1, <1>2, <1>3, Zenon DEF Kept
<1>6. reqPc[r] # "query" => srcPc'[r] = "off"
  BY <1>2, Zenon DEF CallInv
<1>7. ASSUME reqPc[r] # "query" PROVE CallInv(r)'
  BY <1>6, <1>7, Zenon DEF CallInv
<1>8. ASSUME reqPc[r] # "query", Over(r)
      PROVE  RequestTypes' /\ OnlyRequest(r) /\ RoundInv(r)' /\ CallInv(r)'
  BY <1>8, <1>6, <1>2, OverInv, Zenon
<1>9. CASE Receive(r)
  <2>1. PICK b \in Blocks : ReceiveBlock(r, b)
    BY <1>9, Zenon DEF Receive
  <2> DEFINE a == [latest |-> IF b.by = "latest" THEN latest ELSE 0,
                   cached |-> {makeKey(b.n)} \cap DOMAIN db]
  <2>2. /\ reqPc[r] = "idle"
        /\ block' = [block EXCEPT ![r] = b] /\ asked' = [asked EXCEPT ![r] = a]
        /\ clrRound' = clrRound
        /\ \/ b.by = "number" /\ ReqAt(r, "route") /\ RoundIs(r, b.n)
           \/ b.by = "latest" /\ ReqAt(r, "route") /\ RoundIs(r, RoundLatest)
           \/ b.by = "hash" /\ ReqAt(r, "hash") /\ UNCHANGED round
           \/ b.by = "earliest" /\ ReqAt(r, "node") /\ UNCHANGED round
    BY <2>1, Zenon DEF ReceiveBlock
  <2>3. a \in [latest : 0..MaxRound, cached : SUBSET Rounds]
    <3>1. (IF b.by = "latest" THEN latest ELSE 0) \in 0..MaxRound
      BY <1>4
    <3>2. DOMAIN db \subseteq Rounds
      BY <1>4 DEF Rounds, DbExact
    <3>3. QED
      BY <3>1, <3>2, Zenon
  <2>4. b.n \in 0..RoundLatest /\ RoundLatest \in 0..RoundLatest
    BY <1>4 DEF Blocks, Rounds, NoKey
  <2>5. a.latest <= latest /\ a.cached \subseteq {b.n} \cap DOMAIN db
    BY <1>4 DEF makeKey
  <2> HIDE DEF a
  <2>6. RequestTypes'
    BY <2>2, <2>3, <2>4 DEF ReqAt, RoundIs, Typed, RequestTypes, ReqLabels
  <2>7. OnlyRequest(r)
    BY <2>2, Zenon DEF ReqAt, RoundIs, Typed, RequestTypes, OnlyRequest, SameRequest
  <2>8. /\ block'[r] = b /\ asked'[r] = a
        /\ \/ b.by = "number" /\ reqPc'[r] = "route" /\ round'[r] = b.n
           \/ b.by = "latest" /\ reqPc'[r] = "route" /\ round'[r] = RoundLatest
           \/ b.by = "hash" /\ reqPc'[r] = "hash"
           \/ b.by = "earliest" /\ reqPc'[r] = "node"
    BY <2>2, Zenon DEF ReqAt, RoundIs, Typed, RequestTypes
  <2>9. RoundInv(r)'
    BY <2>8, <2>5, <1>2, Zenon DEF RoundInv
  <2>10. QED
    BY <2>2, <2>6, <2>7, <2>9, <1>7, Zenon
<1>10. CASE QueryBlockRound(r)
  <2>1. reqPc[r] = "hash" /\ block[r].by = "hash" /\ block[r].n \in Rounds /\ block[r] \in Blocks
    BY <1>10, Zenon DEF QueryBlockRound, RoundInv, Typed, RequestTypes, Blocks
  <2>2. CASE /\ ReqAt(r, "route") /\ RoundIs(r, block[r].n)
             /\ block' = [block EXCEPT ![r].by = "number"]
             /\ UNCHANGED <<clrRound, asked>>
    <3> DEFINE b == [block[r] EXCEPT !.by = "number"]
    <3>1. b \in Blocks /\ b.by = "number" /\ b.n = block[r].n
      BY <2>1, Zenon DEF Blocks
    <3>2. block' = [block EXCEPT ![r] = b] /\ block[r].n \in 0..RoundLatest
      BY <2>1, <2>2, <1>4 DEF Rounds
    <3> HIDE DEF b
    <3>3. RequestTypes'
      BY <2>2, <3>1, <3>2 DEF ReqAt, RoundIs, Typed, RequestTypes, ReqLabels
    <3>4. OnlyRequest(r)
      BY <2>2, <3>2, Zenon DEF ReqAt, RoundIs, Typed, RequestTypes, OnlyRequest, SameRequest
    <3>5. /\ block'[r] = b /\ asked'[r] = asked[r]
          /\ reqPc'[r] = "route" /\ round'[r] = block[r].n
      BY <2>2, <3>2, Zenon DEF ReqAt, RoundIs, Typed, RequestTypes
    <3>6. RoundInv(r)'
      BY <3>5, <3>1, <1>2, Zenon DEF RoundInv
    <3>7. QED
      BY <3>3, <3>4, <3>6, <2>1, <1>7, Zenon
  <2>3. QED
    BY <1>10, <2>1, <2>2, <1>8, Zenon DEF QueryBlockRound
<1>11. CASE GetLastRetainedBlock(r)
  <2>1. reqPc[r] = "node" /\ block[r].by = "earliest"
    BY <1>11, Zenon DEF GetLastRetainedBlock, RoundInv
  <2>2. CASE /\ clrRound' = [clrRound EXCEPT ![r] = retained]
             /\ ReqAt(r, "retained") /\ UNCHANGED <<block, round, asked>>
    <3>1. RequestTypes'
      BY <2>2, <1>4, Zenon DEF ReqAt, Typed, RequestTypes, ReqLabels
    <3>2. OnlyRequest(r)
      BY <2>2, Zenon DEF ReqAt, Typed, RequestTypes, OnlyRequest, SameRequest
    <3>3. reqPc'[r] = "retained" /\ clrRound'[r] = retained /\ UNCHANGED <<block, asked>>
      BY <2>2, Zenon DEF ReqAt, Typed, RequestTypes
    <3>4. RoundInv(r)'
      BY <3>3, <2>1, <1>2, <1>4 DEF RoundInv
    <3>5. QED
      BY <3>1, <3>2, <3>4, <2>1, <1>7, Zenon
  <2>3. QED
    BY <1>11, <2>1, <2>2, <1>8 DEF GetLastRetainedBlock
<1>12. CASE QueryLastRetainedRound(r)
  <2>1. reqPc[r] = "retained" /\ UNCHANGED requestVars
    BY <1>12, Zenon DEF QueryLastRetainedRound
  <2>2. RequestTypes' /\ OnlyRequest(r) /\ SameRequest(r)
    BY <2>1, Zenon DEF requestVars, Typed, RequestTypes, OnlyRequest, SameRequest
  <2>3. RoundInv(r)'
    BY <2>2, <1>1, <1>2, <1>3, NodeRests, RoundFrame, Zenon
  <2>4. QED
    BY <2>1, <2>2, <2>3, <1>7, Zenon
<1>13. CASE Earliest(r)
  <2> DEFINE n == EarliestRound(clrRound[r], lastRetained[r])
  <2>1. /\ reqPc[r] = "retained" /\ block[r].by = "earliest"
        /\ clrRound[r] \in 1..retained /\ clrRound[r] \in Nat
    BY <1>13, Zenon DEF Earliest, RoundInv, Typed, RequestTypes
  <2>2. CASE /\ RoundIs(r, n) /\ ReqAt(r, "route") /\ UNCHANGED <<block, clrRound, asked>>
             /\ pc[r] = "returned"
    <3>1. lastRetained[r] \in Nat /\ lastRetained[r] <= dbTip /\ dbTip \in Nat
      BY <2>2, TipAssumption DEF RetainedInv, NeverAhead
    <3>2. n \in 1..latest /\ clrRound[r] <= n /\ n \in 0..RoundLatest
      BY <3>1, <2>1, <1>4 DEF EarliestRound
    <3> HIDE DEF n
    <3>3. RequestTypes'
      BY <2>2, <3>2, Zenon DEF ReqAt, RoundIs, Typed, RequestTypes, ReqLabels
    <3>4. OnlyRequest(r)
      BY <2>2, Zenon DEF ReqAt, RoundIs, Typed, RequestTypes, OnlyRequest, SameRequest
    <3>5. reqPc'[r] = "route" /\ round'[r] = n /\ UNCHANGED <<block, clrRound, asked>>
      BY <2>2, Zenon DEF ReqAt, RoundIs, Typed, RequestTypes
    <3>6. RoundInv(r)'
      BY <3>5, <3>2, <2>1, <1>2, Zenon DEF RoundInv
    <3>7. QED
      BY <3>3, <3>4, <3>6, <2>1, <1>7, Zenon
  <2>3. QED
    BY <1>13, <2>1, <2>2, <1>8, Zenon DEF Earliest
<1>14. QED
  BY <1>9, <1>10, <1>11, <1>12, <1>13, Zenon
-----------------------------------------------------------------------------
(* The steps that ask the archive or the source, and the theorems.         *)

(* A step of a call ends at label with val, and no other call moves. *)
MovedTo(r, label, val) ==
    /\ srcPc' \in [Readers -> SrcLabels] /\ srcVal' \in [Readers -> Int]
    /\ \A q \in Readers \ {r} : SameCall(q)
    /\ srcPc'[r] = label /\ srcVal'[r] = val

LEMMA CallMoves ==
    ASSUME Typed, NEW r \in Readers, srcKey' = srcKey,
           NEW label \in SrcLabels, NEW val \in Int, At(r, label, val)
    PROVE  MovedTo(r, label, val)
  BY Zenon DEF MovedTo, At, Typed, CallTypes, SameCall

(* The two ends of a call that need no further look at where it was. *)
LEMMA AnsweredInv ==
    ASSUME NEW r \in Readers, SameRequest(r), latest' = latest, reqPc[r] = "query",
           srcPc'[r] = "answered",
           IF round[r] = RoundLatest THEN srcVal'[r] \in asked[r].latest..latest
                                     ELSE srcVal'[r] = round[r]
    PROVE  CallInv(r)'
  BY Zenon DEF CallInv, SameRequest

LEMMA DownInv ==
    ASSUME NEW r \in Readers, SameRequest(r), reqPc[r] = "query",
           srcPc'[r] = "failed", srcVal'[r] = Down
    PROVE  CallInv(r)'
  BY DEF CallInv, SameRequest, Down, Missing

(* A step of the call that request r makes. *)
LEMMA SourceKeeps ==
    ASSUME Typed, DbExact, NEW r \in Readers, RoundInv(r), CallInv(r),
           SourceStep(r), SameRequest(r), archiveHeight' = archiveHeight
    PROVE  /\ CallInv(r)' /\ \E label, val : MovedTo(r, label, val)
           /\ DbExact' /\ DOMAIN db \subseteq DOMAIN db'
<1>1. UNCHANGED <<latest, retained>> /\ srcKey' = srcKey
  BY Zenon DEF SourceStep, Get, Fetch, Set
<1>2. /\ reqPc[r] = "query" /\ srcKey[r] = round[r] /\ ~shouldQueryArchive(round[r])
  BY Zenon DEF SourceStep, Get, Fetch, Set, CallInv
<1>3. /\ latest \in Nat /\ retained \in Nat /\ asked[r].latest \in Nat
      /\ round[r] \in Int /\ RoundLatest \in Int /\ clrRound[r] \in Nat /\ latest < RoundLatest
  BY NodeAssumption DEF Typed, RequestTypes, Rounds, RoundLatest
<1>4. CASE Get(r)
  <2>1. srcPc[r] = "get" /\ round[r] # RoundLatest
    BY <1>4, Zenon DEF Get, CallInv
  <2>2. DbExact' /\ DOMAIN db \subseteq DOMAIN db'
    BY <1>4, <1>1, Zenon DEF Get, DbExact
  <2>3. CASE srcKey[r] \in DOMAIN db /\ At(r, "answered", db[srcKey[r]])
    <3>1. db[srcKey[r]] = round[r]
      BY <2>3, <1>2, Zenon DEF DbExact
    <3>2. MovedTo(r, "answered", round[r])
      <4>1. At(r, "answered", round[r]) /\ "answered" \in SrcLabels
        BY <2>3, <3>1, Zenon DEF SrcLabels
      <4>2. QED
        BY <4>1, <1>1, <1>3, CallMoves, Zenon
    <3>3. CallInv(r)'
      <4>1. srcPc'[r] = "answered" /\ srcVal'[r] = round[r]
        BY <3>2, Zenon DEF MovedTo
      <4>2. QED
        BY <4>1, <2>1, <1>1, <1>2, AnsweredInv, Zenon
    <3>4. QED
      BY <3>2, <3>3, <2>2, Zenon
  <2>4. CASE srcKey[r] \notin DOMAIN db /\ At(r, "fetch", 0)
    <3>1. MovedTo(r, "fetch", 0)
      <4>1. "fetch" \in SrcLabels
        BY Zenon DEF SrcLabels
      <4>2. QED
        BY <4>1, <2>4, <1>1, CallMoves
    <3>2. asked[r].cached = {}
      <4>1. block[r].n = round[r] \/ block[r].n = NoKey
        BY <2>1, <1>2, Zenon DEF RoundInv, Typed, RequestTypes, Blocks
      <4>2. NoKey \notin DOMAIN db
        BY <1>3 DEF DbExact, NoKey
      <4>3. QED
        BY <4>1, <4>2, <2>4, <1>2, Zenon DEF RoundInv
    <3>3. CallInv(r)'
      <4>1. srcPc'[r] = "fetch" /\ srcKey'[r] = round[r]
        BY <3>1, <1>1, <1>2, Zenon DEF MovedTo
      <4>2. QED
        BY <4>1, <3>2, <1>2, Zenon DEF CallInv, SameRequest, shouldQueryArchive
    <3>4. QED
      BY <3>1, <3>3, <2>2, Zenon
  <2>5. CASE At(r, "failed", Down)
    <3>1. MovedTo(r, "failed", Down)
      <4>1. "failed" \in SrcLabels /\ Down \in Int
        BY DEF SrcLabels, Down
      <4>2. QED
        BY <4>1, <2>5, <1>1, CallMoves, Zenon
    <3>2. CallInv(r)'
      BY <3>1, <1>2, DownInv, Zenon DEF MovedTo
    <3>3. QED
      BY <3>1, <3>2, <2>2, Zenon
  <2>6. QED
    BY <1>4, <2>3, <2>4, <2>5, Zenon DEF Get
<1>5. CASE Fetch(r)
  <2> DEFINE answer == NodeAnswer(srcKey[r])
  <2>1. /\ NodeCache => asked[r].cached = {}
        /\ answer \in Int
        /\ answer # Missing =>
              IF round[r] = RoundLatest THEN answer = latest
                                        ELSE answer = round[r] /\ round[r] \in retained..latest
        /\ answer = Missing => round[r] # RoundLatest /\ round[r] \notin retained..latest
    <3>1. NodeCache => asked[r].cached = {}
      BY <1>5, Zenon DEF Fetch, CallInv
    <3>2. Missing \in Int /\ Missing < 0
      BY DEF Missing
    <3>3. CASE round[r] = RoundLatest
      <4>1. answer = latest
        BY <3>3, <1>2, <1>3 DEF NodeAnswer
      <4>2. QED
        BY <4>1, <3>1, <3>2, <3>3, <1>3
    <3>4. CASE round[r] # RoundLatest /\ round[r] \in retained..latest
      <4>1. answer = round[r]
        BY <3>4, <1>2, Zenon DEF NodeAnswer
      <4>2. QED
        BY <4>1, <3>1, <3>2, <3>4, <1>3
    <3>5. CASE round[r] # RoundLatest /\ round[r] \notin retained..latest
      <4>1. answer = Missing
        BY <3>5, <1>2, Zenon DEF NodeAnswer
      <4>2. QED
        BY <4>1, <3>1, <3>2, <3>5, Zenon
    <3>6. QED
      BY <3>3, <3>4, <3>5, Zenon
  <2>2. DbExact' /\ DOMAIN db \subseteq DOMAIN db'
    BY <1>5, <1>1, Zenon DEF Fetch, DbExact
  <2>3. \/ answer = Missing /\ At(r, "failed", Missing)
        \/ /\ answer # Missing
           /\ At(r, IF UsesCache(srcKey[r]) THEN "set" ELSE "answered", answer)
        \/ At(r, "failed", Down)
    BY <1>5, Zenon DEF Fetch
  <2> HIDE DEF answer
  <2>4. CASE answer = Missing /\ At(r, "failed", Missing)
    <3>1. MovedTo(r, "failed", Missing)
      <4>1. "failed" \in SrcLabels /\ Missing \in Int
        BY DEF SrcLabels, Missing
      <4>2. QED
        BY <4>1, <2>4, <1>1, CallMoves, Zenon
    <3>2. block[r].by = "earliest" => clrRound[r] < retained
      <4>1. block[r].by = "earliest" => round[r] \in 1..latest /\ clrRound[r] <= round[r]
        BY <1>2, Zenon DEF RoundInv
      <4>2. QED
        BY <4>1, <2>1, <2>4, <1>3
    <3>3. CallInv(r)'
      <4>1. srcPc'[r] = "failed"
        BY <3>1, Zenon DEF MovedTo
      <4>2. QED
        BY <4>1, <3>2, <2>1, <2>4, <1>1, <1>2, Zenon DEF CallInv, SameRequest, shouldQueryArchive
    <3>4. QED
      BY <3>1, <3>3, <2>2
  <2>5. CASE answer # Missing /\ UsesCache(srcKey[r]) /\ At(r, "set", answer)
    <3>1. round[r] # RoundLatest /\ answer = round[r] /\ round[r] \in 1..latest
      BY <2>5, <2>1, <1>2, <1>3 DEF UsesCache, Volatile, Typed
    <3>2. MovedTo(r, "set", answer)
      <4>1. "set" \in SrcLabels
        BY Zenon DEF SrcLabels
      <4>2. QED
        BY <4>1, <2>5, <2>1, <1>1, CallMoves, Zenon
    <3>3. CallInv(r)'
      <4>1. srcPc'[r] = "set" /\ srcVal'[r] = round[r] /\ srcKey'[r] = round[r]
        BY <3>1, <3>2, <1>1, <1>2, Zenon DEF MovedTo
      <4>2. QED
        BY <4>1, <3>1, <1>1, <1>2, Zenon DEF CallInv, SameRequest, shouldQueryArchive
    <3>4. QED
      BY <3>2, <3>3, <2>2, Zenon
  <2>6. CASE answer # Missing /\ At(r, "answered", answer)
    <3>1. MovedTo(r, "answered", answer)
      <4>1. "answered" \in SrcLabels
        BY Zenon DEF SrcLabels
      <4>2. QED
        BY <4>1, <2>6, <2>1, <1>1, CallMoves, Zenon
    <3>2. asked[r].latest <= latest
      BY Zenon DEF RoundInv
    <3>3. IF round[r] = RoundLatest THEN answer \in asked[r].latest..latest
                                    ELSE answer = round[r]
      BY <3>2, <2>6, <2>1, <1>3
    <3>4. CallInv(r)'
      <4>1. srcPc'[r] = "answered" /\ srcVal'[r] = answer
        BY <3>1, Zenon DEF MovedTo
      <4>2. QED
        BY <4>1, <3>3, <1>1, <1>2, AnsweredInv, Zenon
    <3>5. QED
      BY <3>1, <3>4, <2>2, Zenon
  <2>7. CASE At(r, "failed", Down)
    <3>1. MovedTo(r, "failed", Down)
      <4>1. "failed" \in SrcLabels /\ Down \in Int
        BY DEF SrcLabels, Down
      <4>2. QED
        BY <4>1, <2>7, <1>1, CallMoves
    <3>2. CallInv(r)'
      BY <3>1, <1>2, DownInv DEF MovedTo
    <3>3. QED
      BY <3>1, <3>2, <2>2
  <2>8. QED
    BY <2>3, <2>4, <2>5, <2>6, <2>7, Zenon
<1>6. CASE Set(r)
  <2>1. srcPc[r] = "set" /\ srcVal[r] = round[r] /\ round[r] \in 1..latest /\ round[r] # RoundLatest
    BY <1>6, Zenon DEF Set, CallInv
  <2>2. DbExact' /\ DOMAIN db \subseteq DOMAIN db'
    BY <1>6, <2>1, <1>1, <1>2 DEF Set, DbExact
  <2>3. MovedTo(r, "answered", round[r])
    <3>1. At(r, "answered", round[r]) /\ "answered" \in SrcLabels
      BY <1>6, <2>1, Zenon DEF Set, SrcLabels
    <3>2. QED
      BY <3>1, <1>1, <1>3, CallMoves
  <2>4. CallInv(r)'
    <3>1. srcPc'[r] = "answered" /\ srcVal'[r] = round[r]
      BY <2>3 DEF MovedTo
    <3>2. QED
      BY <3>1, <2>1, <1>1, <1>2, AnsweredInv, Zenon
  <2>5. QED
    BY <2>2, <2>3, <2>4, Zenon
<1>7. QED
  BY <1>4, <1>5, <1>6, Zenon DEF SourceStep

(* Steps of the query itself: all but Set leave the database alone. *)
LEMMA QueryStep ==
    ASSUME Typed, DbExact, NEW r \in Readers, RoundInv(r), CallInv(r),
           QueryArchive(r) \/ CallSource(r) \/ SourceWorks(r) \/ Done(r)
    PROVE  Kept(r)
<1>1. UNCHANGED <<latest, retained, archiveHeight, dbTip>>
  BY Zenon DEF QueryArchive, CallSource, SourceWorks, Done, Call, SourceStep, Get, Fetch, Set,
         Return, retainedVars, vars, nodeVars, sourceVars
<1>2. /\ latest \in Nat /\ retained \in Nat /\ archiveHeight \in 0..MaxRound
      /\ MaxRound \in Nat /\ RoundLatest = MaxRound + 1 /\ round[r] \in 0..RoundLatest
      /\ asked[r].latest \in Nat /\ NoKey \in Keys
  BY NodeAssumption DEF Typed, RequestTypes, Rounds, RoundLatest, Keys
<1>3. ASSUME db' = db PROVE DbExact' /\ DOMAIN db \subseteq DOMAIN db'
  BY <1>1, <1>3, Zenon DEF DbExact
<1>4. SUFFICES /\ DbExact' /\ DOMAIN db \subseteq DOMAIN db'
               /\ RequestTypes' /\ CallTypes' /\ OnlyRequest(r) /\ OnlyCall(r)
               /\ RoundInv(r)' /\ CallInv(r)'
  BY <1>1, Zenon DEF Kept
<1>5. ASSUME SameRequest(r) \/ reqPc'[r] = "query", reqPc[r] \in {"route", "query"},
             UNCHANGED <<block, round, clrRound, asked>>, DOMAIN db \subseteq DOMAIN db'
      PROVE  RoundInv(r)'
  BY <1>5, <1>1, Zenon DEF RoundInv, SameRequest
<1>6. ASSUME ReqAt(r, "query"), UNCHANGED <<block, round, clrRound, asked>>
      PROVE  RequestTypes' /\ OnlyRequest(r) /\ reqPc'[r] = "query"
  BY <1>6, Zenon DEF ReqAt, Typed, RequestTypes, ReqLabels, OnlyRequest, SameRequest
<1>7. CASE QueryArchive(r)
  <2>1. reqPc[r] = "route" /\ shouldQueryArchive(round[r])
    BY <1>7, Zenon DEF QueryArchive
  <2>2. CASE Over(r) /\ UNCHANGED sourceVars
    <3>1. UNCHANGED <<db, srcPc, srcKey, srcVal>>
      BY <2>2, Zenon DEF sourceVars
    <3>2. srcPc'[r] = "off"
      BY <3>1, <2>1, Zenon DEF CallInv
    <3>3. CallTypes' /\ OnlyCall(r)
      BY <3>1, Zenon DEF Typed, CallTypes, OnlyCall, SameCall
    <3>4. RoundInv(r)' /\ CallInv(r)' /\ RequestTypes' /\ OnlyRequest(r)
      BY <2>2, <3>2, <1>1, OverInv, Zenon
    <3>5. QED
      BY <3>1, <3>3, <3>4, <1>3, Zenon
  <2>3. CASE /\ At(r, "answered", round[r]) /\ ReqAt(r, "query")
             /\ UNCHANGED <<nodeVars, db, srcKey, block, round, clrRound, asked>>
    <3>1. round[r] \in Int /\ round[r] # RoundLatest
      BY <2>1, <1>2 DEF shouldQueryArchive
    <3>2. MovedTo(r, "answered", round[r])
      <4>1. "answered" \in SrcLabels /\ srcKey' = srcKey
        BY <2>3, Zenon DEF SrcLabels
      <4>2. QED
        BY <2>3, <3>1, <4>1, CallMoves, Zenon
    <3>3. /\ CallTypes' /\ OnlyCall(r) /\ srcPc'[r] = "answered" /\ srcVal'[r] = round[r]
      BY <2>3, <3>2, Zenon DEF MovedTo, Typed, CallTypes, OnlyCall
    <3>4. RequestTypes' /\ OnlyRequest(r) /\ reqPc'[r] = "query"
      BY <2>3, <1>6, Zenon
    <3>5. RoundInv(r)'
      BY <2>1, <2>3, <3>4, <1>5, Zenon
    <3>6. CallInv(r)'
      BY <2>3, <3>1, <3>3, <3>4, Zenon DEF CallInv
    <3>7. QED
      BY <2>3, <3>3, <3>4, <3>5, <3>6, <1>3, Zenon
  <2>4. QED
    BY <1>7, <2>2, <2>3, Zenon DEF QueryArchive
<1>8. CASE CallSource(r)
  <2>1. /\ reqPc[r] = "route" /\ ~shouldQueryArchive(round[r])
        /\ ReqAt(r, "query") /\ UNCHANGED <<db, block, round, clrRound, asked>>
        /\ srcKey' = [srcKey EXCEPT ![r] = makeKey(round[r])]
        /\ At(r, IF UsesCache(makeKey(round[r])) THEN "get" ELSE "fetch", 0)
    BY <1>8 DEF CallSource, Call
  <2>2. round[r] \in 1..RoundLatest
    BY <2>1, <1>2 DEF RoundInv, Typed, RequestTypes, Blocks, Rounds
  <2>3. makeKey(round[r]) = round[r] /\ round[r] \in Keys
    BY <2>2, Zenon DEF makeKey, Keys
  <2>4. RequestTypes' /\ OnlyRequest(r) /\ reqPc'[r] = "query"
    BY <2>1, <1>6, Zenon
  <2>5. CallTypes' /\ OnlyCall(r)
    BY <2>1, <2>3 DEF At, Typed, CallTypes, SrcLabels, OnlyCall, SameCall
  <2>6. /\ srcKey'[r] = round[r]
        /\ srcPc'[r] = (IF NodeCache /\ round[r] # RoundLatest THEN "get" ELSE "fetch")
    BY <2>1, <2>3, Zenon DEF At, UsesCache, Volatile, Typed, CallTypes
  <2>7. RoundInv(r)'
    BY <2>1, <2>4, <1>5, Zenon
  <2>8. round[r] = RoundLatest => asked[r].cached = {}
    <3>1. ASSUME round[r] = RoundLatest PROVE block[r].n = NoKey
      <4>1. block[r].by # "number" /\ block[r].by # "hash"
        BY <3>1, <2>1, <1>2 DEF RoundInv, Typed, RequestTypes, Blocks, Rounds
      <4>2. QED
        BY <4>1, Zenon DEF Typed, RequestTypes, Blocks
    <3>2. NoKey \notin DOMAIN db
      BY <1>2 DEF DbExact, NoKey
    <3>3. QED
      BY <3>1, <3>2, Zenon DEF RoundInv
  <2>9. CallInv(r)'
    BY <2>1, <2>4, <2>6, <2>8, <1>1, Zenon DEF CallInv, shouldQueryArchive
  <2>10. QED
    BY <2>1, <2>4, <2>5, <2>7, <2>9, <1>3, Zenon
<1>9. CASE SourceWorks(r)
  <2>1. SourceStep(r) /\ UNCHANGED requestVars
    BY <1>9, Zenon DEF SourceWorks
  <2>2. /\ UNCHANGED <<reqPc, block, round, clrRound, asked>>
        /\ RequestTypes' /\ OnlyRequest(r) /\ SameRequest(r)
    BY <2>1, Zenon DEF requestVars, Typed, RequestTypes, OnlyRequest, SameRequest
  <2>3. srcKey' = srcKey /\ reqPc[r] = "query"
    BY <2>1, Zenon DEF SourceStep, Get, Fetch, Set, CallInv
  <2>4. /\ CallInv(r)' /\ \E label, val : MovedTo(r, label, val)
        /\ DbExact' /\ DOMAIN db \subseteq DOMAIN db'
    BY <2>1, <2>2, <1>1, SourceKeeps
  <2>5. CallTypes' /\ OnlyCall(r)
    BY <2>3, <2>4, Zenon DEF MovedTo, Typed, CallTypes, OnlyCall
  <2>6. RoundInv(r)'
    BY <2>2, <2>3, <2>4, <1>5, Zenon
  <2>7. QED
    BY <2>2, <2>4, <2>5, <2>6, Zenon
<1>10. CASE Done(r)
  <2>1. Over(r) /\ srcKey' = [srcKey EXCEPT ![r] = NoKey] /\ At(r, "off", 0) /\ db' = db
    BY <1>10, Zenon DEF Done, Return
  <2>2. CallTypes' /\ OnlyCall(r) /\ srcPc'[r] = "off"
    BY <2>1, <1>2 DEF At, Typed, CallTypes, SrcLabels, OnlyCall, SameCall
  <2>3. RoundInv(r)' /\ CallInv(r)' /\ RequestTypes' /\ OnlyRequest(r)
    BY <2>1, <2>2, <1>1, OverInv, Zenon
  <2>4. QED
    BY <2>1, <2>2, <2>3, <1>3, Zenon
<1>11. QED
  BY <1>7, <1>8, <1>9, <1>10, Zenon

-----------------------------------------------------------------------------
(* Every step of the system keeps the invariant. *)
LEMMA QueriesStepInv == QueriesInv /\ [QueriesNext]_allVars => QueriesInv'
<1> SUFFICES ASSUME QueriesInv, [QueriesNext]_allVars PROVE QueriesInv'
  OBVIOUS
<1>1. RetainedInv'
  BY StepRetains, Zenon DEF QueriesInv
<1>2. RestInv'
  <2>1. ASSUME NEW r \in Readers, Receive(r) \/ RequestStep(r) PROVE RestInv'
    <3>1. /\ RetainedInv /\ dbTip <= latest /\ Typed /\ DbExact
          /\ RoundInv(r) /\ CallInv(r)
      BY <2>1, Zenon DEF QueriesInv
    <3>2. Kept(r)
      BY <2>1, <3>1, ResolveStep, QueryStep, Zenon DEF RequestStep
    <3>3. QED
      BY <2>1, <3>2, OneRequest, Zenon
  <2>2. QED
    BY <2>1, SurroundingsStep, RestartStep, Zenon DEF QueriesNext
<1>3. QED
  BY <1>1, <1>2, Zenon DEF QueriesInv, RestInv

(* Whatever the instance, no call of QueryLastRetainedRound claims that a  *)
(* round is pruned which the index still has.                              *)
THEOREM RetainedNeverAhead == QueriesSpec => []NeverAhead
<1>1. QueriesInv => NeverAhead
  BY Zenon DEF QueriesInv, RetainedInv
<1>2. QED
  BY <1>1, QueriesInitInv, QueriesStepInv, PTL DEF QueriesSpec

(* Whatever the number of requests and rounds, and whichever of archive,   *)
(* pebble cache and node answers, an eth_ state query is answered with the *)
(* state at the block it named.                                            *)
THEOREM AnswersCorrect == QueriesSpec => []AnswersNamedBlock
<1>1. QueriesInv => AnswersNamedBlock
  <2> SUFFICES ASSUME QueriesInv, NEW r \in Readers, Answered(r)
               PROVE  /\ block[r].by = "number" => srcVal[r] = block[r].n
                      /\ block[r].by = "latest" => srcVal[r] \in asked[r].latest..latest
                      /\ block[r].by = "earliest" =>
                            srcVal[r] = round[r] /\ srcVal[r] >= clrRound[r]
    BY Zenon DEF AnswersNamedBlock
  <2>1. /\ reqPc[r] = "query" /\ srcPc[r] = "answered"
        /\ RoundInv(r) /\ CallInv(r) /\ latest \in 1..MaxRound
        /\ clrRound[r] \in Nat /\ block[r] \in Blocks
    BY Zenon DEF Answered, QueriesInv, Typed, RequestTypes, Rounds
  <2>2. QED
    BY <2>1, NodeAssumption DEF RoundInv, CallInv, RoundLatest, Blocks, Rounds
<1>2. QED
  BY <1>1, QueriesInitInv, QueriesStepInv, PTL DEF QueriesSpec

(* Such a query misses its round only if neither the archive, nor the      *)
(* pebble cache when it came, nor the node when it was asked had it.       *)
THEOREM MissesOnlyGone == QueriesSpec => []MissingOnlyIfGone
<1>1. QueriesInv => MissingOnlyIfGone
  <2> SUFFICES ASSUME QueriesInv, NEW r \in Readers, NotFound(r)
               PROVE  /\ ~(archiveHeight # 0 /\ round[r] <= archiveHeight)
                      /\ NodeCache => asked[r].cached = {}
                      /\ block[r].by # "latest"
                      /\ block[r].by = "earliest" => clrRound[r] < retained
    BY Zenon DEF MissingOnlyIfGone
  <2>1. RoundInv(r) /\ CallInv(r)
    BY Zenon DEF QueriesInv
  <2>2. QED
    BY <2>1, Zenon DEF NotFound, RoundInv, CallInv, shouldQueryArchive
<1>2. QED
  BY <1>1, QueriesInitInv, QueriesStepInv, PTL DEF QueriesSpec
=============================================================================
