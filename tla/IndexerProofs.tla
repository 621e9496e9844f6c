--------------------------- MODULE IndexerProofs ---------------------------
(***************************************************************************)
(* Theorems about Indexer for every chain, configuration and number of     *)
(* rounds, and about Lifecycle, the process that its workers run in.       *)
(*                                                                         *)
(* Lifecycle: that a service finds room in errCh is not inductive: it      *)
(* takes that errCh holds one error at most of each service that has       *)
(* returned (RoomInv), and which services runRoot has started (StartInv).  *)
(***************************************************************************)
EXTENDS Indexer, Lifecycle, FiniteSetTheorems, TLAPS

(* What the workers know about the rounds they hold.  This and TypeOK are  *)
(* inductive in every environment.                                         *)
LocalsOK ==
    ixPc \in {"store", "notify"} => round \in Rounds /\ coreParameters \in Nat

(* An epoch number is a natural number. *)
LEMMA EpochType == ASSUME NEW r \in Nat PROVE Epoch(r) \in Nat
<1> DEFINE S == {t \in 0..r : chain[t] = "EpochTransition"}
<1>1. IsFiniteSet(0..r)
  BY FS_Interval
<1>2. IsFiniteSet(S)
  BY <1>1, FS_Subset, Zenon
<1>. QED
  BY <1>2, FS_CardinalityType, Zenon DEF Epoch

(* The round that QueryLastIndexedRound returns is a round or none. *)
LEMMA QueryType ==
    ASSUME TypeOK PROVE QueryLastIndexedRound \in Rounds \cup {NoRound}
BY DEF TypeOK, QueryLastIndexedRound

(* The rounds that the configuration and the iteration ask for. *)
LEMMA StartAtType == ASSUME TypeOK PROVE StartAt \in Nat /\ FirstWanted \in Nat
<1>1. FirstWanted \in Nat
  BY MaxRoundAssumption, ConfigAssumption DEF TypeOK, FirstWanted, Rounds
<1>2. QueryLastIndexedRound \in Rounds \cup {NoRound}
  BY QueryType, Zenon
<1>3. (IF QueryLastIndexedRound = NoRound THEN 0 ELSE QueryLastIndexedRound + 1) \in Nat
  BY <1>2, MaxRoundAssumption DEF Rounds, NoRound
<1>. QED
  BY <1>1, <1>3, Zenon DEF StartAt, MaxOf

(* What storing and deleting a row make of the block table. *)
LEMMA StoreRowType ==
    ASSUME TypeOK, NEW r \in Rounds, coreParameters \in Nat
    PROVE  /\ DOMAIN StoreRow(r) = DOMAIN blocks \cup {r}
           /\ StoreRow(r) \in [DOMAIN StoreRow(r) -> Nat]
           /\ DOMAIN StoreRow(r) \subseteq Rounds
<1>1. DOMAIN StoreRow(r) = DOMAIN blocks \cup {r}
  BY Zenon DEF StoreRow
<1>2. StoreRow(r) \in [DOMAIN blocks \cup {r} -> Nat]
  BY Zenon DEF StoreRow, TypeOK
<1>. QED
  BY <1>1, <1>2, Zenon DEF TypeOK

LEMMA DeleteType ==
    ASSUME TypeOK, NEW r \in Rounds
    PROVE  /\ DOMAIN Delete(r) = {x \in DOMAIN blocks : x >= r}
           /\ Delete(r) \in [DOMAIN Delete(r) -> Nat]
           /\ DOMAIN Delete(r) \subseteq Rounds
<1>1. DOMAIN Delete(r) = {x \in DOMAIN blocks : x >= r}
  BY Zenon DEF Delete, Restrict
<1>2. Delete(r) \in [{x \in DOMAIN blocks : x >= r} -> Nat]
  BY Zenon DEF Delete, Restrict, TypeOK
<1>. QED
  BY <1>1, <1>2, Zenon DEF TypeOK

(* TypeOK by the owner of the variables. *)
EnvTypes ==
    /\ chain \in [Rounds -> HeaderTypes]
    /\ nodeLatest \in Rounds
    /\ nodeRetained \in 0..nodeLatest
    /\ ackLost \in BOOLEAN
BlocksTypes == DOMAIN blocks \subseteq Rounds /\ blocks \in [DOMAIN blocks -> Nat]
TipTypes == continues \in Rounds \cup {NoRound} /\ lastRetained \in Rounds
CacheTypes == lastIndexedRound \in Rounds
ParamTypes ==
    /\ coreParameters \in Nat \cup {NoParams}
    /\ rtInfo \in BOOLEAN
    /\ queryEpochParameters \in BOOLEAN
IxTypes ==
    /\ ixPc \in {"idle", "range", "fetch", "store", "notify", "done"}
    /\ round \in Nat
    /\ latest \in Nat
PrTypes == prPc \in {"idle", "tip", "delete"} /\ pruneRound \in Rounds
CsTypes == csPc \in {"read", "store", "done"} /\ csRead \in Rounds

(* What a step leaves alone keeps its type. *)
LEMMA TypesKept ==
    ASSUME TypeOK, LocalsOK
    PROVE  /\ UNCHANGED envVars => EnvTypes'
           /\ UNCHANGED blocks => BlocksTypes'
           /\ UNCHANGED <<continues, lastRetained>> => TipTypes'
           /\ UNCHANGED lastIndexedRound => CacheTypes'
           /\ UNCHANGED paramVars => ParamTypes'
           /\ UNCHANGED ixVars => IxTypes'
           /\ UNCHANGED prVars => PrTypes'
           /\ UNCHANGED csVars => CsTypes'
           /\ UNCHANGED <<paramVars, ixVars>> => LocalsOK'
<1>1. UNCHANGED envVars => EnvTypes'
  BY Zenon DEF TypeOK, envVars, EnvTypes
<1>2. UNCHANGED blocks => BlocksTypes'
  BY Zenon DEF TypeOK, BlocksTypes
<1>3. UNCHANGED <<continues, lastRetained>> => TipTypes'
  BY Zenon DEF TypeOK, TipTypes
<1>4. UNCHANGED lastIndexedRound => CacheTypes'
  BY Zenon DEF TypeOK, CacheTypes
<1>5. UNCHANGED paramVars => ParamTypes'
  BY Zenon DEF TypeOK, paramVars, ParamTypes
<1>6. UNCHANGED ixVars => IxTypes'
  BY Zenon DEF TypeOK, ixVars, IxTypes
<1>7. UNCHANGED prVars => PrTypes'
  BY Zenon DEF TypeOK, prVars, PrTypes
<1>8. UNCHANGED csVars => CsTypes'
  BY Zenon DEF TypeOK, csVars, CsTypes
<1>9. UNCHANGED <<paramVars, ixVars>> => LocalsOK'
  BY Zenon DEF LocalsOK, paramVars, ixVars
<1>. QED
  BY <1>1, <1>2, <1>3, <1>4, <1>5, <1>6, <1>7, <1>8, <1>9, Zenon

(* Every step of every goroutine keeps the types. *)
LEMMA TypeStep == TypeOK /\ LocalsOK /\ [Next]_vars => TypeOK' /\ LocalsOK'
<1> SUFFICES ASSUME TypeOK, LocalsOK, [Next]_vars PROVE TypeOK' /\ LocalsOK'
  OBVIOUS
<1>k. /\ UNCHANGED envVars => EnvTypes'
      /\ UNCHANGED blocks => BlocksTypes'
      /\ UNCHANGED <<continues, lastRetained>> => TipTypes'
      /\ UNCHANGED lastIndexedRound => CacheTypes'
      /\ UNCHANGED paramVars => ParamTypes'
      /\ UNCHANGED ixVars => IxTypes'
      /\ UNCHANGED prVars => PrTypes'
      /\ UNCHANGED csVars => CsTypes'
      /\ UNCHANGED <<paramVars, ixVars>> => LocalsOK'
  BY TypesKept, Zenon
<1>z. 0 \in Rounds /\ 0 \in Nat
  BY MaxRoundAssumption DEF Rounds
<1> SUFFICES /\ EnvTypes' /\ BlocksTypes' /\ TipTypes' /\ CacheTypes' /\ ParamTypes'
             /\ IxTypes' /\ PrTypes' /\ CsTypes' /\ LocalsOK'
  BY Zenon DEF TypeOK, EnvTypes, BlocksTypes, TipTypes, CacheTypes, ParamTypes, IxTypes,
     PrTypes, CsTypes
<1>1. CASE NodeProduces
  <2>1. nodeLatest' \in Rounds /\ nodeRetained' \in 0..nodeLatest'
    <3>1. /\ nodeLatest < MaxRound /\ nodeLatest' = nodeLatest + 1
          /\ nodeRetained' = nodeRetained
      BY <1>1, Zenon DEF NodeProduces
    <3>2. nodeLatest \in Rounds /\ nodeRetained \in 0..nodeLatest
      BY Zenon DEF TypeOK
    <3>. QED
      BY <3>1, <3>2, MaxRoundAssumption DEF Rounds
  <2>2. EnvTypes'
    BY <1>1, <2>1, Zenon DEF NodeProduces, TypeOK, EnvTypes
  <2>. QED
    BY <1>1, <1>k, <2>2, Zenon DEF NodeProduces, dbVars
<1>2. CASE NodePrunes
  <2>1. nodeRetained' \in 0..nodeLatest'
    <3>1. nodeRetained < nodeLatest /\ nodeRetained' = nodeRetained + 1 /\ nodeLatest' = nodeLatest
      BY <1>2, Zenon DEF NodePrunes
    <3>2. nodeLatest \in Rounds /\ nodeRetained \in 0..nodeLatest
      BY Zenon DEF TypeOK
    <3>. QED
      BY <3>1, <3>2, MaxRoundAssumption DEF Rounds
  <2>2. EnvTypes'
    BY <1>2, <2>1, Zenon DEF NodePrunes, TypeOK, EnvTypes
  <2>. QED
    BY <1>2, <1>k, <2>2, Zenon DEF NodePrunes, dbVars
<1>3. CASE CacheStartRead
  <2>1. CsTypes'
    BY <1>3, <1>z, Zenon DEF CacheStartRead, TypeOK, CsTypes
  <2>. QED
    BY <1>3, <1>k, <2>1, Zenon DEF CacheStartRead, dbVars
<1>4. CASE CacheStartStore
  <2>1. CsTypes' /\ CacheTypes'
    BY <1>4, Zenon DEF CacheStartStore, TypeOK, CsTypes, CacheTypes
  <2>. QED
    BY <1>4, <1>k, <2>1, Zenon DEF CacheStartStore, dbVars
<1>5. CASE QueryStart
  <2>1. StartAt \in Nat
    BY StartAtType, Zenon
  <2>2. IxTypes' /\ LocalsOK'
    BY <1>5, <2>1, Zenon DEF QueryStart, TypeOK, IxTypes, LocalsOK
  <2>. QED
    BY <1>5, <1>k, <2>2, Zenon DEF QueryStart, dbVars
<1>6. CASE ConfigureEnd
  <2>1. latest' \in Nat
    <3>1. nodeLatest \in Rounds
      BY Zenon DEF TypeOK
    <3>2. nodeLatest \in Nat
      BY <3>1, MaxRoundAssumption DEF Rounds
    <3>. QED
      BY <1>6, <3>2, ConfigAssumption, Zenon DEF ConfigureEnd
  <2>2. ixPc' \in {"idle", "fetch", "done"} /\ round' = round
    <3>1. round \in Nat /\ round' = round
      BY <1>6, Zenon DEF TypeOK, ConfigureEnd
    <3>2. ixPc' = CASE round <= latest' -> "fetch"
                    [] round > latest' /\ IndexingEnd = 0 -> "idle"
                    [] round > latest' /\ IndexingEnd # 0 -> "done"
      BY <1>6, Zenon DEF ConfigureEnd
    <3>. QED
      BY <2>1, <3>1, <3>2, ConfigAssumption
  <2>3. IxTypes' /\ LocalsOK'
    BY <2>1, <2>2, Zenon DEF TypeOK, IxTypes, LocalsOK
  <2>. QED
    BY <1>6, <1>k, <2>3, Zenon DEF ConfigureEnd, dbVars
<1>7. CASE ConfigureEndFails
  <2>1. IxTypes' /\ LocalsOK'
    BY <1>7, Zenon DEF ConfigureEndFails, TypeOK, IxTypes, LocalsOK
  <2>. QED
    BY <1>7, <1>k, <2>1, Zenon DEF ConfigureEndFails, dbVars
<1>8. CASE Fetch
  <2>1. round \in Rounds
    <3>1. round \in nodeRetained..nodeLatest /\ nodeLatest \in Rounds /\ nodeRetained \in 0..nodeLatest
      BY <1>8, Zenon DEF Fetch, Serves, TypeOK
    <3>. QED
      BY <3>1, MaxRoundAssumption DEF Rounds
  <2>2. Epoch(round) \in Nat
    BY EpochType, Zenon DEF TypeOK
  <2>3. coreParameters' \in Nat
    BY <1>8, <2>2, Zenon DEF Fetch, NeedParameters, TypeOK
  <2>4. ParamTypes' /\ IxTypes' /\ LocalsOK'
    BY <1>8, <2>1, <2>3, Zenon DEF Fetch, TypeOK, ParamTypes, IxTypes, LocalsOK
  <2>. QED
    BY <1>8, <1>k, <2>4, Zenon DEF Fetch, dbVars
<1>9. CASE FetchFails
  <2>1. Epoch(round) \in Nat
    BY EpochType, Zenon DEF TypeOK
  <2>2. ParamTypes' /\ IxTypes' /\ LocalsOK'
    BY <1>9, <2>1, Zenon DEF FetchFails, TypeOK, ParamTypes, IxTypes, LocalsOK
  <2>. QED
    BY <1>9, <1>k, <2>2, Zenon DEF FetchFails, dbVars
<1>10. CASE StoreCommits \/ StoreAckLost
  <2>1. /\ blocks' = StoreRow(round) /\ continues' = round
        /\ round \in Rounds /\ coreParameters \in Nat
    BY <1>10, Zenon DEF StoreCommits, StoreAckLost, LocalsOK
  <2>2. BlocksTypes'
    BY <2>1, StoreRowType, Zenon DEF BlocksTypes
  <2>3. EnvTypes' /\ TipTypes'
    BY <1>10, <1>k, <2>1, Zenon DEF StoreCommits, StoreAckLost, TypeOK, EnvTypes, TipTypes
  <2>4. IxTypes' /\ LocalsOK'
    BY <1>10, <2>1, Zenon DEF StoreCommits, StoreAckLost, TypeOK, IxTypes, LocalsOK, paramVars
  <2>. QED
    BY <1>10, <1>k, <2>2, <2>3, <2>4, Zenon DEF StoreCommits, StoreAckLost
<1>11. CASE StoreFails
  <2>1. IxTypes' /\ LocalsOK'
    BY <1>11, Zenon DEF StoreFails, TypeOK, IxTypes, LocalsOK
  <2>. QED
    BY <1>11, <1>k, <2>1, Zenon DEF StoreFails, dbVars
<1>12. CASE StoreLookupFails
  <2>1. IxTypes' /\ LocalsOK'
    BY <1>12, Zenon DEF StoreLookupFails, TypeOK, IxTypes, LocalsOK, paramVars
  <2>. QED
    BY <1>12, <1>k, <2>1, Zenon DEF StoreLookupFails, dbVars
<1>13. CASE Notify
  <2>1. CacheTypes'
    BY <1>13, Zenon DEF Notify, MaxOf, TypeOK, LocalsOK, CacheTypes
  <2>2. ParamTypes'
    <3>1. queryEpochParameters' \in {TRUE, FALSE, queryEpochParameters}
      BY <1>13 DEF Notify
    <3>. QED
      BY <1>13, <3>1, Zenon DEF Notify, TypeOK, ParamTypes
  <2>3. IxTypes' /\ LocalsOK'
    <3>1. round + 1 \in Nat
      BY DEF TypeOK
    <3>. QED
      BY <1>13, <3>1, Zenon DEF Notify, TypeOK, IxTypes, LocalsOK
  <2>. QED
    BY <1>13, <1>k, <2>1, <2>2, <2>3, Zenon DEF Notify, dbVars
<1>14. CASE PruneQuery
  <2>1. QueryLastIndexedRound \in Rounds \cup {NoRound}
    BY QueryType, Zenon
  <2>2. /\ QueryLastIndexedRound > PruningStep
        /\ pruneRound' = QueryLastIndexedRound - PruningStep
    BY <1>14, Zenon DEF PruneQuery
  <2>3. pruneRound' \in Rounds
    BY <2>1, <2>2, MaxRoundAssumption, ConfigAssumption DEF Rounds, NoRound
  <2>4. PrTypes'
    BY <1>14, <2>3, Zenon DEF PruneQuery, PrTypes
  <2>. QED
    BY <1>14, <1>k, <2>4, Zenon DEF PruneQuery, dbVars
<1>15. CASE PruneStoreTip
  <2>1. TipTypes' /\ PrTypes'
    BY <1>15, Zenon DEF PruneStoreTip, TypeOK, TipTypes, PrTypes
  <2>. QED
    BY <1>15, <1>k, <2>1, Zenon DEF PruneStoreTip
<1>16. CASE PruneDelete
  <2>1. BlocksTypes'
    BY <1>16, DeleteType, Zenon DEF PruneDelete, TypeOK, BlocksTypes
  <2>2. PrTypes'
    BY <1>16, Zenon DEF PruneDelete, TypeOK, PrTypes
  <2>. QED
    BY <1>16, <1>k, <2>1, <2>2, Zenon DEF PruneDelete
<1>17. CASE PruneFails
  <2>1. PrTypes'
    BY <1>17, Zenon DEF PruneFails, TypeOK, PrTypes
  <2>. QED
    BY <1>17, <1>k, <2>1, Zenon DEF PruneFails, dbVars
<1>18. CASE Crash
  <2>1. CacheTypes' /\ ParamTypes'
    BY <1>18, <1>z, Zenon DEF Crash, CacheTypes, ParamTypes
  <2>2. IxTypes' /\ LocalsOK'
    BY <1>18, <1>z, Zenon DEF Crash, IxTypes, LocalsOK
  <2>3. PrTypes' /\ CsTypes'
    BY <1>18, <1>z, Zenon DEF Crash, PrTypes, CsTypes
  <2>. QED
    BY <1>18, <1>k, <2>1, <2>2, <2>3, Zenon DEF Crash, dbVars
<1>19. CASE UNCHANGED vars
  BY <1>19, <1>k, Zenon DEF vars, envVars, paramVars, ixVars, prVars, csVars
<1>. QED
  BY <1>1, <1>2, <1>3, <1>4, <1>5, <1>6, <1>7, <1>8, <1>9, <1>10, <1>11, <1>12,
     <1>13, <1>14, <1>15, <1>16, <1>17, <1>18, <1>19, Zenon
     DEF Next, IndexingWorker, PruningWorker

(* The gateway starts well-typed. *)
LEMMA TypeInit == Init => TypeOK /\ LocalsOK
<1> USE MaxRoundAssumption DEF Rounds, NoRound, NoParams
<1> SUFFICES ASSUME Init PROVE TypeOK /\ LocalsOK
  OBVIOUS
<1>1. chain \in [Rounds -> HeaderTypes]
  BY ChainsAssumption, Zenon DEF Init
<1>2. DOMAIN blocks \subseteq Rounds /\ blocks \in [DOMAIN blocks -> Nat]
  BY Zenon DEF Init
<1>. QED
  BY <1>1, <1>2 DEF Init, TypeOK, LocalsOK

(* The type invariant, with LocalsOK, holds in every reachable state of    *)
(* every instance, whatever the environment does.                          *)
THEOREM TypeCorrect == Spec => [](TypeOK /\ LocalsOK)
BY TypeInit, TypeStep, PTL DEF Spec
-----------------------------------------------------------------------------
(* Safety of the indexing and pruning workers.                             *)

(* The two behaviours that break it are excluded: a failed lookup whose    *)
(* error is dropped, and a CachingBackend.Start that overlaps the workers. *)
NormalOperation == "lookup" \notin Env /\ "slowStart" \notin Env

(* Until CachingBackend.Start is done the workers have done nothing.       *)
StartupInv ==
    csPc # "done" =>
        /\ ixPc = "idle" /\ prPc = "idle" /\ lastIndexedRound = 0
        /\ csPc = "store" => csRead \in {0, continues}

(* The cached round is at most the tip.  A lost acknowledgement leaves it  *)
(* behind, but the indexing worker then retries the round of the tip, and  *)
(* only a node that pruned it meanwhile takes the worker further.          *)
CacheInv ==
    /\ QueryLastIndexedRound <= continues
    /\ ixPc # "notify" => continues <= MaxOf(QueryLastIndexedRound + 1, FirstWanted)

(* The round in hand is not below the tip and leaves no avoidable gap.     *)
RoundInv ==
    /\ ixPc \in {"range", "fetch", "store"} =>
           /\ continues <= round
           /\ round <= MaxOf(QueryLastIndexedRound + 1, FirstWanted)
    /\ ixPc = "notify" => continues = round
    /\ ixPc = "done" => IndexingEnd < MaxOf(QueryLastIndexedRound + 1, FirstWanted)

(* The pruning worker's round stays pruning_step behind the cached round,  *)
(* and so does the LastRetained tip.                                       *)
PruneInv ==
    /\ prPc # "idle" => /\ pruneRound + PruningStep <= QueryLastIndexedRound
                        /\ lastRetained <= pruneRound
    /\ prPc = "delete" => lastRetained = pruneRound
    /\ lastRetained # 0 => lastRetained + PruningStep <= QueryLastIndexedRound

(* Only a lost acknowledgement or a step in progress parts cache and tip.  *)
FreshInv ==
    ~ackLost /\ ixPc # "notify" => QueryLastIndexedRound = continues

IInv ==
    /\ TypeOK /\ LocalsOK
    /\ StartupInv /\ CacheInv /\ RoundInv /\ PruneInv /\ FreshInv
    /\ TipIsNewestBlock /\ NoAvoidableGap

(* The integers of the invariant, from TypeOK. *)
IntsOK ==
    /\ continues \in Int /\ continues >= NoRound
    /\ lastRetained \in Nat /\ lastIndexedRound \in Nat
    /\ nodeRetained \in Nat
    /\ round \in Nat /\ pruneRound \in Nat /\ csRead \in Nat
    /\ DOMAIN blocks \subseteq Nat
    /\ FirstWanted \in Nat
    /\ QueryLastIndexedRound \in Int /\ QueryLastIndexedRound >= NoRound

LEMMA TypeGivesInts == TypeOK => IntsOK
<1> SUFFICES ASSUME TypeOK PROVE IntsOK
  OBVIOUS
<1>1. FirstWanted \in Nat
  BY StartAtType, Zenon
<1>2. QueryLastIndexedRound \in Int /\ QueryLastIndexedRound >= NoRound
  BY QueryType, MaxRoundAssumption DEF Rounds, NoRound
<1>3. nodeRetained \in Nat
  BY MaxRoundAssumption DEF TypeOK, Rounds
<1>. QED
  BY <1>1, <1>2, <1>3, MaxRoundAssumption DEF TypeOK, Rounds, NoRound, IntsOK

(* The numeric part of the invariant. *)
Numeric == StartupInv /\ CacheInv /\ RoundInv /\ PruneInv /\ FreshInv

(* An invariant about the rows and the tips is untouched by a step that    *)
(* leaves them alone and does not lower the first wanted round.            *)
LEMMA RowsKept ==
    ASSUME TipIsNewestBlock, NoAvoidableGap, IntsOK, IntsOK',
           UNCHANGED dbVars, FirstWanted <= FirstWanted'
    PROVE  TipIsNewestBlock' /\ NoAvoidableGap'
BY DEF TipIsNewestBlock, NoAvoidableGap, IntsOK, dbVars, NoRound

(* Storing a round above the tip extends the rows at the new end. *)
LEMMA RowStored ==
    ASSUME IInv, IntsOK', ixPc = "store", round \notin DOMAIN blocks,
           blocks' = StoreRow(round), continues' = round,
           UNCHANGED <<lastRetained, nodeRetained>>
    PROVE  /\ continues < round
           /\ TipIsNewestBlock' /\ NoAvoidableGap'
<1> USE DEF NoRound
<1>1. IntsOK /\ round \in Rounds /\ coreParameters \in Nat
  BY TypeGivesInts, Zenon DEF IInv, LocalsOK
<1>2. DOMAIN blocks' = DOMAIN blocks \cup {round}
  BY <1>1, StoreRowType, Zenon DEF IInv
<1>3. continues < round
  BY <1>1 DEF IInv, RoundInv, TipIsNewestBlock, IntsOK
<1>4. TipIsNewestBlock'
  BY <1>1, <1>2, <1>3 DEF IInv, TipIsNewestBlock, IntsOK
<1>5. FirstWanted' = FirstWanted
  BY Zenon DEF FirstWanted
<1>6. NoAvoidableGap'
  <2> SUFFICES ASSUME NEW r \in 0..round, r \notin DOMAIN blocks', r >= lastRetained
               PROVE  r < FirstWanted
    BY <1>1, <1>5 DEF NoAvoidableGap, IntsOK
  <2>1. r # round /\ r \notin DOMAIN blocks
    BY <1>2, Zenon
  <2>2. CASE r <= continues
    BY <1>1, <2>1, <2>2 DEF IInv, NoAvoidableGap, IntsOK
  <2>3. CASE r > continues
    BY <1>1, <2>1, <2>3 DEF IInv, RoundInv, CacheInv, MaxOf, IntsOK
  <2>. QED
    BY <1>1, <2>2, <2>3 DEF IntsOK
<1>. QED
  BY <1>3, <1>4, <1>6, Zenon

(* Deleting below the LastRetained tip removes nothing else. *)
LEMMA RowsPruned ==
    ASSUME IInv, IntsOK', prPc = "delete", blocks' = Delete(pruneRound),
           UNCHANGED <<continues, lastRetained, nodeRetained>>
    PROVE  /\ pruneRound + PruningStep <= continues
           /\ TipIsNewestBlock' /\ NoAvoidableGap'
<1> USE ConfigAssumption DEF NoRound
<1>1. IntsOK /\ pruneRound \in Rounds
  BY TypeGivesInts, Zenon DEF IInv, TypeOK
<1>2. DOMAIN blocks' = {x \in DOMAIN blocks : x >= pruneRound}
  BY <1>1, DeleteType, Zenon DEF IInv
<1>3. pruneRound + PruningStep <= continues /\ lastRetained = pruneRound
  BY <1>1 DEF IInv, PruneInv, CacheInv, IntsOK
<1>4. TipIsNewestBlock'
  BY <1>1, <1>2, <1>3 DEF IInv, TipIsNewestBlock, IntsOK
<1>5. FirstWanted' = FirstWanted
  BY Zenon DEF FirstWanted
<1>6. NoAvoidableGap'
  BY <1>1, <1>2, <1>3, <1>5 DEF IInv, NoAvoidableGap, IntsOK
<1>. QED
  BY <1>3, <1>4, <1>6, Zenon

(* Every step keeps the inductive invariant. *)
LEMMA SafetyStep ==
    ASSUME NormalOperation, IInv, [Next]_vars PROVE IInv'
<1> USE ConfigAssumption DEF NoRound
<1>1. TypeOK' /\ LocalsOK' /\ IntsOK /\ IntsOK'
  <2>1. TypeOK' /\ LocalsOK'
    BY TypeStep, Zenon DEF IInv
  <2>2. TypeOK' => IntsOK'
    BY TypeGivesInts, PTL
  <2>. QED
    BY <2>1, <2>2, TypeGivesInts, Zenon DEF IInv
<1>r. UNCHANGED <<dbVars, nodeRetained>> => TipIsNewestBlock' /\ NoAvoidableGap'
  <2> SUFFICES ASSUME UNCHANGED <<dbVars, nodeRetained>>
               PROVE  TipIsNewestBlock' /\ NoAvoidableGap'
    BY Zenon
  <2>1. FirstWanted' = FirstWanted
    BY Zenon DEF FirstWanted
  <2>2. FirstWanted <= FirstWanted'
    BY <1>1, <2>1 DEF IntsOK
  <2>. QED
    BY <1>1, <2>2, RowsKept, Zenon DEF IInv
<1> USE DEF Numeric, StartupInv, CacheInv, RoundInv, PruneInv, FreshInv, FirstWanted,
            QueryLastIndexedRound, MaxOf
<1> USE DEF envVars, dbVars, paramVars, ixVars, prVars, csVars
<1>2. CASE NodeProduces
  <2>1. Numeric'
    BY <1>1, <1>2 DEF NodeProduces, IInv, IntsOK
  <2>. QED
    BY <1>1, <1>r, <1>2, <2>1, Zenon DEF NodeProduces, IInv
<1>3. CASE NodePrunes
  <2>1. Numeric'
    BY <1>1, <1>3 DEF NodePrunes, IInv, IntsOK
  <2>. QED
    BY <1>1, <1>3, <2>1, RowsKept DEF NodePrunes, IInv, IntsOK
<1>4. CASE CacheStartRead
  <2>1. Numeric'
    BY <1>1, <1>4, Zenon DEF CacheStartRead, IInv, IntsOK
  <2>. QED
    BY <1>1, <1>r, <1>4, <2>1, Zenon DEF CacheStartRead, IInv
<1>5. CASE CacheStartStore
  <2>1. Numeric'
    BY <1>1, <1>5, Zenon DEF CacheStartStore, IInv, IntsOK
  <2>. QED
    BY <1>1, <1>r, <1>5, <2>1, Zenon DEF CacheStartStore, IInv
<1>6. CASE QueryStart
  <2>1. csPc = "done"
    BY <1>6, Zenon DEF QueryStart, WorkersRun, NormalOperation
  <2>2. StartAt = MaxOf(QueryLastIndexedRound + 1, FirstWanted)
    BY <1>1 DEF StartAt, IntsOK
  <2>3. Numeric'
    BY <1>1, <1>6, <2>1, <2>2 DEF QueryStart, IInv, IntsOK
  <2>. QED
    BY <1>1, <1>r, <1>6, <2>3, Zenon DEF QueryStart, IInv
<1>7. CASE ConfigureEnd
  <2>1. ixPc' \in {"fetch", "idle", "done"} /\ UNCHANGED dbVars /\ FirstWanted' = FirstWanted
    <3>1. latest' \in Nat /\ round \in Nat
      BY <1>1, Zenon DEF TypeOK, IntsOK
    <3>2. round <= latest' \/ round > latest'
      BY <3>1
    <3>. QED
      BY <1>7, <3>2, Zenon DEF ConfigureEnd
  <2>2. ixPc' = "done" => IndexingEnd < round
    <3>1. latest' \in Nat /\ round \in Nat
      BY <1>1 DEF TypeOK, IntsOK
    <3>. QED
      BY <1>7, <3>1 DEF ConfigureEnd
  <2>3. Numeric'
    <3>1. /\ ixPc = "range"
          /\ UNCHANGED <<round, nodeRetained, ackLost, continues, lastRetained, lastIndexedRound,
                         prPc, pruneRound, csPc, csRead>>
      BY <1>7, Zenon DEF ConfigureEnd
    <3>. QED
      BY <1>1, <2>1, <2>2, <3>1 DEF IInv, IntsOK
  <2>4. FirstWanted <= FirstWanted'
    BY <1>1, <2>1 DEF IntsOK
  <2>5. TipIsNewestBlock' /\ NoAvoidableGap'
    BY <1>1, <2>1, <2>4, RowsKept, Zenon DEF IInv
  <2>. QED
    BY <1>1, <2>3, <2>5, Zenon DEF IInv
<1>8. CASE ConfigureEndFails
  <2>1. Numeric'
    BY <1>1, <1>8, Zenon DEF ConfigureEndFails, IInv, IntsOK
  <2>. QED
    BY <1>1, <1>r, <1>8, <2>1, Zenon DEF ConfigureEndFails, IInv
<1>9. CASE Fetch
  <2>1. Numeric'
    BY <1>1, <1>9, Zenon DEF Fetch, IInv, IntsOK
  <2>. QED
    BY <1>1, <1>r, <1>9, <2>1, Zenon DEF Fetch, IInv
<1>10. CASE FetchFails
  <2>1. Numeric'
    BY <1>1, <1>10, Zenon DEF FetchFails, IInv, IntsOK
  <2>. QED
    BY <1>1, <1>r, <1>10, <2>1, Zenon DEF FetchFails, IInv
<1>11. CASE StoreCommits
  <2>1. continues < round /\ TipIsNewestBlock' /\ NoAvoidableGap'
    BY <1>1, <1>11, RowStored, Zenon DEF StoreCommits
  <2>2. Numeric'
    BY <1>1, <1>11, <2>1 DEF StoreCommits, IInv, IntsOK
  <2>. QED
    BY <1>1, <2>1, <2>2, Zenon DEF IInv
<1>12. CASE StoreFails
  <2>1. Numeric'
    BY <1>1, <1>12, Zenon DEF StoreFails, IInv, IntsOK
  <2>. QED
    BY <1>1, <1>r, <1>12, <2>1, Zenon DEF StoreFails, IInv
<1>13. CASE StoreAckLost
  <2>1. continues < round /\ TipIsNewestBlock' /\ NoAvoidableGap'
    BY <1>1, <1>13, RowStored, Zenon DEF StoreAckLost
  <2>2. Numeric'
    BY <1>1, <1>13, <2>1 DEF StoreAckLost, IInv, IntsOK
  <2>. QED
    BY <1>1, <2>1, <2>2 DEF IInv
<1>14. CASE StoreLookupFails
  <2>1. Numeric'
    BY <1>1, <1>14, Zenon DEF StoreLookupFails, NormalOperation, IInv, IntsOK
  <2>. QED
    BY <1>1, <1>r, <1>14, <2>1, Zenon DEF StoreLookupFails, IInv
<1>15. CASE Notify
  <2>1. Numeric'
    BY <1>1, <1>15 DEF Notify, IInv, IntsOK
  <2>. QED
    BY <1>1, <1>r, <1>15, <2>1, Zenon DEF Notify, IInv
<1>16. CASE PruneQuery
  <2>1. csPc = "done"
    BY <1>16, Zenon DEF PruneQuery, WorkersRun, NormalOperation
  <2>2. Numeric'
    BY <1>1, <1>16, <2>1 DEF PruneQuery, IInv, IntsOK
  <2>. QED
    BY <1>1, <1>r, <1>16, <2>2, Zenon DEF PruneQuery, IInv
<1>17. CASE PruneStoreTip
  <2>1. Numeric'
    BY <1>1, <1>17 DEF PruneStoreTip, IInv, IntsOK
  <2>2. TipIsNewestBlock'
    BY <1>17, Zenon DEF PruneStoreTip, IInv, TipIsNewestBlock
  <2>3. NoAvoidableGap'
    BY <1>1, <1>17 DEF PruneStoreTip, IInv, NoAvoidableGap, IntsOK
  <2>. QED
    BY <1>1, <1>17, <2>1, <2>2, <2>3, Zenon DEF IInv
<1>18. CASE PruneDelete
  <2>1. pruneRound + PruningStep <= continues /\ TipIsNewestBlock' /\ NoAvoidableGap'
    BY <1>1, <1>18, RowsPruned, Zenon DEF PruneDelete
  <2>2. Numeric'
    BY <1>1, <1>18, <2>1, Zenon DEF PruneDelete, IInv, IntsOK
  <2>. QED
    BY <1>1, <2>1, <2>2, Zenon DEF IInv
<1>19. CASE PruneFails
  <2>1. Numeric'
    BY <1>1, <1>19, Zenon DEF PruneFails, IInv, IntsOK
  <2>. QED
    BY <1>1, <1>r, <1>19, <2>1, Zenon DEF PruneFails, IInv
<1>20. CASE Crash
  <2>1. Numeric'
    BY <1>1, <1>20 DEF Crash, IInv, IntsOK
  <2>. QED
    BY <1>1, <1>r, <1>20, <2>1, Zenon DEF Crash, IInv
<1>21. CASE UNCHANGED vars
  BY <1>1, <1>r, <1>21, Zenon DEF vars, IInv
<1>. QED
  BY <1>1, <1>2, <1>3, <1>4, <1>5, <1>6, <1>7, <1>8, <1>9, <1>10, <1>11, <1>12, <1>13,
     <1>14, <1>15, <1>16, <1>17, <1>18, <1>19, <1>20, <1>21, Zenon
     DEF Next, IndexingWorker, PruningWorker, IInv

(* The inductive invariant holds throughout. *)
LEMMA Invariance == ASSUME NormalOperation PROVE Spec => []IInv
<1>1. Init => IInv
  <2> SUFFICES ASSUME Init PROVE IInv
    OBVIOUS
  <2>1. TypeOK /\ LocalsOK
    BY TypeInit, Zenon
  <2>2. IntsOK
    BY <2>1, TypeGivesInts, Zenon
  <2>3. DOMAIN blocks = {}
    BY Zenon DEF Init
  <2>4. TipIsNewestBlock /\ NoAvoidableGap
    BY <2>3 DEF Init, TipIsNewestBlock, NoAvoidableGap, NoRound
  <2>5. Numeric
    BY <2>2 DEF Init, Numeric, StartupInv, CacheInv, RoundInv, PruneInv, FreshInv,
                QueryLastIndexedRound, MaxOf, NoRound, IntsOK
  <2>. QED
    BY <2>1, <2>4, <2>5, Zenon DEF IInv, Numeric
<1>2. IInv /\ [Next]_vars => IInv'
  BY SafetyStep, Zenon
<1>. QED
  BY <1>1, <1>2, PTL DEF Spec

(* Under NormalOperation, for every chain and configuration, the Continues *)
(* tip that StoreBlockData upserts names the newest row of the block       *)
(* table, whatever is pruned, retried or interrupted.                      *)
THEOREM TipCorrect == ASSUME NormalOperation PROVE Spec => []TipIsNewestBlock
<1>1. IInv => TipIsNewestBlock
  BY Zenon DEF IInv
<1>. QED
  BY <1>1, Invariance, PTL

(* Under NormalOperation, the indexing worker skips no round that the node *)
(* still serves and the configuration wants.                               *)
THEOREM NoGap == ASSUME NormalOperation PROVE Spec => []NoAvoidableGap
<1>1. IInv => NoAvoidableGap
  BY Zenon DEF IInv
<1>. QED
  BY <1>1, Invariance, PTL

(* Under NormalOperation, an indexing worker that returned because         *)
(* indexing_end was reached has left nothing of the range unindexed.       *)
THEOREM EndComplete == ASSUME NormalOperation PROVE Spec => []EndMeansComplete
<1>1. IInv => EndMeansComplete
  <2> SUFFICES ASSUME IInv, ixPc = "done", NEW r \in FirstWanted..IndexingEnd
               PROVE  r \in DOMAIN blocks \/ r < lastRetained
    BY Zenon DEF EndMeansComplete
  <2>1. IntsOK
    BY TypeGivesInts, Zenon DEF IInv
  <2>2. r \in 0..continues /\ r >= FirstWanted
    BY <2>1, ConfigAssumption DEF IInv, RoundInv, CacheInv, MaxOf, IntsOK
  <2>. QED
    BY <2>1, <2>2 DEF IInv, NoAvoidableGap, IntsOK
<1>. QED
  BY <1>1, Invariance, PTL

(* Under NormalOperation, until a commit acknowledgement is lost, the      *)
(* round that the caching backend answers with between two iterations of   *)
(* the indexing worker is the Continues tip of the database.               *)
THEOREM CacheFresh == ASSUME NormalOperation PROVE Spec => []CachedTipIsFresh
<1>1. IInv => CachedTipIsFresh
  BY Zenon DEF IInv, FreshInv, CachedTipIsFresh
<1>. QED
  BY <1>1, Invariance, PTL

(* What a step does to rows and tips: it leaves them, stores a round above *)
(* the tip, writes a higher LastRetained tip, or deletes rows more than    *)
(* pruning_step below the tip.                                             *)
LEMMA StepKinds ==
    ASSUME NormalOperation, IInv, IInv', [Next]_vars
    PROVE  \/ UNCHANGED dbVars
           \/ /\ round \in Rounds /\ continues < round
              /\ continues' = round /\ DOMAIN blocks' = DOMAIN blocks \cup {round}
              /\ UNCHANGED lastRetained
           \/ lastRetained <= lastRetained' /\ UNCHANGED <<blocks, continues>>
           \/ /\ pruneRound \in Rounds /\ pruneRound + PruningStep <= continues
              /\ DOMAIN blocks' = {x \in DOMAIN blocks : x >= pruneRound}
              /\ UNCHANGED <<continues, lastRetained>>
<1>1. IntsOK /\ IntsOK'
  BY TypeGivesInts, PTL DEF IInv
<1>2. CASE StoreCommits \/ StoreAckLost
  <2>1. round \in Rounds /\ coreParameters \in Nat
    BY <1>2, Zenon DEF StoreCommits, StoreAckLost, IInv, LocalsOK
  <2>2. continues < round
    BY <1>1, <1>2, RowStored, Zenon DEF StoreCommits, StoreAckLost, envVars
  <2>3. DOMAIN blocks' = DOMAIN blocks \cup {round}
    BY <1>2, <2>1, StoreRowType, Zenon DEF StoreCommits, StoreAckLost, IInv
  <2>. QED
    BY <1>2, <2>1, <2>2, <2>3, Zenon DEF StoreCommits, StoreAckLost
<1>3. CASE PruneStoreTip
  BY <1>1, <1>3, Zenon DEF PruneStoreTip, IInv, PruneInv, IntsOK
<1>4. CASE PruneDelete
  <2>1. pruneRound \in Rounds
    BY Zenon DEF IInv, TypeOK
  <2>2. pruneRound + PruningStep <= continues
    BY <1>1, <1>4, RowsPruned DEF PruneDelete, envVars
  <2>3. DOMAIN blocks' = {x \in DOMAIN blocks : x >= pruneRound}
    BY <1>4, <2>1, DeleteType, Zenon DEF PruneDelete, IInv
  <2>. QED
    BY <1>4, <2>1, <2>2, <2>3, Zenon DEF PruneDelete
<1>5. CASE ~(StoreCommits \/ StoreAckLost \/ PruneStoreTip \/ PruneDelete)
  BY <1>5, Zenon DEF Next, vars, dbVars, IndexingWorker, PruningWorker, NodeProduces, NodePrunes,
     CacheStartRead, CacheStartStore, QueryStart, ConfigureEnd, ConfigureEndFails,
     Fetch, FetchFails, StoreFails, StoreLookupFails, Notify, PruneQuery, PruneFails, Crash
<1>. QED
  BY <1>2, <1>3, <1>4, <1>5, Zenon

(* Under NormalOperation, pruning never deletes one of the pruning_step    *)
(* rounds below the tip, however late the deletion comes.                  *)
THEOREM PruningSafe == ASSUME NormalOperation PROVE Spec => PruneKeepsWindow
<1>1. IInv /\ IInv' /\ [Next]_vars =>
        [\A r \in DOMAIN blocks \ DOMAIN blocks' : r + PruningStep < continues]_vars
  <2> SUFFICES ASSUME IInv, IInv', [Next]_vars,
                      NEW r \in DOMAIN blocks, r \notin DOMAIN blocks'
               PROVE  r + PruningStep < continues
    OBVIOUS
  <2>1. IntsOK /\ PruningStep \in Nat
    BY TypeGivesInts, ConfigAssumption, Zenon DEF IInv
  <2>. QED
    BY <2>1, StepKinds DEF dbVars, IntsOK
<1>. QED
  BY <1>1, Invariance, PTL DEF Spec, PruneKeepsWindow

(* Under NormalOperation, neither tip moves back, over failed and repeated *)
(* transactions, restarts and pruning.                                     *)
THEOREM TipsMonotone == ASSUME NormalOperation PROVE Spec => TipsNeverRetreat
<1>1. IInv /\ IInv' /\ [Next]_vars =>
        [continues' >= continues /\ lastRetained' >= lastRetained]_vars
  <2> SUFFICES ASSUME IInv, IInv', [Next]_vars
               PROVE  continues' >= continues /\ lastRetained' >= lastRetained
    OBVIOUS
  <2>1. IntsOK /\ IntsOK'
    BY TypeGivesInts, PTL DEF IInv
  <2>. QED
    BY <2>1, StepKinds DEF dbVars, IntsOK
<1>. QED
  BY <1>1, Invariance, PTL DEF Spec, TipsNeverRetreat

(* Under NormalOperation, the database the workers maintain implements the *)
(* abstract IndexedWindow: a reader only ever sees the window extended by  *)
(* a newer round or cut at its old end.                                    *)
THEOREM Refinement == ASSUME NormalOperation PROVE Spec => WindowSpec
<1>1. Init => Window!Init
  BY Zenon DEF Init, Window!Init, NoRound
<1>2. IInv /\ IInv' /\ [Next]_vars => [Window!Next]_(Window!windowVars)
  <2> SUFFICES ASSUME IInv, IInv', [Next]_vars
               PROVE  Window!Next \/ UNCHANGED <<DOMAIN blocks, continues>>
    BY Zenon DEF Window!windowVars
  <2>1. IntsOK /\ PruningStep \in Nat
    BY TypeGivesInts, ConfigAssumption, Zenon DEF IInv
  <2>2. CASE /\ round \in Rounds /\ continues < round
             /\ continues' = round /\ DOMAIN blocks' = DOMAIN blocks \cup {round}
    BY <2>1, <2>2, Zenon DEF Window!Next, Window!Extend, IntsOK
  <2>3. CASE /\ pruneRound \in Rounds /\ pruneRound + PruningStep <= continues
             /\ DOMAIN blocks' = {x \in DOMAIN blocks : x >= pruneRound}
             /\ UNCHANGED continues
    BY <2>1, <2>3 DEF Window!Next, Window!DropBelow, IntsOK
  <2>. QED
    BY <2>2, <2>3, StepKinds, Zenon DEF dbVars
<1>. QED
  BY <1>1, <1>2, Invariance, PTL DEF Spec, WindowSpec, Window!Spec
-----------------------------------------------------------------------------
(* The parameters a round is stored with.                                  *)

EpochIn(c, r) == Cardinality({t \in 0..r : c[t] = "EpochTransition"})

(* The round the indexing worker stores next, while nothing has parted it  *)
(* from the tip.                                                           *)
NextRound == MaxOf(continues + 1, FirstWanted)

(* The case ParametersOfOwnEpoch is about. *)
Followed == nodeRetained = 0 /\ ~ackLost

(* The round in hand is the next one. *)
HandInv ==
    /\ ixPc \in {"range", "fetch", "store"} => round = NextRound
    /\ ixPc = "notify" => FirstWanted <= round /\ continues = round

(* Parameters that will not be queried again are right for the round in    *)
(* hand and for the next one, unless that one is itself a transition: its  *)
(* row may have the parameters of either epoch.                            *)
ParamsInv ==
    /\ ixPc \in {"store", "notify"} /\ chain[round] # "EpochTransition" =>
           coreParameters = EpochIn(chain, round)
    /\ /\ ixPc # "notify" /\ coreParameters # NoParams /\ ~queryEpochParameters
       /\ NextRound \in Rounds /\ chain[NextRound] # "EpochTransition"
       => coreParameters = EpochIn(chain, NextRound)

RowsInv ==
    \A r \in DOMAIN blocks : chain[r] = "Normal" => blocks[r] = EpochIn(chain, r)

EpochInv == Followed => HandInv /\ ParamsInv /\ RowsInv

(* A round that is no transition is in the epoch of the round before it. *)
LEMMA SameEpoch ==
    ASSUME NEW c, NEW r \in Nat, c[r + 1] # "EpochTransition"
    PROVE  EpochIn(c, r + 1) = EpochIn(c, r)
<1>1. 0..(r + 1) = 0..r \cup {r + 1}
  OBVIOUS
<1>2. {t \in 0..(r + 1) : c[t] = "EpochTransition"} = {t \in 0..r : c[t] = "EpochTransition"}
  BY <1>1, Zenon
<1>. QED
  BY <1>2, Zenon DEF EpochIn

(* The rows of a table after a round is stored or old rounds are deleted. *)
LEMMA RowsStored ==
    ASSUME RowsInv, NEW r, blocks' = StoreRow(r), chain' = chain,
           chain[r] = "Normal" => coreParameters = EpochIn(chain, r)
    PROVE  RowsInv'
<1>1. DOMAIN blocks' = DOMAIN blocks \cup {r}
  BY Zenon DEF StoreRow
<1>2. \A x \in DOMAIN blocks' : blocks'[x] = IF x = r THEN coreParameters ELSE blocks[x]
  BY <1>1, Zenon DEF StoreRow
<1>. QED
  BY <1>1, <1>2, Zenon DEF RowsInv

LEMMA RowsDeleted ==
    ASSUME RowsInv, NEW r, blocks' = Delete(r), chain' = chain PROVE RowsInv'
<1>1. /\ DOMAIN blocks' = {x \in DOMAIN blocks : x >= r}
      /\ \A x \in DOMAIN blocks' : blocks'[x] = blocks[x]
  BY Zenon DEF Delete, Restrict
<1>. QED
  BY <1>1, Zenon DEF RowsInv

(* Every step keeps it. *)
LEMMA EpochStep ==
    ASSUME NormalOperation, IInv, EpochInv, [Next]_vars PROVE EpochInv'
<1>1. IntsOK
  BY TypeGivesInts, Zenon DEF IInv
<1>c. chain' = chain
  BY Zenon DEF Next, vars, envVars, IndexingWorker, PruningWorker, NodeProduces, NodePrunes,
     CacheStartRead, CacheStartStore, QueryStart, ConfigureEnd, ConfigureEndFails,
     Fetch, FetchFails, StoreCommits, StoreFails, StoreAckLost, StoreLookupFails, Notify,
     PruneQuery, PruneStoreTip, PruneDelete, PruneFails, Crash
<1>n. UNCHANGED <<nodeRetained, continues>> => NextRound' = NextRound /\ FirstWanted' = FirstWanted
  BY Zenon DEF NextRound, FirstWanted, MaxOf
<1>r. UNCHANGED blocks => (RowsInv => RowsInv')
  BY <1>c, Zenon DEF RowsInv
<1>k. ASSUME UNCHANGED <<nodeRetained, ackLost, continues, ixPc, round, coreParameters,
                         queryEpochParameters>>,
             RowsInv => RowsInv'
      PROVE  EpochInv'
  BY <1>c, <1>k, <1>n, Zenon DEF EpochInv, Followed, HandInv, ParamsInv
<1>2. CASE \/ NodeProduces \/ CacheStartRead \/ CacheStartStore \/ PruneQuery \/ PruneStoreTip
           \/ PruneFails \/ UNCHANGED vars
  BY <1>2, <1>k, <1>r, Zenon DEF NodeProduces, CacheStartRead, CacheStartStore, PruneQuery,
     PruneStoreTip, PruneFails, vars, envVars, dbVars, paramVars, ixVars
<1>3. CASE PruneDelete
  <2>1. RowsInv => RowsInv'
    BY <1>3, <1>c, RowsDeleted, Zenon DEF PruneDelete
  <2>. QED
    BY <1>3, <1>k, <2>1, Zenon DEF PruneDelete, envVars, paramVars, ixVars
<1>4. CASE NodePrunes \/ StoreAckLost
  <2>1. CASE NodePrunes
    <3>1. nodeRetained' # 0
      BY <1>1, <2>1 DEF NodePrunes, IntsOK
    <3>. QED
      BY <3>1, Zenon DEF EpochInv, Followed
  <2>. QED
    BY <1>4, <2>1, Zenon DEF StoreAckLost, EpochInv, Followed
<1>5. CASE StoreLookupFails
  BY <1>5, Zenon DEF StoreLookupFails, NormalOperation
<1>6. CASE QueryStart
  <2>1. csPc = "done" /\ ixPc = "idle"
    BY <1>6, Zenon DEF QueryStart, WorkersRun, NormalOperation
  <2>2. Followed => StartAt = NextRound
    BY <1>1, <2>1 DEF IInv, FreshInv, Followed, StartAt, NextRound, IntsOK, NoRound
  <2>. QED
    BY <1>6, <1>c, <1>n, <1>r, <2>1, <2>2, Zenon DEF QueryStart, EpochInv, Followed, HandInv,
       ParamsInv, envVars, dbVars, paramVars
<1>7. CASE ConfigureEnd
  <2>1. ixPc' \in {"fetch", "idle", "done"}
    <3>1. latest' \in Nat /\ round \in Nat
      BY <1>7, ConfigAssumption, MaxRoundAssumption DEF ConfigureEnd, IInv, TypeOK, Rounds
    <3>2. round <= latest' \/ round > latest'
      BY <3>1
    <3>. QED
      BY <1>7, <3>2, Zenon DEF ConfigureEnd
  <2>. QED
    BY <1>7, <1>c, <1>n, <1>r, <2>1, Zenon DEF ConfigureEnd, EpochInv, Followed, HandInv,
       ParamsInv, envVars, dbVars, paramVars
<1>8. CASE ConfigureEndFails \/ StoreFails
  BY <1>8, <1>c, <1>n, <1>r, Zenon DEF ConfigureEndFails, StoreFails, EpochInv, Followed, HandInv,
     ParamsInv, envVars, dbVars, paramVars
<1>9. CASE Fetch
  <2>1. round \in Rounds
    <3>1. round \in nodeRetained..nodeLatest /\ nodeLatest \in Rounds /\ nodeRetained \in 0..nodeLatest
      BY <1>9, Zenon DEF Fetch, Serves, IInv, TypeOK
    <3>. QED
      BY <3>1, MaxRoundAssumption DEF Rounds
  <2>2. /\ ixPc = "fetch" /\ ixPc' = "store" /\ round' = round
        /\ queryEpochParameters' = queryEpochParameters
        /\ UNCHANGED <<nodeRetained, ackLost, continues, blocks>>
        /\ \/ coreParameters' = EpochIn(chain, round)
           \/ /\ coreParameters' = coreParameters
              /\ coreParameters # NoParams /\ ~queryEpochParameters
    BY <1>9, Zenon DEF Fetch, NeedParameters, Epoch, EpochIn, envVars, dbVars
  <2>. QED
    BY <1>c, <1>n, <1>r, <2>1, <2>2, Zenon DEF EpochInv, Followed, HandInv, ParamsInv
<1>10. CASE FetchFails
  <2>1. /\ ixPc = "fetch" /\ ixPc' = "idle"
        /\ queryEpochParameters' = queryEpochParameters
        /\ UNCHANGED <<nodeRetained, ackLost, continues, blocks>>
        /\ coreParameters' = EpochIn(chain, round) \/ coreParameters' = coreParameters
    BY <1>10, Zenon DEF FetchFails, Epoch, EpochIn, envVars, dbVars
  <2>. QED
    BY <1>c, <1>n, <1>r, <2>1, Zenon DEF EpochInv, Followed, HandInv, ParamsInv
<1>11. CASE StoreCommits
  <2>1. /\ ixPc = "store" /\ ixPc' = "notify"
        /\ blocks' = StoreRow(round) /\ continues' = round /\ round' = round
        /\ UNCHANGED <<nodeRetained, ackLost, coreParameters>>
    BY <1>11, Zenon DEF StoreCommits, envVars, paramVars
  <2>2. Followed /\ EpochInv /\ RowsInv => RowsInv'
    BY <1>c, <2>1, RowsStored, Zenon DEF EpochInv, ParamsInv
  <2>3. FirstWanted' = FirstWanted
    BY <2>1, Zenon DEF FirstWanted
  <2>4. FirstWanted <= NextRound
    BY <1>1 DEF NextRound, MaxOf, IntsOK
  <2>. QED
    BY <1>c, <2>1, <2>2, <2>3, <2>4, Zenon DEF EpochInv, Followed, HandInv, ParamsInv
<1>12. CASE Notify
  <2> SUFFICES ASSUME Followed' PROVE HandInv' /\ ParamsInv' /\ RowsInv'
    BY Zenon DEF EpochInv
  <2>1. /\ ixPc = "notify" /\ round' = round + 1
        /\ ixPc' \in {"fetch", "idle"}
        /\ UNCHANGED <<nodeRetained, ackLost, continues, blocks, coreParameters>>
        /\ chain[round] = "EpochTransition" => queryEpochParameters'
    BY <1>12, Zenon DEF Notify, envVars, dbVars
  <2>2. Followed /\ HandInv /\ ParamsInv /\ RowsInv
    BY <2>1, Zenon DEF EpochInv, Followed
  <2>3. NextRound' = round + 1 /\ round \in Nat
    BY <1>1, <1>n, <2>1, <2>2 DEF HandInv, NextRound, MaxOf, IntsOK
  <2>4. HandInv'
    BY <2>1, <2>3, Zenon DEF HandInv
  <2>5. ASSUME ~queryEpochParameters', chain[round + 1] # "EpochTransition"
        PROVE  coreParameters' = EpochIn(chain', round + 1)
    <3>1. coreParameters = EpochIn(chain, round)
      BY <2>1, <2>2, <2>5, Zenon DEF ParamsInv
    <3>. QED
      BY <1>c, <2>1, <2>3, <2>5, <3>1, SameEpoch, Zenon
  <2>6. ParamsInv'
    BY <1>c, <2>1, <2>3, <2>5, Zenon DEF ParamsInv
  <2>. QED
    BY <1>r, <2>1, <2>2, <2>4, <2>6, Zenon
<1>13. CASE Crash
  BY <1>13, <1>c, <1>r, Zenon DEF Crash, EpochInv, Followed, HandInv, ParamsInv, envVars, dbVars
<1>. QED
  BY <1>2, <1>3, <1>4, <1>5, <1>6, <1>7, <1>8, <1>9, <1>10, <1>11, <1>12, <1>13, Zenon
     DEF Next, IndexingWorker, PruningWorker

(* Under NormalOperation, while the node prunes nothing and no commit      *)
(* acknowledgement is lost, a normal round is stored with the parameters   *)
(* of its own epoch: the flag that queryEpochParameters carries from one   *)
(* round to the next never lets the parameters of an earlier epoch through.*)
THEOREM ParametersCorrect == ASSUME NormalOperation PROVE Spec => []ParametersOfOwnEpoch
<1>1. Init => EpochInv
  BY Zenon DEF Init, EpochInv, HandInv, ParamsInv, RowsInv
<1>2. IInv /\ EpochInv /\ [Next]_vars => EpochInv'
  BY EpochStep, Zenon
<1>3. EpochInv => ParametersOfOwnEpoch
  BY Zenon DEF EpochInv, Followed, RowsInv, ParametersOfOwnEpoch, Epoch, EpochIn
<1>. QED
  BY <1>1, <1>2, <1>3, Invariance, PTL DEF Spec

-----------------------------------------------------------------------------
(* Lifecycle: how the process stops. *)

(* With a fixer that has nothing to do, every service that writes its      *)
(* error finds room in errCh: no goroutine that runRoot waits for blocks.  *)
ErrorsHaveRoom ==
    cfg.FixerStage = "done" =>
        \A s \in Services : service[s] = "send" => errCh < ErrChSize

(* The services that run as long as the process. *)
Lasting(s) == s \in {"backend", "gas"} \/ (s = "web3" /\ cfg.Gateway)

(* While runRoot is at its select statement, there is an error to receive  *)
(* from every lasting service that has returned; without a server, the     *)
(* context is cancelled when the indexer is done.                          *)
ReturnIsHeard ==
    main = "select" =>
        /\ \A s \in Services : Lasting(s) /\ service[s] = "done" => errCh > 0
        /\ ~cfg.Gateway /\ service["indexer"] = "done" => rootCancelled

(* The safety half of StopsCleanlyAfterFixer, and what an exit leaves.     *)
StopIsClean ==
    /\ cfg.FixerStage = "done" => main # "forced"
    /\ main = "exit" => CleanExit

Labels == {"none", "search", "run", "batch", "backoff", "wait", "send", "done"}

(* Errors that a service has written: one at most. *)
Sent(s) == IF service[s] = "done" THEN 1 ELSE 0

LifecycleTypes ==
    /\ cfg \in Config /\ service \in [Services -> Labels] /\ errCh \in Nat
    /\ rootCancelled \in BOOLEAN

(* errCh holds one error of each service that has returned, at most. *)
RoomInv ==
    errCh <= (IF cfg.FixerStage = "done" THEN 0 ELSE Sent("fixer"))
                + Sent("backend") + Sent("indexer") + Sent("gas") + Sent("web3")

(* What runRoot has not started yet. *)
StartInv ==
    /\ main = "backend" => service["backend"] = "none"
    /\ main \in {"backend", "indexer"} => service["indexer"] = "none"
    /\ main \in {"backend", "indexer", "gas"} => service["gas"] = "none"
    /\ main \in {"backend", "indexer", "gas", "server", "ws", "metrics"} =>
          service["web3"] = IF cfg.Gateway THEN "none" ELSE "done"
    /\ main \in {"server", "ws", "metrics"} => cfg.Gateway

(* A fixer that had nothing to do is over, and no other service backs off. *)
FixerOverInv ==
    /\ cfg.FixerStage = "done" => service["fixer"] = "done" /\ main # "forced"
    /\ \A s \in Services \ {"fixer"} : service[s] # "backoff"

(* A service that has returned has closed what it had opened. *)
ClosedInv ==
    /\ serverOpen => service["web3"] \in {"none", "run"}
    /\ ~cfg.IndexingDisable /\ service["indexer"] \in {"wait", "send", "done"} => ~sourceOpen
    /\ main = "exit" => AllDone

(* The mark that a service leaves when it returns. *)
HeardInv ==
    /\ main \notin {"wait", "exit", "forced"} =>
          \A s \in Services : Lasting(s) /\ service[s] = "done" => errCh > 0
    /\ ~cfg.Gateway /\ service["indexer"] = "done" => rootCancelled

LifecycleInv ==
    LifecycleTypes /\ RoomInv /\ StartInv /\ FixerOverInv /\ ClosedInv /\ HeardInv

LEMMA LifecycleInit == ProcessInit => LifecycleInv
<1> SUFFICES ASSUME ProcessInit PROVE LifecycleInv
  OBVIOUS
<1>1. cfg \in Config
  BY ConfigsAssumption DEF ProcessInit
<1>2. /\ service = [s \in Services |-> service[s]]
      /\ service["fixer"] = cfg.FixerStage
      /\ service["web3"] = IF cfg.Gateway THEN "none" ELSE "done"
      /\ \A s \in {"backend", "indexer", "gas"} : service[s] = "none"
  BY DEF ProcessInit, Services
<1>3. cfg.FixerStage \in {"search", "done"} /\ cfg.Gateway \in BOOLEAN
  BY <1>1 DEF Config
<1>4. LifecycleTypes
  BY <1>1, <1>2, <1>3, Zenon DEF LifecycleTypes, Services, Labels, ProcessInit
<1>5. RoomInv
  BY <1>2, <1>3 DEF RoomInv, Sent, ProcessInit
<1>6. StartInv /\ FixerOverInv /\ ClosedInv /\ HeardInv
  BY <1>2, <1>3 DEF StartInv, FixerOverInv, ClosedInv, HeardInv, Lasting, ProcessInit, Services
<1>. QED
  BY <1>4, <1>5, <1>6 DEF LifecycleInv

(* A step of one service: it opens nothing, an error that it writes is its *)
(* last step, and the indexer leaves a mark when there is no server.       *)
LEMMA ServiceStep ==
    ASSUME LifecycleInv, Alive, NEW s \in Services, NEW label \in Labels,
           service[s] \notin {"none", "done"}, ServiceGoes(s, label), label # "none",
           label = "backoff" => s = "fixer",
           errCh' = errCh \/ (label = "done" /\ errCh' = errCh + 1),
           Lasting(s) /\ label = "done" => errCh' = errCh + 1,
           rootCancelled' \in BOOLEAN, rootCancelled => rootCancelled',
           s = "indexer" /\ label = "done" /\ ~cfg.Gateway => rootCancelled',
           serverOpen' => serverOpen /\ s # "web3",
           sourceOpen' => sourceOpen,
           s = "indexer" /\ ~cfg.IndexingDisable => ~sourceOpen',
           UNCHANGED <<cfg, main>>
    PROVE  LifecycleInv'
<1>1. LifecycleTypes'
  <2>1. service' \in [Services -> Labels]
    BY Zenon DEF LifecycleInv, LifecycleTypes, ServiceGoes
  <2>2. cfg' \in Config /\ errCh' \in Nat /\ rootCancelled' \in BOOLEAN
    BY DEF LifecycleInv, LifecycleTypes
  <2>. QED
    BY <2>1, <2>2, Zenon DEF LifecycleTypes
<1>2. RoomInv'
  BY DEF LifecycleInv, LifecycleTypes, RoomInv, FixerOverInv, Sent, ServiceGoes, Services
<1>3. StartInv' /\ FixerOverInv'
  BY DEF LifecycleInv, LifecycleTypes, StartInv, FixerOverInv, ServiceGoes, Services, Config
<1>4. ClosedInv'
  BY DEF LifecycleInv, LifecycleTypes, ClosedInv, ServiceGoes, Services, Alive, Ended
<1>5. HeardInv'
  BY SMTT(30) DEF LifecycleInv, LifecycleTypes, HeardInv, Lasting, ServiceGoes, Services
<1>. QED
  BY <1>1, <1>2, <1>3, <1>4, <1>5 DEF LifecycleInv

(* A step of runRoot. *)
LEMMA MainStep ==
    ASSUME LifecycleInv, StartServices \/ Leave \/ LeaveOnSignal \/ Exit \/ ForceExit
    PROVE  LifecycleInv'
<1> USE DEF LifecycleInv, LifecycleTypes, RoomInv, Sent, StartInv, FixerOverInv, ClosedInv,
            HeardInv, Lasting, openVars
<1>1. CASE StartBackend
  BY <1>1 DEF StartBackend, ServiceGoes, Services, Labels, Config, AllDone
<1>2. CASE StartIndexer
  BY <1>2 DEF StartIndexer, ServiceGoes, Services, Labels, Config, AllDone
<1>3. CASE StartGas
  BY <1>3, SMTT(30) DEF StartGas, ServiceGoes, Services, Labels, Config, AllDone
<1>4. CASE CreateFails \/ StartHTTP \/ StartHTTPFails
  BY <1>4 DEF CreateFails, StartHTTP, StartHTTPFails, AllDone
<1>5. CASE StartWS \/ StartWSFails \/ StartMetricsFails
  BY <1>5 DEF StartWS, StartWSFails, StartMetricsFails, AllDone
<1>6. CASE StartWeb3
  BY <1>6 DEF StartWeb3, ServiceGoes, Services, Labels, Config, AllDone
<1>7. CASE Leave
  BY <1>7 DEF Leave, AllDone
<1>8. CASE LeaveOnSignal
  BY <1>8 DEF LeaveOnSignal, AllDone
<1>9. CASE Exit
  BY <1>9 DEF Exit, AllDone
<1>10. CASE ForceExit
  <2>1. cfg.FixerStage # "done"
    BY <1>10, SMTT(30) DEF ForceExit, Stuck, AllDone, Services, ErrChSize
  <2>. QED
    BY <1>10, <2>1 DEF ForceExit, AllDone
<1>. QED
  BY <1>1, <1>2, <1>3, <1>4, <1>5, <1>6, <1>7, <1>8, <1>9, <1>10, Zenon DEF StartServices

LEMMA LifecycleStep == LifecycleInv /\ [ProcessNext]_processVars => LifecycleInv'
<1> SUFFICES ASSUME LifecycleInv, [ProcessNext]_processVars PROVE LifecycleInv'
  OBVIOUS
<1> USE DEF LifecycleInv, LifecycleTypes, Services, Labels, Lasting, openVars
<1>1. ASSUME NEW s \in Services, Send(s) PROVE LifecycleInv'
  <2>1. s = "web3" => ~serverOpen
    BY <1>1 DEF ClosedInv, Send
  <2>2. s = "indexer" /\ ~cfg.IndexingDisable => ~sourceOpen
    BY <1>1, SMTT(30) DEF ClosedInv, Send
  <2>. QED
    BY <1>1, <2>1, <2>2, ServiceStep, Zenon DEF Send
<1>2. ASSUME NEW s \in Services, ContextDone(s) PROVE LifecycleInv'
  BY <1>2, ServiceStep, SMTT(30) DEF ContextDone
<1>3. CASE CloseServer
  BY <1>3, ServiceStep, SMTT(30) DEF CloseServer
<1>4. CASE FixerSearch
  BY <1>4, ServiceStep, SMTT(30) DEF FixerSearch
<1>5. CASE FixerLoop
  BY <1>5, ServiceStep, SMTT(30) DEF FixerLoop
<1>6. CASE FixerBatch
  BY <1>6, ServiceStep, SMTT(30) DEF FixerBatch
<1>7. CASE FixerWakes
  BY <1>7, ServiceStep DEF FixerWakes
<1>8. CASE IndexerDisabled
  <2> DEFINE c == rootCancelled'
  <2>1. \/ ServiceGoes("indexer", "send") /\ c = rootCancelled
        \/ ServiceGoes("indexer", "done") /\ c = (rootCancelled \/ ~cfg.Gateway)
    BY <1>8, Zenon DEF IndexerDisabled
  <2>2. /\ c \in BOOLEAN /\ rootCancelled => c
        /\ \/ ServiceGoes("indexer", "send")
           \/ ServiceGoes("indexer", "done") /\ (~cfg.Gateway => c)
    BY <2>1, Zenon
  <2>. QED
    BY <1>8, <2>2, ServiceStep, Zenon DEF IndexerDisabled
<1>9. CASE CloseSource
  BY <1>9, ServiceStep DEF CloseSource
<1>10. CASE IndexerReturns
  <2>1. ~cfg.IndexingDisable => ~sourceOpen
    BY <1>10 DEF ClosedInv, IndexerReturns
  <2> DEFINE c == rootCancelled'
  <2>2. \/ ServiceGoes("indexer", "send") /\ c = rootCancelled
        \/ ServiceGoes("indexer", "done") /\ c = (rootCancelled \/ ~cfg.Gateway)
    BY <1>10, Zenon DEF IndexerReturns
  <2>3. /\ c \in BOOLEAN /\ rootCancelled => c
        /\ \/ ServiceGoes("indexer", "send")
           \/ ServiceGoes("indexer", "done") /\ (~cfg.Gateway => c)
    BY <2>2, Zenon
  <2>. QED
    BY <1>10, <2>1, <2>3, ServiceStep, Zenon DEF IndexerReturns
<1>11. ASSUME NEW w \in Workers, WorkerReturns(w) PROVE LifecycleInv'
  BY <1>11, SMTT(30)
    DEF WorkerReturns, RoomInv, Sent, StartInv, FixerOverInv, ClosedInv, HeardInv, AllDone
<1>12. CASE UNCHANGED processVars
  BY <1>12 DEF processVars, RoomInv, Sent, StartInv, FixerOverInv, ClosedInv, HeardInv, AllDone
<1>13. CASE StartServices \/ Leave \/ LeaveOnSignal \/ Exit \/ ForceExit
  BY <1>13, MainStep
<1>. QED
  BY <1>1, <1>2, <1>3, <1>4, <1>5, <1>6, <1>7, <1>8, <1>9, <1>10, <1>11, <1>12, <1>13, SMTT(30)
    DEF ProcessNext

LEMMA LifecycleInvariant == ProcessSpec => []LifecycleInv
  BY LifecycleInit, LifecycleStep, PTL DEF ProcessSpec

(* When the fixer has nothing to do, the error channel of runRoot (main.go, *)
(* four slots, read once) always has room for a service that writes its    *)
(* error, for every configuration and order of signals, errors and         *)
(* returns: each of the other four writes one at most.                     *)
THEOREM NoBlockedSend == ProcessSpec => []ErrorsHaveRoom
<1>1. LifecycleInv => ErrorsHaveRoom
  BY DEF LifecycleInv, LifecycleTypes, RoomInv, FixerOverInv, Sent, Services, ErrChSize,
         ErrorsHaveRoom
<1>. QED
  BY <1>1, LifecycleInvariant, PTL

(* runRoot is told of every return that has to stop the process: nothing   *)
(* takes the error out of errCh before its select statement does.          *)
THEOREM ReturnsHeard == ProcessSpec => []ReturnIsHeard
<1>1. LifecycleInv => ReturnIsHeard
  BY DEF LifecycleInv, HeardInv, ReturnIsHeard
<1>. QED
  BY <1>1, LifecycleInvariant, PTL

(* A process whose fixer has nothing to do is never forced to exit by the  *)
(* timer of runRoot, and any process that exits by itself has closed its   *)
(* server and its node source.                                             *)
THEOREM StopsClean == ProcessSpec => []StopIsClean
<1>1. LifecycleInv => StopIsClean
  BY DEF LifecycleInv, FixerOverInv, ClosedInv, CleanExit, AllDone, Services, StopIsClean
<1>. QED
  BY <1>1, LifecycleInvariant, PTL
=============================================================================
