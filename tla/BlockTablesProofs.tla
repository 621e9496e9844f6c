------------------------- MODULE BlockTablesProofs -------------------------
(***************************************************************************)
(* Proofs about BlockTables, for every history, pruning step and bound on  *)
(* the rounds, and about the rows of BlockModels, for every runtime block. *)
(* The two tables are written and pruned in the same way, so each part of  *)
(* the inductive invariant speaks of one table and is used for both.       *)
(***************************************************************************)
EXTENDS BlockTables, BlockModels, WellFoundedInduction, TLAPS

(* The row of a transaction that succeeded at index i of round r. *)
SuccessRow(r, i) == [round |-> r, index |-> i, status |-> ReceiptStatusSuccessful]

(* row describes an execution of hash h. *)
TrueRow(row, h, hist) ==
    /\ row.round \in Rounds
    /\ row.index \in DOMAIN hist[row.round]
    /\ hist[row.round][row.index] = [hash |-> h, status |-> row.status]
    /\ row = [round |-> row.round, index |-> row.index, status |-> row.status]

(* A committed table. *)
TableInv(t, bs, hist) ==
    \A h \in DOMAIN t : TrueRow(t[h], h, hist) /\ t[h].round \in bs

(* Every success of a retained round has its row. *)
KeptInv(t, bs, hist, retained) ==
    \A r \in bs : r >= retained =>
        \A i \in DOMAIN hist[r] : Succeeded(hist[r][i]) =>
            hist[r][i].hash \in DOMAIN t /\ t[hist[r][i].hash] = SuccessRow(r, i)

(* The uncommitted rows of round k: one that will replace a committed row  *)
(* is a success.                                                           *)
OwnInv(own, t, hist, k) ==
    \A h \in DOMAIN own :
        /\ TrueRow(own[h], h, hist)
        /\ own[h].round = k
        /\ own[h].status = ReceiptStatusSuccessful \/ h \notin DOMAIN t

(* The successes among the first n - 1 transactions of round k are         *)
(* written.                                                                *)
WrittenBefore(own, hist, k, n) ==
    \A j \in DOMAIN hist[k] : j < n /\ Succeeded(hist[k][j]) =>
        hist[k][j].hash \in DOMAIN own /\ own[hist[k][j].hash] = SuccessRow(k, j)

(* Prune has deleted exactly the rows below pr, and holds their locks. *)
DeletedInv(t, own, deleted, pr) ==
    /\ deleted \subseteq DOMAIN t
    /\ DOMAIN own \cap deleted = {}
    /\ \A h \in DOMAIN t : h \in deleted <=> t[h].round < pr

Scalars ==
    /\ history \in Histories
    /\ lastIndexedRound \in 0..MaxRound
    /\ lastRetained \in Nat
    /\ lastRetained = 0 \/ lastRetained + PruningStep <= lastIndexedRound
    /\ blocks \subseteq 1..lastIndexedRound
    /\ stPc \in {"idle", "txs", "receipts"}
    /\ stPos \in Nat
    /\ stPc # "idle" => lastIndexedRound < MaxRound /\ stPos > 0
    /\ prPc \in {"idle", "txs", "receipts", "commit"}
    /\ prPc # "idle" => prRound = lastRetained

StoreInv ==
    /\ OwnInv(stTxs, txs, history, lastIndexedRound + 1)
    /\ OwnInv(stReceipts, receipts, history, lastIndexedRound + 1)
    /\ stPc = "idle" => stTxs = NoRows
    /\ stPc # "receipts" => stReceipts = NoRows
    /\ stPc = "txs" => WrittenBefore(stTxs, history, lastIndexedRound + 1, stPos)
    /\ stPc = "receipts" =>
          /\ WrittenBefore(stTxs, history, lastIndexedRound + 1, Len(Block) + 1)
          /\ WrittenBefore(stReceipts, history, lastIndexedRound + 1, stPos)

PruneInv ==
    /\ IF prPc \in {"receipts", "commit"}
       THEN DeletedInv(txs, stTxs, prTxs, prRound) ELSE prTxs = {}
    /\ IF prPc = "commit"
       THEN DeletedInv(receipts, stReceipts, prReceipts, prRound) ELSE prReceipts = {}

Committed ==
    /\ TableInv(txs, blocks, history) /\ TableInv(receipts, blocks, history)
    /\ KeptInv(txs, blocks, history, lastRetained)
    /\ KeptInv(receipts, blocks, history, lastRetained)

(* The inductive invariant. *)
TablesInv == Scalars /\ StoreInv /\ PruneInv /\ Committed

-----------------------------------------------------------------------------
(* What is known of a history. *)
LEMMA HistoryFacts ==
    ASSUME NEW hist \in Histories, NEW r \in Rounds
    PROVE  /\ hist[r] \in Seq(Tx)
           /\ \A i \in DOMAIN hist[r] : /\ i \in Nat /\ i > 0 /\ i <= Len(hist[r])
                                        /\ hist[r][i] \in Tx
           /\ \A i \in 1..Len(hist[r]) : i \in DOMAIN hist[r]
  BY HistoryAssumption

(* Two successes of one hash are the same execution. *)
LEMMA OneExecution ==
    ASSUME NEW hist \in Histories, NEW r \in Rounds, NEW s \in Rounds,
           NEW i \in DOMAIN hist[r], NEW j \in DOMAIN hist[s],
           Succeeded(hist[r][i]), Succeeded(hist[s][j]), hist[r][i].hash = hist[s][j].hash
    PROVE  r = s /\ i = j
  BY HistoryAssumption, Zenon DEF OneSuccess

(* A statement of StoreBlockData on one of the tables. *)
LEMMA WriteStep ==
    ASSUME Scalars, stPc # "idle", stPos <= Len(Block),
           NEW t, NEW own, NEW deleted, NEW pr,
           OwnInv(own, t, history, lastIndexedRound + 1),
           WrittenBefore(own, history, lastIndexedRound + 1, stPos),
           Unlocked(Block[stPos].hash, own, deleted)
    PROVE  LET new == Written(Block[stPos].hash, own, t) IN
           /\ OwnInv(new, t, history, lastIndexedRound + 1)
           /\ WrittenBefore(new, history, lastIndexedRound + 1, stPos + 1)
           /\ DeletedInv(t, own, deleted, pr) => DeletedInv(t, new, deleted, pr)
<1> DEFINE k == lastIndexedRound + 1
           h == Block[stPos].hash
           new == Written(h, own, t)
<1>1. /\ k \in Rounds /\ history \in Histories /\ Block = history[k]
      /\ stPos \in DOMAIN Block /\ Block[stPos] \in Tx /\ stPos \in Nat
  BY HistoryFacts, RoundAssumption DEF Scalars, Block, Rounds
<1>2. /\ Row = [round |-> k, index |-> stPos, status |-> Block[stPos].status]
      /\ TrueRow(Row, h, history) /\ Row.round = k
  BY <1>1, Zenon DEF Row, TrueRow, Tx
<1>3. CASE ~(Succeeded(Block[stPos]) \/ ~Sees(h, own, t))
  <2>1. new = own
    BY <1>3, Zenon DEF Written
  <2>2. WrittenBefore(own, history, k, stPos + 1)
    BY <1>1, <1>3, HistoryFacts DEF WrittenBefore
  <2> QED BY <2>1, <2>2
<1>4. CASE Succeeded(Block[stPos]) \/ ~Sees(h, own, t)
  <2>1. new = [x \in {h} \cup DOMAIN own |-> IF x = h THEN Row ELSE own[x]]
    BY <1>4, Zenon DEF Written, Over
  <2>2. OwnInv(new, t, history, k)
    BY <1>2, <1>4, <2>1 DEF OwnInv, Sees, Succeeded
  <2>3. ASSUME NEW j \in DOMAIN history[k], j < stPos + 1, Succeeded(history[k][j])
        PROVE  history[k][j].hash \in DOMAIN new /\ new[history[k][j].hash] = SuccessRow(k, j)
    <3>1. CASE j = stPos
      BY <3>1, <2>3, <2>1, <1>1, <1>2, Zenon DEF SuccessRow, Succeeded
    <3>2. CASE j # stPos
      <4>1. j < stPos /\ j \in Nat
        BY <3>2, <2>3, <1>1, HistoryFacts
      <4>2. /\ history[k][j].hash \in DOMAIN own
            /\ own[history[k][j].hash] = SuccessRow(k, j)
        BY <4>1, <2>3, Zenon DEF WrittenBefore
      <4>3. history[k][j].hash # h
        <5>1. CASE Succeeded(Block[stPos])
          BY <5>1, <3>2, <2>3, <1>1, OneExecution
        <5>2. CASE ~Sees(h, own, t)
          BY <5>2, <4>2, Zenon DEF Sees
        <5> QED BY <5>1, <5>2, <1>4
      <4> QED BY <4>2, <4>3, <2>1
    <3> QED BY <3>1, <3>2
  <2>4. WrittenBefore(new, history, k, stPos + 1)
    BY <2>3, Zenon DEF WrittenBefore
  <2>5. DeletedInv(t, own, deleted, pr) => DeletedInv(t, new, deleted, pr)
    BY <2>1 DEF DeletedInv, Unlocked
  <2> QED BY <2>2, <2>4, <2>5
<1> QED BY <1>3, <1>4

(* COMMIT of StoreBlockData, for one of the tables. *)
LEMMA CommitStep ==
    ASSUME Scalars, stPc = "receipts",
           NEW t, NEW own, NEW deleted, NEW pr, NEW n,
           pr \in Nat, pr <= lastIndexedRound,
           TableInv(t, blocks, history), KeptInv(t, blocks, history, lastRetained),
           OwnInv(own, t, history, lastIndexedRound + 1),
           n \in Nat, n > Len(Block),
           WrittenBefore(own, history, lastIndexedRound + 1, n)
    PROVE  /\ TableInv(Over(own, t), blocks \cup {lastIndexedRound + 1}, history)
           /\ KeptInv(Over(own, t), blocks \cup {lastIndexedRound + 1}, history, lastRetained)
           /\ DeletedInv(t, own, deleted, pr) =>
                 DeletedInv(Over(own, t), NoRows, deleted, pr)
<1> DEFINE k == lastIndexedRound + 1
           new == Over(own, t)
           bs == blocks \cup {k}
<1>1. /\ k \in Rounds /\ history \in Histories /\ Block = history[k] /\ k \notin blocks
      /\ blocks \subseteq Rounds /\ lastIndexedRound \in Nat
  BY RoundAssumption DEF Scalars, Block, Rounds
<1>2. /\ DOMAIN new = DOMAIN own \cup DOMAIN t
      /\ \A h \in DOMAIN own : new[h] = own[h]
      /\ \A h \in DOMAIN t \ DOMAIN own : new[h] = t[h]
  BY Zenon DEF Over
<1> HIDE DEF new
<1>3. TableInv(new, bs, history)
  BY <1>2, Zenon DEF TableInv, OwnInv
<1>4. ASSUME NEW r \in bs, r >= lastRetained, NEW i \in DOMAIN history[r],
             Succeeded(history[r][i])
      PROVE  history[r][i].hash \in DOMAIN new /\ new[history[r][i].hash] = SuccessRow(r, i)
  <2> DEFINE h == history[r][i].hash
  <2>1. CASE r = k
    BY <2>1, <1>1, <1>2, <1>4, HistoryFacts DEF WrittenBefore
  <2>2. CASE r # k
    <3>1. r \in blocks /\ h \in DOMAIN t /\ t[h] = SuccessRow(r, i)
      BY <2>2, <1>4, Zenon DEF KeptInv
    <3>2. h \notin DOMAIN own
      <4> SUFFICES ASSUME h \in DOMAIN own PROVE FALSE
        OBVIOUS
      <4>1. /\ own[h].round = k /\ own[h].index \in DOMAIN history[k]
            /\ history[k][own[h].index] = [hash |-> h, status |-> own[h].status]
            /\ own[h].status = ReceiptStatusSuccessful
        BY <3>1, Zenon DEF OwnInv, TrueRow
      <4>2. Succeeded(history[k][own[h].index]) /\ history[k][own[h].index].hash = h
        BY <4>1 DEF Succeeded
      <4> QED BY <4>1, <4>2, <3>1, <1>1, <1>4, <2>2, OneExecution
    <3> QED BY <3>1, <3>2, <1>2
  <2> QED BY <2>1, <2>2
<1>5. KeptInv(new, bs, history, lastRetained)
  BY <1>4, Zenon DEF KeptInv
<1>6. ASSUME DeletedInv(t, own, deleted, pr)
      PROVE  DeletedInv(new, NoRows, deleted, pr)
  <2>1. \A h \in DOMAIN own : ~(own[h].round < pr) /\ h \notin deleted
    BY <1>1, <1>6 DEF OwnInv, DeletedInv
  <2> QED BY <1>2, <1>6, <2>1 DEF DeletedInv, NoRows
<1> QED BY <1>3, <1>5, <1>6 DEF new

(* Prune's DELETE on one of the tables. *)
LEMMA DeleteStep ==
    ASSUME NEW t, NEW own, Below(t) \cap DOMAIN own = {}
    PROVE  DeletedInv(t, own, Below(t), prRound)
  BY Zenon DEF DeletedInv, Below

(* COMMIT of Prune, for one of the tables. *)
LEMMA PruneStep ==
    ASSUME Scalars, prRound = lastRetained,
           NEW t, NEW own, NEW deleted, NEW k,
           TableInv(t, blocks, history), KeptInv(t, blocks, history, lastRetained),
           OwnInv(own, t, history, k),
           DeletedInv(t, own, deleted, prRound)
    PROVE  LET new == Restrict(t, DOMAIN t \ deleted)
               bs == {r \in blocks : r >= prRound}
           IN  /\ TableInv(new, bs, history)
               /\ KeptInv(new, bs, history, lastRetained)
               /\ OwnInv(own, new, history, k)
<1> DEFINE new == Restrict(t, DOMAIN t \ deleted)
           bs == {r \in blocks : r >= prRound}
<1>1. /\ DOMAIN new = DOMAIN t \ deleted
      /\ \A h \in DOMAIN new : new[h] = t[h]
  BY Zenon DEF Restrict
<1> HIDE DEF new
<1>2. /\ blocks \subseteq Nat /\ prRound \in Nat
  BY DEF Scalars
<1>3. TableInv(new, bs, history)
  <2> SUFFICES ASSUME NEW h \in DOMAIN new
               PROVE  TrueRow(new[h], h, history) /\ new[h].round \in bs
    BY Zenon DEF TableInv
  <2>1. h \in DOMAIN t /\ h \notin deleted /\ new[h] = t[h]
    BY <1>1, Zenon
  <2>2. TrueRow(t[h], h, history) /\ t[h].round \in blocks
    BY <2>1, Zenon DEF TableInv
  <2>3. ~(t[h].round < prRound)
    BY <2>1, Zenon DEF DeletedInv
  <2>4. t[h].round >= prRound
    <3> DEFINE x == t[h].round
    <3>1. x \in Nat
      BY <2>2, <1>2, Zenon
    <3> HIDE DEF x
    <3>2. ~(x < prRound)
      BY <2>3, Zenon DEF x
    <3>3. x >= prRound
      BY <3>1, <3>2, <1>2
    <3> QED BY <3>3 DEF x
  <2>5. t[h].round \in bs
    BY <2>2, <2>4, Zenon
  <2> QED BY <2>1, <2>2, <2>5
<1>4. KeptInv(new, bs, history, lastRetained)
  <2> SUFFICES ASSUME NEW r \in bs, NEW i \in DOMAIN history[r], Succeeded(history[r][i])
               PROVE  /\ history[r][i].hash \in DOMAIN new
                      /\ new[history[r][i].hash] = SuccessRow(r, i)
    BY Zenon DEF KeptInv
  <2>1. history[r][i].hash \in DOMAIN t /\ t[history[r][i].hash] = SuccessRow(r, i)
    BY Zenon DEF KeptInv
  <2>2. ~(SuccessRow(r, i).round < prRound)
    BY <1>2 DEF SuccessRow
  <2> QED BY <2>1, <2>2, <1>1 DEF DeletedInv
<1>5. OwnInv(own, new, history, k)
  BY <1>1, Zenon DEF OwnInv
<1> QED BY <1>3, <1>4, <1>5 DEF new

-----------------------------------------------------------------------------
LEMMA TablesInit == Init => TablesInv
<1> SUFFICES ASSUME Init PROVE TablesInv
  OBVIOUS
<1>1. DOMAIN NoRows = {}
  BY Zenon DEF NoRows
<1>2. Scalars
  BY RoundAssumption DEF Init, Scalars
<1>3. StoreInv
  BY <1>1, Zenon DEF Init, StoreInv, OwnInv
<1>4. PruneInv
  BY Zenon DEF Init, PruneInv
<1>5. Committed
  BY <1>1, Zenon DEF Init, Committed, TableInv, KeptInv
<1> QED BY <1>2, <1>3, <1>4, <1>5 DEF TablesInv

LEMMA NoRowsFacts ==
    /\ DOMAIN NoRows = {}
    /\ \A t, hist, k : OwnInv(NoRows, t, hist, k)
    /\ \A hist, k : hist \in Histories /\ k \in Rounds => WrittenBefore(NoRows, hist, k, 1)
    /\ \A t, own, deleted, pr :
          DeletedInv(t, own, deleted, pr) => DeletedInv(t, NoRows, deleted, pr)
<1>1. DOMAIN NoRows = {}
  BY Zenon DEF NoRows
<1>2. \A hist, k : hist \in Histories /\ k \in Rounds => WrittenBefore(NoRows, hist, k, 1)
  BY HistoryFacts DEF WrittenBefore
<1> QED BY <1>1, <1>2 DEF OwnInv, DeletedInv

(* The steps that store a round. *)
LEMMA StoreSteps == TablesInv /\ Store => TablesInv'
<1> SUFFICES ASSUME TablesInv, Store PROVE TablesInv'
  OBVIOUS
<1>0. /\ Scalars /\ StoreInv /\ PruneInv /\ Committed
      /\ lastIndexedRound \in Nat /\ MaxRound \in Nat /\ stPos \in Nat /\ lastRetained \in Nat
      /\ PruningStep \in Nat
  BY RoundAssumption, StepAssumption DEF TablesInv, Scalars
<1>1. CASE Begin
  <2>1. Scalars'
    BY <1>0, <1>1 DEF Begin, prVars, Scalars
  <2>2. WrittenBefore(stTxs, history, lastIndexedRound + 1, 1)
    BY <1>0, <1>1, NoRowsFacts DEF Begin, StoreInv, Scalars, Rounds
  <2>3. StoreInv'
    BY <1>0, <1>1, <2>2, Zenon DEF Begin, prVars, StoreInv, Block
  <2>4. PruneInv' /\ Committed'
    BY <1>0, <1>1, Zenon DEF Begin, prVars, PruneInv, Committed
  <2> QED BY <2>1, <2>3, <2>4 DEF TablesInv
<1>2. CASE StoreTx
  <2> DEFINE new == Written(Block[stPos].hash, stTxs, txs)
  <2>1. /\ OwnInv(new, txs, history, lastIndexedRound + 1)
        /\ WrittenBefore(new, history, lastIndexedRound + 1, stPos + 1)
        /\ DeletedInv(txs, stTxs, prTxs, prRound) => DeletedInv(txs, new, prTxs, prRound)
    BY <1>0, <1>2, WriteStep, Zenon DEF StoreTx, StoreInv
  <2>2. /\ stTxs' = new
        /\ stPc = "txs" /\ stPos' = stPos + 1
        /\ UNCHANGED <<history, lastIndexedRound, lastRetained, blocks, txs, receipts,
                       stPc, stReceipts, prPc, prRound, prTxs, prReceipts>>
    BY <1>2, Zenon DEF StoreTx, prVars
  <2> HIDE DEF new
  <2>3. Scalars'
    BY <1>0, <2>2 DEF Scalars
  <2>4. StoreInv'
    BY <1>0, <2>1, <2>2, Zenon DEF StoreInv
  <2>5. PruneInv' /\ Committed'
    BY <1>0, <2>1, <2>2, Zenon DEF PruneInv, Committed
  <2> QED BY <2>3, <2>4, <2>5 DEF TablesInv
<1>3. CASE TxsStored
  <2>1. /\ stPc = "txs" /\ stPc' = "receipts" /\ stPos > Len(Block) /\ stPos' = 1
        /\ UNCHANGED <<history, lastIndexedRound, lastRetained, blocks, txs, receipts,
                       stTxs, stReceipts, prPc, prRound, prTxs, prReceipts>>
    BY <1>3, Zenon DEF TxsStored, prVars
  <2>2. Scalars'
    BY <1>0, <2>1 DEF Scalars
  <2>3. history \in Histories /\ lastIndexedRound + 1 \in Rounds
    BY <1>0, <2>1 DEF Scalars, Rounds
  <2>4. WrittenBefore(stTxs, history, lastIndexedRound + 1, Len(Block) + 1)
    BY <1>0, <2>1, <2>3, HistoryFacts DEF StoreInv, WrittenBefore, Block
  <2>5. WrittenBefore(stReceipts, history, lastIndexedRound + 1, 1)
    BY <1>0, <2>1, <2>3, NoRowsFacts, Zenon DEF StoreInv
  <2>6. StoreInv'
    BY <1>0, <2>1, <2>4, <2>5, Zenon DEF StoreInv, Block
  <2>7. PruneInv' /\ Committed'
    BY <1>0, <2>1, Zenon DEF PruneInv, Committed
  <2> QED BY <2>2, <2>6, <2>7 DEF TablesInv
<1>4. CASE StoreReceipt
  <2> DEFINE new == Written(Block[stPos].hash, stReceipts, receipts)
  <2>1. /\ OwnInv(new, receipts, history, lastIndexedRound + 1)
        /\ WrittenBefore(new, history, lastIndexedRound + 1, stPos + 1)
        /\ DeletedInv(receipts, stReceipts, prReceipts, prRound)
              => DeletedInv(receipts, new, prReceipts, prRound)
    BY <1>0, <1>4, WriteStep, Zenon DEF StoreReceipt, StoreInv
  <2>2. /\ stReceipts' = new
        /\ stPc = "receipts" /\ stPos' = stPos + 1
        /\ UNCHANGED <<history, lastIndexedRound, lastRetained, blocks, txs, receipts,
                       stPc, stTxs, prPc, prRound, prTxs, prReceipts>>
    BY <1>4, Zenon DEF StoreReceipt, prVars
  <2> HIDE DEF new
  <2>3. Scalars'
    BY <1>0, <2>2 DEF Scalars
  <2>4. StoreInv'
    BY <1>0, <2>1, <2>2, Zenon DEF StoreInv, Block
  <2>5. PruneInv' /\ Committed'
    BY <1>0, <2>1, <2>2, Zenon DEF PruneInv, Committed
  <2> QED BY <2>3, <2>4, <2>5 DEF TablesInv
<1>5. CASE Commit
  <2> DEFINE bs == blocks \cup {lastIndexedRound + 1}
             pr == IF prPc = "idle" THEN 0 ELSE prRound
  <2>1. /\ stPc = "receipts" /\ stPos > Len(Block)
        /\ lastIndexedRound' = lastIndexedRound + 1
        /\ blocks' = bs /\ txs' = Over(stTxs, txs) /\ receipts' = Over(stReceipts, receipts)
        /\ stPc' = "idle" /\ stPos' = 0 /\ stTxs' = NoRows /\ stReceipts' = NoRows
        /\ UNCHANGED <<history, lastRetained, prPc, prRound, prTxs, prReceipts>>
    BY <1>5, Zenon DEF Commit, prVars
  <2>2. pr \in Nat /\ pr <= lastIndexedRound
    BY <1>0 DEF Scalars
  <2>3. Len(Block) + 1 \in Nat /\ Len(Block) + 1 > Len(Block)
    <3>1. history \in Histories /\ lastIndexedRound + 1 \in Rounds
      BY <1>0, <2>1 DEF Scalars, Rounds
    <3> QED BY <3>1, HistoryFacts DEF Block
  <2>4. /\ TableInv(txs', bs, history)
        /\ KeptInv(txs', bs, history, lastRetained)
        /\ DeletedInv(txs, stTxs, prTxs, pr) => DeletedInv(txs', NoRows, prTxs, pr)
    BY <1>0, <2>1, <2>2, <2>3, CommitStep, Zenon DEF StoreInv, Committed
  <2>5. /\ TableInv(receipts', bs, history)
        /\ KeptInv(receipts', bs, history, lastRetained)
        /\ DeletedInv(receipts, stReceipts, prReceipts, pr)
              => DeletedInv(receipts', NoRows, prReceipts, pr)
    BY <1>0, <2>1, <2>2, CommitStep, Zenon DEF StoreInv, Committed
  <2>6. Scalars'
    BY <1>0, <2>1 DEF Scalars
  <2>7. StoreInv'
    BY <2>1, NoRowsFacts, Zenon DEF StoreInv
  <2>8. PruneInv'
    BY <1>0, <2>1, <2>4, <2>5, Zenon DEF PruneInv
  <2>9. Committed'
    BY <2>1, <2>4, <2>5, Zenon DEF Committed
  <2> QED BY <2>6, <2>7, <2>8, <2>9 DEF TablesInv
<1> QED BY <1>1, <1>2, <1>3, <1>4, <1>5 DEF Store

(* A rollback, reported or not, and the steps of Prune. *)
LEMMA OtherSteps ==
    TablesInv /\ (Abort \/ LookupFails \/ Prune \/ PruneAbort) => TablesInv'
<1> SUFFICES ASSUME TablesInv, Abort \/ LookupFails \/ Prune \/ PruneAbort
             PROVE  TablesInv'
  OBVIOUS
<1>0. /\ Scalars /\ StoreInv /\ PruneInv /\ Committed
      /\ lastIndexedRound \in Nat /\ MaxRound \in Nat /\ stPos \in Nat /\ lastRetained \in Nat
      /\ PruningStep \in Nat
  BY RoundAssumption, StepAssumption DEF TablesInv, Scalars
<1>1. CASE Abort \/ LookupFails
  <2>1. /\ stPc # "idle"
        /\ lastIndexedRound' \in {lastIndexedRound, lastIndexedRound + 1}
        /\ stPc' = "idle" /\ stPos' = 0 /\ stTxs' = NoRows /\ stReceipts' = NoRows
        /\ UNCHANGED <<history, lastRetained, blocks, txs, receipts,
                       prPc, prRound, prTxs, prReceipts>>
    BY <1>1, Zenon DEF Abort, LookupFails, prVars
  <2>2. Scalars'
    BY <1>0, <2>1 DEF Scalars
  <2>3. StoreInv'
    BY <2>1, NoRowsFacts, Zenon DEF StoreInv
  <2>4. PruneInv'
    BY <1>0, <2>1, NoRowsFacts, Zenon DEF PruneInv
  <2>5. Committed'
    BY <1>0, <2>1, Zenon DEF Committed
  <2> QED BY <2>2, <2>3, <2>4, <2>5 DEF TablesInv
<1>2. CASE PruneBegin
  <2>1. /\ prPc = "idle" /\ prPc' = "txs"
        /\ lastIndexedRound > PruningStep
        /\ prRound' = lastIndexedRound - PruningStep /\ lastRetained' = prRound'
        /\ UNCHANGED <<history, lastIndexedRound, blocks, txs, receipts,
                       stPc, stPos, stTxs, stReceipts, prTxs, prReceipts>>
    BY <1>2, Zenon DEF PruneBegin, stVars
  <2>2. Scalars' /\ lastRetained <= lastRetained' /\ lastRetained' \in Nat
    BY <1>0, <2>1 DEF Scalars
  <2>3. StoreInv'
    BY <1>0, <2>1, Zenon DEF StoreInv, Block
  <2>4. PruneInv'
    BY <1>0, <2>1, Zenon DEF PruneInv
  <2>5. \A r \in blocks : r >= lastRetained' => r >= lastRetained
    BY <1>0, <2>2 DEF Scalars
  <2>6. Committed'
    BY <1>0, <2>1, <2>5 DEF Committed, KeptInv
  <2> QED BY <2>2, <2>3, <2>4, <2>6 DEF TablesInv
<1>3. CASE PruneTxs
  <2>1. /\ prPc = "txs" /\ prPc' = "receipts"
        /\ Below(txs) \cap DOMAIN stTxs = {} /\ prTxs' = Below(txs)
        /\ UNCHANGED <<history, lastIndexedRound, lastRetained, blocks, txs, receipts,
                       stPc, stPos, stTxs, stReceipts, prRound, prReceipts>>
    BY <1>3, Zenon DEF PruneTxs, stVars
  <2>2. Scalars' /\ StoreInv' /\ Committed'
    BY <1>0, <2>1, Zenon DEF Scalars, StoreInv, Committed, Block
  <2>3. PruneInv'
    BY <1>0, <2>1, DeleteStep, Zenon DEF PruneInv
  <2> QED BY <2>2, <2>3 DEF TablesInv
<1>4. CASE PruneReceipts
  <2>1. /\ prPc = "receipts" /\ prPc' = "commit"
        /\ Below(receipts) \cap DOMAIN stReceipts = {} /\ prReceipts' = Below(receipts)
        /\ UNCHANGED <<history, lastIndexedRound, lastRetained, blocks, txs, receipts,
                       stPc, stPos, stTxs, stReceipts, prRound, prTxs>>
    BY <1>4, Zenon DEF PruneReceipts, stVars
  <2>2. Scalars' /\ StoreInv' /\ Committed'
    BY <1>0, <2>1, Zenon DEF Scalars, StoreInv, Committed, Block
  <2>3. PruneInv'
    BY <1>0, <2>1, DeleteStep, Zenon DEF PruneInv
  <2> QED BY <2>2, <2>3 DEF TablesInv
<1>5. CASE PruneCommit
  <2>1. /\ prPc = "commit" /\ prPc' = "idle"
        /\ blocks' = {r \in blocks : r >= prRound}
        /\ txs' = Restrict(txs, DOMAIN txs \ prTxs)
        /\ receipts' = Restrict(receipts, DOMAIN receipts \ prReceipts)
        /\ prTxs' = {} /\ prReceipts' = {}
        /\ UNCHANGED <<history, lastIndexedRound, lastRetained, stPc, stPos, stTxs, stReceipts>>
    BY <1>5, Zenon DEF PruneCommit, stVars
  <2>2. prRound = lastRetained
    BY <1>0, <2>1, Zenon DEF Scalars
  <2>3. /\ TableInv(txs', blocks', history) /\ KeptInv(txs', blocks', history, lastRetained)
        /\ OwnInv(stTxs, txs', history, lastIndexedRound + 1)
    BY <1>0, <2>1, <2>2, PruneStep, Zenon DEF StoreInv, PruneInv, Committed
  <2>4. /\ TableInv(receipts', blocks', history)
        /\ KeptInv(receipts', blocks', history, lastRetained)
        /\ OwnInv(stReceipts, receipts', history, lastIndexedRound + 1)
    BY <1>0, <2>1, <2>2, PruneStep, Zenon DEF StoreInv, PruneInv, Committed
  <2>5. Scalars'
    BY <1>0, <2>1, Zenon DEF Scalars
  <2>6. StoreInv'
    BY <1>0, <2>1, <2>3, <2>4, Zenon DEF StoreInv, Block
  <2>7. PruneInv' /\ Committed'
    BY <2>1, <2>3, <2>4, Zenon DEF PruneInv, Committed
  <2> QED BY <2>5, <2>6, <2>7 DEF TablesInv
<1>6. CASE PruneAbort
  <2>1. /\ prPc' = "idle" /\ prTxs' = {} /\ prReceipts' = {}
        /\ UNCHANGED <<history, lastIndexedRound, lastRetained, blocks, txs, receipts,
                       stPc, stPos, stTxs, stReceipts>>
    BY <1>6, Zenon DEF PruneAbort, stVars
  <2>2. Scalars' /\ StoreInv' /\ Committed'
    BY <1>0, <2>1, Zenon DEF Scalars, StoreInv, Committed, Block
  <2>3. PruneInv'
    BY <2>1, Zenon DEF PruneInv
  <2> QED BY <2>2, <2>3 DEF TablesInv
<1> QED BY <1>1, <1>2, <1>3, <1>4, <1>5, <1>6 DEF Prune

LEMMA TablesStep == TablesInv /\ [Next]_vars => TablesInv'
<1> SUFFICES ASSUME TablesInv, [Next]_vars PROVE TablesInv'
  OBVIOUS
<1>1. CASE Next
  BY <1>1, StoreSteps, OtherSteps, Zenon DEF Next
<1>2. CASE UNCHANGED vars
  BY <1>2, Zenon DEF vars, TablesInv, Scalars, StoreInv, PruneInv, Committed, Block
<1> QED BY <1>1, <1>2

-----------------------------------------------------------------------------
(* However the statements of StoreBlockData and Prune interleave and fail, *)
(* a success of a stored, retained round keeps its row and its receipt:    *)
(* the check against duplicates and the row locks are enough, with no      *)
(* isolation beyond READ COMMITTED.                                        *)
THEOREM SuccessesKept == Spec => []SuccessKept
<1>1. TablesInv => SuccessKept
  BY Zenon DEF TablesInv, Committed, KeptInv, SuccessKept, SuccessRow
<1> QED BY <1>1, TablesInit, TablesStep, PTL DEF Spec

(* Every row of both tables describes an execution that happened, in a     *)
(* block that is still stored: Prune leaves no row behind, even one that   *)
(* is stored while it runs.                                                *)
THEOREM RowsTrue == Spec => []RowsHaveBlocks
<1>1. TablesInv => RowsHaveBlocks
  BY Zenon DEF TablesInv, Committed, TableInv, TrueRow, RowsHaveBlocks
<1> QED BY <1>1, TablesInit, TablesStep, PTL DEF Spec

-----------------------------------------------------------------------------
(* The two transactions implement the window of rounds that readers see. *)

Window == INSTANCE IndexedWindow WITH
    stored <- blocks, tip <- IF continues = 0 THEN -1 ELSE continues

(* As long as every round that is reported stored is stored, Prune works   *)
(* below the tip.                                                          *)
WindowInv ==
    /\ continues \in 0..MaxRound /\ lastIndexedRound = continues
    /\ stPc # "idle" => continues < MaxRound
    /\ prPc # "idle" => prRound \in 1..continues

LEMMA WindowStep ==
    ASSUME WindowInv, Next, ~LookupFails
    PROVE  WindowInv' /\ (Window!Next \/ UNCHANGED Window!windowVars)
<1> USE RoundAssumption, StepAssumption DEF WindowInv, Window!windowVars
<1>1. CASE Begin \/ StoreTx \/ TxsStored \/ StoreReceipt
  <2>1. /\ stPc = "idle" => continues < MaxRound
        /\ UNCHANGED <<continues, lastIndexedRound, blocks, prPc, prRound>>
    BY <1>1 DEF Begin, StoreTx, TxsStored, StoreReceipt, prVars
  <2>. QED
    BY <2>1
<1>2. CASE Commit
  <2>1. Window!Extend(continues + 1) /\ continues + 1 \in Rounds
    BY <1>2 DEF Commit, Window!Extend, Rounds
  <2>2. WindowInv'
    BY <1>2 DEF Commit, prVars
  <2>. QED
    BY <2>1, <2>2, Zenon DEF Window!Next
<1>3. CASE Abort
  BY <1>3 DEF Abort, prVars
<1>4. CASE PruneBegin
  BY <1>4 DEF PruneBegin, stVars
<1>5. CASE PruneTxs \/ PruneReceipts \/ PruneAbort
  <2>1. /\ prPc # "idle" /\ (prPc' # "idle" => prRound' = prRound)
        /\ UNCHANGED <<continues, lastIndexedRound, blocks, stPc>>
    BY <1>5, Zenon DEF PruneTxs, PruneReceipts, PruneAbort, stVars
  <2>. QED
    BY <2>1
<1>6. CASE PruneCommit
  <2>1. Window!DropBelow(prRound) /\ prRound \in Rounds
    BY <1>6 DEF PruneCommit, Window!DropBelow, Rounds
  <2>2. WindowInv'
    BY <1>6 DEF PruneCommit, stVars
  <2>. QED
    BY <2>1, <2>2, Zenon DEF Window!Next
<1>. QED
  BY <1>1, <1>2, <1>3, <1>4, <1>5, <1>6, Zenon DEF Next, Store, Prune

(* Statement by statement, with aborts and with Prune running beside       *)
(* StoreBlockData, the database implements the abstract IndexedWindow as   *)
(* long as no lookup of an earlier transaction fails: a round is added     *)
(* above the tip and in one step, and the tip is never pruned.  A failed   *)
(* lookup is reported as a stored round, and breaks it: Prune then counts  *)
(* from a round that the database does not have.                           *)
THEOREM TablesImplementWindow ==
    Spec /\ [][~LookupFails]_vars => Window!Spec
<1>1. Init => WindowInv /\ Window!Init
  BY RoundAssumption DEF Init, WindowInv, Window!Init
<1>2. WindowInv /\ [Next]_vars /\ [~LookupFails]_vars =>
        WindowInv' /\ [Window!Next]_Window!windowVars
  <2> SUFFICES ASSUME WindowInv, [Next]_vars, [~LookupFails]_vars
               PROVE  WindowInv' /\ (Window!Next \/ UNCHANGED Window!windowVars)
    BY Zenon
  <2>1. CASE UNCHANGED vars
    BY <2>1, Zenon DEF vars, WindowInv, Window!windowVars
  <2>2. CASE Next /\ ~LookupFails
    BY <2>2, WindowStep, Zenon
  <2>. QED
    BY <2>1, <2>2, Zenon
<1>. QED
  BY <1>1, <1>2, PTL DEF Spec, Window!Spec

-----------------------------------------------------------------------------
(* The rows of a block.  What a loop computes is proved by counting up its *)
(* iterations.                                                             *)

(* A set of numbers that is not empty has a least one. *)
LEMMA LeastNumber ==
    ASSUME NEW T, T \subseteq Nat, T # {}
    PROVE  \E x \in T : \A y \in T : x <= y
<1>1. PICK x \in T : \A y \in T : ~(<<y, x>> \in OpToRel(<, Nat))
  BY WFMin, NatLessThanWellFounded, Zenon
<1>2. ASSUME NEW y \in T PROVE x <= y
  <2>1. ~(<<y, x>> \in OpToRel(<, Nat)) /\ x \in Nat /\ y \in Nat
    BY <1>1, <1>2
  <2>. QED
    BY <2>1 DEF OpToRel
<1>. QED
  BY <1>2

(* Induction up to n, over the set of numbers that have a property. *)
LEMMA CountUp ==
    ASSUME NEW n \in Nat, NEW G, 0 \in G, \A m \in 0..n - 1 : m \in G => m + 1 \in G
    PROVE  \A m \in 0..n : m \in G
<1> DEFINE T == {m \in 0..n : m \notin G}
<1> SUFFICES ASSUME T # {} PROVE FALSE
  BY Zenon
<1>1. T \subseteq Nat
  OBVIOUS
<1>2. PICK m \in T : \A y \in T : m <= y
  <2> HIDE DEF T
  <2>. QED
    BY <1>1, LeastNumber, Zenon
<1>3. m \in 0..n /\ m \notin G /\ m # 0
  BY <1>2, Zenon
<1>4. m - 1 \in 0..n - 1 /\ m - 1 \in 0..n /\ ~(m <= m - 1) /\ (m - 1) + 1 = m
  BY <1>3
<1>5. m - 1 \in G
  BY <1>2, <1>4, Zenon
<1>. QED
  BY <1>3, <1>4, <1>5, Zenon

Follows(f, start, step, n) ==
    f[0] = start /\ \A i \in 1..n : f[i] = step[i][f[i - 1]]

(* A function defined by recursion up to n exists. *)
LEMMA Recursion ==
    ASSUME NEW S, NEW start \in S, NEW n \in Nat, NEW step \in [1..n -> [S -> S]]
    PROVE  \E f \in [0..n -> S] : Follows(f, start, step, n)
<1> DEFINE G == {m \in 0..n : \E f \in [0..m -> S] : Follows(f, start, step, m)}
<1>1. 0 \in G
  <2> DEFINE f == [i \in 0..0 |-> start]
  <2>1. 0 \in 0..0 /\ 1..0 = {} /\ 0 \in 0..n
    OBVIOUS
  <2>2. f \in [0..0 -> S] /\ f[0] = start
    BY <2>1, Zenon
  <2>. QED
    BY <2>1, <2>2, Zenon DEF Follows
<1>2. ASSUME NEW m \in 0..n - 1, m \in G PROVE m + 1 \in G
  <2>1. PICK f \in [0..m -> S] : Follows(f, start, step, m)
    BY <1>2, Zenon
  <2> DEFINE g == [i \in 0..m + 1 |-> IF i = m + 1 THEN step[m + 1][f[m]] ELSE f[i]]
  <2>2. /\ m + 1 \in 0..n /\ m + 1 \in 1..n /\ m \in 0..m /\ m + 1 \in 0..m + 1
        /\ 0 \in 0..m /\ 0 # m + 1 /\ 0 \in 0..m + 1 /\ m # m + 1 /\ (m + 1) - 1 = m
        /\ \A i \in 0..m + 1 : i = m + 1 \/ i \in 0..m
        /\ \A i \in 1..m + 1 : i = m + 1 \/ i \in 1..m
        /\ \A i \in 1..m : i \in 0..m + 1 /\ i # m + 1 /\ i - 1 \in 0..m + 1 /\ i - 1 # m + 1
        /\ m \in 0..m + 1
    <3> HIDE DEF G
    <3>. QED
      BY <1>2
  <2>3. step[m + 1][f[m]] \in S
    BY <2>2, ZenonT(30)
  <2>4. \A i \in 0..m + 1 : g[i] \in S
    BY <2>2, <2>3, Zenon
  <2>5. g \in [0..m + 1 -> S]
    BY <2>4, Zenon
  <2>6. /\ g[0] = f[0] /\ g[m] = f[m] /\ g[m + 1] = step[m + 1][f[m]]
        /\ \A i \in 1..m : g[i] = f[i] /\ g[i - 1] = f[i - 1]
    BY <2>2, Zenon
  <2> HIDE DEF g
  <2>7. Follows(g, start, step, m + 1)
    <3>1. g[0] = start
      BY <2>1, <2>6, Zenon DEF Follows
    <3>2. ASSUME NEW i \in 1..m + 1 PROVE g[i] = step[i][g[i - 1]]
      <4>1. CASE i = m + 1
        BY <2>2, <2>6, <4>1, Zenon
      <4>2. CASE i \in 1..m
        BY <2>1, <2>6, <4>2, Zenon DEF Follows
      <4>. QED
        BY <2>2, <4>1, <4>2, Zenon
    <3>. QED
      BY <3>1, <3>2, Zenon DEF Follows
  <2>. QED
    BY <2>2, <2>5, <2>7, Zenon
<1>3. n \in 0..n
  OBVIOUS
<1>4. n \in G
  <2> HIDE DEF G
  <2>. QED
    BY <1>1, <1>2, <1>3, CountUp, Zenon
<1>. QED
  BY <1>4, Zenon

-----------------------------------------------------------------------------
(* Sums of amounts.                                                        *)

Adds(a, n, f) == f[0] = 0 /\ \A k \in 1..n : f[k] = f[k - 1] + a[k]

LEMMA SumsAdd ==
    ASSUME NEW n \in Nat, NEW a \in [1..n -> Nat]
    PROVE  Sums(a) \in [0..n -> Nat] /\ Adds(a, n, Sums(a))
<1>1. a \in Seq(Nat) /\ Len(a) = n
  OBVIOUS
<1> DEFINE Eq(f) == f = [k \in 0..n |-> IF k = 0 THEN 0 ELSE f[k - 1] + a[k]]
           step == [i \in 1..n |-> [x \in Nat |-> x + a[i]]]
           sum == CHOOSE f : Eq(f)
<1>2. Sums(a) = sum
  BY <1>1 DEF Sums
<1>3. step \in [1..n -> [Nat -> Nat]] /\ 0 \in Nat
  OBVIOUS
<1>4. \A i \in 1..n, x \in Nat : step[i][x] = x + a[i]
  OBVIOUS
<1> HIDE DEF step
<1>5. PICK f \in [0..n -> Nat] : Follows(f, 0, step, n)
  BY <1>3, Recursion, Zenon
<1>6. /\ \A i \in 0..n : i = 0 \/ (i # 0 /\ i \in 1..n /\ i - 1 \in 0..n)
      /\ \A i \in 1..n : i # 0 /\ i \in 0..n /\ i - 1 \in 0..n
      /\ 0 \in 0..n
  OBVIOUS
<1>7. Eq(f)
  <2>1. \A k \in 1..n : f[k] = f[k - 1] + a[k]
    BY <1>4, <1>5, <1>6, Zenon DEF Follows
  <2>2. \A k \in 0..n : f[k] = IF k = 0 THEN 0 ELSE f[k - 1] + a[k]
    BY <1>5, <1>6, <2>1, Zenon DEF Follows
  <2>3. f = [k \in 0..n |-> f[k]]
    BY Zenon
  <2>. QED
    BY <2>2, <2>3, Zenon
<1>8. Eq(sum)
  <2> HIDE DEF Eq
  <2>. QED
    BY <1>7, Zenon
<1> HIDE DEF sum
<1>9. /\ sum = [k \in 0..n |-> sum[k]] /\ sum[0] = 0
      /\ \A k \in 1..n : sum[k] = sum[k - 1] + a[k]
  BY <1>6, <1>8, Zenon
<1> HIDE DEF Eq
<1>10. \A m \in 0..n : sum[m] \in Nat
  <2> DEFINE G == {m \in 0..n : sum[m] \in Nat}
  <2>1. 0 \in G
    BY <1>6, <1>9
  <2>2. ASSUME NEW m \in 0..n - 1, m \in G PROVE m + 1 \in G
    <3>1. m + 1 \in 1..n /\ m + 1 \in 0..n /\ (m + 1) - 1 = m
      OBVIOUS
    <3>2. sum[m + 1] = sum[m] + a[m + 1] /\ sum[m] \in Nat /\ a[m + 1] \in Nat
      BY <1>9, <2>2, <3>1, Zenon
    <3>. QED
      BY <3>1, <3>2
  <2> HIDE DEF G
  <2>3. \A m \in 0..n : m \in G
    BY <2>1, <2>2, CountUp, Zenon
  <2>. QED
    BY <2>3 DEF G
<1>11. sum \in [0..n -> Nat]
  BY <1>9, <1>10, Zenon
<1>. QED
  BY <1>2, <1>9, <1>11, Zenon DEF Adds

(* Amounts of 0 add up to 0. *)
LEMMA NoAmounts ==
    ASSUME NEW n \in Nat, NEW a \in [1..n -> Nat], \A i \in 1..n : a[i] = 0
    PROVE  Sums(a)[n] = 0
<1> DEFINE A == Sums(a)
           G == {m \in 0..n : A[m] = 0}
<1>1. A[0] = 0 /\ \A k \in 1..n : A[k] = A[k - 1] + a[k]
  BY SumsAdd, Zenon DEF Adds
<1> HIDE DEF A
<1>2. 0 \in G
  BY <1>1
<1>3. ASSUME NEW m \in 0..n - 1, m \in G PROVE m + 1 \in G
  <2>1. m + 1 \in 1..n /\ m + 1 \in 0..n /\ (m + 1) - 1 = m
    OBVIOUS
  <2>2. A[m + 1] = A[m] + a[m + 1] /\ a[m + 1] = 0 /\ A[m] = 0
    BY <1>1, <1>3, <2>1, Zenon
  <2>. QED
    BY <2>1, <2>2
<1>4. n \in 0..n
  OBVIOUS
<1>5. n \in G
  <2> HIDE DEF G
  <2>. QED
    BY <1>2, <1>3, <1>4, CountUp, Zenon
<1>. QED
  BY <1>5 DEF A
(* The first sums do not depend on later amounts. *)
LEMMA SumsPrefix ==
    ASSUME NEW n \in Nat, NEW c \in Nat, NEW a \in [1..n -> Nat], NEW b \in [1..c -> Nat],
           n <= c, \A i \in 1..n : b[i] = a[i]
    PROVE  \A m \in 0..n : Sums(b)[m] = Sums(a)[m]
<1> DEFINE A == Sums(a)
           B == Sums(b)
           G == {m \in 0..n : B[m] = A[m]}
<1>1. /\ A[0] = 0 /\ B[0] = 0
      /\ \A k \in 1..n : A[k] = A[k - 1] + a[k]
      /\ \A k \in 1..c : B[k] = B[k - 1] + b[k]
  BY SumsAdd, Zenon DEF Adds
<1> HIDE DEF A, B
<1>2. 0 \in G
  BY <1>1
<1>3. ASSUME NEW m \in 0..n - 1, m \in G PROVE m + 1 \in G
  <2>1. m + 1 \in 1..n /\ m + 1 \in 1..c /\ m + 1 \in 0..n /\ (m + 1) - 1 = m
    OBVIOUS
  <2>2. A[m + 1] = A[m] + a[m + 1] /\ B[m + 1] = B[m] + b[m + 1]
    BY <1>1, <2>1, Zenon
  <2>3. B[m] = A[m] /\ b[m + 1] = a[m + 1]
    BY <1>3, <2>1, Zenon
  <2>. QED
    BY <2>1, <2>2, <2>3, Zenon
<1>4. \A m \in 0..n : m \in G
  <2> HIDE DEF G
  <2>. QED
    BY <1>2, <1>3, CountUp, Zenon
<1>. QED
  BY <1>4 DEF A, B

-----------------------------------------------------------------------------
(* The transactions of a runtime block.                                    *)

(* The events of an Ethereum transaction, and what they amount to. *)
LEMMA EventsType ==
    ASSUME NEW t \in EthTx
    PROVE  /\ Len(t.events) \in Nat
           /\ DOMAIN t.events = 1..Len(t.events)
           /\ \A i \in 1..Len(t.events) : t.events[i].n \in Nat
<1>1. t.events \in EventLists
  BY DEF EthTx
<1>2. t.events \in Seq([kind : EventKinds, n : Nat])
  BY <1>1, BatchAssumption, Zenon
<1> DEFINE R == [kind : EventKinds, n : Nat]
<1>3. \A e \in R : e.n \in Nat
  OBVIOUS
<1> HIDE DEF R
<1>4. \A s \in Seq(R) : /\ Len(s) \in Nat /\ DOMAIN s = 1..Len(s)
                       /\ \A i \in 1..Len(s) : s[i] \in R
  OBVIOUS
<1>. QED
  BY <1>2, <1>3, <1>4, Zenon DEF R

LEMMA AmountType ==
    ASSUME NEW t \in EthTx, NEW kind
    PROVE  /\ Amount(t, kind) \in Nat
           /\ EventsOf(t, kind) = {} => Amount(t, kind) = 0
<1> DEFINE n == Len(t.events)
           a == [i \in 1..n |-> IF i \in EventsOf(t, kind) THEN t.events[i].n ELSE 0]
<1>1. n \in Nat /\ DOMAIN t.events = 1..n /\ \A i \in 1..n : t.events[i].n \in Nat
  BY EventsType
<1> HIDE DEF n
<1>2. a \in [1..n -> Nat]
  BY <1>1
<1>3. Amount(t, kind) = Sums(a)[n]
  <2>1. Len(a) = n
    BY <1>1
  <2>. QED
    BY <1>1, <2>1 DEF Amount, Sum
<1>4. EventsOf(t, kind) = {} => \A i \in 1..n : a[i] = 0
  BY <1>1
<1> HIDE DEF a
<1>5. n \in 0..n
  BY <1>1
<1>6. Sums(a)[n] \in Nat
  BY <1>1, <1>2, <1>5, SumsAdd
<1>7. EventsOf(t, kind) = {} => Sums(a)[n] = 0
  BY <1>1, <1>2, <1>4, NoAmounts
<1>. QED
  BY <1>3, <1>6, <1>7

LEMMA GasUsedType ==
    ASSUME NEW t \in EthTx
    PROVE  GasUsed(t) \in Nat
<1>1. CASE GasReports(t) = {}
  BY <1>1, BatchAssumption, Zenon DEF GasUsed, EthTx
<1>2. CASE GasReports(t) # {}
  <2> DEFINE i == CHOOSE i \in GasReports(t) : TRUE
  <2>1. i \in GasReports(t)
    BY <1>2
  <2>2. i \in 1..Len(t.events)
    BY <2>1, EventsType DEF GasReports, EventsOf
  <2>3. GasUsed(t) = t.events[i].n
    BY <1>2 DEF GasUsed
  <2>. QED
    BY <2>2, <2>3, EventsType
<1>. QED
  BY <1>1, <1>2
(* What the runtime guarantees of a block. *)
LEMMA BatchFacts ==
    ASSUME NEW b \in Batches
    PROVE  /\ Len(b) \in Nat /\ DOMAIN b = 1..Len(b)
           /\ \A i \in 1..Len(b) :
                 /\ b[i].eth \in BOOLEAN
                 /\ b[i].price \in Prices \cup {NoPrice}
                 /\ b[i].eth => b[i] \in EthTx
                 /\ b[i].eth /\ ~b[i].ok => Amount(b[i], "evm") = 0
           /\ \A i, j \in 1..Len(b) :
                 b[i].eth /\ b[j].eth /\ b[i].ok /\ b[j].ok /\ b[i].hash = b[j].hash => i = j
<1>1. b \in SeqOf(RuntimeTx, MaxBatch) /\ IsBatch(b)
  BY Zenon DEF Batches
<1>2. PICK m \in 0..MaxBatch : b \in [1..m -> RuntimeTx]
  BY <1>1 DEF SeqOf
<1>3. m \in Nat /\ Len(b) = m /\ DOMAIN b = 1..m
  BY <1>2, BatchAssumption
<1>4. ASSUME NEW t \in RuntimeTx
      PROVE  /\ t.eth \in BOOLEAN
             /\ t.price \in Prices \cup {NoPrice}
             /\ t.eth => t \in EthTx
             /\ t.eth /\ ~t.ok => EventsOf(t, "evm") = {}
  BY <1>4, Zenon DEF RuntimeTx, EthTx, OtherTx
<1>5. ASSUME NEW i \in 1..Len(b)
      PROVE  /\ b[i].eth \in BOOLEAN
             /\ b[i].price \in Prices \cup {NoPrice}
             /\ b[i].eth => b[i] \in EthTx
             /\ b[i].eth /\ ~b[i].ok => Amount(b[i], "evm") = 0
  <2>1. b[i] \in RuntimeTx
    BY <1>2, <1>3
  <2>. QED
    BY <1>4, <2>1, AmountType, Zenon
<1>. QED
  BY <1>1, <1>3, <1>5 DEF IsBatch

-----------------------------------------------------------------------------
(* The decoding loop.                                                      *)

Log == [tx : TxHashes, index : Int, txIndex : Int]
Acc == [ethTxs : Seq(EthTx), logs : Seq(Log), median : Prices \cup {NoPrice}]
NewLogs(acc, t) == Logs2EthLogs(t, Len(acc.logs), Len(acc.ethTxs))

LEMMA NewLogsType ==
    ASSUME NEW acc \in Acc, NEW t \in EthTx
    PROVE  /\ NewLogs(acc, t) \in Seq(Log)
           /\ Len(NewLogs(acc, t)) = Amount(t, "evm")
           /\ \A k \in 1..Amount(t, "evm") :
                 NewLogs(acc, t)[k] =
                    [tx |-> t.hash, index |-> Len(acc.logs) + k - 1, txIndex |-> Len(acc.ethTxs)]
<1> DEFINE n == Amount(t, "evm")
<1>1. n \in Nat
  BY AmountType
<1>2. t.hash \in TxHashes
  BY DEF EthTx
<1>3. Len(acc.logs) \in Nat /\ Len(acc.ethTxs) \in Nat
  BY DEF Acc
<1>4. NewLogs(acc, t) = [k \in 1..n |->
          [tx |-> t.hash, index |-> Len(acc.logs) + k - 1, txIndex |-> Len(acc.ethTxs)]]
  BY DEF NewLogs, Logs2EthLogs
<1> HIDE DEF n
<1>5. NewLogs(acc, t) \in [1..n -> Log]
  BY <1>1, <1>2, <1>3, <1>4 DEF Log
<1>6. NewLogs(acc, t) \in Seq(Log) /\ Len(NewLogs(acc, t)) = n
  BY <1>1, <1>5
<1>. QED
  BY <1>4, <1>6, Zenon DEF n

(* One iteration keeps the type of what is accumulated. *)
LEMMA DecodeStep ==
    ASSUME NEW b \in Batches, NEW acc \in Acc, NEW n \in 1..Len(b)
    PROVE  /\ DecodeTx(acc, b, n) \in Acc
           /\ b[n].eth => /\ DecodeTx(acc, b, n).ethTxs = Append(acc.ethTxs, b[n])
                          /\ DecodeTx(acc, b, n).logs = acc.logs \o NewLogs(acc, b[n])
           /\ ~b[n].eth => /\ DecodeTx(acc, b, n).ethTxs = acc.ethTxs
                           /\ DecodeTx(acc, b, n).logs = acc.logs
<1> DEFINE p == MedianPrice(acc, b, n)
           priced == [acc EXCEPT !.median = p]
           with == [priced EXCEPT !.ethTxs = Append(@, b[n])]
<1>1. /\ acc.ethTxs \in Seq(EthTx) /\ acc.logs \in Seq(Log) /\ acc.median \in Prices \cup {NoPrice}
      /\ acc = [ethTxs |-> acc.ethTxs, logs |-> acc.logs, median |-> acc.median]
  BY DEF Acc
<1>2. p \in Prices \cup {NoPrice}
  BY <1>1, BatchFacts DEF MedianPrice
<1> HIDE DEF p
<1>3. priced = [ethTxs |-> acc.ethTxs, logs |-> acc.logs, median |-> p]
  BY <1>1
<1>4. CASE ~b[n].eth
  <2>1. DecodeTx(acc, b, n) = priced
    BY <1>4, Zenon DEF DecodeTx, p
  <2>. QED
    BY <1>1, <1>2, <1>3, <1>4, <2>1 DEF Acc
<1>5. CASE b[n].eth
  <2>1. b[n] \in EthTx
    BY <1>5, BatchFacts
  <2> DEFINE e == Append(acc.ethTxs, b[n])
  <2>2. with = [ethTxs |-> e, logs |-> acc.logs, median |-> p]
    <3> HIDE DEF priced, e
    <3>1. priced.ethTxs = acc.ethTxs
      BY <1>3
    <3>2. with = [priced EXCEPT !.ethTxs = e]
      BY <3>1, Zenon DEF e
    <3>. QED
      BY <1>3, <3>2
  <2>3. e \in Seq(EthTx) /\ Len(e) - 1 = Len(acc.ethTxs)
    BY <1>1, <2>1
  <2>4. DecodeLogs(with, b, n) = NewLogs(acc, b[n])
    BY <2>2, <2>3 DEF DecodeLogs, NewLogs
  <2>5. DecodeTx(acc, b, n) = [with EXCEPT !.logs = @ \o DecodeLogs(with, b, n)]
    BY <1>5, Zenon DEF DecodeTx, p
  <2> HIDE DEF priced, with, e
  <2>6. DecodeTx(acc, b, n) = [ethTxs |-> e, logs |-> acc.logs \o NewLogs(acc, b[n]), median |-> p]
    BY <2>2, <2>4, <2>5, Zenon
  <2>7. acc.logs \o NewLogs(acc, b[n]) \in Seq(Log)
    BY <1>1, <2>1, NewLogsType
  <2>8. DecodeTx(acc, b, n) \in Acc
    BY <1>2, <2>3, <2>6, <2>7 DEF Acc
  <2>9. DecodeTx(acc, b, n).ethTxs = e /\ DecodeTx(acc, b, n).logs = acc.logs \o NewLogs(acc, b[n])
    <3> DEFINE l == acc.logs \o NewLogs(acc, b[n])
               d == DecodeTx(acc, b, n)
    <3>1. d = [ethTxs |-> e, logs |-> l, median |-> p]
      BY <2>6, Zenon
    <3> HIDE DEF l, d
    <3>2. d.ethTxs = e /\ d.logs = l
      BY ONLY <3>1
    <3>. QED
      BY <3>2, Zenon DEF l, d
  <2>. QED
    BY <1>5, <2>8, <2>9, Zenon DEF e
<1>. QED
  BY <1>4, <1>5, BatchFacts, Zenon

(* What the loop starts with. *)
Start == [ethTxs |-> <<>>, logs |-> <<>>, median |-> NoPrice]

Decodes(b, f) ==
    f[0] = Start /\ \A k \in 1..Len(b) : f[k] = DecodeTx(f[k - 1], b, k)

LEMMA DecodingSteps ==
    ASSUME NEW b \in Batches
    PROVE  Decoding(b) \in [0..Len(b) -> Acc] /\ Decodes(b, Decoding(b))
<1> DEFINE n == Len(b)
           Eq(f) == f = [k \in 0..n |-> IF k = 0 THEN Start ELSE DecodeTx(f[k - 1], b, k)]
           step == [i \in 1..n |-> [x \in Acc |-> DecodeTx(x, b, i)]]
           decode == CHOOSE f : Eq(f)
<1>1. n \in Nat
  BY BatchFacts
<1>2. Decoding(b) = decode
  BY DEF Decoding, Start
<1>3. Start \in Acc
  BY DEF Acc, Start
<1>4. step \in [1..n -> [Acc -> Acc]]
  BY DecodeStep, Zenon
<1>5. \A i \in 1..n, x \in Acc : step[i][x] = DecodeTx(x, b, i)
  BY Zenon
<1> HIDE DEF step, n
<1>6. PICK f \in [0..n -> Acc] : Follows(f, Start, step, n)
  BY <1>1, <1>3, <1>4, Recursion, Zenon
<1>7. /\ \A i \in 0..n : i = 0 \/ (i # 0 /\ i \in 1..n /\ i - 1 \in 0..n)
      /\ \A i \in 1..n : i # 0 /\ i \in 0..n /\ i - 1 \in 0..n
      /\ 0 \in 0..n
  BY <1>1
<1>8. Eq(f)
  <2>1. \A k \in 1..n : f[k] = DecodeTx(f[k - 1], b, k)
    BY <1>5, <1>6, <1>7, Zenon DEF Follows
  <2>2. \A k \in 0..n : f[k] = IF k = 0 THEN Start ELSE DecodeTx(f[k - 1], b, k)
    BY <1>6, <1>7, <2>1, Zenon DEF Follows
  <2>3. f = [k \in 0..n |-> f[k]]
    BY Zenon
  <2>. QED
    BY <2>2, <2>3, Zenon
<1>9. Eq(decode)
  <2> HIDE DEF Eq
  <2>. QED
    BY <1>8, Zenon
<1> HIDE DEF decode
<1>10. /\ decode = [k \in 0..n |-> decode[k]] /\ decode[0] = Start
       /\ \A k \in 1..n : decode[k] = DecodeTx(decode[k - 1], b, k)
  BY <1>7, <1>9, Zenon
<1> HIDE DEF Eq
<1> DEFINE G == {m \in 0..n : decode[m] \in Acc}
<1>11. 0 \in G
  BY <1>3, <1>7, <1>10, Zenon
<1>12. ASSUME NEW m \in 0..n - 1, m \in G PROVE m + 1 \in G
  <2>1. m + 1 \in 1..n /\ m + 1 \in 0..n /\ (m + 1) - 1 = m
    BY <1>1
  <2>2. decode[m + 1] = DecodeTx(decode[m], b, m + 1) /\ decode[m] \in Acc
    BY <1>10, <1>12, <2>1, Zenon
  <2>3. DecodeTx(decode[m], b, m + 1) \in Acc
    BY <2>1, <2>2, DecodeStep, Zenon DEF n
  <2>. QED
    BY <2>1, <2>2, <2>3, Zenon
<1>13. \A m \in 0..n : decode[m] \in Acc
  <2>1. \A m \in 0..n : m \in G
    <3> HIDE DEF G
    <3>. QED
      BY <1>1, <1>11, <1>12, CountUp, Zenon
  <2>. QED
    BY <2>1, Zenon
<1>14. decode \in [0..n -> Acc]
  BY <1>10, <1>13, Zenon
<1>. QED
  BY <1>2, <1>10, <1>14, Zenon DEF Decodes, n

-----------------------------------------------------------------------------
(* The logs of one transaction.                                            *)

AddLog(s, h, x, k) == IF s[k].tx = h THEN Append(x, s[k]) ELSE x

Selects(s, h, f) == f[0] = <<>> /\ \A k \in 1..Len(s) : f[k] = AddLog(s, h, f[k - 1], k)

LEMMA TxLogsSteps ==
    ASSUME NEW s \in Seq(Log), NEW h
    PROVE  TxLogs(s, h) \in [0..Len(s) -> Seq(Log)] /\ Selects(s, h, TxLogs(s, h))
<1> DEFINE n == Len(s)
           Eq(f) == f = [k \in 0..n |-> IF k = 0 THEN <<>> ELSE AddLog(s, h, f[k - 1], k)]
           step == [i \in 1..n |-> [x \in Seq(Log) |-> AddLog(s, h, x, i)]]
           select == CHOOSE f : Eq(f)
<1>1. n \in Nat /\ \A i \in 1..n : s[i] \in Log
  OBVIOUS
<1>2. TxLogs(s, h) = select
  BY Zenon DEF TxLogs, AddLog
<1>3. <<>> \in Seq(Log)
  OBVIOUS
<1>4. ASSUME NEW i \in 1..n, NEW x \in Seq(Log) PROVE AddLog(s, h, x, i) \in Seq(Log)
  BY <1>1 DEF AddLog
<1>5. step \in [1..n -> [Seq(Log) -> Seq(Log)]]
  BY <1>4, Zenon
<1>6. \A i \in 1..n, x \in Seq(Log) : step[i][x] = AddLog(s, h, x, i)
  BY Zenon
<1> HIDE DEF step, n
<1>7. PICK f \in [0..n -> Seq(Log)] : Follows(f, <<>>, step, n)
  BY <1>1, <1>3, <1>5, Recursion, Zenon
<1>8. /\ \A i \in 0..n : i = 0 \/ (i # 0 /\ i \in 1..n /\ i - 1 \in 0..n)
      /\ \A i \in 1..n : i # 0 /\ i \in 0..n /\ i - 1 \in 0..n
      /\ 0 \in 0..n
  BY <1>1
<1>9. Eq(f)
  <2>1. \A k \in 1..n : f[k] = AddLog(s, h, f[k - 1], k)
    BY <1>6, <1>7, <1>8, Zenon DEF Follows
  <2>2. \A k \in 0..n : f[k] = IF k = 0 THEN <<>> ELSE AddLog(s, h, f[k - 1], k)
    BY <1>7, <1>8, <2>1, Zenon DEF Follows
  <2>3. f = [k \in 0..n |-> f[k]]
    BY Zenon
  <2>. QED
    BY <2>2, <2>3, Zenon
<1>10. Eq(select)
  <2> HIDE DEF Eq
  <2>. QED
    BY <1>9, Zenon
<1> HIDE DEF select
<1>11. /\ select = [k \in 0..n |-> select[k]] /\ select[0] = <<>>
       /\ \A k \in 1..n : select[k] = AddLog(s, h, select[k - 1], k)
  BY <1>8, <1>10, Zenon
<1> HIDE DEF Eq
<1> DEFINE G == {m \in 0..n : select[m] \in Seq(Log)}
<1>12. 0 \in G
  BY <1>3, <1>8, <1>11, Zenon
<1>13. ASSUME NEW m \in 0..n - 1, m \in G PROVE m + 1 \in G
  <2>1. m + 1 \in 1..n /\ m + 1 \in 0..n /\ (m + 1) - 1 = m
    BY <1>1
  <2>2. select[m + 1] = AddLog(s, h, select[m], m + 1) /\ select[m] \in Seq(Log)
    BY <1>11, <1>13, <2>1, Zenon
  <2>3. AddLog(s, h, select[m], m + 1) \in Seq(Log)
    BY <1>4, <2>1, <2>2, Zenon DEF n
  <2>. QED
    BY <2>1, <2>2, <2>3, Zenon
<1>14. \A m \in 0..n : select[m] \in Seq(Log)
  <2>1. \A m \in 0..n : m \in G
    <3> HIDE DEF G
    <3>. QED
      BY <1>1, <1>12, <1>13, CountUp, Zenon
  <2>. QED
    BY <2>1, Zenon
<1>15. select \in [0..n -> Seq(Log)]
  BY <1>11, <1>14, Zenon
<1>. QED
  BY <1>2, <1>11, <1>15, Zenon DEF Selects, n

(* They are logs of the block, of that transaction. *)
LEMMA SelectedLogs ==
    ASSUME NEW s \in Seq(Log), NEW h
    PROVE  \A k \in 1..Len(TxLogs(s, h)[Len(s)]) :
              \E j \in 1..Len(s) : TxLogs(s, h)[Len(s)][k] = s[j] /\ s[j].tx = h
<1> DEFINE n == Len(s)
           f == TxLogs(s, h)
           From(x) == \A k \in 1..Len(x) : \E j \in 1..n : x[k] = s[j] /\ s[j].tx = h
           G == {m \in 0..n : From(f[m])}
<1>1. f \in [0..n -> Seq(Log)] /\ f[0] = <<>> /\ \A k \in 1..n : f[k] = AddLog(s, h, f[k - 1], k)
  BY TxLogsSteps, Zenon DEF Selects
<1>2. n \in Nat /\ \A i \in 1..n : s[i] \in Log
  OBVIOUS
<1> HIDE DEF f, n
<1>3. 0 \in G
  BY <1>1, <1>2
<1>4. ASSUME NEW m \in 0..n - 1, m \in G PROVE m + 1 \in G
  <2>1. m + 1 \in 1..n /\ m + 1 \in 0..n /\ (m + 1) - 1 = m /\ m \in 0..n
    BY <1>2
  <2>2. /\ f[m + 1] = AddLog(s, h, f[m], m + 1) /\ f[m] \in Seq(Log) /\ From(f[m])
        /\ s[m + 1] \in Log
    BY <1>1, <1>2, <1>4, <2>1, Zenon
  <2>3. ASSUME NEW x \in Seq(Log), From(x), s[m + 1].tx = h PROVE From(Append(x, s[m + 1]))
    <3>1. Len(Append(x, s[m + 1])) = Len(x) + 1 /\ Append(x, s[m + 1])[Len(x) + 1] = s[m + 1]
      BY <2>2
    <3>2. \A k \in 1..Len(x) : Append(x, s[m + 1])[k] = x[k]
      BY <2>2
    <3>3. \A k \in 1..Len(x) + 1 : k \in 1..Len(x) \/ k = Len(x) + 1
      OBVIOUS
    <3>. QED
      BY <2>1, <2>3, <3>1, <3>2, <3>3, Zenon
  <2>4. From(f[m + 1])
    <3> HIDE DEF From
    <3>. QED
      BY <2>2, <2>3, Zenon DEF AddLog
  <2>. QED
    BY <2>1, <2>4, Zenon
<1>5. n \in G
  <2>1. n \in 0..n
    BY <1>2
  <2> HIDE DEF G
  <2>. QED
    BY <1>2, <1>3, <1>4, <2>1, CountUp, Zenon
<1>. QED
  BY <1>5, Zenon DEF f, n

(* More logs, all of one transaction. *)
LEMMA SelectOfMore ==
    ASSUME NEW s \in Seq(Log), NEW u \in Seq(Log), NEW h, NEW x,
           \A k \in 1..Len(u) : u[k].tx = x
    PROVE  Len(TxLogs(s \o u, h)[Len(s \o u)]) =
              Len(TxLogs(s, h)[Len(s)]) + (IF x = h THEN Len(u) ELSE 0)
<1> DEFINE n == Len(s)
           c == Len(u)
           w == s \o u
           f == TxLogs(s, h)
           g == TxLogs(w, h)
<1>1. /\ w \in Seq(Log) /\ Len(w) = n + c /\ n \in Nat /\ c \in Nat
      /\ \A k \in 1..n : w[k] = s[k] /\ s[k] \in Log
      /\ \A k \in 1..c : w[n + k] = u[k] /\ u[k] \in Log
  OBVIOUS
<1>2. f \in [0..n -> Seq(Log)] /\ f[0] = <<>> /\ \A k \in 1..n : f[k] = AddLog(s, h, f[k - 1], k)
  BY TxLogsSteps, Zenon DEF Selects
<1>3. /\ g \in [0..n + c -> Seq(Log)] /\ g[0] = <<>>
      /\ \A k \in 1..n + c : g[k] = AddLog(w, h, g[k - 1], k)
  <2> HIDE DEF w
  <2>1. g \in [0..Len(w) -> Seq(Log)] /\ Selects(w, h, g)
    BY <1>1, TxLogsSteps, Zenon
  <2> HIDE DEF g
  <2>. QED
    BY <1>1, <2>1, Zenon DEF Selects
<1> HIDE DEF n, c, w, f, g
<1>4. \A m \in 0..n : g[m] = f[m]
  <2> DEFINE G == {m \in 0..n : g[m] = f[m]}
  <2>1. 0 \in G
    BY <1>1, <1>2, <1>3
  <2>2. ASSUME NEW m \in 0..n - 1, m \in G PROVE m + 1 \in G
    <3>1. m + 1 \in 1..n /\ m + 1 \in 1..n + c /\ m + 1 \in 0..n /\ (m + 1) - 1 = m
      BY <1>1
    <3>2. /\ f[m + 1] = AddLog(s, h, f[m], m + 1)
          /\ g[m + 1] = AddLog(w, h, g[m], m + 1)
          /\ w[m + 1] = s[m + 1] /\ g[m] = f[m]
      BY <1>1, <1>2, <1>3, <2>2, <3>1, Zenon
    <3>. QED
      BY <3>1, <3>2, Zenon DEF AddLog
  <2> HIDE DEF G
  <2>3. \A m \in 0..n : m \in G
    BY <1>1, <2>1, <2>2, CountUp, Zenon
  <2>. QED
    BY <2>3, Zenon DEF G
<1>5. \A m \in 0..c : Len(g[n + m]) = Len(f[n]) + (IF x = h THEN m ELSE 0)
  <2> DEFINE G == {m \in 0..c : Len(g[n + m]) = Len(f[n]) + (IF x = h THEN m ELSE 0)}
  <2>0. Len(f[n]) \in Nat
    BY <1>1, <1>2
  <2>1. 0 \in G
    BY <1>1, <1>4, <2>0
  <2>2. ASSUME NEW m \in 0..c - 1, m \in G PROVE m + 1 \in G
    <3>1. /\ m + 1 \in 1..c /\ m + 1 \in 0..c /\ n + m \in 0..n + c
          /\ n + (m + 1) \in 1..n + c /\ (n + (m + 1)) - 1 = n + m
      BY <1>1
    <3>2. /\ g[n + (m + 1)] = AddLog(w, h, g[n + m], n + (m + 1))
          /\ w[n + (m + 1)].tx = x /\ w[n + (m + 1)] \in Log
          /\ g[n + m] \in Seq(Log)
      BY <1>1, <1>3, <3>1, Zenon DEF c
    <3>3. Len(g[n + m]) = Len(f[n]) + (IF x = h THEN m ELSE 0)
      BY <2>2, Zenon
    <3>4. Len(g[n + (m + 1)]) = Len(g[n + m]) + (IF x = h THEN 1 ELSE 0)
      <4> HIDE DEF G
      <4>1. CASE x = h
        BY <3>2, <4>1 DEF AddLog
      <4>2. CASE x # h
        BY <3>2, <4>2 DEF AddLog
      <4>. QED
        BY <4>1, <4>2, Zenon
    <3>5. Len(g[n + (m + 1)]) = Len(f[n]) + (IF x = h THEN m + 1 ELSE 0)
      <4> HIDE DEF G
      <4> DEFINE y == Len(f[n])
                 z == Len(g[n + m])
      <4>1. y \in Nat /\ m \in Nat /\ z = y + (IF x = h THEN m ELSE 0)
        BY <1>1, <2>0, <3>3
      <4> HIDE DEF y, z
      <4>2. z + (IF x = h THEN 1 ELSE 0) = y + (IF x = h THEN m + 1 ELSE 0)
        BY <4>1
      <4>. QED
        BY <3>4, <4>2, Zenon DEF y, z
    <3>. QED
      BY <3>1, <3>5, Zenon
  <2> HIDE DEF G
  <2>3. \A m \in 0..c : m \in G
    BY <1>1, <2>1, <2>2, CountUp, Zenon
  <2>. QED
    BY <2>3, Zenon DEF G
<1>6. c \in 0..c
  BY <1>1
<1>. QED
  BY <1>1, <1>5, <1>6, Zenon DEF n, c, w, f, g

-----------------------------------------------------------------------------
(* What the loop has gathered after m transactions.                        *)

(* One iteration: what it appends, and to what. *)
LEMMA DecodingAt ==
    ASSUME NEW b \in Batches, NEW m \in 0..Len(b) - 1
    PROVE  LET acc == Decoding(b)[m]
               next == Decoding(b)[m + 1]
               t == b[m + 1]
           IN  /\ m + 1 \in 1..Len(b) /\ acc \in Acc /\ next \in Acc /\ t.eth \in BOOLEAN
               /\ t.eth => /\ t \in EthTx /\ next.ethTxs = Append(acc.ethTxs, t)
                           /\ next.logs = acc.logs \o NewLogs(acc, t)
               /\ ~t.eth => next.ethTxs = acc.ethTxs /\ next.logs = acc.logs
<1> DEFINE d == Decoding(b)
<1>1. m + 1 \in 1..Len(b) /\ m + 1 \in 0..Len(b) /\ m \in 0..Len(b) /\ (m + 1) - 1 = m
  BY BatchFacts
<1>2. d \in [0..Len(b) -> Acc] /\ d[m + 1] = DecodeTx(d[m], b, m + 1)
  BY <1>1, DecodingSteps, Zenon DEF Decodes
<1>3. d[m] \in Acc /\ d[m + 1] \in Acc
  BY <1>1, <1>2, Zenon
<1>4. b[m + 1].eth \in BOOLEAN /\ (b[m + 1].eth => b[m + 1] \in EthTx)
  BY <1>1, BatchFacts, Zenon
<1> HIDE DEF d
<1>5. /\ b[m + 1].eth => /\ d[m + 1].ethTxs = Append(d[m].ethTxs, b[m + 1])
                         /\ d[m + 1].logs = d[m].logs \o NewLogs(d[m], b[m + 1])
      /\ ~b[m + 1].eth => d[m + 1].ethTxs = d[m].ethTxs /\ d[m + 1].logs = d[m].logs
  <2> DEFINE x == DecodeTx(d[m], b, m + 1)
  <2>1. /\ b[m + 1].eth => /\ x.ethTxs = Append(d[m].ethTxs, b[m + 1])
                           /\ x.logs = d[m].logs \o NewLogs(d[m], b[m + 1])
        /\ ~b[m + 1].eth => x.ethTxs = d[m].ethTxs /\ x.logs = d[m].logs
    BY <1>1, <1>3, DecodeStep, Zenon
  <2>2. d[m + 1] = x
    BY <1>2, Zenon
  <2> HIDE DEF x
  <2>. QED
    BY <2>1, <2>2, Zenon
<1>. QED
  BY <1>1, <1>3, <1>4, <1>5, Zenon DEF d

(* The transactions are Ethereum transactions of the block, and no two are *)
(* the success of one hash.                                                *)
TxsInv(b, m, eths) ==
    /\ \A i \in 1..Len(eths) : \E p \in 1..m : b[p].eth /\ eths[i] = b[p]
    /\ \A i, j \in 1..Len(eths) :
          eths[i].ok /\ eths[j].ok /\ eths[i].hash = eths[j].hash => i = j

LEMMA DecodedTxs ==
    ASSUME NEW b \in Batches
    PROVE  \A m \in 0..Len(b) : TxsInv(b, m, Decoding(b)[m].ethTxs)
<1> DEFINE d == Decoding(b)
           n == Len(b)
           G == {m \in 0..n : TxsInv(b, m, d[m].ethTxs)}
<1>1. n \in Nat
  BY BatchFacts
<1>2. 0 \in G
  <2>1. d[0].ethTxs = <<>>
    BY DecodingSteps DEF Decodes, Start
  <2>. QED
    BY <1>1, <2>1 DEF TxsInv
<1>3. ASSUME NEW m \in 0..n - 1, m \in G PROVE m + 1 \in G
  <2> DEFINE t == b[m + 1]
             s == d[m].ethTxs
             e == d[m + 1].ethTxs
  <2>1. /\ m + 1 \in 1..n /\ d[m] \in Acc /\ t.eth \in BOOLEAN
        /\ t.eth => t \in EthTx /\ e = Append(s, t)
        /\ ~t.eth => e = s
    BY DecodingAt, Zenon
  <2>2. s \in Seq(EthTx)
    BY <2>1 DEF Acc
  <2>3. TxsInv(b, m, s)
    BY <1>3, Zenon
  <2>4. /\ m + 1 \in 0..n /\ m + 1 \in 1..m + 1 /\ m + 1 \notin 1..m
        /\ \A p \in 1..m : p \in 1..m + 1 /\ p \in 1..n
    BY <1>1
  <2> HIDE DEF d, G, n
  <2>5. ASSUME ~t.eth PROVE TxsInv(b, m + 1, e)
    BY <2>1, <2>3, <2>4, <2>5, Zenon DEF TxsInv
  <2>6. ASSUME t.eth PROVE TxsInv(b, m + 1, e)
    <3>1. t \in EthTx /\ e = Append(s, t)
      BY <2>1, <2>6, Zenon
    <3> HIDE DEF s, e, t
    <3>2. /\ Len(e) = Len(s) + 1 /\ e[Len(s) + 1] = t
          /\ \A i \in 1..Len(s) : e[i] = s[i]
          /\ \A i \in 1..Len(s) + 1 : i \in 1..Len(s) \/ i = Len(s) + 1
      BY <2>2, <3>1
    <3>3. ASSUME NEW i \in 1..Len(e) PROVE \E p \in 1..m + 1 : b[p].eth /\ e[i] = b[p]
      BY <2>3, <2>4, <2>6, <3>2, Zenon DEF TxsInv, t
    <3>4. ASSUME NEW i \in 1..Len(s), s[i].ok, t.ok, s[i].hash = t.hash PROVE FALSE
      <4>1. PICK p \in 1..m : b[p].eth /\ s[i] = b[p]
        BY <2>3, Zenon DEF TxsInv
      <4>2. b[p].ok /\ b[p].hash = b[m + 1].hash /\ b[m + 1].ok /\ b[m + 1].eth
        BY <2>6, <3>4, <4>1, Zenon DEF t
      <4>3. p = m + 1
        <5>1. p \in 1..Len(b) /\ m + 1 \in 1..Len(b)
          BY <2>1, <2>4, Zenon DEF n
        <5>2. \A x, y \in 1..Len(b) :
                b[x].eth /\ b[y].eth /\ b[x].ok /\ b[y].ok /\ b[x].hash = b[y].hash => x = y
          BY BatchFacts, Zenon
        <5>. QED
          BY <4>1, <4>2, <5>1, <5>2, SMTT(30)
      <4>. QED
        BY <2>4, <4>3, Zenon
    <3>5. ASSUME NEW i \in 1..Len(e), NEW j \in 1..Len(e),
                 e[i].ok, e[j].ok, e[i].hash = e[j].hash
          PROVE  i = j
      <4>1. CASE i \in 1..Len(s) /\ j \in 1..Len(s)
        BY <2>3, <3>2, <3>5, <4>1, Zenon DEF TxsInv
      <4>2. CASE i \in 1..Len(s) /\ j = Len(s) + 1
        BY <3>2, <3>4, <3>5, <4>2, Zenon
      <4>3. CASE i = Len(s) + 1 /\ j \in 1..Len(s)
        BY <3>2, <3>4, <3>5, <4>3, Zenon
      <4>. QED
        BY <3>2, <3>5, <4>1, <4>2, <4>3, Zenon
    <3>. QED
      BY <3>3, <3>5, Zenon DEF TxsInv
  <2>7. TxsInv(b, m + 1, d[m + 1].ethTxs)
    BY <2>1, <2>5, <2>6, Zenon
  <2>. QED
    BY <2>4, <2>7, Zenon DEF G
<1>4. \A m \in 0..n : m \in G
  <2> HIDE DEF G
  <2>. QED
    BY <1>1, <1>2, <1>3, CountUp, Zenon
<1>. QED
  BY <1>4, Zenon

(* A log is numbered by its place, and names a success by index and hash. *)
LogsInv(acc) ==
    \A k \in 1..Len(acc.logs) :
        LET l == acc.logs[k] IN
        /\ l.index = k - 1
        /\ l.txIndex + 1 \in 1..Len(acc.ethTxs)
        /\ acc.ethTxs[l.txIndex + 1].ok /\ acc.ethTxs[l.txIndex + 1].hash = l.tx

LEMMA DecodedLogs ==
    ASSUME NEW b \in Batches
    PROVE  \A m \in 0..Len(b) : LogsInv(Decoding(b)[m])
<1> DEFINE d == Decoding(b)
           n == Len(b)
           G == {m \in 0..n : LogsInv(d[m])}
<1>1. n \in Nat
  BY BatchFacts
<1>2. 0 \in G
  <2>1. d[0].logs = <<>>
    BY DecodingSteps DEF Decodes, Start
  <2>. QED
    BY <1>1, <2>1 DEF LogsInv
<1>3. ASSUME NEW m \in 0..n - 1, m \in G PROVE m + 1 \in G
  <2> DEFINE t == b[m + 1]
             acc == d[m]
             next == d[m + 1]
  <2>1. /\ m + 1 \in 1..n /\ acc \in Acc /\ next \in Acc /\ t.eth \in BOOLEAN
        /\ t.eth => /\ t \in EthTx /\ next.ethTxs = Append(acc.ethTxs, t)
                    /\ next.logs = acc.logs \o NewLogs(acc, t)
        /\ ~t.eth => next.ethTxs = acc.ethTxs /\ next.logs = acc.logs
    BY DecodingAt, Zenon
  <2>2. acc.ethTxs \in Seq(EthTx) /\ acc.logs \in Seq(Log)
    BY <2>1 DEF Acc
  <2>3. LogsInv(acc) /\ m + 1 \in 0..n
    BY <1>1, <1>3
  <2>4. t.eth /\ ~t.ok => Amount(t, "evm") = 0
    BY <2>1, BatchFacts, Zenon
  <2> HIDE DEF d, G, n, t, acc, next
  <2>5. ASSUME ~t.eth PROVE LogsInv(next)
    BY <2>1, <2>3, <2>5, Zenon DEF LogsInv
  <2>6. ASSUME t.eth PROVE LogsInv(next)
    <3> DEFINE e == acc.ethTxs
               f == next.ethTxs
               s == acc.logs
               u == NewLogs(acc, t)
               w == next.logs
    <3>1. t \in EthTx /\ f = Append(e, t) /\ w = s \o u
      BY <2>1, <2>6, Zenon
    <3>2. /\ u \in Seq(Log) /\ Len(u) = Amount(t, "evm")
          /\ \A k \in 1..Len(u) :
                u[k] = [tx |-> t.hash, index |-> Len(s) + k - 1, txIndex |-> Len(e)]
      BY <2>1, <3>1, NewLogsType, Zenon
    <3>3. \A k \in 1..Len(s) :
             /\ s[k].index = k - 1 /\ s[k].txIndex + 1 \in 1..Len(e)
             /\ e[s[k].txIndex + 1].ok /\ e[s[k].txIndex + 1].hash = s[k].tx
      BY <2>3, Zenon DEF LogsInv
    <3>4. Len(u) # 0 => t.ok
      BY <2>4, <2>6, <3>2, Zenon
    <3> HIDE DEF e, f, s, u, w
    <3>5. e \in Seq(EthTx) /\ s \in Seq(Log)
      BY <2>2, Zenon DEF e, s
    <3>6. /\ Len(f) = Len(e) + 1 /\ f[Len(e) + 1] = t /\ Len(e) \in Nat
          /\ \A i \in 1..Len(e) : f[i] = e[i]
      BY <3>1, <3>5
    <3>7. /\ Len(w) = Len(s) + Len(u) /\ Len(s) \in Nat /\ Len(u) \in Nat
          /\ \A k \in 1..Len(s) : w[k] = s[k]
          /\ \A k \in 1..Len(u) : w[Len(s) + k] = u[k]
      <4>1. u \in Seq(Log) /\ s \in Seq(Log) /\ w = s \o u
        BY <3>1, <3>2, <3>5, Zenon
      <4>. QED
        BY ONLY <4>1
    <3>8. ASSUME NEW k \in 1..Len(w)
          PROVE  /\ w[k].index = k - 1 /\ w[k].txIndex + 1 \in 1..Len(f)
                 /\ f[w[k].txIndex + 1].ok /\ f[w[k].txIndex + 1].hash = w[k].tx
      <4>1. CASE k \in 1..Len(s)
        <5>1. w[k] = s[k]
          BY <3>7, <4>1, Zenon
        <5>2. s[k].txIndex + 1 \in 1..Len(e) /\ \A i \in 1..Len(e) : i \in 1..Len(f)
          BY <3>3, <3>6, <4>1
        <5>. QED
          BY <3>3, <3>6, <4>1, <5>1, <5>2, Zenon
      <4>2. CASE k \notin 1..Len(s)
        <5> DEFINE j == k - Len(s)
        <5>1. j \in 1..Len(u) /\ Len(s) + j = k /\ Len(s) + j - 1 = k - 1 /\ Len(u) # 0
          BY <3>7, <4>2
        <5> HIDE DEF j
        <5>2. w[k] = u[j]
          BY <3>7, <5>1, Zenon
        <5>3. w[k] = [tx |-> t.hash, index |-> k - 1, txIndex |-> Len(e)]
          BY <3>2, <5>1, <5>2, Zenon
        <5>4. w[k].index = k - 1 /\ w[k].txIndex = Len(e) /\ w[k].tx = t.hash
          BY ONLY <5>3
        <5>5. Len(e) + 1 \in 1..Len(f)
          BY <3>6
        <5>. QED
          BY <3>4, <3>6, <5>1, <5>4, <5>5, Zenon
      <4>. QED
        BY <4>1, <4>2, Zenon
    <3>. QED
      BY <3>8, Zenon DEF LogsInv, w, f
  <2>7. LogsInv(next)
    BY <2>1, <2>5, <2>6, Zenon
  <2>. QED
    BY <2>3, <2>7, Zenon DEF G, next
<1>4. \A m \in 0..n : m \in G
  <2> HIDE DEF G
  <2>. QED
    BY <1>1, <1>2, <1>3, CountUp, Zenon
<1>. QED
  BY <1>4, Zenon

(* How many logs each transaction of the runtime block leaves for hash h,  *)
(* and how much gas each uses.                                             *)
LogCounts(b, h) ==
    [i \in 1..Len(b) |-> IF b[i].eth /\ b[i].hash = h /\ b[i].ok THEN Amount(b[i], "evm") ELSE 0]

GasCounts(b) == [i \in 1..Len(b) |-> IF b[i].eth THEN GasUsed(b[i]) ELSE 0]

(* Both are sequences of naturals as long as the block. *)
LEMMA CountsType ==
    ASSUME NEW b \in Batches, NEW h
    PROVE  LogCounts(b, h) \in [1..Len(b) -> Nat] /\ GasCounts(b) \in [1..Len(b) -> Nat]
<1>1. ASSUME NEW i \in 1..Len(b), b[i].eth
      PROVE  Amount(b[i], "evm") \in Nat /\ GasUsed(b[i]) \in Nat
  <2>1. b[i] \in EthTx
    BY <1>1, BatchFacts, Zenon
  <2>. QED
    BY <2>1, AmountType, GasUsedType, Zenon
<1>2. ASSUME NEW i \in 1..Len(b)
      PROVE  /\ (IF b[i].eth /\ b[i].hash = h /\ b[i].ok THEN Amount(b[i], "evm") ELSE 0) \in Nat
             /\ (IF b[i].eth THEN GasUsed(b[i]) ELSE 0) \in Nat
  BY <1>1
<1>. QED
  BY <1>2, Zenon DEF LogCounts, GasCounts

(* The logs that a receipt of hash h would take after m iterations. *)
LEMMA DecodedLogCount ==
    ASSUME NEW b \in Batches, NEW h
    PROVE  \A m \in 0..Len(b) :
              Len(TxLogs(Decoding(b)[m].logs, h)[Len(Decoding(b)[m].logs)]) =
                Sums(LogCounts(b, h))[m]
<1> DEFINE d == Decoding(b)
           n == Len(b)
           T(m) == Len(TxLogs(d[m].logs, h)[Len(d[m].logs)])
           sum == Sums(LogCounts(b, h))
           G == {m \in 0..n : T(m) = sum[m]}
<1>1. n \in Nat
  BY BatchFacts
<1>2. /\ sum[0] = 0
      /\ \A m \in 1..n : sum[m] = sum[m - 1] + LogCounts(b, h)[m]
      /\ \A m \in 0..n : sum[m] \in Nat
  <2>1. sum \in [0..n -> Nat] /\ Adds(LogCounts(b, h), n, sum)
    BY <1>1, CountsType, SumsAdd, Zenon
  <2>. QED
    BY <2>1, Zenon DEF Adds
<1>3. 0 \in G
  <2>1. d[0].logs = <<>>
    BY DecodingSteps DEF Decodes, Start
  <2>2. <<>> \in Seq(Log) /\ Len(<<>>) = 0
    OBVIOUS
  <2>3. TxLogs(<<>>, h)[0] = <<>>
    BY <2>2, TxLogsSteps, Zenon DEF Selects
  <2>4. T(0) = 0
    BY <2>1, <2>2, <2>3, Zenon
  <2> HIDE DEF T, sum
  <2>. QED
    BY <1>1, <1>2, <2>4, SMTT(30)
<1>4. ASSUME NEW m \in 0..n - 1, m \in G PROVE m + 1 \in G
  <2> DEFINE t == b[m + 1]
             acc == d[m]
             next == d[m + 1]
  <2>1. /\ m + 1 \in 1..n /\ acc \in Acc /\ next \in Acc /\ t.eth \in BOOLEAN
        /\ t.eth => /\ t \in EthTx /\ next.ethTxs = Append(acc.ethTxs, t)
                    /\ next.logs = acc.logs \o NewLogs(acc, t)
        /\ ~t.eth => next.ethTxs = acc.ethTxs /\ next.logs = acc.logs
    BY DecodingAt, Zenon
  <2>2. acc.logs \in Seq(Log) /\ next.logs \in Seq(Log)
    BY <2>1 DEF Acc
  <2>3. T(m) = sum[m] /\ m + 1 \in 0..n /\ (m + 1) - 1 = m
    BY <1>1, <1>4, SMTT(30)
  <2>4. t.eth /\ ~t.ok => Amount(t, "evm") = 0
    BY <2>1, BatchFacts, Zenon
  <2>5. sum[m + 1] = sum[m] + LogCounts(b, h)[m + 1]
    BY <1>2, <2>1, <2>3, Zenon
  <2>6. LogCounts(b, h)[m + 1] =
            IF t.eth /\ t.hash = h /\ t.ok THEN Amount(t, "evm") ELSE 0
    BY <2>1, Zenon DEF LogCounts
  <2> HIDE DEF sum
  <2>7. ASSUME ~t.eth PROVE T(m + 1) = sum[m + 1]
    <3>1. T(m + 1) = T(m)
      BY <2>1, <2>7, Zenon
    <3>2. LogCounts(b, h)[m + 1] = 0
      BY <2>6, <2>7, Zenon
    <3> HIDE DEF T
    <3>. QED
      BY <1>2, <2>3, <2>5, <3>1, <3>2, SMTT(30)
  <2>8. ASSUME t.eth PROVE T(m + 1) = sum[m + 1]
    <3> DEFINE u == NewLogs(acc, t)
               s == acc.logs
    <3>1. t \in EthTx /\ next.logs = s \o u
      BY <2>1, <2>8, Zenon
    <3>2. /\ u \in Seq(Log) /\ Len(u) = Amount(t, "evm")
          /\ \A k \in 1..Amount(t, "evm") :
                u[k] = [tx |-> t.hash, index |-> Len(s) + k - 1, txIndex |-> Len(acc.ethTxs)]
      BY <2>1, <3>1, NewLogsType, Zenon
    <3> DEFINE x == t.hash
    <3>3. \A k \in 1..Len(u) : u[k].tx = x
      <4> HIDE DEF x, u, s
      <4> SUFFICES ASSUME NEW k \in 1..Len(u) PROVE u[k].tx = x
        OBVIOUS
      <4> DEFINE i == Len(s) + k - 1
                 j == Len(acc.ethTxs)
      <4>1. u[k] = [tx |-> x, index |-> i, txIndex |-> j]
        BY <3>2, Zenon DEF x
      <4> HIDE DEF i, j
      <4>. QED
        BY ONLY <4>1
    <3>4. Len(TxLogs(s \o u, h)[Len(s \o u)]) =
              Len(TxLogs(s, h)[Len(s)]) + (IF x = h THEN Len(u) ELSE 0)
      <4> HIDE DEF s, u, x
      <4>1. s \in Seq(Log)
        BY <2>2, Zenon DEF s
      <4>2. u \in Seq(Log)
        BY <3>2, Zenon
      <4>3. \A v \in Seq(Log) : \A w \in Seq(Log) : \A z :
              (\A k \in 1..Len(w) : w[k].tx = z) =>
                Len(TxLogs(v \o w, h)[Len(v \o w)]) =
                  Len(TxLogs(v, h)[Len(v)]) + (IF z = h THEN Len(w) ELSE 0)
        BY SelectOfMore, Zenon
      <4>4. \A z :
              (\A k \in 1..Len(u) : u[k].tx = z) =>
                Len(TxLogs(s \o u, h)[Len(s \o u)]) =
                  Len(TxLogs(s, h)[Len(s)]) + (IF z = h THEN Len(u) ELSE 0)
        BY <4>1, <4>2, <4>3, Zenon
      <4>. QED
        BY <3>3, <4>4, Zenon
    <3>5. T(m + 1) = T(m) + (IF x = h THEN Len(u) ELSE 0)
      BY <3>1, <3>4, Zenon
    <3>6. (IF x = h THEN Len(u) ELSE 0) = LogCounts(b, h)[m + 1]
      BY <2>4, <2>6, <2>8, <3>2, SMTT(30)
    <3> HIDE DEF T
    <3>. QED
      BY <2>3, <2>5, <3>5, <3>6, Zenon
  <2>9. T(m + 1) = sum[m + 1]
    BY <2>1, <2>7, <2>8, Zenon
  <2> HIDE DEF T
  <2>. QED
    BY <2>3, <2>9, Zenon
<1>5. \A m \in 0..n : m \in G
  <2> HIDE DEF G
  <2>. QED
    BY <1>1, <1>3, <1>4, CountUp, Zenon
<1>. QED
  BY <1>5, Zenon

(* The gas that each transaction of a sequence used. *)
Used(eths) == [i \in 1..Len(eths) |-> GasUsed(eths[i])]

LEMMA UsedType ==
    ASSUME NEW eths \in Seq(EthTx)
    PROVE  /\ Len(eths) \in Nat /\ DOMAIN eths = 1..Len(eths)
           /\ Used(eths) \in [1..Len(eths) -> Nat]
           /\ CumulativeGasUsed(eths) = Sums(Used(eths))
<1>1. Len(eths) \in Nat /\ DOMAIN eths = 1..Len(eths) /\ \A i \in 1..Len(eths) : eths[i] \in EthTx
  OBVIOUS
<1>2. \A i \in 1..Len(eths) : GasUsed(eths[i]) \in Nat
  BY <1>1, GasUsedType, Zenon
<1>3. Used(eths) \in [1..Len(eths) -> Nat]
  BY <1>2, Zenon DEF Used
<1>4. CumulativeGasUsed(eths) = Sums(Used(eths))
  BY <1>1, Zenon DEF CumulativeGasUsed, Used
<1>. QED
  BY <1>1, <1>3, <1>4, Zenon

(* The gas of the transactions decoded is the gas of the runtime block's. *)
LEMMA DecodedGas ==
    ASSUME NEW b \in Batches
    PROVE  \A m \in 0..Len(b) :
              Sums(Used(Decoding(b)[m].ethTxs))[Len(Decoding(b)[m].ethTxs)] =
                Sums(GasCounts(b))[m]
<1> DEFINE d == Decoding(b)
           n == Len(b)
           T(m) == Sums(Used(d[m].ethTxs))[Len(d[m].ethTxs)]
           sum == Sums(GasCounts(b))
           G == {m \in 0..n : T(m) = sum[m]}
<1>1. n \in Nat
  BY BatchFacts
<1>2. /\ sum[0] = 0
      /\ \A m \in 1..n : sum[m] = sum[m - 1] + GasCounts(b)[m]
      /\ \A m \in 0..n : sum[m] \in Nat
  <2>1. sum \in [0..n -> Nat] /\ Adds(GasCounts(b), n, sum)
    BY <1>1, CountsType, SumsAdd, Zenon
  <2>. QED
    BY <2>1, Zenon DEF Adds
<1>3. 0 \in G
  <2>1. d[0].ethTxs = <<>>
    BY DecodingSteps DEF Decodes, Start
  <2>2. <<>> \in Seq(EthTx) /\ Len(<<>>) = 0 /\ 0 \in Nat
    OBVIOUS
  <2>3. Used(<<>>) \in [1..0 -> Nat]
    BY <2>2, UsedType, Zenon
  <2>4. Sums(Used(<<>>))[0] = 0
    BY <2>2, <2>3, SumsAdd, Zenon DEF Adds
  <2>5. T(0) = 0
    BY <2>1, <2>2, <2>4, Zenon
  <2> HIDE DEF T, sum
  <2>. QED
    BY <1>1, <1>2, <2>5
<1>4. ASSUME NEW m \in 0..n - 1, m \in G PROVE m + 1 \in G
  <2> DEFINE t == b[m + 1]
             e == d[m].ethTxs
             f == d[m + 1].ethTxs
  <2>1. /\ m + 1 \in 1..n /\ d[m] \in Acc /\ t.eth \in BOOLEAN
        /\ t.eth => t \in EthTx /\ f = Append(e, t)
        /\ ~t.eth => f = e
    BY DecodingAt, Zenon
  <2>2. e \in Seq(EthTx)
    BY <2>1 DEF Acc
  <2>3. T(m) = sum[m] /\ m + 1 \in 0..n /\ (m + 1) - 1 = m
    BY <1>1, <1>4
  <2>4. sum[m + 1] = sum[m] + GasCounts(b)[m + 1]
    BY <1>2, <2>1, <2>3, Zenon
  <2>5. GasCounts(b)[m + 1] = IF t.eth THEN GasUsed(t) ELSE 0
    BY <2>1, Zenon DEF GasCounts
  <2> HIDE DEF sum
  <2>6. ASSUME ~t.eth PROVE T(m + 1) = sum[m + 1]
    <3>1. T(m + 1) = T(m)
      BY <2>1, <2>6, Zenon
    <3>2. GasCounts(b)[m + 1] = 0
      BY <2>5, <2>6, Zenon
    <3> HIDE DEF T
    <3>. QED
      BY <1>2, <2>3, <2>4, <3>1, <3>2, SMTT(30)
  <2>7. ASSUME t.eth PROVE T(m + 1) = sum[m + 1]
    <3> DEFINE c == Len(e)
               ue == Used(e)
               uf == Used(f)
    <3>1. t \in EthTx /\ f = Append(e, t)
      BY <2>1, <2>7, Zenon
    <3> HIDE DEF t, e, f
    <3>2. /\ f \in Seq(EthTx) /\ c \in Nat /\ c + 1 \in Nat /\ Len(f) = c + 1
          /\ f[c + 1] = t /\ \A i \in 1..c : f[i] = e[i] /\ i \in 1..c + 1
      BY <2>2, <3>1
    <3>3. c <= c + 1 /\ c \in 0..c /\ c + 1 \in 1..c + 1 /\ (c + 1) - 1 = c
      BY <3>2
    <3>4. ue \in [1..c -> Nat] /\ uf \in [1..c + 1 -> Nat]
      <4>1. uf \in [1..Len(f) -> Nat]
        BY <3>2, UsedType, Zenon
      <4>2. ue \in [1..Len(e) -> Nat]
        BY <2>2, UsedType, Zenon
      <4> HIDE DEF ue, uf
      <4>. QED
        BY <3>2, <4>1, <4>2, Zenon
    <3>5. uf[c + 1] = GasUsed(t) /\ \A i \in 1..c : uf[i] = ue[i]
      BY <3>2, <3>3, Zenon DEF Used
    <3> HIDE DEF ue, uf, c
    <3>6. Sums(uf)[c] = Sums(ue)[c]
      BY <3>2, <3>3, <3>4, <3>5, SumsPrefix, Zenon
    <3>7. Sums(uf)[c + 1] = Sums(uf)[c] + GasUsed(t)
      <4>1. Adds(uf, c + 1, Sums(uf))
        BY <3>2, <3>4, SumsAdd, Zenon
      <4>2. Sums(uf)[c + 1] = Sums(uf)[(c + 1) - 1] + uf[c + 1]
        BY <3>3, <4>1, Zenon DEF Adds
      <4>. QED
        BY <3>3, <3>5, <4>2, Zenon
    <3>8. T(m + 1) = Sums(uf)[c + 1] /\ T(m) = Sums(ue)[c]
      BY <3>2, Zenon DEF c, ue, uf, e, f
    <3>9. GasCounts(b)[m + 1] = GasUsed(t)
      BY <2>5, <2>7, Zenon DEF t
    <3> HIDE DEF T
    <3>. QED
      BY <2>3, <2>4, <3>6, <3>7, <3>8, <3>9, Zenon
  <2>8. T(m + 1) = sum[m + 1]
    BY <2>1, <2>6, <2>7, Zenon
  <2> HIDE DEF T
  <2>. QED
    BY <2>3, <2>8, Zenon
<1>5. \A m \in 0..n : m \in G
  <2> HIDE DEF G
  <2>. QED
    BY <1>1, <1>3, <1>4, CountUp, Zenon
<1>. QED
  BY <1>5, Zenon

(* The row kept for a hash has that hash, and is a success if one is. *)
LEMMA KeptRow ==
    ASSUME NEW n \in Nat, NEW rows, DOMAIN rows = 1..n, NEW i \in 1..n
    PROVE  \E c \in 1..n :
              /\ Kept(rows, rows[i].hash) = rows[c] /\ rows[c].hash = rows[i].hash
              /\ \A j \in 1..n : rows[j].hash = rows[i].hash /\ rows[j].ok => rows[c].ok
<1> DEFINE h == rows[i].hash
           mine == {j \in 1..n : rows[j].hash = h}
           P(c) == IF \E j \in mine : rows[j].ok THEN rows[c].ok
                   ELSE \A j \in mine : c <= j
           c == CHOOSE x \in mine : P(x)
<1>1. Kept(rows, h) = rows[c]
  BY Zenon DEF Kept
<1>2. \E x \in mine : P(x)
  <2>1. CASE \E j \in mine : rows[j].ok
    BY <2>1, Zenon
  <2>2. CASE ~\E j \in mine : rows[j].ok
    <3>1. i \in mine /\ mine \subseteq Nat
      OBVIOUS
    <3> HIDE DEF mine
    <3>2. \E x \in mine : \A y \in mine : x <= y
      BY <3>1, LeastNumber, Zenon
    <3>. QED
      BY <2>2, <3>2, Zenon
  <2>. QED
    BY <2>1, <2>2, Zenon
<1>3. c \in mine /\ P(c)
  <2> HIDE DEF mine, P
  <2>. QED
    BY <1>2, Zenon
<1> HIDE DEF c
<1>4. c \in 1..n /\ rows[c].hash = h
  BY <1>3, Zenon
<1>5. \A j \in 1..n : rows[j].hash = h /\ rows[j].ok => rows[c].ok
  BY <1>3, Zenon
<1>. QED
  BY <1>1, <1>4, <1>5, Zenon

(* The rows of blockToModels, field by field. *)
LEMMA RowFields ==
    ASSUME NEW b \in Batches
    PROVE  LET d == Decode(b)
               n == Len(d.ethTxs)
               rows == TxRows(b)
               recs == Receipts(b)
           IN  /\ DOMAIN rows = 1..n /\ DOMAIN recs = 1..n
               /\ \A i \in 1..n :
                     /\ rows[i].hash = d.ethTxs[i].hash /\ rows[i].ok = d.ethTxs[i].ok
                     /\ rows[i].index = i - 1
                     /\ recs[i].hash = d.ethTxs[i].hash
                     /\ recs[i].ok = d.ethTxs[i].ok /\ recs[i].index = i - 1
                     /\ recs[i].gasUsed = GasUsed(d.ethTxs[i])
                     /\ recs[i].cumulative = CumulativeGasUsed(d.ethTxs)[i]
                     /\ recs[i].logs = TxLogs(d.logs, d.ethTxs[i].hash)[Len(d.logs)]
<1> DEFINE d == Decode(b)
           eths == d.ethTxs
           n == Len(eths)
           rows == TxRows(b)
           recs == Receipts(b)
<1>1. DOMAIN eths = 1..n
  <2>1. d \in Acc
    BY BatchFacts, DecodingSteps DEF Decode
  <2>2. eths \in Seq(EthTx)
    BY <2>1 DEF Acc
  <2>. QED
    BY <2>2
<1>2. DOMAIN rows = 1..n /\ DOMAIN recs = 1..n
  BY <1>1, Zenon DEF TxRows, Receipts
<1>3. ASSUME NEW i \in 1..n
      PROVE  /\ rows[i].hash = eths[i].hash /\ rows[i].ok = eths[i].ok /\ rows[i].index = i - 1
             /\ recs[i].hash = eths[i].hash
             /\ recs[i].ok = eths[i].ok /\ recs[i].index = i - 1
             /\ recs[i].gasUsed = GasUsed(eths[i])
             /\ recs[i].cumulative = CumulativeGasUsed(eths)[i]
             /\ recs[i].logs = TxLogs(d.logs, eths[i].hash)[Len(d.logs)]
  <2> DEFINE h == eths[i].hash
             o == eths[i].ok
             x == i - 1
             g == GasUsed(eths[i])
             c == CumulativeGasUsed(eths)[i]
             e == EffectivePrice(eths[i])
             l == TxLogs(d.logs, eths[i].hash)[Len(d.logs)]
             row == rows[i]
             receipt == recs[i]
  <2>1. row = [hash |-> h, ok |-> o, index |-> x]
    BY <1>1, Zenon DEF TxRows
  <2>2. receipt = [hash |-> h, ok |-> o, index |-> x, gasUsed |-> g, cumulative |-> c,
                   effectivePrice |-> e, logs |-> l]
    BY <1>1, Zenon DEF Receipts
  <2> HIDE DEF h, o, x, g, c, e, l, row, receipt
  <2>3. row.hash = h /\ row.ok = o /\ row.index = x
    BY ONLY <2>1
  <2>4. /\ receipt.hash = h /\ receipt.ok = o /\ receipt.index = x /\ receipt.gasUsed = g
        /\ receipt.cumulative = c /\ receipt.logs = l
    BY ONLY <2>2
  <2>. QED
    BY <2>3, <2>4, Zenon DEF h, o, x, g, c, e, l, row, receipt
<1>. QED
  BY <1>2, <1>3, Zenon

(* Conjunct by conjunct, for the last iteration of the loop. *)
LEMMA DecodedBatch ==
    ASSUME NEW b \in Batches
    PROVE  LET d == Decode(b)
           IN  /\ d.ethTxs \in Seq(EthTx) /\ d.logs \in Seq(Log)
               /\ LogsInv(d) /\ TxsInv(b, Len(b), d.ethTxs)
               /\ \A h : Len(TxLogs(d.logs, h)[Len(d.logs)]) = Sums(LogCounts(b, h))[Len(b)]
               /\ CumulativeGasUsed(d.ethTxs)[Len(d.ethTxs)] = Sums(GasCounts(b))[Len(b)]
<1> DEFINE d == Decode(b)
<1>1. d = Decoding(b)[Len(b)]
  BY DEF Decode
<1>2. Len(b) \in 0..Len(b)
  BY BatchFacts
<1>3. d \in Acc
  BY <1>1, <1>2, DecodingSteps, SMTT(30)
<1>4. d.ethTxs \in Seq(EthTx) /\ d.logs \in Seq(Log)
  BY <1>3 DEF Acc
<1>5. LogsInv(d)
  BY <1>1, <1>2, DecodedLogs, Zenon
<1>6. TxsInv(b, Len(b), d.ethTxs)
  BY <1>1, <1>2, DecodedTxs, Zenon
<1>7. \A h : Len(TxLogs(d.logs, h)[Len(d.logs)]) = Sums(LogCounts(b, h))[Len(b)]
  <2> TAKE h
  <2>1. \A m \in 0..Len(b) :
           Len(TxLogs(Decoding(b)[m].logs, h)[Len(Decoding(b)[m].logs)]) =
             Sums(LogCounts(b, h))[m]
    BY DecodedLogCount, Zenon
  <2>. QED
    BY <1>1, <1>2, <2>1, Zenon
<1>8. CumulativeGasUsed(d.ethTxs)[Len(d.ethTxs)] = Sums(GasCounts(b))[Len(b)]
  <2>1. Sums(Used(d.ethTxs))[Len(d.ethTxs)] = Sums(GasCounts(b))[Len(b)]
    BY <1>1, <1>2, DecodedGas, Zenon
  <2>2. CumulativeGasUsed(d.ethTxs) = Sums(Used(d.ethTxs))
    <3> HIDE DEF d
    <3>. QED
      BY <1>4, UsedType, Zenon
  <2>. QED
    BY <2>1, <2>2, Zenon
<1>. QED
  BY <1>4, <1>5, <1>6, <1>7, <1>8, Zenon

(***************************************************************************)
(* The rows that blockToModels makes of any runtime block, of any length   *)
(* and with any events, agree with each other: the logs are numbered       *)
(* through the block and name the index of the stored transaction, a       *)
(* stored receipt has exactly the logs its execution left, and the gas     *)
(* adds up to the block's.                                                 *)
(***************************************************************************)
THEOREM RowsAgree ==
    batch \in Batches => ModelsConsistent
<1> SUFFICES ASSUME batch \in Batches PROVE ModelsConsistent
  OBVIOUS
<1> DEFINE d == Decode(batch)
           logs == d.logs
           eths == d.ethTxs
           n == Len(eths)
           rows == TxRows(batch)
           recs == Receipts(batch)
           cum == CumulativeGasUsed(eths)
<1>1. /\ eths \in Seq(EthTx) /\ logs \in Seq(Log)
      /\ LogsInv(d) /\ TxsInv(batch, Len(batch), eths)
      /\ \A h : Len(TxLogs(logs, h)[Len(logs)]) = Sums(LogCounts(batch, h))[Len(batch)]
      /\ cum[n] = Sums(GasCounts(batch))[Len(batch)]
  BY DecodedBatch, Zenon
<1>2. /\ DOMAIN rows = 1..n /\ DOMAIN recs = 1..n
      /\ \A i \in 1..n :
            /\ rows[i].hash = eths[i].hash /\ rows[i].ok = eths[i].ok /\ rows[i].index = i - 1
            /\ recs[i].hash = eths[i].hash
            /\ recs[i].ok = eths[i].ok /\ recs[i].index = i - 1
            /\ recs[i].gasUsed = GasUsed(eths[i])
            /\ recs[i].cumulative = cum[i]
            /\ recs[i].logs = TxLogs(logs, eths[i].hash)[Len(logs)]
  BY RowFields, Zenon
<1>3. \A i, j \in 1..n : eths[i].ok /\ eths[j].ok /\ eths[i].hash = eths[j].hash => i = j
  BY <1>1, Zenon DEF TxsInv
<1>4. \A k \in 1..Len(logs) :
         /\ logs[k].index = k - 1 /\ logs[k].txIndex + 1 \in 1..n
         /\ eths[logs[k].txIndex + 1].ok /\ eths[logs[k].txIndex + 1].hash = logs[k].tx
  BY <1>1, Zenon DEF LogsInv
<1>5. /\ n \in Nat /\ DOMAIN eths = 1..n /\ DOMAIN logs = 1..Len(logs)
      /\ \A k \in 1..Len(logs) : logs[k] \in Log
  <2> HIDE DEF logs, eths
  <2>. QED
    BY <1>1
<1>6. \A k \in 1..Len(logs) : logs[k].txIndex \in Int
  BY <1>5 DEF Log
<1>7. /\ Len(batch) \in Nat /\ DOMAIN batch = 1..Len(batch)
  BY BatchFacts, Zenon
<1> HIDE DEF logs, eths, n, rows, recs, cum
<1>8. ASSUME NEW k \in DOMAIN logs
      PROVE  /\ logs[k].index = k - 1
             /\ logs[k].txIndex = Kept(rows, logs[k].tx).index
  <2> DEFINE x == logs[k].txIndex
             i == x + 1
  <2>1. k \in 1..Len(logs)
    BY <1>5, Zenon
  <2>2. i \in 1..n /\ eths[i].ok /\ eths[i].hash = logs[k].tx /\ x \in Int
    BY <1>4, <1>6, <2>1, Zenon
  <2>3. i - 1 = x
    BY <2>2
  <2> HIDE DEF x, i
  <2>4. PICK c \in 1..n :
             /\ Kept(rows, rows[i].hash) = rows[c] /\ rows[c].hash = rows[i].hash
             /\ \A j \in 1..n : rows[j].hash = rows[i].hash /\ rows[j].ok => rows[c].ok
    <3>1. n \in Nat /\ DOMAIN rows = 1..n /\ i \in 1..n
      BY <1>2, <1>5, <2>2, Zenon
    <3>. QED
      BY <3>1, KeptRow, Zenon
  <2>5. rows[c].ok
    BY <1>2, <2>2, <2>4, Zenon
  <2>6. c = i
    BY <1>2, <1>3, <2>2, <2>4, <2>5, SMTT(30)
  <2>7. rows[i].hash = logs[k].tx /\ rows[i].index = x
    BY <1>2, <2>2, <2>3, Zenon
  <2>8. Kept(rows, logs[k].tx).index = x
    BY <2>4, <2>6, <2>7, Zenon
  <2>. QED
    BY <1>4, <2>1, <2>8, Zenon DEF x
<1>9. ASSUME NEW i \in DOMAIN recs
      PROVE  LET stored == Kept(recs, recs[i].hash) IN
             /\ Len(stored.logs) = Sums(LogCounts(batch, stored.hash))[Len(batch)]
             /\ \A k \in DOMAIN stored.logs : stored.logs[k].txIndex = stored.index
  <2>1. i \in 1..n
    BY <1>2, Zenon
  <2>2. PICK c \in 1..n :
             /\ Kept(recs, recs[i].hash) = recs[c]
             /\ recs[c].hash = recs[i].hash
             /\ \A j \in 1..n :
                   recs[j].hash = recs[i].hash /\ recs[j].ok => recs[c].ok
    <3>1. n \in Nat /\ DOMAIN recs = 1..n
      BY <1>2, <1>5, Zenon
    <3>. QED
      BY <2>1, <3>1, KeptRow, Zenon
  <2> DEFINE h == eths[c].hash
             s == TxLogs(logs, h)[Len(logs)]
  <2>3. recs[c].hash = h /\ recs[c].logs = s /\ recs[c].index = c - 1
    BY <1>2, Zenon
  <2>4. Len(s) = Sums(LogCounts(batch, h))[Len(batch)]
    BY <1>1, Zenon
  <2>5. s \in Seq(Log) /\ DOMAIN s = 1..Len(s)
    <3>1. Len(logs) \in 0..Len(logs) /\ logs \in Seq(Log)
      BY <1>1
    <3>2. s \in Seq(Log)
      BY <3>1, TxLogsSteps, Zenon
    <3> HIDE DEF s
    <3>. QED
      BY <3>2
  <2>6. ASSUME NEW k \in 1..Len(s) PROVE s[k].txIndex = c - 1
    <3>1. PICK j \in 1..Len(logs) : s[k] = logs[j] /\ logs[j].tx = h
      BY <1>1, SelectedLogs, Zenon
    <3> DEFINE x == logs[j].txIndex
               y == x + 1
    <3>2. y \in 1..n /\ eths[y].ok /\ eths[y].hash = h /\ x \in Int
      BY <1>4, <1>6, <3>1, Zenon
    <3>3. y - 1 = x
      BY <3>2
    <3> HIDE DEF x, y
    <3>4. recs[c].ok
      <4>1. recs[y].hash = eths[y].hash /\ recs[y].ok = eths[y].ok
        BY <1>2, <3>2, Zenon
      <4>2. recs[y].ok
        BY <3>2, <4>1
      <4>3. recs[y].hash = recs[i].hash
        BY <2>2, <2>3, <3>2, <4>1, Zenon
      <4>. QED
        BY <2>2, <3>2, <4>2, <4>3, Zenon
    <3>5. c = y
      BY <1>2, <1>3, <3>2, <3>4, SMTT(30)
    <3>. QED
      BY <3>1, <3>3, <3>5, Zenon DEF x
  <2> HIDE DEF h, s
  <2>. QED
    BY <2>2, <2>3, <2>4, <2>5, <2>6, Zenon
<1>10. cum[0] = 0 /\ \A i \in 1..n : cum[i] = cum[i - 1] + GasUsed(eths[i]) /\ cum[i] \in Nat
  <2>1. Used(eths) \in [1..n -> Nat] /\ cum = Sums(Used(eths))
    BY <1>1, UsedType, Zenon DEF n, cum
  <2>2. cum \in [0..n -> Nat] /\ Adds(Used(eths), n, cum)
    BY <1>5, <2>1, SumsAdd, Zenon
  <2>3. \A i \in 1..n : Used(eths)[i] = GasUsed(eths[i])
    BY Zenon DEF Used, n
  <2>4. \A i \in 1..n : i \in 0..n
    BY <1>5
  <2>. QED
    BY <2>2, <2>3, <2>4, Zenon DEF Adds
<1>11. ASSUME NEW i \in DOMAIN recs
       PROVE  recs[i].cumulative =
                 recs[i].gasUsed + (IF i = 1 THEN 0 ELSE recs[i - 1].cumulative)
  <2>1. i \in 1..n
    BY <1>2, Zenon
  <2> DEFINE g == GasUsed(eths[i])
  <2>2. recs[i].cumulative = cum[i] /\ recs[i].gasUsed = g /\ g \in Nat
    <3>1. eths[i] \in EthTx
      BY <1>1, <2>1 DEF n
    <3>. QED
      BY <1>2, <2>1, <3>1, GasUsedType, Zenon
  <2>3. cum[i] = cum[i - 1] + g
    BY <1>10, <2>1, Zenon
  <2> HIDE DEF g
  <2>4. CASE i = 1
    BY <1>10, <2>2, <2>3, <2>4, SMTT(30)
  <2>5. CASE i # 1
    <3>1. i - 1 \in 1..n
      BY <1>5, <2>1, <2>5
    <3>2. recs[i - 1].cumulative = cum[i - 1] /\ cum[i - 1] \in Nat
      BY <1>2, <1>10, <3>1, Zenon
    <3>. QED
      BY <2>2, <2>3, <2>5, <3>2, SMTT(30)
  <2>. QED
    BY <2>4, <2>5, Zenon
<1>12. HeaderGasUsed(batch) = cum[n]
  BY Zenon DEF HeaderGasUsed, cum, n, eths
<1>13. ASSUME recs # <<>> PROVE Last(recs).cumulative = cum[n]
  <2>1. Len(recs) = n
    BY <1>2, <1>5
  <2>2. n # 0
    <3>1. CASE n = 0
      BY <1>2, <1>13, <3>1
    <3>. QED
      BY <3>1
  <2>3. n \in 1..n
    BY <1>5, <2>2
  <2>. QED
    BY <1>2, <2>1, <2>3, Zenon DEF Last
<1>14. \A h : Sum([i \in DOMAIN batch |->
                     IF batch[i].eth /\ batch[i].hash = h /\ batch[i].ok
                     THEN Amount(batch[i], "evm") ELSE 0]) =
                Sums(LogCounts(batch, h))[Len(batch)]
  <2> TAKE h
  <2> DEFINE m == LogCounts(batch, h)
  <2>1. [i \in DOMAIN batch |->
            IF batch[i].eth /\ batch[i].hash = h /\ batch[i].ok
            THEN Amount(batch[i], "evm") ELSE 0] = m
    BY <1>7, Zenon DEF LogCounts
  <2>2. Len(m) = Len(batch)
    BY <1>7 DEF LogCounts
  <2> HIDE DEF m
  <2>3. Sum(m) = Sums(m)[Len(batch)]
    BY <2>2, Zenon DEF Sum
  <2>. QED
    BY <2>1, <2>3, Zenon DEF m
<1>15. Sum([i \in DOMAIN batch |-> IF batch[i].eth THEN GasUsed(batch[i]) ELSE 0]) = cum[n]
  <2> DEFINE m == GasCounts(batch)
  <2>1. [i \in DOMAIN batch |-> IF batch[i].eth THEN GasUsed(batch[i]) ELSE 0] = m
    BY <1>7, Zenon DEF GasCounts
  <2>2. Len(m) = Len(batch)
    BY <1>7 DEF GasCounts
  <2> HIDE DEF m
  <2>3. Sum(m) = Sums(m)[Len(batch)]
    BY <2>2, Zenon DEF Sum
  <2>. QED
    BY <1>1, <2>1, <2>3, Zenon DEF m
<1>. QED
  BY <1>8, <1>9, <1>11, <1>12, <1>13, <1>14, <1>15, Zenon
    DEF ModelsConsistent, logs, rows, recs

=============================================================================
