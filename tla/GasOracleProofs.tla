-------------------------- MODULE GasOracleProofs --------------------------
(***************************************************************************)
(* Proofs about GasOracle, for any window, fee history, prices and skipped *)
(* rounds: the rolling array of prices holds the last blocks tracked at    *)
(* the slots where their age puts them, the fee history holds the last     *)
(* blocks handled, and at most one query is in flight, for a block older   *)
(* than every block still to come.                                         *)
(***************************************************************************)
EXTENDS GasOracle, FiniteSetTheorems, SequenceTheorems, WellFoundedInduction, TLAPS

Types ==
    /\ indexed \in Nat
    /\ ch \in Seq(Blocks) /\ handled \in Seq(Blocks)
    /\ nodeMinGasPrice \in Int /\ queries \subseteq Rounds

(* Blocks are broadcast and handled in the order of the chain. *)
OrderInv ==
    /\ \A i, j \in 1..Len(handled) : i < j => handled[i].round < handled[j].round
    /\ \A i, j \in 1..Len(ch) : i < j => ch[i].round < ch[j].round
    /\ \A i \in 1..Len(handled), j \in 1..Len(ch) : handled[i].round < ch[j].round
    /\ \A j \in 1..Len(ch) : ch[j].round <= indexed
    /\ \A i \in 1..Len(handled) : handled[i].round <= indexed

(* The one query in flight is for a block that comes after the one of the  *)
(* price reported last, and before those not yet handled.                  *)
QueryInv ==
    /\ queries # {} => queryInProgress
    /\ \A q, r \in queries : q = r
    /\ nodeMinGasPrice <= indexed
    /\ \A j \in 1..Len(ch) : nodeMinGasPrice < ch[j].round
    /\ \A q \in queries : /\ nodeMinGasPrice <= q /\ q <= indexed
                          /\ \A j \in 1..Len(ch) : q < ch[j].round

(* The age of a block in tracked blocks, the slot of the rolling array for *)
(* an age, and what is stored for a block.                                 *)
Age(h, i) == Cardinality({j \in i + 1 .. Len(h) : Tracked(h[j])})
Slot(k, idx) == IF k < idx THEN idx - 1 - k ELSE idx - 1 - k + WindowSize
PriceOf(b) == IF b.full THEN b.price ELSE 0
InWindow(h, i) == i \in 1..Len(h) /\ Tracked(h[i]) /\ Age(h, i) < WindowSize

RingInv ==
    /\ blockPrices \in [0..WindowSize - 1 -> Nat]
    /\ blockPricesCurrentIdx \in 0..WindowSize - 1
    /\ \A i \in 1..Len(handled) : InWindow(handled, i) =>
           blockPrices[Slot(Age(handled, i), blockPricesCurrentIdx)] = PriceOf(handled[i])
    /\ \A k \in 0..WindowSize - 1 : blockPrices[k] # 0 =>
           \E i \in 1..Len(handled) :
               InWindow(handled, i) /\ Slot(Age(handled, i), blockPricesCurrentIdx) = k

(* p is the price to report for an array of prices. *)
HighestOf(prices, p) ==
    \/ p = NoPrice /\ \A k \in 0..WindowSize - 1 : prices[k] = 0
    \/ /\ p > 0 /\ \E k \in 0..WindowSize - 1 : prices[k] = p
       /\ \A k \in 0..WindowSize - 1 : prices[k] <= p

PriceInv == HighestOf(blockPrices, computedGasPrice)

(* The fee history is the end of the history of blocks. *)
HistoryInv ==
    /\ feeHistoryData \in Seq(Int)
    /\ Len(feeHistoryData) =
           IF Len(handled) < FeeHistorySize THEN Len(handled) ELSE FeeHistorySize
    /\ \A i \in 1..Len(feeHistoryData) :
           feeHistoryData[i] = handled[Len(handled) - Len(feeHistoryData) + i].round

(* The inductive invariant. *)
OracleInv == Types /\ OrderInv /\ QueryInv /\ RingInv /\ PriceInv /\ HistoryInv

-----------------------------------------------------------------------------
(* Sequences, blocks and indices.                                          *)

LEMMA Appended ==
    ASSUME NEW S, NEW q \in Seq(S), NEW e \in S, NEW w, w = Append(q, e)
    PROVE  /\ w \in Seq(S) /\ Len(q) \in Nat /\ Len(w) = Len(q) + 1
           /\ \A i \in 1..Len(q) : w[i] = q[i] /\ q[i] \in S
           /\ w[Len(q) + 1] = e
<1>1. w \in Seq(S) /\ Len(w) = Len(q) + 1
  BY AppendProperties
<1>2. \A i \in 1..Len(q) : w[i] = q[i]
  BY AppendProperties
<1>3. w[Len(q) + 1] = e
  BY AppendProperties
<1>4. \A i \in 1..Len(q) : q[i] \in S
  BY ElementOfSeq
<1>5. Len(q) \in Nat
  BY LenProperties
<1>. QED
  BY <1>1, <1>2, <1>3, <1>4, <1>5, Zenon

LEMMA Dropped ==
    ASSUME NEW S, NEW q \in Seq(S), q # <<>>
    PROVE  /\ Tail(q) \in Seq(S) /\ Len(q) \in Nat \ {0} /\ Len(Tail(q)) = Len(q) - 1
           /\ \A i \in 1..Len(Tail(q)) : Tail(q)[i] = q[i + 1]
           /\ Head(q) = q[1] /\ Head(q) \in S
<1>1. /\ Tail(q) \in Seq(S) /\ Len(Tail(q)) = Len(q) - 1 /\ Head(q) \in S
      /\ \A i \in 1..Len(Tail(q)) : Tail(q)[i] = q[i + 1]
  BY HeadTailProperties, Zenon
<1>2. Len(q) \in Nat \ {0}
  BY EmptySeq, LenProperties
<1>3. Head(q) = q[1]
  BY DEF Head
<1>. QED
  BY <1>1, <1>2, <1>3, Zenon

LEMMA BlockType ==
    ASSUME NEW b \in Blocks
    PROVE  /\ b.round \in Nat /\ b.round \in Rounds /\ b.full \in BOOLEAN
           /\ b.price \in Int /\ b.price \in Prices
           /\ b.price # NoPrice => b.price \in Nat \ {0}
<1>1. b.round \in Rounds /\ b.full \in BOOLEAN /\ b.price \in Prices
  BY DEF Blocks
<1>2. b.price \in Nat \ {0} \/ b.price = NoPrice
  BY <1>1, PriceAssumption, Zenon
<1>3. b.round \in Nat
  BY <1>1, SizeAssumption DEF Rounds
<1>4. b.price \in Int
  BY <1>2 DEF NoPrice
<1>. QED
  BY <1>1, <1>2, <1>3, <1>4, Zenon

(* The modulus of trackPrice wraps the index at the end of the array. *)
LEMMA NextIndex ==
    ASSUME NEW w \in Nat \ {0}, NEW i \in 0..w - 1
    PROVE  (i + 1) % w = IF i + 1 = w THEN 0 ELSE i + 1
OBVIOUS

LEMMA LeastNumber ==
    ASSUME NEW T, T \subseteq Nat, T # {}
    PROVE  \E x \in T : \A y \in T : x <= y
<1>1. PICK x \in T : \A y \in T : ~(<<y, x>> \in OpToRel(<, Nat))
  BY WFMin, NatLessThanWellFounded, Zenon
<1>2. ASSUME NEW y \in T PROVE x <= y
  <2>1. ~(<<y, x>> \in OpToRel(<, Nat)) /\ x \in Nat /\ y \in Nat
    BY <1>1, <1>2
  <2>. QED
    BY <2>1 DEF OpToRel
<1>. QED
  BY <1>2

(* A rolling array of prices has a highest one. *)
LEMMA HighestExists ==
    ASSUME NEW n \in Nat, NEW f \in [0..n -> Nat]
    PROVE  \E k \in 0..n : \A j \in 0..n : f[j] <= f[k]
<1> DEFINE P(m) == \E k \in 0..m : \A j \in 0..m : f[j] <= f[k]
           T == {m \in 0..n : ~P(m)}
<1> SUFFICES ASSUME ~P(n) PROVE FALSE
  BY Zenon
<1>0. T # {}
  <2>1. n \in T
    OBVIOUS
  <2>. QED
    BY <2>1, Zenon
<1>1. PICK m \in T : \A y \in T : m <= y
  <2>1. T \subseteq Nat
    OBVIOUS
  <2> HIDE DEF T
  <2>. QED
    BY <1>0, <2>1, LeastNumber, Zenon
<1>2. m \in 0..n /\ ~P(m)
  BY <1>1
<1>3. m # 0
  BY <1>2
<1>4. m - 1 \in 0..n /\ P(m - 1)
  <2>1. m - 1 \in 0..n /\ ~(m <= m - 1)
    BY <1>2, <1>3
  <2>2. m - 1 \notin T
    BY <1>1, <2>1, Zenon
  <2>. QED
    BY <2>1, <2>2
<1>5. PICK k \in 0..m - 1 : \A j \in 0..m - 1 : f[j] <= f[k]
  BY <1>4, Zenon
<1>6. /\ k \in 0..m /\ m \in 0..m /\ f[k] \in Nat /\ f[m] \in Nat
      /\ \A j \in 0..m : f[j] \in Nat /\ (j \in 0..m - 1 \/ j = m)
  <2>1. m \in Nat /\ n \in Nat /\ m <= n /\ k \in 0..m - 1
    BY <1>2, <1>5
  <2>2. /\ k \in 0..m /\ m \in 0..m /\ k \in 0..n /\ m \in 0..n
        /\ \A j \in 0..m : j \in 0..n /\ (j \in 0..m - 1 \/ j = m)
    <3> HIDE DEF P, T
    <3>. QED
      BY <2>1
  <2>3. \A j \in 0..n : f[j] \in Nat
    BY Zenon
  <2>. QED
    BY <2>2, <2>3, Zenon
<1>7. CASE f[m] <= f[k]
  <2>1. \A j \in 0..m : f[j] <= f[k]
    BY <1>5, <1>6, <1>7, Zenon
  <2>. QED
    BY <1>2, <1>6, <2>1, Zenon
<1>8. CASE f[k] <= f[m]
  <2>1. \A j \in 0..m : f[j] <= f[m]
    <3> SUFFICES ASSUME NEW j \in 0..m PROVE f[j] <= f[m]
      BY Zenon
    <3>1. f[j] <= f[k] \/ j = m
      BY <1>5, <1>6, Zenon
    <3>2. f[j] \in Nat /\ f[k] \in Nat /\ f[m] \in Nat
      BY <1>6, Zenon
    <3> HIDE DEF P, T
    <3>3. CASE f[j] <= f[k]
      BY <1>8, <3>2, <3>3
    <3>4. CASE j = m
      BY <3>2, <3>4
    <3>. QED
      BY <3>1, <3>3, <3>4
  <2>. QED
    BY <1>2, <1>6, <2>1, Zenon
<1>. QED
  BY <1>6, <1>7, <1>8

-----------------------------------------------------------------------------
(* A block is broadcast: the newest blocks of the queue stay, in order. *)
LEMMA QueueOfBroadcast ==
    ASSUME Types, Broadcast
    PROVE  \E d \in {0, 1}, b \in Blocks :
               /\ b.round = indexed' /\ indexed' > indexed /\ indexed' \in Nat
               /\ ch' \in Seq(Blocks) /\ Len(ch) \in Nat /\ Len(ch') = Len(ch) + 1 - d
               /\ \A i \in 1..Len(ch') :
                      \/ i + d = Len(ch) + 1 /\ ch'[i] = b
                      \/ i + d \in 1..Len(ch) /\ ch'[i] = ch[i + d]
<1>1. PICK r \in indexed + 1 .. indexed + 1 + MaxJump, full \in BOOLEAN, p \in Prices :
        LET queue == Append(ch, [round |-> r, full |-> full, price |-> p]) IN
        /\ r \in Rounds /\ indexed' = r
        /\ ch' = IF Len(queue) > WindowSize THEN Tail(queue) ELSE queue
  BY Zenon DEF Broadcast
<1> DEFINE b == [round |-> r, full |-> full, price |-> p]
           queue == Append(ch, b)
<1>2. b \in Blocks /\ b.round = indexed'
  BY <1>1 DEF Blocks
<1>3. indexed' \in Nat /\ indexed' > indexed
  BY <1>1, SizeAssumption DEF Types, Rounds
<1>4. ch' = Tail(queue) \/ ch' = queue
  BY <1>1
<1>5. ch \in Seq(Blocks)
  BY DEF Types
<1> HIDE DEF b
<1>6. /\ queue \in Seq(Blocks) /\ Len(ch) \in Nat /\ Len(queue) = Len(ch) + 1
      /\ \A i \in 1..Len(ch) : queue[i] = ch[i]
      /\ queue[Len(ch) + 1] = b
  BY <1>2, <1>5, Appended
<1> HIDE DEF queue
<1>7. CASE ch' = queue
  <2>1. \A i \in 1..Len(ch') : \/ i + 0 = Len(ch) + 1 /\ ch'[i] = b
                               \/ i + 0 \in 1..Len(ch) /\ ch'[i] = ch[i + 0]
    BY <1>6, <1>7
  <2>2. Len(ch') = Len(ch) + 1 - 0
    BY <1>6, <1>7
  <2>. QED
    BY <1>2, <1>3, <1>6, <1>7, <2>1, <2>2, Zenon
<1>8. CASE ch' = Tail(queue)
  <2>1. /\ ch' \in Seq(Blocks) /\ Len(ch') = Len(queue) - 1
        /\ \A i \in 1..Len(ch') : ch'[i] = queue[i + 1]
    <3>1. queue # <<>>
      BY <1>6
    <3>. QED
      BY <1>6, <1>8, <3>1, Dropped, Zenon
  <2>2. \A i \in 1..Len(ch') : \/ i + 1 = Len(ch) + 1 /\ ch'[i] = b
                               \/ i + 1 \in 1..Len(ch) /\ ch'[i] = ch[i + 1]
    BY <1>6, <2>1
  <2>3. Len(ch') = Len(ch) + 1 - 1
    BY <1>6, <2>1
  <2>. QED
    BY <1>2, <1>3, <1>6, <2>1, <2>2, <2>3, Zenon
<1>. QED
  BY <1>4, <1>7, <1>8

LEMMA BroadcastStep == ASSUME OracleInv, Broadcast PROVE OracleInv'
<1>1. Types /\ OrderInv /\ QueryInv
  BY Zenon DEF OracleInv
<1>2. UNCHANGED <<priceVars, queryInProgress, queries, nodeMinGasPrice, feeHistoryData, handled>>
  BY Zenon DEF Broadcast
<1>3. PICK d \in {0, 1}, b \in Blocks :
               /\ b.round = indexed' /\ indexed' > indexed /\ indexed' \in Nat
               /\ ch' \in Seq(Blocks) /\ Len(ch) \in Nat /\ Len(ch') = Len(ch) + 1 - d
               /\ \A i \in 1..Len(ch') :
                      \/ i + d = Len(ch) + 1 /\ ch'[i] = b
                      \/ i + d \in 1..Len(ch) /\ ch'[i] = ch[i + d]
  BY <1>1, QueueOfBroadcast, Zenon
<1>4. /\ indexed \in Nat /\ indexed' \in Nat /\ indexed < indexed'
      /\ Len(handled) \in Nat /\ nodeMinGasPrice \in Int
      /\ \A i \in 1..Len(handled) : handled[i].round \in Nat
      /\ \A i \in 1..Len(ch) : ch[i].round \in Nat
      /\ \A q \in queries : q \in Int
  <2>1. /\ indexed \in Nat /\ nodeMinGasPrice \in Int /\ queries \subseteq Rounds
        /\ handled \in Seq(Blocks) /\ ch \in Seq(Blocks)
    BY <1>1 DEF Types
  <2>2. \A q \in queries : q \in Int
    BY <2>1 DEF Rounds
  <2>3. Len(handled) \in Nat
    BY <2>1, LenProperties
  <2>4. \A i \in 1..Len(handled) : handled[i] \in Blocks
    BY <2>1, ElementOfSeq
  <2>5. \A i \in 1..Len(ch) : ch[i] \in Blocks
    BY <2>1, ElementOfSeq
  <2>6. indexed < indexed'
    BY <1>3, <2>1
  <2>. QED
    BY <1>3, <2>1, <2>2, <2>3, <2>4, <2>5, <2>6, BlockType, Zenon
<1>5. Types'
  BY <1>1, <1>2, <1>3, Zenon DEF Types
<1>6. /\ \A i \in 1..Len(ch') :
             \/ i + d = Len(ch) + 1 /\ ch'[i].round = indexed'
             \/ i + d \in 1..Len(ch) /\ ch'[i].round = ch[i + d].round
  BY <1>3, Zenon
<1>7. OrderInv'
  <2>1. ASSUME NEW i \in 1..Len(ch') PROVE ch'[i].round <= indexed'
    <3>1. CASE ch'[i].round = indexed'
      BY <1>4, <3>1
    <3>2. CASE i + d \in 1..Len(ch) /\ ch'[i].round = ch[i + d].round
      <4>1. ch'[i].round \in Nat /\ ch'[i].round <= indexed
        BY <1>1, <1>4, <3>2, Zenon DEF OrderInv
      <4>. QED
        BY <1>4, <4>1
    <3>. QED
      BY <1>6, <3>1, <3>2, Zenon
  <2>2. ASSUME NEW i \in 1..Len(handled) PROVE handled[i].round <= indexed'
    BY <1>1, <1>4 DEF OrderInv
  <2>3. ASSUME NEW i \in 1..Len(handled), NEW j \in 1..Len(ch')
        PROVE  handled[i].round < ch'[j].round
    BY <1>1, <1>4, <1>6, SMTT(30) DEF OrderInv
  <2>4. ASSUME NEW i \in 1..Len(ch'), NEW j \in 1..Len(ch'), i < j
        PROVE  ch'[i].round < ch'[j].round
    <3>1. i + d \in 1..Len(ch) /\ ch'[i].round = ch[i + d].round
      BY <1>3, <1>6, <2>4
    <3>2. CASE j + d = Len(ch) + 1 /\ ch'[j].round = indexed'
      BY <1>1, <1>4, <3>1, <3>2 DEF OrderInv
    <3>3. CASE j + d \in 1..Len(ch) /\ ch'[j].round = ch[j + d].round
      <4>1. i + d < j + d
        BY <2>4, <1>3
      <4>. QED
        BY <1>1, <3>1, <3>3, <4>1, Zenon DEF OrderInv
    <3>. QED
      BY <1>6, <3>2, <3>3
  <2>. QED
    BY <1>1, <1>2, <2>1, <2>2, <2>3, <2>4, Zenon DEF OrderInv
<1>8. QueryInv'
  <2>1. nodeMinGasPrice <= indexed'
    BY <1>1, <1>4 DEF QueryInv
  <2>2. ASSUME NEW j \in 1..Len(ch') PROVE nodeMinGasPrice < ch'[j].round
    BY <1>1, <1>4, <1>6 DEF QueryInv
  <2>3. ASSUME NEW q \in queries PROVE q <= indexed'
    BY <1>1, <1>4 DEF QueryInv
  <2>4. ASSUME NEW q \in queries, NEW j \in 1..Len(ch') PROVE q < ch'[j].round
    BY <1>1, <1>4, <1>6 DEF QueryInv
  <2>. QED
    BY <1>1, <1>2, <2>1, <2>2, <2>3, <2>4, Zenon DEF QueryInv
<1>9. RingInv' /\ PriceInv' /\ HistoryInv'
  BY <1>2, Zenon DEF OracleInv, priceVars, RingInv, PriceInv, HistoryInv
<1>. QED
  BY <1>5, <1>7, <1>8, <1>9, Zenon DEF OracleInv

(* The oldest block of the queue is handled, and a query started for it    *)
(* unless one is in flight.                                                *)
LEMMA QueueOfHandle ==
    ASSUME Types, OrderInv, QueryInv, HandleBlock
    PROVE  Types' /\ OrderInv' /\ QueryInv'
<1>1. /\ ch # <<>> /\ ch' = Tail(ch) /\ handled' = Append(handled, Head(ch))
      /\ queryInProgress' = TRUE
      /\ queries' = IF queryInProgress THEN queries ELSE queries \cup {Head(ch).round}
      /\ UNCHANGED <<indexed, nodeMinGasPrice>>
  BY Zenon DEF HandleBlock, StartQuery
<1>2. /\ indexed \in Nat /\ nodeMinGasPrice \in Int /\ queries \subseteq Rounds
      /\ handled \in Seq(Blocks) /\ ch \in Seq(Blocks)
  BY DEF Types
<1>3. /\ ch' \in Seq(Blocks) /\ Len(ch) \in Nat \ {0} /\ Len(ch') = Len(ch) - 1
      /\ \A i \in 1..Len(ch') : ch'[i] = ch[i + 1]
      /\ Head(ch) = ch[1] /\ Head(ch) \in Blocks
  BY <1>1, <1>2, Dropped, Zenon
<1> DEFINE b == Head(ch)
<1>4. /\ handled' \in Seq(Blocks) /\ Len(handled) \in Nat /\ Len(handled') = Len(handled) + 1
      /\ \A i \in 1..Len(handled) : handled'[i] = handled[i] /\ handled[i] \in Blocks
      /\ handled'[Len(handled) + 1] = b
  BY <1>1, <1>2, <1>3, Appended
<1>5. b.round \in Rounds /\ b.round = ch[1].round
  BY <1>3, BlockType, Zenon
<1>6. Types'
  BY <1>1, <1>2, <1>3, <1>4, <1>5, Zenon DEF Types
<1>7. /\ 1 \in 1..Len(ch)
      /\ \A i \in 1..Len(ch') : i + 1 \in 1..Len(ch) /\ 1 < i + 1
      /\ \A i, j \in 1..Len(ch') : i < j => i + 1 < j + 1
      /\ \A i \in 1..Len(handled') : i \in 1..Len(handled) \/ i = Len(handled) + 1
      /\ \A i, j \in 1..Len(handled') : i < j => i \in 1..Len(handled)
  BY <1>3, <1>4
<1>8. \A i \in 1..Len(handled') :
          \/ i \in 1..Len(handled) /\ handled'[i].round = handled[i].round
          \/ i = Len(handled) + 1 /\ handled'[i].round = ch[1].round
  BY <1>4, <1>5, <1>7, Zenon
<1>9. OrderInv'
  <2>1. ASSUME NEW i \in 1..Len(handled'), NEW j \in 1..Len(handled'), i < j
        PROVE  handled'[i].round < handled'[j].round
    <3>1. i \in 1..Len(handled) /\ handled'[i].round = handled[i].round
      BY <1>4, <1>7, <2>1, Zenon
    <3>. QED
      BY <1>7, <1>8, <2>1, <3>1, Zenon DEF OrderInv
  <2>2. ASSUME NEW i \in 1..Len(ch'), NEW j \in 1..Len(ch'), i < j
        PROVE  ch'[i].round < ch'[j].round
    BY <1>3, <1>7, <2>2, Zenon DEF OrderInv
  <2>3. ASSUME NEW i \in 1..Len(handled'), NEW j \in 1..Len(ch')
        PROVE  handled'[i].round < ch'[j].round
    BY <1>3, <1>7, <1>8, Zenon DEF OrderInv
  <2>4. ASSUME NEW j \in 1..Len(ch') PROVE ch'[j].round <= indexed
    BY <1>3, <1>7, Zenon DEF OrderInv
  <2>5. ASSUME NEW i \in 1..Len(handled') PROVE handled'[i].round <= indexed
    BY <1>7, <1>8, Zenon DEF OrderInv
  <2>. QED
    BY <1>1, <2>1, <2>2, <2>3, <2>4, <2>5, Zenon DEF OrderInv
<1>10. QueryInv'
  <2>1. ASSUME NEW j \in 1..Len(ch') PROVE nodeMinGasPrice < ch'[j].round
    BY <1>3, <1>7, Zenon DEF QueryInv
  <2>2. CASE queryInProgress
    <3>1. ASSUME NEW q \in queries, NEW j \in 1..Len(ch') PROVE q < ch'[j].round
      BY <1>3, <1>7, Zenon DEF QueryInv
    <3>. QED
      BY <1>1, <2>1, <2>2, <3>1, Zenon DEF QueryInv
  <2>3. CASE ~queryInProgress
    <3>1. queries' = {ch[1].round}
      BY <1>1, <1>5, <2>3, Zenon DEF QueryInv
    <3>2. ch[1].round <= indexed /\ nodeMinGasPrice < ch[1].round
      BY <1>7, Zenon DEF OrderInv, QueryInv
    <3>3. nodeMinGasPrice <= ch[1].round
      <4>1. ch[1].round \in Int
        BY <1>5, SizeAssumption DEF Rounds
      <4>. QED
        BY <1>2, <3>2, <4>1
    <3>4. ASSUME NEW j \in 1..Len(ch') PROVE ch[1].round < ch'[j].round
      BY <1>3, <1>7, Zenon DEF OrderInv
    <3>. QED
      BY <1>1, <2>1, <3>1, <3>2, <3>3, <3>4, Zenon DEF QueryInv
  <2>. QED
    BY <2>2, <2>3
<1>. QED
  BY <1>6, <1>9, <1>10

(* The query ends, with the node's answer or without. *)
LEMMA FetchStep ==
    ASSUME OracleInv, NEW r \in Rounds, FetchMinGasPrice(r)
    PROVE  OracleInv' /\ nodeMinGasPrice' >= nodeMinGasPrice
<1>1. /\ Types /\ OrderInv /\ QueryInv /\ r \in queries /\ queries' = queries \ {r}
      /\ nodeMinGasPrice' = r \/ nodeMinGasPrice' = nodeMinGasPrice
      /\ UNCHANGED <<indexed, ch, priceVars, queryInProgress, feeHistoryData, handled>>
  BY Zenon DEF OracleInv, FetchMinGasPrice
<1>2. nodeMinGasPrice \in Int /\ r \in Int /\ nodeMinGasPrice <= r
  BY <1>1, SizeAssumption DEF Types, QueryInv, Rounds
<1>3. nodeMinGasPrice' >= nodeMinGasPrice
  BY <1>1, <1>2
<1>4. Types' /\ OrderInv'
  BY <1>1, <1>2, Zenon DEF Types, OrderInv
<1>5. queries' = {} /\ nodeMinGasPrice' <= indexed
      /\ \A j \in 1..Len(ch) : nodeMinGasPrice' < ch[j].round
  BY <1>1, Zenon DEF QueryInv
<1>6. QueryInv'
  BY <1>1, <1>5, Zenon DEF QueryInv
<1>7. RingInv' /\ PriceInv' /\ HistoryInv'
  BY <1>1, Zenon DEF OracleInv, priceVars, RingInv, PriceInv, HistoryInv
<1>. QED
  BY <1>3, <1>4, <1>6, <1>7, Zenon DEF OracleInv

LEMMA DoneStep == ASSUME OracleInv, QueryDone PROVE OracleInv'
<1>1. /\ queries = {}
      /\ UNCHANGED <<indexed, ch, priceVars, queries, nodeMinGasPrice, feeHistoryData, handled>>
  BY Zenon DEF QueryDone
<1>2. Types' /\ OrderInv' /\ QueryInv'
  BY <1>1, Zenon DEF OracleInv, Types, OrderInv, QueryInv
<1>. QED
  BY <1>1, <1>2, Zenon DEF OracleInv, priceVars, RingInv, PriceInv, HistoryInv

(* The block enters the fee history, and the oldest leaves a full one. *)
LEMMA HistoryStep ==
    ASSUME Types, HistoryInv, HandleBlock
    PROVE  HistoryInv'
<1> DEFINE r == Head(ch).round
           d == IF Len(feeHistoryData) = FeeHistorySize THEN 1 ELSE 0
           base == IF Len(feeHistoryData) = FeeHistorySize THEN Tail(feeHistoryData)
                   ELSE feeHistoryData
           H == Len(handled)
           L == Len(feeHistoryData)
<1>1. /\ ch # <<>> /\ handled' = Append(handled, Head(ch))
      /\ feeHistoryData' = Append(base, r)
  BY Zenon DEF HandleBlock, TrackFeeHistory
<1>2. Head(ch) \in Blocks
  BY <1>1, Dropped, Zenon DEF Types
<1>3. /\ H \in Nat /\ Len(handled') = H + 1
      /\ \A i \in 1..H : handled'[i] = handled[i]
      /\ handled'[H + 1] = Head(ch)
  BY <1>1, <1>2, Appended DEF Types
<1>4. /\ feeHistoryData \in Seq(Int) /\ L \in Nat
      /\ L = IF H < FeeHistorySize THEN H ELSE FeeHistorySize
      /\ \A i \in 1..L : feeHistoryData[i] = handled[H - L + i].round
  BY LenProperties, Zenon DEF HistoryInv
<1>5. /\ base \in Seq(Int) /\ Len(base) = L - d
      /\ \A i \in 1..L - d : base[i] = feeHistoryData[i + d]
  <2>1. CASE L = FeeHistorySize
    <3>1. feeHistoryData # <<>>
      BY <1>4, <2>1, SizeAssumption, EmptySeq
    <3>2. /\ Tail(feeHistoryData) \in Seq(Int) /\ Len(Tail(feeHistoryData)) = L - 1
          /\ \A i \in 1..Len(Tail(feeHistoryData)) : Tail(feeHistoryData)[i] = feeHistoryData[i + 1]
      BY <1>4, <3>1, Dropped, Zenon
    <3>3. base = Tail(feeHistoryData) /\ d = 1
      BY <2>1
    <3> HIDE DEF base, d, L
    <3>. QED
      BY <3>2, <3>3, Zenon
  <2>2. CASE L # FeeHistorySize
    <3>1. base = feeHistoryData /\ d = 0 /\ L = Len(feeHistoryData)
      BY <2>2
    <3> HIDE DEF base, d, L
    <3>2. L - d = L /\ \A i \in 1..L : i + d = i
      BY <1>4, <3>1
    <3>. QED
      BY <1>4, <3>1, <3>2, Zenon
  <2>. QED
    BY <2>1, <2>2
<1>6. d \in {0, 1} /\ (d = 1 <=> L = FeeHistorySize)
  OBVIOUS
<1>7. r \in Int
  BY <1>2, BlockType
<1> HIDE DEF base, d, r
<1>8. /\ feeHistoryData' \in Seq(Int) /\ Len(base) \in Nat
      /\ Len(feeHistoryData') = Len(base) + 1
      /\ \A i \in 1..Len(base) : feeHistoryData'[i] = base[i]
      /\ feeHistoryData'[Len(base) + 1] = r
  BY <1>1, <1>5, <1>7, Appended
<1> DEFINE M == Len(feeHistoryData')
<1>9. M = L - d + 1 /\ Len(handled') - M = H - L + d /\ L <= H /\ L - d \in Nat
  BY <1>3, <1>4, <1>5, <1>6, <1>8, SizeAssumption, SMTT(30)
<1>10. M = IF Len(handled') < FeeHistorySize THEN Len(handled') ELSE FeeHistorySize
  BY <1>3, <1>4, <1>6, <1>9, SizeAssumption
<1>11. ASSUME NEW i \in 1..M
       PROVE  feeHistoryData'[i] = handled'[Len(handled') - M + i].round
  <2>1. CASE i = L - d + 1
    <3>1. feeHistoryData'[i] = r
      BY <1>5, <1>8, <2>1
    <3>2. Len(handled') - M + i = H + 1
      BY <1>3, <1>4, <1>6, <1>9, <2>1
    <3>. QED
      BY <1>3, <3>1, <3>2, Zenon DEF r
  <2>2. CASE i # L - d + 1
    <3>0. /\ H \in Nat /\ L \in Nat /\ d \in {0, 1} /\ L <= H /\ L - d \in Nat
          /\ M = L - d + 1 /\ Len(handled') = H + 1 /\ i \in 1..M
      BY <1>3, <1>4, <1>6, <1>9, Zenon
    <3>1. i \in 1..L - d /\ i + d \in 1..L
      <4> HIDE DEF H, L, M
      <4>. QED
        BY <2>2, <3>0
    <3>2. feeHistoryData'[i] = feeHistoryData[i + d]
      BY <1>5, <1>8, <3>1, Zenon
    <3>3. feeHistoryData[i + d] = handled[H - L + (i + d)].round
      BY <1>4, <3>1, Zenon
    <3>4. H - L + (i + d) \in 1..H /\ Len(handled') - M + i = H - L + (i + d)
      <4> HIDE DEF H, L, M
      <4>. QED
        BY <3>0, <3>1
    <3>. QED
      BY <1>3, <3>2, <3>3, <3>4, Zenon
  <2>. QED
    BY <2>1, <2>2
<1>. QED
  BY <1>8, <1>10, <1>11, Zenon DEF HistoryInv

-----------------------------------------------------------------------------
(* The ages of the blocks, and their slots.                                *)

LEMMA AgeType ==
    ASSUME NEW h \in Seq(Blocks), NEW i \in Nat
    PROVE  /\ IsFiniteSet({j \in i + 1 .. Len(h) : Tracked(h[j])}) /\ Age(h, i) \in Nat
<1>1. i + 1 \in Int /\ Len(h) \in Int
  BY LenProperties
<1>2. IsFiniteSet(i + 1 .. Len(h))
  BY <1>1, FS_Interval, Zenon
<1>3. {j \in i + 1 .. Len(h) : Tracked(h[j])} \in SUBSET (i + 1 .. Len(h))
  OBVIOUS
<1>4. IsFiniteSet({j \in i + 1 .. Len(h) : Tracked(h[j])})
  BY <1>2, <1>3, FS_Subset, Zenon
<1>. QED
  BY <1>4, FS_CardinalityType, Zenon DEF Age

(* A tracked block makes every earlier block one older, another does not. *)
LEMMA AgeOfAppend ==
    ASSUME NEW h \in Seq(Blocks), NEW b \in Blocks, NEW w, w = Append(h, b),
           NEW i \in 1..Len(h)
    PROVE  Age(w, i) = IF Tracked(b) THEN Age(h, i) + 1 ELSE Age(h, i)
<1> DEFINE n == Len(h)
           A == {j \in i + 1 .. Len(h) : Tracked(h[j])}
           B == {j \in i + 1 .. Len(w) : Tracked(w[j])}
<1>1. /\ n \in Nat /\ Len(w) = n + 1 /\ w[n + 1] = b
      /\ \A j \in 1..n : w[j] = h[j]
  BY Appended
<1>2. i \in Nat /\ i \in 1..n
  BY <1>1
<1>3. /\ \A j \in i + 1 .. n : j \in 1..n
      /\ n + 1 \notin i + 1 .. n
      /\ i + 1 .. n + 1 = (i + 1 .. n) \cup {n + 1}
  BY <1>1, <1>2
<1>4. B = IF Tracked(b) THEN A \cup {n + 1} ELSE A
  <2>1. \A j \in i + 1 .. n : w[j] = h[j]
    BY <1>1, <1>3, Zenon
  <2>2. ASSUME NEW x PROVE x \in B <=> x \in IF Tracked(b) THEN A \cup {n + 1} ELSE A
    BY <1>1, <1>3, <2>1, Zenon
  <2>. QED
    BY <2>2, Zenon
<1>5. IsFiniteSet(A) /\ n + 1 \notin A
  BY <1>2, <1>3, AgeType, Zenon
<1>6. Age(h, i) = Cardinality(A) /\ Age(w, i) = Cardinality(B)
  BY Zenon DEF Age
<1> HIDE DEF A, B
<1>7. Cardinality(A \cup {n + 1}) = Cardinality(A) + 1
  BY <1>5, FS_AddElement, Zenon
<1>. QED
  BY <1>4, <1>6, <1>7, Zenon

LEMMA AgeOfLast ==
    ASSUME NEW w, NEW n \in Nat, Len(w) = n PROVE Age(w, n) = 0
<1>1. {j \in n + 1 .. Len(w) : Tracked(w[j])} = {}
  OBVIOUS
<1>. QED
  BY <1>1, FS_EmptySet, Zenon DEF Age

(* Advancing the index puts the tracked block where the index was, which   *)
(* only a block that leaves the window had.                                *)
LEMMA Slots ==
    ASSUME NEW idx \in 0..WindowSize - 1, NEW next, next = (idx + 1) % WindowSize
    PROVE  /\ next \in 0..WindowSize - 1 /\ Slot(0, next) = idx
           /\ \A k \in Nat : k < WindowSize => Slot(k, idx) \in 0..WindowSize - 1
           /\ \A k \in Nat : k < WindowSize /\ Slot(k, idx) # idx => k + 1 < WindowSize
           /\ \A k \in Nat : k + 1 < WindowSize =>
                  Slot(k + 1, next) = Slot(k, idx) /\ Slot(k, idx) # idx
<1>1. next = IF idx + 1 = WindowSize THEN 0 ELSE idx + 1
  BY NextIndex, SizeAssumption
<1>2. WindowSize \in Nat \ {0}
  BY SizeAssumption
<1>3. next \in 0..WindowSize - 1 /\ Slot(0, next) = idx
  BY <1>1, <1>2 DEF Slot
<1>4. ASSUME NEW k \in Nat, k < WindowSize
      PROVE  Slot(k, idx) \in 0..WindowSize - 1 /\ (Slot(k, idx) # idx => k + 1 < WindowSize)
  BY <1>2, <1>4 DEF Slot
<1>5. ASSUME NEW k \in Nat, k + 1 < WindowSize
      PROVE  Slot(k + 1, next) = Slot(k, idx) /\ Slot(k, idx) # idx
  BY <1>1, <1>2, <1>5 DEF Slot
<1>. QED
  BY <1>3, <1>4, <1>5, Zenon

(* A tracked block enters the array; the one that leaves its window is     *)
(* overwritten.                                                            *)
LEMMA RingTracks ==
    ASSUME Types, RingInv, NEW b \in Blocks, Tracked(b), handled' = Append(handled, b),
           blockPrices' = [blockPrices EXCEPT ![blockPricesCurrentIdx] = PriceOf(b)],
           blockPricesCurrentIdx' = (blockPricesCurrentIdx + 1) % WindowSize
    PROVE  RingInv'
<1> DEFINE n == Len(handled)
           idx == blockPricesCurrentIdx
<1>1. /\ handled \in Seq(Blocks) /\ n \in Nat /\ Len(handled') = n + 1 /\ handled'[n + 1] = b
      /\ \A j \in 1..n : handled'[j] = handled[j]
  BY Appended DEF Types
<1>2. /\ blockPrices \in [0..WindowSize - 1 -> Nat] /\ idx \in 0..WindowSize - 1
  BY Zenon DEF RingInv
<1>3. /\ idx' \in 0..WindowSize - 1 /\ Slot(0, idx') = idx
      /\ \A k \in Nat : k < WindowSize => Slot(k, idx) \in 0..WindowSize - 1
      /\ \A k \in Nat : k < WindowSize /\ Slot(k, idx) # idx => k + 1 < WindowSize
      /\ \A k \in Nat : k + 1 < WindowSize =>
             Slot(k + 1, idx') = Slot(k, idx) /\ Slot(k, idx) # idx
  BY <1>2, Slots, ZenonT(40)
<1>4. PriceOf(b) \in Nat
  BY BlockType DEF PriceOf, Tracked
<1>5. /\ blockPrices' \in [0..WindowSize - 1 -> Nat] /\ blockPrices'[idx] = PriceOf(b)
      /\ \A k \in 0..WindowSize - 1 : k # idx => blockPrices'[k] = blockPrices[k]
  BY <1>2, <1>4
<1>6. \A i \in 1..n : Age(handled, i) \in Nat /\ Age(handled', i) = Age(handled, i) + 1
  <2>1. \A i \in 1..n : i \in Nat
    BY <1>1
  <2>2. \A i \in 1..n : Age(handled, i) \in Nat
    BY <1>1, <2>1, AgeType, Zenon
  <2>3. ASSUME NEW i \in 1..n PROVE Age(handled', i) = Age(handled, i) + 1
    BY <1>1, AgeOfAppend, Zenon
  <2>. QED
    BY <2>2, <2>3, Zenon
<1>7. Age(handled', n + 1) = 0
  <2>1. n + 1 \in Nat
    BY <1>1
  <2>. QED
    BY <1>1, <2>1, AgeOfLast, Zenon
<1>8. \A i \in 1..n + 1 : i \in 1..n \/ i = n + 1
  BY <1>1
<1>9. 1..n \subseteq 1..n + 1 /\ n + 1 \in 1..n + 1 /\ 0 < WindowSize
  BY <1>1, SizeAssumption
<1>10. \A i \in 1..n : Age(handled, i) + 1 < WindowSize => Age(handled, i) < WindowSize
  BY <1>6, SizeAssumption
<1> HIDE DEF n
<1>11. ASSUME NEW i \in 1..n + 1, InWindow(handled', i)
       PROVE  blockPrices'[Slot(Age(handled', i), idx')] = PriceOf(handled'[i])
  <2>1. CASE i = n + 1
    BY <1>1, <1>3, <1>5, <1>7, <2>1, Zenon
  <2>2. CASE i \in 1..n
    <3>1. Tracked(handled[i]) /\ Age(handled, i) + 1 < WindowSize
      BY <1>1, <1>6, <1>11, <2>2, Zenon DEF InWindow
    <3>2. InWindow(handled, i)
      BY <1>10, <2>2, <3>1, Zenon DEF InWindow, n
    <3>3. blockPrices[Slot(Age(handled, i), idx)] = PriceOf(handled[i])
      BY <2>2, <3>2, Zenon DEF RingInv, n
    <3>4. /\ Slot(Age(handled', i), idx') = Slot(Age(handled, i), idx)
          /\ Slot(Age(handled, i), idx) # idx
          /\ Slot(Age(handled, i), idx) \in 0..WindowSize - 1
      BY <1>3, <1>6, <1>10, <2>2, <3>1, Zenon
    <3>. QED
      BY <1>1, <1>5, <2>2, <3>3, <3>4, Zenon
  <2>. QED
    BY <1>8, <2>1, <2>2, Zenon
<1>12. ASSUME NEW k \in 0..WindowSize - 1, blockPrices'[k] # 0
       PROVE  \E i \in 1..n + 1 : InWindow(handled', i) /\ Slot(Age(handled', i), idx') = k
  <2>1. CASE k = idx
    BY <1>1, <1>3, <1>7, <1>9, <2>1, Zenon DEF InWindow
  <2>2. CASE k # idx
    <3>1. PICK i \in 1..n : InWindow(handled, i) /\ Slot(Age(handled, i), idx) = k
      BY <1>5, <1>12, <2>2, Zenon DEF RingInv, n
    <3>2. Age(handled, i) + 1 < WindowSize
      BY <1>3, <1>6, <2>2, <3>1, Zenon DEF InWindow
    <3>3. InWindow(handled', i)
      BY <1>1, <1>6, <1>9, <3>1, <3>2, Zenon DEF InWindow
    <3>4. Slot(Age(handled', i), idx') = k
      BY <1>3, <1>6, <3>1, <3>2, Zenon
    <3>. QED
      BY <1>9, <3>3, <3>4, Zenon
  <2>. QED
    BY <2>1, <2>2
<1>. QED
  BY <1>1, <1>3, <1>5, <1>11, <1>12, Zenon DEF RingInv, n

(* A block that is not tracked leaves the array and the window alone. *)
LEMMA RingSkips ==
    ASSUME Types, RingInv, NEW b \in Blocks, ~Tracked(b), handled' = Append(handled, b),
           UNCHANGED <<blockPrices, blockPricesCurrentIdx>>
    PROVE  RingInv'
<1> DEFINE n == Len(handled)
<1>1. /\ handled \in Seq(Blocks) /\ n \in Nat /\ Len(handled') = n + 1 /\ handled'[n + 1] = b
      /\ \A j \in 1..n : handled'[j] = handled[j]
  BY Appended DEF Types
<1>2. ASSUME NEW i \in 1..n PROVE Age(handled', i) = Age(handled, i)
  BY <1>1, AgeOfAppend, Zenon
<1>3. (\A i \in 1..n + 1 : i \in 1..n \/ i = n + 1) /\ 1..n \subseteq 1..n + 1
  BY <1>1
<1>4. \A i \in 1..n + 1 : InWindow(handled', i) => i \in 1..n
  BY <1>1, <1>3, Zenon DEF InWindow
<1>5. \A i \in 1..n : InWindow(handled', i) <=> InWindow(handled, i)
  BY <1>1, <1>2, <1>3, Zenon DEF InWindow
<1>. QED
  BY <1>1, <1>2, <1>3, <1>4, <1>5, ZenonT(40) DEF RingInv

(* The price computed is the highest in the array. *)
LEMMA MaxIsHighest ==
    ASSUME NEW f \in [0..WindowSize - 1 -> Nat], NEW max, max = Max({f[i] : i \in DOMAIN f})
    PROVE  HighestOf(f, IF max = 0 THEN NoPrice ELSE max)
<1>1. WindowSize - 1 \in Nat
  BY SizeAssumption
<1>2. PICK k \in 0..WindowSize - 1 : \A j \in 0..WindowSize - 1 : f[j] <= f[k]
  BY <1>1, HighestExists, Zenon
<1>3. /\ DOMAIN f = 0..WindowSize - 1 /\ \A j \in 0..WindowSize - 1 : f[j] \in Nat
  OBVIOUS
<1> DEFINE S == {f[i] : i \in DOMAIN f}
<1>4. f[k] \in S /\ \A y \in S : y \in Nat /\ f[k] >= y
  BY <1>2, <1>3
<1>5. ASSUME NEW x \in S, \A y \in S : x >= y PROVE x = f[k]
  <2>1. x \in Nat /\ f[k] \in Nat /\ f[k] >= x /\ x >= f[k]
    BY <1>4, <1>5, Zenon
  <2>. QED
    BY <2>1
<1>6. max = f[k]
  <2>1. max = CHOOSE x \in S : \A y \in S : x >= y
    BY Zenon DEF Max
  <2> HIDE DEF S
  <2>. QED
    BY <1>4, <1>5, <2>1, Zenon
<1>7. CASE f[k] = 0
  <2>1. ASSUME NEW j \in 0..WindowSize - 1 PROVE f[j] = 0
    <3>1. f[j] \in Nat /\ f[j] <= 0
      BY <1>2, <1>3, <1>7, Zenon
    <3>. QED
      BY <3>1
  <2>. QED
    BY <1>6, <1>7, <2>1, Zenon DEF HighestOf
<1>8. CASE f[k] # 0
  <2>1. f[k] > 0
    BY <1>3, <1>8
  <2>. QED
    BY <1>2, <1>6, <1>8, <2>1, Zenon DEF HighestOf
<1>. QED
  BY <1>7, <1>8

-----------------------------------------------------------------------------
LEMMA InitInv == ASSUME Init PROVE OracleInv
<1>1. /\ indexed = 0 /\ ch = <<>> /\ handled = <<>> /\ feeHistoryData = <<>>
      /\ queries = {} /\ nodeMinGasPrice = -1 /\ computedGasPrice = NoPrice
      /\ blockPrices = [i \in 0..WindowSize - 1 |-> 0] /\ blockPricesCurrentIdx = 0
  BY Zenon DEF Init, NoRound
<1>2. /\ Len(ch) = 0 /\ Len(handled) = 0 /\ Len(feeHistoryData) = 0 /\ 1..0 = {}
      /\ feeHistoryData \in Seq(Int)
  BY <1>1
<1>3. Types
  BY <1>1 DEF Types
<1>4. OrderInv
  BY <1>2, Zenon DEF OrderInv
<1>5. QueryInv
  BY <1>1, <1>2 DEF QueryInv
<1>6. \A k \in 0..WindowSize - 1 : blockPrices[k] = 0
  BY <1>1
<1>7. RingInv
  <2>1. blockPrices \in [0..WindowSize - 1 -> Nat] /\ blockPricesCurrentIdx \in 0..WindowSize - 1
    BY <1>1, SizeAssumption
  <2>. QED
    BY <1>2, <1>6, <2>1, Zenon DEF RingInv
<1>8. PriceInv
  BY <1>1, <1>6, Zenon DEF PriceInv, HighestOf
<1>9. HistoryInv
  BY <1>2, SizeAssumption DEF HistoryInv
<1>. QED
  BY <1>3, <1>4, <1>5, <1>7, <1>8, <1>9, Zenon DEF OracleInv

LEMMA HandleStep == ASSUME OracleInv, HandleBlock PROVE OracleInv'
<1> DEFINE b == Head(ch)
<1>1. Types /\ OrderInv /\ QueryInv /\ RingInv /\ PriceInv /\ HistoryInv
  BY Zenon DEF OracleInv
<1>2. Types' /\ OrderInv' /\ QueryInv' /\ HistoryInv'
  BY <1>1, QueueOfHandle, HistoryStep, Zenon
<1>3. ch # <<>> /\ OnBlock(b) /\ handled' = Append(handled, b)
  BY Zenon DEF HandleBlock
<1>4. b \in Blocks
  BY <1>1, <1>3, Dropped, Zenon DEF Types
<1> HIDE DEF b
<1>5. ASSUME Tracked(b), TrackPrice(PriceOf(b)) PROVE RingInv' /\ PriceInv'
  <2>1. /\ blockPrices' = [blockPrices EXCEPT ![blockPricesCurrentIdx] = PriceOf(b)]
        /\ blockPricesCurrentIdx' = (blockPricesCurrentIdx + 1) % WindowSize
        /\ \E max : /\ max = Max({blockPrices'[i] : i \in DOMAIN blockPrices'})
                    /\ computedGasPrice' = IF max = 0 THEN NoPrice ELSE max
    BY <1>5, Zenon DEF TrackPrice
  <2>2. RingInv'
    BY <1>1, <1>3, <1>4, <1>5, <2>1, RingTracks, Zenon
  <2>3. blockPrices' \in [0..WindowSize - 1 -> Nat]
    BY <2>2, Zenon DEF RingInv
  <2>4. HighestOf(blockPrices', computedGasPrice')
    BY <2>1, <2>3, MaxIsHighest, Zenon
  <2>. QED
    BY <2>2, <2>4, Zenon DEF PriceInv, HighestOf
<1>6. CASE ~b.full /\ TrackPrice(0)
  <2>1. Tracked(b) /\ PriceOf(b) = 0
    BY <1>6, Zenon DEF Tracked, PriceOf
  <2>. QED
    BY <1>2, <1>5, <1>6, <2>1, Zenon DEF OracleInv
<1>7. CASE b.full /\ b.price # NoPrice /\ TrackPrice(b.price)
  <2>1. Tracked(b) /\ PriceOf(b) = b.price
    BY <1>7, Zenon DEF Tracked, PriceOf
  <2>. QED
    BY <1>2, <1>5, <1>7, <2>1, Zenon DEF OracleInv
<1>8. CASE b.full /\ b.price = NoPrice /\ UNCHANGED priceVars
  <2>1. ~Tracked(b) /\ UNCHANGED <<blockPrices, blockPricesCurrentIdx, computedGasPrice>>
    BY <1>8, Zenon DEF Tracked, priceVars
  <2>2. RingInv'
    BY <1>1, <1>3, <1>4, <2>1, RingSkips, Zenon
  <2>3. PriceInv'
    BY <1>1, <2>1, Zenon DEF PriceInv
  <2>. QED
    BY <1>2, <2>2, <2>3, Zenon DEF OracleInv
<1>. QED
  BY <1>3, <1>6, <1>7, <1>8, Zenon DEF OnBlock

LEMMA NextStep == ASSUME OracleInv, [Next]_vars PROVE OracleInv'
<1>1. CASE Next
  BY <1>1, BroadcastStep, HandleStep, DoneStep, FetchStep, Zenon DEF Next
<1>2. CASE UNCHANGED vars
  BY <1>2, Zenon DEF vars, OracleInv, Types, OrderInv, QueryInv, RingInv, PriceInv, HistoryInv
<1>. QED
  BY <1>1, <1>2

(* The inductive invariant holds in every state. *)
LEMMA Invariant == Spec => []OracleInv
<1>1. Init => OracleInv
  BY InitInv
<1>2. OracleInv /\ [Next]_vars => OracleInv'
  BY NextStep
<1>. QED
  BY <1>1, <1>2, PTL DEF Spec

(* The price of the node is never replaced by an older one: one query at a *)
(* time is in flight, and the blocks are handled in the order of the chain *)
(* (fetchMinGasPrice, and the loop of Start in gas/backend.go).            *)
THEOREM NeverOlder == Spec => NodePriceNeverOlder
<1>1. OracleInv /\ [Next]_vars => [nodeMinGasPrice' >= nodeMinGasPrice]_vars
  <2> SUFFICES ASSUME OracleInv, Next PROVE nodeMinGasPrice' >= nodeMinGasPrice
    OBVIOUS
  <2>1. nodeMinGasPrice \in Int
    BY Zenon DEF OracleInv, Types
  <2>2. CASE nodeMinGasPrice' = nodeMinGasPrice
    BY <2>1, <2>2
  <2>3. CASE \E r \in Rounds : FetchMinGasPrice(r)
    BY <2>3, FetchStep, Zenon
  <2>. QED
    BY <2>2, <2>3, Zenon DEF Next, Broadcast, HandleBlock, QueryDone
<1>. QED
  BY <1>1, Invariant, PTL DEF Spec, NodePriceNeverOlder

(* What the rolling array tells of the blocks: the price computed is the   *)
(* highest of the full blocks in the window.                               *)
LEMMA WindowOfRing == ASSUME OracleInv PROVE ComputedIsWindowMax
<1> DEFINE n == Len(handled)
           idx == blockPricesCurrentIdx
           window == {i \in DOMAIN handled : Tracked(handled[i]) /\ TrackedSince(i) < WindowSize}
           full == {handled[i].price : i \in {j \in window : handled[j].full}}
<1>1. Types /\ RingInv /\ HighestOf(blockPrices, computedGasPrice)
  BY Zenon DEF OracleInv, PriceInv
<1>2. /\ handled \in Seq(Blocks) /\ DOMAIN handled = 1..n /\ \A i \in 1..n : i \in Nat
      /\ \A i \in 1..n : handled[i] \in Blocks
  <2>1. handled \in Seq(Blocks)
    BY <1>1 DEF Types
  <2>2. DOMAIN handled = 1..n /\ n \in Nat
    BY <2>1, LenProperties
  <2>3. \A i \in 1..n : handled[i] \in Blocks
    BY <2>1, ElementOfSeq
  <2>. QED
    BY <2>1, <2>2, <2>3
<1>3. \A i : i \in window <=> InWindow(handled, i)
  BY <1>2, Zenon DEF InWindow, Age, TrackedSince
<1>4. \A i \in 1..n : InWindow(handled, i) =>
          /\ Slot(Age(handled, i), idx) \in 0..WindowSize - 1
          /\ blockPrices[Slot(Age(handled, i), idx)] = PriceOf(handled[i])
  <2>1. \A k \in Nat : k < WindowSize => Slot(k, idx) \in 0..WindowSize - 1
    BY <1>1, Slots, Zenon DEF RingInv
  <2>2. \A i \in 1..n : Age(handled, i) \in Nat
    BY <1>2, AgeType, Zenon
  <2>. QED
    BY <1>1, <2>1, <2>2, Zenon DEF RingInv, InWindow
<1>5. ASSUME NEW x \in full
      PROVE  x \in Nat \ {0} /\ \E k \in 0..WindowSize - 1 : blockPrices[k] = x
  <2>1. PICK i \in 1..n : InWindow(handled, i) /\ handled[i].full /\ x = handled[i].price
    BY <1>2, <1>3, <1>5, Zenon
  <2>2. x # NoPrice /\ PriceOf(handled[i]) = x /\ handled[i] \in Blocks
    BY <1>2, <2>1, Zenon DEF InWindow, Tracked, PriceOf
  <2>. QED
    BY <1>4, <2>1, <2>2, BlockType, Zenon
<1>6. CASE computedGasPrice = NoPrice /\ \A k \in 0..WindowSize - 1 : blockPrices[k] = 0
  <2>1. full = {}
    BY <1>5, <1>6
  <2>. QED
    BY <1>6, <2>1, Zenon DEF ComputedIsWindowMax
<1>7. ASSUME computedGasPrice > 0,
             NEW k \in 0..WindowSize - 1, blockPrices[k] = computedGasPrice,
             \A j \in 0..WindowSize - 1 : blockPrices[j] <= computedGasPrice
      PROVE  ComputedIsWindowMax
  <2>1. computedGasPrice \in Nat \ {0}
    BY <1>1, <1>7 DEF RingInv
  <2>2. PICK i \in 1..n : InWindow(handled, i) /\ Slot(Age(handled, i), idx) = k
    BY <1>1, <1>7, <2>1 DEF RingInv
  <2>3. PriceOf(handled[i]) = computedGasPrice
    BY <1>4, <1>7, <2>2, Zenon
  <2>4. handled[i].full /\ handled[i].price = computedGasPrice
    BY <2>1, <2>3 DEF PriceOf
  <2>5. computedGasPrice \in full
    BY <1>3, <2>2, <2>4, Zenon
  <2>6. \A y \in full : y \in Nat /\ computedGasPrice >= y
    <3>1. \A y \in full : y \in Nat /\ y <= computedGasPrice
      BY <1>5, <1>7, Zenon
    <3> HIDE DEF full
    <3>. QED
      BY <2>1, <3>1
  <2> HIDE DEF full
  <2>7. ASSUME NEW x \in full, \A y \in full : x >= y PROVE x = computedGasPrice
    BY <2>1, <2>5, <2>6, <2>7
  <2>8. Max(full) = computedGasPrice
    BY <2>5, <2>6, <2>7, Zenon DEF Max
  <2>9. full # {}
    BY <2>5, Zenon
  <2>. QED
    BY <2>8, <2>9, Zenon DEF ComputedIsWindowMax, full
<1>. QED
  BY <1>1, <1>6, <1>7, Zenon DEF HighestOf

(* The gas price computed is the highest price of the full blocks among    *)
(* the last WindowSize blocks tracked, for every size of the window: the   *)
(* index of trackPrice wraps so that each price stays in the rolling array *)
(* for exactly WindowSize blocks (onBlock and trackPrice, gas/backend.go). *)
THEOREM WindowMax == Spec => []ComputedIsWindowMax
<1>1. OracleInv => ComputedIsWindowMax
  BY WindowOfRing
<1>. QED
  BY <1>1, Invariant, PTL

-----------------------------------------------------------------------------
(* The answers of the fee history.                                         *)

Fewer(m, n) == IF m < n THEN m ELSE n

LEMMA NewestElements ==
    ASSUME NEW s \in Seq(Int), NEW m \in Nat
    PROVE  /\ Newest(s, m) \in Seq(Int) /\ Len(Newest(s, m)) = Fewer(m, Len(s))
           /\ \A i \in 1..Fewer(m, Len(s)) :
                  Newest(s, m)[i] = s[Len(s) - Fewer(m, Len(s)) + i]
<1> DEFINE n == Len(s)
           c == Fewer(m, n)
<1>1. n \in Nat /\ \A i \in 1..n : s[i] \in Int
  BY LenProperties, ElementOfSeq
<1>2. c \in Nat /\ c <= n /\ c \in {m, n} /\ \A y \in {m, n} : c <= y
  BY <1>1 DEF Fewer
<1>3. ASSUME NEW x \in {m, n}, \A y \in {m, n} : x <= y PROVE x = c
  BY <1>1, <1>3 DEF Fewer
<1>4. Min({m, n}) = c
  BY <1>2, <1>3, Zenon DEF Min
<1>5. Newest(s, m) = SubSeq(s, n - c + 1, n)
  BY <1>4, Zenon DEF Newest
<1> DEFINE lo == n - c + 1
<1> HIDE DEF n, c
<1>6. lo \in Int /\ n \in Int /\ \A i \in lo..n : s[i] \in Int
  BY <1>1, <1>2
<1>7. /\ (IF lo <= n THEN n - lo + 1 ELSE 0) = c /\ n - lo + 1 = c
      /\ \A i \in 1..c : lo + i - 1 = n - c + i
  BY <1>1, <1>2
<1>8. Newest(s, m) = SubSeq(s, lo, n)
  BY <1>5
<1> HIDE DEF lo
<1>9. /\ SubSeq(s, lo, n) \in Seq(Int)
      /\ Len(SubSeq(s, lo, n)) = IF lo <= n THEN n - lo + 1 ELSE 0
      /\ \A i \in 1 .. n - lo + 1 : SubSeq(s, lo, n)[i] = s[lo + i - 1]
  BY <1>6, SubSeqProperties
<1>. QED
  BY <1>2, <1>7, <1>8, <1>9, Zenon DEF n, c

(* Up to its e-th block, FeeHistory answers with the newest blocks. *)
LEMMA AnswerIsNewest ==
    ASSUME NEW q \in Seq(Int), NEW e \in 1..Len(q), NEW n \in Nat \ {0}
    PROVE  [i \in 1..(e - 1) - OldestBlockIdx(n, e - 1) + 1 |-> q[OldestBlockIdx(n, e - 1) + i]] =
               Newest(SubSeq(q, 1, e), n)
<1> DEFINE oldest == OldestBlockIdx(n, e - 1)
           s == SubSeq(q, 1, e)
           c == Fewer(n, e)
           a == [i \in 1..(e - 1) - oldest + 1 |-> q[oldest + i]]
<1>1. Len(q) \in Nat /\ (\A i \in 1..Len(q) : q[i] \in Int) /\ e \in Nat \ {0}
  BY LenProperties, ElementOfSeq
<1>2. s \in Seq(Int) /\ Len(s) = e /\ \A i \in 1..e : s[i] = q[i]
  <2>1. 1 \in Int /\ e \in Int /\ \A i \in 1..e : q[i] \in Int
    BY <1>1
  <2>2. /\ s \in Seq(Int) /\ Len(s) = IF 1 <= e THEN e - 1 + 1 ELSE 0
        /\ \A i \in 1 .. e - 1 + 1 : s[i] = q[1 + i - 1]
    BY <2>1, SubSeqProperties
  <2>3. /\ e - 1 + 1 = e /\ (IF 1 <= e THEN e - 1 + 1 ELSE 0) = e
        /\ \A i \in 1..e : 1 + i - 1 = i
    BY <1>1
  <2>. QED
    BY <2>2, <2>3, Zenon
<1> HIDE DEF s
<1>3. /\ Newest(s, n) \in Seq(Int) /\ Len(Newest(s, n)) = c
      /\ \A i \in 1..c : Newest(s, n)[i] = s[e - c + i]
  <2>1. n \in Nat
    OBVIOUS
  <2>. QED
    BY <1>2, <2>1, NewestElements, Zenon
<1>4. /\ oldest = e - c /\ (e - 1) - oldest + 1 = c /\ c \in Nat /\ c <= e
      /\ \A i \in 1..c : e - c + i \in 1..e /\ e - c + i \in 1..Len(q)
  <2>1. oldest = e - c /\ (e - 1) - oldest + 1 = c /\ c \in Nat /\ c <= e
    BY <1>1 DEF OldestBlockIdx, Fewer
  <2> HIDE DEF c
  <2>2. \A i \in 1..c : e - c + i \in 1..e
    BY <1>1, <2>1
  <2>3. 1..e \subseteq 1..Len(q)
    BY <1>1
  <2>. QED
    BY <2>1, <2>2, <2>3, Zenon
<1> HIDE DEF c
<1>5. a = [i \in 1..c |-> q[e - c + i]]
  BY <1>4, Zenon
<1>6. \A i \in 1..c : a[i] = q[e - c + i] /\ a[i] \in Int
  BY <1>1, <1>4, <1>5, Zenon
<1>7. a \in Seq(Int) /\ Len(a) = c
  <2>1. a \in [1..c -> Int]
    BY <1>5, <1>6, Zenon
  <2> HIDE DEF a
  <2>. QED
    BY <1>4, <2>1
<1>8. \A i \in 1..c : a[i] = Newest(s, n)[i]
  BY <1>2, <1>3, <1>4, <1>6, ZenonT(40)
<1> HIDE DEF a
<1>9. a = Newest(s, n)
  BY <1>3, <1>7, <1>8, SeqEqual
<1>. QED
  BY <1>9 DEF a, s

(* A round the history has is found where it is. *)
LEMMA FoundWhereItIs ==
    ASSUME NEW q \in Seq(Int), NEW e \in 1..Len(q),
           \A i, j \in 1..Len(q) : i < j => q[i] < q[j], q[e] # Latest
    PROVE  LastBlockIdx(q, q[e]) = e - 1
<1> DEFINE T == {i \in 0..Len(q) - 1 : q[i + 1] = q[e]}
<1>1. Len(q) \in Nat /\ \A i \in 1..Len(q) : q[i] \in Int
  BY LenProperties, ElementOfSeq
<1>2. e - 1 \in T
  BY <1>1
<1>3. ASSUME NEW i \in T PROVE i = e - 1
  <2>1. i + 1 \in 1..Len(q) /\ q[i + 1] = q[e] /\ i \in Nat /\ e \in Nat
    BY <1>1
  <2>2. ~(i + 1 < e)
    BY <1>1, <2>1
  <2>3. ~(e < i + 1)
    BY <1>1, <2>1
  <2>. QED
    BY <2>1, <2>2, <2>3
<1>4. T = {e - 1} /\ e - 1 <= e - 1
  BY <1>1, <1>2, <1>3, SMTT(30)
<1>5. LastBlockIdx(q, q[e]) = Min(T)
  BY Zenon DEF LastBlockIdx
<1> HIDE DEF T
<1>. QED
  BY <1>4, <1>5, Zenon DEF Min

LEMMA AnswersOfHistory == ASSUME OracleInv PROVE FeeHistoryAnswers
<1> DEFINE data == feeHistoryData
           L == Len(feeHistoryData)
           H == Len(handled)
           rounds == [i \in DOMAIN handled |-> handled[i].round]
           kept == Newest(rounds, FeeHistorySize)
<1>1. Types /\ OrderInv /\ HistoryInv
  BY Zenon DEF OracleInv
<1>2. /\ H \in Nat /\ DOMAIN handled = 1..H
      /\ \A i \in 1..H : handled[i].round \in Nat
  <2>1. handled \in Seq(Blocks)
    BY <1>1 DEF Types
  <2>2. H \in Nat /\ DOMAIN handled = 1..H
    BY <2>1, LenProperties
  <2>3. \A i \in 1..H : handled[i] \in Blocks
    BY <2>1, ElementOfSeq
  <2>. QED
    BY <2>2, <2>3, BlockType, Zenon
<1>3. /\ data \in Seq(Int) /\ L \in Nat /\ L = Fewer(FeeHistorySize, H)
      /\ \A i \in 1..L : data[i] = handled[H - L + i].round
  <2>1. data \in Seq(Int) /\ \A i \in 1..L : data[i] = handled[H - L + i].round
    BY <1>1, Zenon DEF HistoryInv
  <2>2. L = Fewer(FeeHistorySize, H)
    BY <1>1, <1>2, SizeAssumption DEF HistoryInv, Fewer
  <2>3. L \in Nat
    BY <2>1, LenProperties
  <2>. QED
    BY <2>1, <2>2, <2>3, Zenon
<1>4. /\ L <= H /\ \A i \in 1..L : H - L + i \in 1..H
      /\ \A i, j \in 1..L : i < j => H - L + i < H - L + j
  <2>1. L <= H
    BY <1>2, <1>3, SizeAssumption DEF Fewer
  <2> HIDE DEF L, H
  <2>. QED
    BY <1>2, <1>3, <2>1
<1>5. (\A i, j \in 1..L : i < j => data[i] < data[j]) /\ \A i \in 1..L : data[i] \in Nat
  BY <1>1, <1>2, <1>3, <1>4, Zenon DEF OrderInv
<1>6. kept = data
  <2>1. /\ rounds \in [1..H -> Int] /\ \A i \in 1..H : rounds[i] = handled[i].round
    BY <1>2
  <2> HIDE DEF rounds
  <2>2. rounds \in Seq(Int) /\ Len(rounds) = H
    BY <1>2, <2>1
  <2>3. FeeHistorySize \in Nat
    BY SizeAssumption
  <2>4. /\ kept \in Seq(Int) /\ Len(kept) = L
        /\ \A i \in 1..L : kept[i] = rounds[H - L + i]
    <3>1. /\ kept \in Seq(Int) /\ Len(kept) = Fewer(FeeHistorySize, Len(rounds))
          /\ \A i \in 1..Fewer(FeeHistorySize, Len(rounds)) :
                 kept[i] = rounds[Len(rounds) - Fewer(FeeHistorySize, Len(rounds)) + i]
      BY <2>2, <2>3, NewestElements, Zenon
    <3>2. Fewer(FeeHistorySize, Len(rounds)) = L /\ Len(rounds) = H
      BY <1>3, <2>2, Zenon
    <3> HIDE DEF kept, L, H
    <3>. QED
      BY <3>1, <3>2, Zenon
  <2>5. \A i \in 1..L : kept[i] = data[i]
    BY <1>3, <1>4, <2>1, <2>4, Zenon
  <2> HIDE DEF kept
  <2>. QED
    BY <1>3, <2>4, <2>5, SeqEqual
<1>7. DOMAIN data = 1..L
  BY <1>3, LenProperties
<1> HIDE DEF kept, data
<1>8. ASSUME NEW n \in 1..MaxRound + 1, NEW e \in 1..L, NEW b,
             LastBlockIdx(data, b) = e - 1, b = Latest \/ b = data[e]
      PROVE  FeeHistory(data, n, b) = Newest(SubSeq(data, 1, e), n)
  <2>1. data # <<>>
    BY <1>3, EmptySeq DEF data
  <2>2. b = Latest \/ \E i \in DOMAIN data : data[i] = b
    BY <1>7, <1>8, Zenon
  <2>3. FeeHistory(data, n, b) =
            [i \in 1..(e - 1) - OldestBlockIdx(n, e - 1) + 1 |-> data[OldestBlockIdx(n, e - 1) + i]]
    <3>1. b # Earliest
      BY <1>5, <1>8 DEF Latest, Earliest
    <3>. QED
      BY <1>8, <2>1, <2>2, <3>1, Zenon DEF FeeHistory
  <2>4. n \in Nat \ {0}
    BY SizeAssumption
  <2>. QED
    BY <1>3, <2>3, <2>4, AnswerIsNewest, Zenon DEF data
<1>9. ASSUME NEW n \in 1..MaxRound + 1
      PROVE  FeeHistory(data, n, Latest) = Newest(data, n)
  <2>1. CASE L = 0
    <3>1. data = <<>> /\ n \in Nat
      BY <1>3, <2>1, EmptySeq, SizeAssumption DEF data
    <3>2. Newest(data, n) \in Seq(Int) /\ Len(Newest(data, n)) = Fewer(n, L)
      BY <1>3, <3>1, NewestElements, Zenon DEF data
    <3>3. Fewer(n, L) = 0
      BY <2>1, <3>1 DEF Fewer
    <3>4. Newest(data, n) = <<>>
      BY <3>2, <3>3, EmptySeq
    <3>. QED
      BY <3>1, <3>4, Zenon DEF FeeHistory
  <2>2. CASE L # 0
    <3>1. L \in 1..L
      BY <1>3, <2>2
    <3>2. SubSeq(data, 1, L) = data
      BY <1>3 DEF data
    <3>3. LastBlockIdx(data, Latest) = L - 1
      BY Zenon DEF LastBlockIdx, data
    <3>4. FeeHistory(data, n, Latest) = Newest(SubSeq(data, 1, L), n)
      BY <1>8, <3>1, <3>3, Zenon
    <3>. QED
      BY <3>2, <3>4, Zenon
  <2>. QED
    BY <2>1, <2>2
<1>10. ASSUME NEW n \in 1..MaxRound + 1, NEW e \in 1..L
       PROVE  FeeHistory(data, n, data[e]) = Newest(SubSeq(data, 1, e), n)
  <2>1. data[e] # Latest
    BY <1>5 DEF Latest
  <2>2. LastBlockIdx(data, data[e]) = e - 1
    BY <1>3, <1>5, <2>1, FoundWhereItIs, Zenon DEF data
  <2>. QED
    BY <1>8, <2>2, Zenon
<1>11. ASSUME NEW n, NEW r \in Rounds \cup {Earliest}, \A i \in 1..L : data[i] # r
       PROVE  FeeHistory(data, n, r) = <<>>
  <2>1. r # Latest
    BY SizeAssumption DEF Rounds, Latest, Earliest
  <2>. QED
    BY <1>7, <1>11, <2>1, Zenon DEF FeeHistory
<1>. QED
  BY <1>6, <1>7, <1>9, <1>10, <1>11, Zenon DEF FeeHistoryAnswers, kept, data

(* The fee history holds the newest blocks handled, and FeeHistory answers *)
(* every request with as many of them as it has, up to the one asked for   *)
(* (trackFeeHistory and FeeHistory in gas/fee_history.go), for every size  *)
(* of the history and whichever rounds the indexer skipped.                *)
THEOREM HistoryAnswers == Spec => []FeeHistoryAnswers
<1>1. OracleInv => FeeHistoryAnswers
  BY AnswersOfHistory
<1>. QED
  BY <1>1, Invariant, PTL
=============================================================================
