------------------------ MODULE HealthAndFeesProofs ------------------------
(***************************************************************************)
(* Proofs about HealthChecks, for every threshold and bound, and about     *)
(* FeeRewards, for every block and accepted request.                       *)
(*                                                                         *)
(* FeeRewards: a stable sort puts each transaction at its rank, so the     *)
(* running sum over the sorted list is the gas of the transactions up to a *)
(* rank, in whatever order they are added; those with at most some reward  *)
(* are such a set.                                                         *)
(***************************************************************************)
EXTENDS HealthChecks, FeeRewards, FiniteSetTheorems, WellFoundedInduction, TLAPS

(* The indexed round that healthWorker has read was not ahead of the node. *)
DriftInv ==
    /\ nodeLatest \in Nat /\ lastIndexed \in Nat
    /\ indexed \in NoRound..nodeLatest
    /\ IndexerNotInFront

LEMMA DriftInit == Init => DriftInv
  BY HealthAssumption DEF Init, DriftInv, NoRound, IndexerNotInFront

LEMMA DriftStep == DriftInv /\ [Next]_vars => DriftInv'
<1> SUFFICES ASSUME DriftInv, [Next]_vars PROVE DriftInv'
  OBVIOUS
<1> USE DEF DriftInv, NoRound, IndexerNotInFront
<1>1. CASE NodeProduces
  BY <1>1 DEF NodeProduces, worker
<1>2. CASE IndexRound
  BY <1>2 DEF IndexRound, worker
<1>3. CASE Outage \/ Stop \/ IndexingDone
  BY <1>3 DEF Outage, Stop, IndexingDone, rounds, worker
<1>4. CASE QueryIndexed
  BY <1>4 DEF QueryIndexed, rounds
<1>5. CASE QueryIndexedFails \/ Judge \/ JudgeFails \/ WorkerReturns
  BY <1>5 DEF QueryIndexedFails, Judge, JudgeFails, WorkerReturns, rounds
<1>6. CASE StartProbe \/ ProbeSucceeds \/ ProbeFails \/ CheckerReturns
  BY <1>6 DEF StartProbe, ProbeSucceeds, ProbeFails, CheckerReturns, rounds, worker
<1>7. CASE UNCHANGED vars
  BY <1>7 DEF vars, rounds, worker
<1> QED BY <1>1, <1>2, <1>3, <1>4, <1>5, <1>6, <1>7 DEF Next

(* The branch for an indexer ahead of the node is never taken, whatever    *)
(* either side does between the two reads of healthWorker.                 *)
THEOREM NotInFront == Spec => []IndexerNotInFront
<1>1. DriftInv => IndexerNotInFront
  BY DEF DriftInv
<1> QED BY <1>1, DriftInit, DriftStep, PTL DEF Spec

-----------------------------------------------------------------------------
(* The counter of failures counts the failures at the end of the results,  *)
(* and what comes before them, if anything does, is a success.             *)
CountInv ==
    /\ results \in Seq({0, 1})
    /\ failures \in 0..Len(results) /\ Len(results) <= UnhealthyThreshold
    /\ \A i \in 1..Len(results) : i > Len(results) - failures => results[i] = 0
    /\ failures < Len(results) => results[Len(results) - failures] = 1

RecentInv == CountInv /\ (checkerPc # "returned" => (oasisHealth <=> failures < Len(results)))

LEMMA RecentInit == Init => RecentInv
  BY HealthAssumption DEF Init, RecentInv, CountInv

(* What Remember does to the results. *)
LEMMA Remembered ==
    ASSUME CountInv, NEW ok \in {0, 1}, Remember(ok)
    PROVE  /\ results' \in Seq({0, 1}) /\ Len(results') \in Nat /\ Len(results') > 0
           /\ Len(results') <= UnhealthyThreshold
           /\ Len(results) = UnhealthyThreshold =>
                 /\ Len(results') = Len(results)
                 /\ \A i \in 1..(Len(results') - 1) : results'[i] = results[i + 1]
           /\ Len(results) # UnhealthyThreshold =>
                 /\ Len(results') = Len(results) + 1
                 /\ \A i \in 1..(Len(results') - 1) : results'[i] = results[i]
           /\ results'[Len(results')] = ok
<1> USE HealthAssumption DEF CountInv
<1>1. CASE Len(results) = UnhealthyThreshold
  <2> DEFINE t == Tail(results)
  <2>1. results # <<>> /\ t \in Seq({0, 1}) /\ Len(t) = Len(results) - 1
    BY <1>1
  <2>2. \A i \in 1..Len(t) : t[i] = results[i + 1]
    BY <2>1
  <2>3. results' = Append(t, ok)
    BY <1>1 DEF Remember
  <2> HIDE DEF t
  <2> QED BY <1>1, <2>1, <2>2, <2>3
<1>2. CASE Len(results) # UnhealthyThreshold
  BY <1>2 DEF Remember
<1> QED BY <1>1, <1>2

LEMMA FailureCounted ==
    ASSUME CountInv, ProbeFails
    PROVE  CountInv' /\ (failures' < Len(results') <=>
                            failures < Len(results) /\ failures' < UnhealthyThreshold)
<1>1. /\ Remember(0)
      /\ failures' = IF failures < UnhealthyThreshold THEN failures + 1 ELSE failures
  BY DEF ProbeFails
<1>2. /\ results' \in Seq({0, 1}) /\ Len(results') \in Nat /\ Len(results') > 0
      /\ Len(results') <= UnhealthyThreshold
      /\ Len(results) = UnhealthyThreshold =>
            /\ Len(results') = Len(results)
            /\ \A i \in 1..(Len(results') - 1) : results'[i] = results[i + 1]
      /\ Len(results) # UnhealthyThreshold =>
            /\ Len(results') = Len(results) + 1
            /\ \A i \in 1..(Len(results') - 1) : results'[i] = results[i]
      /\ results'[Len(results')] = 0
  BY <1>1, Remembered
<1> DEFINE n == Len(results)
           m == Len(results')
<1>3. /\ n \in Nat /\ m \in Nat /\ failures \in 0..n /\ n <= UnhealthyThreshold
      /\ UnhealthyThreshold \in Nat \ {0}
      /\ \A i \in 1..n : i > n - failures => results[i] = 0
      /\ failures < n => results[n - failures] = 1
  BY <1>2, HealthAssumption DEF CountInv
<1> HIDE DEF n, m
<1>4. /\ failures' \in 0..m
      /\ failures' < m <=> failures < n /\ failures' < UnhealthyThreshold
  BY <1>1, <1>2, <1>3 DEF n, m
<1>5. ASSUME NEW i \in 1..m, i > m - failures' PROVE results'[i] = 0
  <2>1. CASE i = m
    BY <2>1, <1>2 DEF m
  <2>2. CASE i # m /\ n = UnhealthyThreshold
    <3>1. i + 1 \in 1..n /\ i + 1 > n - failures /\ i \in 1..(m - 1)
      BY <2>2, <1>1, <1>2, <1>3, <1>5 DEF n, m
    <3> QED BY <3>1, <2>2, <1>2, <1>3 DEF n, m
  <2>3. CASE i # m /\ n # UnhealthyThreshold
    <3>1. i \in 1..n /\ i > n - failures /\ i \in 1..(m - 1)
      BY <2>3, <1>1, <1>2, <1>3, <1>5 DEF n, m
    <3> QED BY <3>1, <2>3, <1>2, <1>3 DEF n, m
  <2> QED BY <2>1, <2>2, <2>3
<1>6. ASSUME failures' < m PROVE results'[m - failures'] = 1
  <2>1. failures < n /\ failures' = failures + 1 /\ results[n - failures] = 1
    BY <1>1, <1>3, <1>4, <1>6
  <2>2. CASE n = UnhealthyThreshold
    <3>1. m - failures' \in 1..(m - 1) /\ (m - failures') + 1 = n - failures
      BY <2>1, <2>2, <1>2, <1>3, <1>6 DEF n, m
    <3> QED BY <3>1, <2>1, <2>2, <1>2 DEF n, m
  <2>3. CASE n # UnhealthyThreshold
    <3>1. m - failures' \in 1..(m - 1) /\ m - failures' = n - failures
      BY <2>1, <2>3, <1>2, <1>3, <1>6 DEF n, m
    <3> QED BY <3>1, <2>1, <2>3, <1>2 DEF n, m
  <2> QED BY <2>2, <2>3
<1> QED BY <1>2, <1>4, <1>5, <1>6 DEF n, m, CountInv

LEMMA SuccessCounted ==
    ASSUME CountInv, ProbeSucceeds PROVE CountInv' /\ failures' < Len(results')
<1>1. Remember(1) /\ failures' = 0
  BY DEF ProbeSucceeds
<1>2. /\ results' \in Seq({0, 1}) /\ Len(results') \in Nat /\ Len(results') > 0
      /\ Len(results') <= UnhealthyThreshold /\ results'[Len(results')] = 1
  BY <1>1, Remembered
<1> QED BY <1>1, <1>2 DEF CountInv

LEMMA RecentStep == RecentInv /\ [Next]_vars => RecentInv'
<1> SUFFICES ASSUME RecentInv, [Next]_vars PROVE RecentInv'
  OBVIOUS
<1>1. CASE UNCHANGED <<failures, oasisHealth, results>> /\ (checkerPc = "returned" <=> checkerPc' = "returned")
  BY <1>1 DEF RecentInv, CountInv
<1>2. CASE ProbeSucceeds
  <2>1. oasisHealth'
    BY <1>2 DEF ProbeSucceeds
  <2> QED BY <1>2, <2>1, SuccessCounted DEF RecentInv
<1>3. CASE ProbeFails
  <2>1. /\ checkerPc # "returned"
        /\ oasisHealth' <=> oasisHealth /\ failures' < UnhealthyThreshold
    BY <1>3, Zenon DEF ProbeFails
  <2> QED BY <1>3, <2>1, FailureCounted DEF RecentInv
<1>4. CASE CheckerReturns
  BY <1>4 DEF CheckerReturns, RecentInv, CountInv
<1>5. CASE StartProbe
  BY <1>5, <1>1 DEF StartProbe
<1>6. CASE NodeProduces \/ Outage \/ IndexRound \/ Stop \/ IndexingDone
  BY <1>6, <1>1 DEF NodeProduces, Outage, IndexRound, Stop, IndexingDone, checker
<1>7. CASE QueryIndexed \/ QueryIndexedFails \/ Judge \/ JudgeFails \/ WorkerReturns
  BY <1>7, <1>1 DEF QueryIndexed, QueryIndexedFails, Judge, JudgeFails, WorkerReturns, checker
<1>8. CASE UNCHANGED vars
  BY <1>8, <1>1 DEF vars, checker
<1> QED BY <1>2, <1>3, <1>4, <1>5, <1>6, <1>7, <1>8, Zenon DEF Next

(* For every threshold, a running check of the oasis_ API is healthy       *)
(* exactly if one of the last probes, as many as the threshold, succeeded: *)
(* the counter and the flag of healthChecker never drift apart.            *)
THEOREM OasisHealthExact == Spec => []OasisHealthIsRecent
<1>1. RecentInv => OasisHealthIsRecent
  <2> SUFFICES ASSUME RecentInv PROVE
               failures < Len(results) <=> \E i \in DOMAIN results : results[i] = 1
    BY DEF RecentInv, OasisHealthIsRecent
  <2>1. /\ Len(results) \in Nat /\ DOMAIN results = 1..Len(results)
        /\ failures \in 0..Len(results)
        /\ \A i \in 1..Len(results) : i > Len(results) - failures => results[i] = 0
        /\ failures < Len(results) => results[Len(results) - failures] = 1
    BY DEF RecentInv, CountInv
  <2> QED BY <2>1
<1> QED BY <1>1, RecentInit, RecentStep, PTL DEF Spec

-----------------------------------------------------------------------------
(* Induction up to a bound, and functions defined by recursion.            *)

LEMMA LeastNumber ==
    ASSUME NEW T, T \subseteq Nat, T # {}
    PROVE  \E x \in T : \A y \in T : x <= y
<1>1. PICK x \in T : \A y \in T : ~(<<y, x>> \in OpToRel(<, Nat))
  BY WFMin, NatLessThanWellFounded, Zenon
<1>2. ASSUME NEW y \in T PROVE x <= y
  <2>1. ~(<<y, x>> \in OpToRel(<, Nat)) /\ x \in Nat /\ y \in Nat
    BY <1>1, <1>2
  <2>. QED
    BY <2>1 DEF OpToRel
<1>. QED
  BY <1>2

LEMMA CountUp ==
    ASSUME NEW n \in Nat, NEW G, 0 \in G, \A m \in 0..n - 1 : m \in G => m + 1 \in G
    PROVE  \A m \in 0..n : m \in G
<1> DEFINE T == {m \in 0..n : m \notin G}
<1> SUFFICES ASSUME T # {} PROVE FALSE
  BY Zenon
<1>1. T \subseteq Nat
  OBVIOUS
<1>2. PICK m \in T : \A y \in T : m <= y
  <2> HIDE DEF T
  <2>. QED
    BY <1>1, LeastNumber, Zenon
<1>3. m \in 0..n /\ m \notin G /\ m # 0
  BY <1>2, Zenon
<1>4. m - 1 \in 0..n - 1 /\ m - 1 \in 0..n /\ ~(m <= m - 1) /\ (m - 1) + 1 = m
  BY <1>3
<1>5. m - 1 \in G
  BY <1>2, <1>4, Zenon
<1>. QED
  BY <1>3, <1>4, <1>5, Zenon

Follows(f, start, step, n) ==
    f[0] = start /\ \A i \in 1..n : f[i] = step[i][f[i - 1]]

LEMMA Recursion ==
    ASSUME NEW S, NEW start \in S, NEW n \in Nat, NEW step \in [1..n -> [S -> S]]
    PROVE  \E f \in [0..n -> S] : Follows(f, start, step, n)
<1> DEFINE G == {m \in 0..n : \E f \in [0..m -> S] : Follows(f, start, step, m)}
<1>1. 0 \in G
  <2> DEFINE f == [i \in 0..0 |-> start]
  <2>1. 0 \in 0..0 /\ 1..0 = {} /\ 0 \in 0..n
    OBVIOUS
  <2>2. f \in [0..0 -> S] /\ f[0] = start
    BY <2>1, Zenon
  <2>. QED
    BY <2>1, <2>2, Zenon DEF Follows
<1>2. ASSUME NEW m \in 0..n - 1, m \in G PROVE m + 1 \in G
  <2>1. PICK f \in [0..m -> S] : Follows(f, start, step, m)
    BY <1>2, Zenon
  <2> DEFINE g == [i \in 0..m + 1 |-> IF i = m + 1 THEN step[m + 1][f[m]] ELSE f[i]]
  <2>2. /\ m + 1 \in 0..n /\ m + 1 \in 1..n /\ m \in 0..m /\ m + 1 \in 0..m + 1
        /\ 0 \in 0..m /\ 0 # m + 1 /\ 0 \in 0..m + 1 /\ m # m + 1 /\ (m + 1) - 1 = m
        /\ \A i \in 0..m + 1 : i = m + 1 \/ i \in 0..m
        /\ \A i \in 1..m + 1 : i = m + 1 \/ i \in 1..m
        /\ \A i \in 1..m : i \in 0..m + 1 /\ i # m + 1 /\ i - 1 \in 0..m + 1 /\ i - 1 # m + 1
        /\ m \in 0..m + 1
    <3> HIDE DEF G
    <3>. QED
      BY <1>2
  <2>3. step[m + 1][f[m]] \in S
    BY <2>2, ZenonT(30)
  <2>4. \A i \in 0..m + 1 : g[i] \in S
    BY <2>2, <2>3, Zenon
  <2>5. g \in [0..m + 1 -> S]
    BY <2>4, Zenon
  <2>6. /\ g[0] = f[0] /\ g[m] = f[m] /\ g[m + 1] = step[m + 1][f[m]]
        /\ \A i \in 1..m : g[i] = f[i] /\ g[i - 1] = f[i - 1]
    BY <2>2, Zenon
  <2> HIDE DEF g
  <2>7. Follows(g, start, step, m + 1)
    <3>1. g[0] = start
      BY <2>1, <2>6, Zenon DEF Follows
    <3>2. ASSUME NEW i \in 1..m + 1 PROVE g[i] = step[i][g[i - 1]]
      <4>1. CASE i = m + 1
        BY <2>2, <2>6, <4>1, Zenon
      <4>2. CASE i \in 1..m
        BY <2>1, <2>6, <4>2, Zenon DEF Follows
      <4>. QED
        BY <2>2, <4>1, <4>2, Zenon
    <3>. QED
      BY <3>1, <3>2, Zenon DEF Follows
  <2>. QED
    BY <2>2, <2>5, <2>7, Zenon
<1>3. n \in 0..n
  OBVIOUS
<1>4. n \in G
  <2> HIDE DEF G
  <2>. QED
    BY <1>1, <1>2, <1>3, CountUp, Zenon
<1>. QED
  BY <1>4, Zenon

-----------------------------------------------------------------------------
(* Sums of amounts.                                                        *)

Adds(a, n, f) == f[0] = 0 /\ \A k \in 1..n : f[k] = f[k - 1] + a[k]

LEMMA SumsAdd ==
    ASSUME NEW n \in Nat, NEW a \in [1..n -> Nat]
    PROVE  Sums(a) \in [0..n -> Nat] /\ Adds(a, n, Sums(a))
<1>1. a \in Seq(Nat) /\ Len(a) = n
  OBVIOUS
<1> DEFINE Eq(f) == f = [k \in 0..n |-> IF k = 0 THEN 0 ELSE f[k - 1] + a[k]]
           step == [i \in 1..n |-> [x \in Nat |-> x + a[i]]]
           sum == CHOOSE f : Eq(f)
<1>2. Sums(a) = sum
  BY <1>1 DEF Sums
<1>3. step \in [1..n -> [Nat -> Nat]] /\ 0 \in Nat
  OBVIOUS
<1>4. \A i \in 1..n, x \in Nat : step[i][x] = x + a[i]
  OBVIOUS
<1> HIDE DEF step
<1>5. PICK f \in [0..n -> Nat] : Follows(f, 0, step, n)
  BY <1>3, Recursion, Zenon
<1>6. /\ \A i \in 0..n : i = 0 \/ (i # 0 /\ i \in 1..n /\ i - 1 \in 0..n)
      /\ \A i \in 1..n : i # 0 /\ i \in 0..n /\ i - 1 \in 0..n
      /\ 0 \in 0..n
  OBVIOUS
<1>7. Eq(f)
  <2>1. \A k \in 1..n : f[k] = f[k - 1] + a[k]
    BY <1>4, <1>5, <1>6, Zenon DEF Follows
  <2>2. \A k \in 0..n : f[k] = IF k = 0 THEN 0 ELSE f[k - 1] + a[k]
    BY <1>5, <1>6, <2>1, Zenon DEF Follows
  <2>3. f = [k \in 0..n |-> f[k]]
    BY Zenon
  <2>. QED
    BY <2>2, <2>3, Zenon
<1>8. Eq(sum)
  <2> HIDE DEF Eq
  <2>. QED
    BY <1>7, Zenon
<1> HIDE DEF sum
<1>9. /\ sum = [k \in 0..n |-> sum[k]] /\ sum[0] = 0
      /\ \A k \in 1..n : sum[k] = sum[k - 1] + a[k]
  BY <1>6, <1>8, Zenon
<1> HIDE DEF Eq
<1>10. \A m \in 0..n : sum[m] \in Nat
  <2> DEFINE G == {m \in 0..n : sum[m] \in Nat}
  <2>1. 0 \in G
    BY <1>6, <1>9
  <2>2. ASSUME NEW m \in 0..n - 1, m \in G PROVE m + 1 \in G
    <3>1. m + 1 \in 1..n /\ m + 1 \in 0..n /\ (m + 1) - 1 = m
      OBVIOUS
    <3>2. sum[m + 1] = sum[m] + a[m + 1] /\ sum[m] \in Nat /\ a[m + 1] \in Nat
      BY <1>9, <2>2, <3>1, Zenon
    <3>. QED
      BY <3>1, <3>2
  <2> HIDE DEF G
  <2>3. \A m \in 0..n : m \in G
    BY <2>1, <2>2, CountUp, Zenon
  <2>. QED
    BY <2>3 DEF G
<1>11. sum \in [0..n -> Nat]
  BY <1>9, <1>10, Zenon
<1>. QED
  BY <1>2, <1>9, <1>11, Zenon DEF Adds

(* Changing one amount changes the sum by as much. *)
LEMMA OneMore ==
    ASSUME NEW n \in Nat, NEW a \in [1..n -> Nat], NEW b \in [1..n -> Nat],
           NEW j \in 1..n, NEW d \in Nat, b[j] = a[j] + d,
           \A i \in 1..n : i # j => b[i] = a[i]
    PROVE  Sums(b)[n] = Sums(a)[n] + d
<1> DEFINE A == Sums(a)
           B == Sums(b)
           G == {m \in 0..n : B[m] = A[m] + (IF m < j THEN 0 ELSE d)}
<1>1. /\ \A m \in 0..n : A[m] \in Nat /\ B[m] \in Nat
      /\ A[0] = 0 /\ B[0] = 0
      /\ \A k \in 1..n : A[k] = A[k - 1] + a[k] /\ B[k] = B[k - 1] + b[k]
  <2>1. A \in [0..n -> Nat] /\ Adds(a, n, A) /\ B \in [0..n -> Nat] /\ Adds(b, n, B)
    BY SumsAdd
  <2> HIDE DEF A, B
  <2>. QED
    BY <2>1, Zenon DEF Adds
<1> HIDE DEF A, B
<1>2. 0 \in G
  BY <1>1
<1>3. ASSUME NEW m \in 0..n - 1, m \in G PROVE m + 1 \in G
  <2>1. m + 1 \in 1..n /\ m + 1 \in 0..n /\ (m + 1) - 1 = m /\ m \in 0..n
    OBVIOUS
  <2>2. /\ A[m + 1] = A[m] + a[m + 1] /\ B[m + 1] = B[m] + b[m + 1]
        /\ A[m] \in Nat /\ B[m] \in Nat /\ a[m + 1] \in Nat /\ b[m + 1] \in Nat
    BY <1>1, <2>1, Zenon
  <2>3. B[m] = A[m] + (IF m < j THEN 0 ELSE d)
    BY <1>3, Zenon
  <2>4. CASE m + 1 = j
    <3>1. b[m + 1] = a[m + 1] + d
      BY <2>4, Zenon
    <3>2. m < j /\ ~(m + 1 < j)
      BY <2>4
    <3>3. B[m] = A[m]
      BY <2>2, <2>3, <3>2
    <3>4. B[m + 1] = A[m + 1] + d
      <4> HIDE DEF G
      <4>. QED
        BY <2>2, <3>1, <3>3, SMTT(30)
    <3>. QED
      BY <2>1, <3>2, <3>4, Zenon
  <2>5. CASE m + 1 # j
    <3>1. b[m + 1] = a[m + 1]
      BY <2>1, <2>5, Zenon
    <3>. QED
      BY <2>1, <2>2, <2>3, <2>5, <3>1, SMTT(30)
  <2>. QED
    BY <2>4, <2>5, Zenon
<1>4. n \in 0..n /\ ~(n < j)
  OBVIOUS
<1>5. n \in G
  <2> HIDE DEF G
  <2>. QED
    BY <1>2, <1>3, <1>4, CountUp, Zenon
<1>. QED
  BY <1>4, <1>5 DEF A, B

(* Sums grow. *)
LEMMA SumsGrow ==
    ASSUME NEW n \in Nat, NEW a \in [1..n -> Nat]
    PROVE  \A t, u \in 0..n : t <= u => Sums(a)[t] <= Sums(a)[u]
<1> DEFINE A == Sums(a)
<1>1. /\ \A m \in 0..n : A[m] \in Nat
      /\ \A k \in 1..n : A[k] = A[k - 1] + a[k]
  <2>1. A \in [0..n -> Nat] /\ Adds(a, n, A)
    BY SumsAdd
  <2> HIDE DEF A
  <2>. QED
    BY <2>1, Zenon DEF Adds
<1> HIDE DEF A
<1> DEFINE G == {m \in 0..n : \A t \in 0..m : A[t] <= A[m]}
<1>2. 0 \in G
  BY <1>1
<1>3. ASSUME NEW m \in 0..n - 1, m \in G PROVE m + 1 \in G
  <2>1. m + 1 \in 1..n /\ m + 1 \in 0..n /\ (m + 1) - 1 = m /\ m \in 0..n
    OBVIOUS
  <2>2. /\ A[m + 1] = A[m] + a[m + 1]
        /\ A[m] \in Nat /\ a[m + 1] \in Nat
    BY <1>1, <2>1, Zenon
  <2>3. ASSUME NEW t \in 0..m + 1 PROVE A[t] <= A[m + 1]
    <3>1. CASE t = m + 1
      BY <2>2, <3>1
    <3>2. CASE t # m + 1
      <4>1. t \in 0..m /\ t \in 0..n
        BY <3>2
      <4>2. A[t] <= A[m] /\ A[t] \in Nat
        BY <1>1, <1>3, <4>1, Zenon
      <4>. QED
        BY <2>2, <4>2
    <3>. QED
      BY <3>1, <3>2, Zenon
  <2>. QED
    BY <2>1, <2>3, Zenon
<1>4. \A m \in 0..n : m \in G
  <2> HIDE DEF G
  <2>. QED
    BY <1>2, <1>3, CountUp, Zenon
<1>. QED
  BY <1>4 DEF A

-----------------------------------------------------------------------------
(* The sorted transactions.                                                *)

Tx == [gas : Nat, tip : Nat, cap : Nat]

NotAfter(txs, k, j) ==
    \/ Reward(txs[k]) < Reward(txs[j])
    \/ Reward(txs[k]) = Reward(txs[j]) /\ k <= j

LEMMA RewardType == ASSUME NEW tx \in Tx PROVE Reward(tx) \in Nat
BY DEF Tx, Reward

LEMMA RankOrder ==
    ASSUME NEW n \in Nat, NEW txs \in [1..n -> Tx], NEW i \in 1..n, NEW j \in 1..n
    PROVE  /\ Rank(txs, i) \in 1..n
           /\ Rank(txs, i) <= Rank(txs, j) <=> NotAfter(txs, i, j)
           /\ Rank(txs, i) = Rank(txs, j) => i = j
<1> DEFINE R(k) == Reward(txs[k])
           upTo(k) == {m \in 1..n : NotAfter(txs, m, k)}
<1>1. \A k \in 1..n : R(k) \in Nat /\ k \in Nat
  BY RewardType
<1>2. \A k \in 1..n : Rank(txs, k) = Cardinality(upTo(k))
  BY Zenon DEF Rank, NotAfter
<1>3. \A k, m \in 1..n : NotAfter(txs, k, m) <=> (R(k) < R(m) \/ (R(k) = R(m) /\ k <= m))
  BY Zenon DEF NotAfter
<1> HIDE DEF R
<1>4. \A k \in 1..n : NotAfter(txs, k, k)
  BY <1>1, <1>3
<1>5. \A k, m \in 1..n : NotAfter(txs, k, m) \/ NotAfter(txs, m, k)
  BY <1>1, <1>3
<1>6. \A k, m \in 1..n : NotAfter(txs, k, m) /\ NotAfter(txs, m, k) => k = m
  BY <1>1, <1>3
<1>7. \A k, m, u \in 1..n : NotAfter(txs, k, m) /\ NotAfter(txs, m, u) => NotAfter(txs, k, u)
  BY <1>1, <1>3
<1>8. IsFiniteSet(1..n) /\ Cardinality(1..n) = n
  BY FS_Interval
<1>9. ASSUME NEW k \in 1..n
      PROVE  IsFiniteSet(upTo(k)) /\ Cardinality(upTo(k)) \in 1..n
  <2>1. upTo(k) \in SUBSET (1..n) /\ k \in upTo(k)
    BY <1>4, Zenon
  <2> DEFINE U == upTo(k)
  <2> HIDE DEF upTo, U
  <2>2. IsFiniteSet(U) /\ Cardinality(U) <= n
    BY <1>8, <2>1, FS_Subset DEF U
  <2>3. Cardinality(U) \in Nat /\ Cardinality(U) # 0
    BY <2>1, <2>2, FS_CardinalityType, FS_EmptySet, Zenon DEF U
  <2>4. Cardinality(U) \in 1..n
    BY <2>2, <2>3
  <2>. QED
    BY <2>2, <2>4 DEF U
<1>10. ASSUME NEW k \in 1..n, NEW m \in 1..n, NotAfter(txs, k, m)
       PROVE  /\ Cardinality(upTo(k)) <= Cardinality(upTo(m))
              /\ Cardinality(upTo(k)) = Cardinality(upTo(m)) => k = m
  <2>1. upTo(k) \in SUBSET upTo(m)
    BY <1>7, <1>10, Zenon
  <2>2. ASSUME upTo(k) = upTo(m) PROVE k = m
    <3>1. m \in upTo(k)
      BY <1>4, <2>2, Zenon
    <3>. QED
      BY <1>6, <1>10, <3>1, Zenon
  <2>3. IsFiniteSet(upTo(m))
    BY <1>9, Zenon
  <2> HIDE DEF upTo
  <2>. QED
    BY <2>1, <2>2, <2>3, FS_Subset
<1>11. \A k, m \in 1..n : NotAfter(txs, k, m) =>
           Rank(txs, k) <= Rank(txs, m) /\ (Rank(txs, k) = Rank(txs, m) => k = m)
  BY <1>2, <1>10, ZenonT(30)
<1>12. \A k \in 1..n : Rank(txs, k) \in 1..n
  BY <1>2, <1>9, Zenon
<1> HIDE DEF upTo
<1>13. CASE NotAfter(txs, i, j)
  BY <1>11, <1>12, <1>13, Zenon
<1>14. CASE ~NotAfter(txs, i, j)
  <2>1. i # j
    BY <1>4, <1>14
  <2>2. Rank(txs, j) <= Rank(txs, i) /\ Rank(txs, j) # Rank(txs, i)
    BY <1>5, <1>11, <1>14, <2>1, Zenon
  <2>3. Rank(txs, i) \in Nat /\ Rank(txs, j) \in Nat
    BY <1>12
  <2>4. ~(Rank(txs, i) <= Rank(txs, j))
    BY <2>2, <2>3
  <2>. QED
    BY <1>12, <1>14, <2>2, <2>4, Zenon
<1>. QED
  BY <1>13, <1>14, Zenon

LEMMA RankOnto ==
    ASSUME NEW n \in Nat, NEW txs \in [1..n -> Tx], NEW t \in 1..n
    PROVE  \E j \in 1..n : Rank(txs, j) = t
<1> DEFINE f == [j \in 1..n |-> Rank(txs, j)]
<1>1. f \in [1..n -> 1..n]
  BY RankOrder, Zenon
<1>2. \A i, j \in 1..n : f[i] = f[j] => i = j
  BY RankOrder, Zenon
<1>3. \A j \in 1..n : f[j] = Rank(txs, j)
  BY Zenon
<1> HIDE DEF f
<1>4. f \in Injection(1..n, 1..n)
  BY <1>1, <1>2, Zenon DEF Injection, IsInjective
<1>5. IsFiniteSet(1..n)
  BY FS_Interval
<1>6. f \in Surjection(1..n, 1..n)
  BY <1>4, <1>5, FS_Injection, Zenon
<1>. QED
  BY <1>3, <1>6, Zenon DEF Surjection

(* The transaction at a place of the sorted list. *)
LEMMA SortedPlace ==
    ASSUME NEW n \in Nat, NEW txs \in [1..n -> Tx]
    PROVE  /\ SortedTxs(txs) \in [1..n -> [gas : Nat, reward : Nat]]
           /\ \A j \in 1..n : SortedTxs(txs)[Rank(txs, j)] =
                                  [gas |-> txs[j].gas, reward |-> Reward(txs[j])]
<1> DEFINE at(t) == CHOOSE j \in 1..n : Rank(txs, j) = t
           item(tx) == [gas |-> tx.gas, reward |-> Reward(tx)]
<1>1. SortedTxs(txs) = [t \in 1..n |-> item(txs[at(t)])]
  BY Zenon DEF SortedTxs
<1>2. \A t \in 1..n : at(t) \in 1..n /\ Rank(txs, at(t)) = t
  BY RankOnto, Zenon
<1>3. \A j \in 1..n : Rank(txs, j) \in 1..n /\ at(Rank(txs, j)) = j
  <2> SUFFICES ASSUME NEW j \in 1..n
               PROVE  Rank(txs, j) \in 1..n /\ at(Rank(txs, j)) = j
    BY Zenon
  <2>1. Rank(txs, j) \in 1..n
    BY RankOrder, Zenon
  <2>2. at(Rank(txs, j)) \in 1..n /\ Rank(txs, at(Rank(txs, j))) = Rank(txs, j)
    BY <1>2, <2>1, Zenon
  <2> HIDE DEF at
  <2>. QED
    BY <2>1, <2>2, RankOrder, Zenon
<1>4. \A tx \in Tx : item(tx) \in [gas : Nat, reward : Nat]
  BY RewardType DEF Tx
<1> HIDE DEF at, item
<1>5. \A t \in 1..n : item(txs[at(t)]) \in [gas : Nat, reward : Nat]
  BY <1>2, <1>4, Zenon
<1>6. SortedTxs(txs) \in [1..n -> [gas : Nat, reward : Nat]]
  BY <1>1, <1>5, Zenon
<1>7. \A j \in 1..n : SortedTxs(txs)[Rank(txs, j)] = item(txs[j])
  BY <1>1, <1>3, Zenon
<1>. QED
  BY <1>6, <1>7, Zenon DEF item

LEMMA NoAmounts ==
    ASSUME NEW n \in Nat, NEW a \in [1..n -> Nat], \A i \in 1..n : a[i] = 0
    PROVE  Sums(a)[n] = 0
<1> DEFINE A == Sums(a)
           G == {m \in 0..n : A[m] = 0}
<1>1. A[0] = 0 /\ \A k \in 1..n : A[k] = A[k - 1] + a[k]
  BY SumsAdd, Zenon DEF Adds
<1> HIDE DEF A
<1>2. 0 \in G
  BY <1>1
<1>3. ASSUME NEW m \in 0..n - 1, m \in G PROVE m + 1 \in G
  <2>1. m + 1 \in 1..n /\ m + 1 \in 0..n /\ (m + 1) - 1 = m
    OBVIOUS
  <2>2. A[m + 1] = A[m] + a[m + 1] /\ a[m + 1] = 0 /\ A[m] = 0
    BY <1>1, <1>3, <2>1, Zenon
  <2>. QED
    BY <2>1, <2>2
<1>4. n \in 0..n
  OBVIOUS
<1>5. n \in G
  <2> HIDE DEF G
  <2>. QED
    BY <1>2, <1>3, <1>4, CountUp, Zenon
<1>. QED
  BY <1>5 DEF A

(* The gas of the transactions that are among the first m when sorted. *)
First(txs, n, m) == [i \in 1..n |-> IF Rank(txs, i) <= m THEN txs[i].gas ELSE 0]

(* The running sum over the sorted list, in the order of the block. *)
LEMMA SumOfFirst ==
    ASSUME NEW n \in Nat, NEW txs \in [1..n -> Tx]
    PROVE  \A m \in 0..n : SumGas(SortedTxs(txs))[m] = Sums(First(txs, n, m))[n]
<1> DEFINE s == SortedTxs(txs)
           g == [i \in 1..n |-> s[i].gas]
           G == {m \in 0..n : Sums(g)[m] = Sums(First(txs, n, m))[n]}
<1>1. /\ s \in [1..n -> [gas : Nat, reward : Nat]]
      /\ \A j \in 1..n : s[Rank(txs, j)] = [gas |-> txs[j].gas, reward |-> Reward(txs[j])]
  BY SortedPlace, Zenon
<1> HIDE DEF s
<1>2. SumGas(s) = Sums(g)
  BY <1>1, Zenon DEF SumGas
<1>3. \A j \in 1..n : txs[j].gas \in Nat /\ Rank(txs, j) \in 1..n
  <2>1. \A j \in 1..n : txs[j] \in Tx /\ Rank(txs, j) \in 1..n
    BY RankOrder, Zenon
  <2>. QED
    BY <2>1 DEF Tx
<1>4. g \in [1..n -> Nat] /\ \A j \in 1..n : g[Rank(txs, j)] = txs[j].gas
  <2>1. \A j \in 1..n : s[j].gas \in Nat
    BY <1>1
  <2>2. \A j \in 1..n : s[Rank(txs, j)].gas = txs[j].gas
    <3> SUFFICES ASSUME NEW j \in 1..n PROVE s[Rank(txs, j)].gas = txs[j].gas
      BY Zenon
    <3>1. s[Rank(txs, j)] = [gas |-> txs[j].gas, reward |-> Reward(txs[j])]
      BY <1>1, Zenon
    <3>. QED
      BY ONLY <3>1
  <2>. QED
    BY <1>3, <2>1, <2>2, Zenon
<1> HIDE DEF g
<1>5. \A m \in 0..n : First(txs, n, m) \in [1..n -> Nat]
  <2> SUFFICES ASSUME NEW m \in 0..n PROVE First(txs, n, m) \in [1..n -> Nat]
    BY Zenon
  <2>1. \A i \in 1..n : (IF Rank(txs, i) <= m THEN txs[i].gas ELSE 0) \in Nat
    BY <1>3
  <2>. QED
    BY <2>1, Zenon DEF First
<1>6. 0 \in G
  <2>1. 0 \in 0..n /\ \A i \in 1..n : ~(Rank(txs, i) <= 0)
    BY <1>3
  <2>2. First(txs, n, 0) \in [1..n -> Nat] /\ \A i \in 1..n : First(txs, n, 0)[i] = 0
    BY <1>5, <2>1, Zenon DEF First
  <2>3. Sums(First(txs, n, 0))[n] = 0
    BY <2>2, NoAmounts, Zenon
  <2>4. Sums(g)[0] = 0
    BY <1>4, SumsAdd, Zenon DEF Adds
  <2>. QED
    BY <2>1, <2>3, <2>4, Zenon
<1>7. ASSUME NEW m \in 0..n - 1, m \in G PROVE m + 1 \in G
  <2>1. m + 1 \in 1..n /\ m + 1 \in 0..n /\ (m + 1) - 1 = m /\ m \in 0..n
    OBVIOUS
  <2>2. PICK j \in 1..n : Rank(txs, j) = m + 1
    BY <2>1, RankOnto, Zenon
  <2> DEFINE a == First(txs, n, m)
             b == First(txs, n, m + 1)
             d == txs[j].gas
  <2>3. a \in [1..n -> Nat] /\ b \in [1..n -> Nat] /\ d \in Nat
    BY <1>3, <1>5, <2>1, Zenon
  <2>4. /\ \A i \in 1..n : a[i] = IF Rank(txs, i) <= m THEN txs[i].gas ELSE 0
        /\ \A i \in 1..n : b[i] = IF Rank(txs, i) <= m + 1 THEN txs[i].gas ELSE 0
    BY Zenon DEF First
  <2>5. a[j] = 0 /\ b[j] = d
    <3>1. ~(Rank(txs, j) <= m) /\ Rank(txs, j) <= m + 1
      BY <2>2
    <3>. QED
      BY <2>4, <3>1, Zenon
  <2>6. ASSUME NEW i \in 1..n, i # j PROVE b[i] = a[i]
    <3>1. Rank(txs, i) # m + 1
      BY <2>2, <2>6, RankOrder, Zenon
    <3>2. Rank(txs, i) <= m <=> Rank(txs, i) <= m + 1
      BY <1>3, <3>1
    <3>. QED
      BY <2>4, <3>2, Zenon
  <2> HIDE DEF a, b, d
  <2>7. b[j] = a[j] + d
    BY <2>3, <2>5
  <2>8. Sums(b)[n] = Sums(a)[n] + d
    BY <2>3, <2>6, <2>7, OneMore, Zenon
  <2>9. Sums(g)[m + 1] = Sums(g)[m] + g[m + 1]
    BY <1>4, <2>1, SumsAdd, Zenon DEF Adds
  <2>10. g[m + 1] = d
    BY <1>4, <2>2, Zenon DEF d
  <2>11. Sums(g)[m] = Sums(a)[n]
    BY <1>7, Zenon DEF a
  <2>12. Sums(g)[m + 1] = Sums(b)[n]
    BY <2>8, <2>9, <2>10, <2>11, Zenon
  <2>. QED
    BY <2>1, <2>12, Zenon DEF b
<1>8. \A m \in 0..n : m \in G
  <2> HIDE DEF G
  <2>. QED
    BY <1>6, <1>7, CountUp, Zenon
<1>. QED
  BY <1>2, <1>8, Zenon DEF s

(* The transactions with at most some reward are the first when sorted. *)
LEMMA Cut ==
    ASSUME NEW n \in Nat, NEW txs \in [1..n -> Tx], NEW w \in Nat
    PROVE  \E t \in 0..n : \A i \in 1..n : Reward(txs[i]) <= w <=> Rank(txs, i) <= t
<1> DEFINE Splits(t, m) == \A i \in 1..n : Rank(txs, i) <= m =>
                               (Reward(txs[i]) <= w <=> Rank(txs, i) <= t)
           G == {m \in 0..n : \E t \in 0..m : Splits(t, m)}
<1>1. \A i \in 1..n : Reward(txs[i]) \in Nat /\ Rank(txs, i) \in 1..n
  BY RewardType, RankOrder
<1>2. 0 \in G
  <2>1. 0 \in 0..n /\ 0 \in 0..0 /\ \A i \in 1..n : ~(Rank(txs, i) <= 0)
    BY <1>1
  <2>. QED
    BY <2>1, Zenon
<1>3. ASSUME NEW m \in 0..n - 1, m \in G PROVE m + 1 \in G
  <2>1. PICK t \in 0..m : Splits(t, m)
    BY <1>3, Zenon
  <2> HIDE DEF G
  <2>2. m + 1 \in 1..n /\ m + 1 \in 0..n /\ t \in 0..m + 1 /\ m + 1 \in 0..m + 1
    BY <1>3
  <2>3. PICK j \in 1..n : Rank(txs, j) = m + 1
    BY <2>2, RankOnto, Zenon
  <2>4. CASE Reward(txs[j]) <= w
    <3>1. ASSUME NEW i \in 1..n, Rank(txs, i) <= m + 1 PROVE Reward(txs[i]) <= w
      <4>1. NotAfter(txs, i, j)
        <5>1. Rank(txs, i) <= Rank(txs, j)
          BY <2>3, <3>1, Zenon
        <5>. QED
          BY <5>1, RankOrder, Zenon
      <4>2. Reward(txs[i]) \in Nat /\ Reward(txs[j]) \in Nat
        BY <1>1, Zenon
      <4> HIDE DEF Splits
      <4>3. Reward(txs[i]) <= Reward(txs[j])
        BY <4>1, <4>2 DEF NotAfter
      <4>. QED
        BY <2>4, <4>2, <4>3
    <3>2. Splits(m + 1, m + 1)
      BY <3>1, Zenon
    <3>. QED
      BY <2>2, <3>2, Zenon DEF G
  <2>5. CASE ~(Reward(txs[j]) <= w)
    <3>1. ASSUME NEW i \in 1..n, Rank(txs, i) <= m + 1
          PROVE  Reward(txs[i]) <= w <=> Rank(txs, i) <= t
      <4>1. CASE i = j
        <5>1. ~(m + 1 <= t)
          OBVIOUS
        <5>. QED
          BY <2>3, <2>5, <4>1, <5>1, Zenon
      <4>2. CASE i # j
        <5>1. Rank(txs, i) # m + 1
          BY <2>3, <4>2, RankOrder, Zenon
        <5>2. Rank(txs, i) \in Nat
          BY <1>1
        <5>3. Rank(txs, i) <= m
          <6> HIDE DEF Splits
          <6>. QED
            BY <3>1, <5>1, <5>2
        <5>. QED
          BY <2>1, <5>3, Zenon
      <4>. QED
        BY <4>1, <4>2, Zenon
    <3>2. Splits(t, m + 1)
      BY <3>1, Zenon
    <3>. QED
      BY <2>2, <3>2, Zenon DEF G
  <2>. QED
    BY <2>4, <2>5, Zenon
<1>4. n \in 0..n
  OBVIOUS
<1>5. n \in G
  <2> HIDE DEF G
  <2>. QED
    BY <1>2, <1>3, <1>4, CountUp, Zenon
<1>6. PICK t \in 0..n : Splits(t, n)
  BY <1>5, Zenon
<1>7. \A i \in 1..n : Rank(txs, i) <= n
  BY <1>1
<1>. QED
  BY <1>6, <1>7, Zenon

(* The gas of the transactions with at most some reward. *)
UpTo(txs, n, w) == [i \in 1..n |-> IF Reward(txs[i]) <= w THEN txs[i].gas ELSE 0]

LEMMA GasOfCut ==
    ASSUME NEW n \in Nat, NEW txs \in [1..n -> Tx], NEW w \in Nat
    PROVE  \E t \in 0..n :
               /\ \A i \in 1..n : Reward(txs[i]) <= w <=> Rank(txs, i) <= t
               /\ Sums(UpTo(txs, n, w))[n] = SumGas(SortedTxs(txs))[t]
<1>1. PICK t \in 0..n : \A i \in 1..n : Reward(txs[i]) <= w <=> Rank(txs, i) <= t
  BY Cut, Zenon
<1>2. UpTo(txs, n, w) = First(txs, n, t)
  BY <1>1 DEF UpTo, First
<1>. QED
  BY <1>1, <1>2, SumOfFirst, Zenon

-----------------------------------------------------------------------------
(* The walk over the sorted transactions.                                  *)

Reaches(s, gasUsed, t, p) == SumGas(s)[t] >= ThresholdGasUsed(gasUsed, p)

(* From place u the loop stops at t. *)
Stops(s, n, gasUsed, p, u, t) ==
    /\ t \in u..n
    /\ Reaches(s, gasUsed, t, p) \/ t = n
    /\ \A v \in u..t - 1 : ~Reaches(s, gasUsed, v, p)

LEMMA StopsSomewhere ==
    ASSUME NEW s, NEW n \in Nat, NEW gasUsed, NEW p, NEW u \in 1..n
    PROVE  \E t \in 1..n : Stops(s, n, gasUsed, p, u, t)
<1> DEFINE T == {t \in u..n : Reaches(s, gasUsed, t, p) \/ t = n}
<1>1. n \in T /\ T \subseteq Nat
  OBVIOUS
<1>2. PICK t \in T : \A y \in T : t <= y
  <2> HIDE DEF T
  <2>1. T # {}
    BY <1>1, Zenon
  <2>. QED
    BY <1>1, <2>1, LeastNumber, Zenon
<1>3. t \in u..n /\ (Reaches(s, gasUsed, t, p) \/ t = n)
  BY <1>2, Zenon
<1>4. t \in 1..n
  <2> HIDE DEF T
  <2>. QED
    BY <1>3
<1>5. ASSUME NEW v \in u..t - 1 PROVE ~Reaches(s, gasUsed, v, p)
  <2>1. v \in u..n /\ ~(t <= v)
    <3> HIDE DEF T
    <3>. QED
      BY <1>3, <1>5
  <2>. QED
    BY <1>2, <2>1, Zenon
<1>. QED
  BY <1>3, <1>4, <1>5, Zenon DEF Stops

(* The places x at which the loop of rewards stops, from one percentile to *)
(* the next.                                                               *)
Walks(s, n, gasUsed, ps, k, x) ==
    /\ x[0] = 1
    /\ \A i \in 1..k : Stops(s, n, gasUsed, ps[i], x[i - 1], x[i])
    /\ \A i \in 1..k : Rewards(gasUsed, s, ps)[i] = s[x[i]].reward

LEMMA Walk ==
    ASSUME NEW n \in Nat, n # 0, NEW s \in [1..n -> [gas : Nat, reward : Nat]],
           NEW k \in Nat, NEW ps \in [1..k -> Int], NEW gasUsed
    PROVE  \E x \in [0..k -> 1..n] : Walks(s, n, gasUsed, ps, k, x)
<1>1. /\ Len(s) = n /\ Len(ps) = k /\ s # <<>> /\ DOMAIN ps = 1..k
  OBVIOUS
<1> DEFINE next(i, u) == CHOOSE t \in u..n : /\ Reaches(s, gasUsed, t, ps[i]) \/ t = n
                                             /\ \A v \in u..t - 1 : ~Reaches(s, gasUsed, v, ps[i])
           Eq(f) == f = [i \in 0..k |-> IF i = 0 THEN 1 ELSE next(i, f[i - 1])]
           x == CHOOSE f : Eq(f)
           step == [i \in 1..k |-> [u \in 1..n |-> next(i, u)]]
<1>2. Rewards(gasUsed, s, ps) = [i \in 1..k |-> IF s = <<>> THEN 0 ELSE s[x[i]].reward]
  BY <1>1 DEF Rewards, Reaches
<1>3. \A i \in 1..k, u \in 1..n :
          next(i, u) \in 1..n /\ Stops(s, n, gasUsed, ps[i], u, next(i, u))
  <2> SUFFICES ASSUME NEW i \in 1..k, NEW u \in 1..n
               PROVE  next(i, u) \in 1..n /\ Stops(s, n, gasUsed, ps[i], u, next(i, u))
    BY Zenon
  <2>1. PICK t \in 1..n : Stops(s, n, gasUsed, ps[i], u, t)
    BY StopsSomewhere, Zenon
  <2>2. Stops(s, n, gasUsed, ps[i], u, next(i, u))
    BY <2>1, Zenon DEF Stops
  <2>3. next(i, u) \in u..n
    BY <2>2, Zenon DEF Stops
  <2> HIDE DEF next
  <2>4. next(i, u) \in 1..n
    BY <2>3
  <2>. QED
    BY <2>2, <2>4
<1> HIDE DEF next
<1>4. step \in [1..k -> [1..n -> 1..n]] /\ \A i \in 1..k, u \in 1..n : step[i][u] = next(i, u)
  BY <1>3, Zenon
<1> HIDE DEF step
<1>5. 1 \in 1..n
  OBVIOUS
<1>6. PICK f \in [0..k -> 1..n] : Follows(f, 1, step, k)
  BY <1>4, <1>5, Recursion, Zenon
<1>7. /\ \A i \in 0..k : i = 0 \/ (i # 0 /\ i \in 1..k /\ i - 1 \in 0..k)
      /\ \A i \in 1..k : i # 0 /\ i \in 0..k /\ i - 1 \in 0..k
      /\ 0 \in 0..k
  BY SMTT(30)
<1>8. Eq(f)
  <2>1. \A i \in 1..k : f[i] = next(i, f[i - 1])
    BY <1>4, <1>6, <1>7, Zenon DEF Follows
  <2>2. \A i \in 0..k : f[i] = IF i = 0 THEN 1 ELSE next(i, f[i - 1])
    BY <1>6, <1>7, <2>1, Zenon DEF Follows
  <2>3. f = [i \in 0..k |-> f[i]]
    BY Zenon
  <2>. QED
    BY <2>2, <2>3, Zenon
<1>9. Eq(x)
  <2> HIDE DEF Eq
  <2>. QED
    BY <1>8, Zenon
<1> HIDE DEF x
<1>10. /\ x = [i \in 0..k |-> x[i]] /\ x[0] = 1
       /\ \A i \in 1..k : x[i] = next(i, x[i - 1])
  BY <1>7, <1>9, Zenon
<1> HIDE DEF Eq
<1>11. \A i \in 0..k : x[i] \in 1..n
  <2> DEFINE G == {i \in 0..k : x[i] \in 1..n}
  <2>1. 0 \in G
    BY <1>5, <1>7, <1>10
  <2>2. ASSUME NEW i \in 0..k - 1, i \in G PROVE i + 1 \in G
    <3>1. i + 1 \in 1..k /\ i + 1 \in 0..k /\ (i + 1) - 1 = i
      OBVIOUS
    <3>. QED
      BY <1>3, <1>10, <2>2, <3>1, Zenon
  <2> HIDE DEF G
  <2>3. \A i \in 0..k : i \in G
    BY <2>1, <2>2, CountUp, Zenon
  <2>. QED
    BY <2>3 DEF G
<1>12. x \in [0..k -> 1..n]
  BY <1>10, <1>11, Zenon
<1>13. ASSUME NEW i \in 1..k PROVE Stops(s, n, gasUsed, ps[i], x[i - 1], x[i])
  <2>1. x[i - 1] \in 1..n /\ x[i] = next(i, x[i - 1])
    BY <1>7, <1>10, <1>11, Zenon
  <2> DEFINE u == x[i - 1]
             y == x[i]
  <2>2. u \in 1..n /\ y = next(i, u)
    BY <2>1
  <2> HIDE DEF u, y
  <2>3. Stops(s, n, gasUsed, ps[i], u, next(i, u))
    BY <1>3, <2>2, Zenon
  <2>4. Stops(s, n, gasUsed, ps[i], u, y)
    BY <2>2, <2>3
  <2>. QED
    BY <2>4 DEF u, y
<1>14. \A i \in 1..k : Rewards(gasUsed, s, ps)[i] = s[x[i]].reward
  BY <1>1, <1>2, Zenon
<1>. QED
  BY <1>10, <1>12, <1>13, <1>14, Zenon DEF Walks

LEMMA ThresholdGrows ==
    ASSUME NEW g \in Nat, NEW p \in 0..100, NEW q \in 0..100, p <= q
    PROVE  /\ ThresholdGasUsed(g, p) \in Nat /\ ThresholdGasUsed(g, q) \in Nat
           /\ ThresholdGasUsed(g, p) <= ThresholdGasUsed(g, q)
<1>1. g * p \in Nat /\ g * q \in Nat /\ g * p <= g * q
  OBVIOUS
<1>2. \A a, b \in Nat : a <= b =>
          a \div 100 \in Nat /\ b \div 100 \in Nat /\ a \div 100 <= b \div 100
  OBVIOUS
<1>. QED
  BY <1>1, <1>2, Zenon DEF ThresholdGasUsed

(* Where the walk stops for a percentile, it has passed no place that      *)
(* reaches it: what an earlier percentile left behind does not reach a     *)
(* later one either.                                                       *)
LEMMA NonePassed ==
    ASSUME NEW n \in Nat, NEW s, NEW gasUsed \in Nat, \A t \in 1..n : SumGas(s)[t] \in Nat,
           NEW k \in Nat, NEW ps \in [1..k -> 0..100],
           \A i \in 2..k : ps[i - 1] < ps[i],
           NEW x \in [0..k -> 1..n], x[0] = 1,
           \A i \in 1..k : Stops(s, n, gasUsed, ps[i], x[i - 1], x[i])
    PROVE  \A i \in 1..k : \A v \in 1..x[i] - 1 : ~Reaches(s, gasUsed, v, ps[i])
<1> DEFINE Passed(i) == \A v \in 1..x[i] - 1 : ~Reaches(s, gasUsed, v, ps[i])
           G == {i \in 0..k : i = 0 \/ Passed(i)}
<1>1. 0 \in G
  OBVIOUS
<1>2. ASSUME NEW i \in 0..k - 1, i \in G PROVE i + 1 \in G
  <2>1. /\ i + 1 \in 1..k /\ i + 1 \in 0..k /\ (i + 1) - 1 = i /\ i \in 0..k
        /\ i # 0 => i \in 1..k /\ i + 1 \in 2..k
    <3> HIDE DEF G
    <3>. QED
      BY <1>2
  <2>2. Stops(s, n, gasUsed, ps[i + 1], x[i], x[i + 1])
    BY <2>1, Zenon
  <2>3. x[i] \in 1..n /\ x[i + 1] \in 1..n /\ ps[i + 1] \in 0..100
    BY <2>1, Zenon
  <2>4. ASSUME NEW v \in 1..x[i + 1] - 1 PROVE ~Reaches(s, gasUsed, v, ps[i + 1])
    <3>1. v \in 1..n /\ (v \in x[i]..x[i + 1] - 1 \/ v \in 1..x[i] - 1)
      <4> HIDE DEF G, Passed
      <4>. QED
        BY <2>3, <2>4
    <3>2. CASE v \in x[i]..x[i + 1] - 1
      BY <2>2, <3>2, Zenon DEF Stops
    <3>3. CASE v \in 1..x[i] - 1
      <4>1. i # 0
        <5>1. 1..1 - 1 = {}
          OBVIOUS
        <5>. QED
          BY <3>3, <5>1
      <4>2. ~Reaches(s, gasUsed, v, ps[i])
        BY <1>2, <3>3, <4>1, Zenon
      <4> DEFINE p == ps[i]
                 q == ps[i + 1]
                 sum == SumGas(s)[v]
      <4>3. ps[(i + 1) - 1] < ps[i + 1] /\ ps[i] \in 0..100
        BY <2>1, <4>1, Zenon
      <4>4. p \in 0..100 /\ q \in 0..100 /\ p < q /\ sum \in Nat
        BY <2>1, <2>3, <3>1, <4>3
      <4>5. ~(sum >= ThresholdGasUsed(gasUsed, p))
        BY <4>2, Zenon DEF Reaches
      <4> HIDE DEF p, q, sum, G, Passed
      <4>6. p <= q
        BY <4>4
      <4>7. /\ ThresholdGasUsed(gasUsed, p) \in Nat /\ ThresholdGasUsed(gasUsed, q) \in Nat
            /\ ThresholdGasUsed(gasUsed, p) <= ThresholdGasUsed(gasUsed, q)
        BY <4>4, <4>6, ThresholdGrows, Zenon
      <4>8. ~(sum >= ThresholdGasUsed(gasUsed, q))
        BY <4>4, <4>5, <4>7
      <4>. QED
        BY <4>8, Zenon DEF Reaches, sum, q
    <3>. QED
      BY <3>1, <3>2, <3>3, Zenon
  <2>. QED
    BY <2>1, <2>4, Zenon
<1>3. \A i \in 0..k : i \in G
  <2> HIDE DEF G
  <2>. QED
    BY <1>1, <1>2, CountUp, Zenon
<1>4. \A i \in 1..k : i \in 0..k /\ i # 0
  OBVIOUS
<1>. QED
  BY <1>3, <1>4, Zenon

(* The first place that reaches a percentile, or the last place, has the   *)
(* reward that the definition of the percentile asks for.                  *)
LEMMA FirstToReach ==
    ASSUME NEW n \in Nat, NEW txs \in [1..n -> Tx], NEW gasUsed \in Nat, NEW p \in 0..100,
           NEW t \in 1..n,
           Reaches(SortedTxs(txs), gasUsed, t, p) \/ t = n,
           \A v \in 1..t - 1 : ~Reaches(SortedTxs(txs), gasUsed, v, p)
    PROVE  IsPercentile(SortedTxs(txs)[t].reward, txs, gasUsed, p)
<1> DEFINE s == SortedTxs(txs)
           S == SumGas(s)
           H == ThresholdGasUsed(gasUsed, p)
           R(i) == Reward(txs[i])
           gas(w) == Sums(UpTo(txs, n, w))[n]
           v == s[t].reward
           enough == {w \in {R(i) : i \in 1..n} : gas(w) >= H}
<1>1. Len(txs) = n /\ DOMAIN txs = 1..n
  OBVIOUS
<1>2. IsPercentile(v, txs, gasUsed, p) <=>
          /\ \E i \in 1..n : v = R(i)
          /\ IF enough = {} THEN \A i \in 1..n : R(i) <= v
             ELSE v \in enough /\ \A w \in enough : v <= w
  BY <1>1, Zenon DEF IsPercentile, UpTo
<1>3. PICK j \in 1..n : Rank(txs, j) = t
  BY RankOnto, Zenon
<1>4. v = R(j)
  <2>1. s[t] = [gas |-> txs[j].gas, reward |-> R(j)]
    BY <1>3, SortedPlace, Zenon
  <2>. QED
    BY ONLY <2>1
<1>5. \A i \in 1..n : R(i) \in Nat
  BY RewardType
<1>6. /\ \A u \in 0..n : S[u] \in Nat
      /\ \A u, y \in 0..n : u <= y => S[u] <= S[y]
  <2> DEFINE g == [i \in 1..n |-> s[i].gas]
  <2>1. s \in [1..n -> [gas : Nat, reward : Nat]]
    BY SortedPlace, Zenon
  <2> HIDE DEF s
  <2>2. g \in [1..n -> Nat]
    BY <2>1
  <2>3. S = Sums(g)
    BY <2>1, Zenon DEF SumGas
  <2> HIDE DEF g, S
  <2>. QED
    BY <2>2, <2>3, SumsAdd, SumsGrow, SMTT(30)
<1>7. H \in Nat
  <2>1. p <= p
    OBVIOUS
  <2>. QED
    BY <2>1, ThresholdGrows, Zenon
<1>8. \A w \in Nat : \E u \in 0..n : /\ \A i \in 1..n : R(i) <= w <=> Rank(txs, i) <= u
                                     /\ gas(w) = S[u]
  BY GasOfCut, Zenon
<1>9. (S[t] >= H \/ t = n) /\ \A u \in 1..t - 1 : ~(S[u] >= H)
  BY Zenon DEF Reaches
<1>10. v \in Nat /\ t \in 0..n /\ n \in 0..n
  BY <1>4, <1>5
<1>11. \A i \in 1..n : Rank(txs, i) \in 1..n /\ (Rank(txs, i) <= t => R(i) <= v)
  <2> SUFFICES ASSUME NEW i \in 1..n
               PROVE  Rank(txs, i) \in 1..n /\ (Rank(txs, i) <= t => R(i) <= v)
    BY Zenon
  <2>1. Rank(txs, i) \in 1..n /\ (Rank(txs, i) <= t <=> NotAfter(txs, i, j))
    BY <1>3, RankOrder
  <2>2. R(i) \in Nat /\ R(j) \in Nat
    BY <1>5
  <2>3. NotAfter(txs, i, j) => R(i) < R(j) \/ R(i) = R(j)
    BY Zenon DEF NotAfter
  <2> HIDE DEF R, v, enough
  <2>. QED
    BY <1>4, <2>1, <2>2, <2>3
<1> SUFFICES IsPercentile(v, txs, gasUsed, p)
  OBVIOUS
<1> HIDE DEF s, S, H, R, gas, v
<1>12. CASE S[t] >= H
  <2>1. gas(v) >= H
    <3>1. PICK u \in 0..n : /\ \A i \in 1..n : R(i) <= v <=> Rank(txs, i) <= u
                            /\ gas(v) = S[u]
      BY <1>8, <1>10, Zenon
    <3>2. R(j) <= v
      BY <1>4, <1>10
    <3>3. t <= u
      BY <1>3, <3>1, <3>2, Zenon
    <3>4. S[t] <= S[u] /\ S[t] \in Nat /\ S[u] \in Nat
      BY <1>6, <1>10, <3>3, Zenon
    <3>. QED
      BY <1>7, <1>12, <3>1, <3>4, SMTT(30)
  <2>2. v \in enough
    BY <1>4, <2>1, Zenon
  <2>3. ASSUME NEW w \in enough PROVE v <= w
    <3>1. PICK i \in 1..n : w = R(i) /\ gas(w) >= H
      BY <2>3, Zenon
    <3>2. w \in Nat
      BY <1>5, <3>1
    <3>3. PICK u \in 0..n : /\ \A m \in 1..n : R(m) <= w <=> Rank(txs, m) <= u
                            /\ gas(w) = S[u]
      BY <1>8, <3>2, Zenon
    <3>4. Rank(txs, i) <= u /\ Rank(txs, i) \in 1..n
      BY <1>11, <3>1, <3>2, <3>3, SMTT(30)
    <3>5. S[u] >= H
      BY <3>1, <3>3
    <3>6. u \notin 1..t - 1
      BY <1>9, <3>5, Zenon
    <3>7. t <= u
      BY <3>4, <3>6, SMTT(30)
    <3>8. R(j) <= w
      BY <1>3, <3>3, <3>7
    <3>. QED
      BY <1>4, <3>8
  <2>. QED
    BY <1>2, <1>4, <2>2, <2>3, Zenon
<1>13. CASE ~(S[t] >= H)
  <2>1. t = n
    BY <1>9, <1>13, Zenon
  <2>2. enough = {}
    <3> SUFFICES ASSUME NEW w \in enough PROVE FALSE
      BY Zenon
    <3>1. PICK i \in 1..n : w = R(i) /\ gas(w) >= H
      BY Zenon
    <3>2. w \in Nat
      BY <1>5, <3>1
    <3>3. PICK u \in 0..n : gas(w) = S[u]
      BY <1>8, <3>2, Zenon
    <3>4. u <= n
      OBVIOUS
    <3>5. S[u] <= S[n] /\ S[u] \in Nat /\ S[n] \in Nat
      BY <1>6, <1>10, <3>4, Zenon
    <3> HIDE DEF enough
    <3>. QED
      BY <1>7, <1>13, <2>1, <3>1, <3>3, <3>5, SMTT(30)
  <2>3. \A i \in 1..n : Rank(txs, i) <= t
    BY <1>11, <2>1
  <2>4. \A i \in 1..n : R(i) <= v
    BY <1>11, <2>3, Zenon
  <2>. QED
    BY <1>2, <1>4, <2>2, <2>4, Zenon
<1>. QED
  BY <1>12, <1>13, Zenon

(* Every reward that eth_feeHistory answers for a block (rewards of        *)
(* gas/fee_history.go) is the percentile that was asked for, for every     *)
(* number of transactions, amount of gas and reward, and every list of     *)
(* percentiles that FeeHistory of rpc/eth/api.go accepts.                  *)
THEOREM RewardsExact == ASSUME sample \in Samples PROVE RewardsArePercentiles
<1> SUFFICES ASSUME NEW ps \in Requests
             PROVE  LET txs == sample.txs
                        gasUsed == SumGas(txs)[Len(txs)] + sample.failedGas
                        answer == Rewards(gasUsed, SortedTxs(txs), ps)
                    IN  \A i \in DOMAIN ps :
                            IF txs = <<>> THEN answer[i] = 0
                            ELSE IsPercentile(answer[i], txs, gasUsed, ps[i])
  BY Zenon DEF RewardsArePercentiles
<1> DEFINE txs == sample.txs
           gasUsed == SumGas(txs)[Len(txs)] + sample.failedGas
           answer == Rewards(gasUsed, SortedTxs(txs), ps)
<1>1. PICK n \in Nat : txs \in [1..n -> Tx]
  <2>1. txs \in SeqOf([gas : Amounts, tip : Amounts, cap : Amounts], MaxTxs)
    BY DEF Samples
  <2>2. PICK n \in 0..MaxTxs : txs \in [1..n -> [gas : Amounts, tip : Amounts, cap : Amounts]]
    BY <2>1, Zenon DEF SeqOf
  <2> HIDE DEF txs
  <2>3. n \in Nat /\ Amounts \subseteq Nat
    BY RewardsAssumption
  <2>4. [gas : Amounts, tip : Amounts, cap : Amounts] \subseteq Tx
    BY <2>3, Zenon DEF Tx
  <2>. QED
    BY <2>2, <2>3, <2>4, Zenon
<1>2. sample.failedGas \in Nat
  <2>1. sample.failedGas \in Amounts \cup {0}
    BY DEF Samples
  <2>2. Amounts \subseteq Nat /\ 0 \in Nat
    BY RewardsAssumption
  <2>. QED
    BY <2>1, <2>2, Zenon
<1>3. PICK k \in Nat : ps \in [1..k -> 0..100] /\ \A i \in 2..k : ps[i - 1] < ps[i]
  <2>1. ps \in SeqOf(Percentiles, MaxQueryLimit + 1) /\ Accepted(ps)
    BY Zenon DEF Requests
  <2>2. PICK k \in 0..MaxQueryLimit + 1 : ps \in [1..k -> Percentiles]
    BY <2>1, Zenon DEF SeqOf
  <2>3. k \in Nat
    BY RewardsAssumption
  <2>4. Len(ps) = k /\ DOMAIN ps = 1..k
    BY <2>2, <2>3
  <2>5. \A i \in 1..k : ps[i] \in 0..100
    BY <2>1, <2>4, Zenon DEF Accepted
  <2>6. \A i \in 2..k : ps[i - 1] < ps[i]
    BY <2>1, <2>4, Zenon DEF Accepted
  <2>7. ps \in [1..k -> 0..100]
    BY <2>2, <2>5, Zenon
  <2>. QED
    BY <2>3, <2>6, <2>7, Zenon
<1> HIDE DEF txs
<1>4. Len(txs) = n /\ DOMAIN txs = 1..n /\ DOMAIN ps = 1..k /\ (txs = <<>> <=> n = 0)
  BY <1>1, <1>3
<1>5. gasUsed \in Nat
  <2> DEFINE g == [i \in 1..n |-> txs[i].gas]
  <2>1. g \in [1..n -> Nat]
    BY <1>1 DEF Tx
  <2>2. SumGas(txs) = Sums(g)
    BY <1>4 DEF SumGas
  <2> HIDE DEF g
  <2>3. Sums(g) \in [0..n -> Nat] /\ n \in 0..n
    BY <2>1, SumsAdd
  <2>4. Sums(g)[n] \in Nat
    BY <2>3, Zenon
  <2>. QED
    BY <1>2, <1>4, <2>2, <2>4, SMTT(30)
<1> HIDE DEF gasUsed
<1>6. ASSUME NEW i \in 1..k
      PROVE  IF txs = <<>> THEN answer[i] = 0 ELSE IsPercentile(answer[i], txs, gasUsed, ps[i])
  <2>1. CASE n = 0
    <3>1. SortedTxs(txs) = <<>>
      <4>1. SortedTxs(txs) \in [1..n -> [gas : Nat, reward : Nat]]
        BY <1>1, SortedPlace, Zenon
      <4> DEFINE s == SortedTxs(txs)
      <4> HIDE DEF s
      <4>2. s \in [1..0 -> [gas : Nat, reward : Nat]]
        BY <2>1, <4>1 DEF s
      <4>3. s = <<>>
        BY <4>2
      <4>. QED
        BY <4>3 DEF s
    <3>2. answer[i] = 0
      BY <1>4, <3>1 DEF Rewards
    <3>. QED
      BY <1>4, <2>1, <3>2, SMTT(30)
  <2>2. CASE n # 0
    <3> DEFINE s == SortedTxs(txs)
    <3>1. s \in [1..n -> [gas : Nat, reward : Nat]]
      BY <1>1, SortedPlace, Zenon
    <3>2. ps \in [1..k -> Int]
      <4>1. 0..100 \subseteq Int /\ ps \in [1..k -> 0..100]
        BY <1>3
      <4>. QED
        BY <4>1, Zenon
    <3>3. PICK x \in [0..k -> 1..n] :
              /\ x[0] = 1
              /\ \A m \in 1..k : Stops(s, n, gasUsed, ps[m], x[m - 1], x[m])
              /\ \A m \in 1..k : answer[m] = s[x[m]].reward
      <4>1. \E x \in [0..k -> 1..n] : Walks(s, n, gasUsed, ps, k, x)
        <5> HIDE DEF s, answer
        <5>. QED
          BY <2>2, <3>1, <3>2, Walk, Zenon
      <4>. QED
        BY <4>1, Zenon DEF Walks
    <3>4. \A t \in 1..n : SumGas(s)[t] \in Nat
      <4> DEFINE g == [m \in 1..n |-> s[m].gas]
      <4> HIDE DEF s
      <4>1. g \in [1..n -> Nat]
        BY <3>1
      <4>2. SumGas(s) = Sums(g)
        BY <3>1, Zenon DEF SumGas
      <4> HIDE DEF g
      <4>3. Sums(g) \in [0..n -> Nat]
        BY <4>1, SumsAdd
      <4>. QED
        BY <4>2, <4>3
    <3>5. \A v \in 1..x[i] - 1 : ~Reaches(s, gasUsed, v, ps[i])
      <4> HIDE DEF s, answer
      <4>. QED
        BY <1>3, <1>5, <3>3, <3>4, NonePassed, Zenon
    <3>6. x[i] \in 1..n /\ ps[i] \in 0..100 /\ (Reaches(s, gasUsed, x[i], ps[i]) \/ x[i] = n)
      <4>1. i \in 0..k
        BY <1>6
      <4> HIDE DEF s, answer
      <4>. QED
        BY <1>3, <3>3, <4>1, Zenon DEF Stops
    <3>7. IsPercentile(s[x[i]].reward, txs, gasUsed, ps[i])
      BY <1>1, <1>5, <3>5, <3>6, FirstToReach, Zenon
    <3>8. answer[i] = s[x[i]].reward
      BY <3>3, Zenon
    <3> HIDE DEF s, answer
    <3>. QED
      BY <1>4, <2>2, <3>7, <3>8
  <2>. QED
    BY <2>1, <2>2, Zenon
<1>. QED
  BY <1>4, <1>6, Zenon DEF txs, gasUsed
=============================================================================
