------------------------- MODULE EventSystemProofs -------------------------
(***************************************************************************)
(* Proofs about the subscriptions: what EventSystem delivers, for any      *)
(* subscriptions, channel size and number of rounds, and that the two      *)
(* implementations of LogFilter agree, for any criteria and logs.          *)
(***************************************************************************)
EXTENDS EventSystem, LogFilter, SequenceTheorems, TLAPS

Ascending(q) == \A i, j \in 1..Len(q) : i < j => q[i] < q[j]

Live(s) == sub[s] \in {"loop", "notify", "unsubscribe"}

(* The rounds at positions f + 1 to n of t that a subscription asks for. *)
Asked(s, t, f, n) == {t[k] : k \in {i \in f + 1 .. n : Wants(s, t[i])}}

(* The loop has still to come to the subscription with the present event.  *)
Waits(s) == s \in pending \/ (loop = "logs" /\ s \in HeadSubs)

Types ==
    /\ stored \in Nat
    /\ chainCh \in Seq(Int) /\ taken \in Seq(Int) /\ got \in [Subs -> Seq(Int)]
    /\ loop \in {"select", "logs", "heads"} /\ event \in Int
    /\ skipped \in [Subs -> Nat]
    /\ sub \in [Subs -> {"off", "subscribe", "loop", "notify", "unsubscribe", "done"}]

(* Rounds enter the channel and leave it in the order of the chain. *)
OrderInv ==
    /\ Ascending(taken) /\ Ascending(chainCh)
    /\ \A i \in 1..Len(taken), j \in 1..Len(chainCh) : taken[i] < chainCh[j]
    /\ \A j \in 1..Len(chainCh) : chainCh[j] <= stored
    /\ \A i \in 1..Len(taken) : taken[i] <= stored

LoopInv ==
    /\ index = {s \in Subs : Live(s)}
    /\ loop # "select" => Len(taken) > 0 /\ event = taken[Len(taken)]
    /\ loop = "select" => pending = {}
    /\ loop = "logs" => pending \subseteq HandleLogs(event)
    /\ loop = "heads" => pending \subseteq HandleChainEvent

SkippedInv ==
    \A s \in index : /\ skipped[s] <= Len(taken)
                     /\ loop # "select" => skipped[s] < Len(taken)

(* What a subscription has received, at every moment of the loop. *)
GotInv ==
    \A s \in Subs :
        /\ sub[s] \in {"off", "subscribe"} => got[s] = <<>>
        /\ sub[s] \in {"loop", "notify"} =>
              /\ Ascending(got[s])
              /\ Range(got[s]) = Asked(s, taken, skipped[s],
                                       IF Waits(s) THEN Len(taken) - 1 ELSE Len(taken))

(* The inductive invariant. *)
EventInv == Types /\ OrderInv /\ LoopInv /\ SkippedInv /\ GotInv

-----------------------------------------------------------------------------
(* Ascending sequences, and what a sequence holds.                         *)

LEMMA Appended ==
    ASSUME NEW q \in Seq(Int), NEW e \in Int, NEW w, w = Append(q, e)
    PROVE  /\ w \in Seq(Int) /\ Len(q) \in Nat /\ Len(w) = Len(q) + 1
           /\ DOMAIN q = 1..Len(q) /\ DOMAIN w = 1..(Len(q) + 1)
           /\ \A i \in 1..Len(q) : w[i] = q[i] /\ q[i] \in Int
           /\ w[Len(q) + 1] = e
<1>1. w \in Seq(Int) /\ Len(w) = Len(q) + 1
  BY AppendProperties
<1>2. \A i \in 1..Len(q) : w[i] = q[i]
  BY AppendProperties
<1>3. w[Len(q) + 1] = e
  BY AppendProperties
<1>4. \A i \in 1..Len(q) : q[i] \in Int
  BY ElementOfSeq
<1>5. Len(q) \in Nat /\ DOMAIN q = 1..Len(q) /\ DOMAIN w = 1..(Len(q) + 1)
  BY <1>1, LenProperties
<1>. QED
  BY <1>1, <1>2, <1>3, <1>4, <1>5, Zenon

LEMMA AppendAscends ==
    ASSUME NEW q \in Seq(Int), NEW e \in Int, NEW w, w = Append(q, e),
           Ascending(q), \A i \in 1..Len(q) : q[i] < e
    PROVE  Ascending(w)
<1>1. /\ Len(q) \in Nat /\ Len(w) = Len(q) + 1
      /\ \A i \in 1..Len(q) : w[i] = q[i] /\ q[i] \in Int
      /\ w[Len(q) + 1] = e
  BY Appended
<1> DEFINE n == Len(q)  m == Len(w)
<1>2. n \in Nat /\ m = n + 1
  BY <1>1
<1>3. /\ \A i \in 1..n : w[i] = q[i] /\ q[i] \in Int /\ q[i] < e
      /\ w[n + 1] = e
      /\ \A i, j \in 1..n : i < j => q[i] < q[j]
  BY <1>1, Zenon DEF Ascending
<1> SUFFICES \A i, j \in 1..m : i < j => w[i] < w[j]
  BY Zenon DEF Ascending
<1> HIDE DEF n, m
<1>. QED
  BY <1>2, <1>3

LEMMA TailAscends ==
    ASSUME NEW q \in Seq(Int), q # <<>>, Ascending(q)
    PROVE  /\ Ascending(Tail(q)) /\ Head(q) = q[1] /\ 1 \in 1..Len(q)
           /\ \A j \in 1..Len(Tail(q)) : Head(q) < Tail(q)[j]
<1>1. /\ Len(q) \in Nat \ {0} /\ Len(Tail(q)) = Len(q) - 1
      /\ \A i \in 1..Len(Tail(q)) : Tail(q)[i] = q[i + 1]
  BY HeadTailProperties, EmptySeq, Zenon
<1>2. Head(q) = q[1]
  BY DEF Head
<1>. QED
  BY <1>1, <1>2 DEF Ascending

LEMMA RangeOfAppend ==
    ASSUME NEW q \in Seq(Int), NEW e \in Int, NEW w, w = Append(q, e)
    PROVE  Range(w) = Range(q) \cup {e}
<1>1. /\ Len(q) \in Nat /\ DOMAIN q = 1..Len(q) /\ DOMAIN w = 1..(Len(q) + 1)
      /\ \A i \in 1..Len(q) : w[i] = q[i]
      /\ w[Len(q) + 1] = e
  BY Appended
<1>2. 1..(Len(q) + 1) = 1..Len(q) \cup {Len(q) + 1}
  BY <1>1
<1>3. DOMAIN w = DOMAIN q \cup {Len(q) + 1} /\ \A i \in DOMAIN q : w[i] = q[i]
  BY <1>1, <1>2, Zenon
<1>4. ASSUME NEW x PROVE x \in Range(w) <=> x \in Range(q) \cup {e}
  BY <1>1, <1>3, Zenon DEF Range
<1>. QED
  BY <1>4, Zenon

(* One more event is no news about the earlier ones. *)
LEMMA AskedOfAppend ==
    ASSUME NEW s, NEW t \in Seq(Int), NEW e \in Int, NEW w, w = Append(t, e), NEW f \in Nat
    PROVE  Asked(s, w, f, Len(t)) = Asked(s, t, f, Len(t))
<1>1. Len(t) \in Nat /\ \A i \in 1..Len(t) : w[i] = t[i]
  BY Appended
<1>2. f + 1 .. Len(t) \subseteq 1..Len(t)
  BY <1>1
<1>3. \A i \in f + 1 .. Len(t) : w[i] = t[i]
  BY <1>1, <1>2, Zenon
<1>. QED
  BY <1>3, Zenon DEF Asked

(* The last event counts if it is asked for. *)
LEMMA AskedOfLast ==
    ASSUME NEW s, NEW t \in Seq(Int), NEW f \in Nat, f < Len(t)
    PROVE  Asked(s, t, f, Len(t)) =
               Asked(s, t, f, Len(t) - 1) \cup
                   (IF Wants(s, t[Len(t)]) THEN {t[Len(t)]} ELSE {})
<1>1. f + 1 .. Len(t) = (f + 1 .. Len(t) - 1) \cup {Len(t)}
  BY LenProperties
<1>. QED
  BY <1>1, Zenon DEF Asked

LEMMA AskedOfNone ==
    ASSUME NEW s, NEW t, NEW n \in Nat PROVE Asked(s, t, n, n) = {}
<1>1. n + 1 .. n = {}
  OBVIOUS
<1>. QED
  BY <1>1, Zenon DEF Asked

-----------------------------------------------------------------------------
(* The indexer offers a round. *)
LEMMA OfferStep == ASSUME EventInv, OfferEvent PROVE EventInv'
<1>1. Types /\ OrderInv
  BY Zenon DEF EventInv
<1>2. /\ stored' = stored + 1
      /\ chainCh' = chainCh \/ chainCh' = Append(chainCh, stored + 1)
      /\ UNCHANGED <<loop, event, pending, index, sub, joined, taken, skipped, got>>
  BY Zenon DEF OfferEvent, history
<1>3. /\ stored \in Nat /\ stored' \in Nat /\ stored' > stored /\ stored + 1 \in Int
      /\ chainCh \in Seq(Int) /\ taken \in Seq(Int)
  BY <1>1, <1>2 DEF Types
<1>4. /\ \A i \in 1..Len(taken) : taken[i] \in Int
      /\ \A i \in 1..Len(chainCh) : chainCh[i] \in Int
      /\ Len(taken) \in Nat /\ Len(chainCh) \in Nat
  BY <1>3, ElementOfSeq, LenProperties, Zenon
<1>5. CASE chainCh' = chainCh
  <2>1. Types'
    BY <1>1, <1>2, <1>3, <1>5, Zenon DEF Types
  <2>2. OrderInv'
    <3>1. \A i \in 1..Len(taken) : taken[i] <= stored'
      BY <1>1, <1>3, <1>4 DEF OrderInv
    <3>2. \A i \in 1..Len(chainCh) : chainCh[i] <= stored'
      BY <1>1, <1>3, <1>4 DEF OrderInv
    <3>. QED
      BY <1>1, <1>2, <1>5, <3>1, <3>2, Zenon DEF OrderInv
  <2>. QED
    BY <1>2, <2>1, <2>2, Zenon DEF EventInv, LoopInv, SkippedInv, GotInv, Waits, Live, HandleLogs,
       HandleChainEvent
<1>6. CASE chainCh' = Append(chainCh, stored + 1)
  <2>1. /\ chainCh' \in Seq(Int) /\ Len(chainCh') = Len(chainCh) + 1
        /\ \A i \in 1..Len(chainCh) : chainCh'[i] = chainCh[i]
        /\ chainCh'[Len(chainCh) + 1] = stored'
    BY <1>2, <1>3, <1>6, Appended
  <2>2. Types'
    BY <1>1, <1>2, <1>3, <2>1, Zenon DEF Types
  <2>3. OrderInv'
    <3>1. Ascending(chainCh')
      <4>1. \A i \in 1..Len(chainCh) : chainCh[i] < stored + 1
        BY <1>1, <1>3, <1>4 DEF OrderInv
      <4>. QED
        BY <1>1, <1>3, <1>6, <4>1, AppendAscends, Zenon DEF OrderInv
    <3>2. \A i \in 1..Len(taken) : taken[i] <= stored'
      BY <1>1, <1>3, <1>4 DEF OrderInv
    <3>3. ASSUME NEW j \in 1..Len(chainCh')
          PROVE  chainCh'[j] <= stored' /\ \A i \in 1..Len(taken) : taken[i] < chainCh'[j]
      <4>1. CASE j = Len(chainCh) + 1
        BY <1>1, <1>2, <1>3, <1>4, <2>1, <4>1 DEF OrderInv
      <4>2. CASE j # Len(chainCh) + 1
        <5>1. j \in 1..Len(chainCh)
          BY <1>4, <2>1, <4>2
        <5>2. chainCh'[j] = chainCh[j] /\ chainCh[j] <= stored
          BY <1>1, <2>1, <5>1, Zenon DEF OrderInv
        <5>. QED
          BY <1>1, <1>3, <1>4, <5>1, <5>2 DEF OrderInv
      <4>. QED
        BY <4>1, <4>2
    <3>. QED
      BY <1>1, <1>2, <3>1, <3>2, <3>3, Zenon DEF OrderInv
  <2>. QED
    BY <1>2, <2>2, <2>3, Zenon DEF EventInv, LoopInv, SkippedInv, GotInv, Waits, Live, HandleLogs,
       HandleChainEvent
<1>. QED
  BY <1>2, <1>5, <1>6, Zenon

(* The event loop takes a round from the channel. *)
LEMMA TakeStep == ASSUME EventInv, TakeEvent PROVE EventInv'
<1> DEFINE r == Head(chainCh)
<1>1. Types /\ OrderInv /\ LoopInv /\ SkippedInv /\ GotInv
  BY Zenon DEF EventInv
<1>2. /\ loop = "select" /\ loop' = "logs" /\ chainCh # <<>>
      /\ event' = r /\ chainCh' = Tail(chainCh) /\ taken' = Append(taken, r)
      /\ pending' = HandleLogs(r)
      /\ UNCHANGED <<stored, index, sub, skipped, got>>
  BY Zenon DEF TakeEvent
<1>3. chainCh \in Seq(Int) /\ taken \in Seq(Int) /\ skipped \in [Subs -> Nat]
  BY <1>1, Zenon DEF Types
<1>4. /\ r \in Int /\ chainCh' \in Seq(Int) /\ Len(chainCh') = Len(chainCh) - 1
      /\ \A j \in 1..Len(chainCh') : chainCh'[j] = chainCh[j + 1]
      /\ Len(chainCh) \in Nat
  BY <1>2, <1>3, HeadTailProperties, LenProperties
<1>5. /\ taken' \in Seq(Int) /\ Len(taken) \in Nat /\ Len(taken') = Len(taken) + 1
      /\ \A i \in 1..Len(taken) : taken'[i] = taken[i] /\ taken[i] \in Int
      /\ taken'[Len(taken) + 1] = r
  BY <1>2, <1>3, <1>4, Appended
<1>6. /\ Ascending(chainCh') /\ r = chainCh[1] /\ 1 \in 1..Len(chainCh)
      /\ \A j \in 1..Len(chainCh') : r < chainCh'[j]
  BY <1>1, <1>2, <1>3, TailAscends DEF OrderInv
<1> HIDE DEF r
<1>7. Types'
  BY <1>1, <1>2, <1>4, <1>5, Zenon DEF Types
<1>8. OrderInv'
  <2>1. \A i \in 1..Len(taken) : taken[i] < r /\ taken[i] <= stored
    BY <1>1, <1>6, Zenon DEF OrderInv
  <2>2. Ascending(taken')
    BY <1>1, <1>2, <1>3, <1>4, <2>1, AppendAscends, Zenon DEF OrderInv
  <2>3. \A i \in 1..Len(taken') : i \in 1..Len(taken) \/ i = Len(taken) + 1
    BY <1>5
  <2>4. r <= stored
    BY <1>1, <1>6, Zenon DEF OrderInv
  <2>5. \A i \in 1..Len(taken') : taken'[i] <= stored
    BY <1>5, <2>1, <2>3, <2>4, Zenon
  <2>6. ASSUME NEW j \in 1..Len(chainCh')
        PROVE  j + 1 \in 1..Len(chainCh) /\ chainCh'[j] = chainCh[j + 1]
    BY <1>4
  <2>7. \A j \in 1..Len(chainCh') : chainCh'[j] <= stored
    BY <1>1, <2>6, Zenon DEF OrderInv
  <2>8. \A i \in 1..Len(taken), j \in 1..Len(chainCh') : taken[i] < chainCh'[j]
    BY <1>1, <2>6, Zenon DEF OrderInv
  <2>9. \A i \in 1..Len(taken'), j \in 1..Len(chainCh') : taken'[i] < chainCh'[j]
    BY <1>5, <1>6, <2>3, <2>8, Zenon
  <2>. QED
    BY <1>2, <1>6, <2>2, <2>5, <2>7, <2>9, Zenon DEF OrderInv
<1>9. LoopInv'
  <2>1. Len(taken') > 0 /\ event' = taken'[Len(taken')]
    BY <1>2, <1>5
  <2>. QED
    BY <1>1, <1>2, <2>1, Zenon DEF LoopInv, Live, HandleLogs
<1>10. index \subseteq Subs
  BY <1>1, Zenon DEF LoopInv
<1>11. SkippedInv'
  <2>1. ASSUME NEW s \in index PROVE skipped[s] <= Len(taken') /\ skipped[s] < Len(taken')
    <3>1. skipped[s] \in Nat /\ skipped[s] <= Len(taken)
      BY <1>1, <1>3, <1>10, Zenon DEF SkippedInv
    <3>. QED
      BY <1>5, <3>1
  <2>. QED
    BY <1>2, <2>1, Zenon DEF SkippedInv
<1>12. GotInv'
  <2>1. ASSUME NEW s \in Subs, sub[s] \in {"loop", "notify"}
        PROVE  Range(got[s]) = Asked(s, taken', skipped[s],
                                     IF Waits(s)' THEN Len(taken') - 1 ELSE Len(taken'))
    <3>1. s \in index /\ skipped[s] \in Nat /\ skipped[s] <= Len(taken)
      BY <1>1, <1>3, <2>1, Zenon DEF LoopInv, Live, SkippedInv
    <3>2. Range(got[s]) = Asked(s, taken, skipped[s], Len(taken))
      BY <1>1, <1>2, <2>1, Zenon DEF GotInv, Waits, LoopInv
    <3>3. Asked(s, taken', skipped[s], Len(taken)) = Asked(s, taken, skipped[s], Len(taken))
      BY <1>2, <1>3, <1>4, <3>1, AskedOfAppend, Zenon
    <3>4. Len(taken') - 1 = Len(taken) /\ skipped[s] < Len(taken')
      BY <1>5, <3>1
    <3>5. CASE Waits(s)'
      BY <3>2, <3>3, <3>4, <3>5, Zenon
    <3>6. CASE ~Waits(s)'
      <4>1. ~Wants(s, r)
        BY <1>2, <2>1, <3>1, <3>6, Zenon DEF Waits, HandleLogs, Wants, Subs
      <4>2. taken'[Len(taken')] = r
        BY <1>5
      <4>3. Asked(s, taken', skipped[s], Len(taken')) = Asked(s, taken', skipped[s], Len(taken') - 1)
        <5>1. Asked(s, taken', skipped[s], Len(taken')) =
                  Asked(s, taken', skipped[s], Len(taken') - 1) \cup
                      (IF Wants(s, taken'[Len(taken')]) THEN {taken'[Len(taken')]} ELSE {})
          BY <1>5, <3>1, <3>4, AskedOfLast, Zenon
        <5>. QED
          BY <4>1, <4>2, <5>1, Zenon
      <4>. QED
        BY <3>2, <3>3, <3>4, <3>6, <4>3, Zenon
    <3>. QED
      BY <3>5, <3>6, Zenon
  <2>. QED
    BY <1>1, <1>2, <2>1, Zenon DEF GotInv
<1>. QED
  BY <1>7, <1>8, <1>9, <1>11, <1>12, Zenon DEF EventInv

(* The event loop sends the round to a subscription. *)
LEMMA SendStep == ASSUME EventInv, NEW s \in Subs, Send(s) PROVE EventInv'
<1>1. Types /\ OrderInv /\ LoopInv /\ SkippedInv /\ GotInv
  BY Zenon DEF EventInv
<1>2. /\ s \in pending /\ pending' = pending \ {s}
      /\ UNCHANGED <<stored, chainCh, loop, event, index, joined, taken, skipped>>
  BY Zenon DEF Send
<1>3. \/ sub[s] = "unsubscribe" /\ UNCHANGED <<sub, got>>
      \/ /\ sub[s] = "loop" /\ sub' = [sub EXCEPT ![s] = "notify"]
         /\ got' = [got EXCEPT ![s] = Append(@, event)]
  BY Zenon DEF Send, Goes
<1>4. /\ loop # "select" /\ s \in index /\ event = taken[Len(taken)] /\ Len(taken) > 0
      /\ skipped[s] < Len(taken)
      /\ Wants(s, event) /\ (loop = "logs" => s \notin HeadSubs)
  <2>1. /\ loop # "select" /\ event = taken[Len(taken)] /\ Len(taken) > 0
        /\ \/ loop = "logs" /\ s \in HandleLogs(event)
           \/ loop = "heads" /\ s \in HandleChainEvent
    BY <1>1, <1>2, Zenon DEF LoopInv, Types
  <2>2. s \in index /\ Wants(s, event) /\ (loop = "logs" => s \notin HeadSubs)
    BY <2>1, SubsAssumption, Zenon DEF HandleLogs, HandleChainEvent, Wants
  <2>. QED
    BY <1>1, <2>1, <2>2, Zenon DEF SkippedInv
<1>5. /\ taken \in Seq(Int) /\ Len(taken) \in Nat /\ event \in Int /\ skipped[s] \in Nat
      /\ got[s] \in Seq(Int)
      /\ \A i \in 1..Len(taken) : taken[i] \in Int
  <2>1. /\ taken \in Seq(Int) /\ event \in Int /\ skipped[s] \in Nat /\ got[s] \in Seq(Int)
    BY <1>1, Zenon DEF Types
  <2>. QED
    BY <2>1, LenProperties, ElementOfSeq
<1>6. CASE sub[s] = "unsubscribe" /\ UNCHANGED <<sub, got>>
  <2>1. \A t \in Subs : sub[t] \in {"loop", "notify"} => t # s
    BY <1>6, Zenon
  <2>2. \A t \in Subs : t # s => (Waits(t)' <=> Waits(t))
    BY <1>2, Zenon DEF Waits
  <2>3. GotInv'
    BY <1>1, <1>2, <1>6, <2>1, <2>2, Zenon DEF GotInv
  <2>4. LoopInv'
    BY <1>1, <1>2, <1>4, <1>6, Zenon DEF LoopInv, Live, HandleLogs, HandleChainEvent
  <2>. QED
    BY <1>1, <1>2, <1>6, <2>3, <2>4, Zenon DEF EventInv, Types, OrderInv, SkippedInv
<1>7. CASE /\ sub[s] = "loop" /\ sub' = [sub EXCEPT ![s] = "notify"]
           /\ got' = [got EXCEPT ![s] = Append(@, event)]
  <2>1. /\ sub'[s] = "notify" /\ got'[s] = Append(got[s], event)
        /\ \A t \in Subs \ {s} : sub'[t] = sub[t] /\ got'[t] = got[t]
    BY <1>1, <1>7, Zenon DEF Types
  <2>2. got'[s] \in Seq(Int)
    BY <1>5, <2>1, Appended
  <2>3. Types'
    BY <1>1, <1>2, <1>7, <2>1, <2>2, Zenon DEF Types
  <2>4. \A t \in Subs : Live(t)' <=> Live(t)
    BY <1>7, <2>1, Zenon DEF Live
  <2>5. LoopInv'
    BY <1>1, <1>2, <1>4, <2>4, Zenon DEF LoopInv, HandleLogs, HandleChainEvent
  <2>6. /\ Ascending(got[s])
        /\ Range(got[s]) = Asked(s, taken, skipped[s], Len(taken) - 1)
    BY <1>1, <1>2, <1>7, Zenon DEF GotInv, Waits
  <2>7. ~Waits(s)'
    BY <1>2, <1>4, Zenon DEF Waits
  <2>8. Range(got'[s]) = Asked(s, taken, skipped[s], Len(taken))
    <3>1. Range(got'[s]) = Range(got[s]) \cup {event}
      BY <1>5, <2>1, RangeOfAppend, Zenon
    <3>2. Asked(s, taken, skipped[s], Len(taken)) =
             Asked(s, taken, skipped[s], Len(taken) - 1) \cup {event}
      BY <1>4, <1>5, AskedOfLast
    <3>. QED
      BY <2>6, <3>1, <3>2, Zenon
  <2>9. Ascending(got'[s])
    <3>1. ASSUME NEW i \in 1..Len(got[s]) PROVE got[s][i] < event
      <4>1. got[s][i] \in Asked(s, taken, skipped[s], Len(taken) - 1)
        <5>1. DOMAIN got[s] = 1..Len(got[s])
          BY <1>5, LenProperties
        <5>. QED
          BY <2>6, <5>1, Zenon DEF Range
      <4>2. PICK k \in skipped[s] + 1 .. Len(taken) - 1 : got[s][i] = taken[k]
        BY <4>1, Zenon DEF Asked
      <4>3. k \in 1..Len(taken) /\ Len(taken) \in 1..Len(taken) /\ k < Len(taken)
        BY <1>4, <1>5, <4>2, SMTT(30)
      <4>. QED
        BY <1>1, <1>4, <4>2, <4>3, Zenon DEF OrderInv, Ascending
    <3>. QED
      BY <1>5, <2>1, <2>6, <3>1, AppendAscends, Zenon
  <2>10. \A t \in Subs : t # s => (Waits(t)' <=> Waits(t))
    BY <1>2, Zenon DEF Waits
  <2>11. GotInv'
    <3> SUFFICES ASSUME NEW t \in Subs
                 PROVE  /\ sub'[t] \in {"off", "subscribe"} => got'[t] = <<>>
                        /\ sub'[t] \in {"loop", "notify"} =>
                              /\ Ascending(got'[t])
                              /\ Range(got'[t]) = Asked(t, taken', skipped'[t],
                                     IF Waits(t)' THEN Len(taken') - 1 ELSE Len(taken'))
      BY Zenon DEF GotInv
    <3>1. CASE t = s
      BY <1>2, <2>1, <2>7, <2>8, <2>9, <3>1, Zenon
    <3>2. CASE t # s
      BY <1>1, <1>2, <2>1, <2>10, <3>2, Zenon DEF GotInv
    <3>. QED
      BY <3>1, <3>2, Zenon
  <2>. QED
    BY <1>1, <1>2, <2>3, <2>5, <2>11, Zenon DEF EventInv, OrderInv, SkippedInv
<1>. QED
  BY <1>3, <1>6, <1>7, Zenon

(* The loop turns from the log subscriptions to the heads, and from there  *)
(* back to its select.                                                     *)
LEMMA SentAllStep == ASSUME EventInv, SentAll PROVE EventInv'
<1>1. Types /\ OrderInv /\ LoopInv /\ SkippedInv /\ GotInv
  BY Zenon DEF EventInv
<1>2. /\ loop # "select" /\ pending = {}
      /\ \/ loop = "logs" /\ loop' = "heads" /\ pending' = HandleChainEvent
         \/ loop = "heads" /\ loop' = "select" /\ pending' = {}
      /\ UNCHANGED <<stored, chainCh, event, index, sub, joined, taken, skipped, got>>
  BY Zenon DEF SentAll, history
<1>3. \A s \in Subs : sub[s] \in {"loop", "notify"} => (Waits(s)' <=> Waits(s))
  BY <1>1, <1>2, Zenon DEF Waits, HandleChainEvent, LoopInv, Live
<1>4. GotInv'
  BY <1>1, <1>2, <1>3, Zenon DEF GotInv
<1>5. LoopInv'
  BY <1>1, <1>2, Zenon DEF LoopInv, Live, HandleChainEvent
<1>. QED
  BY <1>1, <1>2, <1>4, <1>5, Zenon DEF EventInv, Types, OrderInv, SkippedInv

(* A goroutine moves, and the loop removes it from the index if it ends.   *)
LEMMA GoesStep ==
    ASSUME EventInv, NEW s \in Subs, NEW pc, Goes(s, pc),
           pc \in {"subscribe", "loop", "unsubscribe", "done"},
           pc = "subscribe" => sub[s] = "off",
           pc = "loop" => sub[s] = "notify",
           pc = "unsubscribe" => sub[s] = "loop",
           pc = "done" => loop = "select",
           index' = IF pc = "done" THEN index \ {s} ELSE index,
           UNCHANGED <<stored, chainCh, loop, event, pending, taken, skipped, got>>
    PROVE  EventInv'
<1>1. Types /\ OrderInv /\ LoopInv /\ SkippedInv /\ GotInv
  BY Zenon DEF EventInv
<1>2. sub'[s] = pc /\ \A t \in Subs \ {s} : sub'[t] = sub[t]
  BY <1>1, Zenon DEF Types, Goes
<1>3. Types'
  BY <1>1, Zenon DEF Types, Goes
<1>4. index' = {t \in Subs : Live(t)'}
  <2>1. \A t \in Subs \ {s} : Live(t)' <=> Live(t)
    BY <1>2, Zenon DEF Live
  <2>2. /\ pc = "done" => ~Live(s)'
        /\ pc # "done" => (Live(s)' <=> Live(s))
    BY <1>2, Zenon DEF Live
  <2>. QED
    BY <1>1, <2>1, <2>2, Zenon DEF LoopInv
<1>5. LoopInv'
  <2>1. CASE pc = "done"
    BY <1>1, <1>4, <2>1, Zenon DEF LoopInv
  <2>2. CASE pc # "done"
    BY <1>1, <1>4, <2>2, Zenon DEF LoopInv, HandleLogs, HandleChainEvent
  <2>. QED
    BY <2>1, <2>2, Zenon
<1>6. SkippedInv'
  BY <1>1, Zenon DEF SkippedInv
<1>7. GotInv'
  <2>1. \A t : Waits(t)' <=> Waits(t)
    BY Zenon DEF Waits
  <2> SUFFICES ASSUME NEW t \in Subs
               PROVE  /\ sub'[t] \in {"off", "subscribe"} => got'[t] = <<>>
                      /\ sub'[t] \in {"loop", "notify"} =>
                            /\ Ascending(got'[t])
                            /\ Range(got'[t]) = Asked(t, taken', skipped'[t],
                                   IF Waits(t)' THEN Len(taken') - 1 ELSE Len(taken'))
    BY Zenon DEF GotInv
  <2>2. CASE t # s
    BY <1>1, <1>2, <2>1, <2>2, Zenon DEF GotInv
  <2>3. CASE t = s
    BY <1>1, <1>2, <2>1, <2>3, Zenon DEF GotInv
  <2>. QED
    BY <2>2, <2>3, Zenon
<1>. QED
  BY <1>1, <1>3, <1>5, <1>6, <1>7, Zenon DEF EventInv, OrderInv

(* A subscription is installed between two events. *)
LEMMA InstallStep == ASSUME EventInv, NEW s \in Subs, Install(s) PROVE EventInv'
<1>1. Types /\ OrderInv /\ LoopInv /\ SkippedInv /\ GotInv
  BY Zenon DEF EventInv
<1>2. /\ loop = "select" /\ sub[s] = "subscribe" /\ index' = index \cup {s}
      /\ sub' = [sub EXCEPT ![s] = "loop"] /\ skipped' = [skipped EXCEPT ![s] = Len(taken)]
      /\ UNCHANGED <<stored, chainCh, loop, event, pending, taken, got>>
  BY Zenon DEF Install, Goes
<1>3. taken \in Seq(Int) /\ Len(taken) \in Nat
  BY <1>1, LenProperties DEF Types
<1>4. /\ sub'[s] = "loop" /\ skipped'[s] = Len(taken)
      /\ \A t \in Subs \ {s} : sub'[t] = sub[t] /\ skipped'[t] = skipped[t]
  BY <1>1, <1>2, Zenon DEF Types
<1>5. Types'
  BY <1>1, <1>2, <1>3, Zenon DEF Types
<1>6. LoopInv'
  <2>1. \A t \in Subs \ {s} : Live(t)' <=> Live(t)
    BY <1>4, Zenon DEF Live
  <2>2. Live(s)'
    BY <1>4, Zenon DEF Live
  <2>3. index' = {t \in Subs : Live(t)'}
    BY <1>1, <1>2, <2>1, <2>2, Zenon DEF LoopInv
  <2>. QED
    BY <1>1, <1>2, <2>3, Zenon DEF LoopInv
<1>7. SkippedInv'
  <2>1. skipped'[s] <= Len(taken)
    BY <1>3, <1>4
  <2>2. index \subseteq Subs
    BY <1>1, Zenon DEF LoopInv
  <2>. QED
    BY <1>1, <1>2, <1>4, <2>1, <2>2, Zenon DEF SkippedInv
<1>8. GotInv'
  <2>1. \A t : Waits(t)' <=> Waits(t)
    BY <1>2, Zenon DEF Waits
  <2>2. ~Waits(s)
    BY <1>1, <1>2, Zenon DEF Waits, LoopInv
  <2>3. got[s] = <<>>
    BY <1>1, <1>2, Zenon DEF GotInv
  <2>4. Ascending(got[s]) /\ Range(got[s]) = {}
    BY <2>3 DEF Ascending, Range
  <2>5. Asked(s, taken, Len(taken), Len(taken)) = {}
    BY <1>3, AskedOfNone, Zenon
  <2> SUFFICES ASSUME NEW t \in Subs
               PROVE  /\ sub'[t] \in {"off", "subscribe"} => got'[t] = <<>>
                      /\ sub'[t] \in {"loop", "notify"} =>
                            /\ Ascending(got'[t])
                            /\ Range(got'[t]) = Asked(t, taken', skipped'[t],
                                   IF Waits(t)' THEN Len(taken') - 1 ELSE Len(taken'))
    BY Zenon DEF GotInv
  <2>6. CASE t # s
    BY <1>1, <1>2, <1>4, <2>1, <2>6, Zenon DEF GotInv
  <2>7. CASE t = s
    BY <1>2, <1>4, <2>1, <2>2, <2>3, <2>4, <2>5, <2>7, Zenon
  <2>. QED
    BY <2>6, <2>7, Zenon
<1>. QED
  BY <1>1, <1>2, <1>5, <1>6, <1>7, <1>8, Zenon DEF EventInv, OrderInv

LEMMA EventStep == EventInv /\ [Next]_vars => EventInv'
<1> SUFFICES ASSUME EventInv, [Next]_vars PROVE EventInv'
  OBVIOUS
<1>1. CASE OfferEvent \/ TakeEvent \/ SentAll
  BY <1>1, OfferStep, TakeStep, SentAllStep, Zenon
<1>2. ASSUME NEW s \in Subs, Send(s) \/ Install(s) PROVE EventInv'
  BY <1>2, SendStep, InstallStep, Zenon
<1>3. ASSUME NEW s \in Subs, Uninstall(s) PROVE EventInv'
  BY <1>3, GoesStep, Zenon DEF Uninstall, history
<1>4. ASSUME NEW s \in Subs, Subscribe(s) PROVE EventInv'
  BY <1>4, GoesStep, Zenon DEF Subscribe, history
<1>5. ASSUME NEW s \in Subs, Notified(s) PROVE EventInv'
  BY <1>5, GoesStep, Zenon DEF Notified, history
<1>6. ASSUME NEW s \in Subs, Unsubscribe(s) PROVE EventInv'
  BY <1>6, GoesStep, Zenon DEF Unsubscribe, history
<1>7. CASE UNCHANGED vars
  BY <1>7, Zenon DEF vars, EventInv, Types, OrderInv, LoopInv, SkippedInv, GotInv, Waits, Live,
     HandleLogs, HandleChainEvent
<1>. QED
  BY <1>1, <1>2, <1>3, <1>4, <1>5, <1>6, <1>7, Zenon DEF Next, EventLoop

LEMMA EventInit == Init => EventInv
<1> SUFFICES ASSUME Init PROVE EventInv
  OBVIOUS
<1>1. <<>> \in Seq(Int) /\ Len(<<>>) = 0
  BY EmptySeq, Zenon
<1>2. Types
  BY <1>1 DEF Init, Types
<1>3. OrderInv
  BY <1>1 DEF Init, OrderInv, Ascending
<1>4. \A s \in Subs : sub[s] = "off" /\ got[s] = <<>>
  BY Zenon DEF Init
<1>5. index = {} /\ pending = {} /\ loop = "select" /\ {s \in Subs : Live(s)} = {}
  BY <1>4, Zenon DEF Init, Live
<1>6. LoopInv /\ SkippedInv
  BY <1>5, Zenon DEF LoopInv, SkippedInv
<1>7. GotInv
  BY <1>4, Zenon DEF GotInv
<1>. QED
  BY <1>2, <1>3, <1>6, <1>7, Zenon DEF EventInv

(* A live subscription has received exactly the rounds that the event loop *)
(* took since the subscription was installed and that it asked for, each   *)
(* once and in the order of the chain: the sends of the loop to            *)
(* goroutines that notify a client or unsubscribe meanwhile lose and       *)
(* repeat nothing.                                                         *)
THEOREM Delivery == Spec => []ReceivesWhatIsTaken
<1>1. EventInv => ReceivesWhatIsTaken
  <2> SUFFICES ASSUME EventInv, NEW s \in index, loop = "select", sub[s] # "unsubscribe"
               PROVE  /\ \A i, j \in DOMAIN got[s] : i < j => got[s][i] < got[s][j]
                      /\ Range(got[s]) = Asked(s, taken, skipped[s], Len(taken))
    BY Zenon DEF ReceivesWhatIsTaken, Range, Asked
  <2>1. s \in Subs /\ sub[s] \in {"loop", "notify"} /\ ~Waits(s)
    BY Zenon DEF EventInv, LoopInv, Live, Waits
  <2>2. got[s] \in Seq(Int)
    BY <2>1, Zenon DEF EventInv, Types
  <2>3. DOMAIN got[s] = 1..Len(got[s])
    BY <2>2, LenProperties
  <2>. QED
    BY <2>1, <2>3, Zenon DEF EventInv, GotInv, Ascending
<1>. QED
  BY <1>1, EventInit, EventStep, PTL DEF Spec

(* The goroutines that read the channels which the event loop writes to. *)
SendsAreRead == index = {s \in Subs : Live(s)} /\ pending \subseteq index

(* The event loop never waits for a reader that is gone: a subscription is *)
(* in the index exactly while its goroutine reads its channel, and a round *)
(* is only sent to subscriptions in the index, although they leave while   *)
(* the loop is in the middle of an event.  This is why Unsubscribe and the *)
(* event loop cannot block each other for ever.                            *)
THEOREM ReadersLive == Spec => []SendsAreRead
<1>1. EventInv => SendsAreRead
  <2> SUFFICES ASSUME EventInv PROVE pending \subseteq index
    BY Zenon DEF SendsAreRead, EventInv, LoopInv
  <2>1. CASE loop = "select"
    BY <2>1, Zenon DEF EventInv, LoopInv
  <2>2. CASE loop = "logs"
    BY <2>2, Zenon DEF EventInv, LoopInv, HandleLogs
  <2>3. CASE loop = "heads"
    BY <2>3, Zenon DEF EventInv, LoopInv, HandleChainEvent
  <2>. QED
    BY <2>1, <2>2, <2>3, Zenon DEF EventInv, Types
<1>. QED
  BY <1>1, EventInit, EventStep, PTL DEF Spec
-----------------------------------------------------------------------------
(* A log of a round passes the bounds of getStartEndRounds, with that      *)
(* round as the tip, exactly when it passes the bounds of filterLogs, for  *)
(* the bounds that SubscribeLogs accepts.                                  *)
LEMMA BoundsAgree ==
    ASSUME NEW c \in Criteria, SubscribeLogs(c), GetLogsMaxRounds = 0, NEW r \in FilterRounds
    PROVE  /\ RangeAccepted(StartRound(c, 1, r), EndRound(c, r))
           /\ r \in StartRound(c, 1, r)..EndRound(c, r)
           <=> (Below0(c.from) \/ c.from <= r) /\ (Below0(c.to) \/ c.to >= r)
<1>1. r \in Nat \ {0} /\ c.from \in Bounds /\ c.to \in Bounds
  BY FilterAssumption DEF Criteria
<1>2. /\ c.from \in Nat \ {0} \/ c.from \in {Nil, Latest, Other}
      /\ c.to \in Nat \ {0} \/ c.to \in {Nil, Latest, Other}
  BY <1>1, FilterAssumption, Zenon DEF Bounds
<1>. QED
  BY <1>1, <1>2 DEF SubscribeLogs, RangeAccepted, StartRound, EndRound, RoundOf, Below0,
     Nil, Latest, Other

(* With no limit on the range (GetLogsMaxRounds of the configuration is    *)
(* 0), eth_getLogs and eth_subscribe give the same logs of a block for     *)
(* every filter that both accept, whatever its bounds, addresses and       *)
(* topics.                                                                 *)
THEOREM SameFilter ==
    ASSUME criteria \in Criteria, GetLogsMaxRounds = 0 PROVE FiltersAgree
<1> SUFFICES ASSUME SubscribeLogs(criteria), NEW r \in FilterRounds, NEW l \in Log, l.round = r
             PROVE  l \in filterLogs(criteria, {x \in Log : x.round = r}) <=>
                    l \in GetLogs(criteria, {x \in Log : x.round <= r}, 1, r, r)
  BY Zenon DEF FiltersAgree, filterLogs
<1>1. /\ RangeAccepted(StartRound(criteria, 1, r), EndRound(criteria, r))
      /\ r \in StartRound(criteria, 1, r)..EndRound(criteria, r)
      <=> /\ Below0(criteria.from) \/ criteria.from <= r
          /\ Below0(criteria.to) \/ criteria.to >= r
  BY BoundsAgree, Zenon
<1>2. l.round <= r
  BY FilterAssumption
<1>. QED
  BY <1>1, <1>2, Zenon DEF filterLogs, GetLogs, TopicsMatch
=============================================================================
