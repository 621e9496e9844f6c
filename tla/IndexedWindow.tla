--------------------------- MODULE IndexedWindow ---------------------------
(***************************************************************************)
(* What the indexed database promises to its readers, without saying how   *)
(* the gateway keeps the promise: it holds a set of indexed rounds and a   *)
(* tip.  A new round is always newer than the tip, and data is only ever   *)
(* dropped from the old end, never the tip itself.                         *)
(***************************************************************************)
EXTENDS Integers

CONSTANT Rounds         \* the rounds that exist

VARIABLES
    stored,             \* rounds whose block row is in the database
    tip                 \* the newest indexed round, -1 when there is none

windowVars == <<stored, tip>>

Init ==
    /\ stored = {}
    /\ tip = -1

(* A round above the tip is stored and becomes the tip. *)
Extend(r) ==
    /\ r > tip
    /\ stored' = stored \cup {r}
    /\ tip' = r

(* Everything older than k is dropped; the tip stays. *)
DropBelow(k) ==
    /\ k <= tip
    /\ stored' = {r \in stored : r >= k}
    /\ UNCHANGED tip

Next ==
    \/ \E r \in Rounds : Extend(r)
    \/ \E k \in Rounds : DropBelow(k)

Spec == Init /\ [][Next]_windowVars
=============================================================================
