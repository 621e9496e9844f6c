---------------------------- MODULE EventSystem ----------------------------
(***************************************************************************)
(* The event system behind eth_subscribe: the indexer that offers every    *)
(* stored block to a bounded channel (the end of StoreBlockData,           *)
(* indexer/utils.go), the event loop that installs, removes and serves     *)
(* subscriptions (filters/event_system.go), and the goroutine of each      *)
(* subscription (rpc/eth/filters/api.go).                                  *)
(*                                                                         *)
(* The channels of subscriptions are unbuffered: a send is one step of the *)
(* event loop and of the goroutine that receives.  A block is its round;   *)
(* what a log filter matches is given by Matches.  Nothing closes the      *)
(* event loop's chain subscription, so the loop does not end.              *)
(***************************************************************************)
EXTENDS Integers, Sequences

CONSTANTS
    MaxRound,           \* bound: rounds 1..MaxRound are indexed
    chainEvChanSize,    \* the size of the channel of chain events
    HeadSubs,           \* subscriptions to new heads
    LogSubs,            \* subscriptions to logs
    Matches             \* the rounds with logs for each log subscription

Rounds == 1..MaxRound
Subs == HeadSubs \cup LogSubs

ASSUME RoundAssumption == MaxRound \in Nat
ASSUME SizeAssumption == chainEvChanSize \in Nat
ASSUME SubsAssumption == HeadSubs \cap LogSubs = {}
ASSUME MatchesAssumption == Matches \in [LogSubs -> SUBSET Rounds]

VARIABLES
    stored,     \* the last round that was indexed
    chainCh,    \* the channel of chain events
    loop,       \* where the event loop is
    event,      \* the round it is serving
    pending,    \* subscriptions it has still to send that round to
    index,      \* installed subscriptions
    sub,        \* where the goroutine of each subscription is
    joined,     \* history: the last round stored when it was installed
    taken,      \* history: the rounds the event loop has taken
    skipped,    \* history: how many of them when it was installed
    got         \* history: the rounds it has received

history == <<joined, taken, skipped, got>>
vars == <<stored, chainCh, loop, event, pending, index, sub, joined, taken, skipped, got>>

Init ==
    /\ stored = 0
    /\ chainCh = <<>>
    /\ loop = "select" /\ event = 0 /\ pending = {}
    /\ index = {}
    /\ sub = [s \in Subs |-> "off"]
    /\ joined = [s \in Subs |-> 0]
    /\ taken = <<>>
    /\ skipped = [s \in Subs |-> 0]
    /\ got = [s \in Subs |-> <<>>]

Goes(s, pc) == sub' = [sub EXCEPT ![s] = pc]

-----------------------------------------------------------------------------
(* StoreBlockData, after its transaction: the event is dropped when the    *)
(* channel is full.                                                        *)
OfferEvent ==
    /\ stored < MaxRound
    /\ stored' = stored + 1
    /\ chainCh' = IF Len(chainCh) < chainEvChanSize
                  THEN Append(chainCh, stored + 1)
                  ELSE chainCh
    /\ UNCHANGED <<loop, event, pending, index, sub, history>>

-----------------------------------------------------------------------------
(* eventLoop. *)

(* Who is sent a round, logs first, heads afterwards. *)
HandleLogs(r) == {s \in index \cap LogSubs : r \in Matches[s]}
HandleChainEvent == index \cap HeadSubs

TakeEvent ==
    /\ loop = "select"
    /\ chainCh # <<>>
    /\ event' = Head(chainCh)
    /\ chainCh' = Tail(chainCh)
    /\ taken' = Append(taken, Head(chainCh))
    /\ pending' = HandleLogs(Head(chainCh))
    /\ loop' = "logs"
    /\ UNCHANGED <<stored, index, sub, joined, skipped, got>>

(* Mutant: the goroutine does not drain its channel while it unsubscribes. *)
SendNoDrain(s) ==
    /\ s \in pending
    /\ sub[s] = "loop"
    /\ Goes(s, "notify") /\ got' = [got EXCEPT ![s] = Append(@, event)]
    /\ pending' = pending \ {s}
    /\ UNCHANGED <<stored, chainCh, loop, event, index, joined, taken, skipped>>

(* The range over the subscriptions is in no particular order.  The        *)
(* goroutine is in its loop, or in Unsubscribe, where it drops what it     *)
(* receives.                                                               *)
Send(s) ==
    /\ s \in pending
    /\ \/ /\ sub[s] = "loop"
          /\ Goes(s, "notify") /\ got' = [got EXCEPT ![s] = Append(@, event)]
       \/ sub[s] = "unsubscribe" /\ UNCHANGED <<sub, got>>
    /\ pending' = pending \ {s}
    /\ UNCHANGED <<stored, chainCh, loop, event, index, joined, taken, skipped>>

(* Mutant: a round without matching logs is not sent to anyone. *)
SentAllEarly ==
    /\ loop # "select"
    /\ pending = {}
    /\ IF loop = "logs" /\ HandleLogs(event) # {}
       THEN loop' = "heads" /\ pending' = HandleChainEvent
       ELSE loop' = "select" /\ pending' = {}
    /\ UNCHANGED <<stored, chainCh, event, index, sub, history>>

SentAll ==
    /\ loop # "select"
    /\ pending = {}
    /\ \/ loop = "logs" /\ loop' = "heads" /\ pending' = HandleChainEvent
       \/ loop = "heads" /\ loop' = "select" /\ pending' = {}
    /\ UNCHANGED <<stored, chainCh, event, index, sub, history>>

Install(s) ==
    /\ loop = "select"
    /\ sub[s] = "subscribe"
    /\ index' = index \cup {s}
    /\ Goes(s, "loop")
    /\ joined' = [joined EXCEPT ![s] = stored]
    /\ skipped' = [skipped EXCEPT ![s] = Len(taken)]
    /\ UNCHANGED <<stored, chainCh, loop, event, pending, taken, got>>

(* Closes f.err, for which Unsubscribe waits. *)
Uninstall(s) ==
    /\ loop = "select"
    /\ sub[s] = "unsubscribe"
    /\ index' = index \ {s}
    /\ Goes(s, "done")
    /\ UNCHANGED <<stored, chainCh, loop, event, pending, history>>

EventLoop ==
    \/ TakeEvent \/ SentAll
    \/ \E s \in Subs : Send(s) \/ Install(s) \/ Uninstall(s)

-----------------------------------------------------------------------------
(* NewHeads and Logs. *)

Subscribe(s) ==
    /\ sub[s] = "off"
    /\ Goes(s, "subscribe")
    /\ UNCHANGED <<stored, chainCh, loop, event, pending, index, history>>

(* Notify returns, with or without an error. *)
Notified(s) ==
    /\ sub[s] = "notify"
    /\ Goes(s, "loop")
    /\ UNCHANGED <<stored, chainCh, loop, event, pending, index, history>>

(* The client unsubscribes or its connection is closed. *)
Unsubscribe(s) ==
    /\ sub[s] = "loop"
    /\ Goes(s, "unsubscribe")
    /\ UNCHANGED <<stored, chainCh, loop, event, pending, index, history>>

Next ==
    \/ OfferEvent
    \/ EventLoop
    \/ \E s \in Subs : Subscribe(s) \/ Notified(s) \/ Unsubscribe(s)

Spec == Init /\ [][Next]_vars

(* The event loop and the goroutines run, and Notify returns (a write to a *)
(* client has a deadline).  The loop's select chooses at random, so a case *)
(* that is ready again and again is chosen.  No one has to subscribe or to *)
(* unsubscribe, no block has to come.                                      *)
Fairness ==
    /\ SF_vars(TakeEvent) /\ WF_vars(SentAll)
    /\ \A s \in Subs : /\ WF_vars(Send(s)) /\ WF_vars(Notified(s))
                       /\ SF_vars(Install(s)) /\ SF_vars(Uninstall(s))

FairSpec == Spec /\ Fairness

-----------------------------------------------------------------------------
(* The types of the variables. *)
TypeOK ==
    /\ stored \in 0..MaxRound
    /\ chainCh \in Seq(Rounds) /\ Len(chainCh) <= chainEvChanSize
    /\ loop \in {"select", "logs", "heads"}
    /\ event \in 0..MaxRound
    /\ pending \subseteq Subs
    /\ index \subseteq Subs
    /\ sub \in [Subs -> {"off", "subscribe", "loop", "notify", "unsubscribe", "done"}]
    /\ joined \in [Subs -> 0..MaxRound]
    /\ taken \in Seq(Rounds)
    /\ skipped \in [Subs -> 0..MaxRound]
    /\ got \in [Subs -> Seq(Rounds)]

Wants(s, r) == s \in HeadSubs \/ r \in Matches[s]

(* Between two events a live subscription has received exactly the rounds  *)
(* that the event loop took since it was installed and that it asked for:  *)
(* each once, in the order of the chain, none left out, whoever came and   *)
(* went meanwhile.                                                         *)
ReceivesWhatIsTaken ==
    \A s \in index : loop = "select" /\ sub[s] # "unsubscribe" =>
        /\ \A i, j \in DOMAIN got[s] : i < j => got[s][i] < got[s][j]
        /\ {got[s][i] : i \in DOMAIN got[s]} =
               {taken[k] : k \in {n \in skipped[s] + 1 .. Len(taken) : Wants(s, taken[n])}}

(* Unsubscribe returns, although the loop may be blocked in a send to the  *)
(* very goroutine that calls it.                                           *)
UnsubscribeReturns ==
    \A s \in Subs : sub[s] = "unsubscribe" ~> sub[s] = "done"

(* No subscriber that leaves or is slow keeps the loop from its events.    *)
EventsAreTaken == chainCh # <<>> ~> chainCh = <<>>

(* "NewHeads send a notification each time a new (header) block is         *)
(* appended to the chain" (rpc/eth/filters/api.go): with nothing left to   *)
(* serve, a live subscription has every round since it was installed.      *)
EveryHeadNotified ==
    \A s \in HeadSubs :
        s \in index /\ loop = "select" /\ chainCh = <<>> /\ sub[s] # "unsubscribe" =>
            \A r \in joined[s] + 1 .. stored : \E i \in DOMAIN got[s] : got[s][i] = r
=============================================================================
