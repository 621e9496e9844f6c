--------------------------- MODULE MCEventSystem ---------------------------
(* Small instances of EventSystem, and the criteria of LogFilter beside     *)
(* them: a behaviour either runs the event system or examines one filter.   *)
EXTENDS EventSystem, LogFilter

CONSTANTS h1, l1

(* The log filter matches the even rounds. *)
EvenRounds == [s \in LogSubs |-> {r \in Rounds : r % 2 = 0}]

NoMatches == [s \in LogSubs |-> {}]

NoCriteria == [from |-> Nil, to |-> Nil, addresses |-> {}, topics |-> <<>>]

MCInit == Init /\ criteria \in Criteria
MCNext == criteria = NoCriteria /\ Next /\ UNCHANGED criteria
MCSpec == MCInit /\ [][MCNext]_<<vars, criteria>> /\ Fairness
=============================================================================
