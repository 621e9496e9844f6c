----------------------------- MODULE LogFilter -----------------------------
(***************************************************************************)
(* The two implementations of a log filter: eth_getLogs (GetLogs and       *)
(* getStartEndRounds of rpc/eth/api.go, TopicsMatch of rpc/utils/utils.go) *)
(* and eth_subscribe (SubscribeLogs and filterLogs of                      *)
(* filters/event_system.go).                                               *)
(*                                                                         *)
(* A log is its round, address and topics.                                 *)
(***************************************************************************)
EXTENDS Integers, Sequences, SequencesExt

CONSTANTS
    FilterRounds,       \* rounds that criteria and logs may name
    Addresses,          \* addresses of contracts
    Topics,             \* topics of events
    MaxTopics,          \* bound: topics of a log, positions of a filter
    GetLogsMaxRounds    \* cfg.MethodLimits.GetLogsMaxRounds, 0 for no limit

(* A bound of the criteria: a round, a nil or a latest one; the remaining  *)
(* markers (pending, safe, finalized, earliest) are Other.                 *)
Nil == -1
Latest == -2
Other == -3
Bounds == FilterRounds \cup {Nil, Latest, Other}

ASSUME FilterAssumption ==
    /\ FilterRounds \subseteq Nat \ {0}
    /\ MaxTopics \in Nat /\ GetLogsMaxRounds \in Nat

Log == [round : FilterRounds, address : Addresses, topics : SeqOf(Topics, MaxTopics)]
Criteria == [from : Bounds, to : Bounds, addresses : SUBSET Addresses,
             topics : SeqOf(SUBSET Topics, MaxTopics)]

VARIABLE criteria   \* what the client gave, to either call

-----------------------------------------------------------------------------
(* eth_getLogs. *)

(* Mutant: positions that the log does not have are not looked at. *)
TopicsMatchPrefix(log, filterTopics) ==
    \A i \in DOMAIN filterTopics \cap DOMAIN log.topics :
        filterTopics[i] = {} \/ log.topics[i] \in filterTopics[i]

TopicsMatch(log, filterTopics) ==
    /\ Len(filterTopics) <= Len(log.topics)
    /\ \A i \in DOMAIN filterTopics :
          filterTopics[i] = {} \/ log.topics[i] \in filterTopics[i]

(* roundParamFromBlockNum, for the bounds that SubscribeLogs accepts too.  *)
(* A nil lower bound is the oldest round of node and index (StateQueries). *)
RoundOf(bound, ifNil, tip) ==
    CASE bound = Nil    -> ifNil
      [] bound = Latest -> tip
      [] OTHER          -> bound

(* getStartEndRounds.  The tip is read twice, and moves in between. *)
StartRound(c, earliest, tip) == RoundOf(c.from, earliest, tip)
EndRound(c, tip) == RoundOf(c.to, tip, tip)

RangeAccepted(start, end) ==
    /\ start <= end
    /\ GetLogsMaxRounds # 0 => end - start <= GetLogsMaxRounds

(* The logs that GetLogs answers with, of the ones that are stored; none   *)
(* if it refuses the request.                                              *)
GetLogs(c, stored, earliest, tip, laterTip) ==
    LET start == StartRound(c, earliest, tip)
        end == EndRound(c, laterTip)
    IN  {l \in stored :
            /\ RangeAccepted(start, end)
            /\ l.round \in start..end
            /\ c.addresses = {} \/ l.address \in c.addresses
            /\ TopicsMatch(l, c.topics)}

-----------------------------------------------------------------------------
(* eth_subscribe. *)

Below0(bound) == bound < 0

(* SubscribeLogs: a nil bound is latest. *)
SubscribeLogs(c) ==
    LET isLatest(bound) == bound \in {Nil, Latest}
    IN  \/ isLatest(c.from) /\ isLatest(c.to)
        \/ ~Below0(c.from) /\ ~Below0(c.to) /\ c.to >= c.from
        \/ ~Below0(c.from) /\ isLatest(c.to)

(* filterLogs, on the logs of one block: a marker is no bound. *)
filterLogs(c, logs) ==
    {l \in logs :
        /\ Below0(c.from) \/ c.from <= l.round
        /\ Below0(c.to) \/ c.to >= l.round
        /\ c.addresses = {} \/ l.address \in c.addresses
        /\ Len(c.topics) <= Len(l.topics)
        /\ \A i \in DOMAIN c.topics : c.topics[i] = {} \/ l.topics[i] \in c.topics[i]}

-----------------------------------------------------------------------------
(* A client that follows a filter by subscription and one that polls       *)
(* eth_getLogs with the same criteria see the same logs: what is sent for  *)
(* a block is what GetLogs, asked while it is the newest one and with all  *)
(* rounds retained, answers about it.                                      *)
FiltersAgree ==
    SubscribeLogs(criteria) =>
        \A r \in FilterRounds :
            LET ofBlock == {l \in Log : l.round = r}
                stored == {l \in Log : l.round <= r}
            IN  filterLogs(criteria, ofBlock) =
                    GetLogs(criteria, stored, 1, r, r) \cap ofBlock

(* "GetLogsMaxRounds is the maximum number of rounds to query for in a get *)
(* logs query." (conf/config.go, line 236)                                 *)
RangeWithinLimit ==
    \A s, e \in FilterRounds :
        RangeAccepted(s, e) /\ GetLogsMaxRounds # 0 => e - s + 1 <= GetLogsMaxRounds
=============================================================================
