----------------------------- MODULE MCStartup -----------------------------
(* A small instance of Startup: an older instance that knows two           *)
(* migrations and a newer one, with the fixer, that knows three.  The       *)
(* tables of LogsMigration are beside it: a behaviour either starts         *)
(* processes or runs LogsUp on one log table.                               *)
EXTENDS Startup, LogsMigration, TLC

CONSTANTS old, new

OldAndNew == (old :> 2) @@ (new :> 3)

(* The logs of a round by the number of logs of its transactions, numbered *)
(* within each transaction.                                                *)
LogsOf(r, counts) ==
    {[round |-> r, tx |-> <<r, p[1]>>, index |-> p[2] - 1, data |-> p] :
        p \in {q \in (DOMAIN counts) \X (1..2) : q[2] <= counts[q[1]]}}

(* Rounds 0 to 3 with no, one or two logs, or two transactions with logs. *)
SmallTables ==
    {UNION {LogsOf(r, c[r]) : r \in 0..3} :
        c \in [0..3 -> {<<>>, <<1>>, <<2>>, <<1, 2>>}]}

(* With rows below the LastRetained tip that a failed prune left, or not. *)
SmallTips == [lastRetained : {0, 1}, continues : {3}]

MCInit ==
    /\ StartupInit /\ LogsInit
    /\ logs # {} => mismatched = {}
    /\ logs = {} => logTips.lastRetained = 0
MCNext ==
    \/ logs = {} /\ StartupNext /\ UNCHANGED logsVars
    \/ logs # {} /\ LogsUp /\ UNCHANGED allVars
MCSpec == MCInit /\ [][MCNext]_<<allVars, logsVars>> /\ StartupFairness
=============================================================================
