----------------------------- MODULE Lifecycle -----------------------------
(***************************************************************************)
(* How the gateway process starts and stops: the goroutines that runRoot   *)
(* (main.go) starts one after the other, the start of the web3 server      *)
(* (server/server.go, server/json_rpc.go), the error channel and the wait  *)
(* group that join the goroutines, and inside the indexer's goroutine the  *)
(* workers that Service.Start (indexer/indexer.go) starts and joins in the *)
(* same way.  The model begins when the log tx_index fixer is started.     *)
(*                                                                         *)
(* The 30 second timer of runRoot is long beside everything that can still *)
(* happen: it fires only when the remaining goroutines are blocked, or     *)
(* when the fixer sleeps its 30 seconds of backoff.                        *)
(***************************************************************************)
EXTENDS Naturals, FiniteSets

CONSTANT Configs    \* the configurations the process can be started with

(* Gateway: there is a web3 server.  IndexingEnd: it is set, and reached.  *)
(* FixerStage: whether the log tx_index fixer still has to search, or has  *)
(* returned already.  Events: what can happen to the process.              *)
Config == [Gateway : BOOLEAN, IndexingEnd : BOOLEAN, IndexingDisable : BOOLEAN,
           EnablePruning : BOOLEAN, FixerStage : {"search", "done"},
           Events : SUBSET {"signal", "dbError", "startError"}]

ASSUME ConfigsAssumption == Configs \subseteq Config

Services == {"fixer", "backend", "indexer", "gas", "web3"}
Workers == {"indexing", "health", "pruning"}

(* Mutant: errCh has no room for every service. *)
ErrChSizeSmall == 3

ErrChSize == 4

VARIABLES
    cfg,        \* the configuration
    main,       \* where runRoot is
    rootCancelled,  \* its context is cancelled
    service,    \* where each service's goroutine is; "send": writing to errCh
    errCh,      \* number of errors in errCh
    workers,    \* the indexer's workers that have not returned
    stopIndexer,    \* the context of Service.Start was cancelled by itself
    sourceOpen, \* the node source is not closed
    serverOpen, \* Web3Gateway.stop is open
    listening   \* which of its two endpoints serve requests

openVars == <<sourceOpen, serverOpen, listening>>
processVars == <<cfg, main, rootCancelled, service, errCh, workers, stopIndexer, openVars>>

(* The context of Service.Start is derived from runRoot's. *)
IndexerCancelled == rootCancelled \/ stopIndexer

ProcessInit ==
    /\ cfg \in Configs
    /\ main = "backend"
    /\ rootCancelled = FALSE
    /\ service = [s \in Services |->
                    CASE s = "fixer" -> cfg.FixerStage
                      [] s = "web3" /\ ~cfg.Gateway -> "done"
                      [] OTHER -> "none"]
    /\ errCh = 0
    /\ workers = {w \in Workers : ~cfg.IndexingDisable /\ (w = "pruning" => cfg.EnablePruning)}
    /\ stopIndexer = FALSE
    /\ sourceOpen = TRUE
    /\ serverOpen = FALSE
    /\ listening = {}

ServiceGoes(s, pc) == service' = [service EXCEPT ![s] = pc]

-----------------------------------------------------------------------------
(* runRoot starts the services. *)

StartBackend ==
    /\ main = "backend"
    /\ main' = "indexer"
    /\ ServiceGoes("backend", "run")
    /\ UNCHANGED <<cfg, rootCancelled, errCh, workers, stopIndexer, openVars>>

StartIndexer ==
    /\ main = "indexer"
    /\ main' = "gas"
    /\ ServiceGoes("indexer", "run")
    /\ UNCHANGED <<cfg, rootCancelled, errCh, workers, stopIndexer, openVars>>

StartGas ==
    /\ main = "gas"
    /\ main' = IF cfg.Gateway THEN "server" ELSE "select"
    /\ ServiceGoes("gas", "run")
    /\ UNCHANGED <<cfg, rootCancelled, errCh, workers, stopIndexer, openVars>>

(* Without the pebble cache, the archive client or the server's prefixes,  *)
(* runRoot returns the error and main exits: no goroutine is waited for.   *)
CreateFails ==
    /\ main \in {"indexer", "server"}
    /\ "startError" \in cfg.Events
    /\ main' = "failed"
    /\ UNCHANGED <<cfg, rootCancelled, service, errCh, workers, stopIndexer, openVars>>

(* server.New, and startRPC up to the first listener. *)
StartHTTP ==
    /\ main = "server"
    /\ main' = "ws"
    /\ serverOpen' = TRUE
    /\ listening' = {"http"}
    /\ UNCHANGED <<cfg, rootCancelled, service, errCh, workers, stopIndexer, sourceOpen>>

(* An endpoint cannot be enabled or the first listener fails.  stopRPC     *)
(* shuts down both servers, and the http.Server of the second is nil.      *)
StartHTTPFails ==
    /\ main = "server"
    /\ "startError" \in cfg.Events
    /\ main' = "panic"
    /\ serverOpen' = TRUE
    /\ UNCHANGED <<cfg, rootCancelled, service, errCh, workers, stopIndexer, sourceOpen,
                   listening>>

StartWS ==
    /\ main = "ws"
    /\ main' = "metrics"
    /\ listening' = listening \cup {"ws"}
    /\ UNCHANGED <<cfg, rootCancelled, service, errCh, workers, stopIndexer, sourceOpen,
                   serverOpen>>

(* stopRPC and doClose. *)
StartWSFails ==
    /\ main = "ws"
    /\ "startError" \in cfg.Events
    /\ main' = "failed"
    /\ serverOpen' = FALSE
    /\ listening' = {}
    /\ UNCHANGED <<cfg, rootCancelled, service, errCh, workers, stopIndexer, sourceOpen>>

(* The metrics server, if configured, and the goroutine that waits for the *)
(* web3 server.                                                            *)
StartWeb3 ==
    /\ main = "metrics"
    /\ main' = "select"
    /\ ServiceGoes("web3", "run")
    /\ UNCHANGED <<cfg, rootCancelled, errCh, workers, stopIndexer, openVars>>

StartMetricsFails ==
    /\ main = "metrics"
    /\ "startError" \in cfg.Events
    /\ main' = "failed"
    /\ UNCHANGED <<cfg, rootCancelled, service, errCh, workers, stopIndexer, openVars>>

StartServices ==
    \/ StartBackend \/ StartIndexer \/ StartGas \/ CreateFails
    \/ StartHTTP \/ StartHTTPFails \/ StartWS \/ StartWSFails
    \/ StartWeb3 \/ StartMetricsFails

-----------------------------------------------------------------------------
(* runRoot stops. *)

(* Mutant: errors of services are not received. *)
LeaveOnContext ==
    /\ main = "select"
    /\ rootCancelled
    /\ main' = "wait"
    /\ UNCHANGED <<cfg, rootCancelled, service, errCh, workers, stopIndexer, openVars>>

(* The select statement: an error of a service or the cancelled context... *)
Leave ==
    /\ main = "select"
    /\ \/ errCh > 0 /\ errCh' = errCh - 1
       \/ rootCancelled /\ UNCHANGED errCh
    /\ main' = "wait"
    /\ rootCancelled' = TRUE
    /\ UNCHANGED <<cfg, service, workers, stopIndexer, openVars>>

(* ... or a signal. *)
LeaveOnSignal ==
    /\ main = "select"
    /\ "signal" \in cfg.Events
    /\ main' = "wait"
    /\ rootCancelled' = TRUE
    /\ UNCHANGED <<cfg, service, errCh, workers, stopIndexer, openVars>>

AllDone == \A s \in Services : service[s] = "done"

Exit ==
    /\ main = "wait"
    /\ AllDone
    /\ main' = "exit"
    /\ UNCHANGED <<cfg, rootCancelled, service, errCh, workers, stopIndexer, openVars>>

(* Nothing but the timer of runRoot can go off. *)
Stuck ==
    /\ ~AllDone
    /\ \A s \in Services :
          \/ service[s] = "done"
          \/ service[s] = "send" /\ errCh = ErrChSize
          \/ service[s] = "backoff"

ForceExit ==
    /\ main = "wait"
    /\ Stuck
    /\ main' = "forced"
    /\ UNCHANGED <<cfg, rootCancelled, service, errCh, workers, stopIndexer, openVars>>

Ended == main \in {"exit", "forced", "failed", "panic"}
Alive == ~Ended

(* A service's goroutine writes its error and ends.  Without a server, the *)
(* indexer's goroutine cancels the context when it ends.                   *)
Send(s) ==
    /\ Alive
    /\ service[s] = "send"
    /\ errCh < ErrChSize
    /\ errCh' = errCh + 1
    /\ ServiceGoes(s, "done")
    /\ rootCancelled' = (rootCancelled \/ (s = "indexer" /\ ~cfg.Gateway))
    /\ UNCHANGED <<cfg, main, workers, stopIndexer, openVars>>

-----------------------------------------------------------------------------
(* The services. *)

(* CachingBackend.Start and the gas price oracle run until the context is  *)
(* cancelled and return its error.                                         *)
ContextDone(s) ==
    /\ Alive
    /\ s \in {"backend", "gas"}
    /\ service[s] = "run"
    /\ rootCancelled
    /\ ServiceGoes(s, "send")
    /\ UNCHANGED <<cfg, main, rootCancelled, errCh, workers, stopIndexer, openVars>>

(* Nothing else closes the server, so its other select case never fires. *)
CloseServer ==
    /\ Alive
    /\ service["web3"] = "run"
    /\ rootCancelled
    /\ serverOpen' = FALSE
    /\ ServiceGoes("web3", "send")
    /\ UNCHANGED <<cfg, main, rootCancelled, errCh, workers, stopIndexer, sourceOpen,
                   listening>>

(* LogTxIndexFixer.Start: the search for the highest mismatch, which finds *)
(* one, or none, or fails.                                                 *)
FixerSearch ==
    /\ Alive
    /\ service["fixer"] = "search"
    /\ \/ ServiceGoes("fixer", "run")
       \/ ServiceGoes("fixer", "done")
       \/ (rootCancelled \/ "dbError" \in cfg.Events) /\ ServiceGoes("fixer", "send")
    /\ UNCHANGED <<cfg, main, rootCancelled, errCh, workers, stopIndexer, openVars>>

(* The top of its loop, then a batch, which ends the work, or goes on to   *)
(* the next, or fails and is tried again after the backoff.                *)
FixerLoop ==
    /\ Alive
    /\ service["fixer"] = "run"
    /\ \/ rootCancelled /\ ServiceGoes("fixer", "send")
       \/ ~rootCancelled /\ ServiceGoes("fixer", "batch")
    /\ UNCHANGED <<cfg, main, rootCancelled, errCh, workers, stopIndexer, openVars>>

FixerBatch ==
    /\ Alive
    /\ service["fixer"] = "batch"
    /\ \/ ServiceGoes("fixer", "done")
       \/ ServiceGoes("fixer", "run")
       \/ (rootCancelled \/ "dbError" \in cfg.Events) /\ ServiceGoes("fixer", "backoff")
    /\ UNCHANGED <<cfg, main, rootCancelled, errCh, workers, stopIndexer, openVars>>

FixerWakes ==
    /\ Alive
    /\ service["fixer"] = "backoff"
    /\ ServiceGoes("fixer", "run")
    /\ UNCHANGED <<cfg, main, rootCancelled, errCh, workers, stopIndexer, openVars>>

-----------------------------------------------------------------------------
(* Service.Start. *)

(* With indexing disabled it returns at once, with an error if nothing was *)
(* ever indexed.                                                           *)
IndexerDisabled ==
    /\ Alive
    /\ cfg.IndexingDisable
    /\ service["indexer"] = "run"
    /\ \/ ServiceGoes("indexer", "send") /\ UNCHANGED rootCancelled
       \/ ServiceGoes("indexer", "done") /\ rootCancelled' = (rootCancelled \/ ~cfg.Gateway)
    /\ UNCHANGED <<cfg, main, errCh, workers, stopIndexer, openVars>>

(* A worker returns when its context is cancelled; the indexing worker     *)
(* also when it has reached indexing_end.  It cancels the context.  The    *)
(* channel the workers write their errors to has room for all of them.     *)
WorkerReturns(w) ==
    /\ Alive
    /\ w \in workers /\ service["indexer"] # "none"
    /\ IndexerCancelled \/ (w = "indexing" /\ cfg.IndexingEnd)
    /\ workers' = workers \ {w}
    /\ stopIndexer' = (stopIndexer \/ w = "indexing")
    /\ UNCHANGED <<cfg, main, rootCancelled, service, errCh, openVars>>

(* The select statement: an error of a worker or the cancelled context. *)
CloseSource ==
    /\ Alive
    /\ ~cfg.IndexingDisable
    /\ service["indexer"] = "run"
    /\ IndexerCancelled
    /\ stopIndexer' = TRUE
    /\ sourceOpen' = FALSE
    /\ ServiceGoes("indexer", "wait")
    /\ UNCHANGED <<cfg, main, rootCancelled, errCh, workers, serverOpen, listening>>

(* The wait for the workers is a select with the context that has been     *)
(* cancelled by then: it returns the context's error, or nil if the        *)
(* workers have all returned and the select happens to choose that.        *)
IndexerReturns ==
    /\ Alive
    /\ service["indexer"] = "wait"
    /\ \/ ServiceGoes("indexer", "send") /\ UNCHANGED rootCancelled
       \/ /\ workers = {}
          /\ ServiceGoes("indexer", "done")
          /\ rootCancelled' = (rootCancelled \/ ~cfg.Gateway)
    /\ UNCHANGED <<cfg, main, errCh, workers, stopIndexer, openVars>>

-----------------------------------------------------------------------------
ProcessNext ==
    \/ StartServices
    \/ Leave \/ LeaveOnSignal \/ Exit \/ ForceExit
    \/ \E s \in Services : Send(s) \/ ContextDone(s)
    \/ CloseServer
    \/ FixerSearch \/ FixerLoop \/ FixerBatch \/ FixerWakes
    \/ IndexerDisabled \/ CloseSource \/ IndexerReturns
    \/ \E w \in Workers : WorkerReturns(w)

ProcessSpec == ProcessInit /\ [][ProcessNext]_processVars

(* Every goroutine runs; the batches of the fixer end.  No signal, and no  *)
(* database error, has to come.                                            *)
ProcessFairness ==
    /\ WF_processVars(StartServices)
    /\ WF_processVars(Leave) /\ WF_processVars(Exit) /\ WF_processVars(ForceExit)
    /\ \A s \in Services : WF_processVars(Send(s)) /\ WF_processVars(ContextDone(s))
    /\ WF_processVars(CloseServer)
    /\ WF_processVars(FixerSearch) /\ WF_processVars(FixerLoop) /\ WF_processVars(FixerBatch)
    /\ WF_processVars(FixerWakes)
    /\ WF_processVars(IndexerDisabled) /\ WF_processVars(CloseSource)
    /\ WF_processVars(IndexerReturns)
    /\ \A w \in Workers : WF_processVars(WorkerReturns(w))

ProcessFairSpec == ProcessSpec /\ ProcessFairness

-----------------------------------------------------------------------------
(* The types of the variables. *)
ProcessTypeOK ==
    /\ cfg \in Configs
    /\ main \in {"backend", "indexer", "gas", "server", "ws", "metrics",
                "select", "wait", "exit", "forced", "failed", "panic"}
    /\ rootCancelled \in BOOLEAN
    /\ service \in [Services -> {"none", "search", "run", "batch", "backoff", "wait", "send", "done"}]
    /\ errCh \in 0..ErrChSize
    /\ workers \subseteq Workers
    /\ {stopIndexer, sourceOpen, serverOpen} \subseteq BOOLEAN
    /\ listening \subseteq {"http", "ws"}

(* "Ensure clean shutdown" (main.go): whatever made it stop, runRoot sees  *)
(* every service return and does not have to force its exit.               *)
StopsCleanly == main = "wait" ~> main = "exit"

(* The process has exited by itself, with neither the web3 server nor the  *)
(* node source left open.                                                  *)
CleanExit == main = "exit" /\ ~serverOpen /\ (sourceOpen => cfg.IndexingDisable)

(* The same of a process whose fixer had returned when runRoot reached its *)
(* select statement: in every other configuration, and for every order of  *)
(* signals, errors and the end of indexing, all services return and have   *)
(* closed what they had opened.                                            *)
StopsCleanlyAfterFixer ==
    cfg.FixerStage = "done" /\ main = "wait" ~> CleanExit

(* A service that stops with an error stops the process, also while other  *)
(* services keep running, and when it comes before the last is started.    *)
ErrorStopsProcess ==
    (\E s \in Services : service[s] = "send") ~> Ended

(* The other half of that comment: with a server, an indexer that reached  *)
(* indexing_end does not stop the process.                                 *)
ServerOutlivesIndexer == cfg.Gateway /\ cfg.Events = {} => main \notin {"wait", "exit"}

(* "Wait for services to shutdown" (indexer/indexer.go): when              *)
(* Service.Start returns, its workers have returned.                       *)
WorkersReturnFirst == service["indexer"] \in {"send", "done"} => workers = {}

(* A start that fails is reported as an error: "creating web3 gateway",    *)
(* "starting web3 server" (main.go).                                       *)
StartReportsErrors == main # "panic"

(* "The server was started, release resources acquired by Start()"         *)
(* (server/server.go): a closed server serves no requests.                 *)
ClosedServerIsSilent == ~serverOpen => listening = {}
=============================================================================
