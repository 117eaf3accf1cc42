---------------------------- MODULE MCProcesses ----------------------------
(***************************************************************************)
(* The two processes.  What they do with the file, the stream and the      *)
(* table has no effect on the other two, so a behaviour looks at one of    *)
(* them (focus), under every start and end of the processes; or it looks   *)
(* at the jobs of a worker that runs (Worker), which touch none of them.   *)
(* The server constructs pipelines; beside the file the processes have     *)
(* files of their own, and without the stream no connection to Redis.      *)
(*                                                                         *)
(* Bounds: 2 attempts to open, 3 entries, reads of 2, 2 symbols, of which  *)
(* the catalog lists one, on two exchanges, one of which returns short     *)
(* pages.  The numbers of the research are scaled: at most 3 candles in a  *)
(* buffer, folds of half of them, and 1 candle of warm-up; a server's      *)
(* request finds 4 or 10 candles.                                          *)
(***************************************************************************)
EXTENDS Processes, Worker

CONSTANTS btc, eth, deep, short

VARIABLE focus

mcVars == <<processVars, vars, focus>>

MCVenues    == <<short, deep>>
MCMarkets   == (short :> <<btc>>) @@ (deep :> <<btc, eth>>)
MCLiquidity == (short :> (btc :> 1)) @@ (deep :> ((btc :> 0) @@ (eth :> 1)))
MCPageCap   == (short :> 4) @@ (deep :> 5)

MCInit ==
  /\ focus \in {"store", "bus", "catalog", "jobs"}
  /\ ProcessesInit /\ Init
  /\ shared = (focus = "store")
  /\ focus # "store" => file
  /\ focus # "catalog" => rows = [s \in Names |-> "active"]
  /\ focus # "jobs" => active = {}

MCProcessesNext ==
  /\ \/ \E p \in Processes : Start(p) \/ BootSync(p) \/ BusUp(p) \/ End(p) \/ Opened(p)
     \/ focus = "store" /\ \E p \in Processes : OpenGoesOn(p)
     \/ focus = "store" /\ PipelineStep("server")
     \/ focus = "bus" /\ \E p \in Processes : BusStep(p)
     \/ focus = "catalog" /\ (UserStep \/ \E p \in Processes : JobStep(p))
  /\ focus # "bus" => \A p \in Processes : ~bus'[p].linked

MCNext ==
  /\ UNCHANGED focus
  /\ \/ focus # "jobs" /\ MCProcessesNext /\ UNCHANGED vars
     \/ focus = "jobs" /\ Next /\ UNCHANGED processVars

\* The fairness of Worker, and that of the synchronization: both are tasks of an
\* event loop that keeps running.
MCSpec ==
  /\ MCInit /\ [][MCNext]_mcVars
  /\ WF_mcVars(focus = "jobs" /\ IngestionJob /\ UNCHANGED <<processVars, focus>>)
  /\ WF_mcVars(focus = "jobs" /\ ResearchJob /\ UNCHANGED <<processVars, focus>>)
  /\ \A p \in Processes :
       WF_mcVars(focus = "catalog" /\ JobStep(p) /\ UNCHANGED <<vars, focus>>)
=============================================================================
