----------------------------- MODULE Processes -----------------------------
(***************************************************************************)
(* The server and the worker as two processes: how they come up and end,   *)
(* and the three things they share, the DuckDB file, the Redis stream and  *)
(* the symbols table.  A process may end at any time, by a crash or a      *)
(* shutdown, and be started again.                                         *)
(***************************************************************************)
EXTENDS TimeSeriesStore, RedisBus, SymbolCatalog

VARIABLE proc  \* of a process: "down", "opening", "syncing", "ready" or "running"

processVars == <<proc, storeVars, busVars, catalogVars>>

ProcessAssumption == Processes = {"server", "worker"} /\ Consumers = Processes /\ Jobs = Processes

ASSUME ProcessAssumption

Awake(p) == proc[p] = "running" /\ opening[p] = NotOpening

-----------------------------------------------------------------------------
(***************************************************************************)
(* Start and end.                                                          *)
(***************************************************************************)

\* The storage is opened first, when the server's module is loaded or the daemon
\* is constructed.
Start(p) ==
  /\ proc[p] = "down"
  /\ Construct(p, "main")
  /\ proc' = [proc EXCEPT ![p] = "opening"]
  /\ UNCHANGED <<busVars, catalogVars>>

Opened(p) ==
  /\ Connected(p)
  /\ \/ proc[p] # "opening" /\ UNCHANGED proc
     \/ proc[p] = "opening" /\ p = "server" /\ proc' = [proc EXCEPT ![p] = "ready"]
     \/ proc[p] = "opening" /\ p # "server" /\ proc' = [proc EXCEPT ![p] = "syncing"]
  /\ UNCHANGED <<busVars, catalogVars>>

OpenGoesOn(p) ==
  /\ Retry(p) \/ FallBack(p) \/ (proc[p] = "running" /\ OpenFails(p))
  /\ UNCHANGED <<proc, busVars, catalogVars>>

\* Before it trades the worker synchronizes the catalog, with a provider of its
\* own and without a handler: an error there ends the process.
BootSync(p) ==
  /\ proc[p] = "syncing"
  /\ \/ ~indexOf[p].made /\ FetchCatalog(p) /\ UNCHANGED proc
     \/ (ReadRow(p) \/ Commit(p)) /\ UNCHANGED proc
     \/ /\ indexOf[p].made /\ txn[p] = NoTxn
        /\ CatalogGone(p) /\ UNCHANGED rows
        /\ proc' = [proc EXCEPT ![p] = "ready"]
  /\ UNCHANGED <<storeVars, busVars>>

BusUp(p) ==
  /\ proc[p] = "ready"
  /\ BusStart(p)
  /\ proc' = [proc EXCEPT ![p] = "running"]
  /\ UNCHANGED <<storeVars, catalogVars>>

\* An error while starting, a crash, or a shutdown.  The requests of users are
\* handled by the server.
End(p) ==
  /\ proc[p] # "down"
  /\ proc' = [proc EXCEPT ![p] = "down"]
  /\ StoreGone(p)
  /\ BusGone(p)
  /\ txn' = [who \in DOMAIN txn |->
               IF who = p \/ (who = "user" /\ p = "server") THEN NoTxn ELSE txn[who]]
  /\ indexOf' = [indexOf EXCEPT ![p] = NoIndex]
  /\ failed' = failed \ {p}
  /\ UNCHANGED rows

-----------------------------------------------------------------------------
(***************************************************************************)
(* What a running process does.                                            *)
(***************************************************************************)

PipelineStep(p) ==
  /\ Awake(p)
  /\ \E h \in Pipelines : Construct(p, h) \/ Close(p, h)
  /\ UNCHANGED <<proc, busVars, catalogVars>>

BusStep(p) ==
  /\ Awake(p)
  /\ \/ BusSubscribe(p) \/ BusPublish(p) \/ BusRead(p)
     \/ BusDispatch(p) \/ BusHandle(p) \/ BusReconnect(p)
  /\ UNCHANGED <<proc, storeVars, catalogVars>>

\* symbol_catalog_sync_job, which goes on after an error.
JobStep(p) ==
  /\ Awake(p)
  /\ FetchCatalog(p) \/ ReadRow(p) \/ Commit(p) \/ RollBack(p)
  /\ UNCHANGED <<proc, storeVars, busVars>>

UserStep ==
  /\ Awake("server")
  /\ UserBegins \/ ReadRow("user") \/ Commit("user") \/ RollBack("user")
  /\ UNCHANGED <<proc, storeVars, busVars>>

OpenStep(p) == Opened(p) \/ OpenGoesOn(p) \/ (Raises(p) /\ proc[p] = "opening" /\ End(p))

ProcessesInit ==
  /\ proc = [p \in Processes |-> "down"]
  /\ StoreInit /\ BusInit /\ CatalogInit

Lifecycle(p) == Start(p) \/ OpenStep(p) \/ BootSync(p) \/ BusUp(p) \/ End(p)

ProcessesNext ==
  \/ \E p \in Processes : Lifecycle(p) \/ BusStep(p) \/ JobStep(p)
  \/ PipelineStep("server") \/ UserStep

ProcessesSpec == ProcessesInit /\ [][ProcessesNext]_processVars

-----------------------------------------------------------------------------
(***************************************************************************)
(* Properties.                                                             *)
(***************************************************************************)

\* The states of the processes agree with what they hold of the shared things, a
\* running process has the file once, and two that have it write nothing.
ProcessesTypeOK ==
  /\ \A p \in Processes :
       /\ proc[p] \in {"down", "opening", "syncing", "ready", "running"}
       /\ proc[p] = "opening" => opening[p].holder = "main"
       /\ proc[p] = "down" => Held(p) = {} /\ ~bus[p].on /\ txn[p] = NoTxn
       /\ bus[p].on => proc[p] = "running"
       /\ Range(bus[p].batch) \cup Range(tasks[p]) \subseteq 1 .. cursor
       /\ txn[p].kind \in {"none", "upsert"}
  /\ cursor <= stream
  /\ OpenedOnce
  /\ NobodyWritesTogether

\* A process that does not get the file for writing because another one has it
\* goes on with a read-only connection: so the module says and so _connect logs
\* it (database.py:3-4, 11, 121-123).  At the latest the last attempt of one that
\* has fallen back finds that the file can be opened for reading.
SecondProcessReads ==
  \A p \in Processes : \A q \in Processes \ {p} :
    (shared /\ "rw" \in Held(q) /\ opening[p].mode = "ro" /\ opening[p].attempt = MaxRetries)
      => Lockable(p, "ro")

Once == INSTANCE AtMostOnceChannel
  WITH Ids <- Messages, sent <- stream, open <- OpenMessages

\* The consumer group hands every event to one handler run at most, in whatever
\* process, over broken connections, failed acknowledgements and restarts
\* (_listener_loop); what is lost stays lost.
AtMostOnce == Once!OnceSpec

\* An event is lost only by the process that was given it, and only when that was
\* cut off from Redis while it had the event in hand, ended then, or had no handler
\* for it: also an event whose handlers are all in the other process, for both are
\* consumers of one group (RedisStreamEventBus).
LossExplained ==
  \A m \in 1 .. stream : m \notin OpenMessages /\ calls[m] = 0 => <<taker[m], m>> \in flawed

\* A deactivated symbol that the catalog lists does not stay deactivated, as
\* remove_symbol answers: a synchronization that goes on sets it active again
\* (bulk_upsert_symbols), unless its transactions fail again and again.
DeactivationUndone ==
  \A p \in Processes, s \in Names :
    <>[](/\ Awake(p) /\ indexOf[p].made
         /\ s \in Range(indexOf[p].listed) /\ rows[s] = "inactive")
      => []<>(p \in failed)
=============================================================================
