-------------------------- MODULE IngestionControl --------------------------
(***************************************************************************)
(* Starting and stopping the ingestion loop: start_ingestion and           *)
(* stop_ingestion (app/server.py) as the HTTP endpoints, the websocket     *)
(* clients and the shutdown of the server call them, the asyncio task of   *)
(* each loop, and the provider sessions the loop opens and closes          *)
(* (GlobalMarketDataProvider, GDELTNewsProvider).                          *)
(*                                                                         *)
(* The trading the loop does is TradingLoop; here it is the stage "running".*)
(* Task.cancel() only asks: the CancelledError is raised at the await the  *)
(* task is at, when the event loop runs it next.  Two requests before that *)
(* raise once.  A session is closed by the close() of its client, unless   *)
(* that is interrupted.                                                    *)
(***************************************************************************)
EXTENDS Integers, Sequences, FiniteSets

CONSTANTS
  Clients,    \* who can call start and stop
  Exchanges   \* exchange_ids

News == "news"  \* the session of the news client
NoTask == 0
Server == "lifespan"

ASSUME ControlAssumption ==
  /\ IsFiniteSet(Exchanges) /\ Exchanges # {} /\ News \notin Exchanges
  /\ Server \notin Clients

VARIABLES
  slot,     \* _ingestion_task: the index of a task, or NoTask
  tasks,    \* the tasks that were created
  waiting,  \* the task whose end a caller of stop_ingestion awaits, or NoTask
  server,   \* "up", "stopping" or "down"
  eager     \* history: a start came while a stop was waiting

vars == <<slot, tasks, waiting, server, eager>>

Callers == Clients \cup {Server}

Stages == {"new", "running", "indexing", "closing", "done"}

\* pending: clients of the index that are not dealt with yet; failed: the one
\* that is being closed for want of markets; known: _exchanges; open: the
\* sessions; struck: where a CancelledError was raised.
Task == [stage : Stages, cancelled : BOOLEAN, pending : SUBSET Exchanges,
         failed : SUBSET Exchanges, known : SUBSET Exchanges, indexed : BOOLEAN,
         open : SUBSET (Exchanges \cup {News}), struck : SUBSET Stages]

NewTask == [stage |-> "new", cancelled |-> FALSE, pending |-> {}, failed |-> {}, known |-> {},
            indexed |-> FALSE, open |-> {}, struck |-> {}]

Done(t) == tasks[t].stage = "done"

Live == {t \in DOMAIN tasks : ~Done(t)}

-----------------------------------------------------------------------------
(***************************************************************************)
(* start_ingestion and stop_ingestion.                                     *)
(***************************************************************************)

\* ingestion_is_running
Running == slot # NoTask /\ ~Done(slot)

\* A start of a loop that runs only answers that it does.
Start(c) ==
  /\ server = "up" /\ waiting[c] = NoTask
  /\ ~Running
  /\ tasks' = Append(tasks, NewTask)
  /\ slot' = Len(tasks) + 1
  /\ eager' = (eager \/ \E d \in Callers : waiting[d] # NoTask)
  /\ UNCHANGED <<waiting, server>>

\* Awaiting a task that is done does not suspend the caller.
StopEnded ==
  /\ slot # NoTask /\ Done(slot)
  /\ slot' = NoTask
  /\ UNCHANGED <<tasks, waiting>>

\* Variant: the task is forgotten while it is still ending.
CancelTaskForget(c) ==
  /\ Running
  /\ tasks' = [tasks EXCEPT ![slot].cancelled = TRUE]
  /\ slot' = NoTask
  /\ UNCHANGED waiting

CancelTask(c) ==
  /\ Running
  /\ tasks' = [tasks EXCEPT ![slot].cancelled = TRUE]
  /\ waiting' = [waiting EXCEPT ![c] = slot]
  /\ UNCHANGED slot

\* A stop without a task only answers that there is none.
Stop(c) ==
  /\ server = "up" /\ waiting[c] = NoTask
  /\ CancelTask(c) \/ StopEnded
  /\ UNCHANGED <<server, eager>>

\* The awaited task has ended: the stop returns, whatever the slot holds now.
Return(c) ==
  /\ waiting[c] # NoTask /\ Done(waiting[c])
  /\ slot' = NoTask
  /\ waiting' = [waiting EXCEPT ![c] = NoTask]
  /\ UNCHANGED <<tasks, server, eager>>

\* The lifespan of the server ends when no request is left; it stops the loop,
\* then closes the storage.
Shutdown ==
  /\ server = "up"
  /\ \A c \in Clients : waiting[c] = NoTask
  /\ server' = "stopping"
  /\ \/ CancelTask(Server)
     \/ StopEnded
     \/ slot = NoTask /\ UNCHANGED <<slot, tasks, waiting>>
  /\ UNCHANGED eager

CloseStorage ==
  /\ server = "stopping" /\ waiting[Server] = NoTask
  /\ server' = "down"
  /\ UNCHANGED <<slot, tasks, waiting, eager>>

-----------------------------------------------------------------------------
(***************************************************************************)
(* The task of one loop.                                                   *)
(***************************************************************************)
Others == <<slot, waiting, server, eager>>

Goes(t, stage) == tasks[t].stage = stage /\ ~tasks[t].cancelled

Enter(t) ==
  /\ Goes(t, "new")
  /\ tasks' = [tasks EXCEPT ![t].stage = "running"]
  /\ UNCHANGED Others

\* The first news request of the loop makes the news client.
OpenNews(t) ==
  /\ Goes(t, "running") /\ News \notin tasks[t].open
  /\ tasks' = [tasks EXCEPT ![t].open = @ \cup {News}]
  /\ UNCHANGED Others

\* Variant: the clients go into _exchanges before their markets are loaded.
BeginIndexKnown(t) ==
  /\ Goes(t, "running") /\ News \in tasks[t].open /\ ~tasks[t].indexed
  /\ tasks' = [tasks EXCEPT ![t].stage = "indexing", ![t].pending = Exchanges,
                            ![t].known = Exchanges, ![t].open = @ \cup Exchanges]
  /\ UNCHANGED Others

\* The first ticker request makes the clients of all exchanges and loads their
\* markets; _exchanges does not have them yet.
BeginIndex(t) ==
  /\ Goes(t, "running") /\ News \in tasks[t].open /\ ~tasks[t].indexed
  /\ tasks' = [tasks EXCEPT ![t].stage = "indexing", ![t].pending = Exchanges,
                            ![t].open = @ \cup Exchanges]
  /\ UNCHANGED Others

\* The markets are there, or the client that had none is closed: the clients up
\* to the next one without markets go into _exchanges; that one is to be closed.
Settle(t) ==
  /\ Goes(t, "indexing")
  /\ \E good \in SUBSET tasks[t].pending :
     \E failed \in {{e} : e \in tasks[t].pending \ good} \cup {{}} :
       LET rest == tasks[t].pending \ (good \cup failed)
       IN  /\ failed = {} => rest = {}
           /\ tasks' = [tasks EXCEPT
                ![t].pending = rest, ![t].known = @ \cup good,
                ![t].failed = failed, ![t].open = @ \ tasks[t].failed,
                ![t].indexed = (failed = {}),
                ![t].stage = IF failed = {} THEN "running" ELSE @]
  /\ UNCHANGED Others

\* close() goes through _exchanges, a suspension for each.
CloseOne(t) ==
  /\ Goes(t, "closing")
  /\ \E e \in tasks[t].known \cap tasks[t].open :
       tasks' = [tasks EXCEPT ![t].open = @ \ {e},
                   ![t].stage = IF tasks[t].known \cap tasks[t].open = {e} THEN "done" ELSE @]
  /\ UNCHANGED Others

\* Variant: the handler in the loop takes the CancelledError for a failed cycle.
RaiseCaught(t) ==
  LET stage == tasks[t].stage
  IN  /\ tasks[t].cancelled /\ ~Done(t)
      /\ tasks' = [tasks EXCEPT ![t].cancelled = FALSE, ![t].struck = @ \cup {stage}]
      /\ UNCHANGED Others

\* Variant: __aexit__ does not close the provider.
RaiseUnclosed(t) ==
  LET stage == tasks[t].stage
  IN  /\ tasks[t].cancelled /\ ~Done(t)
      /\ tasks' = [tasks EXCEPT ![t].cancelled = FALSE, ![t].struck = @ \cup {stage},
                                ![t].stage = "done"]
      /\ UNCHANGED Others

\* The CancelledError leaves the loop, whose handlers catch Exception only, and
\* the provider is closed; in close() it leaves the task, and in a task that has
\* not begun there is no provider.
Raise(t) ==
  LET stage == tasks[t].stage
  IN  /\ tasks[t].cancelled /\ ~Done(t)
      /\ tasks' = [tasks EXCEPT ![t].cancelled = FALSE, ![t].struck = @ \cup {stage},
                     ![t].stage = IF stage \in {"new", "closing"} \/ tasks[t].known = {}
                                  THEN "done" ELSE "closing"]
      /\ UNCHANGED Others

TaskStep(t) ==
  Enter(t) \/ OpenNews(t) \/ BeginIndex(t) \/ Settle(t) \/ CloseOne(t) \/ Raise(t)

-----------------------------------------------------------------------------
Init ==
  /\ slot = NoTask /\ tasks = << >>
  /\ waiting = [c \in Callers |-> NoTask]
  /\ server = "up" /\ eager = FALSE

Next ==
  \/ \E c \in Clients : Start(c) \/ Stop(c)
  \/ \E c \in Callers : Return(c)
  \/ Shutdown \/ CloseStorage
  \/ \E t \in DOMAIN tasks : TaskStep(t)

Spec == Init /\ [][Next]_vars

\* The event loop runs every task that can go on, and a close() ends.
Fairness ==
  /\ \A c \in Callers : WF_vars(Return(c))
  /\ \A t \in Nat \ {0} : WF_vars(t \in DOMAIN tasks /\ TaskStep(t))

-----------------------------------------------------------------------------
(***************************************************************************)
(* Properties.                                                             *)
(***************************************************************************)
\* The variables have their types, and in a loop that runs every exchange of
\* the index has an open session to answer with (_exchanges, _ensure_init).
TypeOK ==
  /\ tasks \in Seq(Task)
  /\ \A t \in DOMAIN tasks : tasks[t].stage = "running" => tasks[t].known \subseteq tasks[t].open
  /\ slot \in {NoTask} \cup DOMAIN tasks
  /\ waiting \in [Callers -> {NoTask} \cup DOMAIN tasks]
  /\ server \in {"up", "stopping", "down"}
  /\ eager \in BOOLEAN

\* While no start came during a stop, the only loop that runs is the one that
\* start_ingestion and stop_ingestion know: the status is right, a stop reaches
\* it, and the storage is closed after it.
OnlyKnownLoop == ~eager => Live \subseteq {slot} /\ (server = "down" => Live = {})

\* At most one loop runs: "Start the ingestion & trading loop if it is not
\* already running", says start_ingestion.
AtMostOneLoop == Cardinality(Live) <= 1

\* A loop that ended keeps the session of an exchange open only if it was
\* cancelled while it built the index, or again while it closed the provider;
\* the session of the news client it keeps in any case.
LeakExplained ==
  \A t \in DOMAIN tasks :
    Done(t) /\ tasks[t].open \ {News} # {} => tasks[t].struck \cap {"indexing", "closing"} # {}

\* A loop that ended has no session open: stop_ingestion cancels it "and
\* release[s] its provider sessions".
SessionsReleased == \A t \in DOMAIN tasks : Done(t) => tasks[t].open = {}

\* Every stop returns, however many stops and starts there are: the loop ends.
StopReturns == \A c \in Callers : waiting[c] # NoTask ~> waiting[c] = NoTask
=============================================================================
