-------------------------- MODULE TimeSeriesStore --------------------------
(***************************************************************************)
(* TimeSeriesDatabase in every process that opens the file: one shared     *)
(* instance per process, a bounded number of attempts to open it for       *)
(* writing, then for reading.  Opening blocks the process: no other step   *)
(* of it comes in between.                                                 *)
(*                                                                         *)
(* An instance is a number, and its connection is "none" before _connect   *)
(* has succeeded and after close.                                          *)
(***************************************************************************)
EXTENDS Integers, FiniteSets

CONSTANTS
  Processes,
  Pipelines,    \* the TradingSystemPipelines a process constructs
  MaxRetries,   \* max_retries (5)
  Instances     \* bound: the numbers an instance can have

ASSUME StoreAssumption ==
  /\ MaxRetries \in Nat \ {0}
  /\ Instances \subseteq Nat \ {0}

VARIABLES
  file,      \* the database file exists
  shared,    \* the processes see the same file
  opening,   \* of a process: how far its _connect is
  registry,  \* of a process: its entry in _INSTANCES, 0 for none
  conn,      \* of a process and an instance: its connection
  handle,    \* of a process and a holder: the instance it was given, 0 for none
  reclosed   \* of a process: a holder has closed what had been closed before

storeVars == <<file, shared, opening, registry, conn, handle, reclosed>>

Holders == {"main"} \cup Pipelines

NotOpening == [holder |-> "nobody", mode |-> "none", attempt |-> 0]

Held(p) == {conn[p][i] : i \in Instances} \ {"none"}

\* DuckDB opens a file for writing in one process alone, and for reading
\* beside other readers; within a process all connections are of one kind.
Lockable(p, mode) ==
  /\ Held(p) \subseteq {mode}
  /\ shared => \A q \in Processes \ {p} : Held(q) \subseteq (IF mode = "rw" THEN {} ELSE {"ro"})

\* insert_candles writes; otherwise it returns 0, and says nothing.
Writes(p, h) == handle[p][h] # 0 /\ conn[p][handle[p][h]] = "rw"

Initialized(p) == registry[p] # 0 /\ conn[p][registry[p]] # "none"

Free(p) == Instances \ ({registry[p]} \cup {handle[p][h] : h \in Holders})

\* The constructor returns the instance of the path.  One whose constructor has
\* failed is still registered and goes through it again.
Construct(p, h) ==
  /\ opening[p] = NotOpening
  /\ handle[p][h] # 0 => conn[p][handle[p][h]] = "none"
  /\ IF registry[p] # 0
     THEN /\ handle' = [handle EXCEPT ![p][h] = registry[p]]
          /\ UNCHANGED registry
     ELSE \E i \in Free(p) :
            /\ \A j \in Free(p) : i <= j
            /\ registry' = [registry EXCEPT ![p] = i]
            /\ handle' = [handle EXCEPT ![p][h] = i]
  /\ opening' = IF Initialized(p) THEN opening
                ELSE [opening EXCEPT ![p] = [holder |-> h, mode |-> "rw", attempt |-> 1]]
  /\ UNCHANGED <<file, shared, conn, reclosed>>

Connected(p) ==
  /\ opening[p] # NotOpening /\ Lockable(p, opening[p].mode)
  /\ opening[p].mode = "ro" => file
  /\ conn' = [conn EXCEPT ![p][registry[p]] = opening[p].mode]
  /\ file' = TRUE
  /\ opening' = [opening EXCEPT ![p] = NotOpening]
  /\ UNCHANGED <<shared, registry, handle, reclosed>>

\* An attempt fails, for the lock or any other trouble.
Retried(at) == [at EXCEPT !.attempt = @ + 1]

Retry(p) ==
  /\ opening[p] # NotOpening /\ opening[p].attempt < MaxRetries
  /\ opening' = [opening EXCEPT ![p] = Retried(@)]
  /\ UNCHANGED <<file, shared, registry, conn, handle, reclosed>>

\* The last attempt to open it for writing: read-only from now on.
FallBack(p) ==
  /\ opening[p].mode = "rw" /\ opening[p].attempt = MaxRetries /\ file
  /\ opening' = [opening EXCEPT ![p] = [@ EXCEPT !.mode = "ro", !.attempt = 1]]
  /\ UNCHANGED <<file, shared, registry, conn, handle, reclosed>>

\* _connect raises, and its caller with it.
Raises(p) ==
  /\ opening[p].attempt = MaxRetries
  /\ opening[p].mode = "ro" \/ (opening[p].mode = "rw" /\ ~file)

OpenFails(p) ==
  /\ Raises(p)
  /\ opening' = [opening EXCEPT ![p] = NotOpening]
  /\ handle' = [handle EXCEPT ![p][opening[p].holder] = 0]
  /\ UNCHANGED <<file, shared, registry, conn, reclosed>>

\* Variant: the entry is removed and the connection left open.
ClosedNot(conns, i) == conns

Closed(conns, i) == [conns EXCEPT ![i] = "none"]

\* close, which also removes the entry of the path, whichever instance it is by
\* then.  The other holders of the instance keep it, without a connection.
Close(p, h) ==
  /\ opening[p] = NotOpening /\ handle[p][h] # 0
  /\ LET i == handle[p][h]
     IN  /\ conn' = [conn EXCEPT ![p] = Closed(@, i)]
         /\ registry' = [registry EXCEPT ![p] = 0]
         /\ reclosed' = [reclosed EXCEPT ![p] = @ \/ conn[p][i] = "none"]
  /\ UNCHANGED <<file, shared, opening, handle>>

\* The process ends, and its connections with it.
StoreGone(p) ==
  /\ opening' = [opening EXCEPT ![p] = NotOpening]
  /\ registry' = [registry EXCEPT ![p] = 0]
  /\ conn' = [conn EXCEPT ![p] = [i \in Instances |-> "none"]]
  /\ handle' = [handle EXCEPT ![p] = [h \in Holders |-> 0]]
  /\ reclosed' = [reclosed EXCEPT ![p] = FALSE]
  /\ UNCHANGED <<file, shared>>

StoreInit ==
  /\ file \in BOOLEAN /\ shared \in BOOLEAN
  /\ opening = [p \in Processes |-> NotOpening]
  /\ registry = [p \in Processes |-> 0]
  /\ conn = [p \in Processes |-> [i \in Instances |-> "none"]]
  /\ handle = [p \in Processes |-> [h \in Holders |-> 0]]
  /\ reclosed = [p \in Processes |-> FALSE]

\* A process holds the file open once, as the module promises, unless a holder
\* has closed a second time: that takes an instance of others out of _INSTANCES.
OpenedOnce ==
  \A p \in Processes : ~reclosed[p] => Cardinality({i \in Instances : conn[p][i] # "none"}) <= 1

\* Two processes that have the file open write nothing, both of them.
NobodyWritesTogether ==
  shared => \A p, q \in Processes :
    p # q /\ Held(p) # {} /\ Held(q) # {} => \A h \in Holders : ~Writes(p, h)
=============================================================================
