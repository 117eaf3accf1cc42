------------------------------ MODULE RedisBus ------------------------------
(***************************************************************************)
(* RedisStreamEventBus in several processes: one stream, one consumer      *)
(* group for all of them.  Entries are numbered in the order of their XADD *)
(* and every XREADGROUP reads only what nobody was given yet, so what a    *)
(* consumer was given and did not handle is never given to anyone again;   *)
(* whether it was acknowledged makes no difference, and is left out.       *)
(*                                                                         *)
(* Every subscription, that is a pattern with a handler, gets a task of its*)
(* own for an entry that matches.  The model follows one of them: a handler*)
(* that a process subscribed under two patterns is two subscriptions, and  *)
(* what is said here of an event holds for each.                           *)
(***************************************************************************)
EXTENDS Integers, Sequences, SequencesExt, FiniteSetsExt

CONSTANTS
  Consumers,     \* the processes
  ReadCount,     \* entries of a read (50)
  MaxMessages    \* bound: entries of the stream

ASSUME BusAssumption == ReadCount \in Nat \ {0} /\ MaxMessages \in Nat

VARIABLES
  stream,  \* the number of entries
  cursor,  \* how many of them the group was given
  bus,     \* of a process: [on, linked, heard, batch]
  tasks,   \* of a process: the events whose handler has not started
  taker,   \* of an entry: the process that was given it
  calls,   \* of an entry: how often a handler was started for it
  flawed   \* of a process and an entry: it was given the entry and was cut off or
           \* ended before it could handle it, or had no handler for it

busVars == <<stream, cursor, bus, tasks, taker, calls, flawed>>

Messages == 1 .. MaxMessages

BusOff == [on |-> FALSE, linked |-> FALSE, heard |-> FALSE, batch |-> << >>]

\* start; when Redis cannot be reached the listener goes on trying.
BusStart(p) ==
  /\ \E up \in BOOLEAN : bus' = [bus EXCEPT ![p] = [BusOff EXCEPT !.on = TRUE, !.linked = up]]
  /\ UNCHANGED <<stream, cursor, tasks, taker, calls, flawed>>

\* subscribe, for a topic that matches the events.
BusSubscribe(p) ==
  /\ bus[p].on /\ ~bus[p].heard
  /\ bus' = [bus EXCEPT ![p].heard = TRUE]
  /\ UNCHANGED <<stream, cursor, tasks, taker, calls, flawed>>

\* Without a connection, or when XADD fails, the event is dropped.
BusPublish(p) ==
  /\ bus[p].on /\ bus[p].linked
  /\ stream < MaxMessages
  /\ stream' = stream + 1
  /\ UNCHANGED <<cursor, bus, tasks, taker, calls, flawed>>

Lost(p, entries) == flawed \cup ({p} \X entries)

\* Variant: a read begins with the last entry that was given.
GivenBefore == IF cursor = 0 THEN 0 ELSE cursor - 1

\* ">": a read begins behind the entries that anyone was given.
Given == cursor

\* XREADGROUP.  When the connection breaks before the reply, the group counts
\* the entries as given all the same.
BusRead(p) ==
  /\ bus[p].on /\ bus[p].linked /\ bus[p].batch = << >> /\ cursor < stream
  /\ LET last == Min({stream, cursor + ReadCount})
     IN  /\ cursor' = last
         /\ taker' = [m \in Messages |-> IF m \in cursor + 1 .. last THEN p ELSE taker[m]]
         /\ \/ /\ bus' = [bus EXCEPT ![p].batch = [i \in 1 .. last - Given |-> Given + i]]
               /\ UNCHANGED flawed
            \/ /\ bus' = [bus EXCEPT ![p].linked = FALSE]
               /\ flawed' = Lost(p, cursor + 1 .. last)
  /\ UNCHANGED <<stream, tasks, calls>>

\* Variant: the entry after a handled one is skipped.
RestSkipped(batch) == SubSeq(batch, 3, Len(batch))

Rest(batch) == Tail(batch)

Unheard(p) == IF bus[p].heard THEN {} ELSE {Head(bus[p].batch)}

\* The subscriptions that match an entry get their tasks, then it is
\* acknowledged.  An error of that ends the walk through the batch.
BusDispatch(p) ==
  /\ bus[p].on /\ bus[p].batch # << >>
  /\ tasks' = IF bus[p].heard THEN [tasks EXCEPT ![p] = Append(@, Head(bus[p].batch))] ELSE tasks
  /\ \/ /\ bus' = [bus EXCEPT ![p].batch = Rest(@)]
        /\ flawed' = Lost(p, Unheard(p))
     \/ /\ \E up \in BOOLEAN : bus' = [bus EXCEPT ![p].batch = << >>, ![p].linked = up]
        /\ flawed' = Lost(p, Unheard(p) \cup Range(Tail(bus[p].batch)))
  /\ UNCHANGED <<stream, cursor, taker, calls>>

\* A task starts; what its handler raises nobody sees.
BusHandle(p) ==
  /\ tasks[p] # << >>
  /\ tasks' = [tasks EXCEPT ![p] = Tail(@)]
  /\ calls' = [calls EXCEPT ![Head(tasks[p])] = @ + 1]
  /\ UNCHANGED <<stream, cursor, bus, taker, flawed>>

BusReconnect(p) ==
  /\ bus[p].on /\ ~bus[p].linked /\ bus[p].batch = << >>
  /\ bus' = [bus EXCEPT ![p].linked = TRUE]
  /\ UNCHANGED <<stream, cursor, tasks, taker, calls, flawed>>

\* stop, or the end of the process: the listener is cancelled wherever it is,
\* and no task starts any more.
BusGone(p) ==
  /\ bus' = [bus EXCEPT ![p] = BusOff]
  /\ tasks' = [tasks EXCEPT ![p] = << >>]
  /\ flawed' = Lost(p, Range(bus[p].batch) \cup Range(tasks[p]))
  /\ UNCHANGED <<stream, cursor, taker, calls>>

BusInit ==
  /\ stream = 0 /\ cursor = 0
  /\ bus = [p \in Consumers |-> BusOff]
  /\ tasks = [p \in Consumers |-> << >>]
  /\ taker = [m \in Messages |-> "nobody"]
  /\ calls = [m \in Messages |-> 0]
  /\ flawed = {}

\* The entries some process may still handle.
OpenMessages ==
  cursor + 1 .. stream \cup UNION {Range(bus[p].batch) \cup Range(tasks[p]) : p \in Consumers}
=============================================================================
