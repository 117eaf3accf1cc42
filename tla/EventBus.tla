------------------------------ MODULE EventBus ------------------------------
(***************************************************************************)
(* The in-process event bus (EventBus in app/core/bus.py) with the         *)
(* publishers and handlers of the trading pipeline around it               *)
(* (app/pipeline.py): a bounded asyncio queue, one worker that hands every *)
(* event to all matching handlers at once and waits for them, and handlers *)
(* that may publish events themselves.                                     *)
(*                                                                         *)
(* An event is its topic.  A subscription is a pattern with a handler;     *)
(* Listens gives the topics its pattern matches.  A cancelled worker and   *)
(* its handlers do nothing more, so stop is one step.                      *)
(***************************************************************************)
EXTENDS Integers, Sequences, FiniteSets

CONSTANTS
  Topics,
  Publishers,      \* the tasks that publish from outside
  Subscriptions,
  Listens,         \* Listens[s]: the topics subscription s matches
  Emits,           \* Emits[s]: the topics the handler of s may publish
  MaxQueue         \* max_queue_size

Nothing == "nothing"  \* no event waits to be put
Gather == "gather"    \* the publisher waits for the handlers it called
Worker == "worker"

ASSUME BusAssumption ==
  /\ Listens \in [Subscriptions -> SUBSET Topics]
  /\ Emits \in [Subscriptions -> SUBSET Topics]
  /\ MaxQueue \in Nat \ {0}
  /\ Nothing \notin Topics /\ Gather \notin Topics
  /\ Worker \notin Publishers

VARIABLES
  subscribed,  \* _subscribers
  queue,       \* _queue
  running,     \* _running: then there is a worker
  wants,       \* the event each publisher waits to put, Gather, or Nothing
  calls,       \* the handler calls in progress
  sent,        \* history: every event that was put
  taken        \* history: how many the worker took

vars == <<subscribed, queue, running, wants, calls, sent, taken>>

\* by: the task that gathers the call; wants: the event it waits to put.
Call == [by : Publishers \cup {Worker}, sub : Subscriptions, wants : Topics \cup {Nothing}]

CallsBy(t) == {c \in calls : c.by = t}

Full == Len(queue) >= MaxQueue

-----------------------------------------------------------------------------
(***************************************************************************)
(* subscribe, unsubscribe, start, stop.                                    *)
(***************************************************************************)
Subscribe(s) ==
  /\ s \notin subscribed
  /\ subscribed' = subscribed \cup {s}
  /\ UNCHANGED <<queue, running, wants, calls, sent, taken>>

Unsubscribe(s) ==
  /\ s \in subscribed
  /\ subscribed' = subscribed \ {s}
  /\ UNCHANGED <<queue, running, wants, calls, sent, taken>>

Start ==
  /\ ~running
  /\ running' = TRUE
  /\ UNCHANGED <<subscribed, queue, wants, calls, sent, taken>>

\* Variant: the handlers of the event in dispatch go on.
StopKeeps ==
  /\ running
  /\ running' = FALSE
  /\ UNCHANGED <<subscribed, queue, wants, calls, sent, taken>>

\* What is queued stays queued; the event in dispatch is cut short.
Stop ==
  /\ running
  /\ running' = FALSE
  /\ calls' = calls \ CallsBy(Worker)
  /\ UNCHANGED <<subscribed, queue, wants, sent, taken>>

-----------------------------------------------------------------------------
(***************************************************************************)
(* publish.  put waits while the queue is full: it never raises QueueFull, *)
(* so no event is dropped.  Nobody is served first.                        *)
(***************************************************************************)

\* Variant: the bound is checked after the event has been put.
PutOver(topic) ==
  /\ Len(queue) <= MaxQueue
  /\ queue' = Append(queue, topic)
  /\ sent' = Append(sent, topic)

Put(topic) ==
  /\ ~Full
  /\ queue' = Append(queue, topic)
  /\ sent' = Append(sent, topic)

Publish(p, topic) ==
  /\ wants[p] = Nothing
  /\ \/ Put(topic) /\ UNCHANGED wants
     \/ Full /\ wants' = [wants EXCEPT ![p] = topic] /\ UNCHANGED <<queue, sent>>
  /\ UNCHANGED <<subscribed, running, calls, taken>>

PutWaiting(p) ==
  /\ wants[p] \in Topics
  /\ Put(wants[p])
  /\ wants' = [wants EXCEPT ![p] = Nothing]
  /\ UNCHANGED <<subscribed, running, calls, taken>>

\* _dispatch_event: the calls that task t gathers for an event.
Dispatched(t, topic) ==
  {[by |-> t, sub |-> s, wants |-> Nothing] :
     s \in {r \in subscribed : topic \in Listens[r]}}

\* publish_immediate: the publisher waits for the handlers, past the queue.
PublishImmediate(p, topic) ==
  /\ wants[p] = Nothing
  /\ calls' = calls \cup Dispatched(p, topic)
  /\ wants' = IF Dispatched(p, topic) = {} THEN wants ELSE [wants EXCEPT ![p] = Gather]
  /\ UNCHANGED <<subscribed, queue, running, sent, taken>>

\* Variant: the worker does not wait for the handlers.
DispatchAhead ==
  /\ running /\ queue # << >>
  /\ queue' = Tail(queue)
  /\ taken' = taken + 1
  /\ calls' = calls \cup Dispatched(Worker, Head(queue))
  /\ UNCHANGED <<subscribed, running, wants, sent>>

\* Variant: the worker takes the latest event.
DispatchLast ==
  /\ running /\ CallsBy(Worker) = {} /\ queue # << >>
  /\ queue' = SubSeq(queue, 1, Len(queue) - 1)
  /\ taken' = taken + 1
  /\ calls' = calls \cup Dispatched(Worker, queue[Len(queue)])
  /\ UNCHANGED <<subscribed, running, wants, sent>>

\* Variant: the worker is through after one event.
DispatchOnce ==
  /\ running /\ taken = 0 /\ queue # << >>
  /\ queue' = Tail(queue)
  /\ taken' = taken + 1
  /\ calls' = calls \cup Dispatched(Worker, Head(queue))
  /\ UNCHANGED <<subscribed, running, wants, sent>>

\* _worker_loop: the next event, when the handlers of the last one are through.
Dispatch ==
  /\ running /\ CallsBy(Worker) = {} /\ queue # << >>
  /\ queue' = Tail(queue)
  /\ taken' = taken + 1
  /\ calls' = calls \cup Dispatched(Worker, Head(queue))
  /\ UNCHANGED <<subscribed, running, wants, sent>>

-----------------------------------------------------------------------------
(***************************************************************************)
(* A handler call.                                                         *)
(***************************************************************************)
HandlerPublishes(c, topic) ==
  /\ c.wants = Nothing /\ topic \in Emits[c.sub]
  /\ \/ Put(topic) /\ UNCHANGED calls
     \/ /\ Full
        /\ calls' = (calls \ {c}) \cup {[c EXCEPT !.wants = topic]}
        /\ UNCHANGED <<queue, sent>>
  /\ UNCHANGED <<subscribed, running, wants, taken>>

\* Variant: the event is dropped.
HandlerDrops(c) ==
  /\ c.wants # Nothing
  /\ calls' = (calls \ {c}) \cup {[c EXCEPT !.wants = Nothing]}
  /\ UNCHANGED <<subscribed, queue, running, wants, sent, taken>>

HandlerPuts(c) ==
  /\ c.wants # Nothing
  /\ Put(c.wants)
  /\ calls' = (calls \ {c}) \cup {[c EXCEPT !.wants = Nothing]}
  /\ UNCHANGED <<subscribed, running, wants, taken>>

\* It returns, or it raises and _safe_call_handler logs that.  With its last
\* handler a publisher that called them goes on.
HandlerEnds(c) ==
  /\ c.wants = Nothing
  /\ calls' = calls \ {c}
  /\ wants' = IF c.by # Worker /\ CallsBy(c.by) = {c}
              THEN [wants EXCEPT ![c.by] = Nothing] ELSE wants
  /\ UNCHANGED <<subscribed, queue, running, sent, taken>>

-----------------------------------------------------------------------------
Init ==
  /\ subscribed \in SUBSET Subscriptions
  /\ queue = << >> /\ running = FALSE
  /\ wants = [p \in Publishers |-> Nothing]
  /\ calls = {} /\ sent = << >> /\ taken = 0

Publishing ==
  \/ \E p \in Publishers, topic \in Topics : Publish(p, topic)
  \/ \E c \in calls, topic \in Topics : HandlerPublishes(c, topic)

Next ==
  \/ \E s \in Subscriptions : Subscribe(s) \/ Unsubscribe(s)
  \/ Start \/ Stop \/ Dispatch
  \/ Publishing
  \/ \E p \in Publishers : PutWaiting(p)
  \/ \E p \in Publishers, topic \in Topics : PublishImmediate(p, topic)
  \/ \E c \in calls : HandlerPuts(c) \/ HandlerEnds(c)

Spec == Init /\ [][Next]_vars

\* The event loop runs whoever can go on; a handler ends some time.  That is
\* not enough for a publisher that others overtake without end: asyncio lets
\* whoever comes first have the room in the queue.
Fairness ==
  /\ WF_vars(Dispatch)
  /\ \A p \in Publishers : WF_vars(PutWaiting(p))
  /\ \A c \in Call : /\ WF_vars(c \in calls /\ HandlerPuts(c))
                     /\ WF_vars(c \in calls /\ HandlerEnds(c))

-----------------------------------------------------------------------------
(***************************************************************************)
(* Properties.                                                             *)
(***************************************************************************)

\* The variables have their types; the queue keeps its bound, also when those
\* who waited put their events; calls of the worker need a worker; a publisher
\* gathers as long as calls of its are in progress.
TypeOK ==
  /\ subscribed \subseteq Subscriptions
  /\ queue \in Seq(Topics) /\ Len(queue) <= MaxQueue
  /\ running \in BOOLEAN
  /\ wants \in [Publishers -> Topics \cup {Nothing, Gather}]
  /\ calls \subseteq Call
  /\ CallsBy(Worker) # {} => running
  /\ \A p \in Publishers : wants[p] = Gather <=> CallsBy(p) # {}
  /\ sent \in Seq(Topics) /\ taken \in 0 .. Len(sent)

Channel == INSTANCE EventChannel
             WITH Capacity <- MaxQueue, busy <- (CallsBy(Worker) # {})

\* The bus is a bounded queue with one reader: in order, each event once, one
\* at a time, and nothing accepted is lost but by a stop in its dispatch.
KeepsOrder == Channel!ChannelSpec

\* Every event in the queue is the next the worker has not taken.
QueueIsRest ==
  /\ Len(queue) = Len(sent) - taken
  /\ \A i \in DOMAIN queue : queue[i] = sent[taken + i]

\* The worker waits for handlers that wait for room in its own queue.
Stuck ==
  /\ running /\ Full
  /\ \E c \in CallsBy(Worker) : c.wants # Nothing

\* Nothing but stopping the bus frees a worker that waits for itself, whatever
\* publishers, other handlers and subscriptions do.
StuckForGood == [][ Stuck => Stuck' \/ ~running' ]_vars

\* A publish that found the queue full gets its event in, unless the bus is
\* stopped or waits for itself.
PublishReturnsOrStuck ==
  \A p \in Publishers : wants[p] \in Topics ~> wants[p] = Nothing \/ ~running \/ Stuck

\* A publish returns while the bus runs: it would otherwise be "Event bus queue
\* full! Dropping event".
PublishReturns ==
  \A p \in Publishers : wants[p] \in Topics ~> wants[p] = Nothing \/ ~running
=============================================================================
