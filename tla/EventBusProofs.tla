--------------------------- MODULE EventBusProofs ---------------------------
(***************************************************************************)
(* Theorems about the event bus, for every set of publishers and           *)
(* subscriptions, every capacity and any number of events.                 *)
(***************************************************************************)
EXTENDS EventBus, TLAPS

Inv == TypeOK /\ QueueIsRest

-----------------------------------------------------------------------------
(***************************************************************************)
(* The queue against the history.                                          *)
(***************************************************************************)
LEMMA PutKeeps ==
  ASSUME Inv, NEW topic \in Topics, Put(topic), taken' = taken
  PROVE  /\ queue' \in Seq(Topics) /\ Len(queue') <= MaxQueue /\ sent' \in Seq(Topics)
         /\ taken' \in 0 .. Len(sent') /\ QueueIsRest'
<1>1. /\ queue \in Seq(Topics) /\ sent \in Seq(Topics) /\ taken \in 0 .. Len(sent)
      /\ Len(queue) = Len(sent) - taken
      /\ \A i \in DOMAIN queue : queue[i] = sent[taken + i]
  BY DEF Inv, TypeOK, QueueIsRest
<1>2. queue' = Append(queue, topic) /\ sent' = Append(sent, topic) /\ Len(queue) < MaxQueue
  BY <1>1, BusAssumption DEF Put, Full
<1>3. /\ queue' \in Seq(Topics) /\ Len(queue') = Len(queue) + 1
      /\ sent' \in Seq(Topics) /\ Len(sent') = Len(sent) + 1
  BY <1>1, <1>2
<1>4. Len(queue') <= MaxQueue /\ taken' \in 0 .. Len(sent') /\ Len(queue') = Len(sent') - taken'
  BY <1>1, <1>2, <1>3, BusAssumption
<1>5. ASSUME NEW i \in DOMAIN queue' PROVE queue'[i] = sent'[taken' + i]
  BY <1>1, <1>2, <1>3
<1>6. QED
  BY <1>3, <1>4, <1>5 DEF QueueIsRest

LEMMA TakeKeeps ==
  ASSUME Inv, queue # << >>, queue' = Tail(queue), taken' = taken + 1, sent' = sent
  PROVE  /\ queue' \in Seq(Topics) /\ Len(queue') <= MaxQueue /\ Head(queue) \in Topics
         /\ taken < Len(sent) /\ taken' \in 0 .. Len(sent') /\ QueueIsRest'
<1>1. /\ queue \in Seq(Topics) /\ sent \in Seq(Topics) /\ taken \in 0 .. Len(sent)
      /\ Len(queue) = Len(sent) - taken /\ Len(queue) <= MaxQueue
      /\ \A i \in DOMAIN queue : queue[i] = sent[taken + i]
  BY DEF Inv, TypeOK, QueueIsRest
<1>2. queue' \in Seq(Topics) /\ Len(queue') = Len(queue) - 1 /\ Len(queue) > 0
      /\ Head(queue) \in Topics
  BY <1>1
<1>3. taken < Len(sent) /\ taken' \in 0 .. Len(sent') /\ Len(queue') = Len(sent') - taken'
      /\ Len(queue') <= MaxQueue
  BY <1>1, <1>2, BusAssumption
<1>4. ASSUME NEW i \in DOMAIN queue' PROVE queue'[i] = sent'[taken' + i]
  <2>1. i \in 1 .. Len(queue) - 1 /\ i + 1 \in DOMAIN queue
    BY <1>1, <1>2
  <2>2. queue'[i] = queue[i + 1]
    BY <1>1, <1>2, <2>1
  <2>3. queue[i + 1] = sent[taken + (i + 1)]
    BY <1>1, <2>1
  <2>4. taken + (i + 1) = taken' + i
    BY <1>1, <2>1
  <2>5. QED
    BY <2>2, <2>3, <2>4
<1>5. QED
  BY <1>2, <1>3, <1>4 DEF QueueIsRest

\* The part of the type invariant about those who call and wait.
CallersOK ==
  /\ wants \in [Publishers -> Topics \cup {Nothing, Gather}]
  /\ calls \subseteq Call
  /\ CallsBy(Worker) # {} => running
  /\ \A p \in Publishers : wants[p] = Gather <=> CallsBy(p) # {}

-----------------------------------------------------------------------------
LEMMA InitInv == Init => Inv
<1> SUFFICES ASSUME Init PROVE Inv
  OBVIOUS
<1>1. queue \in Seq(Topics) /\ sent \in Seq(Topics) /\ Len(queue) = 0 /\ Len(sent) = 0
  BY DEF Init
<1>2. QueueIsRest
  BY <1>1 DEF Init, QueueIsRest
<1>3. CallersOK
  BY BusAssumption DEF Init, CallersOK, CallsBy, Nothing, Gather
<1>4. taken \in 0 .. Len(sent) /\ Len(queue) <= MaxQueue
  BY <1>1, BusAssumption DEF Init
<1>5. QED
  BY <1>1, <1>2, <1>3, <1>4 DEF Init, Inv, TypeOK, CallersOK

\* A call that begins or ceases to wait is still a call of the same task.
LEMMA CallChanges ==
  ASSUME Inv, NEW c \in calls, NEW w \in Topics \cup {Nothing},
         calls' = (calls \ {c}) \cup {[c EXCEPT !.wants = w]}
  PROVE  /\ calls' \subseteq Call
         /\ \A t \in Publishers \cup {Worker} : CallsBy(t)' # {} <=> CallsBy(t) # {}
<1> DEFINE d == [c EXCEPT !.wants = w]
<1>1. c \in Call
  BY DEF Inv, TypeOK
<1>2. d \in Call /\ d.by = c.by
  BY <1>1 DEF Call
<1>3. calls' = (calls \ {c}) \cup {d}
  OBVIOUS
<1> HIDE DEF d
<1>4. QED
  BY <1>1, <1>2, <1>3 DEF Inv, TypeOK, CallsBy

LEMMA PublishStep ==
  ASSUME Inv, NEW p \in Publishers, NEW topic \in Topics, Publish(p, topic) PROVE Inv'
<1>1. CASE Put(topic) /\ UNCHANGED wants
  <2>1. UNCHANGED <<subscribed, running, calls, taken, wants>>
    BY <1>1 DEF Publish
  <2>2. QED
    BY <1>1, <2>1, PutKeeps DEF Inv, TypeOK, CallsBy
<1>2. CASE Full /\ wants' = [wants EXCEPT ![p] = topic] /\ UNCHANGED <<queue, sent>>
  <2>1. UNCHANGED <<subscribed, running, calls, taken, queue, sent>> /\ wants[p] = Nothing
    BY <1>2 DEF Publish
  <2>2. topic # Gather /\ Nothing # Gather
    BY BusAssumption DEF Nothing, Gather
  <2>3. CallersOK'
    BY <1>2, <2>1, <2>2 DEF Inv, TypeOK, CallersOK, CallsBy
  <2>4. QED
    BY <2>1, <2>3 DEF Inv, TypeOK, QueueIsRest, CallersOK
<1>3. QED
  BY <1>1, <1>2 DEF Publish

LEMMA PutWaitingStep == ASSUME Inv, NEW p \in Publishers, PutWaiting(p) PROVE Inv'
<1>1. /\ wants[p] \in Topics /\ Put(wants[p]) /\ wants' = [wants EXCEPT ![p] = Nothing]
      /\ UNCHANGED <<subscribed, running, calls, taken>>
  BY DEF PutWaiting
<1>2. wants[p] # Gather /\ Nothing # Gather
  BY <1>1, BusAssumption DEF Nothing, Gather
<1>3. CallersOK'
  BY <1>1, <1>2 DEF Inv, TypeOK, CallersOK, CallsBy
<1>4. QED
  BY <1>1, <1>3, PutKeeps DEF Inv, TypeOK, CallersOK

\* The calls gathered by one task are calls of that task.
LEMMA DispatchedBy ==
  ASSUME Inv, NEW t \in Publishers \cup {Worker}, NEW topic \in Topics
  PROVE  /\ Dispatched(t, topic) \subseteq Call
         /\ \A c \in Dispatched(t, topic) : c.by = t
BY DEF Inv, TypeOK, Dispatched, Call

LEMMA PublishImmediateStep ==
  ASSUME Inv, NEW p \in Publishers, NEW topic \in Topics, PublishImmediate(p, topic)
  PROVE  Inv'
<1> DEFINE new == Dispatched(p, topic)
<1>1. /\ wants[p] = Nothing /\ calls' = calls \cup new
      /\ wants' = IF new = {} THEN wants ELSE [wants EXCEPT ![p] = Gather]
      /\ UNCHANGED <<subscribed, queue, running, sent, taken>>
  BY DEF PublishImmediate
<1>2. new \subseteq Call /\ \A c \in new : c.by = p
  BY DispatchedBy
<1> HIDE DEF new
<1>3. p # Worker /\ Nothing # Gather
  BY BusAssumption DEF Nothing, Gather
<1>4. CallsBy(Worker)' = CallsBy(Worker)
  BY <1>1, <1>2, <1>3 DEF CallsBy
<1>5. \A q \in Publishers \ {p} : CallsBy(q)' = CallsBy(q) /\ wants'[q] = wants[q]
  BY <1>1, <1>2 DEF CallsBy, Inv, TypeOK
<1>6. CallsBy(p) = {}
  BY <1>1, <1>3 DEF Inv, TypeOK
<1>7. CallsBy(p)' = new
  BY <1>1, <1>2, <1>6 DEF CallsBy
<1>8. wants' \in [Publishers -> Topics \cup {Nothing, Gather}]
      /\ (wants'[p] = Gather <=> new # {})
  BY <1>1, <1>3 DEF Inv, TypeOK
<1>9. CallersOK'
  BY <1>1, <1>2, <1>4, <1>5, <1>7, <1>8 DEF Inv, TypeOK, CallersOK
<1>10. QED
  BY <1>1, <1>9 DEF Inv, TypeOK, QueueIsRest, CallersOK

LEMMA DispatchStep == ASSUME Inv, Dispatch PROVE Inv'
<1> DEFINE new == Dispatched(Worker, Head(queue))
<1>1. /\ running /\ CallsBy(Worker) = {} /\ queue # << >> /\ queue' = Tail(queue)
      /\ taken' = taken + 1 /\ calls' = calls \cup new
      /\ UNCHANGED <<subscribed, running, wants, sent>>
  BY DEF Dispatch
<1>2. Head(queue) \in Topics
  BY <1>1, TakeKeeps
<1>3. new \subseteq Call /\ \A c \in new : c.by = Worker
  BY <1>2, DispatchedBy
<1> HIDE DEF new
<1>4. \A q \in Publishers : CallsBy(q)' = CallsBy(q)
  BY <1>1, <1>3, BusAssumption DEF CallsBy
<1>5. CallersOK'
  BY <1>1, <1>3, <1>4 DEF Inv, TypeOK, CallersOK
<1>6. QED
  BY <1>1, <1>5, TakeKeeps DEF Inv, TypeOK, CallersOK
-----------------------------------------------------------------------------
LEMMA HandlerPublishesStep ==
  ASSUME Inv, NEW c \in calls, NEW topic \in Topics, HandlerPublishes(c, topic) PROVE Inv'
<1>1. CASE Put(topic) /\ UNCHANGED calls
  <2>1. UNCHANGED <<subscribed, running, wants, taken, calls>>
    BY <1>1 DEF HandlerPublishes
  <2>2. QED
    BY <1>1, <2>1, PutKeeps DEF Inv, TypeOK, CallsBy
<1>2. CASE /\ calls' = (calls \ {c}) \cup {[c EXCEPT !.wants = topic]}
           /\ UNCHANGED <<queue, sent>>
  <2>1. UNCHANGED <<subscribed, running, wants, taken, queue, sent>>
    BY <1>2 DEF HandlerPublishes
  <2>2. calls' = (calls \ {c}) \cup {[c EXCEPT !.wants = topic]} /\ topic \in Topics \cup {Nothing}
    BY <1>2
  <2>3. CallersOK'
    BY <2>1, <2>2, CallChanges DEF Inv, TypeOK, CallersOK
  <2>4. QED
    BY <2>1, <2>3 DEF Inv, TypeOK, QueueIsRest, CallersOK
<1>3. QED
  BY <1>1, <1>2 DEF HandlerPublishes

LEMMA HandlerPutsStep == ASSUME Inv, NEW c \in calls, HandlerPuts(c) PROVE Inv'
<1>1. /\ Put(c.wants) /\ calls' = (calls \ {c}) \cup {[c EXCEPT !.wants = Nothing]}
      /\ UNCHANGED <<subscribed, running, wants, taken>>
  BY DEF HandlerPuts
<1>2. c.wants \in Topics
  BY DEF HandlerPuts, Inv, TypeOK, Call
<1>3. CallersOK'
  BY <1>1, CallChanges DEF Inv, TypeOK, CallersOK
<1>4. QED
  BY <1>1, <1>2, <1>3, PutKeeps DEF Inv, TypeOK, CallersOK

LEMMA HandlerEndsStep == ASSUME Inv, NEW c \in calls, HandlerEnds(c) PROVE Inv'
<1>1. /\ calls' = calls \ {c}
      /\ wants' = IF c.by # Worker /\ CallsBy(c.by) = {c}
                  THEN [wants EXCEPT ![c.by] = Nothing] ELSE wants
      /\ UNCHANGED <<subscribed, queue, running, sent, taken>>
  BY DEF HandlerEnds
<1>2. c \in Call /\ c.by \in Publishers \cup {Worker}
  BY DEF Inv, TypeOK, Call
<1>3. \A t \in Publishers \cup {Worker} : CallsBy(t)' = CallsBy(t) \ {c}
  BY <1>1 DEF CallsBy
<1>4. \A t \in Publishers \cup {Worker} : t # c.by => c \notin CallsBy(t)
  BY DEF CallsBy
<1>5. c \in CallsBy(c.by)
  BY DEF CallsBy
<1>6. wants' \in [Publishers -> Topics \cup {Nothing, Gather}]
  BY <1>1, <1>2 DEF Inv, TypeOK
<1>7. ASSUME NEW p \in Publishers PROVE wants'[p] = Gather <=> CallsBy(p)' # {}
  <2>1. p # Worker /\ Nothing # Gather
    BY BusAssumption DEF Nothing, Gather
  <2>2. CASE p # c.by
    <3>1. wants'[p] = wants[p]
      BY <1>1, <2>2 DEF Inv, TypeOK
    <3>2. CallsBy(p)' = CallsBy(p)
      BY <1>3, <1>4, <2>2
    <3>3. QED
      BY <3>1, <3>2 DEF Inv, TypeOK
  <2>3. CASE p = c.by /\ CallsBy(p) = {c}
    <3>1. wants'[p] = Nothing
      BY <1>1, <2>1, <2>3 DEF Inv, TypeOK
    <3>2. CallsBy(p)' = {}
      BY <1>3, <2>3
    <3>3. QED
      BY <2>1, <3>1, <3>2
  <2>4. CASE p = c.by /\ CallsBy(p) # {c}
    <3>1. wants' = wants
      BY <1>1, <2>4
    <3>2. CallsBy(p)' # {} /\ CallsBy(p) # {}
      BY <1>3, <1>5, <2>4
    <3>3. QED
      BY <3>1, <3>2 DEF Inv, TypeOK
  <2>5. QED
    BY <2>2, <2>3, <2>4
<1>8. CallersOK'
  BY <1>1, <1>3, <1>6, <1>7 DEF Inv, TypeOK, CallersOK
<1>9. QED
  BY <1>1, <1>8 DEF Inv, TypeOK, QueueIsRest, CallersOK

LEMMA StopStep == ASSUME Inv, Stop PROVE Inv'
<1>1. /\ running' = FALSE /\ calls' = calls \ CallsBy(Worker)
      /\ UNCHANGED <<subscribed, queue, wants, sent, taken>>
  BY DEF Stop
<1>2. CallsBy(Worker)' = {} /\ \A p \in Publishers : CallsBy(p)' = CallsBy(p)
  BY <1>1, BusAssumption DEF CallsBy
<1>3. CallersOK'
  BY <1>1, <1>2 DEF Inv, TypeOK, CallersOK
<1>4. QED
  BY <1>1, <1>3 DEF Inv, TypeOK, QueueIsRest, CallersOK

LEMMA QuietStep ==
  ASSUME Inv, subscribed' \subseteq Subscriptions, running' \in BOOLEAN, running => running',
         UNCHANGED <<queue, wants, calls, sent, taken>>
  PROVE  Inv'
BY DEF Inv, TypeOK, QueueIsRest, CallsBy

LEMMA NextInv == Inv /\ [Next]_vars => Inv'
<1> SUFFICES ASSUME Inv, [Next]_vars PROVE Inv'
  OBVIOUS
<1>0. subscribed \subseteq Subscriptions /\ running \in BOOLEAN
  BY DEF Inv, TypeOK
<1>1. CASE \E s \in Subscriptions : Subscribe(s) \/ Unsubscribe(s)
  BY <1>0, <1>1, QuietStep DEF Subscribe, Unsubscribe
<1>2. CASE Start
  BY <1>0, <1>2, QuietStep DEF Start
<1>3. CASE Stop \/ Dispatch
  BY <1>3, StopStep, DispatchStep
<1>4. CASE Publishing
  BY <1>4, PublishStep, HandlerPublishesStep DEF Publishing
<1>5. CASE \E p \in Publishers : PutWaiting(p)
  BY <1>5, PutWaitingStep
<1>6. CASE \E p \in Publishers, topic \in Topics : PublishImmediate(p, topic)
  BY <1>6, PublishImmediateStep
<1>7. CASE \E c \in calls : HandlerPuts(c) \/ HandlerEnds(c)
  BY <1>7, HandlerPutsStep, HandlerEndsStep
<1>8. CASE UNCHANGED vars
  BY <1>8 DEF vars, Inv, TypeOK, QueueIsRest, CallsBy
<1>9. QED
  BY <1>1, <1>2, <1>3, <1>4, <1>5, <1>6, <1>7, <1>8 DEF Next

LEMMA InvHolds == Spec => []Inv
BY InitInv, NextInv, PTL DEF Spec

\* The queue keeps its bound and the callers their bookkeeping (TypeOK), however
\* publishers, handlers, subscriptions, starts and stops interleave.
THEOREM BusTypeCorrect == Spec => []TypeOK
<1>1. Inv => TypeOK
  BY DEF Inv
<1>2. QED
  BY <1>1, InvHolds, PTL

\* The queue holds exactly what was put and not taken, in order (EventBus).
THEOREM QueueIsRestCorrect == Spec => []QueueIsRest
<1>1. Inv => QueueIsRest
  BY DEF Inv
<1>2. QED
  BY <1>1, InvHolds, PTL
-----------------------------------------------------------------------------
\* Only taking an event or stopping the bus could free the worker.
LEMMA StuckStep == Inv /\ [Next]_vars => (Stuck => Stuck' \/ ~running')
<1> SUFFICES ASSUME Inv, [Next]_vars, Stuck PROVE Stuck' \/ ~running'
  OBVIOUS
<1>1. PICK c \in CallsBy(Worker) : c.wants # Nothing
  BY DEF Stuck
<1>2. running /\ Full /\ c \in calls /\ c.by = Worker
  BY <1>1 DEF Stuck, CallsBy
<1>3. ASSUME NEW topic, Put(topic) PROVE FALSE
  BY <1>2, <1>3 DEF Put
<1>4. SUFFICES ASSUME running' PROVE queue' = queue /\ c \in calls'
  BY <1>1, <1>2 DEF Stuck, Full, CallsBy
<1>5. CASE \E s \in Subscriptions : Subscribe(s) \/ Unsubscribe(s)
  BY <1>2, <1>5 DEF Subscribe, Unsubscribe
<1>6. CASE Start \/ Stop \/ Dispatch
  BY <1>1, <1>2, <1>4, <1>6 DEF Start, Stop, Dispatch
<1>7. CASE Publishing
  BY <1>1, <1>2, <1>3, <1>7 DEF Publishing, Publish, HandlerPublishes
<1>8. CASE \E p \in Publishers : PutWaiting(p)
  BY <1>3, <1>8 DEF PutWaiting
<1>9. CASE \E p \in Publishers, topic \in Topics : PublishImmediate(p, topic)
  BY <1>2, <1>9 DEF PublishImmediate
<1>10. CASE \E d \in calls : HandlerPuts(d) \/ HandlerEnds(d)
  BY <1>1, <1>2, <1>3, <1>10 DEF HandlerPuts, HandlerEnds
<1>11. CASE UNCHANGED vars
  BY <1>2, <1>11 DEF vars
<1>12. QED
  BY <1>5, <1>6, <1>7, <1>8, <1>9, <1>10, <1>11 DEF Next

\* A worker whose handler waits for room in the worker's own full queue waits
\* until the bus is stopped (publish, _worker_loop, _dispatch_event).
THEOREM StuckForGoodCorrect == Spec => StuckForGood
<1>1. Inv /\ [Next]_vars => [Stuck => Stuck' \/ ~running']_vars
  BY StuckStep
<1>2. QED
  BY <1>1, InvHolds, PTL DEF Spec, StuckForGood

-----------------------------------------------------------------------------
(***************************************************************************)
(* The bus implements the channel.                                         *)
(***************************************************************************)
Busy == CallsBy(Worker) # {}

LEMMA PutAccepts ==
  ASSUME Inv, NEW topic \in Topics, Put(topic), taken' = taken, Busy' <=> Busy
  PROVE  Channel!Accept
<1>1. Len(sent) - taken < MaxQueue
  BY BusAssumption DEF Inv, TypeOK, QueueIsRest, Put, Full
<1>2. QED
  BY <1>1 DEF Put, Busy, Channel!Accept

LEMMA StepRefines == Inv /\ [Next]_vars => [Channel!ChannelNext]_(Channel!channelVars)
<1> SUFFICES ASSUME Inv, [Next]_vars
             PROVE  Channel!ChannelNext \/ UNCHANGED Channel!channelVars
  OBVIOUS
<1>1. CASE UNCHANGED <<sent, taken, calls>>
  BY <1>1 DEF Channel!channelVars, CallsBy
<1>2. CASE Dispatch
  <2>1. Channel!Take
    BY <1>2, TakeKeeps DEF Dispatch, Channel!Take
  <2>2. QED
    BY <2>1 DEF Channel!ChannelNext
<1>3. CASE Stop
  <2>1. CallsBy(Worker)' = {} /\ UNCHANGED <<sent, taken>>
    BY <1>3 DEF Stop, CallsBy
  <2>2. QED
    BY <2>1 DEF Channel!ChannelNext, Channel!Release, Channel!channelVars
<1>4. ASSUME NEW p \in Publishers, NEW topic \in Topics, Publish(p, topic)
      PROVE  Channel!ChannelNext \/ UNCHANGED Channel!channelVars
  <2>1. CASE Put(topic)
    <3>1. taken' = taken /\ (Busy' <=> Busy)
      BY <1>4 DEF Publish, Busy, CallsBy
    <3>2. QED
      BY <2>1, <3>1, PutAccepts DEF Channel!ChannelNext
  <2>2. CASE ~Put(topic)
    BY <1>1, <1>4, <2>2 DEF Publish
  <2>3. QED
    BY <2>1, <2>2
<1>5. ASSUME NEW c \in calls, NEW topic \in Topics, HandlerPublishes(c, topic)
      PROVE  Channel!ChannelNext \/ UNCHANGED Channel!channelVars
  <2>1. CASE Put(topic) /\ UNCHANGED calls
    <3>1. taken' = taken /\ (Busy' <=> Busy)
      BY <1>5, <2>1 DEF HandlerPublishes, Busy, CallsBy
    <3>2. QED
      BY <2>1, <3>1, PutAccepts DEF Channel!ChannelNext
  <2>2. CASE /\ calls' = (calls \ {c}) \cup {[c EXCEPT !.wants = topic]}
             /\ UNCHANGED <<queue, sent>>
    <3>1. UNCHANGED <<sent, taken>>
      BY <1>5, <2>2 DEF HandlerPublishes
    <3>2. Busy' <=> Busy
      BY <2>2, CallChanges DEF Busy
    <3>3. QED
      BY <3>1, <3>2 DEF Busy, Channel!channelVars
  <2>3. QED
    BY <1>5, <2>1, <2>2 DEF HandlerPublishes
<1>6. ASSUME NEW p \in Publishers, PutWaiting(p) PROVE Channel!ChannelNext
  <2>1. taken' = taken /\ (Busy' <=> Busy) /\ wants[p] \in Topics /\ Put(wants[p])
    BY <1>6 DEF PutWaiting, Busy, CallsBy
  <2>2. QED
    BY <2>1, PutAccepts DEF Channel!ChannelNext
<1>7. ASSUME NEW p \in Publishers, NEW topic \in Topics, PublishImmediate(p, topic)
      PROVE  UNCHANGED Channel!channelVars
  <2>1. CallsBy(Worker)' = CallsBy(Worker)
    BY <1>7, BusAssumption, DispatchedBy DEF PublishImmediate, CallsBy
  <2>2. QED
    BY <1>7, <2>1 DEF PublishImmediate, Channel!channelVars
<1>8. ASSUME NEW c \in calls, HandlerPuts(c) PROVE Channel!ChannelNext
  <2>1. c.wants \in Topics /\ Put(c.wants) /\ taken' = taken
    BY <1>8 DEF HandlerPuts, Inv, TypeOK, Call
  <2>2. Busy' <=> Busy
    BY <1>8, CallChanges DEF HandlerPuts, Busy
  <2>3. QED
    BY <2>1, <2>2, PutAccepts DEF Channel!ChannelNext
<1>9. ASSUME NEW c \in calls, HandlerEnds(c)
      PROVE  Channel!ChannelNext \/ UNCHANGED Channel!channelVars
  <2>1. CallsBy(Worker)' \subseteq CallsBy(Worker) /\ UNCHANGED <<sent, taken>>
    BY <1>9 DEF HandlerEnds, CallsBy
  <2>2. QED
    BY <2>1 DEF Channel!ChannelNext, Channel!Release, Channel!channelVars
<1>10. CASE UNCHANGED vars
  BY <1>1, <1>10 DEF vars
<1>11. CASE \E s \in Subscriptions : Subscribe(s) \/ Unsubscribe(s)
  BY <1>1, <1>11 DEF Subscribe, Unsubscribe
<1>12. CASE Start
  BY <1>1, <1>12 DEF Start
<1>13. QED
  BY <1>2, <1>3, <1>4, <1>5, <1>6, <1>7, <1>8, <1>9, <1>10, <1>11, <1>12
     DEF Next, Publishing

\* The bus is a bounded first-in first-out channel with one reader that handles
\* one event at a time (EventBus implements EventChannel).
THEOREM KeepsOrderCorrect == Spec => KeepsOrder
<1>1. Init => Channel!ChannelInit
  BY DEF Init, Channel!ChannelInit, CallsBy
<1>2. QED
  BY <1>1, StepRefines, InvHolds, PTL DEF Spec, KeepsOrder, Channel!ChannelSpec
=============================================================================
