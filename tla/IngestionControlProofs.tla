----------------------- MODULE IngestionControlProofs -----------------------
(***************************************************************************)
(* Theorems about starting and stopping the ingestion loop, for every set  *)
(* of callers and exchanges and any number of loops.                       *)
(***************************************************************************)
EXTENDS IngestionControl, TLAPS

Sessions(k) == k.open \ {News}

\* What the sessions of one task are, at every stage.
SessionsOK(k) ==
  /\ k.stage = "new" => k.open = {}
  /\ k.stage \in {"new", "running"} /\ ~k.indexed => k.known = {} /\ k.failed = {}
  /\ k.stage \in {"new", "running"} => Sessions(k) = k.known
  /\ k.stage = "indexing" =>
       /\ Sessions(k) = k.known \cup k.failed \cup k.pending
       /\ k.known \cap (k.failed \cup k.pending) = {}
       /\ k.failed \cap k.pending = {}
  /\ k.stage = "closing" => "indexing" \in k.struck \/ Sessions(k) \subseteq k.known
  /\ k.stage = "done" /\ Sessions(k) # {} => k.struck \cap {"indexing", "closing"} # {}

\* A stop that waits, waits for the task of the slot, unless the slot is empty.
WaitersOK ==
  ~eager => /\ Live \subseteq {slot}
            /\ \A c \in Callers : waiting[c] # NoTask => slot \in {NoTask, waiting[c]}

\* The shutdown takes the last task away.
ShutdownOK ==
  /\ server # "up" => \A c \in Clients : waiting[c] = NoTask
  /\ server # "up" /\ waiting[Server] = NoTask => slot = NoTask
  /\ server = "down" => waiting[Server] = NoTask

Typed ==
  /\ tasks \in Seq(Task)
  /\ slot \in {NoTask} \cup DOMAIN tasks
  /\ waiting \in [Callers -> {NoTask} \cup DOMAIN tasks]
  /\ server \in {"up", "stopping", "down"}
  /\ eager \in BOOLEAN

Inv ==
  /\ Typed
  /\ \A t \in DOMAIN tasks : SessionsOK(tasks[t])
  /\ WaitersOK
  /\ ShutdownOK

\* The invariant gives what the runs check (TypeOK, OnlyKnownLoop, LeakExplained).
LEMMA InvImplies == Inv => TypeOK /\ OnlyKnownLoop /\ LeakExplained
<1> SUFFICES ASSUME Inv PROVE TypeOK /\ OnlyKnownLoop /\ LeakExplained
  OBVIOUS
<1>1. TypeOK
  <2>1. ASSUME NEW t \in DOMAIN tasks, tasks[t].stage = "running"
        PROVE  tasks[t].known \subseteq tasks[t].open
    BY <2>1 DEF Inv, SessionsOK, Sessions
  <2>2. QED
    BY <2>1 DEF Inv, Typed, TypeOK
<1>2. OnlyKnownLoop
  <2>1. ASSUME ~eager, server = "down" PROVE Live = {}
    <3>1. slot = NoTask
      BY <2>1 DEF Inv, ShutdownOK
    <3>2. NoTask \notin DOMAIN tasks
      BY DEF Inv, Typed, NoTask
    <3>3. QED
      BY <2>1, <3>1, <3>2 DEF Inv, WaitersOK, Live
  <2>2. QED
    BY <2>1 DEF Inv, WaitersOK, OnlyKnownLoop
<1>3. LeakExplained
  BY DEF Inv, SessionsOK, Sessions, LeakExplained, Done
<1>4. QED
  BY <1>1, <1>2, <1>3

LEMMA InitInv == Init => Inv
<1> SUFFICES ASSUME Init PROVE Inv
  OBVIOUS
<1>1. DOMAIN tasks = {}
  BY DEF Init
<1>2. Typed
  <2>1. tasks \in Seq(Task)
    BY DEF Init
  <2>2. waiting \in [Callers -> {NoTask} \cup DOMAIN tasks]
    BY DEF Init
  <2>3. QED
    BY <2>1, <2>2 DEF Init, Typed
<1>3. WaitersOK
  BY <1>1 DEF Init, WaitersOK, Live
<1>4. ShutdownOK
  BY DEF Init, ShutdownOK
<1>5. QED
  BY <1>1, <1>2, <1>3, <1>4 DEF Inv

-----------------------------------------------------------------------------
\* A step of a task changes that task only, and never revives it.
LEMMA OneTaskSteps ==
  ASSUME Inv, NEW t \in DOMAIN tasks, TaskStep(t),
         tasks' \in Seq(Task), DOMAIN tasks' = DOMAIN tasks, tasks[t].stage # "done",
         \A u \in DOMAIN tasks \ {t} : tasks'[u] = tasks[u],
         SessionsOK(tasks'[t]), UNCHANGED Others
  PROVE  Inv'
<1>1. Typed'
  BY DEF Inv, Typed, Others
<1>2. \A u \in DOMAIN tasks' : SessionsOK(tasks'[u])
  BY DEF Inv
<1>3. Live' \subseteq Live
  BY DEF Live, Done
<1>4. WaitersOK' /\ ShutdownOK'
  BY <1>3 DEF Inv, WaitersOK, ShutdownOK, Others
<1>5. QED
  BY <1>1, <1>2, <1>4 DEF Inv

\* The shape of every such step: one record of the sequence is replaced.
LEMMA ReplaceOne ==
  ASSUME tasks \in Seq(Task), NEW t \in DOMAIN tasks, NEW k \in Task,
         tasks' = [tasks EXCEPT ![t] = k]
  PROVE  /\ tasks' \in Seq(Task) /\ DOMAIN tasks' = DOMAIN tasks
         /\ tasks'[t] = k
         /\ \A u \in DOMAIN tasks \ {t} : tasks'[u] = tasks[u]
OBVIOUS

LEMMA EnterStep == ASSUME Inv, NEW t \in DOMAIN tasks, Enter(t) PROVE Inv'
<1> DEFINE k == [tasks[t] EXCEPT !.stage = "running"]
<1>0. tasks[t] \in Task /\ SessionsOK(tasks[t]) /\ tasks \in Seq(Task)
  BY DEF Inv, Typed
<1>1. tasks[t].stage = "new" /\ tasks' = [tasks EXCEPT ![t] = k] /\ UNCHANGED Others
  BY <1>0 DEF Enter, Goes
<1>2. k \in Task
  BY <1>0 DEF Task, Stages
<1>3. SessionsOK(k)
  BY <1>0, <1>1 DEF SessionsOK, Sessions, Task
<1>4. QED
  <2> HIDE DEF k
  <2>1. TaskStep(t)
    BY DEF TaskStep
  <2>2. QED
    BY <1>0, <1>1, <1>2, <1>3, <2>1, ReplaceOne, OneTaskSteps

LEMMA OpenNewsStep == ASSUME Inv, NEW t \in DOMAIN tasks, OpenNews(t) PROVE Inv'
<1> DEFINE k == [tasks[t] EXCEPT !.open = @ \cup {News}]
<1>0. tasks[t] \in Task /\ SessionsOK(tasks[t]) /\ tasks \in Seq(Task)
  BY DEF Inv, Typed
<1>1. tasks[t].stage = "running" /\ tasks' = [tasks EXCEPT ![t] = k] /\ UNCHANGED Others
  BY <1>0 DEF OpenNews, Goes
<1>2. k \in Task
  BY <1>0 DEF Task
<1>3. SessionsOK(k)
  BY <1>0, <1>1 DEF SessionsOK, Sessions, Task
<1>4. QED
  <2> HIDE DEF k
  <2>1. TaskStep(t)
    BY DEF TaskStep
  <2>2. QED
    BY <1>0, <1>1, <1>2, <1>3, <2>1, ReplaceOne, OneTaskSteps

LEMMA BeginIndexStep == ASSUME Inv, NEW t \in DOMAIN tasks, BeginIndex(t) PROVE Inv'
<1> DEFINE k == [tasks[t] EXCEPT !.stage = "indexing", !.pending = Exchanges,
                                 !.open = @ \cup Exchanges]
<1>0. tasks[t] \in Task /\ SessionsOK(tasks[t]) /\ tasks \in Seq(Task)
  BY DEF Inv, Typed
<1>1. tasks[t].stage = "running" /\ ~tasks[t].indexed
      /\ tasks' = [tasks EXCEPT ![t] = k] /\ UNCHANGED Others
  BY <1>0 DEF BeginIndex, Goes
<1>2. k \in Task
  BY <1>0 DEF Task, Stages
<1>3. SessionsOK(k)
  <2>1. tasks[t].known = {} /\ tasks[t].failed = {} /\ Sessions(tasks[t]) = {}
    BY <1>0, <1>1 DEF SessionsOK
  <2>2. QED
    BY <1>0, <2>1, ControlAssumption DEF SessionsOK, Sessions, Task
<1>4. QED
  <2> HIDE DEF k
  <2>1. TaskStep(t)
    BY DEF TaskStep
  <2>2. QED
    BY <1>0, <1>1, <1>2, <1>3, <2>1, ReplaceOne, OneTaskSteps
LEMMA SettleStep == ASSUME Inv, NEW t \in DOMAIN tasks, Settle(t) PROVE Inv'
<1>0. tasks[t] \in Task /\ SessionsOK(tasks[t]) /\ tasks \in Seq(Task)
  BY DEF Inv, Typed
<1>1. tasks[t].stage = "indexing" /\ UNCHANGED Others
  BY DEF Settle, Goes
<1> DEFINE Settles(good, failed) ==
        LET rest == tasks[t].pending \ (good \cup failed)
        IN  /\ failed = {} => rest = {}
            /\ tasks' = [tasks EXCEPT
                 ![t].pending = rest, ![t].known = @ \cup good,
                 ![t].failed = failed, ![t].open = @ \ tasks[t].failed,
                 ![t].indexed = (failed = {}),
                 ![t].stage = IF failed = {} THEN "running" ELSE @]
<1>a. PICK good \in SUBSET tasks[t].pending :
        \E failed \in {{e} : e \in tasks[t].pending \ good} \cup {{}} : Settles(good, failed)
  BY DEF Settle
<1>2. PICK failed \in {{e} : e \in tasks[t].pending \ good} \cup {{}} : Settles(good, failed)
  BY <1>a
<1> DEFINE rest == tasks[t].pending \ (good \cup failed)
           k == [tasks[t] EXCEPT
                  !.pending = rest, !.known = @ \cup good, !.failed = failed,
                  !.open = @ \ tasks[t].failed, !.indexed = (failed = {}),
                  !.stage = IF failed = {} THEN "running" ELSE @]
<1>3. tasks' = [tasks EXCEPT ![t] = k] /\ (failed = {} => rest = {})
  BY <1>0, <1>2
<1>4. failed \subseteq tasks[t].pending \ good /\ good \subseteq tasks[t].pending
  OBVIOUS
<1>5. k \in Task
  BY <1>0, <1>4 DEF Task, Stages
<1>6. SessionsOK(k)
  <2>1. /\ k.stage = IF failed = {} THEN "running" ELSE "indexing"
        /\ k.known = tasks[t].known \cup good /\ k.failed = failed /\ k.pending = rest
        /\ k.open = tasks[t].open \ tasks[t].failed /\ k.indexed = (failed = {})
    BY <1>0, <1>1 DEF Task
  <2>2. /\ Sessions(tasks[t]) = tasks[t].known \cup tasks[t].failed \cup tasks[t].pending
        /\ tasks[t].known \cap (tasks[t].failed \cup tasks[t].pending) = {}
        /\ tasks[t].failed \cap tasks[t].pending = {}
    BY <1>0, <1>1 DEF SessionsOK
  <2>3. Sessions(k) = tasks[t].known \cup tasks[t].pending
    BY <2>1, <2>2 DEF Sessions
  <2> HIDE DEF k
  <2>4. CASE failed = {}
    BY <1>3, <1>4, <2>1, <2>2, <2>3, <2>4 DEF SessionsOK
  <2>5. CASE failed # {}
    BY <1>4, <2>1, <2>2, <2>3, <2>5 DEF SessionsOK
  <2>6. QED
    BY <2>4, <2>5
<1>7. QED
  <2> HIDE DEF k
  <2>1. TaskStep(t)
    BY DEF TaskStep
  <2>2. QED
    BY <1>0, <1>1, <1>3, <1>5, <1>6, <2>1, ReplaceOne, OneTaskSteps

LEMMA CloseOneStep == ASSUME Inv, NEW t \in DOMAIN tasks, CloseOne(t) PROVE Inv'
<1>0. tasks[t] \in Task /\ SessionsOK(tasks[t]) /\ tasks \in Seq(Task)
  BY DEF Inv, Typed
<1>1. tasks[t].stage = "closing" /\ UNCHANGED Others
  BY DEF CloseOne, Goes
<1>2. PICK e \in tasks[t].known \cap tasks[t].open :
        tasks' = [tasks EXCEPT ![t].open = @ \ {e},
                    ![t].stage = IF tasks[t].known \cap tasks[t].open = {e} THEN "done" ELSE @]
  BY DEF CloseOne
<1> DEFINE k == [tasks[t] EXCEPT !.open = @ \ {e},
                   !.stage = IF tasks[t].known \cap tasks[t].open = {e} THEN "done" ELSE @]
<1>3. tasks' = [tasks EXCEPT ![t] = k]
  BY <1>0, <1>2
<1>4. k \in Task
  BY <1>0 DEF Task, Stages
<1>5. SessionsOK(k)
  BY <1>0, <1>1 DEF SessionsOK, Sessions, Task
<1>6. QED
  <2> HIDE DEF k
  <2>1. TaskStep(t)
    BY DEF TaskStep
  <2>2. QED
    BY <1>0, <1>1, <1>3, <1>4, <1>5, <2>1, ReplaceOne, OneTaskSteps

LEMMA RaiseStep == ASSUME Inv, NEW t \in DOMAIN tasks, Raise(t) PROVE Inv'
<1> DEFINE next == IF tasks[t].stage \in {"new", "closing"} \/ tasks[t].known = {}
                   THEN "done" ELSE "closing"
           k == [tasks[t] EXCEPT !.cancelled = FALSE, !.struck = @ \cup {tasks[t].stage},
                                 !.stage = next]
<1>0. tasks[t] \in Task /\ SessionsOK(tasks[t]) /\ tasks \in Seq(Task)
  BY DEF Inv, Typed
<1>1. tasks[t].stage # "done" /\ tasks' = [tasks EXCEPT ![t] = k] /\ UNCHANGED Others
  BY <1>0 DEF Raise, Done
<1>2. k \in Task
  BY <1>0 DEF Task, Stages
<1>3. SessionsOK(k)
  <2>1. /\ k.stage = next /\ k.known = tasks[t].known /\ Sessions(k) = Sessions(tasks[t])
        /\ k.struck = tasks[t].struck \cup {tasks[t].stage} /\ next \in {"done", "closing"}
    BY <1>0 DEF Task, Sessions
  <2>2. tasks[t].stage \in {"new", "running", "indexing", "closing"}
    BY <1>0, <1>1 DEF Task, Stages
  <2>3. tasks[t].stage = "new" => tasks[t].open = {}
    BY <1>0 DEF SessionsOK
  <2> HIDE DEF k
  <2>4. k.stage = "closing" => "indexing" \in k.struck \/ Sessions(k) \subseteq k.known
    BY <1>0, <2>1, <2>2, <2>3 DEF SessionsOK
  <2>5. k.stage = "done" /\ Sessions(k) # {} => k.struck \cap {"indexing", "closing"} # {}
    <3>1. CASE tasks[t].stage \in {"indexing", "closing"}
      BY <2>1, <3>1
    <3>2. CASE tasks[t].stage \in {"new", "running"}
      BY <1>0, <2>1, <3>2 DEF SessionsOK, Sessions
    <3>3. QED
      BY <2>2, <3>1, <3>2
  <2>6. QED
    BY <2>1, <2>4, <2>5 DEF SessionsOK
<1>4. QED
  <2> HIDE DEF k
  <2>1. TaskStep(t)
    BY DEF TaskStep
  <2>2. QED
    BY <1>0, <1>1, <1>2, <1>3, <2>1, ReplaceOne, OneTaskSteps

-----------------------------------------------------------------------------
LEMMA StartStep == ASSUME Inv, NEW c \in Clients, Start(c) PROVE Inv'
<1>0. tasks \in Seq(Task) /\ DOMAIN tasks = 1 .. Len(tasks) /\ Len(tasks) \in Nat
  BY DEF Inv, Typed
<1>1. NewTask \in Task /\ SessionsOK(NewTask)
  BY DEF NewTask, Task, Stages, SessionsOK, Sessions
<1>2. /\ tasks' = Append(tasks, NewTask) /\ slot' = Len(tasks) + 1
      /\ server = "up" /\ ~Running /\ UNCHANGED <<waiting, server>>
      /\ eager' = (eager \/ \E d \in Callers : waiting[d] # NoTask)
  BY DEF Start
<1>3. /\ tasks' \in Seq(Task) /\ DOMAIN tasks' = DOMAIN tasks \cup {slot'}
      /\ tasks'[slot'] = NewTask
      /\ \A t \in DOMAIN tasks : tasks'[t] = tasks[t]
  BY <1>0, <1>1, <1>2
<1>4. Typed'
  BY <1>2, <1>3 DEF Inv, Typed
<1>5. \A t \in DOMAIN tasks' : SessionsOK(tasks'[t])
  BY <1>1, <1>3 DEF Inv
<1>6. WaitersOK'
  <2>1. SUFFICES ASSUME ~eager'
                 PROVE  /\ Live' \subseteq {slot'}
                        /\ \A d \in Callers : waiting'[d] = NoTask
    BY DEF WaitersOK
  <2>2. \A d \in Callers : waiting[d] = NoTask
    BY <1>2, <2>1
  <2>3. Live \subseteq {slot}
    BY <1>2, <2>1 DEF Inv, WaitersOK
  <2>4. Live = {}
    BY <1>0, <1>2, <2>3 DEF Running, Live, NoTask
  <2>5. Live' \subseteq {slot'}
    BY <1>3, <2>4 DEF Live, Done
  <2>6. QED
    BY <1>2, <2>2, <2>5
<1>7. ShutdownOK'
  BY <1>2 DEF ShutdownOK
<1>8. QED
  BY <1>4, <1>5, <1>6, <1>7 DEF Inv

\* Cancelling the task of the slot, by a client or by the shutdown.
LEMMA CancelFacts ==
  ASSUME Inv, NEW c \in Callers, CancelTask(c)
  PROVE  /\ tasks' \in Seq(Task) /\ DOMAIN tasks' = DOMAIN tasks
         /\ slot \in DOMAIN tasks /\ slot # NoTask
         /\ \A t \in DOMAIN tasks : SessionsOK(tasks'[t])
         /\ Live' = Live
         /\ waiting' \in [Callers -> {NoTask} \cup DOMAIN tasks]
         /\ waiting'[c] = slot /\ \A d \in Callers \ {c} : waiting'[d] = waiting[d]
<1> DEFINE k == [tasks[slot] EXCEPT !.cancelled = TRUE]
<1>0. tasks \in Seq(Task) /\ slot \in DOMAIN tasks /\ slot # NoTask
      /\ waiting \in [Callers -> {NoTask} \cup DOMAIN tasks]
  BY DEF CancelTask, Running, Inv, Typed
<1>1. tasks[slot] \in Task /\ SessionsOK(tasks[slot])
  BY <1>0 DEF Inv
<1>2. tasks' = [tasks EXCEPT ![slot] = k] /\ waiting' = [waiting EXCEPT ![c] = slot]
  BY <1>0 DEF CancelTask
<1>3. k \in Task /\ k.stage = tasks[slot].stage
  BY <1>1 DEF Task
<1>4. SessionsOK(k)
  BY <1>1 DEF SessionsOK, Sessions, Task
<1>5. /\ tasks' \in Seq(Task) /\ DOMAIN tasks' = DOMAIN tasks /\ tasks'[slot] = k
      /\ \A t \in DOMAIN tasks \ {slot} : tasks'[t] = tasks[t]
  <2> HIDE DEF k
  <2>1. QED
    BY <1>0, <1>2, <1>3, ReplaceOne
<1>6. \A t \in DOMAIN tasks : SessionsOK(tasks'[t]) /\ tasks'[t].stage = tasks[t].stage
  <2> HIDE DEF k
  <2>1. QED
    BY <1>3, <1>4, <1>5 DEF Inv
<1>7. Live' = Live
  BY <1>5, <1>6 DEF Live, Done
<1>8. QED
  BY <1>0, <1>2, <1>5, <1>6, <1>7

LEMMA StopStep == ASSUME Inv, NEW c \in Clients, Stop(c) PROVE Inv'
<1>0. c \in Callers /\ c # Server /\ server = "up" /\ UNCHANGED <<server, eager>>
  BY ControlAssumption DEF Stop, Callers
<1>1. CASE CancelTask(c)
  <2>1. slot' = slot
    BY <1>1 DEF CancelTask
  <2>2. Typed' /\ \A t \in DOMAIN tasks' : SessionsOK(tasks'[t])
    BY <1>0, <1>1, <2>1, CancelFacts DEF Inv, Typed
  <2>3. WaitersOK'
    BY <1>0, <1>1, <2>1, CancelFacts DEF Inv, WaitersOK
  <2>4. ShutdownOK'
    BY <1>0 DEF ShutdownOK
  <2>5. QED
    BY <2>2, <2>3, <2>4 DEF Inv
<1>2. CASE StopEnded
  <2>1. slot' = NoTask /\ UNCHANGED <<tasks, waiting>> /\ Done(slot)
    BY <1>2 DEF StopEnded
  <2>2. Typed' /\ \A t \in DOMAIN tasks' : SessionsOK(tasks'[t])
    BY <1>0, <2>1 DEF Inv, Typed
  <2>3. WaitersOK'
    BY <1>0, <2>1 DEF Inv, WaitersOK, Live, Done
  <2>4. ShutdownOK'
    BY <1>0 DEF ShutdownOK
  <2>5. QED
    BY <2>2, <2>3, <2>4 DEF Inv
<1>3. QED
  BY <1>1, <1>2 DEF Stop

LEMMA ReturnStep == ASSUME Inv, NEW c \in Callers, Return(c) PROVE Inv'
<1>1. /\ waiting[c] # NoTask /\ Done(waiting[c]) /\ slot' = NoTask
      /\ waiting' = [waiting EXCEPT ![c] = NoTask] /\ UNCHANGED <<tasks, server, eager>>
  BY DEF Return
<1>2. Typed' /\ \A t \in DOMAIN tasks' : SessionsOK(tasks'[t])
  BY <1>1 DEF Inv, Typed
<1>3. WaitersOK'
  <2>1. SUFFICES ASSUME ~eager PROVE Live' = {}
    BY <1>1 DEF WaitersOK
  <2>2. Live \subseteq {slot} /\ slot \in {NoTask, waiting[c]}
    BY <1>1, <2>1 DEF Inv, WaitersOK
  <2>3. NoTask \notin DOMAIN tasks
    BY DEF Inv, Typed, NoTask
  <2>4. QED
    BY <1>1, <2>2, <2>3 DEF Live, Done
<1>4. ShutdownOK'
  <2>1. \A d \in Callers : waiting'[d] # NoTask => waiting[d] # NoTask
    BY <1>1 DEF Inv, Typed
  <2>2. \A d \in Clients : d \in Callers
    BY DEF Callers
  <2>3. Server \in Callers
    BY DEF Callers
  <2>4. QED
    BY <1>1, <2>1, <2>2, <2>3 DEF Inv, ShutdownOK
<1>5. QED
  BY <1>2, <1>3, <1>4 DEF Inv

LEMMA ShutdownStep == ASSUME Inv, Shutdown PROVE Inv'
<1>0. Server \in Callers /\ \A c \in Clients : c \in Callers /\ c # Server
  BY ControlAssumption DEF Callers
<1>1. /\ server = "up" /\ server' = "stopping" /\ UNCHANGED eager
      /\ \A c \in Clients : waiting[c] = NoTask
  BY DEF Shutdown
<1>2. CASE CancelTask(Server)
  <2>1. slot' = slot
    BY <1>2 DEF CancelTask
  <2>2. Typed' /\ \A t \in DOMAIN tasks' : SessionsOK(tasks'[t])
    BY <1>0, <1>1, <1>2, <2>1, CancelFacts DEF Inv, Typed
  <2>3. WaitersOK'
    BY <1>0, <1>1, <1>2, <2>1, CancelFacts DEF Inv, WaitersOK
  <2>4. ShutdownOK'
    BY <1>0, <1>1, <1>2, CancelFacts DEF ShutdownOK
  <2>5. QED
    BY <2>2, <2>3, <2>4 DEF Inv
<1>3. CASE StopEnded \/ (slot = NoTask /\ UNCHANGED <<slot, tasks, waiting>>)
  <2>1. slot' = NoTask /\ UNCHANGED <<tasks, waiting>>
    BY <1>3 DEF StopEnded
  <2>2. Typed' /\ \A t \in DOMAIN tasks' : SessionsOK(tasks'[t])
    BY <1>1, <2>1 DEF Inv, Typed
  <2>3. slot \notin Live
    BY <1>3 DEF StopEnded, Live, Inv, Typed, NoTask
  <2>4. WaitersOK'
    BY <1>1, <2>1, <2>3 DEF Inv, WaitersOK, Live, Done
  <2>5. ShutdownOK'
    BY <1>1, <2>1 DEF ShutdownOK
  <2>6. QED
    BY <2>2, <2>4, <2>5 DEF Inv
<1>4. QED
  BY <1>2, <1>3 DEF Shutdown

LEMMA CloseStorageStep == ASSUME Inv, CloseStorage PROVE Inv'
BY DEF CloseStorage, Inv, Typed, WaitersOK, ShutdownOK, Live, Done

-----------------------------------------------------------------------------
LEMMA NextInv == Inv /\ [Next]_vars => Inv'
<1> SUFFICES ASSUME Inv, [Next]_vars PROVE Inv'
  OBVIOUS
<1>1. CASE \E c \in Clients : Start(c) \/ Stop(c)
  BY <1>1, StartStep, StopStep
<1>2. CASE \E c \in Callers : Return(c)
  BY <1>2, ReturnStep
<1>3. CASE Shutdown \/ CloseStorage
  BY <1>3, ShutdownStep, CloseStorageStep
<1>4. CASE \E t \in DOMAIN tasks : TaskStep(t)
  BY <1>4, EnterStep, OpenNewsStep, BeginIndexStep, SettleStep, CloseOneStep, RaiseStep
     DEF TaskStep
<1>5. CASE UNCHANGED vars
  BY <1>5 DEF vars, Inv, Typed, WaitersOK, ShutdownOK, Live, Done
<1>6. QED
  BY <1>1, <1>2, <1>3, <1>4, <1>5 DEF Next

LEMMA InvHolds == Spec => []Inv
<1>1. QED
  BY InitInv, NextInv, PTL DEF Spec

\* The slot, the callers and the sessions of every task stay what
\* start_ingestion, stop_ingestion and the provider take them for (TypeOK).
THEOREM ControlTypeCorrect == Spec => []TypeOK
<1>1. Inv => TypeOK
  BY InvImplies
<1>2. QED
  BY <1>1, InvHolds, PTL

\* Without a start during a stop, the one loop that runs is the one the server
\* knows, whatever the clients do (start_ingestion, stop_ingestion, lifespan).
THEOREM OnlyKnownLoopCorrect == Spec => []OnlyKnownLoop
<1>1. Inv => OnlyKnownLoop
  BY InvImplies
<1>2. QED
  BY <1>1, InvHolds, PTL

\* The sessions of exchanges are left open by an interrupted index or an
\* interrupted close(), and by nothing else (GlobalMarketDataProvider).
THEOREM LeakExplainedCorrect == Spec => []LeakExplained
<1>1. Inv => LeakExplained
  BY InvImplies
<1>2. QED
  BY <1>1, InvHolds, PTL
=============================================================================
