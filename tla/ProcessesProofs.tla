--------------------------- MODULE ProcessesProofs ---------------------------
(***************************************************************************)
(* Theorems about what the two processes share, for any number of entries  *)
(* and instances, any size of a read and any number of restarts.           *)
(***************************************************************************)
EXTENDS Processes, FiniteSetTheorems, TLAPS

-----------------------------------------------------------------------------
(***************************************************************************)
(* The steps of the DuckDB storage keep its invariant, for any number of   *)
(* processes, pipelines, instances and attempts.                           *)
(***************************************************************************)
Modes == {"rw", "ro"}

Attempt == [holder : Holders, mode : Modes, attempt : Nat]

StoreTypes ==
  /\ opening \in [Processes -> {NotOpening} \cup Attempt]
  /\ registry \in [Processes -> {0} \cup Instances]
  /\ conn \in [Processes -> [Instances -> {"none"} \cup Modes]]
  /\ handle \in [Processes -> [Holders -> {0} \cup Instances]]
  /\ reclosed \in [Processes -> BOOLEAN]

\* What is being opened is the registered instance.
OpensRegistered == \A p \in Processes : opening[p] # NotOpening => registry[p] # 0

\* Until somebody has closed twice, only the registered instance is connected.
OnlyRegistered ==
  \A p \in Processes : ~reclosed[p] =>
    \A i \in Instances : conn[p][i] # "none" => i = registry[p]

\* A writer is alone with the file.
WriterAlone ==
  shared => \A p, q \in Processes : p # q /\ "rw" \in Held(p) => Held(q) = {}

StoreInv == StoreTypes /\ OpensRegistered /\ OnlyRegistered /\ WriterAlone

LEMMA StoreInitInv == StoreInit => StoreInv /\ \A p \in Processes : Held(p) = {}
<1> SUFFICES ASSUME StoreInit PROVE StoreInv /\ \A p \in Processes : Held(p) = {}
  OBVIOUS
<1>1. /\ opening = [p \in Processes |-> NotOpening]
      /\ registry = [p \in Processes |-> 0]
      /\ conn = [p \in Processes |-> [i \in Instances |-> "none"]]
      /\ handle = [p \in Processes |-> [h \in Holders |-> 0]]
      /\ reclosed = [p \in Processes |-> FALSE]
  BY DEF StoreInit
<1>2. \A p \in Processes : Held(p) = {}
  BY <1>1 DEF Held
<1>3. StoreTypes
  BY <1>1 DEF StoreTypes
<1>4. QED
  BY <1>1, <1>2, <1>3 DEF StoreInv, OpensRegistered, OnlyRegistered, WriterAlone

\* Instances that have no number 0.
LEMMA NotZero == 0 \notin Instances
BY StoreAssumption

LEMMA ConstructKeeps ==
  ASSUME StoreInv, NEW p \in Processes, NEW h \in Holders, Construct(p, h) PROVE StoreInv'
<1>1. StoreTypes /\ OpensRegistered /\ OnlyRegistered /\ WriterAlone
  BY DEF StoreInv
<1>2. UNCHANGED <<shared, conn, reclosed>> /\ opening[p] = NotOpening
  BY DEF Construct
<1> DEFINE at == [holder |-> h, mode |-> "rw", attempt |-> 1]
<1>3. at \in Attempt /\ (opening' = opening \/ opening' = [opening EXCEPT ![p] = at])
  BY DEF Construct, Attempt, Modes
<1> HIDE DEF at
<1>4. /\ registry' = registry \/ (registry[p] = 0 /\ \E i \in Instances : registry' = [registry EXCEPT ![p] = i])
      /\ \E i \in Instances : handle' = [handle EXCEPT ![p][h] = i]
      /\ registry'[p] # 0
  <2>1. CASE registry[p] # 0
    BY <1>1, <2>1 DEF Construct, StoreTypes
  <2>2. CASE registry[p] = 0
    <3>1. PICK i \in Free(p) : /\ registry' = [registry EXCEPT ![p] = i]
                               /\ handle' = [handle EXCEPT ![p][h] = i]
      BY <2>2 DEF Construct
    <3>2. i \in Instances /\ i # 0
      BY <3>1, NotZero DEF Free
    <3>3. QED
      BY <1>1, <2>2, <3>1, <3>2 DEF StoreTypes
  <2>3. QED
    BY <2>1, <2>2
<1>5. StoreTypes'
  <2>1. opening' \in [Processes -> {NotOpening} \cup Attempt]
    BY <1>1, <1>3 DEF StoreTypes
  <2>2. registry' \in [Processes -> {0} \cup Instances]
    BY <1>1, <1>4 DEF StoreTypes
  <2>3. handle' \in [Processes -> [Holders -> {0} \cup Instances]]
    BY <1>1, <1>4 DEF StoreTypes
  <2>4. QED
    BY <1>1, <1>2, <2>1, <2>2, <2>3 DEF StoreTypes
<1>6. \A q \in Processes \ {p} : registry'[q] = registry[q] /\ opening'[q] = opening[q]
  BY <1>1, <1>3, <1>4 DEF StoreTypes
<1>7. OpensRegistered'
  BY <1>1, <1>4, <1>6 DEF OpensRegistered
<1>8. registry'[p] = registry[p] \/ registry[p] = 0
  BY <1>4
<1>9. OnlyRegistered'
  BY <1>1, <1>2, <1>6, <1>8, NotZero DEF OnlyRegistered
<1>10. WriterAlone'
  BY <1>1, <1>2 DEF WriterAlone, Held
<1>11. QED
  BY <1>5, <1>7, <1>9, <1>10 DEF StoreInv

LEMMA ConnectedKeeps ==
  ASSUME StoreInv, NEW p \in Processes, Connected(p) PROVE StoreInv'
<1> DEFINE mode == opening[p].mode
           i    == registry[p]
<1>1. StoreTypes /\ OpensRegistered /\ OnlyRegistered /\ WriterAlone
  BY DEF StoreInv
<1>2. /\ UNCHANGED <<shared, registry, handle, reclosed>> /\ opening[p] # NotOpening
      /\ Lockable(p, mode) /\ opening' = [opening EXCEPT ![p] = NotOpening]
      /\ conn' = [conn EXCEPT ![p][i] = mode]
  BY DEF Connected
<1>3. mode \in Modes /\ i \in Instances
  BY <1>1, <1>2 DEF StoreTypes, OpensRegistered, Attempt
<1> HIDE DEF mode
<1>4. /\ conn'[p][i] = mode /\ \A j \in Instances \ {i} : conn'[p][j] = conn[p][j]
      /\ \A q \in Processes \ {p} : conn'[q] = conn[q]
  BY <1>1, <1>2, <1>3 DEF StoreTypes
<1> HIDE DEF i
<1>5. StoreTypes'
  BY <1>1, <1>2, <1>3 DEF StoreTypes
<1>6. OpensRegistered'
  BY <1>1, <1>2 DEF OpensRegistered, StoreTypes
<1>7. OnlyRegistered'
  BY <1>1, <1>2, <1>4 DEF OnlyRegistered, i
<1>8. /\ Held(p)' \subseteq Held(p) \cup {mode}
      /\ \A q \in Processes \ {p} : Held(q)' = Held(q)
  BY <1>4 DEF Held
<1>9. WriterAlone'
  <2>1. CASE mode = "rw"
    <3>1. shared => \A q \in Processes \ {p} : Held(q) = {}
      BY <1>2, <2>1 DEF Lockable
    <3>2. QED
      BY <1>2, <1>8, <3>1 DEF WriterAlone
  <2>2. CASE mode = "ro"
    <3>1. /\ Held(p) \subseteq {"ro"}
          /\ shared => \A q \in Processes \ {p} : Held(q) \subseteq {"ro"}
      BY <1>2, <2>2 DEF Lockable
    <3>2. shared => \A q \in Processes : "rw" \notin Held(q)'
      BY <1>8, <2>2, <3>1
    <3>3. QED
      BY <1>2, <3>2 DEF WriterAlone
  <2>3. QED
    BY <1>3, <2>1, <2>2 DEF Modes
<1>10. QED
  BY <1>5, <1>6, <1>7, <1>9 DEF StoreInv

\* Steps of an opening that leave the connections alone.
LEMMA OpeningKeeps ==
  ASSUME StoreInv, NEW p \in Processes, NEW at \in {NotOpening} \cup Attempt,
         opening[p] # NotOpening, opening' = [opening EXCEPT ![p] = at],
         handle' \in [Processes -> [Holders -> {0} \cup Instances]],
         UNCHANGED <<shared, registry, conn, reclosed>>
  PROVE  StoreInv'
<1>1. StoreTypes /\ OpensRegistered /\ OnlyRegistered /\ WriterAlone
  BY DEF StoreInv
<1>2. StoreTypes' /\ OpensRegistered'
  BY <1>1 DEF StoreTypes, OpensRegistered
<1>3. OnlyRegistered'
  BY <1>1 DEF OnlyRegistered
<1>4. WriterAlone'
  <2>1. \A q \in Processes : Held(q)' = Held(q)
    BY DEF Held
  <2>2. shared' = shared
    OBVIOUS
  <2>3. QED
    BY <1>1, <2>1, <2>2 DEF WriterAlone
<1>5. QED
  BY <1>2, <1>3, <1>4 DEF StoreInv

\* What a step makes of an attempt.
LEMMA AttemptMade ==
  \A at \in Attempt, m \in Modes, n \in Nat :
    /\ [at EXCEPT !.attempt = n] \in Attempt /\ [at EXCEPT !.attempt = n].holder = at.holder
    /\ [at EXCEPT !.mode = m, !.attempt = n] \in Attempt
    /\ [at EXCEPT !.mode = m, !.attempt = n].holder = at.holder
BY DEF Attempt

LEMMA GoesOnKeeps ==
  ASSUME StoreInv, NEW p \in Processes, opening[p] # NotOpening, Retry(p) \/ FallBack(p)
  PROVE  StoreInv' /\ opening'[p].holder = opening[p].holder
<1>1. opening[p] \in Attempt /\ opening \in [Processes -> {NotOpening} \cup Attempt]
      /\ handle \in [Processes -> [Holders -> {0} \cup Instances]]
  BY DEF StoreInv, StoreTypes
<1>2. \E at \in Attempt : at.holder = opening[p].holder /\ opening' = [opening EXCEPT ![p] = at]
  <2>1. CASE Retry(p)
    <3>1. opening[p].attempt + 1 \in Nat
      BY <1>1 DEF Attempt
    <3>2. opening' = [opening EXCEPT ![p] = [opening[p] EXCEPT !.attempt = opening[p].attempt + 1]]
      BY <1>1, <2>1 DEF Retry, Retried
    <3>3. "rw" \in Modes
      BY DEF Modes
    <3>4. QED
      BY <1>1, <3>1, <3>2, <3>3, AttemptMade
  <2>2. CASE FallBack(p)
    <3>1. opening' = [opening EXCEPT ![p] = [opening[p] EXCEPT !.mode = "ro", !.attempt = 1]]
      BY <1>1, <2>2 DEF FallBack
    <3>2. "ro" \in Modes /\ 1 \in Nat
      BY DEF Modes
    <3> DEFINE at == [opening[p] EXCEPT !.mode = "ro", !.attempt = 1]
    <3>3. at \in Attempt /\ at.holder = opening[p].holder
      <4> DEFINE old == opening[p]
      <4>1. old \in Attempt
        BY <1>1
      <4> HIDE DEF old
      <4>2. /\ [old EXCEPT !.mode = "ro", !.attempt = 1] \in Attempt
            /\ [old EXCEPT !.mode = "ro", !.attempt = 1].holder = old.holder
        BY <3>2, <4>1, AttemptMade, Zenon
      <4>3. QED
        BY <4>2 DEF old
    <3>4. opening' = [opening EXCEPT ![p] = at]
      BY <3>1
    <3> HIDE DEF at
    <3>5. QED
      BY <3>3, <3>4
  <2>3. QED
    BY <2>1, <2>2
<1>3. UNCHANGED <<shared, registry, conn, handle, reclosed>>
  BY DEF Retry, FallBack
<1>4. QED
  BY <1>1, <1>2, <1>3, OpeningKeeps

\* A raise is one of an attempt.
LEMMA RaisesOpening ==
  ASSUME StoreInv, NEW p \in Processes, Raises(p) \/ FallBack(p) \/ Retry(p)
  PROVE  opening[p] # NotOpening
BY DEF Raises, FallBack, Retry, NotOpening

LEMMA OpenFailsKeeps ==
  ASSUME StoreInv, NEW p \in Processes, OpenFails(p) PROVE StoreInv'
<1>1. opening[p] # NotOpening
  BY RaisesOpening DEF OpenFails
<1>2. handle' \in [Processes -> [Holders -> {0} \cup Instances]]
  BY <1>1 DEF OpenFails, StoreInv, StoreTypes
<1>3. QED
  BY <1>1, <1>2, OpeningKeeps DEF OpenFails

LEMMA CloseKeeps ==
  ASSUME StoreInv, NEW p \in Processes, NEW h \in Holders, Close(p, h) PROVE StoreInv'
<1> DEFINE i == handle[p][h]
<1>1. StoreTypes /\ OpensRegistered /\ OnlyRegistered /\ WriterAlone
  BY DEF StoreInv
<1>2. /\ UNCHANGED <<shared, opening, handle>> /\ opening[p] = NotOpening /\ i \in Instances
      /\ conn' = [conn EXCEPT ![p] = [@ EXCEPT ![i] = "none"]]
      /\ registry' = [registry EXCEPT ![p] = 0]
      /\ reclosed' = [reclosed EXCEPT ![p] = @ \/ conn[p][i] = "none"]
  BY <1>1 DEF Close, Closed, StoreTypes
<1> HIDE DEF i
<1>3. /\ conn'[p][i] = "none" /\ \A j \in Instances \ {i} : conn'[p][j] = conn[p][j]
      /\ \A q \in Processes \ {p} : conn'[q] = conn[q]
  BY <1>1, <1>2 DEF StoreTypes
<1>4. StoreTypes'
  <2>1. (reclosed[p] \/ conn[p][i] = "none") \in BOOLEAN
    OBVIOUS
  <2>2. reclosed' \in [Processes -> BOOLEAN]
    BY <1>1, <1>2, <2>1 DEF StoreTypes
  <2>3. QED
    BY <1>1, <1>2, <2>2 DEF StoreTypes
<1>5. OpensRegistered'
  BY <1>1, <1>2 DEF OpensRegistered, StoreTypes
<1>6. ~reclosed'[p] => ~reclosed[p] /\ conn[p][i] # "none"
  BY <1>1, <1>2 DEF StoreTypes
<1>7. \A q \in Processes \ {p} : reclosed'[q] = reclosed[q] /\ registry'[q] = registry[q]
  BY <1>1, <1>2 DEF StoreTypes
<1>8. OnlyRegistered'
  BY <1>1, <1>2, <1>3, <1>6, <1>7 DEF OnlyRegistered
<1>9. Held(p)' \subseteq Held(p) /\ \A q \in Processes \ {p} : Held(q)' = Held(q)
  BY <1>3 DEF Held
<1>10. WriterAlone'
  BY <1>1, <1>2, <1>9 DEF WriterAlone
<1>11. QED
  BY <1>4, <1>5, <1>8, <1>10 DEF StoreInv

LEMMA StoreGoneKeeps ==
  ASSUME StoreInv, NEW p \in Processes, StoreGone(p)
  PROVE  StoreInv' /\ Held(p)' = {} /\ \A q \in Processes \ {p} : Held(q)' = Held(q)
<1>1. StoreTypes /\ OpensRegistered /\ OnlyRegistered /\ WriterAlone
  BY DEF StoreInv
<1>2. /\ conn'[p] = [i \in Instances |-> "none"] /\ opening'[p] = NotOpening
      /\ \A q \in Processes \ {p} :
           /\ conn'[q] = conn[q] /\ opening'[q] = opening[q]
           /\ registry'[q] = registry[q] /\ reclosed'[q] = reclosed[q]
      /\ shared' = shared
  BY <1>1 DEF StoreGone, StoreTypes
<1>3. StoreTypes'
  BY <1>1 DEF StoreGone, StoreTypes
<1>4. OpensRegistered' /\ OnlyRegistered'
  BY <1>1, <1>2 DEF OpensRegistered, OnlyRegistered
<1>5. Held(p)' = {} /\ \A q \in Processes \ {p} : Held(q)' = Held(q)
  BY <1>2 DEF Held
<1>6. WriterAlone'
  BY <1>1, <1>2, <1>5 DEF WriterAlone
<1>7. QED
  BY <1>3, <1>4, <1>5, <1>6 DEF StoreInv

-----------------------------------------------------------------------------
\* A process that nobody has closed twice has the file open once.
LEMMA OpenedOnceFollows == StoreInv => OpenedOnce
<1> SUFFICES ASSUME StoreInv, NEW p \in Processes, ~reclosed[p]
             PROVE  Cardinality({i \in Instances : conn[p][i] # "none"}) <= 1
  BY DEF OpenedOnce
<1> DEFINE C == {i \in Instances : conn[p][i] # "none"}
<1>1. C \subseteq {registry[p]}
  BY DEF StoreInv, OnlyRegistered
<1>2. IsFiniteSet({registry[p]}) /\ Cardinality({registry[p]}) = 1
  BY FS_Singleton
<1>3. QED
  BY <1>1, <1>2, FS_Subset

\* Two processes with the file write nothing.
LEMMA NobodyWritesFollows == StoreInv => NobodyWritesTogether
<1> SUFFICES ASSUME StoreInv, shared, NEW p \in Processes, NEW q \in Processes, p # q,
                    Held(q) # {}, NEW h \in Holders, Writes(p, h)
             PROVE  FALSE
  BY DEF NobodyWritesTogether
<1>1. handle[p][h] \in Instances /\ conn[p][handle[p][h]] = "rw"
  BY DEF Writes, StoreInv, StoreTypes
<1>2. "rw" \in Held(p)
  BY <1>1 DEF Held
<1>3. QED
  BY <1>2 DEF StoreInv, WriterAlone

-----------------------------------------------------------------------------
(***************************************************************************)
(* The entries a process has been given and has not handled: the events of *)
(* its tasks, then those of its batch, in the order of the stream.         *)
(***************************************************************************)
Increasing(q) == \A i, j \in 1 .. Len(q) : i < j => q[i] < q[j]

LineUp(t, b) ==
  /\ t \in Seq(Nat) /\ Increasing(t)
  /\ b \in Seq(Nat) /\ Increasing(b)
  /\ \A i \in 1 .. Len(t), j \in 1 .. Len(b) : t[i] < b[j]

LEMMA EmptyLine == ASSUME NEW t, NEW b, LineUp(t, b)
                   PROVE  LineUp(t, << >>) /\ LineUp(<< >>, << >>)
BY DEF LineUp, Increasing

LEMMA TailOf ==
  ASSUME NEW q \in Seq(Nat), q # << >>
  PROVE  /\ Tail(q) \in Seq(Nat) /\ Head(q) = q[1] /\ Len(q) \in Nat /\ Len(q) > 0
         /\ Len(Tail(q)) = Len(q) - 1
         /\ \A i \in 1 .. Len(Tail(q)) : Tail(q)[i] = q[i + 1] /\ i + 1 \in 1 .. Len(q)
         /\ Range(q) = {Head(q)} \cup Range(Tail(q))
<1>1. /\ Tail(q) \in Seq(Nat) /\ Head(q) = q[1] /\ Len(q) \in Nat /\ Len(q) > 0
      /\ Len(Tail(q)) = Len(q) - 1
      /\ \A i \in 1 .. Len(Tail(q)) : Tail(q)[i] = q[i + 1] /\ i + 1 \in 1 .. Len(q)
  OBVIOUS
<1>2. DOMAIN q = 1 .. Len(q) /\ DOMAIN Tail(q) = 1 .. Len(Tail(q))
  BY <1>1
<1>3. ASSUME NEW i \in 1 .. Len(q) PROVE q[i] \in {Head(q)} \cup Range(Tail(q))
  <2>1. CASE i = 1
    BY <1>1, <2>1
  <2>2. CASE i # 1
    <3>1. i - 1 \in 1 .. Len(Tail(q)) /\ (i - 1) + 1 = i
      BY <1>1, <2>2
    <3>2. QED
      BY <1>1, <1>2, <3>1 DEF Range
  <2>3. QED
    BY <2>1, <2>2
<1>4. Head(q) \in Range(q)
  BY <1>1, <1>2 DEF Range
<1>5. Range(Tail(q)) \subseteq Range(q)
  BY <1>1, <1>2 DEF Range
<1>6. Range(q) \subseteq {Head(q)} \cup Range(Tail(q))
  BY <1>2, <1>3 DEF Range
<1>7. QED
  BY <1>1, <1>4, <1>5, <1>6

\* The first of the batch leaves it.
LEMMA BatchTail ==
  ASSUME NEW t, NEW b, LineUp(t, b), b # << >> PROVE LineUp(t, Tail(b))
<1>1. /\ b \in Seq(Nat) /\ t \in Seq(Nat) /\ Increasing(t)
      /\ \A i, j \in 1 .. Len(b) : i < j => b[i] < b[j]
      /\ \A i \in 1 .. Len(t), j \in 1 .. Len(b) : t[i] < b[j]
  BY DEF LineUp, Increasing
<1>2. /\ Tail(b) \in Seq(Nat) /\ Len(Tail(b)) \in Nat
      /\ \A i \in 1 .. Len(Tail(b)) : Tail(b)[i] = b[i + 1] /\ i + 1 \in 1 .. Len(b)
  BY <1>1, TailOf
<1> DEFINE r == Tail(b)
<1> HIDE DEF r
<1>3. ASSUME NEW i \in 1 .. Len(r), NEW j \in 1 .. Len(r), i < j PROVE r[i] < r[j]
  <2>1. r[i] = b[i + 1] /\ r[j] = b[j + 1] /\ i + 1 \in 1 .. Len(b) /\ j + 1 \in 1 .. Len(b)
    BY <1>2 DEF r
  <2>2. i + 1 < j + 1
    BY <1>3
  <2>3. QED
    BY <1>1, <2>1, <2>2
<1>4. ASSUME NEW i \in 1 .. Len(t), NEW j \in 1 .. Len(r) PROVE t[i] < r[j]
  BY <1>1, <1>2 DEF r
<1>5. QED
  BY <1>1, <1>2, <1>3, <1>4 DEF LineUp, Increasing, r

\* The first of the batch becomes the last of the tasks.
LEMMA BatchToTask ==
  ASSUME NEW t, NEW b, LineUp(t, b), b # << >>
  PROVE  /\ LineUp(Append(t, Head(b)), Tail(b))
         /\ Range(Append(t, Head(b))) = Range(t) \cup {Head(b)}
<1>1. t \in Seq(Nat) /\ b \in Seq(Nat) /\ Head(b) \in Nat
  BY DEF LineUp
<1> DEFINE n == Append(t, Head(b))
<1>2. /\ n \in Seq(Nat) /\ Len(n) = Len(t) + 1 /\ Len(t) \in Nat
      /\ \A i \in 1 .. Len(t) : n[i] = t[i]
      /\ n[Len(t) + 1] = Head(b)
      /\ DOMAIN n = 1 .. Len(n) /\ DOMAIN t = 1 .. Len(t)
  BY <1>1
<1> HIDE DEF n
<1>3. LineUp(t, Tail(b)) /\ Tail(b) \in Seq(Nat)
  BY BatchTail DEF LineUp
<1>4. \A i \in 1 .. Len(t) : t[i] < Head(b)
  BY <1>1, TailOf DEF LineUp
<1>5. \A j \in 1 .. Len(Tail(b)) : Head(b) < Tail(b)[j]
  BY <1>1, TailOf DEF LineUp, Increasing
<1>6. \A i \in 1 .. Len(n) : i \in 1 .. Len(t) \/ i = Len(t) + 1
  BY <1>2
<1>7. Increasing(n)
  <2>1. SUFFICES ASSUME NEW i \in 1 .. Len(n), NEW j \in 1 .. Len(n), i < j PROVE n[i] < n[j]
    BY DEF Increasing
  <2>2. i \in 1 .. Len(t)
    BY <1>2, <1>6, <2>1
  <2>3. CASE j \in 1 .. Len(t)
    BY <1>2, <1>3, <2>1, <2>2, <2>3 DEF Increasing, LineUp
  <2>4. CASE j = Len(t) + 1
    BY <1>2, <1>4, <2>2, <2>4
  <2>5. QED
    BY <1>6, <2>3, <2>4
<1>8. \A i \in 1 .. Len(n), j \in 1 .. Len(Tail(b)) : n[i] < Tail(b)[j]
  BY <1>2, <1>3, <1>5, <1>6 DEF LineUp
<1>9. LineUp(n, Tail(b))
  BY <1>2, <1>3, <1>7, <1>8 DEF LineUp
<1>10. Range(n) = Range(t) \cup {Head(b)}
  <2>1. 1 .. Len(n) = 1 .. Len(t) \cup {Len(t) + 1}
    BY <1>2
  <2>2. QED
    BY <1>2, <2>1 DEF Range
<1>11. QED
  BY <1>9, <1>10 DEF n

\* The first task starts, and nothing else is for the same entry.
LEMMA TaskTail ==
  ASSUME NEW t, NEW b, LineUp(t, b), t # << >>
  PROVE  /\ LineUp(Tail(t), b) /\ Range(Tail(t)) = Range(t) \ {Head(t)}
         /\ Head(t) \in Range(t) /\ Head(t) \notin Range(b)
<1>1. t \in Seq(Nat) /\ b \in Seq(Nat) /\ DOMAIN b = 1 .. Len(b) /\ Tail(t) \in Seq(Nat)
  BY DEF LineUp
<1>2. LineUp(Tail(t), b)
  BY <1>1, TailOf DEF LineUp, Increasing
<1>3. 1 \in 1 .. Len(t) /\ Head(t) = t[1] /\ Head(t) \in Nat
  BY <1>1, TailOf DEF LineUp
<1>4. ASSUME NEW i \in 1 .. Len(Tail(t)) PROVE Tail(t)[i] # Head(t)
  <2>1. Tail(t)[i] = t[i + 1] /\ i + 1 \in 1 .. Len(t) /\ 1 < i + 1
    BY <1>1, TailOf
  <2>2. t[1] < t[i + 1] /\ t[i + 1] \in Nat
    BY <1>1, <1>3, <2>1 DEF LineUp, Increasing
  <2>3. QED
    BY <1>3, <2>1, <2>2
<1>5. Head(t) \notin Range(Tail(t))
  <2>1. DOMAIN Tail(t) = 1 .. Len(Tail(t))
    BY <1>1
  <2>2. QED
    BY <1>4, <2>1 DEF Range
<1>6. \A j \in 1 .. Len(b) : t[1] < b[j] /\ b[j] \in Nat
  BY <1>1, <1>3 DEF LineUp
<1>7. Head(t) \notin Range(b)
  BY <1>1, <1>3, <1>6 DEF Range
<1>8. QED
  BY <1>1, <1>2, <1>5, <1>7, TailOf

\* b is the entries behind c up to last.
EntriesBehind(b, c, last) == b = [i \in 1 .. last - c |-> c + i]

\* A read gives entries behind all that were given.
LEMMA NewBatch ==
  ASSUME NEW t, LineUp(t, << >>), NEW c \in Nat, NEW last \in Nat, c <= last,
         Range(t) \subseteq 1 .. c, NEW b, EntriesBehind(b, c, last)
  PROVE  LineUp(t, b) /\ Range(b) = c + 1 .. last
<1>1. b \in Seq(Nat) /\ Len(b) = last - c /\ DOMAIN b = 1 .. last - c
  BY DEF EntriesBehind
<1>2. \A i \in 1 .. last - c : b[i] = c + i
  BY DEF EntriesBehind
<1>3. t \in Seq(Nat) /\ \A i \in 1 .. Len(t) : t[i] \in 1 .. c
  BY DEF LineUp, Range
<1>4. LineUp(t, b)
  <2>1. Increasing(b)
    BY <1>1, <1>2 DEF Increasing
  <2>2. ASSUME NEW i \in 1 .. Len(t), NEW j \in 1 .. Len(b) PROVE t[i] < b[j]
    <3>1. t[i] \in 1 .. c
      BY <1>3
    <3>2. j \in 1 .. last - c
      BY <1>1
    <3>3. b[j] = c + j
      BY <1>2, <3>2
    <3>4. QED
      BY <3>1, <3>2, <3>3
  <2>3. QED
    BY <1>1, <2>1, <2>2 DEF LineUp
<1>5. ASSUME NEW m \in c + 1 .. last PROVE m \in Range(b)
  <2>1. m - c \in 1 .. last - c /\ c + (m - c) = m
    OBVIOUS
  <2>2. QED
    BY <1>1, <1>2, <2>1 DEF Range
<1>6. Range(b) \subseteq c + 1 .. last
  BY <1>1, <1>2 DEF Range
<1>7. QED
  BY <1>4, <1>5, <1>6

-----------------------------------------------------------------------------
(***************************************************************************)
(* The invariant.                                                          *)
(***************************************************************************)
Link == [on : BOOLEAN, linked : BOOLEAN, heard : BOOLEAN, batch : Seq(Nat)]

Stages == {"down", "opening", "syncing", "ready", "running"}

Pending(p) == Range(bus[p].batch) \cup Range(tasks[p])

BusTypes ==
  /\ stream \in 0 .. MaxMessages /\ cursor \in 0 .. stream
  /\ bus \in [Consumers -> Link] /\ tasks \in [Consumers -> Seq(Nat)]
  /\ calls \in [Messages -> Nat] /\ DOMAIN taker = Messages

\* What a process has is in order, was given to it, and to it alone.
GivenInOrder ==
  \A p \in Consumers :
    /\ LineUp(tasks[p], bus[p].batch)
    /\ \A m \in Pending(p) : m \in 1 .. cursor /\ taker[m] = p

\* A listener that has stopped has nothing.
StoppedHasNothing == \A p \in Consumers : ~bus[p].on => bus[p].batch = << >> /\ tasks[p] = << >>

BusInv == BusTypes /\ GivenInOrder /\ StoppedHasNothing /\ LossExplained

\* The listener is up in a running process only.
StagesOK == proc \in [Processes -> Stages] /\ \A p \in Processes : bus[p].on => proc[p] = "running"

OnceStep == Once!OnceNext \/ UNCHANGED Once!onceVars

LEMMA OpenIs ==
  /\ \A m : m \in OpenMessages <=> m \in cursor + 1 .. stream \/ \E p \in Consumers : m \in Pending(p)
  /\ \A m : m \in OpenMessages' <=>
              m \in cursor' + 1 .. stream' \/ \E p \in Consumers : m \in Pending(p)'
<1>1. OpenMessages = (cursor + 1 .. stream) \cup UNION {Pending(p) : p \in Consumers}
  BY DEF OpenMessages, Pending
<1>2. OpenMessages' = (cursor' + 1 .. stream') \cup UNION {Pending(p)' : p \in Consumers}
  BY DEF OpenMessages, Pending
<1>3. QED
  BY <1>1, <1>2

\* A step of one process by which what it has becomes less, or stays.
LEMMA LessPending ==
  ASSUME BusInv, NEW p \in Consumers, NEW l \in Link, NEW t,
         UNCHANGED <<stream, cursor, taker, calls>>,
         bus' = [bus EXCEPT ![p] = l], tasks' = [tasks EXCEPT ![p] = t],
         LineUp(t, l.batch), ~l.on => l.batch = << >> /\ t = << >>,
         Range(l.batch) \cup Range(t) \subseteq Pending(p),
         flawed \subseteq flawed',
         \A m \in Pending(p) : m \in Range(l.batch) \cup Range(t) \/ <<p, m>> \in flawed'
  PROVE  BusInv' /\ OnceStep
<1>1. BusTypes /\ GivenInOrder /\ StoppedHasNothing /\ LossExplained
  BY DEF BusInv
<1>2. /\ bus'[p] = l /\ tasks'[p] = t
      /\ \A q \in Consumers \ {p} : bus'[q] = bus[q] /\ tasks'[q] = tasks[q]
  BY <1>1 DEF BusTypes
<1>3. /\ Pending(p)' = Range(l.batch) \cup Range(t)
      /\ \A q \in Consumers \ {p} : Pending(q)' = Pending(q)
  BY <1>2 DEF Pending
<1>4. BusTypes'
  BY <1>1 DEF BusTypes, LineUp
<1>5. GivenInOrder'
  BY <1>1, <1>2, <1>3 DEF GivenInOrder
<1>6. StoppedHasNothing'
  BY <1>1, <1>2 DEF StoppedHasNothing
<1>7. OpenMessages' \subseteq OpenMessages
  BY <1>3, OpenIs
<1>8. ASSUME NEW m \in OpenMessages, m \notin OpenMessages' PROVE <<taker[m], m>> \in flawed'
  <2>1. PICK q \in Consumers : m \in Pending(q)
    BY <1>8, OpenIs
  <2>2. m \notin Pending(q)'
    BY <1>8, OpenIs
  <2>3. q = p
    BY <1>3, <2>1, <2>2
  <2>4. <<p, m>> \in flawed' /\ taker[m] = p
    BY <1>1, <1>3, <2>1, <2>2, <2>3 DEF GivenInOrder
  <2>5. QED
    BY <2>4
<1>9. LossExplained'
  BY <1>1, <1>8 DEF LossExplained
<1>10. OnceStep
  BY <1>7 DEF OnceStep, Once!OnceNext, Once!Lose
<1>11. QED
  BY <1>4, <1>5, <1>6, <1>9, <1>10 DEF BusInv

\* What the invariant says of one process.
LEMMA OfOne ==
  ASSUME BusInv, NEW p \in Consumers
  PROVE  /\ bus[p] \in Link /\ LineUp(tasks[p], bus[p].batch)
         /\ tasks[p] \in Seq(Nat) /\ tasks = [tasks EXCEPT ![p] = tasks[p]]
         /\ ~bus[p].on => bus[p].batch = << >> /\ tasks[p] = << >>
         /\ Range(bus[p].batch) \cup Range(tasks[p]) = Pending(p)
BY DEF BusInv, BusTypes, GivenInOrder, StoppedHasNothing, Pending

\* A batch given up when the connection may have broken.
GivenUp(l, b, up) == [l EXCEPT !.batch = b, !.linked = up]

LEMMA GivenUpIs ==
  \A l \in Link, b \in Seq(Nat), up \in BOOLEAN :
    GivenUp(l, b, up) \in Link /\ GivenUp(l, b, up).batch = b /\ GivenUp(l, b, up).on = l.on
BY DEF Link, GivenUp

LEMMA BusStartStep ==
  ASSUME BusInv, NEW p \in Consumers, ~bus[p].on, BusStart(p) PROVE BusInv' /\ OnceStep
<1>1. PICK up \in BOOLEAN : bus' = [bus EXCEPT ![p] = [BusOff EXCEPT !.on = TRUE, !.linked = up]]
  BY DEF BusStart
<1> DEFINE l == [BusOff EXCEPT !.on = TRUE, !.linked = up]
<1>2. l \in Link /\ l.batch = << >> /\ l.on /\ bus' = [bus EXCEPT ![p] = l]
  <2>1. BusOff \in Link /\ BusOff.batch = << >>
    BY DEF BusOff, Link
  <2>2. l \in Link /\ l.on
    BY <2>1 DEF Link
  <2>3. l.batch = BusOff.batch
    BY <2>1 DEF Link
  <2>4. QED
    BY <1>1, <2>1, <2>2, <2>3
<1>3. UNCHANGED <<stream, cursor, tasks, taker, calls, flawed>>
  BY DEF BusStart
<1> HIDE DEF l
<1>4. LineUp(tasks[p], l.batch) /\ Range(l.batch) = Range(bus[p].batch)
  BY <1>2, OfOne
<1>5. QED
  BY <1>2, <1>3, <1>4, OfOne, LessPending

LEMMA BusSubscribeStep ==
  ASSUME BusInv, NEW p \in Consumers, BusSubscribe(p) PROVE BusInv' /\ OnceStep
<1> DEFINE l == [bus[p] EXCEPT !.heard = TRUE]
<1>1. l \in Link /\ l.batch = bus[p].batch /\ l.on
  BY OfOne DEF Link, BusSubscribe
<1>2. /\ bus' = [bus EXCEPT ![p] = l]
      /\ UNCHANGED <<stream, cursor, tasks, taker, calls, flawed>>
  BY DEF BusSubscribe
<1> HIDE DEF l
<1>3. QED
  BY <1>1, <1>2, OfOne, LessPending

LEMMA BusReconnectStep ==
  ASSUME BusInv, NEW p \in Consumers, BusReconnect(p) PROVE BusInv' /\ OnceStep
<1> DEFINE l == [bus[p] EXCEPT !.linked = TRUE]
<1>1. l \in Link /\ l.batch = bus[p].batch /\ l.on
  BY OfOne DEF Link, BusReconnect
<1>2. /\ bus' = [bus EXCEPT ![p] = l]
      /\ UNCHANGED <<stream, cursor, tasks, taker, calls, flawed>>
  BY DEF BusReconnect
<1> HIDE DEF l
<1>3. QED
  BY <1>1, <1>2, OfOne, LessPending

LEMMA BusGoneStep ==
  ASSUME BusInv, NEW p \in Consumers, BusGone(p) PROVE BusInv' /\ OnceStep
<1>1. /\ bus' = [bus EXCEPT ![p] = BusOff] /\ tasks' = [tasks EXCEPT ![p] = << >>]
      /\ flawed' = flawed \cup ({p} \X Pending(p))
      /\ UNCHANGED <<stream, cursor, taker, calls>>
  BY DEF BusGone, Lost, Pending
<1>2. BusOff \in Link /\ BusOff.batch = << >>
  BY DEF BusOff, Link
<1>3. LineUp(<< >>, << >>) /\ Range(<< >>) = {}
  BY OfOne, EmptyLine DEF Range
<1>4. flawed \subseteq flawed' /\ \A m \in Pending(p) : <<p, m>> \in flawed'
  BY <1>1
<1>5. QED
  BY <1>1, <1>2, <1>3, <1>4, LessPending

LEMMA BusDispatchStep ==
  ASSUME BusInv, NEW p \in Consumers, BusDispatch(p) PROVE BusInv' /\ OnceStep
<1> DEFINE b == bus[p].batch
           t == IF bus[p].heard THEN Append(tasks[p], Head(b)) ELSE tasks[p]
<1>1. /\ b # << >> /\ bus[p].on /\ b \in Seq(Nat) /\ LineUp(tasks[p], b)
      /\ UNCHANGED <<stream, cursor, taker, calls>>
  BY OfOne DEF BusDispatch, LineUp
<1>2. tasks' = [tasks EXCEPT ![p] = t]
  BY OfOne DEF BusDispatch
<1>3. /\ Range(b) = {Head(b)} \cup Range(Tail(b)) /\ Tail(b) \in Seq(Nat)
      /\ Pending(p) = Range(b) \cup Range(tasks[p])
  BY <1>1, TailOf DEF Pending
<1>4. /\ LineUp(t, Tail(b))
      /\ Range(t) = IF bus[p].heard THEN Range(tasks[p]) \cup {Head(b)} ELSE Range(tasks[p])
  BY <1>1, BatchTail, BatchToTask
<1>5. LineUp(t, << >>) /\ Range(<< >>) = {}
  BY <1>4, EmptyLine DEF Range
<1> HIDE DEF t
<1>6. CASE /\ bus' = [bus EXCEPT ![p].batch = Rest(@)]
           /\ flawed' = Lost(p, Unheard(p))
  <2> DEFINE l == [bus[p] EXCEPT !.batch = Tail(b)]
  <2>1. l \in Link /\ l.batch = Tail(b) /\ l.on
    BY <1>1, <1>3, OfOne DEF Link
  <2>2. bus' = [bus EXCEPT ![p] = l]
    BY <1>6 DEF Rest
  <2> HIDE DEF l
  <2>3. Range(l.batch) \cup Range(t) \subseteq Pending(p)
    BY <1>3, <1>4, <2>1
  <2>4. \A m \in Pending(p) : m \in Range(l.batch) \cup Range(t) \/ <<p, m>> \in flawed'
    BY <1>3, <1>4, <1>6, <2>1 DEF Lost, Unheard
  <2>5. flawed \subseteq flawed'
    BY <1>6 DEF Lost
  <2>6. QED
    BY <1>1, <1>2, <1>4, <2>1, <2>2, <2>3, <2>4, <2>5, LessPending
<1>7. ASSUME NEW up \in BOOLEAN, bus' = [bus EXCEPT ![p].batch = << >>, ![p].linked = up],
             flawed' = Lost(p, Unheard(p) \cup Range(Tail(b)))
      PROVE  BusInv' /\ OnceStep
  <2> DEFINE l == GivenUp(bus[p], << >>, up)
  <2>1. l \in Link /\ l.batch = << >> /\ l.on
    <3>1. << >> \in Seq(Nat)
      OBVIOUS
    <3>2. bus[p] \in Link
      BY OfOne
    <3>3. QED
      BY <1>1, <3>1, <3>2, GivenUpIs
  <2>2. bus' = [bus EXCEPT ![p] = l]
    BY <1>7, OfOne DEF BusInv, BusTypes, GivenUp
  <2> HIDE DEF l
  <2>3. Range(l.batch) \cup Range(t) \subseteq Pending(p)
    BY <1>3, <1>4, <1>5, <2>1
  <2>4. flawed \subseteq flawed' /\ LineUp(t, l.batch)
    BY <1>5, <1>7, <2>1 DEF Lost
  <2>5. \A m \in Pending(p) : m \in Range(l.batch) \cup Range(t) \/ <<p, m>> \in flawed'
    BY <1>3, <1>4, <1>7 DEF Lost, Unheard
  <2>6. QED
    BY <1>1, <1>2, <2>1, <2>2, <2>3, <2>4, <2>5, LessPending
<1>8. QED
  BY <1>6, <1>7 DEF BusDispatch

LEMMA BusPublishStep ==
  ASSUME BusInv, NEW p \in Consumers, BusPublish(p) PROVE BusInv' /\ OnceStep
<1>1. BusTypes /\ GivenInOrder /\ StoppedHasNothing /\ LossExplained
  BY DEF BusInv
<1>2. /\ stream < MaxMessages /\ stream' = stream + 1
      /\ UNCHANGED <<cursor, bus, tasks, taker, calls, flawed>>
  BY DEF BusPublish
<1>3. stream \in Nat /\ cursor \in Nat /\ cursor <= stream /\ MaxMessages \in Nat
  BY <1>1, BusAssumption DEF BusTypes
<1>4. \A q \in Consumers : Pending(q)' = Pending(q)
  BY <1>2 DEF Pending
<1>5. cursor' + 1 .. stream' = (cursor + 1 .. stream) \cup {stream + 1}
  BY <1>2, <1>3
<1>6. OpenMessages' = OpenMessages \cup {stream + 1}
  BY <1>4, <1>5, OpenIs
<1>7. BusTypes'
  <2>1. stream' \in 0 .. MaxMessages /\ cursor' \in 0 .. stream'
    BY <1>2, <1>3
  <2>2. QED
    BY <1>1, <1>2, <2>1 DEF BusTypes
<1>8. GivenInOrder' /\ StoppedHasNothing'
  BY <1>1, <1>2, <1>4 DEF GivenInOrder, StoppedHasNothing
<1>9. LossExplained'
  <2>1. 1 .. stream' = 1 .. stream \cup {stream + 1}
    BY <1>2, <1>3
  <2>2. QED
    BY <1>1, <1>2, <1>6, <2>1 DEF LossExplained
<1>10. stream + 1 \in Messages
  BY <1>2, <1>3 DEF Messages
<1>11. OnceStep
  BY <1>2, <1>6, <1>10 DEF OnceStep, Once!OnceNext, Once!Send
<1>12. QED
  BY <1>7, <1>8, <1>9, <1>11 DEF BusInv

LEMMA MinOfTwo ==
  ASSUME NEW a \in Nat, NEW b \in Nat
  PROVE  Min({a, b}) \in {a, b} /\ Min({a, b}) <= a /\ Min({a, b}) <= b
<1>1. \E x \in {a, b} : \A y \in {a, b} : x <= y
  OBVIOUS
<1>2. QED
  BY <1>1 DEF Min

LEMMA BusReadStep ==
  ASSUME BusInv, NEW p \in Consumers, BusRead(p) PROVE BusInv' /\ OnceStep
<1> DEFINE last == Min({stream, cursor + ReadCount})
           b    == [i \in 1 .. last - cursor |-> cursor + i]
<1>1. BusTypes /\ GivenInOrder /\ StoppedHasNothing /\ LossExplained
  BY DEF BusInv
<1>2. /\ bus[p].on /\ bus[p].batch = << >> /\ cursor < stream /\ cursor' = last
      /\ taker' = [m \in Messages |-> IF m \in cursor + 1 .. last THEN p ELSE taker[m]]
      /\ UNCHANGED <<stream, tasks, calls>>
  BY DEF BusRead
<1>3. stream \in Nat /\ cursor \in Nat /\ ReadCount \in Nat \ {0} /\ stream <= MaxMessages
      /\ MaxMessages \in Nat
  BY <1>1, BusAssumption DEF BusTypes
<1>4. last \in Nat /\ cursor < last /\ last <= stream
  BY <1>2, <1>3, MinOfTwo
<1>5. bus' = [bus EXCEPT ![p].batch = b] \/ bus' = [bus EXCEPT ![p].linked = FALSE]
  BY DEF BusRead, Given
<1>6. \/ bus' = [bus EXCEPT ![p].batch = b] /\ flawed' = flawed
      \/ bus' = [bus EXCEPT ![p].linked = FALSE] /\ flawed' = Lost(p, cursor + 1 .. last)
  BY DEF BusRead, Given
<1> HIDE DEF last
<1>7. /\ tasks[p] \in Seq(Nat) /\ Range(tasks[p]) \subseteq 1 .. cursor
      /\ LineUp(tasks[p], << >>) /\ Pending(p) = Range(tasks[p])
  <2>1. Range(<< >>) = {}
    BY DEF Range
  <2>2. QED
    BY <1>1, <1>2, <2>1, OfOne DEF GivenInOrder
<1>8. LineUp(tasks[p], b) /\ Range(b) = cursor + 1 .. last
  <2> DEFINE t == tasks[p]
  <2>1. /\ LineUp(t, << >>) /\ Range(t) \subseteq 1 .. cursor
        /\ cursor \in Nat /\ last \in Nat /\ cursor <= last
    BY <1>3, <1>4, <1>7
  <2>2. EntriesBehind(b, cursor, last)
    BY DEF EntriesBehind
  <2> HIDE DEF t, b
  <2>3. LineUp(t, b) /\ Range(b) = cursor + 1 .. last
    BY <2>1, <2>2, NewBatch
  <2>4. QED
    BY <2>3 DEF t
<1> HIDE DEF b
<1>9. /\ \A q \in Consumers \ {p} : bus'[q] = bus[q] /\ bus'[p].on
      /\ \/ bus'[p].batch = b
         \/ bus'[p].batch = << >> /\ \A m \in cursor + 1 .. last : <<p, m>> \in flawed'
      /\ bus' \in [Consumers -> Link] /\ bus'[p].on /\ flawed \subseteq flawed'
  <2>1. bus \in [Consumers -> Link] /\ bus[p] \in Link /\ b \in Seq(Nat)
    BY <1>1, <1>8 DEF BusTypes, LineUp
  <2>2. CASE bus' = [bus EXCEPT ![p].batch = b] /\ flawed' = flawed
    <3> DEFINE l == [bus[p] EXCEPT !.batch = b]
    <3>1. l \in Link /\ l.on = bus[p].on /\ l.batch = b
      BY <2>1 DEF Link
    <3>2. bus' = [bus EXCEPT ![p] = l]
      BY <2>2
    <3> HIDE DEF l
    <3>3. bus'[p] = l /\ bus' \in [Consumers -> Link] /\ \A q \in Consumers \ {p} : bus'[q] = bus[q]
      BY <2>1, <3>1, <3>2
    <3>4. QED
      BY <1>2, <2>2, <3>1, <3>3
  <2>3. CASE bus' = [bus EXCEPT ![p].linked = FALSE] /\ flawed' = Lost(p, cursor + 1 .. last)
    <3> DEFINE l == [bus[p] EXCEPT !.linked = FALSE]
    <3>1. l \in Link /\ l.on = bus[p].on /\ l.batch = bus[p].batch
      BY <2>1 DEF Link
    <3>2. bus' = [bus EXCEPT ![p] = l]
      BY <2>3
    <3> HIDE DEF l
    <3>3. bus'[p] = l /\ bus' \in [Consumers -> Link] /\ \A q \in Consumers \ {p} : bus'[q] = bus[q]
      BY <2>1, <3>1, <3>2
    <3>4. flawed \subseteq flawed' /\ \A m \in cursor + 1 .. last : <<p, m>> \in flawed'
      BY <2>3 DEF Lost
    <3>5. QED
      BY <1>2, <3>1, <3>3, <3>4
  <2>4. QED
    BY <1>6, <2>2, <2>3
<1>10. /\ \A q \in Consumers \ {p} : Pending(q)' = Pending(q)
       /\ \/ bus'[p].batch = b /\ Pending(p)' = Pending(p) \cup (cursor + 1 .. last)
          \/ /\ \A m \in cursor + 1 .. last : <<p, m>> \in flawed'
             /\ bus'[p].batch = << >> /\ Pending(p)' = Pending(p)
  <2>1. Range(<< >>) = {}
    BY DEF Range
  <2>2. QED
    BY <1>2, <1>7, <1>8, <1>9, <2>1 DEF Pending
<1>11. cursor + 1 .. stream = (cursor + 1 .. last) \cup (last + 1 .. stream)
  BY <1>3, <1>4
<1>12. BusTypes'
  <2>1. stream' \in 0 .. MaxMessages /\ cursor' \in 0 .. stream' /\ DOMAIN taker' = Messages
    BY <1>2, <1>3, <1>4
  <2>2. QED
    BY <1>1, <1>2, <1>9, <2>1 DEF BusTypes
<1>13. GivenInOrder'
  <2>1. 1 .. cursor \subseteq 1 .. last /\ 1 .. last \subseteq Messages
        /\ (1 .. cursor) \cap (cursor + 1 .. last) = {} /\ cursor + 1 .. last \subseteq 1 .. last
    BY <1>3, <1>4 DEF Messages
  <2>2. \A m \in 1 .. cursor : taker'[m] = taker[m]
    BY <1>2, <2>1
  <2>3. \A m \in cursor + 1 .. last : taker'[m] = p
    BY <1>2, <2>1
  <2>4. ASSUME NEW q \in Consumers \ {p}
        PROVE  /\ LineUp(tasks'[q], bus'[q].batch)
               /\ \A m \in Pending(q)' : m \in 1 .. cursor' /\ taker'[m] = q
    BY <1>1, <1>2, <1>9, <1>10, <2>1, <2>2 DEF GivenInOrder
  <2>5. /\ LineUp(tasks'[p], bus'[p].batch)
        /\ \A m \in Pending(p)' : m \in 1 .. cursor' /\ taker'[m] = p
    <3>1. \A m \in Pending(p) : m \in 1 .. cursor /\ taker[m] = p
      BY <1>1 DEF GivenInOrder
    <3>2. QED
      BY <1>2, <1>7, <1>8, <1>10, <2>1, <2>2, <2>3, <3>1
  <2>6. QED
    BY <2>4, <2>5 DEF GivenInOrder
<1>14. StoppedHasNothing'
  BY <1>1, <1>2, <1>9 DEF StoppedHasNothing
<1>15. /\ OpenMessages' \subseteq OpenMessages
       /\ \A m \in OpenMessages :
            m \notin OpenMessages' => m \in cursor + 1 .. last /\ <<p, m>> \in flawed'
  BY <1>2, <1>10, <1>11, OpenIs
<1>16. LossExplained'
  <2>1. SUFFICES ASSUME NEW m \in 1 .. stream, m \notin OpenMessages', calls[m] = 0
                 PROVE  <<taker'[m], m>> \in flawed'
    BY <1>2 DEF LossExplained
  <2>2. m \in Messages
    BY <1>3 DEF Messages
  <2>3. CASE m \in OpenMessages
    BY <1>2, <1>15, <2>1, <2>2, <2>3
  <2>4. CASE m \notin OpenMessages
    <3>1. m \notin cursor + 1 .. last
      BY <1>11, <2>4, OpenIs
    <3>2. QED
      BY <1>1, <1>2, <1>9, <2>1, <2>2, <2>4, <3>1 DEF LossExplained
  <2>5. QED
    BY <2>3, <2>4
<1>17. OnceStep
  BY <1>2, <1>15 DEF OnceStep, Once!OnceNext, Once!Lose
<1>18. QED
  BY <1>12, <1>13, <1>14, <1>16, <1>17 DEF BusInv

LEMMA BusHandleStep ==
  ASSUME BusInv, NEW p \in Consumers, BusHandle(p) PROVE BusInv' /\ OnceStep
<1> DEFINE t == tasks[p]
           h == Head(t)
<1>1. BusTypes /\ GivenInOrder /\ StoppedHasNothing /\ LossExplained
  BY DEF BusInv
<1>2. /\ t # << >> /\ tasks' = [tasks EXCEPT ![p] = Tail(t)]
      /\ calls' = [calls EXCEPT ![h] = @ + 1]
      /\ UNCHANGED <<stream, cursor, bus, taker, flawed>>
  BY OfOne DEF BusHandle
<1>3. LineUp(t, bus[p].batch) /\ Pending(p) = Range(bus[p].batch) \cup Range(t)
  BY <1>1 DEF GivenInOrder, Pending
<1>4. /\ LineUp(Tail(t), bus[p].batch) /\ Range(Tail(t)) = Range(t) \ {h}
      /\ h \in Range(t) /\ h \notin Range(bus[p].batch)
  BY <1>2, <1>3, TaskTail
<1>5. h \in 1 .. cursor /\ taker[h] = p /\ cursor \in Nat /\ stream \in Nat
      /\ cursor <= stream /\ stream <= MaxMessages
  BY <1>1, <1>3, <1>4, BusAssumption DEF GivenInOrder, BusTypes
<1> HIDE DEF t, h
<1>6. /\ tasks'[p] = Tail(t) /\ bus' = bus
      /\ \A q \in Consumers \ {p} : tasks'[q] = tasks[q]
  BY <1>1, <1>2 DEF BusTypes
<1>7. /\ Pending(p)' = Pending(p) \ {h}
      /\ \A q \in Consumers \ {p} : Pending(q)' = Pending(q) /\ h \notin Pending(q)
  <2>1. \A q \in Consumers \ {p} : h \notin Pending(q)
    BY <1>1, <1>5 DEF GivenInOrder
  <2>2. QED
    BY <1>3, <1>4, <1>6, <2>1 DEF Pending
<1>8. h \notin cursor + 1 .. stream /\ h \in Messages
  BY <1>5, BusAssumption DEF Messages
<1>9. OpenMessages' = OpenMessages \ {h} /\ h \in OpenMessages
  BY <1>2, <1>3, <1>4, <1>7, <1>8, OpenIs
<1>10. BusTypes'
  <2>1. Tail(t) \in Seq(Nat)
    BY <1>4 DEF LineUp
  <2>2. QED
    BY <1>1, <1>2, <1>8, <2>1 DEF BusTypes
<1>11. GivenInOrder'
  BY <1>1, <1>2, <1>4, <1>6, <1>7 DEF GivenInOrder
<1>12. StoppedHasNothing'
  BY <1>1, <1>2, <1>6 DEF StoppedHasNothing, t
<1>13. LossExplained'
  <2>1. SUFFICES ASSUME NEW m \in 1 .. stream, m \notin OpenMessages', calls'[m] = 0
                 PROVE  <<taker[m], m>> \in flawed
    BY <1>2 DEF LossExplained
  <2>2. m \in Messages /\ calls \in [Messages -> Nat]
    BY <1>1, <1>5, BusAssumption DEF Messages, BusTypes
  <2>3. m # h
    BY <1>2, <1>8, <2>1, <2>2
  <2>4. calls[m] = 0 /\ m \notin OpenMessages
    BY <1>2, <1>9, <2>1, <2>2, <2>3
  <2>5. QED
    BY <1>1, <2>4 DEF LossExplained
<1>14. OnceStep
  BY <1>2, <1>9 DEF OnceStep, Once!OnceNext, Once!Handle
<1>15. QED
  BY <1>10, <1>11, <1>12, <1>13, <1>14 DEF BusInv

-----------------------------------------------------------------------------
(***************************************************************************)
(* The steps of the processes.                                             *)
(***************************************************************************)
ProcessesInv == BusInv /\ StagesOK

LEMMA ProcessesStart == ProcessesInit => ProcessesInv /\ Once!OnceInit
<1> SUFFICES ASSUME ProcessesInit PROVE ProcessesInv /\ Once!OnceInit
  OBVIOUS
<1>1. /\ stream = 0 /\ cursor = 0 /\ flawed = {} /\ MaxMessages \in Nat
      /\ bus = [p \in Consumers |-> BusOff] /\ tasks = [p \in Consumers |-> << >>]
      /\ taker = [m \in Messages |-> "nobody"] /\ calls = [m \in Messages |-> 0]
      /\ proc = [p \in Processes |-> "down"]
  BY BusAssumption DEF ProcessesInit, BusInit
<1>2. BusOff \in Link /\ BusOff.batch = << >> /\ ~BusOff.on /\ << >> \in Seq(Nat)
  BY DEF BusOff, Link
<1>3. LineUp(<< >>, << >>) /\ Range(<< >>) = {}
  BY DEF LineUp, Increasing, Range
<1>4. \A p \in Consumers : Pending(p) = {}
  BY <1>1, <1>2, <1>3 DEF Pending
<1>5. BusTypes
  BY <1>1, <1>2 DEF BusTypes
<1>6. GivenInOrder /\ StoppedHasNothing
  BY <1>1, <1>2, <1>3, <1>4 DEF GivenInOrder, StoppedHasNothing
<1>7. LossExplained
  BY <1>1 DEF LossExplained
<1>8. StagesOK
  BY <1>1, <1>2, ProcessAssumption DEF ProcessAssumption, StagesOK, Stages
<1>9. OpenMessages = {}
  <2>1. cursor + 1 .. stream = {}
    BY <1>1
  <2>2. QED
    BY <1>4, <2>1, OpenIs
<1>10. Once!OnceInit
  BY <1>1, <1>9 DEF Once!OnceInit
<1>11. QED
  BY <1>5, <1>6, <1>7, <1>8, <1>10 DEF ProcessesInv, BusInv

\* What leaves the bus alone.
LEMMA BusUntouched ==
  ASSUME BusInv, UNCHANGED busVars PROVE BusInv' /\ OnceStep
<1>1. UNCHANGED <<stream, cursor, bus, tasks, taker, calls, flawed>>
  BY DEF busVars
<1>2. OpenMessages' = OpenMessages /\ \A p \in Consumers : Pending(p)' = Pending(p)
  BY <1>1 DEF OpenMessages, Pending
<1>3. QED
  BY <1>1, <1>2 DEF BusInv, BusTypes, GivenInOrder, StoppedHasNothing, LossExplained,
                    OnceStep, Once!onceVars

LEMMA ProcessesStep ==
  ASSUME ProcessesInv, [ProcessesNext]_processVars PROVE ProcessesInv' /\ OnceStep
<1>1. BusInv /\ StagesOK /\ Consumers = Processes /\ "server" \in Processes
  BY ProcessAssumption DEF ProcessAssumption, ProcessesInv
<1>2. ASSUME UNCHANGED busVars, StagesOK' PROVE ProcessesInv' /\ OnceStep
  BY <1>1, <1>2, BusUntouched DEF ProcessesInv
<1>3. ASSUME UNCHANGED proc, bus' = bus PROVE StagesOK'
  BY <1>1, <1>3 DEF StagesOK
<1>4. ASSUME NEW p \in Processes, Start(p) PROVE ProcessesInv' /\ OnceStep
  <2>1. UNCHANGED busVars /\ proc[p] = "down" /\ proc' = [proc EXCEPT ![p] = "opening"]
    BY <1>4 DEF Start
  <2>2. StagesOK'
    BY <1>1, <2>1 DEF StagesOK, Stages, busVars
  <2>3. QED
    BY <1>2, <2>1, <2>2
<1>5. ASSUME NEW p \in Processes, End(p) PROVE ProcessesInv' /\ OnceStep
  <2>1. BusGone(p) /\ proc' = [proc EXCEPT ![p] = "down"]
    BY <1>5 DEF End
  <2>2. bus' = [bus EXCEPT ![p] = BusOff]
    BY <2>1 DEF BusGone
  <2>3. StagesOK'
    BY <1>1, <2>1, <2>2 DEF StagesOK, Stages, BusOff, BusInv, BusTypes
  <2>4. QED
    BY <1>1, <2>1, <2>3, BusGoneStep DEF ProcessesInv
<1>6. ASSUME NEW p \in Processes, OpenStep(p) PROVE ProcessesInv' /\ OnceStep
  <2>1. CASE Opened(p)
    <3>1. UNCHANGED busVars
      BY <2>1 DEF Opened
    <3>2. \/ UNCHANGED proc
          \/ proc[p] = "opening" /\ \E s \in {"ready", "syncing"} : proc' = [proc EXCEPT ![p] = s]
      BY <2>1 DEF Opened
    <3>3. StagesOK'
      BY <1>1, <3>1, <3>2 DEF StagesOK, Stages, busVars
    <3>4. QED
      BY <1>2, <3>1, <3>3
  <2>2. CASE OpenGoesOn(p)
    BY <1>2, <1>3, <2>2 DEF OpenGoesOn, busVars
  <2>3. QED
    BY <1>5, <1>6, <2>1, <2>2 DEF OpenStep
<1>7. ASSUME NEW p \in Processes, BootSync(p) PROVE ProcessesInv' /\ OnceStep
  <2>1. UNCHANGED busVars
    BY <1>7 DEF BootSync
  <2>2. UNCHANGED proc \/ (proc[p] = "syncing" /\ proc' = [proc EXCEPT ![p] = "ready"])
    BY <1>7 DEF BootSync
  <2>3. StagesOK'
    BY <1>1, <2>1, <2>2 DEF StagesOK, Stages, busVars
  <2>4. QED
    BY <1>2, <2>1, <2>3
<1>8. ASSUME NEW p \in Processes, BusUp(p) PROVE ProcessesInv' /\ OnceStep
  <2>1. BusStart(p) /\ proc[p] = "ready" /\ proc' = [proc EXCEPT ![p] = "running"]
    BY <1>8 DEF BusUp
  <2>2. ~bus[p].on
    BY <1>1, <2>1 DEF StagesOK
  <2>3. \A q \in Consumers \ {p} : bus'[q] = bus[q]
    BY <1>1, <2>1 DEF BusStart, BusInv, BusTypes
  <2>4. StagesOK'
    BY <1>1, <2>1, <2>3 DEF StagesOK, Stages
  <2>5. QED
    BY <1>1, <2>1, <2>2, <2>4, BusStartStep DEF ProcessesInv
<1>9. ASSUME NEW p \in Processes, BusStep(p) PROVE ProcessesInv' /\ OnceStep
  <2>1. /\ proc[p] = "running" /\ UNCHANGED proc
        /\ \/ BusSubscribe(p) \/ BusPublish(p) \/ BusRead(p)
           \/ BusDispatch(p) \/ BusHandle(p) \/ BusReconnect(p)
    BY <1>9 DEF BusStep, Awake
  <2>2. \A q \in Consumers \ {p} : bus'[q] = bus[q]
    BY <1>1, <2>1 DEF BusSubscribe, BusPublish, BusRead, BusDispatch, BusHandle, BusReconnect,
                      BusInv, BusTypes
  <2>3. StagesOK'
    BY <1>1, <2>1, <2>2 DEF StagesOK
  <2>4. BusInv' /\ OnceStep
    BY <1>1, <2>1, BusSubscribeStep, BusPublishStep, BusReadStep, BusDispatchStep,
       BusHandleStep, BusReconnectStep
  <2>5. QED
    BY <2>3, <2>4 DEF ProcessesInv
<1>10. ASSUME NEW p \in Processes, JobStep(p) PROVE ProcessesInv' /\ OnceStep
  BY <1>2, <1>3, <1>10 DEF JobStep, busVars
<1>11. CASE PipelineStep("server")
  BY <1>2, <1>3, <1>11 DEF PipelineStep, busVars
<1>12. CASE UserStep
  BY <1>2, <1>3, <1>12 DEF UserStep, busVars
<1>13. CASE UNCHANGED processVars
  BY <1>2, <1>3, <1>13 DEF processVars, busVars
<1>14. QED
  BY <1>4, <1>5, <1>6, <1>7, <1>8, <1>9, <1>10, <1>11, <1>12, <1>13
     DEF ProcessesNext, Lifecycle

LEMMA ProcessesInvHolds == ProcessesSpec => []ProcessesInv
BY ProcessesStart, ProcessesStep, PTL DEF ProcessesSpec

\* An event is lost only by a process that was given it and was cut off, ended or
\* had no handler (_listener_loop).
THEOREM LossExplainedHolds == ProcessesSpec => []LossExplained
BY ProcessesInvHolds, PTL DEF ProcessesInv, BusInv

\* Every event is handled once at most, and a lost one does not come back: the
\* stream with its consumer group implements AtMostOnceChannel.
THEOREM AtMostOnceHolds == ProcessesSpec => AtMostOnce
<1>1. ProcessesInv /\ [ProcessesNext]_processVars => [Once!OnceNext]_Once!onceVars
  BY ProcessesStep DEF OnceStep
<1>2. QED
  BY <1>1, ProcessesStart, ProcessesInvHolds, PTL DEF ProcessesSpec, AtMostOnce, Once!OnceSpec

-----------------------------------------------------------------------------
(***************************************************************************)
(* The states of the processes and what they hold.                         *)
(***************************************************************************)
TxnsOK ==
  /\ DOMAIN txn = Processes \cup {"user"}
  /\ \A who \in DOMAIN txn : DOMAIN txn[who] = {"kind", "todo", "seen"}
  /\ \A p \in Processes : txn[p].kind \in {"none", "upsert"}

LifeOK ==
  \A p \in Processes :
    /\ proc[p] = "opening" => opening[p].holder = "main"
    /\ proc[p] = "down" => Held(p) = {} /\ opening[p] = NotOpening /\ txn[p] = NoTxn

FullInv == ProcessesInv /\ StoreInv /\ TxnsOK /\ LifeOK

LEMMA ServerWorker ==
  /\ Consumers = Processes /\ Jobs = Processes /\ "server" \in Processes
  /\ "user" \notin Processes /\ "main" \in Holders
BY ProcessAssumption DEF ProcessAssumption, Holders

LEMMA FullStart == ProcessesInit => FullInv
<1> SUFFICES ASSUME ProcessesInit PROVE FullInv
  OBVIOUS
<1>1. StoreInv /\ \A p \in Processes : Held(p) = {}
  BY StoreInitInv DEF ProcessesInit
<1>2. /\ opening = [p \in Processes |-> NotOpening] /\ proc = [p \in Processes |-> "down"]
      /\ txn = [who \in Processes \cup {"user"} |-> NoTxn]
  BY ServerWorker DEF ProcessesInit, StoreInit, CatalogInit
<1>3. TxnsOK
  BY <1>2 DEF TxnsOK, NoTxn
<1>4. LifeOK
  BY <1>1, <1>2 DEF LifeOK
<1>5. QED
  BY <1>1, <1>3, <1>4, ProcessesStart DEF FullInv

\* A transaction that has read one row more.
LEMMA ReadRowKind ==
  ASSUME NEW r, DOMAIN r = {"kind", "todo", "seen"}, NEW a, NEW b
  PROVE  /\ [r EXCEPT !.todo = a, !.seen = b].kind = r.kind
         /\ DOMAIN [r EXCEPT !.todo = a, !.seen = b] = {"kind", "todo", "seen"}
OBVIOUS

LEMMA TxnChanges ==
  ASSUME TxnsOK, NEW who \in Processes \cup {"user"}, NEW r,
         txn' = [txn EXCEPT ![who] = r], DOMAIN r = {"kind", "todo", "seen"},
         who \in Processes => r.kind \in {"none", "upsert"}
  PROVE  TxnsOK' /\ \A q \in Processes \ {who} : txn'[q] = txn[q]
<1>1. /\ txn'[who] = r /\ DOMAIN txn' = DOMAIN txn
      /\ \A q \in DOMAIN txn \ {who} : txn'[q] = txn[q]
  BY DEF TxnsOK
<1>2. QED
  BY <1>1 DEF TxnsOK

LEMMA TxnStep ==
  ASSUME TxnsOK, NEW who \in Processes \cup {"user"},
         ReadRow(who) \/ Commit(who) \/ RollBack(who)
  PROVE  TxnsOK' /\ \A q \in Processes \ {who} : txn'[q] = txn[q]
<1>1. /\ DOMAIN NoTxn = {"kind", "todo", "seen"} /\ NoTxn.kind = "none"
  BY DEF NoTxn
<1>2. CASE txn' = [txn EXCEPT ![who] = NoTxn]
  BY <1>1, <1>2, TxnChanges
<1>3. CASE ReadRow(who)
  <2>1. \E a, b : txn' = [txn EXCEPT ![who] = [txn[who] EXCEPT !.todo = a, !.seen = b]]
    BY <1>3 DEF ReadRow, TxnsOK
  <2>2. PICK a, b : txn' = [txn EXCEPT ![who] = [txn[who] EXCEPT !.todo = a, !.seen = b]]
    BY <2>1
  <2>3. DOMAIN txn[who] = {"kind", "todo", "seen"}
        /\ (who \in Processes => txn[who].kind \in {"none", "upsert"})
    BY DEF TxnsOK
  <2> DEFINE r == [txn[who] EXCEPT !.todo = a, !.seen = b]
  <2>4. r.kind = txn[who].kind /\ DOMAIN r = {"kind", "todo", "seen"}
    BY <2>3, ReadRowKind
  <2> HIDE DEF r
  <2>5. txn' = [txn EXCEPT ![who] = r]
    BY <2>2 DEF r
  <2>6. QED
    BY <2>3, <2>4, <2>5, TxnChanges
<1>4. QED
  BY <1>2, <1>3 DEF Commit, RollBack

LEMMA FetchStep ==
  ASSUME TxnsOK, NEW p \in Processes, FetchCatalog(p)
  PROVE  TxnsOK' /\ \A q \in Processes \ {p} : txn'[q] = txn[q]
<1>1. UNCHANGED txn \/ \E listed : txn' = [txn EXCEPT ![p] = Begun("upsert", listed)]
  BY DEF FetchCatalog
<1>2. CASE UNCHANGED txn
  BY <1>2 DEF TxnsOK
<1>3. ASSUME NEW listed, txn' = [txn EXCEPT ![p] = Begun("upsert", listed)]
      PROVE  TxnsOK' /\ \A q \in Processes \ {p} : txn'[q] = txn[q]
  <2>1. DOMAIN Begun("upsert", listed) = {"kind", "todo", "seen"}
        /\ Begun("upsert", listed).kind = "upsert"
    BY DEF Begun
  <2>2. QED
    BY <1>3, <2>1, TxnChanges
<1>4. QED
  BY <1>1, <1>2, <1>3

LEMMA UserBeginsStep ==
  ASSUME TxnsOK, UserBegins
  PROVE  TxnsOK' /\ \A q \in Processes : txn'[q] = txn[q]
<1>1. PICK kind, names : txn' = [txn EXCEPT !["user"] = Begun(kind, names)]
  BY DEF UserBegins
<1>2. DOMAIN Begun(kind, names) = {"kind", "todo", "seen"}
  BY DEF Begun
<1>3. QED
  BY <1>1, <1>2, TxnChanges, ServerWorker

\* Steps of a process that is up, in which it holds the transaction alone.
LEMMA StoreStays == ASSUME StoreInv, UNCHANGED storeVars
                    PROVE  StoreInv' /\ \A p \in Processes : Held(p)' = Held(p)
<1>1. UNCHANGED <<file, shared, opening, registry, conn, handle, reclosed>>
  BY DEF storeVars
<1>2. \A p \in Processes : Held(p)' = Held(p)
  BY <1>1 DEF Held
<1>3. StoreTypes' /\ OpensRegistered' /\ OnlyRegistered'
  BY <1>1 DEF StoreInv, StoreTypes, OpensRegistered, OnlyRegistered
<1>4. WriterAlone'
  BY <1>1, <1>2 DEF StoreInv, WriterAlone
<1>5. QED
  BY <1>2, <1>3, <1>4 DEF StoreInv

\* A step of one process leaves the others as they are.
LEMMA LifeKept ==
  ASSUME LifeOK, NEW p \in Processes,
         \A q \in Processes \ {p} :
           /\ proc'[q] = proc[q] /\ opening'[q] = opening[q]
           /\ Held(q)' = Held(q) /\ txn'[q] = txn[q],
         proc'[p] = "opening" => opening'[p].holder = "main",
         proc'[p] = "down" => Held(p)' = {} /\ opening'[p] = NotOpening /\ txn'[p] = NoTxn
  PROVE  LifeOK'
BY DEF LifeOK

Lively == StoreInv /\ TxnsOK /\ LifeOK

LEMMA StartLively ==
  ASSUME FullInv, NEW p \in Processes, Start(p) PROVE Lively'
<1>1. /\ Construct(p, "main") /\ proc[p] = "down" /\ proc' = [proc EXCEPT ![p] = "opening"]
      /\ UNCHANGED txn /\ proc \in [Processes -> Stages] /\ LifeOK /\ StoreInv /\ TxnsOK
  BY DEF Start, catalogVars, FullInv, ProcessesInv, StagesOK
<1>2. StoreInv'
  BY <1>1, ServerWorker, ConstructKeeps
<1>3. \A q \in Processes : Held(q)' = Held(q)
  BY <1>1 DEF Construct, Held
<1>4. ~Initialized(p)
  <2>1. Held(p) = {} /\ registry[p] \in {0} \cup Instances
    BY <1>1 DEF LifeOK, StoreInv, StoreTypes
  <2>2. QED
    BY <2>1 DEF Initialized, Held
<1> DEFINE at == [holder |-> "main", mode |-> "rw", attempt |-> 1]
<1>5. opening' = [opening EXCEPT ![p] = at] /\ at.holder = "main"
  BY <1>1, <1>4 DEF Construct
<1> HIDE DEF at
<1>6. opening \in [Processes -> {NotOpening} \cup Attempt]
  BY <1>1 DEF StoreInv, StoreTypes
<1>7. LifeOK'
  BY <1>1, <1>3, <1>5, <1>6, LifeKept
<1>8. TxnsOK'
  BY <1>1 DEF TxnsOK
<1>9. QED
  BY <1>2, <1>7, <1>8 DEF Lively

LEMMA EndLively ==
  ASSUME FullInv, NEW p \in Processes, End(p) PROVE Lively'
<1>1. /\ StoreGone(p) /\ proc' = [proc EXCEPT ![p] = "down"]
      /\ txn' = [who \in DOMAIN txn |->
                   IF who = p \/ (who = "user" /\ p = "server") THEN NoTxn ELSE txn[who]]
      /\ proc \in [Processes -> Stages] /\ LifeOK /\ StoreInv /\ TxnsOK
  BY DEF End, FullInv, ProcessesInv, StagesOK
<1>2. StoreInv' /\ Held(p)' = {} /\ \A q \in Processes \ {p} : Held(q)' = Held(q)
  BY <1>1, StoreGoneKeeps
<1>3. opening'[p] = NotOpening /\ \A q \in Processes \ {p} : opening'[q] = opening[q]
  BY <1>1 DEF StoreGone, StoreInv, StoreTypes
<1>4. DOMAIN NoTxn = {"kind", "todo", "seen"} /\ NoTxn.kind = "none"
  BY DEF NoTxn
<1>5. TxnsOK'
  BY <1>1, <1>4 DEF TxnsOK
<1>6. txn'[p] = NoTxn /\ \A q \in Processes \ {p} : txn'[q] = txn[q]
  BY <1>1, ServerWorker DEF TxnsOK
<1>7. LifeOK'
  BY <1>1, <1>2, <1>3, <1>6, LifeKept
<1>8. QED
  BY <1>2, <1>5, <1>7 DEF Lively

LEMMA OpenedLively ==
  ASSUME FullInv, NEW p \in Processes, Opened(p) PROVE Lively'
<1>1. /\ Connected(p) /\ UNCHANGED txn /\ proc \in [Processes -> Stages]
      /\ LifeOK /\ StoreInv /\ TxnsOK
  BY DEF Opened, catalogVars, FullInv, ProcessesInv, StagesOK
<1>2. proc[p] # "down"
  BY <1>1 DEF Connected, LifeOK
<1>3. /\ \A q \in Processes \ {p} : proc'[q] = proc[q]
      /\ proc'[p] # "opening" /\ proc'[p] # "down"
  BY <1>1, <1>2 DEF Opened, Stages
<1>4. \A q \in Processes \ {p} : conn'[q] = conn[q] /\ opening'[q] = opening[q]
  BY <1>1 DEF Connected, StoreInv, StoreTypes
<1>5. \A q \in Processes \ {p} : Held(q)' = Held(q)
  BY <1>4 DEF Held
<1>6. LifeOK'
  BY <1>1, <1>3, <1>4, <1>5, LifeKept
<1>7. TxnsOK' /\ StoreInv'
  BY <1>1, ConnectedKeeps DEF TxnsOK
<1>8. QED
  BY <1>6, <1>7 DEF Lively

LEMMA OpenGoesOnLively ==
  ASSUME FullInv, NEW p \in Processes, OpenGoesOn(p) PROVE Lively'
<1>1. /\ UNCHANGED <<proc, txn>> /\ LifeOK /\ StoreInv /\ TxnsOK
  BY DEF OpenGoesOn, catalogVars, FullInv
<1>2. conn' = conn /\ \A q \in Processes \ {p} : opening'[q] = opening[q]
  BY <1>1 DEF OpenGoesOn, Retry, FallBack, OpenFails, StoreInv, StoreTypes
<1>3. \A q \in Processes : Held(q)' = Held(q)
  BY <1>2 DEF Held
<1>4. opening[p] # NotOpening
  BY <1>1, RaisesOpening DEF OpenGoesOn, OpenFails
<1>5. proc[p] # "down"
  BY <1>1, <1>4 DEF LifeOK
<1>6. StoreInv' /\ (proc[p] = "opening" => opening'[p].holder = opening[p].holder)
  <2>1. CASE Retry(p) \/ FallBack(p)
    BY <1>1, <1>4, <2>1, GoesOnKeeps
  <2>2. CASE proc[p] = "running" /\ OpenFails(p)
    BY <1>1, <2>2, OpenFailsKeeps
  <2>3. QED
    BY <2>1, <2>2 DEF OpenGoesOn
<1>7. proc'[p] = "opening" => opening'[p].holder = "main"
  BY <1>1, <1>6 DEF LifeOK
<1>8. LifeOK'
  BY <1>1, <1>2, <1>3, <1>5, <1>7, LifeKept
<1>9. TxnsOK'
  BY <1>1 DEF TxnsOK
<1>10. QED
  BY <1>6, <1>8, <1>9 DEF Lively

\* A step that changes no more of the store and of the stages than that the
\* process leaves its synchronization.
LEMMA TxnLively ==
  ASSUME FullInv, NEW p \in Processes, UNCHANGED storeVars,
         proc[p] \notin {"down", "opening"},
         UNCHANGED proc \/ proc' = [proc EXCEPT ![p] = "ready"],
         TxnsOK', \A q \in Processes \ {p} : txn'[q] = txn[q]
  PROVE  Lively'
<1>1. proc \in [Processes -> Stages] /\ LifeOK /\ StoreInv
  BY DEF FullInv, ProcessesInv, StagesOK
<1>2. StoreInv' /\ \A q \in Processes : Held(q)' = Held(q)
  BY <1>1, StoreStays
<1>3. opening' = opening
  BY DEF storeVars
<1>4. proc'[p] \notin {"down", "opening"} /\ \A q \in Processes \ {p} : proc'[q] = proc[q]
  BY <1>1
<1>5. LifeOK'
  BY <1>1, <1>2, <1>3, <1>4, LifeKept
<1>6. QED
  BY <1>2, <1>5 DEF Lively

LEMMA BootSyncLively ==
  ASSUME FullInv, NEW p \in Processes, BootSync(p) PROVE Lively'
<1>1. UNCHANGED storeVars /\ proc[p] = "syncing" /\ TxnsOK
  BY DEF BootSync, FullInv
<1>2. CASE FetchCatalog(p) /\ UNCHANGED proc
  BY <1>1, <1>2, FetchStep, TxnLively
<1>3. CASE (ReadRow(p) \/ Commit(p)) /\ UNCHANGED proc
  BY <1>1, <1>3, TxnStep, TxnLively
<1>4. CASE CatalogGone(p) /\ proc' = [proc EXCEPT ![p] = "ready"]
  <2>1. DOMAIN NoTxn = {"kind", "todo", "seen"} /\ NoTxn.kind = "none"
    BY DEF NoTxn
  <2>2. txn' = [txn EXCEPT ![p] = NoTxn]
    BY <1>4 DEF CatalogGone
  <2>3. TxnsOK' /\ \A q \in Processes \ {p} : txn'[q] = txn[q]
    BY <1>1, <2>1, <2>2, TxnChanges
  <2>4. QED
    BY <1>1, <1>4, <2>3, TxnLively
<1>5. QED
  BY <1>2, <1>3, <1>4 DEF BootSync

LEMMA JobLively ==
  ASSUME FullInv, NEW p \in Processes, JobStep(p) PROVE Lively'
<1>1. UNCHANGED <<proc, storeVars>> /\ proc[p] = "running" /\ TxnsOK
  BY DEF JobStep, Awake, FullInv
<1>2. TxnsOK' /\ \A q \in Processes \ {p} : txn'[q] = txn[q]
  BY <1>1, FetchStep, TxnStep DEF JobStep
<1>3. QED
  BY <1>1, <1>2, TxnLively

LEMMA UserLively ==
  ASSUME FullInv, UserStep PROVE Lively'
<1>1. /\ UNCHANGED <<proc, storeVars>> /\ proc["server"] = "running" /\ TxnsOK
      /\ "server" \in Processes
  BY ServerWorker DEF UserStep, Awake, FullInv
<1>2. TxnsOK' /\ \A q \in Processes : txn'[q] = txn[q]
  BY <1>1, UserBeginsStep, TxnStep, ServerWorker DEF UserStep
<1>3. QED
  BY <1>1, <1>2, TxnLively

LEMMA PipelineLively ==
  ASSUME FullInv, PipelineStep("server") PROVE Lively'
<1> DEFINE p == "server"
<1>1. /\ UNCHANGED <<proc, txn>> /\ proc[p] = "running" /\ p \in Processes
      /\ LifeOK /\ StoreInv /\ TxnsOK
  BY ServerWorker DEF PipelineStep, Awake, catalogVars, FullInv
<1>2. PICK h \in Pipelines : Construct(p, h) \/ Close(p, h)
  BY DEF PipelineStep
<1>3. h \in Holders
  BY DEF Holders
<1> HIDE DEF p
<1>4. StoreInv'
  BY <1>1, <1>2, <1>3, ConstructKeeps, CloseKeeps
<1>5. \A q \in Processes \ {p} : opening'[q] = opening[q] /\ conn'[q] = conn[q]
  BY <1>1, <1>2 DEF Construct, Close, StoreInv, StoreTypes
<1>6. \A q \in Processes \ {p} : Held(q)' = Held(q)
  BY <1>5 DEF Held
<1>7. LifeOK'
  BY <1>1, <1>5, <1>6, LifeKept
<1>8. TxnsOK'
  BY <1>1 DEF TxnsOK
<1>9. QED
  BY <1>4, <1>7, <1>8 DEF Lively

LEMMA QuietLively ==
  ASSUME FullInv, UNCHANGED <<storeVars, txn>>, NEW p \in Processes,
         UNCHANGED proc \/ (proc[p] = "ready" /\ proc' = [proc EXCEPT ![p] = "running"])
  PROVE  Lively'
<1>1. proc \in [Processes -> Stages] /\ LifeOK /\ StoreInv /\ TxnsOK
  BY DEF FullInv, ProcessesInv, StagesOK
<1>2. StoreInv' /\ \A q \in Processes : Held(q)' = Held(q)
  BY <1>1, StoreStays
<1>3. opening' = opening
  BY DEF storeVars
<1>4. /\ \A q \in Processes \ {p} : proc'[q] = proc[q]
      /\ proc'[p] = proc[p] \/ proc'[p] = "running"
  BY <1>1
<1>5. LifeOK'
  BY <1>1, <1>2, <1>3, <1>4 DEF LifeOK
<1>6. TxnsOK'
  BY <1>1 DEF TxnsOK
<1>7. QED
  BY <1>2, <1>5, <1>6 DEF Lively

LEMMA FullStep ==
  ASSUME FullInv, [ProcessesNext]_processVars PROVE FullInv'
<1>1. ProcessesInv'
  BY ProcessesStep DEF FullInv
<1>2. Lively'
  <2>1. ASSUME NEW p \in Processes, Lifecycle(p) PROVE Lively'
    <3>1. CASE Start(p)
      BY <3>1, StartLively
    <3>2. CASE OpenStep(p)
      BY <3>2, OpenedLively, OpenGoesOnLively, EndLively DEF OpenStep
    <3>3. CASE BootSync(p)
      BY <3>3, BootSyncLively
    <3>4. CASE BusUp(p)
      BY <3>4, QuietLively DEF BusUp, catalogVars
    <3>5. CASE End(p)
      BY <3>5, EndLively
    <3>6. QED
      BY <2>1, <3>1, <3>2, <3>3, <3>4, <3>5 DEF Lifecycle
  <2>2. ASSUME NEW p \in Processes, BusStep(p) PROVE Lively'
    BY <2>2, QuietLively DEF BusStep, catalogVars
  <2>3. ASSUME NEW p \in Processes, JobStep(p) PROVE Lively'
    BY <2>3, JobLively
  <2>4. CASE PipelineStep("server")
    BY <2>4, PipelineLively
  <2>5. CASE UserStep
    BY <2>5, UserLively
  <2>6. CASE UNCHANGED processVars
    BY <2>6, QuietLively, ServerWorker DEF processVars, catalogVars
  <2>7. QED
    BY <2>1, <2>2, <2>3, <2>4, <2>5, <2>6 DEF ProcessesNext
<1>3. QED
  BY <1>1, <1>2 DEF FullInv, Lively

LEMMA FullImpliesTypes == FullInv => ProcessesTypeOK
<1> SUFFICES ASSUME FullInv PROVE ProcessesTypeOK
  OBVIOUS
<1>1. OpenedOnce /\ NobodyWritesTogether
  BY OpenedOnceFollows, NobodyWritesFollows DEF FullInv
<1>2. cursor <= stream
  BY BusAssumption DEF FullInv, ProcessesInv, BusInv, BusTypes
<1>3. ASSUME NEW p \in Processes
      PROVE  /\ proc[p] \in Stages
             /\ proc[p] = "opening" => opening[p].holder = "main"
             /\ proc[p] = "down" => Held(p) = {} /\ ~bus[p].on /\ txn[p] = NoTxn
             /\ bus[p].on => proc[p] = "running"
             /\ txn[p].kind \in {"none", "upsert"}
  BY DEF FullInv, ProcessesInv, StagesOK, LifeOK, TxnsOK
<1>4. ASSUME NEW p \in Processes
      PROVE  Range(bus[p].batch) \cup Range(tasks[p]) \subseteq 1 .. cursor
  BY ServerWorker DEF FullInv, ProcessesInv, BusInv, GivenInOrder, Pending
<1>5. QED
  BY <1>1, <1>2, <1>3, <1>4 DEF ProcessesTypeOK, Stages

\* The states of the processes agree with what they hold of the file, the stream
\* and the table; a process has the file open once unless it was closed twice, and
\* two that have it write nothing (_connect, close, _listener_loop).
THEOREM ProcessesTypeOKHolds == ProcessesSpec => []ProcessesTypeOK
BY FullStart, FullStep, FullImpliesTypes, PTL DEF ProcessesSpec
=============================================================================
