---------------------------- MODULE WorkerProofs ----------------------------
(***************************************************************************)
(* Theorems about the worker, for any symbols, exchanges and numbers.      *)
(***************************************************************************)
EXTENDS Worker, SumLemmas

-----------------------------------------------------------------------------
(***************************************************************************)
(* The list of the symbols.                                                *)
(***************************************************************************)
LEMMA ListingOf ==
  ASSUME NEW S, IsFiniteSet(S)
  PROVE  Listing(S) \in Seq(S) /\ Range(Listing(S)) = S
<1> DEFINE n == Cardinality(S)
           q == SetToSeq(S)
<1>1. n \in Nat /\ ExistsBijection(1 .. n, S)
  BY FS_CardinalityType
<1>2. \E f \in [1 .. n -> S] : IsInjective(f)
  BY <1>1 DEF ExistsBijection, Bijection, Injection, IsInjective
<1>3. q \in [1 .. n -> S] /\ IsInjective(q)
  BY <1>2 DEF SetToSeq
<1> HIDE DEF q
<1>4. q \in Seq(S)
  BY <1>1, <1>3
<1>5. Range(q) \subseteq S
  BY <1>3 DEF Range
<1>6. q \in Bijection(1 .. n, Range(q))
  BY <1>3, <1>5 DEF Bijection, Injection, Surjection, IsInjective, Range
<1>7. IsFiniteSet(1 .. n) /\ Cardinality(1 .. n) = n
  BY <1>1, FS_Interval
<1>8. Cardinality(Range(q)) = n
  BY <1>6, <1>7, FS_Bijection DEF ExistsBijection
<1>9. Range(q) = S
  BY <1>5, <1>8, FS_Subset
<1>10. QED
  BY <1>4, <1>9 DEF Listing, q

-----------------------------------------------------------------------------
(***************************************************************************)
(* The length of a test grows with the number of candles.                  *)
(***************************************************************************)
LEMMA MulLess ==
  ASSUME NEW a \in Nat, NEW b \in Nat, NEW s \in Nat, a < b PROVE s * a + s <= s * b
<1>1. s * (a + 1) = s * a + s
  OBVIOUS
<1>2. QED
  BY <1>1

LEMMA DivGrows ==
  ASSUME NEW m \in Nat, NEW n \in Nat, m <= n, NEW s \in Nat \ {0}
  PROVE  m \div s \in Nat /\ n \div s \in Nat /\ m \div s <= n \div s
<1> DEFINE a == m \div s
           b == n \div s
<1>1. a \in Nat /\ b \in Nat /\ s * a <= m /\ n < s * b + s
  OBVIOUS
<1> HIDE DEF a, b
<1>2. b < a => s * b + s <= s * a
  BY <1>1, MulLess
<1>3. s * a \in Nat /\ s * b \in Nat
  BY <1>1
<1>4. a <= b
  BY <1>1, <1>2, <1>3
<1>5. QED
  BY <1>1, <1>4 DEF a, b

LEMMA TestOfFold ==
  ASSUME NEW f \in Nat, NEW g \in Nat, f < g
  PROVE  f - TrainLen(f) \in Int /\ f - TrainLen(f) <= g - TrainLen(g)
<1> DEFINE d == g - f
           a == f * TrainPct
           b == g * TrainPct
           e == d * TrainPct
<1>1. TrainPct \in 0 .. 99 /\ \A x \in Inexact : (x * TrainPct) % 100 = 0
  BY ResearchAssumption
<1>2. d \in Nat \ {0} /\ g = f + d
  OBVIOUS
<1>3. a \in Nat /\ b \in Nat /\ e \in Nat
  BY <1>1, <1>2
<1>4. b = a + e
  BY <1>1, <1>2
<1>5. e <= 99 * d
  BY <1>1, <1>2
<1>6. f \in Inexact => a % 100 = 0
  BY <1>1
<1> HIDE DEF a, b, e
<1>7. TrainLen(f) = (a \div 100) - (IF f \in Inexact THEN 1 ELSE 0)
  BY DEF TrainLen, a
<1>8. TrainLen(g) <= b \div 100 /\ TrainLen(g) \in Int
  BY <1>3 DEF TrainLen, b
<1> HIDE DEF d
<1>9. b \div 100 <= (a \div 100) + d
  BY <1>2, <1>3, <1>4, <1>5
<1>10. a % 100 = 0 => b \div 100 <= (a \div 100) + d - 1
  BY <1>2, <1>3, <1>4, <1>5
<1>11. QED
  BY <1>2, <1>3, <1>6, <1>7, <1>8, <1>9, <1>10

LEMMA TestLenInt == ASSUME NEW n \in Nat PROVE TestLen(n) \in Int
<1>1. FoldSize(n) \in Nat
  BY DivGrows, ResearchAssumption DEF FoldSize
<1>2. FoldSize(n) < FoldSize(n) + 1 /\ FoldSize(n) + 1 \in Nat
  BY <1>1
<1>3. QED
  BY <1>1, <1>2, TestOfFold DEF TestLen

LEMMA TestGrows ==
  ASSUME NEW m \in Nat, NEW n \in Nat, m <= n PROVE TestLen(m) <= TestLen(n)
<1> DEFINE f == FoldSize(m)
           g == FoldSize(n)
<1>1. f \in Nat /\ g \in Nat /\ f <= g
  BY DivGrows, ResearchAssumption DEF FoldSize
<1> HIDE DEF f, g
<1>2. f - TrainLen(f) <= g - TrainLen(g)
  <2>1. CASE f < g
    BY <1>1, <2>1, TestOfFold
  <2>2. CASE f = g
    <3>1. g < g + 1 /\ g + 1 \in Nat
      BY <1>1
    <3>2. g - TrainLen(g) \in Int
      BY <1>1, <3>1, TestOfFold
    <3>3. QED
      BY <2>2, <3>2
  <2>3. QED
    BY <1>1, <2>1, <2>2
<1>3. QED
  BY <1>2 DEF TestLen, f, g

\* No candles the research job can hold leave a test a bar (worker.py:84,
\* optimizer.py:56, backtest.py:61).
LEMMA NoTestOfBuffer ==
  ASSUME NEW n \in 0 .. BufferCap + 1 PROVE TestLen(n) <= WarmupBars
<1> DEFINE full == BufferCap + 1
           f    == full \div Splits
           a    == f * TrainPct
           b    == f * (100 - TrainPct)
           e    == IF f \in Inexact THEN 1 ELSE 0
<1>1. /\ n \in Nat /\ full \in Nat /\ n <= full /\ f \in Nat
      /\ WarmupBars \in Nat /\ TrainPct \in 0 .. 99
  BY DivGrows, WorkerAssumption, ResearchAssumption
<1>2. a \in Nat /\ b \in Nat /\ a + b = 100 * f
  BY <1>1
<1>3. e = 1 => a % 100 = 0
  <2>1. e = 1 => f \in Inexact
    OBVIOUS
  <2>2. \A fold \in Inexact : (fold * TrainPct) % 100 = 0
    BY ResearchAssumption
  <2> HIDE DEF e, f
  <2>3. QED
    BY <2>1, <2>2
<1>4. b + 100 * e <= 100 * WarmupBars /\ e \in {0, 1}
  BY ScaleAssumption
<1>5. TestLen(full) = f - ((a \div 100) - e)
  BY DEF TestLen, FoldSize, TrainLen
<1> HIDE DEF a, b, e, f
<1>6. f - ((a \div 100) - e) <= WarmupBars
  BY <1>1, <1>2, <1>3, <1>4
<1>7. TestLen(n) <= TestLen(full) /\ TestLen(n) \in Int /\ TestLen(full) \in Int
  <2> HIDE DEF full
  <2>1. QED
    BY <1>1, TestGrows, TestLenInt
<1>8. QED
  BY <1>1, <1>5, <1>6, <1>7

-----------------------------------------------------------------------------
(***************************************************************************)
(* The invariant.                                                          *)
(***************************************************************************)
IngestState == [at : {"refresh", "feeds", "symbol"}, todo : Seq(Names)]

\* No record of the research job is promoted.
ResearchState ==
  [at : {"asleep", "next", "llm", "save"}, todo : Seq(Names), records : Seq({FALSE})]

DatasetState == [name : Names \cup {"none"}, len : 0 .. BufferCap + 1, shared : BOOLEAN]

IngestOK ==
  /\ active \subseteq Names /\ loaded \subseteq Range(Venues) /\ indexed \in BOOLEAN
  /\ symbols \in Seq(Names)
  /\ buffers \in [Range(symbols) -> 0 .. BufferCap]
  /\ ingest \in IngestState
  /\ ingest.at = "symbol" => Range(ingest.todo) \subseteq Range(symbols)

ResearchOK ==
  /\ research \in ResearchState /\ dataset \in DatasetState
  /\ research.at \in {"llm", "save"} => research.todo # << >>
  /\ research.at = "llm" => dataset.name = Head(research.todo)
  /\ research.at # "llm" => dataset = NoDataset

SharedOK == dataset.shared => dataset.name \in DOMAIN buffers /\ dataset.len = buffers[dataset.name]

WorkerInv == IngestOK /\ ResearchOK /\ SharedOK /\ PromotedByServerOnly

-----------------------------------------------------------------------------
(***************************************************************************)
(* What the steps make of the records.                                     *)
(***************************************************************************)
LEMMA IngestMade ==
  \A r \in IngestState, a \in {"refresh", "feeds", "symbol"}, t \in Seq(Names) :
    /\ [r EXCEPT !.at = a] \in IngestState /\ [r EXCEPT !.at = a].at = a
    /\ [r EXCEPT !.todo = t] \in IngestState /\ [r EXCEPT !.todo = t].todo = t
    /\ [r EXCEPT !.todo = t].at = r.at
    /\ [at |-> a, todo |-> t] \in IngestState
BY DEF IngestState

LEMMA ResearchAt ==
  \A r \in ResearchState, a \in {"asleep", "next", "llm", "save"} :
    /\ [r EXCEPT !.at = a] \in ResearchState /\ [r EXCEPT !.at = a].at = a
    /\ [r EXCEPT !.at = a].todo = r.todo
BY DEF ResearchState

LEMMA ResearchTodo ==
  \A r \in ResearchState, a \in {"asleep", "next", "llm", "save"}, t \in Seq(Names) :
    /\ [r EXCEPT !.todo = t] \in ResearchState /\ [r EXCEPT !.todo = t].at = r.at
    /\ [r EXCEPT !.at = a, !.todo = t] \in ResearchState
    /\ [r EXCEPT !.at = a, !.todo = t].at = a
BY DEF ResearchState

LEMMA ResearchRecords ==
  \A r \in ResearchState, b \in Seq({FALSE}) :
    /\ [r EXCEPT !.records = b] \in ResearchState /\ [r EXCEPT !.records = b].at = r.at
    /\ [r EXCEPT !.records = b].todo = r.todo
    /\ [r EXCEPT !.at = "save", !.records = b] \in ResearchState
    /\ [r EXCEPT !.at = "save", !.records = b].at = "save"
    /\ [r EXCEPT !.at = "save", !.records = b].todo = r.todo
BY DEF ResearchState

LEMMA DatasetMade ==
  \A d \in DatasetState, l \in 0 .. BufferCap + 1, h \in BOOLEAN :
    /\ [d EXCEPT !.shared = h] \in DatasetState /\ [d EXCEPT !.shared = h].name = d.name
    /\ [d EXCEPT !.shared = h].shared = h /\ [d EXCEPT !.shared = h].len = d.len
BY DEF DatasetState

Appended(d, l, h) == [d EXCEPT !.len = l, !.shared = h]

LEMMA AppendedIs ==
  \A d \in DatasetState, l \in 0 .. BufferCap + 1, h \in BOOLEAN :
    /\ Appended(d, l, h) \in DatasetState /\ Appended(d, l, h).name = d.name
    /\ Appended(d, l, h).len = l /\ Appended(d, l, h).shared = h
BY DEF DatasetState, Appended

LEMMA SameDataset ==
  \A d, e \in DatasetState : d.name = e.name /\ d.len = e.len /\ d.shared = e.shared => d = e
BY DEF DatasetState

LEMMA EmptyStates ==
  /\ Asleep \in ResearchState /\ Asleep.at = "asleep"
  /\ NoDataset \in DatasetState /\ NoDataset.shared = FALSE
<1>1. << >> \in Seq(Names) /\ << >> \in Seq({FALSE})
  OBVIOUS
<1>2. Asleep \in ResearchState /\ Asleep.at = "asleep"
  BY <1>1 DEF Asleep, ResearchState
<1>3. 0 \in 0 .. BufferCap + 1
  BY WorkerAssumption
<1>4. NoDataset \in DatasetState /\ NoDataset.shared = FALSE
  BY <1>3 DEF NoDataset, DatasetState
<1>5. QED
  BY <1>2, <1>4

LEMMA RestOf ==
  ASSUME NEW S, NEW q \in Seq(S), q # << >>
  PROVE  /\ Head(q) \in S /\ Tail(q) \in Seq(S)
         /\ Head(q) \in Range(q) /\ Range(Tail(q)) \subseteq Range(q)
<1>1. /\ Tail(q) \in Seq(S) /\ Head(q) \in S /\ Head(q) = q[1] /\ 1 \in DOMAIN q
      /\ \A i \in DOMAIN Tail(q) : Tail(q)[i] = q[i + 1] /\ i + 1 \in DOMAIN q
  OBVIOUS
<1>2. QED
  BY <1>1 DEF Range

LEMMA FunctionIsSeq ==
  ASSUME NEW S, NEW n \in Nat, NEW f \in [1 .. n -> S] PROVE f \in Seq(S)
OBVIOUS

LEMMA ListingNames ==
  ASSUME NEW S, S \subseteq Names
  PROVE  /\ Listing(S) \in Seq(Names) /\ Range(Listing(S)) = S
<1>1. IsFiniteSet(S)
  BY WorkerAssumption, FS_Subset
<1>2. Listing(S) \in Seq(S) /\ Range(Listing(S)) = S
  BY <1>1, ListingOf
<1>3. Listing(S) \in Seq(Names)
  BY <1>2
<1>4. QED
  BY <1>2, <1>3

-----------------------------------------------------------------------------
(***************************************************************************)
(* The ingestion job.                                                      *)
(***************************************************************************)
LEMMA InitInv == Init => WorkerInv
<1> SUFFICES ASSUME Init PROVE WorkerInv
  OBVIOUS
<1>1. PICK S \in {Names, {}} : active = S /\ symbols = Listing(S) /\ buffers = [s \in S |-> 0]
  BY DEF Init
<1>2. symbols \in Seq(Names) /\ Range(symbols) = S /\ S \subseteq Names
  BY <1>1, ListingNames
<1>3. buffers \in [Range(symbols) -> 0 .. BufferCap]
  BY <1>1, <1>2, WorkerAssumption
<1>4. << >> \in Seq(Names)
  OBVIOUS
<1>5. ingest \in IngestState /\ ingest.at = "refresh"
  BY <1>4 DEF Init, IngestState
<1>6. IngestOK
  BY <1>1, <1>2, <1>3, <1>5 DEF IngestOK, Init
<1>7. ResearchOK /\ SharedOK
  BY EmptyStates DEF Init, ResearchOK, SharedOK
<1>8. PromotedByServerOnly
  BY DEF Init, NoExperiment, PromotedByServerOnly
<1>9. QED
  BY <1>6, <1>7, <1>8 DEF WorkerInv

LEMMA RefreshStep == ASSUME WorkerInv, Refresh PROVE WorkerInv'
<1>1. PICK S \in {active, {}} :
        /\ symbols' = Listing(S) /\ buffers' = Rebuilt(S)
        /\ dataset' = IF dataset.name \in S THEN dataset ELSE [dataset EXCEPT !.shared = FALSE]
        /\ ingest' = [ingest EXCEPT !.at = IF S = {} THEN "refresh" ELSE "feeds"]
  BY DEF Refresh
<1>2. UNCHANGED <<active, loaded, indexed, research, experiment>>
  BY DEF Refresh
<1>3. IngestOK /\ ResearchOK /\ SharedOK /\ PromotedByServerOnly
  BY DEF WorkerInv
<1>4. S \subseteq Names /\ symbols' \in Seq(Names) /\ Range(symbols') = S
  BY <1>1, <1>3, ListingNames DEF IngestOK
<1>5. buffers' \in [S -> 0 .. BufferCap] /\ \A s \in S : s \in DOMAIN buffers => buffers'[s] = buffers[s]
  BY <1>1, <1>3, WorkerAssumption DEF Rebuilt, IngestOK
<1>6. ingest' \in IngestState /\ ingest'.at # "symbol"
  <2> DEFINE a == IF S = {} THEN "refresh" ELSE "feeds"
  <2>1. a \in {"refresh", "feeds", "symbol"} /\ a # "symbol" /\ ingest \in IngestState
    BY <1>3 DEF IngestOK
  <2>2. ingest' = [ingest EXCEPT !.at = a]
    BY <1>1
  <2> HIDE DEF a
  <2>3. << >> \in Seq(Names)
    OBVIOUS
  <2>4. QED
    BY <2>1, <2>2, <2>3, IngestMade
<1>7. IngestOK'
  BY <1>2, <1>3, <1>4, <1>5, <1>6 DEF IngestOK
<1>8. \/ dataset' = dataset /\ dataset.name \in S
      \/ dataset' \in DatasetState /\ dataset'.shared = FALSE /\ dataset'.name = dataset.name
         /\ dataset'.len = dataset.len
  <2>1. 0 \in 0 .. BufferCap + 1 /\ dataset \in DatasetState
    BY <1>3, WorkerAssumption DEF ResearchOK
  <2>2. QED
    BY <1>1, <2>1, DatasetMade
<1>9. dataset' \in DatasetState /\ dataset'.name = dataset.name
  BY <1>3, <1>8 DEF ResearchOK
<1>10. dataset = NoDataset => dataset' = NoDataset
  BY <1>3, <1>8, SameDataset, EmptyStates DEF ResearchOK
<1>11. ResearchOK'
  BY <1>2, <1>3, <1>9, <1>10 DEF ResearchOK
<1>12. SharedOK'
  BY <1>3, <1>5, <1>8 DEF SharedOK, IngestOK
<1>13. PromotedByServerOnly'
  BY <1>2, <1>3 DEF PromotedByServerOnly
<1>14. QED
  BY <1>7, <1>11, <1>12, <1>13 DEF WorkerInv

\* A step of the ingestion job that leaves the buffers alone.
LEMMA IngestOnly ==
  ASSUME WorkerInv, UNCHANGED <<symbols, buffers, research, dataset, experiment>>,
         active' \subseteq Names, loaded' \subseteq Range(Venues), indexed' \in BOOLEAN,
         ingest' \in IngestState,
         ingest'.at = "symbol" => Range(ingest'.todo) \subseteq Range(symbols)
  PROVE  WorkerInv'
<1>1. IngestOK'
  BY DEF WorkerInv, IngestOK
<1>2. ResearchOK' /\ SharedOK' /\ PromotedByServerOnly'
  BY DEF WorkerInv, ResearchOK, SharedOK, PromotedByServerOnly
<1>3. QED
  BY <1>1, <1>2 DEF WorkerInv

LEMMA SetActiveStep == ASSUME WorkerInv, SetActive PROVE WorkerInv'
BY IngestOnly DEF SetActive, WorkerInv, IngestOK

LEMMA FetchFeedsStep == ASSUME WorkerInv, FetchFeeds PROVE WorkerInv'
<1>1. ingest' = [at |-> "symbol", todo |-> symbols] \/ ingest' = [at |-> "refresh", todo |-> << >>]
  BY DEF FetchFeeds
<1>2. << >> \in Seq(Names) /\ symbols \in Seq(Names)
  BY DEF WorkerInv, IngestOK
<1>3. ingest' \in IngestState /\ (ingest'.at = "symbol" => ingest'.todo = symbols)
  <2>1. CASE ingest' = [at |-> "symbol", todo |-> symbols]
    BY <1>2, <2>1 DEF IngestState
  <2>2. CASE ingest' = [at |-> "refresh", todo |-> << >>]
    BY <1>2, <2>2 DEF IngestState
  <2>3. QED
    BY <1>1, <2>1, <2>2
<1>4. QED
  BY <1>3, IngestOnly DEF FetchFeeds, WorkerInv, IngestOK

LEMMA MakeIndexStep == ASSUME WorkerInv, MakeIndex PROVE WorkerInv'
BY IngestOnly DEF MakeIndex, WorkerInv, IngestOK

\* The job goes on with the next symbol, or is through.
LEMMA DoneKeeps ==
  ASSUME IngestOK, ingest.at = "symbol", ingest.todo # << >>, SymbolDone
  PROVE  /\ ingest' \in IngestState
         /\ ingest'.at = "symbol" => Range(ingest'.todo) \subseteq Range(symbols)
<1>1. ingest \in IngestState /\ ingest.todo \in Seq(Names) /\ Range(ingest.todo) \subseteq Range(symbols)
  BY DEF IngestOK, IngestState
<1>2. Tail(ingest.todo) \in Seq(Names) /\ Range(Tail(ingest.todo)) \subseteq Range(symbols)
  BY <1>1, RestOf
<1>3. CASE ingest' = [at |-> "refresh", todo |-> << >>]
  <2>1. << >> \in Seq(Names)
    OBVIOUS
  <2>2. QED
    BY <1>3, <2>1 DEF IngestState
<1>4. CASE ingest' = [ingest EXCEPT !.todo = Tail(ingest.todo)]
  BY <1>1, <1>2, <1>4, IngestMade
<1>5. ingest' = [at |-> "refresh", todo |-> << >>] \/ ingest' = [ingest EXCEPT !.todo = Tail(ingest.todo)]
  BY DEF SymbolDone
<1>6. QED
  BY <1>3, <1>4, <1>5

LEMMA SkipSymbolStep == ASSUME WorkerInv, SkipSymbol PROVE WorkerInv'
BY DoneKeeps, IngestOnly DEF SkipSymbol, WorkerInv, IngestOK

LEMMA ProcessSymbolStep == ASSUME WorkerInv, ProcessSymbol PROVE WorkerInv'
<1> DEFINE s     == Head(ingest.todo)
           grown == buffers[s] + 1
           kept  == (Trimmed(grown) = grown)
<1>1. IngestOK /\ ResearchOK /\ SharedOK /\ PromotedByServerOnly
  BY DEF WorkerInv
<1>2. /\ ingest.at = "symbol" /\ ingest.todo # << >> /\ SymbolDone
      /\ buffers' = [buffers EXCEPT ![s] = Trimmed(grown)]
      /\ dataset' = IF dataset.name = s /\ dataset.shared
                    THEN [dataset EXCEPT !.len = grown, !.shared = kept] ELSE dataset
      /\ UNCHANGED <<active, symbols, loaded, indexed, research, experiment>>
  BY DEF ProcessSymbol
<1>3. s \in Range(symbols)
  <2>1. ingest.todo \in Seq(Names) /\ Range(ingest.todo) \subseteq Range(symbols)
    BY <1>1, <1>2 DEF IngestOK, IngestState
  <2>2. QED
    BY <1>2, <2>1, RestOf
<1>4. /\ buffers \in [Range(symbols) -> 0 .. BufferCap] /\ grown \in 0 .. BufferCap + 1
      /\ BufferCap \in Nat
  BY <1>1, <1>3, WorkerAssumption DEF IngestOK
<1>5. Trimmed(grown) \in 0 .. BufferCap /\ kept \in BOOLEAN /\ (kept => Trimmed(grown) = grown)
  BY <1>4 DEF Trimmed
<1> HIDE DEF s, grown, kept
<1>6. /\ buffers' \in [Range(symbols) -> 0 .. BufferCap] /\ buffers'[s] = Trimmed(grown)
      /\ \A x \in Range(symbols) \ {s} : buffers'[x] = buffers[x]
  BY <1>2, <1>3, <1>4, <1>5
<1>7. IngestOK'
  BY <1>1, <1>2, <1>6, DoneKeeps DEF IngestOK
<1>8. dataset \in DatasetState
  BY <1>1 DEF ResearchOK
<1>9. CASE dataset.name = s /\ dataset.shared
  <2>1. /\ dataset' \in DatasetState /\ dataset'.name = s /\ dataset'.len = grown
        /\ dataset'.shared = kept
    <3>1. dataset' = Appended(dataset, grown, kept)
      BY <1>2, <1>9 DEF Appended
    <3>2. QED
      BY <1>4, <1>5, <1>8, <1>9, <3>1, AppendedIs
  <2>2. research.at = "llm"
    BY <1>1, <1>9, EmptyStates DEF ResearchOK
  <2>3. ResearchOK'
    BY <1>1, <1>2, <1>9, <2>1, <2>2 DEF ResearchOK
  <2>4. SharedOK'
    BY <1>3, <1>5, <1>6, <2>1 DEF SharedOK
  <2>5. QED
    BY <1>1, <1>2, <1>7, <2>3, <2>4 DEF WorkerInv, PromotedByServerOnly
<1>10. CASE ~(dataset.name = s /\ dataset.shared)
  <2>1. dataset' = dataset
    BY <1>2, <1>10
  <2>2. ResearchOK'
    BY <1>1, <1>2, <2>1 DEF ResearchOK
  <2>3. SharedOK'
    BY <1>1, <1>4, <1>6, <1>10, <2>1 DEF SharedOK
  <2>4. QED
    BY <1>1, <1>2, <1>7, <2>2, <2>3 DEF WorkerInv, PromotedByServerOnly
<1>11. QED
  BY <1>9, <1>10

-----------------------------------------------------------------------------
(***************************************************************************)
(* The research job.                                                       *)
(***************************************************************************)
LEMMA ResearchOnly ==
  ASSUME WorkerInv, UNCHANGED <<active, symbols, buffers, loaded, indexed, ingest>>,
         ResearchOK', SharedOK', PromotedByServerOnly'
  PROVE  WorkerInv'
BY DEF WorkerInv, IngestOK

\* A step after which the job holds no candles.
LEMMA WithoutDataset ==
  ASSUME WorkerInv, UNCHANGED <<active, symbols, buffers, loaded, indexed, ingest>>,
         research' \in ResearchState, research'.at # "llm", dataset' = NoDataset,
         research'.at = "save" => research'.todo # << >>,
         PromotedByServerOnly'
  PROVE  WorkerInv'
<1>1. ResearchOK'
  BY EmptyStates DEF ResearchOK
<1>2. SharedOK'
  BY EmptyStates DEF SharedOK
<1>3. QED
  BY <1>1, <1>2, ResearchOnly

LEMMA WakeUpStep == ASSUME WorkerInv, WakeUp PROVE WorkerInv'
<1>1. research' = [Asleep EXCEPT !.at = "next", !.todo = symbols] /\ symbols \in Seq(Names)
  BY DEF WakeUp, WorkerInv, IngestOK
<1>2. << >> \in Seq({FALSE})
  OBVIOUS
<1>3. research' \in ResearchState /\ research'.at = "next"
  BY <1>1, EmptyStates, ResearchTodo
<1>4. dataset' = NoDataset
  BY DEF WakeUp, WorkerInv, ResearchOK
<1>5. QED
  BY <1>3, <1>4, WithoutDataset DEF WakeUp, WorkerInv, PromotedByServerOnly

LEMMA NextNameStep == ASSUME WorkerInv, NextName PROVE WorkerInv'
<1> DEFINE s == Head(research.todo)
<1>1. /\ research \in ResearchState /\ research.todo \in Seq(Names) /\ dataset = NoDataset
      /\ research.at = "next" /\ PromotedByServerOnly'
      /\ UNCHANGED <<active, symbols, buffers, loaded, indexed, ingest, experiment>>
  BY DEF NextName, WorkerInv, ResearchOK, ResearchState, PromotedByServerOnly
<1>2. CASE research' = Asleep /\ UNCHANGED dataset
  BY <1>1, <1>2, EmptyStates, WithoutDataset
<1>3. CASE /\ research.todo # << >> /\ s \in DOMAIN buffers
           /\ research' = [research EXCEPT !.at = "llm"]
           /\ dataset' = [name |-> s, len |-> buffers[s], shared |-> TRUE]
  <2>1. s \in Names
    BY <1>1, <1>3, RestOf
  <2>2. buffers[s] \in 0 .. BufferCap + 1
    BY <1>3, WorkerAssumption DEF WorkerInv, IngestOK
  <2>3. /\ dataset' \in DatasetState /\ dataset'.name = s /\ dataset'.len = buffers[s]
        /\ dataset'.shared
    BY <1>3, <2>1, <2>2 DEF DatasetState
  <2>4. research' \in ResearchState /\ research'.at = "llm" /\ research'.todo = research.todo
    BY <1>1, <1>3, ResearchAt
  <2>5. ResearchOK' /\ SharedOK'
    BY <1>1, <1>3, <2>3, <2>4 DEF ResearchOK, SharedOK
  <2>6. QED
    BY <1>1, <2>5, ResearchOnly
<1>4. CASE /\ research.todo # << >> /\ research' = [research EXCEPT !.todo = Tail(research.todo)]
           /\ UNCHANGED dataset
  <2>1. Tail(research.todo) \in Seq(Names)
    BY <1>1, <1>4, RestOf
  <2>2. research' \in ResearchState /\ research'.at = "next"
    BY <1>1, <1>4, <2>1, ResearchTodo
  <2>3. QED
    BY <1>1, <1>4, <2>2, WithoutDataset
<1>5. QED
  BY <1>2, <1>3, <1>4 DEF NextName

LEMMA NameMissingStep == ASSUME WorkerInv, NameMissing PROVE WorkerInv'
BY EmptyStates, WithoutDataset DEF NameMissing, WorkerInv, ResearchOK, PromotedByServerOnly

LEMMA EvaluateStep == ASSUME WorkerInv, Evaluate PROVE WorkerInv'
<1>1. /\ research \in ResearchState /\ dataset \in DatasetState /\ dataset' = NoDataset
      /\ PromotedByServerOnly'
      /\ UNCHANGED <<active, symbols, buffers, loaded, indexed, ingest, experiment>>
  BY DEF Evaluate, WorkerInv, ResearchOK, PromotedByServerOnly
<1>2. CASE research' = Asleep
  BY <1>1, <1>2, EmptyStates, WithoutDataset
<1>3. ASSUME NEW n \in Hypotheses, NEW records \in Records(dataset.len, n),
             research' = [research EXCEPT !.at = "save", !.records = records]
      PROVE  WorkerInv'
  <2>1. dataset.len \in 0 .. BufferCap + 1
    BY <1>1 DEF DatasetState
  <2>2. ~(TestLen(dataset.len) > WarmupBars)
    <3>1. TestLen(dataset.len) <= WarmupBars
      BY <2>1, NoTestOfBuffer
    <3>2. TestLen(dataset.len) \in Int /\ WarmupBars \in Int
      <4>1. dataset.len \in Nat
        BY <2>1, WorkerAssumption
      <4>2. QED
        BY <4>1, TestLenInt, ResearchAssumption
    <3>3. QED
      BY <3>1, <3>2
  <2>3. n \in Nat
    BY ResearchAssumption DEF Hypotheses
  <2>4. records \in Seq({FALSE})
    <3>1. << >> \in Seq({FALSE})
      OBVIOUS
    <3>2. records = << >> \/ records \in [1 .. n -> {FALSE}]
      BY <2>2 DEF Records
    <3>3. QED
      BY <2>3, <3>1, <3>2, FunctionIsSeq
  <2>5. research' \in ResearchState /\ research'.at = "save" /\ research'.todo # << >>
    <3>1. research.todo # << >>
      BY DEF Evaluate, WorkerInv, ResearchOK
    <3>2. QED
      BY <1>1, <1>3, <2>4, <3>1, ResearchRecords
  <2>6. QED
    BY <1>1, <2>5, WithoutDataset
<1>4. QED
  BY <1>2, <1>3 DEF Evaluate

LEMMA SaveRecordStep == ASSUME WorkerInv, SaveRecord PROVE WorkerInv'
<1>1. /\ research \in ResearchState /\ research.todo \in Seq(Names)
      /\ research.records \in Seq({FALSE}) /\ dataset' = NoDataset /\ PromotedByServerOnly
      /\ UNCHANGED <<active, symbols, buffers, loaded, indexed, ingest>>
      /\ research.at = "save" /\ research.todo # << >>
  BY DEF SaveRecord, WorkerInv, ResearchOK, ResearchState
<1>2. CASE /\ research.records = << >> /\ UNCHANGED experiment
           /\ research' = [research EXCEPT !.at = "next", !.todo = Tail(research.todo)]
  <2>1. Tail(research.todo) \in Seq(Names)
    BY <1>1, RestOf
  <2>2. research' \in ResearchState /\ research'.at = "next"
    BY <1>1, <1>2, <2>1, ResearchTodo
  <2>3. QED
    BY <1>1, <1>2, <2>2, WithoutDataset DEF PromotedByServerOnly
<1>3. CASE /\ research.records # << >>
           /\ experiment' = [by |-> "worker", via |-> "buffer", promoted |-> Head(research.records)]
           /\ research' = [research EXCEPT !.records = Tail(research.records)]
  <2>1. Head(research.records) = FALSE /\ Tail(research.records) \in Seq({FALSE})
    <3>1. \A q \in Seq({FALSE}) : q # << >> => Head(q) \in {FALSE} /\ Tail(q) \in Seq({FALSE})
      BY RestOf
    <3>2. QED
      BY <1>1, <1>3, <3>1
  <2>2. research' \in ResearchState /\ research'.at = "save" /\ research'.todo # << >>
    <3> DEFINE b == Tail(research.records)
    <3>1. b \in Seq({FALSE}) /\ research' = [research EXCEPT !.records = b]
      BY <1>3, <2>1
    <3> HIDE DEF b
    <3>2. /\ [research EXCEPT !.records = b] \in ResearchState
          /\ [research EXCEPT !.records = b].at = research.at
          /\ [research EXCEPT !.records = b].todo = research.todo
      BY <1>1, <3>1, ResearchRecords, Zenon
    <3>3. QED
      BY <1>1, <3>1, <3>2, Zenon
  <2>3. PromotedByServerOnly'
    BY <1>3, <2>1 DEF PromotedByServerOnly
  <2>4. QED
    BY <1>1, <2>2, <2>3, WithoutDataset
<1>4. CASE research' = Asleep /\ UNCHANGED experiment
  BY <1>1, <1>4, EmptyStates, WithoutDataset DEF PromotedByServerOnly
<1>5. QED
  BY <1>2, <1>3, <1>4 DEF SaveRecord

-----------------------------------------------------------------------------
(***************************************************************************)
(* The server's request.  A symbol with candidates has a route: exchanges  *)
(* of the same volume are told apart by their place in the list.           *)
(***************************************************************************)
LEMMA RankIs ==
  ASSUME NEW v \in Range(Venues) PROVE Rank(v) \in Nat /\ Venues[Rank(v)] = v
<1>1. Venues \in Seq(Range(Venues))
  BY MarketAssumption
<1>2. \E i \in DOMAIN Venues : Venues[i] = v
  BY DEF Range
<1>3. Rank(v) \in DOMAIN Venues /\ Venues[Rank(v)] = v
  BY <1>2 DEF Rank
<1>4. DOMAIN Venues \subseteq Nat
  BY <1>1
<1>5. QED
  BY <1>3, <1>4

LEMMA VenuesFinite == IsFiniteSet(Range(Venues))
<1>1. Venues \in Seq(Range(Venues))
  BY MarketAssumption
<1>2. Len(Venues) \in Nat /\ DOMAIN Venues = 1 .. Len(Venues)
  BY <1>1
<1>3. IsFiniteSet(DOMAIN Venues)
  BY <1>2, FS_Interval
<1>4. Venues \in Surjection(DOMAIN Venues, Range(Venues))
  BY <1>1 DEF Surjection, Range
<1>5. QED
  BY <1>3, <1>4, FS_Surjection

LEMMA CandidateOf ==
  ASSUME NEW name, NEW S \in SUBSET Range(Venues), NEW v \in Candidates(name, S)
  PROVE  v \in Range(Venues) /\ Liquidity[v][name] \in Nat /\ Rank(v) \in Nat
BY MarketAssumption, RankIs DEF Candidates

LEMMA BetterTotal ==
  ASSUME NEW name, NEW S \in SUBSET Range(Venues),
         NEW v \in Candidates(name, S), NEW w \in Candidates(name, S), v # w
  PROVE  Better(v, w, name) \/ Better(w, v, name)
<1>1. /\ Liquidity[v][name] \in Nat /\ Rank(v) \in Nat
      /\ Liquidity[w][name] \in Nat /\ Rank(w) \in Nat
  BY CandidateOf
<1>2. Rank(v) # Rank(w)
  BY CandidateOf, RankIs
<1>3. QED
  BY <1>1, <1>2 DEF Better

LEMMA BetterTransitive ==
  ASSUME NEW name, NEW S \in SUBSET Range(Venues), NEW u \in Candidates(name, S),
         NEW v \in Candidates(name, S), NEW w \in Candidates(name, S),
         Better(u, v, name), Better(v, w, name)
  PROVE  Better(u, w, name)
<1>1. /\ Liquidity[u][name] \in Nat /\ Rank(u) \in Nat
      /\ Liquidity[v][name] \in Nat /\ Rank(v) \in Nat
      /\ Liquidity[w][name] \in Nat /\ Rank(w) \in Nat
  BY CandidateOf
<1>2. QED
  BY <1>1 DEF Better

LEMMA RouteIs ==
  ASSUME NEW name, NEW S \in SUBSET Range(Venues), Candidates(name, S) # {}
  PROVE  Route(name, S) \in Range(Venues)
<1> DEFINE C       == Candidates(name, S)
           Best(X) == \E v \in X : \A w \in X \ {v} : Better(v, w, name)
           Bad     == {X \in SUBSET C : X # {} /\ ~Best(X)}
<1>1. IsFiniteSet(C)
  <2>1. C \subseteq Range(Venues)
    BY DEF Candidates
  <2>2. QED
    BY <2>1, VenuesFinite, FS_Subset
<1>2. Best(C)
  <2>1. SUFFICES ASSUME Bad # {} PROVE FALSE
    OBVIOUS
  <2>2. PICK U \in Bad : \A V \in SUBSET U : V # U => V \notin Bad
    <3>1. Bad \in SUBSET (SUBSET C)
      OBVIOUS
    <3> HIDE DEF Bad, C
    <3>2. QED
      BY <1>1, <2>1, <3>1, MinimalSubset
  <2>3. U \in SUBSET C /\ U # {} /\ ~Best(U)
    BY <2>2
  <2>4. PICK u \in U : TRUE
    BY <2>3
  <2> DEFINE V == U \ {u}
  <2>5. V \in SUBSET C /\ V # U
    BY <2>3, <2>4
  <2>6. V \notin Bad
    BY <2>2, <2>5
  <2>7. V # {}
    BY <2>3, <2>4
  <2>8. Best(V)
    BY <2>5, <2>6, <2>7
  <2>9. PICK v \in V : \A w \in V \ {v} : Better(v, w, name)
    BY <2>8
  <2>10. u \in C /\ v \in C /\ u # v
    BY <2>3, <2>4, <2>9
  <2>11. CASE Better(v, u, name)
    <3>1. \A w \in U \ {v} : Better(v, w, name)
      BY <2>9, <2>11
    <3>2. QED
      BY <2>3, <2>9, <3>1
  <2>12. CASE Better(u, v, name)
    <3>1. ASSUME NEW w \in V \ {v} PROVE Better(u, w, name)
      <4>1. Better(v, w, name) /\ w \in C
        BY <2>3, <2>9
      <4>2. QED
        BY <2>10, <2>12, <4>1, BetterTransitive
    <3>2. \A w \in U \ {u} : Better(u, w, name)
      BY <2>12, <3>1
    <3>3. QED
      BY <2>3, <2>4, <3>2
  <2>13. QED
    BY <2>10, <2>11, <2>12, BetterTotal
<1>3. Route(name, S) \in C
  BY <1>2 DEF Route
<1>4. QED
  BY <1>3, CandidateOf

\* A promoted record needs a test that is longer than the warm-up.
LEMMA PromotedNeedsTest ==
  ASSUME NEW m, NEW n \in Nat, NEW records \in Records(m, n), records # << >>, Last(records)
  PROVE  TestLen(m) > WarmupBars
<1>1. SUFFICES ASSUME ~(TestLen(m) > WarmupBars) PROVE FALSE
  OBVIOUS
<1>2. records \in [1 .. n -> {FALSE}]
  BY <1>1 DEF Records
<1>3. records \in Seq({FALSE}) /\ Len(records) = n
  <2>1. records \in Seq({FALSE})
    BY <1>2, FunctionIsSeq
  <2>2. \A q \in Seq({FALSE}) : Len(q) \in Nat /\ DOMAIN q = 1 .. Len(q)
    OBVIOUS
  <2>3. 1 .. Len(records) = 1 .. n /\ Len(records) \in Nat
    BY <1>2, <2>1, <2>2
  <2>4. QED
    BY <2>1, <2>3
<1>4. n # 0
  BY <1>2, <1>3
<1>5. n \in 1 .. n
  BY <1>4
<1>6. Last(records) = FALSE
  BY <1>2, <1>3, <1>5 DEF Last
<1>7. QED
  BY <1>6

LEMMA RequestResearchStep == ASSUME WorkerInv, RequestResearch PROVE WorkerInv'
<1>1. UNCHANGED <<active, symbols, buffers, loaded, indexed, ingest, research, dataset>>
  BY DEF RequestResearch
<1>2. PICK S \in SUBSET Range(Venues), s \in Names, total \in Histories, n \in Hypotheses :
        /\ Candidates(s, S) # {}
        /\ \E records \in Records(Fetched(Route(s, S), total), n) :
             /\ records # << >>
             /\ experiment' = [by |-> "server", via |-> Route(s, S), promoted |-> Last(records)]
  BY DEF RequestResearch
<1> DEFINE v == Route(s, S)
           m == Fetched(v, total)
<1>3. PICK records \in Records(m, n) :
        /\ records # << >>
        /\ experiment' = [by |-> "server", via |-> v, promoted |-> Last(records)]
  BY <1>2
<1>4. v \in Range(Venues)
  BY <1>2, RouteIs
<1>5. PageCap[v] \in 1 .. PageLimit /\ PageLimit \in Nat /\ total \in Nat
  BY <1>4, MarketAssumption, WorkerAssumption
<1>6. m \in Nat /\ (PageCap[v] = PageLimit \/ m <= PageCap[v])
  BY <1>5 DEF Fetched
<1> HIDE DEF v, m
<1>7. experiment'.promoted = Last(records) /\ experiment'.by = "server" /\ experiment'.via = v
  BY <1>3
<1>8. PromotedByServerOnly'
  <2>1. SUFFICES ASSUME Last(records), PageCap[v] # PageLimit
                 PROVE  TestLen(PageCap[v]) > WarmupBars
    BY <1>7 DEF PromotedByServerOnly
  <2>2. n \in Nat
    BY ResearchAssumption DEF Hypotheses
  <2>3. TestLen(m) > WarmupBars
    BY <1>3, <2>1, <2>2, PromotedNeedsTest
  <2>4. PageCap[v] \in Nat /\ m <= PageCap[v]
    BY <1>5, <1>6, <2>1
  <2>5. TestLen(m) <= TestLen(PageCap[v])
    BY <1>6, <2>4, TestGrows
  <2>6. TestLen(m) \in Int /\ TestLen(PageCap[v]) \in Int /\ WarmupBars \in Int
    BY <1>6, <2>4, TestLenInt, ResearchAssumption
  <2>7. QED
    BY <2>3, <2>5, <2>6
<1>9. QED
  BY <1>1, <1>8 DEF WorkerInv, IngestOK, ResearchOK, SharedOK

-----------------------------------------------------------------------------
(***************************************************************************)
(* The theorems.                                                           *)
(***************************************************************************)
LEMMA NextStep == ASSUME WorkerInv, [Next]_vars PROVE WorkerInv'
<1>1. CASE SetActive
  BY <1>1, SetActiveStep
<1>2. CASE IngestionJob
  BY <1>2, RefreshStep, FetchFeedsStep, MakeIndexStep, SkipSymbolStep, ProcessSymbolStep
     DEF IngestionJob
<1>3. CASE ResearchJob
  BY <1>3, WakeUpStep, NextNameStep, NameMissingStep, EvaluateStep, SaveRecordStep
     DEF ResearchJob
<1>4. CASE RequestResearch
  BY <1>4, RequestResearchStep
<1>5. CASE UNCHANGED vars
  BY <1>5 DEF vars, WorkerInv, IngestOK, ResearchOK, SharedOK, PromotedByServerOnly
<1>6. QED
  BY <1>1, <1>2, <1>3, <1>4, <1>5 DEF Next

LEMMA WorkerInvHolds == Spec => []WorkerInv
<1>1. WorkerInv /\ [Next]_vars => WorkerInv'
  BY NextStep
<1>2. QED
  BY InitInv, <1>1, PTL DEF Spec

LEMMA InvTypeOK == ASSUME WorkerInv PROVE WorkerTypeOK
<1>1. IngestOK /\ ResearchOK /\ SharedOK
  BY DEF WorkerInv
<1>2. Range(research.todo) \subseteq Names /\ research.at \in {"asleep", "next", "llm", "save"}
  <2>1. research.todo \in Seq(Names) /\ research.at \in {"asleep", "next", "llm", "save"}
    BY <1>1 DEF ResearchOK, ResearchState
  <2>2. QED
    BY <2>1 DEF Range
<1>3. ingest.at \in {"refresh", "feeds", "symbol"} /\ dataset.len \in 0 .. BufferCap + 1
  BY <1>1 DEF IngestOK, ResearchOK, IngestState, DatasetState
<1>4. QED
  BY <1>1, <1>2, <1>3 DEF WorkerTypeOK, IngestOK, ResearchOK, SharedOK

\* The worker's type invariant: the buffers are those of the symbols, none longer
\* than the cap, and the list the research job holds across its wait is the
\* buffer until that is trimmed or removed (worker.py:84, :160).
THEOREM WorkerTypeOKHolds == Spec => []WorkerTypeOK
<1>1. WorkerInv => WorkerTypeOK
  BY InvTypeOK
<1>2. QED
  BY WorkerInvHolds, <1>1, PTL

\* Nothing the worker's research job finds is promoted, and of the server's
\* requests only those can be whose exchange returns enough candles in a page.
\* The second half rests on the length of a test growing with the number of
\* candles (researcher.py:106, global_provider.py:222).
THEOREM PromotedByServerOnlyHolds == Spec => []PromotedByServerOnly
<1>1. WorkerInv => PromotedByServerOnly
  BY DEF WorkerInv
<1>2. QED
  BY WorkerInvHolds, <1>1, PTL
=============================================================================
