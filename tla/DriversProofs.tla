--------------------------- MODULE DriversProofs ---------------------------
(***************************************************************************)
(* Theorems about the pipeline, the backtest and the agent graph, for every*)
(* set of candles, closes, replies and limits.                             *)
(***************************************************************************)
EXTENDS Drivers, PaperTradingProofs

-----------------------------------------------------------------------------
(***************************************************************************)
(* The agent graph.                                                        *)
(***************************************************************************)

\* What makes the graph trade (_node_risk_governor): somebody spoke for it.
Spoken ==
  \/ officer \in Actions \ {"HOLD"}
  \/ officer = "unreadable" /\ \E a \in Analysts : opinions[a] = "bullish"

Halted == status = "HALTED_NO_MARKET_DATA"

Foreign == \E a \in Analysts : opinions[a] = "foreign"

\* An action that is taken for a purchase came from an officer who said so, or could
\* not be read.
Purchased(action, reply) == action = "BUY" <=> reply \in {"BUY", "unreadable"}

\* What the nodes know of one another's results.
DeskInv ==
  /\ node \in {"analyze", "govern"} =>
       /\ market.price \in Nat
       /\ status = IF NoMarket THEN "HALTED_NO_MARKET_DATA" ELSE "PENDING"
  /\ node = "govern" /\ ~Halted =>
       /\ consensus.conviction \in Int
       /\ consensus.action # "HOLD" <=> Spoken
       /\ consensus.action # "HOLD" => Purchased(consensus.action, officer)
  /\ node # "done" => trade = << >>
  /\ node \notin {"raised", "done"} => ~Foreign
  /\ DeskDecides

LEMMA PositiveProduct == \A x \in Nat \ {0}, y \in Nat \ {0} : x * y \in Nat \ {0}
OBVIOUS

LEMMA PairPositive ==
  \A x, y \in Nat \ {0} : Min({x, y}) \in Nat \ {0} /\ Max({x, y}) \in Nat \ {0}
<1>. SUFFICES ASSUME NEW x \in Nat \ {0}, NEW y \in Nat \ {0}
              PROVE  Min({x, y}) \in {x, y} /\ Max({x, y}) \in {x, y}
  OBVIOUS
<1>1. x \in Int /\ y \in Int
  OBVIOUS
<1>2. QED BY <1>1, PairMin, PairMax

\* The gate, asked about an account that never traded, only looks at the price.
LEMMA MockApproved ==
  ASSUME NEW signal, signal.kind # "FLAT", signal.pct = GraphPct, signal.strength \in Int,
         NEW price \in Nat
  PROVE  Approved(signal, MockPortfolio, price) <=> price > 0
<1>. DEFINE snap == MockPortfolio
            share == Min({GraphPct, MaxPosition})
            weight == Max({MinStrength, signal.strength})
<1>1. snap.equity = InitialCash /\ snap.drawdown = 0 /\ snap.positions = << >>
  BY DEF MockPortfolio
<1>2. InitialCash \in Nat \ {0}
  BY EngineAssumption, DeskAssumption
<1>3. /\ PctDen \in Nat \ {0} /\ MaxPosition \in Nat \ {0} /\ MaxExposure \in Nat \ {0}
      /\ StrengthDen \in Nat \ {0} /\ MinStrength \in Nat \ {0} /\ MaxDrawdown > 0
      /\ GraphPct \in Nat \ {0}
  BY GateAssumption, DeskAssumption
<1>4. Allocated(snap) = 0
  BY <1>1, EmptyWorthless DEF Allocated
<1>5. share \in Nat \ {0} /\ weight \in Nat \ {0}
  <2>1. share \in Nat \ {0}
    BY <1>3, PairPositive
  <2>2. weight \in Nat \ {0}
    <3>1. weight \in Int /\ MinStrength <= weight
      <4>1. MinStrength \in Int /\ signal.strength \in Int
        BY <1>3
      <4>2. QED BY <4>1, PairMax, Zenon
    <3>2. QED BY <1>3, <3>1
  <2>3. QED BY <2>1, <2>2
<1>. HIDE DEF snap, share, weight
<1>6. MaxExposure * InitialCash \in Nat \ {0}
  BY <1>2, <1>3, PositiveProduct
<1>7. Healthy(snap) /\ ~Exposed(snap)
  BY <1>1, <1>3, <1>4, <1>6 DEF Healthy, Exposed
<1>8. Target(signal, snap) \in Nat \ {0}
  <2>1. InitialCash * share \in Nat \ {0}
    BY <1>2, <1>5, PositiveProduct
  <2>2. (InitialCash * share) * weight \in Nat \ {0}
    BY <1>5, <2>1, PositiveProduct
  <2>3. QED BY <1>1, <2>2 DEF Target, share, weight
<1>9. RemainingExposure(snap) \in Nat \ {0}
  <2>1. RemainingExposure(snap) = (MaxExposure * InitialCash) * StrengthDen
    BY <1>1, <1>3, <1>4, <1>6 DEF RemainingExposure
  <2>2. QED BY <1>3, <1>6, <2>1, PositiveProduct
<1>10. AllowedAllocation(signal, snap) > 0
  BY <1>8, <1>9, PairPositive DEF AllowedAllocation
<1>11. QED BY <1>1, <1>2, <1>7, <1>10 DEF Approved, snap

LEMMA PerceiveKeeps == DeskInv /\ Perceive => DeskInv'
<1>. SUFFICES ASSUME DeskInv, Perceive PROVE DeskInv'
  OBVIOUS
<1>1. PICK price \in DeskPrices, known \in BOOLEAN :
        /\ market' = [price |-> price, features |-> known]
        /\ status' = IF price = 0 \/ ~known THEN "HALTED_NO_MARKET_DATA" ELSE "PENDING"
  BY DEF Perceive
<1>2. market'.price = price /\ market'.features = known /\ price \in Nat
  BY <1>1, DeskAssumption
<1>3. node = "perceive" /\ node' = "analyze" /\ UNCHANGED <<opinions, trade>>
  BY DEF Perceive
<1>4. QED BY <1>1, <1>2, <1>3 DEF DeskInv, DeskDecides, NoMarket, Halted, Foreign

\* An officer who can be read decides; otherwise a bullish analyst does.
LEMMA DecisionSpoken ==
  ASSUME NEW replies \in [Analysts -> Stances \cup {"unreadable", "foreign"}],
         NEW reply \in Actions \cup {"unreadable"}, NEW conviction \in Convictions
  PROVE  LET d == Decision([a \in Analysts |-> Stance(replies[a])], reply, conviction)
         IN  /\ d.conviction \in Int
             /\ d.action # "HOLD" <=>
                  \/ reply \in Actions \ {"HOLD"}
                  \/ reply = "unreadable" /\ \E a \in Analysts : replies[a] = "bullish"
             /\ d.action # "HOLD" => Purchased(d.action, reply)
<1>. DEFINE stances == [a \in Analysts |-> Stance(replies[a])]
            d == Decision(stances, reply, conviction)
<1>1. (\E a \in Analysts : stances[a] = "bullish") <=> \E a \in Analysts : replies[a] = "bullish"
  BY DEF Stance, Stances
<1>2. SUFFICES /\ d.conviction \in Int
               /\ d.action # "HOLD" <=>
                    \/ reply \in Actions \ {"HOLD"}
                    \/ reply = "unreadable" /\ \E a \in Analysts : stances[a] = "bullish"
               /\ d.action # "HOLD" => Purchased(d.action, reply)
  BY <1>1
<1>. HIDE DEF stances
<1>3. CASE reply \in Actions
  <2>1. d.action = reply /\ d.conviction = conviction
    BY <1>3 DEF Decision
  <2>2. QED BY <1>3, <2>1, DeskAssumption DEF Actions, Purchased
<1>4. CASE reply \notin Actions
  <2>1. /\ d.action = IF \E a \in Analysts : stances[a] = "bullish" THEN "BUY" ELSE "HOLD"
        /\ d.conviction = Fallback
    BY <1>4 DEF Decision
  <2>2. QED BY <1>4, <2>1, DeskAssumption DEF Actions, Purchased
<1>5. QED BY <1>3, <1>4

LEMMA AnalyzeKeeps == DeskInv /\ Analyze => DeskInv'
<1>. SUFFICES ASSUME DeskInv, Analyze PROVE DeskInv'
  OBVIOUS
<1>1. /\ market.price \in Nat /\ status = IF NoMarket THEN "HALTED_NO_MARKET_DATA" ELSE "PENDING"
      /\ UNCHANGED <<market, status, trade>> /\ trade = << >> /\ ~Foreign
  BY DEF DeskInv, Analyze
<1>2. CASE Halted
  <2>1. node' = "govern" /\ UNCHANGED opinions
    BY <1>2 DEF Analyze, Halted
  <2>2. QED BY <1>1, <1>2, <2>1 DEF DeskInv, DeskDecides, NoMarket, Halted, Foreign
<1>3. CASE ~Halted
  <2>1. PICK replies \in [Analysts -> Stances \cup {"unreadable", "foreign"}] :
          /\ opinions' = replies
          /\ IF \E a \in Analysts : replies[a] = "foreign"
             THEN /\ node' = "raised"
                  /\ UNCHANGED <<officer, consensus>>
             ELSE /\ node' = "govern"
                  /\ \E reply \in Actions \cup {"unreadable"}, conviction \in Convictions :
                       /\ officer' = reply
                       /\ consensus' = Decision([a \in Analysts |-> Stance(replies[a])],
                                                reply, conviction)
    BY <1>3 DEF Analyze, Halted
  <2>2. CASE node' = "raised"
    BY <1>1, <2>2 DEF DeskInv, DeskDecides
  <2>3. CASE node' = "govern"
    <3>1. PICK reply \in Actions \cup {"unreadable"}, conviction \in Convictions :
            /\ officer' = reply
            /\ consensus' = Decision([a \in Analysts |-> Stance(replies[a])], reply, conviction)
      BY <2>1, <2>3
    <3>2. /\ consensus'.conviction \in Int /\ (consensus'.action # "HOLD" <=> Spoken')
          /\ consensus'.action # "HOLD" => Purchased(consensus'.action, officer')
      BY <2>1, <3>1, DecisionSpoken DEF Spoken
    <3>3. ~Foreign'
      BY <2>1, <2>3 DEF Foreign
    <3>4. QED BY <1>1, <2>3, <3>2, <3>3 DEF DeskInv, DeskDecides, NoMarket, Halted, Foreign
  <2>4. QED BY <2>1, <2>2, <2>3
<1>4. QED BY <1>2, <1>3

LEMMA GovernKeeps == DeskInv /\ Govern => DeskInv'
<1>. SUFFICES ASSUME DeskInv, Govern PROVE DeskInv'
  OBVIOUS
<1>1. /\ market.price \in Nat /\ status = IF NoMarket THEN "HALTED_NO_MARKET_DATA" ELSE "PENDING"
      /\ node = "govern" /\ node' = "done" /\ UNCHANGED <<market, opinions, officer, consensus>>
      /\ trade = << >> /\ ~Foreign
  BY DEF DeskInv, Govern
<1>2. SUFFICES /\ status' = "APPROVED_FOR_EXECUTION" <=> market.price > 0 /\ market.features /\ Spoken
               /\ trade' # << >> =>
                    (Head(trade').kind = "LONG" <=> officer \in {"BUY", "unreadable"})
  BY <1>1 DEF DeskInv, DeskDecides, Spoken, Foreign
<1>3. CASE Halted
  BY <1>1, <1>3 DEF Govern, Halted, NoMarket
<1>4. CASE ~Halted
  <2>1. /\ market.price > 0 /\ market.features
        /\ consensus.conviction \in Int /\ (consensus.action # "HOLD" <=> Spoken)
        /\ consensus.action # "HOLD" => Purchased(consensus.action, officer)
    BY <1>1, <1>4 DEF DeskInv, Halted, NoMarket
  <2>2. CASE consensus.action = "HOLD"
    BY <1>1, <1>4, <2>1, <2>2 DEF Govern, Halted
  <2>3. CASE consensus.action # "HOLD"
    <3>1. PICK s \in Symbols :
            /\ status' = IF Approved(GraphSignal(s), MockPortfolio, market.price)
                         THEN "APPROVED_FOR_EXECUTION" ELSE "REJECTED_BY_RISK"
            /\ \E size : trade' = <<[kind |-> GraphSignal(s).kind, size |-> size]>>
      BY <1>4, <2>3 DEF Govern, Halted
    <3>2. /\ GraphSignal(s).kind # "FLAT" /\ GraphSignal(s).pct = GraphPct
          /\ GraphSignal(s).strength \in Int
      BY <2>1 DEF GraphSignal
    <3>3. Approved(GraphSignal(s), MockPortfolio, market.price)
      BY <1>1, <2>1, <3>2, MockApproved
    <3>4. Head(trade').kind = GraphSignal(s).kind
      BY <3>1
    <3>5. GraphSignal(s).kind = "LONG" <=> officer \in {"BUY", "unreadable"}
      BY <2>1, <2>3 DEF GraphSignal, Purchased
    <3>6. QED BY <2>1, <2>3, <3>1, <3>3, <3>4, <3>5
  <2>4. QED BY <2>2, <2>3
<1>5. QED BY <1>3, <1>4

LEMMA DeskStep == DeskInv /\ [DriversNext]_driverVars => DeskInv'
<1>. SUFFICES ASSUME DeskInv, [DriversNext]_driverVars PROVE DeskInv'
  OBVIOUS
<1>1. CASE UNCHANGED deskVars
  BY <1>1 DEF deskVars, DeskInv, DeskDecides, Halted, NoMarket, Spoken, Foreign
<1>2. CASE DeskNext
  BY <1>2, PerceiveKeeps, AnalyzeKeeps, GovernKeeps DEF DeskNext
<1>3. QED BY <1>1, <1>2 DEF DriversNext, driverVars

\* The graph approves exactly when there was a market and somebody spoke for the
\* trade; the gate, asked about an account that never traded, rejects nothing.  It
\* is a purchase exactly when the officer said so or could not be read, and with a
\* reply of the wrong shape there is none.
THEOREM DeskDecidesHolds == DriversSpec => []DeskDecides
<1>1. DriversInit => DeskInv
  BY DEF DriversInit, DeskInit, DeskInv, DeskDecides, Foreign
<1>2. DeskInv => DeskDecides
  BY DEF DeskInv
<1>3. QED BY <1>1, <1>2, DeskStep, PTL DEF DriversSpec

-----------------------------------------------------------------------------
(***************************************************************************)
(* Types and what they rest on.                                            *)
(***************************************************************************)

\* What can wait on the bus: candles, and signals of a strategy for a symbol
\* that has a buffer.  A signal to enter that is as old as the last of n fills
\* is for a symbol that is not held.
EventsIn(bufs, n, held) ==
  [kind : {"candle"}, symbol : Symbols, candle : Candles] \cup
  {e \in [kind : {"signal"}, signal : Signal, born : 0 .. n] :
     /\ e.signal.kind \in {"LONG", "FLAT"}
     /\ bufs[e.signal.symbol] # << >>
     /\ e.signal.kind = "LONG" /\ e.born = n => e.signal.symbol \notin held}

\* The snapshot a signal would get now.
SnapNow ==
  [equity    |-> RoundDiv(Equity, Cent) * Cent,
   drawdown  |-> DrawdownOf(peak, Equity),
   positions |-> positions]

\* An order that was made from an approved signal and the snapshot snap.
Fresh(work, snap, n) ==
  /\ work.price \in Prices /\ work.born \in 0 .. n
  /\ \E signal \in Signal :
       /\ signal.kind \in {"LONG", "FLAT"}
       /\ Approved(signal, snap, work.price)
       /\ work.order = OrderOf(signal, snap, work.price)
       /\ signal.kind = "LONG" /\ work.born = n => signal.symbol \notin DOMAIN snap.positions

BuffersOK ==
  /\ buffers \in [Symbols -> Seq(Candles)] /\ fed \in [Symbols -> Seq(Candles)]
  /\ \A s \in Symbols : Len(buffers[s]) <= BufferCap

QueueOK == queue \in Seq(EventsIn(buffers, Len(filled), DOMAIN positions))

WorkingOK ==
  \/ working = << >>
  \/ \E work : working = <<work>> /\ Fresh(work, SnapNow, Len(filled))

PipelineOK ==
  /\ BuffersOK /\ QueueOK /\ WorkingOK
  /\ driver # "pipeline" => queue = << >> /\ working = << >>

\* The equity curve lags the bars until the bar is valued.
CurveOK(b, c, p) ==
  /\ c = << >> \/ Len(c) + Warmup <= Len(b)
  /\ p \in {"bracket", "value"} => Len(c) + Warmup < Len(b)
  /\ p # "next" => b # << >>

BacktestOK ==
  /\ strategy \in 1 .. NumStrategies
  /\ bars \in Seq(Closes)
  /\ phase \in {"next", "bracket", "value", "decide", "raised", "reported"}
  /\ bracket \in [stop : Nat, target : Nat]
  /\ pnls \in Seq(Int) /\ curve \in Seq(Int)
  /\ CurveOK(bars, curve, phase)
  /\ driver = "backtest" => DOMAIN positions \subseteq {Symbol} /\ (Open \/ bracket = NoBracket)

-----------------------------------------------------------------------------
(***************************************************************************)
(* Sequences: the end of one, and the members of a set in some order.      *)
(***************************************************************************)
LEMMA SeqOfMore == ASSUME NEW S, NEW T, S \subseteq T PROVE Seq(S) \subseteq Seq(T)
OBVIOUS

LEMMA LastOf ==
  ASSUME NEW S, NEW seq \in Seq(S), seq # << >>
  PROVE  Last(seq) \in S /\ Len(seq) \in Nat \ {0}
BY DEF Last

LEMMA LastNType ==
  ASSUME NEW S, NEW seq \in Seq(S), NEW n \in Nat \ {0}
  PROVE  /\ LastN(seq, n) \in Seq(S) /\ Len(LastN(seq, n)) <= n
         /\ seq # << >> => LastN(seq, n) # << >> /\ Last(LastN(seq, n)) = Last(seq)
<1>1. CASE Len(seq) <= n
  BY <1>1 DEF LastN
<1>2. CASE Len(seq) > n
  <2>. DEFINE from == Len(seq) - n + 1
              tail == SubSeq(seq, from, Len(seq))
  <2>1. from \in 1 .. Len(seq) /\ LastN(seq, n) = tail
    BY <1>2 DEF LastN
  <2>2. tail \in Seq(S) /\ Len(tail) = n /\ tail[n] = seq[Len(seq)]
    BY <1>2, <2>1
  <2>. HIDE DEF tail
  <2>3. QED BY <2>1, <2>2 DEF Last
<1>3. QED BY <1>1, <1>2

\* SetToSeq lists the members of a finite set.
LEMMA SetToSeqType ==
  ASSUME NEW S, IsFiniteSet(S)
  PROVE  SetToSeq(S) \in Seq(S)
<1>. DEFINE n == Cardinality(S)
<1>1. n \in Nat
  BY FS_CardinalityType
<1>2. \E f \in [1 .. n -> S] : IsInjective(f)
  <2>1. PICK f : f \in Bijection(1 .. n, S)
    BY FS_CardinalityType DEF ExistsBijection
  <2>2. f \in [1 .. n -> S] /\ IsInjective(f)
    BY <2>1 DEF Bijection, Injection, IsInjective
  <2>3. QED BY <2>2
<1>3. SetToSeq(S) \in [1 .. n -> S]
  BY <1>2 DEF SetToSeq
<1>4. QED BY <1>1, <1>3

\* The strategies publish signals for the symbol they were asked about, and no
\* entry for one that is held.
LEMMA PublishedType ==
  ASSUME NEW s \in Symbols, NEW f \in Features, NEW close, NEW snap
  PROVE  Published(s, f, close, snap) \in
           Seq({e \in Signal : /\ e.symbol = s /\ e.kind \in {"LONG", "FLAT"}
                               /\ e.kind = "LONG" => s \notin DOMAIN snap.positions})
<1>. DEFINE S == {e \in Signal : /\ e.symbol = s /\ e.kind \in {"LONG", "FLAT"}
                                 /\ e.kind = "LONG" => s \notin DOMAIN snap.positions}
<1>1. Momentum(s, f, snap) \subseteq S
  <2>1. Momentum(s, f, snap) = Signals(1, s, f, snap)
    BY DEF Signals
  <2>2. QED BY <2>1, SignalsType, EntriesAreNew
<1>2. Sentiment(s, f, snap) \subseteq S
  <2>1. Sentiment(s, f, snap) = Signals(2, s, f, snap)
    BY DEF Signals
  <2>2. QED BY <2>1, SignalsType, EntriesAreNew
<1>. HIDE DEF S
<1>3. IsFiniteSet(Momentum(s, f, snap)) /\ IsFiniteSet(Sentiment(s, f, snap))
  <2>1. \A x : IsFiniteSet({x})
    BY FS_Singleton
  <2>2. IsFiniteSet(Flat(s)) /\ \A pct, strength : IsFiniteSet(Long(s, pct, strength))
    BY <2>1 DEF Flat, Long
  <2>3. IsFiniteSet(Momentum(s, f, snap))
    BY <2>2, FS_EmptySet DEF Momentum
  <2>4. IsFiniteSet(Sentiment(s, f, snap))
    BY <2>2, FS_EmptySet DEF Sentiment
  <2>5. QED BY <2>3, <2>4
<1>4. /\ SetToSeq(Momentum(s, f, snap)) \in Seq(S)
      /\ SetToSeq(Sentiment(s, f, snap)) \in Seq(S)
  BY <1>1, <1>2, <1>3, SetToSeqType, SeqOfMore
<1>5. << >> \in Seq(S)
  OBVIOUS
<1>6. Published(s, f, close, snap) \in Seq(S)
  BY <1>4, <1>5 DEF Published
<1>7. QED BY <1>6 DEF S

-----------------------------------------------------------------------------
(***************************************************************************)
(* The pipeline keeps its types.                                           *)
(***************************************************************************)
LEMMA KnownType ==
  ASSUME NEW bufs \in [Symbols -> Seq(Candles)]
  PROVE  DOMAIN Known(bufs) \in SUBSET Symbols /\ Known(bufs) \in [DOMAIN Known(bufs) -> Prices]
<1>1. DOMAIN Known(bufs) = {r \in Symbols : bufs[r] # << >>}
  BY DEF Known
<1>2. ASSUME NEW s \in DOMAIN Known(bufs) PROVE Known(bufs)[s] \in Prices
  <2>1. s \in Symbols /\ bufs[s] \in Seq(Candles) /\ bufs[s] # << >>
    BY <1>1
  <2>2. Last(bufs[s]) \in Candles
    BY <2>1, LastOf
  <2>3. QED BY <1>1, <2>1, <2>2, PipelineAssumption DEF Known
<1>3. Known(bufs) = [s \in DOMAIN Known(bufs) |-> Known(bufs)[s]]
  BY DEF Known
<1>4. QED BY <1>1, <1>2, <1>3

\* What waits on the bus still may, when buffers have grown and either nothing
\* was filled or one order more.
LEMMA MoreEvents ==
  ASSUME NEW bufs, NEW more, \A s \in Symbols : bufs[s] # << >> => more[s] # << >>,
         NEW n \in Nat, NEW m \in Nat, NEW held, NEW heldNow,
         n < m \/ (n = m /\ heldNow = held)
  PROVE  EventsIn(bufs, n, held) \subseteq EventsIn(more, m, heldNow)
<1>1. SUFFICES ASSUME NEW e \in EventsIn(bufs, n, held),
                      e \notin [kind : {"candle"}, symbol : Symbols, candle : Candles]
               PROVE  e \in EventsIn(more, m, heldNow)
  BY DEF EventsIn
<1>2. /\ e \in [kind : {"signal"}, signal : Signal, born : 0 .. n]
      /\ e.signal.kind \in {"LONG", "FLAT"} /\ bufs[e.signal.symbol] # << >>
      /\ e.signal.kind = "LONG" /\ e.born = n => e.signal.symbol \notin held
  BY <1>1 DEF EventsIn
<1>3. e.born \in 0 .. n /\ e.signal.symbol \in Symbols
  BY <1>2 DEF Signal
<1>4. e \in [kind : {"signal"}, signal : Signal, born : 0 .. m]
  BY <1>2
<1>5. QED BY <1>2, <1>3, <1>4 DEF EventsIn

LEMMA Queued ==
  ASSUME NEW S, NEW T, S \subseteq T, NEW old \in Seq(S), NEW e \in T
  PROVE  /\ Append(old, e) \in Seq(T)
         /\ old # << >> => Tail(old) \in Seq(T) /\ Head(old) \in S
OBVIOUS

LEMMA Joined ==
  ASSUME NEW T, NEW s \in Seq(T), NEW t \in Seq(T)
  PROVE  s \o t \in Seq(T)
OBVIOUS

LEMMA FilledType == EngineTypeOK => Len(filled) \in Nat
BY DEF EngineTypeOK

\* The snapshot the handlers take is that of the account they leave.
LEMMA SnapTaken ==
  ASSUME NEW known, GetPortfolioState(known)
  PROVE  SnapNow' = SnapshotOf(known)
BY DEF GetPortfolioState, SnapNow, SnapshotOf, Equity

LEMMA PublishCandleKeeps ==
  ASSUME EngineTypeOK, PipelineOK, driver = "pipeline", driver' = driver, PublishCandle
  PROVE  EngineTypeOK' /\ PipelineOK'
<1>1. PICK s \in Symbols, candle \in Candles : queue' = Append(queue, CandleEvent(s, candle))
  BY DEF PublishCandle
<1>2. UNCHANGED <<engineVars, buffers, fed>> /\ working' = << >>
  BY DEF PublishCandle
<1>3. CandleEvent(s, candle) \in EventsIn(buffers, Len(filled), DOMAIN positions)
  BY DEF CandleEvent, EventsIn
<1>4. queue' \in Seq(EventsIn(buffers, Len(filled), DOMAIN positions))
  <2>. HIDE DEF EventsIn
  <2>. QED BY <1>1, <1>3, Queued DEF PipelineOK, QueueOK
<1>5. QueueOK'
  BY <1>2, <1>4 DEF engineVars, QueueOK
<1>6. EngineTypeOK'
  BY <1>2 DEF engineVars, EngineTypeOK
<1>7. QED BY <1>2, <1>5, <1>6 DEF PipelineOK, WorkingOK, BuffersOK

LEMMA DropCandleKeeps ==
  ASSUME EngineTypeOK, PipelineOK, driver = "pipeline", driver' = driver, DropCandle
  PROVE  EngineTypeOK' /\ PipelineOK'
<1>. DEFINE T == EventsIn(buffers, Len(filled), DOMAIN positions)
            s == Head(queue).symbol
            candle == Head(queue).candle
<1>1. queue \in Seq(T) /\ queue # << >> /\ working = << >> /\ Head(queue).kind = "candle"
  BY DEF PipelineOK, QueueOK, DropCandle, NextIs
<1>2. /\ UNCHANGED <<engineVars, buffers, working>> /\ queue' = Tail(queue)
      /\ fed' = [fed EXCEPT ![s] = Append(@, candle)]
  BY DEF DropCandle
<1>3. Head(queue) \in T /\ Tail(queue) \in Seq(T)
  <2>. HIDE DEF T
  <2>. QED BY <1>1
<1>4. s \in Symbols /\ candle \in Candles
  BY <1>1, <1>3 DEF EventsIn
<1>5. QueueOK'
  BY <1>2, <1>3 DEF engineVars, QueueOK
<1>6. BuffersOK'
  <2>1. fed' \in [Symbols -> Seq(Candles)]
    <3>. HIDE DEF s, candle
    <3>. QED BY <1>2, <1>4 DEF PipelineOK, BuffersOK
  <2>2. QED BY <1>2, <2>1 DEF PipelineOK, BuffersOK
<1>7. EngineTypeOK'
  BY <1>2 DEF engineVars, EngineTypeOK
<1>8. QED BY <1>1, <1>2, <1>5, <1>6, <1>7 DEF PipelineOK, WorkingOK

\* A candle that is accepted is the last of its symbol's buffer.
LEMMA BufferGrows ==
  ASSUME BuffersOK, NEW s \in Symbols, NEW candle \in Candles,
         NEW bufs, bufs = [buffers EXCEPT ![s] = LastN(Append(@, candle), BufferCap)]
  PROVE  /\ bufs \in [Symbols -> Seq(Candles)]
         /\ \A r \in Symbols : Len(bufs[r]) <= BufferCap
         /\ \A r \in Symbols : buffers[r] # << >> => bufs[r] # << >>
         /\ bufs[s] # << >> /\ Last(bufs[s]) = candle
<1>1. buffers \in [Symbols -> Seq(Candles)] /\ \A r \in Symbols : Len(buffers[r]) <= BufferCap
  BY DEF BuffersOK
<1>2. /\ Append(buffers[s], candle) \in Seq(Candles) /\ Append(buffers[s], candle) # << >>
      /\ Last(Append(buffers[s], candle)) = candle
  BY <1>1 DEF Last
<1>. DEFINE new == LastN(Append(buffers[s], candle), BufferCap)
<1>3. new \in Seq(Candles) /\ Len(new) <= BufferCap /\ new # << >> /\ Last(new) = candle
  BY <1>2, LastNType, PipelineAssumption
<1>4. \A r \in Symbols : bufs[r] = IF r = s THEN new ELSE buffers[r]
  BY <1>1
<1>5. bufs \in [Symbols -> Seq(Candles)]
  <2>1. bufs = [buffers EXCEPT ![s] = new]
    OBVIOUS
  <2>. HIDE DEF new
  <2>2. QED BY <1>1, <1>3, <2>1
<1>. HIDE DEF new
<1>6. QED BY <1>1, <1>3, <1>4, <1>5

LEMMA HandleCandleKeeps ==
  ASSUME EngineTypeOK, PipelineOK, driver = "pipeline", driver' = driver, HandleCandle
  PROVE  EngineTypeOK' /\ PipelineOK'
<1>. DEFINE n == Len(filled)
            held == DOMAIN positions
            old == EventsIn(buffers, n, held)
            s == Head(queue).symbol
            candle == Head(queue).candle
            bufs == [buffers EXCEPT ![s] = LastN(Append(@, candle), BufferCap)]
            known == Known(bufs)
            snap == SnapshotOf(known)
            new == EventsIn(bufs, n, held)
<1>1. queue \in Seq(old) /\ queue # << >> /\ working = << >> /\ Head(queue).kind = "candle"
  BY DEF PipelineOK, QueueOK, HandleCandle, NextIs
<1>2. /\ buffers' = bufs /\ working' = working
      /\ fed' = [fed EXCEPT ![s] = Append(@, candle)]
      /\ GetPortfolioState(known)
  BY DEF HandleCandle
<1>3. PICK f \in Features :
        queue' = Tail(queue) \o
          [i \in DOMAIN Published(s, f, candle.close, snap)
             |-> SignalEvent(Published(s, f, candle.close, snap)[i])]
  BY DEF HandleCandle
<1>4. Head(queue) \in old /\ Tail(queue) \in Seq(old)
  <2>. HIDE DEF old
  <2>. QED BY <1>1
<1>5. s \in Symbols /\ candle \in Candles
  BY <1>1, <1>4 DEF EventsIn
<1>6. /\ bufs \in [Symbols -> Seq(Candles)]
      /\ \A r \in Symbols : Len(bufs[r]) <= BufferCap
      /\ \A r \in Symbols : buffers[r] # << >> => bufs[r] # << >>
      /\ bufs[s] # << >>
  <2>1. BuffersOK
    BY DEF PipelineOK
  <2>. HIDE DEF s, candle
  <2>2. QED BY <1>5, <2>1, BufferGrows, ZenonT(30)
<1>7. DOMAIN known \in SUBSET Symbols /\ known \in [DOMAIN known -> Prices]
  <2>. HIDE DEF bufs
  <2>. QED BY <1>6, KnownType
<1>8. EngineTypeOK'
  <2>. HIDE DEF known
  <2>. QED BY <1>2, <1>7, MarkType
<1>9. filled' = filled /\ DOMAIN positions' = held /\ DOMAIN snap.positions = held
  BY <1>2 DEF GetPortfolioState, SnapshotOf, MarkedWith
<1>10. n \in Nat
  BY FilledType
<1>. DEFINE signals == Published(s, f, candle.close, snap)
            events == [i \in DOMAIN signals |-> SignalEvent(signals[i])]
<1>11. events \in Seq(new)
  <2>. DEFINE S == {e \in Signal : /\ e.symbol = s /\ e.kind \in {"LONG", "FLAT"}
                                   /\ e.kind = "LONG" => s \notin held}
  <2>1. signals \in Seq(S)
    <3>. HIDE DEF snap, s
    <3>. QED BY <1>5, <1>9, PublishedType
  <2>2. \A e \in S : SignalEvent(e) \in new
    BY <1>6, <1>10 DEF SignalEvent, EventsIn
  <2>. HIDE DEF S, new, signals
  <2>3. DOMAIN signals = 1 .. Len(signals) /\ Len(signals) \in Nat
    BY <2>1
  <2>4. \A i \in 1 .. Len(signals) : SignalEvent(signals[i]) \in new
    BY <2>1, <2>2
  <2>5. QED BY <2>3, <2>4
<1>12. Tail(queue) \in Seq(new)
  <2>1. old \subseteq new
    <3>. HIDE DEF bufs
    <3>. QED BY <1>6, <1>10, MoreEvents
  <2>. HIDE DEF old, new
  <2>2. QED BY <1>4, <2>1, SeqOfMore
<1>13. queue' \in Seq(new)
  <2>1. queue' = Tail(queue) \o events
    BY <1>3
  <2>. HIDE DEF events, new
  <2>2. QED BY <1>11, <1>12, <2>1, Joined
<1>14. QueueOK'
  BY <1>2, <1>9, <1>13 DEF QueueOK
<1>15. BuffersOK'
  <2>1. fed' \in [Symbols -> Seq(Candles)]
    <3>. HIDE DEF s, candle
    <3>. QED BY <1>2, <1>5 DEF PipelineOK, BuffersOK
  <2>. HIDE DEF bufs
  <2>2. QED BY <1>2, <1>6, <2>1 DEF BuffersOK
<1>16. QED BY <1>1, <1>2, <1>8, <1>14, <1>15 DEF PipelineOK, WorkingOK

LEMMA SnapNowType ==
  EngineTypeOK => SnapNow.equity \in Int /\ SnapNow.positions = positions /\ Book(SnapNow.positions)
<1>. SUFFICES ASSUME EngineTypeOK
              PROVE  SnapNow.equity \in Int /\ SnapNow.positions = positions /\ Book(positions)
  OBVIOUS
<1>1. Book(positions)
  BY DEF EngineTypeOK
<1>2. Equity \in Int
  BY <1>1, MarketValueInt DEF EngineTypeOK, Equity
<1>3. RoundDiv(Equity, Cent) \in Int /\ Cent \in Int
  BY <1>2, RoundDivType, GateAssumption
<1>4. QED BY <1>1, <1>3 DEF SnapNow

LEMMA HandleSignalKeeps ==
  ASSUME EngineTypeOK, PipelineOK, driver = "pipeline", driver' = driver, HandleSignal
  PROVE  EngineTypeOK' /\ PipelineOK'
<1>. DEFINE n == Len(filled)
            held == DOMAIN positions
            old == EventsIn(buffers, n, held)
            event == Head(queue)
            signal == event.signal
            known == Known(buffers)
            price == Last(buffers[signal.symbol]).close
            snap == SnapshotOf(known)
            work == [order |-> OrderOf(signal, snap, price), price |-> price, born |-> event.born]
<1>1. queue \in Seq(old) /\ queue # << >> /\ working = << >> /\ event.kind = "signal"
  BY DEF PipelineOK, QueueOK, HandleSignal, NextIs
<1>2. UNCHANGED <<buffers, fed>> /\ queue' = Tail(queue)
  BY DEF HandleSignal
<1>3. event \in old /\ Tail(queue) \in Seq(old)
  <2>. HIDE DEF old
  <2>. QED BY <1>1
<1>4. /\ signal \in Signal /\ event.born \in 0 .. n /\ signal.kind \in {"LONG", "FLAT"}
      /\ signal.symbol \in Symbols /\ buffers[signal.symbol] # << >>
      /\ signal.kind = "LONG" /\ event.born = n => signal.symbol \notin held
  BY <1>1, <1>3 DEF EventsIn, Signal
<1>5. buffers \in [Symbols -> Seq(Candles)] /\ BuffersOK'
  BY <1>2 DEF PipelineOK, BuffersOK
<1>6. price \in Prices
  <2>1. Last(buffers[signal.symbol]) \in Candles
    BY <1>4, <1>5, LastOf
  <2>2. QED BY <2>1, PipelineAssumption
<1>7. CASE price = 0
  <2>1. UNCHANGED <<engineVars, working>>
    BY <1>7 DEF HandleSignal
  <2>2. QueueOK'
    BY <1>2, <1>3, <2>1 DEF engineVars, QueueOK
  <2>3. EngineTypeOK'
    BY <2>1 DEF engineVars, EngineTypeOK
  <2>4. QED BY <1>1, <1>5, <2>1, <2>2, <2>3 DEF PipelineOK, WorkingOK
<1>8. CASE price # 0
  <2>1. /\ GetPortfolioState(known)
        /\ working' = IF Approved(signal, snap, price) THEN <<work>> ELSE << >>
    BY <1>8 DEF HandleSignal
  <2>2. DOMAIN known \in SUBSET Symbols /\ known \in [DOMAIN known -> Prices]
    BY <1>5, KnownType
  <2>3. EngineTypeOK'
    <3>. HIDE DEF known
    <3>. QED BY <2>1, <2>2, MarkType
  <2>4. /\ filled' = filled /\ DOMAIN positions' = held /\ DOMAIN snap.positions = held
        /\ SnapNow' = snap
    <3>. HIDE DEF known
    <3>1. SnapNow' = SnapshotOf(known)
      BY <2>1, SnapTaken
    <3>2. QED BY <2>1, <3>1 DEF GetPortfolioState, SnapshotOf, MarkedWith
  <2>5. QueueOK'
    BY <1>2, <1>3, <2>4 DEF QueueOK
  <2>6. WorkingOK'
    <3>1. CASE ~Approved(signal, snap, price)
      BY <2>1, <3>1 DEF WorkingOK
    <3>2. CASE Approved(signal, snap, price)
      <4>1. /\ work.price = price /\ work.born = event.born
            /\ work.order = OrderOf(signal, snap, price)
        OBVIOUS
      <4>. HIDE DEF work, snap, price, event
      <4>2. Fresh(work, snap, n)
        BY <1>4, <1>6, <2>4, <3>2, <4>1 DEF Fresh
      <4>3. QED BY <2>1, <2>4, <3>2, <4>2 DEF WorkingOK
    <3>3. QED BY <3>1, <3>2
  <2>7. QED BY <1>5, <2>3, <2>5, <2>6 DEF PipelineOK
<1>9. QED BY <1>7, <1>8

\* An order that is executed is filled, and once, or leaves the account alone.
LEMMA FillsOnce ==
  ASSUME EngineTypeOK, NEW order, NEW price, ExecuteOrder(order, price)
  PROVE  Len(filled') = Len(filled) + 1 \/ UNCHANGED engineVars
BY DEF EngineTypeOK, ExecuteOrder, FillBuy, FillSell, DontFill, Record

LEMMA FreshOrder ==
  ASSUME EngineTypeOK, NEW work, Fresh(work, SnapNow, Len(filled))
  PROVE  work.order \in Order /\ work.price \in Prices /\ work.price \in Nat \ {0}
<1>1. PICK signal \in Signal :
        Approved(signal, SnapNow, work.price) /\ work.order = OrderOf(signal, SnapNow, work.price)
  BY DEF Fresh
<1>2. work.price \in Prices /\ work.price \in Nat
  BY EngineAssumption DEF Fresh
<1>3. SnapNow.equity \in Int /\ Book(SnapNow.positions)
  BY SnapNowType
<1>4. work.order \in Order
  BY <1>1, <1>2, <1>3, ApprovedOrder
<1>5. work.price > 0
  BY <1>1 DEF Approved
<1>6. QED BY <1>2, <1>4, <1>5

LEMMA PlaceWorkingKeeps ==
  ASSUME EngineTypeOK, PipelineOK, driver = "pipeline", driver' = driver, PlaceWorking
  PROVE  EngineTypeOK' /\ PipelineOK'
<1>1. PICK work : working = <<work>> /\ Fresh(work, SnapNow, Len(filled))
  BY DEF PlaceWorking, PipelineOK, WorkingOK
<1>2. ExecuteOrder(work.order, work.price)
  BY <1>1 DEF PlaceWorking
<1>3. UNCHANGED <<queue, buffers, fed>> /\ working' = << >>
  BY DEF PlaceWorking
<1>4. EngineTypeOK'
  BY <1>1, <1>2, FreshOrder, ExecuteType
<1>5. Len(filled) \in Nat /\ Len(filled') \in Nat
  BY <1>4 DEF EngineTypeOK
<1>6. Len(filled) < Len(filled') \/ (Len(filled) = Len(filled') /\ DOMAIN positions' = DOMAIN positions)
  BY <1>2, <1>5, FillsOnce DEF engineVars
<1>7. EventsIn(buffers, Len(filled), DOMAIN positions)
        \subseteq EventsIn(buffers, Len(filled'), DOMAIN positions')
  BY <1>5, <1>6, MoreEvents
<1>8. QueueOK'
  <2>. HIDE DEF EventsIn
  <2>. QED BY <1>3, <1>7, SeqOfMore DEF PipelineOK, QueueOK
<1>9. QED BY <1>3, <1>4, <1>8 DEF PipelineOK, WorkingOK, BuffersOK

\* A step that leaves the account and the pipeline's sequences alone.
LEMMA PipelineSame ==
  ASSUME EngineTypeOK, PipelineOK, driver' = driver,
         UNCHANGED <<engineVars, queue, buffers, fed, working>>
  PROVE  EngineTypeOK' /\ PipelineOK'
<1>1. SnapNow' = SnapNow /\ filled' = filled /\ positions' = positions
  BY DEF engineVars, SnapNow, Equity
<1>2. QED BY <1>1 DEF engineVars, EngineTypeOK, PipelineOK, BuffersOK, QueueOK, WorkingOK

LEMMA PipelineKeeps ==
  ASSUME EngineTypeOK, PipelineOK, driver = "pipeline", driver' = driver, PipelineNext
  PROVE  EngineTypeOK' /\ PipelineOK'
<1>1. CASE StartPipeline \/ StopPipeline
  BY <1>1, PipelineSame DEF StartPipeline, StopPipeline
<1>2. QED BY <1>1, PublishCandleKeeps, DropCandleKeeps, HandleCandleKeeps, HandleSignalKeeps,
             PlaceWorkingKeeps DEF PipelineNext

-----------------------------------------------------------------------------
(***************************************************************************)
(* What the pipeline fills.                                                *)
(***************************************************************************)

\* A purchase of a symbol that is held was decided before some other fill.
LEMMA PlacedStale ==
  ASSUME EngineTypeOK, PipelineOK, PlaceWorking, NEW s \in DOMAIN positions, Fills("BUY", s)
  PROVE  working[1].born < Len(filled)
<1>1. PICK work : working = <<work>> /\ Fresh(work, SnapNow, Len(filled))
  BY DEF PlaceWorking, PipelineOK, WorkingOK
<1>2. PICK signal \in Signal :
        /\ signal.kind \in {"LONG", "FLAT"}
        /\ work.order = OrderOf(signal, SnapNow, work.price)
        /\ signal.kind = "LONG" /\ work.born = Len(filled) =>
             signal.symbol \notin DOMAIN SnapNow.positions
  BY <1>1 DEF Fresh
<1>3. work.born \in 0 .. Len(filled) /\ Len(filled) \in Nat /\ working[1] = work
  BY <1>1, FilledType DEF Fresh
<1>4. ExecuteOrder(work.order, work.price)
  BY <1>1 DEF PlaceWorking
<1>5. FillBuy(work.order, work.price) \/ FillSell(work.order, work.price)
  BY <1>3, <1>4 DEF ExecuteOrder, DontFill, engineVars, Fills
<1>6. Last(filled').side = work.order.side /\ Last(filled').symbol = work.order.symbol
  <2>1. Record(work.order, work.price) /\ filled \in Seq(Fill)
    BY <1>5 DEF FillBuy, FillSell, EngineTypeOK
  <2>2. QED BY <2>1 DEF Record, Last
<1>7. signal.kind = "LONG" /\ signal.symbol = s
  BY <1>2, <1>6 DEF Fills, OrderOf
<1>8. work.born # Len(filled)
  BY <1>2, <1>7, SnapNowType
<1>9. QED BY <1>3, <1>8

\* An exit closes the whole position.
LEMMA PlacedExit ==
  ASSUME EngineTypeOK, NEW signal \in Signal, signal.kind = "FLAT",
         NEW price \in Prices, Approved(signal, SnapNow, price),
         ExecuteOrder(OrderOf(signal, SnapNow, price), price)
  PROVE  Fills("SELL", signal.symbol) /\ signal.symbol \notin DOMAIN positions'
<1>. DEFINE order == OrderOf(signal, SnapNow, price)
            s == signal.symbol
<1>1. s \in DOMAIN positions /\ positions[s].size \in Nat /\ Dust \in Nat
  BY SnapNowType, EngineAssumption DEF Approved, HeldIn, EngineTypeOK, Book, Position
<1>2. order.side = "SELL" /\ order.symbol = s /\ order.size = positions[s].size
  BY SnapNowType DEF OrderOf, AdjustedSize
<1>. HIDE DEF order
<1>3. ExecuteOrder(order, price)
  BY DEF order
<1>4. FillSell(order, price)
  BY <1>1, <1>2, <1>3
     DEF ExecuteOrder, FillBuy, DontFill, Outcome, CanFill, Holds, AveragesNothing
<1>5. Emptied(order)
  BY <1>1, <1>2 DEF Emptied, Remaining, CloseSize
<1>6. s \notin DOMAIN positions'
  BY <1>2, <1>4, <1>5 DEF FillSell, Restrict
<1>7. Fills("SELL", s)
  <2>1. Record(order, price) /\ filled \in Seq(Fill)
    BY <1>4 DEF FillSell, EngineTypeOK
  <2>2. Len(filled') = Len(filled) + 1
    BY <2>1 DEF Record
  <2>3. QED BY <1>2, <2>1, <2>2 DEF Record, Last, Fills
<1>8. QED BY <1>6, <1>7

\* A purchase keeps the exposure within its limit, but for the rounding of the
\* equity to cents and of the size to a unit.
LEMMA PlacedEntry ==
  ASSUME EngineTypeOK, NEW signal \in Signal, signal.kind # "FLAT",
         NEW price \in Prices, Approved(signal, SnapNow, price)
  PROVE  (Allocated([positions |-> positions])
            + OrderOf(signal, SnapNow, price).size * price * Scale) * PctDen
           <= MaxExposure * (Equity + Cent) + PctDen * price * Scale
<1>. DEFINE size == AdjustedSize(signal, SnapNow, price)
            alloc == Allocated(SnapNow)
            spent == alloc + size * price * Scale
            slack == PctDen * price * Scale
            seen == SnapNow.equity
<1>1. /\ seen \in Int /\ Book(SnapNow.positions) /\ SnapNow.positions = positions
      /\ price \in Nat \ {0}
  BY SnapNowType, EngineAssumption DEF Approved
<1>2. 2 * PctDen * spent <= 2 * MaxExposure * seen + slack
  BY <1>1, SizeFits
<1>3. Equity \in Int
  BY MarketValueInt DEF EngineTypeOK, Equity
<1>4. /\ PctDen \in Nat /\ MaxExposure \in Nat /\ Cent \in Nat \ {0}
      /\ SlipDen \in Nat /\ CommDen \in Nat
  BY GateAssumption, EngineAssumption
<1>5. 2 * seen <= 2 * Equity + Cent
  <2>1. 2 * (Cent * RoundDiv(Equity, Cent)) <= 2 * Equity + Cent
    BY <1>3, <1>4, RoundDivBound
  <2>2. RoundDiv(Equity, Cent) \in Int
    BY <1>3, <1>4, RoundDivType
  <2>3. seen = RoundDiv(Equity, Cent) * Cent
    BY DEF SnapNow
  <2>4. QED BY <1>4, <2>1, <2>2, <2>3
<1>6. alloc \in Int /\ size \in Int
  <2>1. alloc \in Int
    BY <1>1, AllocationType
  <2>2. OrderOf(signal, SnapNow, price) \in Order
    BY <1>1, ApprovedOrder
  <2>3. OrderOf(signal, SnapNow, price).size = size
    BY DEF OrderOf
  <2>4. QED BY <2>1, <2>2, <2>3 DEF Order
<1>7. Scale \in Nat
  BY <1>4, ProductNat DEF Scale
<1>8. slack \in Nat /\ spent \in Int
  <2>1. PctDen * price \in Nat /\ size * price \in Int
    BY <1>1, <1>4, <1>6
  <2>2. slack \in Nat /\ size * price * Scale \in Int
    BY <1>7, <2>1
  <2>3. QED BY <1>6, <2>2
<1>9. /\ Allocated([positions |-> positions]) = alloc
      /\ OrderOf(signal, SnapNow, price).size = size
  BY <1>1 DEF Allocated, OrderOf
<1>. HIDE DEF size, alloc, seen
<1>10. MaxExposure * (2 * seen) <= MaxExposure * (2 * Equity + Cent)
  <2>1. \A k \in Nat, x \in Int, y \in Int : x <= y => k * x <= k * y
    OBVIOUS
  <2>2. QED BY <1>1, <1>3, <1>4, <1>5, <2>1
<1>11. MaxExposure * Cent \in Nat /\ MaxExposure * Equity \in Int /\ MaxExposure * seen \in Int
  BY <1>1, <1>3, <1>4, ProductNat
<1>12. /\ MaxExposure * (2 * seen) = 2 * (MaxExposure * seen)
       /\ 2 * MaxExposure * seen = 2 * (MaxExposure * seen)
       /\ MaxExposure * (2 * Equity + Cent) = 2 * (MaxExposure * Equity) + MaxExposure * Cent
       /\ MaxExposure * (Equity + Cent) = MaxExposure * Equity + MaxExposure * Cent
  BY <1>1, <1>3, <1>4
<1>13. 2 * PctDen * spent = 2 * (spent * PctDen) /\ spent * PctDen \in Int
  BY <1>4, <1>8
<1>. HIDE DEF slack, spent
<1>14. spent * PctDen <= MaxExposure * (Equity + Cent) + slack
  BY <1>2, <1>8, <1>10, <1>11, <1>12, <1>13
<1>15. QED BY <1>9, <1>14 DEF slack, spent

LEMMA PipelineFresh ==
  ASSUME EngineTypeOK, PipelineOK, PipelineNext, working # << >>, working' = << >>
  PROVE  LET order == working[1].order
             price == working[1].price
         IN  IF order.side = "SELL"
             THEN Fills("SELL", order.symbol) /\ order.symbol \notin DOMAIN positions'
             ELSE Fills("BUY", order.symbol) =>
                    (Allocated([positions |-> positions]) + order.size * price * Scale) * PctDen
                      <= MaxExposure * (Equity + Cent) + PctDen * price * Scale
<1>1. PlaceWorking
  BY DEF PipelineNext, PublishCandle, DropCandle, HandleCandle, HandleSignal, NextIs,
         StartPipeline, StopPipeline
<1>2. PICK work : working = <<work>> /\ Fresh(work, SnapNow, Len(filled))
  BY DEF PipelineOK, WorkingOK
<1>3. PICK signal \in Signal :
        /\ signal.kind \in {"LONG", "FLAT"}
        /\ Approved(signal, SnapNow, work.price)
        /\ work.order = OrderOf(signal, SnapNow, work.price)
  BY <1>2 DEF Fresh
<1>4. ExecuteOrder(work.order, work.price)
  BY <1>1, <1>2 DEF PlaceWorking
<1>5. work.price \in Prices /\ working[1] = work
  BY <1>2 DEF Fresh
<1>6. CASE signal.kind = "FLAT"
  <2>1. work.order.side = "SELL" /\ work.order.symbol = signal.symbol
    BY <1>3, <1>6 DEF OrderOf
  <2>2. Fills("SELL", signal.symbol) /\ signal.symbol \notin DOMAIN positions'
    BY <1>3, <1>4, <1>5, <1>6, PlacedExit
  <2>3. QED BY <1>5, <2>1, <2>2
<1>7. CASE signal.kind = "LONG"
  <2>1. work.order.side = "BUY"
    BY <1>3, <1>7 DEF OrderOf
  <2>2. (Allocated([positions |-> positions]) + work.order.size * work.price * Scale) * PctDen
          <= MaxExposure * (Equity + Cent) + PctDen * work.price * Scale
    BY <1>3, <1>5, <1>7, PlacedEntry
  <2>3. QED BY <1>5, <2>1, <2>2
<1>8. QED BY <1>3, <1>6, <1>7

LEMMA PipelineStale ==
  ASSUME EngineTypeOK, PipelineOK, PipelineNext, NEW s \in DOMAIN positions, Fills("BUY", s)
  PROVE  working[1].born < Len(filled)
<1>1. Len(filled') # Len(filled)
  BY FilledType DEF Fills
<1>2. PlaceWorking
  BY <1>1 DEF PipelineNext, PublishCandle, DropCandle, HandleCandle, HandleSignal,
              GetPortfolioState, StartPipeline, StopPipeline, engineVars
<1>3. QED BY <1>2, PlacedStale

-----------------------------------------------------------------------------
(***************************************************************************)
(* The backtest keeps its types, and its curve keeps behind the bars.      *)
(***************************************************************************)
LEMMA SymbolIn == Symbol \in Symbols
BY BacktestAssumption DEF Symbol

LEMMA CloseType ==
  ASSUME bars \in Seq(Closes), bars # << >> PROVE Close \in Prices /\ Close \in Nat
<1>1. Close \in Closes
  BY LastOf DEF Close
<1>2. QED BY <1>1, BacktestAssumption, EngineAssumption

\* A bracket price is a price, and grows with the percentage it is of the close.
LEMMA BracketNat ==
  ASSUME NEW close \in Nat, NEW pct \in Nat
  PROVE  Bracket(close, pct) \in Nat
<1>1. close * pct \in Nat /\ 100 * BracketUnit \in Nat \ {0}
  BY BacktestAssumption, ProductNat
<1>2. RoundDiv(close * pct, 100 * BracketUnit) \in Nat
  BY <1>1, RoundDivType
<1>3. QED BY <1>2, BacktestAssumption, ProductNat DEF Bracket

LEMMA BracketType ==
  ASSUME strategy \in 1 .. NumStrategies, NEW close \in Nat
  PROVE  BracketOf(close) \in [stop : Nat, target : Nat]
<1>1. StopPct[strategy] \in Nat /\ TargetPct[strategy] \in Nat
  BY BacktestAssumption
<1>2. Bracket(close, StopPct[strategy]) \in Nat /\ Bracket(close, TargetPct[strategy]) \in Nat
  BY <1>1, BracketNat
<1>3. QED BY <1>2 DEF BracketOf

\* A price at which a position is left is one of the market's, or a bracket's.
LEMMA RawExitNat ==
  ASSUME BacktestOK, Open, HitStop \/ HitTarget PROVE RawExit \in Nat
BY DEF BacktestOK, RawExit

\* A fill is recorded with the sizes and amounts it has.
LEMMA RecordNat ==
  ASSUME EngineTypeOK, NEW order \in Order, NEW price \in Nat, Record(order, price)
  PROVE  filled' \in Seq(Fill)
<1>. DEFINE fill == [symbol |-> order.symbol, side |-> order.side, size |-> order.size,
                     paid |-> FillPrice(order.side, price),
                     commission |-> Commission(order.side, order.size, price)]
<1>1. order.symbol \in Symbols /\ order.size \in Nat /\ order.side \in {"BUY", "SELL"}
  BY DEF Order
<1>2. FillPrice(order.side, price) \in Nat /\ Commission(order.side, order.size, price) \in Nat
  BY <1>1, FillPriceNat, ValueNat
<1>3. fill \in Fill
  BY <1>1, <1>2 DEF Fill
<1>4. filled' = Append(filled, fill) /\ filled \in Seq(Fill)
  BY DEF Record, EngineTypeOK
<1>. HIDE DEF fill
<1>5. QED BY <1>3, <1>4

LEMMA SellKeeps ==
  ASSUME EngineTypeOK, BacktestOK, Open, NEW price \in Nat, Sell(price),
         UNCHANGED <<peak, dropped>>
  PROVE  /\ EngineTypeOK' /\ positions' = << >> /\ DOMAIN positions' = {}
         /\ pnls' \in Seq(Int) /\ bracket' = NoBracket
<1>. DEFINE held == positions[Symbol]
            got == Proceeds(held.size, price)
            order == [symbol |-> Symbol, side |-> "SELL", size |-> held.size]
<1>1. held.size \in Nat /\ held.cost \in Nat
  BY DEF Open, EngineTypeOK, Book, Position
<1>2. got \in Int
  BY <1>1, ValueNat DEF Proceeds
<1>3. /\ cash' = cash + got /\ realized' = realized + (got - held.cost)
      /\ pnls' = Append(pnls, got - held.cost)
      /\ positions' = << >> /\ bracket' = NoBracket /\ Record(order, price)
  BY DEF Sell
<1>4. order \in Order
  BY <1>1, SymbolIn DEF Order
<1>. HIDE DEF held, got, order
<1>5. filled' \in Seq(Fill)
  BY <1>3, <1>4, RecordNat
<1>6. pnls' \in Seq(Int)
  BY <1>1, <1>2, <1>3 DEF BacktestOK
<1>7. cash' \in Int /\ realized' \in Int
  BY <1>1, <1>2, <1>3 DEF EngineTypeOK
<1>8. DOMAIN positions' = {}
  BY <1>3
<1>9. Book(positions')
  BY <1>8 DEF Book
<1>10. QED BY <1>3, <1>5, <1>6, <1>7, <1>8, <1>9 DEF EngineTypeOK

LEMMA BuyKeeps ==
  ASSUME EngineTypeOK, BacktestOK, ~Open, DOMAIN positions \subseteq {Symbol},
         NEW size \in Nat, NEW close \in Nat, Buy(size, close), UNCHANGED <<peak, dropped>>
  PROVE  /\ EngineTypeOK' /\ DOMAIN positions' \subseteq {Symbol} /\ pnls' \in Seq(Int)
         /\ bracket' \in [stop : Nat, target : Nat]
         /\ Open' \/ bracket' = bracket
<1>. DEFINE order == [symbol |-> Symbol, side |-> "BUY", size |-> size]
            new == [size |-> size, cost |-> TradeValue("BUY", size, close),
                    mark |-> FillPrice("BUY", close)]
<1>1. order \in Order /\ order.size = size
  BY SymbolIn DEF Order
<1>2. CASE cash >= BuyCost(order, close)
  <2>1. /\ cash' = cash - BuyCost(order, close) /\ UNCHANGED <<realized, pnls>>
        /\ positions' = With(positions, Symbol, new)
        /\ bracket' = BracketOf(close) /\ Record(order, close)
    BY <1>2 DEF Buy
  <2>2. /\ TradeValue("BUY", size, close) \in Nat /\ Commission("BUY", size, close) \in Nat
        /\ FillPrice("BUY", close) \in Nat
    BY ValueNat, FillPriceNat
  <2>3. new \in Position /\ (new.size = 0 => new.cost = 0)
    <3>1. size = 0 => TradeValue("BUY", size, close) = 0
      BY <2>2, EngineAssumption DEF TradeValue
    <3>2. QED BY <2>2, <3>1 DEF Position
  <2>4. cash' \in Int
    BY <1>1, <2>1, <2>2 DEF BuyCost, EngineTypeOK
  <2>5. filled' \in Seq(Fill)
    <3>. HIDE DEF order
    <3>. QED BY <1>1, <2>1, RecordNat
  <2>6. bracket' \in [stop : Nat, target : Nat]
    BY <2>1, BracketType DEF BacktestOK
  <2>. HIDE DEF new
  <2>7. /\ DOMAIN positions' = DOMAIN positions \cup {Symbol}
        /\ \A r \in DOMAIN positions' : positions'[r] = IF r = Symbol THEN new ELSE positions[r]
    BY <2>1 DEF With
  <2>8. Book(positions')
    BY <2>3, <2>7, SymbolIn DEF EngineTypeOK, Book
  <2>9. Open' /\ DOMAIN positions' \subseteq {Symbol}
    BY <2>7 DEF Open
  <2>10. EngineTypeOK'
    BY <2>1, <2>4, <2>5, <2>8 DEF EngineTypeOK
  <2>11. QED BY <2>1, <2>6, <2>9, <2>10 DEF BacktestOK
<1>3. CASE ~(cash >= BuyCost(order, close))
  BY <1>3 DEF Buy, EngineTypeOK, BacktestOK
<1>4. QED BY <1>2, <1>3

LEMMA NextBarKeeps ==
  ASSUME EngineTypeOK, BacktestOK, driver = "backtest", driver' = driver, NextBar
  PROVE  EngineTypeOK' /\ BacktestOK'
<1>1. PICK close \in Closes : bars' = Append(bars, close)
  BY DEF NextBar
<1>2. /\ phase' = IF Len(bars) < Warmup THEN "next" ELSE "bracket"
      /\ UNCHANGED <<engineVars, strategy, bracket, pnls, curve>>
  BY DEF NextBar
<1>3. bars \in Seq(Closes) /\ curve \in Seq(Int) /\ CurveOK(bars, curve, phase)
  BY DEF BacktestOK
<1>4. bars' \in Seq(Closes) /\ Len(bars') = Len(bars) + 1 /\ bars' # << >> /\ Len(bars) \in Nat
  BY <1>1, <1>3
<1>5. Len(curve) \in Nat /\ (curve = << >> => Len(curve) = 0) /\ Warmup \in Nat
  BY <1>3, BacktestAssumption
<1>6. CurveOK(bars', curve, phase')
  BY <1>2, <1>3, <1>4, <1>5 DEF CurveOK
<1>7. QED BY <1>2, <1>4, <1>6 DEF engineVars, EngineTypeOK, BacktestOK, Open

LEMMA CheckBracketKeeps ==
  ASSUME EngineTypeOK, BacktestOK, driver = "backtest", driver' = driver, CheckBracket
  PROVE  EngineTypeOK' /\ BacktestOK'
<1>1. phase = "bracket" /\ phase' = "value" /\ UNCHANGED <<peak, dropped, strategy, bars, curve>>
  BY DEF CheckBracket
<1>2. CurveOK(bars', curve', phase')
  BY <1>1 DEF BacktestOK, CurveOK
<1>3. CASE Open /\ (HitStop \/ HitTarget)
  <2>1. Sell(RawExit) /\ RawExit \in Nat
    BY <1>3, RawExitNat DEF CheckBracket
  <2>2. /\ EngineTypeOK' /\ DOMAIN positions' = {} /\ pnls' \in Seq(Int) /\ bracket' = NoBracket
    BY <1>1, <1>3, <2>1, SellKeeps
  <2>3. QED BY <1>1, <1>2, <2>2 DEF BacktestOK, NoBracket
<1>4. CASE ~(Open /\ (HitStop \/ HitTarget))
  <2>1. UNCHANGED <<cash, positions, realized, filled, bracket, pnls>>
    BY <1>4 DEF CheckBracket
  <2>2. QED BY <1>1, <1>2, <2>1 DEF EngineTypeOK, BacktestOK, Open
<1>5. QED BY <1>3, <1>4

LEMMA ValueKeeps ==
  ASSUME EngineTypeOK, BacktestOK, driver = "backtest", driver' = driver, Value
  PROVE  EngineTypeOK' /\ BacktestOK'
<1>. DEFINE known == [s \in {Symbol} |-> Close]
            book == MarkedWith(positions, known)
            equity == cash + MarketValue(book)
<1>1. /\ phase = "value" /\ phase' = "decide" /\ positions' = book
      /\ peak' = Max({peak, equity}) /\ curve' = Append(curve, equity)
      /\ UNCHANGED <<cash, realized, filled, dropped, strategy, bars, bracket, pnls>>
  BY DEF Value
<1>2. bars \in Seq(Closes) /\ bars # << >> /\ curve \in Seq(Int) /\ CurveOK(bars, curve, phase)
  BY <1>1 DEF BacktestOK, CurveOK
<1>3. known \in [{Symbol} -> Prices] /\ {Symbol} \in SUBSET Symbols
  BY <1>2, CloseType, SymbolIn
<1>4. Book(book) /\ DOMAIN book = DOMAIN positions
  <2>. HIDE DEF known
  <2>. QED BY <1>3, MarkedBook DEF EngineTypeOK
<1>. HIDE DEF known, book
<1>5. equity \in Int
  BY <1>4, MarketValueInt DEF EngineTypeOK
<1>. HIDE DEF equity
<1>6. peak' \in Int
  BY <1>1, <1>5, PairMax DEF EngineTypeOK
<1>7. CurveOK(bars', curve', phase')
  <2>1. Len(curve') = Len(curve) + 1 /\ Len(curve) \in Nat /\ Len(bars) \in Nat /\ Warmup \in Nat
    BY <1>1, <1>2, <1>5, BacktestAssumption
  <2>2. Len(curve) + Warmup < Len(bars) /\ bars' = bars /\ bars # << >>
    BY <1>1, <1>2 DEF CurveOK
  <2>3. QED BY <1>1, <2>1, <2>2 DEF CurveOK
<1>8. curve' \in Seq(Int)
  BY <1>1, <1>2, <1>5
<1>9. EngineTypeOK'
  BY <1>1, <1>4, <1>6 DEF EngineTypeOK
<1>10. QED BY <1>1, <1>4, <1>7, <1>8, <1>9 DEF BacktestOK, Open

\* What the strategy and the gate make of a bar: nothing, a purchase when there
\* is no position, or the sale of the position, at the close.
LEMMA DecideCases ==
  ASSUME EngineTypeOK, BacktestOK, Decide
  PROVE  /\ Close \in Prices /\ Close \in Nat
         /\ \/ UNCHANGED <<cash, positions, realized, filled, bracket, pnls>>
            \/ ~Open /\ \E size \in Nat : Buy(size, Close)
            \/ Open /\ Sell(Close)
<1>1. bars \in Seq(Closes) /\ bars # << >>
  BY DEF Decide, BacktestOK, CurveOK
<1>2. Close \in Prices /\ Close \in Nat
  BY <1>1, CloseType
<1>. DEFINE snap == BacktestSnap
<1>3. snap.equity = Equity /\ snap.positions = positions
  BY DEF BacktestSnap
<1>4. Equity \in Int /\ Book(positions)
  BY MarketValueInt DEF EngineTypeOK, Equity
<1>5. SUFFICES ASSUME NEW f \in Features,
                      NEW s \in Signals(strategy, Symbol, f, snap), Approved(s, snap, Close),
                      IF s.kind = "LONG" THEN Buy(AdjustedSize(s, snap, Close), Close)
                      ELSE Sell(Close)
               PROVE  \/ ~Open /\ \E size \in Nat : Buy(size, Close)
                      \/ Open /\ Sell(Close)
  BY <1>2 DEF Decide
<1>6. s \in Signal /\ s.symbol = Symbol /\ s.kind \in {"LONG", "FLAT"}
  BY <1>5, SignalsType, SymbolIn
<1>. HIDE DEF snap
<1>7. CASE s.kind = "LONG"
  <2>1. ~Open
    BY <1>3, <1>5, <1>7, EntriesAreNew DEF Open
  <2>2. OrderOf(s, snap, Close) \in Order
    BY <1>2, <1>3, <1>4, <1>5, <1>6, ApprovedOrder
  <2>3. OrderOf(s, snap, Close).size = AdjustedSize(s, snap, Close)
    BY DEF OrderOf
  <2>4. AdjustedSize(s, snap, Close) \in Nat
    BY <2>2, <2>3 DEF Order
  <2>5. QED BY <1>5, <1>7, <2>1, <2>4
<1>8. CASE s.kind = "FLAT"
  <2>1. Open
    BY <1>3, <1>5, <1>6, <1>8 DEF Approved, HeldIn, Open
  <2>2. QED BY <1>5, <1>8, <2>1
<1>9. QED BY <1>6, <1>7, <1>8

LEMMA DecideKeeps ==
  ASSUME EngineTypeOK, BacktestOK, driver = "backtest", driver' = driver, Decide
  PROVE  EngineTypeOK' /\ BacktestOK'
<1>1. /\ phase = "decide" /\ phase' \in {"next", "raised"}
      /\ UNCHANGED <<peak, dropped, strategy, bars, curve>>
  BY DEF Decide
<1>2. CurveOK(bars', curve', phase')
  BY <1>1 DEF BacktestOK, CurveOK
<1>3. CASE UNCHANGED <<cash, positions, realized, filled, bracket, pnls>>
  BY <1>1, <1>2, <1>3 DEF EngineTypeOK, BacktestOK, Open
<1>4. CASE ~Open /\ \E size \in Nat : Buy(size, Close)
  <2>1. PICK size \in Nat : Buy(size, Close)
    BY <1>4
  <2>2. DOMAIN positions \subseteq {Symbol} /\ (Open \/ bracket = NoBracket)
    BY DEF BacktestOK
  <2>3. /\ EngineTypeOK' /\ DOMAIN positions' \subseteq {Symbol} /\ pnls' \in Seq(Int)
        /\ bracket' \in [stop : Nat, target : Nat]
        /\ Open' \/ bracket' = bracket
    BY <1>1, <1>4, <2>1, <2>2, BuyKeeps, DecideCases
  <2>4. Open' \/ bracket' = NoBracket'
    BY <1>4, <2>2, <2>3 DEF NoBracket
  <2>5. QED BY <1>1, <1>2, <2>3, <2>4 DEF BacktestOK
<1>5. CASE Open /\ Sell(Close)
  <2>1. /\ EngineTypeOK' /\ DOMAIN positions' = {} /\ pnls' \in Seq(Int) /\ bracket' = NoBracket
    BY <1>1, <1>5, SellKeeps, DecideCases
  <2>2. QED BY <1>1, <1>2, <2>1 DEF BacktestOK, NoBracket
<1>6. QED BY <1>3, <1>4, <1>5, DecideCases

LEMMA ReportMadeKeeps ==
  ASSUME EngineTypeOK, BacktestOK, driver = "backtest", driver' = driver, Report
  PROVE  EngineTypeOK' /\ BacktestOK'
<1>1. /\ phase' = "reported" /\ bars # << >>
      /\ UNCHANGED <<engineVars, strategy, bars, bracket, pnls, curve>>
  BY DEF Report
<1>2. CurveOK(bars', curve', phase')
  BY <1>1 DEF BacktestOK, CurveOK
<1>3. QED BY <1>1, <1>2 DEF engineVars, EngineTypeOK, BacktestOK, Open

LEMMA BacktestKeeps ==
  ASSUME EngineTypeOK, BacktestOK, driver = "backtest", driver' = driver, BacktestNext
  PROVE  EngineTypeOK' /\ BacktestOK'
BY NextBarKeeps, CheckBracketKeeps, ValueKeeps, DecideKeeps, ReportMadeKeeps DEF BacktestNext

-----------------------------------------------------------------------------
(***************************************************************************)
(* All three drivers.                                                      *)
(***************************************************************************)
DriversInv ==
  /\ driver \in {"pipeline", "backtest", "desk"}
  /\ EngineTypeOK /\ PipelineOK /\ BacktestOK

LEMMA DriversStart == DriversInit => DriversInv
<1>. SUFFICES ASSUME DriversInit PROVE DriversInv
  OBVIOUS
<1>1. /\ driver \in {"pipeline", "backtest", "desk"} /\ EngineInit
      /\ PipelineInit /\ BacktestInit
  BY DEF DriversInit
<1>2. EngineTypeOK /\ DOMAIN positions = {}
  BY <1>1, InitType DEF EngineInit
<1>3. \A s \in Symbols : Len(buffers[s]) <= BufferCap
  BY <1>1, PipelineAssumption DEF PipelineInit
<1>4. PipelineOK
  BY <1>1, <1>3 DEF PipelineInit, PipelineOK, BuffersOK, QueueOK, WorkingOK
<1>5. CurveOK(bars, curve, phase) /\ bracket \in [stop : Nat, target : Nat]
  BY <1>1 DEF BacktestInit, CurveOK, NoBracket
<1>6. BacktestOK
  BY <1>1, <1>2, <1>5 DEF BacktestInit, BacktestOK
<1>7. QED BY <1>1, <1>2, <1>4, <1>6 DEF DriversInv

\* The variables of a driver that does not run.
LEMMA PipelineIdle ==
  ASSUME PipelineOK, driver # "pipeline", UNCHANGED <<pipelineVars, driver>> PROVE PipelineOK'
<1>1. queue = << >> /\ working = << >> /\ queue' = << >> /\ working' = << >>
  BY DEF PipelineOK, pipelineVars
<1>2. BuffersOK'
  BY DEF PipelineOK, BuffersOK, pipelineVars
<1>3. QED BY <1>1, <1>2 DEF PipelineOK, QueueOK, WorkingOK

LEMMA BacktestIdle ==
  ASSUME BacktestOK, driver # "backtest", UNCHANGED <<backtestVars, driver>> PROVE BacktestOK'
BY DEF BacktestOK, backtestVars

LEMMA DriversKeep == DriversInv /\ [DriversNext]_driverVars => DriversInv'
<1>. SUFFICES ASSUME DriversInv, [DriversNext]_driverVars PROVE DriversInv'
  OBVIOUS
<1>1. CASE driver = "pipeline" /\ PipelineNext /\ UNCHANGED <<backtestVars, deskVars, driver>>
  BY <1>1, PipelineKeeps, BacktestIdle DEF DriversInv
<1>2. CASE driver = "backtest" /\ BacktestNext /\ UNCHANGED <<pipelineVars, deskVars, driver>>
  BY <1>2, BacktestKeeps, PipelineIdle DEF DriversInv
<1>3. CASE driver = "desk" /\ DeskNext /\ UNCHANGED <<pipelineVars, backtestVars, driver>>
  <2>1. UNCHANGED engineVars
    BY <1>3 DEF DeskNext, Perceive, Analyze, Govern
  <2>2. EngineTypeOK'
    BY <2>1 DEF engineVars, DriversInv, EngineTypeOK
  <2>3. QED BY <1>3, <2>2, PipelineIdle, BacktestIdle DEF DriversInv
<1>4. CASE UNCHANGED driverVars
  <2>1. UNCHANGED <<engineVars, queue, buffers, fed, working, driver>>
    BY <1>4 DEF driverVars, pipelineVars
  <2>2. EngineTypeOK' /\ PipelineOK'
    BY <2>1, PipelineSame DEF DriversInv
  <2>3. BacktestOK'
    BY <1>4 DEF driverVars, engineVars, backtestVars, DriversInv, BacktestOK, Open
  <2>4. QED BY <2>1, <2>2, <2>3 DEF DriversInv
<1>5. QED BY <1>1, <1>2, <1>3, <1>4 DEF DriversNext

LEMMA DriversTyped == DriversInv => DriversTypeOK
<1>. SUFFICES ASSUME DriversInv PROVE DriversTypeOK
  OBVIOUS
<1>1. \A s \in Symbols : Len(buffers[s]) <= BufferCap /\ Range(fed[s]) \subseteq Candle
  <2>1. ASSUME NEW s \in Symbols PROVE Range(fed[s]) \subseteq Candle
    <3>1. fed[s] \in Seq(Candles)
      BY DEF DriversInv, PipelineOK, BuffersOK
    <3>2. QED BY <3>1, PipelineAssumption DEF Range
  <2>2. QED BY <2>1 DEF DriversInv, PipelineOK, BuffersOK
<1>2. \A i \in DOMAIN queue :
        queue[i].kind = "signal" => queue[i].signal \in Signal /\ queue[i].born <= Len(filled)
  <2>1. ASSUME NEW i \in DOMAIN queue, queue[i].kind = "signal"
        PROVE  queue[i].signal \in Signal /\ queue[i].born <= Len(filled)
    <3>. DEFINE T == EventsIn(buffers, Len(filled), DOMAIN positions)
    <3>1. queue \in Seq(T)
      BY DEF DriversInv, PipelineOK, QueueOK
    <3>2. queue[i] \in T
      <4>. HIDE DEF T
      <4>. QED BY <3>1
    <3>3. queue[i].signal \in Signal /\ queue[i].born \in 0 .. Len(filled)
      BY <2>1, <3>2 DEF EventsIn
    <3>4. QED BY <3>3
  <2>2. QED BY <2>1
<1>3. Len(working) <= 1
  <2>1. working = << >> \/ \E work : working = <<work>>
    BY DEF DriversInv, PipelineOK, WorkingOK
  <2>2. Len(<< >>) = 0 /\ \A work : Len(<<work>>) = 1
    OBVIOUS
  <2>3. Len(working) = 0 \/ Len(working) = 1
    BY <2>1, <2>2, Zenon
  <2>4. 0 <= 1 /\ 1 <= 1
    OBVIOUS
  <2>5. QED BY <2>3, <2>4, Zenon
<1>4. Len(curve) + Warmup <= Max({Len(bars), Warmup})
  <2>1. Len(bars) \in Nat /\ Warmup \in Nat /\ Len(curve) \in Nat
    BY BacktestAssumption DEF DriversInv, BacktestOK
  <2>2. curve = << >> \/ Len(curve) + Warmup <= Len(bars)
    BY DEF DriversInv, BacktestOK, CurveOK
  <2>3. /\ Max({Len(bars), Warmup}) \in Int /\ Len(bars) <= Max({Len(bars), Warmup})
        /\ Warmup <= Max({Len(bars), Warmup})
    <3>1. Len(bars) \in Int /\ Warmup \in Int
      BY <2>1
    <3>2. QED BY <3>1, PairMax, Zenon
  <2>4. CASE curve = << >>
    <3>1. Len(curve) = 0
      BY <2>4
    <3>2. QED BY <2>1, <2>3, <3>1
  <2>5. CASE Len(curve) + Warmup <= Len(bars)
    BY <2>1, <2>3, <2>5
  <2>6. QED BY <2>2, <2>4, <2>5
<1>5. QED BY <1>1, <1>2, <1>3, <1>4 DEF DriversTypeOK, DriversInv, BacktestOK

\* The three drivers keep their types, whatever comes in.
THEOREM DriversTypeCorrect == DriversSpec => []DriversTypeOK
BY DriversStart, DriversKeep, DriversTyped, PTL DEF DriversSpec

\* The pipeline sees a fresh snapshot with every signal.
THEOREM FreshSnapshotHolds == DriversSpec => FreshSnapshot
<1>1. DriversInv /\ [DriversNext]_driverVars =>
        [ driver = "pipeline" /\ working # << >> /\ working' = << >> =>
            LET order == working[1].order
                price == working[1].price
            IN  IF order.side = "SELL"
                THEN Fills("SELL", order.symbol) /\ order.symbol \notin DOMAIN positions'
                ELSE Fills("BUY", order.symbol) =>
                       (Allocated([positions |-> positions]) + order.size * price * Scale) * PctDen
                         <= MaxExposure * (Equity + Cent) + PctDen * price * Scale
        ]_driverVars
  BY PipelineFresh DEF DriversInv, DriversNext
<1>2. QED BY <1>1, DriversStart, DriversKeep, PTL DEF DriversSpec, FreshSnapshot

\* It adds to a position only with a signal that is older than some fill.
THEOREM StaleEntryHolds == DriversSpec => StaleEntry
<1>1. DriversInv /\ [DriversNext]_driverVars =>
        [ driver = "pipeline" /\ (\E s \in DOMAIN positions : Fills("BUY", s))
            => working[1].born < Len(filled) ]_driverVars
  BY PipelineStale DEF DriversInv, DriversNext
<1>2. QED BY <1>1, DriversStart, DriversKeep, PTL DEF DriversSpec, StaleEntry

-----------------------------------------------------------------------------
(***************************************************************************)
(* The exits of a backtest.  A bracket that is set lies around the price it*)
(* was set at, and a position that is still open after the check of its    *)
(* bracket is inside it.                                                   *)
(***************************************************************************)
BracketInv ==
  driver = "backtest" =>
    /\ bracket.stop <= bracket.target
    /\ phase \in {"value", "decide"} /\ Open => ~HitStop /\ ~HitTarget

LEMMA RoundDivGrows ==
  ASSUME NEW a \in Int, NEW b \in Int, a <= b, NEW d \in Nat \ {0}
  PROVE  RoundDiv(a, d) <= RoundDiv(b, d)
<1>. DEFINE x == 2 * a + d
            y == 2 * b + d
            e == 2 * d
<1>1. x \in Int /\ y \in Int /\ x <= y /\ e \in Nat \ {0}
  OBVIOUS
<1>2. x \div e \in Int /\ y \div e \in Int /\ e * (x \div e) <= x /\ y < e * (y \div e) + e
  <2>. HIDE DEF x, y, e
  <2>. QED BY <1>1
<1>. DEFINE p == x \div e
            q == y \div e
<1>3. RoundDiv(a, d) = p /\ RoundDiv(b, d) = q
  BY DEF RoundDiv
<1>. HIDE DEF x, y, e
<1>4. p \in Int /\ q \in Int /\ e * p <= x /\ y < e * q + e
  BY <1>2
<1>. HIDE DEF p, q
<1>5. SUFFICES ASSUME p >= q + 1 PROVE FALSE
  BY <1>3, <1>4
<1>6. e * (q + 1) <= e * p
  <2>1. \A k \in Nat, u \in Int, v \in Int : u <= v => k * u <= k * v
    OBVIOUS
  <2>2. QED BY <1>1, <1>4, <1>5, <2>1
<1>7. e * (q + 1) = e * q + e /\ e * q \in Int /\ e * p \in Int
  BY <1>1, <1>4
<1>8. QED BY <1>1, <1>4, <1>6, <1>7

LEMMA BracketOrdered ==
  ASSUME strategy \in 1 .. NumStrategies, NEW close \in Nat
  PROVE  BracketOf(close).stop <= BracketOf(close).target
<1>. DEFINE low == StopPct[strategy]
            high == TargetPct[strategy]
            unit == 100 * BracketUnit
<1>1. low \in Nat /\ high \in Nat /\ low <= high /\ BracketUnit \in Nat \ {0} /\ unit \in Nat \ {0}
  BY BacktestAssumption
<1>2. close * low \in Nat /\ close * high \in Nat /\ close * low <= close * high
  BY <1>1, ProductNat, TimesGrows
<1>3. /\ RoundDiv(close * low, unit) \in Nat /\ RoundDiv(close * high, unit) \in Nat
      /\ RoundDiv(close * low, unit) <= RoundDiv(close * high, unit)
  <2>. DEFINE x == close * low
              y == close * high
  <2>. HIDE DEF unit
  <2>1. x \in Nat /\ y \in Nat /\ x <= y
    BY <1>2
  <2>. HIDE DEF x, y
  <2>2. RoundDiv(x, unit) \in Nat /\ RoundDiv(y, unit) \in Nat
    BY <1>1, <2>1, RoundDivType
  <2>3. RoundDiv(x, unit) <= RoundDiv(y, unit)
    BY <1>1, <2>1, RoundDivGrows
  <2>4. QED BY <2>2, <2>3 DEF x, y
<1>4. Bracket(close, low) <= Bracket(close, high)
  <2>. DEFINE a == RoundDiv(close * low, unit)
              b == RoundDiv(close * high, unit)
  <2>1. Bracket(close, low) = a * BracketUnit /\ Bracket(close, high) = b * BracketUnit
    BY DEF Bracket
  <2>. HIDE DEF a, b
  <2>2. a \in Nat /\ b \in Nat /\ a <= b
    BY <1>3 DEF a, b
  <2>3. BracketUnit * a <= BracketUnit * b
    BY <1>1, <2>2, TimesGrows
  <2>4. a * BracketUnit = BracketUnit * a /\ b * BracketUnit = BracketUnit * b
    BY <1>1, <2>2
  <2>5. QED BY <2>1, <2>3, <2>4
<1>5. QED BY <1>4 DEF BracketOf

\* Slippage keeps the order of prices.
LEMMA SoldPriceGrows ==
  ASSUME NEW p \in Nat, NEW q \in Nat, p <= q
  PROVE  FillPrice("SELL", p) <= FillPrice("SELL", q)
<1>. DEFINE k == SlipDen - Slip
<1>1. k \in Nat
  BY EngineAssumption
<1>2. FillPrice("SELL", p) = p * k /\ FillPrice("SELL", q) = q * k
  BY DEF FillPrice
<1>. HIDE DEF k
<1>3. k * p <= k * q
  BY <1>1, TimesGrows
<1>4. k * p = p * k /\ k * q = q * k
  BY <1>1
<1>5. QED BY <1>2, <1>3, <1>4

LEMMA BracketStart == DriversInit => BracketInv
<1>. SUFFICES ASSUME DriversInit PROVE BracketInv
  OBVIOUS
<1>1. bracket = NoBracket /\ phase = "next"
  BY DEF DriversInit, BacktestInit
<1>2. bracket.stop <= bracket.target
  BY <1>1 DEF NoBracket
<1>3. QED BY <1>1, <1>2 DEF BracketInv

LEMMA BracketKeeps ==
  ASSUME EngineTypeOK, BacktestOK, BracketInv, driver = "backtest", driver' = driver, BacktestNext
  PROVE  BracketInv'
<1>0. bracket.stop <= bracket.target
  BY DEF BracketInv
<1>1. NoBracket.stop <= NoBracket.target
  BY DEF NoBracket
<1>2. CASE NextBar
  BY <1>0, <1>2 DEF NextBar, BracketInv
<1>3. CASE CheckBracket
  <2>1. phase' = "value" /\ UNCHANGED bars
    BY <1>3 DEF CheckBracket
  <2>2. CASE Open /\ (HitStop \/ HitTarget)
    <3>1. bracket' = NoBracket /\ positions' = << >>
      BY <1>3, <2>2 DEF CheckBracket, Sell
    <3>2. ~Open'
      BY <3>1 DEF Open
    <3>3. QED BY <1>1, <3>1, <3>2 DEF BracketInv
  <2>3. CASE ~(Open /\ (HitStop \/ HitTarget))
    <3>1. UNCHANGED <<positions, bracket>>
      BY <1>3, <2>3 DEF CheckBracket
    <3>2. QED BY <1>0, <2>1, <2>3, <3>1 DEF BracketInv, Open, HitStop, HitTarget, Close
  <2>4. QED BY <2>2, <2>3
<1>4. CASE Value
  <2>1. phase = "value" /\ UNCHANGED <<bars, bracket>>
    BY <1>4 DEF Value
  <2>2. Open' <=> Open
    BY <1>4 DEF Value, MarkedWith, Open
  <2>3. QED BY <1>0, <2>1, <2>2 DEF BracketInv, HitStop, HitTarget, Close
<1>5. CASE Decide
  <2>1. phase' \in {"next", "raised"}
    BY <1>5 DEF Decide
  <2>2. SUFFICES bracket'.stop <= bracket'.target
    BY <2>1 DEF BracketInv
  <2>3. CASE UNCHANGED bracket
    BY <1>0, <2>3
  <2>4. ASSUME NEW size \in Nat, Buy(size, Close) PROVE bracket'.stop <= bracket'.target
    <3>1. bracket' = BracketOf(Close) \/ bracket' = bracket
      BY <2>4 DEF Buy
    <3>2. Close \in Nat
      BY <1>5, DecideCases
    <3>3. BracketOf(Close).stop <= BracketOf(Close).target
      BY <3>2, BracketOrdered DEF BacktestOK
    <3>4. QED BY <1>0, <3>1, <3>3
  <2>5. CASE Sell(Close)
    BY <1>1, <2>5 DEF Sell
  <2>6. QED BY <1>5, <2>3, <2>4, <2>5, DecideCases
<1>6. CASE Report
  <2>1. phase' = "reported" /\ UNCHANGED <<engineVars, bars, bracket>>
    BY <1>6 DEF Report
  <2>2. QED BY <1>0, <2>1 DEF BracketInv, engineVars
<1>7. QED BY <1>2, <1>3, <1>4, <1>5, <1>6 DEF BacktestNext

\* The price a position was sold at.
LEMMA SoldAt ==
  ASSUME EngineTypeOK, NEW price, Sell(price)
  PROVE  Last(filled').paid = FillPrice("SELL", price)
<1>. DEFINE fill == [symbol |-> Symbol, side |-> "SELL", size |-> positions[Symbol].size,
                     paid |-> FillPrice("SELL", price),
                     commission |-> Commission("SELL", positions[Symbol].size, price)]
<1>1. filled' = Append(filled, fill) /\ filled \in Seq(Fill)
  BY DEF Sell, Record, EngineTypeOK
<1>2. fill.paid = FillPrice("SELL", price)
  OBVIOUS
<1>. HIDE DEF fill
<1>3. Last(filled') = fill
  BY <1>1 DEF Last
<1>4. QED BY <1>2, <1>3

LEMMA BracketExits ==
  ASSUME EngineTypeOK, BacktestOK, BracketInv, driver = "backtest", BacktestNext,
         Fills("SELL", Symbol)
  PROVE  LET paid == Last(filled').paid
         IN  /\ bracket.stop # 0 => paid >= FillPrice("SELL", bracket.stop)
             /\ bracket.target # 0 => paid <= FillPrice("SELL", bracket.target)
<1>0. bracket.stop <= bracket.target /\ bracket.stop \in Nat /\ bracket.target \in Nat
  BY DEF BracketInv, BacktestOK
<1>. DEFINE Got == Last(filled').paid
            low == FillPrice("SELL", bracket.stop)
            high == FillPrice("SELL", bracket.target)
<1>1. SUFFICES ASSUME NEW price \in Nat, Sell(price),
                      bracket.stop # 0 => bracket.stop <= price,
                      bracket.target # 0 => price <= bracket.target
               PROVE  /\ bracket.stop # 0 => Got >= low
                      /\ bracket.target # 0 => Got <= high
  <2>1. Len(filled') # Len(filled)
    BY FilledType DEF Fills
  <2>2. CASE CheckBracket
    <3>1. Open /\ (HitStop \/ HitTarget) /\ Sell(RawExit)
      BY <2>1, <2>2 DEF CheckBracket
    <3>2. RawExit \in Nat
      BY <3>1, RawExitNat
    <3>3. CASE HitStop
      BY <1>0, <1>1, <3>1, <3>2, <3>3 DEF RawExit
    <3>4. CASE ~HitStop
      BY <1>0, <1>1, <3>1, <3>2, <3>4 DEF RawExit
    <3>5. QED BY <3>3, <3>4
  <2>3. CASE Decide
    <3>1. ~(\E size : Buy(size, Close))
      <4>1. SUFFICES ASSUME NEW size, Buy(size, Close) PROVE FALSE
        OBVIOUS
      <4>2. Record([symbol |-> Symbol, side |-> "BUY", size |-> size], Close) \/ filled' = filled
        BY <4>1 DEF Buy
      <4>3. Last(filled').side = "BUY"
        BY <2>1, <4>2 DEF Record, Last, EngineTypeOK
      <4>4. QED BY <4>3 DEF Fills
    <3>2. Open /\ Sell(Close) /\ Close \in Nat
      BY <2>1, <2>3, <3>1, DecideCases
    <3>3. ~HitStop /\ ~HitTarget
      BY <2>3, <3>2 DEF Decide, BracketInv
    <3>4. /\ bracket.stop # 0 => bracket.stop <= Close
          /\ bracket.target # 0 => Close <= bracket.target
      BY <1>0, <3>2, <3>3 DEF HitStop, HitTarget
    <3>5. QED BY <1>1, <3>2, <3>4
  <2>4. CASE NextBar \/ Value \/ Report
    BY <2>1, <2>4 DEF NextBar, Value, Report, engineVars
  <2>5. QED BY <2>2, <2>3, <2>4 DEF BacktestNext
<1>2. Got = FillPrice("SELL", price)
  BY <1>1, SoldAt
<1>3. /\ bracket.stop # 0 => low <= FillPrice("SELL", price)
      /\ bracket.target # 0 => FillPrice("SELL", price) <= high
  BY <1>0, <1>1, SoldPriceGrows
<1>4. FillPrice("SELL", price) \in Nat /\ low \in Nat /\ high \in Nat
  BY <1>0, FillPriceNat
<1>. HIDE DEF Got, low, high
<1>5. QED BY <1>2, <1>3, <1>4

\* However far the close has jumped, a position is sold within its bracket.
THEOREM ExitsInBracketHolds == DriversSpec => ExitsInBracket
<1>1. DriversInv /\ BracketInv /\ [DriversNext]_driverVars => BracketInv'
  <2>. SUFFICES ASSUME DriversInv, BracketInv, [DriversNext]_driverVars PROVE BracketInv'
    OBVIOUS
  <2>1. CASE driver = "backtest" /\ BacktestNext /\ UNCHANGED <<pipelineVars, deskVars, driver>>
    BY <2>1, BracketKeeps DEF DriversInv
  <2>2. CASE driver # "backtest" /\ UNCHANGED driver
    BY <2>2 DEF BracketInv
  <2>3. CASE UNCHANGED driverVars
    BY <2>3 DEF driverVars, engineVars, backtestVars, BracketInv, Open, HitStop, HitTarget, Close
  <2>4. QED BY <2>1, <2>2, <2>3 DEF DriversNext
<1>2. DriversInv /\ BracketInv /\ [DriversNext]_driverVars =>
        [ driver = "backtest" /\ Fills("SELL", Symbol) =>
            LET paid == Last(filled').paid
            IN  /\ bracket.stop # 0 => paid >= FillPrice("SELL", bracket.stop)
                /\ bracket.target # 0 => paid <= FillPrice("SELL", bracket.target)
        ]_driverVars
  BY BracketExits DEF DriversInv, DriversNext
<1>3. QED BY <1>1, <1>2, DriversStart, DriversKeep, BracketStart, PTL DEF DriversSpec, ExitsInBracket

-----------------------------------------------------------------------------
(***************************************************************************)
(* What the report of a backtest adds up to.  Cash is what is left of the  *)
(* capital and the pnl when the open position and the commissions of the   *)
(* purchases are paid.  The curve ends, once the bar is valued, with what  *)
(* the account is worth, and after the decision with what that fill cost   *)
(* on top of it.                                                           *)
(***************************************************************************)
Sales(fills) == {i \in DOMAIN fills : fills[i].side = "SELL"}

SaleFee(fill) == IF fill.side = "SELL" THEN fill.commission ELSE 0

CashAddsUp == cash = InitialCash + SumFunction(pnls) - Invested - (Fees - SellFees)

\* What the curve says the account is worth.
CurveEnd == IF curve = << >> THEN InitialCash ELSE Last(curve)

CurveAddsUp ==
  /\ phase = "decide" =>
       /\ curve # << >> /\ Last(curve) = Equity /\ valued = Len(filled)
       /\ Open => positions[Symbol].mark = Close * SlipDen
  /\ phase \in {"next", "reported"} => LateCost \in Int /\ CurveEnd = Equity + LateCost
  /\ phase = "next" /\ curve = << >> => valued = Len(filled)

ReportInv ==
  driver = "backtest" =>
    /\ Len(pnls) = Cardinality(Sales(filled))
    /\ CashAddsUp
    /\ CurveAddsUp

\* A sum over a sequence grows by what is appended.
LEMMA SumNext ==
  ASSUME NEW n \in Nat, NEW f \in [1 .. n -> Int], NEW g \in [1 .. (n + 1) -> Int],
         \A i \in 1 .. n : g[i] = f[i]
  PROVE  SumFunction(f) \in Int /\ SumFunction(g) = SumFunction(f) + g[n + 1]
<1>1. 1 .. (n + 1) = (1 .. n) \cup {n + 1} /\ n + 1 \notin 1 .. n
  OBVIOUS
<1>2. IsFiniteSet(1 .. n)
  BY FS_Interval
<1>3. SumFunction(f) \in Int
  BY <1>2, SumType
<1>4. g \in [(1 .. n) \cup {n + 1} -> Int]
  BY <1>1
<1>5. SumFunction(g) = SumFunction(f) + g[n + 1]
  <2>1. \A F \in [1 .. n -> Int], G \in [(1 .. n) \cup {n + 1} -> Int] :
           (\A i \in 1 .. n : G[i] = F[i]) => SumFunction(G) = SumFunction(F) + G[n + 1]
    BY <1>1, <1>2, SumExtend, ZenonT(30)
  <2>2. QED BY <1>4, <2>1
<1>6. QED BY <1>3, <1>5

LEMMA SumAppend ==
  ASSUME NEW seq \in Seq(Int), NEW x \in Int
  PROVE  SumFunction(seq) \in Int /\ SumFunction(Append(seq, x)) = SumFunction(seq) + x
<1>. DEFINE n == Len(seq)
            longer == Append(seq, x)
<1>1. /\ n \in Nat /\ seq \in [1 .. n -> Int] /\ longer \in [1 .. (n + 1) -> Int]
      /\ \A i \in 1 .. n : longer[i] = seq[i]
      /\ longer[n + 1] = x
  <2>1. longer \in Seq(Int) /\ Len(longer) = n + 1 /\ n \in Nat
    OBVIOUS
  <2>2. longer \in [1 .. (n + 1) -> Int] /\ seq \in [1 .. n -> Int]
    <3>. HIDE DEF longer
    <3>. QED BY <2>1
  <2>3. (\A i \in 1 .. n : longer[i] = seq[i]) /\ longer[n + 1] = x
    OBVIOUS
  <2>4. QED BY <2>1, <2>2, <2>3
<1>. HIDE DEF n, longer
<1>2. SumFunction(seq) \in Int /\ SumFunction(longer) = SumFunction(seq) + longer[n + 1]
  BY <1>1, SumNext
<1>3. QED BY <1>1, <1>2 DEF longer

\* One more fill adds to the sales and their commissions when it is a sale.
LEMMA SalesGrow ==
  ASSUME EngineTypeOK, NEW fill \in Fill, filled' = Append(filled, fill)
  PROVE  /\ Cardinality(Sales(filled')) =
              Cardinality(Sales(filled)) + IF fill.side = "SELL" THEN 1 ELSE 0
         /\ SellFees \in Int /\ SellFees' = SellFees + SaleFee(fill)
<1>. DEFINE n == Len(filled)
            S == Sales(filled)
<1>1. n \in Nat /\ filled \in Seq(Fill)
  BY DEF EngineTypeOK
<1>2. /\ DOMAIN filled = 1 .. n /\ DOMAIN filled' = 1 .. (n + 1)
      /\ \A i \in 1 .. n : filled'[i] = filled[i]
      /\ filled'[n + 1] = fill
  BY <1>1
<1>3. S \in SUBSET (1 .. n) /\ n + 1 \notin S /\ IsFiniteSet(S)
  <2>1. S \in SUBSET (1 .. n)
    BY <1>2 DEF Sales
  <2>2. IsFiniteSet(1 .. n) /\ n + 1 \notin 1 .. n
    BY <1>1, FS_Interval
  <2>. HIDE DEF S, n
  <2>3. QED BY <2>1, <2>2, FS_Subset
<1>4. Sales(filled') = IF fill.side = "SELL" THEN S \cup {n + 1} ELSE S
  <2>1. 1 .. (n + 1) = (1 .. n) \cup {n + 1}
    BY <1>1
  <2>2. QED BY <1>2, <2>1 DEF Sales
<1>5. Cardinality(S) \in Nat
  BY <1>3, FS_CardinalityType
<1>6. Cardinality(Sales(filled')) = Cardinality(S) + IF fill.side = "SELL" THEN 1 ELSE 0
  <2>. HIDE DEF S
  <2>1. Cardinality(S \cup {n + 1}) = Cardinality(S) + 1
    BY <1>3, FS_AddElement
  <2>2. QED BY <1>4, <1>5, <2>1
<1>. DEFINE f == [i \in 1 .. n |-> SaleFee(filled[i])]
            g == [i \in 1 .. (n + 1) |-> SaleFee(filled'[i])]
<1>7. f \in [1 .. n -> Int] /\ g \in [1 .. (n + 1) -> Int]
  <2>1. \A x \in Fill : SaleFee(x) \in Int
    BY DEF Fill, SaleFee
  <2>2. \A i \in 1 .. n : filled[i] \in Fill
    BY <1>1
  <2>3. \A i \in 1 .. (n + 1) : filled'[i] \in Fill
    BY <1>1, <1>2, <2>2
  <2>4. QED BY <2>1, <2>2, <2>3
<1>8. SellFees = SumFunction(f) /\ SellFees' = SumFunction(g)
  BY <1>2 DEF SellFees, SaleFee
<1>9. (\A i \in 1 .. n : g[i] = f[i]) /\ g[n + 1] = SaleFee(fill)
  BY <1>1, <1>2
<1>. HIDE DEF f, g
<1>10. SumFunction(f) \in Int /\ SumFunction(g) = SumFunction(f) + g[n + 1]
  BY <1>1, <1>7, <1>9, SumNext
<1>11. QED BY <1>6, <1>8, <1>9, <1>10

\* The fill a sale or a purchase of the backtest records.
LEMMA Recorded ==
  ASSUME EngineTypeOK, NEW order \in Order, NEW price \in Nat, Record(order, price)
  PROVE  \E fill \in Fill :
           /\ filled' = Append(filled, fill) /\ fill.side = order.side
           /\ fill.size = order.size /\ fill.paid = FillPrice(order.side, price)
           /\ fill.commission = Commission(order.side, order.size, price)
           /\ fill.commission \in Int
<1>. DEFINE fill == [symbol |-> order.symbol, side |-> order.side, size |-> order.size,
                     paid |-> FillPrice(order.side, price),
                     commission |-> Commission(order.side, order.size, price)]
<1>1. order.symbol \in Symbols /\ order.size \in Nat /\ order.side \in {"BUY", "SELL"}
  BY DEF Order
<1>2. FillPrice(order.side, price) \in Nat /\ Commission(order.side, order.size, price) \in Nat
  BY <1>1, FillPriceNat, ValueNat
<1>3. fill \in Fill
  BY <1>1, <1>2 DEF Fill
<1>4. filled' = Append(filled, fill)
  BY DEF Record
<1>5. /\ fill.side = order.side /\ fill.size = order.size
      /\ fill.paid = FillPrice(order.side, price)
      /\ fill.commission = Commission(order.side, order.size, price)
  OBVIOUS
<1>. HIDE DEF fill
<1>6. QED BY <1>2, <1>3, <1>4, <1>5

LEMMA OthersCostNothing ==
  ASSUME NEW book, DOMAIN book \subseteq {Symbol}
  PROVE  \A r \in Symbols \ {Symbol} : PositionCost(book, r) = 0
BY DEF PositionCost

LEMMA SellReports ==
  ASSUME EngineTypeOK, EngineTypeOK', BacktestOK, Open, DOMAIN positions \subseteq {Symbol},
         NEW price \in Nat, Sell(price),
         Len(pnls) = Cardinality(Sales(filled)), CashAddsUp
  PROVE  Len(pnls') = Cardinality(Sales(filled')) /\ CashAddsUp'
<1>. DEFINE held == positions[Symbol]
            order == [symbol |-> Symbol, side |-> "SELL", size |-> held.size]
            value == TradeValue("SELL", held.size, price)
            fee == Commission("SELL", held.size, price)
<1>1. held.size \in Nat /\ held.cost \in Nat
  BY DEF Open, EngineTypeOK, Book, Position
<1>2. value \in Nat /\ fee \in Nat
  BY <1>1, ValueNat
<1>3. /\ cash' = cash + (value - fee)
      /\ pnls' = Append(pnls, value - fee - held.cost)
      /\ positions' = << >> /\ Record(order, price)
  BY DEF Sell, Proceeds
<1>4. order \in Order /\ order.side = "SELL" /\ order.size = held.size
  BY <1>1, SymbolIn DEF Order
<1>5. PositionCost(positions, Symbol) = held.cost /\ PositionCost(positions', Symbol) = 0
  BY <1>3 DEF Open, PositionCost
<1>6. \A r \in Symbols \ {Symbol} : PositionCost(positions', r) = PositionCost(positions, r)
  BY <1>3, OthersCostNothing, SMTT(30)
<1>. HIDE DEF held, value, order, fee
<1>7. PICK fill \in Fill :
        /\ filled' = Append(filled, fill) /\ fill.side = "SELL"
        /\ fill.commission = fee /\ fill.commission \in Int
  BY <1>3, <1>4, Recorded DEF fee
<1>8. Invested \in Int /\ Invested' = Invested - held.cost
  BY <1>5, <1>6, InvestedMoves, SymbolIn, <1>1
<1>9. Fees \in Int /\ Fees' = Fees + fee
  BY <1>7, FeesGrow
<1>10. /\ SellFees \in Int /\ SellFees' = SellFees + fee
       /\ Cardinality(Sales(filled')) = Cardinality(Sales(filled)) + 1
  BY <1>7, SalesGrow DEF SaleFee
<1>11. pnls \in Seq(Int) /\ value - fee - held.cost \in Int
  BY <1>1, <1>2 DEF BacktestOK
<1>12. /\ SumFunction(pnls) \in Int
       /\ SumFunction(pnls') = SumFunction(pnls) + (value - fee - held.cost)
  BY <1>3, <1>11, SumAppend
<1>13. Len(pnls') = Len(pnls) + 1
  BY <1>3, <1>11
<1>14. cash = InitialCash + SumFunction(pnls) - Invested - (Fees - SellFees)
  BY DEF CashAddsUp
<1>15. InitialCash \in Int
  BY EngineAssumption
<1>16. CashAddsUp'
  <2>. DEFINE sum == SumFunction(pnls)
  <2>1. sum \in Int /\ SumFunction(pnls') = sum + (value - fee - held.cost)
    BY <1>12
  <2>2. cash = InitialCash + sum - Invested - (Fees - SellFees)
    BY <1>14
  <2>. HIDE DEF sum
  <2>3. cash' = InitialCash + SumFunction(pnls') - Invested' - (Fees' - SellFees')
    BY <1>1, <1>2, <1>3, <1>8, <1>9, <1>10, <1>15, <2>1, <2>2, SMTT(30)
  <2>4. QED BY <2>3 DEF CashAddsUp
<1>17. QED BY <1>10, <1>13, <1>16

LEMMA BuyReports ==
  ASSUME EngineTypeOK, EngineTypeOK', BacktestOK, ~Open, DOMAIN positions \subseteq {Symbol},
         NEW size \in Nat, NEW close \in Nat, Buy(size, close),
         Len(pnls) = Cardinality(Sales(filled)), CashAddsUp
  PROVE  Len(pnls') = Cardinality(Sales(filled')) /\ CashAddsUp'
<1>. DEFINE order == [symbol |-> Symbol, side |-> "BUY", size |-> size]
            value == TradeValue("BUY", size, close)
            fee == Commission("BUY", size, close)
            new == [size |-> size, cost |-> value, mark |-> FillPrice("BUY", close)]
<1>1. value \in Nat /\ fee \in Nat
  BY ValueNat
<1>2. order \in Order /\ order.side = "BUY" /\ order.size = size /\ new.cost = value
  BY SymbolIn DEF Order
<1>3. CASE cash >= BuyCost(order, close)
  <2>1. /\ cash' = cash - (value + fee) /\ pnls' = pnls
        /\ positions' = With(positions, Symbol, new) /\ Record(order, close)
    BY <1>3 DEF Buy, BuyCost
  <2>. HIDE DEF order, value, fee, new
  <2>2. /\ DOMAIN positions' = DOMAIN positions \cup {Symbol}
        /\ positions'[Symbol] = new
    BY <2>1 DEF With
  <2>3. PositionCost(positions, Symbol) = 0 /\ PositionCost(positions', Symbol) = value
    BY <1>2, <2>2 DEF Open, PositionCost
  <2>4. \A r \in Symbols \ {Symbol} : PositionCost(positions', r) = PositionCost(positions, r)
    BY <2>2, OthersCostNothing
  <2>5. PICK fill \in Fill :
          /\ filled' = Append(filled, fill) /\ fill.side = "BUY"
          /\ fill.commission = fee /\ fill.commission \in Int
    BY <1>2, <2>1, Recorded DEF fee
  <2>6. Invested \in Int /\ Invested' = Invested + value
    BY <1>1, <2>3, <2>4, InvestedMoves, SymbolIn
  <2>7. Fees \in Int /\ Fees' = Fees + fee
    BY <2>5, FeesGrow
  <2>8. /\ SellFees \in Int /\ SellFees' = SellFees + 0
        /\ Cardinality(Sales(filled')) = Cardinality(Sales(filled)) + 0
    BY <2>5, SalesGrow DEF SaleFee
  <2>9. SumFunction(pnls) \in Int /\ Len(pnls) \in Nat
    BY SumAppend DEF BacktestOK
  <2>10. InitialCash \in Int
    BY EngineAssumption
  <2>11. cash = InitialCash + SumFunction(pnls) - Invested - (Fees - SellFees)
    BY DEF CashAddsUp
  <2>12. CashAddsUp'
    <3>. DEFINE sum == SumFunction(pnls)
    <3>1. sum \in Int /\ SumFunction(pnls') = sum
      BY <2>1, <2>9
    <3>2. cash = InitialCash + sum - Invested - (Fees - SellFees)
      BY <2>11
    <3>. HIDE DEF sum
    <3>3. cash' = InitialCash + SumFunction(pnls') - Invested' - (Fees' - SellFees')
      BY <1>1, <2>1, <2>6, <2>7, <2>8, <2>10, <3>1, <3>2
    <3>4. QED BY <3>3 DEF CashAddsUp
  <2>13. QED BY <2>1, <2>8, <2>9, <2>12
<1>4. CASE ~(cash >= BuyCost(order, close))
  BY <1>4 DEF Buy, CashAddsUp, Invested, Fees, SellFees
<1>5. QED BY <1>3, <1>4

\* Every trade is won or lost.
LEMMA WonOrLost ==
  ASSUME pnls \in Seq(Int)
  PROVE  Wins + Losses = Len(pnls)
<1>. DEFINE n == Len(pnls)
            W == {i \in DOMAIN pnls : pnls[i] > 0}
            L == {i \in DOMAIN pnls : pnls[i] <= 0}
<1>1. n \in Nat /\ DOMAIN pnls = 1 .. n /\ \A i \in 1 .. n : pnls[i] \in Int
  OBVIOUS
<1>2. IsFiniteSet(1 .. n) /\ Cardinality(1 .. n) = n
  <2>. HIDE DEF n
  <2>1. n \in Nat
    BY <1>1
  <2>2. Cardinality(1 .. n) = (IF 1 > n THEN 0 ELSE n - 1 + 1) /\ IsFiniteSet(1 .. n)
    BY <2>1, FS_Interval
  <2>3. QED BY <2>1, <2>2
<1>3. W \cup L = 1 .. n /\ W \cap L = {}
  BY <1>1
<1>4. W \in SUBSET (1 .. n) /\ L \in SUBSET (1 .. n)
  BY <1>1
<1>. HIDE DEF n, W, L
<1>5. IsFiniteSet(W) /\ IsFiniteSet(L)
  BY <1>2, <1>4, FS_Subset
<1>6. Cardinality(W) \in Nat /\ Cardinality(L) \in Nat /\ Cardinality({}) = 0
  BY <1>5, FS_CardinalityType, FS_EmptySet
<1>7. Cardinality(W \cup L) = Cardinality(W) + Cardinality(L) - Cardinality(W \cap L)
  BY <1>5, FS_Union
<1>8. Cardinality(W) + Cardinality(L) = n
  <2>1. Cardinality(W \cup L) = n
    BY <1>2, <1>3
  <2>2. Cardinality(W \cap L) = 0
    BY <1>3, <1>6
  <2>3. QED BY <1>6, <1>7, <2>1, <2>2
<1>9. QED BY <1>8 DEF Wins, Losses, W, L, n

LEMMA ReportStart == DriversInit => ReportInv
<1>. SUFFICES ASSUME DriversInit PROVE ReportInv
  OBVIOUS
<1>1. EngineInit /\ pnls = << >> /\ phase = "next"
  BY DEF DriversInit, BacktestInit
<1>2. cash = InitialCash /\ filled = << >> /\ positions = << >>
  BY <1>1 DEF EngineInit
<1>3. Cardinality(Sales(filled)) = 0
  <2>1. Sales(filled) = {}
    BY <1>2 DEF Sales
  <2>2. QED BY <2>1, FS_EmptySet
<1>4. /\ Conservation /\ realized = 0 /\ dropped = 0
  BY <1>1, InitConserves DEF EngineInit
<1>5. SumFunction(pnls) = 0 /\ SellFees = 0 /\ Fees = 0
  <2>1. \A f \in [{} -> Int] : SumFunction(f) = 0
    <3>1. IsFiniteSet({})
      BY FS_EmptySet
    <3>2. QED BY <3>1, SumZero
  <2>2. pnls \in [{} -> Int]
    BY <1>1
  <2>3. [i \in DOMAIN filled |-> IF filled[i].side = "SELL" THEN filled[i].commission ELSE 0]
          \in [{} -> Int]
    BY <1>2
  <2>4. [i \in DOMAIN filled |-> filled[i].commission] \in [{} -> Int]
    BY <1>2
  <2>5. SumFunction(pnls) = 0
    BY <2>1, <2>2
  <2>6. SellFees = 0
    BY <2>1, <2>3 DEF SellFees
  <2>7. Fees = 0
    BY <2>1, <2>4 DEF Fees
  <2>8. QED BY <2>5, <2>6, <2>7
<1>6. Invested = 0
  <2>. DEFINE f == [s \in Symbols |-> PositionCost(positions, s)]
  <2>1. f \in [Symbols -> Int] /\ \A s \in Symbols : f[s] = 0
    BY <1>2 DEF PositionCost
  <2>. HIDE DEF f
  <2>2. SumFunction(f) = 0
    BY <2>1, SumZero, EngineAssumption
  <2>3. QED BY <2>2 DEF f, Invested
<1>7. CashAddsUp
  BY <1>2, <1>5, <1>6, EngineAssumption DEF CashAddsUp
<1>8. Len(pnls) = 0
  BY <1>1
<1>9. CurveAddsUp
  <2>1. curve = << >> /\ valued = 0 /\ Len(filled) = 0
    BY <1>2 DEF DriversInit, BacktestInit
  <2>2. MarketValue(positions) = 0
    BY <1>2, EmptyWorthless
  <2>3. Equity = InitialCash /\ LateCost = 0 /\ InitialCash \in Int
    BY <1>2, <2>1, <2>2, EngineAssumption DEF Equity, LateCost
  <2>4. QED BY <1>1, <2>1, <2>3 DEF CurveAddsUp, CurveEnd
<1>10. QED BY <1>1, <1>3, <1>7, <1>8, <1>9 DEF ReportInv

\* A step that leaves the books alone leaves the sum alone.
LEMMA SameReport ==
  ASSUME CashAddsUp, UNCHANGED <<cash, filled, pnls>>,
         \A s \in Symbols : PositionCost(positions', s) = PositionCost(positions, s)
  PROVE  CashAddsUp'
<1>1. Invested' = Invested
  BY DEF Invested
<1>2. Fees' = Fees /\ SellFees' = SellFees
  BY DEF Fees, SellFees
<1>3. QED BY <1>1, <1>2 DEF CashAddsUp

\* What the books of one symbol are worth.
LEMMA SingleWorth ==
  ASSUME NEW book, Book(book), DOMAIN book \subseteq {Symbol}
  PROVE  MarketValue(book) = PositionValue(book, Symbol)
<1>. DEFINE f == [s \in Symbols |-> 0]
            g == [s \in Symbols |-> PositionValue(book, s)]
<1>1. f \in [Symbols -> Int] /\ \A s \in Symbols : f[s] = 0
  OBVIOUS
<1>2. g \in [Symbols -> Int] /\ g[Symbol] = PositionValue(book, Symbol)
  BY PositionAmounts, SymbolIn
<1>3. \A s \in Symbols \ {Symbol} : g[s] = 0
  BY DEF PositionValue
<1>4. SumFunction(g) = MarketValue(book)
  BY DEF MarketValue
<1>. HIDE DEF f, g
<1>5. SumFunction(f) = 0
  BY <1>1, SumZero, EngineAssumption
<1>6. SumFunction(g) = SumFunction(f) - f[Symbol] + g[Symbol]
  BY <1>1, <1>2, <1>3, SumUpdate, SymbolIn, EngineAssumption
<1>7. g[Symbol] \in Int /\ f[Symbol] = 0
  BY <1>1, <1>2, SymbolIn
<1>8. QED BY <1>2, <1>4, <1>5, <1>6, <1>7

\* The slippage of a sale is what it fetched less than the mark.
LEMMA SlippageOf ==
  \A m, p, s, c \in Int : (m - p) * s * c = s * m * c - p * s * c
<1>. SUFFICES ASSUME NEW m \in Int, NEW p \in Int, NEW s \in Int, NEW c \in Int
              PROVE  (m - p) * s * c = s * m * c - p * s * c
  OBVIOUS
<1>1. (m - p) * s = s * m - p * s
  OBVIOUS
<1>. DEFINE x == s * m
            y == p * s
<1>2. x \in Int /\ y \in Int /\ (m - p) * s = x - y
  BY <1>1
<1>. HIDE DEF x, y
<1>3. (x - y) * c = x * c - y * c
  BY <1>2
<1>4. QED BY <1>2, <1>3 DEF x, y

\* After the sale of the decision the account is worth the last point of the
\* curve, less what that sale cost.
LEMMA SellValued ==
  ASSUME EngineTypeOK, BacktestOK, Open, DOMAIN positions \subseteq {Symbol},
         Close \in Nat, Close' = Close, Sell(Close),
         positions[Symbol].mark = Close * SlipDen,
         valued = Len(filled), valued' = valued
  PROVE  LateCost' \in Int /\ Equity = Equity' + LateCost'
<1>. DEFINE held == positions[Symbol]
            order == [symbol |-> Symbol, side |-> "SELL", size |-> held.size]
            paid == FillPrice("SELL", Close)
            value == TradeValue("SELL", held.size, Close)
            fee == Commission("SELL", held.size, Close)
            mark == Close * SlipDen
<1>1. held.size \in Nat /\ held.mark = mark /\ Book(positions)
  BY DEF Open, EngineTypeOK, Book, Position
<1>2. value \in Nat /\ fee \in Nat /\ paid \in Nat /\ mark \in Nat
  BY <1>1, ValueNat, FillPriceNat, EngineAssumption, ProductNat
<1>3. /\ cash' = cash + (value - fee)
      /\ positions' = << >> /\ Record(order, Close)
  BY DEF Sell, Proceeds
<1>4. order \in Order /\ order.side = "SELL" /\ order.size = held.size
  BY <1>1, SymbolIn DEF Order
<1>5. MarketValue(positions) = held.size * mark * CommDen
  BY <1>1, SingleWorth DEF PositionValue, Open
<1>6. value = paid * held.size * CommDen
  BY DEF TradeValue
<1>. DEFINE size == held.size
<1>7. size \in Nat /\ CommDen \in Nat
  BY <1>1, EngineAssumption
<1>8. MarketValue(positions') = 0
  BY <1>3, EmptyWorthless
<1>. HIDE DEF order, paid, value, fee, mark, held
<1>9. PICK fill \in Fill :
        /\ filled' = Append(filled, fill) /\ fill.side = "SELL"
        /\ fill.size = size /\ fill.paid = paid /\ fill.commission = fee
  BY <1>3, <1>4, Recorded DEF fee, paid
<1>10. filled \in Seq(Fill) /\ cash \in Int
  BY DEF EngineTypeOK
<1>11. Len(filled') # valued' /\ Last(filled') = fill
  BY <1>9, <1>10 DEF Last
<1>12. LateCost' = fee + (mark - paid) * size * CommDen
  BY <1>9, <1>11 DEF LateCost, mark
<1>13. (mark - paid) * size * CommDen = size * mark * CommDen - paid * size * CommDen
  <2>. HIDE DEF size
  <2>. QED BY <1>2, <1>7, SlippageOf
<1>. DEFINE worth == size * mark * CommDen
<1>14. worth \in Int
  BY <1>2, <1>7, ProductNat
<1>15. LateCost' = fee + (worth - value) /\ MarketValue(positions) = worth
  BY <1>5, <1>6, <1>12, <1>13
<1>. HIDE DEF worth, size
<1>16. QED BY <1>2, <1>3, <1>8, <1>10, <1>14, <1>15 DEF Equity

\* The same of a purchase.
LEMMA BuyValued ==
  ASSUME EngineTypeOK, EngineTypeOK', BacktestOK, ~Open, DOMAIN positions \subseteq {Symbol},
         NEW size \in Nat, Close \in Nat, Buy(size, Close),
         valued = Len(filled), valued' = valued
  PROVE  LateCost' \in Int /\ Equity = Equity' + LateCost'
<1>. DEFINE order == [symbol |-> Symbol, side |-> "BUY", size |-> size]
            paid == FillPrice("BUY", Close)
            value == TradeValue("BUY", size, Close)
            fee == Commission("BUY", size, Close)
            new == [size |-> size, cost |-> value, mark |-> paid]
<1>1. value \in Nat /\ fee \in Nat /\ paid \in Nat
  BY ValueNat, FillPriceNat
<1>2. order \in Order /\ order.side = "BUY" /\ order.size = size
  BY SymbolIn DEF Order
<1>3. DOMAIN positions = {} /\ cash \in Int /\ filled \in Seq(Fill)
  BY DEF Open, EngineTypeOK
<1>4. MarketValue(positions) = 0
  BY <1>3, EmptyWorthless
<1>5. CASE cash >= BuyCost(order, Close)
  <2>1. /\ cash' = cash - (value + fee)
        /\ positions' = With(positions, Symbol, new) /\ Record(order, Close)
    BY <1>5 DEF Buy, BuyCost
  <2>2. new.size = size /\ new.mark = paid /\ value = paid * size * CommDen
    BY DEF TradeValue
  <2>. HIDE DEF order, value, fee, paid, new
  <2>3. DOMAIN positions' = {Symbol} /\ positions'[Symbol] = new
    BY <1>3, <2>1 DEF With
  <2>4. Book(positions')
    BY DEF EngineTypeOK, Book
  <2>5. MarketValue(positions') = size * paid * CommDen
    BY <2>2, <2>3, <2>4, SingleWorth DEF PositionValue
  <2>6. MarketValue(positions') = value
    <3>1. size * paid = paid * size
      BY <1>1
    <3>2. QED BY <2>2, <2>5, <3>1
  <2>7. PICK fill \in Fill :
          filled' = Append(filled, fill) /\ fill.side = "BUY" /\ fill.commission = fee
    BY <1>2, <2>1, Recorded DEF fee
  <2>8. Len(filled') # valued' /\ Last(filled') = fill
    BY <1>3, <2>7 DEF Last
  <2>9. LateCost' = fee
    BY <1>1, <2>7, <2>8 DEF LateCost
  <2>10. QED BY <1>1, <1>3, <1>4, <2>1, <2>6, <2>9 DEF Equity
<1>6. CASE ~(cash >= BuyCost(order, Close))
  <2>1. UNCHANGED <<cash, positions, filled>>
    BY <1>6 DEF Buy
  <2>2. LateCost' = 0 /\ Equity' = Equity
    BY <2>1 DEF LateCost, Equity
  <2>3. QED BY <1>3, <1>4, <2>2 DEF Equity
<1>7. QED BY <1>5, <1>6

LEMMA DecisionValued ==
  ASSUME EngineTypeOK, EngineTypeOK', BacktestOK, CurveAddsUp,
         DOMAIN positions \subseteq {Symbol}, Decide
  PROVE  CurveAddsUp'
<1>1. /\ phase = "decide" /\ phase' \in {"next", "raised"}
      /\ UNCHANGED <<bars, curve, valued>>
  BY DEF Decide
<1>2. /\ curve # << >> /\ Last(curve) = Equity /\ valued = Len(filled)
      /\ Open => positions[Symbol].mark = Close * SlipDen
  BY <1>1 DEF CurveAddsUp
<1>3. Close \in Nat /\ Close' = Close
  BY <1>1, DecideCases DEF Close
<1>4. LateCost' \in Int /\ Equity = Equity' + LateCost'
  <2>1. CASE UNCHANGED <<cash, positions, realized, filled, bracket, pnls>>
    <3>1. Equity' = Equity /\ LateCost' = 0
      BY <1>1, <1>2, <2>1 DEF Equity, LateCost
    <3>2. Equity \in Int
      BY MarketValueInt DEF EngineTypeOK, Equity
    <3>3. QED BY <3>1, <3>2
  <2>2. CASE ~Open /\ \E size \in Nat : Buy(size, Close)
    BY <1>1, <1>2, <1>3, <2>2, BuyValued
  <2>3. CASE Open /\ Sell(Close)
    BY <1>1, <1>2, <1>3, <2>3, SellValued
  <2>4. QED BY <2>1, <2>2, <2>3, DecideCases
<1>5. QED BY <1>1, <1>2, <1>4 DEF CurveAddsUp, CurveEnd

LEMMA CurveKeeps ==
  ASSUME EngineTypeOK, EngineTypeOK', BacktestOK, CurveAddsUp, driver = "backtest", BacktestNext
  PROVE  CurveAddsUp'
<1>1. CASE NextBar
  <2>1. /\ phase = "next" /\ phase' \in {"next", "bracket"}
        /\ phase' = "next" => Len(bars) < Warmup
        /\ UNCHANGED <<cash, positions, filled, curve, valued>>
    BY <1>1 DEF NextBar, engineVars
  <2>2. CASE phase' = "next"
    <3>1. curve = << >>
      <4>1. Len(curve) \in Nat /\ Len(bars) \in Nat /\ Warmup \in Nat
        BY BacktestAssumption DEF BacktestOK
      <4>2. QED BY <2>1, <2>2, <4>1 DEF BacktestOK, CurveOK
    <3>2. valued = Len(filled) /\ CurveEnd = Equity + LateCost
      BY <2>1, <3>1 DEF CurveAddsUp
    <3>3. LateCost = 0 /\ LateCost' = 0 /\ Equity' = Equity
      BY <2>1, <3>2 DEF LateCost, Equity
    <3>4. QED BY <2>1, <2>2, <3>2, <3>3 DEF CurveAddsUp, CurveEnd
  <2>3. QED BY <2>1, <2>2 DEF CurveAddsUp
<1>2. CASE CheckBracket
  BY <1>2 DEF CheckBracket, CurveAddsUp
<1>3. CASE Value
  <2>. DEFINE known == [s \in {Symbol} |-> Close]
              book == MarkedWith(positions, known)
              equity == cash + MarketValue(book)
  <2>1. /\ positions' = book /\ curve' = Append(curve, equity) /\ phase' = "decide"
        /\ UNCHANGED <<cash, filled, bars>> /\ valued' = Len(filled)
    BY <1>3 DEF Value
  <2>2. Open => book[Symbol].mark = Close * SlipDen
    <3>1. Open => positions[Symbol] \in Position
      BY DEF Open, EngineTypeOK, Book
    <3>2. QED BY <3>1 DEF Open, MarkedWith, Position
  <2>3. equity = Equity' /\ DOMAIN book = DOMAIN positions /\ Close' = Close
    BY <2>1 DEF Equity, MarkedWith, Close
  <2>. HIDE DEF equity, book
  <2>4. curve' # << >> /\ Last(curve') = equity
    BY <2>1 DEF BacktestOK, Last
  <2>5. QED BY <2>1, <2>2, <2>3, <2>4 DEF CurveAddsUp, Open
<1>4. CASE Decide
  BY <1>4, DecisionValued DEF BacktestOK
<1>5. CASE Report
  <2>1. /\ phase = "next" /\ phase' = "reported"
        /\ UNCHANGED <<cash, positions, filled, bars, curve, valued>>
    BY <1>5 DEF Report, engineVars
  <2>2. Equity' = Equity /\ LateCost' = LateCost /\ CurveEnd' = CurveEnd
    BY <2>1 DEF Equity, LateCost, Close, CurveEnd
  <2>3. QED BY <2>1, <2>2 DEF CurveAddsUp
<1>6. QED BY <1>1, <1>2, <1>3, <1>4, <1>5 DEF BacktestNext

LEMMA ReportKeeps ==
  ASSUME EngineTypeOK, EngineTypeOK', BacktestOK, ReportInv,
         driver = "backtest", driver' = driver, BacktestNext
  PROVE  ReportInv'
<1>0. Len(pnls) = Cardinality(Sales(filled)) /\ CashAddsUp /\ DOMAIN positions \subseteq {Symbol}
  BY DEF ReportInv, BacktestOK
<1>. SUFFICES Len(pnls') = Cardinality(Sales(filled')) /\ CashAddsUp'
  BY CurveKeeps DEF ReportInv
<1>1. CASE NextBar \/ Report
  <2>1. UNCHANGED <<cash, positions, filled, pnls>>
    BY <1>1 DEF NextBar, Report, engineVars
  <2>2. QED BY <1>0, <2>1, SameReport
<1>2. CASE CheckBracket
  <2>1. CASE Open /\ (HitStop \/ HitTarget)
    <3>1. Sell(RawExit) /\ RawExit \in Nat
      BY <1>2, <2>1, RawExitNat DEF CheckBracket
    <3>2. QED BY <1>0, <2>1, <3>1, SellReports
  <2>2. CASE ~(Open /\ (HitStop \/ HitTarget))
    <3>1. UNCHANGED <<cash, positions, filled, pnls>>
      BY <1>2, <2>2 DEF CheckBracket
    <3>2. QED BY <1>0, <3>1, SameReport
  <2>3. QED BY <2>1, <2>2
<1>3. CASE Value
  <2>. DEFINE known == [s \in {Symbol} |-> Close]
              book == MarkedWith(positions, known)
  <2>1. positions' = book /\ UNCHANGED <<cash, filled, pnls>>
    BY <1>3 DEF Value
  <2>2. \A s \in Symbols : PositionCost(positions', s) = PositionCost(positions, s)
    <3>1. phase = "value" /\ bars \in Seq(Closes) /\ bars # << >>
      BY <1>3 DEF Value, BacktestOK, CurveOK
    <3>2. known \in [{Symbol} -> Prices] /\ {Symbol} \in SUBSET Symbols
      BY <3>1, CloseType, SymbolIn
    <3>. HIDE DEF known
    <3>3. /\ DOMAIN book = DOMAIN positions
          /\ \A s \in DOMAIN positions : book[s].cost = positions[s].cost
      BY <3>2, MarkedBook DEF EngineTypeOK
    <3>4. QED BY <2>1, <3>3 DEF PositionCost
  <2>3. QED BY <1>0, <2>1, <2>2, SameReport
<1>4. CASE Decide
  <2>1. Close \in Nat
    BY <1>4, DecideCases
  <2>2. CASE UNCHANGED <<cash, positions, realized, filled, bracket, pnls>>
    BY <1>0, <2>2, SameReport
  <2>3. CASE ~Open /\ \E size \in Nat : Buy(size, Close)
    BY <1>0, <2>1, <2>3, BuyReports
  <2>4. CASE Open /\ Sell(Close)
    BY <1>0, <2>1, <2>4, SellReports
  <2>5. QED BY <1>4, <2>2, <2>3, <2>4, DecideCases
<1>5. QED BY <1>1, <1>2, <1>3, <1>4 DEF BacktestNext

LEMMA InvImpliesReport == DriversInv /\ ReportInv => ReportAddsUp
<1>. SUFFICES ASSUME DriversInv, ReportInv, driver = "backtest", phase = "reported"
              PROVE  /\ Wins + Losses =
                          Cardinality({i \in DOMAIN filled : filled[i].side = "SELL"})
                     /\ TotalReturn = SumFunction(pnls) + MarketValue(positions) - Invested
                                        - (Fees - SellFees) + LateCost
  BY DEF ReportAddsUp
<1>1. EngineTypeOK /\ pnls \in Seq(Int) /\ curve \in Seq(Int)
  BY DEF DriversInv, BacktestOK
<1>2. /\ Len(pnls) = Cardinality({i \in DOMAIN filled : filled[i].side = "SELL"})
      /\ CashAddsUp /\ CurveEnd = Equity + LateCost
  BY DEF ReportInv, CurveAddsUp, Sales
<1>3. Wins + Losses = Len(pnls)
  BY <1>1, WonOrLost
<1>4. /\ InitialCash \in Int /\ MarketValue(positions) \in Int /\ cash \in Int
      /\ SumFunction(pnls) \in Int
  BY <1>1, EngineAssumption, MarketValueInt, SumAppend DEF EngineTypeOK
<1>5. Invested \in Int /\ Fees \in Int /\ SellFees \in Int
  <2>1. Book(positions) /\ filled \in Seq(Fill)
    BY <1>1 DEF EngineTypeOK
  <2>2. [s \in Symbols |-> PositionCost(positions, s)] \in [Symbols -> Int]
    BY <2>1, PositionAmounts
  <2>3. Invested \in Int
    BY <2>2, SumType, EngineAssumption DEF Invested
  <2>4. /\ [i \in DOMAIN filled |-> filled[i].commission] \in [DOMAIN filled -> Int]
        /\ [i \in DOMAIN filled |->
              IF filled[i].side = "SELL" THEN filled[i].commission ELSE 0] \in [DOMAIN filled -> Int]
    <3>1. \A i \in DOMAIN filled : filled[i].commission \in Int
      <4>1. \A i \in DOMAIN filled : filled[i] \in Fill
        BY <2>1
      <4>2. QED BY <4>1 DEF Fill
    <3>2. QED BY <3>1
  <2>5. IsFiniteSet(DOMAIN filled)
    <3>1. DOMAIN filled = 1 .. Len(filled) /\ Len(filled) \in Nat
      BY <2>1
    <3>2. QED BY <3>1, FS_Interval
  <2>6. Fees \in Int
    BY <2>4, <2>5, SumType DEF Fees
  <2>7. SellFees \in Int
    BY <2>4, <2>5, SumType DEF SellFees
  <2>8. QED BY <2>3, <2>6, <2>7
<1>. DEFINE sum == SumFunction(pnls)
            worth == MarketValue(positions)
            end == CurveEnd
<1>6. TotalReturn = end - InitialCash /\ end \in Int
  <2>1. curve # << >> => Last(curve) \in Int
    BY <1>1 DEF Last
  <2>2. QED BY <1>4, <2>1 DEF TotalReturn, CurveEnd
<1>7. cash = InitialCash + sum - Invested - (Fees - SellFees) /\ end = cash + worth + LateCost
  BY <1>2 DEF CashAddsUp, Equity
<1>8. sum \in Int /\ worth \in Int
  BY <1>4
<1>9. LateCost \in Int
  BY DEF ReportInv, CurveAddsUp
<1>. HIDE DEF sum, worth, end
<1>10. TotalReturn = sum + worth - Invested - (Fees - SellFees) + LateCost
  BY <1>4, <1>5, <1>6, <1>7, <1>8, <1>9
<1>11. QED BY <1>2, <1>3, <1>10 DEF sum, worth

\* What the report of a backtest adds up to.
THEOREM ReportAddsUpHolds == DriversSpec => []ReportAddsUp
<1>1. DriversInv /\ DriversInv' /\ ReportInv /\ [DriversNext]_driverVars => ReportInv'
  <2>. SUFFICES ASSUME DriversInv, DriversInv', ReportInv, [DriversNext]_driverVars
                PROVE  ReportInv'
    OBVIOUS
  <2>1. CASE driver = "backtest" /\ BacktestNext /\ UNCHANGED <<pipelineVars, deskVars, driver>>
    BY <2>1, ReportKeeps DEF DriversInv
  <2>2. CASE driver # "backtest" /\ UNCHANGED driver
    BY <2>2 DEF ReportInv
  <2>3. CASE UNCHANGED driverVars
    <3>1. UNCHANGED <<cash, filled, positions, pnls, phase, curve, driver, bars, valued>>
      BY <2>3 DEF driverVars, engineVars, backtestVars
    <3>2. Equity' = Equity /\ (CashAddsUp => CashAddsUp')
      BY <3>1, SameReport DEF Equity
    <3>3. CurveAddsUp => CurveAddsUp'
      BY <3>1, <3>2 DEF CurveAddsUp, CurveEnd, LateCost, Close, Open
    <3>4. QED BY <3>1, <3>2, <3>3 DEF ReportInv
  <2>4. QED BY <2>1, <2>2, <2>3 DEF DriversNext
<1>2. QED BY <1>1, DriversStart, DriversKeep, ReportStart, InvImpliesReport, PTL DEF DriversSpec

-----------------------------------------------------------------------------
(***************************************************************************)
(* The account of a backtest behaves like the paper trading engine.  Its   *)
(* operators are those of the engine, but for the realized profit.         *)
(***************************************************************************)
RealizedAsEngine == IF driver = "backtest" THEN realized + SellFees ELSE realized

LEMMA AccountValue == \A book : Account!MarketValue(book) = MarketValue(book)
<1>1. \A f, S : Account!SumFunctionOnSet(f, S) = SumFunctionOnSet(f, S)
  BY DEF Account!SumFunctionOnSet, SumFunctionOnSet, Account!FoldFunctionOnSet, FoldFunctionOnSet,
         Account!MapThenFoldSet, MapThenFoldSet
<1>2. \A f : Account!SumFunction(f) = SumFunction(f)
  BY <1>1 DEF Account!SumFunction, SumFunction
<1>3. \A book, s : Account!PositionValue(book, s) = PositionValue(book, s)
  BY DEF Account!PositionValue, PositionValue
<1>4. QED BY <1>2, <1>3 DEF Account!MarketValue, MarketValue

LEMMA AccountOrders ==
  ASSUME NEW order, NEW price
  PROVE  /\ Account!Outcome(order, price) = Outcome(order, price)
         /\ Account!Bought(order, price) = Bought(order, price)
         /\ Account!BuyCost(order, price) = BuyCost(order, price)
         /\ Account!Record(order, price) <=> Record(order, price)
<1>1. \A side, p, size :
        /\ Account!FillPrice(side, p) = FillPrice(side, p)
        /\ Account!TradeValue(side, size, p) = TradeValue(side, size, p)
        /\ Account!Commission(side, size, p) = Commission(side, size, p)
  BY DEF Account!FillPrice, FillPrice, Account!TradeValue, TradeValue, Account!Commission, Commission
<1>2. Account!BuyCost(order, price) = BuyCost(order, price)
  BY <1>1 DEF Account!BuyCost, BuyCost
<1>3. \A s : Account!Holds(s) <=> Holds(s)
  BY DEF Account!Holds, Holds
<1>4. Account!AveragesNothing(order) <=> AveragesNothing(order)
  BY <1>3 DEF Account!AveragesNothing, AveragesNothing
<1>5. Account!CanFill(order, price) <=> CanFill(order, price)
  BY <1>2, <1>3 DEF Account!CanFill, CanFill
<1>6. Account!Outcome(order, price) = Outcome(order, price)
  BY <1>4, <1>5 DEF Account!Outcome, Outcome
<1>7. Account!Bought(order, price) = Bought(order, price)
  BY <1>1, <1>3 DEF Account!Bought, Bought
<1>8. Account!Record(order, price) <=> Record(order, price)
  BY <1>1 DEF Account!Record, Record
<1>9. QED BY <1>2, <1>6, <1>7, <1>8

LEMMA AccountBooks ==
  /\ \A book, known : Account!MarkedWith(book, known) = MarkedWith(book, known)
  /\ \A book, s, held : Account!With(book, s, held) = With(book, s, held)
  /\ \A f, S : Account!Restrict(f, S) = Restrict(f, S)
BY DEF Account!MarkedWith, MarkedWith, Account!With, With, Account!Restrict, Restrict

LEMMA AccountSales ==
  ASSUME NEW order
  PROVE  /\ Account!CloseSize(order) = CloseSize(order)
         /\ Account!ClosedCost(order) = ClosedCost(order)
         /\ Account!Remaining(order) = Remaining(order)
         /\ Account!Emptied(order) <=> Emptied(order)
<1>1. Account!CloseSize(order) = CloseSize(order)
  BY DEF Account!CloseSize, CloseSize
<1>2. Account!ClosedCost(order) = ClosedCost(order)
  BY <1>1 DEF Account!ClosedCost, ClosedCost
<1>3. Account!Remaining(order) = Remaining(order)
  BY <1>1 DEF Account!Remaining, Remaining
<1>4. Account!Emptied(order) <=> Emptied(order)
  BY <1>3 DEF Account!Emptied, Emptied
<1>5. QED BY <1>1, <1>2, <1>3, <1>4

LEMMA AccountBuys ==
  ASSUME NEW order, NEW price,
         order.side = "BUY", Outcome(order, price) = "FILLED",
         cash' = cash - BuyCost(order, price),
         positions' = With(positions, order.symbol, Bought(order, price)),
         Record(order, price), UNCHANGED <<RealizedAsEngine, peak, dropped>>
  PROVE  Account!FillBuy(order, price)
BY AccountOrders, AccountBooks DEF Account!FillBuy, RealizedAsEngine

LEMMA AccountSells ==
  ASSUME NEW order, NEW price,
         order.side = "SELL", Outcome(order, price) = "FILLED",
         RealizedAsEngine' = RealizedAsEngine + TradeValue("SELL", CloseSize(order), price)
                               - ClosedCost(order),
         cash' = cash + TradeValue("SELL", CloseSize(order), price)
                   - Commission("SELL", order.size, price),
         positions' =
           IF Emptied(order)
           THEN Restrict(positions, DOMAIN positions \ {order.symbol})
           ELSE [positions EXCEPT ![order.symbol] =
                   [size |-> Remaining(order),
                    cost |-> @.cost - ClosedCost(order),
                    mark |-> FillPrice("SELL", price)]],
         dropped' = dropped + (IF Emptied(order)
                               THEN positions[order.symbol].cost - ClosedCost(order) ELSE 0),
         Record(order, price), UNCHANGED peak
  PROVE  Account!FillSell(order, price)
<1>1. \A side, p, size :
        /\ Account!FillPrice(side, p) = FillPrice(side, p)
        /\ Account!TradeValue(side, size, p) = TradeValue(side, size, p)
        /\ Account!Commission(side, size, p) = Commission(side, size, p)
  BY DEF Account!FillPrice, FillPrice, Account!TradeValue, TradeValue, Account!Commission, Commission
<1>2. Account!Outcome(order, price) = "FILLED" /\ Account!Record(order, price)
  BY AccountOrders
<1>3. /\ Account!CloseSize(order) = CloseSize(order)
      /\ Account!ClosedCost(order) = ClosedCost(order)
      /\ Account!Remaining(order) = Remaining(order)
      /\ Account!Emptied(order) <=> Emptied(order)
  BY AccountSales
<1>4. Account!Restrict(positions, DOMAIN positions \ {order.symbol})
        = Restrict(positions, DOMAIN positions \ {order.symbol})
  BY AccountBooks
<1>5. QED BY <1>1, <1>2, <1>3, <1>4 DEF Account!FillSell, RealizedAsEngine

LEMMA AccountMarks ==
  ASSUME NEW known, NEW book, book = MarkedWith(positions, known),
         positions' = book, peak' = Ratcheted(peak, cash + MarketValue(book)),
         UNCHANGED <<cash, RealizedAsEngine, filled, dropped>>
  PROVE  Account!GetPortfolioState(known)
<1>1. /\ Account!MarkedWith(positions, known) = book
      /\ Account!MarketValue(book) = MarketValue(book)
  BY AccountBooks, AccountValue
<1>2. \A top, equity : Account!Ratcheted(top, equity) = Ratcheted(top, equity)
  BY DEF Account!Ratcheted, Ratcheted
<1>3. QED BY <1>1, <1>2 DEF Account!GetPortfolioState, RealizedAsEngine

\* The account takes an order of any size at any price, as execute_order does.
AnyOrder == Prices = Nat /\ OrderSizes = Nat

LEMMA AccountRequest ==
  ASSUME AnyOrder, NEW order \in Order, NEW price \in Nat,
         \/ Account!FillBuy(order, price) \/ Account!FillSell(order, price)
  PROVE  Account!EngineNext
<1>1. order \in Account!Requests /\ price \in Prices
  BY DEF AnyOrder, Order, Account!Requests
<1>2. QED BY <1>1 DEF Account!EngineNext, Account!ExecuteOrder

LEMMA AccountState ==
  ASSUME NEW S \in SUBSET Symbols, NEW known \in [S -> Prices], Account!GetPortfolioState(known)
  PROVE  Account!EngineNext
BY DEF Account!EngineNext

LEMMA AccountSame ==
  ASSUME UNCHANGED <<cash, positions, RealizedAsEngine, peak, filled, dropped>>
  PROVE  UNCHANGED Account!engineVars
BY DEF Account!engineVars, RealizedAsEngine

\* The pipeline trades on the engine itself.
LEMMA PipelineAccount ==
  ASSUME AnyOrder, EngineTypeOK, PipelineOK, driver = "pipeline", driver' = driver, PipelineNext
  PROVE  Account!EngineNext \/ UNCHANGED Account!engineVars
<1>1. RealizedAsEngine = realized /\ RealizedAsEngine' = realized'
  BY DEF RealizedAsEngine
<1>2. ASSUME UNCHANGED engineVars PROVE UNCHANGED Account!engineVars
  BY <1>1, <1>2, AccountSame DEF engineVars
<1>3. ASSUME NEW bufs \in [Symbols -> Seq(Candles)], GetPortfolioState(Known(bufs))
      PROVE  Account!EngineNext
  <2>. DEFINE known == Known(bufs)
  <2>1. DOMAIN known \in SUBSET Symbols /\ known \in [DOMAIN known -> Prices]
    BY KnownType
  <2>. HIDE DEF known
  <2>2. Account!GetPortfolioState(known)
    <3>. DEFINE book == MarkedWith(positions, known)
    <3>1. /\ positions' = book /\ peak' = Ratcheted(peak, cash + MarketValue(book))
          /\ UNCHANGED <<cash, realized, filled, dropped>>
      BY <1>3 DEF GetPortfolioState, known
    <3>. HIDE DEF book
    <3>2. QED BY <1>1, <3>1, AccountMarks DEF book
  <2>3. QED BY <2>1, <2>2, AccountState
<1>4. ASSUME NEW order \in Order, NEW price \in Nat, ExecuteOrder(order, price)
      PROVE  Account!EngineNext \/ UNCHANGED Account!engineVars
  <2>1. CASE FillBuy(order, price)
    <3>1. Account!FillBuy(order, price)
      BY <1>1, <2>1, AccountBuys DEF FillBuy
    <3>2. QED BY <3>1, AccountRequest
  <2>2. CASE FillSell(order, price)
    <3>1. Account!FillSell(order, price)
      BY <1>1, <2>2, AccountSells DEF FillSell
    <3>2. QED BY <3>1, AccountRequest
  <2>3. CASE DontFill(order, price)
    BY <1>2, <2>3 DEF DontFill
  <2>4. QED BY <1>4, <2>1, <2>2, <2>3 DEF ExecuteOrder
<1>5. CASE PublishCandle \/ DropCandle \/ StartPipeline \/ StopPipeline
  BY <1>2, <1>5 DEF PublishCandle, DropCandle, StartPipeline, StopPipeline
<1>6. CASE HandleCandle
  <2>1. buffers' \in [Symbols -> Seq(Candles)]
    BY <1>6, HandleCandleKeeps DEF PipelineOK, BuffersOK
  <2>2. GetPortfolioState(Known(buffers'))
    BY <1>6 DEF HandleCandle
  <2>3. QED BY <1>3, <2>1, <2>2
<1>7. CASE HandleSignal
  <2>1. GetPortfolioState(Known(buffers)) \/ UNCHANGED engineVars
    BY <1>7 DEF HandleSignal
  <2>2. buffers \in [Symbols -> Seq(Candles)]
    BY DEF PipelineOK, BuffersOK
  <2>3. QED BY <1>2, <1>3, <2>1, <2>2
<1>8. CASE PlaceWorking
  <2>1. PICK work : working = <<work>> /\ Fresh(work, SnapNow, Len(filled))
    BY <1>8 DEF PlaceWorking, PipelineOK, WorkingOK
  <2>2. ExecuteOrder(work.order, work.price)
    BY <1>8, <2>1 DEF PlaceWorking
  <2>3. work.order \in Order /\ work.price \in Nat
    BY <2>1, FreshOrder
  <2>4. QED BY <1>4, <2>2, <2>3
<1>9. QED BY <1>5, <1>6, <1>7, <1>8 DEF PipelineNext

\* A sale of a backtest is an execution of an order for all of the position.
LEMMA SellAccount ==
  ASSUME AnyOrder, EngineTypeOK, BacktestOK, driver = "backtest", driver' = driver,
         Open, DOMAIN positions \subseteq {Symbol},
         NEW price \in Nat, Sell(price), UNCHANGED <<peak, dropped>>
  PROVE  Account!EngineNext
<1>. DEFINE held == positions[Symbol]
            order == [symbol |-> Symbol, side |-> "SELL", size |-> held.size]
            value == TradeValue("SELL", held.size, price)
            fee == Commission("SELL", held.size, price)
<1>1. held.size \in Nat /\ held.cost \in Nat
  BY DEF Open, EngineTypeOK, Book, Position
<1>2. value \in Nat /\ fee \in Nat
  BY <1>1, ValueNat
<1>3. /\ cash' = cash + (value - fee) /\ realized' = realized + (value - fee - held.cost)
      /\ positions' = << >> /\ Record(order, price)
  BY DEF Sell, Proceeds
<1>4. order \in Order /\ order.side = "SELL" /\ order.size = held.size /\ order.symbol = Symbol
  BY <1>1, SymbolIn DEF Order
<1>5. order.symbol \in DOMAIN positions /\ Holds(order.symbol)
  BY <1>4 DEF Open, Holds
<1>6. PICK fill \in Fill :
        /\ filled' = Append(filled, fill) /\ fill.side = "SELL"
        /\ fill.commission = fee /\ fill.commission \in Int
  <2>. HIDE DEF order
  <2>. QED BY <1>3, <1>4, Recorded DEF fee
<1>7. SellFees \in Int /\ SellFees' = SellFees + fee
  BY <1>6, SalesGrow DEF SaleFee
<1>8. /\ CloseSize(order) = held.size /\ ClosedCost(order) = held.cost
      /\ Remaining(order) = 0 /\ Emptied(order)
  <2>1. CloseSize(order) = held.size
    BY <1>1, <1>4 DEF CloseSize
  <2>2. Remaining(order) = 0
    BY <1>1, <2>1 DEF Remaining
  <2>3. QED BY <2>1, <2>2, EngineAssumption DEF ClosedCost, Emptied
<1>9. Outcome(order, price) = "FILLED"
  BY <1>5 DEF Outcome, CanFill, AveragesNothing
<1>10. positions' = Restrict(positions, DOMAIN positions \ {order.symbol})
  <2>1. DOMAIN positions \ {Symbol} = {}
    OBVIOUS
  <2>2. QED BY <1>3, <1>4, <2>1 DEF Restrict
<1>11. /\ RealizedAsEngine = realized + SellFees /\ RealizedAsEngine' = realized' + SellFees'
       /\ realized \in Int /\ cash \in Int /\ dropped \in Int
  BY DEF RealizedAsEngine, EngineTypeOK
<1>12. positions[order.symbol].cost = held.cost
  BY <1>4
<1>. HIDE DEF held, value, fee
<1>13. /\ RealizedAsEngine' = RealizedAsEngine + value - held.cost
       /\ cash' = cash + value - fee
       /\ dropped' = dropped + (held.cost - held.cost)
  BY <1>1, <1>2, <1>3, <1>7, <1>11, SMTT(30)
<1>14. /\ TradeValue("SELL", CloseSize(order), price) = value
       /\ Commission("SELL", order.size, price) = fee
  BY <1>4, <1>8 DEF value, fee
<1>. HIDE DEF order
<1>15. Account!FillSell(order, price)
  BY <1>3, <1>4, <1>8, <1>9, <1>10, <1>12, <1>13, <1>14, AccountSells
<1>16. QED BY <1>4, <1>15, AccountRequest

\* A purchase is an execution of an order for a symbol that is not held.
LEMMA BuyAccount ==
  ASSUME AnyOrder, EngineTypeOK, BacktestOK, driver = "backtest", driver' = driver,
         ~Open, NEW size \in Nat, NEW close \in Nat, Buy(size, close), UNCHANGED <<peak, dropped>>
  PROVE  Account!EngineNext \/ UNCHANGED Account!engineVars
<1>. DEFINE order == [symbol |-> Symbol, side |-> "BUY", size |-> size]
            value == TradeValue("BUY", size, close)
            new == [size |-> size, cost |-> value, mark |-> FillPrice("BUY", close)]
<1>1. value \in Nat
  BY ValueNat
<1>2. order \in Order /\ order.side = "BUY" /\ order.size = size /\ order.symbol = Symbol
  BY SymbolIn DEF Order
<1>3. CASE cash >= BuyCost(order, close)
  <2>1. /\ cash' = cash - BuyCost(order, close) /\ UNCHANGED realized
        /\ positions' = With(positions, Symbol, new) /\ Record(order, close)
    BY <1>3 DEF Buy
  <2>2. ~Holds(order.symbol)
    BY <1>2 DEF Open, Holds
  <2>3. Outcome(order, close) = "FILLED"
    BY <1>2, <1>3, <2>2 DEF Outcome, CanFill, AveragesNothing
  <2>4. Bought(order, close) = new
    <3>1. Bought(order, close) = [size |-> 0 + size, cost |-> 0 + value,
                                  mark |-> FillPrice("BUY", close)]
      BY <1>2, <2>2 DEF Bought
    <3>2. 0 + size = size /\ 0 + value = value
      BY <1>1
    <3>3. QED BY <3>1, <3>2
  <2>. HIDE DEF order, new, value
  <2>5. PICK fill \in Fill :
          /\ filled' = Append(filled, fill) /\ fill.side = "BUY"
    BY <1>2, <2>1, Recorded
  <2>6. SellFees \in Int /\ SellFees' = SellFees + 0
    BY <2>5, SalesGrow DEF SaleFee
  <2>7. RealizedAsEngine' = RealizedAsEngine
    BY <2>1, <2>6 DEF RealizedAsEngine
  <2>8. Account!FillBuy(order, close)
    BY <1>2, <2>1, <2>3, <2>4, <2>7, AccountBuys
  <2>9. QED BY <1>2, <2>8, AccountRequest
<1>4. CASE ~(cash >= BuyCost(order, close))
  <2>1. UNCHANGED <<cash, positions, realized, filled>>
    BY <1>4 DEF Buy
  <2>2. RealizedAsEngine' = RealizedAsEngine
    BY <2>1 DEF RealizedAsEngine, SellFees
  <2>3. QED BY <2>1, <2>2, AccountSame
<1>5. QED BY <1>3, <1>4

LEMMA BacktestAccount ==
  ASSUME AnyOrder, EngineTypeOK, BacktestOK, driver = "backtest", driver' = driver, BacktestNext
  PROVE  Account!EngineNext \/ UNCHANGED Account!engineVars
<1>1. ASSUME UNCHANGED <<cash, positions, realized, peak, filled, dropped>>
      PROVE  UNCHANGED Account!engineVars
  <2>1. RealizedAsEngine' = RealizedAsEngine
    BY <1>1 DEF RealizedAsEngine, SellFees
  <2>2. QED BY <1>1, <2>1, AccountSame
<1>2. DOMAIN positions \subseteq {Symbol}
  BY DEF BacktestOK
<1>3. CASE NextBar \/ Report
  BY <1>1, <1>3 DEF NextBar, Report, engineVars
<1>4. CASE CheckBracket
  <2>1. UNCHANGED <<peak, dropped>>
    BY <1>4 DEF CheckBracket
  <2>2. CASE Open /\ (HitStop \/ HitTarget)
    <3>1. Sell(RawExit) /\ RawExit \in Nat
      BY <1>4, <2>2, RawExitNat DEF CheckBracket
    <3>2. QED BY <1>2, <2>1, <2>2, <3>1, SellAccount
  <2>3. CASE ~(Open /\ (HitStop \/ HitTarget))
    BY <1>1, <1>4, <2>1, <2>3 DEF CheckBracket
  <2>4. QED BY <2>2, <2>3
<1>5. CASE Value
  <2>. DEFINE known == [s \in {Symbol} |-> Close]
              book == MarkedWith(positions, known)
              equity == cash + MarketValue(book)
  <2>1. /\ positions' = book /\ peak' = Max({peak, equity})
        /\ UNCHANGED <<cash, realized, filled, dropped>>
    BY <1>5 DEF Value
  <2>2. phase = "value" /\ bars \in Seq(Closes) /\ bars # << >>
    BY <1>5 DEF Value, BacktestOK, CurveOK
  <2>3. known \in [{Symbol} -> Prices] /\ {Symbol} \in SUBSET Symbols
    BY <2>2, CloseType, SymbolIn
  <2>. HIDE DEF known
  <2>4. equity \in Int /\ peak \in Int
    BY <2>3, MarkedBook, MarketValueInt DEF EngineTypeOK
  <2>5. Max({peak, equity}) = Ratcheted(peak, equity)
    <3>. HIDE DEF equity
    <3>1. /\ Max({peak, equity}) \in Int /\ peak <= Max({peak, equity})
          /\ equity <= Max({peak, equity})
          /\ Max({peak, equity}) = peak \/ Max({peak, equity}) = equity
      BY <2>4, PairMax
    <3>2. QED BY <2>4, <3>1 DEF Ratcheted
  <2>6. RealizedAsEngine' = RealizedAsEngine
    BY <2>1 DEF RealizedAsEngine, SellFees
  <2>7. Account!GetPortfolioState(known)
    <3>1. positions' = book /\ peak' = Ratcheted(peak, cash + MarketValue(book))
      BY <2>1, <2>5
    <3>. HIDE DEF book
    <3>2. QED BY <2>1, <2>6, <3>1, AccountMarks DEF book
  <2>8. QED BY <2>3, <2>7, AccountState
<1>6. CASE Decide
  <2>1. UNCHANGED <<peak, dropped>> /\ Close \in Nat
    BY <1>6, DecideCases DEF Decide
  <2>2. CASE UNCHANGED <<cash, positions, realized, filled, bracket, pnls>>
    BY <1>1, <2>1, <2>2
  <2>3. CASE ~Open /\ \E size \in Nat : Buy(size, Close)
    BY <2>1, <2>3, BuyAccount
  <2>4. CASE Open /\ Sell(Close)
    BY <1>2, <2>1, <2>4, SellAccount
  <2>5. QED BY <1>6, <2>2, <2>3, <2>4, DecideCases
<1>7. QED BY <1>3, <1>4, <1>5, <1>6 DEF BacktestNext

LEMMA AccountStart == DriversInit => Account!EngineInit
<1>. SUFFICES ASSUME DriversInit PROVE Account!EngineInit
  OBVIOUS
<1>1. EngineInit
  BY DEF DriversInit
<1>2. SellFees = 0
  <2>. DEFINE f == [i \in DOMAIN filled |->
                      IF filled[i].side = "SELL" THEN filled[i].commission ELSE 0]
  <2>1. DOMAIN filled = {} /\ f \in [{} -> Int]
    BY <1>1 DEF EngineInit
  <2>2. IsFiniteSet({})
    BY FS_EmptySet
  <2>. HIDE DEF f
  <2>3. SumFunction(f) = 0
    BY <2>1, <2>2, SumZero
  <2>4. QED BY <2>3 DEF f, SellFees
<1>3. QED BY <1>1, <1>2 DEF EngineInit, Account!EngineInit

\* A backtest's account is one of the paper trading engine, which is shown to
\* conserve money: with the commissions of its exits counted as the engine
\* counts them, every step is one of execute_order or get_portfolio_state.
THEOREM BacktestIsAccountHolds ==
  ASSUME AnyOrder PROVE DriversSpec => BacktestIsAccount
<1>1. DriversInv /\ [DriversNext]_driverVars => [Account!EngineNext]_(Account!engineVars)
  <2>. SUFFICES ASSUME DriversInv, [DriversNext]_driverVars
                PROVE  Account!EngineNext \/ UNCHANGED Account!engineVars
    OBVIOUS
  <2>1. CASE driver = "pipeline" /\ PipelineNext /\ UNCHANGED <<backtestVars, deskVars, driver>>
    BY <2>1, AnyOrder, PipelineAccount DEF DriversInv
  <2>2. CASE driver = "backtest" /\ BacktestNext /\ UNCHANGED <<pipelineVars, deskVars, driver>>
    BY <2>2, AnyOrder, BacktestAccount DEF DriversInv
  <2>3. CASE (driver = "desk" /\ DeskNext /\ UNCHANGED driver) \/ UNCHANGED driverVars
    <3>1. UNCHANGED <<engineVars, driver>>
      BY <2>3 DEF DeskNext, Perceive, Analyze, Govern, driverVars
    <3>2. RealizedAsEngine' = RealizedAsEngine
      BY <3>1 DEF engineVars, RealizedAsEngine, SellFees
    <3>3. QED BY <3>1, <3>2, AccountSame DEF engineVars
  <2>4. QED BY <2>1, <2>2, <2>3 DEF DriversNext
<1>2. QED BY <1>1, AccountStart, DriversStart, DriversKeep, PTL
      DEF DriversSpec, BacktestIsAccount, Account!EngineSpec

-----------------------------------------------------------------------------
(***************************************************************************)
(* The fold of clean_candle_sequence.  It is a recursive function on the   *)
(* sets of indices of the candles that takes the last index away; that it  *)
(* is defined and can be unfolded is proved on a smallest set of indices   *)
(* that would be an exception, as for the sums.                            *)
(***************************************************************************)
Top(s) == CHOOSE x \in s : \A y \in s : x >= y

SolvesClean(h, items, S) ==
  h = [s \in SUBSET S |->
         IF s = {} THEN << >> ELSE CleanStep(h[s \ {Top(s)}], items[Top(s)])]

Cleaned(items, S) == (CHOOSE h : SolvesClean(h, items, S))[S]

LEMMA FoldCleans ==
  ASSUME NEW items
  PROVE  FoldLeft(CleanStep, << >>, items) = Cleaned(items, DOMAIN items)
BY DEF FoldLeft, MapThenFoldSet, Cleaned, SolvesClean, Top, Max

\* One of finitely many numbers is the greatest.
LEMMA GreatestOf ==
  ASSUME NEW S, IsFiniteSet(S), S # {}, NEW f \in [S -> Int]
  PROVE  \E x \in S : \A y \in S : f[x] >= f[y]
<1>. DEFINE Bad == {U \in SUBSET S : U # {} /\ ~ \E x \in U : \A y \in U : f[x] >= f[y]}
<1>1. SUFFICES ASSUME Bad # {} PROVE FALSE
  OBVIOUS
<1>2. PICK U \in Bad : \A V \in SUBSET U : V # U => V \notin Bad
  <2>1. Bad \in SUBSET (SUBSET S)
    OBVIOUS
  <2>. HIDE DEF Bad
  <2>2. QED BY <1>1, <2>1, MinimalSubset
<1>3. U \in SUBSET S /\ U # {} /\ ~ \E x \in U : \A y \in U : f[x] >= f[y]
  BY <1>2
<1>4. PICK e \in U : TRUE
  BY <1>3
<1>5. U \ {e} \in SUBSET U /\ U \ {e} # U /\ U \ {e} \in SUBSET S
  BY <1>3, <1>4
<1>6. U \ {e} \notin Bad
  BY <1>2, <1>5
<1>7. f[e] \in Int /\ \A y \in U : f[y] \in Int
  BY <1>3, <1>4
<1>8. CASE U \ {e} = {}
  BY <1>3, <1>4, <1>7, <1>8
<1>9. CASE U \ {e} # {}
  <2>1. PICK x \in U \ {e} : \A y \in U \ {e} : f[x] >= f[y]
    BY <1>5, <1>6, <1>9
  <2>2. f[x] \in Int
    BY <1>7, <2>1
  <2>3. CASE f[x] >= f[e]
    BY <1>3, <2>1, <2>3
  <2>4. CASE ~(f[x] >= f[e])
    <3>1. \A y \in U : f[e] >= f[y]
      BY <1>7, <2>1, <2>2, <2>4
    <3>2. QED BY <1>3, <1>4, <3>1
  <2>5. QED BY <2>3, <2>4
<1>10. QED BY <1>8, <1>9

LEMMA TopIn ==
  ASSUME NEW S \in SUBSET Int, IsFiniteSet(S), S # {}
  PROVE  Top(S) \in S /\ \A y \in S : y <= Top(S)
<1>. DEFINE f == [x \in S |-> x]
<1>1. f \in [S -> Int]
  OBVIOUS
<1>2. \E x \in S : \A y \in S : f[x] >= f[y]
  <2>. HIDE DEF f
  <2>. QED BY <1>1, GreatestOf
<1>3. \E x \in S : \A y \in S : x >= y
  BY <1>2
<1>4. Top(S) \in S /\ \A y \in S : Top(S) >= y
  BY <1>3 DEF Top
<1>5. QED BY <1>4

\* Two solutions agree wherever both are defined and the candles are the same.
LEMMA CleaningsAgree ==
  ASSUME NEW S \in SUBSET Int, IsFiniteSet(S), NEW U \in SUBSET S, NEW V \in SUBSET S,
         NEW f, NEW k, \A i \in S : f[i] = k[i],
         NEW g, SolvesClean(g, f, U), NEW h, SolvesClean(h, k, V),
         NEW s \in SUBSET (U \cap V)
  PROVE  g[s] = h[s]
<1>. DEFINE Bad == {t \in SUBSET (U \cap V) : g[t] # h[t]}
<1>1. SUFFICES ASSUME Bad # {} PROVE FALSE
  OBVIOUS
<1>2. Bad \in SUBSET (SUBSET S)
  OBVIOUS
<1>3. PICK t \in Bad : \A r \in SUBSET t : r # t => r \notin Bad
  <2>. HIDE DEF Bad
  <2>. QED BY <1>1, <1>2, MinimalSubset
<1>4. t \in SUBSET U /\ t \in SUBSET V /\ g[t] # h[t] /\ t \in SUBSET S
  BY <1>3
<1>5. CASE t = {}
  BY <1>4, <1>5 DEF SolvesClean
<1>6. CASE t # {}
  <2>1. Top(t) \in t
    <3>1. t \in SUBSET Int /\ IsFiniteSet(t)
      BY <1>4, FS_Subset
    <3>2. QED BY <1>6, <3>1, TopIn
  <2>2. g[t \ {Top(t)}] = h[t \ {Top(t)}]
    BY <1>3, <1>4, <2>1
  <2>3. g[t] = CleanStep(g[t \ {Top(t)}], f[Top(t)])
    BY <1>4, <1>6 DEF SolvesClean
  <2>4. h[t] = CleanStep(h[t \ {Top(t)}], k[Top(t)])
    BY <1>4, <1>6 DEF SolvesClean
  <2>5. f[Top(t)] = k[Top(t)]
    BY <1>4, <2>1
  <2>6. QED BY <1>4, <2>2, <2>3, <2>4, <2>5
<1>7. QED BY <1>5, <1>6

LEMMA CleaningExists ==
  ASSUME NEW S \in SUBSET Int, IsFiniteSet(S), NEW f
  PROVE  \E h : SolvesClean(h, f, S)
<1>. DEFINE Bad == {U \in SUBSET S : ~ \E h : SolvesClean(h, f, U)}
<1>1. SUFFICES ASSUME Bad # {} PROVE FALSE
  OBVIOUS
<1>2. PICK U \in Bad : \A V \in SUBSET U : V # U => V \notin Bad
  <2>1. Bad \in SUBSET (SUBSET S)
    OBVIOUS
  <2>. HIDE DEF Bad
  <2>2. QED BY <1>1, <2>1, MinimalSubset
<1>3. U \in SUBSET S /\ U \in SUBSET Int
  BY <1>2
<1>4. \A V \in SUBSET U : V # U => SolvesClean(CHOOSE h : SolvesClean(h, f, V), f, V)
  <2>1. SUFFICES ASSUME NEW V \in SUBSET U, V # U
                 PROVE  \E h : SolvesClean(h, f, V)
    OBVIOUS
  <2>2. V \notin Bad /\ V \in SUBSET S
    BY <1>2, <1>3, <2>1
  <2>3. QED BY <2>2
<1>5. \A s \in SUBSET U : s # {} => Top(s) \in s
  <2>1. SUFFICES ASSUME NEW s \in SUBSET U, s # {} PROVE Top(s) \in s
    OBVIOUS
  <2>2. s \in SUBSET Int /\ IsFiniteSet(s)
    <3>1. s \in SUBSET S
      BY <1>3
    <3>2. QED BY <3>1, FS_Subset
  <2>3. QED BY <2>1, <2>2, TopIn
<1>. DEFINE k == [s \in SUBSET U |->
                    IF s = {} THEN << >> ELSE CleanStep(Cleaned(f, s \ {Top(s)}), f[Top(s)])]
<1>6. ASSUME NEW s \in SUBSET U, s # U
      PROVE  k[s] = Cleaned(f, s)
  <2>. DEFINE g == CHOOSE h : SolvesClean(h, f, s)
  <2>1. SolvesClean(g, f, s)
    BY <1>4, <1>6
  <2>2. s \in SUBSET s
    OBVIOUS
  <2>3. CASE s = {}
    <3>1. g[s] = << >>
      <4>. HIDE DEF g
      <4>. QED BY <2>1, <2>2, <2>3 DEF SolvesClean
    <3>2. Cleaned(f, s) = g[s]
      BY DEF Cleaned
    <3>3. k[s] = << >>
      BY <1>6, <2>3
    <3>4. QED BY <3>1, <3>2, <3>3
  <2>4. CASE s # {}
    <3>. DEFINE r == s \ {Top(s)}
                q == CHOOSE h : SolvesClean(h, f, r)
    <3>1. Top(s) \in s
      BY <1>5, <2>4
    <3>2. r \in SUBSET U /\ r # U /\ r \in SUBSET s /\ r \in SUBSET r
      BY <3>1, <1>6
    <3>3. SolvesClean(q, f, r)
      BY <1>4, <3>2
    <3>4. g[r] = q[r]
      <4>1. r \in SUBSET (s \cap r) /\ s \in SUBSET S /\ r \in SUBSET S
        BY <3>2, <1>3
      <4>2. \A i \in S : f[i] = f[i]
        OBVIOUS
      <4>. HIDE DEF g, q, r
      <4>3. QED BY <2>1, <3>3, <4>1, <4>2, CleaningsAgree, SMTT(30)
    <3>5. g[s] = CleanStep(g[r], f[Top(s)])
      <4>. HIDE DEF g
      <4>. QED BY <2>1, <2>2, <2>4 DEF SolvesClean
    <3>6. Cleaned(f, s) = g[s] /\ Cleaned(f, r) = q[r]
      BY DEF Cleaned
    <3>7. k[s] = CleanStep(Cleaned(f, r), f[Top(s)])
      BY <1>6, <2>4
    <3>. HIDE DEF g, q, r, k
    <3>8. QED BY <3>4, <3>5, <3>6, <3>7
  <2>5. QED BY <2>3, <2>4
<1>7. \A s \in SUBSET U : s # {} => k[s \ {Top(s)}] = Cleaned(f, s \ {Top(s)})
  <2>1. SUFFICES ASSUME NEW s \in SUBSET U, s # {}
                 PROVE  k[s \ {Top(s)}] = Cleaned(f, s \ {Top(s)})
    OBVIOUS
  <2>2. s \ {Top(s)} \in SUBSET U /\ s \ {Top(s)} # U
    BY <1>5, <2>1
  <2>. HIDE DEF k
  <2>3. QED BY <1>6, <2>2
<1>8. SolvesClean(k, f, U)
  <2>1. k = [s \in SUBSET U |->
               IF s = {} THEN << >> ELSE CleanStep(k[s \ {Top(s)}], f[Top(s)])]
    <3>. DEFINE a(s) == IF s = {} THEN << >> ELSE CleanStep(Cleaned(f, s \ {Top(s)}), f[Top(s)])
                b(s) == IF s = {} THEN << >> ELSE CleanStep(k[s \ {Top(s)}], f[Top(s)])
    <3>1. \A s \in SUBSET U : a(s) = b(s)
      <4>. HIDE DEF k
      <4>. QED BY <1>7
    <3>2. k = [s \in SUBSET U |-> a(s)]
      OBVIOUS
    <3>3. [s \in SUBSET U |-> a(s)] = [s \in SUBSET U |-> b(s)]
      <4>. HIDE DEF a, b
      <4>. QED BY <3>1
    <3>. HIDE DEF k
    <3>4. QED BY <3>2, <3>3
  <2>. HIDE DEF k
  <2>2. QED BY <2>1 DEF SolvesClean
<1>9. QED
  <2>. HIDE DEF k
  <2>1. U \notin Bad
    BY <1>3, <1>8
  <2>2. QED BY <2>1, <1>2

\* The candles are taken one by one, and what comes later changes nothing.
LEMMA CleanedUnfold ==
  ASSUME NEW S \in SUBSET Int, IsFiniteSet(S), NEW f
  PROVE  /\ S = {} => Cleaned(f, S) = << >>
         /\ S # {} => Cleaned(f, S) = CleanStep(Cleaned(f, S \ {Top(S)}), f[Top(S)])
<1>. DEFINE g == CHOOSE h : SolvesClean(h, f, S)
            R == S \ {Top(S)}
            q == CHOOSE h : SolvesClean(h, f, R)
<1>1. IsFiniteSet(R) /\ R \in SUBSET Int
  BY FS_Subset
<1>2. SolvesClean(g, f, S) /\ SolvesClean(q, f, R)
  <2>1. (\E h : SolvesClean(h, f, S)) /\ (\E h : SolvesClean(h, f, R))
    <3>. HIDE DEF R
    <3>. QED BY <1>1, CleaningExists
  <2>2. QED BY <2>1
<1>3. Cleaned(f, S) = g[S] /\ Cleaned(f, R) = q[R]
  BY DEF Cleaned
<1>4. S \in SUBSET S /\ R \in SUBSET S /\ R \in SUBSET (S \cap R)
  OBVIOUS
<1>5. g[R] = q[R]
  <2>. HIDE DEF g, q, R
  <2>. QED BY <1>2, <1>4, CleaningsAgree, SMTT(30)
<1>6. S = {} => g[S] = << >>
  <2>. HIDE DEF g
  <2>. QED BY <1>2, <1>4 DEF SolvesClean
<1>7. S # {} => g[S] = CleanStep(g[R], f[Top(S)])
  <2>. HIDE DEF g
  <2>. QED BY <1>2, <1>4 DEF SolvesClean
<1>. HIDE DEF g, q, R
<1>8. QED BY <1>3, <1>5, <1>6, <1>7 DEF R

LEMMA CleanedEqual ==
  ASSUME NEW S \in SUBSET Int, IsFiniteSet(S), NEW f, NEW k, \A i \in S : f[i] = k[i]
  PROVE  Cleaned(f, S) = Cleaned(k, S)
<1>. DEFINE g == CHOOSE h : SolvesClean(h, f, S)
            q == CHOOSE h : SolvesClean(h, k, S)
<1>1. SolvesClean(g, f, S) /\ SolvesClean(q, k, S)
  <2>1. (\E h : SolvesClean(h, f, S)) /\ (\E h : SolvesClean(h, k, S))
    BY CleaningExists
  <2>2. QED BY <2>1
<1>2. Cleaned(f, S) = g[S] /\ Cleaned(k, S) = q[S]
  BY DEF Cleaned
<1>3. S \in SUBSET (S \cap S) /\ S \in SUBSET S
  OBVIOUS
<1>4. g[S] = q[S]
  <2>1. \A i \in S : f[i] = k[i]
    OBVIOUS
  <2>2. S \in SUBSET Int /\ IsFiniteSet(S)
    OBVIOUS
  <2>3. ASSUME NEW U \in SUBSET S, NEW V \in SUBSET S, NEW a, SolvesClean(a, f, U),
               NEW b, SolvesClean(b, k, V), NEW s \in SUBSET (U \cap V)
        PROVE  a[s] = b[s]
    BY <2>1, <2>2, <2>3, CleaningsAgree
  <2>. HIDE DEF g, q
  <2>4. QED BY <1>1, <1>3, <2>3
<1>. HIDE DEF g, q
<1>5. QED BY <1>2, <1>4

-----------------------------------------------------------------------------
(***************************************************************************)
(* Candles that arrive in order of time: sorting them changes nothing, and *)
(* cleaning them one by one makes the same of them as cleaning all.        *)
(***************************************************************************)
LEMMA FirstNumbers ==
  \A m \in Nat : Cardinality(1 .. m) = m /\ IsFiniteSet(1 .. m)
<1>1. SUFFICES ASSUME NEW m \in Nat PROVE Cardinality(1 .. m) = m /\ IsFiniteSet(1 .. m)
  OBVIOUS
<1>2. m \in Int /\ 1 \in Int
  OBVIOUS
<1>3. IsFiniteSet(1 .. m) /\ Cardinality(1 .. m) = IF 1 > m THEN 0 ELSE m - 1 + 1
  BY <1>2, FS_Interval
<1>4. QED BY <1>3

LEMMA ByTimeInOrder ==
  ASSUME NEW C, \A c \in C : c.time \in Int, NEW items \in Seq(C), InOrder(items)
  PROVE  ByTime(items) = items
<1>. DEFINE n == Len(items)
            E(i) == {j \in DOMAIN items : \/ items[j].time < items[i].time
                                          \/ items[j].time = items[i].time /\ j < i}
            At(k) == CHOOSE i \in DOMAIN items : Cardinality(E(i)) = k - 1
<1>1. n \in Nat /\ DOMAIN items = 1 .. n /\ items = [k \in DOMAIN items |-> items[k]]
  OBVIOUS
<1>2. \A i \in 1 .. n : items[i].time \in Int
  OBVIOUS
<1>3. \A i, j \in 1 .. n : i < j => items[i].time <= items[j].time
  BY <1>1 DEF InOrder
<1>4. \A i \in 1 .. n : Cardinality(E(i)) = i - 1
  <2>1. SUFFICES ASSUME NEW i \in 1 .. n PROVE Cardinality(E(i)) = i - 1
    OBVIOUS
  <2>2. E(i) = 1 .. (i - 1)
    <3>. DEFINE t(j) == items[j].time
    <3>1. \A j \in 1 .. n : t(j) \in Int
      BY <1>2
    <3>2. \A j \in 1 .. n : (i < j => t(i) <= t(j)) /\ (j < i => t(j) <= t(i))
      BY <1>3
    <3>3. E(i) = {j \in 1 .. n : t(j) < t(i) \/ (t(j) = t(i) /\ j < i)}
      BY <1>1
    <3>. HIDE DEF t, n, E
    <3>4. QED BY <1>1, <3>1, <3>2, <3>3
  <2>. HIDE DEF E, n
  <2>3. QED BY <1>1, <2>2, FirstNumbers
<1>5. \A k \in 1 .. n : At(k) = k
  <2>. HIDE DEF E, n
  <2>. QED BY <1>1, <1>4
<1>6. ByTime(items) = [k \in DOMAIN items |-> items[At(k)]]
  BY DEF ByTime
<1>. HIDE DEF At, n
<1>7. QED BY <1>1, <1>5, <1>6

\* The first candles of some that are in order are in order.
LEMMA InOrderFirst ==
  ASSUME NEW C, NEW items \in Seq(C), NEW c \in C, InOrder(Append(items, c))
  PROVE  InOrder(items)
<1>. DEFINE more == Append(items, c)
            n == Len(items)
<1>1. /\ n \in Nat /\ DOMAIN items = 1 .. n /\ DOMAIN more = 1 .. (n + 1)
      /\ \A i \in 1 .. n : more[i] = items[i]
  OBVIOUS
<1>2. \A i, j \in 1 .. (n + 1) : i < j => more[i].time <= more[j].time
  BY <1>1 DEF InOrder
<1>. HIDE DEF more, n
<1>3. \A i, j \in 1 .. n : i < j => items[i].time <= items[j].time
  BY <1>1, <1>2
<1>4. QED BY <1>1, <1>3 DEF InOrder

\* What is made of nothing, and of one candle more.
LEMMA CleanNone == CleanSequence(<< >>) = << >>
<1>1. ByTime(<< >>) = << >>
  BY DEF ByTime
<1>2. FoldLeft(CleanStep, << >>, << >>) = Cleaned(<< >>, {})
  BY FoldCleans
<1>3. {} \in SUBSET Int /\ IsFiniteSet({})
  BY FS_EmptySet
<1>4. Cleaned(<< >>, {}) = << >>
  BY <1>3, CleanedUnfold
<1>5. QED BY <1>1, <1>2, <1>4 DEF CleanSequence

LEMMA CleanNext ==
  ASSUME NEW C, \A x \in C : x.time \in Int, NEW items \in Seq(C), NEW c \in C,
         InOrder(Append(items, c))
  PROVE  CleanSequence(Append(items, c)) = CleanStep(CleanSequence(items), c)
<1>. DEFINE more == Append(items, c)
            n == Len(items)
            S == 1 .. n
            T == 1 .. (n + 1)
<1>1. /\ n \in Nat /\ DOMAIN items = S /\ DOMAIN more = T /\ more[n + 1] = c
      /\ \A i \in S : more[i] = items[i]
      /\ more \in Seq(C)
  OBVIOUS
<1>2. ByTime(items) = items /\ ByTime(more) = more
  BY <1>1, InOrderFirst, ByTimeInOrder
<1>3. CleanSequence(items) = Cleaned(items, S) /\ CleanSequence(more) = Cleaned(more, T)
  <2>1. /\ FoldLeft(CleanStep, << >>, items) = Cleaned(items, DOMAIN items)
        /\ FoldLeft(CleanStep, << >>, more) = Cleaned(more, DOMAIN more)
    BY FoldCleans
  <2>. HIDE DEF more
  <2>2. QED BY <1>1, <1>2, <2>1 DEF CleanSequence
<1>4. S \in SUBSET Int /\ IsFiniteSet(S) /\ T \in SUBSET Int /\ IsFiniteSet(T) /\ T # {}
  <2>1. n + 1 \in Int /\ n \in Int
    BY <1>1
  <2>2. IsFiniteSet(S) /\ IsFiniteSet(T)
    <3>. HIDE DEF n
    <3>. QED BY <2>1, FS_Interval
  <2>3. S \in SUBSET Int /\ T \in SUBSET Int /\ n + 1 \in T
    BY <1>1
  <2>4. QED BY <2>2, <2>3
<1>5. Top(T) = n + 1 /\ T \ {n + 1} = S
  <2>1. Top(T) \in T /\ \A y \in T : y <= Top(T)
    <3>. HIDE DEF T
    <3>. QED BY <1>4, TopIn
  <2>. HIDE DEF n
  <2>2. QED BY <1>1, <2>1
<1>6. Cleaned(more, T) = CleanStep(Cleaned(more, S), more[n + 1])
  <2>. HIDE DEF more, n, S, T
  <2>. QED BY <1>4, <1>5, CleanedUnfold
<1>7. Cleaned(more, S) = Cleaned(items, S)
  <2>. HIDE DEF more, n, S, T
  <2>. QED BY <1>1, <1>4, CleanedEqual
<1>. HIDE DEF more, n, S, T
<1>8. QED BY <1>1, <1>3, <1>6, <1>7 DEF more

-----------------------------------------------------------------------------
(***************************************************************************)
(* A vector that is put among others in order goes behind those that are   *)
(* not later than it.                                                      *)
(***************************************************************************)
Vector == [time : Nat, seen : Nat]

FunctionOn(W, n) == W = [k \in 1 .. n |-> W[k]]

\* W is V with x put in behind the first p items.
PutIn(W, V, x, p) ==
  /\ p \in 0 .. Len(V)
  /\ FunctionOn(W, Len(V) + 1) /\ DOMAIN W = 1 .. (Len(V) + 1)
  /\ \A k \in 1 .. p : W[k] = V[k] /\ V[k].time <= x.time
  /\ W[p + 1] = x
  /\ \A k \in (p + 1) .. Len(V) : W[k + 1] = V[k] /\ x.time < V[k].time

\* The first n times are in order, and those up to p are not later than the last.
Rising(t, n) == \A i, j \in 1 .. n : i < j => t[i] <= t[j]
Splits(p, t, n) == \A j \in 1 .. n : t[j] <= t[n + 1] <=> j <= p

\* How many items in order are not later than a time.
LEMMA NotLater ==
  \A n \in Nat : \A t \in [1 .. (n + 1) -> Int] :
    Rising(t, n) => \E p \in 0 .. n : Splits(p, t, n)
<1>. SUFFICES ASSUME NEW n \in Nat, NEW t \in [1 .. (n + 1) -> Int], Rising(t, n)
              PROVE  \E p \in 0 .. n : Splits(p, t, n)
  OBVIOUS
<1>0. \A i, j \in 1 .. n : i < j => t[i] <= t[j]
  BY DEF Rising
<1>. DEFINE y == t[n + 1]
            S == {j \in 0 .. n : j = 0 \/ t[j] <= y}
<1>1. S \in SUBSET Int /\ S # {} /\ IsFiniteSet(S)
  <2>1. 0 \in S /\ S \in SUBSET (0 .. n)
    OBVIOUS
  <2>2. IsFiniteSet(0 .. n)
    BY FS_Interval
  <2>. HIDE DEF S
  <2>3. IsFiniteSet(S)
    BY <2>1, <2>2, FS_Subset
  <2>4. QED BY <2>1, <2>3
<1>. DEFINE p == Top(S)
<1>2. p \in S /\ \A j \in S : j <= p
  <2>. HIDE DEF S
  <2>. QED BY <1>1, TopIn
<1>. HIDE DEF p
<1>3. p \in 0 .. n /\ (p = 0 \/ t[p] <= y)
  BY <1>2
<1>4. ASSUME NEW j \in 1 .. n PROVE t[j] <= y <=> j <= p
  <2>1. ASSUME t[j] <= y PROVE j <= p
    <3>1. j \in S
      BY <2>1
    <3>2. QED BY <1>2, <3>1
  <2>2. ASSUME j <= p PROVE t[j] <= y
    <3>1. p \in 1 .. n /\ t[p] <= y
      BY <1>3, <2>2
    <3>2. CASE j = p
      BY <3>1, <3>2
    <3>3. CASE j < p
      <4>1. t[j] <= t[p] /\ t[j] \in Int /\ t[p] \in Int /\ y \in Int
        BY <1>0, <3>1, <3>3
      <4>2. QED BY <3>1, <4>1
    <3>4. QED BY <1>3, <2>2, <3>2, <3>3
  <2>3. QED BY <2>1, <2>2
<1>5. QED BY <1>3, <1>4 DEF Splits

\* Where the items of a sequence in order and one more come in order of time.
Before(i, t, n) == {j \in 1 .. (n + 1) : t[j] < t[i] \/ (t[j] = t[i] /\ j < i)}

LEMMA Ranks ==
  \A n \in Nat : \A t \in [1 .. (n + 1) -> Int] :
    \A p \in 0 .. n : Rising(t, n) /\ Splits(p, t, n) =>
      \A i \in 1 .. (n + 1) :
        Cardinality(Before(i, t, n)) = IF i <= p THEN i - 1 ELSE IF i = n + 1 THEN p ELSE i
<1>. SUFFICES ASSUME NEW n \in Nat, NEW t \in [1 .. (n + 1) -> Int], NEW p \in 0 .. n,
                     Rising(t, n), Splits(p, t, n), NEW i \in 1 .. (n + 1)
              PROVE  Cardinality(Before(i, t, n)) =
                       IF i <= p THEN i - 1 ELSE IF i = n + 1 THEN p ELSE i
  OBVIOUS
<1>0. /\ \A k, j \in 1 .. n : k < j => t[k] <= t[j]
      /\ \A j \in 1 .. n : t[j] <= t[n + 1] <=> j <= p
      /\ \A j \in 1 .. (n + 1) : t[j] \in Int
  BY DEF Rising, Splits
<1>. DEFINE E == {j \in 1 .. (n + 1) : t[j] < t[i] \/ (t[j] = t[i] /\ j < i)}
<1>1. CASE i = n + 1
  <2>1. E = 1 .. p
    BY <1>0, <1>1
  <2>. HIDE DEF E
  <2>2. Cardinality(E) = p
    BY <2>1, FirstNumbers
  <2>3. QED BY <1>1, <2>2 DEF E, Before
<1>2. CASE i \in 1 .. n /\ i <= p
  <2>1. \A j \in 1 .. n : (i < j => t[i] <= t[j]) /\ (j < i => t[j] <= t[i])
    BY <1>0, <1>2
  <2>2. t[i] <= t[n + 1] /\ t[i] \in Int /\ t[n + 1] \in Int
    BY <1>0, <1>2
  <2>3. E = 1 .. (i - 1)
    BY <1>0, <1>2, <2>1, <2>2
  <2>. HIDE DEF E
  <2>4. Cardinality(E) = i - 1
    BY <1>2, <2>3, FirstNumbers
  <2>5. QED BY <1>2, <2>4 DEF E, Before
<1>3. CASE i \in 1 .. n /\ ~(i <= p)
  <2>1. \A j \in 1 .. n : (i < j => t[i] <= t[j]) /\ (j < i => t[j] <= t[i])
    BY <1>0, <1>3
  <2>2. t[n + 1] < t[i] /\ t[i] \in Int /\ t[n + 1] \in Int
    BY <1>0, <1>3
  <2>3. E = (1 .. (i - 1)) \cup {n + 1}
    <3>1. ASSUME NEW j \in 1 .. n
          PROVE  (t[j] < t[i] \/ (t[j] = t[i] /\ j < i)) <=> j < i
      <4>1. t[j] \in Int /\ t[i] \in Int
        BY <1>0, <1>3
      <4>2. QED BY <1>3, <2>1, <4>1
    <3>2. t[n + 1] < t[i]
      BY <2>2
    <3>3. \A j \in 1 .. (n + 1) : j \in E <=> j < i \/ j = n + 1
      <4>1. SUFFICES ASSUME NEW j \in 1 .. (n + 1) PROVE j \in E <=> j < i \/ j = n + 1
        OBVIOUS
      <4>2. CASE j = n + 1
        BY <3>2, <4>2
      <4>3. CASE j # n + 1
        <5>1. j \in 1 .. n
          BY <4>3
        <5>2. QED BY <3>1, <4>3, <5>1
      <4>4. QED BY <4>2, <4>3
    <3>4. E \in SUBSET (1 .. (n + 1))
      OBVIOUS
    <3>. DEFINE F == (1 .. (i - 1)) \cup {n + 1}
    <3>5. \A j \in 1 .. (n + 1) : j \in F <=> j < i \/ j = n + 1
      BY <1>3
    <3>6. F \in SUBSET (1 .. (n + 1))
      BY <1>3
    <3>. HIDE DEF E, F
    <3>7. E = F
      BY <3>3, <3>4, <3>5, <3>6
    <3>8. QED BY <3>7 DEF F
  <2>. DEFINE m == i - 1
  <2>4. m \in Nat /\ n + 1 \notin 1 .. m /\ m + 1 = i
    BY <1>3
  <2>. HIDE DEF E, m
  <2>5. Cardinality(1 .. m) = m /\ IsFiniteSet(1 .. m)
    BY <2>4, FirstNumbers
  <2>6. Cardinality((1 .. m) \cup {n + 1}) = m + 1
    BY <2>4, <2>5, FS_AddElement
  <2>7. Cardinality(E) = i
    BY <2>3, <2>4, <2>6 DEF m
  <2>8. QED BY <1>3, <2>7 DEF E, Before
<1>4. QED BY <1>1, <1>2, <1>3

LEMMA PutFeaturesIn ==
  ASSUME NEW V \in Seq(Vector), InOrder(V), NEW x \in Vector
  PROVE  \E p \in 0 .. Len(V) : PutIn(PutFeatures(V, x), V, x, p)
<1>. DEFINE n == Len(V)
            more == Append(V, x)
            t == [j \in 1 .. (n + 1) |-> more[j].time]
            E(i) == {j \in DOMAIN more : \/ more[j].time < more[i].time
                                         \/ more[j].time = more[i].time /\ j < i}
            At(k) == CHOOSE i \in DOMAIN more : Cardinality(E(i)) = k - 1
            W == PutFeatures(V, x)
<1>1. /\ n \in Nat /\ DOMAIN V = 1 .. n /\ DOMAIN more = 1 .. (n + 1) /\ more[n + 1] = x
      /\ \A j \in 1 .. n : more[j] = V[j] /\ V[j] \in Vector
  OBVIOUS
<1>2. \A y \in Vector : y.time \in Int
  BY DEF Vector
<1>3. \A i, j \in 1 .. n : i < j => V[i].time <= V[j].time
  BY <1>1 DEF InOrder
<1>4. W = [k \in 1 .. (n + 1) |-> more[At(k)]]
  <2>1. W = [k \in DOMAIN more |-> more[At(k)]]
    BY DEF PutFeatures, ByTime
  <2>. HIDE DEF more, At, W
  <2>2. QED BY <1>1, <2>1
<1>. HIDE DEF more, n
<1>5. /\ \A j \in 1 .. (n + 1) : t[j] = more[j].time /\ t[j] \in Int
      /\ \A j \in 1 .. n : t[j] = V[j].time
      /\ t[n + 1] = x.time
  <2>1. \A j \in 1 .. (n + 1) : more[j] \in Vector
    <3>1. \A j \in 1 .. (n + 1) : j \in 1 .. n \/ j = n + 1
      BY <1>1
    <3>2. QED BY <1>1, <3>1
  <2>2. \A j \in 1 .. n : j \in 1 .. (n + 1)
    BY <1>1
  <2>3. n + 1 \in 1 .. (n + 1)
    BY <1>1
  <2>4. QED BY <1>1, <1>2, <2>1, <2>2, <2>3
<1>6. \A i \in 1 .. (n + 1) : E(i) = Before(i, t, n)
  <2>. HIDE DEF t
  <2>. QED BY <1>1, <1>5 DEF Before
<1>7. t \in [1 .. (n + 1) -> Int]
  BY <1>5
<1>. HIDE DEF t, E, W
<1>8. Rising(t, n)
  BY <1>3, <1>5 DEF Rising
<1>9. PICK p \in 0 .. n : Splits(p, t, n)
  BY <1>1, <1>7, <1>8, NotLater
<1>10. \A j \in 1 .. n : t[j] <= t[n + 1] <=> j <= p
  BY <1>9 DEF Splits
<1>11. \A i \in 1 .. (n + 1) :
         Cardinality(E(i)) = IF i <= p THEN i - 1 ELSE IF i = n + 1 THEN p ELSE i
  BY <1>1, <1>6, <1>7, <1>8, <1>9, Ranks
<1>12. /\ \A k \in 1 .. p : At(k) = k
       /\ At(p + 1) = n + 1
       /\ \A k \in (p + 1) .. n : At(k + 1) = k
  BY <1>1, <1>11
<1>. HIDE DEF At
<1>13. /\ \A k \in 1 .. p : W[k] = V[k]
       /\ W[p + 1] = x
       /\ \A k \in (p + 1) .. n : W[k + 1] = V[k]
  <2>1. /\ \A k \in 1 .. p : k \in 1 .. (n + 1) /\ k \in 1 .. n
        /\ p + 1 \in 1 .. (n + 1)
        /\ \A k \in (p + 1) .. n : k + 1 \in 1 .. (n + 1) /\ k \in 1 .. n
    BY <1>1, <1>9
  <2>2. QED BY <1>1, <1>4, <1>12, <2>1
<1>14. /\ \A k \in 1 .. p : V[k].time <= x.time
       /\ \A k \in (p + 1) .. n : x.time < V[k].time
  <2>1. (\A k \in 1 .. p : k \in 1 .. n /\ k <= p) /\ \A k \in (p + 1) .. n : k \in 1 .. n /\ ~(k <= p)
    BY <1>1, <1>9
  <2>2. \A k \in 1 .. n : V[k].time <= x.time <=> k <= p
    BY <1>5, <1>10
  <2>3. \A k \in 1 .. n : V[k].time \in Int
    BY <1>1, <1>2
  <2>4. x.time \in Int
    BY <1>2
  <2>5. QED BY <2>1, <2>2, <2>3, <2>4
<1>15. FunctionOn(W, n + 1) /\ DOMAIN W = 1 .. (n + 1)
  BY <1>4 DEF FunctionOn
<1>16. PutIn(W, V, x, p)
  BY <1>10, <1>13, <1>14, <1>15 DEF PutIn, n
<1>17. QED BY <1>10, <1>16 DEF W, n

\* What is put in in order is in order, and a time that was there is there again.
Widens(V, x, W) ==
  /\ W \in Seq(Vector) /\ InOrder(W)
  /\ \A i \in DOMAIN W : W[i] = x \/ \E j \in DOMAIN V : W[i] = V[j]
  /\ \A j \in DOMAIN V : \E i \in DOMAIN W : W[i] = V[j]
  /\ \E i \in DOMAIN W : W[i] = x
  /\ Repeats(V) => Repeats(W)
  /\ (\E j \in DOMAIN V : V[j].time = x.time) => Repeats(W)

LEMMA PutFeaturesKeeps ==
  \A V \in Seq(Vector), x \in Vector : InOrder(V) => Widens(V, x, PutFeatures(V, x))
<1>. SUFFICES ASSUME NEW V \in Seq(Vector), NEW x \in Vector, InOrder(V)
              PROVE  Widens(V, x, PutFeatures(V, x))
  OBVIOUS
<1>. DEFINE n == Len(V)
            W == PutFeatures(V, x)
<1>1. PICK p \in 0 .. n : PutIn(W, V, x, p)
  BY PutFeaturesIn
<1>0. FunctionOn(W, n + 1)
  BY <1>1 DEF PutIn
<1>2. /\ n \in Nat /\ DOMAIN V = 1 .. n /\ DOMAIN W = 1 .. (n + 1)
      /\ \A k \in 1 .. n : V[k] \in Vector
      /\ \A k \in 1 .. p : W[k] = V[k] /\ V[k].time <= x.time
      /\ W[p + 1] = x
      /\ \A k \in (p + 1) .. n : W[k + 1] = V[k] /\ x.time < V[k].time
  BY <1>1 DEF PutIn
<1>. HIDE DEF n, W
<1>3. \A i, j \in 1 .. n : i < j => V[i].time <= V[j].time
  BY <1>2 DEF InOrder
<1>4. \A y \in Vector : y.time \in Int
  BY DEF Vector
<1>. DEFINE Old(i) == IF i <= p THEN i ELSE i - 1
            New(j) == IF j <= p THEN j ELSE j + 1
<1>5. \A i \in 1 .. (n + 1) : i # p + 1 => Old(i) \in 1 .. n /\ W[i] = V[Old(i)]
  <2>1. SUFFICES ASSUME NEW i \in 1 .. (n + 1), i # p + 1
                 PROVE  Old(i) \in 1 .. n /\ W[i] = V[Old(i)]
    OBVIOUS
  <2>2. CASE i <= p
    BY <1>1, <1>2, <2>2
  <2>3. CASE ~(i <= p)
    <3>1. i - 1 \in (p + 1) .. n /\ i - 1 \in 1 .. n /\ (i - 1) + 1 = i
      BY <1>1, <1>2, <2>1, <2>3
    <3>2. W[(i - 1) + 1] = V[i - 1]
      BY <1>2, <3>1
    <3>3. QED BY <2>3, <3>1, <3>2
  <2>4. QED BY <2>2, <2>3
<1>6. \A j \in 1 .. n : New(j) \in 1 .. (n + 1) /\ New(j) # p + 1 /\ W[New(j)] = V[j]
  <2>1. SUFFICES ASSUME NEW j \in 1 .. n
                 PROVE  New(j) \in 1 .. (n + 1) /\ New(j) # p + 1 /\ W[New(j)] = V[j]
    OBVIOUS
  <2>2. CASE j <= p
    BY <1>1, <1>2, <2>2
  <2>3. CASE ~(j <= p)
    <3>1. j \in (p + 1) .. n
      BY <1>1, <1>2, <2>3
    <3>2. QED BY <1>1, <1>2, <2>3, <3>1
  <2>4. QED BY <2>2, <2>3
<1>7. \A i, j \in 1 .. n : i # j => New(i) # New(j)
  BY <1>1
<1>8. p + 1 \in 1 .. (n + 1)
  BY <1>1, <1>2
<1>9. W \in Seq(Vector)
  <2>1. \A i \in 1 .. (n + 1) : W[i] \in Vector
    <3>. HIDE DEF Old
    <3>. QED BY <1>2, <1>5
  <2>2. W \in [1 .. (n + 1) -> Vector] /\ n + 1 \in Nat
    BY <1>0, <1>2, <2>1 DEF FunctionOn
  <2>3. QED BY <2>2
<1>10. InOrder(W)
  <2>1. SUFFICES ASSUME NEW i \in 1 .. (n + 1), NEW j \in 1 .. (n + 1), i < j
                 PROVE  W[i].time <= W[j].time
    BY <1>2 DEF InOrder
  <2>2. CASE i = p + 1
    <3>1. j - 1 \in (p + 1) .. n /\ (j - 1) + 1 = j /\ j - 1 \in 1 .. n
      BY <1>1, <1>2, <2>1, <2>2
    <3>2. W[(j - 1) + 1] = V[j - 1] /\ x.time < V[j - 1].time
      BY <1>2, <3>1
    <3>3. x.time \in Int /\ V[j - 1].time \in Int
      BY <1>2, <1>4, <3>1
    <3>4. W[i] = x /\ W[j] = V[j - 1]
      BY <1>2, <2>2, <3>1, <3>2
    <3>5. QED BY <3>2, <3>3, <3>4
  <2>3. CASE j = p + 1
    <3>1. i \in 1 .. p
      BY <1>1, <2>1, <2>3
    <3>2. QED BY <1>2, <2>3, <3>1
  <2>4. CASE i # p + 1 /\ j # p + 1
    <3>1. Old(i) <= Old(j) /\ Old(i) \in 1 .. n /\ Old(j) \in 1 .. n
      BY <1>1, <1>2, <1>5, <2>1, <2>4
    <3>2. W[i] = V[Old(i)] /\ W[j] = V[Old(j)]
      BY <1>5, <2>4
    <3>. DEFINE a == Old(i)
                b == Old(j)
    <3>3. a \in 1 .. n /\ b \in 1 .. n /\ a <= b /\ W[i] = V[a] /\ W[j] = V[b]
      BY <3>1, <3>2
    <3>. HIDE DEF a, b, Old
    <3>4. V[a].time \in Int
      BY <1>2, <1>4, <3>3
    <3>5. CASE a = b
      BY <3>3, <3>4, <3>5
    <3>6. CASE a < b
      BY <1>3, <3>3, <3>6
    <3>7. QED BY <3>3, <3>5, <3>6
  <2>5. QED BY <2>2, <2>3, <2>4
<1>. HIDE DEF Old, New
<1>11. \A i \in DOMAIN W : W[i] = x \/ \E j \in DOMAIN V : W[i] = V[j]
  BY <1>2, <1>5
<1>12. \A j \in DOMAIN V : \E i \in DOMAIN W : W[i] = V[j]
  BY <1>2, <1>6
<1>13. \E i \in DOMAIN W : W[i] = x
  BY <1>2, <1>8
<1>14. ASSUME Repeats(V) PROVE Repeats(W)
  <2>1. PICK i \in 1 .. n, j \in 1 .. n : i # j /\ V[i].time = V[j].time
    BY <1>2, <1>14 DEF Repeats
  <2>2. /\ New(i) \in DOMAIN W /\ New(j) \in DOMAIN W /\ New(i) # New(j)
        /\ W[New(i)].time = W[New(j)].time
    BY <1>2, <1>6, <1>7, <2>1
  <2>3. QED BY <2>2 DEF Repeats
<1>15. ASSUME NEW j \in DOMAIN V, V[j].time = x.time PROVE Repeats(W)
  <2>1. /\ New(j) \in DOMAIN W /\ p + 1 \in DOMAIN W /\ New(j) # p + 1
        /\ W[New(j)].time = W[p + 1].time
    BY <1>2, <1>6, <1>8, <1>15
  <2>2. QED BY <2>1 DEF Repeats
<1>16. QED BY <1>9, <1>10, <1>11, <1>12, <1>13, <1>14, <1>15 DEF Widens, W

-----------------------------------------------------------------------------
(***************************************************************************)
(* A buffer and the vectors of a symbol against the cleaned candles.       *)
(***************************************************************************)
\* The end of a longer sequence, element by element.
LEMMA LastNIs ==
  ASSUME NEW S, NEW seq \in Seq(S), NEW n \in Nat \ {0}, Len(seq) > n
  PROVE  /\ LastN(seq, n) \in [1 .. n -> S]
         /\ \A i \in 1 .. n : LastN(seq, n)[i] = seq[Len(seq) - n + i]
<1>. DEFINE from == Len(seq) - n + 1
            tail == SubSeq(seq, from, Len(seq))
<1>1. from \in 1 .. Len(seq) /\ LastN(seq, n) = tail
  BY DEF LastN
<1>2. tail \in Seq(S) /\ DOMAIN tail = 1 .. n /\ \A i \in 1 .. n : tail[i] = seq[from + i - 1]
  BY <1>1
<1>3. \A i \in 1 .. n : from + i - 1 = Len(seq) - n + i
  OBVIOUS
<1>4. tail \in [1 .. n -> S]
  <2>. HIDE DEF tail
  <2>. QED BY <1>2
<1>. HIDE DEF tail, from
<1>5. QED BY <1>1, <1>2, <1>3, <1>4

\* The end of a sequence that grows.
LEMMA LastNAgain ==
  ASSUME NEW S, NEW seq \in Seq(S), NEW c \in S, NEW n \in Nat \ {0}
  PROVE  LastN(Append(LastN(seq, n), c), n) = LastN(Append(seq, c), n)
<1>. DEFINE L == Len(seq)
<1>1. L \in Nat
  OBVIOUS
<1>2. CASE L <= n
  BY <1>2 DEF LastN
<1>3. CASE L > n
  <2>. DEFINE tail == LastN(seq, n)
              more == Append(seq, c)
              one == Append(tail, c)
              left == LastN(one, n)
              right == LastN(more, n)
  <2>1. tail \in [1 .. n -> S] /\ \A i \in 1 .. n : tail[i] = seq[L - n + i]
    BY <1>3, LastNIs
  <2>2. /\ more \in Seq(S) /\ Len(more) = L + 1 /\ more[L + 1] = c
        /\ \A i \in 1 .. L : more[i] = seq[i]
    OBVIOUS
  <2>3. /\ one \in Seq(S) /\ Len(one) = n + 1 /\ one[n + 1] = c
        /\ \A i \in 1 .. n : one[i] = tail[i]
    <3>1. tail \in Seq(S) /\ Len(tail) = n
      <4>. HIDE DEF tail
      <4>. QED BY <2>1
    <3>. HIDE DEF tail
    <3>2. QED BY <3>1
  <2>4. left \in [1 .. n -> S] /\ \A i \in 1 .. n : left[i] = one[n + 1 - n + i]
    <3>1. Len(one) > n
      BY <2>3
    <3>. HIDE DEF one
    <3>2. QED BY <2>3, <3>1, LastNIs
  <2>5. right \in [1 .. n -> S] /\ \A i \in 1 .. n : right[i] = more[L + 1 - n + i]
    <3>1. \A x \in Seq(S) : Len(x) > n =>
             /\ LastN(x, n) \in [1 .. n -> S]
             /\ \A i \in 1 .. n : LastN(x, n)[i] = x[Len(x) - n + i]
      BY LastNIs
    <3>2. Len(more) = L + 1 /\ more \in Seq(S) /\ L + 1 > n
      BY <1>1, <1>3, <2>2
    <3>. HIDE DEF more, L
    <3>3. /\ LastN(more, n) \in [1 .. n -> S]
          /\ \A i \in 1 .. n : LastN(more, n)[i] = more[Len(more) - n + i]
      BY <3>1, <3>2
    <3>4. \A i \in 1 .. n : Len(more) - n + i = L + 1 - n + i
      BY <1>1, <3>2
    <3>5. \A i \in 1 .. n : LastN(more, n)[i] = more[L + 1 - n + i]
      BY <3>3, <3>4
    <3>6. QED BY <3>3, <3>5
  <2>6. \A i \in 1 .. n : one[n + 1 - n + i] = more[L + 1 - n + i]
    <3>1. SUFFICES ASSUME NEW i \in 1 .. n PROVE one[n + 1 - n + i] = more[L + 1 - n + i]
      OBVIOUS
    <3>. HIDE DEF one, more, tail, L
    <3>2. CASE i = n
      <4>1. L + 1 - n + n = L + 1 /\ n + 1 - n + n = n + 1
        BY <1>1
      <4>2. QED BY <2>2, <2>3, <3>2, <4>1
    <3>3. CASE i < n
      <4>1. /\ n + 1 - n + i = i + 1 /\ i + 1 \in 1 .. n
            /\ L - n + (i + 1) = L + 1 - n + i /\ L + 1 - n + i \in 1 .. L
        BY <1>1, <1>3, <3>3
      <4>2. QED BY <2>1, <2>2, <2>3, <4>1, SMTT(30)
    <3>4. QED BY <3>2, <3>3
  <2>7. left = right
    <3>. HIDE DEF left, right, one, more, L
    <3>1. \A i \in 1 .. n : left[i] = right[i]
      BY <2>4, <2>5, <2>6
    <3>2. left \in [1 .. n -> S] /\ right \in [1 .. n -> S]
      BY <2>4, <2>5
    <3>3. QED BY <3>1, <3>2
  <2>8. QED BY <2>7
<1>4. QED BY <1>1, <1>2, <1>3

LEMMA LastNRange ==
  ASSUME NEW S, NEW seq \in Seq(S), NEW n \in Nat \ {0}
  PROVE  \A i \in DOMAIN LastN(seq, n) : LastN(seq, n)[i] \in Range(seq)
<1>1. CASE Len(seq) <= n
  BY <1>1 DEF LastN, Range
<1>2. CASE Len(seq) > n
  <2>1. \A i \in 1 .. n : Len(seq) - n + i \in DOMAIN seq
    BY <1>2
  <2>2. /\ LastN(seq, n) \in [1 .. n -> S]
        /\ \A i \in 1 .. n : LastN(seq, n)[i] = seq[Len(seq) - n + i]
    BY <1>2, LastNIs
  <2>3. QED BY <2>1, <2>2 DEF Range
<1>3. QED BY <1>1, <1>2

\* What is in the buffer b, the vectors v and the rows l of a symbol with the
\* candles f.
VectorsOK(f, b, v, l, open) ==
  /\ v \in Seq(Vector) /\ InOrder(v)
  /\ \A i \in DOMAIN v : \E j, k \in DOMAIN f :
       j <= k /\ f[j].time = v[i].seen /\ f[k].time = v[i].time
  /\ \A i \in DOMAIN b : b[i] \in Range(f)
  /\ \A row \in l : \E i \in DOMAIN v : v[i].time = row
  /\ open => \A i \in DOMAIN v : v[i].time \in l

\* For candles that came in order, none of one time with another that was
\* accepted: every candle the cleaning keeps has a vector.
CleanOK(f, b, v) ==
  /\ CleanSequence(f) \in Seq(Candles)
  /\ \A x \in Range(CleanSequence(f)) : \E i \in DOMAIN v : v[i].time = x.time
  /\ b = LastN(CleanSequence(f), BufferCap)

FedOK(f, b, v, l, open) ==
  /\ VectorsOK(f, b, v, l, open)
  /\ InOrder(f) /\ ~Repeats(v) => CleanOK(f, b, v)

FedInv ==
  /\ DOMAIN store = Symbols /\ DOMAIN lake = Symbols
  /\ \A s \in Symbols : FedOK(fed[s], buffers[s], store[s], lake[s], connected)

LEMMA CandleTimes == \A c \in Candles : c.time \in Nat /\ c.time \in Int
BY PipelineAssumption DEF Candle


\* Whether a candle is valid, the buffer knows as well as all that was accepted.
LEMMA SameVerdict ==
  ASSUME NEW cleaned \in Seq(Candles), NEW c
  PROVE  ValidCandle(c, LastN(cleaned, BufferCap)) <=> ValidCandle(c, cleaned)
<1>1. BufferCap \in Nat \ {0}
  BY PipelineAssumption
<1>2. CASE cleaned = << >>
  <2>1. Len(<< >>) <= BufferCap
    BY <1>1
  <2>2. LastN(cleaned, BufferCap) = cleaned
    BY <1>2, <2>1 DEF LastN
  <2>3. QED BY <2>2
<1>3. CASE cleaned # << >>
  <2>1. LastN(cleaned, BufferCap) # << >> /\ Last(LastN(cleaned, BufferCap)) = Last(cleaned)
    BY <1>1, <1>3, LastNType
  <2>2. QED BY <1>3, <2>1 DEF ValidCandle
<1>4. QED BY <1>2, <1>3

\* One candle more: the others keep their place.
LEMMA FedMore ==
  ASSUME NEW f \in Seq(Candles), NEW c \in Candles
  PROVE  /\ Len(f) \in Nat /\ DOMAIN f = 1 .. Len(f)
         /\ DOMAIN Append(f, c) = 1 .. (Len(f) + 1)
         /\ Append(f, c)[Len(f) + 1] = c
         /\ \A i \in 1 .. Len(f) : Append(f, c)[i] = f[i]
         /\ Append(f, c) \in Seq(Candles)
OBVIOUS

\* A candle that is handled and not accepted.
LEMMA VectorsSeen ==
  ASSUME NEW f \in Seq(Candles), NEW b, NEW v, NEW l, NEW open, VectorsOK(f, b, v, l, open),
         NEW c \in Candles
  PROVE  VectorsOK(Append(f, c), b, v, l, open)
<1>. DEFINE fc == Append(f, c)
            n == Len(f)
<1>1. /\ n \in Nat /\ DOMAIN f = 1 .. n /\ DOMAIN fc = 1 .. (n + 1)
      /\ \A i \in 1 .. n : fc[i] = f[i]
  BY FedMore
<1>. HIDE DEF fc, n
<1>2. \A i \in 1 .. n : i \in DOMAIN fc /\ fc[i] = f[i]
  BY <1>1
<1>3. \A x \in Range(f) : x \in Range(fc)
  BY <1>1, <1>2 DEF Range
<1>4. \A i \in DOMAIN v : \E j, k \in DOMAIN fc :
        j <= k /\ fc[j].time = v[i].seen /\ fc[k].time = v[i].time
  <2>1. SUFFICES ASSUME NEW i \in DOMAIN v
                 PROVE  \E j, k \in DOMAIN fc :
                          j <= k /\ fc[j].time = v[i].seen /\ fc[k].time = v[i].time
    OBVIOUS
  <2>2. PICK j \in DOMAIN f, k \in DOMAIN f :
          j <= k /\ f[j].time = v[i].seen /\ f[k].time = v[i].time
    BY DEF VectorsOK
  <2>3. QED BY <1>1, <1>2, <2>2
<1>5. QED BY <1>3, <1>4 DEF VectorsOK, fc

\* The vector of a buffer that ends with the candle that came last.
LEMMA VectorComes ==
  ASSUME NEW f \in Seq(Candles), NEW b \in Seq(Candles), NEW c \in Candles,
         \A i \in DOMAIN b : b[i] \in Range(f),
         NEW bc, bc = LastN(Append(b, c), BufferCap)
  PROVE  /\ VectorOf(bc) \in Vector /\ VectorOf(bc).time = c.time
         /\ \A i \in DOMAIN bc : bc[i] \in Range(Append(f, c))
         /\ \E j \in 1 .. (Len(f) + 1) : Append(f, c)[j].time = VectorOf(bc).seen
<1>. DEFINE fc == Append(f, c)
            n == Len(f)
            more == Append(b, c)
            times == {bc[i].time : i \in DOMAIN bc}
<1>1. BufferCap \in Nat \ {0}
  BY PipelineAssumption
<1>2. more \in Seq(Candles) /\ more # << >> /\ Last(more) = c
  BY DEF Last
<1>3. bc \in Seq(Candles) /\ bc # << >> /\ Last(bc) = c
  <2>. HIDE DEF more
  <2>. QED BY <1>1, <1>2, LastNType DEF more
<1>4. /\ n \in Nat /\ DOMAIN f = 1 .. n /\ DOMAIN fc = 1 .. (n + 1) /\ fc[n + 1] = c
      /\ \A i \in 1 .. n : fc[i] = f[i]
  BY FedMore
<1>5. \A x \in Range(more) : x \in Range(fc)
  <2>1. /\ Len(b) \in Nat /\ DOMAIN b = 1 .. Len(b) /\ DOMAIN more = 1 .. (Len(b) + 1)
        /\ more[Len(b) + 1] = c /\ \A i \in 1 .. Len(b) : more[i] = b[i]
    BY FedMore
  <2>. HIDE DEF more, fc, n
  <2>2. c \in Range(fc) /\ \A x \in Range(f) : x \in Range(fc)
    <3>1. n + 1 \in DOMAIN fc /\ \A i \in 1 .. n : i \in DOMAIN fc
      BY <1>4
    <3>2. QED BY <1>4, <3>1 DEF Range
  <2>3. \A i \in DOMAIN more : i \in 1 .. Len(b) \/ i = Len(b) + 1
    BY <2>1
  <2>4. \A i \in DOMAIN more : more[i] \in Range(fc)
    BY <2>1, <2>2, <2>3
  <2>5. QED BY <2>4 DEF Range
<1>6. \A i \in DOMAIN bc : bc[i] \in Range(fc)
  <2>1. \A i \in DOMAIN bc : bc[i] \in Range(more)
    <3>. HIDE DEF more
    <3>. QED BY <1>1, <1>2, LastNRange DEF more
  <2>2. QED BY <1>5, <2>1
<1>. HIDE DEF more, fc, n
<1>7. PICK i \in DOMAIN bc : \A j \in DOMAIN bc : bc[i].time >= bc[j].time
  <2>. DEFINE D == DOMAIN bc
              g == [k \in D |-> bc[k].time]
  <2>1. D = 1 .. Len(bc) /\ Len(bc) \in Nat /\ D # {} /\ \A k \in D : bc[k] \in Candles
    <3>1. \A q \in Seq(Candles) : q # << >> =>
            /\ DOMAIN q = 1 .. Len(q) /\ Len(q) \in Nat /\ 1 \in DOMAIN q
            /\ \A k \in DOMAIN q : q[k] \in Candles
      OBVIOUS
    <3>2. QED BY <1>3, <3>1
  <2>2. g \in [D -> Int]
    BY <2>1, CandleTimes
  <2>3. IsFiniteSet(D)
    BY <2>1, FirstNumbers
  <2>4. \E x \in D : \A y \in D : g[x] >= g[y]
    <3>. HIDE DEF D, g
    <3>. QED BY <2>1, <2>2, <2>3, GreatestOf
  <2>5. QED BY <2>4
<1>8. Max(times) \in times
  <2>1. \E x \in times : \A y \in times : x >= y
    BY <1>7
  <2>. HIDE DEF times
  <2>2. QED BY <2>1 DEF Max
<1>9. PICK m \in DOMAIN bc : bc[m].time = Max(times)
  BY <1>8
<1>10. PICK j \in DOMAIN fc : fc[j] = bc[m]
  BY <1>6 DEF Range
<1>11. VectorOf(bc).time = c.time /\ VectorOf(bc).seen = Max(times)
  BY <1>3 DEF VectorOf
<1>12. c.time \in Nat /\ Max(times) \in Nat
  BY <1>3, <1>9, CandleTimes
<1>13. VectorOf(bc) \in Vector
  BY <1>3, <1>12 DEF VectorOf, Vector
<1>14. QED BY <1>4, <1>6, <1>9, <1>10, <1>11, <1>13 DEF fc, n

\* A candle that is accepted.
LEMMA VectorsGrow ==
  ASSUME NEW f \in Seq(Candles), NEW b \in Seq(Candles), NEW v, NEW l,
         NEW open \in BOOLEAN, VectorsOK(f, b, v, l, open),
         NEW c \in Candles, NEW bc, bc = LastN(Append(b, c), BufferCap),
         NEW w, w = PutFeatures(v, VectorOf(bc)),
         NEW k, k = IF open THEN l \cup {c.time} ELSE l
  PROVE  VectorsOK(Append(f, c), bc, w, k, open)
<1>. DEFINE fc == Append(f, c)
            n == Len(f)
            x == VectorOf(bc)
<1>1. v \in Seq(Vector) /\ InOrder(v)
  BY DEF VectorsOK
<1>2. /\ x \in Vector /\ x.time = c.time
      /\ \A i \in DOMAIN bc : bc[i] \in Range(fc)
      /\ \E j \in 1 .. (n + 1) : fc[j].time = x.seen
  <2>1. \A i \in DOMAIN b : b[i] \in Range(f)
    BY DEF VectorsOK
  <2>2. QED BY <2>1, VectorComes
<1>3. /\ n \in Nat /\ DOMAIN fc = 1 .. (n + 1) /\ fc[n + 1] = c
  BY FedMore
<1>4. \A i \in DOMAIN v : \E j, h \in DOMAIN fc :
        j <= h /\ fc[j].time = v[i].seen /\ fc[h].time = v[i].time
  <2>1. VectorsOK(fc, b, v, l, open)
    BY VectorsSeen
  <2>. HIDE DEF fc
  <2>2. QED BY <2>1 DEF VectorsOK
<1>. HIDE DEF fc, n, x
<1>5. /\ w \in Seq(Vector) /\ InOrder(w)
      /\ \A i \in DOMAIN w : w[i] = x \/ \E j \in DOMAIN v : w[i] = v[j]
      /\ \A j \in DOMAIN v : \E i \in DOMAIN w : w[i] = v[j]
      /\ \E i \in DOMAIN w : w[i] = x
  <2>1. Widens(v, x, w)
    BY <1>1, <1>2, PutFeaturesKeeps DEF x
  <2>2. QED BY <2>1 DEF Widens
<1>6. \A i \in DOMAIN w : \E j, h \in DOMAIN fc :
        j <= h /\ fc[j].time = w[i].seen /\ fc[h].time = w[i].time
  <2>1. SUFFICES ASSUME NEW i \in DOMAIN w
                 PROVE  \E j, h \in DOMAIN fc :
                          j <= h /\ fc[j].time = w[i].seen /\ fc[h].time = w[i].time
    OBVIOUS
  <2>2. CASE w[i] = x
    <3>1. PICK j \in 1 .. (n + 1) : fc[j].time = x.seen
      BY <1>2
    <3>2. n + 1 \in DOMAIN fc /\ j \in DOMAIN fc /\ j <= n + 1 /\ fc[n + 1].time = x.time
      BY <1>2, <1>3, <3>1
    <3>3. QED BY <2>2, <3>1, <3>2
  <2>3. CASE \E j \in DOMAIN v : w[i] = v[j]
    BY <1>4, <2>3
  <2>4. QED BY <1>5, <2>2, <2>3
<1>7. \A row \in k : \E i \in DOMAIN w : w[i].time = row
  <2>1. SUFFICES ASSUME NEW row \in k PROVE \E i \in DOMAIN w : w[i].time = row
    OBVIOUS
  <2>2. CASE row \in l
    <3>1. PICK j \in DOMAIN v : v[j].time = row
      BY <2>2 DEF VectorsOK
    <3>2. QED BY <1>5, <3>1
  <2>3. CASE row = c.time
    BY <1>2, <1>5, <2>3
  <2>4. QED BY <2>1, <2>2, <2>3
<1>8. open => \A i \in DOMAIN w : w[i].time \in k
  <2>1. SUFFICES ASSUME open, NEW i \in DOMAIN w PROVE w[i].time \in k
    OBVIOUS
  <2>2. k = l \cup {c.time} /\ \A j \in DOMAIN v : v[j].time \in l
    BY <2>1 DEF VectorsOK
  <2>3. QED BY <1>2, <1>5, <2>2
<1>9. QED BY <1>2, <1>5, <1>6, <1>7, <1>8 DEF VectorsOK, fc

\* Candles are cleaned one by one as they come, whatever comes.
LEMMA CleanedKeeps ==
  ASSUME NEW f \in Seq(Candles), NEW b \in Seq(Candles), NEW v, NEW l, NEW open \in BOOLEAN,
         FedOK(f, b, v, l, open), NEW c \in Candles, InOrder(Append(f, c)),
         NEW bc, bc = LastN(Append(b, c), BufferCap),
         NEW w, w = PutFeatures(v, VectorOf(bc))
  PROVE  /\ ~ValidCandle(c, b) /\ ~Repeats(v) => CleanOK(Append(f, c), b, v)
         /\ ValidCandle(c, b) /\ ~Repeats(w) => CleanOK(Append(f, c), bc, w)
<1>. DEFINE old == CleanSequence(f)
            new == CleanSequence(Append(f, c))
            x == VectorOf(bc)
<1>1. /\ v \in Seq(Vector) /\ InOrder(v) /\ \A i \in DOMAIN b : b[i] \in Range(f)
      /\ ~Repeats(v) => CleanOK(f, b, v)
  <2>1. InOrder(f)
    BY InOrderFirst
  <2>2. QED BY <2>1 DEF FedOK, VectorsOK
<1>2. new = CleanStep(old, c)
  BY CandleTimes, CleanNext
<1>3. x \in Vector /\ x.time = c.time
  BY <1>1, VectorComes
<1>4. /\ \A j \in DOMAIN v : \E i \in DOMAIN w : w[i] = v[j]
      /\ \E i \in DOMAIN w : w[i] = x
      /\ Repeats(v) => Repeats(w)
      /\ (\E j \in DOMAIN v : v[j].time = x.time) => Repeats(w)
  <2>1. Widens(v, x, w)
    BY <1>1, <1>3, PutFeaturesKeeps
  <2>. HIDE DEF x
  <2>2. QED BY <2>1 DEF Widens
<1>. HIDE DEF old, new, x
<1>5. ASSUME CleanOK(f, b, v)
      PROVE  /\ old \in Seq(Candles) /\ b = LastN(old, BufferCap)
             /\ \A y \in Range(old) : \E i \in DOMAIN v : v[i].time = y.time
             /\ ValidCandle(c, b) <=> ValidCandle(c, old)
  BY <1>5, SameVerdict DEF CleanOK, old
<1>6. ASSUME ~ValidCandle(c, b), ~Repeats(v) PROVE CleanOK(Append(f, c), b, v)
  <2>1. CleanOK(f, b, v) /\ new = old
    BY <1>1, <1>2, <1>5, <1>6 DEF CleanStep
  <2>2. QED BY <1>5, <2>1 DEF CleanOK, new
<1>7. ASSUME ValidCandle(c, b), ~Repeats(w) PROVE CleanOK(Append(f, c), bc, w)
  <2>. DEFINE more == Append(old, c)
  <2>1. CleanOK(f, b, v)
    BY <1>1, <1>4, <1>7
  <2>2. ~ \E y \in Range(old) : y.time = c.time
    BY <1>3, <1>4, <1>5, <1>7, <2>1
  <2>3. new = more
    BY <1>2, <1>5, <1>7, <2>1, <2>2 DEF CleanStep
  <2>4. old \in Seq(Candles)
    BY <1>5, <2>1
  <2>5. more \in Seq(Candles) /\ \A y \in Range(more) : y \in Range(old) \/ y = c
    <3>1. /\ Len(old) \in Nat /\ DOMAIN old = 1 .. Len(old)
          /\ DOMAIN more = 1 .. (Len(old) + 1)
          /\ more[Len(old) + 1] = c /\ more \in Seq(Candles)
          /\ \A i \in 1 .. Len(old) : more[i] = old[i]
      BY <2>4, FedMore
    <3>. HIDE DEF more
    <3>2. \A i \in DOMAIN more : i \in 1 .. Len(old) \/ i = Len(old) + 1
      BY <3>1
    <3>3. QED BY <3>1, <3>2 DEF Range
  <2>6. bc = LastN(more, BufferCap)
    <3>1. BufferCap \in Nat \ {0}
      BY PipelineAssumption
    <3>2. LastN(Append(LastN(old, BufferCap), c), BufferCap) = LastN(Append(old, c), BufferCap)
      BY <2>4, <3>1, LastNAgain
    <3>3. QED BY <1>5, <2>1, <3>2
  <2>. HIDE DEF more
  <2>7. \A y \in Range(more) : \E i \in DOMAIN w : w[i].time = y.time
    <3>1. SUFFICES ASSUME NEW y \in Range(more) PROVE \E i \in DOMAIN w : w[i].time = y.time
      OBVIOUS
    <3>2. CASE y \in Range(old)
      <4>1. PICK j \in DOMAIN v : v[j].time = y.time
        BY <1>5, <2>1, <3>2
      <4>2. QED BY <1>4, <4>1
    <3>3. CASE y = c
      BY <1>3, <1>4, <3>3
    <3>4. QED BY <2>5, <3>2, <3>3
  <2>8. QED BY <2>3, <2>5, <2>6, <2>7 DEF CleanOK, new
<1>8. QED BY <1>6, <1>7

LEMMA FedStart == DriversInit => FedInv
<1>. SUFFICES ASSUME DriversInit PROVE FedInv
  OBVIOUS
<1>1. /\ buffers = [s \in Symbols |-> << >>] /\ fed = [s \in Symbols |-> << >>]
      /\ store = [s \in Symbols |-> << >>] /\ lake = [s \in Symbols |-> {}]
  BY DEF DriversInit, PipelineInit
<1>2. CleanOK(<< >>, << >>, << >>)
  <2>1. LastN(<< >>, BufferCap) = << >>
    <3>1. Len(<< >>) <= BufferCap
      BY PipelineAssumption
    <3>2. QED BY <3>1 DEF LastN
  <2>2. << >> \in Seq(Candles) /\ Range(<< >>) = {}
    BY DEF Range
  <2>3. QED BY <2>1, <2>2, CleanNone DEF CleanOK
<1>3. VectorsOK(<< >>, << >>, << >>, {}, connected)
  BY DEF VectorsOK, InOrder
<1>4. QED BY <1>1, <1>2, <1>3 DEF FedInv, FedOK

\* One symbol's candle was handled: nothing of another symbol changed.
LEMMA OneFed ==
  ASSUME BuffersOK, FedInv, NEW s \in Symbols, NEW c \in Candles, NEW b, NEW v, NEW l,
         fed' = [fed EXCEPT ![s] = Append(@, c)],
         buffers'[s] = b, store'[s] = v, lake'[s] = l,
         DOMAIN store' = Symbols, DOMAIN lake' = Symbols, connected' = connected,
         \A r \in Symbols : r # s =>
           buffers'[r] = buffers[r] /\ store'[r] = store[r] /\ lake'[r] = lake[r],
         FedOK(Append(fed[s], c), b, v, l, connected)
  PROVE  FedInv'
<1>1. DOMAIN fed = Symbols
  BY DEF BuffersOK
<1>2. ASSUME NEW r \in Symbols
      PROVE  FedOK(fed'[r], buffers'[r], store'[r], lake'[r], connected)
  <2>1. CASE r = s
    <3>1. fed'[r] = Append(fed[s], c)
      BY <1>1, <2>1
    <3>2. QED BY <2>1, <3>1
  <2>2. CASE r # s
    <3>1. fed'[r] = fed[r]
      BY <1>1, <2>2
    <3>2. QED BY <2>2, <3>1 DEF FedInv
  <2>3. QED BY <2>1, <2>2
<1>3. QED BY <1>2 DEF FedInv

LEMMA CandleHandled ==
  ASSUME DriversInv, connected \in BOOLEAN, FedInv, DropCandle \/ HandleCandle
  PROVE  FedInv'
<1>. DEFINE s == Head(queue).symbol
            c == Head(queue).candle
            events == EventsIn(buffers, Len(filled), DOMAIN positions)
            f == fed[s]
            b == buffers[s]
            bc == LastN(Append(b, c), BufferCap)
            w == PutFeatures(store[s], VectorOf(bc))
            l == IF connected THEN lake[s] \cup {c.time} ELSE lake[s]
<1>1. BuffersOK /\ queue \in Seq(events) /\ queue # << >> /\ Head(queue).kind = "candle"
  BY DEF DriversInv, PipelineOK, QueueOK, DropCandle, HandleCandle, NextIs
<1>2. s \in Symbols /\ c \in Candles
  <2>1. Head(queue) \in events
    <3>. HIDE DEF events
    <3>. QED BY <1>1
  <2>2. QED BY <1>1, <2>1 DEF EventsIn
<1>3. /\ f \in Seq(Candles) /\ b \in Seq(Candles)
      /\ DOMAIN buffers = Symbols /\ DOMAIN store = Symbols /\ DOMAIN lake = Symbols
      /\ FedOK(f, b, store[s], lake[s], connected)
  BY <1>1, <1>2 DEF BuffersOK, FedInv
<1>4. fed' = [fed EXCEPT ![s] = Append(@, c)] /\ connected' = connected
  BY DEF DropCandle, HandleCandle
<1>5. CASE DropCandle
  <2>1. ~ValidCandle(c, b) /\ buffers' = buffers /\ store' = store /\ lake' = lake
    BY <1>5 DEF DropCandle, Accepts
  <2>. HIDE DEF s, c, f, b
  <2>2. VectorsOK(Append(f, c), b, store[s], lake[s], connected)
    BY <1>2, <1>3, VectorsSeen DEF FedOK
  <2>3. InOrder(Append(f, c)) /\ ~Repeats(store[s]) => CleanOK(Append(f, c), b, store[s])
    BY <1>2, <1>3, <2>1, CleanedKeeps
  <2>4. FedOK(Append(f, c), b, store[s], lake[s], connected)
    BY <2>2, <2>3 DEF FedOK
  <2>5. QED BY <1>1, <1>2, <1>3, <1>4, <2>1, <2>4, OneFed DEF f, b
<1>6. CASE HandleCandle
  <2>1. /\ ValidCandle(c, b)
        /\ buffers' = [buffers EXCEPT ![s] = LastN(Append(@, c), BufferCap)]
        /\ lake' = IF connected THEN [lake EXCEPT ![s] = @ \cup {c.time}] ELSE lake
    BY <1>6 DEF HandleCandle, Accepts
  <2>2. buffers' = [buffers EXCEPT ![s] = bc]
    BY <2>1
  <2>3. store' = [store EXCEPT ![s] = w]
    <3>1. store' = [store EXCEPT ![s] =
                      PutFeatures(@, VectorOf([buffers EXCEPT ![s] =
                                                 LastN(Append(@, c), BufferCap)][s]))]
      BY <1>6 DEF HandleCandle
    <3>2. [buffers EXCEPT ![s] = LastN(Append(@, c), BufferCap)][s] = bc
      BY <1>2, <1>3
    <3>. HIDE DEF bc, s
    <3>3. QED BY <3>1, <3>2
  <2>. HIDE DEF s, c, f, b
  <2>4. VectorsOK(Append(f, c), bc, w, l, connected)
    BY <1>2, <1>3, VectorsGrow DEF FedOK
  <2>5. InOrder(Append(f, c)) /\ ~Repeats(w) => CleanOK(Append(f, c), bc, w)
    BY <1>2, <1>3, <2>1, CleanedKeeps
  <2>6. FedOK(Append(f, c), bc, w, l, connected)
    BY <2>4, <2>5 DEF FedOK
  <2>. HIDE DEF bc, w
  <2>7. /\ buffers'[s] = bc /\ store'[s] = w /\ lake'[s] = l
        /\ DOMAIN store' = Symbols /\ DOMAIN lake' = Symbols
        /\ \A r \in Symbols : r # s =>
             buffers'[r] = buffers[r] /\ store'[r] = store[r] /\ lake'[r] = lake[r]
    BY <1>2, <1>3, <2>1, <2>2, <2>3
  <2>. HIDE DEF l
  <2>8. QED BY <1>1, <1>2, <1>4, <2>6, <2>7, OneFed DEF f
<1>7. QED BY <1>5, <1>6

\* connected is a flag, and once it is down it stays down.
Flagged == connected \in BOOLEAN

LEMMA FedKeeps == DriversInv /\ Flagged /\ FedInv /\ [DriversNext]_driverVars => FedInv'
<1>. SUFFICES ASSUME DriversInv, Flagged, FedInv, [DriversNext]_driverVars PROVE FedInv'
  OBVIOUS
<1>1. CASE DropCandle \/ HandleCandle
  BY <1>1, CandleHandled DEF Flagged
<1>2. CASE UNCHANGED <<fed, buffers, store, lake>> /\ (connected' => connected)
  BY <1>2 DEF FedInv, FedOK, VectorsOK
<1>3. CASE driver = "pipeline" /\ PipelineNext
  BY <1>1, <1>2, <1>3
     DEF PipelineNext, PublishCandle, HandleSignal, PlaceWorking, StartPipeline, StopPipeline
<1>4. CASE UNCHANGED pipelineVars
  BY <1>2, <1>4 DEF pipelineVars
<1>5. QED BY <1>3, <1>4 DEF DriversNext, driverVars

LEMMA FlagKeeps == Flagged /\ [DriversNext]_driverVars => Flagged'
BY DEF Flagged, DriversNext, driverVars, pipelineVars, PipelineNext, PublishCandle, DropCandle,
       HandleCandle, HandleSignal, PlaceWorking, StartPipeline, StopPipeline

LEMMA FlagStart == DriversInit => Flagged
BY DEF DriversInit, PipelineInit, Flagged

LEMMA InvImpliesBuffer == FedInv => BufferExplained
BY DEF FedInv, FedOK, CleanOK, BufferExplained

\* The buffer of a symbol, filled candle by candle, is the end of what cleaning
\* all of them at once makes of them, unless a candle came late or a second one
\* of its time was accepted.
THEOREM BufferExplainedHolds == DriversSpec => []BufferExplained
BY DriversStart, DriversKeep, FlagStart, FlagKeeps, FedStart, FedKeeps, InvImpliesBuffer, PTL
   DEF DriversSpec

\* What PointInTime says of one time.
AsOf(f, v, l, open, t) ==
  LET x == FeaturesAsOf(v, t)
  IN  /\ \A stored \in l : stored <= t => stored <= x.time
      /\ x.time <= t
      /\ open /\ x # None => x.time \in l
      /\ x.seen > t => \E i, j \in DOMAIN f : i < j /\ f[i].time = x.seen /\ f[j].time = x.time

LEMMA VectorsAsOf ==
  ASSUME NEW f \in Seq(Candles), NEW b, NEW v, NEW l, NEW open, VectorsOK(f, b, v, l, open),
         NEW t \in Nat
  PROVE  AsOf(f, v, l, open, t)
<1>. DEFINE x == FeaturesAsOf(v, t)
            n == Len(v)
            valid == {i \in DOMAIN v : v[i].time <= t}
<1>. SUFFICES /\ \A stored \in l : stored <= t => stored <= x.time
              /\ x.time <= t
              /\ open /\ x # None => x.time \in l
              /\ x.seen > t =>
                   \E i, j \in DOMAIN f : i < j /\ f[i].time = x.seen /\ f[j].time = x.time
  BY DEF AsOf
<1>1. /\ n \in Nat /\ DOMAIN v = 1 .. n
      /\ \A i \in 1 .. n : v[i].time \in Nat /\ v[i].seen \in Nat
  <2>1. v \in Seq(Vector)
    BY DEF VectorsOK
  <2>2. n \in Nat /\ DOMAIN v = 1 .. n /\ \A i \in 1 .. n : v[i] \in Vector
    BY <2>1
  <2>3. \A y \in Vector : y.time \in Nat /\ y.seen \in Nat
    BY DEF Vector
  <2>. HIDE DEF n
  <2>4. QED BY <2>2, <2>3
<1>2. x = IF valid = {} THEN None ELSE v[Max(valid)]
  BY DEF FeaturesAsOf
<1>3. \A stored \in l : stored <= t => \E i \in valid : v[i].time = stored
  BY DEF VectorsOK
<1>. HIDE DEF n, x
<1>4. CASE valid = {}
  <2>1. x.time = -1 /\ x.seen = -1 /\ x = None
    BY <1>2, <1>4 DEF None
  <2>2. x.time <= t /\ ~(x.seen > t)
    BY <2>1
  <2>3. QED BY <1>3, <1>4, <2>1, <2>2
<1>5. CASE valid # {}
  <2>. DEFINE m == Max(valid)
  <2>1. m \in valid /\ \A i \in valid : i <= m
    <3>1. valid \in SUBSET (1 .. n)
      BY <1>1
    <3>2. valid \in SUBSET Int /\ IsFiniteSet(1 .. n)
      BY <1>1, <3>1, FirstNumbers
    <3>3. Max(valid) = Top(valid)
      BY DEF Max, Top
    <3>. HIDE DEF valid
    <3>4. IsFiniteSet(valid)
      BY <3>1, <3>2, FS_Subset
    <3>5. QED BY <1>5, <3>2, <3>3, <3>4, TopIn
  <2>2. m \in 1 .. n /\ v[m].time <= t /\ x = v[m]
    BY <1>1, <1>2, <1>5, <2>1
  <2>. HIDE DEF m
  <2>3. \A i \in valid : v[i].time <= v[m].time
    <3>1. SUFFICES ASSUME NEW i \in valid PROVE v[i].time <= v[m].time
      OBVIOUS
    <3>2. i \in 1 .. n /\ i <= m
      BY <1>1, <2>1
    <3>3. CASE i = m
      BY <1>1, <2>2, <3>3
    <3>4. CASE i < m
      BY <1>1, <2>2, <3>2, <3>4 DEF VectorsOK, InOrder
    <3>5. QED BY <2>2, <3>2, <3>3, <3>4
  <2>4. \A stored \in l : stored <= t => stored <= x.time
    BY <1>3, <2>2, <2>3
  <2>5. open => x.time \in l
    BY <1>1, <2>2 DEF VectorsOK
  <2>6. ASSUME x.seen > t
        PROVE  \E i, j \in DOMAIN f : i < j /\ f[i].time = x.seen /\ f[j].time = x.time
    <3>1. PICK i \in DOMAIN f, j \in DOMAIN f :
            i <= j /\ f[i].time = x.seen /\ f[j].time = x.time
      BY <1>1, <2>2 DEF VectorsOK
    <3>2. x.seen # x.time
      BY <1>1, <2>2, <2>6
    <3>3. i < j
      BY <3>1, <3>2
    <3>4. QED BY <3>1, <3>3
  <2>7. QED BY <2>2, <2>4, <2>5, <2>6
<1>6. QED BY <1>4, <1>5

LEMMA InvImpliesPointInTime == DriversInv /\ FedInv => PointInTime
<1>. SUFFICES ASSUME DriversInv, FedInv PROVE PointInTime
  OBVIOUS
<1>1. ASSUME NEW s \in Symbols, NEW t \in {fed[s][i].time : i \in DOMAIN fed[s]}
      PROVE  AsOf(fed[s], store[s], lake[s], connected, t)
  <2>1. fed[s] \in Seq(Candles)
    BY DEF DriversInv, PipelineOK, BuffersOK
  <2>2. t \in Nat
    BY <1>1, <2>1, CandleTimes
  <2>3. VectorsOK(fed[s], buffers[s], store[s], lake[s], connected)
    BY DEF FedInv, FedOK
  <2>4. QED BY <2>1, <2>2, <2>3, VectorsAsOf
<1>2. \A s \in Symbols : \A t \in {fed[s][i].time : i \in DOMAIN fed[s]} :
        AsOf(fed[s], store[s], lake[s], connected, t)
  BY <1>1
<1>3. QED BY <1>2, Zenon DEF PointInTime, AsOf

\* The latest features up to a time are those of the newest stored candle, and
\* look ahead only when that candle came late.
THEOREM PointInTimeHolds == DriversSpec => []PointInTime
BY DriversStart, DriversKeep, FlagStart, FlagKeeps, FedStart, FedKeeps, InvImpliesPointInTime, PTL
   DEF DriversSpec
=============================================================================
