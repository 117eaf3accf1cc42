------------------------------ MODULE Drivers ------------------------------
(***************************************************************************)
(* The callers of the strategies and of the risk gate beside the server's  *)
(* loop: the event-driven pipeline, the backtest and the agent graph.  They*)
(* share these parts and no state, so a behaviour is one of one driver,    *)
(* with an account of its own; the agent graph has none and looks at none. *)
(***************************************************************************)
EXTENDS Pipeline, Backtest, AgentDesk

VARIABLE driver  \* "pipeline", "backtest" or "desk"

driverVars == <<engineVars, pipelineVars, backtestVars, deskVars, driver>>

DriversInit ==
  /\ driver \in {"pipeline", "backtest", "desk"}
  /\ EngineInit /\ PipelineInit /\ BacktestInit /\ DeskInit
  /\ driver # "backtest" => strategy = 1

DriversNext ==
  \/ driver = "pipeline" /\ PipelineNext /\ UNCHANGED <<backtestVars, deskVars, driver>>
  \/ driver = "backtest" /\ BacktestNext /\ UNCHANGED <<pipelineVars, deskVars, driver>>
  \/ driver = "desk" /\ DeskNext /\ UNCHANGED <<pipelineVars, backtestVars, driver>>

DriversSpec == DriversInit /\ [][DriversNext]_driverVars

-----------------------------------------------------------------------------
(***************************************************************************)
(* Properties.                                                             *)
(***************************************************************************)

\* The three drivers keep their types: a buffer is within its bound, a position
\* of a backtest is the only one and has a bracket only while it is open, and
\* no driver books a short position.
DriversTypeOK ==
  /\ EngineTypeOK
  /\ \A s \in Symbols : Len(buffers[s]) <= BufferCap /\ Range(fed[s]) \subseteq Candle
  /\ \A i \in DOMAIN queue :
       queue[i].kind = "signal" => queue[i].signal \in Signal /\ queue[i].born <= Len(filled)
  /\ Len(working) <= 1
  /\ driver = "backtest" => (Open \/ bracket = NoBracket)
  /\ Len(curve) + Warmup <= Max({Len(bars), Warmup})

\* Items that came in order of time, some of them perhaps at the same time.
InOrder(items) == \A i, j \in DOMAIN items : i < j => items[i].time <= items[j].time

Repeats(items) == \E i, j \in DOMAIN items : i # j /\ items[i].time = items[j].time

\* The pipeline checks candle by candle (_handle_market_candle) and never asks
\* clean_candle_sequence, which sorts and drops what comes twice.  Its buffer is
\* not the end of what that makes of the same candles only when a candle came
\* late, or when a second candle of one time was accepted: that leaves two
\* vectors of one time.  Unsound candles, spikes, repeats that are rejected and
\* the trimming of the buffer make no difference.
BufferExplained ==
  \A s \in Symbols :
    buffers[s] # LastN(CleanSequence(fed[s]), BufferCap) =>
      ~InOrder(fed[s]) \/ Repeats(store[s])

\* get_features_as_of promises the latest features up to a time, without look-
\* ahead, in whatever order the candles came.  No stored candle up to that time
\* is newer than the vector, and while the candle store is connected the vector
\* is that of a stored candle.  A candle after that time went into the vector
\* only when the vector's own candle came late: then the buffer held the later
\* one already.
PointInTime ==
  \A s \in Symbols : \A t \in {fed[s][i].time : i \in DOMAIN fed[s]} :
    LET v == FeaturesAsOf(store[s], t)
    IN  /\ \A stored \in lake[s] : stored <= t => stored <= v.time
        /\ v.time <= t
        /\ connected /\ v # None => v.time \in lake[s]
        /\ v.seen > t =>
             \E i, j \in DOMAIN fed[s] :
               i < j /\ fed[s][i].time = v.seen /\ fed[s][j].time = v.time

\* The step fills an order of one side on s.
Fills(side, s) ==
  /\ Len(filled') = Len(filled) + 1
  /\ Last(filled').side = side /\ Last(filled').symbol = s

\* Unlike the server's loop, the pipeline takes a snapshot for every signal
\* (_handle_signal): no purchase takes the exposure over its limit by more than
\* rounding, an exit closes the whole position, and none is rejected.
FreshSnapshot ==
  [][ driver = "pipeline" /\ working # << >> /\ working' = << >> =>
        LET order == working[1].order
            price == working[1].price
        IN  IF order.side = "SELL"
            THEN Fills("SELL", order.symbol) /\ order.symbol \notin DOMAIN positions'
            ELSE Fills("BUY", order.symbol) =>
                   (Allocated([positions |-> positions]) + order.size * price * Scale) * PctDen
                     <= MaxExposure * (Equity + Cent) + PctDen * price * Scale
    ]_driverVars

\* The pipeline adds to a position it holds (_handle_signal) only with a signal
\* that was published before some other signal was filled: the strategy did not
\* know of the position, the queue did.
StaleEntry ==
  [][ driver = "pipeline" /\ (\E s \in DOMAIN positions : Fills("BUY", s))
        => working[1].born < Len(filled) ]_driverVars

SellFees ==
  SumFunction([i \in DOMAIN filled |-> IF filled[i].side = "SELL" THEN filled[i].commission ELSE 0])

Account == INSTANCE PaperTrading
  WITH realized <- IF driver = "backtest" THEN realized + SellFees ELSE realized

\* The account of a backtest (BacktestEngine.run) behaves like the paper
\* trading engine it stands for: every step is one that execute_order or
\* get_portfolio_state could make, with the commissions of exits counted as the
\* engine counts them.
BacktestIsAccount == Account!EngineSpec

\* A backtest never sells outside the bracket of the position, however far the
\* close has jumped past it (run): an exit by stop or target fills at the
\* bracket price, and one by the strategy comes only while the close is inside.
ExitsInBracket ==
  [][ driver = "backtest" /\ Fills("SELL", Symbol) =>
        LET paid == Last(filled').paid
        IN  /\ bracket.stop # 0 => paid >= FillPrice("SELL", bracket.stop)
            /\ bracket.target # 0 => paid <= FillPrice("SELL", bracket.target)
    ]_driverVars

\* What the fill behind the last point of the curve cost, if there is one: its
\* commission, and for a sale the slippage from the close the position was marked
\* at.
LateCost ==
  IF valued = Len(filled) THEN 0
  ELSE LET fill == Last(filled)
       IN  fill.commission + (IF fill.side = "SELL"
                              THEN (Close * SlipDen - fill.paid) * fill.size * CommDen ELSE 0)

\* What the finished report adds up to (calculate_metrics).  Every sale is a trade
\* won or lost.  The return is the pnl of the trades and of the position that is
\* still open, less the commissions of the purchases, which are in no trade's
\* pnl; but the curve ends before the strategy's decision on the last bar, so
\* what a fill of that decision costs is missing from it, although its trade is
\* counted.
ReportAddsUp ==
  driver = "backtest" /\ phase = "reported" =>
    /\ Wins + Losses = Cardinality({i \in DOMAIN filled : filled[i].side = "SELL"})
    /\ TotalReturn = SumFunction(pnls) + MarketValue(positions) - Invested
                       - (Fees - SellFees) + LateCost

\* The agent graph approves a trade (_node_risk_governor) exactly when somebody
\* spoke for it: there was a price and there were features, and the officer named
\* an action other than HOLD or, unreadable, left it to an analyst who was bullish.
\* So the gate, asked about an account that never traded, rejects nothing; every
\* action but BUY, also one nobody knows, is a sale; and one reply of the wrong
\* shape ends the request without a decision.
DeskDecides ==
  /\ node = "done" =>
       (status = "APPROVED_FOR_EXECUTION" <=>
          /\ market.price > 0 /\ market.features
          /\ \/ officer \in Actions \ {"HOLD"}
             \/ officer = "unreadable" /\ \E a \in Analysts : opinions[a] = "bullish")
  /\ trade # << >> => (Head(trade).kind = "LONG" <=> officer \in {"BUY", "unreadable"})
  /\ (\E a \in Analysts : opinions[a] = "foreign") => node = "raised" /\ trade = << >>
=============================================================================
