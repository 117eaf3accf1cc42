------------------------------ MODULE Backtest ------------------------------
(***************************************************************************)
(* BacktestEngine.run: one strategy over the candles of one symbol, in     *)
(* order of time, with an account of its own.  The account is kept in the  *)
(* variables of PaperTrading, but it is a second implementation: it adds   *)
(* exits at the bracket prices of a position, and a purchase replaces the  *)
(* position instead of adding to it.                                       *)
(*                                                                         *)
(* A bar is three steps: the bracket is checked, the account is valued,    *)
(* the strategy decides.  Bracket prices are rounded to BracketUnit; one   *)
(* that rounds to zero counts as absent.  Behind the last bar, whichever   *)
(* that is, the report is made.                                            *)
(***************************************************************************)
EXTENDS Strategies, SequencesExt

CONSTANTS
  Closes,       \* the closes a candle can have
  Warmup,       \* candles before the first bar (30)
  BracketUnit,  \* the precision of bracket prices, in units of price
  StopPct, TargetPct  \* a strategy's stop_loss and target_price, in % of the close

ASSUME BacktestAssumption ==
  /\ Symbols # {} /\ Closes \subseteq Prices /\ Warmup \in Nat
  /\ BracketUnit \in Nat \ {0}
  /\ \A turn \in 1 .. NumStrategies :
       StopPct[turn] \in 1 .. 99 /\ TargetPct[turn] \in Nat /\ TargetPct[turn] > 100

VARIABLES
  strategy,  \* the strategy that is tested
  bars,      \* the closes of the candles so far
  phase,     \* "next", "bracket", "value" or "decide"; at the end "reported" or "raised"
  bracket,   \* stop_loss and take_profit of the position; 0 when there is none
  pnls,      \* trades_log: the pnl of every exit
  curve,     \* equity_curve
  valued     \* history: the fills there were when the account was valued last

backtestVars == <<strategy, bars, phase, bracket, pnls, curve, valued>>

NoBracket == [stop |-> 0, target |-> 0]

Close == Last(bars)

Symbol == CHOOSE s \in Symbols : TRUE

Open == Symbol \in DOMAIN positions

\* round(close * pct / 100, 4)
Bracket(close, pct) == RoundDiv(close * pct, 100 * BracketUnit) * BracketUnit

BracketOf(close) ==
  [stop   |-> Bracket(close, StopPct[strategy]),
   target |-> Bracket(close, TargetPct[strategy])]

HitStop   == bracket.stop # 0 /\ Close <= bracket.stop
HitTarget == bracket.target # 0 /\ Close >= bracket.target

\* Variant: the exit of a bracket fills at the close.
RawExitAtClose == Close

\* The stop goes first; whatever the close is, the exit is at the bracket's price.
RawExit == IF HitStop THEN bracket.stop ELSE bracket.target

\* Variant: an exit costs no commission.
ProceedsGross(size, price) == TradeValue("SELL", size, price)

\* trade_val - comm
Proceeds(size, price) == TradeValue("SELL", size, price) - Commission("SELL", size, price)

\* The end of a position, by its bracket or by the strategy.
Sell(price) ==
  LET held == positions[Symbol]
      pnl  == Proceeds(held.size, price) - held.cost
  IN  /\ cash' = cash + Proceeds(held.size, price)
      /\ pnls' = Append(pnls, pnl)
      /\ realized' = realized + pnl
      /\ positions' = << >>
      /\ bracket' = NoBracket
      /\ Record([symbol |-> Symbol, side |-> "SELL", size |-> held.size], price)

Buy(size, close) ==
  LET order == [symbol |-> Symbol, side |-> "BUY", size |-> size]
  IN  IF cash >= BuyCost(order, close)
      THEN /\ cash' = cash - BuyCost(order, close)
           /\ positions' = With(positions, Symbol,
                [size |-> size, cost |-> TradeValue("BUY", size, close),
                 mark |-> FillPrice("BUY", close)])
           /\ bracket' = BracketOf(close)
           /\ Record(order, close)
           /\ UNCHANGED <<realized, pnls>>
      ELSE UNCHANGED <<cash, positions, realized, filled, bracket, pnls>>

-----------------------------------------------------------------------------
\* The next candle; the first Warmup candles are history only.
NextBar ==
  /\ phase = "next"
  /\ \E close \in Closes : bars' = Append(bars, close)
  /\ phase' = IF Len(bars) < Warmup THEN "next" ELSE "bracket"
  /\ UNCHANGED <<engineVars, strategy, bracket, pnls, curve, valued>>

CheckBracket ==
  /\ phase = "bracket"
  /\ phase' = "value"
  /\ IF Open /\ (HitStop \/ HitTarget)
     THEN Sell(RawExit)
     ELSE UNCHANGED <<cash, positions, realized, filled, bracket, pnls>>
  /\ UNCHANGED <<peak, dropped, strategy, bars, curve, valued>>

\* Prices are updated and the equity is put on the curve.
Value ==
  /\ phase = "value"
  /\ phase' = "decide"
  /\ LET book == MarkedWith(positions, [s \in {Symbol} |-> Close])
         equity == cash + MarketValue(book)
     IN  /\ positions' = book
         /\ peak' = Max({peak, equity})
         /\ curve' = Append(curve, equity)
  /\ valued' = Len(filled)
  /\ UNCHANGED <<cash, realized, filled, dropped, strategy, bars, bracket, pnls>>

\* The state the strategy and the gate see: nothing of it is rounded.
BacktestSnap ==
  [equity    |-> Equity,
   drawdown  |-> IF peak > 0 THEN ((peak - Equity) * DrawdownDen) \div peak ELSE 0,
   positions |-> positions]

\* The strategy has at most one signal, and the gate judges it at the close.
Decide ==
  /\ phase = "decide"
  /\ \E f \in Features :
       LET raises  == strategy = 1 /\ Close = 0 /\ MomentumLong(f) /\ ~Open
           signals == {s \in Signals(strategy, Symbol, f, BacktestSnap) :
                         Approved(s, BacktestSnap, Close)}
       IN  /\ phase' = IF raises THEN "raised" ELSE "next"
           /\ IF raises \/ signals = {}
              THEN UNCHANGED <<cash, positions, realized, filled, bracket, pnls>>
              ELSE \E s \in signals :
                     IF s.kind = "LONG" THEN Buy(AdjustedSize(s, BacktestSnap, Close), Close)
                     ELSE Sell(Close)
  /\ UNCHANGED <<peak, dropped, strategy, bars, curve, valued>>

\* The candles are at their end, and calculate_metrics is called with what there is.
Report ==
  /\ phase = "next" /\ bars # << >>
  /\ phase' = "reported"
  /\ UNCHANGED <<engineVars, strategy, bars, bracket, pnls, curve, valued>>

BacktestInit ==
  /\ strategy \in 1 .. NumStrategies
  /\ bars = << >> /\ phase = "next"
  /\ bracket = NoBracket
  /\ pnls = << >> /\ curve = << >> /\ valued = 0

BacktestNext == NextBar \/ CheckBracket \/ Value \/ Decide \/ Report

-----------------------------------------------------------------------------
(***************************************************************************)
(* StrategyEvaluator.calculate_metrics: what the report says of the trades.*)
(* Ratios, annualized and floating-point figures are left out.             *)
(***************************************************************************)
Wins   == Cardinality({i \in DOMAIN pnls : pnls[i] > 0})

\* Variant: a trade that ends even is neither won nor lost.
LossesStrict == Cardinality({i \in DOMAIN pnls : pnls[i] < 0})

Losses == Cardinality({i \in DOMAIN pnls : pnls[i] <= 0})

\* final_equity - initial_capital, which total_return_pct reports.
TotalReturn == IF curve = << >> THEN 0 ELSE Last(curve) - InitialCash
=============================================================================
