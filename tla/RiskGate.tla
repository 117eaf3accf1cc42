------------------------------ MODULE RiskGate ------------------------------
(***************************************************************************)
(* The pre-trade risk gate (RiskManager.validate_signal) and the order it  *)
(* leads to (OrderManagementSystem.create_order_from_signal).              *)
(*                                                                         *)
(* The gate sees the account only through a portfolio snapshot, the result *)
(* of get_portfolio_state, in which equity is rounded to cents and drawdown*)
(* to the precision DrawdownDen.  Fractions of equity are counted in parts *)
(* of PctDen, strengths in parts of StrengthDen.                           *)
(***************************************************************************)
EXTENDS PaperTrading

CONSTANTS
  Cent,         \* money units in the precision a snapshot rounds equity to
  DrawdownDen,  \* drawdowns are rounded to 1 / DrawdownDen
  MaxDrawdown,  \* max_drawdown_limit_pct = MaxDrawdown / DrawdownDen
  PctDen,       \* denominator of the fractions of equity
  MaxPosition,  \* max_position_size_pct = MaxPosition / PctDen
  MaxExposure,  \* max_portfolio_exposure_pct = MaxExposure / PctDen
  StrengthDen,  \* denominator of the signal strengths
  MinStrength   \* the gate raises a weaker signal to MinStrength / StrengthDen

ASSUME GateAssumption ==
  /\ Cent \in Nat \ {0}
  /\ DrawdownDen \in Nat \ {0} /\ MaxDrawdown \in 1 .. DrawdownDen
  /\ PctDen \in Nat \ {0} /\ MaxPosition \in 1 .. PctDen /\ MaxExposure \in 1 .. PctDen
  /\ StrengthDen \in Nat \ {0} /\ MinStrength \in 1 .. StrengthDen

Signal == [symbol : Symbols, kind : {"LONG", "SHORT", "FLAT"},
           pct : 0 .. PctDen, strength : 0 .. StrengthDen]

-----------------------------------------------------------------------------
\* The whole number nearest to a / b, halves up.
RoundDiv(a, b) == (2 * a + b) \div (2 * b)

DrawdownOf(top, equity) ==
  IF top > 0 THEN RoundDiv((top - equity) * DrawdownDen, top) ELSE 0

\* What get_portfolio_state returns; GetPortfolioState is what it does.
SnapshotOf(known) ==
  LET book   == MarkedWith(positions, known)
      equity == cash + MarketValue(book)
  IN  [equity    |-> RoundDiv(equity, Cent) * Cent,
       drawdown  |-> DrawdownOf(Ratcheted(peak, equity), equity),
       positions |-> book]

-----------------------------------------------------------------------------
\* Units of money in one unit of price times size.
Scale == SlipDen * CommDen

Allocated(snap) == MarketValue(snap.positions)

\* check_portfolio_health
Healthy(snap) == snap.drawdown < MaxDrawdown

Exposed(snap) == Allocated(snap) * PctDen >= MaxExposure * snap.equity

\* Both allocations are in units of money / (PctDen * StrengthDen).
Target(signal, snap) ==
  snap.equity * Min({signal.pct, MaxPosition}) * Max({MinStrength, signal.strength})

RemainingExposure(snap) ==
  (MaxExposure * snap.equity - PctDen * Allocated(snap)) * StrengthDen

\* Variant: the remaining exposure is forgotten.
AllowedTarget(signal, snap) == Target(signal, snap)

AllowedAllocation(signal, snap) == Min({Target(signal, snap), RemainingExposure(snap)})

HeldIn(snap, s) == s \in DOMAIN snap.positions /\ snap.positions[s].size # 0

\* validate_signal: the signal is approved.  An exit is checked for health only.
Approved(signal, snap, price) ==
  /\ Healthy(snap)
  /\ price > 0
  /\ IF signal.kind = "FLAT"
     THEN HeldIn(snap, signal.symbol)
     ELSE /\ snap.equity > 0
          /\ ~Exposed(snap)
          /\ AllowedAllocation(signal, snap) > 0

\* Variant: an exit is sized like an entry.
AdjustedSizeOfEntry(signal, snap, price) ==
  RoundDiv(AllowedAllocation(signal, snap), PctDen * StrengthDen * Scale * price)

\* adjusted_size: rounding may leave nothing of a small allocation.
AdjustedSize(signal, snap, price) ==
  IF signal.kind = "FLAT"
  THEN snap.positions[signal.symbol].size
  ELSE RoundDiv(AllowedAllocation(signal, snap), PctDen * StrengthDen * Scale * price)

\* create_order_from_signal, for an approved signal.
OrderOf(signal, snap, price) ==
  [symbol |-> signal.symbol,
   side   |-> IF signal.kind = "LONG" THEN "BUY" ELSE "SELL",
   size   |-> AdjustedSize(signal, snap, price)]
=============================================================================
