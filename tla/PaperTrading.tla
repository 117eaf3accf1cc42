---------------------------- MODULE PaperTrading ----------------------------
(***************************************************************************)
(* The paper trading engine (PaperTradingEngine in                         *)
(* app/execution/paper_trader.py): one account, long-only positions, market*)
(* orders that fill at once at the current price plus slippage.            *)
(*                                                                         *)
(* Units.  A size is a whole number of 0.000001 units of the asset, the    *)
(* precision the risk gate rounds to.  A price is a natural number.  An    *)
(* amount of money counts 1/(SlipDen * CommDen) of price times size, so    *)
(* slippage and commission are exact.  One quotient of the code is not: the*)
(* cost share of a partial close, which the model rounds down to a unit.   *)
(***************************************************************************)
EXTENDS Integers, Sequences, FiniteSets, FiniteSetsExt, Functions

CONSTANTS
  Symbols,        \* the symbols that can be traded
  Prices,         \* the market prices an order or a mark can see
  OrderSizes,     \* the sizes a caller of execute_order can ask for
  InitialCash,    \* initial_cash
  Slip, SlipDen,  \* slippage_rate = Slip / SlipDen
  Comm, CommDen,  \* commission_rate = Comm / CommDen
  Dust            \* a remainder of at most this size is dropped (1e-6)

ASSUME EngineAssumption ==
  /\ IsFiniteSet(Symbols)
  /\ Prices \subseteq Nat
  /\ OrderSizes \subseteq Nat
  /\ InitialCash \in Nat
  /\ Slip \in Nat /\ SlipDen \in Nat \ {0} /\ Slip <= SlipDen
  /\ Comm \in Nat /\ CommDen \in Nat \ {0}
  /\ Dust \in Nat

VARIABLES
  cash,       \* cash_balance
  positions,  \* positions: symbol -> position, for the open ones only
  realized,   \* realized_pnl
  peak,       \* peak_equity
  filled,     \* filled_orders
  dropped     \* history: the cost of the remainders that sales dropped

engineVars == <<cash, positions, realized, peak, filled, dropped>>

-----------------------------------------------------------------------------
(***************************************************************************)
(* Orders, fills and positions.  A position keeps its cost, that is        *)
(* entry_price * size; its side is always BUY; mark is current_price in    *)
(* units of 1/SlipDen.                                                     *)
(***************************************************************************)
Order == [symbol : Symbols, side : {"BUY", "SELL"}, size : Nat]

Position == [size : Nat, cost : Nat, mark : Nat]

Fill == [symbol : Symbols, side : {"BUY", "SELL"}, size : Nat,
         paid : Nat, commission : Nat]

\* Variant: the two terms of the sell side swapped.
FillPriceSwapped(side, price) ==
  price * (IF side = "BUY" THEN SlipDen + Slip ELSE Slip - SlipDen)

\* Slippage works against the trader on both sides.
FillPrice(side, price) ==
  price * (IF side = "BUY" THEN SlipDen + Slip ELSE SlipDen - Slip)

TradeValue(side, size, price) == FillPrice(side, price) * size * CommDen

\* Charged on the size of the order, also when less than that is closed.
Commission(side, size, price) == FillPrice(side, price) * size * Comm

PositionValue(book, s) ==
  IF s \in DOMAIN book THEN book[s].size * book[s].mark * CommDen ELSE 0

PositionCost(book, s) == IF s \in DOMAIN book THEN book[s].cost ELSE 0

MarketValue(book) == SumFunction([s \in Symbols |-> PositionValue(book, s)])

\* book[s] = held, for a symbol that may be new to the book.
With(book, s, held) == [r \in DOMAIN book \cup {s} |-> IF r = s THEN held ELSE book[r]]

\* current_price of every position follows the prices that are known.
MarkedWith(book, known) ==
  [s \in DOMAIN book |->
     IF s \in DOMAIN known
     THEN [book[s] EXCEPT !.mark = known[s] * SlipDen]
     ELSE book[s]]

Equity == cash + MarketValue(positions)

-----------------------------------------------------------------------------
(***************************************************************************)
(* get_portfolio_state: it marks the positions and ratchets the peak.      *)
(***************************************************************************)

\* Variant: the peak follows the equity down.
RatchetedLast(top, equity) == equity

\* peak_equity after an equity has been seen.
Ratcheted(top, equity) == IF equity > top THEN equity ELSE top

GetPortfolioState(known) ==
  LET book   == MarkedWith(positions, known)
      equity == cash + MarketValue(book)
  IN  /\ positions' = book
      /\ peak' = Ratcheted(peak, equity)
      /\ UNCHANGED <<cash, realized, filled, dropped>>

-----------------------------------------------------------------------------
(***************************************************************************)
(* execute_order.                                                          *)
(***************************************************************************)
Holds(s) == s \in DOMAIN positions

\* Variant: the commission is recorded on the order and never paid.
BuyCostFree(order, price) == TradeValue("BUY", order.size, price)

BuyCost(order, price) ==
  TradeValue("BUY", order.size, price) + Commission("BUY", order.size, price)

\* The average entry price of nothing added to nothing: ZeroDivisionError.
AveragesNothing(order) ==
  /\ order.side = "BUY"
  /\ Holds(order.symbol)
  /\ positions[order.symbol].size + order.size = 0

\* Variant: the commission is not part of the cash check.
CanFillBare(order, price) ==
  IF order.side = "BUY" THEN cash >= TradeValue("BUY", order.size, price)
  ELSE Holds(order.symbol)

\* Variant: a sale has to leave something of the position.
CanFillStrict(order, price) ==
  IF order.side = "BUY" THEN cash >= BuyCost(order, price)
  ELSE Holds(order.symbol) /\ order.size < positions[order.symbol].size

CanFill(order, price) ==
  IF order.side = "BUY" THEN cash >= BuyCost(order, price) ELSE Holds(order.symbol)

\* How execute_order ends: FILLED, REJECTED, or with an exception.
Outcome(order, price) ==
  IF ~CanFill(order, price) THEN "REJECTED"
  ELSE IF AveragesNothing(order) THEN "RAISED" ELSE "FILLED"

Record(order, price) ==
  filled' = Append(filled,
              [symbol |-> order.symbol, side |-> order.side, size |-> order.size,
               paid |-> FillPrice(order.side, price),
               commission |-> Commission(order.side, order.size, price)])

Bought(order, price) ==
  LET s    == order.symbol
      held == IF Holds(s) THEN positions[s] ELSE [size |-> 0, cost |-> 0, mark |-> 0]
  IN  [size |-> held.size + order.size,
       cost |-> held.cost + TradeValue("BUY", order.size, price),
       mark |-> FillPrice("BUY", price)]

FillBuy(order, price) ==
  /\ order.side = "BUY"
  /\ Outcome(order, price) = "FILLED"
  /\ cash' = cash - BuyCost(order, price)
  /\ positions' = With(positions, order.symbol, Bought(order, price))
  /\ Record(order, price)
  /\ UNCHANGED <<realized, peak, dropped>>

CloseSize(order) ==
  LET held == positions[order.symbol].size
  IN  IF order.size < held THEN order.size ELSE held

\* Variant: a partial close releases the cost of the whole position.
ClosedCostWhole(order) == positions[order.symbol].cost

\* entry_price * close_size
ClosedCost(order) ==
  LET held == positions[order.symbol]
  IN  IF CloseSize(order) = held.size
      THEN held.cost
      ELSE (held.cost * CloseSize(order)) \div held.size

Remaining(order) == positions[order.symbol].size - CloseSize(order)

\* Variant: every sale deletes the position.
EmptiedBySale(order) == TRUE

Emptied(order) == Remaining(order) <= Dust

FillSell(order, price) ==
  LET s     == order.symbol
      gross == TradeValue("SELL", CloseSize(order), price)
  IN  /\ order.side = "SELL"
      /\ Outcome(order, price) = "FILLED"
      /\ realized' = realized + gross - ClosedCost(order)
      /\ cash' = cash + gross - Commission("SELL", order.size, price)
      /\ positions' =
           IF Emptied(order)
           THEN Restrict(positions, DOMAIN positions \ {s})
           ELSE [positions EXCEPT ![s] =
                   [size |-> Remaining(order),
                    cost |-> @.cost - ClosedCost(order),
                    mark |-> FillPrice("SELL", price)]]
      /\ dropped' = dropped + (IF Emptied(order)
                               THEN positions[s].cost - ClosedCost(order) ELSE 0)
      /\ Record(order, price)
      /\ UNCHANGED peak

\* A rejected order changes nothing, and neither does one that raises: it has
\* size zero, so the cash taken before the division is zero.
DontFill(order, price) ==
  /\ Outcome(order, price) \in {"REJECTED", "RAISED"}
  /\ UNCHANGED engineVars

ExecuteOrder(order, price) ==
  FillBuy(order, price) \/ FillSell(order, price) \/ DontFill(order, price)

-----------------------------------------------------------------------------
EngineInit ==
  /\ cash = InitialCash
  /\ positions = << >>
  /\ realized = 0
  /\ peak = InitialCash
  /\ filled = << >>
  /\ dropped = 0

Requests == [symbol : Symbols, side : {"BUY", "SELL"}, size : OrderSizes]

EngineNext ==
  \/ \E order \in Requests, price \in Prices : ExecuteOrder(order, price)
  \/ \E S \in SUBSET Symbols : \E known \in [S -> Prices] : GetPortfolioState(known)

EngineSpec == EngineInit /\ [][EngineNext]_engineVars

-----------------------------------------------------------------------------
(***************************************************************************)
(* Properties.                                                             *)
(***************************************************************************)

\* A book has no short position, and one of size zero has cost nothing.
Book(book) ==
  /\ DOMAIN book \subseteq Symbols
  /\ \A s \in DOMAIN book :
       /\ book[s] \in Position
       /\ book[s].size = 0 => book[s].cost = 0

\* The account has its types: no short position and no negative cost or mark
\* is ever booked, and a position of size zero has cost nothing.
EngineTypeOK ==
  /\ cash \in Int /\ realized \in Int /\ peak \in Int
  /\ Book(positions)
  /\ filled \in Seq(Fill)
  /\ dropped \in Nat

Fees == SumFunction([i \in DOMAIN filled |-> filled[i].commission])

Invested == SumFunction([s \in Symbols |-> PositionCost(positions, s)])

Buys(s) == {i \in DOMAIN filled : filled[i].symbol = s /\ filled[i].side = "BUY"}

\* Money is neither made nor lost by the bookkeeping (execute_order): the
\* initial capital and the realized profit are, to the unit, in cash, in the
\* cost of the open positions, in the commissions recorded on the orders or in
\* the remainders that sales dropped.
Conservation == InitialCash + realized = cash + Invested + Fees + dropped

\* The average entry price of a position (execute_order) lies between the
\* lowest and the highest price its symbol was ever bought at, up to one unit
\* of rounding for every fill.
EntryWithinPaid ==
  \A s \in DOMAIN positions :
    LET paid == {filled[i].paid : i \in Buys(s)}
        size == positions[s].size
    IN  /\ paid # {}
        /\ positions[s].cost >= size * Min(paid) * CommDen
        /\ positions[s].cost <= size * Max(paid) * CommDen + Len(filled)

\* A step that fills nothing leaves cash, profit and every size and cost alone.
BooksNothing ==
  /\ UNCHANGED <<cash, realized, filled, dropped, DOMAIN positions>>
  /\ \A s \in DOMAIN positions :
       /\ positions'[s].size = positions[s].size
       /\ positions'[s].cost = positions[s].cost

\* A step that books a fill on s leaves every other symbol alone; what leaves
\* cash and the realized profit enters the cost of the position, the commission
\* or the dropped cost, and what is dropped is a remainder of at most Dust.
Books(s, fill) ==
  /\ filled' = Append(filled, fill) /\ fill.symbol = s
  /\ \A r \in Symbols \ {s} :
       /\ r \in DOMAIN positions <=> r \in DOMAIN positions'
       /\ r \in DOMAIN positions => positions'[r] = positions[r]
  /\ cash + PositionCost(positions, s) + realized' - realized =
       cash' + PositionCost(positions', s) + fill.commission + dropped' - dropped
  /\ dropped' # dropped =>
       /\ s \in DOMAIN positions /\ s \notin DOMAIN positions'
       /\ positions[s].size - fill.size \in 1 .. Dust

\* Every step of the account (execute_order, get_portfolio_state) books
\* nothing, or one fill of one symbol whose money adds up.
StepAccounting ==
  [][ \/ BooksNothing
      \/ \E s \in Symbols, fill \in {filled'[Len(filled) + 1]} : Books(s, fill)
    ]_engineVars
=============================================================================
