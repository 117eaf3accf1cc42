------------------------- MODULE PaperTradingProofs -------------------------
(***************************************************************************)
(* Theorems about the paper trading engine, for every set of symbols, every*)
(* price and order size, and every rate of slippage and commission; at the *)
(* end, lemmas about the risk gate and the strategies in front of it.      *)
(***************************************************************************)
EXTENDS Strategies, SumLemmas

-----------------------------------------------------------------------------
(***************************************************************************)
(* Arithmetic.                                                             *)
(***************************************************************************)

\* A product of naturals is a natural.
LEMMA ProductNat ==
  ASSUME NEW a \in Nat, NEW b \in Nat
  PROVE  a * b \in Nat
OBVIOUS

\* The share c of h of an amount is at most the amount.
LEMMA ShareBound ==
  ASSUME NEW a \in Nat, NEW h \in Nat, NEW c \in Nat, c < h
  PROVE  (a * c) \div h \in 0 .. a
<1>. DEFINE q == (a * c) \div h
<1>1. a * c \in Nat /\ a * c <= a * h
  OBVIOUS
<1>2. q \in Int /\ h * q <= a * c
  BY <1>1
<1>3. q >= 0
  BY <1>1
<1>4. q <= a
  <2>1. SUFFICES ASSUME q >= a + 1 PROVE FALSE
    BY <1>2
  <2>2. h * q >= h * (a + 1)
    BY <2>1, <1>2
  <2>3. h * (a + 1) = a * h + h
    OBVIOUS
  <2>4. QED BY <1>1, <1>2, <2>2, <2>3
<1>5. QED BY <1>2, <1>3, <1>4

\* Slippage keeps a price a price.
LEMMA FillPriceNat ==
  ASSUME NEW side, NEW price \in Nat
  PROVE  FillPrice(side, price) \in Nat
BY EngineAssumption, ProductNat DEF FillPrice

\* What an order is worth and what it is charged are amounts of money.
LEMMA ValueNat ==
  ASSUME NEW side, NEW price \in Nat, NEW size \in Nat
  PROVE  /\ TradeValue(side, size, price) \in Nat
         /\ Commission(side, size, price) \in Nat
<1>1. FillPrice(side, price) * size \in Nat
  BY FillPriceNat, ProductNat
<1>2. QED BY <1>1, ProductNat, EngineAssumption DEF TradeValue, Commission

-----------------------------------------------------------------------------
(***************************************************************************)
(* Type correctness.                                                       *)
(***************************************************************************)

\* The market value and the cost of every position are amounts of money.
LEMMA PositionAmounts ==
  ASSUME NEW book, Book(book), NEW s \in Symbols
  PROVE  PositionValue(book, s) \in Nat /\ PositionCost(book, s) \in Nat
<1>1. CASE s \in DOMAIN book
  <2>1. book[s].size \in Nat /\ book[s].mark \in Nat /\ book[s].cost \in Nat
    BY <1>1 DEF Book, Position
  <2>2. book[s].size * book[s].mark \in Nat
    BY <2>1, ProductNat
  <2>3. QED BY <1>1, <2>1, <2>2, ProductNat, EngineAssumption DEF PositionValue, PositionCost
<1>2. CASE s \notin DOMAIN book
  BY <1>2 DEF PositionValue, PositionCost
<1>3. QED BY <1>1, <1>2

LEMMA MarketValueInt ==
  ASSUME NEW book, Book(book)
  PROVE  MarketValue(book) \in Int
<1>1. [s \in Symbols |-> PositionValue(book, s)] \in [Symbols -> Int]
  BY PositionAmounts
<1>2. QED BY <1>1, SumType, EngineAssumption DEF MarketValue

LEMMA InitType == EngineInit => EngineTypeOK
BY EngineAssumption DEF EngineInit, EngineTypeOK, Book

\* Marking keeps a book a book, with the same sizes and costs.
LEMMA MarkedBook ==
  ASSUME NEW book, Book(book), NEW S \in SUBSET Symbols, NEW known \in [S -> Prices]
  PROVE  /\ Book(MarkedWith(book, known))
         /\ DOMAIN MarkedWith(book, known) = DOMAIN book
         /\ \A s \in DOMAIN book :
              /\ MarkedWith(book, known)[s].size = book[s].size
              /\ MarkedWith(book, known)[s].cost = book[s].cost
<1>1. DOMAIN MarkedWith(book, known) = DOMAIN book
  BY DEF MarkedWith
<1>2. ASSUME NEW s \in DOMAIN book
      PROVE  /\ MarkedWith(book, known)[s] \in Position
             /\ MarkedWith(book, known)[s].size = book[s].size
             /\ MarkedWith(book, known)[s].cost = book[s].cost
  <2>1. book[s] \in Position
    BY DEF Book
  <2>2. s \in S => known[s] * SlipDen \in Nat
    BY EngineAssumption, ProductNat
  <2>3. QED BY <2>1, <2>2 DEF MarkedWith, Position
<1>3. QED BY <1>1, <1>2 DEF Book

LEMMA MarkType ==
  ASSUME EngineTypeOK, NEW S \in SUBSET Symbols, NEW known \in [S -> Prices],
         GetPortfolioState(known)
  PROVE  EngineTypeOK'
<1>. DEFINE book == MarkedWith(positions, known)
<1>1. Book(positions)
  BY DEF EngineTypeOK, Book
<1>2. Book(book)
  BY <1>1, MarkedBook
<1>3. MarketValue(book) \in Int
  BY <1>2, MarketValueInt
<1>4. positions' = book
      /\ peak' = (IF cash + MarketValue(book) > peak THEN cash + MarketValue(book) ELSE peak)
      /\ UNCHANGED <<cash, realized, filled, dropped>>
  BY DEF GetPortfolioState, Ratcheted
<1>. HIDE DEF book
<1>5. peak' \in Int
  BY <1>3, <1>4 DEF EngineTypeOK, Book
<1>6. QED BY <1>2, <1>4, <1>5 DEF EngineTypeOK, Book

LEMMA RequestsAreOrders == Requests \subseteq Order
BY EngineAssumption DEF Requests, Order

\* The order that is executed, and the price it is executed at.
LEMMA OrderFacts ==
  ASSUME NEW order \in Order, NEW price \in Prices
  PROVE  /\ order.symbol \in Symbols /\ order.size \in Nat /\ price \in Nat
         /\ order.side \in {"BUY", "SELL"}
         /\ FillPrice(order.side, price) \in Nat
         /\ Commission(order.side, order.size, price) \in Nat
<1>1. order.symbol \in Symbols /\ order.size \in Nat /\ price \in Nat
      /\ order.side \in {"BUY", "SELL"}
  BY EngineAssumption DEF Order
<1>2. QED BY <1>1, FillPriceNat, ValueNat

LEMMA RecordType ==
  ASSUME EngineTypeOK, NEW order \in Order, NEW price \in Prices, Record(order, price)
  PROVE  filled' \in Seq(Fill)
BY OrderFacts DEF Record, EngineTypeOK, Book, Fill

LEMMA BuyType ==
  ASSUME EngineTypeOK, NEW order \in Order, NEW price \in Prices, FillBuy(order, price)
  PROVE  EngineTypeOK'
<1>. DEFINE s == order.symbol
            new == Bought(order, price)
<1>1. s \in Symbols /\ order.size \in Nat /\ price \in Nat
  BY OrderFacts
<1>2. /\ TradeValue("BUY", order.size, price) \in Nat
      /\ Commission("BUY", order.size, price) \in Nat
      /\ FillPrice("BUY", price) \in Nat
  BY <1>1, ValueNat, FillPriceNat
<1>3. new \in Position /\ (new.size = 0 => new.cost = 0)
  <2>1. CASE Holds(s)
    <3>1. positions[s] \in Position /\ (positions[s].size = 0 => positions[s].cost = 0)
      BY <2>1 DEF EngineTypeOK, Book, Holds
    <3>2. order.size = 0 => TradeValue("BUY", order.size, price) = 0
      BY <1>1, FillPriceNat, EngineAssumption DEF TradeValue
    <3>3. QED BY <1>1, <1>2, <2>1, <3>1, <3>2 DEF Bought, Position
  <2>2. CASE ~Holds(s)
    <3>1. order.size = 0 => TradeValue("BUY", order.size, price) = 0
      BY <1>1, FillPriceNat, EngineAssumption DEF TradeValue
    <3>2. QED BY <1>1, <1>2, <2>2, <3>1 DEF Bought, Position
  <2>3. QED BY <2>1, <2>2
<1>4. positions' = With(positions, s, new)
  BY DEF FillBuy
<1>5. /\ DOMAIN positions' = DOMAIN positions \cup {s}
      /\ \A r \in DOMAIN positions' : positions'[r] = IF r = s THEN new ELSE positions[r]
  <2>. HIDE DEF new
  <2>. QED BY <1>4 DEF With
<1>6. cash' \in Int /\ realized' \in Int /\ peak' \in Int /\ dropped' \in Nat
  BY <1>2 DEF FillBuy, BuyCost, EngineTypeOK, Book
<1>7. filled' \in Seq(Fill)
  BY RecordType DEF FillBuy
<1>. HIDE DEF new
<1>8. QED BY <1>1, <1>3, <1>5, <1>6, <1>7 DEF EngineTypeOK, Book

\* What a sale closes and what it releases.
LEMMA SaleFacts ==
  ASSUME EngineTypeOK, NEW order \in Order, order.symbol \in DOMAIN positions
  PROVE  LET held == positions[order.symbol] IN
         /\ CloseSize(order) \in 0 .. held.size
         /\ Remaining(order) \in 0 .. held.size
         /\ ClosedCost(order) \in 0 .. held.cost
         /\ Remaining(order) = 0 => ClosedCost(order) = held.cost
<1>. DEFINE held == positions[order.symbol]
<1>1. held.size \in Nat /\ held.cost \in Nat /\ (held.size = 0 => held.cost = 0)
  BY DEF EngineTypeOK, Book, Position
<1>2. order.size \in Nat
  BY EngineAssumption DEF Order
<1>3. CloseSize(order) \in 0 .. held.size
  BY <1>1, <1>2 DEF CloseSize
<1>4. Remaining(order) = held.size - CloseSize(order)
  BY DEF Remaining
<1>5. Remaining(order) \in 0 .. held.size
  BY <1>1, <1>3, <1>4
<1>6. CASE CloseSize(order) = held.size
  BY <1>1, <1>3, <1>4, <1>5, <1>6 DEF ClosedCost
<1>7. CASE CloseSize(order) # held.size
  <2>1. CloseSize(order) \in Nat /\ CloseSize(order) < held.size
    BY <1>1, <1>3, <1>7
  <2>2. ClosedCost(order) = (held.cost * CloseSize(order)) \div held.size
    BY <1>7 DEF ClosedCost
  <2>3. ClosedCost(order) \in 0 .. held.cost
    BY <1>1, <2>1, <2>2, ShareBound
  <2>4. Remaining(order) # 0
    BY <1>1, <1>4, <2>1
  <2>. HIDE DEF held
  <2>5. QED BY <1>3, <1>5, <2>3, <2>4 DEF held
<1>8. QED BY <1>6, <1>7

LEMMA SellType ==
  ASSUME EngineTypeOK, NEW order \in Order, NEW price \in Prices, FillSell(order, price)
  PROVE  EngineTypeOK'
<1>. DEFINE s == order.symbol
            held == positions[s]
<1>1. s \in DOMAIN positions /\ order.side = "SELL"
  BY DEF FillSell, Outcome, CanFill, Holds
<1>2. order.size \in Nat /\ price \in Nat /\ held \in Position
  BY <1>1, OrderFacts DEF EngineTypeOK, Book
<1>3. /\ CloseSize(order) \in 0 .. held.size
      /\ Remaining(order) \in 0 .. held.size
      /\ ClosedCost(order) \in 0 .. held.cost
  BY <1>1, SaleFacts
<1>4. held.size \in Nat /\ held.cost \in Nat
  BY <1>2 DEF Position
<1>5. /\ TradeValue("SELL", CloseSize(order), price) \in Nat
      /\ Commission("SELL", order.size, price) \in Nat
      /\ FillPrice("SELL", price) \in Nat
  BY <1>2, <1>3, <1>4, ValueNat, FillPriceNat
<1>6. cash' \in Int /\ realized' \in Int /\ peak' \in Int /\ dropped' \in Nat
  <2>1. cash \in Int /\ realized \in Int /\ peak \in Int /\ dropped \in Nat
    BY DEF EngineTypeOK, Book
  <2>2. /\ realized' = realized + TradeValue("SELL", CloseSize(order), price) - ClosedCost(order)
        /\ cash' = cash + TradeValue("SELL", CloseSize(order), price)
                         - Commission("SELL", order.size, price)
        /\ dropped' = dropped + (IF Emptied(order) THEN held.cost - ClosedCost(order) ELSE 0)
        /\ peak' = peak
    BY DEF FillSell
  <2>3. ClosedCost(order) \in Int /\ held.cost - ClosedCost(order) \in Nat
    BY <1>3, <1>4
  <2>. HIDE DEF held
  <2>4. QED BY <2>1, <2>2, <2>3, <1>5
<1>7. filled' \in Seq(Fill)
  BY RecordType DEF FillSell
<1>8. CASE Emptied(order)
  <2>1. positions' = Restrict(positions, DOMAIN positions \ {s})
    BY <1>8 DEF FillSell
  <2>2. /\ DOMAIN positions' \subseteq DOMAIN positions
        /\ \A r \in DOMAIN positions' : positions'[r] = positions[r]
    BY <2>1 DEF Restrict
  <2>3. QED BY <1>6, <1>7, <2>2 DEF EngineTypeOK, Book
<1>9. CASE ~Emptied(order)
  <2>. DEFINE left == [size |-> Remaining(order), cost |-> held.cost - ClosedCost(order),
                       mark |-> FillPrice("SELL", price)]
  <2>1. positions' = [positions EXCEPT ![s] = left]
    BY <1>9 DEF FillSell
  <2>2. left \in Position /\ left.size # 0
    BY <1>3, <1>4, <1>5, <1>9, EngineAssumption DEF Position, Emptied
  <2>. HIDE DEF left
  <2>3. /\ DOMAIN positions' = DOMAIN positions
        /\ \A r \in DOMAIN positions : positions'[r] = IF r = s THEN left ELSE positions[r]
    BY <1>1, <2>1
  <2>4. QED BY <1>6, <1>7, <2>2, <2>3 DEF EngineTypeOK, Book
<1>10. QED BY <1>8, <1>9

\* Every step of the engine keeps the account well typed.
LEMMA StepType == EngineTypeOK /\ [EngineNext]_engineVars => EngineTypeOK'
<1>. SUFFICES ASSUME EngineTypeOK, [EngineNext]_engineVars PROVE EngineTypeOK'
  OBVIOUS
<1>1. ASSUME NEW order \in Requests, NEW price \in Prices, ExecuteOrder(order, price)
      PROVE  EngineTypeOK'
  <2>. order \in Order
    BY RequestsAreOrders
  <2>1. CASE FillBuy(order, price)
    BY <2>1, BuyType
  <2>2. CASE FillSell(order, price)
    BY <2>2, SellType
  <2>3. CASE DontFill(order, price)
    BY <2>3 DEF DontFill, engineVars, EngineTypeOK, Book
  <2>4. QED BY <1>1, <2>1, <2>2, <2>3 DEF ExecuteOrder
<1>2. ASSUME NEW S \in SUBSET Symbols, NEW known \in [S -> Prices], GetPortfolioState(known)
      PROVE  EngineTypeOK'
  BY <1>2, MarkType
<1>3. CASE UNCHANGED engineVars
  BY <1>3 DEF engineVars, EngineTypeOK, Book
<1>4. QED BY <1>1, <1>2, <1>3 DEF EngineNext

\* The account keeps its types for ever: no short position, no negative cost.
THEOREM EngineTypeCorrect == EngineSpec => []EngineTypeOK
BY InitType, StepType, PTL DEF EngineSpec

-----------------------------------------------------------------------------
(***************************************************************************)
(* Accounting.  Each step books nothing or one fill whose money adds up    *)
(* (StepAccounting); summed over the symbols and over the fills, that is   *)
(* the conservation of money.                                              *)
(***************************************************************************)

\* A purchase books one fill of its symbol.
LEMMA BuyBooks ==
  ASSUME EngineTypeOK, NEW order \in Order, NEW price \in Prices, FillBuy(order, price)
  PROVE  Books(order.symbol, filled'[Len(filled) + 1])
<1>. DEFINE s == order.symbol
            new == Bought(order, price)
            fill == [symbol |-> order.symbol, side |-> order.side, size |-> order.size,
                     paid |-> FillPrice(order.side, price),
                     commission |-> Commission(order.side, order.size, price)]
<1>1. filled' = Append(filled, fill) /\ filled'[Len(filled) + 1] = fill
  BY DEF FillBuy, Record, EngineTypeOK, Book
<1>2. fill.symbol = s /\ fill.commission = Commission("BUY", order.size, price)
  BY DEF FillBuy
<1>3. /\ TradeValue("BUY", order.size, price) \in Nat
      /\ Commission("BUY", order.size, price) \in Nat
  BY OrderFacts, ValueNat
<1>4. /\ cash' = cash - (TradeValue("BUY", order.size, price)
                          + Commission("BUY", order.size, price))
      /\ UNCHANGED <<realized, dropped>>
      /\ positions' = With(positions, s, new)
  BY DEF FillBuy, BuyCost
<1>. HIDE DEF new, fill
<1>5. /\ DOMAIN positions' = DOMAIN positions \cup {s}
      /\ \A r \in DOMAIN positions' : positions'[r] = IF r = s THEN new ELSE positions[r]
  BY <1>4 DEF With
<1>6. new.cost = PositionCost(positions, s) + TradeValue("BUY", order.size, price)
  BY DEF new, Bought, PositionCost, Holds
<1>7. PositionCost(positions', s) = new.cost
  BY <1>5 DEF PositionCost
<1>8. PositionCost(positions, s) \in Nat
  BY PositionAmounts, OrderFacts DEF EngineTypeOK, Book
<1>9. cash + PositionCost(positions, s) + realized' - realized =
        cash' + PositionCost(positions', s) + fill.commission + dropped' - dropped
  BY <1>2, <1>3, <1>4, <1>6, <1>7, <1>8 DEF EngineTypeOK, Book
<1>10. QED BY <1>1, <1>2, <1>4, <1>5, <1>9 DEF Books

\* So does a sale, which may also drop the cost of a remainder.
LEMMA SellBooks ==
  ASSUME EngineTypeOK, NEW order \in Order, NEW price \in Prices, FillSell(order, price)
  PROVE  Books(order.symbol, filled'[Len(filled) + 1])
<1>. DEFINE s == order.symbol
            held == positions[s]
            gross == TradeValue("SELL", CloseSize(order), price)
            fill == [symbol |-> order.symbol, side |-> order.side, size |-> order.size,
                     paid |-> FillPrice(order.side, price),
                     commission |-> Commission(order.side, order.size, price)]
<1>1. filled' = Append(filled, fill) /\ filled'[Len(filled) + 1] = fill
  BY DEF FillSell, Record, EngineTypeOK, Book
<1>2. /\ fill.symbol = s /\ fill.size = order.size
      /\ fill.commission = Commission("SELL", order.size, price)
  BY DEF FillSell
<1>3. s \in DOMAIN positions
  BY DEF FillSell, Outcome, CanFill, Holds
<1>4. held.size \in Nat /\ held.cost \in Nat /\ order.size \in Nat
  BY <1>3, OrderFacts DEF EngineTypeOK, Book, Position
<1>5. /\ CloseSize(order) \in 0 .. held.size
      /\ Remaining(order) \in 0 .. held.size
      /\ ClosedCost(order) \in 0 .. held.cost
      /\ Remaining(order) = 0 => ClosedCost(order) = held.cost
  BY <1>3, SaleFacts
<1>6. gross \in Nat /\ Commission("SELL", order.size, price) \in Nat
  BY <1>4, <1>5, OrderFacts, ValueNat
<1>7. /\ realized' = realized + gross - ClosedCost(order)
      /\ cash' = cash + gross - Commission("SELL", order.size, price)
      /\ positions' = IF Emptied(order) THEN Restrict(positions, DOMAIN positions \ {s})
                      ELSE [positions EXCEPT ![s] =
                              [size |-> Remaining(order), cost |-> @.cost - ClosedCost(order),
                               mark |-> FillPrice("SELL", price)]]
      /\ dropped' = dropped + (IF Emptied(order) THEN held.cost - ClosedCost(order) ELSE 0)
  BY DEF FillSell
<1>8. PositionCost(positions, s) = held.cost
  BY <1>3 DEF PositionCost
<1>t. cash \in Int /\ realized \in Int /\ dropped \in Int
  BY DEF EngineTypeOK, Book
<1>. HIDE DEF gross, fill
<1>9. CASE Emptied(order)
  <2>1. /\ DOMAIN positions' = DOMAIN positions \ {s}
        /\ \A r \in DOMAIN positions' : positions'[r] = positions[r]
    BY <1>7, <1>9 DEF Restrict
  <2>2. PositionCost(positions', s) = 0
    BY <2>1 DEF PositionCost
  <2>3. cash + PositionCost(positions, s) + realized' - realized =
          cash' + PositionCost(positions', s) + fill.commission + dropped' - dropped
    <3>1. /\ realized' = realized + gross - ClosedCost(order)
          /\ cash' = cash + gross - Commission("SELL", order.size, price)
          /\ dropped' = dropped + held.cost - ClosedCost(order)
          /\ ClosedCost(order) \in Int
      BY <1>4, <1>5, <1>7, <1>9, <1>t
    <3>. HIDE DEF held
    <3>2. QED BY <1>2, <1>4, <1>6, <1>8, <1>t, <2>2, <3>1
  <2>4. dropped' # dropped => held.size - order.size \in 1 .. Dust
    <3>1. SUFFICES ASSUME dropped' # dropped PROVE held.size - order.size \in 1 .. Dust
      OBVIOUS
    <3>2. ClosedCost(order) # held.cost
      BY <3>1, <1>4, <1>7 DEF EngineTypeOK, Book
    <3>3. Remaining(order) # 0 /\ Remaining(order) <= Dust
      BY <3>2, <1>5, <1>9 DEF Emptied
    <3>4. CloseSize(order) = order.size /\ Remaining(order) = held.size - order.size
      BY <3>3, <1>4 DEF Remaining, CloseSize
    <3>. HIDE DEF held
    <3>5. QED BY <3>3, <3>4, <1>4, <1>5, EngineAssumption
  <2>5. QED BY <1>1, <1>2, <1>3, <2>1, <2>3, <2>4 DEF Books
<1>10. CASE ~Emptied(order)
  <2>. DEFINE left == [size |-> Remaining(order), cost |-> held.cost - ClosedCost(order),
                       mark |-> FillPrice("SELL", price)]
  <2>1. positions' = [positions EXCEPT ![s] = left] /\ left.cost = held.cost - ClosedCost(order)
    BY <1>7, <1>10
  <2>. HIDE DEF left
  <2>2. /\ DOMAIN positions' = DOMAIN positions
        /\ \A r \in DOMAIN positions : positions'[r] = IF r = s THEN left ELSE positions[r]
    BY <2>1
  <2>3. PositionCost(positions', s) = held.cost - ClosedCost(order)
    BY <1>3, <2>1, <2>2 DEF PositionCost
  <2>4. dropped' = dropped
    BY <1>7, <1>10 DEF EngineTypeOK, Book
  <2>5. cash + PositionCost(positions, s) + realized' - realized =
          cash' + PositionCost(positions', s) + fill.commission + dropped' - dropped
    <3>1. /\ realized' = realized + gross - ClosedCost(order)
          /\ cash' = cash + gross - Commission("SELL", order.size, price)
          /\ ClosedCost(order) \in Int
      BY <1>4, <1>5, <1>7
    <3>. HIDE DEF held
    <3>2. QED BY <1>2, <1>4, <1>6, <1>8, <1>t, <2>3, <2>4, <3>1
  <2>6. QED BY <1>1, <1>2, <2>2, <2>4, <2>5 DEF Books
<1>11. QED BY <1>9, <1>10

\* Marking the positions books nothing.
LEMMA MarkBooks ==
  ASSUME EngineTypeOK, NEW S \in SUBSET Symbols, NEW known \in [S -> Prices],
         GetPortfolioState(known)
  PROVE  BooksNothing
<1>1. Book(positions)
  BY DEF EngineTypeOK, Book
<1>2. positions' = MarkedWith(positions, known) /\ UNCHANGED <<cash, realized, filled, dropped>>
  BY DEF GetPortfolioState
<1>3. QED BY <1>1, <1>2, MarkedBook DEF BooksNothing

LEMMA StepBooks ==
  ASSUME EngineTypeOK, EngineNext
  PROVE  \/ BooksNothing
         \/ \E s \in Symbols, fill \in {filled'[Len(filled) + 1]} : Books(s, fill)
<1>1. ASSUME NEW order \in Requests, NEW price \in Prices, ExecuteOrder(order, price)
      PROVE  \/ BooksNothing
             \/ \E s \in Symbols, fill \in {filled'[Len(filled) + 1]} : Books(s, fill)
  <2>. order \in Order
    BY RequestsAreOrders
  <2>1. order.symbol \in Symbols
    BY DEF Order
  <2>2. CASE FillBuy(order, price)
    BY <2>1, <2>2, BuyBooks
  <2>3. CASE FillSell(order, price)
    BY <2>1, <2>3, SellBooks
  <2>4. CASE DontFill(order, price)
    BY <2>4 DEF DontFill, engineVars, BooksNothing
  <2>5. QED BY <1>1, <2>2, <2>3, <2>4 DEF ExecuteOrder
<1>2. ASSUME NEW S \in SUBSET Symbols, NEW known \in [S -> Prices], GetPortfolioState(known)
      PROVE  BooksNothing
  BY <1>2, MarkBooks
<1>3. QED BY <1>1, <1>2 DEF EngineNext

\* Every step of the engine books nothing, or one fill whose money adds up.
THEOREM AccountingCorrect == EngineSpec => StepAccounting
<1>1. EngineTypeOK /\ [EngineNext]_engineVars =>
        [\/ BooksNothing
         \/ \E s \in Symbols, fill \in {filled'[Len(filled) + 1]} : Books(s, fill)]_engineVars
  BY StepBooks
<1>2. QED BY <1>1, EngineTypeCorrect, PTL DEF EngineSpec, StepAccounting

-----------------------------------------------------------------------------
\* The cost of the positions, summed, changes by what one symbol changes.
LEMMA InvestedMoves ==
  ASSUME EngineTypeOK, EngineTypeOK', NEW s \in Symbols,
         \A r \in Symbols \ {s} : PositionCost(positions', r) = PositionCost(positions, r)
  PROVE  /\ Invested \in Int /\ Invested' \in Int
         /\ Invested' = Invested - PositionCost(positions, s) + PositionCost(positions', s)
<1>. DEFINE f == [r \in Symbols |-> PositionCost(positions, r)]
            g == [r \in Symbols |-> PositionCost(positions', r)]
<1>1. f \in [Symbols -> Int] /\ g \in [Symbols -> Int]
  <2>1. Book(positions) /\ Book(positions')
    BY DEF EngineTypeOK, Book
  <2>2. QED BY <2>1, PositionAmounts
<1>2. \A r \in Symbols \ {s} : g[r] = f[r]
  OBVIOUS
<1>3. f[s] = PositionCost(positions, s) /\ g[s] = PositionCost(positions', s)
  OBVIOUS
<1>4. Invested = SumFunction(f) /\ Invested' = SumFunction(g)
  BY DEF Invested
<1>. HIDE DEF f, g
<1>5. SumFunction(f) \in Int /\ SumFunction(g) \in Int
  BY <1>1, SumType, EngineAssumption
<1>6. SumFunction(g) = SumFunction(f) - f[s] + g[s]
  BY <1>1, <1>2, SumUpdate, EngineAssumption
<1>7. QED BY <1>3, <1>4, <1>5, <1>6

\* One more fill adds its commission to the fees.
LEMMA FeesGrow ==
  ASSUME EngineTypeOK, EngineTypeOK', NEW fill, filled' = Append(filled, fill)
  PROVE  Fees \in Int /\ Fees' \in Int /\ Fees' = Fees + fill.commission
<1>. DEFINE n == Len(filled)
            f == [i \in 1 .. n |-> filled[i].commission]
            g == [i \in (1 .. n) \cup {n + 1} |-> filled'[i].commission]
<1>1. filled \in Seq(Fill) /\ filled' \in Seq(Fill) /\ n \in Nat
  BY DEF EngineTypeOK, Book
<1>2. /\ DOMAIN filled = 1 .. n /\ DOMAIN filled' = (1 .. n) \cup {n + 1}
      /\ \A i \in 1 .. n : filled'[i] = filled[i]
      /\ filled'[n + 1] = fill
  BY <1>1
<1>3. f \in [1 .. n -> Int] /\ g \in [(1 .. n) \cup {n + 1} -> Int]
  <2>1. \A i \in DOMAIN filled : filled[i] \in Fill
    BY <1>1
  <2>2. \A i \in DOMAIN filled' : filled'[i] \in Fill
    BY <1>1
  <2>3. QED BY <1>2, <2>1, <2>2 DEF Fill
<1>4. Fees = SumFunction(f) /\ Fees' = SumFunction(g)
  BY <1>2 DEF Fees
<1>5. \A i \in 1 .. n : g[i] = f[i]
  BY <1>2
<1>6. g[n + 1] = fill.commission
  BY <1>2
<1>7. IsFiniteSet(1 .. n) /\ n + 1 \notin 1 .. n
  BY <1>1, FS_Interval
<1>8. IsFiniteSet((1 .. n) \cup {n + 1})
  BY <1>7, FS_AddElement
<1>. HIDE DEF n, f, g
<1>9. SumFunction(f) \in Int /\ SumFunction(g) \in Int
  BY <1>3, <1>7, <1>8, SumType
<1>10. SumFunction(g) = SumFunction(f) + g[n + 1]
  <2>1. \A F \in [1 .. n -> Int], G \in [(1 .. n) \cup {n + 1} -> Int] :
           (\A i \in 1 .. n : G[i] = F[i]) => SumFunction(G) = SumFunction(F) + G[n + 1]
    BY <1>7, SumExtend, ZenonT(30)
  <2>2. QED BY <1>3, <1>5, <2>1
<1>11. QED BY <1>4, <1>6, <1>9, <1>10

LEMMA InitConserves == EngineInit => Conservation
<1>. SUFFICES ASSUME EngineInit PROVE Conservation
  OBVIOUS
<1>1. cash = InitialCash /\ realized = 0 /\ dropped = 0 /\ positions = << >> /\ filled = << >>
  BY DEF EngineInit
<1>2. Invested = 0
  <2>. DEFINE f == [s \in Symbols |-> PositionCost(positions, s)]
  <2>1. f \in [Symbols -> Int] /\ \A s \in Symbols : f[s] = 0
    BY <1>1 DEF PositionCost
  <2>. HIDE DEF f
  <2>2. SumFunction(f) = 0
    BY <2>1, SumZero, EngineAssumption
  <2>3. QED BY <2>2 DEF f, Invested
<1>3. Fees = 0
  <2>. DEFINE f == [i \in DOMAIN filled |-> filled[i].commission]
  <2>1. DOMAIN filled = {} /\ f \in [{} -> Int]
    BY <1>1
  <2>2. IsFiniteSet({})
    BY FS_EmptySet
  <2>. HIDE DEF f
  <2>3. SumFunction(f) = 0
    BY <2>1, <2>2, SumZero
  <2>4. QED BY <2>3 DEF f, Fees
<1>4. QED BY <1>1, <1>2, <1>3, EngineAssumption DEF Conservation

\* A step that books a fill conserves money.
LEMMA FillConserves ==
  ASSUME EngineTypeOK, EngineTypeOK', Conservation,
         NEW s \in Symbols, NEW fill, Books(s, fill)
  PROVE  Conservation'
<1>. DEFINE c == fill.commission
            p == PositionCost(positions, s)
            q == PositionCost(positions', s)
<1>1. filled' = Append(filled, fill) /\ Len(filled) + 1 \in DOMAIN filled'
  BY DEF Books, EngineTypeOK, Book
<1>2. cash + p + realized' - realized = cash' + q + c + dropped' - dropped
  BY DEF Books
<1>3. \A r \in Symbols \ {s} : PositionCost(positions', r) = PositionCost(positions, r)
  BY DEF Books, PositionCost
<1>4. Invested \in Int /\ Invested' \in Int /\ Invested' = Invested - p + q
  BY <1>3, InvestedMoves
<1>5. Fees \in Int /\ Fees' \in Int /\ Fees' = Fees + c
  BY <1>1, FeesGrow
<1>6. p \in Int /\ q \in Int
  <2>1. Book(positions) /\ Book(positions')
    BY DEF EngineTypeOK, Book
  <2>2. QED BY <2>1, PositionAmounts
<1>7. c \in Int
  BY <1>1 DEF EngineTypeOK, Book, Fill
<1>8. /\ InitialCash \in Int /\ cash \in Int /\ cash' \in Int /\ realized \in Int
      /\ realized' \in Int /\ dropped \in Int /\ dropped' \in Int
  BY EngineAssumption DEF EngineTypeOK, Book
<1>9. InitialCash + realized = cash + Invested + Fees + dropped
  BY DEF Conservation
<1>. HIDE DEF c, p, q
<1>10. InitialCash + realized' = cash' + Invested' + Fees' + dropped'
  BY <1>2, <1>4, <1>5, <1>6, <1>7, <1>8, <1>9
<1>11. QED BY <1>10 DEF Conservation

\* A step that books nothing does, too.
LEMMA NothingConserves ==
  ASSUME Conservation, BooksNothing
  PROVE  Conservation'
<1>1. \A s \in Symbols : PositionCost(positions', s) = PositionCost(positions, s)
  BY DEF BooksNothing, PositionCost
<1>2. Invested' = Invested
  BY <1>1 DEF Invested
<1>3. QED BY <1>2 DEF BooksNothing, Conservation, Fees

LEMMA StepConserves ==
  ASSUME EngineTypeOK, EngineTypeOK', Conservation, [EngineNext]_engineVars
  PROVE  Conservation'
<1>1. CASE BooksNothing
  BY <1>1, NothingConserves
<1>2. ASSUME NEW s \in Symbols, NEW fill \in {filled'[Len(filled) + 1]}, Books(s, fill)
      PROVE  Conservation'
  BY <1>2, FillConserves
<1>3. CASE UNCHANGED engineVars
  BY <1>3 DEF engineVars, Conservation, Fees, Invested
<1>4. QED BY <1>1, <1>2, <1>3, StepBooks

\* Money is conserved in every reachable state of the account.
THEOREM ConservationCorrect == EngineSpec => []Conservation
<1>1. EngineTypeOK /\ EngineTypeOK' /\ Conservation /\ [EngineNext]_engineVars => Conservation'
  BY StepConserves
<1>2. QED BY <1>1, InitConserves, EngineTypeCorrect, PTL DEF EngineSpec

-----------------------------------------------------------------------------
(***************************************************************************)
(* The entry price.  A position costs at least its size at the lowest and  *)
(* at most, but for one unit of every fill, its size at the highest price  *)
(* its symbol was bought at; the lowest and the highest are carried along, *)
(* also for a symbol without a position, which may be bought again.        *)
(***************************************************************************)
Paid(s) == {filled[i].paid : i \in Buys(s)}

Cheapest(S, p) == p \in S /\ \A q \in S : p <= q

Dearest(S, p) == p \in S /\ \A q \in S : q <= p

Worth(size, p) == size * p * CommDen

Spans(S, p, q) == Cheapest(S, p) /\ Dearest(S, q)

CostBetween(size, cost, fills, p, q) == cost >= Worth(size, p) /\ cost <= Worth(size, q) + fills

HasBounds(S) == S # {} => \E p, q \in Nat : Spans(S, p, q)

EntryBounded(S, size, cost, fills) ==
  \E p, q \in Nat : Spans(S, p, q) /\ CostBetween(size, cost, fills, p, q)

EntryOK(s) ==
  s \in DOMAIN positions =>
    EntryBounded(Paid(s), positions[s].size, positions[s].cost, Len(filled))

EntryInv == \A s \in Symbols : HasBounds(Paid(s)) /\ EntryOK(s)

LEMMA TimesGrows ==
  ASSUME NEW n \in Nat, NEW a \in Nat, NEW b \in Nat, a <= b PROVE n * a <= n * b
<1>. DEFINE d == b - a
<1>1. d \in Nat /\ b = a + d
  OBVIOUS
<1>2. n * d \in Nat /\ n * (a + d) = n * a + n * d
  BY <1>1
<1>. HIDE DEF d
<1>3. QED BY <1>1, <1>2, ProductNat

LEMMA WorthNat == ASSUME NEW m \in Nat, NEW p \in Nat PROVE Worth(m, p) \in Nat
<1>1. m * p \in Nat
  BY ProductNat
<1>2. QED BY <1>1, ProductNat, EngineAssumption DEF Worth

LEMMA WorthAdds ==
  ASSUME NEW m \in Nat, NEW n \in Nat, NEW p \in Nat
  PROVE  Worth(m + n, p) = Worth(m, p) + Worth(n, p)
<1>1. m * p \in Nat /\ n * p \in Nat /\ (m + n) * p = m * p + n * p /\ CommDen \in Nat
  BY ProductNat, EngineAssumption
<1>2. QED BY <1>1 DEF Worth

LEMMA WorthGrows ==
  ASSUME NEW m \in Nat, NEW p \in Nat, NEW q \in Nat, p <= q
  PROVE  Worth(m, p) <= Worth(m, q)
<1>1. m * p \in Nat /\ m * q \in Nat /\ m * p <= m * q /\ CommDen \in Nat
  BY TimesGrows, ProductNat, EngineAssumption
<1>2. Worth(m, p) = CommDen * (m * p) /\ Worth(m, q) = CommDen * (m * q)
  BY <1>1 DEF Worth
<1>3. QED BY <1>1, <1>2, TimesGrows

\* A factor can be cancelled.
LEMMA CancelFactor ==
  ASSUME NEW h \in Nat \ {0}, NEW u \in Int, NEW v \in Int, h * u <= h * v PROVE u <= v
<1>1. SUFFICES ASSUME u >= v + 1 PROVE FALSE
  OBVIOUS
<1>. DEFINE d == u - v - 1
<1>2. d \in Nat /\ u = v + 1 + d
  BY <1>1
<1>3. h * (v + 1 + d) = h * v + h + h * d
  BY <1>2
<1>4. h * d \in Nat /\ h * v \in Int
  BY <1>2, ProductNat
<1>. HIDE DEF d
<1>5. QED BY <1>2, <1>3, <1>4

\* What a partial close leaves of a cost is still within the same prices.
LEMMA RestOfCost ==
  ASSUME NEW a \in Nat, NEW h \in Nat, NEW c \in Nat, c < h, NEW x \in Nat, NEW y \in Nat,
         NEW n \in Nat, a >= h * x, a <= h * y + n
  PROVE  LET k == (a * c) \div h
         IN  a - k >= (h - c) * x /\ a - k <= (h - c) * y + n + 1
<1>. DEFINE k == (a * c) \div h
            r == h - c
<1>1. r \in Nat \ {0} /\ r <= h /\ h \in Nat \ {0} /\ c = h - r
  OBVIOUS
<1>2. a * c \in Nat
  BY ProductNat
<1>3. k \in Int /\ h * k <= a * c /\ a * c < h * k + h
  BY <1>1, <1>2
<1>. HIDE DEF k
<1>4. h * (a - k) = h * a - h * k
  BY <1>3
<1>5. a * c = h * a - a * r
  BY <1>1
<1>. HIDE DEF r
<1>6. h * a \in Nat /\ a * r \in Nat /\ h * k \in Int
  BY <1>1, <1>3, ProductNat
<1>7. h * (a - k) >= a * r /\ h * (a - k) <= a * r + h
  BY <1>3, <1>4, <1>5, <1>6
<1>8. h * (r * x) <= a * r
  <2>1. r * (h * x) <= r * a
    BY <1>1, TimesGrows, ProductNat
  <2>2. r * (h * x) = h * (r * x) /\ r * a = a * r
    BY <1>1
  <2>3. QED BY <2>1, <2>2
<1>9. a * r + h <= h * (r * y + n + 1)
  <2>1. r * a <= r * (h * y + n)
    <3>1. h * y + n \in Nat
      BY ProductNat
    <3>2. QED BY <1>1, <3>1, TimesGrows
  <2>2. r * (h * y + n) = h * (r * y) + n * r
    BY <1>1
  <2>3. n * r <= n * h
    BY <1>1, TimesGrows
  <2>4. h * (r * y + n + 1) = h * (r * y) + n * h + h
    BY <1>1
  <2>5. r * a = a * r /\ h * (r * y) \in Nat /\ n * r \in Nat /\ n * h \in Nat
    BY <1>1, ProductNat
  <2>6. QED BY <1>6, <2>1, <2>2, <2>3, <2>4, <2>5
<1>10. r * x \in Nat /\ r * y \in Nat
  BY <1>1, ProductNat
<1>11. h * (r * x) <= h * (a - k)
  <2>1. h * (r * x) \in Nat
    BY <1>1, <1>10, ProductNat
  <2>2. QED BY <1>3, <1>4, <1>6, <1>7, <1>8, <2>1
<1>12. h * (a - k) <= h * (r * y + n + 1)
  <2>1. h * (r * y + n + 1) \in Nat
    BY <1>1, <1>10, ProductNat
  <2>2. QED BY <1>4, <1>6, <1>7, <1>9, <2>1
<1>13. r * x <= a - k
  BY <1>1, <1>3, <1>10, <1>11, CancelFactor
<1>14. a - k <= r * y + n + 1
  BY <1>1, <1>3, <1>10, <1>12, CancelFactor
<1>15. QED BY <1>3, <1>10, <1>13, <1>14 DEF k, r

\* What a fill does to the prices paid.
LEMMA PaidGrows ==
  ASSUME EngineTypeOK, NEW order \in Order, NEW price \in Prices, Record(order, price), NEW s
  PROVE  /\ Len(filled') = Len(filled) + 1
         /\ Paid(s)' = IF order.side = "BUY" /\ order.symbol = s
                       THEN Paid(s) \cup {FillPrice("BUY", price)} ELSE Paid(s)
<1>. DEFINE fill == [symbol |-> order.symbol, side |-> order.side, size |-> order.size,
                     paid |-> FillPrice(order.side, price),
                     commission |-> Commission(order.side, order.size, price)]
            n == Len(filled)
<1>1. filled \in Seq(Fill) /\ filled' = Append(filled, fill)
  BY DEF EngineTypeOK, Record
<1>2. /\ fill.symbol = order.symbol /\ fill.side = order.side
      /\ fill.paid = FillPrice(order.side, price)
  OBVIOUS
<1>. HIDE DEF fill
<1>3. /\ n \in Nat /\ Len(filled') = n + 1 /\ DOMAIN filled = 1 .. n /\ DOMAIN filled' = 1 .. n + 1
      /\ filled'[n + 1] = fill /\ \A i \in 1 .. n : filled'[i] = filled[i]
  BY <1>1
<1>. HIDE DEF n
<1>4. Buys(s)' = Buys(s) \cup {i \in {n + 1} : fill.symbol = s /\ fill.side = "BUY"}
  BY <1>3 DEF Buys
<1>5. Buys(s) \subseteq 1 .. n
  BY <1>3 DEF Buys
<1>6. CASE order.side = "BUY" /\ order.symbol = s
  <2>1. Buys(s)' = Buys(s) \cup {n + 1}
    BY <1>2, <1>4, <1>6
  <2>2. Paid(s)' = {filled'[i].paid : i \in Buys(s)'}
    BY DEF Paid
  <2>3. QED BY <1>2, <1>3, <1>5, <1>6, <2>1, <2>2 DEF Paid, n
<1>7. CASE ~(order.side = "BUY" /\ order.symbol = s)
  <2>1. Buys(s)' = Buys(s)
    BY <1>2, <1>4, <1>7
  <2>2. Paid(s)' = {filled'[i].paid : i \in Buys(s)'}
    BY DEF Paid
  <2>3. QED BY <1>3, <1>5, <1>7, <2>1, <2>2 DEF Paid, n
<1>8. QED BY <1>6, <1>7


\* Another fill leaves the upper bound more room.
LEMMA MoreFills ==
  ASSUME NEW S, NEW size \in Nat, NEW cost \in Nat, NEW m \in Nat, NEW n \in Nat, m <= n,
         EntryBounded(S, size, cost, m)
  PROVE  EntryBounded(S, size, cost, n)
<1>1. PICK p, q \in Nat : Spans(S, p, q) /\ CostBetween(size, cost, m, p, q)
  BY DEF EntryBounded
<1>2. Worth(size, q) \in Nat
  BY WorthNat
<1>3. CostBetween(size, cost, n, p, q)
  BY <1>1, <1>2 DEF CostBetween
<1>4. QED BY <1>1, <1>3 DEF EntryBounded

\* A symbol the step does not trade.
LEMMA SameEntry ==
  ASSUME EngineTypeOK, EntryInv, NEW s \in Symbols, Paid(s)' = Paid(s),
         Len(filled') \in {Len(filled), Len(filled) + 1},
         s \in DOMAIN positions' =>
           /\ s \in DOMAIN positions
           /\ positions'[s].size = positions[s].size /\ positions'[s].cost = positions[s].cost
  PROVE  HasBounds(Paid(s)') /\ EntryOK(s)'
<1>1. HasBounds(Paid(s)')
  BY DEF EntryInv
<1>2. ASSUME s \in DOMAIN positions' PROVE EntryOK(s)'
  <2>1. EntryBounded(Paid(s), positions[s].size, positions[s].cost, Len(filled))
    BY <1>2 DEF EntryInv, EntryOK
  <2>2. positions[s].size \in Nat /\ positions[s].cost \in Nat
    BY <1>2 DEF EngineTypeOK, Book, Position
  <2>3. Len(filled) \in Nat /\ Len(filled') \in Nat /\ Len(filled) <= Len(filled')
    BY DEF EngineTypeOK
  <2>4. EntryBounded(Paid(s), positions[s].size, positions[s].cost, Len(filled'))
    BY <2>1, <2>2, <2>3, MoreFills
  <2>5. QED BY <1>2, <2>4 DEF EntryOK
<1>3. QED BY <1>1, <1>2 DEF EntryOK

\* One price more.
LEMMA SpansMore ==
  ASSUME NEW S \in SUBSET Nat, HasBounds(S), NEW f \in Nat
  PROVE  \E p, q \in Nat :
           /\ Spans(S \cup {f}, p, q) /\ p <= f /\ f <= q
           /\ \A x, y \in Nat : Spans(S, x, y) => p <= x /\ y <= q
<1>1. CASE S = {}
  <2>1. Spans(S \cup {f}, f, f) /\ \A x, y \in Nat : ~Spans(S, x, y)
    BY <1>1 DEF Spans, Cheapest, Dearest
  <2>2. QED BY <2>1
<1>2. CASE S # {}
  <2>1. PICK x, y \in Nat : Spans(S, x, y)
    BY <1>2 DEF HasBounds
  <2>2. x \in S /\ y \in S /\ \A z \in S : x <= z /\ z <= y
    BY <2>1 DEF Spans, Cheapest, Dearest
  <2>3. \A u, v \in Nat : Spans(S, u, v) => u = x /\ v = y
    BY <2>2 DEF Spans, Cheapest, Dearest
  <2>4. PICK p \in {f, x} : p <= f /\ p <= x
    OBVIOUS
  <2>5. PICK q \in {f, y} : f <= q /\ y <= q
    OBVIOUS
  <2>6. \A z \in S \cup {f} : p <= z /\ z <= q
    BY <2>2, <2>4, <2>5
  <2>7. Spans(S \cup {f}, p, q)
    BY <2>2, <2>4, <2>5, <2>6 DEF Spans, Cheapest, Dearest
  <2>8. QED BY <2>3, <2>4, <2>5, <2>7
<1>3. QED BY <1>1, <1>2

LEMMA PaidNat == ASSUME EngineTypeOK, NEW s PROVE Paid(s) \in SUBSET Nat
<1>1. \A i \in Buys(s) : filled[i] \in Fill
  BY DEF Buys, EngineTypeOK
<1>2. QED BY <1>1 DEF Paid, Fill

LEMMA SumsOfCosts ==
  \A c, low, high, below, above, value, less, more, fills \in Nat :
    /\ below <= low /\ low <= c /\ c <= high + fills /\ high <= above
    /\ less <= value /\ value <= more
    => c + value >= below + less /\ c + value <= above + more + (fills + 1)
OBVIOUS

LEMMA BuyEntry ==
  ASSUME EngineTypeOK, EntryInv, NEW order \in Order, NEW price \in Prices, FillBuy(order, price)
  PROVE  EntryInv'
<1>. DEFINE s == order.symbol
            f == FillPrice("BUY", price)
            n == order.size
<1>1. s \in Symbols /\ n \in Nat /\ f \in Nat /\ order.side = "BUY" /\ Record(order, price)
  BY OrderFacts DEF FillBuy
<1>2. /\ positions' = With(positions, s, Bought(order, price))
      /\ Len(filled) \in Nat /\ Len(filled') = Len(filled) + 1
  BY <1>1, PaidGrows DEF FillBuy, EngineTypeOK
<1>3. /\ DOMAIN positions' = DOMAIN positions \cup {s}
      /\ positions'[s] = Bought(order, price)
      /\ \A r \in DOMAIN positions \ {s} : positions'[r] = positions[r]
  BY <1>2 DEF With
<1>4. ASSUME NEW r \in Symbols \ {s} PROVE HasBounds(Paid(r)') /\ EntryOK(r)'
  <2>1. Paid(r)' = Paid(r)
    BY <1>1, PaidGrows
  <2>2. QED BY <1>2, <1>3, <2>1, SameEntry
<1>5. HasBounds(Paid(s)') /\ EntryOK(s)'
  <2>1. Paid(s)' = Paid(s) \cup {f} /\ HasBounds(Paid(s)) /\ Paid(s) \in SUBSET Nat
    BY <1>1, PaidGrows, PaidNat DEF EntryInv
  <2>2. PICK p, q \in Nat :
          /\ Spans(Paid(s)', p, q) /\ p <= f /\ f <= q
          /\ \A x, y \in Nat : Spans(Paid(s), x, y) => p <= x /\ y <= q
    <3>. DEFINE old == Paid(s)
                new == Paid(s)'
    <3>1. f \in Nat /\ new = old \cup {f} /\ HasBounds(old) /\ old \in SUBSET Nat
      BY <1>1, <2>1
    <3>. HIDE DEF f, old, new
    <3>2. \E p, q \in Nat :
            /\ Spans(new, p, q) /\ p <= f /\ f <= q
            /\ \A x, y \in Nat : Spans(old, x, y) => p <= x /\ y <= q
      BY <3>1, SpansMore
    <3>3. QED BY <3>2 DEF old, new
  <2>3. TradeValue("BUY", n, price) = Worth(n, f)
    BY <1>1 DEF TradeValue, Worth
  <2>. HIDE DEF f
  <2>4. /\ Worth(n, f) \in Nat /\ Worth(n, p) \in Nat /\ Worth(n, q) \in Nat
        /\ Worth(n, p) <= Worth(n, f) /\ Worth(n, f) <= Worth(n, q)
    BY <1>1, <2>2, WorthGrows, WorthNat
  <2>5. EntryBounded(Paid(s)', positions'[s].size, positions'[s].cost, Len(filled'))
    <3>1. CASE Holds(s)
      <4>. DEFINE m == positions[s].size
                  c == positions[s].cost
      <4>1. m \in Nat /\ c \in Nat /\ EntryBounded(Paid(s), m, c, Len(filled))
        BY <1>1, <3>1 DEF EngineTypeOK, Book, Position, EntryInv, EntryOK, Holds
      <4>2. positions'[s].size = m + n /\ positions'[s].cost = c + Worth(n, f)
        BY <1>3, <2>3, <3>1 DEF Bought
      <4>. HIDE DEF m, c
      <4>3. PICK x, y \in Nat : Spans(Paid(s), x, y) /\ CostBetween(m, c, Len(filled), x, y)
        BY <4>1 DEF EntryBounded
      <4>4. p <= x /\ y <= q
        BY <2>2, <4>3
      <4>5. /\ Worth(m, x) \in Nat /\ Worth(m, y) \in Nat /\ Worth(m, p) \in Nat
            /\ Worth(m, q) \in Nat /\ Worth(m, p) <= Worth(m, x) /\ Worth(m, y) <= Worth(m, q)
        BY <4>1, <4>4, WorthGrows, WorthNat
      <4>6. /\ Worth(m + n, p) = Worth(m, p) + Worth(n, p)
            /\ Worth(m + n, q) = Worth(m, q) + Worth(n, q)
        <5>1. n \in Nat /\ m \in Nat /\ p \in Nat /\ q \in Nat
          BY <1>1, <2>2, <4>1
        <5>. HIDE DEF n
        <5>2. Worth(m + n, p) = Worth(m, p) + Worth(n, p)
          BY <5>1, WorthAdds
        <5>3. Worth(m + n, q) = Worth(m, q) + Worth(n, q)
          BY <5>1, WorthAdds
        <5>4. QED BY <5>2, <5>3
      <4>7. c >= Worth(m, x) /\ c <= Worth(m, y) + Len(filled)
        BY <4>3 DEF CostBetween
      <4>8. CostBetween(m + n, c + Worth(n, f), Len(filled'), p, q)
        <5>1. Len(filled) \in Nat /\ Len(filled') = Len(filled) + 1
          BY <1>2
        <5>2. /\ c + Worth(n, f) >= Worth(m, p) + Worth(n, p)
              /\ c + Worth(n, f) <= Worth(m, q) + Worth(n, q) + (Len(filled) + 1)
          BY <2>4, <4>1, <4>5, <4>7, <5>1, SumsOfCosts
        <5>3. QED BY <4>6, <5>1, <5>2 DEF CostBetween
      <4>9. QED BY <2>2, <4>2, <4>8 DEF EntryBounded
    <3>2. CASE ~Holds(s)
      <4>1. positions'[s].size = n /\ positions'[s].cost = Worth(n, f)
        BY <1>1, <1>3, <2>3, <2>4, <3>2 DEF Bought
      <4>2. CostBetween(n, Worth(n, f), Len(filled'), p, q)
        BY <1>2, <2>4 DEF CostBetween
      <4>3. QED BY <2>2, <4>1, <4>2 DEF EntryBounded
    <3>3. QED BY <3>1, <3>2
  <2>6. QED BY <2>2, <2>5 DEF HasBounds, EntryOK
<1>6. QED BY <1>4, <1>5 DEF EntryInv

LEMMA SellEntry ==
  ASSUME EngineTypeOK, EntryInv, NEW order \in Order, NEW price \in Prices, FillSell(order, price)
  PROVE  EntryInv'
<1>. DEFINE s == order.symbol
            h == positions[s].size
            a == positions[s].cost
            n == Len(filled)
<1>1. /\ s \in DOMAIN positions /\ s \in Symbols /\ order.side = "SELL" /\ Record(order, price)
      /\ positions[s] \in Position
  BY OrderFacts DEF FillSell, Outcome, CanFill, Holds, EngineTypeOK, Book
<1>2. h \in Nat /\ a \in Nat /\ n \in Nat /\ Len(filled') = n + 1
  BY <1>1, PaidGrows DEF EngineTypeOK, Position
<1>3. \A r : Paid(r)' = Paid(r)
  BY <1>1, PaidGrows
<1>4. CASE Emptied(order)
  <2>1. positions' = Restrict(positions, DOMAIN positions \ {s})
    BY <1>4 DEF FillSell
  <2>2. /\ DOMAIN positions' \subseteq DOMAIN positions
        /\ \A r \in DOMAIN positions' : positions'[r] = positions[r]
    BY <2>1 DEF Restrict
  <2>3. ASSUME NEW r \in Symbols PROVE HasBounds(Paid(r)') /\ EntryOK(r)'
    BY <1>2, <1>3, <2>2, SameEntry
  <2>4. QED BY <2>3 DEF EntryInv
<1>5. CASE ~Emptied(order)
  <2>. DEFINE left == [size |-> Remaining(order), cost |-> a - ClosedCost(order),
                       mark |-> FillPrice("SELL", price)]
              c == CloseSize(order)
  <2>1. positions' = [positions EXCEPT ![s] = left]
    BY <1>5 DEF FillSell
  <2>2. left.size = Remaining(order) /\ left.cost = a - ClosedCost(order)
    OBVIOUS
  <2>. HIDE DEF left
  <2>3. DOMAIN positions' = DOMAIN positions /\ positions'[s] = left
        /\ \A r \in DOMAIN positions \ {s} : positions'[r] = positions[r]
    BY <1>1, <2>1
  <2>4. ASSUME NEW r \in Symbols \ {s} PROVE HasBounds(Paid(r)') /\ EntryOK(r)'
    BY <1>2, <1>3, <2>3, SameEntry
  <2>5. c \in Nat /\ c < h /\ Remaining(order) = h - c
    <3>1. c \in 0 .. h /\ Remaining(order) \in 0 .. h
      BY <1>1, SaleFacts
    <3>2. Remaining(order) = h - c
      BY DEF Remaining
    <3>3. Remaining(order) # 0
      BY <1>5, EngineAssumption DEF Emptied
    <3>4. QED BY <1>2, <3>1, <3>2, <3>3
  <2>6. ClosedCost(order) = (a * c) \div h
    BY <1>2, <2>5 DEF ClosedCost
  <2>. HIDE DEF c, h, a
  <2>7. EntryBounded(Paid(s), h, a, n)
    BY <1>1 DEF EntryInv, EntryOK, h, a
  <2>. HIDE DEF n
  <2>8. PICK p, q \in Nat : Spans(Paid(s), p, q) /\ CostBetween(h, a, n, p, q)
    BY <2>7 DEF EntryBounded
  <2>. DEFINE x == p * CommDen
              y == q * CommDen
  <2>9. x \in Nat /\ y \in Nat
    BY EngineAssumption, ProductNat
  <2>10. \A m \in Nat : Worth(m, p) = m * x /\ Worth(m, q) = m * y
    BY EngineAssumption DEF Worth
  <2>. HIDE DEF x, y
  <2>11. a >= h * x /\ a <= h * y + n
    BY <1>2, <2>8, <2>10 DEF CostBetween
  <2>12. a - (a * c) \div h >= (h - c) * x /\ a - (a * c) \div h <= (h - c) * y + n + 1
    BY <1>2, <2>5, <2>9, <2>11, RestOfCost
  <2>13. h - c \in Nat
    BY <1>2, <2>5
  <2>14. CostBetween(h - c, a - (a * c) \div h, n + 1, p, q)
    <3>1. Worth(h - c, p) = (h - c) * x /\ Worth(h - c, q) = (h - c) * y
      BY <2>10, <2>13
    <3>2. (h - c) * y \in Nat
      BY <2>9, <2>13, ProductNat
    <3>3. (h - c) * y + n + 1 = (h - c) * y + (n + 1)
      BY <1>2, <3>2
    <3>4. QED BY <2>12, <3>1, <3>3 DEF CostBetween
  <2>15. EntryBounded(Paid(s)', positions'[s].size, positions'[s].cost, Len(filled'))
    <3>1. positions'[s].size = h - c /\ positions'[s].cost = a - (a * c) \div h
      BY <2>2, <2>3, <2>5, <2>6
    <3>2. EntryBounded(Paid(s), h - c, a - (a * c) \div h, n + 1)
      BY <2>8, <2>14 DEF EntryBounded
    <3>3. QED BY <1>2, <1>3, <3>1, <3>2
  <2>16. HasBounds(Paid(s)') /\ EntryOK(s)'
    BY <1>1, <1>3, <2>15 DEF EntryInv, EntryOK
  <2>17. QED BY <2>4, <2>16 DEF EntryInv
<1>6. QED BY <1>4, <1>5

LEMMA InitEntry == EngineInit => EntryInv
<1>1. SUFFICES ASSUME EngineInit PROVE EntryInv
  OBVIOUS
<1>2. \A s : Paid(s) = {}
  BY <1>1 DEF EngineInit, Paid, Buys
<1>3. DOMAIN positions = {}
  BY <1>1 DEF EngineInit
<1>4. QED BY <1>2, <1>3 DEF EntryInv, HasBounds, EntryOK

LEMMA NothingEntry == ASSUME EngineTypeOK, EntryInv, BooksNothing PROVE EntryInv'
<1>1. \A s : Paid(s)' = Paid(s)
  BY DEF BooksNothing, Paid, Buys
<1>2. ASSUME NEW s \in Symbols PROVE HasBounds(Paid(s)') /\ EntryOK(s)'
  BY <1>1, SameEntry DEF BooksNothing
<1>3. QED BY <1>2 DEF EntryInv

LEMMA StepEntry ==
  ASSUME EngineTypeOK, EntryInv, [EngineNext]_engineVars PROVE EntryInv'
<1>1. ASSUME NEW order \in Requests, NEW price \in Prices, ExecuteOrder(order, price)
      PROVE  EntryInv'
  <2>. order \in Order
    BY RequestsAreOrders
  <2>1. CASE FillBuy(order, price)
    BY <2>1, BuyEntry
  <2>2. CASE FillSell(order, price)
    BY <2>2, SellEntry
  <2>3. CASE DontFill(order, price)
    BY <2>3, NothingEntry DEF DontFill, engineVars, BooksNothing
  <2>4. QED BY <1>1, <2>1, <2>2, <2>3 DEF ExecuteOrder
<1>2. ASSUME NEW S \in SUBSET Symbols, NEW known \in [S -> Prices], GetPortfolioState(known)
      PROVE  EntryInv'
  BY <1>2, MarkBooks, NothingEntry
<1>3. CASE UNCHANGED engineVars
  BY <1>3, NothingEntry DEF engineVars, BooksNothing
<1>4. QED BY <1>1, <1>2, <1>3 DEF EngineNext

LEMMA BoundsImplyEntry == ASSUME EngineTypeOK, EntryInv PROVE EntryWithinPaid
<1>1. ASSUME NEW s \in DOMAIN positions
      PROVE  LET paid == {filled[i].paid : i \in Buys(s)}
                 size == positions[s].size
             IN  /\ paid # {}
                 /\ positions[s].cost >= size * Min(paid) * CommDen
                 /\ positions[s].cost <= size * Max(paid) * CommDen + Len(filled)
  <2>1. s \in Symbols
    BY DEF EngineTypeOK, Book
  <2>2. PICK p, q \in Nat :
          /\ Spans(Paid(s), p, q)
          /\ CostBetween(positions[s].size, positions[s].cost, Len(filled), p, q)
    BY <2>1 DEF EntryInv, EntryOK, EntryBounded
  <2>3. Paid(s) \in SUBSET Nat
    BY PaidNat
  <2>4. Min(Paid(s)) = p /\ Max(Paid(s)) = q /\ Paid(s) # {}
    BY <2>2, <2>3 DEF Spans, Cheapest, Dearest, Min, Max
  <2>5. QED BY <2>2, <2>4 DEF CostBetween, Worth, Paid
<1>2. QED BY <1>1 DEF EntryWithinPaid

\* The average entry price of a position is within the lowest and the highest
\* price its symbol was bought at, but for the rounding of partial closes
\* (execute_order), over every sequence of additions and closes.
THEOREM EntryWithinPaidCorrect == EngineSpec => []EntryWithinPaid
<1>1. EngineTypeOK /\ EntryInv /\ [EngineNext]_engineVars => EntryInv'
  BY StepEntry
<1>2. EngineTypeOK /\ EntryInv => EntryWithinPaid
  BY BoundsImplyEntry
<1>3. QED BY <1>1, <1>2, InitEntry, EngineTypeCorrect, PTL DEF EngineSpec

-----------------------------------------------------------------------------
(***************************************************************************)
(* The gate and the strategies: what every caller of them gets.            *)
(***************************************************************************)

\* The lesser and the greater of two numbers.
LEMMA PairMin ==
  \A x, y \in Int : Min({x, y}) \in Int /\ Min({x, y}) <= x /\ Min({x, y}) <= y
                  /\ (Min({x, y}) = x \/ Min({x, y}) = y)
<1>. SUFFICES ASSUME NEW x \in Int, NEW y \in Int
              PROVE  Min({x, y}) \in {x, y} /\ Min({x, y}) <= x /\ Min({x, y}) <= y
  OBVIOUS
<1>1. \E m \in {x, y} : \A z \in {x, y} : m <= z
  OBVIOUS
<1>2. QED BY <1>1 DEF Min

LEMMA PairMax ==
  \A x, y \in Int : Max({x, y}) \in Int /\ x <= Max({x, y}) /\ y <= Max({x, y})
                  /\ (Max({x, y}) = x \/ Max({x, y}) = y)
<1>. SUFFICES ASSUME NEW x \in Int, NEW y \in Int
              PROVE  Max({x, y}) \in {x, y} /\ x <= Max({x, y}) /\ y <= Max({x, y})
  OBVIOUS
<1>1. \E m \in {x, y} : \A z \in {x, y} : z <= m
  OBVIOUS
<1>2. QED BY <1>1 DEF Max

LEMMA PairNat == \A x, y \in Nat : Min({x, y}) \in Nat /\ Max({x, y}) \in Nat
BY PairMin, PairMax

\* Rounding a quotient gives a whole number, and no negative one from none.
LEMMA RoundDivType ==
  ASSUME NEW a \in Int, NEW b \in Nat \ {0}
  PROVE  RoundDiv(a, b) \in Int /\ (a >= 0 => RoundDiv(a, b) \in Nat)
<1>1. 2 * a + b \in Int /\ 2 * b \in Nat \ {0} /\ (a >= 0 => 2 * a + b >= 0)
  OBVIOUS
<1>2. \A n \in Int, d \in Nat \ {0} : n \div d \in Int /\ (n >= 0 => n \div d \in Nat)
  OBVIOUS
<1>3. QED BY <1>1, <1>2 DEF RoundDiv

LEMMA SnapshotType ==
  ASSUME EngineTypeOK, NEW S \in SUBSET Symbols, NEW known \in [S -> Prices]
  PROVE  LET snap == SnapshotOf(known) IN
         /\ DOMAIN snap = {"equity", "drawdown", "positions"}
         /\ snap.equity \in Int /\ snap.drawdown \in Int
         /\ Book(snap.positions)
<1>. DEFINE book == MarkedWith(positions, known)
            equity == cash + MarketValue(book)
            top == Ratcheted(peak, equity)
<1>1. Book(book)
  BY MarkedBook DEF EngineTypeOK
<1>2. equity \in Int
  BY <1>1, MarketValueInt DEF EngineTypeOK
<1>. HIDE DEF book
<1>3. top \in Int
  BY <1>2 DEF EngineTypeOK, Ratcheted
<1>4. RoundDiv(equity, Cent) * Cent \in Int
  BY <1>2, RoundDivType, GateAssumption
<1>. HIDE DEF equity, top
<1>5. DrawdownOf(top, equity) \in Int
  <2>1. CASE top > 0
    <3>1. (top - equity) * DrawdownDen \in Int /\ top \in Nat \ {0}
      BY <1>2, <1>3, <2>1, GateAssumption
    <3>2. QED BY <2>1, <3>1, RoundDivType DEF DrawdownOf
  <2>2. CASE ~(top > 0)
    BY <2>2 DEF DrawdownOf
  <2>3. QED BY <2>1, <2>2
<1>6. SnapshotOf(known) = [equity |-> RoundDiv(equity, Cent) * Cent,
                           drawdown |-> DrawdownOf(top, equity), positions |-> book]
  BY DEF SnapshotOf, equity, top, book
<1>7. QED BY <1>1, <1>4, <1>5, <1>6

LEMMA ClampType ==
  ASSUME NEW floor \in 0 .. StrengthDen, NEW x \in Nat
  PROVE  Clamp(floor, x) \in 0 .. StrengthDen
<1>1. Max({floor, x}) \in Nat
  <2>1. floor \in Nat
    BY GateAssumption
  <2>2. QED BY <2>1, PairNat
<1>2. StrengthDen \in Nat
  BY GateAssumption
<1>3. Min({StrengthDen, Max({floor, x})}) \in {StrengthDen, Max({floor, x})}
      /\ Min({StrengthDen, Max({floor, x})}) <= StrengthDen
  BY <1>1, <1>2, PairMin
<1>4. QED BY <1>1, <1>2, <1>3 DEF Clamp

\* Every signal of a strategy is a signal for the symbol it was asked about.
LEMMA SignalsType ==
  ASSUME NEW n, NEW s \in Symbols, NEW f \in Features, NEW snap,
         NEW signal \in Signals(n, s, f, snap)
  PROVE  signal \in Signal /\ signal.symbol = s /\ signal.kind \in {"LONG", "FLAT"}
<1>1. f.spread \in Nat /\ f.heat \in Nat
  BY StrategyAssumption DEF FeatureVector
<1>2. /\ Clamp(MomentumFloor, f.spread) \in 0 .. StrengthDen
      /\ Clamp(SentimentFloor, f.heat) \in 0 .. StrengthDen
  BY <1>1, ClampType, StrategyAssumption
<1>3. Flat(s) \subseteq Signal
  BY GateAssumption DEF Flat, Signal
<1>4. /\ Long(s, MomentumPct, Clamp(MomentumFloor, f.spread)) \subseteq Signal
      /\ Long(s, SentimentPct, Clamp(SentimentFloor, f.heat)) \subseteq Signal
  BY <1>2, StrategyAssumption DEF Long, Signal
<1>5. signal \in Flat(s) \cup Long(s, MomentumPct, Clamp(MomentumFloor, f.spread))
                         \cup Long(s, SentimentPct, Clamp(SentimentFloor, f.heat))
  BY DEF Signals, Momentum, Sentiment
<1>6. signal.symbol = s /\ signal.kind \in {"LONG", "FLAT"}
  BY <1>5 DEF Flat, Long
<1>7. QED BY <1>3, <1>4, <1>5, <1>6

\* What the gate approves has a size, which may be zero.
LEMMA ApprovedOrder ==
  ASSUME NEW signal \in Signal, NEW price \in Nat, NEW snap,
         snap.equity \in Int, Book(snap.positions), Approved(signal, snap, price)
  PROVE  OrderOf(signal, snap, price) \in Order
<1>1. AdjustedSize(signal, snap, price) \in Nat
  <2>1. CASE signal.kind = "FLAT"
    BY <2>1 DEF Approved, HeldIn, AdjustedSize, Book, Position
  <2>2. CASE signal.kind # "FLAT"
    <3>1. signal.pct \in Nat /\ signal.strength \in Nat
      BY DEF Signal
    <3>2. MaxPosition \in Nat /\ MaxExposure \in Nat /\ MinStrength \in Nat
          /\ PctDen \in Nat \ {0} /\ StrengthDen \in Nat \ {0}
      BY GateAssumption
    <3>3. Min({signal.pct, MaxPosition}) \in Nat /\ Max({MinStrength, signal.strength}) \in Nat
      BY <3>1, <3>2, PairNat
    <3>4. Target(signal, snap) \in Int
      BY <3>3 DEF Target
    <3>5. RemainingExposure(snap) \in Int
      <4>1. Allocated(snap) \in Int
        BY MarketValueInt DEF Allocated
      <4>2. QED BY <4>1, <3>2 DEF RemainingExposure
    <3>6. AllowedAllocation(signal, snap) \in Int
      BY <3>4, <3>5, PairMin DEF AllowedAllocation
    <3>7. AllowedAllocation(signal, snap) > 0 /\ price > 0
      BY <2>2 DEF Approved
    <3>8. PctDen * StrengthDen * Scale * price \in Nat \ {0}
      <4>1. \A x \in Nat \ {0}, y \in Nat \ {0} : x * y \in Nat \ {0}
        OBVIOUS
      <4>2. Scale \in Nat \ {0}
        BY <4>1, EngineAssumption DEF Scale
      <4>3. PctDen * StrengthDen \in Nat \ {0}
        BY <3>2, <4>1
      <4>4. PctDen * StrengthDen * Scale \in Nat \ {0}
        BY <4>1, <4>2, <4>3
      <4>5. price \in Nat \ {0}
        BY <3>7
      <4>6. QED BY <4>1, <4>4, <4>5
    <3>9. QED BY <2>2, <3>6, <3>7, <3>8, RoundDivType DEF AdjustedSize
  <2>3. QED BY <2>1, <2>2
<1>2. QED BY <1>1 DEF OrderOf, Order, Signal

\* Executing any order keeps the account well typed.
LEMMA ExecuteType ==
  ASSUME EngineTypeOK, NEW order \in Order, NEW price \in Prices, ExecuteOrder(order, price)
  PROVE  EngineTypeOK'
<1>1. CASE FillBuy(order, price)
  BY <1>1, BuyType
<1>2. CASE FillSell(order, price)
  BY <1>2, SellType
<1>3. CASE DontFill(order, price)
  BY <1>3 DEF DontFill, engineVars, EngineTypeOK, Book
<1>4. QED BY <1>1, <1>2, <1>3 DEF ExecuteOrder

\* A strategy does not enter a position it sees.
LEMMA EntriesAreNew ==
  ASSUME NEW n, NEW s, NEW f, NEW snap, NEW signal \in Signals(n, s, f, snap),
         signal.kind = "LONG"
  PROVE  s \notin DOMAIN snap.positions
BY DEF Signals, Momentum, Sentiment, Flat

\* An account without positions is worth its cash.
LEMMA EmptyWorthless ==
  ASSUME NEW book, DOMAIN book = {}
  PROVE  MarketValue(book) = 0
<1>. DEFINE f == [s \in Symbols |-> PositionValue(book, s)]
<1>1. f \in [Symbols -> Int] /\ \A s \in Symbols : f[s] = 0
  BY DEF PositionValue
<1>. HIDE DEF f
<1>2. SumFunction(f) = 0
  BY <1>1, SumZero, EngineAssumption
<1>3. QED BY <1>2 DEF f, MarketValue

\* Rounding to the nearest whole number gains at most half a unit.
LEMMA RoundDivBound ==
  ASSUME NEW a \in Int, NEW b \in Nat \ {0}
  PROVE  2 * (b * RoundDiv(a, b)) <= 2 * a + b
<1>1. 2 * a + b \in Int /\ 2 * b \in Nat \ {0}
  OBVIOUS
<1>2. \A n \in Int, d \in Nat \ {0} : n \div d \in Int /\ d * (n \div d) <= n
  OBVIOUS
<1>3. (2 * b) * RoundDiv(a, b) <= 2 * a + b /\ RoundDiv(a, b) \in Int
  BY <1>1, <1>2 DEF RoundDiv
<1>4. (2 * b) * RoundDiv(a, b) = 2 * (b * RoundDiv(a, b))
  BY <1>3
<1>5. QED BY <1>3, <1>4

\* What the signal asks for, and what is left, are whole numbers.
LEMMA AllocationType ==
  ASSUME NEW signal \in Signal, NEW snap, snap.equity \in Int, Book(snap.positions)
  PROVE  /\ Target(signal, snap) \in Int /\ RemainingExposure(snap) \in Int
         /\ Allocated(snap) \in Int /\ AllowedAllocation(signal, snap) \in Int
         /\ AllowedAllocation(signal, snap) <= Target(signal, snap)
         /\ AllowedAllocation(signal, snap) <= RemainingExposure(snap)
<1>1. Target(signal, snap) \in Int
  <2>1. signal.pct \in Nat /\ signal.strength \in Nat /\ MaxPosition \in Nat /\ MinStrength \in Nat
    BY GateAssumption DEF Signal
  <2>2. Min({signal.pct, MaxPosition}) \in Nat /\ Max({MinStrength, signal.strength}) \in Nat
    BY <2>1, PairNat
  <2>3. QED BY <2>2 DEF Target
<1>2. Allocated(snap) \in Int
  BY MarketValueInt DEF Allocated
<1>3. RemainingExposure(snap) \in Int
  BY <1>2, GateAssumption DEF RemainingExposure
<1>4. QED BY <1>1, <1>2, <1>3, PairMin DEF AllowedAllocation

\* The size computed for an allocation is worth no more, but for rounding.
LEMMA SizeWithin ==
  ASSUME NEW signal \in Signal, signal.kind # "FLAT", NEW snap, snap.equity \in Int,
         Book(snap.positions), NEW price \in Nat \ {0}, NEW limit \in Int,
         AllowedAllocation(signal, snap) <= limit * StrengthDen
  PROVE  /\ AdjustedSize(signal, snap, price) \in Int
         /\ 2 * ((PctDen * (Scale * price)) * AdjustedSize(signal, snap, price))
              <= 2 * limit + PctDen * (Scale * price)
<1>. DEFINE worth == PctDen * (Scale * price)
            unit == PctDen * StrengthDen * Scale * price
            left == AllowedAllocation(signal, snap)
            size == RoundDiv(left, unit)
<1>1. PctDen \in Nat \ {0} /\ StrengthDen \in Nat \ {0}
  BY GateAssumption
<1>2. \A x \in Nat \ {0}, y \in Nat \ {0} : x * y \in Nat \ {0}
  OBVIOUS
<1>3. Scale \in Nat \ {0}
  BY <1>2, EngineAssumption DEF Scale
<1>4. worth \in Nat \ {0}
  BY <1>1, <1>2, <1>3
<1>5. unit = StrengthDen * worth
  BY <1>1, <1>3
<1>6. StrengthDen * worth \in Nat \ {0}
  <2>. HIDE DEF worth
  <2>1. QED BY <1>1, <1>2, <1>4
<1>7. left \in Int
  BY AllocationType
<1>8. size = AdjustedSize(signal, snap, price)
  BY DEF AdjustedSize
<1>. HIDE DEF worth, unit, left, size
<1>9. size \in Int /\ 2 * (unit * size) <= 2 * left + unit
  BY <1>5, <1>6, <1>7, RoundDivType, RoundDivBound DEF size
<1>10. 2 * ((StrengthDen * worth) * size) <= 2 * (limit * StrengthDen) + StrengthDen * worth
  <2>. DEFINE r == limit * StrengthDen
              n == StrengthDen * worth
  <2>1. left <= r /\ r \in Int /\ n \in Int /\ unit = n
    BY <1>1, <1>5, <1>6 DEF left
  <2>2. n * size \in Int
    BY <1>9, <2>1
  <2>. HIDE DEF r, n
  <2>3. 2 * (n * size) <= 2 * r + n
    BY <1>7, <1>9, <2>1, <2>2
  <2>4. QED BY <2>3 DEF r, n
<1>11. StrengthDen * (2 * (worth * size)) <= StrengthDen * (2 * limit + worth)
  <2>1. 2 * ((StrengthDen * worth) * size) = StrengthDen * (2 * (worth * size))
    BY <1>1, <1>4, <1>9
  <2>2. 2 * (limit * StrengthDen) + StrengthDen * worth = StrengthDen * (2 * limit + worth)
    BY <1>1, <1>4
  <2>3. QED BY <1>10, <2>1, <2>2
<1>12. 2 * (worth * size) <= 2 * limit + worth
  <2>1. \A d \in Nat \ {0}, x \in Int, y \in Int : d * x <= d * y => x <= y
    OBVIOUS
  <2>2. 2 * (worth * size) \in Int /\ 2 * limit + worth \in Int
    BY <1>4, <1>9
  <2>3. QED BY <1>1, <1>11, <2>1, <2>2
<1>13. QED BY <1>8, <1>9, <1>12 DEF worth

\* A purchase at the size the gate computes fits the remaining exposure.
LEMMA SizeFits ==
  ASSUME NEW signal \in Signal, signal.kind # "FLAT", NEW snap, snap.equity \in Int,
         Book(snap.positions), NEW price \in Nat \ {0}
  PROVE  2 * PctDen * (Allocated(snap) + AdjustedSize(signal, snap, price) * price * Scale)
           <= 2 * MaxExposure * snap.equity + PctDen * price * Scale
<1>. DEFINE alloc == Allocated(snap)
            limit == MaxExposure * snap.equity - PctDen * alloc
            worth == Scale * price
            size == AdjustedSize(signal, snap, price)
<1>1. PctDen \in Nat /\ MaxExposure \in Nat /\ alloc \in Int /\ limit \in Int
  BY AllocationType, GateAssumption
<1>2. Scale \in Nat /\ worth \in Nat
  <2>1. Scale \in Nat
    BY EngineAssumption, ProductNat DEF Scale
  <2>2. QED BY <2>1
<1>3. AllowedAllocation(signal, snap) <= limit * StrengthDen
  BY AllocationType DEF RemainingExposure
<1>4. size \in Int /\ 2 * ((PctDen * worth) * size) <= 2 * limit + PctDen * worth
  BY <1>1, <1>3, SizeWithin
<1>5. size * price * Scale = worth * size /\ PctDen * price * Scale = PctDen * worth
  BY <1>1, <1>2, <1>4
<1>6. 2 * PctDen * (alloc + worth * size) = 2 * (PctDen * alloc) + 2 * ((PctDen * worth) * size)
  BY <1>1, <1>2, <1>4
<1>7. 2 * MaxExposure * snap.equity = 2 * (MaxExposure * snap.equity)
  BY <1>1
<1>8. /\ PctDen * alloc \in Int /\ (PctDen * worth) * size \in Int
      /\ MaxExposure * snap.equity \in Int /\ PctDen * worth \in Int
  BY <1>1, <1>2, <1>4
<1>9. 2 * limit = 2 * (MaxExposure * snap.equity) - 2 * (PctDen * alloc)
  BY <1>1
<1>. HIDE DEF alloc, limit, worth, size
<1>10. 2 * PctDen * (alloc + worth * size) <= 2 * MaxExposure * snap.equity + PctDen * worth
  BY <1>4, <1>6, <1>7, <1>8, <1>9
<1>11. QED BY <1>5, <1>10 DEF alloc, size
=============================================================================
