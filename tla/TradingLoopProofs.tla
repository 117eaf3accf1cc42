------------------------- MODULE TradingLoopProofs -------------------------
(***************************************************************************)
(* Theorems about the trading loop, for every set of symbols, every price, *)
(* every feature vector and every limit of the risk gate.                  *)
(***************************************************************************)
EXTENDS TradingLoop, PaperTradingProofs

-----------------------------------------------------------------------------
(***************************************************************************)
(* Type correctness.  LoopTypeOK is inductive.                             *)
(***************************************************************************)

\* A buffer is a known close or Empty, and Empty is no price.
LEMMA EmptyIsNoPrice == Empty \notin Prices
BY EngineAssumption DEF Empty

LEMMA ClosesKnown ==
  ASSUME NEW syms \in SUBSET Symbols, NEW buf \in [syms -> Prices \cup {Empty}]
  PROVE  LastCloses(buf) \in [{s \in syms : buf[s] # Empty} -> Prices]
BY DEF LastCloses

LEMMA InitLoopType == Init => LoopTypeOK
<1>. SUFFICES ASSUME Init PROVE LoopTypeOK
  OBVIOUS
<1>1. EngineTypeOK
  BY InitType DEF Init
<1>2. QED BY <1>1 DEF Init, LoopTypeOK, InSymbol, Awaits, NumStrategies

\* The end of a symbol, wherever it comes from.
LEMMA FinishType ==
  ASSUME NEW s \in todo, FinishSymbol(s)
  PROVE  /\ pc' \in {"sleep", "price"} /\ tick' = << >> /\ turn' = 1
         /\ todo' \subseteq todo /\ (pc' = "price" <=> todo' # {})
BY DEF FinishSymbol

\* A step that leaves the account and the symbols alone, in any other way than
\* through its program counter, keeps the types if these parts keep theirs.
LEMMA QuietType ==
  ASSUME LoopTypeOK, UNCHANGED <<engineVars, symbols, orders>>,
         active' \subseteq Symbols,
         buffers' \in [symbols -> Prices \cup {Empty}],
         pc' \in Awaits \cup {"decide"}, pc' = "feeds" => symbols # {},
         todo' \subseteq symbols, todo' # {} <=> pc' \in {"price"} \cup InSymbol,
         turn' \in 1 .. NumStrategies,
         pc' \in InSymbol => TickTypeOK' /\ buffers'[tick'.symbol] = tick'.price,
         pc' \notin InSymbol => tick' = << >> /\ turn' = 1,
         pc' \in {"save", "announce"} => Current \in DOMAIN orders,
         saved' \subseteq DOMAIN orders, announced' \subseteq DOMAIN orders
  PROVE  LoopTypeOK'
<1>1. EngineTypeOK'
  BY DEF LoopTypeOK, engineVars, EngineTypeOK, Book
<1>2. QED BY <1>1 DEF LoopTypeOK, InSymbol, Awaits, Current

LEMMA RefreshType == LoopTypeOK /\ Refresh => LoopTypeOK'
<1>. SUFFICES ASSUME LoopTypeOK, Refresh PROVE LoopTypeOK'
  OBVIOUS
<1>1. EngineTypeOK'
  BY DEF LoopTypeOK, Refresh, engineVars, EngineTypeOK, Book
<1>2. todo = {} /\ pc = "refresh" /\ tick = << >> /\ turn = 1
  BY DEF LoopTypeOK, Refresh, InSymbol
<1>3. symbols' \subseteq Symbols /\ buffers' \in [symbols' -> Prices \cup {Empty}]
  BY DEF LoopTypeOK, Refresh, Rebuilt
<1>4. /\ pc' \in {"sleep", "feeds"} /\ UNCHANGED <<active, todo, tick, turn, orders, saved, announced>>
        /\ (pc' = "feeds" => symbols' # {})
  BY DEF Refresh
<1>5. QED BY <1>1, <1>2, <1>3, <1>4 DEF LoopTypeOK, InSymbol, Awaits

\* Outside the processing of a symbol.
LEMMA PlainStepType ==
  ASSUME LoopTypeOK,
         \/ FetchFeeds \/ PriceFails \/ StoreFails \/ Wake \/ Start \/ SetActive
  PROVE  LoopTypeOK'
<1>1. CASE FetchFeeds
  BY <1>1, QuietType DEF FetchFeeds, LoopTypeOK, InSymbol, Awaits
<1>2. CASE PriceFails
  <2>1. PICK s \in todo : FinishSymbol(s)
    BY <1>2 DEF PriceFails
  <2>2. QED BY <1>2, <2>1, FinishType, QuietType DEF PriceFails, LoopTypeOK, InSymbol, Awaits
<1>3. CASE StoreFails
  <2>1. PICK s \in todo, p \in Prices :
          FinishSymbol(s) /\ buffers' = [buffers EXCEPT ![s] = p]
    BY <1>3 DEF StoreFails
  <2>2. buffers' \in [symbols -> Prices \cup {Empty}]
    BY <2>1 DEF LoopTypeOK
  <2>3. QED BY <1>3, <2>1, <2>2, FinishType, QuietType DEF StoreFails, LoopTypeOK, InSymbol, Awaits
<1>4. CASE Wake
  BY <1>4, QuietType DEF Wake, LoopTypeOK, InSymbol, Awaits
<1>5. CASE Start
  BY <1>5, QuietType DEF Start, LoopTypeOK, InSymbol, Awaits
<1>6. CASE SetActive
  <2>1. active' \subseteq Symbols
    BY <1>6 DEF SetActive, LoopTypeOK
  <2>2. QED BY <1>6, <2>1, QuietType DEF SetActive, LoopTypeOK, InSymbol, Awaits, TickTypeOK, Book
<1>7. QED BY <1>1, <1>2, <1>3, <1>4, <1>5, <1>6

\* While a symbol is processed.
LEMMA SymbolStepType ==
  ASSUME LoopTypeOK,
         \/ DecideRaises \/ NoOrder \/ SaveOrder \/ SaveFails
         \/ Announce \/ AnnounceFails \/ BroadcastTick
  PROVE  LoopTypeOK'
<1>1. pc \in InSymbol /\ TickTypeOK /\ buffers[tick.symbol] = tick.price
      /\ tick.symbol \in todo /\ turn \in 1 .. 2 /\ todo \subseteq symbols
      /\ active \subseteq Symbols /\ buffers \in [symbols -> Prices \cup {Empty}]
      /\ saved \subseteq DOMAIN orders /\ announced \subseteq DOMAIN orders
  BY DEF LoopTypeOK, InSymbol, TickTypeOK, NumStrategies, DecideRaises, NoOrder,
         SaveOrder, SaveFails, Announce, AnnounceFails, BroadcastTick
<1>2. ASSUME FinishSymbol(tick.symbol), UNCHANGED <<engineVars, symbols, orders, active, buffers>>,
             saved' \subseteq DOMAIN orders, announced' \subseteq DOMAIN orders
      PROVE  LoopTypeOK'
  BY <1>1, <1>2, FinishType, QuietType DEF InSymbol, Awaits, NumStrategies
<1>3. ASSUME pc' \in InSymbol, pc' \in {"save", "announce"} => Current \in DOMAIN orders,
             turn' \in 1 .. NumStrategies, UNCHANGED <<todo, tick>>,
             UNCHANGED <<engineVars, symbols, orders, active, buffers>>,
             saved' \subseteq DOMAIN orders, announced' \subseteq DOMAIN orders
      PROVE  LoopTypeOK'
  <2>1. TickTypeOK' /\ buffers'[tick'.symbol] = tick'.price
    BY <1>1, <1>3 DEF TickTypeOK, Book
  <2>2. QED BY <1>1, <1>3, <2>1, QuietType DEF InSymbol, Awaits
<1>4. NextTurn => /\ pc' \in InSymbol /\ turn' \in 1 .. NumStrategies
                     /\ pc' \notin {"save", "announce"}
  BY <1>1 DEF NextTurn, NumStrategies, InSymbol
<1>5. pc \in {"save", "announce"} => Current \in DOMAIN orders
  BY DEF LoopTypeOK
<1>6. CASE DecideRaises
  BY <1>1, <1>2, <1>6 DEF DecideRaises
<1>7. CASE NoOrder
  BY <1>1, <1>3, <1>4, <1>7 DEF NoOrder
<1>8. CASE SaveOrder
  BY <1>1, <1>3, <1>5, <1>8 DEF SaveOrder, InSymbol, NumStrategies
<1>9. CASE SaveFails
  BY <1>1, <1>2, <1>5, <1>9 DEF SaveFails
<1>10. CASE Announce
  BY <1>1, <1>3, <1>4, <1>5, <1>10 DEF Announce
<1>11. CASE AnnounceFails
  BY <1>1, <1>2, <1>5, <1>11 DEF AnnounceFails
<1>12. CASE BroadcastTick
  BY <1>1, <1>2, <1>12 DEF BroadcastTick
<1>13. QED BY <1>6, <1>7, <1>8, <1>9, <1>10, <1>11, <1>12

LEMMA TakeSnapshotType == LoopTypeOK /\ TakeSnapshot => LoopTypeOK'
<1>. SUFFICES ASSUME LoopTypeOK, TakeSnapshot PROVE LoopTypeOK'
  OBVIOUS
<1>1. PICK s \in todo, p \in Prices, f \in Features :
        LET closes == [buffers EXCEPT ![s] = p]
        IN  /\ buffers' = closes
            /\ GetPortfolioState(LastCloses(closes))
            /\ tick' = [symbol |-> s, price |-> p, features |-> f,
                        snap |-> SnapshotOf(LastCloses(closes))]
  BY DEF TakeSnapshot
<1>. DEFINE closes == [buffers EXCEPT ![s] = p]
            known == LastCloses(closes)
            S == {r \in symbols : closes[r] # Empty}
<1>2. symbols \subseteq Symbols /\ todo \subseteq symbols
      /\ buffers \in [symbols -> Prices \cup {Empty}] /\ EngineTypeOK
  BY DEF LoopTypeOK
<1>3. closes \in [symbols -> Prices \cup {Empty}] /\ closes[s] = p
  BY <1>2
<1>4. /\ buffers' = closes /\ GetPortfolioState(known)
      /\ tick' = [symbol |-> s, price |-> p, features |-> f, snap |-> SnapshotOf(known)]
  BY <1>1
<1>5. pc' = "decide" /\ turn' = 1 /\ UNCHANGED <<active, symbols, todo, orders, saved, announced>>
  BY DEF TakeSnapshot
<1>. HIDE DEF closes
<1>6. known \in [S -> Prices] /\ S \in SUBSET Symbols
  BY <1>2, <1>3, ClosesKnown
<1>. HIDE DEF known, S
<1>7. EngineTypeOK'
  BY <1>2, <1>4, <1>6, MarkType
<1>8. TickTypeOK'
  BY <1>2, <1>4, <1>5, <1>6, SnapshotType DEF TickTypeOK
<1>9. buffers' \in [symbols' -> Prices \cup {Empty}] /\ buffers'[tick'.symbol] = tick'.price
  BY <1>3, <1>4, <1>5
<1>10. QED BY <1>2, <1>5, <1>7, <1>8, <1>9 DEF LoopTypeOK, InSymbol, Awaits, NumStrategies

\* The order the loop executes is an order, and its price is a price.
LEMMA PlacedOrder ==
  ASSUME LoopTypeOK, pc = "decide", NEW signal \in ApprovedSignals
  PROVE  /\ OrderOf(signal, tick.snap, tick.price) \in Order
         /\ OrderOf(signal, tick.snap, tick.price).symbol = tick.symbol
         /\ tick.price \in Prices
         /\ signal \in Signal /\ signal.kind \in {"LONG", "FLAT"}
         /\ Approved(signal, tick.snap, tick.price)
<1>1. TickTypeOK /\ todo \subseteq Symbols
  BY DEF LoopTypeOK, InSymbol
<1>2. tick.symbol \in Symbols /\ tick.price \in Nat /\ tick.price \in Prices
      /\ tick.features \in Features
  BY <1>1, EngineAssumption DEF TickTypeOK
<1>3. signal \in Signals(turn, tick.symbol, tick.features, tick.snap)
      /\ Approved(signal, tick.snap, tick.price)
  BY DEF ApprovedSignals, TickSignals
<1>4. signal \in Signal /\ signal.symbol = tick.symbol /\ signal.kind \in {"LONG", "FLAT"}
  BY <1>2, <1>3, SignalsType
<1>5. OrderOf(signal, tick.snap, tick.price) \in Order
  BY <1>1, <1>2, <1>3, <1>4, ApprovedOrder DEF TickTypeOK
<1>6. QED BY <1>2, <1>3, <1>4, <1>5 DEF OrderOf

LEMMA PlaceOrderType == LoopTypeOK /\ PlaceOrder => LoopTypeOK'
<1>. SUFFICES ASSUME LoopTypeOK, PlaceOrder PROVE LoopTypeOK'
  OBVIOUS
<1>0. pc = "decide"
  BY DEF PlaceOrder
<1>1. PICK signal \in ApprovedSignals :
        LET order   == OrderOf(signal, tick.snap, tick.price)
            outcome == Outcome(order, tick.price)
        IN  /\ ExecuteOrder(order, tick.price)
            /\ orders' = Append(orders,
                 [side |-> order.side, size |-> order.size,
                  status |-> IF outcome = "RAISED" THEN "PENDING" ELSE outcome])
            /\ IF outcome = "RAISED"
               THEN FinishSymbol(tick.symbol)
               ELSE pc' = "save" /\ UNCHANGED <<todo, tick, turn>>
  BY DEF PlaceOrder
<1>. DEFINE order == OrderOf(signal, tick.snap, tick.price)
            outcome == Outcome(order, tick.price)
            record == [side |-> order.side, size |-> order.size,
                       status |-> IF outcome = "RAISED" THEN "PENDING" ELSE outcome]
<1>2. order \in Order /\ tick.price \in Prices
  BY <1>0, PlacedOrder
<1>3. EngineTypeOK'
  BY <1>1, <1>2, ExecuteType DEF LoopTypeOK
<1>4. record \in OrderRecord
  BY <1>2 DEF OrderRecord, Order, Outcome
<1>. HIDE DEF record
<1>5. orders' = Append(orders, record)
  BY <1>1 DEF record
<1>6. /\ orders' \in Seq(OrderRecord) /\ DOMAIN orders \subseteq DOMAIN orders'
      /\ Len(orders') \in DOMAIN orders'
  BY <1>4, <1>5 DEF LoopTypeOK
<1>7. UNCHANGED <<active, symbols, buffers, saved, announced>>
  BY DEF PlaceOrder
<1>8. CASE outcome = "RAISED"
  <2>1. FinishSymbol(tick.symbol) /\ tick.symbol \in todo
    BY <1>0, <1>1, <1>8 DEF LoopTypeOK, InSymbol, TickTypeOK
  <2>2. /\ pc' \in {"sleep", "price"} /\ tick' = << >> /\ turn' = 1
        /\ todo' \subseteq todo /\ (pc' = "price" <=> todo' # {})
    BY <2>1, FinishType
  <2>3. QED BY <1>3, <1>6, <1>7, <2>2 DEF LoopTypeOK, InSymbol, Awaits, NumStrategies
<1>9. CASE outcome # "RAISED"
  <2>1. pc' = "save" /\ UNCHANGED <<todo, tick, turn>>
    BY <1>1, <1>9
  <2>2. TickTypeOK' /\ buffers'[tick'.symbol] = tick'.price
    BY <1>0, <1>7, <2>1 DEF LoopTypeOK, InSymbol, TickTypeOK, Book
  <2>3. todo # {}
    BY <1>0 DEF LoopTypeOK, InSymbol
  <2>4. QED BY <1>3, <1>6, <1>7, <2>1, <2>2, <2>3 DEF LoopTypeOK, InSymbol, Awaits, Current
<1>10. QED BY <1>8, <1>9

LEMMA CancelType == LoopTypeOK /\ Cancel => LoopTypeOK'
<1>. SUFFICES ASSUME LoopTypeOK, Cancel PROVE LoopTypeOK'
  OBVIOUS
<1>1. pc \in {"save", "announce"} => Current \in DOMAIN orders
  BY DEF LoopTypeOK
<1>2. saved' \subseteq DOMAIN orders /\ announced' \subseteq DOMAIN orders
  BY <1>1 DEF LoopTypeOK, Cancel
<1>3. /\ pc' = "stopped" /\ todo' = {} /\ tick' = << >> /\ turn' = 1
      /\ UNCHANGED <<engineVars, active, symbols, buffers, orders>>
  BY DEF Cancel
<1>4. QED BY <1>2, <1>3, QuietType DEF LoopTypeOK, InSymbol, Awaits, NumStrategies

LEMMA ReadPortfolioType == LoopTypeOK /\ ReadPortfolio => LoopTypeOK'
<1>. SUFFICES ASSUME LoopTypeOK, ReadPortfolio PROVE LoopTypeOK'
  OBVIOUS
<1>1. PICK S \in SUBSET Symbols : LastCloses(buffers) \in [S -> Prices]
  BY ClosesKnown DEF LoopTypeOK
<1>2. EngineTypeOK'
  BY <1>1, MarkType DEF LoopTypeOK, ReadPortfolio
<1>3. UNCHANGED loopVars
  BY DEF ReadPortfolio
<1>4. QED BY <1>2, <1>3 DEF LoopTypeOK, loopVars, TickTypeOK, Book, Current

LEMMA LoopStepType == LoopTypeOK /\ [Next]_vars => LoopTypeOK'
<1>. SUFFICES ASSUME LoopTypeOK, [Next]_vars PROVE LoopTypeOK'
  OBVIOUS
<1>1. CASE UNCHANGED vars
  BY <1>1 DEF vars, engineVars, loopVars, LoopTypeOK, EngineTypeOK, TickTypeOK, Book, Current
<1>2. CASE Next
  BY <1>2, RefreshType, PlainStepType, SymbolStepType, TakeSnapshotType,
     PlaceOrderType, CancelType, ReadPortfolioType DEF Next, LoopStep
<1>3. QED BY <1>1, <1>2

\* The loop has its types for ever: whatever fails, is cancelled or changes in
\* the symbol table, every buffer it looks up is there.
THEOREM LoopTypeCorrect == Spec => []LoopTypeOK
BY InitLoopType, LoopStepType, PTL DEF Spec

-----------------------------------------------------------------------------
(***************************************************************************)
(* What a tick does to its symbol.  The account is compared with the       *)
(* snapshot the strategies share: the position of the symbol is as it was, *)
(* or an entry has opened it, or an exit has closed it; the other symbols  *)
(* are the same.                                                           *)
(***************************************************************************)
Untouched ==
  /\ tick.symbol \in DOMAIN positions <=> tick.symbol \in DOMAIN tick.snap.positions
  /\ tick.symbol \in DOMAIN positions =>
       positions[tick.symbol].size = tick.snap.positions[tick.symbol].size

Entered == tick.symbol \in DOMAIN positions \ DOMAIN tick.snap.positions

Left == tick.symbol \in DOMAIN tick.snap.positions \ DOMAIN positions

LastSold ==
  Current > 0 /\ orders[Current].side = "SELL" /\ orders[Current].status = "FILLED"

Follows ==
  pc \in InSymbol =>
    /\ Untouched \/ Entered \/ Left
    /\ pc = "decide" /\ turn = 1 => Untouched
    /\ Left /\ (pc = "decide" \/ turn = 1) => LastSold
    /\ DOMAIN positions \ {tick.symbol} = DOMAIN tick.snap.positions \ {tick.symbol}

\* Without a position, then and now, the snapshot has the drawdown of now.
EmptyAgrees ==
  pc \in InSymbol /\ DOMAIN positions = {} /\ DOMAIN tick.snap.positions = {} =>
    tick.snap.drawdown = DrawdownOf(peak, cash) /\ peak >= cash

LoopInv == LoopTypeOK /\ Follows /\ EmptyAgrees

Placed(signal) == OrderOf(signal, tick.snap, tick.price)

LEMMA PlacedPurchase ==
  ASSUME LoopTypeOK, pc = "decide", NEW signal \in ApprovedSignals,
         Placed(signal).side = "BUY"
  PROVE  signal.kind = "LONG" /\ tick.symbol \notin DOMAIN tick.snap.positions
<1>1. signal.kind = "LONG"
  BY PlacedOrder DEF Placed, OrderOf
<1>2. QED BY <1>1, EntriesAreNew DEF ApprovedSignals, TickSignals

LEMMA PlacedSale ==
  ASSUME LoopTypeOK, pc = "decide", NEW signal \in ApprovedSignals,
         Placed(signal).side = "SELL"
  PROVE  /\ tick.symbol \in DOMAIN tick.snap.positions
         /\ Placed(signal).size = tick.snap.positions[tick.symbol].size
<1>1. signal.kind = "FLAT" /\ signal.symbol = tick.symbol
  BY PlacedOrder DEF Placed, OrderOf
<1>2. Approved(signal, tick.snap, tick.price)
  BY DEF ApprovedSignals
<1>3. QED BY <1>1, <1>2 DEF Approved, HeldIn, Placed, OrderOf, AdjustedSize

\* A sale of the loop closes the position it finds.
LEMMA SaleWhole ==
  ASSUME LoopInv, pc = "decide", NEW signal \in ApprovedSignals,
         FillSell(Placed(signal), tick.price)
  PROVE  /\ tick.symbol \in DOMAIN positions \cap DOMAIN tick.snap.positions
         /\ Placed(signal).size = positions[tick.symbol].size
         /\ CloseSize(Placed(signal)) = Placed(signal).size
         /\ DOMAIN positions' = DOMAIN positions \ {tick.symbol}
         /\ dropped' = dropped
<1>. DEFINE order == Placed(signal)
            held == positions[tick.symbol]
<1>1. order \in Order /\ order.symbol = tick.symbol /\ order.side = "SELL"
  BY PlacedOrder DEF LoopInv, FillSell, Placed
<1>2. tick.symbol \in DOMAIN tick.snap.positions
      /\ order.size = tick.snap.positions[tick.symbol].size
  BY <1>1, PlacedSale DEF LoopInv
<1>3. tick.symbol \in DOMAIN positions
  BY <1>1 DEF FillSell, Outcome, CanFill, Holds
<1>4. order.size = held.size
  BY <1>2, <1>3 DEF LoopInv, Follows, InSymbol, Untouched, Entered, Left
<1>5. held.size \in Nat /\ held.cost \in Nat /\ EngineTypeOK
  BY <1>3 DEF LoopInv, LoopTypeOK, EngineTypeOK, Book, Position
<1>6. CloseSize(order) = held.size /\ CloseSize(order) = order.size
  BY <1>1, <1>4, <1>5 DEF CloseSize
<1>7. Remaining(order) = 0 /\ Emptied(order)
  BY <1>1, <1>5, <1>6, EngineAssumption DEF Remaining, Emptied
<1>8. ClosedCost(order) = held.cost
  BY <1>1, <1>6 DEF ClosedCost
<1>9. positions' = Restrict(positions, DOMAIN positions \ {tick.symbol})
  BY <1>1, <1>7 DEF FillSell
<1>10. dropped' = dropped + (held.cost - ClosedCost(order))
  BY <1>1, <1>7 DEF FillSell
<1>11. dropped' = dropped
  <2>1. dropped \in Int
    BY <1>5 DEF EngineTypeOK
  <2>. HIDE DEF held
  <2>2. QED BY <1>5, <1>8, <1>10, <2>1
<1>12. QED BY <1>2, <1>3, <1>4, <1>6, <1>9, <1>11 DEF Restrict

\* A purchase opens the position or adds to it.
LEMMA PurchaseOpens ==
  ASSUME LoopInv, pc = "decide", NEW signal \in ApprovedSignals,
         FillBuy(Placed(signal), tick.price)
  PROVE  /\ tick.symbol \notin DOMAIN tick.snap.positions
         /\ DOMAIN positions' = DOMAIN positions \cup {tick.symbol}
<1>1. Placed(signal).symbol = tick.symbol /\ Placed(signal).side = "BUY"
  BY PlacedOrder DEF LoopInv, FillBuy, Placed
<1>2. positions' = With(positions, tick.symbol, Bought(Placed(signal), tick.price))
  BY <1>1 DEF FillBuy
<1>3. QED BY <1>1, <1>2, PlacedPurchase DEF LoopInv, With

\* What PlaceOrder does, for the signal it acts on.
PlacesFor(signal) ==
  /\ ExecuteOrder(Placed(signal), tick.price)
  /\ Len(orders') = Current + 1
  /\ \A i \in DOMAIN orders : orders'[i] = orders[i]
  /\ DOMAIN orders' = DOMAIN orders \cup {Current + 1}
  /\ orders'[Current + 1].side = Placed(signal).side
  /\ LET outcome == Outcome(Placed(signal), tick.price)
     IN  /\ orders'[Current + 1].status = IF outcome = "RAISED" THEN "PENDING" ELSE outcome
         /\ IF outcome = "RAISED"
            THEN pc' \notin InSymbol
            ELSE pc' = "save" /\ UNCHANGED <<todo, tick, turn>>

LEMMA PlaceOrderActs ==
  ASSUME LoopTypeOK, PlaceOrder
  PROVE  pc = "decide" /\ \E signal \in ApprovedSignals : PlacesFor(signal)
<1>1. PICK signal \in ApprovedSignals :
        LET order   == OrderOf(signal, tick.snap, tick.price)
            outcome == Outcome(order, tick.price)
        IN  /\ ExecuteOrder(order, tick.price)
            /\ orders' = Append(orders,
                 [side |-> order.side, size |-> order.size,
                  status |-> IF outcome = "RAISED" THEN "PENDING" ELSE outcome])
            /\ IF outcome = "RAISED"
               THEN FinishSymbol(tick.symbol)
               ELSE pc' = "save" /\ UNCHANGED <<todo, tick, turn>>
  BY DEF PlaceOrder
<1>. DEFINE outcome == Outcome(Placed(signal), tick.price)
            record == [side |-> Placed(signal).side, size |-> Placed(signal).size,
                       status |-> IF outcome = "RAISED" THEN "PENDING" ELSE outcome]
<1>2. orders' = Append(orders, record) /\ ExecuteOrder(Placed(signal), tick.price)
  BY <1>1 DEF Placed
<1>3. outcome = "RAISED" => pc' \notin InSymbol
  BY <1>1 DEF Placed, FinishSymbol, InSymbol
<1>4. outcome # "RAISED" => pc' = "save" /\ UNCHANGED <<todo, tick, turn>>
  BY <1>1 DEF Placed
<1>5. record.side = Placed(signal).side
      /\ record.status = IF outcome = "RAISED" THEN "PENDING" ELSE outcome
  OBVIOUS
<1>. HIDE DEF record
<1>6. /\ Len(orders') = Current + 1 /\ orders'[Current + 1] = record
      /\ \A i \in DOMAIN orders : orders'[i] = orders[i]
      /\ DOMAIN orders' = DOMAIN orders \cup {Current + 1}
  BY <1>2 DEF Current, LoopTypeOK
<1>7. PlacesFor(signal)
  BY <1>2, <1>3, <1>4, <1>5, <1>6 DEF PlacesFor
<1>8. QED BY <1>7 DEF PlaceOrder


-----------------------------------------------------------------------------
(***************************************************************************)
(* Follows and EmptyAgrees are invariant.                                  *)
(***************************************************************************)

\* A tick starts with the positions of its snapshot.
LEMMA TakeSnapshotFollows ==
  ASSUME LoopInv, TakeSnapshot
  PROVE  Follows' /\ EmptyAgrees'
<1>1. PICK s \in todo, p \in Prices, f \in Features :
        LET closes == [buffers EXCEPT ![s] = p]
        IN  /\ GetPortfolioState(LastCloses(closes))
            /\ tick' = [symbol |-> s, price |-> p, features |-> f,
                        snap |-> SnapshotOf(LastCloses(closes))]
  BY DEF TakeSnapshot
<1>. DEFINE known == LastCloses([buffers EXCEPT ![s] = p])
            book == MarkedWith(positions, known)
            equity == cash + MarketValue(book)
<1>2. positions' = book /\ peak' = Ratcheted(peak, equity) /\ cash' = cash
  BY <1>1 DEF GetPortfolioState
<1>3. tick'.snap = [equity |-> RoundDiv(equity, Cent) * Cent,
                    drawdown |-> DrawdownOf(Ratcheted(peak, equity), equity),
                    positions |-> book]
  BY <1>1 DEF SnapshotOf
<1>4. tick'.snap.positions = positions' /\ tick'.snap.drawdown = DrawdownOf(peak', equity)
  BY <1>2, <1>3
<1>. HIDE DEF known, book
<1>5. Follows'
  BY <1>4 DEF TakeSnapshot, Follows, Untouched, Left
<1>6. DOMAIN positions' = {} => tick'.snap.drawdown = DrawdownOf(peak', cash') /\ peak' >= cash'
  <2>1. SUFFICES ASSUME DOMAIN book = {} PROVE equity = cash /\ Ratcheted(peak, equity) >= cash
    BY <1>2, <1>4
  <2>2. MarketValue(book) = 0
    BY <2>1, EmptyWorthless
  <2>3. cash \in Int /\ peak \in Int
    BY DEF LoopInv, LoopTypeOK, EngineTypeOK
  <2>4. equity = cash
    BY <2>2, <2>3
  <2>5. QED BY <2>3, <2>4 DEF Ratcheted
<1>7. QED BY <1>5, <1>6 DEF EmptyAgrees

\* A portfolio request, whenever it comes, moves prices and the peak only.
LEMMA ReadPortfolioFollows ==
  ASSUME LoopInv, ReadPortfolio
  PROVE  Follows' /\ EmptyAgrees'
<1>1. PICK S \in SUBSET Symbols : LastCloses(buffers) \in [S -> Prices]
  BY ClosesKnown DEF LoopInv, LoopTypeOK
<1>. DEFINE book == MarkedWith(positions, LastCloses(buffers))
            equity == cash + MarketValue(book)
<1>2. positions' = book /\ peak' = Ratcheted(peak, equity) /\ cash' = cash
  BY DEF ReadPortfolio, GetPortfolioState
<1>3. /\ DOMAIN positions' = DOMAIN positions
      /\ \A s \in DOMAIN positions : positions'[s].size = positions[s].size
  <2>1. Book(positions)
    BY DEF LoopInv, LoopTypeOK, EngineTypeOK
  <2>2. /\ DOMAIN book = DOMAIN positions
        /\ \A s \in DOMAIN positions : book[s].size = positions[s].size
    BY <1>1, <2>1, MarkedBook
  <2>. HIDE DEF book
  <2>3. QED BY <1>2, <2>2
<1>. HIDE DEF book
<1>4. UNCHANGED <<pc, tick, turn, orders>>
  BY DEF ReadPortfolio, loopVars
<1>5. Follows'
  BY <1>3, <1>4 DEF LoopInv, Follows, Untouched, Entered, Left, LastSold, Current
<1>6. DOMAIN positions = {} /\ peak >= cash => peak' = peak
  <2>1. SUFFICES ASSUME DOMAIN book = {}, peak >= cash PROVE Ratcheted(peak, equity) = peak
    BY <1>2, <1>3
  <2>2. MarketValue(book) = 0
    BY <2>1, EmptyWorthless
  <2>3. cash \in Int /\ peak \in Int
    BY DEF LoopInv, LoopTypeOK, EngineTypeOK
  <2>4. equity = cash
    BY <2>2, <2>3
  <2>5. QED BY <2>1, <2>3, <2>4 DEF Ratcheted
<1>7. EmptyAgrees'
  BY <1>2, <1>3, <1>4, <1>6 DEF LoopInv, EmptyAgrees
<1>8. QED BY <1>5, <1>7

\* An order opens, closes or leaves alone the position of its symbol.
LEMMA PlaceOrderFollows ==
  ASSUME LoopInv, PlaceOrder
  PROVE  Follows' /\ EmptyAgrees'
<1>0. LoopTypeOK /\ EngineTypeOK
  BY DEF LoopInv, LoopTypeOK
<1>1. PICK signal \in ApprovedSignals : PlacesFor(signal)
  BY <1>0, PlaceOrderActs
<1>2. pc = "decide" /\ Current \in Nat
  BY <1>0, PlaceOrderActs DEF LoopTypeOK, Current
<1>. DEFINE outcome == Outcome(Placed(signal), tick.price)
<1>3. CASE outcome = "RAISED"
  BY <1>1, <1>3 DEF PlacesFor, Follows, EmptyAgrees
<1>4. CASE outcome # "RAISED"
  <2>1. pc' = "save" /\ tick' = tick /\ turn' = turn
    BY <1>1, <1>4 DEF PlacesFor
  <2>2. Current' = Current + 1 /\ orders'[Current + 1].side = Placed(signal).side
        /\ orders'[Current + 1].status = outcome
    BY <1>1, <1>4 DEF PlacesFor, Current
  <2>3. CASE FillBuy(Placed(signal), tick.price)
    <3>1. /\ tick.symbol \notin DOMAIN tick.snap.positions
          /\ DOMAIN positions' = DOMAIN positions \cup {tick.symbol}
      BY <1>2, <2>3, PurchaseOpens
    <3>2. QED
      BY <1>2, <2>1, <3>1 DEF LoopInv, Follows, InSymbol, EmptyAgrees, Entered, Left
  <2>4. CASE FillSell(Placed(signal), tick.price)
    <3>1. /\ tick.symbol \in DOMAIN positions \cap DOMAIN tick.snap.positions
          /\ DOMAIN positions' = DOMAIN positions \ {tick.symbol}
      BY <1>2, <2>4, SaleWhole
    <3>2. LastSold'
      BY <1>2, <2>2, <2>4 DEF FillSell, LastSold
    <3>3. QED
      BY <1>2, <2>1, <3>1, <3>2 DEF LoopInv, Follows, InSymbol, EmptyAgrees, Left
  <2>5. CASE DontFill(Placed(signal), tick.price)
    <3>1. UNCHANGED <<positions, cash, peak>>
      BY <2>5 DEF DontFill, engineVars
    <3>2. turn = 1 => ~Left
      BY <1>2 DEF LoopInv, Follows, InSymbol, Untouched, Left
    <3>3. QED
      BY <1>2, <2>1, <3>1, <3>2
      DEF LoopInv, Follows, InSymbol, EmptyAgrees, Untouched, Entered, Left
  <2>6. QED BY <1>1, <2>3, <2>4, <2>5 DEF PlacesFor, ExecuteOrder
<1>5. QED BY <1>3, <1>4

\* The other steps leave the account alone.
LEMMA OtherStepFollows ==
  ASSUME LoopInv, UNCHANGED <<engineVars, orders>>,
         \/ pc' \notin InSymbol
         \/ NoOrder \/ SaveOrder \/ Announce
         \/ UNCHANGED <<pc, tick, turn>>
  PROVE  Follows' /\ EmptyAgrees'
<1>1. UNCHANGED <<positions, cash, peak>>
  BY DEF engineVars
<1>2. CASE pc' \notin InSymbol
  BY <1>2 DEF Follows, EmptyAgrees
<1>3. CASE UNCHANGED <<pc, tick, turn>>
  BY <1>1, <1>3 DEF LoopInv, Follows, EmptyAgrees, Untouched, Entered, Left, LastSold, Current
<1>4. CASE SaveOrder
  <2>1. pc = "save" /\ pc' = "announce" /\ UNCHANGED <<tick, turn>>
    BY <1>4 DEF SaveOrder
  <2>2. QED BY <1>1, <2>1
    DEF LoopInv, Follows, EmptyAgrees, InSymbol, Untouched, Entered, Left, LastSold, Current
<1>5. CASE NoOrder \/ Announce
  <2>1. pc \in {"decide", "announce"} /\ NextTurn /\ tick' = tick
    BY <1>5 DEF NoOrder, Announce
  <2>2. /\ pc' \in {"decide", "tick"} /\ turn' # 1
        /\ pc' = "decide" => turn = 1
    BY <2>1 DEF NextTurn, NumStrategies, LoopInv, LoopTypeOK
  <2>3. QED BY <1>1, <2>1, <2>2
    DEF LoopInv, Follows, EmptyAgrees, InSymbol, Untouched, Entered, Left, LastSold, Current
<1>6. QED BY <1>2, <1>3, <1>4, <1>5

LEMMA LoopInvStep == LoopInv /\ [Next]_vars => LoopInv'
<1>. SUFFICES ASSUME LoopInv, [Next]_vars PROVE LoopInv'
  OBVIOUS
<1>1. LoopTypeOK'
  BY LoopStepType DEF LoopInv
<1>2. Follows' /\ EmptyAgrees'
  <2>1. CASE UNCHANGED vars
    BY <2>1, OtherStepFollows DEF vars, loopVars
  <2>2. CASE TakeSnapshot
    BY <2>2, TakeSnapshotFollows
  <2>3. CASE ReadPortfolio
    BY <2>3, ReadPortfolioFollows
  <2>4. CASE PlaceOrder
    BY <2>4, PlaceOrderFollows
  <2>5. CASE NoOrder \/ SaveOrder \/ Announce
    BY <2>5, OtherStepFollows DEF NoOrder, SaveOrder, Announce
  <2>6. CASE SetActive
    BY <2>6, OtherStepFollows DEF SetActive
  <2>7. CASE Refresh \/ FetchFeeds \/ PriceFails \/ StoreFails \/ DecideRaises
    <3>1. pc' \notin InSymbol
      BY <2>7 DEF Refresh, FetchFeeds, PriceFails, StoreFails, DecideRaises,
                  FinishSymbol, InSymbol
    <3>2. UNCHANGED <<engineVars, orders>>
      BY <2>7 DEF Refresh, FetchFeeds, PriceFails, StoreFails, DecideRaises
    <3>3. QED BY <3>1, <3>2, OtherStepFollows
  <2>8. CASE SaveFails \/ AnnounceFails \/ BroadcastTick \/ Wake \/ Start \/ Cancel
    <3>1. pc' \notin InSymbol
      BY <2>8 DEF SaveFails, AnnounceFails, BroadcastTick, Wake, Start, Cancel,
                  FinishSymbol, InSymbol
    <3>2. UNCHANGED <<engineVars, orders>>
      BY <2>8 DEF SaveFails, AnnounceFails, BroadcastTick, Wake, Start, Cancel
    <3>3. QED BY <3>1, <3>2, OtherStepFollows
  <2>9. QED BY <2>1, <2>2, <2>3, <2>4, <2>5, <2>6, <2>7, <2>8 DEF Next, LoopStep
<1>3. QED BY <1>1, <1>2 DEF LoopInv

LEMMA LoopInvHolds == Spec => []LoopInv
<1>1. Init => LoopInv
  BY InitLoopType DEF Init, LoopInv, Follows, EmptyAgrees, InSymbol
<1>2. QED BY <1>1, LoopInvStep, PTL DEF Spec

-----------------------------------------------------------------------------
(***************************************************************************)
(* What the account can do under the loop.                                 *)
(***************************************************************************)

\* A request for the portfolio, with some prices.
Marks == \E S \in SUBSET Symbols : \E known \in [S -> Prices] : GetPortfolioState(known)

\* Every step of the loop places an order, or marks the positions, or leaves
\* the account alone.
LEMMA AccountSteps ==
  ASSUME LoopInv, [Next]_vars
  PROVE  \/ UNCHANGED orders /\ (Marks \/ UNCHANGED engineVars)
         \/ /\ pc = "decide" /\ PlaceOrder
            /\ \E signal \in ApprovedSignals : PlacesFor(signal)
<1>1. CASE PlaceOrder
  BY <1>1, PlaceOrderActs DEF LoopInv
<1>2. CASE TakeSnapshot
  <2>1. PICK s \in todo, p \in Prices :
          GetPortfolioState(LastCloses([buffers EXCEPT ![s] = p]))
    BY <1>2 DEF TakeSnapshot
  <2>2. /\ [buffers EXCEPT ![s] = p] \in [symbols -> Prices \cup {Empty}]
        /\ symbols \in SUBSET Symbols
    BY <2>1 DEF LoopInv, LoopTypeOK
  <2>3. \E S \in SUBSET Symbols : LastCloses([buffers EXCEPT ![s] = p]) \in [S -> Prices]
    BY <2>2, ClosesKnown
  <2>4. Marks
    BY <2>1, <2>3 DEF Marks
  <2>5. QED BY <1>2, <2>4 DEF TakeSnapshot
<1>3. CASE ReadPortfolio
  <2>1. \E S \in SUBSET Symbols : LastCloses(buffers) \in [S -> Prices]
    BY ClosesKnown DEF LoopInv, LoopTypeOK
  <2>2. Marks
    BY <1>3, <2>1 DEF Marks, ReadPortfolio
  <2>3. QED BY <1>3, <2>2 DEF ReadPortfolio, loopVars
<1>4. CASE UNCHANGED <<engineVars, orders>>
  BY <1>4
<1>5. CASE UNCHANGED vars
  BY <1>4, <1>5 DEF vars, loopVars
<1>6. CASE Refresh \/ FetchFeeds \/ PriceFails \/ StoreFails \/ DecideRaises \/ NoOrder \/ SaveOrder
  BY <1>4, <1>6 DEF Refresh, FetchFeeds, PriceFails, StoreFails, DecideRaises, NoOrder, SaveOrder
<1>7. CASE SaveFails \/ Announce \/ AnnounceFails \/ BroadcastTick \/ Wake
  BY <1>4, <1>7 DEF SaveFails, Announce, AnnounceFails, BroadcastTick, Wake
<1>8. CASE Start \/ Cancel \/ SetActive
  BY <1>4, <1>8 DEF Start, Cancel, SetActive
<1>9. QED BY <1>1, <1>2, <1>3, <1>5, <1>6, <1>7, <1>8 DEF Next, LoopStep

\* Every step of the loop fills an order it places or leaves the books alone.
LEMMA BookSteps ==
  ASSUME LoopInv, [Next]_vars
  PROVE  \/ UNCHANGED orders /\ BooksNothing
         \/ pc = "decide" /\ \E signal \in ApprovedSignals : PlacesFor(signal)
<1>1. Marks => BooksNothing
  BY MarkBooks DEF Marks, LoopInv, LoopTypeOK
<1>2. UNCHANGED engineVars => BooksNothing
  BY DEF engineVars, BooksNothing
<1>3. QED BY <1>1, <1>2, AccountSteps

\* Three ways an order placed by the loop can end.
LEMMA PlacedEnds ==
  ASSUME LoopInv, pc = "decide", NEW signal \in ApprovedSignals, PlacesFor(signal)
  PROVE  /\ Placed(signal) \in Order /\ Placed(signal).symbol = tick.symbol
         /\ tick.price \in Prices
         /\ \/ FillBuy(Placed(signal), tick.price)
            \/ FillSell(Placed(signal), tick.price)
            \/ DontFill(Placed(signal), tick.price)
BY PlacedOrder DEF LoopInv, PlacesFor, Placed, ExecuteOrder

\* The commission on a sale is no more than the sale, when all of it is sold.
LEMMA FeeWithinSale ==
  ASSUME NEW size \in Nat, NEW price \in Nat
  PROVE  Commission("SELL", size, price) <= TradeValue("SELL", size, price)
<1>1. \A x \in Nat, a \in Nat, b \in Nat : a <= b => x * a <= x * b
  OBVIOUS
<1>2. FillPrice("SELL", price) * size \in Nat
  BY FillPriceNat, ProductNat
<1>3. QED BY <1>1, <1>2, LoopAssumption, EngineAssumption DEF Commission, TradeValue

LEMMA CashStep ==
  ASSUME LoopInv, CashNeverNegative, [Next]_vars
  PROVE  CashNeverNegative'
<1>1. CASE UNCHANGED cash
  BY <1>1 DEF CashNeverNegative
<1>2. ASSUME pc = "decide", NEW signal \in ApprovedSignals, PlacesFor(signal)
      PROVE  CashNeverNegative'
  <2>. DEFINE order == Placed(signal)
              price == tick.price
  <2>1. order \in Order /\ price \in Prices
    BY <1>2, PlacedEnds
  <2>2. order.size \in Nat /\ price \in Nat /\ cash \in Int
    BY <2>1, OrderFacts DEF LoopInv, LoopTypeOK, EngineTypeOK
  <2>3. CASE FillBuy(order, price)
    <3>1. cash' = cash - BuyCost(order, price) /\ cash >= BuyCost(order, price)
      BY <2>3 DEF FillBuy, Outcome, CanFill
    <3>2. BuyCost(order, price) \in Nat
      BY <2>2, ValueNat DEF BuyCost
    <3>3. QED BY <2>2, <3>1, <3>2 DEF CashNeverNegative
  <2>4. CASE FillSell(order, price)
    <3>1. CloseSize(order) = order.size
      BY <1>2, <2>4, SaleWhole
    <3>2. cash' = cash + TradeValue("SELL", order.size, price)
                       - Commission("SELL", order.size, price)
      BY <2>4, <3>1 DEF FillSell
    <3>3. /\ TradeValue("SELL", order.size, price) \in Nat
          /\ Commission("SELL", order.size, price) \in Nat
          /\ Commission("SELL", order.size, price) <= TradeValue("SELL", order.size, price)
      BY <2>2, ValueNat, FeeWithinSale
    <3>4. QED BY <2>2, <3>2, <3>3 DEF CashNeverNegative
  <2>5. CASE DontFill(order, price)
    BY <1>1, <2>5 DEF DontFill, engineVars
  <2>6. QED BY <1>2, <2>3, <2>4, <2>5, PlacedEnds
<1>3. QED BY <1>1, <1>2, BookSteps DEF BooksNothing

\* The loop never overdraws the account.
THEOREM CashNeverNegativeCorrect == Spec => []CashNeverNegative
<1>1. Init => CashNeverNegative
  BY EngineAssumption DEF Init, EngineInit, CashNeverNegative
<1>2. LoopInv /\ CashNeverNegative /\ [Next]_vars => CashNeverNegative'
  BY CashStep
<1>3. QED BY <1>1, <1>2, LoopInvHolds, PTL DEF Spec

\* Money is conserved under the loop as it is under any caller.
THEOREM LoopConserves == Spec => []Conservation
<1>1. Init => Conservation
  BY InitConserves DEF Init
<1>2. LoopInv /\ LoopInv' /\ Conservation /\ [Next]_vars => Conservation'
  <2>. SUFFICES ASSUME LoopInv, LoopInv', Conservation, [Next]_vars PROVE Conservation'
    OBVIOUS
  <2>0. EngineTypeOK /\ EngineTypeOK'
    BY DEF LoopInv, LoopTypeOK
  <2>1. CASE BooksNothing
    BY <2>0, <2>1, NothingConserves
  <2>2. ASSUME pc = "decide", NEW signal \in ApprovedSignals, PlacesFor(signal)
        PROVE  Conservation'
    <3>1. Placed(signal) \in Order /\ tick.price \in Prices /\ Placed(signal).symbol \in Symbols
      BY <2>2, PlacedEnds DEF Order
    <3>2. CASE FillBuy(Placed(signal), tick.price)
      BY <2>0, <3>1, <3>2, BuyBooks, FillConserves
    <3>3. CASE FillSell(Placed(signal), tick.price)
      BY <2>0, <3>1, <3>3, SellBooks, FillConserves
    <3>4. CASE DontFill(Placed(signal), tick.price)
      BY <2>1, <3>4 DEF DontFill, engineVars, BooksNothing
    <3>5. QED BY <2>2, <3>2, <3>3, <3>4, PlacedEnds
  <2>3. QED BY <2>1, <2>2, BookSteps
<1>3. QED BY <1>1, <1>2, LoopInvHolds, PTL DEF Spec

-----------------------------------------------------------------------------
(***************************************************************************)
(* What a step of the loop may do.                                         *)
(***************************************************************************)

\* The fill that an order leaves behind.
LEMMA FillOf ==
  ASSUME EngineTypeOK, NEW order, NEW price, Record(order, price)
  PROVE  /\ HasNewFill /\ NewFill.symbol = order.symbol
         /\ NewFill.side = order.side /\ NewFill.size = order.size
<1>. DEFINE fill == [symbol |-> order.symbol, side |-> order.side, size |-> order.size,
                     paid |-> FillPrice(order.side, price),
                     commission |-> Commission(order.side, order.size, price)]
<1>1. filled' = Append(filled, fill)
  BY DEF Record
<1>2. /\ fill.symbol = order.symbol /\ fill.side = order.side /\ fill.size = order.size
  OBVIOUS
<1>. HIDE DEF fill
<1>3. Len(filled') = Len(filled) + 1 /\ filled'[Len(filled) + 1] = fill /\ Len(filled) \in Nat
  BY <1>1 DEF EngineTypeOK
<1>4. QED BY <1>2, <1>3 DEF HasNewFill, NewFill

\* A step with a new fill is the execution of an order that is filled.
LEMMA NewFillStep ==
  ASSUME LoopInv, [Next]_vars, HasNewFill
  PROVE  /\ pc = "decide" /\ tick.symbol \in Symbols
         /\ \E signal \in ApprovedSignals :
              /\ Placed(signal).symbol = tick.symbol
              /\ NewFill.symbol = tick.symbol
              /\ NewFill.size = Placed(signal).size
              /\ \/ FillBuy(Placed(signal), tick.price) /\ NewFill.side = "BUY"
                 \/ FillSell(Placed(signal), tick.price) /\ NewFill.side = "SELL"
<1>1. EngineTypeOK /\ Len(filled) \in Nat
  BY DEF LoopInv, LoopTypeOK, EngineTypeOK
<1>2. filled' # filled
  BY <1>1 DEF HasNewFill
<1>3. PICK signal \in ApprovedSignals : pc = "decide" /\ PlacesFor(signal)
  BY <1>2, BookSteps DEF BooksNothing
<1>4. /\ Placed(signal) \in Order /\ Placed(signal).symbol = tick.symbol
      /\ \/ FillBuy(Placed(signal), tick.price)
         \/ FillSell(Placed(signal), tick.price)
         \/ DontFill(Placed(signal), tick.price)
  BY <1>3, PlacedEnds
<1>5. tick.symbol \in Symbols
  BY <1>4 DEF Order
<1>6. ~DontFill(Placed(signal), tick.price)
  BY <1>2 DEF DontFill, engineVars
<1>7. ASSUME FillBuy(Placed(signal), tick.price)
      PROVE  /\ NewFill.symbol = tick.symbol /\ NewFill.size = Placed(signal).size
             /\ NewFill.side = "BUY"
  <2>1. Record(Placed(signal), tick.price) /\ Placed(signal).side = "BUY"
    BY <1>7 DEF FillBuy
  <2>2. QED BY <1>1, <1>4, <2>1, FillOf
<1>8. ASSUME FillSell(Placed(signal), tick.price)
      PROVE  /\ NewFill.symbol = tick.symbol /\ NewFill.size = Placed(signal).size
             /\ NewFill.side = "SELL"
  <2>1. Record(Placed(signal), tick.price) /\ Placed(signal).side = "SELL"
    BY <1>8 DEF FillSell
  <2>2. QED BY <1>1, <1>4, <2>1, FillOf
<1>9. QED BY <1>3, <1>4, <1>5, <1>6, <1>7, <1>8

\* Every filled exit sells the whole position and drops nothing.
THEOREM SalesCloseWholeCorrect == Spec => SalesCloseWhole
<1>1. ASSUME LoopInv, [Next]_vars, HasNewFill, NewFill.side = "SELL"
      PROVE  /\ positions[NewFill.symbol].size = NewFill.size
             /\ DOMAIN positions' = DOMAIN positions \ {NewFill.symbol}
             /\ dropped' = dropped
  <2>1. PICK signal \in ApprovedSignals :
          /\ pc = "decide" /\ NewFill.symbol = tick.symbol /\ NewFill.size = Placed(signal).size
          /\ FillSell(Placed(signal), tick.price)
    BY <1>1, NewFillStep
  <2>2. QED BY <1>1, <2>1, SaleWhole
<1>2. LoopInv /\ [Next]_vars =>
        [ HasNewFill /\ NewFill.side = "SELL" =>
            /\ positions[NewFill.symbol].size = NewFill.size
            /\ DOMAIN positions' = DOMAIN positions \ {NewFill.symbol}
            /\ dropped' = dropped ]_vars
  BY <1>1
<1>3. QED BY <1>2, LoopInvHolds, PTL DEF Spec, SalesCloseWhole

\* A rejected exit is the second order of a tick whose first one sold.
THEOREM RejectedExitIsSecondCorrect == Spec => RejectedExitIsSecond
<1>1. ASSUME LoopInv, [Next]_vars, NEW i \in DOMAIN orders' \ DOMAIN orders,
             orders'[i].side = "SELL", orders'[i].status = "REJECTED"
      PROVE  /\ turn = 2 /\ i > 1
             /\ orders[i - 1].side = "SELL" /\ orders[i - 1].status = "FILLED"
             /\ tick.symbol \in DOMAIN tick.snap.positions \ DOMAIN positions
  <2>1. PICK signal \in ApprovedSignals : pc = "decide" /\ PlacesFor(signal)
    BY <1>1, BookSteps
  <2>2. Current \in Nat /\ DOMAIN orders = 1 .. Current /\ turn \in 1 .. 2
    BY <1>1 DEF LoopInv, LoopTypeOK, Current, NumStrategies
  <2>3. i = Current + 1
    BY <2>1, <2>2 DEF PlacesFor
  <2>4. Placed(signal).side = "SELL" /\ Outcome(Placed(signal), tick.price) = "REJECTED"
    BY <1>1, <2>1, <2>3 DEF PlacesFor
  <2>5. Placed(signal).symbol = tick.symbol
    BY <1>1, <2>1, PlacedEnds
  <2>6. tick.symbol \notin DOMAIN positions
    BY <2>4, <2>5 DEF Outcome, CanFill, Holds
  <2>7. tick.symbol \in DOMAIN tick.snap.positions
    BY <1>1, <2>1, <2>4, PlacedSale DEF LoopInv
  <2>8. Left /\ ~Untouched
    BY <2>6, <2>7 DEF Left, Untouched
  <2>9. turn # 1 /\ LastSold
    BY <1>1, <2>1, <2>8 DEF LoopInv, Follows, InSymbol
  <2>10. QED BY <2>2, <2>3, <2>6, <2>7, <2>9 DEF LastSold
<1>2. LoopInv /\ [Next]_vars =>
        [ \A i \in DOMAIN orders' \ DOMAIN orders :
            orders'[i].side = "SELL" /\ orders'[i].status = "REJECTED" =>
              /\ turn = 2 /\ i > 1
              /\ orders[i - 1].side = "SELL" /\ orders[i - 1].status = "FILLED"
              /\ tick.symbol \in DOMAIN tick.snap.positions \ DOMAIN positions ]_vars
  BY <1>1
<1>3. QED BY <1>2, LoopInvHolds, PTL DEF Spec, RejectedExitIsSecond

-----------------------------------------------------------------------------
(***************************************************************************)
(* The circuit breaker.                                                    *)
(***************************************************************************)

\* A drawdown that trips the breaker is one below the peak.
LEMMA DrawdownBelowPeak ==
  ASSUME NEW top \in Int, NEW equity \in Int, DrawdownOf(top, equity) >= MaxDrawdown
  PROVE  top > equity
<1>1. MaxDrawdown \in Nat /\ MaxDrawdown >= 1 /\ DrawdownDen \in Nat \ {0}
  BY GateAssumption
<1>2. top > 0 /\ DrawdownOf(top, equity) = RoundDiv((top - equity) * DrawdownDen, top)
  BY <1>1 DEF DrawdownOf
<1>3. \A a \in Int, b \in Nat \ {0} : a <= 0 => RoundDiv(a, b) < 1
  <2>1. SUFFICES ASSUME NEW a \in Int, NEW b \in Nat \ {0}, a <= 0 PROVE RoundDiv(a, b) < 1
    OBVIOUS
  <2>2. 2 * a + b \in Int /\ 2 * b \in Nat \ {0} /\ 2 * a + b < 2 * b
    BY <2>1
  <2>3. \A n \in Int, d \in Nat \ {0} : n < d => n \div d < 1
    OBVIOUS
  <2>4. QED BY <2>2, <2>3 DEF RoundDiv
<1>4. (top - equity) * DrawdownDen \in Int /\ top \in Nat \ {0}
  BY <1>1, <1>2
<1>5. ~((top - equity) * DrawdownDen <= 0)
  <2>. DEFINE q == RoundDiv((top - equity) * DrawdownDen, top)
  <2>1. q \in Int /\ q >= MaxDrawdown
    BY <1>2, <1>4, RoundDivType
  <2>2. ~(q < 1)
    <3>. HIDE DEF q
    <3>. QED BY <1>1, <2>1
  <2>3. QED BY <1>3, <1>4, <2>2
<1>6. top <= equity => (top - equity) * DrawdownDen <= 0
  <2>1. \A x \in Int, d \in Nat : x <= 0 => x * d <= 0
    OBVIOUS
  <2>2. QED BY <2>1, <1>1
<1>7. QED BY <1>5, <1>6

\* Marking an account without positions leaves it as it is.
LEMMA TrippedMark ==
  ASSUME LoopInv, Tripped, Marks
  PROVE  Tripped' /\ UNCHANGED <<cash, filled>>
<1>1. PICK known : GetPortfolioState(known)
  BY DEF Marks
<1>2. cash \in Int /\ peak \in Int
  BY DEF LoopInv, LoopTypeOK, EngineTypeOK
<1>3. peak > cash
  BY <1>2, DrawdownBelowPeak DEF Tripped
<1>. DEFINE book == MarkedWith(positions, known)
<1>4. book = << >> /\ DOMAIN book = {}
  BY DEF Tripped, MarkedWith
<1>5. positions' = book /\ peak' = Ratcheted(peak, cash + MarketValue(book))
      /\ UNCHANGED <<cash, filled>>
  BY <1>1 DEF GetPortfolioState
<1>. HIDE DEF book
<1>6. cash + MarketValue(book) = cash
  BY <1>2, <1>4, EmptyWorthless
<1>7. peak' = peak
  BY <1>2, <1>3, <1>5, <1>6 DEF Ratcheted
<1>8. QED BY <1>4, <1>5, <1>7 DEF Tripped

\* No order that is placed then is filled: an exit has nothing to sell, and the
\* snapshot an entry is checked against has the drawdown.
LEMMA TrippedPlace ==
  ASSUME LoopInv, Tripped, pc = "decide", NEW signal \in ApprovedSignals, PlacesFor(signal)
  PROVE  Tripped' /\ UNCHANGED <<cash, filled>>
<1>1. DOMAIN positions = {}
  BY DEF Tripped
<1>2. Placed(signal).symbol = tick.symbol
  BY PlacedEnds
<1>3. CASE FillSell(Placed(signal), tick.price)
  BY <1>1, <1>3, SaleWhole
<1>4. CASE FillBuy(Placed(signal), tick.price)
  <2>1. tick.symbol \notin DOMAIN tick.snap.positions
    BY <1>4, PurchaseOpens
  <2>2. DOMAIN tick.snap.positions = {}
    BY <1>1, <2>1 DEF LoopInv, Follows, InSymbol
  <2>3. tick.snap.drawdown = DrawdownOf(peak, cash)
    BY <1>1, <2>2 DEF LoopInv, EmptyAgrees, InSymbol
  <2>4. ~Healthy(tick.snap)
    <3>1. tick.snap.drawdown \in Int /\ MaxDrawdown \in Int
      BY GateAssumption DEF LoopInv, LoopTypeOK, TickTypeOK, InSymbol
    <3>2. QED BY <2>3, <3>1 DEF Tripped, Healthy
  <2>5. Healthy(tick.snap)
    BY DEF ApprovedSignals, Approved
  <2>6. QED BY <2>4, <2>5
<1>5. CASE DontFill(Placed(signal), tick.price)
  BY <1>5 DEF DontFill, engineVars, Tripped
<1>6. QED BY <1>3, <1>4, <1>5, PlacedEnds

\* A breaker that is tripped when the last position is closed stays tripped,
\* and the account never trades again.
THEOREM BreakerLatchesCorrect == Spec => BreakerLatches
<1>1. ASSUME LoopInv, Tripped, [Next]_vars
      PROVE  Tripped' /\ UNCHANGED <<cash, filled>>
  <2>1. CASE UNCHANGED engineVars
    BY <1>1, <2>1 DEF engineVars, Tripped
  <2>2. QED BY <1>1, <2>1, AccountSteps, TrippedMark, TrippedPlace
<1>2. LoopInv /\ [Next]_vars => [Tripped => Tripped' /\ UNCHANGED <<cash, filled>>]_vars
  BY <1>1
<1>3. QED BY <1>2, LoopInvHolds, PTL DEF Spec, BreakerLatches

-----------------------------------------------------------------------------
(***************************************************************************)
(* The exposure limit.                                                     *)
(***************************************************************************)

\* The first purchase of a tick keeps the limit on the exposure.
THEOREM FirstPurchaseFitsExposureCorrect == Spec => FirstPurchaseFitsExposure
<1>1. ASSUME LoopInv, [Next]_vars, NewPurchase, positions = tick.snap.positions
      PROVE  FitsExposure
  <2>1. PICK signal \in ApprovedSignals :
          /\ pc = "decide" /\ NewFill.size = Placed(signal).size
          /\ FillBuy(Placed(signal), tick.price)
    BY <1>1, NewFillStep DEF NewPurchase
  <2>2. /\ signal \in Signal /\ Approved(signal, tick.snap, tick.price)
        /\ signal.kind = "LONG" /\ tick.price \in Prices
    <3>1. Placed(signal).side = "BUY"
      BY <2>1 DEF FillBuy
    <3>2. QED BY <1>1, <2>1, <3>1, PlacedOrder, PlacedPurchase DEF LoopInv
  <2>3. tick.price \in Nat \ {0}
    BY <2>2, EngineAssumption DEF Approved
  <2>4. tick.snap.equity \in Int /\ Book(tick.snap.positions)
    BY <1>1, <2>1 DEF LoopInv, LoopTypeOK, InSymbol, TickTypeOK
  <2>5. Placed(signal).size = AdjustedSize(signal, tick.snap, tick.price)
    BY DEF Placed, OrderOf
  <2>6. Allocated(tick.snap) = MarketValue(positions)
    BY <1>1 DEF Allocated
  <2>7. QED BY <2>1, <2>2, <2>3, <2>4, <2>5, <2>6, SizeFits DEF FitsExposure
<1>2. LoopInv /\ [Next]_vars =>
        [NewPurchase /\ positions = tick.snap.positions => FitsExposure]_vars
  BY <1>1
<1>3. QED BY <1>2, LoopInvHolds, PTL DEF Spec, FirstPurchaseFitsExposure

-----------------------------------------------------------------------------
(***************************************************************************)
(* The refinement of the order journal.                                    *)
(***************************************************************************)

\* The order in flight is the last one, and it has not reached its next stage.
OneInFlight ==
  /\ announced \subseteq saved
  /\ pc = "save" => Current \notin saved /\ orders[Current].status # "PENDING"
  /\ pc = "announce" =>
       /\ Current \in saved /\ Current \notin announced
       /\ orders[Current].status # "PENDING"

\* The log of TradeJournal, before a step and after it.
Log == [i \in DOMAIN orders |-> StageOf(i)]

Stages == {"failed", "executed", "written", "broadcast", "silent", "lost"}

InTransit == pc \in {"save", "announce"}

\* Without an order in flight a stage depends on the sets only.
LEMMA SettledStage ==
  ASSUME NEW i, ~(InTransit /\ i = Current)
  PROVE  StageOf(i) = IF orders[i].status = "PENDING" THEN "failed"
                      ELSE IF i \in announced THEN "broadcast"
                      ELSE IF i \in saved THEN "silent" ELSE "lost"
BY DEF StageOf, InTransit

LEMMA StageInTransit ==
  ASSUME LoopTypeOK, OneInFlight
  PROVE  /\ pc = "save" => StageOf(Current) = "executed"
         /\ pc = "announce" => StageOf(Current) = "written"
BY DEF OneInFlight, StageOf

LEMMA FlightIsTransit ==
  ASSUME LoopTypeOK, OneInFlight
  PROVE  Journal!InFlight = IF InTransit THEN {Current} ELSE {}
<1>1. \A i \in DOMAIN orders : ~(InTransit /\ i = Current) => StageOf(i) \notin {"executed", "written"}
  BY SettledStage
<1>2. InTransit => Current \in DOMAIN orders /\ StageOf(Current) \in {"executed", "written"}
  BY StageInTransit DEF InTransit, LoopTypeOK
<1>3. Journal!InFlight = {i \in DOMAIN orders : StageOf(i) \in {"executed", "written"}}
  BY DEF Journal!InFlight
<1>4. QED BY <1>1, <1>2, <1>3

\* A step that settles the order in flight, or takes it one stage further.
LEMMA AdvanceRefines ==
  ASSUME LoopTypeOK, OneInFlight, InTransit, orders' = orders,
         NEW c, c = Current, NEW stage, StageOf(c)' = stage,
         \A i \in DOMAIN orders : i # c => StageOf(i)' = StageOf(i),
         stage \in Journal!After(StageOf(c))
  PROVE  Journal!JournalNext
<1>1. c \in Journal!InFlight /\ c \in DOMAIN orders
  BY FlightIsTransit DEF InTransit, LoopTypeOK
<1>2. Log' = [Log EXCEPT ![c] = stage]
  <2>1. \A i \in DOMAIN orders : StageOf(i)' = IF i = c THEN stage ELSE StageOf(i)
    OBVIOUS
  <2>2. Log' = [i \in DOMAIN orders |-> StageOf(i)']
    BY DEF Log
  <2>3. [Log EXCEPT ![c] = stage] =
          [i \in DOMAIN orders |-> IF i = c THEN stage ELSE StageOf(i)]
    BY <1>1 DEF Log
  <2>4. QED BY <2>1, <2>2, <2>3
<1>3. stage \in Journal!After(Log[c])
  BY <1>1 DEF Log
<1>4. \E i \in Journal!InFlight : \E x \in Journal!After(Log[i]) : Log' = [Log EXCEPT ![i] = x]
  BY <1>1, <1>2, <1>3
<1>5. Journal!Advance
  BY <1>4 DEF Journal!Advance, Log
<1>6. QED BY <1>5 DEF Journal!JournalNext

\* A step without an order in flight, before or after, leaves the log alone.
LEMMA QuietRefines ==
  ASSUME ~InTransit, ~InTransit', UNCHANGED <<orders, saved, announced>>
  PROVE  Log' = Log
<1>1. \A i : StageOf(i)' = StageOf(i)
  BY DEF StageOf, InTransit
<1>2. QED BY <1>1 DEF Log

LEMMA FunctionIsSequence ==
  ASSUME NEW S, NEW n \in Nat, NEW f \in [1 .. n -> S]
  PROVE  f \in Seq(S) /\ Len(f) = n
OBVIOUS

LEMMA AppendIsFunction ==
  ASSUME NEW S, NEW s \in Seq(S), NEW x \in S, NEW n, n = Len(s) + 1
  PROVE  Append(s, x) = [i \in 1 .. n |-> IF i = n THEN x ELSE s[i]]
<1>. DEFINE t == Append(s, x)
<1>1. t \in Seq(S) /\ Len(t) = n /\ n \in Nat
  OBVIOUS
<1>2. \A i \in 1 .. n : t[i] = IF i = n THEN x ELSE s[i]
  OBVIOUS
<1>. HIDE DEF t
<1>3. t = [i \in 1 .. n |-> t[i]]
  BY <1>1
<1>4. QED BY <1>2, <1>3 DEF t

\* A new order is in flight, or has failed.
LEMMA PlaceRefines ==
  ASSUME LoopTypeOK, OneInFlight, PlaceOrder
  PROVE  Journal!JournalNext /\ OneInFlight'
<1>1. PICK signal \in ApprovedSignals : PlacesFor(signal)
  BY PlaceOrderActs
<1>2. /\ Current \in Nat /\ DOMAIN orders = 1 .. Current /\ orders \in Seq(OrderRecord)
      /\ saved \subseteq DOMAIN orders /\ announced \subseteq DOMAIN orders
  BY DEF LoopTypeOK, Current
<1>3. pc = "decide" /\ ~InTransit /\ saved' = saved /\ announced' = announced
  BY PlaceOrderActs DEF PlaceOrder, InTransit
<1>4. /\ DOMAIN orders' = 1 .. Current + 1 /\ Current' = Current + 1
      /\ \A i \in DOMAIN orders : orders'[i] = orders[i]
  BY <1>1, <1>2 DEF PlacesFor, Current
<1>n. PICK n \in Nat : n = Current + 1
  BY <1>2
<1>. DEFINE raised == orders'[n].status = "PENDING"
            stage == IF raised THEN "failed" ELSE "executed"
<1>5. IF raised THEN pc' \notin InSymbol ELSE pc' = "save"
  BY <1>1, <1>n DEF PlacesFor, Outcome
<1>6. \A i \in DOMAIN orders : StageOf(i)' = StageOf(i)
  <2>1. SUFFICES ASSUME NEW i \in DOMAIN orders PROVE StageOf(i)' = StageOf(i)
    OBVIOUS
  <2>2. i # Current' /\ orders'[i] = orders[i]
    BY <1>2, <1>4
  <2>3. StageOf(i)' = IF orders[i].status = "PENDING" THEN "failed"
                      ELSE IF i \in announced THEN "broadcast"
                      ELSE IF i \in saved THEN "silent" ELSE "lost"
    BY <1>3, <2>2 DEF StageOf
  <2>4. QED BY <1>3, <2>3, SettledStage
<1>7. StageOf(n)' = stage
  <2>1. n \notin saved' /\ n \notin announced'
    BY <1>2, <1>3, <1>n
  <2>2. orders'[n].status = "PENDING" => StageOf(n)' = "failed"
    BY DEF StageOf
  <2>3. orders'[n].status # "PENDING" => StageOf(n)' = "executed"
    BY <1>4, <1>5, <1>n, <2>1 DEF StageOf
  <2>4. QED BY <2>2, <2>3
<1>. HIDE DEF raised, stage
<1>8. Log' = Append(Log, stage)
  <2>1. Log' = [i \in 1 .. n |-> StageOf(i)']
    BY <1>4, <1>n DEF Log
  <2>2. Log = [i \in 1 .. Current |-> StageOf(i)]
    BY <1>2 DEF Log
  <2>3. \A i \in 1 .. n : StageOf(i)' = IF i = n THEN stage ELSE Log[i]
    <3>1. \A i \in 1 .. n : i = n \/ i \in 1 .. Current
      BY <1>2, <1>n
    <3>2. \A i \in 1 .. Current : i # n /\ StageOf(i)' = Log[i]
      BY <1>2, <1>6, <1>n, <2>2
    <3>3. QED BY <1>7, <3>1, <3>2
  <2>4. Log \in Seq(Stages) /\ Len(Log) = Current
    <3>1. \A i \in 1 .. Current : StageOf(i) \in Stages
      BY DEF StageOf, Stages
    <3>. HIDE DEF Log
    <3>2. Log \in [1 .. Current -> Stages]
      BY <2>2, <3>1
    <3>3. QED BY <1>2, <3>2, FunctionIsSequence
  <2>5. Append(Log, stage) = [i \in 1 .. n |-> IF i = n THEN stage ELSE Log[i]]
    <3>1. stage \in Stages
      BY DEF stage, Stages
    <3>. HIDE DEF Log
    <3>2. QED BY <1>n, <2>4, <3>1, AppendIsFunction
  <2>6. QED BY <2>1, <2>3, <2>5
<1>9. Journal!InFlight = {}
  BY <1>3, FlightIsTransit
<1>10. Journal!Fail \/ Journal!Execute
  BY <1>8, <1>9 DEF Journal!Fail, Journal!Execute, stage, Log
<1>11. OneInFlight'
  <2>1. announced' \subseteq saved'
    BY <1>3 DEF OneInFlight
  <2>2. Current' \notin saved' /\ Current' = n
    BY <1>2, <1>3, <1>4, <1>n
  <2>3. pc' = "save" => ~raised
    BY <1>5 DEF InSymbol
  <2>4. pc' # "announce"
    BY <1>5 DEF InSymbol
  <2>5. QED BY <2>1, <2>2, <2>3, <2>4 DEF OneInFlight, raised
<1>12. QED BY <1>10, <1>11 DEF Journal!JournalNext

\* The step that saves or announces, or fails to.
LEMMA TransitRefines ==
  ASSUME LoopTypeOK, OneInFlight, InTransit, orders' = orders,
         \/ SaveOrder \/ SaveFails \/ Announce \/ AnnounceFails \/ Cancel
  PROVE  Journal!JournalNext /\ OneInFlight'
<1>1. Current' = Current
  BY DEF Current
<1>2. /\ pc = "save" =>
           /\ saved' \in {saved, saved \cup {Current}} /\ announced' = announced
           /\ pc' = "announce" => saved' = saved \cup {Current}
           /\ pc' # "save"
      /\ pc = "announce" =>
           /\ announced' \in {announced, announced \cup {Current}} /\ saved' = saved
           /\ ~InTransit'
      /\ pc' = "announce" => pc = "save"
  BY DEF SaveOrder, SaveFails, Announce, AnnounceFails, Cancel, InTransit, FinishSymbol, NextTurn
<1>3. PICK c : c = Current
  OBVIOUS
<1>4. \A i \in DOMAIN orders : i # c => StageOf(i)' = StageOf(i)
  BY <1>1, <1>2, <1>3 DEF StageOf, InTransit
<1>5. StageOf(c)' \in Journal!After(StageOf(c))
  <2>1. CASE pc = "save"
    <3>1. StageOf(c) = "executed" /\ orders[c].status # "PENDING" /\ c \notin announced
      BY <1>3, <2>1, StageInTransit DEF OneInFlight
    <3>2. StageOf(c)' \in {"written", "lost", "silent"}
      BY <1>1, <1>2, <1>3, <2>1, <3>1 DEF StageOf
    <3>3. QED BY <3>1, <3>2 DEF Journal!After
  <2>2. CASE pc = "announce"
    <3>1. StageOf(c) = "written" /\ orders[c].status # "PENDING" /\ c \in saved
      BY <1>3, <2>2, StageInTransit DEF OneInFlight
    <3>2. StageOf(c)' \in {"broadcast", "silent"}
      BY <1>1, <1>2, <1>3, <2>2, <3>1 DEF StageOf, InTransit
    <3>3. QED BY <3>1, <3>2 DEF Journal!After
  <2>3. QED BY <2>1, <2>2 DEF InTransit
<1>6. OneInFlight'
  BY <1>1, <1>2 DEF OneInFlight, InTransit
<1>7. PICK stage : StageOf(c)' = stage
  OBVIOUS
<1>8. QED BY <1>3, <1>4, <1>5, <1>6, <1>7, AdvanceRefines

LEMMA JournalStep ==
  ASSUME LoopTypeOK, OneInFlight, [Next]_vars
  PROVE  OneInFlight' /\ (Journal!JournalNext \/ Log' = Log)
<1>1. ASSUME UNCHANGED <<pc, orders, saved, announced>>
      PROVE  OneInFlight' /\ Log' = Log
  BY <1>1 DEF OneInFlight, Log, StageOf, Current
<1>2. ASSUME ~InTransit, ~InTransit', UNCHANGED <<orders, saved, announced>>
      PROVE  OneInFlight' /\ Log' = Log
  BY <1>2, QuietRefines DEF OneInFlight, InTransit, Current
<1>3. CASE UNCHANGED vars \/ ReadPortfolio \/ SetActive
  BY <1>1, <1>3 DEF vars, loopVars, ReadPortfolio, SetActive
<1>4. CASE PlaceOrder
  BY <1>4, PlaceRefines
<1>5. CASE SaveOrder \/ SaveFails \/ Announce \/ AnnounceFails
  <2>1. InTransit /\ orders' = orders
    BY <1>5 DEF SaveOrder, SaveFails, Announce, AnnounceFails, InTransit
  <2>2. QED BY <1>5, <2>1, TransitRefines
<1>6. CASE Cancel
  <2>1. CASE InTransit
    BY <1>6, <2>1, TransitRefines DEF Cancel
  <2>2. CASE ~InTransit
    BY <1>2, <1>6, <2>2 DEF Cancel, InTransit
  <2>3. QED BY <2>1, <2>2
<1>7. CASE Refresh \/ FetchFeeds \/ PriceFails \/ StoreFails \/ TakeSnapshot \/ DecideRaises
  BY <1>2, <1>7 DEF Refresh, FetchFeeds, PriceFails, StoreFails, TakeSnapshot, DecideRaises,
                    FinishSymbol, InTransit
<1>8. CASE NoOrder \/ BroadcastTick \/ Wake \/ Start
  BY <1>2, <1>8 DEF NoOrder, BroadcastTick, Wake, Start, NextTurn, FinishSymbol, InTransit
<1>9. QED BY <1>3, <1>4, <1>5, <1>6, <1>7, <1>8 DEF Next, LoopStep

\* The loop implements the order journal.
THEOREM KeepsJournalCorrect == Spec => KeepsJournal
<1>1. Init => OneInFlight /\ Journal!JournalInit
  BY DEF Init, OneInFlight, Journal!JournalInit
<1>2. LoopTypeOK /\ OneInFlight /\ [Next]_vars =>
        OneInFlight' /\ [Journal!JournalNext]_Log
  BY JournalStep
<1>3. QED
  BY <1>1, <1>2, LoopTypeCorrect, PTL DEF Spec, KeepsJournal, Journal!JournalSpec, Log

-----------------------------------------------------------------------------
(***************************************************************************)
(* The position cap.  Within a tick the purchases of its symbol are as     *)
(* many as the strategies that have decided; before and after it they are  *)
(* at most one for each strategy.                                          *)
(***************************************************************************)

\* The purchases that the position of s may stand for.
Allowance(s) ==
  IF pc \in InSymbol /\ s = tick.symbol /\ Entered
  THEN IF pc = "decide" THEN turn - 1 ELSE turn
  ELSE NumStrategies

TopPrice(h) == \A p \in Prices : p <= h

Weighted(cost) == 2 * cost * SlipDen * PctDen

CapInv ==
  /\ peak >= 0
  /\ pc \in InSymbol => 2 * tick.snap.equity <= 2 * peak + Cent
  /\ \A h \in Prices : TopPrice(h) =>
       \A s \in DOMAIN positions : Weighted(positions[s].cost) <= Allowance(s) * PurchaseCap(h)

LEMMA AllowanceRange ==
  ASSUME LoopInv, LoopInv', NEW s
  PROVE  Allowance(s) \in 0 .. NumStrategies /\ Allowance(s)' \in 0 .. NumStrategies
<1>1. turn \in 1 .. NumStrategies /\ turn' \in 1 .. NumStrategies
  BY DEF LoopInv, LoopTypeOK, NumStrategies
<1>2. QED BY <1>1 DEF Allowance, NumStrategies

LEMMA CapType ==
  ASSUME peak \in Nat, NEW h \in Prices
  PROVE  PurchaseCap(h) \in Nat
<1>1. /\ Scale \in Nat /\ MaxPosition \in Nat /\ Cent \in Nat /\ PctDen \in Nat
      /\ SlipDen + Slip \in Nat /\ h \in Nat
  BY EngineAssumption, GateAssumption, ProductNat DEF Scale
<1>2. PctDen * (Scale * h) \in Nat /\ MaxPosition * (2 * peak + Cent) \in Nat
  BY <1>1, ProductNat
<1>3. QED BY <1>1, <1>2, ProductNat DEF PurchaseCap

\* The peak never comes down, and with it the cap.
LEMMA PeakGrows ==
  ASSUME LoopInv, [Next]_vars
  PROVE  peak' >= peak
<1>1. peak \in Int /\ cash \in Int
  BY DEF LoopInv, LoopTypeOK, EngineTypeOK
<1>2. CASE Marks
  <2>1. PICK S \in SUBSET Symbols : \E known \in [S -> Prices] : GetPortfolioState(known)
    BY <1>2 DEF Marks
  <2>2. PICK known \in [S -> Prices] : GetPortfolioState(known)
    BY <2>1
  <2>. DEFINE equity == cash + MarketValue(MarkedWith(positions, known))
  <2>3. peak' = Ratcheted(peak, equity)
    BY <2>2 DEF GetPortfolioState
  <2>4. Book(positions)
    BY DEF LoopInv, LoopTypeOK, EngineTypeOK
  <2>5. MarketValue(MarkedWith(positions, known)) \in Int
    BY <2>2, <2>4, MarkedBook, MarketValueInt
  <2>6. equity \in Int
    BY <1>1, <2>5
  <2>. HIDE DEF equity
  <2>7. QED BY <1>1, <2>3, <2>6 DEF Ratcheted
<1>3. CASE peak' = peak
  BY <1>1, <1>3
<1>4. ASSUME pc = "decide", NEW signal \in ApprovedSignals, PlacesFor(signal) PROVE peak' = peak
  BY <1>4, PlacedEnds DEF FillBuy, FillSell, DontFill, engineVars
<1>5. QED BY <1>2, <1>3, <1>4, AccountSteps DEF engineVars

LEMMA CapGrows ==
  ASSUME peak \in Nat, peak' \in Nat, peak' >= peak, NEW h \in Prices
  PROVE  PurchaseCap(h)' >= PurchaseCap(h) /\ PurchaseCap(h)' \in Nat
<1>1. \A x \in Nat, a \in Nat, b \in Nat : a <= b => x * a <= x * b
  OBVIOUS
<1>2. /\ Scale \in Nat /\ MaxPosition \in Nat /\ Cent \in Nat /\ PctDen \in Nat
      /\ SlipDen + Slip \in Nat /\ h \in Nat
  BY EngineAssumption, GateAssumption, ProductNat DEF Scale
<1>. DEFINE k == PctDen * (Scale * h)
            a == MaxPosition * (2 * peak + Cent)
            b == MaxPosition * (2 * peak' + Cent)
<1>3. k \in Nat /\ a \in Nat /\ b \in Nat /\ a <= b
  <2>1. 2 * peak + Cent \in Nat /\ 2 * peak' + Cent \in Nat
        /\ 2 * peak + Cent <= 2 * peak' + Cent
    <3>1. \A x \in Nat, y \in Nat, c \in Nat :
            x <= y => 2 * x + c \in Nat /\ 2 * y + c \in Nat /\ 2 * x + c <= 2 * y + c
      OBVIOUS
    <3>2. peak <= peak' /\ peak \in Nat /\ peak' \in Nat
      OBVIOUS
    <3>3. QED BY <1>2, <3>1, <3>2
  <2>2. Scale * h \in Nat
    BY <1>2, ProductNat
  <2>3. k \in Nat
    BY <1>2, <2>2, ProductNat
  <2>4. a \in Nat /\ b \in Nat
    <3>1. \A x \in Nat, y \in Nat : x * y \in Nat
      BY ProductNat
    <3>2. QED BY <1>2, <2>1, <3>1
  <2>5. a <= b
    BY <1>1, <1>2, <2>1
  <2>6. QED BY <2>3, <2>4, <2>5
<1>4. PurchaseCap(h) = (SlipDen + Slip) * (a + k) /\ PurchaseCap(h)' = (SlipDen + Slip) * (b + k)
  BY DEF PurchaseCap
<1>. HIDE DEF k, a, b
<1>5. QED BY <1>1, <1>2, <1>3, <1>4, ProductNat

\* A step that adds nothing to a position keeps it within the cap.
LEMMA CapKept ==
  ASSUME LoopInv, LoopInv', CapInv, peak' >= peak,
         NEW h \in Prices, TopPrice(h), NEW s \in DOMAIN positions,
         positions'[s].cost = positions[s].cost, Allowance(s)' >= Allowance(s)
  PROVE  Weighted(positions'[s].cost) <= Allowance(s)' * PurchaseCap(h)'
<1>1. peak \in Nat /\ peak' \in Nat
  BY DEF LoopInv, LoopTypeOK, EngineTypeOK, CapInv
<1>2. /\ PurchaseCap(h) \in Nat /\ PurchaseCap(h)' \in Nat
      /\ PurchaseCap(h)' >= PurchaseCap(h)
  BY <1>1, CapType, CapGrows
<1>3. Allowance(s) \in Nat /\ Allowance(s)' \in Nat
  BY AllowanceRange DEF NumStrategies
<1>4. Weighted(positions[s].cost) <= Allowance(s) * PurchaseCap(h)
  BY DEF CapInv
<1>5. Weighted(positions[s].cost) \in Int
  <2>1. positions[s].cost \in Nat
    BY DEF LoopInv, LoopTypeOK, EngineTypeOK, Book, Position
  <2>2. QED BY <2>1, EngineAssumption, GateAssumption DEF Weighted
<1>6. \A a \in Nat, b \in Nat, x \in Nat, y \in Nat : a <= b /\ x <= y => a * x <= b * y
  <2>1. \A a \in Nat, b \in Nat, x \in Nat : a <= b => a * x <= b * x
    OBVIOUS
  <2>2. \A b \in Nat, x \in Nat, y \in Nat : x <= y => b * x <= b * y
    OBVIOUS
  <2>3. \A a \in Nat, b \in Nat, x \in Nat, y \in Nat :
          a * x \in Int /\ b * x \in Int /\ b * y \in Int
    OBVIOUS
  <2>4. QED BY <2>1, <2>2, <2>3
<1>7. Allowance(s) * PurchaseCap(h) <= Allowance(s)' * PurchaseCap(h)'
  BY <1>2, <1>3, <1>6
<1>8. Allowance(s) * PurchaseCap(h) \in Int /\ Allowance(s)' * PurchaseCap(h)' \in Int
  BY <1>2, <1>3
<1>9. QED BY <1>4, <1>5, <1>7, <1>8

\* One purchase costs at most the cap.
LEMMA PurchaseWithinCap ==
  ASSUME LoopInv, CapInv, pc = "decide", NEW signal \in ApprovedSignals,
         FillBuy(Placed(signal), tick.price), NEW h \in Prices, TopPrice(h)
  PROVE  Weighted(TradeValue("BUY", Placed(signal).size, tick.price)) <= PurchaseCap(h)
<1>. DEFINE price == tick.price
            snap == tick.snap
            worth == Scale * price
            size == Placed(signal).size
            limit == snap.equity * MaxPosition
            rate == SlipDen + Slip
<1>1. /\ signal \in Signal /\ Approved(signal, snap, price) /\ signal.kind = "LONG"
      /\ price \in Prices
  <2>1. Placed(signal).side = "BUY"
    BY DEF FillBuy
  <2>2. QED BY <2>1, PlacedOrder, PlacedPurchase DEF LoopInv
<1>2. price \in Nat \ {0} /\ snap.equity > 0
  <2>1. price > 0 /\ price \in Nat
    BY <1>1, EngineAssumption DEF Approved
  <2>2. snap.equity > 0
    BY <1>1 DEF Approved
  <2>3. QED BY <2>1, <2>2
<1>3. snap.equity \in Int /\ Book(snap.positions)
  BY DEF LoopInv, LoopTypeOK, InSymbol, TickTypeOK
<1>4. /\ MaxPosition \in Nat /\ MinStrength \in Nat /\ MinStrength <= StrengthDen
      /\ PctDen \in Nat /\ StrengthDen \in Nat /\ Cent \in Nat
      /\ SlipDen \in Nat /\ CommDen \in Nat /\ rate \in Nat
      /\ Scale = SlipDen * CommDen /\ Scale \in Nat /\ h \in Nat
  BY GateAssumption, EngineAssumption, ProductNat DEF Scale
<1>5. AllowedAllocation(signal, snap) <= limit * StrengthDen /\ limit \in Int
  <2>. DEFINE m == Min({signal.pct, MaxPosition})
              x == Max({MinStrength, signal.strength})
  <2>1. signal.pct \in Nat /\ signal.strength \in Nat /\ signal.strength <= StrengthDen
    BY <1>1, <1>4 DEF Signal
  <2>2. m \in Nat /\ m <= MaxPosition /\ x \in Nat /\ x <= StrengthDen
    <3>1. m \in Nat /\ x \in Nat
      BY <1>4, <2>1, PairNat
    <3>2. signal.pct \in Int /\ signal.strength \in Int /\ MaxPosition \in Int
          /\ MinStrength \in Int
      BY <1>4, <2>1
    <3>3. m <= MaxPosition
      BY <3>2, PairMin
    <3>4. x = MinStrength \/ x = signal.strength
      BY <3>2, PairMax
    <3>. HIDE DEF m, x
    <3>5. QED BY <1>4, <2>1, <3>1, <3>3, <3>4
  <2>3. Target(signal, snap) = snap.equity * m * x
    BY DEF Target
  <2>. HIDE DEF m, x, snap
  <2>4. snap.equity * m <= limit /\ snap.equity * m \in Nat /\ limit \in Nat
    BY <1>2, <1>3, <1>4, <2>2
  <2>5. snap.equity * m * x <= limit * StrengthDen
    <3>. DEFINE e == snap.equity * m
    <3>1. \A a \in Nat, b \in Nat, c \in Nat, d \in Nat :
            a <= b /\ c <= d => a * c <= b * c /\ b * c <= b * d
      OBVIOUS
    <3>. HIDE DEF e, limit
    <3>2. e * x <= limit * x /\ limit * x <= limit * StrengthDen
      BY <1>4, <2>2, <2>4, <3>1 DEF e
    <3>3. e * x \in Int /\ limit * x \in Int /\ limit * StrengthDen \in Int
      BY <1>4, <2>2, <2>4 DEF e
    <3>4. QED BY <3>2, <3>3 DEF e
  <2>6. AllowedAllocation(signal, snap) <= Target(signal, snap)
        /\ AllowedAllocation(signal, snap) \in Int /\ Target(signal, snap) \in Int
    BY <1>1, <1>3, AllocationType DEF snap
  <2>7. limit * StrengthDen \in Int
    BY <1>4, <2>4
  <2>. HIDE DEF limit
  <2>8. QED BY <2>3, <2>4, <2>5, <2>6, <2>7
<1>6. size = AdjustedSize(signal, snap, price)
  BY DEF Placed, OrderOf
<1>7. size \in Int /\ 2 * ((PctDen * worth) * size) <= 2 * limit + PctDen * worth
  BY <1>1, <1>2, <1>3, <1>5, <1>6, SizeWithin
<1>8. 2 * limit <= MaxPosition * (2 * peak + Cent)
  <2>1. 2 * snap.equity <= 2 * peak + Cent /\ peak \in Nat
    BY DEF CapInv, LoopInv, LoopTypeOK, EngineTypeOK, InSymbol
  <2>2. \A a \in Int, b \in Int, m \in Nat : a <= b => m * a <= m * b
    OBVIOUS
  <2>3. MaxPosition * (2 * snap.equity) <= MaxPosition * (2 * peak + Cent)
    BY <1>3, <1>4, <2>1, <2>2
  <2>4. MaxPosition * (2 * snap.equity) = 2 * limit
    BY <1>3, <1>4
  <2>5. QED BY <2>3, <2>4
<1>9. PctDen * worth <= PctDen * (Scale * h) /\ worth \in Nat
  <2>1. price <= h /\ price \in Nat
    BY <1>1, <1>2 DEF TopPrice
  <2>2. \A a \in Nat, b \in Nat, m \in Nat : a <= b => m * a <= m * b
    OBVIOUS
  <2>3. worth <= Scale * h /\ worth \in Nat /\ Scale * h \in Nat
    BY <1>4, <2>1, <2>2
  <2>. HIDE DEF worth
  <2>4. QED BY <1>4, <2>2, <2>3
<1>. DEFINE spent == 2 * ((PctDen * worth) * size)
            cap == MaxPosition * (2 * peak + Cent) + PctDen * (Scale * h)
<1>10. spent <= cap /\ spent \in Int /\ cap \in Int
  <2>1. /\ PctDen * worth \in Int /\ (PctDen * worth) * size \in Int
        /\ PctDen * (Scale * h) \in Int /\ MaxPosition * (2 * peak + Cent) \in Int
    BY <1>4, <1>7, <1>9, SMTT(30) DEF LoopInv, LoopTypeOK, EngineTypeOK
  <2>. HIDE DEF worth, limit
  <2>2. QED BY <1>5, <1>7, <1>8, <1>9, <2>1
<1>11. Weighted(TradeValue("BUY", size, price)) = rate * spent
  <2>1. TradeValue("BUY", size, price) = price * rate * size * CommDen
    BY DEF TradeValue, FillPrice
  <2>2. 2 * (price * rate * size * CommDen) * SlipDen * PctDen
          = rate * (2 * ((PctDen * ((SlipDen * CommDen) * price)) * size))
    <3>. HIDE DEF rate, size, price
    <3>. QED BY <1>2, <1>4, <1>7
  <2>3. QED BY <1>4, <2>1, <2>2 DEF Weighted
<1>12. PurchaseCap(h) = rate * cap
  BY DEF PurchaseCap
<1>. HIDE DEF spent, cap, rate
<1>13. rate * spent <= rate * cap
  BY <1>4, <1>10
<1>14. QED BY <1>11, <1>12, <1>13 DEF price, size

\* A position that is kept may stand for as many purchases as before.
LEMMA AllowanceGrows ==
  ASSUME LoopInv, LoopInv', [Next]_vars, NEW s \in DOMAIN positions,
         \/ UNCHANGED <<orders, DOMAIN positions>>
         \/ PlaceOrder /\ pc' = "save" /\ tick' = tick /\ turn' = turn
         \/ pc' \notin InSymbol
  PROVE  Allowance(s)' >= Allowance(s)
<1>1. Allowance(s) \in 0 .. NumStrategies /\ Allowance(s)' \in 0 .. NumStrategies
  BY AllowanceRange
<1>2. turn \in 1 .. NumStrategies /\ NumStrategies = 2
  BY DEF LoopInv, LoopTypeOK, NumStrategies
<1>3. CASE pc' \notin InSymbol
  BY <1>1, <1>3 DEF Allowance, NumStrategies
<1>4. CASE UNCHANGED vars
  BY <1>1, <1>4 DEF Allowance, Entered, vars, loopVars, engineVars
<1>5. CASE PlaceOrder /\ pc' = "save" /\ tick' = tick /\ turn' = turn
  <2>1. pc = "decide"
    BY <1>5 DEF PlaceOrder
  <2>2. Entered' /\ s = tick.symbol => Allowance(s)' = turn
    BY <1>5 DEF Allowance, InSymbol
  <2>3. Entered' \/ Allowance(s)' = NumStrategies
    BY DEF Allowance
  <2>4. s # tick.symbol => Allowance(s)' = NumStrategies
    BY <1>5 DEF Allowance
  <2>5. s = tick.symbol /\ Entered => Allowance(s) = turn - 1
    BY <2>1 DEF Allowance, InSymbol
  <2>6. s = tick.symbol /\ Entered' => Entered
    BY <1>5 DEF Entered
  <2>7. QED BY <1>1, <1>2, <2>2, <2>3, <2>4, <2>5, <2>6
<1>6. CASE TakeSnapshot
  <2>1. Untouched'
    BY <1>6 DEF LoopInv, Follows, InSymbol, TakeSnapshot
  <2>2. Allowance(s)' = NumStrategies
    BY <2>1 DEF Allowance, Entered, Untouched
  <2>3. QED BY <1>1, <2>2 DEF NumStrategies
<1>7. ASSUME UNCHANGED <<orders, DOMAIN positions, pc, tick, turn>>
      PROVE  Allowance(s)' >= Allowance(s)
  <2>1. Allowance(s)' = Allowance(s)
    BY <1>7 DEF Allowance, Entered
  <2>2. QED BY <1>1, <2>1 DEF NumStrategies
<1>8. CASE UNCHANGED <<orders, DOMAIN positions>>
           /\ (ReadPortfolio \/ SetActive)
  BY <1>7, <1>8 DEF ReadPortfolio, SetActive, loopVars
<1>9. CASE UNCHANGED <<orders, DOMAIN positions>>
           /\ (NoOrder \/ SaveOrder \/ Announce)
  <2>1. tick' = tick /\ (Entered' <=> Entered)
    BY <1>9 DEF NoOrder, SaveOrder, Announce, Entered
  <2>2. CASE ~Entered \/ s # tick.symbol
    <3>1. Allowance(s)' = NumStrategies
      BY <2>1, <2>2 DEF Allowance
    <3>2. QED BY <1>1, <3>1 DEF NumStrategies
  <2>3. CASE Entered /\ s = tick.symbol
    <3>1. pc' \in InSymbol =>
            Allowance(s)' = IF pc' = "decide" THEN turn' - 1 ELSE turn'
      BY <2>1, <2>3 DEF Allowance
    <3>2. pc \in InSymbol => Allowance(s) = IF pc = "decide" THEN turn - 1 ELSE turn
      BY <2>3 DEF Allowance
    <3>3. CASE SaveOrder
      <4>1. pc = "save" /\ pc' = "announce" /\ turn' = turn
        BY <3>3 DEF SaveOrder
      <4>2. QED BY <1>2, <3>1, <3>2, <4>1 DEF InSymbol
    <3>4. CASE NoOrder \/ Announce
      <4>1. pc \in {"decide", "announce"} /\ NextTurn
        BY <3>4 DEF NoOrder, Announce
      <4>2. (pc' = "decide" /\ turn' = turn + 1) \/ (pc' = "tick" /\ turn' = turn)
        BY <4>1 DEF NextTurn
      <4>3. QED BY <1>2, <3>1, <3>2, <4>1, <4>2 DEF InSymbol
    <3>5. QED BY <1>9, <3>3, <3>4
  <2>4. QED BY <2>2, <2>3
<1>10. CASE Refresh \/ FetchFeeds \/ PriceFails \/ StoreFails \/ DecideRaises
            \/ SaveFails \/ AnnounceFails \/ BroadcastTick \/ Wake \/ Start \/ Cancel
  <2>1. pc' \notin InSymbol
    BY <1>10 DEF Refresh, FetchFeeds, PriceFails, StoreFails, DecideRaises, SaveFails,
                 AnnounceFails, BroadcastTick, Wake, Start, Cancel, FinishSymbol, InSymbol
  <2>2. QED BY <1>3, <2>1
<1>11. CASE PlaceOrder /\ UNCHANGED orders
  <2>1. Len(orders') = Current + 1 /\ Current \in Nat
    BY <1>11, PlaceOrderActs DEF PlacesFor, LoopInv, LoopTypeOK, Current
  <2>2. QED BY <1>11, <2>1 DEF Current
<1>12. CASE UNCHANGED <<orders, DOMAIN positions>>
  BY <1>4, <1>6, <1>8, <1>9, <1>10, <1>11, <1>12 DEF Next, LoopStep
<1>13. QED BY <1>3, <1>5, <1>12

\* The first two parts of CapInv.
LEMMA SnapshotBelowPeak ==
  ASSUME LoopInv, LoopInv', CapInv, [Next]_vars
  PROVE  /\ peak' >= 0 /\ peak' >= peak
         /\ pc' \in InSymbol => 2 * tick'.snap.equity <= 2 * peak' + Cent
<1>1. peak' >= peak /\ peak \in Int /\ peak' \in Int /\ cash \in Int /\ peak >= 0
  BY PeakGrows DEF LoopInv, LoopTypeOK, EngineTypeOK, CapInv
<1>2. Cent \in Nat \ {0}
  BY GateAssumption
<1>3. CASE TakeSnapshot
  <2>1. PICK s \in todo, p \in Prices, f \in Features :
          LET closes == [buffers EXCEPT ![s] = p]
          IN  /\ GetPortfolioState(LastCloses(closes))
              /\ tick' = [symbol |-> s, price |-> p, features |-> f,
                          snap |-> SnapshotOf(LastCloses(closes))]
    BY <1>3 DEF TakeSnapshot
  <2>. DEFINE known == LastCloses([buffers EXCEPT ![s] = p])
              book == MarkedWith(positions, known)
              equity == cash + MarketValue(book)
  <2>2. peak' = Ratcheted(peak, equity)
    BY <2>1 DEF GetPortfolioState
  <2>3. tick'.snap.equity = RoundDiv(equity, Cent) * Cent
    BY <2>1 DEF SnapshotOf
  <2>4. equity \in Int
    <3>1. /\ [buffers EXCEPT ![s] = p] \in [symbols -> Prices \cup {Empty}]
          /\ symbols \in SUBSET Symbols /\ Book(positions)
      BY DEF LoopInv, LoopTypeOK, EngineTypeOK
    <3>2. PICK S \in SUBSET Symbols : known \in [S -> Prices]
      BY <3>1, ClosesKnown
    <3>. HIDE DEF known
    <3>3. MarketValue(book) \in Int
      BY <3>1, <3>2, MarkedBook, MarketValueInt
    <3>4. QED BY <1>1, <3>3
  <2>. HIDE DEF equity
  <2>5. equity <= peak'
    BY <1>1, <2>2, <2>4 DEF Ratcheted
  <2>6. 2 * (Cent * RoundDiv(equity, Cent)) <= 2 * equity + Cent /\ RoundDiv(equity, Cent) \in Int
    BY <1>2, <2>4, RoundDivBound, RoundDivType
  <2>7. RoundDiv(equity, Cent) * Cent = Cent * RoundDiv(equity, Cent)
    BY <1>2, <2>6
  <2>8. Cent * RoundDiv(equity, Cent) \in Int
    BY <1>2, <2>6
  <2>9. QED BY <1>1, <1>2, <2>3, <2>4, <2>5, <2>6, <2>7, <2>8
<1>4. ASSUME ~TakeSnapshot, pc' \in InSymbol
      PROVE  pc \in InSymbol /\ tick' = tick
  <2>1. CASE UNCHANGED vars
    BY <1>4, <2>1 DEF vars, loopVars
  <2>2. CASE ReadPortfolio \/ SetActive
    BY <1>4, <2>2 DEF ReadPortfolio, SetActive, loopVars
  <2>3. CASE NoOrder \/ SaveOrder \/ Announce
    BY <2>3 DEF NoOrder, SaveOrder, Announce, InSymbol
  <2>4. CASE PlaceOrder
    BY <1>4, <2>4 DEF PlaceOrder, FinishSymbol, InSymbol
  <2>5. CASE Refresh \/ FetchFeeds \/ PriceFails \/ StoreFails \/ DecideRaises
             \/ SaveFails \/ AnnounceFails \/ BroadcastTick \/ Wake \/ Start \/ Cancel
    BY <1>4, <2>5 DEF Refresh, FetchFeeds, PriceFails, StoreFails, DecideRaises, SaveFails,
                 AnnounceFails, BroadcastTick, Wake, Start, Cancel, FinishSymbol, InSymbol
  <2>6. QED BY <1>4, <2>1, <2>2, <2>3, <2>4, <2>5 DEF Next, LoopStep
<1>5. CASE ~TakeSnapshot
  <2>1. SUFFICES ASSUME pc' \in InSymbol PROVE 2 * tick'.snap.equity <= 2 * peak' + Cent
    BY <1>1
  <2>2. pc \in InSymbol /\ tick' = tick
    BY <1>4, <1>5, <2>1
  <2>3. 2 * tick.snap.equity <= 2 * peak + Cent /\ tick.snap.equity \in Int
    BY <2>2 DEF CapInv, LoopInv, LoopTypeOK, TickTypeOK
  <2>4. QED BY <1>1, <1>2, <2>2, <2>3
<1>6. QED BY <1>1, <1>3, <1>5

\* One more purchase raises the allowance by one.
LEMMA CapBought ==
  ASSUME LoopInv, LoopInv', CapInv, [Next]_vars, pc = "decide",
         NEW signal \in ApprovedSignals, PlacesFor(signal),
         FillBuy(Placed(signal), tick.price), NEW h \in Prices, TopPrice(h),
         NEW s, s = tick.symbol
  PROVE  Weighted(positions'[s].cost) <= Allowance(s)' * PurchaseCap(h)'
<1>. DEFINE order == Placed(signal)
            value == TradeValue("BUY", order.size, tick.price)
            old == IF Holds(s) THEN positions[s].cost ELSE 0
<1>1. order \in Order /\ order.symbol = s /\ tick.price \in Prices
  BY PlacedEnds
<1>2. positions' = With(positions, s, Bought(order, tick.price)) /\ peak' = peak
  BY <1>1 DEF FillBuy
<1>3. positions'[s].cost = old + value
  BY <1>1, <1>2 DEF With, Bought
<1>4. old \in Nat /\ value \in Nat
  <2>1. value \in Nat
    BY <1>1, OrderFacts, ValueNat, EngineAssumption
  <2>2. old \in Nat
    BY DEF Holds, LoopInv, LoopTypeOK, EngineTypeOK, Book, Position
  <2>3. QED BY <2>1, <2>2
<1>5. s \notin DOMAIN tick.snap.positions /\ s \in DOMAIN positions'
  BY PurchaseOpens
<1>6. Outcome(order, tick.price) # "RAISED"
  BY DEF FillBuy
<1>7. pc' = "save" /\ tick' = tick /\ turn' = turn
  BY <1>6 DEF PlacesFor
<1>8. Allowance(s)' = turn
  BY <1>5, <1>7 DEF Allowance, Entered, InSymbol
<1>9. peak \in Nat /\ PurchaseCap(h) \in Nat /\ PurchaseCap(h)' = PurchaseCap(h)
      /\ turn \in Nat /\ turn >= 1
  <2>1. peak \in Nat
    BY DEF LoopInv, LoopTypeOK, EngineTypeOK, CapInv
  <2>2. turn \in Nat /\ turn >= 1
    BY DEF LoopInv, LoopTypeOK, NumStrategies
  <2>3. QED BY <1>2, <2>1, <2>2, CapType DEF PurchaseCap
<1>10. Weighted(value) <= PurchaseCap(h)
  BY PurchaseWithinCap
<1>11. Weighted(old) <= (turn - 1) * PurchaseCap(h)
  <2>1. CASE Holds(s)
    <3>1. Allowance(s) = turn - 1
      BY <1>5, <2>1 DEF Allowance, Entered, InSymbol, Holds
    <3>2. Weighted(positions[s].cost) <= Allowance(s) * PurchaseCap(h)
      BY <2>1 DEF CapInv, Holds
    <3>3. QED BY <2>1, <3>1, <3>2
  <2>2. CASE ~Holds(s)
    <3>1. \A a \in Nat, b \in Nat : a >= 1 => 0 <= (a - 1) * b
      <4>1. \A c \in Nat, b \in Nat : 0 <= c * b
        OBVIOUS
      <4>2. QED BY <4>1
    <3>2. 0 <= (turn - 1) * PurchaseCap(h)
      BY <1>9, <3>1
    <3>3. Weighted(0) = 0
      BY EngineAssumption, GateAssumption DEF Weighted
    <3>4. QED BY <2>2, <3>2, <3>3
  <2>3. QED BY <2>1, <2>2
<1>12. Weighted(old + value) = Weighted(old) + Weighted(value)
       /\ Weighted(old) \in Int /\ Weighted(value) \in Int
  <2>1. \A x \in Nat, y \in Nat, d \in Nat, p \in Nat :
          /\ 2 * (x + y) * d * p = 2 * x * d * p + 2 * y * d * p
          /\ 2 * x * d * p \in Int
    OBVIOUS
  <2>. HIDE DEF old, value
  <2>2. QED BY <1>4, <2>1, EngineAssumption, GateAssumption DEF Weighted
<1>13. (turn - 1) * PurchaseCap(h) + PurchaseCap(h) = turn * PurchaseCap(h)
       /\ (turn - 1) * PurchaseCap(h) \in Int
  BY <1>9
<1>. HIDE DEF old, value, order
<1>14. QED BY <1>3, <1>8, <1>9, <1>10, <1>11, <1>12, <1>13

LEMMA CapInvStep ==
  ASSUME LoopInv, LoopInv', CapInv, [Next]_vars
  PROVE  CapInv'
<1>1. /\ peak' >= 0 /\ peak' >= peak
      /\ pc' \in InSymbol => 2 * tick'.snap.equity <= 2 * peak' + Cent
  BY SnapshotBelowPeak
<1>2. SUFFICES ASSUME NEW h \in Prices, TopPrice(h), NEW s \in DOMAIN positions'
               PROVE  Weighted(positions'[s].cost) <= Allowance(s)' * PurchaseCap(h)'
  BY <1>1 DEF CapInv
<1>3. CASE UNCHANGED orders /\ BooksNothing
  <2>1. s \in DOMAIN positions /\ positions'[s].cost = positions[s].cost
        /\ UNCHANGED DOMAIN positions
    BY <1>3 DEF BooksNothing
  <2>2. Allowance(s)' >= Allowance(s)
    BY <1>3, <2>1, AllowanceGrows
  <2>3. QED BY <1>1, <1>2, <2>1, <2>2, CapKept
<1>4. ASSUME pc = "decide", PlaceOrder, NEW signal \in ApprovedSignals, PlacesFor(signal)
      PROVE  Weighted(positions'[s].cost) <= Allowance(s)' * PurchaseCap(h)'
  <2>. DEFINE order == Placed(signal)
  <2>1. order \in Order /\ order.symbol = tick.symbol
    BY <1>4, PlacedEnds
  <2>2. \/ PlaceOrder /\ pc' = "save" /\ tick' = tick /\ turn' = turn
        \/ pc' \notin InSymbol
    BY <1>4 DEF PlacesFor
  <2>3. CASE FillBuy(order, tick.price)
    <3>1. positions' = With(positions, tick.symbol, Bought(order, tick.price))
      BY <2>1, <2>3 DEF FillBuy
    <3>2. CASE s = tick.symbol
      BY <1>2, <1>4, <2>3, <3>2, CapBought
    <3>3. CASE s # tick.symbol
      <4>1. s \in DOMAIN positions /\ positions'[s] = positions[s]
        BY <1>2, <3>1, <3>3 DEF With
      <4>2. Allowance(s)' >= Allowance(s)
        BY <2>2, <4>1, AllowanceGrows
      <4>3. QED BY <1>1, <1>2, <4>1, <4>2, CapKept
    <3>4. QED BY <3>2, <3>3
  <2>4. CASE FillSell(order, tick.price)
    <3>1. order.symbol = tick.symbol /\ CloseSize(order) = order.size
          /\ order.size = positions[tick.symbol].size
          /\ tick.symbol \in DOMAIN positions
          /\ DOMAIN positions' = DOMAIN positions \ {tick.symbol}
      BY <1>4, <2>1, <2>4, SaleWhole
    <3>2. s \in DOMAIN positions /\ s # tick.symbol
      BY <1>2, <3>1
    <3>3. positions'[s] = positions[s]
      BY <2>4, <3>1, <3>2 DEF FillSell, Restrict
    <3>4. Allowance(s)' >= Allowance(s)
      BY <2>2, <3>2, AllowanceGrows
    <3>5. QED BY <1>1, <1>2, <3>2, <3>3, <3>4, CapKept
  <2>5. CASE DontFill(order, tick.price)
    <3>1. s \in DOMAIN positions /\ positions' = positions
      BY <1>2, <2>5 DEF DontFill, engineVars
    <3>2. Allowance(s)' >= Allowance(s)
      BY <2>2, <3>1, AllowanceGrows
    <3>3. QED BY <1>1, <1>2, <3>1, <3>2, CapKept
  <2>6. QED BY <1>4, <2>3, <2>4, <2>5, PlacedEnds
<1>5. Marks => BooksNothing
  BY MarkBooks DEF Marks, LoopInv, LoopTypeOK
<1>6. UNCHANGED engineVars => BooksNothing
  BY DEF engineVars, BooksNothing
<1>7. QED BY <1>3, <1>4, <1>5, <1>6, AccountSteps

\* What was paid for an open position stays within what one entry by each
\* strategy may cost.
THEOREM PositionCapCorrect == Spec => []PositionCap
<1>1. Init => CapInv
  BY EngineAssumption DEF Init, EngineInit, CapInv, InSymbol
<1>2. LoopInv /\ LoopInv' /\ CapInv /\ [Next]_vars => CapInv'
  BY CapInvStep
<1>3. LoopInv /\ CapInv => PositionCap
  <2>1. SUFFICES ASSUME LoopInv, CapInv, NEW h \in Prices, TopPrice(h), NEW s \in DOMAIN positions
                 PROVE  Weighted(positions[s].cost) <= NumStrategies * PurchaseCap(h)
    BY DEF PositionCap, Weighted, TopPrice
  <2>2. Weighted(positions[s].cost) <= Allowance(s) * PurchaseCap(h)
    BY <2>1 DEF CapInv
  <2>3. Allowance(s) \in 0 .. NumStrategies
    BY <2>1 DEF LoopInv, LoopTypeOK, Allowance, NumStrategies
  <2>4. PurchaseCap(h) \in Nat
    BY <2>1, CapType DEF LoopInv, LoopTypeOK, EngineTypeOK, CapInv
  <2>5. Allowance(s) * PurchaseCap(h) <= NumStrategies * PurchaseCap(h)
    <3>1. \A a \in Nat, b \in Nat, c \in Nat : a <= b => a * c <= b * c
      OBVIOUS
    <3>2. Allowance(s) \in Nat /\ Allowance(s) <= NumStrategies /\ NumStrategies \in Nat
      BY <2>3 DEF NumStrategies
    <3>3. QED BY <2>4, <3>1, <3>2
  <2>6. Weighted(positions[s].cost) \in Int
    <3>1. positions[s].cost \in Nat
      BY <2>1 DEF LoopInv, LoopTypeOK, EngineTypeOK, Book, Position
    <3>2. QED BY <3>1, EngineAssumption, GateAssumption DEF Weighted
  <2>7. Allowance(s) * PurchaseCap(h) \in Int /\ NumStrategies * PurchaseCap(h) \in Int
    BY <2>3, <2>4 DEF NumStrategies
  <2>8. QED BY <2>2, <2>5, <2>6, <2>7
<1>4. QED BY <1>1, <1>2, <1>3, LoopInvHolds, PTL DEF Spec
=============================================================================
