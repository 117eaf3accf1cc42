---------------------------- MODULE TradingLoop ----------------------------
(***************************************************************************)
(* The ingestion and trading loop of the backend server (app/server.py),   *)
(* with the account, the risk gate and the strategies it drives, and what  *)
(* runs beside it in the same event loop: portfolio requests, changes of   *)
(* the symbol table, starting and cancelling the loop.                     *)
(*                                                                         *)
(* asyncio switches tasks at an await only.  pc names the await the loop   *)
(* is at, or "decide" for the stretch from one order to the next, which no *)
(* other task can interrupt.  One loop runs at a time.                     *)
(***************************************************************************)
EXTENDS Strategies

Empty == -1  \* a candle buffer without a candle

VARIABLES
  active,     \* the symbols that the database has as active
  symbols,    \* symbols: what the loop trades, loaded once a cycle
  buffers,    \* candle_buffers: symbol -> close of the last candle, or Empty
  pc,         \* where the loop is
  todo,       \* the symbols this cycle has not finished
  tick,       \* the locals of _process_symbol
  turn,       \* the strategy that decides next, or whose order is in flight
  orders,     \* oms.orders, in order of creation, with their status
  saved,      \* the indices of orders that the database has
  announced   \* the indices of orders that were broadcast as order_filled

loopVars == <<active, symbols, buffers, pc, todo, tick, turn, orders, saved, announced>>
vars     == <<engineVars, loopVars>>

ASSUME LoopAssumption == Comm <= CommDen

Awaits == {"stopped", "refresh", "feeds", "price", "save", "announce", "tick", "sleep"}

AtAwait == pc \in Awaits

Current == Len(orders)

\* The prices a portfolio is valued at: the last closes that are known.
LastCloses(buf) == [s \in {r \in DOMAIN buf : buf[r] # Empty} |-> buf[s]]

-----------------------------------------------------------------------------
(***************************************************************************)
(* One cycle.                                                              *)
(***************************************************************************)

\* Variant: a new symbol gets no buffer.
RebuiltKept(db) == [s \in DOMAIN buffers \cap db |-> buffers[s]]

\* _rebuild_strategies: buffers for new symbols, none for the stale ones.
Rebuilt(db) == [s \in db |-> IF s \in DOMAIN buffers THEN buffers[s] ELSE Empty]

\* get_active_symbols answers with no symbols when the database fails.
Refresh ==
  /\ pc = "refresh"
  /\ \E db \in {active, {}} :
       /\ symbols' = db
       /\ buffers' = IF db = symbols THEN buffers ELSE Rebuilt(db)
       /\ pc' = IF db = {} THEN "sleep" ELSE "feeds"
  /\ UNCHANGED <<engineVars, active, todo, tick, turn, orders, saved, announced>>

\* News, social and macro feeds; a failure ends the cycle.
FetchFeeds ==
  /\ pc = "feeds"
  /\ \/ pc' = "price" /\ todo' = symbols
     \/ pc' = "sleep" /\ UNCHANGED todo
  /\ UNCHANGED <<engineVars, active, symbols, buffers, tick, turn, orders, saved, announced>>

\* Variant: the end of the cycle is missed.
FinishSymbolOn(s) ==
  /\ todo' = todo \ {s}
  /\ pc' = "price"
  /\ tick' = << >>
  /\ turn' = 1

\* _process_symbol returns or raises: the cycle goes on to the next symbol.
\* symbols is a sorted list; the model leaves the order open.
FinishSymbol(s) ==
  /\ todo' = todo \ {s}
  /\ pc' = IF todo = {s} THEN "sleep" ELSE "price"
  /\ tick' = << >>
  /\ turn' = 1

\* Variant: a ticker that cannot be fetched starts the cycle again.
PriceFailsRetry ==
  /\ pc = "price"
  /\ pc' = "feeds"
  /\ UNCHANGED <<engineVars, active, symbols, buffers, todo, tick, turn, orders, saved, announced>>

\* The ticker cannot be fetched.
PriceFails ==
  /\ pc = "price"
  /\ \E s \in todo : FinishSymbol(s)
  /\ UNCHANGED <<engineVars, active, symbols, buffers, orders, saved, announced>>

\* The candle is buffered before it is stored, and storing it fails.
StoreFails ==
  /\ pc = "price"
  /\ \E s \in todo, p \in Prices :
       /\ buffers' = [buffers EXCEPT ![s] = p]
       /\ FinishSymbol(s)
  /\ UNCHANGED <<engineVars, active, symbols, orders, saved, announced>>

\* The portfolio is valued once, for all the strategies.
TakeSnapshot ==
  /\ pc = "price"
  /\ \E s \in todo, p \in Prices, f \in Features :
       LET closes == [buffers EXCEPT ![s] = p]
       IN  /\ buffers' = closes
           /\ GetPortfolioState(LastCloses(closes))
           /\ tick' = [symbol |-> s, price |-> p, features |-> f,
                       snap |-> SnapshotOf(LastCloses(closes))]
  /\ pc' = "decide"
  /\ turn' = 1
  /\ UNCHANGED <<active, symbols, todo, orders, saved, announced>>

-----------------------------------------------------------------------------
(***************************************************************************)
(* One strategy: its signals, the gate, the order, its execution.          *)
(***************************************************************************)
TickSignals == Signals(turn, tick.symbol, tick.features, tick.snap)

ApprovedSignals == {signal \in TickSignals : Approved(signal, tick.snap, tick.price)}

\* The strength of the momentum entry divides by the close.
StrategyRaises ==
  /\ turn = 1
  /\ tick.price = 0
  /\ MomentumLong(tick.features)
  /\ tick.symbol \notin DOMAIN tick.snap.positions

\* After the last strategy comes the broadcast of the tick.
NextTurn ==
  IF turn < NumStrategies
  THEN pc' = "decide" /\ turn' = turn + 1
  ELSE pc' = "tick" /\ UNCHANGED turn

DecideRaises ==
  /\ pc = "decide"
  /\ StrategyRaises
  /\ FinishSymbol(tick.symbol)
  /\ UNCHANGED <<engineVars, active, symbols, buffers, orders, saved, announced>>

NoOrder ==
  /\ pc = "decide"
  /\ ~StrategyRaises
  /\ ApprovedSignals = {}
  /\ NextTurn
  /\ UNCHANGED <<engineVars, active, symbols, buffers, todo, tick, orders, saved, announced>>

\* A strategy has at most one signal.  The order is registered, then executed;
\* a rejected one goes on to be saved and announced like a filled one.
PlaceOrder ==
  /\ pc = "decide"
  /\ ~StrategyRaises
  /\ \E signal \in ApprovedSignals :
       LET order   == OrderOf(signal, tick.snap, tick.price)
           outcome == Outcome(order, tick.price)
       IN  /\ ExecuteOrder(order, tick.price)
           /\ orders' = Append(orders,
                [side |-> order.side, size |-> order.size,
                 status |-> IF outcome = "RAISED" THEN "PENDING" ELSE outcome])
           /\ IF outcome = "RAISED"
              THEN FinishSymbol(tick.symbol)
              ELSE pc' = "save" /\ UNCHANGED <<todo, tick, turn>>
  /\ UNCHANGED <<active, symbols, buffers, saved, announced>>

\* save_order: the commit succeeds.
SaveOrder ==
  /\ pc = "save"
  /\ saved' = saved \cup {Current}
  /\ pc' = "announce"
  /\ UNCHANGED <<engineVars, active, symbols, buffers, todo, tick, turn, orders, announced>>

\* Variant: the loop announces the order all the same.
SaveFailsOn ==
  /\ pc = "save"
  /\ pc' = "announce"
  /\ UNCHANGED <<engineVars, active, symbols, buffers, todo, tick, turn, orders, saved, announced>>

\* It raises, and the database has the order or not; nobody tries again.
SaveFails ==
  /\ pc = "save"
  /\ saved' \in {saved, saved \cup {Current}}
  /\ FinishSymbol(tick.symbol)
  /\ UNCHANGED <<engineVars, active, symbols, buffers, orders, announced>>

Announce ==
  /\ pc = "announce"
  /\ announced' = announced \cup {Current}
  /\ NextTurn
  /\ UNCHANGED <<engineVars, active, symbols, buffers, todo, tick, orders, saved>>

\* A client that is removed twice raises, after some clients had the message.
AnnounceFails ==
  /\ pc = "announce"
  /\ announced' \in {announced, announced \cup {Current}}
  /\ FinishSymbol(tick.symbol)
  /\ UNCHANGED <<engineVars, active, symbols, buffers, orders, saved>>

BroadcastTick ==
  /\ pc = "tick"
  /\ FinishSymbol(tick.symbol)
  /\ UNCHANGED <<engineVars, active, symbols, buffers, orders, saved, announced>>

Wake ==
  /\ pc = "sleep"
  /\ pc' = "refresh"
  /\ UNCHANGED <<engineVars, active, symbols, buffers, todo, tick, turn, orders, saved, announced>>

LoopStep ==
  \/ Refresh \/ FetchFeeds \/ PriceFails \/ StoreFails \/ TakeSnapshot
  \/ DecideRaises \/ NoOrder \/ PlaceOrder
  \/ SaveOrder \/ SaveFails \/ Announce \/ AnnounceFails \/ BroadcastTick \/ Wake

-----------------------------------------------------------------------------
(***************************************************************************)
(* The other tasks, which run while the loop awaits.                       *)
(***************************************************************************)
Start ==
  /\ pc = "stopped"
  /\ pc' = "refresh"
  /\ UNCHANGED <<engineVars, active, symbols, buffers, todo, tick, turn, orders, saved, announced>>

\* The loop's task is cancelled; an order in flight is saved or announced, or not.
Cancel ==
  /\ AtAwait /\ pc # "stopped"
  /\ saved' \in IF pc = "save" THEN {saved, saved \cup {Current}} ELSE {saved}
  /\ announced' \in IF pc = "announce" THEN {announced, announced \cup {Current}} ELSE {announced}
  /\ pc' = "stopped"
  /\ todo' = {} /\ tick' = << >> /\ turn' = 1
  /\ UNCHANGED <<engineVars, active, symbols, buffers, orders>>

\* GET /api/portfolio
ReadPortfolio ==
  /\ AtAwait
  /\ GetPortfolioState(LastCloses(buffers))
  /\ UNCHANGED loopVars

\* The symbol table changes: the symbol API, the catalog synchronization.
SetActive ==
  /\ AtAwait
  /\ \E s \in Symbols : active' = IF s \in active THEN active \ {s} ELSE active \cup {s}
  /\ UNCHANGED <<engineVars, symbols, buffers, pc, todo, tick, turn, orders, saved, announced>>

-----------------------------------------------------------------------------
Init ==
  /\ EngineInit
  /\ active \in SUBSET Symbols
  /\ symbols \in {active, {}}
  /\ buffers = [s \in symbols |-> Empty]
  /\ pc = "stopped"
  /\ todo = {} /\ tick = << >> /\ turn = 1
  /\ orders = << >> /\ saved = {} /\ announced = {}

Next == LoopStep \/ Start \/ Cancel \/ ReadPortfolio \/ SetActive

Spec == Init /\ [][Next]_vars

\* The loop gets to run, and what it awaits comes back with a result or an
\* error.  Nobody has to start, cancel or query it.
FairSpec == Spec /\ WF_vars(LoopStep)

-----------------------------------------------------------------------------
(***************************************************************************)
(* Safety.                                                                 *)
(***************************************************************************)
InSymbol == {"decide", "save", "announce", "tick"}

TickTypeOK ==
  /\ DOMAIN tick = {"symbol", "price", "features", "snap"}
  /\ tick.symbol \in todo /\ tick.price \in Prices /\ tick.features \in Features
  /\ DOMAIN tick.snap = {"equity", "drawdown", "positions"}
  /\ tick.snap.equity \in Int /\ tick.snap.drawdown \in Int
  /\ Book(tick.snap.positions)

OrderRecord == [side : {"BUY", "SELL"}, size : Nat, status : {"PENDING", "FILLED", "REJECTED"}]

\* The loop has its types; the buffers are those of the symbols the loop
\* trades, so no lookup of a symbol's buffer fails; a symbol being processed is
\* one the cycle has not finished.
LoopTypeOK ==
  /\ EngineTypeOK
  /\ active \subseteq Symbols /\ symbols \subseteq Symbols
  /\ buffers \in [symbols -> Prices \cup {Empty}]
  /\ pc \in Awaits \cup {"decide"}
  /\ todo \subseteq symbols
  /\ pc = "feeds" => symbols # {}
  /\ todo # {} <=> pc \in {"price"} \cup InSymbol
  /\ turn \in 1 .. NumStrategies
  /\ pc \in InSymbol => TickTypeOK /\ buffers[tick.symbol] = tick.price
  /\ pc \notin InSymbol => tick = << >> /\ turn = 1
  /\ orders \in Seq(OrderRecord)
  /\ pc \in {"save", "announce"} => Current \in DOMAIN orders
  /\ saved \subseteq DOMAIN orders /\ announced \subseteq DOMAIN orders

\* The loop never overdraws the account: no sequence of entries and exits it
\* makes (execute_order's cash check, the commission taken from a sale) leaves
\* negative cash.
CashNeverNegative == cash >= 0

NewFill == filled'[Len(filled')]

HasNewFill == Len(filled') > Len(filled)

\* An exit that is filled sells the whole position: the size in the snapshot is
\* still the size held, no remainder is kept or dropped (execute_order).
SalesCloseWhole ==
  [][ HasNewFill /\ NewFill.side = "SELL" =>
        /\ positions[NewFill.symbol].size = NewFill.size
        /\ DOMAIN positions' = DOMAIN positions \ {NewFill.symbol}
        /\ dropped' = dropped ]_vars

\* An exit is rejected only as the second order of a tick whose first order
\* sold the position: the snapshot both strategies share still has it.
RejectedExitIsSecond ==
  [][ \A i \in DOMAIN orders' \ DOMAIN orders :
        orders'[i].side = "SELL" /\ orders'[i].status = "REJECTED" =>
          /\ turn = 2 /\ i > 1
          /\ orders[i - 1].side = "SELL" /\ orders[i - 1].status = "FILLED"
          /\ tick.symbol \in DOMAIN tick.snap.positions \ DOMAIN positions ]_vars

\* What NumStrategies orders of the largest size allowed by
\* max_position_size_pct cost at the highest equity seen and a price h, with
\* slippage and half a unit of rounding for each, in 2 * SlipDen * PctDen.
PurchaseCap(h) ==
  (SlipDen + Slip) * (MaxPosition * (2 * peak + Cent) + PctDen * (Scale * h))

\* Entries never pile up over the ticks (validate_signal, generate_signals):
\* what was paid for an open position is at most the cost of one entry by each
\* strategy, at the highest price there is.
PositionCap ==
  \A h \in Prices :
    (\A p \in Prices : p <= h) =>
      \A s \in DOMAIN positions :
        2 * positions[s].cost * SlipDen * PctDen <= NumStrategies * PurchaseCap(h)

\* A purchase, valued at the market price, and the positions before it fit in
\* the exposure allowed on the snapshot's equity, up to half a unit of size.
FitsExposure ==
  2 * PctDen * (MarketValue(positions) + NewFill.size * tick.price * Scale)
    <= 2 * MaxExposure * tick.snap.equity + PctDen * tick.price * Scale

NewPurchase == HasNewFill /\ NewFill.side = "BUY"

\* The first purchase of a tick keeps max_portfolio_exposure_pct.
FirstPurchaseFitsExposure ==
  [][ NewPurchase /\ positions = tick.snap.positions => FitsExposure ]_vars

\* Every purchase keeps it: "Adjust for remaining allowed exposure", says the
\* comment in validate_signal.
PurchaseFitsExposure == [][ NewPurchase => FitsExposure ]_vars

\* The circuit breaker, once it is tripped and no position is left, stays
\* tripped: peak_equity never comes down, cash never moves again.
Tripped == positions = << >> /\ DrawdownOf(peak, cash) >= MaxDrawdown

BreakerLatches == [][ Tripped => Tripped' /\ UNCHANGED <<cash, filled>> ]_vars

-----------------------------------------------------------------------------
(***************************************************************************)
(* Refinement: the loop uses the account only as an account (EngineSpec),  *)
(* and treats its orders as TradeJournal says.                             *)
(***************************************************************************)
StageOf(i) ==
  IF orders[i].status = "PENDING" THEN "failed"
  ELSE IF i \in announced THEN "broadcast"
  ELSE IF i \in saved THEN IF i = Current /\ pc = "announce" THEN "written" ELSE "silent"
  ELSE IF i = Current /\ pc = "save" THEN "executed" ELSE "lost"

Journal == INSTANCE TradeJournal WITH log <- [i \in DOMAIN orders |-> StageOf(i)]

\* Orders are taken one at a time and saved before they are announced.
KeepsJournal == Journal!JournalSpec

-----------------------------------------------------------------------------
(***************************************************************************)
(* Liveness.                                                               *)
(***************************************************************************)

\* A symbol whose turn is due in this cycle is finished or the loop is
\* stopped: a failure of one symbol does not hold up the others.
EverySymbolServed == \A s \in Symbols : s \in todo ~> s \notin todo

\* The loop, not stopped, comes round to loading its symbols again.
CyclesGoOn == pc # "stopped" ~> pc \in {"refresh", "stopped"}
=============================================================================
