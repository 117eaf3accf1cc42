# Autonomous trading agent: specification

TLA+ modules of the trading agent, the TLC runs that check them on small
instances, and theorems about them with proofs for TLAPS.

## The system

The agent reads prices and feeds, computes features, lets strategies decide,
checks the decisions against risk limits and trades on a simulated account. It
runs as a FastAPI server or as a worker daemon; both are one asyncio event loop
per process, so tasks interleave at an `await` only.

| part | state | operations | talks to | what is hard | what makes it correct |
|---|---|---|---|---|---|
| Paper trading engine (`execution/paper_trader.py`) | cash, positions, realized profit, peak equity, filled orders | execute an order, portfolio snapshot (marks positions, moves the peak) | called by loop, pipeline, API | money over long sequences of partial fills; sizes of zero; dust | money is conserved, entry prices are prices paid, no short position |
| Risk manager (`execution/risk_manager.py`) | limits | health check, validate and size a signal | reads a snapshot | the snapshot may be old; rounding to nothing | limits on drawdown, position and exposure |
| Order management (`execution/oms.py`) | orders | create from a signal | loop, pipeline | an order whose execution raises | every order is accounted for |
| Live strategies (`strategies/`) | none | signals from features and a snapshot | loop, pipeline | entries and exits on old positions | one entry per position; exits when due |
| Ingestion and trading loop (`server.py` 58-185) | symbols, candle buffers | refresh symbols, fetch feeds, process each symbol | providers, storage, engine, websockets | a failure or cancellation at every await | every symbol is served, orders are saved before they are announced |
| Ingestion control (`server.py` 188-245, 418-477) | the loop's task | start, stop, status, shutdown | HTTP and websocket clients | start and stop at once, two stops | one loop, a stop ends it and releases what it opened |
| Market data routing (`ingestion/market/`) | exchange clients, symbol index | build the index, route, list, page through a history, close | exchanges | cancellation while it is built; an exchange that fails once; short pages | every client is closed |
| In-process event bus (`core/bus.py`) | queue, subscriptions, worker | publish, subscribe, dispatch, start, stop | pipeline | full queue, handlers that publish, restart | order, no loss, no standstill |
| Trading pipeline (`pipeline.py`) | buffers, latest feeds | candle handler, signal handler | bus, engine | signals executed after later candles | limits hold when the signal is executed |
| Worker daemon (`worker.py`) | as the loop | ingestion job, research job, catalog job | as the loop | jobs sharing the symbols and buffers across awaits | no job aborts another, buffers get their turn |
| Symbol catalog (`core/symbol_manager.py`, `symbol_service.py`, `storage/postgres.py`) | the symbol table | add, deactivate, synchronize | exchanges, database | the synchronizations of two processes against the user | rows are never lost (a deactivated symbol does not stay so) |
| Redis stream bus (`core/redis_bus.py`) | connection, handlers | publish, listen, reconnect | Redis | lost connections, crashes, failing handlers, one group for both processes | no event is handled twice |
| Websocket broadcasts (`server.py` 71-77, 456-477) | list of clients | add, broadcast, remove | clients | removal during a broadcast | no client skipped or removed twice |
| PostgreSQL storage (`storage/postgres.py`) | tables | save, query | database | errors read as empty answers | |
| DuckDB storage (`storage/database.py`) | one connection per path and process | open, insert, query, close | the file, the other process | lock held elsewhere, holders that close what others use | the file is opened once, by one writer |
| Feature store, feature computation, data quality (`storage/feature_store.py`, `features/`, `normalization/`) | feature history | point-in-time lookup, indicators, spike filter | loop, pipeline | a price level that changes for good | no look-ahead |
| Backtest, walk-forward, researcher (`research/`) | simulated account, folds | backtest, split, promote | worker, API | folds shorter than the warm-up | a fold that can trade |
| Multi-agent desk, agent graph (`research/multi_agent.py`, `agent_graph.py`) | workflow state | analysts, debate, officers | API | decisions that are not what they are reported as | |
| Feed providers, language model clients, repository layer, configuration, API reads | | requests and conversions | outside | | |

`PROJECT.json` lists the parts with their status, and the hazards of the code
with the properties that watch them.

## The modules

| module | models | state and actions |
|---|---|---|
| `PaperTrading` | `PaperTradingEngine` | the fields of the engine as variables; `GetPortfolioState`, `FillBuy`, `FillSell`, `DontFill` |
| `RiskGate` (extends `PaperTrading`) | `RiskManager`, `create_order_from_signal` | no state: `SnapshotOf`, `Approved`, `AdjustedSize`, `OrderOf` |
| `Strategies` (extends `RiskGate`) | both live strategies | no state: `Momentum`, `Sentiment` give a set of at most one signal |
| `TradingLoop` (extends `Strategies`) | the loop of the server and what runs beside it | `pc` is the await the loop is at; one action per stretch between awaits |
| `TradeJournal` | what the loop promises about its orders | the log of order stages |
| `IngestionControl` | starting and stopping loops, their tasks and sessions | one record per task; `Start`, `Stop`, `Return`, `Shutdown`, the steps of a task |
| `EventBus` | the in-process bus with publishers and handlers | queue, waiting publishers, handler calls |
| `EventChannel` | what the bus promises | a bounded FIFO channel with one reader |
| `DataQuality`, `FeatureStore` | the candle check, the point-in-time lookup | no state; pure operators |
| `Pipeline` (extends these, `PaperTrading` and up) | `TradingSystemPipeline` | buffers, feature history, the events in the queue; `PublishCandle`, `HandleCandle`, `HandleSignal`, `PlaceWorking` |
| `Backtest` | `BacktestEngine.run`, the counts and the return of `StrategyEvaluator` | the account is that of `PaperTrading`; a bar is `NextBar`, `CheckBracket`, `Value`, `Decide`; behind the last one comes `Report` |
| `AgentDesk` | `MultiAgentTradingDesk`, `TradingWorkflowGraph` | `Perceive`, `Analyze`, `Govern` |
| `Drivers` (extends the three) | | runs one of them; they share code and no state |
| `MarketIndex` | `GlobalMarketDataProvider`: routing, listing, paging | no state; what follows from the exchanges in the index |
| `Research` | `StrategyOptimizer`, `AutonomousResearcher` | no state; fold arithmetic and the records of an experiment |
| `Worker` (extends both) | `BackgroundWorkerDaemon`'s two jobs, `/api/research/run` | `ingest.at` and `research.at` are the awaits the jobs are at |
| `TimeSeriesStore` | `TimeSeriesDatabase` in two processes | `Construct`, `Connected`, `Retry`, `FallBack`, `OpenFails`, `Close` |
| `RedisBus` | `RedisStreamEventBus` in two processes | `BusPublish`, `BusRead`, `BusDispatch`, `BusHandle`, `BusReconnect`, ... |
| `AtMostOnceChannel` | what the stream bus promises | events accepted, open, handled |
| `SymbolCatalog` (extends `MarketIndex`) | the writes of `PostgresStorage` to `symbols`, `sync_symbol_catalog` | transactions: `FetchCatalog`, `UserBegins`, `ReadRow`, `Commit`, `RollBack` |
| `Processes` (extends the three) | start and end of server and worker | `Start`, `Opened`, `BootSync`, `BusUp`, `End` and the steps of the parts |
| `SumLemmas` | | sums over finite sets and sequences, for the proofs |
| `PaperTradingProofs`, `TradingLoopProofs`, `IngestionControlProofs`, `EventBusProofs`, `WorkerProofs`, `ProcessesProofs`, `DriversProofs` | | theorems |
| `MC...` | | instances for TLC |

A definition called a *variant* in its comment is a mutated form of the one
after it. `PROJECT.json` pairs every checked property with a variant that breaks
it: the property is not true whatever the code does.

### Abstractions

* **Money.** Sizes are whole numbers of 0.000001 units, prices are natural
  numbers, rates are fractions, money counts 1/(SlipDen * CommDen) of price
  times size. So slippage, commission and sums are exact where the code has
  floating-point numbers; floating-point error is not modelled. Roundings that
  are: the size the gate computes is rounded to a unit, the snapshot's equity to
  cents and its drawdown to its precision, halves up (Python rounds halves to
  even), and the cost share of a partial close is rounded down, which the code
  does not do. A position keeps its cost, `entry_price * size`.
* **Features.** A feature vector is the outcome of every comparison the
  strategies make and the strengths they compute.
* **asyncio.** An action runs from one await to the next. A cancellation is
  taken at the await where the task is. A database write that is cut short by an
  error or a cancellation may have been committed or not.
* **Order of symbols.** The loop takes the symbols of a cycle in any order.
* **History.** `dropped` (engine), `eager` (control), `sent` and `taken` (bus),
  `fed` (pipeline), `valued` (backtest), `taker`, `calls`, `flawed` (stream),
  `reclosed` (storage) and `failed` (catalog) are not in the code; no guard reads
  them. `struck` in a task's record is one too.
* **Pipeline and stream.** Nothing in `src/` constructs a `TradingSystemPipeline`
  or publishes on the Redis bus yet: what is modelled is what they do when
  somebody does. A handler subscribed under two patterns that match one event is
  two subscriptions, each with a task of its own; `RedisBus` follows one
  subscription. The pipeline's queue is unbounded in `Pipeline`; that it is not
  is the subject of `EventBus`.
* **Two processes.** `shared` says whether server and worker see the same DuckDB
  file (one machine) or each its own (containers). DuckDB lets one process open a
  file for writing and any number for reading. The tables are transactions at the
  isolation level read committed, where a commit is atomic.
* **Lists and buffers of the worker.** A buffer is its length and whether it is
  the list the researcher holds; a trim makes a new list, an append does not.

## The runs

| run | bounds | shows |
|---|---|---|
| `paper_trading` | 2 symbols, 2 prices, sizes 0, 1, 3, 3 fills, any marks | `EngineTypeOK`, `Conservation`, `EntryWithinPaid`, `StepAccounting` |
| `trading_loop` | 1 symbol, prices 0, 2, 3, 5 orders | `LoopTypeOK`, `CashNeverNegative`, `SalesCloseWhole`, `RejectedExitIsSecond`, `BreakerLatches`, `KeepsJournal` |
| `trading_loop_fair` | 2 symbols, 1 price, 4 orders | `PositionCap`, `FirstPurchaseFitsExposure`, `EverySymbolServed`, `CyclesGoOn` |
| `trading_loop_exposure` | 3 symbols, the shipped limits | `PurchaseFitsExposure` is violated |
| `ingestion_control` | 2 clients and the shutdown, 2 loops, 2 exchanges | `TypeOK`, `OnlyKnownLoop`, `LeakExplained`, `StopReturns` |
| `ingestion_two_loops` | 3 loops | `AtMostOneLoop` is violated |
| `ingestion_sessions` | 2 loops | `SessionsReleased` is violated |
| `event_bus` | 2 publishers, 2 handlers, queue of 2, 5 events | `TypeOK`, `QueueIsRest`, `KeepsOrder`, `StuckForGood`, `PublishReturnsOrStuck` |
| `event_bus_stuck` | 1 publisher, queue of 1 | `PublishReturns` is violated |
| `drivers` | 1 symbol, 3 candles, 3 events queued, 4 bars | `DriversTypeOK`, `BufferExplained`, `PointInTime`, `ReportAddsUp`, `DeskDecides`, `FreshSnapshot`, `StaleEntry`, `BacktestIsAccount`, `ExitsInBracket` |
| `processes` | 2 processes, 2 pipelines, 2 attempts to open, 3 stream entries, 2 symbols, 2 exchanges, buffers of 3 | `ProcessesTypeOK`, `LossExplained`, `AtMostOnce`, `DeactivationUndone`; of the worker's jobs `WorkerTypeOK`, `PromotedByServerOnly`, `BuffersResearched` |
| `processes_fallback` | the same | `SecondProcessReads` is violated |

Why the bounds are enough. Three fills are an addition, a partial close and a
final close of one position, or one of these beside another symbol. Five orders
on one symbol are two ticks in which both strategies order and one order more;
the capital of that run is such that at the price of 3 both strategies can enter
and at the price of 2 the second entry is rejected for cash, a weak entry rounds
to size zero, the second such entry raises, and a price of zero trips the
breaker. The bound on orders does not stop the loop: a tick that could exceed it
gets features that no strategy acts on.
Two callers are enough for a start during a stop and for two stops of one task,
two exchanges for one that fails and one that does not. A queue of two with two
publishers and a handler that publishes fills up, blocks all three, and drains;
a fifth event is what it takes for a publisher to wait beside the stuck worker.

Three candles are one out of order or at the same time between two others, and
with three queued events a signal waits behind a candle and another signal. Four
bars are an entry, a bar inside the bracket, an exit and a bar after it; the
report is made behind each of them, so the last fill may be decided on the last
bar, on an earlier one, or come from a bracket. The
numbers of the worker are scaled: a buffer of 3, folds of a half and a warm-up of
1 leave its test exactly the warm-up, as 300, thirds and 30 do, and one exchange
returns pages too short for a test. Two attempts to open are the first and the
last one. A second pipeline is what it takes to close an instance twice with
another one open. Reads of two from three entries leave a rest of a batch to
lose. In `processes` a behaviour looks at the file, the stream, the table or
the jobs of a running worker (`focus`), for what a process does with one does not
touch the others; starts and ends of the processes happen in the first three.

Deadlock is checked in all runs but those of the control, which stop at their
bound on loops and after the shutdown, where the system has ended, and `drivers`,
where a backtest and a request end and the bounds on candles stop the pipeline.

### Fairness

* Loop: weak fairness of its steps as a whole. It is one task in an event loop,
  and each await comes back with a result or an error (the clients have
  timeouts). Starting, cancelling and querying it is nobody's duty.
* Control: weak fairness of each task and of each stop that awaits one.
* Bus: weak fairness of the worker, of each publisher that waits and of each
  handler. asyncio lets a newcomer take the room a waiting publisher was woken
  for, so with publishers that never pause a waiting one could starve; the run
  bounds the events, and its liveness property is about finitely many.

* Worker: weak fairness of each job, for the reason of the loop's.
* Processes: weak fairness of each synchronization job. Nobody has to start a
  process, and a process may end at any time.

### What the violations show

1. `trading_loop_exposure`: both strategies of a tick are checked against one
   snapshot (`server.py:119`), so the second purchase ignores the first and the
   account exceeds `max_portfolio_exposure_pct`. `FirstPurchaseFitsExposure`
   and `PositionCap` say what still holds.
2. `ingestion_two_loops`: `stop_ingestion` clears `_ingestion_task` after its
   await, whatever it holds by then (`server.py:211`). `OnlyKnownLoop` says when
   there is one loop.
3. `ingestion_sessions`: a stopped loop leaves sessions open (`server.py:202`
   promises their release). `LeakExplained` says which.
4. `event_bus_stuck`: a full queue blocks instead of dropping, as the warning in
   `publish` has it (`bus.py:41`), and a handler that publishes can block the
   worker for good. `StuckForGood` and `PublishReturnsOrStuck` say that this is
   the only way.
5. `processes_fallback`: the storage promises that a second process opens the
   file read-only (`database.py:3-4`, `:11`) and logs that it does (`:121-123`).
   Both processes open it for writing, and while one has it so the other is
   refused in either mode: its last read-only attempt fails too (`:133`), and with
   it the start of the process.

## The proofs

All theorems hold for every value of the constants that satisfies the named
assumptions (`EngineAssumption`, `GateAssumption`, `StrategyAssumption`,
`LoopAssumption`, `ControlAssumption`, `BusAssumption` of either bus,
`MarketAssumption`, `ResearchAssumption`, `WorkerAssumption`, `ScaleAssumption`,
`StoreAssumption`, `CatalogAssumption`, `ProcessAssumption`, `JumpAssumption`,
`PipelineAssumption`, `BacktestAssumption`, `DeskAssumption`). Most give ranges.
`PipelineAssumption` and `BacktestAssumption` also say that a close is a price,
that somebody trades a symbol and that a target is above the entry;
`DeskAssumption` that the account the desk is asked about has cash, without which
its gate allows no purchase. `ScaleAssumption` says that what a full buffer and
one candle leave the test of a fold is within the warm-up, as 30 % of a third of
300 are with 30 bars of warm-up. It says so of the constants; `NoTestOfBuffer` derives it for
`TestLen` and every shorter list.

* **`SumLemmas`.** The models sum over symbols and over fills with
  `SumFunction` of the community modules, a fold over a finite set. Induction
  over that set is done through a least counterexample: `MinimalSubset` gives,
  among the subsets of a finite set that are an exception to a fact, a smallest
  one, and the fact is then derived for it. `SumUpdate`, `SumExtend` and
  `SumZero` are what the other modules use.
* **`PaperTradingProofs`.** `EngineTypeOK` is inductive. The clause about a
  position of size zero is needed in it: without it the cost share of a sale
  could divide by zero. `StepAccounting` follows for each step from
  `EngineTypeOK`: `BuyBooks`, `SellBooks` and `MarkBooks` show that what leaves
  cash enters the cost of one position, the commission or the dropped cost.
  `Conservation` sums this over symbols (`InvestedMoves`) and fills
  (`FeesGrow`). `EntryWithinPaid` is not inductive: a symbol whose position was
  closed is bought again, so `EntryInv` carries the lowest and the highest price
  also for symbols without a position. `RestOfCost` is the arithmetic of a
  partial close: the cost that is left is within the same prices and one unit
  more.
* **`TradingLoopProofs`.** `LoopTypeOK` is inductive. The other theorems rest on
  `LoopInv`, which adds two facts about a tick in progress. `Follows` relates the
  account to the snapshot the strategies of the tick share: the position of the
  symbol is the same (`Untouched`), has been opened since (`Entered`) or has been
  closed since by the last order (`Left`), and the other symbols are the same.
  The loop awaits between two strategies, and this is what the other tasks do
  not disturb. `EmptyAgrees` says that without positions the snapshot has the
  drawdown of the account. From `LoopInv`:
  * `SalesCloseWhole`, `RejectedExitIsSecond` from `Follows`; with
    `SalesCloseWhole`, cash never falls below zero, because a sale of all that is
    held earns at least its commission (`LoopAssumption`: the rate is at most
    one);
  * `BreakerLatches` from `EmptyAgrees`: a drawdown at the limit means that the
    peak is above the cash, so no later mark moves it;
  * `FirstPurchaseFitsExposure` from the arithmetic of the gate (`SizeWithin`,
    `SizeFits`: the size that is computed is worth at most the allocation and
    half a unit of size);
  * `PositionCap` from `CapInv`: while the strategies of a tick decide, a
    position opened in it stands for at most one purchase of each of those that
    have decided (`Allowance`), and the equity in the snapshot is below the peak
    but for the rounding to cents;
  * `KeepsJournal`, the refinement of `TradeJournal`, from `OneInFlight`: the
    order being saved or announced is the last one and not yet saved or
    announced. Every step adds an order, moves the order in flight, or changes
    no stage;
  * `Conservation`, carried over from the account.
* **`IngestionControlProofs`.** `Inv` strengthens the type invariant with
  `SessionsOK`, what the open sessions of a task are at every stage (while the
  index is built they are those known, failing and pending), `WaitersOK` (as long
  as no start came during a stop, all live tasks are the one in the slot, and a
  stop waits for it unless the slot is empty) and `ShutdownOK`. `TypeOK`,
  `OnlyKnownLoop` and `LeakExplained` follow from it.
* **`EventBusProofs`.** `TypeOK` and `QueueIsRest` are inductive together.
  `StuckStep` shows that no step frees a worker that waits in a handler for room
  in the full queue, except a stop. `StepRefines` maps every step to one of
  `EventChannel` or a stutter.
* **`WorkerProofs`.** `WorkerInv` adds to the type invariant that no record of
  the research job is promoted. That holds when it evaluates (`EvaluateStep`,
  from `NoTestOfBuffer`) and has to be carried over its saves. For the server's
  requests `RouteIs` shows that a symbol with candidates has a best one (`Better`
  is total and transitive, and the exchanges are finite), and `TestGrows` that
  the test of a fold never gets shorter with more candles, in spite of two floor
  divisions and a rounding that may lose one: so if any page up to an exchange's
  cap can be promoted, a full page can.
* **`ProcessesProofs`.** `ProcessesInv` says what the parts look like in a
  process that is down, opening or up. `BusInv` puts every entry of the stream in
  one place: not given out, in the batch or among the tasks of the process that
  took it, handled once, or lost by that process with the pair of both among the
  `flawed`; batches and tasks
  are in the order given (`GivenInOrder`). `LossExplained` follows, and
  `AtMostOnce`, the refinement of `AtMostOnceChannel`, step by step: a start of a
  handler handles an open event, a read opens none, and what is cut off is
  dropped. `FullInv` adds the storage and the transactions for
  `ProcessesTypeOK`. `StoreInv` relates a process' registry, the instances it has
  made, their connections and its attempt in progress: the file is open more
  than once only behind a second `close`, and read-only and writing connections
  of two processes exclude each other. Each operation of the storage keeps it.
* **`DriversProofs`.** `DriversInv` is the type invariant made inductive, one part
  for each driver; a driver that does not run has nothing to do.
  * `PipelineOK` says what can wait on the bus and what `working` can be: a
    signal is for a symbol that has a buffer, an entry as old as the last fill is
    for a symbol that is not held, and the order at work was made from the
    snapshot of now (`Fresh`). Between `HandleSignal` and `PlaceWorking` no other
    step touches the account, which is what the await in `_handle_signal` comes
    to on a bus that hands over one event at a time. `FreshSnapshot` and
    `StaleEntry` follow: the arithmetic is that of the gate (`SizeWithin`,
    `SizeFits`), the rest is that a purchase cannot have been decided on an
    account that has changed.
  * `BacktestOK` gives the ranges of bars, bracket and curve, and that the
    curve lags the bars by the warm-up until a bar is valued.
    `ExitsInBracket` needs `BracketInv` beside it: the stop is not above the
    target, which is shown through the rounding of both, and once the bracket has
    been checked the close of a bar with an open position is inside it.
  * `ReportAddsUp` rests on `ReportInv`: the cash is what is left of the capital
    and the pnl when the open position and the commissions of purchases are paid
    (`CashAddsUp`, which is the conservation of money in a backtest, too), trades
    and sales are as many, and the curve ends with the equity but for what a fill
    behind its last point costs (`CurveAddsUp`). That is nothing after a
    valuation, the commission of a purchase (`BuyValued`), and for a sale by the
    strategy the commission and the slippage from the close at which the position
    was marked (`SellValued`); the next valuation puts it on the curve, and the
    report comes without one.
  * `BacktestIsAccount` is shown step by step: under the mapping, which adds the
    commissions of sales to `realized`, a sale of the backtest is `FillSell`, a
    purchase `FillBuy`, a valuation `GetPortfolioState`. Its hypothesis
    `AnyOrder` makes every number a price and a size of an order: `Prices` and
    `OrderSizes` bound what the engine is asked for in runs, and the size and the
    bracket price of a backtest are computed. The run gives the engine enough of
    both.
  * `BufferExplained` and `PointInTime` rest on `FedInv`, which holds for candles
    in any order. `VectorsOK`: the store is in order of time (`PutFeaturesKeeps`;
    that sorting puts each item where its rank says is `Ranks`), every vector has
    the time of a candle and has seen nothing that came after that candle, every
    stored candle has a vector, and as long as the candle store is connected every
    vector has its candle there (`VectorComes`, `VectorsGrow`). The newest vector
    up to a time is then the one `PointInTime` wants (`VectorsAsOf`). `CleanOK`:
    as long as no candle came late and no time was accepted twice, the buffer is
    the end of the cleaned candles, and each of these has a vector, so that a
    candle at the time of the last one, which the cleaning drops, would be a
    repeat in the store (`CleanedKeeps`). The spike check needs only the last
    accepted candle, and the end of a sequence keeps its last one (`SameVerdict`,
    `LastNAgain`); sorting what is in order changes nothing (`ByTimeInOrder`).
    `CleanSequence` is a fold over the indices of the candles. That it is defined,
    and that it takes the last candle last (`CleaningExists`, `CleanedUnfold`), is
    shown on a smallest set of indices that would be an exception, as for the
    sums, so that one candle more is one `CleanStep` more (`CleanNext`).
  * `DeskDecides` from `DeskInv`, which says what the status means at every node,
    and `MockApproved`: the gate rejects nothing for an account with cash that
    never traded.

## Only model-checked

* All liveness: `EverySymbolServed`, `CyclesGoOn`, `StopReturns`,
  `PublishReturnsOrStuck`, `BuffersResearched`, `DeactivationUndone`. The prover
  has no rule for fairness and ENABLED.

What holds once such a wait has begun is proved where it is a safety property:
`StuckForGood` for `PublishReturnsOrStuck`, `OnlyKnownLoop` for the stops.
Every invariant and every action property that a passing run checks has a
theorem.

## Further disagreements of code and comments

These were met while modelling and are in the models; no run is devoted to them.

* `fetch_available_symbols` is documented to return ranked symbols; it takes the
  first of the index, in the order of the exchanges and their markets
  (`global_provider.py:230`, `Discovered`). `quote_bonus` never decides, for the
  candidates of one symbol have one quote.
* The read-only fallback of the storage, when it is taken after the writer has
  gone, is for good: the warning that writes are skipped until the process owns
  the lock (`database.py:123`) describes no code that would try again
  (`FallBack`).
* The cleaner drops what repeats a time (`cleaner.py:64`), the pipeline accepts it
  (`pipeline.py:74-81`) and stores a second vector of that time; only
  `clean_candle_sequence` sorts, and the pipeline never calls it
  (`BufferExplained`).
* A backtest's report counts the trade of a fill decided on the last bar, and its
  return does not have what that fill cost (`backtest.py:193`, `LateCost`).
* A second `close()` removes whatever instance is in the registry by then
  (`database.py:291`, `Close`).
* The synchronization makes a deactivated symbol active again
  (`postgres.py:274`, `DeactivationUndone`).
* The worker's first synchronization has no handler (`worker.py:171`,
  `BootSync`), and `sync_symbol_catalog` never closes its provider
  (`symbol_service.py:27`).

## Not modelled

* The list of websocket clients. Its loop and its removals are between awaits of
  the trading loop; what reaches the loop is an error, which is modelled.
* Indicator arithmetic, regimes and sentiment (`features/`), whose outcome
  `Strategies` takes as input; feed providers and normalization, which are HTTP
  and conversions without state.
* `core/symbol_manager.py`, `ingestion/market/ccxt_provider.py`, the trade stream
  and `database/repository.py`: nothing in the server, the worker or the pipeline
  calls them.
* The rows of candles and their queries in DuckDB, and the queries of PostgreSQL
  that only read.
* Configuration, logging, and the requests that only read.

## Plan

All modules that were planned are there, except the list of websocket clients,
and every safety property of a run is proved. What can still be proved is about
operators, for candles in any order: that `ByTime` sorts, that the cleaned candles
are in order and hold no spike, and that cleaning them again changes nothing.
