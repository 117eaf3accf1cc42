------------------------------ MODULE Pipeline ------------------------------
(***************************************************************************)
(* TradingSystemPipeline: the handlers of candles and of signals on the    *)
(* in-process bus, trading on the account of PaperTrading.                 *)
(*                                                                         *)
(* The bus hands over one event after the other (EventBus models it and    *)
(* what happens when its queue is full).  A handler does not let another   *)
(* one in, but a signal is an event of its own: it is handled behind the   *)
(* candles that were published before it.  An order is registered and at   *)
(* once executed, so the register is not kept.                             *)
(***************************************************************************)
EXTENDS Strategies, FeatureStore

CONSTANTS
  Candles,    \* the candles that can be published
  BufferCap   \* candles a symbol's buffer keeps (500)

ASSUME PipelineAssumption ==
  /\ Candles \subseteq Candle /\ \A c \in Candles : c.close \in Prices
  /\ BufferCap \in Nat \ {0}

VARIABLES
  running,    \* the bus dispatches
  connected,  \* the candle store has its connection
  queue,      \* the events published and not yet handled
  buffers,    \* _candle_buffers
  fed,        \* history: the candles handled, accepted or not
  store,      \* feature_store: the vectors of every symbol
  lake,       \* the times of every symbol that have a row in the candle store
  working     \* the order a signal led to, before it is executed; empty or one

pipelineVars == <<running, connected, queue, buffers, fed, store, lake, working>>

-----------------------------------------------------------------------------
CandleEvent(s, candle) == [kind |-> "candle", symbol |-> s, candle |-> candle]

\* born is history: the number of fills when the signal was published.
SignalEvent(signal) == [kind |-> "signal", signal |-> signal, born |-> Len(filled)]

Known(bufs) ==
  [s \in {r \in Symbols : bufs[r] # << >>} |-> Last(bufs[s]).close]

\* Variant: the buffer grows.
LastNAll(seq, n) == seq

\* seq[-n:]
LastN(seq, n) == IF Len(seq) <= n THEN seq ELSE SubSeq(seq, Len(seq) - n + 1, Len(seq))

\* Variant: a candle is compared with the one handled before it.
AcceptsAfterFed(s, candle) == ValidCandle(candle, fed[s])

Accepts(s, candle) == ValidCandle(candle, buffers[s])

\* The vector carries the time of the candle that came last.
VectorOf(buffer) ==
  [time |-> Last(buffer).time, seen |-> Max({buffer[i].time : i \in DOMAIN buffer})]

\* Variant: the strategies see an account without positions.
PublishedBlind(s, f, close, snap) ==
  SetToSeq(Momentum(s, f, [snap EXCEPT !.positions = << >>]))

\* The strategies run on one snapshot, in turn.  The strength of a momentum
\* entry divides by the close, and that error ends the handler.
Published(s, f, close, snap) ==
  IF close = 0 /\ MomentumLong(f) /\ s \notin DOMAIN snap.positions THEN << >>
  ELSE SetToSeq(Momentum(s, f, snap)) \o SetToSeq(Sentiment(s, f, snap))

-----------------------------------------------------------------------------
\* Somebody publishes a candle, in whatever order of time.
PublishCandle ==
  /\ working = << >>
  /\ \E s \in Symbols, candle \in Candles :
       queue' = Append(queue, CandleEvent(s, candle))
  /\ UNCHANGED <<engineVars, running, connected, buffers, fed, store, lake, working>>

NextIs(kind) == running /\ working = << >> /\ queue # << >> /\ Head(queue).kind = kind

\* _handle_market_candle of an invalid candle.
DropCandle ==
  /\ NextIs("candle")
  /\ LET s == Head(queue).symbol  candle == Head(queue).candle
     IN  /\ ~Accepts(s, candle)
         /\ fed' = [fed EXCEPT ![s] = Append(@, candle)]
  /\ queue' = Tail(queue)
  /\ UNCHANGED <<engineVars, running, connected, buffers, store, lake, working>>

\* _handle_market_candle of a valid one.  Without a connection nothing is
\* stored, and nothing says so.
HandleCandle ==
  /\ NextIs("candle")
  /\ LET s    == Head(queue).symbol
         candle == Head(queue).candle
         bufs == [buffers EXCEPT ![s] = LastN(Append(@, candle), BufferCap)]
         snap == SnapshotOf(Known(bufs))
     IN  /\ Accepts(s, candle)
         /\ fed' = [fed EXCEPT ![s] = Append(@, candle)]
         /\ buffers' = bufs
         /\ lake' = IF connected THEN [lake EXCEPT ![s] = @ \cup {candle.time}] ELSE lake
         /\ store' = [store EXCEPT ![s] = PutFeatures(@, VectorOf(bufs[s]))]
         /\ GetPortfolioState(Known(bufs))
         /\ \E f \in Features :
              LET signals == Published(s, f, candle.close, snap)
              IN  queue' = Tail(queue) \o [i \in DOMAIN signals |-> SignalEvent(signals[i])]
  /\ UNCHANGED <<running, connected, working>>

\* _handle_signal, up to the approved order.  The price is the last close.
HandleSignal ==
  /\ NextIs("signal")
  /\ LET signal == Head(queue).signal
         known  == Known(buffers)
         price  == Last(buffers[signal.symbol]).close
         snap   == SnapshotOf(known)
     IN  IF price = 0
         THEN UNCHANGED <<engineVars, working>>
         ELSE /\ GetPortfolioState(known)
              /\ working' = IF Approved(signal, snap, price)
                            THEN <<[order |-> OrderOf(signal, snap, price),
                                    price |-> price, born |-> Head(queue).born]>>
                            ELSE << >>
  /\ queue' = Tail(queue)
  /\ UNCHANGED <<running, connected, buffers, fed, store, lake>>

\* The rest of _handle_signal.
PlaceWorking ==
  /\ working # << >>
  /\ ExecuteOrder(Head(working).order, Head(working).price)
  /\ working' = << >>
  /\ UNCHANGED <<running, connected, queue, buffers, fed, store, lake>>

\* start; a handler that is subscribed again is not subscribed twice.
StartPipeline ==
  /\ ~running
  /\ running' = TRUE
  /\ UNCHANGED <<engineVars, connected, queue, buffers, fed, store, lake, working>>

\* stop closes the candle store, also when nothing runs; start does not open it
\* again.
StopPipeline ==
  /\ working = << >>
  /\ running' = FALSE
  /\ connected' = FALSE
  /\ UNCHANGED <<engineVars, queue, buffers, fed, store, lake, working>>

PipelineInit ==
  /\ running = FALSE /\ connected = TRUE
  /\ queue = << >> /\ working = << >>
  /\ buffers = [s \in Symbols |-> << >>]
  /\ fed = [s \in Symbols |-> << >>]
  /\ store = [s \in Symbols |-> << >>]
  /\ lake = [s \in Symbols |-> {}]

PipelineNext ==
  \/ PublishCandle \/ DropCandle \/ HandleCandle
  \/ HandleSignal \/ PlaceWorking \/ StartPipeline \/ StopPipeline
=============================================================================
