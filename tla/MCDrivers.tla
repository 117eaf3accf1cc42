----------------------------- MODULE MCDrivers -----------------------------
(***************************************************************************)
(* The three drivers on one symbol.  The candles come in and out of order, *)
(* twice at one time, unsound, at zero, and with jumps in both directions. *)
(***************************************************************************)
EXTENDS Drivers, TLC

CONSTANTS MaxFed, MaxQueue, MaxBars  \* bounds: candles, events queued, bars

Vector(trend, rsi, mood, spread, heat) ==
  [trend |-> trend, rsi |-> rsi, rising |-> TRUE, mood |-> mood, buzzing |-> TRUE,
   macro |-> "on", spread |-> spread, heat |-> heat]

Moods == {Vector("up", "below", "bull", 10, 12), Vector("down", "at", "bear", 0, 0),
          Vector("level", "at", "mixed", 0, 0), Vector("up", "above", "bull", 0, 12)}

At(time, close) == [time |-> time, close |-> close, sound |-> TRUE]

Feed == {At(1, 12), At(2, 12), At(2, 15), At(3, 2), At(3, 12), At(1, 0),
         [time |-> 2, close |-> 12, sound |-> FALSE]}

Sizes   == 0 .. 28

\* The closes and what bracket prices can be made of them.
AccountPrices == 0 .. 23

Stops   == <<90, 85>>
Targets == <<110, 120>>

CandleCount == SumFunction([s \in Symbols |-> Len(fed[s])])
                + Cardinality({i \in DOMAIN queue : queue[i].kind = "candle"})

MCNext ==
  /\ DriversNext
  /\ Len(queue') <= MaxQueue
  /\ CandleCount' <= MaxFed
  /\ Len(bars') <= MaxBars

MCSpec == DriversInit /\ [][MCNext]_driverVars
=============================================================================
