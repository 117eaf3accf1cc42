----------------------------- MODULE Strategies -----------------------------
(***************************************************************************)
(* The two live strategies: MomentumTrendStrategy and                      *)
(* SentimentMomentumStrategy.  A feature vector is abstracted to the       *)
(* outcome of every comparison the strategies make of it:                  *)
(*   trend        sign of ema_12 - ema_26: "up", "down" or "level"         *)
(*   rsi          rsi_14 against rsi_overbought: "below", "at", "above"    *)
(*   rising       macd_hist > 0                                            *)
(*   mood         composite_sentiment: "bull" from min_sentiment up, "bear"*)
(*                below -0.20, else "mixed"                                *)
(*   buzzing      social_velocity >= 0                                     *)
(*   macro        "on", "off", or "unknown" when there is no rate data     *)
(* A loaded symbol is one of the strategies' symbols, so that check is left *)
(* out.                                                                    *)
(*   spread, heat the strengths computed from the trend and from sentiment *)
(*                and velocity, before they are clamped                    *)
(***************************************************************************)
EXTENDS RiskGate

CONSTANTS
  Features,         \* the feature vectors that can be computed
  MomentumPct, SentimentPct,            \* suggested_size_pct, of PctDen
  MomentumFloor, SentimentFloor         \* least strengths, of StrengthDen

FeatureVector ==
  [trend : {"up", "down", "level"}, rsi : {"below", "at", "above"}, rising : BOOLEAN,
   mood : {"bull", "mixed", "bear"}, buzzing : BOOLEAN, macro : {"on", "off", "unknown"},
   spread : Nat, heat : Nat]

ASSUME StrategyAssumption ==
  /\ Features \subseteq FeatureVector
  /\ MomentumPct \in 0 .. PctDen /\ SentimentPct \in 0 .. PctDen
  /\ MomentumFloor \in 0 .. StrengthDen /\ SentimentFloor \in 0 .. StrengthDen

Clamp(floor, x) == Min({StrengthDen, Max({floor, x})})

Flat(s) == {[symbol |-> s, kind |-> "FLAT", pct |-> 0, strength |-> StrengthDen]}

Long(s, pct, strength) ==
  {[symbol |-> s, kind |-> "LONG", pct |-> pct, strength |-> strength]}

-----------------------------------------------------------------------------
MomentumLong(f) == f.trend = "up" /\ f.rsi = "below" /\ f.rising

\* Variant: the strategy buys on top of a position it already has.
MomentumPyramids(s, f, snap) ==
  IF MomentumLong(f) THEN Long(s, MomentumPct, Clamp(MomentumFloor, f.spread))
  ELSE IF (f.trend = "down" \/ f.rsi = "above") /\ s \in DOMAIN snap.positions
       THEN Flat(s) ELSE {}

\* MomentumTrendStrategy.generate_signals: at most one signal.
Momentum(s, f, snap) ==
  LET open == s \in DOMAIN snap.positions
  IN  IF MomentumLong(f)
      THEN IF open THEN {} ELSE Long(s, MomentumPct, Clamp(MomentumFloor, f.spread))
      ELSE IF (f.trend = "down" \/ f.rsi = "above") /\ open THEN Flat(s) ELSE {}

SentimentLong(f) == f.trend = "up" /\ f.mood = "bull" /\ f.buzzing

\* SentimentMomentumStrategy.generate_signals.  The macro gate silences its
\* exits as well as its entries.
Sentiment(s, f, snap) ==
  LET open == s \in DOMAIN snap.positions
  IN  IF f.macro = "off" THEN {}
      ELSE IF SentimentLong(f)
      THEN IF open THEN {} ELSE Long(s, SentimentPct, Clamp(SentimentFloor, f.heat))
      ELSE IF (f.mood = "bear" \/ f.trend = "down") /\ open THEN Flat(s) ELSE {}

\* active_strategies, in the order the loop runs them.
NumStrategies == 2

Signals(turn, s, f, snap) ==
  IF turn = 1 THEN Momentum(s, f, snap) ELSE Sentiment(s, f, snap)
=============================================================================
