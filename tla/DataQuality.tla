---------------------------- MODULE DataQuality ----------------------------
(***************************************************************************)
(* DataQualityAssurance: what a candle has to pass before it is used.  The *)
(* checks of one candle against itself (high, low, open, close, volume)    *)
(* are abstracted to their common outcome, sound; the check against the    *)
(* candle before it is modelled.                                           *)
(***************************************************************************)
EXTENDS Integers, Sequences, SequencesExt

CONSTANTS
  MaxJump, JumpDen  \* max_price_jump_pct = MaxJump / JumpDen

ASSUME JumpAssumption == MaxJump \in Nat /\ JumpDen \in Nat \ {0}

Candle == [time : Nat, close : Nat, sound : BOOLEAN]

Gap(x, y) == IF x > y THEN x - y ELSE y - x

\* A jump from a price of zero cannot be measured and passes.
Spike(candle, before) ==
  before.close > 0 /\ Gap(candle.close, before.close) * JumpDen > MaxJump * before.close

\* Variant: a candle is compared with no other.
ValidAlone(candle, accepted) == candle.sound

\* validate_candle; previous_candle is the last candle that was accepted.
ValidCandle(candle, accepted) ==
  candle.sound /\ (accepted # << >> => ~Spike(candle, Last(accepted)))

-----------------------------------------------------------------------------
\* The items in order of time; those of one time keep their order, as in a
\* stable sort: the k-th item is the one with k - 1 items before it.
ByTime(items) ==
  LET Earlier(i) ==
        {j \in DOMAIN items : \/ items[j].time < items[i].time
                              \/ items[j].time = items[i].time /\ j < i}
  IN  [k \in DOMAIN items |->
         items[CHOOSE i \in DOMAIN items : Cardinality(Earlier(i)) = k - 1]]

\* One turn of clean_candle_sequence: a time is taken once it has an accepted
\* candle.
CleanStep(cleaned, candle) ==
  IF \/ \E c \in Range(cleaned) : c.time = candle.time
     \/ ~ValidCandle(candle, cleaned)
  THEN cleaned ELSE Append(cleaned, candle)

CleanSequence(candles) == FoldLeft(CleanStep, << >>, ByTime(candles))
=============================================================================
