----------------------------- MODULE MCEventBus -----------------------------
(***************************************************************************)
(* The event bus with the two subscriptions of the trading pipeline: a     *)
(* handler of candles that publishes signals, and a handler of signals.    *)
(***************************************************************************)
EXTENDS EventBus, TLC

CONSTANTS
  candle, signal, onCandle, onSignal,
  MaxEvents  \* bound on the events published

Heard == (onCandle :> {candle}) @@ (onSignal :> {signal})

Emitted == (onCandle :> {signal}) @@ (onSignal :> {})

\* The events put and those that wait to be put.
Published ==
  Len(sent) + Cardinality({p \in Publishers : wants[p] \in Topics})
            + Cardinality({c \in calls : c.wants # Nothing})

MCNext == Next /\ (Publishing => Published < MaxEvents)

MCSpec == Init /\ [][MCNext]_vars

MCFairSpec == MCSpec /\ Fairness

Symmetry == Permutations(Publishers)
=============================================================================
