------------------------------ MODULE Research ------------------------------
(***************************************************************************)
(* The arithmetic of an experiment (StrategyOptimizer and                  *)
(* AutonomousResearcher): how many candles reach the test of a fold, and   *)
(* what can come of it.  A backtest trades only behind its warm-up         *)
(* (Backtest); with no bar it reports zeros, which are not promoted.       *)
(***************************************************************************)
EXTENDS Integers

CONSTANTS
  Splits,      \* n_splits (3)
  MinFold,     \* a shorter fold is skipped (50)
  TrainPct,    \* train_ratio, in % (70)
  Inexact,     \* the fold sizes whose product with train_ratio, in floating
               \* point, falls just below a whole number
  WarmupBars,  \* candles a backtest needs before its first bar (30)
  ReplySizes   \* the numbers of hypotheses a reply of the model can hold

ASSUME ResearchAssumption ==
  /\ Splits \in Nat \ {0} /\ MinFold \in Nat \ {0}
  /\ TrainPct \in 0 .. 99 /\ WarmupBars \in Nat
  /\ Inexact \subseteq Nat /\ \A fold \in Inexact : (fold * TrainPct) % 100 = 0
  /\ ReplySizes \subseteq Nat

\* generate_hypotheses: what the reply holds, or the two of the fallback when it
\* is no JSON.  A reply of another shape raises in the researcher.
Hypotheses == ReplySizes \cup {2}

FoldSize(n) == n \div Splits

\* A product just below a whole number loses one to the int().
TrainLen(fold) == (fold * TrainPct) \div 100 - (IF fold \in Inexact THEN 1 ELSE 0)

\* Variant: the test runs on the whole fold.
TestLenWhole(n) == FoldSize(n)

TestLen(n) == FoldSize(n) - TrainLen(FoldSize(n))

Skipped(n) == FoldSize(n) < MinFold

\* The records of an experiment on n candles: one for every hypothesis, with its
\* promoted flag, unless the folds are skipped.
Records(n, hypotheses) ==
  IF Skipped(n) THEN {<< >>}
  ELSE [1 .. hypotheses -> IF TestLen(n) > WarmupBars THEN BOOLEAN ELSE {FALSE}]
=============================================================================
