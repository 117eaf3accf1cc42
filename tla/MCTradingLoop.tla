--------------------------- MODULE MCTradingLoop ---------------------------
(***************************************************************************)
(* The trading loop with few orders.  The feature vectors make the         *)
(* strategies enter together strongly or weakly, leave together, leave     *)
(* alone or stay quiet.                                                    *)
(***************************************************************************)
EXTENDS TradingLoop, TLC

CONSTANTS MaxOrders  \* bound on the orders; a tick creates at most NumStrategies

Vector(trend, rsi, mood, macro, spread, heat) ==
  [trend |-> trend, rsi |-> rsi, rising |-> TRUE, mood |-> mood, buzzing |-> TRUE,
   macro |-> macro, spread |-> spread, heat |-> heat]

BothEnter      == Vector("up", "below", "bull", "unknown", 10, 12)
EnterWeakly    == Vector("up", "below", "bull", "on", 0, 0)
BothLeave      == Vector("down", "at", "bear", "on", 0, 0)
MomentumLeaves == Vector("level", "above", "mixed", "off", 0, 0)
Quiet          == Vector("level", "at", "mixed", "on", 0, 0)

Lively == {BothEnter, EnterWeakly, BothLeave, MomentumLeaves, Quiet}
Strong == {BothEnter, BothLeave, Quiet}
Entries == {BothEnter, Quiet}

\* The bound does not stop the loop: a tick that could exceed it is quiet.
MCNext ==
  /\ Next
  /\ pc = "price" /\ pc' = "decide" /\ Len(orders) + NumStrategies > MaxOrders
       => tick'.features = Quiet

MCSpec == Init /\ [][MCNext]_vars

MCFairSpec == MCSpec /\ WF_vars(LoopStep /\ MCNext)

Symmetry == Permutations(Symbols)
=============================================================================
