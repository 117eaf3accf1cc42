--------------------------- MODULE MCPaperTrading ---------------------------
(***************************************************************************)
(* The engine on two symbols with few fills: orders of every size from     *)
(* zero to more than is held, at two prices, and a capital that three or   *)
(* four purchases exhaust.                                                 *)
(***************************************************************************)
EXTENDS PaperTrading, TLC

CONSTANTS MaxFills  \* bound on the number of filled orders

MCNext == EngineNext /\ Len(filled') <= MaxFills

MCSpec == EngineInit /\ [][MCNext]_engineVars

Symmetry == Permutations(Symbols)
=============================================================================
