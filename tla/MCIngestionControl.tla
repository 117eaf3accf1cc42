------------------------- MODULE MCIngestionControl -------------------------
(***************************************************************************)
(* Starting and stopping with few loops.                                   *)
(***************************************************************************)
EXTENDS IngestionControl, TLC

CONSTANTS MaxTasks  \* bound on the loops started

MCNext == Next /\ Len(tasks') <= MaxTasks

MCSpec == Init /\ [][MCNext]_vars

MCFairSpec ==
  /\ MCSpec
  /\ \A c \in Callers : WF_vars(Return(c))
  /\ \A t \in 1 .. MaxTasks : WF_vars(t \in DOMAIN tasks /\ TaskStep(t))

Symmetry == Permutations(Clients) \cup Permutations(Exchanges)
=============================================================================
