------------------------- MODULE AtMostOnceChannel -------------------------
(***************************************************************************)
(* What the stream bus promises: every event it accepted is handled once,  *)
(* or lost, and a lost one does not come back.                             *)
(***************************************************************************)
EXTENDS Integers

CONSTANT Ids  \* the events, in the order they are accepted

VARIABLES
  sent,   \* how many were accepted
  open,   \* those that may still be handled
  calls   \* how often each was handled

onceVars == <<sent, open, calls>>

OnceInit == sent = 0 /\ open = {} /\ calls = [m \in Ids |-> 0]

Send ==
  /\ sent + 1 \in Ids
  /\ sent' = sent + 1 /\ open' = open \cup {sent + 1}
  /\ UNCHANGED calls

Handle ==
  /\ \E m \in open :
       /\ open' = open \ {m}
       /\ calls' = [calls EXCEPT ![m] = @ + 1]
  /\ UNCHANGED sent

Lose == open' \in SUBSET open /\ UNCHANGED <<sent, calls>>

OnceNext == Send \/ Handle \/ Lose

OnceSpec == OnceInit /\ [][OnceNext]_onceVars
=============================================================================
