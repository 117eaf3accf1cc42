---------------------------- MODULE EventChannel ----------------------------
(***************************************************************************)
(* What the event bus promises: a bounded first-in first-out channel with  *)
(* one reader.  Every event that was accepted is taken at most once, in the *)
(* order of acceptance, and the next one only when the handlers of the     *)
(* previous one are through or were cancelled.                             *)
(***************************************************************************)
EXTENDS Integers, Sequences

CONSTANTS Topics, Capacity

VARIABLES
  sent,   \* the events accepted, in order
  taken,  \* how many of them were taken
  busy    \* the last one taken is being handled

channelVars == <<sent, taken, busy>>

ChannelInit == sent = << >> /\ taken = 0 /\ busy = FALSE

Accept ==
  /\ Len(sent) - taken < Capacity
  /\ \E topic \in Topics : sent' = Append(sent, topic)
  /\ UNCHANGED <<taken, busy>>

Take ==
  /\ ~busy /\ taken < Len(sent)
  /\ taken' = taken + 1
  /\ busy' \in BOOLEAN
  /\ UNCHANGED sent

Release == busy /\ busy' = FALSE /\ UNCHANGED <<sent, taken>>

ChannelNext == Accept \/ Take \/ Release

ChannelSpec == ChannelInit /\ [][ChannelNext]_channelVars
=============================================================================
