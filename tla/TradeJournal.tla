---------------------------- MODULE TradeJournal ----------------------------
(***************************************************************************)
(* What the trading loop promises about its orders: they are taken one at  *)
(* a time; an order that was executed is written to the database before it *)
(* is broadcast, and it can be lost on the way, but it is never written or *)
(* broadcast afterwards.                                                   *)
(***************************************************************************)
EXTENDS Integers, Sequences

VARIABLES
  log  \* the stage of every order, in the order of creation

\* An order is in flight while executed or written.
InFlight == {i \in DOMAIN log : log[i] \in {"executed", "written"}}

JournalInit == log = << >>

\* The execution raised: the order stays registered and goes no further.
Fail == InFlight = {} /\ log' = Append(log, "failed")

Execute == InFlight = {} /\ log' = Append(log, "executed")

\* The stages an order in flight can reach next.  "silent": written and not
\* broadcast.  A broadcast that was cut short may have reached the clients.
After(stage) == IF stage = "executed" THEN {"written", "lost", "silent"}
                ELSE {"broadcast", "silent"}

Advance ==
  \E i \in InFlight : \E stage \in After(log[i]) : log' = [log EXCEPT ![i] = stage]

JournalNext == Fail \/ Execute \/ Advance

JournalSpec == JournalInit /\ [][JournalNext]_log
=============================================================================
