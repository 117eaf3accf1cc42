----------------------------- MODULE AgentDesk -----------------------------
(***************************************************************************)
(* One request for an AI decision: TradingWorkflowGraph.execute_graph with *)
(* the desk it asks, MultiAgentTradingDesk.evaluate_market.  Nothing in    *)
(* the repository executes the decision; its status says whether it could  *)
(* be.                                                                     *)
(*                                                                         *)
(* A model's reply is abstracted to what is made of it.  An analyst's is a *)
(* stance, or "unreadable" (no JSON, or not of the form asked for), or     *)
(* "foreign": JSON that is not an object, or that names its own role, which*)
(* raises a TypeError that the fallback does not catch.  The officer's is  *)
(* the action it names, or "unreadable"; another word than the three it was*)
(* asked for is taken as it is.                                            *)
(***************************************************************************)
EXTENDS RiskGate

Stances  == {"bullish", "bearish", "neutral"}
Actions  == {"BUY", "SELL", "HOLD", "another"}
Analysts == {"technical", "sentiment", "macro"}

CONSTANTS
  DeskPrices,   \* the prices a request can come with
  Convictions,  \* conviction scores, in parts of StrengthDen; not clamped
  GraphPct,     \* suggested_size_pct of the graph's signal, of PctDen
  Fallback      \* the conviction when the officer cannot be read

ASSUME DeskAssumption ==
  /\ DeskPrices \subseteq Nat
  /\ Convictions \subseteq Int /\ Fallback \in Nat
  /\ GraphPct \in 1 .. PctDen
  /\ InitialCash > 0

VARIABLES
  node,       \* the node that runs next, or "done", or "raised"
  market,     \* current_price, and whether there are features
  opinions,   \* the analysts' replies
  officer,    \* the officer's reply
  consensus,  \* final_action and conviction_score
  status,     \* execution_status
  trade       \* trade_signal, and its size when it is approved: none or one

deskVars == <<node, market, opinions, officer, consensus, status, trade>>

-----------------------------------------------------------------------------
NoMarket == market.price = 0 \/ ~market.features

\* The request and the first node, market perception.
Perceive ==
  /\ node = "perceive"
  /\ \E price \in DeskPrices, known \in BOOLEAN :
       /\ market' = [price |-> price, features |-> known]
       /\ status' = IF price = 0 \/ ~known THEN "HALTED_NO_MARKET_DATA" ELSE "PENDING"
  /\ node' = "analyze"
  /\ UNCHANGED <<engineVars, opinions, officer, consensus, trade>>

\* Variant: an opinion that cannot be read is taken for a bullish one.
StanceGuessed(reply) == IF reply \in Stances THEN reply ELSE "bullish"

\* _parse_opinion
Stance(reply) == IF reply \in Stances THEN reply ELSE "neutral"

\* The officer's decision, or the fallback.
Decision(stances, reply, conviction) ==
  IF reply \in Actions
  THEN [action |-> reply, conviction |-> conviction]
  ELSE [action     |-> IF \E a \in Analysts : stances[a] = "bullish" THEN "BUY" ELSE "HOLD",
        conviction |-> Fallback]

Analyze ==
  /\ node = "analyze"
  /\ IF status = "HALTED_NO_MARKET_DATA"
     THEN /\ node' = "govern"
          /\ UNCHANGED <<opinions, officer, consensus>>
     ELSE \E replies \in [Analysts -> Stances \cup {"unreadable", "foreign"}] :
            /\ opinions' = replies
            /\ IF \E a \in Analysts : replies[a] = "foreign"
               THEN /\ node' = "raised"
                    /\ UNCHANGED <<officer, consensus>>
               ELSE /\ node' = "govern"
                    /\ \E reply \in Actions \cup {"unreadable"}, conviction \in Convictions :
                         /\ officer' = reply
                         /\ consensus' = Decision([a \in Analysts |-> Stance(replies[a])],
                                                  reply, conviction)
  /\ UNCHANGED <<engineVars, market, status, trade>>

\* The gate is asked about an account that has never traded, not the real one.
MockPortfolio ==
  [equity |-> InitialCash, drawdown |-> 0, positions |-> << >>]

GraphSignal(s) ==
  [symbol   |-> s,
   kind     |-> IF consensus.action = "BUY" THEN "LONG" ELSE "SHORT",
   pct      |-> GraphPct,
   strength |-> consensus.conviction]

\* The risk governor, and the reflection that only writes notes.
Govern ==
  /\ node = "govern"
  /\ IF status = "HALTED_NO_MARKET_DATA"
     THEN UNCHANGED <<status, trade>>
     ELSE IF consensus.action = "HOLD"
     THEN status' = "HOLD" /\ UNCHANGED trade
     ELSE \E s \in Symbols :
            LET signal   == GraphSignal(s)
                approved == Approved(signal, MockPortfolio, market.price)
            IN  /\ status' = IF approved THEN "APPROVED_FOR_EXECUTION" ELSE "REJECTED_BY_RISK"
                /\ trade' = <<[kind |-> signal.kind,
                               size |-> IF approved
                                        THEN AdjustedSize(signal, MockPortfolio, market.price)
                                        ELSE 0]>>
  /\ node' = "done"
  /\ UNCHANGED <<engineVars, market, opinions, officer, consensus>>

DeskInit ==
  /\ node = "perceive"
  /\ market = [price |-> 0, features |-> FALSE]
  /\ opinions = [a \in Analysts |-> "unreadable"]
  /\ officer = "unreadable"
  /\ consensus = [action |-> "HOLD", conviction |-> 0]
  /\ status = "PENDING" /\ trade = << >>

DeskNext == Perceive \/ Analyze \/ Govern
=============================================================================
