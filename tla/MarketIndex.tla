---------------------------- MODULE MarketIndex ----------------------------
(***************************************************************************)
(* GlobalMarketDataProvider: which exchange a symbol is routed to.  The    *)
(* index is made once, from the exchanges whose markets could be loaded at *)
(* that moment, and is a function of them.  IngestionControl models the    *)
(* sessions of the exchanges and what cancels the making of the index.     *)
(*                                                                         *)
(* The quote of a market is part of its symbol, so the candidates of one   *)
(* symbol never differ in quote_bonus, and that criterion is left out.     *)
(***************************************************************************)
EXTENDS Integers, SequencesExt

CONSTANTS
  Names,      \* the symbols
  Venues,     \* exchange_ids, a sequence in order of priority
  Markets,    \* of an exchange: the names of its active markets, in order
  Liquidity,  \* of an exchange and a name: the quote volume, 0 when not reported
  PageCap,    \* of an exchange: the candles it returns at most for one request
  PageLimit   \* the candles a request asks for (500)

ASSUME MarketAssumption ==
  /\ Venues \in Seq(Range(Venues))
  /\ PageLimit \in Nat \ {0}
  /\ \A v \in Range(Venues) :
       /\ PageCap[v] \in 1 .. PageLimit
       /\ \A name \in Range(Markets[v]) : Liquidity[v][name] \in Nat

\* The exchanges of a symbol, among those in the index.
Candidates(name, loaded) == {v \in loaded : name \in Range(Markets[v])}

Rank(v) == CHOOSE i \in DOMAIN Venues : Venues[i] = v

Better(v, w, name) ==
  \/ Liquidity[v][name] > Liquidity[w][name]
  \/ Liquidity[v][name] = Liquidity[w][name] /\ Rank(v) < Rank(w)

\* _route, of a symbol that has candidates.
Route(name, loaded) ==
  CHOOSE v \in Candidates(name, loaded) :
    \A w \in Candidates(name, loaded) \ {v} : Better(v, w, name)

\* The order of _symbol_index: that of the exchanges and of their markets.
IndexOrder(loaded) ==
  LET Add(names, name) == IF Contains(names, name) THEN names ELSE Append(names, name)
      AddVenue(names, v) == FoldLeft(Add, names, Markets[v])
  IN  FoldLeft(AddVenue, << >>, SelectSeq(Venues, LAMBDA v : v \in loaded))

\* fetch_available_symbols: the first limit names of the index in the quote
\* asked for, whatever their liquidity.
Discovered(inQuote, limit, loaded) ==
  LET names == SelectSeq(IndexOrder(loaded), LAMBDA name : name \in inQuote)
  IN  SubSeq(names, 1, IF Len(names) < limit THEN Len(names) ELSE limit)

\* Variant: the paging goes on until a page is empty.
FetchedAll(v, total) == total

\* fetch_historical_candles, when total candles exist: a page shorter than the
\* limit is taken for the last, also when the exchange returns no longer ones.
Fetched(v, total) == IF total > PageCap[v] /\ PageCap[v] < PageLimit THEN PageCap[v] ELSE total
=============================================================================
