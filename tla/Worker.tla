------------------------------- MODULE Worker -------------------------------
(***************************************************************************)
(* BackgroundWorkerDaemon: the ingestion job and the research job, two     *)
(* coroutines that share the list of symbols and the candle buffers, and   *)
(* the server's research request, which fetches its candles itself.        *)
(*                                                                         *)
(* What a processed symbol does to the account is what the server's loop   *)
(* does (TradingLoop), without the broadcasts, and is left out here.  A    *)
(* buffer is its length and whether it is still the list the research job  *)
(* holds: an append grows that list, too, and trimming makes a new one.    *)
(***************************************************************************)
EXTENDS MarketIndex, Research, FiniteSets

CONSTANTS
  BufferCap,   \* candles in a buffer (300)
  MinCandles,  \* candles the research job wants (40)
  Histories    \* the candles that can exist for a request of the server

ASSUME WorkerAssumption ==
  /\ IsFiniteSet(Names)
  /\ BufferCap \in Nat \ {0} /\ MinCandles \in Nat \ {0}
  /\ Histories \subseteq Nat

\* A full buffer and one candle leave the test of a fold no bar behind the warm-up:
\* of a fold of 100 candles, 30 % are the 30 of the warm-up.
ASSUME ScaleAssumption ==
  LET longest == (BufferCap + 1) \div Splits
  IN  longest * (100 - TrainPct) + (IF longest \in Inexact THEN 100 ELSE 0) <= 100 * WarmupBars

VARIABLES
  active,       \* the active rows of the symbols table
  symbols,      \* self.symbols
  buffers,      \* candle_buffers: symbol -> length
  loaded,       \* the exchanges in the index of the ingestion job's provider
  indexed,      \* that index has been made
  ingest,       \* the ingestion job: [at, todo]
  research,     \* the research job: [at, todo, records]
  dataset,      \* the list of candles the research job holds: [name, len, shared]
  experiment    \* the experiment saved last: [by, via, promoted]

vars == <<active, symbols, buffers, loaded, indexed, ingest, research, dataset, experiment>>

Listing(S) == SetToSeq(S)

NoDataset == [name |-> "none", len |-> 0, shared |-> FALSE]

NoExperiment == [by |-> "nobody", via |-> "none", promoted |-> FALSE]

Asleep == [at |-> "asleep", todo |-> << >>, records |-> << >>]

-----------------------------------------------------------------------------
(***************************************************************************)
(* The ingestion job.                                                      *)
(***************************************************************************)

\* Users and the catalog synchronization change the table.
SetActive ==
  /\ \E S \in SUBSET Names : active' = S
  /\ active' # active
  /\ UNCHANGED <<symbols, buffers, loaded, indexed, ingest, research, dataset, experiment>>

\* Variant: the buffers of removed symbols are kept.
RebuiltKept(S) ==
  [s \in S \cup DOMAIN buffers |-> IF s \in DOMAIN buffers THEN buffers[s] ELSE 0]

\* _rebuild_strategies
Rebuilt(S) == [s \in S |-> IF s \in DOMAIN buffers THEN buffers[s] ELSE 0]

\* An error reads as an empty table; without symbols the job waits.
Refresh ==
  /\ ingest.at = "refresh"
  /\ \E S \in {active, {}} :
       /\ symbols' = Listing(S)
       /\ buffers' = Rebuilt(S)
       /\ dataset' = IF dataset.name \in S THEN dataset ELSE [dataset EXCEPT !.shared = FALSE]
       /\ ingest' = [ingest EXCEPT !.at = IF S = {} THEN "refresh" ELSE "feeds"]
  /\ UNCHANGED <<active, loaded, indexed, research, experiment>>

\* News, social and macro data arrive, or one fails and ends the cycle.
FetchFeeds ==
  /\ ingest.at = "feeds"
  /\ ingest' \in {[at |-> "symbol", todo |-> symbols], [at |-> "refresh", todo |-> << >>]}
  /\ UNCHANGED <<active, symbols, buffers, loaded, indexed, research, dataset, experiment>>

\* The first price request makes the index; every exchange may fail then.
MakeIndex ==
  /\ ingest.at = "symbol" /\ ingest.todo # << >> /\ ~indexed
  /\ indexed' = TRUE
  /\ \E S \in SUBSET Range(Venues) : loaded' = S
  /\ UNCHANGED <<active, symbols, buffers, ingest, research, dataset, experiment>>

SymbolDone ==
  ingest' = IF Len(ingest.todo) = 1 THEN [at |-> "refresh", todo |-> << >>]
            ELSE [ingest EXCEPT !.todo = Tail(@)]

\* The price request fails, always when the symbol has no exchange.
SkipSymbol ==
  /\ ingest.at = "symbol" /\ ingest.todo # << >> /\ indexed
  /\ SymbolDone
  /\ UNCHANGED <<active, symbols, buffers, loaded, indexed, research, dataset, experiment>>

\* Variant: the buffer is not trimmed.
TrimmedAll(len) == len

Trimmed(len) == IF len > BufferCap THEN BufferCap ELSE len

\* _process_symbol.  Whether the rest of it fails makes no difference here.
ProcessSymbol ==
  /\ ingest.at = "symbol" /\ ingest.todo # << >> /\ indexed
  /\ LET s     == Head(ingest.todo)
         grown == buffers[s] + 1
     IN  /\ Candidates(s, loaded) # {}
         /\ buffers' = [buffers EXCEPT ![s] = Trimmed(grown)]
         /\ dataset' = IF dataset.name = s /\ dataset.shared
                       THEN [dataset EXCEPT !.len = grown, !.shared = Trimmed(grown) = grown]
                       ELSE dataset
  /\ SymbolDone
  /\ UNCHANGED <<active, symbols, loaded, indexed, research, experiment>>

-----------------------------------------------------------------------------
(***************************************************************************)
(* The research job.  It walks the list of symbols it woke up to, which    *)
(* the ingestion job replaces and does not change.                         *)
(***************************************************************************)
WakeUp ==
  /\ research.at = "asleep"
  /\ research' = [Asleep EXCEPT !.at = "next", !.todo = symbols]
  /\ UNCHANGED <<active, symbols, buffers, loaded, indexed, ingest, dataset, experiment>>

\* Variant: one candle more is wanted.
EnoughStrict(len) == len > MinCandles

Enough(len) == len >= MinCandles

NextName ==
  /\ research.at = "next"
  /\ \/ /\ research.todo = << >>
        /\ research' = Asleep
        /\ UNCHANGED dataset
     \/ /\ research.todo # << >>
        /\ LET s == Head(research.todo)
           IN  /\ s \in DOMAIN buffers
               /\ IF Enough(buffers[s])
                  THEN /\ research' = [research EXCEPT !.at = "llm"]
                       /\ dataset' = [name |-> s, len |-> buffers[s], shared |-> TRUE]
                  ELSE /\ research' = [research EXCEPT !.todo = Tail(@)]
                       /\ UNCHANGED dataset
  /\ UNCHANGED <<active, symbols, buffers, loaded, indexed, ingest, experiment>>

\* The buffer of a removed symbol is missing: the KeyError ends the cycle.
NameMissing ==
  /\ research.at = "next" /\ research.todo # << >>
  /\ Head(research.todo) \notin DOMAIN buffers
  /\ research' = Asleep
  /\ UNCHANGED <<active, symbols, buffers, loaded, indexed, ingest, dataset, experiment>>

\* The hypotheses arrive, and the backtests run without a pause on the list as it
\* is by then.  A reply of the wrong shape ends the cycle.
Evaluate ==
  /\ research.at = "llm"
  /\ dataset' = NoDataset
  /\ \/ research' = Asleep
     \/ \E n \in Hypotheses : \E records \in Records(dataset.len, n) :
          research' = [research EXCEPT !.at = "save", !.records = records]
  /\ UNCHANGED <<active, symbols, buffers, loaded, indexed, ingest, experiment>>

SaveRecord ==
  /\ research.at = "save"
  /\ IF research.records = << >>
     THEN /\ research' = [research EXCEPT !.at = "next", !.todo = Tail(@)]
          /\ UNCHANGED experiment
     ELSE \/ /\ experiment' =
                  [by |-> "worker", via |-> "buffer", promoted |-> Head(research.records)]
             /\ research' = [research EXCEPT !.records = Tail(@)]
          \/ /\ research' = Asleep
             /\ UNCHANGED experiment
  /\ UNCHANGED <<active, symbols, buffers, loaded, indexed, ingest, dataset>>

\* /api/research/run: a provider, an index and a researcher of its own.
RequestResearch ==
  /\ \E S \in SUBSET Range(Venues), s \in Names, total \in Histories, n \in Hypotheses :
       /\ Candidates(s, S) # {}
       /\ \E records \in Records(Fetched(Route(s, S), total), n) :
            /\ records # << >>
            /\ experiment' = [by |-> "server", via |-> Route(s, S), promoted |-> Last(records)]
  /\ UNCHANGED <<active, symbols, buffers, loaded, indexed, ingest, research, dataset>>

-----------------------------------------------------------------------------
\* start, up to the jobs.
Init ==
  /\ \E S \in {Names, {}} :
       /\ active = S /\ symbols = Listing(S)
       /\ buffers = [s \in S |-> 0]
  /\ loaded = {} /\ indexed = FALSE
  /\ ingest = [at |-> "refresh", todo |-> << >>]
  /\ research = Asleep
  /\ dataset = NoDataset
  /\ experiment = NoExperiment

IngestionJob == Refresh \/ FetchFeeds \/ MakeIndex \/ SkipSymbol \/ ProcessSymbol
ResearchJob  == WakeUp \/ NextName \/ NameMissing \/ Evaluate \/ SaveRecord

Next == SetActive \/ IngestionJob \/ ResearchJob \/ RequestResearch

Spec == Init /\ [][Next]_vars

\* The jobs share one event loop, which runs each of them again; requests to the
\* outside return, for the clients have time limits.
FairSpec == Spec /\ WF_vars(IngestionJob) /\ WF_vars(ResearchJob)

-----------------------------------------------------------------------------
(***************************************************************************)
(* Properties.                                                             *)
(***************************************************************************)

\* There is a buffer for every symbol and no other, none is longer than the cap,
\* and the list the research job holds across its wait is the buffer of its
\* symbol as long as nobody has trimmed or removed that: it may be one candle
\* longer than the cap (_rebuild_strategies, _process_symbol, :160).
WorkerTypeOK ==
  /\ active \subseteq Names /\ loaded \subseteq Range(Venues) /\ indexed \in BOOLEAN
  /\ buffers \in [Range(symbols) -> 0 .. BufferCap]
  /\ ingest.at \in {"refresh", "feeds", "symbol"}
  /\ ingest.at = "symbol" => Range(ingest.todo) \subseteq Range(symbols)
  /\ research.at \in {"asleep", "next", "llm", "save"}
  /\ Range(research.todo) \subseteq Names
  /\ research.at = "llm" => research.todo # << >> /\ dataset.name = Head(research.todo)
  /\ research.at # "llm" => dataset = NoDataset
  /\ dataset.len \in 0 .. BufferCap + 1
  /\ dataset.shared => dataset.name \in DOMAIN buffers /\ dataset.len = buffers[dataset.name]

\* Nothing the worker's research job finds is ever promoted, whatever the market
\* does: a buffer leaves the test of a fold no bar behind the warm-up.  And of
\* the server's requests only those can be whose exchange returns enough candles
\* in one page, for a page shorter than the limit ends the paging
\* (researcher.py:106, worker.py:84, global_provider.py:222).
PromotedByServerOnly ==
  experiment.promoted =>
    /\ experiment.by = "server"
    /\ PageCap[experiment.via] = PageLimit \/ TestLen(PageCap[experiment.via]) > WarmupBars

\* The research job gives up a cycle on an error.
GivesUp == research.todo # << >> /\ research' = Asleep

\* A symbol whose buffer stays long enough is researched again and again, unless
\* the job gives up again and again: an error on one symbol ends the turn of
\* those behind it, and the job itself always goes on (worker.py:154-164).
BuffersResearched ==
  \A s \in Names :
    <>[](s \in DOMAIN buffers /\ buffers[s] >= MinCandles)
      => []<>(dataset.name = s) \/ []<><<GivesUp>>_vars
=============================================================================
