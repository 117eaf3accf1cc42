--------------------------- MODULE SymbolCatalog ---------------------------
(***************************************************************************)
(* The symbols table: both processes synchronize it with the exchanges,    *)
(* and users add and deactivate symbols.  Every one of them is a           *)
(* transaction that reads its rows one by one and writes, at its commit,   *)
(* what it has seen a reason to write: the object-relational mapper leaves *)
(* a column alone whose value was the new one when it was read.            *)
(***************************************************************************)
EXTENDS MarketIndex

CONSTANTS
  Jobs,     \* the processes with a synchronization
  InQuote,  \* the symbols in the quote of the catalog
  Limit     \* symbols it fetches at most (30)

ASSUME CatalogAssumption == Limit \in Nat

VARIABLES
  rows,     \* of a symbol: "absent", "active" or "inactive"
  indexOf,  \* of a process: the index of its provider, as what it lists
  txn,      \* of a process and of the user: the open transaction
  failed    \* the processes whose last synchronization has failed

catalogVars == <<rows, indexOf, txn, failed>>

NoIndex == [made |-> FALSE, listed |-> << >>]

NoTxn == [kind |-> "none", todo |-> << >>, seen |-> << >>]

Begun(kind, names) == [kind |-> kind, todo |-> names, seen |-> << >>]

\* What fetch_available_symbols can list, by the exchanges in the index.
Catalogs == {Discovered(InQuote, Limit, loaded) : loaded \in SUBSET Range(Venues)}

\* sync_symbol_catalog, up to the upsert.  The index is made once.
FetchCatalog(p) ==
  /\ txn[p] = NoTxn
  /\ \E listed \in IF indexOf[p].made THEN {indexOf[p].listed} ELSE Catalogs :
       /\ indexOf' = [indexOf EXCEPT ![p] = [made |-> TRUE, listed |-> listed]]
       /\ txn' = IF listed = << >> THEN txn ELSE [txn EXCEPT ![p] = Begun("upsert", listed)]
  /\ UNCHANGED <<rows, failed>>

UserBegins ==
  /\ txn["user"] = NoTxn
  /\ \E kind \in {"upsert", "deactivate"}, s \in Names :
       txn' = [txn EXCEPT !["user"] = Begun(kind, <<s>>)]
  /\ UNCHANGED <<rows, indexOf, failed>>

ReadRow(who) ==
  /\ txn[who].todo # << >>
  /\ LET s == Head(txn[who].todo)
     IN  txn' = [txn EXCEPT ![who] = [@ EXCEPT !.todo = Tail(@),
                                               !.seen = Append(@, <<s, rows[s]>>)]]
  /\ UNCHANGED <<rows, indexOf, failed>>

\* A row that was inserted after this transaction had missed it.
Conflict(who) ==
  \E seen \in Range(txn[who].seen) :
    txn[who].kind = "upsert" /\ seen[2] = "absent" /\ rows[seen[1]] # "absent"

\* Variant: a row that exists is left as it is.
ActivatedNew(seen) == seen = "absent"

\* bulk_upsert_symbols and upsert_symbol insert a row or set it active.
Activated(seen) == seen # "active"

Written(who) ==
  LET seen(s) == {pair[2] : pair \in {x \in Range(txn[who].seen) : x[1] = s}}
  IN  [s \in Names |->
         IF txn[who].kind = "upsert" /\ \E x \in seen(s) : Activated(x) THEN "active"
         ELSE IF txn[who].kind = "deactivate" /\ "active" \in seen(s) THEN "inactive"
         ELSE rows[s]]

AtCommit(who) == txn[who] # NoTxn /\ txn[who].todo = << >>

Commit(who) ==
  /\ AtCommit(who) /\ ~Conflict(who)
  /\ rows' = Written(who)
  /\ txn' = [txn EXCEPT ![who] = NoTxn]
  /\ failed' = failed \ {who}
  /\ UNCHANGED indexOf

\* A read or the commit fails; a conflict always does.
RollBack(who) ==
  /\ txn[who] # NoTxn
  /\ txn' = [txn EXCEPT ![who] = NoTxn]
  /\ failed' = failed \cup ({who} \cap Jobs)
  /\ UNCHANGED <<rows, indexOf>>

\* The transaction and the provider of a process that ends, or of a
\* synchronization that has a provider of its own and is through.
CatalogGone(p) ==
  /\ txn' = [txn EXCEPT ![p] = NoTxn]
  /\ indexOf' = [indexOf EXCEPT ![p] = NoIndex]
  /\ failed' = failed \ {p}

CatalogInit ==
  /\ rows \in [Names -> {"absent", "active"}]
  /\ indexOf = [p \in Jobs |-> NoIndex]
  /\ txn = [who \in Jobs \cup {"user"} |-> NoTxn]
  /\ failed = {}
=============================================================================
