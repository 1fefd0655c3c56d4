---------------------------- MODULE InstrumentStore ----------------------------
(***************************************************************************)
(* The instrument master: the tables of instruments/storage.py, filled at  *)
(* the start of a registry (registry.py, search.py) from the files that    *)
(* downloader.py fetches, seeded and rewritten by resolver.py, read by     *)
(* resolve().                                                              *)
(*                                                                         *)
(* Each user is a process with a registry of its own; the files and the    *)
(* tables are shared and nothing but the transaction of one table is       *)
(* atomic.  A row is the symbol it is found by: a base ("RELIANCE") and a  *)
(* form ("bare" as the built-in rows have it, "EQ" and "FUT" as the        *)
(* downloaded ones do, "NS" in requests only).                             *)
(***************************************************************************)
EXTENDS Integers, FiniteSets

CONSTANTS
  Users,
  Bases,
  Equities, Indices,  \* the bases of _BUILTIN_INSTRUMENTS
  Fallback,           \* the bases of the registry's _FALLBACK
  Listings,           \* contents that EQUITY_L.csv may have
  Lots,               \* the contents of fo_mktlots.csv
  PartOf,             \* pairs of bases, the first of which ends the second
  MinMaster,          \* an equity table smaller than this is loaded anew (100)
  None,
  MaxStarts,          \* starts of all processes (bounds the exploration)
  MaxWrites           \* refresh(), register() and days (same)

ASSUME InstrumentStoreAssumption ==
  /\ Equities \subseteq Bases /\ Indices \subseteq Bases /\ Fallback \subseteq Bases
  /\ Listings \subseteq SUBSET Bases /\ Lots \subseteq Bases
  /\ PartOf \subseteq Bases \X Bases
  /\ None \notin Bases
  /\ MinMaster \in Nat \ {0} /\ MaxStarts \in Nat /\ MaxWrites \in Nat

VARIABLES
  tables,    \* the committed rows of each table
  eqFile, foFile,  \* the downloaded files, None before the first download
  stamp,     \* .instrument_stamp: "none", "fresh" or "old"
  at,        \* where each process is
  back,      \* where downloader.refresh() returns to
  up,        \* its InstrumentRegistry is constructed
  hand,      \* the rows it downloads or has parsed
  req, answer,
  starts, writes,
  crossed,   \* another process has written a table since this one found all of them empty
  short      \* what it has parsed is not a whole listing of MinMaster names (history of both)

files == <<eqFile, foFile, stamp>>
mine == <<at, back, up, hand, req, answer>>
bounds == <<starts, writes>>
history == <<crossed, short>>
storeVars == <<tables, files, mine, bounds, history>>

Tables == {"equity", "futures", "options", "indices"}
Forms == {"bare", "EQ", "FUT", "NS"}
Row(b, f) == [base |-> b, form |-> f]
Rows(bs, f) == {Row(b, f) : b \in bs}
AllRows == UNION {tables[t] : t \in Tables}
Big(rows) == Cardinality(rows) >= MinMaster
WholeListing(names) == names \in Listings /\ Big(Rows(names, "EQ"))
SearchRank == [equity |-> 0, indices |-> 1, futures |-> 2, options |-> 3]
NoRequest == [base |-> None, form |-> "bare"]
NoAnswer == [base |-> None, by |-> "none"]

StoreInit ==
  /\ tables = [t \in Tables |-> {}]
  /\ eqFile = None /\ foFile = None /\ stamp = "none"
  /\ at = [u \in Users |-> "down"]
  /\ back = [u \in Users |-> "load equity"]
  /\ up = [u \in Users |-> FALSE]
  /\ hand = [u \in Users |-> {}]
  /\ req = [u \in Users |-> NoRequest]
  /\ answer = [u \in Users |-> NoAnswer]
  /\ starts = 0 /\ writes = 0
  /\ crossed = [u \in Users |-> FALSE] /\ short = [u \in Users |-> FALSE]

Go(u, place) == at' = [at EXCEPT ![u] = place]

\* insert_bulk() of one table, replace=True: the rows replace the old ones in
\* one transaction, or it rolls back; no rows, no transaction.
InsertBulk(u, t, rows) ==
  \/ /\ rows # {}
     /\ tables' = [tables EXCEPT ![t] = rows]
     /\ crossed' = [v \in Users |-> v # u /\ at[v] = "seed equity"]
  \/ UNCHANGED <<tables, crossed>>

-----------------------------------------------------------------------------
(* InstrumentRegistry(): InstrumentSearch(), then InstrumentResolver().     *)

Start(u) ==
  /\ at[u] = "down" /\ starts < MaxStarts
  /\ \/ Go(u, "count")
     \/ Go(u, "no db")     \* the constructor fails: _use_db is False
  /\ starts' = starts + 1
  /\ UNCHANGED <<tables, history, files, back, up, hand, req, answer, writes>>

\* _ensure_loaded() and refresh_if_stale()
EnsureLoaded(u) ==
  /\ at[u] = "count"
  /\ Go(u, IF Big(tables["equity"]) THEN "seed"
           ELSE IF stamp = "fresh" THEN "load equity" ELSE "get equity")
  /\ UNCHANGED <<tables, history, files, back, up, hand, req, answer, bounds>>

\* downloader.refresh(): the file is written in place, or three attempts fail
GetEquity(u) ==
  /\ at[u] = "get equity"
  /\ \/ \E listing \in Listings : \E piece \in SUBSET listing :
          /\ eqFile' = piece
          /\ hand' = [hand EXCEPT ![u] = Rows(listing, "EQ")]
          /\ Go(u, "write equity")
     \/ Go(u, "get lots") /\ UNCHANGED <<eqFile, hand>>
  /\ UNCHANGED <<tables, history, foFile, stamp, back, up, req, answer, bounds>>

WriteEquity(u) ==
  /\ at[u] = "write equity"
  /\ eqFile' = {row.base : row \in hand[u]}
  /\ hand' = [hand EXCEPT ![u] = {}]
  /\ Go(u, "get lots")
  /\ UNCHANGED <<tables, history, foFile, stamp, back, up, req, answer, bounds>>

GetLots(u) ==
  /\ at[u] = "get lots"
  /\ foFile' \in {Lots, foFile}
  /\ Go(u, "stamp")
  /\ UNCHANGED <<tables, history, eqFile, stamp, back, up, hand, req, answer, bounds>>

\* whatever became of the downloads
WriteStamp(u) ==
  /\ at[u] = "stamp"
  /\ stamp' = "fresh"
  /\ Go(u, back[u])
  /\ UNCHANGED <<tables, history, eqFile, foFile, back, up, hand, req, answer, bounds>>

\* load_equity(): a missing file is fetched (again), then open() raises
LoadEquity(u) ==
  /\ at[u] = "load equity"
  /\ Go(u, IF eqFile = None THEN "get equity" ELSE "open equity")
  /\ back' = [back EXCEPT ![u] = "open equity"]
  /\ UNCHANGED <<tables, history, files, up, hand, req, answer, bounds>>

OpenEquity(u) ==
  /\ at[u] = "open equity"
  /\ IF eqFile = None
       THEN Go(u, "load futures") /\ UNCHANGED <<hand, short>>
       ELSE /\ hand' = [hand EXCEPT ![u] = Rows(eqFile, "EQ")]
            /\ short' = [short EXCEPT ![u] = ~WholeListing(eqFile)]
            /\ Go(u, "put equity")
  /\ UNCHANGED <<tables, crossed, files, back, up, req, answer, bounds>>

PutEquity(u) ==
  /\ at[u] = "put equity"
  /\ InsertBulk(u, "equity", hand[u])
  /\ hand' = [hand EXCEPT ![u] = {}]
  /\ short' = [short EXCEPT ![u] = FALSE]
  /\ Go(u, "load futures")
  /\ UNCHANGED <<files, back, up, req, answer, bounds>>

\* load_futures(): without the file of the lots there are none
LoadFutures(u) ==
  /\ at[u] = "load futures"
  /\ Go(u, IF foFile = None THEN "get equity" ELSE "open futures")
  /\ back' = [back EXCEPT ![u] = "open futures"]
  /\ UNCHANGED <<tables, history, files, up, hand, req, answer, bounds>>

OpenFutures(u) ==
  /\ at[u] = "open futures"
  /\ hand' = [hand EXCEPT ![u] = IF foFile = None THEN {} ELSE Rows(foFile, "FUT")]
  /\ Go(u, "put futures")
  /\ UNCHANGED <<tables, history, files, back, up, req, answer, bounds>>

PutFutures_Ready(u) == \* mutant: the resolver of the registry is forgotten
  /\ at[u] = "put futures"
  /\ InsertBulk(u, "futures", hand[u])
  /\ hand' = [hand EXCEPT ![u] = {}]
  /\ Go(u, "ready")
  /\ UNCHANGED <<files, back, up, req, answer, bounds, short>>

PutFutures(u) ==
  /\ at[u] = "put futures"
  /\ InsertBulk(u, "futures", hand[u])
  /\ hand' = [hand EXCEPT ![u] = {}]
  /\ Go(u, IF up[u] THEN "ready" ELSE "seed")
  /\ UNCHANGED <<files, back, up, req, answer, bounds, short>>

\* what _seed_builtins() goes by
NothingStored_NoIndices == tables["indices"] = {} \* mutant: counts what it is to seed

NothingStored == AllRows = {}

\* _seed_builtins(): the tables are counted, and written later
CountAll(u) ==
  /\ at[u] = "seed"
  /\ Go(u, IF NothingStored THEN "seed equity" ELSE "ready")
  /\ up' = [up EXCEPT ![u] = ~NothingStored]
  /\ crossed' = [crossed EXCEPT ![u] = FALSE]
  /\ UNCHANGED <<tables, short, files, back, hand, req, answer, bounds>>

SeedEquity(u) ==
  /\ at[u] = "seed equity"
  /\ InsertBulk(u, "equity", Rows(Equities, "bare"))
  /\ Go(u, "seed indices")
  /\ UNCHANGED <<files, back, up, hand, req, answer, bounds, short>>

SeedIndices(u) ==
  /\ at[u] = "seed indices"
  /\ InsertBulk(u, "indices", Rows(Indices, "bare"))
  /\ up' = [up EXCEPT ![u] = TRUE]
  /\ Go(u, "ready")
  /\ UNCHANGED <<files, back, hand, req, answer, bounds, short>>

-----------------------------------------------------------------------------
(* Writes of a registry that is up.                                         *)

\* register(): a list of one, which replaces the table
Register(u, t, row) ==
  /\ at[u] = "ready" /\ writes < MaxWrites
  /\ InsertBulk(u, t, {row})
  /\ writes' = writes + 1
  /\ UNCHANGED <<files, mine, starts, short>>

\* refresh(force)
RefreshStore(u, force) ==
  /\ at[u] = "ready" /\ writes < MaxWrites
  /\ Go(u, IF force \/ stamp # "fresh" THEN "get equity" ELSE "load equity")
  /\ writes' = writes + 1
  /\ back' = [back EXCEPT ![u] = "load equity"]
  /\ UNCHANGED <<tables, history, files, up, hand, req, answer, starts>>

-----------------------------------------------------------------------------
(* get() of the registry: resolve() reads the tables once per rule, and     *)
(* other processes write between the rules.                                 *)

\* One request at a time: readers do not see each other (bounds the exploration).
Get(u, b, f) ==
  /\ at[u] \in {"ready", "no db"}
  /\ \A v \in Users : req[v] = NoRequest
  /\ req' = [req EXCEPT ![u] = Row(b, f)]
  /\ answer' = [answer EXCEPT ![u] = NoAnswer]
  /\ Go(u, IF at[u] = "ready" THEN "exact" ELSE "fallback")
  /\ UNCHANGED <<tables, history, files, back, up, hand, bounds>>

\* get_by_symbol() of one spelling: found, or on to the next rule
TryRow(u, place, row, next) ==
  /\ at[u] = place
  /\ IF row \in AllRows
       THEN /\ answer' = [answer EXCEPT ![u] = [base |-> row.base, by |-> "row"]]
            /\ Go(u, "answered")
       ELSE Go(u, next) /\ UNCHANGED answer
  /\ UNCHANGED <<tables, history, files, back, up, hand, req, bounds>>

Exact(u) ==
  TryRow(u, "exact", req[u],
         CASE req[u].form = "NS" -> "base"
           [] req[u].form = "EQ" -> "stripped"
           [] OTHER -> "builtin")
Base(u) == TryRow(u, "base", Row(req[u].base, "bare"), "base-EQ")
BaseEQ(u) == TryRow(u, "base-EQ", Row(req[u].base, "EQ"), "builtin")
Stripped(u) == TryRow(u, "stripped", Row(req[u].base, "bare"), "builtin")

\* only the bare spelling of a built-in name is recognised
Builtin(u) ==
  /\ at[u] = "builtin"
  /\ IF req[u].form = "bare" /\ req[u].base \in Equities \cup Indices
       THEN /\ answer' = [answer EXCEPT ![u] = [base |-> req[u].base, by |-> "builtin"]]
            /\ Go(u, "answered")
       ELSE Go(u, "search") /\ UNCHANGED answer
  /\ UNCHANGED <<tables, history, files, back, up, hand, req, bounds>>

\* What the search may give first: rows whose text contains the request, in
\* the order of the tables; built-in ones if there are none.  ".NS" is part of
\* no symbol.
Matches(r) ==
  LET like(b) == b = r.base \/ <<r.base, b>> \in PartOf
      found(t) == {row \in tables[t] : like(row.base) /\ r.form \in {"bare", row.form}}
      first == CHOOSE t \in Tables :
        /\ found(t) # {}
        /\ \A s \in Tables : found(s) # {} => SearchRank[t] <= SearchRank[s]
  IN IF r.form = "NS" THEN {}
     ELSE IF \E t \in Tables : found(t) # {} THEN {row.base : row \in found(first)}
     ELSE IF r.form = "bare" THEN {b \in Equities \cup Indices : like(b)} ELSE {}

SearchRows(u) ==
  /\ at[u] = "search"
  /\ IF Matches(req[u]) = {}
       THEN Go(u, "fallback") /\ UNCHANGED answer
       ELSE /\ \E b \in Matches(req[u]) :
                 answer' = [answer EXCEPT ![u] = [base |-> b, by |-> "search"]]
            /\ Go(u, "answered")
  /\ UNCHANGED <<tables, history, files, back, up, hand, req, bounds>>

\* _fallback_get() strips the suffixes; what is not there raises.
FallbackGet(u) ==
  /\ at[u] = "fallback"
  /\ answer' = [answer EXCEPT ![u] =
       IF req[u].base \in Fallback THEN [base |-> req[u].base, by |-> "fallback"]
       ELSE [base |-> None, by |-> "missing"]]
  /\ Go(u, "answered")
  /\ UNCHANGED <<tables, history, files, back, up, hand, req, bounds>>

GetReturns(u) ==
  /\ at[u] = "answered"
  /\ Go(u, IF up[u] THEN "ready" ELSE "no db")
  /\ req' = [req EXCEPT ![u] = NoRequest]
  /\ answer' = [answer EXCEPT ![u] = NoAnswer]
  /\ UNCHANGED <<tables, history, files, back, up, hand, bounds>>

-----------------------------------------------------------------------------

\* A process that dies in write_bytes() leaves the part of the file it wrote.
Crash(u) ==
  /\ at[u] # "down"
  /\ Go(u, "down")
  /\ back' = [back EXCEPT ![u] = "load equity"]
  /\ up' = [up EXCEPT ![u] = FALSE]
  /\ hand' = [hand EXCEPT ![u] = {}]
  /\ req' = [req EXCEPT ![u] = NoRequest]
  /\ answer' = [answer EXCEPT ![u] = NoAnswer]
  /\ UNCHANGED <<tables, history, files, bounds>>

\* _is_stale(): 24 hours after the stamp
StampAges ==
  /\ stamp = "fresh" /\ writes < MaxWrites
  /\ stamp' = "old"
  /\ writes' = writes + 1
  /\ UNCHANGED <<tables, history, eqFile, foFile, mine, starts>>

StoreNext ==
  \/ \E u \in Users :
       \/ Start(u) \/ EnsureLoaded(u)
       \/ GetEquity(u) \/ WriteEquity(u) \/ GetLots(u) \/ WriteStamp(u)
       \/ LoadEquity(u) \/ OpenEquity(u) \/ PutEquity(u)
       \/ LoadFutures(u) \/ OpenFutures(u) \/ PutFutures(u)
       \/ CountAll(u) \/ SeedEquity(u) \/ SeedIndices(u)
       \/ \E b \in Bases :
            \/ Register(u, "equity", Row(b, "bare"))
            \/ Register(u, "futures", Row(b, "FUT"))
            \/ \E f \in {"bare", "EQ", "NS"} : Get(u, b, f)
       \/ \E force \in BOOLEAN : RefreshStore(u, force)
       \/ Exact(u) \/ Base(u) \/ BaseEQ(u) \/ Stripped(u) \/ Builtin(u)
       \/ SearchRows(u) \/ FallbackGet(u) \/ GetReturns(u)
       \/ Crash(u)
  \/ StampAges

StoreSpec == StoreInit /\ [][StoreNext]_storeVars

-----------------------------------------------------------------------------

Places == {"down", "no db", "count", "get equity", "write equity", "get lots", "stamp",
           "load equity", "open equity", "put equity", "load futures", "open futures", "put futures", "seed",
           "seed equity", "seed indices", "ready", "exact", "base",
           "base-EQ", "stripped", "builtin", "search", "fallback", "answered"}

StoreTypeOK ==
  /\ tables \in [Tables -> SUBSET [base : Bases, form : Forms \ {"NS"}]]
  /\ eqFile \in {None} \cup SUBSET Bases /\ foFile \in {None, Lots}
  /\ stamp \in {"none", "fresh", "old"}
  /\ at \in [Users -> Places]
  /\ back \in [Users -> {"load equity", "open equity", "open futures"}] /\ up \in [Users -> BOOLEAN]
  /\ \A u \in Users : at[u] = "ready" => up[u]
  /\ req \in [Users -> {NoRequest} \cup [base : Bases, form : {"bare", "EQ", "NS"}]]
  /\ answer \in [Users -> [base : Bases \cup {None},
                           by : {"none", "row", "builtin", "search", "fallback", "missing"}]]
  /\ starts \in 0..MaxStarts /\ writes \in 0..MaxWrites
  /\ crossed \in [Users -> BOOLEAN] /\ short \in [Users -> BOOLEAN]

\* What get() answers is an instrument of the name it was asked for, unless no
\* rule knew the name and the search took a row that contains it; and a
\* built-in name is always found, by its bare spelling in whatever the tables
\* hold after failed downloads, crashes, wiped tables and writes of other
\* processes between two rules (resolve(), registry.get()).
ResolveFaithful ==
  \A u \in Users : at[u] = "answered" =>
    LET asked == req[u] got == answer[u] IN
    /\ got.base \notin {None, asked.base} =>
         got.by = "search" /\ <<asked.base, got.base>> \in PartOf
    /\ asked.form = "bare" /\ asked.base \in Equities \cup Indices /\ up[u] =>
         got.base = asked.base
    /\ got.base = None => asked.base \notin Fallback

\* Failed downloads, missing files, starts and loads of a whole listing never
\* cost the store the master it holds.  Three steps do: register(), which gives
\* its table the one row; the load of a file that is not a whole listing, as one
\* that a crash has cut short is not (storage.py:3-4 promises otherwise); and the
\* seeding by a process that counted no rows before another wrote its own
\* (storage.py, search.py, resolver.py).
MasterKept ==
  [][Big(tables["equity"]) /\ ~Big(tables'["equity"]) =>
       \/ \E b \in Bases : tables'["equity"] = {Row(b, "bare")} /\ writes' = writes + 1
       \/ \E u \in Users : at[u] = "put equity" /\ at'[u] # at[u] /\ short[u]
       \/ \E u \in Users : at[u] = "seed equity" /\ at'[u] # at[u] /\ crossed[u]]_storeVars

=============================================================================
