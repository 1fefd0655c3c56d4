---------------------------- MODULE SymbolResolver ----------------------------
(***************************************************************************)
(* SymbolResolver.to_yf() (instruments/symbol_resolver.py): from what a    *)
(* user types to a ticker, by static maps, a master list that is built     *)
(* from NSE and kept in a CSV file for a day, and probes of the provider.  *)
(* One resolver is shared by the threads of a process; the probes are      *)
(* calls over the network, between which other threads run.                *)
(*                                                                         *)
(* A ticker is how it was formed: "static", "NS", "BO", or "none".             *)
(***************************************************************************)
EXTENDS Integers

CONSTANTS
  Threads,
  Static,       \* names in _INDEX_MAP or _OVERRIDE_MAP
  Listed,       \* names in the lists the master is built from
  OnNSE, OnBSE, \* names the provider has data for under .NS, under .BO
  Nothing,      \* no file, no request
  Broken,       \* a file that cannot be read
  MaxDays,      \* starts, and days passed (bounds the exploration)
  MaxBlips      \* probes that the network fails (same)

Names == Static \cup Listed \cup OnNSE \cup OnBSE
Spellings == {"bare", "-EQ"}

ASSUME SymbolResolverAssumption ==
  /\ Listed \subseteq OnNSE
  /\ Nothing \notin Names \X Spellings
  /\ MaxDays \in Nat /\ MaxBlips \in Nat

VARIABLES
  running,   \* the process runs
  master,    \* _master
  cache,     \* _cache, by name and spelling
  csv, age,  \* symbol_cache.csv: its master, Broken or Nothing; "fresh" or "old"
  asked,     \* what each thread is resolving
  probing,   \* which ticker it probes
  torn,      \* a process has died while it wrote the file
  days, blips

symVars == <<running, master, cache, csv, age, asked, probing, torn, days, blips>>

NoTickers == [n \in Names |-> "none"]
NoCache == [k \in Names \X Spellings |-> "none"]
Idle == [t \in Threads |-> Nothing]

SymInit ==
  /\ running = FALSE
  /\ master = NoTickers /\ cache = NoCache
  /\ csv = Nothing /\ age = "old"
  /\ asked = Idle /\ probing = [t \in Threads |-> "none"]
  /\ torn = FALSE /\ days = 0 /\ blips = 0

\* _save_master() rewrites the whole file, which starts a new day for it, or
\* fails quietly.
Save(m) ==
  /\ csv' \in {m, csv}
  /\ age' = IF csv' = m THEN "fresh" ELSE age

\* _build_master(): each source may fail; the static maps are always added.
\* They have thirty names, so the fallback list for "fewer than 30" is never
\* used (symbol_resolver.py:292).
Built(list) ==
  [n \in Names |-> IF n \in Static THEN "static" ELSE IF n \in list THEN "NS" ELSE "none"]

StartResolver ==
  /\ ~running /\ days < MaxDays
  /\ running' = TRUE
  /\ IF csv \notin {Nothing, Broken} /\ age = "fresh"
       THEN master' = csv /\ UNCHANGED <<csv, age>>
       ELSE \E list \in {{}, Listed} : master' = Built(list) /\ Save(master')
  /\ days' = days + 1
  /\ UNCHANGED <<cache, asked, probing, torn, blips>>

FirstProbe_Bse == "BO" \* mutant: the BSE listing is tried first

FirstProbe == "NS"

\* Rules 1 to 6 of to_yf()
Lookup(t, n, s) ==
  /\ running /\ asked[t] = Nothing
  /\ IF cache[<<n, s>>] # "none" THEN UNCHANGED <<cache, asked, probing>>
     ELSE IF s = "bare" /\ n \in Static
       THEN cache' = [cache EXCEPT ![<<n, s>>] = "static"] /\ UNCHANGED <<asked, probing>>
     ELSE IF master[n] # "none"
       THEN cache' = [cache EXCEPT ![<<n, s>>] = master[n]] /\ UNCHANGED <<asked, probing>>
     ELSE /\ asked' = [asked EXCEPT ![t] = <<n, s>>]
          /\ probing' = [probing EXCEPT ![t] = FirstProbe]
          /\ UNCHANGED cache
  /\ UNCHANGED <<running, master, csv, age, torn, days, blips>>

HasData(n, kind) == n \in (IF kind = "NS" THEN OnNSE ELSE OnBSE)

\* what is tried when a probe finds nothing
NextProbe(kind) == IF kind = "NS" THEN "BO" ELSE "none"

\* Rules 7 and 8.  _probe_yf() has data, or there are none, or the network fails,
\* which looks the same.
Probe(t) ==
  /\ asked[t] # Nothing
  /\ LET n == asked[t][1] kind == probing[t] IN
     \/ /\ HasData(n, kind)
        /\ master' = [master EXCEPT ![n] = kind]
        /\ cache' = [cache EXCEPT ![asked[t]] = kind]
        /\ Save(master')
        /\ asked' = [asked EXCEPT ![t] = Nothing]
        /\ probing' = [probing EXCEPT ![t] = "none"]
        /\ UNCHANGED blips
     \/ /\ HasData(n, kind) => blips < MaxBlips
        /\ blips' = IF HasData(n, kind) THEN blips + 1 ELSE blips
        /\ probing' = [probing EXCEPT ![t] = NextProbe(kind)]
        /\ asked' = [asked EXCEPT ![t] = IF NextProbe(kind) = "none" THEN Nothing ELSE asked[t]]
        /\ UNCHANGED <<master, cache, csv, age>>
  /\ UNCHANGED <<running, torn, days>>

\* What a process that dies in to_csv() leaves: nothing readable, or some rows,
\* the last of which may be cut, within its ticker or within a longer name.
TearCsv ==
  /\ \/ csv' = Broken
     \/ \E whole \in SUBSET Names, last \in Names :
          csv' = [n \in Names |-> IF n \in whole THEN master[n]
                                  ELSE IF n = last THEN "cut" ELSE "none"]
  /\ age' = "fresh" /\ torn' = TRUE

EndOfProcess ==
  /\ running
  /\ running' = FALSE
  /\ \/ UNCHANGED <<csv, age, torn>>
     \/ (\E t \in Threads : asked[t] # Nothing) /\ TearCsv
  /\ master' = NoTickers /\ cache' = NoCache
  /\ asked' = Idle /\ probing' = [t \in Threads |-> "none"]
  /\ UNCHANGED <<days, blips>>

DayOld ==
  /\ age = "fresh" /\ days < MaxDays
  /\ age' = "old" /\ days' = days + 1
  /\ UNCHANGED <<running, master, cache, csv, asked, probing, torn, blips>>

SymNext ==
  \/ StartResolver
  \/ \E t \in Threads :
       \/ \E n \in Names, s \in Spellings : Lookup(t, n, s)
       \/ Probe(t)
  \/ EndOfProcess
  \/ DayOld

SymSpec == SymInit /\ [][SymNext]_symVars

-----------------------------------------------------------------------------

Tickers == {"none", "static", "NS", "BO", "cut"}

SymTypeOK ==
  /\ running \in BOOLEAN
  /\ master \in [Names -> Tickers]
  /\ cache \in [Names \X Spellings -> Tickers]
  /\ csv \in {Nothing, Broken} \cup [Names -> Tickers]
  /\ age \in {"fresh", "old"}
  /\ \A t \in Threads : (asked[t] = Nothing) <=> (probing[t] = "none")
  /\ torn \in BOOLEAN /\ days \in 0..MaxDays /\ blips \in 0..MaxBlips

\* A stock that trades on NSE is taken for its BSE listing only after the
\* network has failed a probe, however threads, restarts and the file have
\* spread the answer; without such a failure all spellings of a name agree.  A
\* name of the static maps has no other ticker than theirs, unless it was typed
\* with a suffix and a file was torn: the torn file may lack the name or cut its
\* ticker, and a stock of the overrides is then probed as any other (to_yf()).
TickerFaithful ==
  \A n \in Names, s \in Spellings :
    /\ cache[<<n, s>>] = "cut" => torn
    /\ n \in Static /\ (s = "bare" \/ ~torn) => cache[<<n, s>>] \in {"none", "static"}
    /\ cache[<<n, s>>] = "BO" => n \in OnBSE /\ (n \in OnNSE => blips > 0)
    /\ cache[<<n, s>>] = "NS" => n \in OnNSE
    /\ cache[<<n, s>>] # "none" /\ blips = 0 /\ ~torn => master[n] = cache[<<n, s>>]

=============================================================================
