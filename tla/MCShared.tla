-------------------------------- MODULE MCShared -------------------------------
(* Parts that threads or processes share, most of them without a lock, and  *)
(* that share nothing with each other: the instrument master, the resolver  *)
(* of tickers, the session and the instrument master of the Angel One       *)
(* provider, the live router of the API, the pool of database connections   *)
(* and the audit trail.  A behaviour is one of one of them.                 *)
EXTENDS InstrumentStore, SymbolResolver, AngelSession, ScripMaster,
        LiveApi, ConnectionPool, AuditLog, TLC

vars == <<storeVars, symVars, sessionVars, scripVars, apiVars, poolVars, auditVars>>

Init == /\ StoreInit /\ SymInit /\ SessionInit /\ ScripInit
        /\ ApiInit /\ PoolInit /\ AuditInit

\* The parts in use; a step is one of the part in use, or begins to use one.
StoreUsed == starts # 0
SymUsed == days # 0
SessionUsed == attempted \/ tick # 0 \/ \E t \in Fetchers : spot[t] # "idle"
ScripUsed == hour # 0 \/ disk # NoMaster \/ failedAt # Never \/ \E t \in Loaders : step[t] # "idle"
ApiUsed == requests # 0
PoolUsed == uses # 0
TrailUsed == records # 0 \/ tears # 0 \/ today # 1

NamesUsed == StoreUsed \/ SymUsed
AngelUsed == SessionUsed \/ ScripUsed
ServicesUsed == ApiUsed \/ PoolUsed \/ TrailUsed

namesVars == <<storeVars, symVars>>
angelVars == <<sessionVars, scripVars>>
serviceVars == <<apiVars, poolVars, auditVars>>

Next ==
  \/ /\ ~AngelUsed /\ ~ServicesUsed
     /\ UNCHANGED <<angelVars, serviceVars>>
     /\ \/ ~SymUsed /\ StoreNext /\ UNCHANGED symVars
        \/ ~StoreUsed /\ SymNext /\ UNCHANGED storeVars
  \/ /\ ~NamesUsed /\ ~ServicesUsed
     /\ UNCHANGED <<namesVars, serviceVars>>
     /\ \/ ~ScripUsed /\ SessionNext /\ UNCHANGED scripVars
        \/ ~SessionUsed /\ ScripNext /\ UNCHANGED sessionVars
  \/ /\ ~NamesUsed /\ ~AngelUsed
     /\ UNCHANGED <<namesVars, angelVars>>
     /\ \/ ~PoolUsed /\ ~TrailUsed /\ ApiNext /\ UNCHANGED <<poolVars, auditVars>>
        \/ ~ApiUsed /\ ~TrailUsed /\ PoolNext /\ UNCHANGED <<apiVars, auditVars>>
        \/ ~ApiUsed /\ ~PoolUsed /\ AuditNext /\ UNCHANGED <<apiVars, poolVars>>

Spec == Init /\ [][Next]_vars

TypeOK ==
  /\ StoreTypeOK /\ SymTypeOK /\ SessionTypeOK /\ ScripTypeOK
  /\ ApiTypeOK /\ PoolTypeOK /\ AuditTypeOK

\* What a name resolves to is what the master, the exchanges or the built-in tables
\* have for it, within what ResolveFaithful leaves to the search and
\* TickerFaithful to a torn file or a failed probe (instruments/resolver.py,
\* symbol_resolver.py).
NamesFaithful == ResolveFaithful /\ TickerFaithful

MCPartOf == {<<"LT", "GSLT">>}
MCLimits == {-1, 1, 5}
\* The sets of processes are one set in the instance.
Symmetry == Permutations(Users)
=============================================================================
