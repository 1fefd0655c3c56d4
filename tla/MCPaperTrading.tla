----------------------------- MODULE MCPaperTrading -----------------------------
(* What paper trading rests on, for TLC: a day of the broker and its        *)
(* session, the caches that its bars come from, and the paper account of a  *)
(* runner.  They share no state: a behaviour uses one of them at a time.    *)
EXTENDS TradingDay, DataManager, PaperPortfolio, TLC

\* A part is at rest in its first state; the days begin in several, and it is the
\* quiet one that lets another part be used.
DayAtRest == Init /\ phase = "early" /\ ~trading /\ ~scheduled
CacheAtRest == CacheInit
AccountAtRest == AccountInit

PaperInit == Init /\ CacheInit /\ AccountInit

PaperNext ==
  \/ CacheAtRest /\ AccountAtRest /\ Next /\ UNCHANGED <<cacheVars, accountVars>>
  \/ DayAtRest /\ AccountAtRest /\ CacheNext /\ UNCHANGED <<vars, accountVars>>
  \/ DayAtRest /\ CacheAtRest /\ AccountNext /\ UNCHANGED <<vars, cacheVars>>

PaperSpec == PaperInit /\ [][PaperNext]_<<vars, cacheVars, accountVars>>

\* The callers of the caches are alike, and so are the slots that are not on disk.
Symmetry == Permutations(Callers) \cup Permutations(Slots \ Persisted)
=============================================================================
