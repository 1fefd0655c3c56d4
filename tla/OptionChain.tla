------------------------------- MODULE OptionChain -----------------------------
(***************************************************************************)
(* OptionChainLoader (derivatives/options.py): a chain of option contracts *)
(* around the spot, from the broker's API or else from the instrument      *)
(* store, and the strike at the money.  A contract is its expiry and its   *)
(* strike.                                                                 *)
(***************************************************************************)
EXTENDS Integers, FiniteSets, FiniteSetsExt, Ranks

CONSTANTS
  Contracts,      \* sets of contracts a source may have
  Spots,
  Width,          \* strikes_around of get_chain(); get_atm_strike() asks for 1
  Calendar,       \* days: date, weekday (Monday is 0), days in the month
  Expiries, NoExpiry, NoSpot

ASSUME OptionChainAssumption ==
  /\ \A S \in Contracts : IsFiniteSet(S) /\ \A c \in S : c.strike \in Nat /\ c.expiry \in Expiries
  /\ Spots \subseteq Nat /\ Width \in Nat
  /\ \A d \in Calendar : d.weekday \in 0..6 /\ d.length \in Nat /\ d.date \in 1..d.length

VARIABLES
  query,     \* expiry, spot and width asked for, and the day of it
  api, db,   \* what the two sources have
  apiFails,  \* there is no API client, or it raises
  chain, cameFrom,
  atm        \* get_atm_strike()

chainVars == <<query, api, db, apiFails, chain, cameFrom, atm>>

NoQuery == [expiry |-> NoExpiry, spot |-> NoSpot, width |-> -1,
            today |-> [date |-> 0, weekday |-> 0, length |-> 0]]

ChainInit ==
  /\ query = NoQuery
  /\ api = {} /\ db = {} /\ apiFails = FALSE
  /\ chain = {} /\ cameFrom = "" /\ atm = -1

DaysToThursday(d) == IF d.weekday = 3 THEN 7 ELSE (3 - d.weekday) % 7

\* _nearest_expiry(): today.replace(day=...) raises at the end of a month.
ExpiryRaises(d) == d.date + DaysToThursday(d) > d.length

Strikes(S) == {c.strike : c \in S}
Distance(k, spot) == IF k > spot THEN k - spot ELSE spot - k

\* min() takes the first of equal distances, the lower strike.
Nearest(ks, spot) ==
  CHOOSE k \in ks : \A l \in ks :
    Distance(k, spot) < Distance(l, spot) \/ (Distance(k, spot) = Distance(l, spot) /\ k <= l)

FilterStrikes_NoClamp(S, spot, n) == \* mutant: idx - n counts from the end
  IF spot = NoSpot \/ S = {} THEN S
  ELSE LET ks == Strikes(S)
           idx == Index(ks, Nearest(ks, spot))
           lo == AtIndex(ks, (idx - n) % Cardinality(ks))
           hi == AtIndex(ks, Min({Cardinality(ks) - 1, idx + n}))
       IN {c \in S : lo <= c.strike /\ c.strike <= hi}

\* _filter_strikes()
FilterStrikes(S, spot, n) ==
  IF spot = NoSpot \/ S = {} THEN S
  ELSE LET ks == Strikes(S)
           idx == Index(ks, Nearest(ks, spot))
           lo == AtIndex(ks, Max({0, idx - n}))
           hi == AtIndex(ks, Min({Cardinality(ks) - 1, idx + n}))
       IN {c \in S : lo <= c.strike /\ c.strike <= hi}

\* _load_from_api(): without an expiry the nearest one has to be found first.
FromApi(q) == ~apiFails' /\ (q.expiry = NoExpiry => ~ExpiryRaises(q.today))

\* The API has the contracts of one expiry.
ApiAnswer(q, S) ==
  S \in {T \in Contracts : Cardinality({c.expiry : c \in T}) <= 1
                           /\ (q.expiry # NoExpiry => \A c \in T : c.expiry = q.expiry)}

\* _load_from_db() compares the date of a contract with the text of the expiry.
DbMatches(q) == IF q.expiry = NoExpiry THEN db' ELSE {}

\* Without a chain, the spot to the nearest fifty, a half to the even one.
RoundFifty(spot) ==
  LET q == spot \div 50 r == spot % 50 IN
  50 * (IF r > 25 \/ (r = 25 /\ q % 2 = 1) THEN q + 1 ELSE q)

\* get_chain(); one strike on either side of the spot is what get_atm_strike() asks
\* for.
GetChain(q, a, d) ==
  /\ query' = q /\ api' = a /\ db' = d
  /\ apiFails' \in BOOLEAN
  /\ ApiAnswer(q, a)
  /\ cameFrom' = IF FromApi(q) THEN "api" ELSE "db"
  /\ chain' = FilterStrikes(IF FromApi(q) THEN a ELSE DbMatches(q), q.spot, q.width)
  /\ atm' = IF q.spot = NoSpot \/ q.width # 1 THEN -1
            ELSE IF chain' = {} THEN RoundFifty(q.spot)
            ELSE Nearest(Strikes(chain'), q.spot)

ChainNext ==
  /\ query = NoQuery
  /\ \E e \in Expiries \cup {NoExpiry}, s \in Spots \cup {NoSpot}, n \in {1, Width}, t \in Calendar,
        a \in Contracts, d \in Contracts :
          GetChain([expiry |-> e, spot |-> s, width |-> n, today |-> t], a, d)

ChainSpec == ChainInit /\ [][ChainNext]_chainVars

-----------------------------------------------------------------------------

ChainTypeOK ==
  /\ query = NoQuery \/ query.width \in {1, Width}
  /\ chain \subseteq api \cup db /\ cameFrom \in {"", "api", "db"}
  /\ atm \in Nat \cup {-1}

\* The strike at the money is the nearest the source has, although it is looked
\* for among three strikes only; the chain holds it, at most the width on either
\* side of it, and fewer only where the source ends, without a gap.  The chain is
\* of one expiry, and of the one asked for, unless it comes from the store, where
\* an expiry asked for matches nothing and none matches all.  It comes from there
\* although the API answers only when Thursday is in the next month (get_chain(),
\* _filter_strikes(), _nearest_expiry()).
ChainSound ==
  query # NoQuery =>
    LET offered == IF cameFrom = "api" THEN api ELSE IF query.expiry = NoExpiry THEN db ELSE {}
        ks == Strikes(chain)
    IN
    /\ query.spot # NoSpot =>
         IF offered = {} THEN chain = {} /\ (query.width = 1 => Distance(atm, query.spot) <= 25)
         ELSE LET mid == IF query.width = 1 THEN atm ELSE Nearest(ks, query.spot)
                  below == {k \in ks : k < mid}
                  above == {k \in ks : k > mid}
              IN
              /\ mid \in ks
              /\ \A k \in Strikes(offered) : Distance(mid, query.spot) <= Distance(k, query.spot)
              /\ \A flank \in {below, above} : Cardinality(flank) <= query.width
              /\ \A c \in offered \ chain :
                   \/ c.strike < Min(ks) /\ Cardinality(below) = query.width
                   \/ c.strike > Max(ks) /\ Cardinality(above) = query.width
    /\ Cardinality({c.expiry : c \in chain}) > 1 => cameFrom = "db" /\ query.expiry = NoExpiry
    /\ query.expiry # NoExpiry => \A c \in chain : c.expiry = query.expiry
    /\ cameFrom = "db" /\ ~apiFails =>
         query.expiry = NoExpiry /\ query.today.date + 7 > query.today.length

=============================================================================
