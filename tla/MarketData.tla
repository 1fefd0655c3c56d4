------------------------------- MODULE MarketData ------------------------------
(***************************************************************************)
(* How a request for bars that no cache answers is served: DataManager.    *)
(* get() asks Angel One (data/providers/angel.py), then yfinance through   *)
(* DataFetcher.fetch() (data/fetcher.py), which adapts the period and      *)
(* tries a shorter one, and serves what DataValidator.validate()           *)
(* (data/validator.py) leaves of the answer.                               *)
(*                                                                         *)
(* A frame is a sequence of bars, a bar its time and what is to be said of *)
(* it: its close is positive, not a number, zero or negative; or the bar   *)
(* breaks a rule on high and low or on the volume.                         *)
(***************************************************************************)
EXTENDS Integers, Sequences, SequencesExt, FiniteSets, Ranks

CONSTANTS
  Requests,            \* interval, period, min_bars, whether it is a weekend
  Times, SatSun,       \* times of bars, and those on a weekend
  MaxRows,             \* bars in an answer (bounds the exploration)
  FetchMin,            \* min_bars with which get() calls fetch() (2)
  ValidMin             \* min_bars of the validator (5)

ASSUME MarketDataAssumption ==
  /\ Times \subseteq Nat /\ SatSun \subseteq Times
  /\ Requests \subseteq [interval : STRING, period : STRING, min : Nat, weekend : BOOLEAN]
  /\ MaxRows \in Nat /\ FetchMin \in Nat /\ ValidMin \in Nat

VARIABLES
  phase,     \* of the request
  request,
  used,      \* the period that yfinance is asked for
  emptied,   \* it had nothing for the period (history)
  raw,       \* the bars a provider answered
  source,    \* which one
  frame,     \* what is left of them
  passed     \* the validator's verdict

feedVars == <<phase, request, used, emptied, raw, source, frame, passed>>

Kinds == {"good", "nan", "zero", "negative", "broken"}
AnyBar == [at : Times, kind : Kinds]
NoBars == [interval |-> "", period |-> "", min |-> 0, weekend |-> FALSE]

\* TO_DAYS; a period that is not in it counts as 9999 days.
ToDays(p) ==
  CASE p = "1d" -> 1 [] p = "2d" -> 2 [] p = "5d" -> 5 [] p = "7d" -> 7
    [] p = "1mo" -> 30 [] p \in {"2mo", "60d"} -> 60 [] p = "3mo" -> 90
    [] p = "6mo" -> 180 [] p = "1y" -> 365 [] p \in {"2y", "730d"} -> 730
    [] p = "3y" -> 1095 [] p = "5y" -> 1825 [] p = "10y" -> 3650 [] OTHER -> 9999

\* _INTERVAL_CAPS
Cap(interval) ==
  CASE interval = "1m" -> "7d"
    [] interval \in {"2m", "3m", "5m", "15m", "30m", "90m"} -> "60d"
    [] interval \in {"60m", "1h"} -> "730d"
    [] OTHER -> "none"

WeekendSafePeriod_OneDay(weekend, p) == \* mutant: "2d" is forgotten
  IF weekend /\ p = "1d" THEN "5d" ELSE p

WeekendSafePeriod(weekend, p) == IF weekend /\ p \in {"1d", "2d"} THEN "5d" ELSE p

CapPeriod(interval, p) ==
  IF Cap(interval) # "none" /\ ToDays(p) > ToDays(Cap(interval)) THEN Cap(interval) ELSE p

\* What fetch() does not try again with "5d".
LongPeriods == {"5d", "1mo", "3mo", "6mo", "1y", "2y", "5y", "max"}

Daily == {"1d", "1wk", "1mo"}

FeedInit ==
  /\ phase = "idle" /\ request = NoBars /\ used = "" /\ emptied = FALSE
  /\ raw = <<>> /\ source = "" /\ frame = <<>> /\ passed = FALSE

GetBars(r) ==
  /\ phase = "idle"
  /\ request' = r
  /\ phase' = "angel"
  /\ UNCHANGED <<used, emptied, raw, source, frame, passed>>

Closed == {b \in AnyBar : b.kind # "nan"}
Where(s, B) == Picked(s, {i \in 1..Len(s) : s[i] \in B})

InOrder(s) == \A i, j \in 1..Len(s) : i <= j => s[i].at <= s[j].at
IsLast(s, i) == \A j \in (i + 1)..Len(s) : s[j].at # s[i].at
Deduplicated(s) == Picked(s, {i \in 1..Len(s) : IsLast(s, i)})

\* sort_index(), then the last bar of each time.  The sort is not stable: which of
\* the bars of one time is the last is open, unless they came in order.
OnePerTime(s) ==
  LET times == {s[i].at : i \in 1..Len(s)} IN
  {[n \in 1..Cardinality(times) |-> s[keep[AtIndex(times, n - 1)]]] :
     keep \in {k \in [times -> 1..Len(s)] :
                 \A t \in times : s[k[t]].at = t /\ (InOrder(s) => IsLast(s, k[t]))}}

\* AngelProvider.fetch(): an exception and an empty answer lead to yfinance, for
\* the period and the interval as fetch() adapts them.
Angel(answer) ==
  /\ phase = "angel"
  /\ \E left \in OnePerTime(Where(answer, Closed)) :
       IF left # <<>>
         THEN /\ raw' = answer /\ source' = "angel" /\ frame' = left
              /\ phase' = "validate"
              /\ UNCHANGED used
         ELSE /\ used' = CapPeriod(request.interval,
                                   WeekendSafePeriod(request.weekend, request.period))
              /\ phase' = "yfinance"
              /\ UNCHANGED <<raw, source, frame>>
  /\ UNCHANGED <<request, emptied, passed>>

\* history(): nothing, or bars
Empty ==
  /\ phase = "yfinance"
  /\ IF used \notin LongPeriods
       THEN used' = "5d" /\ emptied' = TRUE /\ UNCHANGED phase
       ELSE phase' = "raised" /\ UNCHANGED <<used, emptied>>
  /\ UNCHANGED <<request, raw, source, frame, passed>>

Fetched_Unclean(answer) == \* mutant: the rows without a close are kept
  /\ phase = "yfinance" /\ answer # <<>>
  /\ raw' = answer /\ source' = "yfinance"
  /\ frame' \in OnePerTime(answer)
  /\ phase' = IF Len(frame') < FetchMin THEN "raised" ELSE "validate"
  /\ UNCHANGED <<request, used, emptied, passed>>

\* Of two bars of one time the last is kept, then dropped if it has no close.
Fetched(answer) ==
  /\ phase = "yfinance" /\ answer # <<>>
  /\ raw' = answer /\ source' = "yfinance"
  /\ frame' \in {Where(s, Closed) : s \in OnePerTime(answer)}
  /\ phase' = IF Len(frame') < FetchMin THEN "raised" ELSE "validate"
  /\ UNCHANGED <<request, used, emptied, passed>>

\* The rows steps 2 to 9 of validate() leave.  A row whose close is negative goes
\* only if there is one whose close is zero.
Cleaned(s) ==
  LET closed == Where(Deduplicated(s), Closed)
      zeros == \E i \in 1..Len(closed) : closed[i].kind = "zero"
  IN Where(closed, {b \in AnyBar : /\ b.kind \notin {"zero", "broken"}
                                   /\ zeros => b.kind # "negative"
                                   /\ request.interval = "1d" => b.at \notin SatSun})

\* More than one close in twenty is not a number.
TooManyNaN(s) == 20 * Cardinality({i \in 1..Len(s) : s[i].kind = "nan"}) > Len(s)

\* validate(), and what get() makes of it: the verdict is only logged
Validate ==
  /\ phase = "validate"
  /\ frame' = Cleaned(frame)
  /\ passed' = (~TooManyNaN(frame) /\ Len(frame') >= ValidMin)
  /\ phase' = IF Len(frame') < request.min THEN "raised" ELSE "served"
  /\ UNCHANGED <<request, used, emptied, raw, source>>

FeedNext ==
  \/ \E r \in Requests : GetBars(r)
  \/ /\ phase \in {"angel", "yfinance"}
     /\ \E answer \in BoundedSeq(AnyBar, MaxRows) : Angel(answer) \/ Fetched(answer)
  \/ Empty
  \/ Validate

FeedSpec == FeedInit /\ [][FeedNext]_feedVars

-----------------------------------------------------------------------------

FeedTypeOK ==
  /\ phase \in {"idle", "angel", "yfinance", "validate", "served", "raised"}
  /\ used \in {"", "5d", "7d", "60d", "730d"} \cup {r.period : r \in Requests}
  /\ source \in {"", "angel", "yfinance"}
  /\ \A i \in 1..Len(frame) : frame[i] \in AnyBar
  /\ Len(frame) <= Len(raw) /\ Len(raw) <= MaxRows
  /\ passed => phase \in {"served", "raised"}

Alone(b) == Cardinality({i \in 1..Len(raw) : raw[i].at = b.at}) = 1

\* The bars get() serves are in order of time, one for each time, with a close
\* that is a number and not zero and, if the answer had a zero close, not negative
\* either; no good bar of the answer is lost but for another of its time or the
\* weekend.  They may have failed the validator, but only by being too few: the
\* rule on closes that are not a number cannot fire, for both providers have
\* dropped them.  yfinance is asked for less than the request only because of
\* the interval's cap or because it had nothing, and never for two days or less
\* on a weekend (get(), fetch(), validate()).
FeedSound ==
  phase = "served" =>
    /\ \A i \in 1..(Len(frame) - 1) : frame[i].at < frame[i + 1].at
    /\ \A i \in 1..Len(frame) :
         /\ frame[i].kind \in {"good", "negative"}
         /\ frame[i].kind = "negative" =>
              ~\E j \in 1..Len(raw) : raw[j].kind = "zero" /\ Alone(raw[j])
    /\ \A i \in 1..Len(raw) :
         raw[i].kind = "good" /\ Alone(raw[i])
         /\ (request.interval = "1d" => raw[i].at \notin SatSun) =>
              \E j \in 1..Len(frame) : frame[j] = raw[i]
    /\ Len(frame) >= request.min
    /\ ~passed => Len(frame) < ValidMin
    /\ source = "yfinance" =>
         /\ ToDays(used) < ToDays(request.period) => emptied \/ used = Cap(request.interval)
         /\ request.weekend => ToDays(used) > 2

=============================================================================
