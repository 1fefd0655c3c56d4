----------------------------- MODULE WalkForward -----------------------------
(***************************************************************************)
(* WalkForwardTester.run() (backtesting/walk_forward.py) with the          *)
(* optimizer it calls (backtesting/optimizer.py).  First all windows are   *)
(* laid out by relativedelta arithmetic, which clips a day that a month    *)
(* does not have, then each is optimised on its training part and scored.  *)
(*                                                                         *)
(* A date is a month counted from a January and a day; an end is kept as   *)
(* the day after it, since "+ months - 1 day" is always followed by        *)
(* "+ 1 day".  February has 28 days.  As with PortfolioEngine the frame    *)
(* comes from a caller that replaces _fetch().                             *)
(***************************************************************************)
EXTENDS Integers, Sequences

CONSTANTS
  StartDays,    \* days of the month of from_date
  StartMonths,  \* months of from_date, counted from 0
  Lengths,      \* train_months, validate_months and forward_months
  EndMonth,     \* to_date is the last day of the month before (bounds the exploration)
  Combos,       \* number of parameter combinations, tried as 1..Combos
  Failed        \* the score of a trial that raises or has invalid parameters

ASSUME WalkForwardAssumption ==
  /\ StartDays \subseteq 1..31 /\ StartMonths \subseteq Nat /\ EndMonth \in Nat
  /\ Lengths \subseteq Nat \ {0} /\ Combos \in Nat /\ Failed \notin Int

VARIABLES
  wfAt,      \* "idle", "build", "run", "done" or "raised"
  months,    \* the three lengths
  metric,
  cursor,    \* start of the window to build
  windows,   \* the windows built
  results,   \* number of windows run
  best       \* best_params of the last window run, 0 if there is none

wfVars == <<wfAt, months, metric, cursor, windows, results, best>>

DaysIn(m) == CASE m % 12 = 1 -> 28
               [] m % 12 \in {3, 5, 8, 10} -> 30
               [] OTHER -> 31

Plus(x, n) ==
  LET d == DaysIn(x.month + n) IN
  [month |-> x.month + n, day |-> IF x.day > d THEN d ELSE x.day]

WfInit ==
  /\ wfAt = "idle"
  /\ months = [train |-> 12, validate |-> 3, forward |-> 3]
  /\ metric = "sharpe"
  /\ cursor = [month |-> 0, day |-> 1]
  /\ windows = <<>> /\ results = 0 /\ best = 0

RunWalk(from, lengths, m) ==
  /\ from.day <= DaysIn(from.month)
  /\ wfAt' = "build"
  /\ cursor' = from /\ months' = lengths /\ metric' = m
  /\ UNCHANGED <<windows, results, best>>

Window(c) ==
  LET v == Plus(c, months.train)
      f == Plus(v, months.validate)
  IN [train |-> c, validate |-> v, forward |-> f, end |-> Plus(f, months.forward)]

Fits(w) == w.end.month < EndMonth \/ (w.end.month = EndMonth /\ w.end.day = 1)

BuildWindow_SlideByTrain == \* mutant: cursor += train_months
  /\ wfAt = "build"
  /\ IF Fits(Window(cursor))
       THEN /\ windows' = Append(windows, Window(cursor))
            /\ cursor' = Plus(cursor, months.train)
            /\ UNCHANGED wfAt
       ELSE /\ wfAt' = IF windows = <<>> THEN "done" ELSE "run"
            /\ UNCHANGED <<windows, cursor>>
  /\ UNCHANGED <<months, metric, results, best>>

\* _build_windows(): the next window starts forward_months later
BuildWindow ==
  /\ wfAt = "build"
  /\ IF Fits(Window(cursor))
       THEN /\ windows' = Append(windows, Window(cursor))
            /\ cursor' = Plus(cursor, months.forward)
            /\ UNCHANGED wfAt
       ELSE /\ wfAt' = IF windows = <<>> THEN "done" ELSE "run"
            /\ UNCHANGED <<windows, cursor>>
  /\ UNCHANGED <<months, metric, results, best>>

\* The engine's BacktestResult has no "metrics": every score but the win rate
\* raises AttributeError, which _run_trials() takes for a failed trial.
Score(rate) == IF metric = "win_rate" THEN rate ELSE Failed

\* _run_trials(): the first of the best scores, the first combination if all failed
Optimise(rates) ==
  LET scored == {c \in 1..Combos : Score(rates[c]) # Failed} IN
  IF scored = {} THEN IF Combos > 0 THEN 1 ELSE 0
  ELSE CHOOSE c \in scored : \A d \in scored :
         \/ Score(rates[d]) < Score(rates[c])
         \/ Score(rates[d]) = Score(rates[c]) /\ c <= d

\* _run_window(): whether the forward part gives a result decides more than its
\* score, because the equity Series of a result is used as a truth value.
RunWindow(rates, forwardScored) ==
  /\ wfAt = "run" /\ results < Len(windows)
  /\ best' = Optimise(rates)
  /\ IF forwardScored
       THEN wfAt' = "raised" /\ UNCHANGED results
       ELSE wfAt' = wfAt /\ results' = results + 1
  /\ UNCHANGED <<months, metric, cursor, windows>>

\* The stitched curve of no equities is empty.
Stitch ==
  /\ wfAt = "run" /\ results = Len(windows)
  /\ wfAt' = "done"
  /\ UNCHANGED <<months, metric, cursor, windows, results, best>>

WfNext ==
  \/ /\ wfAt = "idle"
     /\ \E from \in [month : StartMonths, day : StartDays],
           lengths \in [train : Lengths, validate : Lengths, forward : Lengths],
           m \in {"sharpe", "win_rate"} : RunWalk(from, lengths, m)
  \/ BuildWindow
  \/ \E rates \in [1..Combos -> {0, 1, Failed}], scored \in BOOLEAN : RunWindow(rates, scored)
  \/ Stitch

-----------------------------------------------------------------------------

WfTypeOK ==
  /\ wfAt \in {"idle", "build", "run", "done", "raised"}
  /\ metric \in {"sharpe", "win_rate"}
  /\ cursor.day <= DaysIn(cursor.month)
  /\ results \in 0..Len(windows) /\ best \in 0..Combos

\* Days from date x to date y.
YearDay == <<0, 31, 59, 90, 120, 151, 181, 212, 243, 273, 304, 334>>

Ordinal(x) == 365 * (x.month \div 12) + YearDay[(x.month % 12) + 1] + x.day

Before(x, y) == Ordinal(y) - Ordinal(x)

\* The out-of-sample parts are what the stitched curve chains "end-to-end"
\* (walk_forward.py:335).  Each starts where the last has ended, unless the
\* analysis starts on a day that some months do not have: then up to three days
\* are lost, or counted twice, between two windows (_build_windows()).
WfForwardsChain ==
  \A i \in 1..(Len(windows) - 1) :
    LET overlap == Before(windows[i + 1].forward, windows[i].end) IN
    /\ overlap \in -3..3
    /\ windows[1].train.day <= 28 => overlap = 0

=============================================================================
