-------------------------------- MODULE Signals --------------------------------
(***************************************************************************)
(* Strategies that read a whole frame of bars: opening range breakout and  *)
(* VWAP deviation (strategies/plugins/orb.py, vwap.py) and the covered     *)
(* call (derivatives/options.py), each with generate_signals() for a       *)
(* backtest, the first two with on_bar() for trading too; and the ensemble *)
(* that lets them vote (engine/ensemble.py).                               *)
(*                                                                         *)
(* The frame grows by a bar at a time.  A bar is its session (day), its    *)
(* place in it (slot: -1 before the open, 0 in the opening range, 1        *)
(* later), low, high, close, volume, and rv, the realised volatility of    *)
(* the last twenty bars, which is NoRv as long as there are fewer.         *)
(***************************************************************************)
EXTENDS Integers, Sequences, FiniteSets, FiniteSetsExt, Functions

CONSTANTS
  Shapes,       \* bars but for day and slot
  NoRv,
  DeviationPct, \* of the VWAP strategy
  RankIn,       \* iv_rank_threshold, in percent
  RvWindow, RvMin, \* iv_window, and its min_periods (20)
  Weights,      \* of the strategies in the ensemble: a set of functions
  MinConfidence,\* in percent
  MinWindow,    \* bars below which vote_series() does not vote (5)
  MaxFrame, LastSession \* bound the exploration

Voters == {"orb", "vwap", "covered_call"}

ASSUME SignalsAssumption ==
  /\ \A s \in Shapes : /\ {s.low, s.high, s.close} \subseteq Nat \ {0} /\ s.volume \in Nat
                       /\ s.low <= s.close /\ s.close <= s.high
                       /\ s.rv \in Nat \cup {NoRv}
  /\ DeviationPct \in 1..99 /\ RankIn \in 0..100 /\ RvWindow \in Nat \ {0} /\ RvMin \in Nat
  /\ Weights \subseteq [Voters -> Nat] /\ MinConfidence \in 0..100
  /\ MinWindow \in Nat /\ MaxFrame \in Nat /\ LastSession \in Nat

VARIABLES
  bars_so_far,
  assembled,
  weights,     \* of this ensemble
  broken,      \* voters whose generate_signals() raises
  onBar,       \* what on_bar() said at each bar: the signal of orb and of vwap
  series       \* vote_series()

signalVars == <<bars_so_far, assembled, weights, broken, onBar, series>>

Sign(n) == IF n > 0 THEN 1 ELSE IF n < 0 THEN -1 ELSE 0

\* The opening range of the session of bar i: everything before its end, the bars
\* before the open included.
RangeBars(h, i) == {j \in 1..Len(h) : h[j].day = h[i].day /\ h[j].slot <= 0}

Breakout(h, i) ==
  LET bars == RangeBars(h, i) IN
  IF bars = {} THEN 0
  ELSE IF h[i].close > Max({h[j].high : j \in bars}) THEN 1
  ELSE IF h[i].close < Min({h[j].low : j \in bars}) THEN -1
  ELSE 0

\* generate_signals() looks at the bars after the range only, on_bar() at the
\* last one wherever it is.
OrbSignal(h, i) == IF h[i].slot = 1 THEN Breakout(h, i) ELSE 0
OrbOnBar(h) == IF Len(h) < 2 THEN 0 ELSE Breakout(h, Len(h))

SessionUpTo_WholeDay(h, i) == \* mutant: the total of the session
  {j \in 1..Len(h) : h[j].day = h[i].day}

\* groupby(dates).cumsum()
SessionUpTo(h, i) == {j \in 1..i : h[j].day = h[i].day}

\* _compute_vwap() is Tpv / (3 * Vol); without volume there is none.
Tpv(h, i) ==
  SumFunctionOnSet([j \in 1..Len(h) |-> (h[j].high + h[j].low + h[j].close) * h[j].volume],
                   SessionUpTo(h, i))
Vol(h, i) == SumFunctionOnSet([j \in 1..Len(h) |-> h[j].volume], SessionUpTo(h, i))

VwapSignal(h, i) ==
  LET over == 3 * Vol(h, i) * h[i].close - Tpv(h, i) IN
  IF Vol(h, i) = 0 THEN 0
  ELSE IF 100 * over < -(DeviationPct * Tpv(h, i)) THEN 1
  ELSE IF 100 * over > DeviationPct * Tpv(h, i) THEN -1
  ELSE 0
VwapOnBar(h) == IF Len(h) < 2 THEN 0 ELSE VwapSignal(h, Len(h))

\* The rolling window has a minimum and a maximum from RvMin values on.
RvRows(h, i) == {j \in 1..i : j > i - RvWindow /\ h[j].rv # NoRv}
Ranked(h, i) == h[i].rv # NoRv /\ Cardinality(RvRows(h, i)) >= RvMin

\* iv_rank >= tenths/10 of the threshold.  The 1e-9 in the divisor puts a rank
\* that should be equal to it below.
RankAtLeast(h, i, tenths) ==
  LET rvs == {h[j].rv : j \in RvRows(h, i)} lo == Min(rvs) hi == Max(rvs)
  IN RankIn = 0 \/ 1000 * (h[i].rv - lo) > RankIn * tenths * (hi - lo)

\* The loop of CoveredCallStrategy.generate_signals(): whether in_trade, after
\* each bar, and the signal where that changes.
InTrade(h) ==
  LET in[i \in 0..Len(h)] ==
        IF i = 0 THEN FALSE
        ELSE IF ~Ranked(h, i) THEN in[i - 1]
        ELSE IF in[i - 1] THEN RankAtLeast(h, i, 7)
        ELSE RankAtLeast(h, i, 10)
  IN in
CoveredCallSignal(h, i) ==
  LET in == InTrade(h) IN
  IF in[i] /\ ~in[i - 1] THEN 1 ELSE IF in[i - 1] /\ ~in[i] THEN -1 ELSE 0

Signal(v, h, i) ==
  IF v \in broken THEN 0
  ELSE IF v = "orb" THEN OrbSignal(h, i)
  ELSE IF v = "vwap" THEN VwapSignal(h, i)
  ELSE CoveredCallSignal(h, i)

\* vote(), of the last bar of h: a strategy that raises votes 0, and its weight
\* counts.
Total == SumFunctionOnSet(weights, Voters)
Vote(h, i) ==
  LET sum == SumFunctionOnSet([v \in Voters |-> weights[v] * Signal(v, h, i)], Voters) IN
  IF Total = 0 \/ 100 * (IF sum < 0 THEN -sum ELSE sum) < MinConfidence * Total
    THEN 0 ELSE Sign(sum)

\* vote_series(), which votes on the frame up to each bar
VoteSeries(h) == IF Len(h) < MinWindow THEN 0 ELSE Vote(h, Len(h))

SignalsInit ==
  /\ bars_so_far = <<>> /\ onBar = <<>> /\ series = <<>>
  /\ assembled = FALSE
  /\ weights = [v \in Voters |-> 0] /\ broken = {}

\* SignalEnsemble()
Assemble ==
  /\ ~assembled /\ assembled' = TRUE
  /\ weights' \in Weights
  /\ broken' \in {{}, {"vwap"}}
  /\ UNCHANGED <<bars_so_far, onBar, series>>

\* Sessions follow one another, and the slots of a session.
Follows(day, slot) ==
  LET n == Len(bars_so_far) IN
  IF n = 0 THEN day = 1
  ELSE \/ day = bars_so_far[n].day /\ slot >= bars_so_far[n].slot
       \/ day = bars_so_far[n].day + 1

NewBar(shape, day, slot) ==
  /\ assembled /\ Len(bars_so_far) < MaxFrame /\ Follows(day, slot)
  /\ bars_so_far' = Append(bars_so_far,
       [day |-> day, slot |-> slot, low |-> shape.low, high |-> shape.high,
        close |-> shape.close, volume |-> shape.volume, rv |-> shape.rv])
  /\ onBar' = Append(onBar, [orb |-> OrbOnBar(bars_so_far'), vwap |-> VwapOnBar(bars_so_far')])
  /\ series' = Append(series, VoteSeries(bars_so_far'))
  /\ UNCHANGED <<assembled, weights, broken>>

SignalsNext ==
  \/ Assemble
  \/ \E shape \in Shapes, day \in 1..LastSession, slot \in -1..1 : NewBar(shape, day, slot)

SignalsSpec == SignalsInit /\ [][SignalsNext]_signalVars

-----------------------------------------------------------------------------

SignalsTypeOK ==
  /\ weights \in [Voters -> Nat] /\ broken \subseteq Voters
  /\ Len(bars_so_far) <= MaxFrame
  /\ \A i \in 1..Len(bars_so_far) :
       /\ onBar[i] \in [orb : -1..1, vwap : -1..1]
       /\ series[i] \in -1..1

\* What is decided on a bar stays right as bars are added: no strategy looks
\* ahead.  From the second bar of a frame on, the signal a strategy trades on
\* is the one its backtest has there (on_bar(), generate_signals()); from the
\* MinWindow-th on, vote_series() has what a vote over the whole frame's signals
\* gives ("no lookahead", ensemble.py:119).
NoLookahead ==
  LET h == bars_so_far IN
  \A i \in 1..Len(h) :
    /\ i > 1 => onBar[i] = [orb |-> OrbSignal(h, i), vwap |-> VwapSignal(h, i)]
    /\ series[i] = IF i < MinWindow THEN 0 ELSE Vote(h, i)

=============================================================================
