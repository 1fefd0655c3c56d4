--------------------------------- MODULE Sizing --------------------------------
(***************************************************************************)
(* How much to buy: PositionSizer.size() (risk/sizer.py), by half Kelly    *)
(* and the volatility, with BaseStrategy.sized_qty(); a share of the       *)
(* capital at risk, RiskManager.position_size() (risk/manager.py); and the *)
(* value cap of MultiStrategyRunner (backtesting/multi_runner.py), which   *)
(* asks for an order where its strategies agree.                           *)
(*                                                                         *)
(* Fractions are integers: win rates in percent, the ATR in basis points   *)
(* of the price; of the average win and loss only the ratio counts.        *)
(***************************************************************************)
EXTENDS Integers, Sequences, FiniteSets

CONSTANTS
  Purses,       \* capitals
  UnitPrices,
  LotSizes,
  Edges,        \* metadata() of strategies: win_rate, avg_win_pct, avg_loss_pct
  Atrs, NoAtr,  \* NoAtr: NaN, during the warm-up of the indicator
  Stops,        \* stop_loss_points
  RiskPct, ExposurePct, \* max_risk_per_trade_pct, max_position_exposure_pct
  Panel,        \* strategies of the runner, in order
  ValueCap,     \* max_position_value
  MaxSteps      \* bounds the exploration

ASSUME SizingAssumption ==
  /\ Purses \subseteq Nat \ {0} /\ LotSizes \subseteq Nat \ {0} /\ UnitPrices \subseteq Nat
  /\ \A e \in Edges : e.win_rate \in 0..100 /\ e.avg_win \in Nat /\ e.avg_loss \in Nat
  /\ Atrs \subseteq Nat /\ NoAtr \notin Nat /\ Stops \subseteq Nat
  /\ RiskPct \in Nat /\ ExposurePct \in Nat /\ ValueCap \in Nat /\ MaxSteps \in Nat

VARIABLES
  demand,      \* what the sizer was asked last
  sized,        \* the quantity it gave
  risked,       \* position_size(): quantity and is_within_limits
  conflict_log, \* how many conflicts were skipped
  views,        \* what each strategy said at the last bar
  result,       \* run_once() of the symbol
  asked,        \* quantity and side the executor was asked for
  steps

sizingVars == <<demand, sized, risked, conflict_log, views, result, asked, steps>>

NoRequest == [sizer |-> "none"]
NoAsk == [qty |-> 0, side |-> ""]

SizingInit ==
  /\ demand = NoRequest /\ sized = 0
  /\ risked = [qty |-> 0, within |-> TRUE]
  /\ conflict_log = 0
  /\ views = [s \in Panel |-> ""] /\ result = "" /\ asked = NoAsk
  /\ steps = 0

\* _kelly(): (win_rate * b - loss_rate) / b; -1 without wins or losses to compare.
Kelly(e) ==
  IF e.avg_win = 0 \/ e.avg_loss = 0 THEN [num |-> -1, den |-> 1]
  ELSE [num |-> e.win_rate * e.avg_win - (100 - e.win_rate) * e.avg_loss,
        den |-> 100 * e.avg_win]

VolScalar_UnknownIsCalm(atr) == \* mutant: an unknown ATR allows the largest multiple
  IF atr = 0 THEN [num |-> 200, den |-> 100]
  ELSE IF atr = NoAtr \/ atr > 400 THEN [num |-> 1, den |-> 4]
  ELSE IF atr < 50 THEN [num |-> 2, den |-> 1]
  ELSE [num |-> 100, den |-> atr]

\* _vol_scalar(): 1% over the ATR, clamped; max(0.25, NaN) is 0.25.
VolScalar(atr) ==
  IF atr = 0 THEN [num |-> 1, den |-> 2]
  ELSE IF atr = NoAtr \/ atr > 400 THEN [num |-> 1, den |-> 4]
  ELSE IF atr < 50 THEN [num |-> 2, den |-> 1]
  ELSE [num |-> 100, den |-> atr]

\* size(), with the cap of 10% of the capital; math.floor, then whole lots.
Size(price, e, atr, purse, lot) ==
  LET k == Kelly(e) s == VolScalar(atr)
      num == k.num * s.num
      den == 2 * k.den * s.den
      whole == IF 10 * num > den THEN purse \div (10 * price)
                               ELSE (num * purse) \div (den * price)
  IN IF price = 0 \/ k.num <= 0 THEN 0 ELSE (whole \div lot) * lot

\* sized_qty(): the edge of the strategy's metadata; without bars an ATR of 1.5%.
SizedQty(price, e, atr, purse, lot) ==
  /\ sized' = Size(price, e, atr, purse, lot)
  /\ demand' = [sizer |-> "kelly", price |-> price, edge |-> e, atr |-> atr,
                 capital |-> purse, lot |-> lot]
  /\ UNCHANGED <<risked, conflict_log, views, result, asked>>

\* position_size(): a quantity over the exposure limit is warned of, not cut.
PositionSize(price, stop, purse) ==
  LET qty == IF stop = 0 THEN 0 ELSE (purse * RiskPct) \div (100 * stop)
  IN
  /\ risked' = [qty |-> qty, within |-> 100 * qty * price <= ExposurePct * purse]
  /\ demand' = [sizer |-> "risk", price |-> price, stop |-> stop, capital |-> purse]
  /\ UNCHANGED <<sized, conflict_log, views, result, asked>>

Directions == {"BUY", "SELL"}
Views == Directions \cup {"", "error"}

\* _execute(): no order at a price of 0; at least one share.  (The executors of
\* this repository take no "session" and refuse the call; that is only logged.)
Execute(way, price) ==
  IF price = 0 THEN NoAsk
  ELSE [qty |-> IF price > ValueCap THEN 1 ELSE ValueCap \div price, side |-> way]

Agreed_First(v) == \* mutant: the view of one of the strategies is taken
  IF \A s \in Panel : v[s] \notin Directions THEN {}
  ELSE {v[CHOOSE s \in Panel : v[s] \in Directions]}

Agreed(v) == {v[s] : s \in Panel} \cap Directions

\* run_once(), of one symbol; NoBar for bars.get(symbol) is None.  A strategy that
\* raises ("error") or says anything else has no view.
RunOnce(v, price) ==
  LET directions == Agreed(v) IN
  /\ views' = v
  /\ demand' = [sizer |-> "runner", price |-> price]
  /\ result' = IF directions = {} THEN "" ELSE IF Cardinality(directions) > 1 THEN "SKIP_CONFLICT"
               ELSE CHOOSE d \in directions : TRUE
  /\ asked' = IF Cardinality(directions) = 1
                THEN Execute(CHOOSE d \in directions : TRUE, price) ELSE NoAsk
  /\ conflict_log' = IF Cardinality(directions) > 1 THEN conflict_log + 1 ELSE conflict_log
  /\ UNCHANGED <<sized, risked>>

SizingNext ==
  /\ steps < MaxSteps /\ steps' = steps + 1
  /\ \E price \in UnitPrices :
       \/ \E e \in Edges, a \in Atrs \cup {NoAtr}, c \in Purses, l \in LotSizes :
            SizedQty(price, e, a, c, l)
       \/ \E stop \in Stops, c \in Purses : PositionSize(price, stop, c)
       \/ \E v \in [Panel -> Views] : RunOnce(v, price)

SizingSpec == SizingInit /\ [][SizingNext]_sizingVars

-----------------------------------------------------------------------------

SizingTypeOK ==
  /\ sized \in Nat /\ risked.qty \in Nat /\ risked.within \in BOOLEAN
  /\ conflict_log \in 0..steps /\ steps \in 0..MaxSteps
  /\ views \in [Panel -> Views]
  /\ result \in Directions \cup {"", "SKIP_CONFLICT"}
  /\ asked.qty \in Nat /\ asked.side \in Directions \cup {""}

\* No position is worth more than a tenth of the capital, none is taken without an
\* edge, half Kelly never bets more than half of the win rate, times the scalar of the
\* volatility, and more capital never buys less.  "When you know less (ATR
\* unavailable), bet less": an ATR of 0 buys no more than any ATR up to twice the
\* target does; it buys more than a higher one, or one that is NaN.
KellySafe ==
  demand.sizer = "kelly" =>
    LET r == demand value == sized * r.price e == r.edge s == VolScalar(r.atr) IN
    /\ 10 * value <= r.capital /\ sized % r.lot = 0
    /\ sized > 0 => e.win_rate * e.avg_win > (100 - e.win_rate) * e.avg_loss
    /\ 200 * value * s.den <= r.capital * e.win_rate * s.num
    /\ r.atr # NoAtr /\ r.atr <= 200 => Size(r.price, e, 0, r.capital, r.lot) <= sized
    /\ r.atr = NoAtr \/ r.atr >= 200 => sized <= Size(r.price, e, 0, r.capital, r.lot)
    /\ \A c \in Purses : c <= r.capital => Size(r.price, e, r.atr, c, r.lot) <= sized

\* The stop loses no more than the share of the capital at risk, and one share more
\* would; a stop so near that the position is over the exposure limit is told by
\* is_within_limits only.
StopSafe ==
  demand.sizer = "risk" =>
    LET r == demand IN
    /\ 100 * risked.qty * r.stop <= r.capital * RiskPct
    /\ r.stop > 0 => 100 * (risked.qty + 1) * r.stop > r.capital * RiskPct
    /\ ~risked.within => r.stop > 0 /\ r.price * RiskPct > r.stop * ExposurePct

\* Strategies that disagree place nothing, whichever is first; an order is asked
\* for by one of them and opposed by none, and is worth no more than the cap unless
\* it is for a single share.
RunnerSafe ==
  demand.sizer = "runner" /\ asked # NoAsk =>
    /\ \E s \in Panel : views[s] = asked.side
    /\ \A s \in Panel : views[s] \in Directions => views[s] = asked.side
    /\ asked.qty * demand.price <= ValueCap \/ asked.qty = 1
    /\ result = asked.side

SizesCapped == KellySafe /\ StopSafe /\ RunnerSafe

=============================================================================
