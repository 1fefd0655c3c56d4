---------------------------- MODULE TradeSimulator ----------------------------
(***************************************************************************)
(* BacktestEngine.run() and the TradeSimulator.run() it drives             *)
(* (backtesting/engine.py) on one symbol.  One step takes one bar: the     *)
(* signal of the bar before (_safe_signals() shifts them by one) decides,  *)
(* the fill is at this bar's close or, for an intraday interval, at the    *)
(* next bar's open, and the equity is marked at this bar's close.          *)
(*                                                                         *)
(* Money is in whole units: SimFee stands for CostModel.charges() of one   *)
(* leg (the flat brokerage dominates it) and the slippage is one part in   *)
(* SlipParts of prices that it divides.  A close may be zero, which run()  *)
(* guards against; an open is not, since it would divide by it.            *)
(***************************************************************************)
EXTENDS Integers, Sequences, Functions

CONSTANTS
  BarPrices,   \* closes and opens of the bars
  Lots,        \* initial capitals that are tried
  SimFee,
  SlipParts,
  Bars         \* bars of a backtest (bounds the exploration)

ASSUME TradeSimulatorAssumption ==
  /\ SlipParts \in Nat \ {0} /\ SimFee \in Nat /\ Bars \in Nat \ {0}
  /\ Lots \subseteq Nat \ {0}
  /\ BarPrices \subseteq {p \in Nat : p % SlipParts = 0}

VARIABLES
  bar,        \* bars simulated, -1 before run() is called, Bars + 1 after the result
  sig,        \* sig_arr of the bar to come
  capital,    \* initial_capital
  intraday,   \* interval != "1d"
  simCash, simQty, simAvg,
  pnls,       \* pnl of each Trade
  buys,       \* BUYs filled
  equity,     \* the last value of the equity curve
  lastClose,
  final       \* final_capital of the result

simBooks == <<simCash, simQty, simAvg, pnls, buys>>
simVars == <<bar, sig, capital, intraday, simBooks, equity, lastClose, final>>

SimInit ==
  /\ bar = -1 /\ sig = 0
  /\ capital = 0 /\ intraday = FALSE
  /\ simCash = 0 /\ simQty = 0 /\ simAvg = 0
  /\ pnls = <<>> /\ buys = 0
  /\ equity = 0 /\ lastClose = 0 /\ final = 0

RunBacktest(c, intra) ==
  /\ bar = -1
  /\ bar' = 0
  /\ capital' = c /\ simCash' = c /\ equity' = c
  /\ intraday' = intra
  /\ UNCHANGED <<sig, simQty, simAvg, pnls, buys, lastClose, final>>

Slip(price) == price \div SlipParts

Affords_OfCapital(price) == \* mutant: sizes on initial_capital
  (19 * capital) \div (20 * price)

\* int(cash * 0.95 / fill_price): the twentieth that is left pays the charges
Affords(price) == IF simCash > 0 THEN (19 * simCash) \div (20 * price) ELSE 0

\* The equity of the bar: the position at this bar's close.
Mark(close, s) ==
  /\ bar' = bar + 1
  /\ sig' = s
  /\ lastClose' = close
  /\ equity' = simCash' + simQty' * close
  /\ UNCHANGED <<capital, intraday, final>>

\* open is the next bar's; the last bar has none
FillAt(close, open) == IF intraday /\ bar + 1 < Bars THEN open ELSE close

Enters(close) == sig = 1 /\ simQty = 0 /\ close > 0
Exits(close) == sig = -1 /\ simQty > 0 /\ close > 0

Buy(fill) ==
  /\ simQty' = Affords(fill)
  /\ simCash' = simCash - fill * simQty' - SimFee
  /\ simAvg' = fill
  /\ buys' = buys + 1
  /\ UNCHANGED pnls

SellAll_GrossPnl(fill) == \* mutant: the pnl before charges
  /\ simCash' = simCash + fill * simQty - SimFee
  /\ pnls' = Append(pnls, (fill - simAvg) * simQty)
  /\ simQty' = 0 /\ simAvg' = 0
  /\ UNCHANGED buys

\* A Trade's pnl is after the charges of its SELL; those of its BUY have only
\* left the cash.
SellAll(fill) ==
  /\ simCash' = simCash + fill * simQty - SimFee
  /\ pnls' = Append(pnls, (fill - simAvg) * simQty - SimFee)
  /\ simQty' = 0 /\ simAvg' = 0
  /\ UNCHANGED buys

BarEnter(close, open, s) ==
  LET fill == FillAt(close, open) + Slip(FillAt(close, open)) IN
  /\ bar \in 0..(Bars - 1)
  /\ Enters(close) /\ Affords(fill) > 0
  /\ Buy(fill)
  /\ Mark(close, s)

BarExit(close, open, s) ==
  /\ bar \in 0..(Bars - 1)
  /\ Exits(close)
  /\ SellAll(FillAt(close, open) - Slip(FillAt(close, open)))
  /\ Mark(close, s)

BarHold(close, open, s) ==
  LET fill == FillAt(close, open) + Slip(FillAt(close, open)) IN
  /\ bar \in 0..(Bars - 1)
  /\ ~Exits(close)
  /\ Enters(close) => Affords(fill) = 0
  /\ UNCHANGED simBooks
  /\ Mark(close, s)

\* A position that is open after the last bar is closed at its close, and the
\* last equity becomes the cash.
EndOfData ==
  /\ bar = Bars /\ simQty > 0
  /\ SellAll(lastClose - Slip(lastClose))
  /\ equity' = simCash'
  /\ UNCHANGED <<bar, sig, capital, intraday, lastClose, final>>

\* BacktestResult: without a trade the capital is reported, whatever the curve
Result ==
  /\ bar = Bars /\ simQty = 0
  /\ bar' = Bars + 1
  /\ final' = IF pnls = <<>> THEN capital ELSE equity
  /\ UNCHANGED <<sig, capital, intraday, simBooks, equity, lastClose>>

SimNext ==
  \/ \E c \in Lots, intra \in BOOLEAN : RunBacktest(c, intra)
  \/ \E close \in BarPrices, open \in BarPrices \ {0}, s \in {-1, 0, 1} :
       \/ BarEnter(close, open, s)
       \/ BarExit(close, open, s)
       \/ BarHold(close, open, s)
  \/ EndOfData
  \/ Result

-----------------------------------------------------------------------------

SimTypeOK ==
  /\ bar \in -1..(Bars + 1) /\ sig \in {-1, 0, 1}
  /\ capital \in {0} \cup Lots /\ intraday \in BOOLEAN
  /\ simCash \in Int /\ simQty \in Nat /\ simAvg \in Nat
  /\ pnls \in Seq(Int) /\ buys \in Nat
  /\ equity \in Int /\ lastClose \in Int /\ final \in Int

TotalPnl == SumFunction(pnls)

\* Every rupee of a backtest is accounted for: the cash and the position at
\* cost are the capital plus the PnL of the trades less the charges of the
\* BUYs, and the final capital that BacktestEngine.run() reports is that sum
\* once every position has become a trade.
SimAccounts ==
  /\ simCash + simQty * simAvg = capital + TotalPnl - buys * SimFee
  /\ Len(pnls) = IF simQty > 0 THEN buys - 1 ELSE buys
  /\ bar > Bars => final = capital + TotalPnl - Len(pnls) * SimFee

\* 5 % of the cash is kept for the charges, which may not be enough on a small
\* account: the cash goes below zero by less than the charges of one leg, or
\* of a BUY and of the SELL that brings in less than its own charges.
SimCashFloor == simCash >= -2 * SimFee

=============================================================================
