----------------------- MODULE MCSingleCaller_proofs -----------------------
(***************************************************************************)
(* What the parts that one caller uses at a time promise, for all values   *)
(* of the constants: proofs of the invariants that MCSingleCaller checks.  *)
(* Each part has an inductive invariant of its own; the steps of the whole *)
(* are steps of one part, so that an invariant of a part is one of the     *)
(* whole.                                                                  *)
(***************************************************************************)
EXTENDS MCSingleCaller, Sums, TLAPS

-----------------------------------------------------------------------------
(* The backtest of one symbol.                                              *)

SimTypes ==
  /\ bar \in -1..(Bars + 1) /\ sig \in {-1, 0, 1}
  /\ capital \in {0} \cup Lots /\ intraday \in BOOLEAN
  /\ simCash \in Int /\ simQty \in Nat /\ simAvg \in Nat
  /\ pnls \in Seq(Int) /\ buys \in Nat
  /\ equity \in Int /\ lastClose \in Nat /\ final \in Int

\* The accounts at any time, what is marked and what is left of the cash: a BUY
\* takes at most 19 twentieths of it and its charges.
SimInv ==
  /\ SimTypes
  /\ SimAccounts
  /\ equity = simCash + simQty * lastClose
  /\ simCash >= IF simQty > 0 THEN -SimFee ELSE -2 * SimFee
  /\ bar = -1 => simQty = 0 /\ pnls = <<>> /\ buys = 0

\* What is assumed of the constants of the backtest of one symbol.
LEMMA SimConstants ==
  /\ SlipParts \in Nat \ {0} /\ SimFee \in Nat /\ Bars \in Nat \ {0}
  /\ \A p \in BarPrices : p \in Nat
  /\ \A c \in Lots : c \in Nat \ {0}
  BY TradeSimulatorAssumption

\* The initial capital is a number.
LEMMA CapitalIsNat == SimTypes => capital \in Nat
  BY SimConstants DEF SimTypes

\* The slippage moves a price by no more than the price.
LEMMA SlipFacts ==
  ASSUME NEW p \in Nat
  PROVE  Slip(p) \in Nat /\ Slip(p) <= p
<1>1. SlipParts \in Nat \ {0}
  BY SimConstants
<1> DEFINE k == p \div SlipParts
<1>2. k \in Nat /\ p = SlipParts * k + (p % SlipParts) /\ p % SlipParts \in Nat
  BY <1>1
<1> HIDE DEF k
<1>3. k * 1 <= k * SlipParts
  BY <1>1, <1>2, ProductGrows
<1>4. k * SlipParts = SlipParts * k /\ k * SlipParts \in Nat
  BY <1>1, <1>2
<1> QED
  BY <1>2, <1>3, <1>4 DEF Slip, k

\* A fill has a price that is positive if the close is, and stays a price when it slips.
LEMMA FillFacts ==
  ASSUME NEW close \in BarPrices, NEW open \in BarPrices \ {0}
  PROVE  /\ FillAt(close, open) \in Nat
         /\ close > 0 => FillAt(close, open) > 0
         /\ FillAt(close, open) + Slip(FillAt(close, open)) \in Nat
         /\ close > 0 => FillAt(close, open) + Slip(FillAt(close, open)) > 0
         /\ FillAt(close, open) - Slip(FillAt(close, open)) \in Nat
<1>1. close \in Nat /\ open \in Nat /\ open > 0
  BY SimConstants
<1>2. FillAt(close, open) \in Nat /\ (close > 0 => FillAt(close, open) > 0)
  BY <1>1 DEF FillAt
<1> DEFINE f == FillAt(close, open)
<1> HIDE DEF f
<1>3. f \in Nat /\ Slip(f) \in Nat /\ Slip(f) <= f
  BY <1>2, SlipFacts DEF f
<1>4. f + Slip(f) \in Nat /\ f - Slip(f) \in Nat /\ (f > 0 => f + Slip(f) > 0)
  BY <1>3
<1> QED
  BY <1>2, <1>4 DEF f

\* What is bought costs less than the cash.
LEMMA AffordsFacts ==
  ASSUME NEW price \in Nat \ {0}, simCash \in Int
  PROVE  /\ Affords(price) \in Nat
         /\ Affords(price) > 0 => price * Affords(price) <= simCash
<1>1. CASE simCash <= 0
  BY <1>1 DEF Affords
<1>2. CASE simCash > 0
  <2> DEFINE n == 19 * simCash
             d == 20 * price
             q == n \div d
  <2>1. n \in Nat /\ d \in Nat \ {0}
    BY <1>2
  <2> HIDE DEF n, d
  <2>2. q \in Nat /\ n = d * q + (n % d) /\ n % d \in Nat
    BY <2>1
  <2> HIDE DEF q
  <2>3. d * q \in Nat /\ d * q <= n
    BY <2>1, <2>2
  <2>4. d * q = 20 * (price * q) /\ price * q \in Nat
    BY <2>2 DEF d
  <2>5. 20 * (price * q) <= 19 * simCash
    BY <2>3, <2>4 DEF n
  <2>6. price * q <= simCash
    BY <1>2, <2>4, <2>5
  <2>7. Affords(price) = q
    BY <1>2 DEF Affords, n, d, q
  <2> QED
    BY <2>2, <2>6, <2>7
<1> QED
  BY <1>1, <1>2

LEMMA InitSim == SimInit => SimInv
<1> SUFFICES ASSUME SimInit PROVE SimInv
  OBVIOUS
<1>1. SimFee \in Nat /\ Bars \in Nat \ {0}
  BY SimConstants
<1>2. TotalPnl = 0 /\ Len(pnls) = 0 /\ pnls \in Seq(Int)
  BY SumOfNone DEF SimInit, TotalPnl
<1>3. SimTypes
  <2>1. intraday \in BOOLEAN
    BY Zenon DEF SimInit
  <2> QED
    BY <1>1, <1>2, <2>1 DEF SimInit, SimTypes
<1>4. SimAccounts
  BY <1>1, <1>2 DEF SimInit, SimAccounts
<1> QED
  BY <1>1, <1>3, <1>4 DEF SimInit, SimInv

LEMMA RunStep ==
  ASSUME SimInv, NEW c \in Lots, NEW intra \in BOOLEAN, RunBacktest(c, intra)
  PROVE  SimInv'
<1>1. /\ bar = -1 /\ bar' = 0 /\ capital' = c /\ simCash' = c /\ equity' = c
      /\ intraday' = intra
      /\ UNCHANGED <<sig, simQty, simAvg, pnls, buys, lastClose, final>>
  BY DEF RunBacktest
<1>2. SimFee \in Nat /\ Bars \in Nat \ {0} /\ c \in Nat
  BY SimConstants
<1>3. SimTypes'
  <2>1. bar' \in -1..(Bars + 1) /\ capital' \in {0} \cup Lots /\ simCash' \in Int /\ equity' \in Int
    BY <1>1, <1>2
  <2> QED
    BY <1>1, <2>1 DEF SimInv, SimTypes
<1>4. simQty = 0 /\ pnls = <<>> /\ buys = 0 /\ simAvg \in Nat /\ lastClose \in Nat
  BY <1>1 DEF SimInv, SimTypes
<1>5. TotalPnl' = 0 /\ Len(pnls') = 0
  BY <1>1, <1>4, SumOfNone DEF TotalPnl
<1>6. SimAccounts'
  <2>1. simQty' * simAvg' = 0 /\ buys' * SimFee = 0 /\ simQty' = 0 /\ buys' = 0
    BY <1>1, <1>2, <1>4
  <2> QED
    BY <1>1, <1>2, <1>5, <2>1 DEF SimAccounts
<1>7. simQty' * lastClose' = 0
  BY <1>1, <1>4
<1> QED
  BY <1>1, <1>2, <1>3, <1>4, <1>6, <1>7 DEF SimInv

\* What a step of a bar leaves to be shown: the books after it.
LEMMA MarkStep ==
  ASSUME SimInv, NEW close \in BarPrices, NEW s \in {-1, 0, 1}, Mark(close, s),
         bar \in 0..(Bars - 1),
         simCash' \in Int, simQty' \in Nat, simAvg' \in Nat, pnls' \in Seq(Int), buys' \in Nat
  PROVE  /\ SimTypes'
         /\ equity' = simCash' + simQty' * lastClose'
         /\ bar' # -1 /\ ~(bar' > Bars) /\ capital' = capital
<1>1. close \in Nat /\ Bars \in Nat \ {0}
  BY SimConstants
<1>2. /\ bar' = bar + 1 /\ sig' = s /\ lastClose' = close /\ equity' = simCash' + simQty' * close
      /\ UNCHANGED <<capital, intraday, final>>
  BY DEF Mark
<1>3. simQty' * close \in Int
  BY <1>1
<1>4. bar' \in -1..(Bars + 1) /\ bar' # -1 /\ ~(bar' > Bars)
  BY <1>1, <1>2
<1> QED
  BY <1>1, <1>2, <1>3, <1>4 DEF SimInv, SimTypes

LEMMA EnterStep ==
  ASSUME SimInv, NEW close \in BarPrices, NEW open \in BarPrices \ {0}, NEW s \in {-1, 0, 1},
         BarEnter(close, open, s)
  PROVE  SimInv'
<1> DEFINE fill == FillAt(close, open) + Slip(FillAt(close, open))
           n == Affords(fill)
<1>1. /\ bar \in 0..(Bars - 1) /\ simQty = 0 /\ close > 0 /\ n > 0
      /\ simQty' = n /\ simCash' = simCash - fill * n - SimFee /\ simAvg' = fill
      /\ buys' = buys + 1 /\ pnls' = pnls
      /\ Mark(close, s)
  BY DEF BarEnter, Enters, Buy
<1>2. fill \in Nat \ {0}
  BY <1>1, FillFacts
<1>3. simCash \in Int /\ capital \in Nat /\ pnls \in Seq(Int) /\ buys \in Nat /\ simAvg \in Nat
      /\ SimFee \in Nat
  BY CapitalIsNat, SimConstants DEF SimInv, SimTypes
<1>4. n \in Nat /\ fill * n <= simCash
  BY <1>1, <1>2, <1>3, AffordsFacts
<1> HIDE DEF fill, n
<1>5. fill * n \in Nat /\ n * fill = fill * n
  BY <1>2, <1>4
<1>6. simCash' \in Int /\ simCash' >= -SimFee /\ buys' \in Nat
  BY <1>1, <1>3, <1>4, <1>5
<1>7. /\ SimTypes'
      /\ equity' = simCash' + simQty' * lastClose'
      /\ bar' # -1 /\ ~(bar' > Bars) /\ capital' = capital
  BY <1>1, <1>2, <1>3, <1>4, <1>6, MarkStep
<1>8. SimAccounts'
  <2>1. TotalPnl' = TotalPnl /\ TotalPnl \in Int
    BY <1>1, <1>3, SumOfSequence DEF TotalPnl
  <2>2. simCash = capital + TotalPnl - buys * SimFee /\ Len(pnls) = buys
    <3>1. simQty * simAvg = 0
      BY <1>1, <1>3
    <3>2. simCash + 0 = capital + TotalPnl - buys * SimFee /\ Len(pnls) = buys
      BY <1>1, <3>1 DEF SimInv, SimAccounts
    <3> QED
      BY <1>3, <3>2
  <2>3. (buys + 1) * SimFee = buys * SimFee + SimFee /\ buys * SimFee \in Int
    BY <1>3
  <2>4. simCash' + n * fill = capital + TotalPnl - (buys + 1) * SimFee
    BY <1>1, <1>3, <1>5, <2>1, <2>2, <2>3
  <2>5. Len(pnls') = IF simQty' > 0 THEN buys' - 1 ELSE buys'
    BY <1>1, <1>3, <2>2
  <2> QED
    BY <1>1, <1>7, <2>1, <2>4, <2>5 DEF SimAccounts
<1> QED
  BY <1>1, <1>6, <1>7, <1>8 DEF SimInv

\* A sale closes the accounts of its trade.
LEMMA SaleStep ==
  ASSUME SimInv, NEW fill \in Nat, SellAll(fill), simQty > 0, capital' = capital,
         ~(bar' > Bars)
  PROVE  /\ simCash' \in Int /\ simQty' = 0 /\ simAvg' = 0 /\ pnls' \in Seq(Int) /\ buys' = buys
         /\ simCash' >= -2 * SimFee
         /\ SimAccounts'
<1> DEFINE pnl == (fill - simAvg) * simQty - SimFee
<1>1. /\ simCash' = simCash + fill * simQty - SimFee
      /\ pnls' = Append(pnls, pnl) /\ simQty' = 0 /\ simAvg' = 0 /\ buys' = buys
  BY DEF SellAll
<1>2. simCash \in Int /\ simQty \in Nat /\ capital \in Nat /\ pnls \in Seq(Int) /\ buys \in Nat
      /\ simAvg \in Nat /\ SimFee \in Nat
  BY CapitalIsNat, SimConstants DEF SimInv, SimTypes
<1>3. /\ simCash >= -SimFee
      /\ simCash + simQty * simAvg = capital + TotalPnl - buys * SimFee
      /\ Len(pnls) = buys - 1
  BY DEF SimInv, SimAccounts
<1>4. fill * simQty \in Nat /\ (fill - simAvg) * simQty = fill * simQty - simQty * simAvg
      /\ simQty * simAvg \in Nat /\ buys * SimFee \in Nat
  BY <1>2
<1>5. pnl \in Int /\ pnl = fill * simQty - simQty * simAvg - SimFee
  BY <1>2, <1>4
<1> HIDE DEF pnl
<1>6. TotalPnl' = TotalPnl + pnl /\ TotalPnl \in Int
  BY <1>1, <1>2, <1>5, SumAppended, SumOfSequence DEF TotalPnl
<1>7. pnls' \in Seq(Int) /\ Len(pnls') = buys
  <2>1. Len(pnls') = Len(pnls) + 1 /\ pnls' \in Seq(Int)
    BY <1>1, <1>2, <1>5
  <2> QED
    BY <1>2, <1>3, <2>1
<1>8. simCash' \in Int /\ simCash' >= -2 * SimFee
  BY <1>1, <1>2, <1>3, <1>4
<1>9. simCash' = capital + TotalPnl' - buys * SimFee
  BY <1>1, <1>2, <1>3, <1>4, <1>5, <1>6
<1>10. simCash' + simQty' * simAvg' = simCash'
  BY <1>1, <1>8
<1> QED
  BY <1>1, <1>7, <1>8, <1>9, <1>10 DEF SimAccounts

LEMMA ExitStep ==
  ASSUME SimInv, NEW close \in BarPrices, NEW open \in BarPrices \ {0}, NEW s \in {-1, 0, 1},
         BarExit(close, open, s)
  PROVE  SimInv'
<1> DEFINE fill == FillAt(close, open) - Slip(FillAt(close, open))
<1>1. bar \in 0..(Bars - 1) /\ simQty > 0 /\ SellAll(fill) /\ Mark(close, s)
  BY DEF BarExit, Exits
<1>2. fill \in Nat
  BY FillFacts
<1> HIDE DEF fill
<1>3. bar' = bar + 1 /\ capital' = capital
  BY <1>1 DEF Mark
<1>4. ~(bar' > Bars)
  BY <1>1, <1>3, SimConstants
<1>5. /\ simCash' \in Int /\ simQty' = 0 /\ simAvg' = 0 /\ pnls' \in Seq(Int) /\ buys' = buys
      /\ simCash' >= -2 * SimFee
      /\ SimAccounts'
  BY <1>1, <1>2, <1>3, <1>4, SaleStep
<1>6. buys \in Nat
  BY DEF SimInv, SimTypes
<1>7. simQty' \in Nat /\ simAvg' \in Nat /\ buys' \in Nat
  BY <1>5, <1>6
<1>8. /\ SimTypes' /\ equity' = simCash' + simQty' * lastClose' /\ bar' # -1
  BY <1>1, <1>5, <1>7, MarkStep
<1> QED
  BY <1>5, <1>8 DEF SimInv

LEMMA HoldStep ==
  ASSUME SimInv, NEW close \in BarPrices, NEW open \in BarPrices \ {0}, NEW s \in {-1, 0, 1},
         BarHold(close, open, s)
  PROVE  SimInv'
<1>1. bar \in 0..(Bars - 1) /\ UNCHANGED <<simCash, simQty, simAvg, pnls, buys>> /\ Mark(close, s)
  BY DEF BarHold, simBooks
<1>2. /\ simCash' \in Int /\ simQty' \in Nat /\ simAvg' \in Nat /\ pnls' \in Seq(Int) /\ buys' \in Nat
  BY <1>1 DEF SimInv, SimTypes
<1>3. /\ SimTypes' /\ equity' = simCash' + simQty' * lastClose'
      /\ bar' # -1 /\ ~(bar' > Bars) /\ capital' = capital
  BY <1>1, <1>2, MarkStep
<1>4. SimAccounts'
  BY <1>1, <1>3 DEF SimInv, SimAccounts, TotalPnl
<1> QED
  BY <1>1, <1>3, <1>4 DEF SimInv

LEMMA EndOfDataStep == ASSUME SimInv, EndOfData PROVE SimInv'
<1>1. /\ bar = Bars /\ simQty > 0 /\ SellAll(lastClose - Slip(lastClose))
      /\ equity' = simCash'
      /\ UNCHANGED <<bar, sig, capital, intraday, lastClose, final>>
  BY DEF EndOfData
<1> DEFINE fill == lastClose - Slip(lastClose)
<1>2. lastClose \in Nat /\ Bars \in Nat \ {0}
  BY SimConstants DEF SimInv, SimTypes
<1>3. fill \in Nat
  BY <1>2, SlipFacts
<1> HIDE DEF fill
<1>4. /\ simCash' \in Int /\ simQty' = 0 /\ simAvg' = 0 /\ pnls' \in Seq(Int) /\ buys' = buys
      /\ simCash' >= -2 * SimFee
      /\ SimAccounts'
  <2>1. ~(bar' > Bars) /\ capital' = capital /\ SellAll(fill)
    BY <1>1, <1>2 DEF fill
  <2> QED
    BY <1>1, <1>3, <2>1, SaleStep
<1>5. equity' = simCash' + simQty' * lastClose'
  <2>1. lastClose' = lastClose /\ equity' = simCash'
    BY <1>1
  <2>2. simQty' * lastClose' = 0
    BY <1>2, <1>4, <2>1
  <2> QED
    BY <1>4, <2>1, <2>2
<1>6. SimTypes'
  BY <1>1, <1>4 DEF SimInv, SimTypes
<1>7. bar' # -1
  BY <1>1, <1>2
<1> QED
  BY <1>4, <1>5, <1>6, <1>7 DEF SimInv

LEMMA ResultStep == ASSUME SimInv, Result PROVE SimInv'
<1>1. /\ bar = Bars /\ simQty = 0 /\ bar' = Bars + 1
      /\ final' = IF pnls = <<>> THEN capital ELSE equity
      /\ UNCHANGED <<sig, capital, intraday, simCash, simQty, simAvg, pnls, buys, equity, lastClose>>
  BY DEF Result, simBooks
<1>2. /\ simCash \in Int /\ capital \in Nat /\ pnls \in Seq(Int) /\ buys \in Nat
      /\ simAvg \in Nat /\ lastClose \in Nat /\ SimFee \in Nat /\ Bars \in Nat \ {0}
      /\ equity \in Int
  BY CapitalIsNat, SimConstants DEF SimInv, SimTypes
<1>3. SimTypes'
  <2>1. bar' \in -1..(Bars + 1) /\ final' \in Int
    BY <1>1, <1>2
  <2> QED
    BY <1>1, <2>1 DEF SimInv, SimTypes
<1>4. /\ simCash = capital + TotalPnl - buys * SimFee /\ Len(pnls) = buys
      /\ equity = simCash /\ TotalPnl \in Int /\ buys * SimFee \in Int
  <2>1. simQty * simAvg = 0 /\ simQty * lastClose = 0
    BY <1>1, <1>2
  <2>2. /\ simCash + 0 = capital + TotalPnl - buys * SimFee /\ Len(pnls) = buys
        /\ equity = simCash + 0
    BY <1>1, <2>1 DEF SimInv, SimAccounts
  <2>3. TotalPnl \in Int /\ buys * SimFee \in Int
    BY <1>2, SumOfSequence DEF TotalPnl
  <2> QED
    BY <1>2, <2>2, <2>3
<1>5. final' = capital + TotalPnl - Len(pnls) * SimFee
  <2>1. CASE pnls = <<>>
    <3>1. TotalPnl = 0 /\ Len(pnls) = 0
      BY <2>1, SumOfNone DEF TotalPnl
    <3>2. 0 * SimFee = 0
      BY <1>2
    <3>3. final' = capital
      BY <1>1, <2>1
    <3> QED
      BY <1>2, <3>1, <3>2, <3>3
  <2>2. CASE pnls # <<>>
    BY <1>1, <1>4, <2>2
  <2> QED
    BY <2>1, <2>2
<1>6. SimAccounts'
  BY <1>1, <1>5 DEF SimInv, SimAccounts, TotalPnl
<1>7. bar' # -1
  BY <1>1, <1>2
<1> QED
  BY <1>1, <1>3, <1>6, <1>7 DEF SimInv

LEMMA NextSim == SimInv /\ [SimNext]_simVars => SimInv'
<1> SUFFICES ASSUME SimInv, [SimNext]_simVars PROVE SimInv'
  OBVIOUS
<1>1. CASE UNCHANGED simVars
  BY <1>1 DEF simVars, simBooks, SimInv, SimTypes, SimAccounts, TotalPnl
<1>2. ASSUME NEW c \in Lots, NEW intra \in BOOLEAN, RunBacktest(c, intra) PROVE SimInv'
  BY <1>2, RunStep
<1>3. ASSUME NEW close \in BarPrices, NEW open \in BarPrices \ {0}, NEW s \in {-1, 0, 1},
             BarEnter(close, open, s) \/ BarExit(close, open, s) \/ BarHold(close, open, s)
      PROVE  SimInv'
  BY <1>3, EnterStep, ExitStep, HoldStep
<1>4. CASE EndOfData
  BY <1>4, EndOfDataStep
<1>5. CASE Result
  BY <1>5, ResultStep
<1> QED
  BY <1>1, <1>2, <1>3, <1>4, <1>5 DEF SimNext

\* What the invariant of the backtest of one symbol is for.
LEMMA SimInvAccounts == SimInv => SimTypeOK /\ SimAccounts /\ SimCashFloor
<1> SUFFICES ASSUME SimInv PROVE SimTypeOK /\ SimAccounts /\ SimCashFloor
  OBVIOUS
<1>1. SimFee \in Nat /\ simCash \in Int
  BY SimConstants DEF SimInv, SimTypes
<1>2. SimCashFloor
  BY <1>1 DEF SimInv, SimCashFloor
<1>3. SimTypeOK
  BY DEF SimInv, SimTypes, SimTypeOK
<1> QED
  BY <1>2, <1>3 DEF SimInv

-----------------------------------------------------------------------------
(* The backtest of a portfolio.                                             *)

PfTypes ==
  /\ date \in 0..(Dates + 2) /\ method \in Methods /\ visit \in 0..(Listed + 1)
  /\ rows \subseteq Shares
  /\ prices \in [Shares -> ClosePrices \cup {0}] /\ last \in [Shares -> ClosePrices \cup {0}]
  /\ pfCash \in Int
  /\ positions \in [Shares -> [qty : Nat, entry : Nat]]
  /\ symbolPnl \in [Shares -> Int] /\ curve \in Int

Costs == [s \in Shares |-> positions[s].qty * positions[s].entry]
MarkOf(s) == IF s \in rows THEN prices[s] ELSE positions[s].entry
Marks == [s \in Shares |-> positions[s].qty * MarkOf(s)]

\* The money at any time.
PfBalance == pfCash + SumOver(Costs) = TotalCapital + SumOver(symbolPnl)

\* What the end relies on: a symbol with a row on the date is last seen at its
\* price, and after the last date the curve marks what is still open.
PfEnd ==
  /\ \A s \in rows : last[s] = prices[s]
  /\ visit # 0 => date \in 1..Dates
  /\ date < Dates + 2 => pfCash >= 0
  /\ date = Dates + 1 => curve = pfCash + SumOver(Marks)
  /\ date = Dates + 2 => \A s \in Held : last[s] = 0
  /\ date = Dates + 2 /\ rows = Shares => curve = pfCash

PfInv == PfTypes /\ PfBalance /\ PfExposure /\ PfEnd

\* What is assumed of the constants of the portfolio backtest.
LEMMA PfConstants ==
  /\ Listed \in Nat \ {0} /\ Dates \in Nat \ {0} /\ TotalCapital \in Nat
  /\ ExposureParts \in Nat \ {0} /\ FixedParts \in Nat \ {0} /\ MaxPositions \in Nat
  /\ \A p \in ClosePrices \cup {0} : p \in Int
  /\ IsFiniteSet(Shares)
<1>1. IsFiniteSet(Shares)
  BY PortfolioEngineAssumption, FS_Interval DEF Shares
<1> QED
  BY <1>1, PortfolioEngineAssumption

\* Rows, prices and products are integers.
LEMMA PfIntegers ==
  ASSUME PfTypes, NEW s \in Shares
  PROVE  /\ positions[s] \in [qty : Nat, entry : Nat]
         /\ positions[s].qty \in Nat /\ positions[s].entry \in Nat
         /\ prices[s] \in Int /\ last[s] \in Int /\ symbolPnl[s] \in Int
         /\ MarkOf(s) \in Int
         /\ positions[s].qty * positions[s].entry \in Nat
         /\ positions[s].qty * MarkOf(s) \in Int
         /\ positions[s].qty * last[s] \in Int
<1>1. positions[s] \in [qty : Nat, entry : Nat]
  BY DEF PfTypes
<1>2. positions[s].qty \in Nat /\ positions[s].entry \in Nat
  BY <1>1
<1>3. prices[s] \in ClosePrices \cup {0} /\ last[s] \in ClosePrices \cup {0}
      /\ symbolPnl[s] \in Int
  BY DEF PfTypes
<1>4. prices[s] \in Int /\ last[s] \in Int
  BY <1>3, PfConstants
<1>5. MarkOf(s) \in Int
  BY <1>2, <1>4 DEF MarkOf
<1>6. (\A a, b \in Nat : a * b \in Nat) /\ (\A a, b \in Int : a * b \in Int)
  OBVIOUS
<1> QED
  BY <1>1, <1>2, <1>3, <1>4, <1>5, <1>6

\* The sums over the open positions are numbers.
LEMMA PfSums ==
  ASSUME PfTypes
  PROVE  /\ SumOver(Costs) \in Int /\ SumOver(symbolPnl) \in Int /\ SumOver(Marks) \in Int
         /\ SumOver([s \in Shares |-> positions[s].qty * last[s]]) \in Int
<1>1. \A s \in Shares : Costs[s] \in Int /\ Marks[s] \in Int /\ symbolPnl[s] \in Int
  BY PfIntegers DEF Costs, Marks
<1>2. \A s \in Shares : [t \in Shares |-> positions[t].qty * last[t]][s] \in Int
  BY PfIntegers
<1>3. SumOver(Costs) \in Int
  BY <1>1, PfConstants, SumType, Zenon DEF SumOver
<1>4. SumOver(Marks) \in Int
  BY <1>1, PfConstants, SumType, Zenon DEF SumOver
<1>5. SumOver(symbolPnl) \in Int
  BY <1>1, PfConstants, SumType, Zenon DEF SumOver
<1>6. SumOver([s \in Shares |-> positions[s].qty * last[s]]) \in Int
  BY <1>2, PfConstants, SumType, Zenon DEF SumOver
<1> QED
  BY <1>3, <1>4, <1>5, <1>6

LEMMA InitPf == PfInit => PfInv
<1> SUFFICES ASSUME PfInit PROVE PfInv
  OBVIOUS
<1>1. \A s \in Shares : positions[s] = Flat /\ prices[s] = 0 /\ last[s] = 0 /\ symbolPnl[s] = 0
  BY DEF PfInit
<1>2. "equal_weight" \in Methods
  BY DEF Methods
<1>3. PfTypes
  <2>1. /\ date \in 0..(Dates + 2) /\ visit \in 0..(Listed + 1) /\ rows \subseteq Shares
        /\ pfCash \in Int /\ curve \in Int
    BY PfConstants DEF PfInit
  <2>2. prices \in [Shares -> ClosePrices \cup {0}] /\ last \in [Shares -> ClosePrices \cup {0}]
        /\ symbolPnl \in [Shares -> Int]
    BY DEF PfInit
  <2>3. positions \in [Shares -> [qty : Nat, entry : Nat]]
    BY DEF PfInit, Flat
  <2> QED
    BY <1>2, <2>1, <2>2, <2>3 DEF PfTypes, PfInit
<1>4. \A s \in Shares : positions[s].qty = 0 /\ positions[s].entry = 0
  BY <1>1 DEF Flat
<1>5. Held = {}
  BY <1>4 DEF Held
<1>6. PfBalance
  <2>1. \A s \in Shares : Costs[s] = 0
    BY <1>4 DEF Costs
  <2>2. SumOver(Costs) = 0
    BY <2>1, PfConstants, SumZero, Zenon DEF SumOver
  <2>3. SumOver(symbolPnl) = 0
    BY <1>1, PfConstants, SumZero, Zenon DEF SumOver
  <2> QED
    BY <2>2, <2>3 DEF PfBalance, PfInit
<1>7. PfExposure
  BY <1>5, FS_EmptySet, PfConstants DEF PfExposure
<1>8. PfEnd
  BY <1>1, PfConstants DEF PfEnd, PfInit
<1> QED
  BY <1>3, <1>6, <1>7, <1>8 DEF PfInv

\* Steps that leave the books alone leave the money and the limits alone.
LEMMA PfBooksKept ==
  ASSUME PfInv, UNCHANGED pfBooks
  PROVE  PfBalance' /\ PfExposure' /\ Held' = Held /\ Costs' = Costs
<1>1. Held' = Held /\ Costs' = Costs
  BY DEF pfBooks, Held, Costs
<1> QED
  BY <1>1 DEF PfInv, PfBalance, PfExposure, pfBooks, SumOver, MaxExposure

LEMMA RunPortfolioStep == ASSUME PfInv, NEW m \in Methods, RunPortfolio(m) PROVE PfInv'
<1>1. date = 0 /\ date' = 1 /\ method' = m /\ UNCHANGED <<visit, rows, prices, last, pfBooks, curve>>
  BY DEF RunPortfolio, pfFrame
<1>2. PfTypes'
  <2>1. date' \in 0..(Dates + 2)
    BY <1>1, PfConstants
  <2> QED
    BY <1>1, <2>1 DEF PfInv, PfTypes, pfBooks
<1>3. PfEnd'
  <2>1. date' \in 1..Dates /\ pfCash' >= 0 /\ visit' = 0
    BY <1>1, PfConstants DEF PfInv, PfEnd, PfTypes, pfBooks
  <2>2. \A s \in rows' : last'[s] = prices'[s]
    BY <1>1 DEF PfInv, PfEnd
  <2> QED
    BY <2>1, <2>2, PfConstants DEF PfEnd
<1> QED
  BY <1>1, <1>2, <1>3, PfBooksKept DEF PfInv

LEMMA OpenDateStep == ASSUME PfInv, OpenDate PROVE PfInv'
<1>1. /\ date \in 1..Dates /\ rows' \subseteq Shares
      /\ prices' \in [Shares -> ClosePrices \cup {0}]
      /\ last' = [s \in Shares |-> IF s \in rows' THEN prices'[s] ELSE last[s]]
      /\ visit' = 1 /\ UNCHANGED <<date, method, pfBooks, curve>>
  BY DEF OpenDate
<1>2. PfTypes'
  <2>1. visit' \in 0..(Listed + 1)
    BY <1>1, PfConstants
  <2>2. last' \in [Shares -> ClosePrices \cup {0}]
    BY <1>1 DEF PfInv, PfTypes
  <2> QED
    BY <1>1, <2>1, <2>2 DEF PfInv, PfTypes, pfBooks
<1>3. PfEnd'
  <2>1. date' = date /\ date # Dates + 1 /\ date # Dates + 2
    BY <1>1, PfConstants
  <2>2. \A s \in rows' : last'[s] = prices'[s]
    BY <1>1
  <2>3. pfCash' >= 0
    BY <1>1, PfConstants DEF PfInv, PfEnd, pfBooks
  <2> QED
    BY <1>1, <2>1, <2>2, <2>3 DEF PfEnd
<1> QED
  BY <1>1, <1>2, <1>3, PfBooksKept DEF PfInv

\* One row of the positions and of the PnL changes: the sums change by its terms.
LEMMA OneShareChanges ==
  ASSUME PfTypes, PfTypes', NEW v \in Shares,
         \A s \in Shares : s # v => positions'[s] = positions[s] /\ symbolPnl'[s] = symbolPnl[s]
  PROVE  /\ SumOver(Costs)' = SumOver(Costs) - positions[v].qty * positions[v].entry
                                + positions'[v].qty * positions'[v].entry
         /\ SumOver(symbolPnl)' = SumOver(symbolPnl) - symbolPnl[v] + symbolPnl'[v]
<1> DEFINE new == Costs'
<1>1. \A s \in Shares : Costs[s] \in Int
  BY PfIntegers DEF Costs
<1>2. \A s \in Shares : positions'[s].qty \in Nat /\ positions'[s].entry \in Nat
                        /\ symbolPnl'[s] \in Int
  BY DEF PfTypes
<1>3. \A s \in Shares : new[s] = positions'[s].qty * positions'[s].entry
  BY DEF Costs
<1>4. \A s \in Shares : new[s] \in Int
  BY <1>2, <1>3
<1>5. \A s \in Shares : s # v => Costs[s] = new[s]
  BY <1>3 DEF Costs
<1> HIDE DEF new
<1>6. SumFunctionOnSet(new, Shares) = SumFunctionOnSet(Costs, Shares) - Costs[v] + new[v]
  BY <1>1, <1>4, <1>5, SumChange, PfConstants
<1>7. SumFunctionOnSet(symbolPnl', Shares)
        = SumFunctionOnSet(symbolPnl, Shares) - symbolPnl[v] + symbolPnl'[v]
  <2>1. \A s \in Shares : symbolPnl[s] \in Int /\ symbolPnl'[s] \in Int
    BY <1>2, PfIntegers
  <2> QED
    BY <2>1, SumChange, PfConstants
<1>8. Costs[v] = positions[v].qty * positions[v].entry
  BY DEF Costs
<1> QED
  BY <1>3, <1>6, <1>7, <1>8 DEF SumOver, new

\* An allocation is no more than the exposure that is allowed.
LEMMA AllocationFacts ==
  ASSUME PfTypes, pfCash >= 0
  PROVE  Allocation \in Nat /\ Allocation <= MaxExposure /\ MaxExposure \in Nat
<1>1. MaxExposure \in Nat
  BY PfConstants, PartFacts DEF MaxExposure
<1> DEFINE c == Least(pfCash, MaxExposure)
<1>2. c \in Nat /\ c <= MaxExposure
  BY <1>1 DEF Least, PfTypes
<1>3. Allocation = IF method = "fixed_fractional" THEN c \div FixedParts ELSE c
  BY DEF Allocation
<1> HIDE DEF c
<1>4. c \div FixedParts \in Nat /\ c \div FixedParts <= c
  BY <1>2, PfConstants, PartFacts
<1> QED
  BY <1>1, <1>2, <1>3, <1>4

\* The quantity that is bought costs no more than the exposure allowed, unless it is 1.
LEMMA QuantityFacts ==
  ASSUME PfTypes, pfCash >= 0, NEW p \in Nat \ {0}
  PROVE  /\ Quantity(p) \in Nat \ {0} /\ Quantity(p) * p \in Nat
         /\ Quantity(p) * p <= MaxExposure \/ Quantity(p) = 1
<1>1. Allocation \in Nat /\ Allocation <= MaxExposure /\ MaxExposure \in Nat
  BY AllocationFacts
<1>2. CASE Allocation < p
  <2>1. Quantity(p) = 1
    BY <1>2 DEF Quantity
  <2> QED
    BY <2>1
<1>3. CASE ~(Allocation < p)
  <2> DEFINE k == Allocation \div p
  <2>1. k \in Nat /\ k * p <= Allocation
    BY <1>1, PartFacts
  <2>2. Quantity(p) = k
    BY <1>3 DEF Quantity
  <2>3. k # 0
    <3>1. Allocation = p * k + (Allocation % p) /\ Allocation % p \in 0..(p - 1)
      BY <1>1
    <3> HIDE DEF k
    <3>2. SUFFICES ASSUME k = 0 PROVE FALSE
      OBVIOUS
    <3>3. p * k = 0
      BY <3>2
    <3> QED
      BY <1>1, <1>3, <3>1, <3>3
  <2> HIDE DEF k
  <2>4. k * p \in Nat
    BY <2>1
  <2> QED
    BY <1>1, <2>1, <2>2, <2>3, <2>4
<1> QED
  BY <1>2, <1>3

\* What a visit that trades changes: one row, the cash, and the PnL of the row.
Trades(v) ==
  /\ visit = v /\ visit' = visit + 1
  /\ UNCHANGED <<date, rows, prices, last, method, curve>>
  /\ \A s \in Shares : s # v => positions'[s] = positions[s] /\ symbolPnl'[s] = symbolPnl[s]
  /\ pfCash' \in Nat
  /\ positions' \in [Shares -> [qty : Nat, entry : Nat]]
  /\ symbolPnl' \in [Shares -> Int]

\* What a trade does to the types and to the end of the run.
LEMMA TradeTypes ==
  ASSUME PfInv, NEW v \in Shares, Trades(v)
  PROVE  PfTypes' /\ PfEnd'
<1>1. visit' \in 1..(Listed + 1) /\ visit # 0 /\ visit' # 0
  BY PfConstants DEF Trades, Shares
<1>2. date \in 1..Dates /\ date' = date /\ date' # Dates + 1 /\ date' # Dates + 2
  BY <1>1, PfConstants DEF PfInv, PfEnd, Trades
<1>3. PfTypes'
  <2>1. visit' \in 0..(Listed + 1)
    BY <1>1
  <2> QED
    BY <1>2, <2>1 DEF PfInv, PfTypes, Trades
<1>4. PfEnd'
  BY <1>2, PfConstants DEF PfInv, PfEnd, Trades
<1> QED
  BY <1>3, <1>4

\* While the dates are visited the cash is not negative.
LEMMA CashInHand == ASSUME PfInv, visit # 0 PROVE pfCash \in Nat
  BY PfConstants DEF PfInv, PfTypes, PfEnd

LEMMA PfExitStep ==
  ASSUME PfInv, NEW v \in Shares, visit = v, Exit(v), visit' = visit + 1,
         UNCHANGED <<date, rows, prices, last, method, curve>>
  PROVE  PfInv'
<1> DEFINE p == prices[v]
           q == positions[v].qty
           e == positions[v].entry
<1>1. p \in Nat /\ q \in Nat /\ e \in Nat /\ symbolPnl[v] \in Int /\ p * q \in Nat
      /\ (p - e) * q \in Int /\ q * e \in Nat
  <2>1. p \in Nat /\ q \in Nat /\ e \in Nat /\ symbolPnl[v] \in Int
    BY PfIntegers DEF PfInv, Exit
  <2> QED
    BY <2>1
<1>2. /\ v \in Held
      /\ pfCash' = pfCash + p * q
      /\ symbolPnl' = [symbolPnl EXCEPT ![v] = symbolPnl[v] + (p - e) * q]
      /\ positions' = [positions EXCEPT ![v] = Flat]
  BY DEF Exit
<1>3. /\ pfCash' \in Nat
      /\ positions' \in [Shares -> [qty : Nat, entry : Nat]]
      /\ symbolPnl' \in [Shares -> Int]
  <2>1. pfCash \in Nat /\ positions \in [Shares -> [qty : Nat, entry : Nat]]
        /\ symbolPnl \in [Shares -> Int]
    BY CashInHand, PfConstants DEF PfInv, PfTypes, Shares
  <2>2. Flat \in [qty : Nat, entry : Nat]
    BY DEF Flat
  <2>3. symbolPnl[v] + (p - e) * q \in Int
    BY <1>1
  <2>4. pfCash' \in Nat
    BY <1>1, <1>2, <2>1
  <2> HIDE DEF p, q, e
  <2> QED
    BY <1>2, <2>1, <2>2, <2>3, <2>4
<1>4. \A s \in Shares : s # v => positions'[s] = positions[s] /\ symbolPnl'[s] = symbolPnl[s]
  BY <1>2 DEF PfInv, PfTypes
<1>5. /\ positions'[v] = Flat /\ symbolPnl'[v] = symbolPnl[v] + (p - e) * q
  BY <1>2 DEF PfInv, PfTypes
<1>6. Trades(v)
  BY <1>3, <1>4 DEF Trades
<1>7. PfTypes' /\ PfEnd'
  BY <1>6, TradeTypes
<1>8. PfBalance'
  <2>1. /\ SumOver(Costs)' = SumOver(Costs) - q * e + positions'[v].qty * positions'[v].entry
        /\ SumOver(symbolPnl)' = SumOver(symbolPnl) - symbolPnl[v] + symbolPnl'[v]
    BY <1>4, <1>7, OneShareChanges DEF PfInv
  <2>2. positions'[v].qty * positions'[v].entry = 0
    BY <1>5 DEF Flat
  <2>3. (p - e) * q = p * q - q * e
    BY <1>1
  <2>4. SumOver(Costs) \in Int /\ SumOver(symbolPnl) \in Int /\ pfCash \in Int
        /\ pfCash + SumOver(Costs) = TotalCapital + SumOver(symbolPnl)
    BY PfSums DEF PfInv, PfTypes, PfBalance
  <2>5. /\ SumOver(Costs)' = SumOver(Costs) - q * e
        /\ SumOver(symbolPnl)' = SumOver(symbolPnl) + (p * q - q * e)
        /\ pfCash' = pfCash + p * q
    <3>1. SumOver(Costs)' = SumOver(Costs) - q * e
      BY <1>1, <2>1, <2>2, <2>4
    <3>2. symbolPnl'[v] = symbolPnl[v] + (p * q - q * e)
      BY <1>5, <2>3
    <3>3. SumOver(symbolPnl)' = SumOver(symbolPnl) + (p * q - q * e)
      BY <1>1, <2>1, <2>4, <3>2
    <3> QED
      BY <1>2, <3>1, <3>3
  <2>6. pfCash' + SumOver(Costs)' = TotalCapital + SumOver(symbolPnl)'
    <3> HIDE DEF p, q, e
    <3> QED
      BY <1>1, <2>4, <2>5, PfConstants
  <2> QED
    BY <2>6 DEF PfBalance
<1>9. PfExposure'
  <2>1. \A s \in Shares : s # v => positions'[s] = positions[s]
    BY <1>4
  <2>2. Held' = Held \ {v}
    BY <1>5, <2>1 DEF Held, Flat
  <2>3. IsFiniteSet(Held)
    BY PfConstants, FS_Subset DEF Held
  <2>4. Cardinality(Held') <= Cardinality(Held)
    BY <2>2, <2>3, FS_Subset
  <2>5. Cardinality(Held) \in Nat /\ Cardinality(Held') \in Nat
    BY <2>2, <2>3, FS_CardinalityType, FS_RemoveElement
  <2>6. \A s \in Held' : positions'[s].qty * positions'[s].entry <= MaxExposure
                         \/ positions'[s].qty = 1
    BY <2>1, <2>2 DEF PfInv, PfExposure, Held
  <2> QED
    BY <2>4, <2>5, <2>6, PfConstants DEF PfInv, PfExposure, MaxExposure
<1> QED
  BY <1>7, <1>8, <1>9 DEF PfInv

LEMMA PfEnterStep ==
  ASSUME PfInv, NEW v \in Shares, visit = v, Enter(v), visit' = visit + 1,
         UNCHANGED <<date, rows, prices, last, method, curve>>
  PROVE  PfInv'
<1> DEFINE p == prices[v]
           q == Quantity(p)
           e == positions[v].entry
<1>1. p \in Nat \ {0} /\ q \in Nat \ {0} /\ q * p \in Nat
      /\ (q * p <= MaxExposure \/ q = 1)
  <2>1. p \in Nat \ {0}
    BY PfIntegers DEF PfInv, Enter
  <2>2. pfCash >= 0
    BY CashInHand, PfConstants DEF Shares
  <2> QED
    BY <2>1, <2>2, QuantityFacts DEF PfInv
<1>2. /\ v \notin Held /\ Cardinality(Held) < MaxPositions /\ q * p <= pfCash
      /\ pfCash' = pfCash - q * p
      /\ symbolPnl' = symbolPnl
      /\ positions' = [positions EXCEPT ![v] = [qty |-> q, entry |-> p]]
  BY DEF Enter, Enterable
<1>3. /\ positions[v].qty = 0 /\ e \in Nat
  <2>1. positions[v].qty \in Nat /\ e \in Nat
    BY PfIntegers DEF PfInv
  <2> QED
    BY <1>2, <2>1 DEF Held
<1> HIDE DEF q, p
<1>4. /\ pfCash' \in Nat
      /\ positions' \in [Shares -> [qty : Nat, entry : Nat]]
      /\ symbolPnl' \in [Shares -> Int]
  <2>1. pfCash \in Nat /\ positions \in [Shares -> [qty : Nat, entry : Nat]]
        /\ symbolPnl \in [Shares -> Int]
    BY CashInHand, PfConstants DEF PfInv, PfTypes, Shares
  <2>2. pfCash' \in Nat
    BY <1>1, <1>2, <2>1
  <2>3. [qty |-> q, entry |-> p] \in [qty : Nat, entry : Nat]
    BY <1>1
  <2> QED
    BY <1>2, <2>1, <2>2, <2>3
<1>5. \A s \in Shares : s # v => positions'[s] = positions[s] /\ symbolPnl'[s] = symbolPnl[s]
  BY <1>2 DEF PfInv, PfTypes
<1>6. /\ positions'[v].qty = q /\ positions'[v].entry = p /\ symbolPnl'[v] = symbolPnl[v]
  BY <1>2 DEF PfInv, PfTypes
<1>7. Trades(v)
  BY <1>4, <1>5 DEF Trades
<1>8. PfTypes' /\ PfEnd'
  BY <1>7, TradeTypes
<1>9. PfBalance'
  <2>1. /\ SumOver(Costs)' = SumOver(Costs) - positions[v].qty * e + q * p
        /\ SumOver(symbolPnl)' = SumOver(symbolPnl) - symbolPnl[v] + symbolPnl[v]
    BY <1>5, <1>6, <1>8, OneShareChanges DEF PfInv
  <2>2. positions[v].qty * e = 0
    BY <1>3
  <2>4. SumOver(Costs) \in Int /\ SumOver(symbolPnl) \in Int /\ pfCash \in Int
        /\ pfCash + SumOver(Costs) = TotalCapital + SumOver(symbolPnl) /\ symbolPnl[v] \in Int
    BY PfSums, PfIntegers DEF PfInv, PfTypes, PfBalance
  <2>5. SumOver(Costs)' = SumOver(Costs) + q * p /\ SumOver(symbolPnl)' = SumOver(symbolPnl)
    BY <1>1, <2>1, <2>2, <2>4
  <2>6. pfCash' + SumOver(Costs)' = TotalCapital + SumOver(symbolPnl)'
    BY <1>1, <1>2, <2>4, <2>5, PfConstants
  <2> QED
    BY <2>6 DEF PfBalance
<1>10. PfExposure'
  <2>1. \A s \in Shares : s # v => positions'[s] = positions[s]
    BY <1>5
  <2>2. Held' = Held \cup {v}
    BY <1>1, <1>6, <2>1 DEF Held
  <2>3. IsFiniteSet(Held)
    BY PfConstants, FS_Subset DEF Held
  <2>4. Cardinality(Held') = Cardinality(Held) + 1 /\ Cardinality(Held) \in Nat
    BY <1>2, <2>2, <2>3, FS_AddElement, FS_CardinalityType
  <2>5. Cardinality(Held') <= MaxPositions
    BY <1>2, <2>4, PfConstants
  <2>6. \A s \in Held' : positions'[s].qty * positions'[s].entry <= MaxExposure
                         \/ positions'[s].qty = 1
    BY <1>1, <1>6, <2>1, <2>2 DEF PfInv, PfExposure, Held
  <2> QED
    BY <2>5, <2>6 DEF PfExposure, MaxExposure
<1> QED
  BY <1>8, <1>9, <1>10 DEF PfInv

LEMMA VisitStep == ASSUME PfInv, NEW s \in {-1, 0, 1}, Visit(s) PROVE PfInv'
<1>1. visit \in Shares /\ visit' = visit + 1 /\ UNCHANGED <<date, rows, prices, last, method, curve>>
      /\ (Exit(visit) \/ Enter(visit) \/ UNCHANGED pfBooks)
  BY DEF Visit, pfFrame
<1>2. CASE Exit(visit)
  BY <1>1, <1>2, PfExitStep
<1>3. CASE Enter(visit)
  BY <1>1, <1>3, PfEnterStep
<1>4. CASE UNCHANGED pfBooks
  <2>1. Trades(visit)
    BY <1>1, <1>4, CashInHand, PfConstants DEF Trades, pfBooks, PfInv, PfTypes, Shares
  <2> QED
    BY <1>1, <1>4, <2>1, TradeTypes, PfBooksKept DEF PfInv
<1> QED
  BY <1>1, <1>2, <1>3, <1>4

LEMMA MarkToMarketStep == ASSUME PfInv, MarkToMarket PROVE PfInv'
<1>1. visit = Listed + 1 /\ visit' = 0 /\ date' = date + 1
      /\ UNCHANGED <<rows, prices, last, method, pfBooks>>
      /\ curve' = pfCash + SumOver(Marks)
  BY DEF MarkToMarket, Marks, MarkOf, pfFrame
<1>2. date \in 1..Dates /\ date' \in 2..(Dates + 1)
  BY <1>1, PfConstants DEF PfInv, PfEnd
<1>3. Marks' = Marks
  BY <1>1 DEF Marks, MarkOf, pfBooks
<1>4. SumOver(Marks) \in Int
  BY PfSums DEF PfInv
<1>5. PfTypes'
  <2>1. curve' \in Int /\ visit' \in 0..(Listed + 1) /\ date' \in 0..(Dates + 2)
    BY <1>1, <1>2, <1>4, PfConstants DEF PfInv, PfTypes
  <2> QED
    BY <1>1, <2>1 DEF PfInv, PfTypes, pfBooks
<1>6. PfEnd'
  <2>1. visit' = 0 /\ date' # Dates + 2 /\ pfCash' = pfCash
    BY <1>1, <1>2, PfConstants DEF pfBooks
  <2>2. curve' = pfCash' + SumOver(Marks')
    BY <1>1, <1>3, <2>1
  <2>3. pfCash' >= 0
    BY <1>2, <2>1, PfConstants DEF PfInv, PfEnd
  <2>4. \A s \in rows' : last'[s] = prices'[s]
    BY <1>1 DEF PfInv, PfEnd
  <2> QED
    BY <2>1, <2>2, <2>3, <2>4 DEF PfEnd, SumOver
<1> QED
  BY <1>1, <1>5, <1>6, PfBooksKept DEF PfInv

LEMMA CloseOpenStep == ASSUME PfInv, CloseOpen PROVE PfInv'
<1> DEFINE Sales == [s \in Shares |-> positions[s].qty * last[s]]
<1>1. /\ date = Dates + 1 /\ date' = Dates + 2
      /\ pfCash' = pfCash + SumOver(Sales)
      /\ symbolPnl' = [s \in Shares |->
           IF last[s] # 0 THEN symbolPnl[s] + (last[s] - positions[s].entry) * positions[s].qty
                          ELSE symbolPnl[s]]
      /\ positions' = [s \in Shares |-> IF last[s] # 0 THEN Flat ELSE positions[s]]
      /\ UNCHANGED <<visit, rows, prices, last, method, curve>>
  BY DEF CloseOpen, pfFrame
<1>2. \A s \in Shares : last[s] # 0 => positions'[s].qty = 0 /\ positions'[s].entry = 0
  BY <1>1 DEF Flat
<1>3. /\ \A s \in Shares : last[s] = 0 => positions'[s] = positions[s]
      /\ Held' = {s \in Held : last[s] = 0}
  BY <1>1, <1>2 DEF Held
<1>4. \A s \in Shares : Sales[s] \in Int
  BY PfIntegers DEF PfInv
<1>5. SumOver(Sales) \in Int
  BY PfSums DEF PfInv
<1>6. \A s \in Shares : /\ symbolPnl'[s] \in Int /\ Costs'[s] \in Int
                        /\ symbolPnl'[s] + Costs[s] = symbolPnl[s] + Sales[s] + Costs'[s]
  <2> SUFFICES ASSUME NEW s \in Shares
               PROVE  /\ symbolPnl'[s] \in Int /\ Costs'[s] \in Int
                      /\ symbolPnl'[s] + Costs[s] = symbolPnl[s] + Sales[s] + Costs'[s]
    OBVIOUS
  <2> DEFINE q == positions[s].qty
             e == positions[s].entry
             l == last[s]
             n == symbolPnl[s]
  <2>1. q \in Nat /\ e \in Nat /\ l \in Int /\ n \in Int /\ q * e \in Nat /\ q * l \in Int
    BY PfIntegers DEF PfInv
  <2>2. Costs[s] = q * e /\ Sales[s] = q * l
    BY DEF Costs
  <2>3. CASE l = 0
    <3>1. symbolPnl'[s] = n /\ Costs'[s] = q * e
      BY <1>1, <1>3, <2>3 DEF Costs
    <3>2. q * l = 0
      BY <2>1, <2>3
    <3> HIDE DEF q, e, l, n, Sales
    <3> QED
      BY <2>1, <2>2, <3>1, <3>2 DEF n
  <2>4. CASE l # 0
    <3>1. symbolPnl'[s] = n + (l - e) * q
      BY <1>1, <2>4
    <3>2. Costs'[s] = 0
      BY <1>2, <2>4 DEF Costs
    <3> HIDE DEF q, e, l, n, Sales
    <3>3. (l - e) * q = q * l - q * e
      BY <2>1
    <3>4. symbolPnl'[s] = n + (q * l - q * e)
      BY <3>1, <3>3
    <3> QED
      BY <2>1, <2>2, <3>2, <3>4 DEF n
  <2> QED
    BY <2>3, <2>4
<1>7. PfTypes'
  <2>1. pfCash' \in Int /\ date' \in 0..(Dates + 2)
    BY <1>1, <1>5, PfConstants DEF PfInv, PfTypes
  <2>2. positions' \in [Shares -> [qty : Nat, entry : Nat]]
    BY <1>1 DEF Flat, PfInv, PfTypes
  <2>3. symbolPnl' \in [Shares -> Int]
    BY <1>1, <1>6
  <2> QED
    BY <1>1, <2>1, <2>2, <2>3 DEF PfInv, PfTypes
<1>8. PfBalance'
  <2>1. SumOver(symbolPnl') + SumOver(Costs) = SumOver(symbolPnl) + SumOver(Sales) + SumOver(Costs')
    <3> DEFINE both == [s \in Shares |-> symbolPnl'[s] + Costs[s]]
               kept == [s \in Shares |-> Sales[s] + Costs'[s]]
               new == Costs'
    <3>1. \A s \in Shares : both[s] = symbolPnl'[s] + Costs[s] /\ kept[s] = Sales[s] + new[s]
      OBVIOUS
    <3>2. \A s \in Shares : symbolPnl[s] \in Int /\ Costs[s] \in Int /\ Sales[s] \in Int
      BY PfIntegers DEF PfInv, Costs
    <3> HIDE DEF both, kept, new, Sales
    <3>3. \A s \in Shares : /\ symbolPnl'[s] \in Int /\ new[s] \in Int /\ kept[s] \in Int
                            /\ both[s] = symbolPnl[s] + kept[s]
      BY <1>6, <3>1, <3>2 DEF new
    <3>4. SumFunctionOnSet(both, Shares)
            = SumFunctionOnSet(symbolPnl', Shares) + SumFunctionOnSet(Costs, Shares)
      BY <3>1, <3>2, <3>3, SumPlus, PfConstants
    <3>5. SumFunctionOnSet(both, Shares)
            = SumFunctionOnSet(symbolPnl, Shares) + SumFunctionOnSet(kept, Shares)
      BY <3>2, <3>3, SumPlus, PfConstants
    <3>6. SumFunctionOnSet(kept, Shares)
            = SumFunctionOnSet(Sales, Shares) + SumFunctionOnSet(new, Shares)
      BY <3>1, <3>2, <3>3, SumPlus, PfConstants
    <3>7. /\ SumFunctionOnSet(Sales, Shares) \in Int /\ SumFunctionOnSet(new, Shares) \in Int
          /\ SumFunctionOnSet(symbolPnl, Shares) \in Int
      BY <3>2, <3>3, SumType, PfConstants, Zenon
    <3> QED
      BY <3>4, <3>5, <3>6, <3>7 DEF SumOver, new
  <2>2. SumOver(Costs) \in Int /\ SumOver(symbolPnl) \in Int /\ pfCash \in Int
        /\ pfCash + SumOver(Costs) = TotalCapital + SumOver(symbolPnl)
    BY PfSums DEF PfInv, PfTypes, PfBalance
  <2>3. SumOver(symbolPnl') \in Int /\ SumOver(Costs') \in Int
    <3> DEFINE new == Costs'
    <3>1. \A s \in Shares : new[s] \in Int /\ symbolPnl'[s] \in Int
      BY <1>6
    <3> HIDE DEF new
    <3>2. SumFunctionOnSet(new, Shares) \in Int /\ SumFunctionOnSet(symbolPnl', Shares) \in Int
      BY <3>1, SumType, PfConstants, Zenon
    <3> QED
      BY <3>2 DEF SumOver, new
  <2>5. pfCash' = pfCash + SumOver(Sales) /\ SumOver(Sales) \in Int /\ TotalCapital \in Int
    BY <1>1, <1>5, PfConstants
  <2> HIDE DEF Sales
  <2>4. pfCash' + SumOver(Costs') = TotalCapital + SumOver(symbolPnl')
    BY <2>1, <2>2, <2>3, <2>5
  <2> QED
    BY <2>4 DEF PfBalance, SumOver
<1>9. PfExposure'
  <2>1. IsFiniteSet(Held) /\ Held' \subseteq Held
    BY <1>3, PfConstants, FS_Subset DEF Held
  <2>2. Cardinality(Held') <= Cardinality(Held) /\ Cardinality(Held) \in Nat
        /\ Cardinality(Held') \in Nat
    BY <2>1, FS_Subset, FS_CardinalityType
  <2>3. Cardinality(Held') <= MaxPositions
    BY <2>2, PfConstants DEF PfInv, PfExposure
  <2>4. \A s \in Held' : positions'[s] = positions[s] /\ s \in Held
    BY <1>3 DEF Held
  <2> QED
    BY <2>3, <2>4 DEF PfInv, PfExposure, MaxExposure
<1>10. PfEnd'
  <2>1. date' # Dates + 1 /\ ~(date' < Dates + 2) /\ visit = 0 /\ visit' = 0
    BY <1>1, PfConstants DEF PfInv, PfEnd
  <2>2. ASSUME rows = Shares PROVE curve = pfCash + SumOver(Sales)
    <3>1. \A s \in Shares : Marks[s] = Sales[s]
      <4> SUFFICES ASSUME NEW s \in Shares PROVE Marks[s] = Sales[s]
        OBVIOUS
      <4>1. s \in rows /\ last[s] = prices[s]
        BY <2>2 DEF PfInv, PfEnd
      <4> QED
        BY <4>1 DEF Marks, MarkOf
    <3> HIDE DEF Sales
    <3>2. SumOver(Marks) = SumOver(Sales)
      BY <3>1, SumSame, PfConstants, Zenon DEF SumOver
    <3>3. curve = pfCash + SumOver(Marks)
      BY <1>1 DEF PfInv, PfEnd
    <3> QED
      BY <3>2, <3>3
  <2> HIDE DEF Sales
  <2>3. rows' = Shares => curve' = pfCash'
    BY <1>1, <2>2
  <2>4. \A s \in rows' : last'[s] = prices'[s]
    BY <1>1 DEF PfInv, PfEnd
  <2>5. \A s \in Held' : last'[s] = 0
    BY <1>1, <1>3
  <2> QED
    BY <2>1, <2>3, <2>4, <2>5 DEF PfEnd
<1> QED
  BY <1>7, <1>8, <1>9, <1>10 DEF PfInv

LEMMA NextPf == PfInv /\ [PfNext]_pfVars => PfInv'
<1> SUFFICES ASSUME PfInv, [PfNext]_pfVars PROVE PfInv'
  OBVIOUS
<1>1. ASSUME NEW m \in Methods, RunPortfolio(m) PROVE PfInv'
  BY <1>1, RunPortfolioStep
<1>2. ASSUME NEW s \in {-1, 0, 1}, Visit(s) PROVE PfInv'
  BY <1>2, VisitStep
<1>3. ASSUME UNCHANGED pfVars PROVE PfInv'
  <2>1. UNCHANGED pfBooks /\ UNCHANGED <<date, visit, rows, prices, last, method, curve>>
    BY <1>3 DEF pfVars, pfFrame
  <2>2. Marks' = Marks
    BY <2>1 DEF Marks, MarkOf, pfBooks
  <2>3. PfTypes'
    BY <2>1 DEF PfInv, PfTypes, pfBooks
  <2>4. PfEnd'
    BY <2>1, <2>2, PfBooksKept DEF PfInv, PfEnd, pfBooks, SumOver
  <2> QED
    BY <2>1, <2>3, <2>4, PfBooksKept DEF PfInv
<1> QED
  BY <1>1, <1>2, <1>3, OpenDateStep, MarkToMarketStep, CloseOpenStep DEF PfNext

\* What the invariant of the portfolio backtest is for.
LEMMA PfInvAccounts == PfInv => PfTypeOK /\ PfAccounts /\ PfExposure
  BY DEF PfInv, PfTypes, PfTypeOK, PfBalance, PfEnd, PfAccounts, Costs

-----------------------------------------------------------------------------
(* The windows of the walk forward.                                         *)

Date == [month : Nat, day : 1..31]

\* A start up to the 28th is the day of every date of the analysis; a later one
\* is clipped now and then, never below the 28th.
DaysFrom(d) == IF d <= 28 THEN {d} ELSE 28..31

FirstDay == IF windows = <<>> THEN cursor.day ELSE windows[1].train.day

\* The window of a start, by its three lengths.
WindowOf(l, c) ==
  [train |-> c,
   validate |-> Plus(c, l.train),
   forward |-> Plus(Plus(c, l.train), l.validate),
   end |-> Plus(Plus(Plus(c, l.train), l.validate), l.forward)]

WfInv ==
  /\ wfAt \in {"idle", "build", "run", "done", "raised"}
  /\ metric \in {"sharpe", "win_rate"}
  /\ results \in Nat /\ results <= Len(windows) /\ best \in 0..Combos
  /\ months \in [train : Nat, validate : Nat, forward : Nat]
  /\ cursor \in Date /\ cursor.day <= DaysIn(cursor.month) /\ cursor.day \in DaysFrom(FirstDay)
  /\ windows \in Seq([train : Date, validate : Date, forward : Date, end : Date])
  /\ wfAt = "idle" => windows = <<>>
  /\ \A i \in 1..Len(windows) :
       windows[i] = WindowOf(months, windows[i].train) /\ windows[i].train.day \in DaysFrom(FirstDay)
  /\ \A i \in 1..(Len(windows) - 1) :
       windows[i + 1].train = Plus(windows[i].train, months.forward)
  /\ windows # <<>> => cursor = Plus(windows[Len(windows)].train, months.forward)

\* No month has fewer than 28 days or more than 31.
LEMMA DaysInMonth == ASSUME NEW m \in Nat PROVE DaysIn(m) \in 28..31
  BY DEF DaysIn

\* relativedelta adds the months and keeps the day, or clips it, not below the 28th.
LEMMA PlusFacts ==
  ASSUME NEW x \in Date, NEW n \in Nat, NEW d \in 1..31, x.day \in DaysFrom(d)
  PROVE  /\ Plus(x, n) \in Date /\ Plus(x, n).month = x.month + n
         /\ Plus(x, n).day \in DaysFrom(d)
         /\ Plus(x, n).day <= DaysIn(Plus(x, n).month)
<1>1. x.month \in Nat /\ x.day \in 1..31 /\ x.month + n \in Nat
  BY DEF Date
<1> DEFINE k == DaysIn(x.month + n)
<1>2. k \in 28..31
  BY <1>1, DaysInMonth
<1>3. Plus(x, n).month = x.month + n /\ Plus(x, n).day = IF x.day > k THEN k ELSE x.day
  BY DEF Plus
<1>4. Plus(x, n) = [month |-> Plus(x, n).month, day |-> Plus(x, n).day]
  BY DEF Plus
<1>5. Plus(x, n).day <= DaysIn(Plus(x, n).month)
  BY <1>1, <1>2, <1>3
<1> HIDE DEF k
<1>6. Plus(x, n).day \in 1..31 /\ Plus(x, n).day \in DaysFrom(d)
  BY <1>1, <1>2, <1>3 DEF DaysFrom
<1>7. Plus(x, n) \in Date
  BY <1>1, <1>3, <1>4, <1>6 DEF Date
<1> QED
  BY <1>3, <1>5, <1>6, <1>7

\* The four dates of a window are so many months apart.
LEMMA WindowFacts ==
  ASSUME months \in [train : Nat, validate : Nat, forward : Nat],
         NEW c \in Date, NEW d \in 1..31, c.day \in DaysFrom(d)
  PROVE  /\ Window(c) \in [train : Date, validate : Date, forward : Date, end : Date]
         /\ Window(c).train = c
         /\ Window(c).forward.month = c.month + months.train + months.validate
         /\ Window(c).end.month = c.month + months.train + months.validate + months.forward
         /\ Window(c).forward.day \in DaysFrom(d) /\ Window(c).end.day \in DaysFrom(d)
<1> DEFINE v == Plus(c, months.train)
           f == Plus(v, months.validate)
           e == Plus(f, months.forward)
<1>1. months.train \in Nat /\ months.validate \in Nat /\ months.forward \in Nat
  OBVIOUS
<1>2. v \in Date /\ v.month = c.month + months.train /\ v.day \in DaysFrom(d)
  BY <1>1, PlusFacts
<1>3. Window(c) = [train |-> c, validate |-> v, forward |-> f, end |-> e]
  BY DEF Window
<1> HIDE DEF v
<1>4. f \in Date /\ f.month = v.month + months.validate /\ f.day \in DaysFrom(d)
  BY <1>1, <1>2, PlusFacts
<1> HIDE DEF f
<1>5. e \in Date /\ e.month = f.month + months.forward /\ e.day \in DaysFrom(d)
  BY <1>1, <1>4, PlusFacts
<1> HIDE DEF e
<1> QED
  BY <1>2, <1>3, <1>4, <1>5

\* A window as it is built is one of its start and the lengths.
LEMMA WindowIsOf == \A c : Window(c) = WindowOf(months, c)
  BY DEF Window, WindowOf

\* What is assumed of the constants of the walk forward.
LEMMA WfConstants ==
  /\ StartDays \subseteq 1..31 /\ StartMonths \subseteq Nat
  /\ \A l \in Lengths : l \in Nat
  BY WalkForwardAssumption

\* The optimizer returns a combination that it tried.
LEMMA OptimiseTried ==
  ASSUME NEW rates \in [1..Combos -> {0, 1, Failed}]
  PROVE  Optimise(rates) \in 0..Combos
<1> DEFINE scored == {c \in 1..Combos : Score(rates[c]) # Failed}
           First(c) == \A d \in scored :
                         \/ Score(rates[d]) < Score(rates[c])
                         \/ Score(rates[d]) = Score(rates[c]) /\ c <= d
<1>1. Combos \in Nat /\ Failed \notin Int
  BY WalkForwardAssumption
<1>2. Optimise(rates) = IF scored = {} THEN IF Combos > 0 THEN 1 ELSE 0
                        ELSE CHOOSE c \in scored : First(c)
  BY DEF Optimise
<1>3. ASSUME scored # {} PROVE \E c \in scored : First(c)
  <2>1. \A c \in scored : Score(rates[c]) \in {0, 1}
    BY DEF Score
  <2> DEFINE ones == {c \in scored : Score(rates[c]) = 1}
             firsts == IF ones = {} THEN scored ELSE ones
  <2>2. firsts # {} /\ firsts \subseteq 1..Combos
    BY <1>3
  <2>3. PICK c \in firsts : \A d \in firsts : c <= d
    <3> HIDE DEF firsts
    <3>1. IsFiniteSet(firsts)
      <4>1. IsFiniteSet(1..Combos)
        BY <1>1, FS_Interval, 1 \in Int, Combos \in Int
      <4> QED
        BY <2>2, <4>1, FS_Subset
    <3>2. firsts \in SUBSET Int
      BY <1>1, <2>2
    <3> QED
      BY <2>2, <3>1, <3>2, SmallestExists
  <2>4. c \in scored
    BY <2>3
  <2>5. First(c)
    <3> SUFFICES ASSUME NEW d \in scored
                 PROVE  \/ Score(rates[d]) < Score(rates[c])
                        \/ Score(rates[d]) = Score(rates[c]) /\ c <= d
      OBVIOUS
    <3>1. Score(rates[d]) \in {0, 1} /\ Score(rates[c]) \in {0, 1}
      BY <2>1, <2>4
    <3>2. CASE d \in firsts
      <4>1. c <= d
        BY <2>3, <3>2
      <4>2. Score(rates[d]) = Score(rates[c])
        BY <2>1, <2>3, <3>2
      <4> QED
        BY <4>1, <4>2
    <3>3. CASE d \notin firsts
      <4>1. Score(rates[c]) = 1 /\ Score(rates[d]) # 1
        BY <2>3, <3>3
      <4> QED
        BY <3>1, <4>1
    <3> QED
      BY <3>2, <3>3
  <2> QED
    BY <2>4, <2>5
<1>4. scored # {} => (CHOOSE c \in scored : First(c)) \in scored
  <2> HIDE DEF scored, First
  <2> QED
    BY <1>3
<1>5. CASE scored = {}
  <2> HIDE DEF scored
  <2> QED
    BY <1>1, <1>2, <1>5
<1>6. CASE scored # {}
  <2> QED
    BY <1>1, <1>2, <1>4, <1>6
<1> QED
  BY <1>5, <1>6

LEMMA InitWf == WfInit => WfInv
<1> SUFFICES ASSUME WfInit PROVE WfInv
  OBVIOUS
<1>1. cursor = [month |-> 0, day |-> 1] /\ windows = << >>
      /\ months = [train |-> 12, validate |-> 3, forward |-> 3] /\ wfAt = "idle"
  BY DEF WfInit
<1>2. cursor \in Date /\ cursor.day = 1 /\ cursor.month = 0
  BY <1>1 DEF Date
<1>3. DaysIn(0) \in 28..31
  BY DaysInMonth
<1>4. FirstDay = 1 /\ 1 \in DaysFrom(1)
  BY <1>1 DEF FirstDay, DaysFrom
<1>5. windows \in Seq([train : Date, validate : Date, forward : Date, end : Date])
      /\ Len(windows) = 0
  BY <1>1
<1>6. metric = "sharpe" /\ results = 0 /\ best = 0 /\ Combos \in Nat
  BY WalkForwardAssumption DEF WfInit
<1> QED
  BY <1>1, <1>2, <1>3, <1>4, <1>5, <1>6 DEF WfInv

LEMMA RunWalkStep ==
  ASSUME WfInv, wfAt = "idle", NEW from \in [month : StartMonths, day : StartDays],
         NEW lengths \in [train : Lengths, validate : Lengths, forward : Lengths],
         NEW m \in {"sharpe", "win_rate"}, RunWalk(from, lengths, m)
  PROVE  WfInv'
<1>1. /\ from.day <= DaysIn(from.month)
      /\ wfAt' = "build" /\ cursor' = from /\ months' = lengths
      /\ windows' = windows /\ windows = << >>
      /\ metric' = m /\ results' = results /\ best' = best
  BY DEF RunWalk, WfInv
<1>2. from \in Date /\ from.day \in 1..31 /\ from.month \in Nat
  BY WfConstants DEF Date
<1>3. lengths \in [train : Nat, validate : Nat, forward : Nat]
  BY WfConstants
<1>4. FirstDay' = from.day
  BY <1>1 DEF FirstDay
<1>5. from.day \in DaysFrom(from.day)
  BY <1>2 DEF DaysFrom
<1>6. windows' \in Seq([train : Date, validate : Date, forward : Date, end : Date])
      /\ Len(windows') = 0 /\ windows' = << >>
  BY <1>1
<1> QED
  BY <1>1, <1>2, <1>3, <1>4, <1>5, <1>6 DEF WfInv

LEMMA BuildWindowStep == ASSUME WfInv, BuildWindow PROVE WfInv'
<1>1. /\ wfAt = "build" /\ months' = months
      /\ metric' = metric /\ results' = results /\ best' = best
      /\ \/ /\ windows' = Append(windows, Window(cursor))
            /\ cursor' = Plus(cursor, months.forward)
            /\ wfAt' = wfAt
         \/ /\ wfAt' \in {"done", "run"} /\ windows' = windows /\ cursor' = cursor
  BY DEF BuildWindow
<1>2. CASE windows' = windows /\ cursor' = cursor /\ wfAt' \in {"done", "run"}
  <2>1. FirstDay' = FirstDay
    BY <1>2 DEF FirstDay
  <2> QED
    BY <1>1, <1>2, <2>1 DEF WfInv
<1>3. CASE /\ windows' = Append(windows, Window(cursor))
           /\ cursor' = Plus(cursor, months.forward)
           /\ wfAt' = wfAt
  <2> DEFINE w == Window(cursor)
             n == Len(windows)
             d == FirstDay
  <2>1. cursor \in Date /\ months \in [train : Nat, validate : Nat, forward : Nat]
        /\ cursor.day \in DaysFrom(d) /\ cursor.day \in 1..31 /\ months.forward \in Nat
    BY DEF WfInv, Date
  <2>2. windows \in Seq([train : Date, validate : Date, forward : Date, end : Date]) /\ n \in Nat
    BY DEF WfInv
  <2>3. d \in 1..31
    <3>1. CASE windows = << >>
      BY <2>1, <3>1 DEF FirstDay
    <3>2. CASE windows # << >>
      <4>1. windows[1] \in [train : Date, validate : Date, forward : Date, end : Date]
        BY <2>2, <3>2, RowOf
      <4> QED
        BY <3>2, <4>1 DEF FirstDay, Date
    <3> QED
      BY <3>1, <3>2
  <2>4. w \in [train : Date, validate : Date, forward : Date, end : Date] /\ w.train = cursor
    BY <2>1, <2>3, WindowFacts
  <2>5. /\ windows' \in Seq([train : Date, validate : Date, forward : Date, end : Date])
        /\ Len(windows') = n + 1 /\ windows'[n + 1] = w
        /\ \A i \in 1..n : windows'[i] = windows[i]
    <3> HIDE DEF w
    <3> QED
      BY <1>3, <2>2, <2>4 DEF w
  <2>6. FirstDay' = d
    <3>1. CASE windows = << >>
      <4>1. windows'[1] = w /\ windows' # << >>
        <5>1. n = 0
          BY <3>1
        <5> HIDE DEF w, n
        <5> QED
          BY <2>5, <5>1
      <4> QED
        BY <2>4, <3>1, <4>1 DEF FirstDay
    <3>2. CASE windows # << >>
      <4>1. n >= 1 /\ windows'[1] = windows[1] /\ windows' # << >>
        BY <2>2, <2>5, <3>2
      <4> QED
        BY <3>2, <4>1 DEF FirstDay
    <3> QED
      BY <3>1, <3>2
  <2>7. cursor' \in Date /\ cursor'.day \in DaysFrom(d) /\ cursor'.day <= DaysIn(cursor'.month)
    BY <1>3, <2>1, <2>3, PlusFacts
  <2>8. \A i \in 1..Len(windows') :
          windows'[i] = WindowOf(months, windows'[i].train) /\ windows'[i].train.day \in DaysFrom(d)
    <3> SUFFICES ASSUME NEW i \in 1..Len(windows')
                 PROVE  windows'[i] = WindowOf(months, windows'[i].train)
                        /\ windows'[i].train.day \in DaysFrom(d)
      OBVIOUS
    <3>1. CASE i = n + 1
      <4>1. windows'[i] = w /\ windows'[i].train = cursor
        BY <2>4, <2>5, <3>1
      <4> HIDE DEF d, w
      <4> QED
        BY <2>1, <4>1, WindowIsOf DEF w
    <3>2. CASE i # n + 1
      <4>1. i \in 1..n /\ windows'[i] = windows[i]
        BY <2>2, <2>5, <3>2
      <4> QED
        BY <4>1 DEF WfInv
    <3> QED
      BY <3>1, <3>2
  <2>9. \A i \in 1..(Len(windows') - 1) :
          windows'[i + 1].train = Plus(windows'[i].train, months.forward)
    <3> SUFFICES ASSUME NEW i \in 1..(Len(windows') - 1)
                 PROVE  windows'[i + 1].train = Plus(windows'[i].train, months.forward)
      OBVIOUS
    <3>1. i \in 1..n /\ windows'[i] = windows[i] /\ i \in 1..Len(windows)
      BY <2>2, <2>5
    <3>2. CASE i = n
      <4>1. windows'[i + 1].train = cursor /\ windows # << >>
        BY <2>2, <2>4, <2>5, <3>1, <3>2
      <4> QED
        BY <3>1, <3>2, <4>1 DEF WfInv
    <3>3. CASE i # n
      <4>1. i \in 1..(n - 1) /\ windows'[i + 1] = windows[i + 1]
        BY <2>2, <2>5, <3>1, <3>3
      <4> QED
        BY <3>1, <4>1 DEF WfInv
    <3> QED
      BY <3>2, <3>3
  <2>10. cursor' = Plus(windows'[Len(windows')].train, months.forward)
    BY <1>3, <2>4, <2>5
  <2> HIDE DEF d, w
  <2> QED
    BY <1>1, <1>3, <2>1, <2>5, <2>6, <2>7, <2>8, <2>9, <2>10 DEF WfInv
<1> QED
  BY <1>1, <1>2, <1>3

LEMMA NextWf == WfInv /\ [WfNext]_wfVars => WfInv'
<1> SUFFICES ASSUME WfInv, [WfNext]_wfVars PROVE WfInv'
  OBVIOUS
<1>1. ASSUME UNCHANGED <<months, metric, cursor, windows>>, wfAt' \in {wfAt, "raised", "done"},
             results' \in Nat, results' <= Len(windows), best' \in 0..Combos
      PROVE  WfInv'
  <2>1. FirstDay' = FirstDay
    BY <1>1 DEF FirstDay
  <2>2. wfAt' = "idle" => wfAt = "idle"
    BY <1>1
  <2>3. wfAt' \in {"idle", "build", "run", "done", "raised"}
    BY <1>1 DEF WfInv
  <2> QED
    BY <1>1, <2>1, <2>2, <2>3 DEF WfInv
<1>2. ASSUME wfAt = "idle", NEW from \in [month : StartMonths, day : StartDays],
             NEW lengths \in [train : Lengths, validate : Lengths, forward : Lengths],
             NEW m \in {"sharpe", "win_rate"}, RunWalk(from, lengths, m)
      PROVE  WfInv'
  BY <1>2, RunWalkStep
<1>3. ASSUME NEW rates \in [1..Combos -> {0, 1, Failed}], NEW scored \in BOOLEAN,
             RunWindow(rates, scored)
      PROVE  WfInv'
  <2>1. /\ UNCHANGED <<months, metric, cursor, windows>> /\ wfAt' \in {wfAt, "raised"}
        /\ results < Len(windows) /\ results' \in {results, results + 1}
        /\ best' = Optimise(rates)
    BY <1>3 DEF RunWindow
  <2>2. best' \in 0..Combos
    BY <2>1, OptimiseTried
  <2>3. results \in Nat /\ Len(windows) \in Nat
    BY DEF WfInv
  <2>4. results' \in Nat /\ results' <= Len(windows)
    BY <2>1, <2>3
  <2> QED
    BY <1>1, <2>1, <2>2, <2>4
<1>4. ASSUME Stitch PROVE WfInv'
  BY <1>1, <1>4 DEF Stitch, WfInv
<1>5. ASSUME UNCHANGED wfVars PROVE WfInv'
  <2>1. UNCHANGED <<wfAt, months, metric, cursor, windows, results, best>>
    BY <1>5 DEF wfVars
  <2> QED
    BY <1>1, <2>1 DEF WfInv
<1> QED
  BY <1>2, <1>3, <1>4, <1>5, BuildWindowStep DEF WfNext

\* Dates of one month are as far apart as their days.
LEMMA SameMonth ==
  ASSUME NEW x \in Date, NEW y \in Date, x.month = y.month
  PROVE  Before(x, y) = y.day - x.day
<1> DEFINE o == 365 * (x.month \div 12) + YearDay[(x.month % 12) + 1]
<1>1. x.day \in Int /\ y.day \in Int /\ x.month \in Nat
  BY DEF Date
<1>2. o \in Int
  <2>0. \A n \in Nat : (n % 12) + 1 \in 1..12 /\ 365 * (n \div 12) \in Int
    OBVIOUS
  <2>1. (x.month % 12) + 1 \in 1..12 /\ 365 * (x.month \div 12) \in Int
    BY <1>1, <2>0
  <2>2. \A i \in 1..12 : YearDay[i] \in Int
    BY DEF YearDay
  <2> QED
    BY <2>1, <2>2
<1>3. Ordinal(x) = o + x.day /\ Ordinal(y) = o + y.day
  BY DEF Ordinal
<1> HIDE DEF o
<1> QED
  BY <1>1, <1>2, <1>3 DEF Before

\* Two days a chain reaches are equal up to the 28th, and three apart at most after it.
LEMMA DaysApart ==
  ASSUME NEW d \in 1..31, NEW e \in DaysFrom(d), NEW g \in DaysFrom(d)
  PROVE  e - g \in -3..3 /\ (d <= 28 => e - g = 0)
<1>1. CASE d <= 28
  <2>1. e = d /\ g = d
    BY <1>1 DEF DaysFrom
  <2> QED
    BY <2>1
<1>2. CASE ~(d <= 28)
  <2>1. e \in 28..31 /\ g \in 28..31
    BY <1>2 DEF DaysFrom
  <2> QED
    BY <1>2, <2>1
<1> QED
  BY <1>1, <1>2

\* Two windows in a row meet in one month, so that only their days can differ.
LEMMA WfInvChain == WfInv => WfForwardsChain
<1> SUFFICES ASSUME WfInv, NEW i \in 1..(Len(windows) - 1)
             PROVE  /\ Before(windows[i + 1].forward, windows[i].end) \in -3..3
                    /\ windows[1].train.day <= 28
                         => Before(windows[i + 1].forward, windows[i].end) = 0
  BY DEF WfForwardsChain
<1> DEFINE a == windows[i]
           b == windows[i + 1]
           d == windows[1].train.day
<1>1. windows \in Seq([train : Date, validate : Date, forward : Date, end : Date])
      /\ i \in 1..Len(windows) /\ i + 1 \in 1..Len(windows) /\ 1 \in 1..Len(windows)
      /\ windows # << >>
  BY DEF WfInv
<1>2. a \in [train : Date, validate : Date, forward : Date, end : Date]
      /\ b \in [train : Date, validate : Date, forward : Date, end : Date]
      /\ windows[1] \in [train : Date, validate : Date, forward : Date, end : Date]
  BY <1>1, RowOf
<1>3. d \in 1..31 /\ FirstDay = d
  BY <1>1, <1>2 DEF Date, FirstDay
<1>4. /\ a = WindowOf(months, a.train) /\ b = WindowOf(months, b.train)
      /\ a.train.day \in DaysFrom(d) /\ b.train.day \in DaysFrom(d)
      /\ b.train = Plus(a.train, months.forward)
      /\ months \in [train : Nat, validate : Nat, forward : Nat]
  BY <1>1, <1>3 DEF WfInv
<1> HIDE DEF d, a, b
<1>5. /\ a.end.month = a.train.month + months.train + months.validate + months.forward
      /\ a.end.day \in DaysFrom(d)
  BY <1>2, <1>3, <1>4, WindowFacts, WindowIsOf
<1>6. /\ b.forward.month = b.train.month + months.train + months.validate
      /\ b.forward.day \in DaysFrom(d)
  BY <1>2, <1>3, <1>4, WindowFacts, WindowIsOf
<1>7. b.train.month = a.train.month + months.forward
  BY <1>2, <1>3, <1>4, PlusFacts
<1>8. b.forward.month = a.end.month
  <2>1. a.train.month \in Nat /\ months.train \in Nat /\ months.validate \in Nat
        /\ months.forward \in Nat
    BY <1>2, <1>4 DEF Date
  <2> QED
    BY <1>5, <1>6, <1>7, <2>1
<1>9. Before(b.forward, a.end) = a.end.day - b.forward.day
  BY <1>2, <1>8, SameMonth
<1>10. a.end.day - b.forward.day \in -3..3 /\ (d <= 28 => a.end.day - b.forward.day = 0)
  BY <1>3, <1>5, <1>6, DaysApart
<1> QED
  BY <1>9, <1>10 DEF a, b, d

\* What the invariant of the walk forward says of the types.
LEMMA WfInvTypes == WfInv => WfTypeOK
  BY DEF WfInv, WfTypeOK

-----------------------------------------------------------------------------
(* The domain objects.                                                      *)

PositionRecord == [side : {"LONG", "SHORT"}, qty : Nat, cost : Nat]

DomainTypes ==
  /\ order \in [Slots -> {NoOrder} \cup OrderRecord]
  /\ open_positions \in [Symbols -> {NoPosition} \cup PositionRecord]
  /\ purse \in Int /\ longPnl \in Int /\ shortPnl \in Int /\ closed_trades \in Nat
  /\ orders \in 0..MaxOrders
  /\ unruly \in BOOLEAN /\ crooked \in BOOLEAN
  /\ \A s \in Open : open_positions[s].qty = 0 => crooked

\* A BUY with a limit that the rules have approved and that may still be filled,
\* and what the rest of it costs at most.
Ruled(o) ==
  /\ o # NoOrder /\ o.status \in {"OPEN", "PARTIALLY_FILLED"}
  /\ o.side = "BUY" /\ o.price > 0
Remaining(o) == IF Ruled(o) THEN o.price * (o.quantity - o.booked) ELSE 0

Remainders == [i \in Slots |-> Remaining(order[i])]
Promised == SumFunctionOnSet(Remainders, Slots)
Wanted == Open \cup {order[i].symbol : i \in {j \in Slots : Ruled(order[j])}}
Others == Cardinality(Slots) - 1

\* What is open and what has been approved is within the rules but for the orders
\* approved together with the last one.
Headroom ==
  /\ \A i \in Slots : Remaining(order[i]) <= MaxValue
  /\ ~unruly => /\ Exposure + Promised <= ExposureCap + Others * MaxValue
                /\ Cardinality(Wanted) <= MaxOpen + Others

DomainInv == DomainTypes /\ MoneyConserved /\ FillsCounted /\ Headroom

\* What FillsCounted says of one order.
FillsOf(o) ==
  /\ o.booked <= o.quantity /\ o.booked <= o.filled
  /\ ~o.raised => /\ o.booked = o.filled
                  /\ o.status = "FILLED" <=> o.booked = o.quantity
                  /\ o.status = "PARTIALLY_FILLED" => o.booked \in 1..(o.quantity - 1)

\* What a position adds to the exposure.
CostOf(p) == IF p = NoPosition THEN 0 ELSE p.cost
CostsOfAll == [s \in Symbols |-> CostOf(open_positions[s])]

\* The fields of a position.
LEMMA PositionFacts ==
  ASSUME NEW p \in {NoPosition} \cup PositionRecord
  PROVE  /\ CostOf(p) \in Nat
         /\ p # NoPosition => /\ p \in PositionRecord /\ p.side \in {"LONG", "SHORT"}
                              /\ p.qty \in Nat /\ p.cost \in Nat /\ CostOf(p) = p.cost
  BY DEF CostOf, PositionRecord

\* A position that is a record is open.
LEMMA RecordIsOpen == \A p \in PositionRecord : p # NoPosition /\ CostOf(p) = p.cost
  BY DomainAssumption DEF PositionRecord, CostOf

\* The statuses of an order.
LEMMA StatusDomain ==
  DOMAIN ValidTransitions = {"PENDING", "OPEN", "PARTIALLY_FILLED", "FILLED", "CANCELLED",
                             "REJECTED", "EXPIRED"}
  BY DEF ValidTransitions

\* The fields of an order.
LEMMA OrderFacts ==
  ASSUME NEW o \in OrderRecord
  PROVE  /\ o # NoOrder /\ o.symbol \in Symbols /\ o.side \in {"BUY", "SELL"}
         /\ o.price \in Nat /\ o.quantity \in Nat \ {0} /\ o.filled \in Nat /\ o.booked \in Nat
         /\ o.raised \in BOOLEAN
         /\ o.status \in {"PENDING", "OPEN", "PARTIALLY_FILLED", "FILLED", "CANCELLED",
                          "REJECTED", "EXPIRED"}
<1>1. o # NoOrder
  BY OrderAssumption
<1>2. o.status \in DOMAIN ValidTransitions /\ o.price \in {0} \cup FillPrices
  BY DEF OrderRecord
<1>3. o.price \in Nat
  <2>1. FillPrices \subseteq Nat /\ 0 \in Nat
    BY DomainAssumption
  <2> QED
    BY <1>2, <2>1, Zenon
<1>4. /\ o.symbol \in Symbols /\ o.side \in {"BUY", "SELL"}
      /\ o.quantity \in Nat \ {0} /\ o.filled \in Nat /\ o.booked \in Nat
  BY DEF OrderRecord
<1>5. o.raised \in BOOLEAN
  BY DEF OrderRecord
<1> QED
  BY <1>1, <1>2, <1>3, <1>4, <1>5, StatusDomain

\* What is in a slot.
LEMMA SlotFacts ==
  ASSUME DomainTypes, FillsCounted, NEW i \in Slots
  PROVE  /\ order[i] \in {NoOrder} \cup OrderRecord
         /\ order[i] # NoOrder => order[i] \in OrderRecord /\ FillsOf(order[i])
  BY DEF DomainTypes, FillsCounted, FillsOf

\* The rest of an order costs something or nothing.
LEMMA RemainingFacts ==
  /\ Remaining(NoOrder) = 0 /\ ~Ruled(NoOrder)
  /\ \A o \in OrderRecord : FillsOf(o) => Remaining(o) \in Nat
<1>1. Remaining(NoOrder) = 0 /\ ~Ruled(NoOrder)
  BY DEF Remaining, Ruled
<1>2. ASSUME NEW o \in OrderRecord, FillsOf(o) PROVE Remaining(o) \in Nat
  <2>1. o.price \in Nat /\ o.quantity - o.booked \in Nat
    BY <1>2, OrderFacts DEF FillsOf
  <2> DEFINE n == o.quantity - o.booked
  <2>2. o.price * n \in Nat
    BY <2>1
  <2>3. Remaining(o) = IF Ruled(o) THEN o.price * n ELSE 0
    BY DEF Remaining
  <2> HIDE DEF n
  <2> QED
    BY <2>2, <2>3
<1> QED
  BY <1>1, <1>2

\* What the slots have promised.
LEMMA PromisedFacts ==
  ASSUME DomainTypes, FillsCounted
  PROVE  /\ \A i \in Slots : Remainders[i] = Remaining(order[i]) /\ Remainders[i] \in Nat
         /\ Promised \in Nat
         /\ IsFiniteSet(Slots) /\ Cardinality(Slots) \in Nat /\ Others \in Nat
<1>1. \A i \in Slots : Remainders[i] = Remaining(order[i]) /\ Remainders[i] \in Nat
  BY SlotFacts, RemainingFacts DEF Remainders
<1>2. IsFiniteSet(Slots) /\ Slots # {}
  BY DomainAssumption
<1>3. Promised \in Nat
  BY <1>1, <1>2, SumNat DEF Promised
<1>4. Cardinality(Slots) \in Nat /\ Cardinality(Slots) # 0
  BY <1>2, FS_CardinalityType, FS_EmptySet
<1> QED
  BY <1>1, <1>2, <1>3, <1>4 DEF Others

\* The symbols that are open or asked for can be counted.
LEMMA WantedFacts ==
  ASSUME DomainTypes
  PROVE  /\ Open \subseteq Wanted /\ Wanted \subseteq Symbols
         /\ IsFiniteSet(Wanted) /\ IsFiniteSet(Open)
         /\ Cardinality(Wanted) \in Nat /\ Cardinality(Open) \in Nat
         /\ Cardinality(Open) <= Cardinality(Wanted)
<1>1. Open \subseteq Wanted /\ Open \subseteq Symbols
  BY DEF Wanted, Open
<1>2. ASSUME NEW i \in Slots, Ruled(order[i]) PROVE order[i].symbol \in Symbols
  <2>1. order[i] \in OrderRecord
    BY <1>2 DEF Ruled, DomainTypes
  <2> QED
    BY <2>1, OrderFacts
<1>3. Wanted \subseteq Symbols
  BY <1>1, <1>2 DEF Wanted
<1>4. IsFiniteSet(Wanted)
  BY <1>3, FS_Subset, DomainAssumption
<1> QED
  BY <1>1, <1>3, <1>4, FS_Subset, FS_CardinalityType

\* The exposure is that of all symbols, of which most have no position.
LEMMA ExposureOfAll ==
  ASSUME DomainTypes
  PROVE  /\ Exposure = SumFunctionOnSet(CostsOfAll, Symbols)
         /\ \A s \in Symbols : CostsOfAll[s] = CostOf(open_positions[s]) /\ CostsOfAll[s] \in Nat
         /\ Exposure \in Int
<1> DEFINE g == [s \in Open |-> open_positions[s].cost]
<1>1. ASSUME NEW s \in Symbols
      PROVE  /\ CostsOfAll[s] = CostOf(open_positions[s]) /\ CostsOfAll[s] \in Nat
             /\ s \notin Open => CostsOfAll[s] = 0
             /\ s \in Open => CostsOfAll[s] = g[s]
  <2>1. open_positions[s] \in {NoPosition} \cup PositionRecord
    BY DEF DomainTypes
  <2>2. CostsOfAll[s] = CostOf(open_positions[s])
    BY DEF CostsOfAll
  <2>3. s \notin Open => open_positions[s] = NoPosition
    BY DEF Open
  <2>4. s \in Open => open_positions[s] # NoPosition
    BY DEF Open
  <2> QED
    BY <2>1, <2>2, <2>3, <2>4, PositionFacts DEF CostOf
<1>2. Open \in SUBSET Symbols
  BY DEF Open
<1>3. IsFiniteSet(Symbols)
  BY DomainAssumption
<1>4. SumFunctionOnSet(g, Open) = SumFunctionOnSet(CostsOfAll, Symbols)
  <2>1. /\ \A s \in Symbols : CostsOfAll[s] \in Int
        /\ \A s \in Symbols \ Open : CostsOfAll[s] = 0
        /\ \A s \in Open : CostsOfAll[s] = g[s]
    <3> HIDE DEF g
    <3> QED
      BY <1>1, <1>2
  <2> HIDE DEF g
  <2> QED
    BY <2>1, <1>2, <1>3, SumOfPart
<1>5. SumFunctionOnSet(CostsOfAll, Symbols) \in Int
  <2>1. \A s \in Symbols : CostsOfAll[s] \in Int
    <3> HIDE DEF g
    <3> QED
      BY <1>1
  <2> QED
    BY <2>1, <1>3, SumType
<1>6. Exposure = SumFunctionOnSet(g, Open)
  BY DEF Exposure
<1> QED
  BY <1>1, <1>4, <1>5, <1>6

\* A sum of which one term changes.
LEMMA OneCostChanges ==
  ASSUME NEW f, NEW h, NEW a \in Symbols,
         \A s \in Symbols : f[s] \in Int /\ h[s] \in Int,
         \A s \in Symbols : s # a => f[s] = h[s]
  PROVE  SumFunctionOnSet(h, Symbols) = SumFunctionOnSet(f, Symbols) - f[a] + h[a]
<1>1. IsFiniteSet(Symbols)
  BY DomainAssumption
<1> QED
  BY <1>1, SumChange

\* A step that changes one position.
LEMMA ExposureAfter ==
  ASSUME DomainTypes, NEW a \in Symbols, NEW p \in {NoPosition} \cup PositionRecord,
         open_positions' = [open_positions EXCEPT ![a] = p]
  PROVE  /\ Exposure' = Exposure - CostOf(open_positions[a]) + CostOf(p)
         /\ Exposure' \in Int
         /\ open_positions' \in [Symbols -> {NoPosition} \cup PositionRecord]
         /\ Open' = IF p = NoPosition THEN Open \ {a} ELSE Open \cup {a}
<1>1. open_positions' \in [Symbols -> {NoPosition} \cup PositionRecord]
  BY DEF DomainTypes
<1>2. Open' = IF p = NoPosition THEN Open \ {a} ELSE Open \cup {a}
  BY <1>1 DEF Open, DomainTypes
<1> DEFINE h == CostsOfAll'
<1>3. h = [s \in Symbols |-> CostOf(open_positions'[s])]
  BY DEF CostsOfAll, CostOf
<1>4. ASSUME NEW s \in Symbols
      PROVE  /\ h[s] = CostOf(open_positions'[s]) /\ h[s] \in Nat
             /\ s \notin Open' => h[s] = 0
             /\ s \in Open' => h[s] = open_positions'[s].cost
  <2>1. open_positions'[s] \in {NoPosition} \cup PositionRecord
    BY <1>1
  <2>2. h[s] = CostOf(open_positions'[s])
    BY <1>3
  <2>3. (s \notin Open') <=> open_positions'[s] = NoPosition
    BY DEF Open
  <2> HIDE DEF h
  <2> QED
    BY <2>1, <2>2, <2>3, PositionFacts DEF CostOf
<1>5. IsFiniteSet(Symbols)
  BY DomainAssumption
<1> DEFINE g == [s \in Open' |-> open_positions'[s].cost]
<1>6. SumFunctionOnSet(g, Open') = SumFunctionOnSet(h, Symbols)
  <2>1. Open' \in SUBSET Symbols
    BY DEF Open
  <2>2. /\ \A s \in Symbols : h[s] \in Int
        /\ \A s \in Symbols \ Open' : h[s] = 0
        /\ \A s \in Open' : h[s] = g[s]
    <3> HIDE DEF h
    <3> QED
      BY <2>1, <1>4
  <2> HIDE DEF g, h
  <2> QED
    BY <2>1, <2>2, <1>5, SumOfPart
<1>7. Exposure' = SumFunctionOnSet(g, Open')
  BY DEF Exposure
<1>8. SumFunctionOnSet(h, Symbols) = SumFunctionOnSet(CostsOfAll, Symbols) - CostsOfAll[a] + h[a]
  <2>1. \A s \in Symbols : CostsOfAll[s] \in Int /\ h[s] \in Int
    <3> HIDE DEF h
    <3> QED
      BY <1>4, ExposureOfAll
  <2>2. ASSUME NEW s \in Symbols, s # a PROVE CostsOfAll[s] = h[s]
    <3>1. open_positions'[s] = open_positions[s]
      BY <2>2 DEF DomainTypes
    <3> HIDE DEF h
    <3> QED
      BY <3>1, <1>4, ExposureOfAll
  <2>3. \A s \in Symbols : s # a => CostsOfAll[s] = h[s]
    BY <2>2
  <2> DEFINE f == CostsOfAll
  <2>4. \A s \in Symbols : f[s] \in Int /\ h[s] \in Int
    BY <2>1
  <2>5. \A s \in Symbols : s # a => f[s] = h[s]
    BY <2>3
  <2> HIDE DEF f, g, h
  <2>6. SumFunctionOnSet(h, Symbols) = SumFunctionOnSet(f, Symbols) - f[a] + h[a]
    BY <2>4, <2>5, OneCostChanges
  <2> QED
    BY <2>6 DEF f
<1>9. h[a] = CostOf(p)
  <2>1. open_positions'[a] = p
    BY DEF DomainTypes
  <2> HIDE DEF h
  <2> QED
    BY <2>1, <1>4
<1>10. CostsOfAll[a] = CostOf(open_positions[a]) /\ CostsOfAll[a] \in Int /\ Exposure \in Int
       /\ Exposure = SumFunctionOnSet(CostsOfAll, Symbols) /\ CostOf(p) \in Nat
  BY ExposureOfAll, PositionFacts
<1> HIDE DEF g, h
<1>11. Exposure' = Exposure - CostOf(open_positions[a]) + CostOf(p)
  BY <1>6, <1>7, <1>8, <1>9, <1>10
<1>12. Exposure' \in Int
  BY <1>10, <1>11
<1> QED
  BY <1>1, <1>2, <1>11, <1>12

\* A step that leaves the positions alone.
LEMMA ExposureStays ==
  ASSUME open_positions' = open_positions
  PROVE  Exposure' = Exposure /\ Open' = Open
  BY DEF Exposure, Open

LEMMA InitDomain == DomainInit => DomainInv
<1> SUFFICES ASSUME DomainInit PROVE DomainInv
  OBVIOUS
<1>1. Open = {} /\ \A i \in Slots : order[i] = NoOrder
  BY DEF DomainInit, Open
<1>2. Exposure = 0
  BY <1>1, SumEmpty DEF Exposure
<1>3. {InitialCapital, ExposureCap, MaxOpen, MaxOrders, MaxValue} \subseteq Nat
  BY DomainAssumption
<1>4. DomainTypes
  <2>1. unruly \in BOOLEAN /\ crooked \in BOOLEAN
    BY Zenon DEF DomainInit
  <2>2. order \in [Slots -> {NoOrder} \cup OrderRecord]
    BY DEF DomainInit
  <2> QED
    BY <1>1, <1>3, <2>1, <2>2 DEF DomainTypes, DomainInit
<1>5. MoneyConserved
  BY <1>2, <1>3 DEF MoneyConserved, DomainInit
<1>6. FillsCounted
  BY <1>1 DEF FillsCounted
<1>7. Headroom
  <2>1. /\ \A i \in Slots : Remainders[i] = 0 /\ Remaining(order[i]) = 0 /\ ~Ruled(order[i])
        /\ IsFiniteSet(Slots) /\ Others \in Nat
    BY <1>1, <1>4, <1>6, RemainingFacts, PromisedFacts
  <2>2. Promised = 0
    BY <2>1, SumZero DEF Promised
  <2>3. Wanted = {}
    BY <1>1, <2>1 DEF Wanted
  <2>4. Others * MaxValue \in Nat
    BY <1>3, <2>1
  <2>5. Exposure + Promised <= ExposureCap + Others * MaxValue
    BY <1>2, <1>3, <2>2, <2>4
  <2>6. Cardinality(Wanted) <= MaxOpen + Others
    BY <1>3, <2>1, <2>3, FS_EmptySet
  <2> QED
    BY <1>3, <2>1, <2>5, <2>6 DEF Headroom
<1> QED
  BY <1>4, <1>5, <1>6, <1>7 DEF DomainInv

\* The transitions, status by status.
LEMMA Transitions ==
  /\ ValidTransitions["PENDING"] = {"OPEN", "CANCELLED", "REJECTED"}
  /\ ValidTransitions["OPEN"] = {"PARTIALLY_FILLED", "FILLED", "CANCELLED", "REJECTED", "EXPIRED"}
  /\ ValidTransitions["PARTIALLY_FILLED"] = {"FILLED", "CANCELLED", "EXPIRED"}
  /\ \A st \in {"FILLED", "CANCELLED", "REJECTED", "EXPIRED"} : ValidTransitions[st] = {}
  BY DEF ValidTransitions

\* From which states an order may be filled or cancelled.
LEMMA MayBecome ==
  ASSUME NEW o \in OrderRecord
  PROVE  /\ Allowed(o, "FILLED") => o.status \in {"OPEN", "PARTIALLY_FILLED"}
         /\ Allowed(o, "PARTIALLY_FILLED") => o.status = "OPEN"
         /\ Allowed(o, "CANCELLED") => o.status \in {"PENDING", "OPEN", "PARTIALLY_FILLED"}
         /\ Allowed(o, "EXPIRED") => o.status \in {"OPEN", "PARTIALLY_FILLED"}
<1>1. o.status \in {"PENDING", "OPEN", "PARTIALLY_FILLED", "FILLED", "CANCELLED",
                    "REJECTED", "EXPIRED"}
  BY OrderFacts
<1> DEFINE st == o.status
<1> HIDE DEF st
<1>2. CASE st = "PENDING"
  BY <1>2, Transitions DEF Allowed, st
<1>3. CASE st = "OPEN"
  BY <1>3, Transitions DEF Allowed, st
<1>4. CASE st = "PARTIALLY_FILLED"
  BY <1>4, Transitions DEF Allowed, st
<1>5. CASE st \in {"FILLED", "CANCELLED", "REJECTED", "EXPIRED"}
  BY <1>5, Transitions DEF Allowed, st
<1> QED
  BY <1>1, <1>2, <1>3, <1>4, <1>5 DEF st

\* What no step of the orders alone changes.
LEMMA MoneyStays ==
  ASSUME MoneyConserved, UNCHANGED <<account, crooked>>
  PROVE  MoneyConserved'
<1>1. /\ open_positions' = open_positions /\ purse' = purse /\ longPnl' = longPnl
      /\ shortPnl' = shortPnl /\ crooked' = crooked
  BY DEF account
<1> QED
  BY <1>1, ExposureStays DEF MoneyConserved

\* A sum over the slots of which one term changes.
LEMMA OneSlotChanges ==
  ASSUME NEW f, NEW h, NEW i \in Slots,
         \A j \in Slots : f[j] \in Int /\ h[j] \in Int,
         \A j \in Slots : j # i => f[j] = h[j]
  PROVE  SumFunctionOnSet(h, Slots) = SumFunctionOnSet(f, Slots) - f[i] + h[i]
<1>1. IsFiniteSet(Slots)
  BY DomainAssumption
<1> QED
  BY <1>1, SumChange

\* A step that changes one slot.
LEMMA SlotStep ==
  ASSUME DomainInv, NEW i \in Slots, NEW o \in OrderRecord, FillsOf(o),
         order' = [order EXCEPT ![i] = o]
  PROVE  /\ order' \in [Slots -> {NoOrder} \cup OrderRecord] /\ FillsCounted'
         /\ Promised \in Nat /\ Promised' \in Nat
         /\ Promised' = Promised - Remaining(order[i]) + Remaining(o)
         /\ order'[i] = o /\ \A j \in Slots : j # i => order'[j] = order[j]
         /\ Remaining(o) \in Nat /\ Remaining(order[i]) \in Nat
<1>1. DomainTypes /\ FillsCounted
  BY DEF DomainInv
<1>2. /\ order' \in [Slots -> {NoOrder} \cup OrderRecord]
      /\ order'[i] = o /\ \A j \in Slots : j # i => order'[j] = order[j]
  BY <1>1 DEF DomainTypes
<1>3. ASSUME NEW j \in Slots, order'[j] # NoOrder
      PROVE  order'[j] \in OrderRecord /\ FillsOf(order'[j])
  BY <1>1, <1>2, <1>3, SlotFacts
<1>4. FillsCounted'
  BY <1>3 DEF FillsCounted, FillsOf
<1> DEFINE f == Remainders
           h == Remainders'
<1>5. h = [j \in Slots |-> Remaining(order'[j])]
  BY DEF Remainders, Remaining, Ruled
<1>6. ASSUME NEW j \in Slots PROVE h[j] = Remaining(order'[j]) /\ h[j] \in Nat
  <2>1. h[j] = Remaining(order'[j])
    BY <1>5
  <2> HIDE DEF h
  <2> QED
    BY <1>3, <2>1, RemainingFacts
<1>7. \A j \in Slots : f[j] = Remaining(order[j]) /\ f[j] \in Nat
  BY <1>1, PromisedFacts
<1>8. IsFiniteSet(Slots) /\ Promised \in Nat
  BY <1>1, PromisedFacts
<1>9. Promised = SumFunctionOnSet(f, Slots) /\ Promised' = SumFunctionOnSet(h, Slots)
  BY DEF Promised
<1> HIDE DEF f, h
<1>10. SumFunctionOnSet(h, Slots) \in Nat
  BY <1>6, <1>8, SumNat
<1>11. SumFunctionOnSet(h, Slots) = SumFunctionOnSet(f, Slots) - f[i] + h[i]
  <2>1. \A j \in Slots : f[j] \in Int /\ h[j] \in Int
    BY <1>6, <1>7
  <2>2. \A j \in Slots : j # i => f[j] = h[j]
    BY <1>2, <1>6, <1>7
  <2> QED
    BY <2>1, <2>2, OneSlotChanges
<1>12. f[i] = Remaining(order[i]) /\ h[i] = Remaining(o) /\ f[i] \in Nat /\ h[i] \in Nat
  BY <1>2, <1>6, <1>7
<1> QED
  BY <1>2, <1>4, <1>8, <1>9, <1>10, <1>11, <1>12

\* A step that changes one slot only, and promises no more.
LEMMA LessStep ==
  ASSUME DomainInv, NEW i \in Slots, NEW o \in OrderRecord, FillsOf(o),
         order' = [order EXCEPT ![i] = o], Remaining(o) <= Remaining(order[i]),
         Ruled(o) => Ruled(order[i]) /\ o.symbol = order[i].symbol,
         UNCHANGED <<account, unruly, crooked>>, orders' \in 0..MaxOrders
  PROVE  DomainInv'
<1>1. /\ DomainTypes /\ FillsCounted /\ Headroom /\ MoneyConserved
      /\ open_positions' = open_positions /\ purse' = purse /\ closed_trades' = closed_trades
      /\ longPnl' = longPnl /\ shortPnl' = shortPnl /\ unruly' = unruly /\ crooked' = crooked
  BY DEF DomainInv, account
<1>2. /\ order' \in [Slots -> {NoOrder} \cup OrderRecord] /\ FillsCounted'
      /\ Promised \in Nat /\ Promised' \in Nat
      /\ Promised' = Promised - Remaining(order[i]) + Remaining(o)
      /\ order'[i] = o /\ \A j \in Slots : j # i => order'[j] = order[j]
      /\ Remaining(o) \in Nat /\ Remaining(order[i]) \in Nat
  BY SlotStep
<1>3. Open' = Open /\ Exposure' = Exposure
  BY <1>1, ExposureStays
<1>4. DomainTypes'
  BY <1>1, <1>2, <1>3 DEF DomainTypes
<1>5. Headroom'
  <2>1. ASSUME NEW j \in Slots PROVE Remaining(order'[j]) <= MaxValue
    <3>1. Remaining(order[j]) <= MaxValue /\ Remaining(order[i]) <= MaxValue /\ MaxValue \in Nat
      BY <1>1, DomainAssumption DEF Headroom
    <3>2. CASE j = i
      BY <1>2, <3>1, <3>2
    <3>3. CASE j # i
      BY <1>2, <3>1, <3>3
    <3> QED
      BY <3>2, <3>3
  <2>2. Wanted' \subseteq Wanted
    <3>1. ASSUME NEW j \in Slots, Ruled(order'[j])
          PROVE  Ruled(order[j]) /\ order'[j].symbol = order[j].symbol
      <4>1. CASE j = i
        BY <1>2, <3>1, <4>1
      <4>2. CASE j # i
        BY <1>2, <3>1, <4>2
      <4> QED
        BY <4>1, <4>2
    <3>2. Wanted' = Open' \cup {order'[j].symbol : j \in {k \in Slots : Ruled(order'[k])}}
      BY DEF Wanted, Ruled
    <3> QED
      BY <1>3, <3>1, <3>2 DEF Wanted
  <2>3. Cardinality(Wanted') <= Cardinality(Wanted) /\ Cardinality(Wanted) \in Nat
        /\ Cardinality(Wanted') \in Nat
    <3>1. IsFiniteSet(Wanted) /\ Cardinality(Wanted) \in Nat
      BY <1>1, WantedFacts
    <3> QED
      BY <2>2, <3>1, FS_Subset, FS_CardinalityType
  <2>4. ASSUME ~unruly
        PROVE  /\ Exposure' + Promised' <= ExposureCap + Others * MaxValue
               /\ Cardinality(Wanted') <= MaxOpen + Others
    <3>1. /\ Exposure + Promised <= ExposureCap + Others * MaxValue
          /\ Cardinality(Wanted) <= MaxOpen + Others
      BY <1>1, <2>4 DEF Headroom
    <3>2. /\ Exposure \in Int /\ ExposureCap \in Nat /\ MaxOpen \in Nat /\ MaxValue \in Nat
          /\ Others \in Nat
      BY <1>1, ExposureOfAll, PromisedFacts, DomainAssumption
    <3>3. Others * MaxValue \in Nat
      BY <3>2
    <3>4. Exposure' + Promised' <= ExposureCap + Others * MaxValue
      BY <1>2, <1>3, <3>1, <3>2, <3>3
    <3>5. Cardinality(Wanted') <= MaxOpen + Others
      BY <2>3, <3>1, <3>2
    <3> QED
      BY <3>4, <3>5
  <2>5. /\ \A j \in Slots : Remaining(order'[j]) <= MaxValue
        /\ ~unruly' => /\ Exposure' + Promised' <= ExposureCap + Others * MaxValue
                       /\ Cardinality(Wanted') <= MaxOpen + Others
    BY <1>1, <2>1, <2>4
  <2> QED
    BY <2>5 DEF Headroom, Remaining, Ruled, Others
<1> QED
  BY <1>2, <1>4, <1>5, MoneyStays DEF DomainInv

LEMMA CreateStep ==
  ASSUME DomainInv, NEW i \in Slots, NEW sym \in Symbols, NEW way \in {"BUY", "SELL"},
         NEW size \in Sizes, NEW cap \in GateCaps, NEW price \in {0} \cup FillPrices,
         Create(i, sym, way, size, cap, price)
  PROVE  DomainInv'
<1> DEFINE n == IF cap > 0 THEN Min({size, cap}) ELSE size
           o == [symbol |-> sym, side |-> way, price |-> price, status |-> "PENDING",
                 quantity |-> n, filled |-> 0, booked |-> 0, raised |-> FALSE]
<1>1. /\ order' = [order EXCEPT ![i] = o] /\ orders < MaxOrders /\ orders' = orders + 1
      /\ UNCHANGED <<account, unruly, crooked>>
  BY DEF Create
<1>2. n \in Nat \ {0}
  <2>1. size \in Nat \ {0} /\ cap \in Nat
    BY DomainAssumption
  <2>2. CASE cap > 0
    <3>1. \E x \in {size, cap} : \A y \in {size, cap} : x <= y
      BY <2>1
    <3>2. Min({size, cap}) \in {size, cap}
      BY <3>1 DEF Min
    <3> QED
      BY <2>1, <2>2, <3>2
  <2> QED
    BY <2>1, <2>2
<1> HIDE DEF n
<1>3. o \in OrderRecord
  <2>1. "PENDING" \in DOMAIN ValidTransitions
    BY StatusDomain
  <2> QED
    BY <1>2, <2>1 DEF OrderRecord
<1>4. /\ o.status = "PENDING" /\ o.filled = 0 /\ o.booked = 0 /\ o.quantity = n
      /\ FillsOf(o)
  BY <1>2 DEF FillsOf
<1> HIDE DEF o
<1>5. ~Ruled(o) /\ Remaining(o) = 0
  BY <1>4 DEF Ruled, Remaining
<1>6. orders' \in 0..MaxOrders
  <2>1. orders \in 0..MaxOrders /\ MaxOrders \in Nat
    BY DomainAssumption DEF DomainInv, DomainTypes
  <2> QED
    BY <1>1, <2>1
<1>7. Remaining(order[i]) \in Nat
  BY <1>1, <1>3, <1>4, SlotStep
<1>8. Remaining(o) <= Remaining(order[i]) /\ (Ruled(o) => Ruled(order[i]) /\ o.symbol = order[i].symbol)
  BY <1>5, <1>7
<1> QED
  BY <1>1, <1>3, <1>4, <1>6, <1>8, LessStep

\* The status of an order changes.
LEMMA WithStatus ==
  ASSUME DomainInv, NEW i \in Slots, order[i] # NoOrder,
         order[i].status \in {"PENDING", "OPEN", "PARTIALLY_FILLED"},
         NEW st \in {"OPEN", "CANCELLED", "REJECTED", "EXPIRED"}
  PROVE  LET o == [order[i] EXCEPT !.status = st] IN
         /\ o \in OrderRecord /\ FillsOf(o) /\ o.status = st /\ o.symbol = order[i].symbol
         /\ o.side = order[i].side /\ o.price = order[i].price
         /\ o.quantity = order[i].quantity /\ o.booked = order[i].booked
<1> DEFINE was == order[i]
           o == [was EXCEPT !.status = st]
<1>1. was \in OrderRecord /\ FillsOf(was)
  BY SlotFacts DEF DomainInv
<1>2. st \in DOMAIN ValidTransitions
  BY StatusDomain
<1>3. was.status \in {"PENDING", "OPEN", "PARTIALLY_FILLED"}
  OBVIOUS
<1> HIDE DEF was
<1>4. /\ o \in OrderRecord /\ o.status = st /\ o.symbol = was.symbol /\ o.side = was.side
      /\ o.price = was.price /\ o.quantity = was.quantity /\ o.booked = was.booked
      /\ o.filled = was.filled /\ o.raised = was.raised
  BY <1>1, <1>2 DEF OrderRecord
<1> HIDE DEF o
<1>5. FillsOf(o)
  <2>1. was.booked \in Nat /\ was.quantity \in Nat
    BY <1>1, OrderFacts
  <2>2. o.booked <= o.quantity /\ o.booked <= o.filled
    BY <1>1, <1>4 DEF FillsOf
  <2>3. ASSUME ~o.raised
        PROVE  /\ o.booked = o.filled
               /\ o.status # "FILLED" /\ o.booked # o.quantity /\ o.status # "PARTIALLY_FILLED"
    <3>1. was.booked = was.filled /\ (was.status = "FILLED" <=> was.booked = was.quantity)
      BY <1>1, <1>4, <2>3 DEF FillsOf
    <3> QED
      BY <1>3, <1>4, <3>1
  <2> QED
    BY <2>2, <2>3 DEF FillsOf
<1> QED
  BY <1>4, <1>5 DEF o, was

\* An order that is not worked any more, or never was, promises nothing.
LEMMA LeaveStep ==
  ASSUME DomainInv, NEW i \in Slots, order[i] # NoOrder,
         order[i].status \in {"PENDING", "OPEN", "PARTIALLY_FILLED"},
         NEW st \in {"OPEN", "CANCELLED", "REJECTED", "EXPIRED"},
         st = "OPEN" => order[i].side # "BUY" \/ order[i].price = 0,
         order' = [order EXCEPT ![i].status = st],
         UNCHANGED <<account, orders, unruly, crooked>>
  PROVE  DomainInv'
<1> DEFINE o == [order[i] EXCEPT !.status = st]
<1>1. /\ o \in OrderRecord /\ FillsOf(o) /\ o.status = st
      /\ o.side = order[i].side /\ o.price = order[i].price
  BY WithStatus
<1>2. order' = [order EXCEPT ![i] = o]
  OBVIOUS
<1>3. orders' \in 0..MaxOrders
  BY DEF DomainInv, DomainTypes
<1> HIDE DEF o
<1>4. ~Ruled(o) /\ Remaining(o) = 0
  BY <1>1 DEF Ruled, Remaining
<1>5. Remaining(order[i]) \in Nat
  BY <1>1, <1>2, SlotStep
<1>6. Remaining(o) <= Remaining(order[i]) /\ (Ruled(o) => Ruled(order[i]) /\ o.symbol = order[i].symbol)
  BY <1>4, <1>5
<1> QED
  BY <1>1, <1>2, <1>3, <1>6, LessStep

\* An order that the rules approve: the portfolio as it is has room for it, and
\* the other orders for no more than their number times the largest.
LEMMA ApproveStep ==
  ASSUME DomainInv, NEW i \in Slots, order[i] # NoOrder, order[i].status = "PENDING",
         Approved(order[i]), order[i].side = "BUY", order[i].price > 0,
         order' = [order EXCEPT ![i].status = "OPEN"],
         UNCHANGED <<account, orders, unruly, crooked>>
  PROVE  DomainInv'
<1> DEFINE was == order[i]
           o == [was EXCEPT !.status = "OPEN"]
<1>1. /\ o \in OrderRecord /\ FillsOf(o) /\ o.status = "OPEN" /\ o.symbol = was.symbol
      /\ o.side = "BUY" /\ o.price = was.price /\ o.price > 0
      /\ o.quantity = was.quantity /\ o.booked = was.booked
  BY WithStatus
<1>2. order' = [order EXCEPT ![i] = o]
  OBVIOUS
<1>3. /\ DomainTypes /\ FillsCounted /\ Headroom /\ MoneyConserved
      /\ open_positions' = open_positions /\ purse' = purse /\ closed_trades' = closed_trades
      /\ longPnl' = longPnl /\ shortPnl' = shortPnl /\ unruly' = unruly /\ crooked' = crooked
      /\ orders' = orders
  BY DEF DomainInv, account
<1>4. was.status = "PENDING" /\ Approved(was)
  OBVIOUS
<1> HIDE DEF o
<1>5. /\ order' \in [Slots -> {NoOrder} \cup OrderRecord] /\ FillsCounted'
      /\ Promised \in Nat /\ Promised' \in Nat
      /\ Promised' = Promised - Remaining(was) + Remaining(o)
      /\ order'[i] = o /\ \A j \in Slots : j # i => order'[j] = order[j]
      /\ Remaining(o) \in Nat
  BY <1>1, <1>2, SlotStep
<1> HIDE DEF was
<1>6. Remaining(was) = 0 /\ ~Ruled(was) /\ Ruled(o)
  BY <1>1, <1>4, OrderFacts DEF Remaining, Ruled
<1>7. Open' = Open /\ Exposure' = Exposure /\ Exposure \in Int
  BY <1>3, ExposureStays, ExposureOfAll
<1>8. DomainTypes'
  BY <1>3, <1>5, <1>7 DEF DomainTypes
<1>9. /\ o.price \in Nat /\ o.quantity \in Nat /\ o.booked \in Nat /\ o.symbol \in Symbols
      /\ ExposureCap \in Nat /\ MaxOpen \in Nat /\ MaxValue \in Nat
      /\ Others \in Nat /\ Cardinality(Slots) = Others + 1 /\ IsFiniteSet(Slots)
  <2>1. o.price \in Nat /\ o.quantity \in Nat /\ o.booked \in Nat /\ o.symbol \in Symbols
    BY <1>1, OrderFacts
  <2>2. ExposureCap \in Nat /\ MaxOpen \in Nat /\ MaxValue \in Nat
    BY DomainAssumption
  <2>3. Others \in Nat /\ Cardinality(Slots) = Others + 1 /\ IsFiniteSet(Slots)
    BY <1>3, PromisedFacts DEF Others
  <2> QED
    BY <2>1, <2>2, <2>3
<1>10. /\ o.price * o.quantity <= MaxValue
       /\ Exposure + o.price * o.quantity <= ExposureCap
       /\ o.symbol \notin Open => Cardinality(Open) < MaxOpen
  <2>1. MaxOrderSize(was) /\ MaxOpenPositions(was) /\ ExposureLimit(was)
    BY <1>4 DEF Approved
  <2>2. was.price * was.quantity <= MaxValue
    BY <1>1, <2>1 DEF MaxOrderSize
  <2>3. Exposure + was.price * was.quantity <= ExposureCap
    BY <2>1 DEF ExposureLimit
  <2>4. was.side = "BUY"
    BY DEF was
  <2>5. was.symbol \notin Open => Cardinality(Open) < MaxOpen
    BY <2>1, <2>4 DEF MaxOpenPositions
  <2> QED
    BY <1>1, <2>2, <2>3, <2>5
<1>11. Remaining(o) <= o.price * o.quantity
  <2>1. Remaining(o) = o.price * (o.quantity - o.booked)
    BY <1>6 DEF Remaining
  <2> QED
    BY <1>9, <2>1, ProductGrows
<1>12. Promised <= Others * MaxValue
  <2> DEFINE f == Remainders
             rest == Slots \ {i}
  <2>1. /\ \A j \in Slots : f[j] \in Nat /\ f[j] <= MaxValue
        /\ f[i] = 0
    <3>1. \A j \in Slots : Remainders[j] = Remaining(order[j]) /\ Remainders[j] \in Nat
      BY <1>3, PromisedFacts
    <3>2. \A j \in Slots : Remaining(order[j]) <= MaxValue
      BY <1>3 DEF Headroom
    <3> QED
      BY <1>6, <3>1, <3>2 DEF was
  <2> HIDE DEF f
  <2>2. SumFunctionOnSet(f, Slots) = f[i] + SumFunctionOnSet(f, rest)
    BY <1>9, <2>1, SumRemove
  <2>3. IsFiniteSet(rest) /\ Cardinality(rest) = Others
    <3>1. IsFiniteSet(rest) /\ Cardinality(rest) = Cardinality(Slots) - 1
      BY <1>9, FS_RemoveElement
    <3> HIDE DEF rest
    <3> QED
      BY <1>9, <3>1
  <2>4. SumFunctionOnSet(f, rest) <= Cardinality(rest) * MaxValue
    <3>1. \A j \in rest : f[j] \in Nat /\ f[j] <= MaxValue
      BY <2>1
    <3> HIDE DEF rest
    <3> QED
      BY <1>9, <2>3, <3>1, SumBounded
  <2>5. SumFunctionOnSet(f, rest) \in Nat
    <3>1. \A j \in rest : f[j] \in Nat
      BY <2>1
    <3> HIDE DEF rest
    <3> QED
      BY <2>3, <3>1, SumNat
  <2> HIDE DEF rest
  <2>6. Promised = SumFunctionOnSet(f, Slots)
    BY DEF Promised, f
  <2>7. SumFunctionOnSet(f, Slots) = SumFunctionOnSet(f, rest)
    BY <2>1, <2>2, <2>5
  <2> QED
    BY <2>3, <2>4, <2>6, <2>7
<1>13. Exposure' + Promised' <= ExposureCap + Others * MaxValue
  <2> DEFINE value == o.price * o.quantity
             most == Others * MaxValue
  <2>1. value \in Nat /\ most \in Nat
    BY <1>9
  <2>2. Exposure + value <= ExposureCap /\ Remaining(o) <= value /\ Promised <= most
    BY <1>10, <1>11, <1>12
  <2> HIDE DEF value, most
  <2>3. Exposure' + Promised' <= ExposureCap + most
    BY <1>5, <1>6, <1>7, <1>9, <2>1, <2>2
  <2> QED
    BY <2>3 DEF most
<1>14. \A j \in Slots : Remaining(order'[j]) <= MaxValue
  <2>1. \A j \in Slots : Remaining(order[j]) <= MaxValue
    BY <1>3 DEF Headroom
  <2> DEFINE value == o.price * o.quantity
  <2>2. value \in Nat /\ value <= MaxValue /\ Remaining(o) <= value
    BY <1>9, <1>10, <1>11
  <2> HIDE DEF value
  <2>3. Remaining(o) <= MaxValue
    BY <1>5, <1>9, <2>2
  <2> QED
    BY <1>5, <2>1, <2>3
<1>15. Wanted' = Wanted \cup {o.symbol}
  <2>1. Wanted' = Open' \cup {order'[j].symbol : j \in {k \in Slots : Ruled(order'[k])}}
    BY DEF Wanted, Ruled
  <2>2. ASSUME NEW j \in Slots, Ruled(order'[j]) PROVE order'[j].symbol \in Wanted \cup {o.symbol}
    <3>1. CASE j = i
      BY <1>5, <3>1
    <3>2. CASE j # i
      BY <1>5, <2>2, <3>2 DEF Wanted
    <3> QED
      BY <3>1, <3>2
  <2>3. ASSUME NEW j \in Slots, Ruled(order[j]) PROVE order[j].symbol \in Wanted'
    <3>1. j # i
      BY <1>6, <2>3 DEF was
    <3>2. order'[j] = order[j]
      BY <1>5, <3>1
    <3> QED
      BY <2>1, <2>3, <3>2
  <2>4. o.symbol \in Wanted'
    <3>1. i \in {k \in Slots : Ruled(order'[k])} /\ order'[i].symbol = o.symbol
      BY <1>5, <1>6
    <3> QED
      BY <2>1, <3>1
  <2> QED
    BY <1>7, <2>1, <2>2, <2>3, <2>4 DEF Wanted
<1>16. ASSUME ~unruly PROVE Cardinality(Wanted') <= MaxOpen + Others
  <2>1. CASE o.symbol \in Open
    <3>1. Wanted' = Wanted
      BY <1>3, <1>15, <2>1, WantedFacts
    <3> QED
      BY <1>3, <1>16, <3>1 DEF Headroom
  <2>2. CASE o.symbol \notin Open
    <3> DEFINE T == {j \in Slots : Ruled(order'[j])}
               V == {order'[j].symbol : j \in T}
    <3>1. Wanted' = Open \cup V
      BY <1>7 DEF Wanted, Ruled
    <3>2. IsFiniteSet(T) /\ Cardinality(T) <= Cardinality(Slots)
      BY <1>9, FS_Subset
    <3>3. IsFiniteSet(V) /\ Cardinality(V) <= Cardinality(T)
      <4> DEFINE f == [j \in T |-> order'[j].symbol]
      <4>1. V = {f[j] : j \in T}
        OBVIOUS
      <4> HIDE DEF f, T
      <4>2. IsFiniteSet({f[j] : j \in T}) /\ Cardinality({f[j] : j \in T}) <= Cardinality(T)
        BY <3>2, ImageBounded
      <4> QED
        BY <4>1, <4>2
    <3> HIDE DEF T, V
    <3>4. IsFiniteSet(Open) /\ Cardinality(Open) \in Nat /\ Cardinality(Open) < MaxOpen
      BY <1>3, <1>10, <2>2, WantedFacts
    <3>5. Cardinality(T) \in Nat /\ Cardinality(V) \in Nat
      BY <3>2, <3>3, FS_CardinalityType
    <3>6. /\ Cardinality(Open \cup V) = Cardinality(Open) + Cardinality(V) - Cardinality(Open \cap V)
          /\ Cardinality(Open \cap V) \in Nat
      BY <3>3, <3>4, FS_Union, FS_Intersection, FS_CardinalityType
    <3> QED
      BY <1>9, <3>1, <3>2, <3>3, <3>4, <3>5, <3>6
  <2> QED
    BY <2>1, <2>2
<1>17. Headroom'
  <2>1. /\ \A j \in Slots : Remaining(order'[j]) <= MaxValue
        /\ ~unruly' => /\ Exposure' + Promised' <= ExposureCap + Others * MaxValue
                       /\ Cardinality(Wanted') <= MaxOpen + Others
    BY <1>3, <1>13, <1>14, <1>16
  <2> QED
    BY <2>1 DEF Headroom, Remaining, Ruled, Others
<1> QED
  BY <1>5, <1>8, <1>17, MoneyStays DEF DomainInv

LEMMA SubmitStep ==
  ASSUME DomainInv, NEW i \in Slots, Submit(i)
  PROVE  DomainInv'
<1>1. /\ order[i] # NoOrder /\ order[i].status = "PENDING"
      /\ order' = [order EXCEPT ![i].status = IF Approved(order[i]) THEN "OPEN" ELSE "REJECTED"]
      /\ UNCHANGED <<account, orders, unruly, crooked>>
  BY DEF Submit
<1>2. order[i].price \in Nat
  BY <1>1, SlotFacts, OrderFacts DEF DomainInv
<1>3. CASE ~Approved(order[i])
  <2>1. order' = [order EXCEPT ![i].status = "REJECTED"]
    BY <1>1, <1>3
  <2> QED
    BY <1>1, <2>1, LeaveStep
<1>4. CASE Approved(order[i])
  <2>1. order' = [order EXCEPT ![i].status = "OPEN"]
    BY <1>1, <1>4
  <2>2. CASE order[i].side = "BUY" /\ order[i].price > 0
    BY <1>1, <1>4, <2>1, <2>2, ApproveStep
  <2>3. CASE ~(order[i].side = "BUY" /\ order[i].price > 0)
    <3>1. order[i].side # "BUY" \/ order[i].price = 0
      BY <1>2, <2>3
    <3>2. "OPEN" \in {"OPEN", "CANCELLED", "REJECTED", "EXPIRED"}
          /\ order[i].status \in {"PENDING", "OPEN", "PARTIALLY_FILLED"}
      BY <1>1
    <3> QED
      BY <1>1, <2>1, <3>1, <3>2, LeaveStep
  <2> QED
    BY <2>2, <2>3
<1> QED
  BY <1>3, <1>4

LEMMA CancelStep ==
  ASSUME DomainInv, NEW i \in Slots, NEW new \in {"CANCELLED", "EXPIRED"}, Cancel(i, new)
  PROVE  DomainInv'
<1>1. /\ order[i] # NoOrder /\ Allowed(order[i], new)
      /\ order' = [order EXCEPT ![i].status = new]
      /\ UNCHANGED <<account, orders, unruly, crooked>>
  BY DEF Cancel
<1>2. order[i].status \in {"PENDING", "OPEN", "PARTIALLY_FILLED"}
  BY <1>1, SlotFacts, MayBecome DEF DomainInv
<1> QED
  BY <1>1, <1>2, LeaveStep

\* A fill that the life cycle allows is booked ...
LEMMA FillStep ==
  ASSUME DomainInv, NEW i \in Slots, NEW qty \in Sizes, NEW price \in FillPrices,
         Fill(i, qty, price), Allowed(order[i], Filled(order[i], qty))
  PROVE  DomainInv'
<1> DEFINE was == order[i]
           st == Filled(was, qty)
           o == [was EXCEPT !.filled = @ + qty, !.booked = @ + qty, !.status = st]
           a == was.symbol
           old == open_positions[a]
           new == IF old = NoPosition
                    THEN [side |-> IF was.side = "BUY" THEN "LONG" ELSE "SHORT",
                          qty |-> qty, cost |-> qty * price]
                    ELSE [side |-> old.side, qty |-> old.qty + qty, cost |-> old.cost + qty * price]
<1>1. /\ was # NoOrder /\ qty <= was.quantity - was.booked /\ WithinLimit(was, price)
      /\ order' = [order EXCEPT ![i] = o]
      /\ open_positions' = [open_positions EXCEPT ![a] = new]
      /\ purse' = purse - qty * price
      /\ unruly' = (unruly \/ was.price = 0 \/ was.side = "SELL")
      /\ closed_trades' = closed_trades /\ longPnl' = longPnl /\ shortPnl' = shortPnl
      /\ orders' = orders /\ crooked' = crooked
  BY DEF Fill, AddPosition
<1>2. /\ was \in OrderRecord /\ FillsOf(was) /\ a \in Symbols /\ was.side \in {"BUY", "SELL"}
      /\ was.price \in Nat /\ was.quantity \in Nat \ {0} /\ was.filled \in Nat
      /\ was.booked \in Nat
  <2>1. was \in OrderRecord /\ FillsOf(was)
    BY <1>1, SlotFacts DEF DomainInv
  <2> HIDE DEF was
  <2> QED
    BY <2>1, OrderFacts
<1>3. qty \in Nat \ {0} /\ price \in Nat \ {0}
  BY DomainAssumption
<1>4. /\ st = IF was.filled + qty >= was.quantity THEN "FILLED" ELSE "PARTIALLY_FILLED"
      /\ was.status \in {"OPEN", "PARTIALLY_FILLED"}
      /\ st = "PARTIALLY_FILLED" => was.status = "OPEN"
  <2>1. st = IF was.filled + qty >= was.quantity THEN "FILLED" ELSE "PARTIALLY_FILLED"
    BY DEF Filled
  <2>2. Allowed(was, st)
    OBVIOUS
  <2> HIDE DEF st, was
  <2> QED
    BY <1>2, <2>1, <2>2, MayBecome
<1>5. DomainTypes /\ FillsCounted /\ Headroom /\ MoneyConserved
  BY DEF DomainInv
<1>6. i \in Slots /\ order[i] = was
  OBVIOUS
<1> HIDE DEF st, was
<1>7. /\ o \in OrderRecord /\ o.status = st /\ o.filled = was.filled + qty
      /\ o.booked = was.booked + qty /\ o.symbol = a /\ o.side = was.side
      /\ o.price = was.price /\ o.quantity = was.quantity /\ o.raised = was.raised
  <2>1. st \in DOMAIN ValidTransitions
    BY <1>4, StatusDomain
  <2> DEFINE n == was.filled + qty
             m == was.booked + qty
  <2>2. n \in Nat /\ m \in Nat
    BY <1>2, <1>3
  <2>3. o = [was EXCEPT !.filled = n, !.booked = m, !.status = st]
    OBVIOUS
  <2> HIDE DEF n, m, o, a
  <2>4. /\ o \in OrderRecord /\ o.status = st /\ o.filled = n /\ o.booked = m
        /\ o.symbol = was.symbol /\ o.side = was.side
        /\ o.price = was.price /\ o.quantity = was.quantity /\ o.raised = was.raised
    BY <1>2, <2>1, <2>2, <2>3 DEF OrderRecord
  <2> QED
    BY <2>4 DEF n, m, a
<1> HIDE DEF o
<1>8. FillsOf(o)
  <2>1. o.booked <= o.quantity /\ o.booked <= o.filled
    BY <1>1, <1>2, <1>3, <1>7 DEF FillsOf
  <2>2. ASSUME ~o.raised
        PROVE  /\ o.booked = o.filled
               /\ o.status = "FILLED" <=> o.booked = o.quantity
               /\ o.status = "PARTIALLY_FILLED" => o.booked \in 1..(o.quantity - 1)
    <3>1. was.booked = was.filled
      BY <1>2, <1>7, <2>2 DEF FillsOf
    <3> QED
      BY <1>1, <1>2, <1>3, <1>4, <1>7, <2>1, <3>1
  <2> QED
    BY <2>1, <2>2 DEF FillsOf
<1>9. /\ order' \in [Slots -> {NoOrder} \cup OrderRecord] /\ FillsCounted'
      /\ Promised \in Nat /\ Promised' \in Nat
      /\ Promised' = Promised - Remaining(was) + Remaining(o)
      /\ order'[i] = o /\ \A j \in Slots : j # i => order'[j] = order[j]
      /\ Remaining(o) \in Nat /\ Remaining(was) \in Nat
  BY <1>1, <1>6, <1>7, <1>8, SlotStep
<1>10. new \in PositionRecord /\ CostOf(new) = CostOf(old) + qty * price /\ new.qty > 0
  <2>1. old \in {NoPosition} \cup PositionRecord
    BY <1>2, <1>5 DEF DomainTypes
  <2>2. qty * price \in Nat
    BY <1>3
  <2>3. new \in PositionRecord /\ new.qty > 0
    <3>1. CASE old = NoPosition
      <4>1. new = [side |-> IF was.side = "BUY" THEN "LONG" ELSE "SHORT",
                   qty |-> qty, cost |-> qty * price]
        BY <3>1
      <4> QED
        BY <1>3, <2>2, <4>1 DEF PositionRecord
    <3>2. CASE old # NoPosition
      <4>1. new = [side |-> old.side, qty |-> old.qty + qty, cost |-> old.cost + qty * price]
        BY <3>2
      <4>2. old.side \in {"LONG", "SHORT"} /\ old.qty \in Nat /\ old.cost \in Nat
        BY <2>1, <3>2, PositionFacts
      <4>3. old.qty + qty \in Nat /\ old.cost + qty * price \in Nat /\ old.qty + qty > 0
        BY <1>3, <2>2, <4>2
      <4> QED
        BY <4>1, <4>2, <4>3 DEF PositionRecord
    <3> QED
      BY <3>1, <3>2
  <2>4. CostOf(new) = new.cost
    BY <2>3, RecordIsOpen
  <2>5. CostOf(old) = IF old = NoPosition THEN 0 ELSE old.cost
    BY DEF CostOf
  <2>6. CASE old = NoPosition
    <3>1. new.cost = qty * price
      BY <2>6
    <3> HIDE DEF new, old
    <3> QED
      BY <2>2, <2>3, <2>4, <2>5, <2>6, <3>1
  <2>7. CASE old # NoPosition
    <3>1. new.cost = old.cost + qty * price
      BY <2>7
    <3> HIDE DEF new, old
    <3> QED
      BY <2>3, <2>4, <2>5, <2>7, <3>1
  <2> QED
    BY <2>6, <2>7
<1>11. /\ Exposure' = Exposure + qty * price /\ Exposure' \in Int /\ Exposure \in Int
       /\ open_positions' \in [Symbols -> {NoPosition} \cup PositionRecord]
       /\ Open' = Open \cup {a}
  <2>1. new \in {NoPosition} \cup PositionRecord /\ new # NoPosition
    BY <1>10, RecordIsOpen
  <2> HIDE DEF new, a
  <2>2. /\ Exposure' = Exposure - CostOf(open_positions[a]) + CostOf(new)
        /\ Exposure' \in Int
        /\ open_positions' \in [Symbols -> {NoPosition} \cup PositionRecord]
        /\ Open' = IF new = NoPosition THEN Open \ {a} ELSE Open \cup {a}
    BY <1>1, <1>2, <1>5, <2>1, ExposureAfter
  <2>3. Exposure \in Int /\ CostOf(old) \in Nat /\ qty * price \in Int
    <3>1. old \in {NoPosition} \cup PositionRecord
      BY <1>2, <1>5 DEF DomainTypes
    <3> QED
      BY <1>3, <1>5, <3>1, ExposureOfAll, PositionFacts
  <2> QED
    BY <1>10, <2>1, <2>2, <2>3
<1>12. DomainTypes'
  <2>1. \A s \in Open' : open_positions'[s].qty = 0 => crooked'
    <3> SUFFICES ASSUME NEW s \in Open', open_positions'[s].qty = 0 PROVE crooked
      BY <1>1
    <3>1. s \in Symbols
      BY DEF Open
    <3>2. CASE s = a
      <4>1. open_positions'[s] = new
        BY <1>1, <1>2, <1>5, <3>2 DEF DomainTypes
      <4> HIDE DEF new
      <4> QED
        BY <1>10, <4>1
    <3>3. CASE s # a
      <4>1. open_positions'[s] = open_positions[s] /\ s \in Open
        BY <1>1, <1>2, <1>5, <1>11, <3>1, <3>3 DEF DomainTypes
      <4> QED
        BY <1>5, <4>1 DEF DomainTypes
    <3> QED
      BY <3>2, <3>3
  <2>2. purse' \in Int
    BY <1>1, <1>3, <1>5 DEF DomainTypes
  <2>3. unruly' \in BOOLEAN
    BY <1>1, Zenon
  <2> QED
    BY <1>1, <1>5, <1>9, <1>11, <2>1, <2>2, <2>3 DEF DomainTypes
<1>13. MoneyConserved'
  <2>1. qty * price \in Int /\ purse \in Int /\ longPnl \in Int /\ shortPnl \in Int
        /\ InitialCapital \in Int
    BY <1>3, <1>5, DomainAssumption DEF DomainTypes
  <2>2. purse' + Exposure' = purse + Exposure
    BY <1>1, <1>11, <2>1
  <2> QED
    BY <1>1, <1>5, <2>2 DEF MoneyConserved
\* a BUY with a limit costs what was promised for it, or less
<1>14. ASSUME was.side = "BUY", was.price > 0
       PROVE  /\ Ruled(was) /\ Remaining(o) + qty * price <= Remaining(was)
  <2>1. Ruled(was)
    BY <1>1, <1>4, <1>14 DEF Ruled
  <2> DEFINE rest == was.quantity - was.booked - qty
  <2>2. rest \in Nat /\ o.quantity - o.booked = rest /\ was.quantity - was.booked = rest + qty
    BY <1>1, <1>2, <1>3, <1>7
  <2>3. Remaining(was) = was.price * (was.quantity - was.booked)
    BY <2>1 DEF Remaining
  <2> HIDE DEF rest
  <2>4. was.price * (rest + qty) = was.price * rest + was.price * qty
    BY <1>2, <1>3, <2>2
  <2>5. Remaining(o) = 0 \/ Remaining(o) = was.price * rest
    BY <1>7, <2>2 DEF Remaining
  <2>6. was.price * rest \in Nat /\ was.price * qty \in Nat /\ qty * price \in Nat
        /\ was.price * qty = qty * was.price
    BY <1>2, <1>3, <2>2
  <2>7. qty * price <= qty * was.price
    <3>1. price <= was.price
      BY <1>1, <1>14 DEF WithinLimit
    <3> QED
      BY <1>2, <1>3, <3>1, ProductGrows
  <2>8. Remaining(was) = was.price * rest + was.price * qty
    BY <2>2, <2>3, <2>4
  <2> QED
    BY <2>1, <2>5, <2>6, <2>7, <2>8
<1>15. \A j \in Slots : Remaining(order'[j]) <= MaxValue
  <2>1. \A j \in Slots : Remaining(order[j]) <= MaxValue
    BY <1>5 DEF Headroom
  <2>2. MaxValue \in Nat /\ qty * price \in Nat
    BY <1>3, DomainAssumption
  <2>3. Remaining(o) <= MaxValue
    <3>1. CASE was.side = "BUY" /\ was.price > 0
      <4>1. Remaining(o) + qty * price <= Remaining(was) /\ Remaining(was) <= MaxValue
        BY <1>6, <1>14, <2>1, <3>1
      <4> QED
        BY <1>9, <2>2, <4>1
    <3>2. CASE ~(was.side = "BUY" /\ was.price > 0)
      <4>1. Remaining(o) = 0
        BY <1>7, <3>2 DEF Remaining, Ruled
      <4> QED
        BY <2>2, <4>1
    <3> QED
      BY <3>1, <3>2
  <2> QED
    BY <1>9, <2>1, <2>3
<1>16. ASSUME ~unruly'
       PROVE  /\ Exposure' + Promised' <= ExposureCap + Others * MaxValue
              /\ Cardinality(Wanted') <= MaxOpen + Others
  <2>1. ~unruly /\ was.side = "BUY" /\ was.price > 0
    <3>1. ~unruly /\ was.price # 0 /\ was.side # "SELL"
      BY <1>1, <1>16, Zenon
    <3> QED
      BY <1>2, <3>1
  <2>2. /\ Exposure + Promised <= ExposureCap + Others * MaxValue
        /\ Cardinality(Wanted) <= MaxOpen + Others
    BY <1>5, <2>1 DEF Headroom
  <2>3. /\ ExposureCap \in Nat /\ MaxOpen \in Nat /\ Others \in Nat
        /\ Others * MaxValue \in Nat /\ qty * price \in Nat
    BY <1>3, <1>5, PromisedFacts, DomainAssumption
  <2>4. Ruled(was) /\ Remaining(o) + qty * price <= Remaining(was)
    BY <1>14, <2>1
  <2>5. Exposure' + Promised' <= ExposureCap + Others * MaxValue
    <3> DEFINE value == qty * price
               most == Others * MaxValue
    <3>1. /\ value \in Nat /\ most \in Nat /\ Exposure' = Exposure + value
          /\ Remaining(o) + value <= Remaining(was) /\ Exposure + Promised <= ExposureCap + most
      BY <1>11, <2>2, <2>3, <2>4
    <3> HIDE DEF value, most
    <3>2. Exposure' + Promised' <= ExposureCap + most
      BY <1>9, <1>11, <2>3, <3>1
    <3> QED
      BY <3>2 DEF most
  <2>6. Wanted' \subseteq Wanted
    <3>1. a \in Wanted
      BY <1>6, <2>4 DEF Wanted
    <3>2. Wanted' = Open' \cup {order'[j].symbol : j \in {k \in Slots : Ruled(order'[k])}}
      BY DEF Wanted, Ruled
    <3>3. ASSUME NEW j \in Slots, Ruled(order'[j]) PROVE order'[j].symbol \in Wanted
      <4>1. CASE j = i
        BY <1>7, <1>9, <3>1, <4>1
      <4>2. CASE j # i
        BY <1>9, <3>3, <4>2 DEF Wanted
      <4> QED
        BY <4>1, <4>2
    <3>4. Open \subseteq Wanted
      BY DEF Wanted
    <3> HIDE DEF a
    <3> QED
      BY <1>11, <3>1, <3>2, <3>3, <3>4
  <2>7. Cardinality(Wanted') <= MaxOpen + Others
    <3>1. IsFiniteSet(Wanted) /\ Cardinality(Wanted) \in Nat
      BY <1>5, WantedFacts
    <3>2. Cardinality(Wanted') <= Cardinality(Wanted) /\ Cardinality(Wanted') \in Nat
      BY <2>6, <3>1, FS_Subset, FS_CardinalityType
    <3> QED
      BY <2>2, <2>3, <3>1, <3>2
  <2> QED
    BY <2>5, <2>7
<1>17. Headroom'
  <2>1. /\ \A j \in Slots : Remaining(order'[j]) <= MaxValue
        /\ ~unruly' => /\ Exposure' + Promised' <= ExposureCap + Others * MaxValue
                       /\ Cardinality(Wanted') <= MaxOpen + Others
    BY <1>15, <1>16
  <2> QED
    BY <2>1 DEF Headroom, Remaining, Ruled, Others
<1> QED
  BY <1>9, <1>12, <1>13, <1>17 DEF DomainInv

\* ... and one that it does not allow has been counted by then.
LEMMA RaisingStep ==
  ASSUME DomainInv, NEW i \in Slots, NEW qty \in Sizes, NEW price \in FillPrices,
         Fill(i, qty, price), ~Allowed(order[i], Filled(order[i], qty))
  PROVE  DomainInv'
<1> DEFINE was == order[i]
           o == [was EXCEPT !.filled = @ + qty, !.raised = TRUE]
<1>1. /\ was # NoOrder
      /\ order' = [order EXCEPT ![i] = o]
      /\ UNCHANGED <<account, unruly, crooked>> /\ orders' = orders
  BY DEF Fill, account
<1>2. was \in OrderRecord /\ FillsOf(was) /\ qty \in Nat
  BY <1>1, SlotFacts, DomainAssumption DEF DomainInv
<1>3. i \in Slots /\ order[i] = was
  OBVIOUS
<1> HIDE DEF was
<1> DEFINE n == was.filled + qty
<1>4. n \in Nat /\ n >= was.filled /\ was.booked \in Nat /\ was.filled \in Nat
  BY <1>2, OrderFacts
<1>5. o = [was EXCEPT !.filled = n, !.raised = TRUE]
  OBVIOUS
<1> HIDE DEF n, o
<1>6. /\ o \in OrderRecord /\ o.status = was.status /\ o.filled = n /\ o.raised = TRUE
      /\ o.symbol = was.symbol /\ o.side = was.side /\ o.price = was.price
      /\ o.quantity = was.quantity /\ o.booked = was.booked
  BY <1>2, <1>4, <1>5 DEF OrderRecord
<1>7. FillsOf(o)
  BY <1>2, <1>4, <1>6 DEF FillsOf
<1>8. Ruled(o) => Ruled(was)
  BY <1>2, <1>6, OrderFacts DEF Ruled
<1>9. Remaining(o) <= Remaining(was)
  <2>1. Remaining(o) \in Nat /\ Remaining(was) \in Nat
    BY <1>2, <1>6, <1>7, RemainingFacts
  <2>2. Remaining(o) = 0 \/ Remaining(o) = Remaining(was)
    BY <1>6, <1>8 DEF Remaining
  <2> QED
    BY <2>1, <2>2
<1>10. orders' \in 0..MaxOrders
  BY <1>1 DEF DomainInv, DomainTypes
<1> QED
  BY <1>1, <1>3, <1>6, <1>7, <1>8, <1>9, <1>10, LessStep

\* A step of one position that costs no more afterwards, and may be closed by it,
\* keeps what the rules have granted.
LEMMA ReleaseStep ==
  ASSUME DomainInv, NEW a \in Symbols, open_positions[a] # NoPosition,
         NEW p \in {NoPosition} \cup PositionRecord, CostOf(p) <= CostOf(open_positions[a]),
         open_positions' = [open_positions EXCEPT ![a] = p],
         UNCHANGED <<order, orders, unruly>>
  PROVE  /\ Headroom' /\ FillsCounted'
         /\ Exposure' = Exposure - CostOf(open_positions[a]) + CostOf(p)
         /\ Exposure' \in Int /\ Exposure \in Int
         /\ open_positions' \in [Symbols -> {NoPosition} \cup PositionRecord]
         /\ \A s \in Open' : s # a => s \in Open /\ open_positions'[s] = open_positions[s]
<1>1. DomainTypes /\ FillsCounted /\ Headroom
  BY DEF DomainInv
<1>2. /\ Exposure' = Exposure - CostOf(open_positions[a]) + CostOf(p)
      /\ Exposure' \in Int /\ Exposure \in Int
      /\ open_positions' \in [Symbols -> {NoPosition} \cup PositionRecord]
      /\ Open' = IF p = NoPosition THEN Open \ {a} ELSE Open \cup {a}
  BY <1>1, ExposureAfter, ExposureOfAll
<1>3. Open' \subseteq Open
  BY <1>2 DEF Open
<1>4. Exposure' <= Exposure
  <2>1. CostOf(open_positions[a]) \in Nat /\ CostOf(p) \in Nat
    BY <1>1, PositionFacts DEF DomainTypes
  <2> QED
    BY <1>2, <2>1
<1>5. Promised' = Promised /\ Wanted' \subseteq Wanted
  <2>1. order' = order
    OBVIOUS
  <2>2. Promised' = Promised
    BY <2>1 DEF Promised, Remainders, Remaining, Ruled
  <2>3. Wanted' \subseteq Wanted
    BY <1>3, <2>1 DEF Wanted, Ruled
  <2> QED
    BY <2>2, <2>3
<1>6. Headroom'
  <2>1. /\ ExposureCap \in Nat /\ MaxOpen \in Nat /\ Others \in Nat
        /\ Others * MaxValue \in Nat /\ Promised \in Nat
    BY <1>1, PromisedFacts, DomainAssumption
  <2>2. /\ Cardinality(Wanted') <= Cardinality(Wanted) /\ Cardinality(Wanted) \in Nat
        /\ Cardinality(Wanted') \in Nat
    <3>1. IsFiniteSet(Wanted)
      BY <1>1, WantedFacts
    <3> QED
      BY <1>5, <3>1, FS_Subset, FS_CardinalityType
  <2>3. ASSUME ~unruly
        PROVE  /\ Exposure' + Promised' <= ExposureCap + Others * MaxValue
               /\ Cardinality(Wanted') <= MaxOpen + Others
    <3>1. /\ Exposure + Promised <= ExposureCap + Others * MaxValue
          /\ Cardinality(Wanted) <= MaxOpen + Others
      BY <1>1, <2>3 DEF Headroom
    <3> DEFINE most == Others * MaxValue
    <3>2. most \in Nat /\ Exposure + Promised <= ExposureCap + most
      BY <2>1, <3>1
    <3> HIDE DEF most
    <3>3. Exposure' + Promised' <= ExposureCap + most
      BY <1>2, <1>4, <1>5, <2>1, <3>2
    <3>4. Cardinality(Wanted') <= MaxOpen + Others
      BY <2>1, <2>2, <3>1
    <3> QED
      BY <3>3, <3>4 DEF most
  <2>4. /\ \A j \in Slots : Remaining(order'[j]) <= MaxValue
        /\ ~unruly' => /\ Exposure' + Promised' <= ExposureCap + Others * MaxValue
                       /\ Cardinality(Wanted') <= MaxOpen + Others
    BY <1>1, <2>3 DEF Headroom
  <2> QED
    BY <2>4 DEF Headroom, Remaining, Ruled, Others
<1>7. FillsCounted'
  BY <1>1 DEF FillsCounted
<1>8. \A s \in Open' : s # a => s \in Open /\ open_positions'[s] = open_positions[s]
  BY <1>1, <1>3 DEF Open, DomainTypes
<1> QED
  BY <1>2, <1>6, <1>7, <1>8

LEMMA ClosePositionStep ==
  ASSUME DomainInv, NEW sym \in Symbols, NEW price \in {0} \cup FillPrices,
         ClosePosition(sym, price)
  PROVE  DomainInv'
<1> DEFINE p == open_positions[sym]
           gross == p.qty * price - p.cost
<1>1. /\ p # NoPosition
      /\ open_positions' = [open_positions EXCEPT ![sym] = NoPosition]
      /\ UNCHANGED <<order, orders, unruly>>
  BY DEF ClosePosition
<1>2. p \in PositionRecord /\ p.qty \in Nat /\ p.cost \in Nat /\ CostOf(p) = p.cost
      /\ p.side \in {"LONG", "SHORT"}
  BY <1>1, PositionFacts DEF DomainInv, DomainTypes
<1>3. price \in Nat
  <2>1. FillPrices \subseteq Nat /\ 0 \in Nat
    BY DomainAssumption
  <2> QED
    BY <2>1, Zenon
<1>4. CostOf(NoPosition) = 0
  BY DEF CostOf
<1>5. /\ Headroom' /\ FillsCounted'
      /\ Exposure' = Exposure - CostOf(p) + CostOf(NoPosition)
      /\ Exposure' \in Int /\ Exposure \in Int
      /\ open_positions' \in [Symbols -> {NoPosition} \cup PositionRecord]
      /\ \A s \in Open' : s # sym => s \in Open /\ open_positions'[s] = open_positions[s]
  <2>1. NoPosition \in {NoPosition} \cup PositionRecord /\ CostOf(NoPosition) <= CostOf(p)
    BY <1>2, <1>4
  <2> QED
    BY <1>1, <2>1, ReleaseStep
<1>6. sym \notin Open'
  BY <1>1 DEF Open, DomainInv, DomainTypes
<1>7. Exposure' = Exposure - p.cost
  <2> HIDE DEF p
  <2> QED
    BY <1>2, <1>4, <1>5
<1>8. /\ purse \in Int /\ longPnl \in Int /\ shortPnl \in Int /\ closed_trades \in Nat
      /\ InitialCapital \in Nat
      /\ purse + Exposure <= InitialCapital + longPnl - shortPnl
      /\ ~crooked => purse + Exposure = InitialCapital + longPnl - shortPnl
  BY DomainAssumption DEF DomainInv, DomainTypes, MoneyConserved
<1>9. /\ purse' \in Int /\ longPnl' \in Int /\ shortPnl' \in Int /\ closed_trades' \in Nat
      /\ crooked' \in BOOLEAN /\ (crooked => crooked')
      /\ MoneyConserved'
  <2>1. CASE price > 0 /\ p.qty > 0
    <3>1. /\ IF p.side = "LONG" THEN longPnl' = longPnl + gross /\ shortPnl' = shortPnl
                               ELSE shortPnl' = shortPnl - gross /\ longPnl' = longPnl
          /\ purse' = purse + p.qty * price
          /\ closed_trades' = closed_trades + 1
          /\ crooked' = crooked
      BY <2>1 DEF ClosePosition
    <3>2. p.qty * price \in Int
      BY <1>2, <1>3
    <3> DEFINE value == p.qty * price
    <3>3. value \in Int /\ gross = value - p.cost /\ purse' = purse + value
      BY <3>1, <3>2
    <3> HIDE DEF value, gross, p
    <3>4. gross \in Int
      BY <1>2, <3>3
    <3>5. /\ purse' \in Int /\ longPnl' \in Int /\ shortPnl' \in Int /\ closed_trades' \in Nat
          /\ longPnl' - shortPnl' = longPnl - shortPnl + gross
      BY <1>8, <3>1, <3>3, <3>4
    <3>6. purse' + Exposure' = purse + Exposure + gross
      BY <1>2, <1>5, <1>7, <1>8, <3>3
    <3>7. /\ purse' + Exposure' <= InitialCapital + longPnl' - shortPnl'
          /\ ~crooked => purse' + Exposure' = InitialCapital + longPnl' - shortPnl'
      <4>1. InitialCapital + longPnl' - shortPnl' = InitialCapital + longPnl - shortPnl + gross
        <5>1. longPnl \in Int /\ shortPnl \in Int /\ InitialCapital \in Int
          BY <1>8
        <5>2. CASE p.side = "LONG"
          BY <3>1, <3>4, <5>1, <5>2
        <5>3. CASE p.side # "LONG"
          BY <3>1, <3>4, <5>1, <5>3
        <5> QED
          BY <5>2, <5>3
      <4>2. InitialCapital + longPnl - shortPnl \in Int /\ purse + Exposure \in Int
        BY <1>5, <1>8
      <4>3. purse' + Exposure' <= InitialCapital + longPnl' - shortPnl'
        BY <1>8, <3>4, <3>6, <4>1, <4>2
      <4>4. ASSUME ~crooked PROVE purse' + Exposure' = InitialCapital + longPnl' - shortPnl'
        BY <1>8, <3>6, <4>1, <4>4
      <4> QED
        BY <4>3, <4>4
    <3>8. crooked' \in BOOLEAN /\ (crooked => crooked')
      BY <3>1 DEF DomainInv, DomainTypes
    <3> QED
      BY <3>1, <3>5, <3>7, <3>8 DEF MoneyConserved
  <2>2. CASE ~(price > 0 /\ p.qty > 0)
    <3>1. crooked' = TRUE /\ UNCHANGED <<longPnl, shortPnl, closed_trades, purse>>
      BY <2>2 DEF ClosePosition
    <3> HIDE DEF p
    <3>2. purse' + Exposure' <= InitialCapital + longPnl' - shortPnl'
      BY <1>2, <1>5, <1>7, <1>8, <3>1
    <3> QED
      BY <1>8, <3>1, <3>2 DEF MoneyConserved
  <2> QED
    BY <2>1, <2>2
<1>10. DomainTypes'
  <2>1. \A s \in Open' : open_positions'[s].qty = 0 => crooked'
    BY <1>5, <1>6, <1>9 DEF DomainInv, DomainTypes
  <2> QED
    BY <1>1, <1>5, <1>9, <2>1 DEF DomainInv, DomainTypes
<1> QED
  BY <1>5, <1>9, <1>10 DEF DomainInv

\* What is left of a cost after a share of it is taken out.
LEMMA CostLeft ==
  ASSUME NEW c \in Nat, NEW n \in Nat, NEW q \in Nat \ {0}, q <= n, c % n = 0
  PROVE  c - q * (c \div n) \in Nat /\ c - q * (c \div n) <= c
<1>1. n \in Nat \ {0}
  OBVIOUS
<1> DEFINE k == c \div n
<1>2. k \in Nat /\ c = n * k + (c % n)
  BY <1>1
<1> HIDE DEF k
<1>3. c = n * k
  BY <1>1, <1>2
<1>4. k * q <= k * n
  BY <1>1, <1>2, ProductGrows
<1>5. k * q \in Nat /\ k * q = q * k /\ k * n = n * k
  BY <1>1, <1>2
<1> QED
  BY <1>3, <1>4, <1>5 DEF k

LEMMA ClosePartialStep ==
  ASSUME DomainInv, NEW sym \in Symbols, NEW qty \in Sizes, ClosePartial(sym, qty)
  PROVE  DomainInv'
<1> DEFINE p == open_positions[sym]
           left == p.cost - qty * (p.cost \div p.qty)
           new == [side |-> p.side, qty |-> p.qty - qty, cost |-> left]
<1>1. /\ p # NoPosition /\ qty <= p.qty /\ p.cost % p.qty = 0
      /\ open_positions' = [open_positions EXCEPT ![sym] = new]
      /\ crooked' = TRUE
      /\ UNCHANGED <<order, purse, closed_trades, longPnl, shortPnl, orders, unruly>>
  BY DEF ClosePartial, WholeAverage
<1>2. p \in PositionRecord /\ p.qty \in Nat /\ p.cost \in Nat /\ CostOf(p) = p.cost
      /\ p.side \in {"LONG", "SHORT"}
  BY <1>1, PositionFacts DEF DomainInv, DomainTypes
<1>3. qty \in Nat \ {0}
  BY DomainAssumption
<1>4. left \in Nat /\ left <= p.cost
  BY <1>1, <1>2, <1>3, CostLeft
<1> HIDE DEF left
<1>5. new \in PositionRecord
  BY <1>1, <1>2, <1>3, <1>4 DEF PositionRecord
<1>6. CostOf(new) = left
  BY <1>5, RecordIsOpen
<1>7. /\ Headroom' /\ FillsCounted'
      /\ Exposure' = Exposure - CostOf(p) + CostOf(new)
      /\ Exposure' \in Int /\ Exposure \in Int
      /\ open_positions' \in [Symbols -> {NoPosition} \cup PositionRecord]
  <2> HIDE DEF new
  <2> QED
    BY <1>1, <1>2, <1>4, <1>5, <1>6, ReleaseStep
<1>8. MoneyConserved'
  <2>1. purse \in Int /\ longPnl \in Int /\ shortPnl \in Int /\ InitialCapital \in Int
        /\ purse + Exposure <= InitialCapital + longPnl - shortPnl
    BY DomainAssumption DEF DomainInv, DomainTypes, MoneyConserved
  <2> HIDE DEF new, p
  <2>2. purse + Exposure' <= InitialCapital + longPnl - shortPnl
    BY <1>2, <1>4, <1>6, <1>7, <2>1
  <2> QED
    BY <1>1, <2>2 DEF MoneyConserved
<1>9. DomainTypes'
  BY <1>1, <1>7 DEF DomainInv, DomainTypes
<1> QED
  BY <1>7, <1>8, <1>9 DEF DomainInv

LEMMA NextDomain == DomainInv /\ [DomainNext]_domainVars => DomainInv'
<1> SUFFICES ASSUME DomainInv, [DomainNext]_domainVars PROVE DomainInv'
  OBVIOUS
<1>1. CASE UNCHANGED domainVars
  <2>1. /\ order' = order /\ open_positions' = open_positions /\ purse' = purse
        /\ closed_trades' = closed_trades /\ longPnl' = longPnl /\ shortPnl' = shortPnl
        /\ orders' = orders /\ unruly' = unruly /\ crooked' = crooked
        /\ UNCHANGED <<account, crooked>>
    BY <1>1 DEF domainVars, account
  <2>2. Open' = Open /\ Exposure' = Exposure
    BY <2>1, ExposureStays
  <2>3. DomainTypes'
    BY <2>1, <2>2 DEF DomainInv, DomainTypes
  <2>4. FillsCounted'
    BY <2>1 DEF DomainInv, FillsCounted
  <2>5. Headroom'
    <3>1. Promised' = Promised /\ Wanted' = Wanted
      BY <2>1, <2>2 DEF Promised, Remainders, Remaining, Ruled, Wanted
    <3> QED
      BY <2>1, <2>2, <3>1 DEF DomainInv, Headroom, Remaining, Ruled, Others
  <2> QED
    BY <2>1, <2>3, <2>4, <2>5, MoneyStays DEF DomainInv
<1>2. ASSUME NEW i \in Slots, NEW sym \in Symbols, NEW way \in {"BUY", "SELL"},
             NEW size \in Sizes, NEW cap \in GateCaps, NEW price \in {0} \cup FillPrices,
             Create(i, sym, way, size, cap, price)
      PROVE  DomainInv'
  BY <1>2, CreateStep
<1>3. ASSUME NEW sym \in Symbols, NEW price \in {0} \cup FillPrices, ClosePosition(sym, price)
      PROVE  DomainInv'
  BY <1>3, ClosePositionStep
<1>4. ASSUME NEW sym \in Symbols, NEW qty \in Sizes, ClosePartial(sym, qty) PROVE DomainInv'
  BY <1>4, ClosePartialStep
<1>5. ASSUME NEW i \in Slots, Submit(i) PROVE DomainInv'
  BY <1>5, SubmitStep
<1>6. ASSUME NEW i \in Slots, NEW new \in {"CANCELLED", "EXPIRED"}, Cancel(i, new)
      PROVE  DomainInv'
  BY <1>6, CancelStep
<1>7. ASSUME NEW i \in Slots, NEW qty \in Sizes, NEW price \in FillPrices, Fill(i, qty, price)
      PROVE  DomainInv'
  BY <1>7, FillStep, RaisingStep
<1> QED
  BY <1>1, <1>2, <1>3, <1>4, <1>5, <1>6, <1>7 DEF DomainNext

\* What the rules have granted, within the bounds that the runs check.
LEMMA HeadroomBounds == DomainInv => RulesBound
<1> SUFFICES ASSUME DomainInv, ~unruly
             PROVE  /\ Exposure <= ExposureCap + (Cardinality(Slots) - 1) * MaxValue
                    /\ Cardinality(Open) <= MaxOpen + Cardinality(Slots) - 1
  BY DEF RulesBound
<1>1. /\ Exposure + Promised <= ExposureCap + Others * MaxValue
      /\ Cardinality(Wanted) <= MaxOpen + Others
  BY DEF DomainInv, Headroom
<1>2. DomainTypes /\ FillsCounted
  BY DEF DomainInv
<1>3. /\ Exposure \in Int /\ Promised \in Nat /\ Others \in Nat /\ Cardinality(Slots) \in Nat
      /\ ExposureCap \in Nat /\ MaxOpen \in Nat /\ MaxValue \in Nat
      /\ Others = Cardinality(Slots) - 1
  BY <1>2, ExposureOfAll, PromisedFacts, DomainAssumption DEF Others
<1>4. Others * MaxValue \in Nat
  BY <1>3
<1>5. Exposure <= ExposureCap + Others * MaxValue
  BY <1>1, <1>3, <1>4
<1>6. Cardinality(Open) <= MaxOpen + Others
  BY <1>1, <1>2, <1>3, WantedFacts
<1> QED
  BY <1>3, <1>5, <1>6

\* What the invariant of the domain objects says of the types.
LEMMA DomainTypeOKHolds == DomainInv => DomainTypeOK
<1> SUFFICES ASSUME DomainInv PROVE DomainTypeOK
  OBVIOUS
<1>1. ASSUME NEW s \in Symbols
      PROVE  open_positions[s] = NoPosition
             \/ open_positions[s] \in [side : {"LONG", "SHORT"}, qty : Nat, cost : Nat]
  BY DEF DomainInv, DomainTypes, PositionRecord
<1>2. \A i \in Slots : order[i] = NoOrder \/ order[i] \in OrderRecord
  BY DEF DomainInv, DomainTypes
<1> QED
  BY <1>1, <1>2 DEF DomainInv, DomainTypes, DomainTypeOK

-----------------------------------------------------------------------------
(* The strategies with a position of their own.                             *)

\* One step of the average that generate_signals() computes, and the first n of
\* its values.
EwmStep(h, p, e, i) ==
  IF i = 1 THEN Unit * h[1] ELSE (2 * Unit * h[i] + (p - 1) * e[i - 1]) \div (p + 1)

EwmUpTo(h, p, n, e) == e = [i \in 1..n |-> EwmStep(h, p, e, i)]

\* The recursion of the average has a solution of any length.
LEMMA EwmExists ==
  ASSUME NEW h, NEW p, NEW n \in Nat
  PROVE  \E e : EwmUpTo(h, p, n, e)
<1> DEFINE T == {k \in Nat : \E e : EwmUpTo(h, p, k, e)}
<1>1. ASSUME NEW k \in Nat, \A m \in 0..(k - 1) : m \in T PROVE k \in T
  <2>1. CASE k = 0
    <3>1. 1..k = {}
      BY <2>1
    <3>2. \A e : [i \in 1..k |-> EwmStep(h, p, e, i)] = [i \in {} |-> 0]
      BY <3>1
    <3>3. EwmUpTo(h, p, k, [i \in {} |-> 0])
      BY <3>2 DEF EwmUpTo
    <3> QED
      BY <3>3
  <2>2. CASE k # 0
    <3>1. k - 1 \in T /\ k - 1 \in Nat
      BY <1>1, <2>2
    <3>2. PICK e : EwmUpTo(h, p, k - 1, e)
      BY <3>1
    <3> DEFINE d == [i \in 1..k |-> IF i = k THEN EwmStep(h, p, e, k) ELSE e[i]]
    <3>3. ASSUME NEW i \in 1..k PROVE d[i] = EwmStep(h, p, d, i)
      <4>1. CASE i = 1
        <5>1. \A c : EwmStep(h, p, c, 1) = Unit * h[1]
          BY DEF EwmStep
        <5>2. CASE k = 1
          BY <4>1, <5>1, <5>2
        <5>3. CASE k # 1
          <6>1. 1 \in 1..(k - 1) /\ d[1] = e[1]
            BY <5>3
          <6>2. e[1] = EwmStep(h, p, e, 1)
            BY <3>2, <6>1 DEF EwmUpTo
          <6> QED
            BY <4>1, <5>1, <6>1, <6>2
        <5> QED
          BY <5>2, <5>3
      <4>2. CASE i # 1
        <5>1. i - 1 \in 1..(k - 1) /\ i - 1 \in 1..k /\ i - 1 # k
          BY <4>2
        <5>2. d[i - 1] = e[i - 1]
          BY <5>1
        <5>3. EwmStep(h, p, d, i) = EwmStep(h, p, e, i)
          <6> HIDE DEF d
          <6> QED
            BY <4>2, <5>2 DEF EwmStep
        <5>4. d[i] = EwmStep(h, p, e, i)
          <6>1. CASE i = k
            BY <6>1
          <6>2. CASE i # k
            <7>1. i \in 1..(k - 1) /\ d[i] = e[i]
              BY <6>2
            <7> QED
              BY <3>2, <7>1 DEF EwmUpTo
          <6> QED
            BY <6>1, <6>2
        <5> QED
          BY <5>3, <5>4
      <4> QED
        BY <4>1, <4>2
    <3>4. d = [i \in 1..k |-> d[i]]
      OBVIOUS
    <3>5. EwmUpTo(h, p, k, d)
      <4> HIDE DEF d
      <4> QED
        BY <3>3, <3>4 DEF EwmUpTo
    <3> QED
      BY <3>5
  <2> QED
    BY <2>1, <2>2
<1>2. Nat \subseteq T
  <2> HIDE DEF T
  <2> QED
    BY <1>1, NumberInduction
<1> QED
  BY <1>2

\* The average so far does not depend on what comes later.
LEMMA EwmAgrees ==
  ASSUME NEW h, NEW g, NEW p, NEW n \in Nat, NEW m \in Nat, n <= m, NEW e, NEW d,
         EwmUpTo(h, p, n, e), EwmUpTo(g, p, m, d),
         \A i \in 1..n : h[i] = g[i]
  PROVE  \A i \in 1..n : e[i] = d[i]
<1> DEFINE T == {i \in Nat : i \in 1..n => e[i] = d[i]}
<1>1. ASSUME NEW i \in Nat, \A j \in 0..(i - 1) : j \in T PROVE i \in T
  <2> SUFFICES ASSUME i \in 1..n PROVE e[i] = d[i]
    OBVIOUS
  <2>1. i \in 1..m
    OBVIOUS
  <2>2. e[i] = EwmStep(h, p, e, i) /\ d[i] = EwmStep(g, p, d, i) /\ h[i] = g[i]
    BY <2>1 DEF EwmUpTo
  <2>3. CASE i = 1
    BY <2>2, <2>3 DEF EwmStep
  <2>4. CASE i # 1
    <3>1. i - 1 \in 0..(i - 1) /\ i - 1 \in 1..n
      BY <2>4
    <3>2. e[i - 1] = d[i - 1]
      BY <1>1, <3>1
    <3> HIDE DEF T
    <3> QED
      BY <2>2, <2>4, <3>2 DEF EwmStep
  <2> QED
    BY <2>3, <2>4
<1>2. Nat \subseteq T
  <2> HIDE DEF T
  <2> QED
    BY <1>1, NumberInduction
<1> QED
  BY <1>2

\* The average is that solution.
LEMMA EwmUnfolds ==
  ASSUME NEW h, NEW p, Len(h) \in Nat
  PROVE  EwmUpTo(h, p, Len(h), Ewm(h, p))
<1>1. \E e : EwmUpTo(h, p, Len(h), e)
  BY EwmExists
<1>2. Ewm(h, p) = CHOOSE e : EwmUpTo(h, p, Len(h), e)
  BY DEF Ewm, EwmUpTo, EwmStep
<1> QED
  BY <1>1, <1>2

\* What one more close adds to the average.
LEMMA EwmAppended ==
  ASSUME NEW S, NEW h \in Seq(S), NEW c \in S, NEW p
  PROVE  /\ \A i \in 1..Len(h) : Ewm(Append(h, c), p)[i] = Ewm(h, p)[i]
         /\ Ewm(Append(h, c), p)[Len(h) + 1]
              = IF h = << >> THEN Unit * c
                ELSE (2 * Unit * c + (p - 1) * Ewm(h, p)[Len(h)]) \div (p + 1)
<1> DEFINE g == Append(h, c)
           n == Len(h)
<1>1. n \in Nat /\ Len(g) = n + 1 /\ g[n + 1] = c /\ \A i \in 1..n : g[i] = h[i]
  OBVIOUS
<1>2. EwmUpTo(h, p, n, Ewm(h, p)) /\ EwmUpTo(g, p, n + 1, Ewm(g, p))
  <2>1. EwmUpTo(h, p, Len(h), Ewm(h, p))
    BY <1>1, EwmUnfolds
  <2>2. EwmUpTo(g, p, Len(g), Ewm(g, p))
    <3>1. Len(g) \in Nat
      BY <1>1
    <3> HIDE DEF g
    <3> QED
      BY <3>1, EwmUnfolds
  <2>3. Len(g) = n + 1
    BY <1>1
  <2> HIDE DEF g
  <2> QED
    BY <2>1, <2>2, <2>3
<1> HIDE DEF g
<1>3. \A i \in 1..n : Ewm(h, p)[i] = Ewm(g, p)[i]
  <2>1. n + 1 \in Nat /\ n <= n + 1 /\ n \in Nat /\ \A i \in 1..n : h[i] = g[i]
    BY <1>1
  <2> HIDE DEF n
  <2> QED
    BY <1>2, <2>1, EwmAgrees
<1>4. Ewm(g, p)[n + 1] = EwmStep(g, p, Ewm(g, p), n + 1)
  BY <1>1, <1>2 DEF EwmUpTo
<1>5. CASE h = << >>
  <2>1. n = 0
    BY <1>5
  <2> QED
    BY <1>1, <1>3, <1>4, <1>5, <2>1 DEF EwmStep, g
<1>6. CASE h # << >>
  <2>1. n + 1 # 1 /\ (n + 1) - 1 = n /\ n \in 1..n
    BY <1>1, <1>6
  <2> HIDE DEF n
  <2>2. Ewm(g, p)[n + 1] = (2 * Unit * c + (p - 1) * Ewm(h, p)[n]) \div (p + 1)
    BY <1>1, <1>3, <1>4, <2>1 DEF EwmStep
  <2> QED
    BY <1>3, <1>6, <2>2 DEF g, n
<1> QED
  BY <1>5, <1>6

StrategyKnown == strategy \in {""} \cup Strategies
Unbuilt == strategy = "" => closes = << >>

BarInv ==
  /\ StrategyKnown /\ Unbuilt
  /\ closes \in Seq(Closes \cup {NaN}) /\ Len(closes) <= MaxBars
  /\ ema \in [Spans -> Nat \cup {NaN}] /\ prevEma \in [Spans -> Nat \cup {NaN}]
  /\ side \in -1..1 /\ signal \in [side : -1..1, qty : 0..Stake]
  /\ funds \in Nat /\ owned \in Nat
  /\ signal # NoSignal =>
       /\ signal.side = side /\ signal.qty > 0 /\ side # 0
       /\ closes # << >> /\ LastOf(closes) # NaN
  /\ Clean /\ closes # << >> => \A p \in Spans : ema[p] = Ewm(closes, p)[Len(closes)]
  /\ Clean /\ Len(closes) > 1 => \A p \in Spans : prevEma[p] = Ewm(closes, p)[Len(closes) - 1]
  /\ IF Clean THEN \A p \in Spans : ema[p] \in Nat ELSE \A p \in Spans : ema[p] = NaN
  /\ SignalsAgree

\* What is assumed of the constants of the paper runner.
LEMMA BarConstants ==
  /\ Fast \in Nat \ {0} /\ Medium \in Nat /\ Slow \in Nat /\ Fast < Medium /\ Medium < Slow
  /\ \A p \in Spans : p \in Nat \ {0}
  /\ Fast \in Spans /\ Medium \in Spans /\ Slow \in Spans
  /\ Unit \in Nat \ {0} /\ MaxBars \in Nat /\ Capital \in Nat /\ Stake \in Nat
  /\ CrossHistory \in Nat /\ TripleHistory \in Nat
  /\ Slippage \in Nat /\ NaN \notin Int
  /\ \A c \in Closes : c \in Nat \ {0} /\ Slippage < c /\ c # NaN
  BY BarTraderAssumption DEF Spans

LEMMA InitBar == BarInit => BarInv
<1> SUFFICES ASSUME BarInit PROVE BarInv
  OBVIOUS
<1>0. /\ closes = << >> /\ ema = NoAverage /\ prevEma = NoAverage
      /\ side = 0 /\ signal = NoSignal /\ funds = 0 /\ owned = 0
      /\ StrategyKnown /\ Unbuilt
  BY Zenon DEF BarInit, StrategyKnown, Unbuilt
<1>1. Len(closes) = 0 /\ closes \in Seq(Closes \cup {NaN})
  BY <1>0
<1>2. ema \in [Spans -> Nat \cup {NaN}] /\ prevEma \in [Spans -> Nat \cup {NaN}]
      /\ \A p \in Spans : ema[p] \in Nat
  BY <1>0 DEF NoAverage
<1>3. signal \in [side : -1..1, qty : 0..Stake]
  BY <1>0, BarConstants DEF NoSignal
<1>4. Clean
  BY <1>1 DEF Clean
<1>5. SignalsAgree
  BY <1>0, Zenon DEF SignalsAgree
<1> QED
  BY <1>0, <1>1, <1>2, <1>3, <1>4, <1>5, BarConstants DEF BarInv

LEMMA ConstructStep == ASSUME BarInv, NEW s \in Strategies, Construct(s) PROVE BarInv'
<1>1. /\ funds' = Capital /\ closes = << >>
      /\ UNCHANGED <<closes, ema, prevEma, side, signal, owned>>
      /\ StrategyKnown'
  BY Zenon DEF Construct, BarInv, Unbuilt, StrategyKnown
<1>2. closes' = << >>
  BY <1>1
<1>3. Clean' = Clean
  BY <1>1 DEF Clean
<1>4. SignalsAgree' /\ Unbuilt'
  BY <1>2, Zenon DEF SignalsAgree, Unbuilt
<1> QED
  BY <1>1, <1>2, <1>3, <1>4, BarConstants DEF BarInv, LastOf

\* _update_ema() keeps an average a number, or not a number for good.
LEMMA UpdateEmaType ==
  ASSUME BarInv, NEW p \in Spans, NEW c \in Closes \cup {NaN}
  PROVE  /\ UpdateEma(p, c) \in Nat \cup {NaN}
         /\ c = NaN \/ ema[p] = NaN => UpdateEma(p, c) = NaN
         /\ c # NaN /\ ema[p] # NaN => UpdateEma(p, c) \in Nat
         /\ c # NaN /\ ema[p] # NaN =>
              UpdateEma(p, c) = IF closes = << >> THEN Unit * c
                                ELSE (2 * Unit * c + (p - 1) * ema[p]) \div (p + 1)
<1>1. p \in Nat \ {0} /\ Unit \in Nat
  BY BarConstants
<1>2. ema[p] \in Nat \cup {NaN}
  BY DEF BarInv
<1>3. CASE c # NaN /\ ema[p] # NaN
  <2>1. c \in Nat /\ ema[p] \in Nat
    BY <1>2, <1>3, BarConstants
  <2> DEFINE e == ema[p]
             v == 2 * Unit * c + (p - 1) * e
  <2>2. v \in Nat /\ Unit * c \in Nat
    <3>1. p - 1 \in Nat /\ e \in Nat
      BY <1>1, <2>1
    <3>2. 2 * Unit * c \in Nat /\ (p - 1) * e \in Nat
      <4> HIDE DEF e
      <4> QED
        BY <1>1, <2>1, <3>1
    <3> QED
      BY <1>1, <2>1, <3>2
  <2>3. v \div (p + 1) \in Nat
    <3> HIDE DEF v
    <3> QED
      BY <1>1, <2>2, PartFacts
  <2>4. UpdateEma(p, c) = IF closes = << >> THEN Unit * c ELSE v \div (p + 1)
    BY <1>3 DEF UpdateEma
  <2> HIDE DEF v
  <2> QED
    BY <1>3, <2>2, <2>3, <2>4 DEF v
<1>4. CASE c = NaN \/ ema[p] = NaN
  BY <1>4 DEF UpdateEma
<1> QED
  BY <1>3, <1>4

\* What on_bar() does to the averages: they are those of the frame.
LEMMA AveragesStep ==
  ASSUME BarInv, NEW c \in Closes \cup {NaN}, closes' = Append(closes, c), prevEma' = ema,
         ema' = [p \in Spans |-> UpdateEma(p, c)]
  PROVE  /\ closes' \in Seq(Closes \cup {NaN}) /\ Len(closes') = Len(closes) + 1
         /\ closes' # << >> /\ LastOf(closes') = c
         /\ ema' \in [Spans -> Nat \cup {NaN}] /\ prevEma' \in [Spans -> Nat \cup {NaN}]
         /\ Clean' = (Clean /\ c # NaN)
         /\ Clean' => \A p \in Spans : ema'[p] = Ewm(closes', p)[Len(closes')]
         /\ Clean' /\ Len(closes') > 1 =>
              \A p \in Spans : prevEma'[p] = Ewm(closes', p)[Len(closes') - 1]
         /\ IF Clean' THEN \A p \in Spans : ema'[p] \in Nat ELSE \A p \in Spans : ema'[p] = NaN
<1> DEFINE n == Len(closes)
<1>1. closes \in Seq(Closes \cup {NaN}) /\ n \in Nat
  BY DEF BarInv
<1>2. /\ closes' \in Seq(Closes \cup {NaN}) /\ Len(closes') = n + 1
      /\ closes'[n + 1] = c /\ \A i \in 1..n : closes'[i] = closes[i]
      /\ closes' # << >>
  BY <1>1
<1>3. LastOf(closes') = c
  BY <1>2 DEF LastOf
<1>4. Clean' = (Clean /\ c # NaN)
  <2>1. ASSUME Clean, c # NaN PROVE Clean'
    <3> SUFFICES ASSUME NEW i \in 1..Len(closes') PROVE closes'[i] # NaN
      BY DEF Clean
    <3>1. CASE i = n + 1
      BY <1>2, <2>1, <3>1
    <3>2. CASE i # n + 1
      <4>1. i \in 1..n
        BY <1>1, <1>2, <3>2
      <4> QED
        BY <1>2, <2>1, <4>1 DEF Clean
    <3> QED
      BY <3>1, <3>2
  <2>2. ASSUME Clean' PROVE Clean /\ c # NaN
    <3>1. n + 1 \in 1..Len(closes') /\ \A i \in 1..n : i \in 1..Len(closes')
      BY <1>1, <1>2
    <3>2. c # NaN
      BY <1>2, <2>2, <3>1 DEF Clean
    <3>3. \A i \in 1..n : closes[i] # NaN
      BY <1>2, <2>2, <3>1 DEF Clean
    <3> QED
      BY <3>2, <3>3 DEF Clean
  <2>3. Clean \in BOOLEAN /\ Clean' \in BOOLEAN
    BY DEF Clean
  <2> QED
    BY <2>1, <2>2, <2>3
<1>5. \A p \in Spans : ema'[p] = UpdateEma(p, c)
  OBVIOUS
<1>6. ema' \in [Spans -> Nat \cup {NaN}] /\ prevEma' \in [Spans -> Nat \cup {NaN}]
  <2>1. \A p \in Spans : UpdateEma(p, c) \in Nat \cup {NaN}
    BY UpdateEmaType
  <2> QED
    BY <2>1 DEF BarInv
<1>7. ASSUME Clean' PROVE \A p \in Spans : ema'[p] = Ewm(closes', p)[n + 1]
  <2> SUFFICES ASSUME NEW p \in Spans PROVE ema'[p] = Ewm(closes', p)[n + 1]
    OBVIOUS
  <2>1. Clean /\ c # NaN
    BY <1>4, <1>7
  <2>2. Ewm(closes', p)[n + 1] = IF closes = << >> THEN Unit * c
                                 ELSE (2 * Unit * c + (p - 1) * Ewm(closes, p)[n]) \div (p + 1)
    BY <1>1, EwmAppended
  <2>3. CASE closes = << >>
    <3>1. UpdateEma(p, c) = Unit * c
      <4>1. ema[p] \in Nat
        BY <2>1 DEF BarInv
      <4>2. ema[p] # NaN
        BY <4>1, BarConstants
      <4> QED
        BY <2>1, <2>3, <4>2, UpdateEmaType
    <3> QED
      BY <1>5, <2>2, <2>3, <3>1
  <2>4. CASE closes # << >>
    <3>1. ema[p] = Ewm(closes, p)[n]
      BY <2>1, <2>4 DEF BarInv
    <3>2. ema[p] # NaN
      <4>1. ema[p] \in Nat
        BY <2>1 DEF BarInv
      <4> QED
        BY <4>1, BarConstants
    <3> QED
      BY <1>5, <2>1, <2>2, <2>4, <3>1, <3>2, UpdateEmaType
  <2> QED
    BY <2>3, <2>4
<1>8. ASSUME Clean', Len(closes') > 1
      PROVE  \A p \in Spans : prevEma'[p] = Ewm(closes', p)[Len(closes') - 1]
  <2> SUFFICES ASSUME NEW p \in Spans PROVE prevEma'[p] = Ewm(closes', p)[Len(closes') - 1]
    OBVIOUS
  <2>1. n \in 1..n /\ Len(closes') - 1 = n /\ closes # << >>
    BY <1>1, <1>2, <1>8
  <2>2. Ewm(closes', p)[n] = Ewm(closes, p)[n]
    BY <1>1, <2>1, EwmAppended
  <2>3. ema[p] = Ewm(closes, p)[n]
    BY <1>4, <1>8, <2>1 DEF BarInv
  <2> QED
    BY <2>1, <2>2, <2>3
<1>9. ASSUME ~Clean' PROVE \A p \in Spans : ema'[p] = NaN
  <2> SUFFICES ASSUME NEW p \in Spans PROVE ema'[p] = NaN
    OBVIOUS
  <2>1. c = NaN \/ ema[p] = NaN
    BY <1>4, <1>9 DEF BarInv
  <2> QED
    BY <1>5, <2>1, UpdateEmaType
<1>10. ASSUME Clean' PROVE \A p \in Spans : ema'[p] \in Nat
  <2> SUFFICES ASSUME NEW p \in Spans PROVE ema'[p] \in Nat
    OBVIOUS
  <2>1. Clean /\ c # NaN
    BY <1>4, <1>10
  <2>2. ema[p] \in Nat
    BY <2>1 DEF BarInv
  <2>3. ema[p] # NaN
    BY <2>2, BarConstants
  <2> QED
    BY <1>5, <2>1, <2>3, UpdateEmaType
<1> QED
  BY <1>2, <1>3, <1>4, <1>6, <1>7, <1>8, <1>9, <1>10

\* The order of two averages that are numbers.
LEMMA Compared ==
  ASSUME NEW e \in [Spans -> Nat], NEW p \in Spans, NEW q \in Spans
  PROVE  (Above(e, p, q) <=> e[p] > e[q]) /\ (AtMost(e, p, q) <=> e[p] <= e[q])
<1>1. e[p] \in Nat /\ e[q] \in Nat
  OBVIOUS
<1>2. e[p] # NaN /\ e[q] # NaN
  BY <1>1, BarConstants
<1> QED
  BY <1>2 DEF Above, AtMost

\* After the warm-up triple_ema crosses live where generate_signals() crosses.
LEMMA CrossingsAgree ==
  ASSUME strategy = "triple_ema", ema' \in [Spans -> Nat], prevEma' \in [Spans -> Nat],
         NEW h, NEW n \in Nat, n > Slow,
         \A p \in Spans : ema'[p] = Ewm(h, p)[n] /\ prevEma'[p] = Ewm(h, p)[n - 1]
  PROVE  /\ GenerateSignal(h, n) = 1 <=> CrossedAbove
         /\ GenerateSignal(h, n) = -1 <=> CrossedBelow
         /\ GenerateSignal(h, n) \in {-1, 0, 1}
<1> DEFINE f == ema'[Fast]
           m == ema'[Medium]
           s == ema'[Slow]
           f1 == prevEma'[Fast]
           m1 == prevEma'[Medium]
<1>1. Fast \in Spans /\ Medium \in Spans /\ Slow \in Spans
  BY BarConstants
<1>2. f \in Nat /\ m \in Nat /\ s \in Nat /\ f1 \in Nat /\ m1 \in Nat
  BY <1>1
<1>3. CrossedAbove <=> f1 <= m1 /\ f > m /\ m > s
  BY <1>1, Compared DEF CrossedAbove, Aligned
<1>4. CrossedBelow <=> m1 <= f1 /\ m > f /\ s > m
  BY <1>1, Compared DEF CrossedBelow, Aligned
<1>5. GenerateSignal(h, n) = IF f > m /\ m > s /\ f1 <= m1 THEN 1
                             ELSE IF f < m /\ m < s /\ f1 >= m1 THEN -1 ELSE 0
  <2>1. ~(n <= Slow)
    BY BarConstants
  <2>2. /\ Ewm(h, Fast)[n] = f /\ Ewm(h, Medium)[n] = m /\ Ewm(h, Slow)[n] = s
        /\ Ewm(h, Fast)[n - 1] = f1 /\ Ewm(h, Medium)[n - 1] = m1
    BY <1>1
  <2> HIDE DEF f, m, s, f1, m1
  <2> QED
    BY <2>1, <2>2 DEF GenerateSignal
<1> HIDE DEF f, m, s, f1, m1
<1> QED
  BY <1>2, <1>3, <1>4, <1>5

\* A quantity is no more than the stake.
LEMMA CalcQtyType == ASSUME NEW c \in Closes PROVE CalcQty(c) \in 0..Stake
<1>1. c \in Nat \ {0} /\ Stake \in Nat
  BY BarConstants
<1>2. Stake \div c \in Nat /\ Stake \div c <= Stake
  BY <1>1, PartFacts
<1> QED
  BY <1>1, <1>2 DEF CalcQty

LEMMA OnBarStep == ASSUME BarInv, NEW c \in Closes \cup {NaN}, OnBar(c) PROVE BarInv'
<1> DEFINE s == Side(c)
           n == Len(closes')
<1>1. /\ signal = NoSignal /\ Len(closes) < MaxBars /\ StrategyKnown' /\ Unbuilt'
      /\ closes' = Append(closes, c) /\ prevEma' = ema
      /\ ema' = [p \in Spans |-> UpdateEma(p, c)]
      /\ UNCHANGED <<strategy, funds, owned>>
      /\ \/ /\ s # 0 /\ CalcQty(c) > 0
            /\ signal' = [side |-> s, qty |-> CalcQty(c)] /\ side' = s
         \/ ~(s # 0 /\ CalcQty(c) > 0) /\ signal' = signal /\ side' = side
  BY Zenon DEF OnBar, BarInv, StrategyKnown, Unbuilt
<1>2. /\ closes' \in Seq(Closes \cup {NaN}) /\ n = Len(closes) + 1
      /\ closes' # << >> /\ LastOf(closes') = c
      /\ ema' \in [Spans -> Nat \cup {NaN}] /\ prevEma' \in [Spans -> Nat \cup {NaN}]
      /\ Clean' = (Clean /\ c # NaN)
      /\ Clean' => \A p \in Spans : ema'[p] = Ewm(closes', p)[n]
      /\ Clean' /\ n > 1 => \A p \in Spans : prevEma'[p] = Ewm(closes', p)[n - 1]
      /\ IF Clean' THEN \A p \in Spans : ema'[p] \in Nat ELSE \A p \in Spans : ema'[p] = NaN
  BY <1>1, AveragesStep
<1>3. n \in Nat /\ n <= MaxBars
  BY <1>1, <1>2, BarConstants DEF BarInv
<1>4. s \in -1..1 /\ (s # 0 => c # NaN /\ c \in Closes)
  BY DEF Side
<1>5. c \in Closes => CalcQty(c) \in 0..Stake
  BY CalcQtyType
<1>6. /\ side' \in -1..1 /\ signal' \in [side : -1..1, qty : 0..Stake]
      /\ signal' # NoSignal => signal'.side = side' /\ signal'.qty > 0 /\ side' # 0 /\ c # NaN
  <2> HIDE DEF s
  <2>1. CASE s # 0 /\ CalcQty(c) > 0
    <3>1. signal' = [side |-> s, qty |-> CalcQty(c)] /\ side' = s
      BY <1>1, <2>1
    <3> QED
      BY <1>4, <1>5, <2>1, <3>1
  <2>2. CASE ~(s # 0 /\ CalcQty(c) > 0)
    <3>1. signal' = NoSignal /\ side' = side
      BY <1>1, <2>2
    <3> QED
      BY <3>1, BarConstants DEF BarInv, NoSignal
  <2> QED
    BY <2>1, <2>2
<1>7. SignalsAgree'
  <2> SUFFICES ASSUME strategy' = "triple_ema"
               PROVE  LET tested == GenerateSignal(closes', n)
                      IN /\ signal'.side # 0 => /\ Clean' /\ Slow <= TripleHistory
                                                /\ signal'.side = tested \/ n = Slow
                         /\ Clean' /\ Slow <= TripleHistory =>
                              (tested # 0 => side' = tested \/ CalcQty(c) = 0)
    BY <1>2, Zenon DEF SignalsAgree
  <2>0. /\ WarmUp = Slow /\ n \in Nat /\ TripleHistory \in Nat /\ Slow \in Nat
        /\ Retained = IF n < TripleHistory THEN n ELSE TripleHistory
    BY <1>1, <1>3, BarConstants DEF WarmUp, Retained, History
  <2>5. s # 0 => Slow <= n /\ Slow <= TripleHistory
    <3>1. s # 0 => ~(Retained < Slow)
      BY <2>0 DEF Side
    <3> HIDE DEF s, n
    <3> QED
      BY <2>0, <3>1
  <2>1. signal'.side # 0 => s # 0 /\ CalcQty(c) > 0 /\ signal'.side = s
    <3>1. NoSignal.side = 0
      BY DEF NoSignal
    <3> HIDE DEF s
    <3> QED
      BY <1>1, <3>1
  <2>2. CASE ~Clean'
    <3>1. \A p, q \in Spans : ~Above(ema', p, q)
      BY <1>2, <2>2 DEF Above
    <3>2. ~CrossedAbove /\ ~CrossedBelow
      BY <3>1, BarConstants DEF CrossedAbove, CrossedBelow
    <3>3. s = 0
      BY <3>2 DEF Side
    <3> HIDE DEF s
    <3> QED
      BY <2>1, <2>2, <3>3
  <2>3. CASE Clean' /\ n <= Slow
    <3>1. GenerateSignal(closes', n) = 0
      BY <2>3 DEF GenerateSignal
    <3>2. s # 0 => n = Slow
      <4> HIDE DEF s, n
      <4> QED
        BY <2>0, <2>3, <2>5
    <3> HIDE DEF s, n
    <3> QED
      BY <2>1, <2>3, <2>5, <3>1, <3>2
  <2>6. CASE ~(Slow <= TripleHistory)
    BY <2>1, <2>5, <2>6
  <2>4. CASE Clean' /\ n > Slow /\ Slow <= TripleHistory
    <3>1. n > 1 /\ strategy = "triple_ema"
      BY <1>1, <1>3, <2>4, BarConstants
    <3>2. ema' \in [Spans -> Nat]
      BY <1>2, <2>4
    <3>3. prevEma' \in [Spans -> Nat]
      BY <1>1, <1>2, <2>4 DEF BarInv
    <3>4. \A p \in Spans : ema'[p] = Ewm(closes', p)[n] /\ prevEma'[p] = Ewm(closes', p)[n - 1]
      BY <1>2, <2>4, <3>1
    <3> DEFINE g == GenerateSignal(closes', n)
    <3>5. (g = 1 <=> CrossedAbove) /\ (g = -1 <=> CrossedBelow) /\ g \in {-1, 0, 1}
      <4> HIDE DEF n
      <4> QED
        BY <1>3, <2>4, <3>1, <3>2, <3>3, <3>4, CrossingsAgree
    <3>6. c # NaN /\ closes # << >> /\ ~(Retained < WarmUp)
      <4>1. c # NaN
        BY <1>2, <2>4
      <4>2. closes # << >>
        BY <1>2, <3>1
      <4>3. ~(Retained < WarmUp)
        <5> HIDE DEF n
        <5> QED
          BY <2>0, <2>4
      <4> QED
        BY <4>1, <4>2, <4>3
    <3>7. s = IF CrossedAbove /\ side <= 0 THEN 1 ELSE IF CrossedBelow /\ side >= 0 THEN -1 ELSE 0
      BY <3>6 DEF Side
    <3>8. side \in -1..1
      BY DEF BarInv
    <3>9. CalcQty(c) \in Nat
      <4>1. c \in Closes
        BY <3>6
      <4> QED
        BY <4>1, <1>5, BarConstants
    <3> HIDE DEF g, s, n
    <3>10. (s # 0 => s = g) /\ (g # 0 => s = g \/ side = g)
      BY <3>5, <3>7, <3>8
    <3>11. signal'.side # 0 => signal'.side = g
      BY <2>1, <3>10
    <3>12. g # 0 => side' = g \/ CalcQty(c) = 0
      BY <1>1, <3>9, <3>10
    <3> QED
      BY <2>4, <3>11, <3>12 DEF g
  <2> QED
    BY <2>0, <2>2, <2>3, <2>4, <2>6
<1>8. funds' \in Nat /\ owned' \in Nat
  BY <1>1 DEF BarInv
<1> HIDE DEF n, s
<1> QED
  BY <1>1, <1>2, <1>3, <1>6, <1>7, <1>8 DEF BarInv, n

LEMMA ExecuteSignalStep == ASSUME BarInv, ExecuteSignal PROVE BarInv'
<1> DEFINE c == LastOf(closes)
           price == c + signal.side * Slippage
           worth == signal.qty * price
           filled == IF signal.side = 1 THEN worth <= funds ELSE owned >= signal.qty
<1>1. /\ signal # NoSignal /\ signal' = NoSignal
      /\ \/ /\ filled
            /\ funds' = funds - signal.side * signal.qty * price
            /\ owned' = owned + signal.side * signal.qty
         \/ UNCHANGED <<funds, owned>>
      /\ UNCHANGED <<strategy, closes, ema, prevEma, side>>
  BY DEF ExecuteSignal
<1>2. /\ signal.side \in {-1, 1} /\ signal.qty \in Nat /\ funds \in Nat /\ owned \in Nat
      /\ closes # << >> /\ closes \in Seq(Closes \cup {NaN}) /\ c # NaN
  BY <1>1, BarConstants DEF BarInv
<1>3. c \in Closes
  <2>1. Len(closes) \in 1..Len(closes)
    BY <1>2
  <2>2. closes[Len(closes)] \in Closes \cup {NaN}
    BY <1>2, <2>1
  <2> QED
    BY <1>2, <2>2 DEF LastOf
<1>4. c \in Nat /\ Slippage \in Nat /\ Slippage < c
  BY <1>3, BarConstants
<1>5. price \in Nat
  <2>1. signal.side * Slippage = Slippage \/ signal.side * Slippage = -Slippage
    BY <1>2, <1>4
  <2> HIDE DEF c
  <2> QED
    BY <1>4, <2>1
<1> HIDE DEF c, price
<1>6. worth \in Nat
  BY <1>2, <1>5
<1>7. funds' \in Nat /\ owned' \in Nat
  <2>1. CASE filled /\ funds' = funds - signal.side * signal.qty * price
             /\ owned' = owned + signal.side * signal.qty
    <3>1. CASE signal.side = 1
      <4>1. signal.side * signal.qty * price = worth /\ signal.side * signal.qty = signal.qty
        BY <1>2, <1>5, <3>1
      <4>2. worth <= funds
        BY <2>1, <3>1
      <4> HIDE DEF worth
      <4> QED
        BY <1>2, <1>6, <2>1, <4>1, <4>2
    <3>2. CASE signal.side = -1
      <4>1. signal.side * signal.qty * price = -worth /\ signal.side * signal.qty = -signal.qty
        BY <1>2, <1>5, <3>2
      <4>2. owned >= signal.qty
        BY <2>1, <3>2
      <4> HIDE DEF worth
      <4> QED
        BY <1>2, <1>6, <2>1, <4>1, <4>2
    <3> QED
      BY <1>2, <3>1, <3>2
  <2> QED
    BY <1>1, <1>2, <2>1
<1>8. NoSignal \in [side : -1..1, qty : 0..Stake] /\ NoSignal.side = 0
  BY BarConstants DEF NoSignal
<1>9. Clean' = Clean /\ StrategyKnown' /\ Unbuilt'
  BY <1>1, Zenon DEF Clean, BarInv, StrategyKnown, Unbuilt
<1>10. SignalsAgree'
  BY <1>1, <1>8, <1>9 DEF BarInv, SignalsAgree, CalcQty, LastOf
<1> QED
  BY <1>1, <1>7, <1>8, <1>9, <1>10 DEF BarInv

LEMMA NextBar == BarInv /\ [BarNext]_barVars => BarInv'
<1> SUFFICES ASSUME BarInv, [BarNext]_barVars PROVE BarInv'
  OBVIOUS
<1>1. ASSUME UNCHANGED barVars PROVE BarInv'
  <2>1. UNCHANGED <<closes, ema, prevEma, side, signal, funds, owned, strategy>>
    BY <1>1 DEF barVars
  <2>2. Clean' = Clean /\ StrategyKnown' /\ Unbuilt'
    BY <2>1, Zenon DEF Clean, BarInv, StrategyKnown, Unbuilt
  <2>3. SignalsAgree'
    BY <2>1, <2>2 DEF BarInv, SignalsAgree, CalcQty, LastOf
  <2> QED
    BY <2>1, <2>2, <2>3 DEF BarInv
<1> QED
  BY <1>1, ConstructStep, OnBarStep, ExecuteSignalStep DEF BarNext

\* What the invariant of the paper runner says of the types.
LEMMA BarInvTypes == BarInv => BarTypeOK
<1> SUFFICES ASSUME BarInv PROVE BarTypeOK
  OBVIOUS
<1>1. strategy \in {""} \cup Strategies
  BY Zenon DEF BarInv, StrategyKnown
<1> DEFINE Rest == /\ Len(closes) <= MaxBars
                   /\ \A i \in 1..Len(closes) : closes[i] \in Closes \cup {NaN}
                   /\ \A p \in Spans : ema[p] = NaN \/ ema[p] \in Nat
                   /\ side \in -1..1 /\ signal \in [side : -1..1, qty : 0..Stake]
                   /\ signal # NoSignal => signal.side = side /\ signal.qty > 0
                   /\ funds \in Nat /\ owned \in Nat
<1>2. \A i \in 1..Len(closes) : closes[i] \in Closes \cup {NaN}
  BY RowOf DEF BarInv
<1>3. Rest
  BY <1>2 DEF BarInv
<1> QED
  BY <1>1, <1>3, Zenon DEF BarTypeOK

-----------------------------------------------------------------------------
(* The strategies that read a frame.                                        *)

\* Frame g goes on where h ends.
Prolongs(g, h) ==
  /\ Len(h) \in Nat /\ Len(g) \in Nat /\ Len(h) <= Len(g)
  /\ \A j \in 1..Len(h) : g[j] = h[j]

\* Whether the covered call is in the trade after each of the first n bars.
TradeStep(h, e, i) ==
  IF i = 0 THEN FALSE
  ELSE IF ~Ranked(h, i) THEN e[i - 1]
  ELSE IF e[i - 1] THEN RankAtLeast(h, i, 7)
  ELSE RankAtLeast(h, i, 10)

TradeUpTo(h, n, e) == e = [i \in 0..n |-> TradeStep(h, e, i)]

\* The recursion over a covered call's trades has a solution of any length.
LEMMA TradeExists ==
  ASSUME NEW h, NEW n \in Nat
  PROVE  \E e : TradeUpTo(h, n, e)
<1> DEFINE T == {k \in Nat : \E e : TradeUpTo(h, k, e)}
<1>1. ASSUME NEW k \in Nat, \A m \in 0..(k - 1) : m \in T PROVE k \in T
  <2>0. \A c : TradeStep(h, c, 0) = FALSE
    BY DEF TradeStep
  <2>1. CASE k = 0
    <3> DEFINE d == [i \in 0..k |-> FALSE]
    <3>1. \A i \in 0..k : i = 0
      BY <2>1
    <3>2. \A i \in 0..k : TradeStep(h, d, i) = FALSE
      BY <2>0, <3>1
    <3>3. d = [i \in 0..k |-> TradeStep(h, d, i)]
      BY <3>2
    <3> QED
      BY <3>3 DEF TradeUpTo
  <2>2. CASE k # 0
    <3>1. k - 1 \in T /\ k - 1 \in Nat
      BY <1>1, <2>2
    <3>2. PICK e : TradeUpTo(h, k - 1, e)
      BY <3>1
    <3> DEFINE d == [i \in 0..k |-> IF i = k THEN TradeStep(h, e, k) ELSE e[i]]
    <3>3. ASSUME NEW i \in 0..k PROVE d[i] = TradeStep(h, d, i)
      <4>1. d[i] = TradeStep(h, e, i)
        <5>1. CASE i = k
          BY <5>1
        <5>2. CASE i # k
          <6>1. i \in 0..(k - 1) /\ d[i] = e[i]
            BY <5>2
          <6> HIDE DEF d
          <6> QED
            BY <3>2, <6>1 DEF TradeUpTo
        <5> QED
          BY <5>1, <5>2
      <4>2. CASE i = 0
        <5> HIDE DEF d
        <5> QED
          BY <2>0, <4>1, <4>2, Zenon
      <4>3. CASE i # 0
        <5>1. i - 1 \in 0..k /\ i - 1 # k
          BY <4>3
        <5>2. d[i - 1] = e[i - 1]
          BY <5>1
        <5>3. TradeStep(h, d, i) = TradeStep(h, e, i)
          <6> HIDE DEF d
          <6> QED
            BY <5>2, Zenon DEF TradeStep
        <5> QED
          BY <4>1, <5>3
      <4> QED
        BY <4>2, <4>3
    <3>4. d = [i \in 0..k |-> d[i]]
      OBVIOUS
    <3>5. TradeUpTo(h, k, d)
      <4> HIDE DEF d
      <4> QED
        BY <3>3, <3>4 DEF TradeUpTo
    <3> QED
      BY <3>5
  <2> QED
    BY <2>1, <2>2
<1>2. Nat \subseteq T
  <2> HIDE DEF T
  <2> QED
    BY <1>1, NumberInduction
<1> QED
  BY <1>2

\* Whether it is in a trade is that solution.
LEMMA TradeUnfolds ==
  ASSUME NEW h, Len(h) \in Nat
  PROVE  TradeUpTo(h, Len(h), InTrade(h))
<1>1. \E e : TradeUpTo(h, Len(h), e)
  BY TradeExists
<1>2. InTrade(h) = CHOOSE e : TradeUpTo(h, Len(h), e)
  BY DEF InTrade, TradeUpTo, TradeStep
<1> QED
  BY <1>1, <1>2

\* What the ranking of a bar looks at.
LEMMA RanksKept ==
  ASSUME NEW h, NEW g, Prolongs(g, h), NEW i \in 1..Len(h)
  PROVE  /\ Ranked(g, i) = Ranked(h, i)
         /\ \A t : RankAtLeast(g, i, t) = RankAtLeast(h, i, t)
<1>1. \A j \in 1..i : g[j] = h[j]
  BY DEF Prolongs
<1>2. i \in 1..i
  BY DEF Prolongs
<1>3. RvRows(g, i) = RvRows(h, i)
  BY <1>1 DEF RvRows
<1>4. g[i] = h[i]
  BY <1>1, <1>2
<1>5. {g[j].rv : j \in RvRows(g, i)} = {h[j].rv : j \in RvRows(h, i)}
  <2>1. \A j \in RvRows(h, i) : g[j] = h[j]
    BY <1>1 DEF RvRows
  <2> QED
    BY <1>3, <2>1
<1>6. Ranked(g, i) = Ranked(h, i)
  BY <1>3, <1>4, Zenon DEF Ranked
<1>7. \A t : RankAtLeast(g, i, t) = RankAtLeast(h, i, t)
  <2> DEFINE rg == {g[j].rv : j \in RvRows(g, i)}
             rh == {h[j].rv : j \in RvRows(h, i)}
  <2>1. \A t : RankAtLeast(g, i, t) =
               (RankIn = 0 \/ 1000 * (g[i].rv - Min(rg)) > RankIn * t * (Max(rg) - Min(rg)))
    BY DEF RankAtLeast
  <2>2. \A t : RankAtLeast(h, i, t) =
               (RankIn = 0 \/ 1000 * (h[i].rv - Min(rh)) > RankIn * t * (Max(rh) - Min(rh)))
    BY DEF RankAtLeast
  <2>3. rg = rh
    BY <1>5
  <2> HIDE DEF rg, rh
  <2> QED
    BY <1>4, <2>1, <2>2, <2>3
<1> QED
  BY <1>6, <1>7, Zenon

\* A trade is entered and left where it was when there were fewer bars.
LEMMA TradesKept ==
  ASSUME NEW h, NEW g, Prolongs(g, h)
  PROVE  \A i \in 0..Len(h) : InTrade(g)[i] = InTrade(h)[i]
<1> DEFINE T == {i \in Nat : i \in 0..Len(h) => InTrade(g)[i] = InTrade(h)[i]}
<1>0. TradeUpTo(h, Len(h), InTrade(h)) /\ TradeUpTo(g, Len(g), InTrade(g))
  BY TradeUnfolds DEF Prolongs
<1>1. ASSUME NEW i \in Nat, \A j \in 0..(i - 1) : j \in T PROVE i \in T
  <2> SUFFICES ASSUME i \in 0..Len(h) PROVE InTrade(g)[i] = InTrade(h)[i]
    OBVIOUS
  <2>1. i \in 0..Len(g)
    BY DEF Prolongs
  <2>2. /\ InTrade(h)[i] = TradeStep(h, InTrade(h), i)
        /\ InTrade(g)[i] = TradeStep(g, InTrade(g), i)
    BY <1>0, <2>1 DEF TradeUpTo
  <2>3. CASE i = 0
    BY <2>2, <2>3, Zenon DEF TradeStep
  <2>4. CASE i # 0
    <3>1. i - 1 \in 0..(i - 1) /\ i - 1 \in 0..Len(h) /\ i \in 1..Len(h)
      BY <2>4 DEF Prolongs
    <3>2. InTrade(g)[i - 1] = InTrade(h)[i - 1]
      BY <1>1, <3>1
    <3>3. /\ Ranked(g, i) = Ranked(h, i)
          /\ RankAtLeast(g, i, 7) = RankAtLeast(h, i, 7)
          /\ RankAtLeast(g, i, 10) = RankAtLeast(h, i, 10)
      BY <3>1, RanksKept
    <3> HIDE DEF T
    <3>4. TradeStep(g, InTrade(g), i) = TradeStep(h, InTrade(h), i)
      BY <2>4, <3>2, <3>3, Zenon DEF TradeStep
    <3> QED
      BY <2>2, <3>4
  <2> QED
    BY <2>3, <2>4
<1>2. Nat \subseteq T
  <2> HIDE DEF T
  <2> QED
    BY <1>1, NumberInduction
<1> QED
  BY <1>2 DEF Prolongs

\* The covered call on a bar does not change as bars are added.
LEMMA CoveredCallKept ==
  ASSUME NEW h, NEW g, Prolongs(g, h), NEW i \in 1..Len(h)
  PROVE  CoveredCallSignal(g, i) = CoveredCallSignal(h, i)
<1>1. i \in 0..Len(h) /\ i - 1 \in 0..Len(h)
  BY DEF Prolongs
<1>2. InTrade(g)[i] = InTrade(h)[i] /\ InTrade(g)[i - 1] = InTrade(h)[i - 1]
  BY <1>1, TradesKept
<1> QED
  BY <1>2, Zenon DEF CoveredCallSignal

\* The VWAP of a bar.
LEMMA VwapKept ==
  ASSUME NEW h, NEW g, Prolongs(g, h), NEW i \in 1..Len(h)
  PROVE  VwapSignal(g, i) = VwapSignal(h, i)
<1>1. \A j \in 1..i : g[j] = h[j] /\ j \in 1..Len(h) /\ j \in 1..Len(g)
  BY DEF Prolongs
<1>2. i \in 1..i /\ i \in Int
  BY DEF Prolongs
<1>3. SessionUpTo(g, i) = SessionUpTo(h, i)
  BY <1>1, <1>2 DEF SessionUpTo
<1>4. IsFiniteSet(SessionUpTo(h, i))
  <2>1. SessionUpTo(h, i) \in SUBSET (1..i)
    BY DEF SessionUpTo
  <2> QED
    BY <1>2, <2>1, FS_Interval, FS_Subset, SMTT(40)
<1>5. \A j \in SessionUpTo(h, i) : g[j] = h[j] /\ j \in 1..Len(h) /\ j \in 1..Len(g)
  BY <1>1 DEF SessionUpTo
<1>6. Vol(g, i) = Vol(h, i)
  <2> DEFINE f == [j \in 1..Len(g) |-> g[j].volume]
             k == [j \in 1..Len(h) |-> h[j].volume]
  <2>1. \A j \in SessionUpTo(h, i) : f[j] = k[j]
    BY <1>5
  <2> HIDE DEF f, k
  <2>2. SumFunctionOnSet(f, SessionUpTo(h, i)) = SumFunctionOnSet(k, SessionUpTo(h, i))
    BY <1>4, <2>1, SumSame
  <2> QED
    BY <1>3, <2>2 DEF Vol, f, k
<1>7. Tpv(g, i) = Tpv(h, i)
  <2> DEFINE f == [j \in 1..Len(g) |-> (g[j].high + g[j].low + g[j].close) * g[j].volume]
             k == [j \in 1..Len(h) |-> (h[j].high + h[j].low + h[j].close) * h[j].volume]
  <2>1. \A j \in SessionUpTo(h, i) : f[j] = k[j]
    BY <1>5
  <2> HIDE DEF f, k
  <2>2. SumFunctionOnSet(f, SessionUpTo(h, i)) = SumFunctionOnSet(k, SessionUpTo(h, i))
    BY <1>4, <2>1, SumSame
  <2> QED
    BY <1>3, <2>2 DEF Tpv, f, k
<1>8. g[i] = h[i]
  BY <1>1, <1>2
<1> QED
  BY <1>6, <1>7, <1>8, Zenon DEF VwapSignal

\* Bars in order of their days and, within a day, of their slots.
Ordered(h) ==
  \A i, j \in 1..Len(h) : i < j =>
    \/ h[i].day < h[j].day
    \/ h[i].day = h[j].day /\ h[i].slot <= h[j].slot

FrameBar == [day : Nat, slot : -1..1, low : Nat, high : Nat, close : Nat, volume : Nat,
             rv : Nat \cup {NoRv}]

\* The fields of a bar of the frame.
LEMMA FrameBarFields ==
  ASSUME NEW b \in FrameBar
  PROVE  /\ b.day \in Nat /\ b.slot \in -1..1 /\ b.slot \in Int
         /\ b.low \in Nat /\ b.high \in Nat /\ b.close \in Nat /\ b.volume \in Nat
  BY DEF FrameBar

\* The range of a bar after it is closed: what follows in its session is later.
LEMMA OrbKept ==
  ASSUME NEW h, NEW g \in Seq(FrameBar), Prolongs(g, h), Ordered(g), NEW i \in 1..Len(h)
  PROVE  OrbSignal(g, i) = OrbSignal(h, i)
<1>1. \A j \in 1..Len(h) : g[j] = h[j] /\ j \in 1..Len(g)
  BY DEF Prolongs
<1>2. CASE h[i].slot # 1
  BY <1>1, <1>2 DEF OrbSignal
<1>3. CASE h[i].slot = 1
  <2>1. ASSUME NEW j \in 1..Len(g), g[j].day = g[i].day, g[j].slot <= 0
        PROVE  j \in 1..Len(h)
    <3> SUFFICES ASSUME j \notin 1..Len(h) PROVE FALSE
      OBVIOUS
    <3>1. i \in 1..Len(g) /\ i < j
      BY DEF Prolongs
    <3>2. g[i].day < g[j].day \/ (g[i].day = g[j].day /\ g[i].slot <= g[j].slot)
      BY <3>1 DEF Ordered
    <3>3. g[i] \in FrameBar /\ g[j] \in FrameBar
      BY <3>1
    <3>4. g[i].day \in Nat /\ g[j].slot \in Int /\ g[j].day \in Nat
      BY <3>3, FrameBarFields
    <3>5. g[i].slot = 1
      BY <1>1, <1>3
    <3> QED
      BY <2>1, <3>2, <3>4, <3>5
  <2>2. RangeBars(g, i) = RangeBars(h, i)
    BY <1>1, <2>1 DEF RangeBars
  <2>3. \A j \in RangeBars(h, i) : g[j] = h[j]
    BY <1>1 DEF RangeBars
  <2>4. /\ {g[j].high : j \in RangeBars(h, i)} = {h[j].high : j \in RangeBars(h, i)}
        /\ {g[j].low : j \in RangeBars(h, i)} = {h[j].low : j \in RangeBars(h, i)}
    BY <2>3
  <2>5. Breakout(g, i) = Breakout(h, i)
    BY <1>1, <2>2, <2>4 DEF Breakout
  <2> QED
    BY <1>1, <2>5 DEF OrbSignal
<1> QED
  BY <1>2, <1>3

\* A bar that is in the range itself does not break out of it.
LEMMA OrbLive ==
  ASSUME NEW h \in Seq(FrameBar), NEW i \in 1..Len(h),
         h[i].low <= h[i].close, h[i].close <= h[i].high
  PROVE  Breakout(h, i) = OrbSignal(h, i)
<1>0. Len(h) \in Int
  OBVIOUS
<1>1. CASE h[i].slot = 1
  BY <1>1 DEF OrbSignal
<1>2. CASE h[i].slot # 1
  <2> DEFINE R == RangeBars(h, i)
             highs == {h[j].high : j \in R}
             lows == {h[j].low : j \in R}
  <2>1. h[i] \in FrameBar
    OBVIOUS
  <2>2. i \in R
    BY <1>2, <2>1, SMTT(40) DEF RangeBars, FrameBar
  <2>3. R \in SUBSET (1..Len(h)) /\ IsFiniteSet(R)
    <3>1. R \in SUBSET (1..Len(h))
      BY DEF RangeBars
    <3> QED
      <4>1. IsFiniteSet(1..Len(h))
        BY <1>0, FS_Interval
      <4> HIDE DEF R
      <4> QED
        BY <3>1, <4>1, FS_Subset
  <2>4. \A j \in R : h[j].high \in Nat /\ h[j].low \in Nat
    <3>1. \A j \in R : h[j] \in FrameBar
      BY <2>3
    <3> QED
      BY <3>1 DEF FrameBar
  <2>5. IsFiniteSet(highs) /\ IsFiniteSet(lows)
    <3> DEFINE up == [j \in R |-> h[j].high]
               down == [j \in R |-> h[j].low]
    <3>1. up \in Surjection(R, highs) /\ down \in Surjection(R, lows)
      BY DEF Surjection
    <3> HIDE DEF R, highs, lows, up, down
    <3> QED
      BY <2>3, <3>1, FS_Surjection
  <2>6. highs \in SUBSET Int /\ lows \in SUBSET Int /\ h[i].high \in highs /\ h[i].low \in lows
    BY <2>2, <2>4
  <2>7. Max(highs) \in Int /\ h[i].high <= Max(highs)
    <3> HIDE DEF highs
    <3>1. \E x \in highs : \A y \in highs : x >= y
      BY <2>5, <2>6, LargestExists
    <3>2. Max(highs) \in highs /\ \A y \in highs : Max(highs) >= y
      BY <3>1 DEF Max
    <3> QED
      BY <2>6, <3>2
  <2>8. Min(lows) \in Int /\ Min(lows) <= h[i].low
    <3> HIDE DEF lows
    <3>1. \E x \in lows : \A y \in lows : x <= y
      BY <2>5, <2>6, SmallestExists
    <3>2. Min(lows) \in lows /\ \A y \in lows : Min(lows) <= y
      BY <3>1 DEF Min
    <3> QED
      BY <2>6, <3>2
  <2>9. h[i].close \in Int /\ h[i].high \in Int /\ h[i].low \in Int
    BY <2>1 DEF FrameBar
  <2>10. ~(h[i].close > Max(highs)) /\ ~(h[i].close < Min(lows)) /\ R # {}
    <3> HIDE DEF highs, lows, R
    <3> QED
      BY <2>2, <2>7, <2>8, <2>9
  <2>11. Breakout(h, i) = 0
    BY <2>10 DEF Breakout
  <2> QED
    BY <1>2, <2>11 DEF OrbSignal
<1> QED
  BY <1>1, <1>2

\* The signals and the vote of an ensemble with weights w, of which the voters br
\* raise.
SignalOf(br, v, h, i) ==
  IF v \in br THEN 0
  ELSE IF v = "orb" THEN OrbSignal(h, i)
  ELSE IF v = "vwap" THEN VwapSignal(h, i)
  ELSE CoveredCallSignal(h, i)

SumOfVotes(w, br, h, i) ==
  SumFunctionOnSet([v \in Voters |-> w[v] * SignalOf(br, v, h, i)], Voters)

VoteOf(w, br, h, i) ==
  LET sum == SumOfVotes(w, br, h, i)
      total == SumFunctionOnSet(w, Voters)
  IN IF total = 0 \/ 100 * (IF sum < 0 THEN -sum ELSE sum) < MinConfidence * total
       THEN 0 ELSE Sign(sum)

NothingAhead(h, on, votes, w, br) ==
  \A i \in 1..Len(h) :
    /\ i > 1 => on[i] = [orb |-> OrbSignal(h, i), vwap |-> VwapSignal(h, i)]
    /\ votes[i] = IF i < MinWindow THEN 0 ELSE VoteOf(w, br, h, i)

\* A vote, with what it depends on as parameters.
LEMMA VoteIsOf == \A h, i : Vote(h, i) = VoteOf(weights, broken, h, i)
<1>1. \A v, h, i : Signal(v, h, i) = SignalOf(broken, v, h, i)
  BY Zenon DEF Signal, SignalOf
<1>2. \A h, i : SumFunctionOnSet([v \in Voters |-> weights[v] * Signal(v, h, i)], Voters)
                 = SumOfVotes(weights, broken, h, i)
  BY <1>1 DEF SumOfVotes
<1> QED
  BY <1>2, Zenon DEF Vote, VoteOf, Total

\* The vote on a bar does not change as bars are added.
LEMMA VoteKept ==
  ASSUME NEW h, NEW g \in Seq(FrameBar), Prolongs(g, h), Ordered(g), NEW i \in 1..Len(h),
         NEW w, NEW br
  PROVE  VoteOf(w, br, g, i) = VoteOf(w, br, h, i)
<1>1. \A v \in Voters : SignalOf(br, v, g, i) = SignalOf(br, v, h, i)
  BY OrbKept, VwapKept, CoveredCallKept, Zenon DEF SignalOf
<1>2. SumOfVotes(w, br, g, i) = SumOfVotes(w, br, h, i)
  <2>1. [v \in Voters |-> w[v] * SignalOf(br, v, g, i)]
          = [v \in Voters |-> w[v] * SignalOf(br, v, h, i)]
    BY <1>1
  <2> QED
    BY <2>1, Zenon DEF SumOfVotes
<1> QED
  BY <1>2, Zenon DEF VoteOf

SignalsInv ==
  /\ bars_so_far \in Seq(FrameBar) /\ Len(bars_so_far) <= MaxFrame /\ Ordered(bars_so_far)
  /\ \A i \in 1..Len(bars_so_far) : /\ bars_so_far[i].low <= bars_so_far[i].close
                                   /\ bars_so_far[i].close <= bars_so_far[i].high
  /\ onBar \in Seq([orb : -1..1, vwap : -1..1]) /\ Len(onBar) = Len(bars_so_far)
  /\ series \in Seq(-1..1) /\ Len(series) = Len(bars_so_far)
  /\ ~assembled => bars_so_far = << >>
  /\ weights \in [Voters -> Nat] /\ broken \subseteq Voters
  /\ NothingAhead(bars_so_far, onBar, series, weights, broken)

LEMMA InitSignals == SignalsInit => SignalsInv
<1> SUFFICES ASSUME SignalsInit PROVE SignalsInv
  OBVIOUS
<1>1. /\ bars_so_far = << >> /\ onBar = << >> /\ series = << >>
      /\ weights = [v \in Voters |-> 0] /\ broken = {}
  BY DEF SignalsInit
<1>2. /\ bars_so_far \in Seq(FrameBar) /\ Len(bars_so_far) = 0
      /\ onBar \in Seq([orb : -1..1, vwap : -1..1]) /\ Len(onBar) = 0
      /\ series \in Seq(-1..1) /\ Len(series) = 0
  BY <1>1
<1>3. Ordered(bars_so_far) /\ NothingAhead(bars_so_far, onBar, series, weights, broken)
  <2>1. 1..Len(bars_so_far) = {}
    BY <1>2
  <2> QED
    BY <2>1 DEF Ordered, NothingAhead
<1>4. weights \in [Voters -> Nat] /\ broken \subseteq Voters
  BY <1>1
<1> QED
  BY <1>1, <1>2, <1>3, <1>4, SignalsAssumption DEF SignalsInv

LEMMA AssembleStep == ASSUME SignalsInv, Assemble PROVE SignalsInv'
<1>1. /\ bars_so_far = << >> /\ weights' \in [Voters -> Nat] /\ broken' \subseteq Voters
      /\ UNCHANGED <<bars_so_far, onBar, series>>
  <2>1. bars_so_far = << >> /\ assembled' = TRUE /\ weights' \in Weights
        /\ UNCHANGED <<bars_so_far, onBar, series>>
    <3>1. ~assembled /\ assembled' = TRUE /\ weights' \in Weights
          /\ UNCHANGED <<bars_so_far, onBar, series>>
      BY Zenon DEF Assemble
    <3>2. bars_so_far = << >>
      BY <3>1, Zenon DEF SignalsInv
    <3> QED
      BY <3>1, <3>2, Zenon
  <2>2. broken' \subseteq Voters
    BY Zenon DEF Assemble, Voters
  <2>3. weights' \in [Voters -> Nat]
    BY <2>1, SignalsAssumption
  <2> QED
    BY <2>1, <2>2, <2>3 DEF SignalsInv
<1>2. NothingAhead(bars_so_far', onBar', series', weights', broken')
  <2>1. 1..Len(bars_so_far') = {}
    BY <1>1
  <2> QED
    BY <2>1 DEF NothingAhead
<1> QED
  BY <1>1, <1>2 DEF SignalsInv

\* Every signal is -1, 0 or 1.
LEMMA SignRanges ==
  ASSUME NEW h, NEW i
  PROVE  /\ OrbSignal(h, i) \in -1..1 /\ Breakout(h, i) \in -1..1
         /\ VwapSignal(h, i) \in -1..1 /\ Vote(h, i) \in -1..1
<1>1. Breakout(h, i) \in -1..1
  BY DEF Breakout
<1>2. OrbSignal(h, i) \in -1..1
  BY <1>1 DEF OrbSignal
<1>3. VwapSignal(h, i) \in -1..1
  BY DEF VwapSignal
<1>4. \A n : Sign(n) \in -1..1
  BY DEF Sign
<1>5. Vote(h, i) \in -1..1
  BY <1>4 DEF Vote
<1> QED
  BY <1>1, <1>2, <1>3, <1>5

LEMMA NewBarStep ==
  ASSUME SignalsInv, NEW shape \in Shapes, NEW day \in 1..LastSession, NEW slot \in -1..1,
         NewBar(shape, day, slot)
  PROVE  SignalsInv'
<1> DEFINE h == bars_so_far
           g == bars_so_far'
           n == Len(bars_so_far)
           b == [day |-> day, slot |-> slot, low |-> shape.low, high |-> shape.high,
                 close |-> shape.close, volume |-> shape.volume, rv |-> shape.rv]
<1>1. /\ assembled = TRUE /\ n < MaxFrame /\ Follows(day, slot)
      /\ g = Append(h, b)
      /\ onBar' = Append(onBar, [orb |-> OrbOnBar(g), vwap |-> VwapOnBar(g)])
      /\ series' = Append(series, VoteSeries(g))
      /\ UNCHANGED <<assembled, weights, broken>>
  BY Zenon DEF NewBar, SignalsInv
<1>2. b \in FrameBar /\ b.low <= b.close /\ b.close <= b.high
  <2>1. /\ shape.low \in Nat /\ shape.high \in Nat /\ shape.close \in Nat /\ shape.volume \in Nat
        /\ shape.rv \in Nat \cup {NoRv} /\ shape.low <= shape.close /\ shape.close <= shape.high
    BY SignalsAssumption
  <2>2. day \in Nat
    BY SignalsAssumption
  <2> QED
    BY <2>1, <2>2 DEF FrameBar
<1>3. h \in Seq(FrameBar) /\ n \in Nat /\ Len(onBar) = n /\ Len(series) = n
      /\ onBar \in Seq([orb : -1..1, vwap : -1..1]) /\ series \in Seq(-1..1)
      /\ Ordered(h)
  BY DEF SignalsInv
<1> HIDE DEF b
<1>4. /\ g \in Seq(FrameBar) /\ Len(g) = n + 1 /\ g[n + 1] = b
      /\ \A i \in 1..n : g[i] = h[i]
  BY <1>1, <1>2, <1>3
<1>5. Prolongs(g, h)
  BY <1>3, <1>4 DEF Prolongs
<1>6. Ordered(g)
  <2> SUFFICES ASSUME NEW i \in 1..Len(g), NEW j \in 1..Len(g), i < j
               PROVE  \/ g[i].day < g[j].day
                      \/ g[i].day = g[j].day /\ g[i].slot <= g[j].slot
    BY DEF Ordered
  <2>0. n \in Nat /\ i \in 1..(n + 1) /\ j \in 1..(n + 1) /\ i < j
    BY <1>3, <1>4
  <2>1. i \in 1..n /\ g[i] = h[i]
    <3>1. i \in 1..n
      BY ONLY <2>0
    <3> QED
      BY <1>4, <3>1
  <2>2. CASE j # n + 1
    <3>0. j \in 1..n
      BY ONLY <2>0, <2>2
    <3>1. g[j] = h[j]
      BY <1>4, <3>0
    <3> QED
      BY <1>3, <2>0, <2>1, <3>0, <3>1 DEF Ordered
  <2>3. CASE j = n + 1
    <3>1. n \in 1..n /\ n # 0
      BY <1>3, <2>1
    <3>2. g[j].day = day /\ g[j].slot = slot
      BY <1>4, <2>3 DEF b
    <3>3. (day = h[n].day /\ slot >= h[n].slot) \/ day = h[n].day + 1
      BY <1>1, <3>1 DEF Follows
    <3>4. h[i] \in FrameBar /\ h[n] \in FrameBar
      BY <1>3, <2>1, <3>1
    <3>5. h[i].day \in Nat /\ h[i].slot \in Int /\ h[n].day \in Nat /\ h[n].slot \in Int
      BY <3>4, FrameBarFields
    <3>6. i = n \/ h[i].day < h[n].day \/ (h[i].day = h[n].day /\ h[i].slot <= h[n].slot)
      <4>1. CASE i = n
        BY <4>1
      <4>2. CASE i # n
        <5>1. i < n
          BY <1>3, <2>1, <4>2
        <5> QED
          BY <1>3, <2>1, <3>1, <5>1 DEF Ordered
      <4> QED
        BY <4>1, <4>2
    <3> HIDE DEF h, g, n
    <3> QED
      BY <2>1, <3>2, <3>3, <3>5, <3>6, SMTT(40)
  <2> QED
    BY <2>2, <2>3
<1>7. \A i \in 1..Len(g) : g[i].low <= g[i].close /\ g[i].close <= g[i].high
  <2> SUFFICES ASSUME NEW i \in 1..Len(g)
               PROVE  g[i].low <= g[i].close /\ g[i].close <= g[i].high
    OBVIOUS
  <2>1. CASE i = n + 1
    BY <1>2, <1>4, <2>1
  <2>2. CASE i # n + 1
    <3>1. i \in 1..n /\ g[i] = h[i]
      BY <1>3, <1>4, <2>2
    <3> QED
      BY <3>1 DEF SignalsInv
  <2> QED
    BY <2>1, <2>2
<1>8. /\ [orb |-> OrbOnBar(g), vwap |-> VwapOnBar(g)] \in [orb : -1..1, vwap : -1..1]
      /\ VoteSeries(g) \in -1..1
  <2>1. OrbOnBar(g) \in -1..1
    BY SignRanges DEF OrbOnBar
  <2>2. VwapOnBar(g) \in -1..1
    BY SignRanges DEF VwapOnBar
  <2>3. VoteSeries(g) \in -1..1
    BY SignRanges DEF VoteSeries
  <2> QED
    BY <2>1, <2>2, <2>3
<1>9. /\ onBar' \in Seq([orb : -1..1, vwap : -1..1]) /\ Len(onBar') = n + 1
      /\ onBar'[n + 1] = [orb |-> OrbOnBar(g), vwap |-> VwapOnBar(g)]
      /\ \A i \in 1..n : onBar'[i] = onBar[i]
      /\ series' \in Seq(-1..1) /\ Len(series') = n + 1
      /\ series'[n + 1] = VoteSeries(g)
      /\ \A i \in 1..n : series'[i] = series[i]
  <2> DEFINE o == [orb |-> OrbOnBar(g), vwap |-> VwapOnBar(g)]
             v == VoteSeries(g)
  <2>1. o \in [orb : -1..1, vwap : -1..1] /\ v \in -1..1 /\ onBar' = Append(onBar, o)
        /\ series' = Append(series, v)
    BY <1>1, <1>8
  <2> HIDE DEF o, v, g, h
  <2>2. /\ onBar' \in Seq([orb : -1..1, vwap : -1..1]) /\ Len(onBar') = n + 1
        /\ onBar'[n + 1] = o /\ \A i \in 1..n : onBar'[i] = onBar[i]
    BY <1>3, <2>1
  <2>3. /\ series' \in Seq(-1..1) /\ Len(series') = n + 1
        /\ series'[n + 1] = v /\ \A i \in 1..n : series'[i] = series[i]
    BY <1>3, <2>1
  <2> QED
    BY <2>2, <2>3 DEF o, v
<1>10. NothingAhead(g, onBar', series', weights, broken)
  <2> SUFFICES ASSUME NEW i \in 1..Len(g)
               PROVE  /\ i > 1 => onBar'[i] = [orb |-> OrbSignal(g, i), vwap |-> VwapSignal(g, i)]
                      /\ series'[i] = IF i < MinWindow THEN 0 ELSE VoteOf(weights, broken, g, i)
    BY DEF NothingAhead
  <2>1. CASE i = n + 1
    <3>1. Breakout(g, i) = OrbSignal(g, i)
      <4> HIDE DEF g
      <4> QED
        BY <1>4, <1>7, OrbLive
    <3>2. i > 1 => OrbOnBar(g) = OrbSignal(g, i) /\ VwapOnBar(g) = VwapSignal(g, i)
      BY <1>3, <1>4, <2>1, <3>1 DEF OrbOnBar, VwapOnBar
    <3>3. VoteSeries(g) = IF i < MinWindow THEN 0 ELSE VoteOf(weights, broken, g, i)
      BY <1>4, <2>1, VoteIsOf, Zenon DEF VoteSeries
    <3> HIDE DEF g
    <3> QED
      BY <1>9, <2>1, <3>2, <3>3
  <2>2. CASE i # n + 1
    <3>1. i \in 1..n /\ onBar'[i] = onBar[i] /\ series'[i] = series[i]
      BY <1>3, <1>4, <1>9, <2>2
    <3>2. OrbSignal(g, i) = OrbSignal(h, i) /\ VwapSignal(g, i) = VwapSignal(h, i)
      BY <1>4, <1>5, <1>6, <3>1, OrbKept, VwapKept, Zenon
    <3>3. VoteOf(weights, broken, g, i) = VoteOf(weights, broken, h, i)
      BY <1>4, <1>5, <1>6, <3>1, VoteKept, ZenonT(40)
    <3>4. /\ i > 1 => onBar[i] = [orb |-> OrbSignal(h, i), vwap |-> VwapSignal(h, i)]
          /\ series[i] = IF i < MinWindow THEN 0 ELSE VoteOf(weights, broken, h, i)
      BY <3>1 DEF SignalsInv, NothingAhead
    <3> HIDE DEF g, h
    <3> QED
      BY <3>1, <3>2, <3>3, <3>4
  <2> QED
    BY <2>1, <2>2
<1>11. n + 1 <= MaxFrame
  BY <1>1, <1>3, SignalsAssumption
<1> QED
  BY <1>1, <1>4, <1>6, <1>7, <1>9, <1>10, <1>11 DEF SignalsInv

LEMMA NextSignals == SignalsInv /\ [SignalsNext]_signalVars => SignalsInv'
<1> SUFFICES ASSUME SignalsInv, [SignalsNext]_signalVars PROVE SignalsInv'
  OBVIOUS
<1>1. CASE UNCHANGED signalVars
  BY <1>1 DEF signalVars, SignalsInv
<1> QED
  BY <1>1, AssembleStep, NewBarStep DEF SignalsNext

\* What the invariant of the strategies is for.
LEMMA SignalsInvAhead == SignalsInv => SignalsTypeOK /\ NoLookahead
<1> SUFFICES ASSUME SignalsInv PROVE SignalsTypeOK /\ NoLookahead
  OBVIOUS
<1>1. NoLookahead
  BY VoteIsOf DEF SignalsInv, NothingAhead, NoLookahead
<1>2. SignalsTypeOK
  <2>1. \A i \in 1..Len(bars_so_far) : onBar[i] \in [orb : -1..1, vwap : -1..1]
    <3>1. onBar \in Seq([orb : -1..1, vwap : -1..1]) /\ Len(onBar) = Len(bars_so_far)
      BY DEF SignalsInv
    <3> QED
      BY <3>1, RowOf
  <2>2. \A i \in 1..Len(bars_so_far) : series[i] \in -1..1
    <3>1. series \in Seq(-1..1) /\ Len(series) = Len(bars_so_far)
      BY DEF SignalsInv
    <3> QED
      BY <3>1, RowOf
  <2> QED
    BY <2>1, <2>2 DEF SignalsInv, SignalsTypeOK
<1> QED
  BY <1>1, <1>2

-----------------------------------------------------------------------------
(* The chain of options around the spot (OptionChain).                      *)

\* The images of a finite set are finitely many, and no more than it has.
LEMMA FieldsFinite ==
  ASSUME NEW S, IsFiniteSet(S)
  PROVE  /\ IsFiniteSet(Strikes(S)) /\ IsFiniteSet({c.expiry : c \in S})
<1>1. IsFiniteSet(Strikes(S))
  <2> DEFINE f == [c \in S |-> c.strike]
  <2>1. f \in Surjection(S, Strikes(S))
    BY DEF Surjection, Strikes
  <2> QED
    BY <2>1, FS_Surjection
<1>2. IsFiniteSet({c.expiry : c \in S})
  <2> DEFINE f == [c \in S |-> c.expiry]
             T == {c.expiry : c \in S}
  <2>1. f \in Surjection(S, T)
    BY DEF Surjection
  <2> QED
    BY <2>1, FS_Surjection
<1> QED
  BY <1>1, <1>2

\* The larger and the smaller of two numbers.
LEMMA MaxOfTwo ==
  ASSUME NEW a \in Int, NEW b \in Int
  PROVE  Max({a, b}) = (IF a >= b THEN a ELSE b) /\ Min({a, b}) = (IF a <= b THEN a ELSE b)
<1>1. Max({a, b}) \in {a, b} /\ \A y \in {a, b} : Max({a, b}) >= y
  <2>1. \E x \in {a, b} : \A y \in {a, b} : x >= y
    OBVIOUS
  <2> QED
    BY <2>1, Zenon DEF Max
<1>2. Min({a, b}) \in {a, b} /\ \A y \in {a, b} : Min({a, b}) <= y
  <2>1. \E x \in {a, b} : \A y \in {a, b} : x <= y
    OBVIOUS
  <2> QED
    BY <2>1, Zenon DEF Min
<1> QED
  BY <1>1, <1>2

\* The bounds of a set are its smallest and its largest number.
LEMMA BoundsOf ==
  ASSUME NEW ts \in SUBSET Nat, NEW lo \in ts, NEW hi \in ts,
         \A k \in ts : lo <= k /\ k <= hi
  PROVE  Min(ts) = lo /\ Max(ts) = hi
<1>1. Max(ts) \in ts /\ \A y \in ts : Max(ts) >= y
  <2>1. \A y \in ts : hi >= y
    OBVIOUS
  <2> QED
    BY <2>1, Zenon DEF Max
<1>2. Min(ts) \in ts /\ \A y \in ts : Min(ts) <= y
  <2>1. \A y \in ts : lo <= y
    OBVIOUS
  <2> QED
    BY <2>1, Zenon DEF Min
<1>3. /\ Max(ts) \in Nat /\ Min(ts) \in Nat /\ lo \in Nat /\ hi \in Nat
      /\ Max(ts) >= hi /\ Max(ts) <= hi /\ Min(ts) <= lo /\ Min(ts) >= lo
  BY <1>1, <1>2
<1> QED
  BY <1>3

\* A distance is a number.
LEMMA DistanceType ==
  ASSUME NEW k \in Nat, NEW spot \in Nat
  PROVE  Distance(k, spot) \in Nat
  BY DEF Distance

\* Some strike is the nearest one, the lower of two.
Nearer(k, l, spot) ==
  Distance(k, spot) < Distance(l, spot) \/ (Distance(k, spot) = Distance(l, spot) /\ k <= l)

\* There is a strike nearest the spot, and Nearest is one.
LEMMA NearestFacts ==
  ASSUME NEW ks \in SUBSET Nat, IsFiniteSet(ks), ks # {}, NEW spot \in Nat
  PROVE  LET m == Nearest(ks, spot) IN
         /\ m \in ks /\ \A l \in ks : Nearer(m, l, spot)
         /\ \A k \in ks : (\A l \in ks : Nearer(k, l, spot)) => k = m
<1> DEFINE T == {s \in SUBSET ks : s # {} => \E k \in s : \A l \in s : Nearer(k, l, spot)}
<1>0. \A k \in ks : k \in Nat /\ Distance(k, spot) \in Nat
  BY DistanceType
<1>1. ASSUME NEW s \in SUBSET ks, \A u \in SUBSET s : u # s => u \in T PROVE s \in T
  <2> SUFFICES ASSUME s # {} PROVE \E k \in s : \A l \in s : Nearer(k, l, spot)
    OBVIOUS
  <2>1. PICK a : a \in s
    OBVIOUS
  <2>2. s \ {a} \in T
    BY <1>1, <2>1
  <2>3. CASE s \ {a} = {}
    <3>1. \A y \in s : y = a
      BY <2>3
    <3> QED
      BY <1>0, <2>1, <3>1 DEF Nearer
  <2>4. CASE s \ {a} # {}
    <3>1. PICK b \in s \ {a} : \A y \in s \ {a} : Nearer(b, y, spot)
      BY <2>2, <2>4
    <3>2. CASE Nearer(b, a, spot)
      BY <3>1, <3>2
    <3>3. CASE ~Nearer(b, a, spot)
      BY <1>0, <2>1, <3>1, <3>3 DEF Nearer
    <3> QED
      BY <3>2, <3>3
  <2> QED
    BY <2>3, <2>4
<1>2. SUBSET ks \subseteq T
  <2> HIDE DEF T
  <2> QED
    BY <1>1, SubsetInduction
<1>3. \E k \in ks : \A l \in ks : Nearer(k, l, spot)
  BY <1>2
<1>4. Nearest(ks, spot) \in ks /\ \A l \in ks : Nearer(Nearest(ks, spot), l, spot)
  BY <1>3, Zenon DEF Nearest, Nearer
<1>5. ASSUME NEW k \in ks, \A l \in ks : Nearer(k, l, spot) PROVE k = Nearest(ks, spot)
  <2>1. Nearer(k, Nearest(ks, spot), spot) /\ Nearer(Nearest(ks, spot), k, spot)
    BY <1>4, <1>5
  <2> DEFINE m == Nearest(ks, spot)
  <2>2. k \in Nat /\ m \in Nat /\ Distance(k, spot) \in Nat /\ Distance(m, spot) \in Nat
    BY <1>0, <1>4
  <2>3. Nearer(k, m, spot) /\ Nearer(m, k, spot)
    BY <2>1
  <2> HIDE DEF m
  <2>4. k = m
    BY <2>2, <2>3 DEF Nearer
  <2> QED
    BY <2>4 DEF m
<1> QED
  BY <1>4, <1>5

\* What _filter_strikes() is to leave, T, of the contracts S: the nearest strike and,
\* on either side of it, n strikes or all that there are.
Around(T, S, spot, n) ==
  LET ks == Strikes(S)
      ts == Strikes(T)
      m == Nearest(ks, spot)
      below == {k \in ts : k < m}
      above == {k \in ts : k > m}
  IN  /\ T \subseteq S /\ m \in ts /\ Nearest(ts, spot) = m
      /\ \A k \in ks : Nearer(m, k, spot)
      /\ Cardinality(below) <= n /\ Cardinality(above) <= n
      /\ \A c \in S \ T : \/ c.strike < Min(ts) /\ Cardinality(below) = n
                          \/ c.strike > Max(ts) /\ Cardinality(above) = n

\* What _filter_strikes() leaves is around the strike nearest the spot.
LEMMA FilterFacts ==
  ASSUME NEW S, IsFiniteSet(S), S # {}, \A c \in S : c.strike \in Nat,
         NEW spot \in Nat, spot # NoSpot, NEW n \in Nat
  PROVE  Around(FilterStrikes(S, spot, n), S, spot, n)
<1> DEFINE ks == Strikes(S)
           m == Nearest(ks, spot)
           i == Index(ks, m)
           highest == Cardinality(ks) - 1
           from == Max({0, i - n})
           to == Min({highest, i + n})
           lo == AtIndex(ks, from)
           hi == AtIndex(ks, to)
           T == FilterStrikes(S, spot, n)
           ts == Strikes(T)
           below == {k \in ts : k < m}
           above == {k \in ts : k > m}
<1>1. ks \in SUBSET Nat /\ ks # {} /\ IsFiniteSet(ks)
  BY FieldsFinite DEF Strikes
<1>2. /\ m \in ks /\ \A k \in ks : Nearer(m, k, spot)
      /\ \A k \in ks : (\A l \in ks : Nearer(k, l, spot)) => k = m
  <2> HIDE DEF ks
  <2> QED
    BY <1>1, NearestFacts
<1>3. T = {c \in S : lo <= c.strike /\ c.strike <= hi}
  BY Zenon DEF FilterStrikes
<1>4. \A k : k \in ks <=> \E c \in S : c.strike = k
  BY DEF Strikes
<1>5. ts = {k \in ks : lo <= k /\ k <= hi}
  <2> HIDE DEF lo, hi, T
  <2> QED
    BY <1>3 DEF Strikes
<1> HIDE DEF ks, m, T
<1>6. i \in 0..highest /\ highest \in Nat
  <2>1. Cardinality(ks) \in Nat /\ Cardinality(ks) # 0
    BY <1>1, FS_CardinalityType, FS_EmptySet
  <2> QED
    BY <1>1, <1>2, <2>1, IndexBijective
<1>7. from = (IF i - n >= 0 THEN i - n ELSE 0) /\ to = (IF i + n <= highest THEN i + n ELSE highest)
  <2> HIDE DEF i, highest
  <2>1. i - n \in Int /\ i + n \in Int /\ highest \in Int /\ 0 \in Int
    BY <1>6
  <2>2. Max({0, i - n}) = (IF 0 >= i - n THEN 0 ELSE i - n)
    BY <2>1, MaxOfTwo
  <2>3. Min({highest, i + n}) = (IF highest <= i + n THEN highest ELSE i + n)
    BY <2>1, MaxOfTwo
  <2> QED
    BY <2>1, <2>2, <2>3
<1>8. from \in 0..highest /\ to \in 0..highest /\ from <= i /\ i <= to
  <2> HIDE DEF i, highest, from, to
  <2> QED
    BY <1>6, <1>7
<1>9. lo \in ks /\ Index(ks, lo) = from /\ hi \in ks /\ Index(ks, hi) = to
  <2> HIDE DEF from, to
  <2> QED
    BY <1>1, <1>8, IndexBijective
<1> HIDE DEF lo, hi, from, to, highest
<1>10. lo <= m /\ m <= hi
  <2>1. lo \in Nat /\ hi \in Nat /\ m \in Nat
    BY <1>1, <1>2, <1>9
  <2>2. (m < lo <=> i < from) /\ (hi < m <=> to < i)
    BY <1>1, <1>2, <1>9, IndexStrict
  <2> HIDE DEF i
  <2> QED
    BY <1>6, <1>8, <2>1, <2>2
<1>11. lo \in ts /\ hi \in ts /\ m \in ts /\ ts \in SUBSET ks
  <2>1. lo \in Nat /\ hi \in Nat /\ m \in Nat
    BY <1>1, <1>2, <1>9
  <2>2. lo <= lo /\ lo <= hi /\ hi <= hi
    BY <1>10, <2>1
  <2> HIDE DEF ts
  <2> QED
    BY <1>2, <1>5, <1>9, <1>10, <2>2
<1>12. Min(ts) = lo /\ Max(ts) = hi
  <2>1. \A k \in ts : lo <= k /\ k <= hi
    BY <1>5
  <2> HIDE DEF ts
  <2> QED
    BY <1>1, <1>11, <2>1, BoundsOf
<1>13. Nearest(ts, spot) = m
  <2> HIDE DEF ts
  <2>1. ts \in SUBSET Nat /\ ts # {} /\ IsFiniteSet(ts)
    BY <1>1, <1>11, FS_Subset
  <2>2. \A k \in ts : (\A l \in ts : Nearer(k, l, spot)) => k = Nearest(ts, spot)
    BY <2>1, NearestFacts
  <2>3. \A l \in ts : Nearer(m, l, spot)
    BY <1>2, <1>11
  <2> QED
    BY <1>11, <2>2, <2>3
<1>14. Cardinality(below) = i - from
  <2>1. below = {k \in ks : lo <= k /\ k < m}
    <3>1. \A k \in ks : k \in Nat /\ hi \in Nat /\ m \in Nat
      BY <1>1, <1>2, <1>9
    <3>2. \A k \in ks : k < m => k <= hi
      BY <3>1, <1>10
    <3> HIDE DEF ts
    <3> QED
      BY <1>5, <3>2
  <2>2. Index(ks, m) - Index(ks, lo) = Cardinality({k \in ks : lo <= k /\ k < m})
    BY <1>1, <1>2, <1>9, <1>10, IndexGrows
  <2> HIDE DEF below
  <2> QED
    BY <1>9, <2>1, <2>2
<1>15. Cardinality(above) = to - i
  <2> DEFINE up == {k \in ks : m <= k /\ k < hi}
  <2>1. /\ Index(ks, hi) \in Nat /\ Index(ks, m) \in Nat
        /\ Index(ks, hi) - Index(ks, m) = Cardinality(up)
    BY <1>1, <1>2, <1>9, <1>10, IndexGrows
  <2>2. IsFiniteSet(up)
    BY <1>1, FS_Subset
  <2>3. \A k \in ks : k \in Nat /\ hi \in Nat /\ m \in Nat /\ lo \in Nat
    BY <1>1, <1>2, <1>9
  <2>4. CASE m = hi
    <3>1. above = {} /\ up = {}
      <4>1. \A k \in ks : ~(k <= hi /\ k > m) /\ ~(m <= k /\ k < hi)
        BY <2>3, <2>4
      <4> HIDE DEF ts
      <4> QED
        BY <1>5, <4>1
    <3>2. Cardinality(above) = Cardinality(up)
      BY <3>1
    <3> HIDE DEF above, up
    <3> QED
      BY <1>9, <2>1, <3>2
  <2>5. CASE m # hi
    <3> DEFINE rest == up \ {m}
    <3>1. m \in up /\ hi \notin rest
      <4>1. m <= m /\ m < hi /\ ~(hi < hi)
        BY <1>2, <1>10, <2>3, <2>5
      <4> QED
        BY <1>2, <4>1
    <3>2. above = rest \cup {hi}
      <4>1. \A k \in ks : (lo <= k /\ k <= hi /\ k > m) <=> ((m <= k /\ k < hi /\ k # m) \/ k = hi)
        BY <1>10, <2>3, <2>5
      <4> HIDE DEF ts
      <4> QED
        BY <1>5, <1>9, <4>1
    <3> HIDE DEF up
    <3>3. /\ IsFiniteSet(rest) /\ Cardinality(rest) = Cardinality(up) - 1
      BY <2>2, <3>1, FS_RemoveElement
    <3>4. Cardinality(up) \in Nat
      BY <2>2, FS_CardinalityType
    <3> HIDE DEF rest, above
    <3>5. Cardinality(above) = Cardinality(rest) + 1
      BY <3>1, <3>2, <3>3, FS_AddElement
    <3> QED
      BY <1>9, <2>1, <3>3, <3>4, <3>5
  <2> QED
    BY <2>4, <2>5
<1>16. Cardinality(below) <= n /\ Cardinality(above) <= n
  <2> HIDE DEF below, above, i
  <2> QED
    BY <1>6, <1>7, <1>8, <1>14, <1>15
<1>17. ASSUME NEW c \in S \ T
       PROVE  \/ c.strike < Min(ts) /\ Cardinality(below) = n
              \/ c.strike > Max(ts) /\ Cardinality(above) = n
  <2> DEFINE k == c.strike
  <2>1. k \in ks /\ k \in Nat /\ lo \in Nat /\ hi \in Nat
    BY <1>1, <1>4, <1>9
  <2>2. k < lo \/ k > hi
    BY <1>3, <2>1
  <2>3. Index(ks, k) \in 0..highest
    BY <1>1, <2>1, IndexBijective DEF highest
  <2>4. (k < lo <=> Index(ks, k) < from) /\ (hi < k <=> to < Index(ks, k))
    <3> HIDE DEF k
    <3> QED
      BY <1>1, <1>9, <2>1, IndexStrict
  <2> HIDE DEF k, ts, below, above, i
  <2>5. CASE k < lo
    <3>1. from > 0
      BY <2>3, <2>4, <2>5, <1>8
    <3>2. Cardinality(below) = n
      BY <1>6, <1>7, <1>14, <3>1
    <3> QED
      BY <1>12, <2>5, <3>2 DEF k
  <2>6. CASE k > hi
    <3>1. to < highest
      BY <2>1, <2>3, <2>4, <2>6, <1>6, <1>8
    <3>2. Cardinality(above) = n
      BY <1>6, <1>7, <1>15, <3>1
    <3> QED
      BY <1>12, <2>6, <3>2 DEF k
  <2> QED
    BY <2>2, <2>5, <2>6
<1>18. T \subseteq S
  BY <1>3
<1> QED
  <2> HIDE DEF i
  <2> QED
    BY <1>2, <1>11, <1>13, <1>16, <1>17, <1>18, Zenon DEF ks, m, T, Around

\* The nearest multiple of 50 is within 25.
LEMMA RoundFiftyFacts ==
  ASSUME NEW spot \in Nat
  PROVE  RoundFifty(spot) \in Nat /\ Distance(RoundFifty(spot), spot) <= 25
<1> DEFINE q == spot \div 50
           r == spot % 50
<1>1. q \in Nat /\ r \in 0..49 /\ spot = 50 * q + r
  OBVIOUS
<1> HIDE DEF q, r
<1>2. RoundFifty(spot) = 50 * (IF r > 25 \/ (r = 25 /\ q % 2 = 1) THEN q + 1 ELSE q)
  BY Zenon DEF RoundFifty, q, r
<1>3. CASE r > 25 \/ (r = 25 /\ q % 2 = 1)
  <2>1. RoundFifty(spot) = 50 * (q + 1)
    BY <1>2, <1>3, Zenon
  <2> QED
    BY <1>1, <1>3, <2>1 DEF Distance
<1>4. CASE ~(r > 25 \/ (r = 25 /\ q % 2 = 1))
  <2>1. RoundFifty(spot) = 50 * q
    BY <1>2, <1>4, Zenon
  <2>2. r <= 25
    BY <1>1, <1>4
  <2> QED
    BY <1>1, <2>1, <2>2 DEF Distance
<1> QED
  BY <1>3, <1>4

\* A part of contracts that are of one expiry is of one expiry.
LEMMA FewExpiries ==
  ASSUME NEW S, IsFiniteSet(S), NEW T \in SUBSET S, Cardinality({c.expiry : c \in S}) <= 1
  PROVE  ~(Cardinality({c.expiry : c \in T}) > 1)
<1> DEFINE es == {c.expiry : c \in S}
           et == {c.expiry : c \in T}
<1>1. IsFiniteSet(es)
  BY FieldsFinite
<1>2. et \in SUBSET es
  OBVIOUS
<1> HIDE DEF es, et
<1>3. IsFiniteSet(et) /\ Cardinality(et) <= Cardinality(es)
  BY <1>1, <1>2, FS_Subset
<1>4. Cardinality(et) \in Nat /\ Cardinality(es) \in Nat
  BY <1>1, <1>3, FS_CardinalityType
<1>5. Cardinality(es) <= 1
  BY DEF es
<1>6. ~(Cardinality(et) > 1)
  BY <1>3, <1>4, <1>5
<1> QED
  BY <1>6 DEF et

ChainInv == ChainTypeOK /\ ChainSound

LEMMA InitChain == ChainInit => ChainInv
<1> SUFFICES ASSUME ChainInit PROVE ChainInv
  OBVIOUS
<1>1. query = NoQuery /\ chain = {} /\ atm = -1
  BY DEF ChainInit
<1>2. cameFrom = ""
  BY Zenon DEF ChainInit
<1>3. atm \in Nat \cup {-1} /\ chain \subseteq api \cup db
  BY <1>1
<1> QED
  BY <1>1, <1>2, <1>3, Zenon DEF ChainInv, ChainTypeOK, ChainSound

LEMMA GetChainStep ==
  ASSUME NEW e \in Expiries \cup {NoExpiry}, NEW s \in Spots \cup {NoSpot},
         NEW n \in {1, Width}, NEW t \in Calendar, NEW a \in Contracts, NEW d \in Contracts,
         GetChain([expiry |-> e, spot |-> s, width |-> n, today |-> t], a, d)
  PROVE  ChainInv'
<1> DEFINE q == [expiry |-> e, spot |-> s, width |-> n, today |-> t]
           offered == IF FromApi(q) THEN a ELSE IF e = NoExpiry THEN d ELSE {}
           ks == Strikes(chain')
           mid == IF n = 1 THEN atm' ELSE Nearest(ks, s)
           below == {k \in ks : k < mid}
           above == {k \in ks : k > mid}
<1>1. /\ query' = q /\ api' = a /\ db' = d
      /\ ApiAnswer(q, a)
      /\ cameFrom' = IF FromApi(q) THEN "api" ELSE "db"
      /\ chain' = FilterStrikes(IF FromApi(q) THEN a ELSE DbMatches(q), s, n)
      /\ atm' = IF s = NoSpot \/ n # 1 THEN -1
                ELSE IF chain' = {} THEN RoundFifty(s) ELSE Nearest(Strikes(chain'), s)
  BY DEF GetChain
<1>2. query'.expiry = e /\ query'.spot = s /\ query'.width = n /\ query'.today = t
  BY <1>1
<1>3. n \in Nat /\ t.weekday \in 0..6 /\ t.length \in Nat /\ t.date \in 1..t.length
  BY OptionChainAssumption
<1>4. chain' = FilterStrikes(offered, s, n)
  <2>1. DbMatches(q) = IF e = NoExpiry THEN d ELSE {}
    BY <1>1 DEF DbMatches
  <2> HIDE DEF q
  <2> QED
    BY <1>1, <2>1
<1>5. /\ IsFiniteSet(offered) /\ offered \subseteq a \cup d
      /\ \A c \in offered : c.strike \in Nat
  <2>1. IsFiniteSet({}) /\ IsFiniteSet(a) /\ IsFiniteSet(d)
    BY OptionChainAssumption, FS_EmptySet
  <2>2. \A c \in a \cup d : c.strike \in Nat
    BY OptionChainAssumption
  <2> HIDE DEF q
  <2> QED
    BY <2>1, <2>2
<1>6. offered = IF cameFrom' = "api" THEN api' ELSE IF query'.expiry = NoExpiry THEN db' ELSE {}
  <2> HIDE DEF q
  <2> QED
    BY <1>1, <1>2
<1>7. chain' \subseteq offered /\ (offered = {} => chain' = {})
  <2> HIDE DEF offered
  <2> QED
    BY <1>4 DEF FilterStrikes
<1>8. s # NoSpot => s \in Nat
  BY OptionChainAssumption
<1>9. ASSUME s # NoSpot, offered = {}
      PROVE  /\ chain' = {} /\ (n = 1 => Distance(atm', s) <= 25)
             /\ atm' \in Nat \cup {-1}
  <2>1. atm' = IF n # 1 THEN -1 ELSE RoundFifty(s)
    BY <1>1, <1>7, <1>9
  <2> QED
    BY <1>7, <1>8, <1>9, <2>1, RoundFiftyFacts
<1>10. ASSUME s # NoSpot, offered # {}
       PROVE  /\ mid \in ks
              /\ \A k \in Strikes(offered) : Distance(mid, s) <= Distance(k, s)
              /\ \A flank \in {below, above} : Cardinality(flank) <= n
              /\ \A c \in offered \ chain' :
                   \/ c.strike < Min(ks) /\ Cardinality(below) = n
                   \/ c.strike > Max(ks) /\ Cardinality(above) = n
              /\ atm' \in Nat \cup {-1}
  <2> DEFINE m == Nearest(Strikes(offered), s)
             under == {k \in ks : k < m}
             over == {k \in ks : k > m}
  <2>1. /\ m \in ks /\ Nearest(ks, s) = m
        /\ \A k \in Strikes(offered) : Nearer(m, k, s)
        /\ Cardinality(under) <= n /\ Cardinality(over) <= n
        /\ \A c \in offered \ chain' :
             \/ c.strike < Min(ks) /\ Cardinality(under) = n
             \/ c.strike > Max(ks) /\ Cardinality(over) = n
    <3> HIDE DEF offered
    <3>1. IsFiniteSet(offered) /\ offered # {} /\ s \in Nat /\ s # NoSpot /\ n \in Nat
          /\ \A c \in offered : c.strike \in Nat
      BY <1>3, <1>5, <1>8, <1>10
    <3>2. Around(chain', offered, s, n)
      BY <1>4, <3>1, FilterFacts
    <3> QED
      BY <3>2, Zenon DEF Around
  <2>2. mid = m
    <3>1. chain' # {}
      <4> HIDE DEF m, offered
      <4> QED
        BY <2>1 DEF Strikes
    <3>2. n = 1 => atm' = Nearest(ks, s)
      BY <1>1, <1>10, <3>1
    <3> HIDE DEF m, ks
    <3> QED
      BY <2>1, <3>2
  <2>3. below = under /\ above = over
    <3> HIDE DEF ks, m, mid
    <3> QED
      BY <2>2
  <2>4. m \in Nat /\ \A k \in Strikes(offered) : k \in Nat
    <3> HIDE DEF offered, m
    <3>1. \A k \in Strikes(offered) : k \in Nat
      BY <1>5 DEF Strikes
    <3>2. ks \subseteq Strikes(offered)
      BY <1>7 DEF Strikes
    <3> QED
      BY <2>1, <3>1, <3>2
  <2>5. \A k \in Strikes(offered) : Distance(m, s) <= Distance(k, s)
    <3> SUFFICES ASSUME NEW k \in Strikes(offered) PROVE Distance(m, s) <= Distance(k, s)
      OBVIOUS
    <3>1. Nearer(m, k, s) /\ m \in Nat /\ k \in Nat
      BY <2>1, <2>4
    <3> HIDE DEF m, offered
    <3>2. Distance(m, s) \in Nat /\ Distance(k, s) \in Nat
      BY <1>8, <1>10, <3>1, DistanceType
    <3> QED
      BY <3>1, <3>2 DEF Nearer
  <2>6. atm' \in Nat \cup {-1}
    <3>1. atm' = -1 \/ atm' = mid
      BY <1>1, <1>10
    <3> HIDE DEF m, mid
    <3> QED
      BY <2>2, <2>4, <3>1
  <2>7. \A flank \in {below, above} : Cardinality(flank) <= n
    <3> HIDE DEF below, above, under, over
    <3> QED
      BY <2>1, <2>3
  <2>8. \A c \in offered \ chain' :
             \/ c.strike < Min(ks) /\ Cardinality(below) = n
             \/ c.strike > Max(ks) /\ Cardinality(above) = n
    <3> HIDE DEF below, above, under, over, ks, offered
    <3> QED
      BY <2>1, <2>3
  <2> HIDE DEF mid, m, ks, below, above, offered
  <2> QED
    BY <2>1, <2>2, <2>5, <2>6, <2>7, <2>8
<1>11. Cardinality({c.expiry : c \in chain'}) > 1 => cameFrom' = "db" /\ e = NoExpiry
  <2>1. CASE FromApi(q)
    <3>1. offered = a
      <4> HIDE DEF q
      <4> QED
        BY <2>1
    <3>2. IsFiniteSet(a) /\ Cardinality({c.expiry : c \in a}) <= 1
      BY <1>1, OptionChainAssumption DEF ApiAnswer
    <3> HIDE DEF offered
    <3> QED
      BY <1>7, <3>1, <3>2, FewExpiries
  <2>2. CASE ~FromApi(q) /\ e # NoExpiry
    <3>1. offered = {}
      <4> HIDE DEF q
      <4> QED
        BY <2>2
    <3>2. {c.expiry : c \in chain'} = {} /\ Cardinality({}) = 0 /\ ~(0 > 1)
      BY <1>7, <3>1, FS_EmptySet
    <3> HIDE DEF offered
    <3> QED
      BY <3>2
  <2>3. CASE ~FromApi(q) /\ e = NoExpiry
    <3>1. cameFrom' = "db"
      <4> HIDE DEF q
      <4> QED
        BY <1>1, <2>3
    <3> QED
      BY <2>3, <3>1
  <2> QED
    BY <2>1, <2>2, <2>3
<1>12. e # NoExpiry => \A c \in chain' : c.expiry = e
  <2> SUFFICES ASSUME e # NoExpiry PROVE \A c \in chain' : c.expiry = e
    OBVIOUS
  <2>1. \A c \in a : c.expiry = e
    BY <1>1 DEF ApiAnswer
  <2>2. offered \subseteq a
    <3> HIDE DEF q
    <3> QED
      OBVIOUS
  <2> HIDE DEF offered
  <2> QED
    BY <1>7, <2>1, <2>2
<1>13. cameFrom' = "db" /\ ~apiFails' => e = NoExpiry /\ t.date + 7 > t.length
  <2> SUFFICES ASSUME cameFrom' = "db", ~apiFails' PROVE e = NoExpiry /\ t.date + 7 > t.length
    OBVIOUS
  <2>1. ~FromApi(q)
    <3> HIDE DEF q
    <3> QED
      BY <1>1
  <2>2. e = NoExpiry /\ ExpiryRaises(t)
    BY <2>1 DEF FromApi
  <2>3. DaysToThursday(t) \in 0..7
    BY <1>3 DEF DaysToThursday
  <2> QED
    BY <1>3, <2>2, <2>3 DEF ExpiryRaises
<1>14. ChainTypeOK'
  <2>1. chain' \subseteq api' \cup db'
    <3> HIDE DEF offered
    <3> QED
      BY <1>1, <1>5, <1>7
  <2>2. cameFrom' \in {"", "api", "db"}
    <3> HIDE DEF q
    <3> QED
      BY <1>1, Zenon
  <2>3. atm' \in Nat \cup {-1}
    <3>1. s = NoSpot => atm' = -1
      BY <1>1
    <3> HIDE DEF offered
    <3> QED
      BY <1>9, <1>10, <3>1
  <2> QED
    BY <1>2, <2>1, <2>2, <2>3, Zenon DEF ChainTypeOK
<1>15. ChainSound'
  <2> HIDE DEF q, offered
  <2>1. query'.spot # NoSpot =>
          IF offered = {} THEN chain' = {} /\ (query'.width = 1 => Distance(atm', query'.spot) <= 25)
          ELSE /\ mid \in ks
               /\ \A k \in Strikes(offered) : Distance(mid, query'.spot) <= Distance(k, query'.spot)
               /\ \A flank \in {below, above} : Cardinality(flank) <= query'.width
               /\ \A c \in offered \ chain' :
                    \/ c.strike < Min(ks) /\ Cardinality(below) = query'.width
                    \/ c.strike > Max(ks) /\ Cardinality(above) = query'.width
    <3> HIDE DEF mid, ks, below, above
    <3> QED
      BY <1>2, <1>9, <1>10, Zenon
  <2>2. mid = IF query'.width = 1 THEN atm' ELSE Nearest(ks, query'.spot)
    BY <1>2
  <2> QED
    BY <1>2, <1>6, <1>11, <1>12, <1>13, <2>1, <2>2, Zenon DEF ChainSound
<1> QED
  BY <1>14, <1>15 DEF ChainInv

LEMMA NextChain == ChainInv /\ [ChainNext]_chainVars => ChainInv'
<1> SUFFICES ASSUME ChainInv, [ChainNext]_chainVars PROVE ChainInv'
  OBVIOUS
<1>1. CASE UNCHANGED chainVars
  <2>1. /\ query' = query /\ api' = api /\ db' = db /\ apiFails' = apiFails
        /\ chain' = chain /\ cameFrom' = cameFrom /\ atm' = atm
    BY <1>1 DEF chainVars
  <2>2. ChainTypeOK'
    BY <2>1, Zenon DEF ChainInv, ChainTypeOK
  <2>3. ChainSound'
    BY <2>1, Zenon DEF ChainInv, ChainSound
  <2> QED
    BY <2>2, <2>3 DEF ChainInv
<1>2. CASE ChainNext
  BY <1>2, GetChainStep, Zenon DEF ChainNext
<1> QED
  BY <1>1, <1>2

-----------------------------------------------------------------------------
(* The sizers (Sizing): what is asked for and what is given of it.          *)

\* A quotient is the largest number whose product stays within the dividend.
LEMMA QuotientIsLargest ==
  ASSUME NEW a \in Nat, NEW b \in Nat \ {0}, NEW n \in Nat
  PROVE  n * b <= a <=> n <= a \div b
<1> DEFINE k == a \div b
           r == a % b
<1>1. k \in Nat /\ a = b * k + r /\ r \in Nat /\ r < b
  OBVIOUS
<1> HIDE DEF k, r
<1>2. b * k = k * b /\ b * n = n * b /\ n * b \in Nat /\ k * b \in Nat
  BY <1>1
<1>3. CASE n <= k
  <2>1. b * n <= b * k
    BY <1>1, <1>3, ProductGrows
  <2> QED
    BY <1>1, <1>2, <1>3, <2>1 DEF k
<1>4. CASE ~(n <= k)
  <2>1. k + 1 <= n
    BY <1>1, <1>4
  <2>2. b * (k + 1) <= b * n
    BY <1>1, <2>1, ProductGrows
  <2>3. b * (k + 1) = b * k + b
    BY <1>1
  <2> QED
    BY <1>1, <1>2, <1>4, <2>2, <2>3 DEF k
<1> QED
  BY <1>3, <1>4

\* What is left after whole lots are taken is not a whole lot.
LEMMA WholeLots ==
  ASSUME NEW q \in Nat, NEW l \in Nat \ {0}
  PROVE  (q * l) % l = 0
<1> DEFINE k == (q * l) \div l
           r == (q * l) % l
<1>1. q * l \in Nat
  OBVIOUS
<1>2. k \in Nat /\ q * l = l * k + r /\ r \in Nat /\ r < l
  BY <1>1
<1>3. q <= k
  <2>1. q * l <= q * l
    BY <1>1
  <2> QED
    BY <1>1, <2>1, QuotientIsLargest
<1> HIDE DEF k, r
<1>4. l * q <= l * k
  BY <1>2, <1>3, ProductGrows
<1>5. l * q = q * l /\ l * k \in Nat
  BY <1>2
<1> QED
  BY <1>1, <1>2, <1>4, <1>5 DEF r

\* Factors may be compared without a common one.
LEMMA FactorOut ==
  ASSUME NEW m \in Nat \ {0}, NEW a \in Int, NEW b \in Int, m * a <= m * b
  PROVE  a <= b
<1> SUFFICES ASSUME b + 1 <= a PROVE FALSE
  OBVIOUS
<1>1. m * (b + 1) <= m * a
  BY ProductGrows
<1>2. m * (b + 1) = m * b + m /\ m * b \in Int /\ m * a \in Int
  OBVIOUS
<1> QED
  BY <1>1, <1>2

\* size() gives as many as cost no more than a tenth of the capital and no more
\* than the bet num/den of it.
LEMMA SizeIsLargest ==
  ASSUME NEW P \in Nat \ {0}, NEW c \in Nat, NEW num \in Nat, NEW den \in Nat \ {0},
         NEW n \in Nat
  PROVE  LET whole == IF 10 * num > den THEN c \div (10 * P) ELSE (num * c) \div (den * P)
         IN  /\ whole \in Nat
             /\ n <= whole <=> n * (10 * P) <= c /\ n * (den * P) <= num * c
<1>1. 10 * P \in Nat \ {0} /\ den * P \in Nat \ {0} /\ num * c \in Nat
  OBVIOUS
<1>2. CASE 10 * num > den
  <2>1. ASSUME n * (10 * P) <= c PROVE n * (den * P) <= num * c
    <3>1. den * (n * (10 * P)) <= den * c
      BY <2>1, <1>1, ProductGrows
    <3>2. c * den <= c * (10 * num)
      BY <1>2, ProductGrows
    <3>3. den * (n * (10 * P)) = 10 * (n * (den * P)) /\ c * (10 * num) = 10 * (num * c)
          /\ c * den = den * c /\ n * (den * P) \in Nat
      BY <1>1
    <3> QED
      BY <1>1, <3>1, <3>2, <3>3
  <2>2. n * (10 * P) <= c <=> n <= c \div (10 * P)
    BY <1>1, QuotientIsLargest
  <2>3. c \div (10 * P) \in Nat
    BY <1>1, PartFacts
  <2> QED
    BY <1>2, <2>1, <2>2, <2>3
<1>3. CASE ~(10 * num > den)
  <2>1. ASSUME n * (den * P) <= num * c PROVE n * (10 * P) <= c
    <3>1. 10 * (n * (den * P)) <= 10 * (num * c)
      BY <2>1, <1>1
    <3>2. c * (10 * num) <= c * den
      BY <1>3, ProductGrows
    <3>3. 10 * (n * (den * P)) = den * (n * (10 * P)) /\ c * (10 * num) = 10 * (num * c)
          /\ c * den = den * c /\ n * (10 * P) \in Nat
      BY <1>1
    <3>4. den * (n * (10 * P)) <= den * c
      BY <3>1, <3>2, <3>3, <1>1
    <3> QED
      BY <3>3, <3>4, FactorOut
  <2>2. n * (den * P) <= num * c <=> n <= (num * c) \div (den * P)
    BY <1>1, QuotientIsLargest
  <2>3. (num * c) \div (den * P) \in Nat
    BY <1>1, PartFacts
  <2> QED
    BY <1>3, <2>1, <2>2, <2>3
<1> QED
  BY <1>2, <1>3

\* The fraction half Kelly bets, and the scalar it is multiplied with.
LEMMA KellyFacts ==
  ASSUME NEW e \in Edges
  PROVE  LET k == Kelly(e) IN
         /\ k.num \in Int
         /\ k.num > 0 => /\ k.den = 100 * e.avg_win /\ k.den \in Nat \ {0}
                         /\ e.avg_win \in Nat \ {0}
                         /\ e.win_rate * e.avg_win > (100 - e.win_rate) * e.avg_loss
                         /\ k.num <= e.win_rate * e.avg_win
<1>1. e.win_rate \in Nat /\ 100 - e.win_rate \in Nat /\ e.avg_win \in Nat /\ e.avg_loss \in Nat
  BY SizingAssumption
<1> DEFINE won == e.win_rate * e.avg_win
           lost == (100 - e.win_rate) * e.avg_loss
<1>2. won \in Nat /\ lost \in Nat
  BY <1>1
<1>3. CASE e.avg_win = 0 \/ e.avg_loss = 0
  <2>1. Kelly(e) = [num |-> -1, den |-> 1]
    BY <1>3 DEF Kelly
  <2> QED
    BY <2>1
<1>4. CASE ~(e.avg_win = 0 \/ e.avg_loss = 0)
  <2>1. Kelly(e) = [num |-> won - lost, den |-> 100 * e.avg_win]
    BY <1>4 DEF Kelly
  <2> HIDE DEF won, lost
  <2>2. Kelly(e).num = won - lost /\ Kelly(e).den = 100 * e.avg_win
    BY <2>1
  <2>3. 100 * e.avg_win \in Nat \ {0} /\ e.avg_win \in Nat \ {0}
    BY <1>1, <1>4
  <2>4. won - lost \in Int /\ won - lost <= won /\ (won - lost > 0 => won > lost)
    BY <1>2
  <2> QED
    BY <2>2, <2>3, <2>4 DEF won, lost
<1> QED
  BY <1>3, <1>4

\* The scalar of the volatility is a positive fraction, a half for an ATR of 0: no less
\* up to twice the target, no more above it.
LEMMA ScalarFacts ==
  ASSUME NEW atr \in Nat \cup {NoAtr}
  PROVE  LET s == VolScalar(atr) IN
         /\ s.num \in Nat \ {0} /\ s.den \in Nat \ {0}
         /\ atr = 0 => s.num = 1 /\ s.den = 2
         /\ atr # NoAtr /\ atr <= 200 => s.den <= 2 * s.num
         /\ atr = NoAtr \/ atr >= 200 => 2 * s.num <= s.den
<1>1. atr \in Nat \/ atr = NoAtr
  OBVIOUS
<1>2. NoAtr # 0
  BY SizingAssumption
<1>3. CASE atr = 0
  BY <1>2, <1>3 DEF VolScalar
<1>4. CASE atr # 0 /\ (atr = NoAtr \/ atr > 400)
  <2>1. VolScalar(atr) = [num |-> 1, den |-> 4]
    BY <1>4 DEF VolScalar
  <2>2. atr = NoAtr \/ ~(atr <= 200)
    BY <1>1, <1>4
  <2> QED
    BY <1>4, <2>1, <2>2
<1>5. CASE atr # 0 /\ ~(atr = NoAtr \/ atr > 400)
  BY <1>1, <1>5 DEF VolScalar
<1> QED
  BY <1>3, <1>4, <1>5

\* What size() gives costs no more than a tenth of the capital c, and no more than
\* half of the bet k.num/k.den times the scalar.
Costs10(n, P, c, e, atr) ==
  LET k == Kelly(e) s == VolScalar(atr) IN
  /\ n * (10 * P) <= c
  /\ n * ((2 * k.den * s.den) * P) <= (k.num * s.num) * c

\* It is 0, or the largest number of whole lots within that.
LEMMA SizeFacts ==
  ASSUME NEW P \in Nat, NEW e \in Edges, NEW atr \in Nat \cup {NoAtr},
         NEW c \in Nat, NEW lot \in Nat \ {0}
  PROVE  LET n == Size(P, e, atr, c, lot) IN
         /\ n \in Nat /\ n % lot = 0
         /\ P = 0 \/ Kelly(e).num <= 0 => n = 0
         /\ P # 0 /\ Kelly(e).num > 0 =>
              /\ Costs10(n, P, c, e, atr)
              /\ \A q \in Nat : Costs10(q * lot, P, c, e, atr) => q * lot <= n
<1> DEFINE k == Kelly(e)
           s == VolScalar(atr)
           num == k.num * s.num
           den == 2 * k.den * s.den
           whole == IF 10 * num > den THEN c \div (10 * P) ELSE (num * c) \div (den * P)
<1>1. CASE P = 0 \/ k.num <= 0
  <2>1. Size(P, e, atr, c, lot) = 0
    BY <1>1 DEF Size
  <2>2. 0 % lot = 0
    <3>1. 0 * lot = 0
      OBVIOUS
    <3> QED
      BY <3>1, WholeLots
  <2>3. k.num \in Int
    BY KellyFacts
  <2> QED
    BY <1>1, <2>1, <2>2, <2>3
<1>2. CASE ~(P = 0 \/ k.num <= 0)
  <2>1. Size(P, e, atr, c, lot) = (whole \div lot) * lot
    BY <1>2 DEF Size
  <2>2. k.num \in Nat \ {0} /\ k.den \in Nat \ {0}
    BY <1>2, KellyFacts
  <2>3. s.num \in Nat \ {0} /\ s.den \in Nat \ {0}
    BY ScalarFacts
  <2> HIDE DEF k, s
  <2>4. num \in Nat /\ den \in Nat \ {0} /\ P \in Nat \ {0}
    BY <1>2, <2>2, <2>3
  <2> HIDE DEF num, den
  <2>5. \A n \in Nat : /\ whole \in Nat
                       /\ n <= whole <=> n * (10 * P) <= c /\ n * (den * P) <= num * c
    BY <2>4, SizeIsLargest
  <2> HIDE DEF whole
  <2>6. \A n \in Nat : n <= whole <=> Costs10(n, P, c, e, atr)
    BY <2>5 DEF Costs10, num, den, k, s
  <2>7. whole \in Nat
    BY <2>5
  <2> DEFINE lots == whole \div lot
  <2>8. lots \in Nat /\ lots * lot <= whole
    BY <2>7, PartFacts
  <2>9. \A q \in Nat : q * lot <= whole => q <= lots
    BY <2>7, QuotientIsLargest
  <2> HIDE DEF lots
  <2>10. lots * lot \in Nat /\ (lots * lot) % lot = 0
    BY <2>8, WholeLots
  <2>11. ASSUME NEW q \in Nat, Costs10(q * lot, P, c, e, atr) PROVE q * lot <= lots * lot
    <3>1. q * lot \in Nat
      OBVIOUS
    <3>2. q <= lots
      BY <2>6, <2>9, <2>11, <3>1
    <3>3. lot * q <= lot * lots
      BY <2>8, <3>2, ProductGrows
    <3> QED
      BY <2>8, <3>3
  <2>12. Costs10(lots * lot, P, c, e, atr)
    BY <2>6, <2>8, <2>10
  <2>13. Size(P, e, atr, c, lot) = lots * lot
    BY <2>1 DEF lots
  <2>14. ~(P = 0) /\ ~(Kelly(e).num <= 0)
    BY <1>2 DEF k
  <2> QED
    BY <2>10, <2>11, <2>12, <2>13, <2>14, Zenon
<1> QED
  BY <1>1, <1>2

\* More capital, or a larger scalar, allows at least as much.
LEMMA AllowsMore ==
  ASSUME NEW P \in Nat \ {0}, NEW e \in Edges, Kelly(e).num > 0,
         NEW a \in Nat \cup {NoAtr}, NEW b \in Nat \cup {NoAtr},
         NEW c \in Nat, NEW d \in Nat, c <= d,
         VolScalar(a).num * VolScalar(b).den <= VolScalar(b).num * VolScalar(a).den,
         NEW n \in Nat, Costs10(n, P, c, e, a)
  PROVE  Costs10(n, P, d, e, b)
<1> DEFINE k == Kelly(e)
           s == VolScalar(a)
           t == VolScalar(b)
           sn == s.num
           sd == s.den
           tn == t.num
           td == t.den
           kn == k.num
           kd == k.den
<1>1. kn \in Nat /\ kd \in Nat \ {0}
  BY KellyFacts
<1>2. sn \in Nat /\ sd \in Nat \ {0} /\ tn \in Nat /\ td \in Nat \ {0}
  BY ScalarFacts
<1>3. n * (10 * P) <= c /\ n * ((2 * kd * sd) * P) <= (kn * sn) * c /\ sn * td <= tn * sd
  BY DEF Costs10
<1> HIDE DEF sn, sd, tn, td, kn, kd
<1>4. n * (10 * P) <= d
  <2>1. n * (10 * P) \in Nat
    OBVIOUS
  <2> QED
    BY <1>3, <2>1
<1> DEFINE x == n * ((2 * kd * td) * P)
           y == (kn * tn) * d
<1>5. td * (n * ((2 * kd * sd) * P)) <= td * ((kn * sn) * c)
  <2>1. n * ((2 * kd * sd) * P) \in Int /\ (kn * sn) * c \in Int
    BY <1>1, <1>2
  <2> QED
    BY <1>2, <1>3, <2>1, ProductGrows
<1>6. (kn * c) * (sn * td) <= (kn * c) * (tn * sd)
  <2>1. kn * c \in Nat /\ sn * td \in Int /\ tn * sd \in Int
    BY <1>1, <1>2
  <2> QED
    BY <1>3, <2>1, ProductGrows
<1>7. (kn * tn * sd) * c <= (kn * tn * sd) * d
  <2>1. kn * tn * sd \in Nat
    BY <1>1, <1>2
  <2> QED
    BY <2>1, ProductGrows
<1>8. /\ td * (n * ((2 * kd * sd) * P)) = sd * x
      /\ td * ((kn * sn) * c) = (kn * c) * (sn * td)
      /\ (kn * c) * (tn * sd) = (kn * tn * sd) * c
      /\ (kn * tn * sd) * d = sd * y
  BY <1>1, <1>2
<1>9. x \in Int /\ y \in Int /\ sd * x \in Int /\ sd * y \in Int
      /\ (kn * c) * (sn * td) \in Int /\ (kn * c) * (tn * sd) \in Int
  BY <1>1, <1>2
<1>10. sd * x <= sd * y
  <2> HIDE DEF x, y
  <2> QED
    BY <1>5, <1>6, <1>7, <1>8, <1>9
<1>11. x <= y
  <2> HIDE DEF x, y
  <2> QED
    BY <1>2, <1>9, <1>10, FactorOut
<1> QED
  BY <1>4, <1>11 DEF Costs10, sn, sd, tn, td, kn, kd

\* So the sizer gives at least as much.
LEMMA SizeGrows ==
  ASSUME NEW P \in Nat, NEW e \in Edges, NEW lot \in Nat \ {0},
         NEW a \in Nat \cup {NoAtr}, NEW b \in Nat \cup {NoAtr},
         NEW c \in Nat, NEW d \in Nat, c <= d,
         VolScalar(a).num * VolScalar(b).den <= VolScalar(b).num * VolScalar(a).den
  PROVE  Size(P, e, a, c, lot) <= Size(P, e, b, d, lot)
<1>a. /\ Size(P, e, a, c, lot) \in Nat /\ Size(P, e, a, c, lot) % lot = 0
      /\ P = 0 \/ Kelly(e).num <= 0 => Size(P, e, a, c, lot) = 0
      /\ P # 0 /\ Kelly(e).num > 0 => Costs10(Size(P, e, a, c, lot), P, c, e, a)
  BY SizeFacts, ZenonT(60)
<1>b. /\ Size(P, e, b, d, lot) \in Nat
      /\ P # 0 /\ Kelly(e).num > 0 =>
           \A q \in Nat : Costs10(q * lot, P, d, e, b) => q * lot <= Size(P, e, b, d, lot)
  BY SizeFacts
<1> DEFINE m == Size(P, e, a, c, lot)
           n == Size(P, e, b, d, lot)
<1>1. m \in Nat /\ n \in Nat
  BY <1>a, <1>b
<1>2. CASE P = 0 \/ Kelly(e).num <= 0
  <2>1. m = 0
    BY <1>2, <1>a
  <2> HIDE DEF m, n
  <2>2. m <= n
    BY <1>1, <2>1
  <2> QED
    BY <2>2 DEF m, n
<1>3. CASE P # 0 /\ Kelly(e).num > 0
  <2>1. Costs10(m, P, c, e, a) /\ m % lot = 0
    BY <1>3, <1>a
  <2>2. Costs10(m, P, d, e, b)
    BY <1>1, <1>3, <2>1, AllowsMore
  <2>3. m = (m \div lot) * lot /\ m \div lot \in Nat
    <3> HIDE DEF m
    <3>1. m = lot * (m \div lot) + (m % lot) /\ m \div lot \in Nat
      BY <1>1
    <3> QED
      BY <2>1, <3>1
  <2>4. \A q \in Nat : Costs10(q * lot, P, d, e, b) => q * lot <= n
    BY <1>3, <1>b
  <2> HIDE DEF m, n
  <2>5. Costs10((m \div lot) * lot, P, d, e, b) => (m \div lot) * lot <= n
    BY <2>3, <2>4
  <2>6. m <= n
    BY <2>2, <2>3, <2>5
  <2> QED
    BY <2>6 DEF m, n
<1> QED
  <2>1. Kelly(e).num \in Int
    BY KellyFacts
  <2> QED
    BY <1>2, <1>3, <2>1

\* What the sizers gave is what they give for what they were asked.
KellyAnswered ==
  demand.sizer = "kelly" =>
    \E price \in UnitPrices, e \in Edges, a \in Atrs \cup {NoAtr} :
      \E c \in Purses, l \in LotSizes :
        /\ demand = [sizer |-> "kelly", price |-> price, edge |-> e, atr |-> a,
                     capital |-> c, lot |-> l]
        /\ sized = Size(price, e, a, c, l)

\* A size by Kelly's rule is safe: it is the largest number of lots below the caps.
LEMMA KellyIsSafe == KellyAnswered => KellySafe
<1> SUFFICES ASSUME KellyAnswered, demand.sizer = "kelly" PROVE KellySafe
  BY DEF KellySafe
<1>1. PICK P \in UnitPrices, e \in Edges, a \in Atrs \cup {NoAtr} :
        \E c \in Purses, l \in LotSizes :
          /\ demand = [sizer |-> "kelly", price |-> P, edge |-> e, atr |-> a,
                       capital |-> c, lot |-> l]
          /\ sized = Size(P, e, a, c, l)
  BY DEF KellyAnswered
<1>2. PICK c \in Purses, l \in LotSizes :
        /\ demand = [sizer |-> "kelly", price |-> P, edge |-> e, atr |-> a,
                     capital |-> c, lot |-> l]
        /\ sized = Size(P, e, a, c, l)
  BY <1>1
<1>3. /\ demand.price = P /\ demand.edge = e /\ demand.atr = a
      /\ demand.capital = c /\ demand.lot = l
  BY <1>2
<1>4. P \in Nat /\ c \in Nat /\ l \in Nat \ {0} /\ a \in Nat \cup {NoAtr}
      /\ \A x \in Purses : x \in Nat
  BY SizingAssumption
<1> DEFINE s == VolScalar(a)
           value == sized * P
<1>5. s.num \in Nat \ {0} /\ s.den \in Nat \ {0}
  BY <1>4, ScalarFacts
<1>6. sized \in Nat /\ sized % l = 0 /\ (P = 0 \/ Kelly(e).num <= 0 => sized = 0)
  BY <1>2, <1>4, SizeFacts, ZenonT(60)
<1>7. P # 0 /\ Kelly(e).num > 0 => Costs10(sized, P, c, e, a)
  BY <1>2, <1>4, SizeFacts
<1>8. Kelly(e).num \in Int /\ e.win_rate \in Nat /\ e.avg_win \in Nat
  BY KellyFacts, SizingAssumption
<1>9. 10 * value <= c
  <2>1. CASE P = 0 \/ Kelly(e).num <= 0
    <3>1. sized * P = 0
      BY <1>4, <1>6, <2>1
    <3> QED
      BY <1>4, <3>1
  <2>2. CASE P # 0 /\ Kelly(e).num > 0
    <3>1. sized * (10 * P) <= c
      BY <1>7, <2>2 DEF Costs10
    <3>2. sized * (10 * P) = 10 * (sized * P)
      BY <1>4, <1>6
    <3> QED
      BY <3>1, <3>2
  <2> QED
    BY <1>8, <2>1, <2>2
<1>10. sized > 0 => e.win_rate * e.avg_win > (100 - e.win_rate) * e.avg_loss
  <2>1. sized > 0 => Kelly(e).num > 0
    BY <1>6, <1>8
  <2> QED
    BY <2>1, KellyFacts
<1>11. 200 * value * s.den <= c * e.win_rate * s.num
  <2> DEFINE sn == s.num
             sd == s.den
             w == e.win_rate
             g == e.avg_win
             k == Kelly(e).num
  <2>0. sn \in Nat /\ sd \in Nat /\ w \in Nat /\ g \in Nat /\ k \in Int
    BY <1>5, <1>8
  <2>1. CASE P = 0 \/ k <= 0
    <3>1. sized * P = 0
      BY <1>4, <1>6, <2>1
    <3>2. c * w * sn \in Nat
      BY <1>4, <2>0
    <3>3. 200 * value * sd = 0
      BY <2>0, <3>1
    <3> QED
      BY <3>2, <3>3
  <2>2. CASE P # 0 /\ k > 0
    <3>1. sized * ((2 * Kelly(e).den * sd) * P) <= (k * sn) * c
      BY <1>7, <2>2 DEF Costs10
    <3>2. Kelly(e).den = 100 * g /\ g \in Nat \ {0} /\ k <= w * g
      BY <2>2, KellyFacts
    <3> HIDE DEF sn, sd, w, g, k
    <3>3. (sn * c) * k <= (sn * c) * (w * g)
      <4>1. sn * c \in Nat /\ w * g \in Int
        BY <1>4, <2>0
      <4> QED
        BY <2>0, <3>2, <4>1, ProductGrows
    <3>4. sized * ((2 * (100 * g) * sd) * P) = g * (200 * (sized * P) * sd)
      BY <1>4, <1>6, <2>0
    <3>5. (k * sn) * c = (sn * c) * k /\ (sn * c) * (w * g) = g * (c * w * sn)
      BY <1>4, <2>0
    <3> DEFINE x == 200 * (sized * P) * sd
               y == c * w * sn
    <3>6. x \in Int /\ y \in Int /\ g * x \in Int /\ g * y \in Int /\ (sn * c) * k \in Int
      BY <1>4, <1>6, <2>0
    <3> HIDE DEF x, y
    <3>7. g * x <= (sn * c) * k
      BY <3>1, <3>2, <3>4, <3>5 DEF x
    <3>8. (sn * c) * k <= g * y
      BY <3>3, <3>5 DEF y
    <3>9. g * x <= g * y
      BY <3>6, <3>7, <3>8
    <3>10. x <= y
      BY <3>2, <3>6, <3>9, FactorOut
    <3> QED
      BY <3>10 DEF x, y, sn, sd, w
  <2> QED
    BY <2>0, <2>1, <2>2
<1>12. a # NoAtr /\ a <= 200 => Size(P, e, 0, c, l) <= sized
  <2> SUFFICES ASSUME a # NoAtr, a <= 200 PROVE Size(P, e, 0, c, l) <= sized
    OBVIOUS
  <2>1. s.den <= 2 * s.num /\ VolScalar(0).num = 1 /\ VolScalar(0).den = 2
    <3>1. 0 \in Nat \cup {NoAtr} /\ NoAtr # 0 /\ 0 <= 200
      BY SizingAssumption
    <3>2. VolScalar(0).num = 1 /\ VolScalar(0).den = 2
      BY <3>1, ScalarFacts
    <3> QED
      BY <1>4, <3>2, ScalarFacts
  <2>2. VolScalar(0).num * s.den <= s.num * VolScalar(0).den
    <3> HIDE DEF s
    <3> QED
      BY <1>5, <2>1
  <2> QED
    BY <1>2, <1>4, <2>2, SizeGrows
<1>13. a = NoAtr \/ a >= 200 => sized <= Size(P, e, 0, c, l)
  <2> SUFFICES ASSUME a = NoAtr \/ a >= 200 PROVE sized <= Size(P, e, 0, c, l)
    OBVIOUS
  <2>1. 2 * s.num <= s.den /\ VolScalar(0).num = 1 /\ VolScalar(0).den = 2
    <3>1. 0 \in Nat \cup {NoAtr} /\ NoAtr # 0 /\ 0 <= 200
      BY SizingAssumption
    <3>2. VolScalar(0).num = 1 /\ VolScalar(0).den = 2
      BY <3>1, ScalarFacts
    <3> QED
      BY <1>4, <3>2, ScalarFacts
  <2>2. s.num * VolScalar(0).den <= VolScalar(0).num * s.den
    <3> HIDE DEF s
    <3> QED
      BY <1>5, <2>1
  <2> QED
    BY <1>2, <1>4, <2>2, SizeGrows
<1>14. \A x \in Purses : x <= c => Size(P, e, a, x, l) <= sized
  <2> SUFFICES ASSUME NEW x \in Purses, x <= c PROVE Size(P, e, a, x, l) <= sized
    OBVIOUS
  <2>1. s.num * s.den <= s.num * s.den
    <3> HIDE DEF s
    <3> QED
      BY <1>5
  <2> QED
    BY <1>2, <1>4, <2>1, SizeGrows
<1> QED
  BY <1>3, <1>6, <1>9, <1>10, <1>11, <1>12, <1>13, <1>14 DEF KellySafe

\* What was asked for of position_size() and of the runner.
RiskAnswered ==
  demand.sizer = "risk" =>
    \E price \in UnitPrices, stop \in Stops, c \in Purses :
      /\ demand = [sizer |-> "risk", price |-> price, stop |-> stop, capital |-> c]
      /\ LET qty == IF stop = 0 THEN 0 ELSE (c * RiskPct) \div (100 * stop)
         IN  risked = [qty |-> qty, within |-> 100 * qty * price <= ExposurePct * c]

\* A size by the stop is safe.
LEMMA StopIsSafe == RiskAnswered => StopSafe
<1> SUFFICES ASSUME RiskAnswered, demand.sizer = "risk" PROVE StopSafe
  BY DEF StopSafe
<1> DEFINE q(c, stop) == IF stop = 0 THEN 0 ELSE (c * RiskPct) \div (100 * stop)
<1>1. PICK P \in UnitPrices, stop \in Stops, c \in Purses :
        /\ demand = [sizer |-> "risk", price |-> P, stop |-> stop, capital |-> c]
        /\ risked = [qty |-> q(c, stop), within |-> 100 * q(c, stop) * P <= ExposurePct * c]
  BY DEF RiskAnswered
<1>2. /\ demand.price = P /\ demand.stop = stop /\ demand.capital = c
      /\ risked.qty = q(c, stop) /\ risked.within = (100 * q(c, stop) * P <= ExposurePct * c)
  BY <1>1
<1>3. P \in Nat /\ c \in Nat \ {0} /\ stop \in Nat /\ RiskPct \in Nat /\ ExposurePct \in Nat
  BY SizingAssumption
<1>4. c * RiskPct \in Nat
  BY <1>3
<1>5. CASE stop = 0
  <2>1. q(c, stop) = 0
    BY <1>5
  <2> HIDE DEF q
  <2>2. 100 * q(c, stop) * stop = 0 /\ 100 * q(c, stop) * P = 0
    BY <1>3, <2>1
  <2>3. ExposurePct * c \in Nat
    BY <1>3
  <2>4. risked.within
    <3>1. 100 * q(c, stop) * P <= ExposurePct * c
      BY <2>2, <2>3
    <3> QED
      BY <1>2, <3>1, Zenon
  <2> QED
    BY <1>2, <1>4, <1>5, <2>2, <2>4 DEF StopSafe
<1>6. CASE stop # 0
  <2> DEFINE b == 100 * stop
  <2>1. b \in Nat \ {0} /\ q(c, stop) = (c * RiskPct) \div b
    BY <1>3, <1>6
  <2> DEFINE n == q(c, stop)
  <2>2. n \in Nat /\ n * b <= c * RiskPct
    <3> HIDE DEF b
    <3> QED
      BY <1>4, <2>1, PartFacts
  <2>3. ~((n + 1) * b <= c * RiskPct)
    <3>1. n + 1 \in Nat /\ ~(n + 1 <= n)
      <4> HIDE DEF n
      <4> QED
        BY <2>2
    <3> HIDE DEF b, n
    <3>2. n = (c * RiskPct) \div b
      BY <2>1 DEF n
    <3> QED
      BY <1>4, <2>1, <3>1, <3>2, QuotientIsLargest
  <2> HIDE DEF n
  <2>4. 100 * n * stop = n * b /\ 100 * (n + 1) * stop = (n + 1) * b
    BY <1>3, <2>2
  <2>5. (n + 1) * b \in Int
    BY <1>3, <2>2
  <2>6. 100 * n * stop <= c * RiskPct /\ 100 * (n + 1) * stop > c * RiskPct
    BY <1>4, <2>2, <2>3, <2>4, <2>5
  <2>7. ~(100 * n * P <= ExposurePct * c) => P * RiskPct > stop * ExposurePct
    <3> SUFFICES ASSUME P * RiskPct <= stop * ExposurePct PROVE 100 * n * P <= ExposurePct * c
      BY <1>3
    <3>1. P * (100 * n * stop) <= P * (c * RiskPct)
      <4>1. 100 * n * stop \in Int
        BY <1>3, <2>2
      <4> QED
        BY <1>3, <1>4, <2>6, <4>1, ProductGrows
    <3>2. c * (P * RiskPct) <= c * (stop * ExposurePct)
      <4>1. P * RiskPct \in Int /\ stop * ExposurePct \in Int
        BY <1>3
      <4> QED
        BY <1>3, <4>1, ProductGrows
    <3> DEFINE x == 100 * n * P
               y == ExposurePct * c
    <3>3. P * (100 * n * stop) = stop * x /\ P * (c * RiskPct) = c * (P * RiskPct)
          /\ c * (stop * ExposurePct) = stop * y
      BY <1>3, <2>2
    <3>4. x \in Int /\ y \in Int /\ stop * x \in Int /\ stop * y \in Int /\ c * (P * RiskPct) \in Int
      BY <1>3, <2>2
    <3> HIDE DEF x, y
    <3>5. stop * x <= stop * y
      BY <3>1, <3>2, <3>3, <3>4
    <3>6. x <= y
      BY <1>3, <1>6, <3>4, <3>5, FactorOut
    <3> QED
      BY <3>6 DEF x, y
  <2>8. stop > 0
    BY <1>3, <1>6
  <2>9. risked.qty = n /\ risked.within = (100 * n * P <= ExposurePct * c)
    BY <1>2 DEF n
  <2> QED
    BY <1>2, <2>6, <2>7, <2>8, <2>9 DEF StopSafe
<1> QED
  BY <1>5, <1>6

-----------------------------------------------------------------------------

SizingInv == SizingTypeOK /\ KellyAnswered /\ RiskAnswered /\ RunnerSafe

LEMMA InitSizing == SizingInit => SizingInv
<1> SUFFICES ASSUME SizingInit PROVE SizingInv
  OBVIOUS
<1>1. /\ demand = NoRequest /\ sized = 0 /\ risked = [qty |-> 0, within |-> TRUE]
      /\ conflict_log = 0 /\ steps = 0
  BY DEF SizingInit
<1>2. views = [s \in Panel |-> ""] /\ result = "" /\ asked = NoAsk
  BY Zenon DEF SizingInit
<1>3. demand.sizer = "none"
  BY <1>1 DEF NoRequest
<1>4. KellyAnswered /\ RiskAnswered /\ RunnerSafe
  <2>1. demand.sizer # "kelly" /\ demand.sizer # "risk" /\ demand.sizer # "runner"
    BY <1>3
  <2> QED
    BY <2>1, Zenon DEF KellyAnswered, RiskAnswered, RunnerSafe
<1>5. views \in [Panel -> Views]
  BY <1>2, Zenon DEF Views
<1>6. asked.qty = 0 /\ asked.side = ""
  BY <1>2 DEF NoAsk
<1>7. sized \in Nat /\ risked.qty \in Nat /\ conflict_log \in 0..steps /\ steps \in 0..MaxSteps
  BY <1>1, SizingAssumption
<1>8. risked.within \in BOOLEAN
  BY <1>1, Zenon
<1>9. SizingTypeOK
  <2>1. 0 \in Nat
    OBVIOUS
  <2> QED
    BY <1>2, <1>5, <1>6, <1>7, <1>8, <2>1, Zenon DEF SizingTypeOK
<1> QED
  BY <1>4, <1>9 DEF SizingInv

LEMMA SizedQtyStep ==
  ASSUME SizingInv, NEW P \in UnitPrices, NEW e \in Edges, NEW a \in Atrs \cup {NoAtr},
         NEW c \in Purses, NEW l \in LotSizes, SizedQty(P, e, a, c, l)
  PROVE  sized' \in Nat /\ KellyAnswered' /\ RiskAnswered' /\ RunnerSafe'
<1>1. /\ sized' = Size(P, e, a, c, l)
      /\ demand' = [sizer |-> "kelly", price |-> P, edge |-> e, atr |-> a,
                    capital |-> c, lot |-> l]
  BY DEF SizedQty
<1>2. P \in Nat /\ c \in Nat /\ l \in Nat \ {0} /\ a \in Nat \cup {NoAtr}
  BY SizingAssumption
<1>3. sized' \in Nat
  BY <1>1, <1>2, SizeFacts
<1>4. demand'.sizer = "kelly"
  BY <1>1
<1>5. KellyAnswered'
  BY <1>1, Zenon DEF KellyAnswered
<1>6. demand'.sizer # "risk" /\ demand'.sizer # "runner"
  BY <1>4
<1> QED
  BY <1>3, <1>5, <1>6, Zenon DEF RiskAnswered, RunnerSafe

LEMMA PositionSizeStep ==
  ASSUME SizingInv, NEW P \in UnitPrices, NEW stop \in Stops, NEW c \in Purses,
         PositionSize(P, stop, c)
  PROVE  /\ risked'.qty \in Nat /\ risked'.within \in BOOLEAN
         /\ KellyAnswered' /\ RiskAnswered' /\ RunnerSafe'
<1> DEFINE q == IF stop = 0 THEN 0 ELSE (c * RiskPct) \div (100 * stop)
<1>1. /\ risked' = [qty |-> q, within |-> 100 * q * P <= ExposurePct * c]
      /\ demand' = [sizer |-> "risk", price |-> P, stop |-> stop, capital |-> c]
  BY DEF PositionSize
<1>2. RiskAnswered'
  BY <1>1, ZenonT(40) DEF RiskAnswered
<1>3. demand'.sizer = "risk"
  BY <1>1
<1>4. demand'.sizer # "kelly" /\ demand'.sizer # "runner"
  BY <1>3
<1>5. KellyAnswered' /\ RunnerSafe'
  BY <1>4, Zenon DEF KellyAnswered, RunnerSafe
<1>6. q \in Nat
  <2>1. c \in Nat /\ stop \in Nat /\ RiskPct \in Nat
    BY SizingAssumption
  <2>2. c * RiskPct \in Nat
    BY <2>1
  <2>3. CASE stop = 0
    BY <2>3
  <2>4. CASE stop # 0
    <3>1. 100 * stop \in Nat \ {0}
      BY <2>1, <2>4
    <3> QED
      BY <2>2, <2>4, <3>1, PartFacts
  <2> QED
    BY <2>3, <2>4
<1> HIDE DEF q
<1>7. risked'.qty \in Nat
  BY <1>1, <1>6
<1>8. risked'.within = (100 * q * P <= ExposurePct * c)
  BY <1>1, Zenon
<1>9. risked'.within \in BOOLEAN
  <2>1. (100 * q * P <= ExposurePct * c) \in BOOLEAN
    OBVIOUS
  <2> QED
    BY <1>8, <2>1, Zenon
<1> QED
  BY <1>2, <1>5, <1>7, <1>9

LEMMA RunOnceStep ==
  ASSUME SizingInv, NEW P \in UnitPrices, NEW v \in [Panel -> Views],
         RunOnce(v, P)
  PROVE  /\ views' = v /\ result' \in Directions \cup {"", "SKIP_CONFLICT"}
         /\ asked'.qty \in Nat /\ asked'.side \in Directions \cup {""}
         /\ conflict_log' \in {conflict_log, conflict_log + 1}
         /\ KellyAnswered' /\ RiskAnswered' /\ RunnerSafe'
<1> DEFINE agreed == Agreed(v)
<1>1. /\ views' = v
      /\ demand' = [sizer |-> "runner", price |-> P]
      /\ result' = IF agreed = {} THEN "" ELSE IF Cardinality(agreed) > 1 THEN "SKIP_CONFLICT"
                   ELSE CHOOSE d \in agreed : TRUE
      /\ asked' = IF Cardinality(agreed) = 1
                    THEN Execute(CHOOSE d \in agreed : TRUE, P) ELSE NoAsk
      /\ conflict_log' = IF Cardinality(agreed) > 1 THEN conflict_log + 1 ELSE conflict_log
  BY Zenon DEF RunOnce
<1>2. agreed \subseteq Directions
  BY DEF Agreed
<1>3. demand'.sizer = "runner" /\ demand'.price = P
  BY <1>1
<1>4. KellyAnswered' /\ RiskAnswered'
  <2>1. demand'.sizer # "kelly" /\ demand'.sizer # "risk"
    BY <1>3
  <2> QED
    BY <2>1, Zenon DEF KellyAnswered, RiskAnswered
<1>5. P \in Nat /\ ValueCap \in Nat
  BY SizingAssumption
<1>6. conflict_log' \in {conflict_log, conflict_log + 1}
  BY <1>1
<1>7. result' \in Directions \cup {"", "SKIP_CONFLICT"}
  <2>1. agreed # {} => (CHOOSE d \in agreed : TRUE) \in agreed
    OBVIOUS
  <2> HIDE DEF agreed
  <2> QED
    BY <1>1, <1>2, <2>1, Zenon
<1>8. CASE asked' = NoAsk
  <2>1. asked'.qty = 0 /\ asked'.side = ""
    BY <1>8 DEF NoAsk
  <2>2. RunnerSafe'
    BY <1>8, Zenon DEF RunnerSafe
  <2>3. 0 \in Nat
    OBVIOUS
  <2> QED
    BY <1>1, <1>4, <1>6, <1>7, <2>1, <2>2, <2>3, Zenon
<1>9. CASE asked' # NoAsk
  <2>1. Cardinality(agreed) = 1
    BY <1>1, <1>9, Zenon
  <2>2. IsFiniteSet(agreed)
    <3>1. IsFiniteSet(Directions)
      <4>1. IsFiniteSet({"BUY"})
        BY FS_Singleton, Zenon
      <4>2. {"BUY"} \cup {"SELL"} = Directions
        BY DEF Directions
      <4>3. IsFiniteSet({"BUY"} \cup {"SELL"})
        BY <4>1, FS_AddElement, Zenon
      <4> QED
        BY <4>2, <4>3
    <3> QED
      BY <1>2, <3>1, FS_Subset
  <2>3. PICK d : agreed = {d}
    <3> HIDE DEF agreed
    <3> QED
      BY <2>1, <2>2, FS_Singleton, Zenon
  <2>4. (CHOOSE x \in agreed : TRUE) = d
    <3> HIDE DEF agreed
    <3> QED
      BY <2>3
  <2>5. result' = d
    <3> HIDE DEF agreed
    <3>1. agreed # {} /\ ~(Cardinality(agreed) > 1)
      <4>1. agreed # {}
        BY <2>3, Zenon
      <4>2. ~(1 > 1)
        OBVIOUS
      <4> QED
        BY <2>1, <4>1, <4>2, Zenon
    <3> QED
      BY <1>1, <2>4, <3>1, Zenon
  <2>6. asked' = Execute(d, P)
    <3> HIDE DEF agreed
    <3> QED
      BY <1>1, <2>1, <2>4, Zenon
  <2>7. P # 0 /\ asked' = [qty |-> IF P > ValueCap THEN 1 ELSE ValueCap \div P, side |-> d]
    BY <1>9, <2>6, Zenon DEF Execute
  <2> DEFINE n == IF P > ValueCap THEN 1 ELSE ValueCap \div P
  <2>8. n \in Nat /\ (n * P <= ValueCap \/ n = 1)
    <3>1. P \in Nat \ {0}
      BY <1>5, <2>7
    <3>2. ValueCap \div P \in Nat /\ (ValueCap \div P) * P <= ValueCap
      BY <1>5, <3>1, PartFacts
    <3> QED
      BY <3>2
  <2> HIDE DEF n
  <2>9. asked'.qty = n /\ asked'.side = d
    BY <2>7 DEF n
  <2>10. d \in Directions
    BY <1>2, <2>3
  <2>11. (\E s \in Panel : v[s] = d) /\ \A s \in Panel : v[s] \in Directions => v[s] = d
    BY <2>3 DEF Agreed
  <2>12. RunnerSafe'
    <3>1. asked'.qty * demand'.price <= ValueCap \/ asked'.qty = 1
      BY <1>3, <2>8, <2>9
    <3> QED
      BY <1>1, <2>5, <2>9, <2>11, <3>1, Zenon DEF RunnerSafe
  <2> QED
    BY <1>1, <1>4, <1>6, <1>7, <2>8, <2>9, <2>10, <2>12, Zenon
<1> QED
  BY <1>8, <1>9

LEMMA NextSizing == SizingInv /\ [SizingNext]_sizingVars => SizingInv'
<1> SUFFICES ASSUME SizingInv, [SizingNext]_sizingVars PROVE SizingInv'
  OBVIOUS
<1>1. CASE UNCHANGED sizingVars
  <2>1. /\ demand' = demand /\ sized' = sized /\ risked' = risked
        /\ conflict_log' = conflict_log /\ views' = views /\ result' = result
        /\ asked' = asked /\ steps' = steps
    BY <1>1 DEF sizingVars
  <2>2. SizingTypeOK'
    BY <2>1, Zenon DEF SizingInv, SizingTypeOK
  <2>3. KellyAnswered'
    BY <2>1, Zenon DEF SizingInv, KellyAnswered
  <2>4. RiskAnswered'
    <3>1. RiskAnswered
      BY DEF SizingInv
    <3> QED
      BY <2>1, <3>1 DEF RiskAnswered
  <2>5. RunnerSafe'
    BY <2>1, Zenon DEF SizingInv, RunnerSafe
  <2> QED
    BY <2>2, <2>3, <2>4, <2>5 DEF SizingInv
<1>2. CASE SizingNext
  <2>1. steps < MaxSteps /\ steps' = steps + 1
    BY <1>2 DEF SizingNext
  <2>2. /\ sized \in Nat /\ risked.qty \in Nat /\ risked.within \in BOOLEAN
        /\ views \in [Panel -> Views]
        /\ result \in Directions \cup {"", "SKIP_CONFLICT"}
        /\ asked.qty \in Nat /\ asked.side \in Directions \cup {""}
    BY Zenon DEF SizingInv, SizingTypeOK
  <2>3. conflict_log \in 0..steps /\ steps \in 0..MaxSteps /\ MaxSteps \in Nat
    BY SizingAssumption DEF SizingInv, SizingTypeOK
  <2>4. steps' \in 0..MaxSteps /\ conflict_log \in 0..steps' /\ conflict_log + 1 \in 0..steps'
    BY <2>1, <2>3
  <2>5. ASSUME NEW P \in UnitPrices, NEW e \in Edges, NEW a \in Atrs \cup {NoAtr},
               NEW c \in Purses, NEW l \in LotSizes, SizedQty(P, e, a, c, l)
        PROVE  SizingInv'
    <3>1. UNCHANGED <<risked, conflict_log, views, result, asked>>
      BY <2>5 DEF SizedQty
    <3>2. sized' \in Nat /\ KellyAnswered' /\ RiskAnswered' /\ RunnerSafe'
      BY <2>5, SizedQtyStep
    <3> QED
      BY <2>2, <2>4, <3>1, <3>2, Zenon DEF SizingInv, SizingTypeOK
  <2>6. ASSUME NEW P \in UnitPrices, NEW stop \in Stops, NEW c \in Purses, PositionSize(P, stop, c)
        PROVE  SizingInv'
    <3>1. /\ sized' = sized /\ conflict_log' = conflict_log /\ views' = views
          /\ result' = result /\ asked' = asked
      BY <2>6 DEF PositionSize
    <3>2. /\ risked'.qty \in Nat /\ risked'.within \in BOOLEAN
          /\ KellyAnswered' /\ RiskAnswered' /\ RunnerSafe'
      BY <2>6, PositionSizeStep
    <3> QED
      BY <2>2, <2>4, <3>1, <3>2, Zenon DEF SizingInv, SizingTypeOK
  <2>7. ASSUME NEW P \in UnitPrices, NEW v \in [Panel -> Views], RunOnce(v, P)
        PROVE  SizingInv'
    <3>1. UNCHANGED <<sized, risked>>
      BY <2>7 DEF RunOnce
    <3>2. /\ views' = v /\ result' \in Directions \cup {"", "SKIP_CONFLICT"}
          /\ asked'.qty \in Nat /\ asked'.side \in Directions \cup {""}
          /\ conflict_log' \in {conflict_log, conflict_log + 1}
          /\ KellyAnswered' /\ RiskAnswered' /\ RunnerSafe'
      BY <2>7, RunOnceStep
    <3>3. conflict_log' \in 0..steps'
      BY <2>4, <3>2, Zenon
    <3> QED
      BY <2>2, <2>4, <3>1, <3>2, <3>3, Zenon DEF SizingInv, SizingTypeOK
  <2> QED
    BY <1>2, <2>5, <2>6, <2>7, Zenon DEF SizingNext
<1> QED
  BY <1>1, <1>2

\* What the invariant of the sizing is for.
LEMMA SizingInvCapped == SizingInv => SizingTypeOK /\ SizesCapped
  BY KellyIsSafe, StopIsSafe, Zenon DEF SizingInv, SizesCapped

-----------------------------------------------------------------------------
(* How a request for bars is served (MarketData).                           *)

\* The period that yfinance is asked for is long enough, unless it is the cap of
\* the interval, and on a weekend it is longer than the weekend.
LEMMA PeriodFacts ==
  ASSUME NEW interval, NEW weekend \in BOOLEAN, NEW p
  PROVE  LET w == WeekendSafePeriod(weekend, p)
             c == CapPeriod(interval, w)
         IN  /\ c \in {"5d", "7d", "60d", "730d", p}
             /\ ToDays(c) < ToDays(p) => c = Cap(interval)
             /\ weekend => ToDays(c) > 2
<1> DEFINE w == WeekendSafePeriod(weekend, p)
           c == CapPeriod(interval, w)
<1>1. Cap(interval) \in {"7d", "60d", "730d", "none"}
  BY DEF Cap
<1>2. /\ ToDays("1d") = 1 /\ ToDays("2d") = 2 /\ ToDays("5d") = 5
      /\ ToDays("7d") = 7 /\ ToDays("60d") = 60 /\ ToDays("730d") = 730
  BY DEF ToDays
<1>3. ToDays(p) \in Nat /\ (p # "1d" /\ p # "2d" => ToDays(p) > 2)
  BY DEF ToDays
<1>4. w \in {"5d", p} /\ ToDays(w) \in Nat /\ ToDays(w) >= ToDays(p) /\ (weekend => ToDays(w) > 2)
  <2>1. CASE weekend /\ p \in {"1d", "2d"}
    BY <1>2, <2>1 DEF WeekendSafePeriod
  <2>2. CASE ~(weekend /\ p \in {"1d", "2d"})
    <3>1. w = p
      BY <2>2 DEF WeekendSafePeriod
    <3>2. weekend => p # "1d" /\ p # "2d"
      BY <2>2
    <3> HIDE DEF w
    <3> QED
      BY <1>3, <3>1, <3>2
  <2> QED
    BY <2>1, <2>2
<1> HIDE DEF w
<1>5. c = w \/ (Cap(interval) # "none" /\ c = Cap(interval) /\ ToDays(w) > ToDays(c))
  BY DEF CapPeriod
<1> HIDE DEF c
<1>6. CASE c = w
  BY <1>3, <1>4, <1>6 DEF w, c
<1>7. CASE Cap(interval) # "none" /\ c = Cap(interval)
  <2>1. c \in {"7d", "60d", "730d"} /\ ToDays(c) > 2
    BY <1>1, <1>2, <1>7
  <2> QED
    BY <1>7, <2>1 DEF w, c
<1> QED
  BY <1>5, <1>6, <1>7

-----------------------------------------------------------------------------

\* The bars s are in order of time, one for each.
Rising(s) == \A m, n \in 1..Len(s) : m < n => s[m].at < s[n].at

\* All bars of s are bars of r.
Among(s, r) == \A i \in 1..Len(s) : \E j \in 1..Len(r) : s[i] = r[j]

\* What a filter leaves is what passes it, in the order of the frame.
LEMMA WhereFacts ==
  ASSUME NEW s \in Seq(AnyBar), NEW B
  PROVE  LET r == Where(s, B) IN
         /\ r \in Seq(AnyBar) /\ Len(r) <= Len(s) /\ Among(r, s)
         /\ \A n \in 1..Len(r) : r[n] \in B
         /\ \A i \in 1..Len(s) : s[i] \in B => \E n \in 1..Len(r) : r[n] = s[i]
         /\ Rising(s) => Rising(r)
<1> DEFINE I == {i \in 1..Len(s) : s[i] \in B}
           r == Picked(s, I)
<1>1. I \in SUBSET (1..Len(s))
  OBVIOUS
<1>2. /\ r \in Seq(AnyBar) /\ Len(r) <= Len(s)
      /\ \A n \in 1..Len(r) : \E i \in I : r[n] = s[i]
      /\ \A i \in I : \E n \in 1..Len(r) : r[n] = s[i]
      /\ \A m, n \in 1..Len(r) : m < n => \E i, j \in I : i < j /\ r[m] = s[i] /\ r[n] = s[j]
  <2> HIDE DEF I
  <2> QED
    BY <1>1, PickedFacts
<1>3. Where(s, B) = r
  BY Zenon DEF Where
<1> HIDE DEF r
<1>4. Rising(s) => Rising(r)
  <2> SUFFICES ASSUME Rising(s), NEW m \in 1..Len(r), NEW n \in 1..Len(r), m < n
               PROVE  r[m].at < r[n].at
    BY DEF Rising
  <2>1. PICK i, j \in I : i < j /\ r[m] = s[i] /\ r[n] = s[j]
    BY <1>2
  <2>2. i \in 1..Len(s) /\ j \in 1..Len(s)
    OBVIOUS
  <2> QED
    BY <2>1, <2>2 DEF Rising
<1>5. Among(r, s)
  BY <1>2 DEF Among
<1>6. \A n \in 1..Len(r) : r[n] \in B
  BY <1>2
<1>7. \A i \in 1..Len(s) : s[i] \in B => \E n \in 1..Len(r) : r[n] = s[i]
  BY <1>2
<1> HIDE DEF I
<1> QED
  BY <1>2, <1>3, <1>4, <1>5, <1>6, <1>7, Zenon

\* Bars of different times are all kept.
LEMMA DeduplicatedFacts ==
  ASSUME NEW s \in Seq(AnyBar), Rising(s)
  PROVE  LET r == Deduplicated(s) IN
         /\ r \in Seq(AnyBar) /\ Len(r) <= Len(s) /\ Among(r, s) /\ Among(s, r) /\ Rising(r)
<1> DEFINE I == {i \in 1..Len(s) : IsLast(s, i)}
           r == Picked(s, I)
<1>1. I = 1..Len(s)
  <2>1. \A b \in AnyBar : b.at \in Nat
    BY MarketDataAssumption DEF AnyBar
  <2>2. \A i \in 1..Len(s) : s[i].at \in Nat
    BY <2>1
  <2>3. ASSUME NEW i \in 1..Len(s) PROVE IsLast(s, i)
    <3>1. \A j \in (i + 1)..Len(s) : j \in 1..Len(s) /\ i < j
      OBVIOUS
    <3> QED
      BY <2>2, <3>1 DEF Rising, IsLast
  <2> QED
    BY <2>3
<1>a. I \in SUBSET (1..Len(s))
  OBVIOUS
<1>2. /\ r \in Seq(AnyBar) /\ Len(r) <= Len(s)
      /\ \A n \in 1..Len(r) : \E i \in I : r[n] = s[i]
      /\ \A i \in I : \E n \in 1..Len(r) : r[n] = s[i]
      /\ \A m, n \in 1..Len(r) : m < n => \E i, j \in I : i < j /\ r[m] = s[i] /\ r[n] = s[j]
  <2> HIDE DEF I
  <2> QED
    BY <1>a, PickedFacts
<1>3. Deduplicated(s) = r
  BY Zenon DEF Deduplicated
<1> HIDE DEF r, I
<1>4. Rising(r)
  <2> SUFFICES ASSUME NEW m \in 1..Len(r), NEW n \in 1..Len(r), m < n
               PROVE  r[m].at < r[n].at
    BY DEF Rising
  <2>1. PICK i, j \in I : i < j /\ r[m] = s[i] /\ r[n] = s[j]
    BY <1>2
  <2> QED
    BY <1>1, <2>1 DEF Rising
<1>5. Among(r, s) /\ Among(s, r)
  BY <1>1, <1>2 DEF Among
<1> QED
  BY <1>2, <1>3, <1>4, <1>5, Zenon

\* Sorting and taking the last of each time leaves one bar of each.
LEMMA OnePerTimeFacts ==
  ASSUME NEW s \in Seq(AnyBar), NEW r \in OnePerTime(s)
  PROVE  /\ r \in Seq(AnyBar) /\ Len(r) <= Len(s) /\ Among(r, s) /\ Rising(r)
         /\ \A i \in 1..Len(s) : \E n \in 1..Len(r) : r[n].at = s[i].at
<1> DEFINE times == {s[i].at : i \in 1..Len(s)}
           size == Cardinality(times)
           at(n) == AtIndex(times, n - 1)
<1>1. \A i \in 1..Len(s) : s[i] \in AnyBar /\ s[i].at \in Nat
  <2>1. \A b \in AnyBar : b.at \in Nat
    BY MarketDataAssumption DEF AnyBar
  <2> QED
    BY <2>1
<1>2. Len(s) \in Nat /\ IsFiniteSet(1..Len(s)) /\ Cardinality(1..Len(s)) = Len(s)
  <2>1. Len(s) \in Nat
    OBVIOUS
  <2>2. IsFiniteSet(1..Len(s)) /\ Cardinality(1..Len(s)) = IF 1 > Len(s) THEN 0 ELSE Len(s) - 1 + 1
    BY <2>1, FS_Interval
  <2> QED
    BY <2>1, <2>2
<1>3. times \in SUBSET Nat
  BY <1>1
<1>4. IsFiniteSet(times) /\ size <= Len(s)
  <2> DEFINE f == [i \in 1..Len(s) |-> s[i].at]
  <2>1. f \in Surjection(1..Len(s), times)
    BY DEF Surjection
  <2> HIDE DEF f, times
  <2> QED
    BY <1>2, <2>1, FS_Surjection
<1>5. size \in Nat
  BY <1>4, FS_CardinalityType
<1>6. PICK keep \in [times -> 1..Len(s)] :
        /\ \A t \in times : s[keep[t]].at = t
        /\ r = [n \in 1..size |-> s[keep[at(n)]]]
  BY DEF OnePerTime
<1> HIDE DEF size
<1>7. /\ \A t \in times : Index(times, t) \in 0..(size - 1)
      /\ \A n \in 0..(size - 1) : AtIndex(times, n) \in times /\ Index(times, AtIndex(times, n)) = n
  <2> HIDE DEF times
  <2> QED
    BY <1>3, <1>4, IndexBijective DEF size
<1>8. \A n \in 1..size : at(n) \in times /\ Index(times, at(n)) = n - 1
  <2>1. \A n \in 1..size : n - 1 \in 0..(size - 1)
    BY <1>5
  <2> HIDE DEF times
  <2> QED
    BY <1>7, <2>1
<1> HIDE DEF at
<1>9. r \in Seq(AnyBar) /\ Len(r) = size
      /\ \A n \in 1..size : r[n] = s[keep[at(n)]] /\ r[n].at = at(n)
  <2> HIDE DEF times
  <2>1. \A n \in 1..size : s[keep[at(n)]] \in AnyBar /\ s[keep[at(n)]].at = at(n)
    BY <1>1, <1>6, <1>8
  <2>2. r \in [1..size -> AnyBar]
    BY <1>6, <2>1
  <2>3. r \in Seq(AnyBar) /\ Len(r) = size
    BY <1>5, <2>2
  <2> QED
    BY <1>6, <2>1, <2>3
<1>10. Among(r, s)
  <2> HIDE DEF times
  <2> QED
    BY <1>6, <1>8, <1>9 DEF Among
<1>11. Rising(r)
  <2> SUFFICES ASSUME NEW m \in 1..Len(r), NEW n \in 1..Len(r), m < n PROVE r[m].at < r[n].at
    BY DEF Rising
  <2>1. m \in 1..size /\ n \in 1..size
    BY <1>9
  <2>2. at(m) \in times /\ at(n) \in times /\ Index(times, at(m)) = m - 1 /\ Index(times, at(n)) = n - 1
    BY <1>8, <2>1
  <2> HIDE DEF times
  <2>3. Index(times, at(m)) < Index(times, at(n))
    <3>1. m - 1 < n - 1
      BY <1>5, <2>1
    <3> QED
      BY <2>2, <3>1
  <2>4. at(m) < at(n)
    BY <1>3, <1>4, <2>2, <2>3, IndexStrict, Zenon
  <2> QED
    BY <1>9, <2>1, <2>4
<1>12. ASSUME NEW i \in 1..Len(s) PROVE \E n \in 1..Len(r) : r[n].at = s[i].at
  <2> DEFINE t == s[i].at
             n == Index(times, t) + 1
  <2>1. t \in times
    OBVIOUS
  <2> HIDE DEF times, t
  <2>2. Index(times, t) \in 0..(size - 1)
    BY <1>7, <2>1
  <2>3. n \in 1..size /\ n - 1 = Index(times, t)
    BY <1>5, <2>2
  <2> HIDE DEF n
  <2>4. Index(times, at(n)) = Index(times, t) /\ at(n) \in times
    BY <1>8, <2>3
  <2>5. at(n) = t
    BY <1>3, <1>4, <2>1, <2>4, IndexStrict
  <2> QED
    BY <1>9, <2>3, <2>5 DEF t
<1>13. Len(r) <= Len(s)
  BY <1>4, <1>9
<1> HIDE DEF times
<1> QED
  BY <1>9, <1>10, <1>11, <1>12, <1>13

-----------------------------------------------------------------------------

AloneIn(r, b) == Cardinality({i \in 1..Len(r) : r[i].at = b.at}) = 1

\* What a provider hands on, s, of the bars r that came.
Left(s, r) ==
  /\ s \in Seq(AnyBar) /\ Len(s) <= Len(r) /\ Rising(s) /\ Among(s, r)
  /\ \A n \in 1..Len(s) : s[n] \in Closed
  /\ \A i \in 1..Len(r) : AloneIn(r, r[i]) /\ r[i] \in Closed => \E n \in 1..Len(s) : s[n] = r[i]

\* A bar that is alone at its time is the one that another place with that time has.
LEMMA AloneFacts ==
  ASSUME NEW r \in Seq(AnyBar), NEW i \in 1..Len(r), AloneIn(r, r[i]),
         NEW j \in 1..Len(r), r[j].at = r[i].at
  PROVE  r[j] = r[i]
<1> DEFINE I == {k \in 1..Len(r) : r[k].at = r[i].at}
<1>1. IsFiniteSet(I)
  <2>1. Len(r) \in Nat
    OBVIOUS
  <2>2. IsFiniteSet(1..Len(r))
    BY <2>1, FS_Interval
  <2> QED
    BY <2>2, FS_Subset
<1>2. Cardinality(I) = 1
  BY DEF AloneIn
<1>3. i \in I /\ j \in I
  OBVIOUS
<1> HIDE DEF I
<1>4. PICK x : I = {x}
  BY <1>1, <1>2, FS_Singleton, Zenon
<1> QED
  BY <1>3, <1>4

\* AngelProvider.fetch() drops the bars without a close first.
LEMMA AngelLeaves ==
  ASSUME NEW r \in Seq(AnyBar), NEW s \in OnePerTime(Where(r, Closed))
  PROVE  Left(s, r)
<1> DEFINE w == Where(r, Closed)
<1>1. /\ w \in Seq(AnyBar) /\ Len(w) <= Len(r) /\ Among(w, r)
      /\ \A n \in 1..Len(w) : w[n] \in Closed
      /\ \A i \in 1..Len(r) : r[i] \in Closed => \E n \in 1..Len(w) : w[n] = r[i]
  BY WhereFacts
<1>a. s \in OnePerTime(w)
  OBVIOUS
<1> HIDE DEF w
<1>2. /\ s \in Seq(AnyBar) /\ Len(s) <= Len(w) /\ Among(s, w) /\ Rising(s)
      /\ \A i \in 1..Len(w) : \E n \in 1..Len(s) : s[n].at = w[i].at
  BY <1>1, <1>a, OnePerTimeFacts
<1>3. Among(s, r)
  <2> SUFFICES ASSUME NEW n \in 1..Len(s) PROVE \E j \in 1..Len(r) : s[n] = r[j]
    BY DEF Among
  <2>1. PICK k \in 1..Len(w) : s[n] = w[k]
    BY <1>2 DEF Among
  <2> QED
    BY <1>1, <2>1 DEF Among
<1>4. \A n \in 1..Len(s) : s[n] \in Closed
  <2> SUFFICES ASSUME NEW n \in 1..Len(s) PROVE s[n] \in Closed
    OBVIOUS
  <2>1. PICK k \in 1..Len(w) : s[n] = w[k]
    BY <1>2 DEF Among
  <2> QED
    BY <1>1, <2>1
<1>5. ASSUME NEW i \in 1..Len(r), AloneIn(r, r[i]), r[i] \in Closed
      PROVE  \E n \in 1..Len(s) : s[n] = r[i]
  <2>1. PICK k \in 1..Len(w) : w[k] = r[i]
    BY <1>1, <1>5
  <2>2. PICK n \in 1..Len(s) : s[n].at = r[i].at
    BY <1>2, <2>1
  <2>3. PICK j \in 1..Len(r) : s[n] = r[j]
    BY <1>3 DEF Among
  <2>4. r[j] = r[i]
    BY <1>5, <2>2, <2>3, AloneFacts
  <2> QED
    BY <2>3, <2>4
<1>6. Len(s) <= Len(r)
  BY <1>1, <1>2
<1> QED
  BY <1>2, <1>3, <1>4, <1>5, <1>6 DEF Left

\* DataFetcher.fetch() drops them last.
LEMMA FetchLeaves ==
  ASSUME NEW r \in Seq(AnyBar), NEW o \in OnePerTime(r)
  PROVE  Left(Where(o, Closed), r)
<1> DEFINE s == Where(o, Closed)
<1>1. /\ o \in Seq(AnyBar) /\ Len(o) <= Len(r) /\ Among(o, r) /\ Rising(o)
      /\ \A i \in 1..Len(r) : \E n \in 1..Len(o) : o[n].at = r[i].at
  BY OnePerTimeFacts
<1>2. /\ s \in Seq(AnyBar) /\ Len(s) <= Len(o) /\ Among(s, o)
      /\ \A n \in 1..Len(s) : s[n] \in Closed
      /\ \A i \in 1..Len(o) : o[i] \in Closed => \E n \in 1..Len(s) : s[n] = o[i]
      /\ Rising(o) => Rising(s)
  BY <1>1, WhereFacts
<1> HIDE DEF s
<1>3. Among(s, r)
  <2> SUFFICES ASSUME NEW n \in 1..Len(s) PROVE \E j \in 1..Len(r) : s[n] = r[j]
    BY DEF Among
  <2>1. PICK k \in 1..Len(o) : s[n] = o[k]
    BY <1>2 DEF Among
  <2> QED
    BY <1>1, <2>1 DEF Among
<1>4. ASSUME NEW i \in 1..Len(r), AloneIn(r, r[i]), r[i] \in Closed
      PROVE  \E n \in 1..Len(s) : s[n] = r[i]
  <2>1. PICK k \in 1..Len(o) : o[k].at = r[i].at
    BY <1>1
  <2>2. PICK j \in 1..Len(r) : o[k] = r[j]
    BY <1>1 DEF Among
  <2>3. r[j] = r[i]
    BY <1>4, <2>1, <2>2, AloneFacts
  <2> QED
    BY <1>2, <1>4, <2>2, <2>3
<1>5. Len(s) <= Len(r)
  BY <1>1, <1>2
<1> QED
  BY <1>1, <1>2, <1>3, <1>4, <1>5 DEF Left, s

\* What validate() makes of it.
LEMMA CleanFacts ==
  ASSUME NEW r \in Seq(AnyBar), NEW s, Left(s, r)
  PROVE  LET f == Cleaned(s) IN
         /\ f \in Seq(AnyBar) /\ Len(f) <= Len(r) /\ Rising(f)
         /\ \A i \in 1..Len(f) :
              /\ f[i].kind \in {"good", "negative"}
              /\ f[i].kind = "negative" => ~\E j \in 1..Len(r) : r[j].kind = "zero" /\ AloneIn(r, r[j])
         /\ \A i \in 1..Len(r) :
              /\ r[i].kind = "good" /\ AloneIn(r, r[i])
              /\ request.interval = "1d" => r[i].at \notin SatSun
              => \E j \in 1..Len(f) : f[j] = r[i]
         /\ ~TooManyNaN(s)
<1> DEFINE u == Deduplicated(s)
           closed == Where(u, Closed)
           zeros == \E i \in 1..Len(closed) : closed[i].kind = "zero"
           Stays == {b \in AnyBar : /\ b.kind \notin {"zero", "broken"}
                                    /\ zeros => b.kind # "negative"
                                    /\ request.interval = "1d" => b.at \notin SatSun}
           f == Where(closed, Stays)
<1>1. /\ s \in Seq(AnyBar) /\ Len(s) <= Len(r) /\ Rising(s) /\ Among(s, r)
      /\ \A n \in 1..Len(s) : s[n] \in Closed
      /\ \A i \in 1..Len(r) : AloneIn(r, r[i]) /\ r[i] \in Closed => \E n \in 1..Len(s) : s[n] = r[i]
  BY DEF Left
<1>2. u \in Seq(AnyBar) /\ Len(u) <= Len(s) /\ Among(u, s) /\ Among(s, u) /\ Rising(u)
  BY <1>1, DeduplicatedFacts
<1> HIDE DEF u
<1>3. /\ closed \in Seq(AnyBar) /\ Len(closed) <= Len(u) /\ Among(closed, u)
      /\ \A n \in 1..Len(closed) : closed[n] \in Closed
      /\ \A i \in 1..Len(u) : u[i] \in Closed => \E n \in 1..Len(closed) : closed[n] = u[i]
      /\ Rising(closed)
  BY <1>2, WhereFacts
<1> HIDE DEF closed
<1>4. /\ f \in Seq(AnyBar) /\ Len(f) <= Len(closed) /\ Among(f, closed)
      /\ \A n \in 1..Len(f) : f[n] \in Stays
      /\ \A i \in 1..Len(closed) : closed[i] \in Stays => \E n \in 1..Len(f) : f[n] = closed[i]
      /\ Rising(f)
  <2> HIDE DEF Stays
  <2> QED
    BY <1>3, WhereFacts
<1>5. Cleaned(s) = f
  BY Zenon DEF Cleaned, u, closed
<1> HIDE DEF f
<1>6. \A i \in 1..Len(r) : AloneIn(r, r[i]) /\ r[i] \in Closed => \E n \in 1..Len(closed) : closed[n] = r[i]
  <2> SUFFICES ASSUME NEW i \in 1..Len(r), AloneIn(r, r[i]), r[i] \in Closed
               PROVE  \E n \in 1..Len(closed) : closed[n] = r[i]
    OBVIOUS
  <2>1. PICK k \in 1..Len(s) : s[k] = r[i]
    BY <1>1
  <2>2. PICK l \in 1..Len(u) : u[l] = s[k]
    BY <1>2 DEF Among
  <2> QED
    BY <1>3, <2>1, <2>2
<1>7. \A b \in AnyBar : b \in Closed <=> b.kind # "nan"
  BY DEF Closed
<1>8. \A i \in 1..Len(r) : r[i] \in AnyBar
  OBVIOUS
<1>9. (\E j \in 1..Len(r) : r[j].kind = "zero" /\ AloneIn(r, r[j])) => zeros
  <2> SUFFICES ASSUME NEW j \in 1..Len(r), r[j].kind = "zero", AloneIn(r, r[j]) PROVE zeros
    BY Zenon
  <2>1. r[j] \in Closed
    BY <1>7, <1>8
  <2>2. PICK n \in 1..Len(closed) : closed[n] = r[j]
    BY <1>6, <2>1
  <2> QED
    BY <2>2
<1> HIDE DEF zeros
<1>10. ASSUME NEW i \in 1..Len(f)
       PROVE  /\ f[i].kind \in {"good", "negative"}
              /\ f[i].kind = "negative" => ~\E j \in 1..Len(r) : r[j].kind = "zero" /\ AloneIn(r, r[j])
  <2>1. PICK n \in 1..Len(closed) : f[i] = closed[n]
    BY <1>4 DEF Among
  <2>2. f[i] \in AnyBar /\ f[i].kind # "nan"
    BY <1>3, <1>4, <1>7, <2>1
  <2>3. f[i].kind \notin {"zero", "broken"} /\ (zeros => f[i].kind # "negative")
    BY <1>4
  <2>4. f[i].kind \in Kinds
    BY <2>2 DEF AnyBar
  <2>5. f[i].kind \in {"good", "negative"}
    BY <2>2, <2>3, <2>4 DEF Kinds
  <2> QED
    BY <1>9, <2>3, <2>5, Zenon
<1>11. ASSUME NEW i \in 1..Len(r), r[i].kind = "good", AloneIn(r, r[i]),
              request.interval = "1d" => r[i].at \notin SatSun
       PROVE  \E j \in 1..Len(f) : f[j] = r[i]
  <2>1. r[i] \in Closed
    BY <1>7, <1>8, <1>11
  <2>2. PICK n \in 1..Len(closed) : closed[n] = r[i]
    BY <1>6, <1>11, <2>1
  <2>3. r[i] \in Stays
    BY <1>8, <1>11
  <2> HIDE DEF Stays
  <2> QED
    BY <1>4, <2>2, <2>3
<1>12. ~TooManyNaN(s)
  <2> DEFINE N == {i \in 1..Len(s) : s[i].kind = "nan"}
  <2>1. N = {}
    BY <1>1 DEF Closed
  <2> HIDE DEF N
  <2>2. Cardinality(N) = 0 /\ Len(s) \in Nat
    BY <1>1, <2>1, FS_EmptySet
  <2> QED
    BY <2>2 DEF TooManyNaN, N
<1>13. Len(f) <= Len(r)
  BY <1>1, <1>2, <1>3, <1>4
<1> HIDE DEF Stays
<1> QED
  BY <1>4, <1>5, <1>10, <1>11, <1>12, <1>13, Zenon

-----------------------------------------------------------------------------

\* The period fits the request.
UsedFits ==
  /\ ToDays(used) < ToDays(request.period) => emptied \/ used = Cap(request.interval)
  /\ request.weekend => ToDays(used) > 2

FeedPhases == {"idle", "angel", "yfinance", "validate", "served", "raised"}
FeedPeriods == {"", "5d", "7d", "60d", "730d"} \cup {r.period : r \in Requests}
FeedSources == {"", "angel", "yfinance"}

FeedInv ==
  /\ phase \in FeedPhases /\ used \in FeedPeriods /\ source \in FeedSources
  /\ phase # "idle" => request \in Requests
  /\ raw \in Seq(AnyBar) /\ Len(raw) <= MaxRows
  /\ frame \in Seq(AnyBar) /\ Len(frame) <= Len(raw)
  /\ phase = "validate" => Left(frame, raw)
  /\ phase = "yfinance" => UsedFits
  /\ phase \in {"validate", "served"} => (source = "yfinance" => UsedFits)
  /\ passed => phase \in {"served", "raised"}
  /\ FeedSound

LEMMA InitFeed == FeedInit => FeedInv
<1> SUFFICES ASSUME FeedInit PROVE FeedInv
  OBVIOUS
<1>1. phase = "idle" /\ raw = << >> /\ frame = << >> /\ passed = FALSE
  BY DEF FeedInit
<1>2. used = "" /\ source = ""
  BY Zenon DEF FeedInit
<1>3. used \in FeedPeriods /\ source \in FeedSources
  BY <1>2, Zenon DEF FeedPeriods, FeedSources
<1>4. phase # "validate" /\ phase # "yfinance" /\ phase \notin {"validate", "served"}
      /\ phase \in FeedPhases /\ phase # "served"
  BY <1>1 DEF FeedPhases
<1>5. raw \in Seq(AnyBar) /\ Len(raw) <= MaxRows /\ frame \in Seq(AnyBar) /\ Len(frame) <= Len(raw)
  <2>1. << >> \in Seq(AnyBar) /\ Len(<< >>) = 0
    OBVIOUS
  <2> QED
    BY <1>1, <2>1, MarketDataAssumption
<1> QED
  BY <1>1, <1>3, <1>4, <1>5, Zenon DEF FeedInv, FeedSound

LEMMA GetBarsStep == ASSUME FeedInv, NEW r \in Requests, GetBars(r) PROVE FeedInv'
<1>1. /\ request' = r /\ phase' = "angel" /\ phase = "idle"
      /\ used' = used /\ emptied' = emptied /\ raw' = raw /\ source' = source
      /\ frame' = frame /\ passed' = passed
  BY DEF GetBars
<1>2. phase' # "validate" /\ phase' # "yfinance" /\ phase' \notin {"validate", "served"}
      /\ phase' \in FeedPhases /\ phase' # "served" /\ phase \notin {"served", "raised"}
  BY <1>1 DEF FeedPhases
<1> QED
  BY <1>1, <1>2, Zenon DEF FeedInv, FeedSound

\* An answer is a frame of at most so many bars.
LEMMA AnswerType ==
  ASSUME NEW answer \in BoundedSeq(AnyBar, MaxRows)
  PROVE  answer \in Seq(AnyBar) /\ Len(answer) <= MaxRows
<1>1. PICK m \in 0..MaxRows : answer \in [1..m -> AnyBar]
  BY DEF BoundedSeq, SeqOf
<1>2. m \in Nat /\ m <= MaxRows
  BY <1>1, MarketDataAssumption
<1> QED
  BY <1>1, <1>2

LEMMA AngelStep ==
  ASSUME FeedInv, NEW answer \in BoundedSeq(AnyBar, MaxRows), Angel(answer)
  PROVE  FeedInv'
<1>1. /\ phase = "angel" /\ request' = request /\ emptied' = emptied /\ passed' = passed
  BY DEF Angel
<1>2. PICK left \in OnePerTime(Where(answer, Closed)) :
        IF left # <<>>
          THEN /\ raw' = answer /\ source' = "angel" /\ frame' = left
               /\ phase' = "validate"
               /\ UNCHANGED used
          ELSE /\ used' = CapPeriod(request.interval,
                                    WeekendSafePeriod(request.weekend, request.period))
               /\ phase' = "yfinance"
               /\ UNCHANGED <<raw, source, frame>>
  BY Zenon DEF Angel
<1>3. answer \in Seq(AnyBar) /\ Len(answer) <= MaxRows
  BY AnswerType
<1>4. Left(left, answer)
  BY <1>3, AngelLeaves
<1>5. left \in Seq(AnyBar) /\ Len(left) <= Len(answer)
  BY <1>4 DEF Left
<1>6. /\ used \in FeedPeriods /\ source \in FeedSources /\ request \in Requests
      /\ raw \in Seq(AnyBar) /\ Len(raw) <= MaxRows
      /\ frame \in Seq(AnyBar) /\ Len(frame) <= Len(raw)
      /\ ~passed
  <2>1. phase # "idle" /\ phase \notin {"served", "raised"}
    BY <1>1
  <2> QED
    BY <2>1, Zenon DEF FeedInv
<1>7. CASE left # << >>
  <2>1. /\ raw' = answer /\ source' = "angel" /\ frame' = left /\ phase' = "validate" /\ used' = used
    BY <1>2, <1>7, Zenon
  <2>2. /\ phase' \in FeedPhases /\ phase' # "yfinance" /\ phase' # "served" /\ source' # "yfinance"
    BY <2>1 DEF FeedPhases
  <2>3. source' \in FeedSources
    BY <2>1, Zenon DEF FeedSources
  <2> QED
    BY <1>1, <1>3, <1>4, <1>5, <1>6, <2>1, <2>2, <2>3, Zenon DEF FeedInv, FeedSound
<1>8. CASE left = << >>
  <2>1. /\ used' = CapPeriod(request.interval, WeekendSafePeriod(request.weekend, request.period))
        /\ phase' = "yfinance"
        /\ raw' = raw /\ source' = source /\ frame' = frame
    BY <1>2, <1>8
  <2>2. phase' \in FeedPhases /\ phase' # "validate" /\ phase' # "served"
        /\ phase' \notin {"validate", "served"}
    BY <2>1 DEF FeedPhases
  <2>3. request.weekend \in BOOLEAN
    BY <1>6, MarketDataAssumption
  <2>4. /\ used' \in {"5d", "7d", "60d", "730d", request.period}
        /\ ToDays(used') < ToDays(request.period) => used' = Cap(request.interval)
        /\ request.weekend => ToDays(used') > 2
    BY <2>1, <2>3, PeriodFacts
  <2>5. UsedFits'
    BY <1>1, <2>4, Zenon DEF UsedFits
  <2>6. used' \in FeedPeriods
    BY <1>6, <2>4, Zenon DEF FeedPeriods
  <2> QED
    BY <1>1, <1>6, <2>1, <2>2, <2>5, <2>6, Zenon DEF FeedInv, FeedSound
<1> QED
  BY <1>7, <1>8

LEMMA EmptyStep == ASSUME FeedInv, Empty PROVE FeedInv'
<1>1. /\ phase = "yfinance" /\ request' = request /\ raw' = raw /\ source' = source
      /\ frame' = frame /\ passed' = passed
      /\ \/ used' = "5d" /\ emptied' = TRUE /\ phase' = phase
         \/ phase' = "raised" /\ used' = used /\ emptied' = emptied
  BY DEF Empty
<1>2. /\ used \in FeedPeriods /\ source \in FeedSources /\ request \in Requests
      /\ raw \in Seq(AnyBar) /\ Len(raw) <= MaxRows
      /\ frame \in Seq(AnyBar) /\ Len(frame) <= Len(raw)
      /\ ~passed
  <2>1. phase # "idle" /\ phase \notin {"served", "raised"}
    BY <1>1
  <2> QED
    BY <2>1, Zenon DEF FeedInv
<1>3. CASE used' = "5d" /\ emptied' = TRUE /\ phase' = phase
  <2>1. ToDays(used') > 2
    BY <1>3 DEF ToDays
  <2>2. UsedFits'
    BY <1>1, <1>3, <2>1, Zenon DEF UsedFits
  <2>3. used' \in FeedPeriods
    BY <1>3, Zenon DEF FeedPeriods
  <2>4. phase' \in FeedPhases /\ phase' # "validate" /\ phase' # "served"
        /\ phase' \notin {"validate", "served"}
    BY <1>1, <1>3 DEF FeedPhases
  <2> QED
    BY <1>1, <1>2, <2>2, <2>3, <2>4, Zenon DEF FeedInv, FeedSound
<1>4. CASE phase' = "raised" /\ used' = used /\ emptied' = emptied
  <2>1. phase' \in FeedPhases /\ phase' # "validate" /\ phase' # "served" /\ phase' # "yfinance"
        /\ phase' \notin {"validate", "served"}
    BY <1>4 DEF FeedPhases
  <2> QED
    BY <1>1, <1>2, <1>4, <2>1, Zenon DEF FeedInv, FeedSound
<1> QED
  BY <1>1, <1>3, <1>4

LEMMA FetchedStep ==
  ASSUME FeedInv, NEW answer \in BoundedSeq(AnyBar, MaxRows), Fetched(answer)
  PROVE  FeedInv'
<1>1. /\ phase = "yfinance" /\ raw' = answer /\ source' = "yfinance"
      /\ phase' = (IF Len(frame') < FetchMin THEN "raised" ELSE "validate")
      /\ request' = request /\ used' = used /\ emptied' = emptied /\ passed' = passed
  BY DEF Fetched
<1>2. PICK o \in OnePerTime(answer) : frame' = Where(o, Closed)
  BY DEF Fetched
<1>3. answer \in Seq(AnyBar) /\ Len(answer) <= MaxRows
  BY AnswerType
<1>4. Left(frame', answer)
  BY <1>2, <1>3, FetchLeaves
<1>5. frame' \in Seq(AnyBar) /\ Len(frame') <= Len(answer)
  BY <1>4 DEF Left
<1>6. used \in FeedPeriods /\ request \in Requests /\ UsedFits /\ ~passed
  <2>1. phase # "idle" /\ phase \notin {"served", "raised"}
    BY <1>1
  <2> QED
    BY <1>1, <2>1, Zenon DEF FeedInv
<1>7. UsedFits'
  BY <1>1, <1>6, Zenon DEF UsedFits
<1>8. phase' \in FeedPhases /\ phase' # "yfinance" /\ phase' # "served"
  BY <1>1 DEF FeedPhases
<1>9. source' \in FeedSources
  BY <1>1, Zenon DEF FeedSources
<1> QED
  BY <1>1, <1>3, <1>4, <1>5, <1>6, <1>7, <1>8, <1>9, Zenon DEF FeedInv, FeedSound

LEMMA ValidateStep == ASSUME FeedInv, Validate PROVE FeedInv'
<1>1. /\ phase = "validate" /\ frame' = Cleaned(frame)
      /\ passed' = (~TooManyNaN(frame) /\ Len(frame') >= ValidMin)
      /\ phase' = (IF Len(frame') < request.min THEN "raised" ELSE "served")
      /\ request' = request /\ used' = used /\ emptied' = emptied /\ raw' = raw /\ source' = source
  BY Zenon DEF Validate
<1>2. /\ used \in FeedPeriods /\ source \in FeedSources /\ request \in Requests
      /\ raw \in Seq(AnyBar) /\ Len(raw) <= MaxRows /\ Left(frame, raw)
      /\ source = "yfinance" => UsedFits
  <2>1. phase # "idle" /\ phase \in {"validate", "served"}
    BY <1>1
  <2> QED
    BY <1>1, <2>1, Zenon DEF FeedInv
<1>3. /\ frame' \in Seq(AnyBar) /\ Len(frame') <= Len(raw) /\ Rising(frame')
      /\ \A i \in 1..Len(frame') :
           /\ frame'[i].kind \in {"good", "negative"}
           /\ frame'[i].kind = "negative" =>
                ~\E j \in 1..Len(raw) : raw[j].kind = "zero" /\ AloneIn(raw, raw[j])
      /\ \A i \in 1..Len(raw) :
           /\ raw[i].kind = "good" /\ AloneIn(raw, raw[i])
           /\ request.interval = "1d" => raw[i].at \notin SatSun
           => \E j \in 1..Len(frame') : frame'[j] = raw[i]
      /\ ~TooManyNaN(frame)
  BY <1>1, <1>2, CleanFacts
<1>4. /\ phase' \in FeedPhases /\ phase' # "yfinance" /\ phase' # "validate"
      /\ phase' \in {"served", "raised"} /\ phase' # "idle"
  BY <1>1 DEF FeedPhases
<1>5. source' = "yfinance" => UsedFits'
  BY <1>1, <1>2, Zenon DEF UsedFits
<1>6. ASSUME phase' = "served"
      PROVE  /\ \A i \in 1..(Len(frame') - 1) : frame'[i].at < frame'[i + 1].at
             /\ Len(frame') >= request'.min
             /\ ~passed' => Len(frame') < ValidMin
  <2>1. Len(frame') \in Nat /\ ValidMin \in Nat /\ request.min \in Nat
    BY <1>2, <1>3, MarketDataAssumption
  <2>2. ~(Len(frame') < request.min)
    BY <1>1, <1>6
  <2>3. ~passed' => ~(Len(frame') >= ValidMin)
    BY <1>1, <1>3, Zenon
  <2>4. ASSUME NEW i \in 1..(Len(frame') - 1) PROVE frame'[i].at < frame'[i + 1].at
    <3>1. i \in 1..Len(frame') /\ i + 1 \in 1..Len(frame') /\ i < i + 1
      BY <2>1
    <3> QED
      BY <1>3, <3>1 DEF Rising
  <2> QED
    BY <1>1, <2>1, <2>2, <2>3, <2>4
<1>8. FeedSound'
  <2> SUFFICES ASSUME phase' = "served" PROVE FeedSound'
    BY Zenon DEF FeedSound
  <2>1. \A i \in 1..Len(frame') :
          /\ frame'[i].kind \in {"good", "negative"}
          /\ frame'[i].kind = "negative" =>
               ~\E j \in 1..Len(raw') : raw'[j].kind = "zero" /\ AloneIn(raw', raw'[j])
    BY <1>1, <1>3, Zenon
  <2>2. \A i \in 1..Len(raw') :
          raw'[i].kind = "good" /\ AloneIn(raw', raw'[i])
          /\ (request'.interval = "1d" => raw'[i].at \notin SatSun) =>
               \E j \in 1..Len(frame') : frame'[j] = raw'[i]
    BY <1>1, <1>3, Zenon
  <2>3. source' = "yfinance" =>
          /\ ToDays(used') < ToDays(request'.period) => emptied' \/ used' = Cap(request'.interval)
          /\ request'.weekend => ToDays(used') > 2
    BY <1>5, Zenon DEF UsedFits
  <2> QED
    BY <1>6, <2>1, <2>2, <2>3, Zenon DEF FeedSound, Alone, AloneIn
<1> QED
  BY <1>1, <1>2, <1>3, <1>4, <1>5, <1>8, Zenon DEF FeedInv

LEMMA NextFeed == FeedInv /\ [FeedNext]_feedVars => FeedInv'
<1> SUFFICES ASSUME FeedInv, [FeedNext]_feedVars PROVE FeedInv'
  OBVIOUS
<1>1. CASE UNCHANGED feedVars
  <2>1. /\ phase' = phase /\ request' = request /\ used' = used /\ emptied' = emptied
        /\ raw' = raw /\ source' = source /\ frame' = frame /\ passed' = passed
    BY <1>1 DEF feedVars
  <2>2. FeedSound'
    <3>1. FeedSound
      BY Zenon DEF FeedInv
    <3> QED
      BY ONLY <2>1, <3>1, ZenonT(60) DEF FeedSound, Alone
  <2>3. UsedFits' <=> UsedFits
    BY <2>1, Zenon DEF UsedFits
  <2> QED
    BY <2>1, <2>2, <2>3, Zenon DEF FeedInv
<1>2. CASE FeedNext
  BY <1>2, GetBarsStep, AngelStep, FetchedStep, EmptyStep, ValidateStep, Zenon DEF FeedNext
<1> QED
  BY <1>1, <1>2

\* What the invariant of the feed says of the types.
LEMMA FeedInvTypes == FeedInv => FeedTypeOK
<1> SUFFICES ASSUME FeedInv PROVE FeedTypeOK
  OBVIOUS
<1>1. \A i \in 1..Len(frame) : frame[i] \in AnyBar
  <2>1. frame \in Seq(AnyBar)
    BY DEF FeedInv
  <2> QED
    BY <2>1, RowOf
<1> QED
  BY <1>1, Zenon DEF FeedInv, FeedTypeOK, FeedPhases, FeedPeriods, FeedSources

-----------------------------------------------------------------------------
(* The whole.                                                               *)

\* A step of the whole is a step of every part, or leaves it alone.
LEMMA NextOfParts ==
  ASSUME [Next]_vars
  PROVE  /\ [SimNext]_simVars /\ [PfNext]_pfVars /\ [WfNext]_wfVars
         /\ [BarNext]_barVars /\ [DomainNext]_domainVars /\ [FeedNext]_feedVars
         /\ [SignalsNext]_signalVars /\ [ChainNext]_chainVars /\ [SizingNext]_sizingVars
<1> DEFINE Kept == /\ UNCHANGED simVars /\ UNCHANGED pfVars /\ UNCHANGED wfVars
           KeptObjects == /\ UNCHANGED barVars /\ UNCHANGED domainVars /\ UNCHANGED feedVars
           KeptFrames == /\ UNCHANGED signalVars /\ UNCHANGED chainVars /\ UNCHANGED sizingVars
<1>1. UNCHANGED backtestVars => Kept
  BY DEF backtestVars
<1>2. UNCHANGED objectVars => KeptObjects
  BY DEF objectVars
<1>3. UNCHANGED frameVars => KeptFrames
  BY DEF frameVars
<1>4. UNCHANGED vars => Kept /\ KeptObjects /\ KeptFrames
  BY DEF vars
<1>5. UNCHANGED <<objectVars, frameVars>> => KeptObjects /\ KeptFrames
  <2>1. UNCHANGED <<objectVars, frameVars>> => UNCHANGED objectVars /\ UNCHANGED frameVars
    OBVIOUS
  <2> QED
    BY <1>2, <1>3, <2>1, Zenon
<1>6. UNCHANGED <<backtestVars, frameVars>> => Kept /\ KeptFrames
  <2>1. UNCHANGED <<backtestVars, frameVars>> => UNCHANGED backtestVars /\ UNCHANGED frameVars
    OBVIOUS
  <2> QED
    BY <1>1, <1>3, <2>1, Zenon
<1>7. UNCHANGED <<backtestVars, objectVars>> => Kept /\ KeptObjects
  <2>1. UNCHANGED <<backtestVars, objectVars>> => UNCHANGED backtestVars /\ UNCHANGED objectVars
    OBVIOUS
  <2> QED
    BY <1>1, <1>2, <2>1, Zenon
<1>8. /\ UNCHANGED <<pfVars, wfVars>> => UNCHANGED pfVars /\ UNCHANGED wfVars
      /\ UNCHANGED <<simVars, wfVars>> => UNCHANGED simVars /\ UNCHANGED wfVars
      /\ UNCHANGED <<simVars, pfVars>> => UNCHANGED simVars /\ UNCHANGED pfVars
  OBVIOUS
<1>9. /\ UNCHANGED <<domainVars, feedVars>> => UNCHANGED domainVars /\ UNCHANGED feedVars
      /\ UNCHANGED <<barVars, feedVars>> => UNCHANGED barVars /\ UNCHANGED feedVars
      /\ UNCHANGED <<barVars, domainVars>> => UNCHANGED barVars /\ UNCHANGED domainVars
  OBVIOUS
<1>10. /\ UNCHANGED <<chainVars, sizingVars>> => UNCHANGED chainVars /\ UNCHANGED sizingVars
       /\ UNCHANGED <<signalVars, sizingVars>> => UNCHANGED signalVars /\ UNCHANGED sizingVars
       /\ UNCHANGED <<signalVars, chainVars>> => UNCHANGED signalVars /\ UNCHANGED chainVars
  OBVIOUS
<1>11. CASE UNCHANGED vars
  BY <1>4, <1>11, Zenon
<1>12. CASE Next
  <2>1. \/ /\ KeptObjects /\ KeptFrames
           /\ \/ SimNext /\ UNCHANGED pfVars /\ UNCHANGED wfVars
              \/ PfNext /\ UNCHANGED simVars /\ UNCHANGED wfVars
              \/ WfNext /\ UNCHANGED simVars /\ UNCHANGED pfVars
        \/ /\ Kept /\ KeptFrames
           /\ \/ BarNext /\ UNCHANGED domainVars /\ UNCHANGED feedVars
              \/ DomainNext /\ UNCHANGED barVars /\ UNCHANGED feedVars
              \/ FeedNext /\ UNCHANGED barVars /\ UNCHANGED domainVars
        \/ /\ Kept /\ KeptObjects
           /\ \/ SignalsNext /\ UNCHANGED chainVars /\ UNCHANGED sizingVars
              \/ ChainNext /\ UNCHANGED signalVars /\ UNCHANGED sizingVars
              \/ SizingNext /\ UNCHANGED signalVars /\ UNCHANGED chainVars
    <3> HIDE DEF Kept, KeptObjects, KeptFrames
    <3> QED
      BY <1>5, <1>6, <1>7, <1>8, <1>9, <1>10, <1>12, Zenon DEF Next
  <2> QED
    BY <2>1, Zenon
<1> QED
  BY <1>11, <1>12

\* A backtest of one symbol or of a portfolio accounts for its money
\* (backtesting/engine.py, portfolio_engine.py).
THEOREM BacktestsAccountHolds == Spec => []BacktestsAccount
<1>1. Init => SimInv /\ PfInv
  BY InitSim, InitPf DEF Init
<1>2. SimInv /\ PfInv /\ [Next]_vars => SimInv' /\ PfInv'
  BY NextOfParts, NextSim, NextPf, Zenon
<1>3. SimInv /\ PfInv => BacktestsAccount
  BY SimInvAccounts, PfInvAccounts, Zenon DEF BacktestsAccount
<1> QED
  BY <1>1, <1>2, <1>3, PTL DEF Spec

\* The out-of-sample parts of a walk forward chain end to end, but for the days
\* that a month does not have (walk_forward.py).
THEOREM WfForwardsChainHolds == Spec => []WfForwardsChain
<1>1. Init => WfInv
  BY InitWf DEF Init
<1>2. WfInv /\ [Next]_vars => WfInv'
  BY NextOfParts, NextWf, Zenon
<1> QED
  BY <1>1, <1>2, WfInvChain, PTL DEF Spec

\* Orders, fills, positions and money agree after any calls, those that raise half
\* way included, and the rules, which look at the portfolio only, are overstepped
\* by no more than the orders approved together, however many there are at work
\* (order.py, position.py, portfolio.py, risk_rule.py of domain/).
THEOREM DomainBooksHolds == Spec => []DomainBooks
<1>1. Init => DomainInv
  BY InitDomain DEF Init
<1>2. DomainInv /\ [Next]_vars => DomainInv'
  BY NextOfParts, NextDomain, Zenon
<1>3. DomainInv => DomainBooks
  BY HeadroomBounds DEF DomainInv, DomainBooks
<1> QED
  BY <1>1, <1>2, <1>3, PTL DEF Spec

\* The strategy that trades is the one that was backtested: what triple_ema
\* signals bar by bar is what generate_signals() has there, but for the bar that
\* ends the warm-up, repetitions and prices above the stake (on_bar(),
\* generate_signals()).
THEOREM SignalsAgreeHolds == Spec => []SignalsAgree
<1>1. Init => BarInv
  BY InitBar DEF Init
<1>2. BarInv /\ [Next]_vars => BarInv'
  BY NextOfParts, NextBar, Zenon
<1>3. BarInv => SignalsAgree
  BY Zenon DEF BarInv
<1> QED
  BY <1>1, <1>2, <1>3, PTL DEF Spec

\* No strategy looks ahead: what is decided on a bar stays right as bars are
\* added to the frame (strategies/plugins/orb.py, vwap.py, engine/ensemble.py).
THEOREM NoLookaheadHolds == Spec => []NoLookahead
<1>1. Init => SignalsInv
  BY InitSignals DEF Init
<1>2. SignalsInv /\ [Next]_vars => SignalsInv'
  BY NextOfParts, NextSignals, Zenon
<1>3. SignalsInv => NoLookahead
  BY SignalsInvAhead, Zenon
<1> QED
  BY <1>1, <1>2, <1>3, PTL DEF Spec

\* A size asked for is safe, and so is a chain of options (risk/sizer.py,
\* risk/manager.py, backtesting/multi_runner.py, derivatives/options.py).
THEOREM ComputationsSoundHolds == Spec => []ComputationsSound
<1>1. Init => SizingInv /\ ChainInv
  BY InitSizing, InitChain, Zenon DEF Init
<1>2. SizingInv /\ ChainInv /\ [Next]_vars => SizingInv' /\ ChainInv'
  BY NextOfParts, NextSizing, NextChain, Zenon
<1>3. SizingInv /\ ChainInv => ComputationsSound
  BY SizingInvCapped, Zenon DEF ChainInv, ComputationsSound
<1> QED
  BY <1>1, <1>2, <1>3, PTL DEF Spec

\* The bars that are served are in order of time, one for each time, and no good
\* one is lost; a provider is asked for less than the request only by its cap or
\* its emptiness (data/fetcher.py, validator.py).
THEOREM FeedSoundHolds == Spec => []FeedSound
<1>1. Init => FeedInv
  BY InitFeed DEF Init
<1>2. FeedInv /\ [Next]_vars => FeedInv'
  BY NextOfParts, NextFeed, Zenon
<1>3. FeedInv => FeedSound
  BY Zenon DEF FeedInv
<1> QED
  BY <1>1, <1>2, <1>3, PTL DEF Spec

\* Every part keeps to its types.
THEOREM TypeOKHolds == Spec => []TypeOK
<1>1. Init => SimInv /\ PfInv /\ WfInv /\ BarInv /\ DomainInv /\ FeedInv
              /\ SignalsInv /\ ChainInv /\ SizingInv
  BY InitSim, InitPf, InitWf, InitBar, InitDomain, InitFeed, InitSignals, InitChain, InitSizing,
     Zenon DEF Init
<1>2. /\ SimInv /\ [Next]_vars => SimInv'
      /\ PfInv /\ [Next]_vars => PfInv'
      /\ WfInv /\ [Next]_vars => WfInv'
      /\ BarInv /\ [Next]_vars => BarInv'
      /\ DomainInv /\ [Next]_vars => DomainInv'
      /\ FeedInv /\ [Next]_vars => FeedInv'
      /\ SignalsInv /\ [Next]_vars => SignalsInv'
      /\ ChainInv /\ [Next]_vars => ChainInv'
      /\ SizingInv /\ [Next]_vars => SizingInv'
  BY NextOfParts, NextSim, NextPf, NextWf, NextBar, NextDomain, NextFeed, NextSignals, NextChain,
     NextSizing, Zenon
<1>3. SimInv /\ PfInv /\ WfInv /\ BarInv /\ DomainInv /\ FeedInv
      /\ SignalsInv /\ ChainInv /\ SizingInv => TypeOK
  BY SimInvAccounts, PfInvAccounts, WfInvTypes, BarInvTypes, DomainTypeOKHolds, FeedInvTypes,
     SignalsInvAhead, SizingInvCapped, Zenon DEF ChainInv, TypeOK
<1> QED
  BY <1>1, <1>2, <1>3, PTL DEF Spec

=============================================================================
