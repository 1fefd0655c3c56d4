--------------------------- MODULE TradingDay_proofs ---------------------------
(***************************************************************************)
(* Proofs about TradingDay, for any symbols, quantities, prices, capital,  *)
(* fees, limits, days, orders and restarts.                                *)
(***************************************************************************)
EXTENDS TradingDay, Sums, TLAPS

\* The limits as whoever reads them next will find them.
Current == AutoReset(limits, day)

Filling   == order # None /\ order.at = "fill"
Recording == order # None /\ order.at = "record"
Pending == IF Recording THEN 1 ELSE 0

(***************************************************************************)
(* Each sale of the day is counted by the limits, or about to be, or was   *)
(* counted before a reset that a session start or a restart has made.      *)
(***************************************************************************)
SalesCounted ==
  /\ soldToday <= MaxTrades * restarts + Current.trades + Pending
  /\ Current.trades + Pending <= MaxTrades

(***************************************************************************)
(* What the gate has tested still holds when the trade is recorded,        *)
(* whatever resets, starts or days came in between: the limits of a new    *)
(* day or session pass too.                                                *)
(***************************************************************************)
Below(l) ==
  /\ l.trades < MaxTrades
  /\ l.pnl > -MaxLoss
  /\ l.peak >= Capital => DrawdownParts * (l.peak - Equity(l)) < l.peak

\* LossBounded of any limits.
LossWithin(l) ==
  /\ l.pnl > -(MaxLoss + WorstTrade)
  /\ l.peak >= Capital => DrawdownParts * (l.peak - Equity(l) - WorstTrade) < l.peak

StillBelow == order # None => Below(Current)

\* What a share was bought for, and so the worst that its sale can bring.
HeldInRange ==
  \A s \in Symbols : held[s].qty <= MaxHeld /\ held[s].avg <= Dearest

OrderFits ==
  /\ Filling /\ order.side = "BUY" => held[order.symbol].qty + order.qty <= MaxHeld
  /\ Recording => order.pnl >= -WorstTrade

\* The log is behind by the sale that is about to be entered.
LogInStep ==
  /\ log + Pending = sold
  /\ \A d \in 1..LastDay : reports[d] # None =>
       reports[d].trades \in {reports[d].sold - 1, reports[d].sold}

DayInv ==
  /\ TypeOK
  /\ SalesCounted /\ StillBelow /\ LossBounded
  /\ HeldInRange /\ OrderFits /\ LogInStep

-----------------------------------------------------------------------------
\* What the prices are between.
Priced(p) == Min(Prices) <= p /\ p <= Max(Prices)

LEMMA PriceRange ==
  /\ Min(Prices) \in Prices /\ Max(Prices) \in Prices
  /\ Min(Prices) \in Nat /\ Max(Prices) \in Nat
  /\ Min(Prices) <= Max(Prices)
  /\ \A p \in Prices : p \in Nat /\ Priced(p)
<1>1. Min(Prices) \in Prices /\ \A p \in Prices : Min(Prices) <= p
  BY TradingDayAssumption DEF Min
<1>2. Max(Prices) \in Prices /\ \A p \in Prices : Max(Prices) >= p
  BY TradingDayAssumption DEF Max
<1> QED BY <1>1, <1>2, TradingDayAssumption DEF Priced

\* A product is as monotone as one expects.
LEMMA Product ==
  ASSUME NEW m \in Nat, NEW a \in Int, NEW b \in Int, a <= b
  PROVE  m * a <= m * b
<1> DEFINE d == b - a
<1>1. d \in Nat
  OBVIOUS
<1>2. m * d >= 0
  BY <1>1
<1>3. m * d = m * b - m * a
  OBVIOUS
<1> HIDE DEF d
<1>4. m * a \in Int /\ m * b \in Int
  OBVIOUS
<1> QED BY <1>2, <1>3, <1>4

\* A multiple of w next to x is at most half of w away from it ...
LEMMA Near ==
  ASSUME NEW x \in Int, NEW w \in Nat \ {0}, NEW k \in {x \div w, x \div w + 1},
         2 * (k * w - x) \in -w..w
  PROVE  /\ k \in Int
         /\ x \in Nat => k \in Nat
         /\ \A m \in Int : x <= w * m => k <= m
<1> DEFINE low == x \div w
<1>1. low \in Int /\ x = w * low + (x % w) /\ x % w \in 0..(w - 1) /\ (x \in Nat => low \in Nat)
  OBVIOUS
<1>2. k \in {low, low + 1}
  OBVIOUS
<1> HIDE DEF low
<1>3. k \in Int /\ (x \in Nat => k \in Nat)
  BY <1>1, <1>2
<1>4. ASSUME NEW m \in Int, x <= w * m, k > m PROVE FALSE
  <2>1. w * low <= w * m
    BY <1>1, <1>4
  <2>2. ~(m < low)
    <3> SUFFICES ASSUME m + 1 <= low PROVE FALSE
      BY <1>1
    <3>1. w * (m + 1) <= w * low
      BY <1>1, Product
    <3>2. w * (m + 1) = w * m + w /\ w * m \in Int /\ w * low \in Int
      BY <1>1
    <3> QED BY <2>1, <3>1, <3>2
  <2>3. k = low + 1 /\ low = m
    BY <1>1, <1>2, <1>4, <2>2
  <2>4. x = w * m
    BY <1>1, <1>4, <2>3
  <2>5. k * w = w * m + w /\ w * m \in Int
    BY <1>1, <2>3
  <2> QED BY <2>4, <2>5
<1> QED BY <1>3, <1>4

\* ... so that rounding moves an amount by half a unit at most, and not beyond a
\* multiple of the unit.
LEMMA RoundedNear ==
  ASSUME NEW x \in Int, NEW d \in Nat \ {0}, NEW unit \in Nat \ {0},
         NEW r \in Rounded(x, d, unit)
  PROVE  /\ r \in Int
         /\ x \in Nat => r \in Nat
         /\ 2 * (d * r - x) \in -(d * unit)..d * unit
         /\ \A m \in Int : x <= d * (unit * m) => r <= unit * m
<1> DEFINE w == d * unit
<1>1. w \in Nat \ {0}
  OBVIOUS
<1>2. PICK k \in {x \div w, x \div w + 1} : 2 * (k * w - x) \in -w..w /\ r = unit * k
  BY DEF Rounded
<1> HIDE DEF w
<1>3. /\ k \in Int /\ (x \in Nat => k \in Nat)
      /\ \A m \in Int : x <= w * m => k <= m
  BY <1>1, <1>2, Near
<1>4. r \in Int /\ (x \in Nat => r \in Nat)
  BY <1>2, <1>3
<1>5. k * w = d * r
  BY <1>2, <1>3 DEF w
<1>6. 2 * (d * r - x) \in -w..w
  BY <1>2, <1>5
<1>7. ASSUME NEW m \in Int, x <= d * (unit * m) PROVE r <= unit * m
  <2>1. d * (unit * m) = w * m
    BY DEF w
  <2>2. k <= m
    BY <1>3, <1>7, <2>1
  <2> QED BY <1>2, <1>3, <2>2, Product
<1> QED BY <1>4, <1>6, <1>7 DEF w

\* The dearest average is a multiple of the unit, and no price is above it.
LEMMA DearestRange ==
  /\ Dearest \in Nat /\ \A p \in Prices : p <= Dearest
  /\ \E m \in Int : Dearest = AvgUnit * m
<1> DEFINE hi == Max(Prices)
           y == hi + AvgUnit - 1
           m == y \div AvgUnit
<1>1. hi \in Nat /\ AvgUnit \in Nat \ {0} /\ y \in Nat
  BY PriceRange, TradingDayAssumption
<1> HIDE DEF hi
<1>2. m \in Nat /\ y = AvgUnit * m + (y % AvgUnit) /\ y % AvgUnit \in 0..(AvgUnit - 1)
  BY <1>1
<1> HIDE DEF m
<1>3. AvgUnit * m \in Nat
  BY <1>1, <1>2
<1>4. hi <= AvgUnit * m
  BY <1>1, <1>2, <1>3
<1>5. Dearest = AvgUnit * m
  BY DEF Dearest, m, hi
<1>6. \A p \in Prices : p \in Nat /\ p <= hi
  BY PriceRange DEF hi, Priced
<1>7. \A p \in Prices : p <= Dearest
  BY <1>1, <1>3, <1>4, <1>5, <1>6
<1> QED BY <1>2, <1>3, <1>5, <1>7

\* What a BUY may write for the average.
LEMMA AverageRange ==
  ASSUME NEW h \in [qty : Nat, avg : Nat], NEW n \in Nat \ {0}, NEW p \in Prices,
         h.avg <= Dearest, NEW avg \in Averages(h, n, p)
  PROVE  /\ avg \in Nat /\ avg <= Dearest
         /\ h.qty = 0 => avg = p
         /\ h.qty > 0 => 2 * ((h.qty + n) * avg - (h.qty * h.avg + n * p))
                            \in -((h.qty + n) * AvgUnit)..(h.qty + n) * AvgUnit
<1>1. p \in Nat /\ p <= Dearest /\ Dearest \in Nat
  BY DearestRange, PriceRange
<1>2. CASE h.qty = 0
  BY <1>1, <1>2 DEF Averages
<1>3. CASE h.qty > 0
  <2> DEFINE m == h.qty
             a == h.avg
             x == m * a + n * p
             w == m + n
  <2>1. m \in Nat /\ a \in Nat /\ m > 0 /\ a <= Dearest
    BY <1>3
  <2>2. avg \in Rounded(x, w, AvgUnit)
    BY <1>3 DEF Averages
  <2>3. x \in Nat /\ w \in Nat \ {0} /\ AvgUnit \in Nat \ {0}
    <3> HIDE DEF m, a
    <3> QED BY <1>1, <2>1, TradingDayAssumption
  <2>4. x <= w * Dearest
    <3> HIDE DEF m, a
    <3>1. m * a <= m * Dearest /\ n * p <= n * Dearest
      BY <1>1, <2>1, Product
    <3>2. w * Dearest = m * Dearest + n * Dearest
      BY <1>1, <2>1
    <3>3. m * a \in Int /\ n * p \in Int /\ m * Dearest \in Int /\ n * Dearest \in Int
      BY <1>1, <2>1
    <3> QED BY <3>1, <3>2, <3>3
  <2> HIDE DEF m, a, x, w
  <2>5. PICK k \in Int : Dearest = AvgUnit * k
    BY DearestRange
  <2>6. /\ avg \in Nat /\ 2 * (w * avg - x) \in -(w * AvgUnit)..w * AvgUnit
        /\ \A j \in Int : x <= w * (AvgUnit * j) => avg <= AvgUnit * j
    <3>1. x \in Int
      BY <2>3
    <3> QED BY <2>2, <2>3, <3>1, RoundedNear, Zenon
  <2>7. avg <= Dearest
    BY <2>4, <2>5, <2>6
  <2> QED BY <1>3, <2>6, <2>7 DEF m, a, x, w
<1> QED BY <1>2, <1>3

LEMMA WorstIsNat ==
  /\ WorstTrade \in Nat
  /\ MaxHeld * (Dearest - Min(Prices)) \in Nat
  /\ Fee \in Nat /\ PnlUnit \div 2 \in Nat
<1>1. Dearest - Min(Prices) \in Nat
  BY PriceRange, DearestRange
<1>2. MaxHeld \in Nat /\ Fee \in Nat /\ PnlUnit \div 2 \in Nat
  BY TradingDayAssumption
<1>3. MaxHeld * (Dearest - Min(Prices)) \in Nat
  BY <1>1, <1>2
<1> QED BY <1>2, <1>3 DEF WorstTrade

\* The records of the model, field by field.
LEMMA Shapes ==
  ASSUME TypeOK
  PROVE  /\ limits.trades \in Nat /\ limits.pnl \in Int /\ limits.peak \in Nat
         /\ limits.date \in 1..day
         /\ \A s \in Symbols : held[s].qty \in Nat /\ held[s].avg \in Nat
         /\ order # None => /\ order \in Orders
                            /\ order.symbol \in Symbols /\ order.qty \in Quantities
                            /\ order.qty \in Nat \ {0} /\ order.price \in Prices
                            /\ order.price \in Nat /\ order.pnl \in Int
                            /\ order.side \in {"BUY", "SELL"}
                            /\ order.at \in {"fill", "record"}
<1>1. order # None => order \in Orders
  BY DEF TypeOK
<1> QED BY <1>1, TradingDayAssumption DEF TypeOK, Orders

LEMMA CurrentLimits ==
  ASSUME TypeOK
  PROVE  /\ Current.trades \in Nat /\ Current.pnl \in Int /\ Current.peak \in Nat
         /\ Current.date = day
         /\ Current \in [trades : Nat, pnl : Int, peak : Nat, date : 1..day]
         /\ AutoReset(Current, day) = Current
<1>1. limits \in [trades : Nat, pnl : Int, peak : Nat, date : 1..day]
  BY DEF TypeOK
<1>2. day \in 1..day
  BY DEF TypeOK
<1>3. Reset(day) \in [trades : Nat, pnl : Int, peak : Nat, date : 1..day] /\ Reset(day).date = day
  BY <1>2, TradingDayAssumption DEF Reset
<1>4. CASE limits.date = day
  BY <1>1, <1>4 DEF Current, AutoReset
<1>5. CASE limits.date # day
  BY <1>3, <1>5 DEF Current, AutoReset
<1> QED BY <1>4, <1>5

\* What record_trade() writes.
LEMMA Recorded ==
  ASSUME NEW d, NEW l \in [trades : Nat, pnl : Int, peak : Nat, date : 1..d], NEW p \in Int
  PROVE  LET r == RecordTrade(l, p)
         IN  /\ r \in [trades : Nat, pnl : Int, peak : Nat, date : 1..d]
             /\ r.trades = l.trades + 1 /\ r.pnl = l.pnl + p /\ r.date = l.date
             /\ r.peak = IF Capital + l.pnl + p > l.peak THEN Capital + l.pnl + p ELSE l.peak
<1> DEFINE peak == IF Capital + l.pnl + p > l.peak THEN Capital + l.pnl + p ELSE l.peak
<1>1. peak \in Nat /\ l.trades + 1 \in Nat /\ l.pnl + p \in Int
  BY TradingDayAssumption
<1>2. RecordTrade(l, p) = [l EXCEPT !.trades = @ + 1, !.pnl = @ + p, !.peak = peak]
  BY DEF RecordTrade
<1> HIDE DEF peak
<1>3. RecordTrade(l, p) = [trades |-> l.trades + 1, pnl |-> l.pnl + p,
                           peak |-> peak, date |-> l.date]
  BY <1>2
<1> QED BY <1>1, <1>3 DEF peak

\* What the limits of a new session or a new process say.
LEMMA Fresh ==
  ASSUME NEW d
  PROVE  /\ Below(Reset(d)) /\ Below(Imported(d))
         /\ LossWithin(Reset(d)) /\ LossWithin(Imported(d))
         /\ Reset(d).trades = 0 /\ Imported(d).trades = 0
         /\ Reset(d).date = d /\ Imported(d).date = d
<1>1. /\ Capital \in Nat \ {0} /\ MaxTrades \in Nat \ {0} /\ MaxLoss \in Nat \ {0}
      /\ DrawdownParts \in Nat \ {0}
  BY TradingDayAssumption
<1>2. DrawdownParts * (Capital - (Capital + 0)) = 0
  BY <1>1
<1>3. Below(Reset(d))
  BY <1>1, <1>2 DEF Below, Reset, Equity
<1>4. Below(Imported(d))
  BY <1>1 DEF Below, Imported, Equity
<1>5. LossWithin(Reset(d)) /\ LossWithin(Imported(d))
  <2>1. DrawdownParts * (Capital - (Capital + 0) - WorstTrade) <= DrawdownParts * 0
    BY <1>1, WorstIsNat, Product
  <2>2. DrawdownParts * 0 = 0
    BY <1>1
  <2> QED BY <1>1, <2>1, <2>2, WorstIsNat DEF LossWithin, Reset, Imported, Equity
<1> QED BY <1>3, <1>4, <1>5 DEF Reset, Imported

\* What a SELL may report.
LEMMA PnlNear ==
  ASSUME TypeOK, NEW o \in Orders, NEW gain \in SellPnls(o)
  PROVE  LET x == (o.price - held[o.symbol].avg) * o.qty - Fee IN
           x \in Int /\ gain \in Int /\ 2 * (gain - x) \in -PnlUnit..PnlUnit
<1> DEFINE p == o.price - held[o.symbol].avg
           n == o.qty
           x == p * n - Fee
<1>1. p \in Int /\ n \in Int
  <2>1. o.symbol \in Symbols /\ o.price \in Nat /\ o.qty \in Nat
    BY TradingDayAssumption DEF Orders
  <2>2. held[o.symbol].avg \in Nat
    BY <2>1 DEF TypeOK
  <2> QED BY <2>1, <2>2
<1>2. gain \in Rounded(x, 1, PnlUnit)
  BY DEF SellPnls
<1> HIDE DEF p, n
<1>3. x \in Int /\ PnlUnit \in Nat \ {0} /\ 1 \in Nat \ {0}
  BY <1>1, TradingDayAssumption
<1> HIDE DEF x
<1>4. gain \in Int /\ 2 * (1 * gain - x) \in -(1 * PnlUnit)..1 * PnlUnit
  BY <1>2, <1>3, RoundedNear
<1>5. gain \in Int /\ 2 * (gain - x) \in -PnlUnit..PnlUnit
  BY <1>3, <1>4
<1> QED BY <1>3, <1>5 DEF p, n, x

-----------------------------------------------------------------------------
LEMMA InitDay == Init => DayInv
<1> SUFFICES ASSUME Init PROVE DayInv
  OBVIOUS
<1> USE TradingDayAssumption
<1>1. TypeOK
  <2>1. limits \in [trades : Nat, pnl : Int, peak : Nat, date : 1..1]
    BY DEF Init, Imported
  <2>2. held \in [Symbols -> [qty : Nat, avg : Nat]] /\ log \in Nat /\ rounding \in Nat
    BY DEF Init, NoShares
  <2>3. reports \in [1..LastDay -> {None} \cup [trades : Nat, sold : Nat]]
    BY DEF Init
  <2>4. /\ phase \in Phases /\ trading \in BOOLEAN /\ due \in Jobs
        /\ scheduled \in BOOLEAN /\ open \in BOOLEAN
    BY Zenon DEF Init, Jobs
  <2>6. day = 1 /\ 1 \in 1..LastDay
    BY DEF Init
  <2>5. /\ cash \in Int /\ order = None /\ buyFees \in Nat /\ realised \in Int /\ sold \in Nat
        /\ soldToday \in Nat /\ orders \in 0..MaxOrders /\ restarts \in 0..MaxRestarts
    BY DEF Init
  <2> QED BY <2>1, <2>2, <2>3, <2>4, <2>5, <2>6 DEF TypeOK
<1>2. order = None /\ ~Recording /\ ~Filling /\ Pending = 0
  BY DEF Init, Recording, Filling, Pending
<1>3. Current = Imported(1) /\ limits = Imported(1)
  BY DEF Init, Current, AutoReset, Imported
<1>4. SalesCounted
  BY <1>2, <1>3, Fresh DEF SalesCounted, Init
<1>5. StillBelow
  BY <1>2 DEF StillBelow
<1>6. LossBounded
  <2>1. limits.pnl = 0 /\ limits.peak = 0
    BY <1>3 DEF Imported
  <2> QED BY <2>1, WorstIsNat DEF LossBounded
<1>7. HeldInRange
  BY DearestRange DEF HeldInRange, Init, NoShares
<1>8. OrderFits /\ LogInStep
  BY <1>2 DEF OrderFits, LogInStep, Init
<1> QED BY <1>1, <1>4, <1>5, <1>6, <1>7, <1>8 DEF DayInv


-----------------------------------------------------------------------------
LEMMA StartTypes ==
  ASSUME TypeOK, SessionStart
  PROVE  /\ limits' \in [trades : Nat, pnl : Int, peak : Nat, date : 1..day]
         /\ open' \in BOOLEAN /\ restarts' \in 0..MaxRestarts
<1>1. day \in 1..day /\ restarts \in 0..MaxRestarts /\ MaxRestarts \in Nat
  BY TradingDayAssumption DEF TypeOK
<1>2. Reset(day) \in [trades : Nat, pnl : Int, peak : Nat, date : 1..day]
  BY <1>1, TradingDayAssumption DEF Reset
<1>3. restarts' \in 0..MaxRestarts
  BY <1>1 DEF SessionStart
<1> QED BY <1>2, <1>3 DEF SessionStart

LEMMA CloseTypes ==
  ASSUME TypeOK, SessionClose
  PROVE  /\ reports' \in [1..LastDay -> {None} \cup [trades : Nat, sold : Nat]]
         /\ open' \in BOOLEAN
<1>1. BuildReport \in [trades : Nat, sold : Nat]
  BY Shapes DEF BuildReport, TypeOK
<1> QED BY <1>1 DEF SessionClose, TypeOK

LEMMA NextTypes ==
  ASSUME TypeOK, HeldInRange, [Next]_vars
  PROVE  TypeOK'
<1> USE DEF TypeOK
<1>1. CASE UNCHANGED vars
  BY <1>1 DEF vars, clock, session, broker, ledger, today
<1>2. ASSUME NEW s \in Symbols, NEW side \in {"BUY", "SELL"}, NEW n \in Quantities,
             NEW quote, NEW price \in Prices, Gate(s, side, n, quote, price)
      PROVE  TypeOK'
  <2>1. limits' \in [trades : Nat, pnl : Int, peak : Nat, date : 1..day]
    BY <1>2, CurrentLimits DEF Gate, Current
  <2>2. [side |-> side, symbol |-> s, qty |-> n, price |-> price,
         at |-> "fill", pnl |-> 0] \in Orders
    BY DEF Orders
  <2>3. order' \in {None} \cup Orders
    BY <1>2, <2>2 DEF Gate
  <2>4. orders' \in 0..MaxOrders
    <3>1. orders' \in {orders, orders + 1} /\ orders < MaxOrders
      BY <1>2 DEF Gate
    <3> QED BY <3>1, TradingDayAssumption, SMTT(40)
  <2> QED BY <1>2, <2>1, <2>3, <2>4 DEF Gate, clock, session, broker, ledger
<1>3. CASE Reject
  BY <1>3 DEF Reject, clock, session, broker, ledger, today
<1>4. CASE FillBuy
  <2>1. order # None /\ order.at = "fill"
    BY <1>4 DEF FillBuy
  <2> DEFINE h == held[order.symbol]
  <2>2. /\ order.symbol \in Symbols /\ order.qty \in Nat \ {0} /\ order.price \in Prices
        /\ order.price \in Nat /\ h \in [qty : Nat, avg : Nat]
        /\ h.qty \in Nat /\ h.avg \in Nat /\ h.avg <= Dearest
    BY <2>1, Shapes DEF HeldInRange
  <2>3. PICK avg \in Averages(h, order.qty, order.price) :
          held' = [held EXCEPT ![order.symbol] = [qty |-> h.qty + order.qty, avg |-> avg]]
    BY <1>4 DEF FillBuy
  <2> HIDE DEF h
  <2>4. avg \in Nat
    BY <2>2, AverageRange
  <2>5. [qty |-> h.qty + order.qty, avg |-> avg] \in [qty : Nat, avg : Nat]
    BY <2>2, <2>4, SMTT(40)
  <2>6. held' \in [Symbols -> [qty : Nat, avg : Nat]]
    BY <2>3, <2>5
  <2>7. cash' \in Int /\ buyFees' \in Nat
    <3>1. order.qty * order.price \in Int /\ Fee \in Nat
      BY <2>2, TradingDayAssumption
    <3> QED BY <1>4, <3>1 DEF FillBuy
  <2>8. rounding' \in Nat
    <3>1. AvgUnit * (h.qty + order.qty) \in Nat
      BY <2>2, TradingDayAssumption
    <3>2. rounding' \in {rounding, rounding + AvgUnit * (h.qty + order.qty)}
      BY <1>4 DEF FillBuy, h
    <3> QED BY <3>1, <3>2
  <2> QED BY <1>4, <2>6, <2>7, <2>8 DEF FillBuy, clock, session, today
<1>5. CASE FillSell
  <2>1. order # None /\ order.at = "fill" /\ order.side = "SELL" /\ ~Rejected(order)
    BY <1>5 DEF FillSell
  <2> DEFINE h == held[order.symbol]
  <2>2. /\ order \in Orders /\ order.symbol \in Symbols /\ order.qty \in Nat \ {0}
        /\ order.price \in Nat /\ h.qty \in Nat /\ h.avg \in Nat /\ h.qty >= order.qty
        /\ h \in [qty : Nat, avg : Nat]
    BY <2>1, Shapes, SMTT(40) DEF Rejected
  <2>3. [qty |-> h.qty - order.qty, avg |-> h.avg] \in [qty : Nat, avg : Nat]
    BY <2>2, SMTT(40)
  <2>4. held' \in [Symbols -> [qty : Nat, avg : Nat]]
    <3>1. NoShares \in [qty : Nat, avg : Nat]
      BY DEF NoShares
    <3> DEFINE new == IF h.qty = order.qty THEN NoShares ELSE [qty |-> h.qty - order.qty, avg |-> h.avg]
    <3>2. held' = [held EXCEPT ![order.symbol] = new]
      BY <1>5 DEF FillSell
    <3>3. new \in [qty : Nat, avg : Nat]
      BY <2>3, <3>1
    <3> HIDE DEF new
    <3> QED BY <3>2, <3>3
  <2>5. PICK gain \in SellPnls(order) :
          /\ realised' = realised + gain
          /\ order' = [order EXCEPT !.at = "record", !.pnl = gain]
    BY <1>5 DEF FillSell
  <2>5a. gain \in Int
    BY <2>2, PnlNear
  <2>6. order' \in Orders
    BY <2>2, <2>5, <2>5a DEF Orders
  <2>7. cash' \in Int /\ realised' \in Int /\ sold' \in Nat /\ soldToday' \in Nat
    <3>1. order.qty * order.price \in Int /\ Fee \in Nat
      BY <2>2, TradingDayAssumption, SMTT(40)
    <3>2. /\ cash' = cash + order.qty * order.price - Fee
          /\ sold' = sold + 1 /\ soldToday' = soldToday + 1
      BY <1>5 DEF FillSell
    <3> DEFINE proceeds == order.qty * order.price
    <3>3. proceeds \in Int /\ gain \in Int
      BY <2>5a, <3>1
    <3>4. cash' = cash + proceeds - Fee /\ realised' = realised + gain
      BY <2>5, <3>2
    <3>5. cash \in Int /\ realised \in Int /\ sold \in Nat /\ soldToday \in Nat
      OBVIOUS
    <3> HIDE DEF proceeds, h
    <3>6. cash' \in Int
      BY <3>1, <3>3, <3>4, <3>5
    <3>7. realised' \in Int
      BY <3>3, <3>4, <3>5
    <3>8. sold' \in Nat /\ soldToday' \in Nat
      BY <3>2, <3>5
    <3> QED BY <3>6, <3>7, <3>8
  <2>8. rounding' \in Nat
    <3>1. rounding' = rounding + PnlUnit
      BY <1>5 DEF FillSell
    <3> QED BY <3>1, TradingDayAssumption
  <2> QED BY <1>5, <2>4, <2>6, <2>7, <2>8 DEF FillSell, clock, session
<1>6. CASE LogAndRecord
  <2>1. order.pnl \in Int
    BY <1>6, Shapes DEF LogAndRecord
  <2>2. RecordTrade(Current, order.pnl) \in [trades : Nat, pnl : Int, peak : Nat, date : 1..day]
    BY <2>1, CurrentLimits, Recorded
  <2>3. log' \in Nat
    BY <1>6 DEF LogAndRecord
  <2> QED BY <1>6, <2>2, <2>3 DEF LogAndRecord, Current, clock, session, ledger, today
<1>7. CASE BrokerReset
  <2>1. log' \in Nat
    BY <1>7 DEF BrokerReset
  <2>2. held' \in [Symbols -> [qty : Nat, avg : Nat]]
    BY <1>7 DEF BrokerReset, NoShares
  <2> QED BY <1>7, <2>1, <2>2, TradingDayAssumption DEF BrokerReset, clock, session, today
<1>8. CASE RunJob
  BY <1>8, StartTypes, CloseTypes DEF RunJob, SessionStart, SessionClose, session, broker, ledger,
     today, Jobs
<1>9. CASE CallSession
  BY <1>9, StartTypes, CloseTypes DEF CallSession, SessionStart, SessionClose, clock, broker, ledger,
     today
<1>10. CASE NextPhase
  BY <1>10 DEF NextPhase, Job, Phases, Jobs, session, broker, ledger, today
<1>11. CASE Midnight
  <2>1. day' \in 1..LastDay /\ 1..day \subseteq 1..day'
    BY <1>11, TradingDayAssumption DEF Midnight
  <2>2. limits' \in [trades : Nat, pnl : Int, peak : Nat, date : 1..day']
    BY <1>11, <2>1 DEF Midnight
  <2> QED BY <1>11, <2>1, <2>2, TradingDayAssumption DEF Midnight, Phases, session, broker, ledger
<1>12. CASE Restart
  <2>1. log' \in Nat
    BY <1>12 DEF Restart
  <2>2. held' \in [Symbols -> [qty : Nat, avg : Nat]]
    BY <1>12 DEF Restart, NoShares
  <2>3. limits' \in [trades : Nat, pnl : Int, peak : Nat, date : 1..day]
    BY <1>12 DEF Restart, Imported
  <2>4. due' \in Jobs /\ scheduled' \in BOOLEAN /\ open' \in BOOLEAN
    BY <1>12, Zenon DEF Restart, Jobs
  <2>5. cash' \in Int /\ restarts' \in 0..MaxRestarts
    BY <1>12, TradingDayAssumption DEF Restart
  <2> QED BY <1>12, <2>1, <2>2, <2>3, <2>4, <2>5 DEF Restart
<1> QED BY <1>1, <1>2, <1>3, <1>4, <1>5, <1>6, <1>7, <1>8, <1>9, <1>10, <1>11, <1>12 DEF Next


-----------------------------------------------------------------------------
(***************************************************************************)
(* The rest of the invariant, conjunct by conjunct for each action.        *)
(***************************************************************************)
Rest == SalesCounted /\ StillBelow /\ LossBounded /\ HeldInRange /\ OrderFits /\ LogInStep

LEMMA LossOf == LossBounded <=> LossWithin(limits)
  BY DEF LossBounded, LossWithin

LEMMA Untouched ==
  ASSUME Rest,
         UNCHANGED <<day, limits, held, log, order, sold, soldToday, restarts, reports>>
  PROVE  Rest'
  BY DEF Rest, SalesCounted, StillBelow, LossBounded, HeldInRange, OrderFits, LogInStep,
     Current, Pending, Recording, Filling

LEMMA GateStep ==
  ASSUME TypeOK, Rest, NEW s \in Symbols, NEW side \in {"BUY", "SELL"}, NEW n \in Quantities,
         NEW quote, NEW price \in Prices, Gate(s, side, n, quote, price)
  PROVE  Rest'
<1>1. /\ order = None /\ limits' = Current /\ day' = day
      /\ UNCHANGED <<held, log, sold, soldToday, restarts, reports>>
  BY DEF Gate, Current, clock, session, broker, ledger
<1>2. Current' = Current
  BY <1>1, CurrentLimits DEF Current
<1>3. /\ order' # None => ~GateBlocks(Current, quote)
      /\ order' # None => /\ order'.at = "fill" /\ order'.symbol = s /\ order'.qty = n
                          /\ order'.price = price /\ order'.side = side
  BY <1>1 DEF Gate
<1>4. Pending = 0 /\ Pending' = 0 /\ ~Recording'
  BY <1>1, <1>3 DEF Pending, Recording
<1>5. SalesCounted'
  BY <1>1, <1>2, <1>4 DEF Rest, SalesCounted
<1>6. StillBelow'
  <2>1. SUFFICES ASSUME order' # None PROVE Below(Current)
    BY <1>2 DEF StillBelow
  <2>2. /\ Current.trades \in Nat /\ Current.pnl \in Int /\ Current.peak \in Nat
        /\ MaxTrades \in Nat /\ MaxLoss \in Nat /\ Capital \in Nat \ {0} /\ DrawdownParts \in Nat
    BY CurrentLimits, TradingDayAssumption
  <2>3. DrawdownParts * (Current.peak - Equity(Current)) \in Int
    BY <2>2 DEF Equity
  <2>4. ~Breached(Current)
    BY <1>3, <2>1 DEF GateBlocks
  <2> QED BY <2>2, <2>3, <2>4 DEF Breached, DrawnDown, Below
<1>7. LossBounded'
  <2>1. LossWithin(Current)
    BY Fresh, LossOf DEF Rest, Current, AutoReset
  <2> QED BY <1>1, <2>1 DEF LossBounded, LossWithin, Equity
<1>8. HeldInRange'
  BY <1>1 DEF Rest, HeldInRange
<1>9. OrderFits'
  <2>1. side = "BUY" => held[s].qty + n <= MaxHeld
    BY DEF Gate
  <2> QED BY <1>1, <1>3, <1>4, <2>1 DEF OrderFits, Filling
<1>10. LogInStep'
  BY <1>1, <1>4 DEF Rest, LogInStep
<1> QED BY <1>5, <1>6, <1>7, <1>8, <1>9, <1>10 DEF Rest

\* An order leaves place_order() without a trade ...
LEMMA RejectStep ==
  ASSUME TypeOK, Rest, Reject
  PROVE  Rest'
<1>1. /\ order.at = "fill" /\ order' = None
      /\ UNCHANGED <<day, limits, held, log, sold, soldToday, restarts, reports>>
  BY DEF Reject, clock, session, broker, ledger, today
<1>2. Pending = 0 /\ Pending' = 0 /\ ~Recording' /\ ~Filling' /\ Current' = Current
  BY <1>1 DEF Pending, Recording, Filling, Current
<1> QED BY <1>1, <1>2 DEF Rest, SalesCounted, StillBelow, LossBounded, HeldInRange, OrderFits,
           LogInStep, Equity

\* ... or a BUY moves the average within the range of the prices ...
LEMMA BuyStep ==
  ASSUME TypeOK, Rest, FillBuy
  PROVE  Rest'
<1> DEFINE h == held[order.symbol]
<1>0. PICK avg \in Averages(h, order.qty, order.price) :
        held' = [held EXCEPT ![order.symbol] = [qty |-> h.qty + order.qty, avg |-> avg]]
  BY DEF FillBuy
<1>1. /\ order # None /\ order.at = "fill" /\ order.side = "BUY" /\ order' = None
      /\ UNCHANGED <<day, limits, log, sold, soldToday, restarts, reports>>
  BY DEF FillBuy, clock, session, today
<1>2. Pending = 0 /\ Pending' = 0 /\ ~Recording' /\ ~Filling' /\ Current' = Current
  BY <1>1 DEF Pending, Recording, Filling, Current
<1>3. /\ order.symbol \in Symbols /\ order.qty \in Nat \ {0}
      /\ order.price \in Prices /\ h \in [qty : Nat, avg : Nat] /\ h.avg <= Dearest
  BY <1>1, Shapes DEF TypeOK, Rest, HeldInRange
<1>5. h.qty + order.qty <= MaxHeld
  BY <1>1 DEF Rest, OrderFits, Filling
<1> HIDE DEF h
<1>6. avg <= Dearest
  BY <1>3, AverageRange
<1>7. HeldInRange'
  <2> SUFFICES ASSUME NEW s \in Symbols
               PROVE  held'[s].qty <= MaxHeld /\ held'[s].avg <= Dearest
    BY DEF HeldInRange
  <2>1. CASE s = order.symbol
    <3>1. held'[s] = [qty |-> h.qty + order.qty, avg |-> avg]
      BY <1>0, <2>1 DEF TypeOK
    <3> QED BY <1>5, <1>6, <3>1
  <2>2. CASE s # order.symbol
    BY <1>0, <2>2 DEF TypeOK, Rest, HeldInRange
  <2> QED BY <2>1, <2>2
<1> QED BY <1>1, <1>2, <1>7 DEF Rest, SalesCounted, StillBelow, LossBounded, OrderFits,
           LogInStep, Equity


\* ... or a SELL is filled, at a loss that the range of the prices bounds ...
LEMMA WorstSale ==
  ASSUME NEW lo \in Nat, NEW hi \in Nat, NEW m \in Nat, NEW q \in Nat, NEW a \in Nat,
         NEW p \in Nat, NEW f \in Nat, lo <= p, lo <= hi, a <= hi, q <= m
  PROVE  (p - a) * q - f >= -(m * (hi - lo) + f)
<1>1. q * (a - p) <= q * (hi - lo)
  BY Product
<1>2. (hi - lo) * q <= (hi - lo) * m
  BY Product
<1>3. q * (hi - lo) = (hi - lo) * q /\ m * (hi - lo) = (hi - lo) * m
  OBVIOUS
<1>4. (p - a) * q = -(q * (a - p))
  OBVIOUS
<1>5. q * (a - p) \in Int /\ (hi - lo) * q \in Int /\ (hi - lo) * m \in Int
  OBVIOUS
<1> QED BY <1>1, <1>2, <1>3, <1>4, <1>5

LEMMA SellStep ==
  ASSUME TypeOK, Rest, FillSell
  PROVE  Rest'
<1> DEFINE h == held[order.symbol]
<1>1. /\ order # None /\ order.at = "fill" /\ order.side = "SELL" /\ ~Rejected(order)
      /\ held' = [held EXCEPT ![order.symbol] =
                    IF h.qty = order.qty THEN NoShares
                    ELSE [qty |-> h.qty - order.qty, avg |-> h.avg]]
      /\ sold' = sold + 1 /\ soldToday' = soldToday + 1
      /\ UNCHANGED <<day, limits, log, restarts, reports>>
  BY DEF FillSell, clock, session
<1>0. PICK gain \in SellPnls(order) : order' = [order EXCEPT !.at = "record", !.pnl = gain]
  BY DEF FillSell
<1>2. /\ order \in Orders /\ order.symbol \in Symbols /\ order.qty \in Nat \ {0}
      /\ order.price \in Nat /\ Priced(order.price)
      /\ h.qty \in Nat /\ h.avg \in Nat /\ h.qty >= order.qty
  BY <1>1, Shapes, PriceRange DEF Rejected
<1>3. h.qty <= MaxHeld /\ h.avg <= Dearest
  BY <1>2 DEF Rest, HeldInRange
<1>4. gain >= -WorstTrade /\ gain \in Int
  <2> DEFINE x == (order.price - h.avg) * order.qty - Fee
             worst == MaxHeld * (Dearest - Min(Prices)) + Fee
  <2>1. x >= -worst
    <3> DEFINE lo == Min(Prices)
               hi == Dearest
    <3>1. /\ lo \in Nat /\ hi \in Nat /\ MaxHeld \in Nat /\ Fee \in Nat
          /\ order.qty \in Nat /\ h.avg \in Nat /\ order.price \in Nat
          /\ lo <= order.price /\ lo <= hi /\ h.avg <= hi /\ order.qty <= MaxHeld
      BY <1>2, <1>3, PriceRange, DearestRange, TradingDayAssumption DEF Priced
    <3> HIDE DEF lo, hi, h
    <3>2. (order.price - h.avg) * order.qty - Fee >= -(MaxHeld * (hi - lo) + Fee)
      BY <3>1, WorstSale
    <3> QED BY <3>2 DEF lo, hi, h
  <2>2. x \in Int /\ gain \in Int /\ 2 * (gain - x) \in -PnlUnit..PnlUnit
    BY <1>2, PnlNear
  <2>3. worst \in Int /\ PnlUnit \in Nat
    BY WorstIsNat, TradingDayAssumption
  <2>4. WorstTrade = worst + PnlUnit \div 2
    BY DEF WorstTrade
  <2> HIDE DEF x, worst
  <2> QED BY <2>1, <2>2, <2>3, <2>4
<1>5. order' \in Orders /\ order' # None /\ order'.at = "record" /\ order'.pnl = gain
  <2>1. order' \in Orders /\ order'.at = "record" /\ order'.pnl = gain
    BY <1>0, <1>2, <1>4 DEF Orders
  <2> QED BY <2>1, TradingDayAssumption
<1>6. Pending = 0 /\ Pending' = 1 /\ Recording' /\ ~Filling' /\ Current' = Current
  BY <1>1, <1>5 DEF Pending, Recording, Filling, Current
<1>7. Below(Current)
  BY <1>1 DEF Rest, StillBelow
<1>8. SalesCounted'
  <2>1. /\ Current.trades \in Nat /\ Current.trades < MaxTrades /\ MaxTrades \in Nat
        /\ soldToday \in Nat
    BY <1>7, CurrentLimits, TradingDayAssumption DEF Below, TypeOK
  <2>2. MaxTrades * restarts \in Int
    BY TradingDayAssumption DEF TypeOK
  <2>3. soldToday <= MaxTrades * restarts + Current.trades
    BY <1>6, <2>1, <2>2 DEF Rest, SalesCounted
  <2> QED BY <1>1, <1>6, <2>1, <2>2, <2>3 DEF SalesCounted
<1>9. HeldInRange'
  <2> SUFFICES ASSUME NEW s \in Symbols
               PROVE  held'[s].qty <= MaxHeld /\ held'[s].avg <= Dearest
    BY DEF HeldInRange
  <2>1. CASE s = order.symbol /\ h.qty = order.qty
    <3>1. held'[s] = NoShares
      BY <1>1, <2>1 DEF TypeOK
    <3> QED BY <3>1, DearestRange, TradingDayAssumption DEF NoShares
  <2>2. CASE s = order.symbol /\ h.qty # order.qty
    <3>1. held'[s] = [qty |-> h.qty - order.qty, avg |-> h.avg]
      BY <1>1, <2>2 DEF TypeOK
    <3> QED BY <1>2, <1>3, <3>1, TradingDayAssumption
  <2>3. CASE s # order.symbol
    BY <1>1, <2>3 DEF TypeOK, Rest, HeldInRange
  <2> QED BY <2>1, <2>2, <2>3
<1>10. StillBelow' /\ LossBounded' /\ OrderFits'
  BY <1>1, <1>4, <1>5, <1>6, <1>7 DEF Rest, StillBelow, LossBounded, OrderFits, Equity
<1>11. LogInStep'
  BY <1>1, <1>6, Shapes DEF Rest, LogInStep, TypeOK
<1> QED BY <1>8, <1>9, <1>10, <1>11 DEF Rest

\* ... and is recorded: the first trade that may pass a limit.
LEMMA LossAfter ==
  ASSUME NEW d, NEW l \in [trades : Nat, pnl : Int, peak : Nat, date : 1..d],
         Below(l), NEW p \in Int, p >= -WorstTrade
  PROVE  LossWithin(RecordTrade(l, p))
<1> DEFINE r == RecordTrade(l, p)
           eq == Capital + l.pnl
<1>1. /\ r.pnl = l.pnl + p
      /\ r.peak = IF eq + p > l.peak THEN eq + p ELSE l.peak
  BY Recorded, ZenonT(60)
<1>2. /\ Capital \in Nat \ {0} /\ MaxLoss \in Nat /\ DrawdownParts \in Nat \ {0}
      /\ WorstTrade \in Nat /\ l.pnl \in Int /\ l.peak \in Nat /\ eq \in Int
  BY TradingDayAssumption, WorstIsNat
<1>3. Equity(r) = eq + p /\ Equity(l) = eq
  BY <1>1, <1>2 DEF Equity
<1> HIDE DEF r, eq
<1>4. r.pnl > -(MaxLoss + WorstTrade)
  BY <1>1, <1>2 DEF Below
<1>5. ASSUME r.peak >= Capital
      PROVE  DrawdownParts * (r.peak - (eq + p) - WorstTrade) < r.peak
  <2>1. CASE eq + p > l.peak
    <3>1. DrawdownParts * (r.peak - (eq + p) - WorstTrade) <= DrawdownParts * 0
      BY <1>1, <1>2, <2>1, Product
    <3>2. DrawdownParts * (r.peak - (eq + p) - WorstTrade) \in Int
      BY <1>1, <1>2, <2>1
    <3> QED BY <1>1, <1>2, <1>5, <2>1, <3>1, <3>2
  <2>2. CASE ~(eq + p > l.peak)
    <3>1. r.peak = l.peak
      BY <1>1, <2>2
    <3>2. DrawdownParts * (l.peak - (eq + p) - WorstTrade) <= DrawdownParts * (l.peak - eq)
      BY <1>2, Product
    <3>3. DrawdownParts * (l.peak - eq) < l.peak
      BY <1>3, <1>5, <3>1 DEF Below
    <3>4. DrawdownParts * (l.peak - (eq + p) - WorstTrade) \in Int
          /\ DrawdownParts * (l.peak - eq) \in Int
      BY <1>2
    <3> QED BY <1>2, <3>1, <3>2, <3>3, <3>4
  <2> QED BY <2>1, <2>2
<1> QED BY <1>3, <1>4, <1>5 DEF LossWithin, r

LEMMA RecordStep ==
  ASSUME TypeOK, Rest, LogAndRecord
  PROVE  Rest'
<1>1. /\ order # None /\ order.at = "record" /\ order' = None
      /\ limits' = RecordTrade(Current, order.pnl)
      /\ log' = log + 1
      /\ UNCHANGED <<day, held, sold, soldToday, restarts, reports>>
  BY DEF LogAndRecord, Current, clock, session, ledger, today
<1>2. Pending = 1 /\ Recording /\ Pending' = 0 /\ ~Recording' /\ ~Filling'
  BY <1>1 DEF Pending, Recording, Filling
<1>3. order.pnl \in Int /\ order.pnl >= -WorstTrade /\ Below(Current)
  BY <1>1, <1>2, Shapes DEF Rest, OrderFits, StillBelow
<1>4. limits'.trades = Current.trades + 1 /\ limits'.date = day
  <2>1. Current \in [trades : Nat, pnl : Int, peak : Nat, date : 1..day] /\ Current.date = day
    BY CurrentLimits
  <2> DEFINE r == RecordTrade(Current, order.pnl)
  <2>2. r.trades = Current.trades + 1 /\ r.date = Current.date
    BY <1>3, <2>1, Recorded, ZenonT(60)
  <2> HIDE DEF r
  <2>3. limits' = r
    BY <1>1 DEF r
  <2> QED BY <2>1, <2>2, <2>3
<1>5. Current' = limits'
  BY <1>1, <1>4 DEF Current, AutoReset
<1>6. SalesCounted'
  <2>1. Current.trades \in Nat /\ MaxTrades * restarts \in Int
    BY CurrentLimits, TradingDayAssumption DEF TypeOK
  <2> QED BY <1>1, <1>2, <1>4, <1>5, <2>1 DEF Rest, SalesCounted
<1>7. LossBounded'
  <2>1. LossWithin(limits')
    BY <1>1, <1>3, CurrentLimits, LossAfter
  <2> QED BY <2>1 DEF LossBounded, LossWithin, Equity
<1>8. StillBelow' /\ HeldInRange' /\ OrderFits'
  BY <1>1, <1>2 DEF Rest, StillBelow, HeldInRange, OrderFits
<1>9. LogInStep'
  <2>1. log \in Nat /\ sold \in Nat
    BY DEF TypeOK
  <2> QED BY <1>1, <1>2, <2>1 DEF Rest, LogInStep
<1> QED BY <1>6, <1>7, <1>8, <1>9 DEF Rest


-----------------------------------------------------------------------------
\* The day's count starts again: one more start or restart pays for it.
LEMMA CountedAfresh ==
  ASSUME TypeOK, Rest, soldToday' = soldToday, restarts' = restarts + 1,
         Current'.trades = 0, Pending' \in {0, 1}
  PROVE  SalesCounted'
<1>1. /\ MaxTrades \in Nat \ {0} /\ restarts \in Nat /\ soldToday \in Nat
      /\ Current.trades \in Nat
  BY CurrentLimits, TradingDayAssumption DEF TypeOK
<1>2. Pending \in {0, 1}
  BY DEF Pending
<1>3. MaxTrades * restarts \in Int /\ MaxTrades * (restarts + 1) = MaxTrades * restarts + MaxTrades
  BY <1>1
<1>4. soldToday <= MaxTrades * restarts + MaxTrades
  BY <1>1, <1>2, <1>3 DEF Rest, SalesCounted
<1>5. ASSUME NEW p \in {0, 1}
      PROVE  /\ soldToday <= MaxTrades * (restarts + 1) + 0 + p
             /\ 0 + p <= MaxTrades
  BY <1>1, <1>3, <1>4
<1>6. /\ soldToday <= MaxTrades * (restarts + 1) + 0 + Pending'
      /\ 0 + Pending' <= MaxTrades
  BY <1>5
<1> QED BY <1>5, <1>6 DEF SalesCounted

LEMMA StartStep ==
  ASSUME TypeOK, Rest, SessionStart, UNCHANGED day
  PROVE  Rest'
<1>1. /\ limits' = Reset(day) /\ restarts' = restarts + 1
      /\ UNCHANGED <<held, log, sold, order, soldToday, reports>>
  BY DEF SessionStart, broker, ledger
<1>2. Current' = Reset(day)
  BY <1>1 DEF Current, AutoReset
<1>3. Pending' = Pending /\ Pending' \in {0, 1}
  BY <1>1 DEF Pending, Recording
<1>4. SalesCounted'
  BY <1>1, <1>2, <1>3, Fresh, CountedAfresh
<1>5. StillBelow'
  BY <1>2, Fresh DEF StillBelow
<1>6. LossBounded'
  BY <1>1, Fresh DEF LossBounded, LossWithin, Equity
<1>7. HeldInRange' /\ OrderFits' /\ LogInStep'
  BY <1>1, <1>3 DEF Rest, HeldInRange, OrderFits, Filling, Recording, LogInStep
<1> QED BY <1>4, <1>5, <1>6, <1>7 DEF Rest

LEMMA CloseStep ==
  ASSUME TypeOK, Rest, SessionClose, UNCHANGED day
  PROVE  Rest'
<1>1. UNCHANGED <<limits, held, log, sold, order, soldToday, restarts>>
  BY DEF SessionClose, broker, ledger, today
<1>2. /\ BuildReport.trades = log /\ BuildReport.sold = sold
      /\ log \in Nat /\ sold \in Nat /\ log + Pending = sold /\ Pending \in {0, 1}
  BY Shapes DEF BuildReport, Rest, LogInStep, Pending, TypeOK
<1>3. LogInStep'
  <2> SUFFICES ASSUME NEW d \in 1..LastDay, reports'[d] # None
               PROVE  reports'[d].trades \in {reports'[d].sold - 1, reports'[d].sold}
    BY <1>1 DEF Rest, LogInStep, Pending, Recording
  <2>1. reports'[d] = reports[d] \/ reports'[d] = BuildReport
    BY DEF SessionClose, TypeOK
  <2> QED BY <1>2, <2>1 DEF Rest, LogInStep
<1> QED BY <1>1, <1>3 DEF Rest, SalesCounted, StillBelow, LossBounded, HeldInRange, OrderFits,
           Current, Pending, Recording, Filling, Equity

LEMMA ResetStep ==
  ASSUME TypeOK, Rest, BrokerReset
  PROVE  Rest'
<1>1. /\ order = None /\ held' = [s \in Symbols |-> NoShares] /\ log' = 0 /\ sold' = 0
      /\ UNCHANGED <<day, limits, order, soldToday, restarts, reports>>
  BY DEF BrokerReset, clock, session, today
<1>2. Pending = 0 /\ Pending' = 0 /\ ~Recording' /\ ~Filling' /\ Current' = Current
  BY <1>1 DEF Pending, Recording, Filling, Current
<1>3. HeldInRange'
  BY <1>1, DearestRange, TradingDayAssumption DEF HeldInRange, NoShares
<1> QED BY <1>1, <1>2, <1>3 DEF Rest, SalesCounted, StillBelow, LossBounded, OrderFits,
           LogInStep, Equity

LEMMA MidnightStep ==
  ASSUME TypeOK, Rest, Midnight
  PROVE  Rest'
<1>1. /\ day' = day + 1 /\ soldToday' = 0 /\ restarts' = 0
      /\ UNCHANGED <<limits, held, log, sold, order, reports>>
  BY DEF Midnight, session, broker, ledger
<1>2. Current' = Reset(day')
  BY <1>1, Shapes DEF Current, AutoReset, TypeOK
<1>3. Pending' = Pending /\ Pending' \in {0, 1}
  BY <1>1 DEF Pending, Recording
<1>4. SalesCounted'
  BY <1>1, <1>2, <1>3, Fresh, TradingDayAssumption DEF SalesCounted
<1>5. StillBelow'
  BY <1>2, Fresh DEF StillBelow
<1> QED BY <1>1, <1>3, <1>4, <1>5 DEF Rest, LossBounded, HeldInRange, OrderFits, LogInStep,
           Filling, Recording, Equity

LEMMA RestartStep ==
  ASSUME TypeOK, Rest, Restart
  PROVE  Rest'
<1>1. /\ limits' = Imported(day) /\ restarts' = restarts + 1 /\ order' = None
      /\ held' = [s \in Symbols |-> NoShares] /\ log' = 0 /\ sold' = 0
      /\ UNCHANGED <<day, soldToday, reports>>
  BY DEF Restart
<1>2. Current' = Imported(day)
  BY <1>1, Fresh DEF Current, AutoReset
<1>3. Pending' = 0 /\ ~Recording' /\ ~Filling'
  BY <1>1 DEF Pending, Recording, Filling
<1>4. SalesCounted'
  BY <1>1, <1>2, <1>3, Fresh, CountedAfresh
<1>5. LossBounded'
  BY <1>1, Fresh DEF LossBounded, LossWithin, Equity
<1>6. HeldInRange'
  BY <1>1, DearestRange, TradingDayAssumption DEF HeldInRange, NoShares
<1> QED BY <1>1, <1>3, <1>4, <1>5, <1>6 DEF Rest, StillBelow, OrderFits, LogInStep

LEMMA NextDay ==
  ASSUME DayInv, [Next]_vars
  PROVE  DayInv'
<1>1. TypeOK /\ Rest /\ TypeOK'
  BY NextTypes DEF DayInv, Rest
<1>2. Rest'
  <2>1. CASE UNCHANGED vars
    BY <1>1, <2>1, Untouched DEF vars, clock, session, broker, ledger, today
  <2>2. CASE \E s \in Symbols, side \in {"BUY", "SELL"}, n \in Quantities,
                quote \in Prices \cup {Capital + 1}, price \in Prices :
               Gate(s, side, n, quote, price)
    BY <1>1, <2>2, GateStep
  <2>3. CASE Reject \/ FillBuy \/ FillSell \/ LogAndRecord
    BY <1>1, <2>3, RejectStep, BuyStep, SellStep, RecordStep
  <2>4. CASE BrokerReset \/ Midnight \/ Restart
    BY <1>1, <2>4, ResetStep, MidnightStep, RestartStep
  <2>5. CASE RunJob
    <3>1. CASE SessionStart \/ SessionClose
      BY <1>1, <2>5, <3>1, StartStep, CloseStep DEF RunJob
    <3>2. CASE UNCHANGED <<session, limits, broker, order, today>>
      BY <1>1, <2>5, <3>2, Untouched DEF RunJob, session, broker, ledger, today
    <3> QED BY <2>5, <3>1, <3>2 DEF RunJob
  <2>6. CASE CallSession
    BY <1>1, <2>6, StartStep, CloseStep DEF CallSession, clock
  <2>7. CASE NextPhase
    BY <1>1, <2>7, Untouched DEF NextPhase, session, broker, ledger, today
  <2> QED BY <2>1, <2>2, <2>3, <2>4, <2>5, <2>6, <2>7 DEF Next
<1> QED BY <1>1, <1>2 DEF DayInv, Rest

LEMMA DayHolds == Spec => []DayInv
<1>1. DayInv /\ [Next]_vars => DayInv'
  BY NextDay
<1> QED BY <1>1, InitDay, PTL DEF Spec

(***************************************************************************)
(* The day's loss and drawdown pass their limits by at most the trade that *)
(* was admitted below them, and its sales the allowance by no more than    *)
(* once for each session start and each restart.                           *)
(***************************************************************************)
THEOREM DayBoundedHolds == Spec => []DayBounded
<1>1. DayInv => DayBounded
  <2> SUFFICES ASSUME DayInv PROVE DayBounded
    OBVIOUS
  <2>1. /\ MaxTrades \in Nat /\ restarts \in Nat /\ soldToday \in Nat
        /\ Current.trades \in Nat /\ Pending \in {0, 1}
    BY CurrentLimits, TradingDayAssumption DEF DayInv, TypeOK, Pending
  <2>2. MaxTrades * (1 + restarts) = MaxTrades * restarts + MaxTrades
        /\ MaxTrades * restarts \in Int
    BY <2>1
  <2> QED BY <2>1, <2>2 DEF DayInv, SalesCounted, DayBounded
<1> QED BY <1>1, DayHolds, PTL

(***************************************************************************)
(* A report misses at most the one trade that is between its fill and its  *)
(* log entry.                                                              *)
(***************************************************************************)
THEOREM ReportLagsByOneHolds == Spec => []ReportLagsByOne
<1>1. DayInv => ReportLagsByOne
  BY TradingDayAssumption DEF DayInv, TypeOK, LogInStep, ReportLagsByOne
<1> QED BY <1>1, DayHolds, PTL

\* The variables keep their types.
THEOREM TypeCorrect == Spec => []TypeOK
<1>1. DayInv => TypeOK
  BY DEF DayInv
<1> QED BY <1>1, DayHolds, PTL

-----------------------------------------------------------------------------
(* The books.                                                               *)

\* What each position cost; no shares cost nothing.
Costs == [s \in Symbols |-> held[s].qty * held[s].avg]
AtCost == SumFunctionOnSet(Costs, Symbols)

LEMMA CostsTyped ==
  ASSUME TypeOK
  PROVE  (\A s \in Symbols : Costs[s] \in Int) /\ AtCost \in Int
<1>1. \A s \in Symbols : Costs[s] = held[s].qty * held[s].avg
  BY DEF Costs
<1>2. ASSUME NEW s \in Symbols PROVE Costs[s] \in Int
  <2>1. held[s].qty \in Nat /\ held[s].avg \in Nat
    BY Shapes
  <2> QED BY <1>1, <2>1
<1> QED BY <1>2, SumType, TradingDayAssumption DEF AtCost

\* A fill changes what one position cost.
LEMMA CostsAfterFill ==
  ASSUME TypeOK, TypeOK', NEW a \in Symbols, NEW h, held' = [held EXCEPT ![a] = h]
  PROVE  AtCost' = AtCost - held[a].qty * held[a].avg + h.qty * h.avg
<1>1. \A s \in Symbols : Costs[s] \in Int /\ Costs'[s] \in Int
  <2>1. \A s \in Symbols : Costs[s] \in Int
    BY CostsTyped
  <2>2. ASSUME NEW s \in Symbols PROVE Costs'[s] \in Int
    <3>1. held'[s].qty \in Nat /\ held'[s].avg \in Nat
      BY DEF TypeOK
    <3>2. Costs'[s] = held'[s].qty * held'[s].avg
      BY DEF Costs
    <3> QED BY <3>1, <3>2
  <2> QED BY <2>1, <2>2
<1>2. ASSUME NEW s \in Symbols, s # a PROVE Costs[s] = Costs'[s]
  BY <1>2 DEF Costs, TypeOK
<1>3. Costs[a] = held[a].qty * held[a].avg /\ Costs'[a] = h.qty * h.avg
  BY DEF Costs, TypeOK
<1>4. SumFunctionOnSet(Costs', Symbols) = SumFunctionOnSet(Costs, Symbols) - Costs[a] + Costs'[a]
  <2> HIDE DEF Costs
  <2> QED BY <1>1, <1>2, SumChange, TradingDayAssumption
<1> QED BY <1>3, <1>4 DEF AtCost

\* Without positions the cost is zero.
LEMMA NothingCosts ==
  ASSUME held = [s \in Symbols |-> NoShares]
  PROVE  AtCost = 0
<1>1. \A s \in Symbols : Costs[s] = 0
  BY DEF Costs, NoShares
<1> QED BY <1>1, SumZero, TradingDayAssumption DEF AtCost

\* How far the books are from the balance.
Drift == cash + AtCost + buyFees - Capital - realised

LEMMA DriftBound == BooksBalance <=> 2 * Drift \in -rounding..rounding
  BY DEF BooksBalance, Drift, AtCost, Costs

LEMMA Amounts ==
  ASSUME TypeOK
  PROVE  /\ AtCost \in Int /\ cash \in Int /\ buyFees \in Int /\ realised \in Int
         /\ rounding \in Nat /\ Drift \in Int
<1>1. AtCost \in Int
  BY CostsTyped
<1>2. cash \in Int /\ buyFees \in Int /\ realised \in Int /\ rounding \in Nat
  BY DEF TypeOK
<1>3. Capital \in Int
  BY TradingDayAssumption
<1> QED BY <1>1, <1>2, <1>3 DEF Drift

\* If a step adds d to the drift and e to its bound, with 2 * d within e, the
\* bound is kept.
LEMMA Widen ==
  ASSUME NEW x \in Int, NEW r \in Nat, NEW d \in Int, NEW e \in Nat,
         2 * x \in -r..r, 2 * d \in -e..e
  PROVE  2 * (x + d) \in -(r + e)..r + e
  OBVIOUS

LEMMA InitBooks == Init => BooksBalance
<1> SUFFICES ASSUME Init PROVE BooksBalance
  OBVIOUS
<1>1. AtCost = 0
  BY NothingCosts DEF Init
<1>2. cash = Capital /\ buyFees = 0 /\ realised = 0 /\ rounding = 0 /\ Capital \in Nat
  BY TradingDayAssumption DEF Init
<1>3. Drift = 0
  BY <1>1, <1>2 DEF Drift
<1> QED BY <1>2, <1>3, DriftBound

\* A BUY moves the books by what its average is rounded by, for each share.
LEMMA BuyBooks ==
  ASSUME DayInv, TypeOK', BooksBalance, FillBuy
  PROVE  BooksBalance'
<1> DEFINE h == held[order.symbol]
           n == order.qty
           p == order.price
<1>0. PICK avg \in Averages(h, n, p) :
        held' = [held EXCEPT ![order.symbol] = [qty |-> h.qty + n, avg |-> avg]]
  BY DEF FillBuy
<1> DEFINE new == [qty |-> h.qty + n, avg |-> avg]
           d == (h.qty + n) * avg - (h.qty * h.avg + n * p)
           e == IF h.qty = 0 THEN 0 ELSE (h.qty + n) * AvgUnit
<1>1. /\ order # None /\ order.at = "fill" /\ order.side = "BUY"
      /\ cash' = cash - n * p - Fee /\ buyFees' = buyFees + Fee /\ realised' = realised
      /\ rounding' = IF h.qty = 0 THEN rounding ELSE rounding + AvgUnit * (h.qty + n)
  BY DEF FillBuy
<1>2. /\ order.symbol \in Symbols /\ n \in Nat \ {0} /\ p \in Nat /\ p \in Prices
      /\ h \in [qty : Nat, avg : Nat] /\ h.qty \in Nat /\ h.avg \in Nat /\ h.avg <= Dearest
  BY <1>1, Shapes DEF DayInv, TypeOK, HeldInRange
<1>3. TypeOK
  BY DEF DayInv
<1>4. AtCost' = AtCost - h.qty * h.avg + new.qty * new.avg
  <2> HIDE DEF new
  <2> QED BY <1>0, <1>2, <1>3, CostsAfterFill DEF new
<1> HIDE DEF h, n, p
<1>5. /\ avg \in Nat /\ (h.qty = 0 => avg = p)
      /\ h.qty > 0 => 2 * d \in -((h.qty + n) * AvgUnit)..(h.qty + n) * AvgUnit
  BY <1>0, <1>2, AverageRange
<1>6. d \in Int /\ e \in Nat /\ 2 * d \in -e..e
  <2>1. d \in Int /\ (h.qty + n) * AvgUnit \in Nat
    BY <1>2, <1>5, TradingDayAssumption
  <2>2. CASE h.qty = 0
    <3>1. (h.qty + n) * avg = n * p /\ h.qty * h.avg = 0 /\ n * p \in Int
      BY <1>2, <1>5, <2>2
    <3>2. d = 0 /\ e = 0
      BY <2>2, <3>1
    <3> HIDE DEF d, e
    <3> QED BY <3>2
  <2>3. CASE h.qty > 0
    <3>1. e = (h.qty + n) * AvgUnit
      BY <2>3
    <3> HIDE DEF d, e
    <3> QED BY <1>5, <2>1, <2>3, <3>1 DEF d
  <2> QED BY <1>2, <2>2, <2>3
<1>7. new.qty * new.avg = d + h.qty * h.avg + n * p
  <2>1. (h.qty + n) * avg \in Int /\ h.qty * h.avg \in Int /\ n * p \in Int
    BY <1>2, <1>5
  <2>2. new.qty * new.avg = (h.qty + n) * avg
    OBVIOUS
  <2> QED BY <2>1, <2>2
<1>8. h.qty * h.avg \in Int /\ n * p \in Int /\ Fee \in Int /\ Capital \in Int
  BY <1>2, TradingDayAssumption
<1>9. rounding' = rounding + e
  <2>1. AvgUnit * (h.qty + n) = (h.qty + n) * AvgUnit
    BY <1>2, TradingDayAssumption
  <2> QED BY <1>1, <1>3, <2>1, Amounts
<1> HIDE DEF d, e, new
<1>10. AtCost' = AtCost + d + n * p
  BY <1>3, <1>4, <1>6, <1>7, <1>8, Amounts
<1>11. Drift' = Drift + d
  <2>1. /\ Drift = cash + AtCost + buyFees - Capital - realised
        /\ Drift' = cash' + AtCost' + buyFees' - Capital - realised'
    BY DEF Drift
  <2> QED BY <1>1, <1>3, <1>6, <1>8, <1>10, <2>1, Amounts
<1>12. 2 * (Drift + d) \in -(rounding + e)..rounding + e
  BY <1>3, <1>6, Amounts, DriftBound, Widen
<1>13. (2 * Drift \in -rounding..rounding)'
  BY <1>9, <1>11, <1>12
<1> QED BY <1>13, DriftBound, PTL

\* What a sale takes out of the positions at cost and what it earns make its
\* proceeds, but for the rounding of what it earns.
LEMMA SellBooks ==
  ASSUME DayInv, TypeOK', BooksBalance, FillSell
  PROVE  BooksBalance'
<1> DEFINE h == held[order.symbol]
           n == order.qty
           p == order.price
           new == IF h.qty = n THEN NoShares ELSE [qty |-> h.qty - n, avg |-> h.avg]
           x == (p - h.avg) * n - Fee
<1>0. PICK gain \in SellPnls(order) : realised' = realised + gain
  BY DEF FillSell
<1> DEFINE d == x - gain
<1>1. /\ order # None /\ ~Rejected(order) /\ order.side = "SELL"
      /\ held' = [held EXCEPT ![order.symbol] = new]
      /\ cash' = cash + n * p - Fee /\ buyFees' = buyFees
      /\ rounding' = rounding + PnlUnit
  BY DEF FillSell
<1>2. /\ order \in Orders /\ order.symbol \in Symbols /\ n \in Nat \ {0} /\ p \in Nat
      /\ h.qty \in Nat /\ h.avg \in Nat
  BY <1>1, Shapes DEF DayInv
<1>3. TypeOK
  BY DEF DayInv
<1>4. new.qty * new.avg = h.qty * h.avg - n * h.avg
  <2>1. CASE h.qty = n
    <3>1. new.qty = 0 /\ new.avg = 0
      BY <2>1 DEF NoShares
    <3>2. h.qty * h.avg = n * h.avg /\ n * h.avg \in Int
      BY <2>1, <1>2
    <3> QED BY <3>1, <3>2
  <2>2. CASE h.qty # n
    <3>1. new.qty = h.qty - n /\ new.avg = h.avg
      BY <2>2
    <3> QED BY <3>1, <1>2
  <2> QED BY <2>1, <2>2
<1>5. AtCost' = AtCost - h.qty * h.avg + new.qty * new.avg
  <2> HIDE DEF new
  <2> QED BY <1>1, <1>2, <1>3, CostsAfterFill
<1>6. x \in Int /\ gain \in Int /\ 2 * (gain - x) \in -PnlUnit..PnlUnit
  BY <1>2, <1>3, PnlNear
<1> HIDE DEF h, n, p, new
<1>7. x = n * p - n * h.avg - Fee
  <2>1. (p - h.avg) * n = n * p - n * h.avg
    BY <1>2
  <2> QED BY <2>1
<1>8. /\ h.qty * h.avg \in Int /\ n * h.avg \in Int /\ n * p \in Int
      /\ Fee \in Int /\ Capital \in Int /\ PnlUnit \in Nat
  BY <1>2, TradingDayAssumption
<1> HIDE DEF x
<1>9. AtCost' = AtCost - n * h.avg
  BY <1>3, <1>4, <1>5, <1>8, Amounts
<1>10. d \in Int /\ 2 * d \in -PnlUnit..PnlUnit
  BY <1>6, <1>8
<1>11. Drift' = Drift + d
  <2>1. /\ Drift = cash + AtCost + buyFees - Capital - realised
        /\ Drift' = cash' + AtCost' + buyFees' - Capital - realised'
    BY DEF Drift
  <2> DEFINE out == n * p
             cost == n * h.avg
  <2>2. /\ cash' = cash + out - Fee /\ AtCost' = AtCost - cost /\ d = out - cost - Fee - gain
        /\ out \in Int /\ cost \in Int /\ buyFees' = buyFees /\ realised' = realised + gain
    BY <1>0, <1>1, <1>7, <1>8, <1>9
  <2> HIDE DEF out, cost, d
  <2> QED BY <1>3, <1>6, <1>8, <2>1, <2>2, Amounts
<1> HIDE DEF d
<1>12. 2 * (Drift + d) \in -(rounding + PnlUnit)..rounding + PnlUnit
  BY <1>3, <1>8, <1>10, Amounts, DriftBound, Widen
<1>13. (2 * Drift \in -rounding..rounding)'
  BY <1>1, <1>11, <1>12
<1> QED BY <1>13, DriftBound, PTL

LEMMA NextBooks ==
  ASSUME DayInv, BooksBalance, [Next]_vars
  PROVE  BooksBalance'
<1>1. TypeOK /\ TypeOK'
  BY NextTypes DEF DayInv
<1>2. CASE BrokerReset \/ Restart
  <2>1. /\ held' = [s \in Symbols |-> NoShares]
        /\ cash' = Capital /\ buyFees' = 0 /\ realised' = 0 /\ rounding' = 0 /\ Capital \in Nat
    BY <1>2, TradingDayAssumption DEF BrokerReset, Restart
  <2>2. \A s \in Symbols : Costs'[s] = 0
    BY <2>1 DEF Costs, NoShares
  <2>3. SumFunctionOnSet(Costs', Symbols) = 0
    <3> HIDE DEF Costs
    <3> QED BY <2>2, SumZero, TradingDayAssumption
  <2>4. cash' + SumFunctionOnSet(Costs', Symbols) + buyFees' - Capital - realised' = 0
    BY <2>1, <2>3
  <2> QED BY <2>1, <2>4 DEF BooksBalance, Costs
<1>3. CASE UNCHANGED <<cash, held, ledger>>
  BY <1>3 DEF BooksBalance, ledger
<1>4. FillBuy \/ FillSell \/ BrokerReset \/ Restart \/ UNCHANGED <<cash, held, ledger>>
  BY ZenonT(40) DEF Next, vars, Gate, Reject, LogAndRecord, RunJob, CallSession, SessionStart,
     SessionClose, NextPhase, Midnight, broker, ledger
<1> QED BY <1>1, <1>2, <1>3, <1>4, BuyBooks, SellBooks

(***************************************************************************)
(* The broker's books drift by no more than what its roundings allow,      *)
(* through fills, resets, new days and restarts.                           *)
(***************************************************************************)
THEOREM BooksBalanceHolds == Spec => []BooksBalance
<1>1. DayInv /\ BooksBalance /\ [Next]_vars => BooksBalance'
  BY NextBooks
<1> QED BY <1>1, InitBooks, DayHolds, PTL DEF Spec
=============================================================================
