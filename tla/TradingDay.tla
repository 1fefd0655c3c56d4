------------------------------ MODULE TradingDay ------------------------------
(***************************************************************************)
(* A trading session on the paper broker: core/session.py, opened and      *)
(* closed by core/scheduler.py on the days of core/calendar.py;            *)
(* PaperBroker.place_order() behind risk/gate.py and risk/limits.py; the   *)
(* trade log and the session report (reporting/).                          *)
(*                                                                         *)
(* Two threads run.  The caller of the broker takes an order through       *)
(*                                                                         *)
(*   place:  gate -> fill (cash, position) -> log and record_trade         *)
(*                                                                         *)
(* and the scheduler's thread runs start() and close() between any two of  *)
(* these steps.  Days pass at any moment, jobs are missed, the process     *)
(* dies.  Nothing in place_order() asks whether a session is open.         *)
(*                                                                         *)
(* One amount Fee stands for _charges() of a leg (a flat brokerage         *)
(* dominates it).  Amounts are integers of a unit in which prices are      *)
(* exact; averages and PnL are rounded to coarser ones.                    *)
(***************************************************************************)
EXTENDS Integers, FiniteSets, Functions, FiniteSetsExt

CONSTANTS
  Symbols,
  Quantities,
  Prices,          \* of a share, for quotes and limit prices
  Capital,         \* capital of the session and of the broker
  Fee,             \* charges of one leg
  AvgUnit,         \* an average is rounded to a multiple of this (4 decimals)
  PnlUnit,         \* the PnL of a SELL to one of this (2 decimals)
  MaxTrades,       \* max_trades_per_day
  MaxLoss,         \* max_daily_loss
  DrawdownParts,   \* max_drawdown_pct is 1 / DrawdownParts
  None,
  MaxHeld,         \* shares held of a symbol (bounds the exploration)
  LastDay,         \* days of a behaviour (bounds the exploration)
  MaxOrders,       \* orders that pass the gate in a behaviour (same)
  MaxRestarts      \* restarts and session starts in a day (same)

VARIABLES
  day, phase,    \* the calendar: before 09:10, between, after 15:25
  trading,       \* is_trading_day()
  due,           \* the job that APScheduler has to run now
  scheduled,     \* register_with_scheduler() was called and the scheduler runs
  open,          \* session._open
  limits,        \* risk_limits._state
  cash, held,    \* portfolio.cash, portfolio.positions
  log,           \* number of trade_log entries
  reports,       \* the report files, one per date (last write wins)
  order,         \* the order inside place_order()
  buyFees, realised, sold, \* of this broker: fees of its BUYs, net_pnl and number of its SELLs
  rounding,      \* twice what its roundings can have moved (history, as the line above)
  soldToday, restarts,     \* SELLs filled, and session starts and restarts, of the day
  orders                   \* gates passed

ledger == <<buyFees, realised, sold, rounding>>
broker == <<cash, held, log, ledger>>
session == <<open, reports>>
clock == <<day, phase, trading, due>>
today == <<soldToday, orders, restarts>>
vars == <<clock, scheduled, session, limits, broker, order, today>>

Phases == {"early", "market", "late"}
Jobs == {"none", "start", "close"}
NoShares == [qty |-> 0, avg |-> 0]
Orders == [side : {"BUY", "SELL"}, symbol : Symbols, qty : Quantities,
           price : Prices, at : {"fill", "record"}, pnl : Int]

ASSUME TradingDayAssumption ==
  /\ IsFiniteSet(Symbols)
  /\ Quantities \subseteq Nat \ {0} /\ Prices \subseteq Nat \ {0}
  /\ \E lo, hi \in Prices : \A p \in Prices : lo <= p /\ p <= hi
  /\ Capital \in Nat \ {0} /\ Fee \in Nat
  /\ AvgUnit \in Nat \ {0} /\ PnlUnit \in Nat \ {0}
  /\ MaxTrades \in Nat \ {0} /\ MaxLoss \in Nat \ {0}
  /\ DrawdownParts \in Nat \ {0}
  /\ MaxHeld \in Nat /\ LastDay \in Nat \ {0}
  /\ MaxOrders \in Nat /\ MaxRestarts \in Nat
  /\ None \notin Orders

\* The state that the module risk/limits.py builds when it is imported: the
\* peak of the equity is zero until a reset.
Imported(d) == [trades |-> 0, pnl |-> 0, peak |-> 0, date |-> d]

\* reset(), and what _auto_reset_if_new_day() replaces the state of another day by
Reset(d) == [trades |-> 0, pnl |-> 0, peak |-> Capital, date |-> d]
AutoReset(l, d) == IF l.date # d THEN Reset(d) ELSE l

Init ==
  /\ day = 1 /\ phase \in Phases /\ trading \in BOOLEAN /\ due = "none"
  /\ scheduled \in BOOLEAN
  /\ open = FALSE
  /\ limits = Imported(1)
  /\ cash = Capital
  /\ held = [s \in Symbols |-> NoShares]
  /\ log = 0
  /\ reports = [d \in 1..LastDay |-> None]
  /\ order = None
  /\ buyFees = 0 /\ realised = 0 /\ sold = 0 /\ rounding = 0
  /\ soldToday = 0 /\ orders = 0 /\ restarts = 0

-----------------------------------------------------------------------------
(* Risk.  compute_allowed_actions() asks RiskLimits.check() about one share *)
(* at price zero, so the size check never fails; the quantities that it     *)
(* returns are not read by place_order().                                   *)

Equity(l) == Capital + l.pnl

DrawnDown_Beyond(l) == \* mutant: drawdown > max_drawdown_pct
  l.peak > 0 /\ DrawdownParts * (l.peak - Equity(l)) > l.peak

DrawnDown(l) ==
  l.peak > 0 /\ DrawdownParts * (l.peak - Equity(l)) >= l.peak

Breached_LossMayEqualCap(l) == \* mutant: pnl < -max_daily_loss
  l.trades >= MaxTrades \/ DrawnDown(l) \/ l.pnl < -MaxLoss

Breached_OneMoreTrade(l) ==    \* mutant: trades > max_trades_per_day
  l.trades > MaxTrades \/ DrawnDown(l) \/ l.pnl <= -MaxLoss

Breached(l) ==
  \/ l.trades >= MaxTrades
  \/ DrawnDown(l)
  \/ l.pnl <= -MaxLoss

GateBlocks(l, quote) == Breached(l) \/ Capital < quote

\* record_trade(): the peak follows the equity up, from zero if no reset set it
RecordTrade(l, pnl) ==
  [l EXCEPT !.trades = @ + 1, !.pnl = @ + pnl,
            !.peak = IF Capital + l.pnl + pnl > @ THEN Capital + l.pnl + pnl ELSE @]

-----------------------------------------------------------------------------
(* PaperBroker.place_order().                                               *)

\* x / d rounded to a multiple of the unit; of two that are equally near, round()
\* takes either, as the binary fraction has it.
Rounded(x, d, unit) ==
  LET low == x \div (d * unit) IN
  {unit * k : k \in {k \in {low, low + 1} : 2 * (k * (d * unit) - x) \in -(d * unit)..d * unit}}

\* The gate has its own quote; a LIMIT order is filled at its own price.
Gate(s, side, n, quote, price) ==
  /\ order = None
  /\ orders < MaxOrders
  /\ side = "BUY" => held[s].qty + n <= MaxHeld
  /\ limits' = AutoReset(limits, day)
  /\ IF GateBlocks(limits', quote)
       THEN UNCHANGED <<order, orders>>
       ELSE /\ order' = [side |-> side, symbol |-> s, qty |-> n, price |-> price,
                         at |-> "fill", pnl |-> 0]
            /\ orders' = orders + 1
  /\ UNCHANGED <<clock, scheduled, session, broker, soldToday, restarts>>

Rejected_HeldAtAll(o) == \* mutant: any position is enough for a SELL
  IF o.side = "BUY" THEN o.qty * o.price + Fee > cash ELSE held[o.symbol].qty = 0

Rejected(o) ==
  IF o.side = "BUY" THEN o.qty * o.price + Fee > cash
  ELSE held[o.symbol].qty < o.qty

Reject ==
  /\ order # None /\ order.at = "fill"
  /\ Rejected(order)
  /\ order' = None
  /\ UNCHANGED <<clock, scheduled, session, limits, broker, today>>

FillBuy_LastPrice == \* mutant: the average is the price of the last fill
  /\ order # None /\ order.at = "fill" /\ order.side = "BUY"
  /\ ~Rejected(order)
  /\ held' = [held EXCEPT ![order.symbol] = [qty |-> @.qty + order.qty, avg |-> order.price]]
  /\ cash' = cash - order.qty * order.price - Fee
  /\ buyFees' = buyFees + Fee
  /\ rounding' = rounding + AvgUnit * (held[order.symbol].qty + order.qty)
  /\ order' = None
  /\ UNCHANGED <<clock, scheduled, session, limits, log, realised, sold, today>>

\* What the shares h and n more at price p cost on average; only an average of
\* two purchases is rounded.
Averages(h, n, p) ==
  IF h.qty = 0 THEN {p} ELSE Rounded(h.qty * h.avg + n * p, h.qty + n, AvgUnit)

\* A BUY ends here: it is neither logged nor counted by the limits.
FillBuy ==
  /\ order # None /\ order.at = "fill" /\ order.side = "BUY"
  /\ ~Rejected(order)
  /\ LET h == held[order.symbol] IN
       /\ \E avg \in Averages(h, order.qty, order.price) :
            held' = [held EXCEPT ![order.symbol] = [qty |-> h.qty + order.qty, avg |-> avg]]
       /\ rounding' = IF h.qty = 0 THEN rounding ELSE rounding + AvgUnit * (h.qty + order.qty)
  /\ cash' = cash - order.qty * order.price - Fee
  /\ buyFees' = buyFees + Fee
  /\ order' = None
  /\ UNCHANGED <<clock, scheduled, session, limits, log, realised, sold, today>>

SellPnls(o) == Rounded((o.price - held[o.symbol].avg) * o.qty - Fee, 1, PnlUnit)

FillSell ==
  /\ order # None /\ order.at = "fill" /\ order.side = "SELL"
  /\ ~Rejected(order)
  /\ cash' = cash + order.qty * order.price - Fee
  /\ LET h == held[order.symbol] IN
       held' = [held EXCEPT ![order.symbol] =
            IF h.qty = order.qty THEN NoShares ELSE [qty |-> h.qty - order.qty, avg |-> h.avg]]
  /\ \E pnl \in SellPnls(order) :
       /\ realised' = realised + pnl
       /\ order' = [order EXCEPT !.at = "record", !.pnl = pnl]
  /\ rounding' = rounding + PnlUnit
  /\ sold' = sold + 1
  /\ soldToday' = soldToday + 1
  /\ UNCHANGED <<clock, scheduled, session, limits, log, buyFees, orders, restarts>>

\* The limits are told the PnL after the charges of the SELL alone.
LogAndRecord ==
  /\ order # None /\ order.at = "record"
  /\ log' = log + 1
  /\ limits' = RecordTrade(AutoReset(limits, day), order.pnl)
  /\ order' = None
  /\ UNCHANGED <<clock, scheduled, session, cash, held, ledger, today>>

BrokerReset_KeepsLog == \* mutant: reset() leaves the trade log
  /\ order = None
  /\ cash' = Capital /\ held' = [s \in Symbols |-> NoShares]
  /\ buyFees' = 0 /\ realised' = 0 /\ sold' = 0 /\ rounding' = 0
  /\ UNCHANGED <<clock, scheduled, session, limits, log, order, today>>

\* PaperBroker.reset() gives a new portfolio and a new log; the limits stay.
BrokerReset ==
  /\ order = None
  /\ cash' = Capital
  /\ held' = [s \in Symbols |-> NoShares]
  /\ log' = 0
  /\ buyFees' = 0 /\ realised' = 0 /\ sold' = 0 /\ rounding' = 0
  /\ UNCHANGED <<clock, scheduled, session, limits, order, today>>

-----------------------------------------------------------------------------
(* TradingSession and its jobs.                                             *)

SessionStart ==
  /\ restarts < MaxRestarts
  /\ limits' = Reset(day)
  /\ open' = TRUE
  /\ restarts' = restarts + 1
  /\ UNCHANGED <<reports, broker, order, soldToday, orders>>

\* SessionReport.build() summarises the whole log of the broker, whatever its
\* day; "sold" is how many SELLs were filled by then.
BuildReport == [trades |-> log, sold |-> sold]

SessionClose ==
  /\ IF open
       THEN reports' = [reports EXCEPT ![day] = BuildReport]
       ELSE UNCHANGED reports
  /\ open' = FALSE
  /\ UNCHANGED <<limits, broker, order, today>>

\* A job that the scheduler starts, or that it starts too late and drops.
RunJob ==
  /\ due # "none"
  /\ due' = "none"
  /\ \/ due = "start" /\ SessionStart
     \/ due = "close" /\ SessionClose
     \/ UNCHANGED <<session, limits, broker, order, today>>
  /\ UNCHANGED <<day, phase, trading, scheduled>>

\* The same calls from the program: the context manager of a session.
CallSession ==
  /\ \/ ~open /\ SessionStart
     \/ open /\ SessionClose
  /\ UNCHANGED <<clock, scheduled>>

-----------------------------------------------------------------------------
(* Time, and the end of the process.                                        *)

Job(p) == IF ~(scheduled /\ trading) THEN "none"
          ELSE IF p = "market" THEN "start" ELSE "close"

NextPhase ==
  /\ due = "none"
  /\ phase # "late"
  /\ phase' = IF phase = "early" THEN "market" ELSE "late"
  /\ due' = Job(phase')
  /\ UNCHANGED <<day, trading, scheduled, session, limits, broker, order, today>>

Midnight ==
  /\ due = "none"
  /\ phase = "late" /\ day < LastDay
  /\ day' = day + 1
  /\ phase' = "early"
  /\ trading' \in BOOLEAN
  /\ soldToday' = 0 /\ restarts' = 0
  /\ UNCHANGED <<due, scheduled, session, limits, broker, order, orders>>

\* A new process: nothing but the report files survives.
Restart ==
  /\ restarts < MaxRestarts
  /\ due' = "none"
  /\ scheduled' \in BOOLEAN
  /\ open' = FALSE
  /\ limits' = Imported(day)
  /\ cash' = Capital
  /\ held' = [s \in Symbols |-> NoShares]
  /\ log' = 0
  /\ buyFees' = 0 /\ realised' = 0 /\ sold' = 0 /\ rounding' = 0
  /\ order' = None
  /\ restarts' = restarts + 1
  /\ UNCHANGED <<day, phase, trading, reports, soldToday, orders>>

Next ==
  \/ \E s \in Symbols, side \in {"BUY", "SELL"}, n \in Quantities,
        quote \in Prices \cup {Capital + 1}, price \in Prices :
       Gate(s, side, n, quote, price)
  \/ Reject
  \/ FillBuy
  \/ FillSell
  \/ LogAndRecord
  \/ BrokerReset
  \/ RunJob
  \/ CallSession
  \/ NextPhase
  \/ Midnight
  \/ Restart

Spec == Init /\ [][Next]_vars

-----------------------------------------------------------------------------
(* Properties.                                                              *)

TypeOK ==
  /\ day \in 1..LastDay /\ phase \in Phases /\ trading \in BOOLEAN /\ due \in Jobs
  /\ scheduled \in BOOLEAN /\ open \in BOOLEAN
  /\ limits \in [trades : Nat, pnl : Int, peak : Nat, date : 1..day]
  /\ cash \in Int    \* a SELL whose charges exceed its turnover may take it below zero
  /\ held \in [Symbols -> [qty : Nat, avg : Nat]]
  /\ log \in Nat
  /\ reports \in [1..LastDay ->
       {None} \cup [trades : Nat, sold : Nat]]
  /\ order \in {None} \cup Orders
  /\ buyFees \in Nat /\ realised \in Int /\ sold \in Nat /\ rounding \in Nat
  /\ soldToday \in Nat /\ orders \in 0..MaxOrders /\ restarts \in 0..MaxRestarts

\* The broker's books drift by what is rounded and by no more: the cash and the
\* shares at their average cost are the capital, less the fees of the BUYs, plus
\* the PnL that the SELLs reported, but for half a unit of the average for each
\* share that a BUY averages and half a unit of the PnL for each SELL
\* (place_order(), paper/broker.py).
BooksBalance ==
  LET atCost == SumFunctionOnSet([s \in Symbols |-> held[s].qty * held[s].avg], Symbols)
  IN 2 * (cash + atCost + buyFees - Capital - realised) \in -rounding..rounding

\* No average is rounded to more than this.
Dearest == AvgUnit * ((Max(Prices) + AvgUnit - 1) \div AvgUnit)

WorstTrade == MaxHeld * (Dearest - Min(Prices)) + Fee + PnlUnit \div 2

\* The day's realised loss passes the daily cap by at most the one trade that
\* was admitted below it, and once a reset has set the peak of the equity, it
\* passes the drawdown limit by at most that trade too (RiskLimits.check()).
LossBounded ==
  /\ limits.pnl > -(MaxLoss + WorstTrade)
  /\ limits.peak >= Capital =>
       DrawdownParts * (limits.peak - Equity(limits) - WorstTrade) < limits.peak

\* The limits bound the day, though they live in memory: besides its loss, the SELLs
\* of a calendar day, by max_trades_per_day, once more for each session start and
\* each restart of the process on that day (risk/limits.py, core/session.py).
DayBounded ==
  /\ LossBounded
  /\ soldToday <= MaxTrades * (1 + restarts)

\* A report that is written while an order is between its fill and its log
\* entry misses that trade, and never more than that one.
ReportLagsByOne ==
  \A d \in 1..day : reports[d] # None =>
    reports[d].trades \in {reports[d].sold - 1, reports[d].sold}

=============================================================================
