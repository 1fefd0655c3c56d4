--------------------------- MODULE PortfolioEngine ---------------------------
(***************************************************************************)
(* PortfolioEngine._simulate() (backtesting/portfolio_engine.py) with the  *)
(* allocation it asks for (backtesting/allocation.py).                     *)
(*                                                                         *)
(* For every date of the union of the calendars the symbols are visited in *)
(* the order of the dictionary, then the portfolio is marked.  A symbol    *)
(* may have no row on a date.  Signal and fill are those of the same       *)
(* close, and there are no charges.  A close may be zero or negative: the  *)
(* loop does not trade at it, marks at it, and closes at it at the end     *)
(* unless it is zero.  run() reaches this with the frames of               *)
(* _fetch_all(); DataManager has no get_ohlcv(), so in this tree the       *)
(* frames come from a caller that replaces it, as the tests do.            *)
(***************************************************************************)
EXTENDS Integers, FiniteSets, Functions

CONSTANTS
  Listed,        \* number of symbols, visited as 1..Listed
  ClosePrices,
  TotalCapital,
  ExposureParts, \* max_exposure_pct is one part in ExposureParts
  FixedParts,    \* fixed_pct is one part in FixedParts
  MaxPositions,
  Dates          \* dates of a backtest (bounds the exploration)

ASSUME PortfolioEngineAssumption ==
  /\ Listed \in Nat \ {0} /\ Dates \in Nat \ {0} /\ TotalCapital \in Nat
  /\ ExposureParts \in Nat \ {0} /\ FixedParts \in Nat \ {0} /\ MaxPositions \in Nat
  /\ ClosePrices \subseteq Int

VARIABLES
  date,      \* date in all_dates, 0 before run(), Dates + 1 after the last, Dates + 2 at the end
  visit,     \* symbol to visit, Listed + 1 when the date is to be marked, 0 before it
  rows,      \* the symbols with a row on the date
  prices,    \* the date's prices, 0 where a symbol has no row
  last,      \* the last close of each symbol so far, 0 before the first
  method,    \* the allocation method
  pfCash,
  positions, \* positions[s], with qty 0 where s is not in the dictionary
  symbolPnl,
  curve      \* the last point of the equity curve

pfBooks == <<pfCash, positions, symbolPnl>>
pfFrame == <<rows, prices, last>>
pfVars == <<date, visit, pfFrame, method, pfBooks, curve>>

Shares == 1..Listed
Flat == [qty |-> 0, entry |-> 0]

PfInit ==
  /\ date = 0 /\ visit = 0 /\ rows = {}
  /\ prices = [s \in Shares |-> 0] /\ last = prices
  /\ method = "equal_weight"
  /\ pfCash = TotalCapital
  /\ positions = [s \in Shares |-> Flat]
  /\ symbolPnl = [s \in Shares |-> 0]
  /\ curve = TotalCapital

Methods == {"equal_weight", "risk_parity", "momentum_weight", "fixed_fractional"}

RunPortfolio(m) ==
  /\ date = 0
  /\ date' = 1
  /\ method' = m
  /\ UNCHANGED <<visit, pfFrame, pfBooks, curve>>

\* The union of the calendars: every date has a row of at least one symbol.
OpenDate ==
  /\ date \in 1..Dates /\ visit = 0
  /\ rows' \in SUBSET Shares \ {{}}
  /\ \E p \in [rows' -> ClosePrices] :
       prices' = [s \in Shares |-> IF s \in rows' THEN p[s] ELSE 0]
  /\ last' = [s \in Shares |-> IF s \in rows' THEN prices'[s] ELSE last[s]]
  /\ visit' = 1
  /\ UNCHANGED <<date, method, pfBooks, curve>>

Least(a, b) == IF a < b THEN a ELSE b
MaxExposure == TotalCapital \div ExposureParts

Allocation_OfCash == \* mutant: the exposure limit is forgotten
  IF method = "fixed_fractional" THEN pfCash \div FixedParts ELSE pfCash

\* allocate() is called for one symbol and without returns: the inverse
\* volatility has weight one, no momentum falls back to equal weight, and all
\* but a fixed fraction give the symbol the whole amount.
Allocation ==
  LET capital == Least(pfCash, MaxExposure) IN
  IF method = "fixed_fractional" THEN capital \div FixedParts ELSE capital

Held == {s \in Shares : positions[s].qty > 0}

\* max(1, int(alloc_capital // price)): one share is bought however little is allocated
Quantity(price) == IF Allocation < price THEN 1 ELSE Allocation \div price

Enterable_OnCredit(s) == \* mutant: no test of cost > cash
  s \notin Held /\ Cardinality(Held) < MaxPositions /\ Allocation > 0

Enterable(s) ==
  /\ s \notin Held /\ Cardinality(Held) < MaxPositions
  /\ Allocation > 0
  /\ Quantity(prices[s]) * prices[s] <= pfCash

Exit_AnyPrice(s) == \* mutant: no test of price <= 0
  /\ s \in rows /\ s \in Held
  /\ pfCash' = pfCash + prices[s] * positions[s].qty
  /\ symbolPnl' = [symbolPnl EXCEPT ![s] =
                     @ + (prices[s] - positions[s].entry) * positions[s].qty]
  /\ positions' = [positions EXCEPT ![s] = Flat]

Exit(s) ==
  /\ prices[s] > 0 /\ s \in Held
  /\ pfCash' = pfCash + prices[s] * positions[s].qty
  /\ symbolPnl' = [symbolPnl EXCEPT ![s] =
                     @ + (prices[s] - positions[s].entry) * positions[s].qty]
  /\ positions' = [positions EXCEPT ![s] = Flat]

Enter(s) ==
  /\ prices[s] > 0 /\ Enterable(s)
  /\ pfCash' = pfCash - Quantity(prices[s]) * prices[s]
  /\ positions' = [positions EXCEPT ![s] = [qty |-> Quantity(prices[s]), entry |-> prices[s]]]
  /\ UNCHANGED symbolPnl

\* The signal: 1 enters, what is not positive exits, the rest changes nothing.
Visit(signal) ==
  /\ visit \in Shares
  /\ \/ signal <= 0 /\ Exit(visit)
     \/ signal = 1 /\ Enter(visit)
     \/ /\ ~(signal <= 0 /\ prices[visit] > 0 /\ visit \in Held)
        /\ ~(signal = 1 /\ prices[visit] > 0 /\ Enterable(visit))
        /\ UNCHANGED pfBooks
  /\ visit' = visit + 1
  /\ UNCHANGED <<date, pfFrame, method, curve>>

SumOver(f) == SumFunctionOnSet(f, Shares)

\* A position without a row on the date is marked at what it was bought for.
MarkToMarket ==
  /\ visit = Listed + 1
  /\ curve' = pfCash + SumOver([s \in Shares |->
       positions[s].qty * (IF s \in rows THEN prices[s] ELSE positions[s].entry)])
  /\ visit' = 0
  /\ date' = date + 1
  /\ UNCHANGED <<pfFrame, method, pfBooks>>

CloseOpen_NoPnl == \* mutant: symbol_pnl does not hear of the close either
  /\ date = Dates + 1
  /\ date' = Dates + 2
  /\ pfCash' = pfCash + SumOver([s \in Shares |-> positions[s].qty * last[s]])
  /\ positions' = [s \in Shares |-> IF last[s] # 0 THEN Flat ELSE positions[s]]
  /\ UNCHANGED <<visit, pfFrame, method, symbolPnl, curve>>

\* What is open after the last date is sold at its symbol's last close, if that
\* is not zero; the curve and the trade rows do not hear of it.
CloseOpen ==
  /\ date = Dates + 1
  /\ date' = Dates + 2
  /\ pfCash' = pfCash + SumOver([s \in Shares |-> positions[s].qty * last[s]])
  /\ symbolPnl' = [s \in Shares |->
       IF last[s] # 0 THEN symbolPnl[s] + (last[s] - positions[s].entry) * positions[s].qty
                      ELSE symbolPnl[s]]
  /\ positions' = [s \in Shares |-> IF last[s] # 0 THEN Flat ELSE positions[s]]
  /\ UNCHANGED <<visit, pfFrame, method, curve>>

PfNext ==
  \/ \E m \in Methods : RunPortfolio(m)
  \/ OpenDate
  \/ \E signal \in {-1, 0, 1} : Visit(signal)
  \/ MarkToMarket
  \/ CloseOpen

PfSpec == PfInit /\ [][PfNext]_pfVars

-----------------------------------------------------------------------------

PfTypeOK ==
  /\ date \in 0..(Dates + 2) /\ method \in Methods /\ visit \in 0..(Listed + 1)
  /\ rows \subseteq Shares
  /\ prices \in [Shares -> ClosePrices \cup {0}] /\ last \in [Shares -> ClosePrices \cup {0}]
  /\ pfCash \in Int
  /\ positions \in [Shares -> [qty : Nat, entry : Nat]]
  /\ symbolPnl \in [Shares -> Int] /\ curve \in Int

\* "Cash: tracked precisely" (portfolio_engine.py:10): cash and positions at
\* cost are the capital plus the PnL of the symbols, whatever is quoted, and no
\* close of zero or less costs cash before the end.  In the end all is cash but
\* the positions whose symbol closed at zero: they stay at cost, no PnL hears of
\* their loss, and the curve does.  It ends elsewhere than the cash only if a
\* symbol had no row on the last date, by what its position gained after its entry.
PfAccounts ==
  /\ pfCash + SumOver([s \in Shares |-> positions[s].qty * positions[s].entry])
       = TotalCapital + SumOver(symbolPnl)
  /\ date < Dates + 2 => pfCash >= 0
  /\ date = Dates + 2 => \A s \in Held : last[s] = 0
  /\ date = Dates + 2 /\ rows = Shares => curve = pfCash

\* What holds of max_exposure_pct, "single symbol never exceeds X% of total capital"
\* (portfolio_engine.py:9).  It does exceed it, already when it is bought, because
\* max(1, ...) buys a share that the limit does not pay; but a position beyond
\* the limit is a single share, however the cash has grown and whatever is held.
PfExposure ==
  /\ \A s \in Held : positions[s].qty * positions[s].entry <= MaxExposure \/ positions[s].qty = 1
  /\ Cardinality(Held) <= MaxPositions

=============================================================================
