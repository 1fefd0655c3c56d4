--------------------------------- MODULE Domain --------------------------------
(***************************************************************************)
(* The domain objects (domain/): an Order with its risk gate, rules and    *)
(* life cycle, the Positions its fills are booked in, the Portfolio that   *)
(* holds them.  Nothing in the repository but the tests drives them        *)
(* together, so the order of the calls is free but for this: an order is   *)
(* submitted to the rules, a fill that does not raise is booked, and a     *)
(* broker fills no more than has not been booked, no worse than the limit. *)
(* Orders are at work in the slots of a set, so many at once: the rules    *)
(* look at the portfolio, which hears of an order only when it is filled.  *)
(*                                                                         *)
(* A position is its shares and their cost, average_entry_price times      *)
(* quantity; partial closes are those with a whole average.                *)
(***************************************************************************)
EXTENDS Integers, FiniteSets, Functions, FiniteSetsExt

CONSTANTS
  Slots,          \* as many orders are at work at once
  Symbols,
  FillPrices,
  Sizes,          \* quantities asked for
  GateCaps,       \* max_qty of the gate, 0 for no cap
  InitialCapital,
  MaxValue, MaxDailyLoss, MaxOpen, ExposureCap, \* parameters of the four rules
  MarketPrice,    \* what MaxOrderSizeRule takes a share to cost without a limit
  Commission,
  NoOrder, NoPosition,
  MaxOrders       \* bounds the exploration

ASSUME DomainAssumption ==
  /\ IsFiniteSet(Slots) /\ Slots # {}
  /\ IsFiniteSet(Symbols)
  /\ FillPrices \subseteq Nat \ {0} /\ Sizes \subseteq Nat \ {0} /\ GateCaps \subseteq Nat
  /\ {InitialCapital, MaxValue, MaxDailyLoss, MaxOpen, ExposureCap, MarketPrice,
      Commission, MaxOrders} \subseteq Nat
  /\ NoPosition \notin [side : {"LONG", "SHORT"}, qty : Nat, cost : Nat]

VARIABLES
  order,      \* the order in each slot, at work or terminal
  open_positions,
  purse,      \* cash
  closed_trades, \* how many
  longPnl, shortPnl, \* their gross profits
  orders,     \* created so far
  unruly,     \* an order without a limit, or a SELL, has been filled (history)
  crooked     \* close_position() has raised, or a position was closed without
              \* the portfolio (history)

account == <<open_positions, purse, closed_trades, longPnl, shortPnl>>
domainVars == <<order, account, orders, unruly, crooked>>

Open == {s \in Symbols : open_positions[s] # NoPosition}
Exposure == SumFunctionOnSet([s \in Open |-> open_positions[s].cost], Open)
TotalRealized == longPnl + shortPnl - Commission * closed_trades

DomainInit ==
  /\ order = [i \in Slots |-> NoOrder]
  /\ open_positions = [s \in Symbols |-> NoPosition]
  /\ purse = InitialCapital
  /\ closed_trades = 0 /\ longPnl = 0 /\ shortPnl = 0
  /\ orders = 0
  /\ unruly = FALSE /\ crooked = FALSE

ValidTransitions ==
  [PENDING |-> {"OPEN", "CANCELLED", "REJECTED"},
   OPEN |-> {"PARTIALLY_FILLED", "FILLED", "CANCELLED", "REJECTED", "EXPIRED"},
   PARTIALLY_FILLED |-> {"FILLED", "CANCELLED", "EXPIRED"},
   FILLED |-> {}, CANCELLED |-> {}, REJECTED |-> {}, EXPIRED |-> {}]

Allowed(o, new) == new \in ValidTransitions[o.status]
IsTerminal(o) == ValidTransitions[o.status] = {}

Create_CapOfZero(i, sym, side, size, cap, price) == \* mutant: no cap is a cap of 0
  /\ order[i] # NoOrder => IsTerminal(order[i])
  /\ orders < MaxOrders
  /\ order' = [order EXCEPT ![i] =
       [symbol |-> sym, side |-> side, price |-> price, status |-> "PENDING",
        quantity |-> Min({size, cap}), filled |-> 0, booked |-> 0, raised |-> FALSE]]
  /\ orders' = orders + 1
  /\ UNCHANGED <<account, unruly, crooked>>

\* Order.create(), in a slot whose order can change no more: the gate may cap the
\* quantity.  No price, no limit.  Of history are what was booked of the order
\* and whether fill() has raised for it.
Create(i, sym, side, size, cap, price) ==
  /\ order[i] # NoOrder => IsTerminal(order[i])
  /\ orders < MaxOrders
  /\ order' = [order EXCEPT ![i] =
       [symbol |-> sym, side |-> side, price |-> price, status |-> "PENDING",
        quantity |-> IF cap > 0 THEN Min({size, cap}) ELSE size,
        filled |-> 0, booked |-> 0, raised |-> FALSE]]
  /\ orders' = orders + 1
  /\ UNCHANGED <<account, unruly, crooked>>

MaxOrderSize_OfOneShare(o) == \* mutant: of a single share
  (IF o.price > 0 THEN o.price ELSE MarketPrice) <= MaxValue

MaxOrderSize(o) == (IF o.price > 0 THEN o.price ELSE MarketPrice) * o.quantity <= MaxValue

DailyLoss == TotalRealized > -MaxDailyLoss

MaxOpenPositions(o) == o.side = "BUY" /\ o.symbol \notin Open => Cardinality(Open) < MaxOpen

ExposureLimit(o) == Exposure + o.price * o.quantity <= ExposureCap

Approved(o) == MaxOrderSize(o) /\ DailyLoss /\ MaxOpenPositions(o) /\ ExposureLimit(o)

\* RiskRuleSet.evaluate(), then transition(OPEN) or reject()
Submit(i) ==
  /\ order[i] # NoOrder /\ order[i].status = "PENDING"
  /\ order' = [order EXCEPT ![i].status = IF Approved(order[i]) THEN "OPEN" ELSE "REJECTED"]
  /\ UNCHANGED <<account, orders, unruly, crooked>>

\* cancel(), or transition() at the end of the day
Cancel(i, new) ==
  /\ order[i] # NoOrder /\ Allowed(order[i], new)
  /\ order' = [order EXCEPT ![i].status = new]
  /\ UNCHANGED <<account, orders, unruly, crooked>>

\* The side of a position is the side of the order that opened it: scaling in
\* does not look at it.
AddPosition(sym, side, qty, price) ==
  /\ LET p == open_positions[sym] IN
     open_positions' = [open_positions EXCEPT ![sym] =
       IF p = NoPosition
         THEN [side |-> IF side = "BUY" THEN "LONG" ELSE "SHORT", qty |-> qty, cost |-> qty * price]
         ELSE [side |-> p.side, qty |-> p.qty + qty, cost |-> p.cost + qty * price]]
  /\ purse' = purse - qty * price

Filled(o, qty) == IF o.filled + qty >= o.quantity THEN "FILLED" ELSE "PARTIALLY_FILLED"

WithinLimit(o, price) ==
  o.price > 0 => IF o.side = "BUY" THEN price <= o.price ELSE price >= o.price

\* fill(): the quantity is written before transition() may raise, here once an
\* order, which bounds the exploration.
Fill(i, qty, price) ==
  /\ order[i] # NoOrder
  /\ LET o == order[i] IN
     /\ qty <= o.quantity - o.booked /\ WithinLimit(o, price)
     /\ IF Allowed(o, Filled(o, qty))
          THEN /\ order' = [order EXCEPT ![i] = [o EXCEPT !.filled = @ + qty,
                                                          !.booked = @ + qty,
                                                          !.status = Filled(o, qty)]]
               /\ AddPosition(o.symbol, o.side, qty, price)
               /\ unruly' = (unruly \/ o.price = 0 \/ o.side = "SELL")
          ELSE /\ ~o.raised
               /\ order' = [order EXCEPT ![i] = [o EXCEPT !.filled = @ + qty, !.raised = TRUE]]
               /\ UNCHANGED <<open_positions, purse, unruly>>
  /\ UNCHANGED <<closed_trades, longPnl, shortPnl, orders, crooked>>

ClosePosition_CashOfEntry(sym, price) == \* mutant: the entry's value is credited
  /\ open_positions[sym] # NoPosition /\ price > 0 /\ open_positions[sym].qty > 0
  /\ open_positions' = [open_positions EXCEPT ![sym] = NoPosition]
  /\ LET p == open_positions[sym] gross == p.qty * price - p.cost IN
     /\ IF p.side = "LONG" THEN longPnl' = longPnl + gross /\ UNCHANGED shortPnl
                           ELSE shortPnl' = shortPnl - gross /\ UNCHANGED longPnl
     /\ purse' = purse + p.cost
     /\ closed_trades' = closed_trades + 1
  /\ UNCHANGED <<order, orders, unruly, crooked>>

\* close_position(): the position is popped, then close() raises if the price or
\* the quantity is zero.  The cash of a short moves like that of a long.
ClosePosition(sym, price) ==
  /\ open_positions[sym] # NoPosition
  /\ open_positions' = [open_positions EXCEPT ![sym] = NoPosition]
  /\ LET p == open_positions[sym] gross == p.qty * price - p.cost IN
     IF price > 0 /\ p.qty > 0
       THEN /\ IF p.side = "LONG" THEN longPnl' = longPnl + gross /\ UNCHANGED shortPnl
                                  ELSE shortPnl' = shortPnl - gross /\ UNCHANGED longPnl
            /\ purse' = purse + p.qty * price
            /\ closed_trades' = closed_trades + 1
            /\ UNCHANGED crooked
       ELSE /\ crooked' = TRUE
            /\ UNCHANGED <<longPnl, shortPnl, closed_trades, purse>>
  /\ UNCHANGED <<order, orders, unruly>>

WholeAverage(p) == p.cost % p.qty = 0

\* Position.close_partial(), which the portfolio does not hear of: an emptied
\* position stays in open_positions.
ClosePartial(sym, qty) ==
  /\ open_positions[sym] # NoPosition
  /\ LET p == open_positions[sym] IN
     /\ qty <= p.qty /\ WholeAverage(p)
     /\ open_positions' = [open_positions EXCEPT ![sym] =
          [side |-> p.side, qty |-> p.qty - qty, cost |-> p.cost - qty * (p.cost \div p.qty)]]
  /\ crooked' = TRUE
  /\ UNCHANGED <<order, purse, closed_trades, longPnl, shortPnl, orders, unruly>>

DomainNext ==
  \/ \E i \in Slots :
       \/ \E sym \in Symbols, side \in {"BUY", "SELL"}, size \in Sizes, cap \in GateCaps,
             price \in {0} \cup FillPrices : Create(i, sym, side, size, cap, price)
       \/ Submit(i)
       \/ \E new \in {"CANCELLED", "EXPIRED"} : Cancel(i, new)
       \/ \E qty \in Sizes, price \in FillPrices : Fill(i, qty, price)
  \/ \E sym \in Symbols :
       \/ \E price \in {0} \cup FillPrices : ClosePosition(sym, price)
       \/ \E qty \in Sizes : ClosePartial(sym, qty)

DomainSpec == DomainInit /\ [][DomainNext]_domainVars

-----------------------------------------------------------------------------

OrderRecord ==
  [symbol : Symbols, side : {"BUY", "SELL"}, price : {0} \cup FillPrices,
   status : DOMAIN ValidTransitions, quantity : Nat \ {0}, filled : Nat, booked : Nat,
   raised : BOOLEAN]

ASSUME OrderAssumption == NoOrder \notin OrderRecord

DomainTypeOK ==
  /\ \A i \in Slots : order[i] = NoOrder \/ order[i] \in OrderRecord
  /\ \A s \in Symbols :
       open_positions[s] = NoPosition
       \/ open_positions[s] \in [side : {"LONG", "SHORT"}, qty : Nat, cost : Nat]
  /\ \A s \in Open : open_positions[s].qty = 0 => crooked
  /\ orders \in 0..MaxOrders /\ closed_trades \in Nat

\* What the cash and the positions are worth at cost is the capital and what the
\* closed trades earned, a short's with the sign turned round, as close_position()
\* has it; it is less once a close has raised, which takes the position and leaves
\* no trade ("Fully close a position. Returns the resulting Trade.",
\* portfolio.py:117), or has passed the portfolio by.
MoneyConserved ==
  LET accounted == InitialCapital + longPnl - shortPnl IN
  /\ purse + Exposure <= accounted
  /\ ~crooked => purse + Exposure = accounted

\* What has been booked of an order is what it says was filled, and its status
\* agrees, unless fill() has raised, as it does for any second partial fill (it is of
\* the position that position.py:24 says "Handles multiple partial fills"); an order
\* is never booked beyond its quantity, and one that says it is filled may lack what
\* was counted by the fill that raised.
FillsCounted ==
  \A i \in Slots : order[i] # NoOrder =>
    LET o == order[i] IN
    /\ o.booked <= o.quantity /\ o.booked <= o.filled
    /\ ~o.raised => /\ o.booked = o.filled
                    /\ o.status = "FILLED" <=> o.booked = o.quantity
                    /\ o.status = "PARTIALLY_FILLED" => o.booked \in 1..(o.quantity - 1)

\* Rules that are asked once, before the order, do not cap what the portfolio comes
\* to ("Block if exposure exceeds 80% of capital", risk_rule.py:195), but bound it:
\* each other order at work adds to the exposure no more than the largest order,
\* and to the positions no more than one, as long as every order that was filled
\* was a BUY with a limit.
RulesBound ==
  ~unruly => /\ Exposure <= ExposureCap + (Cardinality(Slots) - 1) * MaxValue
             /\ Cardinality(Open) <= MaxOpen + Cardinality(Slots) - 1

\* The books of the domain objects hold together through orders at work together,
\* fills that raise, closes that raise and orders the rules reject (order.py,
\* position.py, portfolio.py, risk_rule.py).
DomainBooks == MoneyConserved /\ FillsCounted /\ RulesBound

=============================================================================
