---------------------------- MODULE PaperPortfolio ----------------------------
(***************************************************************************)
(* paper/portfolio.py with the books it drives (paper/order_book.py,       *)
(* position_book.py, trade_book.py), as paper/executor.py and the runner   *)
(* use it: on_signal(), the persist() that follows every fill, and the     *)
(* restore() of a new process.                                             *)
(*                                                                         *)
(* Nothing has a lock.  on_signal() checks cash or position, then updates  *)
(* the position book (read, write), the trade book and the cash; persist() *)
(* copies the trades, the positions and the cash one after the other into  *)
(* one SQLite transaction.  Threads interleave between any two of these:   *)
(*                                                                         *)
(*   idle -> read -> write -> book -> cash -> begin -> copy -> commit      *)
(*                                                                         *)
(* The trade book is kept as the two sums that its readers compute: the    *)
(* net quantity per symbol (_verify_integrity) and the cash its trades     *)
(* paid out.  An order has two prices, both after slippage: the quote that *)
(* the cash check multiplies, and the quote rounded to paise that the      *)
(* trade is booked at.  Average costs, PnL and last_prices decide nothing, *)
(* because the RiskManager that the gate wants to import from risk.limits  *)
(* does not exist and the gate is off.                                     *)
(***************************************************************************)
EXTENDS Integers

CONSTANTS
  Threads,     \* threads that use the portfolio
  Strategists, \* those that run a strategy; the others only square off
  Stocks,
  TicketSizes, \* quantities of an order
  TicketPrices, \* prices after slippage
  Slack,       \* what round(..., 2) may add to a price or take from it; 0 for
               \* the calls of PaperExecutor, which rounds before
  InitialCash,
  NoTicket,    \* what a thread has at hand before its first signal
  MaxFills,    \* fills in a behaviour (bounds the exploration)
  MaxRestores  \* restarts in a behaviour (bounds the exploration)

Order == {o \in [side : {"BUY", "SELL"}, symbol : Stocks, qty : TicketSizes,
                 quote : TicketPrices, price : TicketPrices] :
            o.price - o.quote <= Slack /\ o.quote - o.price <= Slack}

ASSUME PortfolioAssumption ==
  /\ NoTicket \notin Order
  /\ Strategists \subseteq Threads
  /\ TicketSizes \subseteq Nat \ {0}
  /\ TicketPrices \subseteq Nat \ {0}
  /\ InitialCash \in Nat /\ Slack \in Nat
  /\ MaxFills \in Nat /\ MaxRestores \in Nat

VARIABLES
  funds,        \* self.cash
  position,    \* position[s]: quantity in the position book, 0 if no entry
  net,         \* net[s]: bought minus sold, over the trades of s
  spent,       \* cash paid for purchases minus cash from sales, all trades
  corrupted,   \* self._corrupted
  disk,        \* the database
  at,          \* at[t]: where thread t is in on_signal() or persist()
  ticket,      \* ticket[t]: the order at hand
  seen,        \* seen[t]: quantity that PositionBook.update() has read
  copy,        \* copy[t]: what persist() has copied so far
  fills, restores

books == <<funds, position, net, spent>>
accountVars == <<books, corrupted, disk, at, ticket, seen, copy, fills, restores>>

FillPC == {"idle", "read", "write", "book", "cash", "begin", "copy", "commit"}

EmptyBooks == [cash |-> InitialCash, position |-> [s \in Stocks |-> 0],
               net |-> [s \in Stocks |-> 0], spent |-> 0]

Image == [cash : Int, position : [Stocks -> Nat], net : [Stocks -> Int], spent : Int]

AccountInit ==
  /\ funds = InitialCash
  /\ position = EmptyBooks.position
  /\ net = EmptyBooks.net
  /\ spent = 0
  /\ corrupted = FALSE
  /\ disk = EmptyBooks
  /\ at     = [t \in Threads |-> "idle"]
  /\ ticket = [t \in Threads |-> NoTicket]
  /\ seen   = [t \in Threads |-> 0]
  /\ copy   = [t \in Threads |-> EmptyBooks]
  /\ fills = 0
  /\ restores = 0

AccountTypeOK ==
  /\ funds \in Int
  /\ position \in [Stocks -> Nat]
  /\ net \in [Stocks -> Int]
  /\ spent \in Int
  /\ corrupted \in BOOLEAN
  /\ disk \in Image
  /\ at \in [Threads -> FillPC]
  /\ ticket \in [Threads -> Order \cup {NoTicket}]
  /\ \A t \in Threads : at[t] \in {"read", "write", "book", "cash"} => ticket[t] \in Order
  /\ seen \in [Threads -> Nat]
  /\ copy \in [Threads -> Image]
  /\ fills \in 0..MaxFills
  /\ restores \in 0..MaxRestores

-----------------------------------------------------------------------------
Move(t, from, to) == at[t] = from /\ at' = [at EXCEPT ![t] = to]

Value(o) == o.qty * o.price

\* Mutant of Affordable: the cash check is left to the broker.
Affordable_Always(o) == o.side = "SELL" => position[o.symbol] >= o.qty

\* The cash check of a BUY, the position check of a SELL.
Affordable(o) == IF o.side = "BUY" THEN o.qty * o.quote <= funds
                                   ELSE position[o.symbol] >= o.qty

\* on_signal() up to OrderBook.fill(), which finds the order that place() has
\* just registered.  A corrupted portfolio raises, a short one returns None,
\* and neither changes anything.
OnSignal(t) ==
  /\ Move(t, "idle", "read")
  /\ ~corrupted
  /\ fills < MaxFills
  /\ \E o \in Order :
       /\ t \notin Strategists => o.side = "SELL"
       /\ Affordable(o)
       /\ ticket' = [ticket EXCEPT ![t] = o]
  /\ fills' = fills + 1
  /\ UNCHANGED <<books, corrupted, disk, seen, copy, restores>>

\* PositionBook.update(), existing = self._positions.get(symbol)
ReadPosition(t) ==
  /\ Move(t, "read", "write")
  /\ seen' = [seen EXCEPT ![t] = position[ticket[t].symbol]]
  /\ UNCHANGED <<books, corrupted, disk, ticket, copy, fills, restores>>

\* Mutant of Updated: a sale of the whole position leaves its entry behind.
Updated_KeepsClosed(old, o) ==
  IF old = 0 \/ o.side = "BUY" THEN old + o.qty
                               ELSE IF o.qty < old THEN old - o.qty ELSE old

\* Mutant of Updated: the operands of the subtraction are swapped.
Updated_Swapped(old, o) ==
  IF old = 0 \/ o.side = "BUY" THEN old + o.qty
                               ELSE IF o.qty < old THEN o.qty - old ELSE 0

\* Without an entry any trade opens a position, a SELL too.
Updated(old, o) ==
  IF old = 0 \/ o.side = "BUY" THEN old + o.qty
                               ELSE IF o.qty < old THEN old - o.qty ELSE 0

\* The entry that t has read and would delete is no longer there: another thread
\* has deleted it since.
Gone(t) ==
  /\ seen[t] # 0 /\ Updated(seen[t], ticket[t]) = 0
  /\ position[ticket[t].symbol] = 0

\* PositionBook.update(), self._positions[symbol] = ... or del.  The del of an
\* entry that is gone raises KeyError, which leaves on_signal() with an order
\* that is filled but neither booked nor paid; the tick loop and the square-off
\* log it and go on.
WritePosition(t) ==
  /\ at[t] = "write"
  /\ at' = [at EXCEPT ![t] = IF Gone(t) THEN "idle" ELSE "book"]
  /\ position' = IF Gone(t) THEN position
                 ELSE [position EXCEPT ![ticket[t].symbol] = Updated(seen[t], ticket[t])]
  /\ UNCHANGED <<funds, net, spent, corrupted, disk, ticket, seen, copy, fills, restores>>

SignOf(o) == IF o.side = "BUY" THEN 1 ELSE -1

\* trade_book.add()
AddTrade(t) ==
  /\ Move(t, "book", "cash")
  /\ net'   = [net EXCEPT ![ticket[t].symbol] = @ + SignOf(ticket[t]) * ticket[t].qty]
  /\ spent' = spent + SignOf(ticket[t]) * Value(ticket[t])
  /\ UNCHANGED <<funds, position, corrupted, disk, ticket, seen, copy, fills, restores>>

\* Mutant of MoveCash: the price of a sale is not credited.
MoveCash_BuysOnly(t) ==
  /\ Move(t, "cash", "begin")
  /\ funds' = IF ticket[t].side = "BUY" THEN funds - Value(ticket[t]) ELSE funds
  /\ UNCHANGED <<position, net, spent, corrupted, disk, ticket, seen, copy, fills, restores>>

\* self.cash -= ... or +=, and on_signal() returns
MoveCash(t) ==
  /\ Move(t, "cash", "begin")
  /\ funds' = funds - SignOf(ticket[t]) * Value(ticket[t])
  /\ UNCHANGED <<position, net, spent, corrupted, disk, ticket, seen, copy, fills, restores>>

-----------------------------------------------------------------------------
(***************************************************************************)
(* persist(), which the runner's _safe_persist() calls after a fill, after *)
(* a square-off and at a stop, and whose errors it swallows.               *)
(***************************************************************************)
\* BEGIN IMMEDIATE admits one writer; then the trades are copied.
PersistBegin(t) ==
  /\ at[t] \in {"idle", "begin"}
  /\ \A u \in Threads : at[u] \notin {"copy", "commit"}
  /\ at'   = [at EXCEPT ![t] = "copy"]
  /\ copy' = [copy EXCEPT ![t].net = net, ![t].spent = spent]
  /\ UNCHANGED <<books, corrupted, disk, ticket, seen, fills, restores>>

PersistPositions(t) ==
  /\ Move(t, "copy", "commit")
  /\ copy' = [copy EXCEPT ![t].position = position]
  /\ UNCHANGED <<books, corrupted, disk, ticket, seen, fills, restores>>

\* Mutant of PersistCommit: the cash of the last save stays in the database.
PersistCommit_NoCash(t) ==
  /\ Move(t, "commit", "idle")
  /\ disk' = [copy[t] EXCEPT !.cash = disk.cash]
  /\ UNCHANGED <<books, corrupted, ticket, seen, copy, fills, restores>>

PersistCommit(t) ==
  /\ Move(t, "commit", "idle")
  /\ disk' = [copy[t] EXCEPT !.cash = funds]
  /\ UNCHANGED <<books, corrupted, ticket, seen, copy, fills, restores>>

\* The lock is not had in time, or a statement fails and all is rolled back; or
\* a square-off goes on to its next position, and persists after the last.
PersistFails(t) ==
  /\ at[t] \in {"begin", "copy", "commit"}
  /\ at' = [at EXCEPT ![t] = "idle"]
  /\ UNCHANGED <<books, corrupted, disk, ticket, seen, copy, fills, restores>>

\* _verify_integrity(): every entry equals the net of its trades, and a
\* positive net has an entry.  (A negative net without an entry passes.)
Mismatch(img) ==
  \E s \in Stocks :
    \/ img.position[s] # 0 /\ img.position[s] # img.net[s]
    \/ img.position[s] = 0 /\ img.net[s] > 0

\* The process dies, and the next one restores what was last committed.  (The
\* read of each table is guarded by a handler of its own; a database that only
\* persist() has written gives them nothing to handle.)
Restore ==
  /\ restores < MaxRestores
  /\ restores' = restores + 1
  /\ funds'     = disk.cash
  /\ position'  = disk.position
  /\ net'       = disk.net
  /\ spent'     = disk.spent
  /\ corrupted' = Mismatch(disk)
  /\ at'     = [t \in Threads |-> "idle"]
  /\ ticket' = [t \in Threads |-> NoTicket]
  /\ seen'   = [t \in Threads |-> 0]
  /\ copy'   = [t \in Threads |-> EmptyBooks]
  /\ UNCHANGED <<disk, fills>>

Step(t) ==
  \/ OnSignal(t) \/ ReadPosition(t) \/ WritePosition(t) \/ AddTrade(t) \/ MoveCash(t)
  \/ PersistBegin(t) \/ PersistPositions(t) \/ PersistCommit(t) \/ PersistFails(t)

AccountNext == (\E t \in Threads : Step(t)) \/ Restore

AccountSpec == AccountInit /\ [][AccountNext]_accountVars

-----------------------------------------------------------------------------
Trading(pcs) == \E t \in Threads : at[t] \in pcs

(***************************************************************************)
(* Between two signals the position book and the trade book tell the same  *)
(* story, the condition that _verify_integrity() tests.  It takes a single *)
(* thread: two that have both passed the position check sell the same      *)
(* shares, and the second SELL finds no entry and opens a position.        *)
(***************************************************************************)
BooksAgree == ~Trading({"read", "write", "book"}) => position = net

(***************************************************************************)
(* Between two signals the cash is the initial cash less what the trades   *)
(* have cost, and nothing is bought on credit: what the rounding of one    *)
(* order's price can add is all that the cash is ever short of.            *)
(***************************************************************************)
CashAgrees ==
  /\ ~Trading({"cash"}) => funds = InitialCash - spent
  /\ \E q \in TicketSizes \cup {0} : funds >= -(q * Slack)

(***************************************************************************)
(* The database always holds one consistent account, whichever step of a   *)
(* fill or of a persist() a crash interrupts: restore() never finds a      *)
(* mismatch, and the restored cash fits the restored trades.               *)
(***************************************************************************)
DiskConsistent ==
  /\ ~corrupted
  /\ disk.position = disk.net
  /\ disk.cash = InitialCash - disk.spent

(***************************************************************************)
(* The portfolio implements PaperLedger: a trade takes effect when it      *)
(* enters the trade book, a save when it commits.  In particular the check *)
(* that on_signal() made still holds when the trade is booked.             *)
(***************************************************************************)
Ledger == INSTANCE PaperLedger WITH
  Symbols <- Stocks, Quantities <- TicketSizes, Prices <- TicketPrices,
  account <- [cash |-> InitialCash - spent, shares |-> net],
  saved   <- [cash |-> InitialCash - disk.spent, shares |-> disk.net]

LedgerSpec == Ledger!Spec
=============================================================================
