------------------------- MODULE PaperPortfolio_proofs -------------------------
(***************************************************************************)
(* Proofs about PaperPortfolio, for any symbols, quantities, prices,       *)
(* rounding, cash, fills and crashes, and for a single thread: with two    *)
(* the books need not agree, as the run with a square-off shows.           *)
(***************************************************************************)
EXTENDS PaperPortfolio, TLAPS

SingleThread == \A t, u \in Threads : t = u

\* Nothing is bought on credit, to the rounding of one order.
Credit(c) == \E q \in TicketSizes \cup {0} : c >= -(q * Slack)

(***************************************************************************)
(* What a thread knows of the order at hand: until the trade book has it,  *)
(* the check that on_signal() made still holds of the trade book and of    *)
(* the cash.                                                               *)
(***************************************************************************)
Covered(o) == IF o.side = "BUY" THEN o.qty * o.quote <= funds
                                ELSE net[o.symbol] >= o.qty

Traded(o) == [net EXCEPT ![o.symbol] = @ + SignOf(o) * o.qty]

InHand(t) ==
  /\ at[t] \in {"read", "write", "book"} => Covered(ticket[t])
  /\ at[t] \in {"read", "write"} => position = net
  /\ at[t] = "write" => seen[t] = position[ticket[t].symbol]
  /\ at[t] = "book" => position = Traded(ticket[t])
  /\ at[t] = "cash" =>
       /\ funds = InitialCash - spent + SignOf(ticket[t]) * Value(ticket[t])
       /\ ticket[t].side = "BUY" => ticket[t].qty * ticket[t].quote <= funds

\* What persist() has copied is what the books still say.
Copied(t) ==
  /\ at[t] \in {"copy", "commit"} => copy[t].net = net /\ copy[t].spent = spent
  /\ at[t] = "commit" => copy[t].position = position

AccountInv ==
  /\ BooksAgree
  /\ ~Trading({"cash"}) => funds = InitialCash - spent
  /\ Credit(funds)
  /\ \A t \in Threads : InHand(t) /\ Copied(t)
  /\ DiskConsistent
  /\ Credit(disk.cash)

-----------------------------------------------------------------------------
LEMMA Rounding ==
  ASSUME NEW q \in Nat, NEW s \in Nat, NEW a \in Nat, NEW b \in Nat, b - a <= s
  PROVE  q * b <= q * a + q * s /\ q * (b - s) <= q * a
<1>1. q * (b - a) <= q * s
  <2> DEFINE d == s - (b - a)
  <2>1. d \in Nat
    OBVIOUS
  <2>2. q * d >= 0
    BY <2>1
  <2>3. q * d = q * s - q * (b - a)
    OBVIOUS
  <2> HIDE DEF d
  <2> QED BY <2>1, <2>2, <2>3
<1>2. q * (b - a) = q * b - q * a /\ q * (b - s) = q * b - q * s
  OBVIOUS
<1>3. q * b \in Int /\ q * a \in Int /\ q * s \in Int
  OBVIOUS
<1> QED BY <1>1, <1>2, <1>3

\* The fields of an order, and what they are worth.
LEMMA Orders ==
  ASSUME NEW o \in Order
  PROVE  /\ o.side \in {"BUY", "SELL"} /\ o.symbol \in Stocks
         /\ o.qty \in TicketSizes /\ o.qty \in Nat \ {0}
         /\ o.price \in TicketPrices /\ o.quote \in TicketPrices /\ o.price \in Nat /\ o.quote \in Nat
         /\ Value(o) \in Nat /\ o.qty * o.quote \in Nat
         /\ SignOf(o) \in {1, -1} /\ (SignOf(o) = 1 <=> o.side = "BUY")
         /\ Value(o) <= o.qty * o.quote + o.qty * Slack
         /\ o.qty * (o.price - Slack) <= o.qty * o.quote
<1>1. /\ o.side \in {"BUY", "SELL"} /\ o.symbol \in Stocks
      /\ o.qty \in TicketSizes /\ o.price \in TicketPrices /\ o.quote \in TicketPrices
      /\ o.price - o.quote <= Slack
  BY DEF Order
<1>2. o.qty \in Nat \ {0} /\ o.price \in Nat /\ o.quote \in Nat /\ Slack \in Nat
  BY <1>1, PortfolioAssumption
<1>3. o.qty * o.price \in Nat /\ o.qty * o.quote \in Nat
  BY <1>2
<1>4. /\ o.qty * o.price <= o.qty * o.quote + o.qty * Slack
      /\ o.qty * (o.price - Slack) <= o.qty * o.quote
  BY <1>1, <1>2, Rounding
<1> QED BY <1>1, <1>2, <1>3, <1>4 DEF Value, SignOf

-----------------------------------------------------------------------------
LEMMA InitAccount == AccountInit => AccountTypeOK /\ AccountInv
<1> SUFFICES ASSUME AccountInit PROVE AccountTypeOK /\ AccountInv
  OBVIOUS
<1>1. AccountTypeOK
  <2>1. EmptyBooks \in Image
    BY PortfolioAssumption DEF Image, EmptyBooks
  <2>2. /\ funds \in Int /\ position \in [Stocks -> Nat]
        /\ net \in [Stocks -> Int] /\ spent \in Int
    BY PortfolioAssumption DEF AccountInit, EmptyBooks
  <2>3. /\ disk \in Image /\ copy \in [Threads -> Image]
        /\ corrupted \in BOOLEAN
    BY <2>1 DEF AccountInit
  <2>4. /\ at \in [Threads -> FillPC]
        /\ ticket \in [Threads -> Order \cup {NoTicket}]
        /\ \A t \in Threads : at[t] = "idle"
        /\ seen \in [Threads -> Nat]
    BY DEF AccountInit, FillPC
  <2>5. fills \in 0..MaxFills /\ restores \in 0..MaxRestores
    BY PortfolioAssumption DEF AccountInit
  <2> QED BY <2>2, <2>3, <2>4, <2>5 DEF AccountTypeOK
<1> USE PortfolioAssumption DEF AccountInit, EmptyBooks
<1>2. Credit(funds) /\ Credit(disk.cash)
  BY DEF Credit
<1>3. BooksAgree /\ DiskConsistent /\ funds = InitialCash - spent
  BY DEF BooksAgree, DiskConsistent
<1>4. \A t \in Threads : InHand(t) /\ Copied(t)
  BY DEF InHand, Copied
<1> QED BY <1>1, <1>2, <1>3, <1>4 DEF AccountInv


-----------------------------------------------------------------------------
LEMMA NextType ==
  ASSUME AccountTypeOK, [AccountNext]_accountVars
  PROVE  AccountTypeOK'
<1> USE DEF AccountTypeOK
<1>0. CASE UNCHANGED accountVars
  BY <1>0 DEF accountVars, books
<1>1. ASSUME NEW t \in Threads, OnSignal(t) PROVE AccountTypeOK'
  BY <1>1, PortfolioAssumption DEF OnSignal, Move, books, FillPC
<1>2. ASSUME NEW t \in Threads, ReadPosition(t) PROVE AccountTypeOK'
  <2>1. ticket[t] \in Order
    BY <1>2 DEF ReadPosition, Move
  <2>2. position[ticket[t].symbol] \in Nat
    BY <2>1, Orders
  <2> QED BY <1>2, <2>1, <2>2 DEF ReadPosition, Move, books, FillPC
<1>3. ASSUME NEW t \in Threads, WritePosition(t) PROVE AccountTypeOK'
  <2>1. ticket[t] \in Order
    BY <1>3 DEF WritePosition, Move
  <2>2. Updated(seen[t], ticket[t]) \in Nat
    BY <2>1, Orders DEF Updated
  <2>3. at' \in [Threads -> FillPC] /\ position' \in [Stocks -> Nat]
    BY <1>3, <2>2 DEF WritePosition, FillPC
  <2>4. \A u \in Threads : at'[u] \in {"read", "write", "book", "cash"} => ticket[u] \in Order
    BY <1>3, <2>1 DEF WritePosition
  <2> QED BY <1>3, <2>3, <2>4 DEF WritePosition
<1>4. ASSUME NEW t \in Threads, AddTrade(t) PROVE AccountTypeOK'
  <2>1. ticket[t] \in Order
    BY <1>4 DEF AddTrade, Move
  <2>2. SignOf(ticket[t]) * ticket[t].qty \in Int /\ SignOf(ticket[t]) * Value(ticket[t]) \in Int
    BY <2>1, Orders
  <2>3. net' \in [Stocks -> Int] /\ spent' \in Int
    <3>1. PICK d \in Int, e \in Int : d = SignOf(ticket[t]) * ticket[t].qty
                                    /\ e = SignOf(ticket[t]) * Value(ticket[t])
      BY <2>2
    <3>2. net' = [net EXCEPT ![ticket[t].symbol] = @ + d] /\ spent' = spent + e
      BY <1>4, <3>1 DEF AddTrade
    <3>3. spent' \in Int
      BY <3>1, <3>2
    <3>4. net' \in [Stocks -> Int]
      <4>1. ticket[t].symbol \in Stocks
        BY <2>1, Orders
      <4>2. net[ticket[t].symbol] + d \in Int
        BY <4>1, <3>1
      <4> QED BY <4>2, <3>2
    <3> QED BY <3>3, <3>4
  <2>4. at' \in [Threads -> FillPC]
    BY <1>4 DEF AddTrade, Move, FillPC
  <2>5. \A u \in Threads : at'[u] \in {"read", "write", "book", "cash"} => ticket[u] \in Order
    BY <1>4, <2>1 DEF AddTrade, Move
  <2> QED BY <1>4, <2>3, <2>4, <2>5 DEF AddTrade
<1>5. ASSUME NEW t \in Threads, MoveCash(t) PROVE AccountTypeOK'
  <2>1. ticket[t] \in Order
    BY <1>5 DEF MoveCash, Move
  <2>2. SignOf(ticket[t]) * Value(ticket[t]) \in Int
    BY <2>1, Orders
  <2> QED BY <1>5, <2>2 DEF MoveCash, Move, FillPC
<1>6. ASSUME NEW t \in Threads, PersistBegin(t) PROVE AccountTypeOK'
  <2>1. [copy[t] EXCEPT !.net = net, !.spent = spent] \in Image
    BY DEF Image
  <2>2. copy' = [copy EXCEPT ![t] = [copy[t] EXCEPT !.net = net, !.spent = spent]]
    BY <1>6 DEF PersistBegin
  <2> QED BY <1>6, <2>1, <2>2 DEF PersistBegin, books, FillPC
<1>7. ASSUME NEW t \in Threads, PersistPositions(t) PROVE AccountTypeOK'
  <2>1. [copy[t] EXCEPT !.position = position] \in Image
    BY DEF Image
  <2> QED BY <1>7, <2>1 DEF PersistPositions, Move, books, FillPC
<1>8. ASSUME NEW t \in Threads, PersistCommit(t) PROVE AccountTypeOK'
  <2>1. [copy[t] EXCEPT !.cash = funds] \in Image
    BY DEF Image
  <2> QED BY <1>8, <2>1 DEF PersistCommit, Move, books, FillPC
<1>9. ASSUME NEW t \in Threads, PersistFails(t) PROVE AccountTypeOK'
  BY <1>9 DEF PersistFails, books, FillPC
<1>10. CASE Restore
  <2>1. EmptyBooks \in Image
    BY PortfolioAssumption DEF EmptyBooks, Image
  <2>2. /\ disk.cash \in Int /\ disk.position \in [Stocks -> Nat]
        /\ disk.net \in [Stocks -> Int] /\ disk.spent \in Int
    BY DEF Image
  <2>3. Mismatch(disk) \in BOOLEAN
    BY DEF Mismatch
  <2> QED BY <1>10, <2>1, <2>2, <2>3, PortfolioAssumption DEF Restore, FillPC
<1> QED BY <1>0, <1>1, <1>2, <1>3, <1>4, <1>5, <1>6, <1>7, <1>8, <1>9, <1>10 DEF AccountNext, Step


(***************************************************************************)
(* The types hold for any number of threads.                               *)
(***************************************************************************)
THEOREM TypeCorrect == AccountSpec => []AccountTypeOK
<1>1. AccountInit => AccountTypeOK
  BY InitAccount
<1>2. AccountTypeOK /\ [AccountNext]_accountVars => AccountTypeOK'
  BY NextType
<1> QED BY <1>1, <1>2, PTL DEF AccountSpec

-----------------------------------------------------------------------------
(***************************************************************************)
(* With one thread, where it is tells which parts are under way.  One step *)
(* per action, and under it one per conjunct.                              *)
(***************************************************************************)
Books(t) ==
  /\ at[t] \notin {"read", "write", "book"} => position = net
  /\ at[t] # "cash" => funds = InitialCash - spent

Disk == DiskConsistent /\ Credit(disk.cash)

LEMMA OnlyThread ==
  ASSUME SingleThread, NEW t \in Threads
  PROVE  /\ AccountInv  <=> Books(t)  /\ Credit(funds)  /\ InHand(t)  /\ Copied(t)  /\ Disk
         /\ AccountInv' <=> Books(t)' /\ Credit(funds)' /\ InHand(t)' /\ Copied(t)' /\ Disk'
<1>1. \A u \in Threads : u = t
  BY DEF SingleThread
<1>2. AccountInv  <=> Books(t)  /\ Credit(funds)  /\ InHand(t)  /\ Copied(t)  /\ Disk
  BY <1>1 DEF AccountInv, BooksAgree, Books, Trading, Disk
<1>3. AccountInv' <=> Books(t)' /\ Credit(funds)' /\ InHand(t)' /\ Copied(t)' /\ Disk'
  BY <1>1 DEF AccountInv, BooksAgree, Books, Trading, Disk
<1> QED BY <1>2, <1>3

LEMMA AccountStep ==
  ASSUME SingleThread, AccountTypeOK, AccountInv, NEW t \in Threads, Step(t)
  PROVE  AccountInv'
<1> USE DEF AccountTypeOK
<1>0. Books(t) /\ Credit(funds) /\ InHand(t) /\ Copied(t) /\ Disk
  BY OnlyThread
<1> SUFFICES Books(t)' /\ Credit(funds)' /\ InHand(t)' /\ Copied(t)' /\ Disk'
  BY OnlyThread
<1>1. CASE OnSignal(t)
  <2>1. PICK o \in Order : Affordable(o) /\ ticket' = [ticket EXCEPT ![t] = o]
    BY <1>1 DEF OnSignal
  <2>2. /\ at[t] = "idle" /\ at'[t] = "read" /\ ticket'[t] = o
        /\ UNCHANGED <<funds, position, net, spent, disk, corrupted>>
    BY <1>1, <2>1 DEF OnSignal, Move, books
  <2>3. position = net
    BY <1>0, <2>2 DEF Books
  <2>4. Covered(o)'
    BY <2>1, <2>2, <2>3 DEF Covered, Affordable
  <2>5. InHand(t)'
    BY <2>2, <2>3, <2>4 DEF InHand, Covered
  <2> QED BY <1>0, <2>2, <2>5 DEF Books, Copied, Disk, DiskConsistent, Credit
<1>2. CASE ReadPosition(t)
  <2>1. /\ at[t] = "read" /\ at'[t] = "write" /\ seen'[t] = position[ticket[t].symbol]
        /\ UNCHANGED <<funds, position, net, spent, disk, corrupted, ticket>>
    BY <1>2 DEF ReadPosition, Move, books
  <2>2. InHand(t)'
    BY <1>0, <2>1 DEF InHand, Covered
  <2> QED BY <1>0, <2>1, <2>2 DEF Books, Copied, Disk, DiskConsistent, Credit
<1>3. CASE WritePosition(t)
  <2> DEFINE o == ticket[t]
  <2>0. at[t] = "write"
    BY <1>3 DEF WritePosition
  <2>2. position = net /\ seen[t] = net[o.symbol] /\ Covered(o) /\ o \in Order
    BY <1>0, <2>0 DEF InHand
  <2>6. ~Gone(t)
    BY <2>2 DEF Gone
  <2>1. /\ at[t] = "write" /\ at'[t] = "book"
        /\ position' = [position EXCEPT ![o.symbol] = Updated(seen[t], o)]
        /\ UNCHANGED <<funds, net, spent, disk, corrupted, ticket>>
    BY <1>3, <2>6 DEF WritePosition
  <2>3. Updated(seen[t], o) = net[o.symbol] + SignOf(o) * o.qty
    BY <2>2, Orders DEF Updated, Covered, SignOf
  <2>4. position' = Traded(o)
    BY <2>1, <2>2, <2>3 DEF Traded
  <2>5. InHand(t)'
    BY <2>1, <2>2, <2>4 DEF InHand, Covered, Traded
  <2> QED BY <1>0, <2>1, <2>5 DEF Books, Copied, Disk, DiskConsistent, Credit
<1>4. CASE AddTrade(t)
  <2> DEFINE o == ticket[t]
  <2>1. /\ at[t] = "book" /\ at'[t] = "cash"
        /\ net' = Traded(o) /\ spent' = spent + SignOf(o) * Value(o)
        /\ UNCHANGED <<funds, position, disk, corrupted, ticket>>
    BY <1>4 DEF AddTrade, Move, Traded
  <2>2. position' = net' /\ Covered(o) /\ o \in Order /\ funds = InitialCash - spent
    BY <1>0, <2>1 DEF InHand, Books
  <2>3. SignOf(o) * Value(o) \in Int /\ InitialCash \in Int
    BY <2>2, Orders, PortfolioAssumption
  <2>4. funds = InitialCash - spent' + SignOf(o) * Value(o)
    BY <2>1, <2>2, <2>3
  <2>5. InHand(t)'
    BY <2>1, <2>2, <2>4 DEF InHand, Covered, SignOf, Value
  <2> QED BY <1>0, <2>1, <2>2, <2>5 DEF Books, Copied, Disk, DiskConsistent, Credit
<1>5. CASE MoveCash(t)
  <2> DEFINE o == ticket[t]
  <2>1. /\ at[t] = "cash" /\ at'[t] = "begin"
        /\ funds' = funds - SignOf(o) * Value(o)
        /\ UNCHANGED <<position, net, spent, disk, corrupted, ticket>>
    BY <1>5 DEF MoveCash, Move
  <2>2. /\ o \in Order /\ position = net
        /\ funds = InitialCash - spent + SignOf(o) * Value(o)
        /\ o.side = "BUY" => o.qty * o.quote <= funds
    BY <1>0, <2>1 DEF InHand, Books
  <2>3. SignOf(o) * Value(o) \in Int /\ InitialCash \in Int
    BY <2>2, Orders, PortfolioAssumption
  <2>4. funds' = InitialCash - spent
    BY <2>1, <2>2, <2>3
  <2>5. Credit(funds')
    <3>1. CASE o.side = "BUY"
      <4>1. funds' >= -(o.qty * Slack)
        <5>1. SignOf(o) = 1 /\ Value(o) \in Nat /\ Value(o) <= o.qty * o.quote + o.qty * Slack
          BY <3>1, <2>2, Orders
        <5>2. o.qty * o.quote \in Int /\ o.qty * Slack \in Int
          BY <2>2, Orders, PortfolioAssumption
        <5>3. funds' = funds - Value(o)
          BY <5>1, <2>1
        <5> QED BY <5>1, <5>2, <5>3, <2>2, <3>1
      <4>2. o.qty \in TicketSizes
        BY <2>2, Orders
      <4> QED BY <4>1, <4>2 DEF Credit
    <3>2. CASE o.side = "SELL"
      <4>1. SignOf(o) = -1 /\ Value(o) \in Nat
        BY <3>2, <2>2, Orders
      <4>2. funds' = funds + Value(o)
        BY <4>1, <2>1
      <4>3. PICK q \in TicketSizes \cup {0} : funds >= -(q * Slack)
        BY <1>0 DEF Credit
      <4>4. q * Slack \in Int
        BY PortfolioAssumption
      <4> QED BY <4>1, <4>2, <4>3, <4>4 DEF Credit
    <3> QED BY <3>1, <3>2, <2>2, Orders
  <2>6. InHand(t)' /\ Copied(t)' /\ Books(t)'
    BY <2>1, <2>2, <2>4 DEF InHand, Copied, Books
  <2> QED BY <1>0, <2>1, <2>5, <2>6 DEF Disk, DiskConsistent, Credit
<1>6. CASE PersistBegin(t)
  <2>1. /\ at[t] \in {"idle", "begin"} /\ at'[t] = "copy"
        /\ copy'[t].net = net /\ copy'[t].spent = spent
        /\ UNCHANGED <<funds, position, net, spent, disk, corrupted>>
    <3>1. copy' = [copy EXCEPT ![t] = [copy[t] EXCEPT !.net = net, !.spent = spent]]
      BY <1>6 DEF PersistBegin
    <3>2. copy[t] \in Image
      OBVIOUS
    <3>3. copy'[t] = [copy[t] EXCEPT !.net = net, !.spent = spent]
      BY <3>1
    <3>4. copy'[t].net = net /\ copy'[t].spent = spent
      BY <3>2, <3>3 DEF Image
    <3> QED BY <1>6, <3>4 DEF PersistBegin, books
  <2> QED BY <1>0, <2>1 DEF Books, InHand, Copied, Disk, DiskConsistent, Credit
<1>7. CASE PersistPositions(t)
  <2>1. /\ at[t] = "copy" /\ at'[t] = "commit"
        /\ copy'[t] = [copy[t] EXCEPT !.position = position]
        /\ UNCHANGED <<funds, position, net, spent, disk, corrupted>>
    BY <1>7 DEF PersistPositions, Move, books
  <2>2. /\ copy'[t].net = copy[t].net /\ copy'[t].spent = copy[t].spent
        /\ copy'[t].position = position
    BY <2>1 DEF Image
  <2> QED BY <1>0, <2>1, <2>2 DEF Books, InHand, Copied, Disk, DiskConsistent, Credit
<1>8. CASE PersistCommit(t)
  <2>1. /\ at[t] = "commit" /\ at'[t] = "idle"
        /\ disk' = [copy[t] EXCEPT !.cash = funds]
        /\ UNCHANGED <<funds, position, net, spent, corrupted>>
    BY <1>8 DEF PersistCommit, Move, books
  <2>2. /\ disk'.net = copy[t].net /\ disk'.spent = copy[t].spent
        /\ disk'.position = copy[t].position /\ disk'.cash = funds
    BY <2>1 DEF Image
  <2>3. Disk'
    BY <1>0, <2>1, <2>2 DEF Books, Copied, Disk, DiskConsistent, Credit
  <2> QED BY <1>0, <2>1, <2>3 DEF Books, InHand, Copied, Credit
<1>9. CASE PersistFails(t)
  BY <1>0, <1>9 DEF PersistFails, books, Books, InHand, Copied, Disk, DiskConsistent, Credit
<1> QED BY <1>1, <1>2, <1>3, <1>4, <1>5, <1>6, <1>7, <1>8, <1>9 DEF Step


\* restore() goes back to what a commit has left.
LEMMA RestartStep ==
  ASSUME AccountTypeOK, AccountInv, Restore
  PROVE  AccountInv'
<1>1. /\ funds' = disk.cash /\ position' = disk.position /\ net' = disk.net
      /\ spent' = disk.spent /\ disk' = disk /\ corrupted' = Mismatch(disk)
      /\ \A t \in Threads : at'[t] = "idle"
  BY DEF Restore
<1>2. DiskConsistent /\ Credit(disk.cash) /\ disk \in Image
  BY DEF AccountInv, AccountTypeOK
<1>3. ~Mismatch(disk)
  BY <1>2 DEF Mismatch, DiskConsistent, Image
<1>4. Credit(funds)' /\ Credit(disk.cash)'
  BY <1>1, <1>2 DEF Credit
<1>5. BooksAgree' /\ DiskConsistent' /\ funds' = InitialCash - spent'
  BY <1>1, <1>2, <1>3 DEF BooksAgree, DiskConsistent
<1>6. \A t \in Threads : InHand(t)' /\ Copied(t)'
  BY <1>1 DEF InHand, Copied
<1> QED BY <1>4, <1>5, <1>6 DEF AccountInv

LEMMA NextAccount ==
  ASSUME SingleThread, AccountTypeOK, AccountInv, [AccountNext]_accountVars
  PROVE  AccountInv'
<1>1. CASE UNCHANGED accountVars
  BY <1>1 DEF accountVars, books, AccountInv, BooksAgree, Trading, Credit, InHand, Covered,
     Traded, Copied, DiskConsistent
<1>2. CASE AccountNext
  BY <1>2, AccountStep, RestartStep DEF AccountNext
<1> QED BY <1>1, <1>2

\* The inductive invariant of an account that a single thread uses.
THEOREM AccountHolds ==
  ASSUME SingleThread
  PROVE  AccountSpec => [](AccountTypeOK /\ AccountInv)
<1>1. AccountInit => AccountTypeOK /\ AccountInv
  BY InitAccount
<1>2. AccountTypeOK /\ AccountInv /\ [AccountNext]_accountVars => AccountTypeOK' /\ AccountInv'
  BY NextType, NextAccount
<1> QED BY <1>1, <1>2, PTL DEF AccountSpec

(***************************************************************************)
(* With one thread the position book and the trade book tell the same      *)
(* story between two signals.                                              *)
(***************************************************************************)
THEOREM BooksAgreeHolds ==
  ASSUME SingleThread
  PROVE  AccountSpec => []BooksAgree
<1>1. AccountTypeOK /\ AccountInv => BooksAgree
  BY DEF AccountInv
<1> QED BY <1>1, AccountHolds, PTL

(***************************************************************************)
(* With one thread the cash is what the trades have left of it, short of   *)
(* nothing but the rounding of one order.                                  *)
(***************************************************************************)
THEOREM CashAgreesHolds ==
  ASSUME SingleThread
  PROVE  AccountSpec => []CashAgrees
<1>1. AccountTypeOK /\ AccountInv => CashAgrees
  BY DEF AccountInv, CashAgrees, Credit
<1> QED BY <1>1, AccountHolds, PTL

(***************************************************************************)
(* With one thread the database holds one consistent account, whichever    *)
(* step of a fill or of a persist() a crash interrupts.                    *)
(***************************************************************************)
THEOREM DiskConsistentHolds ==
  ASSUME SingleThread
  PROVE  AccountSpec => []DiskConsistent
<1>1. AccountTypeOK /\ AccountInv => DiskConsistent
  BY DEF AccountInv
<1> QED BY <1>1, AccountHolds, PTL

-----------------------------------------------------------------------------
LEMMA LedgerInit == AccountInit => Ledger!Init
<1> SUFFICES ASSUME AccountInit PROVE Ledger!Init
  OBVIOUS
<1>1. /\ spent = 0 /\ net = [s \in Stocks |-> 0]
      /\ disk.spent = 0 /\ disk.net = [s \in Stocks |-> 0]
  BY DEF AccountInit, EmptyBooks
<1>2. InitialCash - 0 = InitialCash
  BY PortfolioAssumption
<1> QED BY <1>1, <1>2 DEF Ledger!Init, Ledger!Opening

LedgerVars == <<[cash |-> InitialCash - spent, shares |-> net],
                [cash |-> InitialCash - disk.spent, shares |-> disk.net]>>

\* A trade takes effect when it enters the trade book ...
LEMMA BookingStep ==
  ASSUME SingleThread, AccountTypeOK, AccountInv, NEW t \in Threads, AddTrade(t)
  PROVE  Ledger!Next
<1> DEFINE o == ticket[t]
<1> USE DEF AccountTypeOK
<1>1. /\ o \in Order /\ Covered(o) /\ funds = InitialCash - spent
      /\ net' = [net EXCEPT ![o.symbol] = @ + SignOf(o) * o.qty]
      /\ spent' = spent + SignOf(o) * Value(o) /\ disk' = disk
  <2>1. at[t] = "book"
    BY DEF AddTrade, Move
  <2> QED BY <2>1, OnlyThread DEF AddTrade, InHand, Books
<1>2. /\ o.symbol \in Stocks /\ o.qty \in TicketSizes /\ o.price \in TicketPrices
      /\ o.qty \in Nat /\ Value(o) = o.qty * o.price /\ Value(o) \in Nat
      /\ o.qty * (o.price - Slack) <= o.qty * o.quote /\ InitialCash \in Nat
      /\ o.qty * (o.price - Slack) \in Int /\ o.qty * o.quote \in Int
  BY <1>1, Orders, PortfolioAssumption DEF Value
<1>3. CASE o.side = "BUY"
  <2>1. SignOf(o) = 1
    BY <1>3 DEF SignOf
  <2>2. InitialCash - spent >= o.qty * (o.price - Slack)
    BY <1>1, <1>2, <1>3 DEF Covered
  <2>3. InitialCash - spent' = (InitialCash - spent) - o.qty * o.price
    BY <1>1, <1>2, <2>1
  <2>4. net' = [net EXCEPT ![o.symbol] = @ + o.qty]
    <3>1. SignOf(o) * o.qty = o.qty
      BY <1>2, <2>1
    <3> QED BY <1>1, <3>1
  <2>5. Ledger!Buy(o.symbol, o.qty, o.price)
    BY <1>1, <2>2, <2>3, <2>4 DEF Ledger!Buy
  <2> QED BY <1>2, <2>5 DEF Ledger!Next
<1>4. CASE o.side = "SELL"
  <2>1. SignOf(o) = -1
    BY <1>4 DEF SignOf
  <2>2. net[o.symbol] >= o.qty
    BY <1>1, <1>4 DEF Covered
  <2>3. InitialCash - spent' = (InitialCash - spent) + o.qty * o.price
    BY <1>1, <1>2, <2>1
  <2>4. net' = [net EXCEPT ![o.symbol] = @ - o.qty]
    <3>1. net[o.symbol] + SignOf(o) * o.qty = net[o.symbol] - o.qty
      <4>1. net[o.symbol] \in Int /\ SignOf(o) * o.qty = -o.qty
        BY <1>2, <2>1
      <4> QED BY <4>1, <1>2
    <3> QED BY <1>1, <3>1
  <2>5. Ledger!Sell(o.symbol, o.qty, o.price)
    BY <1>1, <2>2, <2>3, <2>4 DEF Ledger!Sell
  <2> QED BY <1>2, <2>5 DEF Ledger!Next
<1> QED BY <1>1, <1>3, <1>4, Orders

\* ... a save when it commits, and a crash goes back to it.
LEMMA CommitStep ==
  ASSUME SingleThread, AccountTypeOK, AccountInv, NEW t \in Threads, PersistCommit(t)
  PROVE  Ledger!Save
<1>1. /\ at[t] = "commit" /\ disk' = [copy[t] EXCEPT !.cash = funds]
      /\ net' = net /\ spent' = spent /\ copy[t] \in Image
  BY DEF PersistCommit, Move, books, AccountTypeOK
<1>2. copy[t].net = net /\ copy[t].spent = spent
  BY <1>1, OnlyThread DEF Copied
<1>3. disk'.net = net /\ disk'.spent = spent
  BY <1>1, <1>2 DEF Image
<1> QED BY <1>1, <1>3 DEF Ledger!Save

LEMMA LedgerStep ==
  ASSUME SingleThread, AccountTypeOK, AccountInv, [AccountNext]_accountVars
  PROVE  [Ledger!Next]_LedgerVars
<1> USE DEF LedgerVars
<1>1. CASE UNCHANGED accountVars
  BY <1>1 DEF accountVars, books
<1>2. ASSUME NEW t \in Threads, Step(t) PROVE [Ledger!Next]_LedgerVars
  <2>1. CASE AddTrade(t)
    BY <2>1, BookingStep
  <2>2. CASE PersistCommit(t)
    BY <2>2, CommitStep DEF Ledger!Next
  <2>3. CASE ~AddTrade(t) /\ ~PersistCommit(t)
    BY <1>2, <2>3 DEF Step, OnSignal, ReadPosition, WritePosition, MoveCash,
       PersistBegin, PersistPositions, PersistFails, books
  <2> QED BY <2>1, <2>2, <2>3
<1>3. CASE Restore
  BY <1>3 DEF Restore, Ledger!Next, Ledger!Crash
<1> QED BY <1>1, <1>2, <1>3 DEF AccountNext

(***************************************************************************)
(* With one thread the portfolio implements PaperLedger.                   *)
(***************************************************************************)
THEOREM LedgerHolds ==
  ASSUME SingleThread
  PROVE  AccountSpec => LedgerSpec
<1>1. AccountInit => Ledger!Init
  BY LedgerInit
<1>2. AccountTypeOK /\ AccountInv /\ [AccountNext]_accountVars => [Ledger!Next]_LedgerVars
  BY LedgerStep
<1> QED BY <1>1, <1>2, AccountHolds, PTL DEF AccountSpec, LedgerSpec, Ledger!Spec, LedgerVars
=============================================================================
