------------------------------ MODULE PaperLedger ------------------------------
(***************************************************************************)
(* What a paper account promises, with no mention of books, threads or     *)
(* files: no share is bought without the cash (to the rounding of its      *)
(* price) or sold without the share, a trade moves the shares and the cash *)
(* together, and a crash takes the account back to the whole of its last   *)
(* saved state.                                                            *)
(***************************************************************************)
EXTENDS Integers

CONSTANTS Symbols, Quantities, Prices, Slack, InitialCash

VARIABLES
  account,     \* the cash and the shares of each symbol
  saved        \* the account to which a crash returns

Opening == [cash |-> InitialCash, shares |-> [s \in Symbols |-> 0]]

Init == account = Opening /\ saved = Opening

Buy(s, q, p) ==
  /\ account.cash >= q * (p - Slack)
  /\ account' = [cash   |-> account.cash - q * p,
                 shares |-> [account.shares EXCEPT ![s] = @ + q]]
  /\ UNCHANGED saved

Sell(s, q, p) ==
  /\ account.shares[s] >= q
  /\ account' = [cash   |-> account.cash + q * p,
                 shares |-> [account.shares EXCEPT ![s] = @ - q]]
  /\ UNCHANGED saved

Save  == saved' = account /\ UNCHANGED account
Crash == account' = saved /\ UNCHANGED saved

Next ==
  \/ \E s \in Symbols, q \in Quantities, p \in Prices : Buy(s, q, p) \/ Sell(s, q, p)
  \/ Save
  \/ Crash

Spec == Init /\ [][Next]_<<account, saved>>
=============================================================================
