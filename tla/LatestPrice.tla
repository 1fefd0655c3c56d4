------------------------------ MODULE LatestPrice ------------------------------
(***************************************************************************)
(* DataFetcher.fetch_latest_price() (data/fetcher.py): a caller gives the  *)
(* question to the one worker of a new pool, waits for its answer for ten  *)
(* seconds, and leaves the with-block, whose end is shutdown(wait=True).   *)
(* The worker resolves the symbol and asks the provider, over a network    *)
(* that may never answer.                                                  *)
(***************************************************************************)
EXTENDS Naturals, FiniteSets

CONSTANTS Callers, MaxPrices  \* prices asked for by each caller (bounds the exploration)

VARIABLES
  caller,  \* "idle", "waiting", "leaving" the block, "returned" or "raised"
  result,  \* what it takes out of the block: "none", "price" or "timeout"
  worker,  \* "none", "resolving", "fetching" or "done"
  prices   \* asked for so far

vars == <<caller, result, worker, prices>>

Init ==
  /\ caller = [c \in Callers |-> "idle"]
  /\ result = [c \in Callers |-> "none"]
  /\ worker = [c \in Callers |-> "none"]
  /\ prices = [c \in Callers |-> 0]

Submit(c) ==
  /\ caller[c] \in {"idle", "returned", "raised"} /\ prices[c] < MaxPrices
  /\ caller' = [caller EXCEPT ![c] = "waiting"]
  /\ result' = [result EXCEPT ![c] = "none"]
  /\ worker' = [worker EXCEPT ![c] = "resolving"]
  /\ prices' = [prices EXCEPT ![c] = @ + 1]

\* get_price(): to_yf() answers "" and the price is 0.0, or history() is asked,
\* whose failures are a price of 0.0 too
GetPrice(c) ==
  /\ \/ /\ worker[c] = "resolving"
        /\ \E next \in {"fetching", "done"} : worker' = [worker EXCEPT ![c] = next]
     \/ worker[c] = "fetching" /\ worker' = [worker EXCEPT ![c] = "done"]
  /\ UNCHANGED <<caller, result, prices>>

\* future.result(timeout) returns, or raises TimeoutError: an answer that comes
\* with the end of the ten seconds may be taken for either
Result(c) ==
  /\ caller[c] = "waiting" /\ worker[c] = "done"
  /\ caller' = [caller EXCEPT ![c] = "leaving"]
  /\ result' = [result EXCEPT ![c] = "price"]
  /\ UNCHANGED <<worker, prices>>

Timeout(c) ==
  /\ caller[c] = "waiting"
  /\ caller' = [caller EXCEPT ![c] = "leaving"]
  /\ result' = [result EXCEPT ![c] = "timeout"]
  /\ UNCHANGED <<worker, prices>>

\* ThreadPoolExecutor.__exit__() joins the worker
LeaveBlock(c) ==
  /\ caller[c] = "leaving" /\ worker[c] = "done"
  /\ caller' = [caller EXCEPT ![c] = IF result[c] = "price" THEN "returned" ELSE "raised"]
  /\ worker' = [worker EXCEPT ![c] = "none"]
  /\ UNCHANGED <<result, prices>>

Next ==
  \E c \in Callers :
    Submit(c) \/ GetPrice(c) \/ Result(c) \/ Timeout(c) \/ LeaveBlock(c)

\* The caller's own steps are taken, and the ten seconds pass; nothing obliges
\* the network to answer the worker.
Fairness ==
  \A c \in Callers : WF_vars(Result(c) \/ Timeout(c)) /\ WF_vars(LeaveBlock(c))

Spec == Init /\ [][Next]_vars /\ Fairness

-----------------------------------------------------------------------------

\* "a yfinance hang in a paper-trading minute-loop never freezes the entire
\* thread" (data/fetcher.py:261-262): whoever asks for a price gets it, or the
\* error, whatever the network does.
NeverFrozen ==
  \A c \in Callers : caller[c] = "waiting" ~> caller[c] \in {"returned", "raised"}

=============================================================================
