----------------------------- MODULE LiveExecutor -----------------------------
(***************************************************************************)
(* live/executor.py: place_order() and its safety chain, with the process- *)
(* wide RiskLimits of risk/limits.py that every executor consults and the  *)
(* SQLite table of idempotency keys that every executor writes.            *)
(*                                                                         *)
(* An executor belongs to one StrategyRunner.  Its tick thread and the API *)
(* threads that square the runner off call place_order() concurrently;     *)
(* nothing but RiskLimits has a lock, so the admission checks and their    *)
(* bookkeeping are separate steps with other threads in between:           *)
(*                                                                         *)
(*   idle -> gate -> limits -> send -> register -> persist -> count        *)
(*                                  \-> trip                               *)
(*                                                                         *)
(* LIVE_ENABLED is true, and _client is present, as the tests inject it:   *)
(* connect() itself asks instruments/token_map.py for names that it does   *)
(* not define.  A live trade is recorded with pnl = 0 and the runner       *)
(* passes neither capital nor prices, so of the limits only the trade      *)
(* count ever moves; the position size test is one of the reasons for      *)
(* which "limits" may block.                                               *)
(***************************************************************************)
EXTENDS Naturals, FiniteSets

CONSTANTS
  Executors,   \* LiveExecutor objects
  Threads,     \* threads that call place_order()
  ExecutorOf,  \* ExecutorOf[t]: the executor that thread t calls
  Signals,     \* idempotency keys: (symbol, side, qty, bar timestamp)
  Emits,       \* Emits[t]: the signals t acts on, {} if it squares off
  NoSignal,    \* key of a square-off order: its timestamp is now()
  DBThreads,   \* threads that may use the executor's sqlite connection
  MaxTrades,   \* max_trades_per_day
  Threshold,   \* _CIRCUIT_BREAKER_THRESHOLD
  MaxCrashes   \* restarts, of the process or of a runner (bounds the exploration)

ASSUME ExecutorAssumption ==
  /\ ExecutorOf \in [Threads -> Executors]
  /\ Emits \in [Threads -> SUBSET Signals]
  \* An executor belongs to one runner, and that has one tick thread.
  /\ \A t, u \in Threads :
       ExecutorOf[t] = ExecutorOf[u] /\ Emits[t] \cap Emits[u] # {} => t = u
  /\ NoSignal \notin Signals
  /\ IsFiniteSet(Threads) /\ Threads # {}
  /\ MaxTrades \in Nat \ {0}
  /\ Threshold \in Nat \ {0}
  /\ MaxCrashes \in Nat

VARIABLES
  placed,      \* placed[e]: _placed_orders
  failures,    \* failures[e]: _consecutive_failures
  circuitOpen, \* circuitOpen[e]: _circuit_open
  resetting,   \* resetting[e]: reset_circuit() has closed the breaker only
  dbOpen,      \* dbOpen[e]: _db_conn is not None
  stored,      \* keys in the table placed_orders
  recent,      \* those of them whose row is less than 24 hours old
  known,       \* known[e]: keys e has in the table, by its own INSERT or,
               \* when it was built, from the last 24 hours (history)
  trades,      \* RiskLimits._state.trades_placed
  at,          \* at[t]: where thread t is in place_order()
  key,         \* key[t]: its order_key
  accepted,    \* accepted[k]: orders with key k that the broker took, up to 2
  crashes      \* how often the process or a runner has been restarted

breakerVars == <<failures, circuitOpen, resetting>>
tableVars   == <<dbOpen, stored, recent, known>>
vars == <<placed, breakerVars, tableVars, trades, at, key, accepted, crashes>>

PC == {"idle", "gate", "limits", "send", "register", "persist", "count", "trip"}

Init ==
  /\ placed      = [e \in Executors |-> {}]
  /\ failures    = [e \in Executors |-> 0]
  /\ circuitOpen = [e \in Executors |-> FALSE]
  /\ resetting   = [e \in Executors |-> FALSE]
  /\ dbOpen \in [Executors -> BOOLEAN]
  /\ stored   = {}
  /\ recent   = {}
  /\ known    = [e \in Executors |-> {}]
  /\ trades   = 0
  /\ at       = [t \in Threads |-> "idle"]
  /\ key      = [t \in Threads |-> NoSignal]
  /\ accepted = [k \in Signals |-> 0]
  /\ crashes  = 0

\* The threads of e that are at one of the program points pcs.
ThreadsAt(e, pcs) == {t \in Threads : ExecutorOf[t] = e /\ at[t] \in pcs}

\* Threads that have passed check() and may yet reach record_trade().
InFlight == {t \in Threads : at[t] \in {"send", "register", "persist", "count"}}

TypeOK ==
  /\ placed      \in [Executors -> SUBSET Signals]
  /\ failures    \in [Executors -> Nat]
  /\ circuitOpen \in [Executors -> BOOLEAN]
  /\ resetting   \in [Executors -> BOOLEAN]
  /\ dbOpen      \in [Executors -> BOOLEAN]
  /\ known       \in [Executors -> SUBSET Signals]
  /\ stored   \in SUBSET Signals
  /\ recent   \in SUBSET stored
  /\ trades   \in Nat
  /\ at       \in [Threads -> PC]
  /\ key      \in [Threads -> Signals \cup {NoSignal}]
  /\ accepted \in [Signals -> 0..2]
  /\ crashes  \in 0..MaxCrashes

-----------------------------------------------------------------------------
Goto(t, pc) == at' = [at EXCEPT ![t] = pc]

\* The breaker, then the key.  A refusal raises and changes nothing.  A tick
\* thread may act on a signal again: the bar it fetches may still be the same.
Admit(t) ==
  /\ at[t] = "idle"
  /\ ~circuitOpen[ExecutorOf[t]]
  /\ \E k \in IF Emits[t] = {} THEN {NoSignal} ELSE Emits[t] :
       /\ k \notin placed[ExecutorOf[t]]
       /\ key' = [key EXCEPT ![t] = k]
  /\ Goto(t, "gate")
  /\ UNCHANGED <<placed, breakerVars, tableVars, trades, accepted, crashes>>

\* Mutant of CapReached: the cap is compared one too late.
CapReached_OffByOne == trades > MaxTrades

\* What check() tests of the trade count; both callers below run it, each in a
\* critical section of its own.
CapReached == trades >= MaxTrades

\* compute_allowed_actions(), whose only stateful test is check(): it blocks
\* at the cap, and else max_qty is 200 and clips the quantity.
Gate(t) ==
  /\ at[t] = "gate"
  /\ Goto(t, IF CapReached THEN "idle" ELSE "limits")
  /\ UNCHANGED <<placed, breakerVars, tableVars, trades, key, accepted, crashes>>

\* risk_limits.check() with the real quantity and price, which the position
\* size may block too; or _resolve_token() raises before the broker is called.
Limits(t) ==
  /\ at[t] = "limits"
  /\ \/ ~CapReached /\ Goto(t, "send")
     \/ Goto(t, "idle")
  /\ UNCHANGED <<placed, breakerVars, tableVars, trades, key, accepted, crashes>>

Take(t) == accepted' = [k \in Signals |->
             IF k = key[t] /\ accepted[k] < 2 THEN accepted[k] + 1 ELSE accepted[k]]

\* placeOrder() answers with an order id.
Acknowledged(t) ==
  /\ at[t] = "send"
  /\ Take(t)
  /\ Goto(t, "register")
  /\ UNCHANGED <<placed, breakerVars, tableVars, trades, key, crashes>>

\* Mutant of Failed: the count of consecutive failures does not move.
Failed_Uncounted(t) ==
  /\ at[t] = "send"
  /\ Take(t) \/ UNCHANGED accepted
  /\ Goto(t, "trip")
  /\ UNCHANGED <<placed, breakerVars, tableVars, trades, key, crashes>>

\* placeOrder() raises: the order was refused, or it was taken and the answer
\* was lost.  The audit call between the count and the test lets others run.
Failed(t) ==
  /\ at[t] = "send"
  /\ Take(t) \/ UNCHANGED accepted
  /\ failures' = [failures EXCEPT ![ExecutorOf[t]] = @ + 1]
  /\ Goto(t, "trip")
  /\ UNCHANGED <<placed, circuitOpen, resetting, tableVars, trades, key, crashes>>

\* A ValueError, which the errors of a JSON parser are, passes through the
\* handler that is meant for the executor's own refusals: nothing is counted.
FailedQuietly(t) ==
  /\ at[t] = "send"
  /\ Take(t) \/ UNCHANGED accepted
  /\ Goto(t, "idle")
  /\ UNCHANGED <<placed, breakerVars, tableVars, trades, key, crashes>>

\* Mutant of Trip: the breaker opens after one failure too many.
Trip_Late(t) ==
  /\ at[t] = "trip"
  /\ circuitOpen' = [circuitOpen EXCEPT
       ![ExecutorOf[t]] = @ \/ failures[ExecutorOf[t]] > Threshold]
  /\ Goto(t, "idle")
  /\ UNCHANGED <<placed, failures, resetting, tableVars, trades, key, accepted, crashes>>

Trip(t) ==
  /\ at[t] = "trip"
  /\ circuitOpen' = [circuitOpen EXCEPT
       ![ExecutorOf[t]] = @ \/ failures[ExecutorOf[t]] >= Threshold]
  /\ Goto(t, "idle")
  /\ UNCHANGED <<placed, failures, resetting, tableVars, trades, key, accepted, crashes>>

\* _placed_orders.add(); the key of a square-off matches no later order.
Register(t) ==
  /\ at[t] = "register"
  /\ placed' = [placed EXCEPT ![ExecutorOf[t]] = @ \cup ({key[t]} \ {NoSignal})]
  /\ Goto(t, "persist")
  /\ UNCHANGED <<breakerVars, tableVars, trades, key, accepted, crashes>>

\* INSERT OR IGNORE: a row that is there already keeps its old timestamp.
Insert(e, k) ==
  /\ dbOpen[e]
  /\ stored' = stored \cup {k}
  /\ recent' = recent \cup ({k} \ stored)
  /\ known'  = [known EXCEPT ![e] = @ \cup {k}]

\* _persist_order_key() swallows its errors, such as that of a connection that
\* another thread has opened; the success then ends the run of failures.
Persist(t) ==
  /\ at[t] = "persist"
  /\ \/ t \in DBThreads /\ key[t] # NoSignal /\ Insert(ExecutorOf[t], key[t])
     \/ UNCHANGED <<stored, recent, known>>
  /\ failures' = [failures EXCEPT ![ExecutorOf[t]] = 0]
  /\ Goto(t, "count")
  /\ UNCHANGED <<placed, circuitOpen, resetting, dbOpen, trades, key, accepted, crashes>>

\* risk_limits.record_trade()
Count(t) ==
  /\ at[t] = "count"
  /\ trades' = trades + 1
  /\ Goto(t, "idle")
  /\ UNCHANGED <<placed, breakerVars, tableVars, key, accepted, crashes>>

PlaceOrder(t) ==
  \/ Gate(t) \/ Limits(t)
  \/ Acknowledged(t) \/ Failed(t) \/ FailedQuietly(t)
  \/ Trip(t) \/ Register(t) \/ Persist(t) \/ Count(t)

-----------------------------------------------------------------------------
\* reset_circuit(), which live/monitor.py calls when it has seen the breaker
\* open: two writes without a lock.  One dashboard resets at a time.
ResetBreaker(e) ==
  /\ circuitOpen[e] /\ ~resetting[e]
  /\ circuitOpen' = [circuitOpen EXCEPT ![e] = FALSE]
  /\ resetting'   = [resetting EXCEPT ![e] = TRUE]
  /\ UNCHANGED <<placed, failures, tableVars, trades, at, key, accepted, crashes>>

ResetFailures(e) ==
  /\ resetting[e]
  /\ failures'  = [failures EXCEPT ![e] = 0]
  /\ resetting' = [resetting EXCEPT ![e] = FALSE]
  /\ UNCHANGED <<placed, circuitOpen, tableVars, trades, at, key, accepted, crashes>>

\* 24 hours have passed since a key was written.
Age ==
  /\ \E k \in recent : recent' = recent \ {k}
  /\ UNCHANGED <<placed, breakerVars, dbOpen, stored, known, trades, at, key, accepted, crashes>>

\* _expire_old_keys(), when a connect() comes that far.
ExpireOldKeys ==
  /\ \E e \in Executors : dbOpen[e]
  /\ stored' = recent
  /\ UNCHANGED <<placed, breakerVars, dbOpen, recent, known, trades, at, key, accepted, crashes>>

\* Mutant of NewDay: the new day's allowance is credited to the old count.
NewDay_Credit ==
  /\ trades' = trades - MaxTrades
  /\ UNCHANGED <<placed, breakerVars, tableVars, at, key, accepted, crashes>>

\* A session starts (reset()), or the date changes: _auto_reset_if_new_day()
\* runs at the next check or record, before either looks at the count.
NewDay ==
  /\ trades' = 0
  /\ UNCHANGED <<placed, breakerVars, tableVars, at, key, accepted, crashes>>

\* Mutant of InitDB: the keys of the last day are not read back.
InitDB_Forgets(e) == IF dbOpen'[e] THEN {} ELSE {}

\* What _init_db() reads of the table: the keys of the last 24 hours, or none if
\* it fails, when the executor does without the table.
InitDB(e) == IF dbOpen'[e] THEN recent ELSE {}

\* The executors of es are built: breaker, count and memory start over.
Built(es) ==
  /\ dbOpen'      \in {f \in [Executors -> BOOLEAN] : \A e \in Executors \ es : f[e] = dbOpen[e]}
  /\ placed'      = [e \in Executors |-> IF e \in es THEN InitDB(e) ELSE placed[e]]
  /\ known'       = [e \in Executors |-> IF e \notin es THEN known[e]
                                         ELSE IF dbOpen'[e] THEN recent ELSE {}]
  /\ failures'    = [e \in Executors |-> IF e \in es THEN 0 ELSE failures[e]]
  /\ circuitOpen' = [e \in Executors |-> e \notin es /\ circuitOpen[e]]
  /\ resetting'   = [e \in Executors |-> e \notin es /\ resetting[e]]
  /\ crashes < MaxCrashes
  /\ crashes' = crashes + 1
  /\ UNCHANGED <<stored, recent, accepted>>

\* The process dies and is started again; the day's count starts over too.
Restart ==
  /\ Built(Executors)
  /\ trades' = 0
  /\ at'     = [t \in Threads |-> "idle"]
  /\ key'    = [t \in Threads |-> NoSignal]

\* A runner that has been stopped is deployed again, with an executor of its own.
Redeploy(e) ==
  /\ ThreadsAt(e, PC \ {"idle"}) = {}
  /\ Built({e})
  /\ UNCHANGED <<trades, at, key>>

Next ==
  \/ \E t \in Threads : Admit(t) \/ PlaceOrder(t)
  \/ \E e \in Executors : ResetBreaker(e) \/ ResetFailures(e) \/ Redeploy(e)
  \/ Age \/ ExpireOldKeys
  \/ NewDay
  \/ Restart

Spec == Init /\ [][Next]_vars

\* A thread that is inside place_order() goes on, the broker's client has a
\* timeout; and a strategy goes on asking for orders.
FairSpec == Spec /\ \A t \in Threads : WF_vars(Admit(t)) /\ WF_vars(PlaceOrder(t))

-----------------------------------------------------------------------------
(***************************************************************************)
(* The daily cap is checked and counted under separate locks, with the     *)
(* broker's answer in between, so it can be passed; but by no more than    *)
(* one order per thread beyond the first, those not yet counted included.  *)
(***************************************************************************)
CapOvershoot == trades + Cardinality(InFlight) <= MaxTrades + Cardinality(Threads) - 1

(***************************************************************************)
(* No run of failures goes unnoticed: once the count is at the threshold,  *)
(* the breaker is open, or a thread is about to open it, or a manual reset *)
(* is between its two writes and about to take the count back; successes   *)
(* and resets race the failures of the executor's other threads.           *)
(***************************************************************************)
BreakerArmed ==
  \A e \in Executors : failures[e] >= Threshold =>
    circuitOpen[e] \/ resetting[e] \/ ThreadsAt(e, {"trip"}) # {}

(***************************************************************************)
(* A key that an executor has written to the table, or was less than a day *)
(* old there when the executor was built, is not sent by it again: neither *)
(* a retry nor a restart, which forgets everything else, takes it to the   *)
(* broker, whatever has expired, been deleted or been written by others    *)
(* meanwhile.  (A second runner of the same strategy on the same symbol    *)
(* does not read the table while it runs, and may send it.)                *)
(***************************************************************************)
StoredNeverResent ==
  \A t \in Threads : at[t] = "send" => key[t] \notin known[ExecutorOf[t]]

(***************************************************************************)
(* A broker that only ever fails is left alone: if from some time on no    *)
(* order is acknowledged and no failure is of the kind that is not         *)
(* counted, and nobody resets the breaker, then the executor falls silent. *)
(***************************************************************************)
Answer == \E t \in Threads : at[t] = "send" /\ at'[t] \in {"register", "idle"}
Rearm  == \E e \in Executors : circuitOpen[e] /\ ~circuitOpen'[e]

BrokenBrokerLeftAlone ==
  <>[][~Answer /\ ~Rearm]_vars => <>[](\A t \in Threads : at[t] # "send")

(***************************************************************************)
(* "Idempotency key check - duplicate orders blocked in-memory + SQLite":  *)
(* one signal, one order.  The key is remembered after the answer, so a    *)
(* lost answer, which is when a retry happens, leaves no key behind.       *)
(***************************************************************************)
OneOrderPerSignal == \A k \in Signals : accepted[k] <= 1
=============================================================================
