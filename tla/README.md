# Eagle-Base in TLA+

Eagle-Base is a trading system for the Indian market: strategies look at bars,
a risk layer admits or refuses what they want, and orders go to a paper account
or to a broker.  This directory holds TLA+ models of the parts of it where
threads, crashes and lost answers meet money, the TLC configurations that check
them on small instances, and proofs, checked by TLAPS, of what holds for
instances of any size.

Every definition is translated from the Python source; `PROJECT.json` names the
lines each one stands for.

## The system

| Component | State | Operations | Interacts with |
|---|---|---|---|
| Live engine, `live/engine.py` | registry `_runners` (under `_runners_lock`), `_state` | deploy, pause, resume, stop, kill all, cancel all, square off all | called by FastAPI threads (`api/routers/live.py`); calls runners after dropping its lock |
| Strategy runner, `live/runner.py` | `_state` (under `_lock`), two events, its thread, an account | start, pause, resume, stop, square off; the tick loop | tick thread against API threads; the executor and the account |
| Live executor, `live/executor.py` | keys placed, consecutive failures, breaker, SQLite key table | connect, place_order, reconcile, reset_circuit, cancel | `risk_limits` (process-wide), the broker, the key table (shared by all executors) |
| Risk limits, `risk/limits.py` | the day's trades, realised PnL, equity peak (under a lock) | check, record_trade, reset, new day | every executor, `PaperBroker`, the session |
| Paper account, `paper/` | cash, order, trade and position books, the account's SQLite file | on_signal, persist, restore | runner's tick thread; API threads at a square-off |
| Session, scheduler, calendar, `core/` | open or closed; jobs | start, close; jobs at fixed times | risk limits, reports |
| HTTP API, `api/` | the engine made on first use, a ring of audit entries, a paper account | the live router's deploy, pause, stop, kills, queries | FastAPI's thread pool; the live engine |
| Core services, `core/db.py`, `core/audit.py` | pooled connections with their locks; the audit file and its backups | get_conn, close_all; record, today, tail | every process has its own handler of one file |
| Domain model, `domain/` | order status and quantities, positions, portfolio | transition, fill, close, rules | library code, used by tests |
| Data layer, `data/` | memory cache, disk cache | get, price, batch, latest price | providers (Angel One, Yahoo, files) |
| Angel One provider and broker, `data/providers/angel.py`, `brokers/` | a login latch, client, token and expiry; the master of instruments in memory and in a file | is_available, fetch, login, refresh, load | fetching threads; external services |
| Instruments, `instruments/` | SQLite store, files and stamp, resolver's master, cache and CSV, token map | refresh, bulk insert, register, resolve, to_yf | executor (tokens), data layer (symbols); several processes |
| Backtesting, `backtesting/` | one open position or one per symbol, equity curve, windows | bar loop, walk-forward, portfolio runs, multi-strategy vote | strategies, data layer |
| Strategies, `strategies/` | averages and the position a strategy believes it has | on_bar, generate_signals | runner, backtesters |
| Ensemble, derivatives, sizing | weights; none; none | vote, chain, size | pure functions of frames and numbers |
| AI, reporting, UI | none that a decision reads | formulas over a frame; layout | everything above |

### What is hard in it

* **Threads without a common lock.** FastAPI runs each handler in a thread of
  its pool.  The engine takes its lock around each look at the registry and
  drops it before it talks to a runner; the runner has a lock for `_state` but
  not for its events, its books or its executor.  Start, stop and kill of one
  runner overlap each other and the tick thread.
* **Money and its bookkeeping are separate steps.** The daily cap is checked
  before the broker is called and counted after; the idempotency key is
  registered after the answer; a fill updates three books one after the other.
* **Crashes and lost answers.** Keys and paper accounts are in SQLite, counters
  and the breaker in memory.  A broker may take an order and its answer be lost.
* **Timeouts.** `stop()` waits ten seconds for a thread that may take longer;
  `fetch_latest_price()` waits ten seconds for a worker and then for its end.
* **Shared things without an owner.** The Angel One client, the resolver's
  master, the instrument files and the audit file are written by whichever
  thread or process gets there; some calls test one of them, go over the network
  and then use what they tested.
* **Calls that write before they raise.** `Order.fill()`, `close_position()`, a
  login that replaces the client first.
* **A strategy that never hears what became of its order.**

### What makes each component correct

* Engine and runners: no thread trades out of reach; what was told to stop
  stops, for good; what the status shows is so; a kill reaches everything that
  was deployed when it was asked for.
* Executor: one signal, one order; the cap holds up to a known overshoot; a
  failing broker is left alone; a restart does not resend what is recorded.
* Paper account: cash, positions and trades tell one story, at any moment at
  which somebody may look, and in the file at any moment at all.
* Domain order: quantities and status agree; a terminal order does not change.
* Session: the limits bound the day, restarts and missed jobs included; the
  broker's books balance; the report has the day's trades.
* Router: its log tells what the engine has; a run trades where it was asked to.
* Data: bars are in order, clean and complete; an answer is no older than the
  life times allow; a caller gets an answer or an error.
* Instruments: a name resolves to an instrument of that name; a failure costs the
  store nothing it had.
* Angel One session: calls are rejected for a failed refresh only.
* Connections: one user at a time; none leaked, none closed under its user.
* Backtests: money is accounted for to the end, no signal looks ahead, what is
  traded live is what was tested, out-of-sample windows chain.
* Sizes: within the cap, nothing without an edge, more capital buys no less.

## Modules

| Module | What it is |
|---|---|
| `StrategyRunner` | a runner: the complete steps of the tick thread, and what each critical section of an API method does to a runner |
| `LiveEngine` | composes runners with the engine and its callers: `call[c]` is the program counter of API thread `c`, one action per lock, event or thread operation |
| `RunnerContract` | the abstract specification of a runner, one phase per runner, which `LiveEngine` implements |
| `MCLiveEngine` | `LiveEngine` for TLC |
| `LiveEngine_proofs` | the theorems about `LiveEngine` |
| `LiveExecutor` | `place_order()` of several executors and threads over one `RiskLimits` and one key table, with broker failures, new days and restarts |
| `MCLiveExecutor` | which thread uses which executor and emits which signal, for TLC |
| `LiveExecutor_proofs` | the theorems about `LiveExecutor` |
| `PaperPortfolio` | one paper account: the steps of a fill and of a save, crash and restore |
| `PaperLedger` | the abstract specification of an account, which `PaperPortfolio` implements |
| `PaperPortfolio_proofs` | the theorems about `PaperPortfolio` |
| `DataManager` | `DataManager.get()` by several threads: the memory cache, the files, the providers, restarts |
| `DataManager_proofs` | the theorems about `DataManager` |
| `TradingDay` | a session on the paper broker: scheduler's jobs against orders through gate, fill, log and limits, over days and restarts |
| `TradingDay_proofs` | the theorems about `TradingDay` |
| `MCPaperTrading` | `TradingDay`, `DataManager` and `PaperPortfolio` for TLC, which paper trading rests on |
| `LatestPrice` | `fetch_latest_price()`: a caller, its worker, a network that need not answer |
| `BarTrader` | a paper runner's tick: the two strategies that keep a position, and the account their orders reach |
| `TradeSimulator` | the backtest of one symbol |
| `PortfolioEngine` | the backtest of a portfolio, with its allocation |
| `WalkForward` | the windows of the walk-forward test and the grid search on each |
| `Domain` | orders, rules, positions and portfolio of `domain/` |
| `MarketData` | how a request that no cache answers becomes a frame of bars |
| `Signals` | the strategies that read a whole frame, and the ensemble |
| `OptionChain` | the loader of option chains |
| `Sizing` | the three sizers |
| `MCSingleCaller` | the nine parts above, from `BarTrader` on, for TLC |
| `MCSingleCaller_proofs` | the theorems about the nine parts, one section each |
| `Ranks` | places in an ordered list of numbers, for strikes and for rows of a frame |
| `Sums` | lemmas on sums over finite sets, quotients, least elements and ranks, and two inductions in set form |
| `InstrumentStore` | the instrument master: files, stamp, tables, seeding, registration, resolution, by several processes |
| `SymbolResolver` | from a name to a ticker: static maps, master, CSV, probes |
| `AngelSession` | login latch, token, refresh and re-login of the shared Angel One client |
| `ScripMaster` | Angel One's instrument master in memory and on disk |
| `LiveApi` | the live router |
| `ConnectionPool` | the pool of SQLite connections |
| `AuditLog` | the audit file of several processes |
| `MCShared` | the seven parts above from `InstrumentStore` on, for TLC |
| `MCShared_proofs` | the theorems about the seven parts, one section each |

### How state and actions correspond to the code

**StrategyRunner, LiveEngine.** `rstate`, `stopEvent`, `pauseEvent` are
`_state`, `_stop_event`, `_pause_event`; `tick` is where the thread is in
`_tick_loop`; `registered` is the key set of `_runners`; `engineState` is
`_state` of the engine.  `holding` says whether the position book is empty: what
an order does to the books is the subject of the other modules.  An action is
what happens between two points where another thread can interfere: the body of
one `with` block, one event operation, one thread operation.  `start()` is
`DeployStart` then `DeploySpawn`; `stop()` is `StopEnter`, `StopSignal`,
`StopJoin` (left out by `force=True` or when the thread is not alive),
`StopFinal`; the engine's part that follows is `Pop`.  `stop` and `kill` share
these actions, as they share the code; `call[c].op` tells them apart.
The router passes the identifier from the request to the engine, which knows
runners by `run_id`; `Lookup` is a call with the `run_id` of a registered runner
(any other raises `KeyError` and changes nothing).  Kill iterates over its
snapshot in any order, a superset of the order of the dictionary.

**LiveExecutor.** `at[t]` is where thread `t` is in `place_order()`.  `Admit` is
the breaker and the key test, `Gate` the risk gate, `Limits` the second check;
`Acknowledged`, `Failed` and `FailedQuietly` are the three ways in which the
broker's call ends (answer; exception that is counted; `ValueError`, which is
not), and in the last two the broker may or may not have taken the order;
`Register`, `Persist`, `Count` and `Trip` are the bookkeeping.  Two threads of
one executor are its tick thread and a square-off.  `ResetBreaker` and
`ResetFailures` are the two writes of `reset_circuit()`.  A row of the key table
is in `recent` for the 24 hours that `_init_db()` looks back, and in `stored` until
`_expire_old_keys()` deletes it; `INSERT OR IGNORE` leaves an old row old.  `Built`
is the constructor of an executor, for all of them (`Restart`) or for that of a
runner which is deployed again (`Redeploy`).  `known` is history: what an executor
has in the table by its own doing or read from it.

**PaperPortfolio.** `funds` is the cash, `ticket[t]` the order that thread `t` is
at; `position` is the position book, `net` and `spent` are the
two sums over the trade book that its readers compute, `disk` is the file.
`OnSignal` ... `MoveCash` are the statements of `on_signal()` in order (a thread
whose entry another has deleted meanwhile, `Gone`, leaves it with a KeyError),
`PersistBegin` ... `PersistCommit` those of `persist()`, `Restore` is a crash
and the `restore()` of the next process, with `_verify_integrity()`.

**DataManager.** `entries` is `DataCache._store`, `parquet` the Parquet files,
`getting[t]` where thread `t` is in `get()`.  `MemGet` and `MemDrop` are
`DataCache.get()`, `DiskTest` and `DiskRead` are `is_stale()` and `read()`,
`FetchFrame` is everything between the caches (Angel One, yfinance, the
validator, whose verdict is only logged, so that what it failed is cached and
served all the same): a frame or an
exception.  `CheckFull`, `PickOldest`, `Evict` and `Put` are the statements of
`DataCache.set()`; `WriteOpen` and `WriteClose` the write in place, between
which the process may end.  Of a frame, the model keeps the hour at which a
provider made it.  No other code of the repository reaches `get()` today but its
tests (the backtesting modules call a method that does not exist), so threads
stand for users of the library; one thread is a special case.

**TradingDay.** `limits` is `RiskLimits._state`, `log` the `TradeLog`, `reports`
what each day's report said.  `Gate` is `place_order()` up to the decision,
`FillBuy`, `FillSell` and `LogAndRecord` its statements between which the
scheduler's thread may run; `RunJob` and `CallSession` are `start()` and `close()`
as a job and as a call; `NextPhase` and `Midnight` are the clock, which jobs may
miss.  `Rounded` is `round()`: averages go to a multiple of `AvgUnit`, the PnL of a
SELL to one of `PnlUnit`, and of two that are equally near either may come, as the
binary fraction decides.  `realised`, `sold`, `soldToday`, `buyFees` and `rounding`
are history, the last of what the roundings can have moved.

**LatestPrice.** `Submit` to `LeaveBlock` are the lines of the with-block;
`GetPrice` is the worker.

**BarTrader.** `ema` are the strategy's averages, `closes` all that it took, of
which the deque has the last `History` (its length is all that the code asks for),
`side` is `_position`, `funds` and `owned` the account.  `OnBar` is `on_bar()` in
full, `ExecuteSignal` the order it leads to.

**TradeSimulator, PortfolioEngine, WalkForward.** One action per bar (and kind of
bar), per symbol and date, and per window, in the loops' order; `EndOfData` and
`CloseOpen` are what follows the loops.  The data frames, the signals and the
scores are inputs, any of which may come at each step.

**Domain.** `Slots` are as many orders as are at work at once; a slot is free again
when its order is terminal.  `Create` and `Submit` are an order's construction with
its gate and the rules' verdict on the portfolio as it is then, `Fill` is `fill()`
with the booking of what it filled, `ClosePosition` and `ClosePartial` the
portfolio's and the position's own way out.  Of an order `booked` is what positions
got of it, `raised` that its `fill()` has raised; these, `crooked` and `unruly` are
history.

**MarketData.** `GetBars` to `Validate` are the stages of `DataManager.get()`
behind the caches; an answer of a provider is any short sequence of bars.
`OnePerTime` is `sort_index()` and the last bar of each time: the sort is not
stable, so any bar of a time may come to be the last, unless the answer came in
order.

**Signals, OptionChain, Sizing.** Functions of their inputs, evaluated on every
input of a small set: each action is one call, and for `Signals` the frame grows
by one bar at a time, since looking ahead is about what a later bar changes.

**InstrumentStore.** `at[u]` is where process `u` is in `ensure_loaded()`,
`refresh()` or `resolve()`; the actions are named after the calls (`GetEquity`,
`WriteEquity`, `LoadEquity`, `PutEquity`, `SeedEquity`, `Register`, `Exact`,
`BaseEQ`, ...), one per file operation, transaction and lookup rule.

**SymbolResolver.** `Lookup` is `to_yf()` up to the first probe, `Probe` a call of
the provider and what is remembered of it; `StartResolver` builds or reads the
master, `EndOfProcess` is a death, in a save or not.

**AngelSession, ScripMaster.** An action is what runs between two calls over the
network or of the file system.  A token or a master is the time it was made.

**LiveApi.** A handler is its look-up, the engine's call, and the entry in the
log (`Audit`), with other handlers in between.

**ConnectionPool, AuditLog.** The statements of `get_conn()` one by one, with an
`_open()` that may raise; `record()` under its process's lock, with a write or a
rotation that fails, and a torn line and a renamed file as what a crash or another
process may do.  What a stream keeps of a failed write, to write it with the next
record, counts as lost.

**The composed instances.** The parts of `MCPaperTrading` share no state with each
other, nor do those of `MCSingleCaller` or of `MCShared`, so a behaviour of the
instance is a behaviour of one part; each part starts at its initial state and
takes its own steps only.

## Runs

| Run | Bounds | Result |
|---|---|---|
| `live_engine` | 2 runners, 2 API threads, 2 requests besides deploys | all hold |
| `kill_then_square_off` | the same, one runner that trades | violated: a position survives its runner's registration |
| `live_executor` | 2 executors with a thread each and one that only squares off, 1 signal, cap 1, threshold 2, 1 restart | all hold |
| `retry_duplicates` | 1 executor with a thread and one that squares off, the code's cap and threshold, no restart | violated: a lost answer and a retry place one signal twice |
| `paper_square_off` | 2 threads, 1 symbol | violated: two sales of the same shares |
| `paper_trading` | three parts, each with its bounds (below) | all hold |
| `single_caller` | nine parts, each with its bounds (below) | all hold |
| `shared_state` | seven parts, each with two threads or processes (below) | all hold |
| `price_freezes` | 2 callers, 2 prices each | violated: a caller in the with-block for good |
| `live_mode` | 1 handler, 2 requests | violated: a run in mode LIVE trades on paper |
| `stale_connection` | 2 threads, 4 connections, 2 failures, 5 calls | violated: a closed connection stays in the pool |
| `no_stacking` | 4 prices, spans 1, 3 and 7, 9 bars | violated: bought while shares are held |

What they show:

* **`live_engine`.** `NoOrphan`: a live tick thread outside the registry has
  been told to stop, or is just being told.  `DeadNeverLooksAlive` and
  `EngineStateHonest`: the states that the status shows are true ones.
  `ContractSpec`: the refinement of `RunnerContract`.  `StopSettles`: once the
  stop event is set, the runner ends, and its state stays stopped or error.
  `KillSweeps`: all runners of a kill's snapshot die, whoever else was stopping
  or starting them.  Two runners are enough for a kill to be half way; two API
  threads for each pair of methods to overlap, which is where every race found
  here lies; two requests let a stop and a kill follow each other besides any
  number of deploys.  The system may come to rest when the requests are used
  up, so this run does not check for deadlock.
* **`live_executor`.** `BreakerArmed`: no run of failures reaches the threshold
  unnoticed, but for the moment between the two writes of a manual reset.
  `BrokenBrokerLeftAlone` (liveness): with a broker that only fails, no one
  resetting the breaker, the executor falls silent; failures that are
  `ValueError`s are not counted by the code and are excluded by the premise.
  `CapOvershoot`: the daily cap is exceeded by at most one
  order per concurrent thread beyond the first.  `StoredNeverResent`: an executor
  does not send a key again that it has written to the table or found there, not
  a day old, when it was built.  The table protects no more than that: an older
  row is not read back, and an executor does not see what another writes while
  it runs.  Both runners act on one signal, so that each writes rows the other has
  or has not read; a restart and any number of redeployed runners let a row age
  between them.  With a cap of one, three threads overshoot it by two; a threshold of two is the
  smallest at which a count is neither empty nor full.
* **`paper_trading`.**
  - `TradingDay`: one symbol, quantities 1 and 3, prices 1 and 4, fee 2, roundings
    to 1 and 3, two trades, a loss of 6 and a drawdown of a sixth a day, two days,
    four orders, one restart a day.  `BooksBalance`: cash, shares at cost, fees and
    reported PnL of `PaperBroker` account for the capital, but for half a unit of
    the average for each share that a BUY averages and half a unit of the PnL for
    each SELL.  `DayBounded`: the day's loss passes the cap, and the drawdown its
    limit, by at most the trade that was admitted below it; the day's sales are at
    most the allowance, once more for each session start and restart, since counters
    live in memory.  `ReportLagsByOne`: a report that runs between an order's fill
    and its log entry misses that one.  Two days show the reset over midnight, with
    an order under way; four orders are a purchase and three sales, more than the
    allowance of two, unless a restart renews it.  One share at 1 and one at 4 have an
    average that is a tie, and the worst trade is rounded in its worst direction; a
    fee above a price lets a sale cost money.  The drawdown limit is reached by half
    the loss that the cap allows, so that each of the two is the one that blocks,
    the cap where no reset has set the peak.
  - `DataManager`: two threads, three keys (one kept on disk), a capacity of one,
    life times of 1 and 2 hours, four hours, one restart.  `AnswerAge`: an answer is
    never older than the life times of both caches together: a frame from the disk
    begins a new life in memory, and does not go round again.  `CapacityOvershoot`:
    the memory cache outgrows its limit by at most one entry for each thread beyond
    the first, for good.  Two life times that differ tell the caches apart, four
    hours are one more than both together, and with a capacity of one every call
    evicts.
  - `PaperPortfolio`: one thread, two symbols, quantities and prices 1 and 2, cash
    3, rounding 1, three fills, two crashes.  `BooksAgree`, `CashAgrees`,
    `DiskConsistent` and the refinement of `PaperLedger` (`LedgerSpec`), for the
    single tick thread that the runner documents.  Three fills open, extend and close
    a position, or touch both symbols; two crashes let a restored account crash again.
* **`single_caller`.**
  - `TradeSimulator`: six bars at four prices (zero among them) with any signals,
    enough to enter, exit, enter again and be closed at the end.
    `PortfolioEngine`: three symbols of which two may be held, two dates, closes
    that are missing, zero or negative on some.  The negative one times the largest
    quantity is more than the cash that is left, so that an exit at it would show.
    `BacktestsAccount`: no close costs cash before the end, and all that the
    PnL of the symbols lacks in the end is a position whose symbol closed at zero.
  - `WalkForward`: analyses that start on the 1st, 28th and later, in January,
    February and December, windows of one to three months over fifteen:
    `WfForwardsChain` says that out-of-sample parts follow each other without gap
    or overlap unless the start is after the 28th, and what is lost then.
  - `BarTrader`: nine closes of three prices, or not a number, spans 1, 3 and 7, and
    deques that hold just the warm-up and are full before the end: `SignalsAgree`,
    what `triple_ema` trades is what its backtest has, on frames of numbers.
  - `Domain`: two orders at a time and in all, two symbols, quantities 1 and 3,
    prices 2 and 3, orders of at most 6, an exposure of 9 and one position.
    `DomainBooks`: money is conserved (`MoneyConserved`), what is booked
    of an order is what it counts, unless `fill()` has raised for it
    (`FillsCounted`), and BUYs with a limit pass the rules by no more than the other
    orders that were at work (`RulesBound`).  Two orders that are approved on the
    same portfolio are the smallest number to pass a rule together; with a limit of
    one position and an exposure of one and a half orders they pass both.  Three
    shares are what takes a second partial fill.
  - `MarketData`: answers of up to three bars of every kind: `FeedSound`.
  - `Signals`: frames of four bars over two sessions: `NoLookahead`.
  - `OptionChain`, `Sizing`: all inputs of small sets, chosen around the cases
    (spot between strikes and outside them, month ends; ATR unknown, zero, at the
    target, at twice and above): `ComputationsSound`.
* **`shared_state`.**  Two threads or processes in each part; every bound leaves
  room for both to be under way and for one more event.
  - `NamesFaithful`: what a name resolves to, over torn files, failed probes and
    two starts each.  `LT` is contained in `GSLT`, which is listed and it is not: the
    case in which the search takes another instrument.  The same `LT` is in the
    overrides of the ticker resolver and trades on both exchanges: a torn file may
    then give it, typed with a suffix, the ticker of a probe.
  - `MasterKept`: the three steps that cost the store its master, and no others: a
    `register()`, the load of a file that is not a whole listing, and the seeding
    by a process that counted no rows before another wrote (`short` and `crossed`
    are the history that tells).
  - `MasterAge`: with a life time of two hours and seven hours of clock, one more
    than an answer may be old, for the age to be exceeded.
  - `CallsExcused`: a call is rejected only after the thread's own refresh or
    login has failed, or on a client whose session the expiry does not tell of.
    Life times 3 and 2, four clients, two refusals: two threads can each log in
    again.
  - `ApiHonest`: a log of two entries that overflows with two runs and four
    requests.
  - `PoolSound`: two connections, in which two failures are a connection that goes
    stale and one more, or a stale one and the reopening that fails; closing.
  - `ReportComplete`: files of three lines and one backup, six records, a write or a
    rotation that fails or a crash, three days, one of which other days' records may
    name.  Three lines are one more than the process that still writes to a
    renamed file needs to leave room in it, so that it can go on there after others
    have turned the files.
* **`price_freezes`**, **`no_stacking`**, **`live_mode`** and **`stale_connection`**
  each show that what a comment says of the code is not so.

`paper_trading`, `single_caller` and `shared_state` may come to rest when the inputs
of a part are used up, as may the violation runs; they do not check for deadlock.

The seven violations are recorded under `findings` with the sentence of the
repository that each contradicts.

## Fairness

`live_engine` assumes weak fairness of each tick thread and of each API thread
*inside* a method: the operating system schedules started threads, the loop's
sleeps and waits have timeouts, and a bar's fetch returns or raises.  No request
is ever obliged to come.  `live_executor` assumes weak fairness of each thread's
progress through `place_order()` (the broker's client has a timeout) and of each
thread's calls.  `StopJoin` needs no assumption on the thread it waits for,
since the join has a timeout.  `price_freezes` assumes weak fairness of the
caller's steps and of the passing of its ten seconds, and none of the network:
that it may never answer is what the timeout is for.

## Proofs

`LiveEngine_proofs` proves, for every set of runners, threads and requests
(assumption: `EngineAssumption`, that `NoRun` is not a runner and `MaxRequests`
is a natural number):

* `TypeCorrect`: `TypeInv`, which is `TypeOK` and the fact that a call that has
  a runner works on one of `Runners` (`RunsOK`), is inductive.
* `NoOrphanHolds`.  `NoOrphan` is not inductive: it does not say why a thread
  about to pop a runner may do so.  `ToldInv` adds it, by program counter:
  whoever shows `stopping` or `stopped`, has left its loop, is being joined, is
  in the `done` set of a kill, or was constructed and has left the registry, has
  its stop event set or stands between a thread's marking and its signal
  (`Told`).  Every action is then checked against each conjunct.
* `DeadNeverLooksAliveHolds`: only `TickBegin`, `Pause` and `Resume` write a
  live state, and a dead thread has left the program points they need; the
  invariant relates `rstate` to `tick`.
* `EngineStateHonestHolds`: by the actions that write the registry.
* `ContractHolds`: the initial state maps to the contract's, each step to one of
  its steps or to a stutter.  `LaunchOnce` is the invariant it needs (a thread
  is spawned only for a runner without one) and `OneMoves` the lemma that a step
  changes the phase of one runner at most.

`LiveExecutor_proofs` proves, for every set of executors, threads and signals,
every cap, threshold and number of restarts (assumption: `ExecutorAssumption`,
the types of the constants, one tick thread for an executor, and that there are
finitely many threads, at least one):

* `TypeCorrect`: `TypeOK` is inductive.
* `CapOvershootHolds`.  Inductive as it stands: an order comes under way only
  while the count is below the cap, when the orders under way are at most all
  the threads, and then moves from the set into the count.
* `BreakerArmedHolds`.  Inductive as it stands, the thread between its count and
  the opening of the breaker and the reset between its writes included.
* `StoredNeverResentHolds`.  The invariant `KeyInv` says that what an executor
  knows of the table is in its memory (`Remembered`), that a thread on its way to
  the broker carries a key that its executor does not know of (`FreshKey`), and
  that a key reaches the memory before the table (`MemoryFirst`).  It needs that
  no two threads of one executor act on one signal, which `ExecutorAssumption`
  has: an executor belongs to one runner, and that has one tick thread.

`DataManager_proofs` proves, for every set of threads and keys, every capacity,
life time and number of hours and restarts (assumption: `DataAssumption`, the
types of the constants, that threads and keys are finitely many, and that `NoFrame`
is not a file):

* `TypeCorrect` and `AnswerAgeHolds`, by one invariant, `AgeInv`: what a thread
  has in hand by where it is (`FrameInHand`: a fetched frame is of this hour, one
  from the disk within the disk's life time), that an entry does not outlive
  both life times counted from its making (`EntryAge`), and that a file is as
  old as the frame in it (`FilesAge`), since only fetched frames are written.
* `CapacityOvershootHolds`: inductive by itself, over the number of keys and of
  threads that are about to add one.

`PaperPortfolio_proofs` proves, for every set of symbols, quantities and prices,
every rounding, cash and number of fills and crashes (assumption:
`PortfolioAssumption`, the types of the constants):

* `TypeCorrect`: `AccountTypeOK` is inductive, for any number of threads.
* `BooksAgreeHolds`, `CashAgreesHolds`, `DiskConsistentHolds` and `LedgerHolds`,
  under `SingleThread`; with two threads they are false, which is what
  `paper_square_off` shows.  None of them is inductive: they speak of the moments
  between two signals.  `AccountInv` adds what holds at each statement of a fill:
  that the check `on_signal()` made still covers the order (`Covered`), by how
  much the position book is ahead of the trade book and the cash behind it
  (`InHand`), and that what `persist()` has copied is still what the books say
  (`Copied`), which is what a crash after the commit relies on.

`TradingDay_proofs` proves, for every set of symbols, quantities and prices with a
least and a greatest, every fee, limit and number of days, orders and restarts
(assumption: `TradingDayAssumption`):

* `DayBoundedHolds` and `ReportLagsByOneHolds`, by one invariant, `DayInv`.  That
  the limits are passed by one trade at most is not inductive, since gate and
  record are separate steps: `StillBelow` says that what the gate tested still
  holds when the trade is recorded, whatever reset, session start or new day came
  in between, because the limits that follow pass the test too.  `HeldInRange` and
  `OrderFits` bound what one trade can lose, `SalesCounted` says where each sale of
  the day has been counted, `LogInStep` that the log is behind by the sale that is
  about to be entered.
* `TypeCorrect`.  The cash is an integer of either sign: only a BUY is checked
  against it, so a SELL whose charges exceed its turnover takes it below zero.
* `BooksBalanceHolds`.  The bound on the drift is inductive beside `DayInv`, which
  has the types: an order changes the cash and one term of the sum over the symbols,
  and `Sums` says what that does to the sum.  `RoundedNear` says that rounding moves
  an amount by half a unit at most, which bounds what a fill adds to the drift
  (`Widen`), and that it does not pass a multiple of the unit, which is why no
  average is above `Dearest`.

`MCShared_proofs` proves every property of the `shared_state` run.  The seven
parts share no variable (`NextOfParts`: a step of the whole is a step of one part
and leaves the others alone), so each has an inductive invariant of its own, and
`PartsImplemented` says that a behaviour of the whole is one of each part's
specification.  Each part's assumption (`AngelSessionAssumption` and so on) gives
the types of its constants; those of threads, times and bounds are free.

* `CallsExcusedHolds`, for any two life times of which the broker's is the
  shorter.  `SessionInv` says that a client belongs to one broker, wherever it is
  held (`OneBroker`), so that no login moves the expiry of another; that an expiry
  is the time of the token that the renewing client got, and its life time
  (`Tells`); and that a thread calls at most one tick after its test (`InTime`).
* `MasterAgeHolds`.  `ScripInv` has what a thread has in hand by where it is in
  `load()` (`InHand`), the age of the master in the file (`FileAge`), and that a
  master in memory which is older than the file's life time was put there after a
  failed download (`MemAge`): without the last, threads that publish late would
  add to the age each time.
* `PoolSoundHolds`.  `PoolInv` has the locks of each thread by where it is in
  `get_conn()` (`Locks`), that the pool has the last connection opened and all
  others are closed, but for the one that a thread is about to put there
  (`PoolIsNewest`), that a connection which could not be opened again stays closed
  (`AbandonedClosed`), and what a thread can then find of the one it got (`Finds`).
* `ApiHonestHolds`.  `ApiInv` ties each handler's place to the run it has in hand
  (`Handling`), each run in the registry to its entry in the log, to the handler
  that is about to write it or to the overflow that dropped it (`Recorded`), and
  says that no stop of a registered run, and no kill that did not meet its deploy,
  is later in the log than its start (`InOrder`).
* `ReportCompleteHolds`.  `AuditInv` has which files there are and who writes to
  which (`AuditTypes`), that a line is a whole document, with a record whose write
  did not fail, or was torn (`Whole`), and
  where a record of today is (`Kept`): in the file that has the name, unless that
  file was turned today or the record went to a renamed one.
* `TickerFaithfulHolds`.  `SymInv` says which tickers are right for a name
  (`Right`), in memory, in the file and in the cache alike: a ticker that is cut
  takes a torn file, as another ticker than the static one does for a name of the
  static maps, and a BSE listing of an NSE stock takes a probe that failed; that the
  probe of a BSE listing follows one of the NSE listing (`Probes`); and that a bare
  static name is never probed (`Bare`).  Names of the static maps may trade on
  either exchange, as those of `_OVERRIDE_MAP` do.
* `ResolveFaithfulHolds` and the action property `MasterKeptHolds`.  `StoreInv`
  says, for each place in the constructor and in `resolve()`, what its request can
  be and which rules have failed for it (`Fits`).  `HistInv` says that a process
  which is about to seed finds the tables empty unless another wrote meanwhile
  (`crossed`), and that what a process has parsed is a whole listing of a master's
  size unless it is marked `short`: the three steps of `MasterKept` are then all
  that can make the table small.
* `TypeOKHolds` and `NamesFaithfulHolds` put the parts together.

`MCSingleCaller_proofs` proves every property of the `single_caller` run, in the
same way, for all values of the constants.  Only the types of the constants are
assumed, that symbols and contracts are finitely many, that the absence of an
order or of a position is not a record (`OrderAssumption`, `DomainAssumption`),
that `NaN` and a failed score are not numbers, and that the slippage is below
every price in `BarTrader`.

* `BacktestsAccountHolds`.  `SimInv` has the accounts of the one position, that
  the equity is marked at the last close, and what is left of the cash by whether
  a position is held.  `PfInv` has the balance with each symbol's position and
  profit as terms of two sums (`PfBalance`), for closes of any sign, and what the
  end relies on: that the cash is not negative before it, which prices the
  positions are closed at after the last date, and which are not (`PfEnd`).
* `WfForwardsChainHolds`.  `WfInv`: each window follows from its start by the three
  lengths, each start from the one before, and every date has the day of the first,
  or one from the 28th on if that is one that a month may lack (`DaysFrom`).  Two
  windows then meet in the same month, where only the day can differ.
* `DomainBooksHolds`, for any number of slots.  `DomainInv` adds `Headroom`: what
  the portfolio has and what the approved orders may still add to it is within the
  cap and one largest order for each of the other slots.  A fill moves value from
  one to the other; an approval finds its own order under the cap and no more than
  the other slots' orders beside it.  The exposure is a sum over the open positions, what may be
  added one over the slots; the proof works on the sum over all symbols
  (`ExposureOfAll`) and bounds the other by its number of terms (`SumBounded`).
* `SignalsAgreeHolds`.  `BarInv` says that the averages the strategy keeps are the
  last two values of the recursion over all closes (`Ewm`), as long as every close
  is a number, and that none is a number after one that is not; with a deque shorter
  than the slow period, and after such a close, there is no signal to compare.  That the recursion
  has a value at each bar (`EwmExists`), which later closes do not change
  (`EwmAgrees`), is by induction over its length.
* `NoLookaheadHolds`.  `SignalsInv` has `NothingAhead` for the frame so far; the
  lemmas are that each strategy's signal on a bar is the same in a frame that
  prolongs it, the covered call's recursion included (`TradesKept`).
* `FeedSoundHolds`.  `FeedInv` says what is left of the answer at each stage
  (`Left`): it rises in time, has only bars of the answer that have a close, and
  all of those that are alone at their time.  `UsedFits` relates the period asked
  for to the one requested.
* `ComputationsSoundHolds`.  `SizingInv` keeps which call a size answers
  (`KellyAnswered`, `RiskAnswered`); that a size is safe is then about the size
  alone, the largest number of lots below the caps (`KellyIsSafe`, `StopIsSafe`).
  `ChainInv` is inductive as it stands; the work is in what `_filter_strikes()`
  leaves (`Around`): the strikes from one rank to another, ranks being a bijection
  between the strikes and the first numbers (`IndexBijective` in `Sums`).
* `TypeOKHolds` puts the nine parts together.

`Sums` has what these need of data.  The library's induction theorems take an
operator, which the provers cannot instantiate, so two inductions are stated with
a set instead: what holds of a set or of a number if it holds of all smaller ones
holds of all (`SubsetInduction`, `NumberInduction`, from the well-foundedness of
both orders).  By them, a sum does not depend on the order in which its fold takes
the elements (`SumRemove`), so that the change of one term changes the sum by as
much (`SumChange`).

TLC checked each of these invariants, on the instance that the run has, before it
was proved or beside its proof.

Every invariant and every action property of the passing runs is a theorem, with
the hypothesis named above (`SingleThread`).  Only
model-checked are the liveness properties `StopSettles`, `KillSweeps` and
`BrokenBrokerLeftAlone`: fairness and `ENABLED` are out of the prover's reach.

## What modelling brought to light

Besides the findings, things the models rest on, which a reader of the code may
not expect.  Each was read off the source; where a property states its effect the
property is named.

*Paper account and API.*  The RiskManager gate of the paper account imports a
class that `risk/limits.py` does not have, so the gate is off.  The paper router
makes its account on first use and restores it after publishing it, so that a
second request can trade before the restore overwrites its cash; and it shares
the default file with `scripts/paper_run.py`: the second to save replaces cash
and positions and merges trades, which the next integrity check calls corrupted.
The live router's status, positions and orders are always empty, since the engine
has no attribute `runners`; pause and stop by strategy id answer 404, since
the engine knows run ids; kill counts are always 0; a pause of a runner that is
not running answers PAUSED; a negative limit of `get_audit()` counts from the end
(`ApiHonest`).

*Trading day.*  `session.start()` when late leaves the drawdown limit without its
peak (`DayBounded`).  The broker ignores the gate's `max_qty`.  A trade's PnL
leaves out the charges of its BUY.  A report counts what the log has, earlier days
included, and the second report of a day overwrites the first.

*Strategies.*  A close that is not a number silences both EMA strategies for good
(`SignalsAgree`), while `ewm()` in `generate_signals()` repeats its last value there
and goes on, so that live and backtest part at the first of them; the deque keeps
60 closes in `ema_cross` and 180 in `triple_ema` ("Retain 3× slow period for
warm-up safety", triple_ema.py:69), so a longer `slow_period` never signals.  `MultiStrategyRunner._execute()` passes keywords
that no executor accepts: a BUY is reported and nothing is placed.

*Backtests.*  `DataManager.get_ohlcv()` does not exist, the optimizer reads
`r.metrics`, which results lack, and the walk-forward test takes the truth value
of a Series: the three are modelled from the point where a caller or a test puts
working pieces in place.  A portfolio buys one share whatever the exposure limit,
which "single symbol never exceeds X% of total capital" (portfolio_engine.py:9)
denies (`PfExposure`), and a position whose symbol last closed at zero is never
closed, so that its loss is in the curve and in no symbol's PnL
(`BacktestsAccount`).  A close that is not a number raises in an entry and ends the
run, symbols and all.

*Domain.*  `add_position()` ignores the side when it scales in; closing a SHORT
moves cash with the sign turned round; `close_position()` loses the position, with
neither trade nor cash, if the close raises, and `close_partial()` leaves an empty
position in the dictionary (`MoneyConserved`);
the default capital of one million blocks every market order at the gate.  The
rules see no order that is approved and not filled, so that orders approved together
pass the limits they were asked about ("Block opening more than 10 positions",
risk_rule.py:189; `RulesBound`), and `fill()` has counted the shares of a second
partial fill when it raises (`FillsCounted`).

*Data.*  The validator's rule on too many missing closes cannot fire in
`DataManager.get()`, since both providers have dropped them; negative closes
survive unless a zero is among the closes; dropping duplicates before missing rows
can lose a good row; `sort_index()` is not stable, so that of two bars of one time
either may be kept, unless they came in order; the retry with "5d" asks for less than longer periods that
are spelt in another unit (`FeedSound`).  One failed login disables the Angel One
provider for the life of the process; its master can be as old as both life times
(`MasterAge`).

*Instruments.*  The listing is written in place: after a crash in the write, and if the
next process cannot download, half a listing is loaded and stamped fresh, though
"a crash during refresh never leaves a half-written instrument master"
(storage.py:3-4; `MasterKept`).  Each table is a transaction of its own, so that a
crash can leave tables of two days.  The search of `resolve()` returns the first row that contains the
name; the resolver's fallback list is dead, since the static maps pass its threshold; a
save renews the file's age; a master above the threshold is never refreshed at
start; an `InstrumentMaster` with an empty expiry fails validation;
`token_map.py` compares a date with a string and then stays loaded; the singleton
of `angel_master.py` never expires.

*Core services.*  Threads that wait behind a stale connection raise a
`ProgrammingError`, and all later ones do if it could not be opened again
(`stale_connection`); `close_all()` closes connections in use, and a concurrent
reopen leaks one; a thread that has replaced a stale connection takes the new
lock without a second check, so that it may run its block on a connection which
another thread has found stale and closed meanwhile (`PoolSound`; nothing but
tests uses the pool).  The audit
handler swallows its own errors, so the fallback append is never reached;
processes rename each other's file, and one that still writes to a renamed file
goes on there until it is full or the process starts again, so that what it wrote
meanwhile is missing from a day on which no file was turned (the proof of
`ReportComplete` failed on this: with files of two lines there is never room left
for it); one torn line empties the day's report, and `today()` takes any line that
mentions the date.

*Options and sizes.*  The store's fallback compares an expiry as a date with a
string, so asking for one finds nothing and asking for none mixes all;
`_nearest_expiry()` raises when Thursday is in the next month, so that the API is
never asked (`ChainSound`).  An ATR that is not a number gives a scalar of 0.25, an
unknown one 0.5, which is more than an ATR of over twice the target gets
(`KellySafe`).  A position over the exposure limit is only warned of (`StopSafe`).
The rupee amount of `simulate_impact()` is added where a fraction is meant.

## Not modelled, and why

* `cancel_all_orders` and `cancel_open_orders` look for orders with status
  "pending", which nothing writes; they change nothing.  `shutdown()` has no
  caller.
* `LiveExecutor.connect()` imports names that `instruments/token_map.py` does
  not define, and `reconcile()` reads an attribute that `PositionBook` does not
  have; neither can complete.  The executor is modelled with the client that the
  tests inject.  `scripts/live_session.py` ends there too, so its schedule never
  begins.
* Floats.  Prices, cash and quantities are integers of a small unit; the one
  rounding that a decision can see in the paper account is `Slack`; those of the
  paper broker are `Rounded`.  Averages in
  `BarTrader` are exact.  Metrics (`risk/metrics.py`, `backtesting/metrics.py`),
  the indicators of `ai/` and of the five strategies that recompute one over a
  frame are float formulas on which no step depends.
* Loss and drawdown limits in the live path: its trades are recorded with zero
  PnL, so they do not move.
* `DataManager.batch_get()`, `invalidate()`, `clear()`, `append()`, `info()`:
  the first is a loop over `get()`, the others remove or extend entries without
  deciding anything.  The period, which is not part of a cache key, is left out:
  nothing in a frame tells what it was asked for.
* `token_map.py`, `angel_master.py` and `instruments/master.py`: see above; they
  are caches that no other part depends on and that cannot work as they are.
* The adapters of Zerodha, Upstox, Fyers and IIFL log in once and pass calls on.
  `logout()` of the Angel One adapter is called by scripts only.
* The paper, backtesting and broker routers beyond what is said above: a request
  is one call of a part that is modelled.
* `ui/app.py`, reports as text, logging, configuration: layout and values.

## Plan

The model covers what the plan set out, and the safety properties of its runs are
theorems.  What could follow:

1. The abstract specifications that the parts of `shared_state` and
   `single_caller` suggest: a store that maps a name to its instrument, with the
   table, file and seeding as its refinement; a feed that serves the right frame or
   an error.
2. The steps that the liveness properties rest on, as far as they are safety: that
   a runner whose stop event is set has fewer steps left after each of its own, and
   that a failing executor's count only grows.
3. `LiveExecutor` and `PaperPortfolio` composed with a runner's tick, when the live
   executor's `connect()` works and a session can reach it.
