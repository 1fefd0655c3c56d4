-------------------------------- MODULE LiveApi --------------------------------
(***************************************************************************)
(* The live router of the HTTP API (api/routers/live.py).  FastAPI runs    *)
(* its handlers on a pool of threads.  Of a call to LiveEngine only what   *)
(* the router can tell apart is kept: a deploy registers its run, then     *)
(* starts it; a stop and a kill look runs up, then stop and unregister     *)
(* them.  (Module LiveEngine has the grain of the engine's locks.)  The    *)
(* router keeps a log of its own, in memory and without a lock, which it   *)
(* writes after the call.                                                  *)
(*                                                                         *)
(* Runs are numbered as they are deployed, and stand for their run ids.    *)
(***************************************************************************)
EXTENDS Integers, Sequences

CONSTANTS
  Handlers,      \* threads of the pool
  Known, Unknown,\* ids of strategies the registry of strategies has, or not
  MaxAudit,      \* _AUDIT_MAX
  Limits,        \* limits that get_audit() is called with
  MaxRuns, MaxRequests \* bound the exploration

ASSUME LiveApiAssumption ==
  /\ MaxAudit \in Nat \ {0} /\ Limits \subseteq Int
  /\ MaxRuns \in Nat /\ MaxRequests \in Nat

VARIABLES
  loaded,      \* _engine is not None
  registry,    \* runs that the engine has
  runState,    \* of each run: "none" yet, "created", "started" or "stopped"
  run_mode,    \* StrategyRunner.mode of each run
  served,      \* runs created so far
  auditLog,    \* _audit_log, newest first
  handlerAt,   \* where each thread is in its handler
  entry,       \* what it will log
  hit,         \* the runs it acts on
  reply,       \* status and count of its last answer
  requests,
  clashed,     \* runs that were deployed while a kill ran (history)
  forgotten    \* runs whose deploy has left the log (history)

apiVars == <<loaded, registry, runState, run_mode, served, auditLog, handlerAt, entry, hit,
             reply, requests, clashed, forgotten>>
engineVars == <<registry, runState, run_mode, served>>

Runs == 1..MaxRuns
NoEntry == [action |-> "none", run |-> 0]
Silence == [status |-> 0, count |-> 0]

ApiInit ==
  /\ loaded = FALSE
  /\ registry = {} /\ served = 0
  /\ runState = [r \in Runs |-> "none"] /\ run_mode = [r \in Runs |-> "none"]
  /\ auditLog = <<>>
  /\ handlerAt = [h \in Handlers |-> "idle"]
  /\ entry = [h \in Handlers |-> NoEntry]
  /\ hit = [h \in Handlers |-> {}]
  /\ reply = [h \in Handlers |-> Silence]
  /\ requests = 0 /\ clashed = {} /\ forgotten = {}

\* mode_must_be_valid() passes the mode on in capitals.
Mode(m) == IF m \in {"live", "LIVE"} THEN "LIVE" ELSE "PAPER"

\* StrategyRunner._build_executor() compares the mode with "live".
OrdersTo(r) == IF run_mode[r] = "live" THEN "broker" ELSE "paper"

Begin(h) ==
  /\ handlerAt[h] = "idle" /\ requests < MaxRequests
  /\ requests' = requests + 1

\* _get_engine(): an import that fails is tried again by the next request.
GetEngine == loaded' \in {TRUE, loaded}

Reply(h, status, count) ==
  /\ handlerAt' = [handlerAt EXCEPT ![h] = "idle"]
  /\ reply' = [reply EXCEPT ![h] = [status |-> status, count |-> count]]
  /\ entry' = [entry EXCEPT ![h] = NoEntry]
  /\ hit' = [hit EXCEPT ![h] = {}]

Enter(h, stage, action, run, runs) ==
  /\ handlerAt' = [handlerAt EXCEPT ![h] = stage]
  /\ reply' = [reply EXCEPT ![h] = Silence]
  /\ entry' = [entry EXCEPT ![h] = [action |-> action, run |-> run]]
  /\ hit' = [hit EXCEPT ![h] = runs]

Unavailable(h) ==
  /\ Begin(h) /\ GetEngine /\ ~loaded'
  /\ Reply(h, 503, 0)
  /\ UNCHANGED <<engineVars, auditLog, clashed, forgotten>>

Deploying == UNION {hit[k] : k \in {k \in Handlers : entry[k].action = "DEPLOY"}}
Killing == \E k \in Handlers : entry[k].action = "KILL_STRATEGIES"

\* deploy(): an unknown strategy is a KeyError, which is a 400 here.
Deploy(h, strategy, mode) ==
  /\ Begin(h) /\ GetEngine /\ loaded'
  /\ IF strategy \in Known
       THEN LET run == served + 1 IN
            /\ run \in Runs /\ served' = run
            /\ registry' = registry \cup {run}
            /\ runState' = [runState EXCEPT ![run] = "created"]
            /\ run_mode' = [run_mode EXCEPT ![run] = Mode(mode)]
            /\ clashed' = IF Killing THEN clashed \cup {run} ELSE clashed
            /\ Enter(h, "starting", "DEPLOY", run, {run})
       ELSE Reply(h, 400, 0) /\ UNCHANGED <<engineVars, clashed>>
  /\ UNCHANGED <<auditLog, forgotten>>

\* start() raises if the run has been stopped meanwhile.
StartRun(h) ==
  /\ handlerAt[h] = "starting"
  /\ LET run == entry[h].run IN
     IF runState[run] = "created"
       THEN /\ runState' = [runState EXCEPT ![run] = "started"]
            /\ Enter(h, "audit", "DEPLOY", run, {run})
       ELSE Reply(h, 400, 0) /\ UNCHANGED runState
  /\ UNCHANGED <<loaded, registry, run_mode, served, auditLog, requests, clashed, forgotten>>

\* pause(), stop(): the id of the request is looked up among the run ids.
PauseStrategy(h, id) ==
  /\ Begin(h) /\ GetEngine /\ loaded'
  /\ IF id \in registry THEN Enter(h, "audit", "PAUSE", id, {}) ELSE Reply(h, 404, 0)
  /\ UNCHANGED <<engineVars, auditLog, clashed, forgotten>>

StopStrategy(h, id) ==
  /\ Begin(h) /\ GetEngine /\ loaded'
  /\ IF id \in registry THEN Enter(h, "stopping", "STOP", id, {id}) ELSE Reply(h, 404, 0)
  /\ UNCHANGED <<engineVars, auditLog, clashed, forgotten>>

KillAllStrategies(h) ==
  /\ Begin(h) /\ GetEngine /\ loaded'
  /\ Enter(h, "stopping", "KILL_STRATEGIES", 0, registry)
  /\ UNCHANGED <<engineVars, auditLog, clashed, forgotten>>

StopEnds(h) ==
  /\ handlerAt[h] = "stopping"
  /\ runState' = [r \in Runs |-> IF r \in hit[h] THEN "stopped" ELSE runState[r]]
  /\ registry' = registry \ hit[h]
  /\ Enter(h, "audit", entry[h].action, entry[h].run, hit[h])
  /\ UNCHANGED <<loaded, run_mode, served, auditLog, requests, clashed, forgotten>>

\* cancel_all_orders() and square_off_all() leave the registry as it is.
KillAllOrders(h) ==
  /\ Begin(h) /\ GetEngine /\ loaded'
  /\ Enter(h, "audit", "KILL_ORDERS", 0, {})
  /\ UNCHANGED <<engineVars, auditLog, clashed, forgotten>>

KillAllPositions(h) ==
  /\ Begin(h) /\ GetEngine /\ loaded'
  /\ Enter(h, "audit", "KILL_POSITIONS", 0, {})
  /\ UNCHANGED <<engineVars, auditLog, clashed, forgotten>>

NewestEntries(log, n) == SubSeq(log, 1, IF Len(log) < n THEN Len(log) ELSE n)

AppendEntry_AtTheEnd(e) == Append(NewestEntries(auditLog, MaxAudit - 1), e) \* mutant

AppendEntry(e) == NewestEntries(<<e>> \o auditLog, MaxAudit)

\* _audit(), and the answer.  A kill answers 0: the engine returns a dict, and
\* has no attribute "runners" to count.
Audit(h) ==
  /\ handlerAt[h] = "audit"
  /\ auditLog' = AppendEntry(entry[h])
  /\ forgotten' = forgotten \cup
       {auditLog[i].run : i \in {i \in MaxAudit..Len(auditLog) : auditLog[i].action = "DEPLOY"}}
  /\ Reply(h, 200, 0)
  /\ UNCHANGED <<loaded, engineVars, requests, clashed>>

\* get_status(), get_positions(), get_orders() go through that attribute too, and
\* list nothing.
GetStatus(h) ==
  /\ Begin(h) /\ GetEngine
  /\ Reply(h, 200, 0)
  /\ UNCHANGED <<engineVars, auditLog, clashed, forgotten>>

\* list(_audit_log)[:limit]: a negative limit counts from the end.
AuditShown(limit) ==
  IF limit >= 0 THEN NewestEntries(auditLog, IF limit < MaxAudit THEN limit ELSE MaxAudit)
                ELSE SubSeq(auditLog, 1, Len(auditLog) + limit)

GetAudit(h, limit) ==
  /\ Begin(h)
  /\ Reply(h, 200, Len(AuditShown(limit)))
  /\ UNCHANGED <<loaded, engineVars, auditLog, clashed, forgotten>>

ApiNext == \E h \in Handlers :
  \/ Unavailable(h)
  \/ \E s \in Known \cup Unknown, m \in {"paper", "live"} : Deploy(h, s, m)
  \/ StartRun(h)
  \/ \E id \in Known \cup Runs : PauseStrategy(h, id) \/ StopStrategy(h, id)
  \/ KillAllStrategies(h)
  \/ StopEnds(h)
  \/ KillAllOrders(h)
  \/ KillAllPositions(h)
  \/ Audit(h)
  \/ GetStatus(h)
  \/ \E l \in Limits : GetAudit(h, l)

ApiSpec == ApiInit /\ [][ApiNext]_apiVars

-----------------------------------------------------------------------------

Actions == {"none", "DEPLOY", "PAUSE", "STOP", "KILL_STRATEGIES", "KILL_ORDERS", "KILL_POSITIONS"}

ApiTypeOK ==
  /\ loaded \in BOOLEAN /\ registry \subseteq 1..served /\ served \in 0..MaxRuns
  /\ \A r \in Runs : /\ runState[r] \in {"none", "created", "started", "stopped"}
                     /\ r \in 1..served <=> runState[r] # "none"
  /\ Len(auditLog) <= MaxAudit
  /\ \A i \in 1..Len(auditLog) : auditLog[i].action \in Actions \ {"none"}
  /\ \A h \in Handlers :
       /\ handlerAt[h] \in {"idle", "starting", "stopping", "audit"}
       /\ handlerAt[h] = "idle" <=> entry[h] = NoEntry
       /\ hit[h] \subseteq Runs
       /\ reply[h].status \in {0, 200, 400, 404, 503} /\ reply[h].count \in 0..MaxAudit

Logged(r, i) == auditLog[i].action = "DEPLOY" /\ auditLog[i].run = r

\* The router's log tells what the engine has.  A run that is registered is in the
\* log as deployed, or its request is not answered yet, or it is so old that it has
\* left the log.  What the log has as stopped is not registered.  Of the runs it
\* has as deployed before a kill only those are still registered that were deployed
\* while a kill ran: the log is written after the call, so the order of two entries
\* is not that of the calls (_audit(), kill_all_strategies()).
ApiHonest ==
  \A r \in registry :
    /\ \/ r \in Deploying \/ r \in forgotten
       \/ \E i \in 1..Len(auditLog) : Logged(r, i)
    /\ \A i \in 1..Len(auditLog) :
         /\ ~(auditLog[i].action = "STOP" /\ auditLog[i].run = r)
         /\ Logged(r, i) /\ r \notin clashed =>
              \A j \in 1..(i - 1) : auditLog[j].action # "KILL_STRATEGIES"

\* "mode="LIVE" routes orders to the configured broker" (deploy_strategy()).
LiveReachesBroker ==
  \A r \in registry : run_mode[r] = "LIVE" => OrdersTo(r) = "broker"

=============================================================================
