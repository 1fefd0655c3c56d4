------------------------------ MODULE LiveEngine ------------------------------
(***************************************************************************)
(* live/engine.py: the singleton that owns the runners, with the API       *)
(* threads that call it.  FastAPI runs every handler of api/routers/live.py*)
(* in a thread of its pool, so several calls are in flight at once; the    *)
(* engine takes _runners_lock around each look at its registry and drops   *)
(* it before it talks to a runner.  A call is therefore a sequence of      *)
(* steps, and call[c] is the program counter of thread c:                  *)
(*                                                                         *)
(*   deploy    start -> spawn         (after construct and register)       *)
(*   pause     pause                  (after _get_runner)                  *)
(*   resume    resume                                                      *)
(*   stop      stop -> signal -> join -> final -> pop                      *)
(*   kill      sweep -> (stop -> signal -> final -> sweep)*, then the pop  *)
(*   square    flatten*                                                    *)
(*                                                                         *)
(* cancel_all_orders changes nothing: no runner ever records an order as   *)
(* "pending", the only status cancel_open_orders looks for.  The `failed`  *)
(* list of kill_all_strategies stays empty: stop() cannot raise, since     *)
(* persist() is guarded and audit.record never raises.  Nothing calls      *)
(* shutdown(), which is a kill followed by one more write of "stopped".    *)
(***************************************************************************)
EXTENDS StrategyRunner

CONSTANTS
  Callers,     \* API threads
  NoRun,       \* no runner
  MaxRequests  \* requests other than deploys (bounds the exploration)

ASSUME EngineAssumption ==
  /\ NoRun \notin Runners
  /\ MaxRequests \in Nat

VARIABLES
  registered,  \* DOMAIN self._runners
  engineState, \* self._state ("stopping" is declared, and never assigned)
  call,        \* call[c]: what API thread c is executing
  requests     \* how many requests other than deploys have come in

engineVars == <<registered, engineState, call, requests>>
vars == <<runnerVars, engineVars>>

Ops == {"none", "deploy", "pause", "resume", "stop", "kill", "square"}
CallPC == {"idle", "start", "spawn", "pause", "resume", "stop",
           "signal", "join", "final", "sweep", "pop", "flatten"}

\* run: the runner at hand.  todo, done: what kill and square iterate over.
Idle == [op |-> "none", at |-> "idle", run |-> NoRun, todo |-> {}, done |-> {}]

Call == [op : Ops, at : CallPC, run : Runners \cup {NoRun},
         todo : SUBSET Runners, done : SUBSET Runners]

Init ==
  /\ RunnerInit
  /\ registered  = {}
  /\ engineState = "idle"
  /\ call = [c \in Callers |-> Idle]
  /\ requests = 0

TypeOK ==
  /\ RunnerTypeOK
  /\ registered  \in SUBSET Runners
  /\ engineState \in {"idle", "running", "stopped"}
  /\ call \in [Callers -> Call]
  /\ requests \in 0..MaxRequests

-----------------------------------------------------------------------------
\* Thread c is between two calls; it enters a method at program point pc.
Enter(c, o, pc, r, work) ==
  /\ call[c] = Idle
  /\ call' = [call EXCEPT ![c] =
       [op |-> o, at |-> pc, run |-> r, todo |-> work, done |-> {}]]

Goto(c, pc) == call' = [call EXCEPT ![c].at = pc]
Return(c)   == call' = [call EXCEPT ![c] = Idle]

-----------------------------------------------------------------------------
(***************************************************************************)
(* deploy(): the runner is registered under the lock and started outside.  *)
(***************************************************************************)
\* The constructor touches nothing another thread can see, so it is one step
\* with the registration.
DeployRegister(c) ==
  \E r \in Runners :
    /\ Enter(c, "deploy", "start", r, {})
    /\ Construct(r)
    /\ registered'  = registered \cup {r}
    /\ engineState' = "running"

\* start() raises RuntimeError on a runner that a kill has already stopped, and
\* deploy() lets it through.
DeployStart(c) ==
  /\ call[c].at = "start"
  /\ IF CanStart(call[c].run)
       THEN MarkStarting(call[c].run) /\ Goto(c, "spawn")
       ELSE Return(c) /\ UNCHANGED runnerVars
  /\ UNCHANGED <<registered, engineState>>

DeploySpawn(c) ==
  /\ call[c].at = "spawn"
  /\ Spawn(call[c].run)
  /\ Return(c)
  /\ UNCHANGED <<registered, engineState>>

-----------------------------------------------------------------------------
(***************************************************************************)
(* pause(), resume(), stop(): _get_runner under the lock, then the runner. *)
(* The runner may leave the registry between the two.                      *)
(***************************************************************************)
Lookup(c) ==
  \E r \in registered, o \in {"pause", "resume", "stop"} :
    /\ Enter(c, o, o, r, {})
    /\ UNCHANGED <<runnerVars, registered, engineState>>

PauseCall(c) ==
  /\ call[c].at = "pause"
  /\ Pause(call[c].run)
  /\ Return(c)
  /\ UNCHANGED <<registered, engineState>>

ResumeCall(c) ==
  /\ call[c].at = "resume"
  /\ Resume(call[c].run)
  /\ Return(c)
  /\ UNCHANGED <<registered, engineState>>

\* After runner.stop() returns: stop() goes on to its pop, kill to the next.
\* The pop of a stop() takes out the runner it stopped, so it is "done" too.
Stopped(c) ==
  call' = [call EXCEPT ![c] =
    [op   |-> @.op,
     at   |-> IF @.op = "stop" THEN "pop" ELSE "sweep",
     run  |-> NoRun,
     todo |-> @.todo,
     done |-> @.done \cup {@.run}]]

StopEnter(c) ==
  /\ call[c].at = "stop"
  /\ IF StopReturnsEarly(call[c].run)
       THEN Stopped(c) /\ UNCHANGED runnerVars
       ELSE MarkStopping(call[c].run) /\ Goto(c, "signal")
  /\ UNCHANGED <<registered, engineState>>

\* force=True skips the join, and so does a runner whose thread is not alive.
StopSignal(c) ==
  /\ call[c].at = "signal"
  /\ RaiseStop(call[c].run)
  /\ Goto(c, IF call[c].op = "stop" /\ Alive(call[c].run) THEN "join" ELSE "final")
  /\ UNCHANGED <<registered, engineState>>

\* join(timeout=10.0) returns when the thread is dead, or after ten seconds
\* whatever the thread is doing: at any time, that is.
StopJoin(c) ==
  /\ call[c].at = "join"
  /\ Goto(c, "final")
  /\ UNCHANGED <<runnerVars, registered, engineState>>

StopFinal(c) ==
  /\ call[c].at = "final"
  /\ MarkStopped(call[c].run)
  /\ Stopped(c)
  /\ UNCHANGED <<registered, engineState>>

-----------------------------------------------------------------------------
(***************************************************************************)
(* kill_all_strategies(): the ids are read under the lock, the runners are *)
(* stopped without it, and what was stopped is popped under it again.      *)
(***************************************************************************)
KillEnter(c) ==
  /\ Enter(c, "kill", "sweep", NoRun, registered)
  /\ UNCHANGED <<runnerVars, registered, engineState>>

\* self._runners.get(run_id), without the lock: a runner that another call has
\* popped meanwhile counts as stopped.
KillNext(c) ==
  /\ call[c].at = "sweep"
  /\ \E r \in call[c].todo :
       call' = [call EXCEPT ![c] =
         [op   |-> @.op,
          at   |-> IF r \in registered THEN "stop" ELSE "sweep",
          run  |-> IF r \in registered THEN r ELSE NoRun,
          todo |-> @.todo \ {r},
          done |-> IF r \in registered THEN @.done ELSE @.done \cup {r}]]
  /\ UNCHANGED <<runnerVars, registered, engineState>>

\* A stop() that has stopped its runner, or a kill with nothing left to stop.
ReadyToPop(c) ==
  \/ call[c].at = "pop"
  \/ call[c].at = "sweep" /\ call[c].todo = {}

\* Mutant of Pop: the fourth engine state that the code declares is assigned.
Pop_Stopping(c) ==
  /\ ReadyToPop(c)
  /\ registered' = registered \ call[c].done
  /\ engineState' = IF registered' = {} THEN "idle" ELSE "stopping"
  /\ Return(c)
  /\ UNCHANGED runnerVars

\* Mutant of Pop: the registry is emptied, not just of what was stopped.
Pop_Clear(c) ==
  /\ ReadyToPop(c)
  /\ registered' = {}
  /\ engineState' = IF call[c].op = "stop" THEN "idle" ELSE "stopped"
  /\ Return(c)
  /\ UNCHANGED runnerVars

\* Mutant of Pop: the last stop() leaves the engine "running".
Pop_NoIdle(c) ==
  /\ ReadyToPop(c)
  /\ registered' = registered \ call[c].done
  /\ engineState' = IF call[c].op = "stop" THEN engineState ELSE "stopped"
  /\ Return(c)
  /\ UNCHANGED runnerVars

\* The last critical section of stop() and of kill_all_strategies().  The kill
\* writes "stopped" whether or not a runner was deployed since its snapshot.
Pop(c) ==
  /\ ReadyToPop(c)
  /\ registered' = registered \ call[c].done
  /\ engineState' = IF call[c].op # "stop" THEN "stopped"
                    ELSE IF registered' = {} THEN "idle" ELSE engineState
  /\ Return(c)
  /\ UNCHANGED runnerVars

-----------------------------------------------------------------------------
(***************************************************************************)
(* square_off_all(): the registered runners, one after the other.          *)
(***************************************************************************)
SquareEnter(c) ==
  /\ Enter(c, "square", "flatten", NoRun, registered)
  /\ UNCHANGED <<runnerVars, registered, engineState>>

SquareNext(c) ==
  /\ call[c].at = "flatten"
  /\ \E r \in call[c].todo :
       /\ SquareOff(r)
       /\ call' = [call EXCEPT ![c].todo = @ \ {r}]
  /\ UNCHANGED <<registered, engineState>>

SquareDone(c) ==
  /\ call[c].at = "flatten"
  /\ call[c].todo = {}
  /\ Return(c)
  /\ UNCHANGED <<runnerVars, registered, engineState>>

-----------------------------------------------------------------------------
\* A thread enters a method whenever a request comes in.
NewCall(c) ==
  \/ DeployRegister(c) /\ UNCHANGED requests
  \/ /\ requests < MaxRequests
     /\ requests' = requests + 1
     /\ Lookup(c) \/ KillEnter(c) \/ SquareEnter(c)

\* A thread that is in a method goes on.
Continue(c) ==
  /\ UNCHANGED requests
  /\ \/ DeployStart(c) \/ DeploySpawn(c)
     \/ PauseCall(c) \/ ResumeCall(c)
     \/ StopEnter(c) \/ StopSignal(c) \/ StopJoin(c) \/ StopFinal(c)
     \/ KillNext(c) \/ Pop(c)
     \/ SquareNext(c) \/ SquareDone(c)

Next ==
  \/ \E c \in Callers : NewCall(c) \/ Continue(c)
  \/ \E r \in Runners : TickThread(r) /\ UNCHANGED engineVars

Spec == Init /\ [][Next]_vars

(***************************************************************************)
(* The operating system schedules every started thread: a tick thread goes *)
(* on (its sleeps and its waits have timeouts, a bar's fetch returns or    *)
(* raises), and so does an API thread inside a method.  No request is ever *)
(* obliged to come in.                                                     *)
(***************************************************************************)
Fairness ==
  /\ \A r \in Runners : WF_vars(TickThread(r) /\ UNCHANGED engineVars)
  /\ \A c \in Callers : WF_vars(Continue(c))

FairSpec == Spec /\ Fairness

-----------------------------------------------------------------------------
\* A stop() of r has marked it and is about to set the event.
StopUnderWay(r) == \E c \in Callers : call[c].at = "signal" /\ call[c].run = r

(***************************************************************************)
(* A thread that trades is either in the registry, where stop, kill and    *)
(* square-off find it, or it has been told to stop.  deploy, stop and kill *)
(* all drop _runners_lock between the registry and the runner, and a       *)
(* second stop() of a runner returns before the first has set the event.   *)
(***************************************************************************)
NoOrphan ==
  \A r \in Runners :
    Alive(r) /\ r \notin registered => stopEvent[r] \/ StopUnderWay(r)

(***************************************************************************)
(* A runner whose thread has died never shows as running, paused or        *)
(* starting, although pause(), resume() and stop() write the same _state   *)
(* from other threads, and TickBegin overwrites what stop() wrote.         *)
(***************************************************************************)
DeadNeverLooksAlive ==
  \A r \in Runners :
    tick[r] = "dead" => rstate[r] \in {"stopping", "stopped", "error"}

(***************************************************************************)
(* The state that get_status() reports agrees with the registry: "idle"    *)
(* means that nothing is deployed and "running" that something is, with    *)
(* deploys, stops and kills in flight at the same time.  (The converse for *)
(* "stopped" fails: a runner deployed between the snapshot and the pop of  *)
(* a kill runs on in an engine that says "stopped".)                       *)
(***************************************************************************)
EngineStateHonest ==
  /\ engineState = "idle"    => registered = {}
  /\ engineState = "running" => registered # {}

(***************************************************************************)
(* The engine implements RunnerContract: whatever the other calls do, a    *)
(* request to stop is never taken back, only a tick thread that had passed *)
(* its loop test begins one more bar, and a thread runs once.              *)
(***************************************************************************)
Phase(r) == CASE tick[r] = "dead" -> "done"
              [] tick[r] = "gate" /\ stopEvent[r] -> "last"
              [] tick[r] \notin {"gate", "dead"} /\ stopEvent[r] -> "closing"
              [] tick[r] = "none" /\ ~stopEvent[r] -> "idle"
              [] OTHER -> "working"

Contract == INSTANCE RunnerContract
              WITH phase <- [r \in Runners |-> Phase(r)]

ContractSpec == Contract!Spec

(***************************************************************************)
(* A runner that was asked to stop comes to rest: its thread is gone and   *)
(* its state is final, for good.                                           *)
(***************************************************************************)
StopSettles ==
  \A r \in Runners :
    stopEvent[r] ~> [](~Alive(r) /\ rstate[r] \in {"stopped", "error"})

(***************************************************************************)
(* Every runner in a kill's snapshot dies, those included that another     *)
(* call is stopping or popping, or that a deploy has not started yet.      *)
(***************************************************************************)
InSnapshot(r) == \E c \in Callers : call[c].op = "kill" /\ r \in call[c].todo

KillSweeps == \A r \in Runners : InSnapshot(r) ~> []~Alive(r)

(***************************************************************************)
(* What POST /kill/strategies tells its user (api/routers/live.py): open   *)
(* positions remain in the portfolio, "Use /kill/positions to square off". *)
(* /kill/positions iterates over the registry, so a position must be held  *)
(* by a registered runner.  kill and stop pop the runner first.            *)
(***************************************************************************)
HoldingIsReachable == \A r \in Runners : holding[r] => r \in registered
=============================================================================
