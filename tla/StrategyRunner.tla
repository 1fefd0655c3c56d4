---------------------------- MODULE StrategyRunner ----------------------------
(***************************************************************************)
(* live/runner.py: the execution unit of one deployed strategy.  A runner  *)
(* is driven by two kinds of threads at once: its own tick thread          *)
(* (_tick_loop), and the API threads that call start, pause, resume, stop  *)
(* and square_off_positions on it.  They meet in four shared attributes,   *)
(* _state (under _lock), _stop_event, _pause_event and the position book.  *)
(*                                                                         *)
(* The steps of the tick thread are complete actions here.  The steps of   *)
(* the API methods are operators that LiveEngine, the only caller,         *)
(* sequences with the control state of the calling thread: each one says   *)
(* what one critical section of the method does to the runner.             *)
(*                                                                         *)
(* What the portfolio does with an order is PaperPortfolio's business:     *)
(* here a runner either holds a position or does not.                      *)
(***************************************************************************)
EXTENDS Naturals

CONSTANTS
  Runners,     \* the run_ids that are ever generated (bounds deploys)
  Traders      \* those whose strategy ever signals a trade

VARIABLES
  rstate,      \* rstate[r]: _state; "none" before the runner is constructed
  stopEvent,   \* stopEvent[r]: _stop_event.is_set()
  pauseEvent,  \* pauseEvent[r]: _pause_event.is_set()
  tick,        \* tick[r]: where the tick thread of r is
  holding      \* holding[r]: position_book.all_open() is not empty

runnerVars == <<rstate, stopEvent, pauseEvent, tick, holding>>

RunnerState == {"created", "starting", "running", "paused",
                "stopping", "stopped", "error"}

(***************************************************************************)
(* none: no thread.  begin: started, before it takes _lock.  loop: at the  *)
(* stop test, or in the wait before it, which ends on the event or on the  *)
(* timeout.  gate: at the pause test.  bar: inside _tick().  exit: out of  *)
(* the loop.  dead: returned.                                              *)
(***************************************************************************)
TickPC == {"none", "begin", "loop", "gate", "bar", "exit", "dead"}

\* Thread.is_alive()
Alive(r) == tick[r] \notin {"none", "dead"}

RunnerInit ==
  /\ rstate     = [r \in Runners |-> "none"]
  /\ stopEvent  = [r \in Runners |-> FALSE]
  /\ pauseEvent = [r \in Runners |-> FALSE]
  /\ tick       = [r \in Runners |-> "none"]
  /\ holding    = [r \in Runners |-> FALSE]

RunnerTypeOK ==
  /\ rstate     \in [Runners -> RunnerState \cup {"none"}]
  /\ stopEvent  \in [Runners -> BOOLEAN]
  /\ pauseEvent \in [Runners -> BOOLEAN]
  /\ tick       \in [Runners -> TickPC]
  /\ holding    \in [Runners -> BOOLEAN]

-----------------------------------------------------------------------------
(***************************************************************************)
(* What the API threads do to a runner.                                    *)
(***************************************************************************)

\* StrategyRunner(...): state CREATED, a fresh portfolio (the run_id holds a
\* random suffix, so restore() finds no database) and no thread.
Construct(r) ==
  /\ rstate[r] = "none"
  /\ rstate' = [rstate EXCEPT ![r] = "created"]
  /\ UNCHANGED <<stopEvent, pauseEvent, tick, holding>>

\* start(), the critical section; LiveEngine handles the RuntimeError.
CanStart(r) == rstate[r] = "created"

MarkStarting(r) ==
  /\ rstate' = [rstate EXCEPT ![r] = "starting"]
  /\ UNCHANGED <<stopEvent, pauseEvent, tick, holding>>

\* start(), Thread(...).start()
Spawn(r) ==
  /\ tick' = [tick EXCEPT ![r] = "begin"]
  /\ UNCHANGED <<rstate, stopEvent, pauseEvent, holding>>

Pause(r) ==
  /\ IF rstate[r] = "running"
       THEN /\ pauseEvent' = [pauseEvent EXCEPT ![r] = TRUE]
            /\ rstate'     = [rstate EXCEPT ![r] = "paused"]
       ELSE UNCHANGED <<pauseEvent, rstate>>
  /\ UNCHANGED <<stopEvent, tick, holding>>

Resume(r) ==
  /\ IF rstate[r] = "paused"
       THEN /\ pauseEvent' = [pauseEvent EXCEPT ![r] = FALSE]
            /\ rstate'     = [rstate EXCEPT ![r] = "running"]
       ELSE UNCHANGED <<pauseEvent, rstate>>
  /\ UNCHANGED <<stopEvent, tick, holding>>

\* stop() is four critical sections, with the join between the second and the
\* last.  A second stop() returns at the first one, whoever is at work on r.
StopReturnsEarly(r) == rstate[r] \in {"stopped", "stopping"}

MarkStopping(r) ==
  /\ rstate' = [rstate EXCEPT ![r] = "stopping"]
  /\ UNCHANGED <<stopEvent, pauseEvent, tick, holding>>

\* Mutant of RaiseStop: a force-stop that only changes the state.
RaiseStop_Lost(r) ==
  /\ pauseEvent' = [pauseEvent EXCEPT ![r] = FALSE]
  /\ UNCHANGED <<rstate, stopEvent, tick, holding>>

\* _stop_event.set() and then _pause_event.clear(): nothing between the two
\* looks at both, so they are one step.
RaiseStop(r) ==
  /\ stopEvent'  = [stopEvent EXCEPT ![r] = TRUE]
  /\ pauseEvent' = [pauseEvent EXCEPT ![r] = FALSE]
  /\ UNCHANGED <<rstate, tick, holding>>

\* _safe_persist() only reads the portfolio and never raises.
MarkStopped(r) ==
  /\ rstate' = [rstate EXCEPT ![r] = "stopped"]
  /\ UNCHANGED <<stopEvent, pauseEvent, tick, holding>>

\* square_off_positions(): every open position is sold, or the order of one is
\* rejected or raises and the position stays ("failed").
SquareOff(r) ==
  /\ \E flat \in {holding[r], FALSE} : holding' = [holding EXCEPT ![r] = flat]
  /\ UNCHANGED <<rstate, stopEvent, pauseEvent, tick>>

-----------------------------------------------------------------------------
(***************************************************************************)
(* The tick thread.                                                        *)
(***************************************************************************)
At(r, from, to) ==
  /\ tick[r] = from
  /\ tick' = [tick EXCEPT ![r] = to]

\* The thread's first critical section writes RUNNING whatever was there, a
\* STOPPED or STOPPING left by a stop() that overtook it included.
TickBegin(r) ==
  /\ At(r, "begin", "loop")
  /\ rstate' = [rstate EXCEPT ![r] = "running"]
  /\ UNCHANGED <<stopEvent, pauseEvent, holding>>

\* Mutant of LoopTest: the pause flag is honoured before the stop flag, by a
\* loop that never looks at the latter again.
LoopTest_NoStop(r) ==
  /\ At(r, "loop", "gate")
  /\ UNCHANGED <<rstate, stopEvent, pauseEvent, holding>>

\* while not self._stop_event.is_set()
LoopTest(r) ==
  /\ At(r, "loop", IF stopEvent[r] THEN "exit" ELSE "gate")
  /\ UNCHANGED <<rstate, stopEvent, pauseEvent, holding>>

\* if self._pause_event.is_set(): sleep(1); continue.  Otherwise a bar begins.
PauseTest(r) ==
  /\ At(r, "gate", IF pauseEvent[r] THEN "loop" ELSE "bar")
  /\ UNCHANGED <<rstate, stopEvent, pauseEvent, holding>>

\* _tick(): no bar, no signal or a rejected order leave the book alone; a BUY
\* opens a position, a SELL of the strategy's quantity closes it.
Bar(r) ==
  /\ At(r, "bar", "loop")
  /\ \E held \in IF r \in Traders THEN BOOLEAN ELSE {FALSE} :
       holding' = [holding EXCEPT ![r] = held]
  /\ UNCHANGED <<rstate, stopEvent, pauseEvent>>

\* _tick() raises: ERROR, and the loop is left.
BarFails(r) ==
  /\ At(r, "bar", "exit")
  /\ rstate' = [rstate EXCEPT ![r] = "error"]
  /\ UNCHANGED <<stopEvent, pauseEvent, holding>>

\* Mutant of TickExit: only a RUNNING runner is marked STOPPED.
TickExit_OnlyRunning(r) ==
  /\ At(r, "exit", "dead")
  /\ rstate' = [rstate EXCEPT ![r] = IF @ = "running" THEN "stopped" ELSE @]
  /\ UNCHANGED <<stopEvent, pauseEvent, holding>>

\* The thread's last critical section: STOPPED, unless it died of an error.
TickExit(r) ==
  /\ At(r, "exit", "dead")
  /\ rstate' = [rstate EXCEPT ![r] = IF @ = "error" THEN @ ELSE "stopped"]
  /\ UNCHANGED <<stopEvent, pauseEvent, holding>>

TickThread(r) ==
  \/ TickBegin(r)
  \/ LoopTest(r)
  \/ PauseTest(r)
  \/ Bar(r)
  \/ BarFails(r)
  \/ TickExit(r)
=============================================================================
