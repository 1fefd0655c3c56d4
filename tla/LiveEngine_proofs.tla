--------------------------- MODULE LiveEngine_proofs ---------------------------
(***************************************************************************)
(* Proofs about LiveEngine, for any number of runners, API threads and     *)
(* requests.                                                               *)
(***************************************************************************)
EXTENDS LiveEngine, TLAPS

-----------------------------------------------------------------------------
(***************************************************************************)
(* Type correctness.                                                       *)
(***************************************************************************)
\* A tick thread keeps every variable within its type.
LEMMA TickType ==
  ASSUME TypeOK, NEW r \in Runners, TickThread(r), UNCHANGED engineVars
  PROVE  TypeOK'
<1>1. CASE TickBegin(r)
  BY <1>1 DEF TypeOK, RunnerTypeOK, TickBegin, At, RunnerState, TickPC, engineVars
<1>2. CASE LoopTest(r)
  BY <1>2 DEF TypeOK, RunnerTypeOK, LoopTest, At, RunnerState, TickPC, engineVars
<1>3. CASE PauseTest(r)
  BY <1>3 DEF TypeOK, RunnerTypeOK, PauseTest, At, RunnerState, TickPC, engineVars
<1>4. CASE Bar(r)
  BY <1>4 DEF TypeOK, RunnerTypeOK, Bar, At, RunnerState, TickPC, engineVars
<1>5. CASE BarFails(r)
  BY <1>5 DEF TypeOK, RunnerTypeOK, BarFails, At, RunnerState, TickPC, engineVars
<1>6. CASE TickExit(r)
  BY <1>6 DEF TypeOK, RunnerTypeOK, TickExit, At, RunnerState, TickPC, engineVars
<1> QED BY <1>1, <1>2, <1>3, <1>4, <1>5, <1>6 DEF TickThread

\* A thread that is past a lookup has a runner at hand.
HasRun(c) == call[c].at \in {"start", "spawn", "pause", "resume", "stop",
                             "signal", "join", "final"}

RunsOK == \A c \in Callers : HasRun(c) => call[c].run \in Runners

\* A request that comes in keeps every variable within its type.
LEMMA NewCallType ==
  ASSUME TypeOK, RunsOK, NEW c \in Callers, NewCall(c)
  PROVE  TypeOK' /\ RunsOK'
<1> USE DEF TypeOK, RunnerTypeOK, RunsOK, HasRun, Enter, Call, Ops, CallPC
<1>1. CASE DeployRegister(c) /\ UNCHANGED requests
  BY <1>1 DEF DeployRegister, Construct, RunnerState
<1>2. CASE Lookup(c) /\ requests < MaxRequests /\ requests' = requests + 1
  BY <1>2, EngineAssumption DEF Lookup, runnerVars
<1>3. CASE KillEnter(c) /\ requests < MaxRequests /\ requests' = requests + 1
  BY <1>3, EngineAssumption DEF KillEnter, runnerVars
<1>4. CASE SquareEnter(c) /\ requests < MaxRequests /\ requests' = requests + 1
  BY <1>4, EngineAssumption DEF SquareEnter, runnerVars
<1> QED BY <1>1, <1>2, <1>3, <1>4 DEF NewCall

\* So does a thread that goes on with its call.
LEMMA ContinueType ==
  ASSUME TypeOK, RunsOK, NEW c \in Callers, Continue(c)
  PROVE  TypeOK' /\ RunsOK'
<1> USE DEF TypeOK, RunnerTypeOK, RunsOK, HasRun, Goto, Return, Idle, Call, Ops,
            CallPC, runnerVars
<1>0. UNCHANGED requests
  BY DEF Continue
<1>1. CASE DeployStart(c)
  BY <1>0, <1>1, SMTT(40) DEF DeployStart, MarkStarting, RunnerState
<1>2. CASE DeploySpawn(c)
  BY <1>0, <1>2 DEF DeploySpawn, Spawn, TickPC
<1>3. CASE PauseCall(c)
  BY <1>0, <1>3 DEF PauseCall, Pause, RunnerState
<1>4. CASE ResumeCall(c)
  BY <1>0, <1>4 DEF ResumeCall, Resume, RunnerState
<1>5. CASE StopEnter(c)
  BY <1>0, <1>5 DEF StopEnter, StopReturnsEarly, MarkStopping, Stopped, RunnerState
<1>6. CASE StopSignal(c)
  BY <1>0, <1>6 DEF StopSignal, RaiseStop
<1>7. CASE StopJoin(c)
  BY <1>0, <1>7 DEF StopJoin
<1>8. CASE StopFinal(c)
  <2>1. rstate' \in [Runners -> RunnerState \cup {"none"}]
    BY <1>8 DEF StopFinal, MarkStopped, RunnerState
  <2>2. call' = [call EXCEPT ![c] =
          [op |-> call[c].op, at |-> IF call[c].op = "stop" THEN "pop" ELSE "sweep",
           run |-> NoRun, todo |-> call[c].todo,
           done |-> call[c].done \cup {call[c].run}]]
    BY <1>8 DEF StopFinal, Stopped
  <2>3. call' \in [Callers -> Call]
    BY <1>8, <2>2 DEF StopFinal
  <2>4. /\ ~HasRun(c)'
        /\ \A d \in Callers \ {c} : call'[d] = call[d]
    BY <2>2
  <2> QED BY <1>0, <1>8, <2>1, <2>3, <2>4 DEF StopFinal, MarkStopped
<1>9. CASE KillNext(c)
  <2>1. PICK r \in call[c].todo :
          call' = [call EXCEPT ![c] =
            [op   |-> @.op,
             at   |-> IF r \in registered THEN "stop" ELSE "sweep",
             run  |-> IF r \in registered THEN r ELSE NoRun,
             todo |-> @.todo \ {r},
             done |-> IF r \in registered THEN @.done ELSE @.done \cup {r}]]
    BY <1>9 DEF KillNext
  <2>2. call[c] \in Call /\ r \in Runners
    BY <2>1
  <2>4. call' \in [Callers -> Call]
    BY <2>1, <2>2
  <2>5. /\ HasRun(c)' => r \in registered /\ call'[c].run = r
        /\ \A d \in Callers \ {c} : call'[d] = call[d]
    BY <2>1
  <2>6. RunsOK'
    BY <2>2, <2>5
  <2> QED BY <1>0, <1>9, <2>4, <2>6 DEF KillNext
<1>10. CASE Pop(c)
  BY <1>0, <1>10 DEF Pop
<1>11. CASE SquareNext(c)
  <2>1. PICK r \in call[c].todo :
          /\ SquareOff(r)
          /\ call' = [call EXCEPT ![c].todo = @ \ {r}]
    BY <1>11 DEF SquareNext
  <2>2. call[c] \in Call /\ r \in Runners
    BY <2>1
  <2>4. holding' \in [Runners -> BOOLEAN]
    BY <2>1, <2>2 DEF SquareOff
  <2>5. call' \in [Callers -> Call]
    BY <2>1, <2>2
  <2>6. /\ ~HasRun(c)'
        /\ \A d \in Callers \ {c} : call'[d] = call[d]
    BY <1>11, <2>1 DEF SquareNext
  <2>7. RunsOK'
    BY <2>6
  <2> QED BY <1>0, <1>11, <2>1, <2>4, <2>5, <2>7 DEF SquareNext, SquareOff
<1>12. CASE SquareDone(c)
  BY <1>0, <1>12 DEF SquareDone
<1> QED BY <1>1, <1>2, <1>3, <1>4, <1>5, <1>6, <1>7, <1>8, <1>9, <1>10, <1>11,
           <1>12 DEF Continue

TypeInv == TypeOK /\ RunsOK

LEMMA InitType == Init => TypeInv
BY EngineAssumption DEF Init, RunnerInit, TypeInv, TypeOK, RunnerTypeOK, RunnerState,
   TickPC, RunsOK, HasRun, Idle, Call, Ops, CallPC

LEMMA NextType == TypeInv /\ [Next]_vars => TypeInv'
<1> SUFFICES ASSUME TypeInv, [Next]_vars PROVE TypeInv'
  OBVIOUS
<1>1. ASSUME NEW r \in Runners, TickThread(r), UNCHANGED engineVars PROVE TypeInv'
  BY <1>1, TickType DEF TypeInv, RunsOK, HasRun, engineVars
<1>2. ASSUME NEW c \in Callers, NewCall(c) PROVE TypeInv'
  BY <1>2, NewCallType DEF TypeInv
<1>3. ASSUME NEW c \in Callers, Continue(c) PROVE TypeInv'
  BY <1>3, ContinueType DEF TypeInv
<1>4. CASE UNCHANGED vars
  BY <1>4 DEF TypeInv, TypeOK, RunnerTypeOK, RunsOK, HasRun, vars, runnerVars, engineVars
<1> QED BY <1>1, <1>2, <1>3, <1>4 DEF Next

(***************************************************************************)
(* Every variable stays within its type.                                   *)
(***************************************************************************)
THEOREM TypeCorrect == Spec => []TypeOK
<1>1. Spec => []TypeInv
  BY InitType, NextType, PTL DEF Spec
<1> QED BY <1>1, PTL DEF TypeInv

-----------------------------------------------------------------------------
(***************************************************************************)
(* No orphan.  The invariant that carries the proof: whoever has left the  *)
(* registry, or shows as stopping or stopped, has been told to stop; and   *)
(* "told" is for good, since only the thread that has marked a runner can  *)
(* leave the point before the event is set, by setting it.                 *)
(***************************************************************************)
Told(r) == stopEvent[r] \/ StopUnderWay(r)

\* Everything that a call or a thread works on has been constructed.
Constructed ==
  /\ \A r \in registered : rstate[r] # "none"
  /\ \A r \in Runners : tick[r] # "none" => rstate[r] # "none"
  /\ \A c \in Callers : HasRun(c) => rstate[call[c].run] # "none"
  /\ \A c \in Callers : \A r \in call[c].todo : rstate[r] # "none"

MarkedTold == \A r \in Runners : rstate[r] \in {"stopping", "stopped"} => Told(r)
ExitTold   == \A r \in Runners : tick[r] = "exit" => rstate[r] = "error" \/ Told(r)
JoinTold   == \A c \in Callers : call[c].at \in {"join", "final"} => stopEvent[call[c].run]
DoneTold   == \A c \in Callers : \A r \in call[c].done : Told(r)
GoneTold   == \A r \in Runners : rstate[r] # "none" /\ r \notin registered => Told(r)

ToldInv == /\ Constructed /\ MarkedTold /\ ExitTold
           /\ JoinTold /\ DoneTold /\ GoneTold

\* A call of one thread leaves the others alone, and never clears the event.
LEMMA CallFrame ==
  ASSUME TypeInv, NEW c \in Callers, NewCall(c) \/ Continue(c)
  PROVE  /\ \A d \in Callers \ {c} : call'[d] = call[d]
         /\ \A r \in Runners : stopEvent[r] => stopEvent'[r]
<1> USE DEF TypeInv, TypeOK, RunnerTypeOK, Enter, Goto, Return, Stopped, runnerVars
<1>1. CASE NewCall(c)
  BY <1>1 DEF NewCall, DeployRegister, Construct, Lookup, KillEnter, SquareEnter
<1>2. CASE DeployStart(c) \/ DeploySpawn(c) \/ PauseCall(c) \/ ResumeCall(c)
  BY <1>2 DEF DeployStart, MarkStarting, DeploySpawn, Spawn, PauseCall, Pause,
     ResumeCall, Resume
<1>3. CASE StopEnter(c) \/ StopSignal(c) \/ StopJoin(c) \/ StopFinal(c)
  BY <1>3 DEF StopEnter, MarkStopping, StopSignal, RaiseStop, StopJoin, StopFinal,
     MarkStopped
<1>4. CASE KillNext(c) \/ Pop(c) \/ SquareNext(c) \/ SquareDone(c)
  BY <1>4 DEF KillNext, Pop, SquareNext, SquareOff, SquareDone
<1> QED BY <1>1, <1>2, <1>3, <1>4 DEF Continue

\* From the point where it has marked a runner, a thread goes on to the event.
LEMMA SignalNext ==
  ASSUME TypeInv, NEW c \in Callers, NewCall(c) \/ Continue(c), call[c].at = "signal"
  PROVE  StopSignal(c)
BY DEF NewCall, DeployRegister, Lookup, KillEnter, SquareEnter, Enter, Idle, Continue,
   DeployStart, DeploySpawn, PauseCall, ResumeCall, StopEnter, StopJoin, StopFinal,
   KillNext, Pop, ReadyToPop, SquareNext, SquareDone

LEMMA ToldStable ==
  ASSUME TypeInv, [Next]_vars, NEW r \in Runners, Told(r)
  PROVE  Told(r)'
<1>1. ASSUME NEW u \in Runners, TickThread(u), UNCHANGED engineVars PROVE Told(r)'
  BY <1>1 DEF TickThread, TickBegin, LoopTest, PauseTest, Bar, BarFails, TickExit,
     Told, StopUnderWay, engineVars
<1>2. ASSUME NEW c \in Callers, NewCall(c) \/ Continue(c) PROVE Told(r)'
  <2>1. CASE stopEvent[r]
    BY <1>2, <2>1, CallFrame DEF Told
  <2>2. CASE StopUnderWay(r)
    <3>1. PICK d \in Callers : call[d].at = "signal" /\ call[d].run = r
      BY <2>2 DEF StopUnderWay
    <3>2. CASE d = c
      <4>1. StopSignal(c)
        BY <1>2, <3>1, <3>2, SignalNext
      <4> QED BY <3>1, <3>2, <4>1
              DEF StopSignal, RaiseStop, Told, TypeInv, TypeOK, RunnerTypeOK
    <3>3. CASE d # c
      BY <1>2, <3>1, <3>3, CallFrame DEF Told, StopUnderWay
    <3> QED BY <3>2, <3>3
  <2> QED BY <2>1, <2>2 DEF Told
<1>3. CASE UNCHANGED vars
  BY <1>3 DEF Told, StopUnderWay, vars, runnerVars, engineVars
<1> QED BY <1>1, <1>2, <1>3 DEF Next

\* A step of a tick thread: only its first writes a state over a told runner,
\* and "running" promises nothing; it leaves the loop told, or in error.
LEMMA TickTold ==
  ASSUME TypeInv, ToldInv, NEW r \in Runners, TickThread(r), UNCHANGED engineVars
  PROVE  ToldInv'
<1> USE DEF TypeInv, TypeOK, RunnerTypeOK, ToldInv, At, engineVars
<1>1. \A u \in Runners : Told(u) => Told(u)'
  BY ToldStable DEF Next
<1>2. /\ \A u \in Runners : rstate[u] # "none" => rstate'[u] # "none"
      /\ \A u \in Runners : tick'[u] # "none" => tick[u] # "none"
      /\ \A u \in Runners : rstate'[u] # "none" => rstate[u] # "none"
  BY DEF TickThread, TickBegin, LoopTest, PauseTest, Bar, BarFails, TickExit, Constructed
<1>3. Constructed'
  BY <1>2 DEF Constructed, HasRun, RunsOK, Call
<1>4. ExitTold'
  BY <1>1 DEF ExitTold, TickThread, TickBegin, LoopTest, PauseTest, Bar, BarFails,
     TickExit, Told
<1>5. MarkedTold'
  BY <1>1 DEF MarkedTold, ExitTold, TickThread, TickBegin, LoopTest, PauseTest, Bar,
     BarFails, TickExit
<1>6. JoinTold'
  BY ZenonT(60) DEF JoinTold, TickThread, TickBegin, LoopTest, PauseTest, Bar, BarFails, TickExit
<1>7. DoneTold'
  BY <1>1 DEF DoneTold, Call
<1>8. GoneTold'
  BY <1>1, <1>2 DEF GoneTold
<1> QED BY <1>3, <1>4, <1>5, <1>6, <1>7, <1>8

\* A request that comes in: a deploy brings a new runner, the others only look.
LEMMA NewCallTold ==
  ASSUME TypeInv, ToldInv, NEW c \in Callers, NewCall(c)
  PROVE  ToldInv'
<1> USE DEF TypeInv, TypeOK, RunnerTypeOK, ToldInv, Enter
<1>1. \A u \in Runners : Told(u) => Told(u)'
  BY ToldStable DEF Next
<1>2. CASE DeployRegister(c)
  <2>1. PICK r \in Runners : Enter(c, "deploy", "start", r, {}) /\ Construct(r)
                             /\ registered' = registered \cup {r}
    BY <1>2 DEF DeployRegister
  <2>2. Constructed'
    BY <2>1 DEF Construct, Constructed, HasRun, RunsOK, Call
  <2>3. MarkedTold' /\ ExitTold' /\ GoneTold'
    BY <1>1, <2>1 DEF Construct, MarkedTold, ExitTold, GoneTold
  <2>4. JoinTold' /\ DoneTold'
    BY <1>1, <2>1 DEF Construct, JoinTold, DoneTold, Call
  <2> QED BY <2>2, <2>3, <2>4
<1>3. CASE Lookup(c) \/ KillEnter(c) \/ SquareEnter(c)
  <2>1. UNCHANGED <<runnerVars, registered>>
    BY <1>3 DEF Lookup, KillEnter, SquareEnter
  <2>2. /\ HasRun(c)' => call'[c].run \in registered
        /\ call'[c].todo \subseteq registered /\ call'[c].done = {}
        /\ call'[c].at \notin {"join", "final"}
        /\ \A d \in Callers \ {c} : call'[d] = call[d]
    BY <1>3 DEF Lookup, KillEnter, SquareEnter, HasRun
  <2>3. Constructed'
    BY <2>1, <2>2 DEF Constructed, HasRun, runnerVars
  <2>4. MarkedTold' /\ ExitTold' /\ GoneTold'
    BY <1>1, <2>1 DEF MarkedTold, ExitTold, GoneTold, runnerVars
  <2>5. JoinTold' /\ DoneTold'
    BY <1>1, <2>1, <2>2 DEF JoinTold, DoneTold, Call, runnerVars
  <2> QED BY <2>3, <2>4, <2>5
<1> QED BY <1>2, <1>3 DEF NewCall

\* What the helpers that move a thread do to its record.
LEMMA GotoEffect ==
  ASSUME TypeOK, NEW c \in Callers, NEW pc, Goto(c, pc)
  PROVE  /\ call'[c].at = pc
         /\ call'[c].run = call[c].run
         /\ call'[c].todo = call[c].todo
         /\ call'[c].done = call[c].done
BY DEF TypeOK, Call, Goto

LEMMA ReturnEffect ==
  ASSUME TypeOK, NEW c \in Callers, Return(c)
  PROVE  call'[c].at = "idle" /\ call'[c].todo = {} /\ call'[c].done = {}
BY DEF TypeOK, Return, Idle

LEMMA StoppedEffect ==
  ASSUME TypeOK, NEW c \in Callers, Stopped(c)
  PROVE  /\ call'[c].at \in {"pop", "sweep"}
         /\ call'[c].todo = call[c].todo
         /\ call'[c].done = call[c].done \cup {call[c].run}
BY DEF TypeOK, Stopped

\* The steps of deploy, pause and resume: a state is written only where a
\* guard has shown it to be neither stopping nor stopped.
LEMMA DeployPauseTold ==
  ASSUME TypeInv, ToldInv, NEW c \in Callers, Continue(c),
         DeployStart(c) \/ DeploySpawn(c) \/ PauseCall(c) \/ ResumeCall(c),
         \A u \in Runners : Told(u) => Told(u)'
  PROVE  ToldInv'
<1> USE DEF TypeInv, TypeOK, RunnerTypeOK, ToldInv
<1>1. /\ \A u \in Runners : rstate[u] # "none" <=> rstate'[u] # "none"
      /\ \A u \in Runners : rstate'[u] \in {"stopping", "stopped"} => rstate'[u] = rstate[u]
      /\ \A u \in Runners : rstate[u] = "error" => rstate'[u] = "error"
      /\ UNCHANGED <<stopEvent, registered>>
  BY DEF DeployStart, MarkStarting, CanStart, DeploySpawn, Spawn, PauseCall, Pause,
     ResumeCall, Resume, runnerVars, Constructed, HasRun
<1>2. /\ HasRun(c)' => HasRun(c) /\ call'[c].run = call[c].run
      /\ call'[c].at \notin {"join", "final"}
      /\ call'[c].todo \subseteq call[c].todo /\ call'[c].done \subseteq call[c].done
      /\ \A d \in Callers \ {c} : call'[d] = call[d]
  <2>1. \A d \in Callers \ {c} : call'[d] = call[d]
    BY CallFrame
  <2>2. CASE DeployStart(c) /\ CanStart(call[c].run)
    BY <2>1, <2>2, GotoEffect DEF DeployStart, HasRun
  <2>3. CASE Return(c)
    BY <2>1, <2>3, ReturnEffect DEF HasRun
  <2> QED BY <2>2, <2>3 DEF DeployStart, DeploySpawn, PauseCall, ResumeCall
<1>3. \A u \in Runners : tick'[u] # tick[u] => tick'[u] = "begin" /\ rstate[u] # "none"
  BY DEF DeployStart, MarkStarting, DeploySpawn, Spawn, PauseCall, Pause,
     ResumeCall, Resume, runnerVars, Constructed, HasRun
<1>4. Constructed'
  <2>1. \A u \in Runners : tick'[u] # "none" => rstate'[u] # "none"
    BY <1>1, <1>3 DEF Constructed
  <2>2. \A u \in registered' : rstate'[u] # "none"
    BY <1>1 DEF Constructed
  <2>3. \A d \in Callers : HasRun(d)' => rstate'[call'[d].run] # "none"
    BY <1>1, <1>2 DEF Constructed, HasRun, RunsOK
  <2>4. \A d \in Callers : \A u \in call'[d].todo : rstate'[u] # "none"
    BY <1>1, <1>2 DEF Constructed, Call
  <2> QED BY <2>1, <2>2, <2>3, <2>4 DEF Constructed
<1>5. MarkedTold'
  BY <1>1 DEF MarkedTold
<1>6. ExitTold'
  BY <1>1, <1>3 DEF ExitTold
<1>7. JoinTold' /\ DoneTold'
  BY <1>1, <1>2 DEF JoinTold, DoneTold, Call
<1>8. GoneTold'
  BY <1>1 DEF GoneTold
<1> QED BY <1>4, <1>5, <1>6, <1>7, <1>8

\* The steps of runner.stop(): a runner is marked by the thread that is about
\* to set its event, and a second stop finds it marked, hence told.
LEMMA StopTold ==
  ASSUME TypeInv, ToldInv, NEW c \in Callers, Continue(c),
         StopEnter(c) \/ StopSignal(c) \/ StopJoin(c) \/ StopFinal(c),
         \A u \in Runners : Told(u) => Told(u)'
  PROVE  ToldInv'
<1> USE DEF TypeInv, TypeOK, RunnerTypeOK, ToldInv
<1>0. PICK r \in Runners : r = call[c].run
  BY DEF StopEnter, StopSignal, StopJoin, StopFinal, RunsOK, HasRun
<1>1. /\ \A u \in Runners : rstate[u] # "none" <=> rstate'[u] # "none"
      /\ \A u \in Runners : u # r => rstate'[u] = rstate[u]
      /\ UNCHANGED <<tick, registered>>
  BY <1>0 DEF StopEnter, StopReturnsEarly, MarkStopping, StopSignal, RaiseStop, StopJoin,
     StopFinal, MarkStopped, runnerVars, Constructed, HasRun
<1>2. /\ HasRun(c)' => HasRun(c) /\ call'[c].run = r
      /\ call'[c].todo = call[c].todo
      /\ \A d \in Callers \ {c} : call'[d] = call[d]
  <2>1. \A d \in Callers \ {c} : call'[d] = call[d]
    BY CallFrame
  <2>2. HasRun(c)
    BY DEF StopEnter, StopSignal, StopJoin, StopFinal, HasRun
  <2>3. CASE Stopped(c)
    BY <1>0, <2>1, <2>2, <2>3, StoppedEffect DEF HasRun
  <2>4. CASE \E pc \in CallPC : Goto(c, pc)
    BY <1>0, <2>1, <2>2, <2>4, GotoEffect DEF HasRun
  <2> QED BY <2>3, <2>4 DEF StopEnter, StopSignal, StopJoin, StopFinal, CallPC
<1>3. rstate'[r] \in {"stopping", "stopped"} => Told(r)'
  <2>1. CASE StopEnter(c)
    <3>1. CASE StopReturnsEarly(r)
      <4>1. rstate[r] \in {"stopping", "stopped"}
        BY <3>1 DEF StopReturnsEarly
      <4> QED BY <1>0, <4>1 DEF MarkedTold
    <3>2. CASE ~StopReturnsEarly(r)
      <4>1. call'[c].at = "signal" /\ call'[c].run = r
        BY <1>0, <2>1, <3>2, GotoEffect DEF StopEnter
      <4> QED BY <4>1 DEF Told, StopUnderWay
    <3> QED BY <3>1, <3>2
  <2>2. CASE StopSignal(c)
    BY <1>0, <2>2 DEF StopSignal, RaiseStop, Told
  <2>3. CASE StopJoin(c) \/ StopFinal(c)
    <3>1. stopEvent[r]
      BY <1>0, <2>3 DEF StopJoin, StopFinal, JoinTold
    <3> QED BY <1>0, <3>1 DEF Told
  <2> QED BY <2>1, <2>2, <2>3
<1>4. Constructed'
  BY <1>0, <1>1, <1>2 DEF Constructed, HasRun, RunsOK, Call
<1>5. MarkedTold'
  <2> SUFFICES ASSUME NEW u \in Runners, rstate'[u] \in {"stopping", "stopped"}
               PROVE  Told(u)'
    BY DEF MarkedTold
  <2>1. CASE u = r
    BY <1>3, <2>1
  <2>2. CASE u # r
    BY <1>1, <2>2 DEF MarkedTold
  <2> QED BY <2>1, <2>2
<1>6. ExitTold'
  <2>1. rstate'[r] # rstate[r] =>
          rstate'[r] \in {"stopping", "stopped"}
    BY <1>0 DEF StopEnter, MarkStopping, StopSignal, RaiseStop, StopJoin, StopFinal,
       MarkStopped, runnerVars
  <2> SUFFICES ASSUME NEW u \in Runners, tick'[u] = "exit", rstate'[u] # "error"
               PROVE  Told(u)'
    BY DEF ExitTold
  <2>2. CASE rstate'[u] = rstate[u]
    BY <1>1, <2>2 DEF ExitTold
  <2>3. CASE rstate'[u] # rstate[u]
    BY <1>1, <1>3, <2>1, <2>3
  <2> QED BY <2>2, <2>3
<1>7. JoinTold'
  <2>1. \A u \in Runners : stopEvent[u] => stopEvent'[u]
    BY DEF StopEnter, MarkStopping, StopSignal, RaiseStop, StopJoin, StopFinal,
       MarkStopped, runnerVars
  <2>2. \A d \in Callers \ {c} : call[d].at \in {"join", "final"} => call[d].run \in Runners
    BY DEF RunsOK, HasRun
  <2>3. call'[c].at \in {"join", "final"} => stopEvent'[call'[c].run]
    <3>1. CASE StopSignal(c)
      BY <1>0, <1>2, <3>1, GotoEffect DEF StopSignal, RaiseStop, HasRun
    <3>2. CASE StopJoin(c)
      BY <1>0, <2>1, <3>2, GotoEffect DEF StopJoin, JoinTold
    <3>3. CASE StopEnter(c) \/ StopFinal(c)
      BY <3>3, GotoEffect, StoppedEffect DEF StopEnter, StopFinal
    <3> QED BY <3>1, <3>2, <3>3
  <2> QED BY <1>2, <2>1, <2>2, <2>3 DEF JoinTold
<1>8. DoneTold'
  <2>1. \A u \in call'[c].done : u \in call[c].done \/ (u = r /\ Told(u)')
    <3>1. CASE StopEnter(c)
      <4>1. CASE StopReturnsEarly(r)
        <5>1. Told(r)
          BY <1>0, <4>1 DEF StopReturnsEarly, MarkedTold
        <5> QED BY <1>0, <3>1, <4>1, <5>1, StoppedEffect DEF StopEnter
      <4>2. CASE ~StopReturnsEarly(r)
        BY <1>0, <3>1, <4>2, GotoEffect DEF StopEnter
      <4> QED BY <4>1, <4>2
    <3>2. CASE StopSignal(c) \/ StopJoin(c)
      BY <3>2, GotoEffect DEF StopSignal, StopJoin
    <3>3. CASE StopFinal(c)
      <4>1. Told(r)
        BY <1>0, <3>3 DEF StopFinal, JoinTold, Told
      <4> QED BY <1>0, <3>3, <4>1, StoppedEffect DEF StopFinal
    <3> QED BY <3>1, <3>2, <3>3
  <2> QED BY <1>2, <2>1 DEF DoneTold, Call
<1>9. GoneTold'
  BY <1>1 DEF GoneTold
<1> QED BY <1>4, <1>5, <1>6, <1>7, <1>8, <1>9

\* The steps of kill and square-off, and the pop: what leaves the registry is
\* in "done", and what a kill no longer finds there has left it before.
LEMMA SweepTold ==
  ASSUME TypeInv, ToldInv, NEW c \in Callers, Continue(c),
         KillNext(c) \/ Pop(c) \/ SquareNext(c) \/ SquareDone(c),
         \A u \in Runners : Told(u) => Told(u)'
  PROVE  ToldInv'
<1> USE DEF TypeInv, TypeOK, RunnerTypeOK, ToldInv
<1>1. UNCHANGED <<rstate, stopEvent, tick>> /\ registered' \subseteq registered
  BY DEF KillNext, Pop, SquareNext, SquareOff, SquareDone, runnerVars
<1>2. /\ HasRun(c)' => call'[c].run \in registered
      /\ call'[c].todo \subseteq call[c].todo
      /\ call'[c].at \notin {"join", "final"}
      /\ \A d \in Callers \ {c} : call'[d] = call[d]
  <2>1. \A d \in Callers \ {c} : call'[d] = call[d]
    BY CallFrame
  <2>2. CASE KillNext(c)
    BY <2>1, <2>2 DEF KillNext, HasRun
  <2>3. CASE Pop(c) \/ SquareDone(c)
    BY <2>1, <2>3, ReturnEffect DEF Pop, SquareDone, HasRun
  <2>4. CASE SquareNext(c)
    BY <2>1, <2>4 DEF SquareNext, HasRun, Call
  <2> QED BY <2>2, <2>3, <2>4
<1>3. \A u \in call'[c].done : u \in Runners /\ Told(u)
  <2>1. CASE KillNext(c)
    BY <2>1 DEF KillNext, Constructed, GoneTold, DoneTold, Call
  <2>2. CASE Pop(c) \/ SquareNext(c) \/ SquareDone(c)
    BY <2>2, ReturnEffect DEF Pop, SquareNext, SquareDone, DoneTold, Call
  <2> QED BY <2>1, <2>2
<1>4. Constructed'
  BY <1>1, <1>2 DEF Constructed, HasRun, RunsOK, Call
<1>5. MarkedTold' /\ ExitTold'
  BY <1>1 DEF MarkedTold, ExitTold
<1>6. JoinTold' /\ DoneTold'
  BY <1>1, <1>2, <1>3 DEF JoinTold, DoneTold, Call
<1>7. GoneTold'
  <2>1. \A u \in registered \ registered' : Told(u)
    BY DEF KillNext, Pop, SquareNext, SquareDone, DoneTold
  <2> QED BY <1>1, <2>1 DEF GoneTold
<1> QED BY <1>4, <1>5, <1>6, <1>7

LEMMA NextTold == TypeInv /\ ToldInv /\ [Next]_vars => ToldInv'
<1> SUFFICES ASSUME TypeInv, ToldInv, [Next]_vars PROVE ToldInv'
  OBVIOUS
<1>1. \A u \in Runners : Told(u) => Told(u)'
  BY ToldStable
<1>2. ASSUME NEW r \in Runners, TickThread(r), UNCHANGED engineVars PROVE ToldInv'
  BY <1>2, TickTold
<1>3. ASSUME NEW c \in Callers, NewCall(c) PROVE ToldInv'
  BY <1>3, NewCallTold
<1>4. ASSUME NEW c \in Callers, Continue(c) PROVE ToldInv'
  BY <1>1, <1>4, DeployPauseTold, StopTold, SweepTold DEF Continue
<1>5. CASE UNCHANGED vars
  BY <1>5 DEF ToldInv, Constructed, HasRun, MarkedTold, ExitTold, JoinTold, DoneTold,
     GoneTold, Told, StopUnderWay, vars, runnerVars, engineVars
<1> QED BY <1>2, <1>3, <1>4, <1>5 DEF Next

(***************************************************************************)
(* A trading thread that is not in the registry has been told to stop.     *)
(***************************************************************************)
THEOREM NoOrphanHolds == Spec => []NoOrphan
<1>1. Init => ToldInv
  BY DEF Init, RunnerInit, Idle, ToldInv, Constructed, HasRun, MarkedTold, ExitTold,
     JoinTold, DoneTold, GoneTold
<1>2. TypeInv /\ ToldInv => NoOrphan
  BY DEF ToldInv, Constructed, GoneTold, Told, NoOrphan, Alive
<1>3. Spec => [](TypeInv /\ ToldInv)
  BY <1>1, InitType, NextType, NextTold, PTL DEF Spec
<1> QED BY <1>2, <1>3, PTL

-----------------------------------------------------------------------------
(***************************************************************************)
(* Two invariants that are inductive as they stand, given the types.       *)
(***************************************************************************)
\* A runner is started once, and after TickExit the state is only written by
\* stop(): pause, resume and start see a state from which they do nothing.
LEMMA NextDead ==
  ASSUME TypeInv, Constructed, DeadNeverLooksAlive, [Next]_vars
  PROVE  DeadNeverLooksAlive'
<1> USE DEF TypeInv, TypeOK, RunnerTypeOK, DeadNeverLooksAlive
<1>1. ASSUME NEW r \in Runners, TickThread(r) PROVE DeadNeverLooksAlive'
  BY <1>1 DEF TickThread, TickBegin, LoopTest, PauseTest, Bar, BarFails, TickExit, At,
     RunnerState
<1>2. ASSUME NEW c \in Callers, NewCall(c) PROVE DeadNeverLooksAlive'
  BY <1>2 DEF NewCall, DeployRegister, Construct, Lookup, KillEnter, SquareEnter, runnerVars
<1>3. ASSUME NEW c \in Callers, Continue(c) PROVE DeadNeverLooksAlive'
  <2>1. CASE DeployStart(c) \/ DeploySpawn(c) \/ PauseCall(c) \/ ResumeCall(c)
    BY <2>1 DEF DeployStart, CanStart, MarkStarting, DeploySpawn, Spawn, PauseCall,
       Pause, ResumeCall, Resume, runnerVars
  <2>2. CASE StopEnter(c) \/ StopSignal(c) \/ StopJoin(c) \/ StopFinal(c)
    BY <2>2 DEF StopEnter, MarkStopping, StopSignal, RaiseStop, StopJoin, StopFinal,
       MarkStopped, runnerVars
  <2>3. CASE KillNext(c) \/ Pop(c) \/ SquareNext(c) \/ SquareDone(c)
    BY <2>3 DEF KillNext, Pop, SquareNext, SquareOff, SquareDone, runnerVars
  <2> QED BY <1>3, <2>1, <2>2, <2>3 DEF Continue
<1>4. CASE UNCHANGED vars
  BY <1>4 DEF vars, runnerVars
<1> QED BY <1>1, <1>2, <1>3, <1>4 DEF Next

(***************************************************************************)
(* A runner whose thread has died never shows as running or paused.        *)
(***************************************************************************)
THEOREM DeadNeverLooksAliveHolds == Spec => []DeadNeverLooksAlive
<1>1. Init => ToldInv /\ DeadNeverLooksAlive
  BY DEF Init, RunnerInit, Idle, ToldInv, Constructed, HasRun, MarkedTold, ExitTold,
     JoinTold, DoneTold, GoneTold, DeadNeverLooksAlive
<1>2. TypeInv /\ ToldInv /\ DeadNeverLooksAlive /\ [Next]_vars
        => DeadNeverLooksAlive'
  BY NextDead DEF ToldInv
<1> QED BY <1>1, <1>2, InitType, NextType, NextTold, PTL DEF Spec

\* The registry and the engine's state are written together, by deploy and pop.
LEMMA NextHonest ==
  ASSUME TypeInv, EngineStateHonest, [Next]_vars
  PROVE  EngineStateHonest'
<1> USE DEF TypeInv, TypeOK, EngineStateHonest
<1>1. ASSUME NEW r \in Runners, UNCHANGED engineVars PROVE EngineStateHonest'
  BY <1>1 DEF engineVars
<1>2. ASSUME NEW c \in Callers, NewCall(c) PROVE EngineStateHonest'
  BY <1>2 DEF NewCall, DeployRegister, Lookup, KillEnter, SquareEnter
<1>3. ASSUME NEW c \in Callers, Continue(c) PROVE EngineStateHonest'
  BY <1>3 DEF Continue, DeployStart, DeploySpawn, PauseCall, ResumeCall, StopEnter,
     StopSignal, StopJoin, StopFinal, KillNext, Pop, SquareNext, SquareDone
<1>4. CASE UNCHANGED vars
  BY <1>4 DEF vars, engineVars
<1> QED BY <1>1, <1>2, <1>3, <1>4 DEF Next

(***************************************************************************)
(* "idle" means that nothing is deployed, "running" that something is.     *)
(***************************************************************************)
THEOREM EngineStateHonestHolds == Spec => []EngineStateHonest
<1>1. Init => EngineStateHonest
  BY DEF Init, EngineStateHonest
<1>2. TypeInv /\ EngineStateHonest /\ [Next]_vars => EngineStateHonest'
  BY NextHonest
<1> QED BY <1>1, <1>2, InitType, NextType, PTL DEF Spec

-----------------------------------------------------------------------------
(***************************************************************************)
(* The engine implements RunnerContract.  What a step does to the phase of *)
(* a runner follows from the runner's own variables, but for one fact of   *)
(* the engine: a thread is launched once.                                  *)
(***************************************************************************)
Launching(c) == call[c].at \in {"start", "spawn"}

LaunchOnce ==
  /\ \A c \in Callers : Launching(c) => tick[call[c].run] = "none"
  /\ \A c, d \in Callers :
       Launching(c) /\ Launching(d) /\ call[c].run = call[d].run => c = d

LEMMA NextLaunch ==
  ASSUME TypeInv, Constructed, LaunchOnce, [Next]_vars
  PROVE  LaunchOnce'
<1> USE DEF TypeInv, TypeOK, RunnerTypeOK
<1>0. \A c \in Callers : Launching(c) => call[c].run \in Runners /\ rstate[call[c].run] # "none"
  BY DEF Launching, HasRun, RunsOK, Constructed
<1>1. ASSUME NEW r \in Runners, TickThread(r), UNCHANGED engineVars PROVE LaunchOnce'
  BY <1>0, <1>1 DEF TickThread, TickBegin, LoopTest, PauseTest, Bar, BarFails, TickExit,
     At, LaunchOnce, Launching, engineVars
<1>2. ASSUME NEW c \in Callers, NewCall(c) PROVE LaunchOnce'
  <2>1. CASE DeployRegister(c)
    <3>1. PICK r \in Runners : Enter(c, "deploy", "start", r, {}) /\ Construct(r)
      BY <2>1 DEF DeployRegister
    <3>2. tick[r] = "none" /\ tick' = tick /\ call'[c].run = r
      BY <3>1 DEF Construct, Constructed, Enter
    <3>3. \A d \in Callers \ {c} : call'[d] = call[d] /\ (Launching(d) => call[d].run # r)
      BY <1>0, <3>1 DEF Enter, Construct
    <3> QED BY <3>2, <3>3 DEF LaunchOnce, Launching
  <2>2. CASE Lookup(c) \/ KillEnter(c) \/ SquareEnter(c)
    BY <2>2 DEF Lookup, KillEnter, SquareEnter, Enter, LaunchOnce, Launching, runnerVars
  <2> QED BY <1>2, <2>1, <2>2 DEF NewCall
<1>3. ASSUME NEW c \in Callers, Continue(c) PROVE LaunchOnce'
  <2>1. \A d \in Callers \ {c} : call'[d] = call[d]
    BY <1>3, CallFrame
  <2>2. CASE DeploySpawn(c)
    BY <1>0, <2>1, <2>2, ReturnEffect DEF DeploySpawn, Spawn, LaunchOnce, Launching
  <2>3. CASE ~DeploySpawn(c)
    <3>1. tick' = tick
      BY <1>3, <2>3 DEF Continue, DeployStart, MarkStarting, PauseCall, Pause, ResumeCall,
         Resume, StopEnter, MarkStopping, StopSignal, RaiseStop, StopJoin, StopFinal,
         MarkStopped, KillNext, Pop, SquareNext, SquareOff, SquareDone, runnerVars
    <3>2. Launching(c)' => Launching(c) /\ call'[c].run = call[c].run
      <4>1. CASE DeployStart(c)
        BY <4>1, GotoEffect, ReturnEffect DEF DeployStart, Launching
      <4>2. CASE PauseCall(c) \/ ResumeCall(c) \/ Pop(c) \/ SquareDone(c)
        BY <4>2, ReturnEffect DEF PauseCall, ResumeCall, Pop, SquareDone, Launching
      <4>3. CASE StopEnter(c) \/ StopSignal(c) \/ StopJoin(c) \/ StopFinal(c)
        BY <4>3, GotoEffect, StoppedEffect DEF StopEnter, StopSignal, StopJoin, StopFinal,
           Launching
      <4>4. CASE KillNext(c)
        BY <4>4 DEF KillNext, Launching
      <4>5. CASE SquareNext(c)
        BY <4>5 DEF SquareNext, Launching, Call
      <4> QED BY <1>3, <2>3, <4>1, <4>2, <4>3, <4>4, <4>5 DEF Continue
    <3> QED BY <2>1, <3>1, <3>2 DEF LaunchOnce, Launching
  <2> QED BY <2>2, <2>3
<1>4. CASE UNCHANGED vars
  BY <1>4 DEF LaunchOnce, Launching, vars, runnerVars, engineVars
<1> QED BY <1>1, <1>2, <1>3, <1>4 DEF Next

phases == [r \in Runners |-> Phase(r)]

\* A step that moves no runner from one phase to another is a stutter.
LEMMA SamePhases ==
  ASSUME UNCHANGED <<tick, stopEvent>>
  PROVE  UNCHANGED phases
BY DEF phases, Phase

\* A step that touches one runner and moves it along an edge of the contract.
LEMMA OneMoves ==
  ASSUME NEW r \in Runners, TypeInv,
         \A u \in Runners \ {r} : tick'[u] = tick[u] /\ stopEvent'[u] = stopEvent[u],
         \/ Phase(r)' = Phase(r)
         \/ Phase(r) = "idle" /\ Phase(r)' \in {"working", "closing"}
         \/ Phase(r) = "working" /\ Phase(r)' \in {"closing", "last", "done"}
         \/ Phase(r) = "last" /\ Phase(r)' = "closing"
         \/ Phase(r) = "closing" /\ Phase(r)' = "done"
  PROVE  [Contract!Next]_phases
<1>1. phases' = [phases EXCEPT ![r] = Phase(r)']
  BY ZenonT(60) DEF phases, Phase
<1>2. phases[r] = Phase(r)
  BY DEF phases
<1>3. CASE Phase(r)' = Phase(r)
  BY <1>1, <1>2, <1>3 DEF phases
<1>4. CASE Phase(r) = "idle" /\ Phase(r)' = "working"
  BY <1>1, <1>2, <1>4 DEF phases, Contract!Next, Contract!Launch, Contract!Move
<1>5. CASE Phase(r) \in {"idle", "working"} /\ Phase(r)' = "closing"
  BY <1>1, <1>2, <1>5 DEF phases, Contract!Next, Contract!Ask, Contract!Move
<1>6. CASE Phase(r) = "working" /\ Phase(r)' = "last"
  BY <1>1, <1>2, <1>6 DEF phases, Contract!Next, Contract!AskLate, Contract!Move
<1>7. CASE Phase(r) = "last" /\ Phase(r)' = "closing"
  BY <1>1, <1>2, <1>7 DEF phases, Contract!Next, Contract!LastBar, Contract!Move
<1>8. CASE Phase(r) \in {"working", "closing"} /\ Phase(r)' = "done"
  BY <1>1, <1>2, <1>8 DEF phases, Contract!Next, Contract!Finish, Contract!Move
<1> QED BY <1>3, <1>4, <1>5, <1>6, <1>7, <1>8

LEMMA StepContract ==
  ASSUME TypeInv, LaunchOnce, [Next]_vars
  PROVE  [Contract!Next]_phases
<1>1. ASSUME NEW r \in Runners, TickThread(r) PROVE [Contract!Next]_phases
  BY <1>1, OneMoves, ZenonT(60) DEF TickThread, TickBegin, LoopTest, PauseTest, Bar, BarFails,
     TickExit, At, Phase, TypeInv, TypeOK, RunnerTypeOK
<1>2. ASSUME NEW c \in Callers, NewCall(c) \/ Continue(c) PROVE [Contract!Next]_phases
  <2>1. CASE DeploySpawn(c)
    <3>1. PICK r \in Runners : r = call[c].run
      BY <2>1 DEF DeploySpawn, TypeInv, RunsOK, HasRun
    <3>2. tick[r] = "none"
      BY <2>1, <3>1 DEF DeploySpawn, LaunchOnce, Launching
    <3> QED BY <2>1, <3>1, <3>2, OneMoves
            DEF DeploySpawn, Spawn, Phase, TypeInv, TypeOK, RunnerTypeOK
  <2>2. CASE StopSignal(c)
    <3>1. PICK r \in Runners : r = call[c].run
      BY <2>2 DEF StopSignal, TypeInv, RunsOK, HasRun
    <3> QED BY <2>2, <3>1, OneMoves
            DEF StopSignal, RaiseStop, Phase, TypeInv, TypeOK, RunnerTypeOK, TickPC
  <2>3. CASE ~DeploySpawn(c) /\ ~StopSignal(c)
    <3>1. UNCHANGED <<tick, stopEvent>>
      BY <1>2, <2>3 DEF NewCall, DeployRegister, Construct, Lookup, KillEnter,
         SquareEnter, Continue, DeployStart, MarkStarting, PauseCall, Pause, ResumeCall,
         Resume, StopEnter, MarkStopping, StopJoin, StopFinal, MarkStopped, KillNext,
         Pop, SquareNext, SquareOff, SquareDone, runnerVars
    <3> QED BY <3>1, SamePhases
  <2> QED BY <2>1, <2>2, <2>3
<1>3. CASE UNCHANGED vars
  BY <1>3, SamePhases DEF vars, runnerVars
<1> QED BY <1>1, <1>2, <1>3 DEF Next

(***************************************************************************)
(* A request to stop is never taken back, at most one more bar begins      *)
(* after it, and a thread runs once.                                       *)
(***************************************************************************)
THEOREM ContractHolds == Spec => ContractSpec
<1>1. Init => Contract!Init
  BY DEF Init, RunnerInit, Contract!Init, Phase
<1>2. Init => ToldInv /\ LaunchOnce
  BY DEF Init, RunnerInit, Idle, ToldInv, Constructed, HasRun, MarkedTold, ExitTold,
     JoinTold, DoneTold, GoneTold, LaunchOnce, Launching
<1>3. TypeInv /\ ToldInv /\ LaunchOnce /\ [Next]_vars => LaunchOnce'
  BY NextLaunch DEF ToldInv
<1>4. TypeInv /\ LaunchOnce /\ [Next]_vars => [Contract!Next]_phases
  BY StepContract
<1> QED BY <1>1, <1>2, <1>3, <1>4, InitType, NextType, NextTold, PTL
        DEF Spec, ContractSpec, Contract!Spec, phases
=============================================================================
