-------------------------- MODULE LiveExecutor_proofs --------------------------
(***************************************************************************)
(* Proofs about LiveExecutor, for any number of executors, threads and     *)
(* signals, and any cap, threshold and number of restarts.                 *)
(***************************************************************************)
EXTENDS LiveExecutor, FiniteSetTheorems, TLAPS

-----------------------------------------------------------------------------
(***************************************************************************)
(* Type correctness.                                                       *)
(***************************************************************************)
LEMMA InitType == Init => TypeOK
BY ExecutorAssumption DEF Init, TypeOK, PC

\* A thread inside place_order() keeps every variable within its type.
LEMMA PlaceOrderType ==
  ASSUME TypeOK, NEW t \in Threads, PlaceOrder(t)
  PROVE  TypeOK'
<1> USE ExecutorAssumption DEF TypeOK, Goto, PC, breakerVars, tableVars
<1>1. CASE Gate(t)
  BY <1>1 DEF Gate
<1>2. CASE Limits(t)
  BY <1>2 DEF Limits
<1>3. CASE Acknowledged(t) \/ Failed(t) \/ FailedQuietly(t)
  <2>1. accepted' \in [Signals -> 0..2]
    <3>1. CASE Take(t)
      BY <3>1 DEF Take
    <3>2. CASE UNCHANGED accepted
      BY <3>2
    <3> QED BY <1>3, <3>1, <3>2 DEF Acknowledged, Failed, FailedQuietly
  <2>2. failures' \in [Executors -> Nat]
    BY <1>3 DEF Acknowledged, Failed, FailedQuietly
  <2>3. at' \in [Threads -> PC]
    BY <1>3 DEF Acknowledged, Failed, FailedQuietly
  <2> QED BY <1>3, <2>1, <2>2, <2>3 DEF Acknowledged, Failed, FailedQuietly
<1>4. CASE Trip(t)
  BY <1>4 DEF Trip
<1>5. CASE Register(t)
  BY <1>5 DEF Register
<1>6. CASE Persist(t)
  BY <1>6 DEF Persist, Insert
<1>7. CASE Count(t)
  BY <1>7 DEF Count
<1> QED BY <1>1, <1>2, <1>3, <1>4, <1>5, <1>6, <1>7 DEF PlaceOrder

\* A new executor is built within the types, and without a trace of the old.
LEMMA BuiltType ==
  ASSUME TypeOK, NEW es, Built(es)
  PROVE  /\ dbOpen' \in [Executors -> BOOLEAN] /\ stored' = stored /\ recent' = recent
         /\ placed' \in [Executors -> SUBSET Signals] /\ known' \in [Executors -> SUBSET Signals]
         /\ failures' \in [Executors -> Nat] /\ circuitOpen' \in [Executors -> BOOLEAN]
         /\ resetting' \in [Executors -> BOOLEAN]
         /\ crashes' \in 0..MaxCrashes /\ accepted' = accepted
<1> USE ExecutorAssumption DEF Built
<1>1. dbOpen' \in [Executors -> BOOLEAN]
  OBVIOUS
<1>2. \A e \in Executors : InitDB(e) \in SUBSET Signals
  BY <1>1 DEF TypeOK, InitDB
<1>3. placed' \in [Executors -> SUBSET Signals] /\ known' \in [Executors -> SUBSET Signals]
  BY <1>1, <1>2 DEF TypeOK
<1>4. /\ failures' \in [Executors -> Nat] /\ circuitOpen' \in [Executors -> BOOLEAN]
      /\ resetting' \in [Executors -> BOOLEAN] /\ crashes' \in 0..MaxCrashes
  BY DEF TypeOK
<1> QED BY <1>1, <1>3, <1>4

LEMMA NextType == TypeOK /\ [Next]_vars => TypeOK'
<1> SUFFICES ASSUME TypeOK, [Next]_vars PROVE TypeOK'
  OBVIOUS
<1> USE ExecutorAssumption DEF TypeOK, Goto, PC, breakerVars, tableVars
<1>1. ASSUME NEW t \in Threads, Admit(t) PROVE TypeOK'
  BY <1>1 DEF Admit
<1>2. ASSUME NEW t \in Threads, PlaceOrder(t) PROVE TypeOK'
  BY <1>2, PlaceOrderType
<1>3. ASSUME NEW e \in Executors, ResetBreaker(e) \/ ResetFailures(e) PROVE TypeOK'
  <2>1. CASE ResetBreaker(e)
    BY <2>1 DEF ResetBreaker
  <2>2. CASE ResetFailures(e)
    BY <2>2 DEF ResetFailures
  <2> QED BY <1>3, <2>1, <2>2
<1>4. CASE Age \/ ExpireOldKeys
  BY <1>4 DEF Age, ExpireOldKeys
<1>5. CASE NewDay
  BY <1>5 DEF NewDay
<1>6. CASE Restart
  BY <1>6, BuiltType DEF Restart
<1>7. ASSUME NEW e \in Executors, Redeploy(e) PROVE TypeOK'
  BY <1>7, BuiltType DEF Redeploy
<1>8. CASE UNCHANGED vars
  BY <1>8 DEF vars
<1> QED BY <1>1, <1>2, <1>3, <1>4, <1>5, <1>6, <1>7, <1>8 DEF Next

(***************************************************************************)
(* Every variable stays within its type.                                   *)
(***************************************************************************)
THEOREM TypeCorrect == Spec => []TypeOK
BY InitType, NextType, PTL DEF Spec

-----------------------------------------------------------------------------
(***************************************************************************)
(* The overshoot of the cap.  The property is inductive by itself: an      *)
(* order comes under way below the cap, when the others that are under way *)
(* are at most all threads; from there it only moves into the count.       *)
(***************************************************************************)
\* How many orders are under way is a number, at most that of the threads.
LEMMA InFlightBound ==
  /\ IsFiniteSet(InFlight)
  /\ Cardinality(InFlight) \in Nat
  /\ Cardinality(Threads) \in Nat \ {0}
  /\ Cardinality(InFlight) <= Cardinality(Threads)
<1>1. InFlight \subseteq Threads
  BY DEF InFlight
<1>2. Cardinality(Threads) \in Nat /\ Cardinality(Threads) # 0
  BY ExecutorAssumption, FS_CardinalityType, FS_EmptySet
<1> QED BY <1>1, <1>2, ExecutorAssumption, FS_Subset, FS_CardinalityType

\* No more are under way than before, when none has come to be.
LEMMA InFlightShrinks ==
  ASSUME InFlight' \subseteq InFlight
  PROVE  /\ Cardinality(InFlight') \in Nat
         /\ Cardinality(InFlight') <= Cardinality(InFlight)
BY InFlightBound, FS_Subset, FS_CardinalityType

LEMMA CapStep ==
  ASSUME TypeOK, CapOvershoot, [Next]_vars
  PROVE  CapOvershoot'
<1> USE ExecutorAssumption, InFlightBound DEF TypeOK
<1>1. ASSUME NEW t \in Threads, Limits(t), at'[t] = "send" PROVE CapOvershoot'
  <2>1. trades < MaxTrades /\ trades' = trades
    BY <1>1 DEF Limits, Goto, CapReached
  <2>2. InFlight' \subseteq Threads
    BY DEF InFlight
  <2>3. Cardinality(InFlight') \in Nat /\ Cardinality(InFlight') <= Cardinality(Threads)
    BY <2>2, FS_Subset, FS_CardinalityType
  <2> QED BY <2>1, <2>3 DEF CapOvershoot
<1>2. ASSUME NEW t \in Threads, Count(t) PROVE CapOvershoot'
  <2>1. t \in InFlight /\ InFlight' = InFlight \ {t}
    BY <1>2 DEF Count, Goto, InFlight
  <2>2. Cardinality(InFlight') = Cardinality(InFlight) - 1
    BY <2>1, FS_RemoveElement
  <2>3. trades' = trades + 1
    BY <1>2 DEF Count
  <2> QED BY <2>2, <2>3 DEF CapOvershoot
<1>3. ASSUME InFlight' \subseteq InFlight, trades' = trades PROVE CapOvershoot'
  BY <1>3, InFlightShrinks DEF CapOvershoot
<1>4. ASSUME InFlight' \subseteq InFlight, trades' = 0 PROVE CapOvershoot'
  BY <1>4, InFlightShrinks DEF CapOvershoot
<1>5. ASSUME NEW t \in Threads, Admit(t) PROVE CapOvershoot'
  BY <1>3, <1>5 DEF Admit, Goto, InFlight
<1>6. ASSUME NEW t \in Threads, PlaceOrder(t) PROVE CapOvershoot'
  <2>1. CASE Gate(t) \/ Trip(t)
    BY <1>3, <2>1 DEF Gate, Trip, Goto, InFlight
  <2>2. CASE Limits(t)
    BY <1>1, <1>3, <2>2 DEF Limits, Goto, InFlight
  <2>3. CASE Acknowledged(t) \/ Failed(t) \/ FailedQuietly(t)
    BY <1>3, <2>3 DEF Acknowledged, Failed, FailedQuietly, Goto, InFlight
  <2>4. CASE Register(t) \/ Persist(t)
    BY <1>3, <2>4 DEF Register, Persist, Goto, InFlight
  <2> QED BY <1>2, <1>6, <2>1, <2>2, <2>3, <2>4 DEF PlaceOrder
<1>7. ASSUME NEW e \in Executors, ResetBreaker(e) \/ ResetFailures(e) \/ Redeploy(e)
      PROVE  CapOvershoot'
  BY <1>3, <1>7 DEF ResetBreaker, ResetFailures, Redeploy, InFlight
<1>8. CASE NewDay
  BY <1>4, <1>8 DEF NewDay, InFlight
<1>9. CASE Restart
  BY <1>4, <1>9 DEF Restart, InFlight
<1>10. CASE Age \/ ExpireOldKeys \/ UNCHANGED vars
  BY <1>3, <1>10 DEF Age, ExpireOldKeys, vars, InFlight
<1> QED BY <1>5, <1>6, <1>7, <1>8, <1>9, <1>10 DEF Next

(***************************************************************************)
(* The daily cap is passed by fewer orders than there are threads, those   *)
(* that are under way included.                                            *)
(***************************************************************************)
THEOREM CapOvershootHolds == Spec => []CapOvershoot
<1>1. Init => CapOvershoot
  <2> SUFFICES ASSUME Init PROVE CapOvershoot
    OBVIOUS
  <2>1. InFlight = {}
    BY DEF Init, InFlight
  <2> QED BY <2>1, InFlightBound, ExecutorAssumption, FS_EmptySet DEF Init, CapOvershoot
<1>2. TypeOK /\ CapOvershoot /\ [Next]_vars => CapOvershoot'
  BY CapStep
<1> QED BY <1>1, <1>2, InitType, NextType, PTL DEF Spec

-----------------------------------------------------------------------------
(***************************************************************************)
(* The circuit breaker.                                                    *)
(***************************************************************************)
LEMMA BreakerStep ==
  ASSUME TypeOK, BreakerArmed, [Next]_vars
  PROVE  BreakerArmed'
<1> USE ExecutorAssumption DEF TypeOK, BreakerArmed, ThreadsAt, Goto, breakerVars, tableVars
<1>1. ASSUME NEW t \in Threads, Admit(t) PROVE BreakerArmed'
  BY <1>1 DEF Admit
<1>2. ASSUME NEW t \in Threads, PlaceOrder(t) PROVE BreakerArmed'
  <2>1. CASE Gate(t) \/ Limits(t) \/ Acknowledged(t) \/ FailedQuietly(t)
    BY <2>1 DEF Gate, Limits, Acknowledged, FailedQuietly
  <2>2. CASE Failed(t)
    <3>1. t \in ThreadsAt(ExecutorOf[t], {"trip"})'
      BY <2>2 DEF Failed
    <3>2. ASSUME NEW e \in Executors, e # ExecutorOf[t]
          PROVE  /\ failures'[e] = failures[e]
                 /\ ThreadsAt(e, {"trip"})' = ThreadsAt(e, {"trip"})
      BY <2>2, <3>2 DEF Failed
    <3> QED BY <2>2, <3>1, <3>2 DEF Failed
  <2>3. CASE Trip(t)
    <3>1. ASSUME NEW e \in Executors, e # ExecutorOf[t]
          PROVE  /\ circuitOpen'[e] = circuitOpen[e]
                 /\ ThreadsAt(e, {"trip"})' = ThreadsAt(e, {"trip"})
      BY <2>3, <3>1 DEF Trip
    <3>2. failures'[ExecutorOf[t]] >= Threshold => circuitOpen'[ExecutorOf[t]]
      BY <2>3 DEF Trip
    <3> QED BY <2>3, <3>1, <3>2 DEF Trip
  <2>4. CASE Register(t) \/ Count(t)
    BY <2>4 DEF Register, Count
  <2>5. CASE Persist(t)
    BY <2>5 DEF Persist
  <2> QED BY <1>2, <2>1, <2>2, <2>3, <2>4, <2>5 DEF PlaceOrder
<1>3. ASSUME NEW e \in Executors, ResetBreaker(e) PROVE BreakerArmed'
  BY <1>3 DEF ResetBreaker
<1>4. ASSUME NEW e \in Executors, ResetFailures(e) PROVE BreakerArmed'
  BY <1>4 DEF ResetFailures
<1>5. CASE NewDay \/ Age \/ ExpireOldKeys
  BY <1>5 DEF NewDay, Age, ExpireOldKeys
<1>6. CASE Restart
  BY <1>6 DEF Restart, Built
<1>7. ASSUME NEW e \in Executors, Redeploy(e) PROVE BreakerArmed'
  <2>1. \A d \in Executors : d # e => UNCHANGED <<failures[d], circuitOpen[d], resetting[d]>>
    BY <1>7 DEF Redeploy, Built
  <2>2. failures'[e] = 0 /\ UNCHANGED at
    BY <1>7 DEF Redeploy, Built
  <2> QED BY <2>1, <2>2
<1>8. CASE UNCHANGED vars
  BY <1>8 DEF vars
<1> QED BY <1>1, <1>2, <1>3, <1>4, <1>5, <1>6, <1>7, <1>8 DEF Next

(***************************************************************************)
(* A count of failures at the threshold has opened the breaker, or a       *)
(* thread of the executor is about to, or a reset is half way.             *)
(***************************************************************************)
THEOREM BreakerArmedHolds == Spec => []BreakerArmed
<1>1. Init => BreakerArmed
  BY ExecutorAssumption DEF Init, BreakerArmed
<1>2. TypeOK /\ BreakerArmed /\ [Next]_vars => BreakerArmed'
  BY BreakerStep
<1> QED BY <1>1, <1>2, InitType, NextType, PTL DEF Spec

-----------------------------------------------------------------------------
(***************************************************************************)
(* The table of keys.  What an executor knows of the table it also has in  *)
(* its memory, and a thread on its way to the broker has passed that       *)
(* memory; only a thread of the same executor could have added its key to  *)
(* it since, and the executor has one tick thread.                         *)
(***************************************************************************)
\* A thread that is inside place_order() has a key of its own.
OwnKey ==
  \A t \in Threads : at[t] # "idle" => key[t] \in Emits[t] \cup {NoSignal}

\* What an executor knows of the table, it remembers.
Remembered ==
  \A e \in Executors : known[e] \subseteq placed[e]

\* A thread that is not past the broker's call has a key new to its executor.
FreshKey ==
  \A t \in Threads :
    at[t] \in {"gate", "limits", "send"} => key[t] \notin known[ExecutorOf[t]]

\* A key goes to the memory before it goes to the table.
MemoryFirst ==
  \A t \in Threads :
    at[t] = "persist" => key[t] \in placed[ExecutorOf[t]] \cup {NoSignal}

KeyInv == OwnKey /\ Remembered /\ FreshKey /\ MemoryFirst

LEMMA InitKeys == Init => KeyInv
BY ExecutorAssumption DEF Init, KeyInv, OwnKey, Remembered, FreshKey, MemoryFirst

\* The steps between the first test of the key and the answer, and the last
\* one: they move the thread and leave keys, memory and table alone.
LEMMA MoveKeys ==
  ASSUME TypeOK, KeyInv, NEW t \in Threads, NEW pc \in PC, Goto(t, pc), at[t] # "idle",
         pc \in {"gate", "limits", "send"} => at[t] \in {"gate", "limits", "send"},
         pc # "persist", placed' = placed, known' = known, key' = key
  PROVE  KeyInv'
<1> USE ExecutorAssumption DEF TypeOK, KeyInv, Goto
<1>1. \A u \in Threads \ {t} : at'[u] = at[u]
  OBVIOUS
<1>2. at'[t] = pc
  OBVIOUS
<1>3. OwnKey'
  BY <1>1, <1>2 DEF OwnKey
<1>4. Remembered'
  BY DEF Remembered
<1>5. FreshKey'
  BY <1>1, <1>2 DEF FreshKey
<1>6. MemoryFirst'
  BY <1>1, <1>2 DEF MemoryFirst
<1> QED BY <1>3, <1>4, <1>5, <1>6

LEMMA AdmitKeys ==
  ASSUME TypeOK, KeyInv, NEW t \in Threads, Admit(t)
  PROVE  KeyInv'
<1> USE ExecutorAssumption DEF TypeOK, KeyInv, Goto
<1>1. PICK k \in IF Emits[t] = {} THEN {NoSignal} ELSE Emits[t] :
        k \notin placed[ExecutorOf[t]] /\ key' = [key EXCEPT ![t] = k]
  BY DEF Admit
<1>2. /\ at'[t] = "gate" /\ key'[t] = k /\ k \in Emits[t] \cup {NoSignal}
      /\ \A u \in Threads \ {t} : at'[u] = at[u] /\ key'[u] = key[u]
      /\ placed' = placed /\ known' = known
  BY <1>1 DEF Admit, tableVars
<1>3. k \notin known[ExecutorOf[t]]
  BY <1>1 DEF Remembered
<1>4. OwnKey'
  BY <1>2 DEF OwnKey
<1>5. Remembered'
  BY <1>2 DEF Remembered
<1>6. FreshKey'
  BY <1>2, <1>3 DEF FreshKey
<1>7. MemoryFirst'
  BY <1>2 DEF MemoryFirst
<1> QED BY <1>4, <1>5, <1>6, <1>7

LEMMA RegisterKeys ==
  ASSUME TypeOK, KeyInv, NEW t \in Threads, Register(t)
  PROVE  KeyInv'
<1> USE ExecutorAssumption DEF TypeOK, KeyInv, Goto, Register, tableVars
<1>1. /\ at'[t] = "persist"
      /\ \A u \in Threads \ {t} : at'[u] = at[u]
      /\ key' = key /\ known' = known
  OBVIOUS
<1>2. /\ \A e \in Executors : placed[e] \subseteq placed'[e]
      /\ key[t] \in placed'[ExecutorOf[t]] \cup {NoSignal}
  OBVIOUS
<1>3. OwnKey'
  BY <1>1 DEF OwnKey
<1>4. Remembered'
  BY <1>1, <1>2 DEF Remembered
<1>5. FreshKey'
  BY <1>1 DEF FreshKey
<1>6. MemoryFirst'
  BY <1>1, <1>2 DEF MemoryFirst
<1> QED BY <1>3, <1>4, <1>5, <1>6

\* The one step that adds to what an executor knows: no other thread of the
\* executor has, or gets, the key.
LEMMA PersistKeys ==
  ASSUME TypeOK, KeyInv, NEW t \in Threads, Persist(t)
  PROVE  KeyInv'
<1> USE ExecutorAssumption DEF TypeOK, KeyInv, Goto
<1>1. /\ at[t] = "persist" /\ at'[t] = "count"
      /\ \A u \in Threads \ {t} : at'[u] = at[u]
      /\ placed' = placed /\ key' = key
  BY DEF Persist
<1>2. /\ \A e \in Executors : e # ExecutorOf[t] => known'[e] = known[e]
      /\ known'[ExecutorOf[t]] \subseteq known[ExecutorOf[t]] \cup ({key[t]} \ {NoSignal})
  BY DEF Persist, Insert
<1>3. OwnKey'
  BY <1>1 DEF OwnKey
<1>4. Remembered'
  BY <1>1, <1>2 DEF Remembered, MemoryFirst
<1>5. FreshKey'
  <2> SUFFICES ASSUME NEW u \in Threads, at'[u] \in {"gate", "limits", "send"},
                      key'[u] \in known'[ExecutorOf[u]]
               PROVE  FALSE
    BY DEF FreshKey
  <2>1. u # t /\ at[u] \in {"gate", "limits", "send"} /\ key[u] \notin known[ExecutorOf[u]]
    BY <1>1 DEF FreshKey
  <2>2. ExecutorOf[u] = ExecutorOf[t] /\ key[u] = key[t] /\ key[t] # NoSignal
    BY <1>1, <1>2, <2>1
  <2>3. key[t] \in Emits[u] /\ key[t] \in Emits[t]
    BY <1>1, <2>1, <2>2 DEF OwnKey
  <2> QED BY <2>1, <2>2, <2>3
<1>6. MemoryFirst'
  BY <1>1 DEF MemoryFirst
<1> QED BY <1>3, <1>4, <1>5, <1>6

\* A new executor remembers what it has read, and none of its threads, which
\* have all been idle, has a key yet.
LEMMA BuiltKeys ==
  ASSUME TypeOK, KeyInv, NEW es \in SUBSET Executors, Built(es),
         \A t \in Threads : at'[t] = "idle" \/ (ExecutorOf[t] \notin es /\ at'[t] = at[t]),
         \A t \in Threads : at'[t] # "idle" => key'[t] = key[t]
  PROVE  KeyInv'
<1> USE ExecutorAssumption DEF KeyInv
<1>1. \A e \in Executors \ es : placed'[e] = placed[e] /\ known'[e] = known[e]
  BY DEF Built
<1>2. \A e \in es : placed'[e] = known'[e]
  BY DEF Built, InitDB
<1>3. OwnKey'
  BY DEF OwnKey
<1>4. Remembered'
  BY <1>1, <1>2 DEF Remembered
<1>5. FreshKey'
  BY <1>1 DEF FreshKey
<1>6. MemoryFirst'
  BY <1>1 DEF MemoryFirst
<1> QED BY <1>3, <1>4, <1>5, <1>6

LEMMA KeyStep ==
  ASSUME TypeOK, KeyInv, [Next]_vars
  PROVE  KeyInv'
<1> USE DEF breakerVars, tableVars
<1>1. ASSUME NEW t \in Threads, PlaceOrder(t) PROVE KeyInv'
  <2>1. CASE Gate(t)
    BY <2>1, MoveKeys DEF Gate, PC
  <2>2. CASE Limits(t)
    BY <2>2, MoveKeys DEF Limits, PC
  <2>3. CASE Acknowledged(t)
    BY <2>3, MoveKeys DEF Acknowledged, PC
  <2>4. CASE Failed(t)
    BY <2>4, MoveKeys DEF Failed, PC
  <2>5. CASE FailedQuietly(t)
    BY <2>5, MoveKeys DEF FailedQuietly, PC
  <2>6. CASE Trip(t)
    BY <2>6, MoveKeys DEF Trip, PC
  <2>7. CASE Count(t)
    BY <2>7, MoveKeys DEF Count, PC
  <2> QED BY <1>1, <2>1, <2>2, <2>3, <2>4, <2>5, <2>6, <2>7, RegisterKeys,
             PersistKeys DEF PlaceOrder
<1>2. ASSUME placed' = placed, known' = known, at' = at, key' = key PROVE KeyInv'
  BY <1>2 DEF KeyInv, OwnKey, Remembered, FreshKey, MemoryFirst
<1>3. CASE \E e \in Executors : ResetBreaker(e) \/ ResetFailures(e)
  BY <1>2, <1>3 DEF ResetBreaker, ResetFailures
<1>4. CASE Age \/ ExpireOldKeys \/ NewDay
  BY <1>2, <1>4 DEF Age, ExpireOldKeys, NewDay
<1>5. CASE Restart
  BY <1>5, BuiltKeys DEF Restart
<1>6. ASSUME NEW e \in Executors, Redeploy(e) PROVE KeyInv'
  <2>1. \A t \in Threads : at'[t] = "idle" \/ (ExecutorOf[t] \notin {e} /\ at'[t] = at[t])
    BY <1>6 DEF Redeploy, ThreadsAt, TypeOK
  <2> QED BY <1>6, <2>1, BuiltKeys DEF Redeploy
<1>7. CASE UNCHANGED vars
  BY <1>2, <1>7 DEF vars
<1> QED BY <1>1, <1>3, <1>4, <1>5, <1>6, <1>7, AdmitKeys DEF Next

(***************************************************************************)
(* No thread is at the broker's call with a key that its executor has      *)
(* written to the table, or found there not a day old when it was built:   *)
(* whatever fails, expires, is deleted or restarts, whichever threads may  *)
(* write, and whichever executors act on the same signals.                 *)
(***************************************************************************)
THEOREM StoredNeverResentHolds == Spec => []StoredNeverResent
<1>1. Init => TypeOK /\ KeyInv
  BY InitType, InitKeys
<1>2. TypeOK /\ KeyInv /\ [Next]_vars => TypeOK' /\ KeyInv'
  BY NextType, KeyStep
<1>3. KeyInv => StoredNeverResent
  BY DEF KeyInv, FreshKey, StoredNeverResent
<1> QED BY <1>1, <1>2, <1>3, PTL DEF Spec
=============================================================================
