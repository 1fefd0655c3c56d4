--------------------------- MODULE MCLiveExecutor ---------------------------
(* LiveExecutor for TLC: two executors, e1 with a tick thread t1 and e2 with *)
(* t2, whose runners are of one strategy on one symbol, so that both act on  *)
(* the same signals; and a thread q1 that squares off the positions of e1.   *)
EXTENDS LiveExecutor

CONSTANTS e1, e2, t1, t2, q1, s1

MCExecutorOf == [t \in Threads |-> IF t = t2 THEN e2 ELSE e1]
MCEmits == [t \in Threads |-> IF t = q1 THEN {} ELSE Signals]
=============================================================================
