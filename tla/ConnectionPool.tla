----------------------------- MODULE ConnectionPool ----------------------------
(***************************************************************************)
(* The pool of SQLite connections (core/db.py), for one path: get_conn()   *)
(* by any number of threads, and close_all().  Each connection is opened   *)
(* with a lock of its own; connections are numbered as they are opened.    *)
(***************************************************************************)
EXTENDS Integers

CONSTANTS
  Clients,   \* threads
  Nobody,
  MaxConns, MaxFailures, MaxUses \* bound the exploration

ASSUME ConnectionPoolAssumption ==
  Nobody \notin Clients /\ MaxConns \in Nat /\ MaxFailures \in Nat /\ MaxUses \in Nat

VARIABLES
  pooled,     \* the connection in _pool, 0 for none
  opened,     \* how many have been opened
  condition,  \* of each: "good", "stale" or "closed"
  lockedBy,   \* of each, who holds its lock
  poolAt,     \* where each thread is in get_conn()
  got,        \* the connection whose lock it took or waits for
  using,      \* the connection it yields
  raisedIn,   \* where its last call raised
  uses,
  failures,
  abandoned,  \* connections that were closed to be replaced, and were not (history)
  shut        \* close_all() has been called (history)

historyVars == <<abandoned, shut>>
poolVars == <<pooled, opened, condition, lockedBy, poolAt, got, using, raisedIn, uses, failures,
              historyVars>>

Conns == 1..MaxConns

PoolInit ==
  /\ pooled = 0 /\ opened = 0
  /\ condition = [c \in Conns |-> "closed"]
  /\ lockedBy = [c \in Conns |-> Nobody]
  /\ poolAt = [t \in Clients |-> "out"]
  /\ got = [t \in Clients |-> 0] /\ using = [t \in Clients |-> 0]
  /\ raisedIn = [t \in Clients |-> "nowhere"]
  /\ uses = 0 /\ failures = 0 /\ abandoned = {} /\ shut = FALSE

\* _open()
Open ==
  /\ opened + 1 \in Conns
  /\ opened' = opened + 1
  /\ condition' = [condition EXCEPT ![opened + 1] = "good"]

\* _open() raises: it cannot connect, or a PRAGMA fails and what it has is dropped.
OpenFails ==
  /\ failures < MaxFailures
  /\ failures' = failures + 1

\* _get_or_create(), under _pool_lock
GetOrCreate(t) ==
  /\ poolAt[t] = "out" /\ uses < MaxUses
  /\ uses' = uses + 1
  /\ IF pooled = 0 THEN Open /\ pooled' = opened + 1 ELSE UNCHANGED <<pooled, opened, condition>>
  /\ got' = [got EXCEPT ![t] = pooled']
  /\ raisedIn' = [raisedIn EXCEPT ![t] = "nowhere"]
  /\ poolAt' = [poolAt EXCEPT ![t] = "lock"]
  /\ UNCHANGED <<lockedBy, using, failures, historyVars>>

CreateFails(t) ==
  /\ poolAt[t] = "out" /\ uses < MaxUses
  /\ uses' = uses + 1
  /\ pooled = 0 /\ OpenFails
  /\ raisedIn' = [raisedIn EXCEPT ![t] = "open"]
  /\ UNCHANGED <<pooled, opened, condition, lockedBy, poolAt, got, using, historyVars>>

\* "with lock:"
Acquire(t) ==
  /\ poolAt[t] = "lock" /\ lockedBy[got[t]] = Nobody
  /\ lockedBy' = [lockedBy EXCEPT ![got[t]] = t]
  /\ poolAt' = [poolAt EXCEPT ![t] = "check"]
  /\ UNCHANGED <<pooled, opened, condition, got, using, raisedIn, uses, failures, historyVars>>

Healthy(t) ==
  /\ poolAt[t] = "check" /\ condition[got[t]] = "good"
  /\ using' = [using EXCEPT ![t] = got[t]]
  /\ poolAt' = [poolAt EXCEPT ![t] = "in"]
  /\ UNCHANGED <<pooled, opened, condition, lockedBy, got, raisedIn, uses, failures, historyVars>>

\* A closed connection raises a ProgrammingError, which is not caught here.
OnClosed(t) ==
  /\ poolAt[t] = "check" /\ condition[got[t]] = "closed"
  /\ lockedBy' = [lockedBy EXCEPT ![got[t]] = Nobody]
  /\ raisedIn' = [raisedIn EXCEPT ![t] = "check"]
  /\ poolAt' = [poolAt EXCEPT ![t] = "out"]
  /\ UNCHANGED <<pooled, opened, condition, got, using, uses, failures, historyVars>>

\* A stale one raises an OperationalError ...
FindStale(t) ==
  /\ poolAt[t] = "check" /\ condition[got[t]] = "stale"
  /\ poolAt' = [poolAt EXCEPT ![t] = "close"]
  /\ UNCHANGED <<pooled, opened, condition, lockedBy, got, using, raisedIn, uses, failures, historyVars>>

\* ... it is closed ...
CloseStale(t) ==
  /\ poolAt[t] = "close"
  /\ condition' = [condition EXCEPT ![got[t]] = "closed"]
  /\ poolAt' = [poolAt EXCEPT ![t] = "open"]
  /\ UNCHANGED <<pooled, opened, lockedBy, got, using, raisedIn, uses, failures, historyVars>>

\* ... a new one is opened ...
Reopen(t) ==
  /\ poolAt[t] = "open"
  /\ Open
  /\ using' = [using EXCEPT ![t] = opened + 1]
  /\ poolAt' = [poolAt EXCEPT ![t] = "publish"]
  /\ UNCHANGED <<pooled, lockedBy, got, raisedIn, uses, failures, historyVars>>

\* ... or fails to: the exception leaves the with-block, and the pool as it was ...
ReopenFails(t) ==
  /\ poolAt[t] = "open"
  /\ OpenFails
  /\ lockedBy' = [lockedBy EXCEPT ![got[t]] = Nobody]
  /\ raisedIn' = [raisedIn EXCEPT ![t] = "open"]
  /\ poolAt' = [poolAt EXCEPT ![t] = "out"]
  /\ abandoned' = abandoned \cup {got[t]}
  /\ UNCHANGED <<pooled, opened, condition, got, using, uses, shut>>

Publish_IfAbsent(t) == \* mutant: the pool keeps what it has
  /\ poolAt[t] = "publish"
  /\ pooled' = IF pooled = 0 THEN using[t] ELSE pooled
  /\ poolAt' = [poolAt EXCEPT ![t] = "relock"]
  /\ UNCHANGED <<opened, condition, lockedBy, got, using, raisedIn, uses, failures, historyVars>>

\* ... and is put in the pool with a new lock, whatever the pool has by now ...
Publish(t) ==
  /\ poolAt[t] = "publish"
  /\ pooled' = using[t]
  /\ poolAt' = [poolAt EXCEPT ![t] = "relock"]
  /\ UNCHANGED <<opened, condition, lockedBy, got, using, raisedIn, uses, failures, historyVars>>

Relock_Not(t) == \* mutant: the new lock is not taken
  /\ poolAt[t] = "relock"
  /\ poolAt' = [poolAt EXCEPT ![t] = "in"]
  /\ UNCHANGED <<pooled, opened, condition, lockedBy, got, using, raisedIn, uses, failures, historyVars>>

\* ... for which others may now be queueing.
Relock(t) ==
  /\ poolAt[t] = "relock" /\ lockedBy[using[t]] = Nobody
  /\ lockedBy' = [lockedBy EXCEPT ![using[t]] = t]
  /\ poolAt' = [poolAt EXCEPT ![t] = "in"]
  /\ UNCHANGED <<pooled, opened, condition, got, using, raisedIn, uses, failures, historyVars>>

\* The caller's block ends; on a closed connection it ends by an exception.
Leave(t) ==
  /\ poolAt[t] = "in"
  /\ lockedBy' = [c \in Conns |-> IF lockedBy[c] = t THEN Nobody ELSE lockedBy[c]]
  /\ raisedIn' = [raisedIn EXCEPT ![t] = IF condition[using[t]] = "closed" THEN "block" ELSE "nowhere"]
  /\ using' = [using EXCEPT ![t] = 0]
  /\ poolAt' = [poolAt EXCEPT ![t] = "out"]
  /\ UNCHANGED <<pooled, opened, condition, got, uses, failures, historyVars>>

\* The database fails a connection.
GoStale ==
  /\ failures < MaxFailures
  /\ \E c \in Conns : condition[c] = "good" /\ condition' = [condition EXCEPT ![c] = "stale"]
  /\ failures' = failures + 1
  /\ UNCHANGED <<pooled, opened, lockedBy, poolAt, got, using, raisedIn, uses, historyVars>>

\* close_all() takes _pool_lock only.
CloseAll ==
  /\ pooled # 0
  /\ condition' = [condition EXCEPT ![pooled] = "closed"]
  /\ pooled' = 0 /\ shut' = TRUE
  /\ UNCHANGED <<opened, lockedBy, poolAt, got, using, raisedIn, uses, failures, abandoned>>

PoolNext ==
  \/ \E t \in Clients :
       \/ GetOrCreate(t) \/ CreateFails(t) \/ Acquire(t) \/ Healthy(t) \/ OnClosed(t)
       \/ FindStale(t) \/ CloseStale(t) \/ Reopen(t) \/ ReopenFails(t) \/ Publish(t)
       \/ Relock(t) \/ Leave(t)
  \/ GoStale
  \/ CloseAll

PoolSpec == PoolInit /\ [][PoolNext]_poolVars
-----------------------------------------------------------------------------

PoolTypeOK ==
  /\ pooled \in 0..opened /\ opened \in 0..MaxConns
  /\ \A c \in Conns : /\ condition[c] \in {"good", "stale", "closed"}
                      /\ lockedBy[c] \in Clients \cup {Nobody}
                      /\ c > opened => condition[c] = "closed" /\ lockedBy[c] = Nobody
  /\ \A t \in Clients :
       /\ poolAt[t] \in {"out", "lock", "check", "close", "open", "publish", "relock", "in"}
       /\ got[t] \in 0..opened /\ using[t] \in 0..opened
       /\ using[t] # 0 <=> poolAt[t] \in {"publish", "relock", "in"}
       /\ raisedIn[t] \in {"nowhere", "check", "open", "block"}
       /\ poolAt[t] \in {"check", "close", "open", "publish", "relock"} => lockedBy[got[t]] = t

\* Thread t is replacing connection c, which is closed by now.
Replacing(t, c) == poolAt[t] \in {"open", "publish"} /\ got[t] = c

\* No two threads use a connection at once.  Short of close_all(): a connection is
\* left open outside the pool only until the thread that has opened it puts it
\* there, and the pool has a closed one only while that is being replaced, or for
\* good, if the database did not let it be opened again.  But for the latter, a
\* thread that raises at its check, since it waited behind the one that replaced
\* the connection, finds a later one in the pool when it calls again; and none is
\* closed in the hands of its user, but for one whose lock another thread took
\* before the thread that opened it (get_conn()).  A thread that waits with a lock
\* in hand waits for the lock of a later connection, so no two wait for each other.
PoolSound ==
  /\ \A t, u \in Clients : poolAt[t] = "in" /\ poolAt[u] = "in" /\ using[t] = using[u] => t = u
  /\ ~shut =>
       /\ \A c \in Conns :
            /\ condition[c] # "closed" =>
                 c = pooled \/ \E t \in Clients : poolAt[t] = "publish" /\ using[t] = c
            /\ condition[c] = "closed" /\ c = pooled =>
                 c \in abandoned \/ \E t \in Clients : Replacing(t, c)
       /\ \A t \in Clients :
            /\ raisedIn[t] = "check" => pooled > got[t] \/ pooled \in abandoned
            /\ raisedIn[t] = "block" => pooled > got[t] + 1 \/ pooled \in abandoned
            /\ poolAt[t] = "in" /\ condition[using[t]] = "closed" => using[t] # got[t]
  /\ \A t \in Clients : poolAt[t] = "relock" => using[t] > got[t]

\* "If the connection is stale it is transparently replaced" (get_conn()): a stale
\* connection that no thread is replacing does not stay in the pool, closed.
StaleIsReplaced ==
  ~shut /\ pooled # 0 /\ condition[pooled] = "closed" => \E t \in Clients : Replacing(t, pooled)

=============================================================================
