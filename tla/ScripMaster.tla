------------------------------ MODULE ScripMaster ------------------------------
(***************************************************************************)
(* ScripMaster.load() (data/providers/angel.py): one instrument master,    *)
(* shared by the threads of a process without a lock, kept in memory and   *)
(* in a parquet file, downloaded anew when both are older than MaxAge.     *)
(* A master is represented by the time it was downloaded.                  *)
(***************************************************************************)
EXTENDS Integers

CONSTANTS
  Loaders,    \* threads that resolve tokens
  MaxAge,     \* _SCRIP_MASTER_MAX_AGE_H
  NoMaster,
  Torn,       \* the file while it is written, or after a crash in that
  LastHour    \* bound on the clock

ASSUME ScripMasterAssumption ==
  /\ MaxAge \in Nat \ {0} /\ LastHour \in Nat
  /\ NoMaster \notin Int /\ Torn \notin Int \cup {NoMaster}

VARIABLES
  hour,
  mem, memAt,   \* _df and _loaded_at
  disk, diskAt, \* the file and its mtime
  step,         \* where each thread is in load()
  hold,         \* the master it has in hand, or has returned
  slow,         \* it has already seen the hour pass since it entered load()
  failedAt      \* when a download last failed (history)

scripVars == <<hour, mem, memAt, disk, diskAt, step, hold, slow, failedAt>>

Never == -MaxAge

ScripInit ==
  /\ hour = 0
  /\ mem = NoMaster /\ memAt = Never
  /\ disk = NoMaster /\ diskAt = Never
  /\ step = [t \in Loaders |-> "idle"]
  /\ hold = [t \in Loaders |-> NoMaster]
  /\ slow = [t \in Loaders |-> FALSE]
  /\ failedAt = Never

ToStep(t, s) == step' = [step EXCEPT ![t] = s]
Take(t, master) == hold' = [hold EXCEPT ![t] = master]

MemFresh == mem # NoMaster /\ hour - memAt < MaxAge

DiskFresh_Touched == disk # NoMaster \* mutant: any file will do

DiskFresh == disk # NoMaster /\ hour - diskAt < MaxAge

Load(t, force) ==
  /\ step[t] = "idle"
  /\ IF MemFresh /\ ~force THEN Take(t, mem) /\ ToStep(t, "returned")
     ELSE IF DiskFresh /\ ~force THEN ToStep(t, "read") /\ UNCHANGED hold
     ELSE ToStep(t, "download") /\ UNCHANGED hold
  /\ slow' = [slow EXCEPT ![t] = FALSE]
  /\ UNCHANGED <<hour, mem, memAt, disk, diskAt, failedAt>>

\* read_parquet() of a fresh file, or of the stale one after a failed download;
\* it raises for a file that is not whole.
Read(t) ==
  /\ step[t] \in {"read", "read stale"}
  /\ IF disk = Torn THEN ToStep(t, "raised") /\ UNCHANGED hold
     ELSE /\ Take(t, disk)
          /\ ToStep(t, IF step[t] = "read" THEN "keep" ELSE "keep stale")
  /\ UNCHANGED <<hour, mem, memAt, disk, diskAt, slow, failedAt>>

Download(t) ==
  /\ step[t] = "download"
  /\ \/ Take(t, hour) /\ ToStep(t, "write") /\ UNCHANGED failedAt
     \/ /\ failedAt' = hour
        /\ ToStep(t, IF disk = NoMaster THEN "raised" ELSE "read stale")
        /\ UNCHANGED hold
  /\ UNCHANGED <<hour, mem, memAt, disk, diskAt, slow>>

\* to_parquet() writes in place; it may end half way, with an exception
Write(t) ==
  /\ step[t] = "write"
  /\ disk' = Torn /\ diskAt' = hour
  /\ step' \in {[step EXCEPT ![t] = "written"], [step EXCEPT ![t] = "raised"]}
  /\ UNCHANGED <<hour, mem, memAt, hold, slow, failedAt>>

Written(t) ==
  /\ step[t] = "written"
  /\ disk' = hold[t] /\ diskAt' = hour
  /\ ToStep(t, "keep")
  /\ UNCHANGED <<hour, mem, memAt, hold, slow, failedAt>>

\* A stale master is kept without a new _loaded_at, so the next call tries
\* again, unless another thread has set _loaded_at in the meantime.
Keep(t) ==
  /\ step[t] \in {"keep", "keep stale"}
  /\ mem' = hold[t]
  /\ memAt' = IF step[t] = "keep" THEN hour ELSE memAt
  /\ ToStep(t, "returned")
  /\ UNCHANGED <<hour, disk, diskAt, hold, slow, failedAt>>

Return(t) ==
  /\ step[t] \in {"returned", "raised"}
  /\ ToStep(t, "idle") /\ Take(t, NoMaster)
  /\ slow' = [slow EXCEPT ![t] = FALSE]
  /\ UNCHANGED <<hour, mem, memAt, disk, diskAt, failedAt>>

Restart ==
  /\ mem # NoMaster \/ \E t \in Loaders : step[t] # "idle"
  /\ mem' = NoMaster /\ memAt' = Never
  /\ step' = [t \in Loaders |-> "idle"]
  /\ hold' = [t \in Loaders |-> NoMaster]
  /\ slow' = [t \in Loaders |-> FALSE]
  /\ UNCHANGED <<hour, disk, diskAt, failedAt>>

\* A call of load() takes less than an hour (requests' timeout is 30 s).
Hour ==
  /\ hour < LastHour
  /\ \A t \in Loaders : step[t] # "idle" => ~slow[t]
  /\ hour' = hour + 1
  /\ slow' = [t \in Loaders |-> step[t] # "idle"]
  /\ UNCHANGED <<mem, memAt, disk, diskAt, step, hold, failedAt>>

ScripNext ==
  \/ \E t \in Loaders :
       \/ \E force \in BOOLEAN : Load(t, force)
       \/ Read(t) \/ Download(t) \/ Write(t) \/ Written(t) \/ Keep(t) \/ Return(t)
  \/ Restart
  \/ Hour

ScripSpec == ScripInit /\ [][ScripNext]_scripVars

-----------------------------------------------------------------------------

Hours == 0..LastHour
Masters == {NoMaster} \cup Hours
Steps == {"idle", "read", "read stale", "download", "write", "written", "keep",
          "keep stale", "returned", "raised"}

ScripTypeOK ==
  /\ hour \in Hours /\ failedAt \in {Never} \cup Hours
  /\ mem \in Masters /\ memAt \in {Never} \cup Hours
  /\ disk \in Masters \cup {Torn} /\ diskAt \in {Never} \cup Hours
  /\ step \in [Loaders -> Steps]
  /\ hold \in [Loaders -> Masters] /\ slow \in [Loaders -> BOOLEAN]

\* A token is resolved in a master no older than the life times of memory and
\* file together, unless a download has failed within one life time: restarts,
\* torn files and threads that publish in whatever order add nothing to that
\* but the hours that calls last (ScripMaster.load()).
MasterAge ==
  \A t \in Loaders : step[t] = "returned" /\ hour - hold[t] > 2 * MaxAge + 1 =>
    hour - failedAt <= MaxAge + 1

=============================================================================
