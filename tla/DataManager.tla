------------------------------ MODULE DataManager ------------------------------
(***************************************************************************)
(* data/manager.py: DataManager.get(), with the two caches that all        *)
(* instances share: the dictionary of data/cache.py and the files of       *)
(* data/storage.py.  Neither has a lock.  A call goes                      *)
(*                                                                         *)
(*   idle -> mem -> drop -> disk -> read -> full -> oldest -> evict -> put *)
(*                              \-> fetch --^                  /           *)
(*                                         idle <- close <- write <        *)
(*                                                                         *)
(* and other threads interleave at each arrow.  (Today's callers are tests *)
(* and one thread at a time; the instances share the caches so that any    *)
(* number may call, with |Callers| = 1 as the case of today.)  A data      *)
(* frame is the hour at which a provider made it: the caches do not look   *)
(* at its bars, but for counting them, and whether they are as many as     *)
(* the caller needs is a choice.  Time stands still while a call is under  *)
(* way: it takes seconds, and daily frames live for hours.                 *)
(***************************************************************************)
EXTENDS Naturals, FiniteSets

CONSTANTS
  Callers,    \* threads that call get()
  Slots,      \* cache keys: (symbol, interval)
  Persisted,  \* the slots of daily and longer intervals, kept on disk too
  Capacity,   \* _MAX_ENTRIES
  MemTTL,     \* _TTL of data/cache.py, in hours
  DiskTTL,    \* _TTL of data/storage.py, in hours
  NoFrame,    \* no entry, no file, no frame
  MaxTime,    \* hours (bounds the exploration)
  MaxCrashes  \* process restarts (bounds the exploration)

CacheHours == 0..MaxTime
Entry  == [born : CacheHours, expires : 0..MaxTime + MemTTL]
File   == [born : CacheHours, mtime : CacheHours, whole : BOOLEAN]
Frame  == [born : CacheHours, fetched : BOOLEAN]

ASSUME DataAssumption ==
  /\ IsFiniteSet(Callers) /\ Callers # {}
  /\ IsFiniteSet(Slots) /\ Persisted \subseteq Slots
  /\ Capacity \in Nat \ {0}
  /\ MemTTL \in Nat /\ DiskTTL \in Nat
  /\ MaxTime \in Nat /\ MaxCrashes \in Nat
  /\ NoFrame \notin File

VARIABLES
  now,      \* the hour
  entries,  \* entries[s]: DataCache._store, an entry with its expires_at, or NoFrame
  parquet,  \* parquet[s]: the Parquet file, or NoFrame
  getting,  \* getting[t]: where thread t is in get()
  slot,     \* slot[t]: what it was asked for
  frame,    \* frame[t]: the data frame it has got hold of
  victim,   \* victim[t]: the oldest_key it has picked
  crashes   \* how often the process has been restarted

cacheVars == <<now, entries, parquet, getting, slot, frame, victim, crashes>>

PC == {"idle", "mem", "drop", "disk", "read", "fetch", "full", "oldest", "evict",
       "put", "write", "close", "done", "getError", "setError", "fetchError"}

CacheInit ==
  /\ now     = 0
  /\ entries = [s \in Slots |-> NoFrame]
  /\ parquet = [s \in Slots |-> NoFrame]
  /\ getting = [t \in Callers |-> "idle"]
  /\ slot    = [t \in Callers |-> NoFrame]
  /\ frame   = [t \in Callers |-> NoFrame]
  /\ victim  = [t \in Callers |-> NoFrame]
  /\ crashes = 0

\* The keys of the dictionary.
Cached == {s \in Slots : entries[s] # NoFrame}

\* Threads that are about to add a key, no matter how full the dictionary is.
Adding == {t \in Callers : getting[t] = "put"}

CacheTypeOK ==
  /\ now \in CacheHours
  /\ entries \in [Slots -> Entry \cup {NoFrame}]
  /\ parquet \in [Slots -> File \cup {NoFrame}]
  /\ getting \in [Callers -> PC]
  /\ slot    \in [Callers -> Slots \cup {NoFrame}]
  /\ frame   \in [Callers -> Frame \cup {NoFrame}]
  /\ victim  \in [Callers -> Slots \cup {NoFrame}]
  /\ crashes \in 0..MaxCrashes

-----------------------------------------------------------------------------
Goto(t, pc) == getting' = [getting EXCEPT ![t] = pc]

Hold(t, f) == frame' = [frame EXCEPT ![t] = f]

\* force_refresh skips both caches.
CallGet(t) ==
  /\ getting[t] = "idle"
  /\ \E s \in Slots : slot' = [slot EXCEPT ![t] = s]
  /\ \E force \in BOOLEAN : Goto(t, IF force THEN "fetch" ELSE "mem")
  /\ UNCHANGED <<now, entries, parquet, frame, victim, crashes>>

Live(s) == entries[s] # NoFrame /\ now <= entries[s].expires

\* DataCache.get() up to the removal of an expired entry; a live entry with too
\* few bars is passed over.
MemGet(t) ==
  LET s == slot[t] IN
  /\ getting[t] = "mem"
  /\ \/ /\ Live(s)
        /\ Hold(t, [born |-> entries[s].born, fetched |-> FALSE])
        /\ Goto(t, "done")
     \/ /\ entries[s] # NoFrame => Live(s)
        /\ Goto(t, "disk")
        /\ UNCHANGED frame
     \/ /\ entries[s] # NoFrame /\ ~Live(s)
        /\ Goto(t, "drop")
        /\ UNCHANGED frame
  /\ UNCHANGED <<now, entries, parquet, slot, victim, crashes>>

\* del self._store[key], which raises KeyError when another thread was faster.
MemDrop(t) ==
  /\ getting[t] = "drop"
  /\ entries' = [entries EXCEPT ![slot[t]] = NoFrame]
  /\ Goto(t, IF entries[slot[t]] = NoFrame THEN "getError" ELSE "disk")
  /\ UNCHANGED <<now, parquet, slot, frame, victim, crashes>>

\* Mutant of Fresh: any file will do.
Fresh_Any(s) == parquet[s] # NoFrame

Fresh(s) == parquet[s] # NoFrame /\ now - parquet[s].mtime <= DiskTTL

DiskTest(t) ==
  /\ getting[t] = "disk"
  /\ Goto(t, IF Fresh(slot[t]) THEN "read" ELSE "fetch")
  /\ UNCHANGED <<now, entries, parquet, slot, frame, victim, crashes>>

\* A file that is being written, or was left half written, reads as missing.
DiskRead(t) ==
  LET s == slot[t] IN
  /\ getting[t] = "read"
  /\ \/ /\ parquet[s].whole
        /\ Hold(t, [born |-> parquet[s].born, fetched |-> FALSE])
        /\ Goto(t, "full")
     \/ Goto(t, "fetch") /\ UNCHANGED frame
  /\ UNCHANGED <<now, entries, parquet, slot, victim, crashes>>

\* Angel One, then yfinance, then the validator, whose verdict is only logged:
\* a frame with enough bars, or DataFetchError or InsufficientDataError.
FetchFrame(t) ==
  /\ getting[t] = "fetch"
  /\ \/ Hold(t, [born |-> now, fetched |-> TRUE]) /\ Goto(t, "full")
     \/ Goto(t, "fetchError") /\ UNCHANGED frame
  /\ UNCHANGED <<now, entries, parquet, slot, victim, crashes>>

-----------------------------------------------------------------------------
(***************************************************************************)
(* DataCache.set()                                                         *)
(***************************************************************************)
\* Mutant of CheckFull: the cache is full one entry too late.
CheckFull_OffByOne(t) ==
  /\ getting[t] = "full"
  /\ Goto(t, IF Cardinality(Cached) > Capacity THEN "oldest" ELSE "put")
  /\ UNCHANGED <<now, entries, parquet, slot, frame, victim, crashes>>

CheckFull(t) ==
  /\ getting[t] = "full"
  /\ Goto(t, IF Cardinality(Cached) >= Capacity THEN "oldest" ELSE "put")
  /\ UNCHANGED <<now, entries, parquet, slot, frame, victim, crashes>>

\* min() over the dictionary, in one step.  It raises when the dictionary is
\* empty by now, or when another thread changes its size meanwhile.
PickOldest(t) ==
  /\ getting[t] = "oldest"
  /\ \/ /\ \E o \in Cached :
             /\ \A s \in Cached : entries[o].expires <= entries[s].expires
             /\ victim' = [victim EXCEPT ![t] = o]
        /\ Goto(t, "evict")
     \/ /\ Cached = {} \/ \E u \in Callers \ {t} : getting[u] \in {"drop", "evict", "put"}
        /\ Goto(t, "setError")
        /\ UNCHANGED victim
  /\ UNCHANGED <<now, entries, parquet, slot, frame, crashes>>

\* del self._store[oldest_key], which raises KeyError when it is gone.
Evict(t) ==
  /\ getting[t] = "evict"
  /\ entries' = [entries EXCEPT ![victim[t]] = NoFrame]
  /\ Goto(t, IF entries[victim[t]] = NoFrame THEN "setError" ELSE "put")
  /\ UNCHANGED <<now, parquet, slot, frame, victim, crashes>>

\* Mutant of Put: the life time of the other cache.
Put_OtherTTL(t) ==
  /\ getting[t] = "put"
  /\ entries' = [entries EXCEPT ![slot[t]] = [born    |-> frame[t].born,
                                              expires |-> now + DiskTTL]]
  /\ Goto(t, IF frame[t].fetched /\ slot[t] \in Persisted THEN "write" ELSE "done")
  /\ UNCHANGED <<now, parquet, slot, frame, victim, crashes>>

Put(t) ==
  /\ getting[t] = "put"
  /\ entries' = [entries EXCEPT ![slot[t]] = [born    |-> frame[t].born,
                                              expires |-> now + MemTTL]]
  /\ Goto(t, IF frame[t].fetched /\ slot[t] \in Persisted THEN "write" ELSE "done")
  /\ UNCHANGED <<now, parquet, slot, frame, victim, crashes>>

-----------------------------------------------------------------------------
(***************************************************************************)
(* ParquetStorage.write(), in place                                        *)
(***************************************************************************)
NewFile(t, whole) ==
  parquet' = [parquet EXCEPT ![slot[t]] =
                [born |-> frame[t].born, mtime |-> now, whole |-> whole]]

WriteOpen(t) ==
  /\ getting[t] = "write"
  /\ NewFile(t, FALSE)
  /\ Goto(t, "close")
  /\ UNCHANGED <<now, entries, slot, frame, victim, crashes>>

\* It may fail and raise, with a full disk, or be spoilt by another writer.
WriteClose(t) ==
  /\ getting[t] = "close"
  /\ \/ NewFile(t, TRUE)  /\ Goto(t, "done")
     \/ NewFile(t, FALSE) /\ Goto(t, "setError")
     \/ /\ \E u \in Callers \ {t} : slot[u] = slot[t]
        /\ NewFile(t, FALSE) /\ Goto(t, "done")
  /\ UNCHANGED <<now, entries, slot, frame, victim, crashes>>

\* The local variables of the threads in T go with their calls.
Forget(T) ==
  /\ slot'   = [t \in Callers |-> IF t \in T THEN NoFrame ELSE slot[t]]
  /\ frame'  = [t \in Callers |-> IF t \in T THEN NoFrame ELSE frame[t]]
  /\ victim' = [t \in Callers |-> IF t \in T THEN NoFrame ELSE victim[t]]

\* The frame is returned, or the exception propagates.
ReturnFrame(t) ==
  /\ getting[t] \in {"done", "getError", "setError", "fetchError"}
  /\ Goto(t, "idle")
  /\ Forget({t})
  /\ UNCHANGED <<now, entries, parquet, crashes>>

InGet(t) ==
  \/ MemGet(t) \/ MemDrop(t) \/ DiskTest(t) \/ DiskRead(t) \/ FetchFrame(t)
  \/ CheckFull(t) \/ PickOldest(t) \/ Evict(t) \/ Put(t)
  \/ WriteOpen(t) \/ WriteClose(t) \/ ReturnFrame(t)

-----------------------------------------------------------------------------
HourPasses ==
  /\ now < MaxTime
  /\ \A t \in Callers : getting[t] = "idle"
  /\ now' = now + 1
  /\ UNCHANGED <<entries, parquet, getting, slot, frame, victim, crashes>>

\* The process ends wherever it is; the files stay as they are.
ProcessEnds ==
  /\ crashes < MaxCrashes
  /\ crashes' = crashes + 1
  /\ entries' = [s \in Slots |-> NoFrame]
  /\ getting' = [t \in Callers |-> "idle"]
  /\ Forget(Callers)
  /\ UNCHANGED <<now, parquet>>

CacheNext ==
  \/ \E t \in Callers : CallGet(t) \/ InGet(t)
  \/ HourPasses \/ ProcessEnds

CacheSpec == CacheInit /\ [][CacheNext]_cacheVars

-----------------------------------------------------------------------------
(***************************************************************************)
(* What get() answers is no older than the life times of both caches       *)
(* together: a frame that was about to expire on disk starts a new life in *)
(* memory, but never goes back from there to the disk.                     *)
(***************************************************************************)
AnswerAge ==
  \A t \in Callers :
    getting[t] = "done" => now - frame[t].born <= MemTTL + DiskTTL

(***************************************************************************)
(* Threads that each find the dictionary one short of full each add a key: *)
(* with those under way it exceeds its capacity by at most one entry for   *)
(* each further thread, however long they go on.                           *)
(***************************************************************************)
CapacityOvershoot ==
  Cardinality(Cached) + Cardinality(Adding) <= Capacity + Cardinality(Callers) - 1
=============================================================================
