-------------------------- MODULE DataManager_proofs --------------------------
(***************************************************************************)
(* Proofs about DataManager, for any number of threads and cache keys, any *)
(* capacity and life times, and any number of hours and restarts.          *)
(***************************************************************************)
EXTENDS DataManager, FiniteSetTheorems, TLAPS

(***************************************************************************)
(* What a thread has in hand where it is: a frame from the provider is     *)
(* made this very hour, one from the disk is within the life time there.   *)
(***************************************************************************)
Storing == {"full", "oldest", "evict", "put"}
Writing == {"write", "close"}

FrameInHand(t) ==
  /\ getting[t] # "idle" => slot[t] \in Slots
  /\ getting[t] = "read" => Fresh(slot[t])
  /\ getting[t] \in Storing \cup Writing \cup {"done"} =>
       frame[t] \in Frame /\ frame[t].born <= now
  /\ getting[t] \in Storing =>
       /\ now - frame[t].born <= DiskTTL
       /\ frame[t].fetched => frame[t].born = now
  /\ getting[t] \in Writing => frame[t].born = now
  /\ getting[t] = "evict" => victim[t] \in Slots
  /\ getting[t] = "done" => now - frame[t].born <= MemTTL + DiskTTL

\* An entry does not outlive both life times together.
EntryAge(s) ==
  entries[s] # NoFrame => /\ entries[s].born <= now
                   /\ entries[s].expires <= entries[s].born + MemTTL + DiskTTL

\* A file is as old as the frame in it.
FilesAge(s) == parquet[s] # NoFrame => parquet[s].born = parquet[s].mtime /\ parquet[s].mtime <= now

AgeInv ==
  /\ CacheTypeOK
  /\ \A t \in Callers : FrameInHand(t)
  /\ \A s \in Slots : EntryAge(s) /\ FilesAge(s)

LEMMA InitAge == CacheInit => AgeInv
BY DataAssumption
DEF CacheInit, AgeInv, CacheTypeOK, PC, CacheHours, FrameInHand, Storing, Writing, EntryAge, FilesAge

\* A step of a thread that leaves the caches alone.
LEMMA LookupAge ==
  ASSUME AgeInv, NEW t \in Callers,
         CallGet(t) \/ MemGet(t) \/ DiskTest(t) \/ DiskRead(t) \/ FetchFrame(t)
         \/ CheckFull(t) \/ PickOldest(t)
  PROVE  AgeInv'
<1> USE DataAssumption DEF AgeInv, Goto, Hold, Storing, Writing
<1>1. UNCHANGED <<now, entries, parquet>>
  BY DEF CallGet, MemGet, DiskTest, DiskRead, FetchFrame, CheckFull, PickOldest
<1>2. \A s \in Slots : EntryAge(s)' /\ FilesAge(s)'
  BY <1>1 DEF EntryAge, FilesAge
<1>3. \A u \in Callers \ {t} :
        getting'[u] = getting[u] /\ slot'[u] = slot[u] /\ frame'[u] = frame[u] /\ victim'[u] = victim[u]
  BY DEF CallGet, MemGet, DiskTest, DiskRead, FetchFrame, CheckFull, PickOldest, CacheTypeOK
<1>4. \A u \in Callers \ {t} : FrameInHand(u)'
  BY <1>1, <1>3 DEF FrameInHand, Fresh
<1>5. CacheTypeOK' /\ FrameInHand(t)'
  <2>1. CASE CallGet(t)
    BY <1>1, <2>1 DEF CallGet, CacheTypeOK, PC, FrameInHand
  <2>2. CASE MemGet(t)
    <3>1. slot[t] \in Slots /\ now \in Nat
      BY <2>2 DEF MemGet, CacheTypeOK, FrameInHand, CacheHours
    <3>2. CASE getting'[t] = "done"
      <4>1. entries[slot[t]] # NoFrame /\ now <= entries[slot[t]].expires /\ entries[slot[t]] \in Entry
        BY <2>2, <3>1, <3>2 DEF MemGet, Live, CacheTypeOK
      <4>2. frame'[t] = [born |-> entries[slot[t]].born, fetched |-> FALSE]
        BY <2>2, <3>2 DEF MemGet, CacheTypeOK
      <4>3. frame'[t] \in Frame /\ frame'[t].born <= now /\ now - frame'[t].born <= MemTTL + DiskTTL
        BY <3>1, <4>1, <4>2 DEF EntryAge, Entry, Frame, CacheHours
      <4>4. CacheTypeOK'
        BY <1>1, <2>2, <3>2, <4>3 DEF MemGet, CacheTypeOK, PC
      <4> QED BY <1>1, <2>2, <3>1, <3>2, <4>3, <4>4 DEF MemGet, CacheTypeOK, FrameInHand
    <3>3. CASE getting'[t] # "done"
      BY <1>1, <2>2, <3>1, <3>3 DEF MemGet, CacheTypeOK, PC, FrameInHand
    <3> QED BY <3>2, <3>3
  <2>3. CASE DiskTest(t)
    BY <1>1, <2>3 DEF DiskTest, CacheTypeOK, PC, FrameInHand, Fresh
  <2>4. CASE DiskRead(t)
    <3>1. /\ slot[t] \in Slots /\ parquet[slot[t]] \in File /\ now \in Nat
          /\ parquet[slot[t]].born <= now /\ now - parquet[slot[t]].born <= DiskTTL
      BY <2>4 DEF DiskRead, CacheTypeOK, FrameInHand, FilesAge, Fresh, CacheHours
    <3>2. CASE getting'[t] = "full"
      <4>1. frame'[t] = [born |-> parquet[slot[t]].born, fetched |-> FALSE]
        BY <2>4, <3>2 DEF DiskRead, CacheTypeOK
      <4>2. frame'[t] \in Frame /\ frame'[t].born = parquet[slot[t]].born /\ ~frame'[t].fetched
        BY <3>1, <4>1 DEF File, Frame
      <4>3. CacheTypeOK'
        BY <1>1, <2>4, <3>2, <4>2 DEF DiskRead, CacheTypeOK, PC
      <4> QED BY <1>1, <2>4, <3>1, <3>2, <4>2, <4>3 DEF DiskRead, CacheTypeOK, FrameInHand
    <3>3. CASE getting'[t] # "full"
      BY <1>1, <2>4, <3>1, <3>3 DEF DiskRead, CacheTypeOK, PC, FrameInHand
    <3> QED BY <3>2, <3>3
  <2>5. CASE FetchFrame(t)
    <3>1. slot[t] \in Slots /\ now \in Nat /\ now \in CacheHours
      BY <2>5 DEF FetchFrame, CacheTypeOK, FrameInHand, CacheHours
    <3>2. CASE getting'[t] = "full"
      <4>1. frame'[t] = [born |-> now, fetched |-> TRUE]
        BY <2>5, <3>2 DEF FetchFrame, CacheTypeOK
      <4>2. frame'[t] \in Frame /\ frame'[t].born = now
        BY <3>1, <4>1 DEF Frame
      <4>3. CacheTypeOK'
        BY <1>1, <2>5, <3>2, <4>2 DEF FetchFrame, CacheTypeOK, PC
      <4> QED BY <1>1, <2>5, <3>1, <3>2, <4>2, <4>3 DEF FetchFrame, CacheTypeOK, FrameInHand
    <3>3. CASE getting'[t] # "full"
      BY <1>1, <2>5, <3>1, <3>3 DEF FetchFrame, CacheTypeOK, PC, FrameInHand
    <3> QED BY <3>2, <3>3
  <2>6. CASE CheckFull(t)
    BY <1>1, <2>6 DEF CheckFull, CacheTypeOK, PC, FrameInHand
  <2>7. CASE PickOldest(t)
    BY <1>1, <2>7 DEF PickOldest, Cached, CacheTypeOK, PC, FrameInHand
  <2> QED BY <2>1, <2>2, <2>3, <2>4, <2>5, <2>6, <2>7
<1> QED BY <1>2, <1>4, <1>5

\* A step of a thread that changes a cache, or ends its call.
LEMMA StoreAge ==
  ASSUME AgeInv, NEW t \in Callers,
         MemDrop(t) \/ Evict(t) \/ Put(t) \/ WriteOpen(t) \/ WriteClose(t) \/ ReturnFrame(t)
  PROVE  AgeInv'
<1> USE DataAssumption DEF AgeInv, Goto, Storing, Writing
<1>1. now' = now
  BY DEF MemDrop, Evict, Put, WriteOpen, WriteClose, ReturnFrame
<1>2. \A u \in Callers \ {t} :
        getting'[u] = getting[u] /\ slot'[u] = slot[u] /\ frame'[u] = frame[u] /\ victim'[u] = victim[u]
  BY ZenonT(60) DEF MemDrop, Evict, Put, WriteOpen, WriteClose, ReturnFrame, Forget, CacheTypeOK
<1>3. CASE MemDrop(t) \/ Evict(t)
  <2>1. \A s \in Slots : entries'[s] \in {entries[s], NoFrame}
    BY <1>3 DEF MemDrop, Evict, CacheTypeOK
  <2>2. parquet' = parquet
    BY <1>3 DEF MemDrop, Evict
  <2>3. \A s \in Slots : EntryAge(s)' /\ FilesAge(s)'
    BY <1>1, <2>1, <2>2 DEF EntryAge, FilesAge
  <2>4. \A u \in Callers : FrameInHand(u)'
    BY <1>1, <1>2, <1>3, <2>2 DEF MemDrop, Evict, FrameInHand, Fresh, CacheTypeOK
  <2>5. CacheTypeOK'
    BY <1>3 DEF MemDrop, Evict, CacheTypeOK, PC
  <2> QED BY <2>3, <2>4, <2>5
<1>4. CASE Put(t)
  <2>1. /\ slot[t] \in Slots /\ frame[t] \in Frame /\ frame[t].born <= now
        /\ now - frame[t].born <= DiskTTL
        /\ frame[t].fetched => frame[t].born = now
    BY <1>4 DEF Put, FrameInHand
  <2>2. /\ now \in Nat /\ now <= MaxTime /\ frame[t].born \in CacheHours
        /\ frame[t].fetched \in BOOLEAN
    BY <2>1 DEF CacheTypeOK, CacheHours, Frame
  <2>3. [born |-> frame[t].born, expires |-> now + MemTTL] \in Entry
    BY <2>2 DEF Entry, CacheHours
  <2>4. \A s \in Slots : EntryAge(s)'
    BY <1>1, <1>4, <2>1, <2>2 DEF Put, EntryAge, CacheTypeOK, CacheHours
  <2>5. \A s \in Slots : FilesAge(s)'
    BY <1>1, <1>4 DEF Put, FilesAge
  <2>6. \A u \in Callers : FrameInHand(u)'
    BY <1>1, <1>2, <1>4, <2>1, <2>2 DEF Put, FrameInHand, Fresh, CacheTypeOK, CacheHours
  <2>7. CacheTypeOK'
    BY <1>4, <2>3 DEF Put, CacheTypeOK, PC
  <2> QED BY <2>4, <2>5, <2>6, <2>7
<1>5. CASE WriteOpen(t) \/ WriteClose(t)
  <2>1. slot[t] \in Slots /\ frame[t] \in Frame /\ frame[t].born = now /\ now \in CacheHours
    BY <1>5 DEF WriteOpen, WriteClose, FrameInHand, CacheTypeOK
  <2>2. PICK w \in BOOLEAN : NewFile(t, w)
    BY <1>5 DEF WriteOpen, WriteClose
  <2>3. \A s \in Slots : IF s = slot[t]
                         THEN parquet'[s] = [born |-> now, mtime |-> now, whole |-> w]
                         ELSE parquet'[s] = parquet[s]
    BY <2>1, <2>2 DEF NewFile, CacheTypeOK
  <2>4. entries' = entries
    BY <1>5 DEF WriteOpen, WriteClose
  <2>5. \A s \in Slots : EntryAge(s)' /\ FilesAge(s)'
    BY <1>1, <2>1, <2>3, <2>4 DEF EntryAge, FilesAge, CacheHours
  <2>6. [born |-> now, mtime |-> now, whole |-> w] \in File
    BY <2>1 DEF File
  <2>7. parquet' \in [Slots -> File \cup {NoFrame}]
    BY <2>1, <2>2, <2>6 DEF NewFile, CacheTypeOK
  <2>8. \A s \in Slots : Fresh(s) => Fresh(s)'
    <3> SUFFICES ASSUME NEW s \in Slots, Fresh(s) PROVE Fresh(s)'
      OBVIOUS
    <3>1. CASE s = slot[t]
      <4>1. parquet[s] # NoFrame
        BY DEF Fresh
      <4>2. parquet'[s].mtime = now /\ parquet'[s] \in File
        BY <2>3, <2>6, <3>1
      <4>3. parquet'[s] # NoFrame
        BY <2>3, <2>6, <3>1
      <4> QED BY <1>1, <2>1, <4>2, <4>3 DEF Fresh, CacheHours
    <3> QED BY <1>1, <2>3, <3>1 DEF Fresh
  <2>9. \A u \in Callers : FrameInHand(u)'
    <3>1. \A u \in Callers : frame'[u] = frame[u] /\ slot'[u] = slot[u]
                             /\ victim'[u] = victim[u]
      BY <1>5 DEF WriteOpen, WriteClose
    <3>2. \A u \in Callers \ {t} : FrameInHand(u)'
      BY <1>1, <1>2, <2>8, <3>1 DEF FrameInHand
    <3>3. getting'[t] \in {"close", "done", "setError"}
      BY <1>5 DEF WriteOpen, WriteClose, CacheTypeOK
    <3>4. now \in Nat /\ now - frame[t].born = 0
      BY <2>1 DEF CacheHours
    <3>5. now - frame[t].born <= MemTTL + DiskTTL
      BY <3>4
    <3>6. FrameInHand(t)'
      BY <1>1, <2>1, <3>1, <3>3, <3>4, <3>5 DEF FrameInHand
    <3> QED BY <3>2, <3>6
  <2>10. CacheTypeOK'
    BY <1>5, <2>7 DEF WriteOpen, WriteClose, CacheTypeOK, PC
  <2> QED BY <2>5, <2>9, <2>10
<1>6. CASE ReturnFrame(t)
  BY <1>1, <1>2, <1>6
  DEF ReturnFrame, Forget, FrameInHand, EntryAge, FilesAge, Fresh, CacheTypeOK, PC
<1> QED BY <1>3, <1>4, <1>5, <1>6

LEMMA NextAge == AgeInv /\ [CacheNext]_cacheVars => AgeInv'
<1> SUFFICES ASSUME AgeInv, [CacheNext]_cacheVars PROVE AgeInv'
  OBVIOUS
<1> USE DataAssumption DEF AgeInv, Storing, Writing
<1>1. ASSUME NEW t \in Callers, CallGet(t) \/ InGet(t) PROVE AgeInv'
  BY <1>1, LookupAge, StoreAge DEF InGet
<1>2. CASE HourPasses
  BY <1>2 DEF HourPasses, CacheTypeOK, CacheHours, FrameInHand, EntryAge, FilesAge, Entry, File
<1>3. CASE ProcessEnds
  BY <1>3 DEF ProcessEnds, Forget, CacheTypeOK, PC, FrameInHand, EntryAge, FilesAge
<1>4. CASE UNCHANGED cacheVars
  BY <1>4 DEF cacheVars, CacheTypeOK, FrameInHand, EntryAge, FilesAge, Fresh
<1> QED BY <1>1, <1>2, <1>3, <1>4 DEF CacheNext

(***************************************************************************)
(* Every variable stays within its type.                                   *)
(***************************************************************************)
THEOREM TypeCorrect == CacheSpec => []CacheTypeOK
<1>1. AgeInv => CacheTypeOK
  BY DEF AgeInv
<1> QED BY <1>1, InitAge, NextAge, PTL DEF CacheSpec

(***************************************************************************)
(* What get() answers is no older than both life times together.           *)
(***************************************************************************)
THEOREM AnswerAgeHolds == CacheSpec => []AnswerAge
<1>1. AgeInv => AnswerAge
  BY DEF AgeInv, FrameInHand, AnswerAge
<1> QED BY <1>1, InitAge, NextAge, PTL DEF CacheSpec

-----------------------------------------------------------------------------
(***************************************************************************)
(* The overshoot of the capacity.  It is inductive by itself: whoever      *)
(* finds room adds one key to less than Capacity, when the others that     *)
(* are about to are at most all threads; whoever evicts gives up a key for *)
(* the one it will add.                                                    *)
(***************************************************************************)
LEMMA Counts ==
  /\ IsFiniteSet(Cached) /\ IsFiniteSet(Adding)
  /\ Cardinality(Cached) \in Nat
  /\ Cardinality(Adding) \in Nat
  /\ Cardinality(Callers) \in Nat \ {0}
  /\ Cardinality(Adding) <= Cardinality(Callers)
<1>1. Cached \subseteq Slots /\ Adding \subseteq Callers
  BY DEF Cached, Adding
<1>2. Cardinality(Callers) \in Nat /\ Cardinality(Callers) # 0
  BY DataAssumption, FS_CardinalityType, FS_EmptySet
<1> QED BY <1>1, <1>2, DataAssumption, FS_Subset, FS_CardinalityType

\* Neither more keys nor more threads about to add one.
LEMMA CountsShrink ==
  ASSUME CapacityOvershoot, Cached' \subseteq Cached, Adding' \subseteq Adding
  PROVE  CapacityOvershoot'
<1>1. /\ Cardinality(Cached') \in Nat /\ Cardinality(Cached') <= Cardinality(Cached)
      /\ Cardinality(Adding') \in Nat /\ Cardinality(Adding') <= Cardinality(Adding)
  BY Counts, FS_Subset, FS_CardinalityType
<1> QED BY <1>1, Counts, DataAssumption DEF CapacityOvershoot

LEMMA CapacityStep ==
  ASSUME AgeInv, CapacityOvershoot, [CacheNext]_cacheVars
  PROVE  CapacityOvershoot'
<1> USE DataAssumption, Counts DEF AgeInv, CacheTypeOK, Goto
<1>1. ASSUME NEW t \in Callers, CheckFull(t) PROVE CapacityOvershoot'
  <2>1. CASE getting'[t] = "put"
    <3>1. Cardinality(Cached) < Capacity /\ Cached' = Cached
      BY <1>1, <2>1 DEF CheckFull, Cached
    <3>2. Adding' \subseteq Callers
      BY DEF Adding
    <3>3. Cardinality(Adding') \in Nat /\ Cardinality(Adding') <= Cardinality(Callers)
      BY <3>2, FS_Subset, FS_CardinalityType
    <3> QED BY <3>1, <3>3 DEF CapacityOvershoot
  <2>2. CASE getting'[t] # "put"
    <3>1. Cached' \subseteq Cached /\ Adding' \subseteq Adding
      BY <1>1, <2>2 DEF CheckFull, Cached, Adding
    <3> QED BY <3>1, CountsShrink
  <2> QED BY <2>1, <2>2
<1>2. ASSUME NEW t \in Callers, Evict(t) PROVE CapacityOvershoot'
  <2>1. CASE victim[t] \in Cached
    <3>1. Cached' = Cached \ {victim[t]}
      BY <1>2, <2>1 DEF Evict, Cached
    <3>2. Cardinality(Cached') = Cardinality(Cached) - 1
      BY <2>1, <3>1, FS_RemoveElement
    <3>3. Adding' = Adding \cup {t} /\ t \notin Adding
      BY <1>2, <2>1 DEF Evict, Adding, Cached
    <3>4. Cardinality(Adding') = Cardinality(Adding) + 1
      BY <3>3, FS_AddElement
    <3> QED BY <3>2, <3>4 DEF CapacityOvershoot
  <2>2. CASE victim[t] \notin Cached
    <3>1. Cached' \subseteq Cached
      BY <1>2 DEF Evict, Cached
    <3>2. Adding' \subseteq Adding
      <4>1. victim[t] \in Slots
        BY <1>2 DEF Evict, FrameInHand
      <4> QED BY <1>2, <2>2, <4>1 DEF Evict, Cached, Adding
    <3> QED BY <3>1, <3>2, CountsShrink
  <2> QED BY <2>1, <2>2
<1>3. ASSUME NEW t \in Callers, Put(t) PROVE CapacityOvershoot'
  <2>1. Adding' = Adding \ {t} /\ t \in Adding
    BY <1>3 DEF Put, Adding
  <2>2. Cardinality(Adding') = Cardinality(Adding) - 1
    BY <2>1, FS_RemoveElement
  <2>3. Cached' \subseteq Cached \cup {slot[t]}
    BY <1>3 DEF Put, Cached
  <2>4. /\ IsFiniteSet(Cached \cup {slot[t]})
        /\ Cardinality(Cached \cup {slot[t]}) \in Nat
        /\ Cardinality(Cached \cup {slot[t]}) <= Cardinality(Cached) + 1
    <3>1. Cardinality(Cached \cup {slot[t]})
            = IF slot[t] \in Cached THEN Cardinality(Cached) ELSE Cardinality(Cached) + 1
      BY FS_AddElement
    <3>2. IsFiniteSet(Cached \cup {slot[t]})
      BY FS_AddElement
    <3> QED BY <3>1, <3>2
  <2>5. /\ Cardinality(Cached') \in Nat
        /\ Cardinality(Cached') <= Cardinality(Cached) + 1
    BY <2>3, <2>4, FS_Subset, FS_CardinalityType
  <2> QED BY <2>2, <2>5 DEF CapacityOvershoot
<1>4. ASSUME NEW t \in Callers, CallGet(t) \/ InGet(t) PROVE CapacityOvershoot'
  <2>1. CASE CallGet(t) \/ MemGet(t) \/ DiskTest(t) \/ DiskRead(t) \/ FetchFrame(t) \/ PickOldest(t)
    <3>1. Cached' \subseteq Cached
      BY <2>1 DEF CallGet, MemGet, DiskTest, DiskRead, FetchFrame, PickOldest, Cached
    <3>2. Adding' \subseteq Adding
      BY <2>1 DEF CallGet, MemGet, DiskTest, DiskRead, FetchFrame, PickOldest, Adding
    <3> QED BY <3>1, <3>2, CountsShrink
  <2>2. CASE MemDrop(t)
    <3>1. Cached' \subseteq Cached /\ Adding' \subseteq Adding
      BY <2>2 DEF MemDrop, Cached, Adding
    <3> QED BY <3>1, CountsShrink
  <2>3. CASE WriteOpen(t) \/ WriteClose(t) \/ ReturnFrame(t)
    <3>1. Cached' \subseteq Cached /\ Adding' \subseteq Adding
      BY <2>3 DEF WriteOpen, WriteClose, ReturnFrame, Cached, Adding
    <3> QED BY <3>1, CountsShrink
  <2> QED BY <1>1, <1>2, <1>3, <1>4, <2>1, <2>2, <2>3 DEF InGet
<1>5. CASE HourPasses \/ UNCHANGED cacheVars
  <2>1. Cached' \subseteq Cached /\ Adding' \subseteq Adding
    BY <1>5 DEF HourPasses, cacheVars, Cached, Adding
  <2> QED BY <2>1, CountsShrink
<1>6. CASE ProcessEnds
  <2>1. Cached' \subseteq Cached /\ Adding' \subseteq Adding
    BY <1>6 DEF ProcessEnds, Cached, Adding
  <2> QED BY <2>1, CountsShrink
<1> QED BY <1>4, <1>5, <1>6 DEF CacheNext

(***************************************************************************)
(* The memory cache exceeds its capacity by at most the threads but one.   *)
(***************************************************************************)
THEOREM CapacityOvershootHolds == CacheSpec => []CapacityOvershoot
<1>1. CacheInit => CapacityOvershoot
  <2> SUFFICES ASSUME CacheInit PROVE CapacityOvershoot
    OBVIOUS
  <2>1. Cached = {} /\ Adding = {}
    BY DEF CacheInit, Cached, Adding
  <2> QED BY <2>1, Counts, FS_EmptySet, DataAssumption DEF CapacityOvershoot
<1>2. AgeInv /\ CapacityOvershoot /\ [CacheNext]_cacheVars => CapacityOvershoot'
  BY CapacityStep
<1> QED BY <1>1, <1>2, InitAge, NextAge, PTL DEF CacheSpec
=============================================================================
