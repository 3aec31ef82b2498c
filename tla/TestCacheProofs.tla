--------------------------- MODULE TestCacheProofs ---------------------------
(***************************************************************************)
(* Proofs about TestCache, for every set of entries and every size of the  *)
(* cache.                                                                  *)
(***************************************************************************)
EXTENDS TestCache, FiniteSetTheorems, TLAPS

(***************************************************************************)
(* The inductive invariant, a conjunction of named parts.                  *)
(***************************************************************************)
(* Slots in use lie below the high-water mark, which the limit on entries  *)
(* bounds; a slot realloc() left uninitialised lies at or above the limit. *)
SlotBounds ==
  /\ max_cache_count <= max_cache_entries
  /\ \A t \in Slots : cache[t] \in Entries => t < max_cache_count
  /\ \A t \in Slots : cache[t] = Garbage => t >= max_cache_entries

(* No slot below q_testcase_smallest_free is free. *)
SmallestFree ==
  /\ smallest_free <= max_cache_count
  /\ \A t \in Slots : t < smallest_free => cache[t] # NULL

(* Entries with a buffer are in the queue. *)
CachedInQueue == \A q \in Entries : buf[q] # NULL => q \in queue

(* The local state of queue_testcase_get(): the entry wanted is not cached, *)
(* and the candidate slot is the high-water mark or one just emptied.       *)
GetState ==
  /\ pc # "select" => queue_cur \in queue
  /\ pc = "get" =>
       /\ want \in queue
       /\ buf[want] = NULL
       /\ \/ tid = max_cache_count
          \/ tid < max_cache_count /\ cache[tid] = NULL

(* ready_for_splicing_count counts the entries longer than SpliceMin. *)
Ready == {q \in queue : len[q] > SpliceMin}
ReadyExact == pc # "stop" => ready = Cardinality(Ready)

IInv ==
  /\ TypeOK
  /\ SlotBounds
  /\ SmallestFree
  /\ CachedInQueue
  /\ GetState
  /\ SlotsMatchBuffers
  /\ InUseNotFreed
  /\ Coherent
  /\ ReadyExact
-----------------------------------------------------------------------------
(***************************************************************************)
(* Lemmas about the slot array.                                            *)
(***************************************************************************)
(* A nonempty set of naturals has a least element. *)
LEMMA LeastElement ==
  ASSUME NEW S \in SUBSET Nat, S # {}
  PROVE  \E m \in S : \A k \in S : m <= k
<1>1. PICK m \in S : \A k \in S : ~ (<<k, m>> \in OpToRel(<, Nat))
  BY WFMin, NatLessThanWellFounded
<1>2. \A k \in S : ~ (k < m)
  BY <1>1 DEF OpToRel
<1> QED
  BY <1>2

(* The slots in use are finitely many. *)
LEMMA OccupiedFinite ==
  ASSUME TypeOK
  PROVE  IsFiniteSet(Occupied) /\ Cardinality(Occupied) \in Nat
<1>1. alloc \in Nat /\ Slots = 0 .. alloc - 1
  BY DEF TypeOK, Slots
<1>2. IsFiniteSet(Slots)
  BY <1>1, FS_Interval
<1>3. Occupied \in SUBSET Slots
  BY DEF Occupied
<1> QED
  BY <1>2, <1>3, FS_Subset, FS_CardinalityType

(* As long as the cache is not full by count, one of the slots below the   *)
(* limit on entries is free.                                               *)
LEMMA FreeSlotBelowLimit ==
  ASSUME TypeOK, SlotBounds, SlotsMatchBuffers,
         cache_count < max_cache_entries
  PROVE  \E t \in 0 .. max_cache_entries - 1 : t \in Slots /\ cache[t] = NULL
<1> DEFINE L == 0 .. max_cache_entries - 1
<1>1. max_cache_entries \in Nat \ {0} /\ L \subseteq Slots
  BY DEF TypeOK, Slots
<1>2. IsFiniteSet(Occupied) /\ cache_count = Cardinality(Occupied)
  BY OccupiedFinite DEF SlotsMatchBuffers
<1>3. Cardinality(L) = max_cache_entries
  BY <1>1, FS_Interval
<1>4. ~ (L \subseteq Occupied)
  <2> SUFFICES ASSUME L \in SUBSET Occupied PROVE FALSE
    OBVIOUS
  <2>1. Cardinality(L) <= Cardinality(Occupied)
    BY <1>2, FS_Subset
  <2> QED
    BY <1>1, <1>2, <1>3, <2>1, OccupiedFinite
<1>5. PICK t \in L : t \notin Occupied
  BY <1>4
<1>6. t \in Slots /\ cache[t] \notin Entries
  BY <1>1, <1>5 DEF Occupied
<1>7. cache[t] # Garbage
  BY <1>1, <1>5, <1>6 DEF SlotBounds
<1>8. cache[t] \in Entries \cup {NULL, Garbage}
  BY <1>6 DEF TypeOK
<1> QED
  BY <1>5, <1>6, <1>7, <1>8

(* A search from a start below which nothing is free, or which is itself   *)
(* free, ends below the limit on entries.                                  *)
LEMMA SearchEnds ==
  ASSUME TypeOK, SlotBounds, SlotsMatchBuffers,
         cache_count < max_cache_entries, NEW start \in Nat,
         \/ start < max_cache_entries /\ cache[start] = NULL
         \/ \A t \in Slots : t < start => cache[t] # NULL
  PROVE  /\ FreeSlotFrom(start)
         /\ \A slot \in Slots :
              IsFirstFree(slot, start) => slot < max_cache_entries
<1> DEFINE F == {t \in Nat : /\ start <= t
                             /\ t < max_cache_entries
                             /\ t \in Slots
                             /\ cache[t] = NULL}
<1>1. max_cache_entries \in Nat /\ alloc \in Nat /\ max_cache_entries <= alloc
  BY DEF TypeOK
<1>2. F # {}
  <2>1. CASE start < max_cache_entries /\ cache[start] = NULL
    <3>1. start \in Slots
      BY <1>1, <2>1 DEF Slots
    <3> QED
      BY <3>1, <2>1
  <2>2. CASE \A t \in Slots : t < start => cache[t] # NULL
    <3>1. PICK t \in 0 .. max_cache_entries - 1 : t \in Slots /\ cache[t] = NULL
      BY FreeSlotBelowLimit
    <3>2. t \in Nat /\ t < max_cache_entries /\ ~ (t < start)
      BY <1>1, <3>1, <2>2
    <3> QED
      BY <3>1, <3>2
  <2> QED
    BY <2>1, <2>2
<1>3. PICK m \in F : \A k \in F : m <= k
  <2>1. F \in SUBSET Nat
    OBVIOUS
  <2> QED
    BY <1>2, <2>1, LeastElement
<1>4. \A t \in start .. m - 1 : t \in Slots /\ cache[t] # NULL /\ t < max_cache_entries
  BY <1>1, <1>3 DEF Slots
<1>5. IsFirstFree(m, start)
  BY <1>3, <1>4 DEF IsFirstFree
<1>6. \A t \in start .. m : cache[t] # Garbage
  <2>1. NULL # Garbage
    BY ConstantsAssumption
  <2>2. \A t \in start .. m : t \in Slots /\ t < max_cache_entries
    BY <1>1, <1>3, <1>4
  <2> QED
    BY <1>1, <2>2 DEF SlotBounds
<1>7. FreeSlotFrom(start)
  BY <1>3, <1>5, <1>6 DEF FreeSlotFrom
<1>8. ASSUME NEW slot \in Slots, IsFirstFree(slot, start)
      PROVE  slot < max_cache_entries
  <2>1. slot \in Nat
    BY <1>1 DEF Slots
  <2>2. ~ (m \in start .. slot - 1)
    BY <1>3, <1>8 DEF IsFirstFree
  <2> QED
    BY <1>1, <1>3, <2>1, <2>2
<1> QED
  BY <1>7, <1>8
-----------------------------------------------------------------------------
(***************************************************************************)
(* Registering an entry in a free slot and emptying a slot keep the slots  *)
(* and the buffers in step.                                                *)
(***************************************************************************)
CacheTypes ==
  /\ buf \in [Entries -> Nat \cup {NULL}]
  /\ alloc \in Nat
  /\ cache \in [Slots -> Entries \cup {NULL, Garbage}]
  /\ max_cache_entries \in 1 .. alloc
  /\ max_cache_count \in Nat
  /\ cache_count \in Nat
  /\ cache_size \in Int
  /\ smallest_free \in Nat

LEMMA RegisterPreserves ==
  ASSUME TypeOK, SlotBounds, SmallestFree, SlotsMatchBuffers,
         NEW q \in Entries, buf[q] = NULL,
         NEW slot \in Slots, cache[slot] = NULL, slot < max_cache_entries,
         Register(q, slot), file' = file, UNCHANGED limits
  PROVE  /\ CacheTypes'
         /\ SlotBounds'
         /\ SmallestFree'
         /\ SlotsMatchBuffers'
         /\ buf' = [buf EXCEPT ![q] = file[q]]
<1> USE ConstantsAssumption
<1>1. /\ buf' = [buf EXCEPT ![q] = file[q]]
      /\ cache' = [cache EXCEPT ![slot] = q]
      /\ cache_count' = cache_count + 1
      /\ cache_size' = cache_size + len[q]
      /\ alloc' = alloc /\ max_cache_entries' = max_cache_entries
  BY DEF Register, limits
<1>2. /\ alloc \in Nat
      /\ cache \in [Slots -> Entries \cup {NULL, Garbage}]
      /\ buf \in [Entries -> Nat \cup {NULL}]
      /\ file \in [Entries -> Nat]
      /\ len \in [Entries -> 1 .. MaxFile]
      /\ max_cache_entries \in 1 .. alloc
      /\ max_cache_count \in Nat
      /\ cache_count \in Nat
      /\ cache_size \in Int
      /\ smallest_free \in Nat
      /\ slot \in Nat
  BY DEF TypeOK, Slots
<1>3. Slots' = Slots
  BY <1>1 DEF Slots
<1>4. /\ \A t \in Slots : cache'[t] = IF t = slot THEN q ELSE cache[t]
      /\ \A p \in Entries : buf'[p] = IF p = q THEN file[q] ELSE buf[p]
  BY <1>1, <1>2
<1>5. /\ max_cache_count' = IF slot >= max_cache_count THEN slot + 1
                                                       ELSE max_cache_count
      /\ smallest_free' = IF slot < max_cache_count /\ slot = smallest_free
                          THEN slot + 1 ELSE smallest_free
  BY <1>2 DEF Register
<1>6. CacheTypes'
  <2>1. len[q] \in Int
    BY <1>2
  <2>2. /\ cache' \in [Slots' -> Entries \cup {NULL, Garbage}]
        /\ buf' \in [Entries -> Nat \cup {NULL}]
    BY <1>1, <1>2, <1>3
  <2>3. /\ max_cache_count' \in Nat /\ smallest_free' \in Nat
        /\ cache_count' \in Nat /\ cache_size' \in Int
        /\ alloc' \in Nat /\ max_cache_entries' \in 1 .. alloc'
    BY <1>1, <1>2, <1>5, <2>1
  <2> QED
    BY <2>2, <2>3 DEF CacheTypes
<1>7. SlotBounds'
  <2>1. max_cache_count' <= max_cache_entries'
    BY <1>1, <1>2, <1>5 DEF SlotBounds
  <2>2. ASSUME NEW t \in Slots
        PROVE  /\ cache'[t] \in Entries => t < max_cache_count'
               /\ cache'[t] = Garbage => t >= max_cache_entries'
    <3>1. t \in Nat
      BY <1>2 DEF Slots
    <3> QED
      BY <1>1, <1>2, <1>4, <1>5, <3>1 DEF SlotBounds
  <2> QED
    BY <1>3, <2>1, <2>2 DEF SlotBounds
<1>8. SmallestFree'
  <2>1. smallest_free' <= max_cache_count'
    BY <1>2, <1>5 DEF SmallestFree
  <2>2. ASSUME NEW t \in Slots, t < smallest_free'
        PROVE  cache'[t] # NULL
    <3>1. t \in Nat
      BY <1>2 DEF Slots
    <3> QED
      BY <1>2, <1>4, <1>5, <2>2, <3>1 DEF SmallestFree
  <2> QED
    BY <1>3, <2>1, <2>2 DEF SmallestFree
<1>9. SlotsMatchBuffers'
  <2>1. Occupied' = Occupied \cup {slot} /\ slot \notin Occupied
    <3>1. slot \notin Occupied
      BY DEF Occupied
    <3>2. Occupied' = {t \in Slots : cache'[t] \in Entries}
      BY <1>3 DEF Occupied
    <3>3. \A t \in Slots : cache'[t] \in Entries <=> t = slot \/ cache[t] \in Entries
      BY <1>4
    <3> QED
      BY <3>1, <3>2, <3>3 DEF Occupied
  <2>2. cache_count' = Cardinality(Occupied')
    <3>1. Cardinality(Occupied \cup {slot}) = Cardinality(Occupied) + 1
      BY <2>1, OccupiedFinite, FS_AddElement
    <3> QED
      BY <1>1, <2>1, <3>1 DEF SlotsMatchBuffers
  <2>3. \A t \in Occupied : cache[t] # q /\ t \in Slots /\ cache[t] \in Entries
    BY DEF SlotsMatchBuffers, Occupied
  <2>4. \A t \in Occupied' : buf'[cache'[t]] # NULL
    <3>1. file[q] # NULL
      BY <1>2
    <3> QED
      BY <1>4, <2>1, <2>3, <3>1 DEF SlotsMatchBuffers
  <2>5. \A p \in Cached' : \E t \in Occupied' : cache'[t] = p
    <3> SUFFICES ASSUME NEW p \in Entries, buf'[p] # NULL
                 PROVE  \E t \in Occupied' : cache'[t] = p
      BY DEF Cached
    <3>1. CASE p = q
      BY <1>4, <2>1, <3>1
    <3>2. CASE p # q
      <4>1. p \in Cached
        BY <1>4, <3>2 DEF Cached
      <4>2. PICK t \in Occupied : cache[t] = p
        BY <4>1 DEF SlotsMatchBuffers
      <4> QED
        BY <1>4, <2>1, <2>3, <4>2
    <3> QED
      BY <3>1, <3>2
  <2>6. \A t, u \in Occupied' : cache'[t] = cache'[u] => t = u
    <3> SUFFICES ASSUME NEW t \in Occupied', NEW u \in Occupied',
                        cache'[t] = cache'[u]
                 PROVE  t = u
      OBVIOUS
    <3> QED
      BY <1>4, <2>1, <2>3 DEF SlotsMatchBuffers
  <2> QED
    BY <2>2, <2>4, <2>5, <2>6 DEF SlotsMatchBuffers
<1> QED
  BY <1>1, <1>6, <1>7, <1>8, <1>9

(* Learning the limit keeps every slot in use and exposes no uninitialised *)
(* slot below the new limit.                                               *)
LEMMA LearningPreserves ==
  ASSUME TypeOK, SlotBounds
  PROVE  /\ LearnedAlloc \in Nat
         /\ LearnedEntries \in 1 .. LearnedAlloc
         /\ max_cache_count <= LearnedEntries
         /\ \A t \in Nat : t < max_cache_count => t < LearnedAlloc /\ t \in Slots
         /\ \A t \in 0 .. LearnedAlloc - 1 :
              LearnedCache[t] = IF t \in Slots THEN cache[t] ELSE Garbage
         /\ \A t \in 0 .. LearnedAlloc - 1 :
              t \notin Slots => t >= LearnedEntries
         /\ LearnedEntries <= alloc
         /\ LearnedEntries <= max_cache_entries
<1>1. /\ alloc \in Nat
      /\ max_cache_entries \in 1 .. alloc
      /\ max_cache_count \in Nat
      /\ cache_count \in Nat
      /\ max_cache_count <= max_cache_entries
  BY DEF TypeOK, SlotBounds
<1>2. CASE Learns
  <2>1. /\ LearnedEntries = IF max_cache_count > cache_count
                            THEN max_cache_count + 1 ELSE cache_count + 1
        /\ LearnedAlloc = LearnedEntries + 1
        /\ cache_count < max_cache_entries
        /\ max_cache_count < max_cache_entries
    BY <1>2 DEF LearnedEntries, LearnedAlloc, Learns
  <2> QED
    BY <1>1, <2>1 DEF LearnedCache, Slots
<1>3. CASE ~Learns
  <2>1. LearnedEntries = max_cache_entries /\ LearnedAlloc = alloc
    BY <1>3 DEF LearnedEntries, LearnedAlloc
  <2> QED
    BY <1>1, <2>1 DEF LearnedCache, Slots
<1> QED
  BY <1>2, <1>3

LEMMA EvictPreserves ==
  ASSUME IInv, Evict
  PROVE  IInv'
<1> USE ConstantsAssumption
<1>a. TypeOK /\ SlotBounds /\ SmallestFree /\ SlotsMatchBuffers /\ GetState
  BY DEF IInv
<1>b. pc = "get" /\ Full(len[want])
  BY DEF Evict
<1>1. PICK t \in Victims :
        /\ tid' = t
        /\ buf' = [buf EXCEPT ![LearnedCache[t]] = NULL]
        /\ cache' = [LearnedCache EXCEPT ![t] = NULL]
        /\ cache_size' = cache_size - len[LearnedCache[t]]
        /\ smallest_free' = IF t < smallest_free THEN t ELSE smallest_free
  BY DEF Evict
<1>2. /\ cache_count' = cache_count - 1
      /\ max_cache_entries' = LearnedEntries
      /\ alloc' = LearnedAlloc
      /\ do_once' = (do_once \/ Learns)
      /\ UNCHANGED <<queue, len, file, trim_done, ready, queue_cur,
                     max_cache_count, want, pc>>
  BY DEF Evict, queueVars
<1>3. /\ alloc \in Nat
      /\ cache \in [Slots -> Entries \cup {NULL, Garbage}]
      /\ buf \in [Entries -> Nat \cup {NULL}]
      /\ file \in [Entries -> Nat]
      /\ len \in [Entries -> 1 .. MaxFile]
      /\ max_cache_entries \in 1 .. alloc
      /\ max_cache_count \in Nat
      /\ cache_count \in Nat
      /\ cache_size \in Int
      /\ smallest_free \in Nat
  BY <1>a DEF TypeOK
<1>4. /\ LearnedAlloc \in Nat
      /\ LearnedEntries \in 1 .. LearnedAlloc
      /\ max_cache_count <= LearnedEntries
      /\ \A u \in Nat : u < max_cache_count => u < LearnedAlloc /\ u \in Slots
      /\ \A u \in 0 .. LearnedAlloc - 1 :
           LearnedCache[u] = IF u \in Slots THEN cache[u] ELSE Garbage
      /\ \A u \in 0 .. LearnedAlloc - 1 : u \notin Slots => u >= LearnedEntries
      /\ LearnedEntries <= max_cache_entries
  BY <1>a, LearningPreserves
<1>5. /\ t \in Nat /\ t < max_cache_count
      /\ t \in Slots /\ t \in 0 .. LearnedAlloc - 1
      /\ cache[t] \in Entries /\ cache[t] # queue_cur
      /\ LearnedCache[t] = cache[t]
  <2>1. t \in Nat /\ t < max_cache_count /\ cache[t] \notin {NULL, queue_cur}
    BY <1>3 DEF Victims
  <2>2. t \in Slots /\ t \in 0 .. LearnedAlloc - 1
    BY <1>4, <2>1
  <2>3. cache[t] # Garbage
    BY <1>a, <1>3, <2>1, <2>2 DEF SlotBounds
  <2> QED
    BY <1>3, <1>4, <2>1, <2>2, <2>3
<1>6. Slots' = 0 .. LearnedAlloc - 1
  BY <1>2 DEF Slots
<1>7. /\ \A u \in Slots' : cache'[u] = IF u = t THEN NULL
                                       ELSE IF u \in Slots THEN cache[u]
                                       ELSE Garbage
      /\ \A p \in Entries : buf'[p] = IF p = cache[t] THEN NULL ELSE buf[p]
  <2>1. cache' = [LearnedCache EXCEPT ![t] = NULL] /\ DOMAIN LearnedCache = Slots'
    BY <1>1, <1>6 DEF LearnedCache
  <2>2. \A u \in Slots' : cache'[u] = IF u = t THEN NULL ELSE LearnedCache[u]
    BY <2>1
  <2> QED
    BY <1>1, <1>3, <1>4, <1>5, <1>6, <2>2
<1>8. t \in Occupied /\ Occupied' = Occupied \ {t}
  <2>1. t \in Occupied
    BY <1>5 DEF Occupied
  <2>2. \A u \in Occupied : u \in Slots'
    <3>1. \A u \in Occupied : u \in Nat /\ u < max_cache_count
      BY <1>a, <1>3 DEF Occupied, SlotBounds, Slots
    <3> QED
      BY <1>4, <1>6, <3>1
  <2>3. Occupied' = {u \in Slots' : cache'[u] \in Entries}
    BY DEF Occupied
  <2>4. \A u \in Slots' : cache'[u] \in Entries <=> u \in Occupied /\ u # t
    BY <1>7 DEF Occupied
  <2> QED
    BY <2>1, <2>2, <2>3, <2>4
<1>9. cache_count' \in Nat /\ cache_count' = Cardinality(Occupied')
  <2>1. cache_count = Cardinality(Occupied)
    BY <1>a DEF SlotsMatchBuffers
  <2>2. /\ IsFiniteSet(Occupied')
        /\ Cardinality(Occupied') = Cardinality(Occupied) - 1
    BY <1>a, <1>8, OccupiedFinite, FS_RemoveElement
  <2>3. Cardinality(Occupied') \in Nat
    BY <2>2, FS_CardinalityType
  <2> QED
    BY <1>2, <2>1, <2>2, <2>3
<1>10. TypeOK'
  <2>1. cache' \in [Slots' -> Entries \cup {NULL, Garbage}]
    <3>1. LearnedCache \in [Slots' -> Entries \cup {NULL, Garbage}]
      BY <1>3, <1>6 DEF LearnedCache
    <3> QED
      BY <1>1, <3>1
  <2>2. buf' \in [Entries -> Nat \cup {NULL}]
    BY <1>1, <1>3
  <2>3. cache_size' \in Int /\ smallest_free' \in Nat /\ tid' \in Nat
    <3>1. len[LearnedCache[t]] \in Int
      BY <1>3, <1>5
    <3> QED
      BY <1>1, <1>3, <1>5, <3>1
  <2>4. do_once' \in BOOLEAN
    BY <1>2, <1>a DEF TypeOK, Learns
  <2>5. alloc' \in Nat /\ max_cache_entries' \in 1 .. alloc'
    BY <1>2, <1>4
  <2> QED
    BY <1>a, <1>2, <1>9, <2>1, <2>2, <2>3, <2>4, <2>5 DEF TypeOK
<1>11. SlotBounds'
  <2>1. ASSUME NEW u \in Slots'
        PROVE  /\ cache'[u] \in Entries => u < max_cache_count'
               /\ cache'[u] = Garbage => u >= max_cache_entries'
    <3>1. u \in Nat
      BY <1>4, <1>6
    <3>2. CASE u \in Slots /\ u # t
      <4>1. cache'[u] = cache[u]
        BY <1>7, <3>2
      <4> QED
        BY <1>a, <1>2, <1>3, <1>4, <3>1, <3>2, <4>1 DEF SlotBounds
    <3>3. CASE u \notin Slots /\ u # t
      <4>1. cache'[u] = Garbage
        BY <1>7, <3>3
      <4> QED
        BY <1>2, <1>4, <1>6, <3>3, <4>1
    <3>4. CASE u = t
      BY <1>7, <3>4
    <3> QED
      BY <3>2, <3>3, <3>4
  <2>2. max_cache_count' <= max_cache_entries'
    BY <1>2, <1>4
  <2> QED
    BY <2>1, <2>2 DEF SlotBounds
<1>12. SmallestFree'
  <2>1. smallest_free' <= max_cache_count'
    BY <1>a, <1>1, <1>2, <1>3, <1>5 DEF SmallestFree
  <2>2. ASSUME NEW u \in Slots', u < smallest_free'
        PROVE  cache'[u] # NULL
    <3>1. u \in Nat
      BY <1>4, <1>6
    <3>2. smallest_free' = IF t < smallest_free THEN t ELSE smallest_free
      BY <1>1
    <3>3. u < smallest_free /\ u < t
      BY <1>3, <1>5, <2>2, <3>1, <3>2
    <3> QED
      BY <1>a, <1>5, <1>7, <3>1, <3>3 DEF SmallestFree
  <2> QED
    BY <2>1, <2>2 DEF SmallestFree
<1>13. SlotsMatchBuffers'
  <2>1. \A u \in Occupied' : /\ cache'[u] = cache[u] /\ u \in Occupied
                             /\ cache[u] \in Entries /\ cache[u] # cache[t]
    BY <1>a, <1>7, <1>8 DEF SlotsMatchBuffers, Occupied
  <2>2. \A u \in Occupied' : buf'[cache'[u]] # NULL
    BY <1>a, <1>7, <2>1 DEF SlotsMatchBuffers
  <2>3. \A p \in Cached' : \E u \in Occupied' : cache'[u] = p
    <3> SUFFICES ASSUME NEW p \in Entries, buf'[p] # NULL
                 PROVE  \E u \in Occupied' : cache'[u] = p
      BY DEF Cached
    <3>1. p # cache[t] /\ p \in Cached
      BY <1>7 DEF Cached
    <3>2. PICK u \in Occupied : cache[u] = p
      BY <1>a, <3>1 DEF SlotsMatchBuffers
    <3> QED
      BY <1>8, <2>1, <3>1, <3>2
  <2>4. \A u, v \in Occupied' : cache'[u] = cache'[v] => u = v
    BY <1>a, <2>1 DEF SlotsMatchBuffers
  <2> QED
    BY <1>9, <2>2, <2>3, <2>4 DEF SlotsMatchBuffers
<1>14. CachedInQueue' /\ Coherent'
  BY <1>2, <1>7 DEF IInv, CachedInQueue, Coherent, Cached
<1>15. GetState'
  <2>1. cache'[t] = NULL
    BY <1>5, <1>6, <1>7
  <2>2. want \in Entries /\ buf'[want] = NULL
    BY <1>a, <1>b, <1>7 DEF GetState, TypeOK
  <2> QED
    BY <1>a, <1>b, <1>1, <1>2, <1>5, <2>1, <2>2 DEF GetState
<1>16. InUseNotFreed'
  <2>1. queue_cur \in Entries
    BY <1>a, <1>b DEF GetState, TypeOK
  <2> QED
    BY <1>2, <1>5, <1>7, <2>1 DEF IInv, InUseNotFreed, InUse
<1>17. ReadyExact'
  BY <1>2 DEF IInv, ReadyExact, Ready
<1> QED
  BY <1>10, <1>11, <1>12, <1>13, <1>14, <1>15, <1>16, <1>17 DEF IInv
-----------------------------------------------------------------------------
(***************************************************************************)
(* The other actions.                                                      *)
(***************************************************************************)
(* The searches of queue_testcase_get() and queue_testcase_store_mem() start *)
(* where SearchEnds wants them to.                                         *)
LEMMA GetSearch ==
  ASSUME IInv, pc = "get", ~Full(len[want])
  PROVE  /\ FreeSlotFrom(GetStart)
         /\ \A slot \in Slots :
              IsFirstFree(slot, GetStart) => slot < max_cache_entries
<1> USE ConstantsAssumption
<1>1. /\ TypeOK /\ SlotBounds /\ SlotsMatchBuffers /\ SmallestFree /\ GetState
      /\ max_cache_entries \in Nat /\ max_cache_count \in Nat
      /\ max_cache_entries <= alloc /\ alloc \in Nat
      /\ cache_count \in Nat /\ smallest_free \in Nat /\ tid \in Nat
      /\ cache \in [Slots -> Entries \cup {NULL, Garbage}]
  BY DEF IInv, TypeOK
<1>2. cache_count < max_cache_entries
  BY <1>1 DEF Full
<1>3. CASE tid >= max_cache_entries
  <2>1. GetStart = smallest_free
    BY <1>3 DEF GetStart
  <2>2. \A t \in Slots : t < smallest_free => cache[t] # NULL
    BY <1>1 DEF SmallestFree
  <2> QED
    BY <1>1, <1>2, <2>1, <2>2, SearchEnds
<1>4. CASE ~ (tid >= max_cache_entries)
  <2>1. GetStart = tid /\ tid < max_cache_entries /\ tid \in Slots
    BY <1>1, <1>4 DEF GetStart, Slots
  <2>2. cache[tid] = NULL
    BY <1>1, <2>1 DEF GetState, SlotBounds
  <2> QED
    BY <1>1, <1>2, <2>1, <2>2, SearchEnds
<1> QED
  BY <1>3, <1>4

LEMMA StoreSearch ==
  ASSUME IInv, NEW q \in Entries, ~Full(len[q])
  PROVE  /\ FreeSlotFrom(StoreStart)
         /\ \A slot \in Slots :
              IsFirstFree(slot, StoreStart) => slot < max_cache_entries
<1> USE ConstantsAssumption
<1>1. /\ TypeOK /\ SlotBounds /\ SlotsMatchBuffers /\ SmallestFree
      /\ max_cache_entries \in Nat /\ max_cache_count \in Nat
      /\ max_cache_entries <= alloc /\ alloc \in Nat
      /\ cache_count \in Nat /\ smallest_free \in Nat
      /\ cache \in [Slots -> Entries \cup {NULL, Garbage}]
  BY DEF IInv, TypeOK
<1>2. cache_count < max_cache_entries
  BY <1>1 DEF Full
<1>3. CASE max_cache_count >= max_cache_entries
  <2>1. StoreStart = smallest_free
    BY <1>3 DEF StoreStart
  <2>2. \A t \in Slots : t < smallest_free => cache[t] # NULL
    BY <1>1 DEF SmallestFree
  <2> QED
    BY <1>1, <1>2, <2>1, <2>2, SearchEnds
<1>4. CASE ~ (max_cache_count >= max_cache_entries)
  <2>1. /\ StoreStart = max_cache_count
        /\ max_cache_count < max_cache_entries
        /\ max_cache_count \in Slots
    BY <1>1, <1>4 DEF StoreStart, Slots
  <2>2. cache[max_cache_count] = NULL
    BY <1>1, <2>1 DEF SlotBounds
  <2> QED
    BY <1>1, <1>2, <2>1, <2>2, SearchEnds
<1> QED
  BY <1>3, <1>4

LEMMA LoadPreserves ==
  ASSUME IInv, Load
  PROVE  IInv'
<1> USE ConstantsAssumption
<1>1. /\ TypeOK /\ SlotBounds /\ SlotsMatchBuffers /\ SmallestFree
      /\ CachedInQueue /\ GetState /\ Coherent /\ ReadyExact /\ InUseNotFreed
  BY DEF IInv
<1>2. /\ pc = "get" /\ ~Full(len[want]) /\ pc' = CallerOf(want, queue_cur)
      /\ UNCHANGED <<queue, len, file, trim_done, ready, queue_cur, limits,
                     alloc, max_cache_entries, do_once, tid, want>>
  BY DEF Load, queueVars, limits
<1>3. PICK slot \in Slots : IsFirstFree(slot, GetStart) /\ Register(want, slot)
  BY DEF Load
<1>4. want \in queue /\ want \in Entries /\ buf[want] = NULL
  BY <1>1, <1>2 DEF GetState, TypeOK
<1>5. slot < max_cache_entries /\ cache[slot] = NULL
  BY <1>2, <1>3, GetSearch DEF IsFirstFree
<1>6. /\ CacheTypes' /\ SlotBounds' /\ SmallestFree' /\ SlotsMatchBuffers'
      /\ buf' = [buf EXCEPT ![want] = file[want]]
  BY <1>1, <1>2, <1>3, <1>4, <1>5, RegisterPreserves
<1>7. /\ file \in [Entries -> Nat] /\ buf \in [Entries -> Nat \cup {NULL}]
      /\ queue \subseteq Entries
  BY <1>1 DEF TypeOK
<1>8. \A p \in Entries : buf'[p] = IF p = want THEN file[p] ELSE buf[p]
  BY <1>6, <1>7
<1>9. pc' \in {"loaded", "fuzz"} /\ (pc' = "fuzz" => want # queue_cur)
  BY <1>2 DEF CallerOf
<1>10. TypeOK'
  BY <1>1, <1>2, <1>6, <1>9 DEF TypeOK, CacheTypes
<1>11. CachedInQueue' /\ Coherent'
  BY <1>1, <1>2, <1>4, <1>8 DEF CachedInQueue, Coherent, Cached
<1>12. GetState'
  BY <1>1, <1>2, <1>9 DEF GetState
<1>13. InUseNotFreed'
  <2>1. queue_cur \in Entries /\ file[queue_cur] # NULL
    BY <1>1, <1>2, <1>7 DEF GetState
  <2> QED
    BY <1>1, <1>2, <1>8, <2>1 DEF InUseNotFreed, InUse
<1>14. ReadyExact'
  BY <1>1, <1>2 DEF ReadyExact, Ready
<1> QED
  BY <1>6, <1>10, <1>11, <1>12, <1>13, <1>14 DEF IInv

LEMMA AddEntryPreserves ==
  ASSUME IInv, NEW q \in Entries, AddEntry(q)
  PROVE  IInv'
<1> USE ConstantsAssumption
<1>1. /\ TypeOK /\ SlotBounds /\ SlotsMatchBuffers /\ SmallestFree
      /\ CachedInQueue /\ GetState /\ Coherent /\ ReadyExact /\ InUseNotFreed
  BY DEF IInv
<1>2. /\ pc \in {"select", "fuzz"} /\ q \notin queue
      /\ queue' = queue \cup {q}
      /\ ready' = IF len[q] > SpliceMin THEN ready + 1 ELSE ready
      /\ UNCHANGED <<len, file, trim_done, limits, alloc, max_cache_entries,
                     do_once, tid, want, queue_cur, pc>>
  BY DEF AddEntry, limits
<1>3. /\ file \in [Entries -> Nat] /\ buf \in [Entries -> Nat \cup {NULL}]
      /\ queue \subseteq Entries /\ len \in [Entries -> 1 .. MaxFile]
      /\ ready \in Int
  BY <1>1 DEF TypeOK
<1>4. buf[q] = NULL
  BY <1>1, <1>2 DEF CachedInQueue
<1>5. /\ CacheTypes' /\ SlotBounds' /\ SmallestFree' /\ SlotsMatchBuffers'
      /\ buf' = buf \/ buf' = [buf EXCEPT ![q] = file[q]]
  <2>1. CASE Full(len[q])
    <3>1. UNCHANGED <<buf, cache, max_cache_count, cache_count, cache_size,
                      smallest_free, alloc, max_cache_entries>>
      BY <1>2, <2>1 DEF AddEntry
    <3> QED
      BY <1>1, <3>1 DEF CacheTypes, TypeOK, SlotBounds, SmallestFree,
                        SlotsMatchBuffers, Slots, Occupied, Cached
  <2>2. CASE ~Full(len[q])
    <3>1. PICK slot \in Slots : IsFirstFree(slot, StoreStart) /\ Register(q, slot)
      BY <2>2 DEF AddEntry
    <3>2. slot < max_cache_entries /\ cache[slot] = NULL
      BY <2>2, <3>1, StoreSearch DEF IsFirstFree
    <3> QED
      BY <1>1, <1>2, <1>4, <3>1, <3>2, RegisterPreserves
  <2> QED
    BY <2>1, <2>2
<1>6. \A p \in Entries : buf'[p] = buf[p] \/ (p = q /\ buf'[p] = file[p])
  BY <1>3, <1>5
<1>7. TypeOK'
  <2>1. ready' \in Int /\ queue' \in SUBSET Entries
    BY <1>2, <1>3
  <2> QED
    BY <1>1, <1>2, <1>5, <2>1 DEF TypeOK, CacheTypes
<1>8. CachedInQueue' /\ Coherent'
  BY <1>1, <1>2, <1>6 DEF CachedInQueue, Coherent, Cached
<1>9. GetState'
  BY <1>1, <1>2 DEF GetState
<1>10. InUseNotFreed'
  <2>1. pc = "fuzz" => queue_cur \in Entries /\ queue_cur # q
    BY <1>1, <1>2, <1>3 DEF GetState
  <2> QED
    BY <1>1, <1>2, <1>6, <2>1 DEF InUseNotFreed, InUse
<1>11. ReadyExact'
  <2>1. IsFiniteSet(Ready)
    <3>1. Ready \in SUBSET Entries
      BY <1>3 DEF Ready
    <3> QED
      BY <3>1, FS_Subset
  <2>2. /\ Ready' = IF len[q] > SpliceMin THEN Ready \cup {q} ELSE Ready
        /\ q \notin Ready
    BY <1>2 DEF Ready
  <2>3. Cardinality(Ready \cup {q}) = Cardinality(Ready) + 1
    BY <2>1, <2>2, FS_AddElement
  <2> QED
    BY <1>1, <1>2, <2>2, <2>3 DEF ReadyExact
<1> QED
  BY <1>5, <1>7, <1>8, <1>9, <1>10, <1>11 DEF IInv

(* The length of queue_cur changes; the slots do not. *)
LEMMA TrimCasePreserves ==
  ASSUME IInv, NEW l \in 1 .. MaxFile, TrimCase(l)
  PROVE  IInv'
<1> USE ConstantsAssumption
<1>1. /\ TypeOK /\ SlotBounds /\ SlotsMatchBuffers /\ SmallestFree
      /\ CachedInQueue /\ GetState /\ Coherent /\ ReadyExact /\ InUseNotFreed
  BY DEF IInv
<1>2. /\ pc = "loaded" /\ pc' = "fuzz" /\ l \in 1 .. len[queue_cur]
      /\ len' = [len EXCEPT ![queue_cur] = l]
      /\ file' = [file EXCEPT ![queue_cur] = @ + 1]
      /\ trim_done' = trim_done \cup {queue_cur}
      /\ ready' = ReadyAfterTrim(l)
      /\ UNCHANGED <<queue, cache, alloc, max_cache_entries, do_once,
                     max_cache_count, cache_count, smallest_free, tid, want,
                     queue_cur>>
  BY DEF TrimCase, limits
<1>3. /\ file \in [Entries -> Nat] /\ buf \in [Entries -> Nat \cup {NULL}]
      /\ len \in [Entries -> 1 .. MaxFile] /\ queue \subseteq Entries
      /\ cache_size \in Int /\ ready \in Int /\ l \in Nat
      /\ queue_cur \in Entries /\ queue_cur \in queue
      /\ buf[queue_cur] # NULL
  BY <1>1, <1>2 DEF TypeOK, GetState, InUseNotFreed, InUse
<1>4. /\ buf' = [buf EXCEPT ![queue_cur] = file'[queue_cur]]
      /\ cache_size' = cache_size + l - len[queue_cur]
  BY <1>2, <1>3 DEF TrimCase, Retake
<1>5. \A p \in Entries :
        /\ file'[p] = IF p = queue_cur THEN file[p] + 1 ELSE file[p]
        /\ buf'[p] = IF p = queue_cur THEN file'[p] ELSE buf[p]
        /\ len'[p] = IF p = queue_cur THEN l ELSE len[p]
  BY <1>2, <1>3, <1>4
<1>6. file' \in [Entries -> Nat]
  BY <1>2, <1>3
<1>7. \A p \in Entries : buf'[p] # NULL <=> buf[p] # NULL
  BY <1>3, <1>5, <1>6
<1>8. TypeOK'
  <2>1. buf' \in [Entries -> Nat \cup {NULL}] /\ len' \in [Entries -> 1 .. MaxFile]
    BY <1>2, <1>3, <1>4, <1>6
  <2>2. cache_size' \in Int /\ ready' \in Int
    BY <1>2, <1>3, <1>4 DEF ReadyAfterTrim
  <2>3. trim_done' \in SUBSET Entries
    BY <1>1, <1>2, <1>3 DEF TypeOK
  <2> QED
    BY <1>1, <1>2, <1>6, <2>1, <2>2, <2>3 DEF TypeOK, Slots
<1>9. SlotBounds' /\ SmallestFree'
  BY <1>1, <1>2 DEF SlotBounds, SmallestFree, Slots
<1>10. SlotsMatchBuffers'
  <2>1. Occupied' = Occupied /\ cache' = cache
    BY <1>2 DEF Occupied, Slots
  <2>2. Cached' = Cached
    BY <1>7 DEF Cached
  <2>3. \A t \in Occupied : cache[t] \in Entries
    BY DEF Occupied
  <2> QED
    BY <1>1, <1>2, <1>7, <2>1, <2>2, <2>3 DEF SlotsMatchBuffers
<1>11. CachedInQueue' /\ Coherent'
  BY <1>1, <1>2, <1>3, <1>5, <1>7 DEF CachedInQueue, Coherent, Cached
<1>12. GetState' /\ InUseNotFreed'
  BY <1>1, <1>2, <1>3, <1>7 DEF GetState, InUseNotFreed, InUse
<1>13. ReadyExact'
  <2>1. IsFiniteSet(Ready)
    <3>1. Ready \in SUBSET Entries
      BY <1>3 DEF Ready
    <3> QED
      BY <3>1, FS_Subset
  <2>2. Ready' = IF l > SpliceMin THEN Ready ELSE Ready \ {queue_cur}
    BY <1>2, <1>3, <1>5 DEF Ready
  <2>3. queue_cur \in Ready <=> len[queue_cur] > SpliceMin
    BY <1>3 DEF Ready
  <2>4. Cardinality(Ready \ {queue_cur}) =
          IF queue_cur \in Ready THEN Cardinality(Ready) - 1 ELSE Cardinality(Ready)
    BY <2>1, FS_RemoveElement
  <2>5. ready = Cardinality(Ready)
    BY <1>1, <1>2 DEF ReadyExact
  <2> QED
    BY <1>2, <1>3, <2>2, <2>3, <2>4, <2>5 DEF ReadyExact, ReadyAfterTrim
<1> QED
  BY <1>8, <1>9, <1>10, <1>11, <1>12, <1>13 DEF IInv

LEMMA TrimAbortPreserves ==
  ASSUME IInv, NEW l \in 1 .. MaxFile, TrimAbort(l)
  PROVE  IInv'
<1> USE ConstantsAssumption
<1>1. /\ TypeOK /\ SlotBounds /\ SlotsMatchBuffers /\ SmallestFree
      /\ CachedInQueue /\ GetState /\ InUseNotFreed
  BY DEF IInv
<1>2. /\ pc = "loaded" /\ pc' = "stop"
      /\ len' = [len EXCEPT ![queue_cur] = l]
      /\ buf' = [buf EXCEPT ![queue_cur] = @ + 1]
      /\ UNCHANGED <<queue, file, trim_done, ready, cache, alloc,
                     max_cache_entries, do_once, max_cache_count, cache_count,
                     cache_size, smallest_free, tid, want, queue_cur>>
  BY DEF TrimAbort, limits
<1>3. /\ buf \in [Entries -> Nat \cup {NULL}] /\ queue_cur \in Entries
      /\ len \in [Entries -> 1 .. MaxFile] /\ queue_cur \in queue
      /\ buf[queue_cur] # NULL
  BY <1>1, <1>2 DEF TypeOK, GetState, InUseNotFreed, InUse
<1>4. buf[queue_cur] \in Nat
  BY <1>3
<1>5. \A p \in Entries : buf'[p] # NULL <=> buf[p] # NULL
  BY <1>2, <1>3, <1>4
<1>6. TypeOK'
  <2>1. buf' \in [Entries -> Nat \cup {NULL}] /\ len' \in [Entries -> 1 .. MaxFile]
    BY <1>2, <1>3, <1>4
  <2> QED
    BY <1>1, <1>2, <2>1 DEF TypeOK, Slots
<1>7. SlotBounds' /\ SmallestFree'
  BY <1>1, <1>2 DEF SlotBounds, SmallestFree, Slots
<1>8. SlotsMatchBuffers'
  <2>1. Occupied' = Occupied /\ cache' = cache
    BY <1>2 DEF Occupied, Slots
  <2>2. Cached' = Cached
    BY <1>5 DEF Cached
  <2>3. \A t \in Occupied : cache[t] \in Entries
    BY DEF Occupied
  <2> QED
    BY <1>1, <1>2, <1>5, <2>1, <2>2, <2>3 DEF SlotsMatchBuffers
<1>9. CachedInQueue'
  BY <1>1, <1>2, <1>5 DEF CachedInQueue
<1>10. /\ GetState' /\ InUseNotFreed' /\ Coherent' /\ ReadyExact'
  BY <1>1, <1>2, <1>3 DEF GetState, InUseNotFreed, InUse, Coherent, ReadyExact
<1> QED
  BY <1>6, <1>7, <1>8, <1>9, <1>10 DEF IInv

(* Steps of fuzz_one() that leave the cache alone. *)
LEMMA QuietPreserves ==
  ASSUME IInv,
         \/ \E q \in Entries : SelectEntry(q) \/ Splice(q)
         \/ SkipTrim \/ FuzzDone \/ UNCHANGED vars
  PROVE  IInv'
<1> USE ConstantsAssumption
<1>1. /\ TypeOK /\ SlotBounds /\ SlotsMatchBuffers /\ SmallestFree
      /\ CachedInQueue /\ GetState /\ Coherent /\ ReadyExact /\ InUseNotFreed
  BY DEF IInv
<1>2. UNCHANGED <<queue, len, file, buf, ready, alloc, cache, max_cache_entries,
                  max_cache_count, cache_count, cache_size, smallest_free,
                  do_once>>
  BY DEF SelectEntry, Splice, SkipTrim, FuzzDone, vars, queueVars, limits
<1>3. /\ SlotBounds' /\ SmallestFree' /\ SlotsMatchBuffers' /\ CachedInQueue'
  BY <1>1, <1>2 DEF SlotBounds, SmallestFree, SlotsMatchBuffers, CachedInQueue,
                    Slots, Occupied, Cached
<1>4. Ready' = Ready /\ Cached' = Cached /\ Slots' = Slots
  BY <1>2 DEF Ready, Cached, Slots
<1>5. queue \subseteq Entries /\ max_cache_count \in Nat
  BY <1>1 DEF TypeOK
<1>6. ASSUME NEW q \in Entries, SelectEntry(q) PROVE IInv'
  <2>1. /\ pc = "select" /\ q \in queue /\ queue_cur' = q /\ trim_done' = trim_done
        /\ IF buf[q] # NULL
           THEN pc' = "loaded" /\ UNCHANGED <<tid, want>>
           ELSE pc' = "get" /\ want' = q /\ tid' = max_cache_count
    BY <1>6 DEF SelectEntry, Request, CallerOf
  <2>2. TypeOK'
    BY <1>1, <1>2, <1>4, <1>5, <2>1 DEF TypeOK
  <2>3. GetState' /\ InUseNotFreed'
    BY <1>1, <1>2, <2>1 DEF GetState, InUseNotFreed, InUse
  <2>4. Coherent' /\ ReadyExact'
    BY <1>1, <1>2, <1>4, <2>1 DEF Coherent, ReadyExact
  <2> QED
    BY <1>3, <2>2, <2>3, <2>4 DEF IInv
<1>7. ASSUME NEW q \in Entries, Splice(q) PROVE IInv'
  <2>1. /\ pc = "fuzz" /\ q \in queue /\ q # queue_cur
        /\ UNCHANGED <<queue_cur, trim_done>>
        /\ IF buf[q] # NULL
           THEN pc' = "fuzz" /\ UNCHANGED <<tid, want>>
           ELSE pc' = "get" /\ want' = q /\ tid' = max_cache_count
    BY <1>7 DEF Splice, Request, CallerOf, Partners, queueVars
  <2>2. TypeOK'
    BY <1>1, <1>2, <1>4, <1>5, <2>1 DEF TypeOK
  <2>3. GetState' /\ InUseNotFreed'
    BY <1>1, <1>2, <2>1 DEF GetState, InUseNotFreed, InUse
  <2>4. Coherent' /\ ReadyExact'
    BY <1>1, <1>2, <1>4, <2>1 DEF Coherent, ReadyExact
  <2> QED
    BY <1>3, <2>2, <2>3, <2>4 DEF IInv
<1>8. CASE SkipTrim
  <2>1. /\ pc = "loaded" /\ pc' = "fuzz" /\ trim_done' = trim_done \cup {queue_cur}
        /\ UNCHANGED <<tid, want, queue_cur>>
    BY <1>8 DEF SkipTrim
  <2>2. queue_cur \in Entries
    BY <1>1, <1>5, <2>1 DEF GetState
  <2>3. trim_done' \in SUBSET Entries
    BY <1>1, <2>1, <2>2 DEF TypeOK
  <2>4. TypeOK'
    BY <1>1, <1>2, <1>4, <2>1, <2>3 DEF TypeOK
  <2>5. GetState' /\ InUseNotFreed'
    BY <1>1, <1>2, <2>1 DEF GetState, InUseNotFreed, InUse
  <2>6. Coherent' /\ ReadyExact'
    BY <1>1, <1>2, <1>4, <2>1 DEF Coherent, ReadyExact
  <2> QED
    BY <1>3, <2>4, <2>5, <2>6 DEF IInv
<1>9. CASE FuzzDone
  <2>1. /\ pc = "fuzz" /\ pc' = "select"
        /\ UNCHANGED <<tid, want, queue_cur, trim_done>>
    BY <1>9 DEF FuzzDone, queueVars
  <2>2. TypeOK'
    BY <1>1, <1>2, <1>4, <2>1 DEF TypeOK
  <2>3. GetState' /\ InUseNotFreed'
    BY <1>1, <1>2, <2>1 DEF GetState, InUseNotFreed, InUse
  <2>4. Coherent' /\ ReadyExact'
    BY <1>1, <1>2, <1>4, <2>1 DEF Coherent, ReadyExact
  <2> QED
    BY <1>3, <2>2, <2>3, <2>4 DEF IInv
<1>10. CASE UNCHANGED vars
  BY <1>1, <1>3, <1>4, <1>10 DEF IInv, vars, TypeOK, GetState, InUseNotFreed,
                                 InUse, Coherent, ReadyExact
<1> QED
  BY <1>6, <1>7, <1>8, <1>9, <1>10
-----------------------------------------------------------------------------
(***************************************************************************)
(* The theorems.                                                           *)
(***************************************************************************)
LEMMA InitInv == Init => IInv
<1> SUFFICES ASSUME Init PROVE IInv
  OBVIOUS
<1> USE ConstantsAssumption
<1>1. TypeOK
  <2>1. ready \in Int
    <3>1. {q \in queue : len[q] > SpliceMin} \in SUBSET Entries
      BY DEF Init
    <3> QED
      BY <3>1, FS_Subset, FS_CardinalityType DEF Init
  <2>2. /\ buf \in [Entries -> Nat \cup {NULL}]
        /\ file \in [Entries -> Nat]
        /\ cache \in [Slots -> Entries \cup {NULL, Garbage}]
    BY DEF Init, Slots
  <2>3. alloc \in Nat /\ max_cache_entries \in 1 .. alloc
    BY DEF Init
  <2>4. /\ queue \in SUBSET Entries /\ trim_done \in SUBSET Entries
        /\ len \in [Entries -> 1 .. MaxFile]
        /\ want \in Entries \cup {NULL} /\ queue_cur \in Entries \cup {NULL}
        /\ pc \in {"select", "get", "loaded", "fuzz", "stop"}
    BY DEF Init
  <2>5. /\ max_cache_count \in Nat /\ cache_count \in Nat /\ cache_size \in Int
        /\ smallest_free \in Nat /\ tid \in Nat
    BY DEF Init
  <2>6. do_once \in BOOLEAN
    BY Zenon DEF Init
  <2> QED
    BY <2>1, <2>2, <2>3, <2>4, <2>5, <2>6, Zenon DEF TypeOK
<1>2. Occupied = {} /\ Cached = {} /\ Cardinality({}) = 0
  BY FS_EmptySet DEF Init, Occupied, Cached, Slots
<1>3. SlotsMatchBuffers
  BY <1>2 DEF Init, SlotsMatchBuffers
<1>4. SlotBounds /\ SmallestFree
  BY DEF Init, SlotBounds, SmallestFree, Slots
<1>5. CachedInQueue /\ GetState /\ InUseNotFreed /\ Coherent /\ ReadyExact
  BY <1>2 DEF Init, CachedInQueue, GetState, InUseNotFreed, InUse, Coherent,
              ReadyExact, Ready
<1> QED
  BY <1>1, <1>3, <1>4, <1>5 DEF IInv

LEMMA NextInv == IInv /\ [Next]_vars => IInv'
<1> SUFFICES ASSUME IInv, [Next]_vars PROVE IInv'
  OBVIOUS
<1>1. CASE Evict
  BY <1>1, EvictPreserves
<1>2. CASE Load
  BY <1>2, LoadPreserves
<1>3. CASE \E q \in Entries : SelectEntry(q) \/ Splice(q)
  BY <1>3, QuietPreserves
<1>4. CASE \E q \in Entries : AddEntry(q)
  BY <1>4, AddEntryPreserves
<1>5. CASE \E l \in 1 .. MaxFile : TrimCase(l)
  BY <1>5, TrimCasePreserves
<1>6. CASE \E l \in 1 .. MaxFile : TrimAbort(l)
  BY <1>6, TrimAbortPreserves
<1>7. CASE SkipTrim \/ FuzzDone \/ DrawInVain \/ Stopped \/ UNCHANGED vars
  BY <1>7, QuietPreserves DEF DrawInVain, Stopped
<1> QED
  BY <1>1, <1>2, <1>3, <1>4, <1>5, <1>6, <1>7 DEF Next

(* The inductive invariant holds in every state of afl-fuzz. *)
THEOREM Invariance == Spec => []IInv
  BY InitInv, NextInv, PTL DEF Spec

(* TypeOK for every set of entries and every size of the cache: the array  *)
(* never has fewer slots than the limit on entries, learned or configured. *)
THEOREM TypeCorrect == Spec => []TypeOK
<1>1. IInv => TypeOK
  BY DEF IInv
<1> QED
  BY <1>1, Invariance, PTL

(* q_testcase_cache[] and the buffers of the queue entries agree: each     *)
(* cached entry is in exactly one slot and the count is exact.             *)
THEOREM SlotsAndBuffersAgree == Spec => []SlotsMatchBuffers
<1>1. IInv => SlotsMatchBuffers
  BY DEF IInv
<1> QED
  BY <1>1, Invariance, PTL

(* The unbounded searches for a free slot end inside the array, and read   *)
(* no slot that realloc() left uninitialised.                              *)
THEOREM SearchesInBounds == Spec => []SlotSearchInBounds
<1>1. IInv => SlotSearchInBounds
  BY GetSearch, StoreSearch DEF SlotSearchInBounds
<1> QED
  BY <1>1, Invariance, PTL

(* The buffer fuzz_one() works on is not freed while it works on it, and   *)
(* every cached buffer holds what its file holds.                          *)
THEOREM BuffersUsable == Spec => [](InUseNotFreed /\ Coherent)
<1>1. IInv => InUseNotFreed /\ Coherent
  BY DEF IInv
<1> QED
  BY <1>1, Invariance, PTL

(* Every cached buffer holds what the file of its entry holds, also after *)
(* the entry was trimmed under it.                                        *)
THEOREM BuffersMatchFiles == Spec => []Coherent
<1>1. IInv => Coherent
  BY DEF IInv
<1> QED
  BY <1>1, Invariance, PTL

(* The loops that look for a splicing partner can end. *)
THEOREM PartnersExist == Spec => []SplicePartnerExists
<1>1. ASSUME IInv PROVE SplicePartnerExists
  <2> SUFFICES ASSUME pc = "fuzz", ready > 1 PROVE Partners # {}
    BY DEF SplicePartnerExists
  <2> USE ConstantsAssumption
  <2>1. /\ ready = Cardinality(Ready) /\ queue \subseteq Entries /\ ready \in Int
        /\ len \in [Entries -> 1 .. MaxFile]
    BY <1>1 DEF IInv, ReadyExact, TypeOK
  <2>2. IsFiniteSet(Ready)
    <3>1. Ready \in SUBSET Entries
      BY <2>1 DEF Ready
    <3> QED
      BY <3>1, FS_Subset
  <2>3. Cardinality(Ready \ {queue_cur}) =
          IF queue_cur \in Ready THEN Cardinality(Ready) - 1 ELSE Cardinality(Ready)
    BY <2>2, FS_RemoveElement
  <2>4. Ready \ {queue_cur} # {}
    <3>1. Cardinality({}) = 0
      BY FS_EmptySet
    <3>2. Cardinality(Ready \ {queue_cur}) # 0
      BY <2>1, <2>3
    <3> QED
      BY <3>1, <3>2
  <2>5. PICK q : q \in Ready \ {queue_cur}
    BY <2>4
  <2>6. q \in queue \ {queue_cur} /\ len[q] >= SpliceMin
    BY <2>1, <2>5 DEF Ready
  <2> QED
    BY <2>6 DEF Partners
<1> QED
  BY <1>1, Invariance, PTL
-----------------------------------------------------------------------------
(***************************************************************************)
(* The size of the cache and the end of the eviction loop.                 *)
(***************************************************************************)
(* The bytes of a set of entries are finitely many, and an entry adds its  *)
(* length.                                                                 *)
LEMMA BytesFinite ==
  ASSUME NEW S \in SUBSET Entries, NEW l \in [Entries -> 1 .. MaxFile]
  PROVE  IsFiniteSet(BytesOf(S, l)) /\ Cardinality(BytesOf(S, l)) \in Nat
<1> USE ConstantsAssumption
<1>1. IsFiniteSet(S) /\ IsFiniteSet(1 .. MaxFile)
  <2>1. IsFiniteSet(Entries) /\ MaxFile \in Int /\ 1 \in Int
    OBVIOUS
  <2>2. IsFiniteSet(S)
    BY <2>1, FS_Subset
  <2> QED
    BY <2>1, <2>2, FS_Interval
<1>2. IsFiniteSet(S \X (1 .. MaxFile))
  BY <1>1, FS_Product
<1>3. BytesOf(S, l) \in SUBSET (S \X (1 .. MaxFile))
  BY DEF BytesOf
<1> QED
  BY <1>2, <1>3, FS_Subset, FS_CardinalityType

LEMMA BytesAdd ==
  ASSUME NEW S \in SUBSET Entries, NEW l \in [Entries -> 1 .. MaxFile],
         NEW q \in Entries, q \notin S
  PROVE  Cardinality(BytesOf(S \cup {q}, l)) = Cardinality(BytesOf(S, l)) + l[q]
<1> USE ConstantsAssumption
<1> DEFINE B == BytesOf(S, l)
           Q == {q} \X (1 .. l[q])
<1>1. l[q] \in 1 .. MaxFile /\ l[q] \in Nat /\ l[q] >= 1 /\ l[q] <= MaxFile
  OBVIOUS
<1>2. BytesOf(S \cup {q}, l) = B \cup Q
  <2>1. ASSUME NEW b \in BytesOf(S \cup {q}, l) PROVE b \in B \cup Q
    <3>1. /\ b = <<b[1], b[2]>> /\ b[1] \in S \cup {q} /\ b[2] \in 1 .. MaxFile
          /\ b[2] <= l[b[1]]
      BY DEF BytesOf
    <3>2. CASE b[1] \in S
      BY <3>1, <3>2 DEF BytesOf
    <3>3. CASE b[1] = q
      <4>1. b[2] \in 1 .. l[q]
        BY <1>1, <3>1, <3>3
      <4> QED
        BY <3>1, <3>3, <4>1
    <3> QED
      BY <3>1, <3>2, <3>3
  <2>2. ASSUME NEW b \in B PROVE b \in BytesOf(S \cup {q}, l)
    BY DEF BytesOf
  <2>3. ASSUME NEW b \in Q PROVE b \in BytesOf(S \cup {q}, l)
    <3>1. b = <<b[1], b[2]>> /\ b[1] = q /\ b[2] \in 1 .. l[q]
      OBVIOUS
    <3>2. b[2] \in 1 .. MaxFile /\ b[2] <= l[b[1]]
      BY <1>1, <3>1
    <3> QED
      BY <3>1, <3>2 DEF BytesOf
  <2> QED
    BY <2>1, <2>2, <2>3
<1>3. B \cap Q = {}
  BY DEF BytesOf
<1>4. IsFiniteSet(Q) /\ Cardinality(Q) = l[q]
  <2>1. IsFiniteSet({q}) /\ Cardinality({q}) = 1
    BY FS_Singleton
  <2>2. IsFiniteSet(1 .. l[q]) /\ Cardinality(1 .. l[q]) = l[q]
    BY <1>1, FS_Interval
  <2>3. IsFiniteSet(Q) /\ Cardinality(Q) = Cardinality({q}) * Cardinality(1 .. l[q])
    BY <2>1, <2>2, FS_Product
  <2> QED
    BY <1>1, <2>1, <2>2, <2>3
<1>5. IsFiniteSet(B) /\ Cardinality(B) \in Nat
  BY BytesFinite
<1>6. Cardinality(B \cup Q) = Cardinality(B) + Cardinality(Q) - Cardinality(B \cap Q)
  BY <1>4, <1>5, FS_Union
<1>7. Cardinality(B \cap Q) = 0
  BY <1>3, FS_EmptySet
<1> HIDE DEF B, Q
<1>8. Cardinality(B \cup Q) = Cardinality(B) + l[q]
  BY <1>1, <1>4, <1>5, <1>6, <1>7
<1> QED
  BY <1>2, <1>8 DEF B

(* Trimming one of the entries takes off what it lost. *)
LEMMA BytesTrim ==
  ASSUME NEW S \in SUBSET Entries, NEW l \in [Entries -> 1 .. MaxFile], NEW q \in S,
         NEW m \in [Entries -> 1 .. MaxFile], \A p \in S : p # q => m[p] = l[p]
  PROVE  Cardinality(BytesOf(S, m)) = Cardinality(BytesOf(S, l)) + m[q] - l[q]
<1> USE ConstantsAssumption
<1> DEFINE R == S \ {q}
<1>1. R \in SUBSET Entries /\ q \in Entries /\ q \notin R /\ S = R \cup {q}
  OBVIOUS
<1>2. BytesOf(R, m) = BytesOf(R, l)
  BY DEF BytesOf
<1>3. Cardinality(BytesOf(R \cup {q}, l)) = Cardinality(BytesOf(R, l)) + l[q]
  BY <1>1, BytesAdd
<1>4. Cardinality(BytesOf(R \cup {q}, m)) = Cardinality(BytesOf(R, m)) + m[q]
  BY <1>1, BytesAdd
<1>5. Cardinality(BytesOf(R, l)) \in Nat
  BY <1>1, BytesFinite
<1>6. l[q] \in Nat /\ m[q] \in Nat
  BY <1>1
<1> HIDE DEF R
<1> QED
  BY <1>1, <1>2, <1>3, <1>4, <1>5, <1>6

(* q_testcase_cache_size is exact, and kept below the limit, by the tests  *)
(* in front of loading and storing, by eviction and by trimming.           *)
LEMMA SizeKeeps ==
  ASSUME IInv, SizeExact, [Next]_vars
  PROVE  SizeExact'
<1> USE ConstantsAssumption
<1>1. /\ buf \in [Entries -> Nat \cup {NULL}] /\ len \in [Entries -> 1 .. MaxFile]
      /\ file \in [Entries -> Nat] /\ cache_size \in Int /\ Cached \in SUBSET Entries
      /\ NULL \notin Nat
  BY DEF IInv, TypeOK, Cached
<1>2. ASSUME pc # "stop"
      PROVE  cache_size = Cardinality(BytesOf(Cached, len)) /\ cache_size < MaxCacheSize
  BY <1>2 DEF SizeExact
<1>3. ASSUME NEW q \in Entries, NEW slot, Register(q, slot), file' = file, len' = len,
             buf[q] = NULL, ~Full(len[q]), pc # "stop"
      PROVE  SizeExact'
  <2>1. buf' = [buf EXCEPT ![q] = file[q]] /\ cache_size' = cache_size + len[q]
    BY <1>3 DEF Register
  <2>2. Cached' = Cached \cup {q} /\ q \notin Cached
    BY <1>1, <1>3, <2>1 DEF Cached
  <2>3. Cardinality(BytesOf(Cached \cup {q}, len)) = Cardinality(BytesOf(Cached, len)) + len[q]
    BY <1>1, <2>2, BytesAdd
  <2>4. cache_size + len[q] < MaxCacheSize
    BY <1>1, <1>3 DEF Full
  <2>5. BytesOf(Cached, len)' = BytesOf(Cached \cup {q}, len)
    BY <1>3, <2>2 DEF BytesOf
  <2> QED
    BY <1>2, <1>3, <2>1, <2>3, <2>4, <2>5 DEF SizeExact
<1>4. ASSUME pc # "stop" \/ pc' = "stop", UNCHANGED <<buf, len, cache_size>>
      PROVE  SizeExact'
  BY <1>4 DEF SizeExact, BytesOf, Cached
<1>5. CASE Evict
  <2>0. TypeOK /\ SlotBounds /\ SlotsMatchBuffers /\ pc = "get" /\ pc' = pc /\ len' = len
    BY <1>5 DEF IInv, Evict, queueVars
  <2>1. PICK t \in Victims :
          /\ buf' = [buf EXCEPT ![LearnedCache[t]] = NULL]
          /\ cache_size' = cache_size - len[LearnedCache[t]]
    BY <1>5 DEF Evict
  <2>2. t \in Nat /\ t < max_cache_count /\ cache[t] # NULL
    BY <2>0 DEF Victims, TypeOK
  <2>3. t \in Slots /\ LearnedCache[t] = cache[t]
    <3>1. LearnedAlloc \in Nat /\ t < LearnedAlloc /\ t \in Slots
      BY <2>0, <2>2, LearningPreserves
    <3>2. t \in 0 .. LearnedAlloc - 1
      BY <2>2, <3>1
    <3> QED
      BY <2>0, <3>1, <3>2, LearningPreserves
  <2>4. cache[t] # Garbage
    BY <2>0, <2>2, <2>3 DEF SlotBounds, TypeOK
  <2>5. cache[t] \in Entries
    BY <2>0, <2>2, <2>3, <2>4 DEF TypeOK
  <2>6. cache[t] \in Cached
    BY <2>0, <2>3, <2>5 DEF SlotsMatchBuffers, Occupied, Cached
  <2> DEFINE R == Cached \ {cache[t]}
  <2>7. Cached' = R
    BY <1>1, <2>1, <2>3, <2>5 DEF Cached
  <2>8. R \in SUBSET Entries /\ cache[t] \notin R /\ Cached = R \cup {cache[t]}
    BY <1>1, <2>6
  <2>9. Cardinality(BytesOf(R \cup {cache[t]}, len)) = Cardinality(BytesOf(R, len)) + len[cache[t]]
    BY <1>1, <2>5, <2>8, BytesAdd
  <2>10. Cardinality(BytesOf(R, len)) \in Nat
    BY <1>1, <2>8, BytesFinite
  <2>11. BytesOf(Cached, len)' = BytesOf(R, len)
    BY <2>0, <2>7 DEF BytesOf
  <2>12. len[cache[t]] \in Nat
    BY <1>1, <2>5
  <2> HIDE DEF R
  <2>13. cache_size = Cardinality(BytesOf(R, len)) + len[cache[t]]
         /\ cache_size < MaxCacheSize
    BY <1>2, <2>0, <2>8, <2>9
  <2>14. cache_size' = cache_size - len[cache[t]]
    BY <2>1, <2>3
  <2>15. /\ cache_size' = Cardinality(BytesOf(R, len))
         /\ cache_size' < MaxCacheSize
    BY <1>1, <2>10, <2>12, <2>13, <2>14
  <2> QED
    BY <2>11, <2>15 DEF SizeExact
<1>6. CASE Load
  <2>1. /\ pc = "get" /\ ~Full(len[want]) /\ file' = file /\ len' = len
        /\ \E slot \in Slots : Register(want, slot)
    BY <1>6 DEF Load, queueVars
  <2>2. want \in Entries /\ buf[want] = NULL
    BY <2>1 DEF IInv, GetState, TypeOK
  <2> QED
    BY <1>3, <2>1, <2>2
<1>7. ASSUME NEW q \in Entries, AddEntry(q) PROVE SizeExact'
  <2>1. /\ pc \in {"select", "fuzz"} /\ pc' = pc /\ file' = file /\ len' = len
        /\ IF Full(len[q]) THEN UNCHANGED <<buf, cache_size>>
                           ELSE \E slot \in Slots : Register(q, slot)
    BY <1>7 DEF AddEntry
  <2>2. buf[q] = NULL
    BY <1>7 DEF IInv, CachedInQueue, AddEntry
  <2> QED
    BY <1>3, <1>4, <2>1, <2>2
<1>8. ASSUME NEW n \in 1 .. MaxFile, TrimCase(n) PROVE SizeExact'
  <2>1. /\ pc = "loaded" /\ n \in 1 .. len[queue_cur] /\ pc' = "fuzz"
        /\ len' = [len EXCEPT ![queue_cur] = n]
        /\ file' = [file EXCEPT ![queue_cur] = @ + 1]
    BY <1>8 DEF TrimCase
  <2>2. buf[queue_cur] # NULL /\ queue_cur \in Entries
    BY <2>1 DEF IInv, InUseNotFreed, InUse, GetState, TypeOK
  <2>3. /\ buf' = [buf EXCEPT ![queue_cur] = file'[queue_cur]]
        /\ cache_size' = cache_size + n - len[queue_cur]
    BY <1>8, <2>2 DEF TrimCase, Retake
  <2>4. file'[queue_cur] \in Nat
    BY <1>1, <2>1, <2>2
  <2>5. Cached' = Cached /\ queue_cur \in Cached
    BY <1>1, <2>2, <2>3, <2>4 DEF Cached
  <2>6. Cardinality(BytesOf(Cached, len')) =
          Cardinality(BytesOf(Cached, len)) + n - len[queue_cur]
    <3>1. /\ len' \in [Entries -> 1 .. MaxFile] /\ len'[queue_cur] = n
          /\ \A p \in Cached : p # queue_cur => len'[p] = len[p]
      BY <1>1, <1>8, <2>1, <2>2
    <3>2. len \in [Entries -> 1 .. MaxFile] /\ Cached \in SUBSET Entries
      BY <1>1
    <3>3. Cardinality(BytesOf(Cached, len')) =
            Cardinality(BytesOf(Cached, len)) + len'[queue_cur] - len[queue_cur]
      BY <2>5, <3>1, <3>2, BytesTrim
    <3> QED
      BY <3>1, <3>3
  <2>7. BytesOf(Cached, len)' = BytesOf(Cached, len')
    BY <2>5 DEF BytesOf
  <2>8. cache_size' < MaxCacheSize
    <3>1. len[queue_cur] \in Nat /\ n \in Nat /\ n <= len[queue_cur]
      BY <1>1, <2>1, <2>2
    <3> QED
      BY <1>1, <1>2, <2>1, <2>3, <3>1
  <2> QED
    BY <1>2, <2>1, <2>3, <2>6, <2>7, <2>8 DEF SizeExact
<1>9. ASSUME NEW n \in 1 .. MaxFile, TrimAbort(n) PROVE SizeExact'
  BY <1>9 DEF TrimAbort, SizeExact
<1>10. ASSUME NEW q \in Entries, SelectEntry(q) \/ Splice(q) PROVE SizeExact'
  BY <1>4, <1>10 DEF SelectEntry, Splice, queueVars
<1>11. CASE SkipTrim \/ FuzzDone
  BY <1>4, <1>11 DEF SkipTrim, FuzzDone, queueVars
<1>12. CASE DrawInVain \/ Stopped \/ UNCHANGED vars
  BY <1>4, <1>12 DEF DrawInVain, Stopped, vars
<1> QED
  BY <1>5, <1>6, <1>7, <1>8, <1>9, <1>10, <1>11, <1>12 DEF Next

(* The size of the cache is the number of bytes in its buffers and stays   *)
(* below the limit: loads, evictions, trims and stores in any order let it *)
(* neither drift nor wrap around.                                          *)
THEOREM CacheSizeExact == Spec => []SizeExact
<1>1. Init => SizeExact
  <2> SUFFICES ASSUME Init PROVE SizeExact
    OBVIOUS
  <2>1. Cached = {} /\ cache_size = 0
    BY DEF Init, Cached
  <2>2. BytesOf(Cached, len) = {}
    BY <2>1 DEF BytesOf
  <2> QED
    <3>1. Cardinality(BytesOf(Cached, len)) = 0
      BY <2>2, FS_EmptySet
    <3>2. 0 < MaxCacheSize
      BY ConstantsAssumption
    <3> QED
      BY <2>1, <3>1, <3>2 DEF SizeExact
<1>2. IInv /\ SizeExact /\ [Next]_vars => SizeExact'
  BY SizeKeeps
<1> QED
  BY <1>1, <1>2, Invariance, PTL DEF Spec

(* With at most one slot in use, the cache holds nothing or just the bytes *)
(* of the entry in that slot.                                              *)
LEMMA LoneBytes ==
  ASSUME TypeOK, SlotsMatchBuffers, SizeExact, pc # "stop", cache_count <= 1
  PROVE  \/ cache_count = 0 /\ cache_size = 0
         \/ /\ cache_count = 1
            /\ \E t \in Occupied : cache[t] \in Entries /\ cache_size = len[cache[t]]
<1> USE ConstantsAssumption
<1>1. IsFiniteSet(Occupied) /\ Cardinality(Occupied) \in Nat
      /\ cache_count = Cardinality(Occupied)
  BY OccupiedFinite DEF SlotsMatchBuffers
<1>2. len \in [Entries -> 1 .. MaxFile] /\ Cached \in SUBSET Entries
  BY DEF TypeOK, Cached
<1>3. cache_size = Cardinality(BytesOf(Cached, len))
  BY DEF SizeExact
<1>4. BytesOf({}, len) = {} /\ Cardinality(BytesOf({}, len)) = 0
  <2>1. BytesOf({}, len) = {}
    BY DEF BytesOf
  <2> QED
    BY <2>1, FS_EmptySet
<1>5. CASE Cardinality(Occupied) = 0
  <2>1. Occupied = {}
    BY <1>1, <1>5, FS_EmptySet
  <2>2. Cached = {}
    BY <2>1 DEF SlotsMatchBuffers
  <2> QED
    BY <1>1, <1>3, <1>4, <1>5, <2>2
<1>6. CASE Cardinality(Occupied) = 1
  <2>1. PICK t : Occupied = {t}
    BY <1>1, <1>6, FS_Singleton
  <2>2. cache[t] \in Entries /\ cache[t] \in Cached
    BY <2>1 DEF SlotsMatchBuffers, Occupied, Cached
  <2>3. Cached = {} \cup {cache[t]}
    BY <2>1, <2>2 DEF SlotsMatchBuffers
  <2>4. Cardinality(BytesOf({} \cup {cache[t]}, len)) =
          Cardinality(BytesOf({}, len)) + len[cache[t]]
    BY <1>2, <2>2, BytesAdd
  <2>5. len[cache[t]] \in Nat
    BY <1>2, <2>2
  <2>6. cache_size = len[cache[t]]
    BY <1>3, <1>4, <2>3, <2>4, <2>5
  <2> QED
    BY <1>1, <1>6, <2>1, <2>2, <2>6
<1> QED
  BY <1>1, <1>5, <1>6

(* The limit on entries leaves room for three, unless the user set it      *)
(* lower, or it was learnt in a cache of the smallest size from two test   *)
(* cases of the maximal length.                                            *)
RoomForThree ==
  \/ max_cache_entries >= 3
  \/ MaxCacheEntries < 3
  \/ MaxCacheSize = 2 * MaxFile /\ max_cache_entries = 2

LEMMA RoomKept ==
  ASSUME IInv, SizeExact, RoomForThree, [Next]_vars
  PROVE  RoomForThree'
<1> USE ConstantsAssumption
<1>1. CASE Evict /\ ~ (MaxCacheEntries < 3)
  <2>1. /\ max_cache_entries' = LearnedEntries /\ pc = "get" /\ TypeOK /\ SlotsMatchBuffers
        /\ GetState
    BY <1>1 DEF Evict, IInv
  <2>2. CASE ~Learns
    BY <2>1, <2>2 DEF LearnedEntries, RoomForThree
  <2>3. CASE Learns
    <3>1. /\ cache_size \in Int /\ cache_count \in Nat /\ max_cache_count \in Nat
          /\ len[want] \in Nat /\ len[want] <= MaxFile
      BY <2>1 DEF TypeOK, GetState
    <3>2. cache_size >= MaxCacheSize - MaxFile
      BY <2>3, <3>1 DEF Learns
    <3>3. CASE cache_count <= 1
      <4>1. cache_count = 1 /\ cache_size <= MaxFile
        <5>1. cache_size > 0
          BY <3>1, <3>2
        <5>2. \A t \in Occupied : cache[t] \in Entries => len[cache[t]] <= MaxFile
          BY <2>1 DEF TypeOK
        <5> QED
          BY <2>1, <3>1, <3>3, <5>1, <5>2, LoneBytes
      <4>2. MaxCacheSize = 2 * MaxFile
        BY <3>1, <3>2, <4>1
      <4>3. LearnedEntries \in Nat /\ LearnedEntries >= 2
        BY <2>3, <3>1, <4>1 DEF LearnedEntries
      <4> QED
        BY <2>1, <4>2, <4>3 DEF RoomForThree
    <3>4. CASE ~ (cache_count <= 1)
      BY <2>1, <2>3, <3>1, <3>4 DEF LearnedEntries, RoomForThree
    <3> QED
      BY <3>3, <3>4
  <2> QED
    BY <2>2, <2>3
<1>2. CASE ~Evict
  <2>1. max_cache_entries' = max_cache_entries
    BY <1>2 DEF Next, DrawInVain, Load, SelectEntry, Splice, AddEntry, TrimCase, TrimAbort,
                SkipTrim, FuzzDone, Stopped, vars, limits
  <2> QED
    BY <2>1 DEF RoomForThree
<1> QED
  BY <1>1, <1>2 DEF RoomForThree

(* For every size of the cache that main() accepts, 2 * MAX_FILE included, *)
(* and however the entries were loaded, trimmed and evicted before: the    *)
(* loop that draws slots until it meets a victim lacks one only when the   *)
(* user allowed fewer than three entries, or in a cache of just            *)
(* 2 * MAX_FILE bytes after two test cases of the maximal length met.      *)
THEOREM EvictionStuckOnlyAtLimits == Spec => []StuckOnlyAtLimits
<1> USE ConstantsAssumption
<1>1. Init => RoomForThree
  BY DEF Init, RoomForThree
<1>2. IInv /\ SizeExact /\ RoomForThree /\ [Next]_vars => RoomForThree'
  BY RoomKept
<1>3. IInv /\ SizeExact /\ RoomForThree => StuckOnlyAtLimits
  <2> SUFFICES ASSUME IInv, SizeExact, RoomForThree, pc = "get", Full(len[want]), Victims = {},
                      ~ (MaxCacheEntries < 3)
               PROVE  /\ MaxCacheSize = 2 * MaxFile
                      /\ \/ len[queue_cur] = MaxFile /\ len[want] = MaxFile
                         \/ max_cache_entries = 2
    BY DEF StuckOnlyAtLimits
  <2>1. TypeOK /\ SlotBounds /\ SlotsMatchBuffers /\ GetState
    BY DEF IInv
  <2>2. /\ cache_size \in Int /\ cache_count \in Nat /\ max_cache_entries \in Nat
        /\ len[want] \in Nat /\ len[want] <= MaxFile /\ max_cache_count \in Nat
        /\ alloc \in Nat
    BY <2>1 DEF TypeOK, GetState
  <2>3. \A t \in Occupied : cache[t] = queue_cur
    <3> SUFFICES ASSUME NEW t \in Occupied, cache[t] # queue_cur PROVE FALSE
      OBVIOUS
    <3>1. t \in Slots /\ cache[t] \in Entries /\ t < max_cache_count
      BY <2>1 DEF Occupied, SlotBounds
    <3>2. t \in 0 .. max_cache_count - 1
      BY <2>2, <3>1 DEF Slots
    <3> QED
      BY <3>1, <3>2 DEF Victims
  <2>4. cache_count <= 1
    <3>1. \A t, u \in Occupied : t = u
      BY <2>1, <2>3 DEF SlotsMatchBuffers
    <3>2. IsFiniteSet(Occupied) /\ cache_count = Cardinality(Occupied)
      BY <2>1, OccupiedFinite DEF SlotsMatchBuffers
    <3>3. CASE Occupied = {}
      BY <3>2, <3>3, FS_EmptySet
    <3>4. CASE Occupied # {}
      <4>1. PICK t : t \in Occupied
        BY <3>4
      <4>2. Occupied = {t}
        BY <3>1, <4>1
      <4> QED
        <5>1. Cardinality({t}) = 1
          BY FS_Singleton
        <5> QED
          BY <3>2, <4>2, <5>1
    <3> QED
      BY <3>3, <3>4
  <2>5. \/ cache_count = 0 /\ cache_size = 0
        \/ cache_count = 1 /\ queue_cur \in Entries /\ cache_size = len[queue_cur]
    BY <2>1, <2>3, <2>4, LoneBytes
  <2>6. queue_cur \in Entries => len[queue_cur] \in Nat /\ len[queue_cur] <= MaxFile
    BY <2>1 DEF TypeOK
  <2>7. CASE cache_size + len[want] >= MaxCacheSize
    <3>1. cache_size = MaxFile /\ len[want] = MaxFile /\ MaxCacheSize = 2 * MaxFile
      BY <2>2, <2>5, <2>6, <2>7
    <3> QED
      BY <2>5, <3>1
  <2>8. CASE cache_count >= max_cache_entries - 1
    BY <2>2, <2>4, <2>8 DEF RoomForThree
  <2> QED
    BY <2>7, <2>8 DEF Full
<1> QED
  BY <1>1, <1>2, <1>3, Invariance, CacheSizeExact, PTL DEF Spec
==============================================================================
