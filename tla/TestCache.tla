------------------------------ MODULE TestCache ------------------------------
(***************************************************************************)
(* The test case cache of afl-fuzz: queue_testcase_get(),                  *)
(* queue_testcase_store_mem() and queue_testcase_retake[_mem]() of         *)
(* AFLplusplus/src/afl-fuzz-queue.c, driven the way fuzz_one() and         *)
(* save_if_interesting() drive them.                                       *)
(*                                                                         *)
(* The cache is an array q_testcase_cache[] of pointers to queue entries.  *)
(* An entry is cached when its testcase_buf is not NULL.  The cache is     *)
(* limited by bytes (q_testcase_max_cache_size) and by slots               *)
(* (q_testcase_max_cache_entries, which afl-fuzz lowers once, when the     *)
(* byte limit is first met).  The entry being fuzzed, queue_cur, is never  *)
(* evicted: fuzz_one() holds a pointer into its buffer.                    *)
(*                                                                         *)
(* A buffer's content is represented by a version number of its file:      *)
(* trimming rewrites the file and so starts a new version.                 *)
(***************************************************************************)
EXTENDS Integers, FiniteSets

CONSTANTS
  Entries,          \* identities of queue entries
  MaxFile,          \* MAX_FILE, the longest test case kept
  MaxCacheSize,     \* q_testcase_max_cache_size (AFL_TESTCACHE_SIZE)
  MaxCacheEntries,  \* initial q_testcase_max_cache_entries
  SpliceMin,        \* shortest splicing partner (4 bytes)
  NULL,             \* the null pointer
  Garbage           \* content of a slot that realloc() did not initialise

ASSUME ConstantsAssumption ==
  /\ IsFiniteSet(Entries)
  /\ MaxFile \in Nat \ {0}
  /\ MaxCacheSize \in Nat
  /\ MaxCacheSize >= 2 * MaxFile       \* main() refuses a smaller cache
  /\ MaxCacheEntries \in Nat \ {0}
  /\ SpliceMin \in Nat
  /\ NULL \notin Entries /\ Garbage \notin Entries
  /\ NULL # Garbage
  /\ NULL \notin Nat

VARIABLES
  queue,              \* entries added to queue_buf[]
  len,                \* q->len (for entries not yet queued: their future length)
  file,               \* version of the file q->fname
  buf,                \* version held by q->testcase_buf, or NULL
  trim_done,          \* entries with q->trim_done
  ready,              \* ready_for_splicing_count
  alloc,              \* number of slots q_testcase_cache[] was allocated for
  cache,              \* q_testcase_cache[]
  max_cache_entries,  \* q_testcase_max_cache_entries
  max_cache_count,    \* q_testcase_max_cache_count, high-water mark of slots
  cache_count,        \* q_testcase_cache_count
  cache_size,         \* q_testcase_cache_size, bytes
  smallest_free,      \* q_testcase_smallest_free
  do_once,            \* the static flag of queue_testcase_get()
  tid,                \* local of queue_testcase_get(): candidate slot
  want,               \* argument of the queue_testcase_get() under way
  queue_cur,          \* the entry being fuzzed
  pc                  \* where fuzz_one() is

queueVars == <<queue, len, file, trim_done, ready, queue_cur>>
limits == <<alloc, max_cache_entries, do_once>>
vars == <<queue, len, file, buf, trim_done, ready, alloc, cache,
          max_cache_entries, max_cache_count, cache_count, cache_size, smallest_free, do_once,
          tid, want, queue_cur, pc>>

Cached == {q \in Entries : buf[q] # NULL}
Slots == 0 .. alloc - 1
Occupied == {t \in Slots : cache[t] \in Entries}

(* The cache cannot take l more bytes, or one more entry. *)
Full(l) == \/ cache_size + l >= MaxCacheSize
           \/ cache_count >= max_cache_entries - 1

Init ==
  /\ queue \in SUBSET Entries \ {{}}
  /\ len \in [Entries -> 1 .. MaxFile]
  /\ file = [q \in Entries |-> 0]
  /\ buf = [q \in Entries |-> NULL]
  /\ trim_done = {}
  /\ ready = Cardinality({q \in queue : len[q] > SpliceMin})
  /\ alloc = MaxCacheEntries
  /\ cache = [t \in 0 .. MaxCacheEntries - 1 |-> NULL]
  /\ max_cache_entries = MaxCacheEntries
  /\ max_cache_count = 0
  /\ cache_count = 0
  /\ cache_size = 0
  /\ smallest_free = 0
  /\ do_once = FALSE
  /\ tid = 0
  /\ want = NULL
  /\ queue_cur = NULL
  /\ pc = "select"
-----------------------------------------------------------------------------
(***************************************************************************)
(* queue_testcase_get(q).  A hit returns at once; a miss enters the loop   *)
(* that makes room.  The caller continues at CallerOf(q).                  *)
(***************************************************************************)
CallerOf(q, cur) == IF q = cur THEN "loaded" ELSE "fuzz"

RequestIgnoresHit(q, cur) ==
  /\ pc' = "get"
  /\ want' = q
  /\ tid' = max_cache_count

Request(q, cur) ==
  IF buf[q] # NULL
  THEN /\ pc' = CallerOf(q, cur)
       /\ UNCHANGED <<tid, want>>
  ELSE /\ pc' = "get"
       /\ want' = q
       /\ tid' = max_cache_count

(* The first time the byte limit is hit, the number of slots in use becomes *)
(* the limit on entries and the array is reallocated to that limit plus one. *)
Learns ==
  /\ cache_size + len[want] >= MaxCacheSize
  /\ cache_count < max_cache_entries
  /\ max_cache_count < max_cache_entries
  /\ ~do_once

LearnedEntries ==
  IF ~Learns THEN max_cache_entries
  ELSE IF max_cache_count > cache_count THEN max_cache_count + 1
                                        ELSE cache_count + 1

LearnedAllocTooSmall == IF Learns THEN cache_count ELSE alloc

LearnedAlloc == IF Learns THEN LearnedEntries + 1 ELSE alloc

LearnedCache ==
  [t \in 0 .. LearnedAlloc - 1 |-> IF t \in Slots THEN cache[t] ELSE Garbage]

(* Slots rand_below(max_cache_count) may settle on: in use, not queue_cur. *)
VictimsInUse == {t \in 0 .. max_cache_count - 1 : cache[t] # NULL}

VictimsOffByOne ==
  {t \in 0 .. max_cache_count - 2 : cache[t] \notin {NULL, queue_cur}}

Victims == {t \in 0 .. max_cache_count - 1 : cache[t] \notin {NULL, queue_cur}}

(* One round of the eviction loop. *)
Evict ==
  /\ pc = "get"
  /\ Full(len[want])
  /\ \E t \in Victims :
       LET old_cached == LearnedCache[t] IN
       /\ tid' = t
       /\ buf' = [buf EXCEPT ![old_cached] = NULL]
       /\ cache' = [LearnedCache EXCEPT ![t] = NULL]
       /\ cache_size' = cache_size - len[old_cached]
       /\ smallest_free' = IF t < smallest_free THEN t ELSE smallest_free
  /\ cache_count' = cache_count - 1
  /\ max_cache_entries' = LearnedEntries
  /\ alloc' = LearnedAlloc
  /\ do_once' = (do_once \/ Learns)
  /\ UNCHANGED <<queueVars, max_cache_count, want, pc>>

(* No slot holds a victim: the inner loop draws slots for ever. *)
DrawInVain ==
  /\ pc = "get"
  /\ Full(len[want])
  /\ Victims = {}
  /\ UNCHANGED vars

(* Where the search for a free slot starts, and the slot it ends at. *)
GetStartAtEnd == tid

GetStart == IF tid >= max_cache_entries THEN smallest_free ELSE tid

StoreStart == IF max_cache_count >= max_cache_entries THEN smallest_free
              ELSE max_cache_count

IsFirstFree(slot, start) ==
  /\ slot \in Slots
  /\ slot >= start
  /\ cache[slot] = NULL
  /\ \A t \in start .. slot - 1 : cache[t] # NULL

(* "Register testcase as cached": the same code in get and store_mem. *)
Register(q, slot) ==
  /\ buf' = [buf EXCEPT ![q] = file'[q]]
  /\ cache' = [cache EXCEPT ![slot] = q]
  /\ cache_size' = cache_size + len[q]
  /\ cache_count' = cache_count + 1
  /\ IF slot >= max_cache_count
     THEN max_cache_count' = slot + 1 /\ UNCHANGED smallest_free
     ELSE /\ smallest_free' = IF slot = smallest_free THEN slot + 1
                                                      ELSE smallest_free
          /\ UNCHANGED max_cache_count

(* The rest of queue_testcase_get() once there is room: read the file in. *)
Load ==
  /\ pc = "get"
  /\ ~Full(len[want])
  /\ UNCHANGED <<queueVars, limits, tid, want>>
  /\ \E slot \in Slots : IsFirstFree(slot, GetStart) /\ Register(want, slot)
  /\ pc' = CallerOf(want, queue_cur)
-----------------------------------------------------------------------------
(***************************************************************************)
(* The callers.                                                            *)
(***************************************************************************)
(* The main loop picks an entry and fuzz_one() gets its buffer. *)
SelectEntry(q) ==
  /\ pc = "select"
  /\ q \in queue
  /\ queue_cur' = q
  /\ Request(q, q)
  /\ UNCHANGED <<queue, len, file, buf, trim_done, ready, cache, limits,
                 max_cache_count, cache_count, cache_size, smallest_free>>

(* queue_testcase_retake[_mem]() after q was trimmed to l bytes. *)
RetakeForgetsSize(q, l) ==
  /\ buf' = [buf EXCEPT ![q] = IF @ # NULL THEN file'[q] ELSE NULL]
  /\ UNCHANGED cache_size

RetakeForgetsData(q, l) ==
  /\ UNCHANGED buf
  /\ cache_size' = IF buf[q] # NULL THEN cache_size + l - len[q] ELSE cache_size

Retake(q, l) ==
  IF buf[q] # NULL
  THEN /\ buf' = [buf EXCEPT ![q] = file'[q]]
       /\ cache_size' = cache_size + l - len[q]
  ELSE UNCHANGED <<buf, cache_size>>

(* "maybe current entry is not ready for splicing anymore" *)
ReadyIgnoresTrim(l) == ready

ReadyAfterTrim(l) ==
  IF l <= SpliceMin /\ len[queue_cur] > SpliceMin THEN ready - 1 ELSE ready

(* trim_case() removed bytes, rewrote the file and queue_testcase_retake_mem *)
(* (or, after a custom trimmer, queue_testcase_retake) brought the buffer and *)
(* the accounting up to date; fuzz_one() then gets the buffer again.          *)
TrimCase(l) ==
  /\ pc = "loaded"
  /\ queue_cur \notin trim_done
  /\ l \in 1 .. len[queue_cur]
  /\ len' = [len EXCEPT ![queue_cur] = l]
  /\ file' = [file EXCEPT ![queue_cur] = @ + 1]
  /\ Retake(queue_cur, l)
  /\ ready' = ReadyAfterTrim(l)
  /\ trim_done' = trim_done \cup {queue_cur}
  /\ pc' = "fuzz"
  /\ UNCHANGED <<queue, cache, limits, max_cache_count, cache_count,
                 smallest_free, tid, want, queue_cur>>

(* Trimming is interrupted by stop_soon: q->len and the buffer have shrunk, *)
(* the file and the accounting have not; the main loop exits.               *)
TrimAbort(l) ==
  /\ pc = "loaded"
  /\ queue_cur \notin trim_done
  /\ l \in 1 .. len[queue_cur]
  /\ len' = [len EXCEPT ![queue_cur] = l]
  /\ buf' = [buf EXCEPT ![queue_cur] = @ + 1]
  /\ pc' = "stop"
  /\ UNCHANGED <<queue, file, trim_done, ready, cache, limits, max_cache_count,
                 cache_count, cache_size, smallest_free, tid, want, queue_cur>>

(* Nothing could be trimmed, or trimming is not due. *)
SkipTrim ==
  /\ pc = "loaded"
  /\ trim_done' = trim_done \cup {queue_cur}
  /\ pc' = "fuzz"
  /\ UNCHANGED <<queue, len, file, buf, ready, cache, limits, max_cache_count,
                 cache_count, cache_size, smallest_free, tid, want, queue_cur>>

(* Entries the loop around rand_below(queued_paths) may settle on. *)
Partners == {q \in queue \ {queue_cur} : len[q] >= SpliceMin}

(* Splicing asks for the buffer of another entry. *)
Splice(q) ==
  /\ pc = "fuzz"
  /\ ready > 1
  /\ q \in Partners
  /\ Request(q, queue_cur)
  /\ UNCHANGED <<queueVars, buf, cache, limits, max_cache_count, cache_count,
                 cache_size, smallest_free>>

(* save_if_interesting() queues a new entry, while fuzzing or while syncing, *)
(* and queue_testcase_store_mem() caches it if there is room.                *)
AddEntry(q) ==
  /\ pc \in {"select", "fuzz"}
  /\ q \in Entries \ queue
  /\ queue' = queue \cup {q}
  /\ ready' = IF len[q] > SpliceMin THEN ready + 1 ELSE ready
  /\ UNCHANGED <<len, file, trim_done, limits, tid, want, queue_cur, pc>>
  /\ IF Full(len[q])
     THEN UNCHANGED <<buf, cache, max_cache_count, cache_count, cache_size,
                      smallest_free>>
     ELSE \E slot \in Slots :
            IsFirstFree(slot, StoreStart) /\ Register(q, slot)

FuzzDone ==
  /\ pc = "fuzz"
  /\ pc' = "select"
  /\ UNCHANGED <<queueVars, buf, cache, limits, max_cache_count, cache_count,
                 cache_size, smallest_free, tid, want>>

Stopped == pc = "stop" /\ UNCHANGED vars

Next ==
  \/ Evict
  \/ DrawInVain
  \/ Load
  \/ \E q \in Entries : SelectEntry(q) \/ Splice(q) \/ AddEntry(q)
  \/ \E l \in 1 .. MaxFile : TrimCase(l) \/ TrimAbort(l)
  \/ SkipTrim
  \/ FuzzDone
  \/ Stopped

Spec == Init /\ [][Next]_vars
-----------------------------------------------------------------------------
(***************************************************************************)
(* Properties.                                                             *)
(***************************************************************************)
(* Every variable has its type; the array has at least one slot per entry  *)
(* the current limit allows.                                               *)
TypeOK ==
  /\ queue \in SUBSET Entries
  /\ len \in [Entries -> 1 .. MaxFile]
  /\ file \in [Entries -> Nat]
  /\ buf \in [Entries -> Nat \cup {NULL}]
  /\ trim_done \in SUBSET Entries
  /\ ready \in Int
  /\ alloc \in Nat
  /\ cache \in [Slots -> Entries \cup {NULL, Garbage}]
  /\ max_cache_entries \in 1 .. alloc
  /\ max_cache_count \in Nat
  /\ cache_count \in Nat
  /\ cache_size \in Int
  /\ smallest_free \in Nat
  /\ do_once \in BOOLEAN
  /\ tid \in Nat
  /\ want \in Entries \cup {NULL}
  /\ queue_cur \in Entries \cup {NULL}
  /\ pc \in {"select", "get", "loaded", "fuzz", "stop"}

(* The search for a free slot, in queue_testcase_get() and in              *)
(* queue_testcase_store_mem(), ends at a NULL slot inside the array and    *)
(* reads no uninitialised slot on its way there.                           *)
FreeSlotFrom(start) ==
  \E slot \in Slots :
     IsFirstFree(slot, start) /\ \A t \in start .. slot : cache[t] # Garbage

SlotSearchInBounds ==
  /\ pc = "get" /\ ~Full(len[want]) => FreeSlotFrom(GetStart)
  /\ pc \in {"select", "fuzz"} /\ (\E q \in Entries \ queue : ~Full(len[q]))
       => FreeSlotFrom(StoreStart)

(* Slots and buffers agree: an entry with a buffer is in exactly one slot, *)
(* an entry without one is in none, and q_testcase_cache_count counts them. *)
SlotsMatchBuffers ==
  /\ \A t \in Occupied : buf[cache[t]] # NULL
  /\ \A q \in Cached : \E t \in Occupied : cache[t] = q
  /\ \A t, u \in Occupied : cache[t] = cache[u] => t = u
  /\ cache_count = Cardinality(Occupied)

(* The bytes of the entries S of lengths l, as pairs of entry and place.   *)
BytesOf(S, l) == {b \in S \X (1 .. MaxFile) : b[2] <= l[b[1]]}

(* q_testcase_cache_size is the number of bytes cached, whatever trimming  *)
(* did to lengths meanwhile, and stays below the limit.                    *)
SizeExact ==
  pc # "stop" =>
    /\ cache_size = Cardinality(BytesOf(Cached, len))
    /\ cache_size < MaxCacheSize

(* A cached buffer holds the current version of its file. *)
Coherent == pc # "stop" => \A q \in Cached : buf[q] = file[q]

(* From the moment fuzz_one() has the buffer of queue_cur to its end, that *)
(* buffer is not freed, whatever splicing evicts.                          *)
InUse == pc \in {"loaded", "fuzz"} \/ (pc = "get" /\ want # queue_cur)
InUseNotFreed == InUse => buf[queue_cur] # NULL

(* The loop that draws random slots until it finds a victim can end: main() *)
(* says that a cache of 2 * MAX_FILE bytes "or more" is large enough.      *)
VictimExists == pc = "get" /\ Full(len[want]) => Victims # {}

(* That loop runs for ever in two cases only, whatever order of loads,     *)
(* trims and evictions came before.  Either the user allowed fewer than    *)
(* three entries, or the cache has exactly the 2 * MAX_FILE bytes that     *)
(* main() still accepts and two test cases of the maximal length met: the  *)
(* entry being fuzzed and its splicing partner, or two earlier ones, from  *)
(* which queue_testcase_get() then learnt a limit of two entries.          *)
StuckOnlyAtLimits ==
  pc = "get" /\ Full(len[want]) /\ Victims = {} =>
    \/ MaxCacheEntries < 3
    \/ /\ MaxCacheSize = 2 * MaxFile
       /\ \/ len[queue_cur] = MaxFile /\ len[want] = MaxFile
          \/ max_cache_entries = 2

(* The loops that draw random entries until they find a splicing partner   *)
(* can end: their only guard is that two entries are ready for splicing,   *)
(* a count that trimming must keep up to date.                             *)
SplicePartnerExists == pc = "fuzz" /\ ready > 1 => Partners # {}
=============================================================================
