--------------------------- MODULE QueueCullProofs ---------------------------
(***************************************************************************)
(* Proofs about QueueCull: the accounting of the queue, for every size of  *)
(* the map, every set of traces, any number of seeds and finds, and every  *)
(* schedule.                                                               *)
(***************************************************************************)
EXTENDS QueueCull, FiniteSetTheorems, WellFoundedInduction, TLAPS

(***************************************************************************)
(* The inductive invariant.                                                *)
(***************************************************************************)
(* The dry run and the removal of duplicates, before the first culling.    *)
Drying == pc = "dry" \/ (pc = "score" /\ ret = "dry")
Early == Drying \/ pc = "dedupe"

(* fuzz_one is at work on queue_cur. *)
Fuzzing ==
  \/ pc \in {"cal", "trim", "stages", "abandon"}
  \/ pc = "score" /\ ret \in {"trim", "abandon", "stages"}

(* Where update_bitmap_score and cull_queue return to. *)
Control ==
  /\ pc = "score" => ret \in {"dry", "top", "select", "cycle", "trim", "abandon",
                          "stages"}
  /\ pc \in {"cull", "culling"} => ret \in {"start", "select"}
  /\ pc = "cycle" \/ (pc = "score" /\ ret = "cycle") => session.cycle_schedules
  /\ Fuzzing => queue_cur \in Queue /\ fuzz_level[queue_cur] < session.level

Refs == RefCounts /\ WinnersHaveTrace

(* While cull_queue is at byte i: the bytes it took off temp_v are covered *)
(* by a favored entry, and those before i that are still on it belong to   *)
(* a favored entry or to nobody.                                           *)
CullCover ==
  pc = "culling" =>
    /\ ~score_changed
    /\ \A e \in Edges \ temp_v : \E q \in favored : e \in trace_mini[q]
    /\ \A e \in temp_v : e < i => top_rated[e] \in favored \cup {NoEntry}

CullCounts ==
  pc = "culling" =>
    /\ queued_favored = Cardinality(favored)
    /\ pending_favored = Cardinality({q \in favored : IsPending(q)})

(* An entry that has been fuzzed and is enabled has a fuzz_level; before   *)
(* the first culling only disabled entries count as fuzzed.                *)
Fuzzed ==
  /\ \A q \in was_fuzzed \ disabled : fuzz_level[q] > 0
  /\ Early => favored = {} /\ was_fuzzed = disabled

(* Without -Z an entry is scored with a trace of its own. *)
OwnTrace ==
  ~session.cycle_schedules =>
    /\ \A q \in Paths : exec_cksum[q] \subseteq hits[q]
    /\ \A q \in Paths : Slots(q) \subseteq hits[q]
    /\ pc = "score" => trace_bits \subseteq hits[sq]

(* The seeds.  Up to the removal of duplicates the disabled ones are those *)
(* whose calibration failed; of the others, those the removal has passed   *)
(* have no enabled twin, and a removed one has one that is not longer.     *)
Represented(p) ==
  \E q \in Enabled : exec_cksum[q] = exec_cksum[p] /\ len[q] <= len[p]

Seeds(n) ==
  /\ \A q \in Enabled : cal_failed[q] = 0
  /\ \A p, q \in Enabled : p < n /\ exec_cksum[p] = exec_cksum[q] => p = q
  /\ \A p \in disabled : cal_failed[p] = 0 => Represented(p)

Deduplication ==
  /\ Drying => /\ \A q \in Paths : q \in disabled <=> cal_failed[q] # 0
               /\ disabled \subseteq 0 .. idx - 1
  /\ pc = "dedupe" => Seeds(idx)
  /\ pc = "start" \/ (pc \in {"cull", "culling"} /\ ret = "start")
       => Seeds(queued_paths)

IInv ==
  /\ TypeOK /\ Control /\ Refs
  /\ FavoredCover /\ CullCover /\ CullCounts
  /\ CountersExact /\ PendingFavoredBounds /\ Fuzzed
  /\ OwnTrace
  /\ Deduplication
-----------------------------------------------------------------------------
(***************************************************************************)
(* Sets and their sizes.                                                   *)
(***************************************************************************)
LEMMA Least ==
  ASSUME NEW S \in SUBSET Nat, S # {}
  PROVE  \E x \in S : \A y \in S : x <= y
<1>1. PICK R : /\ IsWellFoundedOn(R, Nat)
               /\ \A x, y \in Nat : y < x => <<y, x>> \in R
  <2>1. \A x, y \in Nat : y < x => <<y, x>> \in OpToRel(<, Nat)
    BY DEF OpToRel
  <2> QED
    BY <2>1, NatLessThanWellFounded, Zenon
<1>2. PICK x \in S : \A y \in S : ~(<<y, x>> \in R)
  BY <1>1, WFMin
<1>3. ASSUME NEW y \in S PROVE x <= y
  <2>1. x \in Nat /\ y \in Nat
    OBVIOUS
  <2>2. ~(y < x)
    BY <1>1, <1>2, <2>1, Zenon
  <2> QED
    BY <2>1, <2>2
<1> QED
  BY <1>3

LEMMA Finite ==
  ASSUME TypeOK
  PROVE  /\ IsFiniteSet(Edges) /\ IsFiniteSet(Queue)
         /\ \A S \in SUBSET Queue : IsFiniteSet(S) /\ Cardinality(S) \in Nat
         /\ \A S \in SUBSET Edges : IsFiniteSet(S) /\ Cardinality(S) \in Nat
<1>1. NEdges - 1 \in Int /\ queued_paths - 1 \in Int
  BY QueueCullAssumption DEF TypeOK, ShapeOK
<1>2. IsFiniteSet(Edges) /\ IsFiniteSet(Queue)
  BY <1>1, FS_Interval DEF Edges, Queue
<1> QED
  BY <1>2, FS_Subset, FS_CardinalityType

(* The steps that change each group of variables. *)
LEMMA Frames ==
  ASSUME [Next]_vars
  PROVE  /\ ScoreWin \/ UNCHANGED <<tc_ref, trace_mini, top_rated>>
         /\ ScoreWin \/ CullBegin \/ score_changed' = score_changed
         /\ CullBegin \/ CullGrab \/ UNCHANGED <<favored, queued_favored>>
         /\ \/ CullBegin \/ CullGrab
            \/ \E stop_soon \in BOOLEAN : AbandonEntry(stop_soon)
            \/ pending_favored' = pending_favored
         /\ session' = session
<1> USE DEF entryVars, slotVars, cullVars, countVars, tableVars, schedVars
<1>1. CASE Score
  BY <1>1 DEF Score, ScoreLose, ScoreReturn, ScoreWin
<1>2. CASE DryRun
  BY <1>2 DEF DryRun, DryRunOk, DryRunBad, DryRunDone, Dedupe, DedupeDone,
     StartFuzzing
<1>3. CASE Cull
  BY <1>3 DEF Cull, CallCull, CullSkip, CullBegin, CullGrab, CullPass, CullEnd
<1>4. CASE Cycle
  BY <1>4 DEF Cycle, BeginCycle, Rescore, EndCycle
<1>5. CASE FuzzLoop
  BY <1>5 DEF FuzzLoop, SkipEntry, FuzzOne, Recalibrate, RecalibrateFails,
     TrimCase, NothingTrimmed, StagesDone, Find, FindFailsCalibration, AbandonEntry
<1>6. CASE StopFuzzing \/ Stopped \/ UNCHANGED vars
  BY <1>6 DEF StopFuzzing, Stopped, vars
<1> QED
  BY <1>1, <1>2, <1>3, <1>4, <1>5, <1>6 DEF Next
-----------------------------------------------------------------------------
(***************************************************************************)
(* update_bitmap_score: reference counts and traces.                       *)
(***************************************************************************)
(* Slots changes hands for one byte at a time. *)
LEMMA SlotMoves ==
  ASSUME TypeOK, ScoreWin
  PROVE  /\ sq \in Paths /\ i \in Edges /\ top_rated[i] \in Queue \cup {NoEntry}
         /\ Queue \subseteq Paths /\ NoEntry \notin Queue
         /\ top_rated' \in [Edges -> Queue \cup {NoEntry}]
         /\ \A q \in Paths : Slots(q)' = IF q = sq THEN Slots(q) \cup {i}
                                                  ELSE Slots(q) \ {i}
         /\ \A q \in Paths : i \in Slots(q) <=> q = top_rated[i]
<1>1. Queue \subseteq Paths /\ NoEntry \notin Paths
  BY QueueCullAssumption DEF Queue, Paths, TypeOK, ShapeOK
<1>2. sq \in Queue /\ i \in Edges /\ top_rated' = [top_rated EXCEPT ![i] = sq]
      /\ top_rated \in [Edges -> Queue \cup {NoEntry}]
  BY DEF ScoreWin, TypeOK, ShapeOK
<1>3. /\ top_rated' \in [Edges -> Queue \cup {NoEntry}] /\ top_rated'[i] = sq
      /\ \A e \in Edges : e # i => top_rated'[e] = top_rated[e]
  BY <1>2
<1>4. ASSUME NEW q \in Paths, q = sq PROVE Slots(q)' = Slots(q) \cup {i}
  BY <1>2, <1>3, <1>4 DEF Slots
<1>5. ASSUME NEW q \in Paths, q # sq PROVE Slots(q)' = Slots(q) \ {i}
  BY <1>2, <1>3, <1>5 DEF Slots
<1>6. \A q \in Paths : i \in Slots(q) <=> q = top_rated[i]
  BY <1>2 DEF Slots
<1> QED
  BY <1>1, <1>2, <1>3, <1>4, <1>5, <1>6

LEMMA ScoreWinRefs ==
  ASSUME TypeOK, Refs, ScoreWin
  PROVE  Refs' /\ tc_ref' \in [Paths -> Nat]
         /\ trace_mini' \in [Paths -> Traces \cup {{}}]
<1> DEFINE w == top_rated[i]
           n(q) == Cardinality(Slots(q))
           m(q) == Cardinality(Slots(q)')
<1>1. \A q \in Paths : /\ IsFiniteSet(Slots(q)) /\ n(q) \in Nat
                       /\ Slots(q) \subseteq Edges
                       /\ n(q) = 0 <=> Slots(q) = {}
  BY Finite, FS_EmptySet DEF Slots
<1>2. \A q \in Paths : /\ IsFiniteSet(Slots(q)')
                       /\ m(q) = IF q = sq THEN IF q = w THEN n(q) ELSE n(q) + 1
                                  ELSE IF q = w THEN n(q) - 1 ELSE n(q)
                       /\ m(q) \in Nat
                       /\ m(q) = 0 <=> Slots(q)' = {}
  <2> SUFFICES ASSUME NEW q \in Paths
               PROVE  /\ IsFiniteSet(Slots(q)')
                      /\ m(q) = IF q = sq THEN IF q = w THEN n(q) ELSE n(q) + 1
                                 ELSE IF q = w THEN n(q) - 1 ELSE n(q)
                      /\ m(q) \in Nat
                      /\ m(q) = 0 <=> Slots(q)' = {}
    OBVIOUS
  <2>1. i \in Slots(q) <=> q = w
    BY SlotMoves
  <2>2. CASE q = sq
    <3>1. Slots(q)' = Slots(q) \cup {i}
      BY <2>2, SlotMoves
    <3>2. IsFiniteSet(Slots(q)')
          /\ m(q) = IF i \in Slots(q) THEN n(q) ELSE n(q) + 1
      BY <1>1, <3>1, FS_AddElement
    <3> QED
      BY <2>1, <2>2, <3>2, FS_EmptySet, FS_CardinalityType
  <2>3. CASE q # sq
    <3>1. Slots(q)' = Slots(q) \ {i}
      BY <2>3, SlotMoves
    <3>2. IsFiniteSet(Slots(q)')
          /\ m(q) = IF i \in Slots(q) THEN n(q) - 1 ELSE n(q)
      BY <1>1, <3>1, FS_RemoveElement
    <3> QED
      BY <2>1, <2>3, <3>2, FS_EmptySet, FS_CardinalityType
  <2> QED
    BY <2>2, <2>3
<1>3. /\ tc_ref \in [Paths -> Nat] /\ trace_mini \in [Paths -> Traces \cup {{}}]
      /\ tc_ref' = [Unref(w) EXCEPT ![sq] = @ + 1]
      /\ trace_mini' = IF FreeIfUnused(w)[sq] = {}
                       THEN [FreeIfUnused(w) EXCEPT ![sq] = trace_bits]
                       ELSE FreeIfUnused(w)
      /\ i \in trace_bits /\ trace_bits \in Traces \cup {{}}
  BY DEF TypeOK, ShapeOK, ScoreWin, WinsByte
<1>4. \A q \in Paths : tc_ref[q] = n(q) /\ (n(q) = 0 <=> trace_mini[q] = {})
  BY <1>1 DEF Refs, RefCounts, WinnersHaveTrace
<1>a. sq \in Paths /\ w \in Paths \cup {NoEntry} /\ NoEntry \notin Paths
  BY SlotMoves, QueueCullAssumption
<1>b. w \in Paths => n(w) > 0
  <2>1. w \in Paths => i \in Slots(w)
    BY SlotMoves
  <2> QED
    BY <1>1, <2>1
<1> HIDE DEF n, m, w
<1>5. /\ Unref(w) \in [Paths -> Int]
      /\ \A q \in Paths : Unref(w)[q] = IF q = w THEN n(q) - 1 ELSE n(q)
  <2>1. CASE w = NoEntry
    BY <1>1, <1>3, <1>4, <1>a, <2>1 DEF Unref
  <2>2. CASE w # NoEntry
    BY <1>1, <1>3, <1>4, <1>a, <2>2 DEF Unref
  <2> QED
    BY <2>1, <2>2
<1>6. tc_ref' \in [Paths -> Nat] /\ \A q \in Paths : tc_ref'[q] = m(q)
  <2>1. tc_ref' \in [Paths -> Int] /\ \A q \in Paths : tc_ref'[q] = m(q)
    BY <1>1, <1>2, <1>3, <1>5, <1>a
  <2> QED
    BY <1>2, <2>1
<1>7. /\ FreeIfUnused(w) \in [Paths -> Traces \cup {{}}]
      /\ \A q \in Paths : FreeIfUnused(w)[q] =
                          IF q = w /\ n(q) = 1 THEN {} ELSE trace_mini[q]
  BY <1>1, <1>3, <1>5, <1>a DEF FreeIfUnused
<1>8. /\ trace_mini' \in [Paths -> Traces \cup {{}}]
      /\ trace_mini'[sq] # {}
      /\ \A q \in Paths \ {sq} : trace_mini'[q] = FreeIfUnused(w)[q]
  BY <1>3, <1>7, <1>a
<1>9. \A q \in Paths : m(q) = 0 <=> trace_mini'[q] = {}
  BY <1>1, <1>2, <1>4, <1>7, <1>8, <1>a, <1>b
<1> QED
  BY <1>2, <1>6, <1>8, <1>9 DEF Refs, RefCounts, WinnersHaveTrace, m
-----------------------------------------------------------------------------
(***************************************************************************)
(* The shape of the state and the control, action by action.               *)
(***************************************************************************)
LEMMA Basics ==
  ASSUME IInv
  PROVE  /\ ShapeOK /\ Control /\ Queue \subseteq Paths /\ NoEntry \notin Queue
         /\ session.times \subseteq Nat /\ session.paths \in 1 .. MaxPaths
         /\ session.level \in Nat /\ MaxPaths \in Nat /\ NEdges \in Nat
         /\ CalChances \in Nat /\ CalChances > 0 /\ Traces \subseteq SUBSET Edges
         /\ Lens \subseteq Nat
<1>1. ShapeOK /\ Control
  BY DEF IInv, TypeOK
<1>2. Queue \subseteq Paths /\ NoEntry \notin Queue
  BY <1>1, QueueCullAssumption DEF ShapeOK, Queue, Paths
<1> QED
  BY <1>1, <1>2, QueueCullAssumption DEF ShapeOK

LEMMA ScoreShape ==
  ASSUME IInv, Score PROVE ShapeOK' /\ Control'
<1> USE Basics DEF entryVars, slotVars, cullVars, countVars, tableVars, schedVars
<1>1. CASE ScoreWin
  <2>1. /\ trace_mini' \in [Paths -> Traces \cup {{}}]
        /\ top_rated' \in [Edges -> Queue \cup {NoEntry}]
    BY <1>1, ScoreWinRefs, SlotMoves DEF IInv
  <2>2. i + 1 \in 0 .. NEdges
    BY <1>1 DEF ScoreWin, Edges
  <2>3. ShapeOK'
    BY <1>1, <2>1, <2>2 DEF ScoreWin, ShapeOK, Queue
  <2> QED
    BY <1>1, <2>3 DEF ScoreWin, Control, Fuzzing, Queue
<1>2. CASE ScoreLose
  <2>1. i + 1 \in 0 .. NEdges
    BY <1>2 DEF ScoreLose, Edges
  <2>2. ShapeOK'
    BY <1>2, <2>1 DEF ScoreLose, ShapeOK, Queue
  <2> QED
    BY <1>2, <2>2 DEF ScoreLose, Control, Fuzzing, Queue
<1>3. CASE ScoreReturn
  <2>1. ShapeOK'
    BY <1>3 DEF ScoreReturn, ShapeOK, Queue, Left, Control
  <2> QED
    BY <1>3, <2>1 DEF ScoreReturn, Control, Fuzzing, Queue
<1> QED
  BY <1>1, <1>2, <1>3 DEF Score

(* calibrate_case and a call of update_bitmap_score. *)
LEMMA CalibrateShape ==
  ASSUME IInv, NEW q \in Paths, NEW c \in Calibrations, NEW us \in session.times,
         NEW back, CalibrateOk(q, c, us, back)
  PROVE  /\ exec_us' \in [Paths -> session.times \cup {0}]
         /\ exec_cksum' \in [Paths -> Traces \cup {{}}]
         /\ cal_failed' \in [Paths -> 0 .. CalChances]
         /\ hits' \in [Paths -> SUBSET Edges]
         /\ trace_bits' \in Traces \cup {{}} /\ i' \in 0 .. NEdges
         /\ sq' = q /\ pc' = "score" /\ ret' = back
<1>1. c[1] \in Traces /\ c[2] \in Traces /\ c[1] \subseteq Edges /\ c[2] \subseteq Edges
  BY Basics DEF Calibrations
<1> QED
  BY <1>1, Basics DEF CalibrateOk, CallScore, ShapeOK

LEMMA DryRunShape ==
  ASSUME IInv, DryRun PROVE ShapeOK' /\ Control'
<1> USE Basics DEF entryVars, slotVars, cullVars, countVars, tableVars, schedVars
<1>1. CASE DryRunOk
  <2>1. PICK c \in Calibrations, us \in session.times : CalibrateOk(idx, c, us, "dry")
    BY <1>1 DEF DryRunOk
  <2>2. idx \in Queue /\ idx \in Paths /\ idx + 1 \in 0 .. queued_paths
    BY <1>1 DEF DryRunOk, Queue, ShapeOK
  <2>3. ShapeOK'
    BY <1>1, <2>1, <2>2, CalibrateShape DEF DryRunOk, ShapeOK, Queue
  <2>4. pc' = "score" /\ ret' = "dry"
    BY <2>1, <2>2, CalibrateShape
  <2> QED
    BY <2>3, <2>4 DEF Control, Fuzzing
<1>2. ASSUME NEW k \in {1, CalChances}, DryRunBad(k) PROVE ShapeOK' /\ Control'
  <2>1. idx \in Queue /\ idx \in Paths /\ idx + 1 \in 0 .. queued_paths
    BY <1>2 DEF DryRunBad, Queue, ShapeOK
  <2>2. trace_bits' \in Traces \cup {{}}
    BY <1>2 DEF DryRunBad, Left
  <2>3. ShapeOK'
    BY <1>2, <2>1, <2>2 DEF DryRunBad, ShapeOK, Queue, Disable
  <2> QED
    BY <1>2, <2>3 DEF DryRunBad, Control, Fuzzing
<1>3. CASE DryRunDone
  BY <1>3 DEF DryRunDone, ShapeOK, Control, Fuzzing, Queue
<1>4. CASE Dedupe
  <2>1. idx \in Queue /\ idx \in Paths /\ idx + 1 \in 0 .. queued_paths
    BY <1>4 DEF Dedupe, Queue, ShapeOK
  <2>2. Duplicates(idx) \subseteq Queue
    BY <2>1 DEF Duplicates, LaterTwins
  <2>3. disabled' \in SUBSET Queue /\ was_fuzzed' \in SUBSET Queue
    BY <1>4, <2>2 DEF Dedupe, Disable, ShapeOK
  <2>4. ShapeOK'
    BY <1>4, <2>1, <2>3 DEF Dedupe, ShapeOK, Queue
  <2> QED
    BY <1>4, <2>4 DEF Dedupe, Control, Fuzzing
<1>5. CASE DedupeDone
  BY <1>5 DEF DedupeDone, ShapeOK, Control, Fuzzing, Queue
<1>6. CASE StartFuzzing
  BY <1>6 DEF StartFuzzing, ShapeOK, Control, Fuzzing, Queue
<1> QED
  BY <1>1, <1>2, <1>3, <1>4, <1>5, <1>6 DEF DryRun

LEMMA CullShape ==
  ASSUME IInv, Cull PROVE ShapeOK' /\ Control'
<1> USE Basics DEF entryVars, slotVars, cullVars, countVars, tableVars, schedVars
<1>1. CASE CallCull \/ CullSkip
  BY <1>1 DEF CallCull, CullSkip, ShapeOK, Control, Fuzzing, Queue
<1>2. CASE CullBegin
  <2>1. /\ temp_v' \in SUBSET Edges /\ favored' \in SUBSET Queue
        /\ score_changed' = FALSE /\ i' = 0
    BY <1>2 DEF CullBegin
  <2>2. score_changed' \in BOOLEAN 
    BY <2>1
  <2>3. i' \in 0 .. NEdges
    BY <2>1
  <2>4. ShapeOK'
    BY <1>2, <2>1, <2>2, <2>3 DEF CullBegin, ShapeOK, Queue
  <2> QED
    BY <1>2, <2>4 DEF CullBegin, Control, Fuzzing, Queue
<1>3. CASE CullGrab
  <2>1. top_rated[i] \in Queue
    BY <1>3 DEF CullGrab, Grab, ShapeOK
  <2>2. i + 1 \in 0 .. NEdges
    BY <1>3 DEF CullGrab, Edges
  <2> QED
    BY <1>3, <2>1, <2>2 DEF CullGrab, Uncovered, ShapeOK, Control, Fuzzing, Queue
<1>4. CASE CullPass
  <2>1. i + 1 \in 0 .. NEdges
    BY <1>4 DEF CullPass, Edges
  <2> QED
    BY <1>4, <2>1 DEF CullPass, ShapeOK, Control, Fuzzing, Queue
<1>5. CASE CullEnd
  <2>1. fs_redundant' \in SUBSET Queue
    BY <1>5 DEF CullEnd, ShapeOK
  <2> QED
    BY <1>5, <2>1 DEF CullEnd, ShapeOK, Control, Fuzzing, Queue
<1> QED
  BY <1>1, <1>2, <1>3, <1>4, <1>5 DEF Cull

LEMMA CycleShape ==
  ASSUME IInv, Cycle PROVE ShapeOK' /\ Control'
<1> USE Basics DEF entryVars, slotVars, cullVars, countVars, tableVars, schedVars
<1>1. CASE BeginCycle
  BY <1>1 DEF BeginCycle, NextSchedule, ShapeOK, Control, Fuzzing, Queue
<1>2. CASE Rescore
  <2>1. idx \in Queue /\ idx + 1 \in 0 .. queued_paths
    BY <1>2 DEF Rescore, Queue, ShapeOK
  <2> QED
    BY <1>2, <2>1 DEF Rescore, CallScore, ShapeOK, Control, Fuzzing, Queue
<1>3. CASE EndCycle
  BY <1>3 DEF EndCycle, ShapeOK, Control, Fuzzing, Queue
<1> QED
  BY <1>1, <1>2, <1>3 DEF Cycle

LEMMA SelectShape ==
  ASSUME IInv, SkipEntry \/ \E q \in Paths : FuzzOne(q) PROVE ShapeOK' /\ Control'
<1> USE Basics DEF entryVars, slotVars, cullVars, countVars, tableVars, schedVars
<1>1. TableNow \subseteq Queue
  BY DEF TableNow, CreateAliasTable, Enabled, ShapeOK
<1>2. CASE SkipEntry
  BY <1>1, <1>2 DEF SkipEntry, ShapeOK, Control, Fuzzing, Queue
<1>3. CASE \E q \in Paths : FuzzOne(q)
  BY <1>1, <1>3 DEF FuzzOne, ShapeOK, Control, Fuzzing, Queue
<1> QED
  BY <1>2, <1>3

LEMMA FuzzShape ==
  ASSUME IInv,
         \/ Recalibrate \/ RecalibrateFails \/ TrimCase \/ NothingTrimmed
         \/ StagesDone \/ \E stop_soon \in BOOLEAN : AbandonEntry(stop_soon)
  PROVE  ShapeOK' /\ Control'
<1> USE Basics DEF entryVars, slotVars, cullVars, countVars, tableVars, schedVars
<1>1. queue_cur \in Queue /\ queue_cur \in Paths /\ fuzz_level[queue_cur] < session.level
  BY DEF Recalibrate, RecalibrateFails, TrimCase, NothingTrimmed, StagesDone,
     AbandonEntry, Control, Fuzzing
<1>2. CASE Recalibrate
  <2>1. PICK c \in Calibrations, us \in session.times, then \in {"trim", "abandon"} :
          CalibrateOk(queue_cur, c, us, then)
    BY <1>2 DEF Recalibrate
  <2>2. ShapeOK' /\ pc' = "score" /\ ret' = then
    BY <1>1, <1>2, <2>1, CalibrateShape DEF Recalibrate, ShapeOK, Queue
  <2> QED
    BY <1>1, <1>2, <2>2 DEF Recalibrate, Control, Fuzzing, Queue
<1>3. CASE RecalibrateFails
  <2>1. /\ cal_failed' \in [Paths -> 0 .. CalChances]
        /\ exec_cksum' \in [Paths -> Traces \cup {{}}]
        /\ trace_bits' \in Traces \cup {{}}
    BY <1>1, <1>3 DEF RecalibrateFails, ShapeOK, Left
  <2> QED
    BY <1>1, <1>3, <2>1 DEF RecalibrateFails, ShapeOK, Control, Fuzzing, Queue
<1>4. CASE TrimCase
  <2>1. /\ len' \in [Paths -> Lens \cup {0}] /\ pc' = "score" /\ ret' = "stages"
        /\ sq' = queue_cur /\ i' = 0 /\ trace_bits' \in Traces \cup {{}}
    BY <1>1, <1>4 DEF TrimCase, CallScore, ShapeOK
  <2> QED
    BY <1>1, <1>4, <2>1 DEF TrimCase, ShapeOK, Control, Fuzzing, Queue
<1>5. CASE NothingTrimmed
  BY <1>1, <1>5 DEF NothingTrimmed, ShapeOK, Control, Fuzzing, Queue
<1>6. CASE StagesDone
  <2>1. trace_bits' \in Traces \cup {{}}
    BY <1>6 DEF StagesDone, Left, ShapeOK
  <2> QED
    BY <1>1, <1>6, <2>1 DEF StagesDone, ShapeOK, Control, Fuzzing, Queue
<1>7. ASSUME NEW b \in BOOLEAN, AbandonEntry(b) PROVE ShapeOK' /\ Control'
  <2>1. fuzz_level' \in [Paths -> 0 .. session.level]
    <3>1. /\ fuzz_level \in [Paths -> 0 .. session.level]
          /\ fuzz_level' = [fuzz_level EXCEPT ![queue_cur] = @ + 1]
      BY <1>7 DEF AbandonEntry, ShapeOK
    <3>2. fuzz_level[queue_cur] + 1 \in 0 .. session.level
      BY <1>1, <3>1
    <3> QED
      BY <3>1, <3>2
  <2>2. was_fuzzed' \in SUBSET Queue /\ reinit_table' \in BOOLEAN
    <3>1. /\ was_fuzzed' = was_fuzzed \/ was_fuzzed' = was_fuzzed \cup {queue_cur}
          /\ reinit_table' = TRUE \/ reinit_table' = reinit_table
      BY <1>7 DEF AbandonEntry
    <3> QED
      BY <1>1, <3>1 DEF ShapeOK
  <2> QED
    BY <1>7, <2>1, <2>2 DEF AbandonEntry, ShapeOK, Control, Fuzzing, Queue
<1> QED
  BY <1>2, <1>3, <1>4, <1>5, <1>6, <1>7

LEMMA Grows ==
  ASSUME IInv, MayFind, NEW n \in Lens, AddToQueue(n)
  PROVE  /\ queued_paths \in Paths /\ queued_paths \notin Queue
         /\ queued_paths' \in 1 .. MaxPaths
         /\ Queue' = Queue \cup {queued_paths}
         /\ len' \in [Paths -> Lens \cup {0}]
<1>1. queued_paths \in Nat /\ session.paths \in Nat /\ queued_paths < session.paths
      /\ session.paths <= MaxPaths /\ MaxPaths \in Nat
      /\ queued_paths' = queued_paths + 1
  BY Basics DEF ShapeOK, MayFind, AddToQueue
<1>2. queued_paths \in Paths /\ queued_paths \notin Queue
  BY <1>1 DEF Paths, Queue
<1>3. Queue' = Queue \cup {queued_paths}
  BY <1>1 DEF Queue
<1>4. len' \in [Paths -> Lens \cup {0}]
  BY <1>2, Basics DEF AddToQueue, ShapeOK
<1> QED
  BY <1>1, <1>2, <1>3, <1>4

LEMMA FindShape ==
  ASSUME IInv, Find \/ FindFailsCalibration PROVE ShapeOK' /\ Control'
<1> USE Basics DEF entryVars, slotVars, cullVars, countVars, tableVars, schedVars
<1>1. CASE Find
  <2>1. PICK n \in Lens, c \in Calibrations, us \in session.times :
          AddToQueue(n) /\ CalibrateOk(queued_paths, c, us, pc)
    BY <1>1 DEF Find
  <2>2. MayFind
    BY <1>1 DEF Find
  <2>3. /\ queued_paths \in Paths /\ queued_paths' \in 1 .. MaxPaths
        /\ Queue' = Queue \cup {queued_paths}
        /\ len' \in [Paths -> Lens \cup {0}]
    BY <2>1, <2>2, Grows
  <2>4. /\ exec_us' \in [Paths -> session.times \cup {0}]
        /\ exec_cksum' \in [Paths -> Traces \cup {{}}]
        /\ cal_failed' \in [Paths -> 0 .. CalChances]
        /\ hits' \in [Paths -> SUBSET Edges]
        /\ trace_bits' \in Traces \cup {{}} /\ i' \in 0 .. NEdges
        /\ sq' = queued_paths /\ pc' = "score" /\ ret' = pc
    BY <2>1, <2>3, CalibrateShape
  <2>5. /\ pc \in {"top", "select", "stages"} /\ reinit_table' = TRUE
        /\ idx' \in 0 .. queued_paths'
    BY <1>1, <2>1, <2>2 DEF MayFind, AddToQueue, Find, ShapeOK
  <2>6. ShapeOK'
    <3>1. /\ top_rated' \in [Edges -> Queue' \cup {NoEntry}]
          /\ disabled' \in SUBSET Queue' /\ was_fuzzed' \in SUBSET Queue'
          /\ trim_done' \in SUBSET Queue' /\ fs_redundant' \in SUBSET Queue'
          /\ favored' \in SUBSET Queue' /\ table' \in SUBSET Queue'
      BY <1>1, <2>3 DEF Find, ShapeOK
    <3>2. queue_cur' \in Queue' \cup {NoEntry} /\ sq' \in Queue' \cup {NoEntry}
          /\ sq' # NoEntry
      BY <1>1, <2>3, <2>4, QueueCullAssumption DEF Find, ShapeOK
    <3> QED
      BY <1>1, <2>3, <2>4, <2>5, <3>1, <3>2 DEF Find, ShapeOK
  <2> QED
    BY <1>1, <2>3, <2>4, <2>5, <2>6 DEF Find, Control, Fuzzing
<1>2. CASE FindFailsCalibration
  <2>1. PICK n \in Lens, t \in Traces :
          /\ AddToQueue(n)
          /\ exec_cksum' = [exec_cksum EXCEPT ![queued_paths] = t]
          /\ hits' = [hits EXCEPT ![queued_paths] = t]
    BY <1>2 DEF FindFailsCalibration
  <2>2. MayFind
    BY <1>2 DEF FindFailsCalibration
  <2>3. /\ queued_paths \in Paths /\ queued_paths' \in 1 .. MaxPaths
        /\ Queue' = Queue \cup {queued_paths}
        /\ len' \in [Paths -> Lens \cup {0}]
    BY <2>1, <2>2, Grows
  <2>4. /\ exec_cksum' \in [Paths -> Traces \cup {{}}]
        /\ hits' \in [Paths -> SUBSET Edges]
    BY <2>1, <2>3 DEF ShapeOK
  <2>5. /\ cal_failed' \in [Paths -> 0 .. CalChances]
        /\ trace_bits' \in Traces \cup {{}}
        /\ reinit_table' = TRUE
        /\ idx' \in 0 .. queued_paths'
    BY <1>2, <2>1, <2>3 DEF FindFailsCalibration, AddToQueue, Left, ShapeOK
  <2>6. ShapeOK'
    BY <1>2, <2>3, <2>4, <2>5 DEF FindFailsCalibration, ShapeOK
  <2> QED
    BY <1>2, <2>3, <2>6 DEF FindFailsCalibration, Control, Fuzzing
<1> QED
  BY <1>1, <1>2

LEMMA ShapeKeeps ==
  ASSUME IInv, [Next]_vars PROVE ShapeOK' /\ Control'
<1>1. CASE StopFuzzing
  BY <1>1, Basics DEF StopFuzzing, ShapeOK, Control, Fuzzing, Queue, entryVars,
     slotVars, cullVars, countVars, tableVars, schedVars
<1>2. CASE Stopped \/ UNCHANGED vars
  BY <1>2, Basics DEF Stopped, vars, ShapeOK, Control, Fuzzing, Queue, entryVars,
     slotVars, cullVars, countVars, tableVars, schedVars
<1>3. CASE FuzzLoop
  BY <1>3, SelectShape, FuzzShape, FindShape DEF FuzzLoop
<1> QED
  BY <1>1, <1>2, <1>3, ScoreShape, DryRunShape, CullShape, CycleShape DEF Next
-----------------------------------------------------------------------------
(***************************************************************************)
(* cull_queue: the favored entries cover the map.                          *)
(***************************************************************************)
LEMMA CullFrame ==
  ASSUME IInv, [Next]_vars
  PROVE  /\ pc = "culling" => CullGrab \/ CullPass \/ CullEnd \/ UNCHANGED vars
         /\ pc # "culling" /\ pc' = "culling" => CullBegin
<1> USE Basics DEF Control
<1>1. CASE Score
  BY <1>1 DEF Score, ScoreLose, ScoreReturn, ScoreWin
<1>2. CASE DryRun
  BY <1>2 DEF DryRun, DryRunOk, CalibrateOk, CallScore, DryRunBad, DryRunDone,
     Dedupe, DedupeDone, StartFuzzing
<1>3. CASE Cull
  BY <1>3 DEF Cull, CallCull, CullSkip, CullBegin, CullGrab, CullPass, CullEnd
<1>4. CASE Cycle
  BY <1>4 DEF Cycle, BeginCycle, Rescore, CallScore, EndCycle
<1>5. CASE FuzzLoop
  BY <1>5 DEF FuzzLoop, SkipEntry, FuzzOne, Recalibrate, RecalibrateFails,
     CalibrateOk, CallScore, TrimCase, NothingTrimmed, StagesDone, Find,
     FindFailsCalibration, MayFind, AbandonEntry
<1>6. CASE StopFuzzing \/ Stopped \/ UNCHANGED vars
  BY <1>6 DEF StopFuzzing, Stopped, vars
<1> QED
  BY <1>1, <1>2, <1>3, <1>4, <1>5, <1>6 DEF Next

LEMMA CoverKeeps ==
  ASSUME IInv, [Next]_vars PROVE FavoredCover' /\ CullCover'
<1> USE Basics DEF slotVars, cullVars
<1>1. FavoredCover /\ CullCover
  BY DEF IInv
<1>2. CASE ScoreWin
  BY <1>2 DEF ScoreWin, FavoredCover, CullCover
<1>3. CASE CullBegin
  <2>1. /\ temp_v' = Edges /\ i' = 0 /\ pc' = "culling" /\ score_changed' = FALSE
    BY <1>3 DEF CullBegin
  <2>2. \A e \in Edges : ~(e < 0)
    BY DEF Edges
  <2> QED
    BY <2>1, <2>2 DEF FavoredCover, CullCover
<1>4. CASE CullGrab
  <2> DEFINE w == top_rated[i]
  <2>1. /\ temp_v' = temp_v \ trace_mini[w] /\ favored' = favored \cup {w}
        /\ i' = i + 1 /\ pc' = pc /\ pc = "culling" /\ i \in Edges
        /\ UNCHANGED <<tc_ref, trace_mini, top_rated, score_changed>>
    BY <1>4 DEF CullGrab, Uncovered
  <2>2. ~score_changed /\ temp_v \subseteq Edges
    BY <1>1, <2>1 DEF CullCover, ShapeOK
  <2>3. ASSUME NEW e \in Edges \ temp_v' PROVE \E q \in favored' : e \in trace_mini'[q]
    <3>1. CASE e \in trace_mini[w]
      BY <2>1, <3>1
    <3>2. CASE e \notin temp_v
      BY <1>1, <2>1, <3>2 DEF CullCover
    <3> QED
      BY <2>1, <2>3, <3>1, <3>2
  <2>4. ASSUME NEW e \in temp_v', e < i' PROVE top_rated'[e] \in favored' \cup {NoEntry}
    <3>1. CASE e = i
      BY <2>1, <3>1
    <3>2. CASE e # i
      <4>1. e \in temp_v /\ e \in Edges
        BY <2>1, <2>2
      <4>2. e < i
        BY <2>1, <2>4, <3>2, <4>1 DEF Edges
      <4> QED
        BY <1>1, <2>1, <4>1, <4>2 DEF CullCover
    <3> QED
      BY <3>1, <3>2
  <2> QED
    BY <2>1, <2>2, <2>3, <2>4 DEF FavoredCover, CullCover
<1>5. CASE CullPass
  <2>1. /\ i' = i + 1 /\ pc' = pc /\ pc = "culling" /\ i \in Edges
        /\ top_rated[i] = NoEntry \/ i \notin temp_v
        /\ UNCHANGED <<tc_ref, trace_mini, top_rated, score_changed, temp_v, favored>>
    BY <1>5 DEF CullPass, Grab
  <2>2. ~score_changed /\ temp_v \subseteq Edges
    BY <1>1, <2>1 DEF CullCover, ShapeOK
  <2>3. ASSUME NEW e \in temp_v, e < i' PROVE top_rated[e] \in favored \cup {NoEntry}
    <3>1. e = i \/ e < i
      BY <2>1, <2>2, <2>3 DEF Edges
    <3> QED
      BY <1>1, <2>1, <3>1 DEF CullCover
  <2> QED
    BY <1>1, <2>1, <2>2, <2>3 DEF FavoredCover, CullCover
<1>6. CASE CullEnd
  <2>1. /\ i = NEdges /\ pc' # "culling" /\ pc = "culling"
        /\ UNCHANGED <<tc_ref, trace_mini, top_rated, score_changed, favored>>
    BY <1>6 DEF CullEnd, Control
  <2>2. \A e \in Edges : e < i
    BY <2>1 DEF Edges
  <2> QED
    BY <1>1, <2>1, <2>2 DEF FavoredCover, CullCover
<1>7. CASE UNCHANGED vars
  BY <1>1, <1>7 DEF vars, FavoredCover, CullCover
<1>8. CASE /\ pc # "culling" /\ pc' # "culling"
           /\ UNCHANGED <<tc_ref, trace_mini, top_rated, score_changed, favored>>
  BY <1>1, <1>8 DEF FavoredCover, CullCover
<1> QED
  BY <1>2, <1>3, <1>4, <1>5, <1>6, <1>7, <1>8, Frames, CullFrame
-----------------------------------------------------------------------------
(***************************************************************************)
(* The counters.                                                           *)
(***************************************************************************)
(* Flags, levels and the number of entries change in a few steps only. *)
LEMMA CountFrame ==
  ASSUME [Next]_vars
  PROVE  \/ \E k \in {1, CalChances} : DryRunBad(k)
         \/ Dedupe
         \/ \E b \in BOOLEAN : AbandonEntry(b)
         \/ Find \/ FindFailsCalibration
         \/ UNCHANGED <<queued_paths, disabled, was_fuzzed, fuzz_level,
                        pending_not_fuzzed, active_paths>>
<1> USE DEF entryVars, slotVars, cullVars, countVars, tableVars, schedVars
<1>1. CASE Score
  BY <1>1 DEF Score, ScoreLose, ScoreReturn, ScoreWin
<1>2. CASE DryRun
  BY <1>2 DEF DryRun, DryRunOk, DryRunDone, DedupeDone, StartFuzzing
<1>3. CASE Cull
  BY <1>3 DEF Cull, CallCull, CullSkip, CullBegin, CullGrab, CullPass, CullEnd
<1>4. CASE Cycle
  BY <1>4 DEF Cycle, BeginCycle, Rescore, EndCycle
<1>5. CASE FuzzLoop
  BY <1>5 DEF FuzzLoop, SkipEntry, FuzzOne, Recalibrate, RecalibrateFails,
     TrimCase, NothingTrimmed, StagesDone
<1>6. CASE StopFuzzing \/ Stopped \/ UNCHANGED vars
  BY <1>6 DEF StopFuzzing, Stopped, vars
<1> QED
  BY <1>1, <1>2, <1>3, <1>4, <1>5, <1>6 DEF Next

(* Only steps of the first phase lead to it. *)
LEMMA EarlyFrame ==
  ASSUME IInv, [Next]_vars
  PROVE  Early' => Early
<1> USE Basics DEF Control, Early, Drying
<1>1. CASE Score
  BY <1>1 DEF Score, ScoreLose, ScoreReturn, ScoreWin
<1>2. CASE DryRun
  BY <1>2 DEF DryRun, DryRunOk, CalibrateOk, CallScore, DryRunBad, DryRunDone,
     Dedupe, DedupeDone, StartFuzzing
<1>3. CASE Cull
  BY <1>3 DEF Cull, CallCull, CullSkip, CullBegin, CullGrab, CullPass, CullEnd
<1>4. CASE Cycle
  BY <1>4 DEF Cycle, BeginCycle, Rescore, CallScore, EndCycle
<1>5. CASE FuzzLoop
  BY <1>5 DEF FuzzLoop, SkipEntry, FuzzOne, Recalibrate, RecalibrateFails,
     CalibrateOk, CallScore, TrimCase, NothingTrimmed, StagesDone, Find,
     FindFailsCalibration, MayFind, AbandonEntry
<1>6. CASE StopFuzzing \/ Stopped \/ UNCHANGED vars
  BY <1>6 DEF StopFuzzing, Stopped, vars
<1> QED
  BY <1>1, <1>2, <1>3, <1>4, <1>5, <1>6 DEF Next

(* Taking entries out of a set. *)
LEMMA Remove ==
  ASSUME NEW Q, IsFiniteSet(Q), NEW F \in SUBSET Q, NEW D \in SUBSET Q
  PROVE  /\ Cardinality(Q \ F) \in Nat /\ Cardinality(D \ F) \in Nat
         /\ Cardinality(Q \ (F \cup D)) = Cardinality(Q \ F) - Cardinality(D \ F)
<1> DEFINE A == Q \ (F \cup D)
           B == D \ F
           C == Q \ F
<1>1. C = A \cup B /\ A \cap B = {}
  OBVIOUS
<1>2. IsFiniteSet(A) /\ IsFiniteSet(B) /\ IsFiniteSet(C)
  BY FS_Subset
<1> HIDE DEF A, B, C
<1>3. Cardinality(A) \in Nat /\ Cardinality(B) \in Nat /\ Cardinality(C) \in Nat
  BY <1>2, FS_CardinalityType
<1>4. Cardinality(C) = Cardinality(A) + Cardinality(B) - Cardinality(A \cap B)
  BY <1>1, <1>2, FS_Union
<1>5. Cardinality(A \cap B) = 0
  BY <1>1, FS_EmptySet, Zenon
<1>6. Cardinality(A) = Cardinality(C) - Cardinality(B)
  BY <1>3, <1>4, <1>5
<1> QED
  BY <1>3, <1>6 DEF A, B, C

LEMMA DisableCounts ==
  ASSUME IInv, Early, NEW D \in SUBSET Queue, Disable(D),
         UNCHANGED <<queued_paths, favored, queued_favored, pending_favored, fuzz_level>>,
         pc' # "culling"
  PROVE  CountersExact' /\ PendingFavoredBounds' /\ Fuzzed' /\ CullCounts'
<1>1. /\ was_fuzzed = disabled /\ favored = {} /\ was_fuzzed \in SUBSET Queue
      /\ pc # "culling" /\ CountersExact /\ PendingFavoredBounds /\ IsFiniteSet(Queue)
  BY Basics, Finite DEF IInv, Fuzzed, ShapeOK, Early, Drying
<1>2. /\ was_fuzzed' = was_fuzzed \cup D /\ disabled' = disabled \cup D
      /\ pending_not_fuzzed' = pending_not_fuzzed - Cardinality(D \ was_fuzzed)
      /\ active_paths' = active_paths - Cardinality(D \ was_fuzzed)
  BY DEF Disable
<1>3. CountersExact'
  BY <1>1, <1>2, Remove DEF CountersExact, Queue
<1>4. PendingFavoredBounds'
  <2>1. /\ favored \ was_fuzzed = {} /\ (favored \ was_fuzzed) \cup (favored \cap disabled) = {}
        /\ favored' \ was_fuzzed' = {}
        /\ (favored' \ was_fuzzed') \cup (favored' \cap disabled') = {}
    BY <1>1
  <2> QED
    BY <1>1, <2>1 DEF PendingFavoredBounds
<1>5. Fuzzed' /\ CullCounts'
  BY <1>1, <1>2 DEF Fuzzed, CullCounts
<1> QED
  BY <1>3, <1>4, <1>5

(* abandon_entry: the entry is fuzzed for the first time, or only its      *)
(* level goes up.                                                          *)
LEMMA AbandonCounts ==
  ASSUME IInv, NEW b \in BOOLEAN, AbandonEntry(b), ShapeOK'
  PROVE  CountersExact' /\ PendingFavoredBounds' /\ Fuzzed' /\ CullCounts'
<1> USE Basics
<1>1. /\ queue_cur \in Queue /\ queue_cur \in Paths
      /\ CountersExact /\ PendingFavoredBounds /\ Fuzzed
      /\ IsFiniteSet(Queue) /\ pc = "abandon" /\ pc' \in {"stopped", "top"}
      /\ favored \in SUBSET Queue /\ was_fuzzed \in SUBSET Queue
      /\ disabled \in SUBSET Queue
  BY Finite DEF IInv, AbandonEntry, Control, Fuzzing, ShapeOK
<1>2. /\ queued_paths' = queued_paths /\ disabled' = disabled
      /\ favored' = favored /\ queued_favored' = queued_favored
      /\ active_paths' = active_paths
      /\ fuzz_level' = [fuzz_level EXCEPT ![queue_cur] = @ + 1]
  BY DEF AbandonEntry, cullVars
<1>3. \A q \in was_fuzzed' \ disabled' : fuzz_level'[q] > 0
  <2>1. was_fuzzed' \subseteq was_fuzzed \cup {queue_cur}
    BY DEF AbandonEntry
  <2>2. /\ fuzz_level \in [Paths -> 0 .. session.level]
        /\ fuzz_level'[queue_cur] > 0
        /\ \A q \in Paths : q # queue_cur => fuzz_level'[q] = fuzz_level[q]
    BY <1>1, <1>2 DEF ShapeOK
  <2> QED
    BY <1>1, <1>2, <2>1, <2>2 DEF Fuzzed
<1>4. Fuzzed' /\ CullCounts'
  BY <1>1, <1>3 DEF Fuzzed, CullCounts, Early, Drying
<1>5. CASE ~(~b /\ FirstTime(queue_cur))
  <2>1. UNCHANGED <<pending_not_fuzzed, was_fuzzed, pending_favored>>
    BY <1>5 DEF AbandonEntry
  <2> QED
    BY <1>1, <1>2, <1>4, <2>1 DEF CountersExact, PendingFavoredBounds, Queue
<1>6. CASE ~b /\ FirstTime(queue_cur)
  <2> DEFINE q == queue_cur
             Low == favored \ was_fuzzed
             High == (favored \ was_fuzzed) \cup (favored \cap disabled)
  <2>1. /\ pending_not_fuzzed' = pending_not_fuzzed - 1
        /\ was_fuzzed' = was_fuzzed \cup {q}
        /\ pending_favored' = pending_favored - (IF q \in favored THEN 1 ELSE 0)
        /\ q \notin was_fuzzed /\ q \notin disabled
    BY <1>6 DEF AbandonEntry, FirstTime, FavoredNow
  <2>2. CountersExact'
    <3>1. Queue' \ was_fuzzed' = (Queue \ was_fuzzed) \ {q}
      BY <1>2, <2>1 DEF Queue
    <3>2. Cardinality((Queue \ was_fuzzed) \ {q}) = Cardinality(Queue \ was_fuzzed) - 1
      <4>1. IsFiniteSet(Queue \ was_fuzzed) /\ q \in Queue \ was_fuzzed
        BY <1>1, <2>1, FS_Subset
      <4> QED
        BY <4>1, FS_RemoveElement
    <3> QED
      BY <1>1, <1>2, <2>1, <3>1, <3>2 DEF CountersExact, Queue
  <2>3. PendingFavoredBounds'
    <3>1. /\ favored' \ was_fuzzed' = Low \ {q}
          /\ (favored' \ was_fuzzed') \cup (favored' \cap disabled') = High \ {q}
          /\ q \in Low <=> q \in favored
          /\ q \in High <=> q \in favored
      BY <1>2, <2>1
    <3>2. IsFiniteSet(Low) /\ IsFiniteSet(High)
      BY <1>1, FS_Subset
    <3>3. /\ Cardinality(Low) \in Nat /\ Cardinality(High) \in Nat
          /\ pending_favored \in Cardinality(Low) .. Cardinality(High)
      BY <1>1, <3>2, FS_CardinalityType DEF PendingFavoredBounds
    <3> HIDE DEF Low, High
    <3>4. /\ Cardinality(Low \ {q}) = Cardinality(Low) - (IF q \in favored THEN 1 ELSE 0)
          /\ Cardinality(High \ {q}) = Cardinality(High) - (IF q \in favored THEN 1 ELSE 0)
      <4>1. Cardinality(Low \ {q}) = IF q \in Low THEN Cardinality(Low) - 1
                                                  ELSE Cardinality(Low)
        BY <3>2, FS_RemoveElement
      <4>2. Cardinality(High \ {q}) = IF q \in High THEN Cardinality(High) - 1
                                                    ELSE Cardinality(High)
        BY <3>2, FS_RemoveElement
      <4> QED
        BY <3>1, <3>3, <4>1, <4>2
    <3>5. pending_favored' \in Cardinality(Low \ {q}) .. Cardinality(High \ {q})
      BY <2>1, <3>3, <3>4
    <3> QED
      BY <3>1, <3>5 DEF PendingFavoredBounds
  <2> QED
    BY <1>4, <2>2, <2>3
<1> QED
  BY <1>5, <1>6

(* add_to_queue. *)
LEMMA FindCounts ==
  ASSUME IInv, Find \/ FindFailsCalibration
  PROVE  CountersExact' /\ PendingFavoredBounds' /\ Fuzzed' /\ CullCounts'
<1> USE Basics DEF entryVars, slotVars, cullVars, countVars, tableVars, schedVars
<1>1. PICK n \in Lens : AddToQueue(n)
  BY DEF Find, FindFailsCalibration
<1>2. /\ MayFind /\ pc \in {"top", "select", "stages"}
      /\ ((pc' = "score" /\ ret' = pc) \/ pc' = pc)
      /\ UNCHANGED <<favored, queued_favored, pending_favored, was_fuzzed,
                     disabled, fuzz_level>>
  BY DEF Find, FindFailsCalibration, MayFind, CalibrateOk, CallScore
<1>3. /\ Queue' = Queue \cup {queued_paths} /\ queued_paths \notin Queue
      /\ pending_not_fuzzed' = pending_not_fuzzed + 1
      /\ active_paths' = active_paths + 1
  BY <1>1, <1>2, Grows DEF AddToQueue
<1>4. /\ IsFiniteSet(Queue) /\ was_fuzzed \in SUBSET Queue /\ disabled \in SUBSET Queue
      /\ CountersExact /\ PendingFavoredBounds /\ Fuzzed
  BY Finite DEF IInv, ShapeOK
<1>5. ASSUME NEW S \in SUBSET Queue
      PROVE  Cardinality(Queue' \ S) = Cardinality(Queue \ S) + 1
  <2>1. Queue' \ S = (Queue \ S) \cup {queued_paths}
    BY <1>3
  <2> QED
    <3>1. IsFiniteSet(Queue \ S) /\ queued_paths \notin Queue \ S
      BY <1>3, <1>4, FS_Subset
    <3>2. Cardinality((Queue \ S) \cup {queued_paths}) = Cardinality(Queue \ S) + 1
      BY <3>1, FS_AddElement
    <3> QED
      BY <2>1, <3>2
<1>6. CountersExact'
  BY <1>2, <1>3, <1>4, <1>5 DEF CountersExact
<1>7. PendingFavoredBounds' /\ Fuzzed' /\ CullCounts'
  BY <1>2, <1>4 DEF PendingFavoredBounds, Fuzzed, CullCounts, Early, Drying
<1> QED
  BY <1>6, <1>7

(* cull_queue counts the entries it marks. *)
LEMMA CullStepCounts ==
  ASSUME IInv, CullBegin \/ CullGrab \/ CullPass \/ CullEnd
  PROVE  CountersExact' /\ PendingFavoredBounds' /\ Fuzzed' /\ CullCounts'
<1> USE Basics DEF entryVars, slotVars, cullVars, countVars, tableVars, schedVars
<1>1. /\ UNCHANGED <<queued_paths, was_fuzzed, disabled, fuzz_level,
                     pending_not_fuzzed, active_paths, ret>>
      /\ pc \in {"cull", "culling"} /\ CountersExact /\ CullCounts /\ Fuzzed
      /\ ret \in {"start", "select"}
      /\ (pc' = "culling" \/ (pc = "culling" /\ pc' = ret))
  BY DEF IInv, Control, CullBegin, CullGrab, CullPass, CullEnd
<1>2. Fuzzed'
  <2>1. ~Early'
    BY <1>1 DEF Early, Drying
  <2>2. was_fuzzed' = was_fuzzed /\ disabled' = disabled /\ fuzz_level' = fuzz_level
    BY <1>1
  <2> QED
    BY <1>1, <2>1, <2>2 DEF Fuzzed
<1>3. CASE CullBegin
  <2>1. /\ favored' = {} /\ queued_favored' = 0 /\ pending_favored' = 0
        /\ pc' = "culling"
    BY <1>3 DEF CullBegin
  <2>2. {q \in favored' : IsPending(q)'} = {}
    BY <2>1
  <2>3. CullCounts'
    BY <2>1, <2>2, FS_EmptySet DEF CullCounts
  <2> QED
    BY <1>1, <1>2, <2>1, <2>3 DEF CountersExact, PendingFavoredBounds, Queue
<1>4. CASE CullGrab
  <2> DEFINE w == top_rated[i]
             P == {q \in favored : IsPending(q)}
  <2>1. /\ favored' = favored \cup {w}
        /\ queued_favored' = queued_favored + (IF w \in favored THEN 0 ELSE 1)
        /\ pending_favored' =
             pending_favored + (IF w \notin favored /\ IsPending(w) THEN 1 ELSE 0)
        /\ pc = "culling" /\ pc' = "culling"
    BY <1>4 DEF CullGrab
  <2>2. IsFiniteSet(favored) /\ IsFiniteSet(P)
        /\ Cardinality(favored) \in Nat /\ Cardinality(P) \in Nat
    BY Finite, FS_Subset, FS_CardinalityType DEF IInv, ShapeOK
  <2>3. {q \in favored' : IsPending(q)'} = IF IsPending(w) THEN P \cup {w} ELSE P
    BY <1>1, <2>1 DEF IsPending
  <2>4. w \in P <=> w \in favored /\ IsPending(w)
    OBVIOUS
  <2> HIDE DEF w, P
  <2>5. /\ Cardinality(favored \cup {w}) =
             Cardinality(favored) + (IF w \in favored THEN 0 ELSE 1)
        /\ Cardinality(P \cup {w}) = Cardinality(P) + (IF w \in P THEN 0 ELSE 1)
    <3>1. Cardinality(favored \cup {w}) =
            IF w \in favored THEN Cardinality(favored) ELSE Cardinality(favored) + 1
      BY <2>2, FS_AddElement
    <3>2. Cardinality(P \cup {w}) =
            IF w \in P THEN Cardinality(P) ELSE Cardinality(P) + 1
      BY <2>2, FS_AddElement
    <3> QED
      BY <2>2, <3>1, <3>2
  <2>6. queued_favored = Cardinality(favored) /\ pending_favored = Cardinality(P)
    BY <1>1, <2>1 DEF CullCounts, P
  <2>7. CullCounts'
    <3>1. Cardinality({q \in favored' : IsPending(q)'}) = pending_favored'
      <4>1. CASE IsPending(w)
        BY <2>1, <2>2, <2>3, <2>4, <2>5, <2>6, <4>1
      <4>2. CASE ~IsPending(w)
        <5>1. {q \in favored' : IsPending(q)'} = P
          BY <2>3, <4>2
        <5>2. pending_favored' = pending_favored
          BY <2>1, <2>2, <2>6, <4>2
        <5> QED
          BY <2>6, <5>1, <5>2, Zenon
      <4> QED
        BY <4>1, <4>2
    <3>2. Cardinality(favored') = queued_favored'
      BY <2>1, <2>5, <2>6
    <3> QED
      BY <3>1, <3>2 DEF CullCounts
  <2> QED
    BY <1>1, <1>2, <2>1, <2>7 DEF CountersExact, PendingFavoredBounds, Queue
<1>5. CASE CullPass
  <2>1. UNCHANGED <<favored, queued_favored, pending_favored>> /\ pc' = "culling"
        /\ pc = "culling"
    BY <1>5 DEF CullPass
  <2>2. {q \in favored' : IsPending(q)'} = {q \in favored : IsPending(q)}
    BY <1>1, <2>1 DEF IsPending
  <2>3. CullCounts'
    BY <1>1, <2>1, <2>2 DEF CullCounts
  <2> QED
    BY <1>1, <1>2, <2>1, <2>3 DEF CountersExact, PendingFavoredBounds, Queue
<1>6. CASE CullEnd
  <2> DEFINE Low == favored \ was_fuzzed
             P == {q \in favored : IsPending(q)}
             High == (favored \ was_fuzzed) \cup (favored \cap disabled)
  <2>1. UNCHANGED <<favored, queued_favored, pending_favored>> /\ pc' # "culling"
        /\ pc = "culling"
    BY <1>1, <1>6 DEF CullEnd
  <2>2. queued_favored = Cardinality(favored) /\ pending_favored = Cardinality(P)
    BY <1>1, <2>1 DEF CullCounts
  <2>3. Low \subseteq P /\ P \subseteq High
    <3>1. ASSUME NEW q \in P PROVE q \in High
      <4>1. CASE q \in was_fuzzed
        <5>1. fuzz_level[q] = 0
          BY <4>1 DEF IsPending
        <5>2. q \in disabled
          BY <1>1, <4>1, <5>1 DEF Fuzzed
        <5> QED
          BY <5>2
      <4> QED
        BY <4>1
    <3> QED
      BY <3>1 DEF IsPending
  <2>4. IsFiniteSet(Low) /\ IsFiniteSet(P) /\ IsFiniteSet(High)
    <3>1. IsFiniteSet(favored)
      BY Finite DEF IInv, ShapeOK
    <3> QED
      BY <3>1, FS_Subset
  <2>5. pending_favored \in Cardinality(Low) .. Cardinality(High)
    <3> HIDE DEF Low, P, High
    <3>1. /\ Cardinality(Low) \in Nat /\ Cardinality(P) \in Nat
          /\ Cardinality(High) \in Nat
      BY <2>4, FS_CardinalityType
    <3>2. Cardinality(Low) <= Cardinality(P) /\ Cardinality(P) <= Cardinality(High)
      BY <2>3, <2>4, FS_Subset
    <3> QED
      BY <2>2, <3>1, <3>2
  <2>6. PendingFavoredBounds' /\ CullCounts'
    BY <1>1, <2>1, <2>5 DEF PendingFavoredBounds, CullCounts
  <2> QED
    BY <1>1, <1>2, <2>1, <2>2, <2>6 DEF CountersExact, Queue
<1> QED
  BY <1>3, <1>4, <1>5, <1>6

LEMMA CountsKeep ==
  ASSUME IInv, [Next]_vars, ShapeOK'
  PROVE  CountersExact' /\ PendingFavoredBounds' /\ Fuzzed' /\ CullCounts'
<1> USE DEF entryVars, slotVars, cullVars, countVars, tableVars, schedVars
<1>1. ASSUME NEW k \in {1, CalChances}, DryRunBad(k)
      PROVE  CountersExact' /\ PendingFavoredBounds' /\ Fuzzed' /\ CullCounts'
  <2>1. {idx} \in SUBSET Queue /\ Early /\ Disable({idx}) /\ pc' # "culling"
        /\ UNCHANGED <<queued_paths, favored, queued_favored, pending_favored, fuzz_level>>
    BY <1>1 DEF DryRunBad, Early, Drying
  <2> QED
    BY <2>1, DisableCounts
<1>2. CASE Dedupe
  <2> DEFINE D == IF Usable(idx) THEN Duplicates(idx) ELSE {}
  <2>1. D \in SUBSET Queue
    BY <1>2 DEF Dedupe, Duplicates, LaterTwins
  <2>2. Early /\ Disable(D) /\ pc' # "culling"
        /\ UNCHANGED <<queued_paths, favored, queued_favored, pending_favored, fuzz_level>>
    BY <1>2 DEF Dedupe, Early
  <2> QED
    BY <2>1, <2>2, DisableCounts
<1>3. CASE UNCHANGED vars
  BY <1>3 DEF vars, IInv, CountersExact, PendingFavoredBounds, Fuzzed, CullCounts,
     Early, Drying, Queue, IsPending
<1>4. CASE /\ pc # "culling" /\ pc' # "culling"
           /\ UNCHANGED <<queued_paths, disabled, was_fuzzed, fuzz_level,
                          pending_not_fuzzed, active_paths, favored,
                          queued_favored, pending_favored>>
  BY <1>4, EarlyFrame DEF IInv, CountersExact, PendingFavoredBounds, Fuzzed,
     CullCounts, Queue
<1> QED
  BY <1>1, <1>2, <1>3, <1>4, CullFrame, CountFrame, Frames, CullStepCounts,
     FindCounts, AbandonCounts
-----------------------------------------------------------------------------
(***************************************************************************)
(* Slots and the traces of those who hold them.                            *)
(***************************************************************************)
LEMMA RefsKeep ==
  ASSUME IInv, [Next]_vars
  PROVE  Refs' /\ tc_ref' \in [Paths -> Nat]
<1>1. CASE ScoreWin
  BY <1>1, ScoreWinRefs DEF IInv
<1>2. CASE UNCHANGED <<tc_ref, trace_mini, top_rated>>
  <2>1. Refs /\ tc_ref \in [Paths -> Nat]
    BY DEF IInv, TypeOK
  <2>2. \A q \in Paths : Slots(q)' = Slots(q)
    BY <1>2 DEF Slots
  <2> QED
    BY <1>2, <2>1, <2>2 DEF Refs, RefCounts, WinnersHaveTrace
<1> QED
  BY <1>1, <1>2, Frames

(* The steps that change what is known of a trace, or score one. *)
LEMMA TraceFrame ==
  ASSUME IInv, [Next]_vars
  PROVE  \/ DryRunOk \/ Recalibrate \/ RecalibrateFails \/ TrimCase
         \/ Find \/ FindFailsCalibration
         \/ session.cycle_schedules
         \/ /\ UNCHANGED <<exec_cksum, hits>>
            /\ (pc' = "score") => (pc = "score" /\ UNCHANGED <<trace_bits, sq>>)
<1> USE Basics DEF Control, entryVars, slotVars, cullVars, countVars, tableVars,
        schedVars
<1>1. CASE Score
  BY <1>1 DEF Score, ScoreLose, ScoreReturn, ScoreWin
<1>2. CASE DryRun
  BY <1>2 DEF DryRun, DryRunBad, DryRunDone, Dedupe, DedupeDone, StartFuzzing
<1>3. CASE Cull
  BY <1>3 DEF Cull, CallCull, CullSkip, CullBegin, CullGrab, CullPass, CullEnd
<1>4. CASE Cycle
  BY <1>4 DEF Cycle, BeginCycle, Rescore, EndCycle
<1>5. CASE FuzzLoop
  BY <1>5 DEF FuzzLoop, SkipEntry, FuzzOne, NothingTrimmed, StagesDone, AbandonEntry
<1>6. CASE StopFuzzing \/ Stopped \/ UNCHANGED vars
  BY <1>6 DEF StopFuzzing, Stopped, vars
<1> QED
  BY <1>1, <1>2, <1>3, <1>4, <1>5, <1>6 DEF Next

(* calibrate_case scores the entry with a trace it has just hit. *)
LEMMA CalibrateTrace ==
  ASSUME IInv, NEW q \in Paths, NEW c \in Calibrations, NEW us \in session.times,
         NEW back, CalibrateOk(q, c, us, back),
         top_rated' = top_rated, session' = session
  PROVE  OwnTrace'
<1> SUFFICES ASSUME ~session.cycle_schedules
             PROVE  /\ \A p \in Paths : exec_cksum'[p] \subseteq hits'[p]
                    /\ \A p \in Paths : Slots(p)' \subseteq hits'[p]
                    /\ trace_bits' \subseteq hits'[sq']
  BY DEF OwnTrace
<1>1. /\ \A p \in Paths : exec_cksum[p] \subseteq hits[p]
      /\ \A p \in Paths : Slots(p) \subseteq hits[p]
  BY DEF IInv, OwnTrace
<1>2. \A p \in Paths : Slots(p)' = Slots(p)
  BY DEF Slots
<1>3. /\ exec_cksum' = [exec_cksum EXCEPT ![q] = c[1]]
      /\ hits' = [hits EXCEPT ![q] = @ \cup c[1] \cup c[2]]
      /\ trace_bits' = c[2] /\ sq' = q
      /\ exec_cksum \in [Paths -> Traces \cup {{}}] /\ hits \in [Paths -> SUBSET Edges]
  BY Basics DEF CalibrateOk, CallScore, ShapeOK
<1>4. /\ hits'[q] = hits[q] \cup c[1] \cup c[2] /\ exec_cksum'[q] = c[1]
      /\ \A p \in Paths \ {q} : hits'[p] = hits[p] /\ exec_cksum'[p] = exec_cksum[p]
  BY <1>3
<1> QED
  BY <1>1, <1>2, <1>3, <1>4

LEMMA OwnTraceKeeps ==
  ASSUME IInv, [Next]_vars PROVE OwnTrace'
<1> USE Basics DEF entryVars, slotVars, cullVars, countVars, tableVars, schedVars
<1>a. session' = session
  BY Frames
<1>b. CASE session.cycle_schedules
  BY <1>a, <1>b DEF OwnTrace
<1>c. ~session.cycle_schedules =>
        /\ \A q \in Paths : exec_cksum[q] \subseteq hits[q]
        /\ \A q \in Paths : Slots(q) \subseteq hits[q]
        /\ (pc = "score") => (trace_bits \subseteq hits[sq])
  BY DEF IInv, OwnTrace
<1>1. CASE DryRunOk
  <2>1. idx \in Paths /\ top_rated' = top_rated
    BY <1>1 DEF DryRunOk
  <2>2. PICK c \in Calibrations, us \in session.times : CalibrateOk(idx, c, us, "dry")
    BY <1>1 DEF DryRunOk
  <2> QED
    BY <1>a, <2>1, <2>2, CalibrateTrace
<1>2. CASE Recalibrate
  <2>1. queue_cur \in Paths /\ top_rated' = top_rated
    BY <1>2 DEF Recalibrate, Control, Fuzzing
  <2>2. PICK c \in Calibrations, us \in session.times, then \in {"trim", "abandon"} :
          CalibrateOk(queue_cur, c, us, then)
    BY <1>2 DEF Recalibrate
  <2> QED
    BY <1>a, <2>1, <2>2, CalibrateTrace
<1>3. CASE Find
  <2>1. PICK n \in Lens, c \in Calibrations, us \in session.times :
          AddToQueue(n) /\ CalibrateOk(queued_paths, c, us, pc)
    BY <1>3 DEF Find
  <2>2. queued_paths \in Paths /\ top_rated' = top_rated
    BY <1>3, <2>1, Grows DEF Find
  <2> QED
    BY <1>a, <2>1, <2>2, CalibrateTrace
<1>4. CASE RecalibrateFails /\ ~session.cycle_schedules
  <2>1. /\ hits' = hits /\ top_rated' = top_rated /\ pc' = "abandon"
        /\ queue_cur \in Paths
    BY <1>4 DEF RecalibrateFails, Control, Fuzzing
  <2>2. \A q \in Paths : exec_cksum'[q] \subseteq exec_cksum[q]
    <3>1. \/ exec_cksum' = exec_cksum
          \/ exec_cksum' = [exec_cksum EXCEPT ![queue_cur] = {}]
      BY <1>4 DEF RecalibrateFails
    <3> QED
      BY <2>1, <3>1 DEF ShapeOK
  <2>3. \A q \in Paths : Slots(q)' = Slots(q)
    BY <2>1 DEF Slots
  <2> QED
    BY <1>4, <1>c, <2>1, <2>2, <2>3 DEF OwnTrace
<1>5. CASE TrimCase /\ ~session.cycle_schedules
  <2>1. /\ hits' = hits /\ top_rated' = top_rated /\ exec_cksum' = exec_cksum
        /\ queue_cur \in Paths /\ sq' = queue_cur
        /\ trace_bits' = exec_cksum[queue_cur]
    BY <1>5 DEF TrimCase, CallScore, Control, Fuzzing
  <2>2. \A q \in Paths : Slots(q)' = Slots(q)
    BY <2>1 DEF Slots
  <2> QED
    BY <1>5, <1>c, <2>1, <2>2 DEF OwnTrace
<1>6. CASE FindFailsCalibration /\ ~session.cycle_schedules
  <2>1. PICK n \in Lens, t \in Traces :
          /\ AddToQueue(n)
          /\ exec_cksum' = [exec_cksum EXCEPT ![queued_paths] = t]
          /\ hits' = [hits EXCEPT ![queued_paths] = t]
    BY <1>6 DEF FindFailsCalibration
  <2>2. /\ queued_paths \in Paths /\ queued_paths \notin Queue
        /\ top_rated' = top_rated /\ pc' # "score"
    BY <1>6, <2>1, Grows DEF FindFailsCalibration, MayFind
  <2>3. Slots(queued_paths) = {}
    BY <2>2, QueueCullAssumption DEF Slots, ShapeOK
  <2>4. /\ exec_cksum'[queued_paths] = t /\ hits'[queued_paths] = t
        /\ \A q \in Paths \ {queued_paths} : /\ hits'[q] = hits[q]
                                             /\ exec_cksum'[q] = exec_cksum[q]
    BY <2>1, <2>2 DEF ShapeOK
  <2>5. \A q \in Paths : Slots(q)' = Slots(q)
    BY <2>2 DEF Slots
  <2>6. \A q \in Paths : exec_cksum'[q] \subseteq hits'[q] /\ Slots(q)' \subseteq hits'[q]
    BY <1>6, <1>c, <2>3, <2>4, <2>5
  <2> QED
    BY <2>2, <2>6 DEF OwnTrace
<1>7. CASE /\ ~session.cycle_schedules
           /\ UNCHANGED <<exec_cksum, hits>>
           /\ (pc' = "score") => (pc = "score" /\ UNCHANGED <<trace_bits, sq>>)
  <2>1. \A q \in Paths : Slots(q)' \subseteq hits'[q]
    <3>1. CASE ScoreWin
      <4>1. \A q \in Paths : Slots(q)' \subseteq Slots(q) \cup
                               (IF q = sq THEN {i} ELSE {})
        BY <3>1, SlotMoves DEF IInv
      <4>2. i \in hits[sq]
        BY <1>7, <1>c, <3>1 DEF ScoreWin, WinsByte
      <4> QED
        BY <1>7, <1>c, <4>1, <4>2
    <3>2. CASE UNCHANGED <<tc_ref, trace_mini, top_rated>>
      BY <1>7, <1>c, <3>2 DEF Slots
    <3> QED
      BY <3>1, <3>2, Frames
  <2> QED
    BY <1>7, <1>c, <2>1 DEF OwnTrace
<1> QED
  BY <1>b, <1>1, <1>2, <1>3, <1>4, <1>5, <1>6, <1>7, TraceFrame
-----------------------------------------------------------------------------
(***************************************************************************)
(* perform_dry_run: failed seeds and duplicates.                           *)
(***************************************************************************)
Removed == pc = "start" \/ (pc \in {"cull", "culling"} /\ ret = "start")

LEMMA PhaseFrame ==
  ASSUME IInv, [Next]_vars
  PROVE  /\ Drying' => \/ DryRunOk \/ \E k \in {1, CalChances} : DryRunBad(k)
                       \/ Drying /\ UNCHANGED <<cal_failed, disabled, idx>>
         /\ (pc' = "dedupe") =>
              \/ DryRunDone \/ Dedupe
              \/ /\ pc = "dedupe"
                 /\ UNCHANGED <<queued_paths, len, exec_cksum, cal_failed,
                                disabled, idx>>
         /\ Removed' =>
              \/ DedupeDone
              \/ /\ Removed
                 /\ UNCHANGED <<queued_paths, len, exec_cksum, cal_failed, disabled>>
<1> USE Basics DEF Control, Drying, Removed, entryVars, slotVars, cullVars,
        countVars, tableVars, schedVars
<1>1. CASE Score
  BY <1>1 DEF Score, ScoreLose, ScoreReturn, ScoreWin
<1>2. CASE DryRun
  BY <1>2 DEF DryRun, DryRunOk, CalibrateOk, CallScore, DryRunBad, DryRunDone,
     Dedupe, DedupeDone, StartFuzzing
<1>3. CASE Cull
  BY <1>3 DEF Cull, CallCull, CullSkip, CullBegin, CullGrab, CullPass, CullEnd
<1>4. CASE Cycle
  BY <1>4 DEF Cycle, BeginCycle, Rescore, CallScore, EndCycle
<1>5. CASE FuzzLoop
  BY <1>5 DEF FuzzLoop, SkipEntry, FuzzOne, Recalibrate, RecalibrateFails,
     CalibrateOk, CallScore, TrimCase, NothingTrimmed, StagesDone, Find,
     FindFailsCalibration, MayFind, AbandonEntry
<1>6. CASE StopFuzzing \/ Stopped \/ UNCHANGED vars
  BY <1>6 DEF StopFuzzing, Stopped, vars
<1> QED
  BY <1>1, <1>2, <1>3, <1>4, <1>5, <1>6 DEF Next

(* The pass over the twins of q leaves one of them that is not longer than *)
(* any it disables; if q is not disabled, then no twin of q is left.       *)
LEMMA Twins ==
  ASSUME IInv, NEW q \in Queue, Usable(q)
  PROVE  /\ Duplicates(q) \subseteq Enabled
         /\ \E k \in Enabled \ Duplicates(q) :
              /\ exec_cksum[k] = exec_cksum[q]
              /\ \A d \in Duplicates(q) : /\ exec_cksum[d] = exec_cksum[q]
                                          /\ len[k] <= len[d]
         /\ q \in Duplicates(q) \/ Duplicates(q) = LaterTwins(q)
<1> DEFINE T == LaterTwins(q)
           short == {p \in T : len[p] < len[q]}
<1>1. /\ T \subseteq Enabled /\ q \in Enabled /\ q \notin T /\ Enabled \subseteq Nat
      /\ \A p \in T : exec_cksum[p] = exec_cksum[q]
      /\ \A p \in Enabled : len[p] \in Nat
  <2>1. T \subseteq Enabled /\ q \in Enabled
        /\ \A p \in T : exec_cksum[p] = exec_cksum[q]
    BY DEF LaterTwins, Usable, Enabled
  <2>2. Enabled \subseteq Nat /\ \A p \in Enabled : len[p] \in Nat
    <3>1. Queue \subseteq Nat /\ Enabled \subseteq Queue
      BY DEF Queue, Enabled
    <3>2. \A p \in Paths : len[p] \in Nat
      BY Basics DEF ShapeOK
    <3> QED
      BY <3>1, <3>2, Basics
  <2>3. q \notin T
    BY <2>1, <2>2 DEF LaterTwins
  <2> QED
    BY <2>1, <2>2, <2>3
<1>2. Duplicates(q) = {p \in T : \A s \in short : p < s}
                        \cup (IF short = {} THEN {} ELSE {q})
  BY DEF Duplicates
<1>3. CASE short = {}
  <2>1. Duplicates(q) = T
    BY <1>2, <1>3
  <2>2. ASSUME NEW d \in T PROVE len[q] <= len[d]
    <3>1. ~(len[d] < len[q])
      BY <1>3
    <3>2. len[d] \in Nat /\ len[q] \in Nat
      BY <1>1
    <3> QED
      BY <3>1, <3>2
  <2> QED
    BY <1>1, <2>1, <2>2
<1>4. CASE short # {}
  <2>1. short \in SUBSET Nat
    BY <1>1
  <2>2. PICK s \in short : \A y \in short : s <= y
    BY <1>4, <2>1, Least
  <2>3. Duplicates(q) = {p \in T : \A y \in short : p < y} \cup {q}
    BY <1>2, <1>4
  <2>4. s \in T /\ s \in Enabled /\ len[s] < len[q] /\ s \in Nat /\ s # q
    BY <1>1
  <2>5. s \notin Duplicates(q)
    BY <2>2, <2>3, <2>4
  <2>6. ASSUME NEW d \in Duplicates(q)
        PROVE  exec_cksum[d] = exec_cksum[q] /\ len[s] <= len[d] /\ d \in Enabled
    <3>1. CASE d = q
      BY <1>1, <2>4, <3>1
    <3>2. CASE d # q
      <4>1. d \in T /\ d < s /\ d \in Enabled /\ d \in Nat
        BY <1>1, <2>2, <2>3, <3>2
      <4>2. d \notin short
        BY <2>2, <2>4, <4>1
      <4>3. ~(len[d] < len[q])
        BY <4>1, <4>2
      <4> QED
        BY <1>1, <2>4, <4>1, <4>3
    <3> QED
      BY <3>1, <3>2
  <2> QED
    BY <1>1, <2>3, <2>4, <2>5, <2>6
<1> QED
  BY <1>3, <1>4

LEMMA DedupeSeeds ==
  ASSUME IInv, Dedupe PROVE Seeds(idx)'
<1> DEFINE D == IF Usable(idx) THEN Duplicates(idx) ELSE {}
<1>1. /\ idx \in Queue /\ idx' = idx + 1 /\ Seeds(idx) /\ Queue \subseteq Nat
      /\ UNCHANGED <<queued_paths, len, exec_cksum, cal_failed>>
      /\ disabled' = disabled \cup D
  BY DEF Dedupe, IInv, Deduplication, Disable, entryVars, Queue
<1>2. Enabled' = Enabled \ D /\ Enabled \subseteq Queue
  BY <1>1 DEF Enabled, Queue
<1>3. \A p \in Enabled : len[p] \in Nat
  BY <1>2, Basics DEF ShapeOK
<1>3b. \A p \in disabled : len[p] \in Nat
  BY <1>2, Basics DEF ShapeOK
<1>4. D \subseteq Enabled
  BY <1>1, Twins
<1>5. ASSUME NEW r \in Enabled
      PROVE  \E k \in Enabled \ D : exec_cksum[k] = exec_cksum[r] /\ len[k] <= len[r]
  <2>1. CASE r \notin D
    BY <1>3, <2>1
  <2>2. CASE r \in D
    BY <1>1, <2>2, Twins
  <2> QED
    BY <2>1, <2>2
<1>6. \A q \in Enabled' : cal_failed'[q] = 0
  BY <1>1, <1>2 DEF Seeds
<1>7. ASSUME NEW p \in Enabled', NEW q \in Enabled', p < idx',
             exec_cksum'[p] = exec_cksum'[q]
      PROVE  p = q
  <2>1. /\ p \in Enabled /\ q \in Enabled /\ p \in Nat /\ q \in Nat /\ idx \in Nat
        /\ p < idx + 1 /\ exec_cksum[p] = exec_cksum[q]
        /\ cal_failed[p] = 0 /\ cal_failed[q] = 0
    BY <1>1, <1>2, <1>7 DEF Seeds
  <2>2. CASE p < idx
    BY <1>1, <2>1, <2>2 DEF Seeds
  <2>3. CASE p = idx
    <3>1. Usable(idx) /\ idx \notin D
      BY <1>2, <2>1, <2>3 DEF Usable, Enabled
    <3>2. D = LaterTwins(idx)
      BY <1>1, <3>1, Twins
    <3>3. ~(q > idx)
      <4>1. q \notin LaterTwins(idx) /\ q \in Queue /\ q \notin disabled
        BY <1>2, <3>2 DEF Enabled
      <4> QED
        BY <2>1, <2>3, <4>1 DEF LaterTwins, Usable
    <3>4. q < idx => q = p
      BY <1>1, <2>1 DEF Seeds
    <3> QED
      BY <2>1, <2>3, <3>3, <3>4
  <2> QED
    BY <2>1, <2>2, <2>3
<1>8. ASSUME NEW p \in disabled', cal_failed'[p] = 0 PROVE Represented(p)'
  <2>1. \E r \in Enabled : exec_cksum[r] = exec_cksum[p] /\ len[r] <= len[p]
    <3>1. CASE p \in D
      BY <1>3, <1>4, <3>1
    <3>2. CASE p \in disabled
      BY <1>1, <1>8, <3>2 DEF Seeds, Represented
    <3> QED
      BY <1>1, <3>1, <3>2
  <2>2. PICK r \in Enabled : exec_cksum[r] = exec_cksum[p] /\ len[r] <= len[p]
    BY <2>1
  <2>3. PICK k \in Enabled \ D : exec_cksum[k] = exec_cksum[r] /\ len[k] <= len[r]
    BY <1>5
  <2>4. len[k] \in Nat /\ len[r] \in Nat /\ len[p] \in Nat
    BY <1>1, <1>3, <1>3b, <1>4
  <2>5. len[k] <= len[p]
    BY <2>2, <2>3, <2>4
  <2> QED
    BY <1>1, <1>2, <2>2, <2>3, <2>5 DEF Represented
<1> QED
  BY <1>6, <1>7, <1>8 DEF Seeds

LEMMA DeduplicationKeeps ==
  ASSUME IInv, [Next]_vars PROVE Deduplication'
<1> USE Basics DEF entryVars, slotVars, cullVars, countVars, tableVars, schedVars
<1>1. Deduplication
  BY DEF IInv
<1>2. ASSUME Drying'
      PROVE  /\ \A q \in Paths : q \in disabled' <=> cal_failed'[q] # 0
             /\ disabled' \subseteq 0 .. idx' - 1
  <2>1. CASE DryRunOk
    <3>1. /\ cal_failed' = [cal_failed EXCEPT ![idx] = 0] /\ disabled' = disabled
          /\ idx' = idx + 1 /\ idx \in Nat /\ idx \in Paths /\ Drying
      BY <2>1 DEF DryRunOk, CalibrateOk, Drying, ShapeOK
    <3>2. /\ \A q \in Paths : q \in disabled <=> cal_failed[q] # 0
          /\ disabled \subseteq 0 .. idx - 1
      BY <1>1, <3>1 DEF Deduplication
    <3>3. idx \notin disabled
      BY <3>1, <3>2
    <3>4. disabled' \subseteq 0 .. idx' - 1
      BY <3>1, <3>2
    <3> QED
      BY <3>1, <3>2, <3>3, <3>4 DEF ShapeOK
  <2>2. ASSUME NEW k \in {1, CalChances}, DryRunBad(k)
        PROVE  /\ \A q \in Paths : q \in disabled' <=> cal_failed'[q] # 0
               /\ disabled' \subseteq 0 .. idx' - 1
    <3>1. /\ cal_failed' = [cal_failed EXCEPT ![idx] = k]
          /\ disabled' = disabled \cup {idx} /\ k # 0
          /\ idx' = idx + 1 /\ idx \in Nat /\ idx \in Paths /\ Drying
      BY <2>2 DEF DryRunBad, Disable, Drying, ShapeOK
    <3>2. /\ \A q \in Paths : q \in disabled <=> cal_failed[q] # 0
          /\ disabled \subseteq 0 .. idx - 1
      BY <1>1, <3>1 DEF Deduplication
    <3>3. disabled' \subseteq 0 .. idx' - 1
      BY <3>1, <3>2
    <3> QED
      BY <3>1, <3>2, <3>3 DEF ShapeOK
  <2>3. CASE Drying /\ UNCHANGED <<cal_failed, disabled, idx>>
    BY <1>1, <2>3 DEF Deduplication
  <2> QED
    BY <1>2, <2>1, <2>2, <2>3, PhaseFrame
<1>3. ASSUME pc' = "dedupe" PROVE Seeds(idx)'
  <2>1. CASE DryRunDone
    <3>1. /\ \A q \in Paths : q \in disabled <=> cal_failed[q] # 0
          /\ idx' = 0 /\ UNCHANGED <<queued_paths, disabled, cal_failed>>
      BY <1>1, <2>1 DEF DryRunDone, Deduplication, Drying
    <3>2. Enabled' \subseteq Paths \ disabled /\ disabled' \subseteq Paths
          /\ \A q \in Enabled' : ~(q < 0)
      BY <3>1 DEF Enabled, Queue, ShapeOK
    <3> QED
      BY <3>1, <3>2 DEF Seeds
  <2>2. CASE /\ pc = "dedupe"
             /\ UNCHANGED <<queued_paths, len, exec_cksum, cal_failed, disabled, idx>>
    BY <1>1, <2>2 DEF Deduplication, Seeds, Represented, Enabled, Queue
  <2> QED
    BY <1>3, <2>1, <2>2, DedupeSeeds, PhaseFrame
<1>4. ASSUME Removed' PROVE Seeds(queued_paths)'
  <2>1. CASE DedupeDone
    <3>1. /\ Seeds(idx) /\ idx = queued_paths
          /\ UNCHANGED <<queued_paths, len, exec_cksum, cal_failed, disabled>>
      BY <1>1, <2>1 DEF DedupeDone, Deduplication
    <3> QED
      BY <3>1 DEF Seeds, Represented, Enabled, Queue
  <2>2. CASE /\ Removed
             /\ UNCHANGED <<queued_paths, len, exec_cksum, cal_failed, disabled>>
    BY <1>1, <2>2 DEF Deduplication, Removed, Seeds, Represented, Enabled, Queue
  <2> QED
    BY <1>4, <2>1, <2>2, PhaseFrame
<1> QED
  BY <1>2, <1>3, <1>4 DEF Deduplication, Removed
-----------------------------------------------------------------------------
(***************************************************************************)
(* The invariant holds.                                                    *)
(***************************************************************************)
LEMMA InitIInv == ASSUME Init PROVE IInv
<1>1. /\ queued_paths \in 1 .. MaxPaths /\ session \in Sessions
      /\ NoEntry \notin Paths /\ NEdges \in Nat /\ Queue \subseteq Paths
      /\ MaxPaths \in Nat /\ session.level \in Nat
  <2>1. session \in Sessions /\ queued_paths \in 1 .. session.seeds
    BY DEF Init
  <2>2. /\ session.paths \in 1 .. MaxPaths /\ session.seeds \in 1 .. session.paths
        /\ MaxPaths \in Nat /\ NoEntry \notin Paths /\ NEdges \in Nat
        /\ session.level \in Nat
    BY <2>1, QueueCullAssumption
  <2>3. queued_paths \in 1 .. MaxPaths
    BY <2>1, <2>2
  <2> QED
    BY <2>1, <2>2, <2>3 DEF Queue, Paths
<1>2. /\ pc = "dry" /\ ret = "dry" /\ disabled = {} /\ was_fuzzed = {}
      /\ favored = {} /\ queued_favored = 0 /\ pending_favored = 0
      /\ cal_failed = [q \in Paths |-> 0] /\ exec_cksum = [q \in Paths |-> {}]
      /\ tc_ref = [q \in Paths |-> 0] /\ trace_mini = [q \in Paths |-> {}]
      /\ top_rated = [e \in Edges |-> NoEntry] /\ idx = 0
      /\ pending_not_fuzzed = queued_paths /\ active_paths = queued_paths
  BY DEF Init
<1>3. \A q \in Paths : Slots(q) = {}
  BY <1>1, <1>2 DEF Slots
<1>4. ShapeOK
  <2>1. CalChances \in Nat
    BY QueueCullAssumption
  <2>2. /\ len \in [Paths -> Lens \cup {0}]
        /\ exec_us \in [Paths -> session.times \cup {0}]
        /\ exec_cksum \in [Paths -> Traces \cup {{}}]
        /\ cal_failed \in [Paths -> 0 .. CalChances]
        /\ fuzz_level \in [Paths -> 0 .. session.level]
        /\ trace_mini \in [Paths -> Traces \cup {{}}]
        /\ top_rated \in [Edges -> Queue \cup {NoEntry}]
        /\ hits \in [Paths -> SUBSET Edges]
    BY <1>1, <2>1 DEF Init
  <2>3. score_changed = FALSE /\ reinit_table = TRUE
    BY DEF Init
  <2>4. score_changed \in BOOLEAN /\ reinit_table \in BOOLEAN
    BY <2>3
  <2>5. /\ was_fuzzed \in SUBSET Queue /\ disabled \in SUBSET Queue
        /\ trim_done \in SUBSET Queue /\ fs_redundant \in SUBSET Queue
        /\ favored \in SUBSET Queue /\ table \in SUBSET Queue
        /\ temp_v \in SUBSET Edges /\ trace_bits \in Traces \cup {{}}
    BY DEF Init
  <2>6. /\ idx \in 0 .. queued_paths /\ i \in 0 .. NEdges
        /\ sq = NoEntry /\ queue_cur = NoEntry /\ schedule = "explore"
    BY <1>1 DEF Init
  <2> QED
    BY <1>1, <1>2, <2>2, <2>4, <2>5, <2>6 DEF ShapeOK
<1>5. Refs
  BY <1>2, <1>3, FS_EmptySet DEF Refs, RefCounts, WinnersHaveTrace
<1>6. Cardinality(Queue \ {}) = queued_paths /\ Cardinality({}) = 0
  <2>1. Cardinality(0 .. queued_paths - 1) =
          IF 0 > queued_paths - 1 THEN 0 ELSE (queued_paths - 1) - 0 + 1
    <3>1. 0 \in Int /\ queued_paths - 1 \in Int
      BY <1>1
    <3> QED
      BY <3>1, FS_Interval
  <2>2. Queue \ {} = 0 .. queued_paths - 1
    BY DEF Queue
  <2> QED
    BY <1>1, <2>1, <2>2, FS_EmptySet
<1>7. TypeOK
  BY <1>1, <1>2, <1>4 DEF TypeOK
<1>8. Control /\ FavoredCover /\ CullCover /\ CullCounts
  BY <1>2 DEF Control, Fuzzing, FavoredCover, CullCover, CullCounts
<1>9. CountersExact /\ PendingFavoredBounds /\ Fuzzed
  <2>1. CountersExact
    BY <1>2, <1>6 DEF CountersExact
  <2>2. favored \ was_fuzzed = {}
        /\ (favored \ was_fuzzed) \cup (favored \cap disabled) = {}
    BY <1>2
  <2>3. PendingFavoredBounds
    BY <1>2, <1>6, <2>2 DEF PendingFavoredBounds
  <2> QED
    BY <1>2, <2>1, <2>3 DEF Fuzzed
<1>10. OwnTrace /\ Deduplication
  BY <1>2, <1>3 DEF OwnTrace, Deduplication, Drying
<1> QED
  BY <1>5, <1>7, <1>8, <1>9, <1>10 DEF IInv

LEMMA NextIInv == ASSUME IInv, [Next]_vars PROVE IInv'
<1>1. ShapeOK' /\ Control'
  BY ShapeKeeps
<1>2. CountersExact' /\ PendingFavoredBounds' /\ Fuzzed' /\ CullCounts'
  BY <1>1, CountsKeep
<1>3. Refs' /\ tc_ref' \in [Paths -> Nat]
  BY RefsKeep
<1>4. {queued_favored, pending_favored, pending_not_fuzzed, active_paths}'
        \subseteq Nat
  <2>1. \A S \in SUBSET Queue' : Cardinality(S) \in Nat
    <3>1. queued_paths' - 1 \in Int
      BY <1>1 DEF ShapeOK
    <3>2. IsFiniteSet(Queue')
      BY <3>1, FS_Interval DEF Queue
    <3> QED
      BY <3>2, FS_Subset, FS_CardinalityType
  <2>2. favored' \subseteq Queue'
    BY <1>1 DEF ShapeOK
  <2> DEFINE A == Queue' \ was_fuzzed'
             B == Queue' \ disabled'
             C == {q \in favored' : IsPending(q)'}
             L == favored' \ was_fuzzed'
             H == (favored' \ was_fuzzed') \cup (favored' \cap disabled')
  <2>3. /\ A \in SUBSET Queue' /\ B \in SUBSET Queue' /\ C \in SUBSET Queue'
        /\ L \in SUBSET Queue' /\ H \in SUBSET Queue'
    BY <2>2
  <2>4. pending_not_fuzzed' = Cardinality(A) /\ active_paths' = Cardinality(B)
    BY <1>2 DEF CountersExact
  <2>5. queued_favored' = Cardinality(favored')
    BY <1>2 DEF CountersExact, CullCounts
  <2>6. \/ pending_favored' = Cardinality(C)
        \/ pending_favored' \in Cardinality(L) .. Cardinality(H)
    BY <1>2 DEF PendingFavoredBounds, CullCounts
  <2> HIDE DEF A, B, C, L, H
  <2>7. pending_favored' \in Nat
    BY <2>1, <2>3, <2>6
  <2> QED
    BY <2>1, <2>2, <2>3, <2>4, <2>5, <2>7
<1>5. TypeOK'
  BY <1>1, <1>3, <1>4 DEF TypeOK
<1> QED
  BY <1>1, <1>2, <1>3, <1>5, CoverKeeps, OwnTraceKeeps, DeduplicationKeeps DEF IInv

LEMMA Invariant == Spec => []IInv
BY InitIInv, NextIInv, PTL DEF Spec

(* Every variable of the queue keeps its type: in particular no reference  *)
(* count, and none of the counters queued_favored, pending_favored,        *)
(* pending_not_fuzzed and active_paths, is ever decremented below zero,    *)
(* where the u32 of the code would wrap around.                            *)
THEOREM TypeCorrect == Spec => []TypeOK
<1>1. IInv => TypeOK
  BY DEF IInv
<1> QED
  BY Invariant, <1>1, PTL

(* tc_ref of an entry is the number of slots of top_rated[] it holds,      *)
(* after any sequence of scores, rescores under -Z included.               *)
THEOREM RefCountsExact == Spec => []RefCounts
<1>1. IInv => RefCounts
  BY DEF IInv, Refs
<1> QED
  BY Invariant, <1>1, PTL

(* The entries with a slot are the entries with a trace_mini: cull_queue() *)
(* never reads a freed or missing one, and none is kept beyond its use.    *)
THEOREM TracesOfWinners == Spec => []WinnersHaveTrace
<1>1. IInv => WinnersHaveTrace
  BY DEF IInv, Refs
<1> QED
  BY Invariant, <1>1, PTL

(* Between two changes of the scores the favored entries cover every byte  *)
(* of the map that has a winner: the greedy pass of cull_queue() is        *)
(* complete whatever the traces are.                                       *)
THEOREM FavoredCovers == Spec => []FavoredCover
<1>1. IInv => FavoredCover
  BY DEF IInv
<1> QED
  BY Invariant, <1>1, PTL

(* pending_not_fuzzed, active_paths and queued_favored agree with the      *)
(* flags they count, through the dry run, culling, finds and               *)
(* abandon_entry.                                                          *)
THEOREM CountersAgree == Spec => []CountersExact
<1>1. IInv => CountersExact
  BY DEF IInv
<1> QED
  BY Invariant, <1>1, PTL

(* pending_favored, which fuzz_one() uses to skip entries, is never below  *)
(* the number of favored entries that wait, nor above that number and the  *)
(* disabled favored ones.                                                  *)
THEOREM PendingFavoredBounded == Spec => []PendingFavoredBounds
<1>1. IInv => PendingFavoredBounds
  BY DEF IInv
<1> QED
  BY Invariant, <1>1, PTL

(* Without -Z the winner of a map byte has hit that byte in some run.      *)
THEOREM WinnersHit == Spec => []WinnersHitTheirByte
<1>1. IInv => WinnersHitTheirByte
  BY DEF IInv, OwnTrace, WinnersHitTheirByte
<1> QED
  BY Invariant, <1>1, PTL

(* When main() goes on after the dry run, no two enabled seeds have the    *)
(* same trace, and each that was disabled as a duplicate has an enabled    *)
(* twin that is not longer.                                                *)
THEOREM DuplicatesRemoved == Spec => []SeedsDeduplicated
<1>1. ASSUME IInv PROVE SeedsDeduplicated
  <2> SUFFICES ASSUME pc = "start"
               PROVE  /\ \A p, q \in Enabled : exec_cksum[p] = exec_cksum[q] => p = q
                      /\ \A p \in disabled : cal_failed[p] = 0 => Represented(p)
    BY DEF SeedsDeduplicated, Represented
  <2>1. Seeds(queued_paths)
    BY <1>1 DEF IInv, Deduplication
  <2>2. \A p \in Enabled : p < queued_paths
    BY <1>1, Basics DEF Enabled, Queue, ShapeOK
  <2> QED
    BY <2>1, <2>2 DEF Seeds
<1> QED
  BY Invariant, <1>1, PTL
==============================================================================
