------------------------------ MODULE QueueCull ------------------------------
(***************************************************************************)
(* The queue of afl-fuzz and its favoured subset.                          *)
(*                                                                         *)
(* Every test case that reaches a byte of the coverage map competes for    *)
(* that byte's slot of top_rated[] (update_bitmap_score); cull_queue()     *)
(* then marks as favored enough winners to cover every slot that has one,  *)
(* and fuzz_one() passes over the others while favored ones are pending.   *)
(* The module follows the queue from the dry run of the seeds, through the *)
(* removal of seeds with the same trace, to the main loop: selection by    *)
(* the alias table, recalibration, trimming, finds and the accounting at   *)
(* abandon_entry.  The two loops over the map take one step per byte, as   *)
(* reference counts and freed buffers depend on their order.               *)
(***************************************************************************)
EXTENDS Naturals, FiniteSets

CONSTANTS
  MaxPaths,       \* bound on queued_paths
  NEdges,         \* fsrv.map_size
  Traces,         \* sets of map bytes that a run may hit
  Lens,           \* lengths of test cases
  CalChances,     \* CAL_CHANCES
  MinToSkip,      \* queue size above which non-favored entries are skipped
  Sessions,       \* how afl-fuzz is started, and bounds; see Init
  NoEntry         \* NULL

Edges == 0 .. NEdges - 1
Paths == 0 .. MaxPaths - 1

ASSUME QueueCullAssumption ==
  /\ MaxPaths \in Nat \ {0}
  /\ NEdges \in Nat
  /\ Traces \subseteq SUBSET Edges
  /\ {} \notin Traces
  /\ Lens \subseteq Nat \ {0}
  /\ CalChances \in Nat \ {0}
  /\ MinToSkip \in Nat
  /\ \A s \in Sessions :
       /\ {s.cycle_schedules, s.unstable} \subseteq BOOLEAN
       /\ s.paths \in 1 .. MaxPaths /\ s.seeds \in 1 .. s.paths
       /\ s.times \subseteq Nat \ {0} /\ s.level \in Nat
  /\ NoEntry \notin Paths

VARIABLES
  pc,            \* where afl-fuzz is
  ret,           \* where the running update_bitmap_score or cull_queue returns
  queued_paths,
  len, exec_us, exec_cksum, cal_failed, fuzz_level,  \* of each queue entry
  disabled, was_fuzzed, trim_done, fs_redundant,     \* entries with this flag
  favored,
  tc_ref, trace_mini,      \* slots held by an entry; its trace, {} for NULL
  top_rated,               \* winner of each map byte
  score_changed,
  queued_favored, pending_favored, pending_not_fuzzed, active_paths,
  session,       \* how afl-fuzz was started
  schedule,
  idx,           \* loop variable of perform_dry_run and of the -Z rescoring
  sq,            \* the entry being scored
  i,             \* loop variable over the map
  trace_bits,    \* fsrv.trace_bits: the trace being scored, or of the last run
  temp_v,        \* bytes cull_queue has not covered yet
  table,         \* entries the alias table can yield
  reinit_table,  \* TRUE if the alias table is to be built anew
  queue_cur,
  hits           \* history: bytes each entry has hit when run

entryVars == <<len, exec_us, exec_cksum, cal_failed>>
slotVars == <<tc_ref, trace_mini, top_rated, score_changed>>
cullVars == <<favored, fs_redundant, queued_favored, temp_v>>
countVars == <<pending_not_fuzzed, active_paths>>
tableVars == <<table, reinit_table>>
schedVars == <<session, schedule>>
vars == <<pc, ret, queued_paths, entryVars, fuzz_level, disabled, was_fuzzed,
          trim_done, slotVars, cullVars, pending_favored, countVars, schedVars,
          idx, sq, i, trace_bits, tableVars, queue_cur, hits>>

Queue == 0 .. queued_paths - 1

(* Seeds as read_testcases() leaves them.  A session has -Z or not         *)
(* (cycle_schedules) and a target whose runs of one input may differ or    *)
(* not (unstable); the other fields bound the seeds, the paths, the        *)
(* fuzz_level and the values of exec_us.                                   *)
Init ==
  /\ session \in Sessions
  /\ pc = "dry"
  /\ ret = "dry"
  /\ queued_paths \in 1 .. session.seeds
  /\ len \in {f \in [Paths -> Lens \cup {0}] :
                \A q \in Paths : f[q] = 0 <=> q \notin Queue}
  /\ exec_us = [q \in Paths |-> 0]
  /\ exec_cksum = [q \in Paths |-> {}]
  /\ cal_failed = [q \in Paths |-> 0]
  /\ fuzz_level = [q \in Paths |-> 0]
  /\ disabled = {}
  /\ was_fuzzed = {}
  /\ trim_done = {}
  /\ fs_redundant = {}
  /\ favored = {}
  /\ tc_ref = [q \in Paths |-> 0]
  /\ trace_mini = [q \in Paths |-> {}]
  /\ top_rated = [e \in Edges |-> NoEntry]
  /\ score_changed = FALSE
  /\ queued_favored = 0
  /\ pending_favored = 0
  /\ pending_not_fuzzed = queued_paths
  /\ active_paths = queued_paths
  /\ schedule = "explore"
  /\ idx = 0
  /\ sq = NoEntry
  /\ i = 0
  /\ trace_bits = {}
  /\ temp_v = {}
  /\ table = {}
  /\ reinit_table = TRUE
  /\ queue_cur = NoEntry
  /\ hits = [q \in Paths |-> {}]
-----------------------------------------------------------------------------
(***************************************************************************)
(* update_bitmap_score(q), with trace t in trace_bits.                     *)
(***************************************************************************)
CallScore(q, t, back) ==
  /\ pc' = "score"
  /\ ret' = back
  /\ sq' = q
  /\ i' = 0
  /\ trace_bits' = t

FavFactor(q) ==
  IF schedule = "seek" THEN 4 * len[q] ELSE exec_us[q] * len[q]

(* The contender takes the slot from w on a tie too. *)
Beats(q, w) ==
  /\ fuzz_level[q] <= fuzz_level[w]
  /\ FavFactor(q) <= FavFactor(w)

WinsByte ==
  /\ i \in trace_bits
  /\ top_rated[i] # NoEntry => Beats(sq, top_rated[i])

(* --top_rated[i]->tc_ref *)
Keep(w) == tc_ref

Unref(w) == IF w = NoEntry THEN tc_ref ELSE [tc_ref EXCEPT ![w] = @ - 1]

(* The loser's trace is freed with its last slot. *)
NeverFree(w) == trace_mini

FreeIfUnused(w) ==
  IF w # NoEntry /\ Unref(w)[w] = 0
  THEN [trace_mini EXCEPT ![w] = {}]
  ELSE trace_mini

ScoreWin ==
  LET w == top_rated[i]
      mini == FreeIfUnused(w)
  IN
  /\ pc = "score" /\ i \in Edges
  /\ WinsByte
  /\ top_rated' = [top_rated EXCEPT ![i] = sq]
  /\ tc_ref' = [Unref(w) EXCEPT ![sq] = @ + 1]
  /\ trace_mini' = IF mini[sq] = {} THEN [mini EXCEPT ![sq] = trace_bits]
                                    ELSE mini
  /\ score_changed' = TRUE
  /\ i' = i + 1
  /\ UNCHANGED <<pc, ret, queued_paths, entryVars, fuzz_level, disabled,
                 was_fuzzed, trim_done, cullVars, pending_favored, countVars,
                 schedVars, idx, sq, trace_bits, tableVars, queue_cur, hits>>

ScoreLose ==
  /\ pc = "score" /\ i \in Edges
  /\ ~WinsByte
  /\ i' = i + 1
  /\ UNCHANGED <<pc, ret, queued_paths, entryVars, fuzz_level, disabled,
                 was_fuzzed, trim_done, slotVars, cullVars, pending_favored,
                 countVars, schedVars, idx, sq, trace_bits, tableVars,
                 queue_cur, hits>>

(* What the last run leaves in trace_bits is only read again under -Z. *)
Left(t) == IF session.cycle_schedules THEN t ELSE {}

ScoreReturn ==
  /\ pc = "score" /\ i = NEdges
  /\ pc' = ret
  /\ sq' = NoEntry
  /\ i' = 0
  /\ trace_bits' = Left(trace_bits)
  /\ UNCHANGED <<ret, queued_paths, entryVars, fuzz_level, disabled,
                 was_fuzzed, trim_done, slotVars, cullVars, pending_favored,
                 countVars, schedVars, idx, tableVars, queue_cur, hits>>
-----------------------------------------------------------------------------
(***************************************************************************)
(* calibrate_case(): a success leaves the checksum of its first run, the   *)
(* trace of its last, and a score; a failure leaves cal_failed one higher. *)
(***************************************************************************)
Calibrations == {c \in Traces \X Traces : session.unstable \/ c[1] = c[2]}

CalibrateOk(q, c, us, back) ==
  /\ exec_us' = [exec_us EXCEPT ![q] = us]
  /\ exec_cksum' = [exec_cksum EXCEPT ![q] = c[1]]
  /\ cal_failed' = [cal_failed EXCEPT ![q] = 0]
  /\ hits' = [hits EXCEPT ![q] = @ \cup c[1] \cup c[2]]
  /\ CallScore(q, c[2], back)

(* Seeds that perform_dry_run() takes out of the queue. *)
DisableStaysActive(qs) ==
  /\ disabled' = disabled \cup qs
  /\ was_fuzzed' = was_fuzzed \cup qs
  /\ pending_not_fuzzed' = pending_not_fuzzed - Cardinality(qs \ was_fuzzed)
  /\ UNCHANGED active_paths

Disable(qs) ==
  /\ disabled' = disabled \cup qs
  /\ was_fuzzed' = was_fuzzed \cup qs
  /\ pending_not_fuzzed' = pending_not_fuzzed - Cardinality(qs \ was_fuzzed)
  /\ active_paths' = active_paths - Cardinality(qs \ was_fuzzed)

DryRunOk ==
  /\ pc = "dry" /\ idx \in Queue
  /\ \E c \in Calibrations, us \in session.times : CalibrateOk(idx, c, us, "dry")
  /\ idx' = idx + 1
  /\ UNCHANGED <<queued_paths, len, fuzz_level, disabled, was_fuzzed,
                 trim_done, slotVars, cullVars, pending_favored, countVars,
                 schedVars, tableVars, queue_cur>>

(* A crash leaves cal_failed at 1, a timeout (with -t) sets it to the      *)
(* maximum; neither reaches update_bitmap_score.                           *)
DryRunBad(chances) ==
  /\ pc = "dry" /\ idx \in Queue
  /\ cal_failed' = [cal_failed EXCEPT ![idx] = chances]
  /\ Disable({idx})
  /\ \E t \in Traces : trace_bits' = Left(t)
  /\ idx' = idx + 1
  /\ UNCHANGED <<pc, ret, queued_paths, len, exec_us, exec_cksum, fuzz_level,
                 trim_done, slotVars, cullVars, pending_favored, schedVars, sq,
                 i, tableVars, queue_cur, hits>>

DryRunDone ==
  /\ pc = "dry" /\ idx = queued_paths
  /\ pc' = "dedupe"
  /\ idx' = 0
  /\ UNCHANGED <<ret, queued_paths, entryVars, fuzz_level, disabled,
                 was_fuzzed, trim_done, slotVars, cullVars, pending_favored,
                 countVars, schedVars, sq, i, trace_bits, tableVars, queue_cur,
                 hits>>

(* The pass over the seeds after q that have q's trace: those before the   *)
(* first shorter one are disabled, and that one disables q.                *)
Usable(q) == q \notin disabled /\ cal_failed[q] = 0

LaterTwins(q) ==
  {p \in Queue : p > q /\ Usable(p) /\ exec_cksum[p] = exec_cksum[q]}

DuplicatesKeepBoth(q) == {p \in LaterTwins(q) : len[p] > len[q]}

Duplicates(q) ==
  LET shorter == {p \in LaterTwins(q) : len[p] < len[q]} IN
  {p \in LaterTwins(q) : \A s \in shorter : p < s}
    \cup (IF shorter = {} THEN {} ELSE {q})

Dedupe ==
  /\ pc = "dedupe" /\ idx \in Queue
  /\ Disable(IF Usable(idx) THEN Duplicates(idx) ELSE {})
  /\ idx' = idx + 1
  /\ UNCHANGED <<pc, ret, queued_paths, entryVars, fuzz_level, trim_done,
                 slotVars, cullVars, pending_favored, schedVars, sq, i,
                 trace_bits, tableVars, queue_cur, hits>>

DedupeDone ==
  /\ pc = "dedupe" /\ idx = queued_paths
  /\ pc' = "cull"
  /\ ret' = "start"
  /\ idx' = 0
  /\ UNCHANGED <<queued_paths, entryVars, fuzz_level, disabled, was_fuzzed,
                 trim_done, slotVars, cullVars, pending_favored, countVars,
                 schedVars, sq, i, trace_bits, tableVars, queue_cur, hits>>

(* main() insists on a seed that is not disabled. *)
StartFuzzing ==
  /\ pc = "start"
  /\ pc' = IF pending_not_fuzzed = 0 \/ Queue \subseteq disabled
           THEN "stopped" ELSE "top"
  /\ UNCHANGED <<ret, queued_paths, entryVars, fuzz_level, disabled,
                 was_fuzzed, trim_done, slotVars, cullVars, pending_favored,
                 countVars, schedVars, idx, sq, i, trace_bits, tableVars,
                 queue_cur, hits>>
-----------------------------------------------------------------------------
(***************************************************************************)
(* cull_queue()                                                            *)
(***************************************************************************)
(* The call at the top of the main loop. *)
CallCull ==
  /\ pc = "top"
  /\ pc' = "cull"
  /\ ret' = "select"
  /\ UNCHANGED <<queued_paths, entryVars, fuzz_level, disabled, was_fuzzed,
                 trim_done, slotVars, cullVars, pending_favored, countVars,
                 schedVars, idx, sq, i, trace_bits, tableVars, queue_cur, hits>>

CullSkip ==
  /\ pc = "cull"
  /\ ~score_changed
  /\ pc' = ret
  /\ UNCHANGED <<ret, queued_paths, entryVars, fuzz_level, disabled,
                 was_fuzzed, trim_done, slotVars, cullVars, pending_favored,
                 countVars, schedVars, idx, sq, i, trace_bits, tableVars,
                 queue_cur, hits>>

CullBegin ==
  /\ pc = "cull"
  /\ score_changed
  /\ pc' = "culling"
  /\ score_changed' = FALSE
  /\ temp_v' = Edges
  /\ queued_favored' = 0
  /\ pending_favored' = 0
  /\ favored' = {}
  /\ i' = 0
  /\ UNCHANGED <<ret, queued_paths, entryVars, fuzz_level, disabled,
                 was_fuzzed, trim_done, tc_ref, trace_mini, top_rated,
                 fs_redundant, countVars, schedVars, idx, sq, trace_bits,
                 tableVars, queue_cur, hits>>

Grab == top_rated[i] # NoEntry /\ i \in temp_v

IsPending(q) == fuzz_level[q] = 0 \/ q \notin was_fuzzed

ClearByte(w) == temp_v \ Edges

Uncovered(w) == temp_v \ trace_mini[w]

CullGrab ==
  LET w == top_rated[i] IN
  /\ pc = "culling" /\ i \in Edges
  /\ Grab
  /\ temp_v' = Uncovered(w)
  /\ favored' = favored \cup {w}
  /\ queued_favored' = queued_favored + (IF w \in favored THEN 0 ELSE 1)
  /\ pending_favored' =
       pending_favored + (IF w \notin favored /\ IsPending(w) THEN 1 ELSE 0)
  /\ i' = i + 1
  /\ UNCHANGED <<pc, ret, queued_paths, entryVars, fuzz_level, disabled,
                 was_fuzzed, trim_done, slotVars, fs_redundant, countVars,
                 schedVars, idx, sq, trace_bits, tableVars, queue_cur, hits>>

CullPass ==
  /\ pc = "culling" /\ i \in Edges
  /\ ~Grab
  /\ i' = i + 1
  /\ UNCHANGED <<pc, ret, queued_paths, entryVars, fuzz_level, disabled,
                 was_fuzzed, trim_done, slotVars, cullVars, pending_favored,
                 countVars, schedVars, idx, sq, trace_bits, tableVars,
                 queue_cur, hits>>

(* mark_as_redundant() for every entry that is not disabled. *)
CullEnd ==
  /\ pc = "culling" /\ i = NEdges
  /\ fs_redundant' = (fs_redundant \cap disabled)
                       \cup (Queue \ (disabled \cup favored))
  /\ temp_v' = {}
  /\ i' = 0
  /\ pc' = ret
  /\ UNCHANGED <<ret, queued_paths, entryVars, fuzz_level, disabled,
                 was_fuzzed, trim_done, slotVars, favored, queued_favored,
                 pending_favored, countVars, schedVars, idx, sq, trace_bits,
                 tableVars, queue_cur, hits>>
-----------------------------------------------------------------------------
(***************************************************************************)
(* With -Z a new cycle moves to the next schedule and rescores all entries *)
(* with whatever trace the last run left in trace_bits.                    *)
(***************************************************************************)
NextSchedule ==
  [explore |-> "exploit", exploit |-> "mmopt", mmopt |-> "seek",
   seek |-> "explore"]

BeginCycle ==
  /\ pc = "select"
  /\ session.cycle_schedules
  /\ schedule' = NextSchedule[schedule]
  /\ pc' = "cycle"
  /\ idx' = 0
  /\ UNCHANGED <<ret, queued_paths, entryVars, fuzz_level, disabled,
                 was_fuzzed, trim_done, slotVars, cullVars, pending_favored,
                 countVars, session, sq, i, trace_bits, tableVars, queue_cur,
                 hits>>

Rescore ==
  /\ pc = "cycle" /\ idx \in Queue
  /\ IF idx \in disabled
     THEN UNCHANGED <<pc, ret, sq, i, trace_bits>>
     ELSE CallScore(idx, trace_bits, "cycle")
  /\ idx' = idx + 1
  /\ UNCHANGED <<queued_paths, entryVars, fuzz_level, disabled, was_fuzzed,
                 trim_done, slotVars, cullVars, pending_favored, countVars,
                 schedVars, tableVars, queue_cur, hits>>

EndCycle ==
  /\ pc = "cycle" /\ idx = queued_paths
  /\ pc' = "pick"
  /\ idx' = 0
  /\ UNCHANGED <<ret, queued_paths, entryVars, fuzz_level, disabled,
                 was_fuzzed, trim_done, slotVars, cullVars, pending_favored,
                 countVars, schedVars, sq, i, trace_bits, tableVars, queue_cur,
                 hits>>
-----------------------------------------------------------------------------
(***************************************************************************)
(* create_alias_table() and select_next_queue_entry().  Disabled entries   *)
(* have weight 0.  The weights are quotients of doubles: an entry that was *)
(* never calibrated (exec_us and bitmap_size 0), or no slot held by any    *)
(* enabled entry (avg_top_size 0), makes their sum NaN, no quotient is     *)
(* then below 1, and every entry keeps probability 1 for itself.           *)
(***************************************************************************)
Enabled == Queue \ disabled

SumIsNaN ==
  /\ schedule # "seek"
  /\ \/ \E q \in Enabled : exec_us[q] = 0
     \/ \A q \in Enabled : tc_ref[q] = 0

CreateAliasTable == IF SumIsNaN THEN Queue ELSE Enabled

TableNow == IF reinit_table THEN CreateAliasTable ELSE table

MaySkip(q) ==
  IF pending_favored > 0
  THEN q \in was_fuzzed \/ fuzz_level[q] > 0 \/ q \notin favored
  ELSE q \notin favored /\ queued_paths > MinToSkip

(* fuzz_one() returns at once; the next entry is drawn from the same table. *)
SkipEntry ==
  /\ pc \in {"select", "pick"}
  /\ \E q \in TableNow : MaySkip(q)
  /\ pc' = "pick"
  /\ table' = TableNow
  /\ reinit_table' = FALSE
  /\ UNCHANGED <<ret, queued_paths, entryVars, fuzz_level, disabled,
                 was_fuzzed, trim_done, slotVars, cullVars, pending_favored,
                 countVars, schedVars, idx, sq, i, trace_bits, queue_cur, hits>>

FuzzOne(q) ==
  /\ pc \in {"select", "pick"}
  /\ q \in TableNow
  /\ fuzz_level[q] < session.level
  /\ pc' = IF cal_failed[q] > 0 THEN "cal" ELSE "trim"
  /\ queue_cur' = q
  /\ table' = TableNow
  /\ reinit_table' = FALSE
  /\ UNCHANGED <<ret, queued_paths, entryVars, fuzz_level, disabled,
                 was_fuzzed, trim_done, slotVars, cullVars, pending_favored,
                 countVars, schedVars, idx, sq, i, trace_bits, hits>>

(* exec_cksum was reset, so this counts as a first run: if it sets no new  *)
(* bit, calibrate_case returns FSRV_RUN_NOBITS after the scoring, and the  *)
(* entry is left.                                                          *)
Recalibrate ==
  /\ pc = "cal"
  /\ cal_failed[queue_cur] < CalChances
  /\ \E c \in Calibrations, us \in session.times, then \in {"trim", "abandon"} :
       CalibrateOk(queue_cur, c, us, then)
  /\ UNCHANGED <<queued_paths, len, fuzz_level, disabled, was_fuzzed,
                 trim_done, slotVars, cullVars, pending_favored, countVars,
                 schedVars, idx, tableVars, queue_cur>>

(* It fails again (exec_cksum was reset before), or has no chance left. *)
RecalibrateFails ==
  /\ pc = "cal"
  /\ IF cal_failed[queue_cur] < CalChances
     THEN /\ cal_failed' = [cal_failed EXCEPT ![queue_cur] = @ + 1]
          /\ exec_cksum' = [exec_cksum EXCEPT ![queue_cur] = {}]
          /\ \E t \in Traces : trace_bits' = Left(t)
     ELSE UNCHANGED <<cal_failed, exec_cksum, trace_bits>>
  /\ pc' = "abandon"
  /\ UNCHANGED <<ret, queued_paths, len, exec_us, fuzz_level, disabled,
                 was_fuzzed, trim_done, slotVars, cullVars, pending_favored,
                 countVars, schedVars, idx, sq, i, tableVars, queue_cur, hits>>

(* trim_case() made the entry shorter without changing its checksum. *)
TrimCase ==
  /\ pc = "trim"
  /\ queue_cur \notin trim_done
  /\ \E n \in Lens : n < len[queue_cur] /\ len' = [len EXCEPT ![queue_cur] = n]
  /\ trim_done' = trim_done \cup {queue_cur}
  /\ CallScore(queue_cur, exec_cksum[queue_cur], "stages")
  /\ UNCHANGED <<queued_paths, exec_us, exec_cksum, cal_failed, fuzz_level,
                 disabled, was_fuzzed, slotVars, cullVars, pending_favored,
                 countVars, schedVars, idx, tableVars, queue_cur, hits>>

NothingTrimmed ==
  /\ pc = "trim"
  /\ trim_done' = trim_done \cup {queue_cur}
  /\ pc' = "stages"
  /\ UNCHANGED <<ret, queued_paths, entryVars, fuzz_level, disabled,
                 was_fuzzed, slotVars, cullVars, pending_favored, countVars,
                 schedVars, idx, sq, i, trace_bits, tableVars, queue_cur, hits>>

(* The runs that found nothing: attempts to trim, and the stages, which a  *)
(* disabled entry does not get to as its perf_score is 0.                  *)
StagesDone ==
  /\ pc = "stages"
  /\ pc' = "abandon"
  /\ \E t \in Traces \cup {trace_bits} : trace_bits' = Left(t)
  /\ UNCHANGED <<ret, queued_paths, entryVars, fuzz_level, disabled,
                 was_fuzzed, trim_done, slotVars, cullVars, pending_favored,
                 countVars, schedVars, idx, sq, i, tableVars, queue_cur, hits>>
-----------------------------------------------------------------------------
(***************************************************************************)
(* save_if_interesting(): from a fuzzing stage, or from sync_fuzzers().    *)
(***************************************************************************)
MayFind ==
  /\ queued_paths < session.paths
  /\ \/ pc = "stages" /\ queue_cur \notin disabled
     \/ pc \in {"top", "select"}

AddToQueue(n) ==
  /\ queued_paths' = queued_paths + 1
  /\ len' = [len EXCEPT ![queued_paths] = n]
  /\ pending_not_fuzzed' = pending_not_fuzzed + 1
  /\ active_paths' = active_paths + 1
  /\ reinit_table' = TRUE

(* The checksum is that of the run that was interesting. *)
Find ==
  /\ MayFind
  /\ \E n \in Lens, c \in Calibrations, us \in session.times :
       /\ AddToQueue(n)
       /\ CalibrateOk(queued_paths, c, us, pc)
  /\ UNCHANGED <<fuzz_level, disabled, was_fuzzed, trim_done, slotVars,
                 cullVars, pending_favored, schedVars, idx, table, queue_cur>>

FindFailsCalibration ==
  /\ MayFind
  /\ \E n \in Lens, t \in Traces :
       /\ AddToQueue(n)
       /\ exec_cksum' = [exec_cksum EXCEPT ![queued_paths] = t]
       /\ hits' = [hits EXCEPT ![queued_paths] = t]
  /\ cal_failed' = [cal_failed EXCEPT ![queued_paths] = 1]
  /\ \E t \in Traces : trace_bits' = Left(t)
  /\ UNCHANGED <<pc, ret, exec_us, fuzz_level, disabled, was_fuzzed,
                 trim_done, slotVars, cullVars, pending_favored, schedVars, idx,
                 sq, i, table, queue_cur>>
-----------------------------------------------------------------------------
(***************************************************************************)
(* abandon_entry                                                           *)
(***************************************************************************)
FirstTime(q) == cal_failed[q] = 0 /\ q \notin was_fuzzed \cup disabled

NeverFavored(q) == FALSE

FavoredNow(q) == q \in favored

AbandonEntry(stop_soon) ==
  LET q == queue_cur
      first == ~stop_soon /\ FirstTime(q)
  IN
  /\ pc = "abandon"
  /\ IF first
     THEN /\ pending_not_fuzzed' = pending_not_fuzzed - 1
          /\ was_fuzzed' = was_fuzzed \cup {q}
          /\ reinit_table' = TRUE
          /\ pending_favored' = pending_favored - (IF FavoredNow(q) THEN 1 ELSE 0)
     ELSE UNCHANGED <<pending_not_fuzzed, was_fuzzed, reinit_table,
                      pending_favored>>
  /\ fuzz_level' = [fuzz_level EXCEPT ![q] = @ + 1]
  /\ pc' = IF stop_soon THEN "stopped" ELSE "top"
  /\ queue_cur' = NoEntry
  /\ UNCHANGED <<ret, queued_paths, entryVars, disabled, trim_done, slotVars,
                 cullVars, active_paths, schedVars, idx, sq, i, trace_bits,
                 table, hits>>
-----------------------------------------------------------------------------
(* stop_soon is set while nothing is being fuzzed: the main loop ends. *)
StopFuzzing ==
  /\ pc \in {"top", "select", "pick"}
  /\ pc' = "stopped"
  /\ UNCHANGED <<ret, queued_paths, entryVars, fuzz_level, disabled,
                 was_fuzzed, trim_done, slotVars, cullVars, pending_favored,
                 countVars, schedVars, idx, sq, i, trace_bits, tableVars,
                 queue_cur, hits>>

Stopped == pc = "stopped" /\ UNCHANGED vars

Score == ScoreWin \/ ScoreLose \/ ScoreReturn
DryRun ==
  \/ DryRunOk
  \/ DryRunBad(1)
  \/ DryRunBad(CalChances)
  \/ DryRunDone
  \/ Dedupe
  \/ DedupeDone
  \/ StartFuzzing
Cull == CallCull \/ CullSkip \/ CullBegin \/ CullGrab \/ CullPass \/ CullEnd
Cycle == BeginCycle \/ Rescore \/ EndCycle
FuzzLoop ==
  \/ SkipEntry
  \/ \E q \in Paths : FuzzOne(q)
  \/ Recalibrate
  \/ RecalibrateFails
  \/ TrimCase
  \/ NothingTrimmed
  \/ StagesDone
  \/ Find
  \/ FindFailsCalibration
  \/ \E stop_soon \in BOOLEAN : AbandonEntry(stop_soon)

Next == Score \/ DryRun \/ Cull \/ Cycle \/ FuzzLoop \/ StopFuzzing \/ Stopped

Spec == Init /\ [][Next]_vars
-----------------------------------------------------------------------------
ShapeOK ==
  /\ pc \in {"dry", "dedupe", "start", "top", "cull", "culling", "select",
            "cycle", "pick", "cal", "trim", "stages", "abandon", "score",
            "stopped"}
  /\ ret \in {"dry", "start", "select", "top", "cycle", "trim", "abandon",
             "stages"}
  /\ queued_paths \in 1 .. MaxPaths
  /\ len \in [Paths -> Lens \cup {0}]
  /\ exec_us \in [Paths -> session.times \cup {0}]
  /\ exec_cksum \in [Paths -> Traces \cup {{}}]
  /\ cal_failed \in [Paths -> 0 .. CalChances]
  /\ fuzz_level \in [Paths -> 0 .. session.level]
  /\ disabled \in SUBSET Queue
  /\ was_fuzzed \in SUBSET Queue
  /\ trim_done \in SUBSET Queue
  /\ fs_redundant \in SUBSET Queue
  /\ favored \in SUBSET Queue
  /\ trace_mini \in [Paths -> Traces \cup {{}}]
  /\ top_rated \in [Edges -> Queue \cup {NoEntry}]
  /\ score_changed \in BOOLEAN
  /\ session \in Sessions
  /\ schedule \in {"explore", "exploit", "mmopt", "seek"}
  /\ idx \in 0 .. queued_paths
  /\ sq \in Queue \cup {NoEntry}
  /\ (pc = "score") => (sq # NoEntry)
  /\ i \in 0 .. NEdges
  /\ trace_bits \in Traces \cup {{}}
  /\ temp_v \in SUBSET Edges
  /\ table \in SUBSET Queue
  /\ reinit_table \in BOOLEAN
  /\ queue_cur \in Queue \cup {NoEntry}
  /\ hits \in [Paths -> SUBSET Edges]

TypeOK ==
  /\ ShapeOK
  /\ tc_ref \in [Paths -> Nat]
  /\ {queued_favored, pending_favored, pending_not_fuzzed, active_paths}
       \subseteq Nat

(* tc_ref counts the slots of top_rated[] that an entry holds, whatever    *)
(* update_bitmap_score() takes from whom, its own slots included.          *)
Slots(q) == {e \in Edges : top_rated[e] = q}

RefCounts == \A q \in Paths : tc_ref[q] = Cardinality(Slots(q))

(* cull_queue() reads trace_mini of a winner without a test for NULL, and  *)
(* nothing but the loss of the last slot frees it.                         *)
WinnersHaveTrace ==
  \A q \in Paths : Slots(q) # {} <=> trace_mini[q] # {}

(* As long as scores have not changed since, the favored entries cover     *)
(* every map byte that has a winner: what cull_queue() is for.  A byte     *)
(* that only its winner hits, and not in the trace that was kept of it, is *)
(* covered by the winner itself.                                           *)
FavoredCover ==
  ~score_changed /\ pc # "culling" =>
    \A e \in Edges : top_rated[e] # NoEntry =>
      top_rated[e] \in favored \/ \E q \in favored : e \in trace_mini[q]

(* The counters of the main loop's decisions against the flags they count, *)
(* after timeouts, crashes and duplicates in the dry run and failed        *)
(* calibrations later.                                                     *)
CountersExact ==
  /\ pending_not_fuzzed = Cardinality(Queue \ was_fuzzed)
  /\ active_paths = Cardinality(Queue \ disabled)
  /\ pc # "culling" => queued_favored = Cardinality(favored)

(* pending_favored never misses a favored entry that is waiting, and what  *)
(* it has in excess are disabled entries.                                  *)
PendingFavoredBounds ==
  pc # "culling" =>
    pending_favored \in Cardinality(favored \ was_fuzzed) ..
                        Cardinality((favored \ was_fuzzed) \cup
                                    (favored \cap disabled))

(* Only calibrated entries hold slots: an entry without timing would beat  *)
(* all others.                                                             *)
WinnersCalibrated ==
  \A q \in Paths : Slots(q) # {} => exec_us[q] # 0 /\ cal_failed[q] = 0

(* "a minimal set of paths that trigger all the bits": the winner of a map *)
(* byte has hit that byte.  This is not so with -Z, which rescores every   *)
(* entry with the trace of whichever input ran last.                       *)
WinnersHitTheirByte ==
  session.cycle_schedules \/ \A q \in Paths : Slots(q) \subseteq hits[q]

(* After the dry run no two enabled seeds have the same trace, and every   *)
(* duplicate gave way to an enabled seed that is not longer.               *)
SeedsDeduplicated ==
  pc = "start" =>
    /\ \A p, q \in Enabled : exec_cksum[p] = exec_cksum[q] => p = q
    /\ \A p \in disabled : cal_failed[p] = 0 =>
         \E q \in Enabled : /\ exec_cksum[q] = exec_cksum[p]
                            /\ len[q] <= len[p]

(* "Remove from fuzzing queue but keep for splicing": a disabled entry is  *)
(* not fuzzed.                                                             *)
DisabledNotFuzzed == queue_cur \notin disabled
=============================================================================
