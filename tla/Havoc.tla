-------------------------------- MODULE Havoc --------------------------------
(***************************************************************************)
(* The havoc and splicing stages of fuzz_one (afl-fuzz-one.c, from the     *)
(* label havoc_stage to abandon_entry): stacks of random tweaks of         *)
(* out_buf, each stack followed by a run and by the restoration of         *)
(* out_buf, then up to SPLICE_CYCLES rounds on inputs spliced from two     *)
(* entries.                                                                *)
(*                                                                         *)
(* The bytes are left out: the state is the lengths and the sizes of the   *)
(* two reallocated buffers, and every offset the code draws is drawn       *)
(* here.  An operation that would touch memory outside of its buffers sets *)
(* `outside`.  No custom mutator is loaded.                                *)
(***************************************************************************)
EXTENDS Integers, FiniteSets

CONSTANTS
    MAX_FILE, HAVOC_BLK_SMALL, HAVOC_BLK_MEDIUM, HAVOC_BLK_LARGE, HAVOC_BLK_XL,
    HAVOC_CYCLES, HAVOC_CYCLES_INIT, HAVOC_MIN, SPLICE_HAVOC, SPLICE_CYCLES,
    havoc_max_mult,      \* cap on the growth of perf_score
    havoc_div,           \* slow targets divide the number of runs
    havoc_stack_pow2,    \* a stack has 2^1 to 2^havoc_stack_pow2 tweaks
    ExtraLens,           \* lengths of the tokens of both dictionaries
    PartnerLens          \* lengths of the other entries fit for splicing

ASSUME HavocAssumption ==
    /\ {HAVOC_BLK_SMALL, HAVOC_BLK_MEDIUM, HAVOC_BLK_LARGE, HAVOC_BLK_XL,
        HAVOC_CYCLES, HAVOC_CYCLES_INIT, HAVOC_MIN, SPLICE_HAVOC,
        havoc_div, havoc_stack_pow2} \subseteq Nat \ {0}
    /\ {SPLICE_CYCLES, havoc_max_mult, MAX_FILE} \subseteq Nat
    /\ HAVOC_BLK_SMALL <= HAVOC_BLK_MEDIUM /\ HAVOC_BLK_MEDIUM <= HAVOC_BLK_LARGE
    /\ HAVOC_BLK_LARGE <= HAVOC_BLK_XL /\ HAVOC_BLK_XL < MAX_FILE
    /\ ExtraLens \subseteq Nat \ {0}
    /\ PartnerLens \subseteq 4..MAX_FILE

VARIABLES
    hpc,           \* where the stage is: idle, enter, tweak, splice, over
    q_len,         \* queue_cur->len
    len,           \* length of in_buf, the entry or a spliced input
    temp_len,      \* length of out_buf
    out, out_scratch,   \* sizes the two buffers were allocated with
    stacked,       \* tweaks left in the stack
    stage_cur, stage_max, perf_score, orig_perf,
    doing_det, splice_cycle,
    outside        \* some access fell outside of its buffer

hvars == <<hpc, q_len, len, temp_len, out, out_scratch, stacked,
           stage_cur, stage_max, perf_score, orig_perf, doing_det,
           splice_cycle, outside>>

Lesser(a, b) == IF a <= b THEN a ELSE b
Greater(a, b) == IF a >= b THEN a ELSE b

rand_below(limit) == IF limit <= 1 THEN {0} ELSE 0..(limit - 1)

\* A slip of choose_block_len: the longest block of the class is not limited.
BlockLenUnlimited(limit) ==
    UNION {(IF class[1] >= limit THEN 1 ELSE class[1])..class[2] :
           class \in {<<1, HAVOC_BLK_SMALL>>, <<HAVOC_BLK_SMALL, HAVOC_BLK_MEDIUM>>}}

\* Lengths choose_block_len may return; a young session draws from fewer
\* of the four classes.
choose_block_len(limit) ==
    UNION {LET min == IF class[1] >= limit THEN 1 ELSE class[1]
           IN  {min + r : r \in rand_below(Lesser(class[2], limit) - min + 1)} :
           class \in {<<1, HAVOC_BLK_SMALL>>, <<HAVOC_BLK_SMALL, HAVOC_BLK_MEDIUM>>,
                      <<HAVOC_BLK_MEDIUM, HAVOC_BLK_LARGE>>,
                      <<HAVOC_BLK_LARGE, HAVOC_BLK_XL>>}}

\* The size of a buffer after a request for n bytes; growth is not rounded up.
afl_realloc(size, n) == Greater(size, n)

\* n bytes at offset at, of a buffer that holds size bytes
Within(at, n, size) == at >= 0 /\ n >= 0 /\ at + n <= size

-----------------------------------------------------------------------------
(* Entry into the stage: custom_mutator_stage falls through to havoc_stage. *)
Enter ==
    /\ hpc = "enter"
    /\ perf_score' = IF splice_cycle = 0 THEN perf_score ELSE orig_perf
    /\ LET cycles == IF splice_cycle # 0 THEN SPLICE_HAVOC
                     ELSE IF doing_det THEN HAVOC_CYCLES_INIT ELSE HAVOC_CYCLES
       IN  stage_max' = Greater(((cycles * perf_score') \div havoc_div) \div 100, HAVOC_MIN)
    /\ temp_len' = len
    /\ stage_cur' = 0
    /\ \E r \in rand_below(havoc_stack_pow2) : stacked' = 2^(1 + r)
    /\ hpc' = "tweak"
    /\ UNCHANGED <<q_len, len, out, out_scratch, orig_perf,
                   doing_det, splice_cycle, outside>>

\* One tweak of the stack: its new length, the buffers after it, and whether
\* its accesses stay inside of them.
Tweaked(length, fits, size, scratch) ==
    /\ hpc = "tweak" /\ stacked > 0
    /\ stacked' = stacked - 1
    /\ temp_len' = length
    /\ outside' = (outside \/ ~fits)
    /\ out' = size /\ out_scratch' = scratch
    /\ UNCHANGED <<hpc, q_len, len, stage_cur, stage_max, perf_score,
                   orig_perf, doing_det, splice_cycle>>

InPlace(fits) == Tweaked(temp_len, fits, out, out_scratch)

\* Cases 0 to 43: w bytes are flipped, replaced, added to or subtracted from.
SetBytes ==
    \E w \in {1, 2, 4} :
        \/ temp_len < w /\ InPlace(TRUE)
        \/ /\ w = 1 \/ temp_len >= w
           /\ \E pos \in rand_below(temp_len - w + 1) : InPlace(Within(pos, w, temp_len))

\* A block of n bytes that starts at `from` of a buffer of `size` bytes is
\* inserted at `to`: head, block and tail are put together in out_scratch,
\* which takes the place of out.
Inserted(from, n, size, to, scratch) ==
    Tweaked(temp_len + n,
            /\ Within(from, n, size)
            /\ Within(0, to, temp_len) /\ Within(to, temp_len - to, temp_len)
            /\ Within(0, temp_len + n, scratch),
            scratch, out)

\* Cases 44 to 46.
CloneBlock ==
    \/ /\ temp_len + HAVOC_BLK_XL < MAX_FILE
       /\ \E n \in choose_block_len(temp_len) :
          \E from \in rand_below(temp_len - n + 1), to \in rand_below(temp_len) :
             Inserted(from, n, temp_len, to, afl_realloc(out_scratch, temp_len + n))
    \/ temp_len + HAVOC_BLK_XL >= MAX_FILE /\ InPlace(TRUE)

\* Case 47.
InsertConstant ==
    \/ /\ temp_len + HAVOC_BLK_XL < MAX_FILE
       /\ \E n \in choose_block_len(HAVOC_BLK_XL) : \E to \in rand_below(temp_len) :
             Inserted(0, n, n, to, afl_realloc(out_scratch, temp_len + n))
    \/ temp_len + HAVOC_BLK_XL >= MAX_FILE /\ InPlace(TRUE)

\* Cases 48 to 51: copy_len bytes are overwritten by others or by a constant.
OverwriteBlock ==
    \/ temp_len < 2 /\ InPlace(TRUE)
    \/ /\ temp_len >= 2
       /\ \E n \in choose_block_len(temp_len - 1) :
          \E from, to \in rand_below(temp_len - n + 1) :
             InPlace(Within(from, n, temp_len) /\ Within(to, n, temp_len))

\* Cases 52 to MAX_HAVOC_ENTRY.
DeleteBlock ==
    \/ temp_len < 2 /\ InPlace(TRUE)
    \/ /\ temp_len >= 2
       /\ \E n \in choose_block_len(temp_len - 1) :
          \E from \in rand_below(temp_len - n + 1) :
             Tweaked(temp_len - n, Within(from + n, temp_len - from - n, temp_len),
                     out, out_scratch)

\* A token of the user's or of the automatic dictionary overwrites a part ...
OverwriteExtra ==
    \E n \in ExtraLens :
        \/ n > temp_len /\ InPlace(TRUE)
        \/ /\ n <= temp_len
           /\ \E at \in rand_below(temp_len - n + 1) : InPlace(Within(at, n, temp_len))

\* ... or is inserted, in out_buf itself, which is made larger first.
InsertExtra ==
    \E n \in ExtraLens :
        \/ temp_len + n >= MAX_FILE /\ InPlace(TRUE)
        \/ /\ temp_len + n < MAX_FILE
           /\ \E at \in rand_below(temp_len + 1) :
                 LET size == afl_realloc(out, temp_len + n)
                 IN  Tweaked(temp_len + n,
                             /\ Within(at, temp_len - at, temp_len)
                             /\ Within(at + n, temp_len - at, size) /\ Within(at, n, size),
                             size, out_scratch)

\* A part of another entry overwrites a part, or is inserted.
SpliceTweak ==
    \E new_len \in PartnerLens :
        \/ /\ temp_len >= 2 \/ temp_len + HAVOC_BLK_XL >= MAX_FILE
           /\ \E b \in choose_block_len(new_len - 1) :
              LET n == Lesser(b, temp_len)
              IN  \E from \in rand_below(new_len - n + 1), to \in rand_below(temp_len - n + 1) :
                     InPlace(Within(from, n, new_len) /\ Within(to, n, temp_len))
        \/ /\ temp_len + HAVOC_BLK_XL < MAX_FILE
           /\ \E n \in choose_block_len(new_len) :
              \E from \in rand_below(new_len - n + 1), to \in rand_below(temp_len + 1) :
                 Inserted(from, n, new_len, to, afl_realloc(out_scratch, temp_len + n + 1))

Tweak ==
    \/ SetBytes \/ CloneBlock \/ InsertConstant \/ OverwriteBlock \/ DeleteBlock
    \/ OverwriteExtra \/ InsertExtra \/ SpliceTweak

-----------------------------------------------------------------------------
\* common_fuzz_stuff asks to bail out: a stop, a skip request, too many hangs.
HavocAbandon ==
    /\ hpc = "tweak" /\ stacked = 0
    /\ hpc' = "over"
    /\ UNCHANGED <<q_len, len, temp_len, out, out_scratch, stacked,
                   stage_cur, stage_max, perf_score, orig_perf, doing_det,
                   splice_cycle, outside>>

\* The stack is done: run it, restore out_buf, go on longer after a find.
HavocRun ==
    /\ hpc = "tweak" /\ stacked = 0
    /\ out' = afl_realloc(out, len)
    /\ temp_len' = len
    /\ outside' = (outside \/ ~Within(0, len, out'))
    /\ \E found \in BOOLEAN :
          LET longer == found /\ perf_score <= havoc_max_mult * 100
          IN  /\ stage_max' = IF longer THEN stage_max * 2 ELSE stage_max
              /\ perf_score' = IF longer THEN perf_score * 2 ELSE perf_score
    /\ stage_cur' = stage_cur + 1
    /\ \/ /\ stage_cur' < stage_max'
          /\ \E r \in rand_below(havoc_stack_pow2) : stacked' = 2^(1 + r)
          /\ hpc' = "tweak"
       \/ /\ stage_cur' >= stage_max'
          /\ stacked' = 0
          /\ hpc' = "splice"
    /\ UNCHANGED <<q_len, len, out_scratch, orig_perf, doing_det, splice_cycle>>

\* retry_splicing: no splicing, no partner, or all rounds are used up.
SpliceOver ==
    /\ hpc = "splice"
    /\ hpc' = "over"
    /\ UNCHANGED <<q_len, len, temp_len, out, out_scratch, stacked,
                   stage_cur, stage_max, perf_score, orig_perf, doing_det,
                   splice_cycle, outside>>

\* splice_cycle++, and a slip that forgets it on a retry.
SpliceNotCounted == splice_cycle
SpliceCounted == splice_cycle + 1

\* One round: in_buf is the entry again, and a partner is picked.
SpliceRound ==
    /\ hpc = "splice"
    /\ splice_cycle < SPLICE_CYCLES /\ q_len >= 4
    /\ splice_cycle' = SpliceCounted
    /\ \E new_len \in PartnerLens :
          LET common == Lesser(q_len, new_len)
          IN  \* locate_diffs finds no place to split at: retry
              \/ /\ hpc' = "splice"
                 /\ len' = q_len
                 /\ UNCHANGED <<out, outside>>
              \* split between the first and the last differing byte
              \/ /\ \E f_diff \in 0..(common - 1) : \E l_diff \in Greater(f_diff + 1, 2)..(common - 1) :
                    \E r \in rand_below(l_diff - f_diff) :
                        LET split_at == f_diff + r
                        IN  outside' = (\/ outside
                                        \/ ~Within(0, split_at, q_len)
                                        \/ ~Within(0, new_len - split_at, new_len))
                 /\ len' = new_len
                 /\ out' = afl_realloc(out, new_len)
                 /\ hpc' = "enter"
    /\ UNCHANGED <<q_len, temp_len, out_scratch, stacked, stage_cur, stage_max,
                   perf_score, orig_perf, doing_det>>

HNext == Enter \/ Tweak \/ HavocAbandon \/ HavocRun \/ SpliceOver \/ SpliceRound

\* The stage starts on an entry of n bytes; the buffers are those of earlier entries.
HavocStart(n, score, det) ==
    /\ hpc \in {"idle", "over"} /\ hpc' = "enter"
    /\ q_len' = n /\ len' = n /\ temp_len' = n
    /\ out' = afl_realloc(out, n)
    /\ perf_score' = score /\ orig_perf' = score
    /\ doing_det' = det /\ splice_cycle' = 0
    /\ stacked' = 0 /\ stage_cur' = 0 /\ stage_max' = 0
    /\ UNCHANGED <<out_scratch, outside>>

HInit ==
    /\ hpc = "idle"
    /\ q_len = 0 /\ len = 0 /\ temp_len = 0
    /\ out = 0 /\ out_scratch = 0
    /\ stacked = 0 /\ stage_cur = 0 /\ stage_max = 0
    /\ perf_score = 0 /\ orig_perf = 0
    /\ doing_det = FALSE /\ splice_cycle = 0 /\ outside = FALSE

HSpec ==
    /\ HInit
    /\ [][HNext \/ \E n \in 1..MAX_FILE, score \in Nat \ {0}, det \in BOOLEAN :
                      HavocStart(n, score, det)]_hvars

-----------------------------------------------------------------------------
\* However tweaks that grow, shrink and exchange the buffers are stacked, out_buf
\* holds between 1 and MAX_FILE bytes and no access leaves its buffers.
HavocInBounds ==
    /\ ~outside
    /\ hpc = "tweak" => temp_len \in 1..MAX_FILE /\ temp_len <= out
=============================================================================
