------------------------------- MODULE FuzzOne -------------------------------
(***************************************************************************)
(* fuzz_one on one queue entry (afl-fuzz-one.c, fuzz_one_original) from    *)
(* the trimming of the entry (trim_case, afl-fuzz-run.c) through the       *)
(* deterministic stages to havoc and splicing (module Havoc).              *)
(*                                                                         *)
(* The entry is a short sequence of bytes.  The target is any of a small   *)
(* set of programs that take a path of their own for each set of byte      *)
(* groups that differ from the entry: `groups` gives the offsets of every  *)
(* group, `loops` says that some edge is hit three times or more, so that  *)
(* the raw trace is not the classified one.                                *)
(*                                                                         *)
(* The effector map lives in a buffer that is kept between entries and is  *)
(* not cleared, so it starts with any contents.                            *)
(***************************************************************************)
EXTENDS Mutations, Havoc, SequencesExt

CONSTANTS
    Cases,             \* contents of the entry and the automatic dictionary so far
    Targets,           \* the programs under test
    extras,            \* the user's dictionary, sorted by length
    UseShmem,          \* test cases are handed over in shared memory
    no_arith, max_det_extras,
    TRIM_MIN_BYTES, TRIM_START_STEPS, TRIM_END_STEPS,
    EFF_MAP_SCALE2, EFF_MIN_LEN, EFF_MAX_PERC,
    MIN_AUTO_EXTRA, MAX_AUTO_EXTRA, USE_AUTO_EXTRAS, MAX_AUTO_EXTRAS,
    Scores,            \* performance scores of the entry
    tolower(_)

ASSUME FuzzOneAssumption ==
    /\ \A e \in Cases : e.data \in Seq(Byte) /\ Len(e.data) \in 1..MAX_FILE
    /\ \A e \in Cases :
          /\ e.dict \in Seq([data : Seq(Byte), hits : Nat]) /\ Len(e.dict) <= MAX_AUTO_EXTRAS
          /\ \A k, m \in 1..Lesser(Len(e.dict), USE_AUTO_EXTRAS) :
                k < m => Len(e.dict[k].data) <= Len(e.dict[m].data)
    /\ extras \in Seq(Seq(Byte))
    /\ \A k, m \in 1..Len(extras) : k < m => Len(extras[k]) <= Len(extras[m])
    /\ {UseShmem, no_arith} \subseteq BOOLEAN
    /\ {TRIM_MIN_BYTES, TRIM_START_STEPS, TRIM_END_STEPS} \subseteq Nat \ {0}
    /\ {MIN_AUTO_EXTRA, MAX_AUTO_EXTRA, USE_AUTO_EXTRAS, MAX_AUTO_EXTRAS} \subseteq Nat \ {0}
    /\ 2 < MIN_AUTO_EXTRA /\ MIN_AUTO_EXTRA <= MAX_AUTO_EXTRA
    /\ EFF_MAP_SCALE2 \in Nat /\ 2^EFF_MAP_SCALE2 > 0

VARIABLES
    pc,         \* trim, write, written, stage, havoc, done
    seed,       \* the entry as it was calibrated
    target,     \* the program under test
    in_buf,     \* the entry in memory; Len(in_buf) is queue_cur->len
    file,       \* the entry on disk
    shmem,      \* the shared memory test case, as the last run left it
    trim,       \* remove_len, remove_pos, needs_write; a write stopped short
    out_buf,
    at,         \* the stage, its loop counters i and c, and its locals
    eff_map, eff_cnt,
    virgin,     \* the paths seen
    tok,        \* a_collect, a_len and prev_cksum of the first stage
    a_extras,   \* automatic dictionary: tokens and their hit counts
    ran,        \* what the deterministic stages ran
    missed,     \* what they left out as a repetition and had not run
    seen        \* what the last bit of every byte gave, and the tokens offered

fvars == <<pc, seed, target, in_buf, file, shmem, trim, out_buf, at, eff_map,
           eff_cnt, virgin, tok, a_extras, ran, missed, seen>>
vars == <<fvars, hvars>>

(* The path of input b, and the checksum common_fuzz_stuff leaves for it:   *)
(* only a trace with new bits is classified (has_new_bits_unclassified).    *)
Path(b) ==
    {g \in DOMAIN target.groups :
        \E p \in target.groups[g] : p >= Len(b) \/ b[p + 1] # seed[p + 1]}

cksum(b) == <<Path(b), target.loops /\ Path(b) \in virgin>>
exec_cksum == <<{}, FALSE>>

-----------------------------------------------------------------------------
(* trim_case *)
\* The result of next_pow2, the one power of two from n to 2 * n - 1, and the
\* shortest chunk for an input of n bytes, each as a set of one element.
next_pow2(n) == {p \in n..(2 * n - 1) : \E k \in 0..n : p = 2^k}

TrimFloor(n, steps) == {Greater(p \div steps, TRIM_MIN_BYTES) : p \in next_pow2(n)}

\* The input without the n bytes at offset pos.
Without(b, pos, n) == SubSeq(b, 1, pos) \o SubSeq(b, pos + n + 1, Len(b))

\* What write_with_gap leaves in shared memory: the head and then the tail,
\* both copied to its start.
GapInShmem(b, pos, n) ==
    LET tail == SubSeq(b, pos + n + 1, Len(b))
    IN  [k \in DOMAIN shmem |->
            IF k <= Len(tail) THEN tail[k] ELSE IF k <= pos THEN b[k] ELSE shmem[k]]

\* A slip of write_with_gap: the tail starts a byte early.
GapTooSmall(b, pos, n) == SubSeq(b, 1, pos) \o SubSeq(b, pos + n, Len(b))

\* The test case the target reads when it runs without the n bytes at pos.
write_with_gap(b, pos, n) ==
    IF UseShmem THEN SubSeq(GapInShmem(b, pos, n), 1, Len(b) - n) ELSE Without(b, pos, n)

TrimRun ==
    /\ pc = "trim" /\ trim.pos < Len(in_buf)
    /\ LET avail == Lesser(trim.len, Len(in_buf) - trim.pos)
       IN  /\ shmem' = IF UseShmem THEN GapInShmem(in_buf, trim.pos, avail) ELSE shmem
           /\ IF Path(write_with_gap(in_buf, trim.pos, avail)) = {}
              THEN /\ in_buf' = Without(in_buf, trim.pos, avail)
                   /\ trim' = [trim EXCEPT !.dirty = TRUE]
              ELSE /\ trim' = [trim EXCEPT !.pos = @ + trim.len]
                   /\ UNCHANGED in_buf
    /\ UNCHANGED <<pc, seed, target, file, out_buf, at, eff_map, eff_cnt, virgin, tok,
                   a_extras, ran, missed, seen, hvars>>

\* A round is over: halve the chunk, until it gets too small.
TrimHalve ==
    /\ pc = "trim" /\ trim.pos >= Len(in_buf)
    /\ \E least \in TrimFloor(Len(in_buf), TRIM_END_STEPS) :
          LET half == trim.len \div 2
          IN  IF half >= least
              THEN trim' = [trim EXCEPT !.len = half, !.pos = half] /\ UNCHANGED pc
              ELSE pc' = "write" /\ UNCHANGED trim
    /\ UNCHANGED <<seed, target, in_buf, file, shmem, out_buf, at, eff_map, eff_cnt, virgin,
                   tok, a_extras, ran, missed, seen, hvars>>

\* The file is made anew; with no_unlink it is truncated and written in a
\* loop, in which a write that stops short is followed by one from the start
\* of in_buf.
TrimWrite ==
    /\ pc = "write" /\ pc' = "written"
    /\ \/ ~trim.dirty /\ UNCHANGED <<file, trim>>
       \/ trim.dirty /\ file' = in_buf /\ UNCHANGED trim
       \/ /\ trim.dirty
          /\ \E n \in 1..(Len(in_buf) - 1) :
                file' = SubSeq(in_buf, 1, n) \o SubSeq(in_buf, 1, Len(in_buf) - n)
          /\ trim' = [trim EXCEPT !.short = TRUE]
    /\ UNCHANGED <<seed, target, in_buf, shmem, out_buf, at, eff_map, eff_cnt, virgin, tok,
                   a_extras, ran, missed, seen, hvars>>

\* stop_soon: abort_trimming, then abandon_entry
TrimStop ==
    /\ pc = "trim" /\ trim.pos < Len(in_buf)
    /\ pc' = "done"
    /\ UNCHANGED <<seed, target, in_buf, file, shmem, trim, out_buf, at, eff_map, eff_cnt,
                   virgin, tok, a_extras, ran, missed, seen, hvars>>

-----------------------------------------------------------------------------
(* The deterministic stages.  A stage goes through positions i and, at each *)
(* of them, through its inner loop c: the numbers to add in every sign and  *)
(* byte order, the interesting values in both orders, or the tokens.        *)
Stages == <<"flip1", "flip2", "flip4", "flip8", "flip16", "flip32",
            "arith8", "arith16", "arith32", "int8", "int16", "int32",
            "ext_UO", "ext_UI", "ext_AO">>

\* What a stage does and to how many bits, bytes or bytes of a word.
Shape ==
    [s \in Range(Stages) |->
        CASE s = "flip1" -> [kind |-> "bits", w |-> 1] [] s = "flip2" -> [kind |-> "bits", w |-> 2]
          [] s = "flip4" -> [kind |-> "bits", w |-> 4] [] s = "flip8" -> [kind |-> "bytes", w |-> 1]
          [] s = "flip16" -> [kind |-> "bytes", w |-> 2] [] s = "flip32" -> [kind |-> "bytes", w |-> 4]
          [] s = "arith8" -> [kind |-> "arith", w |-> 1] [] s = "arith16" -> [kind |-> "arith", w |-> 2]
          [] s = "arith32" -> [kind |-> "arith", w |-> 4] [] s = "int8" -> [kind |-> "int", w |-> 1]
          [] s = "int16" -> [kind |-> "int", w |-> 2] [] s = "int32" -> [kind |-> "int", w |-> 4]
          [] s = "ext_UI" -> [kind |-> "insert", w |-> 0]
          [] OTHER -> [kind |-> "over", w |-> 1]]

Tokens(s) ==
    IF s = "ext_AO"
    THEN [k \in 1..Lesser(Len(a_extras), USE_AUTO_EXTRAS) |-> a_extras[k].data]
    ELSE extras

Interesting(w) ==
    CASE w = 1 -> interesting_8 [] w = 2 -> interesting_16 [] w = 4 -> interesting_32

\* Number of positions, and length of the inner loop.
Positions(s) ==
    IF Shape[s].kind = "bits" THEN Len(in_buf) * BITS - Shape[s].w + 1
    ELSE Len(in_buf) - Shape[s].w + 1

Orders(s) == IF Shape[s].w = 1 THEN 1 ELSE 2

Inner(s) ==
    CASE Shape[s].kind \in {"bits", "bytes"} -> 1
      [] Shape[s].kind = "arith" -> 2 * Orders(s) * ARITH_MAX
      [] Shape[s].kind = "int" -> Orders(s) * Len(Interesting(Shape[s].w))
      [] OTHER -> Len(Tokens(s))

\* The gotos that leave a stage out.
Wanted(s) ==
    /\ s \in {"flip16", "arith16", "int16"} => Len(in_buf) >= 2
    /\ s \in {"flip32", "arith32", "int32"} => Len(in_buf) >= 4
    /\ s \in {"arith8", "arith16", "arith32", "int16", "int32"} => ~no_arith
    /\ s \in {"ext_UO", "ext_UI"} => extras # <<>>
    /\ s = "ext_AO" => a_extras # <<>>

Later(s) == {k \in DOMAIN Stages : Wanted(Stages[k]) /\ \A n \in DOMAIN Stages : Stages[n] = s => k > n}

-----------------------------------------------------------------------------
(* The effector map: a flag for every 2^EFF_MAP_SCALE2 bytes; 2 stands for  *)
(* any other value the byte may have.                                       *)
EFF_APOS(p) == p \div 2^EFF_MAP_SCALE2
EFF_ALEN(n) == EFF_APOS(n) + (IF n % 2^EFF_MAP_SCALE2 = 0 THEN 0 ELSE 1)

Flagged(k) == eff_map[k] # 0

\* The map when flip8 starts: the first and the last flag are 1, the others are
\* whatever the buffer held, which is not cleared, nor is it when it grows, and
\* in which input_to_state_stage saves virgin_bits.
EffSetup(n) ==
    {[m EXCEPT ![0] = 1, ![EFF_APOS(n - 1)] = 1] : m \in [0..(EFF_ALEN(n) - 1) -> 0..2]}

\* A slip of flip8: only a path not seen before counts as an effect.
EffFlaggedIfNew(p, b) == ~Flagged(EFF_APOS(p)) /\ Path(b) \notin virgin

\* flip8 ran input b with byte p inverted.
EffFlagged(p, b) ==
    /\ ~Flagged(EFF_APOS(p))
    /\ Len(in_buf) >= EFF_MIN_LEN => cksum(b) # exec_cksum

\* After flip8: a dense map is filled up.
EffDense(count, n) ==
    /\ count # EFF_ALEN(n)
    /\ (count * 100) \div EFF_ALEN(n) > EFF_MAX_PERC

\* What the token stages ask: memchr looks for a 1.
Effective(p, n) == \E k \in EFF_APOS(p)..EFF_APOS(p + n - 1) : eff_map[k] = 1

\* Some flag of the w bytes at i is not 0, or the stage does not ask.
Consulted(s, i) ==
    (Shape[s].kind \in {"bytes", "arith", "int"} /\ s # "flip8") =>
        \E p \in i..(i + Shape[s].w - 1) : Flagged(EFF_APOS(p))

-----------------------------------------------------------------------------
(* The candidate of the current iteration, and whether it is run.           *)
Offset(s, i) == IF Shape[s].kind = "bits" THEN i \div BITS ELSE i

\* Number, sign and byte order of an arithmetic candidate.
ArithNumber(s, c) == (c - 1) \div (2 * Orders(s)) + 1
ArithPlus(c) == (c - 1) % 2 = 0
BigEndian(s, c) ==
    IF Shape[s].kind = "arith" THEN (c - 1) % (2 * Orders(s)) >= 2
    ELSE Orders(s) = 2 /\ (c - 1) % 2 = 1

\* Arithmetic in one byte order; a carry has to leave the lower half.
ArithValue(s, c, orig) ==
    LET w == Shape[s].w
        v == IF BigEndian(s, c) THEN SWAP(orig, w) ELSE orig
        r == (IF ArithPlus(c) THEN v + ArithNumber(s, c) ELSE v - ArithNumber(s, c)) % Base^w
    IN  IF BigEndian(s, c) THEN SWAP(r, w) ELSE r

ArithCarries(s, c, orig) ==
    LET w    == Shape[s].w
        half == Base^(w \div 2)
        v    == (IF BigEndian(s, c) THEN SWAP(orig, w) ELSE orig) % half
    IN  \/ w = 1
        \/ IF ArithPlus(c) THEN v + ArithNumber(s, c) > half - 1 ELSE v < ArithNumber(s, c)

IntValue(s, c) ==
    LET w == Shape[s].w
        v == Interesting(w)[(c - 1) \div Orders(s) + 1]
    IN  IF BigEndian(s, c) THEN SWAP(v, w) ELSE v

IntIsNew(s, c, orig) ==
    LET w == Shape[s].w
        v == IntValue(s, c)
    IN  /\ BigEndian(s, c) => SWAP(v, w) # v
        /\ ~could_be_bitflip(Xor(orig, v, w))
        /\ ~could_be_arith(orig, v, w)
        /\ w > 1 => ~could_be_interest(orig, v, w, BigEndian(s, c))

\* out_buf as this iteration makes it.
Mutated(s, i, c, orig) ==
    CASE Shape[s].kind = "bits" -> FlipBits(out_buf, i, Shape[s].w)
      [] Shape[s].kind = "bytes" -> FlipBytes(out_buf, i, Shape[s].w)
      [] Shape[s].kind = "arith" -> Put(out_buf, i, Bytes(ArithValue(s, c, Value(orig)), Shape[s].w))
      [] Shape[s].kind = "int" -> Put(out_buf, i, Bytes(IntValue(s, c), Shape[s].w))
      [] Shape[s].kind = "over" -> Put(out_buf, i, Tokens(s)[c])
      [] OTHER -> SubSeq(out_buf, 1, i) \o Tokens(s)[c] \o SubSeq(out_buf, i + 1, Len(out_buf))

\* The iteration gets as far as common_fuzz_stuff; the test of max_det_extras
\* is made by chance, see SkipByChance.
Runs(s, i, c, orig) ==
    CASE Shape[s].kind \in {"bits", "bytes"} -> TRUE
      [] Shape[s].kind = "arith" ->
            /\ ArithCarries(s, c, Value(orig))
            /\ ~could_be_bitflip(Xor(Value(orig), ArithValue(s, c, Value(orig)), Shape[s].w))
      [] Shape[s].kind = "int" -> IntIsNew(s, c, Value(orig))
      [] Shape[s].kind = "over" ->
            /\ Len(Tokens(s)[c]) <= Len(in_buf) - i
            /\ SubSeq(out_buf, i + 1, i + Len(Tokens(s)[c])) # Tokens(s)[c]
            /\ Effective(i, Len(Tokens(s)[c]))
      [] OTHER -> Len(in_buf) + Len(Tokens(s)[c]) <= MAX_FILE

\* out_buf after the iteration: flips are undone and int8 puts its byte back
\* at once, arithmetic when all signs and orders of a number are done, the
\* wider integers and the tokens at the end of the position.
Restored(s, i, c, orig, b, ranIt, last) ==
    CASE Shape[s].kind = "bits" -> FlipBits(b, i, Shape[s].w)
      [] Shape[s].kind = "bytes" -> FlipBytes(b, i, Shape[s].w)
      [] Shape[s].kind = "arith" ->
            IF c % (2 * Orders(s)) = 0 THEN Put(b, i, orig) ELSE b
      [] s = "int8" -> IF ranIt THEN Put(b, i, orig) ELSE b
      [] Shape[s].kind = "int" /\ s # "int8" -> IF c = Inner(s) THEN Put(b, i, orig) ELSE b
      [] Shape[s].kind = "over" ->
            IF c = Inner(s) THEN Put(b, i, SubSeq(in_buf, i + 1, i + last)) ELSE b
      [] OTHER -> out_buf

-----------------------------------------------------------------------------
(* Automatic dictionary.  qsort orders equal elements in any way.           *)
Arrangements(dict) ==
    {[k \in DOMAIN dict |-> dict[p[k]]] : p \in Bijection(DOMAIN dict, DOMAIN dict)}

\* A slip of maybe_add_auto: the entries in use are not sorted by size.
OrderedByUse(dict) ==
    {l \in Arrangements(dict) : \A k, m \in DOMAIN l : k < m => l[k].hits >= l[m].hits}

\* Sorted by use, and then the first USE_AUTO_EXTRAS by size.
Ordered(dict) ==
    {l \in Arrangements(dict) :
        \A k, m \in DOMAIN l : k < m =>
            IF m <= USE_AUTO_EXTRAS THEN Len(l[k].data) <= Len(l[m].data)
            ELSE l[k].hits >= l[m].hits}

(* The lists maybe_add_auto may leave for token t.  A full list loses an    *)
(* entry of its lower half.                                                 *)
maybe_add_auto(dict, t) ==
    LET nocase(u) == Len(u) = Len(t) /\ \A k \in DOMAIN t : tolower(u[k]) = tolower(t[k])
        builtin == Range(interesting_32) \cup {SWAP(v, 4) : v \in Range(interesting_32)}
        known   == {k \in DOMAIN dict : nocase(dict[k].data)}
        fresh   == [data |-> t, hits |-> 0]
    IN  IF \/ \A k \in DOMAIN t : t[k] = t[1]
           \/ Len(t) = 4 /\ Value(t) \in builtin
           \/ \E k \in DOMAIN extras : nocase(extras[k])
        THEN {dict}
        ELSE IF known # {} THEN Ordered([dict EXCEPT ![Min(known)].hits = @ + 1])
        ELSE IF Len(dict) < MAX_AUTO_EXTRAS THEN Ordered(Append(dict, fresh))
        ELSE UNION {Ordered([dict EXCEPT ![MAX_AUTO_EXTRAS \div 2 + r + 1] = fresh]) :
                       r \in rand_below((MAX_AUTO_EXTRAS + 1) \div 2)}

\* A slip in the collection: the count stops where the array ends.
CollectedCapped(t, b) ==
    IF t.len < MAX_AUTO_EXTRA THEN [t EXCEPT !.collect = Append(@, b), !.len = @ + 1] ELSE t

\* Another byte of the entry is collected; the array has room for
\* MAX_AUTO_EXTRA of them, the count goes on.
Collected(t, b) ==
    [t EXCEPT !.collect = IF t.len < MAX_AUTO_EXTRA THEN Append(@, b) ELSE @,
              !.len = @ + 1]

\* The lowest bit of byte p was flipped and the run gave checksum ck.
Collecting(p, ck) ==
    LET atEnd == p = Len(in_buf) - 1 /\ ck = tok.prev
        first == IF atEnd THEN Collected(tok, out_buf[p + 1]) ELSE tok
        offer == /\ atEnd \/ ck # tok.prev
                 /\ first.len \in MIN_AUTO_EXTRA..MAX_AUTO_EXTRA
        reset == IF ck # tok.prev THEN [collect |-> <<>>, len |-> 0, prev |-> ck] ELSE first
    IN  /\ tok' = IF ck # exec_cksum THEN Collected(reset, out_buf[p + 1]) ELSE reset
        /\ seen' = [cksums |-> Append(seen.cksums, ck),
                    tokens |-> seen.tokens \cup (IF offer THEN {first.collect} ELSE {})]
        /\ a_extras' \in IF offer THEN maybe_add_auto(a_extras, first.collect) ELSE {a_extras}

-----------------------------------------------------------------------------
NoTrim == [len |-> 0, pos |-> 0, dirty |-> FALSE, short |-> FALSE]
NoTok == [collect |-> <<>>, len |-> 0, prev |-> exec_cksum]
NoSeen == [cksums |-> <<>>, tokens |-> {}]
Idle == [stage |-> "none", i |-> 0, c |-> 1, orig |-> <<>>, last |-> 0]

\* The locals of the deterministic stages are dead once they are left.
Forget ==
    /\ seed' = <<>> /\ target' = [groups |-> <<>>, loops |-> FALSE]
    /\ in_buf' = <<>> /\ file' = <<>> /\ shmem' = <<>> /\ trim' = NoTrim
    /\ out_buf' = <<>> /\ at' = Idle /\ eff_map' = <<>> /\ eff_cnt' = 0
    /\ virgin' = {} /\ tok' = NoTok /\ a_extras' = <<>>
    /\ ran' = {} /\ missed' = {} /\ seen' = NoSeen

StartStage(s) ==
    /\ at' = [Idle EXCEPT !.stage = s]
    /\ stage_cur' = 0
    /\ stage_max' = Positions(s) * Inner(s)

hrest == <<hpc, q_len, len, temp_len, out, out_scratch, stacked, orig_perf,
           doing_det, splice_cycle, outside>>

\* Past the trimming: out_buf is a copy of the entry.
StartDet ==
    /\ pc = "written" /\ pc' = "stage"
    /\ perf_score' \in Scores \ {0}
    /\ out_buf' = in_buf
    /\ StartStage("flip1")
    /\ file' = <<>> /\ shmem' = <<>> /\ trim' = NoTrim
    /\ UNCHANGED <<seed, target, in_buf, eff_map, eff_cnt, virgin, tok, a_extras, ran,
                   missed, seen, hrest>>

\* A score of zero, a stop or a calibration that failed.
Abandoned ==
    /\ pc = "written" /\ pc' = "done"
    /\ 0 \in Scores
    /\ Forget /\ UNCHANGED hvars

\* passed_det, skip_deterministic, a low score, or another main node's share.
SkipDet ==
    /\ pc = "written" /\ pc' = "havoc"
    /\ \E score \in Scores \ {0} : HavocStart(Len(in_buf), score, FALSE)
    /\ Forget

-----------------------------------------------------------------------------
InStage == pc = "stage" /\ at.i < Positions(at.stage)
Orig == IF at.c = 1 /\ Shape[at.stage].kind \in {"arith", "int"}
        THEN SubSeq(out_buf, at.i + 1, at.i + Shape[at.stage].w) ELSE at.orig

NextIteration(last) ==
    at' = IF at.c < Inner(at.stage)
          THEN [at EXCEPT !.c = @ + 1, !.orig = Orig, !.last = last]
          ELSE [at EXCEPT !.i = @ + 1, !.c = 1, !.orig = <<>>, !.last = 0]

\* No byte of the word is flagged in the effector map.
SkipPosition ==
    /\ InStage /\ ~Consulted(at.stage, at.i)
    /\ stage_max' = stage_max - Inner(at.stage)
    /\ at' = [at EXCEPT !.i = @ + 1]
    /\ UNCHANGED <<pc, seed, target, in_buf, file, shmem, trim, out_buf, eff_map, eff_cnt,
                   virgin, tok, a_extras, ran, missed, seen, stage_cur, perf_score, hrest>>

\* The iteration is left out: a repetition, no room, or by chance when there
\* are many tokens.
SkipCandidate ==
    /\ InStage /\ Consulted(at.stage, at.i)
    /\ \/ ~Runs(at.stage, at.i, at.c, Orig)
       \/ at.stage = "ext_UO" /\ Len(extras) > max_det_extras
    /\ stage_max' = stage_max - 1
    /\ out_buf' = Restored(at.stage, at.i, at.c, Orig, out_buf, FALSE, at.last)
    /\ missed' = IF Shape[at.stage].kind \in {"arith", "int"}
                 THEN (missed \cup {Mutated(at.stage, at.i, at.c, Orig)}) \ ran
                 ELSE missed
    /\ NextIteration(at.last)
    /\ UNCHANGED <<pc, seed, target, in_buf, file, shmem, trim, eff_map, eff_cnt, virgin,
                   tok, a_extras, ran, seen, stage_cur, perf_score, hrest>>

\* common_fuzz_stuff returns 0.
RunCandidate ==
    /\ InStage /\ Consulted(at.stage, at.i) /\ Runs(at.stage, at.i, at.c, Orig)
    /\ LET b    == Mutated(at.stage, at.i, at.c, Orig)
           last == IF Shape[at.stage].kind = "over" THEN Len(Tokens(at.stage)[at.c]) ELSE 0
           flag == at.stage = "flip8" /\ EffFlagged(at.i, b)
       IN  /\ ran' = ran \cup {b} /\ missed' = missed \ {b}
           /\ virgin' = virgin \cup {Path(b)}
           /\ out_buf' = Restored(at.stage, at.i, at.c, Orig, b, TRUE, last)
           /\ eff_map' = IF flag THEN [eff_map EXCEPT ![EFF_APOS(at.i)] = 1] ELSE eff_map
           /\ eff_cnt' = IF flag THEN eff_cnt + 1 ELSE eff_cnt
           /\ IF at.stage = "flip1" /\ at.i % BITS = BITS - 1
              THEN Collecting(at.i \div BITS, cksum(b))
              ELSE UNCHANGED <<tok, seen, a_extras>>
           /\ NextIteration(last)
    /\ stage_cur' = stage_cur + 1
    /\ UNCHANGED <<pc, seed, target, in_buf, file, shmem, trim, stage_max, perf_score, hrest>>

\* common_fuzz_stuff returns 1: goto abandon_entry
AbandonEntry ==
    /\ InStage /\ Consulted(at.stage, at.i) /\ Runs(at.stage, at.i, at.c, Orig)
    /\ pc' = "done"
    /\ Forget /\ UNCHANGED hvars

EndStage ==
    /\ pc = "stage" /\ at.i >= Positions(at.stage) /\ Later(at.stage) # {}
    /\ LET s == Stages[Min(Later(at.stage))]
       IN  /\ StartStage(s)
           /\ CASE s = "flip8" ->
                     /\ eff_map' \in EffSetup(Len(in_buf))
                     /\ eff_cnt' = IF EFF_APOS(Len(in_buf) - 1) # 0 THEN 2 ELSE 1
                [] at.stage = "flip8" /\ EffDense(eff_cnt, Len(in_buf)) ->
                     /\ eff_map' = [k \in DOMAIN eff_map |-> 1]
                     /\ UNCHANGED eff_cnt
                [] OTHER -> UNCHANGED <<eff_map, eff_cnt>>
    /\ UNCHANGED <<pc, seed, target, in_buf, file, shmem, trim, out_buf, virgin, tok,
                   a_extras, ran, missed, seen, perf_score, hrest>>

\* All stages are done: mark_as_det_done, then havoc.
EndDet ==
    /\ pc = "stage" /\ at.i >= Positions(at.stage) /\ Later(at.stage) = {}
    /\ pc' = "havoc"
    /\ HavocStart(Len(in_buf), perf_score, TRUE)
    /\ Forget

HavocStep == pc = "havoc" /\ HNext /\ UNCHANGED fvars

\* abandon_entry
Finish ==
    /\ pc = "havoc" /\ hpc = "over"
    /\ pc' = "done"
    /\ UNCHANGED <<seed, target, in_buf, file, shmem, trim, out_buf, at, eff_map, eff_cnt,
                   virgin, tok, a_extras, ran, missed, seen, hvars>>

Init ==
    /\ target \in Targets
    /\ \E e \in Cases : seed = e.data /\ a_extras = e.dict
    /\ \A g \in DOMAIN target.groups : target.groups[g] \subseteq 0..(Len(seed) - 1)
    /\ in_buf = seed /\ file = seed
    /\ shmem \in {seed, [k \in DOMAIN seed |-> {}]}
    /\ \/ /\ pc = "trim" /\ Len(seed) >= 5
          /\ \E n \in TrimFloor(Len(seed), TRIM_START_STEPS) :
                trim = [NoTrim EXCEPT !.len = n, !.pos = n]
       \/ pc = "written" /\ trim = NoTrim
    /\ out_buf = <<>> /\ at = Idle /\ eff_map = <<>> /\ eff_cnt = 0
    /\ virgin = {{}} /\ tok = NoTok
    /\ ran = {} /\ missed = {} /\ seen = NoSeen
    /\ HInit

Next ==
    \/ TrimRun \/ TrimHalve \/ TrimWrite \/ TrimStop
    \/ StartDet \/ SkipDet \/ Abandoned
    \/ SkipPosition \/ SkipCandidate \/ RunCandidate \/ AbandonEntry \/ EndStage \/ EndDet
    \/ HavocStep \/ Finish

Spec == Init /\ [][Next]_vars /\ WF_vars(Next)

-----------------------------------------------------------------------------
(* Properties *)

\* What trimming keeps still takes the path the entry was calibrated with,
\* although chunks of several sizes were cut out one after the other, and the
\* file ends up with what is in memory: only a write that stops short in the
\* no_unlink loop leaves other contents, of the right length.
TrimKeeps ==
    /\ pc \in {"trim", "write", "written"} => Path(in_buf) = {}
    /\ pc = "written" => /\ file = in_buf \/ trim.short
                         /\ Len(file) = Len(in_buf)

\* Every position of every stage starts from the entry itself, although four of
\* the stages leave out_buf modified between iterations and the token stages
\* count on sorted dictionaries to restore it; and what a stage adds to
\* stage_cycles is the number of its runs, although stage_max starts as an
\* estimate that every skip corrects.
StagesExact ==
    pc = "stage" =>
        /\ at.c = 1 => out_buf = in_buf
        /\ at.i >= Positions(at.stage) => stage_cur = stage_max

\* The tokens collected in one pass over the bytes are exactly the longest
\* runs of bytes whose lowest bits gave one checksum other than exec_cksum,
\* with lengths from MIN_AUTO_EXTRA to MAX_AUTO_EXTRA; this includes the run at
\* the end of the input.
TokensAreRuns ==
    LET ck == seen.cksums
        longest == {r \in (DOMAIN ck) \X (DOMAIN ck) :
                      /\ r[1] <= r[2]
                      /\ \A k \in r[1]..r[2] : ck[k] = ck[r[1]] /\ ck[k] # exec_cksum
                      /\ r[1] > 1 => ck[r[1] - 1] # ck[r[1]]
                      /\ r[2] < Len(ck) => ck[r[2] + 1] # ck[r[1]]}
    IN  pc = "stage" /\ at.stage = "flip2" =>
            seen.tokens = {SubSeq(in_buf, r[1], r[2]) :
                              r \in {x \in longest : x[2] - x[1] + 1
                                                     \in MIN_AUTO_EXTRA..MAX_AUTO_EXTRA}}

\* After flip8 the effector map flags every byte that changes the path when it
\* is inverted, whatever the buffer held before, and its count of flags never
\* exceeds the size of the map.
EffectorsFlagged ==
    pc = "stage" /\ at.stage \in {Stages[k] : k \in 5..Len(Stages)} =>
        /\ \A p \in 0..(Len(in_buf) - 1) :
              Path(FlipBytes(in_buf, p, 1)) # {} => Flagged(EFF_APOS(p))
        /\ eff_cnt <= EFF_ALEN(Len(in_buf))

\* A change of adjacent bits across two bytes of a little-endian word, which
\* could_be_bitflip takes for a walking bit although FLIP_BIT walks from the
\* other end of each byte.
AcrossBytes(b) ==
    \E i \in 0..(Len(in_buf) - 2) :
        LET diff == Xor(Word(in_buf, i, 2), Word(b, i, 2), 2)
        IN  /\ \A k \in DOMAIN b : k - 1 \notin {i, i + 1} => b[k] = in_buf[k]
            /\ \E n \in {2, 4} : \E sh \in 0..(2 * BITS - n) :
                  diff = sh..(sh + n - 1) /\ sh < BITS /\ sh + n > BITS

\* What the arithmetic and integer stages leave out as a repetition was run by
\* some stage before the current one is over, unless all the bytes it changes
\* are without effect, or it is the change across two bytes above, or no_arith
\* left out the stages in which it would have been run.
SkippedWasRun ==
    pc = "stage" /\ at.i >= Positions(at.stage) /\ ~no_arith =>
        \A b \in missed \ {in_buf} :
            \/ \A k \in DOMAIN b : b[k] # in_buf[k] => ~Flagged(EFF_APOS(k - 1))
            \/ AcrossBytes(b)

\* A token that fits and is not there already is written over every byte that
\* changes the path when it is inverted: the token stages leave it out only "if
\* its entire span has no bytes set in the effector map".
TokensReachEffects ==
    InStage /\ Shape[at.stage].kind = "over" =>
        LET t == Tokens(at.stage)[at.c]
        IN  /\ Len(t) <= Len(in_buf) - at.i
            /\ SubSeq(out_buf, at.i + 1, at.i + Len(t)) # t
            /\ \E p \in at.i..(at.i + Len(t) - 1) : Path(FlipBytes(in_buf, p, 1)) # {}
            => Runs(at.stage, at.i, at.c, Orig)

\* fuzz_one returns: trimming, the stages whose length doubles with every find
\* and the retries of splicing come to an end.
FuzzOneEnds == <>(pc = "done")
=============================================================================
