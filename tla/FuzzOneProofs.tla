----------------------------- MODULE FuzzOneProofs ----------------------------
(***************************************************************************)
(* Proofs about Havoc and FuzzOne: havoc and splicing keep out_buf within  *)
(* its limits and every access within its buffers, for all block sizes,    *)
(* dictionaries, partners and scores; trimming keeps what it should; every *)
(* position of the deterministic stages starts from the entry; the         *)
(* effector map flags what flip8 shows; and the tokens of the first stage  *)
(* are the runs of bytes with one checksum.                                *)
(***************************************************************************)
EXTENDS FuzzOne, TLAPS, FiniteSetTheorems, WellFoundedInduction

\* The invariant: lengths of entries are legal from the start of the stage,
\* and out_buf is large enough whenever a stack of tweaks is under way.
HInv ==
    /\ outside = FALSE
    /\ out \in Nat /\ out_scratch \in Nat
    /\ hpc \in {"idle", "enter", "tweak", "splice", "over"}
    /\ hpc # "idle" => q_len \in 1..MAX_FILE /\ len \in 1..MAX_FILE
    /\ hpc = "enter" => len <= out
    /\ hpc = "tweak" => temp_len \in 1..MAX_FILE /\ temp_len <= out

\* The constants, one by one.
LEMMA Constants ==
    /\ HAVOC_BLK_SMALL \in Nat /\ HAVOC_BLK_SMALL > 0
    /\ HAVOC_BLK_MEDIUM \in Nat /\ HAVOC_BLK_LARGE \in Nat /\ HAVOC_BLK_XL \in Nat
    /\ MAX_FILE \in Nat
    /\ HAVOC_BLK_SMALL <= HAVOC_BLK_MEDIUM /\ HAVOC_BLK_MEDIUM <= HAVOC_BLK_LARGE
    /\ HAVOC_BLK_LARGE <= HAVOC_BLK_XL /\ HAVOC_BLK_XL < MAX_FILE
  BY HavocAssumption DEF HavocAssumption

\* rand_below returns a number below its limit, and zero for a limit of zero.
LEMMA RandBelow ==
    ASSUME NEW n \in Int, NEW r \in rand_below(n)
    PROVE  r \in Nat /\ (n > 0 => r < n)
  BY DEF rand_below

\* A block length is at least 1 and at most the limit and HAVOC_BLK_XL.
LEMMA BlockLen ==
    ASSUME NEW limit \in Nat, limit > 0, NEW n \in choose_block_len(limit)
    PROVE  n \in Nat /\ n >= 1 /\ n <= limit /\ n <= HAVOC_BLK_XL
<1> DEFINE Classes == {<<1, HAVOC_BLK_SMALL>>, <<HAVOC_BLK_SMALL, HAVOC_BLK_MEDIUM>>,
                       <<HAVOC_BLK_MEDIUM, HAVOC_BLK_LARGE>>, <<HAVOC_BLK_LARGE, HAVOC_BLK_XL>>}
           Low(class) == IF class[1] >= limit THEN 1 ELSE class[1]
<1>1. PICK class \in Classes :
          \E r \in rand_below(Lesser(class[2], limit) - Low(class) + 1) : n = Low(class) + r
  BY DEF choose_block_len
<1>r. PICK r \in rand_below(Lesser(class[2], limit) - Low(class) + 1) : n = Low(class) + r
  BY <1>1
<1>2. /\ class[1] \in Nat /\ class[1] >= 1
      /\ class[2] \in Nat /\ class[1] <= class[2] /\ class[2] <= HAVOC_BLK_XL
  BY Constants
<1>3. /\ Low(class) \in Nat /\ Low(class) >= 1 /\ Low(class) <= limit /\ Low(class) <= class[2]
  BY <1>2
<1>4. /\ Lesser(class[2], limit) \in Nat
      /\ Low(class) <= Lesser(class[2], limit)
      /\ Lesser(class[2], limit) <= limit /\ Lesser(class[2], limit) <= class[2]
  BY <1>2, <1>3 DEF Lesser
<1> HIDE DEF Low
<1>5. r \in Nat /\ r < Lesser(class[2], limit) - Low(class) + 1
  BY <1>3, <1>4, RandBelow
<1> QED BY <1>r, <1>2, <1>3, <1>4, <1>5, Constants

\* A reallocated buffer holds what was asked for and never shrinks.
LEMMA Realloc ==
    ASSUME NEW size \in Nat, NEW n \in Nat
    PROVE  afl_realloc(size, n) \in Nat /\ afl_realloc(size, n) >= n /\ afl_realloc(size, n) >= size
  BY DEF afl_realloc, Greater

\* A tweak that fits, and that leaves a legal length and enough room.
LEMMA TweakedFits ==
    ASSUME HInv,
           NEW length \in Nat, NEW fits \in BOOLEAN, NEW size \in Nat, NEW scratch \in Nat,
           Tweaked(length, fits, size, scratch),
           fits, length \in 1..MAX_FILE, length <= size
    PROVE  HInv'
  BY DEF HInv, Tweaked

\* An insertion of n bytes of a legal block at a legal place.
LEMMA InsertedFits ==
    ASSUME HInv, hpc = "tweak",
           NEW from \in Nat, NEW n \in Nat, NEW size \in Nat, NEW to \in Nat, NEW scratch \in Nat,
           Inserted(from, n, size, to, scratch),
           from + n <= size, to <= temp_len,
           temp_len + n <= MAX_FILE, temp_len + n <= scratch
    PROVE  HInv'
<1> DEFINE fits == /\ Within(from, n, size)
                   /\ Within(0, to, temp_len) /\ Within(to, temp_len - to, temp_len)
                   /\ Within(0, temp_len + n, scratch)
<1>1. temp_len \in Nat /\ temp_len >= 1 /\ out \in Nat /\ MAX_FILE \in Nat
  BY Constants DEF HInv
<1>2. fits
  BY <1>1 DEF Within
<1>3. Tweaked(temp_len + n, fits, scratch, out)
  BY DEF Inserted
<1>4. temp_len + n \in 1..MAX_FILE /\ fits \in BOOLEAN
  BY <1>1 DEF Within
<1> HIDE DEF fits
<1>5. /\ outside' = FALSE /\ hpc' = hpc /\ q_len' = q_len /\ len' = len
      /\ temp_len' = temp_len + n /\ out' = scratch /\ out_scratch' = out
  BY <1>2, <1>3 DEF Tweaked, HInv
<1> QED BY <1>1, <1>4, <1>5 DEF HInv

\* A tweak in place.
LEMMA InPlaceFits ==
    ASSUME HInv, hpc = "tweak", NEW fits \in BOOLEAN, InPlace(fits), fits
    PROVE  HInv'
<1>1. temp_len \in Nat /\ temp_len \in 1..MAX_FILE /\ temp_len <= out /\ out \in Nat /\ out_scratch \in Nat
  BY Constants DEF HInv
<1> QED BY <1>1, TweakedFits DEF InPlace

\* Every kind of tweak keeps the invariant.
LEMMA TweakStep == HInv /\ Tweak => HInv'
<1> SUFFICES ASSUME HInv, Tweak PROVE HInv'
  OBVIOUS
<1>0. hpc = "tweak"
  BY DEF Tweak, SetBytes, CloneBlock, InsertConstant, OverwriteBlock, DeleteBlock,
         OverwriteExtra, InsertExtra, SpliceTweak, Inserted, InPlace, Tweaked
<1>t. /\ temp_len \in Nat /\ temp_len >= 1 /\ temp_len <= MAX_FILE /\ temp_len <= out
      /\ out \in Nat /\ out_scratch \in Nat /\ MAX_FILE \in Nat
  BY <1>0, Constants DEF HInv
<1>nop. ASSUME InPlace(TRUE) PROVE HInv'
  BY <1>0, <1>nop, InPlaceFits
<1>1. CASE SetBytes
  <2>1. PICK w \in {1, 2, 4} :
            \/ temp_len < w /\ InPlace(TRUE)
            \/ /\ w = 1 \/ temp_len >= w
               /\ \E pos \in rand_below(temp_len - w + 1) : InPlace(Within(pos, w, temp_len))
    BY <1>1 DEF SetBytes
  <2>2. CASE InPlace(TRUE)
    BY <2>2, <1>nop
  <2>3. ASSUME w = 1 \/ temp_len >= w,
               NEW pos \in rand_below(temp_len - w + 1), InPlace(Within(pos, w, temp_len))
        PROVE  HInv'
    <3>1. temp_len - w + 1 \in Int /\ temp_len - w + 1 > 0
      BY <1>t, <2>3
    <3>2. pos \in Nat /\ pos < temp_len - w + 1
      BY <3>1, RandBelow
    <3>3. Within(pos, w, temp_len) /\ Within(pos, w, temp_len) \in BOOLEAN
      BY <1>t, <3>2 DEF Within
    <3> QED BY <1>0, <2>3, <3>3, InPlaceFits
  <2> QED BY <2>1, <2>2, <2>3
<1>2. CASE CloneBlock
  <2>1. CASE InPlace(TRUE)
    BY <2>1, <1>nop
  <2>2. ASSUME temp_len + HAVOC_BLK_XL < MAX_FILE,
               NEW n \in choose_block_len(temp_len),
               NEW from \in rand_below(temp_len - n + 1), NEW to \in rand_below(temp_len),
               Inserted(from, n, temp_len, to, afl_realloc(out_scratch, temp_len + n))
        PROVE  HInv'
    <3>1. n \in Nat /\ n >= 1 /\ n <= temp_len /\ n <= HAVOC_BLK_XL
      BY <1>t, BlockLen
    <3>2. from \in Nat /\ from < temp_len - n + 1 /\ to \in Nat /\ to < temp_len
      BY <1>t, <3>1, RandBelow
    <3>3. /\ afl_realloc(out_scratch, temp_len + n) \in Nat
          /\ temp_len + n <= afl_realloc(out_scratch, temp_len + n)
      <4>1. temp_len + n \in Nat
        BY <1>t, <3>1
      <4>2. afl_realloc(out_scratch, temp_len + n) \in Nat /\ afl_realloc(out_scratch, temp_len + n) >= temp_len + n
        BY <1>t, <4>1, Realloc
      <4> QED BY <4>1, <4>2
    <3>4. from + n <= temp_len /\ to <= temp_len /\ temp_len + n <= MAX_FILE
      BY <1>t, <2>2, <3>1, <3>2, Constants
    <3> QED BY <1>0, <1>t, <2>2, <3>1, <3>2, <3>3, <3>4, InsertedFits
  <2> QED BY <1>2, <2>1, <2>2 DEF CloneBlock
<1>3. CASE InsertConstant
  <2>1. CASE InPlace(TRUE)
    BY <2>1, <1>nop
  <2>2. ASSUME temp_len + HAVOC_BLK_XL < MAX_FILE,
               NEW n \in choose_block_len(HAVOC_BLK_XL), NEW to \in rand_below(temp_len),
               Inserted(0, n, n, to, afl_realloc(out_scratch, temp_len + n))
        PROVE  HInv'
    <3>1. n \in Nat /\ n >= 1 /\ n <= HAVOC_BLK_XL
      BY Constants, BlockLen
    <3>2. to \in Nat /\ to < temp_len
      BY <1>t, RandBelow
    <3>3. /\ afl_realloc(out_scratch, temp_len + n) \in Nat
          /\ temp_len + n <= afl_realloc(out_scratch, temp_len + n)
      <4>1. temp_len + n \in Nat
        BY <1>t, <3>1
      <4>2. afl_realloc(out_scratch, temp_len + n) \in Nat /\ afl_realloc(out_scratch, temp_len + n) >= temp_len + n
        BY <1>t, <4>1, Realloc
      <4> QED BY <4>1, <4>2
    <3>4. 0 + n <= n /\ to <= temp_len /\ temp_len + n <= MAX_FILE
      BY <1>t, <2>2, <3>1, <3>2, Constants
    <3> QED BY <1>0, <1>t, <2>2, <3>1, <3>2, <3>3, <3>4, InsertedFits
  <2> QED BY <1>3, <2>1, <2>2 DEF InsertConstant
<1>4. CASE OverwriteBlock
  <2>1. CASE InPlace(TRUE)
    BY <2>1, <1>nop
  <2>2. ASSUME temp_len >= 2, NEW n \in choose_block_len(temp_len - 1),
               NEW from \in rand_below(temp_len - n + 1), NEW to \in rand_below(temp_len - n + 1),
               InPlace(Within(from, n, temp_len) /\ Within(to, n, temp_len))
        PROVE  HInv'
    <3>1. n \in Nat /\ n >= 1 /\ n <= temp_len - 1
      BY <1>t, <2>2, BlockLen
    <3>2. /\ from \in Nat /\ from < temp_len - n + 1
          /\ to \in Nat /\ to < temp_len - n + 1
      BY <1>t, <3>1, RandBelow
    <3>3. Within(from, n, temp_len) /\ Within(to, n, temp_len)
      BY <1>t, <3>1, <3>2 DEF Within
    <3> QED BY <1>0, <2>2, <3>3, InPlaceFits
  <2> QED BY <1>4, <2>1, <2>2 DEF OverwriteBlock
<1>5. CASE DeleteBlock
  <2>1. CASE InPlace(TRUE)
    BY <2>1, <1>nop
  <2>2. ASSUME temp_len >= 2, NEW n \in choose_block_len(temp_len - 1),
               NEW from \in rand_below(temp_len - n + 1),
               Tweaked(temp_len - n, Within(from + n, temp_len - from - n, temp_len), out, out_scratch)
        PROVE  HInv'
    <3>1. n \in Nat /\ n >= 1 /\ n <= temp_len - 1
      BY <1>t, <2>2, BlockLen
    <3>2. from \in Nat /\ from < temp_len - n + 1
      BY <1>t, <3>1, RandBelow
    <3>3. Within(from + n, temp_len - from - n, temp_len)
      BY <1>t, <3>1, <3>2 DEF Within
    <3>4. temp_len - n \in Nat /\ temp_len - n \in 1..MAX_FILE /\ temp_len - n <= out
      BY <1>t, <3>1
    <3> QED BY <1>t, <2>2, <3>3, <3>4, TweakedFits
  <2> QED BY <1>5, <2>1, <2>2 DEF DeleteBlock
<1>6. CASE OverwriteExtra
  <2>1. CASE InPlace(TRUE)
    BY <2>1, <1>nop
  <2>2. ASSUME NEW n \in ExtraLens, n <= temp_len,
               NEW pos \in rand_below(temp_len - n + 1), InPlace(Within(pos, n, temp_len))
        PROVE  HInv'
    <3>1. n \in Nat /\ pos \in Nat /\ pos < temp_len - n + 1
      <4>1. n \in Nat BY HavocAssumption DEF HavocAssumption
      <4> QED BY <4>1, <1>t, <2>2, RandBelow
    <3>2. Within(pos, n, temp_len)
      BY <1>t, <3>1 DEF Within
    <3> QED BY <1>0, <2>2, <3>2, InPlaceFits
  <2> QED BY <1>6, <2>1, <2>2 DEF OverwriteExtra
<1>7. CASE InsertExtra
  <2>1. CASE InPlace(TRUE)
    BY <2>1, <1>nop
  <2>2. ASSUME NEW n \in ExtraLens, temp_len + n < MAX_FILE, NEW pos \in rand_below(temp_len + 1),
               Tweaked(temp_len + n,
                       /\ Within(pos, temp_len - pos, temp_len)
                       /\ Within(pos + n, temp_len - pos, afl_realloc(out, temp_len + n))
                       /\ Within(pos, n, afl_realloc(out, temp_len + n)),
                       afl_realloc(out, temp_len + n), out_scratch)
        PROVE  HInv'
    <3>1. n \in Nat /\ pos \in Nat /\ pos < temp_len + 1
      <4>1. n \in Nat BY HavocAssumption DEF HavocAssumption
      <4> QED BY <4>1, <1>t, <2>2, RandBelow
    <3>2. /\ afl_realloc(out, temp_len + n) \in Nat
          /\ temp_len + n <= afl_realloc(out, temp_len + n)
      <4>1. temp_len + n \in Nat
        BY <1>t, <3>1
      <4>2. afl_realloc(out, temp_len + n) \in Nat /\ afl_realloc(out, temp_len + n) >= temp_len + n
        BY <1>t, <4>1, Realloc
      <4> QED BY <4>1, <4>2
    <3>3. /\ Within(pos, temp_len - pos, temp_len)
          /\ Within(pos + n, temp_len - pos, afl_realloc(out, temp_len + n))
          /\ Within(pos, n, afl_realloc(out, temp_len + n))
      BY <1>t, <3>1, <3>2 DEF Within
    <3>4. temp_len + n \in Nat /\ temp_len + n \in 1..MAX_FILE
      BY <1>t, <2>2, <3>1
    <3> QED BY <1>t, <2>2, <3>2, <3>3, <3>4, TweakedFits
  <2> QED BY <1>7, <2>1, <2>2 DEF InsertExtra
<1>8. CASE SpliceTweak
  <2>0. PICK new_len \in PartnerLens :
        \/ /\ temp_len >= 2 \/ temp_len + HAVOC_BLK_XL >= MAX_FILE
           /\ \E b \in choose_block_len(new_len - 1) :
              \E from \in rand_below(new_len - Lesser(b, temp_len) + 1),
                 to \in rand_below(temp_len - Lesser(b, temp_len) + 1) :
                 InPlace(Within(from, Lesser(b, temp_len), new_len)
                           /\ Within(to, Lesser(b, temp_len), temp_len))
        \/ /\ temp_len + HAVOC_BLK_XL < MAX_FILE
           /\ \E n \in choose_block_len(new_len) :
              \E from \in rand_below(new_len - n + 1), to \in rand_below(temp_len + 1) :
                 Inserted(from, n, new_len, to, afl_realloc(out_scratch, temp_len + n + 1))
    BY <1>8 DEF SpliceTweak
  <2>1. new_len \in Nat /\ new_len >= 4
    BY HavocAssumption DEF HavocAssumption
  <2>2. ASSUME NEW b \in choose_block_len(new_len - 1),
               NEW from \in rand_below(new_len - Lesser(b, temp_len) + 1),
               NEW to \in rand_below(temp_len - Lesser(b, temp_len) + 1),
               InPlace(Within(from, Lesser(b, temp_len), new_len)
                         /\ Within(to, Lesser(b, temp_len), temp_len))
        PROVE  HInv'
    <3>1. b \in Nat /\ b >= 1 /\ b <= new_len - 1
      BY <2>1, BlockLen
    <3>2. /\ Lesser(b, temp_len) \in Nat /\ Lesser(b, temp_len) <= temp_len
          /\ Lesser(b, temp_len) <= new_len
      BY <1>t, <2>1, <3>1 DEF Lesser
    <3>3. /\ from \in Nat /\ from < new_len - Lesser(b, temp_len) + 1
          /\ to \in Nat /\ to < temp_len - Lesser(b, temp_len) + 1
      BY <1>t, <2>1, <3>2, RandBelow
    <3>4. Within(from, Lesser(b, temp_len), new_len) /\ Within(to, Lesser(b, temp_len), temp_len)
      BY <1>t, <2>1, <3>2, <3>3 DEF Within
    <3> QED BY <1>0, <2>2, <3>4, InPlaceFits
  <2>3. ASSUME temp_len + HAVOC_BLK_XL < MAX_FILE, NEW n \in choose_block_len(new_len),
               NEW from \in rand_below(new_len - n + 1), NEW to \in rand_below(temp_len + 1),
               Inserted(from, n, new_len, to, afl_realloc(out_scratch, temp_len + n + 1))
        PROVE  HInv'
    <3>1. n \in Nat /\ n >= 1 /\ n <= new_len /\ n <= HAVOC_BLK_XL
      BY <2>1, BlockLen
    <3>2. from \in Nat /\ from < new_len - n + 1 /\ to \in Nat /\ to < temp_len + 1
      BY <1>t, <2>1, <3>1, RandBelow
    <3>3. /\ afl_realloc(out_scratch, temp_len + n + 1) \in Nat
          /\ temp_len + n <= afl_realloc(out_scratch, temp_len + n + 1)
      <4>1. temp_len + n + 1 \in Nat
        BY <1>t, <3>1
      <4>2. /\ afl_realloc(out_scratch, temp_len + n + 1) \in Nat
            /\ afl_realloc(out_scratch, temp_len + n + 1) >= temp_len + n + 1
        BY <1>t, <4>1, Realloc
      <4> QED BY <1>t, <3>1, <4>2
    <3>4. from + n <= new_len /\ to <= temp_len /\ temp_len + n <= MAX_FILE
      BY <1>t, <2>1, <2>3, <3>1, <3>2, Constants
    <3> QED BY <1>0, <1>t, <2>1, <2>3, <3>1, <3>2, <3>3, <3>4, InsertedFits
  <2> QED BY <2>0, <2>2, <2>3
<1> QED BY <1>1, <1>2, <1>3, <1>4, <1>5, <1>6, <1>7, <1>8 DEF Tweak

\* Entering the stage: a stack of tweaks starts on out_buf, which holds in_buf.
LEMMA EnterStep == HInv /\ Enter => HInv'
  BY DEF HInv, Enter

\* The run after a stack restores out_buf, and makes it large enough first.
LEMMA RunStep == HInv /\ HavocRun => HInv'
<1> SUFFICES ASSUME HInv, HavocRun PROVE HInv'
  OBVIOUS
<1>1. len \in Nat /\ len \in 1..MAX_FILE /\ q_len \in 1..MAX_FILE /\ out \in Nat /\ out_scratch \in Nat
  BY Constants DEF HInv, HavocRun
<1>2. out' \in Nat /\ out' >= len
  BY <1>1, Realloc DEF HavocRun
<1>3. Within(0, len, out')
  BY <1>1, <1>2 DEF Within
<1>4. outside' = FALSE
  BY <1>3 DEF HavocRun, HInv
<1>5. hpc' \in {"tweak", "splice"} /\ temp_len' = len /\ len' = len /\ q_len' = q_len /\ out_scratch' = out_scratch
  BY DEF HavocRun
<1> QED BY <1>1, <1>2, <1>4, <1>5 DEF HInv

\* A splicing round splits both inputs inside of the part they share, and
\* makes room for the whole of the partner.
LEMMA SpliceStep == HInv /\ SpliceRound => HInv'
<1> SUFFICES ASSUME HInv, SpliceRound PROVE HInv'
  OBVIOUS
<1>1. /\ q_len \in Nat /\ q_len \in 1..MAX_FILE /\ q_len >= 4 /\ out \in Nat /\ out_scratch \in Nat
      /\ q_len' = q_len /\ out_scratch' = out_scratch
  BY Constants DEF HInv, SpliceRound
<1>2. CASE hpc' = "splice" /\ len' = q_len /\ out' = out /\ outside' = outside
  BY <1>1, <1>2 DEF HInv
<1>3. ASSUME NEW new_len \in PartnerLens,
             NEW f_diff \in 0..(Lesser(q_len, new_len) - 1),
             NEW l_diff \in Greater(f_diff + 1, 2)..(Lesser(q_len, new_len) - 1),
             NEW r \in rand_below(l_diff - f_diff),
             outside' = (\/ outside
                         \/ ~Within(0, f_diff + r, q_len)
                         \/ ~Within(0, new_len - (f_diff + r), new_len)),
             len' = new_len, out' = afl_realloc(out, new_len), hpc' = "enter"
      PROVE  HInv'
  <2>1. new_len \in Nat /\ new_len >= 4 /\ new_len \in 1..MAX_FILE
    BY Constants, HavocAssumption DEF HavocAssumption
  <2>2. /\ Lesser(q_len, new_len) \in Nat
        /\ Lesser(q_len, new_len) <= q_len /\ Lesser(q_len, new_len) <= new_len
    BY <1>1, <2>1 DEF Lesser
  <2>3. f_diff \in Nat /\ l_diff \in Nat /\ f_diff < l_diff /\ l_diff < Lesser(q_len, new_len)
    BY <2>2 DEF Greater
  <2>4. l_diff - f_diff \in Int /\ l_diff - f_diff > 0
    BY <2>3
  <2>5. r \in Nat /\ r < l_diff - f_diff
    BY <2>4, RandBelow
  <2>6. Within(0, f_diff + r, q_len) /\ Within(0, new_len - (f_diff + r), new_len)
    BY <1>1, <2>1, <2>2, <2>3, <2>5 DEF Within
  <2>7. outside' = FALSE
    BY <1>3, <2>6 DEF HInv
  <2>8. out' \in Nat /\ out' >= new_len
    BY <1>1, <1>3, <2>1, Realloc
  <2> QED BY <1>1, <1>3, <2>1, <2>7, <2>8 DEF HInv
<1> QED BY <1>2, <1>3 DEF SpliceRound

\* The stage starts on an entry of legal length, which out_buf is made to hold.
LEMMA StartStep ==
    ASSUME HInv, NEW n \in 1..MAX_FILE, NEW score, NEW det, HavocStart(n, score, det)
    PROVE  HInv'
<1>1. n \in Nat /\ out \in Nat /\ out_scratch \in Nat /\ outside = FALSE
  BY Constants DEF HInv
<1>2. out' \in Nat /\ out' >= n
  BY <1>1, Realloc DEF HavocStart
<1> QED BY <1>1, <1>2 DEF HavocStart, HInv

\* Havoc and splicing stay within their buffers: for every choice of the block
\* sizes, dictionaries, partners, scores and limits, however the tweaks of
\* a stack follow each other, out_buf holds between 1 and MAX_FILE bytes, fits
\* its allocation, and no copy reads or writes outside of its buffers.
THEOREM HavocStaysInBounds == HSpec => []HavocInBounds
<1>1. HInit => HInv
  BY DEF HInit, HInv
<1>2. HInv /\ [HNext \/ \E n \in 1..MAX_FILE, score \in Nat \ {0}, det \in BOOLEAN :
                          HavocStart(n, score, det)]_hvars => HInv'
  <2> SUFFICES ASSUME HInv,
                      [HNext \/ \E n \in 1..MAX_FILE, score \in Nat \ {0}, det \in BOOLEAN :
                                  HavocStart(n, score, det)]_hvars
               PROVE  HInv'
    OBVIOUS
  <2>1. CASE Enter
    BY <2>1, EnterStep
  <2>2. CASE Tweak
    BY <2>2, TweakStep
  <2>3. CASE HavocAbandon
    BY <2>3 DEF HavocAbandon, HInv
  <2>4. CASE HavocRun
    BY <2>4, RunStep
  <2>5. CASE SpliceOver
    BY <2>5 DEF SpliceOver, HInv
  <2>6. CASE SpliceRound
    BY <2>6, SpliceStep
  <2>7. ASSUME NEW n \in 1..MAX_FILE, NEW score \in Nat \ {0}, NEW det \in BOOLEAN,
               HavocStart(n, score, det)
        PROVE  HInv'
    BY <2>7, StartStep
  <2>8. CASE UNCHANGED hvars
    BY <2>8 DEF hvars, HInv
  <2> QED BY <2>1, <2>2, <2>3, <2>4, <2>5, <2>6, <2>7, <2>8 DEF HNext
<1>3. HInv => HavocInBounds
  BY DEF HInv, HavocInBounds
<1> QED BY <1>1, <1>2, <1>3, PTL DEF HSpec
-----------------------------------------------------------------------------
(* The whole of fuzz_one.  Trimming never takes the first chunk, so it leaves *)
(* a byte, and what havoc is started on has a legal length.                   *)
Trim == [len : Nat \ {0}, pos : Nat \ {0}, dirty : BOOLEAN, short : BOOLEAN]

EntryOk ==
    /\ pc \in {"trim", "write", "written", "stage", "havoc", "done"}
    /\ pc \notin {"havoc", "done"} => in_buf \in Seq(Byte) /\ Len(in_buf) \in 1..MAX_FILE
    /\ pc \in {"trim", "write"} => trim \in Trim

\* Until the file is written it is the entry in memory, unless that is dirty.
TrimInv ==
    /\ TrimKeeps
    /\ pc \in {"trim", "write"} => trim.dirty \/ file = in_buf

\* Cutting n bytes at pos.
LEMMA WithoutLen ==
    ASSUME NEW b \in Seq(Byte), NEW pos \in Nat, NEW n \in Nat, pos + n <= Len(b)
    PROVE  Without(b, pos, n) \in Seq(Byte) /\ Len(Without(b, pos, n)) = Len(b) - n
<1> DEFINE head == SubSeq(b, 1, pos)
           tail == SubSeq(b, pos + n + 1, Len(b))
<1>1. Len(b) \in Nat
  OBVIOUS
<1>2. head \in Seq(Byte) /\ Len(head) = pos
  BY <1>1
<1>3. tail \in Seq(Byte) /\ Len(tail) = Len(b) - (pos + n)
  BY <1>1
<1> HIDE DEF head, tail
<1>4. head \o tail \in Seq(Byte) /\ Len(head \o tail) = pos + (Len(b) - (pos + n))
  BY <1>2, <1>3
<1>5. Without(b, pos, n) = head \o tail
  BY DEF Without, head, tail
<1>6. pos + (Len(b) - (pos + n)) = Len(b) - n
  BY <1>1
<1> QED BY <1>4, <1>5, <1>6

\* The chunk cut out is what is left at its place, and not the whole entry.
LEMMA CutLen ==
    ASSUME EntryOk, pc = "trim", trim.pos < Len(in_buf), NEW n,
           n = Lesser(trim.len, Len(in_buf) - trim.pos)
    PROVE  /\ Without(in_buf, trim.pos, n) \in Seq(Byte)
           /\ Len(Without(in_buf, trim.pos, n)) \in 1..MAX_FILE
<1>1. /\ in_buf \in Seq(Byte) /\ Len(in_buf) \in Nat /\ Len(in_buf) <= MAX_FILE
      /\ trim.len \in Nat \ {0} /\ trim.pos \in Nat \ {0} /\ MAX_FILE \in Nat
  BY Constants DEF EntryOk, Trim
<1>2. n \in Nat /\ trim.pos + n <= Len(in_buf)
  BY <1>1 DEF Lesser
<1>3. /\ Without(in_buf, trim.pos, n) \in Seq(Byte)
      /\ Len(Without(in_buf, trim.pos, n)) = Len(in_buf) - n
  BY <1>1, <1>2, WithoutLen
<1> QED BY <1>1, <1>2, <1>3

\* The shortest chunk has at least one byte.
LEMMA FloorPositive ==
    ASSUME NEW n \in Nat, NEW steps \in Nat \ {0}, NEW f \in TrimFloor(n, steps)
    PROVE  f \in Nat \ {0}
<1>1. TRIM_MIN_BYTES \in Nat \ {0}
  BY FuzzOneAssumption DEF FuzzOneAssumption
<1>2. PICK p \in n..(2 * n - 1) : f = Greater(p \div steps, TRIM_MIN_BYTES)
  BY DEF TrimFloor, next_pow2
<1>3. p \div steps \in Int
  BY <1>2
<1> QED BY <1>1, <1>2, <1>3 DEF Greater

\* At the start the entry has a legal length and trimming is behind its first chunk.
LEMMA InitOk == ASSUME Init PROVE EntryOk /\ HInv /\ TrimInv
<1>1. HInv
  BY DEF Init, HInit, HInv
<1>2. seed \in Seq(Byte) /\ Len(seed) \in 1..MAX_FILE
  BY FuzzOneAssumption DEF Init, FuzzOneAssumption
<1>3. in_buf = seed /\ file = seed /\ pc \in {"trim", "written"}
  BY DEF Init
<1>4. ASSUME pc = "trim" PROVE trim \in Trim
  <2>1. PICK n \in TrimFloor(Len(seed), TRIM_START_STEPS) :
            trim = [NoTrim EXCEPT !.len = n, !.pos = n]
    BY <1>4 DEF Init
  <2>2. n \in Nat \ {0}
    <3>1. Len(seed) \in Nat /\ TRIM_START_STEPS \in Nat \ {0}
      BY <1>2, FuzzOneAssumption DEF FuzzOneAssumption
    <3> QED BY <3>1, FloorPositive
  <2> QED BY <2>1, <2>2 DEF NoTrim, Trim
<1>5. EntryOk
  BY <1>2, <1>3, <1>4 DEF EntryOk
<1>6. Path(in_buf) = {}
  <2>1. \A g \in DOMAIN target.groups : target.groups[g] \subseteq 0..(Len(seed) - 1)
    BY DEF Init
  <2>2. Len(seed) \in Nat
    BY <1>2
  <2> QED BY <1>3, <2>1, <2>2 DEF Path
<1> QED BY <1>1, <1>3, <1>5, <1>6 DEF TrimInv, TrimKeeps

\* The steps of trimming.
LEMMA TrimRunOk == ASSUME EntryOk, TrimRun PROVE EntryOk'
<1> DEFINE avail == Lesser(trim.len, Len(in_buf) - trim.pos)
<1>1. pc = "trim" /\ trim.pos < Len(in_buf) /\ pc' = pc /\ trim \in Trim
  BY DEF TrimRun, EntryOk
<1>2. CASE in_buf' = Without(in_buf, trim.pos, avail) /\ trim' = [trim EXCEPT !.dirty = TRUE]
  <2>1. in_buf' \in Seq(Byte) /\ Len(in_buf') \in 1..MAX_FILE
    BY <1>1, <1>2, CutLen
  <2>2. trim' \in Trim
    BY <1>1, <1>2 DEF Trim
  <2> QED BY <1>1, <2>1, <2>2 DEF EntryOk
<1>3. CASE UNCHANGED in_buf /\ trim' = [trim EXCEPT !.pos = @ + trim.len]
  <2>1. trim.pos + trim.len \in Nat \ {0}
    BY <1>1 DEF Trim
  <2>2. trim' \in Trim
    BY <1>1, <1>3, <2>1 DEF Trim
  <2> QED BY <1>1, <1>3, <2>2 DEF EntryOk
<1> QED BY <1>2, <1>3 DEF TrimRun

\* A round of trimming that is over leaves the entry and a chunk of at least one byte.
LEMMA TrimHalveOk == ASSUME EntryOk, TrimHalve PROVE EntryOk'
<1>1. pc = "trim" /\ UNCHANGED in_buf /\ trim \in Trim
  BY DEF TrimHalve, EntryOk
<1>2. PICK least \in TrimFloor(Len(in_buf), TRIM_END_STEPS) :
          IF trim.len \div 2 >= least
          THEN /\ trim' = [trim EXCEPT !.len = trim.len \div 2, !.pos = trim.len \div 2]
               /\ UNCHANGED pc
          ELSE pc' = "write" /\ UNCHANGED trim
  BY DEF TrimHalve
<1>3. least \in Nat \ {0}
  <2>1. Len(in_buf) \in Nat /\ TRIM_END_STEPS \in Nat \ {0}
    BY <1>1, FuzzOneAssumption DEF EntryOk, FuzzOneAssumption
  <2> QED BY <2>1, FloorPositive
<1>4. trim.len \div 2 \in Int
  BY <1>1 DEF Trim
<1>5. trim' \in Trim /\ pc' \in {"trim", "write"}
  <2>1. CASE trim.len \div 2 >= least
    <3>1. trim.len \div 2 \in Nat \ {0}
      BY <1>3, <1>4, <2>1
    <3> QED BY <1>1, <1>2, <2>1, <3>1 DEF Trim
  <2>2. CASE ~(trim.len \div 2 >= least)
    BY <1>1, <1>2, <2>2
  <2> QED BY <2>1, <2>2
<1> QED BY <1>1, <1>5 DEF EntryOk

\* Steps of trimming and of the stages leave the buffers of havoc alone.
LEMMA QuietHavoc ==
    ASSUME HInv, UNCHANGED <<hpc, q_len, len, temp_len, out, out_scratch, outside>>
    PROVE  HInv'
  BY DEF HInv

\* Every step of fuzz_one keeps the length of the entry and the buffers of havoc legal.
LEMMA FuzzOneStep == ASSUME EntryOk, HInv, [Next]_vars PROVE EntryOk' /\ HInv'
<1>1. CASE TrimRun
  BY <1>1, TrimRunOk, QuietHavoc DEF TrimRun, hvars
<1>2. CASE TrimHalve
  BY <1>2, TrimHalveOk, QuietHavoc DEF TrimHalve, hvars
<1>3. CASE TrimWrite \/ TrimStop
  <2>1. HInv'
    BY <1>3, QuietHavoc DEF TrimWrite, TrimStop, hvars
  <2> QED BY <1>3, <2>1 DEF TrimWrite, TrimStop, EntryOk
<1>4. CASE StartDet
  <2>1. HInv'
    BY <1>4, QuietHavoc DEF StartDet, hrest
  <2> QED BY <1>4, <2>1 DEF StartDet, EntryOk
<1>5. CASE Abandoned \/ AbandonEntry
  <2>1. HInv' /\ pc' = "done"
    BY <1>5, QuietHavoc DEF Abandoned, AbandonEntry, hvars
  <2> QED BY <2>1 DEF EntryOk
<1>6. CASE SkipDet \/ EndDet
  <2>1. Len(in_buf) \in 1..MAX_FILE /\ pc' = "havoc"
    BY <1>6 DEF SkipDet, EndDet, EntryOk
  <2>2. PICK score, det : HavocStart(Len(in_buf), score, det)
    BY <1>6 DEF SkipDet, EndDet
  <2>3. HInv'
    BY <2>1, <2>2, StartStep
  <2> QED BY <2>1, <2>3 DEF EntryOk
<1>7. CASE SkipPosition \/ SkipCandidate \/ RunCandidate \/ EndStage
  <2>1. HInv'
    BY <1>7, QuietHavoc DEF SkipPosition, SkipCandidate, RunCandidate, EndStage, hrest
  <2>2. pc = "stage" /\ UNCHANGED <<pc, in_buf>>
    BY <1>7 DEF SkipPosition, SkipCandidate, RunCandidate, EndStage, InStage
  <2> QED BY <2>1, <2>2 DEF EntryOk
<1>8. CASE HavocStep
  <2>1. HInv'
    BY <1>8, EnterStep, TweakStep, RunStep, SpliceStep
       DEF HavocStep, HNext, HavocAbandon, SpliceOver, HInv
  <2> QED BY <1>8, <2>1 DEF HavocStep, fvars, EntryOk
<1>9. CASE Finish
  BY <1>9, QuietHavoc DEF Finish, hvars, EntryOk
<1>10. CASE UNCHANGED vars
  BY <1>10, QuietHavoc DEF vars, fvars, hvars, EntryOk
<1> QED
  BY <1>1, <1>2, <1>3, <1>4, <1>5, <1>6, <1>7, <1>8, <1>9, <1>10 DEF Next

\* The entry and the buffers of havoc are always legal.
LEMMA EntryInvariant == Spec => [](EntryOk /\ HInv)
<1>1. Init => EntryOk /\ HInv
  BY InitOk
<1>2. (EntryOk /\ HInv) /\ [Next]_vars => (EntryOk /\ HInv)'
  BY FuzzOneStep
<1> QED BY <1>1, <1>2, PTL DEF Spec

\* The same for a whole call of fuzz_one: whatever trimming and the deterministic
\* stages leave of the entry, havoc and splicing stay within their buffers.
THEOREM FuzzOneStaysInBounds == Spec => []HavocInBounds
<1>1. EntryOk /\ HInv => HavocInBounds
  BY DEF HInv, HavocInBounds
<1> QED BY <1>1, EntryInvariant, PTL

\* Trimming keeps the path of the entry and leaves memory and file alike, for
\* every entry, program and set of chunk sizes, when test cases are handed over in
\* files: each cut was run as it is kept, the file is made anew after a change,
\* and only the no_unlink loop may leave other contents, of the right length.
\* With shared memory write_with_gap runs another input than the one kept.
THEOREM TrimmingKeepsPath == ASSUME ~UseShmem PROVE Spec => []TrimKeeps
<1>1. Init => TrimInv
  BY InitOk
<1>2. (EntryOk /\ HInv) /\ TrimInv /\ [Next]_vars => TrimInv'
  <2> SUFFICES ASSUME EntryOk, TrimInv, [Next]_vars PROVE TrimInv'
    OBVIOUS
  <2>1. CASE TrimRun
    <3> DEFINE avail == Lesser(trim.len, Len(in_buf) - trim.pos)
    <3>1. /\ pc = "trim" /\ trim \in Trim
          /\ UNCHANGED <<pc, seed, target, file>>
      BY <2>1 DEF TrimRun, EntryOk
    <3>2. CASE Path(write_with_gap(in_buf, trim.pos, avail)) = {}
      <4>1. in_buf' = Without(in_buf, trim.pos, avail) /\ trim' = [trim EXCEPT !.dirty = TRUE]
        BY <2>1, <3>2 DEF TrimRun
      <4>2. Path(Without(in_buf, trim.pos, avail)) = {}
        BY <3>2 DEF write_with_gap
      <4>3. Path(in_buf)' = {}
        BY <3>1, <4>1, <4>2 DEF Path
      <4>4. trim'.dirty
        BY <3>1, <4>1 DEF Trim
      <4> QED BY <3>1, <4>3, <4>4 DEF TrimInv, TrimKeeps
    <3>3. CASE ~(Path(write_with_gap(in_buf, trim.pos, avail)) = {})
      <4>1. UNCHANGED in_buf /\ trim'.dirty = trim.dirty
        BY <2>1, <3>1, <3>3 DEF TrimRun, Trim
      <4>2. Path(in_buf)' = Path(in_buf)
        BY <3>1, <4>1 DEF Path
      <4> QED BY <3>1, <4>1, <4>2 DEF TrimInv, TrimKeeps
    <3> QED BY <3>2, <3>3
  <2>2. CASE TrimHalve
    <3>1. /\ pc = "trim" /\ trim \in Trim /\ pc' \in {"trim", "write"}
          /\ UNCHANGED <<seed, target, file, in_buf>>
      BY <2>2 DEF TrimHalve, EntryOk
    <3>2. trim'.dirty = trim.dirty
      BY <2>2, <3>1 DEF TrimHalve, Trim
    <3>3. Path(in_buf)' = Path(in_buf)
      BY <3>1 DEF Path
    <3> QED BY <3>1, <3>2, <3>3 DEF TrimInv, TrimKeeps
  <2>3. CASE TrimWrite
    <3>1. /\ pc = "write" /\ pc' = "written" /\ trim \in Trim /\ in_buf \in Seq(Byte)
          /\ UNCHANGED <<seed, target, in_buf>>
      BY <2>3 DEF TrimWrite, EntryOk
    <3>2. Path(in_buf)' = {}
      BY <3>1 DEF Path, TrimInv, TrimKeeps
    <3>3. file' = in_buf \/ (trim'.short /\ Len(file') = Len(in_buf))
      <4>1. CASE ~trim.dirty /\ UNCHANGED <<file, trim>>
        BY <3>1, <4>1 DEF TrimInv
      <4>2. CASE file' = in_buf
        BY <4>2
      <4>3. ASSUME NEW n \in 1..(Len(in_buf) - 1),
                   file' = SubSeq(in_buf, 1, n) \o SubSeq(in_buf, 1, Len(in_buf) - n),
                   trim' = [trim EXCEPT !.short = TRUE]
            PROVE  trim'.short /\ Len(file') = Len(in_buf)
        <5>1. Len(in_buf) \in Nat /\ n \in Nat /\ n < Len(in_buf)
          BY <3>1, <4>3
        <5>2. /\ SubSeq(in_buf, 1, n) \in Seq(Byte) /\ Len(SubSeq(in_buf, 1, n)) = n
              /\ SubSeq(in_buf, 1, Len(in_buf) - n) \in Seq(Byte)
              /\ Len(SubSeq(in_buf, 1, Len(in_buf) - n)) = Len(in_buf) - n
          BY <3>1, <5>1
        <5>3. Len(file') = n + (Len(in_buf) - n)
          BY <4>3, <5>2
        <5>4. trim'.short
          BY <3>1, <4>3 DEF Trim
        <5> QED BY <5>1, <5>3, <5>4
      <4> QED BY <2>3, <4>1, <4>2, <4>3 DEF TrimWrite
    <3> QED BY <3>1, <3>2, <3>3 DEF TrimInv, TrimKeeps
  <2>4. CASE pc' \in {"stage", "havoc", "done"}
    BY <2>4 DEF TrimInv, TrimKeeps
  <2>5. CASE UNCHANGED vars
    BY <2>5 DEF vars, fvars, TrimInv, TrimKeeps, Path
  <2>6. CASE StartDet \/ Abandoned \/ SkipDet \/ TrimStop
    BY <2>4, <2>6 DEF StartDet, Abandoned, SkipDet, TrimStop
  <2>7. CASE SkipPosition \/ SkipCandidate \/ RunCandidate \/ EndStage
    <3>1. pc' = "stage"
      BY <2>7 DEF SkipPosition, SkipCandidate, RunCandidate, EndStage, InStage
    <3> QED BY <2>4, <3>1
  <2>8. CASE AbandonEntry \/ EndDet \/ HavocStep \/ Finish
    <3>1. pc' \in {"stage", "havoc", "done"}
      BY <2>8 DEF AbandonEntry, EndDet, HavocStep, fvars, Finish
    <3> QED BY <2>4, <3>1
  <2> QED BY <2>1, <2>2, <2>3, <2>5, <2>6, <2>7, <2>8 DEF Next
<1>3. TrimInv => TrimKeeps
  BY DEF TrimInv
<1> QED BY <1>1, <1>2, <1>3, EntryInvariant, PTL DEF Spec

-----------------------------------------------------------------------------
(* The deterministic stages.                                                *)
DictEntry == [data : Seq(Byte), hits : Nat]

\* What the token stage counts on: the tokens in use are sorted by length.
DictOk(d) ==
    /\ d \in Seq(DictEntry)
    /\ \A k, m \in 1..Lesser(Len(d), USE_AUTO_EXTRAS) :
          k < m => Len(d[k].data) <= Len(d[m].data)

\* What the first stage has collected are bytes.
TokensOk ==
    pc \in {"trim", "write", "written", "stage"} =>
        /\ DictOk(a_extras)
        /\ tok.collect \in Seq(Byte) /\ tok.len \in Nat
        /\ DOMAIN tok = {"collect", "len", "prev"}

\* b is buffer a but for n bytes at offset i.
SameBut(b, a, i, n) ==
    /\ b \in Seq(Byte) /\ Len(b) = Len(a)
    /\ \A k \in 1..Len(a) : b[k] = a[k] \/ k \in (i + 1)..(i + n)

\* Where the loops of a stage are.
LoopOk ==
    /\ at \in [stage : Range(Stages), i : Nat, c : Nat \ {0}, orig : Seq(Byte), last : Nat]
    /\ Wanted(at.stage)
    /\ at.i <= Positions(at.stage) /\ at.c <= Inner(at.stage)
    /\ at.i = Positions(at.stage) => at.c = 1
    /\ at.c > 1 => Consulted(at.stage, at.i)

\* How far out_buf may be from the entry: not at all at the start of a position;
\* then by the word that was saved in orig, or by the longest token so far.
BufferOk ==
    LET s == at.stage
        w == Shape[s].w
    IN  /\ at.c = 1 => out_buf = in_buf /\ at.last = 0
        /\ Shape[s].kind = "insert" \/ s = "int8" => out_buf = in_buf
        /\ at.c > 1 /\ Shape[s].kind \in {"arith", "int"} =>
              at.orig = SubSeq(in_buf, at.i + 1, at.i + w) /\ SameBut(out_buf, in_buf, at.i, w)
        /\ Shape[s].kind = "over" =>
              /\ at.i + at.last <= Len(in_buf) /\ SameBut(out_buf, in_buf, at.i, at.last)
              /\ \A m \in at.c..Inner(s) : at.last <= Len(Tokens(s)[m])

\* stage_max, corrected by every skip, is off by the iterations to come.
CountOk ==
    /\ stage_cur \in Int /\ stage_max \in Int
    /\ stage_max - stage_cur =
          (Positions(at.stage) - at.i) * Inner(at.stage) - (at.c - 1)

DetInv == pc = "stage" => LoopOk /\ BufferOk /\ CountOk

\* The positions flip8 has been through.
Through == IF at.stage = "flip8" THEN at.i ELSE Len(in_buf)

\* From flip8 on: the map has its size, counts at most the flags that are set,
\* and flags what the positions so far have shown.
EffInv ==
    pc = "stage" /\ at.stage \in {Stages[k] : k \in 4..Len(Stages)} =>
        /\ eff_map \in [0..(EFF_ALEN(Len(in_buf)) - 1) -> 0..2]
        /\ eff_cnt \in Nat
        /\ eff_cnt <= Cardinality({k \in DOMAIN eff_map : eff_map[k] # 0})
        /\ \A p \in 0..(Through - 1) :
              Path(FlipBytes(in_buf, p, 1)) # {} => eff_map[EFF_APOS(p)] # 0

\* A set of numbers that is not empty has a least one: the order of the numbers is
\* well-founded.
LEMMA NatMin ==
    ASSUME NEW S \in SUBSET Nat, S # {}
    PROVE  \E x \in S : \A y \in S : x <= y
<1> DEFINE R == OpToRel(<, Nat)
<1>1. IsWellFoundedOn(R, Nat)
  BY NatLessThanWellFounded
<1>2. \A x, y \in Nat : y < x => <<y, x>> \in R
  BY DEF OpToRel
<1> HIDE DEF R
<1>3. PICK x \in S : \A y \in S : <<y, x>> \notin R
  BY <1>1, WFMin
<1>4. ASSUME NEW y \in S PROVE ~(y < x)
  BY <1>2, <1>3
<1> QED BY <1>4

\* The constants of the stages, one by one.
LEMMA StageConstants ==
    /\ BITS \in Nat /\ BITS > 4 /\ ARITH_MAX \in Nat \ {0}
    /\ Len(interesting_8) \in Nat \ {0} /\ Len(interesting_16) \in Nat \ {0}
    /\ Len(interesting_32) \in Nat \ {0}
    /\ extras \in Seq(Seq(Byte))
    /\ \A k, m \in 1..Len(extras) : k < m => Len(extras[k]) <= Len(extras[m])
    /\ USE_AUTO_EXTRAS \in Nat \ {0} /\ MAX_AUTO_EXTRAS \in Nat \ {0}
    /\ MIN_AUTO_EXTRA \in Nat /\ MAX_AUTO_EXTRA \in Nat
    /\ 2 < MIN_AUTO_EXTRA /\ MIN_AUTO_EXTRA <= MAX_AUTO_EXTRA
    /\ 2^EFF_MAP_SCALE2 \in Nat \ {0}
<1>1. /\ BITS \in Nat /\ BITS > 4 /\ ARITH_MAX \in 1..(2^BITS - 1)
      /\ interesting_8 \in Seq(0..(2^BITS - 1)) \ {<<>>}
      /\ interesting_16 \in Seq(0..(2^(2 * BITS) - 1)) \ {<<>>}
      /\ interesting_32 \in Seq(0..(2^(4 * BITS) - 1)) \ {<<>>}
  BY MutationsAssumption DEF MutationsAssumption
<1>2. /\ Len(interesting_8) \in Nat \ {0} /\ Len(interesting_16) \in Nat \ {0}
      /\ Len(interesting_32) \in Nat \ {0}
  <2>1. ASSUME NEW S, NEW s \in Seq(S) \ {<<>>} PROVE Len(s) \in Nat \ {0}
    OBVIOUS
  <2>2. Len(interesting_8) \in Nat \ {0}
    BY <1>1, <2>1
  <2>3. Len(interesting_16) \in Nat \ {0}
    BY <1>1, <2>1
  <2>4. Len(interesting_32) \in Nat \ {0}
    BY <1>1, <2>1
  <2> QED BY <2>2, <2>3, <2>4
<1>3. 2^EFF_MAP_SCALE2 \in Int /\ 2^EFF_MAP_SCALE2 > 0
  BY FuzzOneAssumption DEF FuzzOneAssumption
<1>4. 2^BITS \in Int
  BY <1>1
<1>5. ARITH_MAX \in Nat \ {0}
  BY <1>1, <1>4
<1>6. /\ extras \in Seq(Seq(Byte))
      /\ \A k, m \in 1..Len(extras) : k < m => Len(extras[k]) <= Len(extras[m])
      /\ {MIN_AUTO_EXTRA, MAX_AUTO_EXTRA, USE_AUTO_EXTRAS, MAX_AUTO_EXTRAS} \subseteq Nat \ {0}
      /\ 2 < MIN_AUTO_EXTRA /\ MIN_AUTO_EXTRA <= MAX_AUTO_EXTRA
  BY FuzzOneAssumption DEF FuzzOneAssumption
<1>7. BITS \in Nat /\ BITS > 4
  BY <1>1
<1>8. /\ USE_AUTO_EXTRAS \in Nat \ {0} /\ MAX_AUTO_EXTRAS \in Nat \ {0}
      /\ MIN_AUTO_EXTRA \in Nat /\ MAX_AUTO_EXTRA \in Nat
  BY <1>6
<1>9. 2^EFF_MAP_SCALE2 \in Nat \ {0}
  BY <1>3
<1> QED BY <1>2, <1>5, <1>6, <1>7, <1>8, <1>9

\* The names of the stages.
LEMMA StageNames ==
    Range(Stages) = {"flip1", "flip2", "flip4", "flip8", "flip16", "flip32",
                     "arith8", "arith16", "arith32", "int8", "int16", "int32",
                     "ext_UO", "ext_UI", "ext_AO"}
  BY DEF Range, Stages

\* The shapes of the stages, by kind.
LEMMA Shapes ==
    ASSUME NEW s \in Range(Stages)
    PROVE  \/ Shape[s].kind = "bits" /\ Shape[s].w \in {1, 2, 4} /\ s \in {"flip1", "flip2", "flip4"}
           \/ Shape[s].kind = "bytes" /\ Shape[s].w = 1 /\ s = "flip8"
           \/ Shape[s].kind = "bytes" /\ Shape[s].w = 2 /\ s = "flip16"
           \/ Shape[s].kind = "bytes" /\ Shape[s].w = 4 /\ s = "flip32"
           \/ Shape[s].kind = "arith" /\ Shape[s].w = 1 /\ s = "arith8"
           \/ Shape[s].kind = "arith" /\ Shape[s].w = 2 /\ s = "arith16"
           \/ Shape[s].kind = "arith" /\ Shape[s].w = 4 /\ s = "arith32"
           \/ Shape[s].kind = "int" /\ Shape[s].w = 1 /\ s = "int8"
           \/ Shape[s].kind = "int" /\ Shape[s].w = 2 /\ s = "int16"
           \/ Shape[s].kind = "int" /\ Shape[s].w = 4 /\ s = "int32"
           \/ Shape[s].kind = "insert" /\ Shape[s].w = 0 /\ s = "ext_UI"
           \/ Shape[s].kind = "over" /\ Shape[s].w = 1 /\ s \in {"ext_UO", "ext_AO"}
<1>1. Shape["flip1"] = [kind |-> "bits", w |-> 1]
  BY StageNames DEF Shape
<1>2. Shape["flip2"] = [kind |-> "bits", w |-> 2]
  BY StageNames DEF Shape
<1>3. Shape["flip4"] = [kind |-> "bits", w |-> 4]
  BY StageNames DEF Shape
<1>4. Shape["flip8"] = [kind |-> "bytes", w |-> 1]
  BY StageNames DEF Shape
<1>5. Shape["flip16"] = [kind |-> "bytes", w |-> 2]
  BY StageNames DEF Shape
<1>6. Shape["flip32"] = [kind |-> "bytes", w |-> 4]
  BY StageNames DEF Shape
<1>7. Shape["arith8"] = [kind |-> "arith", w |-> 1]
  BY StageNames DEF Shape
<1>8. Shape["arith16"] = [kind |-> "arith", w |-> 2]
  BY StageNames DEF Shape
<1>9. Shape["arith32"] = [kind |-> "arith", w |-> 4]
  BY StageNames DEF Shape
<1>10. Shape["int8"] = [kind |-> "int", w |-> 1]
  BY StageNames DEF Shape
<1>11. Shape["int16"] = [kind |-> "int", w |-> 2]
  BY StageNames DEF Shape
<1>12. Shape["int32"] = [kind |-> "int", w |-> 4]
  BY StageNames DEF Shape
<1>13. Shape["ext_UI"] = [kind |-> "insert", w |-> 0]
  BY StageNames DEF Shape
<1>14. Shape["ext_UO"] = [kind |-> "over", w |-> 1]
  BY StageNames DEF Shape
<1>15. Shape["ext_AO"] = [kind |-> "over", w |-> 1]
  BY StageNames DEF Shape
<1> QED
  BY <1>1, <1>2, <1>3, <1>4, <1>5, <1>6, <1>7, <1>8, <1>9,
     <1>10, <1>11, <1>12, <1>13, <1>14, <1>15, StageNames

\* A stage that is not left out has a position, and a word at a position is
\* within the input.
LEMMA PositionsOk ==
    ASSUME NEW s \in Range(Stages), Wanted(s), in_buf \in Seq(Byte), Len(in_buf) >= 1
    PROVE  /\ Positions(s) \in Nat \ {0}
           /\ Shape[s].kind # "bits" => Positions(s) = Len(in_buf) - Shape[s].w + 1
<1>1. Len(in_buf) \in Nat /\ BITS \in Nat /\ BITS > 4
  BY StageConstants
<1>2. (Len(in_buf) - 1) * BITS >= 0
  BY <1>1
<1>3. Len(in_buf) * BITS = (Len(in_buf) - 1) * BITS + BITS
  BY <1>1
<1>4. CASE Shape[s].kind = "bits"
  <2>1. Len(in_buf) * BITS \in Int /\ Len(in_buf) * BITS > 4
    BY <1>1, <1>2, <1>3
  <2> QED BY <1>4, <2>1, Shapes DEF Positions
<1>5. CASE Shape[s].kind # "bits"
  BY <1>1, <1>5, Shapes DEF Positions, Wanted
<1> QED BY <1>4, <1>5

\* The tokens of a stage are sorted by length, and there is one.
LEMMA TokensSorted ==
    ASSUME DictOk(a_extras), NEW s \in Range(Stages), Wanted(s),
           Shape[s].kind \in {"over", "insert"}
    PROVE  /\ Tokens(s) \in Seq(Seq(Byte)) /\ Len(Tokens(s)) \in Nat \ {0}
           /\ \A k, m \in 1..Len(Tokens(s)) : k < m => Len(Tokens(s)[k]) <= Len(Tokens(s)[m])
<1>1. CASE s = "ext_AO"
  <2> DEFINE n == Lesser(Len(a_extras), USE_AUTO_EXTRAS)
             T == [k \in 1..n |-> a_extras[k].data]
  <2>1. a_extras \in Seq(DictEntry) /\ a_extras # <<>>
    BY <1>1 DEF DictOk, Wanted
  <2>2. n \in Nat \ {0} /\ n <= Len(a_extras)
    BY <2>1, StageConstants DEF Lesser
  <2>3. \A k \in 1..n : a_extras[k] \in DictEntry
    BY <2>1, <2>2
  <2>4. \A k \in 1..n : a_extras[k].data \in Seq(Byte)
    BY <2>3 DEF DictEntry
  <2>5. \A k, m \in 1..n : k < m => Len(a_extras[k].data) <= Len(a_extras[m].data)
    BY DEF DictOk
  <2> HIDE DEF n
  <2>6. T \in Seq(Seq(Byte)) /\ Len(T) = n
    BY <2>2, <2>4
  <2>7. Tokens(s) = T
    BY <1>1 DEF Tokens, n
  <2> QED BY <2>2, <2>5, <2>6, <2>7
<1>2. CASE s # "ext_AO"
  <2>1. Tokens(s) = extras /\ extras # <<>>
    BY <1>2, Shapes DEF Tokens, Wanted
  <2> QED BY <2>1, StageConstants
<1> QED BY <1>1, <1>2

\* The length of the inner loop of a stage.
LEMMA InnerOk ==
    ASSUME DictOk(a_extras), NEW s \in Range(Stages), Wanted(s)
    PROVE  /\ Inner(s) \in Nat \ {0}
           /\ Shape[s].kind \in {"bits", "bytes"} => Inner(s) = 1
           /\ Shape[s].kind = "arith" => Inner(s) % (2 * Orders(s)) = 0
           /\ Shape[s].kind \in {"over", "insert"} => Inner(s) = Len(Tokens(s))
<1>1. CASE Shape[s].kind \in {"bits", "bytes"}
  BY <1>1 DEF Inner
<1>2. CASE Shape[s].kind = "arith"
  <2>1. Orders(s) \in {1, 2} /\ Inner(s) = 2 * Orders(s) * ARITH_MAX
    BY <1>2 DEF Inner, Orders
  <2>2. CASE Orders(s) = 1
    BY <1>2, <2>1, <2>2, StageConstants
  <2>3. CASE Orders(s) = 2
    BY <1>2, <2>1, <2>3, StageConstants
  <2> QED BY <2>1, <2>2, <2>3
<1>3. CASE Shape[s].kind = "int"
  <2>1. Orders(s) \in {1, 2} /\ Inner(s) = Orders(s) * Len(Interesting(Shape[s].w))
    BY <1>3 DEF Inner, Orders
  <2>2. Len(Interesting(Shape[s].w)) \in Nat \ {0}
    BY <1>3, Shapes, StageConstants DEF Interesting
  <2>3. Inner(s) \in Nat \ {0}
    BY <2>1, <2>2
  <2> QED BY <1>3, <2>3
<1>4. CASE Shape[s].kind \in {"over", "insert"}
  <2>1. Inner(s) = Len(Tokens(s))
    BY <1>4 DEF Inner
  <2> QED BY <1>4, <2>1, TokensSorted
<1> QED BY <1>1, <1>2, <1>3, <1>4, Shapes

-----------------------------------------------------------------------------
(* Buffers.                                                                 *)
LEMMA PutSeq ==
    ASSUME NEW b \in Seq(Byte), NEW i \in Nat, NEW s \in Seq(Byte)
    PROVE  /\ Put(b, i, s) \in Seq(Byte) /\ Len(Put(b, i, s)) = Len(b)
           /\ \A k \in 1..Len(b) :
                 Put(b, i, s)[k] = IF k - i \in 1..Len(s) THEN s[k - i] ELSE b[k]
<1>1. DOMAIN b = 1..Len(b) /\ DOMAIN s = 1..Len(s) /\ Len(b) \in Nat /\ Len(s) \in Nat
  OBVIOUS
<1>2. \A k \in 1..Len(b) : b[k] \in Byte
  OBVIOUS
<1>3. \A k \in 1..Len(s) : s[k] \in Byte
  OBVIOUS
<1>4. Put(b, i, s) = [k \in 1..Len(b) |-> IF k - i \in 1..Len(s) THEN s[k - i] ELSE b[k]]
  BY <1>1 DEF Put
<1> QED BY <1>1, <1>2, <1>3, <1>4

\* A word is stored as bytes.
LEMMA BytesSeq ==
    ASSUME NEW v, NEW w \in Nat
    PROVE  Bytes(v, w) \in Seq(Byte) /\ Len(Bytes(v, w)) = w
<1>1. \A n : u8(n) \in Byte
  BY DEF u8, Byte
<1> QED BY <1>1 DEF Bytes

\* Flipping bits and bytes a second time undoes it.
LEMMA FlipBitsTwice ==
    ASSUME NEW b \in Seq(Byte), NEW i, NEW w
    PROVE  FlipBits(FlipBits(b, i, w), i, w) = b
<1> DEFINE M(k) == {x \in Bits : k * BITS - 1 - x \in i..(i + w - 1)}
           c == FlipBits(b, i, w)
<1>1. DOMAIN b = 1..Len(b) /\ Len(b) \in Nat /\ b = [k \in 1..Len(b) |-> b[k]]
  OBVIOUS
<1>2. c = [k \in 1..Len(b) |-> SymDiff(b[k], M(k))]
  BY <1>1 DEF FlipBits
<1>3. FlipBits(c, i, w) = [k \in 1..Len(b) |-> SymDiff(c[k], M(k))]
  BY <1>2 DEF FlipBits
<1>4. ASSUME NEW k \in 1..Len(b) PROVE SymDiff(c[k], M(k)) = b[k]
  <2> HIDE DEF M
  <2>1. c[k] = SymDiff(b[k], M(k))
    BY <1>2
  <2> HIDE DEF c
  <2> QED BY <2>1 DEF SymDiff
<1> QED BY <1>1, <1>3, <1>4

\* Inverting the same bytes twice changes nothing.
LEMMA FlipBytesTwice ==
    ASSUME NEW b \in Seq(Byte), NEW i, NEW w
    PROVE  FlipBytes(FlipBytes(b, i, w), i, w) = b
<1> DEFINE c == FlipBytes(b, i, w)
<1>1. DOMAIN b = 1..Len(b) /\ Len(b) \in Nat /\ b = [k \in 1..Len(b) |-> b[k]]
  OBVIOUS
<1>2. c = [k \in 1..Len(b) |-> IF k - 1 \in i..(i + w - 1) THEN Bits \ b[k] ELSE b[k]]
  BY <1>1 DEF FlipBytes
<1>3. FlipBytes(c, i, w) =
          [k \in 1..Len(b) |-> IF k - 1 \in i..(i + w - 1) THEN Bits \ c[k] ELSE c[k]]
  BY <1>2 DEF FlipBytes
<1>4. ASSUME NEW k \in 1..Len(b)
      PROVE  (IF k - 1 \in i..(i + w - 1) THEN Bits \ c[k] ELSE c[k]) = b[k]
  <2>1. b[k] \subseteq Bits
    BY DEF Byte
  <2>2. c[k] = IF k - 1 \in i..(i + w - 1) THEN Bits \ b[k] ELSE b[k]
    BY <1>2
  <2> HIDE DEF c
  <2>3. Bits \ (Bits \ b[k]) = b[k]
    BY <2>1
  <2> QED BY <2>2, <2>3
<1> QED BY <1>1, <1>3, <1>4

\* Stores at one place stay within the longest of them, and storing what was
\* there undoes them all.
LEMMA PutSame ==
    ASSUME NEW a \in Seq(Byte), NEW b, NEW i \in Nat, NEW n \in Nat, NEW m \in Nat,
           SameBut(b, a, i, n), n <= m, NEW s \in Seq(Byte), Len(s) <= m
    PROVE  SameBut(Put(b, i, s), a, i, m)
<1>1. b \in Seq(Byte) /\ Len(b) = Len(a) /\ Len(a) \in Nat /\ Len(s) \in Nat
  BY DEF SameBut
<1>2. /\ Put(b, i, s) \in Seq(Byte) /\ Len(Put(b, i, s)) = Len(a)
      /\ \A k \in 1..Len(a) :
            Put(b, i, s)[k] = IF k - i \in 1..Len(s) THEN s[k - i] ELSE b[k]
  BY <1>1, PutSeq
<1>3. ASSUME NEW k \in 1..Len(a), k \notin (i + 1)..(i + m) PROVE Put(b, i, s)[k] = a[k]
  <2>1. k - i \notin 1..Len(s) /\ k \notin (i + 1)..(i + n)
    BY <1>1, <1>3
  <2> QED BY <1>2, <2>1 DEF SameBut
<1> QED BY <1>2, <1>3 DEF SameBut

\* Storing the bytes that were saved makes out_buf the entry again, if it differs from
\* it only there.
LEMMA PutBack ==
    ASSUME NEW a \in Seq(Byte), NEW b, NEW i \in Nat, NEW n \in Nat, i + n <= Len(a),
           SameBut(b, a, i, n)
    PROVE  Put(b, i, SubSeq(a, i + 1, i + n)) = a
<1> DEFINE s == SubSeq(a, i + 1, i + n)
<1>1. b \in Seq(Byte) /\ Len(b) = Len(a) /\ Len(a) \in Nat
  BY DEF SameBut
<1>2. s \in Seq(Byte) /\ Len(s) = n /\ \A j \in 1..n : s[j] = a[i + j]
  BY <1>1
<1> HIDE DEF s
<1>3. /\ Put(b, i, s) \in Seq(Byte) /\ Len(Put(b, i, s)) = Len(a)
      /\ \A k \in 1..Len(a) : Put(b, i, s)[k] = IF k - i \in 1..Len(s) THEN s[k - i] ELSE b[k]
  BY <1>1, <1>2, PutSeq
<1>4. ASSUME NEW k \in 1..Len(a) PROVE Put(b, i, s)[k] = a[k]
  <2>1. CASE k - i \in 1..n
    <3>1. s[k - i] = a[i + (k - i)] /\ i + (k - i) = k
      BY <1>2, <2>1
    <3> QED BY <1>2, <1>3, <2>1, <3>1
  <2>2. CASE k - i \notin 1..n
    <3>1. k \notin (i + 1)..(i + n)
      BY <2>2
    <3>2. b[k] = a[k]
      BY <3>1 DEF SameBut
    <3> QED BY <1>2, <1>3, <2>2, <3>2
  <2> QED BY <2>1, <2>2
<1>5. Put(b, i, s) = a
  <2> DEFINE c == Put(b, i, s)
  <2>1. c \in Seq(Byte) /\ Len(c) = Len(a) /\ \A k \in 1..Len(a) : c[k] = a[k]
    BY <1>3, <1>4
  <2> HIDE DEF c
  <2>2. c = a
    BY <2>1
  <2> QED BY <2>2 DEF c
<1> QED BY <1>5 DEF s

\* A buffer is the same as itself.
LEMMA SameSelf == ASSUME NEW a \in Seq(Byte), NEW i, NEW n PROVE SameBut(a, a, i, n)
  BY DEF SameBut

-----------------------------------------------------------------------------
(* The automatic dictionary.                                                *)
\* Sorting leaves entries in order of size where the token stage uses them.
LEMMA OrderedOk == ASSUME NEW d \in Seq(DictEntry), NEW l \in Ordered(d) PROVE DictOk(l)
<1>1. DOMAIN d = 1..Len(d) /\ Len(d) \in Nat
  OBVIOUS
<1>2. PICK p \in Bijection(DOMAIN d, DOMAIN d) : l = [k \in DOMAIN d |-> d[p[k]]]
  BY DEF Ordered, Arrangements
<1>3. p \in [DOMAIN d -> DOMAIN d]
  BY DEF Bijection, Injection
<1>4. \A k \in DOMAIN d : d[p[k]] \in DictEntry
  BY <1>1, <1>3
<1>5. l \in Seq(DictEntry) /\ Len(l) = Len(d)
  BY <1>1, <1>2, <1>4
<1>6. ASSUME NEW k \in 1..Lesser(Len(l), USE_AUTO_EXTRAS),
             NEW m \in 1..Lesser(Len(l), USE_AUTO_EXTRAS), k < m
      PROVE  Len(l[k].data) <= Len(l[m].data)
  <2>1. k \in DOMAIN l /\ m \in DOMAIN l /\ m <= USE_AUTO_EXTRAS
    BY <1>5, StageConstants DEF Lesser
  <2> QED BY <1>6, <2>1 DEF Ordered
<1> QED BY <1>5, <1>6 DEF DictOk

\* maybe_add_auto leaves the tokens in use sorted by length.
LEMMA AutoOk ==
    ASSUME NEW d, DictOk(d), NEW t \in Seq(Byte), NEW l \in maybe_add_auto(d, t)
    PROVE  DictOk(l)
<1> DEFINE fresh == [data |-> t, hits |-> 0]
<1>1. d \in Seq(DictEntry) /\ DOMAIN d = 1..Len(d) /\ Len(d) \in Nat
  BY DEF DictOk
<1>2. fresh \in DictEntry
  BY DEF DictEntry
<1>3. ASSUME NEW x, NEW e, x \in DOMAIN d => e \in DictEntry
      PROVE  [d EXCEPT ![x] = e] \in Seq(DictEntry)
  <2> DEFINE f == [d EXCEPT ![x] = e]
  <2>1. f = [k \in 1..Len(d) |-> IF k = x THEN e ELSE d[k]]
    BY <1>1, Zenon
  <2>2. \A k \in 1..Len(d) : (IF k = x THEN e ELSE d[k]) \in DictEntry
    BY <1>1, <1>3
  <2> HIDE DEF f
  <2>3. f \in Seq(DictEntry)
    BY <1>1, <2>1, <2>2
  <2> QED BY <2>3 DEF f
<1>4. ASSUME NEW x \in DOMAIN d PROVE [d[x] EXCEPT !.hits = @ + 1] \in DictEntry
  <2>1. d[x] \in DictEntry
    BY <1>1, <1>4
  <2> QED BY <2>1 DEF DictEntry
<1>5. Append(d, fresh) \in Seq(DictEntry)
  BY <1>1, <1>2
<1>6. \/ l = d
      \/ \E x : l \in Ordered([d EXCEPT ![x].hits = @ + 1])
      \/ l \in Ordered(Append(d, fresh))
      \/ \E r : l \in Ordered([d EXCEPT ![MAX_AUTO_EXTRAS \div 2 + r + 1] = fresh])
  BY DEF maybe_add_auto
<1>7. ASSUME NEW e \in Seq(DictEntry), l \in Ordered(e) PROVE DictOk(l)
  BY <1>7, OrderedOk
<1>8. ASSUME NEW x, l \in Ordered([d EXCEPT ![x].hits = @ + 1]) PROVE DictOk(l)
  <2>1. [d EXCEPT ![x] = [d[x] EXCEPT !.hits = @ + 1]] \in Seq(DictEntry)
    BY <1>3, <1>4
  <2> QED BY <1>7, <1>8, <2>1
<1>9. ASSUME NEW x, l \in Ordered([d EXCEPT ![x] = fresh]) PROVE DictOk(l)
  BY <1>2, <1>3, <1>7, <1>9
<1> QED BY <1>5, <1>6, <1>7, <1>8, <1>9

\* Collecting keeps what was collected a sequence of bytes.
LEMMA CollectedOk ==
    ASSUME NEW t, t.collect \in Seq(Byte), t.len \in Nat, DOMAIN t = {"collect", "len", "prev"},
           NEW b \in Byte
    PROVE  /\ Collected(t, b).collect \in Seq(Byte) /\ Collected(t, b).len \in Nat
           /\ DOMAIN Collected(t, b) = {"collect", "len", "prev"}
<1>1. Append(t.collect, b) \in Seq(Byte)
  OBVIOUS
<1> QED BY <1>1 DEF Collected

-----------------------------------------------------------------------------
(* One iteration of a stage.                                                *)
\* What a step that stays in its stage does not change.
LEMMA SameStage ==
    ASSUME DictOk(a_extras), at.stage \in Range(Stages), Wanted(at.stage),
           in_buf' = in_buf, at'.stage = at.stage, at.stage = "flip1" \/ a_extras' = a_extras
    PROVE  /\ Positions(at.stage)' = Positions(at.stage)
           /\ Inner(at.stage)' = Inner(at.stage)
           /\ Wanted(at.stage)'
           /\ Shape[at.stage].kind \in {"over", "insert"} => Tokens(at.stage)' = Tokens(at.stage)
<1>1. Positions(at.stage)' = Positions(at.stage)
  BY DEF Positions
<1>2. Wanted(at.stage)'
  BY DEF Wanted
<1>3. CASE at.stage = "flip1"
  <2>1. Shape[at.stage].kind = "bits"
    BY <1>3, Shapes
  <2>2. Inner(at.stage)' = 1 /\ Inner(at.stage) = 1
    BY <2>1 DEF Inner
  <2> QED BY <1>1, <1>2, <2>1, <2>2
<1>4. CASE a_extras' = a_extras
  <2>1. Tokens(at.stage)' = Tokens(at.stage)
    BY <1>4 DEF Tokens
  <2>2. Inner(at.stage)' = Inner(at.stage)
    <3> DEFINE n == Len(Tokens(at.stage))
    <3>1. n' = n
      BY <2>1
    <3> HIDE DEF n
    <3>2. Inner(at.stage) =
            CASE Shape[at.stage].kind \in {"bits", "bytes"} -> 1
              [] Shape[at.stage].kind = "arith" -> 2 * Orders(at.stage) * ARITH_MAX
              [] Shape[at.stage].kind = "int" -> Orders(at.stage) * Len(Interesting(Shape[at.stage].w))
              [] OTHER -> n
      BY DEF Inner, n
    <3>3. Inner(at.stage)' =
            CASE Shape[at'.stage].kind \in {"bits", "bytes"} -> 1
              [] Shape[at'.stage].kind = "arith" -> 2 * Orders(at'.stage) * ARITH_MAX
              [] Shape[at'.stage].kind = "int" -> Orders(at'.stage) * Len(Interesting(Shape[at'.stage].w))
              [] OTHER -> n'
      BY DEF Inner, n
    <3> QED BY <3>1, <3>2, <3>3
  <2> QED BY <1>1, <1>2, <2>1, <2>2
<1> QED BY <1>3, <1>4

\* The bytes an arithmetic or integer stage saves are those of the entry.
LEMMA OrigOk ==
    ASSUME EntryOk, LoopOk, BufferOk, InStage
    PROVE  /\ Orig \in Seq(Byte)
           /\ Shape[at.stage].kind \in {"arith", "int"} =>
                 /\ at.i + Shape[at.stage].w <= Len(in_buf)
                 /\ Orig = SubSeq(in_buf, at.i + 1, at.i + Shape[at.stage].w)
<1>1. /\ in_buf \in Seq(Byte) /\ Len(in_buf) \in Nat /\ Len(in_buf) >= 1
      /\ at.stage \in Range(Stages) /\ Wanted(at.stage) /\ at.i \in Nat /\ at.c \in Nat \ {0}
      /\ at.orig \in Seq(Byte) /\ at.i < Positions(at.stage)
  BY Constants DEF EntryOk, LoopOk, InStage
<1>2. CASE Shape[at.stage].kind \in {"arith", "int"}
  <2> DEFINE w == Shape[at.stage].w
  <2>1. w \in Nat /\ at.i + w <= Len(in_buf)
    <3>1. Positions(at.stage) = Len(in_buf) - w + 1
      BY <1>1, <1>2, PositionsOk
    <3>2. w \in {1, 2, 4}
      BY <1>1, <1>2, Shapes
    <3> HIDE DEF w
    <3> QED BY <1>1, <3>1, <3>2
  <2>2. Orig = SubSeq(in_buf, at.i + 1, at.i + w)
    <3>1. CASE at.c = 1
      BY <1>2, <3>1 DEF Orig, BufferOk
    <3>2. CASE at.c # 1
      <4>1. at.c > 1
        BY <1>1, <3>2
      <4> QED BY <1>2, <3>2, <4>1 DEF Orig, BufferOk
    <3> QED BY <3>1, <3>2
  <2>3. SubSeq(in_buf, at.i + 1, at.i + w) \in Seq(Byte)
    <3> HIDE DEF w
    <3> QED BY <1>1, <2>1
  <2> QED BY <2>1, <2>2, <2>3
<1>3. CASE Shape[at.stage].kind \notin {"arith", "int"}
  BY <1>1, <1>3 DEF Orig
<1> QED BY <1>2, <1>3

\* An iteration moves the loops on, and the counters stay in step with them.
LEMMA LoopStep ==
    ASSUME EntryOk, DictOk(a_extras), LoopOk, BufferOk, CountOk, InStage,
           Consulted(at.stage, at.i), in_buf' = in_buf,
           at.stage = "flip1" \/ a_extras' = a_extras,
           at.stage = "flip8" \/ eff_map' = eff_map,
           NEW last \in Nat, NextIteration(last),
           stage_cur' \in Int, stage_max' \in Int,
           stage_max' - stage_cur' = (stage_max - stage_cur) - 1
    PROVE  LoopOk' /\ CountOk' /\ at'.stage = at.stage
<1> DEFINE P == Positions(at.stage)
           I == Inner(at.stage)
<1>1. /\ at \in [stage : Range(Stages), i : Nat, c : Nat \ {0}, orig : Seq(Byte), last : Nat]
      /\ Wanted(at.stage) /\ at.c <= I /\ at.i < P
  BY DEF LoopOk, InStage
<1>2. in_buf \in Seq(Byte) /\ Len(in_buf) >= 1
  BY Constants DEF EntryOk, InStage
<1>3. P \in Nat /\ I \in Nat \ {0}
  BY <1>1, <1>2, PositionsOk, InnerOk
<1>4. Orig \in Seq(Byte)
  BY OrigOk
<1>5. at' = IF at.c < I THEN [at EXCEPT !.c = @ + 1, !.orig = Orig, !.last = last]
            ELSE [at EXCEPT !.i = @ + 1, !.c = 1, !.orig = <<>>, !.last = 0]
  BY DEF NextIteration
<1>6. /\ at' \in [stage : Range(Stages), i : Nat, c : Nat \ {0}, orig : Seq(Byte), last : Nat]
      /\ at'.stage = at.stage
  <2>1. at.c + 1 \in Nat \ {0} /\ at.i + 1 \in Nat /\ <<>> \in Seq(Byte)
    BY <1>1
  <2> HIDE DEF I
  <2>2. CASE at.c < I
    BY <1>1, <1>4, <1>5, <2>1, <2>2
  <2>3. CASE ~(at.c < I)
    <3>1. at' = [at EXCEPT !.i = at.i + 1, !.c = 1, !.orig = <<>>, !.last = 0]
      BY <1>5, <2>3
    <3>2. 1 \in Nat \ {0} /\ 0 \in Nat
      OBVIOUS
    <3> QED BY <1>1, <2>1, <3>1, <3>2
  <2> QED BY <2>2, <2>3
<1>7. P' = P /\ I' = I /\ Wanted(at.stage)'
  BY <1>1, <1>6, SameStage
<1>8. stage_max - stage_cur = (P - at.i) * I - (at.c - 1)
  BY DEF CountOk
<1> HIDE DEF P, I
<1>9. CASE at.c < I
  <2>1. at'.i = at.i /\ at'.c = at.c + 1
    BY <1>1, <1>5, <1>9
  <2>2. at.stage # "flip8"
    <3>1. ASSUME at.stage = "flip8" PROVE I = 1
      BY <1>1, <3>1, Shapes, InnerOk DEF I
    <3> QED BY <1>1, <1>9, <3>1
  <2>3. Consulted(at.stage, at.i)'
    BY <1>6, <2>1, <2>2 DEF Consulted, Flagged, EFF_APOS
  <2>4. at'.i <= P' /\ at'.c <= I' /\ (at'.i = P' => at'.c = 1)
    BY <1>1, <1>3, <1>7, <1>9, <2>1
  <2>5. stage_max' - stage_cur' = (P' - at'.i) * I' - (at'.c - 1)
    <3>1. (P - at.i) * I \in Int
      BY <1>1, <1>3
    <3>2. (P' - at'.i) * I' = (P - at.i) * I
      BY <1>7, <2>1
    <3> HIDE DEF CountOk
    <3> QED BY <1>1, <1>8, <2>1, <3>1, <3>2
  <2> QED BY <1>6, <1>7, <2>3, <2>4, <2>5 DEF LoopOk, CountOk, P, I
<1>10. CASE ~(at.c < I)
  <2>1. at'.i = at.i + 1 /\ at'.c = 1 /\ at.c = I
    BY <1>1, <1>3, <1>5, <1>10
  <2>2. at'.i <= P' /\ at'.c <= I'
    BY <1>1, <1>3, <1>7, <2>1
  <2>3. stage_max' - stage_cur' = (P' - at'.i) * I' - (at'.c - 1)
    <3>1. (P - at.i) * I \in Int
      BY <1>1, <1>3
    <3>2. (P - (at.i + 1)) * I = (P - at.i) * I - I
      BY <1>1, <1>3
    <3>3. (P' - at'.i) * I' = (P - (at.i + 1)) * I
      BY <1>7, <2>1
    <3> QED BY <1>3, <1>8, <2>1, <3>1, <3>2, <3>3
  <2> QED BY <1>6, <1>7, <2>1, <2>2, <2>3 DEF LoopOk, CountOk, P, I
<1> QED BY <1>6, <1>9, <1>10

\* What an iteration may make of out_buf: it is left out, or it runs input b.
Iteration(b, ranIt, last) ==
    \/ /\ b = out_buf /\ ranIt = FALSE /\ last = at.last
       /\ Shape[at.stage].kind \notin {"bits", "bytes"}
    \/ /\ b = Mutated(at.stage, at.i, at.c, Orig) /\ ranIt = TRUE
       /\ Runs(at.stage, at.i, at.c, Orig)
       /\ last = IF Shape[at.stage].kind = "over" THEN Len(Tokens(at.stage)[at.c]) ELSE 0

\* At the end of a position, and within it.
LEMMA LastOfPosition ==
    ASSUME LoopOk, Inner(at.stage) \in Nat, NEW last, NextIteration(last)
    PROVE  /\ at.c = Inner(at.stage) => at'.i = at.i + 1 /\ at'.c = 1 /\ at'.last = 0
           /\ at.c < Inner(at.stage) =>
                 at'.i = at.i /\ at'.c = at.c + 1 /\ at'.c > 1 /\ at'.orig = Orig /\ at'.last = last
           /\ at.c = Inner(at.stage) \/ at.c < Inner(at.stage)
           /\ at'.stage = at.stage
<1> DEFINE I == Inner(at.stage)
<1>1. /\ at \in [stage : Range(Stages), i : Nat, c : Nat \ {0}, orig : Seq(Byte), last : Nat]
      /\ at.c <= I
  BY DEF LoopOk
<1>2. at' = IF at.c < I THEN [at EXCEPT !.c = @ + 1, !.orig = Orig, !.last = last]
            ELSE [at EXCEPT !.i = @ + 1, !.c = 1, !.orig = <<>>, !.last = 0]
  BY DEF NextIteration
<1> HIDE DEF I
<1>3. ASSUME at.c < I
      PROVE  /\ at'.i = at.i /\ at'.c = at.c + 1 /\ at'.c > 1 /\ at'.orig = Orig
             /\ at'.last = last /\ at'.stage = at.stage
  BY <1>1, <1>2, <1>3
<1>4. ASSUME at.c = I
      PROVE  at'.i = at.i + 1 /\ at'.c = 1 /\ at'.last = 0 /\ at'.stage = at.stage
  <2>1. ~(at.c < I)
    BY <1>1, <1>4
  <2> QED BY <1>1, <1>2, <2>1
<1>5. at.c = I \/ at.c < I
  BY <1>1 DEF I
<1> QED BY <1>3, <1>4, <1>5 DEF I

\* Flips are undone at once.
LEMMA FlipsUndone ==
    ASSUME EntryOk, DictOk(a_extras), LoopOk, BufferOk, InStage, in_buf' = in_buf,
           Shape[at.stage].kind \in {"bits", "bytes"},
           NEW b, NEW ranIt \in BOOLEAN, NEW last \in Nat, Iteration(b, ranIt, last),
           out_buf' = Restored(at.stage, at.i, at.c, Orig, b, ranIt, last),
           NextIteration(last)
    PROVE  BufferOk'
<1>1. /\ in_buf \in Seq(Byte) /\ at.stage \in Range(Stages) /\ Wanted(at.stage)
      /\ at.c \in Nat \ {0} /\ at.c <= Inner(at.stage)
  BY DEF EntryOk, LoopOk, InStage
<1>0. at.stage # "int8"
  BY <1>1, Shapes
<1>2. Inner(at.stage) = 1
  BY <1>1, InnerOk
<1>3. at.c = 1 /\ out_buf = in_buf
  BY <1>1, <1>2 DEF BufferOk
<1>4. b = Mutated(at.stage, at.i, at.c, Orig)
  BY DEF Iteration
<1>5. out_buf' = in_buf
  <2>1. CASE Shape[at.stage].kind = "bits"
    <3>1. b = FlipBits(in_buf, at.i, Shape[at.stage].w)
      BY <1>3, <1>4, <2>1 DEF Mutated
    <3>2. out_buf' = FlipBits(b, at.i, Shape[at.stage].w)
      BY <1>0, <2>1 DEF Restored
    <3> QED BY <1>1, <3>1, <3>2, FlipBitsTwice
  <2>2. CASE Shape[at.stage].kind = "bytes"
    <3>1. b = FlipBytes(in_buf, at.i, Shape[at.stage].w)
      BY <1>3, <1>4, <2>2 DEF Mutated
    <3>2. out_buf' = FlipBytes(b, at.i, Shape[at.stage].w)
      BY <1>0, <2>2 DEF Restored
    <3> QED BY <1>1, <3>1, <3>2, FlipBytesTwice
  <2> QED BY <2>1, <2>2
<1>6. at'.c = 1 /\ at'.last = 0 /\ at'.stage = at.stage
  <2>1. at.c = Inner(at.stage) /\ Inner(at.stage) \in Nat
    BY <1>2, <1>3
  <2> QED BY <1>5, <2>1, LastOfPosition
<1> QED BY <1>0, <1>5, <1>6 DEF BufferOk

\* Arithmetic puts the word back when all signs and orders of a number are done.
LEMMA ArithUndone ==
    ASSUME EntryOk, DictOk(a_extras), LoopOk, BufferOk, InStage, in_buf' = in_buf,
           Shape[at.stage].kind = "arith",
           NEW b, NEW ranIt \in BOOLEAN, NEW last \in Nat, Iteration(b, ranIt, last),
           out_buf' = Restored(at.stage, at.i, at.c, Orig, b, ranIt, last),
           NextIteration(last)
    PROVE  BufferOk'
<1> DEFINE w == Shape[at.stage].w
           word == SubSeq(in_buf, at.i + 1, at.i + w)
<1>1. /\ in_buf \in Seq(Byte) /\ at.stage \in Range(Stages) /\ Wanted(at.stage)
      /\ at.i \in Nat /\ at.c \in Nat \ {0} /\ at.c <= Inner(at.stage)
  BY DEF EntryOk, LoopOk, InStage
<1>2. Inner(at.stage) \in Nat /\ Inner(at.stage) % (2 * Orders(at.stage)) = 0
  BY <1>1, InnerOk
<1>3. w \in Nat /\ at.stage # "int8"
  BY <1>1, Shapes
<1>4. at.i + w <= Len(in_buf) /\ Orig = word
  BY OrigOk
<1>5. SameBut(out_buf, in_buf, at.i, w)
  <2>1. CASE at.c = 1
    BY <1>1, <2>1, SameSelf DEF BufferOk
  <2>2. CASE at.c > 1
    BY <2>2 DEF BufferOk
  <2> QED BY <1>1, <2>1, <2>2
<1>6. SameBut(b, in_buf, at.i, w)
  <2>1. CASE b = out_buf
    BY <1>5, <2>1
  <2>2. CASE b = Mutated(at.stage, at.i, at.c, Orig)
    <3>1. PICK v : b = Put(out_buf, at.i, Bytes(v, w))
      BY <2>2 DEF Mutated
    <3>2. Bytes(v, w) \in Seq(Byte) /\ Len(Bytes(v, w)) = w
      BY <1>3, BytesSeq
    <3> QED BY <1>1, <1>3, <1>5, <3>1, <3>2, PutSame
  <2> QED BY <2>1, <2>2 DEF Iteration
<1>7. out_buf' = IF at.c % (2 * Orders(at.stage)) = 0 THEN Put(b, at.i, word) ELSE b
  BY <1>3, <1>4 DEF Restored
<1>8. Put(b, at.i, word) = in_buf
  BY <1>1, <1>3, <1>4, <1>6, PutBack
<1>9. SameBut(out_buf', in_buf, at.i, w)
  BY <1>1, <1>6, <1>7, <1>8, SameSelf
<1>10. at.c = Inner(at.stage) => out_buf' = in_buf
  BY <1>2, <1>7, <1>8
<1>11. /\ at.c = Inner(at.stage) => at'.i = at.i + 1 /\ at'.c = 1 /\ at'.last = 0
       /\ at.c < Inner(at.stage) => at'.i = at.i /\ at'.c > 1 /\ at'.orig = Orig
       /\ at.c = Inner(at.stage) \/ at.c < Inner(at.stage)
       /\ at'.stage = at.stage
  BY <1>2, LastOfPosition
<1>12. (at'.c > 1) => at.c < Inner(at.stage)
  BY <1>11
<1>13. (at'.c = 1) => at.c = Inner(at.stage)
  BY <1>11
<1> HIDE DEF word
<1>14. at'.c > 1 => at'.orig = SubSeq(in_buf', at'.i + 1, at'.i + w) /\ SameBut(out_buf, in_buf, at.i, w)'
  BY <1>4, <1>9, <1>11, <1>12 DEF SameBut, word
<1> QED BY <1>3, <1>10, <1>11, <1>13, <1>14 DEF BufferOk

\* Single bytes are put back at once, wider integers after the last value.
LEMMA IntUndone ==
    ASSUME EntryOk, DictOk(a_extras), LoopOk, BufferOk, InStage, in_buf' = in_buf,
           Shape[at.stage].kind = "int",
           NEW b, NEW ranIt \in BOOLEAN, NEW last \in Nat, Iteration(b, ranIt, last),
           out_buf' = Restored(at.stage, at.i, at.c, Orig, b, ranIt, last),
           NextIteration(last)
    PROVE  BufferOk'
<1> DEFINE w == Shape[at.stage].w
           word == SubSeq(in_buf, at.i + 1, at.i + w)
<1>1. /\ in_buf \in Seq(Byte) /\ at.stage \in Range(Stages) /\ Wanted(at.stage)
      /\ at.i \in Nat /\ at.c \in Nat \ {0} /\ at.c <= Inner(at.stage)
  BY DEF EntryOk, LoopOk, InStage
<1>2. Inner(at.stage) \in Nat
  BY <1>1, InnerOk
<1>3. w \in Nat
  BY <1>1, Shapes
<1>4. at.i + w <= Len(in_buf) /\ Orig = word
  BY OrigOk
<1>5. SameBut(out_buf, in_buf, at.i, w)
  <2>1. CASE at.c = 1
    BY <1>1, <2>1, SameSelf DEF BufferOk
  <2>2. CASE at.c > 1
    BY <2>2 DEF BufferOk
  <2> QED BY <1>1, <2>1, <2>2
<1>6. SameBut(b, in_buf, at.i, w)
  <2>1. CASE b = out_buf
    BY <1>5, <2>1
  <2>2. CASE b = Mutated(at.stage, at.i, at.c, Orig)
    <3>1. PICK v : b = Put(out_buf, at.i, Bytes(v, w))
      BY <2>2 DEF Mutated
    <3>2. Bytes(v, w) \in Seq(Byte) /\ Len(Bytes(v, w)) = w
      BY <1>3, BytesSeq
    <3> QED BY <1>1, <1>3, <1>5, <3>1, <3>2, PutSame
  <2> QED BY <2>1, <2>2 DEF Iteration
<1>7. Put(b, at.i, word) = in_buf
  BY <1>1, <1>3, <1>4, <1>6, PutBack
<1>10. /\ SameBut(out_buf', in_buf, at.i, w)
       /\ at.c = Inner(at.stage) \/ at.stage = "int8" => out_buf' = in_buf
  <2>1. CASE at.stage = "int8"
    <3>1. out_buf' = IF ranIt THEN Put(b, at.i, word) ELSE b
      BY <1>4, <2>1 DEF Restored
    <3>2. out_buf' = in_buf
      BY <1>7, <2>1, <3>1 DEF Iteration, BufferOk
    <3> QED BY <1>1, <3>2, SameSelf
  <2>2. CASE at.stage # "int8"
    <3>1. out_buf' = IF at.c = Inner(at.stage) THEN Put(b, at.i, word) ELSE b
      BY <1>4, <2>2 DEF Restored
    <3> QED BY <1>1, <1>6, <1>7, <2>2, <3>1, SameSelf
  <2> QED BY <2>1, <2>2
<1>11. /\ at.c = Inner(at.stage) => at'.i = at.i + 1 /\ at'.c = 1 /\ at'.last = 0
       /\ at.c < Inner(at.stage) => at'.i = at.i /\ at'.c > 1 /\ at'.orig = Orig
       /\ at.c = Inner(at.stage) \/ at.c < Inner(at.stage)
       /\ at'.stage = at.stage
  BY <1>2, LastOfPosition
<1>12. (at'.c > 1) => at.c < Inner(at.stage)
  BY <1>11
<1>13. (at'.c = 1) => at.c = Inner(at.stage)
  BY <1>11
<1> HIDE DEF word
<1>14. at'.c > 1 => at'.orig = SubSeq(in_buf', at'.i + 1, at'.i + w) /\ SameBut(out_buf, in_buf, at.i, w)'
  BY <1>4, <1>10, <1>11, <1>12 DEF SameBut, word
<1> QED BY <1>10, <1>11, <1>13, <1>14 DEF BufferOk

\* Tokens are laid over one another in order of length, and the last one's length
\* is put back.
LEMMA TokensUndone ==
    ASSUME EntryOk, DictOk(a_extras), LoopOk, BufferOk, InStage, in_buf' = in_buf,
           at.stage = "flip1" \/ a_extras' = a_extras,
           Shape[at.stage].kind = "over",
           NEW b, NEW ranIt \in BOOLEAN, NEW last \in Nat, Iteration(b, ranIt, last),
           out_buf' = Restored(at.stage, at.i, at.c, Orig, b, ranIt, last),
           NextIteration(last)
    PROVE  BufferOk'
<1> DEFINE T == Tokens(at.stage)
           I == Inner(at.stage)
<1>1. /\ in_buf \in Seq(Byte) /\ Len(in_buf) \in Nat /\ Len(in_buf) >= 1
      /\ at.stage \in Range(Stages) /\ Wanted(at.stage)
      /\ at.i \in Nat /\ at.c \in Nat \ {0} /\ at.c <= I /\ at.i < Positions(at.stage)
      /\ at.last \in Nat
  BY Constants DEF EntryOk, LoopOk, InStage
<1>2. /\ I \in Nat /\ I = Len(T) /\ T \in Seq(Seq(Byte))
      /\ \A k, m \in 1..Len(T) : k < m => Len(T[k]) <= Len(T[m])
  BY <1>1, InnerOk, TokensSorted
<1>3. at.stage # "int8" /\ Shape[at.stage].w = 1
  BY <1>1, Shapes
<1>4. at.i + 1 <= Len(in_buf)
  <2>1. Positions(at.stage) = Len(in_buf) - 1 + 1
    BY <1>1, <1>3, PositionsOk
  <2> QED BY <1>1, <2>1
<1>5. /\ at.i + at.last <= Len(in_buf) /\ SameBut(out_buf, in_buf, at.i, at.last)
      /\ \A m \in at.c..I : at.last <= Len(T[m])
  BY DEF BufferOk
<1>s. /\ at'.stage = at.stage
      /\ at.c = I => at'.i = at.i + 1 /\ at'.c = 1 /\ at'.last = 0
      /\ at.c < I => at'.i = at.i /\ at'.c = at.c + 1 /\ at'.c > 1 /\ at'.last = last
      /\ at.c = I \/ at.c < I
  BY <1>2, LastOfPosition
<1>t. T' = T /\ I' = I
  BY <1>1, <1>s, SameStage
<1>6. out_buf' = IF at.c = I THEN Put(b, at.i, SubSeq(in_buf, at.i + 1, at.i + last)) ELSE b
  BY <1>3 DEF Restored
<1>m. ASSUME b = Mutated(at.stage, at.i, at.c, Orig), Runs(at.stage, at.i, at.c, Orig)
      PROVE  b = Put(out_buf, at.i, T[at.c]) /\ Len(T[at.c]) <= Len(in_buf) - at.i
  BY <1>m DEF Mutated, Runs
<1> HIDE DEF T, I
<1>7. /\ SameBut(b, in_buf, at.i, last) /\ at.i + last <= Len(in_buf)
      /\ \A m \in (at.c + 1)..I : last <= Len(T[m])
  <2>1. CASE b = out_buf /\ last = at.last
    BY <1>1, <1>2, <1>5, <2>1
  <2>2. CASE /\ b = Mutated(at.stage, at.i, at.c, Orig) /\ Runs(at.stage, at.i, at.c, Orig)
             /\ last = Len(T[at.c])
    <3>1. at.c \in 1..Len(T) /\ at.c \in at.c..I
      BY <1>1, <1>2
    <3>2. T[at.c] \in Seq(Byte) /\ at.last <= last
      BY <1>2, <1>5, <2>2, <3>1
    <3>3. b = Put(out_buf, at.i, T[at.c]) /\ last <= Len(in_buf) - at.i
      BY <1>m, <2>2
    <3>4. SameBut(b, in_buf, at.i, last)
      BY <1>1, <1>5, <2>2, <3>2, <3>3, PutSame
    <3>5. \A m \in (at.c + 1)..I : last <= Len(T[m])
      BY <1>1, <1>2, <2>2, <3>1
    <3> QED BY <1>1, <3>3, <3>4, <3>5
  <2> QED BY <2>1, <2>2 DEF Iteration, T
<1>8. CASE at.c = I
  <2>1. out_buf' = in_buf
    BY <1>1, <1>6, <1>7, <1>8, PutBack
  <2>2. at'.i = at.i + 1 /\ at'.c = 1 /\ at'.last = 0
    BY <1>s, <1>8
  <2>3. SameBut(out_buf, in_buf, at.i, at.last)'
    BY <1>1, <2>1 DEF SameBut
  <2>4. \A m \in 1..Len(T) : 0 <= Len(T[m])
    BY <1>2
  <2>5. at'.i + at'.last <= Len(in_buf') /\ \A m \in (at'.c)..I' : at'.last <= Len(T'[m])
    <3>1. at'.i + at'.last = at.i + 1
      BY <1>1, <2>2
    <3>2. \A m \in 1..I : 0 <= Len(T[m])
      BY <1>2, <2>4
    <3> QED BY <1>1, <1>4, <1>t, <2>2, <3>1, <3>2
  <2> QED BY <1>3, <1>s, <2>1, <2>2, <2>3, <2>5 DEF BufferOk, T, I
<1>9. CASE at.c < I
  <2>1. out_buf' = b
    BY <1>1, <1>2, <1>6, <1>9
  <2>2. at'.i = at.i /\ at'.c = at.c + 1 /\ at'.last = last /\ at'.c # 1
    BY <1>1, <1>s, <1>9
  <2>3. SameBut(out_buf, in_buf, at.i, at.last)'
    BY <1>7, <2>1, <2>2 DEF SameBut
  <2>4. at'.i + at'.last <= Len(in_buf') /\ \A m \in (at'.c)..I' : at'.last <= Len(T'[m])
    BY <1>7, <1>t, <2>2
  <2> QED BY <1>3, <1>s, <2>2, <2>3, <2>4 DEF BufferOk, T, I
<1> QED BY <1>s, <1>8, <1>9

\* Insertion works on a copy.
LEMMA InsertsUndone ==
    ASSUME EntryOk, DictOk(a_extras), LoopOk, BufferOk, InStage, in_buf' = in_buf,
           Shape[at.stage].kind = "insert",
           NEW b, NEW ranIt \in BOOLEAN, NEW last \in Nat, Iteration(b, ranIt, last),
           out_buf' = Restored(at.stage, at.i, at.c, Orig, b, ranIt, last),
           NextIteration(last)
    PROVE  BufferOk'
<1>1. at.stage \in Range(Stages) /\ Wanted(at.stage)
  BY DEF LoopOk
<1>2. Inner(at.stage) \in Nat /\ at.stage # "int8"
  BY <1>1, InnerOk, Shapes
<1>3. out_buf' = in_buf
  BY <1>2 DEF Restored, BufferOk
<1>4. at'.stage = at.stage /\ (at'.c = 1 => at'.last = 0)
  BY <1>2, LastOfPosition
<1> QED BY <1>3, <1>4 DEF BufferOk

\* An iteration of any stage keeps out_buf as near to the entry as BufferOk says.
LEMMA BufferStep ==
    ASSUME EntryOk, DictOk(a_extras), LoopOk, BufferOk, InStage, in_buf' = in_buf,
           at.stage = "flip1" \/ a_extras' = a_extras,
           NEW b, NEW ranIt \in BOOLEAN, NEW last \in Nat, Iteration(b, ranIt, last),
           out_buf' = Restored(at.stage, at.i, at.c, Orig, b, ranIt, last),
           NextIteration(last)
    PROVE  BufferOk'
<1>1. at.stage \in Range(Stages)
  BY DEF LoopOk
<1>2. Shape[at.stage].kind \in {"bits", "bytes", "arith", "int", "over", "insert"}
  BY <1>1, Shapes
<1> QED BY <1>2, FlipsUndone, ArithUndone, IntUndone, TokensUndone, InsertsUndone

-----------------------------------------------------------------------------
(* The steps of the deterministic stages.                                   *)
\* A stage starts from the entry.
LEMMA StartOk ==
    ASSUME EntryOk, pc \in {"written", "stage"}, DictOk(a_extras),
           NEW s \in Range(Stages), Wanted(s),
           UNCHANGED <<in_buf, a_extras>>, out_buf' = in_buf, StartStage(s)
    PROVE  LoopOk' /\ BufferOk' /\ CountOk'
<1>1. in_buf \in Seq(Byte) /\ Len(in_buf) \in Nat /\ Len(in_buf) >= 1
  BY Constants DEF EntryOk
<1>2. at' = [stage |-> s, i |-> 0, c |-> 1, orig |-> <<>>, last |-> 0]
  BY DEF StartStage, Idle
<1>3. Positions(s) \in Nat \ {0} /\ Inner(s) \in Nat \ {0}
  BY <1>1, PositionsOk, InnerOk
<1>4. Positions(at.stage)' = Positions(s) /\ Wanted(at.stage)'
  BY <1>2 DEF Positions, Wanted
<1>5. Tokens(at.stage)' = Tokens(s)
  BY <1>2 DEF Tokens
<1>6. Inner(at.stage)' = Inner(s)
  BY <1>2 DEF Inner, Tokens, Orders, Interesting
<1>7. /\ at' \in [stage : Range(Stages), i : Nat, c : Nat \ {0}, orig : Seq(Byte), last : Nat]
      /\ at'.i = 0 /\ at'.c = 1 /\ at'.last = 0 /\ at'.stage = s
  BY <1>2
<1>8. LoopOk'
  BY <1>3, <1>4, <1>6, <1>7 DEF LoopOk
<1>9. CountOk'
  <2>1. stage_cur' = 0 /\ stage_max' = Positions(s) * Inner(s)
    BY DEF StartStage
  <2>2. Positions(s) * Inner(s) \in Int /\ (Positions(s) - 0) * Inner(s) = Positions(s) * Inner(s)
    BY <1>3
  <2> QED BY <1>4, <1>6, <1>7, <2>1, <2>2 DEF CountOk
<1>10. BufferOk'
  <2>1. CASE Shape[s].kind = "over"
    <3>1. Tokens(s) \in Seq(Seq(Byte)) /\ Inner(s) = Len(Tokens(s))
      BY <2>1, InnerOk, TokensSorted
    <3>2. \A m \in 1..Inner(s) : 0 <= Len(Tokens(s)[m])
      BY <3>1
    <3>3. SameBut(out_buf, in_buf, at.i, at.last)'
      BY <1>1 DEF SameBut
    <3>4. s # "int8"
      BY <2>1, Shapes
    <3> QED BY <1>1, <1>5, <1>6, <1>7, <2>1, <3>2, <3>3, <3>4 DEF BufferOk
  <2>2. CASE Shape[s].kind # "over"
    BY <1>7, <2>2 DEF BufferOk
  <2> QED BY <2>1, <2>2
<1> QED BY <1>8, <1>9, <1>10

\* The stage that follows is one of those that are not left out.
LEMMA NextStage ==
    ASSUME NEW s, Later(s) # {}
    PROVE  /\ Min(Later(s)) \in Later(s) /\ \A k \in Later(s) : Min(Later(s)) <= k
           /\ Stages[Min(Later(s))] \in Range(Stages) /\ Wanted(Stages[Min(Later(s))])
<1>1. DOMAIN Stages = 1..15
  BY DEF Stages
<1>2. Later(s) \in SUBSET Nat
  BY <1>1 DEF Later
<1>3. \E x \in Later(s) : \A y \in Later(s) : x <= y
  BY <1>2, NatMin
<1>4. Min(Later(s)) \in Later(s) /\ \A k \in Later(s) : Min(Later(s)) <= k
  BY <1>3 DEF Min
<1>5. Min(Later(s)) \in DOMAIN Stages /\ Wanted(Stages[Min(Later(s))])
  BY <1>4 DEF Later
<1> QED BY <1>4, <1>5 DEF Range

\* A stage that is over has put everything back.
LEMMA StageOver ==
    ASSUME LoopOk, BufferOk, CountOk, Positions(at.stage) \in Nat, Inner(at.stage) \in Nat,
           at.i >= Positions(at.stage)
    PROVE  at.c = 1 /\ out_buf = in_buf /\ stage_cur = stage_max
<1>1. at.i \in Nat /\ at.i <= Positions(at.stage)
  BY DEF LoopOk
<1>2. at.i = Positions(at.stage)
  BY <1>1
<1>3. at.c = 1 /\ out_buf = in_buf
  BY <1>2 DEF LoopOk, BufferOk
<1>4. stage_max - stage_cur = 0
  <2>1. (Positions(at.stage) - at.i) * Inner(at.stage) = 0
    BY <1>2
  <2>2. stage_max - stage_cur = (Positions(at.stage) - at.i) * Inner(at.stage) - (at.c - 1)
    BY DEF CountOk
  <2> QED BY <1>3, <2>1, <2>2
<1> QED BY <1>3, <1>4 DEF CountOk

\* A position that the effector map leaves out.
LEMMA SkipPositionOk ==
    ASSUME EntryOk, DictOk(a_extras), LoopOk, BufferOk, CountOk, SkipPosition
    PROVE  LoopOk' /\ BufferOk' /\ CountOk'
<1> DEFINE P == Positions(at.stage)
           I == Inner(at.stage)
<1>1. /\ at \in [stage : Range(Stages), i : Nat, c : Nat \ {0}, orig : Seq(Byte), last : Nat]
      /\ Wanted(at.stage) /\ at.c <= I /\ at.i < P /\ pc = "stage"
  BY DEF LoopOk, SkipPosition, InStage
<1>2. in_buf \in Seq(Byte) /\ Len(in_buf) >= 1
  BY <1>1, Constants DEF EntryOk
<1>3. P \in Nat /\ I \in Nat \ {0}
  BY <1>1, <1>2, PositionsOk, InnerOk
<1>4. /\ at.c = 1 /\ out_buf = in_buf /\ at.last = 0
      /\ Shape[at.stage].kind \in {"bytes", "arith", "int"}
  <2>1. ~Consulted(at.stage, at.i)
    BY DEF SkipPosition
  <2>2. at.c = 1
    BY <1>1, <2>1 DEF LoopOk
  <2> QED BY <2>1, <2>2 DEF Consulted, BufferOk
<1>5. /\ at' = [at EXCEPT !.i = @ + 1] /\ UNCHANGED <<in_buf, out_buf, a_extras, stage_cur>>
      /\ stage_max' = stage_max - I
  BY DEF SkipPosition
<1>6. /\ at' \in [stage : Range(Stages), i : Nat, c : Nat \ {0}, orig : Seq(Byte), last : Nat]
      /\ at'.stage = at.stage /\ at'.i = at.i + 1 /\ at'.c = 1 /\ at'.last = 0
  BY <1>1, <1>4, <1>5
<1>7. P' = P /\ I' = I /\ Wanted(at.stage)'
  BY <1>1, <1>5, <1>6, SameStage
<1>8. /\ stage_cur \in Int /\ stage_max \in Int
      /\ stage_max - stage_cur = (P - at.i) * I - (at.c - 1)
  BY DEF CountOk
<1> HIDE DEF P, I
<1>9. stage_max' - stage_cur' = (P' - at'.i) * I' - (at'.c - 1)
  <2>1. (P - at.i) * I \in Int
    BY <1>1, <1>3
  <2>2. (P - (at.i + 1)) * I = (P - at.i) * I - I
    BY <1>1, <1>3
  <2>3. (P' - at'.i) * I' = (P - (at.i + 1)) * I
    BY <1>6, <1>7
  <2> QED BY <1>3, <1>4, <1>5, <1>6, <1>8, <2>1, <2>2, <2>3
<1>10. at'.i <= P' /\ at'.c <= I'
  BY <1>1, <1>3, <1>6, <1>7
<1>11. stage_max' \in Int /\ stage_cur' \in Int
  BY <1>3, <1>5, <1>8
<1>12. LoopOk' /\ CountOk'
  BY <1>6, <1>7, <1>9, <1>10, <1>11 DEF LoopOk, CountOk, P, I
<1>13. BufferOk'
  BY <1>4, <1>5, <1>6 DEF BufferOk
<1> QED BY <1>12, <1>13

\* An iteration that is left out.
LEMMA SkipCandidateOk ==
    ASSUME EntryOk, DictOk(a_extras), LoopOk, BufferOk, CountOk, SkipCandidate
    PROVE  LoopOk' /\ BufferOk' /\ CountOk'
<1>1. /\ InStage /\ Consulted(at.stage, at.i) /\ at.stage \in Range(Stages) /\ at.last \in Nat
      /\ UNCHANGED <<in_buf, a_extras, eff_map, stage_cur>>
      /\ stage_max' = stage_max - 1 /\ NextIteration(at.last)
      /\ out_buf' = Restored(at.stage, at.i, at.c, Orig, out_buf, FALSE, at.last)
  BY DEF SkipCandidate, LoopOk
<1>2. stage_cur' \in Int /\ stage_max' \in Int /\ stage_max' - stage_cur' = (stage_max - stage_cur) - 1
  BY <1>1 DEF CountOk
<1>3. LoopOk' /\ CountOk'
  BY <1>1, <1>2, LoopStep
<1>4. Shape[at.stage].kind \notin {"bits", "bytes"}
  <2>1. CASE ~Runs(at.stage, at.i, at.c, Orig)
    BY <2>1 DEF Runs
  <2>2. CASE at.stage = "ext_UO"
    BY <1>1, <2>2, Shapes
  <2> QED BY <2>1, <2>2 DEF SkipCandidate
<1>5. Iteration(out_buf, FALSE, at.last)
  BY <1>4 DEF Iteration
<1>6. BufferOk'
  BY <1>1, <1>5, BufferStep
<1> QED BY <1>3, <1>6

\* In the first stage out_buf is the entry, and the byte a bit belongs to is in it.
LEMMA ByteInEntry ==
    ASSUME NEW n \in Nat, NEW i \in Nat, i < n * BITS
    PROVE  i \div BITS \in 0..(n - 1)
<1>1. BITS \in Nat /\ BITS > 0
  BY StageConstants
<1> DEFINE q == i \div BITS
<1>2. q \in Nat /\ BITS * q <= i
  BY <1>1
<1>3. n * BITS = BITS * n /\ BITS * n \in Int
  BY <1>1
<1> HIDE DEF q
<1>4. ASSUME q >= n PROVE BITS * q >= BITS * n
  <2>1. q - n \in Nat
    BY <1>2, <1>4
  <2>2. BITS * (q - n) >= 0
    BY <1>1, <2>1
  <2>3. BITS * (q - n) = BITS * q - BITS * n
    BY <1>1, <1>2
  <2>4. BITS * q \in Int
    BY <1>1, <1>2
  <2> QED BY <1>3, <2>2, <2>3, <2>4
<1>5. BITS * q \in Int
  BY <1>1, <1>2
<1>6. ~(q >= n)
  BY <1>2, <1>3, <1>4, <1>5
<1>7. q \in 0..(n - 1)
  BY <1>2, <1>6
<1> QED BY <1>7 DEF q

\* What is collected are bytes of the entry, and the dictionary stays sorted.
LEMMA CollectingOk ==
    ASSUME pc = "stage", TokensOk, NEW p \in Nat, NEW ck, out_buf[p + 1] \in Byte, Collecting(p, ck)
    PROVE  /\ DictOk(a_extras') /\ tok'.collect \in Seq(Byte) /\ tok'.len \in Nat
           /\ DOMAIN tok' = {"collect", "len", "prev"}
<1> DEFINE atEnd == p = Len(in_buf) - 1 /\ ck = tok.prev
           first == IF atEnd THEN Collected(tok, out_buf[p + 1]) ELSE tok
           reset == IF ck # tok.prev THEN [collect |-> <<>>, len |-> 0, prev |-> ck] ELSE first
           Ok(t) == t.collect \in Seq(Byte) /\ t.len \in Nat /\ DOMAIN t = {"collect", "len", "prev"}
<1>1. Ok(tok) /\ DictOk(a_extras)
  BY DEF TokensOk
<1>2. ASSUME NEW t, Ok(t) PROVE Ok(Collected(t, out_buf[p + 1]))
  BY <1>2, CollectedOk
<1>3. Ok([collect |-> <<>>, len |-> 0, prev |-> ck])
  OBVIOUS
<1> HIDE DEF Ok
<1>4. Ok(first)
  BY <1>1, <1>2
<1>5. Ok(reset)
  BY <1>3, <1>4
<1>6. tok' = IF ck # exec_cksum THEN Collected(reset, out_buf[p + 1]) ELSE reset
  BY DEF Collecting
<1>7. a_extras' = a_extras \/ a_extras' \in maybe_add_auto(a_extras, first.collect)
  BY DEF Collecting
<1> HIDE DEF reset, first
<1>8. Ok(tok')
  BY <1>2, <1>5, <1>6
<1>9. DictOk(a_extras')
  <2>1. first.collect \in Seq(Byte)
    BY <1>4 DEF Ok
  <2> QED BY <1>1, <1>7, <2>1, AutoOk
<1> QED BY <1>8, <1>9 DEF Ok

\* An iteration that runs the target.
LEMMA RunCandidateOk ==
    ASSUME EntryOk, TokensOk, DetInv, RunCandidate
    PROVE  TokensOk' /\ LoopOk' /\ BufferOk' /\ CountOk'
<1> DEFINE b == Mutated(at.stage, at.i, at.c, Orig)
           last == IF Shape[at.stage].kind = "over" THEN Len(Tokens(at.stage)[at.c]) ELSE 0
<1>1. /\ InStage /\ Consulted(at.stage, at.i) /\ pc = "stage" /\ pc' = pc
      /\ Runs(at.stage, at.i, at.c, Orig)
      /\ UNCHANGED <<in_buf, stage_max>> /\ stage_cur' = stage_cur + 1
  BY DEF RunCandidate, InStage
<1>2. LoopOk /\ BufferOk /\ CountOk /\ DictOk(a_extras)
  BY <1>1 DEF DetInv, TokensOk
<1>3. /\ out_buf' = Restored(at.stage, at.i, at.c, Orig, b, TRUE, last) /\ NextIteration(last)
      /\ at.stage = "flip8" \/ eff_map' = eff_map
      /\ IF at.stage = "flip1" /\ at.i % BITS = BITS - 1
         THEN Collecting(at.i \div BITS, cksum(b))
         ELSE UNCHANGED <<tok, seen, a_extras>>
  BY DEF RunCandidate
<1>4. /\ at.stage \in Range(Stages) /\ Wanted(at.stage) /\ at.c \in Nat \ {0}
      /\ at.c <= Inner(at.stage) /\ at.i \in Nat /\ at.i < Positions(at.stage)
  BY <1>1, <1>2 DEF LoopOk, InStage
<1>5. last \in Nat
  <2>1. CASE Shape[at.stage].kind = "over"
    <3>1. Tokens(at.stage) \in Seq(Seq(Byte)) /\ Inner(at.stage) = Len(Tokens(at.stage))
      BY <1>2, <1>4, <2>1, TokensSorted, InnerOk
    <3>2. at.c \in 1..Len(Tokens(at.stage))
      BY <1>4, <3>1
    <3>3. Tokens(at.stage)[at.c] \in Seq(Byte)
      BY <3>1, <3>2
    <3> QED BY <2>1, <3>3
  <2>2. CASE Shape[at.stage].kind # "over"
    BY <2>2
  <2> QED BY <2>1, <2>2
<1>6. Iteration(b, TRUE, last)
  BY <1>1 DEF Iteration
<1> HIDE DEF b, last
<1>7. at.stage = "flip1" \/ a_extras' = a_extras
  BY <1>3
<1>8. stage_cur' \in Int /\ stage_max' \in Int /\ stage_max' - stage_cur' = (stage_max - stage_cur) - 1
  BY <1>1, <1>2 DEF CountOk
<1>9. LoopOk' /\ CountOk'
  BY <1>1, <1>2, <1>3, <1>5, <1>7, <1>8, LoopStep
<1>10. BufferOk'
  BY <1>1, <1>2, <1>3, <1>5, <1>6, <1>7, BufferStep
<1>11. TokensOk'
  <2>1. CASE at.stage = "flip1" /\ at.i % BITS = BITS - 1
    <3>1. /\ in_buf \in Seq(Byte) /\ Len(in_buf) \in Nat /\ Len(in_buf) >= 1 /\ BITS \in Nat
      BY <1>1, Constants, StageConstants DEF EntryOk
    <3>2. Shape[at.stage].kind = "bits" /\ Shape[at.stage].w = 1
      <4>1. Shape["flip1"].kind = "bits" /\ Shape["flip1"].w = 1
        BY StageNames DEF Shape
      <4> QED BY <2>1, <4>1
    <3>3. Inner(at.stage) = 1 /\ Positions(at.stage) = Len(in_buf) * BITS - 1 + 1
      BY <3>2 DEF Inner, Positions
    <3>4. at.i < Len(in_buf) * BITS /\ at.c = 1
      <4>1. Len(in_buf) * BITS \in Int
        BY <3>1
      <4> QED BY <1>4, <3>3, <4>1
    <3>5. at.i \div BITS \in 0..(Len(in_buf) - 1)
      BY <1>4, <3>1, <3>4, ByteInEntry
    <3>6. out_buf[at.i \div BITS + 1] \in Byte
      <4>1. at.i \div BITS + 1 \in 1..Len(in_buf) /\ out_buf = in_buf
        BY <1>2, <3>1, <3>4, <3>5 DEF BufferOk
      <4> QED BY <3>1, <4>1
    <3>7. at.i \div BITS \in Nat
      BY <3>5
    <3> QED BY <1>1, <1>3, <2>1, <3>6, <3>7, CollectingOk DEF TokensOk
  <2>2. CASE ~(at.stage = "flip1" /\ at.i % BITS = BITS - 1)
    <3>1. UNCHANGED <<tok, a_extras>>
      BY <1>3, <2>2
    <3> QED BY <1>1, <3>1 DEF TokensOk, DictOk
  <2> QED BY <2>1, <2>2
<1> QED BY <1>9, <1>10, <1>11

\* The next stage starts from the entry, with its own count.
LEMMA EndStageOk ==
    ASSUME EntryOk, TokensOk, DetInv, EndStage
    PROVE  LoopOk' /\ BufferOk' /\ CountOk'
<1>1. /\ pc = "stage" /\ at.i >= Positions(at.stage) /\ Later(at.stage) # {}
      /\ StartStage(Stages[Min(Later(at.stage))]) /\ UNCHANGED <<in_buf, out_buf, a_extras>>
  BY DEF EndStage
<1>2. LoopOk /\ BufferOk /\ CountOk /\ DictOk(a_extras) /\ at.stage \in Range(Stages) /\ Wanted(at.stage)
  BY <1>1 DEF DetInv, TokensOk, LoopOk
<1>3. in_buf \in Seq(Byte) /\ Len(in_buf) >= 1
  BY <1>1, Constants DEF EntryOk
<1>4. Positions(at.stage) \in Nat /\ Inner(at.stage) \in Nat
  BY <1>2, <1>3, PositionsOk, InnerOk
<1>5. out_buf = in_buf
  BY <1>1, <1>2, <1>4, StageOver
<1> QED BY <1>1, <1>2, <1>5, NextStage, StartOk

\* Every step keeps what is known of the deterministic stages.
LEMMA StageStep ==
    ASSUME EntryOk, TokensOk, DetInv, [Next]_vars
    PROVE  TokensOk' /\ DetInv'
<1>1. CASE TrimRun \/ TrimHalve \/ TrimWrite
  <2>1. pc \in {"trim", "write"} /\ pc' # "stage" /\ UNCHANGED <<a_extras, tok>>
    BY <1>1 DEF TrimRun, TrimHalve, TrimWrite
  <2> QED BY <2>1 DEF TokensOk, DictOk, DetInv
<1>2. CASE StartDet
  <2>1. /\ pc = "written" /\ UNCHANGED <<a_extras, tok, in_buf>> /\ out_buf' = in_buf
        /\ StartStage("flip1")
    BY <1>2 DEF StartDet
  <2>2. TokensOk'
    BY <2>1 DEF TokensOk, DictOk
  <2>3. "flip1" \in Range(Stages) /\ Wanted("flip1")
    BY StageNames DEF Wanted
  <2>4. DictOk(a_extras)
    BY <2>1 DEF TokensOk
  <2> QED BY <2>1, <2>2, <2>3, <2>4, StartOk DEF DetInv
<1>3. CASE SkipPosition \/ SkipCandidate
  <2>1. pc = "stage" /\ UNCHANGED <<pc, a_extras, tok>>
    BY <1>3 DEF SkipPosition, SkipCandidate, InStage
  <2>2. TokensOk' /\ DictOk(a_extras) /\ LoopOk /\ BufferOk /\ CountOk
    BY <2>1 DEF TokensOk, DictOk, DetInv
  <2> QED BY <1>3, <2>2, SkipPositionOk, SkipCandidateOk DEF DetInv
<1>4. CASE RunCandidate
  BY <1>4, RunCandidateOk DEF DetInv
<1>5. CASE EndStage
  <2>1. pc = "stage" /\ UNCHANGED <<pc, a_extras, tok>>
    BY <1>5 DEF EndStage
  <2>2. TokensOk'
    BY <2>1 DEF TokensOk, DictOk
  <2> QED BY <1>5, <2>2, EndStageOk DEF DetInv
<1>6. CASE pc' \in {"havoc", "done"}
  BY <1>6 DEF TokensOk, DetInv
<1>7. CASE TrimStop \/ SkipDet \/ Abandoned \/ AbandonEntry \/ EndDet \/ HavocStep \/ Finish
  <2>1. pc' \in {"havoc", "done"}
    BY <1>7 DEF TrimStop, SkipDet, Abandoned, AbandonEntry, EndDet, HavocStep, fvars, Finish
  <2> QED BY <1>6, <2>1
<1>8. CASE UNCHANGED vars
  <2>1. UNCHANGED <<pc, in_buf, out_buf, at, eff_map, a_extras, tok, stage_cur, stage_max>>
    BY <1>8 DEF vars, fvars, hvars
  <2>2. TokensOk'
    BY <2>1 DEF TokensOk, DictOk
  <2>3. DetInv'
    BY <2>1 DEF DetInv, LoopOk, BufferOk, CountOk, Wanted, Positions, Inner, Tokens, Consulted, Flagged,
                EFF_APOS, SameBut, Orders, Interesting
  <2> QED BY <2>2, <2>3
<1> QED BY <1>1, <1>2, <1>3, <1>4, <1>5, <1>7, <1>8 DEF Next

\* Before the stages nothing is collected and the dictionary is sorted.
LEMMA StageInit == ASSUME Init PROVE TokensOk /\ DetInv
<1>1. PICK e \in Cases : a_extras = e.dict
  BY DEF Init
<1>2. DictOk(a_extras)
  BY <1>1, FuzzOneAssumption DEF FuzzOneAssumption, DictOk, DictEntry
<1>3. tok = [collect |-> <<>>, len |-> 0, prev |-> exec_cksum] /\ pc # "stage"
  BY DEF Init, NoTok
<1> QED BY <1>2, <1>3 DEF TokensOk, DetInv

\* The loops, the buffer and the counts of the stages are always as described.
LEMMA StageInvariant == Spec => [](EntryOk /\ TokensOk /\ DetInv)
<1>1. Init => TokensOk /\ DetInv
  BY StageInit
<1>2. EntryOk /\ HInv /\ TokensOk /\ DetInv /\ [Next]_vars => (TokensOk /\ DetInv)'
  BY StageStep
<1> QED BY <1>1, <1>2, EntryInvariant, PTL DEF Spec

\* Every position of every deterministic stage starts from the entry itself, and
\* what a stage adds to stage_cycles is the number of its runs, for every entry,
\* dictionary, program and set of constants.  The argument: flips undo themselves;
\* between iterations the other stages differ from the entry only by the word they
\* saved or by the longest token so far, and put that back; tokens are sorted by
\* length, also after maybe_add_auto; stage_max is off by the iterations to come.
THEOREM StagesStartFromEntry == Spec => []StagesExact
<1>1. EntryOk /\ TokensOk /\ DetInv => StagesExact
  <2> SUFFICES ASSUME EntryOk, TokensOk, DetInv, pc = "stage"
               PROVE  /\ at.c = 1 => out_buf = in_buf
                      /\ at.i >= Positions(at.stage) => stage_cur = stage_max
    BY DEF StagesExact
  <2>1. LoopOk /\ BufferOk /\ CountOk /\ DictOk(a_extras) /\ at.stage \in Range(Stages) /\ Wanted(at.stage)
    BY DEF DetInv, TokensOk, LoopOk
  <2>2. in_buf \in Seq(Byte) /\ Len(in_buf) >= 1
    BY Constants DEF EntryOk
  <2>3. Positions(at.stage) \in Nat /\ Inner(at.stage) \in Nat
    BY <2>1, <2>2, PositionsOk, InnerOk
  <2> QED BY <2>1, <2>3, StageOver DEF BufferOk
<1> QED BY <1>1, StageInvariant, PTL

-----------------------------------------------------------------------------
(* The effector map.                                                        *)
\* The flag of a byte of the input is in the map.
LEMMA FlagInMap ==
    ASSUME NEW n \in Nat, NEW p \in 0..(n - 1)
    PROVE  /\ EFF_ALEN(n) \in Nat \ {0} /\ EFF_APOS(p) \in 0..(EFF_ALEN(n) - 1)
<1> DEFINE S == 2^EFF_MAP_SCALE2
<1>1. S \in Nat /\ S > 0
  BY StageConstants
<1>2. EFF_APOS(p) = p \div S /\ EFF_ALEN(n) = (n \div S) + (IF n % S = 0 THEN 0 ELSE 1)
  BY DEF EFF_APOS, EFF_ALEN
<1> HIDE DEF S
<1> DEFINE q == p \div S
           m == n \div S
<1>3. /\ q \in Nat /\ m \in Nat /\ S * q <= p
      /\ n % S \in Nat /\ n % S = n - S * m /\ n % S < S
  <2>1. p \in Nat
    OBVIOUS
  <2>2. q \in Nat /\ S * q <= p
    BY <1>1, <2>1
  <2>3. m \in Nat /\ n % S \in Nat /\ n % S < S
    BY <1>1
  <2>4. n % S = n - S * m
    BY <1>1
  <2> QED BY <2>2, <2>3, <2>4
<1>a. S * q \in Int /\ S * m \in Int
  BY <1>1, <1>3
<1>4. q = p \div S /\ m = n \div S
  OBVIOUS
<1> HIDE DEF q, m
<1>5. ASSUME q >= m PROVE S * q >= S * m
  <2>1. S * (q - m) >= 0
    BY <1>1, <1>3, <1>5
  <2>2. S * (q - m) = S * q - S * m
    BY <1>1, <1>3
  <2> QED BY <1>a, <2>1, <2>2
<1>6. ASSUME q >= m + 1 PROVE S * q >= S * m + S
  <2>1. S * (q - (m + 1)) >= 0
    BY <1>1, <1>3, <1>6
  <2>2. S * (q - (m + 1)) = S * q - S * m - S
    BY <1>1, <1>3
  <2> QED BY <1>1, <1>a, <2>1, <2>2
<1>7. CASE n % S = 0
  <2>1. n = S * m /\ p < n /\ p \in Int
    <3>1. n - S * m = 0
      BY <1>3, <1>7
    <3> QED BY <1>a, <3>1
  <2>2. ~(q >= m)
    BY <1>3, <1>5, <1>a, <2>1
  <2> QED BY <1>2, <1>3, <1>4, <1>7, <2>2
<1>8. CASE n % S # 0
  <2>1. ~(q >= m + 1)
    BY <1>1, <1>3, <1>6, <1>8, <1>a
  <2> QED BY <1>2, <1>3, <1>4, <1>8, <2>1
<1> QED BY <1>7, <1>8

\* The flags that are set are finitely many, no more than the map has.
LEMMA FlagsBounded ==
    ASSUME NEW n \in Nat, NEW m \in [0..(n - 1) -> 0..2]
    PROVE  /\ IsFiniteSet({k \in DOMAIN m : m[k] # 0})
           /\ Cardinality({k \in DOMAIN m : m[k] # 0}) \in Nat
           /\ Cardinality({k \in DOMAIN m : m[k] # 0}) <= n
<1> DEFINE F == {k \in DOMAIN m : m[k] # 0}
<1>1. F \subseteq 0..(n - 1)
  OBVIOUS
<1>2. IsFiniteSet(0..(n - 1)) /\ Cardinality(0..(n - 1)) = n
  <2>1. 0 \in Int /\ n - 1 \in Int
    OBVIOUS
  <2>2. Cardinality(0..(n - 1)) = IF 0 > n - 1 THEN 0 ELSE (n - 1) - 0 + 1
    BY <2>1, FS_Interval
  <2>3. IsFiniteSet(0..(n - 1))
    BY <2>1, FS_Interval
  <2>4. Cardinality(0..(n - 1)) = n
    BY <2>2
  <2> QED BY <2>3, <2>4
<1> HIDE DEF F
<1>3. IsFiniteSet(F) /\ Cardinality(F) <= Cardinality(0..(n - 1))
  BY <1>1, <1>2, FS_Subset
<1>4. Cardinality(F) \in Nat
  BY <1>3, FS_CardinalityType
<1> QED BY <1>2, <1>3, <1>4 DEF F

\* More flags, more of them counted.
LEMMA MoreFlags ==
    ASSUME NEW n \in Nat, NEW l \in [0..(n - 1) -> 0..2], NEW m \in [0..(n - 1) -> 0..2],
           \A k \in 0..(n - 1) : l[k] # 0 => m[k] # 0
    PROVE  Cardinality({k \in DOMAIN l : l[k] # 0}) <= Cardinality({k \in DOMAIN m : m[k] # 0})
<1>1. {k \in DOMAIN l : l[k] # 0} \subseteq {k \in DOMAIN m : m[k] # 0}
  OBVIOUS
<1>2. IsFiniteSet({k \in DOMAIN m : m[k] # 0})
  BY FlagsBounded
<1> QED BY <1>1, <1>2, FS_Subset

\* Setting a flag that was not set adds one.
LEMMA OneMoreFlag ==
    ASSUME NEW n \in Nat, NEW l \in [0..(n - 1) -> 0..2], NEW x \in 0..(n - 1), l[x] = 0
    PROVE  Cardinality({k \in DOMAIN [l EXCEPT ![x] = 1] : [l EXCEPT ![x] = 1][k] # 0})
               = Cardinality({k \in DOMAIN l : l[k] # 0}) + 1
<1> DEFINE F == {k \in DOMAIN l : l[k] # 0}
           m == [l EXCEPT ![x] = 1]
<1>1. {k \in DOMAIN m : m[k] # 0} = F \cup {x} /\ x \notin F
  OBVIOUS
<1>2. IsFiniteSet(F)
  BY FlagsBounded
<1> HIDE DEF F
<1>3. Cardinality(F \cup {x}) = Cardinality(F) + 1
  BY <1>1, <1>2, FS_AddElement
<1> QED BY <1>1, <1>3 DEF F

\* The map flip8 starts with.
LEMMA SetupOk ==
    ASSUME NEW n \in Nat \ {0}, NEW m \in EffSetup(n)
    PROVE  /\ m \in [0..(EFF_ALEN(n) - 1) -> 0..2]
           /\ (IF EFF_APOS(n - 1) # 0 THEN 2 ELSE 1) <= Cardinality({k \in DOMAIN m : m[k] # 0})
<1> DEFINE z == EFF_APOS(n - 1)
           N == EFF_ALEN(n)
           F == {k \in DOMAIN m : m[k] # 0}
<1>1. N \in Nat \ {0} /\ z \in 0..(N - 1) /\ 0 \in 0..(N - 1)
  <2>1. n \in Nat /\ n - 1 \in 0..(n - 1)
    OBVIOUS
  <2>2. N \in Nat \ {0} /\ z \in 0..(N - 1)
    BY <2>1, FlagInMap
  <2> HIDE DEF N, z
  <2> QED BY <2>2
<1>2. PICK l \in [0..(N - 1) -> 0..2] : m = [l EXCEPT ![0] = 1, ![z] = 1]
  BY DEF EffSetup
<1> HIDE DEF N, z
<1>3. m \in [0..(N - 1) -> 0..2] /\ m[0] = 1 /\ m[z] = 1
  BY <1>1, <1>2
<1>4. IsFiniteSet(F) /\ {0} \cup {z} \subseteq F
  <2>1. N \in Nat
    BY <1>1
  <2>2. IsFiniteSet(F)
    BY <1>3, <2>1, FlagsBounded
  <2>3. 0 \in F /\ z \in F
    BY <1>1, <1>3
  <2> QED BY <2>2, <2>3
<1> HIDE DEF F
<1>5. Cardinality({0} \cup {z}) <= Cardinality(F) /\ Cardinality(F) \in Nat
  BY <1>4, FS_Subset, FS_CardinalityType
<1>6. CASE z # 0
  <2>1. IsFiniteSet({0}) /\ Cardinality({0}) = 1
    BY FS_Singleton
  <2>2. z \notin {0}
    BY <1>6
  <2>3. Cardinality({0} \cup {z}) = Cardinality({0}) + 1
    BY <2>1, <2>2, FS_AddElement
  <2>4. Cardinality({0} \cup {z}) = 2
    <3> DEFINE one == Cardinality({0})
               two == Cardinality({0} \cup {z})
    <3>1. one = 1 /\ two = one + 1
      BY <2>1, <2>3, Zenon
    <3> HIDE DEF one, two
    <3>2. two = 2
      BY <3>1
    <3> QED BY <3>2, Zenon DEF two
  <2> QED BY <1>3, <1>5, <1>6, <2>4 DEF N, z, F
<1>7. CASE z = 0
  <2>1. {0} \cup {z} = {0} /\ Cardinality({0}) = 1
    BY <1>7, FS_Singleton
  <2>2. Cardinality({0} \cup {z}) = 1
    BY <2>1
  <2> QED BY <1>3, <1>5, <1>7, <2>2 DEF N, z, F
<1> QED BY <1>6, <1>7

\* The stages in their order: up to flip8 none is left out, and the stages from
\* flip8 on follow one another.
LEMMA FollowsFlips ==
    ASSUME at.stage \in Range(Stages), Later(at.stage) # {}
    PROVE  LET s == Stages[Min(Later(at.stage))]
           IN  /\ at.stage = "flip1" => s = "flip2"
               /\ at.stage = "flip2" => s = "flip4"
               /\ at.stage = "flip4" => s = "flip8"
               /\ at.stage \notin {"flip1", "flip2", "flip4"} =>
                     s \in Range(Stages) \ {"flip1", "flip2", "flip4", "flip8"}
<1> DEFINE m == Min(Later(at.stage))
<1>1. DOMAIN Stages = 1..15
  BY DEF Stages
<1>2. /\ m \in 1..15 /\ Stages[m] \in Range(Stages) /\ \A k \in Later(at.stage) : m <= k
      /\ \A n \in 1..15 : Stages[n] = at.stage => m > n
  BY <1>1, NextStage DEF Later
<1>3. Wanted("flip2") /\ Wanted("flip4") /\ Wanted("flip8")
  BY DEF Wanted
<1> HIDE DEF m
<1>4. /\ Stages[1] = "flip1" /\ Stages[2] = "flip2" /\ Stages[3] = "flip4" /\ Stages[4] = "flip8"
      /\ \A n \in 1..15 : /\ Stages[n] = "flip1" => n = 1
                          /\ Stages[n] = "flip2" => n = 2
                          /\ Stages[n] = "flip4" => n = 3
                          /\ Stages[n] = "flip8" => n = 4
  BY DEF Stages
<1>5. CASE at.stage = "flip1"
  <2>1. 2 \in Later(at.stage)
    BY <1>1, <1>3, <1>4, <1>5 DEF Later
  <2>2. m = 2
    BY <1>2, <1>4, <1>5, <2>1
  <2> QED BY <1>4, <1>5, <2>2 DEF m
<1>6. CASE at.stage = "flip2"
  <2>1. 3 \in Later(at.stage)
    BY <1>1, <1>3, <1>4, <1>6 DEF Later
  <2>2. m = 3
    BY <1>2, <1>4, <1>6, <2>1
  <2> QED BY <1>4, <1>6, <2>2 DEF m
<1>7. CASE at.stage = "flip4"
  <2>1. 4 \in Later(at.stage)
    BY <1>1, <1>3, <1>4, <1>7 DEF Later
  <2>2. m = 4
    BY <1>2, <1>4, <1>7, <2>1
  <2> QED BY <1>4, <1>7, <2>2 DEF m
<1>8. CASE at.stage \notin {"flip1", "flip2", "flip4"}
  <2>1. PICK n \in 1..15 : Stages[n] = at.stage
    BY <1>1 DEF Range
  <2>2. n \notin {1, 2, 3}
    BY <1>4, <1>8, <2>1
  <2>3. m > 4
    BY <1>2, <2>1, <2>2
  <2>4. Stages[m] \notin {"flip1", "flip2", "flip4", "flip8"}
    BY <1>2, <1>4, <2>3
  <2> QED BY <1>2, <1>8, <2>4 DEF m
<1> QED BY <1>5, <1>6, <1>7, <1>8

\* The stages from flip8 on, and the ones after it.
LEMMA LateStages ==
    /\ {Stages[k] : k \in 4..Len(Stages)} = Range(Stages) \ {"flip1", "flip2", "flip4"}
    /\ {Stages[k] : k \in 5..Len(Stages)} = Range(Stages) \ {"flip1", "flip2", "flip4", "flip8"}
<1>1. Len(Stages) = 15
  BY DEF Stages
<1>2. {Stages[k] : k \in 4..15} = {Stages[4], Stages[5], Stages[6], Stages[7], Stages[8], Stages[9],
          Stages[10], Stages[11], Stages[12], Stages[13], Stages[14], Stages[15]}
  OBVIOUS
<1>3. {Stages[k] : k \in 5..15} = {Stages[5], Stages[6], Stages[7], Stages[8], Stages[9],
          Stages[10], Stages[11], Stages[12], Stages[13], Stages[14], Stages[15]}
  OBVIOUS
<1>4. /\ Stages[4] = "flip8" /\ Stages[5] = "flip16" /\ Stages[6] = "flip32"
      /\ Stages[7] = "arith8" /\ Stages[8] = "arith16" /\ Stages[9] = "arith32"
      /\ Stages[10] = "int8" /\ Stages[11] = "int16" /\ Stages[12] = "int32"
      /\ Stages[13] = "ext_UO" /\ Stages[14] = "ext_UI" /\ Stages[15] = "ext_AO"
  BY DEF Stages
<1> HIDE DEF Stages
<1> QED BY <1>1, <1>2, <1>3, <1>4, StageNames

\* The invariant, once a stage from flip8 on is under way.
LEMMA EffKnown ==
    ASSUME EntryOk, DetInv, EffInv, pc = "stage", at.stage \notin {"flip1", "flip2", "flip4"}
    PROVE  /\ eff_map \in [0..(EFF_ALEN(Len(in_buf)) - 1) -> 0..2]
           /\ eff_cnt \in Nat
           /\ eff_cnt <= Cardinality({k \in DOMAIN eff_map : eff_map[k] # 0})
           /\ \A p \in 0..(Through - 1) :
                 Path(FlipBytes(in_buf, p, 1)) # {} => eff_map[EFF_APOS(p)] # 0
<1>1. at.stage \in Range(Stages)
  BY DEF DetInv, LoopOk
<1>2. at.stage \in {Stages[k] : k \in 4..Len(Stages)}
  BY <1>1, LateStages
<1> QED BY <1>2 DEF EffInv

\* A step that leaves the map, the entry and the program alone, and in flip8 does
\* not move on.
LEMMA EffSame ==
    ASSUME EntryOk, DetInv, EffInv, pc = "stage",
           UNCHANGED <<seed, target, in_buf, eff_map, eff_cnt>>,
           at'.stage = at.stage,
           at.stage = "flip8" => at'.i = at.i
    PROVE  EffInv'
<1>1. CASE at.stage \in {"flip1", "flip2", "flip4"}
  <2>1. at'.stage \notin {Stages[k] : k \in 4..Len(Stages)}
    BY <1>1, LateStages
  <2> QED BY <2>1 DEF EffInv
<1>2. CASE at.stage \notin {"flip1", "flip2", "flip4"}
  <2>1. Through' = Through
    BY DEF Through
  <2>2. \A p : Path(FlipBytes(in_buf, p, 1))' = Path(FlipBytes(in_buf, p, 1))
    BY DEF Path, FlipBytes
  <2>3. EFF_ALEN(Len(in_buf))' = EFF_ALEN(Len(in_buf))
    BY DEF EFF_ALEN, EFF_APOS
  <2>4. \A p : EFF_APOS(p)' = EFF_APOS(p)
    BY DEF EFF_APOS
  <2>5. \A p \in 0..(Through' - 1) : Path(FlipBytes(in_buf, p, 1))' # {} => eff_map'[EFF_APOS(p)] # 0
    BY <1>2, <2>1, <2>2, EffKnown
  <2> QED BY <1>2, <2>3, <2>5, EffKnown DEF EffInv
<1> QED BY <1>1, <1>2

\* flip8 runs every position, and flags it if it takes another path.
LEMMA EffFlip8 ==
    ASSUME EntryOk, TokensOk, DetInv, EffInv, RunCandidate, at.stage = "flip8"
    PROVE  EffInv'
<1> DEFINE n == Len(in_buf)
           N == EFF_ALEN(n)
           b == FlipBytes(in_buf, at.i, 1)
           x == EFF_APOS(at.i)
           flag == EffFlagged(at.i, b)
<1>1. /\ pc = "stage" /\ UNCHANGED <<pc, seed, target, in_buf>> /\ InStage
  BY DEF RunCandidate, InStage
<1>2. /\ in_buf \in Seq(Byte) /\ n \in Nat /\ n >= 1
      /\ LoopOk /\ BufferOk /\ DictOk(a_extras)
  BY <1>1, Constants DEF EntryOk, DetInv, TokensOk
<1>3. /\ at.i \in Nat /\ at.c \in Nat \ {0} /\ at.c <= Inner(at.stage)
      /\ at.stage \in Range(Stages) /\ Wanted(at.stage) /\ at.i < Positions(at.stage)
  BY <1>1, <1>2 DEF LoopOk, InStage
<1>4. Shape[at.stage].kind = "bytes" /\ Shape[at.stage].w = 1
  <2>1. Shape["flip8"].kind = "bytes" /\ Shape["flip8"].w = 1
    BY StageNames DEF Shape
  <2> QED BY <2>1
<1>5. Inner(at.stage) = 1 /\ Positions(at.stage) = n - 1 + 1
  BY <1>4 DEF Inner, Positions
<1>6. at.c = 1 /\ at.i \in 0..(n - 1) /\ out_buf = in_buf
  BY <1>2, <1>3, <1>5 DEF BufferOk
<1>7. Mutated(at.stage, at.i, at.c, Orig) = b
  BY <1>4, <1>6 DEF Mutated
<1>8. /\ eff_map' = IF flag THEN [eff_map EXCEPT ![x] = 1] ELSE eff_map
      /\ eff_cnt' = IF flag THEN eff_cnt + 1 ELSE eff_cnt
  BY <1>7 DEF RunCandidate
<1>9. at'.stage = "flip8" /\ at'.i = at.i + 1
  <2>1. at' = [at EXCEPT !.i = @ + 1, !.c = 1, !.orig = <<>>, !.last = 0]
    BY <1>5, <1>6 DEF RunCandidate, NextIteration
  <2>2. at \in [stage : Range(Stages), i : Nat, c : Nat \ {0}, orig : Seq(Byte), last : Nat]
    BY <1>2 DEF LoopOk
  <2> QED BY <2>1, <2>2
<1>10. /\ eff_map \in [0..(N - 1) -> 0..2] /\ eff_cnt \in Nat
       /\ eff_cnt <= Cardinality({k \in DOMAIN eff_map : eff_map[k] # 0})
       /\ \A p \in 0..(at.i - 1) : Path(FlipBytes(in_buf, p, 1)) # {} => eff_map[EFF_APOS(p)] # 0
  BY <1>1, EffKnown DEF Through
<1>11. N \in Nat \ {0} /\ x \in 0..(N - 1)
  BY <1>2, <1>6, FlagInMap
<1>12. Cardinality({k \in DOMAIN eff_map : eff_map[k] # 0}) \in Nat
  <2>1. N \in Nat
    BY <1>11
  <2> QED BY <1>10, <2>1, FlagsBounded
<1>13. flag => eff_map[x] = 0
  BY DEF EffFlagged, Flagged
<1>14. Path(b) # {} => flag \/ eff_map[x] # 0
  BY DEF EffFlagged, Flagged, cksum, exec_cksum
<1>15. flag \in BOOLEAN
  BY DEF EffFlagged, Flagged
<1> HIDE DEF flag, x, N, b
<1>16. /\ eff_map' \in [0..(N - 1) -> 0..2] /\ eff_cnt' \in Nat
       /\ \A k \in 0..(N - 1) : eff_map[k] # 0 => eff_map'[k] # 0
       /\ flag => eff_map'[x] # 0
  BY <1>8, <1>10, <1>11
<1>17. eff_cnt' <= Cardinality({k \in DOMAIN eff_map' : eff_map'[k] # 0})
  <2>1. CASE flag
    <3>1. eff_map' = [eff_map EXCEPT ![x] = 1] /\ eff_cnt' = eff_cnt + 1 /\ N \in Nat
      BY <1>8, <1>11, <2>1
    <3>2. Cardinality({k \in DOMAIN [eff_map EXCEPT ![x] = 1] : [eff_map EXCEPT ![x] = 1][k] # 0})
              = Cardinality({k \in DOMAIN eff_map : eff_map[k] # 0}) + 1
      BY <1>10, <1>11, <1>13, <2>1, <3>1, OneMoreFlag
    <3>3. Cardinality({k \in DOMAIN eff_map' : eff_map'[k] # 0})
              = Cardinality({k \in DOMAIN eff_map : eff_map[k] # 0}) + 1
      BY <3>1, <3>2
    <3> QED BY <1>10, <1>12, <3>1, <3>3
  <2>2. CASE ~flag
    BY <1>8, <1>10, <2>2
  <2> QED BY <2>1, <2>2
<1>18. ASSUME NEW p \in 0..(Through' - 1), Path(FlipBytes(in_buf, p, 1))' # {}
       PROVE  eff_map'[EFF_APOS(p)] # 0
  <2>1. Path(FlipBytes(in_buf, p, 1)) # {}
    BY <1>1, <1>18 DEF Path, FlipBytes
  <2>2. p \in 0..at.i
    BY <1>3, <1>9 DEF Through
  <2>3. CASE p = at.i
    <3>1. Path(b) # {} /\ EFF_APOS(p) = x
      BY <2>1, <2>3 DEF b, x
    <3> QED BY <1>11, <1>14, <1>16, <3>1
  <2>4. CASE p # at.i
    <3>1. p \in 0..(at.i - 1) /\ p \in 0..(n - 1)
      BY <1>2, <1>3, <1>6, <2>2, <2>4
    <3>2. EFF_APOS(p) \in 0..(N - 1)
      BY <1>2, <3>1, FlagInMap DEF N
    <3> QED BY <1>10, <1>16, <2>1, <3>1, <3>2
  <2> QED BY <2>3, <2>4
<1>19. EFF_ALEN(Len(in_buf))' = N
  BY <1>1 DEF N, EFF_ALEN, EFF_APOS
<1> QED BY <1>16, <1>17, <1>18, <1>19 DEF EffInv

\* The map is set up for flip8, and filled up after it when it is dense.
LEMMA EffEndStage ==
    ASSUME EntryOk, TokensOk, DetInv, EffInv, EndStage
    PROVE  EffInv'
<1> DEFINE n == Len(in_buf)
           N == EFF_ALEN(n)
           s == Stages[Min(Later(at.stage))]
           Map == CASE s = "flip8" ->
                           /\ eff_map' \in EffSetup(Len(in_buf))
                           /\ eff_cnt' = IF EFF_APOS(Len(in_buf) - 1) # 0 THEN 2 ELSE 1
                    [] at.stage = "flip8" /\ EffDense(eff_cnt, Len(in_buf)) ->
                           /\ eff_map' = [k \in DOMAIN eff_map |-> 1]
                           /\ UNCHANGED eff_cnt
                    [] OTHER -> UNCHANGED <<eff_map, eff_cnt>>
<1>1. /\ pc = "stage" /\ UNCHANGED <<pc, seed, target, in_buf>>
      /\ at.i >= Positions(at.stage) /\ Later(at.stage) # {} /\ at' = [Idle EXCEPT !.stage = s] /\ Map
  BY DEF EndStage, StartStage
<1>2. /\ in_buf \in Seq(Byte) /\ n \in Nat /\ n >= 1 /\ at.stage \in Range(Stages) /\ LoopOk
  BY <1>1, Constants DEF EntryOk, DetInv, LoopOk
<1>3. /\ at.stage = "flip1" => s = "flip2"
      /\ at.stage = "flip2" => s = "flip4"
      /\ at.stage = "flip4" => s = "flip8"
      /\ at.stage \notin {"flip1", "flip2", "flip4"} =>
            s \in Range(Stages) \ {"flip1", "flip2", "flip4", "flip8"}
  BY <1>1, <1>2, FollowsFlips
<1>4. at'.stage = s /\ at'.i = 0
  BY <1>1 DEF Idle
<1> HIDE DEF s
<1>5. EFF_ALEN(Len(in_buf))' = N
  BY <1>1 DEF EFF_ALEN, EFF_APOS
<1>6. CASE at.stage \in {"flip1", "flip2"}
  <2>1. at'.stage \notin {Stages[k] : k \in 4..Len(Stages)}
    BY <1>3, <1>4, <1>6, LateStages
  <2> QED BY <2>1 DEF EffInv
<1>7. CASE at.stage = "flip4"
  <2>1. s = "flip8"
    BY <1>3, <1>7
  <2>2. eff_map' \in EffSetup(n) /\ eff_cnt' = IF EFF_APOS(n - 1) # 0 THEN 2 ELSE 1
    BY <1>1, <1>7, <2>1
  <2>3. n \in Nat \ {0}
    BY <1>2
  <2>4. /\ eff_map' \in [0..(N - 1) -> 0..2]
        /\ eff_cnt' <= Cardinality({k \in DOMAIN eff_map' : eff_map'[k] # 0})
    BY <2>2, <2>3, SetupOk
  <2>5. Through' = 0
    BY <1>4, <2>1 DEF Through
  <2>6. eff_cnt' \in Nat
    BY <2>2
  <2>7. ~\E p \in 0..(Through' - 1) : TRUE
    BY <2>5
  <2> QED BY <1>5, <2>4, <2>6, <2>7 DEF EffInv
<1>8. CASE at.stage \notin {"flip1", "flip2", "flip4"}
  <2>1. s # "flip8" /\ at'.stage # "flip8"
    BY <1>3, <1>4, <1>8
  <2>2. /\ eff_map \in [0..(N - 1) -> 0..2] /\ eff_cnt \in Nat
        /\ eff_cnt <= Cardinality({k \in DOMAIN eff_map : eff_map[k] # 0})
        /\ \A p \in 0..(Through - 1) : Path(FlipBytes(in_buf, p, 1)) # {} => eff_map[EFF_APOS(p)] # 0
    BY <1>1, <1>8, EffKnown
  <2>3. Through = n
    <3>1. CASE at.stage = "flip8"
      <4>1. Shape["flip8"].kind = "bytes" /\ Shape["flip8"].w = 1
        BY StageNames DEF Shape
      <4>2. Positions(at.stage) = n - 1 + 1
        BY <3>1, <4>1 DEF Positions
      <4>3. at.i \in Nat /\ at.i <= Positions(at.stage)
        BY <1>2 DEF LoopOk
      <4> QED BY <1>1, <1>2, <3>1, <4>2, <4>3 DEF Through
    <3>2. CASE at.stage # "flip8"
      BY <3>2 DEF Through
    <3> QED BY <3>1, <3>2
  <2>4. Through' = n
    BY <1>1, <2>1 DEF Through
  <2>5. N \in Nat /\ \A p \in 0..(n - 1) : EFF_APOS(p) \in 0..(N - 1)
    <3>1. 0 \in 0..(n - 1)
      BY <1>2
    <3> QED BY <1>2, <3>1, FlagInMap
  <2>6. eff_cnt' = eff_cnt /\ (eff_map' = eff_map \/ eff_map' = [k \in DOMAIN eff_map |-> 1])
    <3>1. CASE at.stage = "flip8" /\ EffDense(eff_cnt, Len(in_buf))
      BY <1>1, <2>1, <3>1
    <3>2. CASE ~(at.stage = "flip8" /\ EffDense(eff_cnt, Len(in_buf)))
      BY <1>1, <2>1, <3>2
    <3> QED BY <3>1, <3>2
  <2> HIDE DEF N
  <2>7. eff_map' \in [0..(N - 1) -> 0..2] /\ \A k \in 0..(N - 1) : eff_map[k] # 0 => eff_map'[k] # 0
    <3>1. CASE eff_map' = eff_map
      BY <2>2, <3>1
    <3>2. CASE eff_map' = [k \in DOMAIN eff_map |-> 1]
      <4>1. DOMAIN eff_map = 0..(N - 1)
        BY <2>2
      <4>2. eff_map' = [k \in 0..(N - 1) |-> 1]
        BY <3>2, <4>1
      <4> QED BY <4>2
    <3> QED BY <2>6, <3>1, <3>2
  <2>8. /\ Cardinality({k \in DOMAIN eff_map : eff_map[k] # 0})
               <= Cardinality({k \in DOMAIN eff_map' : eff_map'[k] # 0})
        /\ Cardinality({k \in DOMAIN eff_map : eff_map[k] # 0}) \in Nat
        /\ Cardinality({k \in DOMAIN eff_map' : eff_map'[k] # 0}) \in Nat
    BY <2>2, <2>5, <2>7, MoreFlags, FlagsBounded
  <2>9. eff_cnt' <= Cardinality({k \in DOMAIN eff_map' : eff_map'[k] # 0})
    BY <2>2, <2>6, <2>8
  <2>10. ASSUME NEW p \in 0..(Through' - 1), Path(FlipBytes(in_buf, p, 1))' # {}
         PROVE  eff_map'[EFF_APOS(p)] # 0
    <3>1. Path(FlipBytes(in_buf, p, 1)) # {}
      BY <1>1, <2>10 DEF Path, FlipBytes
    <3>2. p \in 0..(n - 1)
      BY <2>4
    <3> QED BY <2>2, <2>3, <2>5, <2>7, <3>1, <3>2
  <2> QED BY <1>5, <2>2, <2>6, <2>7, <2>9, <2>10 DEF EffInv
<1> QED BY <1>6, <1>7, <1>8

\* Every step keeps what is known of the effector map.
LEMMA EffStep ==
    ASSUME EntryOk, TokensOk, DetInv, EffInv, [Next]_vars
    PROVE  EffInv'
<1>1. CASE pc' # "stage"
  BY <1>1 DEF EffInv
<1>2. CASE TrimRun \/ TrimHalve \/ TrimWrite \/ TrimStop \/ SkipDet \/ Abandoned \/ AbandonEntry
           \/ EndDet \/ HavocStep \/ Finish
  <2>1. pc' # "stage"
    BY <1>2 DEF TrimRun, TrimHalve, TrimWrite, TrimStop, SkipDet, Abandoned, AbandonEntry, EndDet,
                HavocStep, fvars, Finish
  <2> QED BY <1>1, <2>1
<1>3. CASE StartDet
  <2>1. at'.stage = "flip1"
    BY <1>3 DEF StartDet, StartStage, Idle
  <2>2. at'.stage \notin {Stages[k] : k \in 4..Len(Stages)}
    BY <2>1, LateStages
  <2> QED BY <2>2 DEF EffInv
<1>4. CASE SkipPosition \/ SkipCandidate
  <2>1. pc = "stage" /\ InStage /\ UNCHANGED <<seed, target, in_buf, eff_map, eff_cnt>>
    BY <1>4 DEF SkipPosition, SkipCandidate, InStage
  <2>2. at \in [stage : Range(Stages), i : Nat, c : Nat \ {0}, orig : Seq(Byte), last : Nat]
    BY <2>1 DEF DetInv, LoopOk
  <2>3. at'.stage = at.stage
    BY <1>4, <2>2 DEF SkipPosition, SkipCandidate, NextIteration
  <2>4. at.stage # "flip8"
    <3>1. Shape["flip8"].kind = "bytes"
      BY StageNames DEF Shape
    <3>2. CASE SkipPosition
      BY <3>2 DEF SkipPosition, Consulted
    <3>3. CASE SkipCandidate
      BY <3>1, <3>3 DEF SkipCandidate, Runs
    <3> QED BY <1>4, <3>2, <3>3
  <2> QED BY <2>1, <2>3, <2>4, EffSame
<1>5. CASE RunCandidate
  <2>1. CASE at.stage = "flip8"
    BY <1>5, <2>1, EffFlip8
  <2>2. CASE at.stage # "flip8"
    <3>1. pc = "stage" /\ UNCHANGED <<seed, target, in_buf>>
      BY <1>5 DEF RunCandidate, InStage
    <3>2. UNCHANGED <<eff_map, eff_cnt>>
      BY <1>5, <2>2 DEF RunCandidate
    <3>3. at \in [stage : Range(Stages), i : Nat, c : Nat \ {0}, orig : Seq(Byte), last : Nat]
      BY <3>1 DEF DetInv, LoopOk
    <3>4. PICK last : NextIteration(last)
      BY <1>5 DEF RunCandidate
    <3>5. at'.stage = at.stage
      BY <3>3, <3>4 DEF NextIteration
    <3> QED BY <2>2, <3>1, <3>2, <3>5, EffSame
  <2> QED BY <2>1, <2>2
<1>6. CASE EndStage
  BY <1>6, EffEndStage
<1>7. CASE UNCHANGED vars
  <2>1. UNCHANGED <<pc, seed, target, in_buf, at, eff_map, eff_cnt>>
    BY <1>7 DEF vars, fvars
  <2>2. CASE pc = "stage"
    BY <2>1, <2>2, EffSame
  <2>3. CASE pc # "stage"
    BY <1>1, <2>1, <2>3
  <2> QED BY <2>2, <2>3
<1> QED BY <1>2, <1>3, <1>4, <1>5, <1>6, <1>7 DEF Next

\* After flip8 the effector map flags every byte that changes the path when it is
\* inverted, whatever the buffer held before, and the count of flags is at most
\* the size of the map, for every entry, program and scale of the map.  The
\* argument: flip8 inverts a byte of the entry itself (StagesExact), leaves out no
\* position, counts a flag only when it was not set, and filling up a dense map
\* only adds flags.
THEOREM EffectorsAreFlagged == Spec => []EffectorsFlagged
<1>1. Init => EffInv
  BY DEF Init, EffInv
<1>2. (EntryOk /\ TokensOk /\ DetInv) /\ EffInv /\ [Next]_vars => EffInv'
  BY EffStep
<1>3. (EntryOk /\ TokensOk /\ DetInv) /\ EffInv => EffectorsFlagged
  <2> SUFFICES ASSUME EntryOk, DetInv, EffInv, pc = "stage",
                      at.stage \in {Stages[k] : k \in 5..Len(Stages)}
               PROVE  /\ \A p \in 0..(Len(in_buf) - 1) :
                            Path(FlipBytes(in_buf, p, 1)) # {} => eff_map[EFF_APOS(p)] # 0
                      /\ eff_cnt <= EFF_ALEN(Len(in_buf))
    BY DEF EffectorsFlagged, Flagged
  <2>1. at.stage \in Range(Stages) \ {"flip1", "flip2", "flip4", "flip8"}
    BY LateStages
  <2>2. Through = Len(in_buf)
    BY <2>1 DEF Through
  <2>3. /\ eff_map \in [0..(EFF_ALEN(Len(in_buf)) - 1) -> 0..2] /\ eff_cnt \in Nat
        /\ eff_cnt <= Cardinality({k \in DOMAIN eff_map : eff_map[k] # 0})
        /\ \A p \in 0..(Len(in_buf) - 1) :
              Path(FlipBytes(in_buf, p, 1)) # {} => eff_map[EFF_APOS(p)] # 0
    BY <2>1, <2>2, EffKnown
  <2>4. EFF_ALEN(Len(in_buf)) \in Nat
    <3>1. Len(in_buf) \in Nat /\ 0 \in 0..(Len(in_buf) - 1)
      BY Constants DEF EntryOk
    <3> QED BY <3>1, FlagInMap
  <2>5. /\ Cardinality({k \in DOMAIN eff_map : eff_map[k] # 0}) <= EFF_ALEN(Len(in_buf))
        /\ Cardinality({k \in DOMAIN eff_map : eff_map[k] # 0}) \in Nat
    BY <2>3, <2>4, FlagsBounded
  <2> QED BY <2>3, <2>4, <2>5
<1> QED BY <1>1, <1>2, <1>3, StageInvariant, PTL DEF Spec

-----------------------------------------------------------------------------
(* The tokens of the first stage.                                           *)
Checksums == (SUBSET DOMAIN target.groups) \X BOOLEAN

\* Bytes x to y, counted from 1, are a longest run that gave one checksum.
RunAt(ck, x, y) ==
    /\ x <= y
    /\ \A k \in x..y : ck[k] = ck[x] /\ ck[k] # exec_cksum
    /\ x > 1 => ck[x - 1] # ck[x]
    /\ y < Len(ck) => ck[y + 1] # ck[x]

Sized(x, y) == y - x + 1 \in MIN_AUTO_EXTRA..MAX_AUTO_EXTRA

\* The tokens in buffer b of the runs that end with byte m or before.
RunTokens(b, ck, m) ==
    {SubSeq(b, r[1], r[2]) :
        r \in {x \in (1..m) \X (1..m) : RunAt(ck, x[1], x[2]) /\ Sized(x[1], x[2])}}

\* t is the run at the end of the checksums so far, and what was collected of it.
OpenRun(t, ck, b) ==
    LET n == Len(ck)
        start == n - t.len
    IN  /\ t.prev = IF n = 0 THEN exec_cksum ELSE ck[n]
        /\ t.len \in 0..n
        /\ t.len = 0 <=> t.prev = exec_cksum
        /\ \A k \in (start + 1)..n : ck[k] = t.prev
        /\ t.len > 0 /\ start > 0 => ck[start] # t.prev
        /\ t.collect = SubSeq(b, start + 1, start + Lesser(t.len, MAX_AUTO_EXTRA))

\* What was offered: the runs that are over, and in the end all of them.
RunsInv ==
    LET ck == seen.cksums
        n == Len(ck)
    IN  /\ pc \in {"trim", "write", "written"} => seen = NoSeen /\ tok = NoTok
        /\ pc = "stage" => ck \in Seq(Checksums)
        /\ pc = "stage" /\ at.stage = "flip1" =>
              /\ n = at.i \div BITS
              /\ n < Len(in_buf) =>
                    OpenRun(tok, ck, in_buf) /\ seen.tokens = RunTokens(in_buf, ck, n - 1)
              /\ n >= Len(in_buf) => seen.tokens = RunTokens(in_buf, ck, n)
        /\ pc = "stage" /\ at.stage = "flip2" => seen.tokens = RunTokens(in_buf, ck, n)

\* The tokens, one by one.
LEMMA RunTokensAre ==
    ASSUME NEW b, NEW ck, NEW m \in Int, NEW t
    PROVE  t \in RunTokens(b, ck, m) <=>
               \E x, y \in 1..m : RunAt(ck, x, y) /\ Sized(x, y) /\ t = SubSeq(b, x, y)
<1>1. ASSUME NEW x \in 1..m, NEW y \in 1..m, RunAt(ck, x, y), Sized(x, y), t = SubSeq(b, x, y)
      PROVE  t \in RunTokens(b, ck, m)
  <2>1. <<x, y>> \in (1..m) \X (1..m) /\ <<x, y>>[1] = x /\ <<x, y>>[2] = y
    OBVIOUS
  <2> QED BY <1>1, <2>1, Zenon DEF RunTokens
<1>2. ASSUME t \in RunTokens(b, ck, m)
      PROVE  \E x, y \in 1..m : RunAt(ck, x, y) /\ Sized(x, y) /\ t = SubSeq(b, x, y)
  <2>1. PICK r \in (1..m) \X (1..m) :
            RunAt(ck, r[1], r[2]) /\ Sized(r[1], r[2]) /\ t = SubSeq(b, r[1], r[2])
    BY <1>2, Zenon DEF RunTokens
  <2>2. r[1] \in 1..m /\ r[2] \in 1..m
    BY <2>1
  <2> QED BY <2>1, <2>2
<1> QED BY <1>1, <1>2

\* A further checksum.
LEMMA Appended ==
    ASSUME NEW C, NEW ck \in Seq(C), NEW c \in C
    PROVE  /\ Append(ck, c) \in Seq(C) /\ Len(Append(ck, c)) = Len(ck) + 1 /\ Len(ck) \in Nat
           /\ \A k \in 1..Len(ck) : Append(ck, c)[k] = ck[k]
           /\ Append(ck, c)[Len(ck) + 1] = c
  OBVIOUS

\* It leaves the runs that are over as they are.
LEMMA OldRuns ==
    ASSUME NEW C, NEW ck \in Seq(C), NEW c \in C,
           NEW x \in 1..(Len(ck) - 1), NEW y \in 1..(Len(ck) - 1)
    PROVE  RunAt(Append(ck, c), x, y) <=> RunAt(ck, x, y)
<1> DEFINE n == Len(ck)
           d == Append(ck, c)
<1>1. Len(d) = n + 1 /\ n \in Nat /\ \A k \in 1..n : d[k] = ck[k]
  BY Appended
<1> HIDE DEF n, d
<1>2. x \in 1..n /\ y \in 1..n /\ y + 1 \in 1..n /\ y < n /\ y < n + 1
  BY <1>1 DEF n
<1>3. \A k \in x..y : k \in 1..n
  BY <1>1, <1>2
<1>4. x > 1 => x - 1 \in 1..n
  BY <1>1, <1>2
<1>5. /\ d[x] = ck[x] /\ d[y + 1] = ck[y + 1] /\ (x > 1 => d[x - 1] = ck[x - 1])
      /\ \A k \in x..y : d[k] = ck[k]
  BY <1>1, <1>2, <1>3, <1>4
<1>6. RunAt(d, x, y) <=> RunAt(ck, x, y)
  BY <1>1, <1>2, <1>5 DEF RunAt, n
<1> QED BY <1>6 DEF d

\* The runs up to the end of the checksums so far: there is one, if any.
LEMMA LastRun ==
    ASSUME NEW C, NEW ck \in Seq(C), NEW t, NEW b, OpenRun(t, ck, b), NEW x \in 1..Len(ck)
    PROVE  (/\ \A k \in x..Len(ck) : ck[k] = ck[x] /\ ck[k] # exec_cksum
            /\ x > 1 => ck[x - 1] # ck[x])
           <=> (t.len > 0 /\ x = Len(ck) - t.len + 1)
<1> DEFINE n == Len(ck)
           s == n - t.len
<1>1. /\ n \in Nat /\ x \in 1..n /\ t.len \in 0..n /\ t.prev = ck[n]
      /\ t.len = 0 <=> t.prev = exec_cksum
      /\ \A k \in (s + 1)..n : ck[k] = t.prev
      /\ t.len > 0 /\ s > 0 => ck[s] # t.prev
  BY DEF OpenRun
<1> HIDE DEF n
<1>2. ASSUME \A k \in x..n : ck[k] = ck[x] /\ ck[k] # exec_cksum, x > 1 => ck[x - 1] # ck[x]
      PROVE  t.len > 0 /\ x = s + 1
  <2>1. n \in x..n
    BY <1>1
  <2>2. ck[x] = t.prev /\ t.prev # exec_cksum
    BY <1>1, <1>2, <2>1
  <2>3. t.len > 0 /\ t.len \in Nat
    BY <1>1, <2>2
  <2>4. ~(x <= s)
    <3>1. ASSUME x <= s PROVE s \in x..n /\ s > 0
      BY <1>1, <2>3, <3>1
    <3> QED BY <1>1, <1>2, <2>2, <2>3, <3>1
  <2>5. ~(x > s + 1)
    <3>1. ASSUME x > s + 1 PROVE x - 1 \in (s + 1)..n /\ x > 1
      <4>1. s \in Nat /\ x \in Nat /\ x <= n /\ n \in Nat
        BY <1>1, <2>3
      <4> HIDE DEF s
      <4> QED BY <3>1, <4>1
    <3> QED BY <1>1, <1>2, <2>2, <3>1
  <2> QED BY <1>1, <2>3, <2>4, <2>5
<1>3. ASSUME t.len > 0, x = s + 1
      PROVE  /\ \A k \in x..n : ck[k] = ck[x] /\ ck[k] # exec_cksum
             /\ x > 1 => ck[x - 1] # ck[x]
  <2>1. t.prev # exec_cksum /\ t.len \in Nat
    BY <1>1, <1>3
  <2>2. x \in (s + 1)..n /\ \A k \in x..n : k \in (s + 1)..n
    BY <1>1, <1>3
  <2>3. x > 1 => x - 1 = s /\ s > 0
    BY <1>1, <1>3, <2>1
  <2> QED BY <1>1, <1>3, <2>1, <2>2, <2>3
<1> QED BY <1>2, <1>3 DEF n

\* A further checksum ends the run, or makes it longer.
LEMMA RunEnds ==
    ASSUME NEW C, NEW ck \in Seq(C), NEW c \in C, NEW t, NEW b, OpenRun(t, ck, b),
           NEW x \in 1..Len(ck)
    PROVE  RunAt(Append(ck, c), x, Len(ck))
               <=> (t.len > 0 /\ x = Len(ck) - t.len + 1 /\ c # t.prev)
<1> DEFINE n == Len(ck)
           d == Append(ck, c)
<1>1. Len(d) = n + 1 /\ n \in Nat /\ (\A k \in 1..n : d[k] = ck[k]) /\ d[n + 1] = c
  BY Appended
<1>2. x \in 1..n /\ x <= n /\ n < n + 1
  BY <1>1
<1>3. t.prev = ck[n]
  BY <1>2 DEF OpenRun
<1>4. (/\ \A k \in x..n : ck[k] = ck[x] /\ ck[k] # exec_cksum
       /\ x > 1 => ck[x - 1] # ck[x])
      <=> (t.len > 0 /\ x = n - t.len + 1)
  BY LastRun
<1> HIDE DEF n, d
<1>5. n \in x..n /\ (\A k \in x..n : d[k] = ck[k]) /\ d[x] = ck[x] /\ (x > 1 => d[x - 1] = ck[x - 1])
  BY <1>1, <1>2
<1>6. RunAt(d, x, n) <=> (/\ \A k \in x..n : ck[k] = ck[x] /\ ck[k] # exec_cksum
                          /\ x > 1 => ck[x - 1] # ck[x]
                          /\ c # ck[x])
  BY <1>1, <1>2, <1>5 DEF RunAt
<1>7. (\A k \in x..n : ck[k] = ck[x] /\ ck[k] # exec_cksum) => ck[x] = t.prev
  BY <1>3, <1>5
<1>8. RunAt(d, x, n) <=> (t.len > 0 /\ x = n - t.len + 1 /\ c # t.prev)
  BY <1>4, <1>6, <1>7
<1> QED BY <1>8 DEF n, d

\* Of the runs that started before a new byte only the open one can end with it,
\* if the byte goes on with it.
LEMMA RunGoesOn ==
    ASSUME NEW C, NEW ck \in Seq(C), NEW c \in C, NEW t, NEW b, OpenRun(t, ck, b),
           NEW x \in 1..Len(ck)
    PROVE  RunAt(Append(ck, c), x, Len(ck) + 1)
               <=> (t.len > 0 /\ x = Len(ck) - t.len + 1 /\ c = t.prev)
<1> DEFINE n == Len(ck)
           d == Append(ck, c)
<1>1. Len(d) = n + 1 /\ n \in Nat /\ (\A k \in 1..n : d[k] = ck[k]) /\ d[n + 1] = c
  BY Appended
<1>2. x \in 1..n /\ x <= n + 1 /\ ~(n + 1 < n + 1)
  BY <1>1
<1>3. t.prev = ck[n]
  BY <1>2 DEF OpenRun
<1>4. (/\ \A k \in x..n : ck[k] = ck[x] /\ ck[k] # exec_cksum
       /\ x > 1 => ck[x - 1] # ck[x])
      <=> (t.len > 0 /\ x = n - t.len + 1)
  BY LastRun
<1> HIDE DEF n, d
<1>5. n \in x..n /\ (\A k \in x..n : d[k] = ck[k]) /\ d[x] = ck[x] /\ (x > 1 => d[x - 1] = ck[x - 1])
  BY <1>1, <1>2
<1>6. \A k : k \in x..(n + 1) <=> k \in x..n \/ k = n + 1
  BY <1>1, <1>2
<1>7. RunAt(d, x, n + 1) <=> (/\ \A k \in x..n : ck[k] = ck[x] /\ ck[k] # exec_cksum
                              /\ c = ck[x] /\ c # exec_cksum
                              /\ x > 1 => ck[x - 1] # ck[x])
  BY <1>1, <1>2, <1>5, <1>6 DEF RunAt
<1>8. (\A k \in x..n : ck[k] = ck[x] /\ ck[k] # exec_cksum) => ck[x] = t.prev /\ t.prev # exec_cksum
  BY <1>3, <1>5
<1>9. RunAt(d, x, n + 1) <=> (t.len > 0 /\ x = n - t.len + 1 /\ c = t.prev)
  BY <1>4, <1>7, <1>8
<1> QED BY <1>9 DEF n, d

\* A part of a buffer without bytes.
LEMMA SubEmpty == ASSUME NEW b \in Seq(Byte), NEW i \in Nat PROVE SubSeq(b, i + 1, i) = <<>>
  OBVIOUS

\* A part of a buffer with its next byte.
LEMMA SubSnoc ==
    ASSUME NEW b \in Seq(Byte), NEW i \in Nat, NEW j \in Nat, i <= j, j < Len(b)
    PROVE  Append(SubSeq(b, i + 1, j), b[j + 1]) = SubSeq(b, i + 1, j + 1)
<1> DEFINE s == SubSeq(b, i + 1, j)
           r == SubSeq(b, i + 1, j + 1)
           e == Append(s, b[j + 1])
<1>1. s \in Seq(Byte) /\ Len(s) = j - i /\ \A k \in 1..(j - i) : s[k] = b[i + k]
  OBVIOUS
<1>2. r \in Seq(Byte) /\ Len(r) = j - i + 1 /\ \A k \in 1..(j - i + 1) : r[k] = b[i + k]
  OBVIOUS
<1>3. b[j + 1] \in Byte
  OBVIOUS
<1>4. e \in Seq(Byte) /\ Len(e) = j - i + 1 /\ e[j - i + 1] = b[j + 1]
      /\ \A k \in 1..(j - i) : e[k] = s[k]
  BY <1>1, <1>3
<1> HIDE DEF e, s, r
<1>5. \A k \in 1..(j - i + 1) : e[k] = r[k]
  <2> TAKE k \in 1..(j - i + 1)
  <2>1. CASE k = j - i + 1
    <3>1. i + k = j + 1
      BY <2>1
    <3> QED BY <1>2, <1>4, <2>1, <3>1
  <2>2. CASE k # j - i + 1
    <3>1. k \in 1..(j - i)
      BY <2>2
    <3> QED BY <1>1, <1>2, <1>4, <3>1
  <2> QED BY <2>1, <2>2
<1>6. e = r
  BY <1>2, <1>4, <1>5
<1> QED BY <1>6 DEF e, s, r

\* The tokens of the runs that are over: a change of the checksum adds the run
\* that it ends.
LEMMA TokensOver ==
    ASSUME NEW C, NEW ck \in Seq(C), NEW c \in C, NEW t, NEW b, OpenRun(t, ck, b)
    PROVE  RunTokens(b, Append(ck, c), Len(ck)) =
               RunTokens(b, ck, Len(ck) - 1)
                   \cup (IF c # t.prev /\ t.len \in MIN_AUTO_EXTRA..MAX_AUTO_EXTRA
                         THEN {t.collect} ELSE {})
<1> DEFINE n == Len(ck)
           d == Append(ck, c)
           s == n - t.len
           ends == c # t.prev /\ t.len \in MIN_AUTO_EXTRA..MAX_AUTO_EXTRA
<1>1. /\ n \in Nat /\ t.len \in 0..n
      /\ t.collect = SubSeq(b, s + 1, s + Lesser(t.len, MAX_AUTO_EXTRA))
      /\ MIN_AUTO_EXTRA \in Nat /\ MAX_AUTO_EXTRA \in Nat /\ 2 < MIN_AUTO_EXTRA
  BY StageConstants DEF OpenRun
<1>2. \A x, y \in 1..(n - 1) : RunAt(d, x, y) <=> RunAt(ck, x, y)
  BY OldRuns
<1>3. \A x \in 1..n : RunAt(d, x, n) <=> (t.len > 0 /\ x = s + 1 /\ c # t.prev)
  BY RunEnds
<1>4. \A u : u \in RunTokens(b, d, n) <=>
                 \E x, y \in 1..n : RunAt(d, x, y) /\ Sized(x, y) /\ u = SubSeq(b, x, y)
  BY <1>1, RunTokensAre
<1>5. \A u : u \in RunTokens(b, ck, n - 1) <=>
                 \E x, y \in 1..(n - 1) : RunAt(ck, x, y) /\ Sized(x, y) /\ u = SubSeq(b, x, y)
  <2>1. n - 1 \in Int
    BY <1>1
  <2> QED BY <2>1, RunTokensAre
<1>6. ends => t.collect = SubSeq(b, s + 1, n) /\ Sized(s + 1, n) /\ t.len > 0 /\ s + 1 \in 1..n /\ n \in 1..n
  <2> SUFFICES ASSUME ends
               PROVE  t.collect = SubSeq(b, s + 1, n) /\ Sized(s + 1, n) /\ t.len > 0 /\ s + 1 \in 1..n /\ n \in 1..n
    OBVIOUS
  <2>1. t.len \in Nat /\ t.len <= n /\ t.len > 2 /\ t.len <= MAX_AUTO_EXTRA
    BY <1>1
  <2> HIDE DEF n
  <2>2. Lesser(t.len, MAX_AUTO_EXTRA) = t.len /\ s + t.len = n
    BY <1>1, <2>1 DEF Lesser
  <2>3. n - (s + 1) + 1 = t.len
    BY <1>1, <2>1
  <2>4. s + 1 \in 1..n /\ n \in 1..n
    BY <1>1, <2>1
  <2>5. Sized(s + 1, n)
    <3> HIDE DEF s
    <3> QED BY <2>3 DEF Sized
  <2>6. t.collect = SubSeq(b, s + 1, n)
    BY <1>1, <2>2
  <2> QED BY <2>1, <2>4, <2>5, <2>6
<1>7. \A x \in 1..n : t.len > 0 /\ x = s + 1 /\ c # t.prev /\ Sized(x, n) => ends
  <2> TAKE x \in 1..n
  <2> HAVE t.len > 0 /\ x = s + 1 /\ c # t.prev /\ Sized(x, n)
  <2>1. t.len \in Nat
    BY <1>1
  <2> HIDE DEF n
  <2>2. n - x + 1 = t.len
    BY <1>1, <2>1
  <2> QED BY <2>2 DEF Sized
<1> HIDE DEF n, d, s, ends
<1>8. ASSUME NEW u \in RunTokens(b, d, n)
      PROVE  u \in RunTokens(b, ck, n - 1) \/ (ends /\ u = t.collect)
  <2>1. PICK x \in 1..n, y \in 1..n : RunAt(d, x, y) /\ Sized(x, y) /\ u = SubSeq(b, x, y)
    BY <1>4
  <2>2. CASE y = n
    BY <1>3, <1>6, <1>7, <2>1, <2>2
  <2>3. CASE y # n
    <3>1. y \in 1..(n - 1) /\ x \in 1..(n - 1)
      BY <1>1, <2>1, <2>3 DEF RunAt
    <3> QED BY <1>2, <1>5, <2>1, <3>1
  <2> QED BY <2>2, <2>3
<1>9. ASSUME NEW u \in RunTokens(b, ck, n - 1) PROVE u \in RunTokens(b, d, n)
  <2>1. PICK x \in 1..(n - 1), y \in 1..(n - 1) :
            RunAt(ck, x, y) /\ Sized(x, y) /\ u = SubSeq(b, x, y)
    BY <1>5
  <2>2. x \in 1..n /\ y \in 1..n
    BY <1>1
  <2> QED BY <1>2, <1>4, <2>1, <2>2
<1>10. ends => t.collect \in RunTokens(b, d, n)
  <2> HAVE ends
  <2>1. RunAt(d, s + 1, n)
    BY <1>3, <1>6 DEF ends
  <2> QED BY <1>4, <1>6, <2>1
<1>11. RunTokens(b, d, n) = RunTokens(b, ck, n - 1) \cup (IF ends THEN {t.collect} ELSE {})
  BY <1>8, <1>9, <1>10
<1> QED BY <1>11 DEF n, d, ends

\* What was collected of a run with the byte that follows it.
LEMMA CollectedMore ==
    ASSUME NEW C, NEW ck \in Seq(C), NEW t, NEW b \in Seq(Byte), OpenRun(t, ck, b),
           Len(ck) < Len(b), t.len < MAX_AUTO_EXTRA
    PROVE  Append(t.collect, b[Len(ck) + 1]) = SubSeq(b, Len(ck) - t.len + 1, Len(ck) + 1)
<1> DEFINE n == Len(ck)
           s == n - t.len
<1>1. /\ n \in Nat /\ t.len \in 0..n /\ n < Len(b) /\ MAX_AUTO_EXTRA \in Nat
      /\ t.collect = SubSeq(b, s + 1, s + Lesser(t.len, MAX_AUTO_EXTRA))
  BY StageConstants DEF OpenRun
<1> HIDE DEF n
<1>2. Lesser(t.len, MAX_AUTO_EXTRA) = t.len /\ s + t.len = n /\ s \in Nat /\ s <= n
  BY <1>1 DEF Lesser
<1>3. t.collect = SubSeq(b, s + 1, n)
  BY <1>1, <1>2
<1> HIDE DEF s
<1>4. Append(SubSeq(b, s + 1, n), b[n + 1]) = SubSeq(b, s + 1, n + 1)
  BY <1>1, <1>2, SubSnoc
<1>5. Append(t.collect, b[n + 1]) = SubSeq(b, s + 1, n + 1)
  BY <1>3, <1>4, Zenon
<1> QED BY <1>5, Zenon DEF n, s

\* With the last byte the run that goes on is over too.
LEMMA TokensInTheEnd ==
    ASSUME NEW C, NEW ck \in Seq(C), NEW c \in C, NEW t, NEW b, OpenRun(t, ck, b)
    PROVE  RunTokens(b, Append(ck, c), Len(ck) + 1) =
               RunTokens(b, Append(ck, c), Len(ck))
                   \cup (IF c = t.prev /\ t.len + 1 \in MIN_AUTO_EXTRA..MAX_AUTO_EXTRA
                         THEN {SubSeq(b, Len(ck) - t.len + 1, Len(ck) + 1)} ELSE {})
<1> DEFINE n == Len(ck)
           v == SubSeq(b, n - t.len + 1, n + 1)
           d == Append(ck, c)
           s == n - t.len
           ends == c = t.prev /\ t.len + 1 \in MIN_AUTO_EXTRA..MAX_AUTO_EXTRA
<1>1. /\ n \in Nat /\ t.len \in 0..n
      /\ MIN_AUTO_EXTRA \in Nat /\ MAX_AUTO_EXTRA \in Nat /\ 2 < MIN_AUTO_EXTRA
  BY StageConstants DEF OpenRun
<1>2. \A x \in 1..n : RunAt(d, x, n + 1) <=> (t.len > 0 /\ x = s + 1 /\ c = t.prev)
  BY RunGoesOn
<1>3. \A u : u \in RunTokens(b, d, n) <=>
                 \E x, y \in 1..n : RunAt(d, x, y) /\ Sized(x, y) /\ u = SubSeq(b, x, y)
  <2>1. n \in Int
    BY <1>1
  <2> HIDE DEF d, n
  <2> TAKE u
  <2> QED BY <2>1, RunTokensAre
<1>4. \A u : u \in RunTokens(b, d, n + 1) <=>
                 \E x, y \in 1..(n + 1) : RunAt(d, x, y) /\ Sized(x, y) /\ u = SubSeq(b, x, y)
  <2>1. n + 1 \in Int
    BY <1>1
  <2> QED BY <2>1, RunTokensAre
<1>5. ends => v = SubSeq(b, s + 1, n + 1) /\ Sized(s + 1, n + 1) /\ t.len > 0 /\ s + 1 \in 1..n
  <2> SUFFICES ASSUME ends
               PROVE  v = SubSeq(b, s + 1, n + 1) /\ Sized(s + 1, n + 1) /\ t.len > 0 /\ s + 1 \in 1..n
    OBVIOUS
  <2>1. t.len \in Nat /\ t.len <= n /\ t.len > 1 /\ t.len < MAX_AUTO_EXTRA
    BY <1>1
  <2> HIDE DEF n
  <2>2. v = SubSeq(b, s + 1, n + 1)
    BY DEF n
  <2>3. (n + 1) - (s + 1) + 1 = t.len + 1
    BY <1>1, <2>1
  <2>4. s \in Nat /\ s + 1 \in 1..n
    <3>1. n - t.len \in Nat /\ n - t.len + 1 <= n
      BY <1>1, <2>1
    <3> QED BY <1>1, <3>1
  <2>5. Sized(s + 1, n + 1)
    <3> HIDE DEF s
    <3> QED BY <1>1, <2>1, <2>3, <2>4 DEF Sized
  <2> QED BY <2>1, <2>2, <2>4, <2>5
<1>6. \A x \in 1..n : t.len > 0 /\ x = s + 1 /\ c = t.prev /\ Sized(x, n + 1) => ends
  <2> TAKE x \in 1..n
  <2> HAVE t.len > 0 /\ x = s + 1 /\ c = t.prev /\ Sized(x, n + 1)
  <2>1. t.len \in Nat
    BY <1>1
  <2> HIDE DEF n
  <2>2. (n + 1) - x + 1 = t.len + 1
    BY <1>1, <2>1
  <2>3. t.len + 1 \in MIN_AUTO_EXTRA..MAX_AUTO_EXTRA
    <3>1. (n + 1) - x + 1 \in MIN_AUTO_EXTRA..MAX_AUTO_EXTRA
      BY DEF Sized
    <3> QED BY <2>2, <3>1, Zenon
  <2> QED BY <2>3
<1>7. ~Sized(n + 1, n + 1)
  <2> HIDE DEF n
  <2>1. (n + 1) - (n + 1) + 1 = 1
    BY <1>1
  <2> QED BY <1>1, <2>1 DEF Sized
<1> HIDE DEF n, d, s, ends, v
<1>8. ASSUME NEW u \in RunTokens(b, d, n + 1)
      PROVE  u \in RunTokens(b, d, n) \/ (ends /\ u = v)
  <2>1. PICK x \in 1..(n + 1), y \in 1..(n + 1) : RunAt(d, x, y) /\ Sized(x, y) /\ u = SubSeq(b, x, y)
    BY <1>4
  <2>2. CASE y = n + 1
    <3>1. x # n + 1
      BY <1>7, <2>1, <2>2
    <3>2. x \in 1..n
      BY <1>1, <3>1
    <3> QED BY <1>2, <1>5, <1>6, <2>1, <2>2, <3>2
  <2>3. CASE y # n + 1
    <3>1. y \in 1..n /\ x \in 1..n
      BY <1>1, <2>1, <2>3 DEF RunAt
    <3> QED BY <1>3, <2>1, <3>1
  <2> QED BY <2>2, <2>3
<1>9. ASSUME NEW u \in RunTokens(b, d, n) PROVE u \in RunTokens(b, d, n + 1)
  <2>1. PICK x \in 1..n, y \in 1..n : RunAt(d, x, y) /\ Sized(x, y) /\ u = SubSeq(b, x, y)
    BY <1>3
  <2>2. x \in 1..(n + 1) /\ y \in 1..(n + 1)
    BY <1>1
  <2> QED BY <1>4, <2>1, <2>2
<1>10. ends => v \in RunTokens(b, d, n + 1)
  <2> HAVE ends
  <2>1. RunAt(d, s + 1, n + 1)
    BY <1>2, <1>5 DEF ends
  <2>2. s + 1 \in 1..(n + 1) /\ n + 1 \in 1..(n + 1)
    BY <1>1, <1>5
  <2> QED BY <1>4, <1>5, <2>1, <2>2
<1>11. RunTokens(b, d, n + 1) = RunTokens(b, d, n) \cup (IF ends THEN {v} ELSE {})
  BY <1>8, <1>9, <1>10
<1> QED BY <1>11, Zenon DEF n, d, ends, v

\* The run at the end after a further checksum.
LEMMA RunOpen ==
    ASSUME NEW C, NEW ck \in Seq(C), NEW c \in C, NEW b \in Seq(Byte), Len(ck) < Len(b),
           NEW t, DOMAIN t = {"collect", "len", "prev"}, OpenRun(t, ck, b),
           NEW reset, reset = IF c # t.prev THEN [collect |-> <<>>, len |-> 0, prev |-> c] ELSE t
    PROVE  OpenRun(IF c # exec_cksum THEN Collected(reset, b[Len(ck) + 1]) ELSE reset,
                   Append(ck, c), b)
<1> DEFINE n == Len(ck)
           d == Append(ck, c)
           s == n - t.len
           u == IF c # exec_cksum THEN Collected(reset, b[n + 1]) ELSE reset
<1>1. Len(d) = n + 1 /\ n \in Nat /\ (\A k \in 1..n : d[k] = ck[k]) /\ d[n + 1] = c
  BY Appended
<1>2. /\ t.len \in 0..n
      /\ t.prev = IF n = 0 THEN exec_cksum ELSE ck[n]
      /\ t.len = 0 <=> t.prev = exec_cksum
      /\ \A k \in (s + 1)..n : ck[k] = t.prev
      /\ t.len > 0 /\ s > 0 => ck[s] # t.prev
      /\ t.collect = SubSeq(b, s + 1, s + Lesser(t.len, MAX_AUTO_EXTRA))
  BY DEF OpenRun
<1>3. MAX_AUTO_EXTRA \in Nat /\ MAX_AUTO_EXTRA > 2 /\ Len(b) \in Nat /\ n < Len(b)
  BY StageConstants
<1>o. ASSUME NEW v, v.prev = c, v.len \in 0..(n + 1), v.len = 0 <=> c = exec_cksum,
             \A k \in ((n + 1) - v.len + 1)..(n + 1) : d[k] = c,
             v.len > 0 /\ (n + 1) - v.len > 0 => d[(n + 1) - v.len] # c,
             v.collect = SubSeq(b, (n + 1) - v.len + 1, (n + 1) - v.len + Lesser(v.len, MAX_AUTO_EXTRA))
      PROVE  OpenRun(v, d, b)
  <2>1. n + 1 # 0
    BY <1>1
  <2> HIDE DEF d, n
  <2> QED BY <1>1, <1>o, <2>1 DEF OpenRun
<1>e. SubSeq(b, n + 1, n) = <<>> /\ SubSeq(b, (n + 1) + 1, n + 1) = <<>>
  <2>1. n + 1 \in Nat
    BY <1>1
  <2> HIDE DEF n
  <2> QED BY <1>1, <2>1, SubEmpty
<1>f. b[n + 1] \in Byte /\ <<>> \in Seq(Byte)
  BY <1>1, <1>3
<1>4. CASE c = exec_cksum
  <2>1. u = reset
    BY <1>4
  <2>2. u.prev = c /\ u.len = 0 /\ u.collect = <<>>
    <3>1. CASE c # t.prev
      BY <2>1, <3>1
    <3>2. CASE c = t.prev
      <4>1. t.len = 0
        BY <1>2, <1>4, <3>2
      <4>2. Lesser(t.len, MAX_AUTO_EXTRA) = 0
        BY <1>3, <4>1 DEF Lesser
      <4>3. s = n /\ s + Lesser(t.len, MAX_AUTO_EXTRA) = n
        BY <1>1, <4>1, <4>2
      <4>4. t.collect = <<>>
        <5> HIDE DEF s, n
        <5> QED BY <1>2, <1>e, <4>3, Zenon
      <4> QED BY <2>1, <3>2, <4>1, <4>4
    <3> QED BY <3>1, <3>2
  <2> HIDE DEF u, n, d
  <2>3. Lesser(u.len, MAX_AUTO_EXTRA) = 0
    BY <1>3, <2>2 DEF Lesser
  <2>4. (n + 1) - u.len + 1 = (n + 1) + 1 /\ (n + 1) - u.len + Lesser(u.len, MAX_AUTO_EXTRA) = n + 1
    BY <1>1, <2>2, <2>3
  <2>5. u.collect = SubSeq(b, (n + 1) - u.len + 1, (n + 1) - u.len + Lesser(u.len, MAX_AUTO_EXTRA))
    BY <1>e, <2>2, <2>4, Zenon
  <2>6. u.len \in 0..(n + 1) /\ ~(u.len > 0) /\ \A k \in ((n + 1) - u.len + 1)..(n + 1) : d[k] = c
    BY <1>1, <2>2
  <2>7. OpenRun(u, d, b)
    BY <1>4, <1>o, <2>2, <2>5, <2>6
  <2> QED BY <2>7, Zenon DEF u, n, d
<1>5. CASE c # exec_cksum /\ c # t.prev
  <2>1. reset = [collect |-> <<>>, len |-> 0, prev |-> c] /\ u = Collected(reset, b[n + 1])
    BY <1>5
  <2>2. reset.collect = <<>> /\ reset.len = 0 /\ reset.prev = c /\ DOMAIN reset = {"collect", "len", "prev"}
    BY <2>1
  <2>c. u.collect = Append(<<>>, b[n + 1]) /\ u.len = 1 /\ u.prev = c
    <3>1. u = [reset EXCEPT
                  !.collect = IF reset.len < MAX_AUTO_EXTRA THEN Append(@, b[n + 1]) ELSE @,
                  !.len = @ + 1]
      BY <2>1 DEF Collected
    <3>2. reset.len < MAX_AUTO_EXTRA /\ reset.len + 1 = 1
      BY <1>3, <2>2
    <3>3. /\ u.prev = reset.prev /\ u.len = reset.len + 1
          /\ u.collect = IF reset.len < MAX_AUTO_EXTRA THEN Append(reset.collect, b[n + 1])
                         ELSE reset.collect
      <4> HIDE DEF u, n
      <4> QED BY <2>2, <3>1
    <3> HIDE DEF u, n
    <3> QED BY <2>2, <3>2, <3>3, Zenon
  <2>s. SubSeq(b, n + 1, n + 1) = Append(<<>>, b[n + 1])
    <3>1. Append(SubSeq(b, n + 1, n), b[n + 1]) = SubSeq(b, n + 1, n + 1)
      <4> HIDE DEF n
      <4> QED BY <1>1, <1>3, SubSnoc
    <3> HIDE DEF n
    <3> QED BY <1>e, <3>1, Zenon
  <2>p. n > 0 => d[n] # c
    <3>1. n > 0 => n \in 1..n /\ n # 0
      BY <1>1
    <3> HIDE DEF n, d
    <3> QED BY <1>1, <1>2, <1>5, <3>1
  <2> HIDE DEF u, n, d
  <2>3. Lesser(u.len, MAX_AUTO_EXTRA) = 1
    BY <1>3, <2>c DEF Lesser
  <2>4. (n + 1) - u.len = n
    BY <1>1, <2>c
  <2>5. u.collect = SubSeq(b, n + 1, n + Lesser(u.len, MAX_AUTO_EXTRA))
    <3>1. n + Lesser(u.len, MAX_AUTO_EXTRA) = n + 1
      BY <1>1, <2>3
    <3> QED BY <2>c, <2>s, <3>1, Zenon
  <2>6. u.len \in 0..(n + 1) /\ u.len # 0 /\ \A k \in (n + 1)..(n + 1) : d[k] = c
    BY <1>1, <2>c
  <2>7. OpenRun(u, d, b)
    BY <1>5, <1>o, <2>c, <2>p, <2>4, <2>5, <2>6
  <2> QED BY <2>7, Zenon DEF u, n, d
<1>6. CASE c # exec_cksum /\ c = t.prev
  <2>1. u = [t EXCEPT !.collect = IF t.len < MAX_AUTO_EXTRA THEN Append(@, b[n + 1]) ELSE @,
                      !.len = @ + 1]
    BY <1>6 DEF Collected
  <2>2. /\ u.prev = c /\ u.len = t.len + 1
        /\ u.collect = IF t.len < MAX_AUTO_EXTRA THEN Append(t.collect, b[n + 1]) ELSE t.collect
    BY <1>6, <2>1
  <2>3. t.len < MAX_AUTO_EXTRA => Append(t.collect, b[n + 1]) = SubSeq(b, s + 1, n + 1)
    BY CollectedMore
  <2> HIDE DEF u, n, d
  <2>4. t.len \in Nat /\ t.len <= n /\ t.len > 0 /\ s \in Nat
    <3>1. t.len \in Nat /\ t.len <= n /\ t.len # 0
      BY <1>1, <1>2, <1>6
    <3> QED BY <1>1, <3>1
  <2>5. (n + 1) - u.len = s /\ u.len \in 0..(n + 1) /\ u.len > 0
    BY <1>1, <2>2, <2>4
  <2>6. u.collect = SubSeq(b, s + 1, s + Lesser(u.len, MAX_AUTO_EXTRA))
    <3>1. CASE t.len < MAX_AUTO_EXTRA
      <4>1. Lesser(u.len, MAX_AUTO_EXTRA) = t.len + 1
        BY <1>3, <2>2, <2>4, <3>1 DEF Lesser
      <4>2. s + Lesser(u.len, MAX_AUTO_EXTRA) = n + 1
        BY <1>1, <2>4, <4>1
      <4> QED BY <2>2, <2>3, <3>1, <4>2, Zenon
    <3>2. CASE ~(t.len < MAX_AUTO_EXTRA)
      <4>1. Lesser(u.len, MAX_AUTO_EXTRA) = MAX_AUTO_EXTRA /\ Lesser(t.len, MAX_AUTO_EXTRA) = MAX_AUTO_EXTRA
        BY <1>3, <2>2, <2>4, <3>2 DEF Lesser
      <4> QED BY <1>2, <2>2, <3>2, <4>1, Zenon
    <3> QED BY <3>1, <3>2
  <2>7. \A k \in (s + 1)..(n + 1) : d[k] = c
    <3> TAKE k \in (s + 1)..(n + 1)
    <3>1. CASE k = n + 1
      BY <1>1, <3>1
    <3>2. CASE k # n + 1
      <4>1. k \in (s + 1)..n /\ k \in 1..n
        BY <1>1, <2>4, <3>2
      <4> QED BY <1>1, <1>2, <1>6, <4>1
    <3> QED BY <3>1, <3>2
  <2>8. s > 0 => d[s] # c
    <3>1. s > 0 => s \in 1..n
      BY <1>1, <2>4
    <3> QED BY <1>1, <1>2, <1>6, <2>4, <3>1
  <2>9. u.len # 0
    BY <2>5
  <2> HIDE DEF s
  <2>10. OpenRun(u, d, b)
    BY <1>6, <1>o, <2>2, <2>5, <2>6, <2>7, <2>8, <2>9
  <2> QED BY <2>10, Zenon DEF u, n, d
<1> QED BY <1>4, <1>5, <1>6

\* Collecting with the checksum of byte n.
LEMMA CollectRuns ==
    ASSUME NEW n \in Nat, n = Len(seen.cksums), n < Len(in_buf),
           in_buf \in Seq(Byte), out_buf = in_buf, seen.cksums \in Seq(Checksums),
           DOMAIN tok = {"collect", "len", "prev"}, tok.len \in Nat,
           OpenRun(tok, seen.cksums, in_buf),
           seen.tokens = RunTokens(in_buf, seen.cksums, n - 1),
           NEW c \in Checksums, Collecting(n, c)
    PROVE  /\ seen'.cksums = Append(seen.cksums, c)
           /\ n + 1 < Len(in_buf) =>
                 /\ OpenRun(tok', seen'.cksums, in_buf)
                 /\ seen'.tokens = RunTokens(in_buf, seen'.cksums, n)
           /\ n + 1 = Len(in_buf) => seen'.tokens = RunTokens(in_buf, seen'.cksums, n + 1)
<1> DEFINE ck == seen.cksums
           d == Append(ck, c)
           e == in_buf[n + 1]
           atEnd == n = Len(in_buf) - 1 /\ c = tok.prev
           first == IF atEnd THEN Collected(tok, e) ELSE tok
           offer == (atEnd \/ c # tok.prev) /\ first.len \in MIN_AUTO_EXTRA..MAX_AUTO_EXTRA
           reset == IF c # tok.prev THEN [collect |-> <<>>, len |-> 0, prev |-> c] ELSE first
           over == c # tok.prev /\ tok.len \in MIN_AUTO_EXTRA..MAX_AUTO_EXTRA
           more == c = tok.prev /\ tok.len + 1 \in MIN_AUTO_EXTRA..MAX_AUTO_EXTRA
<1>1. /\ tok' = IF c # exec_cksum THEN Collected(reset, e) ELSE reset
      /\ seen' = [cksums |-> d, tokens |-> seen.tokens \cup (IF offer THEN {first.collect} ELSE {})]
  BY DEF Collecting
<1>2. Len(in_buf) \in Nat
  OBVIOUS
<1>3. RunTokens(in_buf, d, n) = seen.tokens \cup (IF over THEN {tok.collect} ELSE {})
  BY TokensOver
<1>4. CASE n + 1 < Len(in_buf)
  <2>1. ~atEnd /\ first = tok /\ n + 1 # Len(in_buf)
    BY <1>2, <1>4
  <2>2. offer <=> over
    BY <2>1
  <2>3. reset = IF c # tok.prev THEN [collect |-> <<>>, len |-> 0, prev |-> c] ELSE tok
    BY <2>1
  <2>4. OpenRun(IF c # exec_cksum THEN Collected(reset, in_buf[Len(ck) + 1]) ELSE reset, d, in_buf)
    <3> HIDE DEF reset
    <3> QED BY <2>3, RunOpen
  <2>5. OpenRun(tok', d, in_buf)
    <3> HIDE DEF reset, d
    <3> QED BY <1>1, <2>4
  <2>6. seen'.cksums = d /\ seen'.tokens = seen.tokens \cup (IF over THEN {tok.collect} ELSE {})
    <3> HIDE DEF offer, over, first, d
    <3> QED BY <1>1, <2>1, <2>2
  <2> HIDE DEF d, over
  <2>7. seen'.tokens = RunTokens(in_buf, d, n)
    BY <1>3, <2>6
  <2> QED BY <2>1, <2>5, <2>6, <2>7 DEF d
<1>5. CASE n + 1 = Len(in_buf)
  <2>1. n = Len(in_buf) - 1 /\ ~(n + 1 < Len(in_buf))
    BY <1>2, <1>5
  <2>2. tok.len + 1 \in MIN_AUTO_EXTRA..MAX_AUTO_EXTRA => tok.len < MAX_AUTO_EXTRA
    BY StageConstants
  <2>3. tok.len + 1 \in MIN_AUTO_EXTRA..MAX_AUTO_EXTRA =>
            Append(tok.collect, e) = SubSeq(in_buf, Len(ck) - tok.len + 1, Len(ck) + 1)
    BY <2>2, CollectedMore
  <2>4. RunTokens(in_buf, d, n + 1) =
            RunTokens(in_buf, d, n) \cup (IF more THEN {Append(tok.collect, e)} ELSE {})
    <3> DEFINE v == SubSeq(in_buf, Len(ck) - tok.len + 1, Len(ck) + 1)
    <3>1. RunTokens(in_buf, Append(ck, c), Len(ck) + 1) =
              RunTokens(in_buf, Append(ck, c), Len(ck))
                  \cup (IF c = tok.prev /\ tok.len + 1 \in MIN_AUTO_EXTRA..MAX_AUTO_EXTRA
                        THEN {v} ELSE {})
      <4>1. /\ ck \in Seq(Checksums) /\ c \in Checksums /\ OpenRun(tok, ck, in_buf)
        OBVIOUS
      <4> HIDE DEF ck
      <4> QED BY <4>1, TokensInTheEnd, Zenon DEF v
    <3>2. n = Len(ck)
      OBVIOUS
    <3>3. more => v = Append(tok.collect, e)
      BY <2>3
    <3> HIDE DEF ck, e, v
    <3> QED BY <3>1, <3>2, <3>3 DEF d, more
  <2>5. (IF offer THEN {first.collect} ELSE {}) =
            (IF over THEN {tok.collect} ELSE {}) \cup (IF more THEN {Append(tok.collect, e)} ELSE {})
    <3>1. CASE c = tok.prev
      <4>1. first = Collected(tok, e) /\ atEnd
        BY <2>1, <3>1
      <4>2. /\ Collected(tok, e).len = tok.len + 1
            /\ Collected(tok, e).collect = IF tok.len < MAX_AUTO_EXTRA THEN Append(tok.collect, e)
                                           ELSE tok.collect
        <5> HIDE DEF e
        <5> QED BY DEF Collected
      <4>3. offer <=> more
        <5> HIDE DEF e, atEnd, first
        <5> QED BY <3>1, <4>1, <4>2
      <4>4. more => first.collect = Append(tok.collect, e)
        <5> HIDE DEF e, atEnd, first
        <5> QED BY <2>2, <4>1, <4>2
      <4>5. ~over
        BY <3>1
      <4> HIDE DEF offer, more, over, first, e
      <4> QED BY <4>3, <4>4, <4>5
    <3>2. CASE c # tok.prev
      <4>1. first = tok /\ (offer <=> over) /\ ~more
        BY <3>2
      <4> HIDE DEF offer, more, over, first, e
      <4> QED BY <4>1
    <3> QED BY <3>1, <3>2
  <2> HIDE DEF offer, more, over, first, e, d
  <2>6. seen'.cksums = d /\ seen'.tokens = seen.tokens \cup (IF offer THEN {first.collect} ELSE {})
    BY <1>1
  <2>7. seen'.tokens = RunTokens(in_buf, d, n + 1)
    BY <1>3, <2>4, <2>5, <2>6
  <2> QED BY <2>1, <2>6, <2>7 DEF d
<1>6. CASE ~(n + 1 < Len(in_buf)) /\ n + 1 # Len(in_buf)
  BY <1>2, <1>6
<1> QED BY <1>4, <1>5, <1>6

\* Bits and bytes.
LEMMA DivUnique ==
    ASSUME NEW k \in Nat, NEW m \in Nat, BITS * m <= k, k < BITS * m + BITS
    PROVE  k \div BITS = m
<1>1. BITS \in Nat /\ BITS > 0
  BY StageConstants
<1> DEFINE z == k \div BITS
<1>2. z \in Nat /\ BITS * z <= k /\ k < BITS * z + BITS
  <2>1. z \in Nat /\ BITS * z <= k
    BY <1>1
  <2>2. k < BITS * z + BITS
    BY <1>1
  <2> QED BY <2>1, <2>2
<1>3. BITS * m \in Int /\ BITS * z \in Int
  BY <1>1, <1>2
<1> HIDE DEF z
<1>4. ~(z > m)
  <2> SUFFICES ASSUME z > m PROVE FALSE
    OBVIOUS
  <2>1. z - m - 1 \in Nat
    BY <1>2
  <2>2. BITS * (z - m - 1) >= 0
    BY <1>1, <2>1
  <2>3. BITS * (z - m - 1) = BITS * z - BITS * m - BITS
    BY <1>1, <1>2
  <2> QED BY <1>1, <1>2, <1>3, <2>2, <2>3
<1>5. ~(z < m)
  <2> SUFFICES ASSUME z < m PROVE FALSE
    OBVIOUS
  <2>1. m - z - 1 \in Nat
    BY <1>2
  <2>2. BITS * (m - z - 1) >= 0
    BY <1>1, <2>1
  <2>3. BITS * (m - z - 1) = BITS * m - BITS * z - BITS
    BY <1>1, <1>2
  <2> QED BY <1>1, <1>2, <1>3, <2>2, <2>3
<1>6. z = m
  BY <1>2, <1>4, <1>5
<1> QED BY <1>6 DEF z

\* The byte of the next bit is the next byte only after the last bit.
LEMMA NextBit ==
    ASSUME NEW i \in Nat
    PROVE  (i + 1) \div BITS = IF i % BITS = BITS - 1 THEN (i \div BITS) + 1 ELSE i \div BITS
<1>1. BITS \in Nat /\ BITS > 0
  BY StageConstants
<1> DEFINE q == i \div BITS
           r == i % BITS
<1>2. q \in Nat /\ r \in Nat /\ r < BITS
  BY <1>1
<1>3. r = i - BITS * q
  BY <1>1
<1>4. BITS * q \in Int
  BY <1>1, <1>2
<1> HIDE DEF q, r
<1>5. CASE r = BITS - 1
  <2>1. BITS * (q + 1) = BITS * q + BITS
    BY <1>1, <1>2
  <2>2. i + 1 = BITS * q + BITS
    BY <1>1, <1>3, <1>4, <1>5
  <2>3. BITS * (q + 1) <= i + 1 /\ i + 1 < BITS * (q + 1) + BITS /\ q + 1 \in Nat /\ i + 1 \in Nat
    BY <1>1, <1>2, <1>4, <2>1, <2>2
  <2>4. (i + 1) \div BITS = q + 1
    BY <2>3, DivUnique
  <2> QED BY <1>5, <2>4 DEF q, r
<1>6. CASE r # BITS - 1
  <2>1. BITS * q <= i + 1 /\ i + 1 < BITS * q + BITS /\ i + 1 \in Nat
    BY <1>1, <1>2, <1>3, <1>4, <1>6
  <2>2. (i + 1) \div BITS = q
    BY <1>2, <2>1, DivUnique
  <2> QED BY <1>6, <2>2 DEF q, r
<1> QED BY <1>5, <1>6

\* All bits of n bytes are n bytes.
LEMMA AllBits == ASSUME NEW n \in Nat PROVE (n * BITS) \div BITS = n
<1>1. BITS \in Nat /\ BITS > 0
  BY StageConstants
<1>2. n * BITS \in Nat /\ n * BITS = BITS * n /\ BITS * n \in Int
  BY <1>1
<1>3. BITS * n <= n * BITS /\ n * BITS < BITS * n + BITS
  BY <1>1, <1>2
<1> QED BY <1>2, <1>3, DivUnique

\* A checksum is a path and whether the trace was left unclassified.
LEMMA ChecksumOk == ASSUME NEW b PROVE cksum(b) \in Checksums
<1>1. Path(b) \in SUBSET DOMAIN target.groups
  BY DEF Path
<1>2. (target.loops /\ Path(b) \in virgin) \in BOOLEAN
  OBVIOUS
<1> QED BY <1>1, <1>2 DEF cksum, Checksums

\* The first stage: its loops, and the byte it is at.
LEMMA FirstStage ==
    ASSUME EntryOk, DetInv, pc = "stage", at.stage = "flip1"
    PROVE  /\ in_buf \in Seq(Byte) /\ Len(in_buf) \in Nat /\ Len(in_buf) >= 1
           /\ at.i \in Nat /\ at.c = 1 /\ out_buf = in_buf /\ Inner(at.stage) = 1
           /\ Positions(at.stage) = Len(in_buf) * BITS /\ at.i <= Len(in_buf) * BITS
           /\ Shape[at.stage].kind = "bits"
<1>1. /\ in_buf \in Seq(Byte) /\ Len(in_buf) \in Nat /\ Len(in_buf) >= 1 /\ BITS \in Nat
  BY Constants, StageConstants DEF EntryOk
<1>2. Shape[at.stage].kind = "bits" /\ Shape[at.stage].w = 1
  <2>1. Shape["flip1"].kind = "bits" /\ Shape["flip1"].w = 1
    BY StageNames DEF Shape
  <2> QED BY <2>1
<1>3. Inner(at.stage) = 1 /\ Positions(at.stage) = Len(in_buf) * BITS - 1 + 1
  BY <1>2 DEF Inner, Positions
<1>4. Len(in_buf) * BITS \in Int
  BY <1>1
<1>5. LoopOk /\ BufferOk
  BY DEF DetInv
<1>6. at.i \in Nat /\ at.c \in Nat \ {0} /\ at.i <= Positions(at.stage) /\ at.c <= Inner(at.stage)
  BY <1>5 DEF LoopOk
<1>7. at.c = 1
  BY <1>3, <1>6
<1>8. out_buf = in_buf
  BY <1>5, <1>7 DEF BufferOk
<1>9. Positions(at.stage) = Len(in_buf) * BITS
  BY <1>3, <1>4
<1> QED BY <1>1, <1>2, <1>3, <1>6, <1>7, <1>8, <1>9

\* A run in the first stage.
LEMMA RunsFlip1 ==
    ASSUME EntryOk, TokensOk, DetInv, RunsInv, RunCandidate, at.stage = "flip1"
    PROVE  RunsInv'
<1> DEFINE b == Mutated(at.stage, at.i, at.c, Orig)
           ck == seen.cksums
           n == at.i \div BITS
<1>1. /\ pc = "stage" /\ pc' = "stage" /\ at.i < Positions(at.stage) /\ UNCHANGED <<in_buf, target>>
      /\ IF at.i % BITS = BITS - 1 THEN Collecting(n, cksum(b)) ELSE UNCHANGED <<tok, seen>>
  BY DEF RunCandidate, InStage
<1>2. /\ in_buf \in Seq(Byte) /\ Len(in_buf) \in Nat /\ Len(in_buf) >= 1
      /\ at.i \in Nat /\ at.c = 1 /\ out_buf = in_buf /\ Inner(at.stage) = 1
      /\ at.i < Len(in_buf) * BITS
  BY <1>1, FirstStage
<1>3. n \in 0..(Len(in_buf) - 1)
  BY <1>2, ByteInEntry
<1>4. n \in Nat /\ n < Len(in_buf)
  BY <1>2, <1>3
<1>5. /\ DOMAIN tok = {"collect", "len", "prev"} /\ tok.len \in Nat
  BY <1>1 DEF TokensOk
<1>6. /\ ck \in Seq(Checksums) /\ Len(ck) = n
      /\ OpenRun(tok, ck, in_buf) /\ seen.tokens = RunTokens(in_buf, ck, n - 1)
  BY <1>1, <1>4 DEF RunsInv
<1>7. at'.stage = "flip1" /\ at'.i = at.i + 1
  <2>1. at \in [stage : Range(Stages), i : Nat, c : Nat \ {0}, orig : Seq(Byte), last : Nat]
    BY <1>1 DEF DetInv, LoopOk
  <2>2. PICK last : NextIteration(last)
    BY DEF RunCandidate
  <2> QED BY <1>2, <2>1, <2>2 DEF NextIteration
<1>8. at'.i \div BITS = IF at.i % BITS = BITS - 1 THEN n + 1 ELSE n
  BY <1>2, <1>7, NextBit
<1> HIDE DEF n
<1>9. CASE at.i % BITS = BITS - 1
  <2> DEFINE c == cksum(b)
  <2>1. c \in Checksums /\ Collecting(n, c)
    BY <1>1, <1>9, ChecksumOk
  <2> HIDE DEF c
  <2>2. /\ seen'.cksums = Append(ck, c)
        /\ n + 1 < Len(in_buf) =>
              /\ OpenRun(tok', seen'.cksums, in_buf)
              /\ seen'.tokens = RunTokens(in_buf, seen'.cksums, n)
        /\ n + 1 = Len(in_buf) => seen'.tokens = RunTokens(in_buf, seen'.cksums, n + 1)
    BY <1>2, <1>4, <1>5, <1>6, <2>1, CollectRuns
  <2>3. seen'.cksums \in Seq(Checksums) /\ Len(seen'.cksums) = n + 1
    BY <1>4, <1>6, <2>1, <2>2
  <2>4. Checksums' = Checksums
    BY <1>1 DEF Checksums
  <2>5. (n + 1) - 1 = n /\ (n + 1 >= Len(in_buf) => n + 1 = Len(in_buf))
    BY <1>2, <1>4
  <2>6. at'.i \div BITS = n + 1
    BY <1>8, <1>9
  <2> QED BY <1>1, <1>7, <2>2, <2>3, <2>4, <2>5, <2>6 DEF RunsInv
<1>10. CASE at.i % BITS # BITS - 1
  <2>1. UNCHANGED <<tok, seen>>
    BY <1>1, <1>10
  <2>2. Checksums' = Checksums
    BY <1>1 DEF Checksums
  <2>3. at'.i \div BITS = n /\ ~(n >= Len(in_buf))
    BY <1>2, <1>4, <1>8, <1>10
  <2> QED BY <1>1, <1>4, <1>6, <1>7, <2>1, <2>2, <2>3 DEF RunsInv
<1> QED BY <1>9, <1>10

\* A step within a stage that collects nothing and is not in the first one.
LEMMA RunsSame ==
    ASSUME RunsInv, pc = "stage", pc' = "stage", UNCHANGED <<target, in_buf, seen>>,
           at.stage # "flip1", at'.stage = at.stage
    PROVE  RunsInv'
<1>1. Checksums' = Checksums
  BY DEF Checksums
<1> QED BY <1>1 DEF RunsInv

\* The first stage is over when every byte has been collected, and nothing is
\* collected after it.
LEMMA RunsEndStage ==
    ASSUME EntryOk, DetInv, RunsInv, EndStage
    PROVE  RunsInv'
<1> DEFINE s == Stages[Min(Later(at.stage))]
<1>1. /\ pc = "stage" /\ pc' = "stage" /\ UNCHANGED <<target, in_buf, seen>>
      /\ at.i >= Positions(at.stage) /\ Later(at.stage) # {} /\ at' = [Idle EXCEPT !.stage = s]
  BY DEF EndStage, StartStage
<1>2. at.stage \in Range(Stages)
  BY <1>1 DEF DetInv, LoopOk
<1>3. /\ at.stage = "flip1" => s = "flip2"
      /\ at.stage = "flip2" => s = "flip4"
      /\ at.stage = "flip4" => s = "flip8"
      /\ at.stage \notin {"flip1", "flip2", "flip4"} =>
            s \in Range(Stages) \ {"flip1", "flip2", "flip4", "flip8"}
  BY <1>1, <1>2, FollowsFlips
<1>4. at'.stage = s
  BY <1>1 DEF Idle
<1>5. Checksums' = Checksums
  BY <1>1 DEF Checksums
<1> HIDE DEF s
<1>6. CASE at.stage = "flip1"
  <2>1. /\ Len(in_buf) \in Nat /\ at.i \in Nat /\ Positions(at.stage) = Len(in_buf) * BITS
        /\ at.i <= Len(in_buf) * BITS
    BY <1>1, <1>6, FirstStage
  <2>2. Len(in_buf) * BITS \in Int
    BY <2>1, StageConstants
  <2>3. at.i = Len(in_buf) * BITS
    BY <1>1, <2>1, <2>2
  <2>4. at.i \div BITS = Len(in_buf)
    BY <2>1, <2>3, AllBits
  <2>5. seen.cksums \in Seq(Checksums) /\ seen.tokens = RunTokens(in_buf, seen.cksums, Len(seen.cksums))
    BY <1>1, <1>6, <2>1, <2>4 DEF RunsInv
  <2>6. at'.stage = "flip2"
    BY <1>3, <1>4, <1>6
  <2> QED BY <1>1, <1>5, <2>5, <2>6 DEF RunsInv
<1>7. CASE at.stage # "flip1"
  <2>1. at'.stage \notin {"flip1", "flip2"}
    BY <1>3, <1>4, <1>7
  <2>2. seen.cksums \in Seq(Checksums)
    BY <1>1 DEF RunsInv
  <2> QED BY <1>1, <1>5, <2>1, <2>2 DEF RunsInv
<1> QED BY <1>6, <1>7

\* Every step keeps what is known of the runs and of the tokens offered.
LEMMA RunsStep ==
    ASSUME EntryOk, TokensOk, DetInv, RunsInv, [Next]_vars
    PROVE  RunsInv'
<1>1. CASE pc' \in {"havoc", "done"}
  BY <1>1 DEF RunsInv
<1>2. CASE TrimRun \/ TrimHalve \/ TrimWrite
  <2>1. pc \in {"trim", "write"} /\ pc' \in {"trim", "write", "written"} /\ UNCHANGED <<seen, tok>>
    BY <1>2 DEF TrimRun, TrimHalve, TrimWrite
  <2>2. seen' = NoSeen /\ tok' = NoTok
    BY <2>1 DEF RunsInv
  <2>3. NoSeen' = NoSeen /\ NoTok' = NoTok
    BY DEF NoSeen, NoTok, exec_cksum
  <2> QED BY <2>1, <2>2, <2>3 DEF RunsInv
<1>3. CASE StartDet
  <2>1. /\ pc = "written" /\ pc' = "stage" /\ UNCHANGED <<seen, tok, in_buf, target>>
        /\ at'.stage = "flip1" /\ at'.i = 0
    BY <1>3 DEF StartDet, StartStage, Idle
  <2>2. seen.cksums = <<>> /\ seen.tokens = {} /\ tok = NoTok
    BY <2>1 DEF RunsInv, NoSeen
  <2>3. Len(in_buf) \in Nat /\ Len(in_buf) >= 1 /\ in_buf \in Seq(Byte)
    BY <2>1, Constants DEF EntryOk
  <2>4. 0 = at'.i \div BITS
    BY <2>1, StageConstants
  <2>5. OpenRun(tok, <<>>, in_buf)
    <3>1. MAX_AUTO_EXTRA \in Nat
      BY StageConstants
    <3>2. NoTok.len = 0 /\ NoTok.prev = exec_cksum /\ NoTok.collect = <<>>
      BY DEF NoTok
    <3>3. SubSeq(in_buf, 1, 0) = <<>>
      BY <2>3
    <3>4. Lesser(0, MAX_AUTO_EXTRA) = 0
      BY <3>1 DEF Lesser
    <3> QED BY <2>2, <3>2, <3>3, <3>4 DEF OpenRun
  <2>6. RunTokens(in_buf, <<>>, 0 - 1) = {}
    BY DEF RunTokens
  <2>7. <<>> \in Seq(Checksums') /\ Len(<<>>) = 0 /\ ~(0 >= Len(in_buf))
    BY <2>3
  <2> QED BY <2>1, <2>2, <2>4, <2>5, <2>6, <2>7 DEF RunsInv
<1>4. CASE SkipPosition \/ SkipCandidate
  <2>1. pc = "stage" /\ pc' = "stage" /\ UNCHANGED <<target, in_buf, seen>>
    BY <1>4 DEF SkipPosition, SkipCandidate, InStage
  <2>2. at \in [stage : Range(Stages), i : Nat, c : Nat \ {0}, orig : Seq(Byte), last : Nat]
    BY <2>1 DEF DetInv, LoopOk
  <2>3. at'.stage = at.stage
    BY <1>4, <2>2 DEF SkipPosition, SkipCandidate, NextIteration
  <2>4. at.stage # "flip1"
    <3>1. Shape["flip1"].kind = "bits"
      BY StageNames DEF Shape
    <3>2. CASE SkipPosition
      BY <3>1, <3>2 DEF SkipPosition, Consulted
    <3>3. CASE SkipCandidate
      BY <3>1, <3>3 DEF SkipCandidate, Runs
    <3> QED BY <1>4, <3>2, <3>3
  <2> QED BY <2>1, <2>3, <2>4, RunsSame
<1>5. CASE RunCandidate
  <2>1. CASE at.stage = "flip1"
    BY <1>5, <2>1, RunsFlip1
  <2>2. CASE at.stage # "flip1"
    <3>1. pc = "stage" /\ pc' = "stage" /\ UNCHANGED <<target, in_buf>>
      BY <1>5 DEF RunCandidate, InStage
    <3>2. UNCHANGED seen
      BY <1>5, <2>2 DEF RunCandidate
    <3>3. at \in [stage : Range(Stages), i : Nat, c : Nat \ {0}, orig : Seq(Byte), last : Nat]
      BY <3>1 DEF DetInv, LoopOk
    <3>4. PICK last : NextIteration(last)
      BY <1>5 DEF RunCandidate
    <3>5. at'.stage = at.stage
      BY <3>3, <3>4 DEF NextIteration
    <3> QED BY <2>2, <3>1, <3>2, <3>5, RunsSame
  <2> QED BY <2>1, <2>2
<1>6. CASE EndStage
  BY <1>6, RunsEndStage
<1>7. CASE TrimStop \/ SkipDet \/ Abandoned \/ AbandonEntry \/ EndDet \/ HavocStep \/ Finish
  <2>1. pc' \in {"havoc", "done"}
    BY <1>7 DEF TrimStop, SkipDet, Abandoned, AbandonEntry, EndDet, HavocStep, fvars, Finish
  <2> QED BY <1>1, <2>1
<1>8. CASE UNCHANGED vars
  <2>1. UNCHANGED <<pc, target, in_buf, at, tok, seen>>
    BY <1>8 DEF vars, fvars
  <2>2. Checksums' = Checksums /\ NoSeen' = NoSeen /\ NoTok' = NoTok
    BY <2>1 DEF Checksums, NoSeen, NoTok, exec_cksum
  <2> QED BY <2>1, <2>2 DEF RunsInv
<1> QED BY <1>2, <1>3, <1>4, <1>5, <1>6, <1>7, <1>8 DEF Next

\* The tokens offered to the dictionary by the end of the first stage are exactly
\* the longest runs of bytes with one checksum other than the entry's, of the
\* lengths that are wanted, with the run at the end of the input, for every entry,
\* program and limits.  The argument: while the stage goes through the bytes, tok
\* is the run that ends with the last byte (OpenRun); a byte that goes on with it
\* makes it longer, any other one ends it and offers it, and the last byte of the
\* input ends the run that it goes on with.
THEOREM TokensAreExactlyRuns == Spec => []TokensAreRuns
<1>1. Init => RunsInv
  BY DEF Init, RunsInv
<1>2. (EntryOk /\ TokensOk /\ DetInv) /\ RunsInv /\ [Next]_vars => RunsInv'
  BY RunsStep
<1>3. RunsInv => TokensAreRuns
  <2> DEFINE ck == seen.cksums
             longest == {r \in (DOMAIN ck) \X (DOMAIN ck) :
                           /\ r[1] <= r[2]
                           /\ \A k \in r[1]..r[2] : ck[k] = ck[r[1]] /\ ck[k] # exec_cksum
                           /\ r[1] > 1 => ck[r[1] - 1] # ck[r[1]]
                           /\ r[2] < Len(ck) => ck[r[2] + 1] # ck[r[1]]}
             wanted == {x \in longest : x[2] - x[1] + 1 \in MIN_AUTO_EXTRA..MAX_AUTO_EXTRA}
             m == Len(ck)
  <2> SUFFICES ASSUME RunsInv, pc = "stage", at.stage = "flip2"
               PROVE  seen.tokens = {SubSeq(in_buf, r[1], r[2]) : r \in wanted}
    BY DEF TokensAreRuns
  <2>1. ck \in Seq(Checksums) /\ seen.tokens = RunTokens(in_buf, ck, m)
    BY DEF RunsInv
  <2>2. DOMAIN ck = 1..m
    BY <2>1
  <2>3. wanted = {x \in (1..m) \X (1..m) : RunAt(ck, x[1], x[2]) /\ Sized(x[1], x[2])}
    <3> HIDE DEF ck, m
    <3> QED BY <2>2 DEF RunAt, Sized, m
  <2> HIDE DEF ck, m, wanted
  <2> QED BY <2>1, <2>3 DEF RunTokens
<1> QED BY <1>1, <1>2, <1>3, StageInvariant, PTL DEF Spec
==============================================================================
