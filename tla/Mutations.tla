------------------------------ MODULE Mutations ------------------------------
(***************************************************************************)
(* The arithmetic behind the deterministic stages of fuzz_one              *)
(* (AFLplusplus/src/afl-fuzz-one.c): reading and writing words of a buffer *)
(* in both byte orders, and the three helpers that tell whether a change   *)
(* would repeat what an earlier stage has run.                             *)
(*                                                                         *)
(* A buffer is a sequence of bytes; offsets count from 0, as in the code.  *)
(* A byte is the set of its bits that are 1, of BITS bits (8 in the code). *)
(* A word of w bytes is a number below Base^w, so every u8/u16/u32 result  *)
(* is taken modulo its width.  The xor of two words is the set of the bits *)
(* in which they differ.                                                   *)
(***************************************************************************)
EXTENDS Integers, Sequences, FiniteSets, FiniteSetsExt, TLC

CONSTANTS
    BITS,              \* bits of a byte
    ARITH_MAX,         \* largest number added or subtracted
    interesting_8,     \* sequences of words, cast to u8, u16 and u32
    interesting_16,
    interesting_32

ASSUME MutationsAssumption ==
    /\ BITS \in Nat /\ BITS > 4
    /\ ARITH_MAX \in 1..(2^BITS - 1)
    /\ interesting_8 \in Seq(0..(2^BITS - 1)) \ {<<>>}
    /\ interesting_16 \in Seq(0..(2^(2 * BITS) - 1)) \ {<<>>}
    /\ interesting_32 \in Seq(0..(2^(4 * BITS) - 1)) \ {<<>>}

Base == 2^BITS
Bits == 0..(BITS - 1)
Byte == SUBSET Bits

\* Byte k of word v, counted from the least significant one, as a number.
ByteOf(v, k) == (v \div Base^k) % Base

\* The byte a number below Base stands for, and the number of a byte; TLC
\* computes the table once because of the @@.
u8(n) == {x \in Bits : (n \div 2^x) % 2 = 1}
Num == [b \in Byte |-> MapThenSumSet(LAMBDA x : 2^x, b)] @@ <<>>

\* The little-endian word in bytes s, and word v as w bytes in memory.
Value(s) ==
    LET lower[k \in 0..Len(s)] == IF k = 0 THEN 0 ELSE lower[k - 1] + Num[s[k]] * Base^(k - 1)
    IN  lower[Len(s)]
Bytes(v, w) == [k \in 1..w |-> u8(ByteOf(v, k - 1))]

\* *(u16 *)(buf + i) and its kin.
Word(buf, i, w) == Value(SubSeq(buf, i + 1, i + w))

\* The buffer after bytes s were stored at offset i.
Put(buf, i, s) ==
    [k \in DOMAIN buf |-> IF k - i \in DOMAIN s THEN s[k - i] ELSE buf[k]]

\* SWAP16 and SWAP32.
SWAP(v, w) ==
    CASE w = 1 -> v
      [] w = 2 -> ByteOf(v, 0) * Base + ByteOf(v, 1)
      [] w = 4 -> ByteOf(v, 0) * Base^3 + ByteOf(v, 1) * Base^2
                      + ByteOf(v, 2) * Base + ByteOf(v, 3)

\* old ^ new, as the set of the bits that differ.
Xor(old, new, w) ==
    {k \in 0..(w * BITS - 1) : (old \div 2^k) % 2 # (new \div 2^k) % 2}

\* FLIP_BIT of the w bits from bit i on; the bits of a buffer are numbered
\* from the most significant one of byte 0.
FlipBits(buf, i, w) ==
    [k \in DOMAIN buf |->
        SymDiff(buf[k], {x \in Bits : k * BITS - 1 - x \in i..(i + w - 1)})]

\* ^= 0xFF, 0xFFFF, 0xFFFFFFFF at offset i.
FlipBytes(buf, i, w) ==
    [k \in DOMAIN buf |-> IF k - 1 \in i..(i + w - 1) THEN Bits \ buf[k] ELSE buf[k]]

-----------------------------------------------------------------------------
\* A slip of could_be_bitflip: the wide flips are taken to start at any bit.
BitflipAtAnyBit(diff) ==
    \/ diff = {}
    \/ \E n \in {1, 2, 4, BITS, 2 * BITS, 4 * BITS} : diff = Min(diff)..(Min(diff) + n - 1)

could_be_bitflip(diff) ==
    \/ diff = {}
    \/ LET sh == Min(diff)
       IN  \/ \E n \in {1, 2, 4} : diff = sh..(sh + n - 1)
           \/ /\ sh % BITS = 0
              /\ \E w \in {1, 2, 4} : diff = sh..(sh + w * BITS - 1)

\* One of the differences, taken modulo the width, is at most ARITH_MAX.
WithinArith(a, b, w) ==
    \/ (a - b) % Base^w <= ARITH_MAX
    \/ (b - a) % Base^w <= ARITH_MAX

could_be_arith(old, new, blen) ==
    LET part(v, k, w) == (v \div Base^(k * w)) % Base^w
        differing(w)  == {k \in 0..((blen \div w) - 1) : part(old, k, w) # part(new, k, w)}
        onlyOne(w, Near(_, _)) ==
            /\ Cardinality(differing(w)) = 1
            /\ \A k \in differing(w) : Near(part(old, k, w), part(new, k, w))
    IN  \/ old = new
        \/ onlyOne(1, LAMBDA a, b : WithinArith(a, b, 1))
        \/ /\ blen > 1
           /\ onlyOne(2, LAMBDA a, b : \/ WithinArith(a, b, 2)
                                       \/ WithinArith(SWAP(a, 2), SWAP(b, 2), 2))
        \/ /\ blen = 4
           /\ \/ WithinArith(old, new, 4)
              \/ WithinArith(SWAP(old, 4), SWAP(new, 4), 4)

could_be_interest(old, new, blen, check_le) ==
    LET inserted(i, w, v) ==
            old - ((old \div Base^i) % Base^w) * Base^i + v * Base^i
    IN  \/ old = new
        \/ \E i \in 0..(blen - 1) : \E j \in DOMAIN interesting_8 :
              new = inserted(i, 1, interesting_8[j])
        \/ /\ ~(blen = 2 /\ ~check_le)
           /\ \E i \in 0..(blen - 2) : \E j \in DOMAIN interesting_16 :
                 \/ new = inserted(i, 2, interesting_16[j])
                 \/ blen > 2 /\ new = inserted(i, 2, SWAP(interesting_16[j], 2))
        \/ /\ blen = 4 /\ check_le
           /\ \E j \in DOMAIN interesting_32 : new = interesting_32[j]
=============================================================================
