------------------------------ MODULE MCFuzzOne ------------------------------
EXTENDS FuzzOne

\* Bytes of five bits, words of up to twenty.
MCInteresting8 == <<16, 0, 9>>
MCInteresting16 == <<512, 31, 100>>
MCInteresting32 == <<524288, 33825>>
MCLower(b) == IF Num[b] \in 16..23 THEN b \cup {3} ELSE b

Data(s) == [k \in DOMAIN s |-> u8(s[k])]

MCExtras == <<Data(<<7>>), Data(<<7, 1>>)>>

\* A carry that flips four bits across two bytes (28 + 4), bytes that repeat,
\* and a dictionary that is full when the entry adds a token.
NoDict(s) == [data |-> Data(s), dict |-> <<>>]
Entry(s, n) == [data |-> Data(s), hits |-> n]
FullDict == <<Entry(<<1, 9, 0>>, 2), Entry(<<9, 0, 1, 2>>, 3),
              Entry(<<2, 1, 2>>, 1), Entry(<<2, 2, 1>>, 1)>>

MCCases ==
    {NoDict(<<5>>), NoDict(<<28, 0, 9>>), NoDict(<<7, 7, 7, 31, 7, 7, 7>>),
     [data |-> Data(<<3, 28, 16, 9, 0>>), dict |-> FullDict]}
MCShmemCases == {NoDict(<<7, 7, 7, 31, 7, 7>>), NoDict(<<1, 2, 3, 4, 5, 6>>)}

MCStaleCases == {NoDict(<<7, 7, 7, 31, 7, 7, 7>>)}

MCTargets ==
    {[groups |-> <<{0}>>, loops |-> TRUE], [groups |-> <<{2, 3, 4}>>, loops |-> FALSE],
     [groups |-> <<{0, 1, 2}>>, loops |-> FALSE]}
=============================================================================
