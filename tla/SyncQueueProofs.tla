--------------------------- MODULE SyncQueueProofs ---------------------------
(***************************************************************************)
(* Proofs about SyncQueue, for any number of test cases, trims, kills and  *)
(* resumes: nothing that was written is lost but to the windows the module *)
(* names, what the importer has counted it has met, and without -N nothing *)
(* changes under its mapping.                                              *)
(***************************************************************************)
EXTENDS SyncQueue, FiniteSetTheorems, TLAPS

(***************************************************************************)
(* The inductive invariant.                                                *)
(***************************************************************************)
File == [case : Nat, full : BOOLEAN, ino : Nat]

Directory(d) ==
  /\ DOMAIN d \subseteq Nat
  /\ IsFiniteSet(DOMAIN d)
  /\ d \in [DOMAIN d -> File]

Types ==
  /\ no_unlink \in BOOLEAN
  /\ Directory(queue) /\ Directory(resume)
  /\ exp \in [pc : {"fuzz", "write", "reopen", "rewrite", "down", "clear",
                    "pivot", "nuke"},
              buf : Seq(Nat), at : Nat]
  /\ imp \in [pc : {"idle", "next", "mapped", "dead"}, list : Seq(Nat),
              next : Nat, case : Nat]
  /\ imp.pc = "mapped" => imp.list # <<>>
  /\ kills \in Nat /\ synced \in Nat
  /\ IsFiniteSet(saved) /\ saved \subseteq Nat
  /\ IsFiniteSet(risk) /\ risk \subseteq Nat

Ids == 0 .. Len(exp.buf) - 1

(* The files ids are in queue/ in full, and are the entries of queue_buf. *)
Holds(ids) ==
  \A j \in ids : /\ j \in DOMAIN queue
                 /\ queue[j].full
                 /\ queue[j].case = exp.buf[j + 1]

Running == exp.pc \in {"fuzz", "write", "reopen", "rewrite"}

(* What each phase of the exporter has on disk.  A resume builds queue_buf *)
(* from what _resume/ has in full; from then on queue_buf has all that was *)
(* saved and is not at risk, and the files of queue/ follow it.            *)
Store ==
  /\ (Running \/ exp.pc \in {"pivot", "nuke"}) =>
       saved \subseteq Range(exp.buf) \cup risk
  /\ Running => DOMAIN resume = {}
  /\ exp.pc \in {"fuzz", "nuke"} => DOMAIN queue = Ids /\ Holds(Ids)
  /\ exp.pc = "write" => /\ exp.at = Len(exp.buf)
                         /\ DOMAIN queue = Ids \cup {exp.at}
                         /\ Holds(Ids)
  /\ exp.pc = "reopen" => /\ exp.at \in Ids
                          /\ DOMAIN queue = Ids \ {exp.at}
                          /\ Holds(Ids \ {exp.at})
  /\ exp.pc = "rewrite" => /\ exp.at \in Ids
                           /\ DOMAIN queue = Ids
                           /\ Holds(Ids \ {exp.at})
                           /\ queue[exp.at].case = exp.buf[exp.at + 1]
  /\ exp.pc = "pivot" => /\ exp.at \in Ids
                         /\ DOMAIN queue = 0 .. exp.at - 1
                         /\ Holds(0 .. exp.at - 1)
  /\ exp.pc \in {"clear", "pivot"} => saved \subseteq Cases(resume) \cup risk
  /\ exp.pc = "down" =>
       saved \subseteq risk \cup (IF DOMAIN resume = {} THEN Cases(queue)
                                                        ELSE Cases(resume))

(* The test cases by number, the one being written included. *)
Known ==
  IF exp.pc = "write" THEN Append(exp.buf, queue[exp.at].case) ELSE exp.buf

Seen(j) == Known[j] \in ran \cup missed

Met(j) == Seen(j) \/ Known[j] \in met

(* The listing at work: in ascending order, of files that exist or have    *)
(* existed, under the names they have; and whatever lies below a listed    *)
(* file without being listed has been met before.                          *)
ListingOK ==
  /\ \A a \in DOMAIN imp.list : imp.list[a] < Len(Known)
  /\ \A a, b \in DOMAIN imp.list : a < b => imp.list[a] < imp.list[b]
  /\ \A j \in 1 .. Len(Known) :
       (/\ j - 1 \notin Range(imp.list)
        /\ \E a \in DOMAIN imp.list : j - 1 < imp.list[a]) => Met(j)
  /\ \A a \in DOMAIN imp.list : listed[imp.list[a]] = Known[imp.list[a] + 1]

Counting ==
  kills = 0 =>
    /\ Running
    /\ synced <= Len(Known)
    /\ \A j \in 1 .. synced : Seen(j)
    /\ imp.pc \in {"next", "mapped"} => ListingOK /\ imp.next <= Len(Known)
    /\ imp.pc = "next" => /\ \A a \in DOMAIN imp.list : imp.list[a] >= imp.next
                          /\ \A j \in 1 .. imp.next : Met(j)
    /\ imp.pc = "mapped" => /\ imp.next <= imp.list[1] + 1
                            /\ imp.case = Known[imp.list[1] + 1]
                            /\ \A j \in 1 .. imp.next :
                                 Met(j) \/ j = imp.list[1] + 1

(* The file being written is not full, and its inode is its own: no other  *)
(* name and no mapping has it.                                             *)
Apart ==
  exp.pc \in {"write", "rewrite"} =>
    /\ ~queue[exp.at].full
    /\ \A k \in DOMAIN queue \ {exp.at} : queue[k].ino # queue[exp.at].ino
    /\ Mapped => view.ino # queue[exp.at].ino

Untouched ==
  ~no_unlink => Apart /\ (Mapped => view.bytes = "whole") /\ ~torn

IInv == Types /\ Store /\ Counting /\ Untouched
-----------------------------------------------------------------------------
(***************************************************************************)
(* Listings.                                                               *)
(***************************************************************************)
LEMMA Ranks ==
  ASSUME NEW ids \in SUBSET Nat, IsFiniteSet(ids)
  PROVE  /\ Cardinality(ids) \in Nat
         /\ \A x \in ids : Rank(ids, x) \in 0 .. Cardinality(ids) - 1
         /\ \A x, y \in ids : x < y => Rank(ids, x) < Rank(ids, y)
         /\ \A r \in 0 .. Cardinality(ids) - 1 : \E x \in ids : Rank(ids, x) = r
<1> DEFINE n == Cardinality(ids)
           B(x) == {y \in ids : y < x}
<1>1. n \in Nat /\ \A x \in ids : /\ IsFiniteSet(B(x)) /\ Rank(ids, x) \in Nat
                                  /\ Rank(ids, x) = Cardinality(B(x))
  BY FS_Subset, FS_CardinalityType DEF Rank
<1>2. ASSUME NEW x \in ids, NEW S \in SUBSET ids, B(x) \subseteq S, x \in S
      PROVE  Rank(ids, x) < Cardinality(S)
  <2>1. x \notin B(x)
    OBVIOUS
  <2>2. Cardinality(B(x) \cup {x}) = Cardinality(B(x)) + 1
    BY <1>1, <2>1, FS_AddElement
  <2>3. Cardinality(B(x) \cup {x}) <= Cardinality(S) /\ IsFiniteSet(S)
    BY <1>2, FS_Subset
  <2>4. Cardinality(S) \in Nat
    BY <2>3, FS_CardinalityType
  <2> QED
    BY <1>1, <2>2, <2>3, <2>4
<1>3. \A x \in ids : Rank(ids, x) \in 0 .. n - 1
  <2> TAKE x \in ids
  <2>1. Rank(ids, x) < n
    BY <1>2
  <2>2. Rank(ids, x) \in Nat /\ n \in Nat
    BY <1>1
  <2> HIDE DEF n
  <2> QED
    BY <2>1, <2>2
<1>4. ASSUME NEW x \in ids, NEW y \in ids, x < y PROVE Rank(ids, x) < Rank(ids, y)
  <2>1. B(x) \subseteq B(y) /\ x \in B(y) /\ B(y) \in SUBSET ids
    <3>1. ASSUME NEW z \in ids, z < x PROVE z < y
      <4>1. x \in Nat /\ y \in Nat /\ z \in Nat
        OBVIOUS
      <4> QED
        BY <1>4, <3>1, <4>1
    <3> QED
      BY <1>4, <3>1
  <2>2. Rank(ids, x) < Cardinality(B(y))
    BY <1>2, <2>1
  <2> QED
    BY <1>1, <2>2
<1>5. ASSUME NEW r \in 0 .. n - 1 PROVE \E x \in ids : Rank(ids, x) = r
  <2> DEFINE f == [x \in ids |-> Rank(ids, x)]
             T == 0 .. n - 1
  <2>1. f \in Injection(ids, T)
    <3>1. f \in [ids -> T]
      BY <1>3
    <3>2. ASSUME NEW x \in ids, NEW y \in ids, f[x] = f[y] PROVE x = y
      <4>1. Rank(ids, x) = Rank(ids, y) /\ Rank(ids, x) \in Nat
        BY <1>1, <3>2
      <4>2. ~(x < y) /\ ~(y < x)
        BY <1>4, <4>1
      <4> QED
        BY <4>2
    <3> QED
      BY <3>1, <3>2 DEF Injection, IsInjective
  <2>2. IsFiniteSet(T) /\ Cardinality(T) = n
    <3>1. 0 \in Int /\ n - 1 \in Int
      BY <1>1
    <3>2. IsFiniteSet(T) /\ Cardinality(T) = IF 0 > n - 1 THEN 0 ELSE (n - 1) - 0 + 1
      BY <3>1, FS_Interval
    <3> QED
      BY <1>1, <3>2
  <2>3. f \in Surjection(ids, T)
    BY <2>1, <2>2, FS_Injection
  <2> QED
    BY <2>3 DEF Surjection
<1> QED
  BY <1>1, <1>3, <1>4, <1>5

(* scandir lists each id once, in ascending order. *)
LEMMA ListingSorted ==
  ASSUME NEW ids \in SUBSET Nat, IsFiniteSet(ids)
  PROVE  /\ Cardinality(ids) \in Nat
         /\ Listing(ids) \in Seq(Nat) /\ Len(Listing(ids)) = Cardinality(ids)
         /\ DOMAIN Listing(ids) = 1 .. Cardinality(ids)
         /\ \A a \in DOMAIN Listing(ids) : Listing(ids)[a] \in ids
         /\ \A x \in ids : \E a \in DOMAIN Listing(ids) : Listing(ids)[a] = x
         /\ \A a, b \in DOMAIN Listing(ids) : a < b => Listing(ids)[a] < Listing(ids)[b]
<1> DEFINE n == Cardinality(ids)
           L == Listing(ids)
<1>1. n \in Nat
  BY Ranks
<1>2. ASSUME NEW a \in 1 .. n PROVE L[a] \in ids /\ Rank(ids, L[a]) = a - 1
  <2>1. a - 1 \in 0 .. n - 1
    BY <1>1
  <2>2. \E x \in ids : Rank(ids, x) = a - 1
    BY <2>1, Ranks
  <2>3. L[a] = CHOOSE x \in ids : Rank(ids, x) = a - 1
    BY DEF Listing
  <2> QED
    BY <2>2, <2>3
<1>3. DOMAIN L = 1 .. n
  BY DEF Listing
<1>4. L \in Seq(Nat) /\ Len(L) = n
  <2>1. L \in [1 .. n -> Nat]
    <3>1. L = [k \in 1 .. n |-> CHOOSE x \in ids : Rank(ids, x) = k - 1]
      BY DEF Listing
    <3> HIDE DEF n, L
    <3>2. \A k \in 1 .. n : L[k] \in Nat
      BY <1>2
    <3> QED
      BY <3>1, <3>2
  <2> QED
    BY <1>1, <2>1
<1> HIDE DEF n, L
<1>5. ASSUME NEW x \in ids PROVE \E a \in 1 .. n : L[a] = x
  <2>1. Rank(ids, x) \in 0 .. n - 1
    BY Ranks DEF n
  <2>2. Rank(ids, x) + 1 \in 1 .. n /\ (Rank(ids, x) + 1) - 1 = Rank(ids, x)
    BY <1>1, <2>1
  <2>3. PICK a \in 1 .. n : a - 1 = Rank(ids, x)
    BY <2>2
  <2>4. L[a] \in ids /\ Rank(ids, L[a]) = Rank(ids, x)
    BY <1>2, <2>3
  <2>5. ~(L[a] < x) /\ ~(x < L[a])
    <3>1. /\ (L[a] < x) => (Rank(ids, L[a]) < Rank(ids, x))
          /\ (x < L[a]) => (Rank(ids, x) < Rank(ids, L[a]))
      BY <2>4, Ranks
    <3> QED
      BY <2>1, <2>4, <3>1
  <2>6. L[a] \in Nat /\ x \in Nat
    BY <2>4
  <2>7. L[a] = x
    BY <2>5, <2>6
  <2> QED
    BY <2>7
<1>6. ASSUME NEW a \in 1 .. n, NEW b \in 1 .. n, a < b PROVE L[a] < L[b]
  <2>1. /\ L[a] \in ids /\ Rank(ids, L[a]) = a - 1
        /\ L[b] \in ids /\ Rank(ids, L[b]) = b - 1
    BY <1>2
  <2>2. L[a] # L[b]
    BY <1>1, <1>6, <2>1
  <2>3. ~(L[b] < L[a])
    <3>1. (L[b] < L[a]) => (b - 1 < a - 1)
      BY <2>1, Ranks
    <3> QED
      BY <1>1, <1>6, <3>1
  <2>4. L[a] \in Nat /\ L[b] \in Nat
    BY <2>1
  <2> QED
    BY <2>2, <2>3, <2>4
<1> QED
  BY <1>1, <1>2, <1>3, <1>4, <1>5, <1>6 DEF n, L
-----------------------------------------------------------------------------
(***************************************************************************)
(* Directories.                                                            *)
(***************************************************************************)
LEMMA AddFile ==
  ASSUME Directory(queue), NEW j \in Nat, NEW f \in File,
         queue' = WithFile(queue, j, f)
  PROVE  /\ Directory(queue')
         /\ DOMAIN queue' = DOMAIN queue \cup {j}
         /\ queue'[j] = f
         /\ \A k \in DOMAIN queue \ {j} : queue'[k] = queue[k]
<1>1. IsFiniteSet(DOMAIN queue \cup {j})
  BY FS_AddElement DEF Directory
<1> QED
  BY <1>1 DEF Directory, WithFile

LEMMA RemoveFile ==
  ASSUME NEW d, Directory(d), NEW j
  PROVE  /\ Directory(WithoutFile(d, j))
         /\ DOMAIN WithoutFile(d, j) = DOMAIN d \ {j}
         /\ \A k \in DOMAIN d \ {j} : WithoutFile(d, j)[k] = d[k]
<1>1. IsFiniteSet(DOMAIN d \ {j})
  BY FS_RemoveElement DEF Directory
<1> QED
  BY <1>1 DEF Directory, WithoutFile

LEMMA SetFull ==
  ASSUME NEW d, Directory(d), NEW j \in DOMAIN d, NEW b \in BOOLEAN
  PROVE  LET e == [d EXCEPT ![j].full = b]
         IN  /\ Directory(e) /\ DOMAIN e = DOMAIN d
             /\ e[j].full = b /\ e[j].case = d[j].case /\ e[j].ino = d[j].ino
             /\ \A k \in DOMAIN d \ {j} : e[k] = d[k]
<1> DEFINE e == [d EXCEPT ![j].full = b]
<1>1. d[j] \in File
  BY DEF Directory
<1>2. [d[j] EXCEPT !.full = b] \in File
  BY <1>1 DEF File
<1>3. DOMAIN e = DOMAIN d /\ e \in [DOMAIN d -> File]
      /\ e[j] = [d[j] EXCEPT !.full = b]
      /\ \A k \in DOMAIN d \ {j} : e[k] = d[k]
  BY <1>2 DEF Directory
<1>4. e[j].full = b /\ e[j].case = d[j].case /\ e[j].ino = d[j].ino
  BY <1>1, <1>3 DEF File
<1> QED
  BY <1>3, <1>4 DEF Directory

LEMMA Empty ==
  Directory(NoFiles) /\ DOMAIN NoFiles = {} /\ Cases(NoFiles) = {}
<1>1. DOMAIN NoFiles = {}
  BY DEF NoFiles
<1>2. NoFiles \in [{} -> File]
  BY DEF NoFiles
<1> QED
  BY <1>1, <1>2, FS_EmptySet DEF Directory, Cases

(* A new file has an inode of its own. *)
LEMMA Fresh ==
  ASSUME Types
  PROVE  FreshIno \in Nat /\ FreshIno \notin UsedInos
<1> DEFINE I(d) == {d[i].ino : i \in DOMAIN d}
           V == IF Mapped THEN {view.ino} ELSE {}
           n == Cardinality(UsedInos)
<1>1. ASSUME NEW d, Directory(d) PROVE IsFiniteSet(I(d))
  <2> DEFINE f == [i \in DOMAIN d |-> d[i].ino]
  <2>1. f \in Surjection(DOMAIN d, I(d))
    BY DEF Surjection
  <2>2. IsFiniteSet(DOMAIN d)
    BY <1>1 DEF Directory
  <2> HIDE DEF f, I
  <2> QED
    BY <2>1, <2>2, FS_Surjection
<1>2. IsFiniteSet(V)
  BY FS_EmptySet, FS_Singleton
<1>3. IsFiniteSet(I(queue)) /\ IsFiniteSet(I(resume))
  BY <1>1 DEF Types
<1>4. UsedInos = I(queue) \cup I(resume) \cup V
  BY DEF UsedInos
<1> HIDE DEF I, V
<1>5. IsFiniteSet(UsedInos)
  BY <1>2, <1>3, <1>4, FS_Union
<1>6. n \in Nat
  BY <1>5, FS_CardinalityType
<1>7. IsFiniteSet(0 .. n) /\ Cardinality(0 .. n) = n + 1
  <2>1. 0 \in Int /\ n \in Int
    BY <1>6
  <2>2. IsFiniteSet(0 .. n) /\ Cardinality(0 .. n) = IF 0 > n THEN 0 ELSE n - 0 + 1
    BY <2>1, FS_Interval
  <2> QED
    BY <1>6, <2>2
<1>8. ~(0 .. n \subseteq UsedInos)
  <2> SUFFICES ASSUME 0 .. n \in SUBSET UsedInos PROVE FALSE
    OBVIOUS
  <2>1. Cardinality(0 .. n) <= n
    BY <1>5, FS_Subset
  <2> QED
    BY <1>6, <1>7, <2>1
<1>9. \E k \in 0 .. n : k \notin UsedInos
  BY <1>8
<1>10. FreshIno \in 0 .. n /\ FreshIno \notin UsedInos
  BY <1>9 DEF FreshIno
<1> QED
  BY <1>6, <1>10

(* The fields of a well-typed state. *)
LEMMA Fields ==
  ASSUME Types
  PROVE  /\ exp.buf \in Seq(Nat) /\ exp.at \in Nat /\ Len(exp.buf) \in Nat
         /\ DOMAIN exp.buf = 1 .. Len(exp.buf)
         /\ \A k \in 1 .. Len(exp.buf) : exp.buf[k] \in Nat
         /\ \A j \in Ids : exp.buf[j + 1] \in Nat /\ j + 1 \in 1 .. Len(exp.buf)
         /\ imp.list \in Seq(Nat) /\ imp.next \in Nat /\ imp.case \in Nat
         /\ Ids \subseteq Nat
<1>1. exp.buf \in Seq(Nat) /\ exp.at \in Nat /\ imp.list \in Seq(Nat)
      /\ imp.next \in Nat /\ imp.case \in Nat
  BY DEF Types
<1>2. Len(exp.buf) \in Nat /\ DOMAIN exp.buf = 1 .. Len(exp.buf)
      /\ \A k \in 1 .. Len(exp.buf) : exp.buf[k] \in Nat
  BY <1>1
<1>3. \A j \in Ids : j + 1 \in 1 .. Len(exp.buf) /\ j \in Nat
  BY <1>2 DEF Ids
<1> QED
  BY <1>1, <1>2, <1>3
-----------------------------------------------------------------------------
(***************************************************************************)
(* The exporter keeps its types and its store.                             *)
(***************************************************************************)
LEMMA FindStore ==
  ASSUME IInv, Find PROVE Types' /\ Store'
<1> USE DEF impVars
<1>1. Types /\ Store
  BY DEF IInv
<1> DEFINE c == Cardinality(saved \cup risk)
           n == Len(exp.buf)
<1>2. c \in Nat
  BY <1>1, FS_Union, FS_CardinalityType DEF Types
<1>3. /\ exp.pc = "fuzz" /\ n \in Nat /\ n \notin Ids
      /\ queue' = WithFile(queue, n, NewFile(c))
      /\ exp' = [exp EXCEPT !.pc = "write", !.at = n]
      /\ UNCHANGED <<no_unlink, resume, kills, saved, risk, imp, synced>>
  BY <1>1, Fields DEF Find, Ids
<1> HIDE DEF c, n
<1>4. NewFile(c) \in File
  BY <1>1, <1>2, Fresh DEF File, NewFile
<1>5. /\ Directory(queue') /\ DOMAIN queue' = DOMAIN queue \cup {n}
      /\ \A k \in DOMAIN queue \ {n} : queue'[k] = queue[k]
  <2>1. Directory(queue)
    BY <1>1 DEF Types
  <2> QED
    BY <1>3, <1>4, <2>1, AddFile
<1>6. /\ exp'.pc = "write" /\ exp'.at = n /\ exp'.buf = exp.buf
      /\ exp' \in [pc : {"fuzz", "write", "reopen", "rewrite", "down", "clear",
                         "pivot", "nuke"},
                   buf : Seq(Nat), at : Nat]
  BY <1>1, <1>3 DEF Types
<1>7. Types'
  BY <1>1, <1>3, <1>5, <1>6 DEF Types
<1>8. DOMAIN queue = Ids /\ Holds(Ids) /\ Ids' = Ids
  BY <1>1, <1>3, <1>6 DEF Store, Ids
<1>9. Holds(Ids)'
  <2>1. ASSUME NEW j \in Ids
        PROVE  j \in DOMAIN queue' /\ queue'[j].full /\ queue'[j].case = exp'.buf[j + 1]
    <3>1. j \in DOMAIN queue /\ j # n /\ queue'[j] = queue[j] /\ j \in DOMAIN queue'
      BY <1>3, <1>5, <1>8
    <3> QED
      BY <1>6, <1>8, <3>1 DEF Holds
  <2> QED
    BY <1>8, <2>1 DEF Holds
<1>10. saved' \subseteq Range(exp'.buf) \cup risk' /\ DOMAIN resume' = {}
  BY <1>1, <1>3, <1>6 DEF Store, Running
<1> QED
  BY <1>5, <1>6, <1>7, <1>8, <1>9, <1>10 DEF Store, Running, n

(* ck_write of a find: it becomes the last entry of queue_buf. *)
LEMMA WriteStore ==
  ASSUME IInv, Write PROVE Types' /\ Store'
<1> USE DEF impVars
<1>1. Types /\ Store
  BY DEF IInv
<1> DEFINE c == queue[exp.at].case
           n == Len(exp.buf)
<1>2. exp.at \in DOMAIN queue /\ c \in Nat /\ n \in Nat
  <2>1. exp.at \in DOMAIN queue
    BY <1>1 DEF Store, Write
  <2> QED
    BY <1>1, <2>1, Fields DEF Types, Directory, File
<1>3. /\ exp.pc \in {"write", "rewrite"}
      /\ queue' = [queue EXCEPT ![exp.at].full = TRUE]
      /\ saved' = saved \cup {c}
      /\ exp' = [exp EXCEPT !.pc = "fuzz",
                            !.buf = IF exp.pc = "write" THEN Append(@, c) ELSE @]
      /\ UNCHANGED <<no_unlink, resume, kills, risk, imp, synced>>
  BY DEF Write
<1>4. /\ Directory(queue') /\ DOMAIN queue' = DOMAIN queue
      /\ queue'[exp.at].full /\ queue'[exp.at].case = c
      /\ \A k \in DOMAIN queue \ {exp.at} : queue'[k] = queue[k]
  BY <1>1, <1>2, <1>3, SetFull DEF Types
<1> HIDE DEF c, n
<1>5. /\ exp'.pc = "fuzz" /\ exp'.at = exp.at
      /\ exp'.buf = IF exp.pc = "write" THEN Append(exp.buf, c) ELSE exp.buf
  BY <1>1, <1>3 DEF Types
<1>6. exp'.buf \in Seq(Nat) /\ DOMAIN resume = {}
  BY <1>1, <1>2, <1>3, <1>5, Fields DEF Store, Running
<1>7. IsFiniteSet(saved') /\ saved' \subseteq Nat
  BY <1>1, <1>2, <1>3, FS_AddElement DEF Types
<1>8. Types'
  <2>1. exp' \in [pc : {"fuzz", "write", "reopen", "rewrite", "down", "clear",
                        "pivot", "nuke"},
                  buf : Seq(Nat), at : Nat]
    <3>1. \E b \in Seq(Nat) : exp' = [exp EXCEPT !.pc = "fuzz", !.buf = b]
      <4>1. exp' = [exp EXCEPT !.pc = "fuzz", !.buf = exp'.buf]
        BY <1>1, <1>3, <1>5 DEF Types
      <4> QED
        BY <1>6, <4>1
    <3> QED
      BY <1>1, <3>1 DEF Types
  <2> QED
    BY <1>1, <1>3, <1>4, <1>7, <2>1 DEF Types
<1>9. CASE exp.pc = "write"
  <2>1. /\ exp'.buf = Append(exp.buf, c) /\ Len(exp'.buf) = n + 1
        /\ exp'.buf[n + 1] = c
        /\ \A k \in 1 .. n : exp'.buf[k] = exp.buf[k]
    BY <1>1, <1>2, <1>5, <1>9, Fields DEF n
  <2>2. /\ exp.at = n /\ DOMAIN queue = Ids \cup {n} /\ Holds(Ids)
        /\ saved \subseteq Range(exp.buf) \cup risk
    BY <1>1, <1>9 DEF Store, Running, n
  <2>3. Ids' = Ids \cup {n} /\ n \notin Ids /\ \A j \in Ids : j + 1 \in 1 .. n
    BY <1>2, <2>1 DEF Ids, n
  <2>4. Holds(Ids)'
    <3>1. ASSUME NEW j \in Ids
          PROVE  j \in DOMAIN queue' /\ queue'[j].full /\ queue'[j].case = exp'.buf[j + 1]
      BY <1>4, <2>1, <2>2, <2>3 DEF Holds
    <3>2. n \in DOMAIN queue' /\ queue'[n].full /\ queue'[n].case = exp'.buf[n + 1]
      BY <1>2, <1>4, <2>1, <2>2
    <3> QED
      BY <2>3, <3>1, <3>2 DEF Holds
  <2>5. Range(exp.buf) \cup {c} \subseteq Range(exp'.buf)
    <3>1. DOMAIN exp.buf = 1 .. n /\ DOMAIN exp'.buf = 1 .. n + 1
      BY <1>1, <1>6, <2>1, Fields DEF n
    <3>2. n + 1 \in DOMAIN exp'.buf /\ \A k \in DOMAIN exp.buf : k \in DOMAIN exp'.buf
      BY <1>2, <3>1
    <3> QED
      BY <2>1, <3>1, <3>2 DEF Range
  <2> QED
    BY <1>3, <1>4, <1>5, <1>6, <1>8, <2>2, <2>3, <2>4, <2>5 DEF Store, Running
<1>10. CASE exp.pc = "rewrite"
  <2>1. /\ exp.at \in Ids /\ DOMAIN queue = Ids /\ Holds(Ids \ {exp.at})
        /\ c = exp.buf[exp.at + 1]
        /\ saved \subseteq Range(exp.buf) \cup risk
    BY <1>1, <1>10 DEF Store, Running, c
  <2>2. exp'.buf = exp.buf /\ Ids' = Ids
    BY <1>5, <1>10 DEF Ids
  <2>3. Holds(Ids)'
    BY <1>4, <2>1, <2>2 DEF Holds
  <2>4. c \in Range(exp.buf)
    BY <1>1, <2>1, Fields DEF Range
  <2> QED
    BY <1>3, <1>4, <1>5, <1>6, <1>8, <2>1, <2>2, <2>3, <2>4 DEF Store, Running
<1> QED
  BY <1>3, <1>9, <1>10

LEMMA TrimStore ==
  ASSUME IInv, NEW i \in Ids, Trim(i) PROVE Types' /\ Store'
<1> USE DEF impVars
<1>1. Types /\ Store /\ i \in Nat
  BY Fields DEF IInv
<1>2. /\ exp.pc = "fuzz" /\ DOMAIN queue = Ids /\ Holds(Ids)
      /\ DOMAIN resume = {} /\ saved \subseteq Range(exp.buf) \cup risk
      /\ UNCHANGED <<no_unlink, resume, kills, saved, risk, imp, synced>>
  BY <1>1 DEF Store, Running, Trim
<1>3. CASE InPlace
  <2>1. /\ queue' = [queue EXCEPT ![i].full = FALSE]
        /\ exp' = [exp EXCEPT !.pc = "rewrite", !.at = i]
    BY <1>3 DEF Trim
  <2>2. /\ Directory(queue') /\ DOMAIN queue' = Ids
        /\ queue'[i].case = queue[i].case
        /\ \A k \in Ids \ {i} : queue'[k] = queue[k]
    BY <1>1, <1>2, <2>1, SetFull DEF Types
  <2>3. exp'.pc = "rewrite" /\ exp'.at = i /\ exp'.buf = exp.buf
        /\ exp' \in [pc : {"fuzz", "write", "reopen", "rewrite", "down", "clear",
                           "pivot", "nuke"},
                     buf : Seq(Nat), at : Nat]
    BY <1>1, <2>1 DEF Types
  <2>4. Types'
    BY <1>1, <1>2, <2>2, <2>3 DEF Types
  <2>5. Ids' = Ids /\ Holds(Ids \ {exp.at})' /\ queue'[i].case = exp.buf[i + 1]
    BY <1>2, <2>2, <2>3 DEF Holds, Ids
  <2> QED
    BY <1>2, <2>2, <2>3, <2>4, <2>5 DEF Store, Running
<1>4. CASE ~InPlace
  <2>1. /\ queue' = WithoutFile(queue, i)
        /\ exp' = [exp EXCEPT !.pc = "reopen", !.at = i]
    BY <1>4 DEF Trim
  <2>2. /\ Directory(queue') /\ DOMAIN queue' = Ids \ {i}
        /\ \A k \in Ids \ {i} : queue'[k] = queue[k]
    <3>1. Directory(queue)
      BY <1>1 DEF Types
    <3> QED
      BY <1>2, <2>1, <3>1, RemoveFile
  <2>3. exp'.pc = "reopen" /\ exp'.at = i /\ exp'.buf = exp.buf
        /\ exp' \in [pc : {"fuzz", "write", "reopen", "rewrite", "down", "clear",
                           "pivot", "nuke"},
                     buf : Seq(Nat), at : Nat]
    BY <1>1, <2>1 DEF Types
  <2>4. Types'
    BY <1>1, <1>2, <2>2, <2>3 DEF Types
  <2>5. Ids' = Ids /\ Holds(Ids \ {exp.at})'
    BY <1>2, <2>2, <2>3 DEF Holds, Ids
  <2> QED
    BY <1>2, <2>2, <2>3, <2>4, <2>5 DEF Store, Running
<1> QED
  BY <1>3, <1>4

LEMMA ReopenStore ==
  ASSUME IInv, Reopen PROVE Types' /\ Store'
<1> USE DEF impVars
<1>1. Types /\ Store
  BY DEF IInv
<1> DEFINE f == NewFile(exp.buf[exp.at + 1])
<1>2. /\ exp.pc = "reopen" /\ exp.at \in Ids /\ DOMAIN queue = Ids \ {exp.at}
      /\ Holds(Ids \ {exp.at})
      /\ DOMAIN resume = {} /\ saved \subseteq Range(exp.buf) \cup risk
      /\ queue' = WithFile(queue, exp.at, f)
      /\ exp' = [exp EXCEPT !.pc = "rewrite"]
      /\ UNCHANGED <<no_unlink, resume, kills, saved, risk, imp, synced>>
  BY <1>1 DEF Store, Running, Reopen
<1>3. f \in File /\ f.case = exp.buf[exp.at + 1]
  BY <1>1, <1>2, Fields, Fresh DEF File, NewFile
<1> HIDE DEF f
<1>4. /\ Directory(queue') /\ DOMAIN queue' = Ids
      /\ queue'[exp.at] = f
      /\ \A k \in Ids \ {exp.at} : queue'[k] = queue[k]
  <2>1. exp.at \in Nat
    BY <1>1, Fields
  <2>2. Directory(queue) /\ (Ids \ {exp.at}) \cup {exp.at} = Ids
    BY <1>1, <1>2 DEF Types
  <2>3. /\ Directory(queue') /\ DOMAIN queue' = DOMAIN queue \cup {exp.at}
        /\ queue'[exp.at] = f
        /\ \A k \in DOMAIN queue \ {exp.at} : queue'[k] = queue[k]
    BY <1>2, <1>3, <2>1, <2>2, AddFile
  <2> QED
    BY <1>2, <2>2, <2>3
<1>5. exp'.pc = "rewrite" /\ exp'.at = exp.at /\ exp'.buf = exp.buf
      /\ exp' \in [pc : {"fuzz", "write", "reopen", "rewrite", "down", "clear",
                         "pivot", "nuke"},
                   buf : Seq(Nat), at : Nat]
  BY <1>1, <1>2 DEF Types
<1>6. Types'
  BY <1>1, <1>2, <1>4, <1>5 DEF Types
<1>7. Ids' = Ids /\ Holds(Ids \ {exp.at})'
  BY <1>2, <1>4, <1>5 DEF Holds, Ids
<1> QED
  BY <1>2, <1>3, <1>4, <1>5, <1>6, <1>7 DEF Store, Running
-----------------------------------------------------------------------------
(***************************************************************************)
(* Death and resume.                                                       *)
(***************************************************************************)
(* What is in queue_buf and not at risk is in queue/ in full. *)
LEMMA BufOnDisk ==
  ASSUME Types, NEW ids \in SUBSET Ids, Holds(ids)
  PROVE  \A j \in ids : exp.buf[j + 1] \in Cases(queue)
BY Fields DEF Holds, Cases

LEMMA RangeOfBuf ==
  ASSUME Types, NEW c \in Range(exp.buf)
  PROVE  \E j \in Ids : c = exp.buf[j + 1]
<1>1. PICK k \in 1 .. Len(exp.buf) : c = exp.buf[k]
  BY Fields DEF Range
<1>2. k - 1 \in Ids /\ (k - 1) + 1 = k
  BY Fields DEF Ids
<1> QED
  BY <1>1, <1>2

LEMMA KillStore ==
  ASSUME IInv, Kill PROVE Types' /\ Store'
<1> USE DEF impVars
<1>1. Types /\ Store
  BY DEF IInv
<1>2. /\ exp.pc # "down" /\ kills' = kills + 1 /\ risk' = risk \cup AtRisk
      /\ exp' = [pc |-> "down", buf |-> <<>>, at |-> 0]
      /\ UNCHANGED <<no_unlink, queue, resume, saved, imp, synced>>
  BY DEF Kill
<1>3. exp.pc \in {"fuzz", "write", "reopen", "rewrite", "clear", "pivot", "nuke"}
  BY <1>1, <1>2 DEF Types
<1>4. AtRisk \subseteq Nat /\ IsFiniteSet(AtRisk)
  <2>1. CASE exp.pc \in {"reopen", "rewrite"}
    <3>1. AtRisk = {exp.buf[exp.at + 1]} /\ exp.at \in Ids
      BY <1>1, <2>1 DEF AtRisk, Store
    <3> QED
      BY <1>1, <3>1, Fields, FS_Singleton
  <2>2. CASE exp.pc = "nuke" /\ DOMAIN resume # {}
    <3>1. AtRisk = saved \ Cases(resume)
      BY <2>2 DEF AtRisk
    <3>2. AtRisk \in SUBSET saved
      BY <3>1
    <3> QED
      BY <1>1, <3>2, FS_Subset DEF Types
  <2>3. CASE exp.pc \notin {"reopen", "rewrite"} /\ ~(exp.pc = "nuke" /\ DOMAIN resume # {})
    <3>1. AtRisk = {}
      BY <2>3 DEF AtRisk
    <3> QED
      BY <3>1, FS_EmptySet
  <2> QED
    BY <2>1, <2>2, <2>3
<1>5. IsFiniteSet(risk') /\ risk' \subseteq Nat
  BY <1>1, <1>2, <1>4, FS_Union DEF Types
<1>6. exp'.pc = "down"
      /\ exp' \in [pc : {"fuzz", "write", "reopen", "rewrite", "down", "clear",
                         "pivot", "nuke"},
                   buf : Seq(Nat), at : Nat]
  BY <1>2
<1>7. Types'
  BY <1>1, <1>2, <1>5, <1>6 DEF Types
<1>8. saved \subseteq risk \cup AtRisk \cup (IF DOMAIN resume = {} THEN Cases(queue)
                                                                  ELSE Cases(resume))
  <2>1. CASE Running
    <3> DEFINE hole == IF exp.pc \in {"reopen", "rewrite"} THEN {exp.at} ELSE {}
    <3>1. /\ Holds(Ids \ hole) /\ DOMAIN resume = {}
          /\ saved \subseteq Range(exp.buf) \cup risk
      BY <1>1, <2>1 DEF Store, Running
    <3>2. \A j \in hole : exp.buf[j + 1] \in AtRisk
      BY DEF AtRisk
    <3> HIDE DEF hole
    <3>3. ASSUME NEW c \in Range(exp.buf) PROVE c \in Cases(queue) \cup AtRisk
      <4>1. PICK j \in Ids : c = exp.buf[j + 1]
        BY <1>1, RangeOfBuf
      <4>2. CASE j \in hole
        BY <3>2, <4>1, <4>2
      <4>3. CASE j \notin hole
        <5>1. Ids \ hole \in SUBSET Ids
          OBVIOUS
        <5> QED
          BY <1>1, <3>1, <4>1, <4>3, <5>1, BufOnDisk
      <4> QED
        BY <4>2, <4>3
    <3> QED
      BY <3>1, <3>3
  <2>2. CASE exp.pc \in {"clear", "pivot"}
    <3>1. saved \subseteq Cases(resume) \cup risk
      BY <1>1, <2>2 DEF Store
    <3>2. DOMAIN resume = {} => Cases(resume) = {}
      BY DEF Cases
    <3> QED
      BY <3>1, <3>2
  <2>3. CASE exp.pc = "nuke" /\ DOMAIN resume # {}
    BY <2>3 DEF AtRisk
  <2>4. CASE exp.pc = "nuke" /\ DOMAIN resume = {}
    <3>1. Holds(Ids) /\ saved \subseteq Range(exp.buf) \cup risk
      BY <1>1, <2>4 DEF Store
    <3>2. ASSUME NEW c \in Range(exp.buf) PROVE c \in Cases(queue)
      <4>1. PICK j \in Ids : c = exp.buf[j + 1]
        BY <1>1, RangeOfBuf
      <4> QED
        BY <1>1, <3>1, <4>1, BufOnDisk
    <3> QED
      BY <2>4, <3>1, <3>2
  <2> QED
    BY <1>3, <2>1, <2>2, <2>3, <2>4 DEF Running
<1> QED
  BY <1>2, <1>6, <1>7, <1>8 DEF Store, Running

LEMMA ResumeStore ==
  ASSUME IInv, Resume PROVE Types' /\ Store'
<1> USE DEF impVars
<1>1. Types /\ Store
  BY DEF IInv
<1>2. /\ exp.pc = "down"
      /\ resume' = (IF DOMAIN resume = {} THEN queue ELSE resume)
      /\ queue' = (IF DOMAIN resume = {} THEN NoFiles ELSE queue)
      /\ exp' = [exp EXCEPT !.pc = "clear"]
      /\ UNCHANGED <<no_unlink, kills, saved, risk, imp, synced>>
  BY DEF Resume, RenameWorks
<1>3. Directory(queue') /\ Directory(resume')
  BY <1>1, <1>2, Empty DEF Types
<1>4. exp'.pc = "clear"
      /\ exp' \in [pc : {"fuzz", "write", "reopen", "rewrite", "down", "clear",
                         "pivot", "nuke"},
                   buf : Seq(Nat), at : Nat]
  BY <1>1, <1>2 DEF Types
<1>5. Types'
  BY <1>1, <1>2, <1>3, <1>4 DEF Types
<1>6. saved' \subseteq Cases(resume') \cup risk'
  BY <1>1, <1>2 DEF Store
<1>7. Cases(resume)' = Cases(resume')
  BY DEF Cases
<1> QED
  BY <1>4, <1>5, <1>6, <1>7 DEF Store, Running

LEMMA ClearStore ==
  ASSUME IInv, NEW i \in DOMAIN queue, ClearOld(i) PROVE Types' /\ Store'
<1> USE DEF impVars
<1>1. Types /\ Store
  BY DEF IInv
<1>2. /\ exp.pc = "clear" /\ queue' = WithoutFile(queue, i)
      /\ UNCHANGED <<no_unlink, resume, exp, kills, saved, risk, imp, synced>>
  BY DEF ClearOld
<1>3. Directory(queue')
  BY <1>1, <1>2, RemoveFile DEF Types
<1>4. Types'
  BY <1>1, <1>2, <1>3 DEF Types
<1> QED
  BY <1>1, <1>2, <1>4 DEF Store, Running, Cases

(* queue_buf gets every test case that _resume/ has in full. *)
LEMMA ReadStore ==
  ASSUME IInv, ReadTestcases PROVE Types' /\ Store'
<1> USE DEF impVars
<1>1. Types /\ Store
  BY DEF IInv
<1> DEFINE full == {j \in DOMAIN resume : resume[j].full}
           n == Cardinality(full)
           R == Reverse(Listing(full))
<1>2. /\ exp.pc = "clear" /\ DOMAIN queue = {} /\ full # {}
      /\ exp' = [pc |-> "pivot", at |-> 0, buf |-> [k \in 1 .. n |-> resume[R[k]].case]]
      /\ UNCHANGED <<no_unlink, queue, resume, kills, saved, risk, imp, synced>>
  BY DEF ReadTestcases
<1>3. full \in SUBSET Nat /\ IsFiniteSet(full)
  BY <1>1, FS_Subset DEF Types, Directory
<1>4. \A j \in full : resume[j].case \in Nat
  BY <1>1 DEF Types, Directory, File
<1>5. Cases(resume) = {resume[j].case : j \in full}
  BY DEF Cases
<1> HIDE DEF full
<1>6. n \in Nat /\ n > 0
  BY <1>2, <1>3, FS_CardinalityType, FS_EmptySet
<1>7. /\ \A k \in 1 .. n : R[k] \in full
      /\ \A j \in full : \E k \in 1 .. n : R[k] = j
  <2> DEFINE L == Listing(full)
  <2>1. /\ Len(L) = n /\ DOMAIN L = 1 .. n /\ \A a \in 1 .. n : L[a] \in full
        /\ \A j \in full : \E a \in 1 .. n : L[a] = j
    BY <1>3, ListingSorted
  <2>2. R = [k \in 1 .. n |-> L[(n - k) + 1]]
    BY <2>1 DEF Reverse
  <2> HIDE DEF n, L, R
  <2>3. \A k \in 1 .. n : /\ (n - k) + 1 \in 1 .. n
                          /\ (n - ((n - k) + 1)) + 1 = k
    BY <1>6
  <2>4. ASSUME NEW k \in 1 .. n PROVE R[k] \in full
    BY <2>1, <2>2, <2>3
  <2>5. ASSUME NEW j \in full PROVE \E k \in 1 .. n : R[k] = j
    <3>1. PICK a \in 1 .. n : L[a] = j
      BY <2>1
    <3>2. R[(n - a) + 1] = L[a]
      BY <2>2, <2>3
    <3> QED
      BY <2>3, <3>1, <3>2
  <2> QED
    BY <2>4, <2>5
<1> HIDE DEF n, R
<1>8. /\ exp'.pc = "pivot" /\ exp'.at = 0
      /\ exp'.buf = [k \in 1 .. n |-> resume[R[k]].case]
  BY <1>2
<1>9. exp'.buf \in Seq(Nat) /\ Len(exp'.buf) = n
  <2>1. exp'.buf \in [1 .. n -> Nat]
    BY <1>4, <1>7, <1>8
  <2> QED
    BY <1>6, <2>1
<1>10. Types'
  <2>1. exp' \in [pc : {"fuzz", "write", "reopen", "rewrite", "down", "clear",
                        "pivot", "nuke"},
                  buf : Seq(Nat), at : Nat]
    <3>1. \E b \in Seq(Nat) : exp' = [pc |-> "pivot", at |-> 0, buf |-> b]
      BY <1>2, <1>8, <1>9
    <3> QED
      BY <3>1
  <2> QED
    BY <1>1, <1>2, <2>1 DEF Types
<1>11. Cases(resume) \subseteq Range(exp'.buf)
  <2>1. ASSUME NEW j \in full PROVE resume[j].case \in Range(exp'.buf)
    <3>1. PICK k \in 1 .. n : R[k] = j
      BY <1>7
    <3> QED
      BY <1>8, <3>1 DEF Range
  <2> QED
    BY <1>5, <2>1
<1>12. saved \subseteq Cases(resume) \cup risk
  BY <1>1, <1>2 DEF Store
<1>13. 0 \in Ids' /\ 0 .. 0 - 1 = {}
  BY <1>6, <1>9 DEF Ids
<1>14. Cases(resume)' = Cases(resume) /\ DOMAIN queue' = 0 .. exp'.at - 1
       /\ Holds(0 .. exp.at - 1)'
  BY <1>2, <1>8, <1>13 DEF Cases, Holds
<1> QED
  BY <1>2, <1>8, <1>10, <1>11, <1>12, <1>13, <1>14 DEF Store, Running

LEMMA PivotStore ==
  ASSUME IInv, Pivot PROVE Types' /\ Store'
<1> USE DEF impVars
<1>1. Types /\ Store
  BY DEF IInv
<1> DEFINE a == exp.at
           n == Len(exp.buf)
<1>0. PICK i \in DOMAIN resume : /\ resume[i].full /\ resume[i].case = exp.buf[a + 1]
                                 /\ queue' = WithFile(queue, a, resume[i])
  BY DEF Pivot
<1> DEFINE f == resume[i]
<1>2. /\ exp.pc = "pivot" /\ a \in Ids /\ DOMAIN queue = 0 .. a - 1
      /\ Holds(0 .. a - 1) /\ a \in Nat /\ n \in Nat /\ a < n
      /\ queue' = WithFile(queue, a, f)
      /\ exp' = [exp EXCEPT !.at = a + 1, !.pc = IF a + 1 = n THEN "nuke" ELSE exp.pc]
      /\ saved \subseteq Range(exp.buf) \cup risk /\ saved \subseteq Cases(resume) \cup risk
      /\ UNCHANGED <<no_unlink, resume, kills, saved, risk, imp, synced>>
  BY <1>0, <1>1, Fields DEF Store, Running, Pivot, Ids
<1>3. f \in File /\ f.case = exp.buf[a + 1] /\ f.full
  BY <1>0, <1>1 DEF Types, Directory
<1> HIDE DEF f, a, n
<1>4. /\ Directory(queue') /\ DOMAIN queue' = DOMAIN queue \cup {a}
      /\ queue'[a] = f
      /\ \A k \in DOMAIN queue \ {a} : queue'[k] = queue[k]
  <2>1. Directory(queue)
    BY <1>1 DEF Types
  <2> QED
    BY <1>2, <1>3, <2>1, AddFile
<1>5. /\ exp'.pc = (IF a + 1 = n THEN "nuke" ELSE "pivot") /\ exp'.at = a + 1
      /\ exp'.buf = exp.buf
  BY <1>1, <1>2 DEF Types
<1>6. Types'
  <2>1. exp' \in [pc : {"fuzz", "write", "reopen", "rewrite", "down", "clear",
                        "pivot", "nuke"},
                  buf : Seq(Nat), at : Nat]
    <3>1. \E p \in {"nuke", "pivot"} : exp' = [exp EXCEPT !.at = a + 1, !.pc = p]
      BY <1>2
    <3>2. a + 1 \in Nat
      BY <1>2
    <3> QED
      BY <1>1, <3>1, <3>2 DEF Types
  <2> QED
    BY <1>1, <1>2, <1>4, <2>1 DEF Types
<1>7. 0 .. (a + 1) - 1 = (0 .. a - 1) \cup {a} /\ a \notin 0 .. a - 1
  BY <1>2
<1>8. DOMAIN queue' = 0 .. exp'.at - 1 /\ Holds(0 .. exp.at - 1)'
  <2>1. DOMAIN queue' = 0 .. exp'.at - 1
    BY <1>2, <1>4, <1>5, <1>7
  <2>2. \A j \in 0 .. a - 1 : /\ j \in DOMAIN queue' /\ queue'[j].full
                              /\ queue'[j].case = exp'.buf[j + 1]
    BY <1>2, <1>4, <1>5, <1>7 DEF Holds
  <2>3. a \in DOMAIN queue' /\ queue'[a].full /\ queue'[a].case = exp'.buf[a + 1]
    BY <1>3, <1>4, <1>5
  <2>4. \A j \in 0 .. exp'.at - 1 : j \in 0 .. a - 1 \/ j = a
    BY <1>5, <1>7
  <2> QED
    BY <2>1, <2>2, <2>3, <2>4 DEF Holds
<1>9. Ids' = Ids /\ Ids = 0 .. n - 1
  BY <1>5 DEF Ids, n
<1>10. CASE a + 1 = n
  <2>1. exp'.pc = "nuke" /\ Ids' = 0 .. exp'.at - 1
    BY <1>5, <1>9, <1>10
  <2>2. DOMAIN queue' = Ids' /\ Holds(Ids)'
    BY <1>8, <2>1 DEF Holds
  <2> QED
    BY <1>2, <1>5, <1>6, <2>1, <2>2 DEF Store, Running
<1>11. CASE a + 1 # n
  <2>1. exp'.pc = "pivot" /\ exp'.at \in Ids'
    BY <1>2, <1>5, <1>9, <1>11
  <2>2. Cases(resume)' = Cases(resume)
    BY <1>2 DEF Cases
  <2> QED
    BY <1>2, <1>5, <1>6, <1>8, <2>1, <2>2 DEF Store, Running
<1> QED
  BY <1>10, <1>11

LEMMA NukeStore ==
  ASSUME IInv, Resumed \/ \E i \in DOMAIN resume : Nuke(i) PROVE Types' /\ Store'
<1> USE DEF impVars
<1>1. Types /\ Store
  BY DEF IInv
<1>2. /\ exp.pc = "nuke" /\ exp'.buf = exp.buf /\ exp'.pc \in {"nuke", "fuzz"}
      /\ exp'.pc = "fuzz" => DOMAIN resume' = {}
      /\ exp' \in [pc : {"fuzz", "write", "reopen", "rewrite", "down", "clear",
                         "pivot", "nuke"},
                   buf : Seq(Nat), at : Nat]
      /\ UNCHANGED <<no_unlink, queue, kills, saved, risk, imp, synced>>
  BY <1>1 DEF Types, Resumed, Nuke
<1>3. Directory(resume')
  <2>1. Directory(resume)
    BY <1>1 DEF Types
  <2>2. resume' = resume \/ \E i \in DOMAIN resume : resume' = WithoutFile(resume, i)
    BY DEF Resumed, Nuke
  <2> QED
    BY <2>1, <2>2, RemoveFile
<1>4. Types'
  BY <1>1, <1>2, <1>3 DEF Types
<1>5. Ids' = Ids /\ DOMAIN queue = Ids /\ Holds(Ids)
      /\ saved \subseteq Range(exp.buf) \cup risk
  BY <1>1, <1>2 DEF Store, Ids
<1>6. Holds(Ids)'
  BY <1>2, <1>5 DEF Holds
<1> QED
  BY <1>2, <1>4, <1>5, <1>6 DEF Store, Running
-----------------------------------------------------------------------------
(***************************************************************************)
(* What the importer has counted.                                          *)
(***************************************************************************)
LEMMA KnownShape ==
  ASSUME Types, Store, Running
  PROVE  /\ Known \in Seq(Nat) /\ Len(Known) \in Nat
         /\ Len(exp.buf) <= Len(Known)
         /\ \A j \in 1 .. Len(exp.buf) : Known[j] = exp.buf[j]
         /\ \A j \in DOMAIN queue : j \in Nat /\ j < Len(Known) /\ queue[j].case = Known[j + 1]
         /\ \A j \in 1 .. Len(Known) : j > Len(exp.buf) => j - 1 \in DOMAIN queue
<1> DEFINE n == Len(exp.buf)
<1>1. n \in Nat /\ exp.buf \in Seq(Nat) /\ Ids = 0 .. n - 1
  BY Fields DEF Ids
<1>2. CASE exp.pc = "write"
  <2> DEFINE c == queue[exp.at].case
  <2>1. exp.at = n /\ DOMAIN queue = Ids \cup {n} /\ Holds(Ids)
    BY <1>2 DEF Store
  <2>2. c \in Nat /\ Known = Append(exp.buf, c)
    BY <1>2, <2>1 DEF Known, Types, Directory, File
  <2>3. c = queue[n].case
    BY <2>1
  <2> HIDE DEF c, n
  <2>4. /\ Known \in Seq(Nat) /\ Len(Known) = n + 1 /\ Known[n + 1] = c
        /\ \A j \in 1 .. n : Known[j] = exp.buf[j]
    BY <1>1, <2>2 DEF n
  <2>5. ASSUME NEW j \in Ids
        PROVE  j \in Nat /\ j < n + 1 /\ queue[j].case = Known[j + 1]
    <3>1. j \in Nat /\ j < n + 1 /\ j + 1 \in 1 .. n
      BY <1>1
    <3> QED
      BY <2>1, <2>4, <3>1 DEF Holds
  <2>6. \A j \in DOMAIN queue : j \in Nat /\ j < Len(Known) /\ queue[j].case = Known[j + 1]
    BY <1>1, <2>1, <2>3, <2>4, <2>5
  <2>7. \A j \in 1 .. Len(Known) : j > n => j - 1 \in DOMAIN queue
    BY <1>1, <2>1, <2>4
  <2> QED
    BY <1>1, <2>4, <2>6, <2>7 DEF n
<1>3. CASE exp.pc # "write"
  <2>1. Known = exp.buf
    BY <1>3 DEF Known
  <2>2. /\ DOMAIN queue \subseteq Ids
        /\ \A j \in DOMAIN queue : queue[j].case = exp.buf[j + 1]
    BY <1>3 DEF Store, Holds, Running
  <2>3. \A j \in Ids : j \in Nat /\ j < n
    BY <1>1
  <2> QED
    BY <1>1, <2>1, <2>2, <2>3
<1> QED
  BY <1>2, <1>3

(* Steps of the exporter leave the test cases their numbers. *)
LEMMA Grow ==
  ASSUME IInv, Types', Store', kills' = kills,
         kills = 0 => /\ Running'
                      /\ Len(Known') >= Len(Known)
                      /\ \A j \in 1 .. Len(Known) : Known'[j] = Known[j],
         UNCHANGED <<imp, listed, synced, ran, met, missed>>
  PROVE  Counting'
<1> SUFFICES ASSUME kills = 0 PROVE Counting'
  BY DEF Counting
<1>1. /\ Running /\ Running' /\ Len(Known') >= Len(Known) /\ Types /\ Counting
      /\ \A j \in 1 .. Len(Known) : Known'[j] = Known[j]
  BY DEF IInv, Counting
<1>2. Len(Known) \in Nat /\ Len(Known') \in Nat
  <2>1. Len(Known) \in Nat
    BY <1>1, KnownShape DEF IInv
  <2>2. Len(Known)' \in Nat
    <3>1. exp'.buf \in Seq(Nat)
      BY DEF Types
    <3>2. exp'.pc = "write" => queue'[exp'.at].case \in Nat
      BY DEF Types, Store, Directory, File
    <3>3. Known' \in Seq(Nat)
      BY <3>1, <3>2 DEF Known
    <3> QED
      BY <3>3
  <2> QED
    BY <2>1, <2>2
<1>3. \A j \in 1 .. Len(Known) : (Seen(j) => Seen(j)') /\ (Met(j) => Met(j)')
  BY <1>1 DEF Seen, Met
<1>4. imp.list \in Seq(Nat) /\ imp.next \in Nat /\ synced \in Nat
      /\ \A a \in DOMAIN imp.list : imp.list[a] \in Nat
  BY <1>1, Fields DEF Types
<1>5. synced' <= Len(Known') /\ \A j \in 1 .. synced' : Seen(j)'
  BY <1>1, <1>2, <1>3, <1>4 DEF Counting
<1>6. ASSUME imp.pc \in {"next", "mapped"} PROVE ListingOK' /\ imp'.next <= Len(Known')
  <2>1. ListingOK /\ imp.next <= Len(Known)
    BY <1>1, <1>6 DEF Counting
  <2>2. \A a \in DOMAIN imp.list : imp.list[a] < Len(Known) /\ imp.list[a] < Len(Known')
    BY <1>1, <1>2, <1>4, <2>1 DEF ListingOK
  <2>3. ASSUME NEW j \in 1 .. Len(Known'), j - 1 \notin Range(imp.list),
               NEW a \in DOMAIN imp.list, j - 1 < imp.list[a]
        PROVE  Met(j)'
    <3>1. j \in 1 .. Len(Known)
      BY <1>2, <1>4, <2>2, <2>3
    <3> QED
      BY <1>3, <2>1, <2>3, <3>1 DEF ListingOK
  <2>4. imp'.next <= Len(Known')
    BY <1>1, <1>2, <1>4, <2>1
  <2>5. ASSUME NEW a \in DOMAIN imp.list
        PROVE  listed[imp.list[a]] = Known'[imp.list[a] + 1]
    <3>1. imp.list[a] + 1 \in 1 .. Len(Known)
      BY <1>2, <1>4, <2>2
    <3> QED
      BY <1>1, <2>1, <3>1 DEF ListingOK
  <2> QED
    BY <2>1, <2>2, <2>3, <2>4, <2>5 DEF ListingOK
<1>7. ASSUME imp.pc = "next"
      PROVE  /\ \A a \in DOMAIN imp'.list : imp'.list[a] >= imp'.next
             /\ \A j \in 1 .. imp'.next : Met(j)'
  <2>1. \A j \in 1 .. imp.next : Met(j) /\ j \in 1 .. Len(Known)
    BY <1>1, <1>2, <1>4, <1>7 DEF Counting
  <2> QED
    BY <1>1, <1>3, <1>7, <2>1 DEF Counting
<1>8. ASSUME imp.pc = "mapped"
      PROVE  /\ imp'.next <= imp'.list[1] + 1
             /\ imp'.case = Known'[imp'.list[1] + 1]
             /\ \A j \in 1 .. imp'.next : Met(j)' \/ j = imp'.list[1] + 1
  <2>1. imp.list # <<>> /\ 1 \in DOMAIN imp.list
    BY <1>1, <1>4, <1>8 DEF Types
  <2>2. imp.list[1] < Len(Known) /\ imp.list[1] \in Nat
    BY <1>1, <1>4, <1>8, <2>1 DEF Counting, ListingOK
  <2>3. imp.list[1] + 1 \in 1 .. Len(Known)
    BY <1>2, <2>2
  <2>4. \A j \in 1 .. imp.next : j \in 1 .. Len(Known)
    BY <1>1, <1>2, <1>4, <1>8 DEF Counting
  <2> QED
    BY <1>1, <1>3, <1>8, <2>3, <2>4 DEF Counting
<1> QED
  BY <1>1, <1>5, <1>6, <1>7, <1>8 DEF Counting

LEMMA ExporterCounts ==
  ASSUME IInv, Exporter, Types', Store' PROVE Counting'
<1> USE DEF impVars
<1>1. Types /\ Store /\ Counting
  BY DEF IInv
<1>2. CASE Kill
  <2>1. kills' # 0
    BY <1>1, <1>2 DEF Kill, Types
  <2> QED
    BY <2>1 DEF Counting
<1>3. CASE ~Running
  <2>1. kills # 0 /\ kills \in Nat
    BY <1>1, <1>3 DEF Counting, Types
  <2>2. kills' = kills \/ kills' = kills + 1
    BY DEF Exporter, Find, Write, Reopen, Trim, Kill, Resume, ReadTestcases, Pivot,
       Resumed, ClearOld, Nuke
  <2>3. kills' # 0
    BY <2>1, <2>2
  <2> QED
    BY <2>3 DEF Counting
<1>4. CASE Find /\ Running
  <2>1. Running' /\ exp'.pc = "write" /\ exp'.buf = exp.buf /\ Known = exp.buf
    BY <1>1, <1>4 DEF Find, Types, Running, Known
  <2>2. queue'[exp'.at].case \in Nat
    BY <2>1 DEF Types, Store, Directory, File
  <2>3. Known' = Append(exp.buf, queue'[exp'.at].case)
    BY <2>1 DEF Known
  <2>4. Len(Known') = Len(Known) + 1 /\ \A j \in 1 .. Len(Known) : Known'[j] = Known[j]
    BY <1>1, <2>1, <2>2, <2>3, Fields
  <2>5. Len(Known') >= Len(Known)
    BY <1>1, <2>1, <2>4, Fields
  <2> QED
    BY <1>4, <2>1, <2>4, <2>5, Grow DEF Find
<1>5. CASE Running /\ (Write \/ Reopen \/ \E i \in Ids : Trim(i))
  <2>1. Running' /\ Known' = Known
    <3>1. CASE Write
      <4>1. /\ exp'.pc = "fuzz"
            /\ exp'.buf = IF exp.pc = "write" THEN Append(exp.buf, queue[exp.at].case)
                                              ELSE exp.buf
        BY <1>1, <3>1 DEF Write, Types
      <4> QED
        BY <3>1, <4>1 DEF Write, Known, Running
    <3>2. CASE Reopen
      <4>1. exp'.pc = "rewrite" /\ exp.pc = "reopen" /\ exp'.buf = exp.buf
        BY <1>1, <3>2 DEF Reopen, Types
      <4> QED
        BY <4>1 DEF Known, Running
    <3>3. CASE \E i \in Ids : Trim(i)
      <4>1. exp'.pc \in {"rewrite", "reopen"} /\ exp.pc = "fuzz" /\ exp'.buf = exp.buf
        BY <1>1, <3>3 DEF Trim, Types
      <4> QED
        BY <4>1 DEF Known, Running
    <3> QED
      BY <1>5, <3>1, <3>2, <3>3
  <2>2. Len(Known') >= Len(Known)
    BY <1>1, <1>5, <2>1, KnownShape
  <2> QED
    BY <1>5, <2>1, <2>2, Grow DEF Write, Reopen, Trim
<1> QED
  BY <1>2, <1>3, <1>4, <1>5 DEF Exporter, Ids, Running, Resume, ReadTestcases, Pivot,
     Resumed, ClearOld, Nuke

(* The head of a listing is dropped. *)
LEMMA DropHead ==
  ASSUME NEW L \in Seq(Nat), L # <<>>,
         \A a, b \in DOMAIN L : a < b => L[a] < L[b]
  PROVE  /\ 1 \in DOMAIN L /\ L[1] \in Nat /\ Head(L) = L[1] /\ Tail(L) \in Seq(Nat)
         /\ \A a \in DOMAIN Tail(L) : /\ a + 1 \in DOMAIN L /\ Tail(L)[a] = L[a + 1]
                                      /\ Tail(L)[a] > L[1] /\ Tail(L)[a] \in Nat
         /\ \A a, b \in DOMAIN Tail(L) : a < b => Tail(L)[a] < Tail(L)[b]
         /\ \A x : x \in Range(L) => x = L[1] \/ x \in Range(Tail(L))
         /\ \A a \in DOMAIN L : L[a] >= L[1]
<1> DEFINE n == Len(L)
           T == Tail(L)
<1>1. n \in Nat /\ n > 0 /\ DOMAIN L = 1 .. n /\ Head(L) = L[1]
      /\ \A a \in 1 .. n : L[a] \in Nat
  OBVIOUS
<1>2. T \in Seq(Nat) /\ DOMAIN T = 1 .. n - 1 /\ \A a \in 1 .. n - 1 : T[a] = L[a + 1]
  OBVIOUS
<1> HIDE DEF n, T
<1>3. \A a \in DOMAIN T : /\ a + 1 \in DOMAIN L /\ T[a] = L[a + 1]
                          /\ T[a] > L[1] /\ T[a] \in Nat
  <2> SUFFICES ASSUME NEW a \in DOMAIN T
               PROVE  /\ a + 1 \in DOMAIN L /\ T[a] = L[a + 1]
                      /\ T[a] > L[1] /\ T[a] \in Nat
    OBVIOUS
  <2>1. a \in Nat /\ a + 1 \in 1 .. n /\ 1 \in 1 .. n /\ 1 < a + 1
    BY <1>1, <1>2
  <2>2. L[1] < L[a + 1] /\ L[1] \in Nat /\ L[a + 1] \in Nat
    BY <1>1, <2>1
  <2> QED
    BY <1>1, <1>2, <2>1, <2>2
<1>4. ASSUME NEW a \in DOMAIN T, NEW b \in DOMAIN T, a < b PROVE T[a] < T[b]
  <2>1. a + 1 \in DOMAIN L /\ b + 1 \in DOMAIN L /\ a + 1 < b + 1
    BY <1>2, <1>3, <1>4
  <2> QED
    BY <1>2, <2>1
<1>5. ASSUME NEW x \in Range(L) PROVE x = L[1] \/ x \in Range(T)
  <2>1. PICK a \in 1 .. n : x = L[a]
    BY <1>1 DEF Range
  <2>2. a = 1 \/ (a - 1 \in 1 .. n - 1 /\ (a - 1) + 1 = a)
    BY <1>1
  <2> QED
    BY <1>2, <2>1, <2>2 DEF Range
<1>6. ASSUME NEW a \in DOMAIN L PROVE L[a] >= L[1]
  <2>1. a = 1 \/ 1 < a
    BY <1>1
  <2> QED
    BY <1>1, <2>1
<1> QED
  BY <1>1, <1>2, <1>3, <1>4, <1>5, <1>6 DEF T

LEMMA ListingDrops ==
  ASSUME Types, imp.list # <<>>, ListingOK, Known' = Known,
         imp'.list = Tail(imp.list), listed' = listed,
         ran \subseteq ran', met \subseteq met', missed' = missed,
         Known[imp.list[1] + 1] \in ran' \cup met',
         Len(Known) \in Nat
  PROVE  ListingOK' /\ \A a \in DOMAIN imp'.list : imp'.list[a] > imp.list[1]
<1> DEFINE L == imp.list
           T == Tail(L)
<1>1. L \in Seq(Nat) /\ \A a, b \in DOMAIN L : a < b => L[a] < L[b]
  BY Fields DEF ListingOK
<1>2. /\ L[1] \in Nat
      /\ \A a \in DOMAIN T : /\ a + 1 \in DOMAIN L /\ T[a] = L[a + 1]
                             /\ T[a] > L[1] /\ T[a] \in Nat
      /\ \A a, b \in DOMAIN T : a < b => T[a] < T[b]
      /\ \A x : x \in Range(L) => x = L[1] \/ x \in Range(T)
  BY <1>1, DropHead
<1>3. \A a \in DOMAIN T : T[a] < Len(Known)
  BY <1>2 DEF ListingOK
<1>4. ASSUME NEW j \in 1 .. Len(Known), j - 1 \notin Range(T),
             NEW a \in DOMAIN T, j - 1 < T[a]
      PROVE  Met(j)'
  <2>1. CASE j - 1 = L[1]
    <3>1. j = L[1] + 1
      BY <1>2, <2>1
    <3> QED
      BY <3>1 DEF Met, Seen
  <2>2. CASE j - 1 # L[1]
    <3>1. j - 1 \notin Range(L) /\ a + 1 \in DOMAIN L /\ j - 1 < L[a + 1]
      BY <1>2, <1>4, <2>2
    <3>2. Met(j)
      BY <3>1 DEF ListingOK
    <3> QED
      BY <3>2 DEF Met, Seen
  <2> QED
    BY <2>1, <2>2
<1>4a. \A a \in DOMAIN T : listed'[T[a]] = Known'[T[a] + 1]
  BY <1>2 DEF ListingOK
<1> HIDE DEF L, T
<1>5. imp'.list = T
  BY DEF L, T
<1>6. ListingOK'
  BY <1>2, <1>3, <1>4, <1>4a, <1>5 DEF ListingOK
<1> QED
  BY <1>2, <1>5, <1>6 DEF L

(* Steps of the importer leave the exporter alone. *)
LEMMA ImporterTypes ==
  ASSUME IInv, Importer \/ KillImporter
  PROVE  /\ Types' /\ Store' /\ Known' = Known /\ Running' = Running /\ kills' = kills
         /\ UNCHANGED expVars
<1>1. Types /\ Store
  BY DEF IInv
<1>2. UNCHANGED expVars
  BY DEF Importer, ListQueue, OpenFile, RunCase, RunFaults, EndImport, KillImporter
<1>3. UNCHANGED <<no_unlink, queue, resume, exp, kills, saved, trimmed, risk>>
  BY <1>2 DEF expVars
<1>4. Store' /\ Known' = Known /\ Running' = Running
  BY <1>1, <1>3 DEF Store, Known, Running, Ids, Holds, Cases
<1>5. /\ imp' \in [pc : {"idle", "next", "mapped", "dead"}, list : Seq(Nat),
                   next : Nat, case : Nat]
      /\ imp'.pc = "mapped" => imp'.list # <<>>
      /\ synced' \in Nat
  <2>1. CASE ListQueue
    <3> DEFINE new == {i \in DOMAIN queue : i >= synced}
    <3>1. /\ imp' = [pc |-> "next", list |-> Listing(new), next |-> synced, case |-> 0]
          /\ synced' = synced
      BY <2>1 DEF ListQueue
    <3>2. new \in SUBSET Nat /\ IsFiniteSet(new)
      BY <1>1, FS_Subset DEF Types, Directory
    <3>3. Listing(new) \in Seq(Nat)
      BY <3>2, ListingSorted
    <3> HIDE DEF new
    <3> QED
      BY <1>1, <3>1, <3>3 DEF Types
  <2>2. CASE OpenFile
    <3>1. /\ imp.list # <<>> /\ synced' = synced /\ imp.pc = "next"
          /\ Tail(imp.list) \in Seq(Nat) /\ imp.next + 1 \in Nat
      BY <1>1, <2>2, Fields DEF OpenFile
    <3>2. \/ imp' = [imp EXCEPT !.list = Tail(imp.list), !.next = imp.next + 1]
          \/ /\ Head(imp.list) \in DOMAIN queue
             /\ imp' = [imp EXCEPT !.pc = "mapped", !.next = imp.next + 1,
                                   !.case = queue[Head(imp.list)].case]
      BY <2>2 DEF OpenFile, StillThere
    <3>3. \A j \in DOMAIN queue : queue[j].case \in Nat
      BY <1>1 DEF Types, Directory, File
    <3> QED
      BY <1>1, <3>1, <3>2, <3>3 DEF Types
  <2>3. CASE RunCase
    <3>1. /\ imp.list # <<>> /\ synced' = synced
          /\ imp' = [imp EXCEPT !.pc = "next", !.list = Tail(imp.list)]
          /\ Tail(imp.list) \in Seq(Nat)
      BY <1>1, <2>3, Fields DEF RunCase, Mapped, Types
    <3> QED
      BY <1>1, <3>1 DEF Types
  <2>4. CASE RunFaults \/ EndImport \/ KillImporter
    <3>1. \E p \in {"idle", "dead"} :
            imp' = [pc |-> p, list |-> <<>>, next |-> 0, case |-> 0]
      BY <2>4 DEF RunFaults, EndImport, KillImporter, IdleImp
    <3>2. synced' = synced \/ synced' = imp.next
      BY <2>4 DEF RunFaults, EndImport, KillImporter, NextMinAccept
    <3> QED
      BY <1>1, <3>1, <3>2 DEF Types
  <2> QED
    BY <2>1, <2>2, <2>3, <2>4 DEF Importer
<1>6. Types'
  BY <1>1, <1>3, <1>5 DEF Types
<1> QED
  BY <1>2, <1>3, <1>4, <1>6

LEMMA ListQueueCounts ==
  ASSUME IInv, ListQueue PROVE Counting'
<1>1. Types /\ Store /\ Counting /\ Known' = Known /\ Running' = Running /\ kills' = kills
  BY ImporterTypes DEF IInv, Importer
<1> SUFFICES ASSUME kills = 0 PROVE Counting'
  BY <1>1 DEF Counting
<1> DEFINE new == {i \in DOMAIN queue : i >= synced}
           L == Listing(new)
<1>2. /\ imp'.pc = "next" /\ imp'.list = L /\ imp'.next = synced
      /\ synced' = synced /\ ran' = ran /\ missed' = missed
      /\ listed' = [i \in new |-> queue[i].case]
      /\ \A j \in 1 .. Len(exp.buf) :
           (/\ j > synced /\ j - 1 \notin new
            /\ \E i \in new : j <= i) => exp.buf[j] \in met'
  BY DEF ListQueue
<1>3. new \in SUBSET Nat /\ IsFiniteSet(new)
  BY <1>1, FS_Subset DEF Types, Directory
<1>4. /\ \A a \in DOMAIN L : L[a] \in new
      /\ \A x \in new : \E a \in DOMAIN L : L[a] = x
      /\ \A a, b \in DOMAIN L : a < b => L[a] < L[b]
  BY <1>3, ListingSorted
<1>5. /\ Running /\ synced \in Nat /\ synced <= Len(Known) /\ Len(Known) \in Nat
      /\ \A j \in 1 .. synced : Seen(j)
      /\ \A j \in DOMAIN queue : j < Len(Known) /\ queue[j].case = Known[j + 1]
      /\ \A j \in 1 .. Len(exp.buf) : Known[j] = exp.buf[j]
      /\ \A j \in 1 .. Len(Known) : j > Len(exp.buf) => j - 1 \in DOMAIN queue
      /\ Len(exp.buf) \in Nat
  BY <1>1, KnownShape, Fields DEF Counting, Types
<1>6. \A a \in DOMAIN L : L[a] < Len(Known) /\ L[a] >= synced
  BY <1>4, <1>5
<1>7. ASSUME NEW j \in 1 .. Len(Known), j - 1 \notin Range(L),
             NEW a \in DOMAIN L, j - 1 < L[a]
      PROVE  Met(j)'
  <2>1. j - 1 \notin new
    BY <1>4, <1>7 DEF Range
  <2>2. CASE j <= synced
    <3>1. Seen(j)
      BY <1>5, <2>2
    <3> QED
      BY <1>1, <1>2, <3>1 DEF Met, Seen
  <2>3. CASE j > synced
    <3>1. j - 1 \notin DOMAIN queue
      BY <1>5, <2>1, <2>3
    <3>2. j \in 1 .. Len(exp.buf)
      BY <1>5, <3>1
    <3>3. L[a] \in new /\ j <= L[a]
      <4>1. L[a] \in new /\ L[a] \in Nat
        BY <1>3, <1>4
      <4> HIDE DEF L, new
      <4> QED
        BY <1>5, <1>7, <4>1
    <3>4. exp.buf[j] \in met'
      BY <1>2, <2>1, <2>3, <3>2, <3>3
    <3> QED
      BY <1>1, <1>5, <3>2, <3>4 DEF Met
  <2> QED
    BY <1>5, <2>2, <2>3
<1>8. \A j \in 1 .. synced : Seen(j)'
  BY <1>1, <1>2, <1>5 DEF Seen
<1>9. \A a \in DOMAIN L : listed'[L[a]] = Known[L[a] + 1]
  BY <1>2, <1>4, <1>5
<1> HIDE DEF new, L
<1>10. ListingOK'
  BY <1>1, <1>2, <1>4, <1>6, <1>7, <1>9 DEF ListingOK
<1> QED
  BY <1>1, <1>2, <1>5, <1>6, <1>8, <1>10 DEF Counting, Met

LEMMA OpenFileCounts ==
  ASSUME IInv, OpenFile PROVE Counting'
<1>1. Types /\ Store /\ Counting /\ Known' = Known /\ Running' = Running /\ kills' = kills
  BY ImporterTypes DEF IInv, Importer
<1> SUFFICES ASSUME kills = 0 PROVE Counting'
  BY <1>1 DEF Counting
<1> DEFINE h == imp.list[1]
           m == imp.next + 1
<1>2. /\ imp.pc = "next" /\ imp.list # <<>> /\ synced' = synced /\ ran' = ran
      /\ listed' = listed /\ missed' = missed /\ met \subseteq met'
      /\ imp.list \in Seq(Nat) /\ imp.next \in Nat
  BY <1>1, Fields DEF OpenFile
<1>3. /\ Running /\ synced \in Nat /\ synced <= Len(Known) /\ Len(Known) \in Nat
      /\ \A j \in 1 .. synced : Seen(j)
      /\ ListingOK /\ imp.next <= Len(Known)
      /\ \A a \in DOMAIN imp.list : imp.list[a] >= imp.next
      /\ \A j \in 1 .. imp.next : Met(j)
  BY <1>1, <1>2, KnownShape DEF Counting, Types
<1>4. /\ 1 \in DOMAIN imp.list /\ h \in Nat /\ Head(imp.list) = h
      /\ \A a \in DOMAIN imp.list : imp.list[a] >= h
  BY <1>2, <1>3, DropHead DEF ListingOK
<1>5. h >= imp.next /\ h < Len(Known)
  BY <1>3, <1>4 DEF ListingOK
<1>6. m \in Nat /\ m <= h + 1 /\ m <= Len(Known) /\ m > imp.next
  BY <1>2, <1>3, <1>4, <1>5
<1>7. ASSUME NEW j \in 1 .. m PROVE Met(j) \/ j = h + 1
  <2>1. CASE j <= imp.next
    BY <1>2, <1>3, <2>1
  <2>2. CASE j = m /\ imp.next = h
    BY <2>2
  <2>3. CASE j = m /\ imp.next # h
    <3>1. j - 1 < h /\ j \in 1 .. Len(Known)
      BY <1>2, <1>3, <1>4, <1>5, <1>6, <2>3
    <3>2. j - 1 \notin Range(imp.list)
      <4>1. \A a \in DOMAIN imp.list : imp.list[a] # j - 1
        BY <1>2, <1>4, <3>1
      <4> QED
        BY <4>1 DEF Range
    <3> QED
      BY <1>3, <1>4, <3>1, <3>2 DEF ListingOK
  <2> QED
    BY <1>2, <1>6, <2>1, <2>2, <2>3
<1>8. \A j \in DOMAIN queue : queue[j].case = Known[j + 1]
  BY <1>1, <1>3, KnownShape
<1>9. \A j \in 1 .. Len(Known) : Met(j) => Met(j)'
  BY <1>1, <1>2 DEF Met, Seen
<1>10. \A j \in 1 .. synced : Seen(j)'
  BY <1>1, <1>2, <1>3 DEF Seen
<1>11. CASE /\ h \in DOMAIN queue
            /\ imp' = [imp EXCEPT !.pc = "mapped", !.next = m, !.case = queue[h].case]
  <2>1. /\ imp'.pc = "mapped" /\ imp'.next = m /\ imp'.list = imp.list
        /\ imp'.case = Known[h + 1]
    BY <1>1, <1>8, <1>11 DEF Types
  <2>2. ListingOK'
    BY <1>1, <1>2, <1>3, <1>9, <2>1 DEF ListingOK
  <2>3. \A j \in 1 .. m : Met(j)' \/ j = h + 1
    BY <1>3, <1>6, <1>7, <1>9
  <2> HIDE DEF h, m
  <2> QED
    BY <1>1, <1>2, <1>3, <1>6, <1>10, <2>1, <2>2, <2>3 DEF Counting, h
<1>12. CASE /\ imp' = [imp EXCEPT !.list = Tail(imp.list), !.next = m]
            /\ Known[h + 1] \in met'
  <2>1. imp'.pc = "next" /\ imp'.next = m /\ imp'.list = Tail(imp.list)
    BY <1>1, <1>2, <1>12 DEF Types
  <2>2. ListingOK' /\ \A a \in DOMAIN imp'.list : imp'.list[a] > h
    BY <1>1, <1>2, <1>3, <1>12, <2>1, ListingDrops
  <2>3. \A j \in 1 .. m : Met(j)'
    <3>1. \A j : j = h + 1 => Met(j)'
      BY <1>1, <1>12 DEF Met
    <3> QED
      BY <1>3, <1>6, <1>7, <1>9, <3>1
  <2>4. \A a \in DOMAIN imp'.list : imp'.list[a] >= m
    <3>1. \A a \in DOMAIN imp'.list : imp'.list[a] \in Nat
      <4>1. Tail(imp.list) \in Seq(Nat)
        BY <1>2
      <4> QED
        BY <2>1, <4>1
    <3> QED
      BY <1>4, <1>6, <2>2, <3>1
  <2> HIDE DEF h, m
  <2> QED
    BY <1>1, <1>2, <1>3, <1>6, <1>10, <2>1, <2>2, <2>3, <2>4 DEF Counting
<1> QED
  <2> DEFINE readable == StillThere(h) /\ queue[h].full
  <2>1. CASE readable
    <3>1. /\ h \in DOMAIN queue
          /\ imp' = [imp EXCEPT !.pc = "mapped", !.next = m, !.case = queue[h].case]
      BY <1>4, <2>1 DEF OpenFile, StillThere
    <3> QED
      BY <1>11, <3>1
  <2>2. CASE ~readable
    <3>1. listed[h] = Known[h + 1]
      BY <1>3, <1>4 DEF ListingOK
    <3>2. /\ imp' = [imp EXCEPT !.list = Tail(imp.list), !.next = m]
          /\ listed[h] \in met'
      BY <1>4, <2>2 DEF OpenFile
    <3> QED
      BY <1>12, <3>1, <3>2
  <2> QED
    BY <2>1, <2>2

LEMMA RunCaseCounts ==
  ASSUME IInv, RunCase PROVE Counting'
<1>1. Types /\ Store /\ Counting /\ Known' = Known /\ Running' = Running /\ kills' = kills
  BY ImporterTypes DEF IInv, Importer
<1> SUFFICES ASSUME kills = 0 PROVE Counting'
  BY <1>1 DEF Counting
<1> DEFINE h == imp.list[1]
<1>2. /\ imp.pc = "mapped" /\ imp.list # <<>> /\ synced' = synced
      /\ missed' = missed /\ listed' = listed
      /\ imp.list \in Seq(Nat) /\ imp.next \in Nat
      /\ ran \subseteq ran' /\ met \subseteq met' /\ imp.case \in ran' \cup met'
      /\ imp'.pc = "next" /\ imp'.list = Tail(imp.list) /\ imp'.next = imp.next
  BY <1>1, Fields DEF RunCase, Mapped, Types
<1>3. /\ Running /\ synced \in Nat /\ synced <= Len(Known) /\ Len(Known) \in Nat
      /\ \A j \in 1 .. synced : Seen(j)
      /\ ListingOK /\ imp.next <= Len(Known) /\ imp.next <= h + 1
      /\ imp.case = Known[h + 1]
      /\ \A j \in 1 .. imp.next : Met(j) \/ j = h + 1
  BY <1>1, <1>2, KnownShape DEF Counting, Types
<1>4. h \in Nat
  BY <1>2, <1>3, DropHead DEF ListingOK
<1>5. Known[h + 1] \in ran' \cup met'
  BY <1>2, <1>3
<1>6. ListingOK' /\ \A a \in DOMAIN imp'.list : imp'.list[a] > h
  BY <1>1, <1>2, <1>3, <1>5, ListingDrops
<1>7. \A j : (Seen(j) => Seen(j)') /\ (Met(j) => Met(j)')
  BY <1>1, <1>2 DEF Met, Seen
<1>8. \A j : j = h + 1 => Met(j)'
  BY <1>1, <1>5 DEF Met, Seen
<1>9. \A j \in 1 .. imp.next : Met(j)'
  BY <1>3, <1>7, <1>8
<1>10. \A a \in DOMAIN imp'.list : imp'.list[a] >= imp'.next
  <2>1. \A a \in DOMAIN imp'.list : imp'.list[a] \in Nat
    <3>1. Tail(imp.list) \in Seq(Nat)
      BY <1>2
    <3> QED
      BY <1>2, <3>1
  <2> TAKE a \in DOMAIN imp'.list
  <2>2. imp'.list[a] > h /\ imp'.list[a] \in Nat /\ imp.next <= h + 1
    BY <1>3, <1>6, <2>1
  <2> HIDE DEF h
  <2> QED
    BY <1>2, <1>4, <2>2
<1> HIDE DEF h
<1> QED
  BY <1>1, <1>2, <1>3, <1>6, <1>7, <1>9, <1>10 DEF Counting

LEMMA ImporterCounts ==
  ASSUME IInv, Importer \/ KillImporter PROVE Counting'
<1>1. Counting /\ Known' = Known /\ Running' = Running /\ kills' = kills
  BY ImporterTypes DEF IInv
<1>2. CASE EndImport
  <2>1. /\ imp.pc = "next" /\ imp'.pc = "idle" /\ synced' = imp.next
        /\ ran' = ran /\ missed' = missed \cup met
    BY <1>2 DEF EndImport, NextMinAccept, IdleImp
  <2>2. \A j : Met(j) => Seen(j)'
    BY <1>1, <2>1 DEF Met, Seen
  <2> QED
    BY <1>1, <2>1, <2>2 DEF Counting
<1>3. CASE RunFaults \/ KillImporter
  <2>1. /\ imp'.pc \in {"idle", "dead"} /\ synced' = synced
        /\ ran' = ran /\ missed' = missed
    BY <1>3 DEF RunFaults, KillImporter, IdleImp
  <2> QED
    BY <1>1, <2>1 DEF Counting, Seen
<1> QED
  BY <1>2, <1>3, ListQueueCounts, OpenFileCounts, RunCaseCounts DEF Importer
-----------------------------------------------------------------------------
(***************************************************************************)
(* Nothing changes under the mapping unless files are rewritten in place.  *)
(***************************************************************************)
(* A step that creates a file. *)
LEMMA CreateApart ==
  ASSUME Types, Untouched, ~no_unlink, NEW c \in Nat, NEW j \in Nat,
         queue' = WithFile(queue, j, NewFile(c)), exp'.at = j,
         UNCHANGED <<no_unlink, imp, view, torn>>
  PROVE  Untouched'
<1>1. /\ NewFile(c) \in File /\ ~NewFile(c).full /\ NewFile(c).ino = FreshIno
      /\ FreshIno \notin UsedInos
  BY Fresh DEF NewFile, File
<1>2. /\ DOMAIN queue' = DOMAIN queue \cup {j} /\ queue'[j] = NewFile(c)
      /\ \A k \in DOMAIN queue \ {j} : queue'[k] = queue[k]
  BY <1>1, AddFile DEF Types
<1>3. \A k \in DOMAIN queue : queue[k].ino # FreshIno
  BY <1>1 DEF UsedInos
<1>4. Mapped => view.ino # FreshIno
  BY <1>1 DEF UsedInos
<1>5. Apart'
  BY <1>1, <1>2, <1>3, <1>4 DEF Apart, Mapped
<1> QED
  BY <1>5 DEF Untouched, Mapped

LEMMA ExporterUntouched ==
  ASSUME IInv, Exporter PROVE Untouched'
<1> USE DEF impVars
<1>1. Types /\ Store /\ Untouched
  BY DEF IInv
<1>2. UNCHANGED <<no_unlink, imp, torn>>
  BY DEF Exporter, Find, Write, Reopen, Trim, Kill, Resume, ReadTestcases, Pivot,
     Resumed, ClearOld, Nuke
<1> SUFFICES ASSUME ~no_unlink PROVE Untouched'
  BY <1>2 DEF Untouched
<1>3. CASE Find
  <2> DEFINE c == Cardinality(saved \cup risk)
  <2>1. c \in Nat /\ Len(exp.buf) \in Nat
    BY <1>1, Fields, FS_Union, FS_CardinalityType DEF Types
  <2>2. /\ queue' = WithFile(queue, Len(exp.buf), NewFile(c))
        /\ exp'.at = Len(exp.buf) /\ view' = view
    BY <1>1, <1>3 DEF Find, Types
  <2> HIDE DEF c
  <2> QED
    BY <1>1, <1>2, <2>1, <2>2, CreateApart
<1>4. CASE Reopen
  <2> DEFINE c == exp.buf[exp.at + 1]
  <2>1. c \in Nat /\ exp.at \in Nat
    BY <1>1, <1>4, Fields DEF Reopen, Store
  <2>2. queue' = WithFile(queue, exp.at, NewFile(c)) /\ exp'.at = exp.at /\ view' = view
    BY <1>1, <1>4 DEF Reopen, Types
  <2> HIDE DEF c
  <2> QED
    BY <1>1, <1>2, <2>1, <2>2, CreateApart
<1>5. CASE Write
  <2>1. exp.pc \in {"write", "rewrite"} /\ exp'.pc = "fuzz"
    BY <1>1, <1>5 DEF Write, Types
  <2>2. Mapped => view.ino # queue[exp.at].ino
    BY <1>1, <2>1 DEF Untouched, Apart
  <2>3. view' = view
    BY <1>5, <2>2 DEF Write, ViewAfter
  <2> QED
    BY <1>1, <1>2, <2>1, <2>3 DEF Untouched, Apart, Mapped
<1>6. CASE \E i \in 0 .. Len(exp.buf) - 1 : Trim(i)
  <2>1. exp'.pc = "reopen" /\ view' = view
    BY <1>1, <1>6 DEF Trim, InPlace, Types
  <2> QED
    BY <1>1, <1>2, <2>1 DEF Untouched, Apart, Mapped
<1>7. CASE Kill \/ Resume \/ ReadTestcases \/ Pivot \/ Resumed
           \/ (\E i \in DOMAIN queue : ClearOld(i))
           \/ (\E i \in DOMAIN resume : Nuke(i))
  <2>1. view' = view
    BY <1>7 DEF Kill, Resume, ReadTestcases, Pivot, Resumed, ClearOld, Nuke
  <2>2. exp'.pc \notin {"write", "rewrite"}
    <3>1. CASE Kill \/ ReadTestcases
      BY <3>1 DEF Kill, ReadTestcases
    <3>2. CASE Resume \/ Resumed
      BY <1>1, <3>2 DEF Resume, Resumed, Types
    <3>3. CASE Pivot
      <4>1. \E p \in {"nuke", "pivot"} : exp' = [exp EXCEPT !.at = exp.at + 1, !.pc = p]
        BY <3>3 DEF Pivot
      <4> QED
        BY <1>1, <4>1 DEF Types
    <3>4. CASE (\E i \in DOMAIN queue : ClearOld(i)) \/ (\E i \in DOMAIN resume : Nuke(i))
      BY <3>4 DEF ClearOld, Nuke
    <3> QED
      BY <1>7, <3>1, <3>2, <3>3, <3>4
  <2> QED
    BY <1>1, <1>2, <2>1, <2>2 DEF Untouched, Apart, Mapped
<1> QED
  BY <1>3, <1>4, <1>5, <1>6, <1>7 DEF Exporter

LEMMA ImporterUntouched ==
  ASSUME IInv, Importer \/ KillImporter PROVE Untouched'
<1>1. Types /\ Store /\ Untouched
  BY DEF IInv
<1>2. UNCHANGED <<no_unlink, queue, exp>>
  BY ImporterTypes DEF expVars
<1> SUFFICES ASSUME ~no_unlink PROVE Untouched'
  BY <1>2 DEF Untouched
<1>3. Apart /\ ~torn /\ (Mapped => view.bytes = "whole")
  BY <1>1 DEF Untouched
<1>4. CASE OpenFile /\ Mapped'
  <2> DEFINE h == Head(imp.list)
  <2>1. /\ h \in DOMAIN queue /\ queue[h].full
        /\ view' = [ino |-> queue[h].ino, bytes |-> "whole"] /\ torn' = torn
    BY <1>1, <1>4 DEF OpenFile, StillThere, Mapped, Types
  <2> HIDE DEF h
  <2>2. exp.pc \in {"write", "rewrite"} => view'.ino # queue[exp.at].ino
    BY <1>3, <2>1 DEF Apart
  <2> QED
    BY <1>2, <1>3, <2>1, <2>2 DEF Untouched, Apart, Mapped
<1>5. CASE ~Mapped'
  <2>1. torn' = torn
    BY <1>3 DEF Importer, ListQueue, OpenFile, RunCase, RunFaults, EndImport,
       KillImporter
  <2> QED
    BY <1>2, <1>3, <1>5, <2>1 DEF Untouched, Apart
<1>6. OpenFile \/ ~Mapped'
  <2>1. CASE ListQueue
    BY <2>1 DEF ListQueue, Mapped
  <2>2. CASE RunCase
    BY <1>1, <2>2 DEF RunCase, Mapped, Types
  <2>3. CASE RunFaults \/ EndImport \/ KillImporter
    BY <2>3 DEF RunFaults, EndImport, KillImporter, IdleImp, Mapped
  <2> QED
    BY <2>1, <2>2, <2>3 DEF Importer
<1> QED
  BY <1>4, <1>5, <1>6
-----------------------------------------------------------------------------
(***************************************************************************)
(* The invariant holds.                                                    *)
(***************************************************************************)
LEMMA InitIInv == ASSUME Init PROVE IInv
<1>1. Types
  BY Empty, FS_EmptySet, SyncQueueAssumption DEF Init, Types, IdleImp
<1>2. /\ exp.pc = "fuzz" /\ exp.buf = <<>> /\ saved = {} /\ DOMAIN queue = {}
      /\ DOMAIN resume = {} /\ synced = 0 /\ imp.pc = "idle" /\ torn = FALSE
  BY Empty DEF Init, IdleImp
<1>3. Ids = {} /\ Len(Known) = 0
  BY <1>2 DEF Ids, Known
<1>4. Store
  BY <1>2, <1>3 DEF Store, Holds, Running
<1>5. Counting /\ Untouched
  BY <1>2, <1>3 DEF Counting, Running, Untouched, Apart, Mapped
<1> QED
  BY <1>1, <1>4, <1>5 DEF IInv

LEMMA NextIInv == ASSUME IInv, [Next]_vars PROVE IInv'
<1>1. Types' /\ Store'
  <2>1. CASE UNCHANGED vars
    BY <2>1 DEF vars, IInv, Types, Store, Ids, Holds, Running, Cases
  <2>2. CASE \E i \in 0 .. Len(exp.buf) - 1 : Trim(i)
    BY <2>2, TrimStore DEF Ids
  <2>3. CASE Exporter
    BY <2>2, <2>3, FindStore, WriteStore, ReopenStore, KillStore, ResumeStore,
       ReadStore, PivotStore, ClearStore, NukeStore DEF Exporter
  <2> QED
    BY <2>1, <2>3, ImporterTypes DEF Next
<1>2. Counting'
  <2>1. CASE UNCHANGED vars
    BY <2>1 DEF vars, IInv, Counting, Running, Known, Seen, Met, ListingOK
  <2> QED
    BY <1>1, <2>1, ExporterCounts, ImporterCounts DEF Next
<1>3. Untouched'
  <2>1. CASE UNCHANGED vars
    BY <2>1 DEF vars, IInv, Untouched, Apart, Mapped
  <2> QED
    BY <2>1, ExporterUntouched, ImporterUntouched DEF Next
<1> QED
  BY <1>1, <1>2, <1>3 DEF IInv

LEMMA Invariant == Spec => []IInv
BY InitIInv, NextIInv, PTL DEF Spec

(* A test case that has been written in full is on disk in full, in queue/ *)
(* or in _resume/, whenever the exporter is killed and however often: only *)
(* the file that trim_case was replacing and the files nuke_resume_dir had *)
(* deleted when the kill came can be lost.                                 *)
THEOREM SavedStaysOnDisk == Spec => []KeptOnDisk
<1>1. ASSUME IInv PROVE KeptOnDisk
  <2> DEFINE busy == IF exp.pc \in {"reopen", "rewrite"}
                     THEN {exp.buf[exp.at + 1]} ELSE {}
             kept == Cases(queue) \cup Cases(resume) \cup risk \cup busy
  <2>1. Types /\ Store
    BY <1>1 DEF IInv
  <2>2. CASE exp.pc \in {"down", "clear", "pivot"}
    BY <2>1, <2>2 DEF Store, KeptOnDisk
  <2>3. CASE Running \/ exp.pc = "nuke"
    <3> DEFINE hole == IF exp.pc \in {"reopen", "rewrite"} THEN {exp.at} ELSE {}
    <3>1. Holds(Ids \ hole) /\ saved \subseteq Range(exp.buf) \cup risk
      BY <2>1, <2>3 DEF Store, Running
    <3>2. \A j \in hole : exp.buf[j + 1] \in busy
      OBVIOUS
    <3> HIDE DEF hole, busy
    <3>3. ASSUME NEW c \in Range(exp.buf) PROVE c \in kept
      <4>1. PICK j \in Ids : c = exp.buf[j + 1]
        BY <2>1, RangeOfBuf
      <4>2. CASE j \in hole
        BY <3>2, <4>1, <4>2
      <4>3. CASE j \notin hole
        <5>1. Ids \ hole \in SUBSET Ids
          OBVIOUS
        <5> QED
          BY <2>1, <3>1, <4>1, <4>3, <5>1, BufOnDisk
      <4> QED
        BY <4>2, <4>3
    <3>4. saved \subseteq kept
      BY <3>1, <3>3
    <3> QED
      BY <3>4 DEF KeptOnDisk, busy
  <2> QED
    BY <2>1, <2>2, <2>3 DEF Types, Running
<1> QED
  BY Invariant, <1>1, PTL

(* Until the exporter is killed, sync_fuzzers counts no file that it did   *)
(* not run, find empty or find gone: not in spite of gaps that an unlink   *)
(* makes in the listing, nor after a kill of the importer.                 *)
THEOREM CountedWereSeen == Spec => []CountedWasSeen
<1>1. ASSUME IInv PROVE CountedWasSeen
  <2> SUFFICES ASSUME kills = 0, NEW j \in 1 .. Len(exp.buf), j <= synced
               PROVE  exp.buf[j] \in ran \cup missed
    BY DEF CountedWasSeen
  <2>1. Types /\ Store /\ Running /\ \A k \in 1 .. synced : Seen(k)
    BY <1>1 DEF IInv, Counting
  <2>2. Known[j] = exp.buf[j]
    BY <2>1, KnownShape
  <2>3. j \in 1 .. synced
    BY <2>1 DEF Types
  <2> QED
    BY <2>1, <2>2, <2>3 DEF Seen
<1> QED
  BY Invariant, <1>1, PTL

(* Without -N nothing that an exporter does, trims, finds, deaths and      *)
(* resumes included, changes a file under the mapping: trim_case unlinks,  *)
(* so that it and the finds write to inodes nobody has mapped.             *)
THEOREM MappedFilesStay == Spec => []TornOnlyInPlace
<1>1. IInv => TornOnlyInPlace
  BY DEF IInv, Untouched, TornOnlyInPlace
<1> QED
  BY Invariant, <1>1, PTL
==============================================================================
