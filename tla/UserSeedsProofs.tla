--------------------------- MODULE UserSeedsProofs ---------------------------
(***************************************************************************)
(* Proofs about UserSeeds, for any seeds, sizes, number of posts and time. *)
(***************************************************************************)
EXTENDS UserSeeds, TLAPS

(***************************************************************************)
(* The inductive invariant.  Both properties are about posts of different  *)
(* contents, so its parts about files hold unless a content was posted     *)
(* twice.  The name of a file is its content, so one handler writes it.    *)
(***************************************************************************)
ReqType ==
  [seed : Seeds \cup {None}, off : Nat,
   pc : {"none", "mkdir", "open", "write", "list", "done"}]

Types ==
  /\ req \in [Requests -> ReqType]
  /\ data \in [Seeds -> SUBSET Nat]
  /\ files \subseteq Seeds
  /\ nl \subseteq files
  /\ cur \in files \cup {None}
  /\ afl \in {"fuzz", "scan", "dead"}

(* How far the handler of a request is. *)
HandlerOk(r) ==
  /\ req[r].pc = "none" <=> req[r].seed = None
  /\ req[r].pc \in {"none", "mkdir", "open"} => req[r].off = 0
  /\ req[r].seed # None => req[r].off <= SeedSize[req[r].seed]

(* A file holds what its handler has written, from the start on.           *)
FileOk(s) ==
  /\ (\A r \in Requests : req[r].seed # s) => data[s] = {}
  /\ \A r \in Requests : req[r].seed = s => data[s] = 1 .. req[r].off

(* The file the scan has looked at has not become shorter since.           *)
StatOk == cur # None => st.size \in Nat /\ st.size >= 1 /\ st.size <= Size(data[cur])

RanOk == \A x \in ran : \E s \in Seeds : \E n \in 1 .. SeedSize[s] : x = <<s, 1 .. n>>

IInv ==
  /\ Types
  /\ \A r \in Requests : HandlerOk(r)
  /\ ~Reposted => /\ \A s \in Seeds : FileOk(s)
                  /\ StatOk
                  /\ RanOk
                  /\ afl # "dead"

(* st_size of a file that has been written without a gap. *)
LEMMA SizeOfPrefix == ASSUME NEW n \in Nat PROVE Size(1 .. n) = n
<1>1. CASE n = 0
  BY <1>1 DEF Size
<1>2. CASE n # 0
  <2>1. n \in 1 .. n /\ \A y \in 1 .. n : n >= y
    BY <1>2
  <2>2. \A x \in 1 .. n : (\A y \in 1 .. n : x >= y) => x = n
    BY <2>1
  <2>3. Max(1 .. n) = n
    BY <2>1, <2>2 DEF Max
  <2>4. QED
    BY <1>2, <2>1, <2>3 DEF Size
<1>3. QED
  BY <1>1, <1>2

(* A file with a single writer is a prefix of its content. *)
LEMMA FileIsPrefix ==
  ASSUME Types, NEW s \in Seeds, FileOk(s), \A r \in Requests : HandlerOk(r)
  PROVE  \E n \in 0 .. SeedSize[s] : data[s] = 1 .. n
<1>1. SeedSize[s] \in Nat
  BY UserSeedsAssumption
<1>2. CASE \A r \in Requests : req[r].seed # s
  <2>1. data[s] = 1 .. 0
    BY <1>2 DEF FileOk
  <2>2. QED
    BY <1>1, <2>1
<1>3. ASSUME NEW r \in Requests, req[r].seed = s
      PROVE  \E n \in 0 .. SeedSize[s] : data[s] = 1 .. n
  <2>1. data[s] = 1 .. req[r].off /\ req[r].off <= SeedSize[s] /\ req[r].off \in Nat
    BY <1>3, UserSeedsAssumption DEF FileOk, HandlerOk, Types, ReqType
  <2>2. QED
    BY <1>1, <2>1
<1>4. QED
  BY <1>2, <1>3
-----------------------------------------------------------------------------
(* Steps that leave files and requests alone need only look at the scan.   *)
LEMMA QuietKeeps ==
  ASSUME IInv, UNCHANGED <<req, data, files>>, Types',
         ~Reposted => StatOk' /\ RanOk' /\ afl' # "dead"
  PROVE  IInv'
  BY DEF IInv, Reposted, HandlerOk, FileOk

(* A step of a handler that changes neither content nor offset.            *)
LEMMA PcKeeps ==
  ASSUME IInv, NEW r \in Requests, req[r].pc # "none",
         NEW to \in {"open", "write", "list", "done"},
         to = "open" => req[r].off = 0,
         req' = [req EXCEPT ![r].pc = to],
         UNCHANGED <<data, nl, cur, st, afl, ran>>,
         files' \in SUBSET Seeds, files \subseteq files'
  PROVE  IInv'
<1>0. /\ req \in [Requests -> ReqType] /\ req[r] \in ReqType
      /\ req'[r] = [req[r] EXCEPT !.pc = to]
      /\ \A q \in Requests : /\ q # r => req'[q] = req[q]
                             /\ req'[q].seed = req[q].seed
                             /\ req'[q].off = req[q].off
  BY DEF IInv, Types, ReqType
<1>1. Types'
  BY <1>0 DEF IInv, Types, ReqType
<1>2. Reposted' <=> Reposted
  BY <1>0 DEF Reposted
<1>3. \A q \in Requests : HandlerOk(q)'
  BY <1>0 DEF IInv, HandlerOk, ReqType
<1>4. QED
  BY <1>0, <1>1, <1>2, <1>3 DEF IInv, FileOk, StatOk, RanOk

LEMMA PostKeeps ==
  ASSUME IInv, NEW r \in Requests, NEW s \in Seeds, Post(r, s) PROVE IInv'
<1>0. /\ req \in [Requests -> ReqType]
      /\ req'[r] = [seed |-> s, pc |-> "mkdir", off |-> 0]
      /\ \A q \in Requests : q # r => req'[q] = req[q]
      /\ req[r].seed = None
      /\ s # None
      /\ UNCHANGED <<data, files, nl, cur, st, afl, ran>>
  BY UserSeedsAssumption DEF IInv, Types, HandlerOk, Post, scanVars
<1>1. Types'
  BY <1>0 DEF IInv, Types, Post, ReqType
<1>2. \A q \in Requests : HandlerOk(q)'
  BY <1>0, UserSeedsAssumption DEF IInv, HandlerOk
<1>3. ASSUME ~Reposted' PROVE ~Reposted /\ \A q \in Requests : req[q].seed # s
  BY <1>0, <1>3 DEF Reposted
<1>4. ASSUME ~Reposted', NEW t \in Seeds PROVE FileOk(t)'
  <2>1. FileOk(t) /\ \A q \in Requests : req[q].seed # s
    BY <1>3, <1>4 DEF IInv
  <2>2. CASE t = s
    <3>1. data[s] = 1 .. 0
      BY <2>1, <2>2 DEF FileOk
    <3>2. QED
      BY <1>0, <2>1, <2>2, <3>1 DEF FileOk
  <2>3. CASE t # s
    <3>1. \A q \in Requests : req'[q].seed = t <=> req[q].seed = t
      BY <1>0, <2>3, UserSeedsAssumption
    <3>2. \A q \in Requests : req[q].seed = t => req'[q] = req[q]
      BY <1>0, UserSeedsAssumption
    <3>3. QED
      BY <1>0, <2>1, <3>1, <3>2 DEF FileOk
  <2>4. QED
    BY <2>2, <2>3
<1>5. ASSUME ~Reposted' PROVE StatOk' /\ RanOk' /\ afl' # "dead"
  BY <1>0, <1>3, <1>5 DEF IInv, StatOk, RanOk
<1>6. QED
  BY <1>1, <1>2, <1>4, <1>5 DEF IInv

(* The truncation finds an empty file, unless its content was posted twice. *)
LEMMA OpenTruncateKeeps ==
  ASSUME IInv, NEW r \in Requests, OpenTruncate(r) PROVE IInv'
<1> DEFINE s == req[r].seed
<1>0. /\ req[r] \in ReqType /\ req[r].pc = "open" /\ HandlerOk(r)
      /\ data \in [Seeds -> SUBSET Nat]
      /\ req \in [Requests -> ReqType]
  BY DEF IInv, Types, OpenTruncate
<1>1. s \in Seeds /\ req[r].off = 0
  BY <1>0 DEF HandlerOk, ReqType
<1>2. /\ data' = [data EXCEPT ![s] = {}]
      /\ files' = files \cup {s}
      /\ req' = [req EXCEPT ![r].pc = "write"]
      /\ UNCHANGED <<nl, cur, st, afl, ran>>
  BY DEF OpenTruncate, FileName, scanVars
<1> HIDE DEF s
<1>3. CASE ~Reposted
  <2>1. FileOk(s) /\ 1 .. 0 = {}
    BY <1>1, <1>3 DEF IInv
  <2>2. data[s] = {}
    BY <1>1, <2>1 DEF FileOk, s
  <2>3. data' = data
    BY <1>0, <1>1, <1>2, <2>2
  <2>4. QED
    BY <1>0, <1>1, <1>2, <2>3, PcKeeps DEF IInv, Types
<1>4. CASE Reposted
  <2>1. /\ req' \in [Requests -> ReqType]
        /\ req'[r] = [req[r] EXCEPT !.pc = "write"]
        /\ \A q \in Requests : /\ q # r => req'[q] = req[q]
                               /\ req'[q].seed = req[q].seed
                               /\ req'[q].off = req[q].off
    BY <1>0, <1>2 DEF ReqType
  <2>2. Types'
    BY <1>0, <1>1, <1>2, <2>1 DEF IInv, Types
  <2>3. \A q \in Requests : HandlerOk(q)'
    BY <1>0, <2>1 DEF IInv, HandlerOk, ReqType
  <2>4. Reposted'
    BY <1>4, <2>1 DEF Reposted
  <2>5. QED
    BY <2>2, <2>3, <2>4 DEF IInv
<1>5. QED
  BY <1>3, <1>4

(* A chunk makes the prefix longer. *)
LEMMA WriteChunkKeeps ==
  ASSUME IInv, NEW r \in Requests, WriteChunk(r) PROVE IInv'
<1> DEFINE s == req[r].seed
           n == req[r].off
<1>0. /\ req[r] \in ReqType /\ req[r].pc = "write" /\ HandlerOk(r)
      /\ data \in [Seeds -> SUBSET Nat]
      /\ req \in [Requests -> ReqType]
  BY DEF IInv, Types, WriteChunk
<1>1. s \in Seeds /\ n \in Nat /\ n < SeedSize[s] /\ SeedSize[s] \in Nat
  BY <1>0, UserSeedsAssumption DEF HandlerOk, ReqType, WriteChunk
<1>2. /\ data' = [data EXCEPT ![s] = @ \cup {n + 1}]
      /\ req' = [req EXCEPT ![r].off = @ + 1]
      /\ UNCHANGED <<files, nl, cur, st, afl, ran>>
  BY DEF WriteChunk, FileName, scanVars
<1>3. /\ req' \in [Requests -> ReqType]
      /\ req'[r].off = n + 1 /\ req'[r].pc = "write"
      /\ \A q \in Requests : /\ q # r => req'[q] = req[q]
                             /\ req'[q].seed = req[q].seed
  BY <1>0, <1>1, <1>2 DEF ReqType
<1>4. Types'
  BY <1>0, <1>1, <1>2, <1>3 DEF IInv, Types
<1>5. \A q \in Requests : HandlerOk(q)'
  BY <1>0, <1>1, <1>3 DEF IInv, HandlerOk
<1>6. Reposted' <=> Reposted
  BY <1>3 DEF Reposted
<1>7. ASSUME ~Reposted PROVE (\A t \in Seeds : FileOk(t)') /\ StatOk'
  <2>1. FileOk(s) /\ data[s] = 1 .. n
    BY <1>1, <1>7 DEF IInv, FileOk
  <2>2. data'[s] = 1 .. n + 1
    <3>1. (1 .. n) \cup {n + 1} = 1 .. n + 1
      BY <1>1
    <3>2. QED
      BY <1>0, <1>1, <1>2, <2>1, <3>1
  <2>3. \A q \in Requests : req[q].seed = s => q = r
    BY <1>1, <1>7, UserSeedsAssumption DEF Reposted
  <2>4. ASSUME NEW t \in Seeds PROVE FileOk(t)'
    <3>1. CASE t = s
      BY <1>3, <2>2, <2>3, <3>1 DEF FileOk
    <3>2. CASE t # s
      <4>1. FileOk(t) /\ data'[t] = data[t]
        BY <1>0, <1>1, <1>2, <1>7, <3>2 DEF IInv
      <4>2. \A q \in Requests : req[q].seed = t => q # r
        BY <3>2
      <4>3. QED
        BY <1>3, <4>1, <4>2 DEF FileOk
    <3>3. QED
      BY <3>1, <3>2
  <2>5. Size(data[s]) = n /\ Size(data'[s]) = n + 1
    BY <1>1, <2>1, <2>2, SizeOfPrefix
  <2>6. StatOk'
    <3>1. CASE cur = s
      BY <1>1, <1>2, <1>7, <2>5, <3>1 DEF IInv, StatOk, Types
    <3>2. CASE cur # s
      BY <1>0, <1>1, <1>2, <1>7, <3>2 DEF IInv, StatOk, Types
    <3>3. QED
      BY <3>1, <3>2
  <2>7. QED
    BY <2>4, <2>6
<1>8. QED
  BY <1>2, <1>4, <1>5, <1>6, <1>7 DEF IInv, RanOk
-----------------------------------------------------------------------------
(* The scan: what it looks at is not empty, what it runs has not shrunk.   *)
LEMMA ScanKeeps == ASSUME IInv, Scan PROVE IInv'
<1>0. Types
  BY DEF IInv
<1> USE DEF serverVars
<1>1. CASE ScanMissing \/ UNCHANGED vars
  BY <1>1, <1>0, QuietKeeps DEF ScanMissing, vars, IInv, Types, StatOk, RanOk
<1>2. CASE ScanBegin
  BY <1>2, <1>0, QuietKeeps DEF ScanBegin, IInv, Types, StatOk, RanOk
<1>3. ASSUME NEW f \in Seeds, ScanSkip(f) PROVE IInv'
  BY <1>3, <1>0, QuietKeeps DEF ScanSkip, IInv, Types, StatOk, RanOk
<1>4. ASSUME NEW f \in Seeds, ScanStat(f) PROVE IInv'
  <2>1. ASSUME ~Reposted PROVE Size(data[f]) \in Nat /\ Size(data[f]) >= 1
    <3>1. PICK n \in 0 .. SeedSize[f] : data[f] = 1 .. n
      BY <1>0, <2>1, FileIsPrefix DEF IInv
    <3>2. n \in Nat /\ Size(data[f]) = n
      BY <3>1, SizeOfPrefix, UserSeedsAssumption
    <3>3. QED
      BY <1>4, <3>2 DEF ScanStat, Skipped
  <2>2. QED
    BY <2>1, <1>4, <1>0, QuietKeeps DEF ScanStat, IInv, Types, StatOk, RanOk
<1>5. CASE ScanRun
  <2>1. ASSUME ~Reposted PROVE RanOk'
    <3>1. cur \in Seeds /\ StatOk /\ FileOk(cur) /\ RanOk /\ st.size \in Nat
      BY <1>0, <1>5, <2>1 DEF IInv, Types, ScanRun, StatOk
    <3>2. PICK n \in 0 .. SeedSize[cur] : data[cur] = 1 .. n
      BY <1>0, <3>1, FileIsPrefix DEF IInv
    <3>3. n \in Nat /\ Size(data[cur]) = n /\ SeedSize[cur] \in Nat
      BY <3>1, <3>2, SizeOfPrefix, UserSeedsAssumption
    <3>4. st.size \in 1 .. SeedSize[cur] /\ (1 .. n) \cap (1 .. st.size) = 1 .. st.size
      BY <1>5, <3>1, <3>2, <3>3 DEF StatOk, ScanRun
    <3>5. ran' = ran \cup {<<cur, 1 .. st.size>>}
      BY <1>5, <3>2, <3>4 DEF ScanRun
    <3>6. QED
      BY <3>1, <3>4, <3>5 DEF RanOk
  <2>2. QED
    BY <2>1, <1>5, <1>0, QuietKeeps DEF ScanRun, IInv, Types, StatOk, NoStat
<1>6. CASE ScanFault
  <2>1. ASSUME ~Reposted PROVE FALSE
    <3>1. cur \in Seeds /\ StatOk /\ FileOk(cur) /\ st.size \in Nat
      BY <1>0, <1>6, <2>1 DEF IInv, Types, ScanFault, StatOk
    <3>2. PICK n \in 0 .. SeedSize[cur] : data[cur] = 1 .. n
      BY <1>0, <3>1, FileIsPrefix DEF IInv
    <3>3. n \in Nat /\ Size(data[cur]) = n
      BY <3>1, <3>2, SizeOfPrefix, UserSeedsAssumption
    <3>4. QED
      BY <1>6, <3>1, <3>3 DEF StatOk, ScanFault
  <2>2. QED
    BY <2>1, <1>6, <1>0, QuietKeeps DEF ScanFault, Types
<1>7. CASE ScanEnd
  BY <1>7, <1>0, QuietKeeps DEF ScanEnd, IInv, Types, StatOk, RanOk
<1>8. QED
  BY <1>1, <1>2, <1>3, <1>4, <1>5, <1>6, <1>7 DEF Scan

LEMMA Inductive == Spec => []IInv
<1>1. Init => IInv
  <2> SUFFICES ASSUME Init PROVE IInv
    OBVIOUS
  <2>1. Types
    BY DEF Init, Types, ReqType, NoStat
  <2>2. \A r \in Requests : HandlerOk(r) /\ req[r].seed = None
    BY DEF Init, HandlerOk
  <2>3. \A s \in Seeds : FileOk(s)
    BY <2>2, UserSeedsAssumption DEF Init, FileOk
  <2>4. QED
    BY <2>1, <2>2, <2>3 DEF Init, IInv, StatOk, RanOk
<1>2. IInv /\ [Next]_vars => IInv'
  <2> SUFFICES ASSUME IInv, [Next]_vars PROVE IInv'
    OBVIOUS
  <2>1. CASE UNCHANGED vars
    BY <2>1, QuietKeeps DEF vars, IInv, Types, StatOk, RanOk
  <2>2. CASE Tick
    BY <2>2, QuietKeeps DEF Tick, serverVars, scanVars, IInv, Types, StatOk, RanOk
  <2>3. ASSUME NEW r \in Requests, Server(r) PROVE IInv'
    <3>1. CASE Mkdir(r)
      BY <3>1, PcKeeps DEF Mkdir, scanVars, IInv, HandlerOk, Types
    <3>2. CASE CloseFile(r)
      BY <3>2, PcKeeps DEF CloseFile, scanVars, IInv, Types
    <3>3. CASE Answer(r)
      BY <3>3, PcKeeps DEF Answer, scanVars, IInv, Types
    <3>4. CASE Reject(r)
      BY <3>4, QuietKeeps DEF Reject, scanVars, IInv, Types, StatOk, RanOk
    <3>5. QED
      BY <2>3, <3>1, <3>2, <3>3, <3>4, OpenTruncateKeeps, WriteChunkKeeps DEF Server
  <2>4. CASE OtherRejects
    BY <2>4, QuietKeeps DEF OtherRejects, scanVars, IInv, Types, StatOk, RanOk
  <2>5. QED
    BY <2>1, <2>2, <2>3, <2>4, PostKeeps, ScanKeeps DEF Next, Dead
<1>3. QED
  BY <1>1, <1>2, PTL DEF Spec

(* read_foreign_testcases reads past the end of a seed it has mapped only  *)
(* if the same content was posted again: for any seeds and any number of   *)
(* posts, a file that only one addToUserQueue writes never gets shorter    *)
(* between the lstat and the run.                                          *)
THEOREM FaultsOnlyByRepost == Spec => []FaultOnlyByRepost
<1>1. IInv => FaultOnlyByRepost
  BY DEF IInv, FaultOnlyByRepost
<1>2. QED
  BY <1>1, Inductive, PTL

(* Unless a content was posted twice, whatever the target is run with in   *)
(* the name of a seed is that seed, or a non-empty prefix of it, although  *)
(* lstat and mmap fall anywhere between the writes.                        *)
THEOREM OnlyPrefixesRun == Spec => []RunsPrefixes
<1>1. IInv => RunsPrefixes
  BY DEF IInv, RanOk, RunsPrefixes, FileName
<1>2. QED
  BY <1>1, Inductive, PTL
=============================================================================
