-------------------------- MODULE DashboardProofs --------------------------
(***************************************************************************)
(* Proofs about the source map (Profile), the Explorer page (CoverageView) *)
(* and the Queue page (QueueView), for any number of builds, edits,        *)
(* blocks, files and requests.  Each theorem is about the specification of *)
(* one of the three modules; they share no variable.                       *)
(***************************************************************************)
EXTENDS Profile, CoverageView, QueueView, Integers, TLAPS

-----------------------------------------------------------------------------
(***************************************************************************)
(* QueueView                                                               *)
(***************************************************************************)
RequestType ==
  [pc : {"idle", "readdir", "reading", "answered"}, names : SUBSET QueueFiles,
   raw : [QueueFiles -> FileStates], got : [QueueFiles -> FileStates]]

(* What a request has read belongs to a file it has listed and does not    *)
(* have the item of yet.                                                   *)
RequestOk(q) ==
  \A f \in QueueFiles : q.raw[f] # "none" => f \in q.names /\ q.got[f] = "none"

(* File f was read in the place of request q: the callback is still to     *)
(* run, or it has run, and the requests that followed found f in cache c.  *)
ReaderOk(q, c, f) ==
  \/ q.pc = "reading" /\ q.raw[f] # "none"
  \/ /\ c[f] # "none"
     /\ q.pc = "reading" /\ f \in q.names => q.got[f] # "none"

QueueInv ==
  /\ QueueTypeOK
  /\ \A r \in Requests : RequestOk(req[r])
  /\ \A f \in QueueFiles : \A r \in readers[f] : ReaderOk(req[r], cache, f)

(* A step that replaces request r by one that is in order, and does not    *)
(* empty the cache, need only look at the files that r has read.           *)
LEMMA UpdateRequest ==
  ASSUME QueueInv, NEW r \in Requests, NEW q \in RequestType, RequestOk(q),
         req' = [req EXCEPT ![r] = q],
         UNCHANGED <<made, disk, job, up>>,
         cache' \in [QueueFiles -> FileStates],
         \A f \in QueueFiles : cache[f] # "none" => cache'[f] # "none",
         list' \in [QueueFiles -> FileStates],
         readers' \in [QueueFiles -> SUBSET Requests],
         \A f \in QueueFiles : readers'[f] \subseteq readers[f] \cup {r},
         \A f \in QueueFiles : r \in readers'[f] => ReaderOk(q, cache', f)
  PROVE  QueueInv'
<1>1. req \in [Requests -> RequestType]
  BY DEF QueueInv, QueueTypeOK, RequestType
<1>2. /\ req' \in [Requests -> RequestType] /\ req'[r] = q
      /\ \A s \in Requests : s # r => req'[s] = req[s]
      /\ \A s \in Requests : RequestOk(req'[s])
  BY <1>1 DEF QueueInv
<1>3. QueueTypeOK'
  BY <1>2 DEF QueueInv, QueueTypeOK, RequestType
<1>4. ASSUME NEW f \in QueueFiles, NEW s \in readers'[f] PROVE ReaderOk(req'[s], cache', f)
  <2>1. CASE s = r
    BY <1>2, <1>4, <2>1 DEF ReaderOk
  <2>2. CASE s # r
    <3>1. s \in readers[f] /\ s \in Requests
      BY <1>4, <2>2 DEF QueueInv, QueueTypeOK
    <3>2. ReaderOk(req[s], cache, f)
      BY <1>4, <3>1 DEF QueueInv
    <3>3. QED
      BY <1>2, <2>2, <3>1, <3>2 DEF ReaderOk
  <2>3. QED
    BY <2>1, <2>2
<1>5. QED
  BY <1>2, <1>3, <1>4 DEF QueueInv

(* afl-fuzz leaves requests and cache alone. *)
LEMMA AflKeepsRequests == ASSUME QueueInv, Afl PROVE QueueInv'
<1>1. UNCHANGED <<req, cache, list, readers, up>>
  BY DEF Afl, SetupDirs, Create, Unlink, Recreate, Write
<1>2. QueueTypeOK'
  <2> USE DEF QueueInv, QueueTypeOK, FileStates, NoJob
  <2>1. CASE SetupDirs
    BY <2>1 DEF SetupDirs
  <2>2. ASSUME NEW f \in QueueFiles, Create(f) PROVE QueueTypeOK'
    BY <2>2 DEF Create
  <2>3. ASSUME NEW f \in QueueFiles, Unlink(f) PROVE QueueTypeOK'
    BY <2>3 DEF Unlink
  <2>4. CASE Recreate
    BY <2>4 DEF Recreate
  <2>5. CASE Write
    BY <2>5 DEF Write
  <2>6. QED
    BY <2>1, <2>2, <2>3, <2>4, <2>5 DEF Afl
<1>3. QED
  BY <1>1, <1>2 DEF QueueInv, ReaderOk

(* The steps of a request between two awaits. *)
LEMMA HandleKeepsRequests ==
  ASSUME QueueInv, NEW r \in Requests, Handle(r) PROVE QueueInv'
<1>0. /\ req[r] \in RequestType /\ RequestOk(req[r])
      /\ cache \in [QueueFiles -> FileStates]
      /\ list \in [QueueFiles -> FileStates]
      /\ disk \in [QueueFiles -> FileStates]
      /\ readers \in [QueueFiles -> SUBSET Requests]
      /\ DOMAIN req = Requests
      /\ \A f \in QueueFiles : r \in readers[f] => ReaderOk(req[r], cache, f)
  BY DEF QueueInv, QueueTypeOK, RequestType
<1>1. CASE Get(r)
  <2> DEFINE q == [req[r] EXCEPT !.pc = "readdir"]
  <2>1. q \in RequestType /\ RequestOk(q)
    BY <1>0 DEF RequestType, RequestOk
  <2>2. req[r].pc = "idle" /\ req' = [req EXCEPT ![r] = q]
        /\ UNCHANGED <<made, disk, job, up, cache, list, readers>>
    BY <1>0, <1>1 DEF Get, aflVars
  <2>3. \A f \in QueueFiles : r \in readers'[f] => ReaderOk(q, cache', f)
    BY <1>0, <2>2 DEF ReaderOk, RequestType
  <2> HIDE DEF q
  <2>4. QED
    BY <1>0, <2>1, <2>2, <2>3, UpdateRequest
<1>2. CASE Readdir(r)
  <2> DEFINE q == [pc |-> "reading", names |-> Listed,
                   raw |-> NoneYet, got |-> FromCache(Listed)]
  <2>1. q \in RequestType
    BY <1>0 DEF RequestType, Listed, NoneYet, FromCache, FileStates
  <2>2. RequestOk(q)
    BY DEF RequestOk, NoneYet
  <2>3. req[r].pc = "readdir" /\ req' = [req EXCEPT ![r] = q]
        /\ UNCHANGED <<made, disk, job, up, cache, list, readers>>
    BY <1>0, <1>2 DEF Readdir, aflVars
  <2>4. \A f \in QueueFiles : r \in readers'[f] => ReaderOk(q, cache', f)
    BY <1>0, <2>3 DEF ReaderOk, FromCache
  <2> HIDE DEF q
  <2>5. QED
    BY <1>0, <2>1, <2>2, <2>3, <2>4, UpdateRequest
<1>3. CASE ReaddirFails(r) \/ \E f \in QueueFiles : ReadFileFails(r, f)
  <2>1. Die
    BY <1>3 DEF ReaddirFails, ReadFileFails
  <2>2. QueueTypeOK'
    BY <2>1 DEF QueueInv, QueueTypeOK, Die, aflVars
  <2>3. QED
    BY <2>1, <2>2 DEF QueueInv, Die
<1>4. CASE Answer(r)
  <2> DEFINE q == [req[r] EXCEPT !.pc = "answered"]
  <2>1. q \in RequestType /\ RequestOk(q) /\ q.pc = "answered"
    BY <1>0 DEF RequestType, RequestOk
  <2>2. req' = [req EXCEPT ![r] = q]
        /\ UNCHANGED <<made, disk, job, up, cache, list, readers>>
    BY <1>0, <1>4 DEF Answer, aflVars
  <2>3. \A f \in QueueFiles : req[r].raw[f] = "none"
    BY <1>0, <1>4 DEF RequestOk, Answer, Awaited
  <2>4. \A f \in QueueFiles : r \in readers'[f] => ReaderOk(q, cache', f)
    BY <1>0, <2>1, <2>2, <2>3 DEF ReaderOk
  <2> HIDE DEF q
  <2>5. QED
    BY <1>0, <2>1, <2>2, <2>4, UpdateRequest
<1>5. CASE SetQueue(r)
  <2>1. NoRequest \in RequestType /\ RequestOk(NoRequest) /\ NoRequest.pc = "idle"
    BY DEF NoRequest, NoneYet, FileStates, RequestType, RequestOk
  <2>2. /\ req' = [req EXCEPT ![r] = NoRequest] /\ req[r].pc = "answered"
        /\ list' \in [QueueFiles -> FileStates]
        /\ UNCHANGED <<made, disk, job, up, cache, readers>>
    BY <1>0, <1>5 DEF SetQueue, aflVars, RequestType
  <2>3. \A f \in QueueFiles : r \in readers'[f] => ReaderOk(NoRequest, cache', f)
    BY <1>0, <2>1, <2>2 DEF ReaderOk
  <2>4. QED
    BY <1>0, <2>1, <2>2, <2>3, UpdateRequest
<1>6. ASSUME NEW f \in QueueFiles, ReadFile(r, f) PROVE QueueInv'
  <2> DEFINE q == [req[r] EXCEPT !.raw[f] = disk[f]]
  <2>1. f \in req[r].names /\ req[r].got[f] = "none" /\ req[r].pc = "reading"
        /\ disk[f] # "none"
    BY <1>6 DEF ReadFile, ToRead
  <2>2. q.pc = "reading" /\ q.names = req[r].names /\ q.got = req[r].got
        /\ q.raw = [req[r].raw EXCEPT ![f] = disk[f]]
    BY <1>0, <2>1 DEF RequestType
  <2>3. q \in RequestType /\ RequestOk(q)
    BY <1>0, <2>1 DEF RequestType, RequestOk
  <2>4. req' = [req EXCEPT ![r] = q] /\ readers' = [readers EXCEPT ![f] = @ \cup {r}]
        /\ UNCHANGED <<made, disk, job, up, cache, list>>
    BY <1>0, <1>6 DEF ReadFile, aflVars
  <2> HIDE DEF q
  <2>5. /\ readers' \in [QueueFiles -> SUBSET Requests]
        /\ \A g \in QueueFiles : readers'[g] \subseteq readers[g] \cup {r}
        /\ \A g \in QueueFiles : g # f => readers'[g] = readers[g]
    BY <1>0, <2>4
  <2>6. ASSUME NEW g \in QueueFiles, r \in readers'[g] PROVE ReaderOk(q, cache', g)
    <3>1. q.raw[f] = disk[f] /\ (g # f => q.raw[g] = req[r].raw[g])
      BY <1>0, <2>2 DEF RequestType
    <3>2. QED
      BY <1>0, <2>1, <2>2, <2>4, <2>5, <2>6, <3>1 DEF ReaderOk
  <2>7. QED
    BY <1>0, <2>3, <2>4, <2>5, <2>6, UpdateRequest
<1>7. ASSUME NEW f \in QueueFiles, CacheItem(r, f) PROVE QueueInv'
  <2> DEFINE q == [req[r] EXCEPT !.got[f] = req[r].raw[f], !.raw[f] = "none"]
  <2>1. req[r].raw[f] # "none" /\ req[r].pc = "reading"
    BY <1>7 DEF CacheItem
  <2>2. q.pc = "reading" /\ q.names = req[r].names
        /\ q.got = [req[r].got EXCEPT ![f] = req[r].raw[f]]
        /\ q.raw = [req[r].raw EXCEPT ![f] = "none"]
    BY <1>0, <2>1 DEF RequestType
  <2>3. q \in RequestType
    BY <1>0 DEF FileStates, RequestType
  <2>4. req' = [req EXCEPT ![r] = q] /\ cache' = [cache EXCEPT ![f] = req[r].raw[f]]
        /\ UNCHANGED <<made, disk, job, up, list, readers>>
    BY <1>0, <1>7 DEF CacheItem, aflVars
  <2> HIDE DEF q
  <2>5. \A g \in QueueFiles : g # f => q.raw[g] = req[r].raw[g] /\ q.got[g] = req[r].got[g]
    BY <1>0, <2>2 DEF RequestType
  <2>6. q.raw[f] = "none" /\ q.got[f] = req[r].raw[f]
    BY <1>0, <2>2 DEF RequestType
  <2>7. RequestOk(q)
    BY <1>0, <2>2, <2>5, <2>6 DEF RequestOk
  <2>8. cache' \in [QueueFiles -> FileStates] /\ cache'[f] # "none"
        /\ \A g \in QueueFiles : g # f => cache'[g] = cache[g]
    BY <1>0, <2>1, <2>4 DEF RequestType
  <2>9. ASSUME NEW g \in QueueFiles, r \in readers'[g] PROVE ReaderOk(q, cache', g)
    <3>1. CASE g = f
      BY <2>1, <2>6, <2>8, <3>1 DEF ReaderOk
    <3>2. CASE g # f
      BY <1>0, <2>1, <2>2, <2>4, <2>5, <2>8, <2>9, <3>2 DEF ReaderOk
    <3>3. QED
      BY <3>1, <3>2
  <2>10. QED
    BY <1>0, <2>3, <2>4, <2>7, <2>8, <2>9, UpdateRequest
<1>8. QED
  BY <1>1, <1>2, <1>3, <1>4, <1>5, <1>6, <1>7 DEF Handle

LEMMA QueueInductive == QueueSpec => []QueueInv
<1>1. QueueInit => QueueInv
  <2> SUFFICES ASSUME QueueInit PROVE QueueInv
    OBVIOUS
  <2>1. NoRequest \in RequestType /\ RequestOk(NoRequest)
    BY DEF NoRequest, NoneYet, FileStates, RequestType, RequestOk
  <2>2. \A r \in Requests : req[r] = NoRequest
    BY DEF QueueInit
  <2>3. QueueTypeOK
    BY <2>1 DEF QueueInit, QueueTypeOK, NoneYet, FileStates,
       RequestType
  <2>4. QED
    BY <2>1, <2>2, <2>3 DEF QueueInit, QueueInv
<1>2. QueueInv /\ [QueueNext]_queueVars => QueueInv'
  <2> SUFFICES ASSUME QueueInv, [QueueNext]_queueVars PROVE QueueInv'
    OBVIOUS
  <2>1. CASE UNCHANGED queueVars
    BY <2>1 DEF queueVars, QueueInv, QueueTypeOK, ReaderOk
  <2>2. CASE QueueNext
    BY <2>1, <2>2, AflKeepsRequests, HandleKeepsRequests
       DEF QueueNext, Down
  <2>3. QED
    BY <2>1, <2>2
<1>3. QED
  BY <1>1, <1>2, PTL DEF QueueSpec

(* For any number of files and of requests that share the cache, and       *)
(* whatever afl-fuzz does to the files meanwhile: no file is read from     *)
(* disk twice in the place of one request, so CachedQueue reads it at most *)
(* as often as requests overlap, however long the page polls.              *)
THEOREM FilesReadOnceEach == QueueSpec => []ReadOnceEach
<1>1. QueueInv => ReadOnceEach
  <2> SUFFICES ASSUME QueueInv, NEW r \in Requests, req[r].pc = "reading",
                      NEW f \in ToRead(r), r \in readers[f]
               PROVE  FALSE
    BY DEF ReadOnceEach
  <2>1. f \in QueueFiles /\ ReaderOk(req[r], cache, f)
    BY DEF ToRead, QueueInv, QueueTypeOK
  <2>2. QED
    BY <2>1 DEF ToRead, ReaderOk
<1>2. QED
  BY <1>1, QueueInductive, PTL
-----------------------------------------------------------------------------
(***************************************************************************)
(* CoverageView                                                            *)
(***************************************************************************)
PollType ==
  [pc : {"idle", "sent", "reading", "notfound"}, length : Nat, got : Nat,
   hits : SUBSET Blocks]

(* Whatever has been complete on disk once is covered in memory and, as    *)
(* far as it has been written, in the file; and in an answer as far as it  *)
(* has been read.                                                          *)
FileKeepsUp ==
  /\ size \in Nat
  /\ written \subseteq seen /\ bits \subseteq seen
  /\ seen \subseteq Blocks
  /\ \A b \in written : b < size => b \in bits

AnswerKeepsUp(p) ==
  /\ known[p] \subseteq written
  /\ \A b \in known[p] : b < poll[p].got => b \in poll[p].hits
  /\ poll[p].pc \in {"idle", "sent"} => poll[p].got = 0

CoverageInv ==
  /\ FileKeepsUp
  /\ poll \in [Polls -> PollType]
  /\ known \in [Polls -> SUBSET Blocks]
  /\ \A p \in Polls : AnswerKeepsUp(p)

(* afl-fuzz truncates and rewrites the file with what it has in memory.    *)
LEMMA WritingKeepsUp ==
  ASSUME CoverageInv, Campaign \/ Stop
  PROVE  CoverageInv'
<1> USE CoverageViewAssumption DEF CoverageInv, FileKeepsUp, AnswerKeepsUp
<1>1. ASSUME NEW b \in Blocks, Cover(b) PROVE CoverageInv'
  BY <1>1 DEF Cover
<1>2. CASE OpenBits
  BY <1>2 DEF OpenBits, Blocks
<1>3. CASE WriteByte
  <2>1. seen \subseteq Int
    BY DEF Blocks
  <2>2. size' \in Nat /\ bits' \subseteq seen /\ \A b \in written : b < size' => b \in bits'
    BY <1>3, <2>1 DEF WriteByte
  <2>3. QED
    BY <1>3, <2>2 DEF WriteByte
<1>4. CASE CloseBits
  <2>1. written \subseteq bits
    BY <1>4 DEF CloseBits, Blocks
  <2>2. QED
    BY <1>4, <2>1 DEF CloseBits
<1>5. CASE Stop
  BY <1>5 DEF Stop
<1>6. QED
  BY <1>1, <1>2, <1>3, <1>4, <1>5 DEF Campaign

(* A fetch notes what is complete, and reads bytes that keep up with it.   *)
LEMMA FetchingKeepsUp ==
  ASSUME CoverageInv, NEW p \in Polls, Page(p)
  PROVE  CoverageInv'
<1> SUFFICES /\ UNCHANGED <<size, written, seen, bits>>
             /\ poll' \in [Polls -> PollType]
             /\ known' \in [Polls -> SUBSET Blocks]
             /\ \A q \in Polls \ {p} : poll'[q] = poll[q] /\ known'[q] = known[q]
             /\ AnswerKeepsUp(p)'
  BY DEF CoverageInv, FileKeepsUp, AnswerKeepsUp
<1> USE CoverageViewAssumption
    DEF CoverageInv, FileKeepsUp, AnswerKeepsUp, PollType, campaignVars
<1>1. CASE Fetch(p)
  <2>1. written \subseteq Blocks /\ Blocks \subseteq Nat
    BY DEF Blocks
  <2>2. poll'[p].got = 0 /\ known'[p] = written
    BY <1>1 DEF Fetch, MayPoll
  <2>3. AnswerKeepsUp(p)'
    BY <1>1, <2>1, <2>2 DEF Fetch
  <2>4. QED
    BY <1>1, <2>1, <2>3 DEF Fetch
<1>2. CASE Stat(p)
  BY <1>2 DEF Stat
<1>3. CASE ReadByte(p)
  <2>1. poll[p].got \in Nat /\ poll[p].hits \subseteq Blocks
        /\ bits \subseteq Blocks /\ known[p] \subseteq Int
    BY DEF Blocks
  <2> DEFINE k == poll[p].got
             a == [poll[p] EXCEPT !.got = k + 1, !.hits = @ \cup (bits \cap {k})]
  <2>a. poll[p] \in PollType /\ poll[p].pc = "reading"
    BY <1>3 DEF ReadByte
  <2>b. a.got = k + 1 /\ a.hits = poll[p].hits \cup (bits \cap {k}) /\ a.pc = "reading"
    BY <2>a
  <2>c. poll[p].hits \cup (bits \cap {k}) \in SUBSET Blocks /\ k + 1 \in Nat
    BY <2>1
  <2>2. a \in PollType
    BY <2>a, <2>c
  <2>3. poll' = [poll EXCEPT ![p] = a]
    BY <1>3 DEF ReadByte
  <2> HIDE DEF a
  <2>4. k < size /\ UNCHANGED <<size, written, seen, bits, known>>
    BY <1>3 DEF ReadByte
  <2>5. poll' \in [Polls -> PollType] /\ poll'[p] = a
        /\ \A q \in Polls \ {p} : poll'[q] = poll[q]
    BY <2>2, <2>3
  <2>6. ASSUME NEW b \in known[p], b < k + 1 PROVE b \in a.hits
    <3>1. AnswerKeepsUp(p) /\ b \in written /\ b \in Int
      BY <2>1
    <3>2. CASE b < k
      BY <2>b, <3>1, <3>2
    <3>3. CASE b = k
      BY <2>b, <2>4, <3>1, <3>3
    <3>4. QED
      BY <2>1, <2>6, <3>1, <3>2, <3>3
  <2>7. QED
    BY <2>b, <2>4, <2>5, <2>6
<1>4. CASE Broken(p)
  BY <1>4 DEF Broken, NoPoll, Blocks
<1>5. CASE Show(p)
  BY <1>5 DEF Show, NoPoll, Blocks
<1>6. QED
  BY <1>1, <1>2, <1>3, <1>4, <1>5 DEF Page

LEMMA CoverageInductive == CoverageSpec => []CoverageInv
<1>1. CoverageInit => CoverageInv
  BY CoverageViewAssumption
     DEF CoverageInit, CoverageInv, FileKeepsUp, AnswerKeepsUp, PollType,
     NoPoll
<1>2. CoverageInv /\ [CoverageNext]_coverageVars => CoverageInv'
  <2> SUFFICES ASSUME CoverageInv, [CoverageNext]_coverageVars PROVE CoverageInv'
    OBVIOUS
  <2>1. CASE UNCHANGED coverageVars
    BY <2>1 DEF coverageVars, CoverageInv, FileKeepsUp, AnswerKeepsUp
  <2>2. CASE CoverageNext
    BY <2>2, WritingKeepsUp, FetchingKeepsUp DEF CoverageNext
  <2>3. QED
    BY <2>1, <2>2
<1>3. QED
  BY <1>1, <1>2, PTL DEF CoverageSpec

(* For every size of the map and any number of fetches that overlap, an    *)
(* answer never shows as uncovered what a virgin_bits file that was        *)
(* complete before the fetch began had as covered, wherever the server's   *)
(* stat and reads fall between the truncation and the writes of            *)
(* write_virgin_bits.                                                      *)
THEOREM AnswersKeepUp == CoverageSpec => []NeverBehindTheFile
<1>1. CoverageInv => NeverBehindTheFile
  BY CoverageViewAssumption
     DEF CoverageInv, FileKeepsUp, AnswerKeepsUp, PollType,
     NeverBehindTheFile, Complete, Covered,
     Blocks
<1>2. QED
  BY <1>1, CoverageInductive, PTL
-----------------------------------------------------------------------------
(***************************************************************************)
(* Profile, for builds that do not overlap                                 *)
(***************************************************************************)
Active(b) == pc[b] \notin {"new", "done"}

OneAtATime == \A b, c \in Builds : Active(b) /\ Active(c) => b = c

(* Blocks and text c of the source map belong to the build whose pass ran  *)
(* last, or the text is still to be added by that build, now under way.    *)
Belongs(c, b) ==
  /\ last \in Builds
  /\ c.blocks = last
  /\ \/ c.files = compiled[last]
     \/ c.files = NoFiles /\ last = b /\ compiled[b] = sources

(* That build also wrote the program on disk, unless it failed. *)
LastLinked == last \in failed \/ binary = last

(* Its pass died while printing. *)
Torn == text = "cut" /\ last \in Builds /\ last \in failed

(* The source map between builds. *)
Settled ==
  \/ text = "missing" /\ last = NoBuild
  \/ Torn
  \/ /\ text = "whole" /\ last \in Builds /\ LastLinked
     /\ content = [blocks |-> last, files |-> compiled[last]]

(* The source map while build b is at work. *)
Underway(b) ==
  CASE pc[b] = "compiling" -> Settled /\ compiled[b] = sources
    [] pc[b] = "printing"  -> text = "cut" /\ last = b /\ compiled[b] = sources
    [] pc[b] = "linking"   -> /\ text = "whole" /\ last = b
                              /\ content = [blocks |-> b, files |-> NoFiles]
                              /\ compiled[b] = sources
    [] pc[b] = "rewrite"   -> \/ last = NoBuild /\ text = "missing"
                              \/ Torn
                              \/ text = "whole" /\ Belongs(content, b) /\ LastLinked
    [] pc[b] = "sources"   -> /\ text = "whole" /\ Belongs(profile[b], b) /\ LastLinked
    [] pc[b] = "open"      -> /\ text = "whole" /\ Belongs(profile[b], b) /\ LastLinked
                              /\ read[b] = sources
    [] pc[b] = "write"     -> /\ text = "cut" /\ Belongs(profile[b], b) /\ LastLinked
                              /\ read[b] = sources
    [] OTHER               -> TRUE

(* The pass that ran last belongs to a build that has started. *)
LastStarted == last # NoBuild => pc[last] \notin {"new", "compiling"}

ProfileInv ==
  /\ sources \in Versions
  /\ last \in Builds \cup {NoBuild}
  /\ pc \in [Builds -> {"new", "compiling", "printing", "linking", "rewrite",
                        "sources", "open", "write", "done"}]
  /\ compiled \in [Builds -> Versions]
  /\ DOMAIN profile = Builds /\ DOMAIN read = Builds
  /\ OneAtATime
  /\ Idle => Settled
  /\ \A b \in Builds : Active(b) => Underway(b)
  /\ LastStarted

LEMMA BuildKeeps ==
  ASSUME ~Parallel, ProfileInv, NEW b \in Builds, Build(b) PROVE ProfileInv'
<1> USE ProfileAssumption DEF ProfileInv, OneAtATime, LastStarted, Active, Go, Idle, history
<1>a. \A c \in Builds : c # b => pc'[c] = pc[c]
  BY DEF Build, Start, NoLink, PassOpen, PassPrint, Link, LinkFails, ReadProfile, ReadFails,
     ReadSources, WriteOpen, WriteProfile
<1>b. Active(b) => \A c \in Builds : c # b => ~Active(c)
  OBVIOUS
<1>1. CASE Start(b)
  BY <1>1 DEF Start, Underway, Settled, Torn, LastLinked
<1>2. CASE NoLink(b)
  BY <1>2 DEF NoLink, Underway, Settled, Torn, LastLinked, Belongs
<1>3. CASE PassOpen(b)
  BY <1>3 DEF PassOpen, Underway
<1>4. CASE PassPrint(b)
  BY <1>4 DEF PassPrint, Written, Underway
<1>5. CASE Link(b)
  BY <1>5 DEF Link, Underway, Belongs, LastLinked
<1>12. CASE LinkFails(b)
  BY <1>12 DEF LinkFails, Underway, Belongs, LastLinked, Torn
<1>6. CASE ReadProfile(b)
  BY <1>6 DEF ReadProfile, Underway, Belongs, LastLinked, Torn
<1>7. CASE ReadFails(b)
  BY <1>7 DEF ReadFails, Underway, Settled, Belongs, Torn
<1>8. CASE ReadSources(b)
  BY <1>8 DEF ReadSources, Underway, Belongs, LastLinked
<1>9. CASE WriteOpen(b)
  BY <1>9 DEF WriteOpen, Underway, Belongs, LastLinked
<1>10. CASE WriteProfile(b)
  <2>1. /\ text = "cut" /\ read[b] = sources /\ Belongs(profile[b], b) /\ LastLinked
        /\ pc' = [pc EXCEPT ![b] = "done"]
        /\ UNCHANGED <<sources, binary, compiled, profile, read, last, failed>>
    BY <1>10 DEF WriteProfile, Underway
  <2>2. text' = "whole" /\ content' = [blocks |-> profile[b].blocks, files |-> Files(b)]
    BY <1>10, <2>1 DEF WriteProfile, Written
  <2>3. compiled[last] \in Versions /\ NoFiles \notin Versions
    BY <2>1 DEF Belongs, Versions
  <2>4. profile[b].blocks = last /\ Files(b) = compiled[last] /\ last \in Builds
    BY <2>1, <2>3 DEF Files, Belongs
  <2>5. Settled'
    BY <2>1, <2>2, <2>4 DEF Settled, LastLinked
  <2>6. \A c \in Builds : ~Active(c)'
    BY <1>a, <1>b, <1>10, <2>1 DEF WriteProfile
  <2>7. QED
    BY <1>a, <2>1, <2>5, <2>6
<1>11. QED
  BY <1>1, <1>2, <1>3, <1>4, <1>5, <1>6, <1>7, <1>8, <1>9, <1>10, <1>12 DEF Build

LEMMA ProfileInductive == ASSUME ~Parallel PROVE Spec => []ProfileInv
<1>1. Init => ProfileInv
  BY ProfileAssumption
     DEF Init, ProfileInv, OneAtATime, Active, Settled, LastStarted, Versions
<1>2. ProfileInv /\ [Next]_vars => ProfileInv'
  <2> SUFFICES ASSUME ProfileInv, [Next]_vars PROVE ProfileInv'
    OBVIOUS
  <2>1. CASE UNCHANGED vars
    BY <2>1 DEF vars, ProfileInv, OneAtATime, Active, Idle, Settled, Underway,
       Belongs, LastLinked, Torn, LastStarted
  <2>2. CASE Edit
    BY <2>2, ProfileAssumption DEF Edit, ProfileInv, OneAtATime, Active, Idle,
       Settled, LastLinked, Torn, LastStarted, Versions, history
  <2>3. QED
    BY <2>1, <2>2, BuildKeeps DEF Next, Finished
<1>3. QED
  BY <1>1, <1>2, PTL DEF Spec

(* For any number of builds that do not overlap, and of edits between      *)
(* them, and wherever a build fails, before, in or after its pass: a       *)
(* source map that can be read holds the blocks of the last pass and the   *)
(* text its build compiled, and unless that build failed after its pass    *)
(* had begun, it can be read and is that of the program on disk, although  *)
(* rewriteProfile rewrites whatever it finds.                              *)
THEOREM SourceMapFollowsPass == ASSUME ~Parallel PROVE Spec => []SourceMapOfLastPass
<1>1. ProfileInv => SourceMapOfLastPass
  BY ProfileAssumption DEF ProfileInv, Settled, Torn, LastLinked, SourceMapOfLastPass
<1>2. QED
  BY <1>1, ProfileInductive, PTL
=============================================================================
