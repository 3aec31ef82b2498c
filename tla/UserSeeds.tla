------------------------------ MODULE UserSeeds ------------------------------
(***************************************************************************)
(* How a seed that a user posts in the dashboard reaches the fuzzer.       *)
(*                                                                         *)
(* The server (cli/src/server/index.ts) writes the posted content to       *)
(* out/user/queue/<md5>; `aflv fuzz` starts afl-fuzz with -F on that       *)
(* directory, and sync_fuzzers() calls read_foreign_testcases()            *)
(* (AFLplusplus/src/afl-fuzz-init.c) to run what is new there.  The two    *)
(* processes share nothing but the directory, so every system call of one  *)
(* may fall between two of the other.                                      *)
(*                                                                         *)
(* A file is the set of its chunks that have been written (a chunk stands  *)
(* for a page: write() makes a file grow page by page); a chunk missing    *)
(* before the last one is a hole.  Times are whole seconds, as in          *)
(* st_mtime.                                                               *)
(***************************************************************************)
EXTENDS Naturals, FiniteSets, FiniteSetsExt

CONSTANTS
  Seeds,      \* contents the user may post
  Requests,   \* POST /api/queue requests
  SeedSize,   \* number of chunks of each content
  MaxFile,    \* MAX_FILE, in chunks
  MaxTime,    \* bound on the clock
  None        \* no file

ASSUME UserSeedsAssumption ==
  /\ SeedSize \in [Seeds -> Nat]
  /\ MaxFile \in Nat
  /\ MaxTime \in Nat \ {0}
  /\ None \notin Seeds

VARIABLES
  clock,      \* time in seconds
  req,        \* per request: the content posted and how far its handler is
  dir,        \* TRUE once out/user/queue exists
  files,      \* names present in out/user/queue
  data,       \* chunks of each file that have been written
  mtime,      \* st_mtime of each file
  up,         \* the server process lives
  seen,       \* afl->foreign_syncs[0].mtime
  nl,         \* names read_foreign_testcases() has not looked at yet
  mtime_max,  \* its local of that name
  cur,        \* file it is about to map, or None
  st,         \* what lstat() said of cur
  afl,        \* where afl-fuzz is: fuzzing, scanning, dead
  ran         \* history: <<name, chunks>> run by the target so far

serverVars == <<req, dir, files, data, mtime, up>>
scanVars == <<seen, nl, mtime_max, cur, st, afl>>
vars == <<clock, req, dir, files, data, mtime, up, seen, nl, mtime_max, cur,
          st, afl, ran>>

(* The file name is the digest of the content: one name per content. *)
NameClashes(s) == CHOOSE t \in Seeds : TRUE

FileName(s) == s

(* st_size: a file ends with its last written chunk. *)
Size(chunks) == IF chunks = {} THEN 0 ELSE Max(chunks)

NoStat == [mtime |-> 0, size |-> 0]

Init ==
  /\ clock = 1
  /\ req = [r \in Requests |-> [seed |-> None, pc |-> "none", off |-> 0]]
  /\ dir = FALSE
  /\ files = {}
  /\ data = [f \in Seeds |-> {}]
  /\ mtime = [f \in Seeds |-> 0]
  /\ up = TRUE
  /\ seen = 0
  /\ nl = {}
  /\ mtime_max = 0
  /\ cur = None
  /\ st = NoStat
  /\ afl = "fuzz"
  /\ ran = {}

Tick ==
  /\ clock < MaxTime
  /\ clock' = clock + 1
  /\ UNCHANGED <<serverVars, scanVars, ran>>
-----------------------------------------------------------------------------
(***************************************************************************)
(* The server: POST /api/queue and addToUserQueue().  Handlers of several  *)
(* requests are interleaved at every await.                                *)
(***************************************************************************)
Post(r, s) ==
  /\ up /\ req[r].pc = "none"
  /\ req' = [req EXCEPT ![r] = [seed |-> s, pc |-> "mkdir", off |-> 0]]
  /\ UNCHANGED <<clock, dir, files, data, mtime, up, scanVars, ran>>

(* await fs.mkdir(userQueueDir, { recursive: true }) *)
Mkdir(r) ==
  /\ up /\ req[r].pc = "mkdir"
  /\ dir' = TRUE
  /\ req' = [req EXCEPT ![r].pc = "open"]
  /\ UNCHANGED <<clock, files, data, mtime, up, scanVars, ran>>

(* fs.writeFile() opens with O_WRONLY | O_CREAT | O_TRUNC ... *)
OpenTruncate(r) ==
  LET f == FileName(req[r].seed) IN
  /\ up /\ req[r].pc = "open"
  /\ files' = files \cup {f}
  /\ data' = [data EXCEPT ![f] = {}]
  /\ mtime' = [mtime EXCEPT ![f] = clock]
  /\ req' = [req EXCEPT ![r].pc = "write"]
  /\ UNCHANGED <<clock, dir, up, scanVars, ran>>

(* ... then writes at the offset of its own descriptor ... *)
WriteChunk(r) ==
  LET f == FileName(req[r].seed) IN
  /\ up /\ req[r].pc = "write"
  /\ req[r].off < SeedSize[req[r].seed]
  /\ data' = [data EXCEPT ![f] = @ \cup {req[r].off + 1}]
  /\ mtime' = [mtime EXCEPT ![f] = clock]
  /\ req' = [req EXCEPT ![r].off = @ + 1]
  /\ UNCHANGED <<clock, dir, files, up, scanVars, ran>>

(* ... until everything is written; the handler then lists the queue. *)
CloseFile(r) ==
  /\ up /\ req[r].pc = "write"
  /\ req[r].off = SeedSize[req[r].seed]
  /\ req' = [req EXCEPT ![r].pc = "list"]
  /\ UNCHANGED <<clock, dir, files, data, mtime, up, scanVars, ran>>

(* await cachedQueue.get() resolves and the handler answers ... *)
Answer(r) ==
  /\ up /\ req[r].pc = "list"
  /\ req' = [req EXCEPT ![r].pc = "done"]
  /\ UNCHANGED <<clock, dir, files, data, mtime, up, scanVars, ran>>

(* ... or it rejects: a file of afl-fuzz's queue was unlinked for trimming,  *)
(* or the directory does not exist yet.  Nobody catches it, and Node ends    *)
(* the process with every other handler where it is.                         *)
Reject(r) ==
  /\ up /\ req[r].pc = "list"
  /\ up' = FALSE
  /\ UNCHANGED <<clock, req, dir, files, data, mtime, scanVars, ran>>

(* The same rejection in a handler of GET /api/queue or /api/crashes, which *)
(* the dashboard sends every five seconds.                                  *)
OtherRejects ==
  /\ up
  /\ up' = FALSE
  /\ UNCHANGED <<clock, req, dir, files, data, mtime, scanVars, ran>>
-----------------------------------------------------------------------------
(***************************************************************************)
(* afl-fuzz: read_foreign_testcases(), called at the end of sync_fuzzers(). *)
(***************************************************************************)
(* mtime_max starts from zero, not from what earlier scans have seen. *)
StartFromSeen == seen

StartFromZero == 0

(* scandir() fails as long as the directory does not exist. *)
ScanMissing ==
  /\ afl = "fuzz"
  /\ ~dir
  /\ UNCHANGED vars

ScanBegin ==
  /\ afl = "fuzz"
  /\ dir
  /\ afl' = "scan"
  /\ nl' = files
  /\ mtime_max' = StartFromZero
  /\ UNCHANGED <<clock, serverVars, seen, cur, st, ran>>

(* Files that the scan passes over: not newer, empty, or too big. *)
Skipped(f) ==
  \/ mtime[f] <= seen
  \/ Size(data[f]) = 0
  \/ Size(data[f]) > MaxFile

ScanSkip(f) ==
  /\ afl = "scan" /\ cur = None
  /\ f \in nl
  /\ Skipped(f)
  /\ nl' = nl \ {f}
  /\ UNCHANGED <<clock, serverVars, seen, mtime_max, cur, st, afl, ran>>

ScanStat(f) ==
  /\ afl = "scan" /\ cur = None
  /\ f \in nl
  /\ ~Skipped(f)
  /\ nl' = nl \ {f}
  /\ cur' = f
  /\ st' = [mtime |-> mtime[f], size |-> Size(data[f])]
  /\ UNCHANGED <<clock, serverVars, seen, mtime_max, afl, ran>>

(* The st_size bytes are mapped and handed to the target; the file may have *)
(* changed since lstat().                                                   *)
ScanRun ==
  /\ afl = "scan" /\ cur # None
  /\ Size(data[cur]) >= st.size
  /\ ran' = ran \cup {<<cur, data[cur] \cap (1 .. st.size)>>}
  /\ mtime_max' = Max({mtime_max, st.mtime})
  /\ cur' = None
  /\ st' = NoStat
  /\ UNCHANGED <<clock, serverVars, seen, nl, afl>>

(* The file has been truncated: the mapping cannot be read.                *)
ScanFault ==
  /\ afl = "scan" /\ cur # None
  /\ Size(data[cur]) < st.size
  /\ afl' = "dead"
  /\ UNCHANGED <<clock, serverVars, seen, nl, mtime_max, cur, st, ran>>

NextSeen == mtime_max

ScanEnd ==
  /\ afl = "scan" /\ cur = None
  /\ nl = {}
  /\ seen' = NextSeen
  /\ afl' = "fuzz"
  /\ mtime_max' = 0
  /\ UNCHANGED <<clock, serverVars, nl, cur, st, ran>>
-----------------------------------------------------------------------------
Server(r) ==
  \/ Mkdir(r) \/ OpenTruncate(r) \/ WriteChunk(r) \/ CloseFile(r)
  \/ Answer(r) \/ Reject(r)

Scan ==
  \/ ScanMissing
  \/ ScanBegin
  \/ \E f \in Seeds : ScanSkip(f) \/ ScanStat(f)
  \/ ScanRun
  \/ ScanFault
  \/ ScanEnd

Dead == afl = "dead" /\ UNCHANGED vars

Next ==
  \/ Tick
  \/ \E r \in Requests, s \in Seeds : Post(r, s)
  \/ \E r \in Requests : Server(r)
  \/ OtherRejects
  \/ Scan
  \/ Dead

(* The event loop runs what is ready while the server lives, and the sync  *)
(* comes again and again; neither users nor the clock are fair.            *)
Fairness == WF_vars(Scan) /\ \A r \in Requests : WF_vars(Server(r))

Spec == Init /\ [][Next]_vars /\ Fairness
-----------------------------------------------------------------------------
TypeOK ==
  /\ clock \in 1 .. MaxTime
  /\ req \in [Requests -> [seed : Seeds \cup {None}, off : Nat,
                           pc : {"none", "mkdir", "open", "write", "list", "done"}]]
  /\ dir \in BOOLEAN
  /\ files \in SUBSET Seeds
  /\ data \in [Seeds -> SUBSET Nat]
  /\ mtime \in [Seeds -> 0 .. MaxTime]
  /\ up \in BOOLEAN
  /\ seen \in 0 .. MaxTime
  /\ nl \in SUBSET files
  /\ mtime_max \in 0 .. MaxTime
  /\ cur \in files \cup {None}
  /\ st \in [mtime : 0 .. MaxTime, size : Nat]
  /\ afl \in {"fuzz", "scan", "dead"}
  /\ ran \in SUBSET (Seeds \X SUBSET Nat)

(* A posted seed of a size afl-fuzz accepts is run in full eventually,     *)
(* even when it was written half by the time of the scan that looked at    *)
(* it, or within the same second: addToUserQueue() against the mtime test  *)
(* of read_foreign_testcases().  Only two things can prevent it: afl-fuzz  *)
(* dies, or a rejection in any handler ends the server at a moment when    *)
(* the file is missing, truncated or half written.  A seed that was in the *)
(* file by then is run although nobody answered its post.                  *)
Whole(s) == <<FileName(s), 1 .. SeedSize[s]>>

CutOff(s) == ~up /\ data[FileName(s)] # 1 .. SeedSize[s]

PostedSeedRuns ==
  \A s \in Seeds :
    SeedSize[s] \in 1 .. MaxFile /\ (\E r \in Requests : req[r].seed = s) ~>
      Whole(s) \in ran \/ afl = "dead" \/ CutOff(s)

(* afl-fuzz reads past the end of a mapped seed only if the same content   *)
(* was posted again: writeFile() truncates the file it finds.              *)
Reposted == \E q, r \in Requests : q # r /\ req[q].seed = req[r].seed
                                         /\ req[r].seed # None

FaultOnlyByRepost == afl = "dead" => Reposted

(* What the target runs is the posted content, or the part of it that had  *)
(* been written; it is never run with a hole or with bytes of another seed *)
(* unless the same content was posted again.                               *)
RunsPrefixes ==
  ~Reposted =>
    \A x \in ran : \E s \in Seeds : \E n \in 1 .. SeedSize[s] :
       x = <<FileName(s), 1 .. n>>
=============================================================================
