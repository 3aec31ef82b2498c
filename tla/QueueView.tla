------------------------------ MODULE QueueView ------------------------------
(***************************************************************************)
(* How the queue reaches the Queue page.  afl-fuzz creates, trims and      *)
(* rewrites the files of out/default/queue; the server answers             *)
(* GET /api/queue from CachedQueue (cli/src/server/index.ts), which reads  *)
(* a file once and keeps what it read; the page polls every five seconds   *)
(* and shows the last answer to arrive.  The Crashes page works alike, on  *)
(* files that are never rewritten.                                         *)
(***************************************************************************)
EXTENDS Naturals

CONSTANTS
  QueueFiles,  \* names of queue files
  Requests     \* requests that may be under way at a time

VARIABLES
  made,      \* out/default/queue exists
  disk,      \* content of each file; "none" if it does not exist
  job,       \* the file afl-fuzz is about to write or to create again
  up,        \* the server process is alive
  cache,     \* CachedQueue.cache
  req,       \* the requests
  list,      \* what the page shows
  readers    \* history: the requests that have read each file from disk

aflVars == <<made, disk, job>>
queueVars == <<made, disk, job, up, cache, req, list, readers>>

FileStates == {"none", "empty", "whole", "trimmed"}
NoJob == [file |-> "none", next |-> "none"]
NoneYet == [f \in QueueFiles |-> "none"]

(* raw: read, the callback is still to run; got: ready for the answer. *)
NoRequest == [pc |-> "idle", names |-> {}, raw |-> NoneYet, got |-> NoneYet]

QueueInit ==
  /\ made = FALSE
  /\ disk = NoneYet
  /\ job = NoJob
  /\ up = TRUE
  /\ cache = NoneYet
  /\ req = [r \in Requests |-> NoRequest]
  /\ list = NoneYet
  /\ readers = [f \in QueueFiles |-> {}]
-----------------------------------------------------------------------------
(***************************************************************************)
(* afl-fuzz, which does one thing at a time                                *)
(***************************************************************************)
SetupDirs ==
  /\ ~made
  /\ made' = TRUE
  /\ UNCHANGED <<disk, job, up, cache, req, list, readers>>

(* save_if_interesting(): open(O_CREAT | O_EXCL), then ck_write() *)
Create(f) ==
  /\ made
  /\ job = NoJob
  /\ disk[f] = "none"
  /\ disk' = [disk EXCEPT ![f] = "empty"]
  /\ job' = [file |-> f, next |-> "whole"]
  /\ UNCHANGED <<made, up, cache, req, list, readers>>

(* trim_case(): unlink(), open(O_CREAT | O_EXCL), ck_write() *)
Unlink(f) ==
  /\ job = NoJob
  /\ disk[f] = "whole"
  /\ disk' = [disk EXCEPT ![f] = "none"]
  /\ job' = [file |-> f, next |-> "empty"]
  /\ UNCHANGED <<made, up, cache, req, list, readers>>

Recreate ==
  /\ job.next = "empty"
  /\ disk' = [disk EXCEPT ![job.file] = "empty"]
  /\ job' = [job EXCEPT !.next = "trimmed"]
  /\ UNCHANGED <<made, up, cache, req, list, readers>>

Write ==
  /\ job.next \in {"whole", "trimmed"}
  /\ disk' = [disk EXCEPT ![job.file] = job.next]
  /\ job' = NoJob
  /\ UNCHANGED <<made, up, cache, req, list, readers>>
-----------------------------------------------------------------------------
(***************************************************************************)
(* The server.  A rejected promise of an async route handler is handled by *)
(* nobody: Node ends the process.                                          *)
(***************************************************************************)
Die == up' = FALSE /\ UNCHANGED <<aflVars, cache, req, list, readers>>

PollsUntilShown(r) == list = NoneYet

PollsForever(r) == TRUE

Get(r) ==
  /\ up
  /\ PollsForever(r)
  /\ req[r].pc = "idle"
  /\ req' = [req EXCEPT ![r].pc = "readdir"]
  /\ UNCHANGED <<aflVars, up, cache, list, readers>>

Listed == {f \in QueueFiles : disk[f] # "none"}

(* await fs.readdir(), then a cached item or the promise of one per name *)
NeverCached(names) == NoneYet

FromCache(names) ==
  [f \in QueueFiles |-> IF f \in names THEN cache[f] ELSE "none"]

Readdir(r) ==
  /\ up /\ made
  /\ req[r].pc = "readdir"
  /\ req' = [req EXCEPT ![r] = [pc |-> "reading", names |-> Listed,
                                raw |-> NoneYet, got |-> FromCache(Listed)]]
  /\ UNCHANGED <<aflVars, up, cache, list, readers>>

ReaddirFails(r) ==
  /\ up /\ ~made
  /\ req[r].pc = "readdir"
  /\ Die

ToRead(r) ==
  {f \in req[r].names : req[r].got[f] = "none" /\ req[r].raw[f] = "none"}

ReadFile(r, f) ==
  /\ up
  /\ req[r].pc = "reading"
  /\ f \in ToRead(r)
  /\ disk[f] # "none"
  /\ req' = [req EXCEPT ![r].raw[f] = disk[f]]
  /\ readers' = [readers EXCEPT ![f] = @ \cup {r}]
  /\ UNCHANGED <<aflVars, up, cache, list>>

ReadFileFails(r, f) ==
  /\ up
  /\ req[r].pc = "reading"
  /\ f \in ToRead(r)
  /\ disk[f] = "none"
  /\ Die

(* .then((content) => { this.cache.set(filename, item); return item; }) *)
ItemNotCached(r, f) ==
  /\ up
  /\ req[r].pc = "reading"
  /\ req[r].raw[f] # "none"
  /\ req' = [req EXCEPT ![r].got[f] = req[r].raw[f], ![r].raw[f] = "none"]
  /\ UNCHANGED <<aflVars, up, cache, list, readers>>

CacheItem(r, f) ==
  /\ up
  /\ req[r].pc = "reading"
  /\ req[r].raw[f] # "none"
  /\ cache' = [cache EXCEPT ![f] = req[r].raw[f]]
  /\ req' = [req EXCEPT ![r].got[f] = req[r].raw[f], ![r].raw[f] = "none"]
  /\ UNCHANGED <<aflVars, up, list, readers>>

(* Promise.all() *)
Awaited(r) == {f \in req[r].names : req[r].got[f] = "none"}

Answer(r) ==
  /\ up
  /\ req[r].pc = "reading"
  /\ Awaited(r) = {}
  /\ req' = [req EXCEPT ![r].pc = "answered"]
  /\ UNCHANGED <<aflVars, up, cache, list, readers>>

(* setQueue(): answers arrive in any order. *)
SetQueue(r) ==
  /\ req[r].pc = "answered"
  /\ list' = req[r].got
  /\ req' = [req EXCEPT ![r] = NoRequest]
  /\ UNCHANGED <<aflVars, up, cache, readers>>
-----------------------------------------------------------------------------
Afl ==
  \/ SetupDirs \/ Recreate \/ Write
  \/ \E f \in QueueFiles : Create(f) \/ Unlink(f)

Handle(r) ==
  \/ Get(r) \/ Readdir(r) \/ ReaddirFails(r) \/ Answer(r) \/ SetQueue(r)
  \/ \E f \in QueueFiles :
       ReadFile(r, f) \/ ReadFileFails(r, f) \/ CacheItem(r, f)

Down == ~up /\ UNCHANGED queueVars

QueueNext == Afl \/ (\E r \in Requests : Handle(r)) \/ Down

(* afl-fuzz finishes the write it has begun; the page keeps polling. *)
QueueFairness ==
  /\ WF_queueVars(Recreate \/ Write)
  /\ \A r \in Requests : WF_queueVars(Handle(r))

QueueSpec == QueueInit /\ [][QueueNext]_queueVars /\ QueueFairness
-----------------------------------------------------------------------------
QueueTypeOK ==
  /\ made \in BOOLEAN
  /\ disk \in [QueueFiles -> FileStates]
  /\ job \in [file : QueueFiles, next : {"whole", "empty", "trimmed"}]
               \cup {NoJob}
  /\ up \in BOOLEAN
  /\ cache \in [QueueFiles -> FileStates]
  /\ req \in [Requests -> [pc : {"idle", "readdir", "reading", "answered"},
                           names : SUBSET QueueFiles,
                           raw : [QueueFiles -> FileStates],
                           got : [QueueFiles -> FileStates]]]
  /\ list \in [QueueFiles -> FileStates]
  /\ readers \in [QueueFiles -> SUBSET Requests]

(* What CachedQueue is for: a file is read from disk at most as often as   *)
(* requests can overlap, however long the page polls.  None of the         *)
(* requests under way reads a file that was read in its place before,      *)
(* although each looks into the cache only once, at its readdir, and       *)
(* others put what they read into it later and in any order.               *)
ReadOnceEach ==
  \A r \in Requests : req[r].pc = "reading" =>
    \A f \in ToRead(r) : r \notin readers[f]

(* A queue file that afl-fuzz is done with comes to be shown and stays on  *)
(* the page, although an answer that lists fewer files may arrive late.    *)
EveryFileStaysShown ==
  \A f \in QueueFiles :
    <>[](disk[f] = "trimmed" => list[f] # "none" \/ ~up)

(* The page comes to show for every file what the cache holds, and keeps   *)
(* showing it, so that every page shows the same: requests that overlap    *)
(* may have read a file empty, whole or trimmed, their callbacks replace   *)
(* each other's item and their answers overtake each other, but not for    *)
(* ever.                                                                   *)
PageSettlesOnCache == <>[](up => list = cache)

(* "you can see the visualized progress": opening the page does not end    *)
(* the server.                                                             *)
ServerSurvives == up
=============================================================================
