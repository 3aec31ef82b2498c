----------------------------- MODULE SyncQueue -----------------------------
(***************************************************************************)
(* The queue directory of one instance of afl-fuzz, which adds to it,      *)
(* rewrites files when it trims, is killed and resumes in place; and       *)
(* another instance that imports from it (sync_fuzzers) and keeps only a   *)
(* number: how many files it has counted.  The steps are the system calls  *)
(* on the shared directory.                                                *)
(*                                                                         *)
(* A directory maps the ids of its files to their test case, to whether    *)
(* the file has been written, and to its inode: rename and link keep the   *)
(* inode, a file that is unlinked and created again has another one, and a *)
(* mapping shows what happens to its inode.  A test case is the number     *)
(* under which it was first found.                                         *)
(***************************************************************************)
EXTENDS Naturals, Sequences, FiniteSets, SequencesExt, Functions

CONSTANTS
  MaxCases,     \* test cases found
  MaxTrims,     \* test cases trimmed
  MaxKills,     \* how often the exporter or the importer dies
  NoUnlinks     \* the values of no_unlink (-N) to consider

ASSUME SyncQueueAssumption ==
  /\ MaxCases \in Nat
  /\ MaxTrims \in Nat
  /\ MaxKills \in Nat
  /\ NoUnlinks \subseteq BOOLEAN

VARIABLES
  no_unlink,
  queue,      \* out_dir/queue
  resume,     \* out_dir/_resume
  exp,        \* the exporter: pc, queue_buf, the entry at work
  kills,
  imp,        \* the importer: pc, the listing, next_min_accept, open file
  listed,     \* the names in its listing: id and test case
  view,       \* its mapping: the inode, and which bytes a read would find
  synced,     \* the importer's .synced/<exporter>
  imp_kills,
  saved,      \* history: test cases that have been written in full
  trimmed,    \* history: test cases that have been trimmed
  risk,       \* history: test cases whose files a kill caught in the works
  ran,        \* history: test cases the importer has run
  met,        \* history: ... it has met in the works in this pass: unlinked,
              \* empty or changed under the mapping
  missed,     \* history: ... it has met so and counted
  torn        \* history: it has read a file that changed under the mapping

expVars == <<no_unlink, queue, resume, exp, kills, saved, trimmed, risk>>
impVars == <<imp, listed, synced, imp_kills, ran, met, missed, torn>>
vars == <<no_unlink, queue, resume, exp, kills, imp, listed, view, synced,
          imp_kills, saved, trimmed, risk, ran, met, missed, torn>>

NoFiles == [i \in {} |-> [case |-> 0, full |-> FALSE, ino |-> 0]]

WithFile(d, i, f) == [j \in DOMAIN d \cup {i} |-> IF j = i THEN f ELSE d[j]]

WithoutFile(d, i) == [j \in DOMAIN d \ {i} |-> d[j]]

(* The test cases a directory holds in full. *)
Cases(d) == {d[i].case : i \in {j \in DOMAIN d : d[j].full}}

(* What scandir with alphasort lists: ids in ascending order, each at the  *)
(* place that the number of smaller ones gives it.                         *)
Rank(ids, x) == Cardinality({y \in ids : y < x})

Listing(ids) ==
  [k \in 1 .. Cardinality(ids) |-> CHOOSE x \in ids : Rank(ids, x) = k - 1]

IdleImp == [pc |-> "idle", list |-> <<>>, next |-> 0, case |-> 0]

NoView == [ino |-> 0, bytes |-> "none"]

Mapped == imp.pc = "mapped"

(* An inode is in use as long as a name or a mapping refers to it. *)
UsedInos ==
  {queue[i].ino : i \in DOMAIN queue} \cup {resume[i].ino : i \in DOMAIN resume}
    \cup (IF Mapped THEN {view.ino} ELSE {})

FreshIno == CHOOSE n \in 0 .. Cardinality(UsedInos) : n \notin UsedInos

(* open with O_CREAT and O_EXCL *)
NewFile(c) == [case |-> c, full |-> FALSE, ino |-> FreshIno]

(* What a change of the file i makes of the mapping. *)
ViewAfter(i, bytes) ==
  IF Mapped /\ view.ino = queue[i].ino THEN [view EXCEPT !.bytes = bytes]
                                       ELSE view

Init ==
  /\ no_unlink \in NoUnlinks
  /\ queue = NoFiles
  /\ resume = NoFiles
  /\ exp = [pc |-> "fuzz", buf |-> <<>>, at |-> 0]
  /\ kills = 0
  /\ imp = IdleImp
  /\ listed = <<>>
  /\ view = NoView
  /\ synced = 0
  /\ imp_kills = 0
  /\ saved = {}
  /\ trimmed = {}
  /\ risk = {}
  /\ ran = {}
  /\ met = {}
  /\ missed = {}
  /\ torn = FALSE
-----------------------------------------------------------------------------
(***************************************************************************)
(* The exporter: save_if_interesting and trim_case                         *)
(***************************************************************************)
Find ==
  LET c == Cardinality(saved \cup risk)
  IN /\ exp.pc = "fuzz"
     /\ c < MaxCases
     /\ queue' = WithFile(queue, Len(exp.buf), NewFile(c))
     /\ exp' = [exp EXCEPT !.pc = "write", !.at = Len(exp.buf)]
     /\ UNCHANGED <<no_unlink, resume, kills, saved, trimmed, risk, view,
                    impVars>>

(* ck_write of a find, or of the shortened test case. *)
Write ==
  /\ exp.pc \in {"write", "rewrite"}
  /\ queue' = [queue EXCEPT ![exp.at].full = TRUE]
  /\ saved' = saved \cup {queue[exp.at].case}
  /\ exp' = [exp EXCEPT !.pc = "fuzz",
                        !.buf = IF exp.pc = "write"
                                  THEN Append(@, queue[exp.at].case) ELSE @]
  /\ view' = ViewAfter(exp.at, "other")
  /\ UNCHANGED <<no_unlink, resume, kills, trimmed, risk, impVars>>

(* What if the file were always truncated in place? *)
AlwaysInPlace == TRUE

InPlace == no_unlink

Trim(i) ==
  /\ exp.pc = "fuzz"
  /\ exp.buf[i + 1] \notin trimmed
  /\ Cardinality(trimmed) < MaxTrims
  /\ trimmed' = trimmed \cup {exp.buf[i + 1]}
  /\ \/ /\ InPlace                      \* open with O_TRUNC
        /\ queue' = [queue EXCEPT ![i].full = FALSE]
        /\ view' = ViewAfter(i, "none")
        /\ exp' = [exp EXCEPT !.pc = "rewrite", !.at = i]
     \/ /\ ~InPlace                     \* unlink
        /\ queue' = WithoutFile(queue, i)
        /\ UNCHANGED view
        /\ exp' = [exp EXCEPT !.pc = "reopen", !.at = i]
  /\ UNCHANGED <<no_unlink, resume, kills, saved, risk, impVars>>

Reopen ==
  /\ exp.pc = "reopen"
  /\ queue' = WithFile(queue, exp.at, NewFile(exp.buf[exp.at + 1]))
  /\ exp' = [exp EXCEPT !.pc = "rewrite"]
  /\ UNCHANGED <<no_unlink, resume, kills, saved, trimmed, risk, view, impVars>>
-----------------------------------------------------------------------------
(***************************************************************************)
(* Death and in-place resume: handle_existing_out_dir, read_testcases,     *)
(* pivot_inputs, nuke_resume_dir                                           *)
(***************************************************************************)
(* What a kill at this point endangers. *)
AtRisk ==
  CASE exp.pc \in {"reopen", "rewrite"} -> {exp.buf[exp.at + 1]}
    [] exp.pc = "nuke" /\ DOMAIN resume # {} -> saved \ Cases(resume)
    [] OTHER -> {}

Kill ==
  /\ exp.pc # "down"
  /\ kills + imp_kills < MaxKills
  /\ kills' = kills + 1
  /\ risk' = risk \cup AtRisk
  /\ exp' = [pc |-> "down", buf |-> <<>>, at |-> 0]
  /\ UNCHANGED <<no_unlink, queue, resume, saved, trimmed, view, impVars>>

(* What if the rename replaced an old _resume? *)
RenameReplaces == TRUE

(* rename fails if _resume exists and is not empty. *)
RenameWorks == DOMAIN resume = {}

Resume ==
  /\ exp.pc = "down"
  /\ resume' = IF RenameWorks THEN queue ELSE resume
  /\ queue' = IF RenameWorks THEN NoFiles ELSE queue
  /\ exp' = [exp EXCEPT !.pc = "clear"]
  /\ UNCHANGED <<no_unlink, kills, saved, trimmed, risk, view, impVars>>

(* delete_files on queue/, in the order of readdir. *)
ClearOld(i) ==
  /\ exp.pc = "clear"
  /\ queue' = WithoutFile(queue, i)
  /\ UNCHANGED <<no_unlink, resume, exp, kills, saved, trimmed, risk, view,
                 impVars>>

(* read_testcases goes through the listing from its end and skips empty    *)
(* files.  Without any test case it is FATAL.                              *)
ReadTestcases ==
  LET full == {i \in DOMAIN resume : resume[i].full}
  IN /\ exp.pc = "clear"
     /\ DOMAIN queue = {}
     /\ full # {}
     /\ exp' = [pc |-> "pivot", at |-> 0,
                buf |-> [k \in 1 .. Cardinality(full) |->
                           resume[Reverse(Listing(full))[k]].case]]
     /\ UNCHANGED <<no_unlink, queue, resume, kills, saved, trimmed, risk, view,
                    impVars>>

(* link_or_copy under the next id; it copies only where there are no links. *)
Pivot ==
  /\ exp.pc = "pivot"
  /\ \E i \in DOMAIN resume :
       /\ resume[i].full
       /\ resume[i].case = exp.buf[exp.at + 1]
       /\ queue' = WithFile(queue, exp.at, resume[i])
  /\ exp' = [exp EXCEPT !.at = @ + 1,
                        !.pc = IF exp.at + 1 = Len(exp.buf) THEN "nuke" ELSE @]
  /\ UNCHANGED <<no_unlink, resume, kills, saved, trimmed, risk, view, impVars>>

Nuke(i) ==
  /\ exp.pc = "nuke"
  /\ resume' = WithoutFile(resume, i)
  /\ UNCHANGED <<no_unlink, queue, exp, kills, saved, trimmed, risk, view,
                 impVars>>

Resumed ==
  /\ exp.pc = "nuke"
  /\ DOMAIN resume = {}
  /\ exp' = [exp EXCEPT !.pc = "fuzz"]
  /\ UNCHANGED <<no_unlink, queue, resume, kills, saved, trimmed, risk, view,
                 impVars>>
-----------------------------------------------------------------------------
(***************************************************************************)
(* The importer: sync_fuzzers                                              *)
(***************************************************************************)
(* What if the number were that of the last file seen? *)
LastIsListed == synced + 1 \in DOMAIN queue

FirstIsListed == synced \in DOMAIN queue

(* The listing from the file "id:<synced>" on; without that file there is  *)
(* nothing new.  Each file listed counts up the number by one, so a gap    *)
(* below a listed file is counted in the end, one at the tail is not.      *)
ListQueue ==
  LET new == {i \in DOMAIN queue : i >= synced}
  IN /\ imp.pc = "idle"
     /\ FirstIsListed
     /\ imp' = [pc |-> "next", list |-> Listing(new), next |-> synced,
                case |-> 0]
     /\ listed' = [i \in new |-> queue[i].case]
     /\ met' = {exp.buf[j] : j \in {k \in 1 .. Len(exp.buf) :
                   k > synced /\ k - 1 \notin new /\ \E i \in new : k <= i}}
     /\ UNCHANGED <<view, synced, imp_kills, ran, missed, torn, expVars>>

(* A name that was listed; a resume gives its id to another test case under *)
(* another name.                                                            *)
StillThere(i) == i \in DOMAIN queue /\ queue[i].case = listed[i]

(* next_min_accept is counted up before the file is opened, and a file that *)
(* is gone or empty is passed over.                                         *)
OpenFile ==
  /\ imp.pc = "next"
  /\ imp.list # <<>>
  /\ LET i == Head(imp.list)
         readable == StillThere(i) /\ queue[i].full
         next == imp.next + 1
     IN \/ /\ readable
           /\ imp' = [imp EXCEPT !.pc = "mapped", !.next = next,
                                 !.case = queue[i].case]
           /\ view' = [ino |-> queue[i].ino, bytes |-> "whole"]
           /\ UNCHANGED met
        \/ /\ ~readable
           /\ imp' = [imp EXCEPT !.list = Tail(@), !.next = next]
           /\ met' = met \cup {listed[i]}
           /\ UNCHANGED view
  /\ UNCHANGED <<listed, synced, imp_kills, ran, missed, torn, expVars>>

(* The bytes are all there, or others are in their place. *)
RunCase ==
  /\ Mapped
  /\ view.bytes # "none"
  /\ imp' = [imp EXCEPT !.pc = "next", !.list = Tail(@)]
  /\ view' = NoView
  /\ \/ /\ view.bytes = "whole"
        /\ ran' = ran \cup {imp.case}
        /\ UNCHANGED <<met, torn>>
     \/ /\ view.bytes = "other"
        /\ met' = met \cup {imp.case}
        /\ torn' = TRUE
        /\ UNCHANGED ran
  /\ UNCHANGED <<listed, synced, imp_kills, missed, expVars>>

(* SIGBUS: the mapping reaches past the end of its file, which is empty or *)
(* has been written again, with fewer pages.                               *)
RunFaults ==
  /\ Mapped
  /\ view.bytes # "whole"
  /\ torn' = TRUE
  /\ imp' = [IdleImp EXCEPT !.pc = "dead"]
  /\ view' = NoView
  /\ UNCHANGED <<listed, synced, imp_kills, ran, met, missed, expVars>>

(* What if the number were written one too high? *)
OneTooMany == imp.next + 1

NextMinAccept == imp.next

EndImport ==
  /\ imp.pc = "next"
  /\ imp.list = <<>>
  /\ synced' = NextMinAccept
  /\ missed' = missed \cup met
  /\ met' = {}
  /\ imp' = IdleImp
  /\ listed' = <<>>
  /\ UNCHANGED <<view, imp_kills, ran, torn, expVars>>

(* A stop or a kill of the importer; its own resume keeps .synced. *)
KillImporter ==
  /\ imp.pc \in {"next", "mapped"}
  /\ kills + imp_kills < MaxKills
  /\ imp_kills' = imp_kills + 1
  /\ imp' = IdleImp
  /\ listed' = <<>>
  /\ view' = NoView
  /\ met' = {}
  /\ UNCHANGED <<synced, ran, missed, torn, expVars>>

Exporter ==
  \/ Find \/ Write \/ Reopen
  \/ \E i \in 0 .. Len(exp.buf) - 1 : Trim(i)
  \/ Kill \/ Resume \/ ReadTestcases \/ Pivot \/ Resumed
  \/ \E i \in DOMAIN queue : ClearOld(i)
  \/ \E i \in DOMAIN resume : Nuke(i)

Importer == ListQueue \/ OpenFile \/ RunCase \/ RunFaults \/ EndImport

Next == Exporter \/ Importer \/ KillImporter

(* The importer syncs again and again, and an exporter that has begun to   *)
(* write or rewrite a file goes on.                                        *)
Spec ==
  /\ Init
  /\ [][Next]_vars
  /\ WF_vars(Importer)
  /\ WF_vars(Write \/ Reopen)
-----------------------------------------------------------------------------
TypeOK ==
  /\ DOMAIN queue \subseteq 0 .. MaxCases
  /\ DOMAIN resume \subseteq 0 .. MaxCases
  /\ exp.pc \in {"fuzz", "write", "reopen", "rewrite", "down", "clear",
                 "pivot", "nuke"}
  /\ imp.pc \in {"idle", "next", "mapped", "dead"}
  /\ view \in [ino : 0 .. 2 * MaxCases + 1, bytes : {"none", "whole", "other"}]
  /\ saved \cup risk \cup ran \cup met \cup missed \subseteq 0 .. MaxCases

(* A test case that has been written in full stays on disk in full, in     *)
(* queue/ or in _resume/, through trims, kills and resumes at any point.   *)
(* The exceptions are the file a kill caught while trim_case replaced it,  *)
(* and the files nuke_resume_dir had deleted when a kill caught it: the    *)
(* next resume takes what is left of _resume/ for the whole queue.         *)
KeptOnDisk ==
  LET busy == IF exp.pc \in {"reopen", "rewrite"}
                THEN {exp.buf[exp.at + 1]} ELSE {}
  IN saved \subseteq Cases(queue) \cup Cases(resume) \cup risk \cup busy

(* Until the exporter resumes and numbers its files anew, every file the   *)
(* importer has counted was run, unless it was unlinked or empty at that   *)
(* moment.                                                                 *)
CountedWasSeen ==
  kills = 0 =>
    \A i \in 1 .. Len(exp.buf) : i <= synced => exp.buf[i] \in ran \cup missed

(* Without -N no file changes under the importer's mapping, through trims, *)
(* kills and resumes of the exporter: what trim_case, and the find after   *)
(* it, write goes to inodes that nobody has mapped.  The importer neither  *)
(* faults nor runs bytes that were no test case.                           *)
TornOnlyInPlace == torn => no_unlink

(* Every test case is run by the importer or met in the works, whatever    *)
(* the gaps in the listings and the kills of the importer, as long as the  *)
(* exporter stays up.  (It finds finitely many.)                           *)
EveryCaseOffered ==
  <>[](saved \subseteq ran \cup missed \/ kills > 0 \/ imp.pc = "dead")

(* When nothing is new to the importer, it has seen every test case there  *)
(* is ("periodically rescan the top-level sync directory for any test      *)
(* cases found by other fuzzers").                                         *)
NothingNewMeansSeen ==
  exp.pc = "fuzz" /\ imp.pc = "idle" /\ synced >= Len(exp.buf) =>
    Range(exp.buf) \subseteq ran \cup missed \cup risk
=============================================================================
