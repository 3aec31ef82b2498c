------------------------------ MODULE MainNode ------------------------------
(***************************************************************************)
(* Which instances of a parallel campaign are main nodes.  Instances share *)
(* only a directory.  A main node keeps a file is_main_node in its output  *)
(* directory; -M makes one for good, and a secondary (-S) that meets no    *)
(* such file while it goes through the directory in sync_fuzzers elects    *)
(* itself until it meets another one.  Every system call of one instance   *)
(* may fall between two of another; instances are stopped, killed, end by  *)
(* FATAL or PFATAL and are started again.  What is imported on the way is  *)
(* in module SyncQueue.                                                    *)
(***************************************************************************)
EXTENDS Naturals, FiniteSets

CONSTANTS
  Nodes,      \* the instances, by sync_id
  Mains,      \* those started with -M
  MaxDeaths,  \* how often an instance ends without reaching the end of main
  MaxStarts   \* how often an instance is started

ASSUME MainNodeAssumption ==
  /\ Mains \subseteq Nodes
  /\ MaxDeaths \in Nat
  /\ MaxStarts \in Nat

VARIABLES
  up,       \* the running instances
  dir,      \* instances whose output directory exists
  file,     \* instances with a file is_main_node
  flag,     \* instances whose is_main_node is 1
  sync,     \* per instance: where it is in sync_fuzzers
  deaths,   \* such ends so far
  died,     \* history: the instances that have ended so
  starts    \* starts so far

vars == <<up, dir, file, flag, sync, deaths, died, starts>>

IdleSync == [pc |-> "idle", todo |-> {}, synced |-> FALSE, entries |-> FALSE]

Secondary(n) == n \notin Mains

Init ==
  /\ up = {}
  /\ dir = {}
  /\ file = {}
  /\ flag = {}
  /\ sync = [n \in Nodes |-> IdleSync]
  /\ deaths = 0
  /\ died = {}
  /\ starts = 0

(* setup_dirs_fds.  An old is_main_node is not removed. *)
Start(n) ==
  /\ n \notin up
  /\ starts < MaxStarts
  /\ starts' = starts + 1
  /\ up' = up \cup {n}
  /\ dir' = dir \cup {n}
  /\ flag' = IF n \in Mains THEN flag \cup {n} ELSE flag
  /\ file' = IF n \in Mains THEN file \cup {n} ELSE file
  /\ UNCHANGED <<sync, deaths, died>>
-----------------------------------------------------------------------------
(***************************************************************************)
(* sync_fuzzers                                                            *)
(***************************************************************************)
BeginSync(n) ==
  /\ n \in up
  /\ sync[n].pc = "idle"
  /\ sync' = [sync EXCEPT ![n] = [IdleSync EXCEPT !.pc = "scan",
                                                  !.todo = dir \ {n}]]
  /\ UNCHANGED <<up, dir, file, flag, deaths, died, starts>>

(* What if a temporary main node did not step down? *)
NeverStepsDown(n, m) == FALSE

(* A temporary main node that finds another one. *)
StepsDown(n, m) == Secondary(n) /\ n \in flag /\ m \in file

(* What if synced were counted up before the test? *)
NeverPassesOver(n, m) == FALSE

(* A secondary only imports from main nodes. *)
PassesOver(n, m) == Secondary(n) /\ n \notin flag /\ m \notin file

VisitEntry(n, m) ==
  /\ sync[n].pc = "scan"
  /\ m \in sync[n].todo
  /\ sync' = [sync EXCEPT
       ![n].todo = @ \ {m},
       ![n].entries = TRUE,
       ![n].synced = @ \/ ~PassesOver(n, m),
       ![n].pc = IF StepsDown(n, m) THEN "demote" ELSE "scan"]
  /\ UNCHANGED <<up, dir, file, flag, deaths, died, starts>>

(* The unlink; the file was seen by others until now. *)
Demote(n) ==
  /\ sync[n].pc = "demote"
  /\ flag' = flag \ {n}
  /\ file' = file \ {n}
  /\ sync' = [sync EXCEPT ![n].pc = "scan"]
  /\ UNCHANGED <<up, dir, deaths, died, starts>>

Elects(n) == Secondary(n) /\ sync[n].entries /\ ~sync[n].synced

EndSync(n) ==
  /\ sync[n].pc = "scan"
  /\ sync[n].todo = {}
  /\ flag' = IF Elects(n) THEN flag \cup {n} ELSE flag
  /\ file' = IF Elects(n) THEN file \cup {n} ELSE file
  /\ sync' = [sync EXCEPT ![n] = IdleSync]
  /\ UNCHANGED <<up, dir, deaths, died, starts>>
-----------------------------------------------------------------------------
(* What if the file were left to the next session? *)
KeepsFile(n) == file

RemovesFile(n) == IF n \in flag THEN file \ {n} ELSE file

(* The end of main, after stop_soon. *)
Exit(n) ==
  /\ n \in up
  /\ sync[n].pc = "idle"
  /\ up' = up \ {n}
  /\ file' = RemovesFile(n)
  /\ flag' = flag \ {n}
  /\ UNCHANGED <<dir, sync, deaths, died, starts>>

(* The process is gone wherever it was; nothing removes the file. *)
Dies(n) ==
  /\ n \in up
  /\ deaths < MaxDeaths
  /\ deaths' = deaths + 1
  /\ died' = died \cup {n}
  /\ up' = up \ {n}
  /\ flag' = flag \ {n}
  /\ sync' = [sync EXCEPT ![n] = IdleSync]
  /\ UNCHANGED <<dir, file, starts>>

(* SIGKILL *)
Kill(n) == Dies(n)

(* FATAL and PFATAL, which every module calls, e.g. sync_fuzzers when it   *)
(* cannot open a file: exit() runs at_exit(), which frees shared memory    *)
(* and kills the target, but does not know of is_main_node.                *)
Fatal(n) == Dies(n)

SyncStep(n) ==
  \/ BeginSync(n)
  \/ \E m \in Nodes : VisitEntry(n, m)
  \/ Demote(n)
  \/ EndSync(n)

Next == \E n \in Nodes : Start(n) \/ SyncStep(n) \/ Exit(n) \/ Kill(n) \/ Fatal(n)

(* A running instance goes on, and its main loop comes to sync_fuzzers     *)
(* again and again.  Nobody has to start or stop an instance, or kill it.  *)
Spec == Init /\ [][Next]_vars /\ \A n \in Nodes : WF_vars(SyncStep(n))
-----------------------------------------------------------------------------
TypeOK ==
  /\ up \subseteq dir /\ dir \subseteq Nodes
  /\ file \subseteq dir
  /\ flag \subseteq up
  /\ sync \in [Nodes -> [pc : {"idle", "scan", "demote"},
                         todo : SUBSET Nodes, synced : BOOLEAN,
                         entries : BOOLEAN]]
  /\ deaths \in 0 .. MaxDeaths
  /\ died \subseteq dir
  /\ starts \in 0 .. MaxStarts

(* An is_main_node whose owner does not act as a main node exists only     *)
(* because that owner itself once ended by a kill, FATAL or PFATAL: what   *)
(* elections, demotions and orderly ends do to the files agrees with what  *)
(* they do to the flags.  As nobody else removes such a file, the          *)
(* secondaries would follow a node that no longer collects.                *)
StaleOnlyByDeath == file \subseteq flag \cup died

(* A running secondary does not stay without a main node: as long as two   *)
(* instances have been started and one runs, a running main node appears   *)
(* again and again ("If no main node is present at a sync one secondary    *)
(* node automatically becomes a temporary main node").  sync_fuzzers tests *)
(* for the file only; deaths make exceptions: a dead instance whose file   *)
(* is still there, or two that were started again as secondaries with      *)
(* their old files, each of which takes the other for the main node.       *)
Misled == file \ up # {} \/ Cardinality(file \ flag) > 1

MainAgain ==
  []<>(flag # {} \/ up = {} \/ Cardinality(dir) < 2 \/ Misled)

(* ... "until a real main nodes shows up": if a -M instance stays, in the  *)
(* end no secondary is a main node.                                        *)
TempsYield ==
  \A n \in Mains : <>[](n \in up) => <>[](flag \subseteq Mains)
=============================================================================
