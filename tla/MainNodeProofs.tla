--------------------------- MODULE MainNodeProofs ---------------------------
(***************************************************************************)
(* Proofs about MainNode, for every set of instances and any number of     *)
(* starts, kills and fatal errors.                                         *)
(***************************************************************************)
EXTENDS MainNode, TLAPS

(***************************************************************************)
(* The inductive invariant: the types, that only a running instance is     *)
(* inside sync_fuzzers (its election would otherwise set the flag of a     *)
(* dead one), and StaleOnlyByDeath.                                        *)
(***************************************************************************)
SyncType ==
  [pc : {"idle", "scan", "demote"}, todo : SUBSET Nodes, synced : BOOLEAN,
   entries : BOOLEAN]

OnlyRunningSync == \A n \in Nodes : sync[n].pc # "idle" => n \in up

IInv == TypeOK /\ OnlyRunningSync /\ StaleOnlyByDeath

(* What sync_fuzzers keeps per instance is well typed after an update.     *)
LEMMA IdleSyncType == IdleSync \in SyncType /\ IdleSync.pc = "idle"
  BY DEF IdleSync, SyncType

(* An entry of sync that is replaced by another one of its type.           *)
LEMMA UpdateSync ==
  ASSUME sync \in [Nodes -> SyncType],
         NEW n \in Nodes, NEW s \in SyncType,
         sync' = [sync EXCEPT ![n] = s]
  PROVE  /\ sync' \in [Nodes -> SyncType]
         /\ sync'[n] = s
         /\ \A m \in Nodes : m # n => sync'[m] = sync[m]
  OBVIOUS

(* The actions, one by one. *)
LEMMA StartKeeps ==
  ASSUME IInv, NEW n \in Nodes, Start(n) PROVE IInv'
  BY MainNodeAssumption
     DEF IInv, TypeOK, OnlyRunningSync, StaleOnlyByDeath, Start

LEMMA BeginSyncKeeps ==
  ASSUME IInv, NEW n \in Nodes, BeginSync(n) PROVE IInv'
<1> DEFINE s == [IdleSync EXCEPT !.pc = "scan", !.todo = dir \ {n}]
<1>1. s \in SyncType
  BY DEF IdleSync, SyncType, IInv, TypeOK
<1>2. sync' = [sync EXCEPT ![n] = s]
  BY DEF BeginSync
<1> HIDE DEF s
<1>3. /\ sync' \in [Nodes -> SyncType]
      /\ \A m \in Nodes : m # n => sync'[m] = sync[m]
  BY <1>1, <1>2, UpdateSync DEF IInv, TypeOK, SyncType
<1>4. OnlyRunningSync'
  BY <1>3 DEF IInv, OnlyRunningSync, BeginSync
<1>5. QED
  BY <1>3, <1>4 DEF IInv, TypeOK, StaleOnlyByDeath, BeginSync, SyncType

LEMMA VisitEntryKeeps ==
  ASSUME IInv, NEW n \in Nodes, NEW m \in Nodes, VisitEntry(n, m) PROVE IInv'
<1> DEFINE s == [sync[n] EXCEPT
                   !.todo = @ \ {m},
                   !.entries = TRUE,
                   !.synced = @ \/ ~PassesOver(n, m),
                   !.pc = IF StepsDown(n, m) THEN "demote" ELSE "scan"]
<1>0. sync \in [Nodes -> SyncType] /\ sync[n] \in SyncType
  BY DEF IInv, TypeOK, SyncType
<1>1. s \in SyncType
  BY <1>0 DEF SyncType, PassesOver
<1>2. sync' = [sync EXCEPT ![n] = s]
  BY <1>0 DEF VisitEntry, SyncType
<1> HIDE DEF s
<1>3. /\ sync' \in [Nodes -> SyncType]
      /\ \A k \in Nodes : k # n => sync'[k] = sync[k]
  BY <1>0, <1>1, <1>2, UpdateSync
<1>4. OnlyRunningSync'
  BY <1>3 DEF IInv, OnlyRunningSync, VisitEntry
<1>5. QED
  BY <1>3, <1>4 DEF IInv, TypeOK, StaleOnlyByDeath, VisitEntry, SyncType

LEMMA DemoteKeeps ==
  ASSUME IInv, NEW n \in Nodes, Demote(n) PROVE IInv'
<1>0. sync \in [Nodes -> SyncType] /\ sync[n] \in SyncType
  BY DEF IInv, TypeOK, SyncType
<1>1. /\ sync' \in [Nodes -> SyncType]
      /\ \A k \in Nodes : k # n => sync'[k] = sync[k]
  BY <1>0 DEF Demote, SyncType
<1>2. OnlyRunningSync'
  BY <1>1 DEF IInv, OnlyRunningSync, Demote
<1>3. QED
  BY <1>1, <1>2 DEF IInv, TypeOK, StaleOnlyByDeath, Demote, SyncType

LEMMA EndSyncKeeps ==
  ASSUME IInv, NEW n \in Nodes, EndSync(n) PROVE IInv'
<1>0. sync \in [Nodes -> SyncType] /\ n \in up /\ n \in dir
  BY DEF IInv, TypeOK, SyncType, OnlyRunningSync, EndSync
<1>1. /\ sync' \in [Nodes -> SyncType]
      /\ sync'[n] = IdleSync
      /\ \A k \in Nodes : k # n => sync'[k] = sync[k]
  BY <1>0, UpdateSync, IdleSyncType DEF EndSync
<1>2. OnlyRunningSync'
  BY <1>1, IdleSyncType DEF IInv, OnlyRunningSync, EndSync
<1>3. QED
  BY <1>0, <1>1, <1>2 DEF IInv, TypeOK, StaleOnlyByDeath, EndSync, SyncType

LEMMA ExitKeeps ==
  ASSUME IInv, NEW n \in Nodes, Exit(n) PROVE IInv'
  BY DEF IInv, TypeOK, OnlyRunningSync, StaleOnlyByDeath, Exit, RemovesFile

LEMMA DiesKeeps ==
  ASSUME IInv, NEW n \in Nodes, Dies(n) PROVE IInv'
<1>0. sync \in [Nodes -> SyncType] /\ deaths \in Nat
  BY MainNodeAssumption DEF IInv, TypeOK, SyncType
<1>1. /\ sync' \in [Nodes -> SyncType]
      /\ sync'[n] = IdleSync
      /\ \A k \in Nodes : k # n => sync'[k] = sync[k]
  BY <1>0, UpdateSync, IdleSyncType DEF Dies
<1>2. OnlyRunningSync'
  BY <1>1, IdleSyncType DEF IInv, OnlyRunningSync, Dies
<1>3. StaleOnlyByDeath'
  BY DEF IInv, TypeOK, StaleOnlyByDeath, Dies
<1>4. QED
  BY <1>0, <1>1, <1>2, <1>3, MainNodeAssumption DEF IInv, TypeOK, Dies, SyncType

LEMMA Inductive == Spec => []IInv
<1>1. Init => IInv
  BY MainNodeAssumption
     DEF Init, IInv, TypeOK, OnlyRunningSync, StaleOnlyByDeath, IdleSync
<1>2. IInv /\ [Next]_vars => IInv'
  <2> SUFFICES ASSUME IInv, [Next]_vars PROVE IInv'
    OBVIOUS
  <2>1. CASE UNCHANGED vars
    BY <2>1 DEF IInv, TypeOK, OnlyRunningSync, StaleOnlyByDeath, vars
  <2>2. CASE Next
    BY <2>2, StartKeeps, BeginSyncKeeps, VisitEntryKeeps, DemoteKeeps,
       EndSyncKeeps, ExitKeeps, DiesKeeps DEF Next, SyncStep, Kill, Fatal
  <2>3. QED
    BY <2>1, <2>2
<1>3. QED
  BY <1>1, <1>2, PTL DEF Spec

(* The types, and which instances have directories, files and flags: an    *)
(* instance with a file has its directory, and only running instances act  *)
(* as main nodes, for every order of starts, scans, elections, stops,      *)
(* kills and fatal errors (setup_dirs_fds, sync_fuzzers, the end of main). *)
THEOREM TypeCorrect == Spec => []TypeOK
  BY Inductive, PTL DEF IInv

(* An is_main_node on disk belongs to an instance that acts as a main node *)
(* or that once ended by a kill or a fatal error: what elections,          *)
(* demotions and orderly exits of any number of instances do to the files  *)
(* agrees with what they do to the flags, however their system calls       *)
(* interleave, and however the instances around them die.                  *)
THEOREM StaleOnlyByDeaths == Spec => []StaleOnlyByDeath
  BY Inductive, PTL DEF IInv
=============================================================================
