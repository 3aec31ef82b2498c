---------------------------- MODULE MCQueueCull ----------------------------
(* Instances of QueueCull for TLC. *)
EXTENDS QueueCull

(* Three map bytes; every run hits at least two, as every program does. *)
MCTracesTwo == {{0, 1}, {1, 2}}

(* The default schedule on a stable target with up to three seeds, and -Z  *)
(* on an unstable target with two paths, each fuzzed twice.                *)
MCSessions ==
  {[cycle_schedules |-> FALSE, unstable |-> FALSE,
    seeds |-> 3, paths |-> 3, level |-> 1, times |-> {1, 2}],
   [cycle_schedules |-> TRUE, unstable |-> TRUE,
    seeds |-> 2, paths |-> 2, level |-> 2, times |-> {1}]}
=============================================================================
