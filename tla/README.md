# Verification of sotsuron (`aflv`)

`aflv` is an interactive fuzzing tool. `aflv cc` compiles a program with a
modified AFL++ and writes a source map; `aflv fuzz` starts `afl-fuzz` and a web
server; the dashboard shows the queue, the crashes and the coverage of the
running campaign and lets a user post new seeds. This directory holds TLA+
modules that model the parts with state worth arguing about, the TLC
configurations that check them, and TLAPS proofs.

## 1. Inventory

| Component | State it keeps | Operations | Interacts with |
|---|---|---|---|
| Test case cache (`afl-fuzz-queue.c`) | `q_testcase_cache[]`, its limits, counters and high-water mark; `testcase_buf` of every entry | get, store_mem, retake, retake_mem; eviction; learning the entry limit | called by `fuzz_one`, `trim_case`, splicing, `save_if_interesting`; reads the queue files |
| Queue scoring and scheduling (`afl-fuzz-queue.c`, `-run.c`, `-init.c`, `-one.c`, `afl-fuzz.c`) | queue entries with their flags, `top_rated[]`, `tc_ref`, `trace_mini`, `favored`, the counters, the alias table | calibrate, score, cull, dry run, removal of duplicates, select, skip, trim, find, abandon, change of schedule | everything in `afl-fuzz` |
| User seeds (`server/index.ts`, `read_foreign_testcases`) | files of `out/user/queue`, `foreign_syncs[].mtime` | POST, mkdir, truncate, write; scan, stat, map, run | two processes that share only a directory |
| Source map (`aflv.ts`, LTO pass) | `.aflv/profile.json` | compile, print blocks, read back, add source text, write | compiler process and CLI share one file |
| Coverage view (`write_virgin_bits`, `Explorer.tsx`) | `virgin_bits` in memory and on disk, the answers under way, the page | truncate and rewrite, static file route, poll, show | fuzzer, server and browser |
| Queue and crashes view (`CachedQueue`, `Queue.tsx`, `Crashes.tsx`) | queue files, the cache, requests, the page | create, unlink, rewrite; readdir, readFile, cache, answer, poll | fuzzer, server and browser |
| Fork server and runtime (`afl-forkserver.c`, `afl-compiler-rt.o.c`) | control and status pipe, `child_pid`, `last_run_timed_out`; `child_stopped`, `was_killed` in the server; the process | handshake, request, fork or wake, wait, relay; time limit, kill, stop | every run of the target goes through it |
| Main node election (`sync_fuzzers`, `setup_dirs_fds`) | files `is_main_node`, the flag of each instance | start, scan, elect, step down, stop, be killed | instances that share a directory |
| Import and in-place resume (`sync_fuzzers`, `handle_existing_out_dir`, `read_testcases`, `pivot_inputs`, `nuke_resume_dir`) | queue and `_resume` directories, `.synced/<id>` | find, trim, rename, link, delete; list, open, run, count; die anywhere | one instance writes, another reads |
| Mutation stages (`trim_case`, `fuzz_one_original`) | `in_buf`, `out_buf` and their sizes, `eff_map`, token collection, automatic dictionary, stage counters | trim, fifteen deterministic stages, havoc, splicing | queue files, cache, target |
| Bitmap, statistics, MOpt, CmpLog, custom mutators, compilers, tools and modes | see `PROJECT.json` | | abstracted into the modules above where they touch them, otherwise not modelled (section 8) |

What is hard here, and what makes each part correct:

* **Cache**: reference-counting by hand, unbounded searches and rejection
  loops. Correct: slots, buffers, counters, files and the buffer in use always
  agree; each search ends inside the array; each loop can end, and where it cannot,
  the limits are known exactly.
* **Queue**: winners, traces and reference counts are changed byte by byte in
  one function and trusted without a check in another; counters are adjusted by
  hand in a dozen places; the selection divides doubles. Correct: counts are
  exact, winners have traces, the favoured set covers what has been seen,
  disabled entries are not fuzzed.
* **User seeds**: every system call of one process can fall between two of the
  other, change is detected by a clock of one second, and a rejection that nobody
  catches ends the server with files half written. Correct: every posted seed is run in
  full eventually unless the server ended first; nothing else is run in its name.
* **Source map**: read, await, write back, after a compiler whose exit code nobody
  looks at. Correct: blocks and source text belong together, also after failed builds
  and edits, and belong to the program unless the last build failed after its pass.
* **Views**: a file rewritten under its reader, answers that overtake each other,
  a cache shared by requests. Correct: an answer is never behind what was complete
  when it was asked for, a cached file is not read again, and the pages settle.
* **Fork server**: three processes and two pipes, where a kill may meet a process
  that is working, stopped, exited or not yet forked. Correct: pipes never carry a
  word that the other side takes for something else; every request returns the
  outcome of its own input; no process is left behind that could have been killed.
* **Parallel campaign**: only files are shared, every instance may die between two
  system calls. Correct: there is a main node again and again, a temporary one
  yields to a real one; test cases survive a death; what was counted was seen, and
  what was found is offered.
* **Mutation stages**: one buffer is changed in place and restored by hand by each
  stage; values are skipped when arithmetic says an earlier stage had them; buffers
  grow while offsets are drawn. Correct: what is run, skipped, counted, learnt and
  kept agrees with the input and the runs, and no access leaves its buffer.

The hazards, each at its line and with the properties that watch it, are in
`PROJECT.json`.

## 2. Modules

The code is sequential inside `afl-fuzz` and cooperative inside the server, so
an action is a handler or the stretch between two points at which someone else
can act: a system call on shared files, an `await`, or a loop iteration where the
order inside the loop matters.

**`TestCache`**. `queue` are the entries of `queue_buf[]`; `cache` is the array,
with `Garbage` for a slot that `realloc` did not initialise; `buf` is
`testcase_buf` as the version of the file it holds (`file`), so that "buffer and
file agree" is an equation. `SelectEntry`, `Splice` and `AddEntry` are the
callers; `Evict` is one round of the eviction loop, with the learning of the
limit at its head, `DrawInVain` a round of it in which no slot but that of `queue_cur` is
left to draw; `Load` the rest of `queue_testcase_get`; `TrimCase` is
`trim_case` with the file, the buffer, the accounting and
`ready_for_splicing_count`; `TrimAbort` its exit on `stop_soon`. Not modelled: the
mode without a cache, and `malloc` or `realloc` failing (both end the process,
except in `retake_mem`, where a `realloc` that shrinks is assumed to succeed).

**`QueueCull`**. A trace is the set of map bytes it hits; `exec_cksum` is the
trace it is the checksum of; `hits` is a history variable. The loops of
`update_bitmap_score` (`ScoreWin`, `ScoreLose`) and `cull_queue` (`CullGrab`,
`CullPass`) take one step per map byte. `DryRun*`, `Dedupe*` are
`perform_dry_run`; `BeginCycle`, `Rescore`, `EndCycle` the change of schedule under
`-Z`; `SkipEntry`, `FuzzOne`, `Recalibrate`, `TrimCase`, `StagesDone` and
`AbandonEntry` follow `fuzz_one_original`, where a recalibration may end in trimming or,
when its first run has no new bits, in `abandon_entry`; `Find` is `save_if_interesting`, from a
stage or from `sync_fuzzers`. `CreateAliasTable` is the set of entries the table
can yield; NaN is modelled by what it does to the comparisons. Abstractions:
a session (`Sessions`) is an ordinary one with schedule EXPLORE or one with `-Z`,
which passes through EXPLOIT, MMOPT and SEEK too, on a stable or unstable target; a cycle may end after
any iteration; products and quotients are exact; every trace has at least two
bytes, so that the logarithm of its size is positive; exits through FATAL other
than "no valid seed" are left out.

**`UserSeeds`**. A file is the set of its chunks that have been written, so that a
hole can be told from a prefix; times are whole seconds. `Post` to `Answer` are
the handler between its awaits. Its last `await`, `cachedQueue.get()`, may reject
(`Reject`), and so may that of any request for the queue or the crashes (`OtherRejects`):
Node then ends the process (`up`), every other handler stops where it is, and `afl-fuzz`,
which ignores SIGPIPE, scans on. When such a rejection happens is `QueueView`'s subject;
here it may happen at any time. `ScanBegin` to `ScanEnd` are
`read_foreign_testcases` between its system calls. The limit of `body-parser` on
the size of a request is not modelled. `sync_fuzzers` also looks at `out/user`, but
no digest has the form `id:...`, so it takes nothing from there.

**`Profile`**. Source text is a version number, a profile the build its blocks come
from and the version of its text. `NoLink` stands for `-c` and for a build that fails
before the pass, `LinkFails` for one that fails while the pass prints or after it; all of
them call `rewriteProfile` as well. The histories `last` and `failed` record the last
build whose pass ran and the builds that failed after it. Sources are edited between
builds only.

**`CoverageView`**. Blocks and bytes of the file have the same numbers. The static
file route is external: stat, then read in order, an error if the file turns out
shorter. Lines that belong to several blocks take the minimum on the page; the
model stays with blocks.

**`QueueView`**. The server's cache, two requests under way, one browser. Node and
Express are external: a rejection that no handler catches ends the process (Node
15 or later, Express 4). The history `readers` records in the place of which request a
file was read. The route for crashes has the same code and simpler files.

**`RunTarget`** is the abstract specification of a run: a request, then exactly one
outcome that the input of this request allows, or the end of the campaign.

**`ForkServer`** is the protocol that implements it. Inputs are numbered by their
request and `beh` says what the target does with each; pipes are sequences of
words. `Start*` is the handshake with its options (dictionary, shared memory, each
wanted or not), `WriteInput` to `ReadLate` are `afl_fsrv_run_target` between its reads
and writes, with `Expire` and `KillChild` apart so that anything may happen between
the time limit and the kill, `Stop` is the signal handler, `Srv*` the loop of `__afl_start_forkserver`, `Proc*` the process, which in persistent
mode stops itself after each of `MaxCnt` inputs. `INSTANCE RunTarget WITH state <-
AbstractState` is the refinement mapping: a request is busy from the write of its
input to the return of its outcome.

**`MainNode`** has one action per system call of `sync_fuzzers` on the files
`is_main_node`, and starts and the ends of instances: `Exit` the orderly one, which
removes the file, `Kill` and `Fatal` (FATAL and PFATAL; `at_exit` does not know of the
file), which leave it. **`SyncQueue`** has one exporter and one importer. A directory maps
ids to a test case, to whether the file is complete, and to its inode: rename and
`link` keep the inode, unlinking and creating gives another one, truncating does not.
The importer's mapping (`view`) is of an inode and turns from `whole` to `other` when
that inode is written, so that reading past the end follows from the system calls of
trimming and is not a rule of the model. The exporter's steps are those of saving,
trimming (with and without `no_unlink`), dying, and of the four functions of an in-place
resume, each of which may be cut short by the next death; the importer lists, opens the
names it has listed, runs and writes its number. History variables record what was
saved, run, met in the works, missed or at risk; only what lies below a file that the
importer counted can be missed.

**`Mutations`** has bytes as sets of bits, so that a flip is a symmetric difference, and
words as numbers with their carries and byte orders; it translates `could_be_bitflip`, `could_be_arith` and `could_be_interest`. **`Havoc`** is
the havoc and splicing stage with lengths and buffer sizes only, every offset being
drawn as in the code; an access outside of a buffer sets `outside`. **`FuzzOne`**
extends both: trimming, the stages one by one with their loop counters, effector map
and token collection, then the steps of `Havoc`. A target is a set of programs that
depend on groups of bytes; `loops` makes the unclassified trace differ from the
classified one, because which of the two is hashed decides what the stages learn.
`eff_map` starts with arbitrary contents, as its buffer is reused and not cleared; 2
stands for any value other than 0 and 1, since most stages ask whether a flag is not 0
and the token stages whether it is 1;
`maybe_add_auto` may leave equal elements of the dictionary in any order, as `qsort` may.

`*Proofs.tla` hold the theorems (section 5): one module per component, except that
`FuzzOneProofs` is about `Havoc` and `FuzzOne` and `DashboardProofs` about `Profile`,
`CoverageView` and `QueueView`. `MC*.tla` give values to constants where a `.cfg` cannot; the
other modules need none. `MCDashboard` puts those last three into one run: they share no
variable, so it lets one of them move and the other two stand still, which is enough for
properties that each speak of one. Definitions placed in front of another one with the same parameters
(`RequestIgnoresHit`, `NeverFree`, ...) are wrong variants of it, used to show that the
properties can fail; no specification uses them.

## 3. Runs

| Run | Bounds | Result |
|---|---|---|
| `test_cache` | four entries of one to three bytes, six bytes (the smallest cache `main()` accepts), four slots | all eight invariants hold: there is room for two entries but not for two of the largest size, so that learning, eviction, trimming and splicing meet in every order; the eviction loop is stuck only where two test cases of the largest size met |
| `cache_smallest` | three entries, six bytes | `VictimExists` fails (finding 3) |
| `queue_cull` | three map bytes, two overlapping traces, two lengths; either three seeds or paths, two speeds, one round per entry, or two paths, two rounds each, `-Z` and an unstable target | six invariants hold: two entries contend for the shared byte, a third takes slots from both; reference counts, traces and cover survive rescoring with a foreign trace |
| `user_seeds` | two posts of a small and a large seed or twice of one, three seconds, an end of the server at any time | faults only by posting again, only prefixes are run, every posted seed is run in full unless the server ended with its file incomplete |
| `dashboard` | builds: three in sequence, three edits; coverage: two blocks, two fetches; queue: two files, two requests | blocks and text are of the last pass, and of the program unless that build failed; an answer is never behind the last complete file, and the Explorer settles; a file is read at most once in the place of each request; every file comes to be shown and stays, and the page settles on what the cache holds |
| `fork_server` | three runs, a persistent process good for two, every handshake but one (below) | the pipes are in step, a stop leaves behind only a process whose id was never written, and `RunTarget` is implemented, liveness included |
| `main_node` | one `-M` and two `-S` instances, five starts, two deaths | a main node appears again and again or a dead one left its file; temporary ones yield; a file without a main node comes only from a kill, FATAL or PFATAL of its owner |
| `sync_queue` | three test cases, one trim, two deaths, both values of `no_unlink` | a death loses at most the file in the works and what `nuke_resume_dir` had removed; counted files were run or met in the works; nothing changes under a mapping unless `no_unlink` rewrites in place; without a death every test case is offered |
| `sync_resumed` | three test cases, one stop | `NothingNewMeansSeen` fails (finding 1) |
| `fuzz_one` | five-bit bytes, entries of one to seven bytes, `MAX_FILE` 8, three dependences, one of them with loops, a full dictionary | trimming keeps path and file; stages restore and count; tokens and effectors are what the runs show; a skipped value was run; havoc stays in its buffers; the call returns |
| `trim_shmem` | as `fuzz_one`, two entries of six bytes, shared memory | `TrimKeeps` fails (finding 2) |
| `stale_effectors` | as `fuzz_one`, one entry of seven bytes | `TokensReachEffects` fails (finding 4) |

Why the bounds suffice: the actions treat entries, files, requests and builds
alike, and the properties speak of one or two of them and a third that
interferes; a third map byte separates "overlaps" from "is contained in"; one
second in which nothing happens separates "same second" from "later". Three runs of
a process that is good for two give a fresh, a reused and a replaced process, each
after an outcome of any kind. Two secondaries are enough for a tie, the `-M` instance
for a third party; the second death hits an instance that found the traces of the
first. Three test cases tell "reversed" from "moved"; the second death falls into the
resume after the first. Five bits are the fewest with which a pattern of four fits
in a byte; the entries hold a carry across two bytes, equal neighbours, an entry too
short for words and one that reaches a full dictionary.

`MaxPaths` and the fields of a session, `MaxTime`, `MaxEdits`, `MaxRuns`, `MaxKills`,
`MaxDeaths`, `MaxStarts`, `MaxCases`, `MaxTrims` bound growth and appear as guards; `MaxCnt` is the
argument of `__AFL_LOOP`; `CalChances`, `MinToSkip` and the upper-case constants of
`FuzzOne` and `Havoc` are lowered values of constants in the code. Symmetry is used
for entries in runs without liveness. `main_node`, `sync_queue` and
`fuzz_one` may stop for good (all instances stopped, everything found and imported,
the call returned), so deadlock is not checked there.

## 4. Fairness

* `UserSeeds`: weak fairness of each request's handler while the server lives (the
  event loop runs what is ready; an uncaught rejection, of its own or of another handler,
  may end the process at any point, and then nothing is owed) and of the scan (`sync_fuzzers` is called again and again in
  the main loop). Neither users nor the clock are fair. The liveness result needs
  that a seed is posted finitely often, which the finite set of requests gives.
* `CoverageView`: weak fairness of each poll, since the interval timer never stops
  while the page is open. The fuzzer may stop anywhere, also while writing.
* `QueueView`: weak fairness of the requests, and of the fuzzer only to finish a
  write it has begun.

* `ForkServer`: weak fairness of `afl-fuzz` and of the server, which block only in
  `read`, `select` and `waitpid`. The process under test may hang and the user need
  not stop anything: that a request returns rests on the time limit and the kill.
* `MainNode`: weak fairness of each running instance's steps in `sync_fuzzers`, which
  the main loop calls again and again. Nobody is obliged to start, stop or die.
* `SyncQueue`: weak fairness of the importer for the same reason, and of the exporter
  only to finish a file it has begun.
* `FuzzOne`: one thread, so weak fairness of its next step.

## 5. What is proved

Every invariant that a passing run checks is also a theorem, except `SkippedWasRun` of
`FuzzOne` (below). The theorems hold for every value of the constants that satisfies the
`ASSUME` of the module, so for any number of entries, files, requests, instances, deaths,
map bytes or runs. Each proof module has one inductive invariant, `IInv` where not said
otherwise, which TLC checked first; one lemma per action (or group of actions that
leave the same things alone) shows that it is kept, and a theorem per property reads it
off. The hypotheses of single theorems are named below; each excludes exactly the
case in which the run or an observation of section 6 shows the property to fail.

**`TestCacheProofs`** (`TypeCorrect`, `SlotsAndBuffersAgree`, `SearchesInBounds`,
`BuffersUsable`, `BuffersMatchFiles`, `PartnersExist`, `CacheSizeExact`,
`EvictionStuckOnlyAtLimits`).
The properties are not inductive as they stand. `IInv` adds: slots in use lie
below the high-water mark and uninitialised ones at or above the limit
(`SlotBounds`); nothing below `smallest_free` is free (`SmallestFree`); only queued
entries are cached; between eviction and load the candidate slot is the
high-water mark or one just emptied (`GetState`); and
`ready_for_splicing_count` is exact (`ReadyExact`). The heart of the argument is
`FreeSlotBelowLimit`: while fewer slots are in use than the limit, counting
shows that one below it is free, so a search that starts at or below it ends
before it could meet garbage; `SmallestFree` says that starting at
`smallest_free` skips nothing. `SizeExact` counts bytes as pairs of entry and place, so
that adding, removing and trimming an entry are facts about the cardinality of
unions (`BytesAdd`, `BytesTrim`). `EvictionStuckOnlyAtLimits` has no
hypotheses beyond what `main()` asks for: without a victim at most `queue_cur` is cached
(`LoneBytes`), so the cache is full only if two test cases of `MAX_FILE` bytes meet in a
cache of exactly twice that, or if the limit on entries is below three, which
(`RoomForThree`) takes the user's choice or what was learnt from two such test cases.

**`QueueCullProofs`** (`TypeCorrect`, `RefCountsExact`, `TracesOfWinners`, `FavoredCovers`,
`CountersAgree`, `PendingFavoredBounded`, `WinnersHit`, `DuplicatesRemoved`). The properties
speak of moments between calls, while `update_bitmap_score` and `cull_queue` go byte by
byte, so `IInv` describes them in the middle: `CullCover` says that bytes taken off `temp_v`
are covered and those passed belong to a favoured entry or to nobody, `CullCounts` that the
counters cull resets agree so far; `Control` says where the two return to; `Fuzzed`
ties `was_fuzzed`, `disabled` and `fuzz_level`; `OwnTrace` follows the trace an entry is scored
with, without `-Z`; `Deduplication` says of the seeds passed so far that no enabled one has an
enabled twin and every one removed is represented by one that is not longer.
`SlotMoves` is the counting behind the reference counts: a byte that changes its
winner takes one from the old holder and gives one to the new. The types include that no
counter is decremented at zero, where its `u32` would wrap.

**`ForkServerProofs`** (`TypeCorrect`, `PipesInStep`, `LeavesOnlyUnannounced`,
`RefinesRunTarget`, `OutcomesOfInputs`), for every set of handshakes without the one that
`DeniesAlone` describes. `IInv` gives for each place in `afl_fsrv_run_target` what is in
the two pipes, where the server is and what has become of the process (`AtStart` to
`AtStatus`): e.g. while the fuzzer waits for the status, the server is still about to
wait, or has waited and will relay, or the status is in the pipe, and in each case the
process belongs to the current input unless it was killed for its time. `StopOk` covers
the state after a stop. `RefinesRunTarget` is the safety part of `ImplementsRunTarget`: by
`StepRefines` every step is one of `RunTarget` or leaves `AbstractState` alone. Its fairness
stays with TLC.

**`MainNodeProofs`** (`TypeCorrect`, `StaleOnlyByDeaths`): the invariant adds that only a
running instance is inside `sync_fuzzers`; otherwise an election could set the flag of a
dead one.

**`SyncQueueProofs`** (`SavedStaysOnDisk`, `CountedWereSeen`, `MappedFilesStay`). `Store` says
for each phase of the exporter which ids are in `queue/`, which of them in full, and
that what was saved and is not at risk is in `queue_buf` or, in the phases of a resume
before that is built, in the directory the next phase reads. `Counting` says that a listing
in progress is sorted and that what lies below a listed file without being listed was
met before: listings have gaps while a file is replaced, and the count jumps over them.
`Untouched` says that without `no_unlink` the file being written has an inode of its own,
which no other name and no mapping has (`Apart`): a new inode is unlike all that are named
or mapped (`Fresh`), and what is linked or renamed during a resume is complete.

**`UserSeedsProofs`** (`FaultsOnlyByRepost`, `OnlyPrefixesRun`): as long as no content was
posted twice, one handler writes a file, so it holds a prefix of its seed as long as the
handler's offset (`FileOk`), and the size the scan has seen is at most the present one
(`StatOk`).

**`DashboardProofs`** (`FilesReadOnceEach`, `AnswersKeepUp`, `SourceMapFollowsPass`). The
three modules share no variable. `QueueInv`: whoever has read a file in the place of a
request holds it still or has put it into the cache, and a later request in that place
found it there (`ReaderOk`). `CoverageInv`: what was once complete on disk is
covered in memory, in the file as far as it is written and in an answer as far as it is
read; it rests on `CoverageViewAssumption`. `ProfileInv`: what each step of the one
build under way has left on disk, and of which pass (`Belongs`, `LastLinked`, `Torn`); it
supposes `~Parallel`.

**`FuzzOneProofs`** (`HavocStaysInBounds`, `FuzzOneStaysInBounds`, `TrimmingKeepsPath`,
`StagesStartFromEntry`, `EffectorsAreFlagged`, `TokensAreExactlyRuns`).
`HavocInBounds` alone is not inductive: `HInv` adds the legal lengths of entry and input once a
call has begun, and that `out_buf` is large enough for the input whenever the stage is
entered, while a stack is applied and while the next splice is prepared. The facts that
carry it are `RandBelow` and `BlockLen` (a drawn offset is below its limit, also for limits 0
and 1; a block is between 1 and its limit), `TweakedFits` and `InsertedFits` for the two
ways in which a tweak changes the length, and `InPlaceFits` for those that do not.
`HavocStaysInBounds` is about any number of entries that share the two buffers,
`FuzzOneStaysInBounds` about a whole call: trimming starts behind the first chunk, so it
leaves a byte (`EntryOk`, `CutLen`). `TrimmingKeepsPath` supposes `~UseShmem` (finding 2).

The other three are about the deterministic stages and build on one invariant.
`DetInv` describes every iteration: `LoopOk` where the loops are; `BufferOk` how far
`out_buf` may be from the entry in the middle of a position, not at all before its first
iteration, by the word saved in `orig` in the arithmetic and integer stages, by the longest
token so far in the token stages; `CountOk` that `stage_max` exceeds `stage_cur` by the
iterations to come. `StagesExact` speaks of the ends only and does not carry itself through
a position. `FlipBitsTwice`, `FlipBytesTwice` and `PutBack` are what the ways to restore
`out_buf` rest on; `TokensUndone` needs tokens in order of length, which `TokensOk` keeps for
the automatic dictionary: `OrderedOk` and `AutoOk` show it for every order in which `qsort`
may leave equal elements. The assumption on `Cases` asks it of the dictionary that earlier
entries left. `EffInv` says for each position `flip8` has passed that its flag is set if its
run took another path, and that `eff_cnt` is at most the number of flags set (`OneMoreFlag`,
`SetupOk`), which is at most the size of the map. `RunsInv` says that `tok` is the run at the
end of the checksums so far (`OpenRun`: where it starts, that it cannot be extended to the
left, what was collected of it) and that the runs that ended before it have been offered;
`TokensOver` and `TokensInTheEnd` show what the next checksum adds, in the middle and at the
end of the input, and `NextBit` when a byte is over.

Only model-checked:

* All liveness (`PostedSeedRuns`, `ViewSettles`, `EveryFileStaysShown`,
  `PageSettlesOnCache`, `MainAgain`, `TempsYield`, `EveryCaseOffered`, `FuzzOneEnds` and the fairness of `ImplementsRunTarget`):
  liveness under fairness and ENABLED are out of the prover's reach.
* `SkippedWasRun` of `FuzzOne`: it compares what `could_be_bitflip`, `could_be_arith` and
  `could_be_interest` say of a word with the candidates of all earlier stages. That is the
  arithmetic of carries, powers of two and byte orders, for which the provers have no
  decision procedure, and the number a sequence of bytes stands for is a recursive
  function, about which nothing can be proved without induction.
* That `next_pow2` has a result: it is a set of one element in the model, and the theorems
  about trimming do not depend on how many it has.

## 6. Findings

1. `sync_resumed`: an in-place resume numbers the queue in reverse order, because
   `read_testcases` goes through its listing from the end, while an importer keeps
   only a count. Test cases it had not seen get ids below its count and are never
   imported.
2. `trim_shmem`: with shared memory test cases `write_with_gap` copies the tail over
   the head. The target runs on another input than the one `trim_case` keeps, and an
   entry can be trimmed to one with another path.
3. `cache_smallest`: `main()` accepts a cache of `2 * MAX_FILE` bytes, but
   `queue_testcase_get` takes a cache for full that would hold exactly its limit. With
   an entry of `MAX_FILE` bytes in use and a splicing partner of that length wanted, the
   eviction loop draws the one slot it may not evict for ever.
4. `stale_effectors`: the effector map is not cleared when it is allocated, and its
   buffer also served for a copy of `virgin_bits`. `flip8` sets a flag only where it
   finds a 0, and the token stages look for a 1, so a byte with another old value counts
   as flagged for all stages but these, which leave its tokens out.

Seen while modelling. These have no run of their own; the definition that would show
one is named where there is one:

* *Cache*: `AFL_TESTCACHE_ENTRIES` below three, which nothing checks, lets the eviction
  loop run for ever as well (`VictimExists` with `MaxCacheEntries` 2); in the smallest cache
  it also does after a limit of two entries was learnt.
* *Queue*: an entry whose calibration failed, or a queue without slot holders, makes
  all weights NaN, and disabled entries are drawn (`DisabledNotFuzzed`); a disabled
  duplicate stays in `pending_favored` (`PendingFavoredBounds` states the exact
  slack); with `-Z` entries are rescored with the trace of the last run, so
  `WinnersHitTheirByte` excepts these sessions.
* *User seeds*: a scan with nothing new resets the time of the last seed to 0, so the
  next scan runs all seeds again. `PostedSeedRuns` relies on it: with the time kept
  (`StartFromSeen`), a seed finished within the second of the scan is lost.
* *Dashboard*: a link that fails after the pass leaves the source map of a program that
  was never written beside the old program (`SourceMapMatches`; `SourceMapOfLastPass`
  states what does hold), and builds that overlap leave one that does not parse or belongs
  to another build (`SourceMapOfLastPass` with `Parallel`); while `virgin_bits` is missing
  or being rewritten the Explorer shows blocks as covered that were never hit
  (`ShownIsCovered`); a request before the queue directory exists, or during a trim,
  ends the server (`ServerSurvives`), and with it every post that is half written.
* *Fork server*: a target that offers a dictionary but no shared memory, to a fork
  server that takes neither (CmpLog, afl-analyze), takes the
  denial itself for the first request (`afl-forkserver.c:733`, `already_read_first`
  in the runtime); from then on answers belong to the request before.
  `OutcomeOfInput` fails for `CmplogHandshakes`. This is the handshake that `DeniesAlone`
  describes; the run `fork_server` and the theorems leave it out.
* *Parallel campaign*: secondaries that scan in lockstep elect themselves and step
  down together, which is why `MainAgain` says "again and again" and not "from then
  on"; a main node that was killed or ended by FATAL leaves its file and blocks elections; a death
  inside `nuke_resume_dir` leaves a part of `_resume` that the next start takes for the
  queue.
* *Stages*: after a run without new bits the trace stays unclassified
  (`afl-fuzz-bitmap.c:489`), so that a loop of three or more rounds makes bytes without
  effect look effective and collects tokens that are none (`EffectorsFlagged` and
  `TokensAreRuns` state what does hold); `could_be_bitflip` accepts patterns of two and four bits across the boundary of two
  bytes which the stages, walking from the most significant bit, never tried
  (`SkippedWasRun` excepts them); a splice copies from the start of the partner and
  not from the split; the insertion of tokens reads one byte past the
  input at its end (`afl-fuzz-one.c:1713`; `HavocInBounds` is about havoc only); with `no_unlink` a short write is continued from the start of
  the buffer.

## 7. Plan

Done, in this order: `TestCache` with its proofs, `UserSeeds`, `QueueCull`, `Profile`,
`CoverageView`, `QueueView`, `ForkServer` with `RunTarget`, `MainNode`, `SyncQueue`,
`Mutations`, `Havoc`, `FuzzOne`; then the proofs of section 5. Next:

1. `SkippedWasRun` stage by stage: first that what `could_be_bitflip` accepts within one
   byte was flipped before, which needs words of one byte only.
2. An abstract cache (a set of entries within a budget) that `TestCache` implements,
   and an abstract cover that `QueueCull` implements, each with the refinement proved
   from the invariants that are there.
3. The bitmap: `has_new_bits`, the count classes and the deduplication of crashes and
   hangs as operators against reference definitions.

## 8. Not modelled

* Custom mutators, MOpt, CmpLog and RedQueen: modes that `aflv` does not switch on;
  numeric heuristics and calls into user code.
* The AFLFast schedules and `calculate_score`: floating point weights that steer how
  often an entry is fuzzed and nothing else. The retries inside `calibrate_case` are
  one step with any of its results.
* The arithmetic of `virgin_bits` and of the count classes: a trace is a set of bytes
  or a path.
* Statistics, screen, plot and statistics pages: output that nothing reads back.
* The compilers and instrumentation passes, except the hook that prints the source
  map: rewriting of arguments and of LLVM code.
* The other tools and modes of AFL++ (frida, qemu, unicorn, utils) and
  vendored code (radamsa, dlmalloc, xxhash). They make up most of the
  lines of the repository; the modules stand for a small share of all lines, but for
  the code that carries a campaign started by `aflv`.

Reasons per component are in `PROJECT.json`.
