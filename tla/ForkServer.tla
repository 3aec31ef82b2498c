----------------------------- MODULE ForkServer -----------------------------
(***************************************************************************)
(* afl-fuzz, the fork server inside the target and the process under test. *)
(* afl-fuzz (afl-forkserver.c) writes a word per run to the control pipe   *)
(* and reads two from the status pipe, the process id and its wait status; *)
(* the server (__afl_start_forkserver in afl-compiler-rt.o.c) forks, or    *)
(* wakes the stopped process in persistent mode, waits and relays.  A time *)
(* limit, a kill and a stop by the user can fall between any two of their  *)
(* steps.  kill_signal is SIGKILL, its default.                            *)
(*                                                                         *)
(* Inputs are numbered by the request they are written for.  A pipe is a   *)
(* sequence of words; it takes any number of them, as four-byte writes do  *)
(* not block here.  Process ids are not used again.                        *)
(***************************************************************************)
EXTENDS Naturals, Sequences

CONSTANTS
  MaxRuns,       \* requests of a campaign (-E)
  Persistent,    \* is_persistent: the target uses __AFL_LOOP
  MaxCnt,        \* its argument: inputs per process
  Handshakes     \* the handshakes to consider, see HandshakeType

(* dict, shm: the target has a dictionary, or takes its input from shared  *)
(* memory.  support: afl-fuzz has set up that memory.  extra: the fork     *)
(* server belongs to afl-fuzz itself (add_extra_func).  ignore:            *)
(* AFL_NO_AUTODICT is set.                                                 *)
HandshakeType ==
  [dict : BOOLEAN, shm : BOOLEAN, support : BOOLEAN, extra : BOOLEAN,
   ignore : BOOLEAN]

(* A target that offers a dictionary alone to a fork server that does not  *)
(* take one, which only the fork server of CmpLog and afl-analyze do.      *)
DeniesAlone(h) == h.dict /\ ~h.shm /\ ~h.ignore /\ ~h.extra

ASSUME ForkServerAssumption ==
  /\ MaxRuns \in Nat
  /\ MaxCnt \in Nat \ {0}
  /\ Persistent \in BOOLEAN
  /\ Handshakes \subseteq HandshakeType

VARIABLES
  beh,       \* what the target does with input number n
  run,       \* number of the input written last
  outcome,   \* what the last request returned
  opt,       \* the handshake at hand
  fuz,       \* afl-fuzz: pc, child_pid, last_run_timed_out, stop_soon
  ctl, st,   \* the two pipes
  srv,       \* the fork server: pc, child_stopped, was_killed, ...
  proc,      \* the last process forked: pid, state, input it works on
  trace      \* inputs whose runs have written to trace_bits

vars == <<beh, run, outcome, opt, fuz, ctl, st, srv, proc, trace>>

Alive == {"fresh", "working", "stopped"}
Zombie == {"exited", "crashed", "killed"}

ProcType ==
  [pid : Nat, state : {"none", "reaped"} \cup Alive \cup Zombie,
   input : 0 .. MaxRuns, cycle_cnt : 0 .. MaxCnt]

Word == [enabled : BOOLEAN, shm : BOOLEAN, dict : BOOLEAN, killed : BOOLEAN]

RunWord(k) == [enabled |-> FALSE, shm |-> FALSE, dict |-> FALSE, killed |-> k]

OptWord(s, d) == [enabled |-> TRUE, shm |-> s, dict |-> d, killed |-> TRUE]

Init ==
  /\ beh \in [0 .. MaxRuns -> {"return", "crash", "hang"}]
  /\ run = 0
  /\ outcome = "none"
  /\ opt \in Handshakes
  /\ fuz = [pc |-> "start", child_pid |-> 0, timed_out |-> FALSE,
            stop_soon |-> FALSE]
  /\ ctl = <<>>
  /\ st = <<>>
  /\ srv = [pc |-> "boot", stopped |-> FALSE, killed |-> FALSE,
            first |-> FALSE, status |-> "none"]
  /\ proc = [pid |-> 0, state |-> "none", input |-> 0, cycle_cnt |-> 0]
  /\ trace = {}
-----------------------------------------------------------------------------
(***************************************************************************)
(* Signals.  A process that is dead but not yet waited for, and one that   *)
(* has been waited for, is not hit by a kill any more.                     *)
(***************************************************************************)
Kill(p) ==
  IF p > 0 /\ p = proc.pid /\ proc.state \in Alive
    THEN [proc EXCEPT !.state = "killed"]
    ELSE proc

(* srv.pc keeps what a killed server was doing. *)
Dead == {"exit", "killed", "killed_unannounced"}

KillServer ==
  CASE srv.pc \in Dead      -> srv
    [] srv.pc = "announce"  -> [srv EXCEPT !.pc = "killed_unannounced"]
    [] OTHER                -> [srv EXCEPT !.pc = "killed"]

(* FATAL, with the atexit handler; a read or write that fails after a stop *)
(* only leaves run_target.                                                 *)
Fatal ==
  /\ fuz' = [fuz EXCEPT !.pc = "ended"]
  /\ srv' = KillServer

FailRun ==
  IF fuz.stop_soon THEN fuz' = [fuz EXCEPT !.pc = "stopping"] /\ UNCHANGED srv
                   ELSE Fatal

Eof == st = <<>> /\ srv.pc \in Dead
-----------------------------------------------------------------------------
(***************************************************************************)
(* The fork server in the target                                           *)
(***************************************************************************)
SrvHello ==
  /\ srv.pc = "boot"
  /\ st' = Append(st, [kind |-> "hello"])
  /\ srv' = [srv EXCEPT !.pc = IF opt.shm \/ opt.dict THEN "options"
                                                      ELSE "loop"]
  /\ UNCHANGED <<beh, run, outcome, opt, fuz, ctl, proc, trace>>

(* The word after a hello that offered something: an answer, or the first  *)
(* request of a fuzzer that did not understand the offer.                  *)
NotAnAnswer(w) == ~(w.enabled /\ w.shm)

SrvOptions ==
  /\ srv.pc = "options"
  /\ ctl # <<>>
  /\ LET w == Head(ctl)
         send == w.enabled /\ w.dict /\ opt.dict
     IN /\ ctl' = Tail(ctl)
        /\ st' = IF send THEN Append(st, [kind |-> "dict"]) ELSE st
        /\ srv' = [srv EXCEPT !.pc = "loop",
                              !.killed = w.killed,
                              !.first = ~send /\ NotAnAnswer(w)]
  /\ UNCHANGED <<beh, run, outcome, opt, fuz, proc, trace>>

(* __afl_map_shm_fuzz fails: it reports an error and exits. *)
SrvShmFails ==
  /\ srv.pc = "options"
  /\ ctl # <<>>
  /\ Head(ctl).enabled /\ Head(ctl).shm
  /\ ctl' = Tail(ctl)
  /\ st' = Append(st, [kind |-> "error"])
  /\ srv' = [srv EXCEPT !.pc = "exit"]
  /\ UNCHANGED <<beh, run, outcome, opt, fuz, proc, trace>>

SrvRead ==
  /\ srv.pc = "loop"
  /\ \/ /\ srv.first
        /\ srv' = [srv EXCEPT !.pc = "serve", !.first = FALSE]
        /\ UNCHANGED ctl
     \/ /\ ~srv.first
        /\ ctl # <<>>
        /\ srv' = [srv EXCEPT !.pc = "serve", !.killed = Head(ctl).killed]
        /\ ctl' = Tail(ctl)
  /\ UNCHANGED <<beh, run, outcome, opt, fuz, st, proc, trace>>

(* What if the server did not look at was_killed? *)
NeverWriteOff == FALSE

(* if (child_stopped && was_killed): the blocking waitpid. *)
MustWriteOff == srv.stopped /\ srv.killed

SrvWriteOff ==
  /\ srv.pc = "serve"
  /\ MustWriteOff
  /\ proc.state \in Zombie
  /\ proc' = [proc EXCEPT !.state = "reaped"]
  /\ srv' = [srv EXCEPT !.stopped = FALSE]
  /\ UNCHANGED <<beh, run, outcome, opt, fuz, ctl, st, trace>>

SrvFork ==
  /\ srv.pc = "serve"
  /\ ~srv.stopped
  /\ proc' = [pid |-> proc.pid + 1, state |-> "fresh", input |-> 0,
              cycle_cnt |-> MaxCnt]
  /\ srv' = [srv EXCEPT !.pc = "announce"]
  /\ UNCHANGED <<beh, run, outcome, opt, fuz, ctl, st, trace>>

SrvForkFails ==
  /\ srv.pc = "serve"
  /\ ~srv.stopped
  /\ srv' = [srv EXCEPT !.pc = "exit"]
  /\ UNCHANGED <<beh, run, outcome, opt, fuz, ctl, st, proc, trace>>

(* SIGCONT; it does nothing to a process that has been killed. *)
SrvContinue ==
  /\ srv.pc = "serve"
  /\ srv.stopped /\ ~MustWriteOff
  /\ proc' = IF proc.state = "stopped" THEN [proc EXCEPT !.state = "fresh"]
                                       ELSE proc
  /\ srv' = [srv EXCEPT !.pc = "announce", !.stopped = FALSE]
  /\ UNCHANGED <<beh, run, outcome, opt, fuz, ctl, st, trace>>

SrvAnnounce ==
  /\ srv.pc = "announce"
  /\ st' = Append(st, [kind |-> "pid", pid |-> proc.pid])
  /\ srv' = [srv EXCEPT !.pc = "wait"]
  /\ UNCHANGED <<beh, run, outcome, opt, fuz, ctl, proc, trace>>

(* waitpid with WUNTRACED in persistent mode.  It reports a stop once. *)
SrvWait ==
  /\ srv.pc = "wait"
  /\ proc.state \in Zombie \/ proc.state = "stopped"
  /\ srv' = [srv EXCEPT !.pc = "relay",
                        !.stopped = (proc.state = "stopped"),
                        !.status = proc.state]
  /\ proc' = IF proc.state \in Zombie THEN [proc EXCEPT !.state = "reaped"]
                                      ELSE proc
  /\ UNCHANGED <<beh, run, outcome, opt, fuz, ctl, st, trace>>

SrvRelay ==
  /\ srv.pc = "relay"
  /\ st' = Append(st, [kind |-> "status", status |-> srv.status])
  /\ srv' = [srv EXCEPT !.pc = "loop"]
  /\ UNCHANGED <<beh, run, outcome, opt, fuz, ctl, proc, trace>>
-----------------------------------------------------------------------------
(***************************************************************************)
(* The process under test.  Between two inputs of a persistent process     *)
(* lies __afl_persistent_loop, which stops it unless max_cnt is used up.   *)
(***************************************************************************)
ProcReads ==
  /\ proc.state = "fresh"
  /\ proc' = [proc EXCEPT !.state = "working", !.input = run]
  /\ trace' = trace \cup {run}
  /\ UNCHANGED <<beh, run, outcome, opt, fuz, ctl, st, srv>>

ProcReturns ==
  /\ proc.state = "working"
  /\ beh[proc.input] = "return"
  /\ proc' = IF Persistent /\ proc.cycle_cnt > 1
               THEN [proc EXCEPT !.state = "stopped",
                                 !.cycle_cnt = proc.cycle_cnt - 1]
               ELSE [proc EXCEPT !.state = "exited"]
  /\ UNCHANGED <<beh, run, outcome, opt, fuz, ctl, st, srv, trace>>

ProcCrashes ==
  /\ proc.state = "working"
  /\ beh[proc.input] = "crash"
  /\ proc' = [proc EXCEPT !.state = "crashed"]
  /\ UNCHANGED <<beh, run, outcome, opt, fuz, ctl, st, srv, trace>>
-----------------------------------------------------------------------------
(***************************************************************************)
(* afl_fsrv_start                                                          *)
(***************************************************************************)
StartFails ==
  /\ fuz.pc = "start"
  /\ st = <<>> \/ fuz.stop_soon     \* init_tmout may run out
  /\ Fatal
  /\ UNCHANGED <<beh, run, outcome, opt, ctl, st, proc, trace>>

(* What if shared memory were confirmed by itself in every case? *)
RepliesTwice ==
  (IF opt.shm THEN <<OptWord(TRUE, FALSE)>> ELSE <<>>) \o
  (IF opt.dict /\ ~opt.ignore THEN <<OptWord(opt.shm, opt.extra)>> ELSE <<>>)

(* The words written in answer to a hello. *)
Replies ==
  IF opt.dict /\ ~opt.ignore
    THEN <<OptWord(opt.shm, opt.extra)>>
    ELSE IF opt.shm THEN <<OptWord(TRUE, FALSE)>> ELSE <<>>

StartHello ==
  /\ fuz.pc = "start"
  /\ ~fuz.stop_soon
  /\ st # <<>>
  /\ st' = Tail(st)
  /\ \/ /\ opt.shm /\ ~opt.support
        /\ Fatal
        /\ UNCHANGED ctl
     \/ /\ opt.shm => opt.support
        /\ ctl' = ctl \o Replies
        /\ fuz' = [fuz EXCEPT !.pc = IF opt.dict /\ ~opt.ignore /\ opt.extra
                                       THEN "dict" ELSE "idle"]
        /\ UNCHANGED srv
  /\ UNCHANGED <<beh, run, outcome, opt, proc, trace>>

(* Reads the length and the dictionary; anything else is FATAL. *)
StartDict ==
  /\ fuz.pc = "dict"
  /\ \/ /\ st # <<>>
        /\ Head(st).kind = "dict"
        /\ fuz' = [fuz EXCEPT !.pc = "idle"]
        /\ st' = Tail(st)
        /\ UNCHANGED srv
     \/ /\ Eof \/ (st # <<>> /\ Head(st).kind = "error")
        /\ Fatal
        /\ UNCHANGED st
  /\ UNCHANGED <<beh, run, outcome, opt, ctl, proc, trace>>
-----------------------------------------------------------------------------
(***************************************************************************)
(* afl_fsrv_run_target                                                     *)
(***************************************************************************)
(* write_to_testcase.  A stop is noticed between two runs. *)
WriteInput ==
  /\ fuz.pc = "idle"
  /\ ~fuz.stop_soon
  /\ run < MaxRuns
  /\ run' = run + 1
  /\ outcome' = "none"
  /\ fuz' = [fuz EXCEPT !.pc = "request"]
  /\ UNCHANGED <<beh, opt, ctl, st, srv, proc, trace>>

RequestRun ==
  /\ fuz.pc = "request"
  /\ trace' = {}
  /\ \/ /\ srv.pc \in Dead
        /\ FailRun
        /\ UNCHANGED ctl
     \/ /\ srv.pc \notin Dead
        /\ ctl' = Append(ctl, RunWord(fuz.timed_out))
        /\ fuz' = [fuz EXCEPT !.pc = "pid", !.timed_out = FALSE]
        /\ UNCHANGED srv
  /\ UNCHANGED <<beh, run, outcome, opt, st, proc>>

ReadPid ==
  /\ fuz.pc = "pid"
  /\ \/ /\ st # <<>>
        /\ Head(st).kind = "pid"
        /\ fuz' = [fuz EXCEPT !.pc = "status", !.child_pid = Head(st).pid]
        /\ st' = Tail(st)
        /\ UNCHANGED srv
     \/ /\ Eof \/ (st # <<>> /\ Head(st).kind = "error")
        /\ FailRun
        /\ UNCHANGED st
  /\ UNCHANGED <<beh, run, outcome, opt, ctl, proc, trace>>

(* What if child_pid were cleared after every run? *)
NeverKeepsPid(status) == FALSE

(* WIFSTOPPED keeps child_pid, for the handler of the stop. *)
KeepsPid(status) == status = "stopped"

(* How the run is reported. *)
Classify(status) ==
  IF fuz.timed_out THEN "TMOUT"
  ELSE IF status \in {"crashed", "killed"} THEN "CRASH" ELSE "OK"

FinishRun ==
  LET status == Head(st).status
  IN /\ outcome' = Classify(status)
     /\ fuz' = [fuz EXCEPT !.pc = "idle",
                           !.child_pid = IF KeepsPid(status) THEN @ ELSE 0]
     /\ st' = Tail(st)

(* read_s32_timed has something to read. *)
ReadStatus ==
  /\ fuz.pc = "status"
  /\ \/ /\ ~fuz.stop_soon
        /\ st # <<>>
        /\ FinishRun
        /\ UNCHANGED srv
     \/ /\ Eof \/ (st # <<>> /\ fuz.stop_soon)
        /\ FailRun
        /\ UNCHANGED <<st, outcome>>
  /\ UNCHANGED <<beh, run, opt, ctl, proc, trace>>

(* select runs out of time; anything may happen before the kill. *)
Expire ==
  /\ fuz.pc = "status"
  /\ st = <<>>
  /\ fuz' = [fuz EXCEPT !.pc = "kill"]
  /\ UNCHANGED <<beh, run, outcome, opt, ctl, st, srv, proc, trace>>

KillChild ==
  /\ fuz.pc = "kill"
  /\ proc' = Kill(fuz.child_pid)
  /\ fuz' = [fuz EXCEPT !.pc = "late", !.timed_out = TRUE]
  /\ UNCHANGED <<beh, run, outcome, opt, ctl, st, srv, trace>>

ReadLate ==
  /\ fuz.pc = "late"
  /\ \/ /\ st # <<>>
        /\ FinishRun
        /\ UNCHANGED srv
     \/ /\ Eof
        /\ FailRun
        /\ UNCHANGED <<st, outcome>>
  /\ UNCHANGED <<beh, run, opt, ctl, proc, trace>>
-----------------------------------------------------------------------------
(***************************************************************************)
(* Stopping                                                                *)
(***************************************************************************)
(* handle_stop_sig, at any point of the above. *)
Stop ==
  /\ ~fuz.stop_soon
  /\ fuz.pc # "ended"
  /\ fuz' = [fuz EXCEPT !.stop_soon = TRUE]
  /\ proc' = Kill(fuz.child_pid)
  /\ srv' = KillServer
  /\ UNCHANGED <<beh, run, outcome, opt, ctl, st, trace>>

(* The end of main: afl_fsrv_deinit. *)
Deinit ==
  /\ \/ fuz.pc = "stopping"
     \/ fuz.pc = "idle" /\ (fuz.stop_soon \/ run = MaxRuns)
  /\ fuz' = [fuz EXCEPT !.pc = "ended", !.child_pid = 0]
  /\ proc' = Kill(fuz.child_pid)
  /\ srv' = KillServer
  /\ UNCHANGED <<beh, run, outcome, opt, ctl, st, trace>>

Ended == fuz.pc = "ended" /\ UNCHANGED vars

Server ==
  \/ SrvHello \/ SrvOptions \/ SrvShmFails \/ SrvRead \/ SrvWriteOff
  \/ SrvFork \/ SrvForkFails \/ SrvContinue \/ SrvAnnounce \/ SrvWait
  \/ SrvRelay

Process == ProcReads \/ ProcReturns \/ ProcCrashes

Fuzzer ==
  \/ StartFails \/ StartHello \/ StartDict
  \/ WriteInput \/ RequestRun \/ ReadPid \/ ReadStatus \/ Expire \/ KillChild \/ ReadLate
  \/ Deinit

Next == Server \/ Process \/ Fuzzer \/ Stop \/ Ended

(* afl-fuzz and the server run whenever they can, and select returns in    *)
(* time.  Nothing is assumed of the process under test or of the user.     *)
Spec ==
  /\ Init
  /\ [][Next]_vars
  /\ WF_vars(Fuzzer)
  /\ WF_vars(Server)
-----------------------------------------------------------------------------
(***************************************************************************)
(* Properties                                                              *)
(***************************************************************************)
TypeOK ==
  /\ opt \in Handshakes
  /\ fuz.pc \in {"start", "dict", "idle", "request", "pid", "status", "kill",
                 "late", "stopping", "ended"}
  /\ srv.pc \in Dead \cup {"boot", "options", "loop", "serve", "announce",
                          "wait", "relay"}
  /\ proc \in ProcType
  /\ ctl \in Seq(Word)
  /\ trace \subseteq 0 .. MaxRuns

(* Between two runs nothing is left in either pipe that a later read could *)
(* take for its answer, except the reply to the hello before the server    *)
(* has read it; the process under test is not running, so that nobody      *)
(* writes to trace_bits while afl-fuzz looks at it; and only the input of  *)
(* the last run has written there.  The race of run_target's kill with a   *)
(* process that stops or exits at the same moment must not break this.     *)
InStep ==
  fuz.pc = "idle" /\ ~fuz.stop_soon /\ srv.pc \notin Dead =>
    /\ st = <<>>
    /\ ctl # <<>> => srv.pc = "options" /\ Len(ctl) = 1 /\ ctl[1].enabled
    /\ srv.pc \in {"loop", "options"} /\ ~srv.first
    /\ proc.state \notin {"fresh", "working"}
    /\ trace \subseteq {run}

(* When afl-fuzz has been stopped, no process under test is left behind,   *)
(* but for one case: the server was killed after its fork and before it    *)
(* had written the process id, which afl-fuzz therefore never learnt.      *)
OnlyUnannouncedLeft ==
  fuz.pc = "ended" /\ fuz.stop_soon /\ proc.state \in Alive =>
    srv.pc = "killed_unannounced"

(* To its callers fuzz_run_target is one run, one outcome: RunTarget.      *)
AbstractState ==
  CASE fuz.pc \in {"start", "dict", "idle"} -> "idle"
    [] fuz.pc = "ended"                     -> "ended"
    [] OTHER                                -> "busy"

Abstract == INSTANCE RunTarget WITH state <- AbstractState

(* Whatever the interleaving of time limit, kill, exit and stop, every     *)
(* request is answered with the outcome of its own input, in order, and    *)
(* every run_target returns, whatever the process under test does.         *)
ImplementsRunTarget == Abstract!Spec

(* An outcome is that of the input it was asked for ("Execute target       *)
(* application, monitoring for timeouts.  Return status information.").    *)
OutcomeOfInput ==
  /\ outcome = "OK" => beh[run] = "return"
  /\ outcome = "CRASH" => beh[run] = "crash"
=============================================================================
