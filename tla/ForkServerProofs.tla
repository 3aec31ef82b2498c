-------------------------- MODULE ForkServerProofs --------------------------
(***************************************************************************)
(* Proofs about ForkServer: the pipes stay in step, and to its callers     *)
(* fuzz_run_target is RunTarget, for any number of runs, persistent or     *)
(* not, and every handshake but the one that DeniesAlone describes.        *)
(***************************************************************************)
EXTENDS ForkServer, TLAPS

(***************************************************************************)
(* The inductive invariant.  As long as afl-fuzz has not been stopped, it  *)
(* gives for each place in run_target what is in the pipes, where the      *)
(* server is and what has become of the process.                           *)
(***************************************************************************)
FuzType ==
  [pc : {"start", "dict", "idle", "request", "pid", "status", "kill", "late",
         "stopping", "ended"},
   child_pid : Nat, timed_out : BOOLEAN, stop_soon : BOOLEAN]

SrvType ==
  [pc : Dead \cup {"boot", "options", "loop", "serve", "announce", "wait", "relay"},
   stopped : BOOLEAN, killed : BOOLEAN, first : BOOLEAN,
   status : {"none", "stopped"} \cup Zombie]

Answer ==
  [kind : {"hello", "dict", "error"}] \cup [kind : {"pid"}, pid : Nat]
  \cup [kind : {"status"}, status : {"none", "stopped"} \cup Zombie]

Types ==
  /\ fuz \in FuzType
  /\ srv \in SrvType
  /\ proc \in ProcType
  /\ run \in 0 .. MaxRuns
  /\ opt \in Handshakes
  /\ ctl \in Seq(Word)
  /\ st \in Seq(Answer)
  /\ trace \subseteq 0 .. MaxRuns

PidWord == [kind |-> "pid", pid |-> proc.pid]
StatusWord(s) == [kind |-> "status", status |-> s]
Error == [kind |-> "error"]

(* No run is under way.  A process the server has seen stop is stopped     *)
(* still, or has been killed after its time (k), and its id is known.      *)
Quiet(k) ==
  IF srv.stopped
    THEN /\ proc.state = IF k THEN "killed" ELSE "stopped"
         /\ proc.pid > 0 /\ fuz.child_pid = proc.pid
    ELSE proc.state \in {"none", "reaped"}

(* The process works on the current input, or has done so. *)
Serving ==
  /\ ~srv.stopped
  /\ proc.pid > 0
  /\ proc.state \in Alive \cup Zombie
  /\ proc.state \in {"working", "stopped", "exited", "crashed"} => proc.input = run
  /\ proc.state \in {"stopped", "exited"} => beh[run] = "return"
  /\ proc.state = "crashed" => beh[run] = "crash"
  /\ proc.state = "killed" => fuz.pc = "late"
  /\ fuz.pc = "late" => proc.state \in Zombie

(* waitpid has returned s. *)
Waited(s) ==
  /\ proc.pid > 0
  /\ s \in Zombie \cup {"stopped"}
  /\ s \in {"stopped", "exited"} => beh[run] = "return"
  /\ s = "crashed" => beh[run] = "crash"
  /\ s = "killed" => fuz.pc = "late"
  /\ srv.stopped = (s = "stopped")
  /\ proc.state = IF s # "stopped" THEN "reaped"
                  ELSE IF fuz.pc = "late" THEN "killed" ELSE "stopped"

(* The server is ready for a request, or will be once it has read the      *)
(* answer to its hello; rest is what follows that answer.                  *)
Ready(k, rest) ==
  /\ ~srv.first
  /\ st = <<>>
  /\ Quiet(k)
  /\ \/ srv.pc = "loop" /\ ctl = rest
     \/ srv.pc = "options" /\ ~srv.stopped /\ ctl = rest
     \/ /\ srv.pc = "options" /\ ~srv.stopped
        /\ \E w \in Word : /\ ctl = <<w>> \o rest
                           /\ w.enabled /\ w.shm /\ ~(w.dict /\ opt.dict)

(* The server could not map the shared memory, or could not fork. *)
Gone ==
  /\ srv.pc = "exit"
  /\ st = <<>> \/ st = <<Error>>
  /\ proc.state \in {"none", "reaped"}

AtStart ==
  /\ ctl = <<>> /\ proc.state = "none" /\ ~srv.stopped /\ ~srv.first
  /\ ~fuz.timed_out
  /\ \/ srv.pc = "boot" /\ st = <<>>
     \/ /\ srv.pc = IF opt.shm \/ opt.dict THEN "options" ELSE "loop"
        /\ st = <<[kind |-> "hello"]>>

AtDict ==
  /\ proc.state = "none" /\ ~srv.stopped /\ ~srv.first /\ opt.dict
  /\ ~fuz.timed_out
  /\ \/ /\ srv.pc = "options" /\ st = <<>>
        /\ \E w \in Word : ctl = <<w>> /\ w.enabled /\ w.dict
     \/ srv.pc = "loop" /\ ctl = <<>> /\ st = <<[kind |-> "dict"]>>
     \/ srv.pc = "exit" /\ st = <<Error>>

AtIdle == Gone \/ Ready(fuz.timed_out, <<>>)

AtPid ==
  /\ ~fuz.timed_out
  /\ \/ Gone
     \/ \E k \in BOOLEAN : Ready(k, <<RunWord(k)>>)
     \/ /\ ctl = <<>> /\ st = <<>> /\ Quiet(srv.killed)
        /\ srv.pc = IF srv.first THEN "loop" ELSE "serve"
     \/ /\ ctl = <<>> /\ ~srv.first
        /\ \/ srv.pc = "announce" /\ st = <<>> /\ Serving
           \/ srv.pc = "wait" /\ st = <<PidWord>> /\ Serving
           \/ srv.pc = "relay" /\ st = <<PidWord>> /\ Waited(srv.status)
           \/ /\ srv.pc = "loop"
              /\ \E s \in Zombie \cup {"stopped"} :
                   st = <<PidWord, StatusWord(s)>> /\ Waited(s)

AtStatus ==
  /\ fuz.timed_out = (fuz.pc = "late")
  /\ fuz.child_pid = proc.pid
  /\ ctl = <<>> /\ ~srv.first
  /\ \/ srv.pc = "wait" /\ st = <<>> /\ Serving
     \/ srv.pc = "relay" /\ st = <<>> /\ Waited(srv.status)
     \/ /\ srv.pc = "loop"
        /\ \E s \in Zombie \cup {"stopped"} : st = <<StatusWord(s)>> /\ Waited(s)

Phase ==
  /\ fuz.pc = "start" => AtStart
  /\ fuz.pc = "dict" => AtDict
  /\ fuz.pc \in {"idle", "request"} => AtIdle
  /\ fuz.pc = "pid" => AtPid
  /\ fuz.pc \in {"status", "kill", "late"} => AtStatus
  /\ fuz.pc # "stopping"

TraceOk == fuz.pc # "request" => trace \subseteq {run}

(* After a stop the server is dead, and afl-fuzz knows or will read the id *)
(* of a process that is still alive, unless the server was killed before   *)
(* it had written that id.                                                 *)
StopOk ==
  /\ srv.pc \in Dead
  /\ fuz.pc = "late" => fuz.timed_out
  /\ proc.state \in Alive =>
       \/ srv.pc = "killed_unannounced"
       \/ fuz.pc = "pid" /\ st # <<>> /\ Head(st) = PidWord /\ proc.pid > 0
       \/ /\ fuz.pc \in {"status", "kill", "stopping"}
          /\ fuz.child_pid = proc.pid /\ proc.pid > 0

IInv ==
  /\ Types
  /\ IF fuz.stop_soon THEN StopOk
     ELSE fuz.pc # "ended" => Phase /\ TraceOk
-----------------------------------------------------------------------------
(* What the pipe operations do to the short sequences of the invariant.    *)
LEMMA Pair ==
  ASSUME NEW x, NEW y, NEW s \in Seq({x, y}), Len(s) = 2, s[1] = x, s[2] = y
  PROVE  s = <<x, y>>
  OBVIOUS

LEMMA Short ==
  /\ <<>> \o <<>> = <<>>
  /\ \A x : /\ <<x>> # <<>> /\ Head(<<x>>) = x /\ Tail(<<x>>) = <<>>
            /\ Append(<<>>, x) = <<x>>
            /\ <<x>> \o <<>> = <<x>> /\ <<>> \o <<x>> = <<x>>
            /\ Len(<<x>>) = 1 /\ <<x>>[1] = x
  /\ \A x, y : /\ <<x, y>> # <<>> /\ Head(<<x, y>>) = x
               /\ Tail(<<x, y>>) = <<y>>
               /\ Append(<<x>>, y) = <<x, y>>
               /\ <<x>> \o <<y>> = <<x, y>>
<1>1. <<>> \o <<>> = <<>>
  OBVIOUS
<1>2. ASSUME NEW x
      PROVE  /\ <<x>> # <<>> /\ Head(<<x>>) = x /\ Tail(<<x>>) = <<>>
             /\ Append(<<>>, x) = <<x>>
             /\ <<x>> \o <<>> = <<x>> /\ <<>> \o <<x>> = <<x>>
             /\ Len(<<x>>) = 1 /\ <<x>>[1] = x
  OBVIOUS
<1>3. ASSUME NEW x, NEW y
      PROVE  /\ <<x, y>> # <<>> /\ Head(<<x, y>>) = x
             /\ Tail(<<x, y>>) = <<y>>
             /\ Append(<<x>>, y) = <<x, y>>
             /\ <<x>> \o <<y>> = <<x, y>>
  <2>1. <<x, y>> # <<>> /\ Head(<<x, y>>) = x /\ Tail(<<x, y>>) = <<y>>
    OBVIOUS
  <2>2. /\ Append(<<x>>, y) \in Seq({x, y})
        /\ Len(Append(<<x>>, y)) = 2
        /\ Append(<<x>>, y)[1] = x /\ Append(<<x>>, y)[2] = y
    OBVIOUS
  <2>3. Append(<<x>>, y) = <<x, y>>
    BY <2>2, Pair
  <2>4. /\ <<x>> \o <<y>> \in Seq({x, y})
        /\ Len(<<x>> \o <<y>>) = 2
        /\ (<<x>> \o <<y>>)[1] = x /\ (<<x>> \o <<y>>)[2] = y
    OBVIOUS
  <2>5. <<x>> \o <<y>> = <<x, y>>
    BY <2>4, Pair
  <2> QED
    BY <2>1, <2>3, <2>5
<1> QED
  BY <1>1, <1>2, <1>3

LEMMA TwoWords ==
  ASSUME NEW x, NEW y, NEW s, s = <<x>> \o <<y>>
  PROVE  Head(s) = x /\ Tail(s) = <<y>>
<1>1. s = <<x, y>>
  BY Short
<1>2. Head(<<x, y>>) = x /\ Tail(<<x, y>>) = <<y>>
  OBVIOUS
<1> QED
  BY <1>1, <1>2

LEMMA OneWord ==
  ASSUME NEW S, NEW x \in S PROVE <<x>> \in Seq(S)
  OBVIOUS

LEMMA Answers ==
  ASSUME IInv
  PROVE  /\ [kind |-> "hello"] \in Answer
         /\ [kind |-> "dict"] \in Answer
         /\ [kind |-> "error"] \in Answer
         /\ [kind |-> "pid", pid |-> proc.pid] \in Answer
         /\ [kind |-> "status", status |-> srv.status] \in Answer
         /\ \A a \in Answer : /\ Append(st, a) \in Seq(Answer)
                              /\ a.kind = "pid" => a.pid \in Nat
         /\ st # <<>> => Head(st) \in Answer /\ Tail(st) \in Seq(Answer)
<1>1. st \in Seq(Answer)
  BY DEF IInv, Types
<1>2. /\ \A a \in Answer : Append(st, a) \in Seq(Answer)
      /\ st # <<>> => Head(st) \in Answer /\ Tail(st) \in Seq(Answer)
  BY <1>1
<1>3. ASSUME NEW a \in Answer PROVE a.kind = "pid" => a.pid \in Nat
  BY DEF Answer
<1>4. /\ [kind |-> "hello"] \in Answer
      /\ [kind |-> "dict"] \in Answer
      /\ [kind |-> "error"] \in Answer
  BY DEF Answer
<1>5. [kind |-> "pid", pid |-> proc.pid] \in Answer
  BY DEF IInv, Types, ProcType, Answer
<1>6. [kind |-> "status", status |-> srv.status] \in Answer
  BY DEF IInv, Types, SrvType, Answer
<1> QED
  BY <1>2, <1>3, <1>4, <1>5, <1>6

LEMMA SrvHelloKeeps ==
  ASSUME IInv, SrvHello PROVE IInv'
<1>1. Types'
  BY Answers DEF IInv, Types, SrvHello, SrvType, Dead
<1>2. CASE fuz.stop_soon
  BY <1>2 DEF IInv, StopOk, SrvHello, Dead
<1>3. CASE ~fuz.stop_soon /\ fuz.pc # "ended"
  <2>1. fuz.pc = "start" /\ AtStart
    BY <1>3 DEF IInv, Types, FuzType, Phase, AtStart, AtDict, AtIdle, AtPid, AtStatus, Ready, Gone, SrvHello
  <2>2. AtStart'
    BY <2>1, Short DEF AtStart, SrvHello, IInv, Types, SrvType
  <2> QED
    BY <1>1, <1>3, <2>1, <2>2 DEF IInv, Phase, TraceOk, SrvHello
<1> QED
  BY <1>1, <1>2, <1>3 DEF IInv, SrvHello

(***************************************************************************)
(* Steps of the server and of the process.  None of the server is possible *)
(* after a stop, which kills it.                                           *)
(***************************************************************************)
LEMMA ServerKeeps ==
  ASSUME IInv, Types', srv.pc \notin Dead, UNCHANGED <<fuz, run, trace>>,
         fuz.pc = "start" /\ AtStart => AtStart',
         fuz.pc = "dict" /\ AtDict => AtDict',
         fuz.pc \in {"idle", "request"} /\ AtIdle => AtIdle',
         fuz.pc = "pid" /\ AtPid => AtPid',
         fuz.pc \in {"status", "kill", "late"} /\ AtStatus => AtStatus'
  PROVE  IInv'
  BY DEF IInv, StopOk, Phase, TraceOk

LEMMA SrvOptionsKeeps ==
  ASSUME IInv, SrvOptions PROVE IInv'
<1> USE DEF SrvOptions
<1>0. Head(ctl) \in Word /\ Tail(ctl) \in Seq(Word)
  BY DEF IInv, Types
<1>1. Types'
  <2>1. Head(ctl).killed \in BOOLEAN
    BY <1>0 DEF Word
  <2> QED
    BY <1>0, <2>1, Answers DEF IInv, Types, SrvType, Dead
<1>2. ~(fuz.pc = "start" /\ AtStart)
  BY DEF AtStart
<1>3. ASSUME AtDict PROVE AtDict'
  <2>1. PICK w \in Word : ctl = <<w>> /\ w.enabled /\ w.dict /\ st = <<>> /\ opt.dict
    BY <1>3 DEF AtDict
  <2>2. Head(ctl) = w /\ Tail(ctl) = <<>> /\ Append(st, [kind |-> "dict"]) = <<[kind |-> "dict"]>>
    BY <2>1, Short
  <2>3. /\ ctl' = <<>> /\ st' = <<[kind |-> "dict"]>>
        /\ srv'.pc = "loop" /\ ~srv'.first /\ srv'.stopped = srv.stopped
    BY <2>1, <2>2 DEF IInv, Types, SrvType
  <2> QED
    BY <1>3, <2>3 DEF AtDict
<1>4. ASSUME AtIdle PROVE AtIdle'
  <2>1. PICK w \in Word : /\ ctl = <<w>> \o <<>> /\ w.enabled /\ w.shm
                          /\ ~(w.dict /\ opt.dict) /\ ~srv.stopped
                          /\ Quiet(fuz.timed_out) /\ st = <<>>
    BY <1>4 DEF AtIdle, Ready, Gone
  <2>2. Head(ctl) = w /\ Tail(ctl) = <<>>
    BY <2>1, Short
  <2>3. /\ ctl' = <<>> /\ st' = <<>>
        /\ srv'.pc = "loop" /\ ~srv'.first /\ srv'.stopped = srv.stopped
    BY <2>1, <2>2 DEF IInv, Types, SrvType, NotAnAnswer
  <2>4. Quiet(fuz.timed_out)'
    BY <2>1, <2>3 DEF Quiet
  <2> QED
    BY <2>3, <2>4 DEF AtIdle, Ready
<1>5. ASSUME AtPid PROVE AtPid'
  <2>1. PICK k \in BOOLEAN : Ready(k, <<RunWord(k)>>) /\ ~srv.stopped
    BY <1>5 DEF AtPid, Gone, Ready
  <2>2. CASE ctl = <<RunWord(k)>>
    <3>1. Head(ctl) = RunWord(k) /\ Tail(ctl) = <<>>
      BY <2>2, Short
    <3>a. ~RunWord(k).enabled /\ RunWord(k).killed = k
      BY DEF RunWord
    <3>2. /\ ctl' = <<>> /\ st' = <<>> /\ srv'.pc = "loop" /\ srv'.first
          /\ srv'.stopped = srv.stopped /\ srv'.killed = k
      BY <2>1, <3>1, <3>a DEF IInv, Types, SrvType, NotAnAnswer, Ready
    <3>3. Quiet(srv.killed)'
      BY <2>1, <3>2 DEF Ready, Quiet
    <3> QED
      BY <1>5, <3>2, <3>3 DEF AtPid
  <2>3. CASE \E w \in Word : /\ ctl = <<w>> \o <<RunWord(k)>>
                             /\ w.enabled /\ w.shm /\ ~(w.dict /\ opt.dict)
    <3>1. PICK w \in Word : /\ ctl = <<w>> \o <<RunWord(k)>>
                            /\ w.enabled /\ w.shm /\ ~(w.dict /\ opt.dict)
      BY <2>3
    <3>2. Head(ctl) = w /\ Tail(ctl) = <<RunWord(k)>>
      BY <3>1, TwoWords
    <3>3. /\ ctl' = <<RunWord(k)>> /\ st' = <<>> /\ srv'.pc = "loop"
          /\ ~srv'.first /\ srv'.stopped = srv.stopped
      BY <2>1, <3>1, <3>2 DEF IInv, Types, SrvType, NotAnAnswer, Ready
    <3>4. Quiet(k)'
      BY <2>1, <3>3 DEF Ready, Quiet
    <3>5. Ready(k, <<RunWord(k)>>)'
      BY <3>3, <3>4 DEF Ready, RunWord
    <3> QED
      BY <1>5, <3>5 DEF AtPid, RunWord
  <2> QED
    BY <2>1, <2>2, <2>3 DEF Ready
<1>6. ~(fuz.pc \in {"status", "kill", "late"} /\ AtStatus)
  BY DEF AtStatus
<1> QED
  BY <1>1, <1>2, <1>3, <1>4, <1>5, <1>6, ServerKeeps DEF Dead

LEMMA SrvShmFailsKeeps ==
  ASSUME IInv, SrvShmFails PROVE IInv'
<1> USE DEF SrvShmFails
<1>1. Types' /\ srv'.pc = "exit" /\ srv'.stopped = srv.stopped /\ srv'.first = srv.first
  <2>1. st' \in Seq(Answer)
    BY Answers
  <2>2. ctl' \in Seq(Word)
    BY DEF IInv, Types
  <2> QED
    BY <2>1, <2>2 DEF IInv, Types, SrvType, Dead
<1>2. ASSUME st = <<>>, ~srv.stopped
      PROVE  st' = <<Error>> /\ (\A k \in BOOLEAN : Quiet(k) => Gone')
  BY <1>1, <1>2, Short DEF Gone, Error, Quiet
<1>3. ~AtStart
  BY DEF AtStart
<1>4. ASSUME AtDict PROVE AtDict'
  <2>1. st = <<>> /\ ~srv.stopped
    BY <1>4 DEF AtDict
  <2> QED
    BY <1>1, <1>2, <1>4, <2>1 DEF AtDict, Error
<1>5. ASSUME AtIdle PROVE AtIdle'
  BY <1>2, <1>5 DEF AtIdle, Ready, Gone, IInv, Types, FuzType
<1>6. ASSUME AtPid PROVE AtPid'
  <2>1. st = <<>> /\ ~srv.stopped /\ \E k \in BOOLEAN : Quiet(k)
    BY <1>6 DEF AtPid, Ready, Gone
  <2> QED
    BY <1>2, <1>6, <2>1 DEF AtPid
<1>7. ~AtStatus
  BY DEF AtStatus
<1> QED
  BY <1>1, <1>3, <1>4, <1>5, <1>6, <1>7, ServerKeeps DEF Dead

LEMMA SrvReadKeeps ==
  ASSUME IInv, SrvRead PROVE IInv'
<1> USE DEF SrvRead
<1>0. ctl # <<>> => Head(ctl) \in Word /\ Tail(ctl) \in Seq(Word)
  BY DEF IInv, Types
<1>1. Types'
  <2>1. ctl # <<>> => Head(ctl).killed \in BOOLEAN
    BY <1>0 DEF Word
  <2> QED
    BY <1>0, <2>1 DEF IInv, Types, SrvType, Dead
<1>2. ~AtStart /\ ~AtDict
  BY DEF AtStart, AtDict
<1>3. ~AtIdle /\ ~AtStatus
  BY DEF AtIdle, AtStatus, Ready, Gone
<1>4. ASSUME AtPid PROVE AtPid'
  <2>1. CASE srv.first
    <3>1. /\ ctl = <<>> /\ st = <<>> /\ Quiet(srv.killed)
      BY <1>4, <2>1 DEF AtPid, Ready, Gone
    <3>2. /\ srv'.pc = "serve" /\ ~srv'.first /\ srv'.killed = srv.killed
          /\ srv'.stopped = srv.stopped /\ ctl' = ctl
      BY <2>1 DEF IInv, Types, SrvType
    <3>3. Quiet(srv.killed)'
      BY <3>1, <3>2 DEF Quiet
    <3> QED
      BY <1>4, <3>1, <3>2, <3>3 DEF AtPid
  <2>2. CASE ~srv.first
    <3>1. PICK k \in BOOLEAN : ctl = <<RunWord(k)>> /\ st = <<>> /\ Quiet(k)
      BY <1>4, <2>2 DEF AtPid, Ready, Gone
    <3>2. Head(ctl) = RunWord(k) /\ Tail(ctl) = <<>> /\ RunWord(k).killed = k
      BY <3>1, Short DEF RunWord
    <3>3. /\ srv'.pc = "serve" /\ ~srv'.first /\ srv'.killed = k
          /\ srv'.stopped = srv.stopped /\ ctl' = <<>>
      BY <2>2, <3>2 DEF IInv, Types, SrvType
    <3>4. Quiet(srv.killed)'
      BY <3>1, <3>3 DEF Quiet
    <3> QED
      BY <1>4, <3>1, <3>3, <3>4 DEF AtPid
  <2> QED
    BY <2>1, <2>2
<1> QED
  BY <1>1, <1>2, <1>3, <1>4, ServerKeeps DEF Dead

(* The server has read a request and not yet forked or woken the process.  *)
LEMMA ServePhase ==
  ASSUME IInv, srv.pc = "serve"
  PROVE  /\ ~AtStart /\ ~AtDict /\ ~AtIdle /\ ~AtStatus
         /\ AtPid => /\ ~srv.first /\ ctl = <<>> /\ st = <<>>
                     /\ Quiet(srv.killed) /\ ~fuz.timed_out
  BY DEF AtStart, AtDict, AtIdle, AtPid, AtStatus, Ready, Gone

LEMMA SrvWriteOffKeeps ==
  ASSUME IInv, SrvWriteOff PROVE IInv'
<1> USE DEF SrvWriteOff
<1>1. /\ Types' /\ srv'.pc = "serve" /\ srv'.first = srv.first
      /\ ~srv'.stopped /\ proc'.state = "reaped"
  BY DEF IInv, Types, SrvType, ProcType, Dead
<1>2. ASSUME AtPid PROVE AtPid'
  BY <1>1, <1>2, ServePhase DEF AtPid, Quiet
<1> QED
  BY <1>1, <1>2, ServePhase, ServerKeeps DEF Dead

LEMMA SrvForkKeeps ==
  ASSUME IInv, SrvFork PROVE IInv'
<1> USE DEF SrvFork
<1>1. /\ Types' /\ srv'.pc = "announce" /\ srv'.first = srv.first
      /\ srv'.stopped = srv.stopped /\ proc'.state = "fresh" /\ proc'.pid > 0
  <2>1. proc' \in ProcType /\ proc'.state = "fresh" /\ proc'.pid > 0
    BY ForkServerAssumption DEF IInv, Types, ProcType, Alive
  <2> QED
    BY <2>1 DEF IInv, Types, SrvType, Dead
<1>2. ASSUME AtPid, fuz.pc = "pid" PROVE AtPid'
  BY <1>1, <1>2, ServePhase DEF AtPid, Serving, Alive, Zombie
<1> QED
  BY <1>1, <1>2, ServePhase, ServerKeeps DEF Dead

LEMMA SrvForkFailsKeeps ==
  ASSUME IInv, SrvForkFails PROVE IInv'
<1> USE DEF SrvForkFails
<1>1. Types' /\ srv'.pc = "exit"
  BY DEF IInv, Types, SrvType, Dead
<1>2. ASSUME AtPid PROVE AtPid'
  BY <1>1, <1>2, ServePhase DEF AtPid, Gone, Quiet
<1> QED
  BY <1>1, <1>2, ServePhase, ServerKeeps DEF Dead

LEMMA SrvContinueKeeps ==
  ASSUME IInv, SrvContinue PROVE IInv'
<1> USE DEF SrvContinue
<1>1. /\ Types' /\ srv'.pc = "announce" /\ srv'.first = srv.first
      /\ ~srv'.stopped /\ proc'.pid = proc.pid
      /\ proc.state = "stopped" => proc'.state = "fresh"
  BY DEF IInv, Types, SrvType, ProcType, Dead, Alive
<1>2. ASSUME AtPid, fuz.pc = "pid" PROVE AtPid'
  <2>1. proc.state = "stopped" /\ proc.pid > 0
    BY <1>2, ServePhase DEF Quiet, MustWriteOff
  <2> QED
    BY <1>1, <1>2, <2>1, ServePhase DEF AtPid, Serving, Alive, Zombie
<1> QED
  BY <1>1, <1>2, ServePhase, ServerKeeps DEF Dead

LEMMA SrvAnnounceKeeps ==
  ASSUME IInv, SrvAnnounce PROVE IInv'
<1> USE DEF SrvAnnounce
<1>1. /\ Types' /\ srv'.pc = "wait" /\ srv'.first = srv.first
      /\ srv'.stopped = srv.stopped
  BY Answers DEF IInv, Types, SrvType, Dead
<1>2. ~AtStart /\ ~AtDict /\ ~AtIdle /\ ~AtStatus
  BY DEF AtStart, AtDict, AtIdle, AtStatus, Ready, Gone
<1>3. ASSUME AtPid PROVE AtPid'
  <2>1. ctl = <<>> /\ ~srv.first /\ st = <<>> /\ Serving /\ ~fuz.timed_out
    BY <1>3 DEF AtPid, Ready, Gone
  <2>2. st' = <<PidWord>>
    BY <2>1, Short DEF PidWord
  <2>3. Serving'
    BY <1>1, <2>1 DEF Serving
  <2> QED
    BY <1>1, <2>1, <2>2, <2>3 DEF AtPid, PidWord
<1> QED
  BY <1>1, <1>2, <1>3, ServerKeeps DEF Dead

LEMMA SrvWaitKeeps ==
  ASSUME IInv, SrvWait PROVE IInv'
<1> USE DEF SrvWait
<1>1. /\ Types' /\ srv'.pc = "relay" /\ srv'.first = srv.first
      /\ srv'.stopped = (proc.state = "stopped") /\ srv'.status = proc.state
      /\ proc'.pid = proc.pid
      /\ proc'.state = IF proc.state = "stopped" THEN "stopped" ELSE "reaped"
  BY DEF IInv, Types, SrvType, ProcType, Dead, Zombie
<1>2. ~AtStart /\ ~AtDict /\ ~AtIdle
  BY DEF AtStart, AtDict, AtIdle, Ready, Gone
<1>3. ASSUME Serving PROVE Waited(srv.status)'
  BY <1>1, <1>3 DEF Serving, Waited, Zombie
<1>4. ASSUME AtPid PROVE AtPid'
  BY <1>1, <1>3, <1>4 DEF AtPid, Ready, Gone, PidWord
<1>5. ASSUME AtStatus PROVE AtStatus'
  BY <1>1, <1>3, <1>5 DEF AtStatus
<1> QED
  BY <1>1, <1>2, <1>4, <1>5, ServerKeeps DEF Dead

LEMMA SrvRelayKeeps ==
  ASSUME IInv, SrvRelay PROVE IInv'
<1> USE DEF SrvRelay
<1>1. /\ Types' /\ srv'.pc = "loop" /\ srv'.first = srv.first
      /\ srv'.stopped = srv.stopped
  BY Answers DEF IInv, Types, SrvType, Dead
<1>2. ~AtStart /\ ~AtDict /\ ~AtIdle
  BY DEF AtStart, AtDict, AtIdle, Ready, Gone
<1>3. ASSUME NEW s, Waited(s) PROVE Waited(s)'
  BY <1>1, <1>3 DEF Waited
<1>4. ASSUME AtPid PROVE AtPid'
  <2>1. /\ ctl = <<>> /\ ~srv.first /\ st = <<PidWord>> /\ ~fuz.timed_out
        /\ Waited(srv.status)
    BY <1>4 DEF AtPid, Ready, Gone
  <2>2. st' = <<PidWord, StatusWord(srv.status)>>
    BY <2>1, Short DEF StatusWord
  <2>3. srv.status \in Zombie \cup {"stopped"} /\ PidWord' = PidWord
    BY <2>1 DEF Waited, PidWord
  <2> QED
    BY <1>1, <1>3, <2>1, <2>2, <2>3 DEF AtPid, StatusWord
<1>5. ASSUME AtStatus PROVE AtStatus'
  <2>1. /\ st = <<>> /\ Waited(srv.status)
    BY <1>5 DEF AtStatus
  <2>2. st' = <<StatusWord(srv.status)>>
    BY <2>1, Short DEF StatusWord
  <2>3. srv.status \in Zombie \cup {"stopped"}
    BY <2>1 DEF Waited
  <2> QED
    BY <1>1, <1>3, <1>5, <2>1, <2>2, <2>3 DEF AtStatus, StatusWord
<1> QED
  BY <1>1, <1>2, <1>4, <1>5, ServerKeeps DEF Dead

LEMMA ProcessKeeps ==
  ASSUME IInv, Types', UNCHANGED <<beh, run, opt, fuz, ctl, st, srv>>,
         proc.state \in {"fresh", "working"}, proc'.pid = proc.pid,
         trace' \subseteq trace \cup {run},
         Serving => Serving'
  PROVE  IInv'
<1>1. CASE fuz.stop_soon
  BY <1>1 DEF IInv, StopOk, PidWord, Alive
<1>2. CASE ~fuz.stop_soon /\ fuz.pc # "ended"
  <2>1. ~AtStart /\ ~AtDict
    BY DEF AtStart, AtDict
  <2>2. ~AtIdle
    BY DEF AtIdle, Gone, Ready, Quiet
  <2>3. ASSUME AtPid PROVE AtPid'
    BY <2>3 DEF AtPid, Gone, Ready, Quiet, Waited, PidWord
  <2>4. ASSUME AtStatus PROVE AtStatus'
    BY <2>4 DEF AtStatus, Waited
  <2> QED
    BY <1>2, <2>1, <2>2, <2>3, <2>4 DEF IInv, Phase, TraceOk
<1> QED
  BY <1>1, <1>2 DEF IInv

LEMMA ProcReadsKeeps ==
  ASSUME IInv, ProcReads PROVE IInv'
<1>1. /\ Types' /\ proc'.state = "working" /\ proc'.pid = proc.pid
      /\ proc'.input = run
  BY DEF IInv, Types, ProcReads, ProcType, Alive
<1>2. Serving => Serving'
  BY <1>1 DEF ProcReads, Serving, Alive, Zombie
<1> QED
  BY <1>1, <1>2, ProcessKeeps DEF ProcReads

LEMMA ProcReturnsKeeps ==
  ASSUME IInv, ProcReturns PROVE IInv'
<1>1. /\ Types' /\ proc'.state \in {"stopped", "exited"} /\ proc'.pid = proc.pid
      /\ proc'.input = proc.input
  <2>1. proc.cycle_cnt > 1 => proc.cycle_cnt - 1 \in 0 .. MaxCnt
    BY ForkServerAssumption DEF IInv, Types, ProcType
  <2>2. CASE Persistent /\ proc.cycle_cnt > 1
    BY <2>1, <2>2 DEF IInv, Types, ProcReturns, ProcType, Alive
  <2>3. CASE ~(Persistent /\ proc.cycle_cnt > 1)
    BY <2>3 DEF IInv, Types, ProcReturns, ProcType, Zombie
  <2> QED
    BY <2>2, <2>3
<1>2. Serving => Serving'
  BY <1>1 DEF ProcReturns, Serving, Alive, Zombie
<1> QED
  BY <1>1, <1>2, ProcessKeeps DEF ProcReturns

LEMMA ProcCrashesKeeps ==
  ASSUME IInv, ProcCrashes PROVE IInv'
<1>1. /\ Types' /\ proc'.state = "crashed" /\ proc'.pid = proc.pid
      /\ proc'.input = proc.input
  BY DEF IInv, Types, ProcCrashes, ProcType, Zombie
<1>2. Serving => Serving'
  BY <1>1 DEF ProcCrashes, Serving, Alive, Zombie
<1> QED
  BY <1>1, <1>2, ProcessKeeps DEF ProcCrashes
-----------------------------------------------------------------------------
(***************************************************************************)
(* Steps of afl-fuzz.                                                      *)
(***************************************************************************)
LEMMA KillTypes ==
  ASSUME IInv
  PROVE  /\ \A p \in Nat : /\ Kill(p) \in ProcType
                           /\ Kill(p).pid = proc.pid
                           /\ p > 0 /\ p = proc.pid => Kill(p).state \notin Alive
                           /\ Kill(p).state \in Alive => Kill(p).state = proc.state
         /\ KillServer \in SrvType /\ KillServer.pc \in Dead
         /\ srv.pc \in {"announce", "killed_unannounced"} =>
              KillServer.pc = "killed_unannounced"
<1>1. \A p \in Nat : /\ Kill(p) \in ProcType
                     /\ Kill(p).pid = proc.pid
                     /\ p > 0 /\ p = proc.pid => Kill(p).state \notin Alive
                     /\ Kill(p).state \in Alive => Kill(p).state = proc.state
  BY DEF IInv, Types, Kill, ProcType, Alive, Zombie
<1>2. /\ KillServer \in SrvType /\ KillServer.pc \in Dead
      /\ srv.pc \in {"announce", "killed_unannounced"} =>
           KillServer.pc = "killed_unannounced"
  BY DEF IInv, Types, KillServer, SrvType, Dead
<1> QED
  BY <1>1, <1>2

(* FATAL, which a stop turns into an end of the run, leaves nothing to be  *)
(* kept up but what afl-fuzz knows of a process that is alive.             *)
LEMMA FatalKeeps ==
  ASSUME IInv, Fatal, UNCHANGED <<run, opt, proc>>,
         ctl' \in Seq(Word), st' \in Seq(Answer),
         trace' \subseteq 0 .. MaxRuns,
         fuz.stop_soon => fuz.pc \in {"start", "dict"}
  PROVE  IInv'
<1>1. Types' /\ fuz'.pc = "ended" /\ fuz'.stop_soon = fuz.stop_soon
  BY KillTypes DEF IInv, Types, Fatal, FuzType
<1>2. CASE fuz.stop_soon
  <2>1. proc.state \in Alive => srv.pc = "killed_unannounced"
    BY <1>2 DEF IInv, StopOk
  <2> QED
    BY <1>1, <1>2, <2>1, KillTypes DEF IInv, StopOk, Fatal
<1> QED
  BY <1>1, <1>2 DEF IInv

LEMMA FailRunKeeps ==
  ASSUME IInv, FailRun, UNCHANGED <<run, opt, proc, st, ctl>>,
         trace' \subseteq 0 .. MaxRuns,
         \/ fuz.pc \in {"request", "status", "late"}
         \/ fuz.pc = "pid" /\ (st # <<>> => Head(st).kind = "error")
  PROVE  IInv'
<1>1. CASE ~fuz.stop_soon
  BY <1>1, FatalKeeps DEF FailRun, IInv, Types
<1>2. CASE fuz.stop_soon
  <2>1. /\ Types' /\ fuz'.pc = "stopping" /\ fuz'.stop_soon = fuz.stop_soon
        /\ fuz'.child_pid = fuz.child_pid /\ srv' = srv
    BY <1>2 DEF IInv, Types, FailRun, FuzType
  <2>2. PidWord.kind = "pid"
    BY DEF PidWord
  <2>3. proc.state \in Alive => \/ srv.pc = "killed_unannounced"
                                \/ fuz.child_pid = proc.pid /\ proc.pid > 0
    BY <1>2, <2>2 DEF IInv, StopOk
  <2> QED
    BY <1>2, <2>1, <2>3 DEF IInv, StopOk
<1> QED
  BY <1>1, <1>2

LEMMA StartFailsKeeps ==
  ASSUME IInv, StartFails PROVE IInv'
  BY FatalKeeps DEF StartFails, IInv, Types

LEMMA StartHelloKeeps ==
  ASSUME IInv, StartHello, \A h \in Handshakes : ~DeniesAlone(h) PROVE IInv'
<1>1. CASE Fatal /\ ctl' = ctl
  BY <1>1, Answers, FatalKeeps DEF StartHello, IInv, Types
<1>2. CASE ~(Fatal /\ ctl' = ctl)
  <2>1. /\ opt.shm => opt.support
        /\ ctl' = ctl \o Replies
        /\ fuz' = [fuz EXCEPT !.pc = IF opt.dict /\ ~opt.ignore /\ opt.extra
                                       THEN "dict" ELSE "idle"]
        /\ srv' = srv /\ st' = Tail(st) /\ fuz.pc = "start" /\ ~fuz.stop_soon
        /\ st # <<>> /\ UNCHANGED <<beh, run, outcome, opt, proc, trace>>
    BY <1>2 DEF StartHello
  <2>2. /\ opt.dict \in BOOLEAN /\ opt.shm \in BOOLEAN /\ opt.extra \in BOOLEAN
        /\ opt.ignore \in BOOLEAN /\ ~DeniesAlone(opt)
    BY ForkServerAssumption DEF IInv, Types, HandshakeType
  <2>3. /\ AtStart /\ TraceOk /\ st = <<[kind |-> "hello"]>>
        /\ srv.pc = IF opt.shm \/ opt.dict THEN "options" ELSE "loop"
    BY <2>1 DEF IInv, Phase, AtStart
  <2>4. st' = <<>> /\ ctl' = Replies
    <3>1. Replies = <<>> \/ \E x : Replies = <<x>>
      BY DEF Replies
    <3>2. <<>> \o Replies = Replies
      BY <3>1, Short
    <3>3. Tail(st) = <<>>
      BY <2>3, Short
    <3> QED
      BY <2>1, <2>3, <3>2, <3>3 DEF AtStart
  <2>5. \A s, d \in BOOLEAN : /\ OptWord(s, d) \in Word
                              /\ OptWord(s, d).enabled /\ OptWord(s, d).shm = s
                              /\ OptWord(s, d).dict = d
    BY DEF OptWord, Word
  <2>6. CASE opt.dict /\ ~opt.ignore /\ opt.extra
    <3>1. ctl' = <<OptWord(opt.shm, TRUE)>>
      BY <2>2, <2>4, <2>6 DEF Replies
    <3>2. OptWord(opt.shm, TRUE) \in Word /\ OptWord(opt.shm, TRUE).enabled
          /\ OptWord(opt.shm, TRUE).dict
      BY <2>2, <2>5
    <3> HIDE DEF OptWord
    <3>3. ctl' \in Seq(Word)
      BY <3>1, <3>2, OneWord
    <3>4. Types' /\ fuz'.pc = "dict" /\ ~fuz'.stop_soon /\ fuz'.timed_out = fuz.timed_out
      BY <2>1, <2>6, <3>3, Answers DEF IInv, Types, FuzType
    <3>5. AtDict'
      BY <2>1, <2>3, <2>4, <2>6, <3>1, <3>2, <3>4 DEF AtDict, AtStart
    <3> QED
      BY <2>1, <2>3, <3>4, <3>5 DEF IInv, Phase, TraceOk
  <2>7. CASE ~(opt.dict /\ ~opt.ignore /\ opt.extra)
    <3>1. \/ /\ opt.shm
             /\ \E w \in Word : /\ ctl' = <<w>>
                                /\ w.enabled /\ w.shm /\ ~(w.dict /\ opt.dict)
          \/ ctl' = <<>>
      <4>1. CASE opt.shm /\ opt.dict /\ ~opt.ignore
        <5>1. ctl' = <<OptWord(TRUE, FALSE)>>
          BY <2>2, <2>4, <2>7, <4>1 DEF Replies
        <5> QED
          BY <2>5, <4>1, <5>1
      <4>2. CASE opt.shm /\ ~(opt.dict /\ ~opt.ignore)
        <5>1. ctl' = <<OptWord(TRUE, FALSE)>>
          BY <2>2, <2>4, <2>7, <4>2 DEF Replies
        <5> QED
          BY <2>5, <4>2, <5>1
      <4>3. CASE ~opt.shm
        <5>1. ~(opt.dict /\ ~opt.ignore)
          BY <2>2, <2>7, <4>3 DEF DeniesAlone
        <5> QED
          BY <2>4, <4>3, <5>1 DEF Replies
      <4> QED
        BY <4>1, <4>2, <4>3
    <3>2. ctl' \in Seq(Word)
      <4>1. CASE ctl' = <<>>
        BY <4>1
      <4> QED
        BY <3>1, <4>1, OneWord
    <3>3. Types' /\ fuz'.pc = "idle" /\ ~fuz'.stop_soon /\ fuz'.timed_out = fuz.timed_out
      BY <2>1, <2>7, <3>2, Answers DEF IInv, Types, FuzType
    <3>4. Quiet(fuz.timed_out)'
      BY <2>1, <2>3 DEF Quiet, AtStart
    <3>5. AtIdle'
      <4>1. CASE ctl' = <<>>
        BY <2>1, <2>3, <2>4, <3>4, <4>1 DEF AtIdle, Ready, AtStart
      <4>2. CASE ctl' # <<>>
        <5>1. PICK w \in Word : /\ opt.shm /\ ctl' = <<w>>
                                /\ w.enabled /\ w.shm /\ ~(w.dict /\ opt.dict)
          BY <3>1, <4>2
        <5>2. ctl' = <<w>> \o <<>>
          BY <5>1, Short
        <5>3. /\ srv'.pc = "options" /\ ~srv'.stopped /\ ~srv'.first /\ opt' = opt
              /\ st' = <<>>
          BY <2>1, <2>3, <2>4, <5>1 DEF AtStart
        <5> QED
          BY <3>4, <5>1, <5>2, <5>3 DEF AtIdle, Ready
      <4> QED
        BY <4>1, <4>2
    <3> QED
      BY <2>1, <2>3, <3>3, <3>5 DEF IInv, Phase, TraceOk
  <2> QED
    BY <2>6, <2>7
<1> QED
  BY <1>1, <1>2

LEMMA StartDictKeeps ==
  ASSUME IInv, StartDict PROVE IInv'
<1>1. CASE Fatal
  BY <1>1, FatalKeeps DEF StartDict, IInv, Types
<1>2. CASE ~Fatal
  <2>1. /\ fuz.pc = "dict" /\ st # <<>> /\ Head(st).kind = "dict"
        /\ fuz' = [fuz EXCEPT !.pc = "idle"] /\ st' = Tail(st)
        /\ UNCHANGED <<srv, beh, run, outcome, opt, ctl, proc, trace>>
    BY <1>2 DEF StartDict
  <2>2. /\ Types' /\ fuz'.pc = "idle" /\ fuz'.stop_soon = fuz.stop_soon
        /\ fuz'.timed_out = fuz.timed_out
    BY <2>1, Answers DEF IInv, Types, FuzType
  <2>3. CASE fuz.stop_soon
    BY <2>1, <2>2, <2>3 DEF IInv, StopOk
  <2>4. CASE ~fuz.stop_soon
    <3>1. AtDict /\ TraceOk
      BY <2>1, <2>4 DEF IInv, Phase
    <3>2. Head(<<Error>>).kind # "dict"
      BY Short DEF Error
    <3>3. srv.pc = "loop" /\ ctl = <<>> /\ st = <<[kind |-> "dict"]>>
      BY <2>1, <3>1, <3>2 DEF AtDict
    <3>4. st' = <<>>
      BY <2>1, <3>3, Short
    <3>5. AtIdle'
      BY <2>1, <2>2, <3>1, <3>3, <3>4 DEF AtIdle, Ready, Quiet, AtDict
    <3> QED
      BY <2>1, <2>2, <2>4, <3>1, <3>5 DEF IInv, Phase, TraceOk
  <2> QED
    BY <2>3, <2>4
<1> QED
  BY <1>1, <1>2

LEMMA WriteInputKeeps ==
  ASSUME IInv, WriteInput PROVE IInv'
<1>1. /\ Types' /\ fuz'.pc = "request" /\ ~fuz'.stop_soon
      /\ fuz'.timed_out = fuz.timed_out /\ fuz'.child_pid = fuz.child_pid
      /\ fuz.pc = "idle" /\ ~fuz.stop_soon
  BY ForkServerAssumption DEF IInv, Types, WriteInput, FuzType
<1>2. AtIdle
  BY <1>1 DEF IInv, Phase
<1>3. AtIdle'
  BY <1>1, <1>2 DEF WriteInput, AtIdle, Ready, Gone, Quiet
<1> QED
  BY <1>1, <1>3 DEF IInv, Phase, TraceOk

LEMMA RequestRunKeeps ==
  ASSUME IInv, RequestRun PROVE IInv'
<1>1. CASE srv.pc \in Dead
  <2>1. FailRun /\ UNCHANGED <<run, opt, proc, st, ctl>> /\ trace' = {}
        /\ fuz.pc = "request"
    BY <1>1 DEF RequestRun
  <2> QED
    BY <2>1, FailRunKeeps
<1>2. CASE srv.pc \notin Dead
  <2>0. PICK k \in BOOLEAN : k = fuz.timed_out
    BY DEF IInv, Types, FuzType
  <2> DEFINE w == RunWord(k)
  <2>1. /\ trace' = {} /\ ctl' = Append(ctl, w)
        /\ fuz' = [fuz EXCEPT !.pc = "pid", !.timed_out = FALSE]
        /\ UNCHANGED <<srv, beh, run, outcome, opt, st, proc>>
    BY <1>2, <2>0 DEF RequestRun
  <2>2. w \in Word
    BY DEF RunWord, Word
  <2> HIDE DEF w
  <2>3. /\ Types' /\ fuz'.pc = "pid" /\ ~fuz'.timed_out
        /\ fuz'.stop_soon = fuz.stop_soon /\ fuz'.child_pid = fuz.child_pid
    <3>1. Append(ctl, w) \in Seq(Word)
      BY <2>2 DEF IInv, Types
    <3> QED
      BY <2>1, <3>1 DEF IInv, Types, FuzType
  <2>4. ~fuz.stop_soon
    BY <1>2 DEF IInv, StopOk
  <2>5. Ready(k, <<>>)
    BY <1>2, <2>0, <2>4 DEF RequestRun, IInv, Phase, AtIdle, Gone, Dead
  <2>6. Ready(k, <<w>>)'
    <3>1. Quiet(k)'
      BY <2>1, <2>3, <2>5 DEF Ready, Quiet
    <3>2. CASE ctl = <<>>
      <4>1. ctl' = <<w>>
        BY <2>1, <3>2, Short
      <4> QED
        BY <2>1, <2>5, <3>1, <4>1 DEF Ready
    <3>3. CASE ctl # <<>>
      <4>1. PICK v \in Word : /\ ctl = <<v>> \o <<>> /\ srv.pc = "options"
                              /\ ~srv.stopped
                              /\ v.enabled /\ v.shm /\ ~(v.dict /\ opt.dict)
        BY <2>5, <3>3 DEF Ready
      <4>2. ctl = <<v>>
        BY <4>1, Short
      <4>3. Append(<<v>>, w) = <<v>> \o <<w>>
        BY Short
      <4>4. ctl' = <<v>> \o <<w>>
        BY <2>1, <4>2, <4>3
      <4> QED
        BY <2>1, <2>5, <3>1, <4>1, <4>4 DEF Ready
    <3> QED
      BY <3>2, <3>3
  <2>7. AtPid'
    BY <2>3, <2>6 DEF AtPid, w
  <2> QED
    BY <2>1, <2>3, <2>4, <2>7 DEF IInv, Phase, TraceOk
<1> QED
  BY <1>1, <1>2

LEMMA ReadPidKeeps ==
  ASSUME IInv, ReadPid PROVE IInv'
<1>1. CASE FailRun /\ (Eof \/ (st # <<>> /\ Head(st).kind = "error")) /\ st' = st
  BY <1>1, FailRunKeeps DEF ReadPid, Eof, IInv, Types
<1>2. CASE /\ st # <<>>
           /\ Head(st).kind = "pid"
           /\ fuz' = [fuz EXCEPT !.pc = "status", !.child_pid = Head(st).pid]
           /\ st' = Tail(st)
           /\ srv' = srv
  <2>1. fuz.pc = "pid" /\ UNCHANGED <<beh, run, outcome, opt, ctl, proc, trace>>
    BY DEF ReadPid
  <2>2. /\ Types' /\ fuz'.pc = "status" /\ fuz'.stop_soon = fuz.stop_soon
        /\ Head(st) = PidWord => fuz'.child_pid = proc.pid
    <3>1. st' \in Seq(Answer) /\ Head(st).pid \in Nat
      BY <1>2, Answers
    <3>2. Head(st) = PidWord => Head(st).pid = proc.pid
      BY DEF PidWord
    <3> QED
      BY <1>2, <2>1, <3>1, <3>2 DEF IInv, Types, FuzType
  <2>3. CASE ~fuz.stop_soon
    <3>1. AtPid /\ TraceOk
      BY <2>1, <2>3 DEF IInv, Phase
    <3>2. ~Gone
      BY <1>2, Short DEF Gone, Error
    <3>3. /\ ctl = <<>> /\ ~srv.first /\ st # <<>>
          /\ \/ srv.pc = "wait" /\ st = <<PidWord>> /\ Serving
             \/ srv.pc = "relay" /\ st = <<PidWord>> /\ Waited(srv.status)
             \/ /\ srv.pc = "loop"
                /\ \E s \in Zombie \cup {"stopped"} :
                     st = <<PidWord, StatusWord(s)>> /\ Waited(s)
      BY <1>2, <3>1, <3>2 DEF AtPid, Ready
    <3>4. Head(st) = PidWord
      BY <3>3, Short
    <3>5. /\ fuz'.child_pid = proc.pid /\ fuz'.timed_out = FALSE
      BY <1>2, <2>2, <3>1, <3>4 DEF IInv, Types, FuzType, AtPid
    <3>6. Serving => Serving'
      BY <1>2, <2>1, <2>2 DEF Serving
    <3>7. ASSUME NEW s, Waited(s) PROVE Waited(s)'
      BY <1>2, <2>1, <2>2, <3>7 DEF Waited
    <3>8. AtStatus'
      <4>1. CASE st = <<PidWord>>
        <5>1. st' = <<>>
          BY <1>2, <4>1, Short
        <5>2. \A x, y : <<x>> # <<x, y>>
          OBVIOUS
        <5>3. \/ srv.pc = "wait" /\ Serving
              \/ srv.pc = "relay" /\ Waited(srv.status)
          BY <3>3, <4>1, <5>2
        <5> QED
          BY <1>2, <2>1, <2>2, <3>3, <3>5, <3>6, <3>7, <5>1, <5>3 DEF AtStatus
      <4>2. CASE st # <<PidWord>>
        <5>1. PICK s \in Zombie \cup {"stopped"} :
                srv.pc = "loop" /\ st = <<PidWord, StatusWord(s)>> /\ Waited(s)
          BY <3>3, <4>2
        <5>2. st' = <<StatusWord(s)>>
          BY <1>2, <5>1, Short
        <5> QED
          BY <1>2, <2>1, <2>2, <3>3, <3>5, <3>7, <5>1, <5>2 DEF AtStatus, StatusWord
      <4> QED
        BY <4>1, <4>2
    <3> QED
      BY <2>1, <2>2, <2>3, <3>1, <3>8 DEF IInv, Phase, TraceOk
  <2>4. CASE fuz.stop_soon
    BY <1>2, <2>1, <2>2, <2>4 DEF IInv, StopOk
  <2> QED
    BY <2>3, <2>4
<1> QED
  BY <1>1, <1>2 DEF ReadPid

(* The state after the status of a run has been read.                      *)
LEMMA FinishRunKeeps ==
  ASSUME IInv, FinishRun, UNCHANGED <<beh, run, opt, ctl, proc, trace, srv>>,
         st # <<>>, fuz.pc = "late" \/ (fuz.pc = "status" /\ ~fuz.stop_soon)
  PROVE  IInv'
<1>1. /\ Types' /\ fuz'.pc = "idle" /\ fuz'.stop_soon = fuz.stop_soon
      /\ fuz'.timed_out = fuz.timed_out
      /\ KeepsPid(Head(st).status) => fuz'.child_pid = fuz.child_pid
  BY Answers DEF IInv, Types, FuzType, FinishRun
<1>2. CASE fuz.stop_soon
  BY <1>1, <1>2 DEF IInv, StopOk
<1>3. CASE ~fuz.stop_soon
  <2>1. AtStatus /\ TraceOk
    BY <1>3 DEF IInv, Phase
  <2>2. PICK s \in Zombie \cup {"stopped"} :
          srv.pc = "loop" /\ st = <<StatusWord(s)>> /\ Waited(s)
    BY <2>1 DEF AtStatus
  <2>3. Head(st).status = s /\ st' = <<>>
    BY <2>2, Short DEF StatusWord, FinishRun
  <2>4. fuz.timed_out \in BOOLEAN
    BY DEF IInv, Types, FuzType
  <2>5. Quiet(fuz.timed_out)'
    BY <1>1, <2>1, <2>2, <2>3, <2>4 DEF Quiet, Waited, AtStatus, KeepsPid
  <2>6. AtIdle'
    BY <2>1, <2>2, <2>3, <2>5 DEF AtIdle, Ready, AtStatus
  <2> QED
    BY <1>1, <1>3, <2>1, <2>6 DEF IInv, Phase, TraceOk
<1> QED
  BY <1>2, <1>3

LEMMA ReadStatusKeeps ==
  ASSUME IInv, ReadStatus PROVE IInv'
<1>1. CASE ~fuz.stop_soon /\ st # <<>> /\ FinishRun /\ srv' = srv
  BY <1>1, FinishRunKeeps DEF ReadStatus
<1>2. CASE FailRun /\ UNCHANGED <<st, outcome>>
  BY <1>2, FailRunKeeps DEF ReadStatus, IInv, Types
<1> QED
  BY <1>1, <1>2 DEF ReadStatus

LEMMA ReadLateKeeps ==
  ASSUME IInv, ReadLate PROVE IInv'
<1>1. CASE st # <<>> /\ FinishRun /\ srv' = srv
  <2>1. /\ fuz.pc = "late"
        /\ UNCHANGED <<beh, run, opt, ctl, proc, trace, srv>>
    BY <1>1 DEF ReadLate
  <2>2. st # <<>> /\ FinishRun
    BY <1>1
  <2> QED
    BY <2>1, <2>2, FinishRunKeeps, Zenon
<1>2. CASE FailRun /\ UNCHANGED <<st, outcome>>
  BY <1>2, FailRunKeeps DEF ReadLate, IInv, Types
<1> QED
  BY <1>1, <1>2 DEF ReadLate

LEMMA ExpireKeeps ==
  ASSUME IInv, Expire PROVE IInv'
<1>1. /\ Types' /\ fuz'.pc = "kill" /\ fuz'.stop_soon = fuz.stop_soon
      /\ fuz'.timed_out = fuz.timed_out /\ fuz'.child_pid = fuz.child_pid
  BY DEF IInv, Types, FuzType, Expire
<1>2. CASE fuz.stop_soon
  BY <1>1, <1>2 DEF IInv, StopOk, Expire
<1>3. CASE ~fuz.stop_soon
  <2>1. AtStatus /\ TraceOk
    BY <1>3 DEF IInv, Phase, Expire
  <2>2. Serving => Serving'
    BY <1>1 DEF Serving, Expire
  <2>3. ASSUME NEW s, Waited(s) PROVE Waited(s)'
    BY <1>1, <2>3 DEF Waited, Expire
  <2>4. AtStatus'
    BY <1>1, <2>1, <2>2, <2>3 DEF AtStatus, Expire
  <2> QED
    BY <1>1, <1>3, <2>1, <2>4 DEF IInv, Phase, TraceOk, Expire
<1> QED
  BY <1>2, <1>3

LEMMA KillChildKeeps ==
  ASSUME IInv, KillChild PROVE IInv'
<1>1. /\ Types' /\ fuz'.pc = "late" /\ fuz'.stop_soon = fuz.stop_soon
      /\ fuz'.timed_out = TRUE /\ fuz'.child_pid = fuz.child_pid
  BY KillTypes DEF IInv, Types, FuzType, KillChild
<1>2. proc'.pid = proc.pid /\ fuz.pc = "kill" /\ proc' = Kill(fuz.child_pid)
      /\ UNCHANGED <<beh, run, outcome, opt, ctl, st, srv, trace>>
  BY KillTypes DEF KillChild, IInv, Types, FuzType
<1>3. CASE fuz.stop_soon
  <2>1. proc'.state \in Alive => srv.pc = "killed_unannounced"
    BY <1>2, <1>3, KillTypes DEF IInv, Types, FuzType, StopOk
  <2> QED
    BY <1>1, <1>2, <1>3, <2>1 DEF IInv, StopOk
<1>4. CASE ~fuz.stop_soon
  <2>1. AtStatus /\ TraceOk
    BY <1>2, <1>4 DEF IInv, Phase
  <2>2. fuz.child_pid = proc.pid
    BY <2>1 DEF AtStatus
  <2>3. proc.pid > 0 => proc' = IF proc.state \in Alive
                                  THEN [proc EXCEPT !.state = "killed"] ELSE proc
    BY <1>2, <2>2 DEF Kill
  <2>4. proc.pid > 0 => proc'.state = IF proc.state \in Alive THEN "killed" ELSE proc.state
    BY <2>3 DEF IInv, Types, ProcType
  <2>5. proc.pid > 0 => proc'.input = proc.input
    BY <2>3 DEF IInv, Types, ProcType
  <2>6. Serving => Serving'
    BY <1>1, <1>2, <2>4, <2>5 DEF Serving, Alive, Zombie
  <2>7. ASSUME NEW s, Waited(s) PROVE Waited(s)'
    BY <1>1, <1>2, <2>4, <2>7 DEF Waited, Alive, Zombie
  <2>8. AtStatus'
    BY <1>1, <1>2, <2>1, <2>2, <2>6, <2>7 DEF AtStatus
  <2> QED
    BY <1>1, <1>2, <1>4, <2>1, <2>8 DEF IInv, Phase, TraceOk
<1> QED
  BY <1>3, <1>4

LEMMA StopKeeps ==
  ASSUME IInv, Stop PROVE IInv'
<1>1. /\ Types' /\ fuz'.pc = fuz.pc /\ fuz'.stop_soon = TRUE
      /\ fuz'.timed_out = fuz.timed_out /\ fuz'.child_pid = fuz.child_pid
  BY KillTypes DEF IInv, Types, FuzType, Stop
<1>2. /\ proc' = Kill(fuz.child_pid) /\ srv' = KillServer /\ st' = st
      /\ proc'.pid = proc.pid /\ fuz.child_pid \in Nat
      /\ Phase /\ fuz.pc # "ended"
  BY KillTypes DEF Stop, IInv, Types, FuzType
<1>3. fuz.pc = "late" => fuz.timed_out
  BY <1>2 DEF Phase, AtStatus
<1>4. ASSUME proc'.state \in Alive
      PROVE  \/ srv'.pc = "killed_unannounced"
             \/ fuz.pc = "pid" /\ st # <<>> /\ Head(st) = PidWord /\ proc.pid > 0
  <2>1. proc.state \in Alive /\ ~(proc.pid > 0 /\ fuz.child_pid = proc.pid)
    BY <1>2, <1>4, KillTypes
  <2>2. \A k \in BOOLEAN : ~Quiet(k)
    BY <2>1 DEF Quiet, Alive
  <2>3. ~Gone
    BY <2>1 DEF Gone, Alive
  <2>4. ~AtStart /\ ~AtDict
    BY <2>1 DEF AtStart, AtDict, Alive
  <2>5. ~AtIdle
    BY <2>2, <2>3 DEF AtIdle, Ready, IInv, Types, FuzType
  <2>6. ~AtStatus
    BY <2>1 DEF AtStatus, Serving, Waited
  <2>7. fuz.pc = "pid" /\ AtPid
    BY <1>2, <2>4, <2>5, <2>6 DEF Phase, IInv, Types, FuzType
  <2>8. CASE srv.pc = "announce"
    BY <1>2, <2>8, KillTypes
  <2>9. CASE srv.pc # "announce"
    <3>1. proc.pid > 0 /\ (st = <<PidWord>> \/ \E y : st = <<PidWord, y>>)
      BY <2>2, <2>3, <2>7, <2>9 DEF AtPid, Ready, Serving, Waited, IInv, Types, SrvType
    <3> QED
      BY <2>7, <3>1, Short
  <2> QED
    BY <2>8, <2>9
<1> QED
  BY <1>1, <1>2, <1>3, <1>4, KillTypes DEF IInv, StopOk, PidWord

LEMMA DeinitKeeps ==
  ASSUME IInv, Deinit PROVE IInv'
<1>1. /\ Types' /\ fuz'.pc = "ended" /\ fuz'.stop_soon = fuz.stop_soon
  BY KillTypes DEF IInv, Types, FuzType, Deinit
<1>2. CASE fuz.stop_soon
  <2>1. proc'.state \in Alive => srv.pc = "killed_unannounced"
    BY <1>2, KillTypes DEF Deinit, IInv, Types, FuzType, StopOk
  <2> QED
    BY <1>1, <1>2, <2>1, KillTypes DEF IInv, StopOk, Deinit
<1> QED
  BY <1>1, <1>2 DEF IInv
-----------------------------------------------------------------------------
(***************************************************************************)
(* The theorems.                                                           *)
(***************************************************************************)
LEMMA InitIInv == Init => IInv
<1> SUFFICES ASSUME Init PROVE IInv
  OBVIOUS
<1>1. fuz \in FuzType /\ srv \in SrvType
  BY DEF Init, FuzType, SrvType, Dead
<1>2. proc \in ProcType
  BY ForkServerAssumption DEF Init, ProcType
<1>3. run \in 0 .. MaxRuns /\ opt \in Handshakes /\ ctl \in Seq(Word)
      /\ st \in Seq(Answer) /\ trace \subseteq 0 .. MaxRuns
  BY ForkServerAssumption DEF Init
<1>4. fuz.pc = "start" /\ ~fuz.stop_soon /\ AtStart /\ TraceOk
  BY DEF Init, AtStart, TraceOk
<1> QED
  BY <1>1, <1>2, <1>3, <1>4 DEF IInv, Types, Phase

LEMMA StutterKeeps ==
  ASSUME IInv, UNCHANGED vars PROVE IInv'
<1> USE DEF vars
<1>1. Types' /\ PidWord' = PidWord
  BY DEF IInv, Types, PidWord
<1>2. AtStart' = AtStart /\ AtDict' = AtDict /\ Gone' = Gone
  BY DEF AtStart, AtDict, Gone
<1>3. /\ \A k : Quiet(k)' = Quiet(k)
      /\ \A s : Waited(s)' = Waited(s)
      /\ Serving' = Serving
  BY DEF Quiet, Waited, Serving
<1>4. \A k, rest : Ready(k, rest)' = Ready(k, rest)
  BY <1>3 DEF Ready
<1>5. AtIdle => AtIdle'
  BY <1>2, <1>4 DEF AtIdle
<1>6. AtPid => AtPid'
  BY <1>1, <1>2, <1>3, <1>4 DEF AtPid
<1>7. AtStatus => AtStatus'
  BY <1>3 DEF AtStatus
<1>8. StopOk => StopOk'
  BY <1>1 DEF StopOk
<1> QED
  BY <1>1, <1>2, <1>5, <1>6, <1>7, <1>8 DEF IInv, Phase, TraceOk

LEMMA NextIInv ==
  ASSUME \A h \in Handshakes : ~DeniesAlone(h), IInv, [Next]_vars
  PROVE  IInv'
<1>1. CASE Server
  BY <1>1, SrvHelloKeeps, SrvOptionsKeeps, SrvShmFailsKeeps, SrvReadKeeps,
     SrvWriteOffKeeps, SrvForkKeeps, SrvForkFailsKeeps, SrvContinueKeeps,
     SrvAnnounceKeeps, SrvWaitKeeps, SrvRelayKeeps DEF Server
<1>2. CASE Process
  BY <1>2, ProcReadsKeeps, ProcReturnsKeeps, ProcCrashesKeeps DEF Process
<1>3. CASE Fuzzer
  BY <1>3, StartFailsKeeps, StartHelloKeeps, StartDictKeeps, WriteInputKeeps,
     RequestRunKeeps, ReadPidKeeps, ReadStatusKeeps, ExpireKeeps,
     KillChildKeeps, ReadLateKeeps, DeinitKeeps DEF Fuzzer
<1>4. CASE Stop
  BY <1>4, StopKeeps
<1>5. CASE Ended \/ UNCHANGED vars
  BY <1>5, StutterKeeps DEF Ended
<1> QED
  BY <1>1, <1>2, <1>3, <1>4, <1>5 DEF Next

LEMMA Invariant ==
  ASSUME \A h \in Handshakes : ~DeniesAlone(h)
  PROVE  Spec => []IInv
  BY InitIInv, NextIInv, PTL DEF Spec

LEMMA InvInStep == IInv => InStep
<1> SUFFICES ASSUME IInv, fuz.pc = "idle", ~fuz.stop_soon, srv.pc \notin Dead
             PROVE  InStep
  BY DEF InStep
<1>1. Ready(fuz.timed_out, <<>>) /\ trace \subseteq {run}
  BY DEF IInv, Phase, AtIdle, Gone, Dead, TraceOk
<1>2. st = <<>> /\ srv.pc \in {"loop", "options"} /\ ~srv.first
  BY <1>1 DEF Ready
<1>3. proc.state \notin {"fresh", "working"}
  BY <1>1 DEF Ready, Quiet, IInv, Types, FuzType
<1>4. ASSUME ctl # <<>> 
      PROVE  srv.pc = "options" /\ Len(ctl) = 1 /\ ctl[1].enabled
  <2>1. PICK w \in Word : srv.pc = "options" /\ ctl = <<w>> \o <<>> /\ w.enabled
    BY <1>1, <1>4 DEF Ready
  <2>2. ctl = <<w>>
    BY <2>1, Short
  <2> QED
    BY <2>1, <2>2, Short
<1> QED
  BY <1>1, <1>2, <1>3, <1>4 DEF InStep

(***************************************************************************)
(* Every variable keeps its type, whatever the number of runs and of       *)
(* inputs per process.                                                     *)
(***************************************************************************)
THEOREM TypeCorrect ==
  ASSUME \A h \in Handshakes : ~DeniesAlone(h)
  PROVE  Spec => []TypeOK
<1>1. IInv => TypeOK
  BY DEF IInv, Types, TypeOK, FuzType, SrvType
<1> QED
  BY <1>1, Invariant, PTL

(***************************************************************************)
(* afl-fuzz, the server and the process stay in step: between two runs of  *)
(* afl_fsrv_run_target nothing is left in a pipe that a later read could   *)
(* take for its answer, the process is not running, and trace_bits holds   *)
(* the last run only, however time limit, kill, stop and exit fall.        *)
(***************************************************************************)
THEOREM PipesInStep ==
  ASSUME \A h \in Handshakes : ~DeniesAlone(h)
  PROVE  Spec => []InStep
  BY Invariant, InvInStep, PTL

(***************************************************************************)
(* handle_stop_sig and afl_fsrv_deinit leave no process behind, except one *)
(* whose id the killed server had not written yet.                         *)
(***************************************************************************)
THEOREM LeavesOnlyUnannounced ==
  ASSUME \A h \in Handshakes : ~DeniesAlone(h)
  PROVE  Spec => []OnlyUnannouncedLeft
<1>1. IInv => OnlyUnannouncedLeft
  BY DEF IInv, StopOk, OnlyUnannouncedLeft
<1> QED
  BY <1>1, Invariant, PTL
-----------------------------------------------------------------------------
(***************************************************************************)
(* The refinement of RunTarget, but for its fairness, which only TLC       *)
(* checks.  WriteInput is a request, FinishRun an answer, the step to      *)
(* "ended" an end; all others leave the caller's view alone.               *)
(***************************************************************************)
LEMMA StateOf ==
  ASSUME IInv
  PROVE  /\ fuz.pc \in {"start", "dict", "idle"} => AbstractState = "idle"
         /\ fuz.pc = "ended" => AbstractState = "ended"
         /\ fuz.pc \in {"request", "pid", "status", "kill", "late", "stopping"}
              => AbstractState = "busy"
         /\ fuz.pc # "ended" => AbstractState # "ended"
  BY DEF AbstractState, IInv, Types, FuzType

(* The outcome of a run is one that its input can have. *)
LEMMA FinishAnswers ==
  ASSUME IInv, FinishRun, st # <<>>, beh' = beh, run' = run, IInv',
         fuz.pc = "late" \/ (fuz.pc = "status" /\ ~fuz.stop_soon)
  PROVE  Abstract!Answer
<1>1. AbstractState = "busy"
  BY StateOf
<1>2. AbstractState' = "idle"
  <2>1. fuz'.pc = "idle"
    BY DEF FinishRun, IInv, Types, FuzType
  <2> QED
    BY <2>1, StateOf DEF AbstractState
<1>3. outcome' \in Abstract!Outcomes(beh[run])
  <2>1. CASE fuz.timed_out
    BY <2>1 DEF FinishRun, Classify, Abstract!Outcomes
  <2>2. CASE ~fuz.timed_out
    <3>1. fuz.pc = "status" /\ ~fuz.stop_soon /\ AtStatus
      BY <2>2 DEF IInv, StopOk, Phase, AtStatus, Types, FuzType
    <3>2. PICK s \in Zombie \cup {"stopped"} : st = <<StatusWord(s)>> /\ Waited(s)
      BY <3>1 DEF AtStatus
    <3>3. Head(st).status = s
      BY <3>2, Short DEF StatusWord
    <3>4. outcome' = IF s \in {"crashed", "killed"} THEN "CRASH" ELSE "OK"
      BY <2>2, <3>3 DEF FinishRun, Classify
    <3>5. \/ outcome' = "CRASH" /\ beh[run] = "crash"
          \/ outcome' = "OK" /\ beh[run] = "return"
      BY <3>1, <3>2, <3>4 DEF Waited, Zombie
    <3> QED
      BY <3>5 DEF Abstract!Outcomes
  <2> QED
    BY <2>1, <2>2
<1> QED
  BY <1>1, <1>2, <1>3 DEF Abstract!Answer

LEMMA StepRefines ==
  ASSUME IInv, IInv', [Next]_vars
  PROVE  [Abstract!Next]_(Abstract!vars)
<1>0. /\ fuz'.pc \in {"start", "dict", "idle"} => AbstractState' = "idle"
      /\ fuz'.pc = "ended" => AbstractState' = "ended"
      /\ fuz'.pc \in {"request", "pid", "status", "kill", "late", "stopping"}
           => AbstractState' = "busy"
  BY DEF AbstractState
<1>1. ASSUME UNCHANGED <<beh, run, outcome>>, fuz'.pc = "ended"
      PROVE  [Abstract!Next]_(Abstract!vars)
  <2>1. AbstractState' = "ended"
    BY <1>0, <1>1
  <2>2. CASE AbstractState = "ended"
    BY <1>1, <2>1, <2>2 DEF Abstract!vars
  <2>3. CASE AbstractState # "ended"
    BY <1>1, <2>1, <2>3 DEF Abstract!Next, Abstract!End
  <2> QED
    BY <2>2, <2>3
<1>2. ASSUME UNCHANGED <<beh, run, outcome>>, AbstractState' = AbstractState
      PROVE  [Abstract!Next]_(Abstract!vars)
  BY <1>2 DEF Abstract!vars
<1>3. ASSUME UNCHANGED <<beh, run, outcome, fuz>>
      PROVE  [Abstract!Next]_(Abstract!vars)
  BY <1>2, <1>3 DEF AbstractState
<1>4. ASSUME UNCHANGED <<beh, run, outcome>>, FailRun,
             fuz.pc \in {"request", "pid", "status", "late"}
      PROVE  [Abstract!Next]_(Abstract!vars)
  <2>1. fuz'.pc \in {"stopping", "ended"}
    BY <1>4 DEF FailRun, Fatal, IInv, Types, FuzType
  <2> QED
    BY <1>0, <1>1, <1>2, <1>4, <2>1, StateOf
<1>5. ASSUME Fatal PROVE fuz'.pc = "ended"
  BY <1>5 DEF Fatal, IInv, Types, FuzType
<1>6. CASE Server
  <2>1. UNCHANGED <<beh, run, outcome, fuz>>
    BY <1>6 DEF Server, SrvHello, SrvOptions, SrvShmFails, SrvRead, SrvWriteOff,
       SrvFork, SrvForkFails, SrvContinue, SrvAnnounce, SrvWait, SrvRelay
  <2> QED
    BY <1>3, <2>1
<1>7. CASE Process
  BY <1>3, <1>7 DEF Process, ProcReads, ProcReturns, ProcCrashes
<1>8. CASE StartFails \/ StartHello \/ StartDict
  <2>1. /\ UNCHANGED <<beh, run, outcome>> /\ fuz.pc \in {"start", "dict"}
        /\ \/ Fatal
           \/ fuz' = [fuz EXCEPT !.pc = "idle"]
           \/ fuz' = [fuz EXCEPT !.pc = "dict"]
    BY <1>8 DEF StartFails, StartHello, StartDict
  <2>2. fuz'.pc \in {"ended", "idle", "dict"}
    BY <1>5, <2>1 DEF IInv, Types, FuzType
  <2> QED
    BY <1>0, <1>1, <1>2, <2>1, <2>2, StateOf
<1>9. CASE WriteInput
  <2>1. /\ fuz'.pc = "request" /\ fuz.pc = "idle" /\ run < MaxRuns
        /\ run' = run + 1 /\ outcome' = "none" /\ beh' = beh
    BY <1>9 DEF WriteInput, IInv, Types, FuzType
  <2> QED
    BY <1>0, <2>1, StateOf DEF Abstract!Next, Abstract!Request
<1>10. CASE RequestRun
  <2>1. CASE FailRun
    BY <1>4, <1>10, <2>1 DEF RequestRun
  <2>2. CASE ~FailRun
    <3>1. fuz'.pc = "pid" /\ fuz.pc = "request" /\ UNCHANGED <<beh, run, outcome>>
      BY <1>10, <2>2 DEF RequestRun, IInv, Types, FuzType
    <3> QED
      BY <1>0, <1>2, <3>1, StateOf
  <2> QED
    BY <2>1, <2>2
<1>11. CASE ReadPid
  <2>1. CASE FailRun
    BY <1>4, <1>11, <2>1 DEF ReadPid
  <2>2. CASE ~FailRun
    <3>1. fuz'.pc = "status" /\ fuz.pc = "pid" /\ UNCHANGED <<beh, run, outcome>>
      BY <1>11, <2>2 DEF ReadPid, IInv, Types, FuzType
    <3> QED
      BY <1>0, <1>2, <3>1, StateOf
  <2> QED
    BY <2>1, <2>2
<1>12. CASE ReadStatus
  <2>1. CASE FailRun /\ UNCHANGED <<st, outcome>>
    BY <1>4, <1>12, <2>1 DEF ReadStatus
  <2>2. CASE ~fuz.stop_soon /\ st # <<>> /\ FinishRun
    BY <1>12, <2>2, FinishAnswers DEF ReadStatus, Abstract!Next
  <2> QED
    BY <1>12, <2>1, <2>2 DEF ReadStatus
<1>13. CASE ReadLate
  <2>1. CASE FailRun /\ UNCHANGED <<st, outcome>>
    BY <1>4, <1>13, <2>1 DEF ReadLate
  <2>2. CASE st # <<>> /\ FinishRun
    BY <1>13, <2>2, FinishAnswers DEF ReadLate, Abstract!Next
  <2> QED
    BY <1>13, <2>1, <2>2 DEF ReadLate
<1>14. CASE Expire \/ KillChild
  <2>1. /\ fuz'.pc \in {"kill", "late"} /\ fuz.pc \in {"status", "kill"}
        /\ UNCHANGED <<beh, run, outcome>>
    BY <1>14 DEF Expire, KillChild, IInv, Types, FuzType
  <2> QED
    BY <1>0, <1>2, <2>1, StateOf
<1>15. CASE Deinit
  <2>1. fuz'.pc = "ended" /\ UNCHANGED <<beh, run, outcome>>
    BY <1>15 DEF Deinit, IInv, Types, FuzType
  <2> QED
    BY <1>1, <2>1
<1>16. CASE Stop
  <2>1. fuz'.pc = fuz.pc /\ UNCHANGED <<beh, run, outcome>>
    BY <1>16 DEF Stop, IInv, Types, FuzType
  <2> QED
    BY <1>2, <2>1 DEF AbstractState
<1>17. CASE Ended \/ UNCHANGED vars
  BY <1>3, <1>17 DEF Ended, vars
<1> QED
  BY <1>6, <1>7, <1>8, <1>9, <1>10, <1>11, <1>12, <1>13, <1>14, <1>15, <1>16,
     <1>17 DEF Next, Fuzzer

(***************************************************************************)
(* To its callers fuzz_run_target is RunTarget: every request is answered  *)
(* once, in order, with an outcome its own input can have, or the campaign *)
(* ends; so time limit, kill, exit and stop may fall as they like.         *)
(***************************************************************************)
THEOREM RefinesRunTarget ==
  ASSUME \A h \in Handshakes : ~DeniesAlone(h)
  PROVE  Spec => Abstract!Init /\ [][Abstract!Next]_(Abstract!vars)
<1>1. Init => Abstract!Init
  BY DEF Init, Abstract!Init, AbstractState, Abstract!Behaviours
<1>2. IInv /\ IInv' /\ [Next]_vars => [Abstract!Next]_(Abstract!vars)
  BY StepRefines
<1> QED
  BY <1>1, <1>2, Invariant, PTL DEF Spec

(***************************************************************************)
(* An outcome is that of the input it was asked for: what CmpLog's fork    *)
(* server does not give a target that offers a dictionary alone, any other *)
(* handshake does.                                                         *)
(***************************************************************************)
THEOREM OutcomesOfInputs ==
  ASSUME \A h \in Handshakes : ~DeniesAlone(h)
  PROVE  Spec => []OutcomeOfInput
<1> DEFINE BehOk == beh \in [0 .. MaxRuns -> {"return", "crash", "hang"}]
           Inv == IInv /\ BehOk /\ OutcomeOfInput
<1>1. Init => Inv
  BY InitIInv DEF Init, OutcomeOfInput
<1>2. ASSUME Inv, [Next]_vars PROVE Inv'
  <2>1. IInv' /\ [Abstract!Next]_(Abstract!vars)
    BY <1>2, NextIInv, StepRefines
  <2>2. beh' = beh /\ beh[run] \in {"return", "crash", "hang"}
    BY <1>2, <2>1 DEF Abstract!Next, Abstract!Request, Abstract!Answer,
       Abstract!End, Abstract!vars, IInv, Types
  <2>3. OutcomeOfInput'
    <3>1. CASE Abstract!Request
      BY <3>1 DEF Abstract!Request, OutcomeOfInput
    <3>2. CASE Abstract!Answer
      BY <2>2, <3>2 DEF Abstract!Answer, Abstract!Outcomes, OutcomeOfInput
    <3>3. CASE UNCHANGED <<beh, run, outcome>>
      BY <1>2, <3>3 DEF OutcomeOfInput
    <3> QED
      BY <2>1, <3>1, <3>2, <3>3 DEF Abstract!Next, Abstract!End, Abstract!vars
  <2> QED
    BY <1>2, <2>1, <2>2, <2>3
<1>3. Inv => OutcomeOfInput
  OBVIOUS
<1> QED
  BY <1>1, <1>2, <1>3, PTL DEF Spec
=============================================================================
