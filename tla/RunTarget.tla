------------------------------ MODULE RunTarget ------------------------------
(***************************************************************************)
(* What fuzz_run_target promises its callers: for every request one        *)
(* outcome, and the outcome is that of the input of this request.  A run   *)
(* of an input that returns is OK unless it took too long, one that        *)
(* crashes is a crash unless it took too long, one that hangs can only be  *)
(* a timeout.  A stop or a failure of the fork server ends the campaign.   *)
(***************************************************************************)
EXTENDS Naturals

CONSTANT MaxRuns   \* requests of a campaign (-E)

VARIABLES
  beh,       \* what the target does with input number n
  run,       \* number of the current request
  state,     \* "idle", "busy" or "ended"
  outcome    \* what the last request returned

vars == <<beh, run, state, outcome>>

Behaviours == {"return", "crash", "hang"}

Outcomes(b) ==
  {"TMOUT"} \cup CASE b = "return" -> {"OK"}
                   [] b = "crash"  -> {"CRASH"}
                   [] b = "hang"   -> {}

Init ==
  /\ beh \in [0 .. MaxRuns -> Behaviours]
  /\ run = 0
  /\ state = "idle"
  /\ outcome = "none"

Request ==
  /\ state = "idle"
  /\ run < MaxRuns
  /\ run' = run + 1
  /\ state' = "busy"
  /\ outcome' = "none"
  /\ UNCHANGED beh

Answer ==
  /\ state = "busy"
  /\ outcome' \in Outcomes(beh[run])
  /\ state' = "idle"
  /\ UNCHANGED <<beh, run>>

End ==
  /\ state # "ended"
  /\ state' = "ended"
  /\ UNCHANGED <<beh, run, outcome>>

Next == Request \/ Answer \/ End

Spec == Init /\ [][Next]_vars /\ WF_vars(Answer \/ End)
=============================================================================
