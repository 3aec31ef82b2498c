----------------------------- MODULE MCDashboard -----------------------------
(***************************************************************************)
(* Profile, CoverageView and QueueView in one run.  They share no          *)
(* variable, so a behaviour of the three together is an interleaving of    *)
(* one of each, and a property of one of them holds of all interleavings   *)
(* if it holds where the other two stand still: `part` says which moves.   *)
(***************************************************************************)
EXTENDS Profile, CoverageView, QueueView

VARIABLE part

dashboardVars == <<vars, coverageVars, queueVars, part>>

DashboardInit ==
  /\ Init /\ CoverageInit /\ QueueInit
  /\ part \in {"cc", "explorer", "queue"}

Cc == part = "cc" /\ Next /\ UNCHANGED <<coverageVars, queueVars, part>>

InExplorer(step) ==
  part = "explorer" /\ step /\ UNCHANGED <<vars, queueVars, part>>

InQueue(step) ==
  part = "queue" /\ step /\ UNCHANGED <<vars, coverageVars, part>>

DashboardNext == Cc \/ InExplorer(CoverageNext) \/ InQueue(QueueNext)

DashboardSpec ==
  /\ DashboardInit /\ [][DashboardNext]_dashboardVars
  /\ \A p \in Polls : WF_dashboardVars(InExplorer(Page(p)))
  /\ WF_dashboardVars(InQueue(Recreate \/ Write))
  /\ \A r \in Requests : WF_dashboardVars(InQueue(Handle(r)))
=============================================================================
