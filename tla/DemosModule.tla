----------------------------- MODULE DemosModule -----------------------------
(***************************************************************************)
(* demos_module.rama: demos and reports on them, with an index of demos by *)
(* match and indexes of reports by demo and by status.  A report moves     *)
(* from one status's partition to another's.                               *)
(*                                                                         *)
(* Left out: the texts of demos and reports.                               *)
(***************************************************************************)
EXTENDS RamaTopology

CONSTANT Events   \* the depot records that clients may append

VARIABLES demos, demosByMatch,    \* $$demos, $$demos-by-match as <<match, demo>>
          demoReports,            \* $$demo-reports
          reportsByStatus,        \* $$reports-by-status, as <<status, report>>
          reportsByDemo           \* $$reports-by-demo, as <<demo, report>>

storeVars == <<demos, demosByMatch, demoReports, reportsByStatus, reportsByDemo>>
vars == <<flightVars, storeVars>>

Init ==
  /\ FlightInit
  /\ demos = <<>> /\ demosByMatch = {}
  /\ demoReports = <<>> /\ reportsByStatus = {} /\ reportsByDemo = {}

---------------------------------------------------------------------------
(* create-demo *)

CreateDemoError(e) == Empty \in {e.demoId, e.matchId} \/ e.demoId \in DOMAIN demos

CreateDemo(s, e) ==
  /\ e.op = "create-demo" /\ ~CreateDemoError(e)
  /\ demos' = Put(demos, e.demoId, e.matchId)
  /\ Launch(s, e, e.demoId, e.matchId, "demo@match", NoLocals)
  /\ UNCHANGED <<demosByMatch, demoReports, reportsByStatus, reportsByDemo>>

ListDemo(s) ==
  /\ Ready(s, "demo@match")
  /\ demosByMatch' = demosByMatch \cup {<<event[s].matchId, event[s].demoId>>}
  /\ Finish(s)
  /\ UNCHANGED <<demos, demoReports, reportsByStatus, reportsByDemo>>

---------------------------------------------------------------------------
(* report-demo *)

ReportError(e) == Empty \in {e.reportId, e.demoId} \/ e.reportId \in DOMAIN demoReports

ReportDemo(s, e) ==
  /\ e.op = "report-demo" /\ ~ReportError(e)
  /\ demoReports' = Put(demoReports, e.reportId, [demoId |-> e.demoId, status |-> "REVIEW"])
  /\ Launch(s, e, e.reportId, "REVIEW", "report@review", NoLocals)
  /\ UNCHANGED <<demos, demosByMatch, reportsByStatus, reportsByDemo>>

ReportReview(s) ==
  /\ Ready(s, "report@review")
  /\ reportsByStatus' = reportsByStatus \cup {<<"REVIEW", event[s].reportId>>}
  /\ Hop(s, event[s].demoId, "report@demo", NoLocals)
  /\ UNCHANGED <<demos, demosByMatch, demoReports, reportsByDemo>>

ListReport(s) ==
  /\ Ready(s, "report@demo")
  /\ reportsByDemo' = reportsByDemo \cup {<<event[s].demoId, event[s].reportId>>}
  /\ Finish(s)
  /\ UNCHANGED <<demos, demosByMatch, demoReports, reportsByStatus>>

---------------------------------------------------------------------------
(* resolve-report: out of the old status's list first, then into the new's. *)

ResolveReport(s, e) ==
  /\ e.op = "resolve-report" /\ e.reportId \in DOMAIN demoReports
  /\ LET old == demoReports[e.reportId].status
     IN /\ demoReports' = [demoReports EXCEPT ![e.reportId].status = e.status]
        /\ Launch(s, e, e.reportId, old, "resolve@old", [old |-> old])
  /\ UNCHANGED <<demos, demosByMatch, reportsByStatus, reportsByDemo>>

\* Mutant: it is taken off the list it was reported to.
UnlistReview(s) ==
  /\ Ready(s, "resolve@old")
  /\ reportsByStatus' = reportsByStatus \ {<<"REVIEW", event[s].reportId>>}
  /\ Hop(s, event[s].status, "resolve@new", NoLocals)
  /\ UNCHANGED <<demos, demosByMatch, demoReports, reportsByDemo>>

ResolveUnlist(s) ==
  /\ Ready(s, "resolve@old")
  /\ reportsByStatus' = reportsByStatus \ {<<locals[s].old, event[s].reportId>>}
  /\ Hop(s, event[s].status, "resolve@new", NoLocals)
  /\ UNCHANGED <<demos, demosByMatch, demoReports, reportsByDemo>>

ResolveList(s) ==
  /\ Ready(s, "resolve@new")
  /\ reportsByStatus' = reportsByStatus \cup {<<event[s].status, event[s].reportId>>}
  /\ Finish(s)
  /\ UNCHANGED <<demos, demosByMatch, demoReports, reportsByDemo>>

---------------------------------------------------------------------------
Submit(s, e) == CreateDemo(s, e) \/ ReportDemo(s, e) \/ ResolveReport(s, e)
Resume(s) ==
  \/ ListDemo(s) \/ ReportReview(s) \/ ListReport(s)
  \/ ResolveUnlist(s) \/ ResolveList(s)

Next ==
  \/ \E s \in Slots, e \in Events : Submit(s, e)
  \/ \E s \in Slots : Resume(s)
Spec == Init /\ [][Next]_vars

---------------------------------------------------------------------------
(* For clients that resolve a report again only after the answer to the last *)
(* time: once everything is answered, a report is listed under its status    *)
(* and no other, also when it was resolved while the report itself was still *)
(* on its way to the list of "REVIEW" (both take the same link, in order).   *)
ReportListedOnce ==
  Quiescent => reportsByStatus = {<<demoReports[r].status, r>> : r \in DOMAIN demoReports}

\* Stored demos and reports are listed once everything submitted has been answered.
DemosListed ==
  Quiescent => /\ demosByMatch = {<<demos[d], d>> : d \in DOMAIN demos}
               /\ reportsByDemo = {<<demoReports[r].demoId, r>> : r \in DOMAIN demoReports}
=============================================================================
