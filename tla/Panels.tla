------------------------------- MODULE Panels -------------------------------
(***************************************************************************)
(* The panels of the browser client that show one thing in detail, as      *)
(* tables: the dialogs behind a row of a list, the two pages whose content *)
(* follows a choice, the search inside the bug dialog and the dashboard.   *)
(* DetailPanels runs these tables.                                         *)
(*                                                                         *)
(* What a panel is about is its subject.  Its content comes in parts: the  *)
(* "row" copied from the list, and what is asked for after opening, stage  *)
(* after stage.                                                            *)
(***************************************************************************)
EXTENDS Naturals, Sequences

\* What opening does: the parts copied from the list, the parts emptied, and
\* how one comes to another subject:
\*   "dialog"  modal; closed first, and its state outlives the closing
\*   "field"   the subject is a field of the dialog, whose state lives on too
\*   "page"    a page of its own, which starts afresh
Opening(kind, copied, cleared) ==
    [kind |-> kind, copied |-> copied, cleared |-> cleared]

\* The parts each stage asks for, and whether a later load makes an earlier one
\* void; the parts that a failed stage leaves as they were, the others being
\* emptied, and whether the next stage follows.
Loading(stages, guarded) == [stages |-> stages, guarded |-> guarded]
Failing(keeps, goesOn) == [keeps |-> keeps, goesOn |-> goesOn]

\* While it loads a panel is hidden ("whole"), keeps its lists shut but shows what
\* was chosen from them ("lists"), says so where it has nothing yet to show
\* ("bare"), or gives no sign ("never").
Panel(opening, loading, failing, hides, clicks) ==
    [opening |-> opening, loading |-> loading, failing |-> failing,
     hides |-> hides, clicks |-> clicks]

\* A dialog that shows the row it was opened from.
Snapshot ==
    Panel(Opening("dialog", {"row"}, {}), Loading(<<>>, FALSE),
          Failing({}, FALSE), "never", {})
----------------------------------------------------------------------------
(* pages/TestRunsPage.tsx: the details of a run *)

\* The executions of the run before are still there; the veil is over them.
RunViewOpening == Opening("dialog", {"row"}, {"bugs"})

\* The bugs of all executions are asked for at once, and one that fails counts
\* as none.
RunViewLoading == Loading(<<{"executions"}, {"bugs"}>>, FALSE)

RunViewFailing == Failing({}, FALSE)

\* Summary and results, under the veil as one.
RunViewShows == "whole"

\* A bug reported or linked at a step.
RunViewClicks == {"attach"}

RunView ==
    Panel(RunViewOpening, RunViewLoading, RunViewFailing, RunViewShows, RunViewClicks)
----------------------------------------------------------------------------
(* pages/TestSuitesPage.tsx: the details of a suite *)

\* Fault: the cases of the suite before stay.
SuiteViewOpeningKeepingCases == Opening("dialog", {"row"}, {})

SuiteViewOpening == Opening("dialog", {"row"}, {"cases"})

\* The suite itself is asked for again, together with its cases.
SuiteViewLoading == Loading(<<{"row", "cases"}>>, FALSE)

SuiteViewFailing == Failing({"row", "cases"}, FALSE)

SuiteViewShows == "bare"

SuiteView ==
    Panel(SuiteViewOpening, SuiteViewLoading, SuiteViewFailing, SuiteViewShows, {})
----------------------------------------------------------------------------
(* pages/DefectsPage.tsx: the details of a defect, and its attachments in    *)
(* the edit dialog                                                           *)

\* The attachments of the defect before stay until the answer comes.
DefectViewOpening == Opening("dialog", {"row"}, {})

DefectViewLoading == Loading(<<{"attachments"}>>, FALSE)

DefectViewFailing == Failing({}, FALSE)

DefectViewShows == "never"

DefectViewClicks == {"transition"}

DefectView ==
    Panel(DefectViewOpening, DefectViewLoading, DefectViewFailing,
          DefectViewShows, DefectViewClicks)

DefectEditOpening == Opening("dialog", {}, {})

DefectEditLoading == Loading(<<{"attachments"}>>, FALSE)

DefectEditFailing == Failing({}, FALSE)

DefectEditShows == "never"

DefectEditClicks == {"upload", "remove"}

DefectEdit ==
    Panel(DefectEditOpening, DefectEditLoading, DefectEditFailing,
          DefectEditShows, DefectEditClicks)
----------------------------------------------------------------------------
(* pages/ReportsPage.tsx: the runs of the project chosen, one of which can be *)
(* chosen for export; the choice goes when a list comes without the run       *)

ReportRunsLoading == Loading(<<{"runs"}>>, FALSE)

ReportRunsFailing == Failing({}, FALSE)

\* The picker of runs is disabled meanwhile; the run chosen before stays chosen,
\* and the buttons export it.
ReportRunsShows == "lists"

ReportRunsClicks == {"pick"}

ReportRuns ==
    Panel(Opening("page", {}, {}), ReportRunsLoading, ReportRunsFailing,
          ReportRunsShows, ReportRunsClicks)
----------------------------------------------------------------------------
(* pages/TestCaseDetailPage.tsx: the case and its versions *)

CaseDetailLoading == Loading(<<{"row", "versions"}>>, FALSE)

CaseDetailFailing == Failing({"row", "versions"}, FALSE)

CaseDetailShows == "whole"

\* Approve is offered too; the route calls a method the service does not have,
\* so that it always fails and changes nothing.
CaseDetailClicks == {"clone"}

CaseDetail ==
    Panel(Opening("page", {}, {}), CaseDetailLoading, CaseDetailFailing,
          CaseDetailShows, CaseDetailClicks)
----------------------------------------------------------------------------
(* components/executions/StepDefectDialog.tsx: bugs found for a search text *)

BugSearchOpening == Opening("field", {}, {"found"})

BugSearchLoading == Loading(<<{"found"}>>, TRUE)

BugSearchFailing == Failing({}, FALSE)

BugSearchShows == "bare"

BugSearchClicks == {"pick"}

BugSearch ==
    Panel(BugSearchOpening, BugSearchLoading, BugSearchFailing,
          BugSearchShows, BugSearchClicks)
----------------------------------------------------------------------------
(* pages/DashboardPage.tsx: four parts, one after another, each of which may  *)
(* fail alone; the executions are those of the runs just listed               *)

DashboardLoading ==
    Loading(<<{"cases"}, {"runs"}, {"executions"}, {"defects"}>>, FALSE)

\* A run whose executions do not come counts as one without.
DashboardFailing == Failing({"cases", "runs", "defects"}, TRUE)

DashboardShows == "never"

\* The timer.
DashboardClicks == {"refresh"}

Dashboard ==
    Panel(Opening("page", {}, {}), DashboardLoading, DashboardFailing,
          DashboardShows, DashboardClicks)
----------------------------------------------------------------------------
(* The dialogs that ask for nothing *)

ProjectView == Snapshot
RoleView == Snapshot
UserView == Snapshot
EpicView == Snapshot
StoryView == Snapshot
AuditDrawer == Snapshot

Snapshots == {ProjectView, RoleView, UserView, EpicView, StoryView, AuditDrawer}

Panels ==
    {RunView, SuiteView, DefectView, DefectEdit, ReportRuns, CaseDetail,
     BugSearch, Dashboard} \cup Snapshots
=============================================================================
