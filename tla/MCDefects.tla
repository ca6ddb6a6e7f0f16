------------------------------ MODULE MCDefects ------------------------------
(* Call sets for the model checking of DefectService. *)
EXTENDS DefectService

CONSTANTS d1, d2

Lists == [1..2 -> Rows]

\* Bulk calls that lock the rows in either order, one that names a row twice
\* with an unknown assignee, and single calls that meet them.
MixedCalls ==
    {BulkTransitionStatus(<<d1, d2>>, "Won't Fix"), BulkDelete(<<d2, d1>>),
     BulkAssign(<<d2, d2>>, Ghost)}
    \cup {AttachToStep(d1, s) : s \in Steps}
    \cup {UpdateDefect(d1, [status |-> "Retest"]), TransitionStatus(d1, "Reopened")}

\* Rows that POST /defects makes; a step is attached afterwards.
PlainDefects == {NewDefect}

\* Only what the governed endpoint can do.
GovernedCalls ==
    {TransitionStatus(d, s) : d \in Rows, s \in DOMAIN ValidTransitions}
    \cup {BulkTransitionStatus(ids, "Duplicate") : ids \in Lists}
    \cup {DeleteDefect(d) : d \in Rows}
=============================================================================
