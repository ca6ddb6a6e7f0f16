---------------------------- MODULE DefectService ----------------------------
(***************************************************************************)
(* DefectService and the routes of api/routes/defects.py: what each        *)
(* endpoint asks of the shared machinery of GovernedRows.  A cfg sets      *)
(* Transitions, Columns, Value, NewRows and Dangling to the definitions    *)
(* here, and Calls to some of the calls below.                             *)
(***************************************************************************)
EXTENDS GovernedRows, TLC

CONSTANTS
    Users,          \* users a defect can be assigned to
    Ghost,          \* a user id no row of users has
    Steps,          \* (execution, step number) pairs a defect can point at
    Null            \* SQL NULL

\* _VALID_TRANSITIONS
ValidTransitions ==
    "Open"        :> {"In Progress", "Won't Fix", "Duplicate"} @@
    "In Progress" :> {"Fixed", "Open"} @@
    "Fixed"       :> {"Verified", "Reopened"} @@
    "Verified"    :> {"Closed", "Reopened"} @@
    "Reopened"    :> {"In Progress", "Won't Fix"} @@
    "Closed"      :> {"Reopened"} @@
    "Won't Fix"   :> {"Reopened"} @@
    "Duplicate"   :> {}

\* A PUT takes any text for a status, also one the table does not know.
DefectValue ==
    [status      |-> DOMAIN ValidTransitions \cup {"Retest"},
     is_deleted  |-> {"false", "true"},
     severity    |-> {"Medium", "Critical"},
     assigned_to |-> Users \cup {Null, Ghost},
     step        |-> Steps \cup {Null}]

DefectColumns == DOMAIN DefectValue

NewDefect == [status |-> "Open", is_deleted |-> "false", severity |-> "Medium",
              assigned_to |-> Null, step |-> Null]

\* create_defect: status defaults to "Open".  attach_to_step without an
\* existing defect creates one that already points at the step.
CreatedDefects == {[NewDefect EXCEPT !.step = s] : s \in Steps \cup {Null}}

DanglingUsers == {Ghost}

----------------------------------------------------------------------------
(* Single-row handlers *)

\* PUT /defects/{id}: any columns, with no check of the table.
UpdateDefect(d, patch) ==
    [ids |-> <<d>>, set |-> patch, governed |-> FALSE, bulk |-> FALSE]

TransitionStatus(d, new_status) ==
    [ids |-> <<d>>, set |-> [status |-> new_status],
     governed |-> TRUE, bulk |-> FALSE]

DeleteDefect(d) == UpdateDefect(d, [is_deleted |-> "true"])

\* Link an existing defect to a step of an execution, and unlink it.
AttachToStep(d, s) == UpdateDefect(d, [step |-> s])
DetachFromStep(d) == UpdateDefect(d, [step |-> Null])

(* Bulk handlers *)

BulkDelete(ids) ==
    [ids |-> ids, set |-> [is_deleted |-> "true"], governed |-> FALSE, bulk |-> TRUE]

BulkTransitionStatus(ids, new_status) ==
    [ids |-> ids, set |-> [status |-> new_status], governed |-> TRUE, bulk |-> TRUE]

\* The user is not looked up: the foreign key is left to object.
BulkAssign(ids, user) ==
    [ids |-> ids, set |-> [assigned_to |-> user], governed |-> FALSE, bulk |-> TRUE]

BulkUpdate(ids, severity) ==
    [ids |-> ids, set |-> [severity |-> severity], governed |-> FALSE, bulk |-> TRUE]
=============================================================================
