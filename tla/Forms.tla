-------------------------------- MODULE Forms --------------------------------
(***************************************************************************)
(* The dialogs in which rows are made and edited, as tables: what a form   *)
(* asks for, what it is filled with when a row is edited, what it must     *)
(* have before it can be saved, and what is stored.  FormDialogs runs      *)
(* these tables.                                                           *)
(*                                                                         *)
(* A row lives in a place: a project, an epic of it, a user story of that, *)
(* and the test case(s) it is about.  "Levels" are the parts of the place; *)
(* everything else a form asks for is an input with a name.                *)
(***************************************************************************)
EXTENDS Naturals, Sequences, FiniteSets

Levels == {"project", "epic", "story", "cases"}

\* A select: what it empties when something is chosen in it, whether "None"
\* can be chosen again, whether it offers active projects only.
Select(clears, blank, activeOnly) ==
    [clears |-> clears, blank |-> blank, activeOnly |-> activeOnly]

NoSelects == [l \in {} |-> Select({}, FALSE, FALSE)]

\* selects, inputs: what the form shows; loaded: what an edited row fills;
\* stored: what a save sends and the server keeps; needs: what must be
\* filled; droppedWhenInactive: levels an edited row of an inactive project
\* does not fill.
Form(selects, inputs, loaded, stored, needs, dropped) ==
    [selects |-> selects, inputs |-> inputs, loaded |-> loaded,
     stored |-> stored, needs |-> needs, dropped |-> dropped,
     picks |-> "none",      \* "one" or "many" cases from a list of its own
     newNeeds |-> {},       \* what must be filled in a new row only
     preset |-> FALSE,      \* starts in the project of the filter bar
     awaits |-> FALSE,      \* edits a row loaded for the purpose
     linked |-> FALSE,      \* so does a link from another page
     guarded |-> FALSE,     \* the save button waits for the answer
     rehangs |-> FALSE]     \* a bulk action offers every epic there is

----------------------------------------------------------------------------
(* pages/DefectsPage.tsx *)

DefectsInputs ==
    {"title", "severity", "priority", "status", "assigned_to",
     "jira_ticket_id", "description"}

\* Fault: another epic leaves the test case where it was.
DefectsSelectsKeepingCase ==
    [project |-> Select({"epic", "story", "cases"}, FALSE, FALSE),
     epic    |-> Select({"story"}, TRUE, FALSE),
     story   |-> Select({"cases"}, TRUE, FALSE)]

DefectsSelects ==
    [project |-> Select({"epic", "story", "cases"}, FALSE, FALSE),
     epic    |-> Select({"story", "cases"}, TRUE, FALSE),
     story   |-> Select({"cases"}, TRUE, FALSE)]

\* openEditDialog fills everything, from the row on the page.
DefectsLoaded == Levels \cup DefectsInputs

\* The payload of handleSave is the form, and the server takes all of it.
DefectsStored == Levels \cup DefectsInputs

DefectsNeeds == {"project", "cases", "title", "assigned_to"}

DefectsForm ==
    [Form(DefectsSelects, DefectsInputs, DefectsLoaded, DefectsStored,
          DefectsNeeds, {}) EXCEPT !.picks = "one", !.preset = TRUE, !.linked = TRUE]

----------------------------------------------------------------------------
(* pages/TestCasesPage.tsx *)

TestCasesInputs ==
    {"title", "type", "priority", "status", "version", "assigned_to",
     "isAutomated", "description", "preconditions", "steps", "tags"}

TestCasesSelects ==
    [project |-> Select({"epic", "story"}, FALSE, TRUE),
     epic    |-> Select({"story"}, FALSE, FALSE),
     story   |-> Select({}, FALSE, FALSE)]

\* Fault: the dialog starts with no steps.
TestCasesLoadedWithoutSteps ==
    {"project", "epic", "story"} \cup (TestCasesInputs \ {"steps"})

TestCasesLoaded == {"project", "epic", "story"} \cup TestCasesInputs

TestCasesStored == {"project", "epic", "story"} \cup TestCasesInputs

\* Every step, where there is one, has an action and an expected result.
TestCasesNeeds ==
    {"project", "epic", "story", "title", "type", "priority", "status", "steps"}

TestCasesForm ==
    Form(TestCasesSelects, TestCasesInputs, TestCasesLoaded, TestCasesStored,
         TestCasesNeeds, {"project", "epic", "story"})

----------------------------------------------------------------------------
(* pages/TestSuitesPage.tsx *)

TestSuitesInputs == {"name", "description", "isActive"}

TestSuitesSelects ==
    [project |-> Select({"epic", "story", "cases"}, FALSE, TRUE),
     epic    |-> Select({"story", "cases"}, TRUE, FALSE),
     story   |-> Select({"cases"}, TRUE, FALSE)]

\* handleEditSuite: a suite has no epic and no story of its own, they only
\* narrow the list of cases down.
TestSuitesLoaded == {"project", "cases"} \cup TestSuitesInputs

\* create_suite and update_suite drop epic_id and user_story_id.
TestSuitesStored == {"project", "cases"} \cup TestSuitesInputs

TestSuitesNeeds == {"project", "name"}

TestSuitesForm ==
    [Form(TestSuitesSelects, TestSuitesInputs, TestSuitesLoaded,
          TestSuitesStored, TestSuitesNeeds, {"project"})
     EXCEPT !.picks = "many", !.newNeeds = {"cases"}, !.awaits = TRUE]

----------------------------------------------------------------------------
(* pages/TestRunsPage.tsx *)

TestRunsInputs == {"name", "testSuiteId", "environment", "description"}

TestRunsLoaded == TestRunsInputs

TestRunsStored == TestRunsInputs

TestRunsForm ==
    Form(NoSelects, TestRunsInputs, TestRunsLoaded, TestRunsStored,
         {"name", "testSuiteId"}, {})

----------------------------------------------------------------------------
(* pages/RequirementsPage.tsx *)

EpicsInputs ==
    {"title", "labels", "startDate", "dueDate", "priority", "assignedTo"}

EpicsSelects == [project |-> Select({}, FALSE, TRUE)]

EpicsLoaded == {"project"} \cup EpicsInputs

EpicsStored == {"project"} \cup EpicsInputs

EpicsNeeds == {"project", "title", "priority", "startDate", "dueDate"}

EpicsForm ==
    Form(EpicsSelects, EpicsInputs, EpicsLoaded, EpicsStored, EpicsNeeds, {})

StoriesInputs ==
    {"title", "description", "acceptanceCriteria", "priority", "status",
     "storyPoints", "assignedTo"}

\* Fault: another project leaves the epic where it was.
StoriesSelectsKeepingEpic ==
    [project |-> Select({}, FALSE, TRUE), epic |-> Select({}, FALSE, FALSE)]

StoriesSelects ==
    [project |-> Select({"epic"}, FALSE, TRUE), epic |-> Select({}, FALSE, FALSE)]

StoriesLoaded == {"project", "epic"} \cup StoriesInputs

StoriesStored == {"project", "epic"} \cup StoriesInputs

StoriesNeeds == {"project", "epic", "title", "priority", "status"}

StoriesForm ==
    [Form(StoriesSelects, StoriesInputs, StoriesLoaded, StoriesStored,
          StoriesNeeds, {"project"}) EXCEPT !.rehangs = TRUE]

----------------------------------------------------------------------------
(* pages/UsersPage.tsx: address and password are asked for new accounts,  *)
(* so that an edit is about the rest.                                      *)

UsersInputs == {"full_name", "role_id", "is_active"}

UsersLoaded == UsersInputs

UsersStored == UsersInputs

UsersForm ==
    [Form(NoSelects, UsersInputs, UsersLoaded, UsersStored,
          {"full_name", "role_id"}, {}) EXCEPT !.guarded = TRUE]

----------------------------------------------------------------------------
(* pages/RolesPage.tsx *)

RolesInputs == {"name", "description", "permissions"}

RolesLoaded == RolesInputs

RolesStored == RolesInputs

RolesForm ==
    [Form(NoSelects, RolesInputs, RolesLoaded, RolesStored, {"name"}, {})
     EXCEPT !.guarded = TRUE]

----------------------------------------------------------------------------
(* pages/ProjectsPage.tsx: the code of a project is only asked for once.  *)

ProjectsInputs == {"name", "category", "description", "isActive"}

ProjectsLoaded == ProjectsInputs

ProjectsStored == ProjectsInputs

ProjectsForm ==
    Form(NoSelects, ProjectsInputs, ProjectsLoaded, ProjectsStored,
         {"name", "category"}, {})

----------------------------------------------------------------------------
AllForms ==
    {DefectsForm, TestCasesForm, TestSuitesForm, TestRunsForm, EpicsForm,
     StoriesForm, UsersForm, RolesForm, ProjectsForm}
=============================================================================
