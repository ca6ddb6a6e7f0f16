----------------------------- MODULE FormDialogs -----------------------------
(***************************************************************************)
(* The life of a dialog in which a row is made or edited.  Init picks one  *)
(* of the forms of module Forms.  A form holds a copy of the row it was    *)
(* opened for; choosing a project, an epic or a user story empties what is *)
(* below and, in forms that pick test cases, asks for the cases of the new *)
(* place; the list of the old place stays until the answer comes.          *)
(*                                                                         *)
(* Requests are never cancelled and are answered in any order.  The inputs *)
(* that are not part of the place are one value, "rest".                   *)
(***************************************************************************)
EXTENDS Forms, FiniteSetsExt, SequencesExt

CONSTANTS
    Projects, Epics, Stories, Cases,
    FirstTree,      \* at first: the project of an epic, the epic of a story,
                    \* the place of a test case
    None,           \* nothing chosen
    CaseHomes,      \* places a case can be in
    ActiveSets,     \* sets of projects the page may know to be active
    ListLimit,      \* cases in a list (100 in the code)
    MaxRows,        \* rows there can be
    MaxAsks,        \* bounds the lists of cases on their way
    MaxCalls,       \* bounds the saves on their way
    MaxChoices,     \* bounds what the user chooses (a row, or in a dialog)
    MaxClicks,      \* bounds how often he opens a dialog or saves
    MaxMishaps      \* bounds what others do, what goes wrong and what is rash

\* What a row can lie in or be about, and where such a thing can be.
Things == Epics \cup Stories \cup Cases
Places == [project : {None} \cup Projects, epic : {None} \cup Epics,
           story : {None} \cup Stories]
Homes(x) == {h \in Projects : x \in Epics} \cup {h \in Epics : x \in Stories}
            \cup {h \in CaseHomes : x \in Cases}

ASSUME FirstAssumption ==
    /\ DOMAIN FirstTree = Things
    /\ \A x \in Things : FirstTree[x] \in Homes(x)
    /\ CaseHomes \subseteq Places /\ ActiveSets \subseteq SUBSET Projects
    /\ None \notin Projects \cup Epics \cup Stories
    /\ \A e \in Epics : e \notin Stories \cup Cases
    /\ \A x \in Stories : x \notin Cases
ASSUME BoundsAssumption ==
    /\ ListLimit \in Nat \ {0} /\ MaxRows \in Nat \ {0}
    /\ MaxAsks \in Nat \ {0} /\ MaxCalls \in Nat \ {0}
    /\ MaxChoices \in Nat /\ MaxClicks \in Nat /\ MaxMishaps \in Nat

VARIABLES
    kind,           \* the form, see Forms
    active,         \* projects the page knows to be active
    tree,           \* where an epic, a story or a case is
    known,          \* where the page believes an epic or a story to be
    been,           \* history: where an epic, a story or a case has ever been
    rows,           \* rows[r]: {[at, by, edited]}, or the empty set
    listed,         \* listed[r]: {at}, the row in the page's list, or the empty set
    gone,           \* rows that have been deleted
    form,           \* the open dialog: editingX and dialogOpen
    options,        \* availableTestCases
    asks,           \* lists of cases on their way, in the order of sending
    edit,           \* the row being loaded for a dialog that is not open yet
    calls,          \* saves on their way
    sessions,       \* history: how many dialogs have been opened for a new row
    trouble,        \* history: what has gone wrong, see Trouble
    choices,        \* history: counts up to MaxChoices
    clicks,         \* history: counts up to MaxClicks
    mishaps         \* history: counts up to MaxMishaps

history == <<sessions, trouble>>
places == <<tree, known, been>>
world == <<kind, active, places, listed, gone>>
vars == <<world, rows, form, options, asks, edit, calls, history, choices, clicks, mishaps>>
----------------------------------------------------------------------------
Place == {"project", "epic", "story"}
Parts == Levels \cup {"rest"}
Empty == [project |-> None, epic |-> None, story |-> None, cases |-> {}, rest |-> "blank"]
NoForm == [id |-> -1]
NoEdit == [id |-> -1]
Open == form # NoForm
Stored == {r \in 1..MaxRows : rows[r] # {}}
Row(r) == CHOOSE row \in rows[r] : TRUE
Shown == {r \in 1..MaxRows : listed[r] # {}}
Line(r) == CHOOSE at \in listed[r] : TRUE

\* What a step takes from the bounds.
Spend(choice, click, mishap) ==
    /\ choices' = choices + choice /\ choices' <= MaxChoices
    /\ clicks' = clicks + click /\ clicks' <= MaxClicks
    /\ mishaps' = mishaps + mishap /\ mishaps' <= MaxMishaps

Choice == Spend(1, 0, 0)
Click == Spend(0, 1, 0)
Mishap == Spend(0, 0, 1)
Calm == Spend(0, 0, 0)
If(condition) == IF condition THEN 1 ELSE 0

\* hasty: a case was picked from a list that was about to change, or lists
\* came out of order; impatient: a new row was saved again before the answer;
\* doubtful: the answer to a save that worked was lost; rehung: a bulk change
\* has hung a story elsewhere.
Trouble(name, condition) ==
    trouble' = trouble \cup {n \in {name} : condition}

\* The inputs of the form, as one value, survive an edit and a save.
RestIn(names) == kind.inputs \subseteq names

\* Test cases the server finds in a place, at most ListLimit of them.
Lies(home, at) == \A l \in Place : at[l] \in {None, home[l]}
Within(at) == {c \in Cases : Lies(tree[c], at)}
Lists(at) == kSubset(IF Cardinality(Within(at)) < ListLimit
                     THEN Cardinality(Within(at)) ELSE ListLimit, Within(at))

PlaceOf(at) == [l \in Place |-> at[l]]
InProject(p) == [PlaceOf(Empty) EXCEPT !.project = p]

\* fetchTestCases: without a project the list is empty at once.
Ask(at) ==
    \/ kind.picks = "none" /\ UNCHANGED <<options, asks>>
    \/ /\ kind.picks # "none" /\ at.project = None
       /\ options' = {} /\ UNCHANGED asks
    \/ /\ kind.picks # "none" /\ at.project # None
       /\ Len(asks) < MaxAsks
       /\ asks' = Append(asks, PlaceOf(at))
       /\ UNCHANGED options

\* What the form of a row holds when the dialog opens.
Filled(row) ==
    [l \in Parts |->
        IF l = "rest" THEN IF RestIn(kind.loaded) THEN row.rest ELSE "emptied"
        ELSE IF l \in kind.loaded /\ ~(l \in kind.dropped /\ row.project \notin active)
             THEN row[l] ELSE Empty[l]]

\* The options of a select: the epics and stories are those the page has read.
Offered(level) ==
    CASE level = "project" ->
            IF kind.selects.project.activeOnly THEN active ELSE Projects
      [] level = "epic"  -> {e \in Epics : known[e] = form.at.project}
      [] level = "story" -> {s \in Stories : known[s] = form.at.epic}

----------------------------------------------------------------------------
(* Opening a dialog, and filling it in *)

\* What has been changed in the form of a row.
Touched(levels) == IF form.id = 0 THEN {} ELSE form.touched \cup levels

Opened(id, at, base, cropped) ==
    /\ sessions' = IF id = 0 THEN sessions + 1 ELSE sessions
    /\ form' = [id |-> id, session |-> sessions', at |-> at, base |-> base,
                touched |-> {}, cropped |-> cropped]

\* "New ..."; in the defects page the project of the filter bar is chosen.
OpenNew(project) ==
    /\ Click
    /\ ~Open
    /\ project \in {None} \cup (IF kind.preset THEN Projects ELSE {})
    /\ Opened(0, [Empty EXCEPT !.project = project], Empty, FALSE)
    /\ Ask(InProject(project))
    /\ UNCHANGED <<world, rows, edit, calls, trouble>>

\* "Edit" on a row of the list, as the list has it; the list of cases is that
\* of the project, whatever epic the row has.
OpenEdit(r) ==
    /\ Spend(1, 1, 0)
    /\ ~Open /\ ~kind.awaits /\ r \in Shown
    /\ Opened(r, Filled(Line(r)), Line(r), FALSE)
    /\ Ask(InProject(Line(r).project))
    /\ UNCHANGED <<world, rows, edit, calls, trouble>>

\* "Edit" on a suite of the list, or a link to a defect from another page: the
\* row is loaded first (one at a time) ...
AskEdit(r) ==
    /\ Spend(1, 1, 0)
    /\ ~Open /\ edit = NoEdit
    /\ (kind.awaits /\ r \in Shown) \/ (kind.linked /\ r \in Stored)
    /\ edit' = [id |-> r, phase |-> "row"]
    /\ UNCHANGED <<world, rows, form, options, asks, calls, history>>

\* ... and a dialog opens for the defect, over another one if the user has
\* opened one since.
LinkShown ==
    /\ kind.linked
    /\ edit # NoEdit /\ edit.phase = "row" /\ edit.id \in Stored
    /\ LET at == Row(edit.id).at
       IN Opened(edit.id, Filled(at), at, FALSE) /\ Ask(InProject(at.project))
    /\ edit' = NoEdit
    /\ UNCHANGED <<world, rows, calls, trouble>>
    /\ Calm

\* Of the suite ... (A description emptied meanwhile would be taken from the
\* list; "rest" is never empty in a row.)
EditLoaded ==
    /\ kind.awaits
    /\ edit # NoEdit /\ edit.phase = "row" /\ edit.id \in Stored
    /\ edit' = [id |-> edit.id, phase |-> "cases", row |-> Row(edit.id).at]
    /\ UNCHANGED <<world, rows, form, options, asks, calls, history>>
    /\ Calm

\* ... the cases of its project are loaded, of which it keeps those in the
\* list; then the dialog opens, likewise over another one.
EditShown ==
    /\ edit # NoEdit /\ edit.phase = "cases"
    /\ LET at == Filled(edit.row)
       IN \E list \in IF at.project = None THEN {options} ELSE Lists(at) :
             LET kept == IF at.project = None THEN at.cases ELSE at.cases \cap list
             IN /\ options' = list
                /\ Opened(edit.id, [at EXCEPT !.cases = kept], edit.row, kept # at.cases)
    /\ edit' = NoEdit
    /\ Trouble("hasty", asks # <<>>)
    /\ Spend(0, 0, If(asks # <<>>))
    /\ UNCHANGED <<world, rows, asks, calls>>

EditFailed ==
    /\ edit # NoEdit
    /\ \/ edit.phase = "row" /\ edit.id \notin Stored /\ Calm
       \/ Mishap
    /\ edit' = NoEdit
    /\ UNCHANGED <<world, rows, form, options, asks, calls, history>>

Close ==
    /\ Open
    /\ form' = NoForm
    /\ UNCHANGED <<world, rows, options, asks, edit, calls, history>>
    /\ Calm

\* onChange of a select.
Pick(level, value) ==
    /\ Choice
    /\ Open /\ level \in DOMAIN kind.selects
    /\ value # form.at[level]
    /\ value \in Offered(level) \cup (IF kind.selects[level].blank THEN {None} ELSE {})
    /\ LET clears == kind.selects[level].clears
       IN form' = [form EXCEPT
              !.at = [l \in Parts |-> IF l = level THEN value
                                      ELSE IF l \in clears THEN Empty[l] ELSE @[l]],
              !.touched = Touched({level} \cup clears)]
    /\ Ask(form'.at)
    /\ UNCHANGED <<world, rows, edit, calls, history>>

\* The list of cases, which is there once a project is chosen: one case
\* (again: no case), any number of cases, or all of them.
PickCases(cases) ==
    /\ Open /\ kind.picks # "none" /\ form.at.project # None
    /\ LET now == form.at.cases
           toggled(c) == IF kind.picks = "one" THEN {c} \ now
                         ELSE (now \cup {c}) \ (now \cap {c})
       IN cases \in {toggled(c) : c \in options} \cup
                    (IF kind.picks = "one" THEN {{}} ELSE {now \cup options, now \ options})
    /\ cases # form.at.cases
    /\ form' = [form EXCEPT !.at.cases = cases, !.touched = Touched({"cases"})]
    /\ Trouble("hasty", asks # <<>>)
    /\ Spend(1, 0, If(asks # <<>>))
    /\ UNCHANGED <<world, rows, options, asks, edit, calls, sessions>>

Type ==
    /\ Open /\ form.at.rest # "typed"
    /\ form' = [form EXCEPT !.at.rest = "typed", !.touched = Touched({"rest"})]
    /\ UNCHANGED <<world, rows, options, asks, edit, calls, history>>
    /\ Calm

\* The list of cases of an earlier choice comes, or does not.
CasesArrive(i) ==
    /\ i \in DOMAIN asks
    /\ options' \in Lists(asks[i])
    /\ asks' = RemoveAt(asks, i)
    /\ Trouble("hasty", i # 1)
    /\ Spend(0, 0, If(i # 1))
    /\ UNCHANGED <<world, rows, form, edit, calls, sessions>>

CasesFail(i) ==
    /\ Mishap
    /\ i \in DOMAIN asks
    /\ options' = {}
    /\ asks' = RemoveAt(asks, i)
    /\ Trouble("hasty", i # 1)
    /\ UNCHANGED <<world, rows, form, edit, calls, sessions>>

----------------------------------------------------------------------------
(* Saving *)

Has(level) == form.at[level] \notin {None, {}}

\* The save button is enabled.
CanSave ==
    /\ Open
    /\ \A l \in kind.needs \cap Levels : Has(l)
    /\ form.at.rest # "blank"
    /\ form.id = 0 => /\ \A l \in kind.newNeeds : Has(l)
                      /\ kind.newNeeds # {} => options # {}
    /\ kind.guarded => calls = <<>>

\* handleSave, up to its request.
Press ==
    /\ CanSave
    /\ Len(calls) < MaxCalls
    /\ calls' = Append(calls, [form |-> form, answer |-> "none"])
    /\ LET again == form.id = 0 /\ \E i \in DOMAIN calls :
                        calls[i].form.session = form.session
       IN Trouble("impatient", again) /\ Spend(0, 1, If(again))
    /\ UNCHANGED <<world, rows, form, options, asks, edit, sessions>>

\* What the server makes of a save.
Kept(at, old) ==
    [l \in Parts |-> IF l \in kind.stored \/ (l = "rest" /\ RestIn(kind.stored))
                     THEN at[l] ELSE old[l]]

Serve(i) ==
    /\ i \in DOMAIN calls /\ calls[i].answer = "none"
    /\ LET f == calls[i].form
       IN \/ /\ f.id = 0
             /\ \E r \in (1..MaxRows) \ (Stored \cup gone) :
                    /\ \A s \in (1..MaxRows) \ (Stored \cup gone) : r <= s
                    /\ rows' = [rows EXCEPT ![r] =
                           {[at |-> Kept(f.at, Empty), by |-> f.session, edited |-> FALSE]}]
          \/ /\ f.id \in Stored
             /\ rows' = [rows EXCEPT ![f.id] =
                    {[at |-> Kept(f.at, Row(f.id).at), by |-> Row(f.id).by, edited |-> TRUE]}]
    /\ calls' = [calls EXCEPT ![i].answer = "saved"]
    /\ UNCHANGED <<world, form, options, asks, edit, history>>
    /\ Calm

\* The row is gone, or the server does not like what it is sent.
Refuse(i) ==
    /\ i \in DOMAIN calls /\ calls[i].answer = "none"
    /\ IF calls[i].form.id \in {0} \cup Stored THEN Mishap ELSE Calm
    /\ calls' = [calls EXCEPT ![i].answer = "refused"]
    /\ UNCHANGED <<world, rows, form, options, asks, edit, history>>

\* Fault: the dialog stays open.
AnsweredKeepingDialog(i) ==
    /\ i \in DOMAIN calls /\ calls[i].answer # "none"
    /\ form' = form
    /\ calls' = RemoveAt(calls, i)
    /\ UNCHANGED <<world, rows, options, asks, edit, history>>
    /\ Calm

\* handleSave, after its request: whatever dialog is open now is closed, or,
\* with a message, stays.
Answered(i) ==
    /\ i \in DOMAIN calls /\ calls[i].answer # "none"
    /\ form' = IF calls[i].answer = "saved" THEN NoForm ELSE form
    /\ calls' = RemoveAt(calls, i)
    /\ UNCHANGED <<world, rows, options, asks, edit, history>>
    /\ Calm

\* The request or its answer is lost: the dialog stays.
Lose(i) ==
    /\ Mishap
    /\ i \in DOMAIN calls
    /\ calls' = RemoveAt(calls, i)
    /\ Trouble("doubtful", calls[i].answer = "saved")
    /\ UNCHANGED <<world, rows, form, options, asks, edit, sessions>>

----------------------------------------------------------------------------
(* Other ways in which rows and places change, and what the page reads again *)

\* What others change in a row is told by one value; where they hang it, they
\* choose in these dialogs too.
Others(r) ==
    /\ Mishap
    /\ r \in Stored
    /\ \/ rows' = [rows EXCEPT ![r] = {}] /\ gone' = gone \cup {r}
       \/ rows' = [rows EXCEPT ![r] = {[Row(r) EXCEPT !.at.rest = "theirs"]}] /\ UNCHANGED gone
    /\ UNCHANGED <<kind, active, places, listed, form, options, asks, edit, calls, history>>

\* Saving the dialog of an epic moves the epic to another project, and none of
\* what lies in it; so do those of a story and of a case.
Move(x, home) ==
    /\ Spend(1, 0, 1)
    /\ home \in Homes(x) \ {tree[x]}
    /\ tree' = [tree EXCEPT ![x] = home]
    /\ been' = [been EXCEPT ![x] = @ \cup {home}]
    /\ UNCHANGED <<kind, active, known, listed, gone, rows, form, options, asks, edit, calls,
                   history>>

\* The epics and stories are read when the page is entered; that of the
\* requirements reads the epics again whenever one has been saved in it.  (What
\* is under way when a page is left is not followed.)
Reread ==
    /\ kind.rehangs \/ (~Open /\ edit = NoEdit /\ asks = <<>> /\ calls = <<>>)
    /\ known' = [x \in Epics \cup Stories |-> tree[x]]
    /\ UNCHANGED <<kind, active, tree, been, listed, gone, rows, form, options, asks, edit,
                   calls, history>>
    /\ Calm

\* The list is read after a save, by the timer, and when a filter changes; see
\* ListPages.
Relist ==
    /\ listed' = [r \in 1..MaxRows |-> {row.at : row \in rows[r]}]
    /\ UNCHANGED <<kind, active, places, gone, rows, form, options, asks, edit, calls, history>>
    /\ Calm

\* The bulk dialog of the user stories, and bulk_update of the server, which
\* leaves the project alone.
Rehang(r, epic) ==
    /\ Mishap
    /\ kind.rehangs /\ ~Open /\ r \in Stored
    /\ rows' = [rows EXCEPT ![r] = {[Row(r) EXCEPT !.at.epic = epic]}]
    /\ Trouble("rehung", TRUE)
    /\ UNCHANGED <<world, form, options, asks, edit, calls, sessions>>

----------------------------------------------------------------------------
\* A place of which the epic is, or has been, in the project, and the story in
\* the epic; cases that are, or have been, in its project, or just there.
InPlace(homes, at) ==
    /\ at.epic # None => at.project \in homes[at.epic]
    /\ at.story # None => at.epic \in homes[at.story]
SameProject(homes, at) == \A c \in at.cases : \E h \in homes[c] : h.project = at.project
EverWithin(homes, at) == {c \in Cases : \E h \in homes[c] : Lies(h, at)}

\* There is no row, or one in a place the form itself could have given it.
FirstRows ==
    {at \in [project : {None} \cup Projects, epic : {None} \cup Epics,
             story : {None} \cup Stories, cases : SUBSET Cases, rest : {"old"}] :
        /\ InPlace(been, at) /\ SameProject(been, at)
        /\ \A l \in Levels :
               /\ l \notin kind.stored => at[l] = Empty[l]
               /\ l \in kind.needs => at[l] # Empty[l]
        /\ kind.picks = "one" => Cardinality(at.cases) <= 1}

Init ==
    /\ kind \in AllForms
    /\ active \in IF \E l \in DOMAIN kind.selects : kind.selects[l].activeOnly
                  THEN ActiveSets ELSE {Projects}
    /\ tree = FirstTree
    /\ known = [x \in Epics \cup Stories |-> tree[x]]
    /\ been = [x \in Things |-> {tree[x]}]
    /\ \E first \in {{}} \cup {{[at |-> at, by |-> 0, edited |-> TRUE]} : at \in FirstRows} :
           rows = [r \in 1..MaxRows |-> IF r = 1 THEN first ELSE {}]
    /\ listed = [r \in 1..MaxRows |-> {row.at : row \in rows[r]}]
    /\ gone = {}
    /\ form = NoForm /\ edit = NoEdit
    /\ options = {} /\ asks = <<>> /\ calls = <<>>
    /\ sessions = 0 /\ trouble = {} /\ choices = 0 /\ clicks = 0 /\ mishaps = 0

Filling ==
    \/ \E p \in {None} \cup Projects : OpenNew(p)
    \/ \E r \in 1..MaxRows : OpenEdit(r) \/ AskEdit(r)
    \/ \E l \in Place, v \in {None} \cup Projects \cup Epics \cup Stories : Pick(l, v)
    \/ \E cases \in SUBSET Cases : PickCases(cases)
    \/ Type
    \/ Close

Loading ==
    \/ LinkShown \/ EditLoaded \/ EditShown \/ EditFailed
    \/ \E i \in 1..MaxAsks : CasesArrive(i) \/ CasesFail(i)

Saving ==
    \/ Press
    \/ \E i \in 1..MaxCalls : Serve(i) \/ Refuse(i) \/ Answered(i) \/ Lose(i)

Elsewhere == \E r \in 1..MaxRows : Others(r) \/ \E e \in Epics : Rehang(r, e)

Meanwhile == (\E x \in Things : \E home \in Homes(x) : Move(x, home)) \/ Reread \/ Relist

Next == Filling \/ Loading \/ Saving \/ Elsewhere \/ Meanwhile

Spec == Init /\ [][Next]_vars
----------------------------------------------------------------------------
(* Properties *)

Ats == [project : {None} \cup Projects, epic : {None} \cup Epics,
        story : {None} \cup Stories, cases : SUBSET Cases,
        rest : {"blank", "emptied", "old", "typed", "theirs"}]
FormSet == [id : 0..MaxRows, session : Nat, at : Ats, base : Ats,
            touched : SUBSET Parts, cropped : BOOLEAN]
CallSet == [form : FormSet, answer : {"none", "saved", "refused"}]

\* Where things are, where the page believes them to be, and what is listed: a
\* thing is, and is believed to be, where it has been.
WorldOK ==
    /\ DOMAIN tree = Things /\ DOMAIN been = Things /\ DOMAIN known = Epics \cup Stories
    /\ \A x \in Things : been[x] \subseteq Homes(x) /\ tree[x] \in been[x]
    /\ \A x \in Epics \cup Stories : known[x] \in been[x]
    /\ listed \in [1..MaxRows -> SUBSET Ats]
    /\ \A r \in Shown : listed[r] = {Line(r)}
    /\ gone \subseteq 1..MaxRows

TypeOK ==
    /\ kind \in AllForms /\ active \subseteq Projects
    /\ rows \in [1..MaxRows -> SUBSET [at : Ats, by : 0..sessions, edited : BOOLEAN]]
    /\ \A r \in Stored : rows[r] = {Row(r)}
    /\ form \in {NoForm} \cup FormSet
    /\ options \subseteq Cases
    /\ asks \in Seq(Places) /\ Len(asks) <= MaxAsks
    /\ edit \in {NoEdit} \cup [id : 1..MaxRows, phase : {"row"}]
                         \cup [id : 1..MaxRows, phase : {"cases"}, row : Ats]
    /\ edit # NoEdit => kind.awaits \/ kind.linked
    /\ calls \in Seq(CallSet) /\ Len(calls) <= MaxCalls
    /\ trouble \subseteq {"hasty", "impatient", "doubtful", "rehung"}
    /\ choices \in 0..MaxChoices /\ clicks \in 0..MaxClicks /\ mishaps \in 0..MaxMishaps
    /\ sessions \in 0..clicks

\* Everything a form, open or being saved, can be: the open one, and those of
\* the saves under way.
FormsAtWork == {f \in {form} : Open} \cup {calls[i].form : i \in DOMAIN calls}

\* A form holds nothing it cannot choose, an epic of its project, a story of
\* its epic, and cases of its project; a new one, cases of its epic and story.
FormIsPlaced(f) ==
    /\ \A l \in Place \ DOMAIN kind.selects : f.at[l] = None
    /\ kind.picks = "none" => f.at.cases = {}
    /\ f.id = 0 \/ (f.at.project # None /\ "rehung" \notin trouble) =>
           /\ InPlace(been, f.at)
           /\ "hasty" \notin trouble =>
                  /\ SameProject(been, f.at)
                  /\ f.id = 0 => f.at.cases \subseteq EverWithin(been, f.at)

FormsArePlaced == \A f \in FormsAtWork : FormIsPlaced(f)

\* The list of cases that is shown, or the one sent for last, is of the place
\* the form is about: of its project only, if it was opened for a row.
Around(f) == IF f.id = 0 THEN PlaceOf(f.at) ELSE InProject(f.at.project)

ListIsOfThePlace ==
    Open /\ kind.picks # "none" /\ "hasty" \notin trouble =>
        IF asks = <<>> THEN options \subseteq EverWithin(been, Around(form))
        ELSE Lies(Last(asks), Around(form))

\* Of a row there is only what its form stores; and it is in place.
RowIsPlaced(at) ==
    /\ \A l \in Levels \ kind.stored : at[l] = Empty[l]
    /\ "rehung" \notin trouble =>
           /\ InPlace(been, at)
           /\ "hasty" \notin trouble => SameProject(been, at)

RowsArePlaced ==
    /\ \A r \in Stored : RowIsPlaced(Row(r).at)
    /\ edit # NoEdit /\ edit.phase = "cases" => RowIsPlaced(edit.row)

\* So are the rows of the list.
LinesArePlaced == \A r \in Shown : RowIsPlaced(Line(r))

\* What is saved is filled in.
SavesAreFilled ==
    \A i \in DOMAIN calls : \A l \in kind.needs \cap Levels :
        calls[i].form.at[l] \notin {None, {}}

\* Dialogs for new rows are numbered, one after the other.
DialogsAreNumbered ==
    /\ Open /\ form.id = 0 => form.session = sessions /\ sessions > 0
    /\ \A f \in FormsAtWork : f.session \in 0..sessions /\ (f.id = 0 => f.session > 0)
    /\ kind.guarded => Len(calls) <= 1

\* Nobody has pressed the button again before the answer, and no answer to a
\* save that worked has been lost.
Patient == "doubtful" \notin trouble /\ (kind.guarded \/ "impatient" \notin trouble)

SavesOf(session) ==
    {i \in DOMAIN calls : calls[i].form.id = 0 /\ calls[i].form.session = session}

\* Then one save at most is under way for a dialog, and as long as the server
\* has not done it, or the button has not been pressed, there is no row of it.
OneSaveOfEach == \A i, j \in DOMAIN calls : \A n \in 1..sessions :
                     {i, j} \subseteq SavesOf(n) => i = j

NoRowBeforeItsSave ==
    \A r \in Stored, i \in DOMAIN calls :
        calls[i].form.id = 0 /\ calls[i].answer # "saved" => Row(r).by # calls[i].form.session

NoRowOfTheDialog ==
    Open /\ form.id = 0 /\ SavesOf(form.session) = {} => \A r \in Stored : Row(r).by # form.session

SessionsAreOpen ==
    /\ DialogsAreNumbered
    /\ Patient => OneSaveOfEach /\ NoRowBeforeItsSave /\ NoRowOfTheDialog

\* What nobody has touched in the form of a row is as it was in the row, or,
\* where the project is not active, still has to be chosen.
IsAsLoaded(f) ==
    f.id # 0 /\ ~f.cropped =>
        \A l \in ((kind.stored \cap Levels) \cup {"rest"}) \ f.touched :
            f.at[l] = f.base[l] \/ (l \in kind.dropped /\ f.at[l] = Empty[l])

UntouchedIsAsLoaded == \A f \in FormsAtWork : IsAsLoaded(f)

\* What is shown, asked for, saved and stored hangs together at every moment:
\* no form shows an epic of a project it has never been in, or a story of such
\* an epic, unless it was opened for a story that a bulk change has hung
\* elsewhere; no dialog has two rows on their way; what is not touched stays as
\* it was loaded.
FormInv ==
    /\ TypeOK /\ WorldOK
    /\ FormsArePlaced /\ ListIsOfThePlace
    /\ RowsArePlaced /\ LinesArePlaced /\ SavesAreFilled
    /\ SessionsAreOpen
    /\ UntouchedIsAsLoaded

\* The places of stored rows agree: epic and project, story and epic; a test
\* case belongs to the project, and in a row nobody has edited yet also to the
\* epic and the story.  They do, or they did: who moves an epic to another
\* project leaves its stories where they were, and no row follows, but a row is
\* never in a place its epic, story or case has not been in.  Where it is about
\* cases the user has waited for the list of the new place, and the lists have
\* come in order; where it is about the epic of a story no bulk change has set it.
StoredPlacesAgree ==
    "rehung" \notin trouble => \A r \in Stored :
        LET row == Row(r) IN
        /\ InPlace(been, row.at)
        /\ "hasty" \notin trouble =>
               /\ SameProject(been, row.at)
               /\ ~row.edited => row.at.cases \subseteq EverWithin(been, row.at)

\* A dialog makes one row, however its save was answered: unless the user
\* pressed the button again before the answer (which the pages for accounts
\* and roles do not let him do), or the answer to a save that worked was lost.
OneRowPerForm ==
    Patient =>
        \A r, s \in Stored : Row(r).by = Row(s).by /\ Row(r).by # 0 => r = s

\* An edit stores what the user has seen in the form: what he chose, with what
\* that emptied, and the row as it was for the rest.  Not if the row has been
\* changed since the list was read from which the form was filled, by somebody
\* else or by a save of this page (then that is undone), and not if the list of
\* cases was too short for those of a suite.
EditsStoreWhatWasChosen ==
    [][\A i \in DOMAIN calls :
           LET f == calls[i].form IN
           /\ calls[i].answer = "none" /\ Len(calls') = Len(calls) /\ calls'[i].answer = "saved"
           /\ f.id # 0 /\ Row(f.id).at = f.base /\ ~f.cropped
           => \A l \in (kind.stored \cap Levels) \cup {"rest"} :
                  Row(f.id)'.at[l] = IF l \in f.touched THEN f.at[l] ELSE f.base[l]]_vars
=============================================================================
