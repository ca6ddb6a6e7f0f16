---------------------------- MODULE ExecutionPage ----------------------------
(***************************************************************************)
(* The page on which a tester works through the executions of a run        *)
(* (pages/ExecutionPage.tsx): a list, the selected index, and one form     *)
(* that holds the answers of the selected execution until they are saved.  *)
(*                                                                         *)
(* An answer (a step's status, a note, an attachment) is a mark, and the   *)
(* model remembers which execution it was given for.  A save replaces the  *)
(* stored answers of an execution by those of the form and then loads the  *)
(* list again; the query behind it has no ORDER BY.  Handlers go on after  *)
(* an await with the state they were rendered with.                        *)
(***************************************************************************)
EXTENDS Naturals, Sequences, FiniteSets, SequencesExt

CONSTANTS
    Executions,     \* the executions of the run
    Marks,          \* the answers that can be given; bounds their number
    None            \* no execution: the mark is not given yet

ASSUME ExecutionsAssumption == IsFiniteSet(Executions) /\ Executions # {}
ASSUME NoneAssumption == None \notin Executions

VARIABLES
    db,             \* db[e]: the stored answers of execution e
    list,           \* executions, selectedIndex: what the page lists, in order
    form,           \* stepStates and overallNotes: the answers in the form
    save,           \* the handler of the save button
    uploads,        \* attachments whose upload is under way
    given,          \* history: given[m], the execution mark m was meant for
    erased,         \* history: marks the tester has taken back
    shuffled,       \* history: see Shuffles
    behind          \* history: the list on the page has missed a save

page == <<list, form, save, uploads>>
vars == <<db, page, given, erased, shuffled, behind>>
----------------------------------------------------------------------------
Orders == SetToSeqs(Executions)
Indices == 1..Cardinality(Executions)

Current == list.order[list.selected]

\* Fresh marks are given for the execution on the screen.
Fresh == {m \in Marks : given[m] = None}

Saving == save.phase # "idle"
NoSave == [phase |-> "idle"]

\* getByRunId: the stored answers, in whatever order the database likes.
Listed(order, selected) == [order |-> order, answers |-> db, selected |-> selected]

\* loadExecutionState: the form shows the answers an entry of a list has.
Answers(l, i) == l.answers[l.order[i]]

\* The tester leaves an execution while something under way will still touch
\* the form, or the list comes back in another order.
Shuffles(busy, order) == shuffled' = (shuffled \/ busy \/ order # list.order)

----------------------------------------------------------------------------
\* Fault: the form is not loaded.
SelectKeepingForm(i) ==
    /\ i # list.selected
    /\ list' = [list EXCEPT !.selected = i]
    /\ Shuffles(Saving \/ uploads # {}, list.order)
    /\ UNCHANGED <<db, form, save, uploads, given, erased, behind>>

\* handleSelectExecution: nothing keeps the tester from it during a save.
Select(i) ==
    /\ i # list.selected
    /\ list' = [list EXCEPT !.selected = i]
    /\ form' = Answers(list, i)
    /\ Shuffles(Saving \/ uploads # {}, list.order)
    /\ UNCHANGED <<db, save, uploads, given, erased, behind>>

\* handleStepStatusChange, handleStepFieldChange: into the form, which is the
\* form of whatever is selected.
Give(m) ==
    /\ m \in Fresh
    /\ given' = [given EXCEPT ![m] = Current]
    /\ form' = form \cup {m}
    /\ UNCHANGED <<db, list, save, uploads, erased, shuffled, behind>>

\* handleRemoveAttachment, or the same status clicked twice.
TakeBack(m) ==
    /\ m \in form
    /\ form' = form \ {m}
    /\ erased' = erased \cup {m}
    /\ UNCHANGED <<db, list, save, uploads, given, shuffled, behind>>

\* handleFileUpload: the file goes to the execution selected now ...
Upload(m) ==
    /\ m \in Fresh
    /\ given' = [given EXCEPT ![m] = Current]
    /\ uploads' = uploads \cup {m}
    /\ UNCHANGED <<db, list, form, save, erased, shuffled, behind>>

\* ... and its link to the form that is there when the answer comes.
Uploaded(m) ==
    /\ m \in uploads
    /\ uploads' = uploads \ {m}
    /\ form' = form \cup {m}
    /\ UNCHANGED <<db, list, save, given, erased, shuffled, behind>>

UploadFailed(m) ==
    /\ m \in uploads
    /\ uploads' = uploads \ {m}
    /\ UNCHANGED <<db, list, form, save, given, erased, shuffled, behind>>

\* The save buttons; they are disabled while a save is under way.  next: the
\* handler is handleSaveAndNext.
Save(next) ==
    /\ ~Saving
    /\ save' = [phase |-> "put", list |-> list, answers |-> form, next |-> next]
    /\ UNCHANGED <<db, list, form, uploads, given, erased, shuffled, behind>>

\* PUT /executions/{id} replaces the answers of the execution that was
\* selected when the button was pressed.
Put ==
    /\ save.phase = "put"
    /\ db' = [db EXCEPT ![save.list.order[save.list.selected]] = save.answers]
    /\ save' = [save EXCEPT !.phase = "get"]
    /\ UNCHANGED <<list, form, uploads, given, erased, shuffled, behind>>

\* Fault: moving on without loading the next form.
EndSaveKeepingForm(l, f) ==
    /\ list' = IF save.next /\ save.list.selected + 1 \in Indices
               THEN [l EXCEPT !.selected = save.list.selected + 1] ELSE l
    /\ form' = f
    /\ save' = NoSave
    /\ Shuffles(FALSE, l.order)
    /\ UNCHANGED <<db, uploads, given, erased>>

\* The end of handleSave, with the list l the page has then and the form f.
\* handleSaveAndNext goes on to the next entry in any case, and takes it from
\* the list it was rendered with.
EndSave(l, f) ==
    LET i == save.list.selected + 1
        moves == save.next /\ i \in Indices
    IN
    /\ list' = IF moves THEN [l EXCEPT !.selected = i] ELSE l
    /\ form' = IF moves THEN Answers(save.list, i) ELSE f
    /\ save' = NoSave
    /\ Shuffles(moves /\ uploads # {}, l.order)
    /\ UNCHANGED <<db, uploads, given, erased>>

\* Fault: the list is not stored.
ReloadFormOnly(order) ==
    /\ save.phase = "get"
    /\ order = list.order
    /\ EndSave(list, Answers(Listed(order, list.selected), save.list.selected))
    /\ UNCHANGED behind

\* The list after a save: its entry at the old index goes to the form.
Reload(order) ==
    LET l == Listed(order, list.selected) IN
    /\ save.phase = "get"
    /\ EndSave(l, Answers(l, save.list.selected))
    /\ UNCHANGED behind

\* One of the two requests fails; list and form stay as they are.
SaveFailed ==
    /\ Saving
    /\ EndSave(list, form)
    /\ behind' = (behind \/ save.phase = "get")

\* Another tester of the run saves one more answer.
OtherTester(e, m) ==
    /\ m \in Fresh
    /\ given' = [given EXCEPT ![m] = e]
    /\ db' = [db EXCEPT ![e] = @ \cup {m}]
    /\ behind' = TRUE
    /\ UNCHANGED <<page, erased, shuffled>>

\* The page is opened anew, by a tester who lets requests finish.
Open(order) ==
    /\ ~Saving /\ uploads = {}
    /\ list' = Listed(order, 1)
    /\ form' = Answers(Listed(order, 1), 1)
    /\ UNCHANGED <<db, save, uploads, given, erased, shuffled, behind>>

Init ==
    /\ db = [e \in Executions |-> {}]
    /\ \E order \in Orders : list = Listed(order, 1)
    /\ form = {}
    /\ save = NoSave
    /\ uploads = {}
    /\ given = [m \in Marks |-> None]
    /\ erased = {}
    /\ shuffled = FALSE
    /\ behind = FALSE

Next ==
    \/ \E i \in Indices : Select(i)
    \/ \E m \in Marks : \/ Give(m) \/ TakeBack(m)
                        \/ Upload(m) \/ Uploaded(m) \/ UploadFailed(m)
    \/ \E next \in BOOLEAN : Save(next)
    \/ Put
    \/ SaveFailed
    \/ \E order \in Orders : Reload(order) \/ Open(order)
    \/ \E e \in Executions, m \in Marks : OtherTester(e, m)

Spec == Init /\ [][Next]_vars
----------------------------------------------------------------------------
(* Properties *)

List == [order : Orders, answers : [Executions -> SUBSET Marks],
         selected : Indices]

TypeOK ==
    /\ db \in [Executions -> SUBSET Marks]
    /\ list \in List
    /\ form \subseteq Marks
    /\ save \in {NoSave} \cup
           [phase : {"put", "get"}, list : List, answers : SUBSET Marks, next : BOOLEAN]
    /\ uploads \subseteq Marks
    /\ given \in [Marks -> Executions \cup {None}]
    /\ erased \subseteq Marks
    /\ shuffled \in BOOLEAN /\ behind \in BOOLEAN

MeantFor(e, marks) == \A m \in marks : given[m] = e

\* Form, uploads and the save under way are about the execution on the screen.
FormIsCurrent ==
    ~shuffled =>
        /\ MeantFor(Current, form \cup uploads)
        /\ Saving => /\ MeantFor(Current, save.answers)
                     /\ save.list.order = list.order
                     /\ save.list.selected = list.selected

\* The list, which the next form is taken from, has no answer of another
\* execution; nor has the list a handler was rendered with.
ListIsFiledRight ==
    ~shuffled => \A e \in Executions :
        /\ MeantFor(e, list.answers[e])
        /\ Saving => MeantFor(e, save.list.answers[e])

\* What the next save would drop is what the tester has taken back: form, list
\* and the save under way have all that is stored, apart from that.
NothingIsMissing ==
    ~shuffled /\ ~behind =>
        /\ db[Current] \subseteq form \cup erased
        /\ \A e \in Executions :
               list.answers[e] = db[e] \/ (save.phase = "get" /\ e = Current)
        /\ Saving =>
               /\ save.answers \subseteq form \cup erased
               /\ save.phase = "put" => db[Current] \subseteq save.answers \cup erased
               /\ \A e \in Executions \ {Current} : save.list.answers[e] = db[e]

\* What is in the form, on its way to it or being saved was given for the
\* execution it will be stored under, and is complete.
PageInv == TypeOK /\ FormIsCurrent /\ ListIsFiledRight /\ NothingIsMissing

\* Answers end up under the execution they were given for, unless the tester
\* moved on before a request was through, or the list came back in another
\* order: failed requests and other testers do not mix answers up.
AnswersAreFiledRight ==
    ~shuffled => \A e \in Executions : MeantFor(e, db[e])

\* A save does not undo an earlier one: what is stored stays until the tester
\* takes it back, as long as no request fails half-way and nobody else works
\* on the run.
SavedAnswersStay ==
    [][~shuffled /\ ~behind =>
           \A e \in Executions : db[e] \ db'[e] \subseteq erased]_vars
=============================================================================
