---------------------------- MODULE DetailPanels ----------------------------
(***************************************************************************)
(* The life of a detail panel: it is opened on one subject after another,  *)
(* loads its parts, and is clicked at while answers are on their way.      *)
(*                                                                         *)
(* PanelInit picks one of the panels of module Panels.  Nothing is         *)
(* cancelled when a panel is closed or opened anew: what a handler asked   *)
(* for is written into the state of the page when it comes, whatever the   *)
(* panel is about by then.                                                 *)
(*                                                                         *)
(* An item is [of, n]: the subject it belongs to and a number.  A part is  *)
(* a sequence of items; "row" has one, whose number is its version, and    *)
(* which the list a panel is opened from may have as it was at any time    *)
(* before.  A run has one execution: its bugs are those of an execution.   *)
(***************************************************************************)
EXTENDS Panels, FiniteSetsExt, SequencesExt

CONSTANTS
    Subjects,       \* what the panel can be about
    MaxLoads,       \* bounds the loads, and the calls, under way
    MaxMoves,       \* bounds what the user does
    MaxMishaps      \* bounds failures and what others do

ASSUME BoundsAssumption ==
    /\ Subjects # {}
    /\ MaxLoads \in Nat \ {0} /\ MaxMoves \in Nat /\ MaxMishaps \in Nat

VARIABLES
    panel,          \* what the panel is like
    stored,         \* what the database has, per subject and part
    open, subject,  \* what the panel is about
    shown,          \* what it shows, per part
    picked,         \* the item chosen from a list, if any: {} or {item}
    veil,           \* viewLoading, runsLoading, loading, searching
    loads,          \* what was asked for at opening: [of, at, got, missed, merge]
    calls,          \* clicks under way: [kind, of, at, item, done]
    hurried,        \* history: something began before another thing was over
    clouded,        \* history: a failure, or another user, since the last opening
    outdated,       \* history: the row was copied from a list that was not up to date
    moves, mishaps  \* history: count up to MaxMoves, MaxMishaps

screen == <<open, subject, shown, picked, veil>>
counts == <<moves, mishaps>>
panelVars == <<panel, stored, screen, loads, calls, hurried, clouded, outdated, counts>>
----------------------------------------------------------------------------
Stages == panel.loading.stages
Parts == (UNION Range(Stages)) \cup panel.opening.copied
Quiet == loads = <<>> /\ calls = <<>>

Move == moves < MaxMoves /\ moves' = moves + 1 /\ UNCHANGED mishaps
Mishap == mishaps < MaxMishaps /\ mishaps' = mishaps + 1 /\ UNCHANGED moves

Item(s, n) == [of |-> s, n |-> n]

\* Attachments come in twos, since they are removed by their place.
FirstItems(s, part) ==
    IF part = "attachments" THEN <<Item(s, 1), Item(s, 2)>> ELSE <<Item(s, 1)>>

FreshItem(s, part) == Item(s, 1 + Max({0} \cup {i.n : i \in Range(stored[s][part])}))

\* The dashboard is about everything there is.
Reachable ==
    IF panel = Dashboard THEN {CHOOSE s \in Subjects : TRUE} ELSE Subjects

\* Behind the veil.
Covers == panel.hides \in {"whole", "lists"}

Hidden == Covers /\ (veil \/ (panel = CaseDetail /\ shown.row = <<>>))
InSight == open /\ ~Hidden

\* The items of a list that belong to some of the subjects, in their order.
ItemsOf(items, owners) ==
    LET first[k \in 0..Len(items)] ==
            IF k = 0 THEN <<>>
            ELSE IF items[k].of \in owners THEN Append(first[k - 1], items[k])
            ELSE first[k - 1]
    IN  first[Len(items)]

\* Bugs are looked up by the executions on the screen.
Seen(part) ==
    IF part = "bugs"
    THEN ItemsOf(shown.bugs, {e.of : e \in Range(shown.executions)})
    ELSE shown[part]
----------------------------------------------------------------------------
(* Opening and closing *)

Load(s) == [of |-> s, at |-> 1, got |-> {}, missed |-> {}, merge |-> FALSE]

\* The effect or handler that asks for the first stage.
Begin(s) ==
    /\ Len(loads) < MaxLoads
    /\ loads' = IF Stages = <<>> THEN loads
                ELSE Append(IF panel.loading.guarded THEN <<>> ELSE loads, Load(s))
    /\ hurried' = (calls' # <<>> \/ (~panel.loading.guarded /\ loads # <<>>))
    /\ clouded' = FALSE

\* The row of s on the list page, as it was when that list was read.
RowsListed(s) ==
    IF "row" \in Parts THEN {<<Item(s, n)>> : n \in 1..stored[s].row[1].n} ELSE {<<>>}

\* A row that is copied, and not asked for again.
RowIsCopied == "row" \in panel.opening.copied \ UNION Range(Stages)

\* On a page of its own the first rendering finds nothing.
OpenOn(s) ==
    /\ open' = TRUE
    /\ subject' = s
    /\ \E row \in RowsListed(s) :
           /\ shown' = [p \in Parts |->
                  IF p \in panel.opening.copied THEN row
                  ELSE IF p \in panel.opening.cleared /\ ~open THEN <<>>
                  ELSE shown[p]]
           /\ outdated' = (RowIsCopied /\ row # stored[s].row)
    /\ picked' = IF open THEN picked ELSE {}
    /\ veil' = (Stages # <<>> /\ panel.hides # "never")
    /\ Begin(s)

\* A click on a row, a choice of another project, another search text, the
\* way to another case; the link to a defect opens its dialog over another.
OpenPanel(s) ==
    /\ Move
    /\ open => panel = DefectEdit \/ (panel.opening.kind # "dialog" /\ s # subject)
    /\ UNCHANGED <<panel, stored, calls>>
    /\ OpenOn(s)

\* A page forgets all, answers under way included; a search is given up.
Close ==
    /\ open
    /\ open' = FALSE
    /\ loads' = IF panel.opening.kind = "dialog" THEN loads ELSE <<>>
    /\ IF panel.opening.kind = "page"
       THEN /\ shown' = [p \in Parts |-> <<>>]
            /\ picked' = {}
            /\ veil' = FALSE
       ELSE UNCHANGED <<shown, picked, veil>>
    /\ UNCHANGED <<panel, stored, subject, calls, hurried, clouded, outdated, counts>>

\* useAutoRefresh.
Refresh ==
    /\ "refresh" \in panel.clicks /\ open
    /\ UNCHANGED <<panel, stored, screen, calls, outdated, counts>>
    /\ Begin(subject)
----------------------------------------------------------------------------
(* Loads *)

\* The database is read.  The executions of runs that did not come are none.
Serve(i) ==
    /\ i \in DOMAIN loads /\ loads[i].got = {}
    /\ LET l == loads[i] IN
       loads' = [loads EXCEPT ![i].got =
           {[p \in Parts |->
               IF p \notin Stages[l.at] \/ (p = "executions" /\ "runs" \in l.missed)
               THEN <<>> ELSE stored[l.of][p]]}]
    /\ UNCHANGED <<panel, stored, screen, calls, hurried, clouded, outdated, counts>>

LastStage(l) == l.at = Len(Stages)

NextStage(i, missed) ==
    [loads EXCEPT ![i].at = @ + 1, ![i].got = {}, ![i].missed = @ \cup missed]

\* The bugs of one execution take the place of its bugs in the map; all else
\* replaces what was there.
Merged(l, p, items) ==
    IF l.merge THEN ItemsOf(shown[p], Subjects \ {l.of}) \o items ELSE items

\* Chosen runs that are no longer listed are dropped; a bug stays chosen.
StillPicked(content) ==
    IF panel = ReportRuns THEN picked \cap Range(content.runs) ELSE picked

\* Fault: only a failure takes the veil away.
ArriveUnderTheVeil(i) ==
    /\ i \in DOMAIN loads /\ loads[i].got # {}
    /\ LET l == loads[i] IN
       /\ \E got \in l.got :
              shown' = [p \in Parts |->
                  IF p \in Stages[l.at] THEN Merged(l, p, got[p]) ELSE shown[p]]
       /\ loads' = IF LastStage(l) THEN RemoveAt(loads, i) ELSE NextStage(i, {})
    /\ picked' = StillPicked(shown')
    /\ UNCHANGED <<panel, stored, open, subject, veil, calls, hurried, clouded, outdated,
                   counts>>

\* An answer comes; the last one takes the veil away.
Arrive(i) ==
    /\ i \in DOMAIN loads /\ loads[i].got # {}
    /\ LET l == loads[i] IN
       /\ \E got \in l.got :
              shown' = [p \in Parts |->
                  IF p \in Stages[l.at] THEN Merged(l, p, got[p]) ELSE shown[p]]
       /\ loads' = IF LastStage(l) THEN RemoveAt(loads, i) ELSE NextStage(i, {})
       /\ veil' = (veil /\ (l.merge \/ ~LastStage(l)))
    /\ picked' = StillPicked(shown')
    /\ UNCHANGED <<panel, stored, open, subject, calls, hurried, clouded, outdated, counts>>

\* What a failed stage leaves on the screen.
LeftBy(l) ==
    IF l.merge THEN shown
    ELSE [p \in Parts |->
             IF p \in Stages[l.at] \ panel.failing.keeps THEN <<>> ELSE shown[p]]

Fail(i) ==
    /\ Mishap
    /\ i \in DOMAIN loads
    /\ LET l == loads[i]
           on == panel.failing.goesOn /\ ~LastStage(l)
       IN /\ shown' = LeftBy(l)
          /\ loads' = IF on THEN NextStage(i, Stages[l.at]) ELSE RemoveAt(loads, i)
          /\ veil' = (veil /\ (l.merge \/ on))
    /\ picked' = StillPicked(shown')
    /\ clouded' = TRUE
    /\ UNCHANGED <<panel, stored, open, subject, calls, hurried, outdated>>
----------------------------------------------------------------------------
(* Clicks *)

Call(kind, at, item) ==
    /\ InSight /\ kind \in panel.clicks
    /\ Move
    /\ Len(calls) < MaxLoads
    /\ calls' = Append(calls,
           [kind |-> kind, of |-> subject, at |-> at, item |-> item,
            done |-> FALSE])
    /\ hurried' = (hurried \/ ~Quiet)
    /\ UNCHANGED <<panel, stored, screen, loads, clouded, outdated>>

\* One upload at a time.
UploadFile ==
    /\ \A i \in DOMAIN calls : calls[i].kind # "upload"
    /\ Call("upload", 0, {})

\* The chip under the mouse: its place in the list, and what it says.
TakeAway ==
    /\ "attachments" \in Parts
    /\ \E at \in DOMAIN shown.attachments :
           Call("remove", at, {shown.attachments[at]})

Transition == Call("transition", 0, {})
Attach == "executions" \in Parts /\ shown.executions # <<>> /\ Call("attach", 0, {})
Clone == Call("clone", 0, {})

Pick ==
    /\ InSight /\ "pick" \in panel.clicks
    /\ \/ picked' = {}
       \/ \E part \in Parts : \E item \in Range(shown[part]) : picked' = {item}
    /\ UNCHANGED <<panel, stored, open, subject, shown, veil, loads, calls,
                   hurried, clouded, outdated, counts>>

Place(items, item) == CHOOSE k \in DOMAIN items : items[k] = item

\* The server does what a click asks for.  Attachments are deleted by their
\* own id, whatever defect the path names.
Perform(i) ==
    /\ i \in DOMAIN calls /\ ~calls[i].done
    /\ LET c == calls[i] IN
       \/ /\ c.kind = "upload"
          /\ stored' = [stored EXCEPT ![c.of].attachments =
                 Append(@, FreshItem(c.of, "attachments"))]
          /\ calls' = [calls EXCEPT ![i].done = TRUE,
                                    ![i].item = {FreshItem(c.of, "attachments")}]
       \/ /\ c.kind = "remove"
          /\ \E item \in c.item :
                /\ item \in Range(stored[item.of].attachments)
                /\ stored' = [stored EXCEPT ![item.of].attachments =
                       RemoveAt(@, Place(@, item))]
          /\ calls' = [calls EXCEPT ![i].done = TRUE]
       \/ /\ c.kind = "transition"
          /\ stored' = [stored EXCEPT ![c.of].row = <<FreshItem(c.of, "row")>>]
          /\ calls' = [calls EXCEPT ![i].done = TRUE,
                                    ![i].item = {FreshItem(c.of, "row")}]
       \/ /\ c.kind = "attach"
          /\ stored' = [stored EXCEPT ![c.of].bugs = Append(@, FreshItem(c.of, "bugs"))]
          /\ calls' = [calls EXCEPT ![i].done = TRUE]
       \/ /\ c.kind = "clone"
          /\ calls' = [calls EXCEPT ![i].done = TRUE]
          /\ UNCHANGED stored
    /\ UNCHANGED <<panel, screen, loads, hurried, clouded, outdated, counts>>

\* What a click has made.
New(c) == CHOOSE i \in c.item : TRUE

\* Fault: the chip after the one clicked goes.
AnsweredOneFurther(c) ==
    CASE c.kind = "upload" ->
           [shown EXCEPT !.attachments = Append(@, New(c))]
      [] c.kind = "remove" ->
           [shown EXCEPT !.attachments =
               IF c.at + 1 \in DOMAIN @ THEN RemoveAt(@, c.at + 1) ELSE @]
      [] c.kind = "transition" ->
           [shown EXCEPT !.row = <<Item(@[1].of, New(c).n)>>]
      [] OTHER -> shown

\* What the handler does to the screen with its answer, whatever the panel is
\* about by then: append, drop the place clicked, put the new status into the
\* row shown.
Answered(c) ==
    CASE c.kind = "upload" ->
           [shown EXCEPT !.attachments = Append(@, New(c))]
      [] c.kind = "remove" ->
           [shown EXCEPT !.attachments = IF c.at \in DOMAIN @ THEN RemoveAt(@, c.at) ELSE @]
      [] c.kind = "transition" ->
           [shown EXCEPT !.row = <<Item(@[1].of, New(c).n)>>]
      [] OTHER -> shown

Finish(i) ==
    /\ i \in DOMAIN calls /\ calls[i].done /\ calls[i].kind # "clone"
    /\ calls[i].kind = "attach" => Len(loads) < MaxLoads
    /\ calls' = RemoveAt(calls, i)
    /\ shown' = Answered(calls[i])
    /\ loads' = IF calls[i].kind # "attach" THEN loads
                ELSE Append(loads, [Load(calls[i].of) EXCEPT
                         !.at = Len(Stages), !.merge = TRUE])
    /\ hurried' = (hurried \/ (calls[i].kind = "attach" /\ loads # <<>>))
    /\ UNCHANGED <<panel, stored, open, subject, picked, veil, clouded, outdated, counts>>

\* The clone is shown at once, wherever the user is by then.
FinishClone(i) ==
    /\ i \in DOMAIN calls /\ calls[i].done /\ calls[i].kind = "clone"
    /\ calls' = RemoveAt(calls, i)
    /\ \E s \in Subjects \ {calls[i].of} : OpenOn(s)
    /\ UNCHANGED <<panel, stored, counts>>

\* A message, and nothing else; the server may have acted all the same.
GiveUp(i) ==
    /\ Mishap
    /\ i \in DOMAIN calls
    /\ calls' = RemoveAt(calls, i)
    /\ clouded' = (clouded \/ calls[i].done)
    /\ UNCHANGED <<panel, stored, screen, loads, hurried, outdated>>
----------------------------------------------------------------------------
\* Another user adds to a list or writes a row.
Others ==
    /\ Mishap
    /\ \E s \in Subjects, p \in Parts :
           stored' = [stored EXCEPT ![s][p] =
               IF p = "row" THEN <<FreshItem(s, p)>> ELSE Append(@, FreshItem(s, p))]
    /\ clouded' = TRUE
    /\ UNCHANGED <<panel, screen, loads, calls, hurried, outdated, moves>>

PanelInit ==
    /\ panel \in Panels
    /\ stored = [s \in Subjects |-> [p \in Parts |-> FirstItems(s, p)]]
    /\ open = FALSE
    /\ subject \in Reachable
    /\ shown = [p \in Parts |-> <<>>]
    /\ picked = {}
    /\ veil = FALSE
    /\ loads = <<>> /\ calls = <<>>
    /\ hurried = FALSE /\ clouded = FALSE /\ outdated = FALSE
    /\ moves = 0 /\ mishaps = 0

User ==
    \/ \E s \in Reachable : OpenPanel(s)
    \/ Close
    \/ UploadFile \/ TakeAway \/ Transition \/ Attach \/ Clone \/ Pick

PanelNext ==
    \/ User
    \/ Refresh
    \/ \E i \in 1..MaxLoads :
          \/ Serve(i) \/ Arrive(i) \/ Fail(i)
          \/ Perform(i) \/ Finish(i) \/ FinishClone(i) \/ GiveUp(i)
    \/ Others

PanelSpec == PanelInit /\ [][PanelNext]_panelVars
----------------------------------------------------------------------------
(* Properties *)

Items == [of : Subjects, n : Nat]
Contents == [Parts -> Seq(Items)]
LoadSet == [of : Subjects, at : 1..Len(Stages), got : SUBSET Contents,
            missed : SUBSET Parts, merge : BOOLEAN]
CallSet == [kind : panel.clicks \ {"pick", "refresh"}, of : Subjects, at : Nat,
            item : SUBSET Items, done : BOOLEAN]

PanelTypeOK ==
    /\ panel \in Panels
    /\ stored \in [Subjects -> Contents]
    /\ open \in BOOLEAN /\ subject \in Subjects /\ veil \in BOOLEAN
    /\ shown \in Contents
    /\ picked \subseteq Items /\ \A i, j \in picked : i = j
    /\ loads \in Seq(LoadSet) /\ calls \in Seq(CallSet)
    /\ hurried \in BOOLEAN /\ clouded \in BOOLEAN /\ outdated \in BOOLEAN
    /\ moves \in 0..MaxMoves /\ mishaps \in 0..MaxMishaps

\* What is stored for a subject, and what has been read of it, belongs to it.
\* A row is one item, a run has an execution, and no attachment is there twice.
StoredUnderItsSubject ==
    /\ \A s \in Subjects, p \in Parts : \A i \in Range(stored[s][p]) : i.of = s
    /\ \A l \in Range(loads) : \A got \in l.got, p \in Parts :
           \A i \in Range(got[p]) : i.of = l.of
    /\ \A s \in Subjects :
           /\ "row" \in Parts => Len(stored[s].row) = 1
           /\ "executions" \in Parts => stored[s].executions # <<>>
           /\ "attachments" \in Parts => \A j, k \in DOMAIN stored[s].attachments :
                  stored[s].attachments[j] = stored[s].attachments[k] => j = k

\* What a click has made is an item of the subject it was for; what it is
\* about is one item; and a status is changed in a row that is shown.
CallsMakeItems ==
    \A c \in Range(calls) :
        /\ c.kind = "remove" => \E i \in c.item : c.item = {i}
        /\ c.kind \in {"upload", "transition"} /\ c.done =>
               \E i \in c.item : i.of = c.of /\ c.item = {i}
        /\ c.kind = "transition" => Len(shown.row) = 1

\* Unhurried use: one load or one call at a time, about the panel's subject.
OneThingAtATime ==
    ~hurried =>
        /\ Len(loads) + Len(calls) <= 1
        /\ \A l \in Range(loads) : l.of = subject
        /\ \A c \in Range(calls) : c.of = subject

IsOpening == \E l \in Range(loads) : ~l.merge

\* A panel in use is only veiled while it waits for what it asked for when it
\* was opened; and unhurried, one that hides behind a veil is veiled as long.
VeilIsBacked ==
    /\ open /\ veil => IsOpening
    /\ open /\ ~hurried /\ IsOpening => veil \/ panel.hides = "never"

\* The attachments of the defect before, and the bugs found for the text before,
\* are neither removed nor hidden until the answer comes.
Lagging == {"attachments", "found"}

\* What is still coming in a load, or comes with its present stage.
Coming(l) == UNION {Stages[j] : j \in l.at..Len(Stages)}

\* A part is of the subject, or it lags, or is hidden, until the answer comes, or it
\* is what a failure has kept.  The dashboard has one subject.
PartsAreOfTheSubject ==
    /\ open /\ ~hurried => \A p \in Parts :
           \/ \A i \in Range(shown[p]) : i.of = subject
           \/ clouded /\ p \in panel.failing.keeps
           \/ /\ \E l \in Range(loads) : ~l.merge /\ p \in Stages[l.at]
              /\ p \in Lagging \/ Covers
    /\ panel = Dashboard =>
           /\ subject \in Reachable
           /\ \A l \in Range(loads) : l.of = subject
           /\ \A p \in Parts : \A i \in Range(shown[p]) : i.of = subject

\* A row is shown wherever its status can be changed.
RowIsShown == open /\ "transition" \in panel.clicks => Len(shown.row) = 1

\* Who exports a run has chosen it from the list on the screen.
PickedIsListed == panel = ReportRuns => picked \subseteq Range(shown.runs)

\* What the screen will show when the call under way is answered.
Due == IF calls # <<>> /\ calls[1].done THEN Answered(calls[1]) ELSE shown

\* Unhurried, and with neither failures nor other users: a part is up to date
\* once the answer to the call under way is in, unless it is on its way, or will be
\* asked for as soon as a bug is attached, or is a row copied from a list that was
\* behind; and what has been read is up to date.
PartsAreCurrent ==
    open /\ ~hurried /\ ~clouded =>
        /\ \A l \in Range(loads) :
               /\ l.missed = {}
               /\ \A got \in l.got, p \in Stages[l.at] : got[p] = stored[subject][p]
        /\ \A c \in Range(calls) : c.kind = "remove" /\ ~c.done =>
               c.at \in DOMAIN shown.attachments /\ c.item = {shown.attachments[c.at]}
        /\ \A p \in Parts :
               \/ Due[p] = stored[subject][p]
               \/ \E l \in Range(loads) : p \in Coming(l)
               \/ \E c \in Range(calls) : c.kind = "attach" /\ c.done /\ p = "bugs"
               \/ p = "row" /\ outdated

PanelInv ==
    /\ PanelTypeOK
    /\ StoredUnderItsSubject /\ CallsMakeItems /\ RowIsShown
    /\ OneThingAtATime /\ VeilIsBacked
    /\ PartsAreOfTheSubject /\ PickedIsListed /\ PartsAreCurrent

\* With nothing under way a panel shows what the database has of its subject,
\* all parts of it: no stage, upload, removal, status change or attached bug
\* leaves the screen behind, unless one began before another was over, one
\* failed, or somebody else wrote since the panel was opened.  Only the row copied
\* from a list that was itself behind stays as it was there, where the panel does
\* not ask for it; the other parts are up to date even then.
ShowsWhatIsStored ==
    open /\ Quiet /\ ~hurried /\ ~clouded =>
        \A p \in Parts :
            Seen(p) = stored[subject][p] \/ (p = "row" /\ outdated)

\* Nothing of another subject is in sight while the panel has only been used
\* unhurriedly: neither while it loads (but for the parts that lag), nor when a
\* load has failed (but for what a failure keeps).  The run chosen for export is
\* one of the project chosen, but for the time its list of runs takes to come.
NothingOfAnother ==
    /\ InSight /\ ~hurried => \A p \in Parts :
           \/ \A i \in Range(Seen(p)) : i.of = subject
           \/ (p \in Lagging /\ loads # <<>>)
           \/ (clouded /\ p \in panel.failing.keeps)
    /\ panel = ReportRuns /\ open /\ ~hurried =>
           loads # <<>> \/ \A i \in picked : i.of = subject
=============================================================================
