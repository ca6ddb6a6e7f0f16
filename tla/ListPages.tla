------------------------------ MODULE ListPages ------------------------------
(***************************************************************************)
(* The life of a list page: a page of rows shown by components/common/     *)
(* DataTable.tsx, filters, a pager, ticked rows, actions on a row and bulk *)
(* actions, each of which fetches the list again when it is through.       *)
(*                                                                         *)
(* Init picks one of the pages of module Pages and one of its filters, the *)
(* one the user plays with.  Rows are numbers in the order they are born   *)
(* in; of what a row holds only matters whether it matches that filter     *)
(* ("hit" or "miss").  No request is ever cancelled, answers come in any   *)
(* order, and a handler that has waited goes on with the filters it was    *)
(* rendered with.                                                          *)
(***************************************************************************)
EXTENDS Pages, FiniteSetsExt, SequencesExt

CONSTANTS
    RowCount,       \* rows there are or will be
    PageSize,       \* rows on a page
    MaxFetches,     \* bounds the list requests under way
    MaxMoves        \* bounds what users do and what goes wrong

ASSUME SizesAssumption ==
    /\ RowCount \in Nat \ {0} /\ PageSize \in Nat \ {0}
    /\ MaxFetches \in Nat \ {0} /\ MaxMoves \in Nat

VARIABLES
    page,           \* what the page is like, see Shape
    db,             \* db[r]: "unborn", "hit", "miss" or "gone"
    q,              \* filters and paginationModel: [filter, page]
    list,           \* the rows of the page, what they show, and totalRows
    loading,        \* the veil over the table
    fetches,        \* list requests under way, in the order they were sent
    ticks,          \* selectedIds
    work,           \* the dialog or request(s) of the action under way
    upset,          \* history: something out of the ordinary has happened
    moves           \* history: counts up to MaxMoves

vars == <<page, db, q, list, loading, fetches, ticks, work, upset, moves>>
----------------------------------------------------------------------------
Rows == 1..RowCount
Live == {r \in Rows : db[r] \in {"hit", "miss"}}
LastPage(total) == IF total = 0 THEN 0 ELSE (total - 1) \div PageSize

\* What of a page, and of the filter the user plays with (F has it alone, or
\* is empty on a page without filters), matters here.  A bulk button sends one
\* or more of its requests; they are alike, so that any of them are a run of
\* neighbours.
Shape(p, F) ==
    [controls |-> UNION {p.filters[f] : f \in F},
     sends    |-> F \subseteq p.query.sent,
     follows  |-> F \subseteq p.query.deps,
     heard    |-> F \subseteq p.query.heard,
     type     |-> "filterType" \in F,      \* test cases alone have it
     paged    |-> "paginationModel" \in p.query.sent,
     turns    |-> "paginationModel" \in p.query.deps,
     auto     |-> p.query.auto,
     effects  |-> {p.actions[a].effect : a \in DOMAIN p.actions} \ {"look", "refused"},
     bulk     |-> UNION {SubSeqs(p.bulk[b]) \ {<<>>} : b \in DOMAIN p.bulk}]

\* The playable parts of a page.
Played(p) == IF DOMAIN p.filters = {} THEN {{}} ELSE {{f} : f \in DOMAIN p.filters}
Shapes == UNION {{Shape(p, F) : F \in Played(p)} : p \in Pages}

\* What a query says, in the words of repositories/base.py: the rows that match
\* it, the newest first, OFFSET and LIMIT, and a count.
Selected(query) ==
    LET found == {r \in Live : query.filter => db[r] = "hit"}
        Before(r) == Cardinality({s \in found : s > r})
        rows  == {r \in found : page.paged => Before(r) \div PageSize = query.page}
    IN [rows  |-> rows,
        hits  |-> {r \in rows : db[r] = "hit"},
        total |-> Cardinality(found)]

\* The answer to a list request: a filter the server does not know is dropped.
Answer(query) == Selected([query EXCEPT !.filter = @ /\ page.heard])

Idle == [phase |-> "idle"]
Busy == work.phase \in {"sent", "done"}
Dialog == work.phase = "asked"     \* modal: the page behind is out of reach

\* The fetch function, as built for a query.
Send(query) ==
    /\ Len(fetches) < MaxFetches
    /\ fetches' = Append(fetches,
           [q |-> [query EXCEPT !.filter = @ /\ page.sends], answer |-> {}])
    /\ loading' = TRUE

Move ==
    /\ moves < MaxMoves
    /\ moves' = moves + 1

\* The effect that watches the fetch function.
SendIf(changed, query) ==
    IF changed THEN Send(query) ELSE UNCHANGED <<fetches, loading>>

----------------------------------------------------------------------------
(* The user *)

\* Fault: off by one.
LeadsToPositive(newPage, total) == newPage > 0 /\ newPage <= LastPage(total)

\* handlePageChange of the table.
LeadsTo(newPage, total) == newPage >= 0 /\ newPage <= LastPage(total)

\* A filter changes, in the filter bar or on one of the cards.
SetFilter(control) ==
    /\ Move
    /\ control \in page.controls /\ ~Dialog
    /\ q' = [filter |-> ~q.filter,
             page   |-> IF control = "card" THEN 0 ELSE q.page]
    /\ SendIf(page.follows, q')
    /\ UNCHANGED <<page, db, list, ticks, work, upset>>

\* The four buttons of the pager, and another page size (which leads to the
\* first page); the veil covers them.
TurnPage(newPage) ==
    /\ Move
    /\ ~loading /\ ~Dialog
    /\ newPage \in {0, q.page - 1, q.page + 1, LastPage(list.total)}
    /\ LeadsTo(newPage, list.total)
    /\ q' = [q EXCEPT !.page = newPage]
    /\ SendIf(page.turns, q')
    /\ UNCHANGED <<page, db, list, ticks, work, upset>>

\* The refresh button of the audit log.
Refresh ==
    /\ Move
    /\ "reload" \in page.effects /\ ~loading
    /\ Send(q)
    /\ UNCHANGED <<page, db, q, list, ticks, work, upset>>

\* onSelectionChanged
Choose(rows) ==
    /\ Move
    /\ page.bulk # {} /\ ~loading /\ ~Dialog
    /\ rows \subseteq list.rows /\ rows # ticks
    /\ ticks' = rows
    /\ UNCHANGED <<page, db, q, list, loading, fetches, work, upset>>

\* "Clear" of the bulk bar, which is there while something is ticked and is
\* disabled while a bulk request runs.
ClearTicks ==
    /\ ticks # {} /\ ~Dialog /\ ~Busy
    /\ ticks' = {}
    /\ UNCHANGED <<page, db, q, list, loading, fetches, work, upset, moves>>

\* A button on a row, or the one for a new row: it opens a dialog, or acts at
\* once, which is a dialog confirmed before anything else happens.
Act(effect, rows) ==
    /\ Move
    /\ work = Idle
    /\ effect \in page.effects \ {"reload"}
    /\ IF effect = "add" THEN rows = {}
       ELSE ~loading /\ \E r \in list.rows : rows = {r}
    /\ work' = [phase |-> "asked", calls |-> <<effect>>, rows |-> rows,
                bulk |-> FALSE, q |-> q, done |-> FALSE]
    /\ UNCHANGED <<page, db, q, list, loading, fetches, ticks, upset>>

\* A button of the bulk bar.
ActOnTicks(calls) ==
    /\ Move
    /\ work = Idle /\ ticks # {}
    /\ calls \in page.bulk
    /\ work' = [phase |-> "asked", calls |-> calls, rows |-> ticks,
                bulk |-> TRUE, q |-> q, done |-> FALSE]
    /\ UNCHANGED <<page, db, q, list, loading, fetches, ticks, upset>>

\* The dialog is confirmed: the handler is the one of the last rendering, so
\* that it has the rows ticked now and the filters set now.
Confirm ==
    /\ Dialog
    /\ work.bulk => ticks # {}
    /\ work' = [work EXCEPT !.phase = "sent", !.q = q,
                            !.rows = IF work.bulk THEN ticks ELSE @]
    /\ UNCHANGED <<page, db, q, list, loading, fetches, ticks, upset, moves>>

Dismiss ==
    /\ Dialog
    /\ work' = Idle
    /\ UNCHANGED <<page, db, q, list, loading, fetches, ticks, upset, moves>>

----------------------------------------------------------------------------
(* The server *)

\* A change of rows, of which some may be refused.
Changed(effect, rows) ==
    CASE effect = "add" ->
            {[db EXCEPT ![r] = kind] : kind \in {"hit", "miss"},
                r \in {s \in Rows : db[s] = "unborn" /\ \A t \in 1..(s - 1) : db[t] # "unborn"}}
      [] effect = "remove" ->
            {[r \in Rows |-> IF r \in S THEN "gone" ELSE db[r]] : S \in SUBSET (rows \cap Live)}
      [] effect = "touch" ->
            {[r \in Rows |-> IF r \notin S THEN db[r]
                             ELSE IF db[r] = "hit" THEN "miss" ELSE "hit"] :
                S \in SUBSET (rows \cap Live)}

Perform ==
    /\ work.phase = "sent"
    /\ db' \in Changed(Head(work.calls), work.rows)
    /\ work' = [work EXCEPT !.phase = "done", !.done = TRUE]
    /\ UNCHANGED <<page, q, list, loading, fetches, ticks, upset, moves>>

Serve(i) ==
    /\ i \in DOMAIN fetches /\ fetches[i].answer = {}
    /\ fetches' = [fetches EXCEPT ![i].answer = {Answer(fetches[i].q)}]
    /\ UNCHANGED <<page, db, q, list, loading, ticks, work, upset, moves>>

\* Somebody else works on the same rows.
Others ==
    /\ Move
    /\ \E effect \in {"add", "remove", "touch"}, r \in Rows : db' \in Changed(effect, {r})
    /\ db' # db
    /\ upset' = TRUE
    /\ UNCHANGED <<page, q, list, loading, fetches, ticks, work>>

----------------------------------------------------------------------------
(* Answers, and the timer *)

\* Fault: ticks outlive the rows they are on.
ArriveKeepingTicks(i) ==
    /\ i \in DOMAIN fetches /\ fetches[i].answer # {}
    /\ \E a \in fetches[i].answer : list' = a
    /\ ticks' = ticks
    /\ fetches' = RemoveAt(fetches, i)
    /\ loading' = FALSE
    /\ upset' = (upset \/ i # 1)
    /\ UNCHANGED <<page, db, q, work, moves>>

\* Whatever answer comes is shown, and lifts the veil.  The grid forgets the
\* ticks of rows that are gone from it and says so (onSelectionChanged).
Arrive(i) ==
    /\ i \in DOMAIN fetches /\ fetches[i].answer # {}
    /\ \E a \in fetches[i].answer : list' = a
    /\ ticks' = ticks \cap list'.rows
    /\ fetches' = RemoveAt(fetches, i)
    /\ loading' = FALSE
    /\ upset' = (upset \/ i # 1)
    /\ UNCHANGED <<page, db, q, work, moves>>

\* finally: setLoading(false)
Fail(i) ==
    /\ Move
    /\ i \in DOMAIN fetches
    /\ fetches' = RemoveAt(fetches, i)
    /\ loading' = FALSE
    /\ upset' = TRUE
    /\ UNCHANGED <<page, db, q, list, ticks, work>>

\* The next request of a bulk action.
NextCall ==
    /\ work.phase = "done" /\ Len(work.calls) > 1
    /\ work' = [work EXCEPT !.phase = "sent", !.calls = Tail(@)]
    /\ UNCHANGED <<page, db, q, list, loading, fetches, ticks, upset, moves>>

\* Everything has been answered: the handler fetches, with the filters and
\* the page it was rendered with.
Finish ==
    /\ work.phase = "done" /\ Len(work.calls) = 1
    /\ work' = Idle
    /\ ticks' = IF work.bulk THEN {} ELSE ticks
    /\ Send(work.q)
    /\ upset' = (upset \/ work.q # q)
    /\ UNCHANGED <<page, db, q, list, moves>>

\* A request fails, before or after the server has acted: the handler shows a
\* message, fetches nothing, and the ticks stay.
GiveUp ==
    /\ Move
    /\ Busy
    /\ work' = Idle
    /\ upset' = (upset \/ work.done)
    /\ UNCHANGED <<page, db, q, list, loading, fetches, ticks>>

\* Fault: the timer calls the function of the first rendering.
TickOfTheFirstRendering ==
    /\ page.auto /\ Len(fetches) + 1 < MaxFetches
    /\ Send([filter |-> FALSE, page |-> 0])
    /\ UNCHANGED <<page, db, q, list, ticks, work, upset, moves>>

\* useAutoRefresh, every 30 seconds, with the filters of now.  MaxFetches:
\* the timer leaves room for one more request.
Tick ==
    /\ page.auto /\ Len(fetches) + 1 < MaxFetches
    /\ Send(q)
    /\ UNCHANGED <<page, db, q, list, ticks, work, upset, moves>>
----------------------------------------------------------------------------
\* The effect of the first rendering has asked for the list.
Init ==
    /\ page \in Shapes
    /\ db \in [Rows -> {"unborn", "hit", "miss"}]
    /\ \A r, s \in Rows : db[r] = "unborn" /\ r < s => db[s] = "unborn"
    /\ q = [filter |-> FALSE, page |-> 0]
    /\ list = [rows |-> {}, hits |-> {}, total |-> 0]
    /\ loading = TRUE
    /\ fetches = <<[q |-> q, answer |-> {}]>>
    /\ ticks = {}
    /\ work = Idle
    /\ upset = FALSE
    /\ moves = 0

User ==
    \/ \E control \in {"field", "card"} : SetFilter(control)
    \/ \E p \in 0..RowCount : TurnPage(p)
    \/ Refresh
    \/ \E rows \in SUBSET Rows : Choose(rows)
    \/ ClearTicks
    \/ \E effect \in {"add", "touch", "remove"}, rows \in SUBSET Rows : Act(effect, rows)
    \/ \E calls \in page.bulk : ActOnTicks(calls)
    \/ Confirm
    \/ Dismiss

Requests ==
    \/ Perform
    \/ NextCall
    \/ Finish
    \/ \E i \in 1..MaxFetches : Serve(i) \/ Arrive(i)

Failures ==
    \/ GiveUp
    \/ \E i \in 1..MaxFetches : Fail(i)

Next == User \/ Requests \/ Failures \/ Others \/ Tick

\* A request that is sent is served and answered, or fails, in the end; the
\* browser calls the timer.  Nobody has to press a button.
Fairness ==
    /\ WF_vars(Tick)
    /\ WF_vars(Perform \/ NextCall \/ Finish \/ GiveUp)
    /\ \A i \in 1..MaxFetches : WF_vars(Serve(i) \/ Arrive(i) \/ Fail(i))

Spec == Init /\ [][Next]_vars /\ Fairness
----------------------------------------------------------------------------
(* Properties *)

Queries == [filter : BOOLEAN, page : 0..RowCount]
Lists == [rows : SUBSET Rows, hits : SUBSET Rows, total : 0..RowCount]
Answers == {{}} \cup {{a} : a \in Lists}
Works == [phase : {"asked", "sent", "done"}, calls : Seq({"add", "touch", "remove"}) \ {<<>>},
          rows : SUBSET Rows, bulk : BOOLEAN, q : Queries, done : BOOLEAN]

TypeOK ==
    /\ page \in Shapes
    /\ db \in [Rows -> {"unborn", "hit", "miss", "gone"}]
    /\ q \in Queries
    /\ list \in Lists
    /\ loading \in BOOLEAN
    /\ fetches \in Seq([q : Queries, answer : Answers])
    /\ Len(fetches) <= MaxFetches
    /\ ticks \subseteq Rows
    /\ work \in {Idle} \cup Works
    /\ upset \in BOOLEAN /\ moves \in 0..MaxMoves

\* The server has begun to do what is under way.
Acted == work # Idle /\ work.done

\* What the list of a healthy page shows: the rows that match the filter in
\* sight, on the page in sight.  The type of the test cases is the one filter
\* that narrows nothing.
InSight == Selected(IF page.type THEN [q EXCEPT !.filter = FALSE] ELSE q)

\* The list request sent last is for the filters and the page on the screen;
\* what it brings, or what is shown once it has been answered, is what the
\* database has, as long as no action has changed that without having fetched
\* again.  The exceptions are those of ListAnswersTheQuery.
NewestIsCurrent ==
    ~upset =>
        /\ fetches # <<>> =>
               /\ Last(fetches).q.filter = q.filter
               /\ page.paged => Last(fetches).q.page = q.page
        /\ ~Acted => IF fetches = <<>> THEN list = InSight
                     ELSE Last(fetches).answer \subseteq {InSight}

\* Only rows on the page are ticked, and the veil is only there while a list
\* is on its way; the list that counts is on its way or there.
ListInv ==
    /\ TypeOK
    /\ ticks \subseteq list.rows
    /\ loading => fetches # <<>>
    /\ Dialog => ~work.done
    /\ NewestIsCurrent

\* With nothing under way the page shows what the database has for the
\* filters and the page number on the screen (but for the type of the test
\* cases, which the server passes over: the list is then the unfiltered one):
\* no filter, pager click or action leaves a stale list behind, unless an
\* answer overtook another, a request failed, somebody else changed the rows,
\* or a filter was changed while an action was under way (its handler fetches
\* with the old filters).
ListAnswersTheQuery ==
    ~upset /\ fetches = <<>> /\ ~Busy => list = InSight

\* Nobody is stranded on an empty page behind the last one (a filter or a
\* deletion does not turn the page back): a click on "first page" is obeyed
\* and leads to rows.
NobodyIsStranded ==
    page.paged /\ ~upset /\ fetches = <<>> /\ ~Busy /\ list.rows = {} /\ list.total > 0 =>
        /\ LeadsTo(0, list.total)
        /\ Answer([q EXCEPT !.page = 0]).rows # {}

\* On the pages that refresh themselves every mishap heals: once the users
\* and the failures come to rest (MaxMoves), the list on the screen becomes
\* what the database has for the filters and the page on the screen (again but
\* for the type of the test cases), and stays so.
ListCatchesUp == page.auto => <>[](list = InSight)
=============================================================================
