------------------------------ MODULE SuiteRuns ------------------------------
(***************************************************************************)
(* One test suite, the test cases linked to it, and the runs started from  *)
(* it: TestSuiteService, TestCaseService.delete_test_case and              *)
(* TestRunService.transition_status, each in a session of its own.         *)
(*                                                                         *)
(* The link table test_suite_cases has no unique constraint and the        *)
(* executions of a run are inserted by whoever starts it, so both depend   *)
(* on what a handler read before it writes.  Sessions run at READ          *)
(* COMMITTED; what they have flushed is kept in their request record until *)
(* they commit.                                                            *)
(***************************************************************************)
EXTENDS Naturals, FiniteSets

CONSTANTS
    Cases,          \* test cases
    Runs,           \* test runs of the suite
    Links,          \* primary keys of test_suite_cases; bounds the live links
    Requests,       \* sessions that can be open at the same time
    None,           \* no case: the link row does not exist
    Calls,          \* the calls of the routes that are modelled, see below
    MaxExecs        \* bound: no start takes the executions that a run has
                    \* of a case beyond it

ASSUME NoneAssumption == None \notin Cases
ASSUME FiniteAssumption == IsFiniteSet(Links) /\ IsFiniteSet(Cases)

VARIABLES
    gone,           \* the soft-deleted test cases
    link,           \* link[k]: the case that link row k puts in the suite
    run,            \* run[t]: status, whether started_at is set, is_deleted
    execs,          \* execs[t][c]: how many executions of case c the starts of
                    \* run t have created
    req,            \* req[r]: the handler in session r and what it has flushed
    met,            \* history: two sessions have been open at once
    cleared,        \* history: runs whose started_at a PUT has set to null
    pushed          \* history: runs that a POST or a PUT has given a status
                    \* other than "Not Started"

vars == <<gone, link, run, execs, req, met, cleared, pushed>>
----------------------------------------------------------------------------
Statuses == {"Not Started", "In Progress", "Blocked", "Completed", "Cancelled"}

\* _VALID_TRANSITIONS
AllowedFrom(s) ==
    CASE s = "Not Started" -> {"In Progress", "Cancelled"}
      [] s = "In Progress" -> {"Completed", "Blocked", "Cancelled"}
      [] s = "Blocked"     -> {"In Progress", "Cancelled"}
      [] s = "Completed"   -> {}
      [] s = "Cancelled"   -> {"Not Started"}

\* The calls: link one case, unlink it, replace all links, delete a case
\* (alone or in a bulk call), move a run along the table, PUT some columns of
\* it.  The body of the PUT is a raw dict; of the columns that matter here it
\* can set the status (to s), clear started_at and set is_deleted, alone or
\* together, and no text it can carry is accepted as a start time.  DELETE and
\* the bulk deletion set is_deleted.
AddCase(c) == [op |-> "add", cases |-> {c}]
RemoveCase(c) == [op |-> "remove", cases |-> {c}]
ReplaceCases(cs) == [op |-> "replace", cases |-> cs]
DeleteCase(c) == [op |-> "delete", cases |-> {c}]
BulkDeleteCase(c) == [op |-> "bulk delete", cases |-> {c}]
Move(t, s) == [op |-> "move", run |-> t, status |-> s]
Put(t, s, cs) == [op |-> "put", run |-> t, status |-> s, cols |-> cs]
Columns == {"status", "clear", "delete"}

NoCall == [op |-> "none"]

AllCalls == {AddCase(c) : c \in Cases} \cup {RemoveCase(c) : c \in Cases}
            \cup {ReplaceCases(cs) : cs \in SUBSET Cases}
            \cup {DeleteCase(c) : c \in Cases} \cup {BulkDeleteCase(c) : c \in Cases}
            \cup {Move(t, s) : t \in Runs, s \in Statuses}
            \cup {Put(t, s, cs) : t \in Runs, s \in Statuses, cs \in SUBSET Columns}

ASSUME CallsAssumption == Calls \subseteq AllCalls

NoExecs == [c \in Cases |-> 0]

Idle(answer) ==
    [phase |-> "idle", call |-> NoCall, target |-> {}, del |-> {}, ins |-> {},
     kill |-> FALSE, moved |-> FALSE, cols |-> {}, execs |-> NoExecs,
     answer |-> answer]

\* The link rows session r sees, and those of them that link a case of cs.
Visible(r) == ({k \in Links : link[k] # None} \ req[r].del)
              \cup {p[1] : p \in req[r].ins}
CaseOf(r, k) == IF link[k] # None THEN link[k]
                ELSE (CHOOSE p \in req[r].ins : p[1] = k)[2]
LinksOf(r, cs) == {k \in Visible(r) : CaseOf(r, k) \in cs}

\* Keys no row has and no session works on.
FreeLinks == {k \in Links :
    /\ link[k] = None
    /\ \A q \in Requests : k \notin req[q].del \cup req[q].target
                           /\ \A p \in req[q].ins : p[1] # k}

At(r, ops, phase) == req[r].phase = phase /\ req[r].call.op \in ops

\* get_session: rollback leaves nothing behind.
Rollback(r, answer) ==
    /\ req' = [req EXCEPT ![r] = Idle(answer)]
    /\ UNCHANGED <<gone, link, run, execs, cleared, pushed>>

\* The handler goes on; what it flushed is only in its request record.
Goes(r, changed) ==
    /\ req' = [req EXCEPT ![r] = changed]
    /\ UNCHANGED <<gone, link, run, execs, cleared, pushed>>

----------------------------------------------------------------------------
Start(r, call) ==
    /\ req[r].phase = "idle"
    /\ Goes(r, [Idle("none") EXCEPT !.phase = "open", !.call = call])

(* add_test_case *)

\* Fault: no look at what is linked already.
AddWithoutCheck(r) ==
    /\ At(r, {"add"}, "open")
    /\ Goes(r, [req[r] EXCEPT !.phase = "insert"])

\* The SELECT for an existing link: one is skipped silently, for more than
\* one scalar_one_or_none raises MultipleResultsFound, which nobody catches.
AddCheck(r) ==
    LET existing == Cardinality(LinksOf(r, req[r].call.cases)) IN
    /\ At(r, {"add"}, "open")
    /\ IF existing > 1
       THEN Rollback(r, "500")
       ELSE Goes(r, [req[r] EXCEPT !.phase = IF existing = 1 THEN "commit" ELSE "insert"])

\* One link row for every case; the deletion flag of the case is not read.
InsertLinks(r) ==
    /\ At(r, {"add", "replace"}, "insert")
    /\ \E ks \in SUBSET FreeLinks :
           /\ Cardinality(ks) = Cardinality(req[r].call.cases)
           /\ \E f \in [ks -> req[r].call.cases] :
                  /\ \A j, k \in ks : f[j] = f[k] => j = k
                  /\ Goes(r, [req[r] EXCEPT !.phase = "commit",
                                            !.ins = {<<k, f[k]>> : k \in ks}])

(* remove_test_case, update_suite, delete_test_case *)

\* DELETE FROM test_suite_cases: the rows it is going to delete are those it
\* sees when it starts.
BeginUnlink(r) ==
    /\ At(r, {"remove", "replace", "delete", "bulk delete"}, "open")
    /\ Goes(r, [req[r] EXCEPT !.phase = "unlink",
                    !.target = IF req[r].call.op = "replace" THEN Visible(r)
                               ELSE LinksOf(r, req[r].call.cases)])

\* It waits for the sessions that are deleting some of them, and skips the
\* rows that are gone then.
Unlink(r) ==
    /\ req[r].phase = "unlink"
    /\ \A q \in Requests \ {r} : req[q].del \cap req[r].target = {}
    /\ Goes(r, [req[r] EXCEPT
                    !.target = {},
                    !.del = {k \in req[r].target : link[k] # None},
                    !.phase = CASE req[r].call.op = "remove"  -> "commit"
                                [] req[r].call.op = "replace" -> "insert"
                                [] OTHER                      -> "select"])

\* soft_delete selects the case.  If it is deleted already, delete_test_case
\* raises: the single call rolls back, the bulk call notes the id as failed
\* and later commits the DELETE it has sent.
SelectCase(r) ==
    /\ At(r, {"delete", "bulk delete"}, "select")
    /\ IF req[r].call.cases \cap gone = {}
       THEN Goes(r, [req[r] EXCEPT !.phase = "kill"])
       ELSE IF req[r].call.op = "delete"
            THEN Rollback(r, "4xx")
            ELSE Goes(r, [req[r] EXCEPT !.phase = "commit"])

\* UPDATE test_cases SET is_deleted, when nobody else is doing the same.
KillCase(r) ==
    /\ At(r, {"delete", "bulk delete"}, "kill")
    /\ \A q \in Requests \ {r} : req[q].kill => req[q].call.cases # req[r].call.cases
    /\ Goes(r, [req[r] EXCEPT !.phase = "commit", !.kill = TRUE])

(* transition_status, PUT and DELETE /testruns/{id} *)

LoadedRun(r) == run[req[r].call.run]

\* Is this a first start, and does this way set started_at if it is NULL?
Starts(r) == req[r].call.status = "In Progress" /\ ~LoadedRun(r).started
Stamps(r) == /\ req[r].call.status \in {"In Progress", "Completed", "Cancelled"}
             /\ ~LoadedRun(r).started

Refused(r) == \/ LoadedRun(r).deleted
              \/ req[r].call.status \notin AllowedFrom(LoadedRun(r).status)

\* Fault: executions are created on every way into "In Progress".
LoadRunIgnoringStart(r) ==
    LET h == req[r] IN
    /\ At(r, {"move"}, "open")
    /\ IF Refused(r)
       THEN Rollback(r, "4xx")
       ELSE Goes(r, [h EXCEPT !.phase = IF h.call.status = "In Progress"
                                        THEN "expand" ELSE "reselect",
                              !.cols = {"status"}])

\* Fault: only a start gets a time, a run that ends unstarted does not.
LoadRunStampingStarts(r) ==
    /\ At(r, {"move"}, "open")
    /\ IF Refused(r)
       THEN Rollback(r, "4xx")
       ELSE Goes(r, [req[r] EXCEPT
                !.phase = IF Starts(r) THEN "expand" ELSE "reselect",
                !.cols = {"status"} \cup (IF Starts(r) THEN {"stamp"} ELSE {})])

\* get_by_id and the check of the table.
LoadRun(r) ==
    /\ At(r, {"move"}, "open")
    /\ IF Refused(r)
       THEN Rollback(r, "4xx")
       ELSE Goes(r, [req[r] EXCEPT
                !.phase = IF Starts(r) THEN "expand" ELSE "reselect",
                !.cols = {"status"} \cup (IF Stamps(r) THEN {"stamp"} ELSE {})])

\* Fault: the executions are committed on their own, before the run.
ExpandAndCommit(r) ==
    /\ At(r, {"move"}, "expand")
    /\ execs' = [execs EXCEPT ![req[r].call.run] =
                     [c \in Cases |-> @[c] + Cardinality(LinksOf(r, {c}))]]
    /\ req' = [req EXCEPT ![r].phase = "reselect"]
    /\ UNCHANGED <<gone, link, run, cleared, pushed>>

\* The SELECT of the suite's links and the INSERT of one execution for each,
\* whether its case is deleted or not.
Expand(r) ==
    /\ At(r, {"move"}, "expand")
    /\ \A c \in Cases :
           execs[req[r].call.run][c] + Cardinality(LinksOf(r, {c})) <= MaxExecs
    /\ Goes(r, [req[r] EXCEPT !.phase = "reselect",
                    !.execs = [c \in Cases |-> Cardinality(LinksOf(r, {c}))]])

\* update() selects the run a second time.  If it has been deleted in the
\* meantime update() returns None, the route answers 200 all the same, and the
\* session commits the executions without the run.
Reselect(r) ==
    /\ At(r, {"move"}, "reselect")
    /\ Goes(r, [req[r] EXCEPT !.phase = IF LoadedRun(r).deleted THEN "commit" ELSE "write"])

\* update_test_run and delete_test_run: any status, no table, no timestamps.
\* Only the columns that the SELECT showed otherwise are written.
LoadPut(r) ==
    LET h == req[r]
        changed == {x \in h.call.cols : /\ x = "status" => h.call.status # LoadedRun(r).status
                                        /\ x = "clear" => LoadedRun(r).started}
    IN
    /\ At(r, {"put"}, "open")
    /\ IF LoadedRun(r).deleted
       THEN Rollback(r, "4xx")
       ELSE Goes(r, [h EXCEPT !.phase = IF changed = {} THEN "commit" ELSE "write",
                              !.cols = changed])

\* UPDATE test_runs, once the row lock is free; it finds a run that has been
\* deleted since it was selected.
WriteRun(r) ==
    /\ req[r].phase = "write"
    /\ \A q \in Requests \ {r} : req[q].moved => req[q].call.run # req[r].call.run
    /\ Goes(r, [req[r] EXCEPT !.phase = "commit", !.moved = TRUE])

(* The end of the session *)

\* Link row k as session r is going to leave it.
LinkAfter(r, k) ==
    IF k \in req[r].del THEN None
    ELSE IF \E p \in req[r].ins : p[1] = k
         THEN (CHOOSE p \in req[r].ins : p[1] = k)[2]
         ELSE link[k]

\* The run as session r has written it.
RunAfter(r) ==
    LET h == req[r] old == LoadedRun(r) IN
    [status |-> IF "status" \in h.cols THEN h.call.status ELSE old.status,
     started |-> "stamp" \in h.cols \/ (old.started /\ "clear" \notin h.cols),
     deleted |-> old.deleted \/ "delete" \in h.cols]

Commit(r) ==
    LET h == req[r] IN
    /\ h.phase = "commit"
    /\ gone' = IF h.kill THEN gone \cup h.call.cases ELSE gone
    /\ link' = [k \in Links |-> LinkAfter(r, k)]
    /\ run' = IF h.moved THEN [run EXCEPT ![h.call.run] = RunAfter(r)] ELSE run
    /\ execs' = IF h.call.op = "move"
                THEN [execs EXCEPT ![h.call.run] = [c \in Cases |-> @[c] + h.execs[c]]]
                ELSE execs
    /\ cleared' = IF h.moved /\ "clear" \in h.cols THEN cleared \cup {h.call.run} ELSE cleared
    /\ pushed' = IF h.moved /\ h.call.op = "put" /\ "status" \in h.cols
                     /\ h.call.status # "Not Started"
                 THEN pushed \cup {h.call.run} ELSE pushed
    /\ req' = [req EXCEPT ![r] = Idle("200")]

\* The worker dies or the client disconnects.
Crash(r) == req[r].phase # "idle" /\ Rollback(r, "none")

----------------------------------------------------------------------------
Init ==
    /\ gone = {}
    /\ link = [k \in Links |-> None]
    /\ \E f \in [Runs -> Statuses] :
           run = [t \in Runs |-> [status |-> f[t], started |-> FALSE, deleted |-> FALSE]]
    /\ execs = [t \in Runs |-> NoExecs]
    /\ req = [r \in Requests |-> Idle("none")]
    /\ met = FALSE
    /\ cleared = {}
    /\ pushed = {t \in Runs : run[t].status # "Not Started"}

Step(r) ==
    \/ \E call \in Calls : Start(r, call)
    \/ AddCheck(r) \/ InsertLinks(r)
    \/ BeginUnlink(r) \/ Unlink(r) \/ SelectCase(r) \/ KillCase(r)
    \/ LoadRun(r) \/ Expand(r) \/ Reselect(r) \/ LoadPut(r) \/ WriteRun(r)
    \/ Commit(r) \/ Crash(r)

Next ==
    /\ \E r \in Requests : Step(r)
    /\ met' = (met \/ \E q, r \in Requests :
                   q # r /\ req'[q].phase # "idle" /\ req'[r].phase # "idle")

Spec == Init /\ [][Next]_vars
----------------------------------------------------------------------------
(* Properties *)

Phases == {"idle", "open", "insert", "unlink", "select", "kill", "expand",
           "reselect", "write", "commit"}

TypeOK ==
    /\ gone \subseteq Cases
    /\ link \in [Links -> Cases \cup {None}]
    /\ run \in [Runs -> [status : Statuses, started : BOOLEAN, deleted : BOOLEAN]]
    /\ execs \in [Runs -> [Cases -> Nat]]
    /\ req \in [Requests ->
           [phase : Phases, call : Calls \cup {NoCall}, target : SUBSET Links,
            del : SUBSET Links, ins : SUBSET (Links \X Cases),
            kill : BOOLEAN, moved : BOOLEAN, cols : SUBSET (Columns \cup {"stamp"}),
            execs : [Cases -> Nat], answer : {"none", "200", "4xx", "500"}]]
    /\ met \in BOOLEAN
    /\ cleared \subseteq Runs
    /\ pushed \subseteq Runs

\* The executions a start has created come with started_at, and a start that
\* fails half-way leaves none.  Two things undo this: a PUT that clears
\* started_at, and a deletion between the two SELECTs of the start, which then
\* commits the executions alone; that run is no longer shown.
ExecutionsComeWithTheStart ==
    \A t \in Runs : run[t].started \/ execs[t] = NoExecs \/ run[t].deleted \/ t \in cleared

\* A run past "Not Started" has a start time, whatever transitions, changes of
\* its status back to "Not Started" and deletions overtook each other, unless
\* a POST or a PUT gave it a later status or a PUT took the time away.
ActiveRunsAreStarted ==
    \A t \in Runs : run[t].status # "Not Started" => run[t].started \/ t \in cleared \cup pushed

\* Where each call stands in a phase, and what its session can have flushed
\* by then; a transition ends without writing its run only if that is deleted.
Unlinking == {"remove", "replace", "delete", "bulk delete"}
Deleting == {"delete", "bulk delete"}

PhasesServeCalls ==
    \A r \in Requests :
        LET h == req[r] op == h.call.op IN
        /\ h.phase = "idle" => h = Idle(h.answer)
        /\ h.phase # "idle" => h.call \in Calls
        /\ h.phase = "insert" => op \in {"add", "replace"}
        /\ h.phase = "unlink" => op \in Unlinking
        /\ h.phase \in {"select", "kill"} => op \in Deleting
        /\ h.phase = "expand" => op = "move" /\ "stamp" \in h.cols
        /\ h.phase = "reselect" => op = "move"
        /\ h.phase = "write" => op \in {"move", "put"}
        /\ h.target # {} => h.phase = "unlink"
        /\ h.del # {} => op \in Unlinking /\ h.phase \in {"insert", "select", "kill", "commit"}
        /\ h.ins # {} => op \in {"add", "replace"} /\ h.phase = "commit"
        /\ h.kill => op \in Deleting /\ h.phase = "commit"
        /\ h.moved => op \in {"move", "put"} /\ h.phase = "commit"
        /\ h.cols # {} => op \in {"move", "put"} /\ h.phase \notin {"idle", "open"}
        /\ "stamp" \in h.cols => op = "move"
        /\ h.cols \cap {"clear", "delete"} # {} => op = "put"
        /\ h.execs # NoExecs => op = "move" /\ "stamp" \in h.cols
                                /\ h.phase \in {"reselect", "write", "commit"}

OnlyDeletedRunsAreSkipped ==
    \A r \in Requests :
        LET h == req[r] IN
        h.phase = "commit" /\ h.call.op = "move" /\ ~h.moved => LoadedRun(r).deleted

\* A run that is about to move on has a start time, or gets one.
StartsAreStamped ==
    \A r \in Requests :
        LET h == req[r] IN
        h.phase \in {"expand", "reselect", "write", "commit"} /\ h.call.op = "move"
            /\ h.call.status # "Not Started" =>
                "stamp" \in h.cols \/ LoadedRun(r).started \/ h.call.run \in cleared \cup pushed

\* As long as requests have come one at a time: what the open session is going
\* to leave has no case twice, it replaces all that is linked, and it creates
\* the executions of a run that has not been started.
OneLinkAfter(r) ==
    \A j, k \in Links : LinkAfter(r, j) = LinkAfter(r, k) /\ LinkAfter(r, j) # None => j = k

AloneSessionsAreRight ==
    ~met => \A r \in Requests :
        LET h == req[r] IN
        /\ OneLinkAfter(r)
        /\ h.phase # "idle" => \A q \in Requests \ {r} : req[q].phase = "idle"
        /\ h.phase = "unlink" /\ h.call.op = "replace" => {k \in Links : link[k] # None} \subseteq h.target
        /\ h.phase = "insert" => \A k \in Links : LinkAfter(r, k) \notin h.call.cases
        /\ h.phase = "expand" \/ h.execs # NoExecs => ~LoadedRun(r).started /\ ~LoadedRun(r).deleted
        /\ \A c \in Cases : h.execs[c] <= 1

SuiteInv ==
    /\ TypeOK
    /\ PhasesServeCalls /\ OnlyDeletedRunsAreSkipped /\ StartsAreStamped
    /\ AloneSessionsAreRight

\* As long as requests have come one at a time, a case is linked once: the
\* look for an existing link, deletions and replacements never leave two.
LinksAreASet ==
    ~met => \A j, k \in Links : link[j] = link[k] /\ link[j] # None => j = k

\* "Create execution records for each test case in the linked suite": the
\* starts of a run do not create a second execution of the same case.
OneExecutionPerCase == \A t \in Runs, c \in Cases : execs[t][c] <= 1

\* It is overlap, or a PUT that clears started_at, that breaks this: no
\* sequence of other single requests, blocking, cancelling, a PUT of the
\* status back to "Not Started" and starting again, does.
OneExecutionAlone == ~met => \A t \in Runs, c \in Cases : execs[t][c] <= 1 \/ t \in cleared
=============================================================================
