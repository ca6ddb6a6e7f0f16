---------------------------- MODULE GovernedRows ----------------------------
(***************************************************************************)
(* The machinery every entity service of the backend is built from: one    *)
(* database session per HTTP request (db/session.py), the soft-deleting    *)
(* repository (repositories/base.py) and the service methods that read a   *)
(* row, check a status table and write the row back, alone or once per id  *)
(* of a bulk call.  DefectService, TestCaseService, ReleaseService,        *)
(* UserStoryService and TestRunService are instances: they supply the      *)
(* columns, the status table and the calls their routes can make.          *)
(*                                                                         *)
(* The database is PostgreSQL at READ COMMITTED: a SELECT sees committed   *)
(* rows plus the session's own flushed writes, an UPDATE takes the row     *)
(* lock until the session ends, and writes only the columns whose value    *)
(* differs from the one the session loaded.                                *)
(***************************************************************************)
EXTENDS Naturals, Sequences

CONSTANTS
    Rows,           \* primary keys
    Requests,       \* sessions that can be open at the same time
    Columns,        \* columns of the table, with "status" and "is_deleted"
    Value,          \* Value[c]: the values column c can hold or be sent
    NewRows,        \* the rows create() inserts
    Transitions,    \* the service's table: status -> set of next statuses
    Dangling,       \* values that no foreign key target backs
    Calls,          \* the calls the routes can make, see Call below
    Nobody          \* the owner of a free row lock

Status == DOMAIN Transitions

\* The table's .get(current, []): a status it does not know leads nowhere.
AllowedFrom(s) == IF s \in Status THEN Transitions[s] ELSE {}

Row == {f \in [Columns -> UNION {Value[c] : c \in Columns}] :
            \A c \in Columns : f[c] \in Value[c]}

\* Assignments of values to some of the columns.
Patch == UNION {{f \in [cs -> UNION {Value[c] : c \in Columns}] :
                     \A c \in cs : f[c] \in Value[c]} : cs \in SUBSET Columns}

\* A row for keys whose content does not matter.
AnyRow == CHOOSE new \in NewRows : TRUE

NoColumns == [c \in {} |-> c]

\* A call of a route: the rows it names, in order; the columns it sets;
\* whether the service checks the status table first (transition_status);
\* whether it is a bulk endpoint, which collects per-row failures.
NoCall == [ids |-> <<>>, set |-> NoColumns, governed |-> FALSE, bulk |-> FALSE]

ASSUME ColumnsAssumption == /\ {"status", "is_deleted"} \subseteq Columns
                            /\ Value["is_deleted"] = {"false", "true"}
ASSUME TableAssumption == \A s \in Status : Transitions[s] \subseteq Status \ {s}
ASSUME NewRowsAssumption ==
    NewRows # {} /\ \A new \in NewRows : new \in Row /\ new["is_deleted"] = "false"
ASSUME NobodyAssumption == Nobody \notin Requests
ASSUME CallsAssumption ==
    \A call \in Calls :
        /\ call.ids \in Seq(Rows) /\ call.ids # <<>>
        /\ call.governed \in BOOLEAN /\ call.bulk \in BOOLEAN
        /\ call.set \in Patch
        /\ call.governed => DOMAIN call.set = {"status"}
        /\ ~call.bulk => Len(call.ids) = 1

VARIABLES
    row,        \* row[d]: what is committed in the table
    unborn,     \* keys not inserted yet
    lock,       \* lock[d]: the session that holds the row lock
    pend,       \* pend[r][d]: the columns session r has flushed to row d
    req,        \* req[r]: control state of the handler running in session r
    overtaken   \* history: rows others changed since session r loaded them

vars == <<row, unborn, lock, pend, req, overtaken>>

----------------------------------------------------------------------------
(* The session *)

Phases == {"idle", "load", "reload", "flush"}
Answers == {"none", "200", "4xx", "500"}

Handler == [phase : Phases, call : Calls \cup {NoCall}, todo : Seq(Rows),
            seen : Row, ok : SUBSET Rows, failed : SUBSET Rows, answer : Answers]

Idle(answer) == [phase |-> "idle", call |-> NoCall, todo |-> <<>>,
                 seen |-> AnyRow, ok |-> {}, failed |-> {}, answer |-> answer]

NoWrites == [d \in Rows |-> NoColumns]

\* The row as session r sees it: its own flushed columns over the committed.
View(r, d) == [c \in Columns |-> IF c \in DOMAIN pend[r][d]
                                 THEN pend[r][d][c] ELSE row[d][c]]

\* _base_query filters on is_deleted; a row not inserted is not there either.
Visible(r, d) == d \notin unborn /\ View(r, d)["is_deleted"] = "false"

Written(r) == {d \in Rows : DOMAIN pend[r][d] # {}}

\* Fault: a session that ends without giving its row locks back.
ReleaseKeepingLocks(r) ==
    /\ pend' = [pend EXCEPT ![r] = NoWrites]
    /\ UNCHANGED lock

\* get_session: commit, or roll back on an exception; both end the session
\* and release every row lock it took.
Release(r) ==
    /\ lock' = [d \in Rows |-> IF lock[d] = r THEN Nobody ELSE lock[d]]
    /\ pend' = [pend EXCEPT ![r] = NoWrites]

\* Fault: an UPDATE that replaces the row by what the session flushed.
CommitReplacingRows(r) ==
    /\ row' = [d \in Rows |-> IF d \in Written(r) THEN pend[r][d] ELSE row[d]]
    /\ overtaken' = [overtaken EXCEPT ![r] = {}]
    /\ Release(r)
    /\ UNCHANGED unborn

CommitSession(r) ==
    /\ row' = [d \in Rows |-> View(r, d)]
    /\ overtaken' = [q \in Requests |->
                         IF q = r THEN {} ELSE overtaken[q] \cup Written(r)]
    /\ Release(r)
    /\ UNCHANGED unborn

\* Fault: closing the session commits what it has flushed.
RollbackAfterCommit(r, answer) ==
    /\ row' = [d \in Rows |-> View(r, d)]
    /\ Release(r)
    /\ req' = [req EXCEPT ![r] = Idle(answer)]
    /\ overtaken' = [overtaken EXCEPT ![r] = {}]
    /\ UNCHANGED unborn

Rollback(r, answer) ==
    /\ Release(r)
    /\ req' = [req EXCEPT ![r] = Idle(answer)]
    /\ overtaken' = [overtaken EXCEPT ![r] = {}]
    /\ UNCHANGED <<row, unborn>>

----------------------------------------------------------------------------
(* The handler *)

Head1(r) == Head(req[r].todo)

At(r, phase) == req[r].phase = phase /\ req[r].todo # <<>>

\* A request is dispatched to a handler, which opens its session.
Start(r, call) ==
    /\ req[r].phase = "idle"
    /\ req' = [req EXCEPT ![r] = [phase |-> "load", call |-> call,
                                  todo |-> call.ids, seen |-> AnyRow,
                                  ok |-> {}, failed |-> {}, answer |-> "none"]]
    /\ UNCHANGED <<row, unborn, lock, pend, overtaken>>

\* The service is done with the first id: go on with the next one.
Succeed(r) ==
    /\ req' = [req EXCEPT ![r].phase = "load", ![r].todo = Tail(@),
                          ![r].ok = @ \cup {Head1(r)}]
    /\ UNCHANGED <<row, unborn>>

\* The service raises: a bulk method catches it and reports the id, any
\* other handler lets it through to get_session, which rolls back.
Raise(r, answer) ==
    IF req[r].call.bulk
    THEN /\ req' = [req EXCEPT ![r].phase = "load", ![r].todo = Tail(@),
                               ![r].failed = @ \cup {Head1(r)}]
         /\ UNCHANGED <<row, unborn, lock, pend, overtaken>>
    ELSE Rollback(r, answer)

\* Fault: a check that refuses only what the table does not mention at all.
AllowedByName(r, d) == req[r].call.governed => req[r].call.set["status"] \in Status

\* The check of transition_status; the other handlers have none.
Allowed(r, d) == req[r].call.governed =>
                     req[r].call.set["status"] \in AllowedFrom(View(r, d)["status"])

\* get_by_id returns None: NotFoundError.
LoadMissing(r) ==
    /\ At(r, "load")
    /\ ~Visible(r, Head1(r))
    /\ Raise(r, "4xx")

\* transition_status: the table does not allow the step: ValidationError.
LoadDisallowed(r) ==
    /\ At(r, "load")
    /\ Visible(r, Head1(r)) /\ ~Allowed(r, Head1(r))
    /\ Raise(r, "4xx")

\* get_by_id returns the row; its columns now sit in the identity map, for as
\* long as the handler holds the object.  An id that comes up a second time in
\* a bulk call is loaded afresh: nobody holds the object of the first time.
LoadFound(r) ==
    LET d == Head1(r) IN
    /\ At(r, "load")
    /\ Visible(r, d) /\ Allowed(r, d)
    /\ req' = [req EXCEPT ![r].seen = View(r, d),
                          ![r].phase = IF req[r].call.governed
                                       THEN "reload" ELSE "flush"]
    /\ overtaken' = [overtaken EXCEPT ![r] = IF lock[d] = r THEN @ ELSE @ \ {d}]
    /\ UNCHANGED <<row, unborn, lock, pend>>

\* update() selects the row again.  The second SELECT does not refresh the
\* loaded columns; it only finds out whether the row is still there.
ReloadFound(r) ==
    /\ At(r, "reload")
    /\ Visible(r, Head1(r))
    /\ req' = [req EXCEPT ![r].phase = "flush"]
    /\ UNCHANGED <<row, unborn, lock, pend, overtaken>>

\* The row was deleted between the two SELECTs: update() returns None, which
\* transition_status returns to its caller as if the update had been done.
ReloadMissing(r) ==
    /\ At(r, "reload")
    /\ ~Visible(r, Head1(r))
    /\ Succeed(r)
    /\ UNCHANGED <<lock, pend, overtaken>>

\* The columns flush() puts in the UPDATE: those set to another value than
\* the one loaded.
Changed(r) == {c \in DOMAIN req[r].call.set : req[r].call.set[c] # req[r].seen[c]}

\* Fault: writing back every column of the loaded row.
FlushedWholeRow(r, d) ==
    [c \in Columns |-> IF c \in DOMAIN req[r].call.set
                       THEN req[r].call.set[c] ELSE req[r].seen[c]]

\* The values flush() leaves in the row, over what it flushed before.
FlushedTo(r, d) ==
    [c \in DOMAIN pend[r][d] \cup Changed(r) |->
         IF c \in Changed(r) THEN req[r].call.set[c] ELSE pend[r][d][c]]

BadKey(r) == \E c \in Changed(r) : req[r].call.set[c] \in Dangling

\* Nothing to write: no UPDATE, and no lock.
FlushNothing(r) ==
    /\ At(r, "flush")
    /\ Changed(r) = {}
    /\ Succeed(r)
    /\ UNCHANGED <<lock, pend, overtaken>>

\* UPDATE ... WHERE id = d, once the row lock is free.
Flush(r) ==
    LET d == Head1(r) IN
    /\ At(r, "flush")
    /\ Changed(r) # {} /\ ~BadKey(r)
    /\ lock[d] \in {Nobody, r}
    /\ lock' = [lock EXCEPT ![d] = r]
    /\ pend' = [pend EXCEPT ![r][d] = FlushedTo(r, d)]
    /\ Succeed(r)
    /\ UNCHANGED overtaken

\* The UPDATE violates a foreign key.  IntegrityError is none of the errors
\* the bulk methods catch.
FlushBadKey(r) ==
    /\ At(r, "flush")
    /\ BadKey(r)
    /\ lock[Head1(r)] \in {Nobody, r}
    /\ Rollback(r, "500")

Commit(r) ==
    /\ req[r].phase = "load" /\ req[r].todo = <<>>
    /\ CommitSession(r)
    /\ req' = [req EXCEPT ![r] = Idle("200")]

\* A session that waits for the lock of a row another one has written.
Waits(r) == /\ At(r, "flush")
            /\ Changed(r) # {}
            /\ lock[Head1(r)] \notin {Nobody, r}

\* PostgreSQL finds a cycle of waiting sessions and fails one of them.
Deadlocked(r) == \E S \in SUBSET Requests :
                     /\ r \in S
                     /\ \A q \in S : Waits(q) /\ lock[Head1(q)] \in S

DeadlockVictim(r) ==
    /\ Deadlocked(r)
    /\ Rollback(r, "500")

\* The worker dies or the client disconnects: the database rolls back
\* and nobody is answered.
Crash(r) ==
    /\ req[r].phase # "idle"
    /\ Rollback(r, "none")

\* create(): the uuid is new, so nobody can meet the row before the commit.
\* An INSERT that violates a foreign key inserts nothing.
Create(r, d, new) ==
    /\ req[r].phase = "idle"
    /\ d \in unborn
    /\ \A c \in Columns : new[c] \notin Dangling
    /\ unborn' = unborn \ {d}
    /\ row' = [row EXCEPT ![d] = new]
    /\ req' = [req EXCEPT ![r] = Idle("200")]
    /\ UNCHANGED <<lock, pend, overtaken>>

----------------------------------------------------------------------------
Init ==
    /\ row = [d \in Rows |-> AnyRow]
    /\ unborn = Rows
    /\ lock = [d \in Rows |-> Nobody]
    /\ pend = [r \in Requests |-> NoWrites]
    /\ req = [r \in Requests |-> Idle("none")]
    /\ overtaken = [r \in Requests |-> {}]

\* What the handler and the database do for an open request.
Proceed(r) ==
    \/ LoadMissing(r) \/ LoadDisallowed(r) \/ LoadFound(r)
    \/ ReloadFound(r) \/ ReloadMissing(r)
    \/ FlushNothing(r)
    \/ Commit(r)

\* What waits for the row lock first.
TakeLock(r) == Flush(r) \/ FlushBadKey(r)

Next ==
    \E r \in Requests :
        \/ \E call \in Calls : Start(r, call)
        \/ \E d \in Rows, new \in NewRows : Create(r, d, new)
        \/ Proceed(r)
        \/ TakeLock(r)
        \/ DeadlockVictim(r)
        \/ Crash(r)

Spec == Init /\ [][Next]_vars

\* The event loop runs every handler that can go on, PostgreSQL grants row
\* locks in the order they were asked for and resolves every deadlock.
Fairness ==
    \A r \in Requests :
        WF_vars(Proceed(r)) /\ SF_vars(TakeLock(r)) /\ WF_vars(DeadlockVictim(r))

FairSpec == Spec /\ Fairness
----------------------------------------------------------------------------
(* Properties *)

\* The specification without sessions.
Atomic == INSTANCE AtomicRows WITH row <- row, unborn <- unborn

TypeOK ==
    /\ row \in [Rows -> Row]
    /\ unborn \subseteq Rows
    /\ lock \in [Rows -> Requests \cup {Nobody}]
    /\ pend \in [Requests -> [Rows -> Patch]]
    /\ req \in [Requests -> Handler]
    /\ overtaken \in [Requests -> SUBSET Rows]

\* A session holds a row lock exactly as long as it has flushed columns of
\* that row that are neither committed nor rolled back: no handler path leaks
\* a lock, and none writes a row without it.
LocksMatchWrites ==
    \A r \in Requests, d \in Rows : lock[d] = r <=> d \in Written(r)

(* Why the properties below hold: what a handler may rely on at each point.  *)

\* An open handler serves one of the calls, works through the ids of that
\* call, and past the first SELECT has an id in hand.
HandlersServeCalls ==
    \A r \in Requests :
        LET h == req[r] IN
        /\ h.phase # "idle" =>
               /\ h.call \in Calls
               /\ \A i \in DOMAIN h.todo : h.todo[i] \in Atomic!Named(h.call)
        /\ h.phase \in {"reload", "flush"} => h.todo # <<>>

\* What is flushed and not committed was asked for by the open call, in a
\* row that exists and is down as succeeded, and never clears is_deleted.
WritesAreNamed ==
    \A r \in Requests, d \in Rows : \A c \in DOMAIN pend[r][d] :
        LET h == req[r] IN
        /\ h.phase # "idle" /\ d \in Atomic!Named(h.call)
        /\ d \notin unborn /\ d \in h.ok
        /\ c \in DOMAIN h.call.set /\ pend[r][d][c] = h.call.set[c]
        /\ c = "is_deleted" => pend[r][d][c] = "true"

\* Between SELECT and UPDATE a handler knows the row as it was when it was
\* loaded, which is how it still is unless another commit overtook it.
LoadedRowIsKnown ==
    \A r \in Requests :
        LET h == req[r] IN
        h.phase \in {"reload", "flush"} =>
            /\ h.seen["is_deleted"] = "false" /\ Head1(r) \notin unborn
            /\ h.call.governed =>
                   /\ h.call.set["status"] \in AllowedFrom(h.seen["status"])
                   /\ Head1(r) \notin Written(r)
                   /\ Head1(r) \notin overtaken[r] =>
                          row[Head1(r)]["status"] = h.seen["status"]

\* A flushed transition is one of the table as long as nobody overtook it.
FlushedStepsFollowTable ==
    \A r \in Requests : req[r].call.governed =>
        \A d \in Written(r) \ overtaken[r] :
            req[r].call.set["status"] \in AllowedFrom(row[d]["status"])

SessionInv == /\ TypeOK
              /\ LocksMatchWrites
              /\ HandlersServeCalls
              /\ WritesAreNamed
              /\ LoadedRowIsKnown
              /\ FlushedStepsFollowTable

----------------------------------------------------------------------------
Finishes(r) == req[r].phase # "idle" /\ req'[r].phase = "idle"
Commits(r) == Finishes(r) /\ req'[r].answer = "200"

\* Soft deletion is final: whatever a stale handler writes back to a row it
\* loaded before the deletion, the row stays deleted.
DeletionIsFinal ==
    [][\A d \in Rows : d \notin unborn /\ row[d]["is_deleted"] = "true"
                           => row'[d]["is_deleted"] = "true"]_vars

\* A status transition that no other commit overtook follows the table: the
\* check of transition_status is exact as long as the row it read is still
\* the committed one when it writes.
UndisturbedStepsFollowTable ==
    [][\A r \in Requests : Commits(r) /\ req[r].call.governed =>
           \A d \in Written(r) \ overtaken[r] :
               row'[d]["status"] \in AllowedFrom(row[d]["status"])]_vars

\* The {succeeded, failed} report never hides a change: a commit changes only
\* rows its report lists as succeeded, and a request that ends in any error
\* changes nothing.
NoUnreportedChange ==
    [][\A r \in Requests : Finishes(r) =>
           \A d \in Rows : row'[d] # row[d] =>
               req'[r].answer = "200" /\ d \in req[r].ok]_vars

\* Requests are atomic: what other sessions see of the table is what
\* AtomicRows allows.  In particular a request that is overtaken between its
\* SELECT and its UPDATE does not write back columns it was not asked to set.
RequestsAreAtomic == Atomic!Spec

\* Every request is answered, although bulk calls lock rows in the order the
\* client listed them and can wait for each other in a cycle.
EveryRequestEnds ==
    \A r \in Requests : req[r].phase # "idle" ~> req[r].phase = "idle"

\* The promise of "governed status transitions" without the proviso: every
\* transition that transition_status commits is one of the table.
GovernedStepsFollowTable ==
    [][\A r \in Requests : Commits(r) /\ req[r].call.governed =>
           \A d \in Written(r) :
               row'[d]["status"] \in AllowedFrom(row[d]["status"])]_vars
=============================================================================
