----------------------------- MODULE AuditTrail -----------------------------
(***************************************************************************)
(* AuditMiddleware of core/middleware.py around the handlers of the        *)
(* backend: it reads the entity a request names before the handler runs,   *)
(* and, in a task of its own that nobody waits for, reads it again and     *)
(* stores a row of audit_logs.  Each of the three uses a database session  *)
(* of its own.                                                             *)
(*                                                                         *)
(* A handler takes row locks, commits and is answered as in GovernedRows;  *)
(* what it writes does not matter here, so that the state of an entity is  *)
(* a version number, 0 before it is created.  Whether the session commits  *)
(* before or after the answer is on its way depends on the FastAPI that is *)
(* installed: "late" is chosen once.                                       *)
(***************************************************************************)
EXTENDS Naturals, FiniteSets

CONSTANTS
    Entities,
    Calls,          \* requests, each of which is made once
    Nothing,        \* old_values or new_values is NULL
    Body,           \* new_values made up from the request
    Removed,        \* {"deleted": True}
    MaxMishaps      \* bounds what goes wrong

ASSUME ValuesAssumption == {Nothing, Body, Removed} \cap Nat = {}
ASSUME BoundAssumption == MaxMishaps \in Nat

VARIABLES
    late,           \* the session commits once the answer is on its way
    row,            \* row[e]: the committed version of an entity
    deleted,        \* entities that are soft-deleted
    call,           \* call[c]: the request, its handler and its audit task
    trail,          \* the rows of audit_logs
    mishaps         \* history: counts up to MaxMishaps

vars == <<late, row, deleted, call, trail, mishaps>>
----------------------------------------------------------------------------
(* Requests *)

\* create: POST on a collection; update: PUT, or POST of a sub-action, on an
\* entity; aside: the same, but what changes is another entity (a bug attached
\* to an execution); detach: DELETE of a part of an entity; Bulk: no entity in
\* the path.
Kinds == {"create", "update", "delete", "aside", "detach", "bulk", "bulk-delete"}

Bulk == {"bulk", "bulk-delete"}

\* The entity in the path, whose snapshots are taken.
InPath(kind) == kind \in {"update", "delete", "aside", "detach"}

Action(kind) ==
    CASE kind = "create" -> "CREATE"
      [] kind \in {"delete", "detach"} -> "DELETE"
      [] OTHER -> "other"

NoCall == [handler |-> "new"]

Request ==
    [kind : Kinds, path : Entities \cup {Nothing}, changes : SUBSET Entities,
     known : BOOLEAN,           \* the token names a user
     handler : {"before", "running", "flushed", "committed", "over"},
     task : {"none", "after", "insert", "over"},
     old : Nat \cup {Nothing}, new : Nat \cup {Nothing, Body, Removed},
     from : Nat, to : Nat,      \* history: versions of Named around the commit
     committed : BOOLEAN,       \* history: it has taken effect
     crowded : BOOLEAN,         \* history: another one has, in between
     spoilt : BOOLEAN]          \* history: a snapshot or the row was lost

Made(c) == call[c] # NoCall
Done(c) == Made(c) /\ call[c].handler = "over" /\ call[c].task \in {"none", "over"}

\* The entity the audit row is about: the one in the path, or the one a
\* creation reports in its answer.
Named(c) == IF call[c].kind = "create" THEN call[c].changes
            ELSE {call[c].path} \ {Nothing}
Entity(c) == CHOOSE e \in Named(c) : TRUE

Mishap == mishaps < MaxMishaps /\ mishaps' = mishaps + 1
Calm == UNCHANGED mishaps

Locked(e) == \E c \in Calls : /\ Made(c) /\ call[c].handler = "flushed"
                              /\ e \in call[c].changes

\* Between the first snapshot and the last of commit and second snapshot.
Between(c) ==
    /\ Made(c) /\ call[c].handler # "before"
    /\ call[c].handler # "over" \/ call[c].task = "after"

Alive == {e \in Entities : row[e] > 0 /\ e \notin deleted}

\* A request comes in: a creation makes an entity that nobody knows yet.
Arrive(c, kind, path, changes, known) ==
    /\ ~Made(c)
    /\ InPath(kind) <=> path # Nothing
    /\ CASE kind = "create" -> \E e \in Entities :
                                   /\ changes = {e} /\ row[e] = 0
                                   /\ \A d \in Calls : Made(d) => e \notin call[d].changes
         [] kind \in {"update", "delete"} -> changes = {path}
         [] kind \in {"aside", "detach"} -> \E e \in Entities \ {path} : changes = {e}
         [] kind \in Bulk -> Cardinality(changes) > 1
    /\ kind # "create" => changes \cup ({path} \ {Nothing}) \subseteq {e \in Entities : row[e] > 0}
    /\ call' = [call EXCEPT ![c] =
           [kind |-> kind, path |-> path, changes |-> changes, known |-> known,
            handler |-> "before", task |-> "none", old |-> Nothing, new |-> Nothing,
            from |-> 0, to |-> 0, committed |-> FALSE, crowded |-> FALSE,
            spoilt |-> FALSE]]
    /\ UNCHANGED <<late, row, deleted, trail>> /\ Calm
----------------------------------------------------------------------------
(* Before the handler *)

\* _snapshot: whatever is in the table, deleted or not.
SnapshotBefore(c) ==
    /\ Made(c) /\ call[c].handler = "before"
    /\ call' = [call EXCEPT ![c].handler = "running",
           ![c].old = IF InPath(call[c].kind) THEN row[call[c].path] ELSE Nothing]
    /\ UNCHANGED <<late, row, deleted, trail>> /\ Calm

\* It goes wrong and is taken for none.
MissBefore(c) ==
    /\ Mishap
    /\ Made(c) /\ call[c].handler = "before" /\ InPath(call[c].kind)
    /\ call' = [call EXCEPT ![c].handler = "running", ![c].spoilt = TRUE]
    /\ UNCHANGED <<late, row, deleted, trail>>
----------------------------------------------------------------------------
(* The handler *)

\* The rows are there and are written, once their locks are free; a bulk call
\* leaves out those that have gone.
Flush(c) ==
    /\ Made(c) /\ call[c].handler = "running"
    /\ LET there == IF call[c].kind = "create" THEN call[c].changes
                    ELSE call[c].changes \cap Alive
       IN /\ call[c].kind \in Bulk \/ there = call[c].changes
          /\ InPath(call[c].kind) => call[c].path \in Alive
          /\ \A e \in there : ~Locked(e)
          /\ call' = [call EXCEPT ![c].handler = "flushed", ![c].changes = there]
    /\ UNCHANGED <<late, row, deleted, trail>> /\ Calm

\* Not found, or not valid: an error, and nothing is audited.
Refuse(c) ==
    /\ Made(c) /\ call[c].handler = "running"
    /\ call' = [call EXCEPT ![c].handler = "over"]
    /\ UNCHANGED <<late, row, deleted, trail>> /\ Calm

\* When the commit comes before the answer it ends the handler's part.
Commit(c) ==
    /\ Made(c) /\ call[c].handler = "flushed"
    /\ late => call[c].task # "none"
    /\ LET changes == call[c].changes IN
       /\ row' = [e \in Entities |-> IF e \in changes THEN row[e] + 1 ELSE row[e]]
       /\ deleted' = IF call[c].kind \in {"delete", "bulk-delete"} THEN deleted \cup changes ELSE deleted
       /\ call' = [d \in Calls |->
              IF d = c THEN [call[c] EXCEPT
                     !.handler = IF late THEN "over" ELSE "committed", !.committed = TRUE,
                     !.from = IF Named(c) = {} THEN 0 ELSE row[Entity(c)],
                     !.to = IF Named(c) = {} THEN 0 ELSE row'[Entity(c)]]
              ELSE IF Between(d) /\ Named(d) \cap changes # {}
                   THEN [call[d] EXCEPT !.crowded = TRUE]
              ELSE call[d]]
    /\ UNCHANGED <<late, trail>> /\ Calm

CommitFails(c) ==
    /\ Mishap
    /\ Made(c) /\ call[c].handler = "flushed"
    /\ late => call[c].task # "none"
    /\ call' = [call EXCEPT ![c].handler = "over"]
    /\ UNCHANGED <<late, row, deleted, trail>>

\* Fault: the task is made whatever the answer is going to be.
AnswerWithoutLooking(c) ==
    /\ Made(c) /\ call[c].task = "none" /\ call[c].handler # "before"
    /\ call' = [call EXCEPT ![c].task = "after"]
    /\ UNCHANGED <<late, row, deleted, trail>> /\ Calm

\* The answer, a success, has come back to the middleware, which makes the
\* task.
Answer(c) ==
    /\ Made(c) /\ call[c].task = "none"
    /\ call[c].handler = IF late THEN "flushed" ELSE "committed"
    /\ call' = [call EXCEPT ![c].task = "after",
                            ![c].handler = IF late THEN @ ELSE "over"]
    /\ UNCHANGED <<late, row, deleted, trail>> /\ Calm
----------------------------------------------------------------------------
(* The task *)

\* Without a user nothing is stored.
Skip(c) ==
    /\ Made(c) /\ call[c].task = "after" /\ ~call[c].known
    /\ call' = [call EXCEPT ![c].task = "over"]
    /\ UNCHANGED <<late, row, deleted, trail>> /\ Calm

\* Fault: both snapshots in one session, whose identity map has the entity.
SeenInOneSession(c) ==
    IF Action(call[c].kind) = "DELETE"
    THEN IF call[c].old = Nothing THEN Removed ELSE Nothing
    ELSE IF call[c].old # Nothing THEN call[c].old
    ELSE IF \E e \in Named(c) : row[e] > 0 THEN row[Entity(c)]
    ELSE Body

\* new_values: none for a DELETE that has old_values, else the entity as it is
\* by now, else what the request said.
SeenAfter(c) ==
    IF Action(call[c].kind) = "DELETE"
    THEN IF call[c].old = Nothing THEN Removed ELSE Nothing
    ELSE IF \E e \in Named(c) : row[e] > 0 THEN row[Entity(c)]
    ELSE Body

SnapshotAfter(c) ==
    /\ Made(c) /\ call[c].task = "after" /\ call[c].known
    /\ call' = [call EXCEPT ![c].task = "insert", ![c].new = SeenAfter(c)]
    /\ UNCHANGED <<late, row, deleted, trail>> /\ Calm

MissAfter(c) ==
    /\ Mishap
    /\ Made(c) /\ call[c].task = "after" /\ call[c].known
    /\ Action(call[c].kind) # "DELETE" /\ Named(c) # {}
    /\ call' = [call EXCEPT ![c].task = "insert", ![c].new = Body, ![c].spoilt = TRUE]
    /\ UNCHANGED <<late, row, deleted, trail>>

AuditRow(c) ==
    [call |-> c, action |-> Action(call[c].kind), entity |-> Named(c),
     old |-> call[c].old, new |-> call[c].new]

\* Fault: entity_id is NULL for a bulk call, which the column does not take.
InsertWithoutId(c) ==
    /\ Made(c) /\ call[c].task = "insert"
    /\ trail' = IF Named(c) = {} THEN trail ELSE trail \cup {AuditRow(c)}
    /\ call' = [call EXCEPT ![c].task = "over"]
    /\ UNCHANGED <<late, row, deleted>> /\ Calm

\* log_action, and the commit of its session.
Insert(c) ==
    /\ Made(c) /\ call[c].task = "insert"
    /\ trail' = trail \cup {AuditRow(c)}
    /\ call' = [call EXCEPT ![c].task = "over"]
    /\ UNCHANGED <<late, row, deleted>> /\ Calm

\* A warning in the log is all that is left of it.
InsertFails(c) ==
    /\ Mishap
    /\ Made(c) /\ call[c].task = "insert"
    /\ call' = [call EXCEPT ![c].task = "over", ![c].spoilt = TRUE]
    /\ UNCHANGED <<late, row, deleted, trail>>

\* The worker dies, and with it every handler and every task.
Crash ==
    /\ Mishap
    /\ \E c \in Calls : Made(c) /\ ~Done(c)
    /\ call' = [c \in Calls |->
           IF ~Made(c) \/ Done(c) THEN call[c]
           ELSE [call[c] EXCEPT !.handler = "over", !.task = "over", !.spoilt = TRUE]]
    /\ UNCHANGED <<late, row, deleted, trail>>
----------------------------------------------------------------------------
Init ==
    /\ late \in BOOLEAN
    /\ row \in [Entities -> {0, 1}]
    /\ deleted = {}
    /\ call = [c \in Calls |-> NoCall]
    /\ trail = {}
    /\ mishaps = 0

Handler(c) == SnapshotBefore(c) \/ Refuse(c) \/ Commit(c) \/ Answer(c)
Task(c) == Skip(c) \/ SnapshotAfter(c) \/ Insert(c)
Failures(c) == MissBefore(c) \/ CommitFails(c) \/ MissAfter(c) \/ InsertFails(c)

Next ==
    \/ \E c \in Calls :
          \/ \E kind \in Kinds, path \in Entities \cup {Nothing},
                changes \in SUBSET Entities, known \in BOOLEAN :
                   Arrive(c, kind, path, changes, known)
          \/ Handler(c) \/ Flush(c) \/ Task(c) \/ Failures(c)
    \/ Crash

\* The event loop runs handlers and tasks whose await is over.
Fairness == \A c \in Calls : WF_vars(Handler(c)) /\ WF_vars(Task(c))

Spec == Init /\ [][Next]_vars /\ Fairness
----------------------------------------------------------------------------
(* Properties *)

TypeOK ==
    /\ late \in BOOLEAN /\ row \in [Entities -> Nat] /\ deleted \subseteq Entities
    /\ call \in [Calls -> {NoCall} \cup Request]
    /\ \A t \in trail : t.call \in Calls /\ t.entity \subseteq Entities
    /\ mishaps \in 0..MaxMishaps

\* The trail has at most one row for a request, made for a known user, and
\* none for a request that changed nothing: where the session commits before
\* the answer, whatever fails; where it commits after, unless the commit has
\* still to come or has failed.
RowIsOfItsRequest(t) ==
    LET h == call[t.call] IN
    /\ Made(t.call) /\ t = AuditRow(t.call)
    /\ h.known /\ h.task = "over" /\ (late \/ h.committed)

\* How far the audit task of a request can be when its handler is somewhere.
TaskFollowsHandler(c) ==
    LET h == call[c] IN
    /\ InPath(h.kind) <=> h.path # Nothing
    /\ h.handler \in {"before", "running", "flushed"} => ~h.committed
    /\ h.handler \in {"before", "running"} => h.task = "none"
    /\ h.handler = "flushed" => late \/ h.task = "none"
    /\ h.handler = "committed" => ~late /\ h.committed /\ h.task = "none"
    /\ h.task \in {"after", "insert"} => late \/ (h.handler = "over" /\ h.committed)
    /\ h.task = "insert" => h.known
    /\ h.committed => h.handler = "committed" \/ (h.handler = "over" /\ h.task # "none")

\* The snapshots taken so far, against the row as it is now and against the
\* change once there has been one.
Follows(younger, older, exact) == older <= younger /\ (exact => older = younger)

SnapshotsEnclose(c) ==
    LET h == call[c] exact == ~h.crowded IN
    /\ InPath(h.kind) =>
          /\ h.handler # "before" => h.old \in Nat
          /\ h.handler \in {"running", "flushed"} => Follows(row[h.path], h.old, exact)
          /\ h.handler = "flushed" => row[h.path] > 0
          /\ h.committed => Follows(h.from, h.old, exact)
    /\ h.committed /\ ~late /\ Named(c) # {} =>
          /\ h.to > 0
          /\ h.task \in {"none", "after"} => Follows(row[Entity(c)], h.to, exact)
          /\ h.task \in {"insert", "over"} /\ h.known /\ Action(h.kind) # "DELETE" =>
                 h.new \in Nat /\ Follows(h.new, h.to, exact)

TrailInv ==
    /\ TypeOK
    /\ \A t \in trail : RowIsOfItsRequest(t)
    /\ \A c \in Calls : Made(c) => TaskFollowsHandler(c)
    /\ \A c \in Calls : Made(c) /\ ~call[c].spoilt => SnapshotsEnclose(c)

\* The snapshots of a row enclose the change it reports: the old one is not
\* younger than what the change found, and, where the session commits before
\* the answer, the new one not older than what it left ("Load the fresh DB
\* snapshot AFTER the handler has committed").  They are exact unless another
\* request has changed the entity in between: the trail shows no change that
\* was not made by somebody.  For parts of an entity, whose change is in
\* another row, the two are equal then.
RowsTellTheChange ==
    \A t \in trail :
        LET c == call[t.call]
            exact == ~c.crowded
        IN  c.committed /\ ~c.spoilt =>
              /\ InPath(c.kind) => t.old <= c.from /\ (exact => t.old = c.from)
              /\ t.action # "DELETE" /\ t.entity # {} /\ ~late =>
                     c.to <= t.new /\ (exact => t.new = c.to)

\* Every change made by a known user is in the trail in the end, unless a
\* snapshot, the row or the worker was lost; that the task is not awaited by
\* anybody loses nothing by itself.
ChangesAreAudited ==
    \A c \in Calls :
        (Made(c) /\ call[c].committed /\ call[c].known) ~>
            (Made(c) /\ call[c].spoilt) \/ (\E t \in trail : t.call = c)
=============================================================================
