------------------------------ MODULE HumanIds ------------------------------
(***************************************************************************)
(* The numbers behind TC-PROJ-0001 and BUG-PROJ-0001: create_test_case,    *)
(* clone_test_case and create_defect, and the upload of a file of test     *)
(* cases, as requests that run next to each other.  Both tables generate   *)
(* their ids in the same way; the module is about one of them.             *)
(*                                                                         *)
(* The next number is one more than that of the last id in TEXT order      *)
(* among the ids the pattern PREFIX-% finds.  The text is padded to Width  *)
(* digits, and the pattern of one project also finds the ids of a project  *)
(* whose code continues its own after a hyphen.                            *)
(***************************************************************************)
EXTENDS Naturals, Sequences, FiniteSets

CONSTANTS
    Projects,   \* project codes
    Requests,   \* database sessions
    Base,       \* ten in the code
    Width,      \* digits an id is padded to, four in the code
    Finds,      \* Finds[p]: the projects whose ids the pattern of p finds
    Rank,       \* the text order of the codes
    Files,      \* what is uploaded: sequences of rows
    MaxDeleted, \* bound: rows that are deleted
    MaxIds      \* bound: once so many are stored nobody asks for more

Kinds == {"fine", "unknown column", "refused"}

ASSUME ConstantsAssumption ==
    /\ Base \in Nat \ {0, 1} /\ Width \in Nat \ {0} /\ {MaxIds, MaxDeleted} \subseteq Nat
    /\ Finds \in [Projects -> SUBSET Projects]
    /\ \A p \in Projects : p \in Finds[p]
    /\ Rank \in [Projects -> Nat]
    /\ \A p, q \in Projects : Rank[p] = Rank[q] => p = q   \* codes are unique
    /\ Files \subseteq Seq(Kinds)

VARIABLES
    stored,     \* ids of the committed rows, deleted ones included
    deleted,    \* those whose row is soft-deleted
    req         \* req[r]: the handler session r belongs to

vars == <<stored, deleted, req>>

Id == [project : Projects, number : Nat \ {0}]

NoRequest == [phase |-> "idle"]

Handler ==
    [phase : {"reading", "inserting", "closing"},
     project : Projects, rows : Seq(Kinds),
     upload : BOOLEAN,          \* a loop that catches what a row raises
     next : Nat,                \* the number read, 0 while there is none
     mine : SUBSET Id,          \* flushed, not committed
     created : Nat, failed : Nat,
     doomed : BOOLEAN,          \* the session will not commit
     crossed : BOOLEAN]         \* history: an id may have gone unseen

----------------------------------------------------------------------------
(* Text order *)

Power[k \in Nat] == IF k = 0 THEN 1 ELSE Base * Power[k - 1]

Length(n) == CHOOSE k \in Width..(Width + n) :
                 n < Power[k] /\ (k > Width => n >= Power[k - 1])

\* The digits of m come after those of n.
DigitsAfter(m, n) ==
    LET left == m * Power[Length(n)]
        right == n * Power[Length(m)]
    IN  left > right \/ (left = right /\ Length(m) > Length(n))

TextAfter(i, j) ==
    IF i.project = j.project THEN DigitsAfter(i.number, j.number)
                             ELSE Rank[i.project] > Rank[j.project]

\* Fault: rows are seen that are not committed.
FoundUncommitted(r) ==
    {i \in stored \cup UNION {req[s].mine : s \in {t \in Requests : req[t] # NoRequest}} :
         i.project \in Finds[req[r].project]}

\* Fault: deleted rows are filtered, as every other query does.
FoundWithoutDeleted(r) ==
    {i \in (stored \ deleted) \cup req[r].mine : i.project \in Finds[req[r].project]}

\* What the SELECT of session r finds: there is no filter on is_deleted.
Found(r) == {i \in stored \cup req[r].mine : i.project \in Finds[req[r].project]}

Last(ids) == CHOOSE i \in ids : \A j \in ids \ {i} : TextAfter(i, j)

NextNumber(ids) == IF ids = {} THEN 1 ELSE Last(ids).number + 1

----------------------------------------------------------------------------
(* One request *)

\* The handler is through with a row.
AfterRow(q) == [q EXCEPT !.rows = Tail(@), !.next = 0, !.crossed = FALSE,
                         !.phase = IF Len(q.rows) = 1 THEN "closing" ELSE "reading"]

\* Fault: an upload tries the row again.
RowFailsAndRetries(q) ==
    IF q.upload
    THEN [q EXCEPT !.phase = "reading"]
    ELSE [AfterRow(q) EXCEPT !.doomed = TRUE]

\* What a row raises ends a single creation and is noted by an upload.
RowFails(q) ==
    IF q.upload
    THEN [AfterRow(q) EXCEPT !.failed = @ + 1]
    ELSE [AfterRow(q) EXCEPT !.doomed = TRUE]

\* Fault: the loop goes on in a fresh transaction.
FlushFailsAndGoesOn(q) == [RowFails(q) EXCEPT !.mine = {}]

\* A flush that fails rolls the whole transaction back, and the session is
\* of no use until somebody calls rollback(), which the loop does not.
FlushFails(q) == [RowFails(q) EXCEPT !.mine = {}, !.doomed = TRUE]

Start(r, p, rows, upload) ==
    /\ req[r] = NoRequest
    /\ Cardinality(stored) < MaxIds \/ \A k \in DOMAIN rows : rows[k] # "fine"
    /\ req' = [req EXCEPT ![r] =
           [phase |-> IF rows = <<>> THEN "closing" ELSE "reading",
            project |-> p, rows |-> rows, upload |-> upload,
            next |-> 0, mine |-> {},
            created |-> 0, failed |-> 0, doomed |-> FALSE, crossed |-> FALSE]]
    /\ UNCHANGED <<stored, deleted>>

Create(r, p) == \E kind \in Kinds : Start(r, p, <<kind>>, FALSE)

\* The columns are those of a row that is stored already.
Clone(r, p) == (\E i \in stored : i.project = p) /\ Start(r, p, <<"fine">>, FALSE)

Upload(r, p) == \E rows \in Files : Start(r, p, rows, TRUE)

Mine(r) == IF req[r] = NoRequest THEN {} ELSE req[r].mine

\* Session s holds ids that the pattern of r finds once they are committed.
Concerns(s, r) == \E i \in Mine(s) : i.project \in Finds[req[r].project]

\* The SELECT of the last id.
ReadLast(r) ==
    /\ req[r].phase = "reading" /\ ~req[r].doomed
    /\ req' = [req EXCEPT ![r].phase = "inserting",
                          ![r].next = NextNumber(Found(r)),
                          ![r].crossed = \E s \in Requests \ {r} : Concerns(s, r)]
    /\ UNCHANGED <<stored, deleted>>

\* After a flush that failed the session refuses every statement.
ReadRefused(r) ==
    /\ req[r].phase = "reading" /\ req[r].doomed
    /\ req' = [req EXCEPT ![r] = RowFails(@)]
    /\ UNCHANGED <<stored, deleted>>

\* The model class does not take the row: nothing is sent.
BuildFails(r) ==
    /\ req[r].phase = "inserting" /\ Head(req[r].rows) = "unknown column"
    /\ req' = [req EXCEPT ![r] = RowFails(@)]
    /\ UNCHANGED <<stored, deleted>>

\* A value too long, or a key without a row.
InsertRefused(r) ==
    /\ req[r].phase = "inserting" /\ Head(req[r].rows) = "refused"
    /\ req' = [req EXCEPT ![r] = FlushFails(@)]
    /\ UNCHANGED <<stored, deleted>>

NextId(r) == [project |-> req[r].project, number |-> req[r].next]

\* The unique index: an INSERT waits for a session that holds its id.
Held(r) == \E s \in Requests \ {r} : NextId(r) \in Mine(s)

InsertTaken(r) ==
    /\ req[r].phase = "inserting" /\ Head(req[r].rows) = "fine"
    /\ NextId(r) \in stored \cup req[r].mine
    /\ req' = [req EXCEPT ![r] = FlushFails(@)]
    /\ UNCHANGED <<stored, deleted>>

InsertDone(r) ==
    /\ req[r].phase = "inserting" /\ Head(req[r].rows) = "fine"
    /\ ~Held(r) /\ NextId(r) \notin stored \cup req[r].mine
    /\ req' = [req EXCEPT ![r] =
           [AfterRow(req[r]) EXCEPT !.mine = req[r].mine \cup {NextId(r)},
                                    !.created = req[r].created + 1]]
    /\ UNCHANGED <<stored, deleted>>

\* commit(), and the answer with the report.
Commit(r) ==
    /\ req[r].phase = "closing" /\ ~req[r].doomed
    /\ stored' = stored \cup req[r].mine
    /\ req' = [s \in Requests |->
           IF s = r THEN NoRequest
           ELSE IF req[s].phase = "inserting" /\ Concerns(r, s)
                THEN [req[s] EXCEPT !.crossed = TRUE] ELSE req[s]]
    /\ UNCHANGED deleted

\* get_session rolls back and the client gets an error.
Refuse(r) ==
    /\ req[r].phase = "closing" /\ req[r].doomed
    /\ req' = [req EXCEPT ![r] = NoRequest]
    /\ UNCHANGED <<stored, deleted>>

\* The worker dies or the client goes away.
Crash(r) ==
    /\ req[r] # NoRequest
    /\ req' = [req EXCEPT ![r] = NoRequest]
    /\ UNCHANGED <<stored, deleted>>

\* A soft deletion, one step to the others as GovernedRows shows.
Delete(i) ==
    /\ i \in stored \ deleted /\ Cardinality(deleted) < MaxDeleted
    /\ deleted' = deleted \cup {i}
    /\ UNCHANGED <<stored, req>>

Init ==
    /\ stored = {} /\ deleted = {}
    /\ req = [r \in Requests |-> NoRequest]

Proceed(r) ==
    \/ ReadLast(r) \/ ReadRefused(r)
    \/ BuildFails(r) \/ InsertRefused(r) \/ InsertTaken(r)
    \/ Commit(r) \/ Refuse(r)

Next ==
    \/ \E r \in Requests :
           \/ \E p \in Projects : Create(r, p) \/ Clone(r, p) \/ Upload(r, p)
           \/ Proceed(r) \/ InsertDone(r) \/ Crash(r)
    \/ \E i \in stored : Delete(i)

Spec == Init /\ [][Next]_vars

\* The event loop runs a handler whose await is over, and PostgreSQL serves
\* those who wait for an index entry in turn.
FairSpec == Spec /\ \A r \in Requests :
    WF_vars(Proceed(r)) /\ SF_vars(InsertDone(r))

----------------------------------------------------------------------------
(* Properties *)

TypeOK ==
    /\ stored \subseteq Id /\ deleted \subseteq stored
    /\ req \in [Requests -> {NoRequest} \cup Handler]

\* How far a handler is with its rows, and what it has flushed by then.
RowsAreTakenInTurn(r) ==
    LET q == req[r] IN
    /\ q.phase = "closing" <=> q.rows = <<>>
    /\ q.phase = "inserting" => ~q.doomed /\ q.next > 0
    /\ \A i \in q.mine : i.project = q.project

\* The number read is still the next one, unless an id may have gone unseen.
NextIsNext(r) ==
    req[r].phase = "inserting" /\ ~req[r].crossed => req[r].next = NextNumber(Found(r))

\* Where the pattern of a project finds its own ids only, each of its ids has
\* the one before it, in the same session if it is not committed, and so will
\* the next one.
NoGapBefore(i, ids) ==
    i.number = 1 \/ [project |-> i.project, number |-> i.number - 1] \in ids

IdsFollow(r) ==
    Finds[req[r].project] = {req[r].project} =>
        /\ \A i \in Mine(r) : NoGapBefore(i, stored \cup Mine(r))
        /\ req[r].phase = "inserting" => NoGapBefore(NextId(r), stored \cup Mine(r))

\* Two rows never have one id, whether committed or about to be, and what an
\* upload counts as created so far is what it holds (the report of
\* bulk_upload_test_cases), unless it can no longer commit.
IdsAreUnique(r) ==
    /\ Mine(r) \cap stored = {}
    /\ \A s \in Requests \ {r} : Mine(r) \cap Mine(s) = {}
    /\ req[r] # NoRequest /\ ~req[r].doomed => Cardinality(req[r].mine) = req[r].created

IdsInv ==
    /\ TypeOK
    /\ IsFiniteSet(stored)
    /\ \A i \in stored : Finds[i.project] = {i.project} => NoGapBefore(i, stored)
    /\ \A r \in Requests : IsFiniteSet(Mine(r)) /\ IdsAreUnique(r)
    /\ \A r \in Requests : req[r] # NoRequest =>
           RowsAreTakenInTurn(r) /\ NextIsNext(r) /\ IdsFollow(r)

\* A creation finds its id taken only if another request came in between,
\* the project has run out of digits, or the last id its pattern finds is
\* another project's (get_next_test_case_id): a lone creation succeeds, also
\* after the last rows have been deleted.
RunOut(r) == \E i \in Found(r) : i.number >= Power[Width]

Eclipsed(r) == Found(r) # {} /\ Last(Found(r)).project # req[r].project

LoneCreationsSucceed ==
    [][\A r \in Requests : InsertTaken(r) =>
           req[r].crossed \/ RunOut(r) \/ Eclipsed(r)]_vars

\* The stored numbers of a project have no gaps and start at one, whichever
\* requests failed, crashed or were overtaken, and whatever was deleted: ids
\* are sequential, as get_next_test_case_id says, as long as the pattern of the
\* project finds its own ids only.
NumbersAreSequential ==
    \A p \in Projects : Finds[p] = {p} =>
        LET numbers == {i.number : i \in {j \in stored : j.project = p}}
        IN  numbers = 1..Cardinality(numbers)

\* Requests that wait for each other's ids all come to an end.
EveryCreationEnds == \A r \in Requests : req[r] # NoRequest ~> req[r] = NoRequest
=============================================================================
