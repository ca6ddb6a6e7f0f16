------------------------ MODULE GovernedRows_proofs ------------------------
(***************************************************************************)
(* Proofs about GovernedRows, for every table, every set of columns and    *)
(* calls, and any number of rows and sessions.                             *)
(***************************************************************************)
EXTENDS GovernedRows, TLAPS

----------------------------------------------------------------------------
(* Rows and patches *)

\* A patch is a function from some columns to values of those columns.
LEMMA PatchFacts ==
    ASSUME NEW p \in Patch
    PROVE  /\ DOMAIN p \subseteq Columns
           /\ p = [c \in DOMAIN p |-> p[c]]
           /\ \A c \in DOMAIN p : p[c] \in Value[c]
BY DEF Patch

\* A function from some columns to values of those columns is a patch.
LEMMA PatchIntro ==
    ASSUME NEW cs \in SUBSET Columns, NEW p, p = [c \in cs |-> p[c]],
           \A c \in cs : p[c] \in Value[c]
    PROVE  p \in Patch
<1>1. p \in [cs -> UNION {Value[c] : c \in Columns}]
  OBVIOUS
<1> QED
  BY <1>1 DEF Patch

\* A session writes nothing: the empty patch everywhere.
LEMMA EmptyPatch == NoColumns \in Patch /\ DOMAIN NoColumns = {}
<1>1. DOMAIN NoColumns = {} /\ NoColumns \in [{} -> UNION {Value[c] : c \in Columns}]
  BY DEF NoColumns
<1>2. {} \in SUBSET Columns
  OBVIOUS
<1> QED
  BY <1>1, <1>2 DEF Patch

\* Overlaying a patch on a row gives a row.
LEMMA ViewIsRow ==
    ASSUME TypeOK, NEW r \in Requests, NEW d \in Rows
    PROVE  View(r, d) \in Row
<1>1. pend[r][d] \in Patch /\ row[d] \in Row
  BY DEF TypeOK
<1>2. \A c \in Columns : View(r, d)[c] \in Value[c]
  BY <1>1, PatchFacts DEF View, Row
<1>3. View(r, d) \in [Columns -> UNION {Value[c] : c \in Columns}]
  BY <1>2 DEF View
<1> QED
  BY <1>2, <1>3 DEF Row

----------------------------------------------------------------------------
(* Type correctness *)

\* The row CHOSEN to stand for any row is one, and is not deleted.
LEMMA AnyRowIsRow == AnyRow \in Row /\ AnyRow["is_deleted"] = "false"
BY NewRowsAssumption DEF AnyRow

\* A session without a request has a well-formed control state.
LEMMA IdleIsHandler ==
    ASSUME NEW answer \in Answers
    PROVE  Idle(answer) \in Handler
BY AnyRowIsRow DEF Idle, Handler, Phases

\* What flush() leaves in a row is a patch again.
LEMMA FlushedIsPatch ==
    ASSUME TypeOK, NEW r \in Requests, NEW d \in Rows, req[r].call \in Calls
    PROVE  FlushedTo(r, d) \in Patch
<1>1. /\ pend[r][d] \in Patch
      /\ req[r].call.set \in Patch
  BY CallsAssumption DEF TypeOK
<1> DEFINE cs == DOMAIN pend[r][d] \cup Changed(r)
           p == FlushedTo(r, d)
<1>2. Changed(r) \subseteq DOMAIN req[r].call.set
  BY DEF Changed
<1>3. cs \in SUBSET Columns
  BY <1>1, <1>2, PatchFacts
<1>4. p = [c \in cs |-> p[c]]
  BY DEF FlushedTo
<1>5. \A c \in cs : p[c] \in Value[c]
  BY <1>1, <1>2, PatchFacts DEF FlushedTo
<1> HIDE DEF cs, p
<1>6. p \in Patch
  BY <1>3, <1>4, <1>5, PatchIntro
<1> QED
  BY <1>6 DEF p

\* An open handler serves one of the calls; an idle one serves none.
Serving == \A r \in Requests : req[r].phase # "idle" => req[r].call \in Calls

\* Ending a session keeps the types of the locks and the flushed columns.
LEMMA ReleaseType ==
    ASSUME TypeOK, NEW r \in Requests, Release(r)
    PROVE  /\ lock' \in [Rows -> Requests \cup {Nobody}]
           /\ pend' \in [Requests -> [Rows -> Patch]]
<1>1. NoWrites \in [Rows -> Patch]
  BY EmptyPatch DEF NoWrites
<1> QED
  BY <1>1 DEF Release, TypeOK

\* Rolling back keeps TypeOK.
LEMMA RollbackType ==
    ASSUME TypeOK, Serving, NEW r \in Requests, NEW answer \in Answers,
           Rollback(r, answer)
    PROVE  TypeOK' /\ Serving'
<1>1. /\ lock' \in [Rows -> Requests \cup {Nobody}]
      /\ pend' \in [Requests -> [Rows -> Patch]]
  BY ReleaseType DEF Rollback
<1>2. req' \in [Requests -> Handler] /\ Serving'
  BY IdleIsHandler DEF Rollback, TypeOK, Serving, Idle
<1> QED
  BY <1>1, <1>2 DEF Rollback, TypeOK

\* Going on with the next id keeps the type of the handler and its table.
LEMMA SucceedType ==
    ASSUME TypeOK, Serving, NEW r \in Requests, req[r].todo # <<>>,
           req[r].phase # "idle", Succeed(r)
    PROVE  req' \in [Requests -> Handler] /\ Serving'
<1>1. Tail(req[r].todo) \in Seq(Rows) /\ Head1(r) \in Rows
  BY DEF TypeOK, Handler, Head1
<1>2. req' \in [Requests -> Handler]
  BY <1>1 DEF Succeed, TypeOK, Handler, Phases
<1> QED
  BY DEF Succeed, TypeOK, Handler, Serving

\* Raising keeps TypeOK, whether a bulk method catches it or not.
LEMMA RaiseType ==
    ASSUME TypeOK, Serving, NEW r \in Requests, NEW answer \in Answers,
           req[r].todo # <<>>, req[r].phase # "idle", Raise(r, answer)
    PROVE  TypeOK' /\ Serving'
<1>1. CASE req[r].call.bulk
  <2>1. Tail(req[r].todo) \in Seq(Rows) /\ Head1(r) \in Rows
    BY DEF TypeOK, Handler, Head1
  <2>2. req' \in [Requests -> Handler]
    BY <1>1, <2>1 DEF Raise, TypeOK, Handler, Phases
  <2>3. \A q \in Requests : req'[q].call = req[q].call
                            /\ (req'[q].phase # "idle" => req[q].phase # "idle")
    <3>1. req[r] \in Handler /\ req' = [req EXCEPT ![r] = [req[r] EXCEPT
              !.phase = "load", !.todo = Tail(@), !.failed = @ \cup {Head1(r)}]]
      BY <1>1 DEF Raise, TypeOK
    <3>2. req'[r].call = req[r].call
      BY <3>1 DEF TypeOK, Handler
    <3>3. \A q \in Requests \ {r} : req'[q] = req[q]
      BY <3>1 DEF TypeOK
    <3> QED
      BY <3>2, <3>3
  <2>4. Serving'
    BY <2>3 DEF Serving
  <2> QED
    BY <1>1, <2>2, <2>4 DEF Raise, TypeOK
<1>2. CASE ~req[r].call.bulk
  BY <1>2, RollbackType DEF Raise
<1> QED
  BY <1>1, <1>2

\* At a phase other than idle the first id is a row.
LEMMA Head1IsRow ==
    ASSUME TypeOK, NEW r \in Requests, req[r].todo # <<>>
    PROVE  Head1(r) \in Rows /\ Tail(req[r].todo) \in Seq(Rows)
BY DEF TypeOK, Handler, Head1

\* Opening a request keeps TypeOK.
LEMMA StartType ==
    ASSUME TypeOK, Serving, NEW r \in Requests, NEW call \in Calls, Start(r, call)
    PROVE  TypeOK' /\ Serving'
<1>1. call.ids \in Seq(Rows)
  BY CallsAssumption
<1>2. req' \in [Requests -> Handler]
  BY <1>1, AnyRowIsRow DEF Start, TypeOK, Handler, Phases, Answers
<1>3. Serving'
  BY DEF Start, TypeOK, Serving
<1> QED
  BY <1>2, <1>3 DEF Start, TypeOK

\* Loading a row keeps TypeOK.
LEMMA LoadFoundType ==
    ASSUME TypeOK, Serving, NEW r \in Requests, LoadFound(r)
    PROVE  TypeOK' /\ Serving'
<1> DEFINE d == Head1(r)
           to == IF req[r].call.governed THEN "reload" ELSE "flush"
<1>1. req[r].todo # <<>> /\ req[r].phase = "load"
  BY DEF LoadFound, At
<1>2. View(r, d) \in Row
  BY <1>1, Head1IsRow, ViewIsRow
<1>3. req[r] \in Handler /\ to \in Phases
  BY DEF TypeOK, Phases
<1>4. req' = [req EXCEPT ![r] = [req[r] EXCEPT !.seen = View(r, d), !.phase = to]]
  BY DEF LoadFound, TypeOK
<1>5. req'[r] \in Handler /\ req'[r].call = req[r].call
  <2> HIDE DEF d, to
  <2> QED
    BY <1>2, <1>3, <1>4 DEF TypeOK, Handler
<1>6. \A q \in Requests \ {r} : req'[q] = req[q]
  BY <1>4 DEF TypeOK
<1>7. req' \in [Requests -> Handler]
  BY <1>4, <1>5, <1>6 DEF TypeOK
<1>8. Serving'
  BY <1>1, <1>5, <1>6 DEF Serving
<1>9. overtaken' \in [Requests -> SUBSET Rows]
  BY DEF LoadFound, TypeOK
<1> QED
  BY <1>7, <1>8, <1>9 DEF LoadFound, TypeOK

\* Finding the row again keeps TypeOK.
LEMMA ReloadFoundType ==
    ASSUME TypeOK, Serving, NEW r \in Requests, ReloadFound(r)
    PROVE  TypeOK' /\ Serving'
<1>1. req' \in [Requests -> Handler]
  BY DEF ReloadFound, TypeOK, Handler, Phases
<1>2. Serving'
  BY DEF ReloadFound, At, TypeOK, Handler, Serving
<1> QED
  BY <1>1, <1>2 DEF ReloadFound, TypeOK

\* Being done with an id without an UPDATE keeps TypeOK.
LEMMA SkippedType ==
    ASSUME TypeOK, Serving, NEW r \in Requests, ReloadMissing(r) \/ FlushNothing(r)
    PROVE  TypeOK' /\ Serving'
<1>1. req' \in [Requests -> Handler] /\ Serving'
  BY SucceedType DEF ReloadMissing, FlushNothing, At
<1> QED
  BY <1>1 DEF ReloadMissing, FlushNothing, Succeed, TypeOK

\* An UPDATE keeps TypeOK.
LEMMA FlushType ==
    ASSUME TypeOK, Serving, NEW r \in Requests, Flush(r)
    PROVE  TypeOK' /\ Serving'
<1>1. req[r].todo # <<>> /\ req[r].phase = "flush"
  BY DEF Flush, At
<1>2. req' \in [Requests -> Handler] /\ Serving'
  BY <1>1, SucceedType DEF Flush
<1>3. FlushedTo(r, Head1(r)) \in Patch /\ Head1(r) \in Rows
  BY <1>1, Head1IsRow, FlushedIsPatch DEF Serving
<1>4. /\ lock' \in [Rows -> Requests \cup {Nobody}]
      /\ pend' \in [Requests -> [Rows -> Patch]]
  BY <1>3 DEF Flush, TypeOK
<1> QED
  BY <1>2, <1>4 DEF Flush, Succeed, TypeOK

\* A commit keeps TypeOK.
LEMMA CommitType ==
    ASSUME TypeOK, Serving, NEW r \in Requests, Commit(r)
    PROVE  TypeOK' /\ Serving'
<1>1. /\ lock' \in [Rows -> Requests \cup {Nobody}]
      /\ pend' \in [Requests -> [Rows -> Patch]]
  BY ReleaseType DEF Commit, CommitSession
<1>2. req' \in [Requests -> Handler] /\ Serving'
  BY IdleIsHandler DEF Commit, TypeOK, Serving, Idle, Answers
<1>3. row' \in [Rows -> Row]
  BY ViewIsRow DEF Commit, CommitSession
<1>4. overtaken' \in [Requests -> SUBSET Rows]
  BY DEF Commit, CommitSession, TypeOK, Written
<1> QED
  BY <1>1, <1>2, <1>3, <1>4 DEF Commit, CommitSession, TypeOK

\* Inserting a row keeps TypeOK.
LEMMA CreateType ==
    ASSUME TypeOK, Serving, NEW r \in Requests, NEW d \in Rows, NEW new \in NewRows,
           Create(r, d, new)
    PROVE  TypeOK' /\ Serving'
<1>1. req' \in [Requests -> Handler] /\ Serving'
  BY IdleIsHandler DEF Create, TypeOK, Serving, Idle, Answers
<1>2. row' \in [Rows -> Row]
  BY NewRowsAssumption DEF Create, TypeOK
<1> QED
  BY <1>1, <1>2 DEF Create, TypeOK

\* TypeOK and Serving hold initially.
LEMMA InitType == Init => TypeOK /\ Serving
<1> SUFFICES ASSUME Init
             PROVE  TypeOK /\ Serving
  OBVIOUS
<1>1. NoWrites \in [Rows -> Patch]
  BY EmptyPatch DEF NoWrites
<1>2. Idle("none") \in Handler
  BY IdleIsHandler DEF Answers
<1> QED
  BY <1>1, <1>2, AnyRowIsRow DEF Init, TypeOK, Serving, Idle

\* Every step keeps the types and the calls the handlers serve.
LEMMA NextType ==
    ASSUME TypeOK, Serving, [Next]_vars
    PROVE  TypeOK' /\ Serving'
<1>1. CASE UNCHANGED vars
  BY <1>1 DEF vars, TypeOK, Serving
<1>2. ASSUME NEW r \in Requests, NEW call \in Calls, Start(r, call)
      PROVE  TypeOK' /\ Serving'
  BY <1>2, StartType
<1>3. ASSUME NEW r \in Requests, NEW d \in Rows, NEW new \in NewRows, Create(r, d, new)
      PROVE  TypeOK' /\ Serving'
  BY <1>3, CreateType
<1>4. ASSUME NEW r \in Requests, LoadMissing(r) \/ LoadDisallowed(r)
      PROVE  TypeOK' /\ Serving'
  BY <1>4, RaiseType DEF LoadMissing, LoadDisallowed, At, Answers
<1>5. ASSUME NEW r \in Requests, FlushBadKey(r) \/ DeadlockVictim(r) \/ Crash(r)
      PROVE  TypeOK' /\ Serving'
  BY <1>5, RollbackType DEF FlushBadKey, DeadlockVictim, Crash, Answers
<1> QED
  BY <1>1, <1>2, <1>3, <1>4, <1>5, LoadFoundType, ReloadFoundType, SkippedType,
     FlushType, CommitType DEF Next, Proceed, TakeLock

\* Type correctness: the variables keep their types, for every service.
THEOREM TypeCorrect == Spec => []TypeOK
<1>1. Init => TypeOK /\ Serving
  BY InitType
<1>2. TypeOK /\ Serving /\ [Next]_vars => (TypeOK /\ Serving)'
  BY NextType
<1> QED
  BY <1>1, <1>2, PTL DEF Spec

----------------------------------------------------------------------------
(* What a step of one session leaves alone *)

\* A step of r that neither writes nor ends: the call stays the same, or a
\* new one has just been received.
Silent(r) ==
    /\ UNCHANGED <<row, unborn, lock, pend>>
    /\ \A q \in Requests \ {r} : overtaken'[q] = overtaken[q]
    /\ req'[r].phase # "idle"
    /\ req[r].phase # "idle" => /\ req'[r].call = req[r].call
                                /\ req[r].ok \subseteq req'[r].ok
    /\ \A d \in Rows : d \in overtaken[r] \ overtaken'[r] => lock[d] # r

Step(r) ==
    /\ \A q \in Requests \ {r} : req'[q] = req[q] /\ pend'[q] = pend[q]
    /\ \/ Silent(r)
       \/ \E answer \in Answers \ {"200"} : Rollback(r, answer)
       \/ Commit(r)
       \/ Flush(r)
       \/ \E d \in Rows, new \in NewRows : Create(r, d, new)

\* A rollback is one of the silent steps.
LEMMA RollbackStep ==
    ASSUME TypeOK, NEW r \in Requests, NEW answer \in Answers \ {"200"}, Rollback(r, answer)
    PROVE  Step(r)
BY DEF Step, Rollback, Release, TypeOK

\* Raising is a silent step: it commits nothing.
LEMMA RaiseStep ==
    ASSUME TypeOK, NEW r \in Requests, NEW answer \in Answers \ {"200"}, Raise(r, answer)
    PROVE  Step(r)
<1>1. CASE req[r].call.bulk
  <2>1. /\ req[r] \in Handler
        /\ req' = [req EXCEPT ![r] = [req[r] EXCEPT !.phase = "load",
                      !.todo = Tail(@), !.failed = @ \cup {Head1(r)}]]
        /\ UNCHANGED <<row, unborn, lock, pend, overtaken>>
    BY <1>1 DEF Raise, TypeOK
  <2>2. req'[r].call = req[r].call /\ req'[r].phase = "load" /\ req'[r].ok = req[r].ok
    BY <2>1 DEF TypeOK, Handler
  <2>3. \A q \in Requests \ {r} : req'[q] = req[q]
    BY <2>1 DEF TypeOK
  <2>4. Silent(r)
    BY <2>1, <2>2 DEF Silent
  <2> QED
    BY <2>1, <2>3, <2>4 DEF Step
<1>2. CASE ~req[r].call.bulk
  BY <1>2, RollbackStep DEF Raise
<1> QED
  BY <1>1, <1>2

\* Loading is a silent step.
LEMMA LoadFoundStep ==
    ASSUME TypeOK, NEW r \in Requests, LoadFound(r)
    PROVE  Step(r)
<1> DEFINE d == Head1(r)
           to == IF req[r].call.governed THEN "reload" ELSE "flush"
<1>1. /\ req[r] \in Handler
      /\ req' = [req EXCEPT ![r] = [req[r] EXCEPT !.seen = View(r, d), !.phase = to]]
      /\ UNCHANGED <<row, unborn, lock, pend>>
  BY DEF LoadFound, TypeOK
<1>2. req'[r].call = req[r].call /\ req'[r].phase # "idle" /\ req'[r].ok = req[r].ok
  BY <1>1 DEF TypeOK, Handler
<1>3. \A q \in Requests \ {r} : req'[q] = req[q]
  BY <1>1 DEF TypeOK
<1>4. /\ \A q \in Requests \ {r} : overtaken'[q] = overtaken[q]
      /\ \A e \in Rows : e \in overtaken[r] \ overtaken'[r] => lock[e] # r
  BY DEF LoadFound, TypeOK
<1>5. Silent(r)
  BY <1>1, <1>2, <1>4 DEF Silent
<1> QED
  BY <1>1, <1>3, <1>5 DEF Step

\* Going on with the next id commits nothing.
LEMMA SucceedStep ==
    ASSUME TypeOK, NEW r \in Requests, Succeed(r)
    PROVE  /\ req'[r].call = req[r].call /\ req'[r].phase = "load"
           /\ req'[r].todo = Tail(req[r].todo)
           /\ req'[r].ok = req[r].ok \cup {Head1(r)}
           /\ \A q \in Requests \ {r} : req'[q] = req[q]
           /\ UNCHANGED <<row, unborn>>
<1>1. /\ req[r] \in Handler
      /\ req' = [req EXCEPT ![r] = [req[r] EXCEPT !.phase = "load",
                    !.todo = Tail(@), !.ok = @ \cup {Head1(r)}]]
      /\ UNCHANGED <<row, unborn>>
  BY DEF Succeed, TypeOK
<1> QED
  BY <1>1 DEF TypeOK, Handler

\* The steps of one session, as Next lists them.
Moves(r) == \/ \E call \in Calls : Start(r, call)
            \/ \E d \in Rows, new \in NewRows : Create(r, d, new)
            \/ Proceed(r)
            \/ TakeLock(r)
            \/ DeadlockVictim(r)
            \/ Crash(r)

\* Whatever one session does is a Step of that session.
LEMMA MovesStep ==
    ASSUME TypeOK, NEW s \in Requests, Moves(s)
    PROVE  Step(s)
<1>1. ASSUME NEW r \in Requests, NEW call \in Calls, Start(r, call)
      PROVE  Step(r)
  <2>1. Silent(r)
    BY <1>1 DEF Start, Silent, TypeOK
  <2> QED
    BY <1>1, <2>1 DEF Start, Step, TypeOK
<1>2. ASSUME NEW r \in Requests, NEW d \in Rows, NEW new \in NewRows, Create(r, d, new)
      PROVE  Step(r)
  BY <1>2 DEF Create, Step, TypeOK
<1>3. ASSUME NEW r \in Requests, LoadMissing(r) \/ LoadDisallowed(r)
      PROVE  Step(r)
  BY <1>3, RaiseStep DEF LoadMissing, LoadDisallowed, Answers
<1>4. ASSUME NEW r \in Requests, ReloadFound(r)
      PROVE  Step(r)
  <2>1. req[r] \in Handler /\ req' = [req EXCEPT ![r] = [req[r] EXCEPT !.phase = "flush"]]
    BY <1>4 DEF ReloadFound, TypeOK
  <2>2. req'[r].call = req[r].call /\ req'[r].phase = "flush" /\ req'[r].ok = req[r].ok
    BY <2>1 DEF TypeOK, Handler
  <2>3. Silent(r)
    BY <1>4, <2>2 DEF ReloadFound, Silent
  <2> QED
    BY <1>4, <2>1, <2>3 DEF ReloadFound, Step, TypeOK
<1>5. ASSUME NEW r \in Requests, ReloadMissing(r) \/ FlushNothing(r)
      PROVE  Step(r)
  BY <1>5, SucceedStep DEF ReloadMissing, FlushNothing, Step, Silent
<1>6. ASSUME NEW r \in Requests, Flush(r)
      PROVE  Step(r)
  BY <1>6, SucceedStep DEF Flush, Step, TypeOK
<1>7. ASSUME NEW r \in Requests, FlushBadKey(r) \/ DeadlockVictim(r) \/ Crash(r)
      PROVE  Step(r)
  BY <1>7, RollbackStep DEF FlushBadKey, DeadlockVictim, Crash, Answers
<1>8. ASSUME NEW r \in Requests, Commit(r)
      PROVE  Step(r)
  BY <1>8 DEF Commit, CommitSession, Release, Step, TypeOK
<1> QED
  BY <1>1, <1>2, <1>3, <1>4, <1>5, <1>6, <1>7, <1>8, LoadFoundStep
     DEF Moves, Proceed, TakeLock

\* Every step is a step of one session.
LEMMA NextStep ==
    ASSUME TypeOK, Next
    PROVE  \E r \in Requests : Step(r)
BY MovesStep DEF Next, Moves

----------------------------------------------------------------------------
(* Row locks and flushed columns *)

\* No columns flushed to any row.
LEMMA EmptyWrites == \A d \in Rows : DOMAIN NoWrites[d] = {}
BY EmptyPatch DEF NoWrites

\* A session that ends has neither locks nor flushed columns.
LEMMA ReleaseLocks ==
    ASSUME TypeOK, LocksMatchWrites, NEW r \in Requests, Release(r),
           \A q \in Requests \ {r} : pend'[q] = pend[q]
    PROVE  LocksMatchWrites'
<1> SUFFICES ASSUME NEW q \in Requests, NEW d \in Rows
             PROVE  lock'[d] = q <=> DOMAIN pend'[q][d] # {}
  BY DEF LocksMatchWrites, Written
<1>1. CASE q = r
  BY <1>1, EmptyWrites, NobodyAssumption DEF Release, TypeOK
<1>2. CASE q # r
  BY <1>2, NobodyAssumption DEF Release, TypeOK, LocksMatchWrites, Written
<1> QED
  BY <1>1, <1>2

\* A flush takes the lock of exactly the row it writes.
LEMMA FlushLocks ==
    ASSUME TypeOK, LocksMatchWrites, NEW r \in Requests, Flush(r),
           \A q \in Requests \ {r} : pend'[q] = pend[q]
    PROVE  LocksMatchWrites'
<1> DEFINE e == Head1(r)
<1>1. e \in Rows
  BY Head1IsRow DEF Flush, At
<1>2. DOMAIN FlushedTo(r, e) # {}
  BY DEF Flush, FlushedTo
<1>3. /\ lock[e] \in {Nobody, r} /\ lock' = [lock EXCEPT ![e] = r]
      /\ pend' = [pend EXCEPT ![r][e] = FlushedTo(r, e)]
  BY DEF Flush
<1> HIDE DEF e
<1> SUFFICES ASSUME NEW q \in Requests, NEW d \in Rows
             PROVE  lock'[d] = q <=> DOMAIN pend'[q][d] # {}
  BY DEF LocksMatchWrites, Written
<1>4. CASE d = e
  BY <1>1, <1>2, <1>3, <1>4, NobodyAssumption DEF TypeOK, LocksMatchWrites, Written
<1>5. CASE d # e
  BY <1>1, <1>3, <1>5 DEF TypeOK, LocksMatchWrites, Written
<1> QED
  BY <1>4, <1>5

\* Every step keeps locks and flushed columns in line.
LEMMA NextLocks ==
    ASSUME TypeOK, LocksMatchWrites, Next
    PROVE  LocksMatchWrites'
<1>1. PICK r \in Requests : Step(r)
  BY NextStep
<1>2. CASE Silent(r)
  BY <1>2 DEF Silent, LocksMatchWrites, Written
<1>3. CASE \E answer \in Answers \ {"200"} : Rollback(r, answer)
  BY <1>1, <1>3, ReleaseLocks DEF Rollback, Step
<1>4. CASE Commit(r)
  BY <1>1, <1>4, ReleaseLocks DEF Commit, CommitSession, Step
<1>5. CASE Flush(r)
  BY <1>1, <1>5, FlushLocks DEF Step
<1>6. CASE \E d \in Rows, new \in NewRows : Create(r, d, new)
  BY <1>6 DEF Create, LocksMatchWrites, Written
<1> QED
  BY <1>1, <1>2, <1>3, <1>4, <1>5, <1>6 DEF Step

----------------------------------------------------------------------------
(* The calls the handlers serve *)

\* The ids still to do are ids of the call, also when the first one is done.
LEMMA TailIsNamed ==
    ASSUME NEW S, NEW todo \in Seq(Rows), todo # <<>>,
           \A i \in DOMAIN todo : todo[i] \in S
    PROVE  \A i \in DOMAIN Tail(todo) : Tail(todo)[i] \in S
OBVIOUS

\* Going on with the next id keeps working through the ids of the call.
LEMMA SucceedServes ==
    ASSUME TypeOK, HandlersServeCalls, NEW r \in Requests, req[r].todo # <<>>,
           req[r].phase # "idle", Succeed(r)
    PROVE  HandlersServeCalls'
<1>1. /\ req'[r].call = req[r].call /\ req'[r].phase = "load"
      /\ req'[r].todo = Tail(req[r].todo)
      /\ \A q \in Requests \ {r} : req'[q] = req[q]
  BY SucceedStep
<1>2. req[r].todo \in Seq(Rows)
  BY DEF TypeOK, Handler
<1>3. \A i \in DOMAIN req'[r].todo : req'[r].todo[i] \in Atomic!Named(req'[r].call)
  BY <1>1, <1>2, TailIsNamed DEF HandlersServeCalls
<1> QED
  BY <1>1, <1>3 DEF HandlersServeCalls

\* A session that has rolled back serves nothing.
LEMMA RollbackServes ==
    ASSUME TypeOK, HandlersServeCalls, NEW r \in Requests, NEW answer \in Answers,
           Rollback(r, answer)
    PROVE  HandlersServeCalls'
BY DEF Rollback, Idle, TypeOK, HandlersServeCalls

\* Raising keeps HandlersServeCalls.
LEMMA RaiseServes ==
    ASSUME TypeOK, HandlersServeCalls, NEW r \in Requests, NEW answer \in Answers,
           req[r].todo # <<>>, req[r].phase # "idle", Raise(r, answer)
    PROVE  HandlersServeCalls'
<1>1. CASE req[r].call.bulk
  <2>1. /\ req[r] \in Handler
        /\ req' = [req EXCEPT ![r] = [req[r] EXCEPT !.phase = "load",
                      !.todo = Tail(@), !.failed = @ \cup {Head1(r)}]]
    BY <1>1 DEF Raise, TypeOK
  <2>2. /\ req'[r].call = req[r].call /\ req'[r].phase = "load"
        /\ req'[r].todo = Tail(req[r].todo) /\ req[r].todo \in Seq(Rows)
    BY <2>1 DEF TypeOK, Handler
  <2>3. \A q \in Requests \ {r} : req'[q] = req[q]
    BY <2>1 DEF TypeOK
  <2>4. \A i \in DOMAIN req'[r].todo : req'[r].todo[i] \in Atomic!Named(req'[r].call)
    BY <2>2, TailIsNamed DEF HandlersServeCalls
  <2> QED
    BY <2>2, <2>3, <2>4 DEF HandlersServeCalls
<1>2. CASE ~req[r].call.bulk
  BY <1>2, RollbackServes DEF Raise
<1> QED
  BY <1>1, <1>2

\* Every step keeps HandlersServeCalls.
LEMMA NextServes ==
    ASSUME TypeOK, HandlersServeCalls, Next
    PROVE  HandlersServeCalls'
<1>1. ASSUME NEW r \in Requests, NEW call \in Calls, Start(r, call)
      PROVE  HandlersServeCalls'
  <2>1. \A i \in DOMAIN call.ids : call.ids[i] \in Atomic!Named(call)
    BY DEF Atomic!Named
  <2> QED
    BY <1>1, <2>1 DEF Start, TypeOK, HandlersServeCalls
<1>2. ASSUME NEW r \in Requests, NEW d \in Rows, NEW new \in NewRows, Create(r, d, new)
      PROVE  HandlersServeCalls'
  BY <1>2 DEF Create, Idle, TypeOK, HandlersServeCalls
<1>3. ASSUME NEW r \in Requests, LoadMissing(r) \/ LoadDisallowed(r)
      PROVE  HandlersServeCalls'
  BY <1>3, RaiseServes DEF LoadMissing, LoadDisallowed, At, Answers
<1>4. ASSUME NEW r \in Requests, LoadFound(r)
      PROVE  HandlersServeCalls'
  <2> DEFINE to == IF req[r].call.governed THEN "reload" ELSE "flush"
  <2>1. /\ req[r] \in Handler /\ req[r].todo # <<>> /\ req[r].phase = "load"
        /\ req' = [req EXCEPT ![r] = [req[r] EXCEPT !.seen = View(r, Head1(r)),
                                                    !.phase = to]]
    BY <1>4 DEF LoadFound, At, TypeOK
  <2>2. req'[r].call = req[r].call /\ req'[r].todo = req[r].todo
    BY <2>1 DEF TypeOK, Handler
  <2>3. \A q \in Requests \ {r} : req'[q] = req[q]
    BY <2>1 DEF TypeOK
  <2> QED
    BY <2>1, <2>2, <2>3 DEF HandlersServeCalls
<1>5. ASSUME NEW r \in Requests, ReloadFound(r)
      PROVE  HandlersServeCalls'
  <2>1. /\ req[r] \in Handler /\ req[r].todo # <<>> /\ req[r].phase = "reload"
        /\ req' = [req EXCEPT ![r] = [req[r] EXCEPT !.phase = "flush"]]
    BY <1>5 DEF ReloadFound, At, TypeOK
  <2>2. req'[r].call = req[r].call /\ req'[r].todo = req[r].todo
    BY <2>1 DEF TypeOK, Handler
  <2>3. \A q \in Requests \ {r} : req'[q] = req[q]
    BY <2>1 DEF TypeOK
  <2> QED
    BY <2>1, <2>2, <2>3 DEF HandlersServeCalls
<1>6. ASSUME NEW r \in Requests, ReloadMissing(r) \/ FlushNothing(r) \/ Flush(r)
      PROVE  HandlersServeCalls'
  BY <1>6, SucceedServes DEF ReloadMissing, FlushNothing, Flush, At
<1>7. ASSUME NEW r \in Requests, FlushBadKey(r) \/ DeadlockVictim(r) \/ Crash(r)
      PROVE  HandlersServeCalls'
  BY <1>7, RollbackServes DEF FlushBadKey, DeadlockVictim, Crash, Answers
<1>8. ASSUME NEW r \in Requests, Commit(r)
      PROVE  HandlersServeCalls'
  BY <1>8 DEF Commit, Idle, TypeOK, HandlersServeCalls
<1> QED
  BY <1>1, <1>2, <1>3, <1>4, <1>5, <1>6, <1>7, <1>8 DEF Next, Proceed, TakeLock

----------------------------------------------------------------------------
(* What is flushed was asked for *)

\* The written columns of one session, spelled out for one row.
WritesOf(r) ==
    \A d \in Rows : \A c \in DOMAIN pend[r][d] :
        /\ req[r].phase # "idle" /\ d \in Atomic!Named(req[r].call)
        /\ d \notin unborn /\ d \in req[r].ok
        /\ c \in DOMAIN req[r].call.set /\ pend[r][d][c] = req[r].call.set[c]
        /\ c = "is_deleted" => pend[r][d][c] = "true"

\* An UPDATE flushes only what its call asked for.
LEMMA FlushNamed ==
    ASSUME TypeOK, HandlersServeCalls, WritesAreNamed, LoadedRowIsKnown,
           NEW r \in Requests, Flush(r)
    PROVE  WritesOf(r)'
<1> DEFINE e == Head1(r)
           h == req[r]
<1>1. /\ h \in Handler /\ h.phase = "flush" /\ h.todo # <<>> /\ e \in Rows
      /\ h.call \in Calls /\ h.call.set \in Patch
  BY Head1IsRow, CallsAssumption DEF Flush, At, TypeOK, HandlersServeCalls
<1>2. e \in Atomic!Named(h.call)
  <2>1. e = h.todo[1] /\ 1 \in DOMAIN h.todo
    BY <1>1 DEF Head1, Handler
  <2> QED
    BY <1>1, <2>1 DEF HandlersServeCalls
<1>3. e \notin unborn /\ h.seen["is_deleted"] = "false"
  BY <1>1 DEF LoadedRowIsKnown
<1>4. /\ req'[r].call = h.call /\ req'[r].phase = "load"
      /\ req'[r].ok = h.ok \cup {e} /\ UNCHANGED unborn
  BY SucceedStep DEF Flush
<1>5. /\ pend'[r][e] = FlushedTo(r, e)
      /\ \A d \in Rows \ {e} : pend'[r][d] = pend[r][d]
  BY <1>1 DEF Flush, TypeOK
<1>6. ASSUME NEW c \in DOMAIN FlushedTo(r, e)
      PROVE  /\ c \in DOMAIN h.call.set /\ FlushedTo(r, e)[c] = h.call.set[c]
             /\ c = "is_deleted" => FlushedTo(r, e)[c] = "true"
  <2>1. CASE c \in Changed(r)
    <3>1. c \in DOMAIN h.call.set /\ h.call.set[c] # h.seen[c]
      BY <2>1 DEF Changed
    <3>2. FlushedTo(r, e)[c] = h.call.set[c]
      BY <2>1 DEF FlushedTo
    <3>3. c = "is_deleted" => h.call.set[c] \in {"false", "true"}
      BY <1>1, <3>1, PatchFacts, ColumnsAssumption
    <3> QED
      BY <1>3, <3>1, <3>2, <3>3
  <2>2. CASE c \notin Changed(r)
    <3>1. c \in DOMAIN pend[r][e] /\ FlushedTo(r, e)[c] = pend[r][e][c]
      BY <2>2 DEF FlushedTo
    <3> QED
      BY <1>1, <3>1 DEF WritesAreNamed
  <2> QED
    BY <2>1, <2>2
<1> SUFFICES ASSUME NEW d \in Rows, NEW c \in DOMAIN pend'[r][d]
             PROVE  /\ d \in Atomic!Named(h.call) /\ d \notin unborn
                    /\ d \in h.ok \cup {e}
                    /\ c \in DOMAIN h.call.set /\ pend'[r][d][c] = h.call.set[c]
                    /\ c = "is_deleted" => pend'[r][d][c] = "true"
  BY <1>4 DEF WritesOf
<1>7. CASE d = e
  BY <1>2, <1>3, <1>5, <1>6, <1>7
<1>8. CASE d # e
  BY <1>5, <1>8 DEF WritesAreNamed
<1> QED
  BY <1>7, <1>8

\* Every step keeps WritesAreNamed.
LEMMA NextNamed ==
    ASSUME TypeOK, HandlersServeCalls, WritesAreNamed, LoadedRowIsKnown, Next
    PROVE  WritesAreNamed'
<1>1. PICK r \in Requests : Step(r)
  BY NextStep
<1>2. unborn' \subseteq unborn
  BY <1>1, SucceedStep
     DEF Step, Silent, Rollback, Commit, CommitSession, Flush, Create
<1>3. WritesOf(r)'
  <2>1. CASE Silent(r)
    BY <2>1 DEF Silent, WritesOf, WritesAreNamed
  <2>2. CASE (\E answer \in Answers \ {"200"} : Rollback(r, answer)) \/ Commit(r)
    <3>1. pend'[r] = NoWrites
      BY <2>2 DEF Rollback, Commit, CommitSession, Release, TypeOK
    <3> QED
      BY <3>1, EmptyWrites DEF WritesOf
  <2>3. CASE Flush(r)
    BY <2>3, FlushNamed
  <2>4. CASE \E d \in Rows, new \in NewRows : Create(r, d, new)
    <3>1. \A d \in Rows : DOMAIN pend[r][d] = {}
      BY <2>4 DEF Create, WritesAreNamed
    <3> QED
      BY <2>4, <3>1 DEF Create, WritesOf
  <2> QED
    BY <1>1, <2>1, <2>2, <2>3, <2>4 DEF Step
<1>4. ASSUME NEW q \in Requests \ {r}
      PROVE  WritesOf(q)'
  <2>1. req'[q] = req[q] /\ pend'[q] = pend[q]
    BY <1>1 DEF Step
  <2> QED
    BY <1>2, <2>1 DEF WritesOf, WritesAreNamed
<1> QED
  BY <1>3, <1>4 DEF WritesOf, WritesAreNamed

----------------------------------------------------------------------------
(* What a handler knows of the row it loaded *)

\* A session sees a row it has not written as it is committed.
LEMMA UnwrittenView ==
    ASSUME TypeOK, NEW r \in Requests, NEW d \in Rows, d \notin Written(r)
    PROVE  View(r, d) = row[d]
<1>1. row[d] \in [Columns -> UNION {Value[c] : c \in Columns}]
  BY DEF TypeOK, Row
<1>2. DOMAIN pend[r][d] = {}
  BY DEF Written
<1>3. View(r, d) = [c \in Columns |-> row[d][c]]
  BY <1>2 DEF View
<1> QED
  BY <1>1, <1>3

\* A governed call writes the status it was asked for, which the table never
\* lets it reach twice.
LEMMA GovernedOnce ==
    ASSUME TypeOK, HandlersServeCalls, WritesAreNamed, NEW r \in Requests,
           NEW d \in Rows, req[r].phase # "idle", req[r].call.governed,
           Allowed(r, d)
    PROVE  d \notin Written(r)
<1> SUFFICES ASSUME d \in Written(r)
             PROVE  FALSE
  OBVIOUS
<1>1. req[r].call \in Calls
  BY DEF HandlersServeCalls
<1>2. DOMAIN req[r].call.set = {"status"}
  BY <1>1, CallsAssumption
<1>3. PICK c \in DOMAIN pend[r][d] : TRUE
  BY DEF Written
<1>4. c = "status" /\ pend[r][d]["status"] = req[r].call.set["status"]
  BY <1>2, <1>3 DEF WritesAreNamed
<1>5. View(r, d)["status"] = req[r].call.set["status"]
  BY <1>3, <1>4, ColumnsAssumption DEF View
<1>6. req[r].call.set["status"] \in AllowedFrom(req[r].call.set["status"])
  BY <1>5 DEF Allowed
<1> QED
  BY <1>6, TableAssumption DEF AllowedFrom

\* LoadedRowIsKnown for one session.
KnownBy(r) ==
    req[r].phase \in {"reload", "flush"} =>
        /\ req[r].seen["is_deleted"] = "false" /\ Head1(r) \notin unborn
        /\ req[r].call.governed =>
               /\ req[r].call.set["status"] \in AllowedFrom(req[r].seen["status"])
               /\ Head1(r) \notin Written(r)
               /\ Head1(r) \notin overtaken[r] =>
                      row[Head1(r)]["status"] = req[r].seen["status"]

\* A row just loaded is known as it is.
LEMMA LoadFoundKnown ==
    ASSUME TypeOK, HandlersServeCalls, WritesAreNamed, NEW r \in Requests, LoadFound(r)
    PROVE  KnownBy(r)'
<1> DEFINE d == Head1(r)
           to == IF req[r].call.governed THEN "reload" ELSE "flush"
<1>1. /\ req[r] \in Handler /\ req[r].phase = "load" /\ d \in Rows
      /\ Visible(r, d) /\ Allowed(r, d)
      /\ req' = [req EXCEPT ![r] = [req[r] EXCEPT !.seen = View(r, d), !.phase = to]]
      /\ UNCHANGED <<row, unborn, lock, pend>>
  BY Head1IsRow DEF LoadFound, At, TypeOK
<1>2. /\ req'[r].call = req[r].call /\ req'[r].seen = View(r, d)
      /\ req'[r].todo = req[r].todo
  BY <1>1 DEF TypeOK, Handler
<1>3. Head1(r)' = d /\ Written(r)' = Written(r)
  BY <1>1, <1>2 DEF Head1, Written
<1>4. View(r, d)["is_deleted"] = "false" /\ d \notin unborn
  BY <1>1 DEF Visible
<1>5. ASSUME req[r].call.governed
      PROVE  /\ req[r].call.set["status"] \in AllowedFrom(View(r, d)["status"])
             /\ d \notin Written(r) /\ View(r, d) = row[d]
  BY <1>1, <1>5, GovernedOnce, UnwrittenView DEF Allowed
<1> HIDE DEF d, to
<1> QED
  BY <1>1, <1>2, <1>3, <1>4, <1>5 DEF KnownBy

\* The second SELECT changes nothing of what is known.
LEMMA ReloadFoundKnown ==
    ASSUME TypeOK, LoadedRowIsKnown, NEW r \in Requests, ReloadFound(r)
    PROVE  KnownBy(r)'
<1>1. /\ req[r] \in Handler /\ req[r].phase = "reload"
      /\ req' = [req EXCEPT ![r] = [req[r] EXCEPT !.phase = "flush"]]
      /\ UNCHANGED <<row, unborn, lock, pend, overtaken>>
  BY DEF ReloadFound, At, TypeOK
<1>2. /\ req'[r].call = req[r].call /\ req'[r].seen = req[r].seen
      /\ req'[r].todo = req[r].todo
  BY <1>1 DEF TypeOK, Handler
<1>3. Head1(r)' = Head1(r) /\ Written(r)' = Written(r)
  BY <1>1, <1>2 DEF Head1, Written
<1> QED
  BY <1>1, <1>2, <1>3 DEF KnownBy, LoadedRowIsKnown

\* No other session makes a loaded row unknown without being noticed.
LEMMA OthersKnown ==
    ASSUME TypeOK, HandlersServeCalls, LoadedRowIsKnown,
           NEW r \in Requests, Step(r), NEW q \in Requests \ {r}
    PROVE  KnownBy(q)'
<1> SUFFICES ASSUME req[q].phase \in {"reload", "flush"}
             PROVE  KnownBy(q)'
  BY DEF Step, KnownBy
<1> DEFINE e == Head1(q)
<1>1. /\ req'[q] = req[q] /\ pend'[q] = pend[q]
      /\ Head1(q)' = e /\ Written(q)' = Written(q)
  BY DEF Step, Head1, Written
<1>2. e \in Rows /\ e \notin unborn
  BY Head1IsRow DEF HandlersServeCalls, LoadedRowIsKnown
<1>3. unborn' \subseteq unborn
  BY SucceedStep
     DEF Step, Silent, Rollback, Commit, CommitSession, Flush, Create
<1>4. e \notin overtaken'[q] => e \notin overtaken[q] /\ row'[e] = row[e]
  <2>1. CASE Silent(r) \/ Flush(r) \/ \E answer \in Answers \ {"200"} : Rollback(r, answer)
    BY <2>1, SucceedStep DEF Silent, Flush, Rollback, TypeOK
  <2>2. CASE Commit(r)
    BY <1>2, <2>2, UnwrittenView DEF Commit, CommitSession
  <2>3. CASE \E d \in Rows, new \in NewRows : Create(r, d, new)
    BY <1>2, <2>3 DEF Create, TypeOK
  <2> QED
    BY <2>1, <2>2, <2>3 DEF Step
<1> HIDE DEF e
<1>5. KnownBy(q)
  BY DEF KnownBy, LoadedRowIsKnown
<1> QED
  BY <1>1, <1>2, <1>3, <1>4, <1>5 DEF KnownBy, e

\* Every step keeps LoadedRowIsKnown: a commit of another session marks the row as overtaken.
LEMMA NextKnown ==
    ASSUME TypeOK, HandlersServeCalls, WritesAreNamed, LoadedRowIsKnown, Next
    PROVE  LoadedRowIsKnown'
<1> PICK s \in Requests : Moves(s)
  BY DEF Next, Moves
<1>1. KnownBy(s)' => LoadedRowIsKnown'
  BY MovesStep, OthersKnown DEF KnownBy, LoadedRowIsKnown
<1>2. ASSUME NEW r \in Requests, NEW answer \in Answers, Rollback(r, answer)
      PROVE  KnownBy(r)'
  BY <1>2 DEF Rollback, Idle, TypeOK, KnownBy
<1>3. ASSUME NEW r \in Requests, Succeed(r)
      PROVE  KnownBy(r)'
  BY <1>3, SucceedStep DEF KnownBy
<1>4. ASSUME NEW r \in Requests, NEW answer \in Answers, Raise(r, answer)
      PROVE  KnownBy(r)'
  <2>1. CASE req[r].call.bulk
    <3>1. /\ req[r] \in Handler
          /\ req' = [req EXCEPT ![r] = [req[r] EXCEPT !.phase = "load",
                        !.todo = Tail(@), !.failed = @ \cup {Head1(r)}]]
      BY <1>4, <2>1 DEF Raise, TypeOK
    <3>2. req'[r].phase = "load"
      BY <3>1 DEF TypeOK, Handler
    <3> QED
      BY <3>2 DEF KnownBy
  <2>2. CASE ~req[r].call.bulk
    BY <1>2, <1>4, <2>2 DEF Raise
  <2> QED
    BY <2>1, <2>2
<1>5. ASSUME NEW r \in Requests, NEW call \in Calls, Start(r, call)
      PROVE  KnownBy(r)'
  BY <1>5 DEF Start, TypeOK, KnownBy
<1>6. ASSUME NEW r \in Requests, NEW d \in Rows, NEW new \in NewRows, Create(r, d, new)
      PROVE  KnownBy(r)'
  BY <1>6 DEF Create, Idle, TypeOK, KnownBy
<1>7. ASSUME NEW r \in Requests, Commit(r)
      PROVE  KnownBy(r)'
  BY <1>7 DEF Commit, Idle, TypeOK, KnownBy
<1> QED
  BY <1>1, <1>2, <1>3, <1>4, <1>5, <1>6, <1>7, LoadFoundKnown, ReloadFoundKnown
     DEF Moves, Proceed, TakeLock, LoadMissing, LoadDisallowed, ReloadMissing,
         FlushNothing, Flush, FlushBadKey, DeadlockVictim, Crash, Answers

----------------------------------------------------------------------------
(* What a step changes in the table *)

\* Only a commit changes rows that exist, and only rows it has written.
LEMMA RowChanges ==
    ASSUME TypeOK, NEW r \in Requests, Step(r), NEW d \in Rows, row'[d] # row[d]
    PROVE  \/ Commit(r) /\ row'[d] = View(r, d) /\ d \in Written(r)
           \/ d \in unborn
<1>1. CASE Silent(r) \/ Flush(r) \/ \E answer \in Answers \ {"200"} : Rollback(r, answer)
  BY <1>1, SucceedStep DEF Silent, Flush, Rollback
<1>2. CASE Commit(r)
  BY <1>2, UnwrittenView DEF Commit, CommitSession
<1>3. CASE \E e \in Rows, new \in NewRows : Create(r, e, new)
  BY <1>3 DEF Create, TypeOK
<1> QED
  BY <1>1, <1>2, <1>3 DEF Step

\* A flushed column is what the session sees of it.
LEMMA WrittenView ==
    ASSUME WritesAreNamed, NEW r \in Requests, NEW d \in Rows, NEW c \in Columns,
           c \in DOMAIN pend[r][d]
    PROVE  View(r, d)[c] = req[r].call.set[c]
BY DEF View, WritesAreNamed

\* A session that has written a row for a governed call has written its status.
LEMMA GovernedWrite ==
    ASSUME HandlersServeCalls, WritesAreNamed, NEW r \in Requests, NEW d \in Rows,
           req[r].call.governed, d \in Written(r)
    PROVE  View(r, d)["status"] = req[r].call.set["status"]
<1>1. PICK c \in DOMAIN pend[r][d] : TRUE
  BY DEF Written
<1>2. req[r].call \in Calls /\ c \in DOMAIN req[r].call.set
  BY <1>1 DEF HandlersServeCalls, WritesAreNamed
<1>3. c = "status"
  BY <1>2, CallsAssumption
<1> QED
  BY <1>1, <1>3, WrittenView, ColumnsAssumption

----------------------------------------------------------------------------
(* Transitions follow the table *)

\* Every step keeps FlushedStepsFollowTable.
LEMMA NextFollowsTable ==
    ASSUME TypeOK, LocksMatchWrites, HandlersServeCalls, WritesAreNamed,
           LoadedRowIsKnown, FlushedStepsFollowTable, Next
    PROVE  FlushedStepsFollowTable'
<1>1. PICK r \in Requests : Step(r)
  BY NextStep
<1> DEFINE Follows(q) ==
        req[q].call.governed => \A d \in Written(q) \ overtaken[q] :
            req[q].call.set["status"] \in AllowedFrom(row[d]["status"])
<1>2. Follows(r)'
  <2>1. CASE Silent(r)
    <3>1. CASE req[r].phase = "idle"
      <4>1. Written(r)' = {}
        BY <2>1, <3>1 DEF Silent, Written, WritesAreNamed
      <4> QED
        BY <4>1
    <3>2. CASE req[r].phase # "idle"
      <4>1. /\ req'[r].call = req[r].call /\ row' = row /\ Written(r)' = Written(r)
            /\ Written(r) \ overtaken'[r] \subseteq Written(r) \ overtaken[r]
        BY <2>1, <3>2 DEF Silent, LocksMatchWrites, Written
      <4> QED
        BY <4>1 DEF FlushedStepsFollowTable
    <3> QED
      BY <3>1, <3>2
  <2>2. CASE \/ \E answer \in Answers \ {"200"} : Rollback(r, answer)
             \/ Commit(r)
             \/ \E d \in Rows, new \in NewRows : Create(r, d, new)
    <3>1. req'[r].call = NoCall
      BY <2>2 DEF Rollback, Commit, Create, Idle, TypeOK
    <3> QED
      BY <3>1 DEF NoCall
  <2>3. CASE Flush(r)
    <3> DEFINE e == Head1(r)
    <3>1. /\ e \in Rows /\ req[r].phase = "flush"
          /\ req'[r].call = req[r].call /\ row' = row /\ overtaken' = overtaken
      BY <2>3, Head1IsRow, SucceedStep DEF Flush, At
    <3>2. Written(r)' \subseteq Written(r) \cup {e}
      BY <2>3, <3>1 DEF Flush, Written, TypeOK
    <3>3. req[r].call.governed /\ e \notin overtaken[r] =>
              req[r].call.set["status"] \in AllowedFrom(row[e]["status"])
      BY <3>1 DEF LoadedRowIsKnown
    <3> HIDE DEF e
    <3> QED
      BY <3>1, <3>2, <3>3 DEF FlushedStepsFollowTable
  <2> QED
    BY <1>1, <2>1, <2>2, <2>3 DEF Step
<1>3. ASSUME NEW q \in Requests \ {r}
      PROVE  Follows(q)'
  <2>1. req'[q] = req[q] /\ Written(q)' = Written(q)
    BY <1>1 DEF Step, Written
  <2>2. ASSUME NEW d \in Written(q) \ overtaken'[q]
        PROVE  d \notin overtaken[q] /\ row'[d] = row[d]
    <3>1. d \notin unborn
      BY DEF WritesAreNamed, Written
    <3>2. d \notin overtaken[q] /\ (Commit(r) => d \notin Written(r))
      BY <1>1, SucceedStep
         DEF Step, Silent, Flush, Rollback, Commit, CommitSession, Create, TypeOK
    <3> QED
      BY <1>1, <3>1, <3>2, RowChanges DEF Written
  <2> QED
    BY <2>1, <2>2 DEF FlushedStepsFollowTable
<1> QED
  BY <1>2, <1>3 DEF FlushedStepsFollowTable

----------------------------------------------------------------------------
(* The inductive invariant *)

\* SessionInv holds initially.
LEMMA InitSession == Init => SessionInv
<1> SUFFICES ASSUME Init
             PROVE  SessionInv
  OBVIOUS
<1>1. TypeOK
  BY InitType
<1>2. \A r \in Requests : req[r] = Idle("none") /\ pend[r] = NoWrites
  BY DEF Init
<1>3. LocksMatchWrites /\ WritesAreNamed /\ FlushedStepsFollowTable
  BY <1>2, EmptyWrites, NobodyAssumption
     DEF Init, LocksMatchWrites, WritesAreNamed, FlushedStepsFollowTable, Written
<1>4. HandlersServeCalls /\ LoadedRowIsKnown
  BY <1>2 DEF Idle, HandlersServeCalls, LoadedRowIsKnown
<1> QED
  BY <1>1, <1>3, <1>4 DEF SessionInv

\* SessionInv is inductive.
LEMMA NextSession == SessionInv /\ [Next]_vars => SessionInv'
<1> SUFFICES ASSUME SessionInv, [Next]_vars
             PROVE  SessionInv'
  OBVIOUS
<1>1. CASE Next
  <2>1. TypeOK'
    BY NextType DEF SessionInv, HandlersServeCalls, Serving
  <2> QED
    BY <1>1, <2>1, NextLocks, NextServes, NextNamed, NextKnown, NextFollowsTable
       DEF SessionInv
<1>2. CASE UNCHANGED vars
  BY <1>2 DEF vars, SessionInv, TypeOK, LocksMatchWrites, HandlersServeCalls,
              WritesAreNamed, LoadedRowIsKnown, FlushedStepsFollowTable, Written, Head1
<1> QED
  BY <1>1, <1>2

\* The session invariant: locks are held exactly for what is written, what is
\* written was asked for, and what a handler loaded is what is committed
\* unless somebody overtook it.
THEOREM SessionsAreSound == Spec => []SessionInv
BY InitSession, NextSession, PTL DEF Spec

\* No handler path leaks a row lock or writes a row without holding it.
THEOREM LocksAreWrites == Spec => []LocksMatchWrites
<1>1. SessionInv => LocksMatchWrites
  BY DEF SessionInv
<1> QED
  BY <1>1, SessionsAreSound, PTL

----------------------------------------------------------------------------
(* Action properties *)

\* A deleted row stays deleted, whatever stale handlers write back.
THEOREM DeletedStaysDeleted == Spec => DeletionIsFinal
<1>1. ASSUME SessionInv, [Next]_vars
      PROVE  [\A d \in Rows : d \notin unborn /\ row[d]["is_deleted"] = "true"
                                 => row'[d]["is_deleted"] = "true"]_vars
  <2> SUFFICES ASSUME Next, NEW d \in Rows, d \notin unborn,
                      row[d]["is_deleted"] = "true", row'[d] # row[d]
               PROVE  row'[d]["is_deleted"] = "true"
    BY <1>1
  <2>1. PICK r \in Requests : row'[d] = View(r, d)
    BY <1>1, NextStep, RowChanges DEF SessionInv
  <2>2. "is_deleted" \in DOMAIN pend[r][d] => pend[r][d]["is_deleted"] = "true"
    BY <1>1 DEF SessionInv, WritesAreNamed
  <2> QED
    BY <2>1, <2>2, ColumnsAssumption DEF View
<1> QED
  BY <1>1, SessionsAreSound, PTL DEF Spec, DeletionIsFinal

\* A finishing request that commits is the one that steps.
LEMMA FinishingStep ==
    ASSUME TypeOK, Next, NEW r \in Requests, Finishes(r)
    PROVE  /\ Step(r)
           /\ \/ Commit(r)
              \/ row' = row /\ req'[r].answer # "200"
<1>1. PICK q \in Requests : Step(q)
  BY NextStep
<1>2. q = r
  BY <1>1 DEF Step, Finishes
<1>3. ~Silent(r) /\ ~Flush(r) /\ ~(\E d \in Rows, new \in NewRows : Create(r, d, new))
  BY SucceedStep DEF Finishes, Silent, Flush, Create
<1>4. ASSUME NEW answer \in Answers \ {"200"}, Rollback(r, answer)
      PROVE  row' = row /\ req'[r].answer # "200"
  BY <1>4 DEF Rollback, Idle, TypeOK
<1> QED
  BY <1>1, <1>2, <1>3, <1>4 DEF Step

\* Every transition that no other commit overtook follows the table.
THEOREM UndisturbedTransitions == Spec => UndisturbedStepsFollowTable
<1>1. ASSUME SessionInv, [Next]_vars
      PROVE  [\A r \in Requests : Commits(r) /\ req[r].call.governed =>
                 \A d \in Written(r) \ overtaken[r] :
                     row'[d]["status"] \in AllowedFrom(row[d]["status"])]_vars
  <2> SUFFICES ASSUME Next, NEW r \in Requests, Commits(r), req[r].call.governed,
                      NEW d \in Written(r) \ overtaken[r]
               PROVE  row'[d]["status"] \in AllowedFrom(row[d]["status"])
    BY <1>1
  <2>1. Commit(r) /\ d \in Rows
    BY <1>1, FinishingStep DEF Commits, Written, SessionInv
  <2>2. row'[d] = View(r, d)
    BY <2>1 DEF Commit, CommitSession
  <2>3. View(r, d)["status"] = req[r].call.set["status"]
    BY <1>1, <2>1, GovernedWrite DEF SessionInv
  <2> QED
    BY <1>1, <2>2, <2>3 DEF SessionInv, FlushedStepsFollowTable
<1> QED
  BY <1>1, SessionsAreSound, PTL DEF Spec, UndisturbedStepsFollowTable

\* A request changes only rows it reports as succeeded, and nothing if it fails.
THEOREM ChangesAreReported == Spec => NoUnreportedChange
<1>1. ASSUME SessionInv, [Next]_vars
      PROVE  [\A r \in Requests : Finishes(r) =>
                 \A d \in Rows : row'[d] # row[d] =>
                     req'[r].answer = "200" /\ d \in req[r].ok]_vars
  <2> SUFFICES ASSUME Next, NEW r \in Requests, Finishes(r),
                      NEW d \in Rows, row'[d] # row[d]
               PROVE  req'[r].answer = "200" /\ d \in req[r].ok
    BY <1>1
  <2>1. Commit(r)
    BY <1>1, FinishingStep DEF SessionInv
  <2>2. req'[r].answer = "200"
    BY <1>1, <2>1 DEF Commit, Idle, SessionInv, TypeOK
  <2>3. d \in Written(r)
    BY <1>1, <2>1, UnwrittenView DEF Commit, CommitSession, SessionInv
  <2> QED
    BY <1>1, <2>2, <2>3 DEF SessionInv, WritesAreNamed, Written
<1> QED
  BY <1>1, SessionsAreSound, PTL DEF Spec, NoUnreportedChange

----------------------------------------------------------------------------
(* Refinement *)

\* A commit is one application of the call to the rows it has written.
LEMMA CommitApplies ==
    ASSUME SessionInv, NEW r \in Requests, Commit(r)
    PROVE  \E call \in Calls : Atomic!Apply(call)
<1> DEFINE call == req[r].call
           cs == [d \in Atomic!Named(call) |-> DOMAIN pend[r][d]]
<1>1. /\ call \in Calls /\ call.ids \in Seq(Rows)
      /\ \A d \in Rows : row[d] \in Row
  BY CallsAssumption DEF Commit, SessionInv, HandlersServeCalls, TypeOK
<1>2. Atomic!Named(call) \subseteq Rows
  BY <1>1 DEF Atomic!Named
<1>3. cs \in [Atomic!Named(call) -> SUBSET DOMAIN call.set]
  BY <1>2 DEF SessionInv, WritesAreNamed
<1>4. row' = [d \in Rows |-> View(r, d)] /\ UNCHANGED unborn
  BY DEF Commit, CommitSession
<1>5. ASSUME NEW d \in Rows
      PROVE  View(r, d) = IF d \in Atomic!Named(call)
                          THEN Atomic!Overlay(row[d], call.set, cs[d]) ELSE row[d]
  <2>1. CASE d \in Atomic!Named(call)
    BY <2>1 DEF SessionInv, WritesAreNamed, View, Atomic!Overlay
  <2>2. CASE d \notin Atomic!Named(call)
    <3>1. d \notin Written(r)
      BY <2>2 DEF SessionInv, WritesAreNamed, Written
    <3> QED
      BY <2>2, <3>1, UnwrittenView DEF SessionInv
  <2> QED
    BY <2>1, <2>2
<1>6. ASSUME NEW d \in Rows
      PROVE  /\ d \in unborn => row'[d] = row[d]
             /\ row[d]["is_deleted"] = "true" => row'[d]["is_deleted"] = "true"
  <2>1. d \in unborn => d \notin Written(r)
    BY DEF SessionInv, WritesAreNamed, Written
  <2>2. "is_deleted" \in DOMAIN pend[r][d] => pend[r][d]["is_deleted"] = "true"
    BY DEF SessionInv, WritesAreNamed
  <2> QED
    BY <1>4, <2>1, <2>2, UnwrittenView, ColumnsAssumption DEF SessionInv, View
<1>7. row' = [d \in Rows |-> IF d \in Atomic!Named(call)
                             THEN Atomic!Overlay(row[d], call.set, cs[d]) ELSE row[d]]
  BY <1>4, <1>5
<1> HIDE DEF call, cs
<1> QED
  BY <1>1, <1>3, <1>4, <1>6, <1>7 DEF Atomic!Apply

\* Requests are atomic: sessions implement the specification without them.
THEOREM SessionsAreAtomic == Spec => RequestsAreAtomic
<1>1. Init => Atomic!Init
  BY NewRowsAssumption DEF Init, Atomic!Init, AnyRow
<1>2. ASSUME SessionInv, [Next]_vars
      PROVE  [Atomic!Next]_<<row, unborn>>
  <2>1. CASE UNCHANGED vars
    BY <2>1 DEF vars
  <2>2. CASE Next
    <3>1. PICK r \in Requests : Step(r)
      BY <1>2, <2>2, NextStep DEF SessionInv
    <3>2. CASE Silent(r) \/ Flush(r) \/ \E answer \in Answers \ {"200"} : Rollback(r, answer)
      BY <1>2, <3>2, SucceedStep DEF Silent, Flush, Rollback, SessionInv
    <3>3. CASE Commit(r)
      BY <1>2, <3>3, CommitApplies DEF Atomic!Next
    <3>4. CASE \E d \in Rows, new \in NewRows : Create(r, d, new)
      BY <3>4 DEF Create, Atomic!Next, Atomic!Insert
    <3> QED
      BY <3>1, <3>2, <3>3, <3>4 DEF Step
  <2> QED
    BY <1>2, <2>1, <2>2
<1> QED
  BY <1>1, <1>2, SessionsAreSound, PTL DEF Spec, RequestsAreAtomic, Atomic!Spec
=============================================================================
