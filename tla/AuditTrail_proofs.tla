-------------------------- MODULE AuditTrail_proofs --------------------------
(***************************************************************************)
(* Proofs about module AuditTrail, for any number of entities, requests    *)
(* and mishaps: what a row of the audit trail says of the change it is     *)
(* about, whatever other requests commit while it is being put together.   *)
(*                                                                         *)
(* TrailInv is inductive.  A row is the AuditRow of its request, whose     *)
(* fields no longer change once its task is over; the old snapshot lags    *)
(* behind the row of the entity by exactly the commits of others that set  *)
(* "crowded", until the request commits itself and the row as it was       *)
(* becomes "from"; in the same way the row runs ahead of "to" until the    *)
(* second snapshot is taken.                                               *)
(***************************************************************************)
EXTENDS AuditTrail, TLAPS

----------------------------------------------------------------------------
(* Requests *)

\* What the trail says of request c, and what it has to keep when its row is
\* there.
Keeps(h, g) ==
    /\ g.kind = h.kind /\ g.path = h.path /\ g.changes = h.changes
    /\ g.old = h.old /\ g.new = h.new /\ g.known = h.known /\ g.task = h.task

LEMMA RequestIsMade == \A h \in Request : h # NoCall
BY DEF Request, NoCall

LEMMA MadeIsRequest ==
    ASSUME TypeOK, NEW c \in Calls, Made(c)
    PROVE  call[c] \in Request
BY DEF TypeOK, Made

LEMMA EntityIsNamed ==
    ASSUME NEW c, Named(c) # {}
    PROVE  Entity(c) \in Named(c)
BY DEF Entity

LEMMA NamedExist ==
    ASSUME TypeOK, NEW c \in Calls, Made(c)
    PROVE  Named(c) \subseteq Entities
BY MadeIsRequest DEF Named, Request

\* A request whose record is as it was, or differs in fields that do not count,
\* names the same entity.
LEMMA SameNames ==
    ASSUME NEW c \in Calls, call'[c].kind = call[c].kind, call'[c].path = call[c].path,
           call'[c].changes = call[c].changes
    PROVE  Named(c)' = Named(c) /\ Entity(c)' = Entity(c)
<1>1. Named(c)' = Named(c)
  BY DEF Named
<1> QED
  BY <1>1 DEF Entity

\* Request c goes on; the others, and the rows that are there, stay right.
LEMMA OneGoesOn ==
    ASSUME TrailInv, NEW c \in Calls, NEW g \in Request,
           call' = [call EXCEPT ![c] = g], UNCHANGED <<late, row>>,
           \/ ~Made(c) \/ call[c].task # "over"
           \/ Keeps(call[c], g) /\ (call[c].committed => g.committed),
           TaskFollowsHandler(c)', ~g.spoilt => SnapshotsEnclose(c)'
    PROVE  /\ call' \in [Calls -> {NoCall} \cup Request]
           /\ \A t \in trail : RowIsOfItsRequest(t)'
           /\ \A d \in Calls : Made(d)' => TaskFollowsHandler(d)'
           /\ \A d \in Calls : Made(d)' /\ ~call'[d].spoilt => SnapshotsEnclose(d)'
<1>1. call \in [Calls -> {NoCall} \cup Request] /\ \A t \in trail : t.call \in Calls
  BY DEF TrailInv, TypeOK
<1>2. call'[c] = g /\ \A d \in Calls \ {c} : call'[d] = call[d]
  BY <1>1
<1>3. call' \in [Calls -> {NoCall} \cup Request]
  BY <1>1
<1>4. \A d \in Calls \ {c} :
         /\ Made(d)' <=> Made(d)
         /\ Named(d)' = Named(d) /\ Entity(d)' = Entity(d)
         /\ AuditRow(d)' = AuditRow(d)
  <2> SUFFICES ASSUME NEW d \in Calls \ {c}
               PROVE  /\ Made(d)' <=> Made(d)
                      /\ Named(d)' = Named(d) /\ Entity(d)' = Entity(d)
                      /\ AuditRow(d)' = AuditRow(d)
    OBVIOUS
  <2>1. call'[d] = call[d]
    BY <1>2
  <2>2. Named(d)' = Named(d) /\ Entity(d)' = Entity(d)
    BY <2>1, SameNames
  <2> QED
    BY <2>1, <2>2 DEF Made, AuditRow
<1>5. ASSUME NEW t \in trail
      PROVE  RowIsOfItsRequest(t)'
  <2>1. /\ Made(t.call) /\ t = AuditRow(t.call) /\ t.call \in Calls
        /\ call[t.call].known /\ call[t.call].task = "over"
        /\ late \/ call[t.call].committed
    BY <1>1 DEF TrailInv, RowIsOfItsRequest
  <2>2. CASE t.call # c
    BY <1>2, <1>4, <2>1, <2>2 DEF RowIsOfItsRequest
  <2>3. CASE t.call = c
    <3>1. Keeps(call[c], g) /\ (call[c].committed => g.committed)
      BY <2>1, <2>3
    <3>2. Named(c)' = Named(c)
      BY <1>2, <3>1, SameNames DEF Keeps
    <3>3. AuditRow(c)' = AuditRow(c)
      BY <1>2, <3>1, <3>2 DEF AuditRow, Keeps
    <3>4. Made(c)'
      BY <1>2, RequestIsMade DEF Made
    <3> QED
      BY <1>2, <2>1, <2>3, <3>1, <3>3, <3>4 DEF Keeps, RowIsOfItsRequest
  <2> QED
    BY <2>2, <2>3
<1>6. ASSUME NEW d \in Calls, Made(d)'
      PROVE  TaskFollowsHandler(d)'
  <2>1. CASE d = c
    BY <2>1
  <2>2. CASE d # c
    <3>1. Made(d) /\ call'[d] = call[d]
      BY <1>2, <1>4, <1>6, <2>2
    <3> QED
      BY <3>1 DEF TrailInv, TaskFollowsHandler
  <2> QED
    BY <2>1, <2>2
<1>7. ASSUME NEW d \in Calls, Made(d)', ~call'[d].spoilt
      PROVE  SnapshotsEnclose(d)'
  <2>1. CASE d = c
    BY <1>2, <1>7, <2>1
  <2>2. CASE d # c
    <3>1. /\ Made(d) /\ call'[d] = call[d]
          /\ Named(d)' = Named(d) /\ Entity(d)' = Entity(d)
      BY <1>2, <1>4, <1>7, <2>2
    <3>2. SnapshotsEnclose(d)
      BY <1>7, <3>1 DEF TrailInv
    <3> QED
      BY <3>1, <3>2 DEF SnapshotsEnclose, Follows
  <2> QED
    BY <2>1, <2>2
<1> QED
  BY <1>3, <1>5, <1>6, <1>7

LEMMA GoesOn ==
    ASSUME TrailInv, NEW c \in Calls, NEW g \in Request,
           call' = [call EXCEPT ![c] = g], UNCHANGED <<late, row, deleted, trail>>,
           Mishap \/ Calm,
           \/ ~Made(c) \/ call[c].task # "over"
           \/ Keeps(call[c], g) /\ (call[c].committed => g.committed),
           TaskFollowsHandler(c)', ~g.spoilt => SnapshotsEnclose(c)'
    PROVE  TrailInv'
<1>1. mishaps' \in 0..MaxMishaps
  BY BoundAssumption DEF Mishap, Calm, TrailInv, TypeOK
<1>2. TypeOK'
  BY <1>1, OneGoesOn DEF TrailInv, TypeOK
<1> QED
  BY <1>2, OneGoesOn DEF TrailInv
----------------------------------------------------------------------------
(* The steps of a request *)

LEMMA ArriveStep ==
    ASSUME TrailInv, NEW c \in Calls, NEW kind \in Kinds,
           NEW path \in Entities \cup {Nothing}, NEW changes \in SUBSET Entities,
           NEW known \in BOOLEAN, Arrive(c, kind, path, changes, known)
    PROVE  TrailInv'
<1> DEFINE g == [kind |-> kind, path |-> path, changes |-> changes, known |-> known,
                 handler |-> "before", task |-> "none", old |-> Nothing, new |-> Nothing,
                 from |-> 0, to |-> 0, committed |-> FALSE, crowded |-> FALSE,
                 spoilt |-> FALSE]
<1>1. ~Made(c) /\ (InPath(kind) <=> path # Nothing)
  BY DEF Arrive
<1>2. call' = [call EXCEPT ![c] = g] /\ UNCHANGED <<late, row, deleted, trail>> /\ Calm
  BY DEF Arrive
<1>3. g \in Request
  BY DEF Request
<1>4. call'[c] = g
  BY <1>2 DEF TrailInv, TypeOK
<1> DEFINE n == call'[c]
<1>5. /\ n.kind = kind /\ n.path = path /\ n.handler = "before" /\ n.task = "none"
      /\ n.committed = FALSE
  BY <1>4
<1> HIDE DEF g
<1>6. TaskFollowsHandler(c)' /\ SnapshotsEnclose(c)'
  BY <1>1, <1>5 DEF TaskFollowsHandler, SnapshotsEnclose
<1> QED
  BY <1>1, <1>2, <1>3, <1>6, GoesOn

LEMMA SnapshotBeforeStep ==
    ASSUME TrailInv, NEW c \in Calls, SnapshotBefore(c)
    PROVE  TrailInv'
<1> DEFINE h == call[c]
           g == [h EXCEPT !.handler = "running",
                          !.old = IF InPath(h.kind) THEN row[h.path] ELSE Nothing]
<1>1. /\ h \in Request /\ h.handler = "before" /\ TaskFollowsHandler(c)
      /\ row \in [Entities -> Nat]
  BY MadeIsRequest DEF SnapshotBefore, TrailInv, TypeOK
<1>2. call' = [call EXCEPT ![c] = g] /\ UNCHANGED <<late, row, deleted, trail>> /\ Calm
  BY DEF SnapshotBefore
<1>3. h.task = "none" /\ ~h.committed /\ (InPath(h.kind) <=> h.path # Nothing)
  BY <1>1 DEF TaskFollowsHandler
<1>4. InPath(h.kind) => h.path \in Entities /\ row[h.path] \in Nat
  BY <1>1, <1>3 DEF Request
<1>5. /\ g \in Request /\ g.kind = h.kind /\ g.path = h.path /\ g.handler = "running"
      /\ g.task = "none" /\ ~g.committed
      /\ InPath(h.kind) => g.old = row[h.path]
  BY <1>1, <1>3, <1>4 DEF Request
<1>6. call'[c] = g
  BY <1>2 DEF TrailInv, TypeOK
<1> HIDE DEF g
<1>7. TaskFollowsHandler(c)'
  BY <1>3, <1>5, <1>6 DEF TaskFollowsHandler
<1>8. SnapshotsEnclose(c)'
  BY <1>2, <1>4, <1>5, <1>6 DEF SnapshotsEnclose, Follows
<1> QED
  BY <1>2, <1>3, <1>5, <1>7, <1>8, GoesOn

\* A snapshot that was lost leaves nothing to say about.
LEMMA MissBeforeStep ==
    ASSUME TrailInv, NEW c \in Calls, MissBefore(c)
    PROVE  TrailInv'
<1> DEFINE h == call[c]
           g == [h EXCEPT !.handler = "running", !.spoilt = TRUE]
<1>1. h \in Request /\ h.handler = "before" /\ TaskFollowsHandler(c)
  BY MadeIsRequest DEF MissBefore, TrailInv
<1>2. call' = [call EXCEPT ![c] = g] /\ UNCHANGED <<late, row, deleted, trail>> /\ Mishap
  BY DEF MissBefore
<1>3. h.task = "none" /\ ~h.committed /\ (InPath(h.kind) <=> h.path # Nothing)
  BY <1>1 DEF TaskFollowsHandler
<1>4. /\ g \in Request /\ g.kind = h.kind /\ g.path = h.path /\ g.handler = "running"
      /\ g.task = "none" /\ ~g.committed /\ g.spoilt
  BY <1>1, <1>3 DEF Request
<1>5. call'[c] = g
  BY <1>2 DEF TrailInv, TypeOK
<1> HIDE DEF g
<1>6. TaskFollowsHandler(c)'
  BY <1>3, <1>4, <1>5 DEF TaskFollowsHandler
<1> QED
  BY <1>2, <1>3, <1>4, <1>6, GoesOn

LEMMA FlushStep ==
    ASSUME TrailInv, NEW c \in Calls, Flush(c)
    PROVE  TrailInv'
<1> DEFINE h == call[c]
           there == IF h.kind = "create" THEN h.changes ELSE h.changes \cap Alive
           g == [h EXCEPT !.handler = "flushed", !.changes = there]
<1>1. /\ h \in Request /\ Made(c) /\ h.handler = "running" /\ TaskFollowsHandler(c)
      /\ InPath(h.kind) => h.path \in Alive
  BY MadeIsRequest DEF Flush, TrailInv
<1>2. call' = [call EXCEPT ![c] = g] /\ UNCHANGED <<late, row, deleted, trail>> /\ Calm
  BY DEF Flush
<1>3. h.task = "none" /\ ~h.committed /\ (InPath(h.kind) <=> h.path # Nothing)
  BY <1>1 DEF TaskFollowsHandler
<1>4. there \subseteq Entities
  BY <1>1 DEF Request
<1> HIDE DEF there
<1>5. /\ g \in Request /\ g.kind = h.kind /\ g.path = h.path /\ g.handler = "flushed"
      /\ g.task = "none" /\ ~g.committed /\ g.old = h.old
      /\ g.crowded = h.crowded /\ g.spoilt = h.spoilt
  BY <1>1, <1>3, <1>4 DEF Request
<1>6. call'[c] = g
  BY <1>2 DEF TrailInv, TypeOK
<1>7. InPath(h.kind) => row[h.path] > 0
  BY <1>1 DEF Alive
<1> HIDE DEF g
<1>8. TaskFollowsHandler(c)'
  BY <1>3, <1>5, <1>6 DEF TaskFollowsHandler
<1>9. ASSUME ~g.spoilt PROVE SnapshotsEnclose(c)'
  <2>1. SnapshotsEnclose(c)
    BY <1>1, <1>5, <1>9 DEF TrailInv
  <2> QED
    BY <1>1, <1>2, <1>5, <1>6, <1>7, <2>1 DEF SnapshotsEnclose, Follows
<1> QED
  BY <1>2, <1>3, <1>5, <1>8, <1>9, GoesOn

\* A handler that is over without having committed.
LEMMA RefuseStep ==
    ASSUME TrailInv, NEW c \in Calls, Refuse(c) \/ CommitFails(c)
    PROVE  TrailInv'
<1> DEFINE h == call[c]
           g == [h EXCEPT !.handler = "over"]
<1>1. /\ h \in Request /\ Made(c) /\ h.handler \in {"running", "flushed"}
      /\ TaskFollowsHandler(c)
  BY MadeIsRequest DEF Refuse, CommitFails, TrailInv
<1>2. /\ call' = [call EXCEPT ![c] = g] /\ UNCHANGED <<late, row, deleted, trail>>
      /\ Mishap \/ Calm
  BY DEF Refuse, CommitFails
<1>3. /\ ~h.committed /\ (InPath(h.kind) <=> h.path # Nothing)
      /\ h.task \in {"after", "insert"} => late
      /\ h.task = "insert" => h.known
  BY <1>1 DEF TaskFollowsHandler
<1>4. /\ g \in Request /\ Keeps(h, g) /\ g.handler = "over" /\ ~g.committed
      /\ g.crowded = h.crowded /\ g.spoilt = h.spoilt
  BY <1>1, <1>3 DEF Request, Keeps
<1>5. call'[c] = g
  BY <1>2 DEF TrailInv, TypeOK
<1> HIDE DEF g
<1>6. TaskFollowsHandler(c)'
  BY <1>2, <1>3, <1>4, <1>5 DEF TaskFollowsHandler, Keeps
<1>7. ASSUME ~g.spoilt PROVE SnapshotsEnclose(c)'
  <2>1. SnapshotsEnclose(c)
    BY <1>1, <1>4, <1>7 DEF TrailInv
  <2> QED
    BY <1>1, <1>2, <1>4, <1>5, <2>1 DEF SnapshotsEnclose, Keeps
<1> QED
  BY <1>2, <1>3, <1>4, <1>6, <1>7, GoesOn

LEMMA AnswerStep ==
    ASSUME TrailInv, NEW c \in Calls, Answer(c)
    PROVE  TrailInv'
<1> DEFINE h == call[c]
           g == [h EXCEPT !.task = "after", !.handler = IF late THEN @ ELSE "over"]
<1>1. /\ h \in Request /\ Made(c) /\ h.task = "none" /\ TaskFollowsHandler(c)
      /\ h.handler = IF late THEN "flushed" ELSE "committed"
  BY MadeIsRequest DEF Answer, TrailInv
<1>2. call' = [call EXCEPT ![c] = g] /\ UNCHANGED <<late, row, deleted, trail>> /\ Calm
  BY DEF Answer
<1>3. /\ InPath(h.kind) <=> h.path # Nothing
      /\ late => ~h.committed
      /\ ~late => h.committed
  BY <1>1 DEF TaskFollowsHandler
<1>4. /\ g \in Request /\ g.kind = h.kind /\ g.path = h.path /\ g.changes = h.changes
      /\ g.handler = (IF late THEN "flushed" ELSE "over") /\ g.task = "after"
      /\ g.committed = h.committed /\ g.old = h.old /\ g.from = h.from /\ g.to = h.to
      /\ g.crowded = h.crowded /\ g.spoilt = h.spoilt
  BY <1>1 DEF Request
<1>5. call'[c] = g
  BY <1>2 DEF TrailInv, TypeOK
<1> HIDE DEF g
<1>6. TaskFollowsHandler(c)'
  BY <1>2, <1>3, <1>4, <1>5 DEF TaskFollowsHandler
<1>7. ASSUME ~g.spoilt PROVE SnapshotsEnclose(c)'
  <2>1. SnapshotsEnclose(c)
    BY <1>1, <1>4, <1>7 DEF TrailInv
  <2>2. Named(c)' = Named(c) /\ Entity(c)' = Entity(c)
    BY <1>4, <1>5, SameNames
  <2> QED
    BY <1>1, <1>2, <1>4, <1>5, <2>1, <2>2 DEF SnapshotsEnclose, Follows
<1> QED
  BY <1>1, <1>2, <1>4, <1>6, <1>7, GoesOn

----------------------------------------------------------------------------
(* The steps of its task *)

LEMMA SkipStep ==
    ASSUME TrailInv, NEW c \in Calls, Skip(c)
    PROVE  TrailInv'
<1> DEFINE h == call[c]
           g == [h EXCEPT !.task = "over"]
<1>1. /\ h \in Request /\ Made(c) /\ h.task = "after" /\ ~h.known /\ TaskFollowsHandler(c)
  BY MadeIsRequest DEF Skip, TrailInv
<1>2. call' = [call EXCEPT ![c] = g] /\ UNCHANGED <<late, row, deleted, trail>> /\ Calm
  BY DEF Skip
<1>3. /\ g \in Request /\ g.kind = h.kind /\ g.path = h.path /\ g.changes = h.changes
      /\ g.handler = h.handler /\ g.task = "over" /\ ~g.known
      /\ g.committed = h.committed /\ g.old = h.old /\ g.from = h.from /\ g.to = h.to
      /\ g.crowded = h.crowded /\ g.spoilt = h.spoilt
  BY <1>1 DEF Request
<1>4. call'[c] = g
  BY <1>2 DEF TrailInv, TypeOK
<1> HIDE DEF g
<1>5. TaskFollowsHandler(c)'
  BY <1>1, <1>2, <1>3, <1>4 DEF TaskFollowsHandler
<1>6. ASSUME ~g.spoilt PROVE SnapshotsEnclose(c)'
  <2>1. SnapshotsEnclose(c)
    BY <1>1, <1>3, <1>6 DEF TrailInv
  <2>2. Named(c)' = Named(c) /\ Entity(c)' = Entity(c)
    BY <1>3, <1>4, SameNames
  <2> QED
    BY <1>1, <1>2, <1>3, <1>4, <2>1, <2>2 DEF SnapshotsEnclose, Follows
<1> QED
  BY <1>1, <1>2, <1>3, <1>5, <1>6, GoesOn

LEMMA SnapshotAfterStep ==
    ASSUME TrailInv, NEW c \in Calls, SnapshotAfter(c)
    PROVE  TrailInv'
<1> DEFINE h == call[c]
           g == [h EXCEPT !.task = "insert", !.new = SeenAfter(c)]
<1>1. /\ h \in Request /\ Made(c) /\ h.task = "after" /\ h.known /\ TaskFollowsHandler(c)
      /\ row \in [Entities -> Nat] /\ Named(c) \subseteq Entities
  BY MadeIsRequest, NamedExist DEF SnapshotAfter, TrailInv, TypeOK
<1>2. call' = [call EXCEPT ![c] = g] /\ UNCHANGED <<late, row, deleted, trail>> /\ Calm
  BY DEF SnapshotAfter
<1>3. Named(c) # {} => Entity(c) \in Named(c)
  BY EntityIsNamed
<1>4. SeenAfter(c) \in Nat \cup {Nothing, Body, Removed}
  BY <1>1, <1>3 DEF SeenAfter
<1>5. /\ g \in Request /\ g.kind = h.kind /\ g.path = h.path /\ g.changes = h.changes
      /\ g.handler = h.handler /\ g.task = "insert" /\ g.known
      /\ g.committed = h.committed /\ g.old = h.old /\ g.from = h.from /\ g.to = h.to
      /\ g.crowded = h.crowded /\ g.spoilt = h.spoilt /\ g.new = SeenAfter(c)
  BY <1>1, <1>4 DEF Request
<1>6. call'[c] = g
  BY <1>2 DEF TrailInv, TypeOK
<1> HIDE DEF g
<1>7. TaskFollowsHandler(c)'
  BY <1>1, <1>2, <1>5, <1>6 DEF TaskFollowsHandler
<1>8. ASSUME ~g.spoilt PROVE SnapshotsEnclose(c)'
  <2>1. SnapshotsEnclose(c)
    BY <1>1, <1>5, <1>8 DEF TrailInv
  <2>2. Named(c)' = Named(c) /\ Entity(c)' = Entity(c)
    BY <1>5, <1>6, SameNames
  <2>3. ASSUME h.committed, ~late, Named(c) # {}, Action(h.kind) # "DELETE"
        PROVE  /\ SeenAfter(c) = row[Entity(c)] /\ SeenAfter(c) \in Nat
               /\ Follows(SeenAfter(c), h.to, ~h.crowded)
    <3>1. h.to > 0 /\ Follows(row[Entity(c)], h.to, ~h.crowded)
      BY <1>1, <2>1, <2>3 DEF SnapshotsEnclose
    <3>2. row[Entity(c)] \in Nat /\ h.to \in Nat
      BY <1>1, <1>3, <2>3 DEF Request
    <3>3. row[Entity(c)] > 0
      BY <3>1, <3>2 DEF Follows
    <3>4. SeenAfter(c) = row[Entity(c)]
      BY <1>3, <2>3, <3>3 DEF SeenAfter
    <3> QED
      BY <3>1, <3>2, <3>4
  <2>4. h.committed /\ ~late /\ Named(c) # {} => h.to > 0
    BY <2>1 DEF SnapshotsEnclose
  <2>5. InPath(h.kind) =>
          /\ h.handler # "before" => h.old \in Nat
          /\ h.handler \in {"running", "flushed"} => Follows(row[h.path], h.old, ~h.crowded)
          /\ h.handler = "flushed" => row[h.path] > 0
          /\ h.committed => Follows(h.from, h.old, ~h.crowded)
    BY <2>1 DEF SnapshotsEnclose
  <2> QED
    BY <1>2, <1>5, <1>6, <2>2, <2>3, <2>4, <2>5 DEF SnapshotsEnclose, Follows
<1> QED
  BY <1>1, <1>2, <1>5, <1>7, <1>8, GoesOn

LEMMA MissAfterStep ==
    ASSUME TrailInv, NEW c \in Calls, MissAfter(c)
    PROVE  TrailInv'
<1> DEFINE h == call[c]
           g == [h EXCEPT !.task = "insert", !.new = Body, !.spoilt = TRUE]
<1>1. /\ h \in Request /\ Made(c) /\ h.task = "after" /\ h.known /\ TaskFollowsHandler(c)
  BY MadeIsRequest DEF MissAfter, TrailInv
<1>2. call' = [call EXCEPT ![c] = g] /\ UNCHANGED <<late, row, deleted, trail>> /\ Mishap
  BY DEF MissAfter
<1>3. /\ g \in Request /\ g.kind = h.kind /\ g.path = h.path
      /\ g.handler = h.handler /\ g.task = "insert" /\ g.known
      /\ g.committed = h.committed /\ g.spoilt
  BY <1>1 DEF Request
<1>4. call'[c] = g
  BY <1>2 DEF TrailInv, TypeOK
<1> HIDE DEF g
<1>5. TaskFollowsHandler(c)'
  BY <1>1, <1>2, <1>3, <1>4 DEF TaskFollowsHandler
<1> QED
  BY <1>1, <1>2, <1>3, <1>5, GoesOn

LEMMA InsertFailsStep ==
    ASSUME TrailInv, NEW c \in Calls, InsertFails(c)
    PROVE  TrailInv'
<1> DEFINE h == call[c]
           g == [h EXCEPT !.task = "over", !.spoilt = TRUE]
<1>1. /\ h \in Request /\ Made(c) /\ h.task = "insert" /\ TaskFollowsHandler(c)
  BY MadeIsRequest DEF InsertFails, TrailInv
<1>2. call' = [call EXCEPT ![c] = g] /\ UNCHANGED <<late, row, deleted, trail>> /\ Mishap
  BY DEF InsertFails
<1>3. /\ g \in Request /\ g.kind = h.kind /\ g.path = h.path
      /\ g.handler = h.handler /\ g.task = "over"
      /\ g.committed = h.committed /\ g.spoilt
  BY <1>1 DEF Request
<1>4. call'[c] = g
  BY <1>2 DEF TrailInv, TypeOK
<1> HIDE DEF g
<1>5. TaskFollowsHandler(c)'
  BY <1>1, <1>2, <1>3, <1>4 DEF TaskFollowsHandler
<1> QED
  BY <1>1, <1>2, <1>3, <1>5, GoesOn

\* The row of a task that ends with one.
LEMMA InsertStep ==
    ASSUME TrailInv, NEW c \in Calls, Insert(c)
    PROVE  TrailInv'
<1> DEFINE h == call[c]
           g == [h EXCEPT !.task = "over"]
<1>1. /\ h \in Request /\ Made(c) /\ h.task = "insert" /\ TaskFollowsHandler(c)
      /\ Named(c) \subseteq Entities
  BY MadeIsRequest, NamedExist DEF Insert, TrailInv
<1>2. /\ call' = [call EXCEPT ![c] = g] /\ UNCHANGED <<late, row, deleted>> /\ Calm
      /\ trail' = trail \cup {AuditRow(c)}
  BY DEF Insert
<1>3. /\ g \in Request /\ g.kind = h.kind /\ g.path = h.path /\ g.changes = h.changes
      /\ g.handler = h.handler /\ g.task = "over" /\ g.known = h.known
      /\ g.committed = h.committed /\ g.old = h.old /\ g.from = h.from /\ g.to = h.to
      /\ g.crowded = h.crowded /\ g.spoilt = h.spoilt /\ g.new = h.new
  BY <1>1 DEF Request
<1>4. call'[c] = g
  BY <1>2 DEF TrailInv, TypeOK
<1> HIDE DEF g
<1>5. /\ h.known /\ (late \/ h.committed)
  BY <1>1 DEF TaskFollowsHandler
<1>6. TaskFollowsHandler(c)'
  BY <1>1, <1>2, <1>3, <1>4 DEF TaskFollowsHandler
<1>7. Named(c)' = Named(c) /\ Entity(c)' = Entity(c)
  BY <1>3, <1>4, SameNames
<1>8. ASSUME ~g.spoilt PROVE SnapshotsEnclose(c)'
  <2>1. SnapshotsEnclose(c)
    BY <1>1, <1>3, <1>8 DEF TrailInv
  <2> QED
    BY <1>1, <1>2, <1>3, <1>4, <1>7, <2>1 DEF SnapshotsEnclose, Follows
<1>9. /\ call' \in [Calls -> {NoCall} \cup Request]
      /\ \A t \in trail : RowIsOfItsRequest(t)'
      /\ \A d \in Calls : Made(d)' => TaskFollowsHandler(d)'
      /\ \A d \in Calls : Made(d)' /\ ~call'[d].spoilt => SnapshotsEnclose(d)'
  BY <1>1, <1>2, <1>3, <1>6, <1>8, OneGoesOn
<1>10. AuditRow(c)' = AuditRow(c)
  BY <1>3, <1>4, <1>7 DEF AuditRow
<1>11. AuditRow(c).call = c /\ AuditRow(c).entity = Named(c)
  BY DEF AuditRow
<1>12. Made(c)'
  BY <1>3, <1>4, RequestIsMade DEF Made
<1>13. RowIsOfItsRequest(AuditRow(c))'
  BY <1>2, <1>3, <1>4, <1>5, <1>10, <1>11, <1>12 DEF RowIsOfItsRequest
<1>14. \A t \in trail' : RowIsOfItsRequest(t)'
  BY <1>2, <1>9, <1>10, <1>13
<1>15. \A t \in trail' : t.call \in Calls /\ t.entity \subseteq Entities
  BY <1>1, <1>2, <1>11 DEF TrailInv, TypeOK
<1>16. TypeOK'
  BY <1>2, <1>9, <1>15 DEF TrailInv, TypeOK, Calm
<1> QED
  BY <1>9, <1>14, <1>16 DEF TrailInv
----------------------------------------------------------------------------
(* Steps that several requests notice *)

\* What a crash and the commit of another request leave of a row: all that the
\* row is about.
LEMMA RowStays ==
    ASSUME TrailInv, NEW t \in trail, NEW g \in Request, call'[t.call] = g, late' = late,
           Keeps(call[t.call], g), call[t.call].committed => g.committed
    PROVE  RowIsOfItsRequest(t)'
<1> DEFINE c == t.call
<1>1. /\ c \in Calls /\ t = AuditRow(c) /\ call[c].known /\ call[c].task = "over"
      /\ late \/ call[c].committed
  BY DEF TrailInv, TypeOK, RowIsOfItsRequest
<1>2. Named(c)' = Named(c)
  BY <1>1, SameNames DEF Keeps
<1>3. AuditRow(c)' = AuditRow(c)
  BY <1>2 DEF AuditRow, Keeps
<1>4. Made(c)'
  BY RequestIsMade DEF Made
<1> QED
  BY <1>1, <1>3, <1>4 DEF RowIsOfItsRequest, Keeps

LEMMA CrashStep ==
    ASSUME TrailInv, Crash
    PROVE  TrailInv'
<1> DEFINE Lost(h) == [h EXCEPT !.handler = "over", !.task = "over", !.spoilt = TRUE]
<1>1. /\ UNCHANGED <<late, row, deleted, trail>> /\ Mishap
      /\ call' = [c \in Calls |-> IF ~Made(c) \/ Done(c) THEN call[c] ELSE Lost(call[c])]
      /\ \A c \in Calls : call'[c] = IF ~Made(c) \/ Done(c) THEN call[c] ELSE Lost(call[c])
  BY DEF Crash
<1>2. \A h \in Request :
         /\ Lost(h) \in Request /\ Lost(h).kind = h.kind /\ Lost(h).path = h.path
         /\ Lost(h).changes = h.changes /\ Lost(h).old = h.old /\ Lost(h).new = h.new
         /\ Lost(h).known = h.known /\ Lost(h).committed = h.committed
         /\ Lost(h).handler = "over" /\ Lost(h).task = "over" /\ Lost(h).spoilt
  BY DEF Request
<1> HIDE DEF Lost
<1>3. \A c \in Calls : /\ call'[c] \in {NoCall} \cup Request
                       /\ Made(c)' => Made(c)
  BY <1>1, <1>2, MadeIsRequest DEF TrailInv, TypeOK, Made
<1>4. TypeOK'
  <2>1. \A c \in Calls : (IF ~Made(c) \/ Done(c) THEN call[c] ELSE Lost(call[c]))
                                \in {NoCall} \cup Request
    <3> SUFFICES ASSUME NEW c \in Calls
                 PROVE  (IF ~Made(c) \/ Done(c) THEN call[c] ELSE Lost(call[c]))
                            \in {NoCall} \cup Request
      OBVIOUS
    <3>1. call[c] \in {NoCall} \cup Request /\ (Made(c) => call[c] \in Request)
      BY MadeIsRequest DEF TrailInv, TypeOK
    <3> QED
      BY <1>2, <3>1
  <2>2. call' \in [Calls -> {NoCall} \cup Request]
    BY <1>1, <2>1
  <2> QED
    BY <1>1, <2>2, BoundAssumption DEF TrailInv, TypeOK, Mishap
<1>5. ASSUME NEW t \in trail'
      PROVE  RowIsOfItsRequest(t)'
  <2>1. t \in trail /\ t.call \in Calls /\ Made(t.call) /\ call[t.call].task = "over"
    BY <1>1 DEF TrailInv, TypeOK, RowIsOfItsRequest
  <2>2. call[t.call] \in Request
    BY <2>1, MadeIsRequest DEF TrailInv
  <2>3. /\ call'[t.call] \in Request /\ Keeps(call[t.call], call'[t.call])
        /\ call'[t.call].committed = call[t.call].committed
    BY <1>1, <1>2, <2>1, <2>2 DEF Keeps
  <2> QED
    BY <1>1, <2>1, <2>3, RowStays
<1>6. ASSUME NEW c \in Calls, Made(c)'
      PROVE  /\ TaskFollowsHandler(c)'
             /\ ~call'[c].spoilt => SnapshotsEnclose(c)'
  <2>1. Made(c) /\ call[c] \in Request /\ TaskFollowsHandler(c)
    <3>1. Made(c)
      BY <1>3, <1>6 DEF Made
    <3> QED
      BY <3>1, MadeIsRequest DEF TrailInv
  <2>2. CASE Done(c)
    <3>1. call'[c] = call[c]
      BY <1>1, <2>2
    <3>2. Named(c)' = Named(c) /\ Entity(c)' = Entity(c)
      BY <3>1, SameNames
    <3>3. ~call[c].spoilt => SnapshotsEnclose(c)
      BY <2>1 DEF TrailInv
    <3> QED
      BY <1>1, <2>1, <3>1, <3>2, <3>3 DEF TaskFollowsHandler, SnapshotsEnclose
  <2>3. CASE ~Done(c)
    <3>1. call'[c] = Lost(call[c])
      BY <1>1, <2>1, <2>3
    <3> QED
      BY <1>1, <1>2, <2>1, <3>1 DEF TaskFollowsHandler
  <2> QED
    BY <2>2, <2>3
<1> QED
  BY <1>4, <1>5, <1>6 DEF TrailInv

LEMMA CommitStep ==
    ASSUME TrailInv, NEW c \in Calls, Commit(c)
    PROVE  TrailInv'
<1> DEFINE h == call[c]
           C == h.changes
           from == IF Named(c) = {} THEN 0 ELSE row[Entity(c)]
           to == IF Named(c) = {} THEN 0 ELSE row'[Entity(c)]
           g == [h EXCEPT !.handler = IF late THEN "over" ELSE "committed",
                          !.committed = TRUE, !.from = from, !.to = to]
           Crowd(d) == IF Between(d) /\ Named(d) \cap C # {}
                       THEN [call[d] EXCEPT !.crowded = TRUE] ELSE call[d]
<1>1. /\ h \in Request /\ Made(c) /\ h.handler = "flushed" /\ TaskFollowsHandler(c)
      /\ row \in [Entities -> Nat] /\ Named(c) \subseteq Entities
      /\ C \subseteq Entities
  BY MadeIsRequest, NamedExist DEF Commit, TrailInv, TypeOK, Request
<1>2. /\ UNCHANGED <<late, trail>> /\ Calm
      /\ late => h.task # "none"
      /\ row' = [e \in Entities |-> IF e \in C THEN row[e] + 1 ELSE row[e]]
      /\ deleted' = IF h.kind \in {"delete", "bulk-delete"} THEN deleted \cup C ELSE deleted
  BY DEF Commit
<1>3. call' = [d \in Calls |-> IF d = c THEN g ELSE Crowd(d)]
  BY DEF Commit
<1>4. /\ row' \in [Entities -> Nat]
      /\ \A e \in Entities : /\ row'[e] >= row[e]
                             /\ e \notin C => row'[e] = row[e]
                             /\ e \in C => row'[e] = row[e] + 1
  BY <1>1, <1>2
<1>5. Named(c) # {} => Entity(c) \in Named(c)
  BY EntityIsNamed
<1>6. from \in Nat /\ to \in Nat
  BY <1>1, <1>4, <1>5
<1>7. /\ g \in Request /\ Keeps(h, g) /\ g.committed /\ g.from = from /\ g.to = to
      /\ g.handler = (IF late THEN "over" ELSE "committed")
      /\ g.crowded = h.crowded /\ g.spoilt = h.spoilt
  <2> HIDE DEF from, to
  <2> QED
    BY <1>1, <1>6 DEF Request, Keeps
<1>8. \A d \in Calls : Made(d) =>
         /\ call[d] \in Request
         /\ Crowd(d) \in Request /\ Keeps(call[d], Crowd(d))
         /\ Crowd(d).handler = call[d].handler /\ Crowd(d).committed = call[d].committed
         /\ Crowd(d).from = call[d].from /\ Crowd(d).to = call[d].to
         /\ Crowd(d).spoilt = call[d].spoilt
         /\ Crowd(d).crowded = (call[d].crowded \/ (Between(d) /\ Named(d) \cap C # {}))
  <2> SUFFICES ASSUME NEW d \in Calls, Made(d)
               PROVE  /\ call[d] \in Request
                      /\ Crowd(d) \in Request /\ Keeps(call[d], Crowd(d))
                      /\ Crowd(d).handler = call[d].handler
                      /\ Crowd(d).committed = call[d].committed
                      /\ Crowd(d).from = call[d].from /\ Crowd(d).to = call[d].to
                      /\ Crowd(d).spoilt = call[d].spoilt
                      /\ Crowd(d).crowded = (call[d].crowded
                                             \/ (Between(d) /\ Named(d) \cap C # {}))
    OBVIOUS
  <2>1. call[d] \in Request /\ call[d].crowded \in BOOLEAN
    BY MadeIsRequest DEF TrailInv, Request
  <2> DEFINE f == [call[d] EXCEPT !.crowded = TRUE]
  <2>2. /\ f \in Request /\ Keeps(call[d], f) /\ f.handler = call[d].handler
        /\ f.committed = call[d].committed /\ f.from = call[d].from /\ f.to = call[d].to
        /\ f.spoilt = call[d].spoilt /\ f.crowded = TRUE
    BY <2>1 DEF Request, Keeps
  <2> HIDE DEF f
  <2>3. CASE Between(d) /\ Named(d) \cap C # {}
    <3>1. Crowd(d) = f
      BY <2>3 DEF f
    <3> QED
      BY <2>1, <2>2, <2>3, <3>1
  <2>4. CASE ~(Between(d) /\ Named(d) \cap C # {})
    <3>1. Crowd(d) = call[d]
      BY <2>4
    <3> QED
      BY <2>1, <2>4, <3>1 DEF Keeps
  <2> QED
    BY <2>3, <2>4
<1>9. \A d \in Calls : ~Made(d) => Crowd(d) = call[d]
  BY DEF Between
<1> HIDE DEF g, Crowd
<1>10. call'[c] = g /\ \A d \in Calls \ {c} : call'[d] = Crowd(d)
  BY <1>3
<1>11. \A d \in Calls : /\ Made(d)' => Made(d) /\ call'[d] \in Request
                        /\ call'[d] \in {NoCall} \cup Request
  BY <1>1, <1>7, <1>8, <1>9, <1>10, RequestIsMade DEF Made
<1>12. TypeOK'
  <2>1. ASSUME NEW d \in Calls
        PROVE  (IF d = c THEN g ELSE Crowd(d)) \in {NoCall} \cup Request
    <3>1. call'[d] \in {NoCall} \cup Request
      BY <1>11
    <3>2. call'[d] = IF d = c THEN g ELSE Crowd(d)
      BY <1>10
    <3> QED
      BY <3>1, <3>2
  <2>2. call' \in [Calls -> {NoCall} \cup Request]
    BY <1>3, <2>1
  <2> QED
    BY <1>1, <1>2, <1>4, <2>2 DEF TrailInv, TypeOK, Calm
<1>13. ASSUME NEW t \in trail'
       PROVE  RowIsOfItsRequest(t)'
  <2>1. t \in trail /\ t.call \in Calls /\ Made(t.call)
    BY <1>2 DEF TrailInv, TypeOK, RowIsOfItsRequest
  <2>2. /\ call'[t.call] \in Request /\ Keeps(call[t.call], call'[t.call])
        /\ call[t.call].committed => call'[t.call].committed
    BY <1>7, <1>8, <1>10, <2>1
  <2> QED
    BY <1>2, <2>1, <2>2, RowStays
<1>14. ASSUME NEW d \in Calls, Made(d)'
       PROVE  TaskFollowsHandler(d)'
  <2>1. Made(d) /\ TaskFollowsHandler(d)
    BY <1>11, <1>14 DEF TrailInv
  <2>2. CASE d = c
    BY <1>1, <1>2, <1>7, <1>10, <2>2 DEF TaskFollowsHandler, Keeps
  <2>3. CASE d # c
    BY <1>2, <1>8, <1>10, <2>1, <2>3 DEF TaskFollowsHandler, Keeps
  <2> QED
    BY <2>2, <2>3
<1>15. ASSUME NEW d \in Calls, Made(d)', ~call'[d].spoilt
       PROVE  SnapshotsEnclose(d)'
  <2>1. Made(d) /\ call[d] \in Request /\ TaskFollowsHandler(d)
    BY <1>8, <1>11, <1>15 DEF TrailInv
  <2>2. SnapshotsEnclose(d)
    BY <1>7, <1>8, <1>10, <1>15, <2>1 DEF TrailInv
  <2>3. Named(d)' = Named(d) /\ Entity(d)' = Entity(d)
    BY <1>7, <1>8, <1>10, <2>1, SameNames DEF Keeps
  <2>4. InPath(call[d].kind) => /\ call[d].path \in Entities /\ Named(d) = {call[d].path}
                                /\ Entity(d) = call[d].path
    <3>1. InPath(call[d].kind) => /\ call[d].path \in Entities /\ Named(d) = {call[d].path}
      BY <2>1 DEF TaskFollowsHandler, Named, Request, InPath
    <3> QED
      BY <3>1, EntityIsNamed
  <2>5. Named(d) # {} => Entity(d) \in Named(d) /\ Entity(d) \in Entities
    BY <2>1, NamedExist, EntityIsNamed DEF TrailInv
  <2>6. CASE d = c
    <3>1. ~h.committed /\ (~late => h.task = "none")
      BY <1>1 DEF TaskFollowsHandler
    <3>2. InPath(h.kind) => /\ h.old \in Nat /\ row[h.path] > 0
                            /\ Follows(row[h.path], h.old, ~h.crowded)
      BY <1>1, <2>2, <2>6 DEF SnapshotsEnclose
    <3>3. InPath(h.kind) => from = row[h.path] /\ to = row'[h.path] /\ to > 0
      <4> SUFFICES ASSUME InPath(h.kind)
                   PROVE  from = row[h.path] /\ to = row'[h.path] /\ to > 0
        OBVIOUS
      <4>1. h.path \in Entities /\ Named(c) # {} /\ Entity(c) = h.path
        BY <2>4, <2>6
      <4>2. from = row[h.path] /\ to = row'[h.path]
        BY <4>1
      <4>3. row[h.path] \in Nat /\ row'[h.path] \in Nat /\ row'[h.path] >= row[h.path]
        BY <1>1, <1>4, <4>1
      <4> QED
        BY <3>2, <4>2, <4>3
    <3>4. ~InPath(h.kind) /\ Named(c) # {} => to > 0
      <4>1. ~InPath(h.kind) /\ Named(c) # {} => Named(c) = C
        BY <1>1, <2>1, <2>6 DEF TaskFollowsHandler, Named
      <4>2. ASSUME ~InPath(h.kind), Named(c) # {}
            PROVE  to > 0
        <5>1. Entity(c) \in C /\ Entity(c) \in Entities /\ to = row'[Entity(c)]
          BY <1>1, <1>5, <4>1, <4>2
        <5>2. row[Entity(c)] \in Nat /\ row'[Entity(c)] = row[Entity(c)] + 1
          BY <1>1, <1>4, <5>1
        <5> QED
          BY <5>1, <5>2
      <4> QED
        BY <4>2
    <3>5. Named(c) # {} => to = row'[Entity(c)] /\ to \in Nat
      BY <1>6
    <3> HIDE DEF from, to
    <3> QED
      BY <1>2, <1>7, <1>10, <2>3, <2>6, <3>1, <3>2, <3>3, <3>4, <3>5
         DEF SnapshotsEnclose, Follows, Keeps
  <2>7. CASE d # c
    <3> DEFINE f == call[d]
               n == call'[d]
    <3>1. /\ n.kind = f.kind /\ n.path = f.path /\ n.old = f.old /\ n.new = f.new
          /\ n.known = f.known /\ n.task = f.task /\ n.handler = f.handler
          /\ n.committed = f.committed /\ n.from = f.from /\ n.to = f.to
          /\ n.crowded = (f.crowded \/ (Between(d) /\ Named(d) \cap C # {}))
      BY <1>8, <1>10, <2>1, <2>7 DEF Keeps
    <3>2. f.to \in Nat /\ f.from \in Nat
      BY <2>1 DEF Request
    <3>3. ASSUME InPath(f.kind), f.handler \in {"running", "flushed"}
          PROVE  Follows(row'[f.path], f.old, ~n.crowded) /\ row'[f.path] >= row[f.path]
      <4>1. f.old \in Nat /\ Follows(row[f.path], f.old, ~f.crowded)
        BY <2>2, <3>3 DEF SnapshotsEnclose
      <4>2. Between(d)
        BY <2>1, <3>3 DEF Between
      <4>3. row[f.path] \in Nat /\ row'[f.path] \in Nat
        BY <1>1, <1>4, <2>4, <3>3
      <4>4. row'[f.path] >= row[f.path]
        BY <1>4, <2>4, <3>3
      <4>5. CASE f.path \in C
        <5>1. n.crowded
          BY <2>4, <3>1, <3>3, <4>2, <4>5
        <5> QED
          BY <4>1, <4>3, <4>4, <5>1 DEF Follows
      <4>6. CASE f.path \notin C
        <5>1. row'[f.path] = row[f.path] /\ (f.crowded => n.crowded)
          BY <1>4, <2>4, <3>1, <3>3, <4>6
        <5> QED
          BY <4>1, <4>3, <5>1 DEF Follows
      <4> QED
        BY <4>4, <4>5, <4>6
    <3>4. ASSUME f.committed, ~late, Named(d) # {}, f.task \in {"none", "after"}
          PROVE  Follows(row'[Entity(d)], f.to, ~n.crowded)
      <4>1. Follows(row[Entity(d)], f.to, ~f.crowded)
        BY <2>2, <3>4 DEF SnapshotsEnclose
      <4>2. Between(d)
        BY <2>1, <3>4 DEF Between, TaskFollowsHandler
      <4>3. row[Entity(d)] \in Nat /\ row'[Entity(d)] \in Nat
        BY <1>1, <1>4, <2>5, <3>4
      <4>4. row'[Entity(d)] >= row[Entity(d)]
        BY <1>4, <2>5, <3>4
      <4>5. CASE Entity(d) \in C
        <5>1. n.crowded
          BY <2>5, <3>1, <3>4, <4>2, <4>5
        <5> QED
          BY <3>2, <4>1, <4>3, <4>4, <5>1 DEF Follows
      <4>6. CASE Entity(d) \notin C
        <5>1. row'[Entity(d)] = row[Entity(d)] /\ (f.crowded => n.crowded)
          BY <1>4, <2>5, <3>1, <3>4, <4>6
        <5> QED
          BY <3>2, <4>1, <4>3, <5>1 DEF Follows
      <4> QED
        BY <4>5, <4>6
    <3>5. InPath(f.kind) => row[f.path] \in Nat /\ row'[f.path] \in Nat
      BY <1>1, <1>4, <2>4
    <3>6. n.crowded \/ (n.crowded = f.crowded)
      BY <2>1, <3>1 DEF Request
    <3> QED
      BY <1>2, <2>2, <2>3, <3>1, <3>2, <3>3, <3>4, <3>5, <3>6 DEF SnapshotsEnclose, Follows
  <2> QED
    BY <2>6, <2>7
<1> QED
  BY <1>12, <1>13, <1>14, <1>15 DEF TrailInv
----------------------------------------------------------------------------
(* The theorems *)

LEMMA InitTrail == Init => TrailInv
<1> SUFFICES ASSUME Init
             PROVE  TrailInv
  OBVIOUS
<1>1. /\ call = [c \in Calls |-> NoCall] /\ trail = {} /\ deleted = {} /\ mishaps = 0
      /\ late \in BOOLEAN /\ row \in [Entities -> {0, 1}]
  BY DEF Init
<1>2. TypeOK
  BY <1>1, BoundAssumption DEF TypeOK
<1> QED
  BY <1>1, <1>2 DEF TrailInv, Made

LEMMA NextTrail == TrailInv /\ [Next]_vars => TrailInv'
<1> SUFFICES ASSUME TrailInv, [Next]_vars
             PROVE  TrailInv'
  OBVIOUS
<1>1. CASE UNCHANGED vars
  <2>1. call' = call /\ row' = row /\ late' = late /\ trail' = trail /\ deleted' = deleted
        /\ mishaps' = mishaps
    BY <1>1 DEF vars
  <2>2. TypeOK'
    BY <2>1 DEF TrailInv, TypeOK
  <2>3. \A c \in Calls : /\ Made(c)' <=> Made(c)
                         /\ Named(c)' = Named(c) /\ Entity(c)' = Entity(c)
                         /\ AuditRow(c)' = AuditRow(c)
    BY <2>1, SameNames DEF Made, AuditRow
  <2>4. \A t \in trail : t.call \in Calls
    BY DEF TrailInv, TypeOK
  <2>5. \A t \in trail' : RowIsOfItsRequest(t)'
    BY <2>1, <2>3, <2>4 DEF TrailInv, RowIsOfItsRequest
  <2>6. \A c \in Calls : /\ TaskFollowsHandler(c)' <=> TaskFollowsHandler(c)
                         /\ SnapshotsEnclose(c)' <=> SnapshotsEnclose(c)
    BY <2>1, <2>3 DEF TaskFollowsHandler, SnapshotsEnclose
  <2> QED
    BY <2>1, <2>2, <2>3, <2>5, <2>6 DEF TrailInv
<1>2. CASE Crash
  BY <1>2, CrashStep
<1>3. ASSUME NEW c \in Calls,
             \/ \E kind \in Kinds, path \in Entities \cup {Nothing},
                   changes \in SUBSET Entities, known \in BOOLEAN :
                      Arrive(c, kind, path, changes, known)
             \/ Handler(c) \/ Flush(c) \/ Task(c) \/ Failures(c)
      PROVE  TrailInv'
  <2>1. CASE \E kind \in Kinds, path \in Entities \cup {Nothing},
                changes \in SUBSET Entities, known \in BOOLEAN :
                   Arrive(c, kind, path, changes, known)
    BY <2>1, ArriveStep
  <2>2. CASE Handler(c) \/ Flush(c)
    BY <2>2, SnapshotBeforeStep, RefuseStep, CommitStep, AnswerStep, FlushStep DEF Handler
  <2>3. CASE Task(c)
    BY <2>3, SkipStep, SnapshotAfterStep, InsertStep DEF Task
  <2>4. CASE Failures(c)
    BY <2>4, MissBeforeStep, RefuseStep, MissAfterStep, InsertFailsStep DEF Failures
  <2> QED
    BY <1>3, <2>1, <2>2, <2>3, <2>4
<1> QED
  BY <1>1, <1>2, <1>3 DEF Next

\* The audit trail has at most one row for a request, none for one that changed
\* nothing or that nobody known made, whatever fails and whenever the worker
\* dies (AuditMiddleware.dispatch, _record).
THEOREM TrailIsRight == Spec => []TrailInv
BY InitTrail, NextTrail, PTL DEF Spec

\* The two snapshots of a row enclose the change it reports, and are exact when
\* no other request has changed the entity in between.
THEOREM SnapshotsTellTheChange == Spec => []RowsTellTheChange
<1>1. TrailInv => RowsTellTheChange
  <2> SUFFICES ASSUME TrailInv, NEW t \in trail, call[t.call].committed, ~call[t.call].spoilt
               PROVE  /\ InPath(call[t.call].kind) =>
                            /\ t.old <= call[t.call].from
                            /\ ~call[t.call].crowded => t.old = call[t.call].from
                      /\ t.action # "DELETE" /\ t.entity # {} /\ ~late =>
                            /\ call[t.call].to <= t.new
                            /\ ~call[t.call].crowded => t.new = call[t.call].to
    BY DEF RowsTellTheChange
  <2> DEFINE c == t.call
             h == call[c]
  <2>1. /\ c \in Calls /\ Made(c) /\ t = AuditRow(c) /\ h.known /\ h.task = "over"
    BY DEF TrailInv, TypeOK, RowIsOfItsRequest
  <2>2. t.action = Action(h.kind) /\ t.entity = Named(c) /\ t.old = h.old /\ t.new = h.new
    BY <2>1 DEF AuditRow
  <2>3. SnapshotsEnclose(c)
    BY <2>1 DEF TrailInv
  <2> QED
    BY <2>1, <2>2, <2>3 DEF SnapshotsEnclose, Follows
<1> QED
  BY <1>1, TrailIsRight, PTL
=============================================================================
