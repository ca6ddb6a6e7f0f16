--------------------------- MODULE SuiteRuns_proofs ---------------------------
(***************************************************************************)
(* Proofs about SuiteRuns, for every set of cases, runs, sessions, link    *)
(* rows and calls.                                                         *)
(***************************************************************************)
EXTENDS SuiteRuns, FiniteSetTheorems, TLAPS

----------------------------------------------------------------------------
(* Sessions *)

Session ==
    [phase : Phases, call : Calls \cup {NoCall}, target : SUBSET Links,
     del : SUBSET Links, ins : SUBSET (Links \X Cases),
     kill : BOOLEAN, moved : BOOLEAN, cols : SUBSET (Columns \cup {"stamp"}),
     execs : [Cases -> Nat], answer : {"none", "200", "4xx", "500"}]

\* PhasesServeCalls for one session.
Serves(h) ==
    LET op == h.call.op IN
    /\ h.phase = "idle" => h = Idle(h.answer)
    /\ h.phase # "idle" => h.call \in Calls
    /\ h.phase = "insert" => op \in {"add", "replace"}
    /\ h.phase = "unlink" => op \in Unlinking
    /\ h.phase \in {"select", "kill"} => op \in Deleting
    /\ h.phase = "expand" => op = "move" /\ "stamp" \in h.cols
    /\ h.phase = "reselect" => op = "move"
    /\ h.phase = "write" => op \in {"move", "put"}
    /\ h.target # {} => h.phase = "unlink"
    /\ h.del # {} => op \in Unlinking /\ h.phase \in {"insert", "select", "kill", "commit"}
    /\ h.ins # {} => op \in {"add", "replace"} /\ h.phase = "commit"
    /\ h.kill => op \in Deleting /\ h.phase = "commit"
    /\ h.moved => op \in {"move", "put"} /\ h.phase = "commit"
    /\ h.cols # {} => op \in {"move", "put"} /\ h.phase \notin {"idle", "open"}
    /\ "stamp" \in h.cols => op = "move"
    /\ h.cols \cap {"clear", "delete"} # {} => op = "put"
    /\ h.execs # NoExecs => op = "move" /\ "stamp" \in h.cols
                            /\ h.phase \in {"reselect", "write", "commit"}

LEMMA ServesAll == PhasesServeCalls <=> \A r \in Requests : Serves(req[r])
BY DEF PhasesServeCalls, Serves

\* What the calls ask for.
LEMMA CallFacts ==
    ASSUME NEW call \in Calls
    PROVE  /\ call.op \in {"add", "remove", "replace", "delete", "bulk delete", "move", "put"}
           /\ call.op \notin {"move", "put"} => call.cases \in SUBSET Cases
           /\ call.op \in {"move", "put"} => call.run \in Runs /\ call.status \in Statuses
           /\ call.op = "put" => call.cols \in SUBSET Columns
<1>1. ASSUME NEW c \in Cases,
             \/ call = AddCase(c) \/ call = RemoveCase(c)
             \/ call = DeleteCase(c) \/ call = BulkDeleteCase(c)
      PROVE  call.op \in {"add", "remove", "delete", "bulk delete"} /\ call.cases = {c}
  <2>1. AddCase(c).op = "add" /\ AddCase(c).cases = {c}
    BY DEF AddCase
  <2>2. RemoveCase(c).op = "remove" /\ RemoveCase(c).cases = {c}
    BY DEF RemoveCase
  <2>3. DeleteCase(c).op = "delete" /\ DeleteCase(c).cases = {c}
    BY DEF DeleteCase
  <2>4. BulkDeleteCase(c).op = "bulk delete" /\ BulkDeleteCase(c).cases = {c}
    BY DEF BulkDeleteCase
  <2> QED
    BY <1>1, <2>1, <2>2, <2>3, <2>4
<1>2. ASSUME NEW cs \in SUBSET Cases, call = ReplaceCases(cs)
      PROVE  call.op = "replace" /\ call.cases = cs
  BY <1>2 DEF ReplaceCases
<1>3. ASSUME NEW t \in Runs, NEW s \in Statuses, NEW cs \in SUBSET Columns,
             call = Move(t, s) \/ call = Put(t, s, cs)
      PROVE  /\ call.op \in {"move", "put"} /\ call.run = t /\ call.status = s
             /\ call.op = "put" => call.cols = cs
  BY <1>3 DEF Move, Put
<1>4. \/ \E c \in Cases : \/ call = AddCase(c) \/ call = RemoveCase(c)
                          \/ call = DeleteCase(c) \/ call = BulkDeleteCase(c)
      \/ \E cs \in SUBSET Cases : call = ReplaceCases(cs)
      \/ \E t \in Runs, s \in Statuses, cs \in SUBSET Columns :
             call = Move(t, s) \/ call = Put(t, s, cs)
  BY CallsAssumption DEF AllCalls
<1>5. CASE call.op \in {"move", "put"}
  BY <1>1, <1>2, <1>3, <1>4, <1>5
<1>6. CASE call.op \notin {"move", "put"}
  BY <1>1, <1>2, <1>3, <1>4, <1>6
<1> QED
  BY <1>5, <1>6

LEMMA IdleIsSession ==
    ASSUME NEW answer \in {"none", "200", "4xx", "500"}
    PROVE  Idle(answer) \in Session /\ Serves(Idle(answer))
<1>1. NoExecs \in [Cases -> Nat]
  BY DEF NoExecs
<1>2. Idle(answer) \in Session
  BY <1>1 DEF Idle, Session, Phases
<1> QED
  BY <1>2 DEF Idle, Serves, NoCall

\* The link rows a session sees are some of Links, and they can be counted.
LEMMA VisibleFacts ==
    ASSUME TypeOK, NEW r \in Requests, NEW cs
    PROVE  /\ Visible(r) \in SUBSET Links
           /\ LinksOf(r, cs) \in SUBSET Links
           /\ IsFiniteSet(LinksOf(r, cs))
           /\ Cardinality(LinksOf(r, cs)) \in Nat
<1>1. req[r].ins \subseteq Links \X Cases
  BY DEF TypeOK
<1>2. Visible(r) \in SUBSET Links
  BY <1>1 DEF Visible
<1>3. LinksOf(r, cs) \in SUBSET Links
  BY <1>2 DEF LinksOf
<1> QED
  BY <1>2, <1>3, FiniteAssumption, FS_Subset, FS_CardinalityType

----------------------------------------------------------------------------
(* The kinds of steps *)

\* A step of session r after which it has flushed neither more nor less.
Quiet(r) ==
    \E h \in Session :
        /\ Serves(h) /\ Goes(r, h)
        /\ h.del = req[r].del /\ h.ins = req[r].ins

Ending(r) == \E answer \in {"none", "200", "4xx", "500"} : Rollback(r, answer)

\* A session that goes on is a session.
LEMMA GoesType ==
    ASSUME TypeOK, PhasesServeCalls, NEW r \in Requests, NEW h \in Session, Serves(h),
           Goes(r, h)
    PROVE  /\ req' \in [Requests -> Session] /\ PhasesServeCalls'
           /\ req'[r] = h /\ \A q \in Requests \ {r} : req'[q] = req[q]
           /\ UNCHANGED <<gone, link, run, execs, cleared, pushed>>
<1>1. req \in [Requests -> Session]
  BY DEF TypeOK, Session
<1>2. req' \in [Requests -> Session] /\ req'[r] = h
      /\ \A q \in Requests \ {r} : req'[q] = req[q]
  BY <1>1 DEF Goes
<1>3. PhasesServeCalls'
  <2>1. \A q \in Requests : Serves(req'[q])
    BY <1>2, ServesAll
  <2> QED
    BY <2>1 DEF PhasesServeCalls, Serves
<1> QED
  BY <1>2, <1>3 DEF Goes

LEMMA RollbackGoes ==
    ASSUME NEW r \in Requests, NEW answer, Rollback(r, answer)
    PROVE  Goes(r, Idle(answer))
BY DEF Rollback, Goes

\* Every step but the three that matter most is quiet or ends the session.
LEMMA QuietSteps ==
    ASSUME TypeOK, PhasesServeCalls, NEW r \in Requests,
           \/ \E call \in Calls : Start(r, call)
           \/ AddCheck(r) \/ BeginUnlink(r) \/ SelectCase(r) \/ KillCase(r)
           \/ LoadRun(r) \/ Expand(r) \/ Reselect(r) \/ LoadPut(r) \/ WriteRun(r)
           \/ Crash(r)
    PROVE  Quiet(r) \/ Ending(r)
<1> DEFINE h == req[r]
<1>1. h \in Session /\ Serves(h)
  BY ServesAll DEF TypeOK, Session
<1>2. h.phase # "idle" => /\ h.call \in Calls
                          /\ h.call.op \notin {"move", "put"} => h.call.cases \in SUBSET Cases
                          /\ h.call.op \in {"move", "put"} => h.call.run \in Runs
  BY <1>1, CallFacts DEF Serves
<1>3. NoExecs \in [Cases -> Nat]
  BY DEF NoExecs
<1>4. ASSUME NEW call \in Calls, Start(r, call)
      PROVE  Quiet(r)
  <2> DEFINE g == [Idle("none") EXCEPT !.phase = "open", !.call = call]
  <2>1. Goes(r, g) /\ h.phase = "idle"
    BY <1>4 DEF Start
  <2>2. g \in Session /\ Serves(g) /\ g.del = {} /\ g.ins = {}
    BY <1>3 DEF Session, Idle, Phases, Serves
  <2>3. h.del = {} /\ h.ins = {}
    BY <1>1, <2>1 DEF Serves, Idle
  <2> QED
    BY <2>1, <2>2, <2>3 DEF Quiet
<1>5. CASE AddCheck(r)
  <2>1. CASE Rollback(r, "500")
    BY <2>1 DEF Ending
  <2>2. CASE \E phase \in {"commit", "insert"} : Goes(r, [h EXCEPT !.phase = phase])
    <3>1. PICK phase \in {"commit", "insert"} : Goes(r, [h EXCEPT !.phase = phase])
      BY <2>2
    <3> DEFINE g == [h EXCEPT !.phase = phase]
    <3>2. h.phase = "open" /\ h.call.op = "add"
      BY <1>5 DEF AddCheck, At
    <3>3. g \in Session /\ Serves(g) /\ g.del = h.del /\ g.ins = h.ins
      BY <1>1, <3>2 DEF Session, Phases, Serves
    <3> QED
      BY <3>1, <3>3 DEF Quiet
  <2> QED
    BY <1>5, <2>1, <2>2 DEF AddCheck
<1>6. CASE BeginUnlink(r)
  <2> DEFINE g == [h EXCEPT !.phase = "unlink",
                        !.target = IF h.call.op = "replace" THEN Visible(r)
                                   ELSE LinksOf(r, h.call.cases)]
  <2>1. Goes(r, g) /\ h.phase = "open" /\ h.call.op \in Unlinking
    BY <1>6 DEF BeginUnlink, At, Unlinking
  <2>2. g \in Session
    BY <1>1, <2>1, VisibleFacts DEF Session, Phases
  <2>3. Serves(g) /\ g.del = h.del /\ g.ins = h.ins
    BY <1>1, <2>1 DEF Session, Serves
  <2> QED
    BY <2>1, <2>2, <2>3 DEF Quiet
<1>7. CASE SelectCase(r)
  <2>1. h.phase = "select" /\ h.call.op \in Deleting
    BY <1>7 DEF SelectCase, At, Deleting
  <2>2. CASE Rollback(r, "4xx")
    BY <2>2 DEF Ending
  <2>3. CASE \E phase \in {"kill", "commit"} : Goes(r, [h EXCEPT !.phase = phase])
    <3>1. PICK phase \in {"kill", "commit"} : Goes(r, [h EXCEPT !.phase = phase])
      BY <2>3
    <3> DEFINE g == [h EXCEPT !.phase = phase]
    <3>2. g \in Session /\ Serves(g) /\ g.del = h.del /\ g.ins = h.ins
      BY <1>1, <2>1 DEF Session, Phases, Serves
    <3> QED
      BY <3>1, <3>2 DEF Quiet
  <2> QED
    BY <1>7, <2>2, <2>3 DEF SelectCase
<1>8. CASE KillCase(r)
  <2> DEFINE g == [h EXCEPT !.phase = "commit", !.kill = TRUE]
  <2>1. Goes(r, g) /\ h.phase = "kill" /\ h.call.op \in Deleting
    BY <1>8 DEF KillCase, At, Deleting
  <2>2. g \in Session /\ Serves(g) /\ g.del = h.del /\ g.ins = h.ins
    BY <1>1, <2>1 DEF Session, Phases, Serves
  <2> QED
    BY <2>1, <2>2 DEF Quiet
<1>9. CASE LoadRun(r)
  <2>1. h.phase = "open" /\ h.call.op = "move"
    BY <1>9 DEF LoadRun, At
  <2>2. CASE Rollback(r, "4xx")
    BY <2>2 DEF Ending
  <2>3. CASE ~Rollback(r, "4xx")
    <3> DEFINE phase == IF Starts(r) THEN "expand" ELSE "reselect"
               cols == {"status"} \cup (IF Stamps(r) THEN {"stamp"} ELSE {})
               g == [h EXCEPT !.phase = phase, !.cols = cols]
    <3>1. Goes(r, g)
      BY <1>9, <2>3 DEF LoadRun
    <3>2. phase \in {"expand", "reselect"} /\ (phase = "expand" => "stamp" \in cols)
          /\ cols \in SUBSET {"status", "stamp"}
      BY DEF Starts, Stamps
    <3> HIDE DEF phase, cols
    <3>3. cols \in SUBSET (Columns \cup {"stamp"}) /\ cols \cap {"clear", "delete"} = {}
      BY <3>2 DEF Columns
    <3>4. g \in Session /\ g.del = h.del /\ g.ins = h.ins
      BY <1>1, <3>2, <3>3 DEF Session, Phases
    <3>5. Serves(g)
      BY <1>1, <2>1, <3>2, <3>3 DEF Session, Serves
    <3> QED
      BY <3>1, <3>4, <3>5 DEF Quiet
  <2> QED
    BY <2>2, <2>3
<1>10. CASE Expand(r)
  <2> DEFINE g == [h EXCEPT !.phase = "reselect",
                      !.execs = [c \in Cases |-> Cardinality(LinksOf(r, {c}))]]
  <2>1. Goes(r, g) /\ h.phase = "expand" /\ h.call.op = "move"
    BY <1>10 DEF Expand, At
  <2>2. [c \in Cases |-> Cardinality(LinksOf(r, {c}))] \in [Cases -> Nat]
    BY VisibleFacts
  <2>3. g \in Session /\ g.del = h.del /\ g.ins = h.ins
    BY <1>1, <2>2 DEF Session, Phases
  <2>4. Serves(g)
    BY <1>1, <2>1 DEF Session, Serves
  <2> QED
    BY <2>1, <2>3, <2>4 DEF Quiet
<1>11. CASE LoadPut(r)
  <2>1. h.phase = "open" /\ h.call.op = "put"
    BY <1>11 DEF LoadPut, At
  <2>2. CASE Rollback(r, "4xx")
    BY <2>2 DEF Ending
  <2>3. CASE ~Rollback(r, "4xx")
    <3> DEFINE changed == {x \in h.call.cols :
                              /\ x = "status" => h.call.status # LoadedRun(r).status
                              /\ x = "clear" => LoadedRun(r).started}
               phase == IF changed = {} THEN "commit" ELSE "write"
               g == [h EXCEPT !.phase = phase, !.cols = changed]
    <3>1. Goes(r, g)
      BY <1>11, <2>3 DEF LoadPut
    <3>2. phase \in {"commit", "write"}
      OBVIOUS
    <3>3. changed \in SUBSET Columns
      BY <1>1, <2>1, CallFacts DEF Serves
    <3> HIDE DEF phase, changed
    <3>4. "stamp" \notin changed
      BY <3>3 DEF Columns
    <3>5. g \in Session /\ g.del = h.del /\ g.ins = h.ins
      BY <1>1, <3>2, <3>3 DEF Session, Phases
    <3>6. Serves(g)
      BY <1>1, <2>1, <3>2, <3>4 DEF Session, Serves
    <3> QED
      BY <3>1, <3>5, <3>6 DEF Quiet
  <2> QED
    BY <2>2, <2>3
<1>12. CASE WriteRun(r)
  <2> DEFINE g == [h EXCEPT !.phase = "commit", !.moved = TRUE]
  <2>1. Goes(r, g) /\ h.phase = "write"
    BY <1>12 DEF WriteRun
  <2>2. g \in Session /\ Serves(g) /\ g.del = h.del /\ g.ins = h.ins
    BY <1>1, <2>1 DEF Session, Phases, Serves
  <2> QED
    BY <2>1, <2>2 DEF Quiet
<1>13. CASE Crash(r)
  BY <1>13 DEF Crash, Ending
<1>14. CASE Reselect(r)
  <2>1. PICK phase \in {"commit", "write"} : Goes(r, [h EXCEPT !.phase = phase])
    BY <1>14 DEF Reselect
  <2> DEFINE g == [h EXCEPT !.phase = phase]
  <2>2. h.phase = "reselect" /\ h.call.op = "move"
    BY <1>14 DEF Reselect, At
  <2>3. g \in Session /\ g.del = h.del /\ g.ins = h.ins
    BY <1>1 DEF Session, Phases
  <2>4. Serves(g)
    BY <1>1, <2>2 DEF Session, Serves
  <2> QED
    BY <2>1, <2>3, <2>4 DEF Quiet
<1> QED
  BY <1>4, <1>5, <1>6, <1>7, <1>8, <1>9, <1>10, <1>11, <1>12, <1>13, <1>14

\* The handler that inserts links, and the one that deletes some.
Inserting(r, ks, f) == [req[r] EXCEPT !.phase = "commit", !.ins = {<<k, f[k]>> : k \in ks}]

LEMMA InsertStep ==
    ASSUME TypeOK, PhasesServeCalls, NEW r \in Requests, InsertLinks(r)
    PROVE  \E ks \in SUBSET FreeLinks : \E f \in [ks -> req[r].call.cases] :
               /\ \A j, k \in ks : f[j] = f[k] => j = k
               /\ Inserting(r, ks, f) \in Session /\ Serves(Inserting(r, ks, f))
               /\ Goes(r, Inserting(r, ks, f))
<1> DEFINE h == req[r]
<1>1. h \in Session /\ Serves(h) /\ h.phase = "insert" /\ h.call.op \in {"add", "replace"}
  BY ServesAll DEF TypeOK, Session, InsertLinks, At
<1>2. h.call.cases \in SUBSET Cases
  BY <1>1, CallFacts DEF Serves
<1>3. PICK ks \in SUBSET FreeLinks : \E f \in [ks -> h.call.cases] :
          /\ \A j, k \in ks : f[j] = f[k] => j = k
          /\ Goes(r, Inserting(r, ks, f))
  BY DEF InsertLinks, Inserting
<1>4. PICK f \in [ks -> h.call.cases] :
          /\ \A j, k \in ks : f[j] = f[k] => j = k
          /\ Goes(r, Inserting(r, ks, f))
  BY <1>3
<1>5. {<<k, f[k]>> : k \in ks} \in SUBSET (Links \X Cases)
  BY <1>2 DEF FreeLinks
<1>6. Inserting(r, ks, f) \in Session
  BY <1>1, <1>5 DEF Inserting, Session, Phases
<1>7. Serves(Inserting(r, ks, f))
  BY <1>1 DEF Inserting, Session, Serves, Unlinking
<1> QED
  BY <1>4, <1>6, <1>7

AfterUnlink(op) == CASE op = "remove" -> "commit" [] op = "replace" -> "insert" [] OTHER -> "select"

Unlinked(r) == [req[r] EXCEPT !.target = {}, !.del = {k \in req[r].target : link[k] # None},
                              !.phase = AfterUnlink(req[r].call.op)]

LEMMA UnlinkStep ==
    ASSUME TypeOK, PhasesServeCalls, NEW r \in Requests, Unlink(r)
    PROVE  Unlinked(r) \in Session /\ Serves(Unlinked(r)) /\ Goes(r, Unlinked(r))
<1> DEFINE h == req[r]
<1>1. h \in Session /\ Serves(h) /\ h.phase = "unlink" /\ h.call.op \in Unlinking
  BY ServesAll DEF TypeOK, Session, Unlink, Serves
<1>2. AfterUnlink(h.call.op) \in Phases
  BY DEF AfterUnlink, Phases
<1>3. Unlinked(r) \in Session
  BY <1>1, <1>2 DEF Unlinked, Session
<1>4. Serves(Unlinked(r))
  <2>1. h.call \in Calls /\ ~h.kill /\ ~h.moved /\ h.cols = {} /\ h.execs = NoExecs /\ h.ins = {}
    BY <1>1 DEF Serves, Session, Unlinking
  <2>2. \/ h.call.op = "remove" /\ AfterUnlink(h.call.op) = "commit"
        \/ h.call.op = "replace" /\ AfterUnlink(h.call.op) = "insert"
        \/ h.call.op \in Deleting /\ AfterUnlink(h.call.op) = "select"
    BY <1>1 DEF AfterUnlink, Unlinking, Deleting
  <2> HIDE DEF AfterUnlink
  <2>3. /\ Unlinked(r).phase = AfterUnlink(h.call.op) /\ Unlinked(r).call = h.call
        /\ Unlinked(r).target = {} /\ Unlinked(r).ins = {} /\ ~Unlinked(r).kill
        /\ ~Unlinked(r).moved /\ Unlinked(r).cols = {} /\ Unlinked(r).execs = NoExecs
    BY <1>1, <2>1 DEF Unlinked, Session
  <2> QED
    BY <1>1, <2>1, <2>2, <2>3 DEF Serves
<1>5. Goes(r, Unlinked(r))
  BY DEF Unlink, Unlinked, AfterUnlink
<1> QED
  BY <1>3, <1>4, <1>5

\* What is left in link row k is a case or nothing.
LEMMA LinkAfterType ==
    ASSUME TypeOK, NEW r \in Requests, NEW k \in Links
    PROVE  LinkAfter(r, k) \in Cases \cup {None}
<1>1. CASE \E p \in req[r].ins : p[1] = k
  <2>1. (CHOOSE p \in req[r].ins : p[1] = k) \in req[r].ins
    BY <1>1
  <2>2. req[r].ins \in SUBSET (Links \X Cases)
    BY DEF TypeOK
  <2>3. (CHOOSE p \in req[r].ins : p[1] = k)[2] \in Cases
    BY <2>1, <2>2
  <2> QED
    BY <1>1, <2>3 DEF LinkAfter
<1>2. CASE ~\E p \in req[r].ins : p[1] = k
  BY <1>2 DEF LinkAfter, TypeOK
<1> QED
  BY <1>1, <1>2

LEMMA CommitType ==
    ASSUME TypeOK, PhasesServeCalls, NEW r \in Requests, Commit(r), met' \in BOOLEAN
    PROVE  TypeOK' /\ PhasesServeCalls'
<1> DEFINE h == req[r]
<1>1. h \in Session /\ Serves(h) /\ h.phase = "commit" /\ h.call \in Calls
  BY ServesAll DEF TypeOK, Session, Commit, Serves
<1>2. gone' \in SUBSET Cases
  <2>1. h.kill => h.call.cases \in SUBSET Cases
    BY <1>1, CallFacts DEF Serves, Deleting
  <2> QED
    BY <2>1 DEF Commit, TypeOK
<1>3. link' \in [Links -> Cases \cup {None}]
  BY LinkAfterType DEF Commit
<1>4. h.moved \/ h.call.op = "move" => h.call.run \in Runs /\ h.call.status \in Statuses
  BY <1>1, CallFacts DEF Serves
<1>5. run' \in [Runs -> [status : Statuses, started : BOOLEAN, deleted : BOOLEAN]]
  <2>1. CASE ~h.moved
    BY <2>1 DEF Commit, TypeOK
  <2>2. CASE h.moved
    <3>1. run' = [run EXCEPT ![h.call.run] = RunAfter(r)]
      BY <2>2 DEF Commit
    <3>2. RunAfter(r) \in [status : Statuses, started : BOOLEAN, deleted : BOOLEAN]
      BY <1>4, <2>2 DEF RunAfter, LoadedRun, TypeOK
    <3> QED
      BY <3>1, <3>2 DEF TypeOK
  <2> QED
    BY <2>1, <2>2
<1>6. execs' \in [Runs -> [Cases -> Nat]]
  <2>1. \A t \in Runs : [c \in Cases |-> execs[t][c] + h.execs[c]] \in [Cases -> Nat]
    BY <1>1 DEF TypeOK, Session
  <2> QED
    BY <1>4, <2>1 DEF Commit, TypeOK
<1>7. req' \in [Requests -> Session] /\ \A q \in Requests : Serves(req'[q])
  BY IdleIsSession, ServesAll DEF Commit, TypeOK, Session
<1>8. cleared' \in SUBSET Runs /\ pushed' \in SUBSET Runs
  BY <1>4 DEF Commit, TypeOK
<1> QED
  BY <1>2, <1>3, <1>5, <1>6, <1>7, <1>8 DEF TypeOK, Session, PhasesServeCalls, Serves

\* Every step of a session is of one of five kinds.
LEMMA StepKinds ==
    ASSUME TypeOK, PhasesServeCalls, NEW r \in Requests, Step(r)
    PROVE  Quiet(r) \/ Ending(r) \/ InsertLinks(r) \/ Unlink(r) \/ Commit(r)
BY QuietSteps DEF Step

LEMMA NextType == TypeOK /\ PhasesServeCalls /\ [Next]_vars => TypeOK' /\ PhasesServeCalls'
<1> SUFFICES ASSUME TypeOK, PhasesServeCalls, [Next]_vars
             PROVE  TypeOK' /\ PhasesServeCalls'
  OBVIOUS
<1>1. CASE UNCHANGED vars
  BY <1>1 DEF vars, TypeOK, PhasesServeCalls
<1>2. ASSUME NEW r \in Requests, Step(r), met' \in BOOLEAN
      PROVE  TypeOK' /\ PhasesServeCalls'
  <2>1. ASSUME NEW h \in Session, Serves(h), Goes(r, h)
        PROVE  TypeOK' /\ PhasesServeCalls'
    BY <1>2, <2>1, GoesType DEF TypeOK, Session
  <2>2. CASE Quiet(r)
    BY <2>1, <2>2 DEF Quiet
  <2>3. CASE Ending(r)
    BY <2>1, <2>3, IdleIsSession, RollbackGoes DEF Ending
  <2>4. CASE InsertLinks(r)
    BY <2>1, <2>4, InsertStep
  <2>5. CASE Unlink(r)
    BY <2>1, <2>5, UnlinkStep
  <2>6. CASE Commit(r)
    BY <1>2, <2>6, CommitType
  <2> QED
    BY <1>2, <2>2, <2>3, <2>4, <2>5, <2>6, StepKinds
<1>3. CASE Next
  <2>1. met' \in BOOLEAN
    BY <1>3 DEF Next, TypeOK
  <2> QED
    BY <1>2, <1>3, <2>1 DEF Next
<1> QED
  BY <1>1, <1>3

\* A step of one session leaves the others as they are.
LEMMA OthersStay ==
    ASSUME TypeOK, PhasesServeCalls, NEW r \in Requests, Step(r)
    PROVE  \A q \in Requests \ {r} : req'[q] = req[q]
<1>1. CASE Quiet(r)
  BY <1>1, GoesType DEF Quiet
<1>2. CASE Ending(r)
  BY <1>2, IdleIsSession, RollbackGoes, GoesType DEF Ending
<1>3. CASE InsertLinks(r)
  BY <1>3, InsertStep, GoesType
<1>4. CASE Unlink(r)
  BY <1>4, UnlinkStep, GoesType
<1>5. CASE Commit(r)
  BY <1>5 DEF Commit, TypeOK
<1> QED
  BY <1>1, <1>2, <1>3, <1>4, <1>5, StepKinds

----------------------------------------------------------------------------
(* Starting a run *)

\* What a commit does to a run and its executions.
LEMMA CommitRun ==
    ASSUME TypeOK, PhasesServeCalls, NEW r \in Requests, Commit(r), NEW t \in Runs
    PROVE  /\ IF req[r].moved /\ t = req[r].call.run
              THEN run'[t] = RunAfter(r)
              ELSE run'[t] = run[t]
           /\ IF req[r].call.op = "move" /\ t = req[r].call.run
              THEN execs'[t] = [c \in Cases |-> execs[t][c] + req[r].execs[c]]
              ELSE execs'[t] = execs[t]
<1>1. run \in [Runs -> [status : Statuses, started : BOOLEAN, deleted : BOOLEAN]]
      /\ execs \in [Runs -> [Cases -> Nat]]
  BY DEF TypeOK
<1>2. IF req[r].moved THEN run' = [run EXCEPT ![req[r].call.run] = RunAfter(r)] ELSE run' = run
  BY DEF Commit
<1>3. IF req[r].call.op = "move"
      THEN execs' = [execs EXCEPT ![req[r].call.run] = [c \in Cases |-> @[c] + req[r].execs[c]]]
      ELSE execs' = execs
  BY DEF Commit
<1>4. IF req[r].moved /\ t = req[r].call.run THEN run'[t] = RunAfter(r) ELSE run'[t] = run[t]
  BY <1>1, <1>2
<1>5. IF req[r].call.op = "move" /\ t = req[r].call.run
      THEN execs'[t] = [c \in Cases |-> execs[t][c] + req[r].execs[c]]
      ELSE execs'[t] = execs[t]
  BY <1>1, <1>3
<1> QED
  BY <1>4, <1>5

LEMMA RunAfterFields ==
    ASSUME NEW r \in Requests, NEW t, t = req[r].call.run
    PROVE  /\ RunAfter(r).status = IF "status" \in req[r].cols THEN req[r].call.status ELSE run[t].status
           /\ RunAfter(r).started <=> \/ "stamp" \in req[r].cols
                                     \/ (run[t].started /\ "clear" \notin req[r].cols)
           /\ RunAfter(r).deleted <=> (run[t].deleted \/ "delete" \in req[r].cols)
<1> DEFINE status == IF "status" \in req[r].cols THEN req[r].call.status ELSE run[t].status
           started == "stamp" \in req[r].cols \/ (run[t].started /\ "clear" \notin req[r].cols)
           deleted == run[t].deleted \/ "delete" \in req[r].cols
<1>1. RunAfter(r) = [status |-> status, started |-> started, deleted |-> deleted]
  BY DEF RunAfter, LoadedRun
<1> HIDE DEF status, started, deleted
<1>2. RunAfter(r).status = status /\ RunAfter(r).started = started /\ RunAfter(r).deleted = deleted
  BY <1>1
<1> QED
  BY <1>2, Zenon DEF status, started, deleted

\* No commit undoes a deletion, and only a PUT takes a start time away.
HistoryKept == cleared \subseteq cleared' /\ pushed \subseteq pushed'

Kept(t) == /\ run[t].deleted => run'[t].deleted
           /\ run[t].started => run'[t].started \/ t \in cleared'

LEMMA CommitKeeps ==
    ASSUME TypeOK, PhasesServeCalls, NEW r \in Requests, Commit(r)
    PROVE  HistoryKept /\ \A t \in Runs : Kept(t)
<1>1. cleared \subseteq cleared' /\ pushed \subseteq pushed'
  BY DEF Commit
<1>2. ASSUME NEW t \in Runs
      PROVE  /\ run[t].deleted => run'[t].deleted
             /\ run[t].started => run'[t].started \/ t \in cleared'
  <2>1. CASE run'[t] = run[t]
    BY <2>1
  <2>2. CASE req[r].moved /\ t = req[r].call.run /\ run'[t] = RunAfter(r)
    <3>1. /\ RunAfter(r).deleted <=> (run[t].deleted \/ "delete" \in req[r].cols)
          /\ RunAfter(r).started <=> \/ "stamp" \in req[r].cols
                                    \/ (run[t].started /\ "clear" \notin req[r].cols)
      BY <2>2, RunAfterFields, Zenon
    <3>2. "clear" \in req[r].cols => t \in cleared'
      BY <2>2 DEF Commit
    <3> QED
      BY <2>2, <3>1, <3>2
  <2> QED
    BY <2>1, <2>2, CommitRun
<1> QED
  BY <1>1, <1>2, Zenon DEF HistoryKept, Kept

\* Only a commit touches runs and executions.
LEMMA RunsStay ==
    ASSUME TypeOK, PhasesServeCalls, NEW r \in Requests, Step(r), ~Commit(r)
    PROVE  UNCHANGED <<gone, link, run, execs, cleared, pushed>>
<1>1. CASE Quiet(r)
  BY <1>1, GoesType DEF Quiet
<1>2. CASE Ending(r)
  BY <1>2 DEF Ending, Rollback
<1>3. CASE InsertLinks(r)
  BY <1>3, InsertStep, GoesType
<1>4. CASE Unlink(r)
  BY <1>4, UnlinkStep, GoesType
<1> QED
  BY <1>1, <1>2, <1>3, <1>4, StepKinds

\* Adding no executions changes nothing.
LEMMA NothingAdded ==
    ASSUME NEW f \in [Cases -> Nat]
    PROVE  [c \in Cases |-> f[c] + NoExecs[c]] = f
BY DEF NoExecs

LEMMA StepExecutions ==
    ASSUME TypeOK, PhasesServeCalls, OnlyDeletedRunsAreSkipped, ExecutionsComeWithTheStart,
           NEW r \in Requests, Step(r)
    PROVE  ExecutionsComeWithTheStart'
<1>1. CASE ~Commit(r)
  BY <1>1, RunsStay DEF ExecutionsComeWithTheStart
<1>2. CASE Commit(r)
  <2> SUFFICES ASSUME NEW t \in Runs, ~run'[t].started, ~run'[t].deleted, t \notin cleared'
               PROVE  execs'[t] = NoExecs
    BY DEF ExecutionsComeWithTheStart
  <2>1. Serves(req[r]) /\ req[r].phase = "commit"
    BY <1>2, ServesAll DEF Commit
  <2>2. ~run[t].started /\ ~run[t].deleted /\ t \notin cleared
    <3>1. HistoryKept /\ Kept(t)
      BY <1>2, CommitKeeps
    <3> QED
      BY <3>1, Zenon DEF HistoryKept, Kept
  <2>3. execs[t] = NoExecs /\ execs[t] \in [Cases -> Nat]
    BY <2>2 DEF ExecutionsComeWithTheStart, TypeOK
  <2>4. CASE execs'[t] = execs[t]
    BY <2>3, <2>4
  <2>5. CASE /\ req[r].call.op = "move" /\ t = req[r].call.run
             /\ execs'[t] = [c \in Cases |-> execs[t][c] + req[r].execs[c]]
    <3>1. req[r].moved
      BY <2>1, <2>2, <2>5 DEF OnlyDeletedRunsAreSkipped, LoadedRun
    <3>2. run'[t] = RunAfter(r)
      BY <1>2, <2>5, <3>1, CommitRun
    <3>3. "stamp" \notin req[r].cols
      BY <2>5, <3>2, RunAfterFields, Zenon
    <3>4. req[r].execs = NoExecs
      BY <2>1, <3>3 DEF Serves
    <3> QED
      BY <2>3, <2>5, <3>4, NothingAdded
  <2> QED
    BY <1>2, <2>4, <2>5, CommitRun
<1> QED
  BY <1>1, <1>2

\* OnlyDeletedRunsAreSkipped and StartsAreStamped, for a session like g.
Moving(g) ==
    g.call.op = "move" =>
        /\ g.phase = "commit" /\ ~g.moved => run[g.call.run].deleted
        /\ g.phase \in {"expand", "reselect", "write", "commit"}
               /\ g.call.status # "Not Started" =>
           \/ "stamp" \in g.cols \/ run[g.call.run].started
           \/ g.call.run \in cleared \cup pushed

LEMMA MovingAll ==
    (OnlyDeletedRunsAreSkipped /\ StartsAreStamped) <=> \A r \in Requests : Moving(req[r])
BY DEF OnlyDeletedRunsAreSkipped, StartsAreStamped, Moving, LoadedRun

\* Every step leaves a run that moves on with a start time, in the table or in
\* the session that moves it.
LEMMA StepStamped ==
    ASSUME TypeOK, PhasesServeCalls, OnlyDeletedRunsAreSkipped, StartsAreStamped,
           ActiveRunsAreStarted, NEW r \in Requests, Step(r)
    PROVE  OnlyDeletedRunsAreSkipped' /\ StartsAreStamped' /\ ActiveRunsAreStarted'
<1> DEFINE h == req[r]
           Goal == OnlyDeletedRunsAreSkipped' /\ StartsAreStamped' /\ ActiveRunsAreStarted'
<1>1. h \in Session /\ Serves(h) /\ Moving(h)
  BY ServesAll, MovingAll DEF TypeOK, Session
<1>2. \A q \in Requests \ {r} : req'[q] = req[q] /\ Moving(req[q])
  BY OthersStay, MovingAll
<1> SUFFICES Goal
  OBVIOUS
<1>3. CASE Commit(r)
  <2>1. req'[r].phase = "idle"
    BY <1>3 DEF Commit, TypeOK, Idle
  <2>2. ASSUME NEW q \in Requests, q # r
        PROVE  /\ req[q].call.op = "move" /\ req[q].phase = "commit" /\ ~req[q].moved =>
                      run'[req[q].call.run].deleted
               /\ req[q].call.op = "move" /\ req[q].phase \in {"expand", "reselect", "write", "commit"}
                      /\ req[q].call.status # "Not Started" =>
                  \/ "stamp" \in req[q].cols \/ run'[req[q].call.run].started
                  \/ req[q].call.run \in cleared' \cup pushed'
    <3>1. req[q].phase # "idle" /\ req[q].call.op = "move" => req[q].call.run \in Runs
      BY CallFacts, ServesAll DEF Serves
    <3>2. Moving(req[q])
      BY <1>2, <2>2
    <3> DEFINE t == req[q].call.run
    <3>3. HistoryKept /\ (t \in Runs => Kept(t))
      BY <1>3, CommitKeeps
    <3>4. t \in cleared \cup pushed => t \in cleared' \cup pushed'
      BY <3>3 DEF HistoryKept
    <3> QED
      BY <3>1, <3>2, <3>3, <3>4, Zenon DEF Moving, Kept
  <2>3. OnlyDeletedRunsAreSkipped' /\ StartsAreStamped'
    BY <1>2, <2>1, <2>2 DEF OnlyDeletedRunsAreSkipped, StartsAreStamped, LoadedRun
  <2>4. ASSUME NEW t \in Runs, run'[t].status # "Not Started"
        PROVE  run'[t].started \/ t \in cleared' \cup pushed'
    <3>1. CASE run'[t] = run[t]
      <4>1. run[t].started \/ t \in cleared \cup pushed
        BY <2>4, <3>1 DEF ActiveRunsAreStarted
      <4>2. HistoryKept
        BY <1>3, CommitKeeps
      <4> QED
        BY <3>1, <4>1, <4>2 DEF HistoryKept
    <3>2. CASE h.moved /\ t = h.call.run /\ run'[t] = RunAfter(r)
      <4>1. /\ RunAfter(r).status = IF "status" \in h.cols THEN h.call.status ELSE run[t].status
            /\ RunAfter(r).started <=> \/ "stamp" \in h.cols
                                      \/ (run[t].started /\ "clear" \notin h.cols)
        BY <3>2, RunAfterFields, Zenon
      <4>2. "clear" \in h.cols => t \in cleared'
        BY <1>3, <3>2 DEF Commit
      <4>3. h.call.op \in {"move", "put"} /\ h.phase = "commit"
        BY <1>1, <3>2 DEF Serves
      <4>4. CASE "status" \notin h.cols
        <5>1. run[t].started \/ t \in cleared \cup pushed
          BY <2>4, <3>2, <4>1, <4>4 DEF ActiveRunsAreStarted
        <5>2. HistoryKept /\ Kept(t)
          BY <1>3, CommitKeeps
        <5> QED
          BY <5>1, <5>2, Zenon DEF HistoryKept, Kept
      <4>5. CASE "status" \in h.cols /\ h.call.op = "put"
        BY <1>3, <2>4, <3>2, <4>1, <4>5 DEF Commit
      <4>6. CASE "status" \in h.cols /\ h.call.op = "move"
        <5>1. "stamp" \in h.cols \/ run[t].started \/ t \in cleared \cup pushed
          BY <1>1, <2>4, <3>2, <4>1, <4>3, <4>6 DEF Moving
        <5>2. HistoryKept
          BY <1>3, CommitKeeps
        <5>3. t \in cleared \cup pushed => t \in cleared' \cup pushed'
          BY <5>2 DEF HistoryKept
        <5>4. RunAfter(r).started \/ t \in cleared' \cup pushed'
          BY <4>1, <4>2, <5>1, <5>3
        <5> QED
          BY <3>2, <5>4, Zenon
      <4> QED
        BY <4>3, <4>4, <4>5, <4>6
    <3> QED
      BY <1>3, <3>1, <3>2, CommitRun
  <2> QED
    BY <2>3, <2>4 DEF ActiveRunsAreStarted
<1>4. ASSUME ~Commit(r), NEW g, req'[r] = g, Moving(g)
      PROVE  Goal
  <2>1. run' = run /\ cleared' = cleared /\ pushed' = pushed
    BY <1>4, RunsStay
  <2>2. \A q \in Requests : Moving(req'[q])
    BY <1>2, <1>4
  <2> QED
    BY <2>1, <2>2 DEF OnlyDeletedRunsAreSkipped, StartsAreStamped, ActiveRunsAreStarted, Moving,
                      LoadedRun
<1>5. ASSUME NEW g \in Session, Serves(g), Goes(r, g), Moving(g)
      PROVE  Goal
  BY <1>3, <1>4, <1>5, GoesType
<1>6. ASSUME NEW call \in Calls, Start(r, call)
      PROVE  Goal
  <2> DEFINE g == [Idle("none") EXCEPT !.phase = "open", !.call = call]
  <2>1. req'[r] = g /\ g.phase = "open"
    BY <1>6 DEF Start, Goes, Idle, TypeOK
  <2>2. Moving(g)
    BY <2>1 DEF Moving
  <2> QED
    BY <1>3, <1>4, <2>1, <2>2
<1>7. CASE Ending(r)
  <2>1. PICK answer \in {"none", "200", "4xx", "500"} : Goes(r, Idle(answer))
    BY <1>7, RollbackGoes DEF Ending
  <2>2. Moving(Idle(answer))
    BY DEF Idle, Moving
  <2> QED
    BY <1>5, <2>1, <2>2, IdleIsSession
<1>8. CASE InsertLinks(r)
  <2>1. PICK ks \in SUBSET FreeLinks : \E f \in [ks -> h.call.cases] :
            Inserting(r, ks, f) \in Session /\ Serves(Inserting(r, ks, f))
            /\ Goes(r, Inserting(r, ks, f))
    BY <1>8, InsertStep
  <2>2. PICK f \in [ks -> h.call.cases] :
            Inserting(r, ks, f) \in Session /\ Serves(Inserting(r, ks, f))
            /\ Goes(r, Inserting(r, ks, f))
    BY <2>1
  <2>3. Inserting(r, ks, f).call = h.call /\ h.call.op # "move"
    BY <1>1, <1>8 DEF Inserting, Session, InsertLinks, At
  <2>4. Moving(Inserting(r, ks, f))
    BY <2>3 DEF Moving
  <2> QED
    BY <1>5, <2>2, <2>4
<1>9. CASE Unlink(r)
  <2>1. Unlinked(r).call = h.call /\ h.call.op # "move"
    BY <1>1, <1>9 DEF Unlinked, Unlink, Session, Serves, Unlinking
  <2>2. Moving(Unlinked(r))
    BY <2>1 DEF Moving
  <2> QED
    BY <1>5, <1>9, <2>2, UnlinkStep
<1>10. ASSUME req'[r].call = h.call, h.call.op # "move", ~Commit(r)
       PROVE  Goal
  <2>1. Moving(req'[r])
    BY <1>10 DEF Moving
  <2> QED
    BY <1>4, <1>10, <2>1
<1>11. CASE AddCheck(r) \/ BeginUnlink(r) \/ SelectCase(r) \/ KillCase(r) \/ LoadPut(r)
  <2>1. h.call.op # "move"
    BY <1>11 DEF AddCheck, BeginUnlink, SelectCase, KillCase, LoadPut, At
  <2>2. Ending(r) \/ req'[r].call = h.call
    <3>1. CASE AddCheck(r)
      BY <1>1, <3>1 DEF AddCheck, Goes, Ending, Session, TypeOK
    <3>2. CASE BeginUnlink(r)
      BY <1>1, <3>2 DEF BeginUnlink, Goes, Session, TypeOK
    <3>3. CASE SelectCase(r)
      <4>1. Ending(r) \/ \E phase \in {"kill", "commit"} : Goes(r, [h EXCEPT !.phase = phase])
        BY <3>3 DEF SelectCase, Ending
      <4>2. ASSUME NEW phase \in {"kill", "commit"}, Goes(r, [h EXCEPT !.phase = phase])
            PROVE  req'[r].call = h.call
        BY <1>1, <4>2 DEF Goes, Session, TypeOK
      <4> QED
        BY <4>1, <4>2
    <3>4. CASE KillCase(r)
      BY <1>1, <3>4 DEF KillCase, Goes, Session, TypeOK
    <3>5. CASE LoadPut(r)
      <4> DEFINE changed == {x \in h.call.cols :
                                /\ x = "status" => h.call.status # LoadedRun(r).status
                                /\ x = "clear" => LoadedRun(r).started}
                 phase == IF changed = {} THEN "commit" ELSE "write"
                 g == [h EXCEPT !.phase = phase, !.cols = changed]
      <4>1. Rollback(r, "4xx") \/ Goes(r, g)
        BY <3>5 DEF LoadPut
      <4> HIDE DEF phase, changed
      <4>2. g.call = h.call
        BY <1>1 DEF Session
      <4>3. Goes(r, g) => req'[r] = g
        BY DEF Goes, TypeOK
      <4> QED
        BY <4>1, <4>2, <4>3 DEF Ending
    <3> QED
      BY <1>11, <3>1, <3>2, <3>3, <3>4, <3>5
  <2> QED
    BY <1>3, <1>7, <1>10, <2>1, <2>2
<1>12. CASE LoadRun(r)
  <2>1. CASE Rollback(r, "4xx")
    BY <1>7, <2>1 DEF Ending
  <2>2. CASE ~Rollback(r, "4xx")
    <3> DEFINE phase == IF Starts(r) THEN "expand" ELSE "reselect"
               cols == {"status"} \cup (IF Stamps(r) THEN {"stamp"} ELSE {})
               g == [h EXCEPT !.phase = phase, !.cols = cols]
    <3>1. h.phase = "open" /\ Goes(r, g) /\ ~Refused(r) /\ h.call.op = "move"
      BY <1>12, <2>2 DEF LoadRun, At
    <3>2. h.call.run \in Runs /\ h.call.status \in Statuses
          /\ run[h.call.run].started \in BOOLEAN /\ run[h.call.run].status \in Statuses
      BY <1>1, <3>1, CallFacts DEF Serves, TypeOK
    <3>3. g.cols = cols /\ g.call = h.call /\ g.phase = phase
      BY <1>1 DEF Session
    <3>4. h.call.status \in AllowedFrom(run[h.call.run].status)
      BY <3>1 DEF Refused, LoadedRun
    <3>5. h.call.status = "Blocked" => run[h.call.run].status = "In Progress"
      BY <3>2, <3>4 DEF AllowedFrom, Statuses
    <3>6. h.call.status # "Not Started" =>
              "stamp" \in cols \/ run[h.call.run].started \/ h.call.run \in cleared \cup pushed
      <4>1. CASE h.call.status = "Blocked"
        BY <3>2, <3>5, <4>1 DEF ActiveRunsAreStarted
      <4>2. CASE h.call.status \in {"In Progress", "Completed", "Cancelled"}
        BY <4>2 DEF Stamps, LoadedRun
      <4> QED
        BY <3>2, <4>1, <4>2 DEF Statuses
    <3>7. phase # "commit"
      OBVIOUS
    <3>8. req'[r] = g
      BY <3>1 DEF Goes, TypeOK
    <3> HIDE DEF g, cols, phase
    <3>9. Moving(g)
      BY <3>3, <3>6, <3>7 DEF Moving
    <3> QED
      BY <1>3, <1>4, <3>8, <3>9
  <2> QED
    BY <2>1, <2>2
<1>13. CASE Expand(r) \/ Reselect(r) \/ WriteRun(r)
  <2>1. PICK g : /\ Goes(r, g) /\ g.call = h.call /\ g.cols = h.cols
                 /\ h.phase \in {"expand", "reselect", "write"}
                 /\ g.phase = "commit" /\ ~g.moved => run[h.call.run].deleted
    <3>1. CASE Expand(r)
      <4> DEFINE counted == [c \in Cases |-> Cardinality(LinksOf(r, {c}))]
                 g == [h EXCEPT !.phase = "reselect", !.execs = counted]
      <4>1. Goes(r, g) /\ h.phase = "expand"
        BY <3>1 DEF Expand, At
      <4> HIDE DEF counted
      <4>2. g.call = h.call /\ g.cols = h.cols /\ g.phase = "reselect"
        BY <1>1 DEF Session
      <4> HIDE DEF g
      <4> QED
        BY <4>1, <4>2
    <3>2. CASE WriteRun(r)
      <4> DEFINE g == [h EXCEPT !.phase = "commit", !.moved = TRUE]
      <4>1. Goes(r, g) /\ h.phase = "write"
        BY <3>2 DEF WriteRun
      <4>2. g.call = h.call /\ g.cols = h.cols /\ g.moved
        BY <1>1 DEF Session
      <4> HIDE DEF g
      <4> QED
        BY <4>1, <4>2
    <3>3. CASE Reselect(r)
      <4> DEFINE phase == IF LoadedRun(r).deleted THEN "commit" ELSE "write"
                 g == [h EXCEPT !.phase = phase]
      <4>1. Goes(r, g) /\ h.phase = "reselect"
        BY <3>3 DEF Reselect, At
      <4>2. g.call = h.call /\ g.cols = h.cols /\ g.phase = phase
        BY <1>1 DEF Session
      <4>3. phase = "commit" => run[h.call.run].deleted
        BY DEF LoadedRun
      <4> HIDE DEF phase, g
      <4> QED
        BY <4>1, <4>2, <4>3
    <3> QED
      BY <1>13, <3>1, <3>2, <3>3
  <2>2. req'[r] = g
    BY <2>1 DEF Goes, TypeOK
  <2>3. Moving(g)
    BY <1>1, <2>1 DEF Moving
  <2> QED
    BY <1>3, <1>4, <2>2, <2>3
<1>14. CASE Crash(r)
  BY <1>7, <1>14 DEF Crash, Ending
<1> QED
  BY <1>3, <1>6, <1>8, <1>9, <1>11, <1>12, <1>13, <1>14 DEF Step

----------------------------------------------------------------------------
(* One request at a time *)

OneLink == \A j, k \in Links : link[j] = link[k] /\ link[j] # None => j = k

\* AloneSessionsAreRight for one session, apart from the others being idle.
Right(r) ==
    LET h == req[r] IN
    /\ OneLinkAfter(r)
    /\ h.phase = "unlink" /\ h.call.op = "replace" => {k \in Links : link[k] # None} \subseteq h.target
    /\ h.phase = "insert" => \A k \in Links : LinkAfter(r, k) \notin h.call.cases
    /\ h.phase = "expand" \/ h.execs # NoExecs =>
           ~run[h.call.run].started /\ ~run[h.call.run].deleted
    /\ \A c \in Cases : h.execs[c] <= 1

\* Sessions that met nobody meet nobody in the step before, either, and the
\* others are idle.
LEMMA AloneOthers ==
    ASSUME TypeOK, PhasesServeCalls, AloneSessionsAreRight, NEW r \in Requests, Step(r),
           met' = (met \/ \E q, s \in Requests :
                       q # s /\ req'[q].phase # "idle" /\ req'[s].phase # "idle"),
           ~met'
    PROVE  /\ ~met
           /\ \A q \in Requests \ {r} : req'[q] = req[q] /\ req[q].phase = "idle"
<1>1. ~met /\ \A q \in Requests \ {r} : req'[q] = req[q]
  BY OthersStay
<1>2. CASE req[r].phase # "idle"
  BY <1>1, <1>2 DEF AloneSessionsAreRight
<1>3. CASE req[r].phase = "idle"
  <2>1. PICK call \in Calls : Start(r, call)
    BY <1>3 DEF Step, AddCheck, InsertLinks, BeginUnlink, Unlink, SelectCase, KillCase,
                LoadRun, Expand, Reselect, LoadPut, WriteRun, Commit, Crash, At
  <2>2. req'[r].phase = "open"
    BY <2>1 DEF Start, Goes, Idle, TypeOK
  <2> QED
    BY <1>1, <2>2
<1> QED
  BY <1>2, <1>3, <1>1

\* An idle session leaves the links as they are.
LEMMA IdleIsRight ==
    ASSUME OneLink, NEW r \in Requests, Serves(req[r]), req[r].phase = "idle"
    PROVE  Right(r)
<1>1. req[r].del = {} /\ req[r].ins = {} /\ req[r].execs = NoExecs
  BY DEF Serves, Idle
<1>2. \A k \in Links : LinkAfter(r, k) = link[k]
  BY <1>1 DEF LinkAfter
<1> QED
  BY <1>1, <1>2 DEF Right, OneLinkAfter, OneLink, NoExecs

\* A session that has flushed nothing leaves the links as they are.
LEMMA NothingFlushed ==
    ASSUME NEW r \in Requests, req[r].del = {}, req[r].ins = {}
    PROVE  /\ \A k \in Links : LinkAfter(r, k) = link[k]
           /\ Visible(r) = {k \in Links : link[k] # None}
           /\ \A cs : LinksOf(r, cs) = {k \in Links : link[k] # None /\ link[k] \in cs}
BY DEF LinkAfter, Visible, LinksOf, CaseOf

\* In a set of links, each of another case, one case has at most one.
LEMMA AtMostOne ==
    ASSUME NEW S, \A j, k \in S : j = k
    PROVE  Cardinality(S) <= 1
<1>1. CASE S = {}
  BY <1>1, FS_EmptySet
<1>2. ASSUME NEW x \in S
      PROVE  Cardinality(S) <= 1
  <2>1. S = {x}
    OBVIOUS
  <2> QED
    BY <2>1, FS_Singleton
<1> QED
  BY <1>1, <1>2

\* A quiet step of a lone session keeps it right, if its phase is.
LEMMA QuietRight ==
    ASSUME TypeOK, NEW r \in Requests, Right(r), link' = link, run' = run,
           req'[r].del = req[r].del, req'[r].ins = req[r].ins, req'[r].execs = req[r].execs,
           req'[r].call = req[r].call,
           req'[r].phase \notin {"unlink", "insert", "expand"}
    PROVE  Right(r)'
<1>1. \A k \in Links : LinkAfter(r, k)' = LinkAfter(r, k)
  BY DEF LinkAfter
<1> QED
  BY <1>1 DEF Right, OneLinkAfter

\* The steps of add_test_case, and of the others up to their DELETE.
LEMMA LinkStepsRight ==
    ASSUME TypeOK, PhasesServeCalls, NEW r \in Requests, Right(r), OneLink,
           AddCheck(r) \/ BeginUnlink(r) \/ Unlink(r) \/ InsertLinks(r)
    PROVE  Right(r)' \/ Ending(r)
<1> DEFINE h == req[r]
<1>1. h \in Session /\ Serves(h) /\ req \in [Requests -> Session]
  BY ServesAll DEF TypeOK, Session
<1>2. h.phase # "idle" /\ h.call.op \notin {"move", "put"} => h.call.cases \in SUBSET Cases
  BY <1>1, CallFacts DEF Serves
<1>3. CASE AddCheck(r)
  <2>1. h.phase = "open" /\ h.call.op = "add" /\ h.del = {} /\ h.ins = {}
        /\ h.execs = NoExecs
    BY <1>1, <1>3 DEF AddCheck, At, Serves
  <2> DEFINE existing == Cardinality(LinksOf(r, h.call.cases))
  <2>2. existing \in Nat /\ IsFiniteSet(LinksOf(r, h.call.cases))
    BY VisibleFacts
  <2>3. CASE existing > 1
    BY <1>3, <2>3 DEF AddCheck, Ending
  <2>4. CASE existing = 1
    <3>1. req' = [req EXCEPT ![r] = [h EXCEPT !.phase = "commit"]] /\ link' = link /\ run' = run
      BY <1>3, <2>4 DEF AddCheck, Goes
    <3>2. req'[r] = [h EXCEPT !.phase = "commit"]
      BY <1>1, <3>1
    <3>3. req'[r].del = h.del /\ req'[r].ins = h.ins /\ req'[r].execs = h.execs
          /\ req'[r].call = h.call /\ req'[r].phase = "commit"
      BY <1>1, <3>2 DEF Session
    <3> QED
      BY <3>1, <3>3, QuietRight
  <2>5. CASE existing = 0
    <3>1. req' = [req EXCEPT ![r] = [h EXCEPT !.phase = "insert"]] /\ link' = link /\ run' = run
      BY <1>3, <2>5 DEF AddCheck, Goes
    <3>2. req'[r] = [h EXCEPT !.phase = "insert"]
      BY <1>1, <3>1
    <3>3. req'[r].del = {} /\ req'[r].ins = {} /\ req'[r].execs = NoExecs
          /\ req'[r].call = h.call /\ req'[r].phase = "insert"
      BY <1>1, <2>1, <3>2 DEF Session
    <3>4. LinksOf(r, h.call.cases) = {}
      BY <2>2, <2>5, FS_EmptySet
    <3>5. \A k \in Links : link[k] \notin h.call.cases
      BY <1>2, <2>1, <3>4, NothingFlushed, NoneAssumption
    <3>6. \A k \in Links : LinkAfter(r, k)' = link[k]
      BY <3>1, <3>3 DEF LinkAfter
    <3> QED
      BY <3>3, <3>5, <3>6 DEF Right, OneLinkAfter, OneLink, NoExecs
  <2> QED
    BY <2>2, <2>3, <2>4, <2>5
<1>4. CASE BeginUnlink(r)
  <2>1. h.phase = "open" /\ h.del = {} /\ h.ins = {} /\ h.execs = NoExecs
    BY <1>1, <1>4 DEF BeginUnlink, At, Serves
  <2>2. req'[r] = [h EXCEPT !.phase = "unlink",
                       !.target = IF h.call.op = "replace" THEN Visible(r)
                                  ELSE LinksOf(r, h.call.cases)]
        /\ link' = link /\ run' = run
    BY <1>1, <1>4 DEF BeginUnlink, Goes
  <2>3. /\ req'[r].del = {} /\ req'[r].ins = {} /\ req'[r].execs = NoExecs
        /\ req'[r].call = h.call /\ req'[r].phase = "unlink"
        /\ h.call.op = "replace" => req'[r].target = Visible(r)
    BY <1>1, <2>1, <2>2 DEF Session
  <2>4. \A k \in Links : LinkAfter(r, k)' = link[k]
    BY <2>2, <2>3 DEF LinkAfter
  <2>5. Visible(r) = {k \in Links : link[k] # None}
    BY <2>1, NothingFlushed
  <2> QED
    BY <2>2, <2>3, <2>4, <2>5 DEF Right, OneLinkAfter, OneLink, NoExecs
<1>5. CASE Unlink(r)
  <2>1. h.phase = "unlink" /\ h.ins = {} /\ h.execs = NoExecs /\ h.call.op \in Unlinking
    BY <1>1, <1>5 DEF Unlink, Serves
  <2>2. req'[r] = Unlinked(r) /\ link' = link /\ run' = run
    BY <1>5, UnlinkStep, GoesType
  <2>3. /\ req'[r].del = {k \in h.target : link[k] # None} /\ req'[r].ins = {}
        /\ req'[r].execs = NoExecs /\ req'[r].call = h.call
        /\ req'[r].phase = AfterUnlink(h.call.op)
    BY <1>1, <2>1, <2>2 DEF Unlinked, Session
  <2>4. \A k \in Links : LinkAfter(r, k)' = IF k \in h.target THEN None ELSE link[k]
    BY <2>2, <2>3 DEF LinkAfter
  <2>5. AfterUnlink(h.call.op) = "insert" =>
            /\ h.call.op = "replace" /\ h.call.cases \in SUBSET Cases
            /\ \A k \in Links : LinkAfter(r, k)' = None
    <3>1. AfterUnlink(h.call.op) = "insert" => h.call.op = "replace"
      BY <2>1 DEF AfterUnlink
    <3> QED
      BY <1>2, <2>1, <2>4, <3>1 DEF Right
  <2>6. AfterUnlink(h.call.op) \in {"commit", "insert", "select"}
    BY DEF AfterUnlink
  <2> QED
    BY <2>2, <2>3, <2>4, <2>5, <2>6, NoneAssumption
       DEF Right, OneLinkAfter, OneLink, NoExecs
<1>6. CASE InsertLinks(r)
  <2>1. h.phase = "insert" /\ h.call.op \in {"add", "replace"} /\ h.ins = {} /\ h.execs = NoExecs
        /\ h.call.cases \in SUBSET Cases
    BY <1>1, <1>2, <1>6 DEF InsertLinks, At, Serves
  <2>2. PICK ks \in SUBSET FreeLinks : \E f \in [ks -> h.call.cases] :
            /\ \A j, k \in ks : f[j] = f[k] => j = k
            /\ Inserting(r, ks, f) \in Session /\ Serves(Inserting(r, ks, f))
            /\ Goes(r, Inserting(r, ks, f))
    BY <1>6, InsertStep
  <2>3. PICK f \in [ks -> h.call.cases] :
            /\ \A j, k \in ks : f[j] = f[k] => j = k
            /\ Inserting(r, ks, f) \in Session /\ Serves(Inserting(r, ks, f))
            /\ Goes(r, Inserting(r, ks, f))
    BY <2>2
  <2>4. req'[r] = Inserting(r, ks, f) /\ link' = link /\ run' = run
    BY <2>3, GoesType
  <2>5. /\ req'[r].del = h.del /\ req'[r].ins = {<<k, f[k]>> : k \in ks}
        /\ req'[r].execs = NoExecs /\ req'[r].phase = "commit"
    BY <1>1, <2>1, <2>4 DEF Inserting, Session
  <2>6. \A k \in ks : k \notin h.del
    BY DEF FreeLinks
  <2>7. ASSUME NEW k \in ks
        PROVE  LinkAfter(r, k)' = f[k]
    <3>1. <<k, f[k]>> \in req'[r].ins /\ \A p \in req'[r].ins : p[1] = k => p = <<k, f[k]>>
      BY <2>5
    <3>2. (CHOOSE p \in req'[r].ins : p[1] = k) = <<k, f[k]>>
      BY <3>1
    <3> QED
      BY <2>5, <2>6, <3>1, <3>2 DEF LinkAfter
  <2>8. ASSUME NEW k \in Links \ ks
        PROVE  LinkAfter(r, k)' = LinkAfter(r, k)
    <3>1. ~\E p \in req'[r].ins : p[1] = k
      BY <2>5
    <3> QED
      BY <2>1, <2>4, <2>5, <3>1 DEF LinkAfter
  <2>9. \A k \in Links : LinkAfter(r, k) \notin h.call.cases
    BY <2>1 DEF Right
  <2>10. OneLinkAfter(r)'
    <3> SUFFICES ASSUME NEW j \in Links, NEW k \in Links,
                        LinkAfter(r, j)' = LinkAfter(r, k)', LinkAfter(r, j)' # None
                 PROVE  j = k
      BY DEF OneLinkAfter
    <3>1. CASE j \in ks /\ k \in ks
      BY <2>3, <2>7, <3>1
    <3>2. CASE j \in ks /\ k \notin ks
      BY <2>7, <2>8, <2>9, <3>2
    <3>3. CASE j \notin ks /\ k \in ks
      BY <2>7, <2>8, <2>9, <3>3
    <3>4. CASE j \notin ks /\ k \notin ks
      BY <2>8, <3>4 DEF Right, OneLinkAfter
    <3> QED
      BY <3>1, <3>2, <3>3, <3>4
  <2> QED
    BY <2>5, <2>10 DEF Right, NoExecs
<1> QED
  BY <1>3, <1>4, <1>5, <1>6

\* The other steps of a handler before its COMMIT.
LEMMA RunStepsRight ==
    ASSUME TypeOK, PhasesServeCalls, NEW r \in Requests, Right(r), OneLink,
           \/ \E call \in Calls : Start(r, call)
           \/ SelectCase(r) \/ KillCase(r)
           \/ LoadRun(r) \/ Expand(r) \/ Reselect(r) \/ LoadPut(r) \/ WriteRun(r)
    PROVE  Right(r)' \/ Ending(r)
<1> DEFINE h == req[r]
<1>1. h \in Session /\ Serves(h) /\ req \in [Requests -> Session]
  BY ServesAll DEF TypeOK, Session
<1>2. ASSUME NEW g \in Session, Goes(r, g), g.del = h.del, g.ins = h.ins, g.execs = h.execs,
             g.call = h.call, g.phase \notin {"unlink", "insert", "expand"}
      PROVE  Right(r)'
  BY <1>1, <1>2, QuietRight DEF Goes
<1>3. ASSUME NEW call \in Calls, Start(r, call)
      PROVE  Right(r)'
  <2>1. h.phase = "idle" /\ h.del = {} /\ h.ins = {}
    BY <1>1, <1>3 DEF Start, Serves, Idle
  <2>2. /\ req'[r].phase = "open" /\ req'[r].del = {} /\ req'[r].ins = {}
        /\ req'[r].execs = NoExecs /\ link' = link /\ run' = run
    BY <1>1, <1>3 DEF Start, Goes, Idle
  <2>3. \A k \in Links : LinkAfter(r, k)' = link[k]
    BY <2>2 DEF LinkAfter
  <2> QED
    BY <2>2, <2>3 DEF Right, OneLinkAfter, OneLink, NoExecs
<1>4. CASE SelectCase(r) \/ LoadPut(r) \/ Reselect(r)
  <2>1. Ending(r) \/ \E phase \in {"kill", "commit", "write"}, cols \in SUBSET (Columns \cup {"stamp"}) :
                        Goes(r, [h EXCEPT !.phase = phase, !.cols = cols])
    <3>1. CASE SelectCase(r)
      <4>1. Ending(r) \/ \E phase \in {"kill", "commit"} : Goes(r, [h EXCEPT !.phase = phase])
        BY <3>1 DEF SelectCase, Ending
      <4>2. \A phase : [h EXCEPT !.phase = phase] = [h EXCEPT !.phase = phase, !.cols = h.cols]
        BY <1>1 DEF Session
      <4> QED
        BY <1>1, <4>1, <4>2 DEF Session
    <3>2. CASE Reselect(r)
      <4>1. \E phase \in {"write", "commit"} : Goes(r, [h EXCEPT !.phase = phase])
        BY <3>2 DEF Reselect
      <4>2. \A phase : [h EXCEPT !.phase = phase] = [h EXCEPT !.phase = phase, !.cols = h.cols]
        BY <1>1 DEF Session
      <4> QED
        BY <1>1, <4>1, <4>2 DEF Session
    <3>3. CASE LoadPut(r)
      <4> DEFINE changed == {x \in h.call.cols :
                                /\ x = "status" => h.call.status # LoadedRun(r).status
                                /\ x = "clear" => LoadedRun(r).started}
      <4>1. changed \in SUBSET (Columns \cup {"stamp"})
        BY <1>1, <3>3, CallFacts DEF LoadPut, At, Serves
      <4> HIDE DEF changed
      <4> QED
        BY <3>3, <4>1 DEF LoadPut, Ending, changed
    <3> QED
      BY <1>4, <3>1, <3>2, <3>3
  <2>2. ASSUME NEW phase \in {"kill", "commit", "write"}, NEW cols \in SUBSET (Columns \cup {"stamp"}),
               Goes(r, [h EXCEPT !.phase = phase, !.cols = cols])
        PROVE  Right(r)'
    <3> DEFINE g == [h EXCEPT !.phase = phase, !.cols = cols]
    <3>1. /\ g \in Session /\ g.del = h.del /\ g.ins = h.ins /\ g.execs = h.execs
          /\ g.call = h.call /\ g.phase \notin {"unlink", "insert", "expand"}
      BY <1>1 DEF Session, Phases
    <3> QED
      BY <1>2, <2>2, <3>1
  <2> QED
    BY <2>1, <2>2
<1>5. CASE KillCase(r)
  <2> DEFINE g == [h EXCEPT !.phase = "commit", !.kill = TRUE]
  <2>1. /\ g \in Session /\ g.del = h.del /\ g.ins = h.ins /\ g.execs = h.execs
        /\ g.call = h.call /\ g.phase \notin {"unlink", "insert", "expand"}
    BY <1>1 DEF Session, Phases
  <2> QED
    BY <1>2, <1>5, <2>1 DEF KillCase
<1>6. CASE WriteRun(r)
  <2> DEFINE g == [h EXCEPT !.phase = "commit", !.moved = TRUE]
  <2>1. /\ g \in Session /\ g.del = h.del /\ g.ins = h.ins /\ g.execs = h.execs
        /\ g.call = h.call /\ g.phase \notin {"unlink", "insert", "expand"}
    BY <1>1 DEF Session, Phases
  <2> QED
    BY <1>2, <1>6, <2>1 DEF WriteRun
<1>7. CASE LoadRun(r)
  <2> DEFINE phase == IF Starts(r) THEN "expand" ELSE "reselect"
             cols == {"status"} \cup (IF Stamps(r) THEN {"stamp"} ELSE {})
             g == [h EXCEPT !.phase = phase, !.cols = cols]
  <2>1. CASE Rollback(r, "4xx")
    BY <2>1 DEF Ending
  <2>2. CASE ~Rollback(r, "4xx")
    <3>1. Goes(r, g) /\ h.phase = "open" /\ ~Refused(r)
      BY <1>7, <2>2 DEF LoadRun, At
    <3>2. h.execs = NoExecs
      BY <1>1, <3>1 DEF Serves
    <3>3. req'[r] = g /\ link' = link /\ run' = run
      BY <1>1, <3>1 DEF Goes
    <3>4. /\ g.del = h.del /\ g.ins = h.ins /\ g.execs = NoExecs
          /\ g.call = h.call /\ g.phase = phase
      BY <1>1, <3>2 DEF Session
    <3>5. phase = "expand" => ~run[h.call.run].started /\ ~run[h.call.run].deleted
      BY <3>1 DEF Starts, Refused, LoadedRun
    <3>6. phase \in {"expand", "reselect"}
      OBVIOUS
    <3> HIDE DEF g, phase, cols
    <3>7. \A k \in Links : LinkAfter(r, k)' = LinkAfter(r, k)
      BY <3>3, <3>4 DEF LinkAfter
    <3> QED
      BY <3>3, <3>4, <3>5, <3>6, <3>7 DEF Right, OneLinkAfter, NoExecs
  <2> QED
    BY <2>1, <2>2
<1>8. CASE Expand(r)
  <2> DEFINE counted == [c \in Cases |-> Cardinality(LinksOf(r, {c}))]
             g == [h EXCEPT !.phase = "reselect", !.execs = counted]
  <2>1. /\ Goes(r, g) /\ h.phase = "expand"
        /\ ~run[h.call.run].started /\ ~run[h.call.run].deleted
    BY <1>8 DEF Expand, At, Right
  <2>2. h.del = {} /\ h.ins = {}
    BY <1>1, <2>1 DEF Serves
  <2>3. req'[r] = g /\ link' = link /\ run' = run
    BY <1>1, <2>1 DEF Goes
  <2>4. /\ g.del = {} /\ g.ins = {} /\ g.execs = counted
        /\ g.call = h.call /\ g.phase = "reselect"
    BY <1>1, <2>2 DEF Session
  <2>5. \A c \in Cases : counted[c] <= 1
    <3>1. ASSUME NEW c \in Cases
          PROVE  Cardinality(LinksOf(r, {c})) <= 1
      <4>1. \A j, k \in LinksOf(r, {c}) : j = k
        BY <2>2, NothingFlushed DEF OneLink
      <4> QED
        BY <4>1, AtMostOne
    <3> QED
      BY <3>1
  <2> HIDE DEF g, counted
  <2>6. \A k \in Links : LinkAfter(r, k)' = link[k]
    BY <2>3, <2>4 DEF LinkAfter
  <2> QED
    BY <2>1, <2>3, <2>4, <2>5, <2>6 DEF Right, OneLinkAfter, OneLink
<1> QED
  BY <1>3, <1>4, <1>5, <1>6, <1>7, <1>8

SingleStarts == \A t \in Runs, c \in Cases : execs[t][c] <= 1 \/ t \in cleared

Alone == AloneSessionsAreRight /\ LinksAreASet /\ OneExecutionAlone

LEMMA StepAlone ==
    ASSUME TypeOK, PhasesServeCalls, ExecutionsComeWithTheStart, Alone,
           NEW r \in Requests, Step(r), TypeOK', PhasesServeCalls',
           met' = (met \/ \E q, s \in Requests :
                       q # s /\ req'[q].phase # "idle" /\ req'[s].phase # "idle")
    PROVE  Alone'
<1> SUFFICES ASSUME ~met'
             PROVE  Alone'
  BY DEF Alone, AloneSessionsAreRight, LinksAreASet, OneExecutionAlone
<1>1. /\ ~met
      /\ \A q \in Requests \ {r} : req'[q] = req[q] /\ req[q].phase = "idle"
  BY AloneOthers DEF Alone
<1>2. OneLink /\ \A q \in Requests : Right(q)
  BY <1>1 DEF Alone, LinksAreASet, OneLink, AloneSessionsAreRight, Right, LoadedRun
<1>3. \A q \in Requests : Serves(req'[q])
  BY DEF PhasesServeCalls, Serves
<1>4. ASSUME NEW q \in Requests, req'[q].phase = "idle", OneLink'
      PROVE  Right(q)'
  <2>1. req'[q].del = {} /\ req'[q].ins = {} /\ req'[q].execs = NoExecs
    BY <1>3, <1>4 DEF Serves, Idle
  <2>2. \A k \in Links : LinkAfter(q, k)' = link'[k]
    BY <2>1 DEF LinkAfter
  <2> QED
    BY <1>4, <2>1, <2>2 DEF Right, OneLinkAfter, OneLink, NoExecs
<1>5. ASSUME OneLink', Right(r)', SingleStarts'
      PROVE  Alone'
  <2>1. \A q \in Requests : Right(q)'
    BY <1>1, <1>4, <1>5
  <2>2. \A q \in Requests : req'[q].phase # "idle" => \A s \in Requests \ {q} : req'[s].phase = "idle"
    BY <1>1
  <2>3. AloneSessionsAreRight'
    BY <2>1, <2>2 DEF AloneSessionsAreRight, Right, LoadedRun
  <2> QED
    BY <1>5, <2>3 DEF Alone, LinksAreASet, OneExecutionAlone, SingleStarts, OneLink
<1>6. CASE ~Commit(r)
  <2>1. link' = link /\ execs' = execs /\ cleared' = cleared
    BY <1>6, RunsStay
  <2>2. OneLink' /\ SingleStarts'
    BY <1>1, <1>2, <2>1 DEF OneLink, Alone, OneExecutionAlone, SingleStarts
  <2>3. Ending(r) => req'[r].phase = "idle"
    <3>1. ASSUME NEW answer, Rollback(r, answer)
          PROVE  req'[r].phase = "idle"
      BY <3>1 DEF Rollback, Idle, TypeOK
    <3> QED
      BY <3>1 DEF Ending
  <2>4. Right(r)' \/ Ending(r)
    <3>1. CASE AddCheck(r) \/ BeginUnlink(r) \/ Unlink(r) \/ InsertLinks(r)
      BY <1>2, <3>1, LinkStepsRight
    <3>2. CASE \/ \E call \in Calls : Start(r, call)
               \/ SelectCase(r) \/ KillCase(r)
               \/ LoadRun(r) \/ Expand(r) \/ Reselect(r) \/ LoadPut(r) \/ WriteRun(r)
      BY <1>2, <3>2, RunStepsRight
    <3>3. CASE Crash(r)
      BY <3>3 DEF Crash, Ending
    <3> QED
      BY <1>6, <3>1, <3>2, <3>3 DEF Step
  <2> QED
    BY <1>4, <1>5, <2>2, <2>3, <2>4
<1>7. CASE Commit(r)
  <2>1. link' = [k \in Links |-> LinkAfter(r, k)] /\ req'[r].phase = "idle"
    BY <1>7 DEF Commit, Idle, TypeOK
  <2>2. OneLink'
    BY <1>2, <2>1 DEF OneLink, Right, OneLinkAfter
  <2>3. ASSUME NEW t \in Runs, NEW c \in Cases, t \notin cleared'
        PROVE  execs'[t][c] <= 1
    <3>1. t \notin cleared
      BY <1>7, <2>3, CommitKeeps DEF HistoryKept
    <3>2. /\ execs[t] \in [Cases -> Nat] /\ execs[t][c] <= 1
          /\ req[r].execs \in [Cases -> Nat] /\ req[r].execs[c] <= 1
      BY <1>1, <1>2, <3>1 DEF Alone, OneExecutionAlone, TypeOK, Right
    <3>3. CASE execs'[t] = execs[t]
      BY <3>2, <3>3
    <3>4. CASE /\ t = req[r].call.run
               /\ execs'[t] = [d \in Cases |-> execs[t][d] + req[r].execs[d]]
      <4>1. CASE req[r].execs = NoExecs
        BY <3>2, <3>4, <4>1 DEF NoExecs
      <4>2. CASE req[r].execs # NoExecs
        <5>1. ~run[t].started /\ ~run[t].deleted
          BY <1>2, <3>4, <4>2 DEF Right
        <5>2. execs[t] = NoExecs
          BY <3>1, <5>1 DEF ExecutionsComeWithTheStart
        <5> QED
          BY <3>2, <3>4, <5>2 DEF NoExecs
      <4> QED
        BY <4>1, <4>2
    <3> QED
      BY <1>7, <3>3, <3>4, CommitRun
  <2> QED
    BY <1>4, <1>5, <2>1, <2>2, <2>3 DEF SingleStarts
<1> QED
  BY <1>6, <1>7

----------------------------------------------------------------------------
(* The theorems *)

\* The inductive invariant: SuiteInv together with the four invariants that
\* rest on it.
FullSuiteInv ==
    /\ TypeOK /\ PhasesServeCalls
    /\ OnlyDeletedRunsAreSkipped /\ StartsAreStamped
    /\ ExecutionsComeWithTheStart /\ ActiveRunsAreStarted /\ Alone

LEMMA InitSuite == Init => FullSuiteInv
<1> SUFFICES ASSUME Init
             PROVE  FullSuiteInv
  OBVIOUS
<1>1. \A r \in Requests : req[r] = Idle("none") /\ req[r] \in Session /\ Serves(req[r])
  BY IdleIsSession DEF Init
<1>2. \A r \in Requests : /\ req[r].phase = "idle" /\ req[r].del = {} /\ req[r].ins = {}
                          /\ req[r].execs = NoExecs
  BY <1>1 DEF Idle
<1>3. TypeOK
  <2>1. run \in [Runs -> [status : Statuses, started : BOOLEAN, deleted : BOOLEAN]]
    <3>1. PICK f \in [Runs -> Statuses] :
              run = [t \in Runs |-> [status |-> f[t], started |-> FALSE, deleted |-> FALSE]]
      BY DEF Init
    <3> QED
      BY <3>1
  <2>2. execs \in [Runs -> [Cases -> Nat]]
    BY DEF Init, NoExecs
  <2>3. req \in [Requests -> Session]
    BY <1>1 DEF Init
  <2> QED
    BY <2>1, <2>2, <2>3 DEF Init, TypeOK, Session
<1>4. PhasesServeCalls
  BY <1>1, ServesAll
<1>5. OnlyDeletedRunsAreSkipped /\ StartsAreStamped
  BY <1>2 DEF OnlyDeletedRunsAreSkipped, StartsAreStamped
<1>6. ExecutionsComeWithTheStart
  BY DEF Init, ExecutionsComeWithTheStart
<1>7. ActiveRunsAreStarted
  BY DEF Init, ActiveRunsAreStarted
<1>8. Alone
  <2>1. OneLink
    BY DEF Init, OneLink
  <2>2. \A r \in Requests : Right(r)
    BY <1>1, <1>2, <2>1, IdleIsRight
  <2>3. AloneSessionsAreRight
    BY <1>2, <2>2 DEF AloneSessionsAreRight, Right, LoadedRun
  <2>4. SingleStarts
    <3>1. \A t \in Runs : execs[t] = NoExecs
      BY DEF Init
    <3>2. \A c \in Cases : NoExecs[c] = 0
      BY DEF NoExecs
    <3> QED
      BY <3>1, <3>2 DEF SingleStarts
  <2> QED
    BY <2>1, <2>3, <2>4 DEF Alone, LinksAreASet, OneLink, OneExecutionAlone, SingleStarts
<1> QED
  BY <1>3, <1>4, <1>5, <1>6, <1>7, <1>8 DEF FullSuiteInv

LEMMA NextSuite == FullSuiteInv /\ [Next]_vars => FullSuiteInv'
<1> SUFFICES ASSUME FullSuiteInv, [Next]_vars
             PROVE  FullSuiteInv'
  OBVIOUS
<1>1. TypeOK' /\ PhasesServeCalls'
  BY NextType DEF FullSuiteInv
<1>2. CASE UNCHANGED vars
  <2>1. /\ link' = link /\ run' = run /\ execs' = execs /\ req' = req /\ met' = met
        /\ cleared' = cleared /\ pushed' = pushed
    BY <1>2 DEF vars
  <2>2. ExecutionsComeWithTheStart' /\ ActiveRunsAreStarted'
    BY <2>1 DEF FullSuiteInv, ExecutionsComeWithTheStart, ActiveRunsAreStarted
  <2>3. OnlyDeletedRunsAreSkipped' /\ StartsAreStamped'
    BY <2>1 DEF FullSuiteInv, OnlyDeletedRunsAreSkipped, StartsAreStamped, LoadedRun
  <2>4. \A r \in Requests, k \in Links : LinkAfter(r, k)' = LinkAfter(r, k)
    BY <2>1 DEF LinkAfter
  <2>5. \A r \in Requests : OneLinkAfter(r)' <=> OneLinkAfter(r)
    BY <2>4 DEF OneLinkAfter
  <2>6. AloneSessionsAreRight'
    BY <2>1, <2>4, <2>5 DEF FullSuiteInv, Alone, AloneSessionsAreRight, LoadedRun
  <2>7. LinksAreASet' /\ OneExecutionAlone'
    BY <2>1 DEF FullSuiteInv, Alone, LinksAreASet, OneExecutionAlone, SingleStarts
  <2> QED
    BY <1>1, <2>2, <2>3, <2>6, <2>7 DEF FullSuiteInv, Alone
<1>3. CASE Next
  <2>1. PICK r \in Requests : Step(r)
    BY <1>3 DEF Next
  <2>2. met' = (met \/ \E q, s \in Requests :
                    q # s /\ req'[q].phase # "idle" /\ req'[s].phase # "idle")
    BY <1>3 DEF Next
  <2>3. ExecutionsComeWithTheStart'
    BY <2>1, StepExecutions DEF FullSuiteInv
  <2>4. OnlyDeletedRunsAreSkipped' /\ StartsAreStamped' /\ ActiveRunsAreStarted'
    BY <2>1, StepStamped DEF FullSuiteInv
  <2>5. Alone'
    BY <1>1, <2>1, <2>2, StepAlone DEF FullSuiteInv
  <2> QED
    BY <1>1, <2>3, <2>4, <2>5 DEF FullSuiteInv
<1> QED
  BY <1>2, <1>3

LEMMA SuiteIsSound == Spec => []FullSuiteInv
BY InitSuite, NextSuite, PTL DEF Spec

\* Whatever requests link, unlink, replace, delete, start and change next to
\* each other: a session has flushed only what its call asks for, a transition
\* leaves its run unwritten only if that has been deleted meanwhile, and no
\* transition moves a run past "Not Started" without a start time; a session
\* that has met no other is going to leave no case linked twice.
THEOREM SuitesAreSound == Spec => []SuiteInv
<1>1. FullSuiteInv => SuiteInv
  BY DEF FullSuiteInv, Alone, SuiteInv
<1> QED
  BY <1>1, SuiteIsSound, PTL

\* The executions that starts create become visible together with the start
\* time of their run, unless the run is deleted or its start time is cleared.
THEOREM ExecutionsAreStarted == Spec => []ExecutionsComeWithTheStart
<1>1. FullSuiteInv => ExecutionsComeWithTheStart
  BY DEF FullSuiteInv
<1> QED
  BY <1>1, SuiteIsSound, PTL

\* Runs that the table moved past "Not Started" have a start time, whatever
\* transitions overtake each other, until a PUT clears it.
THEOREM RunsAreStarted == Spec => []ActiveRunsAreStarted
<1>1. FullSuiteInv => ActiveRunsAreStarted
  BY DEF FullSuiteInv
<1> QED
  BY <1>1, SuiteIsSound, PTL

\* Requests that come one at a time never link a case twice.
THEOREM LinksStayASet == Spec => []LinksAreASet
<1>1. FullSuiteInv => LinksAreASet
  BY DEF FullSuiteInv, Alone
<1> QED
  BY <1>1, SuiteIsSound, PTL

\* Nor do they create two executions of a case in one run, unless one of them
\* clears its start time.
THEOREM ExecutionsStaySingle == Spec => []OneExecutionAlone
<1>1. FullSuiteInv => OneExecutionAlone
  BY DEF FullSuiteInv, Alone
<1> QED
  BY <1>1, SuiteIsSound, PTL
=============================================================================
