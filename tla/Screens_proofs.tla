--------------------------- MODULE Screens_proofs ---------------------------
(***************************************************************************)
(* Proofs about the screens of the browser client on which things are      *)
(* answered out of turn: ExecutionPage, for every finite set of executions *)
(* and every set of marks, and DetailPanels, for every table of Panels and *)
(* every set of subjects.                                                  *)
(***************************************************************************)
EXTENDS ExecutionPage, DetailPanels, FiniteSetTheorems, SequenceTheorems,
        WellFoundedInduction, TLAPS

----------------------------------------------------------------------------
(*                          THE EXECUTION PAGE                             *)

----------------------------------------------------------------------------
(* Lists *)

\* There is an execution, so that the first index is one.
LEMMA FirstIndex == 1 \in Indices
<1>1. Cardinality(Executions) \in Nat /\ Cardinality(Executions) # 0
  BY ExecutionsAssumption, FS_CardinalityType, FS_EmptySet
<1> QED
  BY <1>1 DEF Indices

\* An order lists every index once, and no execution twice.
LEMMA OrderFacts ==
    ASSUME NEW order \in Orders
    PROVE  /\ order \in [Indices -> Executions]
           /\ \A i, j \in Indices : order[i] = order[j] => i = j
BY DEF Orders, SetToSeqs, Indices

\* An entry of a list is an execution, and what it shows are marks.
LEMMA ListFacts ==
    ASSUME NEW l \in List, NEW i \in Indices
    PROVE  /\ l.order[i] \in Executions
           /\ Answers(l, i) \in SUBSET Marks
BY OrderFacts DEF List, Answers

\* What the server lists is a list.
LEMMA ListedIsList ==
    ASSUME TypeOK, NEW order \in Orders, NEW i \in Indices
    PROVE  Listed(order, i) \in List
BY DEF Listed, List, TypeOK

SaveRequest == [phase : {"put", "get"}, list : List, answers : SUBSET Marks,
                next : BOOLEAN]

\* A save under way is a request.
LEMMA SavingIsRequest ==
    ASSUME TypeOK, save.phase # "idle"
    PROVE  save \in SaveRequest
BY DEF TypeOK, SaveRequest, NoSave

----------------------------------------------------------------------------
(* Type correctness *)

\* The end of a save keeps the types of what is on the page.
LEMMA EndSaveType ==
    ASSUME TypeOK, Saving, NEW l \in List, NEW f \in SUBSET Marks, EndSave(l, f)
    PROVE  /\ list' \in List /\ form' \in SUBSET Marks /\ save' = NoSave
           /\ shuffled' \in BOOLEAN
           /\ UNCHANGED <<db, uploads, given, erased>>
<1>1. save.list \in List /\ save.next \in BOOLEAN
  BY SavingIsRequest DEF Saving, SaveRequest
<1>2. CASE save.next /\ save.list.selected + 1 \in Indices
  <2>1. list' = [l EXCEPT !.selected = save.list.selected + 1]
        /\ form' = Answers(save.list, save.list.selected + 1)
    BY <1>2 DEF EndSave
  <2> QED
    BY <1>1, <1>2, <2>1, ListFacts DEF EndSave, Shuffles, TypeOK, List
<1>3. CASE ~(save.next /\ save.list.selected + 1 \in Indices)
  BY <1>3 DEF EndSave, Shuffles, TypeOK
<1> QED
  BY <1>2, <1>3

\* Every step keeps TypeOK.
LEMMA NextType == TypeOK /\ [Next]_vars => TypeOK'
<1> SUFFICES ASSUME TypeOK, [Next]_vars
             PROVE  TypeOK'
  OBVIOUS
<1>1. list \in List /\ Current \in Executions
  BY ListFacts DEF TypeOK, Current, List
<1>2. CASE UNCHANGED vars
  BY <1>2 DEF vars, page, TypeOK
<1>3. ASSUME NEW i \in Indices, Select(i)
      PROVE  TypeOK'
  <2>1. list' \in List /\ form' \in SUBSET Marks
    BY <1>1, <1>3, ListFacts DEF Select, List
  <2> QED
    BY <1>3, <2>1 DEF Select, Shuffles, TypeOK
<1>4. ASSUME NEW m \in Marks, Give(m) \/ Upload(m)
      PROVE  TypeOK'
  BY <1>1, <1>4 DEF Give, Upload, TypeOK
<1>5. ASSUME NEW m \in Marks, TakeBack(m) \/ Uploaded(m) \/ UploadFailed(m)
      PROVE  TypeOK'
  BY <1>5 DEF TakeBack, Uploaded, UploadFailed, TypeOK
<1>6. ASSUME NEW next \in BOOLEAN, Save(next)
      PROVE  TypeOK'
  BY <1>6 DEF Save, TypeOK
<1>7. CASE Put
  <2>1. save \in SaveRequest
    BY <1>7, SavingIsRequest DEF Put
  <2>2. save.list.order[save.list.selected] \in Executions
    BY <2>1, ListFacts DEF SaveRequest, List
  <2>3. save' \in SaveRequest
    BY <1>7, <2>1 DEF Put, SaveRequest
  <2> QED
    BY <1>7, <2>1, <2>2, <2>3 DEF Put, SaveRequest, TypeOK
<1>8. CASE SaveFailed
  <2>1. save' = NoSave /\ list' \in List /\ form' \in SUBSET Marks /\ shuffled' \in BOOLEAN
        /\ UNCHANGED <<db, uploads, given, erased>>
    BY <1>1, <1>8, EndSaveType DEF SaveFailed, TypeOK
  <2> QED
    BY <1>8, <2>1 DEF SaveFailed, TypeOK
<1>9. ASSUME NEW order \in Orders, Reload(order)
      PROVE  TypeOK'
  <2> DEFINE l == Listed(order, list.selected)
  <2>1. save \in SaveRequest /\ Saving
    BY <1>9, SavingIsRequest DEF Reload, Saving
  <2>2. l \in List /\ Answers(l, save.list.selected) \in SUBSET Marks
    BY <1>1, <2>1, ListedIsList, ListFacts DEF List, SaveRequest
  <2>3. EndSave(l, Answers(l, save.list.selected))
    BY <1>9 DEF Reload
  <2> HIDE DEF l
  <2>4. save' = NoSave /\ list' \in List /\ form' \in SUBSET Marks /\ shuffled' \in BOOLEAN
        /\ UNCHANGED <<db, uploads, given, erased>>
    BY <2>1, <2>2, <2>3, EndSaveType
  <2> QED
    BY <1>9, <2>4 DEF Reload, TypeOK
<1>10. ASSUME NEW order \in Orders, Open(order)
       PROVE  TypeOK'
  <2>1. Listed(order, 1) \in List /\ Answers(Listed(order, 1), 1) \in SUBSET Marks
    BY FirstIndex, ListedIsList, ListFacts
  <2> QED
    BY <1>10, <2>1 DEF Open, TypeOK
<1>11. ASSUME NEW e \in Executions, NEW m \in Marks, OtherTester(e, m)
       PROVE  TypeOK'
  BY <1>11 DEF OtherTester, page, TypeOK
<1> QED
  BY <1>2, <1>3, <1>4, <1>5, <1>6, <1>7, <1>8, <1>9, <1>10, <1>11 DEF Next

LEMMA InitType == Init => TypeOK
<1> SUFFICES ASSUME Init
             PROVE  TypeOK
  OBVIOUS
<1>1. \A order \in Orders : Listed(order, 1) \in List
  BY FirstIndex DEF Init, Listed, List
<1> QED
  BY <1>1 DEF Init, TypeOK

----------------------------------------------------------------------------
(* Answers under the execution they were given for *)

Filed == FormIsCurrent /\ ListIsFiledRight /\ AnswersAreFiledRight

\* What has been filed once stays filed right when a fresh mark is given.
LEMMA GivenStays ==
    ASSUME TypeOK, NEW m \in Fresh, NEW x, given' = [given EXCEPT ![m] = x],
           NEW e \in Executions, NEW marks \in SUBSET Marks, MeantFor(e, marks)
    PROVE  MeantFor(e, marks)'
BY NoneAssumption DEF Fresh, MeantFor, TypeOK

\* A save that ends leaves everything filed right, if the list and the form it
\* ends with are.
LEMMA EndSaveFiled ==
    ASSUME TypeOK, Filed, Saving, NEW l \in List, NEW f \in SUBSET Marks,
           EndSave(l, f), l.selected = list.selected,
           ~shuffled' => /\ MeantFor(l.order[l.selected], f)
                         /\ \A e \in Executions : MeantFor(e, l.answers[e])
    PROVE  Filed'
<1> SUFFICES ASSUME ~shuffled'
             PROVE  Filed'
  BY DEF Filed, FormIsCurrent, ListIsFiledRight, AnswersAreFiledRight
<1>1. /\ ~shuffled /\ l.order = list.order /\ save' = NoSave
      /\ UNCHANGED <<db, uploads, given>>
  BY DEF EndSave, Shuffles
<1>2. save \in SaveRequest /\ save.list.order = list.order /\ list \in List
      /\ save.list.selected = list.selected
  BY <1>1, SavingIsRequest DEF Filed, FormIsCurrent, Saving, TypeOK
<1>3. AnswersAreFiledRight' /\ ~Saving'
  BY <1>1 DEF Filed, AnswersAreFiledRight, MeantFor, Saving, NoSave
<1>4. CASE save.next /\ save.list.selected + 1 \in Indices
  <2> DEFINE i == save.list.selected + 1
  <2>1. /\ list' = [l EXCEPT !.selected = i] /\ uploads' = {}
        /\ form' = save.list.answers[list.order[i]]
    BY <1>1, <1>2, <1>4 DEF EndSave, Shuffles, Answers
  <2>2. Current' = list.order[i] /\ list.order[i] \in Executions /\ list'.answers = l.answers
    BY <1>1, <1>2, <1>4, <2>1, ListFacts DEF Current, List
  <2>3. FormIsCurrent'
    BY <1>1, <1>3, <2>1, <2>2
       DEF FormIsCurrent, Filed, ListIsFiledRight, MeantFor
  <2>4. ListIsFiledRight'
    BY <1>1, <1>3, <2>2 DEF ListIsFiledRight, MeantFor
  <2> QED
    BY <1>3, <2>3, <2>4 DEF Filed
<1>5. CASE ~(save.next /\ save.list.selected + 1 \in Indices)
  <2>1. list' = l /\ form' = f
    BY <1>5 DEF EndSave
  <2>2. FormIsCurrent'
    BY <1>1, <1>3, <2>1 DEF FormIsCurrent, Filed, MeantFor, Current
  <2>3. ListIsFiledRight'
    BY <1>1, <1>3, <2>1 DEF ListIsFiledRight, MeantFor
  <2> QED
    BY <1>3, <2>2, <2>3 DEF Filed
<1> QED
  BY <1>4, <1>5

\* Every step keeps Filed.
LEMMA NextFiled == TypeOK /\ Filed /\ [Next]_vars => Filed'
<1> SUFFICES ASSUME TypeOK, Filed, [Next]_vars
             PROVE  Filed'
  OBVIOUS
<1>1. list \in List /\ Current \in Executions
  BY ListFacts DEF TypeOK, Current, List
<1>2. CASE UNCHANGED vars
  BY <1>2 DEF vars, page, Filed, FormIsCurrent, ListIsFiledRight, AnswersAreFiledRight,
              MeantFor, Current, Saving
<1>3. ASSUME NEW i \in Indices, Select(i)
      PROVE  Filed'
  <2> SUFFICES ASSUME ~shuffled'
               PROVE  Filed'
    BY DEF Filed, FormIsCurrent, ListIsFiledRight, AnswersAreFiledRight
  <2>1. /\ ~shuffled /\ ~Saving /\ uploads = {} /\ list.order[i] \in Executions
        /\ UNCHANGED <<db, save, uploads, given>>
    BY <1>1, <1>3, ListFacts DEF Select, Shuffles
  <2>2. Current' = list.order[i] /\ list'.answers = list.answers
        /\ form' = list.answers[list.order[i]]
    BY <1>1, <1>3 DEF Select, Current, Answers, List
  <2> QED
    BY <2>1, <2>2 DEF Filed, FormIsCurrent, ListIsFiledRight, AnswersAreFiledRight,
                      MeantFor, Saving
<1>4. ASSUME NEW m \in Marks, Give(m) \/ Upload(m)
      PROVE  Filed'
  <2> SUFFICES ASSUME ~shuffled'
               PROVE  Filed'
    BY DEF Filed, FormIsCurrent, ListIsFiledRight, AnswersAreFiledRight
  <2>1. /\ m \in Fresh /\ given' = [given EXCEPT ![m] = Current] /\ ~shuffled
        /\ form' \cup uploads' = form \cup uploads \cup {m}
        /\ UNCHANGED <<db, list, save>>
    BY <1>4 DEF Give, Upload
  <2>2. \A e \in Executions, marks \in SUBSET Marks : MeantFor(e, marks) => MeantFor(e, marks)'
    BY <2>1, GivenStays
  <2>3. AnswersAreFiledRight' /\ ListIsFiledRight'
    <3>1. \A e \in Executions : list.answers[e] \in SUBSET Marks /\ db[e] \in SUBSET Marks
      BY <1>1 DEF List, TypeOK
    <3>2. Saving => \A e \in Executions : save.list.answers[e] \in SUBSET Marks
      BY SavingIsRequest DEF Saving, SaveRequest, List
    <3> QED
      BY <2>1, <2>2, <3>1, <3>2 DEF Filed, AnswersAreFiledRight, ListIsFiledRight, MeantFor, Saving
  <2>4. FormIsCurrent'
    <3>1. MeantFor(Current, form \cup uploads)' /\ Current' = Current
      BY <1>1, <2>1, <2>2 DEF Filed, FormIsCurrent, MeantFor, Current, TypeOK
    <3>2. Saving => save.answers \in SUBSET Marks
      BY SavingIsRequest DEF Saving, SaveRequest
    <3> QED
      BY <1>1, <2>1, <2>2, <3>1, <3>2 DEF Filed, FormIsCurrent, MeantFor, Saving
  <2> QED
    BY <2>3, <2>4 DEF Filed
<1>5. ASSUME NEW m \in Marks, TakeBack(m) \/ Uploaded(m) \/ UploadFailed(m)
      PROVE  Filed'
  <2>1. /\ form' \cup uploads' \subseteq form \cup uploads
        /\ UNCHANGED <<db, list, save, given, shuffled>>
    BY <1>5 DEF TakeBack, Uploaded, UploadFailed
  <2> QED
    BY <2>1 DEF Filed, FormIsCurrent, ListIsFiledRight, AnswersAreFiledRight, MeantFor,
                Current, Saving
<1>6. ASSUME NEW next \in BOOLEAN, Save(next)
      PROVE  Filed'
  <2>1. save'.list = list /\ save'.answers = form
        /\ UNCHANGED <<db, list, form, uploads, given, shuffled>>
    BY <1>6 DEF Save
  <2> QED
    BY <2>1 DEF Filed, FormIsCurrent, ListIsFiledRight, AnswersAreFiledRight, MeantFor,
                Current, Saving
<1>7. CASE Put
  <2>1. save \in SaveRequest /\ Saving
    BY <1>7, SavingIsRequest DEF Put, Saving
  <2>2. /\ save'.list = save.list /\ save'.answers = save.answers
        /\ UNCHANGED <<list, form, uploads, given, shuffled>>
    BY <1>7, <2>1 DEF Put, SaveRequest
  <2>3. FormIsCurrent' /\ ListIsFiledRight'
    BY <2>1, <2>2 DEF Filed, FormIsCurrent, ListIsFiledRight, MeantFor, Current
  <2>4. ~shuffled => save.list.order[save.list.selected] = Current
    BY <2>1 DEF Filed, FormIsCurrent, Current
  <2>5. AnswersAreFiledRight'
    BY <1>7, <2>1, <2>2, <2>4
       DEF Put, Filed, FormIsCurrent, AnswersAreFiledRight, MeantFor, TypeOK
  <2> QED
    BY <2>3, <2>5 DEF Filed
<1>8. CASE SaveFailed
  <2>1. ~shuffled' => ~shuffled
    BY <1>8 DEF SaveFailed, EndSave, Shuffles
  <2>2. ~shuffled => /\ MeantFor(list.order[list.selected], form)
                     /\ \A e \in Executions : MeantFor(e, list.answers[e])
    BY DEF Filed, FormIsCurrent, ListIsFiledRight, MeantFor, Current
  <2>3. form \in SUBSET Marks
    BY DEF TypeOK
  <2> QED
    BY <1>1, <1>8, <2>1, <2>2, <2>3, EndSaveFiled DEF SaveFailed
<1>9. ASSUME NEW order \in Orders, Reload(order)
      PROVE  Filed'
  <2> DEFINE l == Listed(order, list.selected)
             f == Answers(l, save.list.selected)
  <2>1. save \in SaveRequest /\ Saving
    BY <1>9, SavingIsRequest DEF Reload, Saving
  <2>2. l \in List /\ f \in SUBSET Marks
    BY <1>1, <2>1, ListedIsList, ListFacts DEF List, SaveRequest
  <2>3. EndSave(l, f) /\ l.selected = list.selected
    BY <1>9 DEF Reload, Listed
  <2>4. ~shuffled' => MeantFor(l.order[l.selected], f)
                      /\ \A e \in Executions : MeantFor(e, l.answers[e])
    <3>1. ~shuffled' => ~shuffled
      BY <2>3 DEF EndSave, Shuffles
    <3>2. ~shuffled => save.list.selected = list.selected
      BY <2>1 DEF Filed, FormIsCurrent
    <3>3. ~shuffled => f = db[l.order[l.selected]] /\ l.order[l.selected] \in Executions
      BY <1>1, <2>2, <3>2, ListFacts DEF Answers, Listed, List
    <3> QED
      BY <3>1, <3>3 DEF Filed, AnswersAreFiledRight, Listed
  <2> HIDE DEF l, f
  <2> QED
    BY <2>1, <2>2, <2>3, <2>4, EndSaveFiled
<1>10. ASSUME NEW order \in Orders, Open(order)
       PROVE  Filed'
  <2>1. list'.answers = db /\ form' = db[order[1]] /\ Current' = order[1]
        /\ ~Saving' /\ uploads' = {} /\ UNCHANGED <<db, given, shuffled>>
    BY <1>10 DEF Open, Listed, Answers, Current, Saving
  <2>2. order[1] \in Executions
    BY FirstIndex, OrderFacts
  <2> QED
    BY <2>1, <2>2 DEF Filed, FormIsCurrent, ListIsFiledRight, AnswersAreFiledRight, MeantFor
<1>11. ASSUME NEW e \in Executions, NEW m \in Marks, OtherTester(e, m)
       PROVE  Filed'
  <2>1. /\ m \in Fresh /\ given' = [given EXCEPT ![m] = e]
        /\ UNCHANGED <<list, form, save, uploads, shuffled>>
    BY <1>11 DEF OtherTester, page
  <2>2. \A d \in Executions, marks \in SUBSET Marks : MeantFor(d, marks) => MeantFor(d, marks)'
    BY <2>1, GivenStays
  <2>3. FormIsCurrent' /\ ListIsFiledRight'
    <3>1. \A d \in Executions : list.answers[d] \in SUBSET Marks
      BY <1>1 DEF List
    <3>2. Saving => save.answers \in SUBSET Marks
                    /\ \A d \in Executions : save.list.answers[d] \in SUBSET Marks
      BY SavingIsRequest DEF Saving, SaveRequest, List
    <3>3. form \cup uploads \in SUBSET Marks
      BY DEF TypeOK
    <3> QED
      BY <1>1, <2>1, <2>2, <3>1, <3>2, <3>3
         DEF Filed, FormIsCurrent, ListIsFiledRight, MeantFor, Saving, Current
  <2>4. AnswersAreFiledRight'
    <3>1. \A d \in Executions : db[d] \in SUBSET Marks
      BY DEF TypeOK
    <3>2. ASSUME NEW d \in Executions, ~shuffled
          PROVE  \A n \in db'[d] : given'[n] = d
      <4>1. \A n \in db[d] : given[n] = d /\ n # m
        BY <2>1, <3>2, NoneAssumption DEF Filed, AnswersAreFiledRight, MeantFor, Fresh
      <4>2. db'[d] \subseteq db[d] \cup {m} /\ (d # e => db'[d] = db[d])
        BY <1>11 DEF OtherTester, TypeOK
      <4>3. \A n \in Marks : given'[n] = IF n = m THEN e ELSE given[n]
        BY <2>1 DEF TypeOK
      <4> QED
        BY <3>1, <4>1, <4>2, <4>3 DEF MeantFor
    <3> QED
      BY <2>1, <3>2 DEF AnswersAreFiledRight, MeantFor
  <2> QED
    BY <2>3, <2>4 DEF Filed
<1> QED
  BY <1>2, <1>3, <1>4, <1>5, <1>6, <1>7, <1>8, <1>9, <1>10, <1>11 DEF Next

----------------------------------------------------------------------------
(* Nothing that is stored gets lost *)

\* Every step keeps NothingIsMissing.
LEMMA NextComplete ==
    TypeOK /\ Filed /\ NothingIsMissing /\ [Next]_vars => NothingIsMissing'
<1> SUFFICES ASSUME TypeOK, Filed, NothingIsMissing, [Next]_vars,
                    ~shuffled', ~behind'
             PROVE  NothingIsMissing'
  BY DEF NothingIsMissing
<1> USE DEF NothingIsMissing
<1>1. list \in List /\ Current \in Executions
  BY ListFacts DEF TypeOK, Current, List
<1>2. CASE UNCHANGED vars
  BY <1>2 DEF vars, page, Current, Saving
<1>3. ASSUME NEW i \in Indices, Select(i)
      PROVE  NothingIsMissing'
  <2>1. /\ ~shuffled /\ ~behind /\ ~Saving /\ list.order[i] \in Executions
        /\ UNCHANGED <<db, save>>
    BY <1>1, <1>3, ListFacts DEF Select, Shuffles
  <2>2. Current' = list.order[i] /\ list'.answers = list.answers
        /\ form' = list.answers[list.order[i]]
    BY <1>1, <1>3 DEF Select, Current, Answers, List
  <2> QED
    BY <2>1, <2>2 DEF Saving
<1>4. ASSUME NEW m \in Marks,
             Give(m) \/ Upload(m) \/ TakeBack(m) \/ Uploaded(m) \/ UploadFailed(m)
      PROVE  NothingIsMissing'
  <2>1. /\ form \cup erased \subseteq form' \cup erased' /\ erased \subseteq erased'
        /\ UNCHANGED <<db, list, save, shuffled, behind>>
    BY <1>4 DEF Give, Upload, TakeBack, Uploaded, UploadFailed
  <2> QED
    BY <2>1 DEF Current, Saving
<1>5. ASSUME NEW next \in BOOLEAN, Save(next)
      PROVE  NothingIsMissing'
  <2>1. save'.list = list /\ save'.answers = form /\ save'.phase = "put" /\ ~Saving
        /\ UNCHANGED <<db, list, form, erased, shuffled, behind>>
    BY <1>5 DEF Save
  <2> QED
    BY <2>1 DEF Current, Saving
<1>6. CASE Put
  <2>1. save \in SaveRequest /\ Saving
    BY <1>6, SavingIsRequest DEF Put, Saving
  <2>2. /\ save'.list = save.list /\ save'.answers = save.answers /\ save'.phase = "get"
        /\ UNCHANGED <<list, form, erased, shuffled, behind>>
    BY <1>6, <2>1 DEF Put, SaveRequest
  <2>3. save.list.order[save.list.selected] = Current /\ Current' = Current
    BY <2>1, <2>2 DEF Filed, FormIsCurrent, Current
  <2>4. db' = [db EXCEPT ![Current] = save.answers]
    BY <1>6, <2>3 DEF Put
  <2> QED
    BY <1>1, <1>6, <2>1, <2>2, <2>3, <2>4 DEF Put, Saving, TypeOK
<1>7. ASSUME Saving, NEW l \in List, NEW f \in SUBSET Marks, EndSave(l, f),
             l.selected = list.selected, l.answers = db,
             db[l.order[l.selected]] \subseteq f \cup erased, ~behind
      PROVE  NothingIsMissing'
  <2>1. /\ ~shuffled /\ l.order = list.order /\ save' = NoSave /\ UNCHANGED <<db, erased>>
    BY <1>7 DEF EndSave, Shuffles
  <2>2. save \in SaveRequest /\ save.list.order = list.order
        /\ save.list.selected = list.selected
    BY <1>7, <2>1, SavingIsRequest DEF Filed, FormIsCurrent, Saving
  <2>3. ~Saving' /\ save'.phase = "idle"
    BY <2>1 DEF Saving, NoSave
  <2>4. CASE save.next /\ save.list.selected + 1 \in Indices
    <3> DEFINE i == save.list.selected + 1
    <3>1. list' = [l EXCEPT !.selected = i] /\ form' = save.list.answers[list.order[i]]
      BY <1>7, <2>2, <2>4 DEF EndSave, Answers
    <3>2. Current' = list.order[i] /\ list'.answers = db
      BY <1>7, <2>1, <2>4, <3>1 DEF Current, List
    <3>3. list.order[i] \in Executions /\ list.order[i] # Current
      <4>1. list.selected \in Indices /\ i \in Indices /\ i # list.selected
        BY <1>1, <2>2, <2>4 DEF List, Indices
      <4> QED
        BY <1>1, <4>1, OrderFacts DEF List, Current
    <3>4. save.list.answers[list.order[i]] = db[list.order[i]]
      BY <1>7, <2>1, <3>3
    <3> QED
      BY <2>1, <2>3, <3>1, <3>2, <3>4
  <2>5. CASE ~(save.next /\ save.list.selected + 1 \in Indices)
    BY <1>7, <2>1, <2>3, <2>5 DEF EndSave, Current
  <2> QED
    BY <2>4, <2>5
<1>8. CASE SaveFailed
  <2>1. /\ Saving /\ EndSave(list, form) /\ ~shuffled /\ ~behind /\ save.phase = "put"
    <3>1. Saving /\ EndSave(list, form) /\ ~behind /\ save.phase # "get"
      BY <1>8 DEF SaveFailed
    <3> QED
      BY <3>1, SavingIsRequest DEF EndSave, Shuffles, Saving, SaveRequest
  <2>2. list.answers = db
    BY <1>1, <2>1 DEF List, TypeOK
  <2> QED
    BY <1>1, <1>7, <2>1, <2>2 DEF Current, TypeOK
<1>9. ASSUME NEW order \in Orders, Reload(order)
      PROVE  NothingIsMissing'
  <2> DEFINE l == Listed(order, list.selected)
             f == Answers(l, save.list.selected)
  <2>1. save \in SaveRequest /\ Saving /\ ~behind
    BY <1>9, SavingIsRequest DEF Reload, Saving
  <2>2. l \in List /\ f \in SUBSET Marks
    BY <1>1, <2>1, ListedIsList, ListFacts DEF List, SaveRequest
  <2>3. EndSave(l, f) /\ l.selected = list.selected /\ l.answers = db
    BY <1>9 DEF Reload, Listed
  <2>4. f = db[l.order[l.selected]]
    <3>1. ~shuffled
      BY <2>3 DEF EndSave, Shuffles
    <3> QED
      BY <2>1, <2>3, <3>1 DEF Answers, Filed, FormIsCurrent
  <2> HIDE DEF l, f
  <2> QED
    BY <1>7, <2>1, <2>2, <2>3, <2>4
<1>10. ASSUME NEW order \in Orders, Open(order)
       PROVE  NothingIsMissing'
  <2>1. list'.answers = db /\ form' = db[order[1]] /\ Current' = order[1]
        /\ ~Saving' /\ UNCHANGED <<db, erased, shuffled, behind>>
    BY <1>10 DEF Open, Listed, Answers, Current, Saving
  <2> QED
    BY <2>1 DEF Saving
<1>11. ASSUME NEW e \in Executions, NEW m \in Marks, OtherTester(e, m)
       PROVE  NothingIsMissing'
  BY <1>11 DEF OtherTester
<1> QED
  BY <1>2, <1>3, <1>4, <1>5, <1>6, <1>8, <1>9, <1>10, <1>11 DEF Next

----------------------------------------------------------------------------
(* The theorems *)

\* The inductive invariant: PageInv together with AnswersAreFiledRight.
FullPageInv == TypeOK /\ Filed /\ NothingIsMissing

LEMMA InitPage == Init => FullPageInv
<1> SUFFICES ASSUME Init
             PROVE  FullPageInv
  OBVIOUS
<1>1. /\ \A e \in Executions : db[e] = {} /\ list.answers[e] = {}
      /\ form = {} /\ uploads = {} /\ ~Saving
  BY DEF Init, Listed, Saving, NoSave
<1>2. Current \in Executions
  BY InitType, ListFacts DEF TypeOK, Current, List
<1>3. Filed
  BY <1>1 DEF Filed, FormIsCurrent, ListIsFiledRight, AnswersAreFiledRight, MeantFor
<1>4. NothingIsMissing
  BY <1>1, <1>2 DEF NothingIsMissing
<1> QED
  BY <1>3, <1>4, InitType DEF FullPageInv

LEMMA NextPage == FullPageInv /\ [Next]_vars => FullPageInv'
BY NextType, NextFiled, NextComplete DEF FullPageInv

LEMMA PageIsSound == Spec => []FullPageInv
BY InitPage, NextPage, PTL DEF Spec

\* Form, uploads, the save under way and the list belong to the execution on
\* the screen and miss nothing that is stored, until the tester moves on
\* before a request is through or the list comes back in another order.
THEOREM FormIsRight == Spec => []PageInv
<1>1. FullPageInv => PageInv
  BY DEF FullPageInv, Filed, PageInv
<1> QED
  BY <1>1, PageIsSound, PTL

\* Answers are stored under the execution they were given for, whatever
\* requests fail and whoever else works on the run.
THEOREM AnswersAreFiled == Spec => []AnswersAreFiledRight
<1>1. FullPageInv => AnswersAreFiledRight
  BY DEF FullPageInv, Filed
<1> QED
  BY <1>1, PageIsSound, PTL

\* A step that stores answers drops none but those taken back.
LEMMA NothingDropped ==
    FullPageInv /\ [Next]_vars =>
        (~shuffled /\ ~behind => \A e \in Executions : db[e] \ db'[e] \subseteq erased)
<1> SUFFICES ASSUME FullPageInv, [Next]_vars, ~shuffled, ~behind,
                    NEW e \in Executions
             PROVE  db[e] \ db'[e] \subseteq erased
  OBVIOUS
<1>1. CASE Put
  <2>1. save \in SaveRequest /\ Saving
    BY <1>1, SavingIsRequest DEF Put, Saving, FullPageInv
  <2>2. db' = [db EXCEPT ![Current] = save.answers]
    BY <1>1, <2>1 DEF Put, FullPageInv, Filed, FormIsCurrent, Current
  <2> QED
    BY <1>1, <2>1, <2>2 DEF Put, FullPageInv, NothingIsMissing, TypeOK
<1>2. CASE \E d \in Executions, m \in Marks : OtherTester(d, m)
  BY <1>2 DEF OtherTester, FullPageInv, TypeOK
<1>3. CASE UNCHANGED db
  BY <1>3
<1> QED
  BY <1>1, <1>2, <1>3
     DEF Next, vars, Select, Give, TakeBack, Upload, Uploaded, UploadFailed, Save,
         SaveFailed, EndSave, Reload, Open

\* A save never undoes an earlier one, as long as no request fails half-way
\* and nobody else works on the run: what is stored stays until the tester
\* takes it back.
THEOREM SavesAreKept == Spec => SavedAnswersStay
<1>1. [Next]_vars /\ FullPageInv =>
          [~shuffled /\ ~behind =>
               \A e \in Executions : db[e] \ db'[e] \subseteq erased]_vars
  BY NothingDropped
<1> QED
  BY <1>1, PageIsSound, PTL DEF Spec, SavedAnswersStay

----------------------------------------------------------------------------
(*                           THE DETAIL PANELS                             *)

----------------------------------------------------------------------------
(* Lists of items *)

LEMMA LeastNumber ==
    ASSUME NEW S \in SUBSET Nat, S # {}
    PROVE  \E n \in S : \A m \in S : n <= m
<1> DEFINE R == OpToRel(<, Nat)
<1>1. R = {p \in Nat \X Nat : p[1] < p[2]}
  BY Zenon DEF OpToRel
<1>2. IsWellFoundedOn(R, Nat) /\ S \subseteq Nat
  BY Zenon, NatLessThanWellFounded
<1> HIDE DEF R
<1>3. PICK n \in S : \A m \in S : <<m, n>> \notin R
  BY <1>2, WFMin
<1>4. \A m \in S : ~(m < n)
  BY <1>1, <1>3
<1> QED
  BY <1>4

\* One step of ItemsOf, and a function that makes n of them.
Extended(items, owners, k, before) ==
    IF items[k].of \in owners THEN Append(before, items[k]) ELSE before

Steps(items, owners, n, g) ==
    /\ g = [k \in 0..n |-> g[k]]
    /\ g[0] = <<>> /\ \A k \in 1..n : g[k] = Extended(items, owners, k, g[k - 1])

LEMMA SomeSteps ==
    ASSUME NEW items, NEW owners
    PROVE  \A n \in Nat : \E g : Steps(items, owners, n, g)
<1> DEFINE Bad == {n \in Nat : ~ \E g : Steps(items, owners, n, g)}
<1>1. SUFFICES ASSUME Bad # {} PROVE FALSE
  OBVIOUS
<1>2. PICK n \in Bad : \A m \in Bad : n <= m
  BY <1>1, LeastNumber
<1>3. n \in Nat /\ ~ \E g : Steps(items, owners, n, g)
  BY <1>2
<1>4. CASE n = 0
  <2>1. Steps(items, owners, 0, [k \in 0..0 |-> <<>>])
    BY DEF Steps
  <2> QED
    BY <1>3, <1>4, <2>1
<1>5. CASE n > 0
  <2>1. n - 1 \in Nat /\ n - 1 \notin Bad
    BY <1>2, <1>3, <1>5
  <2>2. PICK g : Steps(items, owners, n - 1, g)
    BY <2>1
  <2> DEFINE h == [k \in 0..n |-> IF k = n THEN Extended(items, owners, n, g[n - 1]) ELSE g[k]]
  <2>3. h = [k \in 0..n |-> h[k]] /\ h[0] = <<>>
    BY <1>3, <1>5, <2>2 DEF Steps
  <2>4. \A k \in 1..n : h[k] = Extended(items, owners, k, h[k - 1])
    BY <1>3, <1>5, <2>2 DEF Steps
  <2>5. Steps(items, owners, n, h)
    BY <2>3, <2>4 DEF Steps
  <2> QED
    BY <1>3, <2>5
<1> QED
  BY <1>3, <1>4, <1>5

\* The recursive definition has a solution.
LEMMA ItemsOfSteps ==
    ASSUME NEW items, NEW owners, Len(items) \in Nat
    PROVE  \E g : Steps(items, owners, Len(items), g) /\ ItemsOf(items, owners) = g[Len(items)]
<1> DEFINE n == Len(items)
           Solves(f) == f = [k \in 0..n |->
                                IF k = 0 THEN <<>>
                                ELSE IF items[k].of \in owners THEN Append(f[k - 1], items[k])
                                ELSE f[k - 1]]
           first == CHOOSE f : Solves(f)
<1>1. ItemsOf(items, owners) = first[n]
  BY DEF ItemsOf
<1> HIDE DEF first
<1>2. PICK g : Steps(items, owners, n, g)
  BY SomeSteps
<1>3. \A k \in 0..n : g[k] = IF k = 0 THEN <<>>
                             ELSE IF items[k].of \in owners THEN Append(g[k - 1], items[k])
                             ELSE g[k - 1]
  BY <1>2 DEF Steps, Extended
<1>4. Solves(g)
  BY <1>2, <1>3 DEF Steps
<1> HIDE DEF Solves
<1>5. Solves(first)
  BY <1>4 DEF first
<1> USE DEF Solves
<1>6. first = [k \in 0..n |-> first[k]]
  BY <1>5
<1>7. first[0] = <<>>
  BY <1>5
<1>8. ASSUME NEW k \in 1..n PROVE first[k] = Extended(items, owners, k, first[k - 1])
  <2>1. \A j \in 0..n : first[j] = IF j = 0 THEN <<>>
                                   ELSE IF items[j].of \in owners THEN Append(first[j - 1], items[j])
                                   ELSE first[j - 1]
    BY <1>5
  <2>2. k \in 0..n /\ k # 0
    OBVIOUS
  <2> QED
    BY <2>1, <2>2 DEF Extended
<1>9. Steps(items, owners, n, first)
  BY <1>6, <1>7, <1>8 DEF Steps
<1> QED
  BY <1>1, <1>9

\* What ItemsOf returns is a list of the items that belong to the owners.
LEMMA ItemsOfType ==
    ASSUME NEW T, NEW items \in Seq(T), NEW owners
    PROVE  /\ ItemsOf(items, owners) \in Seq(T)
           /\ \A i \in Range(ItemsOf(items, owners)) : i \in Range(items) /\ i.of \in owners
<1> DEFINE n == Len(items)
<1>1. n \in Nat /\ \A k \in 1..n : items[k] \in T /\ items[k] \in Range(items)
  BY DEF Range
<1>2. PICK g : Steps(items, owners, n, g) /\ ItemsOf(items, owners) = g[n]
  BY <1>1, ItemsOfSteps
<1> DEFINE Right(s) == s \in Seq(T) /\ \A j \in 1..Len(s) : s[j] \in Range(items) /\ s[j].of \in owners
           Bad == {k \in Nat : k <= n /\ ~Right(g[k])}
<1> HIDE DEF n
<1>3. Bad = {}
  <2>1. SUFFICES ASSUME Bad # {} PROVE FALSE
    OBVIOUS
  <2>2. PICK k \in Bad : \A m \in Bad : k <= m
    BY <2>1, LeastNumber
  <2>3. CASE k = 0
    <3>1. g[k] = <<>> /\ Len(<<>>) = 0 /\ <<>> \in Seq(T)
      BY <1>2, <2>3 DEF Steps
    <3>2. Right(g[k])
      BY <2>3, <3>1
    <3> QED
      BY <2>2, <3>2
  <2>4. CASE k # 0
    <3>1. k \in 1..n /\ k - 1 \in Nat /\ k - 1 <= n /\ k - 1 \notin Bad
      BY <1>1, <2>2, <2>4
    <3>2. Right(g[k - 1])
      BY <3>1
    <3>3. g[k] = Extended(items, owners, k, g[k - 1])
      BY <1>2, <3>1 DEF Steps
    <3>4. ASSUME NEW s, Right(s) PROVE Right(Extended(items, owners, k, s))
      <4>1. CASE items[k].of \in owners
        <5> DEFINE t == Append(s, items[k])
        <5>1. /\ t \in Seq(T) /\ Len(t) = Len(s) + 1 /\ Len(s) \in Nat
              /\ \A j \in 1..Len(s) : t[j] = s[j]
              /\ t[Len(s) + 1] = items[k]
          BY <1>1, <3>1, <3>4, AppendProperties
        <5> HIDE DEF t
        <5>2. Right(t)
          BY <1>1, <3>1, <3>4, <4>1, <5>1
        <5> QED
          BY <4>1, <5>2 DEF Extended, t
      <4>2. CASE items[k].of \notin owners
        BY <3>4, <4>2 DEF Extended
      <4> QED
        BY <4>1, <4>2
    <3>5. ~Right(g[k])
      BY <2>2
    <3> HIDE DEF Right
    <3> QED
      BY <3>2, <3>3, <3>4, <3>5
  <2> QED
    BY <2>3, <2>4
<1>4. Right(g[n])
  BY <1>1, <1>3
<1> QED
  BY <1>2, <1>4 DEF Range

\* It is the whole list if all of it belongs to them, and empty if nothing does.
LEMMA ItemsOfAll ==
    ASSUME NEW T, NEW items \in Seq(T), NEW owners, \A i \in Range(items) : i.of \in owners
    PROVE  ItemsOf(items, owners) = items
<1> DEFINE n == Len(items)
<1>1. n \in Nat /\ \A k \in 1..n : items[k] \in T /\ items[k].of \in owners
  BY DEF Range
<1>2. PICK g : Steps(items, owners, n, g) /\ ItemsOf(items, owners) = g[n]
  BY <1>1, ItemsOfSteps
<1> DEFINE Right(s, k) == s \in Seq(T) /\ Len(s) = k /\ \A j \in 1..k : s[j] = items[j]
           Bad == {k \in Nat : k <= n /\ ~Right(g[k], k)}
<1> HIDE DEF n
<1>3. Bad = {}
  <2>1. SUFFICES ASSUME Bad # {} PROVE FALSE
    OBVIOUS
  <2>2. PICK k \in Bad : \A m \in Bad : k <= m
    BY <2>1, LeastNumber
  <2>3. CASE k = 0
    <3>1. g[k] = <<>> /\ Len(<<>>) = 0 /\ <<>> \in Seq(T)
      BY <1>2, <2>3 DEF Steps
    <3>2. Right(g[k], k)
      BY <2>3, <3>1
    <3> QED
      BY <2>2, <3>2
  <2>4. CASE k # 0
    <3>1. k \in 1..n /\ k - 1 \in Nat /\ k - 1 <= n /\ k - 1 \notin Bad
      BY <1>1, <2>2, <2>4
    <3>2. Right(g[k - 1], k - 1)
      BY <3>1
    <3>3. g[k] = Append(g[k - 1], items[k])
      BY <1>1, <1>2, <3>1 DEF Steps, Extended
    <3>4. ASSUME NEW s, Right(s, k - 1) PROVE Right(Append(s, items[k]), k)
      BY <1>1, <3>1, <3>4, AppendProperties
    <3>5. ~Right(g[k], k)
      BY <2>2
    <3> HIDE DEF Right
    <3> QED
      BY <3>2, <3>3, <3>4, <3>5
  <2> QED
    BY <2>3, <2>4
<1>4. Right(g[n], n)
  BY <1>1, <1>3
<1>5. ItemsOf(items, owners) \in Seq(T) /\ Len(ItemsOf(items, owners)) = Len(items)
      /\ \A j \in 1..Len(items) : ItemsOf(items, owners)[j] = items[j]
  BY <1>2, <1>4 DEF n
<1> QED
  BY <1>5, SeqEqual

LEMMA ItemsOfNone ==
    ASSUME NEW T, NEW items \in Seq(T), NEW owners, \A i \in Range(items) : i.of \notin owners
    PROVE  ItemsOf(items, owners) = <<>>
<1> DEFINE s == ItemsOf(items, owners)
<1>1. s \in Seq(T) /\ \A i \in Range(s) : i \in Range(items) /\ i.of \in owners
  BY ItemsOfType
<1> HIDE DEF s
<1>2. Range(s) = {}
  BY <1>1
<1>3. Len(s) = 0
  BY <1>1, <1>2 DEF Range
<1>4. s = <<>>
  BY <1>1, <1>3, EmptySeq
<1> QED
  BY <1>4 DEF s

----------------------------------------------------------------------------
(* Sequences *)

\* Taking out the element at i closes the gap.
LEMMA RemoveFacts ==
    ASSUME NEW T, NEW s \in Seq(T), NEW i \in DOMAIN s
    PROVE  /\ RemoveAt(s, i) \in Seq(T)
           /\ Len(RemoveAt(s, i)) = Len(s) - 1
           /\ \A k \in 1..(Len(s) - 1) : RemoveAt(s, i)[k] = IF k < i THEN s[k] ELSE s[k + 1]
<1> DEFINE n == Len(s)
           pre == SubSeq(s, 1, i - 1)
           post == SubSeq(s, i + 1, n)
           rest == pre \o post
<1>1. n \in Nat /\ i \in 1..n /\ \A k \in 1..n : s[k] \in T
  OBVIOUS
<1> HIDE DEF n
<1>2. pre \in Seq(T) /\ Len(pre) = i - 1 /\ \A k \in 1..(i - 1) : pre[k] = s[k]
  <2>1. \A k \in 1..(i - 1) : s[k] \in T
    BY <1>1
  <2>2. /\ SubSeq(s, 1, i - 1) \in Seq(T)
        /\ Len(SubSeq(s, 1, i - 1)) = IF 1 <= i - 1 THEN (i - 1) - 1 + 1 ELSE 0
        /\ \A k \in 1..((i - 1) - 1 + 1) : SubSeq(s, 1, i - 1)[k] = s[1 + k - 1]
    BY <1>1, <2>1, SubSeqProperties
  <2> QED
    BY <1>1, <2>2
<1>3. post \in Seq(T) /\ Len(post) = n - i /\ \A k \in 1..(n - i) : post[k] = s[i + k]
  <2>1. \A k \in (i + 1)..n : s[k] \in T
    BY <1>1
  <2>2. /\ SubSeq(s, i + 1, n) \in Seq(T)
        /\ Len(SubSeq(s, i + 1, n)) = IF i + 1 <= n THEN n - (i + 1) + 1 ELSE 0
        /\ \A k \in 1..(n - (i + 1) + 1) : SubSeq(s, i + 1, n)[k] = s[(i + 1) + k - 1]
    BY <1>1, <2>1, SubSeqProperties
  <2>3. ASSUME NEW k \in 1..(n - i) PROVE post[k] = s[i + k]
    <3>1. k \in 1..(n - (i + 1) + 1) /\ (i + 1) + k - 1 = i + k
      BY <1>1
    <3> QED
      BY <2>2, <3>1
  <2> QED
    BY <1>1, <2>2, <2>3
<1> HIDE DEF pre, post
<1>4. /\ rest \in Seq(T) /\ Len(rest) = (i - 1) + (n - i)
      /\ \A k \in 1..((i - 1) + (n - i)) :
             rest[k] = IF k <= i - 1 THEN pre[k] ELSE post[k - (i - 1)]
  <2>1. /\ rest \in Seq(T) /\ Len(rest) = Len(pre) + Len(post)
        /\ \A k \in 1..(Len(pre) + Len(post)) :
               rest[k] = IF k <= Len(pre) THEN pre[k] ELSE post[k - Len(pre)]
    BY <1>2, <1>3, ConcatProperties
  <2> QED
    BY <1>2, <1>3, <2>1
<1>5. RemoveAt(s, i) = rest
  BY DEF RemoveAt, pre, post, n
<1> HIDE DEF rest
<1>6. ASSUME NEW k \in 1..(n - 1) PROVE rest[k] = IF k < i THEN s[k] ELSE s[k + 1]
  <2>1. k \in 1..((i - 1) + (n - i))
    BY <1>1
  <2>2. CASE k < i
    BY <1>1, <1>2, <1>4, <2>1, <2>2
  <2>3. CASE ~(k < i)
    <3>1. k - (i - 1) \in 1..(n - i) /\ i + (k - (i - 1)) = k + 1 /\ ~(k <= i - 1)
      BY <1>1, <2>3
    <3> QED
      BY <1>3, <1>4, <2>1, <2>3, <3>1
  <2> QED
    BY <2>2, <2>3
<1>7. Len(rest) = n - 1
  BY <1>1, <1>4
<1>8. Len(s) = n
  BY DEF n
<1> QED
  BY <1>4, <1>5, <1>6, <1>7, <1>8

LEMMA RemoveRange ==
    ASSUME NEW T, NEW s \in Seq(T), NEW i \in DOMAIN s
    PROVE  /\ Range(RemoveAt(s, i)) \subseteq Range(s)
           /\ \A j \in DOMAIN s : j # i => s[j] \in Range(RemoveAt(s, i))
<1> DEFINE t == RemoveAt(s, i)
<1>1. /\ t \in Seq(T) /\ Len(t) = Len(s) - 1
      /\ \A k \in 1..(Len(s) - 1) : t[k] = IF k < i THEN s[k] ELSE s[k + 1]
  BY RemoveFacts
<1> HIDE DEF t
<1>2. Len(s) \in Nat /\ i \in 1..Len(s) /\ DOMAIN t = 1..(Len(s) - 1) /\ DOMAIN s = 1..Len(s)
  BY <1>1
<1>3. ASSUME NEW k \in DOMAIN t PROVE t[k] \in Range(s)
  BY <1>1, <1>2 DEF Range
<1>4. ASSUME NEW j \in DOMAIN s, j # i PROVE s[j] \in Range(t)
  <2>1. CASE j < i
    BY <1>1, <1>2, <2>1 DEF Range
  <2>2. CASE j > i
    <3>1. j - 1 \in 1..(Len(s) - 1) /\ ~(j - 1 < i) /\ (j - 1) + 1 = j
      BY <1>2, <2>2
    <3> QED
      BY <1>1, <1>2, <3>1 DEF Range
  <2> QED
    BY <1>2, <1>4, <2>1, <2>2
<1>5. Range(t) \subseteq Range(s)
  BY <1>3 DEF Range
<1> QED
  BY <1>4, <1>5 DEF t

LEMMA AppendRange ==
    ASSUME NEW T, NEW s \in Seq(T), NEW x \in T
    PROVE  /\ Append(s, x) \in Seq(T) /\ Len(Append(s, x)) = Len(s) + 1
           /\ Append(s, x) # <<>>
           /\ Range(Append(s, x)) = Range(s) \cup {x}
<1> DEFINE t == Append(s, x)
<1>1. /\ t \in Seq(T) /\ Len(t) = Len(s) + 1 /\ Len(s) \in Nat
      /\ t[Len(s) + 1] = x /\ \A j \in 1..Len(s) : t[j] = s[j]
  BY AppendProperties
<1> HIDE DEF t
<1>2. DOMAIN t = 1..(Len(s) + 1) /\ DOMAIN s = 1..Len(s)
  BY <1>1
<1>3. Range(t) = Range(s) \cup {x}
  BY <1>1, <1>2 DEF Range
<1>4. t # <<>>
  BY <1>1
<1> QED
  BY <1>1, <1>3, <1>4 DEF t

LEMMA ConcatRange ==
    ASSUME NEW T, NEW s \in Seq(T), NEW t \in Seq(T)
    PROVE  s \o t \in Seq(T) /\ Range(s \o t) \subseteq Range(s) \cup Range(t)
<1> DEFINE u == s \o t
<1>1. /\ u \in Seq(T) /\ Len(u) = Len(s) + Len(t) /\ Len(s) \in Nat /\ Len(t) \in Nat
      /\ \A k \in 1..(Len(s) + Len(t)) : u[k] = IF k <= Len(s) THEN s[k] ELSE t[k - Len(s)]
  BY ConcatProperties
<1> HIDE DEF u
<1>2. ASSUME NEW k \in DOMAIN u PROVE u[k] \in Range(s) \cup Range(t)
  <2>1. k \in 1..(Len(s) + Len(t))
    BY <1>1
  <2>2. CASE k <= Len(s)
    BY <1>1, <2>1, <2>2 DEF Range
  <2>3. CASE ~(k <= Len(s))
    <3>1. k - Len(s) \in 1..Len(t)
      BY <1>1, <2>1, <2>3
    <3> QED
      BY <1>1, <2>1, <2>3, <3>1 DEF Range
  <2> QED
    BY <2>2, <2>3
<1>3. Range(u) \subseteq Range(s) \cup Range(t)
  BY <1>2 DEF Range
<1> QED
  BY <1>1, <1>3 DEF u

\* Lists in which nothing is there twice.
Single(s) == \A j, k \in DOMAIN s : s[j] = s[k] => j = k

LEMMA AppendSingle ==
    ASSUME NEW T, NEW s \in Seq(T), NEW x \in T, Single(s), x \notin Range(s)
    PROVE  Single(Append(s, x))
<1> DEFINE t == Append(s, x)
<1>1. /\ t \in Seq(T) /\ Len(t) = Len(s) + 1 /\ Len(s) \in Nat
      /\ t[Len(s) + 1] = x /\ \A j \in 1..Len(s) : t[j] = s[j] /\ s[j] # x
  BY AppendProperties DEF Range
<1> HIDE DEF t
<1>2. DOMAIN t = 1..(Len(s) + 1) /\ DOMAIN s = 1..Len(s)
  BY <1>1
<1>3. Single(t)
  BY <1>1, <1>2 DEF Single
<1> QED
  BY <1>3 DEF t

LEMMA RemoveSingle ==
    ASSUME NEW T, NEW s \in Seq(T), NEW i \in DOMAIN s, Single(s)
    PROVE  Single(RemoveAt(s, i))
<1> DEFINE t == RemoveAt(s, i)
<1>1. /\ t \in Seq(T) /\ Len(t) = Len(s) - 1
      /\ \A k \in 1..(Len(s) - 1) : t[k] = IF k < i THEN s[k] ELSE s[k + 1]
  BY RemoveFacts
<1> HIDE DEF t
<1>2. /\ Len(s) \in Nat /\ i \in 1..Len(s)
      /\ DOMAIN t = 1..(Len(s) - 1) /\ DOMAIN s = 1..Len(s)
  BY <1>1
<1>3. Single(t)
  BY <1>1, <1>2 DEF Single
<1> QED
  BY <1>3 DEF t

LEMMA PlaceFacts ==
    ASSUME NEW s, NEW k \in DOMAIN s
    PROVE  /\ Place(s, s[k]) \in DOMAIN s /\ s[Place(s, s[k])] = s[k]
           /\ Single(s) => Place(s, s[k]) = k
BY DEF Place, Single

\* The greatest number of a list of items.
LEMMA MaxFacts ==
    ASSUME NEW T, \A x \in T : x.n \in Nat, NEW s \in Seq(T), NEW m,
           m = Max({0} \cup {i.n : i \in Range(s)})
    PROVE  m \in Nat /\ \A i \in Range(s) : i.n <= m
<1> DEFINE last == Len(s)
<1>1. last \in Nat /\ \A k \in 1..last : s[k].n \in Nat
  OBVIOUS
<1>0. DOMAIN s = 1..last
  OBVIOUS
<1> HIDE DEF last
<1> DEFINE Top(k, x) == /\ x = 0 \/ \E j \in 1..k : x = s[j].n
                        /\ x \in Nat /\ \A j \in 1..k : s[j].n <= x
           Bad == {k \in Nat : k <= last /\ ~ \E x : Top(k, x)}
<1>2. Bad = {}
  <2>1. SUFFICES ASSUME Bad # {} PROVE FALSE
    OBVIOUS
  <2>2. PICK k \in Bad : \A j \in Bad : k <= j
    BY <2>1, LeastNumber
  <2>3. CASE k = 0
    <3>1. Top(0, 0)
      OBVIOUS
    <3> QED
      BY <2>2, <2>3, <3>1
  <2>4. CASE k # 0
    <3>1. k \in 1..last /\ k - 1 \in Nat /\ k - 1 <= last
      BY <1>1, <2>2, <2>4
    <3>2. PICK x : Top(k - 1, x)
      <4>1. k - 1 \notin Bad
        <5>1. ~(k <= k - 1)
          BY <3>1
        <5> HIDE DEF Bad
        <5> QED
          BY <2>2, <5>1
      <4> HIDE DEF Top
      <4> QED
        BY <3>1, <4>1
    <3>3. \A j \in 1..k : j \in 1..(k - 1) \/ j = k
      BY <3>1
    <3>4. s[k].n \in Nat
      BY <1>1, <3>1
    <3>5. CASE s[k].n <= x
      <4>1. Top(k, x)
        BY <3>1, <3>2, <3>3, <3>5
      <4> QED
        BY <2>2, <4>1
    <3>6. CASE s[k].n > x
      <4>1. Top(k, s[k].n)
        BY <1>1, <3>1, <3>2, <3>3, <3>4, <3>6
      <4> QED
        BY <2>2, <4>1
    <3> QED
      BY <3>2, <3>4, <3>5, <3>6
  <2> QED
    BY <2>3, <2>4
<1>3. PICK x : Top(last, x)
  <2>1. last \in Nat /\ last <= last
    BY <1>1
  <2>2. last \notin Bad
    <3> HIDE DEF Bad
    <3> QED
      BY <1>2
  <2> HIDE DEF Top
  <2> QED
    BY <2>1, <2>2
<1> DEFINE F == {0} \cup {i.n : i \in Range(s)}
<1>4. \A y : y \in F <=> y = 0 \/ \E j \in 1..last : y = s[j].n
  BY <1>0 DEF Range
<1>5. x \in F /\ \A y \in F : x >= y
  <2>1. /\ x = 0 \/ \E j \in 1..last : x = s[j].n
        /\ x \in Nat /\ \A j \in 1..last : s[j].n <= x
    BY <1>3
  <2> HIDE DEF F
  <2> QED
    BY <1>1, <1>4, <2>1
<1>6. m \in F /\ \A y \in F : m >= y
  BY <1>5 DEF Max
<1> HIDE DEF F
<1>7. \A y \in F : y \in Nat
  BY <1>1, <1>4
<1>8. \A i \in Range(s) : i.n \in F
  BY DEF F
<1> QED
  BY <1>6, <1>7, <1>8

----------------------------------------------------------------------------
(* The tables *)

PartsOf(k) == (UNION Range(k.loading.stages)) \cup k.opening.copied

\* What a table has to be like.  What is not copied at opening is emptied, or is
\* asked for at once and hidden or known to lag; only the dashboard is otherwise.
\* Clicks are about parts the panel has.
GoodPanel(k) ==
    LET stages == k.loading.stages
        parts == PartsOf(k)
        copied == k.opening.copied
    IN
    /\ stages \in Seq(SUBSET parts)
    /\ \A p \in parts :
           \/ p \in copied
           \/ p \in k.opening.cleared /\ k.opening.kind = "dialog"
           \/ stages # <<>> /\ p \in stages[1]
              /\ (p \in Lagging \/ k.hides \in {"whole", "lists"})
           \/ k = Dashboard
    /\ k = Dashboard => k.opening.kind = "page"
    /\ copied \subseteq {"row"}
    /\ "refresh" \in k.clicks => k = Dashboard /\ k.hides = "never" /\ copied = {}
    /\ "clone" \in k.clicks => k.opening.kind # "dialog" /\ k # Dashboard
    /\ k.clicks \cap {"upload", "remove"} # {} => "attachments" \in parts
    /\ "attach" \in k.clicks => stages # <<>> /\ "bugs" \in stages[Len(stages)]
    /\ "bugs" \in parts => "executions" \in parts
    /\ "transition" \in k.clicks => /\ "row" \in copied /\ k.opening.kind = "dialog"
                                    /\ \A j \in DOMAIN stages : "row" \notin stages[j]

LEMMA PartsOfFacts ==
    ASSUME NEW k
    PROVE  /\ k.loading.stages = <<>> => PartsOf(k) = k.opening.copied
           /\ \A a : k.loading.stages = <<a>> => PartsOf(k) = a \cup k.opening.copied
           /\ \A a, b : k.loading.stages = <<a, b>> =>
                  PartsOf(k) = a \cup b \cup k.opening.copied
           /\ \A a, b, c, d : k.loading.stages = <<a, b, c, d>> =>
                  PartsOf(k) = a \cup b \cup c \cup d \cup k.opening.copied
<1>1. Range(<<>>) = {}
  BY DEF Range
<1>2. \A a : Range(<<a>>) = {a}
  BY DEF Range
<1>3. \A a, b : Range(<<a, b>>) = {a, b}
  BY DEF Range
<1>4. \A a, b, c, d : Range(<<a, b, c, d>>) = {a, b, c, d}
  BY DEF Range
<1>5. /\ UNION Range(<<>>) = {}
      /\ \A a : UNION Range(<<a>>) = a
      /\ \A a, b : UNION Range(<<a, b>>) = a \cup b
      /\ \A a, b, c, d : UNION Range(<<a, b, c, d>>) = a \cup b \cup c \cup d
  BY <1>1, <1>2, <1>3, <1>4
<1>6. PartsOf(k) = (UNION Range(k.loading.stages)) \cup k.opening.copied
  BY DEF PartsOf
<1>7. ASSUME k.loading.stages = <<>> PROVE PartsOf(k) = k.opening.copied
  <2>1. UNION Range(k.loading.stages) = {}
    BY <1>5, <1>7
  <2> QED
    BY <1>6, <2>1
<1>8. ASSUME NEW a, k.loading.stages = <<a>>
      PROVE  PartsOf(k) = a \cup k.opening.copied
  <2>1. UNION Range(k.loading.stages) = a
    BY <1>5, <1>8
  <2> QED
    BY <1>6, <2>1
<1>9. ASSUME NEW a, NEW b, k.loading.stages = <<a, b>>
      PROVE  PartsOf(k) = a \cup b \cup k.opening.copied
  <2>1. UNION Range(k.loading.stages) = a \cup b
    BY <1>5, <1>9
  <2> QED
    BY <1>6, <2>1
<1>10. ASSUME NEW a, NEW b, NEW c, NEW d, k.loading.stages = <<a, b, c, d>>
      PROVE  PartsOf(k) = a \cup b \cup c \cup d \cup k.opening.copied
  <2>1. UNION Range(k.loading.stages) = a \cup b \cup c \cup d
    BY <1>5, <1>10
  <2> QED
    BY <1>6, <2>1
<1> QED
  BY Zenon, <1>7, <1>8, <1>9, <1>10

LEMMA SnapshotIsGood == GoodPanel(Snapshot)
<1>1. /\ Snapshot.loading.stages = <<>> /\ Snapshot.opening.copied = {"row"}
      /\ Snapshot.clicks = {}
      /\ Snapshot.opening.kind = "dialog" /\ Snapshot.hides = "never"
  BY DEF Snapshot, Panel, Opening, Loading, Failing
<1>2. PartsOf(Snapshot) = {"row"}
  BY <1>1, PartsOfFacts
<1>3. Snapshot # Dashboard
  BY <1>1 DEF Dashboard, Panel, DashboardClicks
<1> QED
  BY <1>1, <1>2, <1>3 DEF GoodPanel

LEMMA RunViewIsGood == GoodPanel(RunView)
<1>1. /\ RunView.loading.stages = <<{"executions"}, {"bugs"}>>
      /\ RunView.opening.copied = {"row"} /\ RunView.opening.cleared = {"bugs"}
      /\ RunView.clicks = {"attach"}
      /\ RunView.opening.kind = "dialog" /\ RunView.hides = "whole"
  BY DEF RunView, Panel, Opening, Loading, Failing, RunViewOpening, RunViewLoading,
         RunViewFailing, RunViewShows, RunViewClicks
<1>2. PartsOf(RunView) = {"row", "executions", "bugs"}
  <2>1. PartsOf(RunView) = {"executions"} \cup {"bugs"} \cup {"row"}
    BY <1>1, PartsOfFacts
  <2> QED
    BY <2>1
<1>3. RunView # Dashboard
  BY <1>1 DEF Dashboard, Panel, DashboardClicks
<1>4. <<{"executions"}, {"bugs"}>> \in Seq(SUBSET {"row", "executions", "bugs"})
  OBVIOUS
<1> QED
  BY <1>1, <1>2, <1>3, <1>4 DEF GoodPanel

LEMMA SuiteViewIsGood == GoodPanel(SuiteView)
<1>1. /\ SuiteView.loading.stages = <<{"row", "cases"}>>
      /\ SuiteView.opening.copied = {"row"} /\ SuiteView.opening.cleared = {"cases"}
      /\ SuiteView.clicks = {}
      /\ SuiteView.opening.kind = "dialog" /\ SuiteView.hides = "bare"
  BY DEF SuiteView, Panel, Opening, Loading, Failing, SuiteViewOpening, SuiteViewLoading,
         SuiteViewFailing, SuiteViewShows
<1>2. PartsOf(SuiteView) = {"row", "cases"}
  <2>1. PartsOf(SuiteView) = {"row", "cases"} \cup {"row"}
    BY <1>1, PartsOfFacts
  <2> QED
    BY <2>1
<1>3. SuiteView # Dashboard
  BY <1>1 DEF Dashboard, Panel, DashboardClicks
<1>4. <<{"row", "cases"}>> \in Seq(SUBSET {"row", "cases"})
  OBVIOUS
<1> QED
  BY <1>1, <1>2, <1>3, <1>4 DEF GoodPanel

LEMMA DefectViewIsGood == GoodPanel(DefectView)
<1>1. /\ DefectView.loading.stages = <<{"attachments"}>>
      /\ DefectView.opening.copied = {"row"}
      /\ DefectView.clicks = {"transition"}
      /\ DefectView.opening.kind = "dialog" /\ DefectView.hides = "never"
  BY DEF DefectView, Panel, Opening, Loading, Failing, DefectViewOpening,
         DefectViewLoading, DefectViewFailing, DefectViewShows, DefectViewClicks
<1>2. PartsOf(DefectView) = {"row", "attachments"}
  <2>1. PartsOf(DefectView) = {"attachments"} \cup {"row"}
    BY <1>1, PartsOfFacts
  <2> QED
    BY <2>1
<1>3. DefectView # Dashboard
  BY <1>1 DEF Dashboard, Panel, DashboardClicks
<1>4. <<{"attachments"}>> \in Seq(SUBSET {"row", "attachments"})
  OBVIOUS
<1> QED
  BY <1>1, <1>2, <1>3, <1>4 DEF GoodPanel, Lagging

LEMMA DefectEditIsGood == GoodPanel(DefectEdit)
<1>1. /\ DefectEdit.loading.stages = <<{"attachments"}>>
      /\ DefectEdit.opening.copied = {}
      /\ DefectEdit.clicks = {"upload", "remove"}
      /\ DefectEdit.opening.kind = "dialog" /\ DefectEdit.hides = "never"
  BY DEF DefectEdit, Panel, Opening, Loading, Failing, DefectEditOpening,
         DefectEditLoading, DefectEditFailing, DefectEditShows, DefectEditClicks
<1>2. PartsOf(DefectEdit) = {"attachments"}
  BY <1>1, PartsOfFacts
<1>3. DefectEdit # Dashboard
  BY <1>1 DEF Dashboard, Panel, DashboardClicks
<1>4. <<{"attachments"}>> \in Seq(SUBSET {"attachments"})
  OBVIOUS
<1> QED
  BY <1>1, <1>2, <1>3, <1>4 DEF GoodPanel, Lagging

LEMMA ReportRunsFacts ==
    /\ ReportRuns.loading.stages = <<{"runs"}>>
    /\ ReportRuns.opening.copied = {} /\ ReportRuns.opening.cleared = {}
    /\ ReportRuns.clicks = {"pick"} /\ ReportRuns.failing.keeps = {}
    /\ ReportRuns.opening.kind = "page" /\ ReportRuns.hides = "lists"
    /\ PartsOf(ReportRuns) = {"runs"}
<1>1. /\ ReportRuns.loading.stages = <<{"runs"}>>
      /\ ReportRuns.opening.copied = {} /\ ReportRuns.opening.cleared = {}
      /\ ReportRuns.clicks = {"pick"} /\ ReportRuns.failing.keeps = {}
      /\ ReportRuns.opening.kind = "page" /\ ReportRuns.hides = "lists"
  BY DEF ReportRuns, Panel, Opening, Loading, Failing,
         ReportRunsLoading, ReportRunsFailing, ReportRunsShows, ReportRunsClicks
<1> QED
  BY <1>1, PartsOfFacts

LEMMA ReportRunsIsGood == GoodPanel(ReportRuns)
<1>1. ReportRuns # Dashboard
  BY ReportRunsFacts DEF Dashboard, Panel, DashboardClicks
<1>2. <<{"runs"}>> \in Seq(SUBSET {"runs"})
  OBVIOUS
<1> QED
  BY <1>1, <1>2, ReportRunsFacts DEF GoodPanel

LEMMA CaseDetailIsGood == GoodPanel(CaseDetail)
<1>1. /\ CaseDetail.loading.stages = <<{"row", "versions"}>>
      /\ CaseDetail.opening.copied = {}
      /\ CaseDetail.clicks = {"clone"}
      /\ CaseDetail.opening.kind = "page" /\ CaseDetail.hides = "whole"
  BY DEF CaseDetail, Panel, Opening, Loading, Failing,
         CaseDetailLoading, CaseDetailFailing, CaseDetailShows, CaseDetailClicks
<1>2. PartsOf(CaseDetail) = {"row", "versions"}
  BY <1>1, PartsOfFacts
<1>3. CaseDetail # Dashboard
  BY <1>1 DEF Dashboard, Panel, DashboardClicks
<1>4. <<{"row", "versions"}>> \in Seq(SUBSET {"row", "versions"})
  OBVIOUS
<1> QED
  BY <1>1, <1>2, <1>3, <1>4 DEF GoodPanel

LEMMA BugSearchIsGood == GoodPanel(BugSearch)
<1>1. /\ BugSearch.loading.stages = <<{"found"}>>
      /\ BugSearch.opening.copied = {}
      /\ BugSearch.clicks = {"pick"}
      /\ BugSearch.opening.kind = "field" /\ BugSearch.hides = "bare"
  BY DEF BugSearch, Panel, Opening, Loading, Failing, BugSearchOpening,
         BugSearchLoading, BugSearchFailing, BugSearchShows, BugSearchClicks
<1>2. PartsOf(BugSearch) = {"found"}
  BY <1>1, PartsOfFacts
<1>3. BugSearch # Dashboard
  BY <1>1 DEF Dashboard, Panel, DashboardClicks
<1>4. <<{"found"}>> \in Seq(SUBSET {"found"})
  OBVIOUS
<1> QED
  BY <1>1, <1>2, <1>3, <1>4 DEF GoodPanel, Lagging

LEMMA DashboardIsGood == GoodPanel(Dashboard)
<1>1. /\ Dashboard.loading.stages = <<{"cases"}, {"runs"}, {"executions"}, {"defects"}>>
      /\ Dashboard.opening.copied = {}
      /\ Dashboard.clicks = {"refresh"}
      /\ Dashboard.opening.kind = "page" /\ Dashboard.hides = "never"
  BY DEF Dashboard, Panel, Opening, Loading, Failing,
         DashboardLoading, DashboardFailing, DashboardShows, DashboardClicks
<1>2. PartsOf(Dashboard) = {"cases", "runs", "executions", "defects"}
  BY <1>1, PartsOfFacts
<1>3. <<{"cases"}, {"runs"}, {"executions"}, {"defects"}>>
          \in Seq(SUBSET {"cases", "runs", "executions", "defects"})
  OBVIOUS
<1> QED
  BY <1>1, <1>2, <1>3 DEF GoodPanel

LEMMA TablesAreGood == \A k \in Panels : GoodPanel(k)
BY SnapshotIsGood, RunViewIsGood, SuiteViewIsGood, DefectViewIsGood, DefectEditIsGood,
   ReportRunsIsGood, CaseDetailIsGood, BugSearchIsGood, DashboardIsGood
DEF Panels, Snapshots, ProjectView, RoleView, UserView, EpicView, StoryView, AuditDrawer

----------------------------------------------------------------------------
(* What the types say *)

LEMMA PanelFacts ==
    ASSUME PanelTypeOK
    PROVE  /\ GoodPanel(panel) /\ Parts = PartsOf(panel)
           /\ Stages \in Seq(SUBSET Parts)
           /\ Len(Stages) \in Nat /\ DOMAIN Stages = 1..Len(Stages)
           /\ \A j \in 1..Len(Stages) : Stages[j] \subseteq Parts
           /\ panel.opening.copied \subseteq Parts
           /\ \A p \in Parts :
                  p \in panel.opening.copied \/ \E j \in 1..Len(Stages) : p \in Stages[j]
<1>1. GoodPanel(panel) /\ Parts = PartsOf(panel)
  BY TablesAreGood DEF PanelTypeOK, Parts, PartsOf, Stages
<1>2. Stages \in Seq(SUBSET Parts)
  BY <1>1 DEF GoodPanel, Stages
<1>3. /\ Len(Stages) \in Nat /\ DOMAIN Stages = 1..Len(Stages)
      /\ \A j \in 1..Len(Stages) : Stages[j] \in SUBSET Parts
  BY <1>2
<1>4. /\ panel.opening.copied \subseteq Parts
      /\ \A p \in Parts : p \in panel.opening.copied \/ p \in UNION Range(Stages)
  BY DEF Parts
<1>5. ASSUME NEW p \in UNION Range(Stages) PROVE \E j \in 1..Len(Stages) : p \in Stages[j]
  BY <1>3 DEF Range
<1> QED
  BY <1>1, <1>2, <1>3, <1>4, <1>5

LEMMA LoadFacts ==
    ASSUME PanelTypeOK, NEW i \in DOMAIN loads
    PROVE  /\ loads[i] \in LoadSet
           /\ loads[i].of \in Subjects /\ loads[i].at \in 1..Len(Stages)
           /\ loads[i].got \subseteq Contents /\ loads[i].missed \subseteq Parts
           /\ loads[i].merge \in BOOLEAN
           /\ Stages[loads[i].at] \subseteq Parts
           /\ Len(loads) \in Nat /\ i \in 1..Len(loads) /\ loads[i] \in Range(loads)
<1>1. /\ loads[i] \in LoadSet /\ Len(loads) \in Nat /\ i \in 1..Len(loads)
      /\ loads[i] \in Range(loads)
  BY DEF PanelTypeOK, Range
<1>2. /\ loads[i].of \in Subjects /\ loads[i].at \in 1..Len(Stages)
      /\ loads[i].got \subseteq Contents /\ loads[i].missed \subseteq Parts
      /\ loads[i].merge \in BOOLEAN
  BY <1>1 DEF LoadSet
<1> QED
  BY <1>1, <1>2, PanelFacts

LEMMA CallFacts ==
    ASSUME PanelTypeOK, NEW i \in DOMAIN calls
    PROVE  /\ calls[i] \in CallSet
           /\ calls[i].kind \in panel.clicks \ {"pick", "refresh"}
           /\ calls[i].of \in Subjects /\ calls[i].at \in Nat
           /\ calls[i].item \subseteq Items /\ calls[i].done \in BOOLEAN
           /\ Len(calls) \in Nat /\ i \in 1..Len(calls) /\ calls[i] \in Range(calls)
<1>1. /\ calls[i] \in CallSet /\ Len(calls) \in Nat /\ i \in 1..Len(calls)
      /\ calls[i] \in Range(calls)
  BY DEF PanelTypeOK, Range
<1>2. /\ calls[i].kind \in panel.clicks \ {"pick", "refresh"}
      /\ calls[i].of \in Subjects /\ calls[i].at \in Nat
      /\ calls[i].item \subseteq Items /\ calls[i].done \in BOOLEAN
  BY <1>1 DEF CallSet
<1> QED
  BY <1>1, <1>2

\* The panel stays what it is.
LEMMA SameTable ==
    ASSUME UNCHANGED panel
    PROVE  /\ Stages' = Stages /\ Parts' = Parts /\ Contents' = Contents
           /\ LoadSet' = LoadSet /\ CallSet' = CallSet /\ Reachable' = Reachable
           /\ Covers' = Covers
           /\ \A l : Coming(l)' = Coming(l)
BY DEF Stages, Parts, Contents, LoadSet, CallSet, Reachable, Coming, Covers

\* The parts of what a subject has, or the screen shows.
LEMMA ContentFacts ==
    ASSUME NEW g \in Contents, NEW p \in Parts
    PROVE  /\ g[p] \in Seq(Items) /\ Range(g[p]) \subseteq Items
           /\ Len(g[p]) \in Nat /\ DOMAIN g[p] = 1..Len(g[p])
<1>1. g[p] \in Seq(Items)
  BY DEF Contents
<1> HIDE DEF Items
<1> QED
  BY <1>1 DEF Range

LEMMA ItemFacts ==
    /\ \A s \in Subjects, n \in Nat : Item(s, n) \in Items /\ Item(s, n).of = s /\ Item(s, n).n = n
    /\ \A x \in Items : x.of \in Subjects /\ x.n \in Nat /\ x = Item(x.of, x.n)
BY DEF Items, Item

LEMMA FreshFacts ==
    ASSUME PanelTypeOK, NEW s \in Subjects, NEW p \in Parts
    PROVE  /\ FreshItem(s, p) \in Items /\ FreshItem(s, p).of = s
           /\ FreshItem(s, p) \notin Range(stored[s][p])
<1>1. stored[s][p] \in Seq(Items)
  BY ContentFacts DEF PanelTypeOK
<1> DEFINE m == Max({0} \cup {i.n : i \in Range(stored[s][p])})
<1>2. m \in Nat /\ \A i \in Range(stored[s][p]) : i.n <= m
  <2>1. \A x \in Items : x.n \in Nat
    BY ItemFacts
  <2> HIDE DEF Items
  <2> QED
    BY <1>1, <2>1, MaxFacts
<1>3. FreshItem(s, p) = Item(s, 1 + m)
  BY DEF FreshItem
<1> HIDE DEF m
<1>4. 1 + m \in Nat /\ ~(1 + m <= m)
  BY <1>2
<1>5. Item(s, 1 + m) \in Items /\ Item(s, 1 + m).of = s /\ Item(s, 1 + m).n = 1 + m
  BY <1>4, ItemFacts
<1> QED
  BY <1>2, <1>3, <1>4, <1>5

\* What the handlers make of the screen.
LEMMA AnsweredFacts ==
    ASSUME NEW c
    PROVE  /\ c.kind = "upload" =>
                  Answered(c) = [shown EXCEPT !.attachments = Append(shown.attachments, New(c))]
           /\ c.kind = "remove" =>
                  Answered(c) = [shown EXCEPT !.attachments =
                                     IF c.at \in DOMAIN shown.attachments
                                     THEN RemoveAt(shown.attachments, c.at)
                                     ELSE shown.attachments]
           /\ c.kind = "transition" =>
                  Answered(c) = [shown EXCEPT !.row = <<Item(shown.row[1].of, New(c).n)>>]
           /\ c.kind \notin {"upload", "remove", "transition"} => Answered(c) = shown
BY DEF Answered

----------------------------------------------------------------------------
(* Loads and calls under way *)

\* One element of a sequence is put in the place of another.
LEMMA ChangeOne ==
    ASSUME NEW T, NEW s \in Seq(T), NEW i \in DOMAIN s, NEW x \in T, NEW t,
           t = [s EXCEPT ![i] = x]
    PROVE  /\ t \in Seq(T) /\ Len(t) = Len(s) /\ DOMAIN t = DOMAIN s
           /\ t[i] = x /\ \A j \in DOMAIN s : j # i => t[j] = s[j]
OBVIOUS

\* A load goes on to its next stage, or is over.
Onward(k, l, missed) ==
    /\ k.of = l.of /\ k.at = l.at + 1 /\ k.got = {} /\ k.missed = l.missed \cup missed
    /\ k.merge = l.merge

LEMMA LoadGoesOn ==
    ASSUME PanelTypeOK, NEW i \in DOMAIN loads, ~LastStage(loads[i]),
           NEW missed, missed \subseteq Parts, NEW n, n = NextStage(i, missed)
    PROVE  /\ n \in Seq(LoadSet) /\ Len(n) = Len(loads) /\ DOMAIN n = DOMAIN loads
           /\ Onward(n[i], loads[i], missed)
           /\ \A j \in DOMAIN loads : j # i => n[j] = loads[j]
           /\ \E k \in Range(n) : Onward(k, loads[i], missed)
           /\ \A k \in Range(n) :
                  \/ Onward(k, loads[i], missed)
                  \/ \E j \in DOMAIN loads : j # i /\ k = loads[j]
           /\ \A j \in DOMAIN loads : j # i => loads[j] \in Range(n)
<1> DEFINE l == loads[i]
           m == [of |-> l.of, at |-> l.at + 1, got |-> {}, missed |-> l.missed \cup missed,
                 merge |-> l.merge]
<1>1. Len(Stages) \in Nat /\ loads \in Seq(LoadSet) /\ l \in LoadSet
  BY PanelFacts, LoadFacts DEF PanelTypeOK
<1>2. /\ l.at \in 1..Len(Stages) /\ l.at # Len(Stages) /\ l.missed \subseteq Parts
      /\ l.of \in Subjects /\ l.merge \in BOOLEAN
  BY <1>1 DEF LoadSet, LastStage
<1>3. l.at + 1 \in 1..Len(Stages) /\ l.missed \cup missed \subseteq Parts
  BY <1>1, <1>2
<1>4. m \in LoadSet /\ Onward(m, l, missed)
  BY <1>2, <1>3 DEF LoadSet, Onward
<1>5. n = [loads EXCEPT ![i] = m]
  <2> DEFINE e == [loads[i] EXCEPT !.at = @ + 1, !.got = {}, !.missed = @ \cup missed]
  <2>1. e = m
    <3>1. PICK all : all = l.missed \cup missed
      OBVIOUS
    <3>2. PICK o, a, g, b, u :
              l = [of |-> o, at |-> a, got |-> g, missed |-> b, merge |-> u]
      BY <1>1 DEF LoadSet
    <3>3. PICK l1 : l1 = [l EXCEPT !.at = l.at + 1]
      OBVIOUS
    <3>4. l1 = [of |-> o, at |-> a + 1, got |-> g, missed |-> b, merge |-> u]
      BY <3>2, <3>3
    <3>5. PICK l2 : l2 = [l1 EXCEPT !.got = {}]
      OBVIOUS
    <3>6. l2 = [of |-> o, at |-> a + 1, got |-> {}, missed |-> b, merge |-> u]
      BY <3>4, <3>5
    <3>7. PICK l3 : l3 = [l2 EXCEPT !.missed = all]
      OBVIOUS
    <3>8. l3 = [of |-> o, at |-> a + 1, got |-> {}, missed |-> all, merge |-> u]
      BY <3>6, <3>7
    <3>9. e = l3
      <4>1. e = [[[l EXCEPT !.at = l.at + 1] EXCEPT !.got = {}] EXCEPT !.missed = all]
        BY Zenon, <3>1
      <4> HIDE DEF e, l
      <4> QED
        BY Zenon, <3>3, <3>5, <3>7, <4>1
    <3>10. m = [of |-> o, at |-> a + 1, got |-> {}, missed |-> all, merge |-> u]
      BY <3>1, <3>2
    <3> QED
      BY Zenon, <3>8, <3>9, <3>10
  <2>2. n = [loads EXCEPT ![i] = e]
    BY <1>1 DEF NextStage
  <2> QED
    BY <2>1, <2>2
<1> HIDE DEF l
<1>6. PICK x : x = m
  OBVIOUS
<1>7. x \in LoadSet /\ Onward(x, l, missed) /\ n = [loads EXCEPT ![i] = x]
  BY <1>4, <1>5, <1>6
<1> HIDE DEF m
<1>8. /\ n \in Seq(LoadSet) /\ Len(n) = Len(loads) /\ DOMAIN n = DOMAIN loads
      /\ n[i] = x /\ \A j \in DOMAIN loads : j # i => n[j] = loads[j]
  BY <1>1, <1>7, ChangeOne
<1> QED
  BY <1>7, <1>8 DEF Range, l

LEMMA LoadIsOver ==
    ASSUME PanelTypeOK, NEW i \in DOMAIN loads, NEW n, n = RemoveAt(loads, i)
    PROVE  /\ n \in Seq(LoadSet) /\ Len(n) = Len(loads) - 1
           /\ Range(n) \subseteq Range(loads)
           /\ \A j \in DOMAIN loads : j # i => loads[j] \in Range(n)
           /\ Len(loads) = 1 => n = <<>>
<1>1. loads \in Seq(LoadSet)
  BY DEF PanelTypeOK
<1> HIDE DEF LoadSet
<1>2. n \in Seq(LoadSet) /\ Len(n) = Len(loads) - 1
  BY <1>1, RemoveFacts
<1>3. /\ Range(n) \subseteq Range(loads)
      /\ \A j \in DOMAIN loads : j # i => loads[j] \in Range(n)
  BY <1>1, RemoveRange
<1>4. Len(loads) = 1 => n = <<>>
  BY <1>2
<1> QED
  BY <1>2, <1>3, <1>4

LEMMA CallIsOver ==
    ASSUME PanelTypeOK, NEW i \in DOMAIN calls, NEW n, n = RemoveAt(calls, i)
    PROVE  /\ n \in Seq(CallSet) /\ Len(n) = Len(calls) - 1
           /\ Range(n) \subseteq Range(calls)
           /\ Len(calls) = 1 => n = <<>>
<1>1. calls \in Seq(CallSet)
  BY DEF PanelTypeOK
<1> HIDE DEF CallSet
<1>2. n \in Seq(CallSet) /\ Len(n) = Len(calls) - 1
  BY <1>1, RemoveFacts
<1>3. Range(n) \subseteq Range(calls)
  BY <1>1, RemoveRange
<1>4. Len(calls) = 1 => n = <<>>
  BY <1>2
<1> QED
  BY <1>2, <1>3, <1>4

\* The bugs of one execution among those of all.
LEMMA MergedFacts ==
    ASSUME PanelTypeOK, NEW l, NEW p \in Parts, NEW items \in Seq(Items)
    PROVE  /\ Merged(l, p, items) \in Seq(Items)
           /\ \A x \in Range(Merged(l, p, items)) :
                  x \in Range(items) \/ (l.merge /\ x \in Range(shown[p]))
           /\ l.merge \/ Merged(l, p, items) = items
           /\ (\A x \in Range(shown[p]) : x.of = l.of) => Merged(l, p, items) = items
<1> DEFINE rest == ItemsOf(shown[p], Subjects \ {l.of})
<1>1. shown[p] \in Seq(Items)
  BY ContentFacts DEF PanelTypeOK
<1> HIDE DEF Items
<1>2. rest \in Seq(Items) /\ \A x \in Range(rest) : x \in Range(shown[p])
  BY <1>1, ItemsOfType
<1>3. (\A x \in Range(shown[p]) : x.of = l.of) => rest = <<>>
  BY <1>1, ItemsOfNone
<1>4. Merged(l, p, items) = IF l.merge THEN rest \o items ELSE items
  BY DEF Merged
<1> HIDE DEF rest
<1>5. /\ rest \o items \in Seq(Items)
      /\ Range(rest \o items) \subseteq Range(rest) \cup Range(items)
  BY <1>2, ConcatRange
<1>6. rest = <<>> => rest \o items = items
  OBVIOUS
<1> QED
  BY <1>2, <1>3, <1>4, <1>5, <1>6

LEMMA FirstLoad ==
    ASSUME PanelTypeOK, Stages # <<>>, NEW s \in Subjects
    PROVE  /\ Load(s) \in LoadSet /\ Load(s).of = s /\ Load(s).at = 1 /\ Load(s).got = {}
           /\ Load(s).missed = {} /\ ~Load(s).merge
<1>1. Len(Stages) \in Nat /\ Len(Stages) # 0
  BY PanelFacts
<1> QED
  BY <1>1 DEF Load, LoadSet

\* Where nothing is asked for, no load is under way.
LEMMA NoStages ==
    ASSUME PanelTypeOK, Stages = <<>>
    PROVE  loads = <<>> /\ Parts = panel.opening.copied
<1>1. Len(Stages) = 0
  OBVIOUS
<1>2. ASSUME NEW i \in DOMAIN loads PROVE FALSE
  BY <1>1, LoadFacts
<1>3. loads \in Seq(LoadSet)
  BY DEF PanelTypeOK
<1>4. loads = <<>>
  BY <1>2, <1>3
<1>5. \A p \in Parts : p \in panel.opening.copied
  BY <1>1, PanelFacts
<1> QED
  BY <1>4, <1>5, PanelFacts

\* Unhurried, a load or a call is the only thing under way.
LEMMA LoadAlone ==
    ASSUME PanelInv, ~hurried, NEW i \in DOMAIN loads
    PROVE  /\ i = 1 /\ Len(loads) = 1 /\ \A j \in DOMAIN loads : j = i
           /\ calls = <<>> /\ loads[i].of = subject
           /\ \A l \in Range(loads) : l = loads[i]
<1>1. /\ loads \in Seq(LoadSet) /\ calls \in Seq(CallSet)
      /\ Len(loads) + Len(calls) <= 1 /\ \A l \in Range(loads) : l.of = subject
  BY DEF PanelInv, PanelTypeOK, OneThingAtATime
<1>2. /\ Len(loads) \in Nat /\ Len(calls) \in Nat /\ i \in 1..Len(loads)
      /\ DOMAIN loads = 1..Len(loads)
  BY <1>1
<1>3. Len(loads) = 1 /\ Len(calls) = 0 /\ i = 1 /\ \A j \in DOMAIN loads : j = i
  BY <1>1, <1>2
<1>4. calls = <<>>
  BY <1>1, <1>3
<1> QED
  BY <1>1, <1>3, <1>4 DEF Range

LEMMA CallAlone ==
    ASSUME PanelInv, ~hurried, NEW i \in DOMAIN calls
    PROVE  /\ i = 1 /\ Len(calls) = 1 /\ \A j \in DOMAIN calls : j = i
           /\ loads = <<>> /\ calls[i].of = subject
           /\ \A c \in Range(calls) : c = calls[i]
<1>1. /\ loads \in Seq(LoadSet) /\ calls \in Seq(CallSet)
      /\ Len(loads) + Len(calls) <= 1 /\ \A c \in Range(calls) : c.of = subject
  BY DEF PanelInv, PanelTypeOK, OneThingAtATime
<1>2. /\ Len(loads) \in Nat /\ Len(calls) \in Nat /\ i \in 1..Len(calls)
      /\ DOMAIN calls = 1..Len(calls)
  BY <1>1
<1>3. Len(calls) = 1 /\ Len(loads) = 0 /\ i = 1 /\ \A j \in DOMAIN calls : j = i
  BY <1>1, <1>2
<1>4. loads = <<>>
  BY <1>1, <1>3
<1> QED
  BY <1>1, <1>3, <1>4 DEF Range

\* What a load leaves under way when an answer or a failure has come.
LEMMA LoadMoves ==
    ASSUME PanelTypeOK, NEW i \in DOMAIN loads, NEW missed, missed \subseteq Parts, NEW n,
           n = RemoveAt(loads, i) \/ (~LastStage(loads[i]) /\ n = NextStage(i, missed))
    PROVE  /\ n \in Seq(LoadSet) /\ Len(n) <= Len(loads)
           /\ \A k \in Range(n) : k \in Range(loads) \/ Onward(k, loads[i], missed)
           /\ \A j \in DOMAIN loads : j # i => loads[j] \in Range(n)
           /\ n = RemoveAt(loads, i) \/ \E k \in Range(n) : Onward(k, loads[i], missed)
           /\ Len(loads) = 1 =>
                  /\ n = RemoveAt(loads, i) => n = <<>>
                  /\ n = <<>> \/ (~LastStage(loads[i])
                                  /\ \A k \in Range(n) : Onward(k, loads[i], missed))
<1>1. Len(loads) \in Nat /\ i \in 1..Len(loads) /\ DOMAIN loads = 1..Len(loads)
  BY LoadFacts DEF PanelTypeOK
<1>2. CASE n = RemoveAt(loads, i)
  <2>1. /\ n \in Seq(LoadSet) /\ Len(n) = Len(loads) - 1 /\ Range(n) \subseteq Range(loads)
        /\ \A j \in DOMAIN loads : j # i => loads[j] \in Range(n)
        /\ Len(loads) = 1 => n = <<>>
    BY <1>2, LoadIsOver
  <2>2. Len(n) <= Len(loads)
    BY <1>1, <2>1
  <2> QED
    BY <1>2, <2>1, <2>2
<1>3. CASE ~LastStage(loads[i]) /\ n = NextStage(i, missed)
  <2>1. /\ n \in Seq(LoadSet) /\ Len(n) = Len(loads)
        /\ \E k \in Range(n) : Onward(k, loads[i], missed)
        /\ \A k \in Range(n) :
               \/ Onward(k, loads[i], missed)
               \/ \E j \in DOMAIN loads : j # i /\ k = loads[j]
        /\ \A j \in DOMAIN loads : j # i => loads[j] \in Range(n)
    BY <1>3, LoadGoesOn
  <2>2. n # <<>>
    BY <1>1, <2>1
  <2>3. n # RemoveAt(loads, i)
    <3>1. Len(RemoveAt(loads, i)) = Len(loads) - 1
      BY LoadIsOver
    <3> QED
      BY <1>1, <2>1, <3>1
  <2>4. \A j \in DOMAIN loads : loads[j] \in Range(loads)
    BY DEF Range
  <2>5. Len(loads) = 1 => \A k \in Range(n) : Onward(k, loads[i], missed)
    BY <1>1, <2>1
  <2> QED
    BY <1>1, <1>3, <2>1, <2>2, <2>3, <2>4, <2>5
<1> QED
  BY <1>2, <1>3

----------------------------------------------------------------------------
(* What each step keeps *)

LEMMA ServeKeeps ==
    ASSUME PanelInv, NEW i, Serve(i)
    PROVE  PanelInv'
<1> DEFINE got == [p \in Parts |->
                      IF \/ p \notin Stages[loads[i].at]
                         \/ p = "executions" /\ "runs" \in loads[i].missed
                      THEN <<>> ELSE stored[loads[i].of][p]]
<1>1. /\ i \in DOMAIN loads /\ loads[i].got = {}
      /\ loads' = [loads EXCEPT ![i].got = {got}]
      /\ UNCHANGED <<panel, stored, open, subject, shown, picked, veil,
                     calls, hurried, clouded, outdated>>
      /\ UNCHANGED <<moves, mishaps>>
  BY DEF Serve, screen, counts
<1>0. PanelTypeOK /\ StoredUnderItsSubject
  BY DEF PanelInv
<1>2. /\ Stages' = Stages /\ Parts' = Parts /\ Contents' = Contents
      /\ LoadSet' = LoadSet /\ CallSet' = CallSet /\ Reachable' = Reachable
      /\ Covers' = Covers
  BY <1>1, SameTable
<1>3. /\ loads[i] \in LoadSet /\ loads[i].of \in Subjects /\ loads \in Seq(LoadSet)
      /\ stored[loads[i].of] \in Contents
  BY <1>0, <1>1, LoadFacts DEF PanelTypeOK
<1>4. got \in Contents
  BY <1>3, ContentFacts DEF Contents
<1>5. \A p \in Parts : \A x \in Range(got[p]) : x.of = loads[i].of
  BY <1>0, <1>3 DEF StoredUnderItsSubject, Range
<1>6. \A p \in Stages[loads[i].at] :
          loads[i].missed = {} => got[p] = stored[loads[i].of][p]
  BY <1>0, <1>1, LoadFacts
<1>7. PICK g : g = got
  OBVIOUS
<1> HIDE DEF got
<1>8. PICK m : m = [loads[i] EXCEPT !.got = {g}]
  OBVIOUS
<1>9. /\ m \in LoadSet /\ m.got = {g}
      /\ m.of = loads[i].of /\ m.at = loads[i].at /\ m.missed = loads[i].missed
      /\ m.merge = loads[i].merge
  <2>1. {g} \subseteq Contents
    BY <1>4, <1>7
  <2> QED
    BY <1>3, <1>8, <2>1 DEF LoadSet
<1>10. loads' = [loads EXCEPT ![i] = m]
  BY <1>1, <1>7, <1>8
<1>11. /\ loads' \in Seq(LoadSet) /\ Len(loads') = Len(loads) /\ DOMAIN loads' = DOMAIN loads
       /\ loads'[i] = m /\ \A j \in DOMAIN loads : j # i => loads'[j] = loads[j]
  <2>1. i \in DOMAIN loads /\ loads \in Seq(LoadSet) /\ m \in LoadSet
    BY <1>1, <1>3, <1>9
  <2> QED
    BY <1>10, <2>1, ChangeOne
<1>12. \A j \in DOMAIN loads : /\ loads'[j].of = loads[j].of /\ loads'[j].at = loads[j].at
                               /\ loads'[j].missed = loads[j].missed
                               /\ loads'[j].merge = loads[j].merge
  BY <1>9, <1>11
<1>13. /\ \A l \in Range(loads) : \E k \in Range(loads') :
              /\ k.of = l.of /\ k.at = l.at /\ k.missed = l.missed /\ k.merge = l.merge
       /\ \A k \in Range(loads') : \E l \in Range(loads) :
              /\ k.of = l.of /\ k.at = l.at /\ k.missed = l.missed /\ k.merge = l.merge
  BY <1>11, <1>12 DEF Range
<1>14. \A k \in Range(loads') : k = m \/ k \in Range(loads)
  BY <1>11 DEF Range
<1>21. PanelTypeOK'
  BY <1>0, <1>1, <1>2, <1>11 DEF PanelTypeOK
<1>22. StoredUnderItsSubject'
  <2>1. \A l \in Range(loads') : \A h \in l.got, p \in Parts :
            \A x \in Range(h[p]) : x.of = l.of
    BY <1>0, <1>5, <1>7, <1>9, <1>14 DEF StoredUnderItsSubject
  <2> QED
    BY <1>0, <1>1, <1>2, <2>1 DEF StoredUnderItsSubject
<1>23. CallsMakeItems' /\ RowIsShown' /\ PickedIsListed'
  BY <1>1 DEF PanelInv, CallsMakeItems, RowIsShown, PickedIsListed
<1>24. OneThingAtATime'
  BY <1>1, <1>11, <1>13 DEF PanelInv, OneThingAtATime
<1>25. VeilIsBacked'
  <2>1. IsOpening' = IsOpening
    BY <1>13 DEF IsOpening
  <2> QED
    BY <1>1, <2>1 DEF PanelInv, VeilIsBacked
<1>26. PartsAreOfTheSubject'
  <2>1. \A p \in Parts : (\E l \in Range(loads) : ~l.merge /\ p \in Stages[l.at])
                        => \E l \in Range(loads') : ~l.merge /\ p \in Stages[l.at]
    BY <1>13
  <2>2. (\A l \in Range(loads) : l.of = subject) => \A l \in Range(loads') : l.of = subject
    BY <1>13
  <2> QED
    BY <1>1, <1>2, <2>1, <2>2 DEF PanelInv, PartsAreOfTheSubject
<1>27. PartsAreCurrent'
  <2>1. SUFFICES ASSUME open, ~hurried, ~clouded
                 PROVE  PartsAreCurrent'
    BY <1>1 DEF PartsAreCurrent
  <2>2. loads[i].of = subject /\ \A l \in Range(loads) : l = loads[i]
    BY <1>1, <2>1, LoadAlone
  <2>3. \A l \in Range(loads) :
            l.missed = {} /\ \A h \in l.got, p \in Stages[l.at] : h[p] = stored[subject][p]
    BY <2>1 DEF PanelInv, PartsAreCurrent
  <2>4. loads[i].missed = {}
    BY <1>1, <2>3 DEF Range
  <2>5. \A h \in m.got, p \in Stages[m.at] : h[p] = stored[subject][p]
    BY <1>6, <1>7, <1>9, <2>2, <2>4
  <2>6. \A l \in Range(loads') :
            l.missed = {} /\ \A h \in l.got, p \in Stages[l.at] : h[p] = stored[subject][p]
    BY <1>9, <1>14, <2>3, <2>4, <2>5
  <2>7. Due' = Due
    BY <1>1 DEF Due, Answered, New
  <2>8. \A p \in Parts : (\E l \in Range(loads) : p \in Coming(l))
                        => \E l \in Range(loads') : p \in Coming(l)'
    BY <1>2, <1>13 DEF Coming
  <2>9. \A c \in Range(calls) : c.kind = "remove" /\ ~c.done =>
            c.at \in DOMAIN shown.attachments /\ c.item = {shown.attachments[c.at]}
    BY <2>1 DEF PanelInv, PartsAreCurrent
  <2>10. \A p \in Parts :
             \/ Due'[p] = stored[subject][p]
             \/ \E l \in Range(loads') : p \in Coming(l)'
             \/ \E c \in Range(calls) : c.kind = "attach" /\ c.done /\ p = "bugs"
             \/ p = "row" /\ outdated
    BY <2>1, <2>7, <2>8 DEF PanelInv, PartsAreCurrent
  <2> QED
    BY Zenon, <1>1, <1>2, <2>1, <2>6, <2>9, <2>10 DEF PartsAreCurrent
<1> QED
  BY <1>21, <1>22, <1>23, <1>24, <1>25, <1>26, <1>27 DEF PanelInv

LEMMA ArriveKeeps ==
    ASSUME PanelInv, NEW i, Arrive(i)
    PROVE  PanelInv'
<1>1. /\ i \in DOMAIN loads
      /\ \E got \in loads[i].got :
             shown' = [p \in Parts |->
                 IF p \in Stages[loads[i].at] THEN Merged(loads[i], p, got[p]) ELSE shown[p]]
      /\ loads' = IF LastStage(loads[i]) THEN RemoveAt(loads, i) ELSE NextStage(i, {})
      /\ veil' = (veil /\ (loads[i].merge \/ ~LastStage(loads[i])))
      /\ picked' = StillPicked(shown')
      /\ UNCHANGED <<panel, stored, open, subject, calls, hurried, clouded, outdated, moves, mishaps>>
  BY DEF Arrive, counts
<1>0. /\ PanelTypeOK /\ StoredUnderItsSubject /\ CallsMakeItems /\ RowIsShown
      /\ OneThingAtATime /\ VeilIsBacked /\ PartsAreOfTheSubject /\ PickedIsListed
      /\ PartsAreCurrent
  BY DEF PanelInv
<1>2. /\ Stages' = Stages /\ Parts' = Parts /\ Contents' = Contents
      /\ LoadSet' = LoadSet /\ CallSet' = CallSet /\ Reachable' = Reachable
      /\ Covers' = Covers
  BY <1>1, SameTable
<1>3. /\ loads[i] \in LoadSet /\ loads[i].of \in Subjects /\ loads[i].got \subseteq Contents
      /\ loads[i].at \in 1..Len(Stages) /\ Len(Stages) \in Nat
      /\ Stages[loads[i].at] \subseteq Parts /\ loads[i] \in Range(loads)
      /\ loads[i].merge \in BOOLEAN
  BY <1>0, <1>1, LoadFacts, PanelFacts
<1>4. PICK got \in loads[i].got :
          shown' = [p \in Parts |->
              IF p \in Stages[loads[i].at] THEN Merged(loads[i], p, got[p]) ELSE shown[p]]
  BY <1>1
<1>5. /\ \A p \in Parts : got[p] \in Seq(Items) /\ shown[p] \in Seq(Items)
      /\ \A p \in Parts : \A x \in Range(got[p]) : x.of = loads[i].of
  BY <1>0, <1>3, <1>4, ContentFacts DEF PanelTypeOK, StoredUnderItsSubject
<1>6. shown' \in Contents
  <2>1. ASSUME NEW p \in Parts
        PROVE  (IF p \in Stages[loads[i].at] THEN Merged(loads[i], p, got[p]) ELSE shown[p])
                   \in Seq(Items)
    BY <1>0, <1>5, MergedFacts
  <2> QED
    BY <1>4, <2>1 DEF Contents
<1>7. /\ loads' \in Seq(LoadSet) /\ Len(loads') <= Len(loads)
      /\ \A k \in Range(loads') : k \in Range(loads) \/ Onward(k, loads[i], {})
      /\ \A j \in DOMAIN loads : j # i => loads[j] \in Range(loads')
      /\ LastStage(loads[i]) \/ \E k \in Range(loads') : Onward(k, loads[i], {})
      /\ Len(loads) = 1 =>
             \A k \in Range(loads') : ~LastStage(loads[i]) /\ Onward(k, loads[i], {})
  <2>1. PICK n : n = loads'
    OBVIOUS
  <2>2. /\ n = RemoveAt(loads, i) \/ (~LastStage(loads[i]) /\ n = NextStage(i, {}))
        /\ LastStage(loads[i]) => n = RemoveAt(loads, i)
        /\ ~LastStage(loads[i]) => n = NextStage(i, {})
    BY <1>1, <2>1
  <2>3. /\ n \in Seq(LoadSet) /\ Len(n) <= Len(loads)
        /\ \A k \in Range(n) : k \in Range(loads) \/ Onward(k, loads[i], {})
        /\ \A j \in DOMAIN loads : j # i => loads[j] \in Range(n)
        /\ n = RemoveAt(loads, i) \/ \E k \in Range(n) : Onward(k, loads[i], {})
        /\ Len(loads) = 1 =>
               n = <<>> \/ (~LastStage(loads[i])
                            /\ \A k \in Range(n) : Onward(k, loads[i], {}))
    BY <1>0, <1>1, <2>2, LoadMoves
  <2>4. \A k \in Range(<<>>) : FALSE
    BY DEF Range
  <2>5. ~LastStage(loads[i]) => \E k \in Range(n) : Onward(k, loads[i], {})
    BY <1>0, <1>1, <2>2, LoadGoesOn
  <2> QED
    BY <2>1, <2>3, <2>4, <2>5
<1>8. \A l \in Range(loads) :
          l \in Range(loads') \/ l = loads[i]
  BY <1>7 DEF Range
<1>9. /\ picked' \subseteq picked
      /\ panel = ReportRuns => picked' \subseteq Range(shown'.runs)
  BY <1>1 DEF StillPicked
<1>21. PanelTypeOK'
  BY <1>0, <1>1, <1>2, <1>6, <1>7, <1>9 DEF PanelTypeOK
<1>22. StoredUnderItsSubject'
  <2>1. \A l \in Range(loads') : \A h \in l.got, p \in Parts :
            \A x \in Range(h[p]) : x.of = l.of
    BY <1>0, <1>7 DEF StoredUnderItsSubject, Onward
  <2> QED
    BY <1>0, <1>1, <1>2, <2>1 DEF StoredUnderItsSubject
<1>23. "transition" \in panel.clicks => shown'.row = shown.row
  <2>1. SUFFICES ASSUME "transition" \in panel.clicks PROVE shown'.row = shown.row
    OBVIOUS
  <2>2. "row" \in Parts /\ "row" \notin Stages[loads[i].at]
    BY <1>0, <1>3, <2>1, PanelFacts DEF GoodPanel, Stages
  <2> QED
    BY <1>4, <2>2
<1>24. RowIsShown'
  BY <1>0, <1>1, <1>23 DEF RowIsShown
<1>25. CallsMakeItems'
  <2>1. \A c \in Range(calls) : c.kind \in panel.clicks
    BY <1>0, CallFacts DEF Range
  <2> QED
    BY <1>0, <1>1, <1>23, <2>1 DEF CallsMakeItems
<1>26. PickedIsListed'
  BY <1>1, <1>9 DEF PickedIsListed
<1>27. OneThingAtATime'
  <2>1. SUFFICES ASSUME ~hurried PROVE OneThingAtATime'
    BY <1>1 DEF OneThingAtATime
  <2>2. /\ Len(loads) = 1 /\ calls = <<>> /\ loads[i].of = subject
    BY <1>1, <2>1, LoadAlone
  <2>3. Len(loads') \in Nat /\ Len(calls) = 0
    BY <1>7, <2>2
  <2>4. \A l \in Range(loads') : l.of = subject
    BY <1>7, <2>2 DEF Onward
  <2>5. \A c \in Range(calls) : c.of = subject
    BY <1>0, <2>1 DEF OneThingAtATime
  <2> QED
    BY <1>1, <1>7, <2>2, <2>3, <2>4, <2>5 DEF OneThingAtATime
<1>28. VeilIsBacked'
  <2>1. ASSUME open, veil' PROVE IsOpening'
    <3>1. PICK l \in Range(loads) : ~l.merge
      BY <1>0, <1>1, <2>1 DEF VeilIsBacked, IsOpening
    <3>2. CASE l \in Range(loads')
      BY <3>1, <3>2 DEF IsOpening
    <3>3. CASE l = loads[i]
      <4>1. PICK k \in Range(loads') : Onward(k, loads[i], {})
        BY <1>1, <1>7, <2>1, <3>1, <3>3
      <4> QED
        BY <3>1, <3>3, <4>1 DEF IsOpening, Onward
    <3> QED
      BY <1>8, <3>2, <3>3
  <2>2. ASSUME open, ~hurried, IsOpening' PROVE veil' \/ panel.hides = "never"
    <3>1. PICK k \in Range(loads') : ~k.merge
      BY <2>2 DEF IsOpening
    <3>2. ~LastStage(loads[i]) /\ ~loads[i].merge
      BY <1>1, <1>7, <2>2, <3>1, LoadAlone DEF Onward
    <3>3. IsOpening
      BY <1>3, <3>2 DEF IsOpening
    <3> QED
      BY <1>0, <1>1, <2>2, <3>2, <3>3 DEF VeilIsBacked
  <2> QED
    BY <1>1, <2>1, <2>2 DEF VeilIsBacked
<1>29. PartsAreOfTheSubject'
  <2>1. ASSUME NEW p \in Parts, NEW s, s = loads[i].of, \A x \in Range(shown[p]) : x.of = s
        PROVE  \A x \in Range(shown'[p]) : x.of = s
    <3>1. CASE p \in Stages[loads[i].at]
      <4>1. shown'[p] = Merged(loads[i], p, got[p])
        BY <1>4, <3>1
      <4>2. \A x \in Range(Merged(loads[i], p, got[p])) :
                x \in Range(got[p]) \/ x \in Range(shown[p])
        BY <1>0, <1>5, MergedFacts
      <4> QED
        BY <1>5, <2>1, <4>1, <4>2
    <3>2. CASE p \notin Stages[loads[i].at]
      BY <1>4, <2>1, <3>2
    <3> QED
      BY <3>1, <3>2
  <2>2. ASSUME open, ~hurried, NEW p \in Parts
        PROVE  \/ \A x \in Range(shown'[p]) : x.of = subject
               \/ clouded /\ p \in panel.failing.keeps
    <3>1. loads[i].of = subject /\ \A l \in Range(loads) : l = loads[i]
      BY <1>1, <2>2, LoadAlone
    <3>2. \/ \A x \in Range(shown[p]) : x.of = subject
          \/ clouded /\ p \in panel.failing.keeps
          \/ ~loads[i].merge /\ p \in Stages[loads[i].at]
      BY <1>0, <2>2, <3>1 DEF PartsAreOfTheSubject
    <3>3. CASE \A x \in Range(shown[p]) : x.of = subject
      BY <2>1, <3>1, <3>3
    <3>4. CASE ~loads[i].merge /\ p \in Stages[loads[i].at]
      <4>1. shown'[p] = got[p]
        BY <1>0, <1>4, <1>5, <3>4, MergedFacts
      <4> QED
        BY <1>5, <3>1, <4>1
    <3> QED
      BY <3>2, <3>3, <3>4
  <2>3. ASSUME panel = Dashboard
        PROVE  /\ subject \in Reachable
               /\ \A l \in Range(loads') : l.of = subject
               /\ \A p \in Parts : \A x \in Range(shown'[p]) : x.of = subject
    <3>1. /\ subject \in Reachable /\ \A l \in Range(loads) : l.of = subject
          /\ \A p \in Parts : \A x \in Range(shown[p]) : x.of = subject
      BY <1>0, <2>3 DEF PartsAreOfTheSubject
    <3>2. loads[i].of = subject
      BY <1>3, <3>1
    <3>3. \A l \in Range(loads') : l.of = subject
      BY <1>7, <3>1, <3>2 DEF Onward
    <3>4. \A p \in Parts : \A x \in Range(shown'[p]) : x.of = subject
      BY <2>1, <3>1, <3>2
    <3> QED
      BY <3>1, <3>3, <3>4
  <2> QED
    BY <1>1, <1>2, <2>2, <2>3 DEF PartsAreOfTheSubject
<1>30. PartsAreCurrent'
  <2>1. SUFFICES ASSUME open, ~hurried, ~clouded PROVE PartsAreCurrent'
    BY <1>1 DEF PartsAreCurrent
  <2>2. /\ Len(loads) = 1 /\ loads[i].of = subject /\ \A l \in Range(loads) : l = loads[i]
        /\ calls = <<>>
    BY <1>1, <2>1, LoadAlone
  <2>3. /\ loads[i].missed = {}
        /\ \A p \in Stages[loads[i].at] : got[p] = stored[subject][p]
    BY <1>0, <1>3, <1>4, <2>1 DEF PartsAreCurrent
  <2>4. \A k \in Range(loads') : k.missed = {} /\ k.got = {}
    BY <1>7, <2>2, <2>3 DEF Onward
  <2>5. \A c \in Range(calls) : FALSE
    BY <2>2 DEF Range
  <2>6. Due = shown /\ Due' = shown'
    BY <1>1, <2>2 DEF Due
  <2>7. ASSUME NEW p \in Parts
        PROVE  \/ shown'[p] = stored[subject][p]
               \/ \E l \in Range(loads') : p \in Coming(l)'
               \/ p = "row" /\ outdated
    <3>1. CASE p \in Stages[loads[i].at]
      <4>1. \/ \A x \in Range(shown[p]) : x.of = subject
            \/ ~loads[i].merge
        BY <1>0, <2>1, <2>2 DEF PartsAreOfTheSubject
      <4>2. Merged(loads[i], p, got[p]) = got[p]
        BY <1>0, <1>5, <2>2, <4>1, MergedFacts
      <4> QED
        BY <1>4, <2>3, <3>1, <4>2
    <3>2. CASE p \notin Stages[loads[i].at]
      <4>1. shown'[p] = shown[p]
        BY <1>4, <3>2
      <4>2. \/ shown[p] = stored[subject][p] \/ p \in Coming(loads[i])
            \/ p = "row" /\ outdated
        BY <1>0, <2>1, <2>2, <2>5, <2>6 DEF PartsAreCurrent
      <4>3. ASSUME p \in Coming(loads[i]) PROVE \E l \in Range(loads') : p \in Coming(l)'
        <5>1. PICK j \in loads[i].at..Len(Stages) : p \in Stages[j]
          BY <4>3 DEF Coming
        <5>2. j # loads[i].at
          BY <3>2, <5>1
        <5>3. /\ ~LastStage(loads[i]) /\ j \in (loads[i].at + 1)..Len(Stages)
          BY <1>3, <5>1, <5>2 DEF LastStage
        <5>4. PICK k \in Range(loads') : k.at = loads[i].at + 1
          BY <1>7, <5>3 DEF Onward
        <5> QED
          BY <1>2, <5>1, <5>3, <5>4 DEF Coming
      <4> QED
        BY <4>1, <4>2, <4>3
    <3> QED
      BY <3>1, <3>2
  <2> QED
    BY Zenon, <1>1, <1>2, <2>1, <2>4, <2>5, <2>6, <2>7 DEF PartsAreCurrent
<1> QED
  BY <1>21, <1>22, <1>24, <1>25, <1>26, <1>27, <1>28, <1>29, <1>30 DEF PanelInv

LEMMA FailKeeps ==
    ASSUME PanelInv, NEW i, Fail(i)
    PROVE  PanelInv'
<1> DEFINE on == panel.failing.goesOn /\ ~LastStage(loads[i])
<1>1. /\ i \in DOMAIN loads
      /\ shown' = LeftBy(loads[i])
      /\ loads' = IF on THEN NextStage(i, Stages[loads[i].at]) ELSE RemoveAt(loads, i)
      /\ veil' = (veil /\ (loads[i].merge \/ on))
      /\ picked' = StillPicked(shown') /\ clouded' = TRUE
      /\ mishaps < MaxMishaps /\ mishaps' = mishaps + 1
      /\ UNCHANGED <<panel, stored, open, subject, calls, hurried, outdated, moves>>
  BY DEF Fail, Mishap
<1>0. /\ PanelTypeOK /\ StoredUnderItsSubject /\ CallsMakeItems /\ RowIsShown
      /\ OneThingAtATime /\ VeilIsBacked /\ PartsAreOfTheSubject /\ PickedIsListed
      /\ PartsAreCurrent
  BY DEF PanelInv
<1>2. /\ Stages' = Stages /\ Parts' = Parts /\ Contents' = Contents
      /\ LoadSet' = LoadSet /\ CallSet' = CallSet /\ Reachable' = Reachable
      /\ Covers' = Covers
  BY <1>1, SameTable
<1>3. /\ Stages[loads[i].at] \subseteq Parts /\ loads[i] \in Range(loads)
      /\ loads[i].merge \in BOOLEAN /\ GoodPanel(panel)
  BY <1>0, <1>1, LoadFacts, PanelFacts
<1>4. \A p \in Parts :
          shown'[p] = IF \/ loads[i].merge \/ p \in panel.failing.keeps
                         \/ p \notin Stages[loads[i].at]
                      THEN shown[p] ELSE <<>>
  BY <1>1 DEF LeftBy
<1>5. shown \in Contents /\ shown' = [p \in Parts |-> shown'[p]]
  BY <1>0, <1>1 DEF PanelTypeOK, LeftBy, Contents
<1>6. shown' \in Contents
  <2>1. \A p \in Parts : shown'[p] \in Seq(Items)
    <3>1. \A p \in Parts : shown[p] \in Seq(Items)
      BY <1>5 DEF Contents
    <3> HIDE DEF Items
    <3>2. <<>> \in Seq(Items)
      OBVIOUS
    <3> QED
      BY <1>4, <3>1, <3>2
  <2> HIDE DEF Items
  <2> QED
    BY <1>5, <2>1 DEF Contents
<1>7. /\ loads' \in Seq(LoadSet) /\ Len(loads') <= Len(loads)
      /\ \A k \in Range(loads') :
             k \in Range(loads) \/ Onward(k, loads[i], Stages[loads[i].at])
      /\ \A j \in DOMAIN loads : j # i => loads[j] \in Range(loads')
      /\ on => \E k \in Range(loads') : Onward(k, loads[i], Stages[loads[i].at])
      /\ Len(loads) = 1 =>
             \A k \in Range(loads') : on /\ Onward(k, loads[i], Stages[loads[i].at])
  <2>1. PICK n, missed : n = loads' /\ missed = Stages[loads[i].at]
    OBVIOUS
  <2>2. /\ n = RemoveAt(loads, i) \/ (~LastStage(loads[i]) /\ n = NextStage(i, missed))
        /\ on => ~LastStage(loads[i]) /\ n = NextStage(i, missed)
        /\ ~on => n = RemoveAt(loads, i)
    BY <1>1, <2>1
  <2> HIDE DEF on
  <2>3. /\ n \in Seq(LoadSet) /\ Len(n) <= Len(loads)
        /\ \A k \in Range(n) : k \in Range(loads) \/ Onward(k, loads[i], missed)
        /\ \A j \in DOMAIN loads : j # i => loads[j] \in Range(n)
        /\ Len(loads) = 1 =>
               /\ n = RemoveAt(loads, i) => n = <<>>
               /\ n = <<>> \/ (~LastStage(loads[i])
                               /\ \A k \in Range(n) : Onward(k, loads[i], missed))
    BY <1>0, <1>1, <1>3, <2>1, <2>2, LoadMoves
  <2>4. \A k \in Range(<<>>) : FALSE
    BY DEF Range
  <2>5. on => \E k \in Range(n) : Onward(k, loads[i], missed)
    BY <1>0, <1>1, <1>3, <2>1, <2>2, LoadGoesOn
  <2> QED
    BY <2>1, <2>2, <2>3, <2>4, <2>5
<1>8. \A l \in Range(loads) :
          l \in Range(loads') \/ l = loads[i]
  BY <1>7 DEF Range
<1>9. /\ picked' \subseteq picked
      /\ panel = ReportRuns => picked' \subseteq Range(shown'.runs)
  BY <1>1 DEF StillPicked
<1>21. PanelTypeOK'
  <2>1. mishaps' \in 0..MaxMishaps
    BY <1>0, <1>1, BoundsAssumption DEF PanelTypeOK
  <2> QED
    BY <1>0, <1>1, <1>2, <1>6, <1>7, <1>9, <2>1 DEF PanelTypeOK
<1>22. StoredUnderItsSubject'
  <2>1. \A l \in Range(loads') : \A h \in l.got, p \in Parts :
            \A x \in Range(h[p]) : x.of = l.of
    BY <1>0, <1>7 DEF StoredUnderItsSubject, Onward
  <2> QED
    BY <1>0, <1>1, <1>2, <2>1 DEF StoredUnderItsSubject
<1>23. "transition" \in panel.clicks => shown'.row = shown.row
  <2>1. SUFFICES ASSUME "transition" \in panel.clicks PROVE shown'.row = shown.row
    OBVIOUS
  <2>2. loads[i].at \in DOMAIN Stages
    BY <1>0, <1>1, LoadFacts, PanelFacts
  <2>3. "row" \in Parts /\ "row" \notin Stages[loads[i].at]
    BY <1>0, <1>3, <2>1, <2>2, PanelFacts DEF GoodPanel, Stages
  <2> QED
    BY <1>4, <2>3
<1>24. RowIsShown'
  BY <1>0, <1>1, <1>23 DEF RowIsShown
<1>25. CallsMakeItems'
  <2>1. \A c \in Range(calls) : c.kind \in panel.clicks
    BY <1>0, CallFacts DEF Range
  <2> QED
    BY <1>0, <1>1, <1>23, <2>1 DEF CallsMakeItems
<1>26. PickedIsListed'
  BY <1>1, <1>9 DEF PickedIsListed
<1>27. OneThingAtATime'
  <2>1. SUFFICES ASSUME ~hurried PROVE OneThingAtATime'
    BY <1>1 DEF OneThingAtATime
  <2>2. /\ Len(loads) = 1 /\ calls = <<>> /\ loads[i].of = subject
    BY <1>1, <2>1, LoadAlone
  <2>3. Len(loads') \in Nat /\ Len(calls) = 0
    BY <1>7, <2>2
  <2>4. \A l \in Range(loads') : l.of = subject
    BY <1>7, <2>2 DEF Onward
  <2>5. \A c \in Range(calls) : c.of = subject
    BY <1>0, <2>1 DEF OneThingAtATime
  <2> QED
    BY <1>1, <1>7, <2>2, <2>3, <2>4, <2>5 DEF OneThingAtATime
<1>28. VeilIsBacked'
  <2>1. ASSUME open, veil' PROVE IsOpening'
    <3>1. PICK l \in Range(loads) : ~l.merge
      BY <1>0, <1>1, <2>1 DEF VeilIsBacked, IsOpening
    <3>2. CASE l \in Range(loads')
      BY <3>1, <3>2 DEF IsOpening
    <3>3. CASE l = loads[i]
      <4>1. PICK k \in Range(loads') : Onward(k, loads[i], Stages[loads[i].at])
        BY <1>1, <1>7, <2>1, <3>1, <3>3
      <4> QED
        BY <3>1, <3>3, <4>1 DEF IsOpening, Onward
    <3> QED
      BY <1>8, <3>2, <3>3
  <2>2. ASSUME open, ~hurried, IsOpening' PROVE veil' \/ panel.hides = "never"
    <3>1. PICK k \in Range(loads') : ~k.merge
      BY <2>2 DEF IsOpening
    <3>2. on /\ ~loads[i].merge
      BY <1>1, <1>7, <2>2, <3>1, LoadAlone DEF Onward
    <3>3. IsOpening
      BY <1>3, <3>2 DEF IsOpening
    <3> QED
      BY <1>0, <1>1, <2>2, <3>2, <3>3 DEF VeilIsBacked
  <2> QED
    BY <1>1, <2>1, <2>2 DEF VeilIsBacked
<1>29. PartsAreOfTheSubject'
  <2>1. ASSUME NEW p \in Parts, NEW s, \A x \in Range(shown[p]) : x.of = s
        PROVE  \A x \in Range(shown'[p]) : x.of = s
    <3>1. \A x \in Range(<<>>) : x.of = s
      BY DEF Range
    <3> QED
      BY <1>4, <2>1, <3>1
  <2>2. ASSUME open, ~hurried, NEW p \in Parts
        PROVE  \/ \A x \in Range(shown'[p]) : x.of = subject
               \/ p \in panel.failing.keeps
    <3>1. loads[i].of = subject /\ \A l \in Range(loads) : l = loads[i]
      BY <1>1, <2>2, LoadAlone
    <3>2. \/ \A x \in Range(shown[p]) : x.of = subject
          \/ clouded /\ p \in panel.failing.keeps
          \/ ~loads[i].merge /\ p \in Stages[loads[i].at]
      BY <1>0, <2>2, <3>1 DEF PartsAreOfTheSubject
    <3>3. CASE \A x \in Range(shown[p]) : x.of = subject
      BY <2>1, <3>3
    <3>4. CASE ~loads[i].merge /\ p \in Stages[loads[i].at]
      <4>1. shown'[p] = <<>> \/ p \in panel.failing.keeps
        BY <1>4, <3>4
      <4> QED
        BY <4>1 DEF Range
    <3> QED
      BY <3>2, <3>3, <3>4
  <2>3. ASSUME panel = Dashboard
        PROVE  /\ subject \in Reachable
               /\ \A l \in Range(loads') : l.of = subject
               /\ \A p \in Parts : \A x \in Range(shown'[p]) : x.of = subject
    <3>1. /\ subject \in Reachable /\ \A l \in Range(loads) : l.of = subject
          /\ \A p \in Parts : \A x \in Range(shown[p]) : x.of = subject
      BY <1>0, <2>3 DEF PartsAreOfTheSubject
    <3>2. loads[i].of = subject
      BY <1>3, <3>1
    <3>3. \A l \in Range(loads') : l.of = subject
      BY <1>7, <3>1, <3>2 DEF Onward
    <3>4. \A p \in Parts : \A x \in Range(shown'[p]) : x.of = subject
      BY <2>1, <3>1
    <3> QED
      BY <3>1, <3>3, <3>4
  <2> QED
    BY <1>1, <1>2, <2>2, <2>3 DEF PartsAreOfTheSubject
<1>30. PartsAreCurrent'
  BY <1>1 DEF PartsAreCurrent
<1> QED
  BY <1>21, <1>22, <1>24, <1>25, <1>26, <1>27, <1>28, <1>29, <1>30 DEF PanelInv

\* Asking for the first stage.
LEMMA BeginFacts ==
    ASSUME PanelTypeOK, NEW s \in Subjects, Begin(s)
    PROVE  /\ clouded' = FALSE /\ hurried' \in BOOLEAN /\ loads' \in Seq(LoadSet)
           /\ \A k \in Range(loads') : k \in Range(loads) \/ k = Load(s)
           /\ Stages = <<>> => loads' = <<>>
           /\ Stages # <<>> =>
                  /\ Load(s) \in Range(loads')
                  /\ Load(s).of = s /\ Load(s).at = 1 /\ Load(s).got = {}
                  /\ Load(s).missed = {} /\ ~Load(s).merge
           /\ ~hurried' => /\ calls' = <<>> /\ (loads' = <<>> \/ loads' = <<Load(s)>>)
                           /\ \A k \in Range(loads') : k = Load(s) /\ Stages # <<>>
<1> DEFINE guarded == panel.loading.guarded
<1>1. /\ clouded' = FALSE
      /\ loads' = IF Stages = <<>> THEN loads
                  ELSE Append(IF guarded THEN <<>> ELSE loads, Load(s))
      /\ hurried' = (calls' # <<>> \/ (~guarded /\ loads # <<>>))
  BY DEF Begin
<1>2. loads \in Seq(LoadSet)
  BY DEF PanelTypeOK
<1>3. /\ loads' \in Seq(LoadSet)
      /\ \A k \in Range(loads') : k \in Range(loads) \/ k = Load(s)
      /\ Stages = <<>> => loads' = <<>>
      /\ Stages # <<>> => Load(s) \in Range(loads')
      /\ Stages # <<>> /\ (guarded \/ loads = <<>>) => loads' = <<Load(s)>>
  <2>1. CASE Stages = <<>>
    BY <1>1, <2>1, NoStages DEF Range
  <2>2. CASE Stages # <<>>
    <3>1. PICK before, last :
              /\ before = IF guarded THEN <<>> ELSE loads
              /\ last = Load(s)
      OBVIOUS
    <3>2. last \in LoadSet
      BY <2>2, <3>1, FirstLoad
    <3>3. before \in Seq(LoadSet) /\ Range(before) \subseteq Range(loads)
      <4>1. <<>> \in Seq(LoadSet) /\ Range(<<>>) = {}
        BY DEF Range
      <4> QED
        BY <1>2, <3>1, <4>1
    <3>4. loads' = Append(before, last)
      BY <1>1, <2>2, <3>1
    <3>5. loads' \in Seq(LoadSet) /\ Range(loads') = Range(before) \cup {last}
      BY <3>2, <3>3, <3>4, AppendRange
    <3>6. guarded \/ loads = <<>> => loads' = <<last>>
      <4>1. Append(<<>>, last) = <<last>>
        OBVIOUS
      <4> QED
        BY <3>1, <3>4, <4>1
    <3> QED
      BY <2>2, <3>1, <3>3, <3>5, <3>6
  <2> QED
    BY <2>1, <2>2
<1>4. ASSUME ~hurried'
      PROVE  /\ calls' = <<>> /\ (loads' = <<>> \/ loads' = <<Load(s)>>)
             /\ \A k \in Range(loads') : k = Load(s) /\ Stages # <<>>
  <2>1. calls' = <<>> /\ (guarded \/ loads = <<>>)
    BY <1>1, <1>4
  <2>2. loads' = <<>> \/ (loads' = <<Load(s)>> /\ Stages # <<>>)
    BY <1>3, <2>1
  <2> QED
    BY <2>1, <2>2 DEF Range
<1>5. hurried' \in BOOLEAN
  BY <1>1
<1> HIDE DEF guarded
<1> QED
  BY <1>1, <1>3, <1>4, <1>5, FirstLoad

\* What a list page has of a row is one row of its subject.
LEMMA RowsListedFacts ==
    ASSUME PanelTypeOK, StoredUnderItsSubject, NEW s \in Subjects, "row" \in Parts,
           NEW row \in RowsListed(s)
    PROVE  row \in Seq(Items) /\ Len(row) = 1 /\ \A x \in Range(row) : x.of = s
<1>1. PICK n \in 1..stored[s].row[1].n : row = <<Item(s, n)>>
  BY DEF RowsListed
<1>2. stored[s].row \in Seq(Items) /\ Len(stored[s].row) = 1
  BY ContentFacts DEF PanelTypeOK, StoredUnderItsSubject
<1>3. stored[s].row[1] \in Items
  <2> HIDE DEF Items
  <2> QED
    BY <1>2
<1>4. n \in Nat
  BY <1>3 DEF Items
<1>5. PICK x : x = Item(s, n)
  OBVIOUS
<1>6. x \in Items /\ x.of = s /\ row = <<x>>
  BY <1>1, <1>4, <1>5, ItemFacts
<1>7. <<x>> \in Seq(Items) /\ Len(<<x>>) = 1 /\ Range(<<x>>) = {x}
  <2> HIDE DEF Items
  <2> QED
    BY <1>6 DEF Range
<1> QED
  BY <1>6, <1>7

\* Opening, by the user or by a clone that has come.
LEMMA OpeningKeeps ==
    ASSUME PanelInv, NEW s \in Subjects, OpenOn(s), UNCHANGED <<panel, stored>>,
           calls' \in Seq(CallSet), Range(calls') \subseteq Range(calls),
           moves' \in 0..MaxMoves, mishaps' \in 0..MaxMishaps,
           panel = Dashboard => s = subject,
           open => panel.opening.kind # "dialog" \/ panel.opening.cleared = {}
    PROVE  PanelInv'
<1> DEFINE copied == panel.opening.copied
<1>10. PICK row \in RowsListed(s) :
          /\ shown' = [p \in Parts |->
                 IF p \in copied THEN row
                 ELSE IF p \in panel.opening.cleared /\ ~open THEN <<>>
                 ELSE shown[p]]
          /\ outdated' = (RowIsCopied /\ row # stored[s].row)
  BY DEF OpenOn
<1>1. /\ open' = TRUE /\ subject' = s
      /\ shown' = [p \in Parts |->
             IF p \in copied THEN row
             ELSE IF p \in panel.opening.cleared /\ ~open THEN <<>>
             ELSE shown[p]]
      /\ picked' = IF open THEN picked ELSE {}
      /\ veil' = (Stages # <<>> /\ panel.hides # "never")
      /\ Begin(s) /\ outdated' = (RowIsCopied /\ row # stored[s].row)
      /\ UNCHANGED <<panel, stored>>
  BY <1>10 DEF OpenOn
<1>0. /\ PanelTypeOK /\ StoredUnderItsSubject /\ CallsMakeItems /\ RowIsShown
      /\ OneThingAtATime /\ VeilIsBacked /\ PartsAreOfTheSubject /\ PickedIsListed
      /\ PartsAreCurrent
  BY DEF PanelInv
<1>2. /\ Stages' = Stages /\ Parts' = Parts /\ Contents' = Contents
      /\ LoadSet' = LoadSet /\ CallSet' = CallSet /\ Reachable' = Reachable
      /\ Covers' = Covers
      /\ \A l : Coming(l)' = Coming(l)
  BY <1>1, SameTable
<1>3. GoodPanel(panel) /\ Parts = PartsOf(panel) /\ copied \subseteq Parts
      /\ copied \subseteq {"row"}
  BY <1>0, PanelFacts DEF GoodPanel
<1>11. "row" \in Parts =>
           row \in Seq(Items) /\ Len(row) = 1 /\ \A x \in Range(row) : x.of = s
  BY <1>0, RowsListedFacts
<1>4. \A p \in Parts : shown[p] \in Seq(Items)
  BY <1>0, ContentFacts DEF PanelTypeOK
<1>5. shown' \in Contents
  <2> HIDE DEF Items, copied
  <2>1. <<>> \in Seq(Items)
    OBVIOUS
  <2>2. \A p \in Parts : shown'[p] \in Seq(Items)
    BY <1>1, <1>3, <1>4, <1>11, <2>1
  <2> QED
    BY <1>1, <2>2 DEF Contents
<1>6. /\ clouded' = FALSE /\ hurried' \in BOOLEAN /\ loads' \in Seq(LoadSet)
      /\ \A k \in Range(loads') : k \in Range(loads) \/ k = Load(s)
      /\ Stages = <<>> => loads' = <<>>
      /\ Stages # <<>> => Load(s) \in Range(loads')
  BY <1>0, <1>1, BeginFacts
<1>7. ASSUME ~hurried'
      PROVE  /\ calls' = <<>> /\ (loads' = <<>> \/ loads' = <<Load(s)>>)
             /\ \A k \in Range(loads') : k = Load(s) /\ Stages # <<>>
  BY <1>0, <1>1, <1>7, BeginFacts
<1>8. Stages # <<>> => /\ Load(s).of = s /\ Load(s).at = 1 /\ Load(s).got = {}
                       /\ Load(s).missed = {} /\ ~Load(s).merge
  BY <1>0, <1>1, BeginFacts
<1>9. "transition" \in panel.clicks => Len(shown'.row) = 1
  <2>1. SUFFICES ASSUME "transition" \in panel.clicks PROVE Len(shown'.row) = 1
    OBVIOUS
  <2>2. "row" \in copied /\ "row" \in Parts
    BY <1>3, <2>1 DEF GoodPanel
  <2> QED
    BY <1>1, <1>11, <2>2
<1>21. PanelTypeOK'
  <2>1. veil' \in BOOLEAN
    BY <1>1
  <2>2. picked' \subseteq picked
    BY <1>1
  <2> QED
    BY <1>0, <1>1, <1>2, <1>5, <1>6, <2>1, <2>2 DEF PanelTypeOK
<1>22. StoredUnderItsSubject'
  <2>1. \A l \in Range(loads') : \A h \in l.got, p \in Parts :
            \A x \in Range(h[p]) : x.of = l.of
    BY <1>0, <1>6, <1>8 DEF StoredUnderItsSubject, Load
  <2> QED
    BY <1>0, <1>1, <1>2, <2>1 DEF StoredUnderItsSubject
<1>23. RowIsShown'
  BY <1>1, <1>9 DEF RowIsShown
<1>24. CallsMakeItems'
  <2>1. \A c \in Range(calls) : c.kind \in panel.clicks
    BY <1>0, CallFacts DEF Range
  <2> QED
    BY <1>0, <1>1, <1>9, <2>1 DEF CallsMakeItems
<1>25. PickedIsListed'
  <2>1. SUFFICES ASSUME panel = ReportRuns, open PROVE picked' \subseteq Range(shown'.runs)
    BY <1>1 DEF PickedIsListed
  <2>2. "runs" \in Parts /\ "runs" \notin copied /\ "runs" \notin panel.opening.cleared
    BY <1>3, <2>1, ReportRunsFacts
  <2> QED
    BY <1>0, <1>1, <2>1, <2>2 DEF PickedIsListed
<1>26. OneThingAtATime'
  <2>1. SUFFICES ASSUME ~hurried' PROVE OneThingAtATime'
    BY DEF OneThingAtATime
  <2>2. Len(loads') <= 1 /\ Len(loads') \in Nat /\ Len(calls') = 0
    <3>1. Len(<<>>) = 0 /\ \A x : Len(<<x>>) = 1
      OBVIOUS
    <3>2. Len(calls') = 0 /\ (Len(loads') = 0 \/ Len(loads') = 1)
      BY Zenon, <1>7, <2>1, <3>1
    <3>3. \A n : n = 0 \/ n = 1 => n <= 1 /\ n \in Nat
      OBVIOUS
    <3> QED
      BY Zenon, <3>2, <3>3
  <2>3. \A c \in Range(calls') : FALSE
    BY <1>7, <2>1 DEF Range
  <2>4. \A l \in Range(loads') : l.of = s
    BY <1>7, <1>8, <2>1
  <2> QED
    BY <1>1, <2>2, <2>3, <2>4 DEF OneThingAtATime
<1>27. VeilIsBacked'
  <2>1. Stages # <<>> => IsOpening'
    BY <1>6, <1>8 DEF IsOpening
  <2>2. IsOpening' => Stages # <<>>
    BY <1>6 DEF IsOpening, Range
  <2> QED
    BY <1>1, <2>1, <2>2 DEF VeilIsBacked
<1>28. PartsAreOfTheSubject'
  <2>1. ASSUME ~hurried', NEW p \in Parts
        PROVE  \/ \A x \in Range(shown'[p]) : x.of = s
               \/ /\ \E l \in Range(loads') : ~l.merge /\ p \in Stages[l.at]
                  /\ p \in Lagging \/ Covers
    <3>1. CASE p \in copied
      <4>1. shown'[p] = row /\ "row" \in Parts
        BY <1>1, <1>3, <3>1
      <4> QED
        BY <1>11, <4>1
    <3>2. CASE p \notin copied /\ p \in panel.opening.cleared /\ panel.opening.kind = "dialog"
      <4>1. shown'[p] = <<>>
        BY <1>1, <3>2
      <4> QED
        BY <4>1 DEF Range
    <3>3. CASE Stages # <<>> /\ p \in Stages[1] /\ (p \in Lagging \/ Covers)
      BY <1>6, <1>8, <3>3
    <3>4. CASE p \notin copied /\ panel = Dashboard
      <4>1. shown'[p] = <<>> \/ shown'[p] = shown[p]
        BY <1>1, <3>4
      <4>2. \A x \in Range(shown[p]) : x.of = s
        BY <1>0, <3>4 DEF PartsAreOfTheSubject
      <4> QED
        BY <4>1, <4>2 DEF Range
    <3> QED
      BY <1>3, <3>1, <3>2, <3>3, <3>4 DEF GoodPanel, Stages, Covers
  <2>2. ASSUME panel = Dashboard
        PROVE  /\ s \in Reachable
               /\ \A l \in Range(loads') : l.of = s
               /\ \A p \in Parts : \A x \in Range(shown'[p]) : x.of = s
    <3>1. /\ s \in Reachable /\ \A l \in Range(loads) : l.of = s
          /\ \A p \in Parts : \A x \in Range(shown[p]) : x.of = s
      BY <1>0, <2>2 DEF PartsAreOfTheSubject
    <3>2. \A l \in Range(loads') : l.of = s
      BY <1>6, <3>1 DEF Load
    <3>3. ASSUME NEW p \in Parts PROVE \A x \in Range(shown'[p]) : x.of = s
      <4>1. shown'[p] \in {<<>>, shown[p]} \/ (shown'[p] = row /\ "row" \in Parts)
        BY <1>1, <1>3
      <4>2. "row" \in Parts => \A x \in Range(row) : x.of = s
        BY <1>11
      <4> QED
        BY <3>1, <4>1, <4>2 DEF Range
    <3> QED
      BY <3>1, <3>2, <3>3
  <2> QED
    BY <1>1, <1>2, <2>1, <2>2 DEF PartsAreOfTheSubject
<1>29. PartsAreCurrent'
  <2>1. SUFFICES ASSUME ~hurried' PROVE PartsAreCurrent'
    BY DEF PartsAreCurrent
  <2>2. \A k \in Range(loads') : k.missed = {} /\ k.got = {}
    BY <1>7, <1>8, <2>1
  <2>3. \A c \in Range(calls') : FALSE
    BY <1>7, <2>1 DEF Range
  <2>4. Due' = shown'
    BY <1>7, <2>1 DEF Due
  <2>5. ASSUME NEW p \in Parts
        PROVE  \/ shown'[p] = stored[s][p]
               \/ \E l \in Range(loads') : p \in Coming(l)'
               \/ p = "row" /\ outdated'
    <3>1. CASE p \in copied /\ RowIsCopied
      <4>1. shown'[p] = row /\ p = "row"
        BY <1>1, <1>3, <3>1
      <4> QED
        BY <1>1, <3>1, <4>1
    <3>2. CASE p \notin copied \/ ~RowIsCopied
      <4>1. PICK j \in 1..Len(Stages) : p \in Stages[j]
        <5>1. p \notin copied \/ p \in UNION Range(Stages)
          BY <1>3, <3>2 DEF RowIsCopied
        <5>2. DOMAIN Stages = 1..Len(Stages)
          BY <1>0, PanelFacts
        <5> QED
          BY <1>0, <5>1, <5>2, PanelFacts DEF Range
      <4>2. Stages # <<>>
        BY <4>1
      <4>3. p \in Coming(Load(s))
        BY <1>8, <4>1, <4>2 DEF Coming
      <4> QED
        BY <1>2, <1>6, <4>2, <4>3
    <3> QED
      BY <3>1, <3>2
  <2> QED
    BY Zenon, <1>1, <1>2, <2>1, <2>2, <2>3, <2>4, <2>5 DEF PartsAreCurrent
<1> QED
  BY <1>21, <1>22, <1>23, <1>24, <1>25, <1>26, <1>27, <1>28, <1>29 DEF PanelInv

LEMMA ReachableFacts == Reachable \subseteq Subjects /\ (panel = Dashboard => \E s : Reachable = {s})
BY BoundsAssumption DEF Reachable

LEMMA OpenPanelKeeps ==
    ASSUME PanelInv, NEW s \in Reachable, OpenPanel(s)
    PROVE  PanelInv'
<1>1. /\ OpenOn(s) /\ UNCHANGED <<panel, stored, calls>>
      /\ moves < MaxMoves /\ moves' = moves + 1 /\ UNCHANGED mishaps
      /\ open => panel = DefectEdit \/ panel.opening.kind # "dialog"
  BY DEF OpenPanel, Move
<1>2. s \in Subjects
  BY ReachableFacts
<1>3. /\ calls' \in Seq(CallSet) /\ Range(calls') \subseteq Range(calls)
      /\ moves' \in 0..MaxMoves /\ mishaps' \in 0..MaxMishaps
  BY <1>1, BoundsAssumption DEF PanelInv, PanelTypeOK
<1>4. panel = Dashboard => s = subject
  BY ReachableFacts DEF PanelInv, PartsAreOfTheSubject
<1>5. DefectEdit.opening.cleared = {}
  BY DEF DefectEdit, Panel, Opening, DefectEditOpening
<1> QED
  BY <1>1, <1>2, <1>3, <1>4, <1>5, OpeningKeeps

LEMMA FinishCloneKeeps ==
    ASSUME PanelInv, NEW i, FinishClone(i)
    PROVE  PanelInv'
<1>1. /\ i \in DOMAIN calls /\ calls[i].kind = "clone" /\ calls' = RemoveAt(calls, i)
      /\ UNCHANGED <<panel, stored, moves, mishaps>>
  BY DEF FinishClone, counts
<1>2. PICK s \in Subjects : OpenOn(s)
  BY DEF FinishClone
<1>3. PanelTypeOK
  BY DEF PanelInv
<1>4. calls' \in Seq(CallSet) /\ Range(calls') \subseteq Range(calls)
  <2>1. PICK n : n = calls'
    OBVIOUS
  <2>2. n \in Seq(CallSet) /\ Range(n) \subseteq Range(calls)
    BY <1>1, <1>3, <2>1, CallIsOver
  <2> QED
    BY <2>1, <2>2
<1>5. moves' \in 0..MaxMoves /\ mishaps' \in 0..MaxMishaps
  BY <1>1, <1>3 DEF PanelTypeOK
<1>6. "clone" \in panel.clicks
  BY <1>1, <1>3, CallFacts
<1>7. panel.opening.kind # "dialog" /\ panel # Dashboard
  BY <1>3, <1>6, PanelFacts DEF GoodPanel
<1> QED
  BY <1>1, <1>2, <1>4, <1>5, <1>7, OpeningKeeps

LEMMA RefreshKeeps ==
    ASSUME PanelInv, Refresh
    PROVE  PanelInv'
<1>1. /\ "refresh" \in panel.clicks /\ open /\ Begin(subject)
      /\ UNCHANGED <<panel, stored, open, subject, shown, picked, veil, calls, outdated, moves,
                     mishaps>>
  BY DEF Refresh, screen, counts
<1>0. /\ PanelTypeOK /\ StoredUnderItsSubject /\ CallsMakeItems /\ RowIsShown
      /\ OneThingAtATime /\ VeilIsBacked /\ PartsAreOfTheSubject /\ PickedIsListed
      /\ PartsAreCurrent
  BY DEF PanelInv
<1>2. /\ Stages' = Stages /\ Parts' = Parts /\ Contents' = Contents
      /\ LoadSet' = LoadSet /\ CallSet' = CallSet /\ Reachable' = Reachable
      /\ Covers' = Covers
      /\ \A l : Coming(l)' = Coming(l)
  BY <1>1, SameTable
<1>3. /\ panel = Dashboard /\ panel.hides = "never"
      /\ \A p \in Parts : \E j \in 1..Len(Stages) : p \in Stages[j]
  BY <1>0, <1>1, PanelFacts DEF GoodPanel
<1>4. subject \in Subjects
  BY <1>0 DEF PanelTypeOK
<1>5. /\ clouded' = FALSE /\ hurried' \in BOOLEAN /\ loads' \in Seq(LoadSet)
      /\ \A k \in Range(loads') : k \in Range(loads) \/ k = Load(subject)
      /\ Stages # <<>> => Load(subject) \in Range(loads')
      /\ Stages = <<>> => loads' = <<>>
  BY <1>0, <1>1, <1>4, BeginFacts
<1>6. ASSUME ~hurried'
      PROVE  /\ calls = <<>> /\ (loads' = <<>> \/ loads' = <<Load(subject)>>)
             /\ \A k \in Range(loads') : k = Load(subject) /\ Stages # <<>>
  BY <1>0, <1>1, <1>4, <1>6, BeginFacts
<1>7. Stages # <<>> => /\ Load(subject).of = subject /\ Load(subject).at = 1
                       /\ Load(subject).got = {} /\ Load(subject).missed = {}
                       /\ ~Load(subject).merge
  BY <1>0, <1>1, <1>4, BeginFacts
<1>21. PanelTypeOK'
  BY <1>0, <1>1, <1>2, <1>5 DEF PanelTypeOK
<1>22. StoredUnderItsSubject'
  <2>1. \A l \in Range(loads') : \A h \in l.got, p \in Parts :
            \A x \in Range(h[p]) : x.of = l.of
    BY <1>0, <1>5 DEF StoredUnderItsSubject, Load
  <2> QED
    BY <1>0, <1>1, <1>2, <2>1 DEF StoredUnderItsSubject
<1>23. CallsMakeItems' /\ RowIsShown' /\ PickedIsListed'
  BY <1>0, <1>1 DEF CallsMakeItems, RowIsShown, PickedIsListed
<1>24. OneThingAtATime'
  <2>1. SUFFICES ASSUME ~hurried' PROVE OneThingAtATime'
    BY DEF OneThingAtATime
  <2>2. Len(loads') <= 1 /\ Len(loads') \in Nat /\ Len(calls) = 0
    <3>1. Len(<<>>) = 0 /\ \A x : Len(<<x>>) = 1
      OBVIOUS
    <3>2. Len(calls) = 0 /\ (Len(loads') = 0 \/ Len(loads') = 1)
      BY Zenon, <1>6, <2>1, <3>1
    <3>3. \A n : n = 0 \/ n = 1 => n <= 1 /\ n \in Nat
      OBVIOUS
    <3> QED
      BY Zenon, <3>2, <3>3
  <2>3. \A c \in Range(calls) : FALSE
    BY <1>6, <2>1 DEF Range
  <2>4. \A l \in Range(loads') : l.of = subject
    BY <1>6, <1>7, <2>1
  <2> QED
    BY <1>1, <2>2, <2>3, <2>4 DEF OneThingAtATime
<1>25. VeilIsBacked'
  <2>1. IsOpening => IsOpening'
    <3>1. IsOpening => Stages # <<>>
      BY <1>0, NoStages DEF IsOpening, Range
    <3> QED
      BY <1>5, <1>7, <3>1 DEF IsOpening
  <2> QED
    BY <1>0, <1>1, <1>3, <2>1 DEF VeilIsBacked
<1>26. PartsAreOfTheSubject'
  <2>1. /\ subject \in Reachable /\ \A l \in Range(loads) : l.of = subject
        /\ \A p \in Parts : \A x \in Range(shown[p]) : x.of = subject
    BY <1>0, <1>3 DEF PartsAreOfTheSubject
  <2>2. \A l \in Range(loads') : l.of = subject
    BY <1>5, <2>1 DEF Load
  <2> QED
    BY <1>1, <1>2, <2>1, <2>2 DEF PartsAreOfTheSubject
<1>27. PartsAreCurrent'
  <2>1. SUFFICES ASSUME ~hurried' PROVE PartsAreCurrent'
    BY DEF PartsAreCurrent
  <2>2. \A k \in Range(loads') : k.missed = {} /\ k.got = {}
    BY <1>6, <1>7, <2>1
  <2>3. \A c \in Range(calls) : FALSE
    BY <1>6, <2>1 DEF Range
  <2>4. ASSUME NEW p \in Parts PROVE \E l \in Range(loads') : p \in Coming(l)'
    <3>1. PICK j \in 1..Len(Stages) : p \in Stages[j]
      BY <1>3
    <3>2. Stages # <<>>
      BY <3>1
    <3>3. p \in Coming(Load(subject))
      BY <1>7, <3>1, <3>2 DEF Coming
    <3> QED
      BY <1>2, <1>5, <3>2, <3>3
  <2> QED
    BY Zenon, <1>1, <1>2, <2>2, <2>3, <2>4 DEF PartsAreCurrent
<1> QED
  BY <1>21, <1>22, <1>23, <1>24, <1>25, <1>26, <1>27 DEF PanelInv

LEMMA CloseKeeps ==
    ASSUME PanelInv, Close
    PROVE  PanelInv'
<1> DEFINE kind == panel.opening.kind
<1>1. /\ open' = FALSE /\ loads' = (IF kind = "dialog" THEN loads ELSE <<>>)
      /\ kind = "page" => /\ shown' = [p \in Parts |-> <<>>]
                          /\ picked' = {} /\ veil' = FALSE
      /\ kind # "page" => UNCHANGED <<shown, picked, veil>>
      /\ UNCHANGED <<panel, stored, subject, calls, hurried, clouded, outdated, moves, mishaps>>
  BY DEF Close, counts
<1>0. /\ PanelTypeOK /\ StoredUnderItsSubject /\ CallsMakeItems /\ RowIsShown
      /\ OneThingAtATime /\ VeilIsBacked /\ PartsAreOfTheSubject /\ PickedIsListed
      /\ PartsAreCurrent
  BY DEF PanelInv
<1>2. /\ Stages' = Stages /\ Parts' = Parts /\ Contents' = Contents
      /\ LoadSet' = LoadSet /\ CallSet' = CallSet /\ Reachable' = Reachable
      /\ Covers' = Covers
  BY <1>1, SameTable
<1>3. /\ loads' \in Seq(LoadSet) /\ Len(loads') <= Len(loads)
      /\ Range(loads') \subseteq Range(loads)
  <2>1. loads \in Seq(LoadSet) /\ Len(loads) \in Nat
    BY <1>0 DEF PanelTypeOK
  <2>2. <<>> \in Seq(LoadSet) /\ Len(<<>>) = 0 /\ Range(<<>>) = {}
    BY DEF Range
  <2> QED
    BY <1>1, <2>1, <2>2
<1>4. shown' \in Contents
  <2>1. shown \in Contents
    BY <1>0 DEF PanelTypeOK
  <2> HIDE DEF Items
  <2>2. [p \in Parts |-> <<>>] \in Contents
    BY DEF Contents
  <2> QED
    BY <1>1, <2>1, <2>2
<1>5. \A p \in Parts : shown'[p] = shown[p] \/ Range(shown'[p]) = {}
  BY <1>1 DEF Range
<1>21. PanelTypeOK'
  <2>1. picked' \subseteq picked /\ veil' \in BOOLEAN
    BY <1>0, <1>1 DEF PanelTypeOK
  <2> QED
    BY <1>0, <1>1, <1>2, <1>3, <1>4, <2>1 DEF PanelTypeOK
<1>22. StoredUnderItsSubject'
  BY <1>0, <1>1, <1>2, <1>3 DEF StoredUnderItsSubject
<1>23. CallsMakeItems'
  <2>1. \A c \in Range(calls) : c.kind \in panel.clicks
    BY <1>0, CallFacts DEF Range
  <2>2. "transition" \in panel.clicks => kind = "dialog"
    BY <1>0, PanelFacts DEF GoodPanel
  <2> QED
    BY <1>0, <1>1, <2>1, <2>2 DEF CallsMakeItems
<1>24. OneThingAtATime'
  <2>1. Len(loads') \in Nat /\ Len(loads) \in Nat /\ Len(calls) \in Nat
    BY <1>0, <1>3 DEF PanelTypeOK
  <2> QED
    BY <1>0, <1>1, <1>3, <2>1 DEF OneThingAtATime
<1>25. PartsAreOfTheSubject'
  <2>1. panel = Dashboard =>
            \A p \in Parts : \A x \in Range(shown'[p]) : x.of = subject
    BY <1>0, <1>5 DEF PartsAreOfTheSubject
  <2> QED
    BY <1>0, <1>1, <1>2, <1>3, <2>1 DEF PartsAreOfTheSubject
<1>26. PickedIsListed'
  BY <1>0, <1>1 DEF PickedIsListed
<1>27. RowIsShown' /\ VeilIsBacked' /\ PartsAreCurrent'
  BY <1>1 DEF RowIsShown, VeilIsBacked, PartsAreCurrent
<1> QED
  BY <1>21, <1>22, <1>23, <1>24, <1>25, <1>26, <1>27 DEF PanelInv

LEMMA CallKeeps ==
    ASSUME PanelInv, NEW kind \in panel.clicks \ {"pick", "refresh"}, NEW at \in Nat,
           NEW item, item \subseteq Items, Call(kind, at, item),
           kind = "remove" => /\ at \in DOMAIN shown.attachments
                              /\ item = {shown.attachments[at]}
    PROVE  PanelInv'
<1>1. PICK c : c = [kind |-> kind, of |-> subject, at |-> at, item |-> item, done |-> FALSE]
  OBVIOUS
<1>2. /\ open /\ calls' = Append(calls, c)
      /\ hurried' = (hurried \/ ~Quiet) /\ moves < MaxMoves /\ moves' = moves + 1
      /\ UNCHANGED <<panel, stored, open, subject, shown, picked, veil,
                     loads, clouded, outdated, mishaps>>
  BY <1>1 DEF Call, InSight, Move, screen
<1>0. /\ PanelTypeOK /\ StoredUnderItsSubject /\ CallsMakeItems /\ RowIsShown
      /\ OneThingAtATime /\ VeilIsBacked /\ PartsAreOfTheSubject /\ PickedIsListed
      /\ PartsAreCurrent
  BY DEF PanelInv
<1>3. /\ Stages' = Stages /\ Parts' = Parts /\ Contents' = Contents
      /\ LoadSet' = LoadSet /\ CallSet' = CallSet /\ Reachable' = Reachable
      /\ Covers' = Covers
  BY <1>2, SameTable
<1>4. c \in CallSet /\ c.kind = kind /\ c.of = subject /\ c.at = at /\ c.item = item /\ ~c.done
  BY <1>0, <1>1 DEF PanelTypeOK, CallSet
<1>5. /\ calls' \in Seq(CallSet) /\ Len(calls') = Len(calls) + 1
      /\ Range(calls') = Range(calls) \cup {c}
  BY <1>0, <1>2, <1>4, AppendRange DEF PanelTypeOK
<1>6. ASSUME ~hurried' PROVE ~hurried /\ loads = <<>> /\ calls = <<>> /\ calls' = <<c>>
  <2>1. Append(<<>>, c) = <<c>>
    OBVIOUS
  <2> QED
    BY <1>2, <1>6, <2>1 DEF Quiet
<1>21. PanelTypeOK'
  <2>1. moves' \in 0..MaxMoves /\ hurried' \in BOOLEAN
    BY <1>0, <1>2, BoundsAssumption DEF PanelTypeOK
  <2> QED
    BY <1>0, <1>2, <1>3, <1>5, <2>1 DEF PanelTypeOK
<1>22. StoredUnderItsSubject'
  BY <1>0, <1>2, <1>3 DEF StoredUnderItsSubject
<1>23. CallsMakeItems'
  <2>1. kind = "transition" => Len(shown.row) = 1
    BY <1>0, <1>2 DEF RowIsShown
  <2>2. kind = "remove" => \E x \in c.item : c.item = {x}
    BY <1>4
  <2> QED
    BY <1>0, <1>2, <1>4, <1>5, <2>1, <2>2 DEF CallsMakeItems
<1>24. RowIsShown' /\ PickedIsListed'
  BY <1>0, <1>2 DEF RowIsShown, PickedIsListed
<1>25. OneThingAtATime'
  <2>1. SUFFICES ASSUME ~hurried' PROVE OneThingAtATime'
    BY DEF OneThingAtATime
  <2>2. Len(loads) = 0 /\ Len(calls') = 1
    <3>1. loads = <<>> /\ calls' = <<c>>
      BY <1>6, <2>1
    <3> QED
      BY <3>1
  <2>3. \A l \in Range(loads) : FALSE
    BY <1>6, <2>1 DEF Range
  <2>4. \A k \in Range(calls') : k.of = subject
    BY <1>4, <1>5, <1>6, <2>1 DEF Range
  <2> QED
    BY <1>2, <2>2, <2>3, <2>4 DEF OneThingAtATime
<1>26. VeilIsBacked'
  BY <1>0, <1>2 DEF VeilIsBacked, IsOpening
<1>27. PartsAreOfTheSubject'
  BY <1>0, <1>2, <1>3 DEF PartsAreOfTheSubject
<1>28. PartsAreCurrent'
  <2>1. SUFFICES ASSUME ~hurried', ~clouded PROVE PartsAreCurrent'
    BY <1>2 DEF PartsAreCurrent
  <2>2. \A l \in Range(loads) : FALSE
    BY <1>6, <2>1 DEF Range
  <2>3. \A k \in Range(calls) : FALSE
    BY <1>6, <2>1 DEF Range
  <2>4. Due = shown /\ Due' = shown
    BY <1>2, <1>4, <1>6, <2>1 DEF Due
  <2>5. \A p \in Parts : shown[p] = stored[subject][p] \/ (p = "row" /\ outdated)
    BY <1>0, <1>2, <1>6, <2>1, <2>2, <2>3, <2>4 DEF PartsAreCurrent
  <2>6. \A k \in Range(calls') : k.kind = "remove" =>
            k.at \in DOMAIN shown.attachments /\ k.item = {shown.attachments[k.at]}
    BY <1>4, <1>5, <2>3
  <2> QED
    BY Zenon, <1>2, <1>3, <2>2, <2>4, <2>5, <2>6 DEF PartsAreCurrent
<1> QED
  BY <1>21, <1>22, <1>23, <1>24, <1>25, <1>26, <1>27, <1>28 DEF PanelInv

LEMMA ClicksKeep ==
    ASSUME PanelInv, UploadFile \/ TakeAway \/ Transition \/ Attach \/ Clone
    PROVE  PanelInv'
<1>1. CASE \E kind \in {"upload", "transition", "attach", "clone"} : Call(kind, 0, {})
  <2>1. PICK kind \in {"upload", "transition", "attach", "clone"} : Call(kind, 0, {})
    BY <1>1
  <2>2. kind \in panel.clicks \ {"pick", "refresh"} /\ kind # "remove"
    BY <2>1 DEF Call
  <2> QED
    BY <2>1, <2>2, CallKeeps
<1>2. CASE TakeAway
  <2>1. "attachments" \in Parts
    BY <1>2 DEF TakeAway
  <2>2. PICK at \in DOMAIN shown.attachments : Call("remove", at, {shown.attachments[at]})
    BY <1>2 DEF TakeAway
  <2>3. "remove" \in panel.clicks \ {"pick", "refresh"}
    BY <2>2 DEF Call
  <2>4. shown.attachments \in Seq(Items)
    BY <2>1, ContentFacts DEF PanelInv, PanelTypeOK
  <2> HIDE DEF Items
  <2>5. at \in Nat /\ shown.attachments[at] \in Items
    BY <2>4
  <2>6. PICK item : item = {shown.attachments[at]}
    OBVIOUS
  <2>7. item \subseteq Items /\ Call("remove", at, item)
    BY <2>2, <2>5, <2>6
  <2> QED
    BY <2>2, <2>3, <2>5, <2>6, <2>7, CallKeeps
<1>3. CASE UploadFile
  BY <1>1, <1>3 DEF UploadFile
<1>4. CASE Transition
  BY <1>1, <1>4 DEF Transition
<1>5. CASE Attach
  BY <1>1, <1>5 DEF Attach
<1>6. CASE Clone
  BY <1>1, <1>6 DEF Clone
<1> QED
  BY <1>2, <1>3, <1>4, <1>5, <1>6

LEMMA PickKeeps ==
    ASSUME PanelInv, Pick
    PROVE  PanelInv'
<1>1. /\ "pick" \in panel.clicks
      /\ picked' = {} \/ \E part \in Parts : \E item \in Range(shown[part]) : picked' = {item}
      /\ UNCHANGED <<panel, stored, open, subject, shown, veil, loads, calls,
                     hurried, clouded, outdated, moves, mishaps>>
  BY DEF Pick, counts
<1>0. /\ PanelTypeOK /\ StoredUnderItsSubject /\ CallsMakeItems /\ RowIsShown
      /\ OneThingAtATime /\ VeilIsBacked /\ PartsAreOfTheSubject /\ PickedIsListed
      /\ PartsAreCurrent
  BY DEF PanelInv
<1>2. /\ Stages' = Stages /\ Parts' = Parts /\ Contents' = Contents
      /\ LoadSet' = LoadSet /\ CallSet' = CallSet /\ Reachable' = Reachable
      /\ Covers' = Covers
      /\ \A l : Coming(l)' = Coming(l)
  BY <1>1, SameTable
<1>3. picked' \subseteq Items /\ \A x, y \in picked' : x = y
  <2>1. \A part \in Parts : Range(shown[part]) \subseteq Items
    BY <1>0, ContentFacts DEF PanelTypeOK
  <2> QED
    BY <1>1, <2>1
<1>21. PanelTypeOK'
  BY <1>0, <1>1, <1>2, <1>3 DEF PanelTypeOK
<1>22. PickedIsListed'
  <2>1. panel = ReportRuns => \A part \in Parts : part = "runs"
    BY <1>0, PanelFacts, ReportRunsFacts
  <2> QED
    BY <1>1, <2>1 DEF PickedIsListed
<1>23. /\ StoredUnderItsSubject' /\ CallsMakeItems' /\ RowIsShown' /\ OneThingAtATime'
       /\ VeilIsBacked' /\ PartsAreOfTheSubject'
  BY <1>0, <1>1, <1>2 DEF StoredUnderItsSubject, CallsMakeItems, RowIsShown, OneThingAtATime,
     VeilIsBacked, IsOpening, PartsAreOfTheSubject
<1>24. PartsAreCurrent'
  <2>1. Due' = Due
    BY <1>1 DEF Due, Answered, New
  <2>2. SUFFICES ASSUME open, ~hurried, ~clouded PROVE PartsAreCurrent'
    BY <1>1 DEF PartsAreCurrent
  <2>3. /\ loads' = loads /\ calls' = calls /\ shown' = shown /\ stored' = stored
        /\ subject' = subject /\ Parts' = Parts /\ Stages' = Stages
    BY <1>1, <1>2
  <2>4. \A p \in Parts' :
            \/ Due'[p] = stored'[subject'][p]
            \/ \E l \in Range(loads') : p \in Coming(l)'
            \/ \E c \in Range(calls') : c.kind = "attach" /\ c.done /\ p = "bugs"
            \/ p = "row" /\ outdated'
    BY <1>0, <1>1, <1>2, <2>1, <2>2, <2>3 DEF PartsAreCurrent
  <2>5. \A l \in Range(loads') :
            /\ l.missed = {}
            /\ \A got \in l.got, p \in Stages'[l.at] : got[p] = stored'[subject'][p]
    BY <1>0, <2>2, <2>3 DEF PartsAreCurrent
  <2>6. \A c \in Range(calls') : c.kind = "remove" /\ ~c.done =>
            c.at \in DOMAIN shown'.attachments /\ c.item = {shown'.attachments[c.at]}
    BY <1>0, <2>2, <2>3 DEF PartsAreCurrent
  <2> QED
    BY Zenon, <2>4, <2>5, <2>6 DEF PartsAreCurrent
<1> QED
  BY <1>21, <1>22, <1>23, <1>24 DEF PanelInv

LEMMA GiveUpKeeps ==
    ASSUME PanelInv, NEW i, GiveUp(i)
    PROVE  PanelInv'
<1>1. /\ i \in DOMAIN calls /\ calls' = RemoveAt(calls, i)
      /\ clouded' = (clouded \/ calls[i].done)
      /\ mishaps < MaxMishaps /\ mishaps' = mishaps + 1
      /\ UNCHANGED <<panel, stored, open, subject, shown, picked, veil, loads, hurried,
                     outdated, moves>>
  BY DEF GiveUp, Mishap, screen
<1>0. /\ PanelTypeOK /\ StoredUnderItsSubject /\ CallsMakeItems /\ RowIsShown
      /\ OneThingAtATime /\ VeilIsBacked /\ PartsAreOfTheSubject /\ PickedIsListed
      /\ PartsAreCurrent
  BY DEF PanelInv
<1>2. /\ Stages' = Stages /\ Parts' = Parts /\ Contents' = Contents
      /\ LoadSet' = LoadSet /\ CallSet' = CallSet /\ Reachable' = Reachable
      /\ Covers' = Covers
  BY <1>1, SameTable
<1>3. /\ calls' \in Seq(CallSet) /\ Len(calls') = Len(calls) - 1
      /\ Range(calls') \subseteq Range(calls) /\ (Len(calls) = 1 => calls' = <<>>)
  <2>1. PICK n : n = calls'
    OBVIOUS
  <2>2. /\ n \in Seq(CallSet) /\ Len(n) = Len(calls) - 1
        /\ Range(n) \subseteq Range(calls) /\ (Len(calls) = 1 => n = <<>>)
    BY <1>0, <1>1, <2>1, CallIsOver
  <2> QED
    BY <2>1, <2>2
<1>21. PanelTypeOK'
  <2>1. mishaps' \in 0..MaxMishaps /\ clouded' \in BOOLEAN
    BY <1>0, <1>1, BoundsAssumption, CallFacts DEF PanelTypeOK
  <2> QED
    BY <1>0, <1>1, <1>2, <1>3, <2>1 DEF PanelTypeOK
<1>22. /\ StoredUnderItsSubject' /\ CallsMakeItems' /\ RowIsShown' /\ PickedIsListed'
       /\ VeilIsBacked' /\ PartsAreOfTheSubject'
  BY <1>0, <1>1, <1>2, <1>3 DEF StoredUnderItsSubject, CallsMakeItems, RowIsShown,
     PickedIsListed, VeilIsBacked, IsOpening, PartsAreOfTheSubject
<1>23. OneThingAtATime'
  <2>1. Len(loads) \in Nat /\ Len(calls) \in Nat /\ Len(calls') \in Nat
    BY <1>0, <1>3 DEF PanelTypeOK
  <2>2. Len(calls') = Len(calls) - 1 /\ Range(calls') \subseteq Range(calls)
    BY <1>3
  <2> QED
    BY <1>0, <1>1, <2>1, <2>2 DEF OneThingAtATime
<1>24. PartsAreCurrent'
  <2>1. SUFFICES ASSUME open, ~hurried, ~clouded, ~calls[i].done PROVE PartsAreCurrent'
    BY <1>1 DEF PartsAreCurrent
  <2>2. i = 1 /\ Len(calls) = 1 /\ \A c \in Range(calls) : c = calls[i]
    BY <1>1, <2>1, CallAlone
  <2>3. calls' = <<>> /\ \A c \in Range(calls') : FALSE
    BY <1>3, <2>2 DEF Range
  <2>4. Due = shown /\ Due' = shown
    BY <1>1, <2>1, <2>2, <2>3 DEF Due
  <2>5. \A p \in Parts : \/ shown[p] = stored[subject][p]
                         \/ \E l \in Range(loads) : p \in Coming(l)
                         \/ p = "row" /\ outdated
    BY <1>0, <2>1, <2>2, <2>4 DEF PartsAreCurrent
  <2>6. \A l \in Range(loads) :
            l.missed = {} /\ \A h \in l.got, p \in Stages[l.at] : h[p] = stored[subject][p]
    BY <1>0, <2>1 DEF PartsAreCurrent
  <2>7. \A l : Coming(l)' = Coming(l)
    BY <1>1, SameTable
  <2> QED
    BY Zenon, <1>1, <1>2, <2>3, <2>4, <2>5, <2>6, <2>7 DEF PartsAreCurrent
<1> QED
  BY <1>21, <1>22, <1>23, <1>24 DEF PanelInv

\* What belongs in a part of a subject, and in the database; and the writing of
\* one part of one subject.
Fits(s, part, items) ==
    /\ items \in Seq(Items) /\ \A x \in Range(items) : x.of = s
    /\ part = "row" => Len(items) = 1
    /\ part = "executions" => items # <<>>
    /\ part = "attachments" => Single(items)

WellStored(new) == \A t \in Subjects, p \in Parts : Fits(t, p, new[t][p])

Written(new, s, part, items) ==
    /\ new[s][part] = items
    /\ \A t \in Subjects, p \in Parts : t # s \/ p # part => new[t][p] = stored[t][p]

LEMMA StoredFits ==
    ASSUME PanelTypeOK, StoredUnderItsSubject
    PROVE  WellStored(stored)
<1>1. \A t \in Subjects, p \in Parts : stored[t][p] \in Seq(Items)
  BY DEF PanelTypeOK, Contents
<1>2. /\ \A t \in Subjects, p \in Parts : \A x \in Range(stored[t][p]) : x.of = t
      /\ \A t \in Subjects :
             /\ "row" \in Parts => Len(stored[t].row) = 1
             /\ "executions" \in Parts => stored[t].executions # <<>>
             /\ "attachments" \in Parts => Single(stored[t].attachments)
  BY DEF StoredUnderItsSubject, Single
<1> QED
  BY <1>1, <1>2 DEF WellStored, Fits

LEMMA StoreOne ==
    ASSUME PanelTypeOK, StoredUnderItsSubject, NEW s \in Subjects, NEW part \in Parts,
           NEW items, Fits(s, part, items), NEW new, new = [stored EXCEPT ![s][part] = items]
    PROVE  new \in [Subjects -> Contents] /\ Written(new, s, part, items) /\ WellStored(new)
<1>1. stored \in [Subjects -> [Parts -> Seq(Items)]] /\ items \in Seq(Items)
  BY DEF PanelTypeOK, Contents, Fits
<1>2. new \in [Subjects -> [Parts -> Seq(Items)]]
  BY <1>1
<1>3. Written(new, s, part, items)
  BY <1>1 DEF Written
<1>4. WellStored(new)
  BY <1>3, StoredFits DEF WellStored, Written
<1> QED
  BY <1>2, <1>3, <1>4 DEF Contents

\* What is stored stays well stored when one part has been written.
LEMMA StoredUnderAgain ==
    ASSUME Parts' = Parts, WellStored(stored'),
           \A l \in Range(loads') : \A got \in l.got, p \in Parts :
               \A x \in Range(got[p]) : x.of = l.of
    PROVE  StoredUnderItsSubject'
<1>1. \A t \in Subjects, p \in Parts : \A x \in Range(stored'[t][p]) : x.of = t
  BY DEF WellStored, Fits
<1>2. \A t \in Subjects :
          /\ "row" \in Parts => Len(stored'[t].row) = 1
          /\ "executions" \in Parts => stored'[t].executions # <<>>
          /\ "attachments" \in Parts => Single(stored'[t].attachments)
  BY DEF WellStored, Fits
<1> QED
  BY <1>1, <1>2 DEF StoredUnderItsSubject, Single

\* What is added to a list, or takes the place of a row.
LEMMA AddedFacts ==
    ASSUME PanelTypeOK, StoredUnderItsSubject, NEW s \in Subjects, NEW p \in Parts
    PROVE  /\ Fits(s, "row", <<FreshItem(s, p)>>)
           /\ p # "row" => Fits(s, p, Append(stored[s][p], FreshItem(s, p)))
<1>1. PICK x, old : x = FreshItem(s, p) /\ old = stored[s][p]
  OBVIOUS
<1>2. x \in Items /\ x.of = s /\ x \notin Range(old)
  BY <1>1, FreshFacts
<1>3. Fits(s, p, old)
  BY <1>1, StoredFits DEF WellStored
<1>4. Fits(s, "row", <<x>>)
  <2>1. <<x>> \in Seq(Items) /\ Range(<<x>>) = {x} /\ Len(<<x>>) = 1
    BY <1>2 DEF Range
  <2> QED
    BY <1>2, <2>1 DEF Fits
<1>5. ASSUME p # "row" PROVE Fits(s, p, Append(old, x))
  <2>1. old \in Seq(Items) /\ x \in Items
    BY <1>2, <1>3 DEF Fits
  <2>2. /\ Append(old, x) \in Seq(Items) /\ Append(old, x) # <<>>
        /\ Range(Append(old, x)) = Range(old) \cup {x}
    BY <2>1, AppendRange
  <2>3. p = "attachments" => Single(Append(old, x))
    <3>1. x \notin Range(old) /\ (p = "attachments" => Single(old))
      BY <1>2, <1>3 DEF Fits
    <3> QED
      BY <2>1, <3>1, AppendSingle
  <2>4. \A y \in Range(Append(old, x)) : y.of = s
    BY <1>2, <1>3, <2>2 DEF Fits
  <2> QED
    BY <1>5, <2>2, <2>3, <2>4 DEF Fits
<1> QED
  BY <1>1, <1>4, <1>5

LEMMA OthersKeep ==
    ASSUME PanelInv, Others
    PROVE  PanelInv'
<1>1. /\ \E s \in Subjects, p \in Parts :
             stored' = [stored EXCEPT ![s][p] =
                 IF p = "row" THEN <<FreshItem(s, p)>> ELSE Append(@, FreshItem(s, p))]
      /\ clouded' = TRUE /\ mishaps < MaxMishaps /\ mishaps' = mishaps + 1
      /\ UNCHANGED <<panel, open, subject, shown, picked, veil, loads, calls, hurried,
                     outdated, moves>>
  BY DEF Others, Mishap, screen
<1>0. /\ PanelTypeOK /\ StoredUnderItsSubject /\ CallsMakeItems /\ RowIsShown
      /\ OneThingAtATime /\ VeilIsBacked /\ PartsAreOfTheSubject /\ PickedIsListed
  BY DEF PanelInv
<1>2. /\ Stages' = Stages /\ Parts' = Parts /\ Contents' = Contents
      /\ LoadSet' = LoadSet /\ CallSet' = CallSet /\ Reachable' = Reachable
      /\ Covers' = Covers
  BY <1>1, SameTable
<1>3. PICK s \in Subjects, p \in Parts :
          stored' = [stored EXCEPT ![s][p] =
              IF p = "row" THEN <<FreshItem(s, p)>> ELSE Append(@, FreshItem(s, p))]
  BY <1>1
<1>4. PICK items, new :
          /\ items = IF p = "row" THEN <<FreshItem(s, p)>>
                     ELSE Append(stored[s][p], FreshItem(s, p))
          /\ new = stored'
  OBVIOUS
<1>5. new = [stored EXCEPT ![s][p] = items]
  BY Zenon, <1>3, <1>4
<1>6. Fits(s, p, items)
  <2>1. p = "row" => Fits(s, p, <<FreshItem(s, p)>>)
    BY <1>0, AddedFacts
  <2>2. p # "row" => Fits(s, p, Append(stored[s][p], FreshItem(s, p)))
    BY <1>0, AddedFacts
  <2> QED
    BY <1>4, <2>1, <2>2
<1>7. new \in [Subjects -> Contents] /\ WellStored(new)
  BY <1>0, <1>5, <1>6, StoreOne
<1>21. PanelTypeOK'
  <2>1. mishaps' \in 0..MaxMishaps
    BY <1>0, <1>1, BoundsAssumption DEF PanelTypeOK
  <2> QED
    BY <1>0, <1>1, <1>2, <1>4, <1>7, <2>1 DEF PanelTypeOK
<1>22. StoredUnderItsSubject'
  <2>1. \A l \in Range(loads') : \A got \in l.got, q \in Parts :
            \A x \in Range(got[q]) : x.of = l.of
    BY <1>0, <1>1 DEF StoredUnderItsSubject
  <2> QED
    BY <1>2, <1>4, <1>7, <2>1, StoredUnderAgain
<1>23. /\ CallsMakeItems' /\ RowIsShown' /\ OneThingAtATime'
       /\ VeilIsBacked' /\ PartsAreOfTheSubject' /\ PickedIsListed'
  BY <1>0, <1>1, <1>2 DEF CallsMakeItems, RowIsShown, OneThingAtATime,
     VeilIsBacked, IsOpening, PartsAreOfTheSubject, PickedIsListed
<1>24. PartsAreCurrent'
  BY <1>1 DEF PartsAreCurrent
<1> QED
  BY <1>21, <1>22, <1>23, <1>24 DEF PanelInv

\* A call has been served.
Served(n, i, item) ==
    /\ n \in Seq(CallSet) /\ Len(n) = Len(calls) /\ DOMAIN n = DOMAIN calls
    /\ \A j \in DOMAIN calls : j # i => n[j] = calls[j]
    /\ n[i].kind = calls[i].kind /\ n[i].of = calls[i].of /\ n[i].at = calls[i].at
    /\ n[i].item = item /\ n[i].done = TRUE

LEMMA CallServed ==
    ASSUME PanelTypeOK, NEW i \in DOMAIN calls, NEW item, item \subseteq Items, NEW n,
           \/ n = [calls EXCEPT ![i].done = TRUE, ![i].item = item]
           \/ n = [calls EXCEPT ![i].done = TRUE] /\ item = calls[i].item
    PROVE  Served(n, i, item)
<1>1. calls \in Seq(CallSet) /\ calls[i] \in CallSet
  BY CallFacts DEF PanelTypeOK
<1>2. PICK k, o, a, x, d :
          /\ calls[i] = [kind |-> k, of |-> o, at |-> a, item |-> x, done |-> d]
          /\ k \in panel.clicks \ {"pick", "refresh"} /\ o \in Subjects /\ a \in Nat
  BY <1>1 DEF CallSet
<1>3. PICK c : c = [kind |-> k, of |-> o, at |-> a, item |-> item, done |-> TRUE]
  OBVIOUS
<1>4. PICK old : old = calls[i]
  OBVIOUS
<1>5. n = [calls EXCEPT ![i] = c]
  <2>1. PICK done : done = [old EXCEPT !.done = TRUE]
    OBVIOUS
  <2>2. done = [kind |-> k, of |-> o, at |-> a, item |-> x, done |-> TRUE]
    <3>1. PICK yes : yes = TRUE
      OBVIOUS
    <3>2. done = [old EXCEPT !.done = yes]
      BY Zenon, <2>1, <3>1
    <3>3. old = [kind |-> k, of |-> o, at |-> a, item |-> x, done |-> d]
      BY <1>2, <1>4
    <3>4. done = [kind |-> k, of |-> o, at |-> a, item |-> x, done |-> yes]
      BY <3>2, <3>3
    <3> QED
      BY Zenon, <3>1, <3>4
  <2>3. CASE n = [calls EXCEPT ![i].done = TRUE] /\ item = calls[i].item
    <3>1. n = [calls EXCEPT ![i] = done]
      BY Zenon, <1>4, <2>1, <2>3
    <3>2. x = item
      BY <1>2, <2>3
    <3> QED
      BY Zenon, <1>3, <2>2, <3>1, <3>2
  <2>4. CASE n = [calls EXCEPT ![i].done = TRUE, ![i].item = item]
    <3>1. PICK both : both = [done EXCEPT !.item = item]
      OBVIOUS
    <3>2. both = [kind |-> k, of |-> o, at |-> a, item |-> item, done |-> TRUE]
      BY <2>2, <3>1
    <3>3. [calls EXCEPT ![i].done = TRUE, ![i].item = item]
              = [calls EXCEPT ![i] = [[calls[i] EXCEPT !.done = TRUE] EXCEPT !.item = item]]
      BY <1>1
    <3>4. n = [calls EXCEPT ![i] = both]
      BY Zenon, <1>4, <2>1, <2>4, <3>1, <3>3
    <3> QED
      BY Zenon, <1>3, <3>2, <3>4
  <2> QED
    BY <2>3, <2>4
<1>6. c \in CallSet
  BY <1>2, <1>3 DEF CallSet
<1>7. /\ n \in Seq(CallSet) /\ Len(n) = Len(calls) /\ DOMAIN n = DOMAIN calls
      /\ n[i] = c /\ \A j \in DOMAIN calls : j # i => n[j] = calls[j]
  BY <1>1, <1>5, <1>6, ChangeOne
<1> QED
  BY <1>2, <1>3, <1>7 DEF Served

\* What the server does: a call is served with an item of its own subject, and a
\* screen that was up to date will be so again when the answer is in, but for the
\* bugs, which are then asked for, and for a row copied from a list that was behind.
Alike(s) ==
    \A p \in Parts : shown[p] = stored[s][p] \/ (p = "row" /\ outdated)

Abreast(c, new) ==
    \A p \in Parts :
        \/ Answered(c)[p] = new[c.of][p]
        \/ c.kind = "attach" /\ p = "bugs"
        \/ p = "row" /\ outdated

Effect(i, n, new) ==
    /\ new \in [Subjects -> Contents] /\ WellStored(new)
    /\ \E item \in SUBSET Items :
           /\ Served(n, i, item)
           /\ calls[i].kind = "remove" => item = calls[i].item
           /\ calls[i].kind \in {"upload", "transition"} =>
                  \E x : x.of = calls[i].of /\ item = {x}
    /\ /\ Alike(calls[i].of)
       /\ calls[i].kind = "remove" => /\ calls[i].at \in DOMAIN shown.attachments
                                      /\ calls[i].item = {shown.attachments[calls[i].at]}
       => Abreast(n[i], new)

\* The parts that clicks are about are there.
LEMMA ClickParts ==
    ASSUME PanelTypeOK, NEW i \in DOMAIN calls
    PROVE  /\ calls[i].kind \in {"upload", "remove"} => "attachments" \in Parts
           /\ calls[i].kind = "transition" => "row" \in Parts
           /\ calls[i].kind = "attach" =>
                  "bugs" \in Parts /\ Stages # <<>> /\ "bugs" \in Stages[Len(Stages)]
<1>1. calls[i].kind \in panel.clicks /\ GoodPanel(panel) /\ Parts = PartsOf(panel)
  BY CallFacts, PanelFacts
<1>2. /\ calls[i].kind \in {"upload", "remove"} => "attachments" \in Parts
      /\ calls[i].kind = "transition" => "row" \in Parts
  BY <1>1, PanelFacts DEF GoodPanel
<1>3. ASSUME calls[i].kind = "attach"
      PROVE  "bugs" \in Parts /\ Stages # <<>> /\ "bugs" \in Stages[Len(Stages)]
  <2>1. Stages # <<>> /\ "bugs" \in Stages[Len(Stages)]
    BY <1>1, <1>3 DEF GoodPanel, Stages
  <2>2. Len(Stages) \in 1..Len(Stages)
    BY <2>1, PanelFacts
  <2> QED
    BY <2>1, <2>2, PanelFacts
<1> QED
  BY <1>2, <1>3

LEMMA NewFacts == \A c, x : c.item = {x} => New(c) = x
BY DEF New

\* Screen and database change alike.
LEMMA StaysAbreast ==
    ASSUME PanelTypeOK, NEW c, NEW part \in Parts, NEW items, NEW new,
           c.of \in Subjects, Written(new, c.of, part, items),
           Answered(c) = [shown EXCEPT ![part] = items],
           Alike(c.of)
    PROVE  Abreast(c, new)
<1>1. shown \in [Parts -> Seq(Items)]
  BY DEF PanelTypeOK, Contents
<1>2. /\ Answered(c)[part] = items
      /\ \A p \in Parts : p # part => Answered(c)[p] = shown[p]
  BY <1>1
<1>3. /\ new[c.of][part] = items
      /\ \A p \in Parts : p # part => new[c.of][p] = stored[c.of][p]
  BY DEF Written
<1> QED
  BY <1>2, <1>3 DEF Abreast, Alike

LEMMA UploadServed ==
    ASSUME PanelTypeOK, StoredUnderItsSubject, NEW i \in DOMAIN calls,
           calls[i].kind = "upload", NEW fresh, fresh = FreshItem(calls[i].of, "attachments"),
           NEW n, n = [calls EXCEPT ![i].done = TRUE, ![i].item = {fresh}],
           NEW new, new = [stored EXCEPT ![calls[i].of].attachments =
                              Append(stored[calls[i].of].attachments, fresh)]
    PROVE  Effect(i, n, new)
<1>1. PICK s, items : s = calls[i].of /\ items = Append(stored[s].attachments, fresh)
  OBVIOUS
<1>2. s \in Subjects /\ "attachments" \in Parts
  BY <1>1, CallFacts, ClickParts
<1>3. fresh \in Items /\ fresh.of = s
  BY <1>1, <1>2, FreshFacts
<1>4. Fits(s, "attachments", items)
  BY <1>1, <1>2, AddedFacts
<1>5. /\ new \in [Subjects -> Contents] /\ Written(new, s, "attachments", items)
      /\ WellStored(new)
  <2>1. new = [stored EXCEPT ![s]["attachments"] = items]
    BY Zenon, <1>1
  <2> QED
    BY <1>2, <1>4, <2>1, StoreOne
<1>6. PICK item : item = {fresh}
  OBVIOUS
<1>7. item \in SUBSET Items /\ \E x : x.of = s /\ item = {x}
  BY <1>3, <1>6
<1>8. Served(n, i, item)
  <2>1. n = [calls EXCEPT ![i].done = TRUE, ![i].item = item]
    BY Zenon, <1>6
  <2> QED
    BY <1>7, <2>1, CallServed
<1>9. ASSUME Alike(s) PROVE Abreast(n[i], new)
  <2>1. PICK c : c = n[i]
    OBVIOUS
  <2>2. c.kind = "upload" /\ c.of = s /\ New(c) = fresh
    <3>1. c.kind = "upload" /\ c.of = s /\ c.item = {fresh}
      BY Zenon, <1>1, <1>6, <1>8, <2>1 DEF Served
    <3> QED
      BY Zenon, <3>1, NewFacts
  <2>3. Answered(c) = [shown EXCEPT !.attachments = Append(shown.attachments, New(c))]
    BY Zenon, <2>2, AnsweredFacts
  <2>4. items = Append(shown.attachments, New(c))
    <3>1. "attachments" # "row"
      OBVIOUS
    <3>2. shown.attachments = stored[s].attachments
      BY Zenon, <1>2, <1>9, <3>1 DEF Alike
    <3> QED
      BY Zenon, <1>1, <2>2, <3>2
  <2>5. Answered(c) = [shown EXCEPT !["attachments"] = items]
    BY Zenon, <2>3, <2>4
  <2>6. Abreast(c, new)
    <3>1. c.of \in Subjects /\ Written(new, c.of, "attachments", items)
      BY Zenon, <1>2, <1>5, <2>2
    <3>2. Alike(c.of)
      BY Zenon, <1>9, <2>2
    <3> QED
      BY Zenon, <1>2, <2>5, <3>1, <3>2, StaysAbreast
  <2> QED
    BY <2>1, <2>6
<1> QED
  BY <1>1, <1>5, <1>7, <1>8, <1>9 DEF Effect

LEMMA RemoveServed ==
    ASSUME PanelTypeOK, StoredUnderItsSubject, NEW i \in DOMAIN calls,
           calls[i].kind = "remove", NEW gone \in calls[i].item,
           gone \in Range(stored[gone.of].attachments),
           NEW n, n = [calls EXCEPT ![i].done = TRUE],
           NEW new, new = [stored EXCEPT ![gone.of].attachments =
                              RemoveAt(stored[gone.of].attachments,
                                       Place(stored[gone.of].attachments, gone))]
    PROVE  Effect(i, n, new)
<1>1. PICK s, old : s = gone.of /\ old = stored[s].attachments
  OBVIOUS
<1>2. calls[i].item \subseteq Items /\ gone \in Items
  BY CallFacts
<1>3. s \in Subjects /\ "attachments" \in Parts
  BY <1>1, <1>2, ItemFacts, ClickParts
<1>4. Fits(s, "attachments", old)
  BY <1>1, <1>3, StoredFits DEF WellStored
<1>5. PICK k \in DOMAIN old : old[k] = gone
  BY <1>1 DEF Range
<1>6. PICK items : items = RemoveAt(old, k)
  OBVIOUS
<1>7. Place(old, gone) = k
  BY <1>4, <1>5, PlaceFacts DEF Fits
<1>8. Fits(s, "attachments", items)
  <2>1. old \in Seq(Items)
    BY <1>4 DEF Fits
  <2>2. RemoveAt(old, k) \in Seq(Items)
    BY <1>5, <2>1, RemoveFacts
  <2>3. Range(RemoveAt(old, k)) \subseteq Range(old)
    BY <1>5, <2>1, RemoveRange
  <2>4. Single(RemoveAt(old, k))
    BY <1>4, <1>5, <2>1, RemoveSingle DEF Fits
  <2> QED
    BY <1>4, <1>6, <2>2, <2>3, <2>4 DEF Fits
<1>9. /\ new \in [Subjects -> Contents] /\ Written(new, s, "attachments", items)
      /\ WellStored(new)
  <2>1. new = [stored EXCEPT ![s]["attachments"] = items]
    BY Zenon, <1>1, <1>6, <1>7
  <2> QED
    BY <1>3, <1>8, <2>1, StoreOne
<1>10. PICK item : item = calls[i].item
  OBVIOUS
<1>11. Served(n, i, item)
  BY <1>2, <1>10, CallServed
<1>12. ASSUME Alike(calls[i].of),
              calls[i].at \in DOMAIN shown.attachments,
              calls[i].item = {shown.attachments[calls[i].at]}
       PROVE  Abreast(n[i], new)
  <2>1. calls[i].of \in Subjects
    BY CallFacts
  <2>2. calls[i].of = s /\ shown.attachments = old
    <3>1. shown.attachments = stored[calls[i].of].attachments /\ gone \in Range(shown.attachments)
      BY <1>3, <1>12 DEF Range, Alike
    <3>2. gone.of = calls[i].of
      BY <1>3, <2>1, <3>1 DEF StoredUnderItsSubject
    <3> QED
      BY <1>1, <3>1, <3>2
  <2>3. calls[i].at = k
    <3>1. calls[i].at \in DOMAIN old /\ old[calls[i].at] = gone
      BY <1>12, <2>2
    <3> QED
      BY <1>4, <1>5, <3>1 DEF Fits, Single
  <2>4. PICK c : c = n[i]
    OBVIOUS
  <2>5. c.kind = "remove" /\ c.of = s /\ c.at = k
    BY Zenon, <1>11, <2>2, <2>3, <2>4 DEF Served
  <2>6. Answered(c) = [shown EXCEPT !["attachments"] = items]
    <3>1. Answered(c) = [shown EXCEPT !.attachments =
                             IF c.at \in DOMAIN shown.attachments
                             THEN RemoveAt(shown.attachments, c.at)
                             ELSE shown.attachments]
      BY Zenon, <2>5, AnsweredFacts
    <3>2. items = IF c.at \in DOMAIN shown.attachments
                  THEN RemoveAt(shown.attachments, c.at)
                  ELSE shown.attachments
      BY Zenon, <1>5, <1>6, <2>2, <2>5
    <3> QED
      BY Zenon, <3>1, <3>2
  <2>7. Abreast(c, new)
    <3>1. c.of \in Subjects /\ Written(new, c.of, "attachments", items)
      BY Zenon, <1>3, <1>9, <2>5
    <3>2. Alike(c.of)
      BY Zenon, <1>12, <2>2, <2>5
    <3> QED
      BY Zenon, <1>3, <2>6, <3>1, <3>2, StaysAbreast
  <2> QED
    BY <2>4, <2>7
<1> QED
  BY <1>2, <1>9, <1>10, <1>11, <1>12 DEF Effect

LEMMA TransitionServed ==
    ASSUME PanelTypeOK, StoredUnderItsSubject, NEW i \in DOMAIN calls,
           calls[i].kind = "transition", NEW fresh, fresh = FreshItem(calls[i].of, "row"),
           NEW n, n = [calls EXCEPT ![i].done = TRUE, ![i].item = {fresh}],
           NEW new, new = [stored EXCEPT ![calls[i].of].row = <<fresh>>]
    PROVE  Effect(i, n, new)
<1>1. PICK s, items : s = calls[i].of /\ items = <<fresh>>
  OBVIOUS
<1>2. s \in Subjects /\ "row" \in Parts
  BY <1>1, CallFacts, ClickParts
<1>3. fresh \in Items /\ fresh.of = s
  BY <1>1, <1>2, FreshFacts
<1>4. Fits(s, "row", items)
  BY <1>1, <1>2, AddedFacts
<1>5. /\ new \in [Subjects -> Contents] /\ Written(new, s, "row", items)
      /\ WellStored(new)
  <2>1. new = [stored EXCEPT ![s]["row"] = items]
    BY Zenon, <1>1
  <2> QED
    BY <1>2, <1>4, <2>1, StoreOne
<1>6. PICK item : item = {fresh}
  OBVIOUS
<1>7. item \in SUBSET Items /\ \E x : x.of = s /\ item = {x}
  BY <1>3, <1>6
<1>8. Served(n, i, item)
  <2>1. n = [calls EXCEPT ![i].done = TRUE, ![i].item = item]
    BY Zenon, <1>6
  <2> QED
    BY <1>7, <2>1, CallServed
<1>9. ASSUME Alike(s), ~outdated PROVE Abreast(n[i], new)
  <2>1. PICK c : c = n[i]
    OBVIOUS
  <2>2. c.kind = "transition" /\ c.of = s /\ New(c) = fresh
    <3>1. c.kind = "transition" /\ c.of = s /\ c.item = {fresh}
      BY Zenon, <1>1, <1>6, <1>8, <2>1 DEF Served
    <3> QED
      BY Zenon, <3>1, NewFacts
  <2>3. Answered(c) = [shown EXCEPT !.row = <<Item(shown.row[1].of, New(c).n)>>]
    BY Zenon, <2>2, AnsweredFacts
  <2>4. shown.row[1].of = s
    <3>1. shown.row = stored[s].row /\ Len(stored[s].row) = 1 /\ stored[s].row \in Seq(Items)
      BY <1>2, <1>9, ContentFacts DEF StoredUnderItsSubject, PanelTypeOK, Alike
    <3>2. shown.row[1] \in Range(stored[s].row)
      BY <3>1 DEF Range
    <3> QED
      BY <1>2, <3>2 DEF StoredUnderItsSubject
  <2>5. items = <<Item(shown.row[1].of, New(c).n)>>
    <3>1. Item(s, fresh.n) = fresh
      BY Zenon, <1>3, ItemFacts
    <3> QED
      BY Zenon, <1>1, <2>2, <2>4, <3>1
  <2>6. Answered(c) = [shown EXCEPT !["row"] = items]
    BY Zenon, <2>3, <2>5
  <2>7. Abreast(c, new)
    <3>1. c.of \in Subjects /\ Written(new, c.of, "row", items)
      BY Zenon, <1>2, <1>5, <2>2
    <3>2. Alike(c.of)
      BY Zenon, <1>9, <2>2
    <3> QED
      BY Zenon, <1>2, <2>6, <3>1, <3>2, StaysAbreast
  <2> QED
    BY <2>1, <2>7
<1>10. ASSUME Alike(s), outdated PROVE Abreast(n[i], new)
  <2>1. PICK c, row : c = n[i] /\ row = <<Item(shown.row[1].of, New(c).n)>>
    OBVIOUS
  <2>2. c.kind = "transition" /\ c.of = s
    BY Zenon, <1>1, <1>8, <2>1 DEF Served
  <2>3. Answered(c) = [shown EXCEPT !.row = row]
    BY Zenon, <2>1, <2>2, AnsweredFacts
  <2>4. \A p \in Parts : p # "row" => Answered(c)[p] = shown[p]
    <3>1. shown \in [Parts -> Seq(Items)]
      BY DEF PanelTypeOK, Contents
    <3> QED
      BY <2>3, <3>1
  <2>5. \A p \in Parts : p # "row" => new[s][p] = stored[s][p]
    BY <1>5 DEF Written
  <2>6. Abreast(c, new)
    BY Zenon, <1>10, <2>2, <2>4, <2>5 DEF Abreast, Alike
  <2> QED
    BY <2>1, <2>6
<1> QED
  BY <1>1, <1>5, <1>7, <1>8, <1>9, <1>10 DEF Effect

LEMMA AttachServed ==
    ASSUME PanelTypeOK, StoredUnderItsSubject, NEW i \in DOMAIN calls,
           calls[i].kind = "attach",
           NEW n, n = [calls EXCEPT ![i].done = TRUE],
           NEW new, new = [stored EXCEPT ![calls[i].of].bugs =
                              Append(stored[calls[i].of].bugs, FreshItem(calls[i].of, "bugs"))]
    PROVE  Effect(i, n, new)
<1>1. PICK s, items :
          /\ s = calls[i].of
          /\ items = Append(stored[s].bugs, FreshItem(s, "bugs"))
  OBVIOUS
<1>2. s \in Subjects /\ "bugs" \in Parts
  BY <1>1, CallFacts, ClickParts
<1>3. Fits(s, "bugs", items)
  BY <1>1, <1>2, AddedFacts
<1>4. /\ new \in [Subjects -> Contents] /\ Written(new, s, "bugs", items)
      /\ WellStored(new)
  <2>1. new = [stored EXCEPT ![s]["bugs"] = items]
    BY Zenon, <1>1
  <2> QED
    BY <1>2, <1>3, <2>1, StoreOne
<1>5. PICK item : item = calls[i].item
  OBVIOUS
<1>6. item \in SUBSET Items
  BY <1>5, CallFacts
<1>7. Served(n, i, item)
  BY <1>5, <1>6, CallServed
<1>8. ASSUME Alike(s) PROVE Abreast(n[i], new)
  <2>1. PICK c : c = n[i]
    OBVIOUS
  <2>2. c.kind = "attach" /\ c.of = s
    BY Zenon, <1>1, <1>7, <2>1 DEF Served
  <2>3. Answered(c) = shown
    BY <2>2, AnsweredFacts
  <2>4. \A p \in Parts :
            p # "bugs" => shown[p] = new[s][p] \/ (p = "row" /\ outdated)
    BY Zenon, <1>2, <1>4, <1>8 DEF Written, Alike
  <2>5. Abreast(c, new)
    BY Zenon, <2>2, <2>3, <2>4 DEF Abreast
  <2> QED
    BY <2>1, <2>5
<1> QED
  BY <1>1, <1>4, <1>5, <1>6, <1>7, <1>8 DEF Effect

LEMMA CloneServed ==
    ASSUME PanelTypeOK, StoredUnderItsSubject, NEW i \in DOMAIN calls,
           calls[i].kind = "clone", NEW n, n = [calls EXCEPT ![i].done = TRUE]
    PROVE  Effect(i, n, stored)
<1>1. PICK item : item = calls[i].item
  OBVIOUS
<1>2. item \in SUBSET Items
  BY <1>1, CallFacts
<1>3. Served(n, i, item)
  BY <1>1, <1>2, CallServed
<1>4. stored \in [Subjects -> Contents] /\ WellStored(stored)
  BY StoredFits DEF PanelTypeOK
<1>5. ASSUME Alike(calls[i].of)
      PROVE  Abreast(n[i], stored)
  <2>1. PICK c : c = n[i]
    OBVIOUS
  <2>2. c.kind = "clone" /\ c.of = calls[i].of
    BY Zenon, <1>3, <2>1 DEF Served
  <2>3. Answered(c) = shown
    BY <2>2, AnsweredFacts
  <2>4. Abreast(c, stored)
    BY Zenon, <1>5, <2>2, <2>3 DEF Abreast, Alike
  <2> QED
    BY <2>1, <2>4
<1> QED
  BY <1>1, <1>2, <1>3, <1>4, <1>5 DEF Effect

LEMMA PerformEffect ==
    ASSUME PanelTypeOK, StoredUnderItsSubject, NEW i, Perform(i)
    PROVE  Effect(i, calls', stored')
<1>1. i \in DOMAIN calls
  BY DEF Perform
<1>2. PICK n, new : n = calls' /\ new = stored'
  OBVIOUS
<1>3. CASE /\ calls[i].kind = "upload"
           /\ stored' = [stored EXCEPT ![calls[i].of].attachments =
                  Append(@, FreshItem(calls[i].of, "attachments"))]
           /\ calls' = [calls EXCEPT ![i].done = TRUE,
                                     ![i].item = {FreshItem(calls[i].of, "attachments")}]
  <2>1. PICK fresh : fresh = FreshItem(calls[i].of, "attachments")
    OBVIOUS
  <2>2. /\ n = [calls EXCEPT ![i].done = TRUE, ![i].item = {fresh}]
        /\ new = [stored EXCEPT ![calls[i].of].attachments =
                     Append(stored[calls[i].of].attachments, fresh)]
    BY Zenon, <1>2, <1>3, <2>1
  <2> QED
    BY Zenon, <1>1, <1>2, <1>3, <2>1, <2>2, UploadServed
<1>4. CASE /\ calls[i].kind = "remove"
           /\ \E item \in calls[i].item :
                 /\ item \in Range(stored[item.of].attachments)
                 /\ stored' = [stored EXCEPT ![item.of].attachments =
                        RemoveAt(@, Place(@, item))]
           /\ calls' = [calls EXCEPT ![i].done = TRUE]
  <2>1. PICK gone \in calls[i].item :
            /\ gone \in Range(stored[gone.of].attachments)
            /\ stored' = [stored EXCEPT ![gone.of].attachments =
                   RemoveAt(@, Place(@, gone))]
    BY Zenon, <1>4
  <2>2. /\ n = [calls EXCEPT ![i].done = TRUE]
        /\ new = [stored EXCEPT ![gone.of].attachments =
                     RemoveAt(stored[gone.of].attachments,
                              Place(stored[gone.of].attachments, gone))]
    BY Zenon, <1>2, <1>4, <2>1
  <2> QED
    BY Zenon, <1>1, <1>2, <1>4, <2>1, <2>2, RemoveServed
<1>5. CASE /\ calls[i].kind = "transition"
           /\ stored' = [stored EXCEPT ![calls[i].of].row = <<FreshItem(calls[i].of, "row")>>]
           /\ calls' = [calls EXCEPT ![i].done = TRUE,
                                     ![i].item = {FreshItem(calls[i].of, "row")}]
  <2>1. PICK fresh : fresh = FreshItem(calls[i].of, "row")
    OBVIOUS
  <2>2. /\ n = [calls EXCEPT ![i].done = TRUE, ![i].item = {fresh}]
        /\ new = [stored EXCEPT ![calls[i].of].row = <<fresh>>]
    BY Zenon, <1>2, <1>5, <2>1
  <2> QED
    BY Zenon, <1>1, <1>2, <1>5, <2>1, <2>2, TransitionServed
<1>6. CASE /\ calls[i].kind = "attach"
           /\ stored' = [stored EXCEPT ![calls[i].of].bugs =
                  Append(@, FreshItem(calls[i].of, "bugs"))]
           /\ calls' = [calls EXCEPT ![i].done = TRUE]
  <2>1. /\ n = [calls EXCEPT ![i].done = TRUE]
        /\ new = [stored EXCEPT ![calls[i].of].bugs =
                     Append(stored[calls[i].of].bugs, FreshItem(calls[i].of, "bugs"))]
    BY Zenon, <1>2, <1>6
  <2> QED
    BY Zenon, <1>1, <1>2, <1>6, <2>1, AttachServed
<1>7. CASE /\ calls[i].kind = "clone" /\ calls' = [calls EXCEPT ![i].done = TRUE]
           /\ UNCHANGED stored
  <2>1. n = [calls EXCEPT ![i].done = TRUE] /\ new = stored
    BY Zenon, <1>2, <1>7
  <2> QED
    BY Zenon, <1>1, <1>2, <1>7, <2>1, CloneServed
<1> QED
  BY Zenon, <1>3, <1>4, <1>5, <1>6, <1>7 DEF Perform

LEMMA PerformKeeps ==
    ASSUME PanelInv, NEW i, Perform(i)
    PROVE  PanelInv'
<1>1. /\ i \in DOMAIN calls /\ ~calls[i].done
      /\ UNCHANGED <<panel, open, subject, shown, picked, veil, loads, hurried, clouded, outdated,
                     moves, mishaps>>
  BY Zenon DEF Perform, screen, counts
<1>0. /\ PanelTypeOK /\ StoredUnderItsSubject /\ CallsMakeItems /\ RowIsShown
      /\ OneThingAtATime /\ VeilIsBacked /\ PartsAreOfTheSubject /\ PickedIsListed
      /\ PartsAreCurrent
  BY DEF PanelInv
<1>2. /\ Stages' = Stages /\ Parts' = Parts /\ Contents' = Contents
      /\ LoadSet' = LoadSet /\ CallSet' = CallSet /\ Reachable' = Reachable
      /\ Covers' = Covers
  BY <1>1, SameTable
<1>3. Effect(i, calls', stored')
  BY <1>0, PerformEffect
<1>4. stored' \in [Subjects -> Contents] /\ WellStored(stored')
  BY Zenon, <1>3 DEF Effect
<1>5. PICK item \in SUBSET Items :
          /\ Served(calls', i, item)
          /\ calls[i].kind = "remove" => item = calls[i].item
          /\ calls[i].kind \in {"upload", "transition"} =>
                 \E x : x.of = calls[i].of /\ item = {x}
  BY Zenon, <1>3 DEF Effect
<1>6. PICK c : c = calls'[i]
  OBVIOUS
<1>7. /\ calls' \in Seq(CallSet) /\ Len(calls') = Len(calls) /\ DOMAIN calls' = DOMAIN calls
      /\ \A j \in DOMAIN calls : j # i => calls'[j] = calls[j]
      /\ c.kind = calls[i].kind /\ c.of = calls[i].of /\ c.at = calls[i].at
      /\ c.item = item /\ c.done = TRUE
  BY Zenon, <1>5, <1>6 DEF Served
<1>8. \A k \in Range(calls') : k = c \/ k \in Range(calls)
  BY <1>6, <1>7 DEF Range
<1>9. calls[i] \in Range(calls)
  BY <1>1 DEF Range
<1>21. PanelTypeOK'
  BY <1>0, <1>1, <1>2, <1>4, <1>7 DEF PanelTypeOK
<1>22. StoredUnderItsSubject'
  <2>1. \A l \in Range(loads') : \A got \in l.got, q \in Parts :
            \A x \in Range(got[q]) : x.of = l.of
    BY <1>0, <1>1 DEF StoredUnderItsSubject
  <2> QED
    BY <1>2, <1>4, <2>1, StoredUnderAgain
<1>23. CallsMakeItems'
  <2>1. /\ c.kind = "remove" => \E x \in c.item : c.item = {x}
        /\ c.kind = "transition" => Len(shown.row) = 1
    BY <1>0, <1>5, <1>7, <1>9 DEF CallsMakeItems
  <2>2. c.kind \in {"upload", "transition"} => \E x \in c.item : x.of = c.of /\ c.item = {x}
    BY <1>5, <1>7
  <2>3. \A k \in Range(calls) :
            /\ k.kind = "remove" => \E x \in k.item : k.item = {x}
            /\ k.kind \in {"upload", "transition"} /\ k.done =>
                   \E x \in k.item : x.of = k.of /\ k.item = {x}
            /\ k.kind = "transition" => Len(shown.row) = 1
    BY <1>0 DEF CallsMakeItems
  <2>4. shown' = shown
    BY <1>1
  <2> QED
    BY <1>8, <2>1, <2>2, <2>3, <2>4 DEF CallsMakeItems
<1>24. RowIsShown' /\ VeilIsBacked' /\ PartsAreOfTheSubject' /\ PickedIsListed'
  BY <1>0, <1>1, <1>2 DEF RowIsShown, VeilIsBacked, IsOpening, PartsAreOfTheSubject,
     PickedIsListed
<1>25. OneThingAtATime'
  <2>1. (\A k \in Range(calls) : k.of = subject) => \A k \in Range(calls') : k.of = subject
    BY <1>7, <1>8, <1>9
  <2> QED
    BY <1>0, <1>1, <1>7, <2>1 DEF OneThingAtATime
<1>26. PartsAreCurrent'
  <2>1. SUFFICES ASSUME open, ~hurried, ~clouded PROVE PartsAreCurrent'
    BY <1>1 DEF PartsAreCurrent
  <2>2. /\ i = 1 /\ loads = <<>> /\ calls[i].of = subject
        /\ \A k \in Range(calls) : k = calls[i]
    BY <1>1, <2>1, CallAlone
  <2>3. \A l \in Range(loads) : FALSE
    BY <2>2 DEF Range
  <2>4. \A k \in Range(calls') : k = c
    <3>1. \A j \in DOMAIN calls : j = i
      BY <1>1, <2>1, CallAlone
    <3> QED
      BY <1>6, <1>7, <3>1 DEF Range
  <2>5. c \in Range(calls')
    BY <1>1, <1>6, <1>7 DEF Range
  <2>6. Due = shown
    BY <1>1, <2>2 DEF Due
  <2>7. Alike(subject)
    BY <1>0, <1>1, <2>1, <2>2, <2>3, <2>6 DEF PartsAreCurrent, Alike
  <2>8. calls[i].kind = "remove" =>
            /\ calls[i].at \in DOMAIN shown.attachments
            /\ calls[i].item = {shown.attachments[calls[i].at]}
    BY <1>0, <1>1, <1>9, <2>1 DEF PartsAreCurrent
  <2>9. Abreast(c, stored')
    BY Zenon, <1>3, <1>6, <2>2, <2>7, <2>8 DEF Effect
  <2>10. Due' = Answered(c)
    <3>1. calls' # <<>> /\ calls'[1] = c /\ c.done
      BY <1>6, <1>7, <2>2, <2>5 DEF Range
    <3>2. Due' = Answered(c)'
      BY Zenon, <3>1 DEF Due
    <3>3. Answered(c)' = Answered(c)
      BY <1>1 DEF Answered, New
    <3> QED
      BY <3>2, <3>3
  <2>11. \A p \in Parts : \/ Due'[p] = stored'[subject][p]
                          \/ c.kind = "attach" /\ p = "bugs"
                          \/ p = "row" /\ outdated
    BY Zenon, <1>7, <2>2, <2>9, <2>10 DEF Abreast
  <2>12. \A p \in Parts' :
             \/ Due'[p] = stored'[subject'][p]
             \/ \E k \in Range(calls') : k.kind = "attach" /\ k.done /\ p = "bugs"
             \/ p = "row" /\ outdated'
    BY <1>1, <1>2, <1>7, <2>5, <2>11
  <2>13. /\ \A l \in Range(loads') : FALSE
         /\ \A k \in Range(calls') : k.done
    BY <1>1, <1>7, <2>3, <2>4
  <2> QED
    BY Zenon, <2>12, <2>13 DEF PartsAreCurrent
<1> QED
  BY <1>21, <1>22, <1>23, <1>24, <1>25, <1>26 DEF PanelInv

\* What an answer does to the screen.
LEMMA AnswerOnScreen ==
    ASSUME PanelTypeOK, CallsMakeItems, NEW i \in DOMAIN calls, calls[i].done,
           NEW screen1, screen1 = Answered(calls[i])
    PROVE  /\ screen1 \in Contents
           /\ "row" \in Parts /\ Len(shown.row) = 1 => Len(screen1.row) = 1
           /\ \A p \in Parts : \A s :
                  calls[i].of = s /\ (\A x \in Range(shown[p]) : x.of = s)
                      => \A x \in Range(screen1[p]) : x.of = s
<1>1. PICK c : c = calls[i]
  OBVIOUS
<1>2. shown \in [Parts -> Seq(Items)]
  BY DEF PanelTypeOK, Contents
<1>3. c \in Range(calls) /\ c.item \subseteq Items /\ screen1 = Answered(c)
  BY <1>1, CallFacts
<1>4. CASE c.kind = "upload"
  <2>1. "attachments" \in Parts
    BY <1>1, <1>4, ClickParts
  <2>2. PICK x, old : x = New(c) /\ old = shown.attachments
    OBVIOUS
  <2>3. x \in Items /\ x.of = c.of
    <3>1. PICK y \in c.item : y.of = c.of /\ c.item = {y}
      BY <1>1, <1>3, <1>4 DEF CallsMakeItems
    <3>2. x = y
      BY <2>2, <3>1, NewFacts
    <3> QED
      BY <1>3, <3>1, <3>2
  <2>4. old \in Seq(Items)
    BY <1>2, <2>1, <2>2
  <2>5. PICK items : items = Append(old, x)
    OBVIOUS
  <2>6. items \in Seq(Items) /\ Range(items) = Range(old) \cup {x}
    BY <2>3, <2>4, <2>5, AppendRange
  <2>7. screen1 = [shown EXCEPT !.attachments = items]
    <3>1. Answered(c) = [shown EXCEPT !.attachments = Append(shown.attachments, New(c))]
      BY Zenon, <1>4, AnsweredFacts
    <3> QED
      BY Zenon, <1>3, <2>2, <2>5, <3>1
  <2>8. /\ screen1 \in Contents /\ screen1["attachments"] = items
        /\ \A p \in Parts : p # "attachments" => screen1[p] = shown[p]
    BY <1>2, <2>1, <2>6, <2>7 DEF Contents
  <2> QED
    BY <1>1, <2>2, <2>3, <2>6, <2>8
<1>5. CASE c.kind = "remove"
  <2>1. "attachments" \in Parts
    BY <1>1, <1>5, ClickParts
  <2>2. PICK old : old = shown.attachments
    OBVIOUS
  <2>3. PICK items : items = IF c.at \in DOMAIN old THEN RemoveAt(old, c.at) ELSE old
    OBVIOUS
  <2>4. old \in Seq(Items)
    BY <1>2, <2>1, <2>2
  <2>5. items \in Seq(Items) /\ Range(items) \subseteq Range(old)
    BY <2>3, <2>4, RemoveFacts, RemoveRange
  <2>6. screen1 = [shown EXCEPT !.attachments = items]
    <3>1. Answered(c) = [shown EXCEPT !.attachments =
                             IF c.at \in DOMAIN shown.attachments
                             THEN RemoveAt(shown.attachments, c.at)
                             ELSE shown.attachments]
      BY Zenon, <1>5, AnsweredFacts
    <3> QED
      BY Zenon, <1>3, <2>2, <2>3, <3>1
  <2>7. /\ screen1 \in Contents /\ screen1["attachments"] = items
        /\ \A p \in Parts : p # "attachments" => screen1[p] = shown[p]
    BY <1>2, <2>1, <2>5, <2>6 DEF Contents
  <2> QED
    BY <1>1, <2>2, <2>5, <2>7
<1>6. CASE c.kind = "transition"
  <2>1. "row" \in Parts
    BY <1>1, <1>6, ClickParts
  <2>2. PICK first, made : first = shown.row[1] /\ made = New(c)
    OBVIOUS
  <2>3. first \in Items /\ first \in Range(shown.row)
    <3>1. Len(shown.row) = 1 /\ shown.row \in Seq(Items)
      BY <1>2, <1>3, <1>6, <2>1 DEF CallsMakeItems
    <3> QED
      BY <2>2, <3>1 DEF Range
  <2>4. made \in Items
    <3>1. PICK y \in c.item : c.item = {y}
      BY <1>1, <1>3, <1>6 DEF CallsMakeItems
    <3>2. made = y
      BY <2>2, <3>1, NewFacts
    <3> QED
      BY <1>3, <3>2
  <2>5. PICK x : x = Item(first.of, made.n)
    OBVIOUS
  <2>6. x \in Items /\ x.of = first.of
    BY Zenon, <2>3, <2>4, <2>5, ItemFacts
  <2>7. PICK items : items = <<x>>
    OBVIOUS
  <2>8. items \in Seq(Items) /\ Range(items) = {x} /\ Len(items) = 1
    BY <2>6, <2>7 DEF Range
  <2>9. screen1 = [shown EXCEPT !.row = items]
    <3>1. Answered(c) = [shown EXCEPT !.row = <<Item(shown.row[1].of, New(c).n)>>]
      BY Zenon, <1>6, AnsweredFacts
    <3> QED
      BY Zenon, <1>3, <2>2, <2>5, <2>7, <3>1
  <2>10. /\ screen1 \in Contents /\ screen1["row"] = items
         /\ \A p \in Parts : p # "row" => screen1[p] = shown[p]
    BY <1>2, <2>1, <2>8, <2>9 DEF Contents
  <2> QED
    BY <2>3, <2>6, <2>8, <2>10
<1>7. CASE c.kind \notin {"upload", "remove", "transition"}
  <2>1. screen1 = shown
    BY Zenon, <1>3, <1>7, AnsweredFacts
  <2> QED
    BY <1>2, <2>1 DEF Contents
<1> QED
  BY <1>4, <1>5, <1>6, <1>7

LEMMA DashboardIsOnlyRefreshed == Dashboard.clicks = {"refresh"}
BY DEF Dashboard, Panel, DashboardClicks

LEMMA FinishKeeps ==
    ASSUME PanelInv, NEW i, Finish(i)
    PROVE  PanelInv'
<1>1. /\ i \in DOMAIN calls /\ calls[i].done /\ calls' = RemoveAt(calls, i)
      /\ shown' = Answered(calls[i])
      /\ loads' = IF calls[i].kind # "attach" THEN loads
                  ELSE Append(loads, [Load(calls[i].of) EXCEPT
                           !.at = Len(Stages), !.merge = TRUE])
      /\ hurried' = (hurried \/ (calls[i].kind = "attach" /\ loads # <<>>))
      /\ UNCHANGED <<panel, stored, open, subject, picked, veil, clouded, outdated, moves, mishaps>>
  BY DEF Finish, counts
<1>0. /\ PanelTypeOK /\ StoredUnderItsSubject /\ CallsMakeItems /\ RowIsShown
      /\ OneThingAtATime /\ VeilIsBacked /\ PartsAreOfTheSubject /\ PickedIsListed
      /\ PartsAreCurrent
  BY DEF PanelInv
<1>2. /\ Stages' = Stages /\ Parts' = Parts /\ Contents' = Contents
      /\ LoadSet' = LoadSet /\ CallSet' = CallSet /\ Reachable' = Reachable
      /\ Covers' = Covers
      /\ \A l : Coming(l)' = Coming(l)
  BY <1>1, SameTable
<1>3. /\ calls' \in Seq(CallSet) /\ Range(calls') \subseteq Range(calls)
      /\ (Len(calls) = 1 => calls' = <<>>)
  <2>1. PICK n : n = calls'
    OBVIOUS
  <2>2. /\ n \in Seq(CallSet) /\ Range(n) \subseteq Range(calls)
        /\ (Len(calls) = 1 => n = <<>>)
    BY <1>0, <1>1, <2>1, CallIsOver
  <2> QED
    BY <2>1, <2>2
<1>4. /\ shown' \in Contents
      /\ "row" \in Parts /\ Len(shown.row) = 1 => Len(shown'.row) = 1
      /\ \A p \in Parts : \A s :
             calls[i].of = s /\ (\A x \in Range(shown[p]) : x.of = s)
                 => \A x \in Range(shown'[p]) : x.of = s
  <2>1. PICK screen1 : screen1 = shown'
    OBVIOUS
  <2>2. /\ screen1 \in Contents
        /\ "row" \in Parts /\ Len(shown.row) = 1 => Len(screen1.row) = 1
        /\ \A p \in Parts : \A s :
               calls[i].of = s /\ (\A x \in Range(shown[p]) : x.of = s)
                   => \A x \in Range(screen1[p]) : x.of = s
    BY Zenon, <1>0, <1>1, <2>1, AnswerOnScreen
  <2> QED
    BY Zenon, <2>1, <2>2
<1>5. PICK m : m = [of |-> calls[i].of, at |-> Len(Stages), got |-> {}, missed |-> {},
                    merge |-> TRUE]
  OBVIOUS
<1>6. /\ m.of = calls[i].of /\ m.at = Len(Stages) /\ m.got = {} /\ m.missed = {}
      /\ m.merge = TRUE
  BY <1>5
<1>7. /\ loads' \in Seq(LoadSet)
      /\ calls[i].kind # "attach" => loads' = loads
      /\ calls[i].kind = "attach" => /\ loads' = Append(loads, m)
                                     /\ Range(loads') = Range(loads) \cup {m}
  <2>1. loads \in Seq(LoadSet)
    BY <1>0 DEF PanelTypeOK
  <2>2. ASSUME calls[i].kind = "attach" PROVE m \in LoadSet
    <3>1. calls[i].of \in Subjects /\ Len(Stages) \in 1..Len(Stages)
      <4>1. calls[i].of \in Subjects /\ Stages # <<>>
        BY <1>0, <1>1, <2>2, CallFacts, ClickParts
      <4> QED
        BY <1>0, <4>1, PanelFacts
    <3> QED
      BY <1>5, <3>1 DEF LoadSet
  <2>3. ASSUME calls[i].kind = "attach"
        PROVE  loads' = Append(loads, m)
    <3>1. PICK o, last : o = calls[i].of /\ last = Len(Stages)
      OBVIOUS
    <3>2. [Load(o) EXCEPT !.at = last, !.merge = TRUE] = m
      <4>1. last \in Nat /\ o \in Subjects
        <5>1. m \in LoadSet /\ m.at = last /\ m.of = o
          BY <1>6, <2>2, <2>3, <3>1
        <5>2. \A x \in LoadSet : x.of \in Subjects /\ x.at \in 1..Len(Stages)
          BY DEF LoadSet
        <5>3. 1..Len(Stages) \subseteq Nat
          BY <1>0, PanelFacts
        <5> QED
          BY Zenon, <5>1, <5>2, <5>3
      <4>2. PICK yes : yes \in BOOLEAN /\ yes = TRUE
        OBVIOUS
      <4>3. PICK l0 : l0 = [of |-> o, at |-> 1, got |-> {}, missed |-> {}, merge |-> FALSE]
        OBVIOUS
      <4>4. PICK l1 : l1 = [l0 EXCEPT !.at = last]
        OBVIOUS
      <4>5. l1 = [of |-> o, at |-> last, got |-> {}, missed |-> {}, merge |-> FALSE]
        BY <4>1, <4>3, <4>4
      <4>6. PICK l2 : l2 = [l1 EXCEPT !.merge = yes]
        OBVIOUS
      <4>7. l2 = [of |-> o, at |-> last, got |-> {}, missed |-> {}, merge |-> yes]
        BY <4>1, <4>2, <4>5, <4>6
      <4>8. m = [of |-> o, at |-> last, got |-> {}, missed |-> {}, merge |-> yes]
        BY Zenon, <1>5, <3>1, <4>2
      <4>9. [l0 EXCEPT !.at = last, !.merge = yes] = l2
        BY Zenon, <4>4, <4>6
      <4>10. l0 = Load(o)
        BY Zenon, <4>3 DEF Load
      <4> QED
        BY Zenon, <4>2, <4>7, <4>8, <4>9, <4>10
    <3> QED
      BY Zenon, <1>1, <2>3, <3>1, <3>2
  <2>4. ASSUME calls[i].kind = "attach"
        PROVE  loads' \in Seq(LoadSet) /\ Range(loads') = Range(loads) \cup {m}
    <3>1. /\ Append(loads, m) \in Seq(LoadSet)
          /\ Range(Append(loads, m)) = Range(loads) \cup {m}
      BY <2>1, <2>2, <2>4, AppendRange
    <3> QED
      BY Zenon, <2>3, <2>4, <3>1
  <2>5. calls[i].kind # "attach" => loads' = loads
    BY Zenon, <1>1
  <2> QED
    BY <2>1, <2>3, <2>4, <2>5
<1>8. \A l \in Range(loads') : l \in Range(loads) \/ (l = m /\ calls[i].kind = "attach")
  BY <1>7
<1>9. ASSUME ~hurried'
      PROVE  /\ ~hurried /\ loads = <<>> /\ calls' = <<>> /\ calls[i].of = subject /\ i = 1
             /\ \A l \in Range(loads') : l = m
  <2>1. ~hurried
    BY <1>1, <1>9
  <2>2. loads = <<>> /\ Len(calls) = 1 /\ calls[i].of = subject /\ i = 1
    BY <1>1, <2>1, CallAlone
  <2>3. \A l \in Range(loads) : FALSE
    BY <2>2 DEF Range
  <2> QED
    BY <1>3, <1>8, <2>1, <2>2, <2>3
<1>10. calls[i].kind \in panel.clicks
  BY <1>0, <1>1, CallFacts
<1>21. PanelTypeOK'
  <2>1. hurried' \in BOOLEAN
    BY <1>0, <1>1 DEF PanelTypeOK
  <2> QED
    BY <1>0, <1>1, <1>2, <1>3, <1>4, <1>7, <2>1 DEF PanelTypeOK
<1>22. StoredUnderItsSubject'
  <2>1. \A l \in Range(loads') : \A h \in l.got, p \in Parts :
            \A x \in Range(h[p]) : x.of = l.of
    BY <1>0, <1>6, <1>8 DEF StoredUnderItsSubject
  <2> QED
    BY <1>0, <1>1, <1>2, <2>1 DEF StoredUnderItsSubject
<1>23. "transition" \in panel.clicks => "row" \in Parts
  BY <1>0, PanelFacts DEF GoodPanel
<1>24. CallsMakeItems'
  <2>1. \A c \in Range(calls) : c.kind \in panel.clicks
    BY <1>0, CallFacts DEF Range
  <2>2. \A c \in Range(calls') :
            /\ c.kind = "remove" => \E x \in c.item : c.item = {x}
            /\ c.kind \in {"upload", "transition"} /\ c.done =>
                   \E x \in c.item : x.of = c.of /\ c.item = {x}
            /\ c.kind = "transition" => Len(shown.row) = 1
    BY <1>0, <1>3 DEF CallsMakeItems
  <2>3. \A c \in Range(calls') : c.kind = "transition" => Len(shown'.row) = 1
    BY <1>3, <1>4, <1>23, <2>1, <2>2
  <2> QED
    BY Zenon, <2>2, <2>3 DEF CallsMakeItems
<1>25. RowIsShown'
  BY <1>0, <1>1, <1>4, <1>23 DEF RowIsShown
<1>26. PickedIsListed'
  <2>1. panel # ReportRuns
    BY <1>0, <1>1, CallFacts, ReportRunsFacts
  <2> QED
    BY <1>1, <2>1 DEF PickedIsListed
<1>27. OneThingAtATime'
  <2>1. SUFFICES ASSUME ~hurried' PROVE OneThingAtATime'
    BY DEF OneThingAtATime
  <2>2. Len(loads') \in {0, 1} /\ Len(calls') = 0
    <3>1. loads' = <<>> \/ loads' = Append(<<>>, m)
      BY Zenon, <1>7, <1>9, <2>1
    <3>2. Len(<<>>) = 0 /\ Len(Append(<<>>, m)) = 1
      OBVIOUS
    <3> QED
      BY Zenon, <1>9, <2>1, <3>1, <3>2
  <2>3. Len(loads') + Len(calls') <= 1
    <3>1. \A x, y : x \in {0, 1} /\ y = 0 => x + y <= 1
      OBVIOUS
    <3> QED
      BY Zenon, <2>2, <3>1
  <2>4. \A c \in Range(calls') : FALSE
    BY <1>9, <2>1 DEF Range
  <2>5. \A l \in Range(loads') : l.of = subject
    BY <1>6, <1>9, <2>1
  <2> QED
    BY <1>1, <2>3, <2>4, <2>5 DEF OneThingAtATime
<1>28. VeilIsBacked'
  <2>1. IsOpening' = IsOpening
    BY <1>6, <1>7, <1>8 DEF IsOpening
  <2> QED
    BY <1>0, <1>1, <2>1 DEF VeilIsBacked
<1>29. PartsAreOfTheSubject'
  <2>1. panel # Dashboard
    BY <1>0, <1>1, CallFacts, DashboardIsOnlyRefreshed
  <2>2. ASSUME open, ~hurried', NEW p \in Parts
        PROVE  \/ \A x \in Range(shown'[p]) : x.of = subject
               \/ clouded /\ p \in panel.failing.keeps
    <3>1. ~hurried /\ calls[i].of = subject /\ \A l \in Range(loads) : FALSE
      BY <1>9, <2>2 DEF Range
    <3>2. \/ \A x \in Range(shown[p]) : x.of = subject
          \/ clouded /\ p \in panel.failing.keeps
      BY <1>0, <2>2, <3>1 DEF PartsAreOfTheSubject
    <3> QED
      BY <1>4, <3>1, <3>2
  <2> QED
    BY <1>1, <1>2, <2>1, <2>2 DEF PartsAreOfTheSubject
<1>30. PartsAreCurrent'
  <2>1. SUFFICES ASSUME open, ~hurried', ~clouded PROVE PartsAreCurrent'
    BY <1>1 DEF PartsAreCurrent
  <2>2. /\ ~hurried /\ i = 1 /\ calls' = <<>> /\ \A l \in Range(loads) : FALSE
        /\ \A l \in Range(loads') : l = m
        /\ \A c \in Range(calls) : c = calls[i]
    BY <1>1, <1>9, <2>1, CallAlone DEF Range
  <2>3. Due = shown' /\ Due' = shown'
    <3>1. calls # <<>>
      BY <1>1
    <3> QED
      BY Zenon, <1>1, <2>2, <3>1 DEF Due
  <2>4. \A p \in Parts : \/ shown'[p] = stored[subject][p]
                         \/ calls[i].kind = "attach" /\ p = "bugs"
                         \/ p = "row" /\ outdated
    BY Zenon, <1>0, <2>1, <2>2, <2>3 DEF PartsAreCurrent
  <2>5. calls[i].kind = "attach" => \E l \in Range(loads') : "bugs" \in Coming(l)'
    <3>1. SUFFICES ASSUME calls[i].kind = "attach"
                   PROVE  \E l \in Range(loads') : "bugs" \in Coming(l)'
      OBVIOUS
    <3>2. "bugs" \in Stages[Len(Stages)]
      BY <1>0, <1>1, <3>1, ClickParts
    <3>3. "bugs" \in Coming(m)
      <4>1. Len(Stages) \in Len(Stages)..Len(Stages)
        BY <1>0, PanelFacts
      <4> QED
        BY <1>6, <3>2, <4>1 DEF Coming
    <3> QED
      BY <1>2, <1>7, <3>1, <3>3
  <2>6. \A p \in Parts' :
            \/ Due'[p] = stored'[subject'][p]
            \/ \E l \in Range(loads') : p \in Coming(l)'
            \/ p = "row" /\ outdated'
    BY <1>1, <1>2, <2>3, <2>4, <2>5
  <2>7. /\ \A l \in Range(loads') : l.missed = {} /\ l.got = {}
        /\ \A c \in Range(calls') : FALSE
    BY <1>6, <2>2 DEF Range
  <2> QED
    BY Zenon, <2>6, <2>7 DEF PartsAreCurrent
<1> QED
  BY <1>21, <1>22, <1>24, <1>25, <1>26, <1>27, <1>28, <1>29, <1>30 DEF PanelInv

----------------------------------------------------------------------------
(* The theorems *)

LEMMA FirstItemsFacts ==
    ASSUME NEW s \in Subjects, NEW p
    PROVE  /\ FirstItems(s, p) \in Seq(Items) /\ FirstItems(s, p) # <<>>
           /\ p # "attachments" => Len(FirstItems(s, p)) = 1
           /\ \A i \in Range(FirstItems(s, p)) : i.of = s
           /\ \A j, k \in DOMAIN FirstItems(s, p) :
                  FirstItems(s, p)[j] = FirstItems(s, p)[k] => j = k
<1>1. PICK x, y : x = Item(s, 1) /\ y = Item(s, 2)
  OBVIOUS
<1>2. x \in Items /\ y \in Items /\ x.of = s /\ y.of = s /\ x # y
  <2>1. 1 \in Nat /\ 2 \in Nat /\ 1 # 2
    OBVIOUS
  <2>2. x \in Items /\ x.of = s /\ x.n = 1
    BY Zenon, <1>1, <2>1, ItemFacts
  <2>3. y \in Items /\ y.of = s /\ y.n = 2
    BY Zenon, <1>1, <2>1, ItemFacts
  <2> QED
    BY Zenon, <2>1, <2>2, <2>3
<1>3. CASE p = "attachments"
  <2>1. FirstItems(s, p) = <<x, y>>
    BY Zenon, <1>1, <1>3 DEF FirstItems
  <2>2. /\ <<x, y>> \in Seq(Items) /\ <<x, y>> # <<>>
        /\ \A i \in Range(<<x, y>>) : i.of = s
        /\ \A j, k \in DOMAIN <<x, y>> : <<x, y>>[j] = <<x, y>>[k] => j = k
    <3> HIDE DEF Items
    <3> QED
      BY <1>2 DEF Range
  <2> QED
    BY Zenon, <1>3, <2>1, <2>2
<1>4. CASE p # "attachments"
  <2>1. FirstItems(s, p) = <<x>>
    BY Zenon, <1>1, <1>4 DEF FirstItems
  <2>2. /\ <<x>> \in Seq(Items) /\ <<x>> # <<>> /\ Len(<<x>>) = 1
        /\ \A i \in Range(<<x>>) : i.of = s
        /\ \A j, k \in DOMAIN <<x>> : <<x>>[j] = <<x>>[k] => j = k
    BY <1>2 DEF Range
  <2> QED
    BY Zenon, <2>1, <2>2
<1> QED
  BY <1>3, <1>4

LEMMA InitKeeps ==
    ASSUME PanelInit
    PROVE  PanelInv
<1>1. /\ panel \in Panels /\ open = FALSE /\ subject \in Reachable /\ picked = {}
      /\ shown = [p \in Parts |-> <<>>] /\ veil = FALSE /\ loads = <<>> /\ calls = <<>>
      /\ hurried = FALSE /\ clouded = FALSE /\ outdated = FALSE /\ moves = 0 /\ mishaps = 0
      /\ stored = [s \in Subjects |-> [p \in Parts |-> FirstItems(s, p)]]
  BY DEF PanelInit
<1>2. /\ \A l \in Range(loads) : FALSE
      /\ \A c \in Range(calls) : FALSE
      /\ Len(loads) + Len(calls) <= 1
  BY <1>1 DEF Range
<1>3. /\ shown \in Contents
      /\ \A p \in Parts : \A i \in Range(shown[p]) : FALSE
  <2>1. <<>> \in Seq(Items)
    OBVIOUS
  <2> QED
    BY <1>1, <2>1 DEF Contents, Range
<1>4. \A s \in Subjects, p \in Parts : stored[s][p] = FirstItems(s, p)
  BY <1>1
<1>5. PanelTypeOK
  <2>1. stored \in [Subjects -> Contents]
    BY <1>1, FirstItemsFacts DEF Contents
  <2>2. loads \in Seq(LoadSet) /\ calls \in Seq(CallSet)
    BY <1>1
  <2>3. moves \in 0..MaxMoves /\ mishaps \in 0..MaxMishaps
    BY <1>1, BoundsAssumption
  <2> QED
    BY <1>1, <1>3, <2>1, <2>2, <2>3, ReachableFacts DEF PanelTypeOK
<1>6. StoredUnderItsSubject
  <2>1. \A s \in Subjects, p \in Parts : \A i \in Range(stored[s][p]) : i.of = s
    BY <1>4, FirstItemsFacts
  <2>2. ASSUME NEW s \in Subjects
        PROVE  /\ "row" \in Parts => Len(stored[s].row) = 1
               /\ "executions" \in Parts => stored[s].executions # <<>>
               /\ "attachments" \in Parts => \A j, k \in DOMAIN stored[s].attachments :
                      stored[s].attachments[j] = stored[s].attachments[k] => j = k
    <3>1. "row" \in Parts => Len(stored[s].row) = 1
      BY <1>4, FirstItemsFacts
    <3>2. "executions" \in Parts => stored[s].executions # <<>>
      BY <1>4, FirstItemsFacts
    <3>3. "attachments" \in Parts =>
              \A j, k \in DOMAIN stored[s].attachments :
                  stored[s].attachments[j] = stored[s].attachments[k] => j = k
      BY <1>4, FirstItemsFacts
    <3> QED
      BY <3>1, <3>2, <3>3
  <2> QED
    BY <1>2, <2>1, <2>2 DEF StoredUnderItsSubject
<1>7. CallsMakeItems /\ RowIsShown /\ OneThingAtATime /\ VeilIsBacked
  BY <1>1, <1>2 DEF CallsMakeItems, RowIsShown, OneThingAtATime, VeilIsBacked
<1>8. PartsAreOfTheSubject /\ PickedIsListed /\ PartsAreCurrent
  BY <1>1, <1>2, <1>3 DEF PartsAreOfTheSubject, PickedIsListed, PartsAreCurrent
<1> QED
  BY <1>5, <1>6, <1>7, <1>8 DEF PanelInv

LEMMA StutterKeeps ==
    ASSUME PanelInv, UNCHANGED panelVars
    PROVE  PanelInv'
<1>1. UNCHANGED <<panel, stored, open, subject, shown, picked, veil, loads, calls,
                  hurried, clouded, outdated, moves, mishaps>>
  BY DEF panelVars, screen, counts
<1>2. /\ Stages' = Stages /\ Parts' = Parts /\ Contents' = Contents
      /\ LoadSet' = LoadSet /\ CallSet' = CallSet /\ Reachable' = Reachable
      /\ Covers' = Covers
      /\ \A l : Coming(l)' = Coming(l)
  BY <1>1, SameTable
<1>3. Due' = Due /\ IsOpening' = IsOpening
  <2>1. Due' = Due
    BY <1>1 DEF Due, Answered, New
  <2>2. IsOpening' = IsOpening
    BY <1>1 DEF IsOpening
  <2> QED
    BY <2>1, <2>2
<1>4. /\ PanelTypeOK /\ StoredUnderItsSubject /\ CallsMakeItems /\ RowIsShown
      /\ OneThingAtATime /\ VeilIsBacked /\ PartsAreOfTheSubject /\ PickedIsListed
      /\ PartsAreCurrent
  BY DEF PanelInv
<1>5. PanelTypeOK'
  BY <1>1, <1>2, <1>4 DEF PanelTypeOK
<1>6. StoredUnderItsSubject' /\ CallsMakeItems' /\ RowIsShown' /\ PickedIsListed'
  BY <1>1, <1>2, <1>4
  DEF StoredUnderItsSubject, CallsMakeItems, RowIsShown, PickedIsListed
<1>7. OneThingAtATime' /\ VeilIsBacked'
  BY <1>1, <1>3, <1>4 DEF OneThingAtATime, VeilIsBacked
<1>8. PartsAreOfTheSubject'
  BY <1>1, <1>2, <1>4 DEF PartsAreOfTheSubject
<1>9. PartsAreCurrent'
  <2>1. SUFFICES ASSUME open, ~hurried, ~clouded PROVE PartsAreCurrent'
    BY <1>1 DEF PartsAreCurrent
  <2>2. \A p \in Parts' :
            \/ Due'[p] = stored'[subject'][p]
            \/ \E l \in Range(loads') : p \in Coming(l)'
            \/ \E c \in Range(calls') : c.kind = "attach" /\ c.done /\ p = "bugs"
            \/ p = "row" /\ outdated'
    BY <1>1, <1>2, <1>3, <1>4, <2>1 DEF PartsAreCurrent
  <2>3. \A l \in Range(loads') :
            /\ l.missed = {}
            /\ \A got \in l.got, p \in Stages'[l.at] : got[p] = stored'[subject'][p]
    BY <1>1, <1>2, <1>4, <2>1 DEF PartsAreCurrent
  <2>4. \A c \in Range(calls') : c.kind = "remove" /\ ~c.done =>
            c.at \in DOMAIN shown'.attachments /\ c.item = {shown'.attachments[c.at]}
    BY <1>1, <1>4, <2>1 DEF PartsAreCurrent
  <2> QED
    BY Zenon, <2>2, <2>3, <2>4 DEF PartsAreCurrent
<1> QED
  BY <1>5, <1>6, <1>7, <1>8, <1>9 DEF PanelInv

LEMMA StepKeeps ==
    ASSUME PanelInv, [PanelNext]_panelVars
    PROVE  PanelInv'
<1>1. CASE User
  <2>1. CASE \E s \in Reachable : OpenPanel(s)
    BY Zenon, <2>1, OpenPanelKeeps
  <2>2. CASE Close
    BY Zenon, <2>2, CloseKeeps
  <2>3. CASE UploadFile \/ TakeAway \/ Transition \/ Attach \/ Clone
    BY Zenon, <2>3, ClicksKeep
  <2>4. CASE Pick
    BY Zenon, <2>4, PickKeeps
  <2> QED
    BY Zenon, <1>1, <2>1, <2>2, <2>3, <2>4 DEF User
<1>2. CASE Refresh
  BY Zenon, <1>2, RefreshKeeps
<1>3. ASSUME NEW i,
             \/ Serve(i) \/ Arrive(i) \/ Fail(i)
             \/ Perform(i) \/ Finish(i) \/ FinishClone(i) \/ GiveUp(i)
      PROVE  PanelInv'
  BY Zenon, <1>3, ServeKeeps, ArriveKeeps, FailKeeps, PerformKeeps, FinishKeeps,
     FinishCloneKeeps, GiveUpKeeps
<1>4. CASE Others
  BY Zenon, <1>4, OthersKeep
<1>5. CASE UNCHANGED panelVars
  BY Zenon, <1>5, StutterKeeps
<1> QED
  BY Zenon, <1>1, <1>2, <1>3, <1>4, <1>5 DEF PanelNext

\* Whatever table the panel runs, whatever it is opened on one after another, and
\* however its loads and clicks cross: what is stored and what has been read stays
\* under its subject, a veil is always backed by a load, and unhurried there is one
\* thing under way, about the panel's subject (useEffect, the view and edit handlers
\* of the pages in Panels).
THEOREM PanelsAreSound == PanelSpec => []PanelInv
<1>1. PanelInit => PanelInv
  BY InitKeeps
<1>2. PanelInv /\ [PanelNext]_panelVars => PanelInv'
  BY StepKeeps
<1> QED
  BY <1>1, <1>2, PTL DEF PanelSpec

LEMMA SeenFacts ==
    ASSUME PanelInv, NEW p \in Parts
    PROVE  /\ Range(Seen(p)) \subseteq Range(shown[p])
           /\ p # "bugs" => Seen(p) = shown[p]
<1>1. CASE p # "bugs"
  BY Zenon, <1>1 DEF Seen
<1>2. CASE p = "bugs"
  <2>1. shown.bugs \in Seq(Items)
    BY <1>2, ContentFacts DEF PanelInv, PanelTypeOK
  <2>2. PICK owners : owners = {e.of : e \in Range(shown.executions)}
    OBVIOUS
  <2>3. Seen(p) = ItemsOf(shown.bugs, owners)
    BY Zenon, <1>2, <2>2 DEF Seen
  <2>4. \A x \in Range(ItemsOf(shown.bugs, owners)) : x \in Range(shown.bugs)
    BY Zenon, <2>1, ItemsOfType
  <2> QED
    BY <1>2, <2>3, <2>4
<1> QED
  BY <1>1, <1>2

\* With nothing under way, used one thing at a time, and with no failure and no other
\* user since the panel was opened, every part on its screen is what the database
\* has, but for a row copied from a list that was behind: no stage of a
\* load is forgotten, and what a click did there is what its handler did here
\* (handleUploadAttachment, handleDeleteAttachment, handleStatusTransition, the
\* defects of a step).
THEOREM PanelsAreUpToDate == PanelSpec => []ShowsWhatIsStored
<1>1. ASSUME PanelInv, open, Quiet, ~hurried, ~clouded, NEW p \in Parts
      PROVE  Seen(p) = stored[subject][p] \/ (p = "row" /\ outdated)
  <2>1. /\ PanelTypeOK /\ StoredUnderItsSubject /\ PartsAreCurrent
        /\ subject \in Subjects /\ loads = <<>> /\ calls = <<>>
        /\ \A l \in Range(loads) : FALSE
        /\ \A c \in Range(calls) : FALSE
    BY <1>1 DEF PanelInv, PanelTypeOK, Quiet, Range
  <2>2. Due = shown
    BY Zenon, <2>1 DEF Due
  <2>3. \A q \in Parts : shown[q] = stored[subject][q] \/ (q = "row" /\ outdated)
    BY Zenon, <1>1, <2>1, <2>2 DEF PartsAreCurrent
  <2>4. CASE p # "bugs"
    BY Zenon, <1>1, <2>3, <2>4, SeenFacts
  <2>5. CASE p = "bugs"
    <3>1. "executions" \in Parts
      BY <2>1, <2>5, PanelFacts DEF GoodPanel
    <3>2. PICK owners : owners = {e.of : e \in Range(shown.executions)}
      OBVIOUS
    <3>3. Seen(p) = ItemsOf(shown.bugs, owners)
      BY Zenon, <2>5, <3>2 DEF Seen
    <3>4. PICK e \in Range(shown.executions) : e.of = subject
      <4>1. shown.executions \in Seq(Items) /\ shown.executions # <<>>
        BY <2>1, <2>3, <3>1, ContentFacts DEF PanelTypeOK, StoredUnderItsSubject
      <4>2. PICK e \in Range(shown.executions) : TRUE
        <5>1. PICK all : all = shown.executions
          OBVIOUS
        <5>2. all \in Seq(Items) /\ all # <<>>
          BY Zenon, <4>1, <5>1
        <5> HIDE DEF Items
        <5>3. 1 \in DOMAIN all
          BY <5>2
        <5>4. all[1] \in Range(all)
          BY Zenon, <5>3 DEF Range
        <5> QED
          BY Zenon, <5>1, <5>4
      <4>3. \A x \in Range(stored[subject].executions) : x.of = subject
        BY <2>1, <3>1 DEF StoredUnderItsSubject
      <4> QED
        BY <2>3, <3>1, <4>2, <4>3
    <3>5. subject \in owners
      BY <3>2, <3>4
    <3>6. shown.bugs \in Seq(Items) /\ \A x \in Range(shown.bugs) : x.of = subject
      BY <2>1, <2>3, <2>5, ContentFacts DEF PanelTypeOK, StoredUnderItsSubject
    <3>7. \A x \in Range(shown.bugs) : x.of \in owners
      BY <3>5, <3>6
    <3>8. ItemsOf(shown.bugs, owners) = shown.bugs
      BY Zenon, <3>6, <3>7, ItemsOfAll
    <3> QED
      BY Zenon, <2>3, <2>5, <3>3, <3>8
  <2> QED
    BY <2>4, <2>5
<1>2. PanelInv => ShowsWhatIsStored
  BY Zenon, <1>1 DEF ShowsWhatIsStored
<1> QED
  BY <1>2, PanelsAreSound, PTL

\* Nothing of another subject is in sight while a panel is used one thing at a time,
\* but for the parts that lag while they load and what a failure keeps; and the run
\* chosen for export is one of the project chosen, but for the time the list of its
\* runs takes to come (ReportsPage).
THEOREM PanelsKeepToTheirSubject == PanelSpec => []NothingOfAnother
<1>1. ASSUME PanelInv, InSight, ~hurried, NEW p \in Parts
      PROVE  \/ \A i \in Range(Seen(p)) : i.of = subject
             \/ (p \in Lagging /\ loads # <<>>)
             \/ (clouded /\ p \in panel.failing.keeps)
  <2>1. /\ PartsAreOfTheSubject /\ VeilIsBacked
        /\ open /\ (Covers => ~veil)
    BY <1>1 DEF PanelInv, InSight, Hidden
  <2>2. CASE \A i \in Range(shown[p]) : i.of = subject
    BY <1>1, <2>2, SeenFacts
  <2>3. CASE /\ \E l \in Range(loads) : ~l.merge /\ p \in Stages[l.at]
             /\ p \in Lagging \/ Covers
    <3>1. loads # <<>>
      BY <2>3 DEF Range
    <3>2. IsOpening
      BY <2>3 DEF IsOpening
    <3>3. ~Covers
      BY <1>1, <2>1, <3>2 DEF VeilIsBacked, Covers
    <3> QED
      BY <2>3, <3>1, <3>3
  <2> QED
    BY Zenon, <1>1, <2>1, <2>2, <2>3 DEF PartsAreOfTheSubject
<1>2. ASSUME PanelInv, open, ~hurried, panel = ReportRuns, loads = <<>>
      PROVE  \A i \in picked : i.of = subject
  <2>1. /\ "runs" \in Parts /\ panel.failing.keeps = {}
        /\ picked \subseteq Range(shown.runs) /\ PartsAreOfTheSubject
    BY <1>2, PanelFacts, ReportRunsFacts DEF PanelInv, PickedIsListed
  <2>2. \A l \in Range(loads) : FALSE
    BY <1>2 DEF Range
  <2>3. \A i \in Range(shown.runs) : i.of = subject
    BY Zenon, <1>2, <2>1, <2>2 DEF PartsAreOfTheSubject
  <2> QED
    BY <2>1, <2>3
<1>3. PanelInv => NothingOfAnother
  BY Zenon, <1>1, <1>2 DEF NothingOfAnother
<1> QED
  BY <1>3, PanelsAreSound, PTL
=============================================================================
