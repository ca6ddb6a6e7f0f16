------------------------- MODULE FormDialogs_proofs -------------------------
(***************************************************************************)
(* Proofs about module FormDialogs, for any projects, epics, user stories  *)
(* and test cases, lists of any length and any number of requests: what is *)
(* stored agrees, or has agreed, a dialog makes one row, and an edit stores   *)
(* what was chosen.                                                        *)
(***************************************************************************)
EXTENDS FormDialogs, SequenceTheorems, TLAPS

\* What an action leaves alone is a list of variables.
USE DEF world, places

----------------------------------------------------------------------------
(* The tables *)

\* What a table has to be like.  A select empties what is below it; what is
\* stored is loaded, and is stored with what it hangs from; a level that an
\* edit may leave out has to be chosen.
GoodForm(k) ==
    LET D == DOMAIN k.selects IN
    /\ D \subseteq Place
    /\ \A l \in D : k.selects[l].clears \subseteq {"epic", "story", "cases"}
    /\ "epic" \in D => /\ "project" \in D /\ "epic" \in k.selects.project.clears
                       /\ "epic" \notin k.selects.epic.clears
    /\ "story" \in D => /\ "epic" \in D
                        /\ "story" \in k.selects.project.clears \cap k.selects.epic.clears
                        /\ k.selects.story.clears \subseteq {"cases"}
    /\ "project" \in D => /\ k.selects.project.blank = FALSE
                          /\ "project" \in k.needs \cap k.stored
    /\ k.picks # "none" => /\ "project" \in D
                           /\ \A l \in D : "cases" \in k.selects[l].clears
    /\ k.picks = "none" => "cases" \notin k.loaded
    /\ k.loaded \cap Place \subseteq D /\ k.stored \cap Levels \subseteq k.loaded
    /\ "cases" \in k.stored => "project" \in k.stored
    /\ "epic" \in k.stored => "project" \in k.stored
    /\ "story" \in k.stored => "epic" \in k.stored
    /\ "epic" \in k.loaded => "project" \in k.loaded
    /\ "story" \in k.loaded => "epic" \in k.loaded
    /\ k.dropped \subseteq Levels /\ k.dropped \subseteq k.needs /\ "cases" \notin k.dropped
    /\ k.dropped # {} => "project" \in k.dropped
    /\ k.picks # "none" /\ k.dropped # {} => k.awaits
    /\ k.inputs \subseteq k.loaded /\ k.inputs \subseteq k.stored
    /\ k.preset => "project" \in D
    /\ k.rehangs => "epic" \in k.stored
    /\ k.linked => ~k.awaits /\ k.dropped = {} /\ "project" \in k.loaded

\* Every form of the pages has such a table.
LEMMA TablesAreGood == \A k \in AllForms : GoodForm(k)
<1>1. GoodForm(DefectsForm)
  BY DEF GoodForm, DefectsForm, Form,
         DefectsSelects, DefectsInputs, DefectsLoaded, DefectsStored, DefectsNeeds,
         Select, Levels, Place
<1>2. GoodForm(TestCasesForm)
  BY DEF GoodForm, TestCasesForm, Form,
         TestCasesSelects, TestCasesInputs, TestCasesLoaded, TestCasesStored, TestCasesNeeds,
         Select, Levels, Place
<1>3. GoodForm(TestSuitesForm)
  BY DEF GoodForm, TestSuitesForm, Form,
         TestSuitesSelects, TestSuitesInputs, TestSuitesLoaded, TestSuitesStored, TestSuitesNeeds,
         Select, Levels, Place
<1>4. GoodForm(TestRunsForm)
  BY DEF GoodForm, TestRunsForm, Form,
         NoSelects, TestRunsInputs, TestRunsLoaded, TestRunsStored,
         Select, Levels, Place
<1>5. GoodForm(EpicsForm)
  BY DEF GoodForm, EpicsForm, Form,
         EpicsSelects, EpicsInputs, EpicsLoaded, EpicsStored, EpicsNeeds,
         Select, Levels, Place
<1>6. GoodForm(StoriesForm)
  BY DEF GoodForm, StoriesForm, Form,
         StoriesSelects, StoriesInputs, StoriesLoaded, StoriesStored, StoriesNeeds,
         Select, Levels, Place
<1>7. GoodForm(UsersForm)
  BY DEF GoodForm, UsersForm, Form,
         NoSelects, UsersInputs, UsersLoaded, UsersStored,
         Select, Levels, Place
<1>8. GoodForm(RolesForm)
  BY DEF GoodForm, RolesForm, Form,
         NoSelects, RolesInputs, RolesLoaded, RolesStored,
         Select, Levels, Place
<1>9. GoodForm(ProjectsForm)
  BY DEF GoodForm, ProjectsForm, Form,
         NoSelects, ProjectsInputs, ProjectsLoaded, ProjectsStored,
         Select, Levels, Place
<1> QED
  BY <1>1, <1>2, <1>3, <1>4, <1>5, <1>6, <1>7, <1>8, <1>9 DEF AllForms

\* In particular nothing below a project is stored without it.
LEMMA KindFacts ==
    ASSUME TypeOK
    PROVE  /\ GoodForm(kind)
           /\ kind.stored \cap Place \subseteq DOMAIN kind.selects
           /\ "cases" \in kind.stored => kind.picks # "none"
           /\ RestIn(kind.stored) /\ RestIn(kind.loaded)
<1>1. GoodForm(kind)
  BY TablesAreGood DEF TypeOK
<1> QED
  BY <1>1 DEF GoodForm, Place, Levels, RestIn

----------------------------------------------------------------------------
(* Places *)

\* The empty form.
LEMMA EmptyFacts ==
    /\ Empty \in Ats
    /\ Empty["project"] = None /\ Empty["epic"] = None /\ Empty["story"] = None
    /\ Empty["cases"] = {} /\ Empty["rest"] = "blank"
BY DEF Empty, Ats

\* The place of a form, and a project as a place.
LEMMA PlaceFacts ==
    ASSUME NEW at
    PROVE  /\ PlaceOf(at) = [project |-> at["project"], epic |-> at["epic"], story |-> at["story"]]
           /\ \A p : InProject(p) = [project |-> p, epic |-> None, story |-> None]
           /\ \A p : PlaceOf(InProject(p)) = InProject(p)
<1>1. ASSUME NEW a
      PROVE  PlaceOf(a) = [project |-> a["project"], epic |-> a["epic"], story |-> a["story"]]
  BY DEF PlaceOf, Place
<1>2. ASSUME NEW p
      PROVE  /\ InProject(p) = [project |-> p, epic |-> None, story |-> None]
             /\ PlaceOf(InProject(p)) = InProject(p)
  <2> DEFINE e == PlaceOf(Empty)
  <2>1. e = [project |-> None, epic |-> None, story |-> None]
    BY <1>1, EmptyFacts
  <2> HIDE DEF e
  <2>2. [e EXCEPT !.project = p] = [project |-> p, epic |-> None, story |-> None]
    BY <2>1
  <2>3. InProject(p) = [project |-> p, epic |-> None, story |-> None]
    BY <2>2 DEF InProject, e
  <2> QED
    BY <2>3 DEF PlaceOf, Place
<1> QED
  BY <1>1, <1>2

\* They are places.
LEMMA PlaceType ==
    /\ \A at \in Ats : PlaceOf(at) \in Places
    /\ \A p \in Projects \cup {None} : InProject(p) \in Places
BY PlaceFacts DEF Ats, Places

\* The wider a place is, the more cases are in it.
LEMMA WithinGrows ==
    ASSUME NEW homes, NEW a, NEW b, \A l \in Place : b[l] = a[l] \/ b[l] = None
    PROVE  EverWithin(homes, a) \subseteq EverWithin(homes, b)
BY DEF EverWithin, Lies

\* Cases of a place are cases of its project.
LEMMA WithinTheProject ==
    ASSUME NEW homes, NEW a
    PROVE  /\ EverWithin(homes, a) \subseteq EverWithin(homes, InProject(a["project"]))
           /\ EverWithin(homes, PlaceOf(a)) = EverWithin(homes, a)
           /\ a["project"] # None =>
                  \A c \in EverWithin(homes, InProject(a["project"])) :
                      \E h \in homes[c] : h["project"] = a["project"]
<1>1. EverWithin(homes, a) \subseteq EverWithin(homes, InProject(a["project"]))
  BY PlaceFacts DEF EverWithin, Lies, Place
<1>2. EverWithin(homes, PlaceOf(a)) = EverWithin(homes, a)
  BY DEF EverWithin, Lies, PlaceOf
<1>3. ASSUME a["project"] # None, NEW c \in EverWithin(homes, InProject(a["project"]))
      PROVE  \E h \in homes[c] : h["project"] = a["project"]
  BY <1>3, PlaceFacts DEF EverWithin, Lies, Place
<1> QED
  BY <1>1, <1>2, <1>3

\* What has been somewhere has been there for ever.
Grown(a, b) == \A x \in Things : a[x] \subseteq b[x]

LEMMA PlacedForEver ==
    ASSUME NEW a, NEW b, Grown(a, b), NEW at \in Ats
    PROVE  /\ InPlace(a, at) => InPlace(b, at)
           /\ SameProject(a, at) => SameProject(b, at)
<1>1. at["epic"] \in {None} \cup Things /\ at["story"] \in {None} \cup Things
      /\ at["cases"] \subseteq Things
  BY DEF Ats, Things
<1> QED
  BY <1>1 DEF InPlace, SameProject, Grown

LEMMA WithinForEver ==
    ASSUME NEW a, NEW b, Grown(a, b), NEW at
    PROVE  EverWithin(a, at) \subseteq EverWithin(b, at)
BY DEF EverWithin, Grown, Things

\* A list of a place has cases of the place only.
LEMMA ListsFacts ==
    ASSUME NEW at, NEW list \in Lists(at)
    PROVE  list \subseteq Within(at) /\ list \subseteq Cases
BY DEF Lists, kSubset, Within

\* What is in a place has been there, and everything is somewhere.
LEMMA WithinHasBeen ==
    ASSUME WorldOK
    PROVE  /\ \A at : Within(at) \subseteq EverWithin(been, at)
           /\ EverWithin(been, InProject(None)) = Cases
<1>1. \A c \in Cases : tree[c] \in been[c]
  BY DEF WorldOK, Things
<1>2. \A c \in Cases : Lies(tree[c], InProject(None))
  BY PlaceFacts DEF Lies, Place
<1> QED
  BY <1>1, <1>2 DEF Within, EverWithin

----------------------------------------------------------------------------
(* Rows *)

\* A stored row is the one row at its number.
LEMMA RowFacts ==
    ASSUME TypeOK, NEW r \in Stored
    PROVE  /\ r \in 1..MaxRows
           /\ Row(r) \in [at : Ats, by : 0..sessions, edited : BOOLEAN]
           /\ rows[r] = {Row(r)}
<1>1. r \in 1..MaxRows /\ rows[r] = {Row(r)}
  BY DEF TypeOK, Stored
<1>2. rows[r] \in SUBSET [at : Ats, by : 0..sessions, edited : BOOLEAN]
  BY <1>1 DEF TypeOK
<1> QED
  BY <1>1, <1>2

\* Rows that are not touched.
LEMMA RowsStay ==
    ASSUME UNCHANGED rows
    PROVE  Stored' = Stored /\ \A r : Row(r)' = Row(r)
BY DEF Stored, Row

\* A row of the list.
LEMMA LineFacts ==
    ASSUME WorldOK, NEW r \in Shown
    PROVE  r \in 1..MaxRows /\ Line(r) \in Ats /\ listed[r] = {Line(r)}
<1>1. r \in 1..MaxRows /\ listed[r] = {Line(r)}
  BY DEF WorldOK, Shown
<1>2. listed[r] \subseteq Ats
  BY <1>1 DEF WorldOK
<1> QED
  BY <1>1, <1>2

\* A row that is put at a number, whether one was there or not.
LEMMA RowPut ==
    ASSUME TypeOK, NEW r \in 1..MaxRows, NEW x, rows' = [rows EXCEPT ![r] = {x}]
    PROVE  /\ Stored' = Stored \cup {r}
           /\ Row(r)' = x
           /\ \A s \in 1..MaxRows : s # r => Row(s)' = Row(s)
           /\ \A s \in Stored' : s # r => s \in Stored
           /\ rows'[r] = {x} /\ \A s \in 1..MaxRows : s # r => rows'[s] = rows[s]
<1>1. rows'[r] = {x} /\ \A s \in 1..MaxRows : s # r => rows'[s] = rows[s]
  BY DEF TypeOK
<1>2. Row(r)' = x
  BY <1>1 DEF Row
<1>3. \A s \in 1..MaxRows : s # r => Row(s)' = Row(s)
  BY <1>1 DEF Row
<1>4. Stored' = Stored \cup {r}
  BY <1>1 DEF Stored
<1> QED
  BY <1>1, <1>2, <1>3, <1>4

\* A row that is taken away.
LEMMA RowTaken ==
    ASSUME TypeOK, NEW r \in 1..MaxRows, rows' = [rows EXCEPT ![r] = {}]
    PROVE  /\ Stored' = Stored \ {r}
           /\ \A s \in 1..MaxRows : s # r => Row(s)' = Row(s)
           /\ rows'[r] = {} /\ \A s \in 1..MaxRows : s # r => rows'[s] = rows[s]
<1>1. rows'[r] = {} /\ \A s \in 1..MaxRows : s # r => rows'[s] = rows[s]
  BY DEF TypeOK
<1>2. \A s \in 1..MaxRows : s # r => Row(s)' = Row(s)
  BY <1>1 DEF Row
<1>3. Stored' = Stored \ {r}
  BY <1>1 DEF Stored
<1> QED
  BY <1>1, <1>2, <1>3

----------------------------------------------------------------------------
(* What forms hold *)

\* What a form shows of a row.
LEMMA FilledFacts ==
    ASSUME TypeOK, NEW row \in Ats
    PROVE  /\ Filled(row) \in Ats
           /\ Filled(row)["rest"] = row["rest"]
           /\ \A l \in Levels : Filled(row)[l] =
                  IF l \in kind.loaded /\ ~(l \in kind.dropped /\ row.project \notin active)
                  THEN row[l] ELSE Empty[l]
<1> DEFINE at(l) == IF l \in kind.loaded /\ ~(l \in kind.dropped /\ row.project \notin active)
                    THEN row[l] ELSE Empty[l]
<1>1. \A l \in Levels : Filled(row)[l] = at(l)
  BY DEF Filled, Parts, Levels
<1>2. Filled(row)["rest"] = row["rest"]
  BY KindFacts DEF Filled, Parts, Levels
<1>3. /\ at("project") \in {None} \cup Projects /\ at("epic") \in {None} \cup Epics
      /\ at("story") \in {None} \cup Stories /\ at("cases") \in SUBSET Cases
      /\ row["rest"] \in {"blank", "emptied", "old", "typed", "theirs"}
  BY EmptyFacts DEF Ats
<1>4. Filled(row) = [project |-> Filled(row)["project"], epic |-> Filled(row)["epic"],
                     story |-> Filled(row)["story"], cases |-> Filled(row)["cases"],
                     rest |-> Filled(row)["rest"]]
  BY DEF Filled, Parts, Levels
<1> HIDE DEF at
<1>5. Filled(row) \in Ats
  BY <1>1, <1>2, <1>3, <1>4 DEF Ats, Levels
<1> QED
  BY <1>1, <1>2, <1>5 DEF at

\* What the server keeps of a form.
LEMMA KeptFacts ==
    ASSUME TypeOK, NEW at \in Ats, NEW old \in Ats
    PROVE  /\ Kept(at, old) \in Ats
           /\ Kept(at, old)["rest"] = at["rest"]
           /\ \A l \in Levels : Kept(at, old)[l] = IF l \in kind.stored THEN at[l] ELSE old[l]
<1> DEFINE k(l) == IF l \in kind.stored THEN at[l] ELSE old[l]
<1>1. \A l \in Levels : Kept(at, old)[l] = k(l)
  BY DEF Kept, Parts, Levels
<1>2. Kept(at, old)["rest"] = at["rest"]
  BY KindFacts DEF Kept, Parts, Levels
<1>3. /\ k("project") \in {None} \cup Projects /\ k("epic") \in {None} \cup Epics
      /\ k("story") \in {None} \cup Stories /\ k("cases") \in SUBSET Cases
      /\ at["rest"] \in {"blank", "emptied", "old", "typed", "theirs"}
  BY DEF Ats
<1>4. Kept(at, old) =
          [project |-> Kept(at, old)["project"], epic |-> Kept(at, old)["epic"],
           story |-> Kept(at, old)["story"], cases |-> Kept(at, old)["cases"],
           rest |-> Kept(at, old)["rest"]]
  BY DEF Kept, Parts, Levels
<1> HIDE DEF k
<1>5. Kept(at, old) \in Ats
  BY <1>1, <1>2, <1>3, <1>4 DEF Ats, Levels
<1> QED
  BY <1>1, <1>2, <1>5 DEF k

----------------------------------------------------------------------------
(* Type correctness *)

Filed == [at : Ats, by : Nat, edited : BOOLEAN]

\* The bounds.
LEMMA SpendFacts ==
    ASSUME TypeOK, NEW a \in {0, 1}, NEW b \in {0, 1}, NEW c \in {0, 1}, Spend(a, b, c)
    PROVE  /\ choices' \in 0..MaxChoices /\ clicks' \in 0..MaxClicks
           /\ mishaps' \in 0..MaxMishaps
           /\ clicks' = clicks + b
BY BoundsAssumption DEF TypeOK, Spend

\* Nothing is spent.
LEMMA SpendNothing == ASSUME Calm PROVE Spend(0, 0, 0)
BY DEF Calm

\* A form that is open, or being saved, is one.
LEMMA OpenForm ==
    ASSUME TypeOK, Open
    PROVE  form \in FormSet
BY DEF TypeOK, Open

LEMMA FormAtWork ==
    ASSUME TypeOK, NEW f \in FormsAtWork
    PROVE  f \in FormSet
<1>1. ASSUME NEW i \in DOMAIN calls PROVE calls[i].form \in FormSet
  <2>1. calls[i] \in CallSet
    BY DEF TypeOK
  <2> QED
    BY <2>1 DEF CallSet
<1> QED
  BY <1>1, OpenForm DEF FormsAtWork

\* What a request for a list leaves of lists and requests.
LEMMA AskFacts ==
    ASSUME TypeOK, NEW at, PlaceOf(at) \in Places, Ask(at)
    PROVE  options' \subseteq Cases /\ asks' \in Seq(Places) /\ Len(asks') <= MaxAsks
<1>1. CASE UNCHANGED asks
  BY <1>1 DEF Ask, TypeOK
<1>2. CASE asks' = Append(asks, PlaceOf(at)) /\ Len(asks) < MaxAsks /\ options' = options
  <2>1. asks' \in Seq(Places) /\ Len(asks') = Len(asks) + 1
    BY <1>2, AppendProperties DEF TypeOK
  <2>2. Len(asks) \in Nat /\ MaxAsks \in Nat
    BY BoundsAssumption DEF TypeOK
  <2> QED
    BY <1>2, <2>1, <2>2 DEF TypeOK
<1> QED
  BY <1>1, <1>2 DEF Ask

\* The form that is opened.
LEMMA OpenedFacts ==
    ASSUME TypeOK, NEW id \in 0..MaxRows, NEW at \in Ats, NEW base \in Ats,
           NEW cropped \in BOOLEAN, Opened(id, at, base, cropped)
    PROVE  /\ sessions' = IF id = 0 THEN sessions + 1 ELSE sessions
           /\ form' = [id |-> id, session |-> sessions', at |-> at, base |-> base,
                       touched |-> {}, cropped |-> cropped]
           /\ form' \in FormSet /\ form' # NoForm
<1>1. /\ sessions' = IF id = 0 THEN sessions + 1 ELSE sessions
      /\ form' = [id |-> id, session |-> sessions', at |-> at, base |-> base,
                  touched |-> {}, cropped |-> cropped]
  BY DEF Opened
<1>2. sessions' \in Nat
  BY <1>1 DEF TypeOK
<1>3. form' \in FormSet
  BY <1>1, <1>2 DEF FormSet
<1>4. form' # NoForm
  BY <1>1 DEF NoForm
<1> QED
  BY <1>1, <1>3, <1>4

\* Parts of TypeOK that a step leaves alone.
LEMMA RowsTypeStays ==
    ASSUME TypeOK, UNCHANGED rows, sessions' \in Nat, sessions <= sessions'
    PROVE  /\ rows' \in [1..MaxRows -> SUBSET [at : Ats, by : 0..sessions', edited : BOOLEAN]]
           /\ \A r \in Stored' : rows'[r] = {Row(r)'}
<1>1. 0..sessions \subseteq 0..sessions'
  BY DEF TypeOK
<1>2. ASSUME NEW r \in 1..MaxRows
      PROVE  rows[r] \subseteq [at : Ats, by : 0..sessions', edited : BOOLEAN]
  <2>1. rows[r] \subseteq [at : Ats, by : 0..sessions, edited : BOOLEAN]
    BY DEF TypeOK
  <2> QED
    BY <1>1, <2>1
<1>3. rows' \in [1..MaxRows -> SUBSET [at : Ats, by : 0..sessions', edited : BOOLEAN]]
  BY <1>2 DEF TypeOK
<1> QED
  BY <1>3, RowsStay DEF TypeOK

\* A row that is put keeps the type, if it has it.
LEMMA RowsTypePut ==
    ASSUME TypeOK, UNCHANGED sessions, NEW r \in 1..MaxRows,
           NEW x \in [at : Ats, by : 0..sessions, edited : BOOLEAN],
           rows' = [rows EXCEPT ![r] = {x}]
    PROVE  /\ rows' \in [1..MaxRows -> SUBSET [at : Ats, by : 0..sessions', edited : BOOLEAN]]
           /\ \A s \in Stored' : rows'[s] = {Row(s)'}
<1>1. rows' \in [1..MaxRows -> SUBSET [at : Ats, by : 0..sessions, edited : BOOLEAN]]
  BY DEF TypeOK
<1>2. ASSUME NEW s \in Stored', s # r PROVE rows'[s] = {Row(s)'}
  <2>1. s \in Stored /\ s \in 1..MaxRows
    BY <1>2, RowPut DEF Stored
  <2> QED
    BY <1>2, <2>1, RowPut DEF TypeOK
<1>3. rows'[r] = {Row(r)'}
  BY RowPut
<1> QED
  BY <1>1, <1>2, <1>3

\* So does taking one away.
LEMMA RowsTypeTaken ==
    ASSUME TypeOK, UNCHANGED sessions, NEW r \in 1..MaxRows,
           rows' = [rows EXCEPT ![r] = {}]
    PROVE  /\ rows' \in [1..MaxRows -> SUBSET [at : Ats, by : 0..sessions', edited : BOOLEAN]]
           /\ \A s \in Stored' : rows'[s] = {Row(s)'}
<1>1. rows' \in [1..MaxRows -> SUBSET [at : Ats, by : 0..sessions, edited : BOOLEAN]]
  BY DEF TypeOK
<1>2. ASSUME NEW s \in Stored' PROVE rows'[s] = {Row(s)'}
  <2>1. s \in Stored /\ s \in 1..MaxRows /\ s # r
    BY RowTaken DEF Stored
  <2> QED
    BY <2>1, RowTaken DEF TypeOK
<1> QED
  BY <1>1, <1>2

----------------------------------------------------------------------------
(* Sequences of requests *)

\* Taking out the element at i closes the gap.
LEMMA RemoveFacts ==
    ASSUME NEW T, NEW s \in Seq(T), NEW i \in DOMAIN s
    PROVE  /\ RemoveAt(s, i) \in Seq(T)
           /\ Len(RemoveAt(s, i)) = Len(s) - 1
           /\ \A k \in 1..(Len(s) - 1) : RemoveAt(s, i)[k] = IF k < i THEN s[k] ELSE s[k + 1]
<1> DEFINE n == Len(s)
           pre == SubSeq(s, 1, i - 1)
           post == SubSeq(s, i + 1, n)
           rest == pre \o post
<1>1. n \in Nat /\ i \in 1..n /\ \A k \in 1..n : s[k] \in T
  OBVIOUS
<1> HIDE DEF n
<1>2. pre \in Seq(T) /\ Len(pre) = i - 1 /\ \A k \in 1..(i - 1) : pre[k] = s[k]
  <2>1. \A k \in 1..(i - 1) : s[k] \in T
    BY <1>1
  <2>2. /\ SubSeq(s, 1, i - 1) \in Seq(T)
        /\ Len(SubSeq(s, 1, i - 1)) = IF 1 <= i - 1 THEN (i - 1) - 1 + 1 ELSE 0
        /\ \A k \in 1..((i - 1) - 1 + 1) : SubSeq(s, 1, i - 1)[k] = s[1 + k - 1]
    BY <1>1, <2>1, SubSeqProperties
  <2> QED
    BY <1>1, <2>2
<1>3. post \in Seq(T) /\ Len(post) = n - i /\ \A k \in 1..(n - i) : post[k] = s[i + k]
  <2>1. \A k \in (i + 1)..n : s[k] \in T
    BY <1>1
  <2>2. /\ SubSeq(s, i + 1, n) \in Seq(T)
        /\ Len(SubSeq(s, i + 1, n)) = IF i + 1 <= n THEN n - (i + 1) + 1 ELSE 0
        /\ \A k \in 1..(n - (i + 1) + 1) : SubSeq(s, i + 1, n)[k] = s[(i + 1) + k - 1]
    BY <1>1, <2>1, SubSeqProperties
  <2>3. ASSUME NEW k \in 1..(n - i) PROVE post[k] = s[i + k]
    <3>1. k \in 1..(n - (i + 1) + 1) /\ (i + 1) + k - 1 = i + k
      BY <1>1
    <3> QED
      BY <2>2, <3>1
  <2> QED
    BY <1>1, <2>2, <2>3
<1> HIDE DEF pre, post
<1>4. /\ rest \in Seq(T) /\ Len(rest) = (i - 1) + (n - i)
      /\ \A k \in 1..((i - 1) + (n - i)) :
             rest[k] = IF k <= i - 1 THEN pre[k] ELSE post[k - (i - 1)]
  <2>1. /\ rest \in Seq(T) /\ Len(rest) = Len(pre) + Len(post)
        /\ \A k \in 1..(Len(pre) + Len(post)) :
               rest[k] = IF k <= Len(pre) THEN pre[k] ELSE post[k - Len(pre)]
    BY <1>2, <1>3, ConcatProperties
  <2> QED
    BY <1>2, <1>3, <2>1
<1>5. RemoveAt(s, i) = rest
  BY DEF RemoveAt, pre, post, n
<1> HIDE DEF rest
<1>6. ASSUME NEW k \in 1..(n - 1) PROVE rest[k] = IF k < i THEN s[k] ELSE s[k + 1]
  <2>1. k \in 1..((i - 1) + (n - i))
    BY <1>1
  <2>2. CASE k < i
    BY <1>1, <1>2, <1>4, <2>1, <2>2
  <2>3. CASE ~(k < i)
    <3>1. k - (i - 1) \in 1..(n - i) /\ i + (k - (i - 1)) = k + 1 /\ ~(k <= i - 1)
      BY <1>1, <2>3
    <3> QED
      BY <1>3, <1>4, <2>1, <2>3, <3>1
  <2> QED
    BY <2>2, <2>3
<1>7. Len(rest) = n - 1
  BY <1>1, <1>4
<1>8. Len(s) = n
  BY DEF n
<1> QED
  BY <1>4, <1>5, <1>6, <1>7, <1>8

\* The last element stays the last.
LEMMA LastStays ==
    ASSUME NEW T, NEW s \in Seq(T), NEW i \in DOMAIN s, i # Len(s)
    PROVE  Last(RemoveAt(s, i)) = Last(s) /\ RemoveAt(s, i) # <<>>
<1>1. Len(s) \in Nat /\ i \in 1..Len(s) /\ Len(s) - 1 \in 1..(Len(s) - 1)
  OBVIOUS
<1>2. /\ Len(RemoveAt(s, i)) = Len(s) - 1
      /\ RemoveAt(s, i)[Len(s) - 1] = s[Len(s)]
  BY <1>1, RemoveFacts
<1> QED
  BY <1>1, <1>2 DEF Last

\* The saves after a step: what is new, and that nothing else is.
LEMMA CallsAfterPress ==
    ASSUME TypeOK, NEW x \in CallSet, calls' = Append(calls, x), Len(calls) < MaxCalls
    PROVE  /\ calls' \in Seq(CallSet) /\ Len(calls') <= MaxCalls
           /\ Len(calls') = Len(calls) + 1
           /\ calls'[Len(calls) + 1] = x
           /\ \A i \in DOMAIN calls : calls'[i] = calls[i]
           /\ DOMAIN calls' = DOMAIN calls \cup {Len(calls) + 1}
<1>1. calls \in Seq(CallSet) /\ Len(calls) \in Nat /\ MaxCalls \in Nat
  BY BoundsAssumption DEF TypeOK
<1>2. /\ calls' \in Seq(CallSet) /\ Len(calls') = Len(calls) + 1
      /\ \A i \in 1..Len(calls) : calls'[i] = calls[i]
      /\ calls'[Len(calls) + 1] = x
  BY <1>1, AppendProperties
<1>3. DOMAIN calls = 1..Len(calls) /\ DOMAIN calls' = 1..(Len(calls) + 1)
  BY <1>1, <1>2
<1> QED
  BY <1>1, <1>2, <1>3

\* An answer changes one save and no form.
LEMMA CallsAfterAnswer ==
    ASSUME TypeOK, NEW i \in DOMAIN calls, NEW answer \in {"none", "saved", "refused"},
           calls' = [calls EXCEPT ![i].answer = answer]
    PROVE  /\ calls' \in Seq(CallSet) /\ Len(calls') = Len(calls)
           /\ DOMAIN calls' = DOMAIN calls
           /\ calls'[i].answer = answer /\ calls'[i].form = calls[i].form
           /\ \A j \in DOMAIN calls : j # i => calls'[j] = calls[j]
           /\ \A j \in DOMAIN calls : calls'[j].form = calls[j].form
<1> DEFINE x == [calls[i] EXCEPT !.answer = answer]
<1>1. calls \in Seq(CallSet) /\ calls[i] \in CallSet
  BY DEF TypeOK
<1>2. x \in CallSet /\ x.answer = answer /\ x.form = calls[i].form
  BY <1>1 DEF CallSet
<1>3. calls' = [calls EXCEPT ![i] = x]
  OBVIOUS
<1> HIDE DEF x
<1>4. /\ calls' \in Seq(CallSet) /\ Len(calls') = Len(calls) /\ DOMAIN calls' = DOMAIN calls
      /\ calls'[i] = x
      /\ \A j \in DOMAIN calls : j # i => calls'[j] = calls[j]
  BY <1>1, <1>2, <1>3
<1> QED
  BY <1>2, <1>4

\* What is left after a removal, one to one.
LEMMA CallsAfterRemoval ==
    ASSUME TypeOK, NEW i \in DOMAIN calls, calls' = RemoveAt(calls, i)
    PROVE  /\ calls' \in Seq(CallSet) /\ Len(calls') <= MaxCalls
           /\ Len(calls') = Len(calls) - 1
           /\ \A j \in DOMAIN calls' : \E k \in DOMAIN calls \ {i} : calls'[j] = calls[k]
           /\ \A k \in DOMAIN calls \ {i} : \E j \in DOMAIN calls' : calls'[j] = calls[k]
           /\ \A j, l \in DOMAIN calls' : \E k, m \in DOMAIN calls \ {i} :
                  calls'[j] = calls[k] /\ calls'[l] = calls[m] /\ (k = m => j = l)
<1> DEFINE n == Len(calls)
           to(j) == IF j < i THEN j ELSE j + 1
           from(k) == IF k < i THEN k ELSE k - 1
<1>1. calls \in Seq(CallSet) /\ n \in Nat /\ MaxCalls \in Nat /\ n <= MaxCalls /\ i \in 1..n
  BY BoundsAssumption DEF TypeOK
<1>2. /\ calls' \in Seq(CallSet) /\ Len(calls') = n - 1
      /\ \A k \in 1..(n - 1) : calls'[k] = calls[to(k)]
  BY <1>1, RemoveFacts
<1>3. DOMAIN calls = 1..n /\ DOMAIN calls' = 1..(n - 1)
  BY <1>1, <1>2
<1> HIDE DEF n
<1>4. ASSUME NEW j \in 1..(n - 1) PROVE to(j) \in (1..n) \ {i} /\ from(to(j)) = j
  BY <1>1
<1>5. ASSUME NEW k \in (1..n) \ {i} PROVE from(k) \in 1..(n - 1) /\ to(from(k)) = k
  BY <1>1
<1> HIDE DEF to, from
<1>6. \A j \in DOMAIN calls' : \E k \in DOMAIN calls \ {i} : calls'[j] = calls[k]
  BY <1>2, <1>3, <1>4
<1>7. \A k \in DOMAIN calls \ {i} : \E j \in DOMAIN calls' : calls'[j] = calls[k]
  BY <1>2, <1>3, <1>5
<1>8. ASSUME NEW j \in DOMAIN calls', NEW l \in DOMAIN calls'
      PROVE  \E k, m \in DOMAIN calls \ {i} :
                 calls'[j] = calls[k] /\ calls'[l] = calls[m] /\ (k = m => j = l)
  <2>1. /\ to(j) \in DOMAIN calls \ {i} /\ to(l) \in DOMAIN calls \ {i}
        /\ calls'[j] = calls[to(j)] /\ calls'[l] = calls[to(l)]
        /\ to(j) = to(l) => j = l
    BY <1>2, <1>3, <1>4
  <2> QED
    BY <2>1
<1> QED
  BY <1>1, <1>2, <1>6, <1>7, <1>8 DEF n

----------------------------------------------------------------------------
(* Every step keeps the types *)

\* What a choice in a select makes of a form.
PickedAt(level, value) ==
    [l \in Parts |-> IF l = level THEN value
                     ELSE IF l \in kind.selects[level].clears THEN Empty[l] ELSE form.at[l]]

\* A choice in a select, in full.
LEMMA PickFacts ==
    ASSUME TypeOK, NEW level \in Place, NEW value, Pick(level, value)
    PROVE  /\ Open /\ form \in FormSet /\ form' \in FormSet /\ form' # NoForm
           /\ level \in DOMAIN kind.selects
           /\ PickedAt(level, value) \in Ats
           /\ form' = [form EXCEPT !.at = PickedAt(level, value),
                                   !.touched = Touched({level} \cup kind.selects[level].clears)]
           /\ value # form.at[level]
           /\ value \in Offered(level) \cup {None}
           /\ value = None => kind.selects[level].blank
<1>1. Open /\ form \in FormSet /\ level \in DOMAIN kind.selects /\ value # form.at[level]
  BY OpenForm DEF Pick
<1>2. /\ value \in Offered(level) \cup {None}
      /\ value \in Offered(level) \/ kind.selects[level].blank
  BY DEF Pick
<1>3. Offered(level) \subseteq CASE level = "project" -> Projects
                                 [] level = "epic"  -> Epics
                                 [] level = "story" -> Stories
  BY DEF Offered, TypeOK, Place
<1>4. PickedAt(level, value) \in Ats
  <2> DEFINE at(l) == IF l = level THEN value
                      ELSE IF l \in kind.selects[level].clears THEN Empty[l] ELSE form.at[l]
  <2>1. form.at \in Ats
    BY <1>1 DEF FormSet
  <2>2. kind.selects[level].clears \subseteq {"epic", "story", "cases"}
    BY <1>1, KindFacts DEF GoodForm
  <2>3. /\ at("project") \in {None} \cup Projects /\ at("epic") \in {None} \cup Epics
        /\ at("story") \in {None} \cup Stories /\ at("cases") \in SUBSET Cases
        /\ at("rest") \in {"blank", "emptied", "old", "typed", "theirs"}
    BY <1>2, <1>3, <2>1, <2>2, EmptyFacts DEF Ats, Place
  <2>4. PickedAt(level, value) =
            [project |-> at("project"), epic |-> at("epic"), story |-> at("story"),
             cases |-> at("cases"), rest |-> at("rest")]
    BY DEF PickedAt, Parts, Levels
  <2> HIDE DEF at
  <2> QED
    BY <2>3, <2>4 DEF Ats
<1>5. value = None => kind.selects[level].blank
  <2>1. None \notin Projects \cup Epics \cup Stories
    BY FirstAssumption
  <2> QED
    BY <1>2, <1>3, <2>1 DEF Place
<1>6. form' = [form EXCEPT !.at = PickedAt(level, value),
                           !.touched = Touched({level} \cup kind.selects[level].clears)]
  BY <1>1 DEF Pick, PickedAt, FormSet
<1>7. Touched({level} \cup kind.selects[level].clears) \subseteq Parts
  BY <1>1, KindFacts DEF Touched, FormSet, Parts, Levels, GoodForm, Place
<1>8. form' \in FormSet
  <2> DEFINE at == PickedAt(level, value)
             touched == Touched({level} \cup kind.selects[level].clears)
  <2>1. at \in Ats /\ touched \in SUBSET Parts /\ form' = [form EXCEPT !.at = at, !.touched = touched]
    BY <1>4, <1>6, <1>7
  <2> HIDE DEF at, touched
  <2> QED
    BY <1>1, <2>1 DEF FormSet
<1>9. form' # NoForm
  BY <1>8, BoundsAssumption DEF FormSet, NoForm
<1> QED
  BY <1>1, <1>2, <1>4, <1>5, <1>6, <1>8, <1>9

\* The parts of TypeOK, after a step.
CountersKept ==
    /\ choices' \in 0..MaxChoices /\ clicks' \in 0..MaxClicks /\ mishaps' \in 0..MaxMishaps
    /\ sessions' \in 0..clicks' /\ sessions' \in Nat /\ sessions <= sessions'

RowsKept ==
    /\ rows' \in [1..MaxRows -> SUBSET [at : Ats, by : 0..sessions', edited : BOOLEAN]]
    /\ \A r \in Stored' : rows'[r] = {Row(r)'}

FormKept == form' \in {NoForm} \cup FormSet

ListsKept == options' \subseteq Cases /\ asks' \in Seq(Places) /\ Len(asks') <= MaxAsks

EditKept ==
    /\ edit' \in {NoEdit} \cup [id : 1..MaxRows, phase : {"row"}]
                          \cup [id : 1..MaxRows, phase : {"cases"}, row : Ats]
    /\ edit' # NoEdit => kind.awaits \/ kind.linked

CallsKept == calls' \in Seq(CallSet) /\ Len(calls') <= MaxCalls

TroubleKept == trouble' \subseteq {"hasty", "impatient", "doubtful", "rehung"}

\* TypeOK, put together.
LEMMA TypeFromParts ==
    ASSUME TypeOK, UNCHANGED <<kind, active>>, CountersKept, RowsKept, FormKept, ListsKept,
           EditKept, CallsKept, TroubleKept
    PROVE  TypeOK'
BY DEF TypeOK, CountersKept, RowsKept, FormKept, ListsKept, EditKept, CallsKept, TroubleKept

\* A step that pays what it costs keeps the counters.
LEMMA CountersStay ==
    ASSUME TypeOK, NEW a \in {0, 1}, NEW b \in {0, 1}, NEW c \in {0, 1}, Spend(a, b, c),
           sessions' = sessions \/ sessions' = sessions + b
    PROVE  CountersKept
<1>1. /\ choices' \in 0..MaxChoices /\ clicks' \in 0..MaxClicks /\ mishaps' \in 0..MaxMishaps
      /\ clicks' = clicks + b
  BY SpendFacts
<1>2. sessions' \in 0..clicks' /\ sessions' \in Nat /\ sessions <= sessions'
  <2>1. sessions \in 0..clicks /\ clicks \in Nat
    BY DEF TypeOK
  <2> QED
    BY <1>1, <2>1
<1> QED
  BY <1>1, <1>2 DEF CountersKept

\* Parts nobody touches keep their types.
LEMMA PartsStay ==
    ASSUME TypeOK
    PROVE  /\ UNCHANGED rows /\ CountersKept => RowsKept
           /\ form' = form \/ form' = NoForm => FormKept
           /\ UNCHANGED <<options, asks>> => ListsKept
           /\ UNCHANGED <<edit, kind>> \/ edit' = NoEdit => EditKept
           /\ UNCHANGED calls => CallsKept
           /\ UNCHANGED trouble => TroubleKept
<1>1. ASSUME UNCHANGED rows, CountersKept PROVE RowsKept
  BY <1>1, RowsTypeStays DEF RowsKept, CountersKept
<1>2. form' = form \/ form' = NoForm => FormKept
  BY DEF TypeOK, FormKept
<1>3. UNCHANGED <<options, asks>> => ListsKept
  BY DEF TypeOK, ListsKept
<1>4. UNCHANGED <<edit, kind>> \/ edit' = NoEdit => EditKept
  BY DEF TypeOK, EditKept
<1>5. UNCHANGED calls => CallsKept
  BY DEF TypeOK, CallsKept
<1>6. UNCHANGED trouble => TroubleKept
  BY DEF TypeOK, TroubleKept
<1> QED
  BY <1>1, <1>2, <1>3, <1>4, <1>5, <1>6

LEMMA TroubleGrows ==
    ASSUME TypeOK, NEW name \in {"hasty", "impatient", "doubtful", "rehung"}, NEW condition,
           Trouble(name, condition)
    PROVE  /\ trouble \subseteq trouble'
           /\ TroubleKept
           /\ condition => name \in trouble'
           /\ \A n \in trouble' : n # name => n \in trouble
BY DEF Trouble, TroubleKept, TypeOK

\* What a step on the lists of cases does.
LEMMA ListArrives ==
    ASSUME TypeOK, NEW i \in DOMAIN asks, NEW list \in SUBSET Cases,
           options' = list, asks' = RemoveAt(asks, i)
    PROVE  ListsKept
<1>1. asks \in Seq(Places) /\ Len(asks) <= MaxAsks /\ Len(asks) \in Nat /\ MaxAsks \in Nat
  BY BoundsAssumption DEF TypeOK
<1>2. asks' \in Seq(Places) /\ Len(asks') = Len(asks) - 1
  BY <1>1, RemoveFacts
<1> QED
  BY <1>1, <1>2 DEF ListsKept

\* A row being loaded for its dialog.
LEMMA EditFacts ==
    ASSUME TypeOK, edit # NoEdit
    PROVE  /\ edit.id \in 1..MaxRows
           /\ edit.phase = "cases" => edit.row \in Ats
           /\ kind.awaits \/ kind.linked
BY DEF TypeOK, NoEdit

\* A save holds a form.
LEMMA SaveFacts ==
    ASSUME TypeOK, NEW i \in DOMAIN calls
    PROVE  /\ calls[i] \in CallSet /\ calls[i].form \in FormSet
           /\ calls[i].form.at \in Ats /\ calls[i].form.base \in Ats
           /\ calls[i].form.id \in 0..MaxRows /\ calls[i].form.session \in Nat
<1>1. calls[i] \in CallSet
  BY DEF TypeOK
<1>2. calls[i].form \in FormSet
  BY <1>1 DEF CallSet
<1> QED
  BY <1>1, <1>2 DEF FormSet

\* Filling in a form keeps the types.
LEMMA FillingType == ASSUME TypeOK, WorldOK, Filling PROVE TypeOK'
<1>1. ASSUME NEW p \in {None} \cup Projects, OpenNew(p) PROVE TypeOK'
  <2>1. [Empty EXCEPT !.project = p] \in Ats
    BY DEF Empty, Ats
  <2>2. 0 \in 0..MaxRows
    BY BoundsAssumption
  <2>3. FormKept /\ sessions' = sessions + 1
    BY <1>1, <2>1, <2>2, EmptyFacts, OpenedFacts DEF OpenNew, FormKept
  <2>4. ListsKept
    <3>1. PlaceOf(InProject(p)) \in Places
      BY PlaceFacts, PlaceType
    <3> QED
      BY <1>1, <3>1, AskFacts DEF OpenNew, ListsKept
  <2>5. CountersKept
    BY <1>1, <2>3, CountersStay DEF OpenNew, Click
  <2> QED
    BY <1>1, <2>3, <2>4, <2>5, PartsStay, TypeFromParts DEF OpenNew
<1>2. ASSUME NEW r \in 1..MaxRows, OpenEdit(r) PROVE TypeOK'
  <2>1. r \in Shown /\ Line(r) \in Ats /\ Filled(Line(r)) \in Ats
    BY <1>2, LineFacts, FilledFacts DEF OpenEdit
  <2>2. r \in 0..MaxRows /\ r # 0
    BY BoundsAssumption
  <2>3. FormKept /\ sessions' = sessions
    BY <1>2, <2>1, <2>2, OpenedFacts DEF OpenEdit, FormKept
  <2>4. ListsKept
    <3>1. PlaceOf(InProject(Line(r).project)) \in Places
      BY <2>1, PlaceFacts, PlaceType DEF Ats
    <3> QED
      BY <1>2, <3>1, AskFacts DEF OpenEdit, ListsKept
  <2>5. CountersKept
    BY <1>2, <2>3, CountersStay DEF OpenEdit
  <2> QED
    BY <1>2, <2>3, <2>4, <2>5, PartsStay, TypeFromParts DEF OpenEdit
<1>3. ASSUME NEW r \in 1..MaxRows, AskEdit(r) PROVE TypeOK'
  <2>1. UNCHANGED <<kind, active, rows, form, options, asks, calls, sessions, trouble>>
    BY <1>3 DEF AskEdit, history
  <2>2. EditKept
    BY <1>3, <2>1 DEF AskEdit, EditKept
  <2>3. CountersKept
    BY <1>3, <2>1, CountersStay DEF AskEdit
  <2> QED
    BY <2>1, <2>2, <2>3, PartsStay, TypeFromParts
<1>4. ASSUME NEW l \in Place, NEW v, Pick(l, v) PROVE TypeOK'
  <2>1. FormKept /\ form'.at \in Ats
    BY <1>4, PickFacts DEF FormSet, FormKept
  <2>2. ListsKept
    BY <1>4, <2>1, PlaceType, AskFacts DEF Pick, ListsKept
  <2>3. UNCHANGED <<kind, active, rows, edit, calls, sessions, trouble>>
    BY <1>4 DEF Pick, history
  <2>4. CountersKept
    BY <1>4, <2>3, CountersStay DEF Pick, Choice
  <2> QED
    BY <2>1, <2>2, <2>3, <2>4, PartsStay, TypeFromParts
<1>5. ASSUME NEW cases \in SUBSET Cases, PickCases(cases) PROVE TypeOK'
  <2>1. Open /\ form \in FormSet
    BY <1>5, OpenForm DEF PickCases
  <2>2. /\ form' = [form EXCEPT !.at.cases = cases, !.touched = Touched({"cases"})]
        /\ Touched({"cases"}) \subseteq Parts
    BY <1>5, <2>1 DEF PickCases, Touched, FormSet, Parts, Levels
  <2>3. [form.at EXCEPT !.cases = cases] \in Ats
    BY <2>1 DEF FormSet, Ats
  <2>4. form' = [form EXCEPT !.at = [form.at EXCEPT !.cases = cases], !.touched = Touched({"cases"})]
    BY <2>1, <2>2 DEF FormSet
  <2>5. FormKept
    BY <2>1, <2>2, <2>3, <2>4 DEF FormSet, FormKept
  <2>6. UNCHANGED <<kind, active, rows, options, asks, edit, calls, sessions>>
    BY <1>5 DEF PickCases
  <2>7. CountersKept
    <3>1. If(asks # <<>>) \in {0, 1} /\ Spend(1, 0, If(asks # <<>>))
      BY <1>5 DEF PickCases, If
    <3> QED
      BY <2>6, <3>1, CountersStay
  <2>8. TroubleKept
    BY <1>5, TroubleGrows DEF PickCases
  <2> QED
    BY <2>5, <2>6, <2>7, <2>8, PartsStay, TypeFromParts
<1>6. ASSUME Type PROVE TypeOK'
  <2>1. Open /\ form \in FormSet
    BY <1>6, OpenForm DEF Type
  <2>2. Touched({"rest"}) \subseteq Parts
    BY <2>1 DEF Touched, FormSet, Parts
  <2>3. [form.at EXCEPT !.rest = "typed"] \in Ats
    BY <2>1 DEF FormSet, Ats
  <2>4. form' = [form EXCEPT !.at = [form.at EXCEPT !.rest = "typed"], !.touched = Touched({"rest"})]
    BY <1>6, <2>1 DEF Type, FormSet
  <2>5. FormKept
    BY <2>1, <2>2, <2>3, <2>4 DEF FormSet, FormKept
  <2>6. UNCHANGED <<kind, active, rows, options, asks, edit, calls, sessions, trouble>>
    BY <1>6 DEF Type, history
  <2>7. CountersKept
    BY <1>6, <2>6, CountersStay DEF Type, Calm
  <2> QED
    BY <2>5, <2>6, <2>7, PartsStay, TypeFromParts
<1>7. ASSUME Close PROVE TypeOK'
  <2>1. form' = NoForm /\ UNCHANGED <<kind, active, rows, options, asks, edit, calls, sessions, trouble>>
    BY <1>7 DEF Close, history
  <2>2. CountersKept
    BY <1>7, <2>1, CountersStay DEF Close, Calm
  <2> QED
    BY <2>1, <2>2, PartsStay, TypeFromParts
<1> QED
  BY <1>1, <1>2, <1>3, <1>4, <1>5, <1>6, <1>7 DEF Filling

\* The dialog of a suite, once the suite and the cases are there.
LEMMA EditShownFacts ==
    ASSUME TypeOK, WorldOK, EditShown
    PROVE  \E list \in SUBSET Cases :
               LET at == Filled(edit.row)
                   kept == IF at.project = None THEN at.cases ELSE at.cases \cap list
               IN /\ edit.id \in 1..MaxRows /\ edit.row \in Ats /\ at \in Ats
                  /\ options' = list
                  /\ at.project = None => list = options
                  /\ at.project # None => list \subseteq EverWithin(been, at)
                  /\ [at EXCEPT !.cases = kept] \in Ats
                  /\ Opened(edit.id, [at EXCEPT !.cases = kept], edit.row, kept # at.cases)
                  /\ form' \in FormSet /\ form' # NoForm /\ sessions' = sessions
<1> DEFINE at == Filled(edit.row)
<1>1. edit # NoEdit /\ edit.id \in 1..MaxRows /\ edit.row \in Ats /\ at \in Ats
  BY EditFacts, FilledFacts DEF EditShown
<1>2. PICK list \in IF at.project = None THEN {options} ELSE Lists(at) :
          LET kept == IF at.project = None THEN at.cases ELSE at.cases \cap list
          IN /\ options' = list
             /\ Opened(edit.id, [at EXCEPT !.cases = kept], edit.row, kept # at.cases)
  BY DEF EditShown
<1> DEFINE kept == IF at.project = None THEN at.cases ELSE at.cases \cap list
<1>3. list \subseteq Cases /\ (at.project = None => list = options)
  BY <1>2, ListsFacts DEF TypeOK
<1>4. at.project # None => list \subseteq EverWithin(been, at)
  BY <1>2, ListsFacts, WithinHasBeen
<1> HIDE DEF at
<1>5. [at EXCEPT !.cases = kept] \in Ats
  BY <1>1 DEF Ats
<1>6. edit.id \in 0..MaxRows /\ edit.id # 0 /\ (kept # at.cases) \in BOOLEAN
  BY <1>1, BoundsAssumption
<1>7. form' \in FormSet /\ form' # NoForm /\ sessions' = sessions
  BY <1>1, <1>2, <1>5, <1>6, OpenedFacts
<1> QED
  BY <1>1, <1>2, <1>3, <1>4, <1>5, <1>7 DEF at

\* That of a defect that a link leads to.
LEMMA LinkShownFacts ==
    ASSUME TypeOK, LinkShown
    PROVE  LET row == Row(edit.id).at
               at == Filled(row)
           IN /\ edit.id \in Stored /\ edit.id \in 0..MaxRows /\ edit.id # 0
              /\ kind.linked /\ row \in Ats /\ at \in Ats
              /\ Opened(edit.id, at, row, FALSE) /\ Ask(InProject(row.project))
              /\ form' \in FormSet /\ form' # NoForm /\ sessions' = sessions
              /\ edit' = NoEdit /\ UNCHANGED <<kind, active, rows, calls, trouble>>
              /\ Spend(0, 0, 0)
<1> DEFINE row == Row(edit.id).at
           at == Filled(row)
<1>1. edit.id \in Stored /\ edit.id \in 1..MaxRows /\ row \in Ats /\ at \in Ats
  BY RowFacts, FilledFacts DEF LinkShown
<1>2. Opened(edit.id, at, row, FALSE) /\ Ask(InProject(row.project))
  BY DEF LinkShown
<1>3. /\ kind.linked /\ edit' = NoEdit /\ UNCHANGED <<kind, active, rows, calls, trouble>>
      /\ Spend(0, 0, 0)
  BY DEF LinkShown, Calm
<1> HIDE DEF row, at
<1>4. edit.id \in 0..MaxRows /\ edit.id # 0
  BY <1>1, BoundsAssumption
<1>5. form' \in FormSet /\ form' # NoForm /\ sessions' = sessions
  BY <1>1, <1>2, <1>4, OpenedFacts
<1> QED
  BY <1>1, <1>2, <1>3, <1>4, <1>5 DEF row, at

\* So do the answers to what is asked for.
LEMMA LoadingType == ASSUME TypeOK, WorldOK, Loading PROVE TypeOK'
<1>1. ASSUME EditLoaded PROVE TypeOK'
  <2>1. edit # NoEdit /\ edit.id \in Stored /\ Row(edit.id).at \in Ats
    BY <1>1, RowFacts DEF EditLoaded
  <2>2. UNCHANGED <<kind, active, rows, form, options, asks, calls, sessions, trouble>>
    BY <1>1 DEF EditLoaded, history
  <2>3. EditKept
    BY <1>1, <2>1, <2>2, EditFacts DEF EditLoaded, EditKept
  <2>4. CountersKept
    BY <1>1, <2>2, CountersStay DEF EditLoaded, Calm
  <2> QED
    BY <2>2, <2>3, <2>4, PartsStay, TypeFromParts
<1>2. ASSUME EditShown PROVE TypeOK'
  <2>1. /\ FormKept /\ options' \subseteq Cases /\ sessions' = sessions
        /\ edit' = NoEdit /\ UNCHANGED <<kind, active, rows, asks, calls>>
    BY <1>2, EditShownFacts DEF EditShown, FormKept
  <2>2. ListsKept
    BY <2>1 DEF ListsKept, TypeOK
  <2>3. CountersKept
    <3>1. If(asks # <<>>) \in {0, 1} /\ Spend(0, 0, If(asks # <<>>))
      BY <1>2 DEF EditShown, If
    <3> QED
      BY <2>1, <3>1, CountersStay
  <2>4. TroubleKept
    BY <1>2, TroubleGrows DEF EditShown
  <2> QED
    BY <2>1, <2>2, <2>3, <2>4, PartsStay, TypeFromParts
<1>3. ASSUME EditFailed PROVE TypeOK'
  <2>1. /\ edit' = NoEdit
        /\ UNCHANGED <<kind, active, rows, form, options, asks, calls, sessions, trouble>>
    BY <1>3 DEF EditFailed, history
  <2>2. CountersKept
    BY <1>3, <2>1, CountersStay DEF EditFailed, Calm, Mishap
  <2> QED
    BY <2>1, <2>2, PartsStay, TypeFromParts
<1>4. ASSUME NEW i, CasesArrive(i) \/ CasesFail(i) PROVE TypeOK'
  <2>1. i \in DOMAIN asks /\ options' \in SUBSET Cases /\ asks' = RemoveAt(asks, i)
    BY <1>4, ListsFacts DEF CasesArrive, CasesFail
  <2>2. ListsKept
    BY <2>1, ListArrives
  <2>3. UNCHANGED <<kind, active, rows, form, edit, calls, sessions>>
    BY <1>4 DEF CasesArrive, CasesFail
  <2>4. CountersKept
    <3>1. If(i # 1) \in {0, 1} /\ (Spend(0, 0, If(i # 1)) \/ Spend(0, 0, 1))
      BY <1>4 DEF CasesArrive, CasesFail, If, Mishap
    <3> QED
      BY <2>3, <3>1, CountersStay
  <2>5. TroubleKept
    BY <1>4, TroubleGrows DEF CasesArrive, CasesFail
  <2> QED
    BY <2>2, <2>3, <2>4, <2>5, PartsStay, TypeFromParts
<1>5. ASSUME LinkShown PROVE TypeOK'
  <2> DEFINE at == Row(edit.id).at
  <2>1. /\ at \in Ats /\ Ask(InProject(at.project))
        /\ form' \in FormSet /\ sessions' = sessions /\ edit' = NoEdit
        /\ UNCHANGED <<kind, active, rows, calls, trouble>> /\ Spend(0, 0, 0)
    BY <1>5, LinkShownFacts
  <2> HIDE DEF at
  <2>2. ListsKept
    <3>1. PlaceOf(InProject(at.project)) \in Places
      BY <2>1, PlaceFacts, PlaceType DEF Ats
    <3> QED
      BY <2>1, <3>1, AskFacts DEF ListsKept
  <2>3. CountersKept
    BY <2>1, CountersStay
  <2> QED
    BY <2>1, <2>2, <2>3, PartsStay, TypeFromParts DEF FormKept
<1> QED
  BY <1>1, <1>2, <1>3, <1>4, <1>5 DEF Loading

\* What the server does with a save.
LEMMA ServeFacts ==
    ASSUME TypeOK, NEW i, Serve(i)
    PROVE  /\ i \in DOMAIN calls /\ calls[i].answer = "none"
           /\ calls' = [calls EXCEPT ![i].answer = "saved"]
           /\ \/ /\ calls[i].form.id = 0
                 /\ \E r \in (1..MaxRows) \ (Stored \cup gone) :
                        rows' = [rows EXCEPT ![r] =
                            {[at |-> Kept(calls[i].form.at, Empty),
                              by |-> calls[i].form.session, edited |-> FALSE]}]
              \/ /\ calls[i].form.id \in Stored
                 /\ rows' = [rows EXCEPT ![calls[i].form.id] =
                        {[at |-> Kept(calls[i].form.at, Row(calls[i].form.id).at),
                          by |-> Row(calls[i].form.id).by, edited |-> TRUE]}]
           /\ UNCHANGED <<kind, active, form, options, asks, edit, sessions, trouble>>
           /\ Spend(0, 0, 0)
BY DEF Serve, history, Calm

\* So does saving.
LEMMA SavingType ==
    ASSUME TypeOK, Saving, \A f \in FormsAtWork : f.session \in 0..sessions
    PROVE  TypeOK'
<1>1. ASSUME Press PROVE TypeOK'
  <2>1. Open /\ form \in FormSet
    BY <1>1, OpenForm DEF Press, CanSave
  <2>2. CallsKept
    <3>1. [form |-> form, answer |-> "none"] \in CallSet
      BY <2>1 DEF CallSet
    <3> QED
      BY <1>1, <3>1, CallsAfterPress DEF Press, CallsKept
  <2>3. UNCHANGED <<kind, active, rows, form, options, asks, edit, sessions>>
    BY <1>1 DEF Press
  <2> DEFINE again == form.id = 0 /\ \E i \in DOMAIN calls : calls[i].form.session = form.session
  <2>4. Trouble("impatient", again) /\ Spend(0, 1, If(again))
    BY <1>1 DEF Press
  <2> HIDE DEF again
  <2>5. CountersKept
    <3>1. If(again) \in {0, 1}
      BY DEF If
    <3> QED
      BY <2>3, <2>4, <3>1, CountersStay
  <2>6. TroubleKept
    BY <2>4, TroubleGrows
  <2> QED
    BY <2>2, <2>3, <2>5, <2>6, PartsStay, TypeFromParts
<1>2. ASSUME NEW i, Serve(i) PROVE TypeOK'
  <2> DEFINE f == calls[i].form
  <2>1. /\ i \in DOMAIN calls /\ calls' = [calls EXCEPT ![i].answer = "saved"]
        /\ UNCHANGED <<kind, active, form, options, asks, edit, sessions, trouble>>
        /\ Spend(0, 0, 0)
    BY <1>2, ServeFacts
  <2>2. CallsKept
    BY <2>1, CallsAfterAnswer DEF CallsKept, TypeOK
  <2>3. CountersKept
    BY <2>1, CountersStay
  <2>4. f.at \in Ats /\ f.session \in 0..sessions
    BY <2>1, SaveFacts DEF FormsAtWork
  <2>5. RowsKept
    <3>1. CASE /\ f.id = 0
               /\ \E r \in (1..MaxRows) \ (Stored \cup gone) :
                      rows' = [rows EXCEPT ![r] =
                          {[at |-> Kept(f.at, Empty), by |-> f.session, edited |-> FALSE]}]
      <4>1. [at |-> Kept(f.at, Empty), by |-> f.session, edited |-> FALSE]
                \in [at : Ats, by : 0..sessions, edited : BOOLEAN]
        BY <2>4, EmptyFacts, KeptFacts
      <4> HIDE DEF f
      <4> QED
        BY <2>1, <3>1, <4>1, RowsTypePut DEF RowsKept
    <3>2. CASE /\ f.id \in Stored
               /\ rows' = [rows EXCEPT ![f.id] =
                      {[at |-> Kept(f.at, Row(f.id).at), by |-> Row(f.id).by, edited |-> TRUE]}]
      <4>1. f.id \in 1..MaxRows /\ Row(f.id).at \in Ats /\ Row(f.id).by \in 0..sessions
        BY <3>2, RowFacts
      <4>2. [at |-> Kept(f.at, Row(f.id).at), by |-> Row(f.id).by, edited |-> TRUE]
                \in [at : Ats, by : 0..sessions, edited : BOOLEAN]
        BY <2>4, <4>1, KeptFacts
      <4> HIDE DEF f
      <4> QED
        BY <2>1, <3>2, <4>1, <4>2, RowsTypePut DEF RowsKept
    <3> QED
      BY <1>2, <3>1, <3>2, ServeFacts
  <2> QED
    BY <2>1, <2>2, <2>3, <2>5, PartsStay, TypeFromParts
<1>3. ASSUME NEW i, Refuse(i) PROVE TypeOK'
  <2>1. /\ i \in DOMAIN calls /\ calls' = [calls EXCEPT ![i].answer = "refused"]
        /\ UNCHANGED <<kind, active, rows, form, options, asks, edit, sessions, trouble>>
        /\ Spend(0, 0, 0) \/ Spend(0, 0, 1)
    BY <1>3 DEF Refuse, history, Calm, Mishap
  <2>2. CallsKept
    BY <2>1, CallsAfterAnswer DEF CallsKept, TypeOK
  <2>3. CountersKept
    BY <2>1, CountersStay
  <2> QED
    BY <2>1, <2>2, <2>3, PartsStay, TypeFromParts
<1>4. ASSUME NEW i, Answered(i) PROVE TypeOK'
  <2>1. /\ i \in DOMAIN calls /\ calls' = RemoveAt(calls, i)
        /\ form' = form \/ form' = NoForm
        /\ UNCHANGED <<kind, active, rows, options, asks, edit, sessions, trouble>>
        /\ Spend(0, 0, 0)
    BY <1>4 DEF Answered, history, Calm
  <2>2. CallsKept
    BY <2>1, CallsAfterRemoval DEF CallsKept
  <2>3. CountersKept
    BY <2>1, CountersStay
  <2> QED
    BY <2>1, <2>2, <2>3, PartsStay, TypeFromParts
<1>5. ASSUME NEW i, Lose(i) PROVE TypeOK'
  <2>1. /\ i \in DOMAIN calls /\ calls' = RemoveAt(calls, i)
        /\ UNCHANGED <<kind, active, rows, form, options, asks, edit, sessions>>
        /\ Spend(0, 0, 1)
    BY <1>5 DEF Lose, Mishap
  <2>2. CallsKept
    BY <2>1, CallsAfterRemoval DEF CallsKept
  <2>3. CountersKept
    BY <2>1, CountersStay
  <2>4. TroubleKept
    BY <1>5, TroubleGrows DEF Lose
  <2> QED
    BY <2>1, <2>2, <2>3, <2>4, PartsStay, TypeFromParts
<1> QED
  BY <1>1, <1>2, <1>3, <1>4, <1>5 DEF Saving

\* So do the others.
LEMMA ElsewhereType == ASSUME TypeOK, Elsewhere PROVE TypeOK'
<1>1. ASSUME NEW r \in 1..MaxRows, Others(r) PROVE TypeOK'
  <2>1. /\ r \in Stored
        /\ \/ rows' = [rows EXCEPT ![r] = {}]
           \/ rows' = [rows EXCEPT ![r] = {[Row(r) EXCEPT !.at.rest = "theirs"]}]
        /\ UNCHANGED <<kind, active, form, options, asks, edit, calls, sessions, trouble>>
        /\ Spend(0, 0, 1)
    BY <1>1 DEF Others, history, Mishap
  <2>2. [Row(r) EXCEPT !.at.rest = "theirs"] \in [at : Ats, by : 0..sessions, edited : BOOLEAN]
    BY <2>1, RowFacts DEF Ats
  <2>3. RowsKept
    BY <2>1, <2>2, RowsTypePut, RowsTypeTaken DEF RowsKept
  <2>4. CountersKept
    BY <2>1, CountersStay
  <2> QED
    BY <2>1, <2>3, <2>4, PartsStay, TypeFromParts
<1>2. ASSUME NEW r \in 1..MaxRows, NEW e \in Epics, Rehang(r, e) PROVE TypeOK'
  <2>1. /\ r \in Stored
        /\ rows' = [rows EXCEPT ![r] = {[Row(r) EXCEPT !.at.epic = e]}]
        /\ UNCHANGED <<kind, active, form, options, asks, edit, calls, sessions>>
        /\ Spend(0, 0, 1)
    BY <1>2 DEF Rehang, Mishap
  <2>2. [Row(r) EXCEPT !.at.epic = e] \in [at : Ats, by : 0..sessions, edited : BOOLEAN]
    BY <2>1, RowFacts DEF Ats
  <2>3. RowsKept
    BY <2>1, <2>2, RowsTypePut DEF RowsKept
  <2>4. CountersKept
    BY <2>1, CountersStay
  <2>5. TroubleKept
    BY <1>2, TroubleGrows DEF Rehang
  <2> QED
    BY <2>1, <2>3, <2>4, <2>5, PartsStay, TypeFromParts
<1> QED
  BY <1>1, <1>2 DEF Elsewhere

\* So do moves, and reading again.
LEMMA MeanwhileType == ASSUME TypeOK, Meanwhile PROVE TypeOK'
<1>1. /\ UNCHANGED <<kind, active, rows, form, options, asks, edit, calls, sessions, trouble>>
      /\ Spend(1, 0, 1) \/ Spend(0, 0, 0)
  BY DEF Meanwhile, Move, Reread, Relist, history, Calm
<1>2. CountersKept
  BY <1>1, CountersStay
<1> QED
  BY <1>1, <1>2, PartsStay, TypeFromParts

\* Every step keeps the types.
LEMMA NextType ==
    ASSUME TypeOK, WorldOK, [Next]_vars, \A f \in FormsAtWork : f.session \in 0..sessions
    PROVE  TypeOK'
<1>1. CASE UNCHANGED vars
  <2>1. UNCHANGED <<kind, active, rows, form, options, asks, edit, calls, sessions, trouble,
                    choices, clicks, mishaps>>
    BY <1>1 DEF vars, history
  <2>2. Stored' = Stored /\ \A r : Row(r)' = Row(r)
    BY <2>1, RowsStay
  <2> QED
    BY <2>1, <2>2 DEF TypeOK
<1> QED
  BY <1>1, FillingType, LoadingType, SavingType, ElsewhereType, MeanwhileType DEF Next

\* Only these steps change where things are, or what the page has read.
StillWorld == UNCHANGED <<kind, active, tree, known, been, listed>>

LEMMA WorldStays ==
    ASSUME TypeOK, [Next]_vars, ~Meanwhile
    PROVE  StillWorld /\ (UNCHANGED gone \/ gone' \subseteq gone \cup 1..MaxRows)
<1>1. ASSUME Filling PROVE StillWorld /\ UNCHANGED gone
  BY <1>1 DEF Filling, StillWorld, OpenNew, OpenEdit, AskEdit, Pick, PickCases, Type, Close
<1>2. ASSUME Loading PROVE StillWorld /\ UNCHANGED gone
  BY <1>2 DEF Loading, StillWorld, LinkShown, EditLoaded, EditShown, EditFailed, CasesArrive,
              CasesFail
<1>3. ASSUME Saving PROVE StillWorld /\ UNCHANGED gone
  BY <1>3 DEF Saving, StillWorld, Press, Serve, Refuse, Answered, Lose
<1>4. ASSUME Elsewhere PROVE StillWorld /\ (UNCHANGED gone \/ gone' \subseteq gone \cup 1..MaxRows)
  BY <1>4 DEF Elsewhere, StillWorld, Others, Rehang
<1>5. ASSUME UNCHANGED vars PROVE StillWorld /\ UNCHANGED gone
  BY <1>5 DEF vars, StillWorld
<1> QED
  BY <1>1, <1>2, <1>3, <1>4, <1>5 DEF Next

\* Where things have been is never forgotten.
LEMMA NextGrown ==
    ASSUME TypeOK, WorldOK, [Next]_vars
    PROVE  Grown(been, been') /\ UNCHANGED <<kind, active>>
<1>1. CASE ~Meanwhile
  BY <1>1, WorldStays DEF StillWorld, Grown
<1>2. ASSUME NEW x \in Things, NEW home \in Homes(x), Move(x, home) PROVE Grown(been, been')
  BY <1>2 DEF Move, Grown, WorldOK
<1>3. ASSUME Reread \/ Relist PROVE UNCHANGED been
  BY <1>3 DEF Reread, Relist
<1>4. ASSUME Meanwhile PROVE UNCHANGED <<kind, active>>
  BY <1>4 DEF Meanwhile, Move, Reread, Relist
<1> QED
  BY <1>1, <1>2, <1>3, <1>4 DEF Meanwhile, Grown

\* Things stay where they can be, and the list is one of rows.
LEMMA NextWorld == ASSUME TypeOK, WorldOK, [Next]_vars PROVE WorldOK'
<1>1. CASE ~Meanwhile
  BY <1>1, WorldStays DEF StillWorld, WorldOK, Shown, Line
<1>2. ASSUME NEW x \in Things, NEW home \in Homes(x), Move(x, home) PROVE WorldOK'
  <2>1. /\ UNCHANGED <<known, listed, gone>>
        /\ tree' = [tree EXCEPT ![x] = home] /\ been' = [been EXCEPT ![x] = @ \cup {home}]
    BY <1>2 DEF Move
  <2>2. DOMAIN tree' = Things /\ DOMAIN been' = Things
    BY <2>1 DEF WorldOK
  <2>3. ASSUME NEW y \in Things PROVE been'[y] \subseteq Homes(y) /\ tree'[y] \in been'[y]
    BY <2>1 DEF WorldOK
  <2>4. \A y \in Epics \cup Stories : known[y] \in been'[y]
    BY <2>1 DEF WorldOK, Things
  <2> QED
    BY <2>1, <2>2, <2>3, <2>4 DEF WorldOK, Shown, Line
<1>3. ASSUME Reread PROVE WorldOK'
  <2>1. /\ UNCHANGED <<tree, been, listed, gone>>
        /\ known' = [x \in Epics \cup Stories |-> tree[x]]
    BY <1>3 DEF Reread
  <2>2. \A x \in Epics \cup Stories : known'[x] \in been'[x]
    BY <2>1 DEF WorldOK, Things
  <2> QED
    BY <2>1, <2>2 DEF WorldOK, Shown, Line
<1>4. ASSUME Relist PROVE WorldOK'
  <2>1. /\ UNCHANGED <<tree, known, been, gone>>
        /\ listed' = [r \in 1..MaxRows |-> {row.at : row \in rows[r]}]
    BY <1>4 DEF Relist
  <2>2. ASSUME NEW r \in 1..MaxRows, rows[r] # {} PROVE listed'[r] = {Row(r).at} /\ Row(r).at \in Ats
    <3>1. r \in Stored
      BY <2>2 DEF Stored
    <3>2. rows[r] = {Row(r)} /\ Row(r).at \in Ats
      BY <3>1, RowFacts
    <3> QED
      BY <2>1, <3>2
  <2>3. \A r \in 1..MaxRows : rows[r] = {} => listed'[r] = {}
    BY <2>1
  <2>4. listed' \in [1..MaxRows -> SUBSET Ats]
    <3>1. \A r \in 1..MaxRows : listed'[r] \in SUBSET Ats
      BY <2>2, <2>3
    <3> QED
      BY <2>1, <3>1
  <2>5. ASSUME NEW r \in Shown' PROVE listed'[r] = {Line(r)'}
    <3>1. r \in 1..MaxRows /\ listed'[r] = {Row(r).at}
      BY <2>2, <2>3 DEF Shown
    <3> QED
      BY <3>1 DEF Line
  <2> QED
    BY <2>1, <2>4, <2>5 DEF WorldOK
<1> QED
  BY <1>1, <1>2, <1>3, <1>4 DEF Meanwhile

----------------------------------------------------------------------------
(* What forms hold stays in place *)

\* The two links of a place.
LEMMA InPlaceMeans ==
    ASSUME NEW homes, NEW at \in Ats
    PROVE  InPlace(homes, at) <=> /\ at["epic"] # None => at["project"] \in homes[at["epic"]]
                                  /\ at["story"] # None => at["epic"] \in homes[at["story"]]
BY DEF InPlace

\* A dialog that opens for a row is filled with what is in place.
LEMMA FilledIsPlaced ==
    ASSUME TypeOK, NEW row \in Ats, RowIsPlaced(row)
    PROVE  LET at == Filled(row) IN
           /\ \A l \in Place \ DOMAIN kind.selects : at[l] = None
           /\ kind.picks = "none" => at.cases = {}
           /\ at.project # None /\ "rehung" \notin trouble =>
                  InPlace(been, at) /\ ("hasty" \notin trouble => SameProject(been, at))
           /\ \A l \in (kind.stored \cap Levels) \cup {"rest"} :
                  at[l] = row[l] \/ (l \in kind.dropped /\ at[l] = Empty[l])
<1> DEFINE at == Filled(row)
<1>1. /\ at \in Ats /\ at["rest"] = row["rest"]
      /\ \A l \in Levels : at[l] =
             IF l \in kind.loaded /\ ~(l \in kind.dropped /\ row.project \notin active)
             THEN row[l] ELSE Empty[l]
  BY FilledFacts
<1> HIDE DEF at
<1>2. \A l \in Place \ DOMAIN kind.selects : at[l] = None
  BY <1>1, KindFacts, EmptyFacts DEF GoodForm, Place, Levels
<1>3. kind.picks = "none" => at.cases = {}
  BY <1>1, KindFacts, EmptyFacts DEF GoodForm, Levels
<1>4. ASSUME at.project # None, "rehung" \notin trouble
      PROVE  InPlace(been, at) /\ ("hasty" \notin trouble => SameProject(been, at))
  <2>1. kind.dropped = {} \/ row.project \in active
    BY <1>1, <1>4, KindFacts, EmptyFacts DEF GoodForm, Levels
  <2>2. \A l \in Levels : at[l] = IF l \in kind.loaded THEN row[l] ELSE Empty[l]
    BY <1>1, <2>1
  <2>3. at.project = row.project
    BY <1>4, <2>2, EmptyFacts DEF Levels
  <2>4. /\ row["epic"] # None => row["project"] \in been[row["epic"]]
        /\ row["story"] # None => row["epic"] \in been[row["story"]]
    BY <1>4, InPlaceMeans DEF RowIsPlaced
  <2>5. at["epic"] # None => at["project"] \in been[at["epic"]]
    BY <2>2, <2>3, <2>4, EmptyFacts DEF Levels
  <2>6. at["story"] # None => at["epic"] \in been[at["story"]]
    BY <2>2, <2>4, EmptyFacts, KindFacts DEF Levels, GoodForm
  <2>7. ASSUME "hasty" \notin trouble PROVE SameProject(been, at)
    <3>1. SameProject(been, row)
      BY <1>4, <2>7 DEF RowIsPlaced
    <3>2. at.cases \subseteq row.cases
      BY <2>2, EmptyFacts DEF Levels
    <3> QED
      BY <2>3, <3>1, <3>2 DEF SameProject
  <2> QED
    BY <1>1, <2>5, <2>6, <2>7, InPlaceMeans
<1>5. ASSUME NEW l \in (kind.stored \cap Levels) \cup {"rest"}
      PROVE  at[l] = row[l] \/ (l \in kind.dropped /\ at[l] = Empty[l])
  BY <1>1, KindFacts DEF GoodForm
<1> QED
  BY <1>2, <1>3, <1>4, <1>5 DEF at

\* A choice in a select leaves nothing behind that hangs from the old one.
LEMMA PickIsPlaced ==
    ASSUME TypeOK, WorldOK, NEW level \in Place, NEW value, Pick(level, value), FormIsPlaced(form)
    PROVE  LET at == PickedAt(level, value) IN
           /\ \A l \in Place \ DOMAIN kind.selects : at[l] = None
           /\ kind.picks = "none" => at.cases = {}
           /\ kind.picks # "none" => at.cases = {}
           /\ level = "project" => at.project # None
           /\ form.id = 0 \/ (at.project # None /\ "rehung" \notin trouble) => InPlace(been, at)
<1> DEFINE at == PickedAt(level, value)
           D == DOMAIN kind.selects
<1>1. /\ form \in FormSet /\ form.at \in Ats /\ level \in D /\ at \in Ats
      /\ value \in Offered(level) \cup {None} /\ value # form.at[level]
      /\ value = None => kind.selects[level].blank
  BY PickFacts DEF FormSet
<1>2. GoodForm(kind)
  BY KindFacts
<1>3. \A l \in Parts : at[l] = IF l = level THEN value
                               ELSE IF l \in kind.selects[level].clears THEN Empty[l]
                               ELSE form.at[l]
  BY DEF PickedAt
<1> HIDE DEF at
<1>4. \A l \in Place \ D : form.at[l] = None /\ at[l] = None
  BY <1>1, <1>3, EmptyFacts DEF FormIsPlaced, Parts, Levels, Place
<1>5. kind.picks = "none" => at.cases = {}
  BY <1>1, <1>3, EmptyFacts DEF FormIsPlaced, Parts, Levels, Place
<1>6. kind.picks # "none" => at.cases = {}
  BY <1>1, <1>2, <1>3, EmptyFacts DEF GoodForm, Parts, Levels, Place
<1>7. level = "project" => at.project # None
  <2>1. level = "project" => kind.selects.project.blank = FALSE
    BY <1>1, <1>2 DEF GoodForm
  <2> QED
    BY <1>1, <1>3, <2>1 DEF Parts, Levels
<1>8. ASSUME form.id = 0 \/ (at.project # None /\ "rehung" \notin trouble) PROVE InPlace(been, at)
  <2>1. CASE level = "project"
    <3>1. at.epic = None /\ at.story = None
      BY <1>1, <1>2, <1>3, <1>4, <2>1, EmptyFacts DEF GoodForm, Parts, Levels, Place
    <3> QED
      BY <1>1, <3>1, InPlaceMeans
  <2>2. CASE level # "project"
    <3>1. kind.selects[level].clears \subseteq {"epic", "story", "cases"}
      BY <1>1, <1>2 DEF GoodForm
    <3>2. at.project = form.at.project
      BY <1>1, <1>3, <2>2, <3>1 DEF Parts, Levels
    <3>3. InPlace(been, form.at)
      BY <1>8, <3>2 DEF FormIsPlaced
    <3>4. /\ form.at["epic"] # None => form.at["project"] \in been[form.at["epic"]]
          /\ form.at["story"] # None => form.at["epic"] \in been[form.at["story"]]
      BY <1>1, <3>3, InPlaceMeans
    <3>5. CASE level = "epic"
      <4>1. value # None => form.at.project \in been[value]
        BY <1>1, <3>5 DEF Offered, WorldOK
      <4>2. at.epic = value /\ at.story = None
        BY <1>1, <1>2, <1>3, <1>4, <3>5, EmptyFacts DEF GoodForm, Parts, Levels, Place
      <4> QED
        BY <1>1, <3>2, <4>1, <4>2, InPlaceMeans
    <3>6. CASE level = "story"
      <4>1. value # None => form.at.epic \in been[value]
        BY <1>1, <3>6 DEF Offered, WorldOK
      <4>2. at.story = value /\ at.epic = form.at.epic
        BY <1>1, <1>2, <1>3, <3>6 DEF GoodForm, Parts, Levels, Place
      <4> QED
        BY <1>1, <3>2, <3>4, <4>1, <4>2, InPlaceMeans
    <3> QED
      BY <2>2, <3>5, <3>6 DEF Place
  <2> QED
    BY <2>1, <2>2
<1> QED
  BY <1>4, <1>5, <1>6, <1>7, <1>8 DEF at

\* The form of a new row.
LEMMA OpenNewIsPlaced ==
    ASSUME FormInv, NEW p \in {None} \cup Projects, OpenNew(p)
    PROVE  FormIsPlaced(form)' /\ IsAsLoaded(form)'
<1> DEFINE at == [Empty EXCEPT !.project = p]
<1>1. at \in Ats /\ at["project"] = p /\ at["epic"] = None /\ at["story"] = None /\ at["cases"] = {}
  BY DEF Empty, Ats
<1>2. form' = [id |-> 0, session |-> sessions', at |-> at, base |-> Empty,
               touched |-> {}, cropped |-> FALSE]
  BY Zenon DEF OpenNew, Opened
<1> HIDE DEF at
<1>3. form'.id = 0 /\ form'.at = at
  BY <1>2
<1>4. p # None => "project" \in DOMAIN kind.selects
  BY KindFacts DEF OpenNew, FormInv, GoodForm
<1>5. UNCHANGED <<kind, trouble, been>>
  BY DEF OpenNew
<1>6. InPlace(been, at) /\ SameProject(been, at) /\ at.cases \subseteq EverWithin(been, at)
  BY <1>1, InPlaceMeans DEF SameProject
<1>7. FormIsPlaced(form)'
  BY <1>1, <1>3, <1>4, <1>5, <1>6 DEF FormIsPlaced, Place
<1>8. IsAsLoaded(form)'
  BY <1>3 DEF IsAsLoaded
<1> QED
  BY <1>7, <1>8

\* The form of a row.
LEMMA OpenEditIsPlaced ==
    ASSUME FormInv, NEW r \in 1..MaxRows, OpenEdit(r)
    PROVE  FormIsPlaced(form)' /\ IsAsLoaded(form)'
<1> DEFINE row == Line(r)
           at == Filled(row)
<1>1. TypeOK /\ r \in Shown /\ row \in Ats /\ at \in Ats
  BY LineFacts, FilledFacts DEF OpenEdit, FormInv
<1>2. RowIsPlaced(row)
  BY <1>1 DEF FormInv, LinesArePlaced
<1>3. form' = [id |-> r, session |-> sessions', at |-> at, base |-> row,
               touched |-> {}, cropped |-> FALSE]
  BY Zenon DEF OpenEdit, Opened
<1>4. form'.id = r /\ r # 0 /\ form'.at = at /\ form'.base = row
  BY <1>3, BoundsAssumption
<1>5. UNCHANGED <<kind, trouble, been>>
  BY DEF OpenEdit
<1> HIDE DEF at
<1>6. /\ \A l \in Place \ DOMAIN kind.selects : at[l] = None
      /\ kind.picks = "none" => at.cases = {}
      /\ at.project # None /\ "rehung" \notin trouble =>
             InPlace(been, at) /\ ("hasty" \notin trouble => SameProject(been, at))
      /\ \A l \in (kind.stored \cap Levels) \cup {"rest"} :
             at[l] = row[l] \/ (l \in kind.dropped /\ at[l] = Empty[l])
  BY <1>1, <1>2, FilledIsPlaced DEF at
<1> HIDE DEF row
<1>7. FormIsPlaced(form)'
  BY <1>4, <1>5, <1>6 DEF FormIsPlaced
<1>8. IsAsLoaded(form)'
  BY <1>4, <1>5, <1>6 DEF IsAsLoaded
<1> QED
  BY <1>7, <1>8

\* The form of a suite.
LEMMA EditShownIsPlaced ==
    ASSUME FormInv, EditShown
    PROVE  FormIsPlaced(form)' /\ IsAsLoaded(form)'
<1> DEFINE row == edit.row
           at == Filled(row)
           all == at.cases
<1>1. PICK list \in SUBSET Cases :
          LET kept == IF at.project = None THEN at.cases ELSE at.cases \cap list
          IN /\ edit.id \in 1..MaxRows /\ row \in Ats /\ at \in Ats
             /\ [at EXCEPT !.cases = kept] \in Ats
             /\ Opened(edit.id, [at EXCEPT !.cases = kept], row, kept # at.cases)
  BY EditShownFacts DEF FormInv
<1> DEFINE kept == IF at.project = None THEN at.cases ELSE at.cases \cap list
           now == [at EXCEPT !.cases = kept]
           cropped == kept # at.cases
<1>2. /\ kept \subseteq at.cases /\ cropped \in BOOLEAN
      /\ ~cropped => now = at
  BY <1>1 DEF Ats
<1>3. /\ now["cases"] = kept /\ \A l \in Parts \ {"cases"} : now[l] = at[l]
      /\ now \in Ats /\ row \in Ats
  BY <1>1 DEF Ats, Parts, Levels
<1>4. Opened(edit.id, now, row, cropped) /\ edit.id \in 0..MaxRows /\ edit.id # 0
  BY <1>1, BoundsAssumption
<1>5. TypeOK /\ RowIsPlaced(row)
  BY DEF FormInv, RowsArePlaced, EditShown
<1>6. /\ \A l \in Place \ DOMAIN kind.selects : at[l] = None
      /\ kind.picks = "none" => at.cases = {}
      /\ at.project # None /\ "rehung" \notin trouble =>
             InPlace(been, at) /\ ("hasty" \notin trouble => SameProject(been, at))
      /\ \A l \in (kind.stored \cap Levels) \cup {"rest"} :
             at[l] = row[l] \/ (l \in kind.dropped /\ at[l] = Empty[l])
  BY <1>1, <1>5, FilledIsPlaced
<1>7. /\ UNCHANGED <<kind, been>> /\ trouble \subseteq trouble'
  BY <1>5, TroubleGrows DEF EditShown
<1>8. at \in Ats
  BY <1>1
<1> HIDE DEF row, at, kept, cropped
<1>9. InPlace(been, at) => InPlace(been, now)
  BY <1>3, <1>8, InPlaceMeans DEF Parts, Levels
<1>10. SameProject(been, at) => SameProject(been, now)
  BY <1>2, <1>3 DEF SameProject, Parts, Levels
<1> HIDE DEF now
<1>11. form'.id = edit.id /\ form'.at = now /\ form'.base = row /\ form'.cropped = cropped
  BY <1>3, <1>4, <1>5, <1>2, OpenedFacts
<1>12. FormIsPlaced(form)'
  <2>1. \A l \in Place \ DOMAIN kind.selects : now[l] = None
    BY <1>3, <1>6 DEF Place, Parts, Levels
  <2>2. kind.picks = "none" => now.cases = {}
    BY <1>2, <1>3, <1>6
  <2>3. now.project = at.project
    BY <1>3 DEF Parts, Levels
  <2> QED
    BY <1>4, <1>6, <1>7, <1>9, <1>10, <1>11, <2>1, <2>2, <2>3 DEF FormIsPlaced
<1>13. IsAsLoaded(form)'
  <2>1. ~cropped => now = at
    BY <1>2 DEF now
  <2> QED
    BY <1>6, <1>7, <1>11, <2>1 DEF IsAsLoaded
<1> QED
  BY <1>12, <1>13

\* The form of a defect that a link leads to.
LEMMA LinkShownIsPlaced ==
    ASSUME FormInv, LinkShown
    PROVE  FormIsPlaced(form)' /\ IsAsLoaded(form)'
<1> DEFINE row == Row(edit.id).at
           at == Filled(row)
<1>1. /\ TypeOK /\ edit.id \in Stored /\ edit.id # 0 /\ edit.id \in 0..MaxRows
      /\ row \in Ats /\ at \in Ats /\ Opened(edit.id, at, row, FALSE)
  BY LinkShownFacts DEF FormInv
<1>2. RowIsPlaced(row)
  BY <1>1 DEF FormInv, RowsArePlaced
<1>3. UNCHANGED <<kind, trouble, been>>
  BY DEF LinkShown
<1>4. /\ \A l \in Place \ DOMAIN kind.selects : at[l] = None
      /\ kind.picks = "none" => at.cases = {}
      /\ at.project # None /\ "rehung" \notin trouble =>
             InPlace(been, at) /\ ("hasty" \notin trouble => SameProject(been, at))
      /\ \A l \in (kind.stored \cap Levels) \cup {"rest"} :
             at[l] = row[l] \/ (l \in kind.dropped /\ at[l] = Empty[l])
  BY <1>1, <1>2, FilledIsPlaced
<1> HIDE DEF row, at
<1>5. form'.id = edit.id /\ form'.at = at /\ form'.base = row
  <2>1. form' = [id |-> edit.id, session |-> sessions', at |-> at, base |-> row,
                 touched |-> {}, cropped |-> FALSE]
    BY <1>1, Zenon DEF Opened
  <2> QED
    BY <2>1
<1>6. FormIsPlaced(form)'
  BY <1>1, <1>3, <1>4, <1>5 DEF FormIsPlaced
<1>7. IsAsLoaded(form)'
  BY <1>1, <1>3, <1>4, <1>5 DEF IsAsLoaded
<1> QED
  BY <1>6, <1>7

\* A choice keeps a form in place, and what it does not touch.
LEMMA PickKeepsPlaced ==
    ASSUME FormInv, NEW level \in Place, NEW value, Pick(level, value)
    PROVE  FormIsPlaced(form)' /\ IsAsLoaded(form)'
<1> DEFINE at == PickedAt(level, value)
           touched == Touched({level} \cup kind.selects[level].clears)
<1>1. /\ TypeOK /\ Open /\ form \in FormSet /\ at \in Ats /\ level \in DOMAIN kind.selects
      /\ form' = [form EXCEPT !.at = at, !.touched = touched]
  BY PickFacts DEF FormInv
<1>2. FormIsPlaced(form) /\ IsAsLoaded(form)
  BY <1>1 DEF FormInv, FormsArePlaced, UntouchedIsAsLoaded, FormsAtWork
<1>3. /\ \A l \in Place \ DOMAIN kind.selects : at[l] = None
      /\ at.cases = {}
      /\ form.id = 0 \/ (at.project # None /\ "rehung" \notin trouble) => InPlace(been, at)
  BY <1>1, <1>2, PickIsPlaced DEF FormInv
<1>4. UNCHANGED <<kind, trouble, been>>
  BY DEF Pick, history
<1>5. \A l \in Parts \ ({level} \cup kind.selects[level].clears) : at[l] = form.at[l]
  BY DEF PickedAt
<1>6. form.id # 0 => touched = form.touched \cup {level} \cup kind.selects[level].clears
  BY DEF Touched
<1> HIDE DEF at, touched
<1>7. /\ form'.id = form.id /\ form'.at = at /\ form'.base = form.base
      /\ form'.cropped = form.cropped /\ form'.touched = touched
  BY <1>1 DEF FormSet
<1>8. FormIsPlaced(form)'
  BY <1>3, <1>4, <1>7 DEF FormIsPlaced, SameProject
<1>9. IsAsLoaded(form)'
  BY <1>2, <1>4, <1>5, <1>6, <1>7 DEF IsAsLoaded, Parts
<1> QED
  BY <1>8, <1>9

LEMMA PickCasesFacts ==
    ASSUME TypeOK, NEW cases \in SUBSET Cases, PickCases(cases)
    PROVE  /\ Open /\ kind.picks # "none" /\ form.at.project # None /\ form \in FormSet
           /\ cases \subseteq form.at.cases \cup options
           /\ form'.id = form.id /\ form'.session = form.session
           /\ form'.at = [form.at EXCEPT !.cases = cases]
           /\ form'.base = form.base /\ form'.cropped = form.cropped
           /\ form'.touched = Touched({"cases"})
           /\ form' # NoForm
           /\ trouble \subseteq trouble' /\ ("hasty" \notin trouble' => asks = <<>>)
<1>1. Open /\ kind.picks # "none" /\ form.at.project # None /\ form \in FormSet
  BY OpenForm DEF PickCases
<1>2. cases \subseteq form.at.cases \cup options
  <2> DEFINE now == form.at.cases
             toggled(c) == IF kind.picks = "one" THEN {c} \ now
                           ELSE (now \cup {c}) \ (now \cap {c})
  <2>1. cases \in {toggled(c) : c \in options} \cup
                  (IF kind.picks = "one" THEN {{}} ELSE {now \cup options, now \ options})
    BY DEF PickCases
  <2>2. CASE \E c \in options : cases = toggled(c)
    BY <2>2
  <2>3. CASE cases \in {{}, now \cup options, now \ options}
    BY <2>3
  <2> QED
    BY <2>1, <2>2, <2>3
<1>3. /\ form'.id = form.id /\ form'.session = form.session
      /\ form'.at = [form.at EXCEPT !.cases = cases]
      /\ form'.base = form.base /\ form'.cropped = form.cropped
      /\ form'.touched = Touched({"cases"})
  BY <1>1 DEF PickCases, FormSet
<1>4. form' # NoForm
  BY <1>1, <1>3, BoundsAssumption DEF FormSet, NoForm
<1>5. trouble \subseteq trouble' /\ ("hasty" \notin trouble' => asks = <<>>)
  BY TroubleGrows DEF PickCases
<1> QED
  BY <1>1, <1>2, <1>3, <1>4, <1>5

LEMMA PickCasesKeepsPlaced ==
    ASSUME FormInv, NEW cases \in SUBSET Cases, PickCases(cases)
    PROVE  FormIsPlaced(form)' /\ IsAsLoaded(form)'
<1> DEFINE at == [form.at EXCEPT !.cases = cases]
<1>1. /\ TypeOK /\ Open /\ kind.picks # "none" /\ form.at.project # None /\ form \in FormSet
      /\ cases \subseteq form.at.cases \cup options
      /\ form'.id = form.id /\ form'.at = at /\ form'.base = form.base
      /\ form'.cropped = form.cropped /\ form'.touched = Touched({"cases"})
      /\ trouble \subseteq trouble' /\ ("hasty" \notin trouble' => asks = <<>>)
  BY PickCasesFacts DEF FormInv
<1>2. FormIsPlaced(form) /\ IsAsLoaded(form)
  BY <1>1 DEF FormInv, FormsArePlaced, UntouchedIsAsLoaded, FormsAtWork
<1>3. UNCHANGED <<kind, been>>
  BY DEF PickCases
<1>4. /\ form.at \in Ats /\ at \in Ats
      /\ at["cases"] = cases /\ \A l \in Parts \ {"cases"} : at[l] = form.at[l]
  BY <1>1 DEF Ats, FormSet, Parts, Levels
<1> HIDE DEF at
<1>5. ASSUME "hasty" \notin trouble' PROVE options \subseteq EverWithin(been, Around(form))
  BY <1>1, <1>5 DEF FormInv, ListIsOfThePlace
<1>6. InPlace(been, form.at) => InPlace(been, at)
  BY <1>4, InPlaceMeans DEF Parts, Levels
<1>7. ASSUME "hasty" \notin trouble', SameProject(been, form.at) PROVE SameProject(been, at)
  <2>1. EverWithin(been, Around(form)) \subseteq EverWithin(been, InProject(form.at.project))
    BY WithinTheProject DEF Around
  <2>2. \A c \in options : \E h \in been[c] : h.project = form.at.project
    <3>1. options \subseteq EverWithin(been, InProject(form.at["project"]))
      BY <1>5, <1>7, <2>1
    <3>2. form.at["project"] # None
      BY <1>1
    <3> QED
      BY <3>1, <3>2, WithinTheProject
  <2>3. at.project = form.at.project
    BY <1>4 DEF Parts, Levels
  <2> QED
    BY <1>1, <1>4, <1>7, <2>2, <2>3 DEF SameProject
<1>8. ASSUME "hasty" \notin trouble', form.id = 0, form.at.cases \subseteq EverWithin(been, form.at)
      PROVE  at.cases \subseteq EverWithin(been, at)
  <2>1. EverWithin(been, Around(form)) = EverWithin(been, form.at)
    BY <1>8, WithinTheProject DEF Around
  <2>2. EverWithin(been, at) = EverWithin(been, form.at)
    BY <1>4 DEF EverWithin, Lies, Place, Parts, Levels
  <2> QED
    BY <1>1, <1>4, <1>5, <1>8, <2>1, <2>2
<1>9. FormIsPlaced(form)'
  <2>1. \A l \in Place : at[l] = form.at[l]
    BY <1>4 DEF Place, Parts, Levels
  <2>2. at.project = form.at.project
    BY <2>1 DEF Place
  <2> QED
    BY <1>1, <1>2, <1>3, <1>6, <1>7, <1>8, <2>1, <2>2 DEF FormIsPlaced
<1>10. IsAsLoaded(form)'
  <2>1. form.id # 0 => Touched({"cases"}) = form.touched \cup {"cases"}
    BY DEF Touched
  <2> QED
    BY <1>1, <1>2, <1>3, <1>4, <2>1 DEF IsAsLoaded, Parts
<1> QED
  BY <1>9, <1>10

\* Typing changes no place.
LEMMA TypeKeepsPlaced ==
    ASSUME FormInv, Type
    PROVE  FormIsPlaced(form)' /\ IsAsLoaded(form)'
<1> DEFINE at == [form.at EXCEPT !.rest = "typed"]
<1>1. TypeOK /\ Open /\ form \in FormSet /\ UNCHANGED <<kind, trouble, been>>
  BY OpenForm DEF Type, FormInv, history
<1>2. FormIsPlaced(form) /\ IsAsLoaded(form)
  BY <1>1 DEF FormInv, FormsArePlaced, UntouchedIsAsLoaded, FormsAtWork
<1>3. /\ form'.id = form.id /\ form'.at = at /\ form'.base = form.base
      /\ form'.cropped = form.cropped /\ form'.touched = Touched({"rest"})
  BY <1>1 DEF Type, FormSet
<1>4. form.at \in Ats /\ at \in Ats /\ \A l \in Parts \ {"rest"} : at[l] = form.at[l]
  BY <1>1 DEF FormSet, Ats, Parts, Levels
<1> HIDE DEF at
<1>5. /\ \A l \in Place : at[l] = form.at[l]
      /\ at.project = form.at.project /\ at.cases = form.at.cases
  BY <1>4 DEF Parts, Levels, Place
<1>6. InPlace(been, form.at) => InPlace(been, at)
  BY <1>4, InPlaceMeans DEF Parts, Levels
<1>7. SameProject(been, form.at) => SameProject(been, at)
  BY <1>5 DEF SameProject
<1>8. EverWithin(been, at) = EverWithin(been, form.at)
  BY <1>5 DEF EverWithin, Lies
<1>9. FormIsPlaced(form)'
  BY <1>1, <1>2, <1>3, <1>5, <1>6, <1>7, <1>8 DEF FormIsPlaced
<1>10. IsAsLoaded(form)'
  <2>1. form.id # 0 => Touched({"rest"}) = form.touched \cup {"rest"}
    BY DEF Touched
  <2> QED
    BY <1>1, <1>2, <1>3, <1>4, <2>1 DEF IsAsLoaded, Parts
<1> QED
  BY <1>9, <1>10

\* Saves on their way are left alone by all but the steps of Saving.
LEMMA CallsStay ==
    ASSUME Filling \/ Loading \/ Elsewhere \/ Meanwhile \/ UNCHANGED vars
    PROVE  UNCHANGED calls
<1>1. ASSUME Filling PROVE UNCHANGED calls
  BY <1>1 DEF Filling, OpenNew, OpenEdit, AskEdit, Pick, PickCases, Type, Close
<1>2. ASSUME Loading PROVE UNCHANGED calls
  BY <1>2 DEF Loading, LinkShown, EditLoaded, EditShown, EditFailed, CasesArrive, CasesFail
<1>3. ASSUME Elsewhere \/ Meanwhile \/ UNCHANGED vars PROVE UNCHANGED calls
  BY <1>3 DEF Elsewhere, Others, Rehang, Meanwhile, Move, Reread, Relist, vars
<1> QED
  BY <1>1, <1>2, <1>3

\* A save is of the dialog as it was when the button was pressed.
LEMMA SavesCome ==
    ASSUME TypeOK, [Next]_vars
    PROVE  \A i \in DOMAIN calls' :
               \/ \E k \in DOMAIN calls : calls'[i].form = calls[k].form
               \/ CanSave /\ calls'[i].form = form
<1> DEFINE From == \A i \in DOMAIN calls' : \E k \in DOMAIN calls : calls'[i].form = calls[k].form
<1>1. ASSUME UNCHANGED calls PROVE From
  BY <1>1
<1>2. ASSUME NEW i, Serve(i) \/ Refuse(i) PROVE From
  <2>1. PICK answer \in {"none", "saved", "refused"} :
            i \in DOMAIN calls /\ calls' = [calls EXCEPT ![i].answer = answer]
    BY <1>2 DEF Serve, Refuse
  <2>2. /\ DOMAIN calls' = DOMAIN calls
        /\ \A j \in DOMAIN calls : calls'[j].form = calls[j].form
    BY <2>1, CallsAfterAnswer
  <2> QED
    BY <2>2
<1>3. ASSUME NEW i, Answered(i) \/ Lose(i) PROVE From
  <2>1. i \in DOMAIN calls /\ calls' = RemoveAt(calls, i)
    BY <1>3 DEF Answered, Lose
  <2>2. \A j \in DOMAIN calls' : \E k \in DOMAIN calls \ {i} : calls'[j] = calls[k]
    BY <2>1, CallsAfterRemoval
  <2> QED
    BY <2>2
<1>4. ASSUME Press
      PROVE  \A i \in DOMAIN calls' :
                 \/ \E k \in DOMAIN calls : calls'[i].form = calls[k].form
                 \/ CanSave /\ calls'[i].form = form
  <2>1. /\ CanSave /\ Open /\ form \in FormSet
        /\ calls' = Append(calls, [form |-> form, answer |-> "none"]) /\ Len(calls) < MaxCalls
    BY <1>4, OpenForm DEF Press, CanSave
  <2>2. [form |-> form, answer |-> "none"] \in CallSet
    BY <2>1 DEF CallSet
  <2>3. /\ calls'[Len(calls) + 1] = [form |-> form, answer |-> "none"]
        /\ \A i \in DOMAIN calls : calls'[i] = calls[i]
        /\ DOMAIN calls' = DOMAIN calls \cup {Len(calls) + 1}
    BY <2>1, <2>2, CallsAfterPress
  <2> QED
    BY <2>1, <2>3
<1>5. ASSUME Filling \/ Loading \/ Elsewhere \/ Meanwhile \/ UNCHANGED vars PROVE UNCHANGED calls
  BY <1>5, CallsStay
<1> QED
  BY <1>1, <1>2, <1>3, <1>4, <1>5 DEF Next, Saving

\* The open form, after any step, is in place and as it was loaded.
LEMMA DialogChanges ==
    ASSUME FormInv, [Next]_vars
    PROVE  /\ UNCHANGED kind /\ trouble \subseteq trouble' /\ Grown(been, been')
           /\ form' = form \/ form' = NoForm \/ (FormIsPlaced(form)' /\ IsAsLoaded(form)')
<1>1. ASSUME Filling \/ EditShown \/ LinkShown
      PROVE  form' = form \/ form' = NoForm \/ (FormIsPlaced(form)' /\ IsAsLoaded(form)')
  <2>1. ASSUME NEW r \in 1..MaxRows, AskEdit(r) PROVE form' = form
    BY <2>1 DEF AskEdit
  <2>2. ASSUME Close PROVE form' = NoForm
    BY <2>2 DEF Close
  <2> QED
    BY <1>1, <2>1, <2>2, OpenNewIsPlaced, OpenEditIsPlaced, EditShownIsPlaced, LinkShownIsPlaced,
       PickKeepsPlaced, PickCasesKeepsPlaced, TypeKeepsPlaced DEF Filling
<1>2. ASSUME Loading \/ Saving \/ Elsewhere \/ Meanwhile \/ UNCHANGED vars, ~EditShown, ~LinkShown
      PROVE  form' = form \/ form' = NoForm
  <2>1. ASSUME Loading PROVE form' = form
    BY <1>2, <2>1 DEF Loading, EditLoaded, EditFailed, CasesArrive, CasesFail
  <2>2. ASSUME Saving PROVE form' = form \/ form' = NoForm
    BY <2>2 DEF Saving, Press, Serve, Refuse, Answered, Lose
  <2>3. ASSUME Elsewhere \/ Meanwhile \/ UNCHANGED vars PROVE form' = form
    BY <2>3 DEF Elsewhere, vars, Others, Rehang, Meanwhile, Move, Reread, Relist
  <2> QED
    BY <1>2, <2>1, <2>2, <2>3
<1>3. trouble \subseteq trouble'
  <2>1. ASSUME Filling PROVE trouble \subseteq trouble'
    BY <2>1 DEF Filling, OpenNew, OpenEdit, AskEdit, Pick, PickCases, Type, Close, history, Trouble
  <2>2. ASSUME Loading PROVE trouble \subseteq trouble'
    BY <2>2 DEF Loading, LinkShown, EditLoaded, EditShown, EditFailed, CasesArrive, CasesFail,
                history, Trouble
  <2>3. ASSUME Saving PROVE trouble \subseteq trouble'
    BY <2>3 DEF Saving, Press, Serve, Refuse, Answered, Lose, history, Trouble
  <2>4. ASSUME Elsewhere PROVE trouble \subseteq trouble'
    BY <2>4 DEF Elsewhere, Others, Rehang, history, Trouble
  <2>5. ASSUME Meanwhile \/ UNCHANGED vars PROVE trouble \subseteq trouble'
    BY <2>5 DEF Meanwhile, Move, Reread, Relist, vars, history
  <2> QED
    BY <2>1, <2>2, <2>3, <2>4, <2>5 DEF Next
<1>4. Grown(been, been') /\ UNCHANGED kind
  BY NextGrown DEF FormInv
<1> QED
  BY <1>1, <1>2, <1>3, <1>4 DEF Next, Loading

\* What is in place stays so, wherever things go.
LEMMA StaysPlaced ==
    ASSUME FormInv, [Next]_vars, NEW f \in FormSet, FormIsPlaced(f)
    PROVE  FormIsPlaced(f)'
<1>1. f.at \in Ats
  BY DEF FormSet
<1>2. /\ UNCHANGED kind /\ trouble \subseteq trouble'
      /\ InPlace(been, f.at) => InPlace(been', f.at)
      /\ SameProject(been, f.at) => SameProject(been', f.at)
      /\ EverWithin(been, f.at) \subseteq EverWithin(been', f.at)
  BY <1>1, DialogChanges, PlacedForEver, WithinForEver
<1> QED
  BY <1>2 DEF FormIsPlaced

\* All forms at work stay in place, as loaded, and filled in when saved.
LEMMA NextForms ==
    ASSUME FormInv, [Next]_vars
    PROVE  FormsArePlaced' /\ UntouchedIsAsLoaded' /\ SavesAreFilled'
<1>1. /\ TypeOK /\ UNCHANGED kind /\ trouble \subseteq trouble'
      /\ form' = form \/ form' = NoForm \/ (FormIsPlaced(form)' /\ IsAsLoaded(form)')
  BY DialogChanges DEF FormInv
<1>2. \A i \in DOMAIN calls' :
          \/ \E k \in DOMAIN calls : calls'[i].form = calls[k].form
          \/ CanSave /\ calls'[i].form = form
  BY <1>1, SavesCome
<1>3. ASSUME NEW f \in FormsAtWork PROVE FormIsPlaced(f)' /\ IsAsLoaded(f)'
  <2>1. FormIsPlaced(f) /\ IsAsLoaded(f)
    BY <1>3 DEF FormInv, FormsArePlaced, UntouchedIsAsLoaded
  <2>2. FormIsPlaced(f)'
    BY <1>1, <1>3, <2>1, FormAtWork, StaysPlaced
  <2>3. IsAsLoaded(f)'
    BY <1>1, <2>1 DEF IsAsLoaded
  <2> QED
    BY <2>2, <2>3
<1>4. ASSUME NEW i \in DOMAIN calls' PROVE calls'[i].form \in FormsAtWork
  BY <1>2 DEF FormsAtWork, CanSave
<1>5. ASSUME form' # NoForm PROVE FormIsPlaced(form)' /\ IsAsLoaded(form)'
  <2>1. CASE form' = form
    <3>1. form \in FormsAtWork
      BY <1>5, <2>1 DEF FormsAtWork, Open
    <3> QED
      BY <1>3, <2>1, <3>1 DEF FormIsPlaced, IsAsLoaded
  <2> QED
    BY <1>1, <1>5, <2>1
<1>6. ASSUME NEW f \in FormsAtWork' PROVE FormIsPlaced(f)' /\ IsAsLoaded(f)'
  <2>1. CASE f = form' /\ form' # NoForm
    BY <1>5, <2>1 DEF FormIsPlaced, IsAsLoaded
  <2>2. CASE \E i \in DOMAIN calls' : f = calls'[i].form
    BY <1>3, <1>4, <2>2
  <2> QED
    BY <2>1, <2>2 DEF FormsAtWork, Open
<1>7. SavesAreFilled'
  <2> SUFFICES ASSUME NEW i \in DOMAIN calls', NEW l \in kind.needs \cap Levels
               PROVE  calls'[i].form.at[l] \notin {None, {}}
    BY <1>1 DEF SavesAreFilled
  <2>1. CASE \E k \in DOMAIN calls : calls'[i].form = calls[k].form
    BY <2>1 DEF FormInv, SavesAreFilled
  <2>2. CASE CanSave /\ calls'[i].form = form
    BY <2>2 DEF CanSave, Has
  <2> QED
    BY <1>2, <2>1, <2>2
<1> QED
  BY <1>6, <1>7 DEF FormsArePlaced, UntouchedIsAsLoaded

----------------------------------------------------------------------------
(* The list of cases is that of the place *)

\* A request for a list of a place within another.
LEMMA ListsAskedFor ==
    ASSUME TypeOK, NEW at, Ask(at), kind.picks # "none", PlaceOf(at) \in Places,
           NEW around, Lies(PlaceOf(at), around),
           at["project"] = None => \A l \in Place : around[l] = None
    PROVE  IF asks' = <<>> THEN options' \subseteq EverWithin(been, around)
           ELSE Lies(Last(asks'), around)
<1>1. CASE at["project"] = None
  <2>1. options' = {} /\ \A home : Lies(home, around)
    BY <1>1 DEF Ask, Lies
  <2> QED
    BY <2>1
<1>2. CASE at["project"] # None
  <2>1. asks' = Append(asks, PlaceOf(at)) /\ asks \in Seq(Places)
    BY <1>2 DEF Ask, TypeOK
  <2>2. asks' # <<>> /\ Len(asks') = Len(asks) + 1 /\ asks'[Len(asks) + 1] = PlaceOf(at)
    BY <2>1, AppendProperties
  <2>3. Last(asks') = PlaceOf(at)
    BY <2>2 DEF Last
  <2> QED
    BY <2>2, <2>3
<1> QED
  BY <1>1, <1>2

\* A project as a place, within itself.
LEMMA ProjectFacts ==
    ASSUME NEW p \in Projects \cup {None}
    PROVE  /\ InProject(p)["project"] = p /\ PlaceOf(InProject(p)) \in Places
           /\ Lies(PlaceOf(InProject(p)), InProject(p))
           /\ p = None => \A l \in Place : InProject(p)[l] = None
<1>1. InProject(p) = [project |-> p, epic |-> None, story |-> None]
      /\ PlaceOf(InProject(p)) = InProject(p)
  BY PlaceFacts
<1>2. InProject(p) \in Places
  BY PlaceType
<1>3. Lies(InProject(p), InProject(p))
  BY DEF Lies
<1> QED
  BY <1>1, <1>2, <1>3 DEF Place

LEMMA OpenNewList ==
    ASSUME FormInv, NEW p \in {None} \cup Projects, OpenNew(p)
    PROVE  ListIsOfThePlace'
<1> SUFFICES ASSUME kind.picks # "none"
             PROVE  LET around == Around(form)' IN
                    IF asks' = <<>> THEN options' \subseteq EverWithin(been, around)
                    ELSE Lies(Last(asks'), around)
  BY DEF ListIsOfThePlace, OpenNew
<1> DEFINE at == [Empty EXCEPT !.project = p]
<1>1. at \in Ats /\ at["project"] = p /\ at["epic"] = None /\ at["story"] = None
  BY DEF Empty, Ats
<1>2. form' = [id |-> 0, session |-> sessions', at |-> at, base |-> Empty,
               touched |-> {}, cropped |-> FALSE]
  BY Zenon DEF OpenNew, Opened
<1> HIDE DEF at
<1>3. Around(form)' = PlaceOf(at)
  BY <1>2 DEF Around
<1>4. PlaceOf(at) = InProject(p)
  BY <1>1, PlaceFacts
<1>5. TypeOK /\ Ask(InProject(p))
  BY DEF FormInv, OpenNew
<1> QED
  BY <1>3, <1>4, <1>5, ProjectFacts, ListsAskedFor

LEMMA OpenEditList ==
    ASSUME FormInv, NEW r \in 1..MaxRows, OpenEdit(r)
    PROVE  ListIsOfThePlace'
<1> SUFFICES ASSUME kind.picks # "none"
             PROVE  LET around == Around(form)' IN
                    IF asks' = <<>> THEN options' \subseteq EverWithin(been, around)
                    ELSE Lies(Last(asks'), around)
  BY DEF ListIsOfThePlace, OpenEdit
<1> DEFINE row == Line(r)
           at == Filled(row)
           p == row.project
<1>1. TypeOK /\ row \in Ats /\ at \in Ats /\ ~kind.awaits
  BY LineFacts, FilledFacts DEF OpenEdit, FormInv
<1>2. at["project"] = p
  <2>1. kind.dropped = {} /\ "project" \in kind.loaded
    BY <1>1, KindFacts DEF GoodForm, Levels
  <2> QED
    BY <1>1, <2>1, FilledFacts DEF Levels
<1>3. form' = [id |-> r, session |-> sessions', at |-> at, base |-> row,
               touched |-> {}, cropped |-> FALSE]
  BY Zenon DEF OpenEdit, Opened
<1>4. p \in Projects \cup {None}
  BY <1>1 DEF Ats
<1>5. Ask(InProject(p))
  BY DEF OpenEdit
<1> HIDE DEF at, p
<1>6. Around(form)' = InProject(p)
  <2>1. form'.id = r /\ form'.at = at /\ r # 0
    BY <1>3, BoundsAssumption
  <2> QED
    BY <1>2, <2>1 DEF Around
<1> QED
  BY <1>1, <1>4, <1>5, <1>6, ProjectFacts, ListsAskedFor

LEMMA LinkShownList ==
    ASSUME FormInv, LinkShown
    PROVE  ListIsOfThePlace'
<1> SUFFICES ASSUME kind.picks # "none"
             PROVE  LET around == Around(form)' IN
                    IF asks' = <<>> THEN options' \subseteq EverWithin(been, around)
                    ELSE Lies(Last(asks'), around)
  BY DEF ListIsOfThePlace, LinkShown
<1> DEFINE row == Row(edit.id).at
           at == Filled(row)
           p == row.project
<1>1. /\ TypeOK /\ edit.id # 0 /\ kind.linked /\ row \in Ats /\ at \in Ats
      /\ Opened(edit.id, at, row, FALSE) /\ Ask(InProject(p))
  BY LinkShownFacts DEF FormInv
<1>2. at["project"] = p
  <2>1. kind.dropped = {} /\ "project" \in kind.loaded
    BY <1>1, KindFacts DEF GoodForm
  <2> QED
    BY <1>1, <2>1, FilledFacts DEF Levels
<1>3. p \in Projects \cup {None}
  BY <1>1 DEF Ats
<1> HIDE DEF at, row, p
<1>4. form' = [id |-> edit.id, session |-> sessions', at |-> at, base |-> row,
               touched |-> {}, cropped |-> FALSE]
  BY <1>1, Zenon DEF Opened
<1>5. Around(form)' = InProject(p)
  <2>1. form'.id = edit.id /\ form'.at = at
    BY <1>4
  <2> QED
    BY <1>1, <1>2, <2>1 DEF Around
<1> QED
  BY <1>1, <1>3, <1>5, ProjectFacts, ListsAskedFor

LEMMA PickList ==
    ASSUME FormInv, NEW level \in Place, NEW value, Pick(level, value)
    PROVE  ListIsOfThePlace'
<1> SUFFICES ASSUME kind.picks # "none"
             PROVE  LET around == Around(form)' IN
                    IF asks' = <<>> THEN options' \subseteq EverWithin(been, around)
                    ELSE Lies(Last(asks'), around)
  BY DEF ListIsOfThePlace, Pick
<1> DEFINE at == PickedAt(level, value)
           touched == Touched({level} \cup kind.selects[level].clears)
<1>1. /\ TypeOK /\ Open /\ form \in FormSet /\ at \in Ats
      /\ form'.id = form.id /\ form'.at = at
  <2>1. /\ TypeOK /\ Open /\ form \in FormSet /\ at \in Ats
        /\ form' = [form EXCEPT !.at = at, !.touched = touched]
    BY PickFacts DEF FormInv
  <2> HIDE DEF at, touched
  <2> QED
    BY <2>1 DEF FormSet
<1>2. FormIsPlaced(form)
  BY <1>1 DEF FormInv, FormsArePlaced, FormsAtWork
<1>3. form.id = 0 => InPlace(been, at)
  BY <1>1, <1>2, PickIsPlaced DEF FormInv
<1>4. Ask(at)
  BY <1>1 DEF Pick
<1> HIDE DEF at
<1>5. ASSUME form.id = 0, at["project"] = None PROVE PlaceOf(at) = InProject(None)
  <2>1. /\ at["epic"] # None => None \in been[at["epic"]]
        /\ at["story"] # None => at["epic"] \in been[at["story"]]
    BY <1>1, <1>3, <1>5, InPlaceMeans
  <2>2. at["epic"] \in {None} \cup Epics /\ at["story"] \in {None} \cup Stories
    BY <1>1 DEF Ats
  <2>3. /\ \A x \in Epics : None \notin been[x]
        /\ \A x \in Stories : None \notin been[x]
    BY FirstAssumption DEF FormInv, WorldOK, Things, Homes
  <2>4. at["epic"] = None /\ at["story"] = None
    BY <2>1, <2>2, <2>3
  <2> QED
    BY <1>5, <2>4, PlaceFacts
<1>6. /\ Lies(PlaceOf(at), Around(form)')
      /\ at["project"] = None => \A l \in Place : Around(form)'[l] = None
  <2>1. CASE form.id = 0
    <3>1. Around(form)' = PlaceOf(at)
      BY <1>1, <2>1 DEF Around
    <3>2. Lies(PlaceOf(at), PlaceOf(at))
      BY DEF Lies
    <3>3. ASSUME at["project"] = None, NEW l \in Place PROVE PlaceOf(at)[l] = None
      <4>1. PlaceOf(at) = InProject(None)
        BY <1>5, <2>1, <3>3
      <4>2. InProject(None)[l] = None
        BY PlaceFacts DEF Place
      <4> QED
        BY <4>1, <4>2
    <3> QED
      BY <3>1, <3>2, <3>3
  <2>2. CASE form.id # 0
    <3>1. Around(form)' = InProject(at["project"])
      BY <1>1, <2>2 DEF Around
    <3>2. Lies(PlaceOf(at), InProject(at["project"]))
      <4> DEFINE p == at["project"]
      <4>1. InProject(p) = [project |-> p, epic |-> None, story |-> None]
            /\ PlaceOf(at)["project"] = p
        BY PlaceFacts
      <4> HIDE DEF p
      <4>2. Lies(PlaceOf(at), InProject(p))
        BY <4>1 DEF Lies, Place
      <4> QED
        BY <4>2 DEF p
    <3>3. ASSUME at["project"] = None, NEW l \in Place PROVE InProject(at["project"])[l] = None
      <4>1. InProject(None)[l] = None
        BY PlaceFacts DEF Place
      <4> QED
        BY <3>3, <4>1
    <3> QED
      BY <3>1, <3>2, <3>3
  <2> QED
    BY <2>1, <2>2
<1> QED
  BY <1>1, <1>4, <1>6, ListsAskedFor, PlaceType

LEMMA EditShownList ==
    ASSUME FormInv, EditShown
    PROVE  ListIsOfThePlace'
<1> SUFFICES ASSUME "hasty" \notin trouble'
             PROVE  asks' = <<>> /\ options' \subseteq EverWithin(been, Around(form)')
  BY DEF ListIsOfThePlace, EditShown
<1> DEFINE at == Filled(edit.row)
<1>1. TypeOK /\ WorldOK /\ asks = <<>> /\ asks' = <<>>
  BY TroubleGrows DEF EditShown, FormInv
<1>2. PICK list \in SUBSET Cases :
          LET kept == IF at.project = None THEN at.cases ELSE at.cases \cap list
          IN /\ edit.id \in 1..MaxRows /\ edit.row \in Ats /\ at \in Ats
             /\ options' = list
             /\ at.project # None => list \subseteq EverWithin(been, at)
             /\ [at EXCEPT !.cases = kept] \in Ats
             /\ Opened(edit.id, [at EXCEPT !.cases = kept], edit.row, kept # at.cases)
  BY <1>1, EditShownFacts
<1> DEFINE kept == IF at.project = None THEN at.cases ELSE at.cases \cap list
           now == [at EXCEPT !.cases = kept]
           cropped == kept # at.cases
<1>3. now.project = at.project /\ now \in Ats /\ edit.row \in Ats /\ cropped \in BOOLEAN
  BY <1>2 DEF Ats
<1>4. Opened(edit.id, now, edit.row, cropped) /\ edit.id \in 0..MaxRows /\ edit.id # 0
  BY <1>2, BoundsAssumption
<1>5. options' \subseteq Cases /\ (at.project # None => options' \subseteq EverWithin(been, at))
  BY <1>2
<1> HIDE DEF at, now, cropped
<1>6. form'.id = edit.id /\ form'.at = now
  BY <1>1, <1>3, <1>4, OpenedFacts
<1>7. Around(form)' = InProject(at.project)
  BY <1>3, <1>4, <1>6 DEF Around
<1> QED
  BY <1>1, <1>5, <1>7, WithinTheProject, WithinHasBeen

LEMMA ListArrivesInPlace ==
    ASSUME FormInv, NEW i, CasesArrive(i) \/ CasesFail(i)
    PROVE  ListIsOfThePlace'
<1> SUFFICES ASSUME Open, kind.picks # "none", "hasty" \notin trouble'
             PROVE  LET around == Around(form) IN
                    IF asks' = <<>> THEN options' \subseteq EverWithin(been, around)
                    ELSE Lies(Last(asks'), around)
  BY DEF ListIsOfThePlace, CasesArrive, CasesFail, Open, Around
<1>1. TypeOK /\ i \in DOMAIN asks /\ asks' = RemoveAt(asks, i) /\ asks \in Seq(Places)
  BY DEF CasesArrive, CasesFail, FormInv, TypeOK
<1>2. i = 1 /\ "hasty" \notin trouble
  BY <1>1, TroubleGrows DEF CasesArrive, CasesFail
<1>3. asks # <<>> /\ Lies(Last(asks), Around(form))
  BY <1>1, <1>2 DEF FormInv, ListIsOfThePlace
<1>4. options' \subseteq EverWithin(been, asks[1])
  BY <1>2, ListsFacts, WithinHasBeen DEF CasesArrive, CasesFail, FormInv
<1>5. CASE Len(asks) = 1
  <2>1. Last(asks) = asks[1]
    BY <1>5 DEF Last
  <2>2. Len(asks') = 0 /\ asks' \in Seq(Places)
    BY <1>1, <1>5, RemoveFacts
  <2>3. asks' = <<>>
    BY <2>2
  <2>4. EverWithin(been, asks[1]) \subseteq EverWithin(been, Around(form))
    BY <1>3, <2>1, WithinGrows DEF Lies
  <2> QED
    BY <1>4, <2>3, <2>4
<1>6. CASE Len(asks) # 1
  <2>1. Last(asks') = Last(asks) /\ asks' # <<>>
    BY <1>1, <1>2, <1>6, LastStays
  <2> QED
    BY <1>3, <2>1
<1> QED
  BY <1>5, <1>6

\* The list stays the list of the place.
LEMMA NextList ==
    ASSUME FormInv, [Next]_vars
    PROVE  ListIsOfThePlace'
<1>1. ASSUME UNCHANGED <<options, asks, kind>>, trouble \subseteq trouble',
             form' = form \/ (form # NoForm /\ Around(form)' = Around(form))
      PROVE  ListIsOfThePlace'
  <2>1. Around(form)' = Around(form)
    BY <1>1 DEF Around
  <2>2. EverWithin(been, Around(form)) \subseteq EverWithin(been', Around(form))
    BY DialogChanges, WithinForEver
  <2> QED
    BY <1>1, <2>1, <2>2 DEF ListIsOfThePlace, FormInv, Open
<1>2. ASSUME form' = NoForm PROVE ListIsOfThePlace'
  BY <1>2 DEF ListIsOfThePlace, Open
<1>3. UNCHANGED kind /\ trouble \subseteq trouble' /\ TypeOK /\ Grown(been, been')
  BY DialogChanges DEF FormInv
<1>4. ASSUME NEW cases \in SUBSET Cases, PickCases(cases) PROVE ListIsOfThePlace'
  <2>1. Open /\ form \in FormSet /\ form'.id = form.id /\ form'.at = [form.at EXCEPT !.cases = cases]
    BY <1>3, <1>4, PickCasesFacts
  <2>2. form'.at.project = form.at.project /\ PlaceOf(form'.at) = PlaceOf(form.at)
    BY <2>1 DEF FormSet, Ats, PlaceOf, Place
  <2>3. Around(form)' = Around(form)
    BY <2>1, <2>2 DEF Around
  <2> QED
    BY <1>1, <1>3, <1>4, <2>1, <2>3 DEF PickCases, Open
<1>5. ASSUME Type PROVE ListIsOfThePlace'
  <2>1. Open /\ form \in FormSet
    BY <1>3, <1>5, OpenForm DEF Type
  <2>2. form'.id = form.id /\ form'.at = [form.at EXCEPT !.rest = "typed"]
    BY <1>5, <2>1 DEF Type, FormSet
  <2>3. form'.at.project = form.at.project /\ PlaceOf(form'.at) = PlaceOf(form.at)
    BY <2>1, <2>2 DEF FormSet, Ats, PlaceOf, Place
  <2>4. Around(form)' = Around(form)
    BY <2>2, <2>3 DEF Around
  <2> QED
    BY <1>1, <1>3, <1>5, <2>1, <2>4 DEF Type, Open
<1>6. ASSUME Filling PROVE ListIsOfThePlace'
  <2>1. ASSUME NEW r \in 1..MaxRows, AskEdit(r) PROVE ListIsOfThePlace'
    BY <1>1, <1>3, <2>1 DEF AskEdit
  <2>2. ASSUME Close PROVE ListIsOfThePlace'
    BY <1>2, <2>2 DEF Close
  <2> QED
    BY <1>4, <1>5, <1>6, <2>1, <2>2, OpenNewList, OpenEditList, PickList DEF Filling
<1>7. ASSUME Loading PROVE ListIsOfThePlace'
  <2>1. ASSUME EditLoaded \/ EditFailed PROVE ListIsOfThePlace'
    BY <1>1, <1>3, <2>1 DEF EditLoaded, EditFailed
  <2> QED
    BY <1>7, <2>1, EditShownList, LinkShownList, ListArrivesInPlace DEF Loading
<1>8. ASSUME Saving PROVE ListIsOfThePlace'
  <2>1. UNCHANGED <<options, asks>> /\ (form' = form \/ form' = NoForm)
    BY <1>8 DEF Saving, Press, Serve, Refuse, Answered, Lose
  <2> QED
    BY <1>1, <1>2, <1>3, <2>1
<1>9. ASSUME Elsewhere \/ Meanwhile \/ UNCHANGED vars PROVE ListIsOfThePlace'
  <2>1. UNCHANGED <<options, asks, form>>
    BY <1>9 DEF Elsewhere, Others, Rehang, Meanwhile, Move, Reread, Relist, vars
  <2> QED
    BY <1>1, <1>3, <2>1
<1> QED
  BY <1>6, <1>7, <1>8, <1>9 DEF Next

----------------------------------------------------------------------------
(* Rows stay in place *)

\* What a save leaves in a row is in place, and was all there.
LEMMA SavedIsPlaced ==
    ASSUME FormInv, NEW i \in DOMAIN calls, NEW old \in Ats,
           \A l \in Levels \ kind.stored : old[l] = Empty[l]
    PROVE  LET at == Kept(calls[i].form.at, old) IN
           /\ at \in Ats /\ RowIsPlaced(at)
           /\ calls[i].form.id = 0 /\ {"rehung", "hasty"} \cap trouble = {} =>
                  at.cases \subseteq EverWithin(been, at)
<1> DEFINE f == calls[i].form
           at == Kept(f.at, old)
<1>1. TypeOK /\ GoodForm(kind) /\ f.at \in Ats
  BY SaveFacts, KindFacts DEF FormInv
<1>2. FormIsPlaced(f) /\ (\A l \in kind.needs \cap Levels : f.at[l] \notin {None, {}})
  BY DEF FormInv, FormsArePlaced, FormsAtWork, SavesAreFilled
<1> HIDE DEF f
<1>3. at \in Ats /\ (\A l \in Levels : at[l] = IF l \in kind.stored THEN f.at[l] ELSE Empty[l])
  BY <1>1, KeptFacts
<1> HIDE DEF at
<1>4. /\ "epic" \in kind.stored => "project" \in kind.stored
      /\ "story" \in kind.stored => "epic" \in kind.stored
      /\ "cases" \in kind.stored => "project" \in kind.stored
  BY <1>1 DEF GoodForm
<1>5. "project" \in kind.stored => f.at.project # None
  BY <1>1, <1>2 DEF GoodForm, Levels, Place
<1>6. ASSUME "rehung" \notin trouble PROVE InPlace(been, at)
  <2>1. CASE "project" \in kind.stored
    <3>1. /\ f.at["epic"] # None => f.at["project"] \in been[f.at["epic"]]
          /\ f.at["story"] # None => f.at["epic"] \in been[f.at["story"]]
      BY <1>1, <1>2, <1>5, <1>6, <2>1, InPlaceMeans DEF FormIsPlaced
    <3>2. at["epic"] # None => at["project"] \in been[at["epic"]]
      BY <1>3, <2>1, <3>1, EmptyFacts DEF Levels
    <3>3. at["story"] # None => at["epic"] \in been[at["story"]]
      BY <1>3, <1>4, <3>1, EmptyFacts DEF Levels
    <3> QED
      BY <1>3, <3>2, <3>3, InPlaceMeans
  <2>2. CASE "project" \notin kind.stored
    <3>1. at["epic"] = None /\ at["story"] = None
      BY <1>3, <1>4, <2>2, EmptyFacts DEF Levels
    <3> QED
      BY <1>3, <3>1, InPlaceMeans
  <2> QED
    BY <2>1, <2>2
<1>7. ASSUME "rehung" \notin trouble, "hasty" \notin trouble
      PROVE  SameProject(been, at) /\ (f.id = 0 => at.cases \subseteq EverWithin(been, at))
  <2>1. CASE "cases" \in kind.stored
    <3>1. at.cases = f.at.cases /\ at.project = f.at.project /\ f.at.project # None
      BY <1>3, <1>4, <1>5, <2>1 DEF Levels
    <3>2. SameProject(been, f.at) /\ (f.id = 0 => f.at.cases \subseteq EverWithin(been, f.at))
      BY <1>2, <1>7, <3>1 DEF FormIsPlaced
    <3>3. EverWithin(been, f.at) \subseteq EverWithin(been, at)
      <4>1. \A l \in Place : at[l] = f.at[l] \/ at[l] = None
        BY <1>3, EmptyFacts DEF Place, Levels
      <4> QED
        BY <4>1, WithinGrows
    <3> QED
      BY <3>1, <3>2, <3>3 DEF SameProject
  <2>2. CASE "cases" \notin kind.stored
    <3>1. at.cases = {}
      BY <1>3, <2>2, EmptyFacts DEF Levels
    <3> QED
      BY <3>1 DEF SameProject
  <2> QED
    BY <2>1, <2>2
<1>8. \A l \in Levels \ kind.stored : at[l] = Empty[l]
  BY <1>3
<1> QED
  BY <1>3, <1>6, <1>7, <1>8 DEF RowIsPlaced, f, at

\* What is said of a row, edited or not.
RowAgrees(row) ==
    /\ RowIsPlaced(row.at)
    /\ "rehung" \notin trouble /\ "hasty" \notin trouble /\ ~row.edited =>
           row.at.cases \subseteq EverWithin(been, row.at)

\* The parts of the invariant that are about rows, row by row.
LEMMA RowsAgree ==
    RowsArePlaced /\ StoredPlacesAgree <=>
        /\ \A r \in Stored : RowAgrees(Row(r))
        /\ edit # NoEdit /\ edit.phase = "cases" => RowIsPlaced(edit.row)
BY DEF RowsArePlaced, StoredPlacesAgree, RowAgrees, RowIsPlaced

\* A row that is put somewhere leaves the others as they were.
LEMMA RowsAgreeAfterPut ==
    ASSUME TypeOK, RowsArePlaced, StoredPlacesAgree, UNCHANGED been, NEW r \in 1..MaxRows, NEW x,
           rows' = [rows EXCEPT ![r] = {x}], RowAgrees(x)',
           UNCHANGED <<kind, edit>>, trouble \subseteq trouble'
    PROVE  RowsArePlaced' /\ StoredPlacesAgree'
<1>1. ASSUME NEW s \in Stored' PROVE RowAgrees(Row(s))'
  <2>1. CASE s = r
    BY <2>1, RowPut DEF RowAgrees, RowIsPlaced
  <2>2. CASE s # r
    <3>1. s \in Stored /\ Row(s)' = Row(s)
      BY <2>2, RowPut DEF Stored
    <3>2. RowAgrees(Row(s))
      BY <3>1, RowsAgree
    <3> QED
      BY <3>1, <3>2 DEF RowAgrees, RowIsPlaced
  <2> QED
    BY <2>1, <2>2
<1>2. edit' # NoEdit /\ edit'.phase = "cases" => RowIsPlaced(edit.row)'
  BY DEF RowsArePlaced, RowIsPlaced
<1> QED
  BY <1>1, <1>2 DEF RowsArePlaced, StoredPlacesAgree, RowAgrees, RowIsPlaced

\* Every stored row stays in place.
LEMMA NextRows ==
    ASSUME FormInv, StoredPlacesAgree, [Next]_vars
    PROVE  RowsArePlaced' /\ StoredPlacesAgree'
<1>1. UNCHANGED kind /\ trouble \subseteq trouble' /\ TypeOK /\ RowsArePlaced
  BY DialogChanges DEF FormInv
<1>2. ASSUME UNCHANGED <<rows, been>>,
             edit' = edit \/ edit' = NoEdit \/ edit'.phase = "row"
             \/ (edit'.phase = "cases" /\ RowIsPlaced(edit'.row))
      PROVE  RowsArePlaced' /\ StoredPlacesAgree'
  <2>1. Stored' = Stored /\ \A r : Row(r)' = Row(r)
    BY <1>2, RowsStay
  <2>2. RowsArePlaced'
    BY <1>1, <1>2, <2>1 DEF RowsArePlaced, RowIsPlaced, NoEdit
  <2>3. StoredPlacesAgree'
    BY <1>1, <1>2, <2>1 DEF StoredPlacesAgree
  <2> QED
    BY <2>2, <2>3
<1>3. ASSUME Filling PROVE RowsArePlaced' /\ StoredPlacesAgree'
  <2>1. ASSUME NEW r \in 1..MaxRows, AskEdit(r) PROVE UNCHANGED <<rows, been>> /\ edit'.phase = "row"
    BY <2>1 DEF AskEdit
  <2>2. ASSUME ~(\E r \in 1..MaxRows : AskEdit(r)) PROVE UNCHANGED <<rows, been, edit>>
    BY <1>3, <2>2 DEF Filling, OpenNew, OpenEdit, Pick, PickCases, Type, Close
  <2> QED
    BY <1>2, <2>1, <2>2
<1>4. ASSUME Loading PROVE RowsArePlaced' /\ StoredPlacesAgree'
  <2>1. ASSUME EditLoaded PROVE edit'.phase = "cases" /\ RowIsPlaced(edit'.row) /\ UNCHANGED <<rows, been>>
    <3>1. /\ edit.id \in Stored /\ edit'.phase = "cases" /\ edit'.row = Row(edit.id).at
          /\ UNCHANGED <<rows, been>>
      BY <2>1 DEF EditLoaded
    <3> QED
      BY <1>1, <3>1 DEF RowsArePlaced
  <2>2. ASSUME Loading, ~EditLoaded PROVE UNCHANGED <<rows, been>> /\ (edit' = edit \/ edit' = NoEdit)
    BY <2>2 DEF Loading, LinkShown, EditShown, EditFailed, CasesArrive, CasesFail
  <2> QED
    BY <1>2, <1>4, <2>1, <2>2
<1>5. ASSUME NEW i, Serve(i) PROVE RowsArePlaced' /\ StoredPlacesAgree'
  <2> DEFINE f == calls[i].form
  <2>1. i \in DOMAIN calls /\ UNCHANGED <<kind, edit, trouble, been>>
    BY <1>1, <1>5, ServeFacts DEF Serve
  <2>2. CASE /\ f.id = 0
             /\ \E r \in (1..MaxRows) \ (Stored \cup gone) :
                    rows' = [rows EXCEPT ![r] =
                        {[at |-> Kept(f.at, Empty), by |-> f.session, edited |-> FALSE]}]
    <3> DEFINE at == Kept(f.at, Empty)
    <3>1. PICK x : x = [at |-> at, by |-> f.session, edited |-> FALSE]
      OBVIOUS
    <3>2. PICK r \in 1..MaxRows : rows' = [rows EXCEPT ![r] = {x}]
      BY <2>2, <3>1
    <3>3. RowIsPlaced(at) /\ ({"rehung", "hasty"} \cap trouble = {} => at.cases \subseteq EverWithin(been, at))
      BY <2>1, <2>2, SavedIsPlaced, EmptyFacts
    <3> HIDE DEF at
    <3>4. x.at = at
      BY <3>1
    <3>5. RowAgrees(x)'
      BY <2>1, <3>3, <3>4 DEF RowAgrees, RowIsPlaced
    <3> QED
      BY <1>1, <2>1, <3>2, <3>5, RowsAgreeAfterPut
  <2>3. CASE /\ f.id \in Stored
             /\ rows' = [rows EXCEPT ![f.id] =
                    {[at |-> Kept(f.at, Row(f.id).at), by |-> Row(f.id).by, edited |-> TRUE]}]
    <3> DEFINE old == Row(f.id).at
               at == Kept(f.at, old)
    <3>1. PICK x : x = [at |-> at, by |-> Row(f.id).by, edited |-> TRUE]
      OBVIOUS
    <3>2. PICK r \in 1..MaxRows : rows' = [rows EXCEPT ![r] = {x}]
      BY <2>3, <3>1 DEF Stored
    <3>3. old \in Ats /\ \A l \in Levels \ kind.stored : old[l] = Empty[l]
      BY <1>1, <2>3, RowFacts DEF RowsArePlaced, RowIsPlaced
    <3> HIDE DEF old
    <3>4. RowIsPlaced(at)
      BY <2>1, <3>3, SavedIsPlaced
    <3> HIDE DEF at
    <3>5. x.at = at /\ x.edited = TRUE
      BY <3>1
    <3>6. RowAgrees(x)'
      BY <2>1, <3>4, <3>5 DEF RowAgrees, RowIsPlaced
    <3> QED
      BY <1>1, <2>1, <3>2, <3>6, RowsAgreeAfterPut
  <2> QED
    BY <1>1, <1>5, <2>2, <2>3, ServeFacts
<1>6. ASSUME Saving PROVE RowsArePlaced' /\ StoredPlacesAgree'
  <2>1. ASSUME NEW i, Refuse(i) \/ Answered(i) \/ Lose(i) PROVE UNCHANGED <<rows, been, edit>>
    BY <2>1 DEF Refuse, Answered, Lose
  <2>2. ASSUME Press PROVE UNCHANGED <<rows, been, edit>>
    BY <2>2 DEF Press
  <2> QED
    BY <1>2, <1>5, <1>6, <2>1, <2>2 DEF Saving
<1>7. ASSUME NEW r \in 1..MaxRows, Others(r) PROVE RowsArePlaced' /\ StoredPlacesAgree'
  <2>1. r \in Stored /\ UNCHANGED <<kind, edit, trouble, been>>
    BY <1>7 DEF Others, history
  <2>2. CASE rows' = [rows EXCEPT ![r] = {}]
    <3>1. Stored' \subseteq Stored /\ \A s \in Stored' : Row(s)' = Row(s)
      BY <1>1, <2>2, RowTaken DEF Stored
    <3>2. RowsArePlaced'
      BY <1>1, <2>1, <3>1 DEF RowsArePlaced, RowIsPlaced
    <3>3. StoredPlacesAgree'
      BY <2>1, <3>1 DEF StoredPlacesAgree
    <3> QED
      BY <3>2, <3>3
  <2>3. CASE rows' = [rows EXCEPT ![r] = {[Row(r) EXCEPT !.at.rest = "theirs"]}]
    <3> DEFINE row == Row(r)
    <3>1. RowAgrees(row) /\ row.at \in Ats /\ row \in [at : Ats, by : 0..sessions, edited : BOOLEAN]
      BY <1>1, <2>1, RowFacts, RowsAgree
    <3>2. rows' = [rows EXCEPT ![r] = {[row EXCEPT !.at.rest = "theirs"]}]
      BY <2>3
    <3> HIDE DEF row
    <3>3. PICK x : x = [row EXCEPT !.at.rest = "theirs"]
      OBVIOUS
    <3>4. /\ x.edited = row.edited
          /\ x.at \in Ats /\ (\A l \in Levels : x.at[l] = row.at[l])
      BY <3>1, <3>3 DEF Ats, Levels
    <3>5. InPlace(been, row.at) => InPlace(been, x.at)
      BY <3>1, <3>4, InPlaceMeans DEF Levels
    <3>6. /\ SameProject(been, row.at) => SameProject(been, x.at)
          /\ EverWithin(been, x.at) = EverWithin(been, row.at) /\ x.at.cases = row.at.cases
      BY <3>4 DEF SameProject, EverWithin, Lies, Levels, Place
    <3>7. RowAgrees(x)'
      BY <2>1, <3>1, <3>4, <3>5, <3>6 DEF RowAgrees, RowIsPlaced
    <3> QED
      BY <1>1, <2>1, <3>3, <3>7, <3>2, RowsAgreeAfterPut
  <2> QED
    BY <1>7, <2>2, <2>3 DEF Others
<1>8. ASSUME NEW r \in 1..MaxRows, NEW e \in Epics, Rehang(r, e)
      PROVE  RowsArePlaced' /\ StoredPlacesAgree'
  <2> DEFINE row == Row(r)
  <2>1. /\ r \in Stored /\ UNCHANGED <<kind, edit, been>> /\ "rehung" \in trouble'
        /\ kind.rehangs /\ rows' = [rows EXCEPT ![r] = {[row EXCEPT !.at.epic = e]}]
    BY <1>1, <1>8, TroubleGrows DEF Rehang
  <2>2. RowAgrees(row) /\ row.at \in Ats /\ row \in [at : Ats, by : 0..sessions, edited : BOOLEAN]
    BY <1>1, <2>1, RowFacts, RowsAgree
  <2> HIDE DEF row
  <2>3. PICK x : x = [row EXCEPT !.at.epic = e]
    OBVIOUS
  <2>4. \A l \in Levels \ {"epic"} : x.at[l] = row.at[l]
    BY <2>2, <2>3 DEF Ats, Levels
  <2>5. "epic" \in kind.stored
    BY <1>1, <2>1, KindFacts DEF GoodForm
  <2>6. RowAgrees(x)'
    BY <2>1, <2>2, <2>4, <2>5 DEF RowAgrees, RowIsPlaced
  <2> QED
    BY <1>1, <2>1, <2>3, <2>6, RowsAgreeAfterPut
<1>9. ASSUME UNCHANGED vars PROVE RowsArePlaced' /\ StoredPlacesAgree'
  BY <1>2, <1>9 DEF vars
<1>10. ASSUME Meanwhile PROVE RowsArePlaced' /\ StoredPlacesAgree'
  <2>1. UNCHANGED <<rows, edit, kind, trouble>>
    BY <1>10 DEF Meanwhile, Move, Reread, Relist, history
  <2>2. Grown(been, been')
    BY DialogChanges
  <2>3. Stored' = Stored /\ \A r : Row(r)' = Row(r)
    BY <2>1, RowsStay
  <2>4. ASSUME NEW at \in Ats, RowIsPlaced(at) PROVE RowIsPlaced(at)'
    BY <2>1, <2>2, <2>4, PlacedForEver DEF RowIsPlaced
  <2>5. ASSUME NEW r \in Stored PROVE RowAgrees(Row(r))'
    <3>1. Row(r).at \in Ats /\ RowAgrees(Row(r))
      BY <1>1, <2>5, RowFacts, RowsAgree
    <3>2. EverWithin(been, Row(r).at) \subseteq EverWithin(been', Row(r).at)
      BY <2>2, WithinForEver
    <3>3. RowIsPlaced(Row(r).at)'
      BY <2>3, <2>4, <3>1 DEF RowAgrees
    <3> QED
      BY <2>1, <2>3, <3>1, <3>2, <3>3 DEF RowAgrees
  <2>6. edit # NoEdit /\ edit.phase = "cases" => RowIsPlaced(edit.row)'
    BY <1>1, <2>1, <2>4, EditFacts DEF RowsArePlaced
  <2>7. ASSUME NEW r \in Stored' PROVE RowAgrees(Row(r))'
    BY <2>3, <2>5
  <2>8. edit' # NoEdit /\ edit'.phase = "cases" => RowIsPlaced(edit.row)'
    BY <2>1, <2>6
  <2> QED
    BY <2>7, <2>8 DEF RowsArePlaced, StoredPlacesAgree, RowAgrees, RowIsPlaced
<1> QED
  BY <1>3, <1>4, <1>6, <1>7, <1>8, <1>9, <1>10 DEF Next, Elsewhere

\* So does every row of the list.
LEMMA NextLines ==
    ASSUME FormInv, [Next]_vars, RowsArePlaced'
    PROVE  LinesArePlaced'
<1>1. /\ TypeOK /\ WorldOK /\ UNCHANGED kind /\ trouble \subseteq trouble'
      /\ Grown(been, been')
  BY DialogChanges DEF FormInv
<1>2. ASSUME UNCHANGED listed PROVE LinesArePlaced'
  <2>1. Shown' = Shown /\ \A r : Line(r)' = Line(r)
    BY <1>2 DEF Shown, Line
  <2>2. ASSUME NEW r \in Shown PROVE RowIsPlaced(Line(r))'
    <3> DEFINE at == Line(r)
    <3>1. at \in Ats /\ RowIsPlaced(at)
      BY <1>1, <2>2, LineFacts DEF FormInv, LinesArePlaced
    <3> HIDE DEF at
    <3>2. /\ InPlace(been, at) => InPlace(been', at)
          /\ SameProject(been, at) => SameProject(been', at)
      BY <1>1, <3>1, PlacedForEver
    <3>3. Line(r)' = at
      BY <2>1 DEF at
    <3> QED
      BY <1>1, <3>1, <3>2, <3>3 DEF RowIsPlaced
  <2> QED
    BY <2>1, <2>2 DEF LinesArePlaced
<1>3. ASSUME Relist PROVE LinesArePlaced'
  <2>1. UNCHANGED rows /\ listed' = [r \in 1..MaxRows |-> {row.at : row \in rows[r]}]
    BY <1>3 DEF Relist
  <2>2. ASSUME NEW r \in Shown' PROVE r \in Stored' /\ Line(r)' = Row(r)'.at
    <3>1. r \in 1..MaxRows /\ rows[r] # {}
      BY <2>1, <2>2 DEF Shown
    <3>2. r \in Stored /\ rows[r] = {Row(r)}
      BY <1>1, <3>1, RowFacts DEF Stored
    <3>3. listed'[r] = {Row(r).at}
      BY <2>1, <3>1, <3>2
    <3> QED
      BY <2>1, <3>2, <3>3, RowsStay DEF Line
  <2> QED
    BY <2>2 DEF LinesArePlaced, RowsArePlaced, RowIsPlaced
<1>4. ~Relist => UNCHANGED listed
  BY <1>1, WorldStays DEF StillWorld, Meanwhile, Move, Reread
<1> QED
  BY <1>2, <1>3, <1>4

----------------------------------------------------------------------------
(* One row of a dialog *)

\* What becomes of the number of a dialog.
LEMMA DialogNumbers ==
    ASSUME TypeOK, [Next]_vars
    PROVE  \/ /\ sessions' = sessions
              /\ \/ form' = form
                 \/ form' = NoForm
                 \/ Open /\ form'.id = form.id /\ form'.session = form.session
                 \/ form'.id # 0 /\ form'.session = sessions
           \/ /\ sessions' = sessions + 1 /\ form'.id = 0 /\ form'.session = sessions'
              /\ UNCHANGED <<rows, calls, trouble>>
<1>1. ASSUME NEW p \in {None} \cup Projects, OpenNew(p)
      PROVE  /\ sessions' = sessions + 1 /\ form'.id = 0 /\ form'.session = sessions'
             /\ UNCHANGED <<rows, calls, trouble>>
  BY <1>1 DEF OpenNew, Opened
<1>2. ASSUME NEW r \in 1..MaxRows, OpenEdit(r)
      PROVE  sessions' = sessions /\ form'.id # 0 /\ form'.session = sessions
  <2>1. r # 0
    BY BoundsAssumption
  <2> QED
    BY <1>2, <2>1 DEF OpenEdit, Opened
<1>3. ASSUME NEW l \in Place, NEW v, Pick(l, v)
      PROVE  sessions' = sessions /\ Open /\ form'.id = form.id /\ form'.session = form.session
  <2> DEFINE at == PickedAt(l, v)
             touched == Touched({l} \cup kind.selects[l].clears)
  <2>1. Open /\ form \in FormSet /\ form' = [form EXCEPT !.at = at, !.touched = touched]
    BY <1>3, PickFacts
  <2> HIDE DEF at, touched
  <2>2. form'.id = form.id /\ form'.session = form.session
    BY <2>1 DEF FormSet
  <2> QED
    BY <1>3, <2>1, <2>2 DEF Pick, history
<1>4. ASSUME NEW cases \in SUBSET Cases, PickCases(cases)
      PROVE  sessions' = sessions /\ Open /\ form'.id = form.id /\ form'.session = form.session
  BY <1>4, PickCasesFacts DEF PickCases
<1>5. ASSUME Type
      PROVE  sessions' = sessions /\ Open /\ form'.id = form.id /\ form'.session = form.session
  <2>1. Open /\ form \in FormSet
    BY <1>5, OpenForm DEF Type
  <2> QED
    BY <1>5, <2>1 DEF Type, FormSet, history
<1>6. ASSUME EditShown
      PROVE  sessions' = sessions /\ form'.id # 0 /\ form'.session = sessions
  <2>1. edit.id # 0
    BY <1>6, EditFacts, BoundsAssumption DEF EditShown
  <2>2. sessions' = sessions /\ form'.id = edit.id /\ form'.session = sessions'
    BY <1>6, <2>1 DEF EditShown, Opened
  <2> QED
    BY <2>1, <2>2
<1>11. ASSUME LinkShown
       PROVE  sessions' = sessions /\ form'.id # 0 /\ form'.session = sessions
  <2>1. sessions' = sessions /\ edit.id # 0
    BY <1>11, LinkShownFacts
  <2>2. form'.id = edit.id /\ form'.session = sessions'
    BY <1>11 DEF LinkShown, Opened
  <2> QED
    BY <2>1, <2>2
<1>7. ASSUME Filling
      PROVE  \/ \E p \in {None} \cup Projects : OpenNew(p)
             \/ \E r \in 1..MaxRows : OpenEdit(r)
             \/ \E l \in Place : \E v : Pick(l, v)
             \/ \E cases \in SUBSET Cases : PickCases(cases)
             \/ Type
             \/ sessions' = sessions /\ (form' = form \/ form' = NoForm)
  BY <1>7 DEF Filling, AskEdit, Close, history
<1>8. ASSUME Loading, ~EditShown, ~LinkShown PROVE sessions' = sessions /\ form' = form
  BY <1>8 DEF Loading, EditLoaded, EditFailed, CasesArrive, CasesFail, history
<1>9. ASSUME Saving PROVE sessions' = sessions /\ (form' = form \/ form' = NoForm)
  BY <1>9 DEF Saving, Press, Serve, Refuse, Answered, Lose, history
<1>10. ASSUME Elsewhere \/ Meanwhile \/ UNCHANGED vars PROVE sessions' = sessions /\ form' = form
  BY <1>10 DEF Elsewhere, Others, Rehang, Meanwhile, Move, Reread, Relist, vars, history
<1> QED
  BY <1>1, <1>2, <1>3, <1>4, <1>5, <1>6, <1>7, <1>8, <1>9, <1>10, <1>11 DEF Next

\* Dialogs stay numbered, and patience is not regained.
LEMMA NextNumbers ==
    ASSUME FormInv, [Next]_vars
    PROVE  DialogsAreNumbered' /\ sessions <= sessions' /\ (Patient' => Patient)
<1>1. /\ TypeOK /\ DialogsAreNumbered /\ sessions \in Nat
      /\ UNCHANGED kind /\ trouble \subseteq trouble'
  BY DialogChanges DEF FormInv, SessionsAreOpen, TypeOK
<1>2. \/ /\ sessions' = sessions
         /\ \/ form' = form
            \/ form' = NoForm
            \/ Open /\ form'.id = form.id /\ form'.session = form.session
            \/ form'.id # 0 /\ form'.session = sessions
      \/ sessions' = sessions + 1 /\ form'.id = 0 /\ form'.session = sessions'
  BY <1>1, DialogNumbers
<1>3. sessions <= sessions' /\ sessions' \in Nat /\ 0..sessions \subseteq 0..sessions'
  BY <1>1, <1>2
<1>4. form' # NoForm /\ form'.id = 0 => form'.session = sessions' /\ sessions' > 0
  BY <1>1, <1>2 DEF DialogsAreNumbered, Open
<1>5. ASSUME form' # NoForm PROVE form'.session \in 0..sessions'
  BY <1>1, <1>2, <1>3, <1>5 DEF DialogsAreNumbered, Open, FormsAtWork
<1>6. ASSUME NEW i \in DOMAIN calls' PROVE calls'[i].form \in FormsAtWork
  BY <1>1, SavesCome DEF FormsAtWork, CanSave
<1>7. ASSUME NEW f \in FormsAtWork'
      PROVE  f.session \in 0..sessions' /\ (f.id = 0 => f.session > 0)
  <2>1. CASE f = form' /\ form' # NoForm
    BY <1>4, <1>5, <2>1
  <2>2. CASE f \in FormsAtWork
    BY <1>1, <1>3, <2>2 DEF DialogsAreNumbered
  <2>3. (f = form' /\ form' # NoForm) \/ \E i \in DOMAIN calls' : f = calls'[i].form
    BY DEF FormsAtWork, Open
  <2> QED
    BY <1>6, <2>1, <2>2, <2>3
<1>8. ASSUME kind.guarded PROVE Len(calls') <= 1
  <2>1. calls \in Seq(CallSet) /\ Len(calls) \in Nat /\ Len(calls) <= 1
    BY <1>1, <1>8 DEF TypeOK, DialogsAreNumbered
  <2>2. CASE \E i \in 1..MaxCalls : Serve(i) \/ Refuse(i)
    <3>1. PICK i \in 1..MaxCalls : Serve(i) \/ Refuse(i)
      BY <2>2
    <3>2. PICK answer \in {"none", "saved", "refused"} :
              i \in DOMAIN calls /\ calls' = [calls EXCEPT ![i].answer = answer]
      BY <3>1 DEF Serve, Refuse
    <3>3. Len(calls') = Len(calls)
      BY <1>1, <3>2, CallsAfterAnswer
    <3> QED
      BY <2>1, <3>3
  <2>3. CASE \E i \in 1..MaxCalls : Answered(i) \/ Lose(i)
    <3>1. PICK i \in 1..MaxCalls : Answered(i) \/ Lose(i)
      BY <2>3
    <3>2. i \in DOMAIN calls /\ calls' = RemoveAt(calls, i)
      BY <3>1 DEF Answered, Lose
    <3>3. Len(calls') = Len(calls) - 1
      BY <1>1, <3>2, CallsAfterRemoval
    <3> QED
      BY <2>1, <3>3
  <2>4. CASE Press
    <3>1. calls = <<>> /\ calls' = Append(calls, [form |-> form, answer |-> "none"])
      BY <1>8, <2>4 DEF Press, CanSave
    <3> QED
      BY <3>1
  <2>5. CASE Filling \/ Loading \/ Elsewhere \/ Meanwhile \/ UNCHANGED vars
    <3>1. UNCHANGED calls
      BY <2>5, CallsStay
    <3> QED
      BY <2>1, <3>1
  <2> QED
    BY <2>2, <2>3, <2>4, <2>5 DEF Next, Saving
<1>9. DialogsAreNumbered'
  BY <1>1, <1>4, <1>7, <1>8 DEF DialogsAreNumbered, Open
<1> QED
  BY <1>1, <1>3, <1>9 DEF Patient

\* What holds of a patient user, without the sets of saves.
Saves(i, session) == calls[i].form.id = 0 /\ calls[i].form.session = session

Singles ==
    /\ \A i, j \in DOMAIN calls :
           calls[i].form.id = 0 /\ Saves(j, calls[i].form.session) => i = j
    /\ NoRowBeforeItsSave
    /\ Open /\ form.id = 0 =>
           \/ \E i \in DOMAIN calls : Saves(i, form.session)
           \/ \A r \in Stored : Row(r).by # form.session
    /\ \A r, s \in Stored : Row(r).by = Row(s).by /\ Row(r).by # 0 => r = s

\* The invariant says so of a patient user, and is no more than that.
LEMMA PatientMeansSingles ==
    ASSUME FormInv, OneRowPerForm, Patient
    PROVE  Singles
<1>1. /\ OneSaveOfEach /\ NoRowBeforeItsSave /\ NoRowOfTheDialog
      /\ \A r, s \in Stored : Row(r).by = Row(s).by /\ Row(r).by # 0 => r = s
  BY DEF FormInv, SessionsAreOpen, OneRowPerForm
<1>2. ASSUME NEW i \in DOMAIN calls, NEW j \in DOMAIN calls,
             calls[i].form.id = 0, Saves(j, calls[i].form.session)
      PROVE  i = j
  <2> DEFINE n == calls[i].form.session
  <2>1. calls[i].form \in FormsAtWork
    BY DEF FormsAtWork
  <2>2. n \in 0..sessions /\ n > 0 /\ sessions \in Nat
    BY <1>2, <2>1 DEF FormInv, SessionsAreOpen, DialogsAreNumbered, TypeOK
  <2>3. n \in 1..sessions
    BY <2>2
  <2>4. {i, j} \subseteq SavesOf(n)
    BY <1>2 DEF SavesOf, Saves
  <2> QED
    BY <1>1, <2>3, <2>4 DEF OneSaveOfEach
<1>3. Open /\ form.id = 0 =>
          \/ \E i \in DOMAIN calls : Saves(i, form.session)
          \/ \A r \in Stored : Row(r).by # form.session
  BY <1>1 DEF NoRowOfTheDialog, SavesOf, Saves
<1> QED
  BY <1>1, <1>2, <1>3 DEF Singles

LEMMA SinglesMean ==
    ASSUME Singles
    PROVE  /\ OneSaveOfEach /\ NoRowBeforeItsSave /\ NoRowOfTheDialog
           /\ OneRowPerForm
<1>1. OneSaveOfEach
  BY DEF Singles, OneSaveOfEach, SavesOf, Saves
<1>2. NoRowOfTheDialog
  BY DEF Singles, NoRowOfTheDialog, SavesOf, Saves
<1> QED
  BY <1>1, <1>2 DEF Singles, OneRowPerForm

\* Rows that are taken away or changed, and dialogs that are closed or opened.
LEMMA QuietStepKeepsSingles ==
    ASSUME FormInv, Singles, UNCHANGED calls, [Next]_vars,
           \A r \in Stored' : r \in Stored /\ Row(r)'.by = Row(r).by
    PROVE  Singles'
<1>1. TypeOK
  BY DEF FormInv
<1>2. /\ \A i, j \in DOMAIN calls' :
             calls'[i].form.id = 0 /\ Saves(j, calls[i].form.session)' => i = j
      /\ NoRowBeforeItsSave'
      /\ \A r, s \in Stored' : Row(r)'.by = Row(s)'.by /\ Row(r)'.by # 0 => r = s
  BY DEF Singles, NoRowBeforeItsSave, Saves
<1>3. ASSUME Open', form'.id = 0
      PROVE  \/ \E i \in DOMAIN calls' : Saves(i, form.session)'
             \/ \A r \in Stored' : Row(r)'.by # form'.session
  <2>1. \/ form' = form
        \/ Open /\ form'.id = form.id /\ form'.session = form.session
        \/ form'.session = sessions + 1
    BY <1>1, <1>3, DialogNumbers DEF Open
  <2>2. CASE form'.session = sessions + 1
    <3>1. ASSUME NEW r \in Stored' PROVE Row(r)'.by # form'.session
      <4>1. Row(r).by \in 0..sessions /\ Row(r)'.by = Row(r).by
        BY <1>1, RowFacts
      <4> QED
        BY <1>1, <2>2, <4>1 DEF TypeOK
    <3> QED
      BY <3>1
  <2>3. CASE Open /\ form'.id = form.id /\ form'.session = form.session
    BY <1>3, <2>3 DEF Singles, Saves
  <2> QED
    BY <1>3, <2>1, <2>2, <2>3 DEF Open
<1> QED
  BY <1>2, <1>3 DEF Singles

\* Pressing the button again is not patient.
LEMMA PressKeepsSingles ==
    ASSUME FormInv, Singles, Press, Patient'
    PROVE  Singles'
<1> DEFINE x == [form |-> form, answer |-> "none"]
           n == Len(calls) + 1
<1>1. /\ TypeOK /\ Open /\ form \in FormSet /\ x \in CallSet
      /\ UNCHANGED <<kind, rows, form>> /\ calls' = Append(calls, x) /\ Len(calls) < MaxCalls
  BY OpenForm DEF Press, CanSave, FormInv, CallSet
<1>2. /\ calls'[n] = x /\ \A i \in DOMAIN calls : calls'[i] = calls[i]
      /\ DOMAIN calls' = DOMAIN calls \cup {n} /\ n \notin DOMAIN calls
  <2>1. calls \in Seq(CallSet)
    BY <1>1 DEF TypeOK
  <2> QED
    BY <1>1, <2>1, CallsAfterPress
<1> HIDE DEF n
<1>3. calls'[n].form = form /\ calls'[n].answer = "none"
  BY <1>2
<1>4. Stored' = Stored /\ \A r : Row(r)' = Row(r)
  BY <1>1, RowsStay
<1>5. ASSUME form.id = 0, NEW i \in DOMAIN calls PROVE ~Saves(i, form.session)
  <2> SUFFICES ASSUME Saves(i, form.session) PROVE FALSE
    OBVIOUS
  <2>1. "impatient" \in trouble'
    BY <1>1, <1>5, TroubleGrows DEF Press, Saves
  <2>2. kind.guarded
    BY <1>1, <2>1 DEF Patient
  <2>3. calls = <<>>
    BY <2>2 DEF Press, CanSave
  <2> QED
    BY <1>5, <2>3
<1>6. form.id = 0 => \A r \in Stored : Row(r).by # form.session
  BY <1>1, <1>5 DEF Singles
<1>7. ASSUME NEW i \in DOMAIN calls', NEW j \in DOMAIN calls',
             calls'[i].form.id = 0, Saves(j, calls[i].form.session)'
      PROVE  i = j
  <2>1. calls'[j].form.id = 0 /\ calls'[j].form.session = calls'[i].form.session
    BY <1>7 DEF Saves
  <2>2. CASE i = n
    BY <1>2, <1>3, <1>5, <1>7, <2>1, <2>2 DEF Saves
  <2>3. CASE j = n
    BY <1>2, <1>3, <1>5, <1>7, <2>1, <2>3 DEF Saves
  <2>4. CASE i # n /\ j # n
    BY <1>2, <1>7, <2>1, <2>4 DEF Singles, Saves
  <2> QED
    BY <2>2, <2>3, <2>4
<1>8. ASSUME NEW r \in Stored', NEW i \in DOMAIN calls',
             calls'[i].form.id = 0, calls'[i].answer # "saved"
      PROVE  Row(r)'.by # calls'[i].form.session
  <2>1. CASE i = n
    BY <1>3, <1>4, <1>6, <1>8, <2>1
  <2>2. CASE i # n
    BY <1>2, <1>4, <1>8, <2>2 DEF Singles, NoRowBeforeItsSave
  <2> QED
    BY <2>1, <2>2
<1>9. Open' /\ form'.id = 0 => \E i \in DOMAIN calls' : Saves(i, form.session)'
  BY <1>1, <1>2, <1>3 DEF Saves
<1> QED
  BY <1>4, <1>7, <1>8, <1>9 DEF Singles, NoRowBeforeItsSave

\* A save that makes a row is the only one of its dialog.
LEMMA ServeKeepsSingles ==
    ASSUME FormInv, Singles, NEW i, Serve(i)
    PROVE  Singles'
<1> DEFINE n == calls[i].form.session
<1>1. /\ TypeOK /\ i \in DOMAIN calls /\ calls[i].answer = "none"
      /\ calls' = [calls EXCEPT ![i].answer = "saved"] /\ UNCHANGED form
  BY ServeFacts DEF FormInv, Serve
<1>2. /\ DOMAIN calls' = DOMAIN calls /\ calls'[i].answer = "saved"
      /\ \A j \in DOMAIN calls : j # i => calls'[j] = calls[j]
      /\ \A j \in DOMAIN calls : calls'[j].form = calls[j].form
  BY <1>1, CallsAfterAnswer
<1>3. /\ \A j, k \in DOMAIN calls' :
             calls'[j].form.id = 0 /\ Saves(k, calls[j].form.session)' => j = k
      /\ \A session : \A j \in DOMAIN calls : Saves(j, session) => Saves(j, session)'
  BY <1>2 DEF Singles, Saves
<1>4. ASSUME NEW r \in (1..MaxRows) \ Stored, NEW x, rows' = [rows EXCEPT ![r] = {x}], x.by = n,
             calls[i].form.id = 0
      PROVE  Singles'
  <2>1. /\ Stored' = Stored \cup {r} /\ Row(r)'.by = n
        /\ \A s \in Stored : s # r /\ Row(s)' = Row(s)
    <3>1. r \in 1..MaxRows /\ r \notin Stored
      OBVIOUS
    <3>2. /\ Stored' = Stored \cup {r} /\ Row(r)' = x
          /\ \A s \in 1..MaxRows : s # r => Row(s)' = Row(s)
      BY <1>1, <1>4, <3>1, RowPut
    <3> QED
      BY <1>4, <3>1, <3>2 DEF Stored
  <2>2. \A s \in Stored : Row(s).by # n
    BY <1>1, <1>4 DEF Singles, NoRowBeforeItsSave
  <2>3. ASSUME NEW s \in Stored', NEW j \in DOMAIN calls',
               calls'[j].form.id = 0, calls'[j].answer # "saved"
        PROVE  Row(s)'.by # calls'[j].form.session
    <3>1. j \in DOMAIN calls /\ j # i /\ calls'[j] = calls[j]
      BY <1>2, <2>3
    <3>2. calls[j].form.session # n
      BY <1>1, <1>4, <2>3, <3>1 DEF Singles, Saves
    <3>3. s \in Stored => Row(s).by # calls[j].form.session
      BY <2>3, <3>1 DEF Singles, NoRowBeforeItsSave
    <3> QED
      BY <2>1, <3>1, <3>2, <3>3
  <2>4. ASSUME Open', form'.id = 0
        PROVE  \/ \E j \in DOMAIN calls' : Saves(j, form.session)'
               \/ \A s \in Stored' : Row(s)'.by # form'.session
    <3>1. Open /\ form.id = 0
      BY <1>1, <2>4 DEF Open
    <3>2. CASE \E j \in DOMAIN calls : Saves(j, form.session)
      BY <1>1, <1>2, <1>3, <3>2 DEF Saves
    <3>3. CASE ~\E j \in DOMAIN calls : Saves(j, form.session)
      <4>1. \A s \in Stored : Row(s).by # form.session
        BY <3>1, <3>3 DEF Singles
      <4>2. n # form.session
        BY <1>1, <1>4, <3>3 DEF Saves
      <4> QED
        BY <1>1, <2>1, <4>1, <4>2
    <3> QED
      BY <3>2, <3>3
  <2>5. \A s, t \in Stored' : Row(s)'.by = Row(t)'.by /\ Row(s)'.by # 0 => s = t
    BY <2>1, <2>2 DEF Singles
  <2> QED
    BY <1>3, <2>3, <2>4, <2>5 DEF Singles, NoRowBeforeItsSave
<1>5. ASSUME NEW r \in Stored, NEW x, rows' = [rows EXCEPT ![r] = {x}], x.by = Row(r).by
      PROVE  Singles'
  <2>1. Stored' = Stored /\ \A s \in Stored : Row(s)'.by = Row(s).by
    <3>1. /\ Stored' = Stored \cup {r} /\ Row(r)' = x
          /\ \A s \in 1..MaxRows : s # r => Row(s)' = Row(s)
      BY <1>1, <1>5, RowPut DEF Stored
    <3> QED
      BY <1>5, <3>1 DEF Stored
  <2>2. ASSUME NEW s \in Stored', NEW j \in DOMAIN calls',
               calls'[j].form.id = 0, calls'[j].answer # "saved"
        PROVE  Row(s)'.by # calls'[j].form.session
    BY <1>2, <2>1, <2>2 DEF Singles, NoRowBeforeItsSave
  <2>3. ASSUME Open', form'.id = 0
        PROVE  \/ \E j \in DOMAIN calls' : Saves(j, form.session)'
               \/ \A s \in Stored' : Row(s)'.by # form'.session
    BY <1>1, <1>2, <1>3, <2>1, <2>3 DEF Open, Singles, Saves
  <2> QED
    BY <1>3, <2>1, <2>2, <2>3 DEF Singles, NoRowBeforeItsSave
<1> DEFINE new == [at |-> Kept(calls[i].form.at, Empty), by |-> n, edited |-> FALSE]
           id == calls[i].form.id
           edited == [at |-> Kept(calls[i].form.at, Row(id).at), by |-> Row(id).by, edited |-> TRUE]
<1>6. new.by = n /\ edited.by = Row(id).by
  OBVIOUS
<1>7. \/ id = 0 /\ \E r \in (1..MaxRows) \ (Stored \cup gone) : rows' = [rows EXCEPT ![r] = {new}]
      \/ id \in Stored /\ rows' = [rows EXCEPT ![id] = {edited}]
  BY <1>1, ServeFacts
<1> HIDE DEF new, edited, n
<1>8. CASE id = 0 /\ \E r \in (1..MaxRows) \ (Stored \cup gone) : rows' = [rows EXCEPT ![r] = {new}]
  <2>1. PICK r \in (1..MaxRows) \ (Stored \cup gone) : rows' = [rows EXCEPT ![r] = {new}]
    BY <1>8
  <2> QED
    BY <1>4, <1>6, <1>8, <2>1
<1>9. CASE id \in Stored /\ rows' = [rows EXCEPT ![id] = {edited}]
  BY <1>5, <1>6, <1>9
<1> QED
  BY <1>7, <1>8, <1>9

\* A save that is refused makes no row.
LEMMA RefuseKeepsSingles ==
    ASSUME FormInv, Singles, NEW i, Refuse(i)
    PROVE  Singles'
<1>1. /\ TypeOK /\ i \in DOMAIN calls /\ calls[i].answer = "none"
      /\ calls' = [calls EXCEPT ![i].answer = "refused"] /\ UNCHANGED <<form, rows>>
  BY DEF FormInv, Refuse
<1>2. /\ DOMAIN calls' = DOMAIN calls
      /\ \A j \in DOMAIN calls : j # i => calls'[j] = calls[j]
      /\ \A j \in DOMAIN calls : calls'[j].form = calls[j].form
  BY <1>1, CallsAfterAnswer
<1>3. Stored' = Stored /\ \A r : Row(r)' = Row(r)
  BY <1>1, RowsStay
<1>4. NoRowBeforeItsSave'
  <2> SUFFICES ASSUME NEW s \in Stored', NEW j \in DOMAIN calls',
                      calls'[j].form.id = 0, calls'[j].answer # "saved"
               PROVE  Row(s)'.by # calls'[j].form.session
    BY DEF NoRowBeforeItsSave
  <2>1. calls[j].answer # "saved"
    BY <1>1, <1>2
  <2> QED
    BY <1>2, <1>3, <2>1 DEF Singles, NoRowBeforeItsSave
<1> QED
  BY <1>1, <1>2, <1>3, <1>4 DEF Singles, Saves, Open

\* A save that is done with, and the dialog stays only if it made no row.
LEMMA RemovalKeepsSingles ==
    ASSUME FormInv, Singles, NEW i \in DOMAIN calls, calls' = RemoveAt(calls, i),
           UNCHANGED rows,
           form' = NoForm \/ (form' = form /\ calls[i].answer # "saved")
    PROVE  Singles'
<1>1. /\ \A j \in DOMAIN calls' : \E k \in DOMAIN calls \ {i} : calls'[j] = calls[k]
      /\ \A k \in DOMAIN calls \ {i} : \E j \in DOMAIN calls' : calls'[j] = calls[k]
      /\ \A j, l \in DOMAIN calls' : \E k, m \in DOMAIN calls \ {i} :
             calls'[j] = calls[k] /\ calls'[l] = calls[m] /\ (k = m => j = l)
  BY CallsAfterRemoval DEF FormInv
<1>2. Stored' = Stored /\ \A r : Row(r)' = Row(r)
  BY RowsStay
<1>3. ASSUME NEW j \in DOMAIN calls', NEW l \in DOMAIN calls',
             calls'[j].form.id = 0, Saves(l, calls[j].form.session)'
      PROVE  j = l
  <2>1. calls'[l].form.id = 0 /\ calls'[l].form.session = calls'[j].form.session
    BY <1>3 DEF Saves
  <2>2. PICK k, m \in DOMAIN calls \ {i} :
            calls'[j] = calls[k] /\ calls'[l] = calls[m] /\ (k = m => j = l)
    BY <1>1
  <2>3. k = m
    BY <1>3, <2>1, <2>2 DEF Singles, Saves
  <2> QED
    BY <2>2, <2>3
<1>4. NoRowBeforeItsSave'
  <2> SUFFICES ASSUME NEW s \in Stored', NEW j \in DOMAIN calls',
                      calls'[j].form.id = 0, calls'[j].answer # "saved"
               PROVE  Row(s)'.by # calls'[j].form.session
    BY DEF NoRowBeforeItsSave
  <2>1. PICK k \in DOMAIN calls \ {i} : calls'[j] = calls[k]
    BY <1>1
  <2> QED
    BY <1>2, <2>1 DEF Singles, NoRowBeforeItsSave
<1>5. ASSUME Open', form'.id = 0
      PROVE  \/ \E j \in DOMAIN calls' : Saves(j, form.session)'
             \/ \A r \in Stored' : Row(r)'.by # form'.session
  <2>1. form' = form /\ Open /\ form.id = 0 /\ calls[i].answer # "saved"
    BY <1>5 DEF Open
  <2>2. CASE \E k \in DOMAIN calls \ {i} : Saves(k, form.session)
    <3>1. PICK k \in DOMAIN calls \ {i} : Saves(k, form.session)
      BY <2>2
    <3>2. PICK j \in DOMAIN calls' : calls'[j] = calls[k]
      BY <1>1
    <3> QED
      BY <2>1, <3>1, <3>2 DEF Saves
  <2>3. CASE Saves(i, form.session)
    BY <1>2, <2>1, <2>3 DEF Singles, NoRowBeforeItsSave, Saves
  <2>4. CASE ~\E k \in DOMAIN calls : Saves(k, form.session)
    BY <1>2, <2>1, <2>4 DEF Singles
  <2> QED
    BY <2>2, <2>3, <2>4
<1>6. \A r, s \in Stored' : Row(r)'.by = Row(s)'.by /\ Row(r)'.by # 0 => r = s
  BY <1>2 DEF Singles
<1> QED
  BY <1>3, <1>4, <1>5, <1>6 DEF Singles

\* One row, one save, every step.
LEMMA NextSingles ==
    ASSUME FormInv, Singles, [Next]_vars, Patient'
    PROVE  Singles'
<1>1. TypeOK
  BY DEF FormInv
<1>2. ASSUME UNCHANGED <<calls, rows>> PROVE Singles'
  BY <1>2, RowsStay, QuietStepKeepsSingles
<1>3. ASSUME NEW r \in Stored, NEW x, x.by = Row(r).by, rows' = [rows EXCEPT ![r] = {x}],
             UNCHANGED calls
      PROVE  Singles'
  <2>1. r \in 1..MaxRows
    BY DEF Stored
  <2>2. Row(r)'.by = Row(r).by
    BY <1>1, <1>3, <2>1, RowPut
  <2>3. ASSUME NEW s \in Stored' PROVE s \in Stored /\ Row(s)'.by = Row(s).by
    <3>1. s = r \/ (s # r /\ s \in Stored /\ Row(s)' = Row(s))
      BY <1>1, <1>3, <2>1, RowPut DEF Stored
    <3> QED
      BY <2>2, <3>1
  <2> QED
    BY <1>3, <2>3, QuietStepKeepsSingles
<1>4. ASSUME NEW r \in 1..MaxRows, Others(r) PROVE Singles'
  <2> DEFINE x == [Row(r) EXCEPT !.at.rest = "theirs"]
  <2>1. /\ r \in Stored /\ UNCHANGED calls
        /\ rows' = [rows EXCEPT ![r] = {}] \/ rows' = [rows EXCEPT ![r] = {x}]
    BY <1>4 DEF Others
  <2>2. x.by = Row(r).by
    BY <1>1, <2>1, RowFacts
  <2> HIDE DEF x
  <2>3. CASE rows' = [rows EXCEPT ![r] = {}]
    <3>1. \A s \in Stored' : s \in Stored /\ Row(s)'.by = Row(s).by
      BY <1>1, <2>3, RowTaken DEF Stored
    <3> QED
      BY <2>1, <3>1, QuietStepKeepsSingles
  <2>4. CASE rows' = [rows EXCEPT ![r] = {x}]
    BY <1>3, <2>1, <2>2, <2>4
  <2> QED
    BY <2>1, <2>3, <2>4
<1>5. ASSUME NEW r \in 1..MaxRows, NEW e \in Epics, Rehang(r, e) PROVE Singles'
  <2> DEFINE x == [Row(r) EXCEPT !.at.epic = e]
  <2>1. r \in Stored /\ UNCHANGED calls /\ rows' = [rows EXCEPT ![r] = {x}]
    BY <1>5 DEF Rehang
  <2>2. x.by = Row(r).by
    BY <1>1, <2>1, RowFacts
  <2> HIDE DEF x
  <2> QED
    BY <1>3, <2>1, <2>2
<1>6. ASSUME Press PROVE Singles'
  BY <1>6, PressKeepsSingles
<1>7. ASSUME NEW i, Serve(i) PROVE Singles'
  BY <1>7, ServeKeepsSingles
<1>8. ASSUME NEW i, Refuse(i) PROVE Singles'
  BY <1>8, RefuseKeepsSingles
<1>9. ASSUME NEW i, Answered(i) PROVE Singles'
  <2>1. /\ i \in DOMAIN calls /\ calls' = RemoveAt(calls, i) /\ UNCHANGED rows
        /\ form' = NoForm \/ (form' = form /\ calls[i].answer # "saved")
    BY <1>9 DEF Answered
  <2> QED
    BY <2>1, RemovalKeepsSingles
<1>10. ASSUME NEW i, Lose(i) PROVE Singles'
  <2>1. /\ i \in DOMAIN calls /\ calls' = RemoveAt(calls, i) /\ UNCHANGED <<rows, form>>
        /\ Trouble("doubtful", calls[i].answer = "saved")
    BY <1>10 DEF Lose
  <2>2. calls[i].answer # "saved"
    BY <1>1, <2>1, TroubleGrows DEF Patient
  <2> QED
    BY <2>1, <2>2, RemovalKeepsSingles
<1>11. ASSUME Filling \/ Loading \/ Meanwhile \/ UNCHANGED vars PROVE UNCHANGED <<calls, rows>>
  BY <1>11 DEF Filling, Loading, vars, OpenNew, OpenEdit, AskEdit, Pick, PickCases,
               Type, Close, LinkShown, EditLoaded, EditShown, EditFailed, CasesArrive, CasesFail,
               Meanwhile, Move, Reread, Relist
<1>12. CASE Elsewhere
  BY <1>4, <1>5, <1>12 DEF Elsewhere
<1>13. CASE Saving
  BY <1>6, <1>7, <1>8, <1>9, <1>10, <1>13 DEF Saving
<1> QED
  BY <1>2, <1>11, <1>12, <1>13 DEF Next

----------------------------------------------------------------------------
(* What an edit stores *)

\* The step that stores an edit, and what the save of it holds.
LEMMA ServedIsChosen ==
    ASSUME FormInv, NEW i, Serve(i), calls[i].form.id # 0,
           Row(calls[i].form.id).at = calls[i].form.base, ~calls[i].form.cropped,
           NEW l \in (kind.stored \cap Levels) \cup {"rest"}
    PROVE  Row(calls[i].form.id)'.at[l] =
               IF l \in calls[i].form.touched THEN calls[i].form.at[l] ELSE calls[i].form.base[l]
<1> DEFINE f == calls[i].form
           kept == Kept(f.at, Row(f.id).at)
           x == [at |-> kept, by |-> Row(f.id).by, edited |-> TRUE]
<1>1. /\ TypeOK /\ i \in DOMAIN calls /\ f.id \in Stored /\ rows' = [rows EXCEPT ![f.id] = {x}]
  BY ServeFacts DEF FormInv
<1>2. f.at \in Ats /\ Row(f.id).at \in Ats
  BY <1>1, SaveFacts, RowFacts
<1>3. Row(calls[i].form.id)' = x
  <2>1. PICK id \in 1..MaxRows : id = f.id
    BY <1>1, RowFacts
  <2>2. calls'[i].form.id = id
    BY <1>1, <2>1, ServeFacts, CallsAfterAnswer
  <2> HIDE DEF x, f
  <2>3. Row(id)' = x
    BY <1>1, <2>1, RowPut
  <2> QED
    BY <2>2, <2>3
<1>4. Row(calls[i].form.id)'.at = kept
  BY <1>3
<1>5. kept[l] = f.at[l]
  BY <1>1, <1>2, KeptFacts
<1>6. f \in FormsAtWork /\ IsAsLoaded(f)
  BY <1>1 DEF FormsAtWork, FormInv, UntouchedIsAsLoaded
<1>7. l \notin f.touched => f.at[l] = f.base[l] \/ (l \in kind.dropped /\ f.at[l] = Empty[l])
  BY <1>6 DEF IsAsLoaded
<1>8. ~(l \in kind.dropped /\ f.at[l] = Empty[l])
  <2> SUFFICES ASSUME l \in kind.dropped PROVE f.at[l] # Empty[l]
    OBVIOUS
  <2>1. l \in kind.needs \cap Levels
    BY <1>1, KindFacts DEF GoodForm
  <2>2. f.at[l] \notin {None, {}}
    BY <1>1, <2>1 DEF FormInv, SavesAreFilled
  <2>3. Empty[l] \in {None, {}}
    BY <2>1, EmptyFacts DEF Levels
  <2> QED
    BY <2>2, <2>3
<1> QED
  BY <1>4, <1>5, <1>7, <1>8

\* Only the server answers that a save has worked.
LEMMA OnlyServeSaves ==
    ASSUME TypeOK, [Next]_vars, NEW i \in DOMAIN calls, calls[i].answer = "none",
           Len(calls') = Len(calls), calls'[i].answer = "saved"
    PROVE  Serve(i)
<1>1. calls \in Seq(CallSet) /\ Len(calls) \in Nat
  BY DEF TypeOK
<1>2. ~UNCHANGED calls
  OBVIOUS
<1>3. ASSUME NEW j, Serve(j) PROVE j = i
  <2>1. j \in DOMAIN calls /\ calls' = [calls EXCEPT ![j].answer = "saved"]
    BY <1>3 DEF Serve
  <2>2. j # i => calls'[i] = calls[i]
    BY <2>1, CallsAfterAnswer
  <2> QED
    BY <2>2
<1>4. ASSUME NEW j PROVE ~Refuse(j)
  <2> SUFFICES ASSUME Refuse(j) PROVE FALSE
    OBVIOUS
  <2>1. j \in DOMAIN calls /\ calls' = [calls EXCEPT ![j].answer = "refused"]
    BY DEF Refuse
  <2>2. calls'[j].answer = "refused" /\ (j # i => calls'[i] = calls[i])
    BY <2>1, CallsAfterAnswer
  <2> QED
    BY <2>2
<1>5. ASSUME NEW j PROVE ~Answered(j) /\ ~Lose(j)
  <2> SUFFICES ASSUME j \in DOMAIN calls, calls' = RemoveAt(calls, j) PROVE FALSE
    BY DEF Answered, Lose
  <2> QED
    BY <1>1, CallsAfterRemoval
<1>6. ~Press
  <2> SUFFICES ASSUME calls' = Append(calls, [form |-> form, answer |-> "none"]) PROVE FALSE
    BY DEF Press
  <2> QED
    BY <1>1
<1>7. ASSUME Filling \/ Loading \/ Elsewhere \/ Meanwhile \/ UNCHANGED vars PROVE UNCHANGED calls
  BY <1>7, CallsStay
<1> QED
  BY <1>2, <1>3, <1>4, <1>5, <1>6, <1>7 DEF Next, Saving

----------------------------------------------------------------------------
(* At first *)

\* The row that may be there at first.
LEMMA InitRow ==
    ASSUME Init
    PROVE  /\ Stored \subseteq {1} /\ TypeOK
           /\ \A r \in Stored : /\ Row(r).at \in FirstRows
                                /\ Row(r).by = 0 /\ Row(r).edited = TRUE
<1>1. PICK first \in {{}} \cup {{[at |-> at, by |-> 0, edited |-> TRUE]} : at \in FirstRows} :
          rows = [r \in 1..MaxRows |-> IF r = 1 THEN first ELSE {}]
  BY DEF Init
<1>2. MaxRows \in Nat /\ 1 \in 1..MaxRows
  BY BoundsAssumption
<1>3. FirstRows \subseteq Ats
  BY DEF FirstRows, Ats
<1>4. /\ Stored \subseteq {1}
      /\ \A r \in Stored : rows[r] = first /\ first # {}
  BY <1>1, <1>2 DEF Stored
<1>5. ASSUME NEW r \in Stored
      PROVE  /\ Row(r).at \in FirstRows /\ Row(r).by = 0 /\ Row(r).edited = TRUE
             /\ rows[r] = {Row(r)}
  <2>1. PICK at \in FirstRows : rows[r] = {[at |-> at, by |-> 0, edited |-> TRUE]}
    BY <1>1, <1>4, <1>5
  <2>2. Row(r) = [at |-> at, by |-> 0, edited |-> TRUE]
    BY <2>1 DEF Row
  <2> QED
    BY <2>1, <2>2
<1>6. rows \in [1..MaxRows -> SUBSET [at : Ats, by : 0..0, edited : BOOLEAN]]
  <2>1. first \subseteq [at : Ats, by : 0..0, edited : BOOLEAN]
    <3>1. CASE first = {}
      BY <3>1
    <3>2. CASE \E at \in FirstRows : first = {[at |-> at, by |-> 0, edited |-> TRUE]}
      BY <1>3, <3>2
    <3> QED
      BY <1>1, <3>1, <3>2
  <2> QED
    BY <1>1, <2>1
<1>7. kind \in AllForms /\ active \subseteq Projects
  BY FirstAssumption DEF Init
<1>8. /\ form \in {NoForm} \cup FormSet /\ options \subseteq Cases
      /\ edit = NoEdit /\ sessions = 0
  BY DEF Init
<1>9. /\ asks \in Seq(Places) /\ Len(asks) <= MaxAsks
      /\ calls \in Seq(CallSet) /\ Len(calls) <= MaxCalls
  <2>1. asks = <<>> /\ calls = <<>>
    BY DEF Init
  <2> QED
    BY <2>1, BoundsAssumption
<1>10. /\ trouble = {} /\ choices \in 0..MaxChoices /\ clicks \in 0..MaxClicks
       /\ mishaps \in 0..MaxMishaps /\ sessions \in 0..clicks
  BY BoundsAssumption DEF Init
<1>11. TypeOK
  BY <1>5, <1>6, <1>7, <1>8, <1>9, <1>10 DEF TypeOK
<1> QED
  BY <1>4, <1>5, <1>11

\* What the steps keep together.
IInv == FormInv /\ StoredPlacesAgree /\ OneRowPerForm

\* It holds at first.
LEMMA InitIInv == Init => IInv
<1> SUFFICES ASSUME Init PROVE IInv
  OBVIOUS
<1>1. /\ Stored \subseteq {1} /\ TypeOK
      /\ \A r \in Stored : Row(r).at \in FirstRows /\ Row(r).by = 0 /\ Row(r).edited = TRUE
  BY InitRow
<1>2. ~Open /\ edit = NoEdit /\ calls = <<>> /\ asks = <<>> /\ sessions = 0
  BY DEF Init, Open
<1>3. DOMAIN calls = {} /\ FormsAtWork = {}
  BY <1>2 DEF FormsAtWork
<1>4. ASSUME NEW r \in Stored PROVE RowIsPlaced(Row(r).at)
  BY <1>1 DEF RowIsPlaced, FirstRows
<1>5. FormsArePlaced /\ ListIsOfThePlace /\ SavesAreFilled /\ UntouchedIsAsLoaded
  BY <1>2, <1>3 DEF FormsArePlaced, ListIsOfThePlace, SavesAreFilled, UntouchedIsAsLoaded
<1>6. RowsArePlaced /\ StoredPlacesAgree
  BY <1>1, <1>2, <1>4 DEF RowsArePlaced, StoredPlacesAgree, RowIsPlaced
<1>7. DialogsAreNumbered
  BY <1>2, <1>3 DEF DialogsAreNumbered
<1>8. Singles
  BY <1>1, <1>2, <1>3 DEF Singles, NoRowBeforeItsSave
<1>9. ASSUME NEW r \in Shown PROVE r \in Stored /\ Line(r) = Row(r).at /\ listed[r] = {Line(r)}
  <2>1. r \in 1..MaxRows /\ listed[r] = {row.at : row \in rows[r]} /\ listed[r] # {}
    BY <1>9 DEF Init, Shown
  <2>2. r \in Stored
    BY <2>1 DEF Stored
  <2>3. rows[r] = {Row(r)}
    BY <1>1, <2>2, RowFacts
  <2>4. listed[r] = {Row(r).at}
    BY <2>1, <2>3
  <2> QED
    BY <2>2, <2>4 DEF Line
<1>10. LinesArePlaced
  BY <1>4, <1>9 DEF LinesArePlaced
<1>11. WorldOK
  <2>1. /\ tree = FirstTree /\ known = [x \in Epics \cup Stories |-> tree[x]]
        /\ been = [x \in Things |-> {tree[x]}] /\ gone = {}
        /\ listed = [r \in 1..MaxRows |-> {row.at : row \in rows[r]}]
    BY DEF Init
  <2>2. /\ DOMAIN tree = Things /\ DOMAIN been = Things /\ DOMAIN known = Epics \cup Stories
        /\ \A x \in Things : been[x] \subseteq Homes(x) /\ tree[x] \in been[x]
    BY <2>1, FirstAssumption
  <2>3. \A x \in Epics \cup Stories : known[x] \in been[x]
    BY <2>1 DEF Things
  <2>4. ASSUME NEW r \in 1..MaxRows PROVE listed[r] \subseteq Ats
    <3>1. rows[r] \subseteq [at : Ats, by : 0..sessions, edited : BOOLEAN]
      BY <1>1 DEF TypeOK
    <3> QED
      BY <2>1, <3>1
  <2> QED
    BY <1>9, <2>1, <2>2, <2>3, <2>4 DEF WorldOK
<1> QED
  BY <1>1, <1>5, <1>6, <1>7, <1>8, <1>10, <1>11, SinglesMean DEF IInv, FormInv, SessionsAreOpen

----------------------------------------------------------------------------
(* Every step *)

\* Every step keeps it.
LEMMA NextIInv == IInv /\ [Next]_vars => IInv'
<1> SUFFICES ASSUME IInv, [Next]_vars PROVE IInv'
  OBVIOUS
<1>1. FormInv /\ StoredPlacesAgree /\ OneRowPerForm /\ TypeOK /\ WorldOK /\ DialogsAreNumbered
  BY DEF IInv, FormInv, SessionsAreOpen
<1>2. TypeOK' /\ WorldOK'
  BY <1>1, NextType, NextWorld DEF DialogsAreNumbered
<1>3. FormsArePlaced' /\ UntouchedIsAsLoaded' /\ SavesAreFilled'
  BY <1>1, NextForms
<1>4. ListIsOfThePlace'
  BY <1>1, NextList
<1>5. RowsArePlaced' /\ StoredPlacesAgree' /\ LinesArePlaced'
  BY <1>1, NextRows, NextLines
<1>6. DialogsAreNumbered' /\ (Patient' => Patient)
  BY <1>1, NextNumbers
<1>7. ASSUME Patient'
      PROVE  OneSaveOfEach' /\ NoRowBeforeItsSave' /\ NoRowOfTheDialog' /\ OneRowPerForm'
  <2>1. Singles
    BY <1>1, <1>6, <1>7, PatientMeansSingles
  <2>2. Singles'
    BY <1>1, <1>7, <2>1, NextSingles
  <2>3. Singles' => OneSaveOfEach' /\ NoRowBeforeItsSave' /\ NoRowOfTheDialog' /\ OneRowPerForm'
    BY SinglesMean, PTL
  <2> QED
    BY <2>2, <2>3
<1>8. OneRowPerForm'
  BY <1>7 DEF OneRowPerForm
<1>9. SessionsAreOpen'
  BY <1>6, <1>7 DEF SessionsAreOpen
<1> QED
  BY <1>2, <1>3, <1>4, <1>5, <1>8, <1>9 DEF IInv, FormInv

\* The step of the property is the one of the server.
LEMMA NextEdits ==
    ASSUME FormInv, [Next]_vars, NEW i \in DOMAIN calls,
           calls[i].answer = "none", Len(calls') = Len(calls), calls'[i].answer = "saved",
           calls[i].form.id # 0, Row(calls[i].form.id).at = calls[i].form.base,
           ~calls[i].form.cropped,
           NEW l \in (kind.stored \cap Levels) \cup {"rest"}
    PROVE  Row(calls[i].form.id)'.at[l] =
               IF l \in calls[i].form.touched THEN calls[i].form.at[l] ELSE calls[i].form.base[l]
<1>1. Serve(i)
  BY OnlyServeSaves DEF FormInv
<1> QED
  BY <1>1, ServedIsChosen

----------------------------------------------------------------------------
(* Theorems *)

\* So it holds always.
LEMMA Always == Spec => []IInv
BY InitIInv, NextIInv, PTL DEF Spec

\* What is shown, asked for, saved and stored hangs together at every moment,
\* in every form of the pages, while epics, stories and cases are moved.
THEOREM FormsAreSound == Spec => []FormInv
<1>1. IInv => FormInv
  BY DEF IInv
<1> QED
  BY <1>1, Always, PTL

\* The project, the epic, the user story and the test cases of a stored row
\* agree, or have agreed before somebody moved one of them, whatever was chosen,
\* in whatever order lists and answers came and things were moved.
THEOREM PlacesAgree == Spec => []StoredPlacesAgree
<1>1. IInv => StoredPlacesAgree
  BY DEF IInv
<1> QED
  BY <1>1, Always, PTL

\* A dialog makes one row at most, for a user who waits for the answer.
THEOREM RowsAreSingle == Spec => []OneRowPerForm
<1>1. IInv => OneRowPerForm
  BY DEF IInv
<1> QED
  BY <1>1, Always, PTL

\* An edit stores what was chosen in the form and leaves the rest of the row.
THEOREM EditsAreFaithful == Spec => EditsStoreWhatWasChosen
<1>1. IInv => FormInv
  BY DEF IInv
<1>2. FormInv /\ [Next]_vars =>
          [\A i \in DOMAIN calls :
              LET f == calls[i].form IN
              /\ calls[i].answer = "none" /\ Len(calls') = Len(calls) /\ calls'[i].answer = "saved"
              /\ f.id # 0 /\ Row(f.id).at = f.base /\ ~f.cropped
              => \A l \in (kind.stored \cap Levels) \cup {"rest"} :
                     Row(f.id)'.at[l] = IF l \in f.touched THEN f.at[l] ELSE f.base[l]]_vars
  BY NextEdits
<1> QED
  BY <1>1, <1>2, Always, PTL DEF Spec, EditsStoreWhatWasChosen
=============================================================================
