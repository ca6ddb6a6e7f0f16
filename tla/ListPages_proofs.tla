-------------------------- MODULE ListPages_proofs --------------------------
(***************************************************************************)
(* Proofs about module ListPages, for any number of rows, any size of the  *)
(* page and any number of requests under way: the list is the answer to    *)
(* the query on the screen, and nobody is stranded behind the last page.   *)
(***************************************************************************)
EXTENDS ListPages, FiniteSetTheorems, SequenceTheorems, WellFoundedInduction, TLAPS

Effects == {"add", "touch", "remove"}
Fetch == [q : Queries, answer : Answers]

----------------------------------------------------------------------------
(* The tables *)

\* What a table has to be like: each filter is sent and is a dependency of
\* the fetch, the server applies all but the type of the test cases, and bulk
\* buttons send requests of the known kinds.
GoodTable(p) ==
    /\ \A f \in DOMAIN p.filters : f \in p.query.heard <=> f # "filterType"
    /\ DOMAIN p.filters \subseteq p.query.sent
    /\ DOMAIN p.filters \subseteq p.query.deps
    /\ "paginationModel" \in p.query.sent => "paginationModel" \in p.query.deps
    /\ \A b \in DOMAIN p.bulk : p.bulk[b] \in Seq(Effects)

LEMMA ListingIsGood ==
    ASSUME NEW filters, NEW auto, NEW actions, NEW bulk,
           "filterType" \notin DOMAIN filters,
           \A b \in DOMAIN bulk : bulk[b] \in Seq(Effects)
    PROVE  GoodTable(Page(filters, Listing(DOMAIN filters, auto), actions, bulk))
BY DEF GoodTable, Page, Listing

\* No list but that of the test cases has a filter of this name.
LEMMA OnlyTestCasesHaveTypes ==
    \A filters \in {DefectsFilters, TestSuitesFilters, TestRunsFilters, EpicsFilters,
                    StoriesFilters, UsersFilters, ProjectsFilters, AuditFilters} :
        "filterType" \notin DOMAIN filters
<1>1. /\ "filterType" \notin DOMAIN DefectsFilters
      /\ "filterType" \notin DOMAIN TestSuitesFilters
      /\ "filterType" \notin DOMAIN EpicsFilters
      /\ "filterType" \notin DOMAIN StoriesFilters
      /\ "filterType" \notin DOMAIN ProjectsFilters
  BY DEF DefectsFilters, TestSuitesFilters, EpicsFilters, StoriesFilters,
         ProjectsFilters, Fields
<1>2. /\ "filterType" \notin DOMAIN TestRunsFilters
      /\ "filterType" \notin DOMAIN UsersFilters
      /\ "filterType" \notin DOMAIN AuditFilters
  BY DEF TestRunsFilters, UsersFilters, AuditFilters
<1> QED
  BY <1>1, <1>2

LEMMA RequestLists ==
    /\ <<"remove">> \in Seq(Effects)
    /\ <<"touch">> \in Seq(Effects)
    /\ <<"touch", "touch", "touch">> \in Seq(Effects)
BY DEF Effects

LEMMA TablesAreGood == \A p \in Pages : GoodTable(p)
<1>1. GoodTable(DefectsPage)
  <2>1. \A b \in DefectsBulkBar : DefectsBulk[b] \in Seq(Effects)
    <3>1. /\ DefectsBulk.update \in Seq(Effects)
          /\ DefectsBulk.delete \in Seq(Effects)
      BY RequestLists DEF DefectsBulk
    <3> QED
      BY <3>1 DEF DefectsBulkBar
  <2> QED
    BY <2>1, ListingIsGood, OnlyTestCasesHaveTypes DEF DefectsPage, DefectsQuery
<1>2. GoodTable(TestCasesPage)
  <2>1. \A b \in TestCasesBulkBar : TestCasesBulk[b] \in Seq(Effects)
    <3>1. /\ TestCasesBulk.update \in Seq(Effects)
          /\ TestCasesBulk.delete \in Seq(Effects)
      BY RequestLists DEF TestCasesBulk
    <3> QED
      BY <3>1 DEF TestCasesBulkBar
  <2>2. /\ TestCasesQuery.sent = DOMAIN TestCasesFilters \cup {"paginationModel"}
        /\ TestCasesQuery.deps = DOMAIN TestCasesFilters \cup {"paginationModel"}
        /\ TestCasesQuery.heard = DOMAIN TestCasesFilters \ {"filterType"}
    BY DEF TestCasesQuery, Listing, TestCasesUnheard
  <2>3. /\ TestCasesPage.filters = TestCasesFilters
        /\ TestCasesPage.query = TestCasesQuery
        /\ TestCasesPage.bulk = [b \in TestCasesBulkBar |-> TestCasesBulk[b]]
    BY DEF TestCasesPage, Page
  <2> QED
    BY <2>1, <2>2, <2>3 DEF GoodTable
<1>3. GoodTable(TestSuitesPage)
  <2>1. \A b \in TestSuitesBulkBar : TestSuitesBulk[b] \in Seq(Effects)
    <3>1. /\ TestSuitesBulk.activate \in Seq(Effects)
          /\ TestSuitesBulk.deactivate \in Seq(Effects)
          /\ TestSuitesBulk.delete \in Seq(Effects)
      BY RequestLists DEF TestSuitesBulk
    <3> QED
      BY <3>1 DEF TestSuitesBulkBar
  <2> QED
    BY <2>1, ListingIsGood, OnlyTestCasesHaveTypes DEF TestSuitesPage, TestSuitesQuery
<1>4. GoodTable(TestRunsPage)
  <2>1. \A b \in TestRunsBulkBar : TestRunsBulk[b] \in Seq(Effects)
    <3>1. /\ TestRunsBulk.cancel \in Seq(Effects)
          /\ TestRunsBulk.delete \in Seq(Effects)
      BY RequestLists DEF TestRunsBulk
    <3> QED
      BY <3>1 DEF TestRunsBulkBar
  <2> QED
    BY <2>1, ListingIsGood, OnlyTestCasesHaveTypes DEF TestRunsPage, TestRunsQuery
<1>5. GoodTable(StoriesTab)
  <2>1. \A b \in StoriesBulkBar : StoriesBulk[b] \in Seq(Effects)
    <3>1. /\ StoriesBulk.update \in Seq(Effects)
          /\ StoriesBulk.delete \in Seq(Effects)
      BY RequestLists DEF StoriesBulk
    <3> QED
      BY <3>1 DEF StoriesBulkBar
  <2> QED
    BY <2>1, ListingIsGood, OnlyTestCasesHaveTypes DEF StoriesTab, StoriesQuery
<1>6. GoodTable(UsersPage)
  <2>1. \A b \in UsersBulkBar : UsersBulk[b] \in Seq(Effects)
    <3>1. /\ UsersBulk.activate \in Seq(Effects)
          /\ UsersBulk.deactivate \in Seq(Effects)
          /\ UsersBulk.role \in Seq(Effects)
          /\ UsersBulk.delete \in Seq(Effects)
      BY RequestLists DEF UsersBulk
    <3> QED
      BY <3>1 DEF UsersBulkBar
  <2> QED
    BY <2>1, ListingIsGood, OnlyTestCasesHaveTypes DEF UsersPage, UsersQuery
<1>7. \A b \in DOMAIN NoBulk : NoBulk[b] \in Seq(Effects)
  BY DEF NoBulk
<1>8. GoodTable(EpicsTab) /\ GoodTable(ProjectsPage) /\ GoodTable(AuditPage)
  BY <1>7, ListingIsGood, OnlyTestCasesHaveTypes
  DEF EpicsTab, EpicsQuery, ProjectsPage, ProjectsQuery, AuditPage, AuditQuery
<1>9. GoodTable(RolesPage)
  BY <1>7 DEF GoodTable, RolesPage, Page, RolesQuery, Fields
<1> QED
  BY <1>1, <1>2, <1>3, <1>4, <1>5, <1>6, <1>8, <1>9 DEF Pages

\* What the behaviour of a page rests on.
LEMMA PageFacts ==
    ASSUME page \in Shapes
    PROVE  /\ page.sends = TRUE /\ page.follows = TRUE
           /\ page.heard = ~page.type /\ page.heard \in BOOLEAN
           /\ page.paged => page.turns
           /\ page.paged \in BOOLEAN
           /\ page.bulk \subseteq Seq(Effects) \ {<<>>}
<1>0. PICK p \in Pages : page \in {Shape(p, F) : F \in Played(p)}
  BY DEF Shapes
<1>1. PICK F \in Played(p) : page = Shape(p, F)
  BY <1>0
<1>a. F = {} \/ \E f \in DOMAIN p.filters : F = {f}
  BY DEF Played
<1>2. GoodTable(p)
  BY TablesAreGood
<1>3. /\ page.sends = (F \subseteq p.query.sent)
      /\ page.follows = (F \subseteq p.query.deps)
      /\ page.heard = (F \subseteq p.query.heard)
      /\ page.type = ("filterType" \in F)
      /\ page.paged = ("paginationModel" \in p.query.sent)
      /\ page.turns = ("paginationModel" \in p.query.deps)
      /\ page.bulk = UNION {SubSeqs(p.bulk[b]) \ {<<>>} : b \in DOMAIN p.bulk}
  BY <1>1 DEF Shape
<1>4. page.bulk \subseteq Seq(Effects) \ {<<>>}
  <2> SUFFICES ASSUME NEW b \in DOMAIN p.bulk, NEW s \in SubSeqs(p.bulk[b]) \ {<<>>}
               PROVE  s \in Seq(Effects) \ {<<>>}
    BY <1>3
  <2>1. p.bulk[b] \in Seq(Effects)
    BY <1>2 DEF GoodTable
  <2>2. PICK i \in 0..Len(p.bulk[b]), j \in 0..Len(p.bulk[b]) : s = SubSeq(p.bulk[b], i + 1, j)
    BY DEF SubSeqs
  <2>3. Len(p.bulk[b]) \in Nat /\ DOMAIN p.bulk[b] = 1..Len(p.bulk[b])
    BY <2>1
  <2>4. \A k \in (i + 1)..j : p.bulk[b][k] \in Effects
    BY <2>1, <2>3
  <2> QED
    BY <2>1, <2>2, <2>3, <2>4, SubSeqProperties
<1>5. page.sends = TRUE /\ page.follows = TRUE
  <2>1. F \subseteq p.query.sent /\ F \subseteq p.query.deps
    BY <1>2, <1>a DEF GoodTable
  <2> QED
    BY <1>3, <2>1, Zenon
<1>b. page.heard = ~page.type /\ page.heard \in BOOLEAN
  <2> DEFINE heard == F \subseteq p.query.heard
             type == "filterType" \in F
  <2>1. heard = ~type /\ heard \in BOOLEAN
    BY <1>2, <1>a DEF GoodTable
  <2>2. page.heard = heard /\ page.type = type
    BY <1>3
  <2> HIDE DEF heard, type
  <2> QED
    BY <2>1, <2>2, Zenon
<1>6. (page.paged => page.turns) /\ page.paged \in BOOLEAN
  <2> DEFINE sent == "paginationModel" \in p.query.sent
             deps == "paginationModel" \in p.query.deps
  <2>1. sent => deps
    BY <1>2 DEF GoodTable
  <2>2. page.paged = sent /\ page.turns = deps
    BY <1>3
  <2>3. sent \in BOOLEAN /\ deps \in BOOLEAN
    OBVIOUS
  <2> HIDE DEF sent, deps
  <2> QED
    BY <2>1, <2>2, <2>3
<1> QED
  BY <1>4, <1>5, <1>6, <1>b

----------------------------------------------------------------------------
(* Answers *)

\* Selected, of a database d and of a page that turns (paged) or does not.
SelectedFrom(d, paged, query) ==
    LET found == {r \in {r \in Rows : d[r] \in {"hit", "miss"}} : query.filter => d[r] = "hit"}
        Before(r) == Cardinality({s \in found : s > r})
        rows  == {r \in found : paged => Before(r) \div PageSize = query.page}
    IN [rows  |-> rows,
        hits  |-> {r \in rows : d[r] = "hit"},
        total |-> Cardinality(found)]

AnswerFrom(d, p, query) ==
    SelectedFrom(d, p.paged, [query EXCEPT !.filter = @ /\ p.heard])

\* Nothing changes an answer but a change of the rows or of the query.
LEMMA AnswerStays ==
    ASSUME db' = db, page' = page, q' = q
    PROVE  Answer(q)' = Answer(q)
<1>1. Answer(q) = AnswerFrom(db, page, q)
  BY Zenon DEF Answer, AnswerFrom, Selected, SelectedFrom, Live
<1>2. Answer(q)' = AnswerFrom(db', page', q')
  BY Zenon DEF Answer, AnswerFrom, Selected, SelectedFrom, Live
<1> QED
  BY <1>1, <1>2, Zenon

\* Of the page number an answer depends where the page turns only.
LEMMA SameAnswer ==
    ASSUME NEW a \in Queries, NEW b \in Queries,
           a.filter = b.filter, page.paged => a.page = b.page
    PROVE  Answer(a) = Answer(b)
<1> DEFINE c == [a EXCEPT !.filter = @ /\ page.heard]
           d == [b EXCEPT !.filter = @ /\ page.heard]
<1>0. c.filter = d.filter /\ c.page = a.page /\ d.page = b.page
  BY DEF Queries
<1>1. Answer(a) = Selected(c) /\ Answer(b) = Selected(d)
  BY DEF Answer
<1> HIDE DEF c, d
<1>2. ASSUME NEW f
      PROVE  {r \in f : page.paged => Cardinality({s \in f : s > r}) \div PageSize = c.page}
             = {r \in f : page.paged => Cardinality({s \in f : s > r}) \div PageSize = d.page}
  BY <1>0
<1>3. {r \in Live : c.filter => db[r] = "hit"} = {r \in Live : d.filter => db[r] = "hit"}
  BY <1>0
<1>4. Selected(c) = Selected(d)
  BY <1>2, <1>3, Zenon DEF Selected
<1> QED
  BY <1>1, <1>4

\* What is in sight is what the server answers: it passes over one filter, the
\* type of the test cases.
LEMMA InSightIsAnswer ==
    ASSUME page \in Shapes, q \in Queries
    PROVE  InSight = Answer(q)
<1>1. page.heard = ~page.type /\ page.heard \in BOOLEAN
  BY PageFacts
<1>2. CASE page.type
  <2>1. [q EXCEPT !.filter = @ /\ page.heard] = [q EXCEPT !.filter = FALSE]
    BY <1>1, <1>2 DEF Queries
  <2> QED
    BY <1>2, <2>1, Zenon DEF InSight, Answer
<1>3. CASE ~page.type
  <2>1. q.filter \in BOOLEAN /\ page.heard = TRUE
    BY <1>1, <1>3 DEF Queries
  <2>2. (q.filter /\ page.heard) = q.filter
    BY <2>1
  <2>3. [q EXCEPT !.filter = @ /\ page.heard] = q
    BY <2>2 DEF Queries
  <2> QED
    BY <1>3, <2>3, Zenon DEF InSight, Answer
<1> QED
  BY <1>2, <1>3

\* NewestIsCurrent and ListInv, in terms of the server's answers.
NewestAnswers ==
    ~upset =>
        /\ fetches # <<>> =>
               /\ Last(fetches).q.filter = q.filter
               /\ page.paged => Last(fetches).q.page = q.page
        /\ ~Acted => IF fetches = <<>> THEN list = Answer(q)
                     ELSE Last(fetches).answer \subseteq {Answer(q)}

AInv ==
    /\ TypeOK
    /\ ticks \subseteq list.rows
    /\ loading => fetches # <<>>
    /\ Dialog => ~work.done
    /\ NewestAnswers

LEMMA InvIs == AInv => ListInv
<1> SUFFICES ASSUME AInv PROVE ListInv
  OBVIOUS
<1>1. InSight = Answer(q)
  BY InSightIsAnswer DEF AInv, TypeOK
<1>2. NewestIsCurrent
  BY <1>1, Zenon DEF AInv, NewestAnswers, NewestIsCurrent
<1> QED
  BY <1>2 DEF AInv, ListInv

LEMMA RowsAreFinite ==
    ASSUME NEW S \in SUBSET Rows
    PROVE  IsFiniteSet(S) /\ Cardinality(S) \in 0..RowCount
<1>1. IsFiniteSet(Rows) /\ Cardinality(Rows) = RowCount
  BY SizesAssumption, FS_Interval DEF Rows
<1>2. IsFiniteSet(S) /\ Cardinality(S) <= Cardinality(Rows)
  BY <1>1, FS_Subset
<1> QED
  BY <1>1, <1>2, FS_CardinalityType

LEMMA AnswerType == \A query : Answer(query) \in Lists
<1>1. ASSUME NEW query PROVE Selected(query) \in Lists
  <2> DEFINE found == {r \in Live : query.filter => db[r] = "hit"}
             rows == {r \in found : page.paged =>
                          Cardinality({s \in found : s > r}) \div PageSize = query.page}
             hits == {r \in rows : db[r] = "hit"}
  <2>1. found \in SUBSET Rows /\ rows \in SUBSET Rows /\ hits \in SUBSET Rows
    BY DEF Live
  <2>2. Cardinality(found) \in 0..RowCount
    BY <2>1, RowsAreFinite
  <2>3. Selected(query) = [rows |-> rows, hits |-> hits, total |-> Cardinality(found)]
    BY Zenon DEF Selected
  <2> HIDE DEF found, rows, hits
  <2> QED
    BY <2>1, <2>2, <2>3 DEF Lists
<1> QED
  BY <1>1 DEF Answer

----------------------------------------------------------------------------
(* Changes of rows *)

LEMMA ChangedType ==
    ASSUME db \in [Rows -> {"unborn", "hit", "miss", "gone"}],
           NEW effect \in Effects, NEW rows, NEW d \in Changed(effect, rows)
    PROVE  d \in [Rows -> {"unborn", "hit", "miss", "gone"}]
<1>1. CASE effect = "add"
  BY <1>1 DEF Changed
<1>2. CASE effect = "remove"
  <2>1. PICK S \in SUBSET (rows \cap Live) : d = [r \in Rows |-> IF r \in S THEN "gone" ELSE db[r]]
    BY <1>2 DEF Changed
  <2> QED
    BY <2>1
<1>3. CASE effect = "touch"
  <2>1. PICK S \in SUBSET (rows \cap Live) :
            d = [r \in Rows |-> IF r \notin S THEN db[r]
                                ELSE IF db[r] = "hit" THEN "miss" ELSE "hit"]
    BY <1>3 DEF Changed
  <2> QED
    BY <2>1
<1> QED
  BY <1>1, <1>2, <1>3 DEF Effects

----------------------------------------------------------------------------
(* Requests under way *)

LEMMA RemoveType ==
    ASSUME NEW T, NEW s \in Seq(T), NEW i \in DOMAIN s
    PROVE  /\ RemoveAt(s, i) \in Seq(T)
           /\ Len(RemoveAt(s, i)) = Len(s) - 1
           /\ i # Len(s) => Last(RemoveAt(s, i)) = Last(s)
<1> DEFINE n == Len(s)
           pre == SubSeq(s, 1, i - 1)
           post == SubSeq(s, i + 1, n)
           rest == pre \o post
<1>1. n \in Nat /\ i \in 1..n /\ \A k \in 1..n : s[k] \in T
  OBVIOUS
<1> HIDE DEF n
<1>2. pre \in Seq(T) /\ Len(pre) = i - 1
  <2>1. \A k \in 1..(i - 1) : s[k] \in T
    BY <1>1
  <2>2. /\ SubSeq(s, 1, i - 1) \in Seq(T)
        /\ Len(SubSeq(s, 1, i - 1)) = IF 1 <= i - 1 THEN (i - 1) - 1 + 1 ELSE 0
    BY <1>1, <2>1, SubSeqProperties
  <2> QED
    BY <1>1, <2>2
<1>3. /\ post \in Seq(T) /\ Len(post) = n - i
      /\ i # n => post[n - i] = s[n]
  <2>1. \A k \in (i + 1)..n : s[k] \in T
    BY <1>1
  <2>2. /\ SubSeq(s, i + 1, n) \in Seq(T)
        /\ Len(SubSeq(s, i + 1, n)) = IF i + 1 <= n THEN n - (i + 1) + 1 ELSE 0
        /\ \A k \in 1..(n - (i + 1) + 1) : SubSeq(s, i + 1, n)[k] = s[(i + 1) + k - 1]
    BY <1>1, <2>1, SubSeqProperties
  <2>3. ASSUME i # n PROVE post[n - i] = s[n]
    <3>1. n - i \in 1..(n - (i + 1) + 1) /\ (i + 1) + (n - i) - 1 = n
      BY <1>1, <2>3
    <3> QED
      BY <2>2, <3>1
  <2> QED
    BY <1>1, <2>2, <2>3
<1> HIDE DEF pre, post
<1>4. /\ rest \in Seq(T) /\ Len(rest) = (i - 1) + (n - i)
      /\ \A k \in 1..((i - 1) + (n - i)) :
             rest[k] = IF k <= i - 1 THEN pre[k] ELSE post[k - (i - 1)]
  <2>1. /\ rest \in Seq(T) /\ Len(rest) = Len(pre) + Len(post)
        /\ \A k \in 1..(Len(pre) + Len(post)) :
               rest[k] = IF k <= Len(pre) THEN pre[k] ELSE post[k - Len(pre)]
    BY <1>2, <1>3, ConcatProperties
  <2> QED
    BY <1>2, <1>3, <2>1
<1>5. RemoveAt(s, i) = rest
  BY DEF RemoveAt, pre, post, n
<1> HIDE DEF rest
<1>6. Len(rest) = n - 1
  BY <1>1, <1>4
<1>7. ASSUME i # n PROVE Last(rest) = s[n]
  <2>1. /\ n - 1 \in 1..((i - 1) + (n - i)) /\ ~(n - 1 <= i - 1)
        /\ (n - 1) - (i - 1) = n - i
    BY <1>1, <1>7
  <2>2. rest[n - 1] = post[n - i]
    BY <1>4, <2>1
  <2> QED
    BY <1>3, <1>6, <1>7, <2>2 DEF Last
<1> QED
  BY <1>4, <1>5, <1>6, <1>7 DEF Last, n

LEMMA SendEffect ==
    ASSUME TypeOK, NEW query \in Queries, Send(query)
    PROVE  /\ fetches' \in Seq(Fetch) /\ Len(fetches') <= MaxFetches
           /\ loading' = TRUE /\ fetches' # <<>>
           /\ Last(fetches') = [q |-> query, answer |-> {}]
<1>1. page.sends = TRUE
  BY PageFacts DEF TypeOK
<1>2. [query EXCEPT !.filter = @ /\ page.sends] = query
  <2>1. query.filter \in BOOLEAN
    BY DEF Queries
  <2>2. (query.filter /\ page.sends) = query.filter
    BY <1>1, <2>1
  <2> QED
    BY <2>2 DEF Queries
<1> DEFINE f == [q |-> query, answer |-> {}]
<1>3. fetches' = Append(fetches, f) /\ Len(fetches) < MaxFetches /\ loading' = TRUE
  BY <1>2 DEF Send
<1>4. f \in Fetch
  BY DEF Fetch, Answers
<1>5. fetches \in Seq(Fetch)
  BY DEF TypeOK, Fetch, Answers
<1> HIDE DEF f
<1>6. /\ fetches' \in Seq(Fetch) /\ fetches' # <<>>
      /\ Len(fetches') = Len(fetches) + 1 /\ fetches'[Len(fetches) + 1] = f
  BY <1>3, <1>4, <1>5, AppendProperties
<1>7. Len(fetches) \in Nat /\ MaxFetches \in Nat
  BY <1>5, SizesAssumption
<1> QED
  BY <1>3, <1>6, <1>7 DEF Last, f

\* Steps that touch only the dialog, the ticks or the counter.
LEMMA QuietStep ==
    ASSUME AInv, UNCHANGED <<page, db, q, list, loading, fetches>>,
           ~upset' => ~upset /\ (Acted => Acted')
    PROVE  NewestAnswers' /\ (loading' => fetches' # <<>>)
<1>1. loading' => fetches' # <<>>
  BY DEF AInv
<1>2. Answer(q)' = Answer(q)
  BY AnswerStays
<1>3. NewestAnswers'
  BY <1>2 DEF AInv, NewestAnswers
<1> QED
  BY <1>1, <1>3

\* Steps that send the list request of the query on the screen.
LEMMA SendStep ==
    ASSUME AInv, NEW query \in Queries, Send(query),
           ~upset' => query = q'
    PROVE  NewestAnswers' /\ (loading' => fetches' # <<>>)
<1>1. fetches' # <<>> /\ Last(fetches') = [q |-> query, answer |-> {}]
  BY SendEffect DEF AInv
<1>2. Last(fetches)' = Last(fetches')
  BY DEF Last
<1> QED
  BY <1>1, <1>2 DEF NewestAnswers

\* The answer to the query on the screen is what the request sent last for it
\* brings.
LEMMA ServeStep ==
    ASSUME AInv, NEW i \in 1..MaxFetches, Serve(i)
    PROVE  NewestAnswers' /\ fetches' # <<>>
<1> DEFINE n == Len(fetches)
           fed == [fetches[i] EXCEPT !.answer = {Answer(fetches[i].q)}]
<1>1. /\ fetches \in Seq(Fetch) /\ i \in 1..n /\ n \in Nat
      /\ fetches' = [fetches EXCEPT ![i] = fed]
      /\ UNCHANGED <<page, db, q, list, work, upset>>
  BY DEF Serve, AInv, TypeOK, Fetch, Answers
<1>2. fed.q = fetches[i].q /\ fed.answer = {Answer(fetches[i].q)}
  <2>1. fetches[i] \in Fetch
    BY <1>1
  <2> QED
    BY <2>1 DEF Fetch
<1> HIDE DEF fed
<1>3. Len(fetches') = n /\ fetches' # <<>> /\ n \in 1..n
  BY <1>1
<1>4. Answer(q)' = Answer(q) /\ Acted' = Acted
  BY <1>1, AnswerStays DEF Acted, Idle
<1>5. CASE i # n
  <2>1. fetches'[n] = fetches[n] /\ fetches # <<>>
    <3>1. DOMAIN fetches = 1..n /\ n \in 1..n
      BY <1>1, <1>3
    <3>2. fetches # <<>>
      BY <3>1
    <3> HIDE DEF n
    <3>3. fetches'[n] = fetches[n]
      BY <1>1, <1>5, <3>1
    <3> QED
      BY <3>2, <3>3
  <2>2. Last(fetches') = Last(fetches)
    BY <1>3, <2>1 DEF Last
  <2> QED
    BY <1>1, <1>3, <1>4, <2>1, <2>2 DEF AInv, NewestAnswers
<1>6. CASE i = n
  <2>1. Last(fetches') = fed /\ fetches # <<>> /\ Last(fetches) = fetches[i]
    BY <1>1, <1>3, <1>6 DEF Last
  <2>2. ASSUME ~upset PROVE Answer(fetches[i].q) = Answer(q)
    <3>1. fetches[i].q \in Queries /\ q \in Queries
      <4> HIDE DEF n
      <4>1. fetches[i] \in Fetch
        BY <1>1 DEF n
      <4> QED
        BY <4>1 DEF Fetch, AInv, TypeOK
    <3>2. fetches[i].q.filter = q.filter /\ (page.paged => fetches[i].q.page = q.page)
      BY <2>1, <2>2 DEF AInv, NewestAnswers
    <3> QED
      BY <3>1, <3>2, SameAnswer
  <2> QED
    BY <1>1, <1>2, <1>3, <1>4, <2>1, <2>2 DEF AInv, NewestAnswers
<1> QED
  BY <1>5, <1>6

\* An answer that is not out of turn, or the last one, leaves behind it what is
\* said of the requests that are still under way.
LEMMA ArriveStep ==
    ASSUME AInv, NEW i \in 1..MaxFetches, Arrive(i)
    PROVE  NewestAnswers'
<1> DEFINE n == Len(fetches)
<1>1. /\ fetches \in Seq(Fetch) /\ i \in 1..n /\ n \in Nat
      /\ fetches' = RemoveAt(fetches, i)
      /\ list' \in fetches[i].answer
      /\ upset' = (upset \/ i # 1)
      /\ UNCHANGED <<page, db, q, work>>
  BY DEF Arrive, AInv, TypeOK, Fetch, Answers
<1>2. /\ fetches' \in Seq(Fetch) /\ Len(fetches') = n - 1
      /\ i # n => Last(fetches') = Last(fetches)
  BY <1>1, RemoveType
<1>3. Answer(q)' = Answer(q) /\ Acted' = Acted /\ fetches # <<>>
  BY <1>1, AnswerStays DEF Acted, Idle
<1> SUFFICES ASSUME ~upset' PROVE NewestAnswers'
  BY DEF NewestAnswers
<1>4. ~upset /\ i = 1
  BY <1>1
<1>5. CASE n = 1
  <2>1. fetches' = <<>>
    BY <1>2, <1>5, EmptySeq
  <2>2. Last(fetches) = fetches[i]
    BY <1>4, <1>5 DEF Last
  <2>3. ~Acted => list' = Answer(q)
    BY <1>1, <1>3, <1>4, <2>2 DEF AInv, NewestAnswers
  <2> QED
    BY <1>3, <2>1, <2>3 DEF NewestAnswers
<1>6. CASE n # 1
  <2>1. i # n /\ fetches' # <<>>
    BY <1>1, <1>2, <1>4, <1>6
  <2> QED
    BY <1>1, <1>2, <1>3, <1>4, <2>1 DEF AInv, NewestAnswers
<1> QED
  BY <1>5, <1>6

\* Another page of a list that does not turn.
LEMMA TurnStep ==
    ASSUME AInv, NEW p \in 0..RowCount, TurnPage(p)
    PROVE  NewestAnswers' /\ (loading' => fetches' # <<>>)
<1>1. /\ q' = [q EXCEPT !.page = p] /\ q' \in Queries
      /\ q'.filter = q.filter
      /\ SendIf(page.turns, q')
      /\ UNCHANGED <<page, db, list, work, upset>>
  BY DEF TurnPage, AInv, TypeOK, Queries
<1>2. CASE page.turns
  BY <1>1, <1>2, SendStep DEF SendIf
<1>3. CASE ~page.turns
  <2>1. UNCHANGED <<fetches, loading>> /\ ~page.paged
    BY <1>1, <1>3, PageFacts DEF SendIf, AInv, TypeOK
  <2>2. Answer(q') = Answer(q)
    BY <1>1, <2>1, SameAnswer DEF AInv, TypeOK
  <2>3. Answer(q)' = AnswerFrom(db', page', q')
    BY Zenon DEF Answer, AnswerFrom, Selected, SelectedFrom, Live
  <2>4. Answer(q') = AnswerFrom(db, page, q')
    BY Zenon DEF Answer, AnswerFrom, Selected, SelectedFrom, Live
  <2>5. Answer(q)' = Answer(q)
    BY <1>1, <2>2, <2>3, <2>4, Zenon
  <2> QED
    BY <1>1, <2>1, <2>5 DEF AInv, NewestAnswers, Acted, Idle
<1> QED
  BY <1>2, <1>3

----------------------------------------------------------------------------
(* Type correctness *)

LEMMA MoveType == TypeOK /\ Move => moves' \in 0..MaxMoves
BY SizesAssumption DEF TypeOK, Move

\* The parts of TypeOK a step can disturb.
Typed ==
    /\ page' = page
    /\ db' \in [Rows -> {"unborn", "hit", "miss", "gone"}]
    /\ q' \in Queries /\ list' \in Lists /\ ticks' \subseteq Rows
    /\ work' \in {Idle} \cup Works
    /\ upset' \in BOOLEAN /\ moves' \in 0..MaxMoves

Fetching ==
    /\ loading' \in BOOLEAN
    /\ fetches' \in Seq(Fetch) /\ Len(fetches') <= MaxFetches

LEMMA TypedIs == TypeOK /\ Typed /\ Fetching => TypeOK'
BY DEF TypeOK, Typed, Fetching, Fetch, Answers, Queries, Lists, Works, Rows, Idle

LEMMA FetchType ==
    ASSUME TypeOK
    PROVE  /\ fetches \in Seq(Fetch)
           /\ Len(fetches) \in Nat /\ Len(fetches) <= MaxFetches
           /\ \A i \in DOMAIN fetches : fetches[i] \in Fetch /\ fetches[i].answer \in Answers
<1>1. fetches \in Seq(Fetch) /\ Len(fetches) <= MaxFetches
  BY DEF TypeOK, Fetch, Answers
<1>2. \A f \in Fetch : f.answer \in Answers
  BY DEF Fetch
<1> QED
  BY <1>1, <1>2

LEMMA SendsFetch ==
    ASSUME TypeOK, NEW query \in Queries,
           Send(query) \/ UNCHANGED <<fetches, loading>>
    PROVE  Fetching
<1>1. CASE Send(query)
  <2>1. fetches' \in Seq(Fetch) /\ Len(fetches') <= MaxFetches
    BY <1>1, SendEffect
  <2>2. loading' = TRUE
    BY <1>1 DEF Send
  <2>3. loading' \in BOOLEAN
    BY <2>2, Zenon
  <2> QED
    BY <2>1, <2>3 DEF Fetching
<1>2. CASE UNCHANGED <<fetches, loading>>
  <2>1. fetches' = fetches /\ loading' = loading /\ loading \in BOOLEAN
    BY <1>2 DEF TypeOK
  <2> QED
    BY <2>1, FetchType DEF Fetching
<1> QED
  BY <1>1, <1>2

LEMMA RemovesFetch ==
    ASSUME TypeOK, NEW i \in DOMAIN fetches, fetches' = RemoveAt(fetches, i),
           loading' = FALSE
    PROVE  Fetching
<1>1. fetches \in Seq(Fetch) /\ Len(fetches) \in Nat /\ Len(fetches) <= MaxFetches
  BY DEF TypeOK, Fetch, Answers
<1>2. fetches' \in Seq(Fetch) /\ Len(fetches') = Len(fetches) - 1
  BY <1>1, RemoveType
<1>3. loading' \in BOOLEAN
  BY Zenon
<1>4. Len(fetches') <= MaxFetches
  BY <1>1, <1>2, SizesAssumption
<1> QED
  BY <1>2, <1>3, <1>4 DEF Fetching

LEMMA UserType == TypeOK /\ User => Typed /\ Fetching
<1> SUFFICES ASSUME TypeOK, User PROVE Typed /\ Fetching
  OBVIOUS
<1>1. ASSUME NEW control \in {"field", "card"}, SetFilter(control)
      PROVE  Typed /\ Fetching
  <2>1. q' \in Queries
    BY <1>1, SizesAssumption DEF SetFilter, TypeOK, Queries
  <2>2. Typed
    BY <1>1, <2>1, MoveType DEF SetFilter, Typed, TypeOK
  <2>3. Fetching
    BY <1>1, <2>1, SendsFetch DEF SetFilter, SendIf
  <2> QED
    BY <2>2, <2>3
<1>2. ASSUME NEW p \in 0..RowCount, TurnPage(p) PROVE Typed /\ Fetching
  <2>1. q' \in Queries
    BY <1>2 DEF TurnPage, TypeOK, Queries
  <2>2. Typed
    BY <1>2, <2>1, MoveType DEF TurnPage, Typed, TypeOK
  <2>3. Fetching
    BY <1>2, <2>1, SendsFetch DEF TurnPage, SendIf
  <2> QED
    BY <2>2, <2>3
<1>3. CASE Refresh
  <2>1. Typed
    BY <1>3, MoveType DEF Refresh, Typed, TypeOK
  <2>2. Fetching
    BY <1>3, SendsFetch DEF Refresh, TypeOK
  <2> QED
    BY <2>1, <2>2
<1>4. ASSUME NEW rows \in SUBSET Rows, Choose(rows) PROVE Typed /\ Fetching
  <2>1. Typed
    BY <1>4, MoveType DEF Choose, Typed, TypeOK
  <2>2. Fetching
    BY <1>4, SendsFetch DEF Choose, TypeOK
  <2> QED
    BY <2>1, <2>2
<1>5. CASE ClearTicks
  <2>1. Typed
    BY <1>5 DEF ClearTicks, Typed, TypeOK
  <2>2. Fetching
    BY <1>5, SendsFetch DEF ClearTicks, TypeOK
  <2> QED
    BY <2>1, <2>2
<1>6. ASSUME NEW effect \in Effects, NEW rows \in SUBSET Rows, Act(effect, rows)
      PROVE  Typed /\ Fetching
  <2>1. <<effect>> \in Seq(Effects) \ {<<>>}
    OBVIOUS
  <2>2. work' \in Works
    BY <1>6, <2>1 DEF Act, TypeOK, Works, Effects
  <2>3. Typed
    BY <1>6, <2>2, MoveType DEF Act, Typed, TypeOK
  <2>4. Fetching
    BY <1>6, SendsFetch DEF Act, TypeOK
  <2> QED
    BY <2>3, <2>4
<1>7. ASSUME NEW calls \in page.bulk, ActOnTicks(calls) PROVE Typed /\ Fetching
  <2>1. calls \in Seq(Effects) \ {<<>>}
    BY PageFacts DEF TypeOK
  <2>2. work' \in Works
    BY <1>7, <2>1 DEF ActOnTicks, TypeOK, Works, Effects
  <2>3. Typed
    BY <1>7, <2>2, MoveType DEF ActOnTicks, Typed, TypeOK
  <2>4. Fetching
    BY <1>7, SendsFetch DEF ActOnTicks, TypeOK
  <2> QED
    BY <2>3, <2>4
<1>8. CASE Confirm
  <2>1. work \in Works
    BY <1>8 DEF Confirm, Dialog, TypeOK, Idle
  <2>2. work' \in Works
    BY <1>8, <2>1 DEF Confirm, TypeOK, Works
  <2>3. Typed
    BY <1>8, <2>2 DEF Confirm, Typed, TypeOK
  <2>4. Fetching
    BY <1>8, SendsFetch DEF Confirm, TypeOK
  <2> QED
    BY <2>3, <2>4
<1>9. CASE Dismiss
  <2>1. Typed
    BY <1>9 DEF Dismiss, Typed, TypeOK
  <2>2. Fetching
    BY <1>9, SendsFetch DEF Dismiss, TypeOK
  <2> QED
    BY <2>1, <2>2
<1> QED
  BY <1>1, <1>2, <1>3, <1>4, <1>5, <1>6, <1>7, <1>8, <1>9 DEF User, Effects

\* A handler that has begun has a request to send.
LEMMA BusyWorks ==
    ASSUME TypeOK, Busy
    PROVE  work \in Works /\ Head(work.calls) \in Effects
<1>1. work \in Works
  BY DEF Busy, TypeOK, Idle
<1>2. work.calls \in Seq(Effects) /\ work.calls # <<>>
  BY <1>1 DEF Works, Effects
<1> QED
  BY <1>1, <1>2

LEMMA OtherType == TypeOK /\ (Requests \/ Failures \/ Others \/ Tick) => Typed /\ Fetching
<1> SUFFICES ASSUME TypeOK, Requests \/ Failures \/ Others \/ Tick
             PROVE  Typed /\ Fetching
  OBVIOUS
<1>1. CASE Perform
  <2>1. work \in Works /\ Head(work.calls) \in Effects
    BY <1>1, BusyWorks DEF Perform, Busy
  <2>2. db' \in [Rows -> {"unborn", "hit", "miss", "gone"}]
    BY <1>1, <2>1, ChangedType DEF Perform, TypeOK
  <2>3. work' \in Works
    BY <1>1, <2>1 DEF Perform, Works
  <2>4. Typed
    BY <1>1, <2>2, <2>3 DEF Perform, Typed, TypeOK
  <2>5. Fetching
    BY <1>1, SendsFetch DEF Perform, TypeOK
  <2> QED
    BY <2>4, <2>5
<1>2. CASE NextCall
  <2>1. work \in Works
    BY <1>2, BusyWorks DEF NextCall, Busy
  <2>2. Tail(work.calls) \in Seq(Effects) \ {<<>>}
    <3>1. work.calls \in Seq(Effects) /\ Len(work.calls) > 1
      BY <1>2, <2>1 DEF NextCall, Works, Effects
    <3>2. work.calls # <<>> /\ Len(work.calls) \in Nat
      BY <3>1
    <3>3. Tail(work.calls) \in Seq(Effects) /\ Len(Tail(work.calls)) = Len(work.calls) - 1
      BY <3>1, <3>2, HeadTailProperties
    <3> DEFINE rest == Tail(work.calls)
    <3>4. rest \in Seq(Effects) /\ Len(rest) > 0
      BY <3>1, <3>2, <3>3
    <3> HIDE DEF rest
    <3>5. rest # <<>>
      BY <3>4
    <3> QED
      BY <3>4, <3>5 DEF rest
  <2>3. work' \in Works
    BY <1>2, <2>1, <2>2 DEF NextCall, Works, Effects
  <2>4. Typed
    BY <1>2, <2>3 DEF NextCall, Typed, TypeOK
  <2>5. Fetching
    BY <1>2, SendsFetch DEF NextCall, TypeOK
  <2> QED
    BY <2>4, <2>5
<1>3. CASE Finish
  <2>1. work.q \in Queries
    BY <1>3, BusyWorks DEF Finish, Busy, Works
  <2>2. Typed
    BY <1>3 DEF Finish, Typed, TypeOK
  <2>3. Fetching
    BY <1>3, <2>1, SendsFetch DEF Finish
  <2> QED
    BY <2>2, <2>3
<1>4. ASSUME NEW i \in 1..MaxFetches, Serve(i) PROVE Typed /\ Fetching
  <2>1. Typed
    BY <1>4 DEF Serve, Typed, TypeOK
  <2>2. fetches \in Seq(Fetch) /\ i \in DOMAIN fetches /\ fetches[i] \in Fetch
    BY <1>4, FetchType DEF Serve
  <2>3. {Answer(fetches[i].q)} \in Answers
    BY AnswerType DEF Answers
  <2>4. [fetches[i] EXCEPT !.answer = {Answer(fetches[i].q)}] \in Fetch
    BY <2>2, <2>3 DEF Fetch
  <2>5. fetches' = [fetches EXCEPT ![i] = [fetches[i] EXCEPT !.answer = {Answer(fetches[i].q)}]]
    BY <1>4 DEF Serve
  <2>6. fetches' \in Seq(Fetch) /\ Len(fetches') = Len(fetches) /\ loading' = loading
    BY <1>4, <2>2, <2>4, <2>5 DEF Serve
  <2>7. Fetching
    BY <2>6 DEF Fetching, TypeOK
  <2> QED
    BY <2>1, <2>7
<1>5. ASSUME NEW i \in 1..MaxFetches, Arrive(i) PROVE Typed /\ Fetching
  <2>1. i \in DOMAIN fetches /\ fetches[i].answer \in Answers
    BY <1>5, FetchType DEF Arrive
  <2>2. list' \in Lists
    BY <1>5, <2>1 DEF Arrive, Answers
  <2>3. Typed
    BY <1>5, <2>2 DEF Arrive, Typed, TypeOK
  <2>4. Fetching
    BY <1>5, <2>1, RemovesFetch DEF Arrive
  <2> QED
    BY <2>3, <2>4
<1>6. CASE GiveUp
  <2>1. work.done \in BOOLEAN
    BY <1>6, BusyWorks DEF GiveUp, Works
  <2>2. Typed
    BY <1>6, <2>1, MoveType DEF GiveUp, Typed, TypeOK
  <2>3. Fetching
    BY <1>6, SendsFetch DEF GiveUp, TypeOK
  <2> QED
    BY <2>2, <2>3
<1>7. ASSUME NEW i \in 1..MaxFetches, Fail(i) PROVE Typed /\ Fetching
  <2>1. Typed
    BY <1>7, MoveType DEF Fail, Typed, TypeOK
  <2>2. Fetching
    BY <1>7, RemovesFetch DEF Fail
  <2> QED
    BY <2>1, <2>2
<1>8. CASE Others
  <2>1. db' \in [Rows -> {"unborn", "hit", "miss", "gone"}]
    BY <1>8, ChangedType DEF Others, TypeOK, Effects
  <2>2. Typed
    BY <1>8, <2>1, MoveType DEF Others, Typed, TypeOK
  <2>3. Fetching
    BY <1>8, SendsFetch DEF Others, TypeOK
  <2> QED
    BY <2>2, <2>3
<1>9. CASE Tick
  <2>1. Typed
    BY <1>9 DEF Tick, Typed, TypeOK
  <2>2. Fetching
    BY <1>9, SendsFetch DEF Tick, TypeOK
  <2> QED
    BY <2>1, <2>2
<1> QED
  BY <1>1, <1>2, <1>3, <1>4, <1>5, <1>6, <1>7, <1>8, <1>9 DEF Requests, Failures

LEMMA NextType == TypeOK /\ [Next]_vars => TypeOK'
<1>1. TypeOK /\ Next => TypeOK'
  BY UserType, OtherType, TypedIs DEF Next
<1>2. TypeOK /\ UNCHANGED vars => TypeOK'
  BY DEF TypeOK, vars, Queries, Lists, Works, Rows, Idle
<1> QED
  BY <1>1, <1>2

----------------------------------------------------------------------------
(* What every step preserves *)

LEMMA InitStep == Init => AInv
<1> SUFFICES ASSUME Init PROVE AInv
  OBVIOUS
<1>1. q \in Queries /\ list \in Lists /\ 0 \in 0..MaxMoves
  BY SizesAssumption DEF Init, Queries, Lists
<1> DEFINE first == [q |-> q, answer |-> {}]
<1>2. first \in Fetch
  BY <1>1 DEF Fetch, Answers
<1>3. fetches = <<first>> /\ page \in Shapes /\ work = Idle
  BY DEF Init
<1> HIDE DEF first
<1>4. /\ fetches \in Seq(Fetch) /\ Len(fetches) = 1 /\ fetches # <<>>
      /\ Last(fetches) = first
  BY <1>2, <1>3 DEF Last
<1>5. TypeOK
  <2>1. Len(fetches) <= MaxFetches
    BY <1>4, SizesAssumption
  <2>2. db \in [Rows -> {"unborn", "hit", "miss", "gone"}]
    BY DEF Init
  <2>3. fetches \in Seq([q : Queries, answer : Answers])
    BY <1>4 DEF Fetch, Answers
  <2> QED
    BY <1>1, <1>3, <2>1, <2>2, <2>3 DEF Init, TypeOK
<1>6. NewestAnswers
  BY <1>4 DEF NewestAnswers, first
<1> QED
  BY <1>3, <1>4, <1>5, <1>6 DEF Init, AInv, Dialog, Idle

\* The ticks, the veil and the dialog.
Small ==
    /\ ticks' \subseteq list'.rows
    /\ loading' => fetches' # <<>>
    /\ Dialog' => ~work'.done

LEMMA UserStep == AInv /\ User => NewestAnswers' /\ Small
<1> SUFFICES ASSUME AInv, User PROVE NewestAnswers' /\ Small
  OBVIOUS
<1>1. TypeOK
  BY DEF AInv
<1>2. ASSUME NEW control \in {"field", "card"}, SetFilter(control)
      PROVE  NewestAnswers' /\ Small
  <2>1. page.follows = TRUE
    BY <1>1, PageFacts DEF TypeOK
  <2>2. q' \in Queries
    BY <1>1, <1>2, UserType DEF Typed
  <2>3. Send(q')
    BY <1>2, <2>1 DEF SetFilter, SendIf
  <2>4. NewestAnswers' /\ (loading' => fetches' # <<>>)
    BY <2>2, <2>3, SendStep
  <2> QED
    BY <1>2, <2>4 DEF SetFilter, Small, AInv, Dialog
<1>3. ASSUME NEW p \in 0..RowCount, TurnPage(p) PROVE NewestAnswers' /\ Small
  BY <1>3, TurnStep DEF TurnPage, Small, AInv, Dialog
<1>4. CASE Refresh
  <2>1. q \in Queries /\ q' = q
    BY <1>1, <1>4 DEF Refresh, TypeOK
  <2>2. NewestAnswers' /\ (loading' => fetches' # <<>>)
    BY <1>4, <2>1, SendStep DEF Refresh
  <2> QED
    BY <1>4, <2>2 DEF Refresh, Small, AInv, Dialog
<1>5. ASSUME NEW rows \in SUBSET Rows, Choose(rows) PROVE NewestAnswers' /\ Small
  BY <1>5, QuietStep DEF Choose, Small, AInv, Dialog, Acted, Idle
<1>6. CASE ClearTicks
  BY <1>6, QuietStep DEF ClearTicks, Small, AInv, Dialog, Acted, Idle
<1>7. ASSUME NEW effect \in Effects, NEW rows \in SUBSET Rows, Act(effect, rows)
      PROVE  NewestAnswers' /\ Small
  BY <1>7, QuietStep DEF Act, Small, AInv, Dialog, Acted
<1>8. ASSUME NEW calls \in page.bulk, ActOnTicks(calls) PROVE NewestAnswers' /\ Small
  BY <1>8, QuietStep DEF ActOnTicks, Small, AInv, Dialog, Acted
<1>9. CASE Confirm
  <2>1. ~Acted
    BY <1>9 DEF Confirm, AInv, Acted
  <2>2. work \in Works
    BY <1>1, <1>9 DEF Confirm, Dialog, TypeOK, Idle
  <2>3. work'.phase = "sent"
    BY <1>9, <2>2 DEF Confirm, Works
  <2> QED
    BY <1>9, <2>1, <2>3, QuietStep DEF Confirm, Small, AInv, Dialog
<1>10. CASE Dismiss
  <2>1. ~Acted
    BY <1>10 DEF Dismiss, AInv, Acted
  <2> QED
    BY <1>10, <2>1, QuietStep DEF Dismiss, Small, AInv, Dialog, Idle
<1> QED
  BY <1>2, <1>3, <1>4, <1>5, <1>6, <1>7, <1>8, <1>9, <1>10 DEF User, Effects

LEMMA OtherStep ==
    AInv /\ (Requests \/ Failures \/ Others \/ Tick) => NewestAnswers' /\ Small
<1> SUFFICES ASSUME AInv, Requests \/ Failures \/ Others \/ Tick
             PROVE  NewestAnswers' /\ Small
  OBVIOUS
<1>1. TypeOK
  BY DEF AInv
<1>2. CASE Perform
  <2>1. work \in Works
    BY <1>1, <1>2, BusyWorks DEF Perform, Busy
  <2>2. work'.phase = "done" /\ work'.done = TRUE
    BY <1>2, <2>1 DEF Perform, Works
  <2>3. Acted' /\ ~Dialog'
    BY <2>2 DEF Acted, Dialog, Idle
  <2> QED
    BY <1>2, <2>3 DEF Perform, Small, AInv, NewestAnswers
<1>3. CASE NextCall
  <2>1. work \in Works
    BY <1>1, <1>3, BusyWorks DEF NextCall, Busy
  <2>2. work'.phase = "sent" /\ work'.done = work.done
    BY <1>3, <2>1 DEF NextCall, Works
  <2>3. (Acted => Acted') /\ ~Dialog'
    BY <2>2 DEF Acted, Dialog, Idle
  <2> QED
    BY <1>3, <2>3, QuietStep DEF NextCall, Small, AInv
<1>4. CASE Finish
  <2>1. work.q \in Queries
    BY <1>1, <1>4, BusyWorks DEF Finish, Busy, Works
  <2>2. NewestAnswers' /\ (loading' => fetches' # <<>>)
    BY <1>4, <2>1, SendStep DEF Finish
  <2> QED
    BY <1>4, <2>2 DEF Finish, Small, AInv, Dialog, Idle
<1>5. ASSUME NEW i \in 1..MaxFetches, Serve(i) PROVE NewestAnswers' /\ Small
  BY <1>5, ServeStep DEF Serve, Small, AInv, Dialog
<1>6. ASSUME NEW i \in 1..MaxFetches, Arrive(i) PROVE NewestAnswers' /\ Small
  BY <1>6, ArriveStep DEF Arrive, Small, AInv, Dialog
<1>7. CASE GiveUp
  <2>1. ~upset' => ~upset /\ ~Acted
    BY <1>7 DEF GiveUp, Acted
  <2> QED
    BY <1>7, <2>1, QuietStep DEF GiveUp, Small, AInv, Dialog, Idle
<1>8. ASSUME NEW i \in 1..MaxFetches, Fail(i) PROVE NewestAnswers' /\ Small
  BY <1>8 DEF Fail, Small, AInv, Dialog, NewestAnswers
<1>9. CASE Others
  BY <1>9 DEF Others, Small, AInv, Dialog, NewestAnswers
<1>10. CASE Tick
  <2>1. q \in Queries /\ q' = q
    BY <1>1, <1>10 DEF Tick, TypeOK
  <2>2. NewestAnswers' /\ (loading' => fetches' # <<>>)
    BY <1>10, <2>1, SendStep DEF Tick
  <2> QED
    BY <1>10, <2>2 DEF Tick, Small, AInv, Dialog
<1> QED
  BY <1>2, <1>3, <1>4, <1>5, <1>6, <1>7, <1>8, <1>9, <1>10 DEF Requests, Failures

LEMMA NextStep == AInv /\ [Next]_vars => AInv'
<1> SUFFICES ASSUME AInv, [Next]_vars PROVE AInv'
  OBVIOUS
<1>1. TypeOK'
  BY NextType DEF AInv
<1>2. CASE Next
  <2>1. NewestAnswers' /\ Small
    BY <1>2, UserStep, OtherStep DEF Next
  <2> QED
    BY <1>1, <2>1 DEF Small, AInv, Dialog
<1>3. CASE UNCHANGED vars
  <2>1. NewestAnswers'
    BY <1>3, QuietStep DEF vars, Acted, Idle
  <2> QED
    BY <1>1, <1>3, <2>1 DEF vars, AInv, Dialog
<1> QED
  BY <1>2, <1>3

----------------------------------------------------------------------------
(* Theorems *)

\* On every list page only rows on the page are ticked, the veil is there only
\* while a list is on its way, and the list request sent last is for what is
\* on the screen: whatever is filtered, turned, ticked and changed meanwhile.
THEOREM ListsAreSound == Spec => []ListInv
<1>1. Spec => []AInv
  BY InitStep, NextStep, PTL DEF Spec
<1> QED
  BY <1>1, InvIs, PTL

\* At rest a list page shows what the database has for the filters and the page
\* on the screen, outside the four mishaps that set "upset"; the type of the
\* test cases is the one filter that narrows nothing.
THEOREM ListsAnswer == Spec => []ListAnswersTheQuery
<1>1. ListInv => ListAnswersTheQuery
  <2> SUFFICES ASSUME ListInv, ~upset, fetches = <<>>, ~Busy PROVE list = InSight
    BY DEF ListAnswersTheQuery
  <2>1. ~Acted
    BY DEF ListInv, TypeOK, Acted, Busy, Dialog, Works
  <2> QED
    BY <2>1 DEF ListInv, NewestIsCurrent
<1> QED
  BY <1>1, ListsAreSound, PTL

\* There is a newest row in any set of rows.
LEMMA FirstRow ==
    ASSUME NEW S \in SUBSET Rows, S # {}
    PROVE  \E r \in S : {s \in S : s > r} = {}
<1> DEFINE R == OpToRel(<, Nat)
           T == {RowCount - s : s \in S}
<1>1. R = {p \in Nat \X Nat : p[1] < p[2]}
  BY Zenon DEF OpToRel
<1>2. IsWellFoundedOn(R, Nat)
  BY Zenon, NatLessThanWellFounded
<1>3. T \subseteq Nat /\ T # {}
  <2>1. \A s \in S : RowCount - s \in Nat
    BY SizesAssumption DEF Rows
  <2> QED
    BY <2>1
<1> HIDE DEF R, T
<1>4. PICK t \in T : \A u \in T : <<u, t>> \notin R
  BY <1>2, <1>3, WFMin
<1>5. \A u \in T : ~(u < t)
  BY <1>1, <1>3, <1>4
<1>6. PICK r \in S : t = RowCount - r
  BY DEF T
<1>7. ASSUME NEW s \in S PROVE ~(s > r)
  <2>1. RowCount - s \in T
    BY DEF T
  <2>2. ~(RowCount - s < RowCount - r)
    BY <1>5, <1>6, <2>1
  <2>3. s \in Int /\ r \in Int /\ RowCount \in Int
    BY SizesAssumption DEF Rows
  <2> QED
    BY <2>2, <2>3
<1> QED
  BY <1>7

\* A list page that has become empty while there are rows is left by a click on
\* "first page", which leads to rows.
THEOREM NobodyStaysStranded == Spec => []NobodyIsStranded
<1>1. ListInv /\ ListAnswersTheQuery => NobodyIsStranded
  <2> SUFFICES ASSUME ListInv, ListAnswersTheQuery, page.paged,
                      ~upset, fetches = <<>>, ~Busy, list.rows = {}, list.total > 0
               PROVE  /\ LeadsTo(0, list.total)
                      /\ Answer([q EXCEPT !.page = 0]).rows # {}
    BY DEF NobodyIsStranded
  <2> DEFINE asked == [q EXCEPT !.filter = @ /\ page.heard]
             first == [[q EXCEPT !.page = 0] EXCEPT !.filter = @ /\ page.heard]
             found == {r \in Live : asked.filter => db[r] = "hit"}
  <2>1. first.filter = asked.filter /\ first.page = 0
    BY DEF ListInv, TypeOK, Queries
  <2>2. list = Answer(q) /\ list.total \in 0..RowCount
    BY InSightIsAnswer DEF ListAnswersTheQuery, ListInv, TypeOK, Lists
  <2>a. Answer(q) = Selected(asked) /\ Answer([q EXCEPT !.page = 0]) = Selected(first)
    BY Zenon DEF Answer
  <2> HIDE DEF asked, first
  <2>3. list.total = Cardinality(found)
    <3>1. Selected(asked).total = Cardinality(found)
      BY Zenon DEF Selected
    <3> QED
      BY <2>2, <2>a, <3>1, Zenon
  <2>4. found \in SUBSET Rows
    BY DEF Live
  <2> HIDE DEF found
  <2>5. Cardinality({}) = 0 /\ found # {}
    <3>1. Cardinality({}) = 0
      BY FS_EmptySet
    <3>2. Cardinality(found) # 0
      BY <2>3
    <3>3. found # {}
      BY <3>1, <3>2, Zenon
    <3> QED
      BY <3>1, <3>3
  <2>6. PICK r \in found : {s \in found : s > r} = {}
    BY <2>4, <2>5, FirstRow
  <2>7. Cardinality({s \in found : s > r}) \div PageSize = 0
    <3>1. Cardinality({s \in found : s > r}) = 0
      BY <2>5, <2>6
    <3>2. 0 \div PageSize = 0
      BY SizesAssumption
    <3> QED
      BY <3>1, <3>2
  <2>8. found = {s \in Live : first.filter => db[s] = "hit"}
    BY <2>1 DEF found
  <2>9. Selected(first).rows =
            {x \in found : page.paged => Cardinality({s \in found : s > x}) \div PageSize = first.page}
    BY <2>8, Zenon DEF Selected
  <2>10. r \in Selected(first).rows
    BY <2>1, <2>6, <2>7, <2>9
  <2>11. LeadsTo(0, list.total)
    BY <2>2, SizesAssumption DEF LeadsTo, LastPage
  <2> QED
    BY <2>10, <2>11, <2>a
<1> QED
  BY <1>1, ListsAreSound, ListsAnswer, PTL
=============================================================================
