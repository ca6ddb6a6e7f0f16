-------------------------------- MODULE Pages --------------------------------
(***************************************************************************)
(* The list pages of the browser client as tables: what a page lets the    *)
(* user filter by, what its list request is made of, what it offers on a   *)
(* row, and which requests its bulk buttons send.  ListPages and Access    *)
(* run these tables.                                                       *)
(*                                                                         *)
(* A filter is named after its state variable; a field of the filter bar   *)
(* ("field") leaves the page number alone, a counter above the table       *)
(* ("card") also goes back to the first page.  What an action or request   *)
(* does is said by its effect on the rows of the list.                     *)
(***************************************************************************)
EXTENDS Naturals, Sequences, FiniteSets

\* Filters that are only set in the filter bar.
Fields(names) == [f \in names |-> {"field"}]

\* guard: the function of utils/roleGuard.ts the button asks, if any.
Offer(guard, effect) == [guard |-> guard, effect |-> effect]
Editors(effect) == Offer("canEdit", effect)
Admins(effect) == Offer("canManageUsers", effect)
Anyone == Offer("none", "look")

\* A fetch function: the filters its request carries, what it is rebuilt for
\* (the dependencies of its useCallback, which fetch again when they change),
\* whether useAutoRefresh calls it, and which of the filters the route and the
\* repository behind it apply.
Listing(names, auto) ==
    [sent |-> names \cup {"paginationModel"},
     deps |-> names \cup {"paginationModel"},
     auto |-> auto,
     heard |-> names]

NoBulk == [b \in {} |-> <<>>]

Page(filters, query, actions, bulk) ==
    [filters |-> filters, query |-> query, actions |-> actions, bulk |-> bulk]

----------------------------------------------------------------------------
(* pages/DefectsPage.tsx *)

DefectsFilters ==
    Fields({"searchQuery", "filterProjectId", "filterSeverity",
            "filterPriority", "filterStatus", "filterAssignee"})

\* Fault: a filter is missing from the dependencies.
DefectsQueryWithoutAssignee ==
    [sent |-> DOMAIN DefectsFilters \cup {"paginationModel"},
     deps |-> (DOMAIN DefectsFilters \ {"filterAssignee"}) \cup {"paginationModel"},
     auto |-> TRUE, heard |-> DOMAIN DefectsFilters]

DefectsQuery == Listing(DOMAIN DefectsFilters, TRUE)

DefectsActions ==
    [new |-> Editors("add"), edit |-> Editors("touch"),
     delete |-> Editors("remove"), view |-> Anyone]

\* The buttons of the bar above the table ...
DefectsBulkBar == {"update", "delete"}

\* ... and what they send: one request per kind of change, in this order.
DefectsBulk ==
    [delete |-> <<"remove">>,
     update |-> <<"touch", "touch", "touch">>]   \* status, assignee, the rest

DefectsPage ==
    Page(DefectsFilters, DefectsQuery, DefectsActions,
         [b \in DefectsBulkBar |-> DefectsBulk[b]])

----------------------------------------------------------------------------
(* pages/TestCasesPage.tsx *)

\* Choosing a project takes the epic filter back.
TestCasesFilters ==
    Fields({"searchQuery", "filterProjectId", "filterEpicId", "filterStatus",
            "filterType", "filterPriority", "filterAutomated"})

\* The route hands the type on as test_type, which is no column of the table,
\* and the repository passes over what it does not know.
TestCasesUnheard == {"filterType"}

TestCasesQuery ==
    [Listing(DOMAIN TestCasesFilters, TRUE) EXCEPT !.heard = @ \ TestCasesUnheard]

\* The route behind approve calls a method its service does not have.
TestCasesActions ==
    [new |-> Editors("add"), upload |-> Editors("add"),
     edit |-> Editors("touch"), clone |-> Editors("add"),
     approve |-> Offer("canApprove", "refused"),
     delete |-> Editors("remove"), view |-> Anyone]

TestCasesBulkBar == {"update", "delete"}

TestCasesBulk ==
    [delete |-> <<"remove">>,
     update |-> <<"touch", "touch", "touch">>]

TestCasesPage ==
    Page(TestCasesFilters, TestCasesQuery, TestCasesActions,
         [b \in TestCasesBulkBar |-> TestCasesBulk[b]])

----------------------------------------------------------------------------
(* pages/TestSuitesPage.tsx *)

TestSuitesFilters == Fields({"searchQuery", "filterProjectId", "filterStatus"})

TestSuitesQuery == Listing(DOMAIN TestSuitesFilters, TRUE)

TestSuitesActions ==
    [new |-> Editors("add"), edit |-> Editors("touch"),
     delete |-> Editors("remove"), view |-> Anyone]

TestSuitesBulkBar == {"activate", "deactivate", "delete"}

TestSuitesBulk ==
    [activate |-> <<"touch">>, deactivate |-> <<"touch">>, delete |-> <<"remove">>]

TestSuitesPage ==
    Page(TestSuitesFilters, TestSuitesQuery, TestSuitesActions,
         [b \in TestSuitesBulkBar |-> TestSuitesBulk[b]])

----------------------------------------------------------------------------
(* pages/TestRunsPage.tsx *)

\* The counters of the header.
TestRunsCards == {"filterStatus"}

TestRunsFilters ==
    [f \in {"searchQuery", "filterProjectId", "filterSuiteId", "filterStatus"} |->
        {"field"} \cup {c \in {"card"} : f \in TestRunsCards}]

TestRunsQuery == Listing(DOMAIN TestRunsFilters, TRUE)

\* Start, Complete, Block, Resume and Abort are each one status change.
TestRunsActions ==
    [new |-> Editors("add"), view |-> Anyone,
     start |-> Editors("touch"), execute |-> Anyone,
     complete |-> Editors("touch"), block |-> Editors("touch"),
     resume |-> Editors("touch"), abort |-> Editors("touch"),
     edit |-> Editors("touch"), delete |-> Editors("remove")]

TestRunsBulkBar == {"cancel", "delete"}

TestRunsBulk == [cancel |-> <<"touch">>, delete |-> <<"remove">>]

TestRunsPage ==
    Page(TestRunsFilters, TestRunsQuery, TestRunsActions,
         [b \in TestRunsBulkBar |-> TestRunsBulk[b]])

----------------------------------------------------------------------------
(* pages/RequirementsPage.tsx: two tabs, each with a list of its own *)

EpicsFilters ==
    Fields({"epicSearch", "epicFilterProject", "epicFilterPriority",
            "epicFilterAssignee"})

EpicsQuery == Listing(DOMAIN EpicsFilters, TRUE)

EpicsActions ==
    [new |-> Editors("add"), edit |-> Editors("touch"),
     delete |-> Editors("remove"), view |-> Anyone]

EpicsTab == Page(EpicsFilters, EpicsQuery, EpicsActions, NoBulk)

\* Choosing a project takes the epic filter back.
StoriesFilters ==
    Fields({"storySearch", "storyFilterProject", "storyFilterEpic",
            "storyFilterPriority", "storyFilterStatus"})

StoriesQuery == Listing(DOMAIN StoriesFilters, TRUE)

StoriesActions ==
    [new |-> Editors("add"), edit |-> Editors("touch"),
     clone |-> Editors("add"), delete |-> Editors("remove"), view |-> Anyone]

StoriesBulkBar == {"update", "delete"}

\* All changes of the bulk dialog travel in one request.
StoriesBulk == [update |-> <<"touch">>, delete |-> <<"remove">>]

StoriesTab ==
    Page(StoriesFilters, StoriesQuery, StoriesActions,
         [b \in StoriesBulkBar |-> StoriesBulk[b]])

----------------------------------------------------------------------------
(* pages/UsersPage.tsx: the list is not refreshed by itself *)

UsersCards == {"filterRole"}

UsersFilters ==
    [f \in {"searchQuery", "filterRole", "filterStatus"} |->
        {"field"} \cup {c \in {"card"} : f \in UsersCards}]

UsersQuery == Listing(DOMAIN UsersFilters, FALSE)

UsersActions ==
    [new |-> Admins("add"), edit |-> Admins("touch"),
     resetPassword |-> Admins("look"), toggle |-> Admins("touch"),
     delete |-> Admins("remove"), view |-> Anyone]

UsersBulkBar == {"activate", "deactivate", "role", "delete"}

UsersBulk ==
    [activate |-> <<"touch">>, deactivate |-> <<"touch">>,
     role |-> <<"touch">>, delete |-> <<"remove">>]

UsersPage ==
    Page(UsersFilters, UsersQuery, UsersActions,
         [b \in UsersBulkBar |-> UsersBulk[b]])

----------------------------------------------------------------------------
(* pages/ProjectsPage.tsx *)

ProjectsFilters == Fields({"searchQuery", "filterCategory", "filterActive"})

ProjectsQuery == Listing(DOMAIN ProjectsFilters, TRUE)

ProjectsActions ==
    [new |-> Editors("add"), edit |-> Editors("touch"),
     delete |-> Offer("canDelete", "remove"), view |-> Anyone]

ProjectsPage == Page(ProjectsFilters, ProjectsQuery, ProjectsActions, NoBulk)

----------------------------------------------------------------------------
(* pages/AuditPage.tsx: nothing can be changed *)

AuditCards == {"filterAction"}

AuditFilters ==
    [f \in {"searchQuery", "filterAction", "filterEntityType", "filterUser",
            "filterStartDate", "filterEndDate"} |->
        {"field"} \cup {c \in {"card"} : f \in AuditCards}]

AuditQuery == Listing(DOMAIN AuditFilters, FALSE)

AuditActions == [view |-> Anyone, refresh |-> Offer("none", "reload")]

AuditPage == Page(AuditFilters, AuditQuery, AuditActions, NoBulk)

----------------------------------------------------------------------------
(* pages/RolesPage.tsx: all roles at once; the pager asks for nothing *)

RolesQuery == [sent |-> {}, deps |-> {}, auto |-> FALSE, heard |-> {}]

RolesActions ==
    [new |-> Admins("add"), edit |-> Admins("touch"),
     delete |-> Admins("remove"), view |-> Anyone]

RolesPage == Page(Fields({}), RolesQuery, RolesActions, NoBulk)

----------------------------------------------------------------------------
Pages == {DefectsPage, TestCasesPage, TestSuitesPage, TestRunsPage, EpicsTab,
          StoriesTab, UsersPage, ProjectsPage, AuditPage, RolesPage}
=============================================================================
