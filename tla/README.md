# TLA+ models of the test case management application

The repository is a FastAPI backend over PostgreSQL (`src/backend`) and a React
frontend (`src/frontend`). This directory holds TLA+ models of the parts of it
whose correctness depends on the order in which things happen, TLC
configurations that check them on small instances, and TLAPS proofs that the
safety properties hold for instances of every size.

    tlc -workers 2 -config DefectCalls.cfg MCDefects     # one run
    tlapm GovernedRows_proofs.tla                         # the proofs about one

## 1. The system

Every HTTP request runs through the audit middleware to a route, the route
calls a service, the service calls repositories, and all of them share one
database session (`app/db/session.py`). The browser keeps two tokens and a
profile in `localStorage` and talks to the routes through one axios instance.
Its pages keep their own state: a list, the forms that create and edit its
rows, and the panels that show one row in detail.

| Component (code) | State | Operations | What is hard | What makes it correct |
|---|---|---|---|---|
| Session and repository (`db/session.py`, `repositories/base.py`) | committed rows, row locks, flushed columns, the identity map | SELECT, flush, commit, rollback, soft delete | SELECT and UPDATE are separated by awaits; the identity map keeps what it loaded first; locks in client order; crash between flushes | a request takes effect in one step or not at all; no lock outlives its session; what is deleted stays deleted |
| Defects (`defect_service.py`, `routes/defects.py`) | rows of `defects` | create, PUT, transition, delete, attach to and detach from a step, four bulk calls | the status check is two awaits before the write; partial failure of bulk calls; deadlock | a transition is one of the table; the report of a bulk call hides nothing |
| Human-readable ids (two repositories) | the ids in use | next id, INSERT | text order, concurrent creation, a loop that goes on after a failed flush | ids are unique and sequential; a lone creation succeeds |
| Test suites (`test_suite_service.py`) | the link table | add, remove, replace cases | no unique constraint; check then insert; concurrent DELETE | a case is linked once |
| Test cases (`test_case_service.py`) | rows of `test_cases`, their links | CRUD, approval, clone, CSV, bulk calls | deletion touches two tables | a deletion takes the links with it |
| Test runs (`test_run_service.py`) | status, timestamps, executions | transition, PUT, bulk calls | starting creates executions, three statements after it looked at `started_at` | one execution per linked case, created with the start |
| Executions (`execution_service.py`) | stored answers per execution | create, replace answers | answers are replaced as a whole | no saved answer is lost |
| Audit trail (`core/middleware.py`, `audit_service.py`) | rows of `audit_logs` | snapshot, handler, snapshot, row | three sessions around one change; a task nobody waits for | one row for a change, and the change it tells of |
| Browser session (`services/api.ts`, `authService.ts`, `useAuth.ts`) | `localStorage`, `isRefreshing`, `failedQueue` | call, 401, refresh, login, logout, reload | many calls run into one expired token; nothing is cancelled on logout | one refresh at a time, nobody forgotten, the tokens belong together |
| Access and routes (`App.tsx`, `ProtectedRoute.tsx`, `Layout.tsx`, `roleGuard.ts`, `ProjectContext.tsx`) | user, `isLoading`, path, project list | load, sign in, SSO, move about, sign out | a stored profile is older than the server's word; answers of two users cross | the guard believes the server; header and token are one person's; what is offered is served |
| List pages (ten tables of nine pages, `DataTable.tsx`, `useAutoRefresh.ts`) | filters, page, list, ticks, dialog | fetch, filter, turn, act, bulk, timer | overtaking answers; rows that vanish behind a dialog; empty last pages | the list answers the filters in sight |
| Form dialogs (nine dialogs of eight pages) | form, lists of choices | open, choose, type, save | dependent selects, late lists of choices, double presses | places agree; one dialog, one row; an edit stores what was chosen |
| Detail panels (eight that load, six that do not) | subject, parts | open, load stages, click | the answer for one subject arrives while another is shown | nothing of another is in sight |
| Execution page (`ExecutionPage.tsx`) | list, selected index, form, save in progress, uploads | select, answer, upload, save, save and next | handlers go on after an await with the state they were rendered with | answers are stored under the execution they were given for |
| Bulk edit form (`useBulkEdit.ts`) | enabled fields and their values | open, enable, apply | each changed field is a request of its own | part of the bulk actions of the list pages |
| User stories | rows | CRUD, two bulk calls | as defects, without a status table | as defects |
| Releases | rows with a status table | none that works | every write route passes arguments the service does not take | - |
| Projects, epics, modules, requirements | rows | CRUD, unique codes | check then insert, backed by unique indexes | codes are unique |
| Accounts, roles, password reset | users, roles, reset tokens | login, CRUD, reset | one-time tokens are read and cleared apart | a token is used once |
| Rate limiter (`core/middleware.py`) | a bucket per client and worker | take a token | floating-point time | at most burst + rate * time calls |
| Integrations, SSO, attachments, mail | rows, files, cookies | ingest, provision, upload | two systems, one of which has no transactions | both or neither |
| Dashboard, reports | none | aggregate | empty sets, zero denominators | equal to their definition |
| Migrations and start-up (`db/migrate.py`) | schema version | migrate | several workers at once | each migration once |

`PROJECT.json` lists the same components with their source files, and under
`hazards` the lines at which each of the difficulties bites.

How they interact: the frontend only through HTTP; the services through the
tables (a deletion of a test case deletes suite links, a start of a run reads
suite links and inserts executions, executions point at defects); sessions
only through committed rows, index entries and row locks; the pages among each
other through `localStorage`, the user and the shared project list.

## 2. The modules

| Module | Models | State | Composes |
|---|---|---|---|
| `GovernedRows` | session, repository, and the read-check-write handlers of an entity service | `row`, `unborn`, `lock`, `pend`, `req` | refines `AtomicRows` |
| `AtomicRows` | what clients are promised: a call is one step | `row`, `unborn` | |
| `DefectService` | the defect status table, columns and routes | | extends `GovernedRows` |
| `GovernedRows_proofs`, `HumanIds_proofs`, `SuiteRuns_proofs`, `AuditTrail_proofs`, `ListPages_proofs`, `FormDialogs_proofs` | theorems about the module they are named after | | extend it |
| `Session_proofs` | theorems about the two modules of the browser's session | | extends `Access` and `TokenRefresh` |
| `Screens_proofs` | theorems about the two screens whose answers come out of turn | | extends `ExecutionPage` and `DetailPanels` |
| `HumanIds` | the ids of test cases and defects, and the upload of a file | `stored`, `deleted`, `req` | |
| `SuiteRuns` | suite links, case deletion, starting and moving runs | `gone`, `link`, `run`, `execs`, `req` | |
| `AuditTrail` | the audit middleware around a handler | `row`, `deleted`, `call`, `trail` | |
| `TokenRefresh` | the axios interceptors and the tokens | `store`, `isRefreshing`, `call`, `leaving` | |
| `Access` | boot, sign-in, guards, menu, project list, and the roles the routes ask for | `access`, `profile`, `me`, `path`, `asks`, `projects` | extends `Pages` |
| `Pages` | the list pages as tables: filters, queries, actions, bulk actions | | |
| `ListPages` | the life of a list page | `q`, `list`, `fetches`, `ticks`, `work`, `db` | extends `Pages` |
| `Forms` | the form dialogs as tables: selects, what is stored, what is loaded | | |
| `FormDialogs` | the life of a form dialog | `form`, `options`, `asks`, `edit`, `calls`, `rows` | extends `Forms` |
| `Panels` | the detail panels as tables: opening, stages, failing, clicks | | |
| `DetailPanels` | the life of a detail panel | `open`, `subject`, `shown`, `veil`, `loads`, `calls` | extends `Panels` |
| `ExecutionPage` | the page on which runs are worked through | `db`, `list`, `form`, `save`, `uploads` | |
| `MCDefects`, `MCSuiteRuns`, `MCHumanIds`, `MCFormDialogs`, `MCExecutionPage` | call sets, tables and symmetry for TLC | | |

Definitions whose comment starts with "Fault:" are not part of the
specifications. Each is a plausible mistake in the definition that follows it
and shows, when it is put in its place, that a property notices. History
variables and fields are read by properties and never by guards: `overtaken`,
`met`, `cleared`, `pushed`, `crossed`, `crowded`, `spoilt`, `committed`, `upset`,
`been`, `sessions`, `trouble`, `hurried`, `clouded`, `outdated`, `told`,
`elsewhere`, `failed`, `given`, `erased`, `shuffled`, `behind`, `loggedOut`. Most
say that something out of the ordinary has happened, and each property names the ones it makes an exception for. Counters
such as `moves` and `mishaps` bound what users do and what goes wrong.

### GovernedRows and DefectService

`row[d]` is what is committed. `pend[r][d]` is what session `r` has sent in
UPDATEs and not committed, a partial function from columns to values; `View`
puts it over `row`, which is what a SELECT of `r` sees at READ COMMITTED.
`lock[d]` is the row lock an UPDATE takes and the end of the session releases.
`req[r]` is the control state of the handler: its call, the ids still to do,
the columns the identity map holds (`seen`), and the `{succeeded, failed}`
report.

One action is what happens between two awaits that another session can get
into: `Start`, the SELECT of `get_by_id` (`LoadFound`, `LoadMissing`,
`LoadDisallowed`), the second SELECT that `update()` makes after
`transition_status` (`ReloadFound`, `ReloadMissing`; it does not refresh the
loaded columns, because the identity map still holds the object), the flush
(`Flush`, `FlushNothing`, `FlushBadKey`), and `Commit`. `Changed` is how
SQLAlchemy decides which columns to write: those whose new value differs from
the one loaded, not from the one in the table. `Raise` follows the handlers:
a bulk method catches the error and goes on, every other handler lets
`get_session` roll back. `DeadlockVictim` is PostgreSQL's deadlock detection
and `Crash` a worker or client that goes away, which the database turns into a
rollback; both may happen at every point.

`DefectService` supplies `_VALID_TRANSITIONS`, the columns and, for each route,
the call it makes. `Columns` holds the columns the routes treat differently:
the status, the deletion flag, one ordinary column (`severity`), one with a
foreign key (`assigned_to`), and the pair that links a defect to a step.

`AtomicRows` is the abstract specification: a call that is answered with
success overlays its columns on the rows it reports, in one step.
`RequestsAreAtomic` is `Atomic!Spec` for
`Atomic == INSTANCE AtomicRows WITH row <- row, unborn <- unborn`.

### HumanIds

`stored` holds the ids of committed rows, deleted ones included, since the query
for the last id has no filter on `is_deleted`. A request has a list of rows to
create: one for `create_test_case`, `clone_test_case` and `create_defect`, any
number for the upload of a file, whose loop catches what a row raises. `ReadLast`
is the SELECT, `InsertDone` the flush, which waits for a session that holds the
same index entry (`Held`), and `InsertTaken` the flush the unique index refuses.
A row can also fail before anything is sent (`BuildFails`: the model class does
not know the column) or at the flush (`InsertRefused`). `FlushFails` is what
SQLAlchemy makes of the latter: the transaction is rolled back and every further
statement of the session is refused (`ReadRefused`), since the loop never calls
`rollback()`.

Ids are ordered as text: `TextAfter` compares the digits as a text comparison
would, for any `Base` and `Width` (10 and 4 in the code). `Finds[p]` are the
projects whose ids the pattern `TC-p-%` matches. Not covered is a code that
continues another with a digit after the hyphen, where the order of the two
texts depends on their numbers.

### SuiteRuns

One suite. What a session has flushed stays in its request record until
`Commit` applies it. `target` is the set of link rows a DELETE found when it
started: PostgreSQL fixes it there, waits for whoever is deleting one of them,
and skips what has gone. `LoadRun`, `Expand`, `Reselect`, `WriteRun` and
`Commit` are the parts of `transition_status`: its SELECT, the executions, the
second SELECT inside `BaseRepository.update`, the UPDATE and the end of the
session. `Reselect` is where a run that has been deleted meanwhile is not found:
the handler then ends without an UPDATE and the session commits the executions.
`Put` is PUT and DELETE `/testruns/{id}`, whose body is a raw dict: any status,
a cleared `started_at` and the deletion flag, alone or together; `cols` are the
columns that differ from what was loaded. No text such a body can carry is
accepted as a time, so a PUT cannot set one. `Init` lets a run be created with
any status, as POST does. `execs` counts what starts create. The add route loops over its ids and
`AddCase` is one round of that loop. Lists of `update_suite` have distinct
ids (it would link a repeated id twice). Links are identified by keys from a
finite pool, so `Links` bounds how many link rows are live at a time, and a
session that finds no free key cannot insert. `met` remembers that two requests
have been open at the same time, `cleared` the runs whose start time a PUT has
taken away, `pushed` those that a POST or a PUT gave a later status than "Not
Started".

### AuditTrail

What a handler writes does not matter here, so the state of an entity is a
version number and a handler is `Flush` and `Commit` (or `Refuse`, or
`CommitFails`), with the locks of `GovernedRows`. Around it are the steps of
`dispatch` and `_persist`: `SnapshotBefore`, `Answer` (which makes the task),
`Skip` (no user in the token), `SnapshotAfter`, `Insert`. The kinds of requests
are those the path and method tell apart: creations (whose id is found in the
answer), updates and sub-actions of an entity, deletions, sub-actions that change
another row (`aside`), deletions of a part (`detach`), and bulk calls, which
name no entity. `MissBefore`, `MissAfter` and `InsertFails` are the exceptions
the middleware swallows, `Crash` loses every handler and task of the worker. The
requirements admit FastAPI versions that commit before the answer and versions
that commit after it: `late` is chosen in `Init`, and with it the task can run
before the commit, or report a change whose commit then fails.

Logins, registrations and refreshes carry no bearer token and are never stored,
although `_persist` has names for them. Entities the snapshots do not know (JIRA,
CI) keep the request body only.

### TokenRefresh

JavaScript runs one callback at a time, so an action is what runs between two
awaits. A token is modelled by the user it was issued to; that it expires is
the choice between `Succeed` and the 401 actions, which the server may make for
ever. `RejectRetry`, `Enqueue`, `GiveUp` and `BeginRefresh` are the branches of
the response interceptor. The POST of a login (`Login`) goes through it like any
other call, so that a wrong password refreshes an old session or loads the login
page anew; `LoggedIn` is the handler that goes on with the tokens. `GiveUp`
returns with `isRefreshing` still set, as
the code does; `leaving` says that the navigation that clears it is under way.
`RefreshInit`, `RefreshNext` and the like carry the prefix because one module of
proofs is about this module and `Access`.

### Access

`access` and `profile` are what is in `localStorage`, the token with the role it
was issued for; `me`, `authed` and `booting` are the state of `useAuthProvider`.
`Load` is a page load, which asks for the profile if there is a token
(`BootAnswered`, `BootFailed`); `Submit` to `LoginUnprofiled` are the
requests and awaits of a login, with `LoginRefused` for a 401, which the
interceptor takes for an expired token (`SendToLogin`); `SsoReturn`, `SsoStored` and `SsoAnswered` the way back
from the identity provider. `Land` is the guard: wait, go to the login page, go
home, or stay. `Screens`, `Guard` and `Serves` are read off the pages, the guards
of their buttons (`utils/roleGuard.ts`) and the `RoleChecker` of the routes.
`told` says that the server has named the user in this page load, `failed` that
it could not be asked, `overtaken` that token and profile came from two sign-ins (the
token changed while a profile request was under way, or the page was loaded
between the two), `elsewhere` that the user signed in and has not been to the
dashboard since. Renewal of a token is one step here; `TokenRefresh` has its
inside.

### Pages and ListPages

`Pages` describes ten tables by what their code says: which control of the page
belongs to which filter, which filters a query sends, which of them its
callback depends on and which of them the route and the repository apply, the
actions of a row with their guard and effect, the requests behind each bulk
action in order, whether the timer refreshes it. The server applies every filter
but the type of the test cases (`TestCasesUnheard`): the route hands it on as
`test_type` (`routes/test_cases.py:73`), and the repository drops a key that is
no column (`test_case_repository.py:105`, `base.py:64`).
`ListPages` picks a page and the filter the user plays with in `Init` and runs
it. `Selected` is what a query asks for, `Answer` what the server makes of it. A
fetch carries the query of the rendering that sent it; `Serve` is the database answering and `Arrive` the
answer reaching the page, which drops ticks that are not on it. An action is
asked for, confirmed where there is a dialog, sent, done, and ended by another
fetch (`Act`, `ActOnTicks`, `Confirm`, `Perform`, `NextCall`, `Finish`); a bulk
action may be several requests, each of which may fail. `upset` marks answers
that overtook each other, failures, another user's changes, and a filter changed
under an action.

### Forms and FormDialogs

`Forms` has, per dialog, the selects with what each choice empties and offers,
what is stored, what must be chosen, and what opening for an existing row loads.
`FormDialogs` runs it: `Pick` a project, epic or story and the selects below
follow; the list of test cases is asked for (`asks`) and arrives when it does;
`Press` saves what is in the form, `Serve` stores it, `Answered` closes whatever
dialog is open by then. A form with `id = 0` makes a row. `base` and `touched`
remember what the form was filled with and what the user chose: the row as the
list had it (`listed`, which `Relist` reads again), or as loaded for the dialog
(`AskEdit`; a suite with `EditLoaded` and `EditShown`, a link to a defect with
`LinkShown`). `tree` says where epics, stories and cases are and `known` what the
page has read of that (`Reread`). `Move` takes one of them elsewhere, an epic to
another project as its own dialog does, and leaves alone what lies in it; `been`
remembers where each has ever been. `Rehang` is the
bulk change of the epic of user stories, which leaves their project alone.
`trouble` collects what a user did in a hurry (`hasty`, `impatient`), an answer
that was lost (`doubtful`), and a `rehung` story.

### Panels and DetailPanels

A panel is about a subject and has parts, loaded in stages: the dialogs behind a
row, the edit dialog's attachments, the pages for one case and for the runs of a
project, the bug search, the dashboard. `Panels` says what opening copies and
empties, what each stage asks for, which parts a failure keeps, what is hidden
meanwhile (the whole panel, nothing, or, on the reports page, only its lists: the
run chosen before stays chosen), and which clicks it has. `DetailPanels` opens one
on one subject after another. A row that is not asked for is copied from the list
behind the dialog, which has it as it was when the list was read (`RowsListed`);
`outdated` says that this was not as stored. The link to a defect opens its edit
dialog over whatever is open. Nothing is cancelled but where the code has a cancelled
flag (`guarded`), so an answer is written into the state whatever is shown by
then. `hurried` says that something began before another thing was over,
`clouded` that something failed or somebody else wrote since the last opening.

### ExecutionPage

An answer is a mark, and `given[m]` remembers for which execution the tester
gave it. `save.list` is the closure of `handleSave`: the list and the index the
handler was rendered with, which it goes on using after its two awaits. The
order in which the list comes back is chosen freely each time, because the
query has no ORDER BY. A page is opened anew only when no request of it is
under way. Lists of defects per step, the dialog that attaches one, and
completing the run are left out (the dialog's search is in `Panels`).

## 3. Runs

| Run | Bounds | Shows |
|---|---|---|
| `DefectCalls` | 2 rows, 2 sessions; three bulk calls in crossed orders, with a repeated id and an unknown assignee, an attachment, a PUT and a transition | `SessionInv`, `DeletionIsFinal`, `UndisturbedStepsFollowTable`, `NoUnreportedChange`, `RequestsAreAtomic`, and with fairness `EveryRequestEnds` |
| `DefectsRace` | 2 rows, 2 sessions, transitions and deletions | violation of `GovernedStepsFollowTable` |
| `SuiteRaces` | 1 case, 1 run, 3 link rows, 2 sessions, starts up to 2 executions of a case; every call, PUTs of two statuses, of a cleared start time, of both, and deletions | `SuiteInv`, `ExecutionsComeWithTheStart`, `ActiveRunsAreStarted`, `LinksAreASet`, `OneExecutionAlone` |
| `SuiteStartedTwice` | 1 case, 1 run, 2 sessions | violation of `OneExecutionPerCase` |
| `IdsUnderCreation` | 2 projects, one found by the pattern of the other, 2 sessions, base 3, width 1, 4 ids, 1 deletion, files of up to two rows | `IdsInv`, `NumbersAreSequential`, `LoneCreationsSucceed`, and with fairness `EveryCreationEnds` |
| `AuditedChanges` | 2 entities, 2 requests, 2 mishaps | `TrailInv`, `RowsTellTheChange`, and with fairness `ChangesAreAudited` |
| `RefreshQueue` | 4 calls, 2 of which fetch profiles and 1 is a login, 1 user | `RefreshInv`, `TokensStayTogether`, and with fairness `EveryCallSettles` |
| `AccessGranted` | 2 users of any role, 3 places, 4 moves, 2 mishaps | `AccessInv`, `AdmittedOnTheServersWord`, `SessionIsOnes`, `OffersAreHonoured`, `ProjectsAreThere` |
| `ListsFresh` | ten tables and each of their filters, 2 rows on pages of 1, 3 fetches, 3 moves | `ListInv`, `ListAnswersTheQuery`, `NobodyIsStranded`, and with fairness `ListCatchesUp` |
| `FormsKeepPlaces` | nine dialogs, 2 projects with an epic each, 1 story, 2 cases, each in one of 3 places, lists of 1 case, 2 rows, 2 lists and 2 saves under way, 3 choices, 3 clicks, 1 mishap or move | `FormInv`, `StoredPlacesAgree`, `OneRowPerForm`, `EditsStoreWhatWasChosen` |
| `PanelsShowTheirSubject` | fourteen panels, 2 subjects, 2 loads, 4 moves, 2 mishaps | `PanelInv`, `ShowsWhatIsStored`, `NothingOfAnother` |
| `ExecutionsSaved` | 2 executions, 3 answers | `PageInv`, `AnswersAreFiledRight`, `SavedAnswersStay` |

Why the bounds are enough. Two sessions are what a lost update, a stale check
and a deadlock cycle take; a third can only overtake one of them once more,
and the proofs of section 4 hold for any number. Two rows and lists of
two ids are the smallest instance with a lock cycle and with a bulk call that
fails half-way. With three link rows one session can delete a row, another link
the case twice over, and the first insert again; two executions of a case are
one too many. Checked once, without an error, was
`AccessGranted` with five moves. Ids of base 3 and width 1 outgrow their padding
with the third row, so that four rows show the order beyond it; two rows in a
file are one that fails and one that follows it. Two audited requests are one
whose snapshots are taken and one that commits in between; two mishaps let a
snapshot and a commit, or two parts of one request, fail. Four calls are one
that refreshes, two that wait in the queue or come late, and a login; two users of
`Access` are needed for one to get the other's data, while nothing that is checked
of `TokenRefresh` tells users apart. Two pages of one row are the
smallest list whose last page can become empty; two list requests are what
one needs to overtake the other, and with a third the timer, which leaves room
for one more, fires while a fetch is under way. Two places of each level tell a right one from
a wrong one, and a list limited to one case leaves another one out. Two subjects
and two loads are one panel that is left and one that is opened before the
answer. Three answers on two executions make one stored, one in the form and one
under way.

Constants that only bound: `Rows`, `Requests`, `Links`, `Calls` (`TokenRefresh`,
`AuditTrail`), `Marks`, `MaxIds`, `MaxDeleted`, `RowCount`, `PageSize` and
`ListLimit` (100 in the code), every constant that starts with `Max`, and the
lists of two ids in `MCDefects`. `Crash` of `GovernedRows` and `HumanIds` has no
bound, and a page can be reloaded for ever.

### What the passing runs say

* `SessionInv` and `RequestsAreAtomic`: a handler that was overtaken between
  SELECT and UPDATE writes only columns its call names. Replacing `FlushedTo`
  by an UPDATE of the whole row, as an ORM without change tracking would send
  it, violates `RequestsAreAtomic` and `DeletionIsFinal`.
* `UndisturbedStepsFollowTable`: the check of `transition_status` is exact as
  long as nobody else commits to the row in between; `DefectsRace` shows that
  the proviso is needed.
* `NoUnreportedChange`: whatever changes has been reported as succeeded, and a
  request that ends in an error changes nothing, with bulk calls that fail
  half-way, deadlock victims and crashes included.
* `EveryRequestEnds`: bulk calls do lock rows crosswise, and the database's
  deadlock detection is what ends the wait.
* `IdsInv`, `NumbersAreSequential`, `LoneCreationsSucceed`: the unique index, and
  not the query, keeps ids apart; ids have no gaps, since a deleted row keeps
  its number and a failed creation gives it back; a creation finds its id taken
  only if another one came in between, if the project is past 9999 (then the
  greatest text stays "9999" and every further creation answers 500), or if its
  pattern finds another project's last id. `EveryCreationEnds`: waiting for an
  index entry ends, whoever gets it.
* `ExecutionsComeWithTheStart` and `ActiveRunsAreStarted`: executions and
  `started_at` appear in the same commit, and no route of overlapping
  transitions, resets and deletions leads past "Not Started" without it. Both
  name what breaks them. A PUT can take the time away (`cleared`) or give a
  later status without one (`pushed`), since it writes what it names
  (`base.py:115`); a run that is deleted between the two SELECTs of its start
  gets its executions without a start, and the route reports a success
  (`base.py:111`, `test_run_service.py:109`).
* `LinksAreASet` and `OneExecutionAlone`: sequentially the code keeps both, so
  what `SuiteStartedTwice` finds is due to overlap alone. The exception is a run
  whose `started_at` a PUT has cleared: it can be started again by one client,
  and then has each case twice.
* `SuiteInv` holds the reasons: what a session can have flushed in each phase,
  and that a transition ends without its UPDATE for deleted runs only.
* `TrailInv`, `RowsTellTheChange`, `ChangesAreAudited`: the trail shows no change
  nobody made, and leaves none out unless a snapshot, the row or the worker was
  lost. With a session that commits before the answer the snapshots enclose the
  change, and are exact unless another request changed the entity in between;
  with one that commits after it only the old one can be relied on.
* `RefreshInv`, `TokensStayTogether`, `EveryCallSettles`: the queue of the
  interceptor loses nobody and no call refreshes twice, even against a server
  that always answers 401. The only way to an access token without a refresh
  token is a logout during a refresh.
* `AdmittedOnTheServersWord`, `SessionIsOnes`: a stale profile in `localStorage`
  admits nobody unless the server could not be asked, and header, profile and
  token are one person's unless the token was replaced while a profile request
  was under way, or a page load came between the tokens of a sign-in and its
  profile. `OffersAreHonoured`: the menu leads only where the guard lets
  in, and each button is served for the role that sees it; the exception is New
  Project for QA engineers. `ProjectsAreThere` has the exception its comment names.
* `ListAnswersTheQuery`: in all ten tables every filter in sight is sent, is a
  dependency of the fetch and is applied by the server, and every action fetches
  again; dropping one filter from one query breaks it. The exception it names is
  the type of the test cases: the list under it is the unfiltered one. `ListInv`: bulk actions are about rows on the screen.
  `NobodyIsStranded`: the pager leads back from a page that emptied.
  `ListCatchesUp`: with the timer no mishap lasts.
* `FormInv`, `StoredPlacesAgree`: choosing a project empties what is below it in
  every form, so that stored rows sit in one place, now or, when an epic, story
  or case has been moved, before: no row follows what it hangs from. The provisos
  are the bulk change of an epic and a list of cases that was not waited for.
  `OneRowPerForm`: a second row takes a second press or a lost answer.
  `EditsStoreWhatWasChosen`: an edit is the loaded row with what was chosen.
* `ShowsWhatIsStored`, `NothingOfAnother`: panels used one thing at a time are
  right, and what a failure leaves behind is known. Two exceptions are in the
  formulas: a row copied from a list that was behind stays as it was there, and on
  the reports page the run chosen before stays chosen, and can be exported, until
  the runs of the other project have come.
* `PageInv`, `AnswersAreFiledRight`, `SavedAnswersStay`: failing requests, saves
  followed by a move and other testers do not mix answers up. The provisos
  are exact: `shuffled` (the tester moves on while a request is under way, or
  the list is reordered) and `behind` (another tester, or a reload that failed).

### What the violation runs show

Each is a finding in `PROJECT.json` with the comment or docstring it is held
against.

* `DefectsRace`: two transitions read the same status; the second writes a step
  from a status it never saw.
* `SuiteStartedTwice`: two starts of one run create its executions twice.

### Seen while reading

Behaviour of the code the models contain or the provisos exclude, without a run
of its own.

* Defects: PUT `/defects/{id}` stores any status, past the table
  (`defect_service.py:98`); a row deleted between the two SELECTs of a bulk
  transition is listed as succeeded (`defect_service.py:122`); an unknown
  assignee fails a whole bulk call (`defect_service.py:246`); bulk calls in
  crossed order deadlock and one answers 500.
* Suites and runs: a case can be linked while or after it is deleted
  (`test_case_service.py:159`, `test_suite_service.py:137`), after which listing
  suites tries to write the collection it filtered
  (`test_suite_repository.py:62`); once a case is linked twice, every further add
  fails (`test_suite_service.py:154`); a run put back to "Not Started" keeps
  `started_at`, so that its next start creates no executions for cases linked
  since.
* Ids: the pattern of project PR also finds the ids of a project PR-X (and `_`
  in a code is a wildcard), which can stop creations in PR; a failed flush in an
  upload dooms all of it, and where FastAPI commits after the answer its report
  is of rows that are not stored. The PUT route says it creates a version
  (`routes/test_cases.py:136`), but `create_version` is never called. The code of
  a deleted project and the e-mail of a deleted user cannot be used again.
* Audit trail: a DELETE of a part (a bug of a step, a case of a suite, an
  attachment) is logged as a deletion of the whole entity, with its full row in
  `old_values`; attaching a bug shows the execution unchanged; bulk calls give
  one row without an id; the second snapshot is taken after the answer, so one
  client's next call can already be in it; the task is held by nobody
  (`asyncio.create_task`, `middleware.py:278`).
* Routes: every write of releases passes arguments its service does not take;
  approving a test case, the dashboard routes, the list of modules and the JIRA
  link of a requirement call service methods that do not exist. All answer 500.
  Most other writes ask for a token only. The role is in the token, so that a
  new role or a deactivation needs a new token. The clearing of an expired reset
  token is rolled back by the error raised next (`auth_service.py:200`).
* Browser session: a late answer to the previous user's `/users/me` overwrites
  the profile of the user signed in since. A wrong password is a 401, on which the
  interceptor loads the login page anew: the message of `LoginPage.tsx:59` and the
  page asked for are lost. A refresh of the session before that is answered after
  the tokens of a login have been stored replaces the access token by one of the
  session before. No request has a time-out.
* Access: the project list is empty after a sign-in that leads elsewhere than
  the dashboard, whatever `ProjectContext.tsx:38` says; auditors are admitted to
  the audit page but find no link to it; QA heads would be offered what
  `UsersPage.tsx:575` guards but are not let in; only administrators and QA heads
  may list users, so that for others the lists of assignees hold themselves.
* Lists: the Type filter of the test cases narrows nothing, the failure that the
  header of `tests/integration/test_search_filter.py` describes for `search`,
  where it is mended. `useAutoRefresh` does not reset its timer on a manual fetch, as its
  comment says it does.
* Forms: an edit overwrites what others changed since; a late answer to a save
  closes whatever dialog is open; editing a suite keeps only linked cases among
  the first hundred listed (`TestSuitesPage.tsx:254`); suites do not store the
  epic and story they ask for; the dialog of an epic moves it to another project
  (`RequirementsPage.tsx:1470`, `epic_service.py:74`) and leaves its stories, cases
  and defects with the old one; duplicate titles are looked for on the page shown only.
* Panels: dialogs show the row as their list had it (`TestRunsPage.tsx:493`,
  `DefectsPage.tsx:510`); on the reports page another project leaves the run of
  the one before chosen, with its exports enabled, until the new list is there
  (`ReportsPage.tsx:86`, `ReportsPage.tsx:146`); the answer to a transition is written into whichever defect is open;
  late answers of an earlier subject overwrite, and its end lifts the veil;
  overlapping removals by index drop the wrong chip; the server deletes an
  attachment by its id whatever defect the path names; a case that cannot be
  loaded leaves a spinner.
* Execution page: an upload that ends after the tester has moved on puts the
  file into the form of another execution (`ExecutionPage.tsx:228`); what is
  typed during a save is replaced by the reload; "save and next" moves on after a
  save that failed (`ExecutionPage.tsx:308`).

### Fairness

* `GovernedRows!Fairness`. Weak fairness of `Proceed`: the event loop runs a
  handler whose await has completed. Strong fairness of `TakeLock`: a lock is
  free only from time to time, and PostgreSQL grants it in the order of asking.
  Weak fairness of `DeadlockVictim`: deadlock detection runs after
  `deadlock_timeout`. Nothing is assumed of `Start`, `Create` and `Crash`.
* `HumanIds!FairSpec`. The same: weak fairness of `Proceed`, strong fairness of
  `InsertDone`, which waits for an index entry.
* `AuditTrail!Fairness`. Weak fairness of `Handler` and `Task`: the event loop
  runs handlers and tasks whose await is over. Nothing is assumed of `Flush`.
* `TokenRefresh!FairRefreshSpec`. Weak fairness of `Response`: axios settles every
  request in some way, a network error included; which way is open, so that
  the server may answer 401 for ever. Weak fairness of `Leave`: the browser
  carries out a navigation. `EveryCallSettles` assumes that the user does not
  go on logging in or reloading the page for ever.
* `ListPages!Fairness`. Weak fairness of `Tick`: the browser calls the timer. Weak
  fairness of each request under way: it is answered or fails.
* The other specifications have safety properties only.

`ListsFresh`, `FormsKeepPlaces`, `PanelsShowTheirSubject`, `AccessGranted` and
`AuditedChanges` say CHECK_DEADLOCK FALSE: their bounds stop the users. The
other passing runs check for deadlock: each system always has a request it can
still take.

## 4. Proofs

The theorems hold for every value of the constants that satisfies the
assumptions named below; each assumption is an ASSUME of the module it is about
and TLC evaluates it in the runs. "States" names the property of section 3 the
theorem is about, `Spec => []` left out.

| Module | Theorem | States |
|---|---|---|
| `GovernedRows_proofs` | `TypeCorrect` | `TypeOK` |
| | `LocksAreWrites` | `LocksMatchWrites` |
| | `SessionsAreSound` | `SessionInv` |
| | `DeletedStaysDeleted` | `DeletionIsFinal` |
| | `UndisturbedTransitions` | `UndisturbedStepsFollowTable` |
| | `ChangesAreReported` | `NoUnreportedChange` |
| | `SessionsAreAtomic` | `RequestsAreAtomic`, that is `Spec => Atomic!Spec` |
| `HumanIds_proofs` | `IdsStayUnique` | `IdsInv` |
| | `NumbersStaySequential` | `NumbersAreSequential` |
| | `LoneCreations` | `LoneCreationsSucceed` |
| `SuiteRuns_proofs` | `SuitesAreSound` | `SuiteInv` |
| | `ExecutionsAreStarted` | `ExecutionsComeWithTheStart` |
| | `RunsAreStarted` | `ActiveRunsAreStarted` |
| | `LinksStayASet` | `LinksAreASet` |
| | `ExecutionsStaySingle` | `OneExecutionAlone` |
| `AuditTrail_proofs` | `TrailIsRight` | `TrailInv` |
| | `SnapshotsTellTheChange` | `RowsTellTheChange` |
| `Session_proofs` | `RefreshIsSingle` | `RefreshInv` |
| | `TokensArePaired` | `TokensStayTogether` |
| | `SessionIsConsistent` | `AccessInv` |
| | `GuardTakesTheServersWord` | `AdmittedOnTheServersWord` |
| | `SessionStaysOnes` | `SessionIsOnes` |
| | `OffersStayHonoured` | `OffersAreHonoured` |
| | `ProjectsStayThere` | `ProjectsAreThere` |
| `ListPages_proofs` | `ListsAreSound` | `ListInv` |
| | `ListsAnswer` | `ListAnswersTheQuery` |
| | `NobodyStaysStranded` | `NobodyIsStranded` |
| `FormDialogs_proofs` | `FormsAreSound` | `FormInv` |
| | `PlacesAgree` | `StoredPlacesAgree` |
| | `RowsAreSingle` | `OneRowPerForm` |
| | `EditsAreFaithful` | `EditsStoreWhatWasChosen` |
| `Screens_proofs` | `FormIsRight` | `PageInv` |
| | `AnswersAreFiled` | `AnswersAreFiledRight` |
| | `SavesAreKept` | `SavedAnswersStay` |
| | `PanelsAreSound` | `PanelInv` |
| | `PanelsAreUpToDate` | `ShowsWhatIsStored` |
| | `PanelsKeepToTheirSubject` | `NothingOfAnother` |

### GovernedRows

For every set of rows, sessions, columns, values and calls and for every status
table. Assumptions: the columns include `status` and `is_deleted`, which is a
Boolean (`ColumnsAssumption`); the table leads to statuses it knows and never to
the one it starts from (`TableAssumption`; all four tables of the backend do);
created rows are well-formed and not deleted (`NewRowsAssumption`); `Nobody` is
no session; calls are well-formed, a governed call sets the status only, and
a call that is not a bulk call names one row (`CallsAssumption`). That no call
clears `is_deleted` is not assumed: a deleted row is never loaded, and `Changed`
leaves a column out that is already false.

`SessionInv` is inductive, and each of its parts is needed by the next:

1. `TypeOK`, with `Serving` (an open handler serves one of the calls), is
   inductive alone.
2. `LocksMatchWrites`: a session holds a lock exactly as long as it has
   uncommitted columns in that row. So a commit of another session cannot touch
   a row this one has written.
3. `HandlersServeCalls` and `WritesAreNamed`: what is flushed was asked for by
   the open call, in a row that exists and is down as succeeded, and never
   clears the deletion flag. This gives `NoUnreportedChange`, `DeletionIsFinal`
   and the steps of `AtomicRows`.
4. `LoadedRowIsKnown`: between SELECT and UPDATE the loaded status is the one
   in the table, unless another commit overtook the handler.
5. `FlushedStepsFollowTable`: 4 carried over from the SELECT to the COMMIT, by
   the row lock of 2. This gives `UndisturbedStepsFollowTable`.

`MovesStep` sorts the thirteen actions into five kinds of step (silent,
rollback, commit, flush, create), so that the lemmas about locks and named
writes have five cases each. The refinement proof (`CommitApplies`,
`SessionsAreAtomic`) maps `Commit` to `Apply`, `Create` to `Insert` and all
other actions to stuttering.

### HumanIds

For any number of projects and requests and for files of any length.
Assumptions: the base is at least 2, the width at least 1, a pattern finds the
ids of its own project, and an order of the projects' codes is given as distinct
ranks.

The text order is where the difficulty is. `TextAfter` is shown to be a strict
linear order on the ids, from facts about powers of the base (a number below the
width is padded, a longer one is compared by its leading digits), and therefore
every finite set of ids has exactly one last element, which is what `ReadLast`
returns. Until the digits run out the text order agrees with the numbers. The
parts of the invariant that carry a creation over its awaits are
`RowsAreTakenInTurn` (how far it is with its rows), `NextIsNext` (what `ReadLast`
found is still the next number, unless another creation crossed) and `IdsFollow`
(where a pattern finds no other project's ids, each id, stored, flushed or about
to be, has the one before it). Two facts about powers need an induction; it is done with the least counterexample, which exists by the
well-foundedness of `<`.

### SuiteRuns

For any number of cases, runs and sessions, with finite sets of cases and link
rows, and for any subset of the calls the routes make.

What a session has flushed decides everything, and so the invariant says what a
request record may hold: `PhasesServeCalls` (in each phase, which calls can be
there and which fields can be filled), `OnlyDeletedRunsAreSkipped` (a transition
that commits without its UPDATE is one of a deleted run, and no commit undoes a
deletion), `StartsAreStamped` (a handler on its way past "Not Started" has the
stamp in hand, or the run has it already, or the history says who took it away
or moved the run on; this is what overlapping transitions, resets and deletions
do not break), `AloneSessionsAreRight` (as long as no two requests were open
together, the open one replaces all there is, leaves no case twice, and creates
executions only for a run that is neither started nor deleted).

### AuditTrail

For any number of entities, requests and mishaps, with both orders of commit
and answer; what stands for an empty snapshot is assumed to be no version. The row of a request is determined by its record once its task is
over (`RowIsOfItsRequest`); the task follows the handler (`TaskFollowsHandler`);
and `SnapshotsEnclose` says where the version of the entity can be at each
phase, seen from the two snapshots: before the commit it has gone ahead of the
old snapshot by other people's commits only, after the commit the new snapshot
has gone ahead of what was written by the same.

### TokenRefresh and Access

For any number of calls, users, roles of users and paths. Assumptions: some
calls fetch profiles, a page is called "/", and the placeholder for nobody is no
user.

`BrowserInv` is `SingleFlight`, `QueueIsServed`, `RefreshIsBacked` and
`TokensStayTogether`, and is inductive as a whole: the first two need that a
refresh under way is what keeps the queue, the last two that its token is the
one in the store. For `Access`, `AsksAreInPlace` (one request of a kind, a
sign-in only where the form is), `StorageAgrees` (token, profile and user, as
far as a request is not about to replace one of them) and
`AdmittedOnTheServersWord` are inductive together; `ProjectsAreAskedFor` gives
`ProjectsAreThere`, and what is offered and served is a fact about the tables
of `Pages`.

### ListPages

For each of the ten tables, any number of rows, size of a page and number of
requests. The tables are first proved good (`TablesAreGood`: every filter is
sent, is a dependency of the fetch and, but for the type of the test cases, is
applied by the server; every bulk action sends requests of a known kind), so that the rest of the proof is about any good table.
`NewestIsCurrent` says that the newest fetch asks for what is chosen; the list
at rest is its answer. `NobodyIsStranded` is arithmetic on pages and rows.

### FormDialogs

For each of the nine dialogs and any projects, epics, stories, cases and rows,
with any number of requests, answered in any order, and any of them moved at any
time. Assumed is that at first an epic is in a project and a story in an epic.

The tables are proved good (`TablesAreGood`: a choice empties what is below it,
what is stored of a place is loaded again, a stored level is stored with the one
above it). For a good table each form, on the screen or in a request, is placed
(`FormIsPlaced`: its epic is or has been of its project, its story of its epic, its
cases of its place, or it is marked; what has been stays true while things move,
`PlacedForEver`, and what the page believes has been, `WorldOK`) and is as loaded where nobody touched it
(`IsAsLoaded`). Rows get their place from forms, which is `StoredPlacesAgree`,
and an edit is the loaded row with what was chosen, which is
`EditsStoreWhatWasChosen`. `OneRowPerForm` is a property of sessions of a
dialog, so the invariant numbers them (`DialogsAreNumbered`) and says that a
patient user has one save under way for each (`OneSaveOfEach`), and no row
before that save is answered (`NoRowBeforeItsSave`, `NoRowOfTheDialog`).

### ExecutionPage

For any finite set of executions that is not empty and any set of marks.
`FormIsCurrent` and `ListIsFiledRight` are inductive with `AnswersAreFiledRight`:
the form is of the execution selected, in the list on the screen and in the one
a save has kept, or a proviso of the property holds. `NothingIsMissing` says
that form, list and save have all that is stored but what the tester took out,
unless somebody else wrote or a reload failed; with it a save loses nothing
(`SavedAnswersStay`).

### DetailPanels

For each of the fourteen panels, any set of subjects that is not empty, and any
number of loads, calls, moves and mishaps. The tables are proved good
(`TablesAreGood`: what a panel neither copies nor empties at opening is asked for
at once, and is hidden meanwhile or known to lag; a status is changed only in a row
that was copied and is not loaded; who attaches a bug loads the bugs last).

`PanelInv` is inductive as a whole. `StoredUnderItsSubject` and `CallsMakeItems`
say whose the items are that are stored, read and made, and need nothing else.
`OneThingAtATime` is what unhurried use means: one load or one call is under way
at most, and it is about the subject shown. On it rest the other parts:
`VeilIsBacked`, `PartsAreOfTheSubject` (each part is of the subject, or is still to
come and hidden or lagging, or a failure has kept it), which gives
`NothingOfAnother` (the run chosen for export is in the list, `PickedIsListed`, which
is the project's once it has come), and `PartsAreCurrent` (each part will be as stored when the
call under way is answered (`Due`), or is on its way in the load (`Coming`), or is a
row copied from a list that was itself `outdated`), which gives `ShowsWhatIsStored`
as soon as nothing is under way. A removal names a place in the list and the server an id: that both mean the same row needs that no
attachment is listed twice, which is a part of `StoredUnderItsSubject`. That
`ItemsOf` keeps a list all of whose items belong, and nothing else, is shown
through a least counterexample, since it is defined by recursion.

### Not proved

Every safety property of a passing run is a theorem. Out of the prover's reach:
liveness under fairness (`EveryRequestEnds`, `EveryCallSettles`,
`EveryCreationEnds`, `ChangesAreAudited`, `ListCatchesUp`), anything with ENABLED, and induction over data through the
library's induction theorems, which take operators as parameters; the inductions
`HumanIds` and `DetailPanels` need go through a least counterexample instead.

## 5. What the models leave out

* Outside `AuditTrail` a request is answered at its commit.
* A PUT that sets the primary key, reads that only page and filter, sorting,
  exports, and the wording of messages.
* The files behind attachments.
* Foreign keys are modelled where a service leaves it to them to refuse a
  value (`Dangling`).
* `SuiteRuns` has one suite, which is not deleted, and whose runs stay in it: a
  PUT of a run's suite is left out, and so are executions that POST
  `/executions` or CI ingestion add to a run, which need no start.
* In the pages: validation of single inputs, charts, pictures, languages and
  colour modes; React's double effects of StrictMode, which development builds
  have only; "All Projects" on the reports page, whose list has the runs of all
  of them. Pages are modelled one at a time: what a dialog and the list behind
  it share is the fetch that follows a save.

Not modelled, with the reason (the list with source files is in
`PROJECT.json`): releases (no write of theirs works); rate limiter (a sequential
computation over floating-point time); mail (no state); dashboard and reports
(read only); migrations (Alembic's); configuration, logging and schemas (static).
Accounts, integrations, SSO on the server, and the files of attachments are left
for an extension.

## 6. Plan

What has been done of the first plan: `GovernedRows`, `SuiteRuns`,
`TokenRefresh`, `ExecutionPage`, `HumanIds`, `AuditTrail`, and the frontend, for
which four pairs of table and behaviour took the place of a module per page.

Every safety property of a passing run is a theorem.

Left, in this order:

1. `Accounts`: one-time reset tokens, checks of e-mail and role names before
   writes; then CI ingestion next to `SuiteRuns`, and the files of attachments.
2. `GovernedRows` with the tables of user stories, test cases (approval) and
   runs.
