------------------------------- MODULE Access -------------------------------
(***************************************************************************)
(* Who gets to see and do what in the browser client: the profile kept by  *)
(* hooks/useAuth.ts, the guards of App.tsx and ProtectedRoute.tsx, signing *)
(* in (by password or SSO) and out, the project list that                  *)
(* contexts/ProjectContext.tsx shares with all pages, and the buttons of   *)
(* the list pages (module Pages) against the roles the routes ask for.     *)
(*                                                                         *)
(* One browser, one tab.  localStorage (access, profile) outlives a page   *)
(* load, all else starts afresh.  Expired tokens, which TokenRefresh       *)
(* models, are one step here: renewed, or the session is over.             *)
(***************************************************************************)
EXTENDS Pages

CONSTANTS
    Users,
    Places,         \* the protected paths that are visited
    None,
    MaxMoves,       \* bounds what the user does
    MaxMishaps      \* bounds failures and changes of a role

Roles == {"admin", "qa_head", "qa_engineer", "developer", "auditor", "viewer"}

Profiles == [user : Users, role : Roles \cup {"unknown"}]

ASSUME ConstantsAssumption ==
    /\ "/" \in Places
    /\ None \notin Profiles
    /\ MaxMoves \in Nat /\ MaxMishaps \in Nat

VARIABLES
    roleOf,         \* the database: everybody's role
    access,         \* localStorage accessToken: None or [user, role]
    profile,        \* localStorage user: None or [user, role]
    me,             \* the user of AuthContext
    authed,         \* isAuthenticated, as computed when the user was last set
    booting,        \* isLoading
    path, from,     \* where the browser is, where a login leads
    projects,       \* the project list has been loaded
    asks,           \* requests under way: [kind, user, step, to]
    told,           \* history: in this page load the server has said who it is
    elsewhere,      \* history: signed in without passing by the dashboard
    overtaken,      \* history: token and profile came from two sign-ins
    failed,         \* history: a request failed in this page load
    moves, mishaps  \* history: count up to MaxMoves, MaxMishaps

storage == <<access, profile>>
session == <<me, authed, booting>>
place == <<path, from>>
history == <<told, elsewhere, overtaken, failed>>
counts == <<moves, mishaps>>
vars == <<roleOf, storage, session, place, projects, asks, history, counts>>
----------------------------------------------------------------------------
(* Roles and guards *)

\* Fault: QA heads manage the users too.
GuardWithHeadsManaging(guard) ==
    CASE guard \in {"canEdit", "canExecute"} -> {"admin", "qa_head", "qa_engineer"}
      [] guard \in {"canApprove", "canDelete", "canManageUsers"} -> {"admin", "qa_head"}
      [] guard = "canViewAudit" -> {"admin", "auditor"}
      [] OTHER -> Roles

\* utils/roleGuard.ts: who a button is shown to.
Guard(guard) ==
    CASE guard \in {"canEdit", "canExecute"} -> {"admin", "qa_head", "qa_engineer"}
      [] guard \in {"canApprove", "canDelete"} -> {"admin", "qa_head"}
      [] guard = "canManageUsers" -> {"admin"}
      [] guard = "canViewAudit" -> {"admin", "auditor"}
      [] OTHER -> Roles

\* The routes of App.tsx behind the Layout, and whom they let in.
Admits(p) ==
    CASE p \in {"/users", "/roles"} -> {"admin"}
      [] p = "/audit" -> {"admin", "auditor"}
      [] OTHER -> Roles \cup {"unknown"}

Screens ==
    [p \in {"/projects", "/requirements", "/test-cases", "/test-suites",
            "/test-runs", "/defects", "/users", "/roles", "/audit"} |->
        CASE p = "/projects" -> {ProjectsPage}
          [] p = "/requirements" -> {EpicsTab, StoriesTab}
          [] p = "/test-cases" -> {TestCasesPage}
          [] p = "/test-suites" -> {TestSuitesPage}
          [] p = "/test-runs" -> {TestRunsPage}
          [] p = "/defects" -> {DefectsPage}
          [] p = "/users" -> {UsersPage}
          [] p = "/roles" -> {RolesPage}
          [] p = "/audit" -> {AuditPage}]

\* RoleChecker in the routes behind a screen: most ask for nothing but a token.
Serves(p, action) ==
    CASE p = "/users" /\ action = "view" -> {"admin", "qa_head"}
      [] p = "/users" -> {"admin"}
      [] p = "/roles" /\ action # "view" -> {"admin"}
      [] p = "/audit" -> {"admin", "auditor"}
      [] p = "/projects" /\ action = "new" -> {"admin", "qa_head"}
      [] OTHER -> Roles

\* The menu of the Layout.
Menu(role) ==
    {"/", "/projects", "/requirements", "/test-cases", "/test-suites",
     "/test-runs", "/defects", "/reports"}
    \cup {p \in {"/users", "/roles", "/audit"} : role \in Guard("canManageUsers")}
----------------------------------------------------------------------------
(* Where a path leads *)

Public == {"/login", "/sso/callback"}

\* ProtectedRoute: the spinner, the login page, the dashboard or the page.
Land(p, who, ok, waiting) ==
    IF p \in Public \/ waiting THEN [path |-> p, from |-> "/"]
    ELSE IF ~ok THEN [path |-> "/login", from |-> p]
    ELSE IF who.role \notin Admits(p) THEN [path |-> "/", from |-> "/"]
    ELSE [path |-> p, from |-> "/"]

Shown == path \notin Public /\ authed /\ ~booting

Ask(kind, user, step, to) == [kind |-> kind, user |-> user, step |-> step, to |-> to]

\* Fault: the list is only loaded with the page.
AskOnMountNothing(landed, ok, waiting) == {}

\* refreshProjects in the effect of the dashboard, when it is first drawn.
AskOnMount(landed, ok, waiting) ==
    IF landed = "/" /\ ok /\ ~waiting /\ ~(Shown /\ path = "/")
    THEN {Ask("projects", None, 1, "/")} ELSE {}

\* The user of the context is set, and perhaps the path: what follows.
\* back: what the login page remembers; pending: the requests under way other
\* than those of the dashboard.
SetUser(who, waiting, p, back, pending) ==
    LET ok == who # None /\ access' # None
        landed == Land(p, who, ok, waiting)
    IN /\ me' = who
       /\ authed' = ok
       /\ booting' = waiting
       /\ path' = landed.path
       /\ from' = IF landed.path = "/login" /\ path = "/login" /\ p = "/login"
                  THEN back ELSE landed.from
       /\ asks' = pending \cup AskOnMount(landed.path, ok, waiting)
       /\ elsewhere' = (elsewhere /\ landed.path # "/")

Profile(user) == [user |-> user, role |-> roleOf[user]]
Stub(user) == [user |-> user, role |-> "unknown"]

ProfileAsks == {a \in asks : a.kind # "projects" /\ ~(a.kind = "login" /\ a.step = 1)}

Move == moves < MaxMoves /\ moves' = moves + 1 /\ UNCHANGED mishaps
Mishap == mishaps < MaxMishaps /\ mishaps' = mishaps + 1 /\ UNCHANGED moves

----------------------------------------------------------------------------
(* Loading the application *)

\* The tokens of a sign-in are stored, its profile is not.
HalfSignedIn ==
    \E a \in asks : (a.kind = "login" /\ a.step = 2) \/ (a.kind = "sso" /\ a.step = 1)

\* Fault: the stored profile is good enough to begin with.
LoadWithoutWaiting(p, back) ==
    /\ SetUser(profile', FALSE, p, back,
           IF access' # None
           THEN {Ask("boot", access'.user, 1, "/"), Ask("projects", None, 1, "/")}
           ELSE {})
    /\ projects' = FALSE
    /\ told' = FALSE /\ failed' = FALSE
    /\ overtaken' = (access' # None /\ (overtaken \/ HalfSignedIn))

\* main: the providers read localStorage; with a token they ask for the
\* profile and the projects.
Load(p, back) ==
    LET waiting == access' # None IN
    /\ SetUser(profile', waiting, p, back,
           IF waiting THEN {Ask("boot", access'.user, 1, "/"), Ask("projects", None, 1, "/")}
                      ELSE {})
    /\ projects' = FALSE
    /\ told' = FALSE /\ failed' = FALSE
    /\ overtaken' = (waiting /\ (overtaken \/ HalfSignedIn))

\* An address typed, or the page loaded again: then the login page still knows
\* where to go.
Visit(p) ==
    /\ Move
    /\ UNCHANGED storage
    /\ \E back \in {from, "/"} : Load(p, back)
    /\ UNCHANGED roleOf

Stop(a) == asks \ {a}

\* The interceptor clears localStorage and navigates to the login page, in a
\* new page load.
SendToLogin ==
    /\ access' = None /\ profile' = None
    /\ Load("/login", "/")
    /\ UNCHANGED roleOf

\* The profile on boot.
BootAnswered(a) ==
    /\ a \in asks /\ a.kind = "boot"
    /\ profile' = Profile(a.user) /\ UNCHANGED access
    /\ SetUser(profile', FALSE, path, from, Stop(a))
    /\ told' = TRUE
    /\ UNCHANGED <<roleOf, projects, overtaken, failed, counts>>

\* Fault: only an answer ends the waiting.
BootFailedStillWaiting(a) ==
    /\ Mishap
    /\ a \in asks /\ a.kind = "boot"
    /\ asks' = Stop(a)
    /\ failed' = TRUE
    /\ UNCHANGED <<roleOf, storage, session, place, projects, told, elsewhere, overtaken>>

\* The stored user stays.
BootFailed(a) ==
    /\ Mishap
    /\ a \in asks /\ a.kind = "boot"
    /\ LET landed == Land(path, me, authed, FALSE) IN
       /\ booting' = FALSE
       /\ path' = landed.path
       /\ from' = IF path = "/login" THEN from ELSE landed.from
       /\ asks' = Stop(a) \cup AskOnMount(landed.path, authed, FALSE)
       /\ elsewhere' = (elsewhere /\ landed.path # "/")
    /\ failed' = TRUE
    /\ UNCHANGED <<roleOf, storage, me, authed, projects, told, overtaken>>
----------------------------------------------------------------------------
(* Signing in and out *)

Submit(user) ==
    /\ Move
    /\ path = "/login" /\ \A a \in asks : a.kind # "login"
    /\ asks' = asks \cup {Ask("login", user, 1, from)}
    /\ UNCHANGED <<roleOf, storage, session, place, projects, history>>

\* Fault: the profile of the session before is kept.
SignedInAsBefore(a, who) ==
    /\ UNCHANGED storage
    /\ LET ok == access # None
           landed == Land(a.to, who, ok, booting)
       IN /\ me' = who /\ authed' = ok /\ UNCHANGED booting
          /\ path' = landed.path /\ from' = landed.from
          /\ asks' = Stop(a) \cup AskOnMount(landed.path, ok, booting)
          /\ elsewhere' = (landed.path # "/" \/ booting)
    /\ told' = TRUE
    /\ UNCHANGED <<roleOf, projects, overtaken>>

\* The tokens come, and the profile is asked for with them.
LoginTokens(a) ==
    /\ a \in asks /\ a.kind = "login" /\ a.step = 1
    /\ access' = Profile(a.user)
    /\ asks' = Stop(a) \cup {[a EXCEPT !.step = 2]}
    /\ overtaken' = (overtaken \/ ProfileAsks # {})
    /\ UNCHANGED <<roleOf, profile, session, place, projects, told, elsewhere, failed, counts>>

\* The sign-in fails, and stays on its page ...
LoginFailed(a) ==
    /\ Mishap
    /\ a \in asks /\ a.kind = "login" /\ a.step = 1
    /\ asks' = Stop(a)
    /\ UNCHANGED <<roleOf, storage, session, place, projects, history>>

\* ... or is a 401, which the interceptor takes for an expired token.  Unless
\* an old session lets it refresh, the login page is loaded anew.
LoginRefused(a) ==
    /\ Mishap
    /\ a \in asks /\ a.kind = "login" /\ a.step = 1
    /\ SendToLogin

\* Signed in; the page asked for before the login, or the dashboard.  A profile
\* that does not come is made up for, without a role.
SignedIn(a, who) ==
    /\ profile' = who /\ UNCHANGED access
    /\ LET ok == access # None
           landed == Land(a.to, who, ok, booting)
       IN /\ me' = who /\ authed' = ok /\ UNCHANGED booting
          /\ path' = landed.path /\ from' = landed.from
          /\ asks' = Stop(a) \cup AskOnMount(landed.path, ok, booting)
          /\ elsewhere' = (landed.path # "/" \/ booting)
    /\ told' = TRUE
    /\ UNCHANGED <<roleOf, projects, overtaken>>

LoginAnswered(a) ==
    /\ a \in asks /\ a.kind = "login" /\ a.step = 2
    /\ SignedIn(a, Profile(a.user))
    /\ UNCHANGED <<failed, counts>>

LoginUnprofiled(a) ==
    /\ Mishap
    /\ a \in asks /\ a.kind = "login" /\ a.step = 2
    /\ SignedIn(a, Stub(a.user))
    /\ UNCHANGED failed

\* Back from the identity provider: a page load whose address carries the
\* tokens.  The boot request has left with the old token, if there was one.
SsoReturn(user, to) ==
    /\ Move
    /\ LET old == access # None IN
       /\ access' = Profile(user) /\ UNCHANGED profile
       /\ me' = profile /\ authed' = (old /\ profile # None) /\ booting' = old
       /\ asks' = {Ask("sso", user, 1, to)} \cup
              (IF old THEN {Ask("boot", access.user, 1, "/"), Ask("projects", None, 1, "/")}
               ELSE {})
       /\ overtaken' = old
    /\ path' = "/sso/callback" /\ from' = "/"
    /\ projects' = FALSE /\ told' = FALSE /\ elsewhere' = FALSE /\ failed' = FALSE
    /\ UNCHANGED roleOf

\* completeSsoLogin stores the profile, refreshUser then asks for it again.
SsoStored(a) ==
    /\ a \in asks /\ a.kind = "sso" /\ a.step = 1
    /\ \/ /\ profile' = Profile(a.user) /\ UNCHANGED counts
       \/ /\ profile' = Stub(a.user) /\ Mishap
    /\ asks' = Stop(a) \cup {[a EXCEPT !.step = 2]}
    /\ UNCHANGED <<roleOf, access, session, place, projects, history>>

SsoAnswered(a) ==
    /\ a \in asks /\ a.kind = "sso" /\ a.step = 2
    /\ \/ /\ SignedIn(a, Profile(a.user)) /\ UNCHANGED <<failed, counts>>
       \/ /\ Mishap /\ SignedIn(a, profile) /\ UNCHANGED failed

\* The Layout's menu: localStorage is cleared, no request is called back.
\* Whether the guard or the handler is first to go to the login page decides
\* where the next login leads.
Logout ==
    /\ Move
    /\ Shown
    /\ access' = None /\ profile' = None /\ me' = None /\ authed' = FALSE
    /\ path' = "/login" /\ from' \in {"/", path}
    /\ overtaken' = (overtaken \/ ProfileAsks # {})
    /\ UNCHANGED <<roleOf, booting, projects, asks, told, elsewhere, failed>>

\* Within the application: the menu, and links.
Go(p) ==
    /\ Move
    /\ Shown /\ p \in Places \cap Menu(me.role)
    /\ LET landed == Land(p, me, authed, booting) IN
       /\ path' = landed.path /\ from' = landed.from
       /\ asks' = asks \cup AskOnMount(landed.path, authed, booting)
       /\ elsewhere' = (elsewhere /\ landed.path # "/")
    /\ UNCHANGED <<roleOf, storage, session, projects, told, overtaken, failed>>
----------------------------------------------------------------------------
(* The rest *)

ProjectsAnswered(a) ==
    /\ a \in asks /\ a.kind = "projects"
    /\ asks' = Stop(a)
    /\ projects' = TRUE
    /\ UNCHANGED <<roleOf, storage, session, place, history, counts>>

\* The list before stays.
ProjectsFailed(a) ==
    /\ Mishap
    /\ a \in asks /\ a.kind = "projects"
    /\ asks' = Stop(a)
    /\ failed' = TRUE
    /\ UNCHANGED <<roleOf, storage, session, place, projects, told, elsewhere, overtaken>>

\* An administrator gives somebody another role.
ChangeRole(user, role) ==
    /\ Mishap
    /\ roleOf' = [roleOf EXCEPT ![user] = role]
    /\ UNCHANGED <<storage, session, place, projects, asks, history, moves>>

\* An expired token is renewed, for the role of now ...
Renew ==
    /\ access # None /\ access.role # roleOf[access.user]
    /\ access' = Profile(access.user)
    /\ UNCHANGED <<roleOf, profile, session, place, projects, asks, history, counts>>

\* ... or is not.
Expire ==
    /\ Mishap
    /\ access # None
    /\ SendToLogin

Init ==
    /\ roleOf \in [Users -> Roles]
    /\ access = None /\ profile = None
    /\ me = None /\ authed = FALSE /\ booting = FALSE
    /\ path = "/login" /\ from = "/"
    /\ projects = FALSE
    /\ asks = {}
    /\ told = FALSE /\ elsewhere = FALSE /\ overtaken = FALSE /\ failed = FALSE
    /\ moves = 0 /\ mishaps = 0

Answer(a) ==
    \/ BootAnswered(a) \/ BootFailed(a)
    \/ LoginTokens(a) \/ LoginFailed(a) \/ LoginRefused(a) \/ LoginAnswered(a) \/ LoginUnprofiled(a)
    \/ SsoStored(a) \/ SsoAnswered(a)
    \/ ProjectsAnswered(a) \/ ProjectsFailed(a)

Next ==
    \/ \E p \in Places \cup {"/login"} : Visit(p)
    \/ \E p \in Places : Go(p)
    \/ \E u \in Users : Submit(u) \/ (\E p \in Places : SsoReturn(u, p))
    \/ Logout
    \/ \E a \in asks : Answer(a)
    \/ \E u \in Users, r \in Roles : ChangeRole(u, r)
    \/ Renew \/ Expire

Spec == Init /\ [][Next]_vars
----------------------------------------------------------------------------
(* Properties *)

TypeOK ==
    /\ roleOf \in [Users -> Roles]
    /\ access \in [user : Users, role : Roles] \cup {None}
    /\ {profile, me} \subseteq Profiles \cup {None}
    /\ authed \in BOOLEAN /\ booting \in BOOLEAN /\ projects \in BOOLEAN
    /\ {told, elsewhere, overtaken, failed} \subseteq BOOLEAN
    /\ path \in Places \cup Public /\ from \in Places
    /\ asks \subseteq [kind : {"boot", "login", "sso", "projects"},
                       user : Users \cup {None}, step : {1, 2}, to : Places]
    /\ \A a \in asks : a.kind # "projects" => a.user \in Users
    /\ moves \in 0..MaxMoves /\ mishaps \in 0..MaxMishaps

\* One request of a kind at a time; the guard's spinner turns as long as the
\* profile is asked for on boot, and a sign-in stays on its page.
AsksAreInPlace ==
    /\ \A a, b \in asks : a.kind = b.kind => a = b
    /\ \A a \in asks : a.kind = "projects" => a = Ask("projects", None, 1, "/")
    /\ booting <=> \E a \in asks : a.kind = "boot"
    /\ \A a \in asks : a.kind = "login" => path = "/login"
    /\ \A a \in asks : a.kind = "sso" => path = "/sso/callback"

\* Nobody counts as signed in, and no profile is kept or asked for, without a
\* token; the user of the context is the stored profile, but for the moment in
\* which an SSO sign-in has stored it; and token, profile and the requests for
\* it are one person's, unless overtaken.
StorageAgrees ==
    /\ access = None => profile = None /\ ProfileAsks = {}
    /\ authed => access # None /\ me # None
    /\ \/ me = profile
       \/ profile # None /\ \E a \in asks : a.kind = "sso" /\ a.step = 2
    /\ \A a \in asks : a.kind = "sso" /\ a.step = 2 => profile # None
    /\ ~overtaken =>
           /\ \A a \in ProfileAsks : a.user = access.user
           /\ profile # None /\ ~HalfSignedIn => profile.user = access.user

\* The project list is there or asked for, unless that failed or the user has
\* signed in and not seen the dashboard since.
ProjectsAreAskedFor ==
    /\ (authed \/ booting) /\ ~failed /\ ~elsewhere =>
           projects \/ \E a \in asks : a.kind = "projects"
    /\ elsewhere /\ Shown => path # "/"

\* Types, and what the properties below rest on.
AccessInv == TypeOK /\ AsksAreInPlace /\ StorageAgrees /\ ProjectsAreAskedFor

\* A page behind the guard is shown only to somebody it admits; and it is not
\* the profile left in localStorage that decides, but what the server has said
\* in this page load, unless it could not be asked.
AdmittedOnTheServersWord ==
    Shown => /\ me.role \in Admits(path)
             /\ told \/ failed

\* When no profile is being asked for, the user in the header, the profile in
\* localStorage and the owner of the token are one person, unless the token
\* was changed (by a login, a logout, an SSO return over an old session) while
\* an earlier profile request was under way, or the page was loaded again
\* between the tokens of a sign-in and its profile.
SessionIsOnes ==
    Shown /\ ProfileAsks = {} /\ ~overtaken =>
        /\ access # None
        /\ me = profile /\ me.user = access.user

\* Nothing in sight is refused for want of a role, as long as the token was
\* issued for the role the header shows: the menu leads where the guard lets
\* in, and every button's request is served; but a QA engineer is offered New
\* Project, which only administrators and QA heads may do.
OffersAreHonoured ==
    Shown /\ access # None /\ me.role = access.role =>
        /\ \A p \in Menu(me.role) : me.role \in Admits(p)
        /\ \A p \in DOMAIN Screens : me.role \in Admits(p) =>
               \A screen \in Screens[p] : \A action \in DOMAIN screen.actions :
                   me.role \in Guard(screen.actions[action].guard) =>
                       \/ me.role \in Serves(p, action)
                       \/ me.role = "qa_engineer" /\ p = "/projects" /\ action = "new"

\* On a page at rest the project list is there, unless it failed to load or the
\* user signed in and has not seen the dashboard since.
ProjectsAreThere ==
    Shown /\ asks = {} /\ ~failed /\ ~elsewhere => projects
=============================================================================
