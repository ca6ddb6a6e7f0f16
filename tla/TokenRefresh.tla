---------------------------- MODULE TokenRefresh ----------------------------
(***************************************************************************)
(* The browser's session: the axios interceptors of services/api.ts, which *)
(* refresh an expired access token once for all the calls that ran into    *)
(* it, and the login, logout and profile calls of authService.ts and       *)
(* useAuth.ts around them, over one localStorage.                          *)
(*                                                                         *)
(* JavaScript runs one callback at a time, so an action is what happens    *)
(* between two awaits.  Logging out is client-side only: it cancels no     *)
(* call and leaves the module state of api.ts as it is.                    *)
(***************************************************************************)
CONSTANTS
    Calls,          \* the API calls of one page load
    ProfileCalls,   \* those of them that fetch /users/me
    LoginCalls,     \* those of them that are a POST /auth/login
    Owners,         \* who can log in, and so own tokens
    Absent          \* a key that localStorage does not have

ASSUME CallsAssumption ==
    /\ ProfileCalls \cup LoginCalls \subseteq Calls
    /\ ProfileCalls \cap LoginCalls = {}
    /\ ProfileCalls # {}
ASSUME AbsentAssumption == Absent \notin Owners

VARIABLES
    store,          \* localStorage: whose access token, refresh token, profile
    isRefreshing,   \* the flag of api.ts
    call,           \* call[c]: where an API call stands
    leaving,        \* window.location.href has been set: the page will go
    loggedOut       \* history: someone logged out during a refresh

refreshVars == <<store, isRefreshing, call, leaving, loggedOut>>
----------------------------------------------------------------------------
Phases == {"idle", "sent", "queued", "refreshing", "done", "failed"}

NoStore == [access |-> Absent, refresh |-> Absent, user |-> Absent]

\* A call that has not been made in this page load.
Unsent == [phase |-> "idle", token |-> Absent, retry |-> FALSE, login |-> Absent]

In(phase) == {c \in Calls : call[c].phase = phase}

\* The response interceptor rejects: for a login, the caller of the profile
\* call falls back to a stub of the user who logged in.
Stored(c, old) == IF call[c].login # Absent THEN [old EXCEPT !.user = call[c].login]
                                            ELSE old

\* The request interceptor puts the stored token on every call.
Sent(c, token) == [call[c] EXCEPT !.phase = "sent", !.token = token]

----------------------------------------------------------------------------
\* A component makes a call.
Send(c) ==
    /\ call[c].phase = "idle" /\ c \notin ProfileCalls \cup LoginCalls /\ ~leaving
    /\ call' = [call EXCEPT ![c] = Sent(c, store.access)]
    /\ UNCHANGED <<store, isRefreshing, leaving, loggedOut>>

Settled == {"idle", "done", "failed"}

\* The login page posts what was typed, with the token of the session before,
\* if there is one.
Login(c) ==
    /\ c \in LoginCalls /\ call[c].phase \in Settled /\ ~leaving
    /\ call' = [call EXCEPT ![c] = [Unsent EXCEPT !.phase = "sent",
                                                  !.token = store.access]]
    /\ UNCHANGED <<store, isRefreshing, leaving, loggedOut>>

\* login goes on: store the tokens of user u, then fetch the profile with them.
LoggedIn(c, u) ==
    /\ c \in LoginCalls /\ call[c].phase = "sent"
    /\ \E d \in ProfileCalls :
           /\ call[d].phase \in Settled
           /\ call' = [call EXCEPT ![c].phase = "done",
                                   ![d] = [phase |-> "sent", token |-> u,
                                           retry |-> FALSE, login |-> u]]
    /\ store' = [store EXCEPT !.access = u, !.refresh = u]
    /\ UNCHANGED <<isRefreshing, leaving, loggedOut>>

\* The call succeeds.  /users/me answers for the owner of the token it was
\* sent with, and getCurrentUser and login store that profile.
Succeed(c) ==
    /\ c \notin LoginCalls /\ call[c].phase = "sent"
    /\ call' = [call EXCEPT ![c].phase = "done"]
    /\ store' = IF c \in ProfileCalls /\ call[c].token # Absent
                THEN [store EXCEPT !.user = call[c].token] ELSE store
    /\ UNCHANGED <<isRefreshing, leaving, loggedOut>>

\* The call fails with anything but a 401: a request without a token is a
\* 422, because the Authorization header is a required one.
Fail(c) ==
    /\ call[c].phase = "sent"
    /\ call' = [call EXCEPT ![c].phase = "failed"]
    /\ store' = Stored(c, store)
    /\ UNCHANGED <<isRefreshing, leaving, loggedOut>>

\* What the response interceptor goes by; a wrong password is a 401 as well.
Got401(c) == call[c].phase = "sent" /\ (call[c].token # Absent \/ c \in LoginCalls)

\* 401 for a call that has been the one to refresh before.
RejectRetry(c) ==
    /\ Got401(c) /\ call[c].retry
    /\ call' = [call EXCEPT ![c].phase = "failed"]
    /\ store' = Stored(c, store)
    /\ UNCHANGED <<isRefreshing, leaving, loggedOut>>

\* 401 while another call refreshes: wait in failedQueue.
Enqueue(c) ==
    /\ Got401(c) /\ ~call[c].retry /\ isRefreshing
    /\ call' = [call EXCEPT ![c].phase = "queued"]
    /\ UNCHANGED <<store, isRefreshing, leaving, loggedOut>>

\* 401 and nothing to refresh with: back to the login page, even from the login
\* page itself.  isRefreshing stays set until the page is gone.
GiveUp(c) ==
    /\ Got401(c) /\ ~call[c].retry /\ ~isRefreshing
    /\ store.refresh = Absent
    /\ call' = [call EXCEPT ![c].phase = "failed", ![c].retry = TRUE]
    /\ store' = Stored(c, NoStore)
    /\ isRefreshing' = TRUE
    /\ leaving' = TRUE
    /\ UNCHANGED loggedOut

\* Fault: isRefreshing is set only when the answer is there.
BeginRefreshUnguarded(c) ==
    /\ Got401(c) /\ ~call[c].retry /\ ~isRefreshing
    /\ store.refresh # Absent
    /\ call' = [call EXCEPT ![c].phase = "refreshing", ![c].retry = TRUE,
                            ![c].token = store.refresh]
    /\ UNCHANGED <<store, isRefreshing, leaving, loggedOut>>

\* 401 and a refresh token: POST /auth/refresh.
BeginRefresh(c) ==
    /\ Got401(c) /\ ~call[c].retry /\ ~isRefreshing
    /\ store.refresh # Absent
    /\ isRefreshing' = TRUE
    /\ call' = [call EXCEPT ![c].phase = "refreshing", ![c].retry = TRUE,
                            ![c].token = store.refresh]
    /\ UNCHANGED <<store, leaving, loggedOut>>

\* Fault: only the refreshing call goes on.
RefreshedAlone(c) ==
    LET token == call[c].token IN
    /\ call[c].phase = "refreshing"
    /\ store' = [store EXCEPT !.access = token]
    /\ isRefreshing' = FALSE
    /\ call' = [call EXCEPT ![c] = Sent(c, token)]
    /\ UNCHANGED <<leaving, loggedOut>>

\* A new access token, for the user whose refresh token was sent; the queue
\* and the call itself are sent again with it.
Refreshed(c) ==
    LET token == call[c].token IN
    /\ call[c].phase = "refreshing"
    /\ store' = [store EXCEPT !.access = token]
    /\ isRefreshing' = FALSE
    /\ call' = [d \in Calls |-> IF d = c \/ call[d].phase = "queued"
                                THEN Sent(d, token) ELSE call[d]]
    /\ UNCHANGED <<leaving, loggedOut>>

\* Fault: a refresh that fails leaves the tokens where they are.
RefreshFailedKeepingTokens(c) ==
    /\ call[c].phase = "refreshing"
    /\ store' = [store EXCEPT !.access = Absent]
    /\ isRefreshing' = FALSE
    /\ leaving' = TRUE
    /\ call' = [d \in Calls |-> IF d = c \/ call[d].phase = "queued"
                                THEN [call[d] EXCEPT !.phase = "failed"] ELSE call[d]]
    /\ UNCHANGED loggedOut

\* The refresh fails: everybody fails, and the session is over.  A login whose
\* profile call was among them leaves its stub behind, last of all.
RefreshFailed(c) ==
    LET rejected == {d \in Calls : d = c \/ call[d].phase = "queued"} IN
    /\ call[c].phase = "refreshing"
    /\ \/ \E d \in rejected : call[d].login # Absent /\ store' = Stored(d, NoStore)
       \/ (\A d \in rejected : call[d].login = Absent) /\ store' = NoStore
    /\ isRefreshing' = FALSE
    /\ leaving' = TRUE
    /\ call' = [d \in Calls |-> IF d \in rejected
                                THEN [call[d] EXCEPT !.phase = "failed"] ELSE call[d]]
    /\ UNCHANGED loggedOut

----------------------------------------------------------------------------
\* logout: localStorage only.
AuthServiceLogout ==
    /\ store.access # Absent /\ ~leaving
    /\ store' = NoStore
    /\ loggedOut' = (loggedOut \/ In("refreshing") # {})
    /\ UNCHANGED <<isRefreshing, call, leaving>>

\* The page is loaded anew, because the interceptor navigated or the user
\* pressed reload: calls and module state are gone, localStorage stays, and a
\* stored access token makes useAuth fetch the profile.
LoadPage ==
    /\ \E boot \in ProfileCalls :
           call' = [c \in Calls |->
                       IF c = boot /\ store.access # Absent
                       THEN [Unsent EXCEPT !.phase = "sent", !.token = store.access]
                       ELSE Unsent]
    /\ isRefreshing' = FALSE
    /\ leaving' = FALSE
    /\ UNCHANGED <<store, loggedOut>>

\* The page the interceptor navigates to.
Leave == leaving /\ LoadPage

RefreshInit ==
    /\ store = NoStore
    /\ isRefreshing = FALSE
    /\ call = [c \in Calls |-> Unsent]
    /\ leaving = FALSE
    /\ loggedOut = FALSE

\* The network answers.
Response(c) ==
    \/ Succeed(c) \/ (\E u \in Owners : LoggedIn(c, u)) \/ Fail(c)
    \/ RejectRetry(c) \/ Enqueue(c) \/ GiveUp(c) \/ BeginRefresh(c)
    \/ Refreshed(c) \/ RefreshFailed(c)

RefreshNext ==
    \/ \E c \in Calls : Send(c) \/ Login(c) \/ Response(c)
    \/ AuthServiceLogout
    \/ LoadPage
    \/ Leave

RefreshSpec == RefreshInit /\ [][RefreshNext]_refreshVars

\* Every call that is sent is answered in some way, and the browser carries
\* out the navigation.
FairRefreshSpec ==
    /\ RefreshSpec
    /\ \A c \in Calls : WF_refreshVars(Response(c))
    /\ WF_refreshVars(Leave)
----------------------------------------------------------------------------
(* Properties *)

RefreshTypeOK ==
    /\ store \in [access : Owners \cup {Absent}, refresh : Owners \cup {Absent},
                  user : Owners \cup {Absent}]
    /\ isRefreshing \in BOOLEAN
    /\ call \in [Calls -> [phase : Phases, token : Owners \cup {Absent},
                           retry : BOOLEAN, login : Owners \cup {Absent}]]
    /\ leaving \in BOOLEAN
    /\ loggedOut \in BOOLEAN

\* However many calls run into an expired token, one of them refreshes it;
\* and the flag says so, except that it stays set on the way to the login
\* page.
SingleFlight ==
    /\ \A c, d \in In("refreshing") : c = d
    /\ In("refreshing") # {} => isRefreshing
    /\ isRefreshing => In("refreshing") # {} \/ leaving

\* Nobody is forgotten in failedQueue: a call waits there only while a refresh
\* is under way that will send or reject it, or the page is about to go.
QueueIsServed == In("queued") # {} => In("refreshing") # {} \/ leaving

\* A refresh is made with a token, and the token is still stored unless
\* someone has logged out since: what a refresh stores completes a pair.
RefreshIsBacked ==
    ~loggedOut => \A c \in In("refreshing") :
                      call[c].token # Absent /\ store.refresh # Absent

RefreshInv == RefreshTypeOK /\ SingleFlight /\ QueueIsServed /\ RefreshIsBacked

\* The two tokens come and go together.  Only a logout in the middle of a
\* refresh separates them: the refresh then brings an access token back.
TokensStayTogether ==
    ~loggedOut => (store.access = Absent <=> store.refresh = Absent)

\* A call whose answer is still to come.
Open(c) == call[c].phase \in {"sent", "queued", "refreshing"}

\* Every call settles, even if the server answers 401 for ever: a call
\* refreshes at most once, so refreshing ends, unless the user keeps logging in
\* or reloading the page.
EveryCallSettles ==
    <>[][(\A c \in LoginCalls : ~Login(c)) /\ (LoadPage => leaving)]_refreshVars
        => \A c \in Calls : Open(c) ~> ~Open(c)
=============================================================================
