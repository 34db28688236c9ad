---------------------------- MODULE AuthSession ----------------------------
(***************************************************************************)
(* The signed-in session of the web client.  The token lives in one        *)
(* httpOnly cookie that all tabs of a browser share; each tab keeps its    *)
(* own store (who is signed in) and learns of the cookie only from the     *)
(* answers of the requests it sends.  A request carries the cookie of the  *)
(* moment it is sent, and the cookie an answer sets or deletes is applied  *)
(* when the answer arrives, so that answers of one tab land between the    *)
(* requests of another (lib/auth-store.ts, hooks/use-session-manager.ts,   *)
(* hooks/use-api.ts, app/api/*, proxy.ts, dashboard-layout.tsx).           *)
(*                                                                         *)
(* Time is abstracted: the refresh interval, the 500 ms of the loading     *)
(* screen and the expiry of a token are steps that may happen at any time. *)
(***************************************************************************)
EXTENDS Naturals, FiniteSets

CONSTANTS
  Tab, User,
  NoUser,
  MaxOut             \* users act while fewer requests are out (a login may
                     \* overtake the hydration of its own login page)

ASSUME UserAssumption == NoUser \notin User /\ MaxOut \in Nat

VARIABLES
  cookie,            \* cockpit_auth_token: whose token, and is it unexpired
  page,              \* the route each tab shows: a tab that has signed in
                     \* enters the dashboard by router.push('/')
  user,              \* the auth store of each tab
  isAuthenticated,
  isLoading,         \* the dashboard still shows its loading screen
  isRefreshing,      \* isRefreshingRef of the tab's session manager
  leaving,           \* a navigation to /login has begun
  request            \* the requests of each tab that are not done

store == <<user, isAuthenticated>>
route == <<page, isLoading, leaving>>
vars == <<cookie, store, route, isRefreshing, request>>

Kind == {"hydrate", "refresh", "api", "login", "logout"}
MaybeUser == User \cup {NoUser}

NoCookie == [user |-> NoUser, valid |-> FALSE]
Cookie == [user : MaybeUser, valid : BOOLEAN]

\* A request knows whose token it carries, and a call whether that is still the
\* token of the cookie.
Request == [state : {"none", "waiting", "ok", "denied", "failed", "broken"},
            user : MaybeUser, current : BOOLEAN]
Idle == [state |-> "none", user |-> NoUser, current |-> FALSE]

Init ==
  /\ cookie = NoCookie
  /\ page = [t \in Tab |-> "login"]
  /\ user = [t \in Tab |-> NoUser]
  /\ isAuthenticated = [t \in Tab |-> FALSE]
  /\ isLoading = [t \in Tab |-> FALSE]
  /\ isRefreshing = [t \in Tab |-> FALSE]
  /\ leaving = [t \in Tab |-> FALSE]
  /\ request = [t \in Tab |-> [k \in Kind |-> Idle]]

Sent(k) ==
  IF k \in {"login", "logout"}
    THEN [Idle EXCEPT !.state = "waiting"]
    ELSE [state |-> "waiting", user |-> cookie.user,
          current |-> k = "api" /\ cookie.user # NoUser]
Waiting(t, k) == request[t][k].state = "waiting"
Free(t, k) == request[t][k].state = "none"
Out == {p \in Tab \X Kind : ~Free(p[1], p[2])}
OutBelowBound == Cardinality(Out) < MaxOut

\* The request of a tab is done, and the cookie became c: no request that is
\* out carries the cookie's token any more.
Overtaken(r) == [r EXCEPT !.current = FALSE]
DoneWithCookie(t, k, c) ==
  /\ cookie' = c
  /\ request' = [s \in Tab |-> [j \in Kind |->
       IF s = t /\ j = k THEN Idle ELSE Overtaken(request[s][j])]]

Done(t, k) ==
  /\ request' = [request EXCEPT ![t][k] = Idle]
  /\ UNCHANGED cookie

\* The auth store, and the effect of the dashboard that watches it.
SetStore(t, u, a) ==
  /\ user' = [user EXCEPT ![t] = u]
  /\ isAuthenticated' = [isAuthenticated EXCEPT ![t] = a]

\* Mutant: the effect runs when the layout is mounted, and never again.
WatchStoreOnce(t, a) == UNCHANGED leaving

WatchStore(t, a) ==
  leaving' = [leaving EXCEPT
                ![t] = @ \/ (page[t] = "dashboard" /\ ~isLoading[t] /\ ~a)]

Replace(t) == leaving' = [leaving EXCEPT ![t] = TRUE]

----------------------------------------------------------------------------
\* A document is loaded: the store starts empty, what the old document had
\* asked is given up, and AuthHydration asks for the session.  The edge lets
\* only a request with a cookie through to the dashboard.
Load(t, p) ==
  LET q == IF cookie = NoCookie THEN "login" ELSE p IN
  /\ page' = [page EXCEPT ![t] = q]
  /\ SetStore(t, NoUser, FALSE)
  /\ isLoading' = [isLoading EXCEPT ![t] = q = "dashboard"]
  /\ isRefreshing' = [isRefreshing EXCEPT ![t] = FALSE]
  /\ leaving' = [leaving EXCEPT ![t] = FALSE]
  /\ request' = [request EXCEPT
       ![t] = [k \in Kind |-> IF k = "hydrate" THEN Sent(k) ELSE Idle]]
  /\ UNCHANGED cookie

\* The user opens or reloads the dashboard, but not while a tab is on its way
\* into it or out of it.
OpenDashboard(t) ==
  /\ OutBelowBound /\ page[t] # "entering" /\ ~isLoading[t] /\ ~leaving[t]
  /\ Load(t, "dashboard")
Leave(t) == leaving[t] /\ Load(t, "login")

\* The loading screen ends after its delay, whatever hydration has found.
LoadingEnds(t) ==
  /\ isLoading[t]
  /\ isLoading' = [isLoading EXCEPT ![t] = FALSE]
  /\ leaving' = [leaving EXCEPT ![t] = @ \/ ~isAuthenticated[t]]
  /\ UNCHANGED <<cookie, store, page, isRefreshing, request>>

----------------------------------------------------------------------------
\* What a tab asks.
Send(t, k) ==
  /\ Free(t, k)
  /\ request' = [request EXCEPT ![t][k] = Sent(k)]

SubmitLogin(t) ==
  /\ page[t] = "login" /\ Cardinality(Out \ {<<t, "hydrate">>}) < MaxOut
  /\ Send(t, "login")
  /\ UNCHANGED <<cookie, store, route, isRefreshing>>

\* The dashboard renders its pages only once it is authenticated.
ApiCall(t) ==
  /\ page[t] = "dashboard" /\ ~isLoading[t] /\ isAuthenticated[t] /\ OutBelowBound
  /\ Send(t, "api")
  /\ UNCHANGED <<cookie, store, route, isRefreshing>>

\* The session manager's interval runs while the store has a user.
refreshSession(t) ==
  /\ page[t] = "dashboard" /\ user[t] # NoUser
  /\ ~isRefreshing[t]
  /\ isRefreshing' = [isRefreshing EXCEPT ![t] = TRUE]
  /\ request' = [request EXCEPT ![t]["refresh"] = Sent("refresh")]
  /\ UNCHANGED <<cookie, store, route>>

\* logout() posts without waiting and empties the store (a second post of the
\* same document adds nothing to the first).
logoutRequest(t, r) ==
  [r EXCEPT ![t]["logout"] = IF @.state = "none" THEN Sent("logout") ELSE @]

ClickLogout(t) ==
  /\ OutBelowBound
  /\ page[t] = "dashboard" /\ ~isLoading[t] /\ isAuthenticated[t]
  /\ request' = logoutRequest(t, request)
  /\ SetStore(t, NoUser, FALSE)
  /\ Replace(t)
  /\ UNCHANGED <<cookie, page, isLoading, isRefreshing>>

----------------------------------------------------------------------------
\* What the routes of the client's server and the backend answer.
Answer(t, k, s) ==
  /\ Waiting(t, k)
  /\ request' = [request EXCEPT ![t][k] =
       [state |-> s, user |-> IF s = "ok" THEN @.user ELSE NoUser,
        current |-> s = "denied" /\ @.current]]
  /\ UNCHANGED <<cookie, store, route, isRefreshing>>

\* Mutant: the route passes a missing token on.
AnswerRefreshUnchecked(t, k) == Answer(t, k, "ok")

\* A refresh accepts an expired token and needs some token.
AnswerRefresh(t, k) ==
  Answer(t, k, IF request[t][k].user = NoUser THEN "denied" ELSE "ok")

\* A call is refused when its token has expired, as one that the cookie has
\* outlived may have.  Without a cookie the edge redirects the call to the
\* login page, which the client takes for an empty result.  A call that is not
\* refused is over: its answer changes nothing in the session.
AnswerApi(t) ==
  LET r == request[t]["api"] IN
  \/ /\ r.user # NoUser /\ ~(r.current /\ cookie.valid)
     /\ Answer(t, "api", "denied")
  \/ /\ ~(r.current /\ ~cookie.valid)
     /\ Waiting(t, "api") /\ Done(t, "api")
     /\ UNCHANGED <<store, route, isRefreshing>>

\* The credentials are somebody's, or wrong: then the form shows an error.
AnswerLogin(t) ==
  /\ Waiting(t, "login")
  /\ \/ \E u \in User :
          request' = [request EXCEPT ![t]["login"].state = "ok",
                                     ![t]["login"].user = u]
     \/ request' = [request EXCEPT ![t]["login"] = Idle]
  /\ UNCHANGED <<cookie, store, route, isRefreshing>>

AnswerLogout(t) == Answer(t, "logout", "ok")

\* The network or the backend fails.  The backend's refresh reports a failure
\* of its own as "Token refresh failed", a 401; a failed logout is ignored.
AnswerFailed(t) ==
  \/ \E k \in {"hydrate", "refresh"} : Answer(t, k, "broken")
  \/ Answer(t, "refresh", "failed")
  \/ /\ Waiting(t, "logout") /\ Done(t, "logout")
     /\ UNCHANGED <<store, route, isRefreshing>>

----------------------------------------------------------------------------
\* What the tab makes of the answer.
Fresh(u) == [user |-> u, valid |-> TRUE]

hydrate(t) ==
  LET r == request[t]["hydrate"] IN
  /\ \/ /\ r.state = "ok"
        /\ DoneWithCookie(t, "hydrate", Fresh(r.user))
        /\ SetStore(t, r.user, TRUE)
        /\ WatchStore(t, TRUE)
     \/ /\ r.state \in {"denied", "broken"}
        /\ Done(t, "hydrate")
        /\ SetStore(t, NoUser, FALSE)
        /\ WatchStore(t, FALSE)
  /\ UNCHANGED <<page, isLoading, isRefreshing>>

\* An answer in S signs out; another one that is not ok changes nothing but
\* the guard, which finally becomes g.
RefreshAnsweredWith(t, S, g) ==
  LET r == request[t]["refresh"] IN
  /\ isRefreshing' = [isRefreshing EXCEPT ![t] = g]
  /\ \/ /\ r.state = "ok"
        /\ DoneWithCookie(t, "refresh", Fresh(r.user))
        /\ user' = [user EXCEPT ![t] = r.user]
        /\ UNCHANGED <<isAuthenticated, leaving>>
     \/ /\ r.state \in S
        /\ request' = logoutRequest(t, [request EXCEPT ![t]["refresh"] = Idle])
        /\ SetStore(t, NoUser, FALSE)
        /\ Replace(t)
        /\ UNCHANGED cookie
     \/ /\ r.state \in {"denied", "broken", "failed"} \ S
        /\ Done(t, "refresh")
        /\ UNCHANGED <<store, leaving>>
  /\ UNCHANGED <<page, isLoading>>

\* Mutants: the guard is not reset after a failure; every answer that is not
\* ok signs out; a 401 is taken for any other failure.
RefreshAnsweredNoFinally(t) ==
  RefreshAnsweredWith(t, {"denied", "broken"},
                      request[t]["refresh"].state = "failed")
RefreshAnsweredAnyError(t) ==
  RefreshAnsweredWith(t, {"denied", "broken", "failed"}, FALSE)
RefreshAnsweredNo401(t) == RefreshAnsweredWith(t, {}, FALSE)

RefreshAnswered(t) == RefreshAnsweredWith(t, {"denied", "broken"}, FALSE)

apiCall(t) ==
  /\ request[t]["api"].state = "denied"
  /\ request' = logoutRequest(t, [request EXCEPT ![t]["api"] = Idle])
  /\ SetStore(t, NoUser, FALSE)
  /\ Replace(t)
  /\ UNCHANGED <<cookie, page, isLoading, isRefreshing>>

handleSubmit(t) ==
  LET r == request[t]["login"] IN
  /\ r.state = "ok"
  /\ DoneWithCookie(t, "login", Fresh(r.user))
  /\ SetStore(t, r.user, TRUE)
  /\ page' = [page EXCEPT ![t] = "entering"]
  /\ UNCHANGED <<isLoading, leaving, isRefreshing>>

\* The route changes within the document; the edge checks it like any other.
Push(t) ==
  /\ page[t] = "entering"
  /\ page' = [page EXCEPT ![t] =
                IF cookie = NoCookie THEN "login" ELSE "dashboard"]
  /\ isLoading' = [isLoading EXCEPT ![t] = cookie # NoCookie]
  /\ UNCHANGED <<cookie, store, leaving, isRefreshing, request>>

LogoutAnswered(t) ==
  /\ request[t]["logout"].state = "ok"
  /\ DoneWithCookie(t, "logout", NoCookie)
  /\ UNCHANGED <<store, route, isRefreshing>>

----------------------------------------------------------------------------
\* The cookie's token expires; the browser drops an old cookie.
CookieExpires ==
  /\ cookie.valid
  /\ cookie' = [cookie EXCEPT !.valid = FALSE]
  /\ UNCHANGED <<store, route, isRefreshing, request>>

CookieAgesOut ==
  /\ cookie.user # NoUser /\ ~cookie.valid
  /\ cookie' = NoCookie
  /\ request' = [t \in Tab |-> [k \in Kind |-> Overtaken(request[t][k])]]
  /\ UNCHANGED <<store, route, isRefreshing>>

Asks(t) ==
  \/ SubmitLogin(t) \/ ApiCall(t) \/ refreshSession(t) \/ ClickLogout(t)

Serves(t) ==
  \/ \E k \in {"hydrate", "refresh"} : AnswerRefresh(t, k)
  \/ AnswerApi(t) \/ AnswerLogin(t) \/ AnswerLogout(t) \/ AnswerFailed(t)

Handles(t) ==
  \/ hydrate(t) \/ RefreshAnswered(t) \/ apiCall(t) \/ handleSubmit(t)
  \/ LogoutAnswered(t) \/ Push(t) \/ LoadingEnds(t) \/ Leave(t)

Next ==
  \/ \E t \in Tab : OpenDashboard(t) \/ Asks(t) \/ Serves(t) \/ Handles(t)
  \/ CookieExpires \/ CookieAgesOut

Spec == Init /\ [][Next]_vars

\* A user who works in a tab keeps its interval alive; a refresh is answered,
\* and not by a failure every time; answers, timers and navigations are dealt
\* with.
FairSpec ==
  /\ Spec
  /\ \A t \in Tab :
       /\ WF_vars(refreshSession(t))
       /\ SF_vars(AnswerRefresh(t, "refresh"))
       /\ WF_vars(Handles(t))

----------------------------------------------------------------------------
TypeOK ==
  /\ cookie \in Cookie /\ (cookie.user = NoUser => ~cookie.valid)
  /\ page \in [Tab -> {"login", "entering", "dashboard"}]
  /\ user \in [Tab -> MaybeUser]
  /\ isAuthenticated \in [Tab -> BOOLEAN]
  /\ isLoading \in [Tab -> BOOLEAN]
  /\ isRefreshing \in [Tab -> BOOLEAN]
  /\ leaving \in [Tab -> BOOLEAN]
  /\ request \in [Tab -> [Kind -> Request]]

\* The guard of the session manager is set exactly while its one request is
\* out: it neither lets a second refresh start nor stays behind to stop every
\* later one, through answers of every kind and navigations.
GuardTracksRefresh ==
  \A t \in Tab : isRefreshing[t] <=> ~Free(t, "refresh")

\* No tab stays on the dashboard with nobody signed in.  Whatever empties its
\* store, by an answer of its own or one that was meant for the login page it
\* came from, also sends it away, unless its loading screen is still to look.
DashboardHasUser ==
  \A t \in Tab :
    page[t] = "dashboard" /\ ~isLoading[t] /\ ~leaving[t]
      => isAuthenticated[t] /\ user[t] # NoUser

\* A step sends a tab to the login page rightly when its user signs out, or
\* when it deals with a failure of the backend or with the refusal of a
\* request that left with an older cookie.
SignedOutRightly(t) ==
  \/ /\ ~Free(t, "logout")'
     /\ \A k \in Kind \ {"logout"} : request'[t][k] = request[t][k]
  \/ \E k \in Kind : LET r == request[t][k] IN
       /\ request'[t][k] = Idle
       /\ r.state = "broken" \/ (r.state = "denied" /\ ~r.current)

\* While the shared session is good, a tab that is signed in is never sent to
\* the login page by an answer about the session it has.
GoodSessionKept ==
  [][cookie.valid =>
       \A t \in Tab : isAuthenticated[t] /\ ~leaving[t] /\ leaving'[t]
         => SignedOutRightly(t)]_vars

\* A tab on the dashboard comes to follow the cookie it cannot see: it shows
\* the user whose session the browser holds, and without one it goes to the
\* login page, unless the cookie changes again.
FollowsSession ==
  \A t \in Tab : \A s \in MaybeUser :
    (page[t] = "dashboard" /\ cookie.user = s)
      ~> (page[t] = "login" \/ cookie.user # s
          \/ (s # NoUser /\ user[t] = s))
=============================================================================
