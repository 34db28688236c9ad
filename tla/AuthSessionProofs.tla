------------------------- MODULE AuthSessionProofs -------------------------
(***************************************************************************)
(* The safety of the web client's session, for any number of tabs and      *)
(* users and any number of requests out: the refresh guard, good sessions  *)
(* that are kept, and a dashboard that always has a user.                  *)
(***************************************************************************)
EXTENDS AuthSession, TLAPS

\* The types of everything but the requests.
SessionTypeOK ==
  /\ cookie \in Cookie /\ (cookie.user = NoUser => ~cookie.valid)
  /\ page \in [Tab -> {"login", "entering", "dashboard"}]
  /\ user \in [Tab -> MaybeUser]
  /\ isAuthenticated \in [Tab -> BOOLEAN]
  /\ isLoading \in [Tab -> BOOLEAN]
  /\ isRefreshing \in [Tab -> BOOLEAN]
  /\ leaving \in [Tab -> BOOLEAN]

\* A request that is still about the session of the cookie is a call, and
\* refused only when that session is over; what is answered with a session
\* names its user.
Fits(k, r) ==
  /\ r \in Request
  /\ r.current => k = "api" /\ (r.state = "denied" => ~cookie.valid)
  /\ r.state = "ok" /\ k # "logout" => r.user # NoUser

RequestsFit ==
  /\ request \in [Tab -> [Kind -> Request]]
  /\ \A t \in Tab : \A k \in Kind : Fits(k, request[t][k])

IInv == SessionTypeOK /\ RequestsFit /\ GuardTracksRefresh

LEMMA InitIInv == Init => IInv
<1> SUFFICES ASSUME Init PROVE IInv
  OBVIOUS
<1>1. SessionTypeOK
  BY DEF Init, SessionTypeOK, Cookie, NoCookie, MaybeUser
<1>2. RequestsFit
  BY DEF Init, RequestsFit, Fits, Idle, Request, MaybeUser
<1>3. GuardTracksRefresh
  BY DEF Init, GuardTracksRefresh, Free, Idle, Kind
<1> QED
  BY <1>1, <1>2, <1>3 DEF IInv

----------------------------------------------------------------------------
\* What is sent fits its slot, whatever the cookie is.
LEMMA SentFits ==
  ASSUME SessionTypeOK, NEW k \in Kind
  PROVE  Fits(k, Sent(k)) /\ Sent(k).state = "waiting"
BY DEF SessionTypeOK, Fits, Sent, Idle, Request, Cookie, MaybeUser, Kind

LEMMA IdleFits ==
  ASSUME NEW k \in Kind
  PROVE  Fits(k, Idle) /\ Idle.state = "none"
BY DEF Fits, Idle, Request, MaybeUser

\* One request changes to something that fits, and the cookie is not renewed.
LEMMA PutRequest ==
  ASSUME RequestsFit, NEW t \in Tab, NEW k \in Kind, NEW r, Fits(k, r),
         request' = [request EXCEPT ![t][k] = r],
         cookie'.valid => cookie.valid
  PROVE  RequestsFit'
<1>1. request' \in [Tab -> [Kind -> Request]]
  BY DEF RequestsFit, Fits
<1>2. ASSUME NEW s \in Tab, NEW j \in Kind PROVE Fits(j, request[s][j])'
  <2>1. Fits(j, request'[s][j])
    BY DEF RequestsFit
  <2> QED
    BY <2>1 DEF Fits
<1> QED
  BY <1>1, <1>2 DEF RequestsFit

\* Two entries of a row change, the second one last.
LEMMA PutEntries ==
  ASSUME NEW A, NEW B, NEW C, NEW f \in [A -> [B -> C]],
         NEW a \in A, NEW b \in B, NEW c \in C, NEW d \in B, NEW e \in C,
         NEW g, g = [[f EXCEPT ![a][b] = c] EXCEPT ![a][d] = e]
  PROVE  /\ g \in [A -> [B -> C]]
         /\ \A x \in A : \A y \in B :
              g[x][y] = IF x = a /\ y = d THEN e
                        ELSE IF x = a /\ y = b THEN c ELSE f[x][y]
OBVIOUS

\* A request ends, and a logout is posted unless one is out.
EndsWithLogout(t, k) ==
  request' = logoutRequest(t, [request EXCEPT ![t][k] = Idle])

LEMMA LogoutPosted ==
  ASSUME SessionTypeOK, RequestsFit, NEW t \in Tab, NEW k \in Kind,
         EndsWithLogout(t, k)
  PROVE  \E r \in Request :
           /\ Fits("logout", r) /\ r.state # "none"
           /\ request' \in [Tab -> [Kind -> Request]]
           /\ \A s \in Tab : \A j \in Kind :
                request'[s][j] = IF s = t /\ j = "logout" THEN r
                          ELSE IF s = t /\ j = k THEN Idle ELSE request[s][j]
<1>1. "logout" \in Kind /\ Idle \in Request /\ request \in [Tab -> [Kind -> Request]]
  BY DEF Kind, Idle, Request, MaybeUser, RequestsFit
<1>2. PICK r : /\ Fits("logout", r) /\ r.state # "none"
               /\ request' = [[request EXCEPT ![t][k] = Idle] EXCEPT ![t]["logout"] = r]
  <2> DEFINE old == [request EXCEPT ![t][k] = Idle][t]["logout"]
  <2>1. Fits("logout", old)
    BY <1>1, IdleFits DEF RequestsFit
  <2>2. CASE old.state = "none"
    BY <1>1, <2>2, SentFits DEF EndsWithLogout, logoutRequest
  <2>3. CASE old.state # "none"
    BY <1>1, <2>1, <2>3 DEF EndsWithLogout, logoutRequest
  <2> QED
    BY <2>2, <2>3
<1>3. r \in Request
  BY <1>2 DEF Fits
<1>4. request' = [[request EXCEPT ![t][k] = Idle] EXCEPT ![t]["logout"] = r]
  BY <1>2
<1>5. request' \in [Tab -> [Kind -> Request]]
  BY <1>1, <1>3, <1>4
<1>6. ASSUME NEW s \in Tab, NEW j \in Kind
      PROVE  request'[s][j] = IF s = t /\ j = "logout" THEN r
                              ELSE IF s = t /\ j = k THEN Idle ELSE request[s][j]
  <2>1. CASE s # t
    BY <1>1, <1>4, <2>1
  <2>2. CASE s = t /\ j = "logout"
    BY <1>1, <1>4, <2>2
  <2>3. CASE s = t /\ j # "logout"
    BY <1>1, <1>4, <2>3
  <2> QED
    BY <2>1, <2>2, <2>3
<1> QED
  BY <1>2, <1>3, <1>5, <1>6

LEMMA PutLogout ==
  ASSUME SessionTypeOK, RequestsFit, NEW t \in Tab, NEW k \in Kind,
         request' = logoutRequest(t, [request EXCEPT ![t][k] = Idle]),
         UNCHANGED cookie
  PROVE  /\ RequestsFit'
         /\ \A s \in Tab : \A j \in Kind \ {"logout"} :
              request'[s][j] = IF s = t /\ j = k THEN Idle ELSE request[s][j]
         /\ request'[t]["logout"].state # "none"
<1>1. "logout" \in Kind
  BY DEF Kind
<1>2. PICK r \in Request :
        /\ Fits("logout", r) /\ r.state # "none"
        /\ request' \in [Tab -> [Kind -> Request]]
        /\ \A s \in Tab : \A j \in Kind :
             request'[s][j] = IF s = t /\ j = "logout" THEN r
                              ELSE IF s = t /\ j = k THEN Idle ELSE request[s][j]
  BY LogoutPosted DEF EndsWithLogout
<1>3. ASSUME NEW s \in Tab, NEW j \in Kind PROVE Fits(j, request[s][j])'
  <2>1. Fits(j, request'[s][j])
    <3>1. CASE s = t /\ j = "logout"
      BY <1>2, <3>1
    <3>2. CASE ~(s = t /\ j = "logout")
      BY <1>2, <3>2, IdleFits DEF RequestsFit
    <3> QED
      BY <3>1, <3>2
  <2> QED
    BY <2>1 DEF Fits
<1>4. RequestsFit'
  BY <1>2, <1>3 DEF RequestsFit
<1>5. \A s \in Tab : \A j \in Kind \ {"logout"} :
        request'[s][j] = IF s = t /\ j = k THEN Idle ELSE request[s][j]
  BY <1>2
<1>6. request'[t]["logout"].state # "none"
  BY <1>1, <1>2
<1> QED
  BY <1>4, <1>5, <1>6

\* The cookie is renewed or deleted: no request is about its session any more.
LEMMA PutCookie ==
  ASSUME RequestsFit, NEW t \in Tab, NEW k \in Kind, NEW c,
         DoneWithCookie(t, k, c)
  PROVE  /\ RequestsFit'
         /\ \A s \in Tab : \A j \in Kind : request'[s][j] =
              IF s = t /\ j = k THEN Idle ELSE Overtaken(request[s][j])
<1>1. \A s \in Tab : \A j \in Kind : request'[s][j] =
        IF s = t /\ j = k THEN Idle ELSE Overtaken(request[s][j])
  BY DEF DoneWithCookie
<1>2. \A r \in Request : /\ Overtaken(r) \in Request
                         /\ Overtaken(r).state = r.state
                         /\ Overtaken(r).user = r.user
                         /\ ~Overtaken(r).current
  BY DEF Overtaken, Request
<1>3. \A s \in Tab : \A j \in Kind : request'[s][j] \in Request
  BY <1>1, <1>2, IdleFits DEF RequestsFit, Fits
<1>4. request' \in [Tab -> [Kind -> Request]]
  BY <1>3 DEF DoneWithCookie
<1>5. ASSUME NEW s \in Tab, NEW j \in Kind PROVE Fits(j, request[s][j])'
  <2>1. Fits(j, request[s][j]) /\ Fits(j, Idle)
    BY IdleFits DEF RequestsFit
  <2>2. CASE s = t /\ j = k
    <3>1. request'[s][j] = Idle /\ request'[s][j] \in Request
      BY <1>1, <1>3, <2>2
    <3>2. ~Idle.current /\ Idle.state = "none"
      BY DEF Idle
    <3> QED
      BY <3>1, <3>2 DEF Fits
  <2>3. CASE ~(s = t /\ j = k)
    BY <1>1, <1>2, <1>3, <2>1, <2>3 DEF Fits
  <2> QED
    BY <2>2, <2>3
<1> QED
  BY <1>1, <1>4, <1>5 DEF RequestsFit
----------------------------------------------------------------------------
\* The steps that send a request, or begin with it an answer.
LEMMA LoadStep ==
  ASSUME IInv, NEW t \in Tab, NEW p \in {"login", "dashboard"}, Load(t, p)
  PROVE  IInv'
<1> USE DEF Load, SetStore
<1>1. SessionTypeOK'
  BY DEF IInv, SessionTypeOK, MaybeUser
<1>2. "hydrate" \in Kind /\ SessionTypeOK
  BY DEF IInv, Kind
<1>3. \A s \in Tab : \A k \in Kind : request'[s][k] =
        IF s = t THEN (IF k = "hydrate" THEN Sent(k) ELSE Idle) ELSE request[s][k]
  BY DEF IInv, RequestsFit
<1>4. ASSUME NEW s \in Tab, NEW k \in Kind
      PROVE  Fits(k, request[s][k])' /\ request'[s][k] \in Request
  <2>1. Fits(k, request'[s][k])
    BY <1>2, <1>3, SentFits, IdleFits DEF IInv, RequestsFit
  <2> QED
    BY <2>1 DEF Fits
<1>5. RequestsFit'
  <2>1. [k \in Kind |-> IF k = "hydrate" THEN Sent(k) ELSE Idle] \in [Kind -> Request]
    BY <1>2, SentFits, IdleFits DEF Fits
  <2>2. request' \in [Tab -> [Kind -> Request]]
    BY <2>1 DEF IInv, RequestsFit
  <2> QED
    BY <1>4, <2>2 DEF RequestsFit
<1>6. GuardTracksRefresh'
  BY <1>3 DEF IInv, SessionTypeOK, GuardTracksRefresh, Free, Idle, Kind
<1> QED
  BY <1>1, <1>5, <1>6 DEF IInv

\* A step that changes one request, not the refresh, keeps the guard.
LEMMA OtherRequest ==
  ASSUME IInv, SessionTypeOK', NEW t \in Tab, NEW k \in Kind \ {"refresh"}, NEW r,
         Fits(k, r), request' = [request EXCEPT ![t][k] = r],
         cookie'.valid => cookie.valid, UNCHANGED isRefreshing
  PROVE  IInv'
<1>1. RequestsFit'
  BY PutRequest DEF IInv
<1>2. GuardTracksRefresh'
  BY DEF IInv, RequestsFit, GuardTracksRefresh, Free
<1> QED
  BY <1>1, <1>2 DEF IInv

LEMMA AsksStep ==
  ASSUME IInv, NEW t \in Tab, Asks(t)
  PROVE  IInv'
<1>1. CASE SubmitLogin(t)
  <2> USE <1>1 DEF SubmitLogin, Send, store, route
  <2>1. SessionTypeOK' /\ "login" \in Kind \ {"refresh"}
    BY DEF IInv, SessionTypeOK, Kind
  <2> QED
    BY <2>1, SentFits, OtherRequest DEF IInv
<1>2. CASE ApiCall(t)
  <2> USE <1>2 DEF ApiCall, Send, store, route
  <2>1. SessionTypeOK' /\ "api" \in Kind \ {"refresh"}
    BY DEF IInv, SessionTypeOK, Kind
  <2> QED
    BY <2>1, SentFits, OtherRequest DEF IInv
<1>3. CASE refreshSession(t)
  <2> USE <1>3 DEF refreshSession, store, route
  <2>1. SessionTypeOK' /\ "refresh" \in Kind
    BY DEF IInv, SessionTypeOK, Kind
  <2>2. RequestsFit'
    BY <2>1, SentFits, PutRequest DEF IInv
  <2>3. GuardTracksRefresh'
    BY <2>1, SentFits DEF IInv, SessionTypeOK, RequestsFit, GuardTracksRefresh, Free
  <2> QED
    BY <2>1, <2>2, <2>3 DEF IInv
<1>4. CASE ClickLogout(t)
  <2> USE <1>4 DEF ClickLogout, SetStore, Replace
  <2>1. SessionTypeOK'
    BY DEF IInv, SessionTypeOK, MaybeUser
  <2>2. PICK r : /\ Fits("logout", r)
                 /\ request' = [request EXCEPT ![t]["logout"] = r]
    BY SentFits DEF IInv, RequestsFit, logoutRequest, Kind
  <2>3. "logout" \in Kind \ {"refresh"}
    BY DEF Kind
  <2> QED
    BY <2>1, <2>2, <2>3, OtherRequest
<1> QED
  BY <1>1, <1>2, <1>3, <1>4 DEF Asks
----------------------------------------------------------------------------
\* An answer puts one request into an answered state.
LEMMA AnswerStep ==
  ASSUME IInv, NEW t \in Tab, NEW k \in Kind,
         NEW s \in {"ok", "denied", "failed", "broken"}, Answer(t, k, s),
         s = "ok" /\ k # "logout" => request[t][k].user # NoUser,
         s = "denied" /\ request[t][k].current => ~cookie.valid
  PROVE  IInv'
<1> DEFINE r == [state |-> s, user |-> IF s = "ok" THEN request[t][k].user ELSE NoUser,
                 current |-> s = "denied" /\ request[t][k].current]
<1>1. SessionTypeOK' /\ UNCHANGED <<cookie, isRefreshing>>
  BY DEF Answer, IInv, SessionTypeOK, store, route
<1>2. request[t][k] \in Request /\ Fits(k, request[t][k])
  BY DEF IInv, RequestsFit
<1>3. Fits(k, r) /\ r.state # "none"
  BY <1>2 DEF Fits, Request, MaybeUser
<1>4. request' = [request EXCEPT ![t][k] = r]
  BY DEF Answer
<1> HIDE DEF r
<1>5. RequestsFit'
  BY <1>1, <1>3, <1>4, PutRequest DEF IInv
<1>6. GuardTracksRefresh'
  BY <1>1, <1>3, <1>4
  DEF Answer, Waiting, IInv, RequestsFit, GuardTracksRefresh, Free
<1> QED
  BY <1>1, <1>5, <1>6 DEF IInv

\* A request other than the refresh that is done changes nothing else.
LEMMA DoneStep ==
  ASSUME IInv, SessionTypeOK', NEW t \in Tab, NEW k \in Kind \ {"refresh"}, Done(t, k),
         UNCHANGED isRefreshing
  PROVE  IInv'
BY IdleFits, OtherRequest DEF Done

LEMMA ServesStep ==
  ASSUME IInv, NEW t \in Tab, Serves(t)
  PROVE  IInv'
<1>1. {"hydrate", "refresh", "api", "login", "logout"} = Kind
  BY DEF Kind
<1>2. \A k \in Kind : Fits(k, request[t][k])
  BY DEF IInv, RequestsFit
<1>3. ASSUME NEW k \in {"hydrate", "refresh"}, AnswerRefresh(t, k) PROVE IInv'
  <2>1. k \in Kind /\ ~request[t][k].current
    BY <1>1, <1>2 DEF Fits
  <2> QED
    BY <1>3, <2>1, AnswerStep DEF AnswerRefresh
<1>4. CASE AnswerApi(t)
  <2>1. CASE /\ ~(request[t]["api"].current /\ cookie.valid)
             /\ Answer(t, "api", "denied")
    BY <1>1, <2>1, AnswerStep
  <2>2. CASE Done(t, "api") /\ UNCHANGED <<store, route, isRefreshing>>
    <3>1. SessionTypeOK'
      BY <2>2 DEF Done, IInv, SessionTypeOK, store, route
    <3> QED
      BY <1>1, <2>2, <3>1, DoneStep
  <2> QED
    BY <1>4, <2>1, <2>2 DEF AnswerApi
<1>5. CASE AnswerLogin(t)
  <2> DEFINE q == request[t]["login"]
  <2>1. "login" \in Kind \ {"refresh"} /\ q \in Request /\ Fits("login", q)
    BY <1>1, <1>2 DEF IInv, RequestsFit
  <2>2. SessionTypeOK' /\ UNCHANGED <<cookie, isRefreshing>>
    BY <1>5 DEF AnswerLogin, IInv, SessionTypeOK, store, route
  <2>3. CASE request' = [request EXCEPT ![t]["login"] = Idle]
    BY <2>1, <2>2, <2>3, IdleFits, OtherRequest
  <2>4. ASSUME NEW u \in User,
               request' = [request EXCEPT ![t]["login"].state = "ok",
                                          ![t]["login"].user = u]
        PROVE  IInv'
    <3> DEFINE r == [q EXCEPT !.state = "ok", !.user = u]
    <3>1. request' = [request EXCEPT ![t]["login"] = r]
      BY <2>1, <2>4 DEF IInv, RequestsFit
    <3>2. Fits("login", r)
      BY <2>1, UserAssumption DEF Fits, Request, MaybeUser
    <3> QED
      BY <2>1, <2>2, <3>1, <3>2, OtherRequest
  <2> QED
    BY <1>5, <2>3, <2>4 DEF AnswerLogin
<1>6. CASE AnswerLogout(t)
  BY <1>1, <1>2, <1>6, AnswerStep DEF AnswerLogout, Fits
<1>7. CASE AnswerFailed(t)
  <2>1. ASSUME NEW k \in {"hydrate", "refresh"}, NEW s \in {"broken", "failed"},
               Answer(t, k, s)
        PROVE  IInv'
    BY <1>1, <2>1, AnswerStep
  <2>2. CASE Done(t, "logout") /\ UNCHANGED <<store, route, isRefreshing>>
    <3>1. SessionTypeOK'
      BY <2>2 DEF Done, IInv, SessionTypeOK, store, route
    <3> QED
      BY <1>1, <2>2, <3>1, DoneStep
  <2> QED
    BY <1>7, <2>1, <2>2 DEF AnswerFailed
<1> QED
  BY <1>3, <1>4, <1>5, <1>6, <1>7 DEF Serves
----------------------------------------------------------------------------
\* What a tab makes of an answer: the cookie is renewed with the user of the
\* answer, or the tab is signed out.
LEMMA RenewStep ==
  ASSUME IInv, SessionTypeOK', NEW t \in Tab, NEW k \in Kind, NEW c,
         DoneWithCookie(t, k, c),
         \A s \in Tab : isRefreshing'[s] <=> isRefreshing[s] /\ ~(s = t /\ k = "refresh")
  PROVE  IInv'
<1>1. RequestsFit'
      /\ \A s \in Tab : \A j \in Kind : request'[s][j] =
           IF s = t /\ j = k THEN Idle ELSE Overtaken(request[s][j])
  BY PutCookie DEF IInv
<1>2. "refresh" \in Kind
  BY DEF Kind
<1>3. ASSUME NEW s \in Tab PROVE isRefreshing'[s] <=> ~Free(s, "refresh")'
  <2>1. Overtaken(request[s]["refresh"]).state = request[s]["refresh"].state
    BY <1>2 DEF IInv, RequestsFit, Request, Overtaken
  <2>2. request[s]["refresh"].state = "none" => request[s][k].state # "ok" \/ k # "refresh"
    OBVIOUS
  <2> QED
    BY <1>1, <1>2, <2>1, <2>2, IdleFits DEF IInv, GuardTracksRefresh, Free
<1> QED
  BY <1>1, <1>3 DEF IInv, GuardTracksRefresh

\* Signed out by an answer, a tab posts its logout.
LEMMA SignOutStep ==
  ASSUME IInv, SessionTypeOK', NEW t \in Tab, NEW k \in Kind \ {"logout"},
         request' = logoutRequest(t, [request EXCEPT ![t][k] = Idle]),
         UNCHANGED cookie,
         \A s \in Tab : isRefreshing'[s] <=> isRefreshing[s] /\ ~(s = t /\ k = "refresh")
  PROVE  IInv'
<1>1. /\ RequestsFit'
      /\ \A s \in Tab : \A j \in Kind \ {"logout"} :
           request'[s][j] = IF s = t /\ j = k THEN Idle ELSE request[s][j]
  BY PutLogout DEF IInv
<1>2. "refresh" \in Kind \ {"logout"}
  BY DEF Kind
<1>3. GuardTracksRefresh'
  BY <1>1, <1>2, IdleFits DEF IInv, GuardTracksRefresh, Free
<1> QED
  BY <1>1, <1>3 DEF IInv

LEMMA HandlesStep ==
  ASSUME IInv, NEW t \in Tab, Handles(t)
  PROVE  IInv'
<1>1. {"hydrate", "refresh", "api", "login", "logout"} = Kind
  BY DEF Kind
<1>2. /\ SessionTypeOK
      /\ \A k \in Kind : request[t][k] \in Request /\ Fits(k, request[t][k])
  BY DEF IInv, RequestsFit
<1>3. CASE hydrate(t)
  <2> DEFINE u == request[t]["hydrate"].user
  <2>0. request[t]["hydrate"].state = "ok" => Fresh(u) \in Cookie /\ Fresh(u).user # NoUser /\ u \in MaybeUser
    BY <1>1, <1>2 DEF Fits, Fresh, Cookie, MaybeUser, Request
  <2>1. SessionTypeOK' /\ UNCHANGED isRefreshing
    <3>1. cookie' \in Cookie /\ (cookie'.user = NoUser => ~cookie'.valid)
      BY <1>2, <1>3, <2>0 DEF hydrate, DoneWithCookie, Done, SessionTypeOK
    <3>2. user' \in [Tab -> MaybeUser] /\ isAuthenticated' \in [Tab -> BOOLEAN]
      BY <1>2, <1>3, <2>0 DEF hydrate, SetStore, SessionTypeOK, MaybeUser
    <3>3. leaving' \in [Tab -> BOOLEAN]
      BY <1>2, <1>3 DEF hydrate, WatchStore, SessionTypeOK
    <3> QED
      BY <1>2, <1>3, <3>1, <3>2, <3>3 DEF hydrate, SessionTypeOK
  <2>2. CASE DoneWithCookie(t, "hydrate", Fresh(request[t]["hydrate"].user))
    BY <1>1, <2>1, <2>2, RenewStep
  <2>3. CASE Done(t, "hydrate")
    BY <1>1, <2>1, <2>3, DoneStep
  <2> QED
    BY <1>3, <2>2, <2>3 DEF hydrate
<1>4. CASE RefreshAnswered(t)
  <2> USE <1>4 DEF RefreshAnswered, RefreshAnsweredWith
  <2> DEFINE u == request[t]["refresh"].user
  <2>0. request[t]["refresh"].state = "ok" => Fresh(u) \in Cookie /\ Fresh(u).user # NoUser /\ u \in MaybeUser
    BY <1>1, <1>2 DEF Fits, Fresh, Cookie, MaybeUser, Request
  <2>1. SessionTypeOK'
    <3>1. cookie' \in Cookie /\ (cookie'.user = NoUser => ~cookie'.valid)
      BY <1>2, <2>0 DEF DoneWithCookie, Done, SessionTypeOK
    <3>2. user' \in [Tab -> MaybeUser]
      BY <1>2, <2>0 DEF SetStore, SessionTypeOK, MaybeUser, store
    <3>3. isAuthenticated' \in [Tab -> BOOLEAN]
      BY <1>2 DEF SetStore, SessionTypeOK, store
    <3>4. isRefreshing' \in [Tab -> BOOLEAN] /\ leaving' \in [Tab -> BOOLEAN]
      BY <1>2 DEF Replace, SessionTypeOK
    <3> QED
      BY <1>2, <3>1, <3>2, <3>3, <3>4 DEF SessionTypeOK
  <2>2. \A s \in Tab : isRefreshing'[s] <=> isRefreshing[s] /\ s # t
    BY <1>2 DEF SessionTypeOK
  <2>3. CASE DoneWithCookie(t, "refresh", Fresh(request[t]["refresh"].user))
    BY <1>1, <2>1, <2>2, <2>3, RenewStep
  <2>4. CASE /\ request' = logoutRequest(t, [request EXCEPT ![t]["refresh"] = Idle])
             /\ UNCHANGED cookie
    BY <1>1, <2>1, <2>2, <2>4, SignOutStep
  <2>5. CASE Done(t, "refresh")
    <3>1. RequestsFit'
      BY <1>1, <2>5, IdleFits, PutRequest DEF Done, IInv
    <3>2. GuardTracksRefresh'
      BY <1>1, <2>2, <2>5, IdleFits
      DEF Done, IInv, RequestsFit, GuardTracksRefresh, Free
    <3> QED
      BY <2>1, <3>1, <3>2 DEF IInv
  <2> QED
    BY <2>3, <2>4, <2>5
<1>5. CASE apiCall(t)
  <2> USE <1>5 DEF apiCall, SetStore, Replace
  <2>1. SessionTypeOK'
    BY <1>2 DEF SessionTypeOK, MaybeUser
  <2> QED
    BY <1>1, <2>1, SignOutStep
<1>6. CASE handleSubmit(t)
  <2> USE <1>6 DEF handleSubmit, SetStore
  <2>1. SessionTypeOK'
    BY <1>1, <1>2
    DEF DoneWithCookie, SessionTypeOK, Fits, Fresh, Cookie, MaybeUser, Request
  <2> QED
    BY <1>1, <2>1, RenewStep
<1>7. CASE LogoutAnswered(t)
  <2> USE <1>7 DEF LogoutAnswered, store, route
  <2>1. SessionTypeOK'
    BY <1>2 DEF DoneWithCookie, SessionTypeOK, NoCookie, Cookie, MaybeUser
  <2> QED
    BY <1>1, <2>1, RenewStep
<1>8. CASE Push(t) \/ LoadingEnds(t)
  <2>1. SessionTypeOK' /\ UNCHANGED <<cookie, request, isRefreshing>>
    BY <1>2, <1>8 DEF Push, LoadingEnds, SessionTypeOK, store
  <2> QED
    BY <2>1 DEF IInv, RequestsFit, Fits, GuardTracksRefresh, Free
<1>9. CASE Leave(t)
  BY <1>9, LoadStep DEF Leave
<1> QED
  BY <1>3, <1>4, <1>5, <1>6, <1>7, <1>8, <1>9 DEF Handles

\* The cookie's own steps.
LEMMA CookieStep == IInv /\ (CookieExpires \/ CookieAgesOut) => IInv'
<1> SUFFICES ASSUME IInv, CookieExpires \/ CookieAgesOut PROVE IInv'
  OBVIOUS
<1>1. CASE CookieExpires
  <2> USE <1>1 DEF CookieExpires, store, route
  <2>1. SessionTypeOK'
    BY DEF IInv, SessionTypeOK, Cookie
  <2>2. ~cookie'.valid /\ UNCHANGED request
    BY DEF IInv, SessionTypeOK, Cookie
  <2> QED
    BY <2>1, <2>2 DEF IInv, RequestsFit, Fits, GuardTracksRefresh, Free
<1>2. CASE CookieAgesOut
  <2> USE <1>2 DEF CookieAgesOut, store, route
  <2>1. SessionTypeOK'
    BY DEF IInv, SessionTypeOK, Cookie, NoCookie, MaybeUser
  <2>2. ASSUME NEW t \in Tab, NEW k \in Kind
        PROVE  /\ Fits(k, request[t][k])' /\ request'[t][k] \in Request
               /\ request'[t][k].state = request[t][k].state
    BY DEF IInv, RequestsFit, Fits, Request, Overtaken
  <2>3. request' \in [Tab -> [Kind -> Request]]
    BY <2>2
  <2>4. GuardTracksRefresh'
    BY <2>2 DEF IInv, GuardTracksRefresh, Free, Kind
  <2> QED
    BY <2>1, <2>2, <2>3, <2>4 DEF IInv, RequestsFit
<1> QED
  BY <1>1, <1>2

LEMMA StepIInv == IInv /\ [Next]_vars => IInv'
<1> SUFFICES ASSUME IInv, [Next]_vars PROVE IInv'
  OBVIOUS
<1>1. ASSUME NEW t \in Tab, OpenDashboard(t) PROVE IInv'
  BY <1>1, LoadStep DEF OpenDashboard
<1>2. CASE UNCHANGED vars
  BY <1>2 DEF IInv, SessionTypeOK, RequestsFit, Fits, GuardTracksRefresh, Free,
              vars, store, route
<1> QED
  BY <1>1, <1>2, AsksStep, ServesStep, HandlesStep, CookieStep DEF Next
----------------------------------------------------------------------------
\* The inductive invariant: what is out is out for one slot, an answer with a
\* session names its user, and only a call may be about the cookie's session.
THEOREM Invariant == Spec => []IInv
<1> QED
  BY InitIInv, StepIInv, PTL DEF Spec

\* Type correctness: the cookie, the stores, the routes and the requests.
THEOREM TypeCorrect == Spec => []TypeOK
<1>1. IInv => TypeOK
  BY DEF IInv, SessionTypeOK, RequestsFit, TypeOK
<1> QED
  BY <1>1, Invariant, PTL

\* The guard of the session manager is set exactly while its request is out.
THEOREM GuardIsRight == Spec => []GuardTracksRefresh
<1>1. IInv => GuardTracksRefresh
  BY DEF IInv
<1> QED
  BY <1>1, Invariant, PTL

----------------------------------------------------------------------------
\* While the cookie is valid, only these steps send a signed-in tab away.
LEMMA SignOutIsRight ==
  ASSUME IInv, Next, cookie.valid,
         NEW t \in Tab, isAuthenticated[t], ~leaving[t], leaving'[t]
  PROVE  SignedOutRightly(t)
<1>1. {"hydrate", "refresh", "api", "login", "logout"} = Kind
  BY DEF Kind
<1>2. SessionTypeOK /\ RequestsFit
      /\ \A k \in Kind : request[t][k] \in Request /\ Fits(k, request[t][k])
  BY DEF IInv, RequestsFit
<1>3. ASSUME NEW s \in Tab, Load(s, "login") \/ Load(s, "dashboard")
      PROVE  FALSE
  BY <1>2, <1>3 DEF Load, SessionTypeOK
<1>4. ASSUME NEW s \in Tab, Asks(s) PROVE SignedOutRightly(t)
  <2>1. ClickLogout(s) /\ s = t
    BY <1>2, <1>4 DEF Asks, SubmitLogin, ApiCall, refreshSession, ClickLogout,
                      Replace, SessionTypeOK, route
  <2>2. request' = logoutRequest(t, request)
    BY <2>1 DEF ClickLogout
  <2>3. /\ ~Free(t, "logout")'
        /\ \A k \in Kind \ {"logout"} : request'[t][k] = request[t][k]
    BY <1>1, <1>2, <2>2, SentFits DEF logoutRequest, Free, RequestsFit
  <2> QED
    BY <2>3 DEF SignedOutRightly
<1>5. ASSUME NEW s \in Tab, Serves(s) PROVE FALSE
  BY <1>5 DEF Serves, AnswerRefresh, AnswerApi, AnswerLogin, AnswerLogout,
              AnswerFailed, Answer, route
<1>6. ASSUME NEW s \in Tab, Handles(s) PROVE SignedOutRightly(t)
  <2>1. s = t /\ (hydrate(t) \/ RefreshAnswered(t) \/ apiCall(t))
    BY <1>2, <1>3, <1>6
    DEF Handles, hydrate, WatchStore, RefreshAnswered, RefreshAnsweredWith,
        apiCall, handleSubmit, LogoutAnswered, Push, LoadingEnds, Leave,
        Replace, SessionTypeOK, route
  <2>2. CASE hydrate(t)
    <3>1. request[t]["hydrate"].state \in {"denied", "broken"} /\ Done(t, "hydrate")
      BY <1>2, <2>2 DEF hydrate, WatchStore, SessionTypeOK
    <3>2. request'[t]["hydrate"] = Idle /\ ~request[t]["hydrate"].current
      BY <1>1, <1>2, <3>1 DEF Done, RequestsFit, Fits
    <3> QED
      BY <1>1, <3>1, <3>2 DEF SignedOutRightly
  <2>3. CASE RefreshAnswered(t)
    <3>1. /\ request[t]["refresh"].state \in {"denied", "broken"}
          /\ request' = logoutRequest(t, [request EXCEPT ![t]["refresh"] = Idle])
          /\ UNCHANGED cookie
      BY <2>3 DEF RefreshAnswered, RefreshAnsweredWith
    <3>2. request'[t]["refresh"] = Idle
      BY <1>1, <1>2, <3>1, PutLogout
    <3>3. ~request[t]["refresh"].current
      BY <1>1, <1>2 DEF Fits
    <3> QED
      BY <1>1, <3>1, <3>2, <3>3 DEF SignedOutRightly
  <2>4. CASE apiCall(t)
    <3>1. request'[t]["api"] = Idle
      BY <1>1, <1>2, <2>4, PutLogout DEF apiCall
    <3>2. request[t]["api"].state = "denied" /\ ~request[t]["api"].current
      BY <1>1, <1>2, <2>4 DEF apiCall, Fits
    <3> QED
      BY <1>1, <3>1, <3>2 DEF SignedOutRightly
  <2> QED
    BY <2>1, <2>2, <2>3, <2>4
<1>7. ASSUME CookieExpires \/ CookieAgesOut PROVE FALSE
  BY <1>7 DEF CookieExpires, CookieAgesOut, route
<1> QED
  BY <1>3, <1>4, <1>5, <1>6, <1>7 DEF Next, OpenDashboard

\* A tab never leaves a good session because of an answer about that session.
THEOREM SessionKept == Spec => GoodSessionKept
<1>1. IInv /\ [Next]_vars =>
        [cookie.valid =>
           \A t \in Tab : isAuthenticated[t] /\ ~leaving[t] /\ leaving'[t]
             => SignedOutRightly(t)]_vars
  BY SignOutIsRight
<1> QED
  BY <1>1, Invariant, PTL DEF Spec, GoodSessionKept

----------------------------------------------------------------------------
(* No tab stays on the dashboard with nobody signed in.                    *)

SignedInHasUser == \A t \in Tab : isAuthenticated[t] => user[t] # NoUser

DInv == IInv /\ SignedInHasUser /\ DashboardHasUser

\* A step of one tab keeps these parts if it keeps them for that tab.
TabRight(t) ==
  /\ isAuthenticated[t] => user[t] # NoUser
  /\ page[t] = "dashboard" /\ ~isLoading[t] /\ ~leaving[t] => isAuthenticated[t]

LEMMA TabsRight == SignedInHasUser /\ DashboardHasUser <=> \A t \in Tab : TabRight(t)
BY DEF SignedInHasUser, DashboardHasUser, TabRight

\* A new document shows its loading screen, or the login page.
LEMMA LoadRight ==
  ASSUME DInv, NEW t \in Tab, NEW p \in {"login", "dashboard"}, Load(t, p)
  PROVE  \A s \in Tab : TabRight(s)'
<1>1. /\ ~isAuthenticated'[t] /\ (page'[t] = "dashboard" => isLoading'[t])
      /\ \A s \in Tab : s # t =>
           /\ isAuthenticated'[s] = isAuthenticated[s] /\ user'[s] = user[s]
           /\ page'[s] = page[s] /\ isLoading'[s] = isLoading[s]
           /\ leaving'[s] = leaving[s]
  BY DEF Load, SetStore, DInv, IInv, SessionTypeOK
<1> QED
  BY <1>1, TabsRight DEF DInv, TabRight

\* What a tab is told of a session names its user; and when it is told that it
\* has none, or logs out, it leaves.
LEMMA HandlesRight ==
  ASSUME DInv, NEW t \in Tab, Handles(t)
  PROVE  \A s \in Tab : TabRight(s)'
<1>1. /\ SessionTypeOK /\ \A s \in Tab : TabRight(s)
      /\ \A k \in {"hydrate", "refresh", "login"} :
           request[t][k].state = "ok" => request[t][k].user # NoUser
  BY TabsRight DEF DInv, IInv, RequestsFit, Fits, Kind
<1>2. CASE hydrate(t)
  BY <1>1, <1>2 DEF hydrate, SetStore, WatchStore, SessionTypeOK, TabRight
<1>3. CASE RefreshAnswered(t)
  BY <1>1, <1>3
  DEF RefreshAnswered, RefreshAnsweredWith, SetStore, Replace, store, SessionTypeOK, TabRight
<1>4. CASE apiCall(t)
  BY <1>1, <1>4 DEF apiCall, SetStore, Replace, SessionTypeOK, TabRight
<1>5. CASE handleSubmit(t)
  BY <1>1, <1>5 DEF handleSubmit, SetStore, SessionTypeOK, TabRight
<1>6. CASE LogoutAnswered(t)
  BY <1>1, <1>6 DEF LogoutAnswered, store, route, TabRight
<1>7. CASE Push(t)
  BY <1>1, <1>7 DEF Push, store, SessionTypeOK, TabRight
<1>8. CASE LoadingEnds(t)
  BY <1>1, <1>8 DEF LoadingEnds, store, SessionTypeOK, TabRight
<1>9. CASE Leave(t)
  BY <1>9, LoadRight DEF Leave
<1> QED
  BY <1>2, <1>3, <1>4, <1>5, <1>6, <1>7, <1>8, <1>9 DEF Handles

LEMMA StepDInv == DInv /\ [Next]_vars => DInv'
<1> SUFFICES ASSUME DInv, [Next]_vars PROVE DInv'
  OBVIOUS
<1>1. IInv'
  BY StepIInv DEF DInv
<1>2. ASSUME UNCHANGED <<store, route>> PROVE \A t \in Tab : TabRight(t)'
  BY <1>2, TabsRight DEF DInv, TabRight, store, route
<1>3. ASSUME NEW t \in Tab, ClickLogout(t) PROVE \A s \in Tab : TabRight(s)'
  BY <1>3, TabsRight
  DEF ClickLogout, SetStore, Replace, DInv, IInv, SessionTypeOK, TabRight
<1>4. ASSUME NEW t \in Tab, Asks(t) PROVE \A s \in Tab : TabRight(s)'
  BY <1>2, <1>3, <1>4 DEF Asks, SubmitLogin, ApiCall, refreshSession
<1>5. ASSUME NEW t \in Tab, Serves(t) PROVE UNCHANGED <<store, route>>
  BY <1>5 DEF Serves, AnswerRefresh, AnswerApi, AnswerLogin, AnswerLogout,
              AnswerFailed, Answer
<1>6. ASSUME NEW t \in Tab, OpenDashboard(t) PROVE \A s \in Tab : TabRight(s)'
  BY <1>6, LoadRight DEF OpenDashboard
<1>7. CookieExpires \/ CookieAgesOut \/ UNCHANGED vars => UNCHANGED <<store, route>>
  BY DEF CookieExpires, CookieAgesOut, vars
<1>8. \A t \in Tab : TabRight(t)'
  BY <1>2, <1>4, <1>5, <1>6, <1>7, HandlesRight DEF Next
<1>9. SignedInHasUser' /\ DashboardHasUser'
  BY <1>8 DEF SignedInHasUser, DashboardHasUser, TabRight
<1> QED
  BY <1>1, <1>9 DEF DInv

\* A tab that has nobody signed in leaves the dashboard, however late the answer
\* that signed it out, and shows its pages only for somebody.
THEOREM NobodyStays == Spec => []DashboardHasUser
<1>1. Init => DInv
  BY InitIInv DEF Init, DInv, SignedInHasUser, DashboardHasUser
<1>2. DInv => DashboardHasUser
  BY DEF DInv
<1> QED
  BY <1>1, <1>2, StepDInv, PTL DEF Spec
=============================================================================
