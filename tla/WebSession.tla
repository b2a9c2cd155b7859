----------------------------- MODULE WebSession -----------------------------
(***************************************************************************)
(* How the web application keeps a user signed in: APIClient in each tab   *)
(* of a browser, the route /auth-session of the Next.js server, and the    *)
(* auth service, of which this module says only that a refresh token is    *)
(* good for one refresh and that a logout revokes what it is given.        *)
(*                                                                         *)
(* The access token is in the memory of a tab, the refresh token in a      *)
(* cookie that the tabs share and that no script can read.  A refresh is   *)
(* asked for at most once at a time by a tab (refreshPromise), and the     *)
(* route asks the auth service once at a time for each cookie value.       *)
(*                                                                         *)
(* Refresh tokens are numbered as they are issued, each with an access     *)
(* token; 0 is no token.  Of access tokens the module keeps which tab has  *)
(* one, and one is found expired, a 401, at any time.                      *)
(***************************************************************************)
EXTENDS Naturals

CONSTANTS
    Tabs,
    Gets,        \* GET requests to /auth-session that may be under way
    MaxTokens    \* bound of the model: tokens issued

VARIABLES
    cookie,    \* __Host-wf_refresh of the browser
    memory,    \* the tabs that have an accessToken
    live,      \* the refresh tokens the auth service would accept
    issued,    \* how many tokens have been issued
    get,       \* the GET requests
    inflight,  \* inflightRefreshes: by cookie value, what the auth service answered
    signing,   \* by tab: a login or a logout under way
    \* history of the run, not state of the program
    askedBy,   \* by refresh token: the tabs whose GET has reached the route with it
    excused,   \* an answer was lost or overtaken, another tab's GET came late, or a login
               \* crossed a GET
    clean      \* by tab: its logout has met no GET

vars == <<cookie, memory, live, issued, get, inflight, signing, askedBy, excused, clean>>

-----------------------------------------------------------------------------
(* Types *)

Tokens == 0 .. MaxTokens

\* What doRefresh returns: an access token and a cookie, 401 and a cookie that is
\* cleared, or 502 and no cookie.
Pending == [is |-> "pending", token |-> 0]
Cleared == [is |-> "failed", token |-> 0]
Unreachable == [is |-> "unreachable", token |-> 0]
Renewed(n) == [is |-> "renewed", token |-> n]

Outcomes == {Pending, Cleared, Unreachable} \union {Renewed(n) : n \in 1 .. MaxTokens}

NoGet == [at |-> "none"]

\* sent      with the cookie of that moment
\* waiting   at the route, for the refresh of its cookie value
\* answered  the answer is under way to the tab
GetStates ==
    {NoGet} \union [at : {"sent", "waiting"}, tab : Tabs, raw : Tokens]
            \union [at : {"answered"}, tab : Tabs, answer : Outcomes \ {Pending}]

Settled == [at |-> "settled"]

\* storing   login has got tokens, and posts the refresh token to the route
\* leaving   DELETE was sent with a cookie
\* left      the route has revoked what it was given
SigningStates ==
    {Settled} \union [at : {"storing"}, token : 1 .. MaxTokens]
              \union [at : {"leaving"}, raw : Tokens]
              \union [at : {"left"}]

-----------------------------------------------------------------------------
(* Helpers *)

Under(f) == get[f].at # "none"

Of(t) == {f \in Gets : Under(f) /\ get[f].tab = t}

\* Faulty variant: no refreshPromise.
AlwaysRefreshes(t) == TRUE

\* refreshPromise is null.
MayRefresh(t) == Of(t) = {}

\* "Let any rotation commit its cookie before revoking that credential."
MayLeave(t) == Of(t) = {}

Issue ==
    /\ issued < MaxTokens
    /\ issued' = issued + 1

UnchangedService == UNCHANGED <<live, issued>>

Init ==
    /\ cookie = 0 /\ memory = {}
    /\ live = {} /\ issued = 0
    /\ get = [f \in Gets |-> NoGet] /\ inflight = [v \in {} |-> Pending]
    /\ signing = [t \in Tabs |-> Settled]
    /\ askedBy = [v \in 1 .. MaxTokens |-> {}]
    /\ excused = FALSE /\ clean = [t \in Tabs |-> FALSE]

-----------------------------------------------------------------------------
(* Refresh: APIClient and GET /auth-session *)

\* refreshAccessToken
Refresh(t, f) ==
    /\ ~Under(f) /\ MayRefresh(t)
    /\ get' = [get EXCEPT ![f] = [at |-> "sent", tab |-> t, raw |-> cookie]]
    /\ clean' = [u \in Tabs |-> FALSE]
    /\ UnchangedService
    /\ UNCHANGED <<cookie, memory, inflight, signing, askedBy, excused>>

\* A page is loaded, and its memory has no token.
Hydrate(t, f) == t \notin memory /\ Refresh(t, f)

\* A request was answered 401, for the first time: the access token has expired.
\* When the refresh fails the user is sent to /login.
Retry(t, f) == Refresh(t, f)

\* Without a cookie the answer is 401, and sets none.
Arrive(f) ==
    LET q == get[f]
        late == q.raw \notin live /\ q.raw \notin DOMAIN inflight IN
    /\ get[f].at = "sent"
    /\ get' = [get EXCEPT ![f] =
         IF q.raw = 0 THEN [at |-> "answered", tab |-> q.tab, answer |-> Unreachable]
         ELSE [q EXCEPT !.at = "waiting"]]
    /\ inflight' = [v \in DOMAIN inflight \union ({q.raw} \ {0}) |->
                      IF v \in DOMAIN inflight THEN inflight[v] ELSE Pending]
    /\ askedBy' = IF q.raw = 0 THEN askedBy ELSE [askedBy EXCEPT ![q.raw] = @ \union {q.tab}]
    /\ excused' = (excused \/ (q.raw # 0 /\ late /\ q.tab \notin askedBy[q.raw]))
    /\ UnchangedService
    /\ UNCHANGED <<cookie, memory, signing, clean>>

\* doRefresh at the auth service.  A token that is good is consumed.
Renew(v) ==
    /\ v \in DOMAIN inflight /\ inflight[v] = Pending /\ v \in live
    /\ Issue
    /\ live' = (live \ {v}) \union {issued'}
    /\ inflight' = [inflight EXCEPT ![v] = Renewed(issued')]
    /\ UNCHANGED <<cookie, memory, get, signing, askedBy, excused, clean>>

\* The token is not good.
Refuse(v) ==
    /\ v \in DOMAIN inflight /\ inflight[v] = Pending /\ v \notin live
    /\ inflight' = [inflight EXCEPT ![v] = Cleared]
    /\ UnchangedService
    /\ UNCHANGED <<cookie, memory, get, signing, askedBy, excused, clean>>

\* The auth service is not reached, or its answer is lost after it has consumed
\* the token; or it answers with an error, and the cookie is cleared.
MissService(v, outcome) ==
    /\ v \in DOMAIN inflight /\ inflight[v].is \in {"pending", "renewed"}
    /\ outcome \in {Cleared, Unreachable}
    /\ inflight' = [inflight EXCEPT ![v] = outcome]
    /\ excused' = TRUE
    /\ UnchangedService
    /\ UNCHANGED <<cookie, memory, get, signing, askedBy, clean>>

\* The entry of the map is deleted, and every GET that waits has the same answer.
AnswerAll(v) ==
    /\ v \in DOMAIN inflight /\ inflight[v] # Pending
    /\ get' = [f \in Gets |->
         IF get[f].at = "waiting" /\ get[f].raw = v
         THEN [at |-> "answered", tab |-> get[f].tab, answer |-> inflight[v]] ELSE get[f]]
    /\ inflight' = [w \in DOMAIN inflight \ {v} |-> inflight[w]]
    /\ UnchangedService
    /\ UNCHANGED <<cookie, memory, signing, askedBy, excused, clean>>

\* The cookie is set or cleared, and the token kept in memory; without a token
\* the tab clears its own (clearAuth).  The token of an answer that a later refresh
\* has overtaken is dead.
Receive(f) ==
    LET a == get[f].answer
        t == get[f].tab IN
    /\ get[f].at = "answered"
    /\ cookie' = IF a.is = "unreachable" THEN cookie ELSE a.token
    /\ memory' = IF a.token = 0 THEN memory \ {t} ELSE memory \union {t}
    /\ get' = [get EXCEPT ![f] = NoGet]
    /\ excused' = (excused \/ (a.token # 0 /\ a.token \notin live))
    /\ UnchangedService
    /\ UNCHANGED <<inflight, signing, askedBy, clean>>

\* The answer is lost on its way, or the request before it came to the route.
LoseGet(f) ==
    /\ get[f].at \in {"sent", "answered"}
    /\ memory' = memory \ {get[f].tab}
    /\ get' = [get EXCEPT ![f] = NoGet]
    /\ excused' = TRUE
    /\ UnchangedService
    /\ UNCHANGED <<cookie, inflight, signing, askedBy, clean>>

-----------------------------------------------------------------------------
(* Login and logout *)

\* login, register or verifyMfaLogin: the tokens are in the answer.
Login(t) ==
    /\ signing[t] = Settled
    /\ Issue
    /\ live' = live \union {issued'}
    /\ signing' = [signing EXCEPT ![t] = [at |-> "storing", token |-> issued']]
    /\ UNCHANGED <<cookie, memory, get, inflight, askedBy, excused, clean>>

\* POST /auth-session
Persist(token) == cookie' = token

\* setTokens: the cookie is awaited before the access token is kept.
StoreTokens(t) ==
    /\ signing[t].at = "storing"
    /\ Persist(signing[t].token)
    /\ memory' = memory \union {t}
    /\ signing' = [signing EXCEPT ![t] = Settled]
    /\ excused' = (excused \/ \E f \in Gets : Under(f))
    /\ clean' = [u \in Tabs |-> FALSE]
    /\ UnchangedService
    /\ UNCHANGED <<get, inflight, askedBy>>

\* logout, as DELETE /auth-session is sent
Logout(t) ==
    /\ signing[t] = Settled /\ MayLeave(t)
    /\ signing' = [signing EXCEPT ![t] = [at |-> "leaving", raw |-> cookie]]
    /\ clean' = [clean EXCEPT ![t] = \A f \in Gets : Under(f) => get[f].tab = t]
    /\ UnchangedService
    /\ UNCHANGED <<cookie, memory, get, inflight, askedBy, excused>>

\* The route has the refresh token revoked, then the access token.  One that is no
\* longer good is no error.
Revoke(t) ==
    /\ signing[t].at = "leaving"
    /\ live' = live \ {signing[t].raw}
    /\ signing' = [signing EXCEPT ![t] = [at |-> "left"]]
    /\ UNCHANGED <<cookie, memory, issued, get, inflight, askedBy, excused, clean>>

\* The answer clears the cookie, and the tab its memory.
Left(t) ==
    /\ signing[t].at = "left"
    /\ cookie' = 0 /\ memory' = memory \ {t}
    /\ signing' = [signing EXCEPT ![t] = Settled]
    /\ UnchangedService
    /\ UNCHANGED <<get, inflight, askedBy, excused, clean>>

\* A login or a logout fails: what was revoked is revoked, nothing is cleared.
Fail(t) ==
    /\ signing[t] # Settled
    /\ live' \in {live} \union
         (IF signing[t].at = "leaving" THEN {live \ {signing[t].raw}} ELSE {})
    /\ signing' = [signing EXCEPT ![t] = Settled]
    /\ clean' = [clean EXCEPT ![t] = FALSE]
    /\ UNCHANGED <<cookie, memory, issued, get, inflight, askedBy, excused>>

Next ==
    \/ \E t \in Tabs :
        \/ \E f \in Gets : Hydrate(t, f) \/ Retry(t, f)
        \/ Login(t) \/ StoreTokens(t) \/ Logout(t) \/ Revoke(t) \/ Left(t) \/ Fail(t)
    \/ \E f \in Gets : Arrive(f) \/ Receive(f) \/ LoseGet(f)
    \/ \E v \in DOMAIN inflight :
        \/ Renew(v) \/ Refuse(v) \/ AnswerAll(v)
        \/ \E outcome \in {Cleared, Unreachable} : MissService(v, outcome)

Spec == Init /\ [][Next]_vars

-----------------------------------------------------------------------------
(* Properties *)

TypeOK ==
    /\ cookie \in Tokens /\ memory \subseteq Tabs
    /\ live \subseteq Tokens /\ issued \in Tokens
    /\ get \in [Gets -> GetStates]
    /\ DOMAIN inflight \subseteq Tokens /\ \A v \in DOMAIN inflight : inflight[v] \in Outcomes
    /\ signing \in [Tabs -> SigningStates]

\* "Concurrent GETs carrying the same cookie would otherwise burn the token twice"
\* (route.ts): requests that find their token expired at the same time cost no one
\* the session.  A good cookie is cleared by a logout alone, unless an answer was
\* lost or overtaken by a later one, another tab's GET came late, or a login crossed
\* a GET.
SessionSurvives ==
    cookie \in live /\ cookie' = 0 /\ ~excused => \E t \in Tabs : signing[t].at = "left"

\* Once a logout has succeeded that no GET of another tab and no later GET or
\* login has crossed, the browser has no cookie and the tab no access token, and
\* nothing is under way that would bring one back.
LogoutEnds ==
    \A t \in Tabs : signing[t].at = "left" /\ clean'[t] /\ signing'[t] = Settled =>
        /\ cookie' = 0 /\ t \notin memory'
        /\ \A f \in Gets : ~Under(f)'

\* Only a logout ends the session of a browser, and it does end it.
SessionIsKept == [][SessionSurvives /\ LogoutEnds]_vars

=============================================================================
