----------------------------- MODULE AuthAccount -----------------------------
(***************************************************************************)
(* An account of the auth service and its sessions: AuthService and the    *)
(* routes of auth.py, with the decisions of the admin service that reach   *)
(* it through the topic user.moderated.                                    *)
(*                                                                         *)
(* A request reads the row of the account, works for a while (a bcrypt     *)
(* hash takes a quarter of a second) and then writes what follows from     *)
(* what it has read.  Statements whose order no other request can tell are *)
(* one step.  An UPDATE holds the row lock until its transaction commits:  *)
(* a change of the password goes on to look for refresh tokens under it.   *)
(*                                                                         *)
(* Refresh tokens and challenges are numbered in the order of their issue. *)
(* Access tokens are told apart by their version only: the blacklist and   *)
(* the expiry of single access tokens are left out, and so is the count of *)
(* failed logins, which locks an account for a while.                      *)
(***************************************************************************)
EXTENDS Integers, Sequences

CONSTANTS
    Requests,      \* requests in flight at the same time
    \* bounds of the model
    MaxTokens,     \* refresh tokens issued
    MaxTickets,    \* MFA challenges issued
    MaxVersion,    \* auth_version: changes of the password
    MaxRulings     \* events on the bus

VARIABLES
    user,       \* users: the row of the account
    stored,     \* refresh_tokens: the numbers of the rows
    tickets,    \* how many MFA challenges have been issued
    spent,      \* token_blacklist: the challenges that were used
    access,     \* the versions that access tokens have been issued with
    ruling,     \* user_moderation.status = "active", in the database of the admin service
    bus,        \* user.moderated: the events that are not consumed yet
    issued,     \* how many refresh tokens have been issued
    req,        \* the requests and their local variables
    \* history of the run, not state of the program
    uses,       \* how many refresh tokens each challenge and refresh token has led to
    disturbed   \* a ruling was lost, or two were published at the same time

vars == <<user, stored, tickets, spent, access, ruling, bus, issued, req, uses, disturbed>>

-----------------------------------------------------------------------------
(* Types *)

\* mfa_secret and mfa_enabled
MfaStates == {"off", "pending", "on"}

Users == [version : 0 .. MaxVersion, active : BOOLEAN, mfa : MfaStates]

NewUser == [version |-> 0, active |-> TRUE, mfa |-> "off"]

Tokens == 1 .. MaxTokens

\* What a refresh token is issued for: a challenge, an older one, or a password.
Ticket(t) == [kind |-> "ticket", number |-> t]
Token(t) == [kind |-> "token", number |-> t]
Password == [kind |-> "password", number |-> 0]

Sources == {Ticket(t) : t \in 1 .. MaxTickets} \union {Token(t) : t \in Tokens}

\* verifying   login has read the row
\* minting     the credentials are checked and that is committed
\* refreshing  refresh_token has read the row
\* changing    change_password has read the row
\* revoking    it has updated the row and listed the tokens, not committed
\* publishing  moderate_user has committed
Places == {"idle", "verifying", "minting", "refreshing", "changing", "revoking", "publishing"}

\* seen    the row as the request read it
\* why     what its token will be issued for, while it is minting or refreshing
\* before  the tokens there were when it read the row
\* doomed  the tokens it lists
\* active  the ruling it publishes
RequestStates ==
    [at : Places, seen : Users, why : Sources \union {Password}, before : SUBSET Tokens,
     doomed : SUBSET Tokens, active : BOOLEAN]

Idle == [at |-> "idle", seen |-> NewUser, why |-> Password, before |-> {},
         doomed |-> {}, active |-> TRUE]

-----------------------------------------------------------------------------
(* Helpers *)

At(r, place) == req[r].at = place

\* What a request keeps that needs the version of the row only.
Versioned(u) == [NewUser EXCEPT !.version = u.version]

Enter(r, place) == [Idle EXCEPT !.at = place, !.seen = Versioned(user)]

\* No other transaction holds the row lock of the account.
RowFree == \A r \in Requests : ~At(r, "revoking")

\* get_current_user: a live account, an access token of its version.
Authorized == user.active /\ user.version \in access

\* Faulty variants: the token is not deleted; another row is made in its place.
LeftStored(t) == stored

\* consume: DELETE ... RETURNING
Consumed(t) == stored \ {t}

Recorded(t) == spent \union {t}

\* Faulty variant: only the latest token is revoked.
LatestListed(r) == {t \in stored : \A u \in stored : u <= t}

\* revoke_all_for_user lists what is committed when it runs.
Listed(r) == stored

\* A refresh token of the version the request has seen is issued, and an access token.
Issue(r, kept) ==
    /\ issued < MaxTokens
    /\ issued' = issued + 1
    /\ uses' = [s \in Sources |-> uses[s] + IF s = req[r].why THEN 1 ELSE 0]
    /\ stored' = kept \union {issued + 1}
    /\ access' = access \union {req[r].seen.version}
    /\ req' = [req EXCEPT ![r] = Idle]

-----------------------------------------------------------------------------
Init ==
    /\ user = NewUser
    /\ stored = {}
    /\ tickets = 0
    /\ spent = {}
    /\ access = {}
    /\ ruling = TRUE
    /\ bus = <<>>
    /\ req = [r \in Requests |-> Idle]
    /\ issued = 0
    /\ uses = [s \in Sources |-> 0]
    /\ disturbed = FALSE

UnchangedModeration == UNCHANGED <<ruling, bus, disturbed>>

\* login: the account is there and active.
ReadForLogin(r) ==
    /\ At(r, "idle")
    /\ user.active
    /\ req' = [req EXCEPT ![r] = [Enter(r, "verifying") EXCEPT !.seen = user]]
    /\ UNCHANGED <<user, stored, tickets, spent, access, issued, uses>>
    /\ UnchangedModeration

\* Tokens are issued in a transaction of their own, or a challenge is.
RightPassword(r) ==
    /\ At(r, "verifying")
    /\ user.active /\ RowFree
    /\ \/ /\ req[r].seen.mfa = "on"
          /\ tickets < MaxTickets
          /\ tickets' = tickets + 1
          /\ req' = [req EXCEPT ![r] = Idle]
       \/ /\ req[r].seen.mfa # "on"
          /\ req' = [req EXCEPT ![r].at = "minting", ![r].seen = Versioned(@)]
          /\ UNCHANGED tickets
    /\ UNCHANGED <<user, stored, spent, access, issued, uses>>
    /\ UnchangedModeration

\* complete_mfa_login: the code is right; the unique index lets one request
\* record the challenge, and the record is committed.
SpendTicket(r, t) ==
    /\ At(r, "idle")
    /\ user.active /\ user.mfa = "on"
    /\ t \notin spent
    /\ spent' = Recorded(t)
    /\ req' = [req EXCEPT ![r] = [Enter(r, "minting") EXCEPT !.why = Ticket(t)]]
    /\ UNCHANGED <<user, stored, tickets, access, issued, uses>>
    /\ UnchangedModeration

Mint(r) ==
    /\ At(r, "minting")
    /\ Issue(r, stored)
    /\ UNCHANGED <<user, tickets, spent>>
    /\ UnchangedModeration

\* refresh_token: the row is read before the token is consumed.
ReadForRefresh(r, t) ==
    /\ At(r, "idle")
    /\ user.active
    /\ req' = [req EXCEPT ![r] = [Enter(r, "refreshing") EXCEPT !.why = Token(t)]]
    /\ UNCHANGED <<user, stored, tickets, spent, access, issued, uses>>
    /\ UnchangedModeration

\* consume and create are one transaction; whoever wants the same row waits.
Rotate(r) ==
    LET t == req[r].why.number IN
    /\ At(r, "refreshing")
    /\ t \in stored
    /\ Issue(r, Consumed(t))
    /\ UNCHANGED <<user, tickets, spent>>
    /\ UnchangedModeration

\* The row has expired: that it is gone is committed, none is issued.
ConsumeExpired(r) ==
    /\ At(r, "refreshing")
    /\ req[r].why.number \in stored
    /\ stored' = Consumed(req[r].why.number)
    /\ req' = [req EXCEPT ![r] = Idle]
    /\ UNCHANGED <<user, tickets, spent, access, issued, uses>>
    /\ UnchangedModeration

\* logout with a refresh token
Logout(t) ==
    /\ t \in stored
    /\ stored' = Consumed(t)
    /\ UNCHANGED <<user, tickets, spent, access, req, issued, uses>>
    /\ UnchangedModeration

\* change_password: authorized, and the current password is right.
ReadForChange(r) ==
    /\ At(r, "idle")
    /\ Authorized
    /\ user.version < MaxVersion
    /\ req' = [req EXCEPT ![r] = [Enter(r, "changing") EXCEPT !.before = stored]]
    /\ UNCHANGED <<user, stored, tickets, spent, access, issued, uses>>
    /\ UnchangedModeration

\* The UPDATE is flushed and the tokens are listed.
ListTokens(r) ==
    /\ At(r, "changing")
    /\ RowFree
    /\ req' = [req EXCEPT ![r].at = "revoking", ![r].doomed = Listed(r)]
    /\ UNCHANGED <<user, stored, tickets, spent, access, issued, uses>>
    /\ UnchangedModeration

\* The tokens are deleted, those that are still there, and all is committed.
CommitChange(r) ==
    /\ At(r, "revoking")
    /\ user' = [user EXCEPT !.version = req[r].seen.version + 1]
    /\ stored' = stored \ req[r].doomed
    /\ req' = [req EXCEPT ![r] = Idle]
    /\ UNCHANGED <<tickets, spent, access, issued, uses>>
    /\ UnchangedModeration

\* setup_mfa, verify_mfa and disable_mfa read the row FOR UPDATE.
MoveMfa(from, to) ==
    /\ Authorized
    /\ RowFree
    /\ user.mfa = from
    /\ user' = [user EXCEPT !.mfa = to]
    /\ UNCHANGED <<stored, tickets, spent, access, req, issued, uses>>
    /\ UnchangedModeration

SetUpMfa == MoveMfa("off", "pending")
VerifyMfa == MoveMfa("pending", "on")
DisableMfa == MoveMfa("on", "off")

-----------------------------------------------------------------------------
(* Moderation of the account by the admin service                            *)

\* moderate_user commits; a ruling that stands already is published again.
Decide(r, active) ==
    /\ At(r, "idle")
    /\ ruling' = active
    /\ req' = [req EXCEPT ![r] = [Idle EXCEPT !.at = "publishing", !.active = active]]
    /\ disturbed' = (disturbed \/ \E v \in Requests : At(v, "publishing"))
    /\ UNCHANGED <<user, stored, tickets, spent, access, bus, issued, uses>>

Publish(r) ==
    /\ At(r, "publishing")
    /\ Len(bus) < MaxRulings
    /\ bus' = Append(bus, req[r].active)
    /\ req' = [req EXCEPT ![r] = Idle]
    /\ UNCHANGED <<user, stored, tickets, spent, access, ruling, issued, uses, disturbed>>

\* Faulty variant: a ruling only ever takes the account away.
OnlySuspended(active) == user.active /\ active

\* _apply_moderation
Ruled(active) == active

Apply ==
    /\ bus # <<>>
    /\ RowFree
    /\ user' = [user EXCEPT !.active = Ruled(Head(bus))]
    /\ bus' = Tail(bus)
    /\ UNCHANGED <<stored, tickets, spent, access, ruling, req, issued, uses, disturbed>>

\* The handler raises; the finally clause commits the offset all the same.
SkipRuling ==
    /\ bus # <<>>
    /\ bus' = Tail(bus)
    /\ disturbed' = TRUE
    /\ UNCHANGED <<user, stored, tickets, spent, access, ruling, req, issued, uses>>

\* A request is rejected, fails or dies; what it has not committed is lost.
Leave(r) ==
    /\ ~At(r, "idle")
    /\ req' = [req EXCEPT ![r] = Idle]
    /\ disturbed' = (disturbed \/ At(r, "publishing"))
    /\ UNCHANGED <<user, stored, tickets, spent, access, ruling, bus, issued, uses>>

Next ==
    \/ \E r \in Requests :
        \/ ReadForLogin(r) \/ RightPassword(r) \/ Mint(r)
        \/ \E t \in 1 .. tickets : SpendTicket(r, t)
        \/ \E t \in 1 .. issued : ReadForRefresh(r, t)
        \/ Rotate(r) \/ ConsumeExpired(r)
        \/ ReadForChange(r) \/ ListTokens(r) \/ CommitChange(r)
        \/ \E active \in BOOLEAN : Decide(r, active)
        \/ Publish(r) \/ Leave(r)
    \/ \E t \in Tokens : Logout(t)
    \/ SetUpMfa \/ VerifyMfa \/ DisableMfa
    \/ Apply \/ SkipRuling

Spec == Init /\ [][Next]_vars

-----------------------------------------------------------------------------
(* Properties *)

TypeOK ==
    /\ user \in Users
    /\ stored \subseteq 1 .. issued
    /\ tickets \in 0 .. MaxTickets
    /\ spent \subseteq 1 .. tickets
    /\ access \subseteq 0 .. MaxVersion
    /\ ruling \in BOOLEAN
    /\ bus \in Seq(BOOLEAN)
    /\ req \in [Requests -> RequestStates]
    /\ issued \in 0 .. MaxTokens
    /\ uses \in [Sources -> Nat]
    /\ disturbed \in BOOLEAN

\* "Atomically consume a refresh token" (RefreshTokenRepository.consume) and
\* "Single-use challenge" (complete_mfa_login): however requests overlap, a
\* refresh token and a challenge are each good for one refresh token.
OneSuccessor == \A s \in Sources : uses[s] <= 1

\* "a password change invalidates all existing sessions" (change_password): no
\* refresh token that was there when the change began outlives its commit.
ChangeEndsSessions ==
    [][\A r \in Requests :
        CommitChange(r) => stored' \intersect req[r].before = {}]_vars

\* admin-service "owns moderation decisions", auth-service applies them
\* (event_consumer): once every event is consumed the account is as the admin
\* service has it, unless one was lost or two were published at the same time.
ActivityFollowsRulings ==
    bus = <<>> /\ ~disturbed /\ (\A r \in Requests : ~At(r, "publishing"))
        => user.active = ruling

=============================================================================
