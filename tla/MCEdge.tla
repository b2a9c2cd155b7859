------------------------------- MODULE MCEdge -------------------------------
(***************************************************************************)
(* Instances of Gateway, which every request passes, of WebSession, which  *)
(* sends them, and of AuthAccount and AccountAccess, which say who sends   *)
(* them.  No two of them share state: a run checks those of Sides side by  *)
(* side, each with the others at rest.                                     *)
(***************************************************************************)
EXTENDS Gateway, TLC

CONSTANTS
    Sides,                                                      \* the modules of the run
    Tabs, Gets, MaxTokens,                                      \* WebSession
    MaxTickets, MaxVersion, MaxRulings,                         \* AuthAccount
    Emails, Passwords, MaxLoginAttempts, LockFor, MaxLinks      \* AccountAccess

\* A number of failed logins locks an account, for a while.
ASSUME AccountsAssumption ==
    /\ MaxTokens \in Nat /\ MaxTickets \in Nat /\ MaxVersion \in Nat /\ MaxLinks \in Nat
    /\ MaxLoginAttempts \in Nat \ {0} /\ LockFor \in Nat \ {0}

VARIABLES
    cookie, memory, live, issued, get, inflight, signing, askedBy, excused, clean,
    user, stored, tickets, spent, access, ruling, bus, minted, session, uses, disturbed,
    account, links, used, call, chosen, wrong, lost, crossed, linkUses,
    side        \* the module that takes the steps of this behavior

\* Completing an upload has a lower limit than creating one.
MCLimits ==
    [dimension \in AllDimensions |->
        [kind \in Kinds |-> IF dimension = "window" /\ kind = "uploads" THEN 2 ELSE 1]]

MCDimensions == <<"window", "concurrent">>

W == INSTANCE WebSession

S == INSTANCE AuthAccount WITH issued <- minted, req <- session

A == INSTANCE AccountAccess WITH req <- call, uses <- linkUses

web == <<cookie, memory, live, issued, get, inflight, signing, askedBy, excused, clean>>

sessions ==
    <<user, stored, tickets, spent, access, ruling, bus, minted, session, uses, disturbed>>

accounts == <<account, links, used, call, chosen, wrong, lost, crossed, linkUses>>

SideInit ==
    /\ Init /\ W!Init /\ S!Init /\ A!Init
    /\ side \in Sides
    /\ side # "access" =>    \* its initial state once, whatever accounts there are
        \A e \in Emails : ~account[e].exists /\ chosen[e] = CHOOSE p \in Passwords : TRUE

SideNext ==
    /\ UNCHANGED side
    /\ \/ side = "gateway" /\ Next /\ UNCHANGED <<web, sessions, accounts>>
       \/ side = "web" /\ W!Next /\ UNCHANGED <<vars, sessions, accounts>>
       \/ side = "sessions" /\ S!Next /\ UNCHANGED <<vars, web, accounts>>
       \/ side = "access" /\ A!Next /\ UNCHANGED <<vars, web, sessions>>

others == <<vars, web, sessions, accounts>>

SideSpec == SideInit /\ [][SideNext]_<<side, others>>

Symmetry == Permutations(Requests) \union Permutations(Tabs) \union Permutations(Gets)

\* "Concurrent GETs carrying the same cookie would otherwise burn the token twice"
\* (route.ts): refreshes at the same time do not cost the session; and a logout
\* leaves nothing in the browser, nor on its way to it (WebSession).
SessionIsKept == W!SessionIsKept

\* "Single-use" (complete_mfa_login, RefreshTokenRepository.consume,
\* verify_email): a refresh token, a challenge and a verification link are each
\* good for one use, however many requests bring them.
SingleUse == S!OneSuccessor /\ A!LinksAreGoodOnce

\* The account follows the decisions of the admin service (AuthAccount, _apply_moderation).
ActivityFollowsRulings == S!ActivityFollowsRulings

\* No refresh token that a change of the password found outlives it (AuthAccount,
\* change_password).
ChangeEndsSessions == S!ChangeEndsSessions

\* Too many wrong passwords lock an account, and the upgrade of a hash does not
\* undo a change of the password (AccountAccess, login).
CredentialsStand == A!GuessesAreBounded /\ A!PasswordStands

=============================================================================
