---------------------------- MODULE AccountAccess ----------------------------
(***************************************************************************)
(* How an account of the auth service is made and guarded: registration,   *)
(* failed logins and the lock they lead to, the upgrade of old password    *)
(* hashes, and the verification of an email address.  What a login that    *)
(* succeeds goes on to issue is in AuthAccount.                            *)
(*                                                                         *)
(* Nothing here takes a row lock before it reads.  A request reads the row *)
(* of an account, spends a quarter of a second on bcrypt and writes the    *)
(* columns that differ from what it has read: SQLAlchemy leaves a column   *)
(* alone that is set to the value it was loaded with.                      *)
(*                                                                         *)
(* The audit rows of logins, which nothing reads, and the quotas of        *)
(* core/rate_limit.py, which only refuse, are left out.  The event         *)
(* user.registered follows the commit and may be lost.  The settings are   *)
(* not those of production, where resend_verification always answers 503.  *)
(***************************************************************************)
EXTENDS Integers, Sequences

CONSTANTS
    Emails,             \* normalised addresses
    Passwords,
    Requests,           \* requests in flight at the same time
    MaxLoginAttempts,   \* failed logins that lock an account
    LockFor,            \* ticks that a lock lasts
    MaxLinks            \* bound of the model: links issued

VARIABLES
    account,    \* users: the row of an address, or NoAccount
    links,      \* verification tokens: the address each was issued to
    used,       \* token_blacklist: the tokens that were used
    req,        \* the requests and their local variables
    \* history of the run, not state of the program
    chosen,     \* the password last registered or changed to
    wrong,      \* wrong passwords since the last right one or the last lock
    lost,       \* addresses with a failed login that did not see another
    crossed,    \* addresses with a change that a login with an old hash overlapped
    uses        \* how many requests each link has verified an address for

vars == <<account, links, used, req, chosen, wrong, lost, crossed, uses>>

-----------------------------------------------------------------------------
(* Types *)

\* locked_until: not set, or the ticks it is still ahead
NoLock == -1

NoAccount == [exists |-> FALSE]

\* old    the cost factor of the hash is below the configured one
Rows == [exists : {TRUE}, active : BOOLEAN, password : Passwords, old : BOOLEAN,
         attempts : 0 .. MaxLoginAttempts, until : NoLock .. LockFor, verified : BOOLEAN]

NewRow(p, old) ==
    [exists |-> TRUE, active |-> TRUE, password |-> p, old |-> old,
     attempts |-> 0, until |-> NoLock, verified |-> FALSE]

\* registering  no active account has the address
\* checking     login has read the row
\* changing     change_password has checked the current password
\* verifying    verify_email has found the token unused
\* What a request keeps of the row it has read: whether the password is right,
\* and the columns that decide what it writes.
Idle == [at |-> "idle"]

RequestStates ==
    {Idle}
    \union [at : {"registering", "changing"}, email : Emails, password : Passwords]
    \union [at : {"checking"}, email : Emails, right : {FALSE}, attempts : 0 .. MaxLoginAttempts]
    \union [at : {"checking"}, email : Emails, right : {TRUE}, counted : BOOLEAN,
            dated : BOOLEAN, old : BOOLEAN, password : Passwords]
    \union [at : {"verifying"}, email : Emails, link : 1 .. MaxLinks]

-----------------------------------------------------------------------------
(* Helpers *)

At(r, place) == req[r].at = place

\* get_by_email and get_by_id: inactive accounts are not found.
Found(e) == account[e].exists /\ account[e].active

IsLocked(e) == account[e].until > 0

Answered(r) == req' = [req EXCEPT ![r] = Idle]

\* What a login keeps of the row it has read: what decides what it writes.
Checking(e, row, p) ==
    IF row.password # p
    THEN [at |-> "checking", email |-> e, right |-> FALSE, attempts |-> row.attempts]
    ELSE [at |-> "checking", email |-> e, right |-> TRUE, counted |-> row.attempts # 0,
          dated |-> row.until # NoLock, old |-> row.old, password |-> p]

\* increment_login_attempts counts from what the login has read; beyond the
\* limit the count makes no difference.
Counted(n) == IF n < MaxLoginAttempts THEN n + 1 ELSE n

Locks(q) == Counted(q.attempts) >= MaxLoginAttempts

\* The columns a failed login writes.
Failed(row, q) ==
    [row EXCEPT !.attempts = Counted(q.attempts),
                !.until = IF Locks(q) THEN LockFor ELSE @]

\* Faulty variant: the hash is made again whatever its cost factor.
NeedsRehashAlways(q) == TRUE

\* needs_rehash of the hash the login has read
NeedsRehash(q) == q.old

\* reset_login_attempts and the upgrade of the hash
Succeeded(row, q) ==
    [row EXCEPT !.attempts = IF q.counted THEN 0 ELSE @,
                !.until = IF q.dated THEN NoLock ELSE @,
                !.password = IF NeedsRehash(q) THEN q.password ELSE @,
                !.old = IF NeedsRehash(q) THEN FALSE ELSE @]

\* The primary key of token_blacklist admits a token once.
Unused(n) == n \notin used

-----------------------------------------------------------------------------
\* Some accounts are there already, with hashes of an older work factor.
Init ==
    /\ \E there \in SUBSET Emails, p \in Passwords :
        /\ account = [e \in Emails |-> IF e \in there THEN NewRow(p, TRUE) ELSE NoAccount]
        /\ chosen = [e \in Emails |-> p]
    /\ links = <<>>
    /\ used = {}
    /\ req = [r \in Requests |-> Idle]
    /\ wrong = [e \in Emails |-> 0]
    /\ lost = {}
    /\ crossed = {}
    /\ uses = [n \in 1 .. MaxLinks |-> 0]

UnchangedLinks == UNCHANGED <<links, used, uses>>
UnchangedAccess == UNCHANGED <<chosen, wrong, lost, crossed>>

\* register: no active account has the address.
ReadForRegister(r, e, p) ==
    /\ At(r, "idle")
    /\ ~Found(e)
    /\ req' = [req EXCEPT ![r] = [at |-> "registering", email |-> e, password |-> p]]
    /\ UNCHANGED account
    /\ UnchangedLinks /\ UnchangedAccess

\* The row is committed, unless the unique address is taken.
Insert(r) ==
    LET e == req[r].email IN
    /\ At(r, "registering")
    /\ \/ /\ ~account[e].exists
          /\ account' = [account EXCEPT ![e] = NewRow(req[r].password, FALSE)]
          /\ chosen' = [chosen EXCEPT ![e] = req[r].password]
       \/ account[e].exists /\ UNCHANGED <<account, chosen>>
    /\ Answered(r)
    /\ UNCHANGED <<wrong, lost, crossed>>
    /\ UnchangedLinks

\* login: an account that is locked is refused, whatever the password.
ReadForLogin(r, e, p) ==
    LET row == account[e] IN
    /\ At(r, "idle")
    /\ Found(e) /\ ~IsLocked(e)
    /\ req' = [req EXCEPT ![r] = Checking(e, row, p)]
    /\ UNCHANGED account
    /\ UnchangedLinks /\ UnchangedAccess

WrongPassword(r) ==
    LET e == req[r].email IN
    /\ At(r, "checking") /\ ~req[r].right
    /\ Found(e)
    /\ account' = [account EXCEPT ![e] = Failed(@, req[r])]
    /\ wrong' = [wrong EXCEPT ![e] = Counted(@)]
    /\ lost' = lost \union {d \in {e} : account[d].attempts # req[r].attempts}
    /\ Answered(r)
    /\ UNCHANGED <<chosen, crossed>>
    /\ UnchangedLinks

RightPassword(r) ==
    LET e == req[r].email IN
    /\ At(r, "checking") /\ req[r].right
    /\ Found(e)
    /\ account' = [account EXCEPT ![e] = Succeeded(@, req[r])]
    /\ wrong' = [wrong EXCEPT ![e] = 0]
    /\ Answered(r)
    /\ UNCHANGED <<chosen, lost, crossed>>
    /\ UnchangedLinks

\* change_password: the session is valid and the current password is right.
ReadForChange(r, e, p) ==
    /\ At(r, "idle")
    /\ Found(e)
    /\ req' = [req EXCEPT ![r] = [at |-> "changing", email |-> e, password |-> p]]
    /\ UNCHANGED account
    /\ UnchangedLinks /\ UnchangedAccess

ChangePassword(r) ==
    LET e == req[r].email IN
    /\ At(r, "changing")
    /\ account' = [account EXCEPT ![e].password = req[r].password, ![e].old = FALSE]
    /\ chosen' = [chosen EXCEPT ![e] = req[r].password]
    /\ crossed' = crossed \union
         {d \in {e} : \E v \in Requests : At(v, "checking") /\ req[v].email = d
                                     /\ req[v].right /\ req[v].old}
    /\ Answered(r)
    /\ UNCHANGED <<wrong, lost>>
    /\ UnchangedLinks

\* The consumer of user.moderated
Moderate(e) ==
    /\ account[e].exists
    /\ account' = [account EXCEPT ![e].active = ~@]
    /\ UNCHANGED <<req>>
    /\ UnchangedLinks /\ UnchangedAccess

\* Time passes; a lock that ends starts a new series.
Tick ==
    /\ \E e \in Emails : account[e].exists /\ IsLocked(e)
    /\ account' = [e \in Emails |->
         IF account[e].exists /\ IsLocked(e) THEN [account[e] EXCEPT !.until = @ - 1] ELSE account[e]]
    /\ wrong' = [e \in Emails |-> IF account[e].exists /\ account[e].until = 1 THEN 0 ELSE wrong[e]]
    /\ UNCHANGED <<req, chosen, lost, crossed>>
    /\ UnchangedLinks

-----------------------------------------------------------------------------
(* Verification of the address *)

\* resend_verification: a link is issued to an account that needs one.
Resend(e) ==
    /\ Found(e) /\ ~account[e].verified
    /\ Len(links) < MaxLinks
    /\ links' = Append(links, e)
    /\ UNCHANGED <<account, used, req, uses>>
    /\ UnchangedAccess

\* verify_email: the token is not used yet and its account is there.
ReadForVerify(r, n) ==
    /\ At(r, "idle")
    /\ Unused(n) /\ Found(links[n])
    /\ req' = [req EXCEPT ![r] = [at |-> "verifying", email |-> links[n], link |-> n]]
    /\ UNCHANGED account
    /\ UnchangedLinks /\ UnchangedAccess

\* The mark and the record of the token commit together, or a conflict undoes both.
Verify(r) ==
    LET n == req[r].link IN
    /\ At(r, "verifying")
    /\ \/ /\ Unused(n)
          /\ used' = used \union {n}
          /\ uses' = [uses EXCEPT ![n] = @ + 1]
          /\ account' = [account EXCEPT ![req[r].email].verified = TRUE]
       \/ ~Unused(n) /\ UNCHANGED <<used, uses, account>>
    /\ Answered(r)
    /\ UNCHANGED links
    /\ UnchangedAccess

\* A request is rejected, fails or dies; what it has not committed is lost.
Leave(r) ==
    /\ ~At(r, "idle")
    /\ Answered(r)
    /\ UNCHANGED account
    /\ UnchangedLinks /\ UnchangedAccess

Next ==
    \/ \E r \in Requests :
        \/ \E e \in Emails, p \in Passwords :
            ReadForRegister(r, e, p) \/ ReadForLogin(r, e, p) \/ ReadForChange(r, e, p)
        \/ Insert(r)
        \/ WrongPassword(r) \/ RightPassword(r) \/ ChangePassword(r)
        \/ \E n \in 1 .. Len(links) : ReadForVerify(r, n)
        \/ Verify(r) \/ Leave(r)
    \/ \E e \in Emails : Moderate(e) \/ Resend(e)
    \/ Tick

Spec == Init /\ [][Next]_vars

-----------------------------------------------------------------------------
(* Properties *)

TypeOK ==
    /\ account \in [Emails -> Rows \union {NoAccount}]
    /\ links \in Seq(Emails)
    /\ used \subseteq 1 .. MaxLinks
    /\ req \in [Requests -> RequestStates]
    /\ chosen \in [Emails -> Passwords]
    /\ wrong \in [Emails -> 0 .. MaxLoginAttempts]
    /\ lost \subseteq Emails /\ crossed \subseteq Emails
    /\ uses \in [1 .. MaxLinks -> Nat]

\* "Lock user if too many attempts" (login): once max_login_attempts wrong
\* passwords were tried the account is locked, unless failed logins that
\* overlapped counted from the same number.
GuessesAreBounded ==
    \A e \in Emails \ lost : wrong[e] >= MaxLoginAttempts => account[e].exists /\ IsLocked(e)

\* The password of an account is the one last chosen: the "transparent hash
\* upgrade" of login undoes a change only when the change commits while a login
\* with a hash of the old cost factor is under way.
PasswordStands ==
    \A e \in Emails \ crossed : account[e].exists => account[e].password = chosen[e]

\* "Single-use enforcement" (verify_email): a link verifies its address once,
\* and no address is verified without one.
LinksAreGoodOnce ==
    /\ \A n \in 1 .. MaxLinks : uses[n] <= 1
    /\ \A e \in Emails :
        account[e].exists /\ account[e].verified => \E n \in used : links[n] = e

=============================================================================
