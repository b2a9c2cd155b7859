----------------------------- MODULE Analytics -----------------------------
(***************************************************************************)
(* The events that the analytics service takes: POST /events and           *)
(* POST /view-events, each one transaction of a session that get_db opens  *)
(* and closes.  Repositories flush, and nothing in the service commits: a  *)
(* session that is closed takes back what it has flushed.                  *)
(*                                                                         *)
(* The service drops the repetition of a client_event_id when it is given  *)
(* a deduplication store.  The routes give it none.                        *)
(***************************************************************************)
EXTENDS FiniteSets

CONSTANTS
    Users,
    ClientIds,     \* client_event_id; there is also none
    NoId,
    Requests,      \* each is used once
    HasStore       \* a deduplication store is given to the service

VARIABLES
    stored,    \* events and content_view_events: the committed rows
    keys,      \* wf:analytics:dedup:*
    request    \* the requests, their local variables and what their session has flushed

vars == <<stored, keys, request>>

-----------------------------------------------------------------------------
(* Events *)

\* scope  a view event is recorded in a table of its own
\* fine   its fields, numbers, sizes and times are accepted
Events == [scope : {"event", "view"}, user : Users, id : ClientIds \union {NoId}, fine : BOOLEAN]

\* get_current_user_claims: signed by the auth service and an access token
Tokens == [user : Users, good : BOOLEAN]

Keys == [scope : {"event", "view"}, user : Users, id : ClientIds]

KeyOf(e) == [scope |-> e.scope, user |-> e.user, id |-> e.id]

Idle == [at |-> "idle"]

RequestStates ==
    {Idle} \union [at : {"refused"}]
    \union [at : {"taken", "flushed", "logged"}, event : Events, repeats : BOOLEAN]

Rows == [by : Requests, event : Events]

At(r, place) == request[r].at = place

Init ==
    /\ stored = {} /\ keys = {}
    /\ request = [r \in Requests |-> Idle]

-----------------------------------------------------------------------------
(* Actions *)

\* Without a token, for another user, or with a value out of bounds
Refuse(r, token, e) ==
    /\ At(r, "idle")
    /\ ~token.good \/ token.user # e.user \/ ~e.fine
    /\ request' = [request EXCEPT ![r] = [at |-> "refused"]]
    /\ UNCHANGED <<stored, keys>>

\* _is_duplicate: SET NX, and a store that fails says no.
Take(r, token, e, storeFails) ==
    LET asks == HasStore /\ e.id # NoId /\ ~storeFails IN
    /\ At(r, "idle")
    /\ token.good /\ token.user = e.user /\ e.fine
    /\ keys' = IF asks THEN keys \union {KeyOf(e)} ELSE keys
    /\ request' = [request EXCEPT ![r] =
           [at |-> "taken", event |-> e, repeats |-> asks /\ KeyOf(e) \in keys]]
    /\ UNCHANGED stored

\* EventRepository.create and ContentViewEventRepository.create; a repetition
\* inserts nothing.
Flush(r) ==
    /\ At(r, "taken")
    /\ request' = [request EXCEPT ![r].at = "flushed"]
    /\ UNCHANGED <<stored, keys>>

\* The rows that are there when the session of get_db is closed
AfterClose(r) == stored

\* {"status": "logged"}, {"status": "recorded"}
Answer(r) ==
    /\ At(r, "flushed")
    /\ stored' = AfterClose(r)
    /\ request' = [request EXCEPT ![r].at = "logged"]
    /\ UNCHANGED keys

\* The database fails.
Fail(r) ==
    /\ At(r, "taken")
    /\ request' = [request EXCEPT ![r] = [at |-> "refused"]]
    /\ UNCHANGED <<stored, keys>>

Next ==
    \E r \in Requests :
        \/ \E token \in Tokens, e \in Events :
            Refuse(r, token, e) \/ \E storeFails \in BOOLEAN : Take(r, token, e, storeFails)
        \/ Flush(r) \/ Answer(r) \/ Fail(r)

Spec == Init /\ [][Next]_vars

-----------------------------------------------------------------------------
(* Properties *)

\* Types of the variables.
TypeOK ==
    /\ stored \subseteq Rows /\ keys \subseteq Keys
    /\ request \in [Requests -> RequestStates]

\* What the answer says: an event that was answered "logged" or "recorded" has
\* its row, or repeats the client_event_id of another.
LoggedIsStored ==
    \A r \in Requests : At(r, "logged") /\ ~request[r].repeats =>
        [by |-> r, event |-> request[r].event] \in stored

=============================================================================
