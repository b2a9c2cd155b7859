--------------------------- MODULE Notifications ---------------------------
(***************************************************************************)
(* Notifications (notification service): one row for each domain event,    *)
(* however often and however concurrently it is sent, the channels it was  *)
(* delivered to, and the preferences of the users.                         *)
(*                                                                         *)
(* A request is one transaction.  What it inserts holds its unique key: a  *)
(* second insert waits until the first transaction ends, and finds either  *)
(* the row or its absence.  The in-app channel is the row itself; push and *)
(* sms are not configured, an unknown name fails, and the route refuses    *)
(* email.  So a dispatch has no effect but the outcomes in the row.        *)
(***************************************************************************)
EXTENDS Naturals, FiniteSets

CONSTANTS
    Users,
    Events,
    Lists,      \* the lists of channels that sends ask for
    Requests    \* sends; each is used once

VARIABLES
    row,           \* notifications, by the request that made it
    preference,    \* notification_preferences: the channels that are on
    send           \* the requests and their local variables

vars == <<row, preference, send>>

-----------------------------------------------------------------------------
(* Types *)

InApp == "in-app"
Push == "push"        \* stands for sms too
Unknown == "unknown"  \* any other name
Channels == {InApp, Push, Unknown}

NoEvent == "no event"

Outcomes == {"sent", "skipped", "failed"}

\* outcome  delivery_errors; delivery_status and delivered_at follow from it
NoRow == [is |-> "none"]

Rows ==
    [is : {"kept", "deleted"}, user : Users, event : Events \union {NoEvent}, read : BOOLEAN,
     outcome : UNION {[asked -> Outcomes] : asked \in Lists}]

NoPreference == [is |-> "none"]
Preferences == [is : {"row"}, on : SUBSET {InApp, Push}]

\* A preference row has all its flags on when it is made.
ByDefault == [is |-> "row", on |-> {InApp, Push}]

Idle == [at |-> "idle"]

\* looked    the preferences were read; inserted: they were made by this transaction
\* creating  no row of the event was found
\* created   the row is inserted, and not committed
\* answered  with a status; lost: the process died before the commit
SendStates ==
    {Idle}
    \union [at : {"looked", "creating", "created"}, user : Users, event : Events \union {NoEvent},
            asked : Lists, enabled : SUBSET Channels, inserted : BOOLEAN]
    \union [at : {"answered"}, event : Events \union {NoEvent},
            status : {"sent", "partial", "failed", "skipped"}]
    \union [at : {"lost"}]

-----------------------------------------------------------------------------
(* Preferences and outcomes *)

Under(r, places) == send[r].at \in places

\* A preference row that is inserted and not committed is waited for.
PreferenceIsFree(u) ==
    \A r \in Requests :
        Under(r, {"looked", "creating", "created"}) /\ send[r].user = u => ~send[r].inserted

Preference(u) == IF preference[u] = NoPreference THEN ByDefault ELSE preference[u]

\* Unknown channels fall through to the dispatch.
Allowed(u, c) == c \in Preference(u).on \union {Unknown}

Delivered(c) == CASE c = InApp -> "sent" [] c = Push -> "skipped" [] c = Unknown -> "failed"

\* What _dispatch returns, and the channels that preferences turned off.
Dispatched(asked, enabled) ==
    [c \in asked |-> IF c \in enabled THEN Delivered(c) ELSE "skipped"]

\* Only what failed is delivered again, or skipped if it was turned off since.
Again(u, outcome) ==
    [c \in DOMAIN outcome |->
        IF outcome[c] # "failed" THEN outcome[c]
        ELSE IF Allowed(u, c) THEN Delivered(c) ELSE "skipped"]

StatusOf(outcome) ==
    LET with(o) == {c \in DOMAIN outcome : outcome[c] = o} IN
    CASE with("sent") = DOMAIN outcome -> "sent"
      [] with("sent") \notin {{}, DOMAIN outcome} -> "partial"
      [] with("sent") = {} /\ with("failed") # {} -> "failed"
      [] OTHER -> "skipped"

-----------------------------------------------------------------------------
(* Rows *)

Stored == {n \in Requests : row[n] # NoRow}

\* The rows of an event.  An event has one whoever it was sent to.
RowsOf(e) == {n \in Stored : e # NoEvent /\ row[n].event = e}

\* An insert of the same event is waited for.
EventIsFree(e) == \A r \in Requests : e # NoEvent /\ Under(r, {"created"}) => send[r].event # e

\* Faulty variant: the event is looked up before the insert and not again.
Unchecked(e) == {}

\* The second look, and what the unique index answers.
FoundOnInsert(e) == RowsOf(e)

Answer(r, status) ==
    send' = [send EXCEPT ![r] = [at |-> "answered", event |-> send[r].event, status |-> status]]

-----------------------------------------------------------------------------
(* Actions *)

Init ==
    /\ row = [n \in Requests |-> NoRow]
    /\ preference = [u \in Users |-> NoPreference]
    /\ send = [r \in Requests |-> Idle]

\* POST /send: the preferences are read first, and made if there are none.
Look(r, u, e, asked) ==
    /\ Under(r, {"idle"})
    /\ PreferenceIsFree(u)
    /\ send' = [send EXCEPT ![r] =
           [at |-> "looked", user |-> u, event |-> e, asked |-> asked,
            enabled |-> {c \in asked : Allowed(u, c)}, inserted |-> preference[u] = NoPreference]]
    /\ UNCHANGED <<row, preference>>

\* The row of the event answers for the request, and its transaction is rolled back.
FindExisting(r) ==
    /\ Under(r, {"looked"})
    /\ \E n \in RowsOf(send[r].event) : Answer(r, StatusOf(row[n].outcome))
    /\ UNCHANGED <<row, preference>>

\* Every channel is off: nothing is stored, not even the preferences.
Skip(r) ==
    /\ Under(r, {"looked"})
    /\ RowsOf(send[r].event) = {}
    /\ send[r].enabled = {}
    /\ Answer(r, "skipped")
    /\ UNCHANGED <<row, preference>>

FindNone(r) ==
    /\ Under(r, {"looked"})
    /\ RowsOf(send[r].event) = {}
    /\ send[r].enabled # {}
    /\ send' = [send EXCEPT ![r].at = "creating"]
    /\ UNCHANGED <<row, preference>>

Create(r) ==
    /\ Under(r, {"creating"})
    /\ EventIsFree(send[r].event)
    /\ FoundOnInsert(send[r].event) = {}
    /\ send' = [send EXCEPT ![r].at = "created"]
    /\ UNCHANGED <<row, preference>>

\* A concurrent duplicate has made the row.
CreateConflicts(r) ==
    /\ Under(r, {"creating"})
    /\ EventIsFree(send[r].event)
    /\ \E n \in FoundOnInsert(send[r].event) : Answer(r, StatusOf(row[n].outcome))
    /\ UNCHANGED <<row, preference>>

\* The outcomes are recorded, and the row is committed with the preferences.
CommitSend(r) ==
    LET s == send[r]
        outcome == Dispatched(s.asked, s.enabled) IN
    /\ Under(r, {"created"})
    /\ row' = [row EXCEPT ![r] = [is |-> "kept", user |-> s.user, event |-> s.event,
                                  read |-> FALSE, outcome |-> outcome]]
    /\ preference' = IF s.inserted THEN [preference EXCEPT ![s.user] = ByDefault] ELSE preference
    /\ Answer(r, StatusOf(outcome))

\* The process dies, and its transaction with it.
Lose(r) ==
    /\ Under(r, {"looked", "creating", "created"})
    /\ send' = [send EXCEPT ![r] = [at |-> "lost"]]
    /\ UNCHANGED <<row, preference>>

\* POST /{id}/retry
Retry(n, u) ==
    /\ n \in Stored /\ row[n].is = "kept" /\ row[n].user = u
    /\ PreferenceIsFree(u)
    /\ StatusOf(row[n].outcome) \in {"failed", "partial"}
    /\ row' = [row EXCEPT ![n].outcome = Again(u, @)]
    /\ UNCHANGED <<preference, send>>

\* POST /{id}/read
MarkAsRead(n, u) ==
    /\ n \in Stored /\ row[n].is = "kept" /\ row[n].user = u
    /\ row' = [row EXCEPT ![n].read = TRUE]
    /\ UNCHANGED <<preference, send>>

\* DELETE /{id}: a soft delete, and a second one changes nothing.
SoftDelete(n, u) ==
    /\ n \in Stored /\ row[n].user = u
    /\ row' = [row EXCEPT ![n].is = "deleted"]
    /\ UNCHANGED <<preference, send>>

\* PUT /preferences
UpdatePreference(u, c, value) ==
    /\ PreferenceIsFree(u)
    /\ preference' = [preference EXCEPT ![u] =
           [is |-> "row",
            on |-> IF value THEN Preference(u).on \union {c} ELSE Preference(u).on \ {c}]]
    /\ UNCHANGED <<row, send>>

Next ==
    \/ \E r \in Requests :
        \/ \E u \in Users, e \in Events \union {NoEvent}, asked \in Lists :
               Look(r, u, e, asked)
        \/ FindExisting(r) \/ Skip(r) \/ FindNone(r)
        \/ Create(r) \/ CreateConflicts(r) \/ CommitSend(r) \/ Lose(r)
    \/ \E u \in Users :
        \/ \E n \in Requests : Retry(n, u) \/ MarkAsRead(n, u) \/ SoftDelete(n, u)
        \/ \E c \in {InApp, Push}, value \in BOOLEAN : UpdatePreference(u, c, value)

Spec == Init /\ [][Next]_vars

-----------------------------------------------------------------------------
(* Properties *)

\* Types of the variables.
TypeOK ==
    /\ row \in [Requests -> Rows \union {NoRow}]
    /\ preference \in [Users -> Preferences \union {NoPreference}]
    /\ send \in [Requests -> SendStates]

\* An event has one row however its sends overlap, and every request that was
\* told a status for it was told the status of that row; a request that says
\* it was skipped left no other row behind.
NotifiedOnce ==
    /\ \A e \in Events : Cardinality(RowsOf(e)) <= 1
    /\ \A r \in Requests :
        Under(r, {"answered"}) /\ send[r].event # NoEvent /\ send[r].status # "skipped" =>
            \E n \in RowsOf(send[r].event) : StatusOf(row[n].outcome) = send[r].status

=============================================================================
