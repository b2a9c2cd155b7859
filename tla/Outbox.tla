------------------------------- MODULE Outbox -------------------------------
(***************************************************************************)
(* The transactional outbox of the moderation service (the uploads and     *)
(* creators services have the same one): rows committed with the state     *)
(* they describe, and the background workers, one per process, that read   *)
(* them without a lock and publish them.                                   *)
(*                                                                         *)
(* A row is its rank by created_at, which is set before its transaction    *)
(* commits: rows may appear out of order.  A drain is one transaction: the *)
(* rows it has marked are visible, and unlocked, when it commits.          *)
(***************************************************************************)
EXTENDS Integers, FiniteSets

CONSTANTS
    RowCount,    \* rows are 1 .. RowCount
    Workers,     \* processes that drain the outbox
    BatchSize,   \* OUTBOX_BATCH_SIZE
    MaxFaults    \* publishes that fail and workers that die, counted together

ASSUME OutboxAssumption ==
    /\ RowCount \in Nat
    /\ IsFiniteSet(Workers)
    /\ BatchSize \in Nat \ {0}
    /\ MaxFaults \in Nat

Rows == 1 .. RowCount

VARIABLES
    row,      \* outbox_events: the committed status of each row, "none" if absent
    drain,    \* the open drain of each worker
    copies,   \* how often the broker has taken each row: every publish of a row
              \* makes a new event with an event_id of its own
    faults

vars == <<row, drain, copies, faults>>

-----------------------------------------------------------------------------
(* Types *)

RowStatuses == {"none", "pending", "dispatched"}

\* todo   the rows of its batch still to publish
\* sent   the row published and not yet marked, as a set
\* marked the rows it has updated and holds the locks of
Drains == [todo : SUBSET Rows, sent : SUBSET Rows, marked : SUBSET Rows, open : BOOLEAN]

Closed == [todo |-> {}, sent |-> {}, marked |-> {}, open |-> FALSE]

-----------------------------------------------------------------------------
(* Actions *)

Init ==
    /\ row = [r \in Rows |-> "none"]
    /\ drain = [w \in Workers |-> Closed]
    /\ copies = [r \in Rows |-> 0]
    /\ faults = 0

\* enqueue_event, committed with the business transaction.
Enqueue(r) ==
    /\ row[r] = "none"
    /\ row' = [row EXCEPT ![r] = "pending"]
    /\ UNCHANGED <<drain, copies, faults>>

\* Faulty variant: the status is not looked at.
Committed == {r \in Rows : row[r] # "none"}

Pending == {r \in Rows : row[r] = "pending"}

\* pending_events: the oldest BatchSize rows.
Batch ==
    {r \in Pending : Cardinality({q \in Pending : q < r}) < BatchSize}

Open(w) ==
    /\ drain[w] = Closed
    /\ Batch # {}
    /\ drain' = [drain EXCEPT ![w] = [Closed EXCEPT !.todo = Batch, !.open = TRUE]]
    /\ UNCHANGED <<row, copies, faults>>

\* The row a drain publishes next: the oldest one it has not tried.
IsNext(d, r) == d.sent = {} /\ r \in d.todo /\ \A q \in d.todo : r <= q

Publish(w, r) ==
    /\ IsNext(drain[w], r)
    /\ copies' = [copies EXCEPT ![r] = @ + 1]
    /\ drain' = [drain EXCEPT ![w].todo = @ \ {r}, ![w].sent = {r}]
    /\ UNCHANGED <<row, faults>>

\* Faulty variant: a row whose publish failed is marked all the same.
Dropped(d, r) == [d EXCEPT !.todo = @ \ {r}, !.sent = {r}]

\* The publish raised: the row is left as it is.
Skipped(d, r) == [d EXCEPT !.todo = @ \ {r}]

PublishFails(w, r) ==
    /\ faults < MaxFaults
    /\ IsNext(drain[w], r)
    /\ drain' = [drain EXCEPT ![w] = Skipped(@, r)]
    /\ faults' = faults + 1
    /\ UNCHANGED <<row, copies>>

Marked(d) == [d EXCEPT !.sent = {}, !.marked = @ \union d.sent]

\* mark_dispatched: the UPDATE waits for a worker that has updated the row.
Mark(w) ==
    LET d == drain[w] IN
    /\ d.sent # {}
    /\ \A v \in Workers \ {w} : drain[v].marked \intersect d.sent = {}
    /\ drain' = [drain EXCEPT ![w] = Marked(d)]
    /\ UNCHANGED <<row, copies, faults>>

Commit(w) ==
    LET d == drain[w] IN
    /\ d.open
    /\ d.todo = {} /\ d.sent = {}
    /\ row' = [r \in Rows |-> IF r \in d.marked THEN "dispatched" ELSE row[r]]
    /\ drain' = [drain EXCEPT ![w] = Closed]
    /\ UNCHANGED <<copies, faults>>

\* The worker dies, or the commit fails: nothing it has marked is kept.
Die(w) ==
    /\ faults < MaxFaults
    /\ drain[w].open
    /\ drain' = [drain EXCEPT ![w] = Closed]
    /\ faults' = faults + 1
    /\ UNCHANGED <<row, copies>>

Drain(w) == Open(w) \/ (\E r \in Rows : Publish(w, r)) \/ Mark(w) \/ Commit(w)

Next ==
    \/ \E r \in Rows : Enqueue(r)
    \/ \E w \in Workers : Drain(w) \/ Die(w) \/ \E r \in Rows : PublishFails(w, r)

Spec == Init /\ [][Next]_vars

\* The worker loop comes round every OUTBOX_POLL_INTERVAL_SECONDS and
\* survives every error; faults are not for ever.
FairSpec == Spec /\ \A w \in Workers : WF_vars(Drain(w))

-----------------------------------------------------------------------------
(* Properties *)

TypeOK ==
    /\ row \in [Rows -> RowStatuses]
    /\ drain \in [Workers -> Drains]
    /\ copies \in [Rows -> Nat]
    /\ faults \in 0 .. MaxFaults

Published(r) == copies[r] > 0

\* "a broker outage never loses an event" (OutboxEvent): a row that will not
\* be published again has been published.
DispatchedWasPublished == \A r \in Rows : row[r] = "dispatched" => Published(r)

\* "at-least-once" (drain_outbox) has a price: every fault may cost a copy,
\* and so may every worker that read the row, unlocked, before it was
\* dispatched; nothing else does.
CopiesAreBounded ==
    \A r \in Rows : copies[r] <= Cardinality(Workers) + faults

\* "a successful commit always implies a recoverable event trail"
\* (OutboxEvent): every committed row is published in the end.
EventuallyPublished == \A r \in Rows : row[r] = "pending" ~> Published(r)

=============================================================================
