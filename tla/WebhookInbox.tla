---------------------------- MODULE WebhookInbox ----------------------------
(***************************************************************************)
(* The durable inbox of Stripe webhook events of the billing service:      *)
(* the route stripe_webhook and WebhookEventRepository.                    *)
(*                                                                         *)
(* A worker is one HTTP request that carries one delivery of one event.    *)
(* It claims the inbox row of the event, commits the claim, runs the       *)
(* handler in a second transaction that also marks the row PROCESSED, and  *)
(* on an exception rolls back and marks the row FAILED.  Stripe redelivers *)
(* an event until it has seen a 200, and may deliver one it has seen       *)
(* answered; a request may die at any step with its process.               *)
(*                                                                         *)
(* What a handler does is abstracted to the one fact that its transaction  *)
(* committed: the billing effects themselves are in RefundLedger.          *)
(***************************************************************************)
EXTENDS Integers, FiniteSets

CONSTANTS
    Events,       \* Stripe event ids
    KnownTypes,   \* the events whose type has an entry in _EVENT_HANDLERS
    NoEvent,      \* the event of a worker without a request
    Workers,      \* requests in flight at the same time
    MaxAttempts,  \* DEFAULT_MAX_ATTEMPTS
    StaleAfter,   \* DEFAULT_STALE_AFTER_SECONDS, in clock ticks
    MaxClaims,    \* bound of the model: an event claimed as often is not delivered again
    Overlapping,  \* the events with a delivery while another is in flight
    Crashing      \* the events whose requests may die with their process

ASSUME InboxAssumption ==
    /\ KnownTypes \subseteq Events
    /\ NoEvent \notin Events
    /\ MaxAttempts \in Nat \ {0}
    /\ StaleAfter \in Nat \ {0}
    /\ MaxClaims \in Nat \ {0}
    /\ Overlapping \subseteq Events
    /\ Crashing \subseteq Events

VARIABLES
    row,      \* stripe_webhook_events: the row of each event, status "none" if absent
    req,      \* the request of each worker and its local variables
    \* history of the run, not state of the program
    applied,  \* for each event, the claims whose handler transaction committed
    acked,    \* the events Stripe has seen answered with 200
    late      \* the events of which a request was still at work when its lease ended

vars == <<row, req, applied, acked, late>>

-----------------------------------------------------------------------------
(* Types *)

Statuses == {"none", "PROCESSING", "PROCESSED", "FAILED"}

\* `age` is the time since claimed_at.  It is looked at in PROCESSING rows only
\* and counts there; at StaleAfter it counts no further.
Ages == 0 .. StaleAfter

Rows == [status : Statuses, attempts : Nat, age : Ages]

NoRow == [status |-> "none", attempts |-> 0, age |-> 0]

\* at       where the request is
\* was      the status it read, when it is about to reclaim the row
\* attempts the attempts it read and then, once it holds a claim, those it wrote
\* since    the ticks since it took `now`, the time it claims at
Requests == [at : {"received", "reclaiming", "running", "failing"}, event : Events,
             was : Statuses, attempts : Nat, since : Ages]

Idle == [at |-> "idle", event |-> NoEvent, was |-> "none", attempts |-> 0, since |-> 0]

Received(e) ==
    [at |-> "received", event |-> e, was |-> "none", attempts |-> 0, since |-> 0]

\* A request that has committed a claim.
Holding(q) == q.at \in {"running", "failing"}

\* The request has taken `now`: the lease it has, or is about to have, counts.
Leased(q) == q.at \in {"reclaiming", "running", "failing"}

InFlight(e) == {w \in Workers : req[w].event = e}

-----------------------------------------------------------------------------
(* The row of an event *)

\* Faulty variant: a lease that ends a tick early.
StaleEarly(r) == r.age + 1 >= StaleAfter

Stale(r) == r.age >= StaleAfter

Reclaimable(r) ==
    \/ r.status = "FAILED" /\ r.attempts < MaxAttempts
    \/ r.status = "PROCESSING" /\ Stale(r)

\* Faulty variant: complete is forgotten.
NotCompleted(r) == r

Completed(r) == IF r.status = "PROCESSING" THEN [r EXCEPT !.status = "PROCESSED"] ELSE r

\* Faulty variants: fail that completes, no fail.
FailedAsCompleted(r) == Completed(r)

NotFailed(r) == r

Failed(r) == IF r.status = "PROCESSING" THEN [r EXCEPT !.status = "FAILED"] ELSE r

\* The guarded UPDATE of a reclaim matches the row as the request read it.
Matches(r, q) == r.status = q.was /\ r.attempts = q.attempts

Claimed(n, age) == [status |-> "PROCESSING", attempts |-> n, age |-> age]

Older(n) == IF n < StaleAfter THEN n + 1 ELSE n

-----------------------------------------------------------------------------
Init ==
    /\ row = [e \in Events |-> NoRow]
    /\ req = [w \in Workers |-> Idle]
    /\ applied = [e \in Events |-> {}]
    /\ acked = {}
    /\ late = {}

\* The request ends.  Its 200 reaches Stripe, or Stripe has timed out before.
Answer200(w) ==
    /\ req' = [req EXCEPT ![w] = Idle]
    /\ acked' \in {acked, acked \union {req[w].event}}

\* Stripe delivers e: the first time, again because no 200 came back, or
\* although one did.  The signature of the payload is valid.
Deliver(w, e) ==
    /\ req[w] = Idle
    /\ row[e].attempts < MaxClaims
    /\ e \in Overlapping \/ InFlight(e) = {}
    /\ req' = [req EXCEPT ![w] = Received(e)]
    /\ UNCHANGED <<row, applied, acked, late>>

\* claim: the INSERT finds no row and is committed.  The unique index makes a
\* concurrent INSERT wait for this commit, so the two are one step.
InsertRow(w) ==
    LET e == req[w].event IN
    /\ req[w].at = "received"
    /\ row[e].status = "none"
    /\ row' = [row EXCEPT ![e] = Claimed(1, 0)]
    /\ req' = [req EXCEPT ![w].at = "running", ![w].attempts = 1, ![w].since = 0]
    /\ UNCHANGED <<applied, acked, late>>

\* claim: the INSERT violates the unique constraint; the row that is read is
\* PROCESSED, in another request's lease or out of attempts.  Answered 200.
NotClaimed(w) ==
    /\ req[w].at = "received"
    /\ row[req[w].event].status # "none"
    /\ ~Reclaimable(row[req[w].event])
    /\ Answer200(w)
    /\ UNCHANGED <<row, applied, late>>

\* claim: the row that is read can be taken over.  `now`, which the claim will
\* write to claimed_at, is taken here.
ReadReclaimable(w) ==
    LET r == row[req[w].event] IN
    /\ req[w].at = "received"
    /\ Reclaimable(r)
    /\ req' = [req EXCEPT ![w].at = "reclaiming", ![w].was = r.status,
                          ![w].attempts = r.attempts, ![w].since = 0]
    /\ UNCHANGED <<row, applied, acked, late>>

\* claim: the guarded UPDATE matches and is committed.
Reclaim(w) ==
    LET e == req[w].event IN
    /\ req[w].at = "reclaiming"
    /\ Matches(row[e], req[w])
    /\ row' = [row EXCEPT ![e] = Claimed(req[w].attempts + 1, req[w].since)]
    /\ req' = [req EXCEPT ![w].at = "running", ![w].was = "none", ![w].attempts = @ + 1]
    /\ UNCHANGED <<applied, acked, late>>

\* claim: the guarded UPDATE matches no row.  Answered 200.
LoseReclaim(w) ==
    /\ req[w].at = "reclaiming"
    /\ ~Matches(row[req[w].event], req[w])
    /\ Answer200(w)
    /\ UNCHANGED <<row, applied, late>>

\* The handler's writes, if its type has one, and complete are one transaction;
\* whether complete matched the row is not looked at.
Handle(w) ==
    LET e == req[w].event IN
    /\ req[w].at = "running"
    /\ applied' = [applied EXCEPT ![e] = IF e \in KnownTypes THEN @ \union {req[w].attempts} ELSE @]
    /\ row' = [row EXCEPT ![e] = Completed(@)]
    /\ Answer200(w)
    /\ UNCHANGED late

\* The handler raises, or the commit does: the transaction is rolled back.
HandlerRaises(w) ==
    /\ req[w].at = "running"
    /\ req[w].event \in KnownTypes
    /\ req' = [req EXCEPT ![w].at = "failing"]
    /\ UNCHANGED <<row, applied, acked, late>>

\* fail, commit, 500: Stripe will deliver the event again.
MarkFailed(w) ==
    LET e == req[w].event IN
    /\ req[w].at = "failing"
    /\ row' = [row EXCEPT ![e] = Failed(@)]
    /\ req' = [req EXCEPT ![w] = Idle]
    /\ UNCHANGED <<applied, acked, late>>

\* The process dies: the open transaction is lost, no response is sent.
Crash(w) ==
    /\ req[w].event \in Crashing
    /\ req' = [req EXCEPT ![w] = Idle]
    /\ UNCHANGED <<row, applied, acked, late>>

Overrun ==
    {req[w].event : w \in {v \in Workers : Leased(req[v]) /\ req[v].since + 1 >= StaleAfter}}

\* Time passes, also beyond the lease of a request that is still at work.
Tick ==
    /\ row' = [e \in Events |->
                 IF row[e].status = "PROCESSING" THEN [row[e] EXCEPT !.age = Older(@)] ELSE row[e]]
    /\ req' = [w \in Workers |->
                 IF Leased(req[w]) THEN [req[w] EXCEPT !.since = Older(@)] ELSE req[w]]
    /\ late' = late \union Overrun
    /\ UNCHANGED <<applied, acked>>

\* What a request does once it is delivered.
Request(w) ==
    \/ InsertRow(w)
    \/ NotClaimed(w)
    \/ ReadReclaimable(w)
    \/ Reclaim(w)
    \/ LoseReclaim(w)
    \/ Handle(w)
    \/ HandlerRaises(w)
    \/ MarkFailed(w)

Next ==
    \/ \E w \in Workers, e \in Events : Deliver(w, e)
    \/ \E w \in Workers : Request(w)
    \/ \E w \in Workers : Crash(w)
    \/ Tick

Spec == Init /\ [][Next]_vars

\* A request that is not killed runs to its response; Stripe delivers an
\* event until it has seen a 200; the clock runs.
Fairness ==
    /\ \A w \in Workers : WF_vars(Request(w))
    /\ \A e \in Events : SF_vars(e \notin acked /\ \E w \in Workers : Deliver(w, e))
    /\ WF_vars(Tick)

FairSpec == Spec /\ Fairness

-----------------------------------------------------------------------------
(* Properties *)

TypeOK ==
    /\ row \in [Events -> Rows]
    /\ req \in [Workers -> Requests \union {Idle}]
    /\ applied \in [Events -> SUBSET Nat]
    /\ acked \subseteq Events
    /\ late \subseteq Events

\* Two requests that run the handler of an event at the same time hold
\* different claims: the unique index and the guarded UPDATE of claim never
\* let two requests take the row over from the same state.
ClaimsAreExclusive ==
    \A v, w \in Workers :
        /\ v # w /\ req[v].event = req[w].event
        /\ Holding(req[v]) /\ Holding(req[w])
        => req[v].attempts # req[w].attempts

\* A row says PROCESSED only when a handler transaction has committed: the
\* except branch of the route, and a request that lost its lease, cannot
\* mark an event whose effects are nowhere.
ProcessedWasHandled ==
    \A e \in KnownTypes : row[e].status = "PROCESSED" => applied[e] # {}

\* A PROCESSED row is never opened again, whatever a slow or repeated request
\* still does with it.
ProcessedIsFinal ==
    [][\A e \in Events : row[e].status = "PROCESSED" => row'[e] = row[e]]_vars

\* The effects of an event commit at most once, whatever is redelivered and
\* wherever requests die, unless a request outlived its lease.
EffectsAtMostOnce ==
    \A e \in Events \ late : \A a, b \in applied[e] : a = b

\* "On success: mark PROCESSED + commit" (step 6 of stripe_webhook): once a
\* handler transaction has committed, the row says so and no later delivery
\* runs the handler again, unless a request outlived its lease.
SuccessMarksProcessed ==
    \A e \in Events \ late : applied[e] # {} => row[e].status = "PROCESSED"

\* PROCESSED, or FAILED with the attempts used up.
Settled(e) ==
    \/ row[e].status = "PROCESSED"
    \/ row[e].status = "FAILED" /\ row[e].attempts >= MaxAttempts

\* The 500 of a failed handler makes Stripe deliver until the event comes to
\* rest.  (A crash, or an overlapping delivery, is answered 200 while the row
\* is PROCESSING: Stripe may then stop before that.)
EventuallySettled == \A e \in Events \ (Overlapping \union Crashing) : <>[]Settled(e)

-----------------------------------------------------------------------------
(* The inbox implements OnceHandled. *)

Phase(e) ==
    IF e \in late THEN "late"
    ELSE IF row[e].status = "none" THEN "new"
    ELSE IF row[e].status = "PROCESSED" THEN "done" ELSE "open"

Effects(e) == IF e \in late THEN 0 ELSE Cardinality(applied[e])

Once == INSTANCE OnceHandled WITH
    phase   <- [e \in Events |-> Phase(e)],
    effects <- [e \in Events |-> Effects(e)]

\* "Durable idempotency flow" (stripe_webhook): what is promised of an event, as
\* one specification: it is taken up, and done at most once, in one transaction with
\* its effects.
ImplementsOnceHandled == Once!Spec

=============================================================================
