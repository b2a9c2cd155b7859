---------------------------- MODULE RefundLedger ----------------------------
(***************************************************************************)
(* What the Stripe handlers of the billing service do to invoices and      *)
(* refunds: the handler transactions that the inbox (WebhookInbox) starts. *)
(*                                                                         *)
(* A transaction runs at READ COMMITTED: a statement sees what was         *)
(* committed when it started and what its own transaction wrote; an UPDATE *)
(* waits for the row lock and looks at the row again; an INSERT waits for  *)
(* an uncommitted one of the same unique key.  The inbox starts an event   *)
(* on one worker at a time and never again once it is handled.             *)
(*                                                                         *)
(* A charge stands for the payment, the purchase it pays and the one       *)
(* invoice of that purchase.                                               *)
(***************************************************************************)
EXTENDS Integers, Sequences

CONSTANTS
    Charges,
    Refunds,     \* Stripe refund ids
    NoCharge,
    ChargeOf,    \* the charge of each refund
    AmountOf,    \* the amount of each refund, in minor units
    PriceOf,     \* the amount of the invoice of each charge
    Reviewed,    \* refunds that Stripe or the invoice contradict, or whose invoice is not found
    Events,      \* [type, charge, refunds]: see EventRecords
    NoEvent,
    Workers,     \* handler transactions open at the same time
    Serial       \* the charges whose transactions never overlap

EventTypes == {"checkout.session.completed", "invoice.paid", "payment_intent.succeeded",
               "refund.created", "charge.refunded"}

EventRecords == [type : EventTypes, charge : Charges, refunds : Seq(Refunds)]

ASSUME LedgerAssumption ==
    /\ NoCharge \notin Charges
    /\ ChargeOf \in [Refunds -> Charges]
    /\ AmountOf \in [Refunds -> Nat]
    /\ PriceOf \in [Charges -> Nat]
    /\ Reviewed \subseteq Refunds
    /\ Events \subseteq EventRecords
    /\ NoEvent \notin Events
    /\ Serial \subseteq Charges
    /\ \A e \in Events : \A i \in 1 .. Len(e.refunds) : ChargeOf[e.refunds[i]] = e.charge

VARIABLES
    invoice,   \* invoices: the committed row of each charge, status "none" if absent
    refund,    \* refunds: the committed status of each refund, "none" if absent
    payout,    \* the charges with a committed payout entry `pi:{id}`
    handled,   \* the events whose handler transaction committed
    tx,        \* the open transaction of each worker
    applied    \* history: for each refund, how many committed transactions applied it

vars == <<invoice, refund, payout, handled, tx, applied>>

-----------------------------------------------------------------------------
(* Types *)

InvoiceStatuses == {"none", "PENDING", "PAID", "REFUNDED"}

RefundStatuses == {"none", "PROCESSED", "REJECTED", "PENDING_REVIEW"}

Invoices == [status : InvoiceStatuses, refunded : Nat]

Steps == {"open", "read", "settle", "lookup", "apply", "create", "insert"}

\* step    the statement the transaction runs next
\* todo    the refunds of the event still to process, the current one first
\* result  the status process_refund will record for the current refund
\* status  the status it has written to the invoice, "none" if it has not:
\*         it then holds the row lock
\* added   what it has added to refunded_amount
\* made    the refund rows it has inserted
\* took    the refunds it has applied
Transactions ==
    [step : Steps, event : Events, charge : Charges, todo : Seq(Refunds), result : RefundStatuses,
     status : InvoiceStatuses, added : Nat, made : [Refunds -> RefundStatuses],
     took : SUBSET Refunds]

NoRows == [r \in Refunds |-> "none"]

Idle == [step |-> "idle", event |-> NoEvent, charge |-> NoCharge, todo |-> <<>>, result |-> "none",
         status |-> "none", added |-> 0, made |-> NoRows, took |-> {}]

FirstStep(type) ==
    IF type \in {"checkout.session.completed", "invoice.paid"} THEN "open"
    ELSE IF type = "payment_intent.succeeded" THEN "read"
    ELSE "lookup"

Begin(e) == [Idle EXCEPT !.step = FirstStep(e.type), !.event = e, !.charge = e.charge,
                         !.todo = e.refunds]

-----------------------------------------------------------------------------
(* What a transaction sees and holds *)

HasRowLock(t) == t.status # "none"

\* No other transaction has written the invoice of w's charge.
LockFree(w) ==
    \A v \in Workers \ {w} : tx[v].charge = tx[w].charge => ~HasRowLock(tx[v])

SeesRefund(w, r) == refund[r] # "none" \/ tx[w].made[r] # "none"

\* Faulty variant: process_refund does not look the refund up.
NeverProcessed(w, r) == FALSE

\* The first thing process_refund looks at.
AlreadyProcessed(w, r) == SeesRefund(w, r)

\* An INSERT of r violates the unique constraint of refund_id.
Duplicate(r) == refund[r] # "none"

\* Another transaction has inserted r and not committed: an INSERT of r waits.
InsertBlocked(w, r) == \E v \in Workers \ {w} : tx[v].made[r] # "none"

Refunded(w) == invoice[tx[w].charge].refunded + tx[w].added

\* Faulty variant: the guard forgets what was refunded before.
FitsAlone(w, r) == AmountOf[r] <= PriceOf[tx[w].charge]

\* The guard of apply_to_invoice.
Fits(w, r) == Refunded(w) + AmountOf[r] <= PriceOf[tx[w].charge]

\* Faulty variant: the rows inserted before survive.
RolledBackAmounts(t) == [t EXCEPT !.status = "none", !.added = 0, !.took = {}]

\* session.rollback(): the transaction goes on without anything it wrote.
RolledBack(t) == [t EXCEPT !.status = "none", !.added = 0, !.made = NoRows, !.took = {}]

NextRefund(t) == [t EXCEPT !.step = "lookup", !.todo = Tail(@), !.result = "none"]

-----------------------------------------------------------------------------
Init ==
    /\ invoice = [c \in Charges |-> [status |-> "none", refunded |-> 0]]
    /\ refund = NoRows
    /\ payout = {}
    /\ handled = {}
    /\ tx = [w \in Workers |-> Idle]
    /\ applied = [r \in Refunds |-> 0]

\* The inbox has claimed e for worker w and calls its handler.
Start(w, e) ==
    /\ tx[w] = Idle
    /\ e \notin handled
    /\ \A v \in Workers : tx[v].event # e
    /\ e.charge \in Serial => \A v \in Workers : tx[v].charge # e.charge
    /\ tx' = [tx EXCEPT ![w] = Begin(e)]
    /\ UNCHANGED <<invoice, refund, payout, handled, applied>>

\* purchase_title and _handle_invoice_paid: the invoice is created once, by a
\* transaction that writes nothing else.
OpenInvoice(w) ==
    LET t == tx[w] IN
    /\ t.step = "open"
    /\ invoice' = [invoice EXCEPT ![t.charge].status =
                     IF @ # "none" THEN @
                     ELSE IF t.event.type = "invoice.paid" THEN "PAID" ELSE "PENDING"]
    /\ handled' = handled \union {t.event}
    /\ tx' = [tx EXCEPT ![w] = Idle]
    /\ UNCHANGED <<refund, payout, applied>>

\* _handle_payment_intent_succeeded reads the invoice of the purchase.
ReadInvoice(w) ==
    LET t == tx[w] IN
    /\ t.step = "read"
    /\ tx' = [tx EXCEPT ![w].step =
                IF invoice[t.charge].status \in {"none", "PAID"} THEN "lookup" ELSE "settle"]
    /\ UNCHANGED <<invoice, refund, payout, handled, applied>>

\* It sets the status it decided on when it read the row.
Settle(w) ==
    LET t == tx[w] IN
    /\ t.step = "settle"
    /\ LockFree(w)
    /\ tx' = [tx EXCEPT ![w].step = "lookup", ![w].status = "PAID"]
    /\ UNCHANGED <<invoice, refund, payout, handled, applied>>

\* process_refund: the refund is known.
Known(w) ==
    LET t == tx[w] IN
    /\ t.step = "lookup"
    /\ t.todo # <<>>
    /\ AlreadyProcessed(w, Head(t.todo))
    /\ tx' = [tx EXCEPT ![w] = NextRefund(@)]
    /\ UNCHANGED <<invoice, refund, payout, handled, applied>>

\* process_refund: the refund is new.  Its amount and currency are compared
\* with Stripe's and the invoice's, and its invoice is looked for.
Resolve(w) ==
    LET t == tx[w] IN
    /\ t.step = "lookup"
    /\ t.todo # <<>>
    /\ ~AlreadyProcessed(w, Head(t.todo))
    /\ tx' = [tx EXCEPT ![w] =
                IF Head(t.todo) \in Reviewed \/ invoice[t.charge].status = "none"
                THEN [@ EXCEPT !.step = "create", !.result = "PENDING_REVIEW"]
                ELSE [@ EXCEPT !.step = "apply"]]
    /\ UNCHANGED <<invoice, refund, payout, handled, applied>>

\* apply_to_invoice: the guarded UPDATE matches.
Apply(w) ==
    LET t == tx[w] IN
    /\ t.step = "apply"
    /\ Fits(w, Head(t.todo))
    /\ LockFree(w)
    /\ tx' = [tx EXCEPT ![w].step = "create", ![w].result = "PROCESSED",
                        ![w].status = "REFUNDED", ![w].added = @ + AmountOf[Head(t.todo)],
                        ![w].took = @ \union {Head(t.todo)}]
    /\ UNCHANGED <<invoice, refund, payout, handled, applied>>

\* apply_to_invoice: no row matches; no lock is waited for or taken.
Reject(w) ==
    LET t == tx[w] IN
    /\ t.step = "apply"
    /\ ~Fits(w, Head(t.todo))
    /\ tx' = [tx EXCEPT ![w].step = "create", ![w].result = "REJECTED"]
    /\ UNCHANGED <<invoice, refund, payout, handled, applied>>

\* RefundRepository.create looks the refund up again and, if another
\* transaction has recorded it by now, returns that row.
Create(w) ==
    LET t == tx[w] IN
    /\ t.step = "create"
    /\ tx' = [tx EXCEPT ![w] = IF SeesRefund(w, Head(t.todo)) THEN NextRefund(@)
                               ELSE [@ EXCEPT !.step = "insert"]]
    /\ UNCHANGED <<invoice, refund, payout, handled, applied>>

\* RefundRepository.create: the INSERT succeeds.
Insert(w) ==
    LET t == tx[w]
        r == Head(t.todo) IN
    /\ t.step = "insert"
    /\ ~InsertBlocked(w, r)
    /\ ~Duplicate(r)
    /\ tx' = [tx EXCEPT ![w] = [NextRefund(@) EXCEPT !.made[r] = t.result]]
    /\ UNCHANGED <<invoice, refund, payout, handled, applied>>

\* RefundRepository.create: the INSERT meets a row committed since.  The
\* IntegrityError is answered by rolling back the whole transaction of the
\* handler, which then goes on with its next refund.
InsertConflicts(w) ==
    LET t == tx[w]
        r == Head(t.todo) IN
    /\ t.step = "insert"
    /\ ~InsertBlocked(w, r)
    /\ Duplicate(r)
    /\ tx' = [tx EXCEPT ![w] = NextRefund(RolledBack(@))]
    /\ UNCHANGED <<invoice, refund, payout, handled, applied>>

\* The handler is done: its writes and complete are committed.  That of a
\* payment has accrued its payout, idempotently.
Commit(w) ==
    LET t == tx[w] IN
    /\ t.step = "lookup"
    /\ t.todo = <<>>
    /\ invoice' = IF HasRowLock(t)
                  THEN [invoice EXCEPT ![t.charge] = [status   |-> t.status,
                                                      refunded |-> @.refunded + t.added]]
                  ELSE invoice
    /\ refund' = [r \in Refunds |-> IF t.made[r] # "none" THEN t.made[r] ELSE refund[r]]
    /\ payout' = IF t.event.type = "payment_intent.succeeded"
                 THEN payout \union {t.charge} ELSE payout
    /\ handled' = handled \union {t.event}
    /\ applied' = [r \in Refunds |-> IF r \in t.took THEN applied[r] + 1 ELSE applied[r]]
    /\ tx' = [tx EXCEPT ![w] = Idle]

\* The handler raises, is chosen as the victim of a deadlock, or dies: the
\* inbox will start the event again.
Abort(w) ==
    /\ tx[w] # Idle
    /\ tx' = [tx EXCEPT ![w] = Idle]
    /\ UNCHANGED <<invoice, refund, payout, handled, applied>>

Step(w) ==
    \/ OpenInvoice(w)
    \/ ReadInvoice(w)
    \/ Settle(w)
    \/ Known(w)
    \/ Resolve(w)
    \/ Apply(w)
    \/ Reject(w)
    \/ Create(w)
    \/ Insert(w)
    \/ InsertConflicts(w)
    \/ Commit(w)
    \/ Abort(w)

Next ==
    \/ \E w \in Workers, e \in Events : Start(w, e)
    \/ \E w \in Workers : Step(w)

Spec == Init /\ [][Next]_vars

-----------------------------------------------------------------------------
(* Properties *)

TypeOK ==
    /\ invoice \in [Charges -> Invoices]
    /\ refund \in [Refunds -> RefundStatuses]
    /\ payout \subseteq Charges
    /\ handled \subseteq Events
    /\ tx \in [Workers -> Transactions \union {Idle}]
    /\ applied \in [Refunds -> Nat]

\* "concurrent refunds cannot exceed Invoice.amount" (RefundRepository): the
\* guarded UPDATE looks at the row again after it has waited for its lock.
RefundWithinPrice == \A c \in Charges : invoice[c].refunded <= PriceOf[c]

\* A refund recorded PROCESSED has been taken off its invoice: an insert that
\* conflicts undoes the rows and the amounts of its transaction together.
ProcessedIsApplied == \A r \in Refunds : refund[r] = "PROCESSED" => applied[r] >= 1

\* "Refunds are append-only" (RefundRepository): whatever is replayed, a
\* recorded refund keeps its status.
RefundsAreAppendOnly ==
    [][\A r \in Refunds : refund[r] # "none" => refund'[r] = refund[r]]_vars

\* "replayed events can never ... apply a refund twice" (Refund)
AppliedOnce == \A r \in Refunds : applied[r] <= 1

SerialRefunds == {r \in Refunds : ChargeOf[r] \in Serial}

-----------------------------------------------------------------------------
(* For the charges whose transactions do not overlap, the ledger           *)
(* implements RefundAccounts.                                              *)

Accounts == INSTANCE RefundAccounts WITH
    Charges  <- Serial,
    Refunds  <- SerialRefunds,
    decision <- [r \in SerialRefunds |-> refund[r]],
    refunded <- [c \in Serial |-> invoice[c].refunded]

\* Their refunds are decided once, for good, and taken off the invoice in the
\* step that decides them.
ImplementsRefundAccounts == Accounts!Spec

=============================================================================
