---------------------------- MODULE BillingProofs ----------------------------
(* Proofs about RefundLedger and BillingAccounts, for every set of charges,  *)
(* refunds, events, workers, users, milestones and requests, every amount    *)
(* and every interleaving of the transactions and requests.                  *)
EXTENDS MCBilling, Sums, SequenceTheorems, TLAPS

\* What a transaction is in the middle of.
WellFormed(t) ==
    /\ t.step \in {"apply", "create", "insert"} => t.todo # <<>>
    /\ t.status = "none" => t.added = 0 /\ t.took = {}
    /\ t.step \in {"create", "insert"} /\ t.result = "PROCESSED" => Head(t.todo) \in t.took
    /\ \A r \in Refunds : t.made[r] = "PROCESSED" => r \in t.took

TxInv == \A w \in Workers : WellFormed(tx[w])

\* The row lock of an invoice is exclusive.
LockInv ==
    \A v, w \in Workers :
        v # w /\ tx[v].charge = tx[w].charge /\ HasRowLock(tx[v]) => ~HasRowLock(tx[w])

\* What a transaction has added would still fit if it committed now.
BoundInv ==
    \A w \in Workers :
        tx[w] # Idle =>
            invoice[tx[w].charge].refunded + tx[w].added <= PriceOf[tx[w].charge]

\* An inserted and uncommitted refund is on record nowhere else.
UniqueInv ==
    \A w \in Workers, r \in Refunds :
        tx[w].made[r] # "none" =>
            /\ refund[r] = "none"
            /\ \A v \in Workers : v # w => tx[v].made[r] = "none"

Inv == TypeOK /\ TxInv /\ LockInv /\ RefundWithinPrice /\ BoundInv /\ UniqueInv /\ ProcessedIsApplied

-----------------------------------------------------------------------------
(* Records *)

LEMMA IdleFacts ==
    /\ Idle.step = "idle" /\ Idle.charge = NoCharge /\ Idle.event = NoEvent /\ Idle.todo = <<>>
    /\ Idle.status = "none" /\ Idle.added = 0 /\ Idle.took = {} /\ Idle.result = "none"
    /\ Idle.made = NoRows
    /\ NoRows \in [Refunds -> RefundStatuses]
    /\ \A r \in Refunds : NoRows[r] = "none"
    /\ Idle \notin Transactions
  BY DEF Idle, NoRows, RefundStatuses, Transactions, Steps

LEMMA TailType ==
    ASSUME NEW s \in Seq(Refunds), s # <<>>
    PROVE  Head(s) \in Refunds /\ Tail(s) \in Seq(Refunds)
  OBVIOUS

\* A transaction that goes on to its next refund.
LEMMA NextRefundFacts ==
    ASSUME NEW t \in Transactions, t.todo # <<>>
    PROVE  LET n == NextRefund(t) IN
           /\ n \in Transactions
           /\ n.step = "lookup" /\ n.charge = t.charge /\ n.status = t.status
           /\ n.todo = Tail(t.todo)
           /\ n.added = t.added /\ n.made = t.made /\ n.took = t.took /\ n.result = "none"
  BY TailType DEF NextRefund, Transactions, Steps, RefundStatuses

LEMMA RolledBackFacts ==
    ASSUME NEW t \in Transactions
    PROVE  LET n == RolledBack(t) IN
           /\ n \in Transactions
           /\ n.step = t.step /\ n.charge = t.charge /\ n.todo = t.todo /\ n.status = "none"
           /\ n.added = 0 /\ n.made = NoRows /\ n.took = {}
  BY IdleFacts DEF RolledBack, Transactions, InvoiceStatuses

\* The first state of a transaction.
LEMMA BeginFacts ==
    ASSUME NEW e \in Events, LedgerAssumption
    PROVE  LET n == Begin(e) IN
           /\ n \in Transactions
           /\ n.step \in {"open", "read", "lookup"} /\ n.charge = e.charge /\ n.status = "none"
           /\ n.added = 0 /\ n.made = NoRows /\ n.took = {} /\ n.result = "none"
  <1>1. e \in EventRecords
    BY DEF LedgerAssumption
  <1>2. FirstStep(e.type) \in {"open", "read", "lookup"}
    BY DEF FirstStep
  <1>3. e.charge \in Charges /\ e.refunds \in Seq(Refunds)
    BY <1>1 DEF EventRecords
  <1> QED
    BY <1>2, <1>3, IdleFacts
       DEF Begin, Idle, Transactions, Steps, InvoiceStatuses, RefundStatuses, NoRows

-----------------------------------------------------------------------------
(* A step that changes the transaction of one worker and nothing else *)

LEMMA LocalStep ==
    ASSUME Inv, LedgerAssumption, NEW w \in Workers, NEW n \in Transactions \union {Idle},
           tx' = [tx EXCEPT ![w] = n],
           UNCHANGED <<invoice, refund, payout, handled, applied>>,
           WellFormed(n),
           HasRowLock(n) => \A v \in Workers \ {w} : tx[v].charge = n.charge => ~HasRowLock(tx[v]),
           n # Idle => invoice[n.charge].refunded + n.added <= PriceOf[n.charge],
           \A r \in Refunds : n.made[r] # "none" =>
               refund[r] = "none" /\ \A v \in Workers \ {w} : tx[v].made[r] = "none"
    PROVE  Inv'
  <1>1. /\ tx \in [Workers -> Transactions \union {Idle}]
        /\ tx'[w] = n
        /\ \A v \in Workers \ {w} : tx'[v] = tx[v]
    BY DEF Inv, TypeOK
  <1>2. TypeOK'
    BY <1>1 DEF Inv, TypeOK
  <1>3. TxInv'
    <2> SUFFICES ASSUME NEW v \in Workers PROVE WellFormed(tx'[v])
      BY DEF TxInv, WellFormed
    <2>1. CASE v = w
      BY <2>1, <1>1
    <2>2. CASE v # w
      BY <2>2, <1>1 DEF Inv, TxInv
    <2> QED
      BY <2>1, <2>2
  <1>4. LockInv'
    BY <1>1 DEF Inv, LockInv, HasRowLock
  <1>5. RefundWithinPrice' /\ ProcessedIsApplied'
    BY DEF Inv, RefundWithinPrice, ProcessedIsApplied
  <1>6. BoundInv'
    BY <1>1 DEF Inv, BoundInv
  <1>7. UniqueInv'
    <2> SUFFICES ASSUME NEW v \in Workers, NEW r \in Refunds, tx'[v].made[r] # "none"
                 PROVE  refund[r] = "none" /\ \A u \in Workers : u # v => tx'[u].made[r] = "none"
      BY DEF UniqueInv
    <2>1. CASE v = w
      BY <2>1, <1>1
    <2>2. CASE v # w
      <3>1. tx[v].made[r] # "none"
        BY <2>2, <1>1
      <3>2. refund[r] = "none" /\ \A u \in Workers : u # v => tx[u].made[r] = "none"
        BY <3>1 DEF Inv, UniqueInv
      <3>3. n.made[r] = "none"
        BY <3>1, <2>2
      <3> QED
        BY <3>2, <3>3, <1>1
    <2> QED
      BY <2>1, <2>2
  <1> QED
    BY <1>2, <1>3, <1>4, <1>5, <1>6, <1>7 DEF Inv

\* The facts a transaction in progress brings to such a step.
LEMMA RunningFacts ==
    ASSUME Inv, NEW w \in Workers, tx[w].step # "idle"
    PROVE  /\ tx[w] \in Transactions
           /\ WellFormed(tx[w])
           /\ invoice[tx[w].charge].refunded + tx[w].added <= PriceOf[tx[w].charge]
           /\ HasRowLock(tx[w]) =>
                 \A v \in Workers \ {w} : tx[v].charge = tx[w].charge => ~HasRowLock(tx[v])
           /\ \A r \in Refunds : tx[w].made[r] # "none" =>
                 refund[r] = "none" /\ \A v \in Workers \ {w} : tx[v].made[r] = "none"
  <1>1. tx[w] \in Transactions /\ tx[w] # Idle
    BY IdleFacts DEF Inv, TypeOK
  <1>2. WellFormed(tx[w])
    BY DEF Inv, TxInv
  <1>3. invoice[tx[w].charge].refunded + tx[w].added <= PriceOf[tx[w].charge]
    BY <1>1 DEF Inv, BoundInv
  <1>4. HasRowLock(tx[w]) =>
           \A v \in Workers \ {w} : tx[v].charge = tx[w].charge => ~HasRowLock(tx[v])
    BY DEF Inv, LockInv
  <1>5. \A r \in Refunds : tx[w].made[r] # "none" =>
           refund[r] = "none" /\ \A v \in Workers \ {w} : tx[v].made[r] = "none"
    BY DEF Inv, UniqueInv
  <1> QED
    BY <1>1, <1>2, <1>3, <1>4, <1>5

-----------------------------------------------------------------------------
(* One lemma per action *)

LEMMA StartInv ==
    ASSUME Inv, LedgerAssumption, NEW w \in Workers, NEW e \in Events, Start(w, e)
    PROVE  Inv'
  <1> DEFINE n == Begin(e)
  <1>1. /\ n \in Transactions
        /\ n.step \in {"open", "read", "lookup"} /\ n.charge = e.charge /\ n.status = "none"
        /\ n.added = 0 /\ n.made = NoRows /\ n.took = {} /\ n.result = "none"
    BY BeginFacts
  <1>2. e.charge \in Charges
    BY DEF LedgerAssumption, EventRecords
  <1>3. invoice[e.charge].refunded <= PriceOf[e.charge] /\ invoice[e.charge].refunded \in Nat
    BY <1>2 DEF Inv, RefundWithinPrice, TypeOK, Invoices
  <1>4. tx' = [tx EXCEPT ![w] = n] /\ UNCHANGED <<invoice, refund, payout, handled, applied>>
    BY DEF Start
  <1> HIDE DEF n
  <1>5. WellFormed(n)
    BY <1>1, IdleFacts DEF WellFormed
  <1>6. ~HasRowLock(n)
    BY <1>1 DEF HasRowLock
  <1>7. \A r \in Refunds : n.made[r] = "none"
    BY <1>1, IdleFacts
  <1>8. invoice[n.charge].refunded + n.added <= PriceOf[n.charge]
    BY <1>1, <1>3
  <1> QED
    BY <1>1, <1>4, <1>5, <1>6, <1>7, <1>8, LocalStep

LEMMA AbortInv ==
    ASSUME Inv, LedgerAssumption, NEW w \in Workers, Abort(w)
    PROVE  Inv'
  <1>1. tx' = [tx EXCEPT ![w] = Idle] /\ UNCHANGED <<invoice, refund, payout, handled, applied>>
    BY DEF Abort
  <1>2. WellFormed(Idle)
    BY IdleFacts DEF WellFormed
  <1>3. ~HasRowLock(Idle) /\ \A r \in Refunds : Idle.made[r] = "none"
    BY IdleFacts DEF HasRowLock
  <1> QED
    BY <1>1, <1>2, <1>3, LocalStep

\* The payment handler: it reads the invoice, then it may write its status.
LEMMA PaymentInv ==
    ASSUME Inv, LedgerAssumption, NEW w \in Workers, ReadInvoice(w) \/ Settle(w)
    PROVE  Inv'
  <1> DEFINE t == tx[w]
             read == [t EXCEPT !.step = IF invoice[t.charge].status \in {"none", "PAID"}
                                        THEN "lookup" ELSE "settle"]
             settled == [t EXCEPT !.step = "lookup", !.status = "PAID"]
  <1>1. t.step \in {"read", "settle"}
    BY DEF ReadInvoice, Settle
  <1>2. /\ t \in Transactions
        /\ WellFormed(t)
        /\ invoice[t.charge].refunded + t.added <= PriceOf[t.charge]
        /\ HasRowLock(t) => \A v \in Workers \ {w} : tx[v].charge = t.charge => ~HasRowLock(tx[v])
        /\ \A r \in Refunds : t.made[r] # "none" =>
              refund[r] = "none" /\ \A v \in Workers \ {w} : tx[v].made[r] = "none"
    BY <1>1, RunningFacts
  <1>3. tx \in [Workers -> Transactions \union {Idle}]
    BY DEF Inv, TypeOK
  <1>4. CASE ReadInvoice(w)
    <2>1. tx' = [tx EXCEPT ![w] = read] /\ UNCHANGED <<invoice, refund, payout, handled, applied>>
      BY <1>4, <1>3 DEF ReadInvoice
    <2>2. /\ read \in Transactions
          /\ read.step \in {"lookup", "settle"} /\ read.status = t.status /\ read.added = t.added
          /\ read.made = t.made /\ read.took = t.took /\ read.charge = t.charge
      BY <1>2 DEF Transactions, Steps
    <2> HIDE DEF read
    <2>3. WellFormed(read) /\ (HasRowLock(read) <=> HasRowLock(t))
      BY <2>2, <1>2, Zenon DEF WellFormed, HasRowLock
    <2> QED
      BY <2>1, <2>2, <2>3, <1>2, LocalStep
  <1>5. CASE Settle(w)
    <2>1. /\ tx' = [tx EXCEPT ![w] = settled]
          /\ UNCHANGED <<invoice, refund, payout, handled, applied>>
          /\ LockFree(w)
      BY <1>5, <1>3 DEF Settle
    <2>2. /\ settled \in Transactions
          /\ settled.step = "lookup" /\ settled.status = "PAID" /\ settled.added = t.added
          /\ settled.made = t.made /\ settled.took = t.took /\ settled.charge = t.charge
      BY <1>2 DEF Transactions, Steps, InvoiceStatuses
    <2> HIDE DEF settled
    <2>3. WellFormed(settled)
      BY <2>2, <1>2 DEF WellFormed
    <2>4. \A v \in Workers \ {w} : tx[v].charge = settled.charge => ~HasRowLock(tx[v])
      BY <2>1, <2>2 DEF LockFree
    <2> QED
      BY <2>1, <2>2, <2>3, <2>4, <1>2, LocalStep
  <1> QED
    BY <1>4, <1>5

\* Known, and Create when the refund is on record by now.
LEMMA SkipInv ==
    ASSUME Inv, LedgerAssumption, NEW w \in Workers, tx[w].todo # <<>>, tx[w].step # "idle",
           tx' = [tx EXCEPT ![w] = NextRefund(tx[w])],
           UNCHANGED <<invoice, refund, payout, handled, applied>>
    PROVE  Inv'
  <1> DEFINE t == tx[w]
             n == NextRefund(t)
  <1>1. /\ t \in Transactions
        /\ WellFormed(t)
        /\ invoice[t.charge].refunded + t.added <= PriceOf[t.charge]
        /\ HasRowLock(t) => \A v \in Workers \ {w} : tx[v].charge = t.charge => ~HasRowLock(tx[v])
        /\ \A r \in Refunds : t.made[r] # "none" =>
              refund[r] = "none" /\ \A v \in Workers \ {w} : tx[v].made[r] = "none"
    BY RunningFacts
  <1>2. /\ n \in Transactions
        /\ n.step = "lookup" /\ n.charge = t.charge /\ n.status = t.status
        /\ n.added = t.added /\ n.made = t.made /\ n.took = t.took /\ n.result = "none"
    BY <1>1, NextRefundFacts
  <1>3. tx' = [tx EXCEPT ![w] = n]
    OBVIOUS
  <1> HIDE DEF n
  <1>4. WellFormed(n) /\ (HasRowLock(n) <=> HasRowLock(t))
    BY <1>1, <1>2 DEF WellFormed, HasRowLock
  <1>5. HasRowLock(n) => \A v \in Workers \ {w} : tx[v].charge = n.charge => ~HasRowLock(tx[v])
    BY <1>1, <1>2, <1>4
  <1>6. invoice[n.charge].refunded + n.added <= PriceOf[n.charge]
    BY <1>1, <1>2
  <1>7. \A r \in Refunds : n.made[r] # "none" =>
          refund[r] = "none" /\ \A v \in Workers \ {w} : tx[v].made[r] = "none"
    BY <1>1, <1>2
  <1> QED
    BY <1>2, <1>3, <1>4, <1>5, <1>6, <1>7, LocalStep

LEMMA ResolveInv ==
    ASSUME Inv, LedgerAssumption, NEW w \in Workers, Resolve(w)
    PROVE  Inv'
  <1> DEFINE t == tx[w]
             review == [t EXCEPT !.step = "create", !.result = "PENDING_REVIEW"]
             try == [t EXCEPT !.step = "apply"]
             n == IF Head(t.todo) \in Reviewed \/ invoice[t.charge].status = "none"
                  THEN review ELSE try
  <1>1. /\ t \in Transactions
        /\ WellFormed(t)
        /\ invoice[t.charge].refunded + t.added <= PriceOf[t.charge]
        /\ HasRowLock(t) => \A v \in Workers \ {w} : tx[v].charge = t.charge => ~HasRowLock(tx[v])
        /\ \A r \in Refunds : t.made[r] # "none" =>
              refund[r] = "none" /\ \A v \in Workers \ {w} : tx[v].made[r] = "none"
    BY RunningFacts DEF Resolve
  <1>2. tx \in [Workers -> Transactions \union {Idle}]
    BY DEF Inv, TypeOK
  <1>3. /\ tx' = [tx EXCEPT ![w] = n]
        /\ t.todo # <<>>
        /\ UNCHANGED <<invoice, refund, payout, handled, applied>>
    BY <1>2 DEF Resolve
  <1>4. /\ review \in Transactions
        /\ review.step = "create" /\ review.result = "PENDING_REVIEW" /\ review.todo = t.todo
        /\ review.charge = t.charge /\ review.status = t.status /\ review.added = t.added
        /\ review.made = t.made /\ review.took = t.took
    BY <1>1 DEF Transactions, Steps, RefundStatuses
  <1>5. /\ try \in Transactions
        /\ try.step = "apply" /\ try.todo = t.todo
        /\ try.charge = t.charge /\ try.status = t.status /\ try.added = t.added
        /\ try.made = t.made /\ try.took = t.took
    BY <1>1 DEF Transactions, Steps
  <1> HIDE DEF review, try
  <1>6. /\ n \in Transactions
        /\ n.charge = t.charge /\ n.status = t.status /\ n.added = t.added
        /\ n.made = t.made /\ n.took = t.took
    BY <1>4, <1>5
  <1>7. WellFormed(n)
    <2>1. WellFormed(review)
      BY <1>1, <1>3, <1>4 DEF WellFormed
    <2>2. WellFormed(try)
      BY <1>1, <1>3, <1>5 DEF WellFormed
    <2> QED
      BY <2>1, <2>2
  <1> HIDE DEF n
  <1>8. HasRowLock(n) <=> HasRowLock(t)
    BY <1>6 DEF HasRowLock
  <1> QED
    BY <1>1, <1>3, <1>6, <1>7, <1>8, LocalStep

LEMMA ApplyInv ==
    ASSUME Inv, LedgerAssumption, NEW w \in Workers, Apply(w)
    PROVE  Inv'
  <1> DEFINE t == tx[w]
             r == Head(t.todo)
             n == [t EXCEPT !.step = "create", !.result = "PROCESSED", !.status = "REFUNDED",
                            !.added = @ + AmountOf[r], !.took = @ \union {r}]
  <1>1. /\ t \in Transactions
        /\ WellFormed(t)
        /\ \A q \in Refunds : t.made[q] # "none" =>
              refund[q] = "none" /\ \A v \in Workers \ {w} : tx[v].made[q] = "none"
    BY RunningFacts DEF Apply
  <1>2. tx \in [Workers -> Transactions \union {Idle}]
    BY DEF Inv, TypeOK
  <1>3. /\ tx' = [tx EXCEPT ![w] = n]
        /\ UNCHANGED <<invoice, refund, payout, handled, applied>>
        /\ LockFree(w) /\ Fits(w, r)
    BY <1>2 DEF Apply
  <1>4. t.todo # <<>> /\ t.todo \in Seq(Refunds)
    BY <1>1 DEF Apply, WellFormed, Transactions
  <1>5. r \in Refunds /\ AmountOf[r] \in Nat
    BY <1>4, TailType DEF LedgerAssumption
  <1>6. /\ n \in Transactions
        /\ n.step = "create" /\ n.result = "PROCESSED" /\ n.todo = t.todo /\ n.charge = t.charge
        /\ n.status = "REFUNDED" /\ n.added = t.added + AmountOf[r] /\ n.made = t.made
        /\ n.took = t.took \union {r}
    <2> HIDE DEF r
    <2>1. t.added + AmountOf[r] \in Nat /\ t.took \union {r} \in SUBSET Refunds
      BY <1>1, <1>5 DEF Transactions
    <2> DEFINE total == t.added + AmountOf[r]
               taken == t.took \union {r}
    <2>2. n = [t EXCEPT !.step = "create", !.result = "PROCESSED", !.status = "REFUNDED",
                        !.added = total, !.took = taken]
      BY <1>1 DEF Transactions
    <2> HIDE DEF total, taken, n
    <2>3. total \in Nat /\ taken \in SUBSET Refunds
      BY <2>1 DEF total, taken
    <2>4. /\ n \in Transactions
          /\ n.step = "create" /\ n.result = "PROCESSED" /\ n.todo = t.todo
          /\ n.charge = t.charge /\ n.status = "REFUNDED" /\ n.added = total
          /\ n.made = t.made /\ n.took = taken
      BY <2>2, <2>3, <1>1 DEF Transactions, Steps, InvoiceStatuses, RefundStatuses
    <2> QED
      BY <2>4 DEF total, taken
  <1> HIDE DEF n
  <1>7. WellFormed(n)
    BY <1>1, <1>4, <1>6 DEF WellFormed
  <1>8. \A v \in Workers \ {w} : tx[v].charge = n.charge => ~HasRowLock(tx[v])
    BY <1>3, <1>6 DEF LockFree
  <1>9. invoice[n.charge].refunded + n.added <= PriceOf[n.charge]
    <2>1. invoice[t.charge].refunded \in Nat /\ t.added \in Nat
      BY <1>1 DEF Inv, TypeOK, Transactions, Invoices
    <2> QED
      BY <2>1, <1>3, <1>5, <1>6 DEF Fits, Refunded
  <1>10. \A q \in Refunds : n.made[q] # "none" =>
           refund[q] = "none" /\ \A v \in Workers \ {w} : tx[v].made[q] = "none"
    BY <1>1, <1>6
  <1> QED
    BY <1>3, <1>6, <1>7, <1>8, <1>9, <1>10, LocalStep

LEMMA RejectInv ==
    ASSUME Inv, LedgerAssumption, NEW w \in Workers, Reject(w)
    PROVE  Inv'
  <1> DEFINE t == tx[w]
             n == [t EXCEPT !.step = "create", !.result = "REJECTED"]
  <1>1. /\ t \in Transactions
        /\ WellFormed(t)
        /\ invoice[t.charge].refunded + t.added <= PriceOf[t.charge]
        /\ HasRowLock(t) => \A v \in Workers \ {w} : tx[v].charge = t.charge => ~HasRowLock(tx[v])
        /\ \A q \in Refunds : t.made[q] # "none" =>
              refund[q] = "none" /\ \A v \in Workers \ {w} : tx[v].made[q] = "none"
    BY RunningFacts DEF Reject
  <1>2. tx \in [Workers -> Transactions \union {Idle}]
    BY DEF Inv, TypeOK
  <1>3. /\ tx' = [tx EXCEPT ![w] = n]
        /\ UNCHANGED <<invoice, refund, payout, handled, applied>>
    BY <1>2 DEF Reject
  <1>4. t.todo # <<>>
    BY <1>1 DEF Reject, WellFormed
  <1>5. /\ n \in Transactions
        /\ n.step = "create" /\ n.result = "REJECTED" /\ n.todo = t.todo
        /\ n.charge = t.charge /\ n.status = t.status /\ n.added = t.added
        /\ n.made = t.made /\ n.took = t.took
    BY <1>1 DEF Transactions, Steps, RefundStatuses
  <1> HIDE DEF n
  <1>6. WellFormed(n)
    BY <1>1, <1>4, <1>5 DEF WellFormed
  <1>7. HasRowLock(n) => \A v \in Workers \ {w} : tx[v].charge = n.charge => ~HasRowLock(tx[v])
    BY <1>1, <1>5 DEF HasRowLock
  <1>8. invoice[n.charge].refunded + n.added <= PriceOf[n.charge]
    BY <1>1, <1>5
  <1>9. \A q \in Refunds : n.made[q] # "none" =>
          refund[q] = "none" /\ \A v \in Workers \ {w} : tx[v].made[q] = "none"
    BY <1>1, <1>5
  <1> QED
    BY <1>3, <1>5, <1>6, <1>7, <1>8, <1>9, LocalStep

LEMMA CreateInv ==
    ASSUME Inv, LedgerAssumption, NEW w \in Workers, Create(w)
    PROVE  Inv'
  <1> DEFINE t == tx[w]
             n == [t EXCEPT !.step = "insert"]
  <1>1. /\ t \in Transactions
        /\ WellFormed(t)
        /\ invoice[t.charge].refunded + t.added <= PriceOf[t.charge]
        /\ HasRowLock(t) => \A v \in Workers \ {w} : tx[v].charge = t.charge => ~HasRowLock(tx[v])
        /\ \A q \in Refunds : t.made[q] # "none" =>
              refund[q] = "none" /\ \A v \in Workers \ {w} : tx[v].made[q] = "none"
    BY RunningFacts DEF Create
  <1>2. tx \in [Workers -> Transactions \union {Idle}]
    BY DEF Inv, TypeOK
  <1>3. UNCHANGED <<invoice, refund, payout, handled, applied>>
    BY DEF Create
  <1>4. t.todo # <<>>
    BY <1>1 DEF Create, WellFormed
  <1>a. CASE SeesRefund(w, Head(t.todo))
    <2>1. tx' = [tx EXCEPT ![w] = NextRefund(tx[w])]
      BY <1>2, <1>a DEF Create
    <2> QED
      BY <2>1, <1>3, <1>4, SkipInv DEF Create
  <1>b. CASE ~SeesRefund(w, Head(t.todo))
    <2>3. tx' = [tx EXCEPT ![w] = n]
      BY <1>2, <1>b DEF Create
    <2>5. /\ n \in Transactions
          /\ n.step = "insert" /\ n.result = t.result /\ n.todo = t.todo
          /\ n.charge = t.charge /\ n.status = t.status /\ n.added = t.added
          /\ n.made = t.made /\ n.took = t.took
      BY <1>1 DEF Transactions, Steps
    <2> HIDE DEF n
    <2>6. WellFormed(n)
      <3>1. t.step = "create"
        BY DEF Create
      <3> QED
        BY <3>1, <1>1, <1>4, <2>5 DEF WellFormed
    <2>7. HasRowLock(n) => \A v \in Workers \ {w} : tx[v].charge = n.charge => ~HasRowLock(tx[v])
      BY <1>1, <2>5 DEF HasRowLock
    <2>8. invoice[n.charge].refunded + n.added <= PriceOf[n.charge]
      BY <1>1, <2>5
    <2>9. \A q \in Refunds : n.made[q] # "none" =>
            refund[q] = "none" /\ \A v \in Workers \ {w} : tx[v].made[q] = "none"
      BY <1>1, <2>5
    <2> QED
      BY <1>3, <2>3, <2>5, <2>6, <2>7, <2>8, <2>9, LocalStep
  <1> QED
    BY <1>a, <1>b

LEMMA InsertInv ==
    ASSUME Inv, LedgerAssumption, NEW w \in Workers, Insert(w)
    PROVE  Inv'
  <1> DEFINE t == tx[w]
             r == Head(t.todo)
             next == NextRefund(t)
             made == [t.made EXCEPT ![r] = t.result]
             n == [next EXCEPT !.made = made]
  <1>1. /\ t \in Transactions
        /\ WellFormed(t)
        /\ invoice[t.charge].refunded + t.added <= PriceOf[t.charge]
        /\ HasRowLock(t) => \A v \in Workers \ {w} : tx[v].charge = t.charge => ~HasRowLock(tx[v])
        /\ \A q \in Refunds : t.made[q] # "none" =>
              refund[q] = "none" /\ \A v \in Workers \ {w} : tx[v].made[q] = "none"
    BY RunningFacts DEF Insert
  <1>2. tx \in [Workers -> Transactions \union {Idle}]
    BY DEF Inv, TypeOK
  <1>4. t.todo # <<>> /\ r \in Refunds
    BY <1>1, TailType DEF Insert, WellFormed, Transactions
  <1>a. /\ next \in Transactions
        /\ next.step = "lookup" /\ next.charge = t.charge /\ next.status = t.status
        /\ next.added = t.added /\ next.made = t.made /\ next.took = t.took
        /\ next.result = "none"
    BY <1>1, <1>4, NextRefundFacts
  <1>3. /\ tx' = [tx EXCEPT ![w] = n]
        /\ UNCHANGED <<invoice, refund, payout, handled, applied>>
        /\ ~InsertBlocked(w, r) /\ ~Duplicate(r)
        /\ t.step = "insert"
    <2>1. tx' = [tx EXCEPT ![w] = [next EXCEPT !.made[r] = t.result]]
      BY <1>2 DEF Insert
    <2>2. [next EXCEPT !.made[r] = t.result] = n
      <3> HIDE DEF next
      <3> QED
        BY <1>a DEF Transactions
    <2> HIDE DEF next, n
    <2> QED
      BY <2>1, <2>2 DEF Insert
  <1> HIDE DEF next
  <1>b. /\ made \in [Refunds -> RefundStatuses]
        /\ made[r] = t.result
        /\ \A q \in Refunds \ {r} : made[q] = t.made[q]
    BY <1>1, <1>4 DEF Transactions
  <1> HIDE DEF made
  <1>5. /\ n \in Transactions
        /\ n.step = "lookup" /\ n.charge = t.charge /\ n.status = t.status
        /\ n.added = t.added /\ n.made = made /\ n.took = t.took
    BY <1>a, <1>b DEF Transactions
  <1> HIDE DEF n
  <1>c. t.result = "PROCESSED" => r \in t.took
    BY <1>1, <1>3 DEF WellFormed
  <1>6. WellFormed(n)
    <2>1. \A q \in Refunds : made[q] = "PROCESSED" => q \in t.took
      BY <1>1, <1>b, <1>c DEF WellFormed
    <2> QED
      BY <2>1, <1>1, <1>5 DEF WellFormed
  <1>7. HasRowLock(n) => \A v \in Workers \ {w} : tx[v].charge = n.charge => ~HasRowLock(tx[v])
    BY <1>1, <1>5 DEF HasRowLock
  <1>8. invoice[n.charge].refunded + n.added <= PriceOf[n.charge]
    BY <1>1, <1>5
  <1>9. \A q \in Refunds : n.made[q] # "none" =>
          refund[q] = "none" /\ \A v \in Workers \ {w} : tx[v].made[q] = "none"
    BY <1>1, <1>3, <1>5, <1>b DEF InsertBlocked, Duplicate
  <1> QED
    BY <1>3, <1>5, <1>6, <1>7, <1>8, <1>9, LocalStep

LEMMA InsertConflictsInv ==
    ASSUME Inv, LedgerAssumption, NEW w \in Workers, InsertConflicts(w)
    PROVE  Inv'
  <1> DEFINE t == tx[w]
             back == RolledBack(t)
             n == NextRefund(back)
  <1>1. /\ t \in Transactions
        /\ WellFormed(t)
        /\ invoice[t.charge].refunded + t.added <= PriceOf[t.charge]
        /\ HasRowLock(t) => \A v \in Workers \ {w} : tx[v].charge = t.charge => ~HasRowLock(tx[v])
        /\ \A q \in Refunds : t.made[q] # "none" =>
              refund[q] = "none" /\ \A v \in Workers \ {w} : tx[v].made[q] = "none"
    BY RunningFacts DEF InsertConflicts
  <1>2. tx \in [Workers -> Transactions \union {Idle}]
    BY DEF Inv, TypeOK
  <1>3. /\ tx' = [tx EXCEPT ![w] = n]
        /\ UNCHANGED <<invoice, refund, payout, handled, applied>>
    BY <1>2 DEF InsertConflicts
  <1>4. t.todo # <<>>
    BY <1>1 DEF InsertConflicts, WellFormed
  <1>a. /\ back \in Transactions
        /\ back.charge = t.charge /\ back.todo = t.todo /\ back.status = "none"
        /\ back.added = 0 /\ back.made = NoRows /\ back.took = {}
    BY <1>1, RolledBackFacts
  <1> HIDE DEF back
  <1>5. /\ n \in Transactions
        /\ n.step = "lookup" /\ n.charge = t.charge /\ n.status = "none"
        /\ n.added = 0 /\ n.made = NoRows /\ n.took = {}
    BY <1>4, <1>a, NextRefundFacts
  <1> HIDE DEF n
  <1>6. WellFormed(n) /\ ~HasRowLock(n) /\ \A q \in Refunds : n.made[q] = "none"
    BY <1>5, IdleFacts DEF WellFormed, HasRowLock
  <1>8. invoice[n.charge].refunded + n.added <= PriceOf[n.charge]
    BY <1>1, <1>5 DEF Inv, TypeOK, Transactions, Invoices, LedgerAssumption
  <1> QED
    BY <1>3, <1>5, <1>6, <1>8, LocalStep

\* A transaction ends; the invoices keep what was taken off them.
LEMMA EndStep ==
    ASSUME Inv, LedgerAssumption, NEW w \in Workers, tx' = [tx EXCEPT ![w] = Idle],
           invoice' \in [Charges -> Invoices], handled' \subseteq Events, payout' \subseteq Charges,
           \A c \in Charges : invoice'[c].refunded = invoice[c].refunded,
           UNCHANGED <<refund, applied>>
    PROVE  Inv'
  <1>1. /\ tx \in [Workers -> Transactions \union {Idle}]
        /\ tx'[w] = Idle
        /\ \A v \in Workers \ {w} : tx'[v] = tx[v]
    BY DEF Inv, TypeOK
  <1>2. TypeOK'
    BY <1>1 DEF Inv, TypeOK
  <1>3. TxInv'
    <2>1. WellFormed(Idle)
      BY IdleFacts DEF WellFormed
    <2> SUFFICES ASSUME NEW v \in Workers PROVE WellFormed(tx'[v])
      BY DEF TxInv, WellFormed
    <2> QED
      BY <2>1, <1>1 DEF Inv, TxInv
  <1>4. LockInv'
    BY <1>1, IdleFacts DEF Inv, LockInv, HasRowLock
  <1>5. RefundWithinPrice' /\ ProcessedIsApplied'
    BY DEF Inv, RefundWithinPrice, ProcessedIsApplied
  <1>6. BoundInv'
    <2> SUFFICES ASSUME NEW v \in Workers, tx'[v] # Idle
                 PROVE  invoice'[tx'[v].charge].refunded + tx'[v].added <= PriceOf[tx'[v].charge]
      BY DEF BoundInv
    <2>1. tx'[v] = tx[v] /\ tx[v] # Idle
      BY <1>1
    <2>2. tx[v].charge \in Charges
      BY <2>1, <1>1 DEF Transactions
    <2> QED
      BY <2>1, <2>2 DEF Inv, BoundInv
  <1>7. UniqueInv'
    BY <1>1, IdleFacts DEF Inv, UniqueInv
  <1> QED
    BY <1>2, <1>3, <1>4, <1>5, <1>6, <1>7 DEF Inv

LEMMA StatusWrite ==
    ASSUME NEW i \in Invoices, NEW s \in InvoiceStatuses
    PROVE  [i EXCEPT !.status = s] \in Invoices /\ [i EXCEPT !.status = s].refunded = i.refunded
  BY DEF Invoices

LEMMA OpenInvoiceInv ==
    ASSUME Inv, LedgerAssumption, NEW w \in Workers, OpenInvoice(w)
    PROVE  Inv'
  <1> DEFINE c == tx[w].charge
             s == IF invoice[c].status # "none" THEN invoice[c].status
                  ELSE IF tx[w].event.type = "invoice.paid" THEN "PAID" ELSE "PENDING"
  <1>1. tx[w] \in Transactions
    BY RunningFacts DEF OpenInvoice
  <1>2. c \in Charges /\ tx[w].event \in Events
    BY <1>1 DEF Transactions
  <1>3. /\ invoice' = [invoice EXCEPT ![c] = [invoice[c] EXCEPT !.status = s]]
        /\ tx' = [tx EXCEPT ![w] = Idle]
        /\ UNCHANGED <<refund, payout, applied>>
        /\ handled' = handled \union {tx[w].event}
    BY <1>2 DEF OpenInvoice, Inv, TypeOK
  <1>4. invoice \in [Charges -> Invoices] /\ s \in InvoiceStatuses
    BY <1>2 DEF Inv, TypeOK, Invoices, InvoiceStatuses
  <1> HIDE DEF s
  <1>5. [invoice[c] EXCEPT !.status = s] \in Invoices
        /\ [invoice[c] EXCEPT !.status = s].refunded = invoice[c].refunded
    <2>1. invoice[c] \in Invoices
      BY <1>2, <1>4
    <2> QED
      BY <2>1, <1>4, StatusWrite
  <1>6. invoice' \in [Charges -> Invoices] /\ \A d \in Charges : invoice'[d].refunded = invoice[d].refunded
    BY <1>2, <1>3, <1>4, <1>5
  <1>7. handled' \subseteq Events /\ payout' \subseteq Charges
    BY <1>2, <1>3 DEF Inv, TypeOK
  <1> QED
    BY <1>3, <1>6, <1>7, EndStep

LEMMA CommitInv ==
    ASSUME Inv, LedgerAssumption, NEW w \in Workers, Commit(w)
    PROVE  Inv'
  <1> DEFINE t == tx[w]
             written == [status |-> t.status, refunded |-> invoice[t.charge].refunded + t.added]
  <1>1. /\ t \in Transactions
        /\ WellFormed(t)
        /\ invoice[t.charge].refunded + t.added <= PriceOf[t.charge]
        /\ HasRowLock(t) => \A v \in Workers \ {w} : tx[v].charge = t.charge => ~HasRowLock(tx[v])
        /\ \A q \in Refunds : t.made[q] # "none" =>
              refund[q] = "none" /\ \A v \in Workers \ {w} : tx[v].made[q] = "none"
    BY RunningFacts DEF Commit
  <1>2. /\ tx \in [Workers -> Transactions \union {Idle}]
        /\ tx' = [tx EXCEPT ![w] = Idle]
        /\ refund' = [r \in Refunds |-> IF t.made[r] # "none" THEN t.made[r] ELSE refund[r]]
        /\ applied' = [r \in Refunds |-> IF r \in t.took THEN applied[r] + 1 ELSE applied[r]]
    BY DEF Commit, Inv, TypeOK
  <1>3. /\ tx'[w] = Idle
        /\ \A v \in Workers \ {w} : tx'[v] = tx[v]
    BY <1>2
  <1>4. t.charge \in Charges /\ t.added \in Nat /\ t.event \in Events
    BY <1>1 DEF Transactions
  <1>5. invoice \in [Charges -> Invoices]
    BY DEF Inv, TypeOK
  <1>6. written \in Invoices
    BY <1>1, <1>4, <1>5 DEF Transactions, Invoices
  <1>7. /\ invoice' \in [Charges -> Invoices]
        /\ \A c \in Charges \ {t.charge} : invoice'[c] = invoice[c]
        /\ invoice'[t.charge].refunded = invoice[t.charge].refunded + t.added
    <2>1. CASE HasRowLock(t)
      <3>1. invoice' = [invoice EXCEPT ![t.charge] = written]
        BY <2>1, <1>4, <1>5 DEF Commit
      <3> QED
        BY <3>1, <1>4, <1>5, <1>6
    <2>2. CASE ~HasRowLock(t)
      <3>1. invoice' = invoice /\ t.added = 0
        BY <2>2, <1>1 DEF Commit, HasRowLock, WellFormed
      <3>2. invoice[t.charge].refunded \in Nat
        BY <1>4, <1>5 DEF Invoices
      <3> QED
        BY <3>1, <3>2, <1>5
    <2> QED
      BY <2>1, <2>2
  <1>8. TypeOK'
    <2>1. handled' \subseteq Events /\ payout' \subseteq Charges
      BY <1>4 DEF Commit, Inv, TypeOK
    <2>2. refund' \in [Refunds -> RefundStatuses]
      BY <1>1, <1>2 DEF Inv, TypeOK, Transactions
    <2>3. applied' \in [Refunds -> Nat]
      BY <1>2 DEF Inv, TypeOK
    <2>4. tx' \in [Workers -> Transactions \union {Idle}]
      BY <1>2
    <2> QED
      BY <2>1, <2>2, <2>3, <2>4, <1>7 DEF TypeOK
  <1>9. TxInv'
    <2>1. WellFormed(Idle)
      BY IdleFacts DEF WellFormed
    <2> SUFFICES ASSUME NEW v \in Workers PROVE WellFormed(tx'[v])
      BY DEF TxInv, WellFormed
    <2> QED
      BY <2>1, <1>3 DEF Inv, TxInv
  <1>10. LockInv'
    <2>1. ~HasRowLock(tx'[w])
      BY <1>3, IdleFacts DEF HasRowLock
    <2>2. \A v \in Workers \ {w} : HasRowLock(tx'[v]) <=> HasRowLock(tx[v])
      BY <1>3 DEF HasRowLock
    <2> SUFFICES ASSUME NEW v1 \in Workers, NEW v2 \in Workers, v1 # v2,
                        tx'[v1].charge = tx'[v2].charge, HasRowLock(tx'[v1]), HasRowLock(tx'[v2])
                 PROVE  FALSE
      BY DEF LockInv, HasRowLock
    <2>3. v1 # w /\ v2 # w
      BY <2>1
    <2> QED
      BY <2>2, <2>3, <1>3 DEF Inv, LockInv
  <1>11. RefundWithinPrice'
    BY <1>1, <1>7 DEF Inv, RefundWithinPrice
  <1>12. BoundInv'
    <2> SUFFICES ASSUME NEW v \in Workers, tx'[v] # Idle
                 PROVE  invoice'[tx'[v].charge].refunded + tx'[v].added <= PriceOf[tx'[v].charge]
      BY DEF BoundInv
    <2>1. v # w /\ tx'[v] = tx[v] /\ tx[v] # Idle
      BY <1>3
    <2>2. tx[v] \in Transactions
      BY <2>1, <1>2
    <2>3. tx[v].charge \in Charges
      BY <2>2 DEF Transactions
    <2>4. CASE tx[v].charge # t.charge
      BY <2>1, <2>3, <2>4, <1>7 DEF Inv, BoundInv
    <2>5. CASE tx[v].charge = t.charge /\ HasRowLock(t)
      \* v does not hold the lock, so it has added nothing
      <3>1. tx[v].added = 0
        BY <2>1, <2>5, <1>1 DEF Inv, TxInv, WellFormed, HasRowLock
      <3>2. invoice'[t.charge].refunded \in Nat
        BY <1>4, <1>7 DEF Invoices
      <3> QED
        BY <3>1, <3>2, <2>1, <2>5, <1>1, <1>7
    <2>6. CASE tx[v].charge = t.charge /\ ~HasRowLock(t)
      <3>1. t.added = 0
        BY <2>6, <1>1 DEF HasRowLock, WellFormed
      <3>2. invoice[t.charge].refunded \in Nat
        BY <1>4, <1>5 DEF Invoices
      <3> QED
        BY <3>1, <3>2, <2>1, <2>6, <1>7 DEF Inv, BoundInv
    <2> QED
      BY <2>4, <2>5, <2>6
  <1>13. UniqueInv'
    <2> SUFFICES ASSUME NEW v \in Workers, NEW r \in Refunds, tx'[v].made[r] # "none"
                 PROVE  refund'[r] = "none" /\ \A u \in Workers : u # v => tx'[u].made[r] = "none"
      BY DEF UniqueInv
    <2>1. v # w /\ tx[v].made[r] # "none"
      BY <1>3, IdleFacts
    <2>2. refund[r] = "none" /\ \A u \in Workers : u # v => tx[u].made[r] = "none"
      BY <2>1 DEF Inv, UniqueInv
    <2>3. refund'[r] = "none"
      BY <2>1, <2>2, <1>2
    <2> QED
      BY <2>2, <2>3, <1>3, IdleFacts
  <1>14. ProcessedIsApplied'
    <2> SUFFICES ASSUME NEW r \in Refunds, refund'[r] = "PROCESSED" PROVE applied'[r] >= 1
      BY DEF ProcessedIsApplied
    <2>1. applied[r] \in Nat
      BY DEF Inv, TypeOK
    <2>2. CASE t.made[r] # "none"
      BY <2>1, <2>2, <1>1, <1>2 DEF WellFormed
    <2>3. CASE t.made[r] = "none"
      BY <2>1, <2>3, <1>2 DEF Inv, ProcessedIsApplied
    <2> QED
      BY <2>2, <2>3
  <1> QED
    BY <1>8, <1>9, <1>10, <1>11, <1>12, <1>13, <1>14 DEF Inv

-----------------------------------------------------------------------------
(* The theorems *)

LEMMA InitInv ==
    ASSUME LedgerAssumption, Init
    PROVE  Inv
  <1>1. TypeOK
    BY IdleFacts DEF Init, TypeOK, Invoices, InvoiceStatuses
  <1>2. \A w \in Workers : tx[w] = Idle
    BY DEF Init
  <1>3. TxInv /\ LockInv /\ BoundInv /\ UniqueInv
    BY <1>2, IdleFacts DEF TxInv, WellFormed, LockInv, HasRowLock, BoundInv, UniqueInv
  <1>4. RefundWithinPrice /\ ProcessedIsApplied
    BY DEF Init, RefundWithinPrice, ProcessedIsApplied, LedgerAssumption, NoRows
  <1> QED
    BY <1>1, <1>3, <1>4 DEF Inv

LEMMA NextInv ==
    ASSUME Inv, LedgerAssumption, [Next]_vars
    PROVE  Inv'
  <1>1. ASSUME NEW w \in Workers, NEW e \in Events, Start(w, e) PROVE Inv'
    BY <1>1, StartInv
  <1>2. ASSUME NEW w \in Workers, Step(w) PROVE Inv'
    <2>1. CASE OpenInvoice(w)
      BY <2>1, OpenInvoiceInv
    <2>2. CASE ReadInvoice(w) \/ Settle(w)
      BY <2>2, PaymentInv
    <2>3. CASE Known(w)
      <3>1. tx' = [tx EXCEPT ![w] = NextRefund(tx[w])]
        BY <2>3 DEF Known, Inv, TypeOK
      <3> QED
        BY <3>1, <2>3, SkipInv DEF Known
    <2>4. CASE Resolve(w)
      BY <2>4, ResolveInv
    <2>5. CASE Apply(w)
      BY <2>5, ApplyInv
    <2>6. CASE Reject(w)
      BY <2>6, RejectInv
    <2>7. CASE Create(w)
      BY <2>7, CreateInv
    <2>8. CASE Insert(w)
      BY <2>8, InsertInv
    <2>9. CASE InsertConflicts(w)
      BY <2>9, InsertConflictsInv
    <2>10. CASE Commit(w)
      BY <2>10, CommitInv
    <2>11. CASE Abort(w)
      BY <2>11, AbortInv
    <2> QED
      BY <1>2, <2>1, <2>2, <2>3, <2>4, <2>5, <2>6, <2>7, <2>8, <2>9, <2>10, <2>11 DEF Step
  <1>3. CASE UNCHANGED vars
    BY <1>3 DEF vars, Inv, TypeOK, TxInv, WellFormed, LockInv, HasRowLock, BoundInv, UniqueInv,
                RefundWithinPrice, ProcessedIsApplied
  <1> QED
    BY <1>1, <1>2, <1>3 DEF Next

\* The invariant of the ledger.
THEOREM LedgerInvariant == Spec => []Inv
  <1>1. Init => Inv
    BY InitInv, LedgerAssumption
  <1>2. Inv /\ [Next]_vars => Inv'
    BY NextInv, LedgerAssumption
  <1> QED
    BY <1>1, <1>2, PTL DEF Spec

\* Type correctness of the ledger.
THEOREM TypeCorrect == Spec => []TypeOK
  <1>1. Inv => TypeOK
    BY DEF Inv
  <1> QED
    BY <1>1, LedgerInvariant, PTL

\* Whatever refunds arrive, in whatever order and however their transactions
\* interleave, apply_to_invoice never takes more off an invoice than its amount.
THEOREM RefundBounded == Spec => []RefundWithinPrice
  <1>1. Inv => RefundWithinPrice
    BY DEF Inv
  <1> QED
    BY <1>1, LedgerInvariant, PTL

\* A refund recorded PROCESSED has been applied: the rollback in create never
\* leaves the row of a refund whose amount it has undone.
THEOREM ProcessedApplied == Spec => []ProcessedIsApplied
  <1>1. Inv => ProcessedIsApplied
    BY DEF Inv
  <1> QED
    BY <1>1, LedgerInvariant, PTL

\* A recorded refund keeps its status: the lookups and the unique constraint
\* of refund_id leave no way to write it twice.
THEOREM RefundsKeepStatus == Spec => RefundsAreAppendOnly
  <1>1. ASSUME Inv, [Next]_vars
        PROVE  [\A r \in Refunds : refund[r] # "none" => refund'[r] = refund[r]]_vars
    <2> SUFFICES ASSUME NEW r \in Refunds, refund[r] # "none" PROVE refund'[r] = refund[r]
      OBVIOUS
    <2>1. CASE \E w \in Workers : Commit(w)
      <3>1. PICK w \in Workers : Commit(w)
        BY <2>1
      <3>2. tx[w].made[r] = "none"
        BY <1>1 DEF Inv, UniqueInv
      <3> QED
        BY <3>1, <3>2 DEF Commit
    <2>2. CASE UNCHANGED refund
      BY <2>2
    <2>3. (\E w \in Workers : Commit(w)) \/ UNCHANGED refund
      BY <1>1 DEF Next, Step, Start, OpenInvoice, ReadInvoice, Settle, Known, Resolve, Apply, Reject,
                  Create, Insert, InsertConflicts, Abort, vars
    <2> QED
      BY <2>1, <2>2, <2>3
  <1> QED
    BY <1>1, LedgerInvariant, PTL DEF Spec, RefundsAreAppendOnly

-----------------------------------------------------------------------------
(* The ledger implements RefundAccounts                                      *)

\* A transaction works on refunds of its charge.
Mine(t) ==
    /\ \A i \in 1 .. Len(t.todo) : ChargeOf[t.todo[i]] = t.charge
    /\ \A r \in Refunds : t.made[r] # "none" => ChargeOf[r] = t.charge

\* The refund that is about to be recorded.
Pending(t) ==
    IF t.step \in {"create", "insert"} /\ t.result = "PROCESSED" THEN {Head(t.todo)} ELSE {}

Accepted(t) == {r \in Refunds : t.made[r] = "PROCESSED"}

\* A transaction that is alone on its charge: it has taken what it has recorded as
\* PROCESSED, or is about to, and nothing else, and added the sum of it.
Exact(t) ==
    /\ t.step \in {"apply", "create", "insert"} =>
          refund[Head(t.todo)] = "none" /\ t.made[Head(t.todo)] = "none"
    /\ IsFiniteSet(t.took) /\ t.took = Accepted(t) \union Pending(t)
    /\ t.added = SumFunctionOnSet(AmountOf, t.took)

\* Transactions on a charge of Serial do not overlap.
Sole == \A v, w \in Workers : v # w /\ tx[v].charge = tx[w].charge => tx[v].charge \notin Serial

ExactInv ==
    /\ Sole
    /\ \A w \in Workers : Mine(tx[w]) /\ (tx[w].charge \in Serial => Exact(tx[w]))

\* A step of w that records nothing.
LEMMA TxMoves ==
    ASSUME Inv, ExactInv, NEW w \in Workers, NEW n, tx' = [tx EXCEPT ![w] = n], UNCHANGED refund,
           n.charge \in {tx[w].charge, NoCharge}, Mine(n), n.charge \in Serial => Exact(n)
    PROVE  ExactInv'
  <1>1. tx'[w] = n /\ \A v \in Workers : v # w => tx'[v] = tx[v]
    BY DEF Inv, TypeOK
  <1>2. NoCharge \notin Serial
    BY LedgerAssumption DEF LedgerAssumption
  <1>3. Sole'
    BY <1>1, <1>2 DEF ExactInv, Sole
  <1>4. \A v \in Workers : Mine(tx[v])'
    BY <1>1 DEF ExactInv, Mine
  <1>5. ASSUME NEW v \in Workers, (tx[v].charge \in Serial)' PROVE Exact(tx[v])'
    <2> PICK t : t = IF v = w THEN n ELSE tx[v]
      OBVIOUS
    <2>1. Exact(t) /\ tx'[v] = t
      BY <1>1, <1>2, <1>5 DEF ExactInv
    <2> QED
      BY <2>1 DEF Exact, Accepted, Pending
  <1> QED
    BY <1>3, <1>4, <1>5 DEF ExactInv

LEMMA IdleExact == Mine(Idle) /\ Idle.charge = NoCharge
  BY IdleFacts DEF Mine

LEMMA StartExact ==
    ASSUME Inv, ExactInv, NEW w \in Workers, NEW e \in Events, Start(w, e)
    PROVE  ExactInv'
  <1> DEFINE n == Begin(e)
  <1>1. /\ n \in Transactions /\ n.step \in {"open", "read", "lookup"} /\ n.charge = e.charge
        /\ n.added = 0 /\ n.made = NoRows /\ n.took = {}
    BY BeginFacts, LedgerAssumption
  <1>2. n.todo = e.refunds
    BY DEF Begin, Idle
  <1>3. tx' = [tx EXCEPT ![w] = n] /\ UNCHANGED refund
        /\ (n.charge \in Serial => \A v \in Workers : tx[v].charge # n.charge)
    BY <1>1 DEF Start
  <1> HIDE DEF n
  <1>4. Mine(n)
    BY <1>1, <1>2, IdleFacts, LedgerAssumption DEF LedgerAssumption, Mine
  <1>5. Exact(n)
    BY <1>1, IdleFacts, SumEmpty, FS_EmptySet DEF Exact, Accepted, Pending
  <1>6. tx'[w] = n /\ \A v \in Workers : v # w => tx'[v] = tx[v]
    BY <1>3 DEF Inv, TypeOK
  <1>7. Sole'
    BY <1>3, <1>6 DEF ExactInv, Sole
  <1>8. \A v \in Workers : Mine(tx[v])'
    BY <1>4, <1>6 DEF ExactInv, Mine
  <1>9. ASSUME NEW v \in Workers, (tx[v].charge \in Serial)' PROVE Exact(tx[v])'
    <2> PICK t : t = IF v = w THEN n ELSE tx[v]
      OBVIOUS
    <2>1. Exact(t) /\ tx'[v] = t
      BY <1>5, <1>6, <1>9 DEF ExactInv
    <2> QED
      BY <1>3, <2>1 DEF Exact, Accepted, Pending
  <1> QED
    BY <1>7, <1>8, <1>9 DEF ExactInv

LEMMA EndExact ==
    ASSUME Inv, ExactInv, NEW w \in Workers, OpenInvoice(w) \/ Abort(w)
    PROVE  ExactInv'
  <1>1. tx' = [tx EXCEPT ![w] = Idle] /\ UNCHANGED refund /\ NoCharge \notin Serial
    BY LedgerAssumption DEF OpenInvoice, Abort, LedgerAssumption
  <1> QED
    BY <1>1, IdleExact, TxMoves

\* The transaction of w goes on, with the same refunds recorded and taken.
LEMMA GoesOn ==
    ASSUME Inv, ExactInv, NEW w \in Workers, NEW t, t = tx[w], NEW n, tx' = [tx EXCEPT ![w] = n],
           UNCHANGED refund, n.charge = t.charge, n.todo = t.todo \/ (t.todo # <<>> /\ n.todo = Tail(t.todo)),
           t \in Transactions, n.made = t.made, n.took = t.took, n.added = t.added,
           t.charge \in Serial => Pending(n) = Pending(t),
           t.charge \in Serial /\ n.step \in {"apply", "create", "insert"} =>
               refund[Head(n.todo)] = "none" /\ n.made[Head(n.todo)] = "none"
    PROVE  ExactInv'
  <1>1. Mine(t) /\ (t.charge \in Serial => Exact(t)) /\ t.todo \in Seq(Refunds)
    BY DEF ExactInv, Transactions
  <1>2. \A i \in 1 .. Len(n.todo) : ChargeOf[n.todo[i]] = t.charge
    <2>1. CASE n.todo = t.todo
      BY <1>1, <2>1 DEF Mine
    <2>2. CASE t.todo # <<>> /\ n.todo = Tail(t.todo)
      <3>1. Len(n.todo) = Len(t.todo) - 1 /\ \A i \in 1 .. Len(n.todo) : n.todo[i] = t.todo[i + 1]
        BY <1>1, <2>2
      <3>2. Len(t.todo) \in Nat
        BY <1>1
      <3> QED
        BY <1>1, <3>1, <3>2 DEF Mine
    <2> QED
      BY <2>1, <2>2
  <1>3. Mine(n)
    BY <1>1, <1>2 DEF Mine
  <1>4. n.charge \in Serial => Exact(n)
    BY <1>1 DEF Exact, Accepted
  <1> QED
    BY <1>3, <1>4, TxMoves

LEMMA Running ==
    ASSUME Inv, NEW w \in Workers, tx[w].step # "idle"
    PROVE  /\ tx[w] \in Transactions /\ tx \in [Workers -> Transactions \union {Idle}]
           /\ tx[w].step \in {"apply", "create", "insert"} => tx[w].todo # <<>>
  BY RunningFacts DEF Inv, TypeOK, WellFormed

LEMMA PaymentExact ==
    ASSUME Inv, ExactInv, NEW w \in Workers, ReadInvoice(w) \/ Settle(w)
    PROVE  ExactInv'
  <1> PICK t : t = tx[w]
    OBVIOUS
  <1> PICK step : step = IF invoice[t.charge].status \in {"none", "PAID"} THEN "lookup" ELSE "settle"
    OBVIOUS
  <1>1. t \in Transactions /\ t.step \in {"read", "settle"} /\ tx \in [Workers -> Transactions \union {Idle}]
    BY Running DEF ReadInvoice, Settle
  <1>2. PICK n : /\ tx' = [tx EXCEPT ![w] = n]
                 /\ n \in {[t EXCEPT !.step = step], [t EXCEPT !.step = "lookup", !.status = "PAID"]}
    BY <1>1 DEF ReadInvoice, Settle
  <1>3. /\ n.charge = t.charge /\ n.todo = t.todo /\ n.made = t.made /\ n.took = t.took
        /\ n.added = t.added /\ n.step \in {"lookup", "settle"}
    BY <1>1, <1>2 DEF Transactions
  <1>4. Pending(n) = Pending(t) /\ UNCHANGED refund /\ n.step \notin {"apply", "create", "insert"}
    BY <1>1, <1>3 DEF Pending, ReadInvoice, Settle
  <1>5. tx' = [tx EXCEPT ![w] = n]
    BY <1>2
  <1> QED
    BY <1>1, <1>3, <1>4, <1>5, GoesOn

LEMMA KnownExact ==
    ASSUME Inv, ExactInv, NEW w \in Workers, Known(w)
    PROVE  ExactInv'
  <1> PICK t : t = tx[w]
    OBVIOUS
  <1> PICK n : n = NextRefund(t)
    OBVIOUS
  <1>1. t \in Transactions /\ t.step = "lookup" /\ t.todo # <<>> /\ UNCHANGED refund
        /\ tx' = [tx EXCEPT ![w] = n]
    BY Running DEF Known
  <1>2. /\ n.charge = t.charge /\ n.todo = Tail(t.todo) /\ n.made = t.made /\ n.took = t.took
        /\ n.added = t.added /\ n.step = "lookup"
    BY <1>1, NextRefundFacts
  <1>3. Pending(n) = Pending(t)
    BY <1>1, <1>2 DEF Pending
  <1> QED
    BY <1>1, <1>2, <1>3, GoesOn

LEMMA ResolveExact ==
    ASSUME Inv, ExactInv, NEW w \in Workers, Resolve(w)
    PROVE  ExactInv'
  <1> PICK t : t = tx[w]
    OBVIOUS
  <1>1. /\ t \in Transactions /\ tx \in [Workers -> Transactions \union {Idle}]
        /\ t.step = "lookup" /\ t.todo # <<>>
        /\ UNCHANGED refund
        /\ refund[Head(t.todo)] = "none" /\ t.made[Head(t.todo)] = "none"
    BY Running DEF Resolve, AlreadyProcessed, SeesRefund
  <1>2. PICK n : /\ tx' = [tx EXCEPT ![w] = n]
                 /\ n \in {[t EXCEPT !.step = "create", !.result = "PENDING_REVIEW"],
                           [t EXCEPT !.step = "apply"]}
    BY <1>1 DEF Resolve
  <1>3. /\ n.charge = t.charge /\ n.todo = t.todo /\ n.made = t.made /\ n.took = t.took
        /\ n.added = t.added /\ (n.step = "apply" \/ n.result = "PENDING_REVIEW")
    BY <1>1, <1>2 DEF Transactions
  <1>4. Pending(n) = Pending(t)
    BY <1>1, <1>3 DEF Pending
  <1>5. refund[Head(n.todo)] = "none" /\ n.made[Head(n.todo)] = "none" /\ tx' = [tx EXCEPT ![w] = n]
    BY <1>1, <1>2, <1>3
  <1> QED
    BY <1>1, <1>3, <1>4, <1>5, GoesOn

LEMMA RejectExact ==
    ASSUME Inv, ExactInv, NEW w \in Workers, Reject(w)
    PROVE  ExactInv'
  <1> PICK t : t = tx[w]
    OBVIOUS
  <1>1. PICK n : n = [t EXCEPT !.step = "create", !.result = "REJECTED"]
    OBVIOUS
  <1>2. t \in Transactions /\ tx \in [Workers -> Transactions \union {Idle}] /\ t.step = "apply"
        /\ UNCHANGED refund
    BY Running DEF Reject
  <1>3. tx' = [tx EXCEPT ![w] = n]
    BY <1>1, <1>2 DEF Reject
  <1>4. /\ n.charge = t.charge /\ n.todo = t.todo /\ n.made = t.made /\ n.took = t.took
        /\ n.added = t.added /\ n.result = "REJECTED"
    BY <1>1, <1>2 DEF Transactions
  <1>5. Pending(n) = Pending(t)
    BY <1>2, <1>4 DEF Pending
  <1>6. t.charge \in Serial => refund[Head(n.todo)] = "none" /\ n.made[Head(n.todo)] = "none"
    BY <1>2, <1>4 DEF ExactInv, Exact
  <1> QED
    BY <1>2, <1>3, <1>4, <1>5, <1>6, GoesOn

LEMMA ApplyExact ==
    ASSUME Inv, ExactInv, NEW w \in Workers, Apply(w)
    PROVE  ExactInv'
  <1> PICK t : t = tx[w]
    OBVIOUS
  <1> PICK r : r = Head(t.todo)
    OBVIOUS
  <1> PICK total, taken : total = t.added + AmountOf[r] /\ taken = t.took \union {r}
    OBVIOUS
  <1> PICK n : n = [t EXCEPT !.step = "create", !.result = "PROCESSED", !.status = "REFUNDED",
                             !.added = total, !.took = taken]
    OBVIOUS
  <1>1. t \in Transactions /\ tx \in [Workers -> Transactions \union {Idle}] /\ t.step = "apply"
        /\ t.todo # <<>> /\ UNCHANGED refund
    BY Running DEF Apply
  <1>2. tx' = [tx EXCEPT ![w] = n]
    BY <1>1 DEF Apply, Transactions
  <1>3. /\ n.charge = t.charge /\ n.todo = t.todo /\ n.made = t.made /\ n.took = taken
        /\ n.added = total /\ n.step = "create" /\ n.result = "PROCESSED"
    BY <1>1 DEF Transactions
  <1>4. r \in Refunds /\ t.took \subseteq Refunds
    BY <1>1, TailType DEF Transactions
  <1>5. Mine(n)
    BY <1>3 DEF Mine, ExactInv
  <1>6. ASSUME t.charge \in Serial PROVE Exact(n)
    <2>1. Exact(t) /\ Pending(t) = {} /\ Pending(n) = {r} /\ Accepted(n) = Accepted(t)
      BY <1>1, <1>3, <1>6 DEF ExactInv, Pending, Accepted
    <2>2. refund[r] = "none" /\ t.made[r] = "none" /\ IsFiniteSet(t.took)
          /\ t.took = Accepted(t) /\ t.added = SumFunctionOnSet(AmountOf, t.took)
      BY <1>1, <2>1 DEF Exact
    <2>3. r \notin t.took
      BY <2>2 DEF Accepted
    <2>4. IsFiniteSet(taken)
      BY <2>2, FS_AddElement
    <2>5. \A y \in t.took \union {r} : AmountOf[y] \in Int
      BY <1>4, LedgerAssumption DEF LedgerAssumption
    <2>6. SumFunctionOnSet(AmountOf, taken) = AmountOf[r] + SumFunctionOnSet(AmountOf, t.took)
      BY <2>2, <2>3, <2>5, SumAdd
    <2>7. SumFunctionOnSet(AmountOf, t.took) \in Int
      BY <2>2, <2>5, SumType
    <2>8. total = SumFunctionOnSet(AmountOf, taken)
      BY <1>4, <2>2, <2>5, <2>6, <2>7
    <2> QED
      BY <1>3, <2>1, <2>2, <2>4, <2>8 DEF Exact
  <1> QED
    BY <1>1, <1>2, <1>3, <1>5, <1>6, TxMoves

LEMMA CreateExact ==
    ASSUME Inv, ExactInv, NEW w \in Workers, Create(w)
    PROVE  ExactInv'
  <1>1. PICK t : t = tx[w]
    OBVIOUS
  <1>2. /\ t \in Transactions /\ tx \in [Workers -> Transactions \union {Idle}]
        /\ t.step = "create" /\ t.todo # <<>> /\ UNCHANGED refund
    BY <1>1, Running DEF Create
  <1>3. t.charge \in Serial => refund[Head(t.todo)] = "none" /\ t.made[Head(t.todo)] = "none"
    BY <1>1, <1>2 DEF ExactInv, Exact
  <1>4. CASE SeesRefund(w, Head(t.todo))
    <2>1. PICK n : n = NextRefund(t)
      OBVIOUS
    <2>2. tx' = [tx EXCEPT ![w] = n]
      BY <1>1, <1>2, <1>4, <2>1 DEF Create
    <2>3. t.charge \notin Serial
      BY <1>1, <1>3, <1>4 DEF SeesRefund
    <2>4. /\ n.charge = t.charge /\ n.todo = Tail(t.todo) /\ n.made = t.made /\ n.took = t.took
          /\ n.added = t.added
      BY <1>2, <2>1, NextRefundFacts
    <2> QED
      BY <1>1, <1>2, <2>2, <2>3, <2>4, GoesOn
  <1>5. CASE ~SeesRefund(w, Head(t.todo))
    <2>1. PICK n : n = [t EXCEPT !.step = "insert"]
      OBVIOUS
    <2>2. tx' = [tx EXCEPT ![w] = n]
      BY <1>1, <1>2, <1>5, <2>1 DEF Create
    <2>3. /\ n.charge = t.charge /\ n.todo = t.todo /\ n.made = t.made /\ n.took = t.took
          /\ n.added = t.added /\ n.step = "insert" /\ n.result = t.result
      BY <1>2, <2>1 DEF Transactions
    <2>4. Pending(n) = Pending(t)
      BY <1>2, <2>3 DEF Pending
    <2>5. t.charge \in Serial /\ n.step \in {"apply", "create", "insert"} =>
             refund[Head(n.todo)] = "none" /\ n.made[Head(n.todo)] = "none"
      BY <1>3, <2>3
    <2> QED
      BY <1>1, <1>2, <2>2, <2>3, <2>4, <2>5, GoesOn
  <1> QED
    BY <1>4, <1>5

LEMMA TailFacts ==
    ASSUME NEW s \in Seq(Refunds), s # <<>>
    PROVE  /\ Len(Tail(s)) = Len(s) - 1
           /\ \A i \in 1 .. Len(Tail(s)) : Tail(s)[i] = s[i + 1]
  OBVIOUS

LEMMA InsertExact ==
    ASSUME Inv, ExactInv, NEW w \in Workers, Insert(w)
    PROVE  ExactInv'
  <1>1. PICK t : t = tx[w]
    OBVIOUS
  <1>2. PICK r : r = Head(t.todo)
    OBVIOUS
  <1>3. PICK next : next = NextRefund(t)
    OBVIOUS
  <1>4. PICK made : made = [t.made EXCEPT ![r] = t.result]
    OBVIOUS
  <1>5. PICK n : n = [next EXCEPT !.made = made]
    OBVIOUS
  <1>6. /\ t \in Transactions /\ tx \in [Workers -> Transactions \union {Idle}]
        /\ t.step = "insert" /\ t.todo # <<>> /\ UNCHANGED refund
    BY <1>1, Running DEF Insert
  <1>7. /\ next \in Transactions /\ next.step = "lookup" /\ next.charge = t.charge
        /\ next.todo = Tail(t.todo) /\ next.added = t.added /\ next.made = t.made /\ next.took = t.took
    BY <1>3, <1>6, NextRefundFacts
  <1>8. tx' = [tx EXCEPT ![w] = n]
    <2>1. tx' = [tx EXCEPT ![w] = [next EXCEPT !.made[r] = t.result]]
      BY <1>1, <1>2, <1>3, <1>6 DEF Insert
    <2>2. [next EXCEPT !.made[r] = t.result] = n
      BY <1>4, <1>5, <1>7 DEF Transactions
    <2> QED
      BY <2>1, <2>2
  <1>9. r \in Refunds /\ t.todo \in Seq(Refunds) /\ t.took \subseteq Refunds
    BY <1>2, <1>6, TailType DEF Transactions
  <1>10. made[r] = t.result /\ \A q \in Refunds : q # r => made[q] = t.made[q]
    BY <1>4, <1>6, <1>9 DEF Transactions
  <1>11. /\ n.step = "lookup" /\ n.charge = t.charge /\ n.todo = Tail(t.todo) /\ n.added = t.added
         /\ n.made = made /\ n.took = t.took
    BY <1>5, <1>7 DEF Transactions
  <1>12. Mine(t) /\ (t.charge \in Serial => Exact(t))
    BY <1>1 DEF ExactInv
  <1>13. Mine(n)
    <2>1. Len(n.todo) = Len(t.todo) - 1 /\ (\A i \in 1 .. Len(n.todo) : n.todo[i] = t.todo[i + 1])
      BY <1>6, <1>9, <1>11, TailFacts
    <2>2. Len(t.todo) \in Nat /\ r = t.todo[1] /\ Len(t.todo) >= 1
      BY <1>2, <1>6, <1>9
    <2>3. \A i \in 1 .. Len(n.todo) : ChargeOf[n.todo[i]] = n.charge
      BY <1>11, <1>12, <2>1, <2>2 DEF Mine
    <2>4. ChargeOf[r] = t.charge
      BY <1>12, <2>2 DEF Mine
    <2> QED
      BY <1>10, <1>11, <1>12, <2>3, <2>4 DEF Mine
  <1>14. ASSUME t.charge \in Serial PROVE Exact(n)
    <2>1. /\ t.made[r] = "none" /\ IsFiniteSet(t.took) /\ t.took = Accepted(t) \union Pending(t)
          /\ t.added = SumFunctionOnSet(AmountOf, t.took)
      BY <1>2, <1>6, <1>12, <1>14 DEF Exact
    <2>2. Pending(n) = {} /\ Pending(t) = (IF t.result = "PROCESSED" THEN {r} ELSE {})
      BY <1>2, <1>6, <1>11 DEF Pending
    <2>3. Accepted(n) = Accepted(t) \union Pending(t)
      BY <1>9, <1>10, <1>11, <2>1, <2>2 DEF Accepted
    <2> QED
      BY <1>11, <2>1, <2>2, <2>3 DEF Exact
  <1> QED
    BY <1>1, <1>6, <1>8, <1>11, <1>13, <1>14, TxMoves

LEMMA InsertConflictsExact ==
    ASSUME Inv, ExactInv, NEW w \in Workers, InsertConflicts(w)
    PROVE  ExactInv'
  <1>1. PICK t : t = tx[w]
    OBVIOUS
  <1>2. PICK back : back = RolledBack(t)
    OBVIOUS
  <1>3. PICK n : n = NextRefund(back)
    OBVIOUS
  <1>4. /\ t \in Transactions /\ t.step = "insert" /\ t.todo # <<>> /\ UNCHANGED refund
        /\ refund[Head(t.todo)] # "none" /\ t.todo \in Seq(Refunds)
        /\ tx' = [tx EXCEPT ![w] = n]
    BY <1>1, <1>2, <1>3, Running DEF InsertConflicts, Duplicate, Transactions
  <1>5. t.charge \notin Serial /\ Mine(t)
    BY <1>1, <1>4 DEF ExactInv, Exact
  <1>6. back \in Transactions /\ back.charge = t.charge /\ back.todo = t.todo /\ back.made = NoRows
    BY <1>2, <1>4, RolledBackFacts
  <1>7. n.charge = t.charge /\ n.todo = Tail(t.todo) /\ n.made = NoRows
    BY <1>3, <1>4, <1>6, NextRefundFacts
  <1>8. Len(n.todo) = Len(t.todo) - 1 /\ (\A i \in 1 .. Len(n.todo) : n.todo[i] = t.todo[i + 1])
        /\ Len(t.todo) \in Nat
    BY <1>4, <1>7
  <1>9. Mine(n)
    BY <1>5, <1>7, <1>8, IdleFacts DEF Mine
  <1> QED
    BY <1>1, <1>4, <1>5, <1>7, <1>9, TxMoves

LEMMA CommitExact ==
    ASSUME Inv, ExactInv, NEW w \in Workers, Commit(w)
    PROVE  ExactInv'
  <1>1. PICK t : t = tx[w]
    OBVIOUS
  <1>2. /\ t \in Transactions /\ tx \in [Workers -> Transactions \union {Idle}]
        /\ tx' = [tx EXCEPT ![w] = Idle]
        /\ refund' = [r \in Refunds |-> IF t.made[r] # "none" THEN t.made[r] ELSE refund[r]]
    BY <1>1, Running DEF Commit
  <1>3. tx'[w] = Idle /\ \A v \in Workers : v # w => tx'[v] = tx[v]
    BY <1>2
  <1>4. NoCharge \notin Serial
    BY LedgerAssumption DEF LedgerAssumption
  <1>5. Sole' /\ \A v \in Workers : Mine(tx[v])'
    BY <1>3, <1>4, IdleExact DEF ExactInv, Sole, Mine
  <1>6. ASSUME NEW v \in Workers, (tx[v].charge \in Serial)' PROVE Exact(tx[v])'
    <2>1. PICK u : u = tx[v]
      OBVIOUS
    <2>2. v # w /\ tx'[v] = u /\ u.charge \in Serial
      BY <1>3, <1>4, <1>6, <2>1, IdleExact
    <2>3. Exact(u) /\ Mine(u) /\ Mine(t) /\ u.charge # t.charge
      BY <1>1, <2>1, <2>2 DEF ExactInv, Sole
    <2>4. ASSUME u.step \in {"apply", "create", "insert"} PROVE refund'[Head(u.todo)] = "none"
      <3>1. u.todo # <<>> /\ u.todo \in Seq(Refunds)
        BY <2>1, <2>4, Running DEF Transactions
      <3>2. Head(u.todo) \in Refunds /\ ChargeOf[Head(u.todo)] = u.charge
        BY <2>3, <3>1 DEF Mine
      <3>3. t.made[Head(u.todo)] = "none" /\ refund[Head(u.todo)] = "none"
        BY <2>3, <2>4, <3>2 DEF Mine, Exact
      <3> QED
        BY <1>2, <3>2, <3>3
    <2> QED
      BY <2>2, <2>3, <2>4 DEF Exact, Accepted, Pending
  <1> QED
    BY <1>5, <1>6 DEF ExactInv

LEMMA InitExact == Init => ExactInv
  BY IdleExact, LedgerAssumption DEF Init, ExactInv, Sole, LedgerAssumption

LEMMA NextExact ==
    ASSUME Inv, ExactInv, [Next]_vars
    PROVE  ExactInv'
  <1>1. ASSUME NEW w \in Workers, NEW e \in Events, Start(w, e) PROVE ExactInv'
    BY <1>1, StartExact
  <1>2. ASSUME NEW w \in Workers, Step(w) PROVE ExactInv'
    BY <1>2, EndExact, PaymentExact, KnownExact, ResolveExact, ApplyExact, RejectExact, CreateExact,
       InsertExact, InsertConflictsExact, CommitExact DEF Step
  <1>3. CASE UNCHANGED vars
    BY <1>3 DEF vars, ExactInv, Sole, Mine, Exact, Accepted, Pending
  <1> QED
    BY <1>1, <1>2, <1>3 DEF Next

-----------------------------------------------------------------------------
(* Every step of the ledger is one of RefundAccounts *)

\* What a step leaves alone for the charges of Serial.
LEMMA NothingDecided ==
    ASSUME \A r \in SerialRefunds : refund'[r] = refund[r],
           \A c \in Serial : invoice'[c].refunded = invoice[c].refunded
    PROVE  UNCHANGED Accounts!vars
  BY DEF Accounts!vars

\* The commit of a transaction: the invoice of its charge, and no other, loses what
\* the transaction has added.
LEMMA CommitCharges ==
    ASSUME Inv, NEW w \in Workers, Commit(w)
    PROVE  /\ \A c \in Charges : c # tx[w].charge => invoice'[c].refunded = invoice[c].refunded
           /\ invoice'[tx[w].charge].refunded = invoice[tx[w].charge].refunded + tx[w].added
  <1>1. PICK t : t = tx[w]
    OBVIOUS
  <1>2. t \in Transactions /\ t.charge \in Charges /\ WellFormed(t)
    BY <1>1, RunningFacts DEF Commit, Transactions
  <1>3. invoice \in [Charges -> Invoices]
    BY DEF Inv, TypeOK
  <1>4. CASE HasRowLock(t)
    <2>1. invoice' = [invoice EXCEPT ![t.charge] =
                        [status |-> t.status, refunded |-> invoice[t.charge].refunded + t.added]]
      BY <1>1, <1>4 DEF Commit
    <2> QED
      BY <1>1, <1>2, <1>3, <2>1
  <1>5. CASE ~HasRowLock(t)
    <2>1. invoice' = invoice /\ t.added = 0
      BY <1>1, <1>2, <1>5 DEF Commit, HasRowLock, WellFormed
    <2>2. invoice[t.charge].refunded \in Nat
      BY <1>2, <1>3 DEF Invoices
    <2> QED
      BY <1>1, <2>1, <2>2
  <1> QED
    BY <1>4, <1>5

\* The ledger and the accounts add up alike.
LEMMA SameTotal ==
    ASSUME NEW R
    PROVE  SumFunctionOnSet(AmountOf, R) = Accounts!Total(R)
  BY DEF Accounts!Total, SumFunctionOnSet, FoldFunctionOnSet, MapThenFoldSet,
         Accounts!SumFunctionOnSet, Accounts!FoldFunctionOnSet, Accounts!MapThenFoldSet

LEMMA CommitDecides ==
    ASSUME Inv, ExactInv, NEW w \in Workers, Commit(w)
    PROVE  [Accounts!Next]_(Accounts!vars)
  <1>1. PICK t : t = tx[w]
    OBVIOUS
  <1>2. PICK c : c = t.charge
    OBVIOUS
  <1>3. /\ t \in Transactions /\ c \in Charges /\ t.step = "lookup" /\ Mine(t)
        /\ t.made \in [Refunds -> RefundStatuses]
        /\ refund' = [r \in Refunds |-> IF t.made[r] # "none" THEN t.made[r] ELSE refund[r]]
    BY <1>1, <1>2, Running DEF Commit, ExactInv, Transactions
  <1>4. /\ \A d \in Charges : d # c => invoice'[d].refunded = invoice[d].refunded
        /\ invoice'[c].refunded = invoice[c].refunded + t.added
    BY <1>1, <1>2, CommitCharges
  <1>5. Serial \subseteq Charges
    BY LedgerAssumption DEF LedgerAssumption
  <1>6. CASE c \notin Serial
    <2>1. \A r \in SerialRefunds : refund'[r] = refund[r]
      BY <1>2, <1>3, <1>6 DEF Mine, SerialRefunds
    <2> QED
      BY <1>4, <1>5, <1>6, <2>1, NothingDecided
  <1>7. CASE c \in Serial
    <2> DEFINE accepted == {r \in SerialRefunds : t.made[r] = "PROCESSED"}
               rejected == {r \in SerialRefunds : t.made[r] = "REJECTED"}
               reviewed == {r \in SerialRefunds : t.made[r] = "PENDING_REVIEW"}
    <2>1. \A r \in Refunds : t.made[r] # "none" => refund[r] = "none" /\ ChargeOf[r] = c
      BY <1>1, <1>2, <1>3 DEF Inv, UniqueInv, Mine
    <2>2. /\ accepted \in SUBSET Accounts!Undecided(c) /\ rejected \in SUBSET Accounts!Undecided(c)
          /\ reviewed \in SUBSET Accounts!Undecided(c)
      BY <2>1 DEF Accounts!Undecided, SerialRefunds
    <2>3. t.added = Accounts!Total(accepted)
      <3>1. Exact(t)
        BY <1>1, <1>2, <1>7 DEF ExactInv
      <3>2. t.took = Accepted(t) /\ t.added = SumFunctionOnSet(AmountOf, t.took)
        BY <1>3, <3>1 DEF Exact, Pending
      <3>3. Accepted(t) = accepted
        BY <1>7, <2>1 DEF Accepted, SerialRefunds
      <3> QED
        BY <3>2, <3>3, SameTotal
    <2>4. invoice[c].refunded + t.added <= PriceOf[c]
      BY <1>1, <1>2, <1>3, IdleFacts DEF Inv, BoundInv
    <2>5. [r \in SerialRefunds |-> refund'[r]] =
             [r \in SerialRefunds |-> IF r \in accepted THEN "PROCESSED"
                                      ELSE IF r \in rejected THEN "REJECTED"
                                      ELSE IF r \in reviewed THEN "PENDING_REVIEW"
                                      ELSE [q \in SerialRefunds |-> refund[q]][r]]
      <3> SUFFICES ASSUME NEW r \in SerialRefunds
                   PROVE  refund'[r] = IF r \in accepted THEN "PROCESSED"
                                       ELSE IF r \in rejected THEN "REJECTED"
                                       ELSE IF r \in reviewed THEN "PENDING_REVIEW"
                                       ELSE refund[r]
        OBVIOUS
      <3>1. t.made[r] \in {"none", "PROCESSED", "REJECTED", "PENDING_REVIEW"} /\ r \in Refunds
        BY <1>3 DEF RefundStatuses, SerialRefunds
      <3> QED
        BY <1>3, <3>1
    <2>6. [d \in Serial |-> invoice'[d].refunded] =
             [[d \in Serial |-> invoice[d].refunded] EXCEPT ![c] = @ + t.added]
      BY <1>4, <1>5, <1>7
    <2>7. [d \in Serial |-> invoice[d].refunded][c] + Accounts!Total(accepted) <= PriceOf[c]
      BY <1>7, <2>3, <2>4
    <2>8. Accounts!Decide(c)
      <3> HIDE DEF accepted, rejected, reviewed
      <3>1. [d \in Serial |-> invoice'[d].refunded] =
               [[d \in Serial |-> invoice[d].refunded] EXCEPT ![c] = @ + Accounts!Total(accepted)]
        BY <2>3, <2>6
      <3> QED
        BY <2>2, <2>5, <2>7, <3>1, Zenon DEF Accounts!Decide
    <2> QED
      BY <1>7, <2>8 DEF Accounts!Next
  <1> QED
    BY <1>6, <1>7

LEMMA StepDecides ==
    ASSUME Inv, ExactInv, [Next]_vars
    PROVE  [Accounts!Next]_(Accounts!vars)
  <1>1. SerialRefunds \subseteq Refunds /\ Serial \subseteq Charges
    BY LedgerAssumption DEF LedgerAssumption, SerialRefunds
  <1>2. CASE \E w \in Workers : Commit(w)
    BY <1>2, CommitDecides
  <1>3. CASE \E w \in Workers : OpenInvoice(w)
    <2>1. PICK w \in Workers : OpenInvoice(w)
      BY <1>3
    <2>2. /\ \A c \in Charges : invoice'[c].refunded = invoice[c].refunded
          /\ UNCHANGED refund
      BY <2>1 DEF OpenInvoice, Inv, TypeOK, Invoices
    <2> QED
      BY <1>1, <2>2, NothingDecided
  <1>4. CASE UNCHANGED <<invoice, refund>>
    BY <1>4, NothingDecided
  <1> QED
    BY <1>2, <1>3, <1>4
       DEF Next, Step, Start, ReadInvoice, Settle, Known, Resolve, Apply, Reject, Create, Insert,
           InsertConflicts, Abort, vars

LEMMA InitDecides == Init => Accounts!Init
  BY LedgerAssumption
     DEF Init, Accounts!Init, LedgerAssumption, SerialRefunds, NoRows

\* Where the transactions on a charge do not overlap, every handler commit is one step
\* of RefundAccounts, whatever it did before: the refunds it records were undecided, and
\* it takes exactly the sum of those it accepts off the invoice, within its price.
THEOREM LedgerImplementsAccounts == Spec => ImplementsRefundAccounts
  <1>1. Init => Inv /\ ExactInv /\ Accounts!Init
    BY InitInv, InitExact, InitDecides, LedgerAssumption
  <1>2. Inv /\ ExactInv /\ [Next]_vars => Inv' /\ ExactInv' /\ [Accounts!Next]_(Accounts!vars)
    BY NextInv, NextExact, StepDecides, LedgerAssumption
  <1> QED
    BY <1>1, <1>2, PTL DEF Spec, ImplementsRefundAccounts, Accounts!Spec

-----------------------------------------------------------------------------
(* Subscriptions, milestones and payouts                                     *)

RowFields == {"tier", "price", "status", "active", "newest"}

\* The flag of a row is what its status says.
FlagIsStatus(x) ==
    /\ DOMAIN x = RowFields
    /\ x.status \in {"active", "cancelled"}
    /\ x.active \in BOOLEAN /\ (x.active <=> x.status = "active")

\* The price is that of the tier.
PriceIsTier(x) ==
    /\ x.tier \in B!Tiers /\ x.price = B!TierPrices[x.tier]
    /\ x.status = "cancelled" => x.tier = "avod"

SubscriptionSteps == {"subscribing", "updating"}

MilestoneSteps == {"releasing", "paying", "killing", "reverting"}

\* What a request knows that works on a row: some of it for certain, and more if
\* no other works on the row (alone).
Knows(q, alone) ==
    /\ DOMAIN q = DOMAIN B!Idle
    /\ q.at \in SubscriptionSteps \union MilestoneSteps \union {"idle", "accruing"}
    /\ q.at = "subscribing" => q.on \in Users /\ FlagIsStatus(q.want) /\ PriceIsTier(q.want)
    /\ q.at = "updating" =>
        /\ q.on \in Users /\ FlagIsStatus(sub[q.on]) /\ FlagIsStatus(q.seen) /\ FlagIsStatus(q.want)
        /\ alone => q.seen = sub[q.on] /\ PriceIsTier(q.want)
    /\ q.at \in MilestoneSteps => q.on \in Milestones /\ milestone[q.on] # "none"
    /\ q.at \in {"releasing", "paying"} => q.number \in B!Numbers
    /\ q.at = "paying" =>
        /\ q.locked \subseteq {q.number}
        /\ alone /\ q.number \in q.locked => tranche[q.on][q.number] = "locked"
        /\ alone /\ q.number \notin q.locked => tranche[q.on][q.number] = "released"
    /\ q.at = "reverting" =>
        /\ \A n \in B!Numbers : tranche[q.on][n] = "locked" => n \in q.locked
        /\ alone => \A n \in B!Numbers : n \in q.locked => tranche[q.on][n] = "locked"
    /\ q.at = "accruing" =>
        /\ q.on \in Keys /\ q.amount \in Amounts
        /\ alone => accrual[q.on] = 0

\* Requests that work on the same row have been noticed.
Overlaps ==
    \A r, v \in Requests :
        r # v /\ req[r].at # "idle" /\ req[v].at # "idle" /\ req[r].on = req[v].on
            => req[r].on \in mixed

RowIsTrue(u) ==
    sub[u] = None \/ (FlagIsStatus(sub[u]) /\ (u \notin mixed => PriceIsTier(sub[u])))

MilestoneIsTrue(m) ==
    /\ DOMAIN tranche[m] = B!Numbers /\ DOMAIN paid[m] = B!Numbers
    /\ \A n \in B!Numbers :
        /\ milestone[m] = "none" => tranche[m][n] = "none"
        /\ milestone[m] = "killed" => tranche[m][n] # "locked"
        /\ paid[m][n] \in {0, B!Amount(n)}
        /\ tranche[m][n] = "released" => paid[m][n] = B!Amount(n)
        /\ m \notin mixed /\ paid[m][n] # 0 => tranche[m][n] = "released"

KeyIsTrue(k) ==
    k \notin mixed => agreed[k] \subseteq {accrual[k]} /\ 0 \notin agreed[k]

BillingShape ==
    /\ DOMAIN sub = Users /\ DOMAIN milestone = Milestones
    /\ DOMAIN tranche = Milestones /\ DOMAIN paid = Milestones
    /\ DOMAIN accrual = Keys /\ DOMAIN agreed = Keys /\ DOMAIN req = Requests

BillingInv ==
    /\ BillingShape /\ Overlaps
    /\ \A r \in Requests : Knows(req[r], req[r].on \notin mixed)
    /\ \A u \in Users : RowIsTrue(u)
    /\ \A m \in Milestones : MilestoneIsTrue(m)
    /\ \A k \in Keys : KeyIsTrue(k)

LEMMA IdleRequest ==
    /\ B!Idle.at = "idle" /\ \A alone : Knows(B!Idle, alone)
  BY DEF B!Idle, Knows, SubscriptionSteps, MilestoneSteps

\* What rows a request knows of.
LEMMA KnowsSame ==
    ASSUME NEW q, NEW alone \in BOOLEAN, Knows(q, alone),
           UNCHANGED <<sub, milestone, tranche, accrual>>
    PROVE  Knows(q, alone)'
  BY DEF Knows

\* A request begins, or goes on, and writes no row.
LEMMA OneReads ==
    ASSUME BillingInv, NEW r \in Requests, NEW q, B!Untouched, req' = [req EXCEPT ![r] = q],
           mixed \subseteq mixed', NEW less \in BOOLEAN, less <=> q.on \notin mixed', Knows(q, less),
           \A v \in Requests : v # r /\ req[v].at # "idle" /\ req[v].on = q.on => q.on \in mixed'
    PROVE  BillingInv'
  <1>1. /\ req'[r] = q /\ \A v \in Requests : v # r => req'[v] = req[v]
        /\ DOMAIN req' = Requests
    BY DEF BillingInv, BillingShape
  <1>2. UNCHANGED <<sub, milestone, tranche, paid, accrual, agreed>>
    BY DEF B!Untouched
  <1>3. ASSUME NEW v \in Requests PROVE Knows(req[v], req[v].on \notin mixed)'
    <2>1. CASE v = r
      <3>1. Knows(q, less)'
        BY <1>2, KnowsSame
      <3> QED
        BY <1>1, <2>1, <3>1 DEF Knows
    <2>2. CASE v # r
      <3> PICK p : p = req[v]
        OBVIOUS
      <3>1. Knows(p, p.on \notin mixed)
        BY DEF BillingInv
      <3>2. p.on \notin mixed' => p.on \notin mixed
        OBVIOUS
      <3>3. req'[v] = p
        BY <1>1, <2>2
      <3> QED
        BY <1>2, <3>1, <3>2, <3>3 DEF Knows
    <2> QED
      BY <2>1, <2>2
  <1>4. Overlaps'
    BY <1>1 DEF BillingInv, Overlaps
  <1>5. ASSUME NEW u \in Users PROVE RowIsTrue(u)'
    BY <1>2 DEF BillingInv, RowIsTrue, FlagIsStatus, PriceIsTier
  <1>6. ASSUME NEW m \in Milestones PROVE MilestoneIsTrue(m)'
    BY <1>2 DEF BillingInv, MilestoneIsTrue
  <1>7. ASSUME NEW k \in Keys PROVE KeyIsTrue(k)'
    BY <1>2 DEF BillingInv, KeyIsTrue
  <1> QED
    BY <1>1, <1>2, <1>3, <1>4, <1>5, <1>6, <1>7 DEF BillingInv, BillingShape

\* A request ends, and writes no row but that of x; others that work on x see it
\* change only in ways they allow for.
LEMMA OneWrites ==
    ASSUME BillingInv, NEW r \in Requests, NEW x, req[r].on = x, req[r].at # "idle", B!End(r),
           BillingShape',
           \A u \in Users : (u # x => sub'[u] = sub[u])
                            /\ (FlagIsStatus(sub[u]) => FlagIsStatus(sub'[u])),
           \A m \in Milestones :
               /\ m # x => UNCHANGED <<milestone[m], tranche[m], paid[m]>>
               /\ milestone[m] # "none" => milestone'[m] # "none"
               /\ \A n \in B!Numbers : tranche'[m][n] = "locked" => tranche[m][n] = "locked",
           \A k \in Keys : k # x => UNCHANGED <<accrual[k], agreed[k]>>,
           x \in Users => RowIsTrue(x)',
           x \in Milestones => MilestoneIsTrue(x)',
           x \in Keys => KeyIsTrue(x)'
    PROVE  BillingInv'
  <1>1. /\ req'[r] = B!Idle /\ \A v \in Requests : v # r => req'[v] = req[v]
        /\ mixed' = mixed
    BY DEF B!End, BillingInv, BillingShape
  <1>2. ASSUME NEW v \in Requests PROVE Knows(req[v], req[v].on \notin mixed)'
    <2>1. CASE v = r
      BY <1>1, <2>1, IdleRequest DEF Knows, SubscriptionSteps, MilestoneSteps
    <2>2. CASE v # r
      <3> PICK p : p = req[v]
        OBVIOUS
      <3>1. Knows(p, p.on \notin mixed)
        BY DEF BillingInv
      <3>2. req'[v] = p
        BY <1>1, <2>2
      <3>3. p.at = "idle" \/ p.on # x \/ x \in mixed
        BY <2>2 DEF BillingInv, Overlaps
      <3>4. CASE p.at \in SubscriptionSteps \union {"idle", "accruing"}
        BY <1>1, <3>1, <3>2, <3>3, <3>4 DEF Knows, SubscriptionSteps, MilestoneSteps
      <3>5. CASE p.at \in MilestoneSteps
        BY <1>1, <3>1, <3>2, <3>3, <3>5 DEF Knows, SubscriptionSteps, MilestoneSteps
      <3> QED
        BY <3>1, <3>4, <3>5 DEF Knows
    <2> QED
      BY <2>1, <2>2
  <1>3. Overlaps'
    BY <1>1, IdleRequest DEF BillingInv, Overlaps
  <1>4. ASSUME NEW u \in Users PROVE RowIsTrue(u)'
    BY <1>1 DEF BillingInv, RowIsTrue, FlagIsStatus, PriceIsTier
  <1>5. ASSUME NEW m \in Milestones PROVE MilestoneIsTrue(m)'
    BY <1>1 DEF BillingInv, MilestoneIsTrue
  <1>6. ASSUME NEW k \in Keys PROVE KeyIsTrue(k)'
    BY <1>1 DEF BillingInv, KeyIsTrue
  <1> QED
    BY <1>2, <1>3, <1>4, <1>5, <1>6 DEF BillingInv

LEMMA OneBegins ==
    ASSUME BillingInv, NEW r \in Requests, NEW q, B!Begin(r, q), B!Untouched,
           Knows(q, q.on \notin mixed)
    PROVE  BillingInv'
  <1>1. /\ req' = [req EXCEPT ![r] = q] /\ req[r].at = "idle" /\ mixed \subseteq mixed'
        /\ \A v \in Requests : req[v].on = q.on => q.on \in mixed'
    BY DEF B!Begin, B!At
  <1>2. PICK less \in BOOLEAN : less <=> q.on \notin mixed'
    OBVIOUS
  <1>3. Knows(q, less)
    BY <1>1, <1>2 DEF Knows
  <1> QED
    BY <1>1, <1>2, <1>3, OneReads

\* What the operations assign is a row whose columns agree.
LEMMA AssignedRows ==
    ASSUME NEW x, FlagIsStatus(x), NEW t \in B!Tiers
    PROVE  /\ FlagIsStatus(B!NewSubscription(t)) /\ PriceIsTier(B!NewSubscription(t))
           /\ FlagIsStatus(B!Subscribed(x, t)) /\ PriceIsTier(B!Subscribed(x, t))
           /\ FlagIsStatus(B!Cancelled(x)) /\ PriceIsTier(B!Cancelled(x))
  <1>1. "avod" \in B!Tiers /\ B!TierPrices["avod"] = 0
    BY DEF B!Tiers, B!TierPrices
  <1> QED
    BY <1>1 DEF FlagIsStatus, PriceIsTier, RowFields, B!NewSubscription, B!Subscribed, B!Cancelled

LEMMA SyncedRow ==
    ASSUME NEW x, FlagIsStatus(x), NEW status \in {"active", "cancelled"}, NEW created,
           NEW alone \in BOOLEAN, alone => PriceIsTier(x), NEW y,
           y = IF x.status # status THEN B!Synced(x, status) ELSE x
    PROVE  /\ FlagIsStatus([y EXCEPT !.newest = created])
           /\ alone => PriceIsTier([y EXCEPT !.newest = created])
  <1>1. FlagIsStatus(y) /\ (alone => PriceIsTier(y))
    <2>1. CASE y = x
      BY <2>1
    <2>2. CASE x.status # status /\ status = "cancelled"
      <3>1. "avod" \in B!Tiers
        BY DEF B!Tiers, B!TierPrices
      <3> QED
        BY <2>2, <3>1, AssignedRows DEF B!Synced
    <2>3. CASE x.status # status /\ status = "active"
      BY <2>3 DEF B!Synced, FlagIsStatus, PriceIsTier, RowFields
    <2> QED
      BY <2>1, <2>2, <2>3
  <1> QED
    BY <1>1 DEF FlagIsStatus, PriceIsTier, RowFields

\* The columns that a request has changed, merged into the row of the moment.
LEMMA MergedRow ==
    ASSUME NEW x, NEW seen, NEW want, FlagIsStatus(x), FlagIsStatus(seen), FlagIsStatus(want)
    PROVE  /\ FlagIsStatus(B!Merge(x, seen, want))
           /\ x = seen /\ PriceIsTier(want) => PriceIsTier(B!Merge(x, seen, want))
  <1> DEFINE y == B!Merge(x, seen, want)
  <1>1. DOMAIN y = RowFields /\ \A c \in RowFields : y[c] = IF want[c] # seen[c] THEN want[c] ELSE x[c]
    BY DEF B!Merge, FlagIsStatus
  <1>2. /\ y.status = IF want.status # seen.status THEN want.status ELSE x.status
        /\ y.active = IF want.active # seen.active THEN want.active ELSE x.active
        /\ y.tier = IF want.tier # seen.tier THEN want.tier ELSE x.tier
        /\ y.price = IF want.price # seen.price THEN want.price ELSE x.price
    BY <1>1 DEF RowFields
  <1> HIDE DEF y
  <1>3. FlagIsStatus(y)
    BY <1>1, <1>2 DEF FlagIsStatus
  <1>4. x = seen /\ PriceIsTier(want) => PriceIsTier(y)
    BY <1>2 DEF PriceIsTier
  <1> QED
    BY <1>3, <1>4 DEF y

LEMMA ReadBegins ==
    ASSUME BillingInv, NEW r \in Requests, NEW u \in Users, NEW want,
           B!ReadForUpdate(r, u, want), sub[u] # None,
           FlagIsStatus(want), u \notin mixed => PriceIsTier(want)
    PROVE  BillingInv'
  <1> PICK seen : seen = sub[u]
    OBVIOUS
  <1> DEFINE q == [B!Idle EXCEPT !.at = "updating", !.on = u, !.seen = seen, !.want = want]
  <1>1. B!Begin(r, q) /\ B!Untouched
    BY DEF B!ReadForUpdate
  <1>2. /\ DOMAIN q = DOMAIN B!Idle /\ q.at = "updating" /\ q.on = u /\ q.seen = seen
        /\ q.want = want
    BY DEF B!Idle
  <1> HIDE DEF q
  <1>3. FlagIsStatus(seen)
    BY DEF BillingInv, RowIsTrue
  <1>4. Knows(q, q.on \notin mixed)
    BY <1>2, <1>3 DEF Knows, SubscriptionSteps, MilestoneSteps
  <1> QED
    BY <1>1, <1>4, OneBegins

LEMMA SubscribeBegins ==
    ASSUME BillingInv, NEW r \in Requests, NEW u \in Users, NEW t \in B!Tiers, B!Subscribe(r, u, t)
    PROVE  BillingInv'
  <1>1. CASE sub[u] = None
    <2> DEFINE want == B!NewSubscription(t)
               q == [B!Idle EXCEPT !.at = "subscribing", !.on = u, !.want = want]
    <2>1. B!Begin(r, q) /\ B!Untouched
      BY <1>1 DEF B!Subscribe
    <2>2. FlagIsStatus(want) /\ PriceIsTier(want)
      BY DEF B!NewSubscription, FlagIsStatus, PriceIsTier, RowFields
    <2> HIDE DEF want
    <2>3. DOMAIN q = DOMAIN B!Idle /\ q.at = "subscribing" /\ q.on = u /\ q.want = want
      BY DEF B!Idle
    <2> HIDE DEF q
    <2>4. Knows(q, q.on \notin mixed)
      BY <2>2, <2>3 DEF Knows, SubscriptionSteps, MilestoneSteps
    <2> QED
      BY <2>1, <2>4, OneBegins
  <1>2. CASE sub[u] # None
    <2> PICK x : x = sub[u]
      OBVIOUS
    <2> DEFINE want == B!Subscribed(x, t)
    <2>1. B!ReadForUpdate(r, u, want)
      BY <1>2 DEF B!Subscribe
    <2>2. FlagIsStatus(x)
      BY <1>2 DEF BillingInv, RowIsTrue
    <2>3. FlagIsStatus(want) /\ PriceIsTier(want)
      BY <2>2, AssignedRows
    <2> HIDE DEF want
    <2> QED
      BY <1>2, <2>1, <2>3, ReadBegins
  <1> QED
    BY <1>1, <1>2

LEMMA CancelBegins ==
    ASSUME BillingInv, NEW r \in Requests, NEW u \in Users, B!Cancel(r, u)
    PROVE  BillingInv'
  <1> PICK x : x = sub[u]
    OBVIOUS
  <1> DEFINE want == B!Cancelled(x)
  <1>1. sub[u] # None /\ B!ReadForUpdate(r, u, want)
    BY DEF B!Cancel
  <1>2. FlagIsStatus(x)
    BY <1>1 DEF BillingInv, RowIsTrue
  <1>3. FlagIsStatus(want) /\ PriceIsTier(want)
    <2>1. "avod" \in B!Tiers
      BY DEF B!Tiers, B!TierPrices
    <2> QED
      BY <1>2, <2>1, AssignedRows
  <1> HIDE DEF want
  <1> QED
    BY <1>1, <1>3, ReadBegins

LEMMA SyncBegins ==
    ASSUME BillingInv, NEW r \in Requests, NEW u \in Users, NEW status \in {"active", "cancelled"},
           NEW created, B!Sync(r, u, status, created)
    PROVE  BillingInv'
  <1> PICK x : x = sub[u]
    OBVIOUS
  <1> DEFINE y == IF x.status # status THEN B!Synced(x, status) ELSE x
             want == [y EXCEPT !.newest = created]
  <1>1. sub[u] # None /\ B!ReadForUpdate(r, u, want)
    BY DEF B!Sync
  <1>2. FlagIsStatus(x) /\ (u \notin mixed => PriceIsTier(x))
    BY <1>1 DEF BillingInv, RowIsTrue
  <1>3. FlagIsStatus(want) /\ (u \notin mixed => PriceIsTier(want))
    <2>1. CASE u \notin mixed
      BY <1>2, <2>1, SyncedRow
    <2>2. CASE u \in mixed
      BY <1>2, <2>2, SyncedRow
    <2> QED
      BY <2>1, <2>2
  <1> HIDE DEF want
  <1> QED
    BY <1>1, <1>3, ReadBegins

LEMMA InsertEnds ==
    ASSUME BillingInv, NEW r \in Requests, B!Insert(r)
    PROVE  BillingInv'
  <1> PICK q : q = req[r]
    OBVIOUS
  <1> PICK u : u = q.on
    OBVIOUS
  <1>1. /\ q.at = "subscribing" /\ sub[u] = None /\ sub' = [sub EXCEPT ![u] = q.want]
        /\ B!End(r) /\ UNCHANGED <<milestone, tranche, paid, accrual, agreed>>
    BY DEF B!Insert, B!At
  <1>2. Knows(q, u \notin mixed)
    BY DEF BillingInv
  <1>3. u \in Users /\ FlagIsStatus(q.want) /\ PriceIsTier(q.want)
    BY <1>1, <1>2 DEF Knows
  <1>4. sub'[u] = q.want /\ DOMAIN sub' = Users /\ \A v \in Users : v # u => sub'[v] = sub[v]
    BY <1>1, <1>3 DEF BillingInv, BillingShape
  <1>5. BillingShape' /\ mixed' = mixed
    BY <1>1, <1>4 DEF BillingInv, BillingShape, B!End
  <1>6. RowIsTrue(u)'
    BY <1>3, <1>4, <1>5 DEF RowIsTrue, FlagIsStatus, PriceIsTier
  <1>7. \A v \in Users : FlagIsStatus(sub[v]) => FlagIsStatus(sub'[v])
    BY <1>3, <1>4
  <1>8. /\ \A m \in Milestones : MilestoneIsTrue(m)'
        /\ \A k \in Keys : KeyIsTrue(k)'
    BY <1>1, <1>5 DEF BillingInv, MilestoneIsTrue, KeyIsTrue
  <1> QED
    BY <1>1, <1>4, <1>5, <1>6, <1>7, <1>8, OneWrites

LEMMA UpdateEnds ==
    ASSUME BillingInv, NEW r \in Requests, B!Update(r)
    PROVE  BillingInv'
  <1> PICK q : q = req[r]
    OBVIOUS
  <1> PICK u : u = q.on
    OBVIOUS
  <1> PICK x : x = B!Merge(sub[u], q.seen, q.want)
    OBVIOUS
  <1>1. /\ q.at = "updating" /\ sub' = [sub EXCEPT ![u] = x]
        /\ B!End(r) /\ UNCHANGED <<milestone, tranche, paid, accrual, agreed>>
    BY DEF B!Update, B!At
  <1>2. Knows(q, u \notin mixed)
    BY DEF BillingInv
  <1>3. /\ u \in Users /\ FlagIsStatus(sub[u]) /\ FlagIsStatus(q.seen) /\ FlagIsStatus(q.want)
        /\ u \notin mixed => q.seen = sub[u] /\ PriceIsTier(q.want)
    BY <1>1, <1>2 DEF Knows
  <1>4. FlagIsStatus(x) /\ (u \notin mixed => PriceIsTier(x))
    BY <1>3, MergedRow
  <1>5. sub'[u] = x /\ DOMAIN sub' = Users /\ \A v \in Users : v # u => sub'[v] = sub[v]
    BY <1>1, <1>3 DEF BillingInv, BillingShape
  <1>6. BillingShape' /\ mixed' = mixed
    BY <1>1, <1>5 DEF BillingInv, BillingShape, B!End
  <1>7. RowIsTrue(u)'
    BY <1>4, <1>5, <1>6 DEF RowIsTrue, FlagIsStatus, PriceIsTier
  <1>8. \A v \in Users : FlagIsStatus(sub[v]) => FlagIsStatus(sub'[v])
    BY <1>4, <1>5
  <1>9. /\ \A m \in Milestones : MilestoneIsTrue(m)'
        /\ \A k \in Keys : KeyIsTrue(k)'
    BY <1>1, <1>6 DEF BillingInv, MilestoneIsTrue, KeyIsTrue
  <1> QED
    BY <1>1, <1>5, <1>6, <1>7, <1>8, <1>9, OneWrites

LEMMA MilestoneBegins ==
    ASSUME BillingInv, NEW r \in Requests, NEW m \in Milestones, milestone[m] # "none",
           NEW q, B!Begin(r, q), B!Untouched, DOMAIN q = DOMAIN B!Idle, q.on = m,
           q.at \in {"releasing", "killing"}, q.number \in B!Numbers
    PROVE  BillingInv'
  <1>1. Knows(q, q.on \notin mixed)
    BY DEF Knows, SubscriptionSteps, MilestoneSteps
  <1> QED
    BY <1>1, OneBegins

LEMMA ReadMilestoneBegins ==
    ASSUME BillingInv, NEW r \in Requests, NEW m \in Milestones, NEW n \in B!Numbers,
           B!ReadMilestone(r, m, n)
    PROVE  BillingInv'
  <1> DEFINE q == [B!Idle EXCEPT !.at = "releasing", !.on = m, !.number = n]
  <1>1. milestone[m] # "none" /\ B!Begin(r, q) /\ B!Untouched
    BY DEF B!ReadMilestone
  <1>2. DOMAIN q = DOMAIN B!Idle /\ q.at = "releasing" /\ q.on = m /\ q.number = n
    BY DEF B!Idle
  <1> HIDE DEF q
  <1> QED
    BY <1>1, <1>2, MilestoneBegins

LEMMA KillBegins ==
    ASSUME BillingInv, NEW r \in Requests, NEW m \in Milestones, B!Kill(r, m)
    PROVE  BillingInv'
  <1> PICK fresh : fresh = (milestone[m] # "killed")
    OBVIOUS
  <1> DEFINE q == [B!Idle EXCEPT !.at = "killing", !.on = m, !.fresh = fresh]
  <1>1. milestone[m] # "none" /\ B!Begin(r, q) /\ B!Untouched
    BY DEF B!Kill
  <1>2. DOMAIN q = DOMAIN B!Idle /\ q.at = "killing" /\ q.on = m /\ q.number \in B!Numbers
    BY DEF B!Idle, B!Numbers
  <1> HIDE DEF q
  <1> QED
    BY <1>1, <1>2, MilestoneBegins

\* A request goes on with what it has read of a milestone.
LEMMA MilestoneMoves ==
    ASSUME BillingInv, NEW r \in Requests, req[r].at \in MilestoneSteps, NEW q, B!Move(r, q),
           B!Untouched, q.on = req[r].on, Knows(q, q.on \notin mixed)
    PROVE  BillingInv'
  <1>1. req' = [req EXCEPT ![r] = q] /\ mixed' = mixed
    BY DEF B!Move
  <1>2. PICK less \in BOOLEAN : less <=> q.on \notin mixed'
    OBVIOUS
  <1>3. Knows(q, less)
    BY <1>1, <1>2 DEF Knows
  <1>4. \A v \in Requests : v # r /\ req[v].at # "idle" /\ req[v].on = q.on => q.on \in mixed'
    BY <1>1 DEF BillingInv, Overlaps, MilestoneSteps
  <1> QED
    BY <1>1, <1>2, <1>3, <1>4, OneReads

LEMMA ReadTrancheMoves ==
    ASSUME BillingInv, NEW r \in Requests, B!ReadTranche(r)
    PROVE  BillingInv'
  <1> PICK p : p = req[r]
    OBVIOUS
  <1> PICK locked : locked = IF tranche[p.on][p.number] = "locked" THEN {p.number} ELSE {}
    OBVIOUS
  <1> DEFINE q == [p EXCEPT !.at = "paying", !.locked = locked]
  <1>1. /\ p.at = "releasing" /\ tranche[p.on][p.number] \in {"locked", "released"}
        /\ B!Move(r, q) /\ B!Untouched
    BY DEF B!ReadTranche, B!At
  <1>2. Knows(p, p.on \notin mixed)
    BY DEF BillingInv
  <1>3. /\ DOMAIN q = DOMAIN B!Idle /\ q.at = "paying" /\ q.on = p.on /\ q.number = p.number
        /\ q.locked = locked
    BY <1>2 DEF Knows, B!Idle
  <1> HIDE DEF q
  <1>4. Knows(q, q.on \notin mixed)
    BY <1>1, <1>2, <1>3 DEF Knows, SubscriptionSteps, MilestoneSteps
  <1> QED
    BY <1>1, <1>3, <1>4, MilestoneMoves DEF MilestoneSteps

LEMMA ReadTranchesMoves ==
    ASSUME BillingInv, NEW r \in Requests, B!ReadTranches(r)
    PROVE  BillingInv'
  <1> PICK p : p = req[r]
    OBVIOUS
  <1> PICK locked : locked = B!LockedTranches(p.on)
    OBVIOUS
  <1> DEFINE q == [p EXCEPT !.at = "reverting", !.locked = locked]
  <1>1. p.at = "killing" /\ B!Move(r, q) /\ B!Untouched
    BY DEF B!ReadTranches, B!At
  <1>2. Knows(p, p.on \notin mixed)
    BY DEF BillingInv
  <1>3. /\ DOMAIN q = DOMAIN B!Idle /\ q.at = "reverting" /\ q.on = p.on
        /\ q.locked = locked
    BY <1>2 DEF Knows, B!Idle
  <1> HIDE DEF q
  <1>4. \A n \in B!Numbers : n \in locked <=> tranche[p.on][n] = "locked"
    BY DEF B!LockedTranches
  <1>5. Knows(q, q.on \notin mixed)
    BY <1>1, <1>2, <1>3, <1>4 DEF Knows, SubscriptionSteps, MilestoneSteps
  <1> QED
    BY <1>1, <1>3, <1>5, MilestoneMoves DEF MilestoneSteps

\* The tranches are shares of the commitment, each rounded to the cent and none to
\* nothing: together they exceed it by one cent at most.
LEMMA AmountFacts ==
    /\ \A n \in B!Numbers : B!Amount(n) \in Nat \ {0}
    /\ B!Amount(1) + B!Amount(2) + B!Amount(3) + B!Amount(4) <= Commitment + 1
  BY AmountsAssumption DEF B!Amount, B!Percentage, B!Numbers

\* A request ends that has written a milestone, its tranches and their payouts.
LEMMA MilestoneEnds ==
    ASSUME BillingInv, NEW r \in Requests, NEW m, req[r].on = m, req[r].at \in MilestoneSteps,
           B!End(r), UNCHANGED <<sub, accrual, agreed>>,
           m \in Milestones,
           DOMAIN milestone' = Milestones /\ DOMAIN tranche' = Milestones /\ DOMAIN paid' = Milestones,
           \A l \in Milestones : l # m => UNCHANGED <<milestone[l], tranche[l], paid[l]>>,
           milestone'[m] # "none",
           \A n \in B!Numbers : tranche'[m][n] = "locked" => tranche[m][n] = "locked",
           MilestoneIsTrue(m)'
    PROVE  BillingInv'
  <1>1. BillingShape' /\ mixed' = mixed
    BY DEF BillingInv, BillingShape, B!End
  <1>2. /\ \A u \in Users : RowIsTrue(u)'
        /\ \A k \in Keys : KeyIsTrue(k)'
    BY <1>1 DEF BillingInv, RowIsTrue, KeyIsTrue, FlagIsStatus, PriceIsTier
  <1>3. req[r].at # "idle"
    BY DEF MilestoneSteps
  <1> QED
    BY <1>1, <1>2, <1>3, OneWrites

LEMMA ReleaseEnds ==
    ASSUME BillingInv, NEW r \in Requests, B!Release(r)
    PROVE  BillingInv'
  <1> PICK q : q = req[r]
    OBVIOUS
  <1> PICK m : m = q.on
    OBVIOUS
  <1>1. /\ q.at = "paying" /\ B!End(r) /\ UNCHANGED <<sub, milestone, accrual, agreed>>
        /\ tranche' = [tranche EXCEPT ![m] =
                          [n \in B!Numbers |-> IF n \in q.locked THEN "released" ELSE @[n]]]
        /\ paid' = B!Accrued(m, q.number)
    BY DEF B!Release, B!At
  <1>2. Knows(q, m \notin mixed) /\ mixed' = mixed
    BY <1>1 DEF BillingInv, B!End
  <1>3. m \in Milestones /\ milestone[m] # "none" /\ q.number \in B!Numbers /\ MilestoneIsTrue(m)
    BY <1>1, <1>2 DEF Knows, MilestoneSteps, BillingInv
  <1>4. /\ q.locked \subseteq {q.number}
        /\ m \notin mixed /\ q.number \notin q.locked => tranche[m][q.number] = "released"
    BY <1>1, <1>2 DEF Knows
  <1>5. /\ DOMAIN tranche' = Milestones /\ DOMAIN tranche'[m] = B!Numbers
        /\ \A n \in B!Numbers : tranche'[m][n] = IF n \in q.locked THEN "released" ELSE tranche[m][n]
        /\ \A l \in Milestones : l # m => tranche'[l] = tranche[l]
    BY <1>1, <1>3 DEF BillingInv, BillingShape
  <1>6. /\ DOMAIN paid' = Milestones /\ DOMAIN paid'[m] = B!Numbers
        /\ \A n \in B!Numbers : paid'[m][n] = IF n = q.number THEN B!Amount(n) ELSE paid[m][n]
        /\ \A l \in Milestones : l # m => paid'[l] = paid[l]
    BY <1>1, <1>3 DEF BillingInv, BillingShape, B!Accrued, MilestoneIsTrue
  <1>7. MilestoneIsTrue(m)'
    BY <1>1, <1>2, <1>3, <1>4, <1>5, <1>6 DEF MilestoneIsTrue
  <1> QED
    BY <1>1, <1>3, <1>5, <1>6, <1>7, MilestoneEnds DEF MilestoneSteps, BillingInv, BillingShape

LEMMA RevertEnds ==
    ASSUME BillingInv, NEW r \in Requests, B!Revert(r)
    PROVE  BillingInv'
  <1> PICK q : q = req[r]
    OBVIOUS
  <1> PICK m : m = q.on
    OBVIOUS
  <1>1. /\ q.at = "reverting" /\ B!End(r) /\ UNCHANGED <<sub, paid, accrual, agreed>>
        /\ milestone' = [milestone EXCEPT ![m] = "killed"]
        /\ tranche' = [tranche EXCEPT ![m] =
                          [n \in B!Numbers |-> IF n \in q.locked THEN "reverted" ELSE @[n]]]
    BY DEF B!Revert, B!At
  <1>2. Knows(q, m \notin mixed) /\ mixed' = mixed
    BY <1>1 DEF BillingInv, B!End
  <1>3. m \in Milestones /\ MilestoneIsTrue(m)
    BY <1>1, <1>2 DEF Knows, MilestoneSteps, BillingInv
  <1>4. /\ \A n \in B!Numbers : tranche[m][n] = "locked" => n \in q.locked
        /\ m \notin mixed => \A n \in B!Numbers : n \in q.locked => tranche[m][n] = "locked"
    BY <1>1, <1>2 DEF Knows
  <1>5. /\ DOMAIN tranche' = Milestones /\ DOMAIN tranche'[m] = B!Numbers
        /\ \A n \in B!Numbers : tranche'[m][n] = IF n \in q.locked THEN "reverted" ELSE tranche[m][n]
        /\ \A l \in Milestones : l # m => tranche'[l] = tranche[l]
    BY <1>1, <1>3 DEF BillingInv, BillingShape
  <1>6. /\ DOMAIN milestone' = Milestones /\ milestone'[m] = "killed"
        /\ \A l \in Milestones : l # m => milestone'[l] = milestone[l]
    BY <1>1, <1>3 DEF BillingInv, BillingShape
  <1>7. MilestoneIsTrue(m)'
    BY <1>1, <1>2, <1>3, <1>4, <1>5, <1>6 DEF MilestoneIsTrue
  <1> QED
    BY <1>1, <1>3, <1>5, <1>6, <1>7, MilestoneEnds DEF MilestoneSteps, BillingInv, BillingShape

LEMMA CreateMilestoneKeeps ==
    ASSUME BillingInv, NEW m \in Milestones, B!CreateMilestone(m)
    PROVE  BillingInv'
  <1>1. /\ milestone[m] = "none" /\ UNCHANGED <<sub, paid, accrual, req, mixed, agreed>>
        /\ milestone' = [milestone EXCEPT ![m] = "pending"]
        /\ tranche' = [tranche EXCEPT ![m] = [n \in B!Numbers |-> "locked"]]
    BY DEF B!CreateMilestone
  <1>2. /\ BillingShape' /\ milestone'[m] = "pending" /\ DOMAIN tranche'[m] = B!Numbers
        /\ \A n \in B!Numbers : tranche'[m][n] = "locked"
        /\ \A l \in Milestones : l # m => milestone'[l] = milestone[l] /\ tranche'[l] = tranche[l]
    BY <1>1 DEF BillingInv, BillingShape
  <1>3. ASSUME NEW r \in Requests PROVE Knows(req[r], req[r].on \notin mixed)'
    <2> PICK q : q = req[r]
      OBVIOUS
    <2>1. Knows(q, q.on \notin mixed)
      BY DEF BillingInv
    <2>2. req'[r] = q /\ (q.at \in MilestoneSteps => q.on # m)
      BY <1>1, <2>1 DEF Knows
    <2> QED
      BY <1>1, <1>2, <2>1, <2>2 DEF Knows, SubscriptionSteps, MilestoneSteps
  <1>4. MilestoneIsTrue(m)
    BY DEF BillingInv
  <1>5. MilestoneIsTrue(m)'
    BY <1>1, <1>2, <1>4 DEF MilestoneIsTrue
  <1>6. ASSUME NEW l \in Milestones PROVE MilestoneIsTrue(l)'
    BY <1>1, <1>2, <1>5 DEF BillingInv, MilestoneIsTrue
  <1>7. Overlaps' /\ (\A u \in Users : RowIsTrue(u)') /\ \A k \in Keys : KeyIsTrue(k)'
    BY <1>1 DEF BillingInv, Overlaps, RowIsTrue, KeyIsTrue, FlagIsStatus, PriceIsTier
  <1> QED
    BY <1>2, <1>3, <1>6, <1>7 DEF BillingInv

LEMMA AccrueKeeps ==
    ASSUME BillingInv, NEW r \in Requests, NEW k \in Keys, NEW a \in Amounts, B!Accrue(r, k, a)
    PROVE  BillingInv'
  <1>1. CASE /\ accrual[k] = a /\ B!Agree(k, a)
             /\ UNCHANGED <<sub, milestone, tranche, paid, accrual, req, mixed>>
    <2>1. /\ DOMAIN agreed' = Keys /\ agreed'[k] = agreed[k] \union {a}
          /\ \A j \in Keys : j # k => agreed'[j] = agreed[j]
      BY <1>1 DEF B!Agree, BillingInv, BillingShape
    <2>2. a # 0
      BY AmountsAssumption
    <2>3. ASSUME NEW j \in Keys PROVE KeyIsTrue(j)'
      BY <1>1, <2>1, <2>2 DEF BillingInv, KeyIsTrue
    <2>4. ASSUME NEW v \in Requests PROVE Knows(req[v], req[v].on \notin mixed)'
      BY <1>1 DEF BillingInv, Knows
    <2>5. /\ BillingShape' /\ Overlaps' /\ (\A u \in Users : RowIsTrue(u)')
          /\ \A m \in Milestones : MilestoneIsTrue(m)'
      BY <1>1, <2>1 DEF BillingInv, BillingShape, Overlaps, RowIsTrue, MilestoneIsTrue, FlagIsStatus,
                        PriceIsTier
    <2> QED
      BY <2>3, <2>4, <2>5 DEF BillingInv
  <1>2. CASE accrual[k] = 0 /\ B!Untouched
             /\ B!Begin(r, [B!Idle EXCEPT !.at = "accruing", !.on = k, !.amount = a])
    <2> DEFINE q == [B!Idle EXCEPT !.at = "accruing", !.on = k, !.amount = a]
    <2>1. DOMAIN q = DOMAIN B!Idle /\ q.at = "accruing" /\ q.on = k /\ q.amount = a
      BY DEF B!Idle
    <2>2. B!Begin(r, q)
      BY <1>2
    <2> HIDE DEF q
    <2>3. Knows(q, q.on \notin mixed)
      BY <1>2, <2>1 DEF Knows, SubscriptionSteps, MilestoneSteps
    <2> QED
      BY <1>2, <2>2, <2>3, OneBegins
  <1> QED
    BY <1>1, <1>2 DEF B!Accrue, B!SameAmount

LEMMA PostEnds ==
    ASSUME BillingInv, NEW r \in Requests, B!Post(r)
    PROVE  BillingInv'
  <1> PICK q : q = req[r]
    OBVIOUS
  <1> PICK k : k = q.on
    OBVIOUS
  <1>1. /\ q.at = "accruing" /\ B!End(r) /\ UNCHANGED <<sub, milestone, tranche, paid>>
        /\ accrual' = [accrual EXCEPT ![k] = IF @ = 0 THEN q.amount ELSE @]
        /\ agreed' = [agreed EXCEPT ![k] = @ \union {q.amount}]
    BY DEF B!Post, B!At, B!Agree
  <1>2. Knows(q, k \notin mixed) /\ mixed' = mixed
    BY <1>1 DEF BillingInv, B!End
  <1>3. k \in Keys /\ q.amount \in Amounts /\ q.amount # 0 /\ (k \notin mixed => accrual[k] = 0)
    BY <1>1, <1>2, AmountsAssumption DEF Knows
  <1>4. /\ DOMAIN accrual' = Keys /\ DOMAIN agreed' = Keys
        /\ accrual'[k] = IF accrual[k] = 0 THEN q.amount ELSE accrual[k]
        /\ agreed'[k] = agreed[k] \union {q.amount}
        /\ \A j \in Keys : j # k => accrual'[j] = accrual[j] /\ agreed'[j] = agreed[j]
    BY <1>1, <1>3 DEF BillingInv, BillingShape
  <1>5. BillingShape'
    BY <1>1, <1>4 DEF BillingInv, BillingShape, B!End
  <1>6. KeyIsTrue(k)'
    BY <1>2, <1>3, <1>4 DEF BillingInv, KeyIsTrue
  <1>7. (\A u \in Users : RowIsTrue(u)') /\ \A m \in Milestones : MilestoneIsTrue(m)'
    BY <1>1, <1>2 DEF BillingInv, RowIsTrue, MilestoneIsTrue, FlagIsStatus, PriceIsTier
  <1> QED
    BY <1>1, <1>4, <1>5, <1>6, <1>7, OneWrites

LEMMA LeaveEnds ==
    ASSUME BillingInv, NEW r \in Requests, B!Leave(r)
    PROVE  BillingInv'
  <1>1. /\ req[r].at # "idle" /\ B!End(r)
        /\ UNCHANGED <<sub, milestone, tranche, paid, accrual, agreed, mixed>>
    BY DEF B!Leave, B!At, B!Untouched, B!End
  <1>2. /\ BillingShape' /\ (\A u \in Users : RowIsTrue(u)')
        /\ (\A m \in Milestones : MilestoneIsTrue(m)') /\ \A k \in Keys : KeyIsTrue(k)'
    BY <1>1 DEF B!End, BillingInv, BillingShape, RowIsTrue, MilestoneIsTrue, KeyIsTrue, FlagIsStatus,
                PriceIsTier
  <1> QED
    BY <1>1, <1>2, OneWrites

LEMMA InitBilling == B!Init => BillingInv
  <1> SUFFICES ASSUME B!Init PROVE BillingInv
    OBVIOUS
  <1>1. BillingShape /\ Overlaps
    BY IdleRequest DEF B!Init, BillingShape, Overlaps
  <1>2. ASSUME NEW r \in Requests PROVE Knows(req[r], req[r].on \notin mixed)
    BY IdleRequest DEF B!Init, Knows, SubscriptionSteps, MilestoneSteps
  <1>3. \A u \in Users : RowIsTrue(u)
    BY DEF B!Init, RowIsTrue
  <1>4. \A m \in Milestones : MilestoneIsTrue(m)
    BY AmountFacts DEF B!Init, MilestoneIsTrue
  <1>5. \A k \in Keys : KeyIsTrue(k)
    BY DEF B!Init, KeyIsTrue
  <1> QED
    BY <1>1, <1>2, <1>3, <1>4, <1>5 DEF BillingInv

LEMMA NextBilling == BillingInv /\ [B!Next]_billing => BillingInv'
  <1> SUFFICES ASSUME BillingInv, [B!Next]_billing PROVE BillingInv'
    OBVIOUS
  <1>1. ASSUME NEW r \in Requests, NEW u \in Users, NEW t \in B!Tiers, B!Subscribe(r, u, t)
        PROVE  BillingInv'
    BY <1>1, SubscribeBegins
  <1>2. ASSUME NEW r \in Requests, NEW u \in Users, B!Cancel(r, u) PROVE BillingInv'
    BY <1>2, CancelBegins
  <1>3. ASSUME NEW r \in Requests, NEW u \in Users, NEW status \in {"active", "cancelled"},
               NEW created \in 1 .. MaxCreated, B!Sync(r, u, status, created)
        PROVE  BillingInv'
    BY <1>3, SyncBegins
  <1>4. ASSUME NEW r \in Requests,
               B!Insert(r) \/ B!Update(r) \/ B!ReadTranche(r) \/ B!Release(r) \/ B!ReadTranches(r)
               \/ B!Revert(r) \/ B!Post(r) \/ B!Leave(r)
        PROVE  BillingInv'
    BY <1>4, InsertEnds, UpdateEnds, ReadTrancheMoves, ReleaseEnds, ReadTranchesMoves, RevertEnds,
       PostEnds, LeaveEnds
  <1>5. ASSUME NEW r \in Requests, NEW m \in Milestones, NEW n \in B!Numbers, B!ReadMilestone(r, m, n)
        PROVE  BillingInv'
    BY <1>5, ReadMilestoneBegins
  <1>6. ASSUME NEW r \in Requests, NEW m \in Milestones, B!Kill(r, m) PROVE BillingInv'
    BY <1>6, KillBegins
  <1>7. ASSUME NEW r \in Requests, NEW k \in Keys, NEW a \in Amounts, B!Accrue(r, k, a)
        PROVE  BillingInv'
    BY <1>7, AccrueKeeps
  <1>8. ASSUME NEW m \in Milestones, B!CreateMilestone(m) PROVE BillingInv'
    BY <1>8, CreateMilestoneKeeps
  <1>9. CASE UNCHANGED billing
    <2>1. UNCHANGED <<sub, milestone, tranche, paid, accrual, req, mixed, agreed>>
      BY <1>9 DEF billing
    <2>2. ASSUME NEW v \in Requests PROVE Knows(req[v], req[v].on \notin mixed)'
      BY <2>1 DEF BillingInv, Knows
    <2> QED
      BY <2>1, <2>2 DEF BillingInv, BillingShape, Overlaps, RowIsTrue, MilestoneIsTrue, KeyIsTrue,
                        FlagIsStatus, PriceIsTier
  <1> QED
    BY <1>1, <1>2, <1>3, <1>4, <1>5, <1>6, <1>7, <1>8, <1>9 DEF B!Next

LEMMA BillingInvariant == SideSpec => []BillingInv
<1>1. SideInit => BillingInv
  BY InitBilling DEF SideInit
<1>2. BillingInv /\ [SideNext]_<<side, vars, billing>> => BillingInv'
  BY NextBilling DEF SideNext, billing
<1> QED
  BY <1>1, <1>2, PTL DEF SideSpec

\* The flag of a subscription says what its status says, however subscribe, cancel
\* and Stripe events overlap, since the ORM writes back the columns that a request
\* changed and both of these change together; the price follows the tier as long as no
\* two requests worked on the row at once.
THEOREM ColumnsHold == SideSpec => []ColumnsAgree
<1>1. BillingInv => ColumnsAgree
  BY DEF BillingInv, RowIsTrue, FlagIsStatus, PriceIsTier, ColumnsAgree, B!ColumnsAgree
<1> QED
  BY <1>1, BillingInvariant, PTL

\* A released tranche has its payout and a killed milestone no locked tranche, however
\* releases and kills overlap; without overlaps the payouts are those of the released
\* tranches, and they exceed the commitment by a cent at most, whatever it is.
THEOREM AccountsHold == SideSpec => []AccountsAgree
<1>1. BillingInv => AccountsAgree
  <2> SUFFICES ASSUME BillingInv PROVE AccountsAgree
    OBVIOUS
  <2>1. B!TranchesSettled
    BY DEF BillingInv, MilestoneIsTrue, B!TranchesSettled
  <2>2. ASSUME NEW m \in Milestones \ mixed
        PROVE  /\ \A n \in B!Numbers : paid[m][n] # 0 <=> tranche[m][n] = "released"
               /\ paid[m][1] + paid[m][2] + paid[m][3] + paid[m][4] <= Commitment + 1
    <3>1. \A n \in B!Numbers :
             /\ paid[m][n] \in {0, B!Amount(n)} /\ B!Amount(n) \in Nat \ {0}
             /\ tranche[m][n] = "released" => paid[m][n] = B!Amount(n)
             /\ paid[m][n] # 0 => tranche[m][n] = "released"
      BY <2>2, AmountFacts DEF BillingInv, MilestoneIsTrue
    <3>2. {1, 2, 3, 4} \subseteq B!Numbers
      BY DEF B!Numbers
    <3> QED
      BY <3>1, <3>2, AmountFacts, AmountsAssumption
  <2>3. \A k \in Keys \ mixed : agreed[k] \subseteq {accrual[k]}
    BY DEF BillingInv, KeyIsTrue
  <2> QED
    BY <2>1, <2>2, <2>3 DEF AccountsAgree, B!PayoutsAgree
<1> QED
  BY <1>1, BillingInvariant, PTL

=============================================================================
