------------------------------ MODULE MCBilling ------------------------------
(***************************************************************************)
(* The billing service for TLC: invoices and refunds (RefundLedger), and   *)
(* subscriptions, tranches and payouts (BillingAccounts).  They share no   *)
(* state, so that nothing is lost by exploring them side by side: the      *)
(* first state chooses one of them, and only that one takes steps.         *)
(***************************************************************************)
EXTENDS RefundLedger, TLC

CONSTANTS c1, c2, r1, r2, r3, r4, r5

\* Two refunds of 2 do not both fit into the invoice of c1, with r3 of 1 either
\* does.  That of c2 has room for a refund that would be applied twice.
MCChargeOf == [r \in Refunds |-> IF r \in {r4, r5} THEN c2 ELSE c1]
MCAmountOf == [r \in Refunds |-> IF r = r3 THEN 1 ELSE 2]
MCPriceOf == [c \in Charges |-> IF c = c2 THEN 4 ELSE 3]

Event(type, charge, refunds) == [type |-> type, charge |-> charge, refunds |-> refunds]

\* An overdrawn purchase with its payment.  Stripe announces a refund by
\* itself and in the charge, newest first.
MCPurchase ==
    {Event("checkout.session.completed", c1, <<>>),
     Event("payment_intent.succeeded", c1, <<>>),
     Event("refund.created", c1, <<r1>>),
     Event("refund.created", c1, <<r2>>),
     Event("refund.created", c1, <<r3>>),
     Event("charge.refunded", c1, <<r3, r2, r1>>)}

\* The same beside a subscription invoice and its refunds.
MCPurchaseAndSubscription ==
    MCPurchase \union
    {Event("invoice.paid", c2, <<>>),
     Event("payment_intent.succeeded", c2, <<>>),
     Event("refund.created", c2, <<r4>>),
     Event("charge.refunded", c2, <<r5, r4>>)}

-----------------------------------------------------------------------------
CONSTANTS Users, Milestones, Keys, Requests, None, Commitment, Amounts, MaxCreated, MaxRequests

VARIABLES sub, milestone, tranche, paid, accrual, req, served, mixed, agreed

B == INSTANCE BillingAccounts WITH payout <- paid, Total <- Commitment

\* Of a payout, 0 stands for no row: no commitment is so small that a tranche of it
\* rounds to nothing.
ASSUME AmountsAssumption == Commitment \in Nat /\ Commitment >= 5 /\ 0 \notin Amounts

billing == <<sub, milestone, tranche, paid, accrual, req, served, mixed, agreed>>

VARIABLE side

SideInit == Init /\ B!Init /\ side \in {"refunds", "billing"}

SideNext ==
    /\ UNCHANGED side
    /\ \/ side = "refunds" /\ Next /\ UNCHANGED billing
       \/ side = "billing" /\ B!Next /\ UNCHANGED vars

SideSpec == SideInit /\ [][SideNext]_<<side, vars, billing>>

\* Whatever requests overlap, the columns of a subscription agree with each other
\* unless two of them worked on it at once (BillingAccounts).
ColumnsAgree == B!ColumnsAgree

\* A released tranche has its payout and a killed milestone no locked tranche, however
\* a release and a kill overlap; where they do not, payouts and releases match, and
\* what was answered as accrued is what the row says (BillingAccounts).
AccountsAgree == B!TranchesSettled /\ B!PayoutsAgree

\* The requests bear the names of the workers, so that these permutations are enough.
Symmetry == Permutations(Workers)

=============================================================================
