--------------------------- MODULE RefundAccounts ---------------------------
(***************************************************************************)
(* What the refund ledger promises: the refunds of a charge are decided,   *)
(* each once and for good, and a decision takes the amounts of those it    *)
(* accepts off the invoice, in the same step and within its price.         *)
(***************************************************************************)
EXTENDS Integers, Functions

CONSTANTS Charges, Refunds, ChargeOf, AmountOf, PriceOf

VARIABLES
    decision,   \* the decision on each refund, "none" before it
    refunded    \* the amount taken off the invoice of each charge

vars == <<decision, refunded>>

Undecided(c) == {r \in Refunds : ChargeOf[r] = c /\ decision[r] = "none"}

Total(R) == SumFunctionOnSet(AmountOf, R)

Init ==
    /\ decision = [r \in Refunds |-> "none"]
    /\ refunded = [c \in Charges |-> 0]

\* Some refunds of a charge are accepted, some rejected and some left for review.
Decide(c) ==
    \E accepted, rejected, reviewed \in SUBSET Undecided(c) :
        /\ refunded[c] + Total(accepted) <= PriceOf[c]
        /\ decision' = [r \in Refunds |->
                           IF r \in accepted THEN "PROCESSED"
                           ELSE IF r \in rejected THEN "REJECTED"
                           ELSE IF r \in reviewed THEN "PENDING_REVIEW"
                           ELSE decision[r]]
        /\ refunded' = [refunded EXCEPT ![c] = @ + Total(accepted)]

Next == \E c \in Charges : Decide(c)

Spec == Init /\ [][Next]_vars

=============================================================================
