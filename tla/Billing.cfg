SPECIFICATION SideSpec
SYMMETRY Symmetry
CONSTANTS
    NoCharge = NoCharge
    NoEvent = NoEvent
    c1 = c1
    c2 = c2
    r1 = r1
    r2 = r2
    r3 = r3
    r4 = r4
    r5 = r5
    Charges = {c1, c2}
    Refunds = {r1, r2, r3, r4, r5}
    Workers = {w1, w2}
    ChargeOf <- MCChargeOf
    AmountOf <- MCAmountOf
    PriceOf <- MCPriceOf
    Reviewed = {r3, r5}
    Events <- MCPurchaseAndSubscription
    Serial = {c2}
    Users = {u1}
    Milestones = {m1}
    Keys = {k1}
    Requests = {w1, w2}
    None = None
    Commitment = 1005
    Amounts = {1, 2}
    MaxCreated = 2
    MaxRequests = 5
INVARIANTS
    RefundWithinPrice
    ProcessedIsApplied
    ColumnsAgree
    AccountsAgree
PROPERTIES
    ImplementsRefundAccounts
\* The clients may stop asking.
CHECK_DEADLOCK FALSE
