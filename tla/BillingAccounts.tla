--------------------------- MODULE BillingAccounts ---------------------------
(***************************************************************************)
(* Subscriptions, milestones and payouts of the billing service.           *)
(*                                                                         *)
(* Every request is one transaction: it reads rows, computes, and get_db   *)
(* commits when the route returns, or rolls back when it raises.  No row   *)
(* is locked when it is read.  The ORM writes back the columns that differ *)
(* from what was read, so that a commit merges into the row of the moment, *)
(* column by column.                                                       *)
(*                                                                         *)
(* Who may call what is left out: a request that is refused for its caller *)
(* writes nothing.  Amounts are in cents.                                  *)
(***************************************************************************)
EXTENDS Integers, FiniteSets

CONSTANTS
    Users,        \* subscribers
    Milestones,
    Keys,         \* idempotency keys of payouts that no tranche asks for
    Requests,     \* requests in flight at the same time
    None,         \* no such row
    Total,        \* total_commitment of a milestone
    \* bounds of the model
    Amounts,      \* amounts that a payout is accrued with
    MaxCreated,   \* created of a Stripe event
    MaxRequests   \* requests altogether

VARIABLES
    sub,        \* subscriptions: the row of each user
    milestone,  \* milestones: the status of each
    tranche,    \* milestone_tranches: the status of the four tranches of each
    payout,     \* payout_ledger: the amounts, by tranche
    accrual,    \* payout_ledger: the amounts, by other keys
    req,        \* the requests and their local variables
    served,     \* how many requests have begun
    \* history of the run, not state of the program
    mixed,      \* users, milestones and keys that two requests worked on at once
    agreed      \* for each key the amounts that were answered as accrued

vars == <<sub, milestone, tranche, payout, accrual, req, served, mixed, agreed>>

-----------------------------------------------------------------------------
(* Types *)

\* TIER_PRICES
TierPrices == [avod |-> 0, svod |-> 799, tvod |-> 0]

Tiers == DOMAIN TierPrices

\* newest is last_stripe_event_ts, and 0 as long as there was none.
Subscriptions ==
    [tier : Tiers, price : {TierPrices[t] : t \in Tiers}, status : {"active", "cancelled"},
     active : BOOLEAN, newest : 0 .. MaxCreated]

MilestoneStates == {"none", "pending", "killed"}

TrancheStates == {"none", "locked", "released", "reverted"}

Numbers == 1 .. 4

Percentage == <<10, 20, 30, 40>>

\* The amount of a tranche, as a column of two decimals rounds it.
Amount(n) == (Total * Percentage[n] + 50) \div 100

\* subscribing  a row is inserted, or updated, with what the request wants
\* updating
\* releasing    the milestone is read; then its tranche
\* paying
\* killing      the milestone is read; then it is updated and its tranches are read
\* reverting
\* accruing     there was no payout with the key
Places == {"idle", "subscribing", "updating", "releasing", "paying", "killing", "reverting",
           "accruing"}

\* on      the user, milestone or key
\* seen    the row of the subscription, as it was read
\* want    the same with what the request assigns
\* number  the tranche to release
\* locked  the tranches it has read as LOCKED
\* fresh   the milestone was not KILLED when it was read
\* amount  the amount to accrue
RequestStates ==
    [at : Places, on : Users \union Milestones \union Keys \union {None},
     seen : Subscriptions \union {None}, want : Subscriptions \union {None},
     number : Numbers, locked : SUBSET Numbers, fresh : BOOLEAN, amount : Amounts \union {0}]

Idle == [at |-> "idle", on |-> None, seen |-> None, want |-> None, number |-> 1,
         locked |-> {}, fresh |-> FALSE, amount |-> 0]

-----------------------------------------------------------------------------
(* Subscriptions: what the operations assign                                 *)

\* subscribe, on a row of another tier
Subscribed(row, t) ==
    [row EXCEPT !.tier = t, !.price = TierPrices[t], !.status = "active", !.active = TRUE]

NewSubscription(t) ==
    [tier |-> t, price |-> TierPrices[t], status |-> "active", active |-> TRUE, newest |-> 0]

\* cancel_subscription, and what an event does that cancels
Cancelled(row) ==
    [row EXCEPT !.tier = "avod", !.price = 0, !.status = "cancelled", !.active = FALSE]

\* Faulty variant: is_active is not set with the status.
SyncedStatusOnly(row, status) == [row EXCEPT !.status = status]

\* sync_subscription_from_stripe, when the status is another one
Synced(row, status) ==
    IF status = "active"
    THEN [row EXCEPT !.status = "active", !.active = TRUE]
    ELSE Cancelled(row)

\* The monotonic guard.
Stale(row, created) == row.newest # 0 /\ created < row.newest

\* UPDATE: the columns that the request has changed.
Merge(row, seen, want) ==
    [c \in DOMAIN row |-> IF want[c] # seen[c] THEN want[c] ELSE row[c]]

-----------------------------------------------------------------------------
(* Requests *)

At(r, place) == req[r].at = place

Begin(r, state) ==
    /\ At(r, "idle")
    /\ served < MaxRequests
    /\ served' = served + 1
    /\ req' = [req EXCEPT ![r] = state]
    /\ mixed' = IF \E v \in Requests : req[v].on = state.on
                THEN mixed \union {state.on} ELSE mixed

End(r) ==
    /\ req' = [req EXCEPT ![r] = Idle]
    /\ UNCHANGED <<served, mixed>>

Move(r, state) ==
    /\ req' = [req EXCEPT ![r] = state]
    /\ UNCHANGED <<served, mixed>>

Init ==
    /\ sub = [u \in Users |-> None]
    /\ milestone = [m \in Milestones |-> "none"]
    /\ tranche = [m \in Milestones |-> [n \in Numbers |-> "none"]]
    /\ payout = [m \in Milestones |-> [n \in Numbers |-> 0]]
    /\ accrual = [k \in Keys |-> 0]
    /\ req = [r \in Requests |-> Idle]
    /\ served = 0
    /\ mixed = {}
    /\ agreed = [k \in Keys |-> {}]

Untouched == UNCHANGED <<sub, milestone, tranche, payout, accrual, agreed>>

\* The request reads the row and assigns; what it assigns is not written yet.
ReadForUpdate(r, u, want) ==
    /\ Begin(r, [Idle EXCEPT !.at = "updating", !.on = u, !.seen = sub[u], !.want = want])
    /\ Untouched

\* subscribe: nothing to do for a row of the same tier, whatever its status.
Subscribe(r, u, t) ==
    \/ /\ sub[u] = None
       /\ Begin(r, [Idle EXCEPT !.at = "subscribing", !.on = u, !.want = NewSubscription(t)])
       /\ Untouched
    \/ /\ sub[u] # None
       /\ sub[u].tier # t
       /\ ReadForUpdate(r, u, Subscribed(sub[u], t))

\* The row is inserted; user_id is unique, and the loser rolls back.
Insert(r) ==
    /\ At(r, "subscribing")
    /\ sub[req[r].on] = None
    /\ sub' = [sub EXCEPT ![req[r].on] = req[r].want]
    /\ End(r)
    /\ UNCHANGED <<milestone, tranche, payout, accrual, agreed>>

Cancel(r, u) ==
    /\ sub[u] # None
    /\ sub[u].status # "cancelled"
    /\ ReadForUpdate(r, u, Cancelled(sub[u]))

\* sync_subscription_from_stripe with a status that maps to one of ours
Sync(r, u, status, created) ==
    /\ sub[u] # None
    /\ ~Stale(sub[u], created)
    /\ LET row == IF sub[u].status # status THEN Synced(sub[u], status) ELSE sub[u] IN
       ReadForUpdate(r, u, [row EXCEPT !.newest = created])

Update(r) ==
    LET u == req[r].on IN
    /\ At(r, "updating")
    /\ sub' = [sub EXCEPT ![u] = Merge(@, req[r].seen, req[r].want)]
    /\ End(r)
    /\ UNCHANGED <<milestone, tranche, payout, accrual, agreed>>

-----------------------------------------------------------------------------
(* Milestones *)

\* create_milestone: the milestone and its four tranches, in one transaction.
CreateMilestone(m) ==
    /\ milestone[m] = "none"
    /\ milestone' = [milestone EXCEPT ![m] = "pending"]
    /\ tranche' = [tranche EXCEPT ![m] = [n \in Numbers |-> "locked"]]
    /\ UNCHANGED <<sub, payout, accrual, req, served, mixed, agreed>>

\* release_tranche reads the milestone, which must not be KILLED.
ReadMilestone(r, m, n) ==
    /\ milestone[m] = "pending"
    /\ Begin(r, [Idle EXCEPT !.at = "releasing", !.on = m, !.number = n])
    /\ Untouched

\* It reads the tranches; TRANCHE_TRANSITIONS lets it release a RELEASED one again.
ReadTranche(r) ==
    LET s == tranche[req[r].on][req[r].number] IN
    /\ At(r, "releasing")
    /\ s \in {"locked", "released"}
    /\ Move(r, [req[r] EXCEPT !.at = "paying",
                              !.locked = IF s = "locked" THEN {req[r].number} ELSE {}])
    /\ Untouched

\* accrue: the row with the key of the tranche, made unless there is one.
Accrued(m, n) ==
    IF payout[m][n] = 0 THEN [payout EXCEPT ![m][n] = Amount(n)] ELSE payout

Release(r) ==
    LET m == req[r].on IN
    /\ At(r, "paying")
    /\ tranche' = [tranche EXCEPT ![m] =
                      [n \in Numbers |-> IF n \in req[r].locked THEN "released" ELSE @[n]]]
    /\ payout' = Accrued(m, req[r].number)
    /\ End(r)
    /\ UNCHANGED <<sub, milestone, accrual, agreed>>

Kill(r, m) ==
    /\ milestone[m] # "none"
    /\ Begin(r, [Idle EXCEPT !.at = "killing", !.on = m, !.fresh = milestone[m] # "killed"])
    /\ Untouched

\* Faulty variant: the first tranche is left.
AllButFirst(m) == {n \in Numbers \ {1} : tranche[m][n] = "locked"}

LockedTranches(m) == {n \in Numbers : tranche[m][n] = "locked"}

\* Before the tranches are read the status is flushed, which takes the row lock.
ReadTranches(r) ==
    LET m == req[r].on IN
    /\ At(r, "killing")
    /\ req[r].fresh => \A v \in Requests : ~(At(v, "reverting") /\ req[v].on = m /\ req[v].fresh)
    /\ Move(r, [req[r] EXCEPT !.at = "reverting", !.locked = LockedTranches(m)])
    /\ Untouched

Revert(r) ==
    LET m == req[r].on IN
    /\ At(r, "reverting")
    /\ milestone' = [milestone EXCEPT ![m] = "killed"]
    /\ tranche' = [tranche EXCEPT ![m] =
                      [n \in Numbers |-> IF n \in req[r].locked THEN "reverted" ELSE @[n]]]
    /\ End(r)
    /\ UNCHANGED <<sub, payout, accrual, agreed>>

-----------------------------------------------------------------------------
(* Payouts by key *)

\* An existing row answers for its own amount only.
SameAmount(k, a) == accrual[k] = a

Agree(k, a) == agreed' = [agreed EXCEPT ![k] = @ \union {a}]

\* accrue_payout: a row with another amount is refused, the same one is a retry.
Accrue(r, k, a) ==
    \/ /\ accrual[k] # 0
       /\ SameAmount(k, a)
       /\ At(r, "idle")
       /\ Agree(k, a)
       /\ UNCHANGED <<sub, milestone, tranche, payout, accrual, req, served, mixed>>
    \/ /\ accrual[k] = 0
       /\ Begin(r, [Idle EXCEPT !.at = "accruing", !.on = k, !.amount = a])
       /\ Untouched

\* PayoutLedgerRepository.accrue: a row that is there by now is the answer.
Post(r) ==
    LET k == req[r].on IN
    /\ At(r, "accruing")
    /\ accrual' = [accrual EXCEPT ![k] = IF @ = 0 THEN req[r].amount ELSE @]
    /\ Agree(k, req[r].amount)
    /\ End(r)
    /\ UNCHANGED <<sub, milestone, tranche, payout>>

\* A request is refused, fails or dies; what it has not committed is lost.
Leave(r) ==
    /\ ~At(r, "idle")
    /\ End(r)
    /\ Untouched

Next ==
    \/ \E r \in Requests :
        \/ \E u \in Users :
            \/ \E t \in Tiers : Subscribe(r, u, t)
            \/ Cancel(r, u)
            \/ \E status \in {"active", "cancelled"}, created \in 1 .. MaxCreated :
                  Sync(r, u, status, created)
        \/ Insert(r) \/ Update(r)
        \/ \E m \in Milestones : Kill(r, m) \/ \E n \in Numbers : ReadMilestone(r, m, n)
        \/ ReadTranche(r) \/ Release(r) \/ ReadTranches(r) \/ Revert(r)
        \/ \E k \in Keys, a \in Amounts : Accrue(r, k, a)
        \/ Post(r) \/ Leave(r)
    \/ \E m \in Milestones : CreateMilestone(m)

Spec == Init /\ [][Next]_vars

-----------------------------------------------------------------------------
(* Properties *)

TypeOK ==
    /\ sub \in [Users -> Subscriptions \union {None}]
    /\ milestone \in [Milestones -> MilestoneStates]
    /\ tranche \in [Milestones -> [Numbers -> TrancheStates]]
    /\ payout \in [Milestones -> [Numbers -> Nat]]
    /\ accrual \in [Keys -> Amounts \union {0}]
    /\ req \in [Requests -> RequestStates]
    /\ served \in 0 .. MaxRequests
    /\ mixed \subseteq Users \union Milestones \union Keys
    /\ agreed \in [Keys -> SUBSET Amounts]

\* is_active and monthly_price are kept beside status and tier: the flag says
\* what the status says however subscribe, cancel and Stripe events overlap;
\* unless two of them worked on the row at once it has the price of its tier, and
\* a cancelled subscription "reverts to AVOD" (cancel_subscription).
ColumnsAgree ==
    \A u \in Users : sub[u] # None =>
        /\ sub[u].active = (sub[u].status = "active")
        /\ u \notin mixed => /\ sub[u].price = TierPrices[sub[u].tier]
                             /\ sub[u].status = "cancelled" => sub[u].tier = "avod"

\* "On release, a corresponding payout accrual is created" (release_tranche) and
\* "revert all unreleased tranches" (kill_milestone): a released tranche has its
\* payout and a killed milestone has no locked tranche, however the two overlap.
TranchesSettled ==
    \A m \in Milestones : \A n \in Numbers :
        /\ tranche[m][n] = "released" => payout[m][n] = Amount(n)
        /\ milestone[m] = "killed" => tranche[m][n] # "locked"

\* "Already-released tranches are NOT clawed back" (kill_milestone): unless two
\* requests worked on the milestone at once, its payouts are those of its released
\* tranches, and together the commitment, to the cent that they round to.  And
\* "If it exists with a DIFFERENT amount, that's a conflict" (accrue_payout): the
\* amounts answered as accrued are that of the row, unless two requests raced.
PayoutsAgree ==
    /\ \A m \in Milestones \ mixed :
        /\ \A n \in Numbers : payout[m][n] # 0 <=> tranche[m][n] = "released"
        /\ payout[m][1] + payout[m][2] + payout[m][3] + payout[m][4] <= Total + 1
    /\ \A k \in Keys \ mixed : agreed[k] \subseteq {accrual[k]}

=============================================================================
