------------------------------ MODULE Creators -------------------------------
(***************************************************************************)
(* The account of a creator in the creators service: its payouts, its pool *)
(* balance, a milestone with its tranches, and the inbound events that     *)
(* suspend it.  Creators and milestones share nothing, so that there is    *)
(* one of each.                                                            *)
(*                                                                         *)
(* A step of a request ends where what it has read is used after an await. *)
(* Repositories commit by themselves; only accrued() locks the account.    *)
(***************************************************************************)
EXTENDS Integers, Sequences, FiniteSetsExt, SequencesExt, TLC

CONSTANTS
    Periods,
    Thresholds,
    Events,       \* ids of inbound events, in the order of their created_at
    Requests,     \* requests in flight at the same time
    Workers,      \* the drain workers, one in each replica
    None,
    PoolPercent,  \* POOL_RATE
    BatchLimit,   \* limit of drain_inbound_events
    \* bounds of the model
    Floors,       \* the floors of a period, in cents
    Earnings,     \* earned_cents of a period
    Fees,         \* stripe_fee_cents of a period
    MaxRequests,  \* requests altogether
    MaxFaults     \* aborts of a worker

VARIABLES
    account,    \* creator_accounts: "none", "active" or "suspended"
    floor,      \* effective_floors: the latest
    pool,       \* creator_pool_balances
    ledger,     \* payout_ledger: the row of each period
    milestone,  \* milestones: "none", "draft" or "killed"
    tranche,    \* milestone_tranches: the status of each threshold
    event,      \* inbound_events
    req, worker,
    \* history of the run, not state of the program
    overtaken,  \* tranches that were released while a kill that had read them was under way
    served, faults

rows == <<account, floor, pool, ledger, milestone, tranche, event>>

vars == <<rows, req, worker, overtaken, served, faults>>

-----------------------------------------------------------------------------
(* Types *)

Accounts == {"none", "active", "suspended"}

Balances == [accrued : Nat, contributed : Nat]

Payouts == [topup : Nat, share : Nat, net : Nat]

MilestoneStatuses == {"none", "draft", "killed"}

Tranches == {None, "locked", "released", "rolled_back"}

\* An event suspends the creator, and its event_key is the id of its row, another
\* UUID or no UUID; or it is of another topic, or about somebody else.
EventKinds == {"own", "uuid", "text", "other"}

InboundEvents == [kind : EventKinds, status : {"pending", "processed", "failed"}]

NoBalance == [accrued |-> 0, contributed |-> 0]

IdleRequest == [at |-> "idle", period |-> None, earned |-> 0, fee |-> 0, floor |-> 0,
                threshold |-> None, seen |-> {}]

\* batch  the events that are still to be handled
\* held   the events it has locked
\* marks  the statuses it has written and not committed
IdleWorker == [at |-> "idle", batch |-> <<>>, held |-> {}, marks |-> <<>>]

Init ==
    /\ account = "none" /\ floor = 0 /\ pool = None
    /\ ledger = [p \in Periods |-> None]
    /\ milestone = "none"
    /\ tranche = [t \in Thresholds |-> None]
    /\ event = [e \in Events |-> None]
    /\ req = [r \in Requests |-> IdleRequest]
    /\ worker = [w \in Workers |-> IdleWorker]
    /\ overtaken = {} /\ served = 0 /\ faults = 0

Becomes(r, q) == req' = [req EXCEPT ![r] = q]

Begin(r) == req[r].at = "idle" /\ served < MaxRequests /\ served' = served + 1

-----------------------------------------------------------------------------
(* The account *)

\* onboard looks for the account of its user.
FindAccount(r) ==
    /\ Begin(r)
    /\ account = "none"
    /\ Becomes(r, [IdleRequest EXCEPT !.at = "onboarding"])
    /\ UNCHANGED <<rows, worker, overtaken, faults>>

\* The account of a user is unique: a second insert fails.
CreateAccount(r) ==
    /\ req[r].at = "onboarding"
    /\ account' = IF account = "none" THEN "active" ELSE account
    /\ Becomes(r, IdleRequest)
    /\ UNCHANGED <<floor, pool, ledger, milestone, tranche, event, worker, overtaken, served, faults>>

SetFloor(r, amount) ==
    /\ Begin(r)
    /\ floor' = amount
    /\ UNCHANGED <<account, pool, ledger, milestone, tranche, event, req, worker, overtaken, faults>>

\* get_my_balance makes the balance if there is none.
GetBalance(r) ==
    /\ Begin(r)
    /\ account # "none"
    /\ pool' = IF pool = None THEN NoBalance ELSE pool
    /\ UNCHANGED <<account, floor, ledger, milestone, tranche, event, req, worker, overtaken, faults>>

Added(balance, field, cents) ==
    LET b == IF balance = None THEN NoBalance ELSE balance IN [b EXCEPT ![field] = @ + cents]

\* One upsert.
Contribute(r, cents) ==
    /\ Begin(r)
    /\ pool' = Added(pool, "contributed", cents)
    /\ UNCHANGED <<account, floor, ledger, milestone, tranche, event, req, worker, overtaken, faults>>

-----------------------------------------------------------------------------
(* Payouts *)

\* accrue_my_payout reads the account twice, with one session: both see what the
\* first one loaded.
LoadAccount(r, period, earned, fee) ==
    /\ Begin(r)
    /\ account = "active"
    /\ Becomes(r, [IdleRequest EXCEPT !.at = "loaded", !.period = period, !.earned = earned, !.fee = fee])
    /\ UNCHANGED <<rows, worker, overtaken, faults>>

ReadFloor(r) ==
    /\ req[r].at = "loaded"
    /\ Becomes(r, [req[r] EXCEPT !.at = "computed", !.floor = floor])
    /\ UNCHANGED <<rows, worker, overtaken, served, faults>>

\* The floor fills the gap below it, and the pool pays a part of that.
Payout(q) ==
    LET topup == Max({0, q.floor - q.earned}) IN
    [topup |-> (topup * PoolPercent) \div 100,
     share |-> q.earned + topup,
     net   |-> q.earned + topup - q.fee]

\* Faulty variant: the account that the request has loaded.
WasActive == TRUE

\* The account is locked and read again.
StillActive == account = "active"

\* The pool is credited with the row of the ledger, once for each period.
Credited(period, payout) ==
    IF ledger[period] = None THEN Added(pool, "accrued", payout.topup) ELSE pool

\* accrued(): one transaction, which holds the account.
Accrue(r) ==
    LET period == req[r].period
        payout == Payout(req[r])
    IN
    /\ req[r].at = "computed"
    /\ IF StillActive /\ payout.net >= 0
       THEN /\ ledger' = [ledger EXCEPT ![period] = IF @ = None THEN payout ELSE @]
            /\ pool' = Credited(period, payout)
       ELSE UNCHANGED <<ledger, pool>>
    /\ Becomes(r, IdleRequest)
    /\ UNCHANGED <<account, floor, milestone, tranche, event, worker, overtaken, served, faults>>

-----------------------------------------------------------------------------
(* Milestones *)

CreateMilestone(r) ==
    /\ Begin(r)
    /\ account # "none" /\ milestone = "none"
    /\ milestone' = "draft"
    /\ UNCHANGED <<account, floor, pool, ledger, tranche, event, req, worker, overtaken, faults>>

\* There is one tranche at a threshold; the status of the milestone does not matter.
AddTranche(r, t) ==
    /\ Begin(r)
    /\ milestone # "none" /\ tranche[t] = None
    /\ tranche' = [tranche EXCEPT ![t] = "locked"]
    /\ UNCHANGED <<account, floor, pool, ledger, milestone, event, req, worker, overtaken, faults>>

\* release_tranche reads the tranche without a lock, ...
FindTranche(r, t) ==
    /\ Begin(r)
    /\ tranche[t] # None
    /\ Becomes(r, [IdleRequest EXCEPT !.at = "releasing", !.threshold = t, !.seen = {tranche[t]}])
    /\ UNCHANGED <<rows, worker, overtaken, faults>>

\* ... and stores a status that differs from the one it read.
Release(r) ==
    LET t == req[r].threshold IN
    /\ req[r].at = "releasing"
    /\ tranche' = IF req[r].seen = {"released"} THEN tranche ELSE [tranche EXCEPT ![t] = "released"]
    /\ overtaken' = IF \E k \in Requests : req[k].at = "killing" /\ t \in req[k].seen
                    THEN overtaken \union {t} ELSE overtaken
    /\ Becomes(r, IdleRequest)
    /\ UNCHANGED <<account, floor, pool, ledger, milestone, event, worker, served, faults>>

\* "Roll back only unreleased tranches. Released ones are immutable."
Unreleased == {t \in Thresholds : tranche[t] \notin {None, "released"}}

\* kill_milestone reads the tranches, and rolls back the ones it has read.
FindUnreleased(r) ==
    /\ Begin(r)
    /\ milestone # "none"
    /\ Becomes(r, [IdleRequest EXCEPT !.at = "killing", !.seen = Unreleased])
    /\ UNCHANGED <<rows, worker, overtaken, faults>>

Kill(r) ==
    /\ req[r].at = "killing"
    /\ milestone' = "killed"
    /\ tranche' = [t \in Thresholds |-> IF t \in req[r].seen THEN "rolled_back" ELSE tranche[t]]
    /\ Becomes(r, IdleRequest)
    /\ UNCHANGED <<account, floor, pool, ledger, event, worker, overtaken, served, faults>>

-----------------------------------------------------------------------------
(* Inbound events *)

\* External: another service writes an event.
Receive(kind) ==
    \E e \in Events :
        /\ \A d \in Events : event[d] = None <=> d >= e
        /\ event' = [event EXCEPT ![e] = [kind |-> kind, status |-> "pending"]]
        /\ UNCHANGED <<account, floor, pool, ledger, milestone, tranche, req, worker, overtaken, served, faults>>

HeldByOthers(w) == UNION {worker[v].held : v \in Workers \ {w}}

\* get_pending: the oldest pending events that nobody has locked
PendingFor(w) ==
    LET pending == {e \in Events : event[e] # None /\ event[e].status = "pending"} \ HeldByOthers(w)
        oldest == SetToSortSeq(pending, <)
    IN SubSeq(oldest, 1, Min({BatchLimit, Len(oldest)}))

Fetch(w) ==
    /\ worker[w].at = "idle"
    /\ PendingFor(w) # <<>>
    /\ worker' = [worker EXCEPT ![w] = [at |-> "draining", batch |-> PendingFor(w),
                                        held |-> ToSet(PendingFor(w)), marks |-> <<>>]]
    /\ UNCHANGED <<rows, req, overtaken, served, faults>>

Marked(marks) ==
    [e \in Events |-> IF e \in DOMAIN marks THEN [event[e] EXCEPT !.status = marks[e]] ELSE event[e]]

Next1(w) == Head(worker[w].batch)

Draining(w) == worker[w].at = "draining" /\ worker[w].batch # <<>> /\ Next1(w) \notin HeldByOthers(w)

Advanced(w, held, marks) ==
    worker' = [worker EXCEPT ![w] = [at |-> "draining", batch |-> Tail(@.batch),
                                     held |-> held, marks |-> marks]]

\* Another topic, or a creator that there is not: marked as failed.
FailEvent(w) ==
    /\ Draining(w)
    /\ LET e == Next1(w) IN
       /\ event[e].kind = "other" \/ account = "none"
       /\ Advanced(w, worker[w].held \union {e}, (e :> "failed") @@ worker[w].marks)
    /\ UNCHANGED <<rows, req, overtaken, served, faults>>

\* mark_processed takes the event_key for the id of the row.
MarkOf(kind, e) ==
    CASE kind = "own"  -> e :> "processed"
      [] kind = "text" -> e :> "failed"
      [] OTHER        -> <<>>

\* process_inbound_suspension.  The update of the account commits what the worker
\* has marked before and gives up its locks.
Suspend(w) ==
    /\ Draining(w)
    /\ LET e == Next1(w)
           mark == MarkOf(event[e].kind, e)
       IN
       /\ event[e].kind # "other" /\ account # "none"
       /\ account' = "suspended"
       /\ event' = Marked(worker[w].marks)
       /\ Advanced(w, DOMAIN mark, mark)
    /\ UNCHANGED <<floor, pool, ledger, milestone, tranche, req, overtaken, served, faults>>

\* The last commit of drain_inbound_events.
CommitBatch(w) ==
    /\ worker[w].at = "draining" /\ worker[w].batch = <<>>
    /\ event' = Marked(worker[w].marks)
    /\ worker' = [worker EXCEPT ![w] = IdleWorker]
    /\ UNCHANGED <<account, floor, pool, ledger, milestone, tranche, req, overtaken, served, faults>>

\* A crash, or a lock that was not to be had in time: rolled back.
AbortBatch(w) ==
    /\ worker[w].at = "draining"
    /\ faults < MaxFaults
    /\ faults' = faults + 1
    /\ worker' = [worker EXCEPT ![w] = IdleWorker]
    /\ UNCHANGED <<rows, req, overtaken, served>>

Next ==
    \/ \E r \in Requests :
        \/ FindAccount(r) \/ CreateAccount(r)
        \/ \E amount \in Floors : SetFloor(r, amount)
        \/ GetBalance(r) \/ Contribute(r, 1)
        \/ \E p \in Periods, earned \in Earnings, fee \in Fees : LoadAccount(r, p, earned, fee)
        \/ ReadFloor(r) \/ Accrue(r)
        \/ CreateMilestone(r)
        \/ \E t \in Thresholds : AddTranche(r, t) \/ FindTranche(r, t)
        \/ Release(r) \/ FindUnreleased(r) \/ Kill(r)
    \/ \E kind \in EventKinds : Receive(kind)
    \/ \E w \in Workers :
        Fetch(w) \/ FailEvent(w) \/ Suspend(w) \/ CommitBatch(w) \/ AbortBatch(w)

Spec == Init /\ [][Next]_vars

-----------------------------------------------------------------------------
(* Properties *)

\* The rows are what the models declare.
TypeOK ==
    /\ account \in Accounts
    /\ floor \in Nat
    /\ pool \in Balances \union {None}
    /\ ledger \in [Periods -> Payouts \union {None}]
    /\ milestone \in MilestoneStatuses
    /\ tranche \in [Thresholds -> Tranches]
    /\ event \in [Events -> InboundEvents \union {None}]

AccruedCents == IF pool = None THEN 0 ELSE pool.accrued

Topups ==
    SumFunctionOnSet([p \in Periods |-> IF ledger[p] = None THEN 0 ELSE ledger[p].topup], Periods)

\* "Insert a period once; credit its pool balance in the same transaction"
\* (accrued) and "Suspended creators cannot accrue payouts" (accrue_payout): the
\* accrued balance moves with the ledger, and neither does once the creator is
\* suspended, also when that commits between the checks of a request and its transaction.
PayoutsAreDue ==
    [][/\ <<pool, ledger>>' # <<pool, ledger>> => AccruedCents' - AccruedCents = Topups' - Topups
       /\ account = "suspended" => ledger' = ledger]_vars

\* "Released tranches stay released -- that is the capital protection guarantee"
\* (kill_milestone), unless the release committed while a kill was under way.
ReleasedStays ==
    [][\A t \in Thresholds \ overtaken :
         tranche[t] = "released" => tranche'[t] = "released"]_vars

=============================================================================
