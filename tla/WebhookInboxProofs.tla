-------------------------- MODULE WebhookInboxProofs --------------------------
(***************************************************************************)
(* Proofs about WebhookInbox.                                              *)
(*                                                                         *)
(* ClaimInv is inductive.  LeaseInv is inductive on top of it and speaks    *)
(* of the events that are not late: a request with a claim on one of them  *)
(* is the one the row belongs to.                                          *)
(***************************************************************************)
EXTENDS WebhookInbox, FiniteSetTheorems, TLAPS

-----------------------------------------------------------------------------
(* Types *)

\* The initial state is well typed.
LEMMA InitTypeOK == Init => TypeOK
BY InboxAssumption DEF Init, TypeOK, NoRow, Rows, Statuses, Ages, InboxAssumption

\* Every step keeps the types.
LEMMA StepTypeOK == TypeOK /\ [Next]_vars => TypeOK'
<1> SUFFICES ASSUME TypeOK, [Next]_vars PROVE TypeOK'
    OBVIOUS
<1> USE InboxAssumption DEF TypeOK, InboxAssumption
<1>0. 0 \in Ages
    BY DEF Ages
<1>1. ASSUME NEW w \in Workers, NEW e \in Events, Deliver(w, e) PROVE TypeOK'
    <2>1. Received(e) \in Requests
        BY DEF Received, Idle, Requests, Statuses, Ages
    <2>2. QED
        BY <1>1, <2>1 DEF Deliver
<1>2. ASSUME NEW w \in Workers, Request(w) PROVE TypeOK'
    <2>1. CASE InsertRow(w)
        <3>1. req[w] \in Requests
            BY <2>1 DEF InsertRow, Idle
        <3>2. row'[req[w].event] \in Rows
            BY <2>1, <3>1 DEF InsertRow, Claimed, Rows, Requests, Statuses, Ages
        <3>3. QED
            BY <1>0, <2>1, <3>1, <3>2 DEF InsertRow, Requests, Claimed
    <2>2. CASE NotClaimed(w)
        BY <2>2 DEF NotClaimed, Answer200, Requests, Idle
    <2>3. CASE ReadReclaimable(w)
        <3>1. req[w] \in Requests
            BY <2>3 DEF ReadReclaimable, Idle
        <3>2. row[req[w].event] \in Rows
            BY <3>1 DEF Requests
        <3>3. QED
            BY <1>0, <2>3, <3>1, <3>2 DEF ReadReclaimable, Requests, Rows, Statuses
    <2>4. CASE Reclaim(w)
        <3>1. req[w] \in Requests
            BY <2>4 DEF Reclaim, Idle
        <3>2. Claimed(req[w].attempts + 1, req[w].since) \in Rows
            BY <3>1 DEF Claimed, Rows, Requests, Statuses
        <3>3. QED
            BY <2>4, <3>1, <3>2 DEF Reclaim, Requests, Statuses
    <2>5. CASE LoseReclaim(w)
        BY <2>5 DEF LoseReclaim, Answer200, Requests, Idle
    <2>7. CASE Handle(w)
        BY <2>7 DEF Handle, Answer200, Requests, Idle, Completed, Rows, Statuses
    <2>8. CASE HandlerRaises(w)
        BY <2>8 DEF HandlerRaises, Requests, Idle
    <2>9. CASE MarkFailed(w)
        BY <2>9 DEF MarkFailed, Requests, Idle, Failed, Rows, Statuses
    <2>10. QED
        BY <1>2, <2>1, <2>2, <2>3, <2>4, <2>5, <2>7, <2>8, <2>9 DEF Request
<1>3. ASSUME NEW w \in Workers, Crash(w) PROVE TypeOK'
    BY <1>3 DEF Crash
<1>4. CASE Tick
    <2>1. \A n \in Ages : Older(n) \in Ages
        BY DEF Ages, Older
    <2>2. row' \in [Events -> Rows]
        BY <1>4, <2>1 DEF Tick, Rows
    <2>3. ASSUME NEW w \in Workers PROVE req'[w] \in Requests \union {Idle}
        BY <1>4, <2>1 DEF Tick, Requests, Idle, Leased
    <2>4. req' \in [Workers -> Requests \union {Idle}]
        BY <1>4, <2>3 DEF Tick
    <2>5. late' \subseteq Events
        BY <1>4 DEF Tick, Overrun, Leased, Requests, Idle
    <2>6. QED
        BY <1>4, <2>2, <2>4, <2>5 DEF Tick
<1>5. CASE UNCHANGED vars
    BY <1>5 DEF vars
<1>6. QED
    BY <1>1, <1>2, <1>3, <1>4, <1>5 DEF Next

\* TypeOK holds in every reachable state of the inbox.
THEOREM TypeCorrect == Spec => []TypeOK
BY InitTypeOK, StepTypeOK, PTL DEF Spec

-----------------------------------------------------------------------------
(* Claims *)

\* A claim never exceeds the attempts of the row it was written to.
ClaimsBounded ==
    \A w \in Workers : Holding(req[w]) =>
        /\ row[req[w].event].status # "none"
        /\ req[w].attempts <= row[req[w].event].attempts

\* Only a FAILED or a PROCESSING row is about to be reclaimed.
ReclaimsOpenRows ==
    \A w \in Workers : req[w].at = "reclaiming" => req[w].was \in {"FAILED", "PROCESSING"}

ClaimInv == TypeOK /\ ClaimsBounded /\ ReclaimsOpenRows /\ ClaimsAreExclusive

\* A step that gives no request a claim, takes no row away and lowers no
\* attempts keeps the invariant about claims.
LEMMA ClaimFrame ==
    ASSUME ClaimInv, TypeOK',
           \A w \in Workers :
               \/ req'[w] = Idle
               \/ req'[w].at = "received"
               \/ req'[w].at = "reclaiming" /\ req'[w].was \in {"FAILED", "PROCESSING"}
               \/ /\ Holding(req[w]) /\ Holding(req'[w])
                  /\ req'[w].event = req[w].event
                  /\ req'[w].attempts = req[w].attempts,
           \A e \in Events :
               /\ row[e].status # "none" => row'[e].status # "none"
               /\ row'[e].attempts = row[e].attempts
    PROVE  ClaimInv'
<1> USE DEF ClaimInv, Holding
<1>1. \A w \in Workers : Holding(req'[w]) =>
        /\ Holding(req[w]) /\ req[w] \in Requests
        /\ req'[w].event = req[w].event /\ req'[w].attempts = req[w].attempts
    BY DEF Idle, TypeOK
<1>2. ClaimsBounded'
    BY <1>1 DEF ClaimsBounded, Requests
<1>3. ReclaimsOpenRows'
    BY DEF ReclaimsOpenRows, Idle
<1>4. ClaimsAreExclusive'
    BY <1>1 DEF ClaimsAreExclusive
<1>5. QED
    BY <1>2, <1>3, <1>4

LEMMA InitClaimInv == Init => ClaimInv
BY InitTypeOK DEF Init, ClaimInv, ClaimsBounded, ReclaimsOpenRows, ClaimsAreExclusive, Holding, Idle

LEMMA StepClaimInv == ClaimInv /\ [Next]_vars => ClaimInv'
<1> SUFFICES ASSUME ClaimInv, [Next]_vars PROVE ClaimInv'
    OBVIOUS
<1>0. TypeOK /\ TypeOK'
    BY StepTypeOK DEF ClaimInv
<1>1. ASSUME NEW w \in Workers, InsertRow(w) PROVE ClaimInv'
    <2> DEFINE e == req[w].event
    <2>1. req[w] \in Requests /\ e \in Events
        BY <1>0, <1>1 DEF InsertRow, TypeOK, Idle, Requests
    <2>2. \A v \in Workers : v # w /\ Holding(req[v]) => req[v].event # e
        BY <1>1 DEF InsertRow, ClaimInv, ClaimsBounded
    <2>3. /\ \A v \in Workers : v # w => req'[v] = req[v]
          /\ req'[w].at = "running" /\ req'[w].event = e /\ req'[w].attempts = 1
          /\ row'[e].status = "PROCESSING" /\ row'[e].attempts = 1
          /\ \A f \in Events : f # e => row'[f] = row[f]
        BY <1>0, <1>1, <2>1 DEF InsertRow, TypeOK, Requests, Claimed
    <2> HIDE DEF e
    <2>4. ClaimsBounded'
        BY <1>0, <2>1, <2>2, <2>3 DEF ClaimInv, ClaimsBounded, Holding, TypeOK, Requests, Idle
    <2>5. ReclaimsOpenRows'
        BY <2>3 DEF ClaimInv, ReclaimsOpenRows
    <2>6. ClaimsAreExclusive'
        BY <2>2, <2>3 DEF ClaimInv, ClaimsAreExclusive
    <2>7. QED
        BY <1>0, <2>4, <2>5, <2>6 DEF ClaimInv
<1>2. ASSUME NEW w \in Workers, Reclaim(w) PROVE ClaimInv'
    <2> DEFINE e == req[w].event
    <2>1. req[w] \in Requests /\ e \in Events
        BY <1>0, <1>2 DEF Reclaim, TypeOK, Idle, Requests
    <2>2. /\ row[e].attempts \in Nat /\ row[e].attempts = req[w].attempts
        BY <1>0, <1>2, <2>1 DEF Reclaim, Matches, TypeOK, Rows
    <2>3. /\ \A v \in Workers : v # w => req'[v] = req[v]
          /\ req'[w].at = "running" /\ req'[w].event = e
          /\ req'[w].attempts = row[e].attempts + 1
          /\ row'[e].status = "PROCESSING" /\ row'[e].attempts = row[e].attempts + 1
          /\ \A f \in Events : f # e => row'[f] = row[f]
        BY <1>0, <1>2, <2>1, <2>2 DEF Reclaim, TypeOK, Requests, Claimed
    <2> HIDE DEF e
    <2>4. \A v \in Workers : Holding(req[v]) =>
            /\ req[v] \in Requests
            /\ req[v].event = e => req[v].attempts <= row[e].attempts
        BY <1>0 DEF ClaimInv, ClaimsBounded, TypeOK, Idle, Holding
    <2>5. ClaimsBounded'
        BY <1>0, <2>1, <2>2, <2>3, <2>4 DEF ClaimInv, ClaimsBounded, Holding, TypeOK, Requests
    <2>6. ReclaimsOpenRows'
        BY <2>3 DEF ClaimInv, ReclaimsOpenRows
    <2>7. \A v \in Workers : v # w /\ Holding(req'[v]) /\ req'[v].event = e
                                => req'[v].attempts # row[e].attempts + 1
        BY <2>2, <2>3, <2>4 DEF Requests
    <2>8. ClaimsAreExclusive'
        BY <2>3, <2>7 DEF ClaimInv, ClaimsAreExclusive
    <2>9. QED
        BY <1>0, <2>5, <2>6, <2>8 DEF ClaimInv
<1>3. ASSUME NEW w \in Workers, NEW e \in Events, Deliver(w, e) PROVE ClaimInv'
    BY <1>0, <1>3, ClaimFrame DEF Deliver, Received, TypeOK, ClaimInv, ReclaimsOpenRows, Holding, Requests, Idle
<1>4. ASSUME NEW w \in Workers, NotClaimed(w) \/ LoseReclaim(w) PROVE ClaimInv'
    BY <1>0, <1>4, ClaimFrame DEF NotClaimed, LoseReclaim, Answer200, TypeOK, ClaimInv, ReclaimsOpenRows, Holding, Requests, Idle
<1>5. ASSUME NEW w \in Workers, ReadReclaimable(w) PROVE ClaimInv'
    BY <1>0, <1>5, ClaimFrame
    DEF ReadReclaimable, Reclaimable, TypeOK, ClaimInv, ReclaimsOpenRows, Holding, Requests, Idle
<1>6. ASSUME NEW w \in Workers, Handle(w) PROVE ClaimInv'
    BY <1>0, <1>6, ClaimFrame
    DEF Handle, Completed, Answer200, TypeOK, ClaimInv, ReclaimsOpenRows, Holding, Requests, Idle, Rows
<1>7. ASSUME NEW w \in Workers, HandlerRaises(w) PROVE ClaimInv'
    BY <1>0, <1>7, ClaimFrame DEF HandlerRaises, TypeOK, ClaimInv, ReclaimsOpenRows, Holding, Requests, Idle
<1>8. ASSUME NEW w \in Workers, MarkFailed(w) PROVE ClaimInv'
    BY <1>0, <1>8, ClaimFrame
    DEF MarkFailed, Failed, TypeOK, ClaimInv, ReclaimsOpenRows, Holding, Requests, Idle, Rows
<1>9. ASSUME NEW w \in Workers, Crash(w) PROVE ClaimInv'
    BY <1>0, <1>9, ClaimFrame DEF Crash, TypeOK, ClaimInv, ReclaimsOpenRows, Holding, Requests, Idle
<1>10. CASE Tick
    BY <1>0, <1>10, ClaimFrame
    DEF Tick, Leased, TypeOK, ClaimInv, ReclaimsOpenRows, Holding, Requests, Idle, Rows
<1>11. CASE UNCHANGED vars
    BY <1>0, <1>11 DEF vars, ClaimInv, ClaimsBounded, ReclaimsOpenRows, ClaimsAreExclusive
<1>12. QED
    BY <1>1, <1>2, <1>3, <1>4, <1>5, <1>6, <1>7, <1>8, <1>9, <1>10, <1>11 DEF Next, Request

\* No two requests ever run the handler of an event on the same claim.
THEOREM ClaimsExclusive == Spec => []ClaimsAreExclusive
<1>1. Spec => []ClaimInv
    BY InitClaimInv, StepClaimInv, PTL DEF Spec
<1>2. ClaimInv => ClaimsAreExclusive
    BY DEF ClaimInv
<1>3. QED
    BY <1>1, <1>2, PTL

-----------------------------------------------------------------------------
(* Rows *)

\* No step leaves the status PROCESSED.
LEMMA StepProcessedIsFinal ==
    ClaimInv /\ [Next]_vars
        => \A e \in Events : row[e].status = "PROCESSED" => row'[e] = row[e]
<1> SUFFICES ASSUME ClaimInv, [Next]_vars,
                    NEW f \in Events, row[f].status = "PROCESSED"
             PROVE  row'[f] = row[f]
    OBVIOUS
<1> USE DEF ClaimInv, TypeOK
<1>1. ASSUME NEW w \in Workers, Request(w) PROVE row'[f] = row[f]
    <2>1. CASE InsertRow(w)
        BY <2>1 DEF InsertRow
    <2>2. CASE Reclaim(w)
        BY <2>2 DEF Reclaim, Matches, ReclaimsOpenRows
    <2>3. CASE Handle(w)
        BY <2>3 DEF Handle, Completed
    <2>4. CASE MarkFailed(w)
        BY <2>4 DEF MarkFailed, Failed
    <2>5. QED
        BY <1>1, <2>1, <2>2, <2>3, <2>4
        DEF Request, NotClaimed, ReadReclaimable, LoseReclaim, HandlerRaises
<1>2. CASE Tick
    BY <1>2 DEF Tick
<1>3. QED
    BY <1>1, <1>2 DEF Next, Deliver, Crash, vars

\* A PROCESSED event is never opened again.
THEOREM ProcessedFinal == Spec => ProcessedIsFinal
BY InitClaimInv, StepClaimInv, StepProcessedIsFinal, PTL DEF Spec, ProcessedIsFinal

LEMMA StepProcessedWasHandled ==
    ClaimInv /\ ProcessedWasHandled /\ [Next]_vars => ProcessedWasHandled'
<1> SUFFICES ASSUME ClaimInv, ProcessedWasHandled, [Next]_vars,
                    NEW f \in KnownTypes, row'[f].status = "PROCESSED"
             PROVE  applied'[f] # {}
    BY DEF ProcessedWasHandled
<1> USE InboxAssumption DEF ClaimInv, TypeOK, ProcessedWasHandled, InboxAssumption
<1>1. f \in Events
    OBVIOUS
<1>2. ASSUME NEW w \in Workers, Request(w) PROVE applied'[f] # {}
    <2>1. CASE InsertRow(w)
        BY <1>1, <2>1 DEF InsertRow, Claimed
    <2>2. CASE Reclaim(w)
        BY <1>1, <2>2 DEF Reclaim, Claimed
    <2>4. CASE Handle(w)
        BY <1>1, <2>4 DEF Handle, Completed
    <2>5. CASE MarkFailed(w)
        BY <1>1, <2>5 DEF MarkFailed, Failed, Rows
    <2>6. QED
        BY <1>2, <2>1, <2>2, <2>4, <2>5
        DEF Request, NotClaimed, ReadReclaimable, LoseReclaim, HandlerRaises
<1>3. CASE Tick
    BY <1>1, <1>3 DEF Tick
<1>4. QED
    BY <1>1, <1>2, <1>3 DEF Next, Deliver, Crash, vars

\* An event is marked PROCESSED only with its effects committed.
THEOREM ProcessedHandled == Spec => []ProcessedWasHandled
<1>1. Init => ProcessedWasHandled
    BY InboxAssumption DEF Init, ProcessedWasHandled, NoRow, InboxAssumption
<1>2. QED
    BY <1>1, InitClaimInv, StepClaimInv, StepProcessedWasHandled, PTL DEF Spec

-----------------------------------------------------------------------------
(* Leases, of the events that are not late *)

\* The row of a request with a claim is in the state that the claim wrote.
RowIsHeld ==
    \A w \in Workers : Holding(req[w]) /\ req[w].event \notin late =>
        /\ row[req[w].event].status = "PROCESSING"
        /\ row[req[w].event].attempts = req[w].attempts
        /\ row[req[w].event].age = req[w].since

LeaseRuns ==
    \A w \in Workers : Leased(req[w]) /\ req[w].event \notin late => req[w].since < StaleAfter

\* What a request that reclaims has read is of the past, or still so.
SeenIsPast ==
    \A w \in Workers : req[w].at = "reclaiming" /\ req[w].event \notin late =>
        /\ row[req[w].event].status # "none"
        /\ req[w].attempts <= row[req[w].event].attempts
        /\ req[w].was = "PROCESSING" /\ Matches(row[req[w].event], req[w])
              => Stale(row[req[w].event])

LeaseInv ==
    ClaimInv /\ RowIsHeld /\ LeaseRuns /\ SeenIsPast /\ SuccessMarksProcessed /\ EffectsAtMostOnce

\* At most one request holds a claim on an event.
LEMMA OneHolder ==
    ASSUME LeaseInv, NEW v \in Workers, NEW w \in Workers,
           Holding(req[v]), Holding(req[w]), req[v].event = req[w].event,
           req[v].event \notin late
    PROVE  v = w
BY DEF LeaseInv, RowIsHeld, ClaimInv, ClaimsAreExclusive

\* Nobody holds a claim on the row that a reclaim matches.
LEMMA ReclaimedRowIsFree ==
    ASSUME LeaseInv, NEW w \in Workers, NEW v \in Workers,
           req[w].at = "reclaiming", Matches(row[req[w].event], req[w]),
           Holding(req[v]), req[v].event = req[w].event, req[v].event \notin late
    PROVE  FALSE
<1>1. req[v] \in Requests /\ req[v].event \in Events
    BY DEF LeaseInv, ClaimInv, TypeOK, Holding, Idle, Requests
<1>2. /\ row[req[w].event].status = "PROCESSING"
      /\ row[req[w].event].age = req[v].since
      /\ req[v].since < StaleAfter
    BY DEF LeaseInv, RowIsHeld, LeaseRuns, Holding, Leased
<1>3. Stale(row[req[w].event])
    BY <1>2 DEF LeaseInv, SeenIsPast, Matches
<1>4. QED
    BY <1>1, <1>2, <1>3, InboxAssumption DEF Stale, Requests, Ages, InboxAssumption

\* The request w, whose claim it is, ends the attempt and leaves the row in no
\* state in which it is held.
LEMMA EndOfAttempt ==
    ASSUME LeaseInv, ClaimInv', NEW w \in Workers,
           Holding(req[w]), req[w].event \notin late, late' = late,
           req' = [req EXCEPT ![w] = Idle],
           NEW s \in {"PROCESSED", "FAILED"},
           row' = [row EXCEPT ![req[w].event] = [@ EXCEPT !.status = s]]
    PROVE  RowIsHeld' /\ LeaseRuns' /\ SeenIsPast'
<1> USE DEF LeaseInv
<1>1. req[w].event \in Events /\ TypeOK
    BY DEF ClaimInv, TypeOK, Holding, Idle, Requests
<1>2. \A v \in Workers : v # w => req'[v] = req[v]
    BY <1>1 DEF TypeOK
<1>3. req'[w] = Idle
    BY <1>1 DEF TypeOK
<1>4. \A f \in Events : f # req[w].event => row'[f] = row[f]
    BY <1>1 DEF TypeOK
<1>5. /\ row'[req[w].event].status = s
      /\ row'[req[w].event].attempts = row[req[w].event].attempts
    BY <1>1 DEF TypeOK, Rows
<1>6. RowIsHeld'
    <2> SUFFICES ASSUME NEW v \in Workers, Holding(req'[v]), req'[v].event \notin late
                 PROVE  /\ row'[req'[v].event].status = "PROCESSING"
                        /\ row'[req'[v].event].attempts = req'[v].attempts
                        /\ row'[req'[v].event].age = req'[v].since
        BY DEF RowIsHeld
    <2>1. v # w /\ req'[v] = req[v]
        BY <1>2, <1>3 DEF Holding, Idle
    <2>2. req[v].event # req[w].event /\ req[v].event \in Events
        BY <1>1, <2>1, OneHolder DEF TypeOK, Holding, Idle, Requests
    <2>3. QED
        BY <1>4, <2>1, <2>2 DEF RowIsHeld
<1>7. LeaseRuns'
    BY <1>2, <1>3 DEF LeaseRuns, Leased, Idle
<1>8. SeenIsPast'
    <2> SUFFICES ASSUME NEW v \in Workers, req'[v].at = "reclaiming", req'[v].event \notin late'
                 PROVE  /\ row'[req'[v].event].status # "none"
                        /\ req'[v].attempts <= row'[req'[v].event].attempts
                        /\ req'[v].was = "PROCESSING" /\ Matches(row'[req'[v].event], req'[v])
                              => Stale(row'[req'[v].event])
        BY DEF SeenIsPast
    <2>1. req'[v] = req[v] /\ req[v].event \in Events
        BY <1>1, <1>2, <1>3 DEF TypeOK, Idle, Requests
    <2>2. CASE req[v].event = req[w].event
        BY <1>5, <2>1, <2>2 DEF SeenIsPast, Matches
    <2>3. CASE req[v].event # req[w].event
        BY <1>4, <2>1, <2>3 DEF SeenIsPast
    <2>4. QED
        BY <2>2, <2>3
<1>9. QED
    BY <1>6, <1>7, <1>8

\* Steps that leave the rows alone and give no request a claim.
LEMMA LeaseFrame ==
    ASSUME LeaseInv, ClaimInv', row' = row, applied' = applied, late' = late,
           \A w \in Workers :
               \/ req'[w] \in {req[w], Idle}
               \/ req'[w].at = "received"
               \/ /\ Holding(req[w]) /\ Holding(req'[w])
                  /\ req'[w].event = req[w].event
                  /\ req'[w].attempts = req[w].attempts
                  /\ req'[w].since = req[w].since
    PROVE  LeaseInv'
<1> USE DEF LeaseInv
<1>1. RowIsHeld'
    BY DEF RowIsHeld, Holding, Idle
<1>2. LeaseRuns'
    BY DEF LeaseRuns, Leased, Holding, Idle
<1>3. SeenIsPast'
    BY DEF SeenIsPast, Holding, Idle
<1>4. (SuccessMarksProcessed /\ EffectsAtMostOnce)'
    BY DEF SuccessMarksProcessed, EffectsAtMostOnce
<1>5. QED
    BY <1>1, <1>2, <1>3, <1>4

\* Steps of a request of a late event, about which the invariant says nothing.
LEMMA LateFrame ==
    ASSUME LeaseInv, ClaimInv', late' = late, NEW w \in Workers, req[w].event \in late,
           req'[w] = Idle \/ req'[w].event = req[w].event,
           \A v \in Workers : v # w => req'[v] = req[v],
           \A f \in Events : f # req[w].event => row'[f] = row[f] /\ applied'[f] = applied[f]
    PROVE  LeaseInv'
<1> USE DEF LeaseInv
<1>1. \A v \in Workers : Leased(req'[v]) /\ req'[v].event \notin late =>
        /\ req'[v] = req[v] /\ req[v].event \in Events /\ req[v].event # req[w].event
        /\ row'[req[v].event] = row[req[v].event]
    BY DEF ClaimInv, TypeOK, Leased, Idle, Requests
<1>2. RowIsHeld' /\ LeaseRuns' /\ SeenIsPast'
    BY <1>1 DEF RowIsHeld, LeaseRuns, SeenIsPast, Holding, Leased
<1>3. (SuccessMarksProcessed /\ EffectsAtMostOnce)'
    BY DEF SuccessMarksProcessed, EffectsAtMostOnce
<1>4. QED
    BY <1>2, <1>3

LEMMA InitLeaseInv == Init => LeaseInv
BY InitClaimInv, InboxAssumption
DEF Init, LeaseInv, RowIsHeld, LeaseRuns, SeenIsPast, SuccessMarksProcessed, EffectsAtMostOnce,
    Holding, Leased, Idle, InboxAssumption

LEMMA InsertRowLeaseInv ==
    ASSUME LeaseInv, ClaimInv', NEW w \in Workers, InsertRow(w) PROVE LeaseInv'
<1> DEFINE e == req[w].event
<1>1. TypeOK /\ ClaimInv
    BY DEF LeaseInv, ClaimInv
<1>2. req[w] \in Requests /\ e \in Events
    BY <1>1 DEF InsertRow, TypeOK, Idle, Requests
<1>3. \A v \in Workers : v # w =>
        /\ req'[v] = req[v]
        /\ (Holding(req[v]) \/ req[v].at = "reclaiming") /\ req[v].event \notin late =>
              req[v].event # e /\ req[v].event \in Events
    BY <1>1, <1>2 DEF InsertRow, TypeOK, LeaseInv, ClaimInv, ClaimsBounded, SeenIsPast, Requests, Idle, Holding
<1>4. /\ req'[w].at = "running" /\ req'[w].event = e /\ req'[w].attempts = 1 /\ req'[w].since = 0
      /\ row'[e].status = "PROCESSING" /\ row'[e].attempts = 1 /\ row'[e].age = 0
      /\ \A f \in Events : f # e => row'[f] = row[f]
      /\ applied' = applied /\ late' = late
    BY <1>1, <1>2 DEF InsertRow, TypeOK, Requests, Claimed
<1>5. row[e].status = "none"
    BY DEF InsertRow
<1> HIDE DEF e
<1>6. RowIsHeld'
    BY <1>3, <1>4 DEF LeaseInv, RowIsHeld, Holding
<1>7. LeaseRuns'
    BY <1>3, <1>4, InboxAssumption DEF LeaseInv, LeaseRuns, Leased, InboxAssumption
<1>8. SeenIsPast'
    BY <1>3, <1>4 DEF LeaseInv, SeenIsPast
<1>9. (SuccessMarksProcessed /\ EffectsAtMostOnce)'
    BY <1>4, <1>5 DEF LeaseInv, SuccessMarksProcessed, EffectsAtMostOnce
<1>10. QED
    BY <1>6, <1>7, <1>8, <1>9 DEF LeaseInv

LEMMA ReadReclaimableLeaseInv ==
    ASSUME LeaseInv, ClaimInv', NEW w \in Workers, ReadReclaimable(w) PROVE LeaseInv'
<1> DEFINE e == req[w].event
<1>1. TypeOK
    BY DEF LeaseInv, ClaimInv
<1>2. req[w] \in Requests /\ e \in Events
    BY <1>1 DEF ReadReclaimable, TypeOK, Idle, Requests
<1>3. \A v \in Workers : v # w => req'[v] = req[v]
    BY <1>1, <1>2 DEF ReadReclaimable, TypeOK
<1>4. /\ req'[w].at = "reclaiming" /\ req'[w].event = e /\ req'[w].was = row[e].status
      /\ req'[w].attempts = row[e].attempts /\ req'[w].since = 0
      /\ row[e].status # "none"
      /\ row[e].status = "PROCESSING" => Stale(row[e])
      /\ row[e].attempts \in Nat
      /\ row' = row /\ applied' = applied /\ late' = late
    BY <1>1, <1>2 DEF ReadReclaimable, Reclaimable, TypeOK, Requests, Rows
<1> HIDE DEF e
<1>5. RowIsHeld'
    BY <1>3, <1>4 DEF LeaseInv, RowIsHeld, Holding
<1>6. LeaseRuns'
    BY <1>3, <1>4, InboxAssumption DEF LeaseInv, LeaseRuns, Leased, InboxAssumption
<1>7. SeenIsPast'
    BY <1>3, <1>4 DEF LeaseInv, SeenIsPast
<1>8. (SuccessMarksProcessed /\ EffectsAtMostOnce)'
    BY <1>4 DEF LeaseInv, SuccessMarksProcessed, EffectsAtMostOnce
<1>9. QED
    BY <1>5, <1>6, <1>7, <1>8 DEF LeaseInv

LEMMA ReclaimLeaseInv ==
    ASSUME LeaseInv, ClaimInv', NEW w \in Workers, Reclaim(w) PROVE LeaseInv'
<1> DEFINE e == req[w].event
<1>1. TypeOK /\ req[w].at = "reclaiming" /\ Matches(row[e], req[w])
    BY DEF LeaseInv, ClaimInv, Reclaim
<1>2. req[w] \in Requests /\ e \in Events /\ row[e].attempts \in Nat
    BY <1>1 DEF TypeOK, Idle, Requests, Rows
<1>3. \A v \in Workers : v # w =>
        /\ req'[v] = req[v]
        /\ Holding(req[v]) /\ req[v].event \notin late => req[v].event # e /\ req[v].event \in Events
    BY <1>1, <1>2, ReclaimedRowIsFree DEF Reclaim, TypeOK, Requests, Idle, Holding
<1>4. /\ req'[w].at = "running" /\ req'[w].event = e /\ req'[w].since = req[w].since
      /\ req'[w].attempts = row[e].attempts + 1
      /\ row'[e].status = "PROCESSING" /\ row'[e].attempts = row[e].attempts + 1
      /\ row'[e].age = req[w].since
      /\ \A f \in Events : f # e => row'[f] = row[f]
      /\ applied' = applied /\ late' = late
    BY <1>1, <1>2 DEF Reclaim, Matches, TypeOK, Requests, Claimed
<1>5. \A v \in Workers : req[v].at = "reclaiming" =>
        req[v].event \in Events /\ req[v].attempts \in Nat
    BY <1>1 DEF TypeOK, Requests, Idle
<1>6. row[e].status # "PROCESSED" /\ (e \notin late => req[w].since < StaleAfter)
    BY <1>1 DEF LeaseInv, ClaimInv, ReclaimsOpenRows, Matches, LeaseRuns, Leased
<1> HIDE DEF e
<1>7. RowIsHeld'
    BY <1>3, <1>4 DEF LeaseInv, RowIsHeld, Holding
<1>8. LeaseRuns'
    BY <1>3, <1>4, <1>6 DEF LeaseInv, LeaseRuns, Leased
<1>9. SeenIsPast'
    BY <1>2, <1>3, <1>4, <1>5 DEF LeaseInv, SeenIsPast, Matches
<1>10. (SuccessMarksProcessed /\ EffectsAtMostOnce)'
    BY <1>4, <1>6 DEF LeaseInv, SuccessMarksProcessed, EffectsAtMostOnce
<1>11. QED
    BY <1>7, <1>8, <1>9, <1>10 DEF LeaseInv

LEMMA EndLeaseInv ==
    ASSUME LeaseInv, ClaimInv', NEW w \in Workers, Handle(w) \/ MarkFailed(w)
    PROVE  LeaseInv'
<1> DEFINE e == req[w].event
<1>1. TypeOK /\ Holding(req[w]) /\ late' = late
    BY DEF LeaseInv, ClaimInv, Handle, MarkFailed, Holding
<1>2. e \in Events
    BY <1>1 DEF TypeOK, Holding, Idle, Requests
<1>3. req' = [req EXCEPT ![w] = Idle]
    BY DEF Handle, MarkFailed, Answer200
<1>4. CASE e \in late
    <2>1. \A f \in Events : f # e => row'[f] = row[f] /\ applied'[f] = applied[f]
        BY <1>1, <1>2 DEF Handle, MarkFailed, TypeOK
    <2>2. QED
        BY <1>1, <1>3, <1>4, <2>1, LateFrame DEF TypeOK
<1>5. CASE e \notin late
    <2>1. row[e].status = "PROCESSING" /\ applied[e] = {}
        BY <1>1, <1>2, <1>5 DEF LeaseInv, RowIsHeld, SuccessMarksProcessed
    <2>2. CASE Handle(w)
        <3>1. row' = [row EXCEPT ![e] = [@ EXCEPT !.status = "PROCESSED"]]
            BY <1>1, <1>2, <2>1, <2>2 DEF Handle, Completed, TypeOK
        <3>2. RowIsHeld' /\ LeaseRuns' /\ SeenIsPast'
            BY <1>1, <1>3, <1>5, <3>1, EndOfAttempt
        <3>3. /\ \A f \in Events : f # e => applied'[f] = applied[f] /\ row'[f] = row[f]
              /\ row'[e].status = "PROCESSED"
              /\ applied'[e] \in {{}, {req[w].attempts}}
            BY <1>1, <1>2, <2>1, <2>2, <3>1 DEF Handle, TypeOK, Rows
        <3> HIDE DEF e
        <3>4. (SuccessMarksProcessed /\ EffectsAtMostOnce)'
            BY <1>1, <3>3 DEF LeaseInv, SuccessMarksProcessed, EffectsAtMostOnce
        <3>5. QED
            BY <3>2, <3>4 DEF LeaseInv
    <2>3. CASE MarkFailed(w)
        <3>1. row' = [row EXCEPT ![e] = [@ EXCEPT !.status = "FAILED"]]
            BY <1>1, <1>2, <2>1, <2>3 DEF MarkFailed, Failed, TypeOK
        <3>2. RowIsHeld' /\ LeaseRuns' /\ SeenIsPast'
            BY <1>1, <1>3, <1>5, <3>1, EndOfAttempt
        <3>3. /\ applied' = applied
              /\ \A f \in Events : f # e => row'[f] = row[f]
            BY <1>1, <2>3, <3>1 DEF MarkFailed, TypeOK
        <3> HIDE DEF e
        <3>4. (SuccessMarksProcessed /\ EffectsAtMostOnce)'
            BY <1>1, <2>1, <3>3 DEF LeaseInv, SuccessMarksProcessed, EffectsAtMostOnce
        <3>5. QED
            BY <3>2, <3>4 DEF LeaseInv
    <2>4. QED
        BY <2>2, <2>3
<1>6. QED
    BY <1>4, <1>5

LEMMA TickLeaseInv ==
    ASSUME LeaseInv, ClaimInv', Tick PROVE LeaseInv'
<1>1. TypeOK
    BY DEF LeaseInv, ClaimInv
<1>2. StaleAfter \in Nat
    BY InboxAssumption DEF InboxAssumption
<1>3. \A w \in Workers : Leased(req[w]) => req[w] \in Requests /\ req[w].event \in Events
    BY <1>1 DEF TypeOK, Leased, Idle, Requests
<1>0. late \subseteq late'
    BY DEF Tick
<1>4. \A w \in Workers : Leased(req[w]) /\ req[w].event \notin late' =>
        /\ req[w].since \in Nat /\ req[w].since + 1 < StaleAfter
        /\ req'[w].since = req[w].since + 1
    <2> SUFFICES ASSUME NEW w \in Workers, Leased(req[w]), req[w].event \notin late'
                 PROVE  /\ req[w].since \in Nat /\ req[w].since + 1 < StaleAfter
                        /\ req'[w].since = req[w].since + 1
        OBVIOUS
    <2>1. req[w].since \in Nat
        BY <1>2, <1>3 DEF Requests, Ages
    <2>2. ~(req[w].since + 1 >= StaleAfter)
        BY DEF Tick, Overrun
    <2>3. req'[w].since = Older(req[w].since)
        BY <1>1, <1>3 DEF Tick, TypeOK, Requests
    <2>4. QED
        BY <1>2, <2>1, <2>2, <2>3 DEF Older
<1>5. \A w \in Workers :
        /\ req'[w].at = req[w].at /\ req'[w].event = req[w].event
        /\ req'[w].attempts = req[w].attempts /\ req'[w].was = req[w].was
    BY <1>1 DEF Tick, TypeOK, Requests, Idle
<1>6. \A e \in Events :
        /\ row'[e].status = row[e].status /\ row'[e].attempts = row[e].attempts
        /\ row[e].status = "PROCESSING" => row'[e].age = Older(row[e].age)
        /\ row[e].age \in Nat /\ row[e].age <= StaleAfter
    BY <1>1, <1>2 DEF Tick, TypeOK, Rows, Ages
<1>7. applied' = applied
    BY DEF Tick
<1>8. RowIsHeld'
    BY <1>0, <1>2, <1>3, <1>4, <1>5, <1>6 DEF LeaseInv, RowIsHeld, Holding, Leased, Older
<1>9. LeaseRuns'
    BY <1>4, <1>5 DEF LeaseRuns, Leased
<1>10. SeenIsPast'
    <2> SUFFICES ASSUME NEW v \in Workers, req'[v].at = "reclaiming", req'[v].event \notin late'
                 PROVE  /\ row'[req'[v].event].status # "none"
                        /\ req'[v].attempts <= row'[req'[v].event].attempts
                        /\ req'[v].was = "PROCESSING" /\ Matches(row'[req'[v].event], req'[v])
                              => Stale(row'[req'[v].event])
        BY DEF SeenIsPast
    <2>1. Leased(req[v]) /\ req[v].at = "reclaiming" /\ req[v].event \in Events
        BY <1>3, <1>5 DEF Leased
    <2>2. \A n \in Nat : n >= StaleAfter => Older(n) >= StaleAfter
        BY <1>2 DEF Older
    <2>3. QED
        BY <1>0, <1>5, <1>6, <2>1, <2>2 DEF LeaseInv, SeenIsPast, Matches, Stale
<1>11. (SuccessMarksProcessed /\ EffectsAtMostOnce)'
    BY <1>0, <1>6, <1>7 DEF LeaseInv, SuccessMarksProcessed, EffectsAtMostOnce
<1>12. QED
    BY <1>8, <1>9, <1>10, <1>11 DEF LeaseInv

LEMMA StepLeaseInv ==
    ASSUME LeaseInv, [Next]_vars PROVE LeaseInv'
<1>1. ClaimInv' /\ TypeOK
    BY StepClaimInv DEF LeaseInv, ClaimInv
<1>2. ASSUME NEW w \in Workers, NEW e \in Events, Deliver(w, e) PROVE LeaseInv'
    BY <1>1, <1>2, LeaseFrame DEF Deliver, Received, TypeOK
<1>3. ASSUME NEW w \in Workers, Request(w) PROVE LeaseInv'
    <2>1. CASE NotClaimed(w) \/ LoseReclaim(w)
        BY <1>1, <2>1, LeaseFrame DEF NotClaimed, LoseReclaim, Answer200, TypeOK
    <2>2. CASE HandlerRaises(w)
        BY <1>1, <2>2, LeaseFrame DEF HandlerRaises, TypeOK, Holding, Requests, Idle
    <2>3. QED
        BY <1>1, <1>3, <2>1, <2>2, InsertRowLeaseInv, ReadReclaimableLeaseInv,
           ReclaimLeaseInv, EndLeaseInv DEF Request
<1>4. ASSUME NEW w \in Workers, Crash(w) PROVE LeaseInv'
    BY <1>1, <1>4, LeaseFrame DEF Crash, TypeOK
<1>5. CASE Tick
    BY <1>1, <1>5, TickLeaseInv
<1>6. CASE UNCHANGED vars
    BY <1>1, <1>6, LeaseFrame DEF vars
<1>7. QED
    BY <1>2, <1>3, <1>4, <1>5, <1>6 DEF Next

\* The effects of an event commit at most once and then the row says so, however
\* often it is redelivered and wherever requests die, unless one outlives its lease.
THEOREM AtMostOnce == Spec => [](EffectsAtMostOnce /\ SuccessMarksProcessed)
<1>1. LeaseInv /\ [Next]_vars => LeaseInv'
    BY StepLeaseInv
<1>2. LeaseInv => EffectsAtMostOnce /\ SuccessMarksProcessed
    BY DEF LeaseInv
<1>3. QED
    BY <1>1, <1>2, InitLeaseInv, PTL DEF Spec

-----------------------------------------------------------------------------
(* Refinement of OnceHandled *)

LEMMA InitOnce == Init => Once!Init
BY FS_EmptySet DEF Init, Once!Init, Phase, Effects, NoRow

\* A step that opens or closes no row is a stutter of OnceHandled.
LEMMA OnceStutter ==
    ASSUME late' = late,
           \A e \in Events \ late :
               /\ applied'[e] = applied[e]
               /\ \/ row'[e].status = row[e].status
                  \/ /\ row[e].status \in {"PROCESSING", "FAILED"}
                     /\ row'[e].status \in {"PROCESSING", "FAILED"}
    PROVE  UNCHANGED Once!vars
<1>1. \A e \in Events : Phase(e)' = Phase(e) /\ Effects(e)' = Effects(e)
    BY DEF Phase, Effects
<1>2. QED
    BY <1>1 DEF Once!vars

LEMMA InsertRowOnce ==
    ASSUME LeaseInv, NEW w \in Workers, InsertRow(w) PROVE [Once!Next]_(Once!vars)
<1>0. TypeOK
    BY DEF LeaseInv, ClaimInv
<1>1. PICK e \in Events : e = req[w].event
    BY <1>0 DEF InsertRow, TypeOK, Requests, Idle
<1>2. /\ row[e].status = "none" /\ row'[e].status = "PROCESSING"
      /\ applied' = applied /\ late' = late
      /\ \A f \in Events : f # e => row'[f] = row[f]
    BY <1>0, <1>1 DEF InsertRow, Claimed, TypeOK
<1>3. CASE e \in late
    BY <1>2, <1>3, OnceStutter
<1>4. CASE e \notin late
    <2>1. /\ Phase(e) = "new" /\ Phase(e)' = "open"
          /\ \A f \in Events : f # e => Phase(f)' = Phase(f)
          /\ \A f \in Events : Effects(f)' = Effects(f)
        BY <1>2, <1>4 DEF Phase, Effects
    <2>2. Once!Open(e)
        BY <1>1, <2>1 DEF Once!Open
    <2>3. QED
        BY <1>1, <2>2 DEF Once!Next
<1>5. QED
    BY <1>3, <1>4

LEMMA HandleOnce ==
    ASSUME LeaseInv, NEW w \in Workers, Handle(w) PROVE [Once!Next]_(Once!vars)
<1>0. TypeOK
    BY DEF LeaseInv, ClaimInv
<1>1. Holding(req[w]) /\ \E f \in Events : f = req[w].event
    BY <1>0 DEF Handle, TypeOK, Requests, Idle, Holding
<1> PICK e \in Events : e = req[w].event
    BY <1>1
<1>2. /\ late' = late
      /\ \A f \in Events : f # e => row'[f] = row[f] /\ applied'[f] = applied[f]
      /\ row'[e] = Completed(row[e])
      /\ applied'[e] = IF e \in KnownTypes THEN applied[e] \union {req[w].attempts} ELSE applied[e]
    BY <1>0, <1>1 DEF Handle, TypeOK
<1>3. CASE e \in late
    <2>1. QED
        BY <1>2, <1>3, OnceStutter
<1>4. CASE e \notin late
    <2>1. row[e].status = "PROCESSING" /\ applied[e] = {}
        BY <1>1, <1>4 DEF LeaseInv, RowIsHeld, SuccessMarksProcessed
    <2>2. row'[e].status = "PROCESSED"
        BY <1>0, <1>1, <1>2, <2>1 DEF Completed, TypeOK, Rows
    <2>3. applied'[e] = IF e \in KnownTypes THEN {req[w].attempts} ELSE {}
        BY <1>2, <2>1
    <2>4. /\ Phase(e) = "open" /\ Phase(e)' = "done"
          /\ \A f \in Events : f # e => Phase(f)' = Phase(f)
        BY <1>2, <1>4, <2>1, <2>2 DEF Phase
    <2>5. /\ Effects(e) = 0
          /\ Effects(e)' = IF e \in KnownTypes THEN 1 ELSE 0
          /\ \A f \in Events : f # e => Effects(f)' = Effects(f)
        BY <1>2, <1>4, <2>1, <2>3, FS_EmptySet, FS_Singleton DEF Effects
    <2>6. Once!Finish(e)
        <3>1. [f \in Events |-> Phase(f)'] = [[f \in Events |-> Phase(f)] EXCEPT ![e] = "done"]
            BY <1>1, <2>4
        <3> DEFINE F == [f \in Events |-> Effects(f)]
                   n == IF e \in KnownTypes THEN F[e] + 1 ELSE F[e]
        <3>2. n = Effects(e)'
            BY <1>1, <2>5
        <3>3. [f \in Events |-> Effects(f)'] = [F EXCEPT ![e] = n]
            <4> HIDE DEF n
            <4>1. QED
                BY <1>1, <2>5, <3>2
        <3>4. QED
            BY <1>1, <2>4, <3>1, <3>3 DEF Once!Finish
    <2>7. QED
        BY <1>1, <2>6 DEF Once!Next
<1>5. QED
    BY <1>3, <1>4

\* When leases end, the events of their requests are given up.
LEMMA TickOnce == ASSUME TypeOK, TypeOK', Tick PROVE [Once!Next]_(Once!vars)
<1>1. late' \subseteq Events /\ late \subseteq late'
    BY DEF TypeOK, Tick
<1>2. \A e \in Events : row'[e].status = row[e].status
    BY DEF Tick, TypeOK, Rows
<1>3. \A e \in Events :
        /\ Phase(e)' = IF e \in late' THEN "late" ELSE Phase(e)
        /\ Effects(e)' = IF e \in late' THEN 0 ELSE Effects(e)
    BY <1>1, <1>2 DEF Phase, Effects, Tick
<1>4. Once!GiveUp(late')
    BY <1>3 DEF Once!GiveUp
<1>5. QED
    BY <1>1, <1>4 DEF Once!Next

LEMMA StepOnce ==
    ASSUME LeaseInv, [Next]_vars PROVE [Once!Next]_(Once!vars)
<1>1. TypeOK /\ TypeOK'
    BY StepTypeOK DEF LeaseInv, ClaimInv
<1>2. ASSUME NEW w \in Workers, Request(w) PROVE [Once!Next]_(Once!vars)
    <2>0. req[w] \in Requests /\ req[w].event \in Events
        BY <1>1, <1>2 DEF Request, InsertRow, NotClaimed, ReadReclaimable, Reclaim, LoseReclaim,
                          Handle, HandlerRaises, MarkFailed, TypeOK, Requests, Idle
    <2>1. CASE Reclaim(w)
        BY <1>1, <2>0, <2>1, OnceStutter
        DEF Reclaim, Claimed, Matches, TypeOK, LeaseInv, ClaimInv, ReclaimsOpenRows
    <2>2. CASE MarkFailed(w)
        BY <1>1, <2>0, <2>2, OnceStutter DEF MarkFailed, Failed, TypeOK, Rows
    <2>3. CASE NotClaimed(w) \/ ReadReclaimable(w) \/ LoseReclaim(w) \/ HandlerRaises(w)
        BY <2>3, OnceStutter DEF NotClaimed, ReadReclaimable, LoseReclaim, HandlerRaises
    <2>4. QED
        BY <1>2, <2>1, <2>2, <2>3, InsertRowOnce, HandleOnce DEF Request
<1>3. CASE Tick
    BY <1>1, <1>3, TickOnce
<1>4. CASE \/ \E w \in Workers, e \in Events : Deliver(w, e)
           \/ \E w \in Workers : Crash(w)
           \/ UNCHANGED vars
    BY <1>4, OnceStutter DEF Deliver, Crash, vars
<1>5. QED
    BY <1>2, <1>3, <1>4 DEF Next

\* The inbox implements OnceHandled: every step is one of it or a stutter.
THEOREM InboxImplementsOnceHandled == Spec => ImplementsOnceHandled
<1>1. LeaseInv /\ [Next]_vars => LeaseInv'
    BY StepLeaseInv
<1>2. LeaseInv /\ [Next]_vars => [Once!Next]_(Once!vars)
    BY StepOnce
<1>3. QED
    BY <1>1, <1>2, InitLeaseInv, InitOnce, PTL DEF Spec, ImplementsOnceHandled, Once!Spec

=============================================================================
