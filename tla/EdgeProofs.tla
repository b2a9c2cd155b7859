------------------------------ MODULE EdgeProofs ------------------------------
(* Proofs about Gateway, WebSession, AuthAccount and AccountAccess, for every *)
(* set of clients, proxies, accounts, tabs, addresses and requests, every     *)
(* limit and every budget.                                                    *)
EXTENDS MCEdge, Sums, SequenceTheorems, TLAPS

-----------------------------------------------------------------------------
(* The gateway                                                               *)

\* A request is a record of these fields.
Fields == {"at", "kind", "client", "who", "reserve", "checks"}

Shape ==
    /\ counter \in [Keys -> Nat]
    /\ passed \in [Keys -> [Kinds -> Nat]]
    /\ DOMAIN req = Requests
    /\ \A r \in Requests : DOMAIN req[r] = Fields
    /\ faults \in Nat

\* The limits of this kind have not been waived by a Redis error.
Exact(kind) == kind = "auth" \/ faults = 0

\* Request r has made the key k and not dated it yet.
Dating(r, k) == req[r].at = "counted" /\ Check(r) = k

\* A key that is absent has no time to live.
AbsentInv == \A k \in Keys : counter[k] = 0 => k \notin expiring

\* What has passed a key was counted on it.
PassedInv ==
    \A k \in Keys : \A kind \in Kinds : Exact(kind) => passed[k][kind] <= counter[k]

\* A key is made by one request; until it is dated it stays, and that request is
\* counted on it without having passed.
DatingInv ==
    \A k \in Keys : \A r \in Requests : Dating(r, k) =>
        /\ counter[k] > 0 /\ k \notin expiring
        /\ \A q \in Requests : Dating(q, k) => q = r
        /\ \A kind \in Kinds : kind = req[r].kind /\ Exact(kind) =>
               passed[k][kind] < counter[k] /\ passed[k][kind] < LimitOf[k[1]][kind]

Inv == Shape /\ AbsentInv /\ PassedInv /\ DatingInv /\ WithinLimit /\ CountersExpire

-----------------------------------------------------------------------------
(* Steps that leave Redis alone *)

LEMMA IdleFields == DOMAIN IdleRequest = Fields /\ IdleRequest.at = "idle"
  BY DEF IdleRequest, Fields

\* A fault only takes promises away.
LEMMA ExactBefore ==
    ASSUME Shape, faults' \in Nat, faults' >= faults, NEW kind, Exact(kind)'
    PROVE  Exact(kind)
  BY DEF Exact, Shape

\* A step that does not touch Redis, and neither takes a request to the point
\* between INCR and EXPIRE nor away from it, preserves everything.
LEMMA Quiet ==
    ASSUME Inv, UNCHANGED redis, faults' \in Nat, faults' >= faults,
           DOMAIN req' = Requests,
           \A r \in Requests :
               \/ req'[r] = req[r]
               \/ /\ DOMAIN req'[r] = Fields
                  /\ req[r].at # "counted" /\ req'[r].at # "counted"
    PROVE  Inv'
  <1>1. Shape'
    BY DEF Inv, Shape, redis
  <1>2. \A r \in Requests : \A k : Dating(r, k)' => Dating(r, k) /\ req'[r] = req[r]
    BY DEF Dating, Check
  <1>3. \A r \in Requests : \A k : Dating(r, k) => Dating(r, k)'
    BY DEF Dating, Check
  <1>4. \A kind : Exact(kind)' => Exact(kind)
    BY ExactBefore DEF Inv
  <1>5. AbsentInv'
    BY DEF Inv, AbsentInv, redis
  <1>6. PassedInv' /\ WithinLimit'
    BY <1>4 DEF Inv, PassedInv, WithinLimit, redis, Exact
  <1>7. DatingInv'
    BY <1>2, <1>4 DEF Inv, DatingInv, redis
  <1>8. CountersExpire'
    BY <1>3 DEF Inv, CountersExpire, redis, Dating
  <1> QED
    BY <1>1, <1>5, <1>6, <1>7, <1>8 DEF Inv

\* What Becomes and Goto leave.
LEMMA BecomesFields ==
    ASSUME Shape, NEW r \in Requests, NEW q, DOMAIN q = Fields, Becomes(r, q)
    PROVE  /\ DOMAIN req' = Requests
           /\ req'[r] = q
           /\ \A s \in Requests : s # r => req'[s] = req[s]
           /\ \A s \in Requests : DOMAIN req'[s] = Fields
  BY DEF Becomes, Shape

LEMMA GotoFields ==
    ASSUME Shape, NEW r \in Requests, NEW at, Goto(r, at)
    PROVE  /\ DOMAIN req' = Requests
           /\ req'[r].at = at /\ req'[r].kind = req[r].kind /\ req'[r].checks = req[r].checks
           /\ \A s \in Requests : s # r => req'[s] = req[s]
           /\ \A s \in Requests : DOMAIN req'[s] = Fields
  BY DEF Goto, Shape, Fields

LEMMA Arriving ==
    ASSUME Inv, NEW r \in Requests,
           \/ \E client \in Clients, claim \in Claims, path \in Paths, kind \in Kinds,
                 owner \in Subjects, device \in Devices \union {None} :
                 Accept(r, client, claim, path, kind, owner, device)
           \/ \E n \in Reserves : Reserve(r, n)
           \/ PassEmpty(r)
    PROVE  Inv'
  <1>1. Shape /\ faults' = faults /\ UNCHANGED redis /\ req[r].at # "counted"
    BY DEF Inv, Accept, Reserve, PassEmpty
  <1>2. ASSUME NEW q, Becomes(r, q), DOMAIN q = Fields, q.at # "counted"
        PROVE  Inv'
    BY <1>1, <1>2, BecomesFields, Quiet DEF Shape
  <1>3. ASSUME NEW client \in Clients, NEW claim \in Claims, NEW path \in Paths,
               NEW kind \in Kinds, NEW owner \in Subjects, NEW device \in Devices \union {None},
               Accept(r, client, claim, path, kind, owner, device)
        PROVE  Inv'
    <2> DEFINE who == Identities(RealAddress(IF path = <<>> THEN client ELSE Last(path),
                                             Forwarded(client, claim, path)), owner, device)
               q == [IdleRequest EXCEPT !.at = "accepted", !.kind = kind, !.client = client,
                                        !.who = who]
    <2>1. Becomes(r, q)
      BY <1>3 DEF Accept
    <2>2. DOMAIN q = Fields /\ q.at = "accepted"
      BY IdleFields DEF Fields
    <2> QED
      BY <2>1, <2>2, <1>2
  <1>4. ASSUME NEW n \in Reserves, Reserve(r, n)
        PROVE  Inv'
    <2> DEFINE q == [req[r] EXCEPT !.at = "checking", !.reserve = n, !.checks = ChecksOf(req[r])]
    <2>1. Becomes(r, q)
      BY <1>4 DEF Reserve
    <2>2. DOMAIN q = Fields /\ q.at = "checking"
      BY <1>1 DEF Shape, Fields
    <2> QED
      BY <2>1, <2>2, <1>2
  <1>5. ASSUME PassEmpty(r)
        PROVE  Inv'
    <2> DEFINE q == [req[r] EXCEPT !.at = "checking", !.checks = ChecksOf(req[r])]
    <2>1. Becomes(r, q)
      BY <1>5 DEF PassEmpty
    <2>2. DOMAIN q = Fields /\ q.at = "checking"
      BY <1>1 DEF Shape, Fields
    <2> QED
      BY <2>1, <2>2, <1>2
  <1> QED
    BY <1>3, <1>4, <1>5

LEMMA Leaving ==
    ASSUME Inv, NEW r \in Requests, RefuseBody(r) \/ Forward(r) \/ Answer(r) \/ Depart(r)
    PROVE  Inv'
  <1>1. Shape /\ faults' = faults /\ UNCHANGED redis /\ req[r].at # "counted"
    BY DEF Inv, RefuseBody, Forward, Answer, Ends, Depart, redis
  <1>2. CASE RefuseBody(r) \/ Forward(r)
    BY <1>1, <1>2, GotoFields, Quiet DEF RefuseBody, Forward, Shape
  <1>3. CASE Answer(r) \/ Depart(r)
    <2>1. PICK q : Becomes(r, q) /\ DOMAIN q = Fields /\ q.at # "counted"
      BY <1>3, IdleFields DEF Answer, Ends, Depart, IdleRequest, Fields
    <2> QED
      BY <1>1, <2>1, BecomesFields, Quiet DEF Shape
  <1> QED
    BY <1>2, <1>3

LEMMA Closing ==
    ASSUME Inv, ShutDown \/ CloseClient
    PROVE  Inv'
  <1>1. UNCHANGED <<redis, req>> /\ faults' \in Nat /\ faults' >= faults
    BY DEF Inv, Shape, ShutDown, CloseClient
  <1> QED
    BY <1>1, Quiet DEF Inv, Shape

-----------------------------------------------------------------------------
(* Steps on a key *)

\* A request that leaves the point between INCR and EXPIRE, or does not come to it.
LEMMA NotDating ==
    ASSUME NEW r \in Requests, req'[r].at # "counted",
           \A s \in Requests : s # r => req'[s] = req[s]
    PROVE  \A s \in Requests : \A k : Dating(s, k)' <=> s # r /\ Dating(s, k)
  BY DEF Dating, Check

\* One more at one place of a function.
LEMMA Bumped ==
    ASSUME NEW Part, NEW f \in [Part -> Nat], NEW c
    PROVE  /\ [f EXCEPT ![c] = f[c] + 1] \in [Part -> Nat]
           /\ \A k \in Part : [f EXCEPT ![c] = f[c] + 1][k] = IF k = c THEN f[k] + 1 ELSE f[k]
  <1>1. CASE c \in Part
    BY <1>1
  <1>2. CASE c \notin Part
    <2>1. [f EXCEPT ![c] = f[c] + 1] = f
      BY <1>2
    <2> QED
      BY <1>2, <2>1
  <1> QED
    BY <1>1, <1>2

LEMMA PassedOnce ==
    ASSUME passed \in [Keys -> [Kinds -> Nat]], NEW c, NEW d,
           passed' = [passed EXCEPT ![c][d] = @ + 1]
    PROVE  /\ passed' \in [Keys -> [Kinds -> Nat]]
           /\ \A k \in Keys, kind \in Kinds :
                passed'[k][kind] = IF k = c /\ kind = d THEN passed[k][kind] + 1 ELSE passed[k][kind]
  <1>1. DOMAIN passed' = Keys /\ passed' = [k \in Keys |-> passed'[k]]
    OBVIOUS
  <1>2. ASSUME NEW k \in Keys
        PROVE  /\ passed'[k] \in [Kinds -> Nat]
               /\ \A kind \in Kinds : passed'[k][kind] =
                    IF k = c /\ kind = d THEN passed[k][kind] + 1 ELSE passed[k][kind]
    <2>1. CASE k = c
      <3>1. passed'[k] = [passed[k] EXCEPT ![d] = passed[k][d] + 1]
        BY <2>1
      <3>2. passed[k] \in [Kinds -> Nat]
        OBVIOUS
      <3> QED
        BY <2>1, <3>1, <3>2, Bumped
    <2>2. CASE k # c
      BY <2>2
    <2> QED
      BY <2>1, <2>2
  <1> QED
    BY <1>1, <1>2

\* What Compared does to the request and to what has passed.
LEMMA ComparedFacts ==
    ASSUME Shape, NEW r \in Requests, NEW n, Compared(r, n)
    PROVE  /\ DOMAIN req' = Requests
           /\ req'[r].at # "counted"
           /\ \A s \in Requests : s # r => req'[s] = req[s]
           /\ \A s \in Requests : DOMAIN req'[s] = Fields
           /\ passed' \in [Keys -> [Kinds -> Nat]]
           /\ \A k \in Keys, kind \in Kinds :
                \/ passed'[k][kind] = passed[k][kind]
                \/ /\ k = Check(r) /\ kind = req[r].kind
                   /\ passed'[k][kind] = passed[k][kind] + 1
                   /\ n <= LimitOf[k[1]][kind]
  <1>1. CASE n <= Limit(r)
    <2>1. Becomes(r, Checked(r)) /\ DOMAIN Checked(r) = Fields /\ Checked(r).at = "checking"
      BY <1>1 DEF Compared, Checked, Shape, Fields
    <2>2. passed' = [passed EXCEPT ![Check(r)][req[r].kind] = @ + 1]
      BY <1>1 DEF Compared
    <2>3. /\ passed' \in [Keys -> [Kinds -> Nat]]
          /\ \A k \in Keys, kind \in Kinds :
                \/ passed'[k][kind] = passed[k][kind]
                \/ /\ k = Check(r) /\ kind = req[r].kind
                   /\ passed'[k][kind] = passed[k][kind] + 1
      <3>1. \A k \in Keys, kind \in Kinds : passed'[k][kind] =
                IF k = Check(r) /\ kind = req[r].kind THEN passed[k][kind] + 1 ELSE passed[k][kind]
        BY <2>2, PassedOnce DEF Shape
      <3>2. passed' \in [Keys -> [Kinds -> Nat]]
        BY <2>2, PassedOnce DEF Shape
      <3> QED
        BY <3>1, <3>2
    <2> QED
      BY <1>1, <2>1, <2>3, BecomesFields DEF Limit
  <1>2. CASE ~(n <= Limit(r))
    BY <1>2, GotoFields DEF Compared, Shape
  <1> QED
    BY <1>1, <1>2

LEMMA LimitIsNat ==
    \A k \in Keys, kind \in Kinds : LimitOf[k[1]][kind] \in Nat \ {0}
  BY GatewayAssumption DEF Keys

LEMMA Counting ==
    ASSUME Inv, NEW r \in Requests, Count(r)
    PROVE  Inv'
  <1> DEFINE c == Check(r)
             n == counter[c] + 1
  <1>1. Shape /\ req[r].at = "checking" /\ Compared(r, n)
        /\ UNCHANGED <<expiring, orphaned, faults>>
        /\ counter[c] > 0 /\ counter' = [counter EXCEPT ![c] = @ + 1]
    BY DEF Inv, Count
  <1>2. counter' \in [Keys -> Nat]
        /\ \A k \in Keys : counter'[k] = IF k = c THEN counter[k] + 1 ELSE counter[k]
    <2>1. counter' = [counter EXCEPT ![c] = counter[c] + 1]
      BY <1>1
    <2> QED
      BY <1>1, <2>1, Bumped DEF Shape
  <1>3. \A s \in Requests : \A k : Dating(s, k)' <=> Dating(s, k) /\ s # r
    BY <1>1, ComparedFacts, NotDating
  <1>4. \A s \in Requests : \A k : Dating(s, k) => s # r
    BY <1>1 DEF Dating
  <1>5. Shape'
    BY <1>1, <1>2, ComparedFacts DEF Shape
  <1>6. \A k \in Keys :
            /\ counter[k] \in Nat /\ counter'[k] \in Nat
            /\ \A kind \in Kinds : passed[k][kind] \in Nat /\ passed'[k][kind] \in Nat
    BY <1>1, <1>5 DEF Shape
  <1>7. AbsentInv'
    BY <1>1, <1>2, <1>6 DEF Inv, AbsentInv, Shape
  <1>8. ASSUME NEW k \in Keys, NEW kind \in Kinds, Exact(kind)'
        PROVE  /\ passed'[k][kind] <= counter'[k]
               /\ passed[k][kind] < counter[k] => passed'[k][kind] < counter'[k]
    <2>1. passed[k][kind] <= counter[k]
      BY <1>1, <1>8 DEF Inv, PassedInv, Exact
    <2>2. \/ passed'[k][kind] = passed[k][kind]
          \/ k = c /\ passed'[k][kind] = passed[k][kind] + 1
      BY <1>1, ComparedFacts
    <2> QED
      BY <1>2, <1>6, <2>1, <2>2
  <1>9. ASSUME NEW k \in Keys, NEW kind \in Kinds, Exact(kind)'
        PROVE  /\ passed'[k][kind] <= LimitOf[k[1]][kind]
               /\ passed[k][kind] < counter[k] /\ passed[k][kind] < LimitOf[k[1]][kind]
                    => passed'[k][kind] < LimitOf[k[1]][kind]
    <2>1. passed[k][kind] <= counter[k] /\ passed[k][kind] <= LimitOf[k[1]][kind]
      BY <1>1, <1>9 DEF Inv, PassedInv, WithinLimit, Exact
    <2>2. \/ passed'[k][kind] = passed[k][kind]
          \/ k = c /\ passed'[k][kind] = passed[k][kind] + 1 /\ n <= LimitOf[k[1]][kind]
      BY <1>1, ComparedFacts
    <2>3. LimitOf[k[1]][kind] \in Nat
      BY LimitIsNat
    <2> QED
      BY <1>6, <2>1, <2>2, <2>3
  <1>10. PassedInv' /\ WithinLimit'
    BY <1>8, <1>9 DEF PassedInv, WithinLimit, Exact
  <1>11. DatingInv'
    <2> SUFFICES ASSUME NEW k \in Keys, NEW s \in Requests, Dating(s, k)'
                 PROVE  /\ counter'[k] > 0 /\ k \notin expiring'
                        /\ \A q \in Requests : Dating(q, k)' => q = s
                        /\ \A kind \in Kinds : kind = req'[s].kind /\ Exact(kind)' =>
                             passed'[k][kind] < counter'[k] /\ passed'[k][kind] < LimitOf[k[1]][kind]
      BY DEF DatingInv
    <2>1. Dating(s, k) /\ s # r /\ req'[s] = req[s]
      BY <1>1, <1>3, ComparedFacts
    <2>2. /\ counter[k] > 0 /\ k \notin expiring
          /\ \A q \in Requests : Dating(q, k) => q = s
          /\ \A kind \in Kinds : kind = req[s].kind /\ Exact(kind) =>
                passed[k][kind] < counter[k] /\ passed[k][kind] < LimitOf[k[1]][kind]
      BY <2>1 DEF Inv, DatingInv
    <2>3. \A kind \in Kinds : Exact(kind)' => Exact(kind)
      BY <1>1 DEF Exact
    <2>4. counter'[k] > 0 /\ k \notin expiring'
      <3>1. counter'[k] >= counter[k]
        BY <1>2, <1>6
      <3> QED
        BY <1>1, <1>6, <2>2, <3>1
    <2>5. \A q \in Requests : Dating(q, k)' => q = s
      BY <1>3, <2>2
    <2>6. ASSUME NEW kind \in Kinds, kind = req'[s].kind, Exact(kind)'
          PROVE  passed'[k][kind] < counter'[k] /\ passed'[k][kind] < LimitOf[k[1]][kind]
      BY <1>8, <1>9, <2>1, <2>2, <2>3, <2>6
    <2> QED
      BY <2>4, <2>5, <2>6
  <1>12. CountersExpire'
    <2> SUFFICES ASSUME NEW k \in Keys, counter'[k] > 0
                 PROVE  \/ k \in expiring' \union orphaned'
                        \/ \E s \in Requests : Dating(s, k)'
      BY DEF CountersExpire, Dating
    <2>1. counter[k] > 0
      <3>1. CASE k = c
        BY <1>1, <3>1
      <3>2. CASE k # c
        BY <1>2, <3>2
      <3> QED
        BY <3>1, <3>2
    <2>2. \/ k \in expiring \union orphaned
          \/ \E s \in Requests : Dating(s, k)
      BY <2>1 DEF Inv, CountersExpire, Dating
    <2> QED
      BY <1>1, <1>3, <1>4, <2>2
  <1> QED
    BY <1>5, <1>7, <1>10, <1>11, <1>12 DEF Inv

LEMMA Making ==
    ASSUME Inv, NEW r \in Requests, CountFirst(r)
    PROVE  Inv'
  <1> DEFINE c == Check(r)
  <1>1. Shape /\ req[r].at = "checking" /\ Goto(r, "counted")
        /\ UNCHANGED <<expiring, passed, orphaned, faults>>
        /\ counter[c] = 0 /\ counter' = [counter EXCEPT ![c] = 1]
    BY DEF Inv, CountFirst
  <1>2. counter' \in [Keys -> Nat]
        /\ \A k \in Keys : counter'[k] = IF k = c THEN 1 ELSE counter[k]
    BY <1>1 DEF Shape
  <1>3. \A s \in Requests : \A k : Dating(s, k)' <=> Dating(s, k) \/ (s = r /\ k = c)
    BY <1>1, GotoFields DEF Dating, Check
  <1>4. Shape'
    BY <1>1, <1>2, GotoFields DEF Shape
  <1>5. \A k \in Keys, kind \in Kinds :
            /\ passed[k][kind] \in Nat /\ counter[k] \in Nat
            /\ Exact(kind)' => Exact(kind) /\ passed[k][kind] <= counter[k]
    BY <1>1 DEF Shape, Inv, PassedInv, Exact
  <1>6. AbsentInv'
    BY <1>1, <1>2 DEF Inv, AbsentInv
  <1>7. PassedInv' /\ WithinLimit'
    BY <1>1, <1>2, <1>5 DEF Inv, PassedInv, WithinLimit, Exact
  <1>8. DatingInv'
    <2> SUFFICES ASSUME NEW k \in Keys, NEW s \in Requests, Dating(s, k)'
                 PROVE  /\ counter'[k] > 0 /\ k \notin expiring
                        /\ \A q \in Requests : Dating(q, k)' => q = s
                        /\ \A kind \in Kinds : kind = req'[s].kind /\ Exact(kind)' =>
                             passed[k][kind] < counter'[k] /\ passed[k][kind] < LimitOf[k[1]][kind]
      BY <1>1 DEF DatingInv
    <2>1. \A q \in Requests : Dating(q, k) =>
            /\ counter[k] > 0 /\ k \notin expiring
            /\ \A p \in Requests : Dating(p, k) => p = q
            /\ \A kind \in Kinds : kind = req[q].kind /\ Exact(kind) =>
                  passed[k][kind] < counter[k] /\ passed[k][kind] < LimitOf[k[1]][kind]
      BY DEF Inv, DatingInv
    <2>2. CASE k = c
      <3>1. \A q \in Requests : Dating(q, k)' => q = r
        BY <1>1, <1>3, <2>1, <2>2
      <3>2. k \notin expiring
        BY <1>1, <2>2 DEF Inv, AbsentInv
      <3>3. \A kind \in Kinds : Exact(kind)' =>
                passed[k][kind] = 0 /\ LimitOf[k[1]][kind] > 0
        BY <1>1, <1>5, <2>2, LimitIsNat
      <3> QED
        BY <1>2, <2>2, <3>1, <3>2, <3>3
    <2>3. CASE k # c
      <3>1. \A q \in Requests : Dating(q, k)' <=> Dating(q, k)
        BY <1>3, <2>3
      <3>2. req'[s] = req[s]
        <4>1. s # r
          BY <1>1, <3>1 DEF Dating
        <4> QED
          BY <1>1, <4>1, GotoFields
      <3> QED
        BY <1>2, <1>5, <2>1, <2>3, <3>1, <3>2
    <2> QED
      BY <2>2, <2>3
  <1>9. CountersExpire'
    <2> SUFFICES ASSUME NEW k \in Keys, counter'[k] > 0
                 PROVE  \/ k \in expiring \union orphaned
                        \/ \E s \in Requests : Dating(s, k)'
      BY <1>1 DEF CountersExpire, Dating
    <2>1. CASE k = c
      BY <1>3, <2>1
    <2>2. CASE k # c
      BY <1>2, <1>3, <2>2 DEF Inv, CountersExpire, Dating
    <2> QED
      BY <2>1, <2>2
  <1> QED
    BY <1>4, <1>6, <1>7, <1>8, <1>9 DEF Inv

LEMMA DatingStep ==
    ASSUME Inv, NEW r \in Requests, SetExpiry(r)
    PROVE  Inv'
  <1> DEFINE c == Check(r)
  <1>1. Shape /\ Dating(r, c) /\ Compared(r, 1)
        /\ UNCHANGED <<counter, orphaned, faults>> /\ expiring' = expiring \union {c}
    BY DEF Inv, SetExpiry, Dated, Dating
  <1>2. \A s \in Requests : \A k : Dating(s, k)' <=> Dating(s, k) /\ s # r
    BY <1>1, ComparedFacts, NotDating
  <1>3. Shape'
    BY <1>1, ComparedFacts DEF Shape
  <1>4. \A k \in Keys, kind \in Kinds :
            passed[k][kind] \in Nat /\ passed'[k][kind] \in Nat /\ counter[k] \in Nat
    BY <1>1, <1>3 DEF Shape
  <1>5. c \in Keys => counter[c] > 0
    BY <1>1 DEF Inv, DatingInv
  <1>6. ASSUME NEW k \in Keys, NEW kind \in Kinds, Exact(kind)'
        PROVE  passed'[k][kind] <= counter[k] /\ passed'[k][kind] <= LimitOf[k[1]][kind]
    <2>1. Exact(kind)
      BY <1>1, <1>6 DEF Exact
    <2>2. passed[k][kind] <= counter[k] /\ passed[k][kind] <= LimitOf[k[1]][kind]
      BY <2>1 DEF Inv, PassedInv, WithinLimit, Exact
    <2>3. CASE passed'[k][kind] = passed[k][kind]
      BY <2>2, <2>3
    <2>4. CASE passed'[k][kind] # passed[k][kind]
      <3>1. k = c /\ kind = req[r].kind /\ passed'[k][kind] = passed[k][kind] + 1
        BY <1>1, <2>4, ComparedFacts
      <3>2. passed[k][kind] < counter[k] /\ passed[k][kind] < LimitOf[k[1]][kind]
        BY <1>1, <2>1, <3>1 DEF Inv, DatingInv
      <3> QED
        BY <1>4, <3>1, <3>2, LimitIsNat
    <2> QED
      BY <2>3, <2>4
  <1>7. PassedInv' /\ WithinLimit'
    BY <1>1, <1>6 DEF PassedInv, WithinLimit, Exact
  <1>8. AbsentInv'
    BY <1>1, <1>4, <1>5 DEF Inv, AbsentInv
  <1>9. DatingInv'
    <2> SUFFICES ASSUME NEW k \in Keys, NEW s \in Requests, Dating(s, k)'
                 PROVE  /\ counter[k] > 0 /\ k \notin expiring'
                        /\ \A q \in Requests : Dating(q, k)' => q = s
                        /\ \A kind \in Kinds : kind = req'[s].kind /\ Exact(kind)' =>
                             passed'[k][kind] < counter[k] /\ passed'[k][kind] < LimitOf[k[1]][kind]
      BY <1>1 DEF DatingInv
    <2>1. Dating(s, k) /\ s # r /\ req'[s] = req[s]
      BY <1>1, <1>2, ComparedFacts
    <2>2. /\ counter[k] > 0 /\ k \notin expiring
          /\ \A q \in Requests : Dating(q, k) => q = s
          /\ \A kind \in Kinds : kind = req[s].kind /\ Exact(kind) =>
                passed[k][kind] < counter[k] /\ passed[k][kind] < LimitOf[k[1]][kind]
      BY <2>1 DEF Inv, DatingInv
    <2>3. k # c
      BY <1>1, <2>1, <2>2
    <2>4. \A kind \in Kinds : passed'[k][kind] = passed[k][kind]
      BY <1>1, <2>3, ComparedFacts
    <2>5. \A kind \in Kinds : Exact(kind)' => Exact(kind)
      BY <1>1 DEF Exact
    <2> QED
      BY <1>1, <1>2, <2>1, <2>2, <2>3, <2>4, <2>5
  <1>10. CountersExpire'
    <2> SUFFICES ASSUME NEW k \in Keys, counter[k] > 0
                 PROVE  \/ k \in expiring' \union orphaned
                        \/ \E s \in Requests : Dating(s, k)'
      BY <1>1 DEF CountersExpire, Dating
    <2>1. \/ k \in expiring \union orphaned
          \/ \E s \in Requests : Dating(s, k)
      BY DEF Inv, CountersExpire, Dating
    <2>2. Dating(r, k) => k = c
      BY DEF Dating
    <2> QED
      BY <1>1, <1>2, <2>1, <2>2
  <1> QED
    BY <1>3, <1>7, <1>8, <1>9, <1>10 DEF Inv

\* A request that has made a key and ends leaves it behind.
LEMMA Orphaning ==
    ASSUME CountersExpire, NEW r \in Requests, UNCHANGED <<counter, expiring>>,
           orphaned' = IF req[r].at = "counted" THEN orphaned \union {Check(r)} ELSE orphaned,
           \A s \in Requests : \A k : Dating(s, k)' <=> Dating(s, k) /\ s # r
    PROVE  CountersExpire'
  BY DEF CountersExpire, Dating

\* A Redis error makes a promise to the auth service only.
LEMMA Failing ==
    ASSUME Inv, NEW r \in Requests, RedisFails(r)
    PROVE  Inv'
  <1> DEFINE c == Check(r)
  <1>1. Shape /\ UNCHANGED <<counter, expiring>> /\ faults' \in Nat /\ faults' > 0
        /\ faults' >= faults
        /\ orphaned' = IF req[r].at = "counted" THEN orphaned \union {c} ELSE orphaned
    BY DEF Inv, Shape, RedisFails, Fault
  <1>2. /\ DOMAIN req' = Requests /\ req'[r].at # "counted"
        /\ \A s \in Requests : s # r => req'[s] = req[s]
        /\ \A s \in Requests : DOMAIN req'[s] = Fields
    <2>1. CASE Passes(r)
      <3>1. Becomes(r, Checked(r)) /\ DOMAIN Checked(r) = Fields /\ Checked(r).at = "checking"
        BY <1>1, <2>1 DEF RedisFails, Checked, Shape, Fields
      <3> QED
        BY <1>1, <3>1, BecomesFields
    <2>2. CASE ~Passes(r)
      BY <1>1, <2>2, GotoFields DEF RedisFails
    <2> QED
      BY <2>1, <2>2
  <1>3. \A s \in Requests : \A k : Dating(s, k)' <=> Dating(s, k) /\ s # r
    BY <1>2, NotDating
  <1>4. /\ passed' \in [Keys -> [Kinds -> Nat]]
        /\ \A k \in Keys, kind \in Kinds :
             Exact(kind)' => Exact(kind) /\ passed'[k][kind] = passed[k][kind]
    <2>0. \A kind : Exact(kind)' => Exact(kind) /\ kind = "auth"
      BY <1>1, ExactBefore DEF Exact
    <2>1. CASE Passes(r)
      <3>1. passed' = [passed EXCEPT ![c][req[r].kind] = @ + 1]
        BY <2>1 DEF RedisFails
      <3>2. req[r].kind # "auth"
        BY <2>1 DEF Passes, ServiceOf
      <3>3. passed' \in [Keys -> [Kinds -> Nat]]
        BY <1>1, <3>1, PassedOnce DEF Shape
      <3>4. \A k \in Keys, kind \in Kinds : kind # req[r].kind => passed'[k][kind] = passed[k][kind]
        BY <1>1, <3>1, PassedOnce DEF Shape
      <3> QED
        BY <2>0, <3>2, <3>3, <3>4
    <2>2. CASE ~Passes(r)
      BY <1>1, <2>0, <2>2 DEF RedisFails, Shape
    <2> QED
      BY <2>1, <2>2
  <1>5. Shape'
    BY <1>1, <1>2, <1>4 DEF Shape
  <1>6. AbsentInv'
    BY <1>1 DEF Inv, AbsentInv
  <1>7. PassedInv' /\ WithinLimit'
    BY <1>1, <1>4 DEF Inv, PassedInv, WithinLimit, Exact
  <1>8. DatingInv'
    <2> SUFFICES ASSUME NEW k \in Keys, NEW s \in Requests, Dating(s, k)'
                 PROVE  /\ counter[k] > 0 /\ k \notin expiring
                        /\ \A q \in Requests : Dating(q, k)' => q = s
                        /\ \A kind \in Kinds : kind = req'[s].kind /\ Exact(kind)' =>
                             passed'[k][kind] < counter[k] /\ passed'[k][kind] < LimitOf[k[1]][kind]
      BY <1>1 DEF DatingInv
    <2>1. Dating(s, k) /\ req'[s] = req[s]
      BY <1>2, <1>3
    <2> QED
      BY <1>3, <1>4, <2>1 DEF Inv, DatingInv
  <1>9. CountersExpire'
    BY <1>1, <1>3, Orphaning DEF Inv
  <1> QED
    BY <1>5, <1>6, <1>7, <1>8, <1>9 DEF Inv

LEMMA Cancelling ==
    ASSUME Inv, NEW r \in Requests, Cancel(r)
    PROVE  Inv'
  <1>1. Shape /\ UNCHANGED <<counter, expiring, passed>> /\ faults' \in Nat /\ faults' >= faults
        /\ orphaned' = IF req[r].at = "counted" THEN orphaned \union {Check(r)} ELSE orphaned
    BY DEF Inv, Shape, Cancel, Fault, Ends
  <1>2. PICK q : Becomes(r, q) /\ DOMAIN q = Fields /\ q.at # "counted"
    BY DEF Cancel, Ends, IdleRequest, Fields
  <1>3. /\ DOMAIN req' = Requests /\ req'[r].at # "counted"
        /\ \A s \in Requests : s # r => req'[s] = req[s]
        /\ \A s \in Requests : DOMAIN req'[s] = Fields
    BY <1>1, <1>2, BecomesFields
  <1>4. \A s \in Requests : \A k : Dating(s, k)' <=> Dating(s, k) /\ s # r
    BY <1>3, NotDating
  <1>5. \A kind : Exact(kind)' => Exact(kind)
    BY <1>1, ExactBefore
  <1>6. Shape' /\ AbsentInv' /\ PassedInv' /\ WithinLimit'
    BY <1>1, <1>3, <1>5 DEF Inv, Shape, AbsentInv, PassedInv, WithinLimit, Exact
  <1>7. DatingInv'
    BY <1>1, <1>3, <1>4, <1>5 DEF Inv, DatingInv
  <1>8. CountersExpire'
    BY <1>1, <1>4, Orphaning DEF Inv
  <1> QED
    BY <1>6, <1>7, <1>8 DEF Inv

LEMMA Expiring ==
    ASSUME Inv, NEW key \in Keys, Expire(key)
    PROVE  Inv'
  <1>1. /\ key \in expiring /\ expiring' = expiring \ {key}
        /\ UNCHANGED <<req, orphaned, faults>>
        /\ counter' \in [Keys -> Nat] /\ passed' \in [Keys -> [Kinds -> Nat]]
        /\ \A k \in Keys : IF k = key
             THEN counter'[k] = 0 /\ \A kind \in Kinds : passed'[k][kind] = 0
             ELSE counter'[k] = counter[k] /\ passed'[k] = passed[k]
    BY DEF Inv, Shape, Expire
  <1>2. \A r \in Requests : \A k : Dating(r, k)' <=> Dating(r, k)
    BY <1>1 DEF Dating, Check
  <1>3. Shape'
    BY <1>1 DEF Inv, Shape
  <1>4. AbsentInv'
    BY <1>1 DEF Inv, AbsentInv
  <1>5. PassedInv' /\ WithinLimit'
    <2> SUFFICES ASSUME NEW k \in Keys, NEW kind \in Kinds, Exact(kind)
                 PROVE  passed'[k][kind] <= counter'[k] /\ passed'[k][kind] <= LimitOf[k[1]][kind]
      BY <1>1 DEF PassedInv, WithinLimit, Exact
    <2>1. CASE k = key
      BY <1>1, <2>1, LimitIsNat
    <2>2. CASE k # key
      BY <1>1, <2>2 DEF Inv, PassedInv, WithinLimit, Exact
    <2> QED
      BY <2>1, <2>2
  <1>6. DatingInv'
    <2> SUFFICES ASSUME NEW k \in Keys, NEW r \in Requests, Dating(r, k)
                 PROVE  /\ counter'[k] > 0 /\ k \notin expiring'
                        /\ \A q \in Requests : Dating(q, k) => q = r
                        /\ \A kind \in Kinds : kind = req[r].kind /\ Exact(kind) =>
                             passed'[k][kind] < counter'[k] /\ passed'[k][kind] < LimitOf[k[1]][kind]
      BY <1>1, <1>2 DEF DatingInv, Exact
    <2>1. /\ counter[k] > 0 /\ k \notin expiring
          /\ \A q \in Requests : Dating(q, k) => q = r
          /\ \A kind \in Kinds : kind = req[r].kind /\ Exact(kind) =>
                passed[k][kind] < counter[k] /\ passed[k][kind] < LimitOf[k[1]][kind]
      BY DEF Inv, DatingInv
    <2>2. counter'[k] = counter[k] /\ passed'[k] = passed[k] /\ k \notin expiring'
      BY <1>1, <2>1
    <2> QED
      BY <2>1, <2>2
  <1>7. CountersExpire'
    <2> SUFFICES ASSUME NEW k \in Keys, counter'[k] > 0
                 PROVE  \/ k \in expiring' \union orphaned
                        \/ \E s \in Requests : Dating(s, k)
      BY <1>1, <1>2 DEF CountersExpire, Dating
    <2>1. k # key /\ counter[k] > 0
      BY <1>1
    <2> QED
      BY <1>1, <2>1 DEF Inv, CountersExpire, Dating
  <1> QED
    BY <1>3, <1>4, <1>5, <1>6, <1>7 DEF Inv

LEMMA Restarting ==
    ASSUME Inv, Restart
    PROVE  Inv'
  <1>1. Shape /\ UNCHANGED <<counter, expiring, passed>> /\ faults' \in Nat /\ faults' >= faults
        /\ req' = [r \in Requests |-> IdleRequest]
        /\ orphaned' = orphaned \union {Check(r) : r \in {q \in Requests : req[q].at = "counted"}}
    BY DEF Inv, Shape, Restart, Fault
  <1>2. \A r \in Requests : req'[r].at # "counted" /\ DOMAIN req'[r] = Fields
    BY <1>1, IdleFields
  <1>3. \A kind : Exact(kind)' => Exact(kind)
    BY <1>1, ExactBefore
  <1>4. Shape' /\ AbsentInv' /\ PassedInv' /\ WithinLimit'
    BY <1>1, <1>2, <1>3 DEF Inv, Shape, AbsentInv, PassedInv, WithinLimit, Exact
  <1>5. DatingInv'
    BY <1>2 DEF DatingInv, Dating
  <1>6. CountersExpire'
    BY <1>1 DEF Inv, CountersExpire
  <1> QED
    BY <1>4, <1>5, <1>6 DEF Inv

-----------------------------------------------------------------------------
(* The budget *)

\* What the requests have reserved, those that have a body, and those in flight.
Amounts == [r \in Requests |-> req[r].reserve]

WithBody == {r \in Requests : req[r].reserve > 0}

Here == {r \in Requests : req[r].at # "idle"}

One(b) == IF b THEN 1 ELSE 0

\* A request has reserved nothing before the body limit has taken it and after
\* that has let it go.
BudgetInv ==
    /\ \A r \in Requests :
        /\ req[r].reserve \in Nat
        /\ req[r].at \in {"idle", "accepted", "ended"} => req[r].reserve = 0
    /\ BudgetIsTrue

\* Two subsets that differ at one element at most
LEMMA OneApart ==
    ASSUME NEW D, NEW B, NEW r, IsFiniteSet(D), IsFiniteSet(B), D \ {r} = B \ {r}
    PROVE  Cardinality(B) = Cardinality(D) + One(r \in B) - One(r \in D)
  <1>1. Cardinality(D) \in Nat /\ Cardinality(B) \in Nat
    BY FS_CardinalityType
  <1>2. CASE r \in D /\ r \in B
    BY <1>1, <1>2, D = B DEF One
  <1>3. CASE r \in D /\ r \notin B
    BY <1>1, <1>3, B = D \ {r}, FS_RemoveElement DEF One
  <1>4. CASE r \notin D /\ r \in B
    BY <1>1, <1>4, D = B \ {r}, FS_RemoveElement DEF One
  <1>5. CASE r \notin D /\ r \notin B
    BY <1>1, <1>5, D = B DEF One
  <1> QED
    BY <1>2, <1>3, <1>4, <1>5

LEMMA BudgetParts ==
    ASSUME BudgetInv
    PROVE  /\ bytes = SumFunctionOnSet(Amounts, Requests) /\ bytes \in Nat /\ bytes <= MaxBytes
           /\ bodies = Cardinality(WithBody) /\ bodies \in Nat /\ bodies <= MaxBodies
           /\ inFlight = Cardinality(Here) /\ inFlight \in Nat
           /\ IsFiniteSet(WithBody) /\ IsFiniteSet(Here)
  <1>1. IsFiniteSet(WithBody) /\ IsFiniteSet(Here)
    BY GatewayAssumption, FS_Subset DEF WithBody, Here
  <1>2. \A r \in Requests : Amounts[r] \in Nat
    BY DEF BudgetInv, Amounts
  <1>3. SumFunctionOnSet(Amounts, Requests) \in Nat
    BY <1>2, GatewayAssumption, SumNat
  <1>4. Cardinality(WithBody) \in Nat /\ Cardinality(Here) \in Nat
    BY <1>1, FS_CardinalityType
  <1> QED
    BY <1>1, <1>3, <1>4 DEF BudgetInv, BudgetIsTrue, Amounts, WithBody, Here

\* A step that moves one request keeps the budget if it changes the globals by
\* what it changes the request.
LEMMA OneMoves ==
    ASSUME BudgetInv, NEW r \in Requests,
           \A s \in Requests : s # r => req'[s] = req[s],
           req'[r].reserve \in Nat,
           req'[r].at \in {"idle", "accepted", "ended"} => req'[r].reserve = 0,
           bytes' = bytes + (req'[r].reserve - req[r].reserve),
           bodies' = bodies + One(req'[r].reserve > 0) - One(req[r].reserve > 0),
           inFlight' = inFlight + One(req'[r].at # "idle") - One(req[r].at # "idle"),
           bytes' <= MaxBytes, bodies' <= MaxBodies
    PROVE  BudgetInv'
  <1>1. SumFunctionOnSet(Amounts', Requests)
            = SumFunctionOnSet(Amounts, Requests) + (req'[r].reserve - req[r].reserve)
    <2>1. \A s \in Requests : Amounts[s] \in Int /\ Amounts'[s] \in Int
      BY DEF BudgetInv, Amounts
    <2>2. \A s \in Requests \ {r} : Amounts'[s] = Amounts[s]
      BY DEF Amounts
    <2>3. Amounts'[r] = req'[r].reserve /\ Amounts[r] = req[r].reserve
      BY DEF Amounts
    <2>4. IsFiniteSet(Requests)
      BY GatewayAssumption
    <2> HIDE DEF Amounts
    <2>5. SumFunctionOnSet(Amounts', Requests)
            = SumFunctionOnSet(Amounts, Requests) + (Amounts'[r] - Amounts[r])
      BY <2>1, <2>2, <2>4, SumUpdate
    <2> QED
      BY <2>3, <2>5
  <1>2. Cardinality(WithBody') = Cardinality(WithBody) + One(r \in WithBody') - One(r \in WithBody)
    <2>1. WithBody \ {r} = WithBody' \ {r}
      BY DEF WithBody
    <2>2. IsFiniteSet(WithBody) /\ IsFiniteSet(WithBody')
      BY GatewayAssumption, FS_Subset DEF WithBody
    <2> QED
      BY <2>1, <2>2, OneApart
  <1>3. Cardinality(Here') = Cardinality(Here) + One(r \in Here') - One(r \in Here)
    <2>1. Here \ {r} = Here' \ {r}
      BY DEF Here
    <2>2. IsFiniteSet(Here) /\ IsFiniteSet(Here')
      BY GatewayAssumption, FS_Subset DEF Here
    <2> QED
      BY <2>1, <2>2, OneApart
  <1>4. /\ (r \in WithBody') = (req'[r].reserve > 0) /\ (r \in WithBody) = (req[r].reserve > 0)
        /\ (r \in Here') = (req'[r].at # "idle") /\ (r \in Here) = (req[r].at # "idle")
    BY DEF WithBody, Here
  <1>5. /\ bytes' = SumFunctionOnSet(Amounts', Requests)
        /\ bodies' = Cardinality(WithBody') /\ inFlight' = Cardinality(Here')
    BY <1>1, <1>2, <1>3, <1>4, BudgetParts
  <1> QED
    BY <1>5 DEF BudgetInv, BudgetIsTrue, Amounts, WithBody, Here

\* A request that goes on with what it has reserved.
LEMMA GoesOn ==
    ASSUME BudgetInv, NEW r \in Requests, UNCHANGED globals,
           \A s \in Requests : s # r => req'[s] = req[s],
           req'[r].reserve = req[r].reserve, req[r].at # "idle", req'[r].at # "idle",
           req'[r].at \in {"accepted", "ended"} => req[r].at \in {"accepted", "ended"}
    PROVE  BudgetInv'
  <1>1. bytes' = bytes /\ bodies' = bodies /\ inFlight' = inFlight
    BY DEF globals
  <1>2. req[r].reserve \in Nat /\ (req'[r].at \in {"idle", "accepted", "ended"} => req'[r].reserve = 0)
    BY DEF BudgetInv
  <1>3. bytes' = bytes + (req'[r].reserve - req[r].reserve)
    BY <1>1, <1>2, BudgetParts
  <1>4. /\ bodies' = bodies + One(req'[r].reserve > 0) - One(req[r].reserve > 0)
        /\ inFlight' = inFlight + One(req'[r].at # "idle") - One(req[r].at # "idle")
    BY <1>1, BudgetParts DEF One
  <1> QED
    BY <1>1, <1>2, <1>3, <1>4, OneMoves, BudgetParts

LEMMA BecomesOne ==
    ASSUME DOMAIN req = Requests, NEW r \in Requests, NEW q, Becomes(r, q)
    PROVE  req'[r] = q /\ \A s \in Requests : s # r => req'[s] = req[s]
  BY DEF Becomes

LEMMA GotoOne ==
    ASSUME Shape, NEW r \in Requests, NEW at, Goto(r, at)
    PROVE  /\ req'[r].at = at /\ req'[r].reserve = req[r].reserve
           /\ req'[r].who = req[r].who /\ req'[r].client = req[r].client
           /\ \A s \in Requests : s # r => req'[s] = req[s]
  BY DEF Goto, Shape, Fields

LEMMA CheckedFields ==
    ASSUME Shape, NEW r \in Requests
    PROVE  /\ Checked(r).at = "checking" /\ Checked(r).reserve = req[r].reserve
           /\ Checked(r).who = req[r].who /\ Checked(r).client = req[r].client
  BY DEF Checked, Shape, Fields

LEMMA IdleReserve ==
    /\ IdleRequest.reserve = 0 /\ IdleRequest.who = <<>>
    /\ [IdleRequest EXCEPT !.at = "ended"].reserve = 0
    /\ [IdleRequest EXCEPT !.at = "ended"].at = "ended"
    /\ [IdleRequest EXCEPT !.at = "ended"].who = <<>>
  BY DEF IdleRequest

LEMMA AcceptBudget ==
    ASSUME Shape, BudgetInv, NEW r \in Requests, NEW client, NEW claim, NEW path, NEW kind,
           NEW owner, NEW device, Accept(r, client, claim, path, kind, owner, device)
    PROVE  BudgetInv'
  <1> DEFINE who == Identities(RealAddress(IF path = <<>> THEN client ELSE Last(path),
                                           Forwarded(client, claim, path)), owner, device)
             q == [IdleRequest EXCEPT !.at = "accepted", !.kind = kind, !.client = client,
                                      !.who = who]
  <1>0. q.at = "accepted" /\ q.reserve = 0
    BY DEF IdleRequest
  <1>1. Becomes(r, q)
    BY DEF Accept
  <1> HIDE DEF q
  <1>2. req'[r].at = "accepted" /\ req'[r].reserve = 0 /\ \A s \in Requests : s # r => req'[s] = req[s]
    BY <1>0, <1>1, BecomesOne DEF Shape
  <1>3. /\ req[r].at = "idle" /\ inFlight' = inFlight + 1 /\ bytes' = bytes /\ bodies' = bodies
    BY DEF Accept
  <1>4. req[r].reserve = 0
    BY <1>3 DEF BudgetInv
  <1>5. bytes' = bytes + (req'[r].reserve - req[r].reserve)
    BY <1>2, <1>3, <1>4, BudgetParts
  <1>6. /\ bodies' = bodies + One(req'[r].reserve > 0) - One(req[r].reserve > 0)
        /\ inFlight' = inFlight + One(req'[r].at # "idle") - One(req[r].at # "idle")
    BY <1>2, <1>3, <1>4, BudgetParts DEF One
  <1>7. bytes' <= MaxBytes /\ bodies' <= MaxBodies
    BY <1>3, BudgetParts
  <1> QED
    BY <1>2, <1>5, <1>6, <1>7, OneMoves

LEMMA ReserveBudget ==
    ASSUME Shape, BudgetInv, NEW r \in Requests, NEW n \in Reserves, Reserve(r, n)
    PROVE  BudgetInv'
  <1> DEFINE q == [req[r] EXCEPT !.at = "checking", !.reserve = n, !.checks = ChecksOf(req[r])]
  <1>0. q.at = "checking" /\ q.reserve = n
    BY DEF Shape, Fields
  <1>1. Becomes(r, q)
    BY DEF Reserve
  <1> HIDE DEF q
  <1>2. /\ req'[r].at = "checking" /\ req'[r].reserve = n
        /\ \A s \in Requests : s # r => req'[s] = req[s]
    BY <1>0, <1>1, BecomesOne DEF Shape
  <1>3. /\ req[r].at = "accepted" /\ bytes' = bytes + n /\ bodies' = bodies + 1
        /\ inFlight' = inFlight
        /\ bytes + n <= MaxBytes /\ bodies + 1 <= MaxBodies
    BY DEF Reserve, Room
  <1>4. req[r].reserve = 0 /\ n \in Nat /\ n > 0
    BY <1>3, GatewayAssumption DEF BudgetInv
  <1>5. bytes' = bytes + (req'[r].reserve - req[r].reserve)
    BY <1>2, <1>3, <1>4, BudgetParts
  <1>6. /\ bodies' = bodies + One(req'[r].reserve > 0) - One(req[r].reserve > 0)
        /\ inFlight' = inFlight + One(req'[r].at # "idle") - One(req[r].at # "idle")
    BY <1>2, <1>3, <1>4, BudgetParts DEF One
  <1>7. bytes' <= MaxBytes /\ bodies' <= MaxBodies
    BY <1>3
  <1> QED
    BY <1>2, <1>4, <1>5, <1>6, <1>7, OneMoves

\* The steps of a request between the body limit and its answer, and one that is
\* refused.
LEMMA PassingBudget ==
    ASSUME Shape, BudgetInv, NEW r \in Requests,
           \/ PassEmpty(r) \/ RefuseBody(r) \/ Count(r) \/ CountFirst(r) \/ SetExpiry(r)
           \/ RedisFails(r) \/ Forward(r)
    PROVE  BudgetInv'
  <1>1. UNCHANGED globals /\ req[r].at \in {"accepted", "checking", "counted"}
    BY DEF PassEmpty, RefuseBody, Count, CountFirst, SetExpiry, RedisFails, Forward
  <1>2. CASE PassEmpty(r)
    <2> DEFINE q == [req[r] EXCEPT !.at = "checking", !.checks = ChecksOf(req[r])]
    <2>0. q.at = "checking" /\ q.reserve = req[r].reserve
      BY DEF Shape, Fields
    <2>1. Becomes(r, q)
      BY <1>2 DEF PassEmpty
    <2> HIDE DEF q
    <2>2. /\ req'[r].at = "checking" /\ req'[r].reserve = req[r].reserve
          /\ \A s \in Requests : s # r => req'[s] = req[s]
      BY <2>0, <2>1, BecomesOne DEF Shape
    <2> QED
      BY <1>1, <2>2, GoesOn
  <1>3. CASE \E at \in {"counted", "forwarding", "denied"} : Goto(r, at)
    BY <1>1, <1>3, GotoOne, GoesOn
  <1>4. CASE RefuseBody(r)
    BY <1>4, <1>1, GotoOne, GoesOn DEF RefuseBody
  <1>5. CASE Becomes(r, Checked(r))
    <2>1. /\ req'[r].at = "checking" /\ req'[r].reserve = req[r].reserve
          /\ \A s \in Requests : s # r => req'[s] = req[s]
      BY <1>5, BecomesOne, CheckedFields DEF Shape
    <2> QED
      BY <1>1, <2>1, GoesOn
  <1>6. CASE Count(r) \/ SetExpiry(r)
    <2>1. \E n : Compared(r, n)
      BY <1>6 DEF Count, SetExpiry
    <2>2. Becomes(r, Checked(r)) \/ Goto(r, "denied")
      BY <2>1 DEF Compared
    <2> QED
      BY <2>2, <1>3, <1>5
  <1>7. CASE CountFirst(r) \/ RedisFails(r) \/ Forward(r)
    <2>1. Becomes(r, Checked(r)) \/ Goto(r, "denied") \/ Goto(r, "counted") \/ Goto(r, "forwarding")
      BY <1>7 DEF CountFirst, RedisFails, Forward
    <2> QED
      BY <2>1, <1>3, <1>5
  <1> QED
    BY <1>2, <1>4, <1>6, <1>7

LEMMA EndsBudget ==
    ASSUME Shape, BudgetInv, NEW r \in Requests, req[r].at # "idle", Ends(r)
    PROVE  BudgetInv'
  <1>1. /\ req'[r].at = "ended" /\ req'[r].reserve = 0
        /\ \A s \in Requests : s # r => req'[s] = req[s]
    BY BecomesOne, IdleReserve DEF Ends, Shape
  <1>2. req[r].reserve \in Nat /\ inFlight' = inFlight
    BY DEF BudgetInv, Ends
  <1>3. req[r].reserve <= bytes /\ (req[r].reserve > 0 => bodies > 0)
    <2>1. SumFunctionOnSet(Amounts, Requests) >= req[r].reserve
      <3>1. \A s \in Requests : Amounts[s] \in Nat
        BY DEF BudgetInv, Amounts
      <3>2. IsFiniteSet(Requests) /\ IsFiniteSet(Requests \ {r})
        BY GatewayAssumption, FS_RemoveElement
      <3>3. Amounts[r] = req[r].reserve
        BY DEF Amounts
      <3> HIDE DEF Amounts
      <3>4. SumFunctionOnSet(Amounts, Requests) = Amounts[r] + SumFunctionOnSet(Amounts, Requests \ {r})
        BY <3>1, <3>2, SumRemove
      <3>5. SumFunctionOnSet(Amounts, Requests \ {r}) \in Nat
        BY <3>1, <3>2, SumNat
      <3> QED
        BY <1>2, <3>3, <3>4, <3>5
    <2>2. ASSUME req[r].reserve > 0
          PROVE  Cardinality(WithBody) # 0
      BY <2>2, BudgetParts, FS_EmptySet DEF WithBody
    <2> QED
      BY <2>1, <2>2, BudgetParts
  <1>4. /\ bytes' = bytes - req[r].reserve
        /\ bodies' = bodies - One(req[r].reserve > 0)
    <2>1. CASE req[r].reserve > 0
      <3>1. /\ bytes' = NotBelowZero(bytes - req[r].reserve)
            /\ bodies' = NotBelowZero(bodies - 1)
        BY <2>1 DEF Ends, Reserved
      <3> QED
        BY <2>1, <3>1, <1>2, <1>3, BudgetParts DEF NotBelowZero, One
    <2>2. CASE ~(req[r].reserve > 0)
      <3>1. bytes' = bytes /\ bodies' = bodies /\ req[r].reserve = 0
        BY <2>2, <1>2 DEF Ends, Reserved
      <3> QED
        BY <2>2, <3>1, BudgetParts DEF One
    <2> QED
      BY <2>1, <2>2
  <1>5. /\ bytes' = bytes + (req'[r].reserve - req[r].reserve)
        /\ bodies' = bodies + One(req'[r].reserve > 0) - One(req[r].reserve > 0)
        /\ inFlight' = inFlight + One(req'[r].at # "idle") - One(req[r].at # "idle")
    BY <1>1, <1>2, <1>4, BudgetParts DEF One
  <1>6. bytes' <= MaxBytes /\ bodies' <= MaxBodies
    BY <1>2, <1>4, BudgetParts, GatewayAssumption DEF One
  <1> QED
    BY <1>1, <1>5, <1>6, OneMoves

LEMMA DepartBudget ==
    ASSUME Shape, BudgetInv, NEW r \in Requests, Depart(r)
    PROVE  BudgetInv'
  <1>1. /\ req'[r].at = "idle" /\ req'[r].reserve = 0
        /\ \A s \in Requests : s # r => req'[s] = req[s]
    BY BecomesOne, IdleReserve, IdleFields DEF Depart, Shape
  <1>2. req[r].at = "ended" /\ bytes' = bytes /\ bodies' = bodies /\ inFlight' = inFlight - 1
    BY DEF Depart
  <1>3. req[r].reserve = 0
    BY <1>2 DEF BudgetInv
  <1>4. /\ bytes' = bytes + (req'[r].reserve - req[r].reserve)
        /\ bodies' = bodies + One(req'[r].reserve > 0) - One(req[r].reserve > 0)
        /\ inFlight' = inFlight + One(req'[r].at # "idle") - One(req[r].at # "idle")
    BY <1>1, <1>2, <1>3, BudgetParts DEF One
  <1> QED
    BY <1>1, <1>2, <1>4, BudgetParts, OneMoves

LEMMA FreshBudget ==
    ASSUME req = [r \in Requests |-> IdleRequest], bytes = 0, bodies = 0, inFlight = 0
    PROVE  BudgetInv
  <1>1. \A r \in Requests : req[r].reserve = 0 /\ req[r].at = "idle"
    BY IdleReserve, IdleFields
  <1>2. WithBody = {} /\ Here = {}
    BY <1>1 DEF WithBody, Here
  <1>3. SumFunctionOnSet(Amounts, Requests) = 0
    <2>1. \A r \in Requests : Amounts[r] = 0
      BY <1>1 DEF Amounts
    <2> QED
      BY <2>1, GatewayAssumption, SumZero
  <1>4. /\ bytes = SumFunctionOnSet(Amounts, Requests)
        /\ bodies = Cardinality(WithBody) /\ inFlight = Cardinality(Here)
        /\ bytes <= MaxBytes /\ bodies <= MaxBodies
    BY <1>2, <1>3, FS_EmptySet, GatewayAssumption
  <1> QED
    BY <1>1, <1>4 DEF BudgetInv, BudgetIsTrue, Amounts, WithBody, Here

LEMMA FreshBudgetNext ==
    ASSUME req' = [r \in Requests |-> IdleRequest], bytes' = 0, bodies' = 0, inFlight' = 0
    PROVE  BudgetInv'
  <1>1. \A r \in Requests : req'[r].reserve = 0 /\ req'[r].at = "idle"
    BY IdleReserve, IdleFields
  <1>2. WithBody' = {} /\ Here' = {}
    BY <1>1 DEF WithBody, Here
  <1>3. SumFunctionOnSet(Amounts', Requests) = 0
    <2>1. \A r \in Requests : Amounts'[r] = 0
      BY <1>1 DEF Amounts
    <2> QED
      BY <2>1, GatewayAssumption, SumZero
  <1>4. /\ bytes' = SumFunctionOnSet(Amounts', Requests)
        /\ bodies' = Cardinality(WithBody') /\ inFlight' = Cardinality(Here')
        /\ bytes' <= MaxBytes /\ bodies' <= MaxBodies
    BY <1>2, <1>3, FS_EmptySet, GatewayAssumption
  <1> QED
    BY <1>1, <1>4 DEF BudgetInv, BudgetIsTrue, Amounts, WithBody, Here

LEMMA BudgetStep == Shape /\ BudgetInv /\ [Next]_vars => BudgetInv'
  <1> SUFFICES ASSUME Shape, BudgetInv, [Next]_vars PROVE BudgetInv'
    OBVIOUS
  <1>1. CASE UNCHANGED <<req, globals>>
    BY <1>1 DEF globals, BudgetInv, BudgetIsTrue
  <1>2. CASE UNCHANGED vars \/ ShutDown \/ CloseClient \/ \E k \in Keys : Expire(k)
    BY <1>1, <1>2 DEF vars, globals, ShutDown, CloseClient, Expire
  <1>3. ASSUME NEW r \in Requests, Answer(r) \/ Cancel(r)
        PROVE  BudgetInv'
    BY <1>3, EndsBudget DEF Answer, Cancel
  <1>4. CASE Restart
    BY <1>4, FreshBudgetNext DEF Restart
  <1> QED
    BY <1>2, <1>3, <1>4, AcceptBudget, ReserveBudget, PassingBudget, DepartBudget DEF Next

-----------------------------------------------------------------------------
(* Whom a request is counted as *)

\* The settings fit the network: there are no proxies and their headers are not
\* read, or they are, and the trusted addresses have all of the proxies and none of
\* the clients.
Deployed ==
    /\ Clients \intersect Trusted = {}
    /\ IF TrustProxy THEN Trusted # {} /\ Proxies \subseteq Trusted ELSE Proxies = {}

\* What a client writes into the header comes before what the proxies append.
LEMMA AddressFound ==
    ASSUME Deployed, NEW client \in Clients, NEW claim \in Claims, NEW path \in Paths
    PROVE  RealAddress(IF path = <<>> THEN client ELSE Last(path), Forwarded(client, claim, path))
               = client
  <1> DEFINE f == Forwarded(client, claim, path)
             peer == IF path = <<>> THEN client ELSE Last(path)
  <1>1. CASE path = <<>>
    BY <1>1 DEF RealAddress, Deployed, IsTrusted
  <1>2. ASSUME NEW p \in Proxies, path = <<p>>
        PROVE  RealAddress(peer, f) = client
    <2>1. Last(path) = p /\ Front(path) = <<>> /\ path # <<>>
      BY <1>2 DEF Last, Front
    <2>2. f = Append(claim, client)
      BY <2>1 DEF Forwarded, Claims
    <2>3. Len(claim) \in Nat /\ Len(f) = Len(claim) + 1 /\ f[Len(claim) + 1] = client
      BY <2>2 DEF Claims
    <2>4. Len(claim) + 1 \in Untrusted(f) /\ \A i \in Untrusted(f) : i \in Nat /\ Len(claim) + 1 >= i
      BY <2>3 DEF Untrusted, IsAddress, IsTrusted, Deployed
    <2>5. Max(Untrusted(f)) = Len(claim) + 1
      BY <2>3, <2>4 DEF Max
    <2> QED
      BY <1>2, <2>1, <2>3, <2>4, <2>5 DEF RealAddress, Deployed, IsTrusted
  <1>3. ASSUME NEW p \in Proxies, NEW q \in Proxies, path = <<p, q>>
        PROVE  RealAddress(peer, f) = client
    <2>1. Last(path) = q /\ path # <<>> /\ Front(path) = SubSeq(<<p, q>>, 1, 1)
      BY <1>3 DEF Last, Front
    <2>2. Front(path) \in Seq(Proxies) /\ Len(Front(path)) = 1 /\ Front(path)[1] = p
      BY <2>1
    <2>3. /\ Len(claim) \in Nat /\ Len(f) = Len(claim) + 2
          /\ f[Len(claim) + 1] = client /\ f[Len(claim) + 2] = p
      <3> DEFINE D == Clients \union Proxies \union {None}
                 front == Front(path)
                 g == <<client>> \o front
      <3>1. f = claim \o g
        BY <2>1 DEF Forwarded
      <3>2. <<client>> \in Seq(D) /\ front \in Seq(D) /\ p \in D /\ Len(front) = 1 /\ front[1] = p
        BY <2>2, client \in D
      <3>3. claim = <<>> \/ \E a \in D : claim = <<a>>
        BY DEF Claims
      <3> HIDE DEF f, D, front
      <3>4. g \in Seq(D) /\ Len(g) = 2 /\ g[1] = client /\ g[2] = p
        BY <3>2
      <3> HIDE DEF g
      <3>5. claim \in Seq(D) /\ Len(claim) \in {0, 1}
        <4>1. ASSUME NEW a \in D PROVE <<a>> \in Seq(D) /\ Len(<<a>>) = 1
          OBVIOUS
        <4>2. <<>> \in Seq(D) /\ Len(<<>>) = 0
          OBVIOUS
        <4>3. CASE claim = <<>>
          BY <4>2, <4>3
        <4>4. CASE \E a \in D : claim = <<a>>
          BY <4>1, <4>4
        <4> QED
          BY <3>3, <4>3, <4>4
      <3>6. claim \o g \in Seq(D) /\ Len(claim \o g) = Len(claim) + 2
            /\ (claim \o g)[Len(claim) + 1] = client /\ (claim \o g)[Len(claim) + 2] = p
        <4>1. /\ claim \o g \in Seq(D) /\ Len(claim \o g) = Len(claim) + Len(g)
              /\ \A i \in 1 .. Len(claim) + Len(g) :
                    (claim \o g)[i] = IF i <= Len(claim) THEN claim[i] ELSE g[i - Len(claim)]
          BY <3>4, <3>5, ConcatProperties
        <4>2. /\ Len(claim) + 1 \in 1 .. Len(claim) + Len(g) /\ ~(Len(claim) + 1 <= Len(claim))
              /\ Len(claim) + 2 \in 1 .. Len(claim) + Len(g) /\ ~(Len(claim) + 2 <= Len(claim))
              /\ Len(claim) + 1 - Len(claim) = 1 /\ Len(claim) + 2 - Len(claim) = 2
          BY <3>4, <3>5
        <4> QED
          BY <3>4, <4>1, <4>2
      <3> QED
        BY <3>1, <3>5, <3>6
    <2>4. Len(claim) + 1 \in Untrusted(f) /\ \A i \in Untrusted(f) : i \in Nat /\ Len(claim) + 1 >= i
      BY <2>3 DEF Untrusted, IsAddress, IsTrusted, Deployed
    <2>5. Max(Untrusted(f)) = Len(claim) + 1
      BY <2>3, <2>4 DEF Max
    <2> QED
      BY <1>3, <2>1, <2>3, <2>4, <2>5 DEF RealAddress, Deployed, IsTrusted
  <1> QED
    BY <1>1, <1>2, <1>3 DEF Paths

\* The address comes first.
LEMMA AddressFirst ==
    ASSUME NEW address, NEW owner, NEW device
    PROVE  Identities(address, owner, device)[1] = address
  <1>1. Given(owner) \in {<<>>, <<owner>>} /\ Given(device) \in {<<>>, <<device>>}
    BY DEF Given
  <1> QED
    BY <1>1 DEF Identities

LEMMA CountedStep == Deployed /\ Shape /\ CountedAsItself /\ [Next]_vars => CountedAsItself'
  <1> SUFFICES ASSUME Deployed, Shape, CountedAsItself, [Next]_vars PROVE CountedAsItself'
    OBVIOUS
  <1>1. ASSUME \A s \in Requests : \/ req'[s].who = req[s].who /\ req'[s].client = req[s].client
                                   \/ req'[s].who = <<>>
        PROVE  CountedAsItself'
    BY <1>1 DEF CountedAsItself
  <1>2. ASSUME NEW r \in Requests, NEW q, Becomes(r, q),
               \/ q.who = req[r].who /\ q.client = req[r].client
               \/ q.who = <<>>
               \/ q.who[1] = q.client
        PROVE  CountedAsItself'
    BY <1>2, BecomesOne DEF CountedAsItself, Shape
  <1>3. ASSUME NEW r \in Requests, NEW at, Goto(r, at)
        PROVE  CountedAsItself'
    BY <1>3, GotoOne DEF CountedAsItself
  <1>4. ASSUME NEW r \in Requests, NEW client \in Clients, NEW claim \in Claims,
               NEW path \in Paths, NEW kind \in Kinds, NEW owner \in Subjects,
               NEW device \in Devices \union {None},
               Accept(r, client, claim, path, kind, owner, device)
        PROVE  CountedAsItself'
    <2> DEFINE who == Identities(RealAddress(IF path = <<>> THEN client ELSE Last(path),
                                             Forwarded(client, claim, path)), owner, device)
               q == [IdleRequest EXCEPT !.at = "accepted", !.kind = kind, !.client = client,
                                        !.who = who]
    <2>1. Becomes(r, q)
      BY <1>4 DEF Accept
    <2>2. who[1] = client
      BY AddressFirst, AddressFound
    <2> HIDE DEF who
    <2>3. q.who[1] = q.client
      BY <2>2 DEF IdleRequest
    <2> HIDE DEF q
    <2> QED
      BY <2>1, <2>3, <1>2
  <1>5. ASSUME NEW r \in Requests, NEW n \in Reserves, Reserve(r, n)
        PROVE  CountedAsItself'
    <2> DEFINE q == [req[r] EXCEPT !.at = "checking", !.reserve = n, !.checks = ChecksOf(req[r])]
    <2>1. q.who = req[r].who /\ q.client = req[r].client
      BY DEF Shape, Fields
    <2>2. Becomes(r, q)
      BY <1>5 DEF Reserve
    <2> HIDE DEF q
    <2> QED
      BY <2>1, <2>2, <1>2
  <1>6. ASSUME NEW r \in Requests, PassEmpty(r)
        PROVE  CountedAsItself'
    <2> DEFINE q == [req[r] EXCEPT !.at = "checking", !.checks = ChecksOf(req[r])]
    <2>1. q.who = req[r].who /\ q.client = req[r].client
      BY DEF Shape, Fields
    <2>2. Becomes(r, q)
      BY <1>6 DEF PassEmpty
    <2> HIDE DEF q
    <2> QED
      BY <2>1, <2>2, <1>2
  <1>7. ASSUME NEW r \in Requests, \/ RefuseBody(r) \/ Count(r) \/ CountFirst(r) \/ SetExpiry(r)
                                   \/ RedisFails(r) \/ Forward(r)
        PROVE  CountedAsItself'
    <2>1. Becomes(r, Checked(r)) \/ \E at : Goto(r, at)
      BY <1>7 DEF RefuseBody, Count, CountFirst, SetExpiry, RedisFails, Forward, Compared
    <2> QED
      BY <2>1, <1>2, <1>3, CheckedFields
  <1>8. ASSUME NEW r \in Requests, Answer(r) \/ Cancel(r) \/ Depart(r)
        PROVE  CountedAsItself'
    <2>1. Becomes(r, IdleRequest) \/ Becomes(r, [IdleRequest EXCEPT !.at = "ended"])
      BY <1>8 DEF Answer, Cancel, Ends, Depart
    <2> QED
      BY <2>1, <1>2, IdleReserve
  <1>9. CASE UNCHANGED vars \/ ShutDown \/ CloseClient \/ \E k \in Keys : Expire(k)
    BY <1>1, <1>9 DEF vars, ShutDown, CloseClient, Expire
  <1>10. CASE Restart
    BY <1>1, <1>10, IdleReserve DEF Restart
  <1> QED
    BY <1>4, <1>5, <1>6, <1>7, <1>8, <1>9, <1>10 DEF Next

-----------------------------------------------------------------------------
(* The invariant and what follows *)

LEMMA InitInv == Init => Inv
  <1> SUFFICES ASSUME Init PROVE Inv
    OBVIOUS
  <1>1. Shape /\ \A r \in Requests : req[r].at # "counted"
    BY IdleFields DEF Init, Shape
  <1>2. \A k \in Keys : counter[k] = 0 /\ \A kind \in Kinds : passed[k][kind] = 0
    BY DEF Init
  <1> QED
    BY <1>1, <1>2, LimitIsNat
    DEF Init, Inv, AbsentInv, PassedInv, DatingInv, Dating, WithinLimit, CountersExpire

LEMMA NextInv == Inv /\ [Next]_vars => Inv'
  <1> SUFFICES ASSUME Inv, [Next]_vars PROVE Inv'
    OBVIOUS
  <1>1. CASE UNCHANGED vars
    BY <1>1, Quiet DEF vars, redis, Inv, Shape
  <1>2. CASE Next
    BY <1>2, Arriving, Leaving, Closing, Counting, Making, DatingStep, Failing, Cancelling,
       Expiring, Restarting DEF Next
  <1> QED
    BY <1>1, <1>2

THEOREM InvHolds == Spec => []Inv
  BY InitInv, NextInv, PTL DEF Spec

\* Whichever way requests end, refused, answered, cancelled or with the process,
\* the budget of bodies is what those still here have reserved, never more than its
\* limits, and the count of requests in flight is true.
THEOREM BudgetHolds == Spec => []BudgetIsTrue
  <1>1. Init => BudgetInv
    BY FreshBudget DEF Init
  <1>2. Inv => Shape
    BY DEF Inv
  <1>3. BudgetInv => BudgetIsTrue
    BY DEF BudgetInv
  <1> QED
    BY <1>1, <1>2, <1>3, BudgetStep, InvHolds, PTL DEF Spec

\* Where the settings fit the network, each request is counted as the client it
\* comes from, whatever that client wrote into X-Forwarded-For; and however requests
\* interleave, while a counter of the rate limiter lives no more requests of a kind
\* pass it than their limit, for the auth service also when Redis fails.
THEOREM LimitsHold == ASSUME Deployed PROVE Spec => []EachWithinItsLimit
  <1>1. Init => CountedAsItself
    BY IdleReserve DEF Init, CountedAsItself
  <1>2. Inv => Shape /\ WithinLimit
    BY DEF Inv
  <1>3. Inv /\ CountedAsItself /\ [Next]_vars => CountedAsItself'
    BY <1>2, CountedStep
  <1>4. CountedAsItself /\ WithinLimit => EachWithinItsLimit
    BY DEF EachWithinItsLimit
  <1> QED
    BY <1>1, <1>2, <1>3, <1>4, InvHolds, PTL DEF Spec

\* A counter has a time to live, or the request that made it is about to set one,
\* unless that request ended in between.
THEOREM CountersEnd == Spec => []CountersExpire
  BY InvHolds, PTL DEF Inv

-----------------------------------------------------------------------------
(* The session of a browser                                                  *)

Sending(f) == get[f].at = "sent"
Waiting(f) == get[f].at = "waiting"
Answered(f) == get[f].at = "answered"

\* The refresh token that a GET carries or brings
Carried(f) ==
    IF Sending(f) \/ Waiting(f) THEN get[f].raw
    ELSE IF Answered(f) THEN get[f].answer.token ELSE 0

\* The refresh tokens that are the cookie or may become it
AtHand == {cookie} \union {Carried(f) : f \in Gets} \union {inflight[v].token : v \in DOMAIN inflight}

\* A GET that clears the cookie, or will
Doomed(f) ==
    \/ Answered(f) /\ get[f].answer.is = "failed"
    \/ Waiting(f) /\ inflight[get[f].raw].is = "failed"
    \/ Waiting(f) /\ inflight[get[f].raw].is = "pending" /\ get[f].raw \notin live

WebTypes ==
    /\ W!TypeOK
    /\ askedBy \in [1 .. MaxTokens -> SUBSET Tabs] /\ clean \in [Tabs -> BOOLEAN]
    /\ excused \in BOOLEAN
    /\ live \subseteq 1 .. issued /\ \A x \in AtHand : x <= issued
    /\ \A v \in 1 .. MaxTokens : askedBy[v] # {} => v <= issued

\* A tab refreshes once at a time.
OneRefresh ==
    \A f, g \in Gets : W!Under(f) /\ W!Under(g) /\ get[f].tab = get[g].tab => f = g

\* The route refreshes a cookie for as long as a GET waits for it.
SharedRefresh ==
    /\ \A f \in Gets : Waiting(f) => get[f].raw \in DOMAIN inflight
    /\ \A v \in DOMAIN inflight : v # 0 /\ \E f \in Gets : Waiting(f) /\ get[f].raw = v

\* The token of a login is known to its tab alone.
LoginIsNew ==
    \A t \in Tabs : signing[t].at = "storing" =>
        /\ signing[t].token \notin AtHand /\ signing[t].token <= issued
        /\ askedBy[signing[t].token] = {}
        /\ \A u \in Tabs : signing[u].at = "storing" /\ signing[u].token = signing[t].token => u = t

\* A logout that has met no GET
LogoutAlone ==
    \A t \in Tabs : clean[t] /\ signing[t].at \in {"leaving", "left"} =>
        \A f \in Gets : ~W!Under(f)

WebShape == WebTypes /\ OneRefresh /\ SharedRefresh /\ LoginIsNew /\ LogoutAlone

\* One token at hand is good, and none if a GET is to clear the cookie.
OneSession ==
    /\ \A x, y \in AtHand \intersect live : x = y
    /\ (\E f \in Gets : Doomed(f)) => AtHand \intersect live = {}

\* A tab that has asked with a token that is good waits for the answer; one that has
\* asked with the cookie has an answer under way that replaces it.
AskersWait ==
    \A v \in 1 .. MaxTokens : \A t \in askedBy[v] :
        /\ v \in live => \E f \in Gets : Waiting(f) /\ get[f].tab = t /\ get[f].raw = v
        /\ v = cookie => \E f \in Gets :
              /\ \/ Waiting(f) /\ get[f].raw = v
                 \/ Answered(f) /\ get[f].answer.is # "unreachable"
              /\ get[f].tab = t

\* A token that the service has answered for is spent, and no tab sends one twice.
SpentOnce ==
    /\ \A v \in DOMAIN inflight : inflight[v].is # "pending" =>
           v \notin live /\ inflight[v].is # "unreachable"
    /\ \A f \in Gets : Sending(f) /\ get[f].raw # 0 => get[f].tab \notin askedBy[get[f].raw]

Serene == OneSession /\ AskersWait /\ SpentOnce

WebInv == WebShape /\ (~excused => Serene)

LEMMA GetFacts ==
    ASSUME NEW q \in W!GetStates
    PROVE  /\ q.at \in {"none", "sent", "waiting", "answered"}
           /\ q.at \in {"sent", "waiting"} =>
                 q = [at |-> q.at, tab |-> q.tab, raw |-> q.raw] /\ q.tab \in Tabs /\ q.raw \in 0 .. MaxTokens
           /\ q.at = "answered" => q.tab \in Tabs /\ q.answer \in W!Outcomes \ {W!Pending}
           /\ q.at = "none" => q = W!NoGet
  BY DEF W!GetStates, W!NoGet, W!Tokens

LEMMA OutcomeFacts ==
    ASSUME NEW o \in W!Outcomes
    PROVE  /\ o.is \in {"pending", "failed", "unreachable", "renewed"} /\ o.token \in 0 .. MaxTokens
           /\ o.is # "renewed" => o.token = 0
           /\ o.is = "renewed" => o.token >= 1 /\ o = W!Renewed(o.token)
           /\ o.is = "failed" => o = W!Cleared
           /\ o.is = "pending" => o = W!Pending
  <1>1. MaxTokens \in Nat
    BY AccountsAssumption DEF AccountsAssumption
  <1>2. CASE o = W!Pending
    BY <1>1, <1>2 DEF W!Pending
  <1>3. CASE o = W!Cleared
    BY <1>1, <1>3 DEF W!Cleared
  <1>4. CASE o = W!Unreachable
    BY <1>1, <1>4 DEF W!Unreachable
  <1>5. CASE o \in {W!Renewed(n) : n \in 1 .. MaxTokens}
    <2>1. PICK n \in 1 .. MaxTokens : o = W!Renewed(n)
      BY <1>5
    <2>2. o.is = "renewed" /\ o.token = n
      BY <2>1 DEF W!Renewed
    <2>3. o = W!Renewed(o.token) /\ o.token >= 1 /\ o.token \in 0 .. MaxTokens
      BY <1>1, <2>1, <2>2
    <2> QED
      BY <2>2, <2>3
  <1> QED
    BY <1>2, <1>3, <1>4, <1>5 DEF W!Outcomes

LEMMA SigningFacts ==
    ASSUME NEW s \in W!SigningStates
    PROVE  /\ s.at \in {"settled", "storing", "leaving", "left"}
           /\ s.at = "storing" => s.token \in 1 .. MaxTokens
           /\ s.at = "leaving" => s.raw \in 0 .. MaxTokens
           /\ s.at = "settled" => s = W!Settled
  BY DEF W!SigningStates, W!Settled, W!Tokens

LEMMA InitWeb == W!Init => WebInv
  <1> SUFFICES ASSUME W!Init PROVE WebInv
    OBVIOUS
  <1>1. MaxTokens \in Nat
    BY AccountsAssumption DEF AccountsAssumption
  <1>2. \A f \in Gets : get[f] = W!NoGet /\ Carried(f) = 0 /\ ~W!Under(f)
    BY DEF W!Init, W!NoGet, Carried, Sending, Waiting, Answered, W!Under
  <1>3. AtHand \subseteq {0}
    BY <1>2 DEF AtHand, W!Init
  <1>4. WebTypes
    <2>1. /\ W!NoGet \in W!GetStates
          /\ W!Settled \in W!SigningStates
      <3>1. W!NoGet \in W!GetStates
        BY Zenon DEF W!GetStates
      <3>2. W!Settled \in W!SigningStates
        BY Zenon DEF W!SigningStates
      <3> QED
        BY <3>1, <3>2
    <2>2. get \in [Gets -> W!GetStates] /\ signing \in [Tabs -> W!SigningStates]
      <3>1. get = [f \in Gets |-> W!NoGet] /\ signing = [t \in Tabs |-> W!Settled]
        BY DEF W!Init
      <3> QED
        BY <2>1, <3>1
    <2>3. DOMAIN inflight = {}
      BY DEF W!Init
    <2>4. W!TypeOK
      BY <1>1, <2>2, <2>3 DEF W!TypeOK, W!Init, W!Tokens
    <2>5. /\ live = {} /\ issued = 0 /\ excused = FALSE
          /\ askedBy = [v \in 1 .. MaxTokens |-> {}] /\ clean = [t \in Tabs |-> FALSE]
      BY DEF W!Init
    <2>6. askedBy \in [1 .. MaxTokens -> SUBSET Tabs] /\ clean \in [Tabs -> BOOLEAN]
      BY <2>5
    <2>7. \A x \in AtHand : x <= issued
      BY <1>3, <2>5
    <2> QED
      BY <1>1, <2>4, <2>5, <2>6, <2>7 DEF WebTypes
  <1>5. WebShape
    BY <1>2, <1>4 DEF WebShape, OneRefresh, SharedRefresh, LoginIsNew, LogoutAlone, W!Init, W!Settled,
                      W!NoGet, Waiting
  <1>6. Serene
    BY <1>2, <1>3 DEF Serene, OneSession, AskersWait, SpentOnce, Doomed, W!Init, W!NoGet,
                      Sending, Waiting, Answered
  <1> QED
    BY <1>5, <1>6 DEF WebInv

LEMMA WebFacts ==
    ASSUME WebTypes
    PROVE  /\ MaxTokens \in Nat /\ issued \in 0 .. MaxTokens /\ cookie \in 0 .. issued
           /\ live \subseteq 1 .. issued
           /\ \A f \in Gets : get[f] \in W!GetStates
           /\ \A v \in DOMAIN inflight : v \in 0 .. MaxTokens /\ inflight[v] \in W!Outcomes
           /\ \A t \in Tabs : signing[t] \in W!SigningStates
           /\ \A f \in Gets : Carried(f) \in 0 .. issued
           /\ \A v \in DOMAIN inflight : inflight[v].token \in 0 .. issued
  <1>1. MaxTokens \in Nat
    BY AccountsAssumption DEF AccountsAssumption
  <1>2. /\ issued \in 0 .. MaxTokens /\ cookie \in 0 .. MaxTokens /\ live \subseteq 1 .. issued
        /\ \A x \in AtHand : x <= issued
    BY DEF WebTypes, W!TypeOK, W!Tokens
  <1>3. /\ \A f \in Gets : get[f] \in W!GetStates
        /\ \A v \in DOMAIN inflight : v \in 0 .. MaxTokens /\ inflight[v] \in W!Outcomes
        /\ \A t \in Tabs : signing[t] \in W!SigningStates
    BY DEF WebTypes, W!TypeOK, W!Tokens
  <1>4. \A f \in Gets : Carried(f) \in 0 .. MaxTokens
    BY <1>1, <1>3, GetFacts, OutcomeFacts DEF Carried, Sending, Waiting, Answered
  <1>5. cookie \in AtHand /\ \A f \in Gets : Carried(f) \in AtHand
    BY DEF AtHand
  <1>6. \A v \in DOMAIN inflight : inflight[v].token \in AtHand
    BY DEF AtHand
  <1>7. \A v \in DOMAIN inflight : inflight[v].token \in 0 .. MaxTokens
    BY <1>3, OutcomeFacts
  <1>8. cookie \in 0 .. issued
    BY <1>1, <1>2, <1>5
  <1>9. \A f \in Gets : Carried(f) \in 0 .. issued
    BY <1>1, <1>2, <1>4, <1>5
  <1>10. \A v \in DOMAIN inflight : inflight[v].token \in 0 .. issued
    BY <1>1, <1>2, <1>6, <1>7
  <1> QED
    BY <1>1, <1>2, <1>3, <1>8, <1>9, <1>10

\* A GET that is as it was carries what it did.
LEMMA SameGet ==
    ASSUME NEW f, get'[f] = get[f]
    PROVE  /\ Sending(f)' = Sending(f) /\ Waiting(f)' = Waiting(f) /\ Answered(f)' = Answered(f)
           /\ Carried(f)' = Carried(f) /\ W!Under(f)' = W!Under(f)
  BY DEF Sending, Waiting, Answered, Carried, W!Under

LEMMA Places ==
    ASSUME WebTypes, NEW f \in Gets
    PROVE  /\ W!Under(f) <=> Sending(f) \/ Waiting(f) \/ Answered(f)
           /\ Sending(f) => ~Waiting(f) /\ ~Answered(f)
           /\ Waiting(f) => ~Answered(f)
  BY WebFacts, GetFacts DEF W!Under, Sending, Waiting, Answered

\* No token comes to hand.
LEMMA NothingNew ==
    ASSUME WebTypes, NEW f \in Gets, \A g \in Gets : g # f => get'[g] = get[g],
           Carried(f)' \in AtHand \union {0}, cookie' \in AtHand \union {0},
           \A v \in DOMAIN inflight' : inflight'[v].token \in AtHand \union {0}
    PROVE  AtHand' \subseteq AtHand \union {0}
  <1>1. \A g \in Gets : Carried(g)' \in AtHand \union {0}
    <2> TAKE g \in Gets
    <2>1. Carried(g) \in AtHand
      BY DEF AtHand
    <2> QED
      BY <2>1, SameGet
  <1> QED
    BY <1>1 DEF AtHand

LEMMA RefreshShape ==
    ASSUME WebShape, NEW t \in Tabs, NEW f \in Gets, W!Refresh(t, f)
    PROVE  WebShape' /\ AtHand' \subseteq AtHand \union {0}
  <1> DEFINE q == [at |-> "sent", tab |-> t, raw |-> cookie]
  <1>1. /\ ~W!Under(f) /\ W!Of(t) = {}
        /\ get' = [get EXCEPT ![f] = q] /\ clean' = [u \in Tabs |-> FALSE]
        /\ UNCHANGED <<live, issued, cookie, memory, inflight, signing, askedBy, excused>>
    BY DEF W!Refresh, W!MayRefresh, W!UnchangedService
  <1>2. WebTypes /\ q \in W!GetStates
    BY DEF WebShape, W!GetStates, WebTypes, W!TypeOK
  <1>3. get'[f] = q /\ \A g \in Gets : g # f => get'[g] = get[g]
    BY <1>1 DEF WebShape, WebTypes, W!TypeOK
  <1>4. q.at = "sent" /\ q.tab = t /\ q.raw = cookie
    OBVIOUS
  <1>5. get' \in [Gets -> W!GetStates]
    BY <1>1, <1>2 DEF WebTypes, W!TypeOK
  <1> HIDE DEF q
  <1>6. Sending(f)' /\ ~Waiting(f)' /\ ~Answered(f)' /\ Carried(f)' = cookie /\ W!Under(f)'
    BY <1>3, <1>4 DEF Sending, Waiting, Answered, Carried, W!Under
  <1>7. ~Waiting(f)
    BY <1>1, <1>2, Places
  <1>8. AtHand' \subseteq AtHand \union {0}
    <2>1. cookie \in AtHand /\ \A v \in DOMAIN inflight : inflight[v].token \in AtHand
      BY DEF AtHand
    <2> QED
      BY <1>1, <1>2, <1>3, <1>6, <2>1, NothingNew
  <1>9. WebTypes'
    BY <1>1, <1>2, <1>5, <1>8, WebFacts DEF WebTypes, W!TypeOK
  <1>10. OneRefresh'
    <2> SUFFICES ASSUME NEW g \in Gets, NEW h \in Gets, W!Under(g)', W!Under(h)', get'[g].tab = get'[h].tab
                 PROVE  g = h
      BY DEF OneRefresh
    <2>1. \A k \in Gets : k # f /\ W!Under(k)' => get'[k].tab # t
      BY <1>1, <1>3, SameGet DEF W!Of
    <2> QED
      BY <1>3, <1>4, <2>1, SameGet DEF WebShape, OneRefresh
  <1>11. SharedRefresh'
    BY <1>1, <1>3, <1>6, <1>7, SameGet DEF WebShape, SharedRefresh
  <1>12. LoginIsNew'
    <2>1. \A u \in Tabs : signing[u].at = "storing" => signing[u].token # 0
      BY <1>2, WebFacts, SigningFacts
    <2> QED
      BY <1>1, <1>8, <2>1 DEF WebShape, LoginIsNew
  <1>13. LogoutAlone'
    BY <1>1 DEF LogoutAlone
  <1> QED
    BY <1>8, <1>9, <1>10, <1>11, <1>12, <1>13 DEF WebShape

LEMMA RefreshSerene ==
    ASSUME WebShape, Serene, NEW t \in Tabs, NEW f \in Gets, W!Refresh(t, f)
    PROVE  Serene'
  <1> DEFINE q == [at |-> "sent", tab |-> t, raw |-> cookie]
  <1>1. /\ ~W!Under(f) /\ W!Of(t) = {}
        /\ get' = [get EXCEPT ![f] = q] /\ clean' = [u \in Tabs |-> FALSE]
        /\ UNCHANGED <<live, issued, cookie, memory, inflight, signing, askedBy, excused>>
    BY DEF W!Refresh, W!MayRefresh, W!UnchangedService
  <1>2. WebTypes /\ AtHand' \subseteq AtHand \union {0} /\ 0 \notin live
    BY RefreshShape, WebFacts DEF WebShape
  <1>3. get'[f] = q /\ \A g \in Gets : g # f => get'[g] = get[g]
    BY <1>1 DEF WebShape, WebTypes, W!TypeOK
  <1>4. q.at = "sent" /\ q.tab = t /\ q.raw = cookie
    OBVIOUS
  <1> HIDE DEF q
  <1>5. Sending(f)' /\ ~Waiting(f)' /\ ~Answered(f)'
    BY <1>3, <1>4 DEF Sending, Waiting, Answered
  <1>6. ~Waiting(f) /\ ~Answered(f)
    BY <1>1, <1>2, Places
  <1>7. \A g \in Gets : Doomed(g)' => Doomed(g)
    BY <1>1, <1>3, <1>5, SameGet DEF Doomed
  <1>8. OneSession'
    BY <1>1, <1>2, <1>7 DEF Serene, OneSession
  <1>9. AskersWait'
    BY <1>1, <1>3, <1>6, SameGet DEF Serene, AskersWait
  <1>10. SpentOnce'
    <2>1. cookie # 0 => t \notin askedBy[cookie]
      <3>1. cookie \in 0 .. MaxTokens
        BY <1>2, WebFacts
      <3>2. \A g \in Gets : Waiting(g) \/ Answered(g) => get[g].tab # t
        BY <1>1, <1>2, Places DEF W!Of
      <3> QED
        BY <3>1, <3>2 DEF Serene, AskersWait
    <2>2. ASSUME NEW g \in Gets, Sending(g)', get'[g].raw # 0 PROVE get'[g].tab \notin askedBy[get'[g].raw]
      BY <1>3, <1>4, <2>1, <2>2, SameGet DEF Serene, SpentOnce
    <2> QED
      BY <1>1, <2>2 DEF Serene, SpentOnce
  <1> QED
    BY <1>8, <1>9, <1>10 DEF Serene

\* Without a cookie the answer comes from the route alone.
LEMMA ArriveBare ==
    ASSUME WebInv, NEW f \in Gets, W!Arrive(f), get[f].raw = 0
    PROVE  WebInv'
  <1> DEFINE q == [at |-> "answered", tab |-> get[f].tab, answer |-> W!Unreachable]
  <1>1. WebShape /\ WebTypes /\ Sending(f)
    BY DEF WebInv, WebShape, W!Arrive, Sending
  <1>2. /\ get' = [get EXCEPT ![f] = q]
        /\ UNCHANGED <<live, issued, cookie, memory, signing, clean, askedBy>>
        /\ DOMAIN inflight' = DOMAIN inflight
        /\ \A v \in DOMAIN inflight : inflight'[v] = inflight[v]
        /\ excused' = excused
    <2>1. excused \in BOOLEAN
      BY <1>1 DEF WebTypes
    <2> QED
      BY <2>1 DEF W!Arrive, W!UnchangedService
  <1>3. q \in W!GetStates
    <2>1. get[f].tab \in Tabs /\ W!Unreachable \in W!Outcomes
      BY <1>1, WebFacts, GetFacts DEF Sending, W!Outcomes
    <2>2. W!Unreachable # W!Pending
      BY DEF W!Unreachable, W!Pending
    <2> QED
      BY <2>1, <2>2 DEF W!GetStates
  <1>4. get'[f] = q /\ \A g \in Gets : g # f => get'[g] = get[g]
    BY <1>1, <1>2 DEF WebTypes, W!TypeOK
  <1>5. q.at = "answered" /\ q.tab = get[f].tab /\ q.answer.is = "unreachable" /\ q.answer.token = 0
    BY DEF W!Unreachable
  <1>6. get' \in [Gets -> W!GetStates]
    BY <1>1, <1>2, <1>3 DEF WebTypes, W!TypeOK
  <1> HIDE DEF q
  <1>7. Answered(f)' /\ ~Waiting(f)' /\ ~Sending(f)' /\ Carried(f)' = 0 /\ W!Under(f)' /\ W!Under(f)
    BY <1>1, <1>4, <1>5, Places DEF Sending, Waiting, Answered, Carried, W!Under
  <1>8. ~Waiting(f) /\ ~Answered(f)
    BY <1>1, Places
  <1>9. AtHand' \subseteq AtHand \union {0}
    <2>1. cookie \in AtHand /\ \A v \in DOMAIN inflight : inflight[v].token \in AtHand
      BY DEF AtHand
    <2> QED
      BY <1>1, <1>2, <1>4, <1>7, <2>1, NothingNew
  <1>10. WebTypes'
    <2>1. \A x \in AtHand' : x <= issued
      BY <1>1, <1>9, WebFacts DEF WebTypes
    <2>2. W!TypeOK'
      BY <1>1, <1>2, <1>6 DEF WebTypes, W!TypeOK
    <2> QED
      BY <1>1, <1>2, <2>1, <2>2 DEF WebTypes
  <1>11. OneRefresh'
    BY <1>1, <1>4, <1>5, <1>7, SameGet DEF WebShape, OneRefresh
  <1>12. SharedRefresh'
    BY <1>1, <1>2, <1>4, <1>7, <1>8, SameGet DEF WebShape, SharedRefresh
  <1>13. LoginIsNew'
    <2>1. \A u \in Tabs : signing[u].at = "storing" => signing[u].token # 0
      BY <1>1, WebFacts, SigningFacts
    <2> QED
      BY <1>1, <1>2, <1>9, <2>1 DEF WebShape, LoginIsNew
  <1>14. LogoutAlone'
    BY <1>1, <1>2, <1>7 DEF WebShape, LogoutAlone
  <1>15. ASSUME Serene PROVE Serene'
    <2>1. \A g \in Gets : Waiting(g)' => Waiting(g) /\ get'[g] = get[g] /\ get[g].raw \in DOMAIN inflight
      BY <1>1, <1>4, <1>7, SameGet DEF WebShape, SharedRefresh
    <2>2. \A g \in Gets : Doomed(g)' => Doomed(g)
      BY <1>2, <1>4, <1>5, <1>7, <2>1, SameGet DEF Doomed
    <2>3. OneSession'
      BY <1>1, <1>2, <1>9, <2>2, WebFacts, <1>15 DEF Serene, OneSession
    <2>4. AskersWait'
      BY <1>2, <1>4, <1>8, SameGet, <1>15 DEF Serene, AskersWait
    <2>5. SpentOnce'
      BY <1>2, <1>4, <1>7, SameGet, <1>15 DEF Serene, SpentOnce
    <2> QED
      BY <2>3, <2>4, <2>5 DEF Serene
  <1> QED
    BY <1>2, <1>10, <1>11, <1>12, <1>13, <1>14, <1>15 DEF WebInv, WebShape

LEMMA ArriveWaits ==
    ASSUME WebInv, NEW f \in Gets, W!Arrive(f), get[f].raw # 0
    PROVE  WebInv'
  <1> DEFINE c == get[f].raw
             q == [get[f] EXCEPT !.at = "waiting"]
  <1>1. WebShape /\ WebTypes /\ Sending(f)
    BY DEF WebInv, WebShape, W!Arrive, Sending
  <1>2. /\ get' = [get EXCEPT ![f] = q]
        /\ UNCHANGED <<live, issued, cookie, memory, signing, clean>>
        /\ DOMAIN inflight' = DOMAIN inflight \union {c}
        /\ \A v \in DOMAIN inflight : inflight'[v] = inflight[v]
        /\ c \notin DOMAIN inflight => inflight'[c] = W!Pending
        /\ askedBy' = [askedBy EXCEPT ![c] = @ \union {get[f].tab}]
        /\ excused' = (excused \/ (c \notin live /\ c \notin DOMAIN inflight
                                      /\ get[f].tab \notin askedBy[c]))
    BY DEF W!Arrive, W!UnchangedService
  <1>3. c \in 1 .. MaxTokens /\ get[f].tab \in Tabs /\ c <= issued /\ Carried(f) = c /\ c \in AtHand
        /\ get[f] = [at |-> "sent", tab |-> get[f].tab, raw |-> get[f].raw]
    <2>1. Carried(f) = c /\ Carried(f) \in AtHand
      BY <1>1 DEF Carried, AtHand
    <2> QED
      BY <1>1, <2>1, WebFacts, GetFacts DEF Sending
  <1>4. q.at = "waiting" /\ q.tab = get[f].tab /\ q.raw = c /\ q \in W!GetStates
    <2>1. q = [at |-> "waiting", tab |-> get[f].tab, raw |-> c]
      BY <1>3
    <2> QED
      BY <1>3, <2>1 DEF W!GetStates, W!Tokens
  <1>5. get'[f] = q /\ \A g \in Gets : g # f => get'[g] = get[g]
    BY <1>1, <1>2 DEF WebTypes, W!TypeOK
  <1>6. get' \in [Gets -> W!GetStates]
    BY <1>1, <1>2, <1>4 DEF WebTypes, W!TypeOK
  <1> HIDE DEF q, c
  <1>7. Waiting(f)' /\ ~Answered(f)' /\ ~Sending(f)' /\ Carried(f)' = c /\ W!Under(f)' /\ W!Under(f)
    BY <1>1, <1>4, <1>5, Places DEF Sending, Waiting, Answered, Carried, W!Under
  <1>8. ~Waiting(f) /\ ~Answered(f)
    BY <1>1, Places
  <1>9. W!Pending.is = "pending" /\ W!Pending.token = 0 /\ W!Pending \in W!Outcomes
    BY DEF W!Pending, W!Outcomes
  <1>10. AtHand' \subseteq AtHand \union {0}
    <2>1. cookie \in AtHand /\ \A v \in DOMAIN inflight : inflight[v].token \in AtHand
      BY DEF AtHand
    <2>2. \A v \in DOMAIN inflight' : inflight'[v].token \in AtHand \union {0}
      BY <1>2, <1>9, <2>1
    <2> QED
      BY <1>1, <1>2, <1>3, <1>5, <1>7, <2>1, <2>2, NothingNew
  <1>11. WebTypes'
    <2>1. /\ DOMAIN inflight' \subseteq 0 .. MaxTokens
          /\ \A v \in DOMAIN inflight' : inflight'[v] \in W!Outcomes
      BY <1>1, <1>2, <1>3, <1>9, WebFacts
    <2>2. askedBy' \in [1 .. MaxTokens -> SUBSET Tabs]
      BY <1>1, <1>2, <1>3 DEF WebTypes
    <2>3. \A v \in 1 .. MaxTokens : askedBy'[v] # {} => v <= issued
      BY <1>1, <1>2, <1>3 DEF WebTypes
    <2>4. \A x \in AtHand' : x <= issued
      BY <1>1, <1>10, WebFacts DEF WebTypes
    <2>5. excused' \in BOOLEAN
      BY <1>2
    <2> QED
      BY <1>1, <1>2, <1>6, <2>1, <2>2, <2>3, <2>4, <2>5 DEF WebTypes, W!TypeOK, W!Tokens
  <1>12. OneRefresh'
    BY <1>1, <1>4, <1>5, <1>7, SameGet DEF WebShape, OneRefresh
  <1>13. SharedRefresh'
    <2>1. \A g \in Gets : Waiting(g)' => get'[g].raw \in DOMAIN inflight'
      BY <1>1, <1>2, <1>4, <1>5, SameGet DEF WebShape, SharedRefresh
    <2>2. ASSUME NEW v \in DOMAIN inflight' PROVE v # 0 /\ \E g \in Gets : Waiting(g)' /\ get'[g].raw = v
      <3>1. CASE v = c
        BY <1>3, <1>4, <1>5, <1>7, <3>1
      <3>2. CASE v # c
        BY <1>1, <1>2, <1>5, <1>8, <2>2, <3>2, SameGet DEF WebShape, SharedRefresh
      <3> QED
        BY <3>1, <3>2
    <2> QED
      BY <2>1, <2>2 DEF SharedRefresh
  <1>14. LoginIsNew'
    <2>1. \A u \in Tabs : signing[u].at = "storing" => signing[u].token \in 1 .. MaxTokens
      BY <1>1, WebFacts, SigningFacts
    <2>2. \A u \in Tabs : signing[u].at = "storing" => signing[u].token # c
      BY <1>1, <1>3 DEF WebShape, LoginIsNew
    <2>3. \A v \in 1 .. MaxTokens : v # c => askedBy'[v] = askedBy[v]
      BY <1>1, <1>2 DEF WebTypes
    <2> QED
      BY <1>1, <1>2, <1>10, <2>1, <2>2, <2>3 DEF WebShape, LoginIsNew
  <1>15. LogoutAlone'
    BY <1>1, <1>2, <1>7 DEF WebShape, LogoutAlone
  <1>16. ASSUME ~excused' PROVE Serene'
    <2>1. Serene /\ get[f].tab \notin askedBy[c]
      BY <1>1, <1>2, <1>16, c # 0 DEF WebInv, Serene, SpentOnce, c
    <2>2. c \in live \/ c \in DOMAIN inflight
      BY <1>2, <1>16, <2>1
    <2>3. \A g \in Gets : g # f => (Doomed(g)' => Doomed(g))
      <3>1. \A g \in Gets : Waiting(g) => get[g].raw \in DOMAIN inflight
        BY <1>1 DEF WebShape, SharedRefresh
      <3> QED
        BY <1>2, <1>5, <3>1, SameGet DEF Doomed
    <2>4. Doomed(f)' => \E g \in Gets : Doomed(g)
      <3>1. CASE c \in DOMAIN inflight
        <4>1. PICK g \in Gets : Waiting(g) /\ get[g].raw = c
          BY <1>1, <3>1 DEF WebShape, SharedRefresh
        <4>2. Doomed(f)' => Doomed(g)
          BY <1>2, <1>4, <1>5, <1>7, <3>1, <4>1 DEF Doomed
        <4> QED
          BY <4>2
      <3>2. CASE c \notin DOMAIN inflight
        BY <1>2, <1>4, <1>5, <1>7, <1>9, <2>2, <3>2 DEF Doomed
      <3> QED
        BY <3>1, <3>2
    <2>5. OneSession'
      BY <1>1, <1>2, <1>10, <2>1, <2>3, <2>4, WebFacts DEF Serene, OneSession
    <2>6. AskersWait'
      <3> SUFFICES ASSUME NEW v \in 1 .. MaxTokens, NEW t \in askedBy'[v], v \in live \/ v = cookie
                   PROVE  /\ v \in live => \E g \in Gets : Waiting(g)' /\ get'[g].tab = t /\ get'[g].raw = v
                          /\ v = cookie => \E g \in Gets :
                                /\ \/ Waiting(g)' /\ get'[g].raw = v
                                   \/ Answered(g)' /\ get'[g].answer.is # "unreachable"
                                /\ get'[g].tab = t
        BY <1>2 DEF AskersWait
      <3>1. CASE v = c /\ t = get[f].tab
        BY <1>4, <1>5, <1>7, <3>1
      <3>2. CASE t \in askedBy[v]
        BY <1>5, <1>8, <2>1, <3>2, SameGet DEF Serene, AskersWait
      <3>3. t \in askedBy[v] \/ (v = c /\ t = get[f].tab)
        BY <1>1, <1>2, <1>3 DEF WebTypes
      <3> QED
        BY <3>1, <3>2, <3>3
    <2>7. SpentOnce'
      <3>1. \A v \in DOMAIN inflight' : inflight'[v].is # "pending" =>
                v \notin live /\ inflight'[v].is # "unreachable"
        BY <1>2, <1>9, <2>1 DEF Serene, SpentOnce
      <3>2. ASSUME NEW g \in Gets, Sending(g)', get'[g].raw # 0
            PROVE  get'[g].tab \notin askedBy'[get'[g].raw]
        <4>1. g # f /\ get'[g] = get[g] /\ Sending(g)
          BY <1>5, <1>7, <3>2, SameGet
        <4>2. get[g].tab \notin askedBy[get[g].raw]
          BY <2>1, <3>2, <4>1 DEF Serene, SpentOnce
        <4>3. get[g].tab # get[f].tab
          BY <1>1, <1>7, <4>1, Places DEF WebShape, OneRefresh
        <4> QED
          BY <1>1, <1>2, <1>3, <4>1, <4>2, <4>3 DEF WebTypes
      <3> QED
        BY <1>2, <3>1, <3>2 DEF SpentOnce
    <2> QED
      BY <2>5, <2>6, <2>7 DEF Serene
  <1> QED
    BY <1>11, <1>12, <1>13, <1>14, <1>15, <1>16 DEF WebInv, WebShape

\* The refresh of v goes on: no GET moves.
LEMMA Answers ==
    ASSUME WebShape, NEW v \in DOMAIN inflight, NEW o \in W!Outcomes,
           inflight' = [inflight EXCEPT ![v] = o],
           issued' \in 0 .. MaxTokens, issued <= issued', live' \subseteq 1 .. issued',
           o.token \in AtHand \union {0, issued'}, excused' \in BOOLEAN,
           issued' > issued \/ o.token = 0,
           UNCHANGED <<cookie, memory, get, signing, askedBy, clean>>
    PROVE  WebShape' /\ AtHand' \subseteq AtHand \union {0, o.token}
  <1>1. WebTypes /\ MaxTokens \in Nat /\ issued \in 0 .. MaxTokens
    BY WebFacts DEF WebShape
  <1>2. /\ DOMAIN inflight' = DOMAIN inflight /\ inflight'[v] = o
        /\ \A w \in DOMAIN inflight : w # v => inflight'[w] = inflight[w]
    OBVIOUS
  <1>3. \A f \in Gets : Carried(f)' = Carried(f) /\ (Waiting(f)' <=> Waiting(f))
    BY SameGet
  <1>4. AtHand' \subseteq AtHand \union {0, o.token}
    BY <1>2, <1>3 DEF AtHand
  <1>5. WebTypes'
    <2>1. o.token \in 0 .. issued'
      BY <1>1, WebFacts, OutcomeFacts DEF WebTypes
    <2>2. \A x \in AtHand : x \in 0 .. issued
      BY <1>1, WebFacts DEF AtHand
    <2>3. \A x \in AtHand' : x <= issued'
      BY <1>1, <1>4, <2>1, <2>2
    <2>4. \A w \in DOMAIN inflight' : inflight'[w] \in W!Outcomes
      BY <1>1, <1>2, WebFacts
    <2>5. W!TypeOK'
      <3>1. live' \subseteq 0 .. MaxTokens /\ DOMAIN inflight' \subseteq 0 .. MaxTokens
        BY <1>1, <1>2, WebFacts
      <3>2. cookie' \in 0 .. MaxTokens /\ memory' \subseteq Tabs /\ get' \in [Gets -> W!GetStates]
            /\ signing' \in [Tabs -> W!SigningStates]
        BY <1>1 DEF WebTypes, W!TypeOK, W!Tokens
      <3> QED
        BY <2>4, <3>1, <3>2 DEF W!TypeOK, W!Tokens
    <2>6. \A w \in 1 .. MaxTokens : askedBy[w] # {} => w <= issued'
      BY <1>1 DEF WebTypes
    <2> QED
      BY <1>1, <2>3, <2>5, <2>6 DEF WebTypes
  <1>6. OneRefresh' /\ LogoutAlone'
    BY DEF WebShape, OneRefresh, LogoutAlone, W!Under
  <1>7. SharedRefresh'
    BY <1>2, <1>3 DEF WebShape, SharedRefresh
  <1>8. LoginIsNew'
    <2>1. ASSUME NEW t \in Tabs, signing[t].at = "storing"
          PROVE  /\ signing[t].token \in 1 .. issued
                 /\ signing[t].token \notin AtHand /\ signing[t].token # o.token
      <3>1. signing[t].token \in 1 .. MaxTokens
        BY <1>1, <2>1, WebFacts, SigningFacts
      <3> QED
        BY <1>1, <2>1, <3>1 DEF WebShape, LoginIsNew
    <2> QED
      BY <1>1, <1>4, <2>1 DEF WebShape, LoginIsNew
  <1> QED
    BY <1>4, <1>5, <1>6, <1>7, <1>8 DEF WebShape

LEMMA RenewKeeps ==
    ASSUME WebInv, NEW v \in DOMAIN inflight, W!Renew(v)
    PROVE  WebInv'
  <1> DEFINE n == issued + 1
             o == W!Renewed(n)
  <1>1. WebShape /\ WebTypes /\ MaxTokens \in Nat /\ issued \in 0 .. MaxTokens
    BY WebFacts DEF WebInv, WebShape
  <1>2. /\ inflight[v] = W!Pending /\ v \in live /\ issued < MaxTokens
        /\ issued' = n /\ live' = (live \ {v}) \union {n}
        /\ inflight' = [inflight EXCEPT ![v] = o]
        /\ UNCHANGED <<cookie, memory, get, signing, askedBy, excused, clean>>
    BY DEF W!Renew, W!Issue
  <1>3. o.is = "renewed" /\ o.token = n
    BY DEF W!Renewed
  <1>4. n \in 1 .. MaxTokens /\ o \in W!Outcomes /\ n > issued
    BY <1>1, <1>2 DEF W!Outcomes
  <1>5. live \subseteq 1 .. issued
    BY <1>1 DEF WebTypes
  <1> HIDE DEF o, n
  <1>6. WebShape' /\ AtHand' \subseteq AtHand \union {0, n}
    <2>1. live' \subseteq 1 .. issued'
      BY <1>1, <1>2, <1>4, <1>5
    <2>2. issued' \in 0 .. MaxTokens /\ issued <= issued' /\ issued' > issued
      BY <1>1, <1>2, <1>4
    <2>3. excused' \in BOOLEAN
      BY <1>1, <1>2 DEF WebTypes
    <2>4. o.token \in AtHand \union {0, issued'}
      BY <1>2, <1>3
    <2> QED
      BY <1>1, <1>2, <1>3, <1>4, <2>1, <2>2, <2>3, <2>4, Answers
  <1>7. ASSUME ~excused PROVE Serene'
    <2>1. Serene
      BY <1>7 DEF WebInv
    <2>2. v \in AtHand
      <3>1. PICK f \in Gets : Waiting(f) /\ get[f].raw = v
        BY <1>1 DEF WebShape, SharedRefresh
      <3> QED
        BY <3>1 DEF Carried, AtHand
    <2>3. AtHand' \intersect live' \subseteq {n}
      <3>1. AtHand \intersect live \subseteq {v}
        BY <1>2, <2>1, <2>2 DEF Serene, OneSession
      <3>2. \A x \in AtHand : x \in 0 .. issued
        BY <1>1, WebFacts DEF AtHand
      <3> QED
        BY <1>1, <1>2, <1>4, <1>5, <1>6, <3>1, <3>2
    <2>4. \A f \in Gets : ~Doomed(f)
      BY <1>2, <2>1, <2>2 DEF Serene, OneSession
    <2>5. /\ DOMAIN inflight' = DOMAIN inflight /\ inflight'[v] = o
          /\ \A w \in DOMAIN inflight : w # v => inflight'[w] = inflight[w]
      BY <1>2
    <2>6. \A f \in Gets : ~Doomed(f)'
      <3> SUFFICES ASSUME NEW f \in Gets, Doomed(f)' PROVE FALSE
        OBVIOUS
      <3>1. ~Answered(f) \/ get[f].answer.is # "failed"
        BY <2>4 DEF Doomed
      <3>2. Waiting(f) /\ get[f].raw \in DOMAIN inflight /\ get'[f] = get[f]
        BY <1>1, <1>2, <3>1 DEF Doomed, Waiting, Answered, WebShape, SharedRefresh
      <3>3. CASE get[f].raw = v
        BY <1>3, <2>5, <3>1, <3>2, <3>3 DEF Doomed, Answered
      <3>4. CASE get[f].raw # v
        <4>1. get[f].raw \in live' => get[f].raw \in live
          <5>1. get[f].raw \in 0 .. issued
            BY <1>1, <3>2, WebFacts DEF Carried
          <5> QED
            BY <1>1, <1>2, <1>4, <5>1
        <4>2. get[f].raw \in live => get[f].raw \in live'
          BY <1>2, <3>4
        <4>3. inflight'[get[f].raw] = inflight[get[f].raw]
          BY <2>5, <3>2, <3>4
        <4>4. ~Answered(f)'
          BY <1>1, <3>2, Places, SameGet
        <4>5. Doomed(f)
          BY <3>2, <4>1, <4>2, <4>3, <4>4 DEF Doomed
        <4> QED
          BY <2>4, <4>5
      <3> QED
        BY <3>3, <3>4
    <2>7. OneSession'
      BY <2>3, <2>6 DEF OneSession
    <2>8. AskersWait'
      <3>1. \A w \in 1 .. MaxTokens : askedBy[w] # {} => w # n
        BY <1>1, <1>4 DEF WebTypes
      <3>2. \A f \in Gets : Waiting(f)' = Waiting(f) /\ Answered(f)' = Answered(f)
        BY <1>2, SameGet
      <3> QED
        BY <1>2, <2>1, <3>1, <3>2 DEF Serene, AskersWait
    <2>9. SpentOnce'
      <3>1. \A w \in DOMAIN inflight : w \in live' /\ w # v => w \in live
        <4>1. \A w \in DOMAIN inflight : w \in 0 .. issued
          <5> TAKE w \in DOMAIN inflight
          <5>1. PICK f \in Gets : Waiting(f) /\ get[f].raw = w
            BY <1>1 DEF WebShape, SharedRefresh
          <5> QED
            BY <1>1, <5>1, WebFacts DEF Carried
        <4> QED
          BY <1>1, <1>2, <1>4, <4>1
      <3>2. v \notin live'
        BY <1>1, <1>2, <1>4, <1>5
      <3>3. \A f \in Gets : Sending(f)' = Sending(f)
        BY <1>2, SameGet
      <3> QED
        BY <1>2, <1>3, <2>1, <2>5, <3>1, <3>2, <3>3 DEF Serene, SpentOnce
    <2> QED
      BY <2>7, <2>8, <2>9 DEF Serene
  <1> QED
    BY <1>2, <1>6, <1>7 DEF WebInv

LEMMA RefuseKeeps ==
    ASSUME WebInv, NEW v \in DOMAIN inflight, W!Refuse(v)
    PROVE  WebInv'
  <1>1. WebShape /\ WebTypes
    BY DEF WebInv, WebShape
  <1>2. /\ inflight[v] = W!Pending /\ v \notin live
        /\ inflight' = [inflight EXCEPT ![v] = W!Cleared]
        /\ UNCHANGED <<live, issued, cookie, memory, get, signing, askedBy, excused, clean>>
    BY DEF W!Refuse, W!UnchangedService
  <1>3. /\ W!Cleared \in W!Outcomes /\ W!Cleared.is = "failed" /\ W!Cleared.token = 0
        /\ W!Pending.is = "pending"
    BY DEF W!Outcomes, W!Cleared, W!Pending
  <1>4. WebShape' /\ AtHand' \subseteq AtHand \union {0}
    <2>1. issued' \in 0 .. MaxTokens /\ issued <= issued' /\ live' \subseteq 1 .. issued'
      BY <1>1, <1>2, WebFacts
    <2>2. excused' \in BOOLEAN
      BY <1>1, <1>2 DEF WebTypes
    <2>3. PICK o \in W!Outcomes : o = W!Cleared
      BY <1>3
    <2>4. o.token = 0 /\ o.token \in AtHand \union {0, issued'}
      BY <1>3, <2>3
    <2>5. inflight' = [inflight EXCEPT ![v] = o]
      BY <1>2, <2>3
    <2>6. WebShape' /\ AtHand' \subseteq AtHand \union {0, o.token}
      BY <1>1, <1>2, <2>1, <2>2, <2>4, <2>5, Answers
    <2> QED
      BY <2>4, <2>6
  <1>5. ASSUME ~excused PROVE Serene'
    <2>1. Serene
      BY <1>5 DEF WebInv
    <2>2. /\ DOMAIN inflight' = DOMAIN inflight /\ inflight'[v] = W!Cleared
          /\ \A w \in DOMAIN inflight : w # v => inflight'[w] = inflight[w]
      BY <1>2
    <2>3. \A f \in Gets : /\ Sending(f)' = Sending(f) /\ Waiting(f)' = Waiting(f)
                          /\ Answered(f)' = Answered(f)
      BY <1>2, SameGet
    <2>4. \A f \in Gets : Doomed(f)' => Doomed(f)
      <3> SUFFICES ASSUME NEW f \in Gets, Doomed(f)', Waiting(f) PROVE Doomed(f)
        BY <1>2, <2>3 DEF Doomed
      <3>1. get[f].raw \in DOMAIN inflight
        BY <1>1 DEF WebShape, SharedRefresh
      <3> QED
        BY <1>2, <1>3, <2>2, <2>3, <3>1 DEF Doomed
    <2>5. OneSession'
      BY <1>1, <1>2, <1>4, <2>1, <2>4, WebFacts DEF Serene, OneSession
    <2>6. AskersWait'
      BY <1>2, <2>1, <2>3 DEF Serene, AskersWait
    <2>7. SpentOnce'
      BY <1>2, <1>3, <2>1, <2>2, <2>3 DEF Serene, SpentOnce
    <2> QED
      BY <2>5, <2>6, <2>7 DEF Serene
  <1> QED
    BY <1>2, <1>4, <1>5 DEF WebInv

LEMMA MissKeeps ==
    ASSUME WebInv, NEW v \in DOMAIN inflight, NEW o \in {W!Cleared, W!Unreachable},
           W!MissService(v, o)
    PROVE  WebInv'
  <1>1. WebShape /\ WebTypes
    BY DEF WebInv, WebShape
  <1>2. /\ inflight' = [inflight EXCEPT ![v] = o] /\ excused' = TRUE
        /\ UNCHANGED <<live, issued, cookie, memory, get, signing, askedBy, clean>>
    BY DEF W!MissService, W!UnchangedService
  <1>3. o \in W!Outcomes /\ o.token = 0
    <2>1. o \in W!Outcomes
      BY Zenon DEF W!Outcomes
    <2> QED
      BY <2>1 DEF W!Cleared, W!Unreachable
  <1>4. /\ issued' \in 0 .. MaxTokens /\ issued <= issued' /\ live' \subseteq 1 .. issued'
        /\ excused' \in BOOLEAN
    BY <1>1, <1>2, WebFacts
  <1>5. WebShape'
    BY <1>1, <1>2, <1>3, <1>4, Answers
  <1> QED
    BY <1>2, <1>5 DEF WebInv

LEMMA AnswerKeeps ==
    ASSUME WebInv, NEW v \in DOMAIN inflight, W!AnswerAll(v)
    PROVE  WebInv'
  <1> DEFINE Handed(f) == [at |-> "answered", tab |-> get[f].tab, answer |-> inflight[v]]
             Moves(f) == Waiting(f) /\ get[f].raw = v
  <1>1. WebShape /\ WebTypes
    BY DEF WebInv, WebShape
  <1>2. /\ get' = [f \in Gets |-> IF Moves(f) THEN Handed(f) ELSE get[f]]
        /\ DOMAIN inflight' = DOMAIN inflight \ {v}
        /\ \A w \in DOMAIN inflight' : inflight'[w] = inflight[w]
        /\ inflight[v] # W!Pending
        /\ UNCHANGED <<live, issued, cookie, memory, signing, askedBy, excused, clean>>
    BY DEF W!AnswerAll, W!UnchangedService, Waiting
  <1>3. \A f \in Gets : ~Moves(f) => get'[f] = get[f]
    BY <1>2
  <1>4. inflight[v] \in W!Outcomes \ {W!Pending}
    BY <1>1, <1>2, WebFacts
  <1>5. ASSUME NEW f \in Gets, Moves(f)
        PROVE  /\ get'[f] \in W!GetStates /\ Answered(f)' /\ ~Waiting(f)' /\ ~Sending(f)'
               /\ W!Under(f)' /\ W!Under(f) /\ get'[f].tab = get[f].tab
               /\ get'[f].answer = inflight[v] /\ Carried(f)' = inflight[v].token
               /\ ~Answered(f) /\ ~Sending(f)
    <2>1. get[f].tab \in Tabs
      BY <1>1, <1>5, WebFacts, GetFacts DEF Waiting
    <2>2. get'[f] = Handed(f)
      BY <1>2, <1>5
    <2>3. Handed(f) \in W!GetStates
      BY <1>4, <2>1 DEF W!GetStates
    <2>4. ~Answered(f) /\ ~Sending(f) /\ W!Under(f)
      BY <1>1, <1>5, Places
    <2> QED
      BY <2>2, <2>3, <2>4 DEF Answered, Waiting, Sending, W!Under, Carried
  <1>6. get' \in [Gets -> W!GetStates]
    <2>1. \A f \in Gets : get'[f] \in W!GetStates
      BY <1>1, <1>3, <1>5, WebFacts
    <2> QED
      BY <1>2, <2>1
  <1>7. \A f \in Gets : (W!Under(f)' <=> W!Under(f)) /\ get'[f].tab = get[f].tab
    BY <1>3, <1>5, SameGet
  <1>8. \A f \in Gets : Waiting(f)' => Waiting(f) /\ get[f].raw # v /\ get'[f] = get[f]
    BY <1>3, <1>5, SameGet
  <1>9. \A f \in Gets : Waiting(f) /\ get[f].raw # v => Waiting(f)' /\ get'[f] = get[f]
    BY <1>3, SameGet
  <1> HIDE DEF Moves
  <1>10. AtHand' \subseteq AtHand
    <2>1. inflight[v].token \in AtHand /\ \A f \in Gets : Carried(f) \in AtHand
      BY DEF AtHand
    <2>2. \A f \in Gets : Carried(f)' \in AtHand
      BY <1>3, <1>5, <2>1, SameGet
    <2> QED
      BY <1>2, <2>2 DEF AtHand
  <1>11. WebTypes'
    BY <1>1, <1>2, <1>6, <1>10 DEF WebTypes, W!TypeOK
  <1>12. OneRefresh' /\ LogoutAlone'
    BY <1>1, <1>2, <1>7 DEF WebShape, OneRefresh, LogoutAlone
  <1>13. SharedRefresh'
    BY <1>1, <1>2, <1>8, <1>9 DEF WebShape, SharedRefresh
  <1>14. LoginIsNew'
    BY <1>1, <1>2, <1>10 DEF WebShape, LoginIsNew
  <1>15. ASSUME Serene PROVE Serene'
    <2>1. v \notin live /\ inflight[v].is # "unreachable"
      <3>1. inflight[v].is # "pending"
        BY <1>1, <1>2, WebFacts, OutcomeFacts
      <3> QED
        BY <1>15, <3>1 DEF Serene, SpentOnce
    <2>2. \A f \in Gets : Doomed(f)' => Doomed(f)
      <3> SUFFICES ASSUME NEW f \in Gets, Doomed(f)' PROVE Doomed(f)
        OBVIOUS
      <3>1. CASE Moves(f)
        BY <1>5, <3>1 DEF Doomed, Moves
      <3>2. CASE ~Moves(f)
        <4>1. get'[f] = get[f]
          BY <1>3, <3>2
        <4>2. Waiting(f)' => Waiting(f) /\ get[f].raw # v /\ get[f].raw \in DOMAIN inflight
          BY <1>1, <1>8 DEF WebShape, SharedRefresh
        <4>3. Waiting(f)' => inflight'[get[f].raw] = inflight[get[f].raw]
          BY <1>2, <4>2
        <4> QED
          BY <1>2, <4>1, <4>2, <4>3, SameGet DEF Doomed
      <3> QED
        BY <3>1, <3>2
    <2>3. OneSession'
      BY <1>2, <1>10, <1>15, <2>2 DEF Serene, OneSession
    <2>4. AskersWait'
      <3> SUFFICES ASSUME NEW w \in 1 .. MaxTokens, NEW t \in askedBy[w]
                   PROVE  /\ w \in live => \E g \in Gets : Waiting(g)' /\ get'[g].tab = t /\ get'[g].raw = w
                          /\ w = cookie => \E g \in Gets :
                                /\ \/ Waiting(g)' /\ get'[g].raw = w
                                   \/ Answered(g)' /\ get'[g].answer.is # "unreachable"
                                /\ get'[g].tab = t
        BY <1>2 DEF AskersWait
      <3>1. ASSUME w \in live PROVE \E g \in Gets : Waiting(g)' /\ get'[g].tab = t /\ get'[g].raw = w
        BY <1>9, <1>15, <2>1, <3>1 DEF Serene, AskersWait
      <3>2. ASSUME w = cookie
            PROVE  \E g \in Gets :
                      /\ \/ Waiting(g)' /\ get'[g].raw = w
                         \/ Answered(g)' /\ get'[g].answer.is # "unreachable"
                      /\ get'[g].tab = t
        <4>1. PICK g \in Gets : /\ \/ Waiting(g) /\ get[g].raw = w
                                   \/ Answered(g) /\ get[g].answer.is # "unreachable"
                                /\ get[g].tab = t
          BY <1>15, <3>2 DEF Serene, AskersWait
        <4>2. CASE Moves(g)
          BY <1>5, <2>1, <4>1, <4>2
        <4>3. CASE ~Moves(g)
          BY <1>3, <4>1, <4>3, SameGet
        <4> QED
          BY <4>2, <4>3
      <3> QED
        BY <3>1, <3>2
    <2>5. SpentOnce'
      <3>1. \A f \in Gets : Sending(f)' => Sending(f) /\ get'[f] = get[f]
        BY <1>3, <1>5, SameGet
      <3> QED
        BY <1>2, <1>15, <3>1 DEF Serene, SpentOnce
    <2> QED
      BY <2>3, <2>4, <2>5 DEF Serene
  <1> QED
    BY <1>2, <1>11, <1>12, <1>13, <1>14, <1>15 DEF WebInv, WebShape

\* A GET that is over leaves no token but the cookie it has set.
LEMMA GetEnds ==
    ASSUME WebShape, NEW f \in Gets, ~Waiting(f), get' = [get EXCEPT ![f] = W!NoGet],
           cookie' \in {cookie, Carried(f), 0}, memory' \subseteq Tabs, excused' \in BOOLEAN,
           UNCHANGED <<live, issued, inflight, signing, askedBy, clean>>
    PROVE  /\ WebShape' /\ AtHand' \subseteq AtHand \union {0}
           /\ ~Sending(f)' /\ ~Waiting(f)' /\ ~Answered(f)'
           /\ \A g \in Gets : g # f => get'[g] = get[g]
  <1>1. WebTypes
    BY DEF WebShape
  <1>2. get'[f] = W!NoGet /\ \A g \in Gets : g # f => get'[g] = get[g]
    BY <1>1 DEF WebTypes, W!TypeOK
  <1>3. W!NoGet \in W!GetStates
    BY Zenon DEF W!GetStates
  <1>4. get' \in [Gets -> W!GetStates]
    BY <1>1, <1>3 DEF WebTypes, W!TypeOK
  <1>5. ~Sending(f)' /\ ~Waiting(f)' /\ ~Answered(f)' /\ ~W!Under(f)' /\ Carried(f)' = 0
    BY <1>2 DEF W!NoGet, Sending, Waiting, Answered, W!Under, Carried
  <1>6. AtHand' \subseteq AtHand \union {0}
    <2>1. cookie \in AtHand /\ Carried(f) \in AtHand /\ \A v \in DOMAIN inflight : inflight[v].token \in AtHand
      BY DEF AtHand
    <2> QED
      BY <1>1, <1>2, <1>5, <2>1, NothingNew
  <1>7. WebTypes'
    <2>1. cookie' \in 0 .. MaxTokens
      BY <1>1, WebFacts
    <2>2. \A x \in AtHand' : x <= issued
      BY <1>1, <1>6, WebFacts DEF WebTypes
    <2>3. W!TypeOK'
      BY <1>1, <1>4, <2>1 DEF WebTypes, W!TypeOK, W!Tokens
    <2> QED
      BY <1>1, <2>2, <2>3 DEF WebTypes
  <1>8. OneRefresh' /\ LogoutAlone'
    BY <1>2, <1>5, SameGet DEF WebShape, OneRefresh, LogoutAlone
  <1>9. SharedRefresh'
    BY <1>2, <1>5, SameGet DEF WebShape, SharedRefresh
  <1>10. LoginIsNew'
    <2>1. \A u \in Tabs : signing[u].at = "storing" => signing[u].token # 0
      BY <1>1, WebFacts, SigningFacts
    <2> QED
      BY <1>6, <2>1 DEF WebShape, LoginIsNew
  <1> QED
    BY <1>2, <1>5, <1>6, <1>7, <1>8, <1>9, <1>10 DEF WebShape

LEMMA ReceiveKeeps ==
    ASSUME WebInv, NEW f \in Gets, W!Receive(f)
    PROVE  WebInv'
  <1> DEFINE a == get[f].answer
  <1>1. WebShape /\ WebTypes
    BY DEF WebInv, WebShape
  <1>2. /\ Answered(f)
        /\ cookie' = IF a.is = "unreachable" THEN cookie ELSE a.token
        /\ get' = [get EXCEPT ![f] = W!NoGet]
        /\ excused' = (excused \/ (a.token # 0 /\ a.token \notin live))
        /\ UNCHANGED <<live, issued, inflight, signing, askedBy, clean>>
    BY DEF W!Receive, W!UnchangedService, Answered
  <1>3. ~Waiting(f) /\ ~Sending(f) /\ Carried(f) = a.token
    BY <1>1, <1>2, Places DEF Carried
  <1>4. memory' \subseteq Tabs
    <2>1. get[f].tab \in Tabs /\ memory \subseteq Tabs
      BY <1>1, <1>2, WebFacts, GetFacts DEF Answered, WebTypes, W!TypeOK
    <2> QED
      BY <2>1 DEF W!Receive
  <1>5. excused' \in BOOLEAN
    BY <1>1, <1>2 DEF WebTypes
  <1>6. cookie' \in {cookie, Carried(f), 0}
    BY <1>2, <1>3
  <1>7. /\ WebShape' /\ AtHand' \subseteq AtHand \union {0}
        /\ ~Sending(f)' /\ ~Waiting(f)' /\ ~Answered(f)'
        /\ \A g \in Gets : g # f => get'[g] = get[g]
    BY <1>1, <1>2, <1>3, <1>4, <1>5, <1>6, GetEnds
  <1>8. ASSUME ~excused' PROVE Serene'
    <2>1. Serene /\ (a.token = 0 \/ a.token \in live)
      BY <1>2, <1>8 DEF WebInv
    <2>2. \A g \in Gets : Doomed(g)' => Doomed(g)
      BY <1>2, <1>7, SameGet DEF Doomed
    <2>3. OneSession'
      BY <1>1, <1>2, <1>7, <2>1, <2>2, WebFacts DEF Serene, OneSession
    <2>4. AskersWait'
      <3> SUFFICES ASSUME NEW w \in 1 .. MaxTokens, NEW t \in askedBy[w]
                   PROVE  /\ w \in live => \E g \in Gets : Waiting(g)' /\ get'[g].tab = t /\ get'[g].raw = w
                          /\ w = cookie' => \E g \in Gets :
                                /\ \/ Waiting(g)' /\ get'[g].raw = w
                                   \/ Answered(g)' /\ get'[g].answer.is # "unreachable"
                                /\ get'[g].tab = t
        BY <1>2 DEF AskersWait
      <3>1. w \in live => \E g \in Gets : Waiting(g)' /\ get'[g].tab = t /\ get'[g].raw = w
        BY <1>3, <1>7, <2>1, SameGet DEF Serene, AskersWait
      <3>2. CASE a.is = "unreachable"
        BY <1>2, <1>3, <1>7, <2>1, <3>1, <3>2, SameGet DEF Serene, AskersWait
      <3>3. CASE a.is # "unreachable"
        <4>1. w = cookie' => w \in live
          BY <1>2, <2>1, <3>3, w # 0
        <4> QED
          BY <3>1, <4>1
      <3> QED
        BY <3>2, <3>3
    <2>5. SpentOnce'
      BY <1>2, <1>7, <2>1, SameGet DEF Serene, SpentOnce
    <2> QED
      BY <2>3, <2>4, <2>5 DEF Serene
  <1> QED
    BY <1>7, <1>8 DEF WebInv

LEMMA LoseKeeps ==
    ASSUME WebInv, NEW f \in Gets, W!LoseGet(f)
    PROVE  WebInv'
  <1>1. WebShape /\ WebTypes
    BY DEF WebInv, WebShape
  <1>2. /\ ~Waiting(f) /\ get' = [get EXCEPT ![f] = W!NoGet] /\ excused' = TRUE
        /\ cookie' = cookie
        /\ UNCHANGED <<live, issued, inflight, signing, askedBy, clean>>
    BY DEF W!LoseGet, W!UnchangedService, Waiting
  <1>3. memory' \subseteq Tabs
    BY <1>1 DEF WebTypes, W!TypeOK, W!LoseGet
  <1>4. WebShape'
    BY <1>1, <1>2, <1>3, GetEnds
  <1> QED
    BY <1>2, <1>4 DEF WebInv

LEMMA LoginKeeps ==
    ASSUME WebInv, NEW t \in Tabs, W!Login(t)
    PROVE  WebInv'
  <1> DEFINE n == issued + 1
             s == [at |-> "storing", token |-> n]
  <1>1. WebShape /\ WebTypes
    BY DEF WebInv, WebShape
  <1>2. /\ issued < MaxTokens /\ issued' = n /\ live' = live \union {n}
        /\ signing[t] = W!Settled /\ signing' = [signing EXCEPT ![t] = s]
        /\ UNCHANGED <<cookie, memory, get, inflight, askedBy, excused, clean>>
    BY DEF W!Login, W!Issue
  <1>3. /\ n \in 1 .. MaxTokens /\ issued \in 0 .. MaxTokens /\ MaxTokens \in Nat
        /\ live \subseteq 1 .. issued
    BY <1>1, <1>2, WebFacts
  <1>4. s \in W!SigningStates /\ s.at = "storing" /\ s.token = n
    <2>1. s \in W!SigningStates
      BY <1>3, Zenon DEF W!SigningStates
    <2> QED
      BY <2>1
  <1>5. /\ signing' \in [Tabs -> W!SigningStates] /\ signing'[t] = s
        /\ \A u \in Tabs : u # t => signing'[u] = signing[u]
    BY <1>1, <1>2, <1>4 DEF WebTypes, W!TypeOK
  <1> HIDE DEF s
  <1>6. AtHand' = AtHand /\ \A x \in AtHand : x \in 0 .. issued
    <2>1. AtHand' = AtHand
      BY <1>2, SameGet DEF AtHand
    <2>2. \A x \in AtHand : x \in 0 .. issued
      BY <1>1, WebFacts DEF AtHand
    <2> QED
      BY <2>1, <2>2
  <1>7. \A x \in 0 .. issued : x # n /\ (x \in live' <=> x \in live)
    BY <1>2, <1>3
  <1>8. askedBy[n] = {}
    BY <1>1, <1>3 DEF WebTypes
  <1> HIDE DEF n
  <1>9. WebTypes'
    <2>1. live' \subseteq 1 .. issued' /\ live' \subseteq 0 .. MaxTokens
      BY <1>2, <1>3 DEF n
    <2>2. \A x \in AtHand' : x <= issued'
      BY <1>2, <1>3, <1>6 DEF n
    <2>3. W!TypeOK'
      BY <1>1, <1>2, <1>3, <1>5, <2>1 DEF WebTypes, W!TypeOK, W!Tokens
    <2>4. \A v \in 1 .. MaxTokens : askedBy[v] # {} => v <= issued'
      BY <1>1, <1>2, <1>3 DEF n, WebTypes
    <2> QED
      BY <1>1, <1>2, <2>1, <2>2, <2>3, <2>4 DEF WebTypes
  <1>10. OneRefresh' /\ SharedRefresh'
    BY <1>1, <1>2, SameGet DEF WebShape, OneRefresh, SharedRefresh, W!Under, Waiting
  <1>11. LoginIsNew'
    <2>1. ASSUME NEW u \in Tabs, signing[u].at = "storing"
          PROVE  signing[u].token \in 0 .. issued
      BY <1>1, <1>3, <2>1, WebFacts, SigningFacts DEF WebShape, LoginIsNew
    <2>2. n <= issued' /\ \A x \in 0 .. issued : x <= issued'
      BY <1>2, <1>3 DEF n
    <2>3. n \notin AtHand
      BY <1>6, <1>7
    <2> QED
      BY <1>1, <1>2, <1>4, <1>5, <1>6, <1>7, <1>8, <2>1, <2>2, <2>3 DEF WebShape, LoginIsNew
  <1>12. LogoutAlone'
    BY <1>1, <1>2, <1>4, <1>5 DEF WebShape, LogoutAlone, W!Under
  <1>13. ASSUME Serene PROVE Serene'
    <2>1. \A f \in Gets : Carried(f) \in AtHand /\ Carried(f) \in 0 .. issued
      BY <1>1, WebFacts DEF AtHand
    <2>2. \A f \in Gets : Waiting(f) => get[f].raw \in 0 .. issued
      BY <2>1 DEF Carried
    <2>3. \A f \in Gets : Doomed(f)' => Doomed(f)
      BY <1>2, <1>7, <2>2, SameGet DEF Doomed
    <2>4. AtHand' \intersect live' = AtHand \intersect live
      BY <1>6, <1>7
    <2>5. OneSession'
      BY <1>13, <2>3, <2>4 DEF Serene, OneSession
    <2>6. AskersWait'
      <3>1. \A v \in 1 .. MaxTokens : v \in live' /\ askedBy[v] # {} => v \in live
        BY <1>2, <1>8
      <3> QED
        BY <1>2, <1>13, <3>1, SameGet DEF Serene, AskersWait
    <2>7. SpentOnce'
      <3>1. \A v \in DOMAIN inflight : v \in 0 .. issued
        BY <1>1, <2>2 DEF WebShape, SharedRefresh
      <3> QED
        BY <1>2, <1>7, <1>13, <3>1, SameGet DEF Serene, SpentOnce
    <2> QED
      BY <2>5, <2>6, <2>7 DEF Serene
  <1> QED
    BY <1>1, <1>2, <1>9, <1>10, <1>11, <1>12, <1>13 DEF WebInv, WebShape

\* The shape, when only the tabs' own affairs change.
LEMMA SigningShape ==
    ASSUME WebShape, NEW t \in Tabs, NEW s \in W!SigningStates, s.at # "storing",
           signing' = [signing EXCEPT ![t] = s],
           cookie' \in {cookie, 0}, memory' \subseteq Tabs, live' \subseteq live,
           clean' \in [Tabs -> BOOLEAN], LogoutAlone',
           UNCHANGED <<issued, get, inflight, askedBy, excused>>
    PROVE  WebShape' /\ AtHand' \subseteq AtHand \union {0}
  <1>1. WebTypes
    BY DEF WebShape
  <1>2. AtHand' \subseteq AtHand \union {0}
    BY SameGet DEF AtHand
  <1>3. /\ signing' \in [Tabs -> W!SigningStates] /\ signing'[t] = s
        /\ \A u \in Tabs : u # t => signing'[u] = signing[u]
    BY <1>1 DEF WebTypes, W!TypeOK
  <1>4. WebTypes'
    <2>1. cookie' \in 0 .. MaxTokens /\ live' \subseteq 0 .. MaxTokens /\ live' \subseteq 1 .. issued
      BY <1>1, WebFacts
    <2>2. \A x \in AtHand' : x <= issued
      BY <1>1, <1>2, WebFacts DEF WebTypes
    <2>3. W!TypeOK'
      BY <1>1, <1>3, <2>1 DEF WebTypes, W!TypeOK, W!Tokens
    <2> QED
      BY <1>1, <2>1, <2>2, <2>3 DEF WebTypes
  <1>5. OneRefresh' /\ SharedRefresh'
    BY SameGet DEF WebShape, OneRefresh, SharedRefresh, W!Under, Waiting
  <1>6. LoginIsNew'
    <2>1. \A u \in Tabs : signing[u].at = "storing" => signing[u].token # 0
      BY <1>1, WebFacts, SigningFacts
    <2> QED
      BY <1>2, <1>3, <2>1 DEF WebShape, LoginIsNew
  <1> QED
    BY <1>2, <1>4, <1>5, <1>6 DEF WebShape

\* A token that is revoked leaves none.
LEMMA RevokedSerene ==
    ASSUME WebShape, Serene, live' \subseteq live, \A x, y \in live \ live' : x = y,
           cookie' \in {cookie, 0}, UNCHANGED <<get, inflight, askedBy>>
    PROVE  Serene'
  <1>1. WebTypes /\ 0 \notin live
    BY WebFacts DEF WebShape
  <1>2. AtHand' \subseteq AtHand \union {0}
    BY SameGet DEF AtHand
  <1>3. OneSession'
    <2>1. \A y, z \in AtHand' \intersect live' : y = z
      BY <1>1, <1>2 DEF Serene, OneSession
    <2>2. ASSUME NEW f \in Gets, Doomed(f)' PROVE AtHand' \intersect live' = {}
      <3>1. CASE Doomed(f)
        BY <1>1, <1>2, <3>1 DEF Serene, OneSession
      <3>2. CASE ~Doomed(f)
        <4>1. Waiting(f) /\ get[f].raw \in live /\ get[f].raw \notin live'
          BY <2>2, <3>2, SameGet DEF Doomed
        <4>2. get[f].raw \in AtHand
          BY <4>1 DEF AtHand, Carried
        <4> QED
          BY <1>1, <1>2, <4>1, <4>2 DEF Serene, OneSession
      <3> QED
        BY <3>1, <3>2
    <2> QED
      BY <2>1, <2>2 DEF OneSession
  <1>4. AskersWait'
    <2>1. live' \subseteq live /\ \A v \in 1 .. MaxTokens : v = cookie' => v = cookie
      OBVIOUS
    <2> QED
      BY <2>1, SameGet DEF Serene, AskersWait
  <1>5. SpentOnce'
    BY SameGet DEF Serene, SpentOnce
  <1> QED
    BY <1>3, <1>4, <1>5 DEF Serene

LEMMA StoreKeeps ==
    ASSUME WebInv, NEW t \in Tabs, W!StoreTokens(t)
    PROVE  WebInv'
  <1> DEFINE n == signing[t].token
  <1>1. WebShape /\ WebTypes
    BY DEF WebInv, WebShape
  <1>2. /\ signing[t].at = "storing" /\ cookie' = n
        /\ memory' = memory \union {t} /\ signing' = [signing EXCEPT ![t] = W!Settled]
        /\ excused' = (excused \/ \E f \in Gets : W!Under(f))
        /\ clean' = [u \in Tabs |-> FALSE]
        /\ UNCHANGED <<live, issued, get, inflight, askedBy>>
    BY DEF W!StoreTokens, W!Persist, W!UnchangedService
  <1>3. n \in 1 .. MaxTokens /\ n <= issued /\ n \notin AtHand /\ askedBy[n] = {}
    BY <1>1, <1>2, WebFacts, SigningFacts DEF WebShape, LoginIsNew
  <1>4. /\ signing' \in [Tabs -> W!SigningStates] /\ signing'[t] = W!Settled
        /\ \A u \in Tabs : u # t => signing'[u] = signing[u]
    <2>1. W!Settled \in W!SigningStates
      BY Zenon DEF W!SigningStates
    <2> QED
      BY <1>1, <1>2, <2>1 DEF WebTypes, W!TypeOK
  <1> HIDE DEF n
  <1>5. AtHand' \subseteq AtHand \union {n}
    BY <1>2, SameGet DEF AtHand
  <1>6. WebTypes'
    <2>1. \A x \in AtHand' : x <= issued
      BY <1>1, <1>3, <1>5 DEF WebTypes
    <2>2. W!TypeOK'
      BY <1>1, <1>2, <1>3, <1>4 DEF WebTypes, W!TypeOK, W!Tokens
    <2>3. excused' \in BOOLEAN
      BY <1>2
    <2> QED
      BY <1>1, <1>2, <2>1, <2>2, <2>3 DEF WebTypes
  <1>7. OneRefresh' /\ SharedRefresh' /\ LogoutAlone'
    BY <1>1, <1>2, SameGet DEF WebShape, OneRefresh, SharedRefresh, LogoutAlone, W!Under, Waiting
  <1>8. LoginIsNew'
    <2>1. \A u \in Tabs : u # t /\ signing[u].at = "storing" => signing[u].token # n
      BY <1>1, <1>2 DEF n, WebShape, LoginIsNew
    <2>2. W!Settled.at # "storing"
      BY DEF W!Settled
    <2> QED
      BY <1>1, <1>2, <1>4, <1>5, <2>1, <2>2 DEF WebShape, LoginIsNew
  <1>9. ASSUME ~excused' PROVE Serene'
    <2>1. Serene /\ \A f \in Gets : ~W!Under(f)
      BY <1>2, <1>9 DEF WebInv
    <2>2. \A f \in Gets : /\ ~Sending(f) /\ ~Waiting(f) /\ ~Answered(f)
                          /\ ~Sending(f)' /\ ~Waiting(f)' /\ ~Answered(f)'
      BY <1>1, <1>2, <2>1, Places, SameGet
    <2>3. DOMAIN inflight' = {}
      BY <1>1, <1>2, <2>2 DEF WebShape, SharedRefresh
    <2>4. AtHand' \subseteq {n, 0}
      BY <1>2, <2>2, <2>3 DEF AtHand, Carried
    <2>5. OneSession'
      BY <1>1, <1>2, <2>2, <2>4, WebFacts DEF OneSession, Doomed
    <2>6. AskersWait'
      BY <1>2, <1>3, <2>1, <2>2 DEF Serene, AskersWait
    <2>7. SpentOnce'
      BY <2>2, <2>3 DEF SpentOnce
    <2> QED
      BY <2>5, <2>6, <2>7 DEF Serene
  <1> QED
    BY <1>6, <1>7, <1>8, <1>9 DEF WebInv, WebShape

LEMMA LogoutKeeps ==
    ASSUME WebInv, NEW t \in Tabs, W!Logout(t)
    PROVE  WebInv'
  <1> DEFINE s == [at |-> "leaving", raw |-> cookie]
  <1>1. WebShape /\ WebTypes
    BY DEF WebInv, WebShape
  <1>2. /\ W!Of(t) = {} /\ signing' = [signing EXCEPT ![t] = s]
        /\ clean' = [clean EXCEPT ![t] = \A f \in Gets : W!Under(f) => get[f].tab = t]
        /\ UNCHANGED <<live, issued, cookie, memory, get, inflight, askedBy, excused>>
    BY DEF W!Logout, W!MayLeave, W!UnchangedService
  <1>3. s \in W!SigningStates /\ s.at = "leaving"
    BY <1>1 DEF WebTypes, W!TypeOK, W!SigningStates
  <1>4. clean \in [Tabs -> BOOLEAN] /\ clean' \in [Tabs -> BOOLEAN]
    BY <1>1, <1>2 DEF WebTypes
  <1>5. /\ \A u \in Tabs : u # t => signing'[u] = signing[u] /\ clean'[u] = clean[u]
        /\ clean'[t] => \A f \in Gets : W!Under(f) => get[f].tab = t
    BY <1>1, <1>2, <1>4 DEF WebTypes, W!TypeOK
  <1>6. LogoutAlone'
    BY <1>1, <1>2, <1>5, SameGet DEF WebShape, LogoutAlone, W!Of
  <1> HIDE DEF s
  <1>7. WebShape'
    <2>1. memory' \subseteq Tabs /\ live' \subseteq live /\ cookie' \in {cookie, 0}
      BY <1>1, <1>2 DEF WebTypes, W!TypeOK
    <2> QED
      BY <1>1, <1>2, <1>3, <1>4, <1>6, <2>1, SigningShape
  <1>8. Serene => Serene'
    BY <1>1, <1>2, RevokedSerene
  <1> QED
    BY <1>2, <1>7, <1>8 DEF WebInv

LEMMA LeaveKeeps ==
    ASSUME WebInv, NEW t \in Tabs, W!Revoke(t) \/ W!Left(t) \/ W!Fail(t)
    PROVE  WebInv'
  <1>1. WebShape /\ WebTypes
    BY DEF WebInv, WebShape
  <1>2. \E s \in {W!Settled, [at |-> "left"]} :
            /\ signing' = [signing EXCEPT ![t] = s]
            /\ s.at = "left" => signing[t].at = "leaving"
    BY DEF W!Revoke, W!Left, W!Fail, W!Settled
  <1>3. PICK s \in {W!Settled, [at |-> "left"]} :
            /\ signing' = [signing EXCEPT ![t] = s]
            /\ s.at = "left" => signing[t].at = "leaving"
    BY <1>2
  <1>4. s \in W!SigningStates /\ s.at \in {"settled", "left"}
    <2>1. W!Settled \in W!SigningStates
      BY Zenon DEF W!SigningStates
    <2>2. [at |-> "left"] \in W!SigningStates
      BY DEF W!SigningStates
    <2> QED
      BY <2>1, <2>2 DEF W!Settled
  <1>5. live' \in {live, live \ {signing[t].raw}} /\ cookie' \in {cookie, 0}
    BY DEF W!Revoke, W!Left, W!Fail, W!UnchangedService
  <1>6. UNCHANGED <<issued, get, inflight, askedBy, excused>>
    BY DEF W!Revoke, W!Left, W!Fail, W!UnchangedService
  <1>7. memory' \subseteq Tabs
    BY <1>1 DEF W!Revoke, W!Left, W!Fail, WebTypes, W!TypeOK
  <1>8. clean' \in [Tabs -> BOOLEAN] /\ \A u \in Tabs : clean'[u] => clean[u]
    <2>1. clean' = clean \/ clean' = [clean EXCEPT ![t] = FALSE]
      BY DEF W!Revoke, W!Left, W!Fail
    <2> QED
      BY <1>1, <2>1 DEF WebTypes
  <1>9. LogoutAlone'
    <2>1. \A u \in Tabs : signing'[u].at \in {"leaving", "left"} => signing[u].at \in {"leaving", "left"}
      <3>1. \A u \in Tabs : signing'[u] = IF u = t THEN s ELSE signing[u]
        BY <1>1, <1>3 DEF WebTypes, W!TypeOK
      <3> QED
        BY <1>3, <1>4, <3>1
    <2> QED
      BY <1>1, <1>6, <1>8, <2>1, SameGet DEF WebShape, LogoutAlone
  <1>10. WebShape'
    <2>1. s.at # "storing" /\ live' \subseteq live
      BY <1>4, <1>5
    <2>2. signing' = [signing EXCEPT ![t] = s] /\ cookie' \in {cookie, 0} /\ clean' \in [Tabs -> BOOLEAN]
      BY <1>3, <1>5, <1>8
    <2> QED
      BY <1>1, <1>4, <1>6, <1>7, <1>9, <2>1, <2>2, SigningShape
  <1>11. Serene => Serene'
    <2>1. live' \subseteq live /\ \A x, y \in live \ live' : x = y
      BY <1>5
    <2> QED
      BY <1>1, <1>5, <1>6, <2>1, RevokedSerene
  <1> QED
    BY <1>6, <1>10, <1>11 DEF WebInv

LEMMA WebStep == WebInv /\ [W!Next]_web => WebInv'
  <1> SUFFICES ASSUME WebInv, [W!Next]_web PROVE WebInv'
    OBVIOUS
  <1>1. ASSUME NEW t \in Tabs, NEW f \in Gets, W!Refresh(t, f) PROVE WebInv'
    BY <1>1, RefreshShape, RefreshSerene DEF WebInv, W!Refresh
  <1>2. ASSUME NEW t \in Tabs, NEW f \in Gets, W!Hydrate(t, f) \/ W!Retry(t, f) PROVE WebInv'
    BY <1>1, <1>2 DEF W!Hydrate, W!Retry
  <1>3. ASSUME NEW t \in Tabs,
               W!Login(t) \/ W!StoreTokens(t) \/ W!Logout(t) \/ W!Revoke(t) \/ W!Left(t) \/ W!Fail(t)
        PROVE  WebInv'
    BY <1>3, LoginKeeps, StoreKeeps, LogoutKeeps, LeaveKeeps
  <1>4. ASSUME NEW f \in Gets, W!Arrive(f) \/ W!Receive(f) \/ W!LoseGet(f) PROVE WebInv'
    BY <1>4, ArriveBare, ArriveWaits, ReceiveKeeps, LoseKeeps
  <1>5. ASSUME NEW v \in DOMAIN inflight, W!Renew(v) \/ W!Refuse(v) \/ W!AnswerAll(v) PROVE WebInv'
    BY <1>5, RenewKeeps, RefuseKeeps, AnswerKeeps
  <1>6. ASSUME NEW v \in DOMAIN inflight, NEW o \in {W!Cleared, W!Unreachable}, W!MissService(v, o)
        PROVE  WebInv'
    BY <1>6, MissKeeps
  <1>7. CASE UNCHANGED web
    <2>1. \A f : Carried(f)' = Carried(f) /\ Doomed(f)' = Doomed(f)
      BY <1>7 DEF web, Carried, Doomed, Sending, Waiting, Answered
    <2>2. AtHand' = AtHand
      BY <1>7, <2>1 DEF web, AtHand
    <2> QED
      BY <1>7, <2>1, <2>2 DEF web, WebInv, WebShape, WebTypes, W!TypeOK, OneRefresh, SharedRefresh,
         LoginIsNew, LogoutAlone, Serene, OneSession, AskersWait, SpentOnce, W!Under,
         Sending, Waiting, Answered
  <1> QED
    BY <1>2, <1>3, <1>4, <1>5, <1>6, <1>7 DEF W!Next

LEMMA KeptByStep == WebInv /\ [W!Next]_web => W!SessionSurvives /\ W!LogoutEnds
  <1> SUFFICES ASSUME WebInv, [W!Next]_web PROVE W!SessionSurvives /\ W!LogoutEnds
    OBVIOUS
  <1>1. WebShape /\ WebTypes /\ 0 \notin live
    BY WebFacts DEF WebInv, WebShape
  <1>2. W!SessionSurvives
    <2> SUFFICES ASSUME cookie \in live, cookie' = 0, ~excused PROVE \E t \in Tabs : signing[t].at = "left"
      BY DEF W!SessionSurvives
    <2>1. cookie' # cookie /\ W!Next
      BY <1>1 DEF web
    <2>2. ASSUME NEW f \in Gets, W!Receive(f) PROVE FALSE
      <3>1. Answered(f) /\ get[f].answer.is # "unreachable" /\ get[f].answer.token = 0
        BY <2>1, <2>2 DEF W!Receive, Answered
      <3>2. get[f].answer.is = "failed"
        BY <1>1, <3>1, WebFacts, GetFacts, OutcomeFacts DEF Answered
      <3>3. Doomed(f) /\ cookie \in AtHand
        BY <3>1, <3>2 DEF Doomed, AtHand
      <3> QED
        BY <3>3 DEF WebInv, Serene, OneSession
    <2>3. ASSUME NEW t \in Tabs, W!StoreTokens(t) PROVE FALSE
      BY <1>1, <2>3, WebFacts, SigningFacts DEF W!StoreTokens, W!Persist
    <2>4. ASSUME NEW t \in Tabs, W!Left(t) PROVE signing[t].at = "left"
      BY <2>4 DEF W!Left
    <2> QED
      BY <2>1, <2>2, <2>3, <2>4 DEF W!Next, W!Hydrate, W!Retry, W!Refresh, W!Login, W!Logout, W!Revoke,
         W!Fail, W!Arrive, W!LoseGet, W!Renew, W!Refuse, W!AnswerAll, W!MissService
  <1>3. W!LogoutEnds
    <2> SUFFICES ASSUME NEW t \in Tabs, signing[t].at = "left", clean'[t], signing'[t] = W!Settled
                 PROVE  cookie' = 0 /\ t \notin memory' /\ \A f \in Gets : ~W!Under(f)'
      BY DEF W!LogoutEnds
    <2>1. signing'[t] # signing[t] /\ W!Next
      BY DEF W!Settled, web
    <2>2. signing \in [Tabs -> W!SigningStates] /\ clean \in [Tabs -> BOOLEAN]
      BY <1>1 DEF WebTypes, W!TypeOK
    <2>3. ASSUME NEW u \in Tabs, W!Login(u) \/ W!StoreTokens(u) \/ W!Logout(u) \/ W!Revoke(u) \/ W!Fail(u)
          PROVE  FALSE
      <3>1. u = t
        BY <2>1, <2>2, <2>3 DEF W!Login, W!StoreTokens, W!Logout, W!Revoke, W!Fail
      <3>2. ~W!Login(t) /\ ~W!StoreTokens(t) /\ ~W!Logout(t) /\ ~W!Revoke(t)
        BY DEF W!Login, W!StoreTokens, W!Logout, W!Revoke, W!Settled
      <3>3. ~W!Fail(t)
        BY <2>2 DEF W!Fail
      <3> QED
        BY <2>3, <3>1, <3>2, <3>3
    <2>4. ASSUME NEW u \in Tabs, W!Left(u)
          PROVE  cookie' = 0 /\ t \notin memory' /\ \A f \in Gets : ~W!Under(f)'
      <3>1. u = t
        BY <2>1, <2>2, <2>4 DEF W!Left
      <3>2. cookie' = 0 /\ memory' = memory \ {t} /\ get' = get /\ clean' = clean
        BY <2>4, <3>1 DEF W!Left
      <3> QED
        BY <1>1, <3>2, SameGet DEF WebShape, LogoutAlone
    <2> QED
      BY <2>1, <2>3, <2>4 DEF W!Next, W!Hydrate, W!Retry, W!Refresh, W!Arrive, W!Receive,
         W!LoseGet, W!Renew, W!Refuse, W!AnswerAll, W!MissService
  <1> QED
    BY <1>2, <1>3

LEMMA WebHolds == SideSpec => []WebInv
  <1>1. SideInit => WebInv
    BY InitWeb DEF SideInit
  <1>2. WebInv /\ [SideNext]_<<side, others>> => WebInv'
    <2>1. [SideNext]_<<side, others>> => [W!Next]_web
      BY DEF SideNext, others
    <2> QED
      BY <2>1, WebStep
  <1> QED
    BY <1>1, <1>2, PTL DEF SideSpec

\* "Concurrent GETs carrying the same cookie would otherwise burn the token twice"
\* (route.ts): only a logout ends the session of a browser, and it does end it.
THEOREM SessionHolds == SideSpec => SessionIsKept
  <1>1. WebInv /\ [SideNext]_<<side, others>> => [W!SessionSurvives /\ W!LogoutEnds]_web
    <2>1. [SideNext]_<<side, others>> => [W!Next]_web
      BY DEF SideNext, others
    <2> QED
      BY <2>1, KeptByStep
  <1> QED
    BY <1>1, WebHolds, PTL DEF SideSpec, SessionIsKept, W!SessionIsKept, W!vars, web

-----------------------------------------------------------------------------
(* The sessions of an account                                                *)

Minting(r) == session[r].at = "minting"
Publishing(r) == session[r].at = "publishing"

\* What each request has in hand
SessionShape ==
    /\ S!TypeOK
    /\ \A r \in Requests :
        /\ session[r].at \in {"changing", "revoking"} =>
              session[r].seen.version < MaxVersion /\ session[r].before \subseteq 1 .. minted
        /\ session[r].at = "verifying" => session[r].why = S!Password
        /\ session[r].at = "refreshing" => \E t \in 1 .. minted : session[r].why = S!Token(t)
        /\ Minting(r) /\ session[r].why # S!Password =>
              \E t \in spent : session[r].why = S!Ticket(t)

\* A source is used up by its first use, and one request has the challenge it has spent.
SpentIsOnes ==
    /\ \A s \in S!Sources : uses[s] <= 1
    /\ \A t \in 1 .. MaxTokens : uses[S!Token(t)] > 0 => t <= minted /\ t \notin stored
    /\ \A t \in 1 .. MaxTickets : uses[S!Ticket(t)] > 0 => t \in spent
    /\ \A r \in Requests : Minting(r) /\ session[r].why # S!Password =>
          /\ uses[session[r].why] = 0
          /\ \A v \in Requests : Minting(v) /\ session[v].why = session[r].why => v = r

\* A change of the password lists the tokens it has found.
FoundAreListed ==
    \A r \in Requests : session[r].at = "revoking" =>
        stored \intersect session[r].before \subseteq session[r].doomed

\* The last ruling is with its request, else on the bus, else applied.
RulingIsUnderWay ==
    ~disturbed =>
        /\ \A r \in Requests : Publishing(r) =>
              session[r].active = ruling /\ \A v \in Requests : Publishing(v) => v = r
        /\ (\A r \in Requests : ~Publishing(r)) =>
              ruling = IF bus = <<>> THEN user.active ELSE bus[Len(bus)]

SessionInv == SessionShape /\ SpentIsOnes /\ FoundAreListed /\ RulingIsUnderWay

-----------------------------------------------------------------------------
(* The accounts                                                              *)

\* A request works on an account that exists, and a link is for its address.
AccessShape ==
    /\ A!TypeOK
    /\ \A r \in Requests : call[r].at \in {"checking", "changing", "verifying"} =>
          account[call[r].email].exists
    /\ \A r \in Requests : call[r].at = "verifying" =>
          call[r].link \in 1 .. Len(links) /\ call[r].email = links[call[r].link]
    /\ used \subseteq 1 .. Len(links) /\ Len(links) <= MaxLinks

\* The counter of the row has every wrong password, and the lock stands as long.
WrongAreCounted ==
    \A e \in Emails :
        /\ wrong[e] # 0 => account[e].exists
        /\ e \notin lost /\ account[e].exists =>
              /\ wrong[e] <= account[e].attempts
              /\ wrong[e] >= MaxLoginAttempts => account[e].until > 0

\* The hash that a login would write again is of the password that was chosen.
HashIsOfChosen ==
    \A e \in Emails \ crossed :
        /\ account[e].exists => account[e].password = chosen[e]
        /\ \A r \in Requests :
              call[r].at = "checking" /\ call[r].right /\ call[r].email = e /\ call[r].old =>
                  call[r].password = chosen[e]

\* A link that was not used has verified nothing.
LinksAreSpent ==
    /\ \A n \in 1 .. MaxLinks : linkUses[n] <= 1 /\ (n \notin used => linkUses[n] = 0)
    /\ \A e \in Emails : account[e].exists /\ account[e].verified => \E n \in used : links[n] = e

AccessInv == AccessShape /\ WrongAreCounted /\ HashIsOfChosen /\ LinksAreSpent

LEMMA SourceFacts ==
    /\ \A t \in 1 .. MaxTokens : S!Token(t) \in S!Sources
    /\ \A t \in 1 .. MaxTickets : S!Ticket(t) \in S!Sources
    /\ S!Password \notin S!Sources
    /\ \A t, u : S!Token(t) # S!Ticket(u) /\ S!Token(t).number = t
    /\ \A t, u : S!Token(t) = S!Token(u) => t = u
    /\ \A t, u : S!Ticket(t) = S!Ticket(u) => t = u
    /\ \A t : S!Token(t) # S!Password /\ S!Ticket(t) # S!Password
    /\ S!NewUser \in S!Users /\ S!NewUser.active /\ S!NewUser.version = 0
    /\ S!Idle \in S!RequestStates /\ S!Idle.at = "idle" /\ S!Idle.why = S!Password
  <1>1. /\ \A t \in 1 .. MaxTokens : S!Token(t) \in S!Sources
        /\ \A t \in 1 .. MaxTickets : S!Ticket(t) \in S!Sources
    BY DEF S!Sources, S!Tokens
  <1>2. /\ \A t, u : S!Token(t) # S!Ticket(u) /\ S!Token(t).number = t
        /\ \A t, u : S!Token(t) = S!Token(u) => t = u
        /\ \A t, u : S!Ticket(t) = S!Ticket(u) => t = u
        /\ \A t : S!Token(t) # S!Password /\ S!Ticket(t) # S!Password
    <2>1. \A t : S!Token(t).kind = "token" /\ S!Token(t).number = t
      BY DEF S!Token
    <2>2. \A t : S!Ticket(t).kind = "ticket" /\ S!Ticket(t).number = t
      BY DEF S!Ticket
    <2>3. S!Password.kind = "password"
      BY DEF S!Password
    <2> QED
      BY <2>1, <2>2, <2>3
  <1>3. S!Password \notin S!Sources
    BY <1>2 DEF S!Sources
  <1>4. S!NewUser \in S!Users /\ S!NewUser.active /\ S!NewUser.version = 0
    BY AccountsAssumption DEF AccountsAssumption, S!NewUser, S!Users, S!MfaStates
  <1>5. S!Idle \in S!RequestStates /\ S!Idle.at = "idle" /\ S!Idle.why = S!Password
    BY <1>4 DEF S!Idle, S!RequestStates, S!Places
  <1> QED
    BY <1>1, <1>2, <1>3, <1>4, <1>5

LEMMA InitSession == S!Init => SessionInv
  <1> SUFFICES ASSUME S!Init PROVE SessionInv
    OBVIOUS
  <1>1. \A r \in Requests : session[r] = S!Idle
    BY DEF S!Init
  <1>2. SessionShape
    <2>1. session \in [Requests -> S!RequestStates]
      BY SourceFacts DEF S!Init
    <2>2. uses \in [S!Sources -> Nat] /\ bus \in Seq(BOOLEAN)
      BY DEF S!Init
    <2>3. /\ user = S!NewUser /\ stored = {} /\ tickets = 0 /\ spent = {} /\ access = {}
          /\ ruling = TRUE /\ minted = 0 /\ disturbed = FALSE
      BY DEF S!Init
    <2>4. 0 \in 0 .. MaxTickets /\ 0 \in 0 .. MaxTokens
      BY AccountsAssumption DEF AccountsAssumption
    <2>5. S!TypeOK
      BY <2>1, <2>2, <2>3, <2>4, SourceFacts DEF S!TypeOK
    <2> QED
      BY <1>1, <2>5, SourceFacts DEF SessionShape, Minting
  <1>3. SpentIsOnes
    <2>1. \A s \in S!Sources : uses[s] = 0
      BY DEF S!Init
    <2> QED
      BY <1>1, <2>1, SourceFacts DEF SpentIsOnes, Minting
  <1>4. FoundAreListed /\ RulingIsUnderWay
    BY <1>1, SourceFacts DEF FoundAreListed, RulingIsUnderWay, Publishing, S!Init
  <1> QED
    BY <1>2, <1>3, <1>4 DEF SessionInv

LEMMA RequestFacts ==
    ASSUME SessionShape, NEW r \in Requests
    PROVE  /\ session[r] \in S!RequestStates
           /\ session[r].seen \in S!Users /\ session[r].seen.version \in 0 .. MaxVersion
           /\ session[r].before \subseteq 1 .. MaxTokens
           /\ session[r].doomed \subseteq 1 .. MaxTokens
           /\ session[r].why \in S!Sources \union {S!Password}
           /\ session[r].active \in BOOLEAN
           /\ minted \in 0 .. MaxTokens /\ MaxTokens \in Nat /\ tickets \in 0 .. MaxTickets
           /\ stored \subseteq 1 .. minted /\ stored \subseteq 1 .. MaxTokens
           /\ spent \subseteq 1 .. tickets /\ spent \subseteq 1 .. MaxTickets
           /\ user \in S!Users /\ user.version \in 0 .. MaxVersion /\ user.active \in BOOLEAN
  <1>1. S!TypeOK /\ MaxTokens \in Nat /\ MaxTickets \in Nat
    BY AccountsAssumption DEF AccountsAssumption, SessionShape
  <1>2. session[r] \in S!RequestStates
    BY <1>1 DEF S!TypeOK
  <1>3. minted \in 0 .. MaxTokens /\ tickets \in 0 .. MaxTickets /\ stored \subseteq 1 .. minted
        /\ spent \subseteq 1 .. tickets /\ user \in S!Users
    BY <1>1 DEF S!TypeOK
  <1>4. stored \subseteq 1 .. MaxTokens /\ spent \subseteq 1 .. MaxTickets
    BY <1>1, <1>3
  <1> QED
    BY <1>1, <1>2, <1>3, <1>4 DEF S!RequestStates, S!Users, S!Tokens

\* One request moves, and takes nothing up.
LEMMA RequestMoves ==
    ASSUME SessionShape, SpentIsOnes, NEW r \in Requests, NEW q \in S!RequestStates,
           session' = [session EXCEPT ![r] = q],
           q.at \notin {"minting", "refreshing", "changing", "revoking"},
           q.at = "verifying" => q.why = S!Password,
           user' \in S!Users, stored' \subseteq stored, tickets' \in 0 .. MaxTickets, tickets <= tickets',
           ruling' \in BOOLEAN, bus' \in Seq(BOOLEAN), disturbed' \in BOOLEAN,
           UNCHANGED <<spent, access, minted, uses>>
    PROVE  /\ SessionShape' /\ SpentIsOnes' /\ session'[r] = q
           /\ \A v \in Requests \ {r} : session'[v] = session[v]
  <1>1. S!TypeOK
    BY DEF SessionShape
  <1>2. /\ session'[r] = q /\ \A v \in Requests \ {r} : session'[v] = session[v]
        /\ session' \in [Requests -> S!RequestStates]
    BY <1>1 DEF S!TypeOK
  <1>3. S!TypeOK'
    <2>1. spent' \subseteq 1 .. tickets' /\ stored' \subseteq 1 .. minted'
      BY <1>1, AccountsAssumption DEF S!TypeOK, AccountsAssumption
    <2> QED
      BY <1>1, <1>2, <2>1 DEF S!TypeOK
  <1>4. SessionShape'
    BY <1>2, <1>3 DEF SessionShape, Minting
  <1>5. SpentIsOnes'
    BY <1>2 DEF SpentIsOnes, Minting
  <1> QED
    BY <1>2, <1>4, <1>5

\* The tokens that a change has listed, when one request moves that is not revoking.
LEMMA ListedStay ==
    ASSUME FoundAreListed, NEW r \in Requests, session'[r].at # "revoking",
           \A v \in Requests \ {r} : session'[v] = session[v],
           stored' \subseteq stored
    PROVE  FoundAreListed'
  BY DEF FoundAreListed

\* What was ruled, when nothing moves that it depends on.
LEMMA RulingStays ==
    ASSUME RulingIsUnderWay, disturbed \in BOOLEAN, user'.active = user.active,
           \A v \in Requests : Publishing(v)' <=> Publishing(v),
           \A v \in Requests : Publishing(v) => session'[v].active = session[v].active,
           UNCHANGED <<ruling, bus, disturbed>>
    PROVE  RulingIsUnderWay'
  BY DEF RulingIsUnderWay

\* One request takes up the account, or puts it down, and nothing else happens.
LEMMA QuietMove ==
    ASSUME SessionInv, NEW r \in Requests, NEW q \in S!RequestStates,
           session' = [session EXCEPT ![r] = q],
           q.at \notin {"minting", "refreshing", "changing", "revoking", "publishing"},
           q.at = "verifying" => q.why = S!Password,
           ~Publishing(r),
           user' \in S!Users, user'.active = user.active,
           stored' \subseteq stored, tickets' \in 0 .. MaxTickets, tickets <= tickets',
           UNCHANGED <<ruling, bus, disturbed, spent, access, minted, uses>>
    PROVE  SessionInv'
  <1>1. SessionShape /\ SpentIsOnes /\ FoundAreListed /\ RulingIsUnderWay
    BY DEF SessionInv
  <1>2. ruling' \in BOOLEAN /\ bus' \in Seq(BOOLEAN) /\ disturbed' \in BOOLEAN
    BY <1>1 DEF SessionShape, S!TypeOK
  <1>3. /\ SessionShape' /\ SpentIsOnes' /\ session'[r] = q
        /\ \A v \in Requests \ {r} : session'[v] = session[v]
    BY <1>1, <1>2, RequestMoves
  <1>4. FoundAreListed'
    BY <1>1, <1>3, ListedStay
  <1>5. RulingIsUnderWay'
    BY <1>1, <1>2, <1>3, RulingStays DEF Publishing
  <1> QED
    BY <1>3, <1>4, <1>5 DEF SessionInv

\* No request moves.
LEMMA RowMoves ==
    ASSUME SessionInv, UNCHANGED session,
           user' \in S!Users, user'.active = user.active, stored' \subseteq stored,
           UNCHANGED <<tickets, ruling, bus, disturbed, spent, access, minted, uses>>
    PROVE  SessionInv'
  <1>1. SessionShape /\ SpentIsOnes /\ FoundAreListed /\ RulingIsUnderWay
    BY DEF SessionInv
  <1>2. SessionShape'
    <2>1. S!TypeOK'
      BY <1>1 DEF SessionShape, S!TypeOK
    <2> QED
      BY <1>1, <2>1 DEF SessionShape, Minting
  <1>3. SpentIsOnes'
    BY <1>1 DEF SpentIsOnes, Minting
  <1>4. FoundAreListed'
    BY <1>1 DEF FoundAreListed
  <1>5. RulingIsUnderWay'
    BY <1>1 DEF RulingIsUnderWay, Publishing
  <1> QED
    BY <1>2, <1>3, <1>4, <1>5 DEF SessionInv

LEMMA EnterFacts ==
    ASSUME SessionShape, NEW r \in Requests, NEW place \in S!Places
    PROVE  /\ S!Enter(r, place) \in S!RequestStates /\ S!Enter(r, place).at = place
           /\ S!Enter(r, place).seen.version = user.version /\ S!Enter(r, place).why = S!Password
  <1>1. user \in S!Users
    BY DEF SessionShape, S!TypeOK
  <1>2. S!Versioned(user) \in S!Users /\ S!Versioned(user).version = user.version
    BY <1>1, SourceFacts DEF S!Versioned, S!Users
  <1> QED
    BY <1>2, SourceFacts DEF S!Enter, S!RequestStates

LEMMA VerifyingKeeps ==
    ASSUME SessionInv, NEW r \in Requests, S!ReadForLogin(r)
    PROVE  SessionInv'
  <1> DEFINE q == [S!Enter(r, "verifying") EXCEPT !.seen = user]
  <1>1. SessionShape /\ user \in S!Users /\ tickets \in 0 .. MaxTickets
    BY RequestFacts DEF SessionInv
  <1>2. q \in S!RequestStates /\ q.at = "verifying" /\ q.why = S!Password
    BY <1>1, EnterFacts DEF S!RequestStates, S!Places
  <1>3. /\ session' = [session EXCEPT ![r] = q] /\ ~Publishing(r)
        /\ UNCHANGED <<user, stored, tickets, ruling, bus, disturbed, spent, access, minted, uses>>
    BY DEF S!ReadForLogin, S!UnchangedModeration, S!At, Publishing
  <1> HIDE DEF q
  <1>4. user' \in S!Users /\ tickets' \in 0 .. MaxTickets /\ tickets <= tickets' /\ stored' \subseteq stored
    BY <1>1, <1>3
  <1> QED
    BY <1>2, <1>3, <1>4, QuietMove

\* Leaving, or a token that is gone, or a challenge issued
LEMMA IdleKeeps ==
    ASSUME SessionInv, NEW r \in Requests, ~Publishing(r),
           session' = [session EXCEPT ![r] = S!Idle],
           user' \in S!Users, user'.active = user.active,
           stored' \subseteq stored, tickets' \in 0 .. MaxTickets, tickets <= tickets',
           UNCHANGED <<ruling, bus, disturbed, spent, access, minted, uses>>
    PROVE  SessionInv'
  <1>1. PICK q \in S!RequestStates : q = S!Idle
    BY SourceFacts
  <1>2. q.at = "idle" /\ session' = [session EXCEPT ![r] = q]
    BY <1>1, SourceFacts
  <1> QED
    BY <1>2, QuietMove

\* One request takes up the account, and nothing else happens.
LEMMA TakeUp ==
    ASSUME SessionShape, NEW r \in Requests, NEW q \in S!RequestStates,
           session' = [session EXCEPT ![r] = q],
           q.at \in {"changing", "revoking"} => q.seen.version < MaxVersion /\ q.before \subseteq 1 .. minted,
           q.at = "verifying" => q.why = S!Password,
           q.at = "refreshing" => \E t \in 1 .. minted : q.why = S!Token(t),
           q.at = "minting" /\ q.why # S!Password => \E t \in spent' : q.why = S!Ticket(t),
           spent \subseteq spent', spent' \subseteq 1 .. tickets,
           UNCHANGED <<user, stored, tickets, ruling, bus, disturbed, access, minted, uses>>
    PROVE  /\ SessionShape' /\ session'[r] = q
           /\ \A v \in Requests \ {r} : session'[v] = session[v]
  <1>1. /\ session'[r] = q /\ \A v \in Requests \ {r} : session'[v] = session[v]
        /\ session' \in [Requests -> S!RequestStates]
    BY DEF SessionShape, S!TypeOK
  <1>2. S!TypeOK'
    BY <1>1 DEF SessionShape, S!TypeOK
  <1>3. ASSUME NEW v \in Requests
        PROVE  /\ session'[v].at \in {"changing", "revoking"} =>
                     session'[v].seen.version < MaxVersion /\ session'[v].before \subseteq 1 .. minted
               /\ session'[v].at = "verifying" => session'[v].why = S!Password
               /\ session'[v].at = "refreshing" => \E t \in 1 .. minted : session'[v].why = S!Token(t)
               /\ Minting(v)' /\ session'[v].why # S!Password =>
                     \E t \in spent' : session'[v].why = S!Ticket(t)
    <2>1. CASE v = r
      BY <1>1, <2>1 DEF Minting
    <2>2. CASE v # r
      BY <1>1, <2>2 DEF Minting, SessionShape
    <2> QED
      BY <2>1, <2>2
  <1>4. SessionShape'
    BY <1>2, <1>3 DEF SessionShape
  <1> QED
    BY <1>1, <1>4

LEMMA RightPasswordKeeps ==
    ASSUME SessionInv, NEW r \in Requests, S!RightPassword(r)
    PROVE  SessionInv'
  <1>1. /\ SessionShape /\ SpentIsOnes /\ FoundAreListed /\ RulingIsUnderWay
        /\ user \in S!Users /\ tickets \in 0 .. MaxTickets /\ MaxTickets \in Nat
        /\ session[r] \in S!RequestStates /\ session[r].seen \in S!Users
        /\ spent \subseteq 1 .. tickets
    BY AccountsAssumption, RequestFacts DEF SessionInv, AccountsAssumption
  <1>2. /\ session[r].at = "verifying" /\ session[r].why = S!Password
        /\ UNCHANGED <<user, stored, ruling, bus, disturbed, spent, access, minted, uses>>
    BY <1>1 DEF S!RightPassword, S!UnchangedModeration, S!At, SessionShape
  <1>3. CASE session[r].seen.mfa = "on"
    <2>1. tickets' = tickets + 1 /\ tickets < MaxTickets /\ session' = [session EXCEPT ![r] = S!Idle]
      BY <1>3 DEF S!RightPassword
    <2>2. tickets' \in 0 .. MaxTickets /\ tickets <= tickets'
      BY <1>1, <2>1
    <2> QED
      BY <1>1, <1>2, <2>1, <2>2, IdleKeeps DEF Publishing
  <1>4. CASE session[r].seen.mfa # "on"
    <2> DEFINE q == [session[r] EXCEPT !.at = "minting", !.seen = S!Versioned(session[r].seen)]
    <2>1. session' = [session EXCEPT ![r] = q] /\ tickets' = tickets
      BY <1>4 DEF S!RightPassword
    <2>2. q \in S!RequestStates /\ q.at = "minting" /\ q.why = S!Password
      <3>1. S!Versioned(session[r].seen) \in S!Users
        BY <1>1, SourceFacts DEF S!Versioned, S!Users
      <3> QED
        BY <1>1, <1>2, <3>1 DEF S!RequestStates, S!Places
    <2> HIDE DEF q
    <2>3. /\ SessionShape' /\ session'[r] = q
          /\ \A v \in Requests \ {r} : session'[v] = session[v]
      BY <1>1, <1>2, <2>1, <2>2, TakeUp
    <2>4. SpentIsOnes'
      BY <1>1, <1>2, <2>2, <2>3 DEF SpentIsOnes, Minting
    <2>5. FoundAreListed'
      BY <1>1, <1>2, <2>2, <2>3, ListedStay
    <2>6. RulingIsUnderWay'
      BY <1>1, <1>2, <2>2, <2>3, RulingStays DEF Publishing, SessionShape, S!TypeOK
    <2> QED
      BY <2>3, <2>4, <2>5, <2>6 DEF SessionInv
  <1> QED
    BY <1>3, <1>4 DEF S!RightPassword

LEMMA SpendTicketKeeps ==
    ASSUME SessionInv, NEW r \in Requests, NEW t \in 1 .. tickets, S!SpendTicket(r, t)
    PROVE  SessionInv'
  <1> DEFINE q == [S!Enter(r, "minting") EXCEPT !.why = S!Ticket(t)]
  <1>1. /\ SessionShape /\ SpentIsOnes /\ FoundAreListed /\ RulingIsUnderWay
        /\ spent \subseteq 1 .. tickets /\ tickets \in 0 .. MaxTickets /\ MaxTickets \in Nat
    BY AccountsAssumption, RequestFacts DEF SessionInv, AccountsAssumption
  <1>2. /\ session[r].at = "idle" /\ t \notin spent /\ spent' = spent \union {t}
        /\ session' = [session EXCEPT ![r] = q]
        /\ UNCHANGED <<user, stored, tickets, ruling, bus, disturbed, access, minted, uses>>
    BY DEF S!SpendTicket, S!UnchangedModeration, S!At, S!Recorded
  <1>3. t \in 1 .. MaxTickets
    BY <1>1
  <1>4. q \in S!RequestStates /\ q.at = "minting" /\ q.why = S!Ticket(t)
    <2>1. S!Ticket(t) \in S!Sources /\ "minting" \in S!Places
      BY <1>3, SourceFacts DEF S!Places
    <2> QED
      BY <1>1, <2>1, EnterFacts DEF S!RequestStates
  <1> HIDE DEF q
  <1>5. /\ SessionShape' /\ session'[r] = q
        /\ \A v \in Requests \ {r} : session'[v] = session[v]
    BY <1>1, <1>2, <1>4, TakeUp
  <1>6. SpentIsOnes'
    <2>1. uses[S!Ticket(t)] = 0
      <3>1. S!Ticket(t) \in S!Sources /\ uses \in [S!Sources -> Nat]
        BY <1>1, <1>3, SourceFacts DEF SessionShape, S!TypeOK
      <3> QED
        BY <1>1, <1>2, <1>3, <3>1 DEF SpentIsOnes
    <2>2. \A v \in Requests : Minting(v) => session[v].why # S!Ticket(t)
      BY <1>1, <1>2, SourceFacts DEF SessionShape
    <2>3. ASSUME NEW v \in Requests, Minting(v)', session'[v].why # S!Password
          PROVE  /\ uses[session'[v].why] = 0
                 /\ \A w \in Requests : Minting(w)' /\ session'[w].why = session'[v].why => w = v
      <3>1. \A w \in Requests \ {r} : Minting(w)' => Minting(w)
        BY <1>5 DEF Minting
      <3>2. CASE v = r
        BY <1>4, <1>5, <2>1, <2>2, <3>1, <3>2
      <3>3. CASE v # r
        BY <1>1, <1>4, <1>5, <2>2, <2>3, <3>1, <3>3 DEF SpentIsOnes
      <3> QED
        BY <3>2, <3>3
    <2> QED
      BY <1>1, <1>2, <2>3 DEF SpentIsOnes
  <1>7. FoundAreListed'
    BY <1>1, <1>2, <1>4, <1>5, ListedStay
  <1>8. RulingIsUnderWay'
    BY <1>1, <1>2, <1>4, <1>5, RulingStays DEF Publishing, SessionShape, S!TypeOK
  <1> QED
    BY <1>5, <1>6, <1>7, <1>8 DEF SessionInv

\* A request that takes up the account, and no challenge.
LEMMA TakeUpKeeps ==
    ASSUME SessionInv, NEW r \in Requests, NEW q \in S!RequestStates,
           session' = [session EXCEPT ![r] = q], ~Publishing(r),
           q.at \in {"refreshing", "changing", "revoking"},
           q.at \in {"changing", "revoking"} => q.seen.version < MaxVersion /\ q.before \subseteq 1 .. minted,
           q.at = "refreshing" => \E t \in 1 .. minted : q.why = S!Token(t),
           q.at = "revoking" => q.doomed = stored,
           UNCHANGED <<user, stored, tickets, spent, ruling, bus, disturbed, access, minted, uses>>
    PROVE  SessionInv'
  <1>1. SessionShape /\ SpentIsOnes /\ FoundAreListed /\ RulingIsUnderWay /\ spent \subseteq 1 .. tickets
    BY RequestFacts DEF SessionInv
  <1>2. /\ SessionShape' /\ session'[r] = q
        /\ \A v \in Requests \ {r} : session'[v] = session[v]
    BY <1>1, TakeUp
  <1>3. SpentIsOnes'
    BY <1>1, <1>2 DEF SpentIsOnes, Minting
  <1>4. FoundAreListed'
    BY <1>1, <1>2 DEF FoundAreListed
  <1>5. RulingIsUnderWay'
    BY <1>1, <1>2, RulingStays DEF Publishing, SessionShape, S!TypeOK
  <1> QED
    BY <1>2, <1>3, <1>4, <1>5 DEF SessionInv

LEMMA ReadForRefreshKeeps ==
    ASSUME SessionInv, NEW r \in Requests, NEW t \in 1 .. minted, S!ReadForRefresh(r, t)
    PROVE  SessionInv'
  <1> DEFINE q == [S!Enter(r, "refreshing") EXCEPT !.why = S!Token(t)]
  <1>1. SessionShape /\ minted \in 0 .. MaxTokens /\ MaxTokens \in Nat
    BY RequestFacts DEF SessionInv
  <1>2. q \in S!RequestStates /\ q.at = "refreshing" /\ q.why = S!Token(t)
    <2>1. S!Token(t) \in S!Sources /\ "refreshing" \in S!Places
      BY <1>1, SourceFacts DEF S!Places
    <2> QED
      BY <1>1, <2>1, EnterFacts DEF S!RequestStates
  <1>3. /\ session' = [session EXCEPT ![r] = q] /\ ~Publishing(r)
        /\ UNCHANGED <<user, stored, tickets, spent, ruling, bus, disturbed, access, minted, uses>>
    BY DEF S!ReadForRefresh, S!UnchangedModeration, S!At, Publishing
  <1> HIDE DEF q
  <1>4. \E u \in 1 .. minted : q.why = S!Token(u)
    BY <1>2
  <1> QED
    BY <1>2, <1>3, <1>4, TakeUpKeeps

LEMMA ReadForChangeKeeps ==
    ASSUME SessionInv, NEW r \in Requests, S!ReadForChange(r)
    PROVE  SessionInv'
  <1> DEFINE q == [S!Enter(r, "changing") EXCEPT !.before = stored]
  <1>1. SessionShape /\ stored \subseteq 1 .. minted /\ stored \subseteq 1 .. MaxTokens
    BY RequestFacts DEF SessionInv
  <1>2. q \in S!RequestStates /\ q.at = "changing" /\ q.seen.version = user.version /\ q.before = stored
    <2>1. "changing" \in S!Places
      BY DEF S!Places
    <2> QED
      BY <1>1, <2>1, EnterFacts DEF S!RequestStates, S!Tokens
  <1>3. /\ session' = [session EXCEPT ![r] = q] /\ ~Publishing(r) /\ user.version < MaxVersion
        /\ UNCHANGED <<user, stored, tickets, spent, ruling, bus, disturbed, access, minted, uses>>
    BY DEF S!ReadForChange, S!UnchangedModeration, S!At, Publishing
  <1> HIDE DEF q
  <1> QED
    BY <1>1, <1>2, <1>3, TakeUpKeeps

LEMMA ListTokensKeeps ==
    ASSUME SessionInv, NEW r \in Requests, S!ListTokens(r)
    PROVE  SessionInv'
  <1> DEFINE q == [session[r] EXCEPT !.at = "revoking", !.doomed = stored]
  <1>1. /\ SessionShape /\ stored \subseteq 1 .. MaxTokens /\ session[r] \in S!RequestStates
        /\ session[r].at = "changing"
    BY RequestFacts DEF SessionInv, S!ListTokens, S!At
  <1>2. q \in S!RequestStates /\ q.at = "revoking" /\ q.doomed = stored
        /\ q.seen = session[r].seen /\ q.before = session[r].before
    BY <1>1 DEF S!RequestStates, S!Tokens, S!Places
  <1>3. /\ session' = [session EXCEPT ![r] = q] /\ ~Publishing(r)
        /\ UNCHANGED <<user, stored, tickets, spent, ruling, bus, disturbed, access, minted, uses>>
    BY <1>1 DEF S!ListTokens, S!Listed, S!UnchangedModeration, Publishing
  <1> HIDE DEF q
  <1>4. q.seen.version < MaxVersion /\ q.before \subseteq 1 .. minted
    BY <1>1, <1>2 DEF SessionShape
  <1> QED
    BY <1>2, <1>3, <1>4, TakeUpKeeps

LEMMA CommitChangeKeeps ==
    ASSUME SessionInv, NEW r \in Requests, S!CommitChange(r)
    PROVE  SessionInv' /\ stored' \intersect session[r].before = {}
  <1>1. SessionShape /\ user \in S!Users /\ session[r].seen.version \in 0 .. MaxVersion
        /\ tickets \in 0 .. MaxTickets /\ session[r].at = "revoking" /\ MaxVersion \in Nat
    BY RequestFacts, AccountsAssumption DEF SessionInv, S!CommitChange, S!At, AccountsAssumption
  <1>2. /\ user' = [user EXCEPT !.version = session[r].seen.version + 1]
        /\ stored' = stored \ session[r].doomed
        /\ session' = [session EXCEPT ![r] = S!Idle]
        /\ UNCHANGED <<tickets, spent, ruling, bus, disturbed, access, minted, uses>>
    BY DEF S!CommitChange, S!UnchangedModeration
  <1>3. user' \in S!Users /\ user'.active = user.active
    <2>1. session[r].seen.version + 1 \in 0 .. MaxVersion
      BY <1>1 DEF SessionShape
    <2> QED
      BY <1>1, <1>2, <2>1 DEF S!Users
  <1>4. ~Publishing(r) /\ stored' \subseteq stored /\ tickets' \in 0 .. MaxTickets /\ tickets <= tickets'
    BY <1>1, <1>2 DEF Publishing
  <1>5. stored' \intersect session[r].before = {}
    BY <1>1, <1>2 DEF SessionInv, FoundAreListed
  <1>6. SessionInv'
    BY <1>2, <1>3, <1>4, IdleKeeps
  <1> QED
    BY <1>5, <1>6

\* A refresh token is issued for a password, for a challenge or for the token it replaces.
LEMMA IssueKeeps ==
    ASSUME SessionInv, NEW r \in Requests, NEW kept \in SUBSET stored, S!Issue(r, kept),
           \/ Minting(r)
           \/ \E t \in stored \ kept : session[r].why = S!Token(t),
           ~Publishing(r),
           UNCHANGED <<user, tickets, spent, ruling, bus, disturbed>>
    PROVE  SessionInv'
  <1> DEFINE n == minted + 1
             why == session[r].why
  <1>1. /\ SessionShape /\ SpentIsOnes /\ FoundAreListed /\ RulingIsUnderWay
        /\ minted \in 0 .. MaxTokens /\ MaxTokens \in Nat /\ stored \subseteq 1 .. minted
        /\ why \in S!Sources \union {S!Password} /\ session[r].seen.version \in 0 .. MaxVersion
        /\ uses \in [S!Sources -> Nat]
    BY RequestFacts DEF SessionInv, SessionShape, S!TypeOK
  <1>2. /\ minted < MaxTokens /\ minted' = n /\ stored' = kept \union {n}
        /\ uses' = [s \in S!Sources |-> uses[s] + IF s = why THEN 1 ELSE 0]
        /\ access' = access \union {session[r].seen.version}
        /\ session' = [session EXCEPT ![r] = S!Idle]
    BY DEF S!Issue
  <1>3. n \in 1 .. MaxTokens /\ n > minted
    BY <1>1, <1>2
  <1>4. why \in S!Sources => uses[why] = 0
    <2>1. CASE Minting(r)
      BY <1>1, <2>1, SourceFacts DEF SpentIsOnes
    <2>2. CASE \E t \in stored \ kept : why = S!Token(t)
      <3>1. PICK t \in stored \ kept : why = S!Token(t)
        BY <2>2
      <3>2. t \in 1 .. MaxTokens /\ uses[S!Token(t)] \in Nat
        BY <1>1, <3>1, SourceFacts
      <3> QED
        BY <1>1, <3>1, <3>2 DEF SpentIsOnes
    <2> QED
      BY <2>1, <2>2
  <1>5. /\ uses' \in [S!Sources -> Nat]
        /\ \A s \in S!Sources : s # why => uses'[s] = uses[s]
        /\ why \in S!Sources => uses'[why] = 1
    BY <1>1, <1>2, <1>4
  <1>6. /\ session'[r] = S!Idle /\ \A v \in Requests \ {r} : session'[v] = session[v]
        /\ session' \in [Requests -> S!RequestStates]
    BY <1>1, <1>2, SourceFacts DEF SessionShape, S!TypeOK
  <1> HIDE DEF why
  <1>7. SessionShape'
    <2>1. stored' \subseteq 1 .. minted' /\ minted' \in 0 .. MaxTokens
          /\ \A x \in 1 .. minted : x \in 1 .. minted'
      <3>1. kept \subseteq 1 .. minted /\ minted' = n /\ stored' = kept \union {n}
        BY <1>1, <1>2
      <3>2. minted \in Nat /\ n = minted + 1
        BY <1>1
      <3> HIDE DEF n
      <3> QED
        BY <1>3, <3>1, <3>2
    <2>2. S!TypeOK'
      BY <1>1, <1>2, <1>5, <1>6, <2>1 DEF SessionShape, S!TypeOK
    <2>3. ASSUME NEW v \in Requests
          PROVE  /\ session'[v].at \in {"changing", "revoking"} =>
                       session'[v].seen.version < MaxVersion /\ session'[v].before \subseteq 1 .. minted'
                 /\ session'[v].at = "verifying" => session'[v].why = S!Password
                 /\ session'[v].at = "refreshing" => \E t \in 1 .. minted' : session'[v].why = S!Token(t)
                 /\ Minting(v)' /\ session'[v].why # S!Password =>
                       \E t \in spent' : session'[v].why = S!Ticket(t)
      <3>1. CASE v = r
        BY <1>6, <3>1, SourceFacts DEF Minting
      <3>2. CASE v # r
        BY <1>1, <1>6, <2>1, <3>2 DEF Minting, SessionShape
      <3> QED
        BY <3>1, <3>2
    <2> QED
      BY <2>2, <2>3 DEF SessionShape
  <1>8. SpentIsOnes'
    <2>1. \A s \in S!Sources : uses'[s] <= 1
      BY <1>1, <1>5 DEF SpentIsOnes
    <2>2. ASSUME NEW t \in 1 .. MaxTokens, uses'[S!Token(t)] > 0 PROVE t <= minted' /\ t \notin stored'
      <3>1. CASE why = S!Token(t)
        <4>1. t \in stored \ kept
          BY <1>1, <3>1, SourceFacts DEF why, SessionShape
        <4> QED
          BY <1>1, <1>2, <1>3, <4>1
      <3>2. CASE why # S!Token(t)
        <4>1. t <= minted /\ t \notin stored
          BY <1>1, <1>5, <2>2, <3>2, SourceFacts DEF SpentIsOnes
        <4> QED
          BY <1>1, <1>2, <1>3, <4>1
      <3> QED
        BY <3>1, <3>2
    <2>3. ASSUME NEW t \in 1 .. MaxTickets, uses'[S!Ticket(t)] > 0 PROVE t \in spent'
      <3>1. CASE why = S!Ticket(t)
        BY <1>1, <3>1, SourceFacts DEF why, SessionShape
      <3>2. CASE why # S!Ticket(t)
        BY <1>1, <1>5, <2>3, <3>2, SourceFacts DEF SpentIsOnes
      <3> QED
        BY <3>1, <3>2
    <2>4. ASSUME NEW v \in Requests, Minting(v)', session'[v].why # S!Password
          PROVE  /\ uses'[session'[v].why] = 0
                 /\ \A w \in Requests : Minting(w)' /\ session'[w].why = session'[v].why => w = v
      <3>1. \A w \in Requests : Minting(w)' => w # r /\ Minting(w) /\ session'[w] = session[w]
        BY <1>6, SourceFacts DEF Minting
      <3>2. session[v].why \in S!Sources /\ session[v].why # why
        <4>1. session[v].why \in S!Sources
          BY <1>1, <2>4, <3>1, RequestFacts
        <4>2. PICK t \in spent : session[v].why = S!Ticket(t)
          BY <1>1, <2>4, <3>1 DEF SessionShape
        <4>3. CASE Minting(r)
          <5>1. Minting(v) /\ v # r /\ session[v].why # S!Password
            BY <2>4, <3>1
          <5>2. \A w \in Requests : Minting(w) /\ session[w].why = session[v].why => w = v
            BY <1>1, <5>1 DEF SpentIsOnes
          <5>3. session[r].why # session[v].why
            BY <4>3, <5>1, <5>2
          <5> QED
            BY <4>1, <5>3 DEF why
        <4>4. CASE ~Minting(r)
          BY <4>1, <4>2, <4>4, SourceFacts DEF why
        <4> QED
          BY <4>1, <4>3, <4>4
      <3> QED
        BY <1>1, <1>5, <2>4, <3>1, <3>2 DEF SpentIsOnes
    <2> QED
      BY <2>1, <2>2, <2>3, <2>4 DEF SpentIsOnes
  <1>9. FoundAreListed'
    <2> SUFFICES ASSUME NEW v \in Requests, session'[v].at = "revoking"
                 PROVE  stored' \intersect session'[v].before \subseteq session'[v].doomed
      BY DEF FoundAreListed
    <2>1. v # r /\ session'[v] = session[v]
      BY <1>6, SourceFacts
    <2>2. n \notin session[v].before
      BY <1>1, <1>3, <2>1 DEF SessionShape
    <2> QED
      BY <1>1, <1>2, <2>1, <2>2 DEF FoundAreListed
  <1>10. RulingIsUnderWay'
    BY <1>1, <1>6, SourceFacts, RulingStays DEF Publishing, SessionShape, S!TypeOK
  <1> QED
    BY <1>7, <1>8, <1>9, <1>10 DEF SessionInv

LEMMA MintKeeps ==
    ASSUME SessionInv, NEW r \in Requests, S!Mint(r)
    PROVE  SessionInv'
  BY IssueKeeps DEF S!Mint, S!At, S!UnchangedModeration, Minting, Publishing

LEMMA RotateKeeps ==
    ASSUME SessionInv, NEW r \in Requests, S!Rotate(r)
    PROVE  SessionInv'
  <1> DEFINE t == session[r].why.number
  <1>1. t \in stored /\ session[r].at = "refreshing" /\ S!Issue(r, stored \ {t})
        /\ UNCHANGED <<user, tickets, spent, ruling, bus, disturbed>>
    BY DEF S!Rotate, S!At, S!Consumed, S!UnchangedModeration
  <1>2. session[r].why = S!Token(t)
    BY <1>1, SourceFacts DEF SessionInv, SessionShape
  <1> HIDE DEF t
  <1>3. /\ stored \ {t} \in SUBSET stored /\ ~Publishing(r)
        /\ \E u \in stored \ (stored \ {t}) : session[r].why = S!Token(u)
    BY <1>1, <1>2 DEF Publishing
  <1> QED
    BY <1>1, <1>3, IssueKeeps

LEMMA ConsumeKeeps ==
    ASSUME SessionInv, NEW r \in Requests, S!ConsumeExpired(r)
    PROVE  SessionInv'
  <1>1. user \in S!Users /\ tickets \in 0 .. MaxTickets
    BY RequestFacts DEF SessionInv
  <1>2. /\ stored' \subseteq stored /\ session' = [session EXCEPT ![r] = S!Idle] /\ ~Publishing(r)
        /\ UNCHANGED <<user, tickets, spent, ruling, bus, disturbed, access, minted, uses>>
    BY DEF S!ConsumeExpired, S!Consumed, S!At, S!UnchangedModeration, Publishing
  <1>3. user' \in S!Users /\ user'.active = user.active /\ tickets' \in 0 .. MaxTickets /\ tickets <= tickets'
    BY <1>1, <1>2
  <1> QED
    BY <1>2, <1>3, IdleKeeps

LEMMA RowKeeps ==
    ASSUME SessionInv,
           \/ \E t \in S!Tokens : S!Logout(t)
           \/ S!SetUpMfa \/ S!VerifyMfa \/ S!DisableMfa
    PROVE  SessionInv'
  <1>1. user \in S!Users
    BY DEF SessionInv, SessionShape, S!TypeOK
  <1>2. ASSUME NEW t \in S!Tokens, S!Logout(t) PROVE SessionInv'
    <2>1. /\ stored' \subseteq stored
          /\ UNCHANGED <<user, session, tickets, spent, ruling, bus, disturbed, access, minted, uses>>
      BY <1>2 DEF S!Logout, S!Consumed, S!UnchangedModeration
    <2> QED
      BY <1>1, <2>1, RowMoves
  <1>3. ASSUME NEW from, NEW to \in S!MfaStates, S!MoveMfa(from, to) PROVE SessionInv'
    <2>1. /\ user' = [user EXCEPT !.mfa = to]
          /\ UNCHANGED <<stored, session, tickets, spent, ruling, bus, disturbed, access, minted, uses>>
      BY <1>3 DEF S!MoveMfa, S!UnchangedModeration
    <2>2. user' \in S!Users /\ user'.active = user.active
      BY <1>1, <2>1 DEF S!Users
    <2> QED
      BY <2>1, <2>2, RowMoves
  <1> QED
    BY <1>2, <1>3 DEF S!SetUpMfa, S!VerifyMfa, S!DisableMfa, S!MfaStates

LEMMA LeaveSessionKeeps ==
    ASSUME SessionInv, NEW r \in Requests, S!Leave(r)
    PROVE  SessionInv'
  <1>1. /\ SessionShape /\ SpentIsOnes /\ FoundAreListed /\ disturbed \in BOOLEAN
        /\ user \in S!Users /\ tickets \in 0 .. MaxTickets
        /\ ruling \in BOOLEAN /\ bus \in Seq(BOOLEAN)
    BY RequestFacts DEF SessionInv, SessionShape, S!TypeOK
  <1>2. /\ session' = [session EXCEPT ![r] = S!Idle]
        /\ disturbed' = (disturbed \/ Publishing(r))
        /\ UNCHANGED <<user, stored, tickets, spent, ruling, bus, access, minted, uses>>
    BY DEF S!Leave, S!At, Publishing
  <1>3. CASE ~Publishing(r)
    <2>1. disturbed' = disturbed
      BY <1>1, <1>2, <1>3
    <2>2. user' \in S!Users /\ user'.active = user.active /\ stored' \subseteq stored
          /\ tickets' \in 0 .. MaxTickets /\ tickets <= tickets'
      BY <1>1, <1>2
    <2> QED
      BY <1>2, <1>3, <2>1, <2>2, IdleKeeps
  <1>4. CASE Publishing(r)
    <2>1. PICK q \in S!RequestStates : q = S!Idle
      BY SourceFacts
    <2>2. q.at = "idle" /\ session' = [session EXCEPT ![r] = q] /\ disturbed'
      BY <1>2, <1>4, <2>1, SourceFacts
    <2> user' \in S!Users /\ stored' \subseteq stored /\ tickets' \in 0 .. MaxTickets /\ tickets <= tickets'
        /\ ruling' \in BOOLEAN /\ bus' \in Seq(BOOLEAN) /\ disturbed' \in BOOLEAN
      BY <1>1, <1>2
    <2>3. /\ SessionShape' /\ SpentIsOnes' /\ session'[r] = q
          /\ \A v \in Requests \ {r} : session'[v] = session[v]
      BY <1>1, <1>2, <2>2, RequestMoves
    <2>4. FoundAreListed'
      BY <1>1, <1>2, <2>2, <2>3, ListedStay
    <2>5. RulingIsUnderWay'
      BY <2>2 DEF RulingIsUnderWay
    <2> QED
      BY <2>3, <2>4, <2>5 DEF SessionInv
  <1> QED
    BY <1>3, <1>4

LEMMA DecideKeeps ==
    ASSUME SessionInv, NEW r \in Requests, NEW active \in BOOLEAN, S!Decide(r, active)
    PROVE  SessionInv'
  <1> DEFINE q == [S!Idle EXCEPT !.at = "publishing", !.active = active]
  <1>1. /\ SessionShape /\ SpentIsOnes /\ FoundAreListed /\ disturbed \in BOOLEAN
        /\ user \in S!Users /\ tickets \in 0 .. MaxTickets /\ bus \in Seq(BOOLEAN)
    BY RequestFacts DEF SessionInv, SessionShape, S!TypeOK
  <1>2. /\ session' = [session EXCEPT ![r] = q] /\ ruling' = active
        /\ disturbed' = (disturbed \/ \E v \in Requests : Publishing(v))
        /\ UNCHANGED <<user, stored, tickets, spent, bus, access, minted, uses>>
    BY DEF S!Decide, S!At, Publishing
  <1>3. q \in S!RequestStates /\ q.at = "publishing" /\ q.active = active
    BY SourceFacts DEF S!RequestStates, S!Places
  <1> HIDE DEF q
  <1>4. user' \in S!Users /\ stored' \subseteq stored /\ tickets' \in 0 .. MaxTickets /\ tickets <= tickets'
        /\ ruling' \in BOOLEAN /\ bus' \in Seq(BOOLEAN) /\ disturbed' \in BOOLEAN
    BY <1>1, <1>2
  <1>5. /\ SessionShape' /\ SpentIsOnes' /\ session'[r] = q
        /\ \A v \in Requests \ {r} : session'[v] = session[v]
    BY <1>1, <1>2, <1>3, <1>4, RequestMoves
  <1>6. FoundAreListed'
    BY <1>1, <1>2, <1>3, <1>5, ListedStay
  <1>7. RulingIsUnderWay'
    BY <1>2, <1>3, <1>5 DEF RulingIsUnderWay, Publishing
  <1> QED
    BY <1>5, <1>6, <1>7 DEF SessionInv

LEMMA PublishKeeps ==
    ASSUME SessionInv, NEW r \in Requests, S!Publish(r)
    PROVE  SessionInv'
  <1>1. /\ SessionShape /\ SpentIsOnes /\ FoundAreListed /\ disturbed \in BOOLEAN /\ ruling \in BOOLEAN
        /\ user \in S!Users /\ tickets \in 0 .. MaxTickets /\ bus \in Seq(BOOLEAN)
        /\ session[r].active \in BOOLEAN /\ Publishing(r)
    BY RequestFacts DEF SessionInv, SessionShape, S!TypeOK, S!Publish, S!At, Publishing
  <1>2. PICK q \in S!RequestStates : q = S!Idle
    BY SourceFacts
  <1>3. /\ session' = [session EXCEPT ![r] = q] /\ q.at = "idle"
        /\ bus' = Append(bus, session[r].active)
        /\ UNCHANGED <<user, stored, tickets, spent, access, ruling, minted, uses, disturbed>>
    BY <1>2, SourceFacts DEF S!Publish
  <1>4. user' \in S!Users /\ stored' \subseteq stored /\ tickets' \in 0 .. MaxTickets /\ tickets <= tickets'
        /\ ruling' \in BOOLEAN /\ disturbed' \in BOOLEAN
    BY <1>1, <1>3
  <1>5. bus' \in Seq(BOOLEAN) /\ bus' # <<>> /\ bus'[Len(bus')] = session[r].active
    BY <1>1, <1>3
  <1>6. /\ SessionShape' /\ SpentIsOnes' /\ session'[r] = q
        /\ \A v \in Requests \ {r} : session'[v] = session[v]
    BY <1>1, <1>3, <1>4, <1>5, RequestMoves
  <1>7. FoundAreListed'
    BY <1>1, <1>3, <1>4, <1>6, ListedStay
  <1>8. RulingIsUnderWay'
    <2> SUFFICES ASSUME ~disturbed PROVE RulingIsUnderWay'
      BY <1>3 DEF RulingIsUnderWay
    <2>1. session[r].active = ruling /\ \A v \in Requests : Publishing(v) => v = r
      BY <1>1 DEF SessionInv, RulingIsUnderWay
    <2>2. \A v \in Requests : ~Publishing(v)'
      BY <1>3, <1>6, <2>1 DEF Publishing
    <2> QED
      BY <1>3, <1>5, <2>1, <2>2 DEF RulingIsUnderWay
  <1> QED
    BY <1>6, <1>7, <1>8 DEF SessionInv

LEMMA ConsumerKeeps ==
    ASSUME SessionInv, S!Apply \/ S!SkipRuling
    PROVE  SessionInv'
  <1>1. /\ SessionShape /\ SpentIsOnes /\ FoundAreListed /\ RulingIsUnderWay
        /\ user \in S!Users /\ bus \in Seq(BOOLEAN) /\ disturbed \in BOOLEAN
    BY DEF SessionInv, SessionShape, S!TypeOK
  <1>2. /\ bus # <<>> /\ bus' = Tail(bus)
        /\ UNCHANGED <<stored, tickets, spent, access, ruling, session, minted, uses>>
        /\ \/ user' = [user EXCEPT !.active = Head(bus)] /\ disturbed' = disturbed
           \/ user' = user /\ disturbed' = TRUE
    BY DEF S!Apply, S!SkipRuling, S!Ruled
  <1>3. Head(bus) \in BOOLEAN /\ bus' \in Seq(BOOLEAN) /\ Len(bus') = Len(bus) - 1 /\ Len(bus) \in Nat
        /\ (bus' # <<>> => bus'[Len(bus')] = bus[Len(bus)])
        /\ (bus' = <<>> => bus[Len(bus)] = Head(bus))
    BY <1>1, <1>2
  <1>4. user' \in S!Users /\ disturbed' \in BOOLEAN
    BY <1>1, <1>2, <1>3 DEF S!Users
  <1>5. SessionShape'
    <2>1. S!TypeOK'
      BY <1>1, <1>2, <1>3, <1>4 DEF SessionShape, S!TypeOK
    <2> QED
      BY <1>1, <1>2, <2>1 DEF SessionShape, Minting
  <1>6. SpentIsOnes' /\ FoundAreListed'
    BY <1>1, <1>2 DEF SpentIsOnes, FoundAreListed, Minting
  <1>7. RulingIsUnderWay'
    <2> SUFFICES ASSUME ~disturbed' PROVE RulingIsUnderWay'
      BY DEF RulingIsUnderWay
    <2>1. ~disturbed /\ user' = [user EXCEPT !.active = Head(bus)] /\ user'.active = Head(bus)
      BY <1>1, <1>2 DEF S!Users
    <2> QED
      BY <1>1, <1>2, <1>3, <2>1 DEF RulingIsUnderWay, Publishing
  <1> QED
    BY <1>5, <1>6, <1>7 DEF SessionInv

LEMMA SessionStep == SessionInv /\ [S!Next]_sessions => SessionInv'
  <1> SUFFICES ASSUME SessionInv, [S!Next]_sessions PROVE SessionInv'
    OBVIOUS
  <1>1. ASSUME NEW r \in Requests,
               \/ S!ReadForLogin(r) \/ S!RightPassword(r) \/ S!Mint(r)
               \/ S!Rotate(r) \/ S!ConsumeExpired(r)
               \/ S!ReadForChange(r) \/ S!ListTokens(r) \/ S!CommitChange(r)
               \/ S!Publish(r) \/ S!Leave(r)
        PROVE  SessionInv'
    BY <1>1, VerifyingKeeps, RightPasswordKeeps, MintKeeps, RotateKeeps, ConsumeKeeps, ReadForChangeKeeps,
       ListTokensKeeps, CommitChangeKeeps, PublishKeeps, LeaveSessionKeeps
  <1>2. ASSUME NEW r \in Requests, NEW t \in 1 .. tickets, S!SpendTicket(r, t) PROVE SessionInv'
    BY <1>2, SpendTicketKeeps
  <1>3. ASSUME NEW r \in Requests, NEW t \in 1 .. minted, S!ReadForRefresh(r, t) PROVE SessionInv'
    BY <1>3, ReadForRefreshKeeps
  <1>4. ASSUME NEW r \in Requests, NEW active \in BOOLEAN, S!Decide(r, active) PROVE SessionInv'
    BY <1>4, DecideKeeps
  <1>5. CASE UNCHANGED sessions
    BY <1>5 DEF sessions, SessionInv, SessionShape, S!TypeOK, SpentIsOnes, FoundAreListed, RulingIsUnderWay,
       Minting, Publishing
  <1> QED
    BY <1>1, <1>2, <1>3, <1>4, <1>5, RowKeeps, ConsumerKeeps DEF S!Next

LEMMA SessionsHold == SideSpec => []SessionInv
  <1>1. SideInit => SessionInv
    BY InitSession DEF SideInit
  <1>2. SessionInv /\ [SideNext]_<<side, others>> => SessionInv'
    <2>1. [SideNext]_<<side, others>> => [S!Next]_sessions
      BY DEF SideNext, others
    <2> QED
      BY <2>1, SessionStep
  <1> QED
    BY <1>1, <1>2, PTL DEF SideSpec

\* The account follows the decisions of the admin service (_apply_moderation).
THEOREM RulingsHold == SideSpec => []ActivityFollowsRulings
  <1>1. SessionInv => ActivityFollowsRulings
    BY DEF SessionInv, RulingIsUnderWay, Publishing, ActivityFollowsRulings, S!ActivityFollowsRulings, S!At
  <1> QED
    BY <1>1, SessionsHold, PTL

\* No refresh token that a change of the password found outlives it (change_password).
THEOREM ChangeHolds == SideSpec => ChangeEndsSessions
  <1>1. SessionInv /\ [SideNext]_<<side, others>> =>
           [\A r \in Requests : S!CommitChange(r) => stored' \intersect session[r].before = {}]_sessions
    BY CommitChangeKeeps DEF SideNext, others, sessions
  <1> QED
    BY <1>1, SessionsHold, PTL DEF SideSpec, ChangeEndsSessions, S!ChangeEndsSessions, S!vars, sessions

-----------------------------------------------------------------------------
LEMMA AccessConstants ==
    /\ MaxLoginAttempts \in Nat \ {0} /\ LockFor \in Nat \ {0} /\ MaxLinks \in Nat
    /\ \A p \in Passwords, old \in BOOLEAN :
          /\ A!NewRow(p, old) \in A!Rows /\ A!NewRow(p, old).exists /\ ~A!NewRow(p, old).verified
          /\ A!NewRow(p, old).password = p /\ A!NewRow(p, old).attempts = 0
    /\ A!NoAccount.exists = FALSE
    /\ A!Idle.at = "idle" /\ A!Idle \in A!RequestStates
  <1>1. MaxLoginAttempts \in Nat \ {0} /\ LockFor \in Nat \ {0} /\ MaxLinks \in Nat
    BY AccountsAssumption DEF AccountsAssumption
  <1>2. ASSUME NEW p \in Passwords, NEW old \in BOOLEAN
        PROVE  /\ A!NewRow(p, old) \in A!Rows /\ A!NewRow(p, old).exists /\ ~A!NewRow(p, old).verified
               /\ A!NewRow(p, old).password = p /\ A!NewRow(p, old).attempts = 0
    BY <1>1 DEF A!NewRow, A!Rows, A!NoLock
  <1>3. A!Idle.at = "idle" /\ A!Idle \in A!RequestStates
    <2>1. A!Idle \in A!RequestStates
      BY Zenon DEF A!RequestStates
    <2> QED
      BY <2>1 DEF A!Idle
  <1> QED
    BY <1>1, <1>2, <1>3 DEF A!NoAccount

LEMMA CallFacts ==
    ASSUME NEW q \in A!RequestStates
    PROVE  /\ q.at \in {"idle", "registering", "changing", "checking", "verifying"}
           /\ q.at # "idle" => q.email \in Emails
           /\ q.at \in {"registering", "changing"} => q.password \in Passwords
           /\ q.at = "checking" => q.right \in BOOLEAN
           /\ q.at = "checking" /\ ~q.right => q.attempts \in 0 .. MaxLoginAttempts
           /\ q.at = "checking" /\ q.right =>
                 q.counted \in BOOLEAN /\ q.dated \in BOOLEAN /\ q.old \in BOOLEAN /\ q.password \in Passwords
           /\ q.at = "verifying" => q.link \in 1 .. MaxLinks
  <1>1. CASE q = A!Idle
    BY <1>1 DEF A!Idle
  <1>2. CASE q \in [at : {"registering", "changing"}, email : Emails, password : Passwords]
    BY <1>2
  <1>3. CASE q \in [at : {"checking"}, email : Emails, right : {FALSE}, attempts : 0 .. MaxLoginAttempts]
    BY <1>3
  <1>4. CASE q \in [at : {"checking"}, email : Emails, right : {TRUE}, counted : BOOLEAN,
                     dated : BOOLEAN, old : BOOLEAN, password : Passwords]
    BY <1>4
  <1>5. CASE q \in [at : {"verifying"}, email : Emails, link : 1 .. MaxLinks]
    BY <1>5
  <1> QED
    BY <1>1, <1>2, <1>3, <1>4, <1>5 DEF A!RequestStates

LEMMA RowFacts ==
    ASSUME AccessShape, NEW e \in Emails
    PROVE  /\ account[e].exists \in BOOLEAN
           /\ account[e].exists => account[e] \in A!Rows
           /\ ~account[e].exists => account[e] = A!NoAccount
           /\ wrong[e] \in 0 .. MaxLoginAttempts /\ chosen[e] \in Passwords
  <1>1. /\ account[e] \in A!Rows \union {A!NoAccount}
        /\ wrong[e] \in 0 .. MaxLoginAttempts /\ chosen[e] \in Passwords
    BY DEF AccessShape, A!TypeOK
  <1>2. CASE account[e] \in A!Rows
    <2>1. account[e].exists = TRUE
      BY <1>2 DEF A!Rows
    <2> QED
      BY <1>1, <1>2, <2>1
  <1>3. CASE account[e] = A!NoAccount
    BY <1>1, <1>3, AccessConstants
  <1> QED
    BY <1>1, <1>2, <1>3

LEMMA InitAccess == A!Init => AccessInv
  <1> SUFFICES ASSUME A!Init PROVE AccessInv
    OBVIOUS
  <1>1. PICK there \in SUBSET Emails, p \in Passwords :
          /\ account = [e \in Emails |-> IF e \in there THEN A!NewRow(p, TRUE) ELSE A!NoAccount]
          /\ chosen = [e \in Emails |-> p]
    BY DEF A!Init
  <1>2. /\ links = <<>> /\ used = {} /\ call = [r \in Requests |-> A!Idle]
        /\ wrong = [e \in Emails |-> 0] /\ lost = {} /\ crossed = {}
        /\ linkUses = [n \in 1 .. MaxLinks |-> 0]
    BY DEF A!Init
  <1>3. \A e \in Emails : /\ account[e] \in A!Rows \union {A!NoAccount}
                          /\ account[e].exists =>
                                account[e].password = p /\ account[e].attempts = 0 /\ ~account[e].verified
    BY <1>1, AccessConstants
  <1>4. AccessShape
    <2>1. account \in [Emails -> A!Rows \union {A!NoAccount}]
      BY <1>1, <1>3
    <2>2. wrong \in [Emails -> 0 .. MaxLoginAttempts] /\ links \in Seq(Emails)
          /\ linkUses \in [1 .. MaxLinks -> Nat]
      BY <1>2, AccessConstants
    <2>3. call \in [Requests -> A!RequestStates]
      BY <1>2, AccessConstants
    <2>4. A!TypeOK
      BY <1>1, <1>2, <2>1, <2>2, <2>3 DEF A!TypeOK
    <2> QED
      BY <1>2, <2>4, AccessConstants DEF AccessShape
  <1>5. WrongAreCounted
    BY <1>2, <1>3, AccessConstants DEF WrongAreCounted
  <1>6. HashIsOfChosen
    BY <1>1, <1>2, <1>3, AccessConstants DEF HashIsOfChosen
  <1>7. LinksAreSpent
    BY <1>2, <1>3 DEF LinksAreSpent
  <1> QED
    BY <1>4, <1>5, <1>6, <1>7 DEF AccessInv

\* A request takes up an account, or puts it down.
LEMMA CallMoves ==
    ASSUME AccessInv, NEW r \in Requests, NEW q \in A!RequestStates,
           call' = [call EXCEPT ![r] = q],
           q.at \in {"checking", "changing", "verifying"} => account[q.email].exists,
           q.at = "verifying" => q.link \in 1 .. Len(links) /\ q.email = links[q.link],
           q.at = "checking" /\ q.right /\ q.old /\ q.email \notin crossed =>
              q.password = account[q.email].password,
           UNCHANGED <<account, links, used, chosen, wrong, lost, crossed, linkUses>>
    PROVE  AccessInv'
  <1>1. AccessShape /\ WrongAreCounted /\ HashIsOfChosen /\ LinksAreSpent
    BY DEF AccessInv
  <1>2. /\ call' \in [Requests -> A!RequestStates] /\ call'[r] = q
        /\ \A v \in Requests \ {r} : call'[v] = call[v]
    BY <1>1 DEF AccessShape, A!TypeOK
  <1>3. AccessShape'
    <2>1. A!TypeOK'
      BY <1>1, <1>2 DEF AccessShape, A!TypeOK
    <2> QED
      BY <1>1, <1>2, <2>1 DEF AccessShape
  <1>4. WrongAreCounted' /\ LinksAreSpent'
    BY <1>1 DEF WrongAreCounted, LinksAreSpent
  <1>5. HashIsOfChosen'
    <2> SUFFICES ASSUME NEW e \in Emails \ crossed, NEW v \in Requests,
                        call'[v].at = "checking", call'[v].right, call'[v].email = e, call'[v].old
                 PROVE  call'[v].password = chosen[e]
      BY <1>1 DEF HashIsOfChosen
    <2>1. CASE v = r
      BY <1>1, <1>2, <2>1 DEF HashIsOfChosen
    <2>2. CASE v # r
      BY <1>1, <1>2, <2>2 DEF HashIsOfChosen
    <2> QED
      BY <2>1, <2>2
  <1> QED
    BY <1>3, <1>4, <1>5 DEF AccessInv

LEMMA LeaveCallKeeps ==
    ASSUME AccessInv, NEW r \in Requests, call' = [call EXCEPT ![r] = A!Idle],
           UNCHANGED <<account, links, used, chosen, wrong, lost, crossed, linkUses>>
    PROVE  AccessInv'
  <1>1. PICK q \in A!RequestStates : q = A!Idle
    BY AccessConstants
  <1>2. q.at = "idle" /\ call' = [call EXCEPT ![r] = q]
    BY <1>1, AccessConstants
  <1> QED
    BY <1>2, CallMoves

LEMMA ReadsKeep ==
    ASSUME AccessInv, NEW r \in Requests, NEW e \in Emails, NEW p \in Passwords,
           A!ReadForRegister(r, e, p) \/ A!ReadForLogin(r, e, p) \/ A!ReadForChange(r, e, p)
    PROVE  AccessInv'
  <1>1. AccessShape /\ UNCHANGED <<account, links, used, chosen, wrong, lost, crossed, linkUses>>
    BY DEF AccessInv, A!ReadForRegister, A!ReadForLogin, A!ReadForChange, A!UnchangedLinks, A!UnchangedAccess
  <1>2. CASE A!ReadForRegister(r, e, p)
    <2> DEFINE q == [at |-> "registering", email |-> e, password |-> p]
    <2>1. q \in A!RequestStates /\ q.at = "registering" /\ call' = [call EXCEPT ![r] = q]
      BY <1>2 DEF A!ReadForRegister, A!RequestStates
    <2> HIDE DEF q
    <2> QED
      BY <1>1, <2>1, CallMoves
  <1>3. CASE A!ReadForChange(r, e, p)
    <2> DEFINE q == [at |-> "changing", email |-> e, password |-> p]
    <2>1. q \in A!RequestStates /\ q.at = "changing" /\ q.email = e /\ call' = [call EXCEPT ![r] = q]
          /\ account[e].exists
      BY <1>3 DEF A!ReadForChange, A!RequestStates, A!Found
    <2> HIDE DEF q
    <2> QED
      BY <1>1, <2>1, CallMoves
  <1>4. CASE A!ReadForLogin(r, e, p)
    <2> DEFINE q == A!Checking(e, account[e], p)
    <2>1. account[e].exists /\ account[e] \in A!Rows /\ call' = [call EXCEPT ![r] = q]
      BY <1>1, <1>4, RowFacts DEF A!ReadForLogin, A!Found
    <2>2. /\ q \in A!RequestStates /\ q.at = "checking" /\ q.email = e
          /\ q.right => q.password = account[e].password
      <3>1. CASE account[e].password # p
        BY <2>1, <3>1 DEF A!Checking, A!RequestStates, A!Rows
      <3>2. CASE account[e].password = p
        BY <2>1, <3>2 DEF A!Checking, A!RequestStates, A!Rows
      <3> QED
        BY <3>1, <3>2
    <2> HIDE DEF q
    <2> QED
      BY <1>1, <2>1, <2>2, CallMoves
  <1> QED
    BY <1>2, <1>3, <1>4

LEMMA ReadForVerifyKeeps ==
    ASSUME AccessInv, NEW r \in Requests, NEW n \in 1 .. Len(links), A!ReadForVerify(r, n)
    PROVE  AccessInv'
  <1> DEFINE q == [at |-> "verifying", email |-> links[n], link |-> n]
  <1>1. AccessShape /\ links \in Seq(Emails) /\ links[n] \in Emails
    BY DEF AccessInv, AccessShape, A!TypeOK
  <1>2. n \in 1 .. MaxLinks
    BY <1>1, AccessConstants DEF AccessShape
  <1>3. /\ q \in A!RequestStates /\ q.at = "verifying" /\ q.link = n /\ q.email = links[n]
        /\ call' = [call EXCEPT ![r] = q] /\ account[links[n]].exists
        /\ UNCHANGED <<account, links, used, chosen, wrong, lost, crossed, linkUses>>
    <2>1. q \in A!RequestStates
      BY <1>1, <1>2 DEF A!RequestStates
    <2> QED
      BY <2>1 DEF A!ReadForVerify, A!Found, A!UnchangedLinks, A!UnchangedAccess
  <1> HIDE DEF q
  <1> QED
    BY <1>3, CallMoves

\* The row of an account is written, and the request that did it is done.
LEMMA RowWritten ==
    ASSUME AccessShape, NEW r \in Requests, NEW e \in Emails, NEW row \in A!Rows,
           account' = [account EXCEPT ![e] = row], call' = [call EXCEPT ![r] = A!Idle],
           chosen' \in [Emails -> Passwords], wrong' \in [Emails -> 0 .. MaxLoginAttempts],
           lost' \subseteq Emails, crossed' \subseteq Emails,
           used' \subseteq 1 .. Len(links), linkUses' \in [1 .. MaxLinks -> Nat],
           UNCHANGED links
    PROVE  /\ AccessShape' /\ account'[e] = row /\ row.exists
           /\ \A d \in Emails \ {e} : account'[d] = account[d]
           /\ \A v \in Requests : call'[v].at # "idle" => v # r /\ call'[v] = call[v]
  <1>1. A!TypeOK /\ MaxLinks \in Nat /\ Len(links) <= MaxLinks /\ Len(links) \in Nat
    BY AccessConstants DEF AccessShape, A!TypeOK
  <1>2. /\ account' \in [Emails -> A!Rows \union {A!NoAccount}] /\ account'[e] = row
        /\ \A d \in Emails \ {e} : account'[d] = account[d]
    BY <1>1 DEF A!TypeOK
  <1>3. row.exists
    BY DEF A!Rows
  <1>4. /\ call' \in [Requests -> A!RequestStates] /\ call'[r] = A!Idle
        /\ \A v \in Requests \ {r} : call'[v] = call[v]
    BY <1>1, AccessConstants DEF A!TypeOK
  <1>5. \A v \in Requests : call'[v].at # "idle" => v # r /\ call'[v] = call[v]
    BY <1>4, AccessConstants
  <1>6. used' \subseteq 1 .. MaxLinks
    BY <1>1
  <1>7. A!TypeOK'
    BY <1>1, <1>2, <1>4, <1>6 DEF A!TypeOK
  <1>8. \A d \in Emails : account[d].exists => account'[d].exists
    BY <1>2, <1>3
  <1>9. ASSUME NEW v \in Requests, call'[v].at \in {"checking", "changing", "verifying"}
        PROVE  account'[call'[v].email].exists
    <2>1. call'[v] = call[v] /\ call[v].email \in Emails
      BY <1>1, <1>5, <1>9, CallFacts DEF A!TypeOK
    <2> QED
      BY <1>8, <1>9, <2>1 DEF AccessShape
  <1>10. AccessShape'
    BY <1>1, <1>5, <1>7, <1>9 DEF AccessShape
  <1> QED
    BY <1>2, <1>3, <1>5, <1>10

LEMMA InsertKeeps ==
    ASSUME AccessInv, NEW r \in Requests, A!Insert(r)
    PROVE  AccessInv'
  <1> DEFINE e == call[r].email
             row == A!NewRow(call[r].password, FALSE)
  <1>1. AccessShape /\ WrongAreCounted /\ HashIsOfChosen /\ LinksAreSpent /\ A!TypeOK
    BY DEF AccessInv, AccessShape
  <1>2. /\ call[r].at = "registering" /\ call' = [call EXCEPT ![r] = A!Idle]
        /\ UNCHANGED <<links, used, wrong, lost, crossed, linkUses>>
    BY DEF A!Insert, A!At, A!Answered, A!UnchangedLinks
  <1>3. e \in Emails /\ call[r].password \in Passwords
    BY <1>1, <1>2, CallFacts DEF A!TypeOK
  <1>4. CASE account[e].exists
    <2>1. UNCHANGED <<account, chosen>>
      BY <1>4 DEF A!Insert
    <2> QED
      BY <1>2, <2>1, LeaveCallKeeps
  <1>5. CASE ~account[e].exists
    <2>1. account' = [account EXCEPT ![e] = row] /\ chosen' = [chosen EXCEPT ![e] = call[r].password]
      BY <1>5 DEF A!Insert
    <2>2. row \in A!Rows /\ row.password = call[r].password /\ row.attempts = 0 /\ ~row.verified
      BY <1>3, AccessConstants
    <2> HIDE DEF row, e
    <2>3. /\ chosen' \in [Emails -> Passwords] /\ chosen'[e] = call[r].password
          /\ \A d \in Emails \ {e} : chosen'[d] = chosen[d]
      BY <1>1, <1>3, <2>1 DEF A!TypeOK
    <2>4. /\ AccessShape' /\ account'[e] = row /\ row.exists
          /\ \A d \in Emails \ {e} : account'[d] = account[d]
          /\ \A v \in Requests : call'[v].at # "idle" => v # r /\ call'[v] = call[v]
      <3>1. /\ wrong' \in [Emails -> 0 .. MaxLoginAttempts] /\ lost' \subseteq Emails
            /\ crossed' \subseteq Emails /\ used' \subseteq 1 .. Len(links)
            /\ linkUses' \in [1 .. MaxLinks -> Nat]
        BY <1>1, <1>2 DEF AccessShape, A!TypeOK
      <3> QED
        BY <1>1, <1>2, <1>3, <2>1, <2>2, <2>3, <3>1, RowWritten
    <2>5. WrongAreCounted'
      <3>1. wrong[e] = 0
        BY <1>1, <1>3, <1>5 DEF WrongAreCounted, e
      <3> QED
        BY <1>1, <1>2, <2>2, <2>4, <3>1, AccessConstants DEF WrongAreCounted
    <2>6. HashIsOfChosen'
      <3>1. \A v \in Requests : call'[v].at = "checking" => call'[v] = call[v] /\ call[v].email # e
        BY <1>1, <1>5, <2>4 DEF AccessShape, e
      <3> QED
        BY <1>1, <1>2, <2>2, <2>3, <2>4, <3>1 DEF HashIsOfChosen
    <2>7. LinksAreSpent'
      BY <1>1, <1>2, <2>2, <2>4 DEF LinksAreSpent
    <2> QED
      BY <2>4, <2>5, <2>6, <2>7 DEF AccessInv
  <1> QED
    BY <1>4, <1>5

\* Beyond the limit the count makes no difference.
LEMMA CountedFacts ==
    /\ \A n \in 0 .. MaxLoginAttempts : A!Counted(n) \in 1 .. MaxLoginAttempts
    /\ \A n, m \in 0 .. MaxLoginAttempts : n <= m => A!Counted(n) <= A!Counted(m)
  BY AccessConstants DEF A!Counted

LEMMA WrongPasswordKeeps ==
    ASSUME AccessInv, NEW r \in Requests, A!WrongPassword(r)
    PROVE  AccessInv'
  <1> DEFINE e == call[r].email
             q == call[r]
             row == A!Failed(account[e], q)
  <1>1. AccessShape /\ WrongAreCounted /\ HashIsOfChosen /\ LinksAreSpent /\ A!TypeOK
    BY DEF AccessInv, AccessShape
  <1>2. /\ q.at = "checking" /\ ~q.right /\ account[e].exists
        /\ account' = [account EXCEPT ![e] = row] /\ call' = [call EXCEPT ![r] = A!Idle]
        /\ wrong' = [wrong EXCEPT ![e] = A!Counted(@)]
        /\ lost' = lost \union {d \in {e} : account[d].attempts # q.attempts}
        /\ UNCHANGED <<chosen, crossed, links, used, linkUses>>
    BY DEF A!WrongPassword, A!At, A!Found, A!Answered, A!UnchangedLinks
  <1>3. e \in Emails /\ q.attempts \in 0 .. MaxLoginAttempts /\ account[e] \in A!Rows
    <2>1. q \in A!RequestStates
      BY <1>1 DEF A!TypeOK
    <2>2. q.email \in Emails /\ q.attempts \in 0 .. MaxLoginAttempts
      BY <1>2, <2>1, CallFacts
    <2> QED
      BY <1>1, <1>2, <2>2, RowFacts
  <1>4. /\ row \in A!Rows /\ row.attempts = A!Counted(q.attempts) /\ row.password = account[e].password
        /\ row.verified = account[e].verified
        /\ A!Counted(q.attempts) >= MaxLoginAttempts => row.until = LockFor
    <2>1. A!Counted(q.attempts) \in 0 .. MaxLoginAttempts /\ LockFor \in A!NoLock .. LockFor
      BY <1>3, CountedFacts, AccessConstants DEF A!NoLock
    <2> QED
      BY <1>3, <2>1 DEF A!Failed, A!Locks, A!Rows
  <1> HIDE DEF row, e
  <1>5. /\ wrong' \in [Emails -> 0 .. MaxLoginAttempts] /\ wrong'[e] = A!Counted(wrong[e])
        /\ \A d \in Emails \ {e} : wrong'[d] = wrong[d]
    <2>1. A!Counted(wrong[e]) \in 0 .. MaxLoginAttempts
      BY <1>1, <1>3, RowFacts, CountedFacts, AccessConstants
    <2> QED
      BY <1>1, <1>2, <1>3, <2>1 DEF A!TypeOK
  <1>6. /\ AccessShape' /\ account'[e] = row /\ row.exists
        /\ \A d \in Emails \ {e} : account'[d] = account[d]
        /\ \A v \in Requests : call'[v].at # "idle" => v # r /\ call'[v] = call[v]
    <2>1. /\ chosen' \in [Emails -> Passwords] /\ lost' \subseteq Emails
          /\ crossed' \subseteq Emails /\ used' \subseteq 1 .. Len(links)
          /\ linkUses' \in [1 .. MaxLinks -> Nat]
      BY <1>1, <1>2, <1>3 DEF AccessShape, A!TypeOK
    <2> QED
      BY <1>1, <1>2, <1>3, <1>4, <1>5, <2>1, RowWritten
  <1>7. WrongAreCounted'
    <2>1. ASSUME e \notin lost'
          PROVE  wrong'[e] <= row.attempts /\ (wrong'[e] >= MaxLoginAttempts => row.until > 0)
      <3>1. e \notin lost /\ account[e].attempts = q.attempts
        BY <1>2, <2>1
      <3>2. wrong[e] <= q.attempts /\ wrong[e] \in 0 .. MaxLoginAttempts
        BY <1>1, <1>2, <1>3, <3>1, RowFacts DEF WrongAreCounted
      <3>3. A!Counted(wrong[e]) <= A!Counted(q.attempts)
            /\ A!Counted(wrong[e]) \in 1 .. MaxLoginAttempts /\ A!Counted(q.attempts) \in 1 .. MaxLoginAttempts
        BY <1>3, <3>2, CountedFacts
      <3> QED
        BY <1>4, <1>5, <3>3, AccessConstants
    <2>2. \A d \in Emails : d \notin lost' => d \notin lost
      BY <1>2
    <2> QED
      BY <1>1, <1>5, <1>6, <2>1, <2>2 DEF WrongAreCounted
  <1>8. HashIsOfChosen'
    BY <1>1, <1>2, <1>4, <1>6 DEF HashIsOfChosen
  <1>9. LinksAreSpent'
    BY <1>1, <1>2, <1>4, <1>6 DEF LinksAreSpent
  <1> QED
    BY <1>6, <1>7, <1>8, <1>9 DEF AccessInv

LEMMA RightLoginKeeps ==
    ASSUME AccessInv, NEW r \in Requests, A!RightPassword(r)
    PROVE  AccessInv'
  <1> DEFINE e == call[r].email
             q == call[r]
             row == A!Succeeded(account[e], q)
  <1>1. AccessShape /\ WrongAreCounted /\ HashIsOfChosen /\ LinksAreSpent /\ A!TypeOK
    BY DEF AccessInv, AccessShape
  <1>2. /\ q.at = "checking" /\ q.right /\ account[e].exists
        /\ account' = [account EXCEPT ![e] = row] /\ call' = [call EXCEPT ![r] = A!Idle]
        /\ wrong' = [wrong EXCEPT ![e] = 0]
        /\ UNCHANGED <<chosen, crossed, lost, links, used, linkUses>>
    BY DEF A!RightPassword, A!At, A!Found, A!Answered, A!UnchangedLinks
  <1>3. /\ e \in Emails /\ account[e] \in A!Rows
        /\ q.counted \in BOOLEAN /\ q.dated \in BOOLEAN /\ q.old \in BOOLEAN /\ q.password \in Passwords
    <2>1. q \in A!RequestStates
      BY <1>1 DEF A!TypeOK
    <2>2. q.email \in Emails
      BY <1>2, <2>1, CallFacts
    <2> QED
      BY <1>1, <1>2, <2>1, <2>2, CallFacts, RowFacts
  <1>4. /\ row \in A!Rows /\ row.verified = account[e].verified
        /\ row.attempts \in 0 .. MaxLoginAttempts
        /\ row.password = IF q.old THEN q.password ELSE account[e].password
    <2>1. 0 \in 0 .. MaxLoginAttempts /\ A!NoLock \in A!NoLock .. LockFor
      BY AccessConstants DEF A!NoLock
    <2>2. row = [account[e] EXCEPT !.attempts = IF q.counted THEN 0 ELSE @,
                                   !.until = IF q.dated THEN A!NoLock ELSE @,
                                   !.password = IF q.old THEN q.password ELSE @,
                                   !.old = IF q.old THEN FALSE ELSE @]
      BY DEF A!Succeeded, A!NeedsRehash
    <2> HIDE DEF row, q
    <2> QED
      BY <1>3, <2>1, <2>2 DEF A!Rows
  <1> HIDE DEF row, e
  <1>5. /\ wrong' \in [Emails -> 0 .. MaxLoginAttempts] /\ wrong'[e] = 0
        /\ \A d \in Emails \ {e} : wrong'[d] = wrong[d]
    BY <1>1, <1>2, <1>3, AccessConstants DEF A!TypeOK
  <1>6. /\ AccessShape' /\ account'[e] = row /\ row.exists
        /\ \A d \in Emails \ {e} : account'[d] = account[d]
        /\ \A v \in Requests : call'[v].at # "idle" => v # r /\ call'[v] = call[v]
    <2>1. /\ chosen' \in [Emails -> Passwords] /\ lost' \subseteq Emails
          /\ crossed' \subseteq Emails /\ used' \subseteq 1 .. Len(links)
          /\ linkUses' \in [1 .. MaxLinks -> Nat]
      BY <1>1, <1>2 DEF AccessShape, A!TypeOK
    <2> QED
      BY <1>1, <1>2, <1>3, <1>4, <1>5, <2>1, RowWritten
  <1>7. WrongAreCounted'
    BY <1>1, <1>2, <1>4, <1>5, <1>6, AccessConstants DEF WrongAreCounted
  <1>8. HashIsOfChosen'
    <2>1. e \notin crossed => row.password = chosen[e]
      BY <1>1, <1>2, <1>3, <1>4 DEF HashIsOfChosen, e
    <2> QED
      BY <1>1, <1>2, <1>6, <2>1 DEF HashIsOfChosen
  <1>9. LinksAreSpent'
    BY <1>1, <1>2, <1>4, <1>6 DEF LinksAreSpent
  <1> QED
    BY <1>6, <1>7, <1>8, <1>9 DEF AccessInv

LEMMA ChangePasswordKeeps ==
    ASSUME AccessInv, NEW r \in Requests, A!ChangePassword(r)
    PROVE  AccessInv'
  <1> DEFINE e == call[r].email
             row == [account[e] EXCEPT !.password = call[r].password, !.old = FALSE]
  <1>1. AccessShape /\ WrongAreCounted /\ HashIsOfChosen /\ LinksAreSpent /\ A!TypeOK
    BY DEF AccessInv, AccessShape
  <1>2. /\ call[r].at = "changing" /\ call' = [call EXCEPT ![r] = A!Idle]
        /\ chosen' = [chosen EXCEPT ![e] = call[r].password]
        /\ crossed' = crossed \union
              {d \in {e} : \E v \in Requests : call[v].at = "checking" /\ call[v].email = d
                                            /\ call[v].right /\ call[v].old}
        /\ UNCHANGED <<wrong, lost, links, used, linkUses>>
    BY DEF A!ChangePassword, A!At, A!Answered, A!UnchangedLinks
  <1>3. /\ e \in Emails /\ call[r].password \in Passwords /\ account[e] \in A!Rows
    <2>1. e \in Emails /\ call[r].password \in Passwords
      BY <1>1, <1>2, CallFacts DEF A!TypeOK
    <2>2. account[e].exists
      BY <1>1, <1>2 DEF AccessShape
    <2> QED
      BY <1>1, <2>1, <2>2, RowFacts
  <1>4. account' = [account EXCEPT ![e] = row]
    BY <1>1, <1>3 DEF A!ChangePassword, A!TypeOK
  <1>5. /\ row \in A!Rows /\ row.verified = account[e].verified /\ row.attempts = account[e].attempts
        /\ row.until = account[e].until /\ row.password = call[r].password
    BY <1>3 DEF A!Rows
  <1> HIDE DEF row, e
  <1>6. /\ chosen' \in [Emails -> Passwords] /\ chosen'[e] = call[r].password
        /\ \A d \in Emails \ {e} : chosen'[d] = chosen[d]
    BY <1>1, <1>2, <1>3 DEF A!TypeOK
  <1>7. /\ AccessShape' /\ account'[e] = row /\ row.exists
        /\ \A d \in Emails \ {e} : account'[d] = account[d]
        /\ \A v \in Requests : call'[v].at # "idle" => v # r /\ call'[v] = call[v]
    <2>1. /\ wrong' \in [Emails -> 0 .. MaxLoginAttempts] /\ lost' \subseteq Emails
          /\ crossed' \subseteq Emails /\ used' \subseteq 1 .. Len(links)
          /\ linkUses' \in [1 .. MaxLinks -> Nat]
      BY <1>1, <1>2, <1>3 DEF AccessShape, A!TypeOK
    <2> QED
      BY <1>1, <1>2, <1>3, <1>4, <1>5, <1>6, <2>1, RowWritten
  <1>8. account[e].exists
    BY <1>3 DEF A!Rows
  <1>9. WrongAreCounted'
    BY <1>1, <1>2, <1>3, <1>5, <1>7, <1>8 DEF WrongAreCounted
  <1>10. HashIsOfChosen'
    <2>1. \A v \in Requests :
             e \notin crossed' /\ call[v].at = "checking" /\ call[v].right /\ call[v].email = e => ~call[v].old
      BY <1>2
    <2> QED
      BY <1>1, <1>2, <1>5, <1>6, <1>7, <2>1 DEF HashIsOfChosen
  <1>11. LinksAreSpent'
    BY <1>1, <1>2, <1>5, <1>7, <1>8 DEF LinksAreSpent
  <1> QED
    BY <1>7, <1>9, <1>10, <1>11 DEF AccessInv

\* Rows change where no property looks, but for the locks, and no request moves.
LEMMA RowsChange ==
    ASSUME AccessInv, account' \in [Emails -> A!Rows \union {A!NoAccount}],
           wrong' \in [Emails -> 0 .. MaxLoginAttempts],
           \A e \in Emails :
              /\ account'[e].exists = account[e].exists
              /\ account[e].exists =>
                    /\ account'[e].password = account[e].password
                    /\ account'[e].verified = account[e].verified
                    /\ account'[e].attempts = account[e].attempts,
           \A e \in Emails :
              \/ wrong'[e] = 0
              \/ wrong'[e] = wrong[e]
                 /\ (account[e].exists /\ account[e].until > 0 => account'[e].until > 0),
           UNCHANGED <<call, links, used, chosen, lost, crossed, linkUses>>
    PROVE  AccessInv'
  <1>1. AccessShape /\ WrongAreCounted /\ HashIsOfChosen /\ LinksAreSpent /\ A!TypeOK
    BY DEF AccessInv, AccessShape
  <1>2. AccessShape'
    <2>1. A!TypeOK'
      BY <1>1 DEF A!TypeOK
    <2>2. \A v \in Requests : call[v].at \in {"checking", "changing", "verifying"} => call[v].email \in Emails
      BY <1>1, CallFacts DEF A!TypeOK
    <2> QED
      BY <1>1, <2>1, <2>2 DEF AccessShape
  <1>3. WrongAreCounted'
    <2> SUFFICES ASSUME NEW e \in Emails
                 PROVE  /\ wrong'[e] # 0 => account'[e].exists
                        /\ e \notin lost /\ account'[e].exists =>
                              /\ wrong'[e] <= account'[e].attempts
                              /\ wrong'[e] >= MaxLoginAttempts => account'[e].until > 0
      BY DEF WrongAreCounted
    <2>1. CASE wrong'[e] = 0
      <3>1. account'[e].exists => account'[e].attempts \in 0 .. MaxLoginAttempts
        <4>1. account'[e] \in A!Rows => account'[e].attempts \in 0 .. MaxLoginAttempts
          BY DEF A!Rows
        <4>2. account'[e] \in A!Rows \union {A!NoAccount}
          OBVIOUS
        <4> QED
          BY <4>1, <4>2, AccessConstants
      <3> QED
        BY <2>1, <3>1, AccessConstants
    <2>2. CASE wrong'[e] = wrong[e]
                 /\ (account[e].exists /\ account[e].until > 0 => account'[e].until > 0)
      BY <1>1, <2>2 DEF WrongAreCounted
    <2> QED
      BY <2>1, <2>2
  <1>4. HashIsOfChosen' /\ LinksAreSpent'
    BY <1>1 DEF HashIsOfChosen, LinksAreSpent
  <1> QED
    BY <1>2, <1>3, <1>4 DEF AccessInv

LEMMA ModerateKeeps ==
    ASSUME AccessInv, NEW e \in Emails, A!Moderate(e)
    PROVE  AccessInv'
  <1> DEFINE row == [account[e] EXCEPT !.active = ~@]
  <1>1. AccessShape /\ A!TypeOK
    BY DEF AccessInv, AccessShape
  <1>2. /\ account[e].exists /\ account' = [account EXCEPT ![e].active = ~@]
        /\ UNCHANGED <<call, links, used, chosen, wrong, lost, crossed, linkUses>>
    BY DEF A!Moderate, A!UnchangedLinks, A!UnchangedAccess
  <1>3. account[e] \in A!Rows
    BY <1>1, <1>2, RowFacts
  <1>4. /\ row \in A!Rows /\ row.exists = account[e].exists /\ row.password = account[e].password
        /\ row.verified = account[e].verified /\ row.attempts = account[e].attempts
        /\ row.until = account[e].until
    BY <1>3 DEF A!Rows
  <1>5. account' = [account EXCEPT ![e] = row]
    BY <1>1, <1>2 DEF A!TypeOK
  <1> HIDE DEF row
  <1>6. /\ account' \in [Emails -> A!Rows \union {A!NoAccount}] /\ account'[e] = row
        /\ \A d \in Emails \ {e} : account'[d] = account[d]
    BY <1>1, <1>4, <1>5 DEF A!TypeOK
  <1>7. wrong' \in [Emails -> 0 .. MaxLoginAttempts] /\ \A d \in Emails : wrong'[d] = wrong[d]
    BY <1>1, <1>2 DEF A!TypeOK
  <1>8. \A d \in Emails :
            /\ account'[d].exists = account[d].exists
            /\ account[d].exists =>
                  /\ account'[d].password = account[d].password
                  /\ account'[d].verified = account[d].verified
                  /\ account'[d].attempts = account[d].attempts
                  /\ account'[d].until = account[d].until
    BY <1>4, <1>6
  <1> QED
    BY <1>2, <1>6, <1>7, <1>8, RowsChange

LEMMA TickKeeps ==
    ASSUME AccessInv, A!Tick
    PROVE  AccessInv'
  <1> DEFINE Ticks(e) == account[e].exists /\ account[e].until > 0
             Row(e) == [account[e] EXCEPT !.until = @ - 1]
  <1>1. AccessShape /\ A!TypeOK /\ WrongAreCounted
    BY DEF AccessInv, AccessShape
  <1>2. /\ account' = [e \in Emails |-> IF Ticks(e) THEN Row(e) ELSE account[e]]
        /\ wrong' = [e \in Emails |-> IF account[e].exists /\ account[e].until = 1 THEN 0 ELSE wrong[e]]
        /\ UNCHANGED <<call, links, used, chosen, lost, crossed, linkUses>>
    BY DEF A!Tick, A!IsLocked, A!UnchangedLinks
  <1>3. ASSUME NEW e \in Emails, Ticks(e)
        PROVE  /\ Row(e) \in A!Rows /\ Row(e).exists = account[e].exists
               /\ Row(e).password = account[e].password
               /\ Row(e).verified = account[e].verified /\ Row(e).attempts = account[e].attempts
               /\ account[e].until # 1 => Row(e).until > 0
    <2>1. account[e] \in A!Rows
      BY <1>1, <1>3, RowFacts
    <2>2. account[e].until \in A!NoLock .. LockFor /\ account[e].until > 0
      BY <1>3, <2>1 DEF A!Rows
    <2>3. account[e].until \in Int /\ account[e].until - 1 \in A!NoLock .. LockFor
          /\ (account[e].until # 1 => account[e].until - 1 > 0)
      BY <2>2, AccessConstants DEF A!NoLock
    <2>4. Row(e) \in A!Rows /\ Row(e).until = account[e].until - 1
      BY <2>1, <2>3 DEF A!Rows
    <2>5. /\ Row(e).exists = account[e].exists /\ Row(e).password = account[e].password
          /\ Row(e).verified = account[e].verified /\ Row(e).attempts = account[e].attempts
      BY <2>1 DEF A!Rows
    <2> QED
      BY <2>3, <2>4, <2>5
  <1>4. account' \in [Emails -> A!Rows \union {A!NoAccount}]
    BY <1>1, <1>2, <1>3 DEF A!TypeOK
  <1>5. wrong' \in [Emails -> 0 .. MaxLoginAttempts]
    <2>1. \A e \in Emails : wrong'[e] \in 0 .. MaxLoginAttempts
      BY <1>1, <1>2, RowFacts, AccessConstants
    <2> QED
      BY <1>2, <2>1
  <1>6. ASSUME NEW e \in Emails
        PROVE  /\ account'[e].exists = account[e].exists
               /\ account[e].exists =>
                     /\ account'[e].password = account[e].password
                     /\ account'[e].verified = account[e].verified
                     /\ account'[e].attempts = account[e].attempts
    BY <1>2, <1>3
  <1>7. ASSUME NEW e \in Emails
        PROVE  \/ wrong'[e] = 0
               \/ wrong'[e] = wrong[e]
                  /\ (account[e].exists /\ account[e].until > 0 => account'[e].until > 0)
    BY <1>2, <1>3
  <1> QED
    BY <1>2, <1>4, <1>5, <1>6, <1>7, RowsChange

LEMMA ResendKeeps ==
    ASSUME AccessInv, NEW e \in Emails, A!Resend(e)
    PROVE  AccessInv'
  <1>1. AccessShape /\ WrongAreCounted /\ HashIsOfChosen /\ LinksAreSpent /\ A!TypeOK /\ links \in Seq(Emails)
        /\ MaxLinks \in Nat
    BY AccessConstants DEF AccessInv, AccessShape, A!TypeOK
  <1>2. /\ Len(links) < MaxLinks /\ links' = Append(links, e)
        /\ UNCHANGED <<account, used, call, chosen, wrong, lost, crossed, linkUses>>
    BY DEF A!Resend, A!UnchangedAccess
  <1>3. /\ links' \in Seq(Emails) /\ Len(links') = Len(links) + 1 /\ Len(links) \in Nat
        /\ \A n \in 1 .. Len(links) : links'[n] = links[n] /\ n \in 1 .. Len(links')
    BY <1>1, <1>2
  <1>4. AccessShape'
    <2>1. A!TypeOK'
      BY <1>1, <1>2, <1>3 DEF A!TypeOK
    <2>2. used \subseteq 1 .. Len(links')
      BY <1>1, <1>3 DEF AccessShape
    <2> QED
      BY <1>1, <1>2, <1>3, <2>1, <2>2 DEF AccessShape
  <1>5. WrongAreCounted' /\ HashIsOfChosen'
    BY <1>1, <1>2 DEF WrongAreCounted, HashIsOfChosen
  <1>6. LinksAreSpent'
    <2>1. \A n \in used : links'[n] = links[n]
      BY <1>1, <1>3 DEF AccessShape
    <2> QED
      BY <1>1, <1>2, <2>1 DEF LinksAreSpent
  <1> QED
    BY <1>4, <1>5, <1>6 DEF AccessInv

LEMMA VerifyKeeps ==
    ASSUME AccessInv, NEW r \in Requests, A!Verify(r)
    PROVE  AccessInv'
  <1> DEFINE e == call[r].email
             n == call[r].link
             row == [account[e] EXCEPT !.verified = TRUE]
  <1>1. AccessShape /\ WrongAreCounted /\ HashIsOfChosen /\ LinksAreSpent /\ A!TypeOK
    BY DEF AccessInv, AccessShape
  <1>2. /\ call[r].at = "verifying" /\ call' = [call EXCEPT ![r] = A!Idle]
        /\ UNCHANGED <<links, chosen, wrong, lost, crossed>>
    BY DEF A!Verify, A!At, A!Answered, A!UnchangedAccess
  <1>3. e \in Emails /\ n \in 1 .. Len(links) /\ n \in 1 .. MaxLinks /\ e = links[n] /\ account[e] \in A!Rows
    <2>1. e \in Emails /\ n \in 1 .. MaxLinks
      BY <1>1, <1>2, CallFacts DEF A!TypeOK
    <2>2. account[e].exists
      BY <1>1, <1>2 DEF AccessShape
    <2> QED
      BY <1>1, <1>2, <2>1, <2>2, RowFacts DEF AccessShape
  <1>4. CASE n \in used
    <2>1. UNCHANGED <<account, used, linkUses>>
      BY <1>4 DEF A!Verify, A!Unused
    <2> QED
      BY <1>2, <2>1, LeaveCallKeeps
  <1>5. CASE n \notin used
    <2>1. /\ used' = used \union {n} /\ linkUses' = [linkUses EXCEPT ![n] = @ + 1]
          /\ account' = [account EXCEPT ![e].verified = TRUE]
      BY <1>5 DEF A!Verify, A!Unused
    <2>2. account' = [account EXCEPT ![e] = row]
      BY <1>1, <1>3, <2>1 DEF A!TypeOK
    <2>3. /\ row \in A!Rows /\ row.password = account[e].password /\ row.attempts = account[e].attempts
          /\ row.until = account[e].until /\ account[e].exists
      BY <1>3 DEF A!Rows
    <2> HIDE DEF row, e, n
    <2>4. linkUses[n] = 0
      BY <1>1, <1>3, <1>5 DEF LinksAreSpent
    <2>5. /\ linkUses' \in [1 .. MaxLinks -> Nat] /\ linkUses'[n] = 1
          /\ \A m \in 1 .. MaxLinks : m # n => linkUses'[m] = linkUses[m]
      BY <1>1, <1>3, <2>1, <2>4 DEF A!TypeOK
    <2>6. /\ AccessShape' /\ account'[e] = row /\ row.exists
          /\ \A d \in Emails \ {e} : account'[d] = account[d]
          /\ \A v \in Requests : call'[v].at # "idle" => v # r /\ call'[v] = call[v]
      <3>1. /\ wrong' \in [Emails -> 0 .. MaxLoginAttempts] /\ lost' \subseteq Emails
            /\ crossed' \subseteq Emails /\ used' \subseteq 1 .. Len(links)
            /\ chosen' \in [Emails -> Passwords] /\ links' = links
        BY <1>1, <1>2, <1>3, <2>1 DEF AccessShape, A!TypeOK
      <3>2. AccessShape /\ e \in Emails /\ row \in A!Rows /\ call' = [call EXCEPT ![r] = A!Idle]
            /\ linkUses' \in [1 .. MaxLinks -> Nat]
        BY <1>1, <1>2, <1>3, <2>3, <2>5
      <3> QED
        BY <2>2, <3>1, <3>2, RowWritten
    <2>7. WrongAreCounted'
      BY <1>1, <1>2, <1>3, <2>3, <2>6 DEF WrongAreCounted
    <2>8. HashIsOfChosen'
      BY <1>1, <1>2, <1>3, <2>3, <2>6 DEF HashIsOfChosen
    <2>9. LinksAreSpent'
      BY <1>1, <1>2, <1>3, <2>1, <2>5, <2>6 DEF LinksAreSpent
    <2> QED
      BY <2>6, <2>7, <2>8, <2>9 DEF AccessInv
  <1> QED
    BY <1>4, <1>5

LEMMA AccessStep == AccessInv /\ [A!Next]_accounts => AccessInv'
  <1> SUFFICES ASSUME AccessInv, [A!Next]_accounts PROVE AccessInv'
    OBVIOUS
  <1>1. ASSUME NEW r \in Requests, NEW e \in Emails, NEW p \in Passwords,
               A!ReadForRegister(r, e, p) \/ A!ReadForLogin(r, e, p) \/ A!ReadForChange(r, e, p)
        PROVE  AccessInv'
    BY <1>1, ReadsKeep
  <1>2. ASSUME NEW r \in Requests,
               \/ A!Insert(r) \/ A!WrongPassword(r) \/ A!RightPassword(r) \/ A!ChangePassword(r)
               \/ A!Verify(r)
        PROVE  AccessInv'
    BY <1>2, InsertKeeps, WrongPasswordKeeps, RightLoginKeeps, ChangePasswordKeeps, VerifyKeeps
  <1>3. ASSUME NEW r \in Requests, A!Leave(r) PROVE AccessInv'
    BY <1>3, LeaveCallKeeps DEF A!Leave, A!Answered, A!UnchangedLinks, A!UnchangedAccess
  <1>4. ASSUME NEW r \in Requests, NEW n \in 1 .. Len(links), A!ReadForVerify(r, n) PROVE AccessInv'
    BY <1>4, ReadForVerifyKeeps
  <1>5. CASE UNCHANGED accounts
    BY <1>5 DEF accounts, AccessInv, AccessShape, A!TypeOK, WrongAreCounted, HashIsOfChosen, LinksAreSpent
  <1> QED
    BY <1>1, <1>2, <1>3, <1>4, <1>5, ModerateKeeps, ResendKeeps, TickKeeps DEF A!Next

LEMMA AccessHolds == SideSpec => []AccessInv
  <1>1. SideInit => AccessInv
    BY InitAccess DEF SideInit
  <1>2. AccessInv /\ [SideNext]_<<side, others>> => AccessInv'
    <2>1. [SideNext]_<<side, others>> => [A!Next]_accounts
      BY DEF SideNext, others
    <2> QED
      BY <2>1, AccessStep
  <1> QED
    BY <1>1, <1>2, PTL DEF SideSpec

\* Too many wrong passwords lock an account, and the upgrade of a hash does not
\* undo a change of the password (login).
THEOREM CredentialsHold == SideSpec => []CredentialsStand
  <1>1. AccessInv => CredentialsStand
    <2> SUFFICES ASSUME AccessInv PROVE A!GuessesAreBounded /\ A!PasswordStands
      BY DEF CredentialsStand
    <2>1. A!GuessesAreBounded
      <3> SUFFICES ASSUME NEW e \in Emails \ lost, wrong[e] >= MaxLoginAttempts
                   PROVE  account[e].exists /\ account[e].until > 0
        BY DEF A!GuessesAreBounded, A!IsLocked
      <3>1. wrong[e] # 0
        BY AccessConstants, RowFacts DEF AccessInv
      <3> QED
        BY <3>1 DEF AccessInv, WrongAreCounted
    <2>2. A!PasswordStands
      BY DEF AccessInv, HashIsOfChosen, A!PasswordStands
    <2> QED
      BY <2>1, <2>2
  <1> QED
    BY <1>1, AccessHolds, PTL

\* "Single-use": a refresh token, a challenge and a verification link are each good
\* for one use (RefreshTokenRepository.consume, complete_mfa_login, verify_email).
THEOREM SingleUseHolds == SideSpec => []SingleUse
  <1>1. SessionInv /\ AccessInv => SingleUse
    BY DEF SessionInv, SpentIsOnes, AccessInv, LinksAreSpent, SingleUse, S!OneSuccessor, A!LinksAreGoodOnce
  <1> QED
    BY <1>1, SessionsHold, AccessHolds, PTL

=============================================================================
