------------------------ MODULE ContentProofs ------------------------
(***************************************************************************)
(* Proofs about what viewers meet: the limit on playback sessions,         *)
(* manifests and reports, and the titles as they are edited, counted,      *)
(* recommended and searched; for every number of them and of the requests. *)
(***************************************************************************)
EXTENDS MCContent, Sums, FiniteSetTheorems, TLAPS

HasLock(w) == tx[w].step = "counted"

\* The advisory lock of a user is exclusive.
LockInv ==
    \A v, w \in Requests : v # w /\ HasLock(v) /\ HasLock(w) => User(v) # User(w)

\* What a request has counted is still so: nobody else writes the sessions of
\* its user.
CountInv ==
    \A w \in Requests, u \in Users : HasLock(w) /\ User(w) = u =>
        /\ tx[w].reaped \subseteq IdleOf(u)
        /\ tx[w].count = Cardinality(ActiveOf(u) \ tx[w].reaped)

\* The session a request is about to start does not exist, and is no other's.
FreshInv ==
    \A w \in Requests : tx[w].step # "closed" /\ tx[w].kind = "start" =>
        /\ status[tx[w].session] = "none"
        /\ \A v \in Requests : v # w => tx[v].session # tx[w].session

Inv == TypeOK /\ LockInv /\ CountInv /\ FreshInv /\ WithinLimit

-----------------------------------------------------------------------------
(* Records and sets *)

LEMMA ClosedFacts ==
    /\ Closed.step = "closed" /\ Closed.session = NoSession /\ Closed.reaped = {}
    /\ Closed \notin Transactions
  BY DEF Closed, Transactions

LEMMA OpenIsTransaction ==
    ASSUME TypeOK, NEW w \in Requests, tx[w].step # "closed"
    PROVE  tx[w] \in Transactions /\ User(w) \in Users
  BY ClosedFacts, PlaybackAssumption DEF TypeOK, User, Transactions

LEMMA OpenedFacts ==
    ASSUME TypeOK, NEW k \in {"start", "update", "end"}, NEW s \in Sessions, NEW wish \in Wishes
    PROVE  /\ Opened(k, s, wish) \in Transactions
           /\ Opened(k, s, wish).step = "waiting" /\ Opened(k, s, wish).kind = k
           /\ Opened(k, s, wish).session = s
  BY DEF Opened, Closed, Transactions, TypeOK

LEMMA Finite ==
    ASSUME NEW S \in SUBSET Sessions
    PROVE  IsFiniteSet(S) /\ Cardinality(S) \in Nat
  BY PlaybackAssumption, FS_Subset, FS_CardinalityType

LEMMA ActiveSubset ==
    ASSUME NEW u
    PROVE  ActiveOf(u) \in SUBSET Sessions /\ IdleOf(u) \subseteq ActiveOf(u)
  BY DEF ActiveOf, IdleOf

-----------------------------------------------------------------------------
(* Writes *)

\* A request that ends the sessions S of its user, and writes its own session,
\* does not touch the sessions of another user.
LEMMA OtherUsers ==
    ASSUME NEW w \in Requests, NEW u, tx[w] \in Transactions, User(w) # u,
           NEW S \in SUBSET ActiveOf(User(w)),
           \A t \in Sessions \ {tx[w].session} :
               status'[t] = Ended(S)[t] /\ touched'[t] = touched[t],
           now' = now
    PROVE  ActiveOf(u)' = ActiveOf(u) /\ IdleOf(u)' = IdleOf(u)
  <1>1. \A t \in Sessions : UserOf[t] = u => status'[t] = status[t] /\ touched'[t] = touched[t]
    BY DEF Ended, ActiveOf, User, Transactions
  <1> QED
    BY <1>1 DEF ActiveOf, IdleOf

\* Of the sessions of its own user, those outside S stay as they are.
LEMMA ThisUser ==
    ASSUME NEW w \in Requests, NEW u, tx[w] \in Transactions, User(w) = u,
           NEW S \in SUBSET ActiveOf(u),
           \A t \in Sessions \ {tx[w].session} : status'[t] = Ended(S)[t]
    PROVE  /\ ActiveOf(u)' \subseteq (ActiveOf(u) \ S) \union {tx[w].session}
           /\ status'[tx[w].session] # "active" => ActiveOf(u)' \subseteq ActiveOf(u) \ S
  BY DEF Ended, ActiveOf, User, Transactions

\* What is true of the other requests when w commits its writes.
LEMMA CommitKeepsOthers ==
    ASSUME Inv, NEW w \in Requests, HasLock(w),
           NEW S \in SUBSET ActiveOf(User(w)),
           \A t \in Sessions \ {tx[w].session} :
               status'[t] = Ended(S)[t] /\ touched'[t] = touched[t],
           tx' = [tx EXCEPT ![w] = Closed],
           now' = now
    PROVE  LockInv' /\ CountInv' /\ FreshInv'
  <1>1. tx[w] \in Transactions
    BY OpenIsTransaction DEF HasLock, Inv
  <1>2. \A v \in Requests : v # w => tx'[v] = tx[v] /\ User(v)' = User(v)
    BY DEF Inv, TypeOK, User
  <1>3. tx'[w] = Closed /\ ~HasLock(w)'
    BY ClosedFacts DEF Inv, TypeOK, HasLock
  <1>4. LockInv'
    BY <1>2, <1>3 DEF Inv, LockInv, HasLock
  <1>5. CountInv'
    <2> SUFFICES ASSUME NEW v \in Requests, NEW u \in Users, HasLock(v)', User(v)' = u
                 PROVE  /\ tx'[v].reaped \subseteq IdleOf(u)'
                        /\ tx'[v].count = Cardinality(ActiveOf(u)' \ tx'[v].reaped)
      BY DEF CountInv
    <2>1. v # w /\ HasLock(v) /\ User(v) = u
      BY <1>2, <1>3 DEF HasLock
    <2>2. User(w) # u
      BY <2>1 DEF Inv, LockInv
    <2>3. ActiveOf(u)' = ActiveOf(u) /\ IdleOf(u)' = IdleOf(u)
      BY <1>1, <2>2, OtherUsers
    <2> QED
      BY <1>2, <2>1, <2>3 DEF Inv, CountInv
  <1>6. FreshInv'
    <2> SUFFICES ASSUME NEW v \in Requests, tx'[v].step # "closed", tx'[v].kind = "start"
                 PROVE  /\ status'[tx'[v].session] = "none"
                        /\ \A z \in Requests : z # v => tx'[z].session # tx'[v].session
      BY DEF FreshInv
    <2>1. v # w /\ tx'[v] = tx[v]
      BY <1>2, <1>3, ClosedFacts
    <2>2. tx[v] \in Transactions /\ tx[v].session # tx[w].session
      BY <2>1, OpenIsTransaction DEF Inv, FreshInv
    <2>3. status[tx[v].session] = "none"
      BY <2>1 DEF Inv, FreshInv
    <2>4. status'[tx[v].session] = "none"
      BY <2>2, <2>3 DEF Ended, ActiveOf, Transactions
    <2>5. tx[v].session # NoSession
      BY <2>2, PlaybackAssumption DEF Transactions
    <2>6. \A z \in Requests : z # v => tx'[z].session # tx[v].session
      BY <2>1, <2>5, <1>2, <1>3, ClosedFacts DEF Inv, FreshInv
    <2> QED
      BY <2>1, <2>4, <2>6
  <1> QED
    BY <1>4, <1>5, <1>6

-----------------------------------------------------------------------------
(* Type correctness *)

LEMMA CommitType ==
    ASSUME TypeOK, NEW w \in Requests, tx[w] \in Transactions,
           NEW newStatus \in [Sessions -> Statuses], NEW newTouched \in [Sessions -> Nat],
           Commit(w, newStatus, newTouched)
    PROVE  TypeOK'
  BY DEF TypeOK, Commit

LEMMA EndedType ==
    ASSUME TypeOK, NEW S, NEW s \in Sessions, NEW x \in Statuses, NEW stamp \in Nat
    PROVE  /\ Ended(S) \in [Sessions -> Statuses]
           /\ [Ended(S) EXCEPT ![s] = x] \in [Sessions -> Statuses]
           /\ [touched EXCEPT ![s] = stamp] \in [Sessions -> Nat]
  BY DEF TypeOK, Ended, Statuses, Terminal

LEMMA TypeStep == TypeOK /\ [Next]_vars => TypeOK'
  <1> SUFFICES ASSUME TypeOK, [Next]_vars
               PROVE  TypeOK'
    OBVIOUS
  <1> USE DEF TypeOK
  <1>1. ASSUME NEW w \in Requests, NEW s \in Sessions, Start(w, s)
        PROVE  TypeOK'
    BY <1>1, OpenedFacts DEF Start, Wishes
  <1>2. ASSUME NEW w \in Requests, NEW s \in Sessions, NEW kind \in {"update", "end"},
               NEW wish \in Wishes, Request(w, s, kind, wish)
        PROVE  TypeOK'
    BY <1>2, OpenedFacts DEF Request
  <1>3. ASSUME NEW w \in Requests, Count(w)
        PROVE  TypeOK'
    <2>1. tx[w] \in Transactions
      BY <1>3, OpenIsTransaction DEF Count
    <2> DEFINE idle == IdleOf(User(w))
               n == Cardinality(ActiveOf(User(w)) \ idle)
    <2>2. idle \in SUBSET Sessions /\ n \in Nat
      BY ActiveSubset, Finite
    <2> HIDE DEF idle, n
    <2>3. tx' = [tx EXCEPT ![w] = [tx[w] EXCEPT !.step = "counted", !.reaped = idle, !.count = n]]
      BY <1>3 DEF Count, idle, n
    <2>4. [tx[w] EXCEPT !.step = "counted", !.reaped = idle, !.count = n] \in Transactions
      BY <2>1, <2>2 DEF Transactions
    <2> QED
      BY <1>3, <2>3, <2>4 DEF Count
  <1>4. ASSUME NEW w \in Requests, Admit(w)
        PROVE  TypeOK'
    <2>1. tx[w] \in Transactions /\ tx[w].session \in Sessions
      BY <1>4, OpenIsTransaction DEF Admit, Counted, Transactions
    <2>2. now \in Nat /\ "active" \in Statuses
      BY PlaybackAssumption DEF Statuses
    <2> QED
      BY <1>4, <2>1, <2>2, EndedType, CommitType DEF Admit
  <1>5. ASSUME NEW w \in Requests, Replace(w)
        PROVE  TypeOK'
    <2>1. tx[w] \in Transactions /\ tx[w].session \in Sessions
      BY <1>5, OpenIsTransaction DEF Replace, Counted, Transactions
    <2>2. now \in Nat /\ "active" \in Statuses
      BY PlaybackAssumption DEF Statuses
    <2> QED
      BY <1>5, <2>1, <2>2, EndedType, CommitType DEF Replace
  <1>6. ASSUME NEW w \in Requests, AlreadyEnded(w)
        PROVE  TypeOK'
    <2>1. tx[w] \in Transactions /\ tx[w].session \in Sessions
      BY <1>6, OpenIsTransaction DEF AlreadyEnded, Counted, Transactions
    <2> QED
      BY <1>6, <2>1, EndedType, CommitType DEF AlreadyEnded, Statuses
  <1>7. ASSUME NEW w \in Requests, Change(w)
        PROVE  TypeOK'
    <2>1. tx[w] \in Transactions /\ tx[w].session \in Sessions
      BY <1>7, OpenIsTransaction DEF Change, Transactions
    <2>2. Written(w) \in Statuses
      BY <2>1 DEF Written, Refreshed, Transactions, Wishes, Statuses, Terminal
    <2>3. PICK stamp \in {now} \union {t \in {touched[tx[w].session]} :
                                         Written(w) = status[tx[w].session]} :
             Commit(w, [Ended(tx[w].reaped) EXCEPT ![tx[w].session] = Written(w)],
                    [touched EXCEPT ![tx[w].session] = stamp])
      BY <1>7 DEF Change
    <2>4. stamp \in Nat
      BY <2>1, PlaybackAssumption
    <2> QED
      BY <2>1, <2>2, <2>3, <2>4, EndedType, CommitType
  <1>8. ASSUME NEW w \in Requests, Rollback(w)
        PROVE  TypeOK'
    BY <1>8 DEF Rollback
  <1>9. CASE Tick
    BY <1>9, PlaybackAssumption DEF Tick
  <1>10. CASE UNCHANGED vars
    BY <1>10 DEF vars
  <1> QED
    BY <1>1, <1>2, <1>3, <1>4, <1>5, <1>6, <1>7, <1>8, <1>9, <1>10
       DEF Next, Refuse, Abort, Wishes

\* Type correctness.
THEOREM TypeCorrect == Spec => []TypeOK
  <1>1. Init => TypeOK
    BY PlaybackAssumption DEF Init, TypeOK, Statuses
  <1> QED
    BY <1>1, TypeStep, PTL DEF Spec

-----------------------------------------------------------------------------
(* The limit *)

\* Removing elements leaves no more, and one more makes at most one more.
LEMMA Fewer ==
    ASSUME NEW S \in SUBSET Sessions, NEW T \in SUBSET S
    PROVE  Cardinality(T) <= Cardinality(S)
  BY Finite, FS_Subset

LEMMA OneMore ==
    ASSUME NEW S \in SUBSET Sessions, NEW s \in Sessions, NEW T \in SUBSET (S \union {s})
    PROVE  Cardinality(T) <= Cardinality(S) + 1
  <1>1. S \union {s} \in SUBSET Sessions
    OBVIOUS
  <1>2. Cardinality(S \union {s}) <= Cardinality(S) + 1
    BY Finite, FS_AddElement
  <1>3. Cardinality(T) <= Cardinality(S \union {s})
    BY <1>1, Fewer
  <1>4. Cardinality(T) \in Nat /\ Cardinality(S) \in Nat /\ Cardinality(S \union {s}) \in Nat
    BY <1>1, Finite
  <1> QED
    BY <1>2, <1>3, <1>4

\* A request that commits keeps the limit if it leaves its user room for what
\* it makes active.
LEMMA CommitKeepsLimit ==
    ASSUME Inv, NEW w \in Requests, HasLock(w),
           NEW S \in SUBSET ActiveOf(User(w)),
           \A t \in Sessions \ {tx[w].session} :
               status'[t] = Ended(S)[t] /\ touched'[t] = touched[t],
           now' = now,
           \/ Cardinality(ActiveOf(User(w)) \ S) < MaxActive
           \/ status'[tx[w].session] # "active"
           \/ status[tx[w].session] = "active"
    PROVE  WithinLimit'
  <1>1. tx[w] \in Transactions /\ tx[w].session \in Sessions
    BY OpenIsTransaction DEF HasLock, Inv, Transactions
  <1> SUFFICES ASSUME NEW u \in Users
               PROVE  Cardinality(ActiveOf(u)') <= MaxActive
    BY DEF WithinLimit
  <1>2. Cardinality(ActiveOf(u)) <= MaxActive
    BY DEF Inv, WithinLimit
  <1>3. CASE User(w) # u
    BY <1>1, <1>2, <1>3, OtherUsers
  <1>4. CASE User(w) = u
    <2> DEFINE s == tx[w].session
               Kept == ActiveOf(u) \ S
    <2>1. /\ ActiveOf(u)' \subseteq Kept \union {s}
          /\ status'[s] # "active" => ActiveOf(u)' \subseteq Kept
      BY <1>1, <1>4, ThisUser
    <2>2. Kept \in SUBSET ActiveOf(u) /\ ActiveOf(u) \in SUBSET Sessions
      BY ActiveSubset
    <2>3. Cardinality(Kept) \in Nat /\ Cardinality(ActiveOf(u)) \in Nat /\ MaxActive \in Nat
      BY <2>2, Finite, PlaybackAssumption
    <2>4. ActiveOf(u)' \in SUBSET Sessions /\ Cardinality(ActiveOf(u)') \in Nat
      <3>1. ActiveOf(u)' \in SUBSET Sessions
        BY DEF ActiveOf
      <3> QED
        BY <3>1, Finite
    <2>5. CASE Cardinality(Kept) < MaxActive
      <3>1. Cardinality(ActiveOf(u)') <= Cardinality(Kept) + 1
        BY <1>1, <2>1, <2>2, OneMore
      <3> QED
        BY <2>3, <2>4, <2>5, <3>1
    <2>6. CASE status'[s] # "active" \/ status[s] = "active"
      <3>1. ActiveOf(u)' \in SUBSET ActiveOf(u)
        BY <1>1, <1>4, <2>1, <2>2, <2>6 DEF ActiveOf, User
      <3>2. Cardinality(ActiveOf(u)') <= Cardinality(ActiveOf(u))
        BY <2>2, <3>1, Fewer
      <3> QED
        BY <1>2, <2>3, <2>4, <3>2
    <2> QED
      BY <1>4, <2>5, <2>6
  <1> QED
    BY <1>3, <1>4

\* w commits: it ends the sessions S of its user and writes its own, which it
\* does not make active without room, nor takes out of a terminal status.
Writes(w, S) ==
    /\ HasLock(w)
    /\ S \in SUBSET ActiveOf(User(w))
    /\ \A t \in Sessions \ {tx[w].session} :
           status'[t] = Ended(S)[t] /\ touched'[t] = touched[t]
    /\ tx' = [tx EXCEPT ![w] = Closed]
    /\ now' = now
    /\ \/ Cardinality(ActiveOf(User(w)) \ S) < MaxActive
       \/ status'[tx[w].session] # "active"
       \/ status[tx[w].session] = "active"
    /\ status[tx[w].session] \in Terminal => status'[tx[w].session] = status[tx[w].session]

\* What a request knows once it has the lock.
LEMMA Holder ==
    ASSUME Inv, NEW w \in Requests, HasLock(w)
    PROVE  /\ tx[w] \in Transactions /\ tx[w].session \in Sessions /\ User(w) \in Users
           /\ tx[w].reaped \subseteq IdleOf(User(w))
           /\ tx[w].reaped \in SUBSET ActiveOf(User(w))
           /\ tx[w].count = Cardinality(ActiveOf(User(w)) \ tx[w].reaped)
           /\ tx[w].kind = "start" => status[tx[w].session] = "none"
  <1>1. tx[w] \in Transactions /\ tx[w].session \in Sessions /\ User(w) \in Users
    BY OpenIsTransaction DEF Inv, HasLock, Transactions
  <1>2. /\ tx[w].reaped \subseteq IdleOf(User(w))
        /\ tx[w].count = Cardinality(ActiveOf(User(w)) \ tx[w].reaped)
    BY <1>1 DEF Inv, CountInv
  <1> QED
    BY <1>1, <1>2, ActiveSubset DEF Inv, FreshInv, HasLock

LEMMA AdmitWrites ==
    ASSUME Inv, NEW w \in Requests, Admit(w)
    PROVE  Writes(w, tx[w].reaped)
  <1>1. HasLock(w) /\ tx[w].kind = "start"
    BY DEF Admit, Counted, HasLock
  <1> DEFINE s == tx[w].session
  <1>2. status' = [Ended(tx[w].reaped) EXCEPT ![s] = "active"] /\ touched' = [touched EXCEPT ![s] = now]
    BY DEF Admit, Commit
  <1>3. status[s] \notin Terminal
    BY <1>1, Holder DEF Terminal
  <1> QED
    BY <1>1, <1>2, <1>3, Holder DEF Admit, Commit, Writes, Inv, TypeOK, Ended

LEMMA ReplaceWrites ==
    ASSUME Inv, NEW w \in Requests, Replace(w)
    PROVE  \E o \in Oldest(w) : Writes(w, tx[w].reaped \union IdleOf(User(w)) \union {o})
  <1>1. HasLock(w) /\ tx[w].kind = "start"
    BY DEF Replace, Counted, HasLock
  <1> DEFINE s == tx[w].session
             active == ActiveOf(User(w))
  <1>2. PICK o \in Oldest(w) :
           Commit(w, [Ended(tx[w].reaped \union IdleOf(User(w)) \union {o}) EXCEPT ![s] = "active"],
                  [touched EXCEPT ![s] = now])
    BY DEF Replace
  <1> DEFINE S == tx[w].reaped \union IdleOf(User(w)) \union {o}
  <1>3. o \in active /\ S \in SUBSET active
    BY <1>1, Holder, ActiveSubset DEF Oldest
  <1>4. Cardinality(active \ S) < MaxActive
    <2>1. Cardinality(active \ {o}) = Cardinality(active) - 1
      BY <1>3, ActiveSubset, Finite, FS_RemoveElement
    <2>2. active \ {o} \in SUBSET Sessions /\ active \ S \in SUBSET (active \ {o})
      BY ActiveSubset
    <2>3. Cardinality(active \ S) <= Cardinality(active \ {o})
      BY <2>2, Fewer
    <2>4. Cardinality(active) <= MaxActive
      BY <1>1, Holder DEF Inv, WithinLimit
    <2>5. Cardinality(active \ S) \in Nat /\ Cardinality(active) \in Nat /\ MaxActive \in Nat
      BY <2>2, ActiveSubset, Finite, PlaybackAssumption
    <2> QED
      BY <2>1, <2>3, <2>4, <2>5
  <1>5. status[s] \notin Terminal
    BY <1>1, Holder DEF Terminal
  <1>6. \A t \in Sessions \ {s} : status'[t] = Ended(S)[t] /\ touched'[t] = touched[t]
    BY <1>2 DEF Commit, Ended, Inv, TypeOK
  <1> QED
    BY <1>1, <1>2, <1>3, <1>4, <1>5, <1>6 DEF Commit, Writes

LEMMA AlreadyEndedWrites ==
    ASSUME Inv, NEW w \in Requests, AlreadyEnded(w)
    PROVE  Writes(w, tx[w].reaped)
  <1>1. HasLock(w)
    BY DEF AlreadyEnded, Counted, HasLock
  <1> DEFINE s == tx[w].session
  <1>2. status' = Ended(tx[w].reaped) /\ touched' = touched
    BY DEF AlreadyEnded, Commit
  <1>3. status'[s] # "active" /\ (status[s] \in Terminal => status'[s] = status[s])
    BY <1>1, <1>2, Holder DEF AlreadyEnded, Ended, Refreshed, Terminal, ActiveOf
  <1> QED
    BY <1>1, <1>2, <1>3, Holder DEF AlreadyEnded, Commit, Writes

LEMMA ChangeWrites ==
    ASSUME Inv, NEW w \in Requests, Change(w)
    PROVE  Writes(w, tx[w].reaped)
  <1>1. HasLock(w)
    BY DEF Change, HasLock
  <1> DEFINE s == tx[w].session
  <1>2. /\ status' = [Ended(tx[w].reaped) EXCEPT ![s] = Written(w)]
        /\ \E stamp : touched' = [touched EXCEPT ![s] = stamp]
        /\ tx' = [tx EXCEPT ![w] = Closed] /\ now' = now
    BY DEF Change, Commit
  <1>3. s \notin tx[w].reaped /\ Refreshed(w) = status[s] /\ status[s] \notin Terminal
    BY DEF Change, Refreshed, Terminal
  <1>4. status'[s] = Written(w)
    BY <1>1, <1>2, Holder DEF Ended
  <1>5. Written(w) = "active" /\ status[s] # "active" =>
           Cardinality(ActiveOf(User(w)) \ tx[w].reaped) < MaxActive
    BY <1>1, <1>3, Holder DEF Change, Written, Resumes, Transactions
  <1> QED
    BY <1>1, <1>2, <1>3, <1>4, <1>5, Holder DEF Writes, Ended, Inv, TypeOK

-----------------------------------------------------------------------------
(* The invariant *)

LEMMA WritesKeepInv ==
    ASSUME Inv, TypeOK', NEW w \in Requests, NEW S, Writes(w, S)
    PROVE  Inv'
  BY CommitKeepsOthers, CommitKeepsLimit DEF Inv, Writes

LEMMA InvStep == Inv /\ [Next]_vars => Inv'
  <1> SUFFICES ASSUME Inv, [Next]_vars
               PROVE  Inv'
    OBVIOUS
  <1>1. TypeOK'
    BY TypeStep DEF Inv
  <1>2. ASSUME NEW w \in Requests, NEW s \in Sessions, NEW kind \in {"start", "update", "end"},
               NEW wish \in Wishes, tx[w] = Closed,
               tx' = [tx EXCEPT ![w] = Opened(kind, s, wish)],
               UNCHANGED <<status, touched, now>>,
               IF kind = "start" THEN status[s] = "none" /\ \A v \in Requests : tx[v].session # s
               ELSE status[s] # "none"
        PROVE  Inv'
    <2>1. \A v \in Requests : v # w => tx'[v] = tx[v]
      BY <1>2 DEF Inv, TypeOK
    <2>2. /\ tx'[w].step = "waiting" /\ tx'[w].kind = kind /\ tx'[w].session = s
          /\ ~HasLock(w)'
      BY <1>2, OpenedFacts DEF Inv, TypeOK, HasLock
    <2>3. LockInv'
      BY <2>1, <2>2 DEF Inv, LockInv, HasLock, User
    <2>4. CountInv'
      BY <1>2, <2>1, <2>2 DEF Inv, CountInv, HasLock, User, IdleOf, ActiveOf
    <2>5. FreshInv'
      BY <1>2, <2>1, <2>2, ClosedFacts DEF Inv, FreshInv
    <2>6. WithinLimit'
      BY <1>2 DEF Inv, WithinLimit, ActiveOf
    <2> QED
      BY <1>1, <2>3, <2>4, <2>5, <2>6 DEF Inv
  <1>3. ASSUME NEW w \in Requests, Count(w)
        PROVE  Inv'
    <2>1. /\ \A v \in Requests : v # w => tx'[v] = tx[v]
          /\ UNCHANGED <<status, touched, now>>
      BY <1>3 DEF Inv, TypeOK, Count
    <2>2. tx[w] \in Transactions
      BY <1>3, OpenIsTransaction DEF Count, Inv
    <2> DEFINE u == User(w)
    <2>3. /\ tx'[w].step = "counted" /\ tx'[w].kind = tx[w].kind
          /\ tx'[w].session = tx[w].session
          /\ tx'[w].reaped = IdleOf(u)
          /\ tx'[w].count = Cardinality(ActiveOf(u) \ IdleOf(u))
      BY <1>3, <2>2 DEF Count, Transactions, Inv, TypeOK
    <2>4. \A v \in Requests : v # w /\ HasLock(v) => User(v) # u
      BY <1>3 DEF Count, LockFree, HasLock
    <2>5. \A v \in Requests : User(v)' = User(v) /\ (v # w => (HasLock(v)' <=> HasLock(v)))
      BY <2>1, <2>3 DEF User, HasLock
    <2>6. LockInv'
      BY <2>4, <2>5 DEF Inv, LockInv
    <2>7. \A x \in Users : ActiveOf(x)' = ActiveOf(x) /\ IdleOf(x)' = IdleOf(x)
      BY <2>1 DEF ActiveOf, IdleOf
    <2>8. CountInv'
      <3> SUFFICES ASSUME NEW v \in Requests, NEW x \in Users, HasLock(v)', User(v)' = x
                   PROVE  /\ tx'[v].reaped \subseteq IdleOf(x)'
                          /\ tx'[v].count = Cardinality(ActiveOf(x)' \ tx'[v].reaped)
        BY DEF CountInv
      <3>1. CASE v = w
        BY <3>1, <2>3, <2>5, <2>7
      <3>2. CASE v # w
        BY <3>2, <2>1, <2>5, <2>7 DEF Inv, CountInv
      <3> QED
        BY <3>1, <3>2
    <2>9. FreshInv'
      <3>1. tx[w].step = "waiting"
        BY <1>3 DEF Count
      <3>2. \A v \in Requests :
               /\ tx'[v].session = tx[v].session /\ tx'[v].kind = tx[v].kind
               /\ tx'[v].step # "closed" => tx[v].step # "closed"
        BY <2>1, <2>3, <3>1
      <3> QED
        BY <2>1, <3>2 DEF Inv, FreshInv
    <2>10. WithinLimit'
      BY <2>7 DEF Inv, WithinLimit
    <2> QED
      BY <1>1, <2>6, <2>8, <2>9, <2>10 DEF Inv
  <1>4. ASSUME NEW w \in Requests, Admit(w) \/ Replace(w) \/ AlreadyEnded(w) \/ Change(w)
        PROVE  Inv'
    BY <1>1, <1>4, AdmitWrites, ReplaceWrites, AlreadyEndedWrites, ChangeWrites, WritesKeepInv
  <1>5. ASSUME NEW w \in Requests, Rollback(w)
        PROVE  Inv'
    <2>1. /\ \A v \in Requests : v # w => tx'[v] = tx[v]
          /\ tx'[w] = Closed
          /\ UNCHANGED <<status, touched, now>>
      BY <1>5 DEF Inv, TypeOK, Rollback
    <2>2. \A v \in Requests : HasLock(v)' => v # w /\ HasLock(v) /\ User(v)' = User(v)
      BY <2>1, ClosedFacts DEF HasLock, User
    <2>3. LockInv'
      BY <2>2 DEF Inv, LockInv
    <2>4. CountInv'
      <3>1. \A x \in Users : ActiveOf(x)' = ActiveOf(x) /\ IdleOf(x)' = IdleOf(x)
        BY <2>1 DEF IdleOf, ActiveOf
      <3> QED
        BY <2>1, <2>2, <3>1 DEF Inv, CountInv
    <2>5. FreshInv'
      <3> SUFFICES ASSUME NEW v \in Requests, tx'[v].step # "closed", tx'[v].kind = "start"
                   PROVE  /\ status'[tx'[v].session] = "none"
                          /\ \A z \in Requests : z # v => tx'[z].session # tx'[v].session
        BY DEF FreshInv
      <3>1. v # w /\ tx'[v] = tx[v]
        BY <2>1, ClosedFacts
      <3>2. tx[v].session # NoSession
        BY <3>1, OpenIsTransaction, PlaybackAssumption DEF Inv, Transactions
      <3> QED
        BY <2>1, <3>1, <3>2, ClosedFacts DEF Inv, FreshInv
    <2>6. WithinLimit'
      BY <2>1 DEF Inv, WithinLimit, ActiveOf
    <2> QED
      BY <1>1, <2>3, <2>4, <2>5, <2>6 DEF Inv
  <1>6. CASE Tick
    <2>1. UNCHANGED <<status, touched, tx>> /\ now' = now + 1
      BY <1>6 DEF Tick
    <2>2. \A x \in Users : ActiveOf(x)' = ActiveOf(x) /\ IdleOf(x) \subseteq IdleOf(x)'
      BY <2>1, PlaybackAssumption DEF ActiveOf, IdleOf, Inv, TypeOK
    <2>3. \A v \in Requests : User(v)' = User(v) /\ (HasLock(v)' <=> HasLock(v))
      BY <2>1 DEF User, HasLock
    <2>4. LockInv' /\ FreshInv' /\ WithinLimit'
      BY <2>1, <2>2, <2>3 DEF Inv, LockInv, FreshInv, WithinLimit
    <2>5. CountInv'
      BY <2>1, <2>2, <2>3 DEF Inv, CountInv
    <2> QED
      BY <1>1, <2>4, <2>5 DEF Inv
  <1>7. CASE UNCHANGED vars
    <2>1. UNCHANGED <<status, touched, tx, now>>
      BY <1>7 DEF vars
    <2>2. \A x \in Users : ActiveOf(x)' = ActiveOf(x) /\ IdleOf(x)' = IdleOf(x)
      BY <2>1 DEF ActiveOf, IdleOf
    <2>3. \A v \in Requests : User(v)' = User(v) /\ (HasLock(v)' <=> HasLock(v))
      BY <2>1 DEF User, HasLock
    <2>4. LockInv' /\ CountInv'
      BY <2>1, <2>2, <2>3 DEF Inv, LockInv, CountInv
    <2>5. FreshInv' /\ WithinLimit'
      BY <2>1, <2>2 DEF Inv, FreshInv, WithinLimit
    <2> QED
      BY <1>1, <2>4, <2>5 DEF Inv
  <1> QED
    BY <1>2, <1>3, <1>4, <1>5, <1>6, <1>7 DEF Next, Start, Request, Refuse, Abort, Wishes

LEMMA InvInit == Init => Inv
  <1> SUFFICES ASSUME Init
               PROVE  Inv
    OBVIOUS
  <1>1. TypeOK
    BY PlaybackAssumption DEF Init, TypeOK, Statuses
  <1>2. \A w \in Requests : tx[w] = Closed
    BY DEF Init
  <1>3. LockInv /\ CountInv /\ FreshInv
    BY <1>2, ClosedFacts DEF LockInv, CountInv, FreshInv, HasLock
  <1>4. \A u : ActiveOf(u) = {}
    BY DEF Init, ActiveOf
  <1>5. WithinLimit
    BY <1>4, FS_EmptySet, PlaybackAssumption DEF WithinLimit
  <1> QED
    BY <1>1, <1>3, <1>5 DEF Inv

LEMMA Invariant == Spec => []Inv
  BY InvInit, InvStep, PTL DEF Spec

\* Whatever starts and resumes race, a user never has more active sessions than
\* MaxActive.
THEOREM LimitHolds == Spec => []WithinLimit
  <1>1. Inv => WithinLimit
    BY DEF Inv
  <1> QED
    BY <1>1, Invariant, PTL

\* A session that has ended never changes again, however stale the request that
\* writes.
THEOREM EndedStaysEnded == Spec => EndedIsFinal
  <1> DEFINE Final == \A s \in Sessions : status[s] \in Terminal => status'[s] = status[s]
  <1>1. Inv /\ [Next]_vars => [Final]_vars
    <2> SUFFICES ASSUME Inv, [Next]_vars
                 PROVE  Final \/ UNCHANGED vars
      OBVIOUS
    <2>1. ASSUME NEW w \in Requests, NEW S, Writes(w, S)
          PROVE  Final
      BY <2>1 DEF Writes, Ended, ActiveOf, Terminal
    <2>2. ASSUME NEW w \in Requests, Admit(w) \/ Replace(w) \/ AlreadyEnded(w) \/ Change(w)
          PROVE  Final
      BY <2>1, <2>2, AdmitWrites, ReplaceWrites, AlreadyEndedWrites, ChangeWrites
    <2>3. UNCHANGED status => Final
      OBVIOUS
    <2> QED
      BY <2>2, <2>3 DEF Next, Start, Request, Count, Refuse, Abort, Rollback, Tick
  <1> QED
    BY <1>1, Invariant, PTL DEF Spec, EndedIsFinal

-----------------------------------------------------------------------------
(* Why sessions end *)

\* At the limit a request that starts has reaped nothing: the sessions it chose
\* the oldest from are all the active ones.
LEMMA ReplaceMakesRoom ==
    ASSUME Inv, NEW w \in Requests, Replace(w), NEW o \in Oldest(w)
    PROVE  MakesRoom(o)
  <1> DEFINE active == ActiveOf(User(w))
  <1>1. HasLock(w) /\ tx[w].kind = "start" /\ tx[w].count >= MaxActive
    BY DEF Replace, Counted, HasLock
  <1>2. /\ User(w) \in Users
        /\ tx[w].session \in Sessions
        /\ tx[w].reaped \in SUBSET active
        /\ tx[w].count = Cardinality(active \ tx[w].reaped)
    BY <1>1, Holder
  <1>3. active \in SUBSET Sessions /\ IsFiniteSet(active)
    BY ActiveSubset, Finite
  <1>4. /\ Cardinality(active) <= MaxActive
        /\ Cardinality(active \ tx[w].reaped) <= Cardinality(active)
    BY <1>2, <1>3, Fewer DEF Inv, WithinLimit
  <1>5. /\ Cardinality(active) \in Nat
        /\ Cardinality(active \ tx[w].reaped) \in Nat
        /\ MaxActive \in Nat
    BY <1>2, <1>3, Finite, FS_Subset, FS_CardinalityType, PlaybackAssumption
  <1>6. /\ Cardinality(active) = MaxActive
        /\ Cardinality(active \ tx[w].reaped) = Cardinality(active)
    BY <1>1, <1>2, <1>4, <1>5
  <1>7. active \ tx[w].reaped = active
    BY <1>3, <1>6, FS_Subset
  <1>8. UserOf[o] = User(w) /\ \A q \in active : touched[o] <= touched[q]
    BY <1>7 DEF Oldest, ActiveOf
  <1>9. tx'[w] = Closed /\ tx[w].session # NoSession
    BY <1>2, PlaybackAssumption DEF Replace, Commit, Inv, TypeOK
  <1> QED
    BY <1>1, <1>6, <1>8, <1>9 DEF MakesRoom

\* No active session ends but on request, when idle, or as the oldest at the
\* limit.
THEOREM SessionsEndForAReason == Spec => EndedForAReason
  <1> DEFINE Reason ==
        \A s \in Sessions : status[s] = "active" /\ status'[s] = "completed" =>
            s \in IdleOf(UserOf[s]) \/ Asked(s) \/ MakesRoom(s)
  <1>1. Inv /\ [Next]_vars => [Reason]_vars
    <2> SUFFICES ASSUME Inv, [Next]_vars
                 PROVE  Reason \/ UNCHANGED vars
      OBVIOUS
    <2>1. ASSUME NEW w \in Requests, HasLock(w), NEW t \in tx[w].reaped \union IdleOf(User(w))
          PROVE  t \in IdleOf(UserOf[t])
      BY <2>1, Holder DEF IdleOf, ActiveOf
    <2>2. ASSUME NEW w \in Requests, Admit(w) \/ AlreadyEnded(w)
          PROVE  Reason
      <3>1. HasLock(w)
        BY <2>2 DEF Admit, AlreadyEnded, Counted, HasLock
      <3>2. \A t \in Sessions : status[t] = "active" /\ status'[t] = "completed" => t \in tx[w].reaped
        BY <2>2, <3>1, Holder DEF Admit, AlreadyEnded, Commit, Ended, Counted
      <3> QED
        BY <2>1, <3>1, <3>2
    <2>3. ASSUME NEW w \in Requests, Replace(w)
          PROVE  Reason
      <3>1. HasLock(w) /\ tx[w].kind = "start"
        BY <2>3 DEF Replace, Counted, HasLock
      <3>2. PICK o \in Oldest(w) :
               Commit(w, [Ended(tx[w].reaped \union IdleOf(User(w)) \union {o})
                             EXCEPT ![tx[w].session] = "active"],
                      [touched EXCEPT ![tx[w].session] = now])
        BY <2>3 DEF Replace
      <3>3. \A t \in Sessions : status[t] = "active" /\ status'[t] = "completed" =>
               t \in tx[w].reaped \union IdleOf(User(w)) \/ t = o
        BY <3>1, <3>2, Holder DEF Commit, Ended
      <3>4. MakesRoom(o)
        BY <2>3, ReplaceMakesRoom
      <3> QED
        BY <2>1, <3>1, <3>3, <3>4
    <2>4. ASSUME NEW w \in Requests, Change(w)
          PROVE  Reason
      <3>1. HasLock(w) /\ tx[w].session \in Sessions /\ tx[w] \in Transactions
        BY <2>4, Holder DEF Change, HasLock
      <3>2. /\ status' = [Ended(tx[w].reaped) EXCEPT ![tx[w].session] = Written(w)]
            /\ tx'[w] = Closed
        BY <2>4 DEF Change, Commit, Inv, TypeOK
      <3>3. Written(w) = "completed" => tx[w].kind = "end" \/ tx[w].wish = "completed"
        BY <2>4 DEF Change, Written, Terminal
      <3>4. Written(w) = "completed" => Asked(tx[w].session)
        BY <3>2, <3>3 DEF Asked
      <3>5. \A t \in Sessions : status[t] = "active" /\ status'[t] = "completed" =>
               t \in tx[w].reaped \/ (t = tx[w].session /\ Written(w) = "completed")
        BY <3>1, <3>2 DEF Ended
      <3> QED
        BY <2>1, <3>1, <3>4, <3>5
    <2>5. UNCHANGED status => Reason
      OBVIOUS
    <2> QED
      BY <2>2, <2>3, <2>4, <2>5 DEF Next, Start, Request, Count, Refuse, Abort, Rollback, Tick, vars
  <1> QED
    BY <1>1, Invariant, PTL DEF Spec, EndedForAReason

-----------------------------------------------------------------------------
(* Manifests and the sessions they are served for                            *)

\* What a fetch knows, by where it is.
FetchShape(q) ==
    \/ q = D!Idle
    \/ /\ q.at \in {"begun", "checked"} /\ DOMAIN q = {"at", "user", "url", "playable"}
       /\ q.url \in urls
    \/ q.at = "begun" /\ DOMAIN q = {"at", "user", "episode", "playable"} /\ q.episode \in Episodes
    \/ q.at = "read" /\ DOMAIN q = {"at", "user", "got", "playable"} /\ q.got.episode \in Episodes
    \/ q.at = "served" /\ DOMAIN q = {"at", "got", "playable"}

\* Some session that was playable during the request is of the episode.
PlayableFor(q, episode) == \E s \in q.playable : session[s].episode = episode

\* What was playable while a request was under way was noted; the session of a URL
\* that was checked is one of that, and what is served is for one of that.
FetchInv(q) ==
    /\ FetchShape(q)
    /\ q.at # "idle" =>
        /\ D!PlayableNow \subseteq q.playable
        /\ \A s \in q.playable : s \in Viewings /\ session[s] # D!Absent
    /\ q.at = "checked" => PlayableFor(q, q.url.episode)
    /\ q.at = "served" => PlayableFor(q, q.got.episode)

SessionShape(x) ==
    \/ x = D!Absent
    \/ /\ DOMAIN x = {"status", "user", "episode", "title", "started"} /\ x.status # "none"
       /\ x.episode \in Episodes \union {D!NoEpisode}

\* A session has the fields of a row, and a URL is signed for an episode.
DeliveryInv ==
    /\ DOMAIN session = Viewings /\ \A s \in Viewings : SessionShape(session[s])
    /\ \A m \in manifest : m.episode \in Episodes
    /\ \A url \in urls : url.session \in Viewings /\ url.episode \in Episodes
    /\ DOMAIN fetch = Fetches /\ \A f \in Fetches : FetchInv(fetch[f])

LEMMA IdleFetch == D!Idle.at = "idle" /\ DOMAIN D!Idle = {"at"}
  BY DEF D!Idle

LEMMA AbsentSession == D!Absent.status = "none" /\ DOMAIN D!Absent = {"status"}
  BY DEF D!Absent

\* Sessions keep their episode and what is playable is noted.
LEMMA NotedKeeps ==
    ASSUME DeliveryInv, D!Noted, UNCHANGED <<manifest, urls>>, DOMAIN session' = Viewings,
           \A s \in Viewings : SessionShape(session'[s]),
           \A s \in Viewings : session[s] # D!Absent =>
               session'[s] # D!Absent /\ session'[s].episode = session[s].episode
    PROVE  DeliveryInv'
  <1>1. DOMAIN fetch' = Fetches
    BY DEF D!Noted
  <1>2. ASSUME NEW f \in Fetches
        PROVE  FetchInv(fetch[f])'
    <2>1. CASE fetch[f].at = "idle"
      <3>1. fetch'[f] = D!Idle
        BY <2>1 DEF D!Noted, D!At
      <3> QED
        BY <3>1, IdleFetch DEF FetchInv, FetchShape
    <2>2. CASE fetch[f].at # "idle"
      <3> DEFINE q == fetch[f]
                 more == D!PlayableNow'
                 n == [q EXCEPT !.playable = @ \union more]
      <3>1. fetch'[f] = n
        BY <2>2 DEF D!Noted, D!At
      <3>2. FetchInv(q) /\ FetchShape(q) /\ q # D!Idle
        BY <2>2, IdleFetch DEF DeliveryInv, FetchInv
      <3>3. "playable" \in DOMAIN q
        BY <3>2 DEF FetchShape
      <3>4. /\ n.playable = q.playable \union more /\ DOMAIN n = DOMAIN q /\ n.at = q.at
            /\ \A x \in DOMAIN q : x # "playable" => n[x] = q[x]
        BY <3>3
      <3>5. \A s \in more : s \in Viewings /\ session'[s] # D!Absent
        BY AbsentSession DEF D!PlayableNow, D!Playable
      <3>6. \A s \in q.playable : s \in Viewings /\ session'[s] # D!Absent
                                  /\ session'[s].episode = session[s].episode
        BY <2>2, <3>2 DEF FetchInv
      <3>7. FetchShape(n)
        BY <3>2, <3>4, <2>2 DEF FetchShape
      <3>8. /\ q.at = "checked" => n.url.episode = q.url.episode
            /\ q.at = "served" => n.got.episode = q.got.episode
        BY <3>2, <3>4 DEF FetchShape
      <3>9. /\ q.at = "checked" => \E s \in n.playable : session'[s].episode = n.url.episode
            /\ q.at = "served" => \E s \in n.playable : session'[s].episode = n.got.episode
        BY <3>2, <3>4, <3>6, <3>8 DEF FetchInv, PlayableFor
      <3> HIDE DEF n
      <3>10. /\ D!PlayableNow' \subseteq fetch'[f].playable
             /\ \A s \in fetch'[f].playable : s \in Viewings /\ session'[s] # D!Absent
        BY <3>1, <3>4, <3>5, <3>6
      <3>11. FetchShape(fetch[f])'
        BY <3>1, <3>7 DEF FetchShape
      <3>12. /\ fetch'[f].at = "checked" => PlayableFor(fetch[f], fetch[f].url.episode)'
             /\ fetch'[f].at = "served" => PlayableFor(fetch[f], fetch[f].got.episode)'
        BY <3>1, <3>4, <3>9 DEF PlayableFor
      <3> QED
        BY <3>10, <3>11, <3>12 DEF FetchInv
    <2> QED
      BY <2>1, <2>2
  <1> QED
    BY <1>1, <1>2 DEF DeliveryInv

\* One fetch goes on.
LEMMA FetchGoes ==
    ASSUME DeliveryInv, UNCHANGED <<session, manifest, urls, time>>,
           NEW f \in Fetches, NEW q, D!Become(f, q), FetchInv(q)
    PROVE  DeliveryInv'
  <1>1. fetch' = [fetch EXCEPT ![f] = q]
    BY DEF D!Become
  <1>2. DOMAIN fetch' = Fetches /\ \A g \in Fetches : fetch'[g] = q \/ fetch'[g] = fetch[g]
    BY <1>1 DEF DeliveryInv
  <1>3. D!PlayableNow' = D!PlayableNow
    BY DEF D!PlayableNow, D!Playable, D!Expires
  <1>4. ASSUME NEW x, FetchInv(x)
        PROVE  /\ x.at # "idle" => D!PlayableNow' \subseteq x.playable
               /\ \E g \in {x} : FetchInv(g)
    BY <1>3, <1>4 DEF FetchInv
  <1>5. ASSUME NEW g \in Fetches
        PROVE  FetchInv(fetch[g])'
    <2>1. FetchInv(fetch'[g])
      BY <1>2 DEF DeliveryInv
    <2> QED
      BY <1>3, <2>1 DEF FetchInv, FetchShape, PlayableFor
  <1> QED
    BY <1>2, <1>5 DEF DeliveryInv

LEMMA SessionSteps ==
    ASSUME DeliveryInv,
           \/ D!Tick
           \/ \E s \in Viewings :
                \/ \E user \in {u1, u2}, title \in Titles, episode \in Episodes \union {D!NoEpisode} :
                     D!StartPlayback(s, user, episode, title)
                \/ \E to \in {"active", "paused", "ended"} : D!ChangeStatus(s, to)
    PROVE  DeliveryInv'
  <1>1. CASE D!Tick
    BY <1>1, NotedKeeps DEF D!Tick, DeliveryInv
  <1>2. ASSUME NEW s \in Viewings, NEW user, NEW title, NEW episode \in Episodes \union {D!NoEpisode},
               D!StartPlayback(s, user, episode, title)
        PROVE  DeliveryInv'
    <2> DEFINE x == [status |-> "active", user |-> user, episode |-> episode, title |-> title,
                     started |-> time]
    <2>1. SessionShape(x)
      BY DEF SessionShape
    <2>2. session[s] = D!Absent /\ session' = [session EXCEPT ![s] = x] /\ D!Noted
          /\ UNCHANGED <<manifest, urls>>
      BY <1>2 DEF D!StartPlayback
    <2> HIDE DEF x
    <2>3. DOMAIN session' = Viewings /\ \A v \in Viewings :
              \/ session'[v] = x /\ v = s
              \/ session'[v] = session[v]
      BY <2>2 DEF DeliveryInv
    <2>4. \A v \in Viewings : SessionShape(session'[v])
      BY <2>1, <2>3 DEF DeliveryInv
    <2>5. \A v \in Viewings : session[v] # D!Absent => session'[v] = session[v]
      BY <2>2, <2>3
    <2> QED
      BY <2>2, <2>3, <2>4, <2>5, NotedKeeps
  <1>3. ASSUME NEW s \in Viewings, NEW to \in {"active", "paused", "ended"}, D!ChangeStatus(s, to)
        PROVE  DeliveryInv'
    <2> DEFINE x == [session[s] EXCEPT !.status = to]
    <2>1. session[s].status # "none" /\ session' = [session EXCEPT ![s] = x] /\ D!Noted
          /\ UNCHANGED <<manifest, urls>>
      BY <1>3 DEF D!ChangeStatus
    <2>2. session[s] # D!Absent /\ SessionShape(session[s])
      BY <2>1, AbsentSession DEF DeliveryInv
    <2>3. SessionShape(x) /\ x.episode = session[s].episode /\ x.status = to
      BY <2>2 DEF SessionShape
    <2> HIDE DEF x
    <2>4. x # D!Absent
      BY <2>3, AbsentSession
    <2>5. DOMAIN session' = Viewings /\ session'[s] = x
          /\ \A v \in Viewings : v # s => session'[v] = session[v]
      BY <2>1 DEF DeliveryInv
    <2>6. \A v \in Viewings : SessionShape(session'[v])
      BY <2>3, <2>5 DEF DeliveryInv
    <2> QED
      BY <2>1, <2>3, <2>4, <2>5, <2>6, NotedKeeps
  <1> QED
    BY <1>1, <1>2, <1>3

\* More URLs and more manifests
LEMMA MoreToServe ==
    ASSUME DeliveryInv,
           \/ \E s \in Viewings, user \in {u1, u2}, title \in Titles, ttl \in UrlTtls :
                D!CreateSignedUrl(s, user, title, ttl)
           \/ \E episode \in Episodes, protocol \in Protocols, title \in Titles :
                D!GenerateManifest(episode, protocol, title)
    PROVE  DeliveryInv'
  <1>1. ASSUME UNCHANGED <<session, fetch, time>>, urls \subseteq urls',
               \A m \in manifest' : m.episode \in Episodes,
               \A url \in urls' : url.session \in Viewings /\ url.episode \in Episodes
        PROVE  DeliveryInv'
    <2>1. D!PlayableNow' = D!PlayableNow
      BY <1>1 DEF D!PlayableNow, D!Playable, D!Expires
    <2>2. ASSUME NEW f \in Fetches
          PROVE  FetchInv(fetch[f])'
      <3>1. FetchInv(fetch[f]) /\ fetch'[f] = fetch[f]
        BY <1>1 DEF DeliveryInv
      <3>2. FetchShape(fetch[f])'
        BY <1>1, <3>1 DEF FetchInv, FetchShape
      <3> QED
        BY <1>1, <2>1, <3>1, <3>2 DEF FetchInv, PlayableFor
    <2> QED
      BY <1>1, <2>2 DEF DeliveryInv
  <1>2. ASSUME NEW s \in Viewings, NEW user, NEW title, NEW ttl, D!CreateSignedUrl(s, user, title, ttl)
        PROVE  DeliveryInv'
    <2>1. /\ urls' = urls \union {D!SignedUrl(s, ttl)} /\ UNCHANGED <<session, manifest, fetch, time>>
          /\ session[s] # D!Absent /\ session[s].episode # D!NoEpisode
      BY <1>2 DEF D!CreateSignedUrl
    <2>2. session[s].episode \in Episodes
      BY <2>1 DEF DeliveryInv, SessionShape
    <2>3. D!SignedUrl(s, ttl).session = s /\ D!SignedUrl(s, ttl).episode = session[s].episode
      BY DEF D!SignedUrl
    <2>4. \A url \in urls' : url.session \in Viewings /\ url.episode \in Episodes
      BY <2>1, <2>2, <2>3 DEF DeliveryInv
    <2> QED
      BY <1>1, <2>1, <2>4 DEF DeliveryInv
  <1>3. ASSUME NEW episode \in Episodes, NEW protocol, NEW title,
               D!GenerateManifest(episode, protocol, title)
        PROVE  DeliveryInv'
    BY <1>1, <1>3 DEF D!GenerateManifest, DeliveryInv
  <1> QED
    BY <1>2, <1>3

\* A session that is valid for an episode is playable and of that episode.
LEMMA ValidIsPlayable ==
    ASSUME NEW s \in Viewings, NEW user, NEW episode \in Episodes, D!Valid(s, user, episode)
    PROVE  s \in D!PlayableNow /\ session[s].episode = episode /\ session[s] # D!Absent
  BY NullAssumption DEF D!Valid, D!PlayableNow, D!Playable

LEMMA PlayableExists ==
    ASSUME NEW s \in D!PlayableNow PROVE s \in Viewings /\ session[s] # D!Absent
  BY AbsentSession DEF D!PlayableNow, D!Playable

LEMMA FetchSteps ==
    ASSUME DeliveryInv, NEW f \in Fetches,
           \/ \E user \in {u1, u2} \union {D!Nobody}, url \in urls : D!BeginSigned(f, user, url)
           \/ \E user \in {u1, u2}, episode \in Episodes : D!BeginWithToken(f, user, episode)
           \/ D!CheckSession(f) \/ D!ServeWithToken(f) \/ D!Answer(f)
           \/ \E m \in manifest : D!ReadManifest(f, m) \/ D!ServeSigned(f, m)
    PROVE  DeliveryInv'
  <1> DEFINE old == fetch[f]
  <1>1. UNCHANGED <<session, manifest, urls, time>>
    BY DEF D!BeginSigned, D!BeginWithToken, D!CheckSession, D!ServeWithToken, D!Answer,
           D!ReadManifest, D!ServeSigned, D!UnchangedRows
  <1>2. FetchInv(old) /\ FetchShape(old) /\ DOMAIN fetch = Fetches
    BY DEF DeliveryInv, FetchInv
  <1>3. ASSUME NEW q, D!Become(f, q), FetchInv(q)
        PROVE  DeliveryInv'
    BY <1>1, <1>3, FetchGoes
  <1>4. ASSUME NEW user, NEW url \in urls, D!BeginSigned(f, user, url)
        PROVE  DeliveryInv'
    <2> DEFINE q == [at |-> "begun", user |-> user, url |-> url, playable |-> D!PlayableNow]
    <2>1. FetchInv(q)
      BY PlayableExists DEF FetchInv, FetchShape
    <2>2. D!Become(f, q)
      BY <1>4 DEF D!BeginSigned
    <2> QED
      BY <1>3, <2>1, <2>2
  <1>5. ASSUME NEW user, NEW episode \in Episodes, D!BeginWithToken(f, user, episode)
        PROVE  DeliveryInv'
    <2> DEFINE q == [at |-> "begun", user |-> user, episode |-> episode, playable |-> D!PlayableNow]
    <2>1. FetchInv(q)
      BY PlayableExists DEF FetchInv, FetchShape
    <2>2. D!Become(f, q)
      BY <1>5 DEF D!BeginWithToken
    <2> QED
      BY <1>3, <2>1, <2>2
  <1>6. CASE D!CheckSession(f)
    <2> DEFINE q == [old EXCEPT !.at = "checked"]
    <2>1. /\ old.at = "begun" /\ "url" \in DOMAIN old
          /\ D!Valid(old.url.session, old.user, old.url.episode)
          /\ fetch' = [fetch EXCEPT ![f] = q]
      BY <1>6 DEF D!CheckSession, D!At, D!Signed
    <2>2. DOMAIN old = {"at", "user", "url", "playable"} /\ old.url \in urls
      BY <1>2, <2>1, IdleFetch DEF FetchShape
    <2>3. old.url.session \in Viewings /\ old.url.episode \in Episodes
      BY <2>2 DEF DeliveryInv
    <2>4. old.url.session \in old.playable /\ session[old.url.session].episode = old.url.episode
      BY <1>2, <2>1, <2>3, ValidIsPlayable DEF FetchInv
    <2>5. /\ q.at = "checked" /\ DOMAIN q = {"at", "user", "url", "playable"}
          /\ q.url = old.url /\ q.playable = old.playable
      BY <2>2
    <2>6. D!Become(f, q)
      BY <2>1 DEF D!Become
    <2> HIDE DEF q
    <2>7. FetchInv(q)
      BY <1>2, <2>1, <2>2, <2>4, <2>5 DEF FetchInv, FetchShape, PlayableFor
    <2> QED
      BY <1>3, <2>6, <2>7
  <1>7. ASSUME NEW m \in manifest, D!ReadManifest(f, m)
        PROVE  DeliveryInv'
    <2> DEFINE q == [at |-> "read", user |-> old.user, got |-> m, playable |-> old.playable]
    <2>1. m.episode \in Episodes /\ old.at = "begun" /\ D!Become(f, q)
      BY <1>7 DEF DeliveryInv, D!ReadManifest, D!At
    <2>2. FetchInv(q)
      BY <1>2, <2>1 DEF FetchInv, FetchShape
    <2> QED
      BY <1>3, <2>1, <2>2
  <1>8. ASSUME NEW m \in manifest, D!ServeSigned(f, m)
        PROVE  DeliveryInv'
    <2> DEFINE q == [at |-> "served", got |-> m, playable |-> old.playable]
    <2>1. old.at = "checked" /\ m.episode = old.url.episode /\ D!Become(f, q)
      BY <1>8 DEF D!ServeSigned, D!At, D!Serve
    <2>2. FetchInv(q)
      BY <1>2, <2>1 DEF FetchInv, FetchShape, PlayableFor
    <2> QED
      BY <1>3, <2>1, <2>2
  <1>9. CASE D!ServeWithToken(f)
    <2> DEFINE q == [at |-> "served", got |-> old.got, playable |-> old.playable]
    <2>1. old.at = "read" /\ D!HasSession(old.user, old.got) /\ D!Become(f, q)
      BY <1>9 DEF D!ServeWithToken, D!At, D!Serve
    <2>2. old.got.episode \in Episodes
      BY <1>2, <2>1, IdleFetch DEF FetchShape
    <2>3. PICK s \in Viewings : D!Valid(s, old.user, old.got.episode)
      BY <2>1 DEF D!HasSession
    <2>4. s \in old.playable /\ session[s].episode = old.got.episode
      BY <1>2, <2>1, <2>2, <2>3, ValidIsPlayable DEF FetchInv
    <2>5. FetchInv(q)
      BY <1>2, <2>1, <2>4 DEF FetchInv, FetchShape, PlayableFor
    <2> QED
      BY <1>3, <2>1, <2>5
  <1>10. CASE D!Answer(f)
    <2>1. FetchInv(D!Idle)
      BY IdleFetch DEF FetchInv, FetchShape
    <2> QED
      BY <1>3, <1>10, <2>1 DEF D!Answer
  <1> QED
    BY <1>4, <1>5, <1>6, <1>7, <1>8, <1>9, <1>10

LEMMA DeliveryStep == DeliveryInv /\ [D!Next]_delivery => DeliveryInv'
  <1>1. ASSUME DeliveryInv, UNCHANGED delivery
        PROVE  DeliveryInv'
    BY <1>1 DEF delivery, DeliveryInv, FetchInv, FetchShape, PlayableFor, D!PlayableNow,
       D!Playable, D!Expires
  <1> QED
    BY <1>1, SessionSteps, MoreToServe, FetchSteps DEF D!Next

LEMMA DeliveryInit == D!Init => DeliveryInv
  BY IdleFetch DEF D!Init, DeliveryInv, SessionShape, FetchInv, FetchShape

LEMMA DeliverySafe == DeliveryInv => D!ServedWhilePlayable
  BY DEF DeliveryInv, FetchInv, PlayableFor, D!ServedWhilePlayable, D!At

-----------------------------------------------------------------------------
(* Errors reported for a transcoding job *)

\* An error that the job shows, or that a report under way has found there, was
\* reported, and the job shows one once one was reported.
JobInv ==
    /\ job # R!NoRow => /\ DOMAIN job = {"exists", "status", "percent", "error"}
                        /\ job.error \in errors \union {R!NoError}
    /\ errors # {} => job # R!NoRow /\ job.error \in errors

ReportInv(q) ==
    q.at = "job" =>
        /\ job # R!NoRow /\ DOMAIN q = {"at", "old", "changes"}
        /\ "error" \in DOMAIN q.old /\ q.old.error \in errors \union {R!NoError}
        /\ DOMAIN q.changes \subseteq {"percent", "error"}
        /\ "error" \in DOMAIN q.changes => q.changes.error \in Errors

RecordsInv ==
    /\ errors \subseteq Errors /\ JobInv
    /\ DOMAIN report = Requests /\ \A r \in Requests : ReportInv(report[r])

LEMMA IdleReport == R!Idle.at = "idle"
  BY DEF R!Idle

\* A report comes or goes.
LEMMA ReportGoes ==
    ASSUME RecordsInv, UNCHANGED <<job, errors>>, NEW r \in Requests, NEW q,
           report' = [report EXCEPT ![r] = q], ReportInv(q)
    PROVE  RecordsInv'
  BY DEF RecordsInv, JobInv, ReportInv

LEMMA LoadJobStep ==
    ASSUME RecordsInv, NEW r \in Requests, NEW percent, NEW error \in Errors \union {R!NoError},
           R!LoadJob(r, percent, error)
    PROVE  RecordsInv'
  <1> DEFINE changes == IF error = R!NoError THEN [percent |-> percent]
                        ELSE [percent |-> percent, error |-> error]
             q == [at |-> "job", old |-> job, changes |-> changes]
  <1>1. job # R!NoRow /\ report' = [report EXCEPT ![r] = q] /\ UNCHANGED <<job, errors>>
    BY DEF R!LoadJob, R!UnchangedRows
  <1>2. /\ DOMAIN changes \subseteq {"percent", "error"}
        /\ "error" \in DOMAIN changes => changes.error \in Errors
    <2>1. CASE error = R!NoError
      BY <2>1
    <2>2. CASE error # R!NoError
      BY <2>2
    <2> QED
      BY <2>1, <2>2
  <1> HIDE DEF changes
  <1>3. ReportInv(q)
    BY <1>1, <1>2 DEF RecordsInv, JobInv, ReportInv
  <1> QED
    BY <1>1, <1>3, ReportGoes

\* What a commit writes: the columns that differ from what was loaded.
LEMMA Overwritten ==
    ASSUME NEW old, NEW changes, NEW x, "error" \in DOMAIN x, DOMAIN changes \subseteq DOMAIN x
    PROVE  LET y == R!Updated(x, R!Dirty(old, changes)) IN
           /\ DOMAIN y = DOMAIN x
           /\ \/ y.error = x.error /\ ("error" \in DOMAIN changes => changes.error = old.error)
              \/ "error" \in DOMAIN changes /\ y.error = changes.error
  BY DEF R!Dirty, R!Updated

LEMMA CommitJobStep ==
    ASSUME RecordsInv, NEW r \in Requests, R!CommitJob(r)
    PROVE  RecordsInv'
  <1> DEFINE q == report[r]
             reported == IF "error" \in DOMAIN q.changes THEN {q.changes.error} ELSE {}
  <1>1. /\ q.at = "job" /\ job' = R!Updated(job, R!Dirty(q.old, q.changes))
        /\ errors' = errors \union reported
        /\ report' = [report EXCEPT ![r] = R!Idle]
    BY DEF R!CommitJob, R!At
  <1>2. /\ job # R!NoRow /\ DOMAIN job = {"exists", "status", "percent", "error"}
        /\ job.error \in errors \union {R!NoError} /\ (errors # {} => job.error \in errors)
        /\ errors \subseteq Errors
        /\ "error" \in DOMAIN q.old /\ q.old.error \in errors \union {R!NoError}
        /\ DOMAIN q.changes \subseteq {"percent", "error"}
        /\ "error" \in DOMAIN q.changes => q.changes.error \in Errors
    BY <1>1 DEF RecordsInv, JobInv, ReportInv
  <1>3. /\ DOMAIN job' = {"exists", "status", "percent", "error"}
        /\ \/ job'.error = job.error /\ ("error" \in DOMAIN q.changes => q.changes.error = q.old.error)
           \/ "error" \in DOMAIN q.changes /\ job'.error = q.changes.error
    BY <1>1, <1>2, Overwritten
  <1>4. errors' \subseteq Errors /\ errors \subseteq errors'
    BY <1>1, <1>2
  <1>5. /\ job'.error \in errors' \union {R!NoError}
        /\ errors' # {} => job'.error \in errors'
    BY <1>1, <1>2, <1>3, NullAssumption
  <1>6. job' # R!NoRow
    BY <1>3 DEF R!NoRow
  <1>7. JobInv'
    BY <1>3, <1>5, <1>6 DEF JobInv
  <1>8. ASSUME NEW s \in Requests
        PROVE  ReportInv(report[s])'
    <2>1. report'[s] = R!Idle \/ report'[s] = report[s]
      BY <1>1 DEF RecordsInv
    <2> QED
      BY <1>4, <1>6, <2>1, IdleReport DEF RecordsInv, ReportInv
  <1> QED
    BY <1>1, <1>4, <1>7, <1>8 DEF RecordsInv

LEMMA RecordsStep == RecordsInv /\ [R!Next]_records => RecordsInv'
  <1> SUFFICES ASSUME RecordsInv, [R!Next]_records PROVE RecordsInv'
    OBVIOUS
  <1>1. CASE UNCHANGED <<job, report, errors>>
    BY <1>1 DEF RecordsInv, JobInv, ReportInv
  <1>2. CASE \/ UNCHANGED records
             \/ \E n \in Names : R!CreateQualityProfile(n) \/ R!CreateCDNRegion(n)
             \/ \E t \in Names : R!CreateMaturity(t)
             \/ \E user \in {u1, u2} : R!CreateDownload(user)
    BY <1>1, <1>2 DEF records, R!CreateQualityProfile, R!CreateCDNRegion, R!CreateMaturity,
       R!CreateDownload
  <1>3. CASE R!CreateTranscodingJob
    <2>1. /\ job = R!NoRow /\ DOMAIN job' = {"exists", "status", "percent", "error"}
          /\ job'.error = R!NoError /\ UNCHANGED <<report, errors>>
      BY <1>3 DEF R!CreateTranscodingJob
    <2>2. job' # R!NoRow /\ errors = {}
      BY <2>1 DEF R!NoRow, RecordsInv, JobInv
    <2> QED
      BY <2>1, <2>2 DEF RecordsInv, JobInv, ReportInv
  <1>4. ASSUME NEW r \in Requests, NEW q, q.at # "job", report' = [report EXCEPT ![r] = q],
               UNCHANGED <<job, errors>>
        PROVE  RecordsInv'
    BY <1>4, ReportGoes DEF ReportInv
  <1>5. ASSUME NEW r \in Requests, NEW user, NEW bytes, R!LoadDownload(r, user, bytes)
        PROVE  RecordsInv'
    <2> DEFINE q == [at |-> "download", old |-> download,
                     changes |-> [bytes |-> bytes, percent |-> R!Percent(download, bytes)]]
    <2>1. q.at # "job"
      OBVIOUS
    <2>2. report' = [report EXCEPT ![r] = q] /\ UNCHANGED <<job, errors>>
      BY <1>5 DEF R!LoadDownload, R!UnchangedRows
    <2> HIDE DEF q
    <2> QED
      BY <1>4, <2>1, <2>2
  <1>6. ASSUME NEW r \in Requests, R!CommitDownload(r) \/ R!Fail(r)
        PROVE  RecordsInv'
    BY <1>4, <1>6, IdleReport DEF R!CommitDownload, R!Fail, R!UnchangedRows
  <1> QED
    BY <1>2, <1>3, <1>5, <1>6, LoadJobStep, CommitJobStep DEF R!Next

LEMMA RecordsInit == R!Init => RecordsInv
  BY IdleReport DEF R!Init, RecordsInv, JobInv, ReportInv

LEMMA RecordsSafe == RecordsInv => R!ReportedErrorsShow
  BY DEF RecordsInv, JobInv, R!ReportedErrorsShow

-----------------------------------------------------------------------------

LEMMA StreamingStep == DeliveryInv /\ RecordsInv /\ [SideNext]_sides
                            => DeliveryInv' /\ RecordsInv'
  <1> SUFFICES ASSUME DeliveryInv, RecordsInv, [SideNext]_sides
               PROVE  DeliveryInv' /\ RecordsInv'
    OBVIOUS
  <1>1. [D!Next]_delivery /\ [R!Next]_records
    BY DEF SideNext, OfSessions, OfDelivery, OfRecords, OfSearch, OfCounts, OfTitles, OfLists, sides
  <1> QED
    BY <1>1, DeliveryStep, RecordsStep

\* A manifest is served only for a session that was active and not expired at some
\* moment of the request, whatever a signed URL says and whenever sessions end; and
\* reports that overlap never take back the error of a transcoding job.
THEOREM StreamingHolds == SideSpec => []StreamingIsTrue
  <1>1. SideInit => DeliveryInv /\ RecordsInv
    BY DeliveryInit, RecordsInit DEF SideInit
  <1>2. DeliveryInv /\ RecordsInv => StreamingIsTrue
    BY DeliverySafe, RecordsSafe DEF StreamingIsTrue
  <1> QED
    BY <1>1, <1>2, StreamingStep, PTL DEF SideSpec

-----------------------------------------------------------------------------
(* Titles as they are edited *)

Columns == {"exists", "status", "deleted", "text"}

\* A title that there is has the status that was asked for last, and one that there
\* is not has been asked for nothing.
TitleShape(x, a) ==
    \/ x = E!NoRow /\ a = "draft"
    \/ DOMAIN x = Columns /\ x.exists = TRUE /\ x.deleted \in BOOLEAN /\ x.status = a

\* What an editor is about to write is not that a title was never deleted.
EditShape(q) ==
    q.at = "loaded" =>
        /\ q.item \in Items /\ content[q.item].exists = TRUE
        /\ DOMAIN q.changes \subseteq Columns \ {"exists"}
        /\ "deleted" \in DOMAIN q.changes => q.changes.deleted = TRUE

TitlesInv ==
    /\ DOMAIN content = Items /\ DOMAIN asked = Items /\ DOMAIN editor = Requests
    /\ \A t \in Items : TitleShape(content[t], asked[t])
    /\ \A r \in Requests : EditShape(editor[r])

LEMMA NoTitle == E!NoRow.exists = FALSE /\ E!Idle.at = "idle"
  BY DEF E!NoRow, E!Idle

LEMMA RowUpdated ==
    ASSUME NEW x, NEW old, NEW changes, DOMAIN x = Columns, x.exists = TRUE, x.deleted \in BOOLEAN,
           DOMAIN changes \subseteq Columns \ {"exists"},
           "deleted" \in DOMAIN changes => changes.deleted = TRUE
    PROVE  LET y == E!Updated(x, E!Dirty(old, changes)) IN
           /\ DOMAIN y = Columns /\ y.exists = TRUE /\ y.deleted \in BOOLEAN
           /\ x.deleted => y.deleted
           /\ y.status = IF "status" \in DOMAIN changes /\ changes.status # old.status
                         THEN changes.status ELSE x.status
  BY DEF E!Updated, E!Dirty, Columns

\* An editor goes on, and no title is written.
LEMMA EditorGoesOn ==
    ASSUME TitlesInv, NEW r \in Requests, NEW q, EditShape(q), E!Become(r, q),
           UNCHANGED <<content, asked>>
    PROVE  TitlesInv' /\ E!KeepsTheRest
  <1>1. DOMAIN editor' = Requests /\ \A s \in Requests : editor'[s] = q \/ editor'[s] = editor[s]
    BY DEF TitlesInv, E!Become
  <1>2. TitlesInv'
    BY <1>1 DEF TitlesInv, EditShape
  <1>3. E!KeepsTheRest
    BY NoTitle DEF TitlesInv, TitleShape, E!KeepsTheRest, E!Exists, E!Listed, E!Offered
  <1> QED
    BY <1>2, <1>3

LEMMA EditorsRest ==
    ASSUME TitlesInv, UNCHANGED <<content, asked, editor>>
    PROVE  TitlesInv' /\ E!KeepsTheRest
  BY NoTitle DEF TitlesInv, TitleShape, EditShape, E!KeepsTheRest, E!Exists, E!Listed, E!Offered

LEMMA LoadStep ==
    ASSUME TitlesInv, NEW r \in Requests, NEW t \in Items, NEW changes, E!Load(r, t, changes),
           DOMAIN changes \subseteq Columns \ {"exists"},
           "deleted" \in DOMAIN changes => changes.deleted = TRUE
    PROVE  TitlesInv' /\ E!KeepsTheRest
  <1> DEFINE q == [at |-> "loaded", item |-> t, old |-> content[t], changes |-> changes]
  <1>1. content[t].exists = TRUE
    BY NoTitle DEF E!Load, E!Exists, TitlesInv, TitleShape
  <1>2. EditShape(q)
    BY <1>1 DEF EditShape
  <1>3. E!Become(r, q) /\ UNCHANGED <<content, asked>>
    BY DEF E!Load, E!UnchangedRows
  <1> HIDE DEF q
  <1> QED
    BY <1>2, <1>3, EditorGoesOn

LEMMA CreateContentStep ==
    ASSUME TitlesInv, NEW r \in Requests, NEW t \in Items, NEW text \in Texts,
           E!CreateContent(r, t, text)
    PROVE  TitlesInv' /\ E!KeepsTheRest
  <1> DEFINE x == [exists |-> TRUE, status |-> "draft", deleted |-> FALSE, text |-> text]
  <1>1. content[t] = E!NoRow /\ asked[t] = "draft"
    BY DEF E!CreateContent, E!Exists, TitlesInv, TitleShape
  <1>2. TitleShape(x, "draft") /\ x.exists = TRUE
    BY DEF TitleShape, Columns
  <1>3. content' = [content EXCEPT ![t] = x] /\ asked' = asked /\ E!Become(r, E!Idle)
    BY DEF E!CreateContent, E!Edits
  <1> HIDE DEF x
  <1>4. /\ DOMAIN content' = Items /\ content'[t] = x
        /\ \A u \in Items : u # t => content'[u] = content[u]
        /\ DOMAIN editor' = Requests
        /\ \A s \in Requests : editor'[s] = E!Idle \/ editor'[s] = editor[s]
    BY <1>3 DEF TitlesInv, E!Become
  <1>5. \A u \in Items : TitleShape(content'[u], asked'[u])
    BY <1>1, <1>2, <1>3, <1>4 DEF TitlesInv
  <1>6. \A s \in Requests : EditShape(editor[s])'
    BY <1>1, <1>2, <1>4, NoTitle DEF TitlesInv, EditShape
  <1>7. E!KeepsTheRest
    BY <1>1, <1>3, <1>4, NoTitle
    DEF TitlesInv, TitleShape, E!KeepsTheRest, E!Exists, E!Listed, E!Offered
  <1> QED
    BY <1>3, <1>4, <1>5, <1>6, <1>7 DEF TitlesInv

LEMMA CommitContentStep ==
    ASSUME TitlesInv, NEW r \in Requests, E!CommitContent(r)
    PROVE  TitlesInv' /\ E!KeepsTheRest
  <1> DEFINE q == editor[r]
             t == q.item
             y == E!Updated(content[t], E!Dirty(q.old, q.changes))
             asks == "status" \in DOMAIN q.changes /\ q.changes.status # q.old.status
  <1>1. /\ t \in Items /\ content[t].exists = TRUE
        /\ DOMAIN q.changes \subseteq Columns \ {"exists"}
        /\ "deleted" \in DOMAIN q.changes => q.changes.deleted = TRUE
    BY DEF E!CommitContent, E!At, TitlesInv, EditShape
  <1>2. /\ DOMAIN content[t] = Columns /\ content[t].deleted \in BOOLEAN
        /\ content[t].status = asked[t]
    BY <1>1, NoTitle DEF TitlesInv, TitleShape
  <1>3. /\ DOMAIN y = Columns /\ y.exists = TRUE /\ y.deleted \in BOOLEAN
        /\ content[t].deleted => y.deleted
        /\ y.status = IF asks THEN q.changes.status ELSE content[t].status
    BY <1>1, <1>2, RowUpdated
  <1>4. /\ content' = [content EXCEPT ![t] = y]
        /\ asked' = IF asks THEN [asked EXCEPT ![t] = q.changes.status] ELSE asked
        /\ E!Become(r, E!Idle)
    BY DEF E!CommitContent
  <1>5. /\ DOMAIN content' = Items /\ content'[t] = y
        /\ \A u \in Items : u # t => content'[u] = content[u]
        /\ DOMAIN asked' = Items /\ asked'[t] = y.status
        /\ \A u \in Items : u # t => asked'[u] = asked[u]
        /\ DOMAIN editor' = Requests
        /\ \A s \in Requests : editor'[s] = E!Idle \/ editor'[s] = editor[s]
    BY <1>1, <1>2, <1>3, <1>4 DEF TitlesInv, E!Become
  <1> HIDE DEF y, asks
  <1>6. \A u \in Items : TitleShape(content'[u], asked'[u])
    BY <1>3, <1>5 DEF TitlesInv, TitleShape
  <1>7. \A s \in Requests : EditShape(editor[s])'
    BY <1>3, <1>5, NoTitle DEF TitlesInv, EditShape
  <1>8. E!KeepsTheRest
    <2> SUFFICES ASSUME NEW u \in Items, E!Exists(u)
                 PROVE  /\ ~E!Listed(u) => ~E!Listed(u)'
                        /\ E!Offered(u)' <=> E!Listed(u)' /\ asked'[u] = "published"
      BY DEF E!KeepsTheRest
    <2>1. content'[u].status = asked'[u]
      BY <1>5, NoTitle DEF TitlesInv, TitleShape, E!Exists
    <2>2. ~E!Listed(u) => ~E!Listed(u)'
      BY <1>1, <1>2, <1>3, <1>5 DEF E!Exists, E!Listed
    <2> QED
      BY <2>1, <2>2 DEF E!Offered
  <1> QED
    BY <1>5, <1>6, <1>7, <1>8 DEF TitlesInv

LEMMA TitlesStep ==
    ASSUME TitlesInv, E!Next
    PROVE  TitlesInv' /\ E!KeepsTheRest
  <1>1. ASSUME NEW r \in Requests, NEW q, EditShape(q), E!Become(r, q), E!UnchangedRows
        PROVE  TitlesInv' /\ E!KeepsTheRest
    BY <1>1, EditorGoesOn DEF E!UnchangedRows
  <1>2. ASSUME NEW r \in Requests, E!Edits(r) \/ E!Become(r, E!Idle), UNCHANGED <<content, asked>>
        PROVE  TitlesInv' /\ E!KeepsTheRest
    BY <1>2, NoTitle, EditorGoesOn DEF E!Edits, EditShape
  <1>3. ASSUME NEW r \in Requests, NEW t \in Items,
               \/ \E text \in Texts : E!UpdateContent(r, t, text)
               \/ \E status_ \in E!ContentStatus : E!PublishContent(r, t, status_)
               \/ E!DeleteContent(r, t)
        PROVE  TitlesInv' /\ E!KeepsTheRest
    <2>1. CASE \E text \in Texts : E!UpdateContent(r, t, text)
      <3>1. PICK text \in Texts : E!Load(r, t, [text |-> text])
        BY <2>1 DEF E!UpdateContent
      <3>2. DOMAIN [text |-> text] = {"text"}
        OBVIOUS
      <3> QED
        BY <3>1, <3>2, LoadStep DEF Columns
    <2>2. CASE \E status_ \in E!ContentStatus : E!PublishContent(r, t, status_)
      <3>1. PICK status_ \in E!ContentStatus : E!Load(r, t, [status |-> status_])
        BY <2>2 DEF E!PublishContent
      <3>2. DOMAIN [status |-> status_] = {"status"}
        OBVIOUS
      <3> QED
        BY <3>1, <3>2, LoadStep DEF Columns
    <2>3. CASE E!DeleteContent(r, t)
      <3>1. E!Load(r, t, [deleted |-> TRUE])
        BY <2>3 DEF E!DeleteContent
      <3>2. DOMAIN [deleted |-> TRUE] = {"deleted"} /\ [deleted |-> TRUE].deleted = TRUE
        OBVIOUS
      <3> QED
        BY <3>1, <3>2, LoadStep DEF Columns
    <2> QED
      BY <1>3, <2>1, <2>2, <2>3
  <1>4. ASSUME NEW r \in Requests,
               \/ \E token \in E!Tokens : E!Admit(r, token)
               \/ \E g \in Tags, name \in Names : E!LoadGenre(r, g, name)
               \/ \E t \in Items, text \in Texts \union {E!NoName} : E!LoadSeason(r, t, text)
               \/ E!Leave(r)
        PROVE  TitlesInv' /\ E!KeepsTheRest
    <2>1. PICK q : EditShape(q) /\ E!Become(r, q) /\ E!UnchangedRows
      BY <1>4, NoTitle DEF E!Admit, E!LoadGenre, E!LoadSeason, E!Leave, EditShape
    <2> QED
      BY <2>1, <1>1
  <1>5. ASSUME NEW r \in Requests,
               \/ \E g \in Tags, name \in Names : E!CreateGenre(r, g, name)
               \/ E!UpdateGenre(r)
               \/ \E g \in Tags : E!DeleteGenre(r, g)
               \/ \E t \in Items, text \in Texts : E!CreateSeason(r, t, text)
               \/ \E t, u \in Items : E!AddRecommendation(r, t, u)
               \/ E!CommitSeason(r)
        PROVE  TitlesInv' /\ E!KeepsTheRest
    <2>1. (E!Edits(r) \/ E!Become(r, E!Idle)) /\ UNCHANGED <<content, asked>>
      BY <1>5 DEF E!CreateGenre, E!UpdateGenre, E!DeleteGenre, E!CreateSeason, E!AddRecommendation,
                  E!CommitSeason
    <2> QED
      BY <2>1, <1>2
  <1>6. CASE E!StartReindex
    BY <1>6, EditorsRest DEF E!StartReindex
  <1> QED
    BY <1>3, <1>4, <1>5, <1>6, CreateContentStep, CommitContentStep DEF E!Next

LEMMA TitlesStart ==
    ASSUME E!Init
    PROVE  TitlesInv
  BY NoTitle DEF E!Init, TitlesInv, TitleShape, EditShape

-----------------------------------------------------------------------------
(* Recommendations *)

\* The row was made of the present preferences and of a title that was not removed.
Sound(row) == row.of = preferences /\ row.title \notin evicted

\* A request under way, when no other is.
AskShape(q) ==
    /\ q.at = "stamped" => q.kind = "put" /\ q.lists = clock
    /\ q.at = "committed" => q.kind = "put" /\ q.lists = clock
    /\ q.at \in {"missed", "generating", "fetched", "cleared"} =>
          /\ q.lists = preferences
          /\ q.kind # "put" => q.began = preferences /\ q.hidden = evicted
    /\ q.at = "missed" => q.kind # "put"
    /\ q.at \in {"missed", "generating", "fetched", "cleared", "caching"} => cache = K!NoCache
    /\ q.at \in {"fetched", "cleared"} => q.titles \subseteq published
    /\ q.at = "cleared" => q.deleted = rows
    /\ q.at = "caching" =>
          /\ q.began = preferences /\ q.hidden = evicted
          /\ \A row \in q.result : row \in rows /\ Sound(row)

\* No request is at one of these places.
NoneAt(places) == \A r \in Asks : ask[r].at \notin places

\* While requests do not overlap, the rows are older than the preferences or made of
\* them, and what is cached are rows made of them, unless the one request is about to
\* change the preferences or to empty the cache.
ListsCalm ==
    /\ \A r, s \in Asks : K!Under(r) /\ K!Under(s) => r = s
    /\ \A r \in Asks : K!Under(r) => gone = {} /\ AskShape(ask[r])
    /\ \/ \A row \in rows : row.made < clock
       \/ NoneAt({"stamped", "committed"}) /\ \A row \in rows : Sound(row)
    /\ NoneAt({"stamped"}) => preferences = clock
    /\ cache # K!NoCache /\ NoneAt({"stamped", "committed", "evicting"})
          => \A row \in cache.result : row \in rows /\ Sound(row)

ListsBase ==
    /\ DOMAIN ask = Asks
    /\ clock \in Nat /\ preferences \in Nat
    /\ \A r \in Asks : ask[r].at = "stamped" => ask[r].lists \in Nat
    /\ \A row \in rows : row.made \in Nat /\ row.made <= clock
    /\ published \intersect (gone \union evicted) = {}

ListsInv == ListsBase /\ (~mixed => ListsCalm)

\* What the request r does to the requests.
GoesOn(r, q) ==
    /\ DOMAIN ask' = Asks /\ ask'[r] = q
    /\ \A s \in Asks : s # r => ask'[s] = ask[s]

LEMMA AskGoesOn ==
    ASSUME ListsInv, NEW r \in Asks, NEW q, ask' = [ask EXCEPT ![r] = q]
    PROVE  GoesOn(r, q)
  BY DEF ListsInv, ListsBase, GoesOn

\* When the requests other than r are over, what is calm is a matter of q.
LEMMA CalmGoesOn ==
    ASSUME NEW r \in Asks, \A s \in Asks : s # r => ask'[s] = ask[s] /\ ~K!Under(s),
           gone' = {}, AskShape(ask[r])',
           \/ \A row \in rows' : row.made < clock'
           \/ ask'[r].at \notin {"stamped", "committed"} /\ \A row \in rows' : Sound(row)',
           ask'[r].at # "stamped" => preferences' = clock',
           cache' # K!NoCache /\ ask'[r].at \notin {"stamped", "committed", "evicting"}
               => \A row \in cache'.result : row \in rows' /\ Sound(row)'
    PROVE  ListsCalm'
  <1>1. \A s \in Asks : s # r => ~K!Under(s)'
    BY DEF K!Under
  <1>2. /\ NoneAt({"stamped"})' => ask'[r].at # "stamped"
        /\ NoneAt({"stamped", "committed", "evicting"})' =>
               ask'[r].at \notin {"stamped", "committed", "evicting"}
        /\ ask'[r].at \notin {"stamped", "committed"} => NoneAt({"stamped", "committed"})'
    BY <1>1 DEF NoneAt, K!Under
  <1>3. K!NoCache' = K!NoCache
    BY DEF K!NoCache
  <1> QED
    BY <1>1, <1>2, <1>3 DEF ListsCalm

LEMMA AskBegins ==
    ASSUME ListsInv, NEW r \in Asks, NEW q, NEW alone \in BOOLEAN, K!Begins(r, q, alone)
    PROVE  /\ GoesOn(r, q)
           /\ ~mixed' => gone = {} /\ (\A s \in Asks : ~K!Under(s)) /\ (alone \/ ~mixed)
  BY AskGoesOn DEF K!Begins

\* In a calm run the request that takes a step is the one that is under way.
LEMMA AloneUnder ==
    ASSUME ListsInv, ~mixed, NEW r \in Asks, K!Under(r)
    PROVE  /\ gone = {} /\ AskShape(ask[r])
           /\ \A s \in Asks : s # r => ~K!Under(s)
  BY DEF ListsInv, ListsCalm

LEMMA ServeCachedStep ==
    ASSUME ListsInv, NEW r \in Asks, K!ServeCached(r)
    PROVE  ListsInv' /\ K!ServesCurrent
  <1> DEFINE q == [at |-> "answered", result |-> cache.result,
                   began |-> preferences, hidden |-> evicted]
  <1>1. K!Begins(r, q, FALSE)
    BY DEF K!ServeCached
  <1>2. GoesOn(r, q) /\ (~mixed' => gone = {} /\ (\A s \in Asks : ~K!Under(s)) /\ ~mixed)
    BY <1>1, AskBegins
  <1>3. q.at = "answered" /\ q.result = cache.result /\ q.began = preferences /\ q.hidden = evicted
    OBVIOUS
  <1> HIDE DEF q
  <1>4. ListsBase'
    BY <1>2, <1>3 DEF ListsInv, ListsBase, GoesOn, K!ServeCached, K!UnchangedCatalogue
  <1>5. ASSUME ~mixed' PROVE ListsCalm' /\ \A row \in cache.result : row \in rows /\ Sound(row)
    <2>1. ListsCalm /\ cache # K!NoCache /\ (\A s \in Asks : ~K!Under(s))
      BY <1>2, <1>5 DEF ListsInv, K!ServeCached
    <2>2. \A row \in cache.result : row \in rows /\ Sound(row)
      BY <2>1 DEF ListsCalm, NoneAt, K!Under
    <2>3. \A s \in Asks : ~K!Under(s)'
      BY <1>2, <1>3, <2>1 DEF GoesOn, K!Under
    <2>4. NoneAt({"stamped"}) /\ NoneAt({"stamped", "committed"})
      BY <2>1 DEF NoneAt, K!Under
    <2>5. NoneAt({"stamped"})' /\ NoneAt({"stamped", "committed"})'
      BY <2>3 DEF NoneAt, K!Under
    <2> QED
      BY <2>1, <2>2, <2>3, <2>4, <2>5 DEF ListsCalm, Sound, K!ServeCached, K!UnchangedCatalogue
  <1>6. K!ServesCurrent
    BY <1>2, <1>3, <1>5 DEF K!ServesCurrent, GoesOn, K!At, Sound, ListsInv, ListsBase
  <1> QED
    BY <1>4, <1>5 , <1>6 DEF ListsInv

LEMMA MissStep ==
    ASSUME ListsInv, NEW r \in Asks, K!Miss(r)
    PROVE  ListsInv' /\ K!ServesCurrent
  <1> DEFINE q == [at |-> "missed", kind |-> "get", lists |-> preferences,
                   began |-> preferences, hidden |-> evicted]
  <1>1. K!Begins(r, q, FALSE)
    BY DEF K!Miss
  <1>2. GoesOn(r, q) /\ (~mixed' => gone = {} /\ (\A s \in Asks : ~K!Under(s)) /\ ~mixed)
    BY <1>1, AskBegins
  <1>3. q.at = "missed" /\ q.kind = "get" /\ q.lists = preferences /\ q.began = preferences
        /\ q.hidden = evicted
    OBVIOUS
  <1> HIDE DEF q
  <1>4. ListsBase'
    BY <1>2, <1>3 DEF ListsInv, ListsBase, GoesOn, K!Miss, K!UnchangedCatalogue
  <1>5. ASSUME ~mixed' PROVE ListsCalm'
    <2>1. ListsCalm /\ cache = K!NoCache /\ gone = {} /\ (\A s \in Asks : ~K!Under(s))
      BY <1>2, <1>5 DEF ListsInv, K!Miss
    <2>2. NoneAt({"stamped"})
      BY <2>1 DEF NoneAt, K!Under
    <2>3. AskShape(ask[r])'
      BY <1>2, <1>3 DEF GoesOn, AskShape, K!NoCache, K!Miss, K!UnchangedCatalogue
    <2> QED
      BY <1>2, <1>3, <2>1, <2>2, <2>3, CalmGoesOn
      DEF GoesOn, ListsCalm, Sound, K!Miss, K!UnchangedCatalogue
  <1>6. K!ServesCurrent
    BY <1>2, <1>3 DEF K!ServesCurrent, GoesOn, K!At
  <1> QED
    BY <1>4, <1>5, <1>6 DEF ListsInv

LEMMA FetchCatalogueStep ==
    ASSUME ListsInv, NEW r \in Asks, K!FetchCatalogue(r)
    PROVE  ListsInv' /\ K!ServesCurrent
  <1> DEFINE q == [at |-> "fetched", kind |-> ask[r].kind, lists |-> ask[r].lists,
                   titles |-> published, began |-> ask[r].began, hidden |-> ask[r].hidden]
  <1>1. GoesOn(r, q)
    BY AskGoesOn DEF K!FetchCatalogue
  <1>2. q.at = "fetched" /\ q.kind = ask[r].kind /\ q.lists = ask[r].lists
        /\ q.titles = published /\ q.began = ask[r].began /\ q.hidden = ask[r].hidden
    OBVIOUS
  <1> HIDE DEF q
  <1>3. ListsBase'
    BY <1>1, <1>2 DEF ListsInv, ListsBase, GoesOn, K!FetchCatalogue, K!UnchangedCatalogue
  <1>4. ask[r].at = "generating" /\ K!Under(r)
    BY DEF K!FetchCatalogue, K!At, K!Under
  <1>5. ASSUME ~mixed' PROVE ListsCalm'
    <2>1. ~mixed /\ ListsCalm
      BY <1>5 DEF K!FetchCatalogue, ListsInv
    <2>2. /\ gone = {} /\ AskShape(ask[r])
          /\ \A s \in Asks : s # r => ~K!Under(s)
      BY <1>4, <2>1, AloneUnder
    <2>3. /\ NoneAt({"stamped"}) <=> ask[r].at # "stamped"
          /\ NoneAt({"stamped", "committed"}) <=> ask[r].at \notin {"stamped", "committed"}
          /\ NoneAt({"stamped", "committed", "evicting"})
                 <=> ask[r].at \notin {"stamped", "committed", "evicting"}
      BY <2>2 DEF NoneAt, K!Under
    <2>4. AskShape(ask[r])'
      BY <1>1, <1>2, <1>4, <1>5, <2>1, <2>2, <2>3
      DEF GoesOn, AskShape, Sound, ListsCalm, K!NoCache, K!FetchCatalogue, K!UnchangedCatalogue
    <2> QED
      BY <1>1, <1>2, <1>4, <1>5, <2>1, <2>2, <2>3, <2>4, CalmGoesOn
      DEF GoesOn, ListsCalm, AskShape, Sound, K!FetchCatalogue, K!UnchangedCatalogue
  <1>6. K!ServesCurrent
    BY <1>1, <1>2 DEF K!ServesCurrent, GoesOn, K!At
  <1> QED
    BY <1>3, <1>5, <1>6 DEF ListsInv

LEMMA ClearStep ==
    ASSUME ListsInv, NEW r \in Asks, K!Clear(r)
    PROVE  ListsInv' /\ K!ServesCurrent
  <1> DEFINE q == [at |-> "cleared", kind |-> ask[r].kind, lists |-> ask[r].lists,
                   titles |-> ask[r].titles, deleted |-> rows,
                   began |-> ask[r].began, hidden |-> ask[r].hidden]
  <1>1. GoesOn(r, q)
    BY AskGoesOn DEF K!Clear
  <1>2. q.at = "cleared" /\ q.kind = ask[r].kind /\ q.lists = ask[r].lists /\ q.deleted = rows
        /\ q.titles = ask[r].titles /\ q.began = ask[r].began /\ q.hidden = ask[r].hidden
    OBVIOUS
  <1> HIDE DEF q
  <1>3. ListsBase'
    BY <1>1, <1>2 DEF ListsInv, ListsBase, GoesOn, K!Clear, K!UnchangedCatalogue
  <1>4. ask[r].at = "fetched" /\ K!Under(r)
    BY DEF K!Clear, K!At, K!Under
  <1>5. ASSUME ~mixed' PROVE ListsCalm'
    <2>1. ~mixed /\ ListsCalm
      BY <1>5 DEF K!Clear, ListsInv
    <2>2. /\ gone = {} /\ AskShape(ask[r])
          /\ \A s \in Asks : s # r => ~K!Under(s)
      BY <1>4, <2>1, AloneUnder
    <2>3. /\ NoneAt({"stamped"}) <=> ask[r].at # "stamped"
          /\ NoneAt({"stamped", "committed"}) <=> ask[r].at \notin {"stamped", "committed"}
          /\ NoneAt({"stamped", "committed", "evicting"})
                 <=> ask[r].at \notin {"stamped", "committed", "evicting"}
      BY <2>2 DEF NoneAt, K!Under
    <2>4. AskShape(ask[r])'
      BY <1>1, <1>2, <1>4, <1>5, <2>1, <2>2, <2>3
      DEF GoesOn, AskShape, Sound, ListsCalm, K!NoCache, K!Clear, K!UnchangedCatalogue
    <2> QED
      BY <1>1, <1>2, <1>4, <1>5, <2>1, <2>2, <2>3, <2>4, CalmGoesOn
      DEF GoesOn, ListsCalm, AskShape, Sound, K!Clear, K!UnchangedCatalogue
  <1>6. K!ServesCurrent
    BY <1>1, <1>2 DEF K!ServesCurrent, GoesOn, K!At
  <1> QED
    BY <1>3, <1>5, <1>6 DEF ListsInv

LEMMA AnswerStep ==
    ASSUME ListsInv, NEW r \in Asks, K!Answer(r)
    PROVE  ListsInv' /\ K!ServesCurrent
  <1> DEFINE q == [at |-> "answered", result |-> ask[r].result,
                   began |-> ask[r].began, hidden |-> ask[r].hidden]
  <1>1. GoesOn(r, q)
    BY AskGoesOn DEF K!Answer
  <1>2. q.at = "answered" /\ q.result = ask[r].result /\ q.began = ask[r].began
        /\ q.hidden = ask[r].hidden
    OBVIOUS
  <1> HIDE DEF q
  <1>3. ListsBase'
    BY <1>1, <1>2 DEF ListsInv, ListsBase, GoesOn, K!Answer, K!UnchangedCatalogue
  <1>4. ask[r].at = "caching" /\ K!Under(r)
    BY DEF K!Answer, K!At, K!Under
  <1>5. ASSUME ~mixed' PROVE ListsCalm' /\ AskShape(ask[r])
    <2>1. ~mixed /\ ListsCalm
      BY <1>5 DEF K!Answer, ListsInv, K!Redis
    <2>2. /\ gone = {} /\ AskShape(ask[r])
          /\ \A s \in Asks : s # r => ~K!Under(s)
      BY <1>4, <2>1, AloneUnder
    <2>3. /\ NoneAt({"stamped"}) <=> ask[r].at # "stamped"
          /\ NoneAt({"stamped", "committed"}) <=> ask[r].at \notin {"stamped", "committed"}
          /\ NoneAt({"stamped", "committed", "evicting"})
                 <=> ask[r].at \notin {"stamped", "committed", "evicting"}
      BY <2>2 DEF NoneAt, K!Under
    <2>4. AskShape(ask[r])'
      BY <1>1, <1>2, <1>4, <1>5, <2>1, <2>2, <2>3
      DEF GoesOn, AskShape, Sound, ListsCalm, K!NoCache, K!Answer, K!UnchangedCatalogue, K!Redis
    <2> QED
      BY <1>1, <1>2, <1>4, <1>5, <2>1, <2>2, <2>3, <2>4, CalmGoesOn
      DEF GoesOn, ListsCalm, AskShape, Sound, K!Answer, K!UnchangedCatalogue, K!Redis, K!Cached
  <1>6. K!ServesCurrent
    BY <1>1, <1>2, <1>4, <1>5
    DEF K!ServesCurrent, GoesOn, K!At, AskShape, Sound, ListsInv, ListsBase
  <1> QED
    BY <1>3, <1>5, <1>6 DEF ListsInv

LEMMA CommitPreferencesStep ==
    ASSUME ListsInv, NEW r \in Asks, K!CommitPreferences(r)
    PROVE  ListsInv' /\ K!ServesCurrent
  <1> DEFINE q == [at |-> "committed", kind |-> ask[r].kind, lists |-> ask[r].lists,
                   began |-> ask[r].began, hidden |-> ask[r].hidden]
  <1>1. GoesOn(r, q)
    BY AskGoesOn DEF K!CommitPreferences
  <1>2. q.at = "committed" /\ q.kind = ask[r].kind /\ q.lists = ask[r].lists
    OBVIOUS
  <1> HIDE DEF q
  <1>3. ListsBase'
    BY <1>1, <1>2 DEF ListsInv, ListsBase, GoesOn, K!CommitPreferences, K!UnchangedCatalogue, K!At
  <1>4. ask[r].at = "stamped" /\ K!Under(r)
    BY DEF K!CommitPreferences, K!At, K!Under
  <1>5. ASSUME ~mixed' PROVE ListsCalm'
    <2>1. ~mixed /\ ListsCalm
      BY <1>5 DEF K!CommitPreferences, ListsInv
    <2>2. /\ gone = {} /\ AskShape(ask[r])
          /\ \A s \in Asks : s # r => ~K!Under(s)
      BY <1>4, <2>1, AloneUnder
    <2>3. /\ NoneAt({"stamped"}) <=> ask[r].at # "stamped"
          /\ NoneAt({"stamped", "committed"}) <=> ask[r].at \notin {"stamped", "committed"}
          /\ NoneAt({"stamped", "committed", "evicting"})
                 <=> ask[r].at \notin {"stamped", "committed", "evicting"}
      BY <2>2 DEF NoneAt, K!Under
    <2>4. AskShape(ask[r])'
      BY <1>1, <1>2, <1>4, <1>5, <2>1, <2>2, <2>3
      DEF GoesOn, AskShape, Sound, ListsCalm, K!NoCache, K!CommitPreferences, K!UnchangedCatalogue
    <2> QED
      BY <1>1, <1>2, <1>4, <1>5, <2>1, <2>2, <2>3, <2>4, CalmGoesOn
      DEF GoesOn, ListsCalm, AskShape, Sound, K!CommitPreferences, K!UnchangedCatalogue
  <1>6. K!ServesCurrent
    BY <1>1, <1>2 DEF K!ServesCurrent, GoesOn, K!At
  <1> QED
    BY <1>3, <1>5, <1>6 DEF ListsInv

LEMMA InvalidateStep ==
    ASSUME ListsInv, NEW r \in Asks, K!Invalidate(r)
    PROVE  ListsInv' /\ K!ServesCurrent
  <1> DEFINE q == [at |-> "generating", kind |-> ask[r].kind, lists |-> ask[r].lists,
                   stored |-> {}, began |-> ask[r].began, hidden |-> ask[r].hidden]
  <1>1. GoesOn(r, q)
    BY AskGoesOn DEF K!Invalidate
  <1>2. q.at = "generating" /\ q.kind = ask[r].kind /\ q.lists = ask[r].lists
    OBVIOUS
  <1> HIDE DEF q
  <1>3. ListsBase'
    BY <1>1, <1>2 DEF ListsInv, ListsBase, GoesOn, K!Invalidate, K!UnchangedCatalogue
  <1>4. ask[r].at = "committed" /\ K!Under(r)
    BY DEF K!Invalidate, K!At, K!Under
  <1>5. ASSUME ~mixed' PROVE ListsCalm'
    <2>1. ~mixed /\ ListsCalm
      BY <1>5 DEF K!Invalidate, ListsInv, K!Redis
    <2>2. /\ gone = {} /\ AskShape(ask[r])
          /\ \A s \in Asks : s # r => ~K!Under(s)
      BY <1>4, <2>1, AloneUnder
    <2>3. /\ NoneAt({"stamped"}) <=> ask[r].at # "stamped"
          /\ NoneAt({"stamped", "committed"}) <=> ask[r].at \notin {"stamped", "committed"}
          /\ NoneAt({"stamped", "committed", "evicting"})
                 <=> ask[r].at \notin {"stamped", "committed", "evicting"}
      BY <2>2 DEF NoneAt, K!Under
    <2>4. AskShape(ask[r])'
      BY <1>1, <1>2, <1>4, <1>5, <2>1, <2>2, <2>3
      DEF GoesOn, AskShape, Sound, ListsCalm, K!NoCache, K!Invalidate, K!UnchangedCatalogue, K!Redis
    <2> QED
      BY <1>1, <1>2, <1>4, <1>5, <2>1, <2>2, <2>3, <2>4, CalmGoesOn
      DEF GoesOn, ListsCalm, AskShape, Sound, K!Invalidate, K!UnchangedCatalogue, K!Redis
  <1>6. K!ServesCurrent
    BY <1>1, <1>2 DEF K!ServesCurrent, GoesOn, K!At
  <1> QED
    BY <1>3, <1>5, <1>6 DEF ListsInv

LEMMA EvictUserStep ==
    ASSUME ListsInv, NEW r \in Asks, K!EvictUser(r)
    PROVE  ListsInv' /\ K!ServesCurrent
  <1> DEFINE q == [at |-> "done"]
  <1>1. GoesOn(r, q)
    BY AskGoesOn DEF K!EvictUser
  <1>2. q.at = "done"
    OBVIOUS
  <1> HIDE DEF q
  <1>3. ListsBase'
    BY <1>1, <1>2 DEF ListsInv, ListsBase, GoesOn, K!EvictUser, K!UnchangedCatalogue
  <1>4. ask[r].at = "evicting" /\ K!Under(r)
    BY DEF K!EvictUser, K!At, K!Under
  <1>5. ASSUME ~mixed' PROVE ListsCalm'
    <2>1. ~mixed /\ ListsCalm
      BY <1>5 DEF K!EvictUser, ListsInv, K!Redis
    <2>2. /\ gone = {} /\ AskShape(ask[r])
          /\ \A s \in Asks : s # r => ~K!Under(s)
      BY <1>4, <2>1, AloneUnder
    <2>3. /\ NoneAt({"stamped"}) <=> ask[r].at # "stamped"
          /\ NoneAt({"stamped", "committed"}) <=> ask[r].at \notin {"stamped", "committed"}
          /\ NoneAt({"stamped", "committed", "evicting"})
                 <=> ask[r].at \notin {"stamped", "committed", "evicting"}
      BY <2>2 DEF NoneAt, K!Under
    <2>4. AskShape(ask[r])'
      BY <1>1, <1>2, <1>4, <1>5, <2>1, <2>2, <2>3
      DEF GoesOn, AskShape, Sound, ListsCalm, K!NoCache, K!EvictUser, K!UnchangedCatalogue, K!Redis
    <2> QED
      BY <1>1, <1>2, <1>4, <1>5, <2>1, <2>2, <2>3, <2>4, CalmGoesOn
      DEF GoesOn, ListsCalm, AskShape, Sound, K!EvictUser, K!UnchangedCatalogue, K!Redis
  <1>6. K!ServesCurrent
    BY <1>1, <1>2 DEF K!ServesCurrent, GoesOn, K!At
  <1> QED
    BY <1>3, <1>5, <1>6 DEF ListsInv

LEMMA ReadRowsStep ==
    ASSUME ListsInv, NEW r \in Asks, K!ReadRows(r)
    PROVE  ListsInv' /\ K!ServesCurrent
  <1>1. PICK q : GoesOn(r, q) /\ q = IF K!Fresh(rows, ask[r].lists)
           THEN [at |-> "caching", result |-> rows, began |-> ask[r].began, hidden |-> ask[r].hidden]
           ELSE [at |-> "generating", kind |-> ask[r].kind, lists |-> ask[r].lists, stored |-> rows,
                 began |-> ask[r].began, hidden |-> ask[r].hidden]
    BY AskGoesOn DEF K!ReadRows
  <1>2. /\ q.at \in {"caching", "generating"}
        /\ q.at = "caching" =>
              /\ q.result = rows /\ K!Fresh(rows, ask[r].lists)
              /\ q.began = ask[r].began /\ q.hidden = ask[r].hidden
        /\ q.at = "generating" =>
              /\ q.kind = ask[r].kind /\ q.lists = ask[r].lists
              /\ q.began = ask[r].began /\ q.hidden = ask[r].hidden
    BY <1>1
  <1>3. ListsBase'
    BY <1>1, <1>2 DEF ListsInv, ListsBase, GoesOn, K!ReadRows, K!UnchangedCatalogue
  <1>4. ask[r].at = "missed" /\ K!Under(r)
    BY DEF K!ReadRows, K!At, K!Under
  <1>5. ASSUME ~mixed' PROVE ListsCalm'
    <2>1. ~mixed /\ ListsCalm
      BY <1>5 DEF K!ReadRows, ListsInv
    <2>2. /\ gone = {} /\ AskShape(ask[r])
          /\ \A s \in Asks : s # r => ~K!Under(s)
      BY <1>4, <2>1, AloneUnder
    <2>3. /\ NoneAt({"stamped"}) <=> ask[r].at # "stamped"
          /\ NoneAt({"stamped", "committed"}) <=> ask[r].at \notin {"stamped", "committed"}
          /\ NoneAt({"stamped", "committed", "evicting"})
                 <=> ask[r].at \notin {"stamped", "committed", "evicting"}
      BY <2>2 DEF NoneAt, K!Under
    <2>4. /\ K!Fresh(rows, ask[r].lists) => \A row \in rows : Sound(row)
          /\ ask[r].kind # "put" \/ q.at = "generating"
      BY <1>2, <1>4, <2>1, <2>2, <2>3 DEF ListsInv, ListsBase, ListsCalm, AskShape, K!Fresh
    <2>5. AskShape(ask[r])'
      BY <1>1, <1>2, <1>4, <2>1, <2>2, <2>3, <2>4
      DEF GoesOn, AskShape, Sound, ListsCalm, K!NoCache, K!ReadRows, K!UnchangedCatalogue
    <2> QED
      BY <1>1, <1>2, <1>4, <1>5, <2>1, <2>2, <2>3, <2>4, <2>5, CalmGoesOn
      DEF GoesOn, ListsCalm, AskShape, Sound, K!ReadRows, K!UnchangedCatalogue
  <1>6. K!ServesCurrent
    BY <1>1, <1>2 DEF K!ServesCurrent, GoesOn, K!At
  <1> QED
    BY <1>3, <1>5, <1>6 DEF ListsInv

LEMMA FetchFailsStep ==
    ASSUME ListsInv, NEW r \in Asks, K!FetchFails(r)
    PROVE  ListsInv' /\ K!ServesCurrent
  <1>1. PICK q : GoesOn(r, q) /\ q = IF ask[r].kind = "put" THEN [at |-> "done"]
           ELSE IF ask[r].stored # {} THEN [at |-> "failed"]
           ELSE [at |-> "caching", result |-> {}, began |-> ask[r].began, hidden |-> ask[r].hidden]
    BY AskGoesOn DEF K!FetchFails
  <1>2. /\ q.at \in {"caching", "done", "failed"}
        /\ q.at = "caching" =>
              /\ q.result = {} /\ ask[r].kind # "put"
              /\ q.began = ask[r].began /\ q.hidden = ask[r].hidden
    BY <1>1
  <1>3. ListsBase'
    BY <1>1, <1>2 DEF ListsInv, ListsBase, GoesOn, K!FetchFails, K!UnchangedCatalogue
  <1>4. ask[r].at = "generating" /\ K!Under(r)
    BY DEF K!FetchFails, K!At, K!Under
  <1>5. ASSUME ~mixed' PROVE ListsCalm'
    <2>1. ~mixed /\ ListsCalm
      BY <1>5 DEF K!FetchFails, ListsInv
    <2>2. /\ gone = {} /\ AskShape(ask[r])
          /\ \A s \in Asks : s # r => ~K!Under(s)
      BY <1>4, <2>1, AloneUnder
    <2>3. /\ NoneAt({"stamped"}) <=> ask[r].at # "stamped"
          /\ NoneAt({"stamped", "committed"}) <=> ask[r].at \notin {"stamped", "committed"}
          /\ NoneAt({"stamped", "committed", "evicting"})
                 <=> ask[r].at \notin {"stamped", "committed", "evicting"}
      BY <2>2 DEF NoneAt, K!Under
    <2>4. TRUE
      OBVIOUS
    <2>5. AskShape(ask[r])'
      BY <1>1, <1>2, <1>4, <2>1, <2>2, <2>3, <2>4
      DEF GoesOn, AskShape, Sound, ListsCalm, K!NoCache, K!FetchFails, K!UnchangedCatalogue
    <2> QED
      BY <1>1, <1>2, <1>4, <1>5, <2>1, <2>2, <2>3, <2>4, <2>5, CalmGoesOn
      DEF GoesOn, ListsCalm, AskShape, Sound, K!FetchFails, K!UnchangedCatalogue
  <1>6. K!ServesCurrent
    BY <1>1, <1>2 DEF K!ServesCurrent, GoesOn, K!At
  <1> QED
    BY <1>3, <1>5, <1>6 DEF ListsInv

LEMMA StoreStep ==
    ASSUME ListsInv, NEW r \in Asks, K!Store(r)
    PROVE  ListsInv' /\ K!ServesCurrent
  <1>1. PICK q : GoesOn(r, q) /\ q = IF ask[r].kind = "put" THEN [at |-> "done"]
           ELSE [at |-> "caching", result |-> rows', began |-> ask[r].began, hidden |-> ask[r].hidden]
    BY AskGoesOn DEF K!Store, K!Generated
  <1>2. /\ q.at \in {"caching", "done"}
        /\ q.at = "caching" =>
              /\ q.result = rows' /\ ask[r].kind # "put"
              /\ q.began = ask[r].began /\ q.hidden = ask[r].hidden
    BY <1>1
  <1>3. ListsBase'
    BY <1>1, <1>2 DEF ListsInv, ListsBase, GoesOn, K!Store, K!UnchangedCatalogue, K!Generated
  <1>4. ask[r].at = "cleared" /\ K!Under(r)
    BY DEF K!Store, K!At, K!Under
  <1>5. ASSUME ~mixed' PROVE ListsCalm'
    <2>1. ~mixed /\ ListsCalm
      BY <1>5 DEF K!Store, ListsInv
    <2>2. /\ gone = {} /\ AskShape(ask[r])
          /\ \A s \in Asks : s # r => ~K!Under(s)
      BY <1>4, <2>1, AloneUnder
    <2>3. /\ NoneAt({"stamped"}) <=> ask[r].at # "stamped"
          /\ NoneAt({"stamped", "committed"}) <=> ask[r].at \notin {"stamped", "committed"}
          /\ NoneAt({"stamped", "committed", "evicting"})
                 <=> ask[r].at \notin {"stamped", "committed", "evicting"}
      BY <2>2 DEF NoneAt, K!Under
    <2>4. \A row \in rows' : Sound(row)'
      <3>1. ask[r].deleted = rows /\ ask[r].titles \subseteq published /\ ask[r].lists = preferences
        BY <1>4, <2>2 DEF AskShape
      <3>2. rows' = K!Generated(r)
        BY <3>1 DEF K!Store
      <3>3. \A row \in K!Generated(r) : row.of = preferences /\ row.title \in published
        BY <3>1 DEF K!Generated
      <3>4. published \intersect evicted = {} /\ UNCHANGED <<preferences, evicted>>
        BY DEF K!Store, K!UnchangedCatalogue, ListsInv, ListsBase
      <3> QED
        BY <3>2, <3>3, <3>4 DEF Sound
    <2>5. AskShape(ask[r])'
      BY <1>1, <1>2, <1>4, <2>1, <2>2, <2>3, <2>4
      DEF GoesOn, AskShape, Sound, ListsCalm, K!NoCache, K!Store, K!UnchangedCatalogue
    <2> QED
      BY <1>1, <1>2, <1>4, <1>5, <2>1, <2>2, <2>3, <2>4, <2>5, CalmGoesOn
      DEF GoesOn, ListsCalm, AskShape, Sound, K!Store, K!UnchangedCatalogue
  <1>6. K!ServesCurrent
    BY <1>1, <1>2 DEF K!ServesCurrent, GoesOn, K!At
  <1> QED
    BY <1>3, <1>5, <1>6 DEF ListsInv

LEMMA StampStep ==
    ASSUME ListsInv, NEW r \in Asks, K!Stamp(r)
    PROVE  ListsInv' /\ K!ServesCurrent
  <1> DEFINE q == [at |-> "stamped", kind |-> "put", lists |-> clock + 1,
                   began |-> 0, hidden |-> {}]
  <1>1. K!Begins(r, q, TRUE)
    BY DEF K!Stamp
  <1>2. GoesOn(r, q) /\ (~mixed' => gone = {} /\ \A s \in Asks : ~K!Under(s))
    BY <1>1, AskBegins
  <1>3. q.at = "stamped" /\ q.kind = "put" /\ q.lists = clock + 1
    OBVIOUS
  <1> HIDE DEF q
  <1>4. ListsBase'
    BY <1>2, <1>3 DEF ListsInv, ListsBase, GoesOn, K!Stamp, K!UnchangedCatalogue
  <1>5. ASSUME ~mixed' PROVE ListsCalm'
    <2>1. \A row \in rows' : row.made < clock'
      BY DEF ListsInv, ListsBase, K!Stamp
    <2>2. AskShape(ask[r])'
      BY <1>2, <1>3 DEF GoesOn, AskShape, K!Stamp
    <2> QED
      BY <1>2, <1>3, <1>5, <2>1, <2>2, CalmGoesOn DEF GoesOn, K!Stamp, K!UnchangedCatalogue
  <1>6. K!ServesCurrent
    BY <1>2, <1>3 DEF K!ServesCurrent, GoesOn, K!At
  <1> QED
    BY <1>4, <1>5, <1>6 DEF ListsInv

LEMMA SubscriptionChangesStep ==
    ASSUME ListsInv, NEW r \in Asks, K!SubscriptionChanges(r)
    PROVE  ListsInv' /\ K!ServesCurrent
  <1> DEFINE q == [at |-> "evicting"]
  <1>1. K!Begins(r, q, FALSE)
    BY DEF K!SubscriptionChanges
  <1>2. GoesOn(r, q) /\ (~mixed' => gone = {} /\ (\A s \in Asks : ~K!Under(s)) /\ ~mixed)
    BY <1>1, AskBegins
  <1>3. q.at = "evicting"
    OBVIOUS
  <1> HIDE DEF q
  <1>4. ListsBase'
    BY <1>2, <1>3 DEF ListsInv, ListsBase, GoesOn, K!SubscriptionChanges, K!UnchangedCatalogue
  <1>5. ASSUME ~mixed' PROVE ListsCalm'
    <2>1. ListsCalm /\ NoneAt({"stamped"})
      BY <1>2, <1>5 DEF ListsInv, NoneAt, K!Under
    <2>2. AskShape(ask[r])'
      BY <1>2, <1>3 DEF GoesOn, AskShape
    <2> QED
      BY <1>2, <1>3, <1>5, <2>1, <2>2, CalmGoesOn
      DEF GoesOn, ListsCalm, K!SubscriptionChanges, K!UnchangedCatalogue
  <1>6. K!ServesCurrent
    BY <1>2, <1>3 DEF K!ServesCurrent, GoesOn, K!At
  <1> QED
    BY <1>4, <1>5, <1>6 DEF ListsInv

LEMMA TakeDownStep ==
    ASSUME ListsInv, NEW t \in Titles, K!TakeDown(t)
    PROVE  ListsInv' /\ K!ServesCurrent
  <1>1. ListsBase'
    BY DEF ListsInv, ListsBase, K!TakeDown
  <1>2. ASSUME ~mixed' PROVE ListsCalm'
    <2>1. ListsCalm /\ \A r \in Asks : ~K!Under(r)
      BY <1>2 DEF ListsInv, K!TakeDown
    <2> QED
      BY <2>1 DEF ListsCalm, NoneAt, Sound, K!TakeDown, K!Under, K!NoCache
  <1>3. K!ServesCurrent
    BY DEF K!ServesCurrent, K!At, K!TakeDown
  <1> QED
    BY <1>1, <1>2, <1>3 DEF ListsInv

LEMMA EvictTitleStep ==
    ASSUME ListsInv, NEW t \in Titles, K!EvictTitle(t)
    PROVE  ListsInv' /\ K!ServesCurrent
  <1> DEFINE ofTitle == {row \in rows : row.title = t}
  <1>1. /\ t \in gone /\ rows' = rows \ ofTitle
        /\ gone' = gone \ {t} /\ evicted' = evicted \union {t}
        /\ UNCHANGED <<preferences, clock, published, ask>>
        /\ \/ ofTitle = {} /\ UNCHANGED <<cache, mixed>>
           \/ cache' = K!NoCache /\ UNCHANGED mixed
           \/ mixed' = TRUE
    BY DEF K!EvictTitle, K!Redis
  <1>2. ListsBase'
    BY <1>1 DEF ListsInv, ListsBase
  <1>3. ASSUME ~mixed' PROVE ListsCalm'
    <2>1. ListsCalm /\ \A r \in Asks : ~K!Under(r)
      BY <1>1, <1>3 DEF ListsInv, ListsCalm
    <2>2. /\ \A row \in rows' : row \in rows /\ row.title # t
          /\ \A row \in rows : ofTitle = {} => row.title # t
      BY <1>1
    <2>3. NoneAt({"stamped"}) /\ NoneAt({"stamped", "committed"})
          /\ NoneAt({"stamped", "committed", "evicting"})
      BY <2>1 DEF NoneAt, K!Under
    <2>4. \A row \in rows' : Sound(row) => Sound(row)'
      BY <1>1, <2>2 DEF Sound
    <2>5. cache' # K!NoCache => \A row \in cache'.result : row \in rows' /\ Sound(row)'
      BY <1>1, <1>3, <2>1, <2>2, <2>3, <2>4 DEF ListsCalm
    <2> QED
      BY <1>1, <2>1, <2>2, <2>3, <2>4, <2>5 DEF ListsCalm, NoneAt, K!Under, K!NoCache
  <1>4. K!ServesCurrent
    BY <1>1 DEF K!ServesCurrent, K!At
  <1> QED
    BY <1>2, <1>3, <1>4 DEF ListsInv

LEMMA ExpireStep ==
    ASSUME ListsInv, K!Expire
    PROVE  ListsInv' /\ K!ServesCurrent
  <1>1. ListsBase'
    BY DEF ListsInv, ListsBase, K!Expire, K!UnchangedCatalogue
  <1>2. ASSUME ~mixed' PROVE ListsCalm'
    BY <1>2 DEF ListsInv, ListsCalm, NoneAt, AskShape, Sound, K!Expire, K!UnchangedCatalogue, K!Under,
                K!NoCache
  <1>3. K!ServesCurrent
    BY DEF K!ServesCurrent, K!At, K!Expire
  <1> QED
    BY <1>1, <1>2, <1>3 DEF ListsInv

LEMMA ListsRest ==
    ASSUME ListsInv, UNCHANGED lists
    PROVE  ListsInv' /\ K!ServesCurrent
  BY DEF lists, ListsInv, ListsBase, ListsCalm, NoneAt, AskShape, Sound, K!Under, K!NoCache,
         K!ServesCurrent, K!At

LEMMA ListsStep ==
    ASSUME ListsInv, K!Next
    PROVE  ListsInv' /\ K!ServesCurrent
  BY ServeCachedStep, MissStep, ReadRowsStep, AnswerStep, FetchCatalogueStep, FetchFailsStep,
     ClearStep, StoreStep, StampStep, CommitPreferencesStep, InvalidateStep,
     SubscriptionChangesStep, EvictUserStep, TakeDownStep, EvictTitleStep, ExpireStep
  DEF K!Next

LEMMA ListsStart ==
    ASSUME K!Init
    PROVE  ListsInv
  BY DEF K!Init, ListsInv, ListsBase, ListsCalm, K!Under, K!Idle, K!NoCache

LEMMA StaleStep ==
    ASSUME TitlesInv, ListsInv, [SideNext]_sides
    PROVE  TitlesInv' /\ ListsInv' /\ E!KeepsTheRest /\ K!ServesCurrent
  <1>1. [E!Next]_titles /\ [K!Next]_lists
    BY DEF SideNext, OfSessions, OfDelivery, OfRecords, OfSearch, OfCounts, OfTitles, OfLists, sides
  <1>2. TitlesInv' /\ E!KeepsTheRest
    BY <1>1, TitlesStep, EditorsRest DEF titles
  <1>3. ListsInv' /\ K!ServesCurrent
    BY <1>1, ListsStep, ListsRest
  <1> QED
    BY <1>2, <1>3

\* Whatever requests have loaded before, an edit of one thing of a title takes back
\* nothing else of it, so that a deleted title stays deleted and what is offered was
\* last asked to be published; and what is recommended is of the preferences at the
\* time of asking and names no title that was removed by then, unless requests have
\* overlapped, or Redis failed, since the last update that was alone.
THEOREM NothingStaleHolds == SideSpec => NothingStalePrevails
  <1>1. SideInit => TitlesInv /\ ListsInv
    BY TitlesStart, ListsStart DEF SideInit
  <1>2. TitlesInv /\ ListsInv /\ [SideNext]_sides
            => TitlesInv' /\ ListsInv' /\ [E!KeepsTheRest /\ K!ServesCurrent]_<<titles, lists>>
    BY StaleStep
  <1> QED
    BY <1>1, <1>2, PTL DEF SideSpec, NothingStalePrevails

-----------------------------------------------------------------------------
(* What is counted of a title *)

WriterFields == {"at", "kind", "on", "item", "value", "old", "seen", "found", "calm"}

\* The episodes that a request on a season sees, and the ratings that one on the
\* title sees.
EpisodesOf(q) == IF q.kind = "create" THEN C!Rows(q.on) \union {q.item} ELSE C!Rows(q.on) \ {q.item}

RatingsOf(q) == [rating EXCEPT ![q.item] = q.value]

\* As long as no other on its row has committed, what a request has loaded and counted
\* is so, unless the season is gone.
EpisodeShape(q) ==
    /\ q.kind \in {"create", "delete"} /\ q.on \in Seasons /\ q.item \in Numbers
    /\ season[q.on] # "unborn"
    /\ q.at \in IF q.kind = "create" THEN {"written", "loaded", "counted"}
                ELSE {"found", "loaded", "counted"}
    /\ q.calm /\ season[q.on] = "live" =>
          /\ q.at # "written" => q.seen = C!OfSeason(count[q.on])
          /\ q.at = "counted" => q.found = C!OfSeason(C!Cardinality(EpisodesOf(q)))

RatingShape(q) ==
    /\ q.kind = "rate" /\ q.on = None /\ q.item \in Users
    /\ q.at \in {"found", "written", "listed", "counted"}
    /\ q.calm =>
          /\ q.old = rating[q.item]
          /\ q.at \in {"listed", "counted"} => q.found = C!Counted(RatingsOf(q))
          /\ q.at = "counted" => q.seen = total

WriterShape(q) == q.at # "idle" => DOMAIN q = WriterFields /\ (EpisodeShape(q) \/ RatingShape(q))

CountsInv ==
    /\ DOMAIN season = Seasons /\ DOMAIN count = Seasons /\ DOMAIN rating = Users
    /\ DOMAIN writer = Requests
    /\ \A r \in Requests : WriterShape(writer[r])
    /\ \A s \in Seasons : season[s] = "unborn" => C!Rows(s) = {} /\ count[s] = 0
    /\ C!StoredIsCounted

LEMMA NoEpisodes == C!Cardinality({}) = 0
  <1>1. C!Cardinality({}) = Cardinality({})
    BY DEF Cardinality, C!Cardinality
  <1> QED
    BY <1>1, FS_EmptySet

LEMMA IdleWriter == C!IdleRequest.at = "idle"
  BY DEF C!IdleRequest

LEMMA WriterGoesOn ==
    ASSUME CountsInv, NEW r \in Requests, NEW q, WriterShape(q),
           writer' = [writer EXCEPT ![r] = q],
           UNCHANGED <<season, episodes, count, rating, total, disturbed>>
    PROVE  CountsInv'
  <1>1. DOMAIN writer' = Requests /\ \A s \in Requests : writer'[s] = q \/ writer'[s] = writer[s]
    BY DEF CountsInv
  <1>2. ASSUME NEW s PROVE C!Rows(s)' = C!Rows(s)
    BY DEF C!Rows
  <1>3. ASSUME NEW s \in Requests PROVE WriterShape(writer[s])'
    <2>1. WriterShape(writer'[s])
      BY <1>1 DEF CountsInv
    <2>2. EpisodesOf(writer[s])' = EpisodesOf(writer'[s]) /\ RatingsOf(writer[s])' = RatingsOf(writer'[s])
      BY <1>2 DEF EpisodesOf, RatingsOf
    <2>3. EpisodeShape(writer'[s]) => EpisodeShape(writer[s])'
      BY <2>2 DEF EpisodeShape
    <2>4. RatingShape(writer'[s]) => RatingShape(writer[s])'
      BY <2>2 DEF RatingShape
    <2> QED
      BY <2>1, <2>3, <2>4 DEF WriterShape
  <1>4. C!StoredIsCounted'
    BY <1>2 DEF CountsInv, C!StoredIsCounted
  <1> QED
    BY <1>1, <1>2, <1>3, <1>4 DEF CountsInv

\* A request that begins
LEMMA WriterBegins ==
    ASSUME CountsInv, NEW r \in Requests, NEW s \in Seasons, NEW n \in Numbers,
           C!InsertEpisode(r, s, n) \/ C!FindEpisode(r, s, n)
    PROVE  CountsInv'
  <1>1. CASE C!InsertEpisode(r, s, n)
    <2> DEFINE q == [C!IdleRequest EXCEPT !.at = "written", !.kind = "create", !.on = s, !.item = n]
    <2>1. DOMAIN q = WriterFields /\ q.at = "written" /\ q.kind = "create" /\ q.on = s /\ q.item = n
      BY DEF C!IdleRequest, WriterFields
    <2>2. writer' = [writer EXCEPT ![r] = q] /\ season[s] = "live"
          /\ UNCHANGED <<season, episodes, count, rating, total, disturbed>>
      BY <1>1 DEF C!InsertEpisode, C!Begin
    <2> HIDE DEF q
    <2> QED
      BY <2>1, <2>2, WriterGoesOn DEF WriterShape, EpisodeShape
  <1>2. CASE C!FindEpisode(r, s, n)
    <2> DEFINE q == [C!IdleRequest EXCEPT !.at = "found", !.kind = "delete", !.on = s, !.item = n,
                                          !.seen = C!OfSeason(count[s])]
    <2>1. DOMAIN q = WriterFields /\ q.at = "found" /\ q.kind = "delete" /\ q.on = s /\ q.item = n
          /\ q.seen = C!OfSeason(count[s])
      BY DEF C!IdleRequest, WriterFields
    <2>2. writer' = [writer EXCEPT ![r] = q] /\ season[s] = "live"
          /\ UNCHANGED <<season, episodes, count, rating, total, disturbed>>
      BY <1>2 DEF C!FindEpisode, C!Begin
    <2> HIDE DEF q
    <2> QED
      BY <2>1, <2>2, WriterGoesOn DEF WriterShape, EpisodeShape
  <1> QED
    BY <1>1, <1>2

LEMMA FindRatingStep ==
    ASSUME CountsInv, NEW r \in Requests, NEW u \in Users, NEW v \in Ratings, C!FindRating(r, u, v)
    PROVE  CountsInv'
  <1> DEFINE q == [C!IdleRequest EXCEPT !.at = "found", !.kind = "rate", !.item = u, !.value = v,
                                        !.old = rating[u]]
  <1>1. DOMAIN q = WriterFields /\ q.at = "found" /\ q.kind = "rate" /\ q.on = None /\ q.item = u
        /\ q.old = rating[u]
    BY DEF C!IdleRequest, WriterFields
  <1>2. writer' = [writer EXCEPT ![r] = q]
        /\ UNCHANGED <<season, episodes, count, rating, total, disturbed>>
    BY DEF C!FindRating, C!Begin
  <1> HIDE DEF q
  <1> QED
    BY <1>1, <1>2, WriterGoesOn DEF WriterShape, RatingShape

LEMMA LoadSeasonStep ==
    ASSUME CountsInv, NEW r \in Requests, C!LoadSeason(r) \/ C!DropEpisode(r)
    PROVE  CountsInv'
  <1> DEFINE w == writer[r]
  <1>1. DOMAIN w = WriterFields /\ EpisodeShape(w) /\ w.at # "counted"
    BY DEF C!LoadSeason, C!DropEpisode, CountsInv, WriterShape, RatingShape
  <1>2. CASE C!LoadSeason(r)
    <2> DEFINE q == [w EXCEPT !.at = "loaded", !.seen = C!OfSeason(count[w.on])]
    <2>1. DOMAIN q = WriterFields /\ q.at = "loaded" /\ q.kind = w.kind /\ q.on = w.on
          /\ q.item = w.item /\ q.seen = C!OfSeason(count[w.on]) /\ q.calm = w.calm
      BY <1>1 DEF WriterFields
    <2>2. writer' = [writer EXCEPT ![r] = q]
          /\ UNCHANGED <<season, episodes, count, rating, total, disturbed>>
      BY <1>2 DEF C!LoadSeason, C!Goes
    <2> HIDE DEF q
    <2> QED
      BY <1>1, <2>1, <2>2, WriterGoesOn DEF WriterShape, EpisodeShape
  <1>3. CASE C!DropEpisode(r)
    <2> DEFINE q == [w EXCEPT !.at = "loaded"]
    <2>1. DOMAIN q = WriterFields /\ q.at = "loaded" /\ q.kind = w.kind /\ q.on = w.on
          /\ q.item = w.item /\ q.seen = w.seen /\ q.calm = w.calm
      BY <1>1 DEF WriterFields
    <2>2. writer' = [writer EXCEPT ![r] = q] /\ w.at # "written"
          /\ UNCHANGED <<season, episodes, count, rating, total, disturbed>>
      BY <1>3 DEF C!DropEpisode, C!Goes
    <2> HIDE DEF q
    <2> QED
      BY <1>1, <2>1, <2>2, WriterGoesOn DEF WriterShape, EpisodeShape
  <1> QED
    BY <1>2, <1>3

LEMMA ListEpisodesStep ==
    ASSUME CountsInv, NEW r \in Requests, C!ListEpisodes(r)
    PROVE  CountsInv'
  <1> DEFINE w == writer[r]
             q == [w EXCEPT !.at = "counted", !.found = C!OfSeason(C!Cardinality(C!EpisodesSeen(r)))]
  <1>1. DOMAIN w = WriterFields /\ EpisodeShape(w) /\ w.at = "loaded"
    BY DEF C!ListEpisodes, CountsInv, WriterShape, RatingShape
  <1>2. DOMAIN q = WriterFields /\ q.at = "counted" /\ q.kind = w.kind /\ q.on = w.on
        /\ q.item = w.item /\ q.seen = w.seen /\ q.calm = w.calm
        /\ q.found = C!OfSeason(C!Cardinality(C!EpisodesSeen(r)))
    BY <1>1 DEF WriterFields
  <1>3. writer' = [writer EXCEPT ![r] = q]
        /\ UNCHANGED <<season, episodes, count, rating, total, disturbed>>
    BY DEF C!ListEpisodes, C!Goes
  <1> HIDE DEF q
  <1>4. EpisodesOf(q) = C!EpisodesSeen(r)
    BY <1>2 DEF EpisodesOf, C!EpisodesSeen
  <1> QED
    BY <1>1, <1>2, <1>3, <1>4, WriterGoesOn DEF WriterShape, EpisodeShape

LEMMA WriteRatingStep ==
    ASSUME CountsInv, NEW r \in Requests, C!WriteRating(r) \/ C!ListRatings(r) \/ C!LoadTitle(r)
    PROVE  CountsInv'
  <1> DEFINE w == writer[r]
  <1>1. DOMAIN w = WriterFields /\ RatingShape(w)
    BY DEF C!WriteRating, C!ListRatings, C!LoadTitle, CountsInv, WriterShape, EpisodeShape
  <1>2. CASE C!WriteRating(r)
    <2> DEFINE q == [w EXCEPT !.at = "written"]
    <2>1. DOMAIN q = WriterFields /\ q.at = "written" /\ q.kind = w.kind /\ q.on = w.on
          /\ q.item = w.item /\ q.old = w.old /\ q.calm = w.calm
      BY <1>1 DEF WriterFields
    <2>2. writer' = [writer EXCEPT ![r] = q]
          /\ UNCHANGED <<season, episodes, count, rating, total, disturbed>>
      BY <1>2 DEF C!WriteRating, C!Goes
    <2> HIDE DEF q
    <2> QED
      BY <1>1, <2>1, <2>2, WriterGoesOn DEF WriterShape, RatingShape
  <1>3. CASE C!ListRatings(r)
    <2> DEFINE q == [w EXCEPT !.at = "listed", !.found = C!Counted(C!RatingsSeen(r))]
    <2>1. DOMAIN q = WriterFields /\ q.at = "listed" /\ q.kind = w.kind /\ q.on = w.on
          /\ q.item = w.item /\ q.value = w.value /\ q.old = w.old /\ q.calm = w.calm
          /\ q.found = C!Counted(C!RatingsSeen(r))
      BY <1>1 DEF WriterFields
    <2>2. writer' = [writer EXCEPT ![r] = q]
          /\ UNCHANGED <<season, episodes, count, rating, total, disturbed>>
      BY <1>3 DEF C!ListRatings, C!Goes
    <2> HIDE DEF q
    <2>3. RatingsOf(q) = C!RatingsSeen(r)
      BY <2>1 DEF RatingsOf, C!RatingsSeen
    <2> QED
      BY <1>1, <2>1, <2>2, <2>3, WriterGoesOn DEF WriterShape, RatingShape
  <1>4. CASE C!LoadTitle(r)
    <2> DEFINE q == [w EXCEPT !.at = "counted", !.seen = total]
    <2>1. DOMAIN q = WriterFields /\ q.at = "counted" /\ q.kind = w.kind /\ q.on = w.on
          /\ q.item = w.item /\ q.value = w.value /\ q.old = w.old /\ q.calm = w.calm
          /\ q.found = w.found /\ q.seen = total
      BY <1>1 DEF WriterFields
    <2>2. writer' = [writer EXCEPT ![r] = q] /\ w.at = "listed"
          /\ UNCHANGED <<season, episodes, count, rating, total, disturbed>>
      BY <1>4 DEF C!LoadTitle, C!Goes
    <2> HIDE DEF q
    <2>3. RatingsOf(q) = RatingsOf(w)
      BY <2>1 DEF RatingsOf
    <2> QED
      BY <1>1, <2>1, <2>2, <2>3, WriterGoesOn DEF WriterShape, RatingShape
  <1> QED
    BY <1>2, <1>3, <1>4

\* A request to which nothing happens, on a row that nothing happens to unless the
\* season goes.
LEMMA WriterStays ==
    ASSUME CountsInv, NEW p \in Requests, writer'[p] = writer[p], DOMAIN season' = Seasons,
           \A s \in Seasons : writer[p].on = s =>
               \/ UNCHANGED <<season[s], count[s], C!Rows(s)>>
               \/ season[s] = "live" /\ season'[s] = "gone"
               \/ season[s] = "unborn",
           writer[p].on = None => UNCHANGED <<rating, total>>
    PROVE  WriterShape(writer[p])'
  <1> DEFINE x == writer[p].on
  <1>1. CASE writer[p].at = "idle"
    BY <1>1 DEF WriterShape
  <1>2. CASE EpisodeShape(writer[p]) /\ season'[x] = "gone"
    BY <1>2 DEF EpisodeShape, WriterShape, CountsInv
  <1>3. CASE EpisodeShape(writer[p]) /\ UNCHANGED <<season[x], count[x], C!Rows(x)>>
    <2>1. EpisodesOf(writer[p])' = EpisodesOf(writer[p])
      BY <1>3 DEF EpisodesOf
    <2>2. EpisodeShape(writer[p])'
      BY <1>3, <2>1 DEF EpisodeShape
    <2> QED
      BY <2>2 DEF WriterShape, CountsInv
  <1>4. CASE RatingShape(writer[p])
    <2>1. RatingsOf(writer[p])' = RatingsOf(writer[p]) /\ UNCHANGED <<rating, total>>
      BY <1>4 DEF RatingsOf, RatingShape
    <2>2. RatingShape(writer[p])'
      BY <1>4, <2>1 DEF RatingShape
    <2> QED
      BY <2>2 DEF WriterShape, CountsInv
  <1> QED
    BY <1>1, <1>2, <1>3, <1>4 DEF CountsInv, WriterShape, EpisodeShape

LEMMA CreateSeasonStep ==
    ASSUME CountsInv, NEW s \in Seasons, C!CreateSeason(s)
    PROVE  CountsInv'
  <1>1. /\ DOMAIN season' = Seasons /\ season[s] = "unborn" /\ season'[s] = "live"
        /\ \A t \in Seasons : t # s => season'[t] = season[t]
        /\ UNCHANGED <<episodes, count, rating, total, writer, disturbed>>
    BY DEF C!CreateSeason, CountsInv
  <1>2. C!Rows(s) = {} /\ count[s] = 0 /\ \A t \in Seasons : C!Rows(t)' = C!Rows(t)
    BY <1>1 DEF CountsInv, C!Rows
  <1>3. \A r \in Requests : WriterShape(writer[r])'
    BY <1>1, <1>2, WriterStays
  <1>4. C!StoredIsCounted'
    BY <1>1, <1>2, NoEpisodes DEF CountsInv, C!StoredIsCounted
  <1> QED
    BY <1>1, <1>2, <1>3, <1>4 DEF CountsInv

LEMMA DeleteSeasonStep ==
    ASSUME CountsInv, NEW s \in Seasons, C!DeleteSeason(s)
    PROVE  CountsInv'
  <1>1. /\ DOMAIN season' = Seasons /\ season[s] = "live" /\ season'[s] = "gone"
        /\ \A t \in Seasons : t # s => season'[t] = season[t]
        /\ UNCHANGED <<count, rating, total, writer, disturbed>>
    BY DEF C!DeleteSeason, CountsInv
  <1>2. \A t \in Seasons : t # s => C!Rows(t)' = C!Rows(t)
    BY DEF C!DeleteSeason, C!Rows
  <1>3. \A r \in Requests : WriterShape(writer[r])'
    BY <1>1, <1>2, WriterStays
  <1>4. C!StoredIsCounted'
    BY <1>1, <1>2 DEF CountsInv, C!StoredIsCounted
  <1> QED
    BY <1>1, <1>2, <1>3, <1>4 DEF CountsInv

\* A request on the episodes of a season commits.
LEMMA CommitEpisodeStep ==
    ASSUME CountsInv, NEW r \in Requests, C!Commit(r), writer[r].kind # "rate"
    PROVE  CountsInv'
  <1> PICK w, s : w = writer[r] /\ s = w.on
    OBVIOUS
  <1>1. w.at = "counted" /\ EpisodeShape(w)
    BY DEF C!Commit, CountsInv, WriterShape, RatingShape
  <1>2. /\ s \in Seasons /\ w.item \in Numbers /\ season[s] # "unborn" /\ s # None
        /\ w.calm /\ season[s] = "live" =>
              w.seen = C!OfSeason(count[s]) /\ w.found = C!OfSeason(C!Cardinality(EpisodesOf(w)))
    BY <1>1, SeasonAssumption DEF EpisodeShape
  <1>3. /\ episodes' = IF w.kind = "create" THEN episodes \union {<<s, w.item>>}
                       ELSE episodes \ {<<s, w.item>>}
        /\ count' = [count EXCEPT ![s] = C!Written(count[s], w.seen.votes, w.found.votes)]
        /\ UNCHANGED <<rating, total, season>>
        /\ writer' = [p \in Requests |->
               IF p = r THEN C!IdleRequest
               ELSE IF writer[p].at # "idle" /\ writer[p].on = s
                    THEN [writer[p] EXCEPT !.calm = FALSE] ELSE writer[p]]
        /\ disturbed' = IF w.calm THEN disturbed \ {s} ELSE disturbed \union {s}
    BY DEF C!Commit
  <1>4. /\ DOMAIN count' = Seasons /\ \A t \in Seasons : t # s => count'[t] = count[t]
        /\ \A t \in Seasons : t # s => C!Rows(t)' = C!Rows(t)
    BY <1>2, <1>3 DEF CountsInv, C!Rows
  <1>5. C!Rows(s)' = EpisodesOf(w)
    BY <1>2, <1>3 DEF C!Rows, EpisodesOf
  <1>6. w.calm /\ season[s] = "live" => count'[s] = C!Cardinality(C!Rows(s)')
    BY <1>2, <1>3, <1>5 DEF C!Written, C!OfSeason, CountsInv
  <1>7. C!StoredIsCounted'
    BY <1>2, <1>3, <1>4, <1>6 DEF CountsInv, C!StoredIsCounted
  <1>8. ASSUME NEW p \in Requests PROVE WriterShape(writer[p])'
    <2>1. CASE p = r
      BY <1>3, <2>1, IdleWriter DEF WriterShape
    <2>2. CASE p # r /\ writer[p].at # "idle" /\ writer[p].on = s
      <3>1. DOMAIN writer[p] = WriterFields /\ EpisodeShape(writer[p])
        BY <1>2, <2>2 DEF CountsInv, WriterShape, RatingShape
      <3>2. writer'[p] = [writer[p] EXCEPT !.calm = FALSE]
        BY <1>3, <2>2
      <3> QED
        BY <1>3, <3>1, <3>2 DEF WriterShape, EpisodeShape, WriterFields
    <2>3. CASE p # r /\ writer[p].at = "idle"
      BY <1>3, <2>3 DEF WriterShape
    <2>4. CASE p # r /\ writer[p].at # "idle" /\ writer[p].on # s
      <3>1. writer'[p] = writer[p]
        BY <1>3, <2>4
      <3> QED
        BY <1>3, <1>4, <2>4, <3>1, WriterStays DEF CountsInv
    <2> QED
      BY <2>1, <2>2, <2>3, <2>4
  <1> QED
    BY <1>2, <1>3, <1>4, <1>7, <1>8 DEF CountsInv

\* A rating commits.
LEMMA CommitRatingStep ==
    ASSUME CountsInv, NEW r \in Requests, C!Commit(r), writer[r].kind = "rate"
    PROVE  CountsInv'
  <1> DEFINE w == writer[r]
  <1>1. w.at = "counted" /\ RatingShape(w)
    BY DEF C!Commit, CountsInv, WriterShape, EpisodeShape
  <1>2. /\ w.on = None /\ w.item \in Users
        /\ w.calm => /\ w.old = rating[w.item] /\ w.seen = total
                     /\ w.found = C!Counted(RatingsOf(w))
    BY <1>1 DEF RatingShape
  <1>3. /\ rating' = [rating EXCEPT ![w.item] = C!Written(rating[w.item], w.old, w.value)]
        /\ total' = C!Stored(r)
        /\ UNCHANGED <<episodes, count, season>>
        /\ writer' = [p \in Requests |->
               IF p = r THEN C!IdleRequest
               ELSE IF writer[p].at # "idle" /\ writer[p].on = None
                    THEN [writer[p] EXCEPT !.calm = FALSE] ELSE writer[p]]
        /\ disturbed' = IF w.calm THEN disturbed \ {None} ELSE disturbed \union {None}
    BY <1>2 DEF C!Commit
  <1>4. \A t \in Seasons : C!Rows(t)' = C!Rows(t)
    BY <1>3 DEF C!Rows
  <1>5. w.calm => rating' = RatingsOf(w)
    BY <1>2, <1>3 DEF C!Written, RatingsOf, CountsInv
  <1>6. w.calm => total' = C!Counted(RatingsOf(w))
    <2>1. ASSUME w.calm PROVE total' = [votes |-> w.found.votes, score |-> w.found.score]
      BY <1>2, <1>3, <2>1 DEF C!Stored, C!Written
    <2> QED
      BY <1>2, <2>1 DEF C!Counted
  <1>7. C!StoredIsCounted'
    <2>1. None \notin disturbed' => w.calm
      BY <1>3
    <2>2. None \notin disturbed' => total' = C!Counted(rating')
      BY <1>5, <1>6, <2>1
    <2>3. \A s \in Seasons : s \notin disturbed' => s \notin disturbed
      BY <1>3, SeasonAssumption
    <2> QED
      BY <1>3, <1>4, <2>2, <2>3 DEF CountsInv, C!StoredIsCounted
  <1>8. ASSUME NEW p \in Requests PROVE WriterShape(writer[p])'
    <2>1. CASE p = r
      BY <1>3, <2>1, IdleWriter DEF WriterShape
    <2>2. CASE p # r /\ writer[p].at # "idle" /\ writer[p].on = None
      <3>1. DOMAIN writer[p] = WriterFields /\ RatingShape(writer[p])
        BY <2>2, SeasonAssumption DEF CountsInv, WriterShape, EpisodeShape
      <3>2. writer'[p] = [writer[p] EXCEPT !.calm = FALSE]
        BY <1>3, <2>2
      <3> QED
        BY <1>3, <3>1, <3>2 DEF WriterShape, RatingShape, WriterFields
    <2>3. CASE p # r /\ writer[p].at = "idle"
      BY <1>3, <2>3 DEF WriterShape
    <2>4. CASE p # r /\ writer[p].at # "idle" /\ writer[p].on # None
      <3>1. writer'[p] = writer[p]
        BY <1>3, <2>4
      <3> QED
        BY <1>3, <1>4, <2>4, <3>1, WriterStays DEF CountsInv
    <2> QED
      BY <2>1, <2>2, <2>3, <2>4
  <1> QED
    BY <1>2, <1>3, <1>4, <1>7, <1>8 DEF CountsInv

LEMMA LeaveCountsStep ==
    ASSUME CountsInv, NEW r \in Requests, C!Leave(r)
    PROVE  CountsInv'
  BY IdleWriter, WriterGoesOn DEF C!Leave, C!Goes, WriterShape

LEMMA CountsStep ==
    ASSUME CountsInv, C!Next
    PROVE  CountsInv'
  BY CreateSeasonStep, DeleteSeasonStep, WriterBegins, FindRatingStep, LoadSeasonStep,
     ListEpisodesStep, WriteRatingStep, CommitEpisodeStep, CommitRatingStep, LeaveCountsStep
  DEF C!Next

LEMMA CountsRest ==
    ASSUME CountsInv, UNCHANGED counts
    PROVE  CountsInv'
  <1>1. ASSUME NEW s PROVE C!Rows(s)' = C!Rows(s)
    BY DEF C!Rows, counts
  <1>2. \A p \in Requests : WriterShape(writer[p])'
    BY <1>1, WriterStays DEF counts, CountsInv
  <1> QED
    BY <1>1, <1>2 DEF CountsInv, C!StoredIsCounted, counts

LEMMA CountsStart ==
    ASSUME C!Init
    PROVE  CountsInv
  <1>1. /\ \A s \in Seasons : season[s] = "unborn" /\ C!Rows(s) = {} /\ count[s] = 0
        /\ \A r \in Requests : WriterShape(writer[r])
    BY IdleWriter DEF C!Init, C!Rows, WriterShape
  <1>2. C!Rated(rating) = {}
    BY DEF C!Init, C!Rated
  <1>3. C!Counted(rating) = C!NoTotals
    BY <1>2, NoEpisodes DEF C!Counted, C!Average, C!NoTotals
  <1> QED
    BY <1>1, <1>3 DEF C!Init, CountsInv, C!StoredIsCounted

LEMMA CountsSides ==
    ASSUME CountsInv, [SideNext]_sides
    PROVE  CountsInv'
  <1>1. [C!Next]_counts
    BY DEF SideNext, OfSessions, OfDelivery, OfRecords, OfSearch, OfCounts, OfTitles, OfLists, sides
  <1> QED
    BY <1>1, CountsStep, CountsRest

\* The number of episodes of a season and the score of a title are those of its rows
\* whatever requests do, until one that writes them overlaps another of the same.
THEOREM CountsHold == SideSpec => []StoredIsCounted
  <1>1. SideInit => CountsInv
    BY CountsStart DEF SideInit
  <1>2. CountsInv => StoredIsCounted
    BY DEF CountsInv, StoredIsCounted
  <1> QED
    BY <1>1, <1>2, CountsSides, PTL DEF SideSpec

-----------------------------------------------------------------------------
(* The search index and the catalogue *)

\* A job builds beside the index that the alias has, and takes its place in the end.
JobStands(k) ==
    /\ k.at \in {"creating", "listing", "filling", "switching"} => alias = {k.old}
    /\ k.at \in {"listing", "filling", "switching", "deleting"} => k.new # k.old /\ k.new # removing
    /\ k.at \in {"listing", "filling", "switching"} => k.new \in X!Indices
    /\ k.at = "deleting" => alias = {k.new}
    /\ k.at # "idle" => k.old # removing

AliasInv ==
    /\ DOMAIN docs \subseteq X!Indices
    /\ \E v \in DOMAIN docs : alias = {v}
    /\ \A i, j \in X!Building : i = j
    /\ \A j \in Jobs : JobStands(rebuild[j])
    /\ removing \notin alias
    /\ removing # None => removing \in DOMAIN docs

\* An event that will take the title out of the index is under way.
Removal(t) ==
    \/ \E p \in X!Gone : pending[p][t] > 0
    \/ \E r \in Requests : req[r].on = t /\ req[r].at = "publishing" /\ req[r].want # "published"

Bringing(t) == handler["sync"].on = t /\ handler["sync"].at = "fetched" /\ handler["sync"].doc = "published"

\* One that will bring it into the index is.
Arrival(t) ==
    \/ pending["published"][t] > 0
    \/ \E r \in Requests : req[r].on = t /\ req[r].at = "publishing" /\ req[r].want = "published"
    \/ Bringing(t)

\* No event of the topics is under way, or would be if a handler failed.
NoneOf(topics, t) ==
    /\ \A p \in topics : pending[p][t] = 0
    /\ \A h \in X!Handlers : handler[h].on = t => handler[h].topic \notin topics
    /\ \A r \in Requests : req[r].on = t /\ req[r].at = "publishing" => X!TopicOf(req[r].want) \notin topics

Alone(t) ==
    /\ \A r, s \in Requests : req[r].on = t /\ req[s].on = t => r = s
    /\ \A g, h \in X!Handlers : handler[g].on = t /\ handler[h].on = t => g = h

Told(t) ==
    \A r \in Requests : req[r].on = t =>
        /\ req[r].at = "committing" => req[r].seen = entry[t]
        /\ req[r].at = "publishing" =>
              IF req[r].want = "deleted" THEN t \in deleted ELSE entry[t] = req[r].want

Uncrossed(t) ==
    /\ t \in deleted => NoneOf({"published"}, t) /\ (X!Found(t) => Removal(t))
    /\ X!Listed(t) =>
        /\ NoneOf(X!Gone, t)
        /\ X!Found(t) \/ Arrival(t)
        /\ handler["sync"].on = t /\ handler["sync"].at = "fetched" => Bringing(t)

Followed(t) ==
    /\ Alone(t) /\ Told(t)
    /\ entry[t] # "published" /\ (X!Found(t) \/ Bringing(t)) => Removal(t)
    /\ t \notin crossed => Uncrossed(t)

\* What a job has listed is so of the titles that nothing happened to.
JobFollows(k) ==
    k.at \in {"filling", "switching"} =>
        /\ k.items \subseteq Titles
        /\ \A t \in Titles \ k.touched :
            /\ X!Quiet(t)
            /\ k.at = "filling" => (t \in k.items <=> X!Listed(t))
            /\ k.at = "switching" /\ k.new \in DOMAIN docs => (docs[k.new][t] = "published" <=> X!Listed(t))

RequestShape(q) ==
    /\ DOMAIN q = {"at", "on", "seen", "want"}
    /\ \/ q.at = "idle" /\ q.on = None
       \/ q.at \in {"committing", "publishing"} /\ q.on \in Titles /\ q.want \in X!Wishes

HandlerShape(h, q) ==
    /\ DOMAIN q = {"at", "on", "topic", "doc"}
    /\ \/ q.at = "idle" /\ q.on = None
       \/ /\ q.on \in Titles
          /\ \/ q.at = "mirroring" /\ q.topic \in X!Topics
             \/ h = "sync" /\ q.at = "fetched" /\ q.topic = "published"
          /\ h = "subscriber" => q.topic \in X!Gone

SearchBase ==
    /\ DOMAIN entry = Titles /\ DOMAIN req = Requests /\ DOMAIN handler = X!Handlers
    /\ DOMAIN rebuild = Jobs
    /\ pending \in [X!Topics -> [Titles -> Nat]]
    /\ \A r \in Requests : RequestShape(req[r])
    /\ \A h \in X!Handlers : HandlerShape(h, handler[h])
    /\ \A j \in Jobs : DOMAIN rebuild[j] = {"at", "old", "new", "items", "touched"}
    /\ \A v \in DOMAIN docs : DOMAIN docs[v] = Titles

FollowInv == \A t \in Titles \ strayed : Followed(t)

JobsFollow == \A j \in Jobs : JobFollows(rebuild[j])

SearchCalm == AliasInv /\ FollowInv /\ JobsFollow

SearchInv == SearchBase /\ (~raced => SearchCalm)

-----------------------------------------------------------------------------
(* Nothing happens to a title. *)

Same(t) ==
    /\ entry'[t] = entry[t] /\ (t \in deleted' <=> t \in deleted)
    /\ \A p \in X!Topics : pending'[p][t] = pending[p][t]
    /\ \A r \in Requests : req'[r].on = t \/ req[r].on = t => req'[r] = req[r]
    /\ \A h \in X!Handlers : handler'[h].on = t \/ handler[h].on = t => handler'[h] = handler[h]

LEMMA SameQuiet ==
    ASSUME NEW t \in Titles, Same(t)
    PROVE  (X!Quiet(t) => X!Quiet(t)') /\ (X!Listed(t)' <=> X!Listed(t))
  BY DEF Same, X!Quiet, X!Listed

LEMMA SameEvents ==
    ASSUME NEW t \in Titles, Same(t)
    PROVE  /\ Removal(t)' <=> Removal(t)
           /\ Arrival(t)' <=> Arrival(t)
           /\ Bringing(t)' <=> Bringing(t)
           /\ NoneOf({"published"}, t) => NoneOf({"published"}, t)'
           /\ NoneOf(X!Gone, t) => NoneOf(X!Gone, t)'
  <1> USE DEF Same, X!Topics, X!Gone, X!Handlers
  <1>1. Removal(t)' <=> Removal(t)
    BY DEF Removal
  <1>2. Bringing(t)' <=> Bringing(t)
    BY DEF Bringing
  <1>3. Arrival(t)' <=> Arrival(t)
    BY <1>2 DEF Arrival
  <1>4. NoneOf({"published"}, t) => NoneOf({"published"}, t)'
    BY DEF NoneOf, X!TopicOf
  <1>5. NoneOf(X!Gone, t) => NoneOf(X!Gone, t)'
    BY DEF NoneOf, X!TopicOf
  <1> QED
    BY <1>1, <1>2, <1>3, <1>4, <1>5

LEMMA FollowedStays ==
    ASSUME NEW t \in Titles, Same(t), X!Found(t)' <=> X!Found(t), t \in crossed => t \in crossed',
           Followed(t)
    PROVE  Followed(t)'
  <1>1. Alone(t)' /\ Told(t)'
    <2>1. Alone(t)'
      BY DEF Same, Followed, Alone, X!Handlers
    <2>2. Told(t)'
      BY DEF Same, Followed, Told
    <2> QED
      BY <2>1, <2>2
  <1>2. entry'[t] = entry[t] /\ (t \in deleted' <=> t \in deleted)
    BY DEF Same
  <1>3. handler'["sync"].on = t => handler'["sync"] = handler["sync"]
    BY DEF Same, X!Handlers
  <1>4. Uncrossed(t) => Uncrossed(t)'
    BY <1>2, <1>3, SameEvents, SameQuiet DEF Uncrossed
  <1> QED
    BY <1>1, <1>2, <1>4, SameEvents DEF Followed

LEMMA FoundStays == ASSUME NEW t, UNCHANGED <<docs, alias>> PROVE X!Found(t)' <=> X!Found(t)
  BY DEF X!Found

\* A job stays as it is, or notes that something has happened to the title.
JobStays(k, kk, Z) ==
    \/ kk.at \notin {"filling", "switching"}
    \/ /\ kk.at = k.at /\ kk.items = k.items /\ kk.new = k.new
       /\ k.touched \subseteq kk.touched
       /\ \A t \in Z \intersect Titles : ~X!Quiet(t) \/ t \in kk.touched
       /\ kk.new \in DOMAIN docs' => kk.new \in DOMAIN docs /\ docs'[kk.new] = docs[kk.new]

\* Something happens to the titles in Z.
LEMMA CalmStays ==
    ASSUME FollowInv, JobsFollow, NEW Z,
           \A t \in Titles \ Z : /\ Same(t) /\ (X!Found(t)' <=> X!Found(t))
                                 /\ t \in crossed => t \in crossed',
           strayed \subseteq strayed',
           \A t \in Z \intersect Titles : t \notin strayed' => Followed(t)',
           \A j \in Jobs : JobStays(rebuild[j], rebuild'[j], Z)
    PROVE  FollowInv' /\ JobsFollow'
  <1>1. FollowInv'
    BY FollowedStays DEF FollowInv
  <1>2. ASSUME NEW j \in Jobs PROVE JobFollows(rebuild[j])'
    <2> DEFINE k == rebuild[j]
    <2> SUFFICES ASSUME rebuild'[j].at \in {"filling", "switching"}
                 PROVE  JobFollows(rebuild[j])'
      BY DEF JobFollows
    <2>1. /\ rebuild'[j].at = k.at /\ rebuild'[j].items = k.items /\ rebuild'[j].new = k.new
          /\ k.touched \subseteq rebuild'[j].touched
          /\ \A t \in Z \intersect Titles : ~X!Quiet(t) \/ t \in rebuild'[j].touched
          /\ k.new \in DOMAIN docs' => k.new \in DOMAIN docs /\ docs'[k.new] = docs[k.new]
      BY DEF JobStays
    <2>2. JobFollows(k)
      BY DEF JobsFollow
    <2>3. ASSUME NEW t \in Titles \ rebuild'[j].touched
          PROVE  /\ X!Quiet(t)' /\ X!Quiet(t) /\ (X!Listed(t)' <=> X!Listed(t))
                 /\ t \in Titles \ k.touched
      BY <2>1, <2>2, <2>3, SameQuiet DEF JobFollows
    <2> QED
      BY <2>1, <2>2, <2>3 DEF JobFollows
  <1> QED
    BY <1>1, <1>2 DEF JobsFollow

LEMMA AliasStays ==
    ASSUME AliasInv, DOMAIN docs' = DOMAIN docs, UNCHANGED <<alias, removing>>,
           \A j \in Jobs : rebuild'[j].at = rebuild[j].at /\ rebuild'[j].old = rebuild[j].old
                           /\ rebuild'[j].new = rebuild[j].new
    PROVE  AliasInv'
  BY DEF AliasInv, JobStands, X!Building, X!Indices

LEMMA TouchedJobs ==
    ASSUME SearchBase, NEW t, rebuild' = X!Touch(t)
    PROVE  /\ DOMAIN rebuild' = Jobs
           /\ \A j \in Jobs :
                /\ DOMAIN rebuild'[j] = {"at", "old", "new", "items", "touched"}
                /\ rebuild'[j].at = rebuild[j].at /\ rebuild'[j].old = rebuild[j].old
                /\ rebuild'[j].new = rebuild[j].new /\ rebuild'[j].items = rebuild[j].items
                /\ rebuild[j].touched \subseteq rebuild'[j].touched
                /\ rebuild[j].at # "idle" => t \in rebuild'[j].touched
  <1>1. ASSUME NEW j \in Jobs
        PROVE  \/ rebuild[j].at # "idle"
                  /\ rebuild'[j] = [rebuild[j] EXCEPT !.touched = rebuild[j].touched \union {t}]
               \/ rebuild[j].at = "idle" /\ rebuild'[j] = rebuild[j]
    BY DEF X!Touch, X!Building
  <1>2. DOMAIN rebuild' = Jobs
    BY DEF X!Touch
  <1>3. ASSUME NEW j \in Jobs, rebuild[j].at = "idle", rebuild'[j] = rebuild[j]
        PROVE  DOMAIN rebuild'[j] = {"at", "old", "new", "items", "touched"}
    BY <1>3 DEF SearchBase
  <1>4. ASSUME NEW j \in Jobs, NEW k, k = rebuild[j],
               rebuild'[j] = [k EXCEPT !.touched = k.touched \union {t}]
        PROVE  /\ DOMAIN rebuild'[j] = {"at", "old", "new", "items", "touched"}
               /\ rebuild'[j].at = k.at /\ rebuild'[j].old = k.old
               /\ rebuild'[j].new = k.new /\ rebuild'[j].items = k.items
               /\ rebuild'[j].touched = k.touched \union {t}
    BY <1>4 DEF SearchBase
  <1> QED
    BY <1>1, <1>2, <1>3, <1>4

\* The jobs note what happens to the title.
LEMMA TouchStays ==
    ASSUME SearchBase, NEW t, rebuild' = X!Touch(t), DOMAIN docs' = DOMAIN docs,
           UNCHANGED <<alias, removing>>, AliasInv,
           \A v \in DOMAIN docs : v \notin alias => docs'[v] = docs[v]
    PROVE  AliasInv' /\ \A j \in Jobs : JobStays(rebuild[j], rebuild'[j], {t})
  <1>1. AliasInv'
    BY TouchedJobs, AliasStays
  <1>2. \A j \in Jobs : rebuild[j].at \in {"filling", "switching"} => rebuild[j].new \notin alias
    BY DEF AliasInv, JobStands
  <1> QED
    BY <1>1, <1>2, TouchedJobs DEF JobStays

LEMMA ReadStep ==
    ASSUME SearchInv, NEW r \in Requests, NEW t \in Titles, NEW want \in X!Wishes,
           X!Read(r, t, want)
    PROVE  SearchInv'
  <1> DEFINE q == [at |-> "committing", on |-> t, seen |-> entry[t], want |-> want]
  <1>1. /\ req[r].at = "idle" /\ req' = [req EXCEPT ![r] = q]
        /\ strayed' = IF \E v \in Requests : req[v].on = t THEN strayed \union {t} ELSE strayed
        /\ rebuild' = X!Touch(t)
        /\ UNCHANGED <<entry, deleted, pending, handler, removing, docs, alias, crossed, raced>>
    BY DEF X!Read, X!index
  <1>2. /\ DOMAIN q = {"at", "on", "seen", "want"} /\ q.at = "committing" /\ q.on = t
        /\ q.seen = entry[t] /\ q.want = want
    OBVIOUS
  <1> HIDE DEF q
  <1>3. /\ DOMAIN req' = Requests /\ req'[r] = q /\ req[r].on = None
        /\ \A s \in Requests : s # r => req'[s] = req[s]
    BY <1>1 DEF SearchInv, SearchBase, RequestShape
  <1>4. SearchBase'
    BY <1>1, <1>2, <1>3, TouchedJobs DEF SearchInv, SearchBase, RequestShape
  <1>5. ASSUME ~raced' PROVE SearchCalm'
    <2>1. SearchBase /\ AliasInv /\ FollowInv /\ JobsFollow
      BY <1>1, <1>5 DEF SearchInv, SearchCalm
    <2>2. \A u \in Titles \ {t} : Same(u) /\ (X!Found(u)' <=> X!Found(u))
      BY <1>1, <1>2, <1>3, SearchAssumption, FoundStays DEF Same
    <2>3. AliasInv' /\ \A j \in Jobs : JobStays(rebuild[j], rebuild'[j], {t})
      BY <1>1, <2>1, TouchStays
    <2>4. ASSUME t \notin strayed' PROVE Followed(t)'
      <3>1. Followed(t) /\ (\A s \in Requests : req[s].on # t) /\ (X!Found(t)' <=> X!Found(t))
        BY <1>1, <2>1, <2>4, FoundStays DEF FollowInv
      <3>2. \A s \in Requests : req'[s].on = t => s = r
        BY <1>3, <3>1
      <3>3. Alone(t)' /\ Told(t)'
        BY <1>1, <1>2, <1>3, <3>1, <3>2 DEF Followed, Alone, Told, X!Handlers
      <3>4. /\ Removal(t)' <=> Removal(t)
            /\ Bringing(t)' <=> Bringing(t)
            /\ Arrival(t) => Arrival(t)'
            /\ NoneOf({"published"}, t) => NoneOf({"published"}, t)'
            /\ NoneOf(X!Gone, t) => NoneOf(X!Gone, t)'
        BY <1>1, <1>2, <1>3, <3>1, <3>2
        DEF Removal, Arrival, Bringing, NoneOf, X!Gone, X!Handlers, X!TopicOf
      <3> QED
        BY <1>1, <3>1, <3>3, <3>4 DEF Followed, Uncrossed, X!Listed
    <2> QED
      BY <1>1, <2>1, <2>2, <2>3, <2>4, CalmStays DEF SearchCalm
  <1> QED
    BY <1>4, <1>5 DEF SearchInv

LEMMA CommitStep ==
    ASSUME SearchInv, NEW r \in Requests, X!Commit(r)
    PROVE  SearchInv'
  <1> PICK t, want : t = req[r].on /\ want = req[r].want
    OBVIOUS
  <1> DEFINE q == [req[r] EXCEPT !.at = "publishing", !.seen = "draft"]
  <1>1. /\ req[r].at = "committing" /\ req' = [req EXCEPT ![r] = q]
        /\ IF want = "deleted" THEN deleted' = deleted \union {t} /\ UNCHANGED entry
           ELSE /\ entry' = [entry EXCEPT ![t] = IF want # req[r].seen THEN want ELSE entry[t]]
                /\ UNCHANGED deleted
        /\ crossed' = IF X!Crosses(t, want) THEN crossed \union {t} ELSE crossed
        /\ UNCHANGED <<pending, handler, rebuild, removing, docs, alias, strayed, raced>>
    BY DEF X!Commit, X!index
  <1>2. DOMAIN req[r] = {"at", "on", "seen", "want"} /\ t \in Titles /\ want \in X!Wishes
    BY <1>1 DEF SearchInv, SearchBase, RequestShape
  <1>3. DOMAIN q = {"at", "on", "seen", "want"} /\ q.at = "publishing" /\ q.on = t /\ q.want = want
    BY <1>2
  <1> HIDE DEF q
  <1>4. /\ DOMAIN req' = Requests /\ req'[r] = q
        /\ \A s \in Requests : s # r => req'[s] = req[s]
    BY <1>1 DEF SearchInv, SearchBase
  <1>5. SearchBase'
    BY <1>1, <1>2, <1>3, <1>4 DEF SearchInv, SearchBase, RequestShape
  <1>6. ASSUME ~raced' PROVE SearchCalm'
    <2>1. SearchBase /\ AliasInv /\ FollowInv /\ JobsFollow
      BY <1>1, <1>6 DEF SearchInv, SearchCalm
    <2>2. \A u \in Titles \ {t} : Same(u) /\ (X!Found(u)' <=> X!Found(u))
                                  /\ (u \in crossed => u \in crossed')
      BY <1>1, <1>2, <1>3, <1>4, FoundStays DEF Same, SearchInv, SearchBase
    <2>3. AliasInv' /\ \A j \in Jobs : JobStays(rebuild[j], rebuild'[j], {t})
      <3>1. ~X!Quiet(t)
        BY DEF X!Quiet
      <3>2. AliasInv'
        BY <1>1, <2>1, AliasStays
      <3> QED
        BY <1>1, <3>1, <3>2 DEF JobStays
    <2>4. ASSUME t \notin strayed' PROVE Followed(t)'
      <3>1. Followed(t) /\ (X!Found(t)' <=> X!Found(t))
        BY <1>1, <1>2, <2>1, <2>4, FoundStays DEF FollowInv
      <3>2. \A s \in Requests : req[s].on = t \/ req'[s].on = t => s = r
        BY <1>2, <1>3, <1>4, <3>1 DEF Followed, Alone
      <3>3. /\ t \in deleted' <=> t \in deleted \/ want = "deleted"
            /\ entry'[t] = IF want = "deleted" THEN entry[t] ELSE want
        BY <1>1, <1>2, <3>1 DEF Followed, Told, SearchInv, SearchBase
      <3>4. Alone(t)' /\ Told(t)'
        BY <1>1, <1>3, <1>4, <3>1, <3>2, <3>3 DEF Followed, Alone, Told, X!Handlers
      <3>5. /\ Removal(t) \/ want # "published" => Removal(t)'
            /\ Bringing(t)' <=> Bringing(t)
            /\ Arrival(t) \/ want = "published" => Arrival(t)'
            /\ NoneOf({"published"}, t) /\ want # "published" => NoneOf({"published"}, t)'
            /\ NoneOf(X!Gone, t) /\ want = "published" => NoneOf(X!Gone, t)'
        BY <1>1, <1>3, <1>4, <3>2
        DEF Removal, Arrival, Bringing, NoneOf, X!Gone, X!Handlers, X!TopicOf
      <3>6. entry'[t] # "published" /\ (X!Found(t)' \/ Bringing(t)') => Removal(t)'
        BY <3>1, <3>3, <3>5 DEF Followed
      <3>7. ASSUME t \notin crossed' PROVE Uncrossed(t)'
        <4>1. ~X!Crosses(t, want) /\ Uncrossed(t)
          BY <1>1, <3>1, <3>7 DEF Followed
        <4>2. want = "published" => t \notin deleted /\ NoneOf(X!Gone, t) /\ handler["sync"].on # t
          <5> SUFFICES ASSUME want = "published"
                       PROVE  t \notin deleted /\ NoneOf(X!Gone, t) /\ handler["sync"].on # t
            OBVIOUS
          <5>1. t \notin deleted /\ (\A p \in X!Gone : ~(pending[p][t] > 0))
                /\ \A h \in X!Handlers : handler[h].on # t
            BY <4>1 DEF X!Crosses
          <5>2. \A p \in X!Gone : pending[p][t] = 0
            BY <1>2, <5>1 DEF SearchInv, SearchBase, X!Gone, X!Topics
          <5> QED
            BY <1>1, <3>2, <5>1, <5>2 DEF NoneOf, X!Handlers
        <4>3. want = "deleted" => NoneOf({"published"}, t)
          <5> SUFFICES ASSUME want = "deleted"
                       PROVE  NoneOf({"published"}, t)
            OBVIOUS
          <5>1. ~(pending["published"][t] > 0) /\ handler["sync"].on # t
            BY <4>1 DEF X!Crosses
          <5>2. pending["published"][t] = 0
            BY <1>2, <5>1 DEF SearchInv, SearchBase, X!Topics
          <5>3. \A h \in X!Handlers : handler[h].on = t => handler[h].topic # "published"
            BY <1>2, <5>1, SearchAssumption
            DEF SearchInv, SearchBase, HandlerShape, X!Handlers, X!Gone
          <5> QED
            BY <1>1, <3>2, <5>2, <5>3 DEF NoneOf
        <4>4. t \in deleted' => NoneOf({"published"}, t)' /\ (X!Found(t)' => Removal(t)')
          <5>1. t \in deleted' => want # "published"
            BY <3>3, <4>2
          <5> QED
            BY <3>1, <3>3, <3>5, <4>1, <4>3, <5>1 DEF Uncrossed
        <4>5. X!Listed(t)' => /\ NoneOf(X!Gone, t)' /\ (X!Found(t)' \/ Arrival(t)')
                              /\ (handler'["sync"].on = t /\ handler'["sync"].at = "fetched" => Bringing(t)')
          <5>1. X!Listed(t)' => want = "published"
            BY <3>3 DEF X!Listed
          <5> QED
            BY <1>1, <3>5, <4>2, <5>1
        <4> QED
          BY <4>4, <4>5 DEF Uncrossed
      <3> QED
        BY <3>4, <3>6, <3>7 DEF Followed
    <2> QED
      BY <1>1, <2>1, <2>2, <2>3, <2>4, CalmStays DEF SearchCalm
  <1> QED
    BY <1>5, <1>6 DEF SearchInv

LEMMA PublishStep ==
    ASSUME SearchInv, NEW r \in Requests, X!Publish(r)
    PROVE  SearchInv'
  <1> PICK t, want, p : t = req[r].on /\ want = req[r].want /\ p = X!TopicOf(want)
    OBVIOUS
  <1>1. /\ req[r].at = "publishing" /\ req' = [req EXCEPT ![r] = X!IdleRequest]
        /\ pending' = [pending EXCEPT ![p][t] = pending[p][t] + 1]
        /\ UNCHANGED <<entry, deleted, handler, rebuild, removing, docs, alias, strayed, crossed, raced>>
    BY DEF X!Publish, X!index
  <1>2. t \in Titles /\ want \in X!Wishes /\ p \in X!Topics
    BY <1>1 DEF SearchInv, SearchBase, RequestShape, X!TopicOf, X!Topics
  <1>3. /\ DOMAIN X!IdleRequest = {"at", "on", "seen", "want"}
        /\ X!IdleRequest.at = "idle" /\ X!IdleRequest.on = None
    BY DEF X!IdleRequest
  <1>4. /\ DOMAIN req' = Requests /\ req'[r] = X!IdleRequest
        /\ \A s \in Requests : s # r => req'[s] = req[s]
    BY <1>1 DEF SearchInv, SearchBase
  <1>5. /\ pending' \in [X!Topics -> [Titles -> Nat]]
        /\ \A o \in X!Topics, u \in Titles :
              pending'[o][u] = IF o = p /\ u = t THEN pending[o][u] + 1 ELSE pending[o][u]
    BY <1>1, <1>2 DEF SearchInv, SearchBase
  <1>6. SearchBase'
    BY <1>1, <1>3, <1>4, <1>5 DEF SearchInv, SearchBase, RequestShape
  <1>7. ASSUME ~raced' PROVE SearchCalm'
    <2>1. SearchBase /\ AliasInv /\ FollowInv /\ JobsFollow
      BY <1>1, <1>7 DEF SearchInv, SearchCalm
    <2>2. \A u \in Titles \ {t} : Same(u) /\ (X!Found(u)' <=> X!Found(u))
      BY <1>1, <1>2, <1>3, <1>4, <1>5, SearchAssumption, FoundStays DEF Same
    <2>3. AliasInv' /\ \A j \in Jobs : JobStays(rebuild[j], rebuild'[j], {t})
      <3>1. ~X!Quiet(t)
        BY DEF X!Quiet
      <3>2. AliasInv'
        BY <1>1, <2>1, AliasStays
      <3> QED
        BY <1>1, <3>1, <3>2 DEF JobStays
    <2>4. ASSUME t \notin strayed' PROVE Followed(t)'
      <3>1. Followed(t) /\ (X!Found(t)' <=> X!Found(t))
        BY <1>1, <1>2, <2>1, <2>4, FoundStays DEF FollowInv
      <3>2. /\ \A s \in Requests : req[s].on = t => s = r
            /\ \A s \in Requests : req'[s].on # t
        BY <1>2, <1>3, <1>4, <3>1, SearchAssumption DEF Followed, Alone
      <3>3. IF want = "deleted" THEN t \in deleted ELSE entry[t] = want
        BY <1>1, <3>1 DEF Followed, Told
      <3>4. Alone(t)' /\ Told(t)'
        BY <1>1, <3>1, <3>2 DEF Followed, Alone, Told, X!Handlers
      <3>5. pending[p][t] \in Nat
        BY <1>2 DEF SearchInv, SearchBase
      <3>6. /\ Bringing(t)' <=> Bringing(t)
            /\ Removal(t) => Removal(t)'
            /\ Arrival(t) => Arrival(t)'
        <4>1. Bringing(t)' <=> Bringing(t)
          BY <1>1 DEF Bringing
        <4>2. Removal(t) => Removal(t)'
          BY <1>1, <1>2, <1>5, <3>2, <3>5 DEF Removal, X!Gone, X!Topics, X!TopicOf
        <4>3. Arrival(t) => Arrival(t)'
          BY <1>1, <1>2, <1>5, <3>2, <3>5, <4>1 DEF Arrival, X!Topics, X!TopicOf
        <4> QED
          BY <4>1, <4>2, <4>3
      <3>7. /\ NoneOf({"published"}, t) => NoneOf({"published"}, t)'
            /\ NoneOf(X!Gone, t) => NoneOf(X!Gone, t)'
        BY <1>1, <1>2, <1>5, <3>2 DEF NoneOf, X!Gone, X!Topics
      <3> QED
        BY <1>1, <3>1, <3>4, <3>6, <3>7 DEF Followed, Uncrossed, X!Listed
    <2> QED
      BY <1>1, <2>1, <2>2, <2>3, <2>4, CalmStays DEF SearchCalm
  <1> QED
    BY <1>6, <1>7 DEF SearchInv

LEMMA LeaveRequestStep ==
    ASSUME SearchInv, NEW r \in Requests, X!LeaveRequest(r)
    PROVE  SearchInv'
  <1> PICK t : t = req[r].on
    OBVIOUS
  <1>1. /\ req[r].at # "idle" /\ req' = [req EXCEPT ![r] = X!IdleRequest]
        /\ strayed' = IF req[r].at = "publishing" THEN strayed \union {t} ELSE strayed
        /\ UNCHANGED <<entry, deleted, pending, handler, rebuild, removing, docs, alias, crossed, raced>>
    BY DEF X!LeaveRequest, X!index
  <1>2. t \in Titles
    BY <1>1 DEF SearchInv, SearchBase, RequestShape
  <1>3. /\ DOMAIN X!IdleRequest = {"at", "on", "seen", "want"}
        /\ X!IdleRequest.at = "idle" /\ X!IdleRequest.on = None
    BY DEF X!IdleRequest
  <1>4. /\ DOMAIN req' = Requests /\ req'[r] = X!IdleRequest
        /\ \A s \in Requests : s # r => req'[s] = req[s]
    BY <1>1 DEF SearchInv, SearchBase
  <1>5. SearchBase'
    BY <1>1, <1>3, <1>4 DEF SearchInv, SearchBase, RequestShape
  <1>6. ASSUME ~raced' PROVE SearchCalm'
    <2>1. SearchBase /\ AliasInv /\ FollowInv /\ JobsFollow
      BY <1>1, <1>6 DEF SearchInv, SearchCalm
    <2>2. \A u \in Titles \ {t} : Same(u) /\ (X!Found(u)' <=> X!Found(u))
      BY <1>1, <1>2, <1>3, <1>4, SearchAssumption, FoundStays DEF Same
    <2>3. AliasInv' /\ \A j \in Jobs : JobStays(rebuild[j], rebuild'[j], {t})
      <3>1. ~X!Quiet(t)
        BY DEF X!Quiet
      <3>2. AliasInv'
        BY <1>1, <2>1, AliasStays
      <3> QED
        BY <1>1, <3>1, <3>2 DEF JobStays
    <2>4. ASSUME t \notin strayed' PROVE Followed(t)'
      <3>1. Followed(t) /\ (X!Found(t)' <=> X!Found(t)) /\ req[r].at # "publishing"
        BY <1>1, <1>2, <2>1, <2>4, FoundStays DEF FollowInv
      <3>2. /\ \A s \in Requests : req[s].on = t => s = r
            /\ \A s \in Requests : req'[s].on # t
        BY <1>2, <1>3, <1>4, <3>1, SearchAssumption DEF Followed, Alone
      <3>3. Alone(t)' /\ Told(t)'
        BY <1>1, <3>1, <3>2 DEF Followed, Alone, Told, X!Handlers
      <3>4. /\ Removal(t)' <=> Removal(t)
            /\ Bringing(t)' <=> Bringing(t)
            /\ Arrival(t) => Arrival(t)'
            /\ NoneOf({"published"}, t) => NoneOf({"published"}, t)'
            /\ NoneOf(X!Gone, t) => NoneOf(X!Gone, t)'
        BY <1>1, <3>1, <3>2
        DEF Removal, Arrival, Bringing, NoneOf, X!Gone, X!Handlers, X!TopicOf
      <3> QED
        BY <1>1, <3>1, <3>3, <3>4 DEF Followed, Uncrossed, X!Listed
    <2> QED
      BY <1>1, <2>1, <2>2, <2>3, <2>4, CalmStays DEF SearchCalm
  <1> QED
    BY <1>5, <1>6 DEF SearchInv

-----------------------------------------------------------------------------
(* The consumers of the search service *)

\* The one index that the alias has
LEMMA OneIndex ==
    ASSUME SearchBase, AliasInv
    PROVE  \E a \in DOMAIN docs :
              /\ alias = {a} /\ DOMAIN docs[a] = Titles
              /\ \A t : X!Found(t) <=> docs[a][t] = "published"
  BY DEF AliasInv, X!Found, SearchBase

\* A document is written or deleted through the alias.
WritesDoc(t, x) ==
    /\ alias' = alias /\ DOMAIN docs' = DOMAIN docs
    /\ \A v \in DOMAIN docs :
          docs'[v] = IF v \in alias THEN [docs[v] EXCEPT ![t] = x] ELSE docs[v]

LEMMA FoundChanges ==
    ASSUME SearchBase, AliasInv, NEW t \in Titles, NEW x, WritesDoc(t, x)
    PROVE  /\ X!Found(t)' <=> x = "published"
           /\ \A u \in Titles \ {t} : X!Found(u)' <=> X!Found(u)
  <1>1. PICK a \in DOMAIN docs : alias = {a} /\ DOMAIN docs[a] = Titles
    BY OneIndex
  <1>2. docs'[a] = [docs[a] EXCEPT ![t] = x] /\ alias' = {a}
    BY <1>1 DEF WritesDoc
  <1> QED
    BY <1>1, <1>2 DEF X!Found, SearchBase

Handles(h, q) == handler' = [handler EXCEPT ![h] = q]

LEMMA TakeEffects ==
    ASSUME SearchInv, NEW h \in X!Handlers, NEW p \in X!Topics, NEW t \in Titles, X!Take(h, p, t),
           NEW q, Handles(h, q), q.on = t
    PROVE  /\ handler[h].at = "idle" /\ handler[h].on = None
           /\ DOMAIN handler' = X!Handlers /\ handler'[h] = q
           /\ \A g \in X!Handlers : g # h => handler'[g] = handler[g]
           /\ strayed' = IF \E g \in X!Handlers : handler[g].on = t THEN strayed \union {t} ELSE strayed
           /\ pending[p][t] \in Nat /\ pending[p][t] > 0
           /\ pending' \in [X!Topics -> [Titles -> Nat]]
           /\ \A o \in X!Topics, u \in Titles :
                 pending'[o][u] = IF o = p /\ u = t THEN pending[o][u] - 1 ELSE pending[o][u]
           /\ rebuild' = X!Touch(t)
           /\ UNCHANGED <<entry, deleted, req, removing, crossed, raced>>
           /\ \A u \in Titles \ {t} : Same(u)
  <1>1. /\ handler[h].at = "idle" /\ pending[p][t] > 0
        /\ strayed' = IF \E g \in X!Handlers : handler[g].on = t THEN strayed \union {t} ELSE strayed
        /\ pending' = [pending EXCEPT ![p][t] = pending[p][t] - 1]
        /\ rebuild' = X!Touch(t)
        /\ UNCHANGED <<entry, deleted, req, removing, crossed, raced>>
    BY DEF X!Take, X!catalogue
  <1>2. handler[h].on = None /\ pending[p][t] \in Nat
    BY <1>1 DEF SearchInv, SearchBase, HandlerShape
  <1>3. /\ DOMAIN handler' = X!Handlers /\ handler'[h] = q
        /\ \A g \in X!Handlers : g # h => handler'[g] = handler[g]
    BY DEF SearchInv, SearchBase, Handles
  <1>4. /\ pending' \in [X!Topics -> [Titles -> Nat]]
        /\ \A o \in X!Topics, u \in Titles :
              pending'[o][u] = IF o = p /\ u = t THEN pending[o][u] - 1 ELSE pending[o][u]
    <2>1. pending[p][t] - 1 \in Nat
      BY <1>1, <1>2
    <2>2. pending \in [X!Topics -> [Titles -> Nat]]
      BY DEF SearchInv, SearchBase
    <2> QED
      BY <1>1, <2>1, <2>2
  <1>5. \A u \in Titles \ {t} : Same(u)
    BY <1>1, <1>2, <1>3, <1>4, SearchAssumption DEF Same
  <1> QED
    BY <1>1, <1>2, <1>3, <1>4, <1>5

LEMMA TitleDeleted ==
    ASSUME SearchBase, NEW t \in Titles, docs' = X!Without(t)
    PROVE  /\ DOMAIN docs' = DOMAIN docs /\ \A v \in DOMAIN docs : DOMAIN docs'[v] = Titles
           /\ AliasInv /\ alias' = alias => WritesDoc(t, None)
  <1>1. AliasInv => X!Targets = alias
    BY DEF AliasInv, X!Targets
  <1> QED
    BY <1>1 DEF X!Without, SearchBase, WritesDoc

LEMMA DeleteDocStep ==
    ASSUME SearchInv, NEW h \in X!Handlers, NEW p \in X!Gone, NEW t \in Titles, X!DeleteDoc(h, p, t)
    PROVE  SearchInv'
  <1> DEFINE q == [at |-> "mirroring", on |-> t, topic |-> p, doc |-> "draft"]
  <1>1. /\ X!Take(h, p, t) /\ Handles(h, q)
        /\ docs' = X!Without(t) /\ UNCHANGED alias
    BY DEF X!DeleteDoc, Handles
  <1>2. /\ DOMAIN q = {"at", "on", "topic", "doc"} /\ q.at = "mirroring" /\ q.on = t /\ q.topic = p
        /\ p \in X!Topics
    BY DEF X!Gone, X!Topics
  <1> HIDE DEF q
  <1>3. /\ handler[h].at = "idle" /\ handler[h].on = None
        /\ DOMAIN handler' = X!Handlers /\ handler'[h] = q
        /\ \A g \in X!Handlers : g # h => handler'[g] = handler[g]
        /\ strayed' = IF \E g \in X!Handlers : handler[g].on = t THEN strayed \union {t} ELSE strayed
        /\ pending[p][t] \in Nat /\ pending[p][t] > 0
        /\ pending' \in [X!Topics -> [Titles -> Nat]]
        /\ \A o \in X!Topics, u \in Titles :
              pending'[o][u] = IF o = p /\ u = t THEN pending[o][u] - 1 ELSE pending[o][u]
        /\ rebuild' = X!Touch(t)
        /\ UNCHANGED <<entry, deleted, req, removing, crossed, raced>>
        /\ \A u \in Titles \ {t} : Same(u)
    BY <1>1, <1>2, TakeEffects
  <1>4. SearchBase'
    BY <1>1, <1>2, <1>3, TouchedJobs, TitleDeleted
    DEF SearchInv, SearchBase, HandlerShape, RequestShape
  <1>5. ASSUME ~raced' PROVE SearchCalm'
    <2>1. SearchBase /\ AliasInv /\ FollowInv /\ JobsFollow
      BY <1>3, <1>5 DEF SearchInv, SearchCalm
    <2>2. /\ X!Found(t)' <=> None = "published"
          /\ \A u \in Titles \ {t} : X!Found(u)' <=> X!Found(u)
      BY <1>1, <2>1, TitleDeleted, FoundChanges
    <2>3. AliasInv' /\ \A j \in Jobs : JobStays(rebuild[j], rebuild'[j], {t})
      BY <1>1, <1>3, <2>1, TouchStays, TitleDeleted DEF WritesDoc
    <2>4. ASSUME t \notin strayed' PROVE Followed(t)'
      <3>1. Followed(t) /\ (\A g \in X!Handlers : handler[g].on # t) /\ ~X!Found(t)'
        BY <1>3, <2>1, <2>2, <2>4, SearchAssumption DEF FollowInv, X!Statuses
      <3>2. \A g \in X!Handlers : handler'[g].on = t => g = h
        BY <1>3, <3>1
      <3>3. Alone(t)' /\ Told(t)'
        BY <1>2, <1>3, <3>1, <3>2 DEF Followed, Alone, Told
      <3>4. /\ ~Bringing(t)'
            /\ NoneOf({"published"}, t) => NoneOf({"published"}, t)'
            /\ ~NoneOf(X!Gone, t)
        BY <1>2, <1>3, <3>2 DEF Bringing, NoneOf, X!Gone, X!Topics, X!Handlers
      <3>5. \A g \in X!Handlers : handler'[g].on = t => handler'[g].at # "fetched"
        BY <1>2, <1>3, <3>2
      <3> QED
        BY <1>3, <3>1, <3>3, <3>4, <3>5 DEF Followed, Uncrossed, X!Listed
    <2> QED
      BY <1>3, <2>1, <2>2, <2>3, <2>4, CalmStays DEF SearchCalm
  <1> QED
    BY <1>4, <1>5 DEF SearchInv

LEMMA FetchStep ==
    ASSUME SearchInv, NEW t \in Titles, X!Fetch(t)
    PROVE  SearchInv'
  <1> DEFINE h == "sync"
             p == "published"
             q == [at |-> "fetched", on |-> t, topic |-> "published", doc |-> X!Detail(t)]
  <1>1. /\ X!Take(h, p, t) /\ Handles(h, q)
        /\ UNCHANGED <<docs, alias>>
    BY DEF X!Fetch, X!index, Handles
  <1>2. /\ DOMAIN q = {"at", "on", "topic", "doc"} /\ q.at = "fetched" /\ q.on = t
        /\ q.topic = p /\ q.doc = entry[t]
        /\ p \in X!Topics /\ h \in X!Handlers
    BY DEF X!Topics, X!Handlers, X!Detail
  <1> HIDE DEF q
  <1>3. /\ handler[h].at = "idle" /\ handler[h].on = None
        /\ DOMAIN handler' = X!Handlers /\ handler'[h] = q
        /\ \A g \in X!Handlers : g # h => handler'[g] = handler[g]
        /\ strayed' = IF \E g \in X!Handlers : handler[g].on = t THEN strayed \union {t} ELSE strayed
        /\ pending[p][t] \in Nat /\ pending[p][t] > 0
        /\ pending' \in [X!Topics -> [Titles -> Nat]]
        /\ \A o \in X!Topics, u \in Titles :
              pending'[o][u] = IF o = p /\ u = t THEN pending[o][u] - 1 ELSE pending[o][u]
        /\ rebuild' = X!Touch(t)
        /\ UNCHANGED <<entry, deleted, req, removing, crossed, raced>>
        /\ \A u \in Titles \ {t} : Same(u)
    <2> HIDE DEF h, p
    <2> QED
      BY <1>1, <1>2, TakeEffects
  <1>4. SearchBase'
    BY <1>1, <1>2, <1>3, TouchedJobs DEF SearchInv, SearchBase, HandlerShape, RequestShape
  <1>5. ASSUME ~raced' PROVE SearchCalm'
    <2>1. SearchBase /\ AliasInv /\ FollowInv /\ JobsFollow
      BY <1>3, <1>5 DEF SearchInv, SearchCalm
    <2>2. \A u \in Titles : X!Found(u)' <=> X!Found(u)
      BY <1>1, FoundStays
    <2>3. AliasInv' /\ \A j \in Jobs : JobStays(rebuild[j], rebuild'[j], {t})
      BY <1>1, <1>3, <2>1, TouchStays
    <2>4. ASSUME t \notin strayed' PROVE Followed(t)'
      <3>1. Followed(t) /\ (\A g \in X!Handlers : handler[g].on # t) /\ (X!Found(t)' <=> X!Found(t))
        BY <1>3, <2>1, <2>2, <2>4 DEF FollowInv
      <3>2. \A g \in X!Handlers : handler'[g].on = t => g = h
        BY <1>3, <3>1
      <3>3. Alone(t)' /\ Told(t)'
        BY <1>2, <1>3, <3>1, <3>2 DEF Followed, Alone, Told
      <3>4. /\ Bringing(t)' <=> entry[t] = "published"
            /\ ~NoneOf({"published"}, t)
            /\ NoneOf(X!Gone, t) => NoneOf(X!Gone, t)'
            /\ Removal(t) => Removal(t)'
        BY <1>2, <1>3, <3>2 DEF Bringing, NoneOf, Removal, X!Gone, X!Topics, X!Handlers
      <3> QED
        BY <1>3, <3>1, <3>3, <3>4 DEF Followed, Uncrossed, Arrival, X!Listed
    <2> QED
      BY <1>3, <2>1, <2>2, <2>3, <2>4, CalmStays DEF SearchCalm
  <1> QED
    BY <1>4, <1>5 DEF SearchInv

LEMMA IndexDocStep ==
    ASSUME SearchInv, X!IndexDoc
    PROVE  SearchInv'
  <1> PICK t, x : t = handler["sync"].on /\ x = handler["sync"].doc
    OBVIOUS
  <1> DEFINE v == IF alias = {} THEN X!Legacy ELSE CHOOSE a \in alias : TRUE
             q == [handler["sync"] EXCEPT !.at = "mirroring", !.doc = "draft"]
  <1>1. /\ handler["sync"].at = "fetched" /\ handler' = [handler EXCEPT !["sync"] = q]
        /\ docs' = [i \in DOMAIN docs \union {v} |->
                       IF i \notin DOMAIN docs THEN [X!NoDocs EXCEPT ![t] = x]
                       ELSE IF i = v THEN [docs[i] EXCEPT ![t] = x] ELSE docs[i]]
        /\ UNCHANGED <<entry, deleted, req, pending, rebuild, removing, alias, strayed, crossed, raced>>
    BY DEF X!IndexDoc, X!catalogue, X!history
  <1>2. /\ DOMAIN handler["sync"] = {"at", "on", "topic", "doc"} /\ t \in Titles
        /\ handler["sync"].topic = "published" /\ "sync" \in X!Handlers
    BY <1>1 DEF SearchInv, SearchBase, HandlerShape, X!Handlers
  <1>3. /\ DOMAIN q = {"at", "on", "topic", "doc"} /\ q.at = "mirroring" /\ q.on = t
        /\ q.topic = "published"
    BY <1>2
  <1> HIDE DEF q, v
  <1>4. /\ DOMAIN handler' = X!Handlers /\ handler'["sync"] = q
        /\ \A g \in X!Handlers : g # "sync" => handler'[g] = handler[g]
    BY <1>1, <1>2 DEF SearchInv, SearchBase
  <1>5. \A i \in DOMAIN docs' : DOMAIN docs'[i] = Titles
    <2>1. DOMAIN X!NoDocs = Titles /\ \A i \in DOMAIN docs : DOMAIN docs[i] = Titles
      BY DEF X!NoDocs, SearchInv, SearchBase
    <2> QED
      BY <1>1, <2>1
  <1>6. SearchBase'
    <2>1. \A g \in X!Handlers : HandlerShape(g, handler'[g])
      BY <1>2, <1>3, <1>4 DEF SearchInv, SearchBase, HandlerShape, X!Topics, X!Handlers
    <2> QED
      BY <1>1, <1>4, <1>5, <2>1 DEF SearchInv, SearchBase, HandlerShape, RequestShape
  <1>7. ASSUME ~raced' PROVE SearchCalm'
    <2>1. SearchBase /\ AliasInv /\ FollowInv /\ JobsFollow
      BY <1>1, <1>7 DEF SearchInv, SearchCalm
    <2>2. alias = {v} /\ v \in DOMAIN docs
      BY <2>1 DEF v, AliasInv
    <2>3. WritesDoc(t, x)
      BY <1>1, <2>2 DEF WritesDoc
    <2>4. /\ X!Found(t)' <=> x = "published"
          /\ \A u \in Titles \ {t} : X!Found(u)' <=> X!Found(u)
      BY <1>1, <1>2, <2>1, <2>3, FoundChanges
    <2>5. \A u \in Titles \ {t} : Same(u)
      BY <1>1, <1>3, <1>4 DEF Same
    <2>6. AliasInv' /\ \A j \in Jobs : JobStays(rebuild[j], rebuild'[j], {t})
      <3>1. ~X!Quiet(t)
        BY <1>2 DEF X!Quiet
      <3>2. AliasInv'
        BY <1>1, <2>1, <2>3, AliasStays DEF WritesDoc
      <3>3. \A j \in Jobs : rebuild[j].at \in {"filling", "switching"} => rebuild[j].new \notin alias
        BY <2>1 DEF AliasInv, JobStands
      <3> QED
        BY <1>1, <2>3, <3>1, <3>2, <3>3 DEF JobStays, WritesDoc
    <2>7. ASSUME t \notin strayed' PROVE Followed(t)'
      <3>1. Followed(t)
        BY <1>1, <1>2, <2>1, <2>7 DEF FollowInv
      <3>2. \A g \in X!Handlers : handler'[g].on = t \/ handler[g].on = t => g = "sync"
        BY <1>2, <1>3, <1>4, <3>1 DEF Followed, Alone
      <3>3. Alone(t)' /\ Told(t)'
        BY <1>1, <3>1, <3>2 DEF Followed, Alone, Told
      <3>4. /\ ~Bringing(t)' /\ (X!Found(t)' <=> Bringing(t))
            /\ handler'["sync"].at # "fetched"
            /\ ~NoneOf({"published"}, t)
            /\ Removal(t) => Removal(t)'
            /\ NoneOf(X!Gone, t) => NoneOf(X!Gone, t)'
        BY <1>1, <1>2, <1>3, <1>4, <2>4, <3>2 DEF Bringing, NoneOf, Removal, X!Gone, X!Topics, X!Handlers
      <3> QED
        BY <1>1, <1>2, <3>1, <3>3, <3>4 DEF Followed, Uncrossed, X!Listed
    <2> QED
      BY <1>1, <2>1, <2>4, <2>5, <2>6, <2>7, CalmStays DEF SearchCalm
  <1> QED
    BY <1>6, <1>7 DEF SearchInv

LEMMA IdleHandles ==
    /\ DOMAIN X!IdleHandler = {"at", "on", "topic", "doc"}
    /\ X!IdleHandler.at = "idle" /\ X!IdleHandler.on = None
  BY DEF X!IdleHandler

LEMMA AcknowledgeStep ==
    ASSUME SearchInv, NEW h \in X!Handlers, X!Acknowledge(h)
    PROVE  SearchInv'
  <1> PICK t : t = handler[h].on
    OBVIOUS
  <1>1. /\ handler[h].at = "mirroring" /\ handler' = [handler EXCEPT ![h] = X!IdleHandler]
        /\ UNCHANGED <<entry, deleted, req, pending, rebuild, removing, docs, alias, strayed, crossed,
                       raced>>
    BY DEF X!Acknowledge, X!catalogue, X!index, X!history
  <1>2. t \in Titles
    BY <1>1 DEF SearchInv, SearchBase, HandlerShape
  <1>3. /\ DOMAIN handler' = X!Handlers /\ handler'[h] = X!IdleHandler
        /\ \A g \in X!Handlers : g # h => handler'[g] = handler[g]
    BY <1>1 DEF SearchInv, SearchBase
  <1>4. SearchBase'
    BY <1>1, <1>3, IdleHandles DEF SearchInv, SearchBase, HandlerShape, RequestShape
  <1>5. ASSUME ~raced' PROVE SearchCalm'
    <2>1. SearchBase /\ AliasInv /\ FollowInv /\ JobsFollow
      BY <1>1, <1>5 DEF SearchInv, SearchCalm
    <2>2. \A u \in Titles : X!Found(u)' <=> X!Found(u)
      BY <1>1, FoundStays
    <2>3. \A u \in Titles \ {t} : Same(u)
      BY <1>1, <1>3, IdleHandles, SearchAssumption DEF Same
    <2>4. AliasInv' /\ \A j \in Jobs : JobStays(rebuild[j], rebuild'[j], {t})
      <3>1. ~X!Quiet(t)
        BY DEF X!Quiet
      <3>2. AliasInv'
        BY <1>1, <2>1, AliasStays
      <3> QED
        BY <1>1, <3>1, <3>2 DEF JobStays
    <2>5. ASSUME t \notin strayed' PROVE Followed(t)'
      <3>1. Followed(t) /\ (X!Found(t)' <=> X!Found(t))
        BY <1>1, <1>2, <2>1, <2>2, <2>5 DEF FollowInv
      <3>2. /\ \A g \in X!Handlers : handler[g].on = t => g = h
            /\ \A g \in X!Handlers : handler'[g].on # t
        BY <1>2, <1>3, <3>1, IdleHandles, SearchAssumption DEF Followed, Alone
      <3>3. Alone(t)' /\ Told(t)'
        BY <1>1, <3>1, <3>2 DEF Followed, Alone, Told
      <3>4. ~Bringing(t)' /\ ~Bringing(t) /\ handler'["sync"].on # t
        BY <1>1, <3>2 DEF Bringing, X!Handlers
      <3>5. /\ Removal(t) => Removal(t)'
            /\ Arrival(t) => Arrival(t)'
            /\ NoneOf({"published"}, t) => NoneOf({"published"}, t)'
            /\ NoneOf(X!Gone, t) => NoneOf(X!Gone, t)'
        BY <1>1, <3>2, <3>4 DEF Arrival, NoneOf, Removal, X!Gone, X!TopicOf
      <3> QED
        BY <1>1, <3>1, <3>3, <3>4, <3>5 DEF Followed, Uncrossed, X!Listed
    <2> QED
      BY <1>1, <2>1, <2>2, <2>3, <2>4, <2>5, CalmStays DEF SearchCalm
  <1> QED
    BY <1>4, <1>5 DEF SearchInv

LEMMA StopStep ==
    ASSUME SearchInv, X!Stop
    PROVE  SearchInv'
  <1> PICK t, p : t = handler["sync"].on /\ p = handler["sync"].topic
    OBVIOUS
  <1>1. /\ handler["sync"].at # "idle" /\ handler' = [handler EXCEPT !["sync"] = X!IdleHandler]
        /\ pending' = X!Redelivered("sync")
        /\ UNCHANGED <<entry, deleted, req, rebuild, removing, docs, alias, strayed, crossed, raced>>
    BY DEF X!Stop, X!catalogue, X!index, X!history
  <1>2. t \in Titles /\ p \in X!Topics /\ "sync" \in X!Handlers
    BY <1>1 DEF SearchInv, SearchBase, HandlerShape, X!Handlers, X!Topics
  <1>3. /\ DOMAIN handler' = X!Handlers /\ handler'["sync"] = X!IdleHandler
        /\ \A g \in X!Handlers : g # "sync" => handler'[g] = handler[g]
    BY <1>1, <1>2 DEF SearchInv, SearchBase
  <1>4. /\ pending' \in [X!Topics -> [Titles -> Nat]]
        /\ \A o \in X!Topics, u \in Titles :
              pending'[o][u] = IF o = p /\ u = t THEN pending[o][u] + 1 ELSE pending[o][u]
    <2>1. pending' = [pending EXCEPT ![p][t] = pending[p][t] + 1]
      BY <1>1, <1>2, SearchAssumption DEF X!Redelivered
    <2>2. pending \in [X!Topics -> [Titles -> Nat]] /\ pending[p][t] \in Nat
      BY <1>2 DEF SearchInv, SearchBase
    <2> QED
      BY <1>2, <2>1, <2>2
  <1>5. SearchBase'
    <2>1. \A g \in X!Handlers : HandlerShape(g, handler'[g])
      BY <1>3, IdleHandles DEF SearchInv, SearchBase, HandlerShape
    <2> QED
      BY <1>1, <1>3, <1>4, <2>1 DEF SearchInv, SearchBase, HandlerShape, RequestShape
  <1>6. ASSUME ~raced' PROVE SearchCalm'
    <2>1. SearchBase /\ AliasInv /\ FollowInv /\ JobsFollow
      BY <1>1, <1>6 DEF SearchInv, SearchCalm
    <2>2. \A u \in Titles : X!Found(u)' <=> X!Found(u)
      BY <1>1, FoundStays
    <2>3. \A u \in Titles \ {t} : Same(u)
      BY <1>1, <1>3, <1>4, IdleHandles, SearchAssumption DEF Same
    <2>4. AliasInv' /\ \A j \in Jobs : JobStays(rebuild[j], rebuild'[j], {t})
      <3>1. ~X!Quiet(t)
        BY <1>2 DEF X!Quiet
      <3>2. AliasInv'
        BY <1>1, <2>1, AliasStays
      <3> QED
        BY <1>1, <3>1, <3>2 DEF JobStays
    <2>5. ASSUME t \notin strayed' PROVE Followed(t)'
      <3>1. Followed(t) /\ (X!Found(t)' <=> X!Found(t))
        BY <1>1, <1>2, <2>1, <2>2, <2>5 DEF FollowInv
      <3>2. /\ \A g \in X!Handlers : handler[g].on = t => g = "sync"
            /\ \A g \in X!Handlers : handler'[g].on # t
        BY <1>2, <1>3, <3>1, IdleHandles, SearchAssumption DEF Followed, Alone
      <3>3. Alone(t)' /\ Told(t)'
        BY <1>1, <3>1, <3>2 DEF Followed, Alone, Told
      <3>4. ~Bringing(t)' /\ handler'["sync"].on # t /\ pending[p][t] \in Nat
        BY <1>2, <3>2 DEF Bringing, SearchInv, SearchBase
      <3>5. Removal(t) => Removal(t)'
        BY <1>1, <1>2, <1>4, <3>4 DEF Removal, X!Gone, X!Topics
      <3>6. Arrival(t) => Arrival(t)'
        <4>1. Bringing(t) => p = "published"
          BY <1>2, SearchAssumption DEF Bringing, SearchInv, SearchBase, HandlerShape
        <4> QED
          BY <1>1, <1>2, <1>4, <3>4, <4>1 DEF Arrival, X!Topics
      <3>7. /\ NoneOf({"published"}, t) => NoneOf({"published"}, t)'
            /\ NoneOf(X!Gone, t) => NoneOf(X!Gone, t)'
        BY <1>1, <1>2, <1>4, <3>2 DEF NoneOf, X!Gone, X!Topics, X!TopicOf
      <3> QED
        BY <1>1, <3>1, <3>3, <3>4, <3>5, <3>6, <3>7 DEF Followed, Uncrossed, X!Listed
    <2> QED
      BY <1>1, <2>1, <2>2, <2>3, <2>4, <2>5, CalmStays DEF SearchCalm
  <1> QED
    BY <1>5, <1>6 DEF SearchInv

LEMMA DeadLetterStep ==
    ASSUME SearchInv, X!DeadLetter
    PROVE  SearchInv'
  <1> PICK t : t = handler["subscriber"].on
    OBVIOUS
  <1>1. /\ handler["subscriber"].at # "idle"
        /\ handler' = [handler EXCEPT !["subscriber"] = X!IdleHandler]
        /\ strayed' = strayed \union {t}
        /\ UNCHANGED <<entry, deleted, req, pending, rebuild, removing, docs, alias, crossed, raced>>
    BY DEF X!DeadLetter, X!catalogue, X!index
  <1>2. "subscriber" \in X!Handlers
    BY DEF X!Handlers
  <1>3. /\ DOMAIN handler' = X!Handlers /\ handler'["subscriber"] = X!IdleHandler
        /\ \A g \in X!Handlers : g # "subscriber" => handler'[g] = handler[g]
    BY <1>1, <1>2 DEF SearchInv, SearchBase
  <1>4. SearchBase'
    <2>1. \A g \in X!Handlers : HandlerShape(g, handler'[g])
      BY <1>3, IdleHandles DEF SearchInv, SearchBase, HandlerShape
    <2> QED
      BY <1>1, <1>3, <2>1 DEF SearchInv, SearchBase, HandlerShape, RequestShape
  <1>5. ASSUME ~raced' PROVE SearchCalm'
    <2>1. SearchBase /\ AliasInv /\ FollowInv /\ JobsFollow
      BY <1>1, <1>5 DEF SearchInv, SearchCalm
    <2>2. \A u \in Titles : X!Found(u)' <=> X!Found(u)
      BY <1>1, FoundStays
    <2>3. \A u \in Titles \ {t} : Same(u)
      BY <1>1, <1>3, IdleHandles, SearchAssumption DEF Same
    <2>4. AliasInv' /\ \A j \in Jobs : JobStays(rebuild[j], rebuild'[j], {t})
      <3>1. ~X!Quiet(t)
        BY <1>2 DEF X!Quiet
      <3>2. AliasInv'
        BY <1>1, <2>1, AliasStays
      <3> QED
        BY <1>1, <3>1, <3>2 DEF JobStays
    <2> QED
      BY <1>1, <2>1, <2>2, <2>3, <2>4, CalmStays DEF SearchCalm
  <1> QED
    BY <1>4, <1>5 DEF SearchInv

LEMMA RemoveDocStep ==
    ASSUME SearchInv, NEW t \in Titles, X!RemoveDoc(t)
    PROVE  SearchInv'
  <1>1. /\ docs' = X!Without(t) /\ strayed' = strayed \union {t} /\ rebuild' = X!Touch(t)
        /\ UNCHANGED <<entry, deleted, req, pending, handler, removing, alias, crossed, raced>>
    BY DEF X!RemoveDoc, X!catalogue
  <1>2. SearchBase'
    BY <1>1, TouchedJobs, TitleDeleted DEF SearchInv, SearchBase, HandlerShape, RequestShape
  <1>3. ASSUME ~raced' PROVE SearchCalm'
    <2>1. SearchBase /\ AliasInv /\ FollowInv /\ JobsFollow
      BY <1>1, <1>3 DEF SearchInv, SearchCalm
    <2>2. \A u \in Titles \ {t} : X!Found(u)' <=> X!Found(u)
      BY <1>1, <2>1, TitleDeleted, FoundChanges
    <2>3. AliasInv' /\ \A j \in Jobs : JobStays(rebuild[j], rebuild'[j], {t})
      BY <1>1, <2>1, TouchStays, TitleDeleted DEF WritesDoc
    <2>4. \A u \in Titles \ {t} : Same(u)
      BY <1>1 DEF Same
    <2> QED
      BY <1>1, <2>1, <2>2, <2>3, <2>4, CalmStays DEF SearchCalm
  <1> QED
    BY <1>2, <1>3 DEF SearchInv

\* How often the consumers hold an event
LEMMA HeldCount ==
    ASSUME NEW t, NEW p
    PROVE  /\ X!Cardinality({h \in X!Handlers : handler[h].on = t /\ handler[h].topic = p}) \in Nat
           /\ X!Cardinality({h \in X!Handlers : handler[h].on = t /\ handler[h].topic = p}) = 0
                <=> \A h \in X!Handlers : ~(handler[h].on = t /\ handler[h].topic = p)
  <1> DEFINE H == {h \in X!Handlers : handler[h].on = t /\ handler[h].topic = p}
  <1>1. X!Cardinality(H) = Cardinality(H)
    BY DEF Cardinality, X!Cardinality
  <1>2. IsFiniteSet(X!Handlers)
    <2>1. X!Handlers = {"subscriber"} \union {"sync"}
      BY DEF X!Handlers
    <2> QED
      BY <2>1, FS_Singleton, FS_Union
  <1>3. IsFiniteSet(H)
    BY <1>2, FS_Subset
  <1>4. H = {} <=> \A h \in X!Handlers : ~(handler[h].on = t /\ handler[h].topic = p)
    OBVIOUS
  <1>5. X!Cardinality(H) \in Nat /\ (X!Cardinality(H) = 0 <=> H = {})
    <2> HIDE DEF H
    <2> QED
      BY <1>1, <1>3, FS_CardinalityType, FS_EmptySet
  <1> QED
    BY <1>4, <1>5

LEMMA IdleWorks ==
    DOMAIN X!IdleJob = {"at", "old", "new", "items", "touched"} /\ X!IdleJob.at = "idle"
  BY DEF X!IdleJob

LEMMA RestartStep ==
    ASSUME SearchInv, X!Restart
    PROVE  SearchInv'
  <1> DEFINE Held(p, t) ==
        X!Cardinality({h \in X!Handlers : handler[h].on = t /\ handler[h].topic = p})
  <1>1. /\ pending' = [p \in X!Topics |-> [t \in Titles |-> pending[p][t] + Held(p, t)]]
        /\ handler' = [h \in X!Handlers |-> X!IdleHandler]
        /\ rebuild' = [j \in Jobs |-> X!IdleJob]
        /\ removing' = None
        /\ UNCHANGED <<entry, deleted, req, docs, alias, strayed, crossed, raced>>
    BY DEF X!Restart, X!catalogue, X!index, X!history
  <1>2. \A p, t : /\ Held(p, t) \in Nat
                  /\ Held(p, t) = 0 <=> \A h \in X!Handlers : ~(handler[h].on = t /\ handler[h].topic = p)
    <2> SUFFICES ASSUME NEW p, NEW t
                 PROVE  /\ Held(p, t) \in Nat
                        /\ Held(p, t) = 0 <=> \A h \in X!Handlers : ~(handler[h].on = t /\ handler[h].topic = p)
      OBVIOUS
    <2> QED
      BY HeldCount
  <1> HIDE DEF Held
  <1>3. /\ pending' \in [X!Topics -> [Titles -> Nat]] /\ pending \in [X!Topics -> [Titles -> Nat]]
        /\ \A p \in X!Topics, t \in Titles : pending'[p][t] = pending[p][t] + Held(p, t)
    BY <1>1, <1>2 DEF SearchInv, SearchBase
  <1>4. /\ DOMAIN handler' = X!Handlers /\ \A h \in X!Handlers : handler'[h] = X!IdleHandler
        /\ DOMAIN rebuild' = Jobs /\ \A j \in Jobs : rebuild'[j] = X!IdleJob
        /\ "sync" \in X!Handlers
    BY <1>1 DEF X!Handlers
  <1>5. SearchBase'
    <2>1. \A g \in X!Handlers : HandlerShape(g, handler'[g])
      BY <1>4, IdleHandles DEF HandlerShape
    <2> QED
      BY <1>1, <1>3, <1>4, <2>1, IdleWorks DEF SearchInv, SearchBase, HandlerShape, RequestShape
  <1>6. ASSUME ~raced' PROVE SearchCalm'
    <2>1. SearchBase /\ AliasInv /\ FollowInv /\ JobsFollow
      BY <1>1, <1>6 DEF SearchInv, SearchCalm
    <2>2. \A u \in Titles : X!Found(u)' <=> X!Found(u)
      BY <1>1, FoundStays
    <2>3. AliasInv'
      <3>1. None \notin alias
        BY <2>1, SearchAssumption DEF AliasInv, X!Indices
      <3> QED
        BY <1>1, <1>4, <2>1, <3>1, IdleWorks DEF AliasInv, JobStands, X!Building, X!Indices
    <2>4. \A j \in Jobs : JobStays(rebuild[j], rebuild'[j], Titles)
      BY <1>4, IdleWorks DEF JobStays
    <2>5. ASSUME NEW t \in Titles, t \notin strayed' PROVE Followed(t)'
      <3>1. Followed(t) /\ (X!Found(t)' <=> X!Found(t))
        BY <1>1, <2>1, <2>2, <2>5 DEF FollowInv
      <3>2. \A g \in X!Handlers : handler'[g].on # t
        BY <1>4, IdleHandles, SearchAssumption
      <3>3. Alone(t)' /\ Told(t)'
        BY <1>1, <3>1, <3>2 DEF Followed, Alone, Told
      <3>4. ~Bringing(t)' /\ handler'["sync"].on # t
        BY <1>4, <3>2 DEF Bringing
      <3>5. /\ \A p \in X!Topics : pending[p][t] > 0 => pending'[p][t] > 0
            /\ \A p \in X!Topics : Held(p, t) # 0 => pending'[p][t] > 0
            /\ \A p \in X!Topics : pending[p][t] = 0 /\ Held(p, t) = 0 => pending'[p][t] = 0
        <4>1. ASSUME NEW p \in X!Topics
              PROVE  /\ pending[p][t] > 0 => pending'[p][t] > 0
                     /\ Held(p, t) # 0 => pending'[p][t] > 0
                     /\ pending[p][t] = 0 /\ Held(p, t) = 0 => pending'[p][t] = 0
          <5>1. /\ Held(p, t) \in Nat /\ pending[p][t] \in Nat
                /\ pending'[p][t] = pending[p][t] + Held(p, t)
            BY <1>2, <1>3
          <5> QED
            BY <5>1
        <4> QED
          BY <4>1
      <3>6. Removal(t) => Removal(t)'
        BY <1>1, <3>5 DEF Removal, X!Gone, X!Topics
      <3>7. Arrival(t) => Arrival(t)'
        <4>1. Bringing(t) => Held("published", t) # 0
          <5>1. Bringing(t) => handler["sync"].on = t /\ handler["sync"].topic = "published"
            BY <1>4, SearchAssumption DEF Bringing, SearchInv, SearchBase, HandlerShape
          <5> QED
            BY <1>2, <1>4, <5>1
        <4> QED
          BY <1>1, <3>5, <4>1 DEF Arrival, X!Topics
      <3>8. ASSUME NEW T \in {{"published"}, X!Gone}, NoneOf(T, t)
            PROVE  NoneOf(T, t)'
        <4>1. T \subseteq X!Topics
          BY <3>8 DEF X!Gone, X!Topics
        <4>2. \A p \in T : pending[p][t] = 0 /\ Held(p, t) = 0
          BY <1>2, <3>8 DEF NoneOf
        <4> QED
          BY <1>1, <3>2, <3>5, <3>8, <4>1, <4>2 DEF NoneOf, X!TopicOf
      <3>9. /\ NoneOf({"published"}, t) => NoneOf({"published"}, t)'
            /\ NoneOf(X!Gone, t) => NoneOf(X!Gone, t)'
        BY <3>8
      <3> QED
        BY <1>1, <3>1, <3>3, <3>4, <3>6, <3>7, <3>9 DEF Followed, Uncrossed, X!Listed
    <2> QED
      BY <1>1, <2>1, <2>2, <2>3, <2>4, <2>5, CalmStays DEF SearchCalm
  <1> QED
    BY <1>5, <1>6 DEF SearchInv

-----------------------------------------------------------------------------
(* Steps of a rebuild *)

LEMMA MaxOf ==
    ASSUME NEW S \in SUBSET Nat, NEW n \in Nat, \A d \in S : d <= n, S # {}
    PROVE  X!Max(S) \in S /\ \A d \in S : d <= X!Max(S)
  <1> DEFINE T == {m \in Nat : \A d \in S : d <= m}
  <1>1. PICK k \in T : \A m \in T : k <= m
    <2>1. T \in SUBSET Nat /\ n \in T
      OBVIOUS
    <2> HIDE DEF T
    <2> QED
      BY <2>1, LeastNumber
  <1>2. k \in S
    <2> SUFFICES ASSUME k \notin S PROVE FALSE
      OBVIOUS
    <2>1. PICK d \in S : TRUE
      OBVIOUS
    <2>2. k \in Nat /\ \A e \in S : e < k
      BY <1>1
    <2>3. k - 1 \in T
      BY <2>1, <2>2
    <2> QED
      BY <1>1, <2>2, <2>3
  <1>3. \E x \in S : \A y \in S : x >= y
    BY <1>1, <1>2
  <1> QED
    BY <1>3 DEF X!Max

JobFields == {"at", "old", "new", "items", "touched"}

\* A job alone takes the step.
LEMMA OneJob ==
    ASSUME SearchBase, NEW j \in Jobs, NEW k, DOMAIN k = JobFields, rebuild' = [rebuild EXCEPT ![j] = k],
           \A v \in DOMAIN docs' : DOMAIN docs'[v] = Titles,
           UNCHANGED <<entry, req, handler, pending>>
    PROVE  /\ SearchBase' /\ DOMAIN rebuild' = Jobs /\ rebuild'[j] = k
           /\ \A i \in Jobs : i # j => rebuild'[i] = rebuild[i]
  <1>1. /\ DOMAIN rebuild' = Jobs /\ rebuild'[j] = k
        /\ \A i \in Jobs : i # j => rebuild'[i] = rebuild[i]
    BY DEF SearchBase
  <1>2. \A i \in Jobs : DOMAIN rebuild'[i] = JobFields
    BY <1>1 DEF SearchBase, JobFields
  <1> QED
    BY <1>1, <1>2 DEF SearchBase, RequestShape, HandlerShape, JobFields

OthersIdle(j) == \A i \in Jobs : i # j => rebuild[i].at = "idle"

LEMMA AloneAtWork ==
    ASSUME AliasInv, NEW j \in Jobs, rebuild[j].at # "idle"
    PROVE  OthersIdle(j)
  BY DEF AliasInv, X!Building, OthersIdle

LEMMA JobCalm ==
    ASSUME NEW j \in Jobs, OthersIdle(j), DOMAIN rebuild' = Jobs,
           \A i \in Jobs : i # j => rebuild'[i] = rebuild[i],
           DOMAIN docs' \subseteq X!Indices, \E v \in DOMAIN docs' : alias' = {v},
           removing' \notin alias', removing' # None => removing' \in DOMAIN docs',
           JobStands(rebuild[j])', JobFollows(rebuild[j])', FollowInv'
    PROVE  SearchCalm'
  <1>1. \A i \in Jobs : i # j => rebuild'[i].at = "idle"
    BY DEF OthersIdle
  <1>2. \A i \in Jobs : JobStands(rebuild[i])' /\ JobFollows(rebuild[i])'
    BY <1>1 DEF JobStands, JobFollows
  <1>3. \A i, h \in X!Building' : i = h
    BY <1>1 DEF X!Building
  <1> QED
    BY <1>2, <1>3 DEF SearchCalm, AliasInv, JobsFollow, X!Indices

\* The titles are as they were.
LEMMA FollowKept ==
    ASSUME FollowInv, alias' = alias, \A v \in alias : docs'[v] = docs[v],
           UNCHANGED <<entry, deleted, pending, req, handler, strayed, crossed>>
    PROVE  FollowInv'
  <1>1. \A t \in Titles : Same(t)
    BY DEF Same
  <1>2. \A t \in Titles : X!Found(t)' <=> X!Found(t)
    BY DEF X!Found
  <1> QED
    BY <1>1, <1>2, FollowedStays DEF FollowInv

LEMMA MaxOfOne == ASSUME NEW v PROVE v \in Nat => X!Max({v}) = v
  BY DEF X!Max

LEMMA NewIndex ==
    ASSUME SearchBase, NEW v, docs' = X!With(v)
    PROVE  /\ DOMAIN docs' = DOMAIN docs \union {v}
           /\ \A d \in DOMAIN docs : docs'[d] = docs[d]
           /\ \A d \in DOMAIN docs' : DOMAIN docs'[d] = Titles
  BY DEF SearchBase, X!With, X!NoDocs

LEMMA DroppedIndex ==
    ASSUME SearchBase, NEW v, docs' = X!Dropped(v)
    PROVE  /\ DOMAIN docs' = DOMAIN docs \ {v}
           /\ \A d \in DOMAIN docs' : docs'[d] = docs[d] /\ DOMAIN docs'[d] = Titles
  BY DEF SearchBase, X!Dropped

LEMMA StartStep ==
    ASSUME SearchInv, NEW j \in Jobs, X!Start(j)
    PROVE  SearchInv'
  <1> DEFINE k == [X!IdleJob EXCEPT !.at = "creating", !.old = X!Max(alias')]
  <1>1. /\ rebuild' = [rebuild EXCEPT ![j] = k] /\ raced' = (raced \/ X!Building # {})
        /\ \/ alias # {} /\ UNCHANGED <<docs, alias>>
           \/ alias = {} /\ docs' = X!With(1)
        /\ UNCHANGED <<entry, deleted, req, pending, handler, removing, strayed, crossed>>
    BY DEF X!Start, X!catalogue, X!index
  <1>2. DOMAIN k = JobFields /\ k.at = "creating" /\ k.old = X!Max(alias')
    BY DEF JobFields, X!IdleJob
  <1> HIDE DEF k
  <1>3. \A v \in DOMAIN docs' : DOMAIN docs'[v] = Titles
    BY <1>1, NewIndex DEF SearchInv, SearchBase
  <1>4. /\ SearchBase' /\ DOMAIN rebuild' = Jobs /\ rebuild'[j] = k
        /\ \A i \in Jobs : i # j => rebuild'[i] = rebuild[i]
    BY <1>1, <1>2, <1>3, OneJob DEF SearchInv
  <1>5. ASSUME ~raced' PROVE SearchCalm'
    <2>1. AliasInv /\ FollowInv /\ X!Building = {}
      BY <1>1, <1>5 DEF SearchInv, SearchCalm
    <2>2. PICK v \in DOMAIN docs : alias = {v}
      BY <2>1 DEF AliasInv
    <2>3. UNCHANGED <<docs, alias>> /\ X!Max(alias) = v
      BY <1>1, <2>1, <2>2, MaxOfOne, SearchAssumption DEF AliasInv, X!Indices
    <2>4. JobStands(rebuild[j])' /\ JobFollows(rebuild[j])' /\ OthersIdle(j)
      BY <1>1, <1>2, <1>4, <2>1, <2>2, <2>3 DEF JobStands, JobFollows, OthersIdle, X!Building, AliasInv
    <2>5. FollowInv'
      BY <1>1, <2>1, <2>3, FollowKept
    <2> QED
      BY <1>1, <1>4, <2>1, <2>3, <2>4, <2>5, JobCalm DEF AliasInv
  <1> QED
    BY <1>4, <1>5 DEF SearchInv

LEMMA CreateStep ==
    ASSUME SearchInv, NEW j \in Jobs, X!Create(j)
    PROVE  SearchInv'
  <1> PICK v, o : v = X!NextVersion(o) /\ o = rebuild[j].old
    OBVIOUS
  <1> DEFINE k == [rebuild[j] EXCEPT !.at = "listing", !.new = v]
  <1>1. /\ rebuild[j].at = "creating" /\ v <= MaxVersion /\ docs' = X!With(v)
        /\ rebuild' = [rebuild EXCEPT ![j] = k]
        /\ UNCHANGED <<entry, deleted, req, pending, handler, removing, alias, strayed, crossed, raced>>
    BY DEF X!Create, X!catalogue, X!history
  <1>2. DOMAIN k = JobFields /\ k.at = "listing" /\ k.old = o /\ k.new = v
    BY DEF JobFields, SearchInv, SearchBase
  <1> HIDE DEF k
  <1>3. /\ DOMAIN docs' = DOMAIN docs \union {v}
        /\ \A d \in DOMAIN docs : docs'[d] = docs[d]
        /\ \A d \in DOMAIN docs' : DOMAIN docs'[d] = Titles
    BY <1>1, NewIndex DEF SearchInv
  <1>4. /\ SearchBase' /\ DOMAIN rebuild' = Jobs /\ rebuild'[j] = k
        /\ \A i \in Jobs : i # j => rebuild'[i] = rebuild[i]
    BY <1>1, <1>2, <1>3, OneJob DEF SearchInv
  <1>5. ASSUME ~raced' PROVE SearchCalm'
    <2>1. AliasInv /\ FollowInv /\ OthersIdle(j)
      BY <1>1, <1>5, AloneAtWork DEF SearchInv, SearchCalm
    <2>2. alias = {o} /\ o \in DOMAIN docs /\ o # removing
      BY <1>1, <2>1 DEF AliasInv, JobStands
    <2>3. v \in X!Indices /\ v \notin DOMAIN docs
      <3>1. MaxVersion \in Nat /\ DOMAIN docs \in SUBSET (0 .. MaxVersion) /\ o \in DOMAIN docs
        BY <2>1, <2>2, SearchAssumption DEF AliasInv, X!Indices
      <3>2. /\ X!Max(DOMAIN docs) \in DOMAIN docs
            /\ \A d \in DOMAIN docs : d <= X!Max(DOMAIN docs)
        <4>1. DOMAIN docs \in SUBSET Nat /\ \A d \in DOMAIN docs : d <= MaxVersion
          BY <3>1
        <4> QED
          BY <3>1, <4>1, MaxOf
      <3>3. v = X!Max(DOMAIN docs) + 1
        <4>1. DOMAIN docs \union {o} = DOMAIN docs
          BY <3>1
        <4> QED
          BY <4>1 DEF X!NextVersion
      <3> QED
        BY <1>1, <3>1, <3>2, <3>3 DEF X!Indices
    <2>4. JobStands(rebuild[j])' /\ JobFollows(rebuild[j])'
      BY <1>1, <1>2, <1>4, <2>1, <2>2, <2>3, SearchAssumption
      DEF JobStands, JobFollows, AliasInv, X!Indices
    <2>5. FollowInv'
      BY <1>1, <1>3, <2>1, <2>2, FollowKept
    <2> QED
      BY <1>1, <1>3, <1>4, <2>1, <2>2, <2>3, <2>4, <2>5, JobCalm DEF AliasInv
  <1> QED
    BY <1>4, <1>5 DEF SearchInv

LEMMA ListStep ==
    ASSUME SearchInv, NEW j \in Jobs, X!List(j)
    PROVE  SearchInv'
  <1> DEFINE k == [rebuild[j] EXCEPT !.at = "filling", !.items = {t \in Titles : X!Listed(t)},
                                     !.touched = {t \in Titles : ~X!Quiet(t)}]
  <1>1. /\ rebuild[j].at = "listing" /\ rebuild' = [rebuild EXCEPT ![j] = k]
        /\ UNCHANGED <<entry, deleted, req, pending, handler, removing, docs, alias, strayed, crossed,
                       raced>>
    BY DEF X!List, X!catalogue, X!history, X!index
  <1>2. /\ DOMAIN k = JobFields /\ k.at = "filling" /\ k.old = rebuild[j].old /\ k.new = rebuild[j].new
        /\ k.items = {t \in Titles : X!Listed(t)} /\ k.touched = {t \in Titles : ~X!Quiet(t)}
    BY DEF JobFields, SearchInv, SearchBase
  <1> HIDE DEF k
  <1>3. /\ SearchBase' /\ DOMAIN rebuild' = Jobs /\ rebuild'[j] = k
        /\ \A i \in Jobs : i # j => rebuild'[i] = rebuild[i]
    BY <1>1, <1>2, OneJob DEF SearchInv, SearchBase
  <1>4. ASSUME ~raced' PROVE SearchCalm'
    <2>1. AliasInv /\ FollowInv /\ OthersIdle(j)
      BY <1>1, <1>4, AloneAtWork DEF SearchInv, SearchCalm
    <2>2. \A t \in Titles : (X!Quiet(t)' <=> X!Quiet(t)) /\ (X!Listed(t)' <=> X!Listed(t))
      BY <1>1 DEF X!Quiet, X!Listed
    <2>3. JobFollows(rebuild[j])'
      BY <1>2, <1>3, <2>2 DEF JobFollows
    <2>4. JobStands(rebuild[j])'
      BY <1>1, <1>2, <1>3, <2>1 DEF JobStands, AliasInv, X!Indices
    <2>5. FollowInv'
      BY <1>1, <2>1, FollowKept
    <2> QED
      BY <1>1, <1>3, <2>1, <2>3, <2>4, <2>5, JobCalm DEF AliasInv
  <1> QED
    BY <1>3, <1>4 DEF SearchInv

LEMMA FillStep ==
    ASSUME SearchInv, NEW j \in Jobs, X!Fill(j)
    PROVE  SearchInv'
  <1> PICK v, Z : v = rebuild[j].new /\ Z = rebuild[j].items
    OBVIOUS
  <1> DEFINE k == [rebuild[j] EXCEPT !.at = "switching", !.items = {}]
             filled == [t \in Titles |-> IF t \in Z THEN X!Detail(t) ELSE None]
  <1>1. /\ rebuild[j].at = "filling" /\ rebuild' = [rebuild EXCEPT ![j] = k]
        /\ docs' = [d \in DOMAIN docs \union {v} |-> IF d # v THEN docs[d] ELSE filled]
        /\ UNCHANGED <<entry, deleted, req, pending, handler, removing, alias, strayed, crossed, raced>>
    BY DEF X!Fill, X!catalogue, X!history
  <1>2. /\ DOMAIN k = JobFields /\ k.at = "switching" /\ k.old = rebuild[j].old /\ k.new = v
        /\ k.items = {} /\ k.touched = rebuild[j].touched
    BY DEF JobFields, SearchInv, SearchBase
  <1>3. DOMAIN filled = Titles /\ \A t \in Titles : filled[t] = IF t \in Z THEN entry[t] ELSE None
    BY DEF X!Detail
  <1> HIDE DEF k, filled
  <1>4. /\ DOMAIN docs' = DOMAIN docs \union {v} /\ docs'[v] = filled
        /\ \A d \in DOMAIN docs : d # v => docs'[d] = docs[d]
        /\ \A d \in DOMAIN docs' : DOMAIN docs'[d] = Titles
    BY <1>1, <1>3 DEF SearchInv, SearchBase
  <1>5. /\ SearchBase' /\ DOMAIN rebuild' = Jobs /\ rebuild'[j] = k
        /\ \A i \in Jobs : i # j => rebuild'[i] = rebuild[i]
    BY <1>1, <1>2, <1>4, OneJob DEF SearchInv
  <1>6. ASSUME ~raced' PROVE SearchCalm'
    <2>1. AliasInv /\ FollowInv /\ JobsFollow /\ OthersIdle(j)
      BY <1>1, <1>6, AloneAtWork DEF SearchInv, SearchCalm
    <2>2. alias = {rebuild[j].old} /\ v # rebuild[j].old /\ v # removing /\ v \in X!Indices
          /\ rebuild[j].old # removing
      BY <1>1, <2>1 DEF AliasInv, JobStands
    <2>3. \A t \in Titles : (X!Quiet(t)' <=> X!Quiet(t)) /\ (X!Listed(t)' <=> X!Listed(t))
      BY <1>1 DEF X!Quiet, X!Listed
    <2>4. JobFollows(rebuild[j])'
      <3>1. ASSUME NEW t \in Titles \ rebuild[j].touched
            PROVE  X!Quiet(t) /\ (t \in Z <=> X!Listed(t))
        BY <1>1, <2>1 DEF JobsFollow, JobFollows
      <3>2. \A t \in Titles \ rebuild[j].touched : filled[t] = "published" <=> X!Listed(t)
        <4>1. None # "published"
          BY SearchAssumption DEF X!Statuses
        <4> QED
          BY <1>3, <3>1, <4>1 DEF X!Listed
      <3> QED
        BY <1>2, <1>4, <1>5, <2>3, <3>1, <3>2 DEF JobFollows
    <2>5. JobStands(rebuild[j])'
      BY <1>1, <1>2, <1>5, <2>2 DEF JobStands, X!Indices
    <2>6. FollowInv'
      <3>1. \A d \in alias : docs'[d] = docs[d]
        BY <1>4, <2>1, <2>2 DEF AliasInv
      <3> QED
        BY <1>1, <2>1, <3>1, FollowKept
    <2> QED
      BY <1>1, <1>4, <1>5, <2>1, <2>2, <2>4, <2>5, <2>6, JobCalm DEF AliasInv
  <1> QED
    BY <1>5, <1>6 DEF SearchInv

\* A job ends; an index besides the one that the alias has may go.
LEMMA JobEnds ==
    ASSUME SearchInv, NEW j \in Jobs, rebuild[j].at # "idle", rebuild' = [rebuild EXCEPT ![j] = X!IdleJob],
           UNCHANGED <<entry, deleted, req, pending, handler, removing, strayed, crossed, raced>>,
           NEW v,
           \/ UNCHANGED <<docs, alias>>
           \/ docs' = X!Dropped(v) /\ alias' = alias \ {v},
           AliasInv => UNCHANGED <<docs, alias>> \/ (v \notin alias /\ v # removing)
    PROVE  SearchInv'
  <1>1. DOMAIN X!IdleJob = JobFields /\ X!IdleJob.at = "idle"
    BY DEF X!IdleJob, JobFields
  <1>2. \A d \in DOMAIN docs' : DOMAIN docs'[d] = Titles
    BY DroppedIndex DEF SearchInv, SearchBase
  <1>3. /\ SearchBase' /\ DOMAIN rebuild' = Jobs /\ rebuild'[j] = X!IdleJob
        /\ \A i \in Jobs : i # j => rebuild'[i] = rebuild[i]
    BY <1>1, <1>2, OneJob DEF SearchInv
  <1>4. ASSUME ~raced' PROVE SearchCalm'
    <2>1. AliasInv /\ FollowInv /\ OthersIdle(j)
      BY <1>4, AloneAtWork DEF SearchInv, SearchCalm
    <2>2. PICK a \in DOMAIN docs : alias = {a}
      BY <2>1 DEF AliasInv
    <2>3. /\ alias' = alias /\ DOMAIN docs' \subseteq DOMAIN docs /\ a \in DOMAIN docs' /\ docs'[a] = docs[a]
          /\ removing \in DOMAIN docs => removing \in DOMAIN docs'
      BY <2>1, <2>2, DroppedIndex DEF SearchInv
    <2>4. JobStands(rebuild[j])' /\ JobFollows(rebuild[j])'
      BY <1>1, <1>3 DEF JobStands, JobFollows
    <2>5. FollowInv'
      BY <2>1, <2>2, <2>3, FollowKept
    <2> QED
      BY <1>3, <2>1, <2>2, <2>3, <2>4, <2>5, JobCalm DEF AliasInv
  <1> QED
    BY <1>3, <1>4 DEF SearchInv

LEMMA CleanUpStep ==
    ASSUME SearchInv, NEW j \in Jobs, X!CleanUp(j)
    PROVE  SearchInv'
  <1>1. /\ rebuild[j].at \in {"listing", "filling"} /\ rebuild' = [rebuild EXCEPT ![j] = X!IdleJob]
        /\ docs' = X!Dropped(rebuild[j].new) /\ alias' = alias \ {rebuild[j].new}
        /\ UNCHANGED <<entry, deleted, req, pending, handler, removing, strayed, crossed, raced>>
    BY DEF X!CleanUp, X!catalogue, X!history
  <1>2. AliasInv => rebuild[j].new \notin alias /\ rebuild[j].new # removing
    BY <1>1 DEF AliasInv, JobStands
  <1> QED
    BY <1>1, <1>2, JobEnds

LEMMA DeleteOldStep ==
    ASSUME SearchInv, NEW j \in Jobs, X!DeleteOld(j)
    PROVE  SearchInv'
  <1>1. /\ rebuild[j].at = "deleting" /\ rebuild' = [rebuild EXCEPT ![j] = X!IdleJob]
        /\ docs' = X!Dropped(rebuild[j].old) /\ alias' = alias \ {rebuild[j].old}
        /\ UNCHANGED <<entry, deleted, req, pending, handler, removing, strayed, crossed, raced>>
    BY DEF X!DeleteOld, X!catalogue, X!history
  <1>2. AliasInv => rebuild[j].old \notin alias /\ rebuild[j].old # removing
    BY <1>1 DEF AliasInv, JobStands
  <1> QED
    BY <1>1, <1>2, JobEnds

LEMMA LeaveJobStep ==
    ASSUME SearchInv, NEW j \in Jobs, X!LeaveJob(j)
    PROVE  SearchInv'
  BY JobEnds DEF X!LeaveJob, X!catalogue, X!index, X!history

\* The titles that nothing happened to are as they are listed in the new index.
LEMMA SwitchStep ==
    ASSUME SearchInv, NEW j \in Jobs, X!Switch(j)
    PROVE  SearchInv'
  <1> PICK o, v, Z : o = rebuild[j].old /\ v = rebuild[j].new /\ Z = rebuild[j].touched
    OBVIOUS
  <1>1. /\ rebuild[j].at = "switching" /\ o \in DOMAIN docs /\ v \in DOMAIN docs
        /\ alias' = (alias \ {o}) \union {v}
        /\ \/ rebuild' = [rebuild EXCEPT ![j] = [rebuild[j] EXCEPT !.at = "deleting"]]
           \/ rebuild' = [rebuild EXCEPT ![j] = X!IdleJob]
        /\ strayed' = Z /\ crossed' = crossed \intersect Z
        /\ UNCHANGED <<entry, deleted, req, pending, handler, removing, docs, raced>>
    BY DEF X!Switch, X!Switched, X!catalogue
  <1>2. PICK k : /\ rebuild' = [rebuild EXCEPT ![j] = k] /\ DOMAIN k = JobFields
                 /\ k.at = "idle" \/ (k.at = "deleting" /\ k.old = o /\ k.new = v)
    <2>1. /\ DOMAIN X!IdleJob = JobFields /\ X!IdleJob.at = "idle"
          /\ DOMAIN rebuild[j] = JobFields
      BY DEF X!IdleJob, JobFields, SearchInv, SearchBase
    <2>2. /\ DOMAIN [rebuild[j] EXCEPT !.at = "deleting"] = JobFields
          /\ [rebuild[j] EXCEPT !.at = "deleting"].at = "deleting"
          /\ [rebuild[j] EXCEPT !.at = "deleting"].old = o
          /\ [rebuild[j] EXCEPT !.at = "deleting"].new = v
      BY <2>1 DEF JobFields
    <2> QED
      BY <1>1, <2>1, <2>2
  <1>3. /\ SearchBase' /\ DOMAIN rebuild' = Jobs /\ rebuild'[j] = k
        /\ \A i \in Jobs : i # j => rebuild'[i] = rebuild[i]
    BY <1>1, <1>2, OneJob DEF SearchInv, SearchBase
  <1>4. ASSUME ~raced' PROVE SearchCalm'
    <2>1. AliasInv /\ JobsFollow /\ OthersIdle(j)
      BY <1>1, <1>4, AloneAtWork DEF SearchInv, SearchCalm
    <2>2. alias' = {v} /\ v # o /\ v # removing /\ o # removing
      BY <1>1, <2>1 DEF AliasInv, JobStands
    <2>3. JobStands(rebuild[j])' /\ JobFollows(rebuild[j])'
      BY <1>1, <1>2, <1>3, <2>2 DEF JobStands, JobFollows
    <2>4. ASSUME NEW t \in Titles \ Z PROVE Followed(t)'
      <3>1. X!Quiet(t) /\ (docs[v][t] = "published" <=> X!Listed(t))
        BY <1>1, <2>1 DEF JobsFollow, JobFollows
      <3>2. X!Found(t)' <=> X!Listed(t)
        BY <1>1, <2>2, <3>1 DEF X!Found
      <3>3. /\ \A r \in Requests : req'[r].on # t
            /\ \A h \in X!Handlers : handler'[h].on # t
            /\ \A p \in X!Topics : pending'[p][t] = 0
        BY <1>1, <3>1 DEF X!Quiet
      <3>4. Alone(t)' /\ Told(t)' /\ ~Bringing(t)' /\ handler'["sync"].on # t
        BY <3>3 DEF Alone, Told, Bringing, X!Handlers
      <3>5. NoneOf({"published"}, t)' /\ NoneOf(X!Gone, t)'
        BY <3>3 DEF NoneOf, X!Gone, X!Topics
      <3> QED
        BY <1>1, <3>2, <3>4, <3>5 DEF Followed, Uncrossed, X!Listed
    <2>5. FollowInv'
      BY <1>1, <2>4 DEF FollowInv
    <2> QED
      BY <1>1, <1>3, <2>1, <2>2, <2>3, <2>5, JobCalm DEF AliasInv
  <1> QED
    BY <1>3, <1>4 DEF SearchInv

-----------------------------------------------------------------------------
(* The deletion of an index *)

LEMMA AllIdle ==
    ASSUME SearchInv, X!Building = {}, rebuild' = rebuild, AliasInv,
           DOMAIN docs' \subseteq X!Indices, \E v \in DOMAIN docs' : alias' = {v},
           removing' \notin alias', removing' # None => removing' \in DOMAIN docs', FollowInv'
    PROVE  SearchCalm'
  <1>1. \A j \in Jobs : rebuild'[j].at = "idle"
    BY DEF X!Building
  <1>2. \A j \in Jobs : JobStands(rebuild[j])' /\ JobFollows(rebuild[j])'
    BY <1>1 DEF JobStands, JobFollows
  <1>3. X!Building' = {}
    BY <1>1 DEF X!Building
  <1> QED
    BY <1>2, <1>3 DEF SearchCalm, AliasInv, JobsFollow, X!Indices

LEMMA CheckIndexStep ==
    ASSUME SearchInv, NEW v \in X!Indices, X!CheckIndex(v)
    PROVE  SearchInv'
  <1>1. /\ v \in DOMAIN docs /\ (alias # {} => X!Max(alias) # v) /\ removing' = v
        /\ raced' = (raced \/ X!Building # {})
        /\ UNCHANGED <<entry, deleted, req, pending, handler, rebuild, docs, alias, strayed, crossed>>
    BY DEF X!CheckIndex, X!catalogue, X!index
  <1>2. SearchBase'
    BY <1>1 DEF SearchInv, SearchBase, RequestShape, HandlerShape
  <1>3. ASSUME ~raced' PROVE SearchCalm'
    <2>1. AliasInv /\ FollowInv /\ X!Building = {}
      BY <1>1, <1>3 DEF SearchInv, SearchCalm
    <2>2. PICK a \in DOMAIN docs : alias = {a}
      BY <2>1 DEF AliasInv
    <2>3. v \notin alias
      BY <1>1, <2>1, <2>2, MaxOfOne, SearchAssumption DEF AliasInv, X!Indices
    <2>4. FollowInv'
      BY <1>1, <2>1, FollowKept
    <2> QED
      BY <1>1, <2>1, <2>2, <2>3, <2>4, AllIdle DEF AliasInv
  <1> QED
    BY <1>2, <1>3 DEF SearchInv

LEMMA DeleteIndexStep ==
    ASSUME SearchInv, X!DeleteIndex
    PROVE  SearchInv'
  <1>1. /\ docs' = X!Dropped(removing) /\ alias' = alias \ {removing} /\ removing' = None
        /\ raced' = (raced \/ X!Building # {})
        /\ UNCHANGED <<entry, deleted, req, pending, handler, rebuild, strayed, crossed>>
    BY DEF X!DeleteIndex, X!catalogue
  <1>2. /\ DOMAIN docs' = DOMAIN docs \ {removing}
        /\ \A d \in DOMAIN docs' : docs'[d] = docs[d] /\ DOMAIN docs'[d] = Titles
    BY <1>1, DroppedIndex DEF SearchInv
  <1>3. SearchBase'
    BY <1>1, <1>2 DEF SearchInv, SearchBase, RequestShape, HandlerShape
  <1>4. ASSUME ~raced' PROVE SearchCalm'
    <2>1. AliasInv /\ FollowInv /\ X!Building = {}
      BY <1>1, <1>4 DEF SearchInv, SearchCalm
    <2>2. PICK a \in DOMAIN docs : alias = {a}
      BY <2>1 DEF AliasInv
    <2>3. alias' = alias /\ a \in DOMAIN docs' /\ docs'[a] = docs[a] /\ None \notin alias
      BY <1>1, <1>2, <2>1, <2>2, SearchAssumption DEF AliasInv, X!Indices
    <2>4. FollowInv'
      BY <1>1, <2>1, <2>2, <2>3, FollowKept
    <2> QED
      BY <1>1, <1>2, <2>1, <2>2, <2>3, <2>4, AllIdle DEF AliasInv
  <1> QED
    BY <1>3, <1>4 DEF SearchInv

LEMMA SearchStep ==
    ASSUME SearchInv, X!Next
    PROVE  SearchInv'
  BY ReadStep, CommitStep, PublishStep, LeaveRequestStep, DeleteDocStep, FetchStep, IndexDocStep,
     AcknowledgeStep, StopStep, DeadLetterStep, RestartStep, RemoveDocStep, StartStep, CreateStep,
     ListStep, FillStep, CleanUpStep, SwitchStep, DeleteOldStep, LeaveJobStep, CheckIndexStep,
     DeleteIndexStep
  DEF X!Next

LEMMA SearchRest ==
    ASSUME SearchInv, UNCHANGED search
    PROVE  SearchInv'
  <1>1. SearchBase'
    BY DEF search, SearchInv, SearchBase, RequestShape, HandlerShape
  <1>2. ASSUME ~raced' PROVE SearchCalm'
    <2>1. AliasInv /\ FollowInv /\ JobsFollow
      BY <1>2 DEF search, SearchInv, SearchCalm
    <2>2. AliasInv'
      BY <2>1, AliasStays DEF search
    <2>3. FollowInv' /\ JobsFollow'
      <3>1. \A t \in Titles : Same(t) /\ (X!Found(t)' <=> X!Found(t)) /\ (t \in crossed => t \in crossed')
        BY FoundStays DEF search, Same
      <3>2. \A j \in Jobs : JobStays(rebuild[j], rebuild'[j], {})
        BY DEF search, JobStays
      <3>3. strayed \subseteq strayed'
        BY DEF search
      <3> QED
        BY <2>1, <3>1, <3>2, <3>3, CalmStays
    <2> QED
      BY <2>2, <2>3 DEF SearchCalm
  <1> QED
    BY <1>1, <1>2 DEF SearchInv

LEMMA SearchStart ==
    ASSUME X!Init
    PROVE  SearchInv
  <1> USE DEF X!Init
  <1>1. /\ \A r \in Requests : req[r].at = "idle" /\ req[r].on = None
                               /\ DOMAIN req[r] = {"at", "on", "seen", "want"}
        /\ \A h \in X!Handlers : handler[h].at = "idle" /\ handler[h].on = None
                                 /\ DOMAIN handler[h] = {"at", "on", "topic", "doc"}
        /\ \A j \in Jobs : rebuild[j].at = "idle"
                           /\ DOMAIN rebuild[j] = {"at", "old", "new", "items", "touched"}
    BY DEF X!IdleRequest, X!IdleHandler, X!IdleJob
  <1>2. /\ DOMAIN docs = {1} /\ docs[1] = [t \in Titles |-> None] /\ alias = {1}
        /\ 1 \in X!Indices
    BY SearchAssumption DEF X!NoDocs, X!Indices
  <1>3. SearchBase
    BY <1>1, <1>2 DEF SearchBase, RequestShape, HandlerShape
  <1>4. AliasInv /\ JobsFollow
    <2>1. None # 1
      BY SearchAssumption
    <2> QED
      BY <1>1, <1>2, <2>1 DEF AliasInv, JobStands, JobsFollow, JobFollows, X!Building
  <1>5. ASSUME NEW t \in Titles PROVE Followed(t)
    <2>1. t # None /\ None # "published"
      BY SearchAssumption DEF X!Statuses
    <2>2. /\ \A r \in Requests : req[r].on # t
          /\ \A h \in X!Handlers : handler[h].on # t
          /\ entry[t] = "draft" /\ t \notin deleted
      BY <1>1, <2>1
    <2>3. ~X!Found(t) /\ ~Bringing(t)
      BY <1>2, <2>1, <2>2 DEF X!Found, Bringing, X!Handlers
    <2> QED
      BY <2>2, <2>3 DEF Followed, Alone, Told, Uncrossed, X!Listed
  <1> QED
    BY <1>3, <1>4, <1>5 DEF SearchInv, SearchCalm, FollowInv

LEMMA SearchSafe == SearchInv => X!AliasStands /\ X!SearchFollowsCatalogue
  <1>1. SearchInv => X!AliasStands
    BY DEF SearchInv, SearchCalm, AliasInv, X!AliasStands
  <1>2. ASSUME FollowInv, NEW t \in Titles \ strayed, X!Quiet(t)
        PROVE  /\ X!Found(t) => entry[t] = "published"
               /\ t \notin crossed => (X!Found(t) <=> X!Listed(t))
    <2>1. Followed(t)
      BY <1>2 DEF FollowInv
    <2>2. ~Removal(t) /\ ~Arrival(t)
      BY <1>2 DEF X!Quiet, Removal, Arrival, Bringing, X!Gone, X!Topics, X!Handlers
    <2> QED
      BY <2>1, <2>2 DEF Followed, Uncrossed, X!Listed
  <1>3. SearchInv => X!SearchFollowsCatalogue
    BY <1>2 DEF SearchInv, SearchCalm, X!SearchFollowsCatalogue
  <1> QED
    BY <1>1, <1>3

LEMMA SearchSides ==
    ASSUME SearchInv, [SideNext]_sides
    PROVE  SearchInv'
  <1>1. [X!Next]_search
    BY DEF SideNext, OfSessions, OfDelivery, OfRecords, OfSearch, OfCounts, OfTitles, OfLists, sides
  <1> QED
    BY <1>1, SearchStep, SearchRest

\* With any number of titles, requests and rebuilds, the alias of the search index
\* has one index, which exists, in spite of failures at every step of a rebuild,
\* restarts, and versions that they left behind, until two rebuilds overlap or one
\* overlaps the deletion of an index.
THEOREM AliasHolds == SideSpec => []AliasStands
  <1>1. SideInit => SearchInv
    BY SearchStart DEF SideInit
  <1>2. SearchInv => AliasStands
    BY SearchSafe DEF AliasStands
  <1> QED
    BY <1>1, <1>2, SearchSides, PTL DEF SideSpec

\* Once the events of a title are consumed, search finds it only if its status is
\* published, and exactly if it is also not deleted provided that no event of it was
\* overtaken by one of another topic: whatever fails and is delivered again and
\* whenever the index is rebuilt, unless an event was lost or handled beside another.
THEOREM SearchHolds == SideSpec => []SearchFollowsCatalogue
  <1>1. SideInit => SearchInv
    BY SearchStart DEF SideInit
  <1>2. SearchInv => SearchFollowsCatalogue
    BY SearchSafe DEF SearchFollowsCatalogue
  <1> QED
    BY <1>1, <1>2, SearchSides, PTL DEF SideSpec

=============================================================================
