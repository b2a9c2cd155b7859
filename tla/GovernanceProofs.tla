--------------------------- MODULE GovernanceProofs ---------------------------
(***************************************************************************)
(* The invariants of the modules that MCGovernance puts side by side, each *)
(* from an inductive invariant of its own, for every value of the          *)
(* constants.                                                              *)
(***************************************************************************)
EXTENDS MCGovernance, Sequences, FiniteSetTheorems, SequenceTheorems, TLAPS

-----------------------------------------------------------------------------
(* Decisions and strikes                                                     *)

\* A flag has a decision when it is resolved or escalated, and one only.
Judged(f) ==
    IF flag[f] \in {"resolved", "escalated"}
    THEN \E d \in Decisions : decisions[f] = {d} ELSE decisions[f] = {}

Issuing(t, c) == t.issued /\ CreatorOf[t.flag] = c

\* What a transaction has counted of a creator's strikes, when no other one issues a
\* strike against the same creator: nothing that is active is missing, and when it
\* comes too late to make the threshold a suspension is there.
CountsAll(t) ==
    t.issued =>
        /\ t.step \in {"count", "commit"} /\ CreatorOf[t.flag] \in Creators
        /\ CreatorOf[t.flag] \notin overlapped =>
               /\ ActiveOf(CreatorOf[t.flag]) \subseteq t.counted
               /\ Cardinality(t.counted) >= Threshold => Suspensions(CreatorOf[t.flag]) # {}
               /\ t.step = "commit" => (t.suspends <=> Cardinality(t.counted) + 1 = Threshold)

\* The part of a transaction that stands alone.
Stands(t) ==
    /\ t = Idle \/ t \in Transactions
    /\ t # Idle => flag[t.flag] = "pending"
    /\ t.step = "strike" => CreatorOf[t.flag] \in Creators
    /\ CountsAll(t)

DecisionsInv ==
    /\ flag \in [Flags -> FlagStatuses] /\ strike \in [Flags -> StrikeStates]
    /\ DOMAIN tx = Moderators /\ tx = [m \in Moderators |-> tx[m]]
    /\ decisions \in [Flags -> SUBSET Decisions]
    /\ \A f \in Flags : Judged(f)
    /\ \A m \in Moderators : Stands(tx[m])
    /\ \A m, n \in Moderators : m # n /\ tx[m] # Idle => tx[m].flag # tx[n].flag
    /\ \A c \in Creators \ overlapped : \A m, n \in Moderators :
           Issuing(tx[m], c) /\ Issuing(tx[n], c) => m = n
    /\ SerialStrikesSuspend

LEMMA IdleFacts ==
    /\ Idle.step = "idle" /\ Idle.flag = NoFlag /\ Idle.issued = FALSE /\ Idle.suspends = FALSE
    /\ Idle \notin Transactions
  BY DEF Idle, Transactions

LEMMA TransactionFacts ==
    ASSUME NEW t \in Transactions
    PROVE  /\ t # Idle /\ t.step \in {"strike", "count", "commit"} /\ t.flag \in Flags /\ t.decision \in Decisions
           /\ t.issued \in BOOLEAN /\ t.counted \in SUBSET Flags /\ t.suspends \in BOOLEAN
  BY IdleFacts DEF Transactions

LEMMA ActiveFinite ==
    ASSUME NEW c
    PROVE  IsFiniteSet(ActiveOf(c)) /\ Cardinality(ActiveOf(c)) \in Nat
  <1>1. ActiveOf(c) \subseteq Flags /\ IsFiniteSet(Flags)
    BY ModerationAssumption DEF ActiveOf
  <1> QED
    BY <1>1, FS_Subset, FS_CardinalityType

LEMMA InitDecisions == Init => DecisionsInv
  <1> SUFFICES ASSUME Init PROVE DecisionsInv
    OBVIOUS
  <1>1. flag \in [Flags -> FlagStatuses] /\ strike \in [Flags -> StrikeStates] /\ decisions \in [Flags -> SUBSET Decisions]
    BY DEF Init, FlagStatuses, StrikeStates
  <1>2. \A f \in Flags : Judged(f)
    BY DEF Init, Judged
  <1>3. \A m \in Moderators : tx[m] = Idle
    BY DEF Init
  <1>4. Stands(Idle)
    BY IdleFacts DEF Stands, CountsAll
  <1>5. \A c \in Creators : ActiveOf(c) = {}
    BY DEF Init, ActiveOf
  <1>6. SerialStrikesSuspend
    BY <1>5, FS_EmptySet, ModerationAssumption DEF SerialStrikesSuspend
  <1>7. DOMAIN tx = Moderators /\ tx = [m \in Moderators |-> tx[m]]
    BY DEF Init
  <1> QED
    BY <1>1, <1>2, <1>3, <1>4, <1>6, <1>7, IdleFacts DEF DecisionsInv, Issuing

\* A step that leaves the rows as they are and puts t in the place of tx[m].
LEMMA DecisionMoves ==
    ASSUME DecisionsInv, NEW m \in Moderators, NEW t, tx' = [tx EXCEPT ![m] = t],
           UNCHANGED <<flag, decisions, strike, outbox>>,
           Stands(t)', t # Idle => \A n \in Moderators \ {m} : tx[n].flag # t.flag,
           overlapped \subseteq overlapped',
           \A c \in Creators \ overlapped' : \A n \in Moderators \ {m} : ~(Issuing(t, c) /\ Issuing(tx[n], c))
    PROVE  DecisionsInv'
  <1>1. tx'[m] = t /\ \A n \in Moderators : n # m => tx'[n] = tx[n]
    BY DEF DecisionsInv
  <1>2. DOMAIN tx' = Moderators /\ tx' = [n \in Moderators |-> tx'[n]]
    BY DEF DecisionsInv
  <1>3. \A f \in Flags : Judged(f)'
    BY DEF DecisionsInv, Judged
  <1>4. ASSUME NEW n \in Moderators PROVE Stands(tx[n])'
    <2>1. PICK s : s = tx'[n]
      OBVIOUS
    <2>2. CASE n = m
      BY <1>1, <2>2
    <2>3. CASE n # m
      <3>1. Stands(s)
        BY <1>1, <2>1, <2>3 DEF DecisionsInv
      <3>2. Stands(s)'
        BY <3>1 DEF Stands, CountsAll, ActiveOf, Suspensions
      <3> QED
        BY <2>1, <3>2
    <2> QED
      BY <2>2, <2>3
  <1>5. \A k, n \in Moderators : k # n /\ tx'[k] # Idle => tx'[k].flag # tx'[n].flag
    <2> SUFFICES ASSUME NEW k \in Moderators, NEW n \in Moderators, k # n, tx'[k] # Idle
                 PROVE  tx'[k].flag # tx'[n].flag
      OBVIOUS
    <2>1. CASE k = m
      BY <1>1, <2>1
    <2>2. CASE n = m /\ t # Idle
      BY <1>1, <2>2
    <2>3. CASE n = m /\ t = Idle
      <3>1. tx[k] = Idle \/ tx[k] \in Transactions
        BY DEF DecisionsInv, Stands
      <3>2. tx[k].flag \in Flags
        BY <1>1, <2>3, <3>1, TransactionFacts
      <3> QED
        BY <1>1, <2>3, <3>2, IdleFacts, ModerationAssumption
    <2>4. CASE k # m /\ n # m
      BY <1>1, <2>4 DEF DecisionsInv
    <2> QED
      BY <2>1, <2>2, <2>3, <2>4
  <1>6. \A c \in Creators \ overlapped' : \A k, n \in Moderators :
            Issuing(tx'[k], c) /\ Issuing(tx'[n], c) => k = n
    <2> SUFFICES ASSUME NEW c \in Creators \ overlapped', NEW k \in Moderators, NEW n \in Moderators,
                        Issuing(tx'[k], c), Issuing(tx'[n], c), k # n
                 PROVE  FALSE
      OBVIOUS
    <2>1. CASE k = m
      BY <1>1, <2>1
    <2>2. CASE n = m
      BY <1>1, <2>2
    <2>3. CASE k # m /\ n # m
      <3>1. c \in Creators \ overlapped /\ tx'[k] = tx[k] /\ tx'[n] = tx[n]
        BY <1>1, <2>3
      <3>2. Issuing(tx[k], c) /\ Issuing(tx[n], c)
        BY <3>1
      <3> QED
        BY <3>1, <3>2 DEF DecisionsInv
    <2> QED
      BY <2>1, <2>2, <2>3
  <1>7. SerialStrikesSuspend'
    <2>1. \A c : ActiveOf(c)' = ActiveOf(c) /\ Suspensions(c)' = Suspensions(c)
      BY DEF ActiveOf, Suspensions
    <2> QED
      BY <2>1 DEF DecisionsInv, SerialStrikesSuspend
  <1> QED
    BY <1>2, <1>3, <1>4, <1>5, <1>6, <1>7 DEF DecisionsInv, Issuing

\* A step that changes rows and leaves the transactions as they are, or ends that of m.
LEMMA VerdictsMove ==
    ASSUME DecisionsInv, overlapped' = overlapped, NEW f \in Flags,
           flag' \in [Flags -> FlagStatuses], strike' \in [Flags -> StrikeStates],
           decisions' \in [Flags -> SUBSET Decisions],
           Judged(f)', \A g \in Flags \ {f} : flag'[g] = flag[g] /\ decisions'[g] = decisions[g],
           outbox \subseteq outbox', SerialStrikesSuspend',
           DOMAIN tx' = Moderators, tx' = [n \in Moderators |-> tx'[n]],
           \A n \in Moderators : tx'[n] = tx[n] \/ tx'[n] = Idle,
           \A n \in Moderators : tx'[n] # Idle => flag'[tx[n].flag] = "pending",
           \A n \in Moderators : \A c \in Creators \ overlapped :
               Issuing(tx'[n], c) => ActiveOf(c)' \subseteq ActiveOf(c)
    PROVE  DecisionsInv'
  <1>1. \A g \in Flags : Judged(g)'
    BY DEF DecisionsInv, Judged
  <1>2. ASSUME NEW n \in Moderators PROVE Stands(tx[n])'
    <2>1. PICK s : s = tx'[n]
      OBVIOUS
    <2>2. CASE s = Idle
      <3>1. Stands(s)'
        BY <2>2, IdleFacts DEF Stands, CountsAll
      <3> QED
        BY <2>1, <3>1
    <2>3. CASE s # Idle
      <3>1. s = tx[n] /\ Stands(s)
        BY <2>1, <2>3 DEF DecisionsInv
      <3>2. s \in Transactions /\ flag'[s.flag] = "pending"
        BY <2>1, <2>3, <3>1 DEF Stands
      <3>3. CountsAll(s)'
        <4> SUFFICES ASSUME s.issued PROVE CountsAll(s)'
          BY DEF CountsAll
        <4>1. PICK c : c = CreatorOf[s.flag]
          OBVIOUS
        <4>2. CountsAll(s)
          BY <3>1 DEF Stands
        <4>3. Suspensions(c) \subseteq Suspensions(c)'
          BY DEF Suspensions
        <4>4. c \notin overlapped => ActiveOf(c)' \subseteq ActiveOf(c)
          BY <2>1, <3>1, <4>1, <4>2 DEF Issuing, CountsAll
        <4>5. /\ s.step \in {"count", "commit"} /\ c \in Creators
              /\ c \notin overlapped =>
                     /\ ActiveOf(c) \subseteq s.counted
                     /\ Cardinality(s.counted) >= Threshold => Suspensions(c) # {}
                     /\ s.step = "commit" => (s.suspends <=> Cardinality(s.counted) + 1 = Threshold)
          BY <4>1, <4>2 DEF CountsAll
        <4>6. /\ s.step \in {"count", "commit"} /\ c \in Creators
              /\ c \notin overlapped =>
                     /\ ActiveOf(c)' \subseteq s.counted
                     /\ Cardinality(s.counted) >= Threshold => Suspensions(c)' # {}
                     /\ s.step = "commit" => (s.suspends <=> Cardinality(s.counted) + 1 = Threshold)
          BY <4>3, <4>4, <4>5
        <4> QED
          BY <4>1, <4>6 DEF CountsAll
      <3> QED
        BY <2>1, <3>1, <3>2, <3>3 DEF Stands
    <2> QED
      BY <2>2, <2>3
  <1>3. \A k, n \in Moderators : k # n /\ tx'[k] # Idle => tx'[k].flag # tx'[n].flag
    <2> SUFFICES ASSUME NEW k \in Moderators, NEW n \in Moderators, k # n, tx'[k] # Idle
                 PROVE  tx'[k].flag # tx'[n].flag
      OBVIOUS
    <2>1. CASE tx'[n] = Idle
      <3>1. tx'[k] \in Transactions
        BY DEF DecisionsInv, Stands
      <3> QED
        BY <2>1, <3>1, TransactionFacts, IdleFacts, ModerationAssumption
    <2>2. CASE tx'[n] # Idle
      BY <2>2 DEF DecisionsInv
    <2> QED
      BY <2>1, <2>2
  <1>4. \A c \in Creators \ overlapped' : \A k, n \in Moderators :
            Issuing(tx'[k], c) /\ Issuing(tx'[n], c) => k = n
    <2> SUFFICES ASSUME NEW c \in Creators \ overlapped, NEW k \in Moderators, NEW n \in Moderators,
                        Issuing(tx'[k], c), Issuing(tx'[n], c)
                 PROVE  k = n
      OBVIOUS
    <2>1. tx'[k] = tx[k] /\ tx'[n] = tx[n]
      BY IdleFacts DEF Issuing
    <2> QED
      BY <2>1 DEF DecisionsInv
  <1> QED
    BY <1>1, <1>2, <1>3, <1>4 DEF DecisionsInv, Issuing

LEMMA FlagContentKeeps ==
    ASSUME DecisionsInv, NEW f \in Flags, FlagContent(f)
    PROVE  DecisionsInv'
  <1>1. flag' = [flag EXCEPT ![f] = "pending"] /\ outbox \subseteq outbox' /\ UNCHANGED <<decisions, strike, tx, overlapped>>
        /\ flag[f] = "none"
    BY DEF FlagContent
  <1>2. flag' \in [Flags -> FlagStatuses] /\ \A g \in Flags \ {f} : flag'[g] = flag[g]
    BY <1>1 DEF DecisionsInv, FlagStatuses
  <1>3. flag'[f] = "pending" /\ Judged(f)'
    BY <1>1 DEF DecisionsInv, Judged
  <1>4. \A c : ActiveOf(c)' = ActiveOf(c)
    BY <1>1 DEF ActiveOf
  <1>5. \A c : Suspensions(c) \subseteq Suspensions(c)'
    BY <1>1 DEF Suspensions
  <1>6. SerialStrikesSuspend'
    BY <1>1, <1>4, <1>5 DEF DecisionsInv, SerialStrikesSuspend
  <1>7. ASSUME NEW n \in Moderators, tx[n] # Idle PROVE flag'[tx[n].flag] = "pending"
    <2>1. tx[n] \in Transactions /\ flag[tx[n].flag] = "pending"
      BY <1>7 DEF DecisionsInv, Stands
    <2> QED
      BY <1>2, <1>3, <2>1, TransactionFacts
  <1> QED
    BY <1>1, <1>2, <1>3, <1>4, <1>6, <1>7, VerdictsMove DEF DecisionsInv

LEMMA ExpireKeeps ==
    ASSUME DecisionsInv, NEW f \in Flags, Expire(f)
    PROVE  DecisionsInv'
  <1>1. strike' = [strike EXCEPT ![f] = "expired"] /\ UNCHANGED <<flag, decisions, outbox, tx, overlapped>>
    BY DEF Expire
  <1>2. strike' \in [Flags -> StrikeStates]
    BY <1>1 DEF DecisionsInv, StrikeStates
  <1>3. \A c : ActiveOf(c)' \subseteq ActiveOf(c)
    BY <1>1 DEF DecisionsInv, ActiveOf
  <1>4. \A c : Cardinality(ActiveOf(c)') <= Cardinality(ActiveOf(c)) /\ Cardinality(ActiveOf(c)') \in Nat
    BY <1>3, ActiveFinite, FS_Subset, FS_CardinalityType
  <1>5. Judged(f)'
    BY <1>1 DEF DecisionsInv, Judged
  <1>6. SerialStrikesSuspend'
    <2> SUFFICES ASSUME NEW c \in Creators \ overlapped, Cardinality(ActiveOf(c)') >= Threshold
                 PROVE  Suspensions(c)' # {}
      BY <1>1 DEF SerialStrikesSuspend
    <2>1. Cardinality(ActiveOf(c)) >= Threshold
      BY <1>4, ActiveFinite, ModerationAssumption
    <2> QED
      BY <1>1, <2>1 DEF DecisionsInv, SerialStrikesSuspend, Suspensions
  <1>7. \A n \in Moderators : tx[n] # Idle => flag'[tx[n].flag] = "pending"
    BY <1>1 DEF DecisionsInv, Stands
  <1> QED
    BY <1>1, <1>2, <1>3, <1>5, <1>6, <1>7, VerdictsMove DEF DecisionsInv

LEMMA RollbackKeeps ==
    ASSUME DecisionsInv, NEW m \in Moderators, Rollback(m)
    PROVE  DecisionsInv'
  <1>1. tx' = [tx EXCEPT ![m] = Idle] /\ UNCHANGED <<flag, decisions, strike, outbox, overlapped>>
    BY DEF Rollback
  <1>2. Stands(Idle)'
    BY IdleFacts DEF Stands, CountsAll
  <1>3. \A c : ~Issuing(Idle, c)
    BY IdleFacts DEF Issuing
  <1> QED
    BY <1>1, <1>2, <1>3, DecisionMoves

LEMMA DecideKeeps ==
    ASSUME DecisionsInv, NEW m \in Moderators, NEW f \in Flags, NEW d \in Decisions, Decide(m, f, d)
    PROVE  DecisionsInv'
  <1>1. PICK t : t = [Idle EXCEPT !.flag = f, !.decision = d,
                                  !.step = IF d = "reject" /\ CreatorOf[f] # NoCreator THEN "strike" ELSE "commit"]
    OBVIOUS
  <1>2. t = [step |-> IF d = "reject" /\ CreatorOf[f] # NoCreator THEN "strike" ELSE "commit", flag |-> f,
             decision |-> d, issued |-> FALSE, counted |-> {}, suspends |-> FALSE]
    BY <1>1 DEF Idle
  <1>3. t \in Transactions
    BY <1>2 DEF Transactions
  <1>4. t.flag = f /\ ~t.issued /\ (t.step = "strike" => CreatorOf[f] # NoCreator)
    BY <1>2
  <1>5. /\ tx' = [tx EXCEPT ![m] = t] /\ UNCHANGED <<flag, decisions, strike, outbox, overlapped>>
        /\ flag[f] = "pending" /\ \A n \in Moderators \ {m} : tx[n].flag # f
    BY <1>1 DEF Decide, FlagFree
  <1>6. t.step = "strike" => CreatorOf[t.flag] \in Creators
    BY <1>4, ModerationAssumption
  <1>7. Stands(t)'
    BY <1>3, <1>4, <1>5, <1>6 DEF Stands, CountsAll
  <1>8. \A c : ~Issuing(t, c)
    BY <1>4 DEF Issuing
  <1> QED
    BY <1>4, <1>5, <1>7, <1>8, DecisionMoves

LEMMA IssueStrikeKeeps ==
    ASSUME DecisionsInv, NEW m \in Moderators, IssueStrike(m)
    PROVE  DecisionsInv'
  <1>1. PICK c : c = CreatorOf[tx[m].flag]
    OBVIOUS
  <1>2. PICK s : s = tx[m]
    OBVIOUS
  <1>3. PICK A : A = ActiveOf(c)
    OBVIOUS
  <1>4. s.step = "strike" /\ Stands(s)
    BY <1>2 DEF IssueStrike, DecisionsInv
  <1>5. s \in Transactions /\ flag[s.flag] = "pending" /\ c \in Creators
    BY <1>1, <1>2, <1>4, IdleFacts DEF Stands
  <1>6. PICK t : t = [s EXCEPT !.step = "count", !.issued = TRUE, !.counted = A]
    OBVIOUS
  <1>7. A \subseteq Flags
    BY <1>3 DEF ActiveOf
  <1>8. t \in Transactions /\ t.flag = s.flag /\ t.step = "count" /\ t.issued /\ t.counted = A
    BY <1>5, <1>6, <1>7 DEF Transactions
  <1>9. UNCHANGED <<flag, decisions, strike, outbox>> /\ overlapped \subseteq overlapped'
    BY DEF IssueStrike
  <1>10. tx' = [tx EXCEPT ![m] = t]
    <2>1. tx' = [tx EXCEPT ![m].step = "count", ![m].issued = TRUE,
                           ![m].counted = ActiveOf(CreatorOf[tx[m].flag])]
      BY DEF IssueStrike
    <2>2. tx' = [tx EXCEPT ![m].step = "count", ![m].issued = TRUE, ![m].counted = A]
      BY <1>1, <1>3, <2>1
    <2> QED
      BY <1>2, <1>6, <2>2
  <1>11. \A n \in Moderators \ {m} : Issuing(tx[n], c) => c \in overlapped'
    BY <1>1 DEF IssueStrike, BothIssue, Issuing
  <1>12. CountsAll(t)'
    <2>1. ActiveOf(c)' = A /\ Suspensions(c)' = Suspensions(c)
      BY <1>3, <1>9 DEF ActiveOf, Suspensions
    <2>2. CreatorOf[t.flag] = c
      BY <1>1, <1>2, <1>8
    <2>3. c \notin overlapped' => (Cardinality(A) >= Threshold => Suspensions(c) # {})
      BY <1>3, <1>5, <1>9 DEF DecisionsInv, SerialStrikesSuspend
    <2>4. c \notin overlapped' =>
               /\ ActiveOf(c)' \subseteq t.counted
               /\ Cardinality(t.counted) >= Threshold => Suspensions(c)' # {}
      BY <1>8, <2>1, <2>3
    <2> QED
      BY <1>5, <1>8, <2>2, <2>4 DEF CountsAll
  <1>13. Stands(t)'
    BY <1>5, <1>8, <1>9, <1>12, TransactionFacts DEF Stands
  <1>14. \A n \in Moderators \ {m} : tx[n].flag # t.flag
    BY <1>2, <1>5, <1>8, IdleFacts DEF DecisionsInv
  <1>15. \A k \in Creators \ overlapped' : \A n \in Moderators \ {m} : ~(Issuing(t, k) /\ Issuing(tx[n], k))
    <2>1. \A k : Issuing(t, k) => k = c
      BY <1>1, <1>2, <1>8 DEF Issuing
    <2> QED
      BY <1>11, <2>1
  <1> QED
    BY <1>9, <1>10, <1>13, <1>14, <1>15, DecisionMoves

LEMMA CountStrikesKeeps ==
    ASSUME DecisionsInv, NEW m \in Moderators, CountStrikes(m)
    PROVE  DecisionsInv'
  <1>1. PICK s : s = tx[m]
    OBVIOUS
  <1>2. PICK b : b = (Cardinality(s.counted) + 1 = Threshold)
    OBVIOUS
  <1>3. PICK t : t = [s EXCEPT !.step = "commit", !.suspends = b]
    OBVIOUS
  <1>4. s.step = "count" /\ Stands(s) /\ UNCHANGED <<flag, decisions, strike, outbox, overlapped>>
    BY <1>1 DEF CountStrikes, DecisionsInv
  <1>5. s \in Transactions /\ flag[s.flag] = "pending" /\ CountsAll(s)
    BY <1>4, IdleFacts DEF Stands
  <1>6. /\ t \in Transactions /\ t.flag = s.flag /\ t.step = "commit" /\ t.issued = s.issued
        /\ t.counted = s.counted /\ t.suspends = b
    BY <1>2, <1>3, <1>5 DEF Transactions
  <1>7. tx' = [tx EXCEPT ![m] = t]
    <2>1. tx' = [tx EXCEPT ![m].step = "commit", ![m].suspends = Suspends(Count(m))]
      BY DEF CountStrikes
    <2>2. Suspends(Count(m)) = b
      BY <1>1, <1>2 DEF Suspends, Count
    <2>3. tx' = [tx EXCEPT ![m].step = "commit", ![m].suspends = b]
      BY <2>1, <2>2
    <2> QED
      BY <1>1, <1>3, <2>3
  <1>8. CountsAll(t)'
    <2>1. \A c : ActiveOf(c)' = ActiveOf(c) /\ Suspensions(c)' = Suspensions(c)
      BY <1>4 DEF ActiveOf, Suspensions
    <2> QED
      BY <1>2, <1>4, <1>5, <1>6, <2>1 DEF CountsAll
  <1>9. Stands(t)'
    BY <1>4, <1>5, <1>6, <1>8 DEF Stands
  <1>10. \A n \in Moderators \ {m} : tx[n].flag # t.flag
    BY <1>1, <1>4, <1>6, IdleFacts DEF DecisionsInv
  <1>11. \A k \in Creators \ overlapped' : \A n \in Moderators \ {m} : ~(Issuing(t, k) /\ Issuing(tx[n], k))
    <2>1. \A k : Issuing(t, k) <=> Issuing(tx[m], k)
      BY <1>1, <1>6 DEF Issuing
    <2> QED
      BY <1>4, <2>1 DEF DecisionsInv
  <1> QED
    BY <1>4, <1>7, <1>9, <1>10, <1>11, DecisionMoves

LEMMA CommitKeeps ==
    ASSUME DecisionsInv, NEW m \in Moderators, Commit(m)
    PROVE  DecisionsInv'
  <1>1. PICK s : s = tx[m]
    OBVIOUS
  <1>2. PICK f : f = s.flag
    OBVIOUS
  <1>3. s.step = "commit" /\ Stands(s)
    BY <1>1 DEF Commit, DecisionsInv
  <1>4. s \in Transactions /\ flag[f] = "pending" /\ CountsAll(s)
    BY <1>2, <1>3, IdleFacts DEF Stands
  <1>5. f \in Flags /\ s.decision \in Decisions /\ s.issued \in BOOLEAN /\ s.counted \in SUBSET Flags
    BY <1>2, <1>4, TransactionFacts
  <1>6. /\ flag' = [flag EXCEPT ![f] = Outcome(s.decision)]
        /\ decisions' = [decisions EXCEPT ![f] = @ \union {s.decision}]
        /\ strike' = [strike EXCEPT ![f] = IF s.issued THEN "active" ELSE @]
        /\ tx' = [tx EXCEPT ![m] = Idle] /\ overlapped' = overlapped
        /\ outbox \subseteq outbox' /\ (s.suspends => <<"creator.suspended", f>> \in outbox')
    BY <1>1, <1>2 DEF Commit, Enqueued
  <1>7. /\ flag' \in [Flags -> FlagStatuses] /\ decisions' \in [Flags -> SUBSET Decisions]
        /\ \A g \in Flags \ {f} : flag'[g] = flag[g] /\ decisions'[g] = decisions[g]
        /\ flag'[f] = Outcome(s.decision) /\ decisions'[f] = decisions[f] \union {s.decision}
    BY <1>5, <1>6 DEF DecisionsInv, FlagStatuses, Outcome
  <1>8. strike' \in [Flags -> StrikeStates]
    BY <1>5, <1>6 DEF DecisionsInv, StrikeStates
  <1>9. Judged(f)'
    <2>1. decisions[f] = {}
      BY <1>4, <1>5 DEF DecisionsInv, Judged
    <2>2. decisions'[f] = {s.decision}
      BY <1>7, <2>1
    <2>3. flag'[f] \in {"resolved", "escalated"}
      BY <1>7 DEF Outcome
    <2> QED
      BY <1>5, <2>2, <2>3 DEF Judged
  <1>10. DOMAIN tx' = Moderators /\ tx' = [n \in Moderators |-> tx'[n]]
    BY <1>6 DEF DecisionsInv
  <1>11. tx'[m] = Idle /\ \A n \in Moderators : n # m => tx'[n] = tx[n]
    BY <1>6 DEF DecisionsInv
  <1>12. ASSUME NEW n \in Moderators, tx'[n] # Idle PROVE flag'[tx[n].flag] = "pending"
    <2>1. n # m /\ tx[n] # Idle /\ Stands(tx[n])
      BY <1>11, <1>12 DEF DecisionsInv
    <2>2. tx[n].flag \in Flags /\ flag[tx[n].flag] = "pending"
      BY <2>1, TransactionFacts DEF Stands
    <2>3. tx[n].flag # f
      BY <1>1, <1>2, <2>1 DEF DecisionsInv
    <2> QED
      BY <1>7, <2>2, <2>3
  <1>13. \A c : CreatorOf[f] # c \/ ~s.issued => ActiveOf(c)' \subseteq ActiveOf(c)
    BY <1>5, <1>6 DEF DecisionsInv, ActiveOf
  <1>14. s.issued => ActiveOf(CreatorOf[f])' \subseteq ActiveOf(CreatorOf[f]) \union {f}
    BY <1>5, <1>6 DEF DecisionsInv, ActiveOf
  <1>15. \A c : Suspensions(c) \subseteq Suspensions(c)'
    BY <1>6 DEF Suspensions
  <1>16. ASSUME NEW n \in Moderators, NEW c \in Creators \ overlapped, Issuing(tx'[n], c)
         PROVE  ActiveOf(c)' \subseteq ActiveOf(c)
    <2>1. n # m /\ Issuing(tx[n], c)
      BY <1>11, <1>16, IdleFacts DEF Issuing
    <2>2. ~Issuing(s, c)
      BY <1>1, <2>1 DEF DecisionsInv
    <2> QED
      BY <1>2, <1>13, <2>2 DEF Issuing
  <1>17. ASSUME NEW c \in Creators \ overlapped, Cardinality(ActiveOf(c)') >= Threshold
         PROVE  Suspensions(c)' # {}
    <2>1. CASE CreatorOf[f] # c \/ ~s.issued
      <3>1. Cardinality(ActiveOf(c)') <= Cardinality(ActiveOf(c)) /\ Cardinality(ActiveOf(c)') \in Nat
        BY <1>13, <2>1, ActiveFinite, FS_Subset, FS_CardinalityType
      <3>2. Cardinality(ActiveOf(c)) >= Threshold
        BY <1>17, <3>1, ActiveFinite, ModerationAssumption
      <3> QED
        BY <1>15, <3>2 DEF DecisionsInv, SerialStrikesSuspend
    <2>2. CASE CreatorOf[f] = c /\ s.issued
      <3>1. /\ ActiveOf(c) \subseteq s.counted /\ (Cardinality(s.counted) >= Threshold => Suspensions(c) # {})
            /\ (s.suspends <=> Cardinality(s.counted) + 1 = Threshold)
        BY <1>2, <1>3, <1>4, <2>2 DEF CountsAll
      <3>2. IsFiniteSet(s.counted) /\ Cardinality(s.counted) \in Nat
        BY <1>5, ModerationAssumption, FS_Subset, FS_CardinalityType
      <3>3. IsFiniteSet(s.counted \union {f}) /\ Cardinality(s.counted \union {f}) <= Cardinality(s.counted) + 1
            /\ Cardinality(s.counted \union {f}) \in Nat
        <4>1. IsFiniteSet(s.counted \union {f}) /\ Cardinality(s.counted \union {f}) \in Nat
          BY <3>2, FS_AddElement, FS_CardinalityType
        <4>2. Cardinality(s.counted \union {f}) =
                  IF f \in s.counted THEN Cardinality(s.counted) ELSE Cardinality(s.counted) + 1
          BY <3>2, FS_AddElement
        <4> QED
          BY <3>2, <4>1, <4>2
      <3>4. ActiveOf(c)' \subseteq s.counted \union {f}
        BY <1>14, <2>2, <3>1
      <3>5. Cardinality(ActiveOf(c)') <= Cardinality(s.counted) + 1 /\ Cardinality(ActiveOf(c)') \in Nat
        BY <3>2, <3>3, <3>4, FS_Subset, FS_CardinalityType
      <3>6. Cardinality(s.counted) >= Threshold \/ Cardinality(s.counted) + 1 = Threshold
        BY <1>17, <3>2, <3>5, ModerationAssumption
      <3>7. CASE Cardinality(s.counted) >= Threshold
        BY <1>15, <3>1, <3>7
      <3>8. CASE Cardinality(s.counted) + 1 = Threshold
        <4>1. f \in Suspensions(c)'
          BY <1>5, <1>6, <2>2, <3>1, <3>8 DEF Suspensions
        <4> QED
          BY <4>1
      <3> QED
        BY <3>6, <3>7, <3>8
    <2> QED
      BY <2>1, <2>2
  <1>18. SerialStrikesSuspend'
    BY <1>6, <1>17 DEF SerialStrikesSuspend
  <1> QED
    BY <1>5, <1>6, <1>7, <1>8, <1>9, <1>10, <1>11, <1>12, <1>16, <1>18, VerdictsMove

LEMMA DecisionsStep == DecisionsInv /\ [Next]_vars => DecisionsInv'
  <1> SUFFICES ASSUME DecisionsInv, [Next]_vars PROVE DecisionsInv'
    OBVIOUS
  <1>1. ASSUME NEW m \in Moderators, Decision(m) PROVE DecisionsInv'
    BY <1>1, DecideKeeps, IssueStrikeKeeps, CountStrikesKeeps, CommitKeeps, RollbackKeeps DEF Decision
  <1>2. ASSUME NEW f \in Flags, FlagContent(f) \/ Expire(f) PROVE DecisionsInv'
    BY <1>2, FlagContentKeeps, ExpireKeeps
  <1>3. CASE UNCHANGED vars
    <2>1. \A f \in Flags : Judged(f)'
      BY <1>3 DEF DecisionsInv, vars, Judged
    <2>2. \A m \in Moderators : Stands(tx[m])'
      BY <1>3 DEF DecisionsInv, vars, Stands, CountsAll, ActiveOf, Suspensions
    <2>3. SerialStrikesSuspend'
      BY <1>3 DEF DecisionsInv, vars, SerialStrikesSuspend, ActiveOf, Suspensions
    <2> QED
      BY <1>3, <2>1, <2>2, <2>3 DEF DecisionsInv, vars, Issuing
  <1> QED
    BY <1>1, <1>2, <1>3 DEF Next

\* Whatever moderators do at once, whatever is rolled back and whatever expires, a flag
\* has one decision when it is resolved or escalated and none before; and a creator
\* whose strikes were issued one after the other is suspended when the active ones
\* reach the threshold.
THEOREM DecisionsHold == SideSpec => []DecisionsCount
  <1>1. SideInit => DecisionsInv
    BY InitDecisions DEF SideInit
  <1>2. [SideNext]_<<side, vars, others>> => [Next]_vars
    BY DEF SideNext
  <1>3. DecisionsInv /\ [SideNext]_<<side, vars, others>> => DecisionsInv'
    BY <1>2, DecisionsStep
  <1>4. DecisionsInv => DecisionsCount
    <2> SUFFICES ASSUME DecisionsInv PROVE OneDecision
      BY DEF DecisionsInv, DecisionsCount
    <2>1. Cardinality({}) = 0 /\ \A d : Cardinality({d}) = 1
      BY FS_EmptySet, FS_Singleton
    <2> QED
      BY <2>1 DEF DecisionsInv, OneDecision, Judged
  <1> QED
    BY <1>1, <1>3, <1>4, PTL DEF SideSpec

-----------------------------------------------------------------------------
(* The desk of the admins                                                    *)

About == D!Statuses \union Admins \union Values \union {"active", "removed"}

AuditRows == [action : {"user", "flagged", "resolved", "config", "acknowledged"}, about : About]

\* The newest entry of an action is about x.
Tells(action, x) ==
    \E i \in D!Entries(action) :
        audit[i].about = x /\ \A j \in D!Entries(action) : j <= i

\* What a request carries.
DeskFits(q) ==
    /\ q.at \in {"deciding", "inserting"} => q.status \in D!Statuses
    /\ q.at = "resolving" => q.status \in {"active", "removed"}
    /\ q.at = "flagging" => q.by \in Admins
    /\ q.at = "configuring" => q.value \in Values
    /\ q.at = "reading" => q.by \in Admins

DeskTypes ==
    /\ rulings \in Seq(D!Statuses) /\ reports \in Seq(D!FlagRows) /\ audit \in Seq(AuditRows)
    /\ spent \in [Tokens -> Nat]
    /\ desk = [r \in Requests |-> desk[r]] /\ \A r \in Requests : DeskFits(desk[r])

\* A token that was spent is in Redis, unless one of its checks could not reach it.
TokensInv ==
    \A t \in Tokens \ outages : spent[t] <= 1 /\ (spent[t] = 1 => t \in redis)

LogInv ==
    /\ Len(rulings) = 1 => Tells("user", rulings[1])
    /\ Len(reports) = Cardinality(D!Entries("flagged"))
    /\ Cardinality(D!Entries("resolved")) <= Len(reports) - Cardinality(D!Open)
    /\ config # D!NoValue /\ ~mixed => Tells("config", config)
    /\ alert # D!NoOne => \E i \in D!Entries("acknowledged") : audit[i].about = alert

DeskInv == DeskTypes /\ TokensInv /\ LogInv

LEMMA PositionsFinite ==
    ASSUME DeskTypes, NEW action
    PROVE  /\ D!Entries(action) \subseteq 1 .. Len(audit) /\ IsFiniteSet(D!Entries(action))
           /\ Cardinality(D!Entries(action)) \in Nat /\ Len(audit) \in Nat
  <1>1. Len(audit) \in Nat /\ D!Entries(action) \subseteq 1 .. Len(audit)
    BY DEF DeskTypes, D!Entries
  <1>2. IsFiniteSet(1 .. Len(audit))
    BY <1>1, FS_Interval
  <1> QED
    BY <1>1, <1>2, FS_Subset, FS_CardinalityType

LEMMA OpenFinite ==
    ASSUME DeskTypes
    PROVE  /\ D!Open \subseteq 1 .. Len(reports) /\ IsFiniteSet(D!Open)
           /\ Cardinality(D!Open) \in Nat /\ Len(reports) \in Nat
  <1>1. Len(reports) \in Nat /\ D!Open \subseteq 1 .. Len(reports)
    BY DEF DeskTypes, D!Open
  <1>2. IsFiniteSet(1 .. Len(reports))
    BY <1>1, FS_Interval
  <1> QED
    BY <1>1, <1>2, FS_Subset, FS_CardinalityType

\* What an entry does to the log.
LEMMA Recorded ==
    ASSUME DeskTypes, NEW action, NEW x, D!Entry(action, x) \in AuditRows,
           audit' = Append(audit, D!Entry(action, x))
    PROVE  /\ audit' \in Seq(AuditRows)
           /\ D!Entries(action)' = D!Entries(action) \union {Len(audit) + 1}
           /\ Cardinality(D!Entries(action)') = Cardinality(D!Entries(action)) + 1
           /\ audit'[Len(audit) + 1].about = x
           /\ \A i \in 1 .. Len(audit) : audit'[i] = audit[i]
           /\ \A a : a # action => D!Entries(a)' = D!Entries(a)
  <1>1. PICK e : e = D!Entry(action, x)
    OBVIOUS
  <1>2. e \in AuditRows /\ e.action = action /\ e.about = x
    BY <1>1 DEF D!Entry
  <1>3. audit \in Seq(AuditRows) /\ audit' = Append(audit, e) /\ Len(audit) \in Nat
    BY <1>1 DEF DeskTypes
  <1>4. /\ audit' \in Seq(AuditRows) /\ Len(audit') = Len(audit) + 1 /\ audit'[Len(audit) + 1] = e
        /\ \A i \in 1 .. Len(audit) : audit'[i] = audit[i]
    BY <1>2, <1>3
  <1>5. D!Entries(action)' = D!Entries(action) \union {Len(audit) + 1}
    BY <1>2, <1>3, <1>4 DEF D!Entries
  <1>6. \A a : a # action => D!Entries(a)' = D!Entries(a)
    BY <1>2, <1>3, <1>4 DEF D!Entries
  <1>7. Len(audit) + 1 \notin D!Entries(action)
    BY <1>3 DEF D!Entries
  <1>8. Cardinality(D!Entries(action) \union {Len(audit) + 1}) = Cardinality(D!Entries(action)) + 1
    BY <1>7, PositionsFinite, FS_AddElement
  <1> QED
    BY <1>2, <1>4, <1>5, <1>6, <1>8

LEMMA RecordedTells ==
    ASSUME DeskTypes, NEW action, NEW x, D!Entry(action, x) \in AuditRows,
           audit' = Append(audit, D!Entry(action, x))
    PROVE  /\ Tells(action, x)'
           /\ \A a, y : a # action /\ Tells(a, y) => Tells(a, y)'
  <1>1. Len(audit) \in Nat /\ \A i \in D!Entries(action) : i \in 1 .. Len(audit)
    BY PositionsFinite
  <1>2. /\ D!Entries(action)' = D!Entries(action) \union {Len(audit) + 1}
        /\ audit'[Len(audit) + 1].about = x
    BY Recorded
  <1>3. \A j \in D!Entries(action)' : j <= Len(audit) + 1
    BY <1>1, <1>2
  <1>4. Tells(action, x)'
    BY <1>2, <1>3 DEF Tells
  <1>5. ASSUME NEW a, NEW y, a # action, Tells(a, y) PROVE Tells(a, y)'
    <2>1. D!Entries(a)' = D!Entries(a) /\ \A i \in 1 .. Len(audit) : audit'[i] = audit[i]
      BY <1>5, Recorded
    <2>2. D!Entries(a) \subseteq 1 .. Len(audit)
      BY PositionsFinite
    <2> QED
      BY <1>5, <2>1, <2>2 DEF Tells
  <1> QED
    BY <1>4, <1>5

LEMMA NewestIs ==
    ASSUME DeskTypes, NEW action, NEW x, Tells(action, x)
    PROVE  D!Newest(action).about = x
  <1>1. PICK i \in D!Entries(action) : audit[i].about = x /\ \A j \in D!Entries(action) : j <= i
    BY DEF Tells
  <1>2. D!Entries(action) \subseteq Int
    BY PositionsFinite
  <1>3. PICK m : m = D!Max(D!Entries(action))
    OBVIOUS
  <1>4. m \in D!Entries(action) /\ \A j \in D!Entries(action) : m >= j
    BY <1>1, <1>2, <1>3 DEF D!Max
  <1>5. m = i
    BY <1>1, <1>2, <1>4
  <1> QED
    BY <1>1, <1>3, <1>5 DEF D!Newest

LEMMA InitDesk == D!Init => DeskInv
  <1> SUFFICES ASSUME D!Init PROVE DeskInv
    OBVIOUS
  <1>1. DeskFits(D!Idle)
    BY DEF DeskFits, D!Idle
  <1>2. DeskTypes
    <2>1. rulings = <<>> /\ reports = <<>> /\ audit = <<>> /\ spent = [t \in Tokens |-> 0]
      BY DEF D!Init
    <2>2. rulings \in Seq(D!Statuses) /\ reports \in Seq(D!FlagRows) /\ audit \in Seq(AuditRows)
      BY <2>1
    <2>3. desk = [r \in Requests |-> D!Idle]
      BY DEF D!Init
    <2>4. desk = [r \in Requests |-> desk[r]] /\ \A r \in Requests : desk[r] = D!Idle
      BY <2>3
    <2>5. \A r \in Requests : DeskFits(desk[r])
      BY <1>1, <2>4 DEF DeskFits
    <2> QED
      BY <2>1, <2>2, <2>4, <2>5 DEF DeskTypes
  <1>3. \A action : D!Entries(action) = {}
    BY DEF D!Init, D!Entries
  <1>4. D!Open = {}
    BY DEF D!Init, D!Open
  <1>5. LogInv
    <2>1. Len(rulings) = 0 /\ Len(reports) = 0 /\ config = D!NoValue /\ alert = D!NoOne
      BY DEF D!Init
    <2>2. Cardinality(D!Open) = 0 /\ \A action : Cardinality(D!Entries(action)) = 0
      BY <1>3, <1>4, FS_EmptySet
    <2> QED
      BY <2>1, <2>2 DEF LogInv
  <1> QED
    BY <1>2, <1>5 DEF D!Init, DeskInv, TokensInv

\* A request goes on to q.
LEMMA DeskGoesOn ==
    ASSUME DeskTypes, NEW r \in Requests, NEW q, DeskFits(q), D!Become(r, q)
    PROVE  desk' = [p \in Requests |-> desk'[p]] /\ \A p \in Requests : DeskFits(desk[p])'
  <1>1. desk' = [desk EXCEPT ![r] = q]
    BY DEF D!Become
  <1>2. desk'[r] = q /\ \A p \in Requests : p # r => desk'[p] = desk[p]
    BY <1>1 DEF DeskTypes
  <1>3. desk' = [p \in Requests |-> desk'[p]]
    BY <1>1 DEF DeskTypes
  <1>4. ASSUME NEW p \in Requests PROVE DeskFits(desk[p])'
    <2>1. PICK s : s = desk'[p]
      OBVIOUS
    <2>2. DeskFits(s)
      BY <1>2, <2>1 DEF DeskTypes
    <2> QED
      BY <2>1, <2>2 DEF DeskFits
  <1> QED
    BY <1>3, <1>4

LEMMA TablesStay ==
    ASSUME DeskInv, D!UnchangedTables
    PROVE  LogInv'
  BY DEF DeskInv, LogInv, D!UnchangedTables, Tells, D!Entries, D!Open

\* A step that reads.
LEMMA DeskReads ==
    ASSUME DeskInv, NEW r \in Requests, NEW q, DeskFits(q), D!Become(r, q),
           D!UnchangedTables, D!UnchangedTokens
    PROVE  DeskInv'
  <1>1. desk' = [p \in Requests |-> desk'[p]] /\ \A p \in Requests : DeskFits(desk[p])'
    BY DeskGoesOn DEF DeskInv
  <1>2. DeskTypes'
    BY <1>1 DEF DeskInv, DeskTypes, D!UnchangedTables, D!UnchangedTokens
  <1>3. TokensInv'
    BY DEF DeskInv, TokensInv, D!UnchangedTokens
  <1> QED
    BY <1>2, <1>3, TablesStay DEF DeskInv

LEMMA TokensKeep ==
    ASSUME DeskInv, NEW r \in Requests, NEW p \in Replicas, NEW t \in Tokens,
           D!ConsumeToken(r, p, t) \/ D!ConsumeWithoutRedis(r, p, t)
    PROVE  DeskInv'
  <1>1. PICK n : n = D!Min({2, spent[t] + 1})
    OBVIOUS
  <1>2. spent[t] \in Nat
    BY DEF DeskInv, DeskTypes
  <1>3. n \in {2, spent[t] + 1} /\ n <= 2 /\ n <= spent[t] + 1
    <2>1. PICK x \in {2, spent[t] + 1} : \A y \in {2, spent[t] + 1} : x <= y
      BY <1>2
    <2>2. n \in {2, spent[t] + 1} /\ \A y \in {2, spent[t] + 1} : n <= y
      BY <1>1, <2>1 DEF D!Min
    <2> QED
      BY <2>2
  <1>4. /\ spent' = [spent EXCEPT ![t] = n] /\ redis \subseteq redis' /\ outages \subseteq outages'
        /\ t \notin outages' => t \notin redis /\ t \in redis'
        /\ D!UnchangedTables /\ D!Become(r, [at |-> "cleared"])
    BY <1>1 DEF D!ConsumeToken, D!ConsumeWithoutRedis, D!Remembers
  <1>5. DeskFits([at |-> "cleared"])
    BY DEF DeskFits
  <1>6. desk' = [q \in Requests |-> desk'[q]] /\ \A q \in Requests : DeskFits(desk[q])'
    BY <1>4, <1>5, DeskGoesOn DEF DeskInv
  <1>7. DeskTypes'
    BY <1>2, <1>3, <1>4, <1>6 DEF DeskInv, DeskTypes, D!UnchangedTables
  <1>8. TokensInv'
    <2> SUFFICES ASSUME NEW s \in Tokens \ outages'
                 PROVE  spent'[s] <= 1 /\ (spent'[s] = 1 => s \in redis')
      BY DEF TokensInv
    <2>1. s \notin outages /\ spent[s] \in Nat
      BY <1>4 DEF DeskInv, DeskTypes
    <2>2. CASE s # t
      <3>1. spent'[s] = spent[s]
        BY <1>4, <2>2 DEF DeskInv, DeskTypes
      <3> QED
        BY <1>4, <2>1, <3>1 DEF DeskInv, TokensInv
    <2>3. CASE s = t
      <3>1. spent[t] = 0
        BY <1>2, <1>4, <2>1, <2>3 DEF DeskInv, TokensInv
      <3>2. spent'[t] = n
        BY <1>4 DEF DeskInv, DeskTypes
      <3> QED
        BY <1>3, <1>4, <2>3, <3>1, <3>2
    <2> QED
      BY <2>2, <2>3
  <1> QED
    BY <1>4, <1>7, <1>8, TablesStay DEF DeskInv

LEMMA RestartDeskKeeps ==
    ASSUME DeskInv, NEW p \in Replicas, D!Restart(p)
    PROVE  DeskInv'
  <1>1. D!UnchangedTables /\ UNCHANGED <<redis, desk, spent, outages>>
    BY DEF D!Restart
  <1>2. DeskTypes'
    <2>1. \A q \in Requests : DeskFits(desk[q])'
      BY <1>1 DEF DeskInv, DeskTypes, DeskFits
    <2> QED
      BY <1>1, <2>1 DEF DeskInv, DeskTypes, D!UnchangedTables
  <1>3. TokensInv'
    BY <1>1 DEF DeskInv, TokensInv
  <1> QED
    BY <1>1, <1>2, <1>3, TablesStay DEF DeskInv

LEMMA DeskReadsKeep ==
    ASSUME DeskInv, NEW r \in Requests,
           \/ \E status \in D!Statuses : D!ReadUser(r, status)
           \/ \E status \in {"active", "removed"} : D!SelectOpen(r, status)
           \/ \E a \in Admins : D!ReadFlags(r, a) \/ D!ReadAlert(r, a)
           \/ \E value \in Values : D!ReadConfig(r, value)
           \/ D!FindNoUser(r) \/ D!Leave(r)
    PROVE  DeskInv'
  <1>1. ASSUME NEW status \in D!Statuses, D!ReadUser(r, status) PROVE DeskInv'
    <2>1. DeskFits([at |-> "deciding", status |-> status])
      BY DEF DeskFits
    <2> QED
      BY <1>1, <2>1, DeskReads DEF D!ReadUser
  <1>2. ASSUME NEW status \in {"active", "removed"}, D!SelectOpen(r, status) PROVE DeskInv'
    <2>1. PICK q : q = [at |-> "resolving", status |-> status, seen |-> D!Open]
      OBVIOUS
    <2>2. q.at = "resolving" /\ q.status = status
      BY <2>1
    <2>3. DeskFits(q)
      BY <2>2 DEF DeskFits
    <2>4. D!Become(r, q) /\ D!UnchangedTables /\ D!UnchangedTokens
      BY <1>2, <2>1, Zenon DEF D!SelectOpen
    <2> QED
      BY <2>3, <2>4, DeskReads
  <1>3. ASSUME NEW a \in Admins, D!ReadFlags(r, a) PROVE DeskInv'
    <2>1. DeskFits([at |-> "flagging", by |-> a])
      BY DEF DeskFits
    <2> QED
      BY <1>3, <2>1, DeskReads DEF D!ReadFlags
  <1>4. ASSUME NEW a \in Admins, D!ReadAlert(r, a) PROVE DeskInv'
    <2>1. PICK q : q = [at |-> "reading", by |-> a, open |-> (alert = D!NoOne)]
      OBVIOUS
    <2>2. q.at = "reading" /\ q.by = a
      BY <2>1
    <2>3. DeskFits(q)
      BY <2>2 DEF DeskFits
    <2>4. D!Become(r, q) /\ D!UnchangedTables /\ D!UnchangedTokens
      BY <1>4, <2>1, Zenon DEF D!ReadAlert
    <2> QED
      BY <2>3, <2>4, DeskReads
  <1>5. ASSUME NEW value \in Values, D!ReadConfig(r, value) PROVE DeskInv'
    <2>1. DeskFits([at |-> "configuring", value |-> value, seen |-> config])
      BY DEF DeskFits
    <2> QED
      BY <1>5, <2>1, DeskReads DEF D!ReadConfig
  <1>6. CASE D!FindNoUser(r)
    <2>1. desk[r].status \in D!Statuses
      BY <1>6 DEF D!FindNoUser, D!At, DeskInv, DeskTypes, DeskFits
    <2>2. DeskFits([at |-> "inserting", status |-> desk[r].status])
      BY <2>1 DEF DeskFits
    <2> QED
      BY <1>6, <2>2, DeskReads DEF D!FindNoUser
  <1>7. CASE D!Leave(r)
    <2>1. DeskFits(D!Idle)
      BY DEF DeskFits, D!Idle
    <2> QED
      BY <1>7, <2>1, DeskReads DEF D!Leave
  <1> QED
    BY <1>1, <1>2, <1>3, <1>4, <1>5, <1>6, <1>7

\* A commit that leaves the tokens as they are.
LEMMA DeskRecords ==
    ASSUME DeskInv, NEW r \in Requests, NEW action, NEW x, D!Entry(action, x) \in AuditRows,
           D!Record(r, D!Entry(action, x)), D!UnchangedTokens,
           rulings' \in Seq(D!Statuses), reports' \in Seq(D!FlagRows), LogInv'
    PROVE  DeskInv'
  <1>1. DeskFits(D!Idle)
    BY DEF DeskFits, D!Idle
  <1>2. desk' = [q \in Requests |-> desk'[q]] /\ \A q \in Requests : DeskFits(desk[q])'
    BY <1>1, DeskGoesOn DEF DeskInv, D!Record
  <1>3. audit' \in Seq(AuditRows)
    BY Recorded DEF DeskInv, D!Record
  <1>4. DeskTypes'
    BY <1>2, <1>3 DEF DeskInv, DeskTypes, D!UnchangedTokens
  <1>5. TokensInv'
    BY DEF DeskInv, TokensInv, D!UnchangedTokens
  <1> QED
    BY <1>4, <1>5 DEF DeskInv

\* The parts of LogInv that an entry of another kind leaves as they are.
LEMMA RulingsStay ==
    ASSUME DeskInv, NEW action, NEW x, D!Entry(action, x) \in AuditRows,
           audit' = Append(audit, D!Entry(action, x)), action # "user", UNCHANGED rulings
    PROVE  (Len(rulings) = 1 => Tells("user", rulings[1]))'
  <1>1. PICK w : w = rulings[1]
    OBVIOUS
  <1>2. Tells("user", w) => Tells("user", w)'
    BY RecordedTells DEF DeskInv
  <1>3. Tells("user", rulings[1])' <=> Tells("user", w)'
    BY <1>1 DEF Tells
  <1> QED
    BY <1>1, <1>2, <1>3 DEF DeskInv, LogInv

LEMMA ConfigStays ==
    ASSUME DeskInv, NEW action, NEW x, D!Entry(action, x) \in AuditRows,
           audit' = Append(audit, D!Entry(action, x)), action # "config", UNCHANGED <<config, mixed>>
    PROVE  (config # D!NoValue /\ ~mixed => Tells("config", config))'
  <1>1. PICK w : w = config
    OBVIOUS
  <1>2. Tells("config", w) => Tells("config", w)'
    BY RecordedTells DEF DeskInv
  <1>3. Tells("config", config)' <=> Tells("config", w)'
    BY <1>1 DEF Tells
  <1> QED
    BY <1>1, <1>2, <1>3 DEF DeskInv, LogInv

LEMMA AlertStays ==
    ASSUME DeskInv, NEW action, NEW x, D!Entry(action, x) \in AuditRows,
           audit' = Append(audit, D!Entry(action, x)), UNCHANGED alert
    PROVE  (alert # D!NoOne => \E i \in D!Entries("acknowledged") : audit[i].about = alert)'
  <1>1. D!Entries("acknowledged") \subseteq 1 .. Len(audit)
    BY PositionsFinite DEF DeskInv
  <1>2. /\ D!Entries("acknowledged") \subseteq D!Entries("acknowledged")'
        /\ \A i \in 1 .. Len(audit) : audit'[i] = audit[i]
    BY Recorded DEF DeskInv
  <1> QED
    BY <1>1, <1>2 DEF DeskInv, LogInv

LEMMA FlagsStay ==
    ASSUME DeskInv, NEW action, NEW x, D!Entry(action, x) \in AuditRows,
           audit' = Append(audit, D!Entry(action, x)), action \notin {"flagged", "resolved"},
           UNCHANGED reports
    PROVE  /\ (Len(reports) = Cardinality(D!Entries("flagged")))'
           /\ (Cardinality(D!Entries("resolved")) <= Len(reports) - Cardinality(D!Open))'
  <1>1. D!Entries("flagged")' = D!Entries("flagged") /\ D!Entries("resolved")' = D!Entries("resolved")
    BY Recorded DEF DeskInv
  <1>2. D!Open' = D!Open
    BY DEF D!Open
  <1> QED
    BY <1>1, <1>2 DEF DeskInv, LogInv

LEMMA RulingKeeps ==
    ASSUME DeskInv, NEW r \in Requests, D!DecideUser(r) \/ D!InsertDecision(r)
    PROVE  DeskInv'
  <1>1. PICK status : status = desk[r].status
    OBVIOUS
  <1>2. status \in D!Statuses
    BY <1>1 DEF D!DecideUser, D!InsertDecision, D!At, DeskInv, DeskTypes, DeskFits
  <1>3. /\ D!Record(r, D!Entry("user", status)) /\ UNCHANGED <<reports, config, alert, mixed>>
        /\ D!UnchangedTokens
    BY <1>1 DEF D!DecideUser, D!InsertDecision
  <1>4. D!Entry("user", status) \in AuditRows
    BY <1>2 DEF D!Entry, AuditRows, About
  <1>5. audit' = Append(audit, D!Entry("user", status))
    BY <1>3 DEF D!Record
  <1>6. rulings \in Seq(D!Statuses) /\ Len(rulings) \in Nat
    BY DEF DeskInv, DeskTypes
  <1>7. rulings' \in Seq(D!Statuses) /\ (Len(rulings') = 1 => rulings'[1] = status)
    <2>1. CASE D!DecideUser(r)
      <3>1. rulings' = [rulings EXCEPT ![Len(rulings)] = status] /\ rulings # <<>>
        BY <1>1, <2>1 DEF D!DecideUser
      <3>2. Len(rulings) \in 1 .. Len(rulings)
        BY <1>6, <3>1
      <3>3. rulings' \in [1 .. Len(rulings) -> D!Statuses]
        BY <1>2, <1>6, <3>1
      <3>4. rulings' \in Seq(D!Statuses)
        BY <1>6, <3>3, SeqDef
      <3>5. Len(rulings') = Len(rulings)
        BY <1>6, <3>1
      <3>6. rulings'[Len(rulings)] = status
        BY <1>6, <3>1, <3>2
      <3> QED
        BY <3>4, <3>5, <3>6
    <2>2. CASE D!InsertDecision(r)
      <3>1. PICK i \in 1 .. Len(rulings) + 1 : rulings' = D!InsertAt(rulings, i, status)
        BY <1>1, <2>2 DEF D!InsertDecision
      <3>2. rulings' = SubSeq(rulings, 1, i - 1) \o <<status>> \o SubSeq(rulings, i, Len(rulings))
        BY <3>1 DEF D!InsertAt
      <3>3. PICK a \in Seq(D!Statuses) : a = SubSeq(rulings, 1, i - 1) /\ Len(a) = i - 1
        <4>1. i - 1 \in 0 .. Len(rulings)
          BY <1>6
        <4>2. SubSeq(rulings, 1, i - 1) \in Seq(D!Statuses) /\ Len(SubSeq(rulings, 1, i - 1)) = i - 1
          BY <1>6, <4>1, SubSeqProperties
        <4> QED
          BY <4>2
      <3>4. PICK b \in Seq(D!Statuses) : b = SubSeq(rulings, i, Len(rulings)) /\ Len(b) = Len(rulings) + 1 - i
        <4>1. SubSeq(rulings, i, Len(rulings)) \in Seq(D!Statuses)
              /\ Len(SubSeq(rulings, i, Len(rulings))) = Len(rulings) + 1 - i
          BY <1>6, SubSeqProperties
        <4> QED
          BY <4>1
      <3>5. rulings' = (a \o <<status>>) \o b
        BY <3>2, <3>3, <3>4
      <3>6. i \in Int /\ i >= 1 /\ i <= Len(rulings) + 1 /\ <<status>> \in Seq(D!Statuses) /\ Len(<<status>>) = 1
        BY <1>2, <1>6, <3>1
      <3>7. PICK c : c = a \o <<status>>
        OBVIOUS
      <3>8. c \in Seq(D!Statuses) /\ Len(c) = i
        BY <3>3, <3>6, <3>7, ConcatProperties
      <3>9. c[i] = status
        BY <3>3, <3>6, <3>7
      <3>10. /\ rulings' \in Seq(D!Statuses) /\ Len(rulings') = Len(c) + Len(b)
             /\ \A k \in 1 .. Len(c) : rulings'[k] = c[k]
        BY <3>5, <3>7, <3>8, ConcatProperties
      <3>11. Len(rulings') = Len(rulings) + 1
        BY <1>6, <3>4, <3>6, <3>8, <3>10
      <3>12. rulings'[i] = status
        BY <3>6, <3>8, <3>9, <3>10
      <3> QED
        BY <1>6, <3>6, <3>10, <3>11, <3>12
    <2> QED
      BY <2>1, <2>2
  <1>8. (Len(rulings) = 1 => Tells("user", rulings[1]))'
    <2>1. Tells("user", status)'
      BY <1>4, <1>5, RecordedTells DEF DeskInv
    <2> QED
      BY <1>7, <2>1 DEF Tells
  <1>9. LogInv'
    BY <1>3, <1>4, <1>5, <1>8, ConfigStays, AlertStays, FlagsStay DEF LogInv
  <1>10. reports' \in Seq(D!FlagRows)
    BY <1>3 DEF DeskInv, DeskTypes
  <1> QED
    BY <1>3, <1>4, <1>7, <1>9, <1>10, DeskRecords

LEMMA CreateFlagKeeps ==
    ASSUME DeskInv, NEW r \in Requests, D!CreateFlag(r)
    PROVE  DeskInv'
  <1>1. PICK a : a = desk[r].by
    OBVIOUS
  <1>2. a \in Admins
    BY <1>1 DEF D!CreateFlag, D!At, DeskInv, DeskTypes, DeskFits
  <1>3. PICK e : e = [by |-> a, status |-> "flagged"]
    OBVIOUS
  <1>4. e \in D!FlagRows /\ e.status = "flagged"
    BY <1>2, <1>3 DEF D!FlagRows
  <1>5. /\ D!Record(r, D!Entry("flagged", a)) /\ UNCHANGED <<rulings, config, alert, mixed>>
        /\ D!UnchangedTokens /\ reports' = Append(reports, e)
    BY <1>1, <1>3 DEF D!CreateFlag
  <1>6. D!Entry("flagged", a) \in AuditRows
    BY <1>2 DEF D!Entry, AuditRows, About
  <1>7. audit' = Append(audit, D!Entry("flagged", a))
    BY <1>5 DEF D!Record
  <1>8. reports \in Seq(D!FlagRows) /\ rulings' \in Seq(D!Statuses)
    BY <1>5 DEF DeskInv, DeskTypes
  <1>9. /\ reports' \in Seq(D!FlagRows) /\ Len(reports') = Len(reports) + 1 /\ Len(reports) \in Nat
        /\ reports'[Len(reports) + 1] = e /\ \A i \in 1 .. Len(reports) : reports'[i] = reports[i]
    BY <1>4, <1>5, <1>8
  <1>10. D!Open' = D!Open \union {Len(reports) + 1} /\ Len(reports) + 1 \notin D!Open
    BY <1>4, <1>9 DEF D!Open
  <1>11. Cardinality(D!Open') = Cardinality(D!Open) + 1
    BY <1>10, OpenFinite, FS_AddElement DEF DeskInv
  <1>12. /\ Cardinality(D!Entries("flagged")') = Cardinality(D!Entries("flagged")) + 1
         /\ D!Entries("resolved")' = D!Entries("resolved")
    BY <1>6, <1>7, Recorded DEF DeskInv
  <1>13. Cardinality(D!Entries("resolved")) \in Nat /\ Cardinality(D!Open) \in Nat
    BY PositionsFinite, OpenFinite DEF DeskInv
  <1>14. /\ (Len(reports) = Cardinality(D!Entries("flagged")))'
         /\ (Cardinality(D!Entries("resolved")) <= Len(reports) - Cardinality(D!Open))'
    BY <1>9, <1>11, <1>12, <1>13 DEF DeskInv, LogInv
  <1>15. LogInv'
    BY <1>5, <1>6, <1>7, <1>14, RulingsStay, ConfigStays, AlertStays DEF LogInv
  <1> QED
    BY <1>5, <1>6, <1>8, <1>9, <1>15, DeskRecords

LEMMA ResolveFlagsKeeps ==
    ASSUME DeskInv, NEW r \in Requests, D!ResolveFlags(r)
    PROVE  DeskInv'
  <1>1. PICK status : status = desk[r].status
    OBVIOUS
  <1>2. PICK mine : mine = D!StillOpen(desk[r].seen)
    OBVIOUS
  <1>3. status \in {"active", "removed"}
    BY <1>1 DEF D!ResolveFlags, D!At, DeskInv, DeskTypes, DeskFits
  <1>4. /\ D!Record(r, D!Entry("resolved", status)) /\ UNCHANGED <<rulings, config, alert, mixed>>
        /\ D!UnchangedTokens /\ mine # {}
        /\ reports' = [i \in 1 .. Len(reports) |->
               IF i \in mine THEN [reports[i] EXCEPT !.status = status] ELSE reports[i]]
    BY <1>1, <1>2 DEF D!ResolveFlags
  <1>5. D!Entry("resolved", status) \in AuditRows
    BY <1>3 DEF D!Entry, AuditRows, About
  <1>6. audit' = Append(audit, D!Entry("resolved", status))
    BY <1>4 DEF D!Record
  <1>7. reports \in Seq(D!FlagRows) /\ rulings' \in Seq(D!Statuses) /\ Len(reports) \in Nat
    BY <1>4 DEF DeskInv, DeskTypes
  <1>8. ASSUME NEW i \in 1 .. Len(reports)
        PROVE  reports'[i] \in D!FlagRows /\ (reports'[i].status = "flagged" <=> reports[i].status = "flagged" /\ i \notin mine)
    <2>1. PICK x \in D!FlagRows : x = reports[i]
      BY <1>7
    <2>2. PICK y : y = [x EXCEPT !.status = status]
      OBVIOUS
    <2>3. y \in D!FlagRows /\ y.status = status
      BY <1>3, <2>2 DEF D!FlagRows
    <2>4. CASE i \in mine
      BY <1>3, <1>4, <2>1, <2>2, <2>3, <2>4
    <2>5. CASE i \notin mine
      BY <1>4, <2>1, <2>5
    <2> QED
      BY <2>4, <2>5
  <1>9. reports' \in Seq(D!FlagRows) /\ Len(reports') = Len(reports)
    <2>1. reports' \in [1 .. Len(reports) -> D!FlagRows]
      BY <1>4, <1>8
    <2>2. reports' \in Seq(D!FlagRows)
      BY <1>7, <2>1, SeqDef
    <2> QED
      BY <1>7, <2>1, <2>2
  <1>10. D!Open' = D!Open \ mine /\ mine \subseteq D!Open
    BY <1>2, <1>8, <1>9 DEF D!Open, D!StillOpen
  <1>11. PICK k : k \in mine
    BY <1>4
  <1>12. Cardinality(D!Open') <= Cardinality(D!Open) - 1 /\ Cardinality(D!Open') \in Nat /\ Cardinality(D!Open) \in Nat
    <2>1. IsFiniteSet(D!Open) /\ Cardinality(D!Open) \in Nat
      BY OpenFinite DEF DeskInv
    <2>2. k \in D!Open /\ D!Open' \subseteq D!Open \ {k}
      BY <1>10, <1>11
    <2>3. IsFiniteSet(D!Open \ {k}) /\ Cardinality(D!Open \ {k}) = Cardinality(D!Open) - 1
      BY <2>1, <2>2, FS_RemoveElement
    <2>4. IsFiniteSet(D!Open') /\ Cardinality(D!Open') <= Cardinality(D!Open \ {k})
      BY <2>2, <2>3, FS_Subset
    <2> QED
      BY <2>1, <2>3, <2>4, FS_CardinalityType
  <1>13. /\ Cardinality(D!Entries("resolved")') = Cardinality(D!Entries("resolved")) + 1
         /\ D!Entries("flagged")' = D!Entries("flagged")
    BY <1>5, <1>6, Recorded DEF DeskInv
  <1>14. Cardinality(D!Entries("resolved")) \in Nat
    BY PositionsFinite DEF DeskInv
  <1>15. /\ (Len(reports) = Cardinality(D!Entries("flagged")))'
         /\ (Cardinality(D!Entries("resolved")) <= Len(reports) - Cardinality(D!Open))'
    BY <1>7, <1>9, <1>12, <1>13, <1>14 DEF DeskInv, LogInv
  <1>16. LogInv'
    BY <1>4, <1>5, <1>6, <1>15, RulingsStay, ConfigStays, AlertStays DEF LogInv
  <1> QED
    BY <1>4, <1>5, <1>7, <1>9, <1>16, DeskRecords

LEMMA WriteConfigKeeps ==
    ASSUME DeskInv, NEW r \in Requests, D!WriteConfig(r)
    PROVE  DeskInv'
  <1>1. PICK value, seen : value = desk[r].value /\ seen = desk[r].seen
    OBVIOUS
  <1>2. value \in Values
    BY <1>1 DEF D!WriteConfig, D!At, DeskInv, DeskTypes, DeskFits
  <1>3. /\ D!Record(r, D!Entry("config", value)) /\ UNCHANGED <<rulings, reports, alert>>
        /\ D!UnchangedTokens
        /\ config' = IF value = seen THEN config ELSE value
        /\ mixed' = (value = seen /\ seen # config)
    BY <1>1 DEF D!WriteConfig
  <1>4. D!Entry("config", value) \in AuditRows
    BY <1>2 DEF D!Entry, AuditRows, About
  <1>5. audit' = Append(audit, D!Entry("config", value))
    BY <1>3 DEF D!Record
  <1>6. (config # D!NoValue /\ ~mixed => Tells("config", config))'
    <2>1. ~mixed' => config' = value
      BY <1>3
    <2>2. Tells("config", value)'
      BY <1>4, <1>5, RecordedTells DEF DeskInv
    <2> QED
      BY <2>1, <2>2 DEF Tells
  <1>7. LogInv'
    BY <1>3, <1>4, <1>5, <1>6, RulingsStay, AlertStays, FlagsStay DEF LogInv
  <1>8. rulings' \in Seq(D!Statuses) /\ reports' \in Seq(D!FlagRows)
    BY <1>3 DEF DeskInv, DeskTypes
  <1> QED
    BY <1>3, <1>4, <1>7, <1>8, DeskRecords

LEMMA AcknowledgeAlertKeeps ==
    ASSUME DeskInv, NEW r \in Requests, D!Acknowledge(r)
    PROVE  DeskInv'
  <1>1. PICK a : a = desk[r].by
    OBVIOUS
  <1>2. a \in Admins
    BY <1>1 DEF D!Acknowledge, D!At, DeskInv, DeskTypes, DeskFits
  <1>3. /\ D!Record(r, D!Entry("acknowledged", a)) /\ UNCHANGED <<rulings, reports, config, mixed>>
        /\ D!UnchangedTokens /\ (alert' = a \/ alert' = alert)
    BY <1>1 DEF D!Acknowledge
  <1>4. D!Entry("acknowledged", a) \in AuditRows
    BY <1>2 DEF D!Entry, AuditRows, About
  <1>5. audit' = Append(audit, D!Entry("acknowledged", a))
    BY <1>3 DEF D!Record
  <1>6. (alert # D!NoOne => \E i \in D!Entries("acknowledged") : audit[i].about = alert)'
    <2>1. CASE alert' = alert
      BY <1>4, <1>5, <2>1, AlertStays
    <2>2. CASE alert' = a
      <3>1. Len(audit) + 1 \in D!Entries("acknowledged")' /\ audit'[Len(audit) + 1].about = a
        BY <1>4, <1>5, Recorded DEF DeskInv
      <3> QED
        BY <2>2, <3>1
    <2> QED
      BY <1>3, <2>1, <2>2
  <1>7. LogInv'
    BY <1>3, <1>4, <1>5, <1>6, RulingsStay, ConfigStays, FlagsStay DEF LogInv
  <1>8. rulings' \in Seq(D!Statuses) /\ reports' \in Seq(D!FlagRows)
    BY <1>3 DEF DeskInv, DeskTypes
  <1> QED
    BY <1>3, <1>4, <1>7, <1>8, DeskRecords

LEMMA AdminCardinality == ASSUME NEW S PROVE D!Cardinality(S) = Cardinality(S)
  BY DEF Cardinality, D!Cardinality

LEMMA DeskStep == DeskInv /\ [D!Next]_admin => DeskInv'
  <1> SUFFICES ASSUME DeskInv, [D!Next]_admin PROVE DeskInv'
    OBVIOUS
  <1>1. ASSUME NEW r \in Requests,
               \/ \E t \in Tokens, p \in Replicas : D!ConsumeToken(r, p, t) \/ D!ConsumeWithoutRedis(r, p, t)
               \/ D!DecideUser(r) \/ D!InsertDecision(r) \/ D!CreateFlag(r) \/ D!ResolveFlags(r)
               \/ D!WriteConfig(r) \/ D!Acknowledge(r)
        PROVE  DeskInv'
    BY <1>1, TokensKeep, RulingKeeps, CreateFlagKeeps, ResolveFlagsKeeps, WriteConfigKeeps, AcknowledgeAlertKeeps
  <1>2. ASSUME NEW p \in Replicas, D!Restart(p) PROVE DeskInv'
    BY <1>2, RestartDeskKeeps
  <1>3. CASE UNCHANGED admin
    <2>1. D!UnchangedTables /\ D!UnchangedTokens /\ UNCHANGED desk
      BY <1>3 DEF admin, D!UnchangedTables, D!UnchangedTokens
    <2>2. \A q \in Requests : DeskFits(desk[q])'
      BY <2>1 DEF DeskInv, DeskTypes, DeskFits
    <2>3. DeskTypes'
      BY <2>1, <2>2 DEF DeskInv, DeskTypes, D!UnchangedTables, D!UnchangedTokens
    <2>4. TokensInv'
      BY <2>1 DEF DeskInv, TokensInv, D!UnchangedTokens
    <2> QED
      BY <2>1, <2>3, <2>4, TablesStay DEF DeskInv
  <1> QED
    BY <1>1, <1>2, <1>3, DeskReadsKeep, Zenon DEF D!Next

\* However requests of admins overlap, fail or die, the log tells what the tables say,
\* and a step-up token that every check could look up in Redis lets one request
\* through, whichever process it comes to and whichever starts again.
THEOREM DeskHolds == SideSpec => []AdminActsOnce
  <1>1. SideInit => DeskInv
    BY InitDesk DEF SideInit
  <1>2. [SideNext]_<<side, vars, others>> => [D!Next]_admin
    BY DEF SideNext, others
  <1>3. DeskInv /\ [SideNext]_<<side, vars, others>> => DeskInv'
    BY <1>2, DeskStep
  <1>4. DeskInv => AdminActsOnce
    <2> SUFFICES ASSUME DeskInv PROVE D!AuditTells /\ D!StepUpIsSpent
      BY DEF AdminActsOnce
    <2>1. D!StepUpIsSpent
      BY DEF DeskInv, TokensInv, D!StepUpIsSpent
    <2>2. Len(rulings) = 1 => rulings[1] = D!Newest("user").about
      BY NewestIs DEF DeskInv, LogInv
    <2>3. config # D!NoValue /\ ~mixed => config = D!Newest("config").about
      BY NewestIs DEF DeskInv, LogInv
    <2>4. Len(reports) = D!Cardinality(D!Entries("flagged"))
      BY AdminCardinality DEF DeskInv, LogInv
    <2>5. D!Cardinality(D!Entries("resolved")) <= Len(reports) - D!Cardinality(D!Open)
      BY AdminCardinality DEF DeskInv, LogInv
    <2> QED
      BY <2>1, <2>2, <2>3, <2>4, <2>5 DEF DeskInv, LogInv, D!AuditTells
  <1> QED
    BY <1>1, <1>3, <1>4, PTL DEF SideSpec

-----------------------------------------------------------------------------
(* Notices and consents                                                      *)

\* Writes that make the notice v current, and no other, in the table as it is.
Promotes(w, v) ==
    /\ DOMAIN w = (V!Current \ {v}) \union ({v} \ V!Current)
    /\ \A c \in DOMAIN w : w[c] = (c = v)

\* What a request on notices has read and no commit has changed since.
NoticesAsRead(q) ==
    /\ q.at = "inserting" => ~V!Exists(q.version)
    /\ q.at = "promoting" => (q.loaded <=> q.version \in V!Current)
    /\ q.at = "noticing" /\ q.promotes => Promotes(q.writes, q.version)

\* A request that does not grant a consent writes nothing that makes it active.
Grudging(q) ==
    q.at = "consenting" =>
        /\ q.word = "withdraw" => "granted" \in DOMAIN q.writes /\ q.writes["granted"] = FALSE
        /\ q.word = "none" =>
               /\ "granted" \notin DOMAIN q.writes
               /\ "withdrawn" \in DOMAIN q.writes => q.writes["withdrawn"] = TRUE

NoticesInv ==
    /\ notice \in [Versions -> V!NoticeStates]
    /\ consents \in Seq(V!ConsentRows)
    /\ form \in [Requests -> V!RequestStates]
    /\ \A r \in Requests \ disturbed : NoticesAsRead(form[r])
    /\ \A r \in Requests : Grudging(form[r])
    /\ V!LastWordStands

LEMMA FormFacts ==
    ASSUME NEW q \in V!RequestStates
    PROVE  /\ q.at \in {"inserting", "promoting", "noticing"} => q.version \in Versions
           /\ q.at = "promoting" => q.new \in BOOLEAN /\ q.loaded \in BOOLEAN
           /\ q.at = "noticing" => q.promotes \in BOOLEAN /\ q.writes \in V!NoticeWrites
           /\ q.at = "consenting" => q.writes \in V!ConsentWrites
           /\ q.at = "recording" => q.granted \in BOOLEAN
           /\ q.at \in {"idle", "inserting", "promoting", "noticing", "recording", "consenting"}
  BY DEF V!RequestStates, V!Idle

LEMMA FormWord ==
    ASSUME NEW q \in V!RequestStates, q.at = "consenting"
    PROVE  q.word \in {"grant", "withdraw", "none"}
  BY DEF V!RequestStates, V!Idle

LEMMA InitNotices == V!Init => NoticesInv
  <1> SUFFICES ASSUME V!Init PROVE NoticesInv
    OBVIOUS
  <1>1. V!Idle.at = "idle" /\ V!Idle \in V!RequestStates
    BY DEF V!Idle, V!RequestStates
  <1>2. V!LastWordStands
    BY DEF V!Init, V!LastWordStands, V!HasRecord
  <1>3. notice \in [Versions -> V!NoticeStates] /\ consents \in Seq(V!ConsentRows)
    BY DEF V!Init, V!NoticeStates
  <1>4. form \in [Requests -> V!RequestStates] /\ \A r \in Requests : form[r] = V!Idle
    BY <1>1 DEF V!Init
  <1>5. NoticesAsRead(V!Idle) /\ Grudging(V!Idle)
    BY <1>1 DEF NoticesAsRead, Grudging
  <1> QED
    BY <1>2, <1>3, <1>4, <1>5 DEF NoticesInv

\* A step of r that commits nothing.
LEMMA FormMoves ==
    ASSUME NoticesInv, NEW r \in Requests, NEW q \in V!RequestStates, form' = [form EXCEPT ![r] = q],
           UNCHANGED <<notice, consents, said>>, Grudging(q),
           disturbed' = disturbed \/ disturbed' = disturbed \ {r},
           r \notin disturbed' => NoticesAsRead(q)
    PROVE  NoticesInv'
  <1>1. form'[r] = q /\ \A p \in Requests : p # r => form'[p] = form[p]
    BY DEF NoticesInv
  <1>2. form' \in [Requests -> V!RequestStates]
    BY DEF NoticesInv
  <1>3. V!LastWordStands'
    BY DEF NoticesInv, V!LastWordStands, V!HasRecord, V!Active
  <1>4. ASSUME NEW p \in Requests PROVE Grudging(form[p])'
    <2>1. PICK f : f = form'[p]
      OBVIOUS
    <2>2. Grudging(f)
      BY <1>1, <2>1 DEF NoticesInv
    <2> QED
      BY <2>1, <2>2 DEF Grudging
  <1>5. ASSUME NEW p \in Requests \ disturbed' PROVE NoticesAsRead(form[p])'
    <2>1. PICK f : f = form'[p]
      OBVIOUS
    <2>2. NoticesAsRead(f)
      <3>1. CASE p = r
        BY <1>1, <1>5, <2>1, <3>1
      <3>2. CASE p # r
        BY <1>1, <1>5, <2>1, <3>2 DEF NoticesInv
      <3> QED
        BY <3>1, <3>2
    <2>3. NoticesAsRead(f)'
      BY <2>2 DEF NoticesAsRead, Promotes, V!Current, V!Exists
    <2> QED
      BY <2>1, <2>3
  <1> QED
    BY <1>2, <1>3, <1>4, <1>5 DEF NoticesInv

\* A commit: whatever else is under way is disturbed.
LEMMA FormCommits ==
    ASSUME NoticesInv, NEW r \in Requests, V!Commits(r),
           notice' \in [Versions -> V!NoticeStates], consents' \in Seq(V!ConsentRows), V!LastWordStands'
    PROVE  NoticesInv'
  <1>1. V!Idle.at = "idle" /\ V!Idle \in V!RequestStates
    BY DEF V!Idle, V!RequestStates
  <1>2. form' = [form EXCEPT ![r] = V!Idle]
    BY DEF V!Commits, V!Become
  <1>3. form'[r] = V!Idle /\ \A p \in Requests : p # r => form'[p] = form[p]
    BY <1>2 DEF NoticesInv
  <1>4. form' \in [Requests -> V!RequestStates]
    BY <1>1, <1>2 DEF NoticesInv
  <1>5. \A p \in Requests \ disturbed' : form'[p].at = "idle"
    BY <1>1, <1>3 DEF V!Commits, V!At
  <1>6. \A p \in Requests \ disturbed' : NoticesAsRead(form[p])'
    BY <1>5 DEF NoticesAsRead
  <1>7. ASSUME NEW p \in Requests PROVE Grudging(form[p])'
    <2>1. PICK f : f = form'[p]
      OBVIOUS
    <2>2. Grudging(f)
      BY <1>1, <1>3, <2>1 DEF NoticesInv, Grudging
    <2> QED
      BY <2>1, <2>2 DEF Grudging
  <1> QED
    BY <1>4, <1>6, <1>7 DEF NoticesInv

LEMMA StartFacts ==
    ASSUME NoticesInv, NEW r \in Requests, NEW q \in V!RequestStates, V!Starts(r, q),
           UNCHANGED <<notice, consents, said>>, Grudging(q), NoticesAsRead(q)
    PROVE  NoticesInv'
  BY FormMoves DEF V!Starts, V!Become

LEMMA CreateNoticeKeeps ==
    ASSUME NoticesInv, NEW r \in Requests, NEW v \in Versions, V!CreateNotice(r, v)
    PROVE  NoticesInv'
  <1>1. PICK q : q = [at |-> "inserting", version |-> v]
    OBVIOUS
  <1>2. q \in V!RequestStates /\ q.at = "inserting" /\ q.version = v
    BY <1>1 DEF V!RequestStates
  <1>3. V!Starts(r, q) /\ ~V!Exists(v) /\ UNCHANGED <<notice, consents, said>>
    BY <1>1 DEF V!CreateNotice, V!UnchangedRows
  <1> QED
    BY <1>2, <1>3, StartFacts DEF Grudging, NoticesAsRead

LEMMA PromoteNoticeKeeps ==
    ASSUME NoticesInv, NEW r \in Requests, NEW v \in Versions, V!PromoteNotice(r, v)
    PROVE  NoticesInv'
  <1>1. PICK q : q = [at |-> "promoting", version |-> v, new |-> FALSE, loaded |-> (v \in V!Current)]
    OBVIOUS
  <1>2. q \in V!RequestStates /\ q.at = "promoting" /\ q.version = v
    BY <1>1 DEF V!RequestStates
  <1>3. q.loaded <=> v \in V!Current
    BY <1>1
  <1>4. V!Starts(r, q) /\ UNCHANGED <<notice, consents, said>>
    BY <1>1 DEF V!PromoteNotice, V!UnchangedRows
  <1> QED
    BY <1>2, <1>3, <1>4, StartFacts DEF Grudging, NoticesAsRead

\* Any part of the table is a set of writes.
LEMMA WritesType ==
    ASSUME NEW S, S \subseteq Versions, NEW w \in [S -> BOOLEAN]
    PROVE  w \in V!NoticeWrites
  BY DEF V!NoticeWrites

LEMMA RetireNoticeKeeps ==
    ASSUME NoticesInv, NEW r \in Requests, NEW v \in Versions, V!RetireNotice(r, v)
    PROVE  NoticesInv'
  <1>1. PICK w : w = [c \in V!Current \intersect {v} |-> FALSE]
    OBVIOUS
  <1>2. PICK q : q = [at |-> "noticing", version |-> v, new |-> FALSE, promotes |-> FALSE, writes |-> w]
    OBVIOUS
  <1>3. w \in V!NoticeWrites
    BY <1>1, WritesType DEF V!Current
  <1>4. q \in V!RequestStates /\ q.at = "noticing" /\ ~q.promotes
    BY <1>2, <1>3 DEF V!RequestStates
  <1>5. V!Starts(r, q) /\ UNCHANGED <<notice, consents, said>>
    BY <1>1, <1>2 DEF V!RetireNotice, V!UnchangedRows
  <1> QED
    BY <1>4, <1>5, StartFacts DEF Grudging, NoticesAsRead

LEMMA FindCurrentKeeps ==
    ASSUME NoticesInv, NEW r \in Requests, V!FindCurrent(r)
    PROVE  NoticesInv'
  <1>1. PICK v : v = form[r].version
    OBVIOUS
  <1>2. /\ form[r].at = "inserting" /\ v \in Versions /\ UNCHANGED <<notice, consents, said, disturbed>>
        /\ r \notin disturbed => ~V!Exists(v)
    BY <1>1, FormFacts DEF V!FindCurrent, V!At, V!UnchangedRows, NoticesInv, NoticesAsRead
  <1>3. r \notin disturbed => v \notin V!Current
    BY <1>2 DEF V!Exists, V!Current
  <1>4. PICK p : p = [at |-> "promoting", version |-> v, new |-> TRUE, loaded |-> FALSE]
    OBVIOUS
  <1>5. PICK w : w = [c \in {v} |-> FALSE]
    OBVIOUS
  <1>6. PICK q : q = [at |-> "noticing", version |-> v, new |-> TRUE, promotes |-> FALSE, writes |-> w]
    OBVIOUS
  <1>7. p \in V!RequestStates /\ p.at = "promoting" /\ p.loaded = FALSE /\ p.version = v
    BY <1>2, <1>4 DEF V!RequestStates
  <1>8. w \in V!NoticeWrites
    BY <1>2, <1>5, WritesType
  <1>9. q \in V!RequestStates /\ q.at = "noticing" /\ ~q.promotes
    BY <1>2, <1>6, <1>8 DEF V!RequestStates
  <1>10. form' = [form EXCEPT ![r] = p] \/ form' = [form EXCEPT ![r] = q]
    <2>1. \/ V!Become(r, [at |-> "promoting", version |-> form[r].version, new |-> TRUE, loaded |-> FALSE])
          \/ V!Become(r, [at |-> "noticing", version |-> form[r].version, new |-> TRUE, promotes |-> FALSE,
                          writes |-> [c \in {form[r].version} |-> FALSE]])
      BY Zenon DEF V!FindCurrent
    <2>2. V!Become(r, p) \/ V!Become(r, q)
      BY <1>1, <1>4, <1>5, <1>6, <2>1, Zenon
    <2> QED
      BY <2>2 DEF V!Become
  <1>11. NoticesAsRead(q) /\ Grudging(q)
    BY <1>9, Zenon DEF NoticesAsRead, Grudging
  <1>12. Grudging(p)
    BY <1>7, Zenon DEF Grudging
  <1>13. r \notin disturbed => NoticesAsRead(p)
    <2> SUFFICES ASSUME r \notin disturbed PROVE NoticesAsRead(p)
      OBVIOUS
    <2>1. p.version \notin V!Current
      BY <1>3, <1>7
    <2>2. p.loaded <=> p.version \in V!Current
      BY <1>7, <2>1
    <2>3. p.at # "inserting" /\ p.at # "noticing"
      BY <1>7
    <2> QED
      BY <2>2, <2>3, Zenon DEF NoticesAsRead
  <1> QED
    BY <1>2, <1>7, <1>9, <1>10, <1>11, <1>12, <1>13, FormMoves

LEMMA SetCurrentKeeps ==
    ASSUME NoticesInv, NEW r \in Requests, V!SetCurrent(r)
    PROVE  NoticesInv'
  <1>1. PICK q : q = form[r]
    OBVIOUS
  <1>2. PICK S : S = V!Demoted(q.version) \union (IF q.loaded THEN {} ELSE {q.version})
    OBVIOUS
  <1>3. PICK w : w = [c \in S |-> c = q.version]
    OBVIOUS
  <1>4. PICK p : p = [at |-> "noticing", version |-> q.version, new |-> q.new, promotes |-> TRUE,
                      writes |-> w]
    OBVIOUS
  <1>5. /\ q.at = "promoting" /\ q.version \in Versions /\ q.new \in BOOLEAN
        /\ UNCHANGED <<notice, consents, said, disturbed>>
        /\ r \notin disturbed => (q.loaded <=> q.version \in V!Current)
    BY <1>1, FormFacts DEF V!SetCurrent, V!At, V!UnchangedRows, NoticesInv, NoticesAsRead
  <1>6. w \in V!NoticeWrites
    <2>1. S \subseteq Versions
      BY <1>2, <1>5 DEF V!Demoted, V!Current
    <2> QED
      BY <1>3, <2>1, WritesType
  <1>7. /\ p \in V!RequestStates /\ p.at = "noticing" /\ p.promotes /\ p.version = q.version
        /\ p.writes = w
    BY <1>4, <1>5, <1>6 DEF V!RequestStates
  <1>8. form' = [form EXCEPT ![r] = p]
    BY <1>1, <1>2, <1>3, <1>4 DEF V!SetCurrent, V!Become
  <1>9. r \notin disturbed => Promotes(w, q.version)
    BY <1>2, <1>3, <1>5 DEF Promotes, V!Demoted
  <1> QED
    BY <1>5, <1>7, <1>8, <1>9, FormMoves DEF NoticesAsRead, Grudging

\* An undisturbed promotion leaves its notice current and no other.
LEMMA PromotionWins ==
    ASSUME NoticesInv, NEW r \in Requests, V!CommitNotice(r), form[r].promotes, r \notin disturbed
    PROVE  V!Current' = {form[r].version}
  <1>1. PICK q : q = form[r]
    OBVIOUS
  <1>2. Promotes(q.writes, q.version) /\ q.version \in Versions
    BY <1>1, FormFacts DEF V!CommitNotice, V!At, NoticesInv, NoticesAsRead
  <1>3. notice' = [v \in Versions |->
           IF v \notin DOMAIN q.writes THEN notice[v] ELSE IF q.writes[v] THEN "current" ELSE "stored"]
    BY <1>1 DEF V!CommitNotice
  <1>4. \A v \in Versions : notice'[v] = "current" <=> v = q.version
    BY <1>2, <1>3 DEF Promotes, V!Current
  <1> QED
    BY <1>1, <1>2, <1>4 DEF V!Current

LEMMA CommitNoticeKeeps ==
    ASSUME NoticesInv, NEW r \in Requests, V!CommitNotice(r)
    PROVE  NoticesInv'
  <1>1. notice' \in [Versions -> V!NoticeStates]
    BY DEF V!CommitNotice, NoticesInv, V!NoticeStates
  <1>2. UNCHANGED <<consents, said>> /\ V!Commits(r)
    BY DEF V!CommitNotice
  <1>3. V!LastWordStands' /\ consents' \in Seq(V!ConsentRows)
    BY <1>2 DEF NoticesInv, V!LastWordStands, V!HasRecord, V!Active
  <1> QED
    BY <1>1, <1>2, <1>3, FormCommits

-----------------------------------------------------------------------------
(* Consents                                                                  *)

LEMMA CreateConsentKeeps ==
    ASSUME NoticesInv, NEW r \in Requests, NEW granted \in BOOLEAN, V!CreateConsent(r, granted)
    PROVE  NoticesInv'
  <1>1. PICK q : q = [at |-> "recording", granted |-> granted]
    OBVIOUS
  <1>2. q \in V!RequestStates /\ q.at = "recording"
    BY <1>1 DEF V!RequestStates
  <1>3. V!Starts(r, q) /\ UNCHANGED <<notice, consents, said>>
    BY <1>1 DEF V!CreateConsent, V!UnchangedRows
  <1> QED
    BY <1>2, <1>3, StartFacts DEF Grudging, NoticesAsRead

LEMMA CommitRecordKeeps ==
    ASSUME NoticesInv, NEW r \in Requests, V!CommitRecord(r)
    PROVE  NoticesInv'
  <1>1. PICK x : x = [granted |-> form[r].granted, withdrawn |-> FALSE]
    OBVIOUS
  <1>2. form[r].granted \in BOOLEAN
    BY FormFacts DEF V!CommitRecord, V!At, NoticesInv
  <1>3. x \in V!ConsentRows
    BY <1>1, <1>2 DEF V!ConsentRows
  <1>4. /\ consents \in Seq(V!ConsentRows) /\ consents' = Append(consents, x)
        /\ said' = IF form[r].granted THEN "grant" ELSE "withdraw"
        /\ V!Commits(r) /\ UNCHANGED notice
    BY <1>1 DEF V!CommitRecord, NoticesInv
  <1>5. consents' \in Seq(V!ConsentRows) /\ Len(consents') = Len(consents) + 1 /\ Len(consents) \in Nat
    BY <1>3, <1>4
  <1>6. Len(consents') = 1 => consents'[1] = x
    BY <1>3, <1>4, <1>5
  <1>7. V!LastWordStands'
    BY <1>1, <1>2, <1>4, <1>6 DEF V!LastWordStands, V!HasRecord, V!Active
  <1>8. notice' \in [Versions -> V!NoticeStates]
    BY <1>4 DEF NoticesInv
  <1> QED
    BY <1>4, <1>5, <1>7, <1>8, FormCommits

\* What is written of a grant, a withdrawal or a date of withdrawal.
LEMMA WrittenFacts ==
    ASSUME NEW x \in V!ConsentRows, NEW word \in {"grant", "withdraw", "none"}, NEW dated \in BOOLEAN,
           word = "withdraw" => x.granted
    PROVE  LET w == V!Written(V!Changes(word, dated), x) IN
           /\ w \in V!ConsentWrites
           /\ word = "withdraw" => "granted" \in DOMAIN w /\ w["granted"] = FALSE
           /\ word = "none" => "granted" \notin DOMAIN w /\ ("withdrawn" \in DOMAIN w => w["withdrawn"] = TRUE)
  <1>1. PICK f : f = V!Changes(word, dated)
    OBVIOUS
  <1>2. PICK w : w = V!Written(f, x)
    OBVIOUS
  <1>3. /\ DOMAIN f \subseteq {"granted", "withdrawn"} /\ \A c \in DOMAIN f : f[c] \in BOOLEAN
        /\ word = "withdraw" => "granted" \in DOMAIN f /\ f["granted"] = FALSE
        /\ word = "none" => "granted" \notin DOMAIN f /\ ("withdrawn" \in DOMAIN f => f["withdrawn"] = TRUE)
    <2>1. CASE word = "grant" /\ dated
      <3>1. f = [c \in DOMAIN V!Granting \union {"withdrawn"} |-> c = "withdrawn" \/ V!Granting[c]]
        BY <1>1, <2>1 DEF V!Changes
      <3>2. DOMAIN V!Granting = {"granted", "withdrawn"} /\ V!Granting["granted"] = TRUE
        BY DEF V!Granting
      <3>3. DOMAIN f = {"granted", "withdrawn"} /\ f["granted"] = TRUE /\ f["withdrawn"] = TRUE
        BY <3>1, <3>2
      <3> QED
        BY <2>1, <3>3
    <2>2. CASE word = "grant" /\ ~dated
      <3>1. f = V!Granting
        BY <1>1, <2>2 DEF V!Changes
      <3>2. DOMAIN f = {"granted", "withdrawn"} /\ f["granted"] = TRUE /\ f["withdrawn"] = FALSE
        BY <3>1 DEF V!Granting
      <3> QED
        BY <2>2, <3>2
    <2>3. CASE word = "withdraw" /\ dated
      <3>1. f = [c \in DOMAIN V!Withdrawing \union {"withdrawn"} |-> c = "withdrawn" \/ V!Withdrawing[c]]
        BY <1>1, <2>3 DEF V!Changes
      <3>2. DOMAIN V!Withdrawing = {"granted", "withdrawn"} /\ V!Withdrawing["granted"] = FALSE
        BY DEF V!Withdrawing
      <3>3. DOMAIN f = {"granted", "withdrawn"} /\ f["granted"] = FALSE /\ f["withdrawn"] = TRUE
        BY <3>1, <3>2
      <3> QED
        BY <2>3, <3>3
    <2>4. CASE word = "withdraw" /\ ~dated
      <3>1. f = V!Withdrawing
        BY <1>1, <2>4 DEF V!Changes
      <3>2. DOMAIN f = {"granted", "withdrawn"} /\ f["granted"] = FALSE /\ f["withdrawn"] = TRUE
        BY <3>1 DEF V!Withdrawing
      <3> QED
        BY <2>4, <3>2
    <2>5. CASE word = "none" /\ dated
      <3>1. f = [c \in DOMAIN <<>> \union {"withdrawn"} |-> c = "withdrawn" \/ <<>>[c]]
        BY <1>1, <2>5 DEF V!Changes
      <3>2. DOMAIN <<>> = {}
        OBVIOUS
      <3> QED
        BY <2>5, <3>1, <3>2
    <2>6. CASE word = "none" /\ ~dated
      <3>1. f = <<>>
        BY <1>1, <2>6 DEF V!Changes
      <3>2. DOMAIN <<>> = {}
        OBVIOUS
      <3> QED
        BY <2>6, <3>1, <3>2
    <2> QED
      BY <2>1, <2>2, <2>3, <2>4, <2>5, <2>6
  <1>4. /\ DOMAIN w = {d \in DOMAIN f : f[d] # x[d] \/ (d = "withdrawn" /\ f[d])}
        /\ \A c \in DOMAIN w : w[c] = f[c]
        /\ w = [c \in DOMAIN w |-> w[c]]
    BY <1>2 DEF V!Written
  <1>5. w \in V!ConsentWrites
    <2>1. DOMAIN w \in SUBSET {"granted", "withdrawn"} /\ w \in [DOMAIN w -> BOOLEAN]
      BY <1>3, <1>4
    <2> QED
      BY <2>1 DEF V!ConsentWrites
  <1>6. word = "withdraw" => x["granted"] = TRUE
    BY DEF V!ConsentRows
  <1> QED
    BY <1>1, <1>2, <1>3, <1>4, <1>5, <1>6

LEMMA TheRow ==
    ASSUME NoticesInv, 1 \in DOMAIN consents
    PROVE  consents[1] \in V!ConsentRows
  <1>1. consents \in Seq(V!ConsentRows)
    BY DEF NoticesInv
  <1> QED
    BY <1>1

LEMMA HasRow ==
    ASSUME NoticesInv, V!HasRecord
    PROVE  consents[1] \in V!ConsentRows
  <1>1. consents \in Seq(V!ConsentRows) /\ Len(consents) = 1
    BY DEF NoticesInv, V!HasRecord
  <1>2. 1 \in DOMAIN consents
    BY <1>1
  <1> QED
    BY <1>2, TheRow

LEMMA GrantConsentKeeps ==
    ASSUME NoticesInv, NEW r \in Requests, V!GrantConsent(r)
    PROVE  NoticesInv'
  <1>1. consents[1] \in V!ConsentRows
    BY HasRow DEF V!GrantConsent
  <1>2. PICK w : w = V!Written(V!Granting, consents[1])
    OBVIOUS
  <1>3. V!Granting = V!Changes("grant", FALSE)
    BY Zenon DEF V!Changes
  <1>4. w \in V!ConsentWrites
    BY <1>1, <1>2, <1>3, WrittenFacts
  <1>5. PICK q : q = [at |-> "consenting", word |-> "grant", writes |-> w]
    OBVIOUS
  <1>6. q \in V!RequestStates /\ q.at = "consenting" /\ q.word = "grant"
    BY <1>4, <1>5 DEF V!RequestStates
  <1>7. V!Starts(r, q) /\ UNCHANGED <<notice, consents, said>>
    BY <1>2, <1>5, Zenon DEF V!GrantConsent, V!UnchangedRows
  <1>8. Grudging(q) /\ NoticesAsRead(q)
    BY <1>6 DEF Grudging, NoticesAsRead
  <1> QED
    BY <1>6, <1>7, <1>8, StartFacts

LEMMA UpdateConsentKeeps ==
    ASSUME NoticesInv, NEW r \in Requests, NEW word \in {"grant", "withdraw", "none"}, NEW dated \in BOOLEAN,
           V!UpdateConsent(r, word, dated)
    PROVE  NoticesInv'
  <1>1. consents[1] \in V!ConsentRows /\ (word = "withdraw" => consents[1].granted)
    BY HasRow, Zenon DEF V!UpdateConsent
  <1>2. PICK w : w = V!Written(V!Changes(word, dated), consents[1])
    OBVIOUS
  <1>3. /\ w \in V!ConsentWrites
        /\ word = "withdraw" => "granted" \in DOMAIN w /\ w["granted"] = FALSE
        /\ word = "none" => "granted" \notin DOMAIN w /\ ("withdrawn" \in DOMAIN w => w["withdrawn"] = TRUE)
    BY <1>1, <1>2, WrittenFacts
  <1>4. PICK q : q = [at |-> "consenting", word |-> word, writes |-> w]
    OBVIOUS
  <1>5. q \in V!RequestStates
    BY <1>3, <1>4 DEF V!RequestStates
  <1>6. q.at = "consenting" /\ q.word = word /\ q.writes = w
    BY <1>4
  <1>7. V!Starts(r, q) /\ UNCHANGED <<notice, consents, said>>
    BY <1>2, <1>4, Zenon DEF V!UpdateConsent, V!UnchangedRows
  <1>8. Grudging(q) /\ NoticesAsRead(q)
    BY <1>3, <1>6 DEF Grudging, NoticesAsRead
  <1> QED
    BY <1>5, <1>7, <1>8, StartFacts

\* An UPDATE leaves a row, with what it writes and what was there before.
LEMMA UpdatedFacts ==
    ASSUME NEW x \in V!ConsentRows, NEW w \in V!ConsentWrites
    PROVE  /\ V!Updated(x, w) \in V!ConsentRows
           /\ V!Updated(x, w).granted = IF "granted" \in DOMAIN w THEN w["granted"] ELSE x.granted
           /\ V!Updated(x, w).withdrawn = IF "withdrawn" \in DOMAIN w THEN w["withdrawn"] ELSE x.withdrawn
  <1>1. PICK S \in SUBSET {"granted", "withdrawn"} : w \in [S -> BOOLEAN]
    BY DEF V!ConsentWrites
  <1>2. \A c \in DOMAIN w : w[c] \in BOOLEAN
    BY <1>1
  <1>3. DOMAIN x = {"granted", "withdrawn"} /\ x["granted"] \in BOOLEAN /\ x["withdrawn"] \in BOOLEAN
    BY DEF V!ConsentRows
  <1>4. PICK y : y = V!Updated(x, w)
    OBVIOUS
  <1>5. y = [c \in DOMAIN x |-> IF c \in DOMAIN w THEN w[c] ELSE x[c]]
    BY <1>4 DEF V!Updated
  <1>6. y = [granted |-> y["granted"], withdrawn |-> y["withdrawn"]]
    BY <1>3, <1>5
  <1>7. /\ y["granted"] = IF "granted" \in DOMAIN w THEN w["granted"] ELSE x["granted"]
        /\ y["withdrawn"] = IF "withdrawn" \in DOMAIN w THEN w["withdrawn"] ELSE x["withdrawn"]
    BY <1>3, <1>5
  <1>8. y["granted"] \in BOOLEAN /\ y["withdrawn"] \in BOOLEAN
    BY <1>2, <1>3, <1>7
  <1> QED
    BY <1>4, <1>6, <1>7, <1>8 DEF V!ConsentRows

LEMMA CommitConsentKeeps ==
    ASSUME NoticesInv, NEW r \in Requests, V!CommitConsent(r)
    PROVE  NoticesInv'
  <1>1. PICK q : q = form[r]
    OBVIOUS
  <1>2. q.at = "consenting" /\ q.writes \in V!ConsentWrites /\ Grudging(q)
    BY <1>1, FormFacts DEF V!CommitConsent, V!At, NoticesInv
  <1>3. /\ consents \in Seq(V!ConsentRows)
        /\ consents' = [consents EXCEPT ![1] = V!Updated(consents[1], q.writes)]
        /\ said' = IF q.word = "none" THEN said ELSE q.word
        /\ V!Commits(r) /\ UNCHANGED notice
    BY <1>1 DEF V!CommitConsent, NoticesInv
  <1>4. notice' \in [Versions -> V!NoticeStates]
    BY <1>3 DEF NoticesInv
  <1>5. ASSUME 1 \in DOMAIN consents
        PROVE  consents[1] \in V!ConsentRows /\ V!Updated(consents[1], q.writes) \in V!ConsentRows
    BY <1>2, <1>5, TheRow, UpdatedFacts
  <1>6. DOMAIN consents' = DOMAIN consents /\ Len(consents') = Len(consents)
    BY <1>3
  <1>7. consents' \in Seq(V!ConsentRows)
    <2>1. Len(consents) \in Nat /\ consents \in [1 .. Len(consents) -> V!ConsentRows]
      BY <1>3
    <2>2. consents' \in [1 .. Len(consents) -> V!ConsentRows]
      BY <1>3, <1>5, <2>1
    <2> QED
      BY <2>1, <2>2, SeqDef
  <1>8. V!LastWordStands'
    <2> SUFFICES ASSUME Len(consents') = 1, consents'[1].granted, ~consents'[1].withdrawn
                 PROVE  said' = "grant"
      BY DEF V!LastWordStands, V!HasRecord, V!Active
    <2>1. Len(consents) = 1 /\ 1 \in DOMAIN consents
      BY <1>3, <1>6
    <2>2. PICK x \in V!ConsentRows : x = consents[1]
      BY <1>5, <2>1
    <2>3. consents'[1] = V!Updated(x, q.writes)
      BY <1>3, <2>1, <2>2
    <2>4. /\ IF "granted" \in DOMAIN q.writes THEN q.writes["granted"] ELSE x.granted
          /\ ~(IF "withdrawn" \in DOMAIN q.writes THEN q.writes["withdrawn"] ELSE x.withdrawn)
      BY <1>2, <2>2, <2>3, UpdatedFacts
    <2>5. q.word \in {"grant", "withdraw", "none"}
      BY <1>1, <1>2, FormWord DEF NoticesInv
    <2>6. q.word # "withdraw"
      BY <1>2, <2>4 DEF Grudging
    <2>7. ASSUME q.word = "none" PROVE said = "grant"
      <3>1. x.granted /\ ~x.withdrawn
        BY <1>2, <2>4, <2>7 DEF Grudging
      <3> QED
        BY <2>1, <2>2, <3>1 DEF NoticesInv, V!LastWordStands, V!HasRecord, V!Active
    <2> QED
      BY <1>3, <2>5, <2>6, <2>7
  <1> QED
    BY <1>3, <1>4, <1>7, <1>8, FormCommits

LEMMA LeaveFormKeeps ==
    ASSUME NoticesInv, NEW r \in Requests, V!Leave(r)
    PROVE  NoticesInv'
  <1>1. V!Idle.at = "idle" /\ V!Idle \in V!RequestStates
    BY DEF V!Idle, V!RequestStates
  <1>2. form' = [form EXCEPT ![r] = V!Idle] /\ UNCHANGED <<notice, consents, said, disturbed>>
    BY DEF V!Leave, V!Become, V!UnchangedRows
  <1>3. Grudging(V!Idle) /\ NoticesAsRead(V!Idle)
    BY <1>1 DEF Grudging, NoticesAsRead
  <1> QED
    BY <1>1, <1>2, <1>3, FormMoves

LEMMA NoticesStep == NoticesInv /\ [V!Next]_privacy => NoticesInv'
  <1> SUFFICES ASSUME NoticesInv, [V!Next]_privacy PROVE NoticesInv'
    OBVIOUS
  <1>1. CASE V!Next
    <2>1. PICK r \in Requests :
               \/ \E v \in Versions : V!CreateNotice(r, v) \/ V!PromoteNotice(r, v) \/ V!RetireNotice(r, v)
               \/ V!FindCurrent(r) \/ V!SetCurrent(r) \/ V!CommitNotice(r)
               \/ \E granted \in BOOLEAN : V!CreateConsent(r, granted)
               \/ \E word \in {"grant", "withdraw", "none"}, dated \in BOOLEAN : V!UpdateConsent(r, word, dated)
               \/ V!CommitRecord(r) \/ V!GrantConsent(r) \/ V!CommitConsent(r) \/ V!Leave(r)
      BY <1>1, Zenon DEF V!Next
    <2> QED
      BY <2>1, CreateNoticeKeeps, PromoteNoticeKeeps, RetireNoticeKeeps, FindCurrentKeeps, SetCurrentKeeps,
         CommitNoticeKeeps, CreateConsentKeeps, UpdateConsentKeeps, CommitRecordKeeps, GrantConsentKeeps,
         CommitConsentKeeps, LeaveFormKeeps
  <1>2. CASE UNCHANGED privacy
    <2>1. \A r \in Requests \ disturbed : NoticesAsRead(form[r])'
      BY <1>2 DEF NoticesInv, privacy, NoticesAsRead, Promotes, V!Current, V!Exists
    <2>2. \A r \in Requests : Grudging(form[r])'
      BY <1>2 DEF NoticesInv, privacy, Grudging
    <2>3. V!LastWordStands'
      BY <1>2 DEF NoticesInv, privacy, V!LastWordStands, V!HasRecord, V!Active
    <2> QED
      BY <1>2, <2>1, <2>2, <2>3 DEF NoticesInv, privacy
  <1> QED
    BY <1>1, <1>2

\* However requests on one consent overlap, fail or die, it is active only when the last
\* decision that was committed was to grant it; and a request that makes a notice
\* current, which no other commit disturbs, leaves that notice current and no other.
THEOREM ConsentsHold == SideSpec => ConsentsStand
  <1>1. SideInit => NoticesInv
    BY InitNotices DEF SideInit
  <1>2. [SideNext]_<<side, vars, others>> => [V!Next]_privacy
    BY DEF SideNext, others
  <1>3. NoticesInv /\ [SideNext]_<<side, vars, others>> => NoticesInv'
    BY <1>2, NoticesStep
  <1>4. NoticesInv /\ [SideNext]_<<side, vars, others>> =>
            [V!LastWordStands' /\ V!UndisturbedSetterWins]_privacy
    <2> SUFFICES ASSUME NoticesInv, [SideNext]_<<side, vars, others>>
                 PROVE  V!LastWordStands' /\ V!UndisturbedSetterWins
      OBVIOUS
    <2>1. V!LastWordStands'
      BY <1>3 DEF NoticesInv
    <2>2. V!UndisturbedSetterWins
      BY PromotionWins DEF V!UndisturbedSetterWins
    <2> QED
      BY <2>1, <2>2
  <1> QED
    BY <1>1, <1>3, <1>4, PTL DEF SideSpec, ConsentsStand

-----------------------------------------------------------------------------
(* Policies and child accounts                                               *)

PolicyRows ==
    [age : Int, hours : Int, days : Int, dpo : BOOLEAN, officer : BOOLEAN, residency : BOOLEAN]

\* The policies that a deployment has merged.
Parts == C!Merged \union {C!PolicyFor(settings.primary, settings.overrides)}

\* p is as strict as each of S and no stricter than all together.
StrictestOf(p, S) ==
    /\ (\E x \in S : p.age = x.age) /\ \A x \in S : p.age >= x.age
    /\ (\E x \in S : p.hours = x.hours) /\ \A x \in S : p.hours <= x.hours
    /\ p.dpo <=> \E x \in S : x.dpo
    /\ p.officer <=> \E x \in S : x.officer
    /\ p.residency <=> \E x \in S : x.residency

SettingsInv ==
    /\ settings = [primary |-> settings.primary, overrides |-> settings.overrides,
                   merged |-> settings.merged, policy |-> settings.policy]
    /\ settings.overrides \in C!Overrides
    /\ settings.policy \in PolicyRows
    /\ StrictestOf(settings.policy, Parts)

LEMMA PolicyType ==
    ASSUME NEW j, NEW overrides \in C!Overrides
    PROVE  C!PolicyFor(j, overrides) \in PolicyRows
  <1>1. C!CompliancePolicy \in PolicyRows
    BY DEF C!CompliancePolicy, C!None, PolicyRows
  <1>2. /\ C!GDPRPolicy \in PolicyRows /\ C!USPrivacyPolicy \in PolicyRows
        /\ C!IndiaDPDPPolicy \in PolicyRows
        /\ C!CCPA_CPRAPolicy \in PolicyRows /\ C!GlobalBaselinePolicy \in PolicyRows
    <2>1. PICK x \in PolicyRows : x = C!CompliancePolicy
      BY <1>1
    <2>2. x = [age |-> x.age, hours |-> x.hours, days |-> x.days, dpo |-> x.dpo, officer |-> x.officer,
               residency |-> x.residency]
      BY DEF PolicyRows
    <2>3. /\ x.age \in Int /\ x.hours \in Int /\ x.days \in Int
          /\ x.dpo \in BOOLEAN /\ x.officer \in BOOLEAN /\ x.residency \in BOOLEAN
      BY DEF PolicyRows
    <2>4. C!GDPRPolicy \in PolicyRows
      <3>1. PICK p : p = [x EXCEPT !.dpo = TRUE]
        OBVIOUS
      <3>2. p = [age |-> x.age, hours |-> x.hours, days |-> x.days, dpo |-> TRUE, officer |-> x.officer,
                 residency |-> x.residency]
        BY <2>2, <3>1
      <3>3. p \in PolicyRows
        BY <2>3, <3>2 DEF PolicyRows
      <3> QED
        BY <2>1, <3>1, <3>3, Zenon DEF C!GDPRPolicy
    <2>5. C!USPrivacyPolicy \in PolicyRows
      <3>1. PICK p : p = [x EXCEPT !.age = 13, !.hours = 720]
        OBVIOUS
      <3>2. p = [age |-> 13, hours |-> 720, days |-> x.days, dpo |-> x.dpo, officer |-> x.officer,
                 residency |-> x.residency]
        <4>1. PICK y : y = [x EXCEPT !.age = 13]
          OBVIOUS
        <4>2. y = [age |-> 13, hours |-> x.hours, days |-> x.days, dpo |-> x.dpo, officer |-> x.officer,
                   residency |-> x.residency]
          BY <2>2, <4>1
        <4>3. p = [y EXCEPT !.hours = 720]
          BY <3>1, <4>1, Zenon
        <4> QED
          BY <4>2, <4>3
      <3>3. p \in PolicyRows
        BY <2>3, <3>2 DEF PolicyRows
      <3> QED
        BY <2>1, <3>1, <3>3, Zenon DEF C!USPrivacyPolicy
    <2>6. C!IndiaDPDPPolicy \in PolicyRows
      <3>1. PICK p : p = [x EXCEPT !.age = 18, !.days = 100, !.dpo = TRUE, !.officer = TRUE,
                               !.residency = TRUE]
        OBVIOUS
      <3>2. p = [age |-> 18, hours |-> x.hours, days |-> 100, dpo |-> TRUE, officer |-> TRUE,
                 residency |-> TRUE]
        BY <2>2, <3>1
      <3>3. p \in PolicyRows
        BY <2>3, <3>2 DEF PolicyRows
      <3> QED
        BY <2>1, <3>1, <3>3, Zenon DEF C!IndiaDPDPPolicy
    <2> QED
      BY <1>1, <2>4, <2>5, <2>6 DEF C!CCPA_CPRAPolicy, C!GlobalBaselinePolicy
  <1>3. DOMAIN C!Registry = {"EU", "IN", "GLOBAL", "US", "US-CA"}
    BY DEF C!Registry
  <1>4. ASSUME NEW k \in DOMAIN C!Registry PROVE C!Registry[k] \in PolicyRows
    BY <1>2, <1>3, <1>4 DEF C!Registry
  <1>5. PICK base : base = C!BasePolicy(j)
    OBVIOUS
  <1>6. base \in PolicyRows
    BY <1>3, <1>4, <1>5, Zenon DEF C!BasePolicy, C!Registered
  <1>7. DOMAIN base = {"age", "hours", "days", "dpo", "officer", "residency"}
    BY <1>6 DEF PolicyRows
  <1>8. PICK p : p = C!PolicyFor(j, overrides)
    OBVIOUS
  <1>9. p = [f \in DOMAIN base |-> IF f \in DOMAIN overrides THEN overrides[f] ELSE base[f]]
    BY <1>5, <1>8 DEF C!PolicyFor
  <1>10. /\ "age" \in DOMAIN overrides => overrides["age"] \in Int
         /\ "hours" \in DOMAIN overrides => overrides["hours"] \in Int
         /\ "days" \notin DOMAIN overrides
         /\ "dpo" \in DOMAIN overrides => overrides["dpo"] \in BOOLEAN
         /\ "officer" \notin DOMAIN overrides /\ "residency" \notin DOMAIN overrides
    <2>1. CASE overrides = <<>>
      <3>1. DOMAIN overrides = {}
        BY <2>1
      <3> QED
        BY <3>1
    <2>2. CASE overrides = [dpo |-> FALSE]
      BY <2>2
    <2>3. CASE overrides = [hours |-> 48]
      BY <2>3
    <2>4. CASE overrides = [age |-> 13, dpo |-> FALSE]
      BY <2>4
    <2> QED
      BY <2>1, <2>2, <2>3, <2>4 DEF C!Overrides
  <1>11. /\ base["age"] \in Int /\ base["hours"] \in Int /\ base["days"] \in Int
         /\ base["dpo"] \in BOOLEAN /\ base["officer"] \in BOOLEAN /\ base["residency"] \in BOOLEAN
    BY <1>6 DEF PolicyRows
  <1>12. /\ p["age"] \in Int /\ p["hours"] \in Int /\ p["days"] \in Int
         /\ p["dpo"] \in BOOLEAN /\ p["officer"] \in BOOLEAN /\ p["residency"] \in BOOLEAN
    BY <1>7, <1>9, <1>10, <1>11
  <1>13. p = [age |-> p["age"], hours |-> p["hours"], days |-> p["days"], dpo |-> p["dpo"],
              officer |-> p["officer"], residency |-> p["residency"]]
    BY <1>7, <1>9
  <1> QED
    BY <1>8, <1>12, <1>13 DEF PolicyRows

LEMMA MaxIs ==
    ASSUME NEW S, S \subseteq Int, NEW a \in S, \A x \in S : a >= x
    PROVE  C!Max(S) = a
  <1>1. PICK b : b = C!Max(S)
    OBVIOUS
  <1>2. b \in S /\ \A x \in S : b >= x
    BY <1>1 DEF C!Max
  <1>3. b >= a /\ a >= b /\ a \in Int /\ b \in Int
    BY <1>2
  <1> QED
    BY <1>1, <1>3

LEMMA MinIs ==
    ASSUME NEW S, S \subseteq Int, NEW a \in S, \A x \in S : a <= x
    PROVE  C!Min(S) = a
  <1>1. PICK b : b = C!Min(S)
    OBVIOUS
  <1>2. b \in S /\ \A x \in S : b <= x
    BY <1>1 DEF C!Min
  <1>3. b <= a /\ a <= b /\ a \in Int /\ b \in Int
    BY <1>2
  <1> QED
    BY <1>1, <1>3

\* The merge of two policies is the stricter of them in each field.
LEMMA MergeFacts ==
    ASSUME NEW p \in PolicyRows, NEW q \in PolicyRows
    PROVE  /\ C!Merge(p, q) \in PolicyRows
           /\ C!Merge(p, q).age = IF p.age >= q.age THEN p.age ELSE q.age
           /\ C!Merge(p, q).hours = IF p.hours <= q.hours THEN p.hours ELSE q.hours
           /\ C!Merge(p, q).dpo = (p.dpo \/ q.dpo)
           /\ C!Merge(p, q).officer = (p.officer \/ q.officer)
           /\ C!Merge(p, q).residency = (p.residency \/ q.residency)
  <1>1. PICK a : a = IF p.age >= q.age THEN p.age ELSE q.age
    OBVIOUS
  <1>2. PICK h : h = IF p.hours <= q.hours THEN p.hours ELSE q.hours
    OBVIOUS
  <1>3. PICK d : d = IF p.days # C!None /\ q.days # C!None THEN C!Min({p.days, q.days}) ELSE p.days
    OBVIOUS
  <1>4. /\ p.age \in Int /\ q.age \in Int /\ p.hours \in Int /\ q.hours \in Int
        /\ p.days \in Int /\ q.days \in Int
        /\ p.dpo \in BOOLEAN /\ p.officer \in BOOLEAN /\ p.residency \in BOOLEAN
        /\ q.dpo \in BOOLEAN /\ q.officer \in BOOLEAN /\ q.residency \in BOOLEAN
    BY DEF PolicyRows
  <1>5. C!Max({p.age, q.age}) = a /\ a \in Int
    BY <1>1, <1>4, MaxIs
  <1>6. C!Min({p.hours, q.hours}) = h /\ h \in Int
    BY <1>2, <1>4, MinIs
  <1>7. d \in Int
    <2>1. PICK x : x = IF p.days <= q.days THEN p.days ELSE q.days
      OBVIOUS
    <2>2. C!Min({p.days, q.days}) = x /\ x \in Int
      BY <1>4, <2>1, MinIs
    <2> QED
      BY <1>3, <1>4, <2>2
  <1>8. PICK m : m = C!Merge(p, q)
    OBVIOUS
  <1>9. m = [p EXCEPT !.age = a, !.hours = h, !.days = d, !.dpo = @ \/ q.dpo, !.officer = @ \/ q.officer,
                      !.residency = @ \/ q.residency]
    <2>1. m = [p EXCEPT !.age = C!Max({p.age, q.age}), !.hours = C!Min({p.hours, q.hours}),
                        !.days = IF p.days # C!None /\ q.days # C!None THEN C!Min({p.days, q.days}) ELSE p.days,
                        !.dpo = p.dpo \/ q.dpo, !.officer = p.officer \/ q.officer,
                        !.residency = p.residency \/ q.residency]
      BY <1>8, Zenon DEF C!Merge
    <2> QED
      BY <1>3, <1>5, <1>6, <2>1, Zenon
  <1>10. p = [age |-> p.age, hours |-> p.hours, days |-> p.days, dpo |-> p.dpo, officer |-> p.officer,
              residency |-> p.residency]
    BY DEF PolicyRows
  <1>11. m = [age |-> a, hours |-> h, days |-> d, dpo |-> p.dpo \/ q.dpo, officer |-> p.officer \/ q.officer,
              residency |-> p.residency \/ q.residency]
    BY <1>9, <1>10
  <1>12. m \in PolicyRows
    BY <1>4, <1>5, <1>6, <1>7, <1>11 DEF PolicyRows
  <1>13. /\ m.age = a /\ m.hours = h /\ m.dpo = (p.dpo \/ q.dpo) /\ m.officer = (p.officer \/ q.officer)
         /\ m.residency = (p.residency \/ q.residency)
    BY <1>11
  <1> QED
    BY <1>1, <1>2, <1>8, <1>12, <1>13

LEMMA InitSettings == C!SettingsInit => SettingsInv
  <1> SUFFICES ASSUME C!SettingsInit PROVE SettingsInv
    OBVIOUS
  <1>1. PICK j \in C!Jurisdictions, o \in C!Overrides :
             settings = [primary |-> j, overrides |-> o, merged |-> {}, policy |-> C!PolicyFor(j, o)]
    BY Zenon DEF C!SettingsInit
  <1>2. PICK p : p = C!PolicyFor(j, o)
    OBVIOUS
  <1>3. p \in PolicyRows
    BY <1>2, PolicyType
  <1>4. settings = [primary |-> j, overrides |-> o, merged |-> {}, policy |-> p]
    BY <1>1, <1>2, Zenon
  <1>5. settings.primary = j /\ settings.overrides = o /\ settings.merged = {} /\ settings.policy = p
    BY <1>4
  <1>6. C!Merged = {}
    BY <1>5 DEF C!Merged
  <1>7. Parts = {p}
    BY <1>2, <1>5, <1>6 DEF Parts
  <1>8. StrictestOf(p, {p})
    BY <1>3 DEF StrictestOf, PolicyRows
  <1> QED
    BY <1>3, <1>4, <1>5, <1>7, <1>8 DEF SettingsInv

LEMMA StricterStill ==
    ASSUME NEW p \in PolicyRows, NEW q \in PolicyRows, NEW S, S \subseteq PolicyRows, StrictestOf(p, S)
    PROVE  StrictestOf(C!Merge(p, q), S \union {q})
  <1>1. PICK m \in PolicyRows : m = C!Merge(p, q)
    BY MergeFacts
  <1>2. /\ m.age = IF p.age >= q.age THEN p.age ELSE q.age
        /\ m.hours = IF p.hours <= q.hours THEN p.hours ELSE q.hours
        /\ m.dpo = (p.dpo \/ q.dpo) /\ m.officer = (p.officer \/ q.officer)
        /\ m.residency = (p.residency \/ q.residency)
    BY <1>1, MergeFacts
  <1>3. p.age \in Int /\ q.age \in Int /\ p.hours \in Int /\ q.hours \in Int
        /\ \A x \in S : x.age \in Int /\ x.hours \in Int
    BY DEF PolicyRows
  <1>4. (\E x \in S \union {q} : m.age = x.age) /\ \A x \in S \union {q} : m.age >= x.age
    BY <1>2, <1>3 DEF StrictestOf
  <1>5. (\E x \in S \union {q} : m.hours = x.hours) /\ \A x \in S \union {q} : m.hours <= x.hours
    BY <1>2, <1>3 DEF StrictestOf
  <1>6. /\ m.dpo <=> p.dpo \/ q.dpo
        /\ m.officer <=> p.officer \/ q.officer
        /\ m.residency <=> p.residency \/ q.residency
    BY <1>2
  <1>7. /\ m.dpo <=> \E x \in S \union {q} : x.dpo
        /\ m.officer <=> \E x \in S \union {q} : x.officer
        /\ m.residency <=> \E x \in S \union {q} : x.residency
    BY <1>6, Zenon DEF StrictestOf
  <1> QED
    BY <1>1, <1>4, <1>5, <1>7 DEF StrictestOf

LEMMA SettingsStep == SettingsInv /\ [C!SettingsNext]_settings => SettingsInv'
  <1> SUFFICES ASSUME SettingsInv, [C!SettingsNext]_settings PROVE SettingsInv'
    OBVIOUS
  <1>1. CASE UNCHANGED settings
    BY <1>1 DEF SettingsInv, Parts, C!Merged
  <1>2. ASSUME NEW j \in C!Jurisdictions, C!MergeAdditional(j) PROVE SettingsInv'
    <2>1. PICK q : q = C!PolicyFor(j, <<>>)
      OBVIOUS
    <2>2. \A k : C!PolicyFor(k, <<>>) \in PolicyRows
      BY PolicyType DEF C!Overrides
    <2>3. q \in PolicyRows
      BY <2>1, <2>2
    <2>4. PICK m : m = C!Merge(settings.policy, q)
      OBVIOUS
    <2>5. m \in PolicyRows
      BY <2>3, <2>4, MergeFacts DEF SettingsInv
    <2>6. settings' = [settings EXCEPT !.merged = settings.merged \union {j}, !.policy = m]
      BY <1>2, <2>1, <2>4, Zenon DEF C!MergeAdditional
    <2>7. settings' = [primary |-> settings.primary, overrides |-> settings.overrides,
                       merged |-> settings.merged \union {j}, policy |-> m]
      BY <2>6, Zenon DEF SettingsInv
    <2>8. /\ settings'.primary = settings.primary /\ settings'.overrides = settings.overrides
          /\ settings'.merged = settings.merged \union {j} /\ settings'.policy = m
      BY <2>7
    <2>9. C!Merged' = C!Merged \union {q}
      BY <2>1, <2>8 DEF C!Merged
    <2>10. Parts' = Parts \union {q}
      BY <2>8, <2>9 DEF Parts
    <2>11. Parts \subseteq PolicyRows
      BY <2>2, PolicyType DEF Parts, C!Merged, SettingsInv
    <2>12. StrictestOf(m, Parts')
      BY <2>3, <2>4, <2>10, <2>11, StricterStill DEF SettingsInv
    <2> QED
      BY <2>5, <2>7, <2>8, <2>12 DEF SettingsInv
  <1> QED
    BY <1>1, <1>2 DEF C!SettingsNext

LEMMA SettingsAreStrictest == SettingsInv => C!MergeIsStrictest
  <1> SUFFICES ASSUME SettingsInv PROVE C!MergeIsStrictest
    OBVIOUS
  <1>1. PICK p : p = settings.policy
    OBVIOUS
  <1>2. PICK S : S = Parts
    OBVIOUS
  <1>3. S \subseteq PolicyRows
    BY <1>2, PolicyType DEF Parts, C!Merged, SettingsInv, C!Overrides
  <1>4. StrictestOf(p, S)
    BY <1>1, <1>2 DEF SettingsInv
  <1>5. p.age = C!Max({x.age : x \in S})
    <2>1. {x.age : x \in S} \subseteq Int
      BY <1>3 DEF PolicyRows
    <2>2. p.age \in {x.age : x \in S} /\ \A a \in {x.age : x \in S} : p.age >= a
      BY <1>4 DEF StrictestOf
    <2> QED
      BY <2>1, <2>2, MaxIs
  <1>6. p.hours = C!Min({x.hours : x \in S})
    <2>1. {x.hours : x \in S} \subseteq Int
      BY <1>3 DEF PolicyRows
    <2>2. p.hours \in {x.hours : x \in S} /\ \A a \in {x.hours : x \in S} : p.hours <= a
      BY <1>4 DEF StrictestOf
    <2> QED
      BY <2>1, <2>2, MinIs
  <1>7. \A has : C!IsCompliant(p, has) <=> \A x \in S : C!IsCompliant(x, has)
    <2>1. /\ p.dpo <=> \E x \in S : x.dpo
          /\ p.officer <=> \E x \in S : x.officer
          /\ p.residency <=> \E x \in S : x.residency
      BY <1>4 DEF StrictestOf
    <2>2. \E x \in S : TRUE
      BY <1>4 DEF StrictestOf
    <2> QED
      BY <2>1, Zenon DEF C!IsCompliant
  <1> QED
    BY <1>1, <1>2, <1>5, <1>6, <1>7, Zenon DEF C!MergeIsStrictest, Parts

-----------------------------------------------------------------------------
(* Links between children and parents                                       *)

ChildInv ==
    /\ child \in [Users -> C!ChildRows \union {C!NoRow}]
    /\ claim \in [Requests -> C!RequestStates]
    /\ \A u \in Users : first[u] = IF child[u].exists THEN {child[u].parent} ELSE {}
    /\ first = [u \in Users |-> first[u]]

LEMMA ClaimFacts ==
    ASSUME NEW q \in C!RequestStates
    PROVE  /\ q.at \in {"linking", "verifying"} => q.user \in Users
           /\ q.at = "linking" => q.parent \in Parents
  BY DEF C!RequestStates, C!Idle

LEMMA InitChildren == C!RecordsInit => ChildInv
  <1> SUFFICES ASSUME C!RecordsInit PROVE ChildInv
    OBVIOUS
  <1>1. C!NoRow.exists = FALSE
    BY DEF C!NoRow
  <1>2. C!Idle \in C!RequestStates
    BY DEF C!RequestStates
  <1> QED
    BY <1>1, <1>2 DEF C!RecordsInit, ChildInv

LEMMA ChildrenStep == ChildInv /\ [C!RecordsNext]_records => ChildInv'
  <1> SUFFICES ASSUME ChildInv, [C!RecordsNext]_records PROVE ChildInv'
    OBVIOUS
  <1>1. ASSUME UNCHANGED <<child, first>>, claim' \in [Requests -> C!RequestStates] PROVE ChildInv'
    BY <1>1 DEF ChildInv
  <1>2. ASSUME NEW r \in Requests, NEW q \in C!RequestStates, C!Become(r, q) PROVE claim' \in [Requests -> C!RequestStates]
    BY <1>2 DEF C!Become, ChildInv
  <1>3. C!Idle \in C!RequestStates
    BY DEF C!RequestStates
  <1>4. CASE UNCHANGED records
    BY <1>1, <1>4 DEF records, ChildInv
  <1>5. ASSUME NEW u \in Users, NEW age \in Ages, NEW j \in C!Jurisdictions, C!VerifyAge(u, age, j) PROVE ChildInv'
    BY <1>1, <1>5 DEF C!VerifyAge, ChildInv
  <1>6. CASE C!CreateDsar
    BY <1>1, <1>6 DEF C!CreateDsar, ChildInv
  <1>7. ASSUME NEW r \in Requests, NEW u \in Users, C!FindLink(r, u) PROVE ChildInv'
    <2>1. [at |-> "verifying", user |-> u] \in C!RequestStates
      BY DEF C!RequestStates
    <2> QED
      BY <1>1, <1>2, <1>7, <2>1 DEF C!FindLink, C!UnchangedRows
  <1>8. ASSUME NEW r \in Requests, NEW u \in Users, NEW p \in Parents, C!FindChild(r, u, p) PROVE ChildInv'
    <2>1. [at |-> "linking", user |-> u, parent |-> p] \in C!RequestStates
      BY DEF C!RequestStates
    <2> QED
      BY <1>1, <1>2, <1>8, <2>1 DEF C!FindChild, C!UnchangedRows
  <1>9. ASSUME NEW r \in Requests, C!FindConsent(r) PROVE ChildInv'
    <2>1. [at |-> "consenting"] \in C!RequestStates
      BY DEF C!RequestStates
    <2> QED
      BY <1>1, <1>2, <1>9, <2>1 DEF C!FindConsent, C!UnchangedRows
  <1>10. ASSUME NEW r \in Requests, C!CreateConsent(r) \/ C!Leave(r) PROVE ChildInv'
    BY <1>1, <1>2, <1>3, <1>10 DEF C!CreateConsent, C!Leave, C!UnchangedRows
  <1>11. ASSUME NEW r \in Requests, C!LinkChild(r) PROVE ChildInv'
    <2>1. PICK u, p : u = claim[r].user /\ p = claim[r].parent
      OBVIOUS
    <2>2. u \in Users /\ p \in Parents
      BY <1>11, <2>1, ClaimFacts DEF C!LinkChild, C!At, ChildInv
    <2>3. PICK x : x = [exists |-> TRUE, parent |-> p, verified |-> FALSE]
      OBVIOUS
    <2>4. x \in C!ChildRows /\ x.exists = TRUE /\ x.parent = p
      BY <2>2, <2>3 DEF C!ChildRows
    <2>5. /\ child' = [child EXCEPT ![u] = x] /\ ~child[u].exists /\ C!Become(r, C!Idle)
          /\ first' = [first EXCEPT ![u] = IF first[u] = {} THEN {p} ELSE first[u]]
      BY <1>11, <2>1, <2>3 DEF C!LinkChild, C!Admits
    <2>6. first[u] = {}
      BY <2>2, <2>5 DEF ChildInv
    <2>7. child' \in [Users -> C!ChildRows \union {C!NoRow}] /\ claim' \in [Requests -> C!RequestStates]
      BY <1>2, <1>3, <2>4, <2>5 DEF ChildInv
    <2>8. first' = [first EXCEPT ![u] = {p}]
      BY <2>5, <2>6
    <2>9. first' = [v \in Users |-> first'[v]]
      BY <2>8 DEF ChildInv
    <2>10. ASSUME NEW v \in Users PROVE first'[v] = IF child'[v].exists THEN {child'[v].parent} ELSE {}
      <3>1. CASE v = u
        <4>1. child'[v] = x /\ first'[v] = {p}
          BY <2>2, <2>5, <2>8, <3>1 DEF ChildInv
        <4> QED
          BY <2>4, <4>1
      <3>2. CASE v # u
        BY <2>5, <2>8, <3>2 DEF ChildInv
      <3> QED
        BY <3>1, <3>2
    <2> QED
      BY <2>7, <2>9, <2>10 DEF ChildInv
  <1>12. ASSUME NEW r \in Requests, C!VerifyParentalConsent(r) PROVE ChildInv'
    <2>1. PICK u : u = claim[r].user
      OBVIOUS
    <2>2. u \in Users
      BY <1>12, <2>1, ClaimFacts DEF C!VerifyParentalConsent, C!At, ChildInv
    <2>3. PICK x : x = [child[u] EXCEPT !.verified = TRUE]
      OBVIOUS
    <2>4. /\ x \in C!ChildRows \union {C!NoRow} /\ x.exists = child[u].exists
          /\ x.exists => x.parent = child[u].parent
      <3>1. CASE child[u] \in C!ChildRows
        BY <2>3, <3>1 DEF C!ChildRows
      <3>2. CASE child[u] = C!NoRow
        <4>1. x = C!NoRow
          BY <2>3, <3>2 DEF C!NoRow
        <4> QED
          BY <3>2, <4>1 DEF C!NoRow
      <3> QED
        BY <2>2, <3>1, <3>2 DEF ChildInv
    <2>5. child' = [child EXCEPT ![u] = x] /\ C!Become(r, C!Idle) /\ first' = first
      BY <1>12, <2>1, <2>3 DEF C!VerifyParentalConsent
    <2>6. child' \in [Users -> C!ChildRows \union {C!NoRow}] /\ claim' \in [Requests -> C!RequestStates]
      BY <1>2, <1>3, <2>4, <2>5 DEF ChildInv
    <2>7. \A v \in Users : first'[v] = IF child'[v].exists THEN {child'[v].parent} ELSE {}
      BY <2>2, <2>4, <2>5 DEF ChildInv
    <2> QED
      BY <2>5, <2>6, <2>7 DEF ChildInv
  <1> QED
    BY <1>4, <1>5, <1>6, <1>7, <1>8, <1>9, <1>10, <1>11, <1>12 DEF C!RecordsNext

\* In whatever order a deployment merges the policies of its jurisdictions, the result
\* is the strictest of all in each field and demands what any of them demands; and a
\* child keeps the parent whose link was committed first.
THEOREM ChildrenHold == SideSpec => []ChildrenAreProtected
  <1>1. SideInit => SettingsInv /\ ChildInv
    BY InitSettings, InitChildren DEF SideInit, C!Init
  <1>2. [SideNext]_<<side, vars, others>> => [C!SettingsNext]_settings /\ [C!RecordsNext]_records
    BY DEF SideNext, others
  <1>3. SettingsInv /\ ChildInv /\ [SideNext]_<<side, vars, others>> => (SettingsInv /\ ChildInv)'
    BY <1>2, SettingsStep, ChildrenStep
  <1>4. SettingsInv /\ ChildInv => ChildrenAreProtected
    <2> SUFFICES ASSUME SettingsInv, ChildInv PROVE C!FirstLinkStands
      BY SettingsAreStrictest DEF ChildrenAreProtected
    <2> QED
      BY DEF ChildInv, C!FirstLinkStands
  <1> QED
    BY <1>1, <1>3, <1>4, PTL DEF SideSpec

-----------------------------------------------------------------------------
(* Profiles                                                                  *)

Holding(t) == t.at \in {"profile", "both"}

\* What an actor a in the middle of t relies on.
RowsAreAsRead(a, t) ==
    /\ Holding(t) => profile[t.user] = "none"
    /\ t.at = "upgrading" =>
           /\ subscription[t.user] # P!NoSubscription
           /\ a \notin crossed => subscription[t.user] = t.read

\* What the consumer knows of the registration that it handles.
ConsumerKnows(t) ==
    /\ t.at \in {"idle", "profile", "both", "created", "failed"}
    /\ t.at = "created" => profile[t.user] # "none"
    /\ t.at = "failed" /\ faults = 0 => profile[t.user] # "none" \/ preference[t.user]
    /\ \A u \in Users : registered[u] = "taken" => t.at # "idle" /\ t.user = u

RowTypes ==
    /\ profile \in [Users -> P!Profiles]
    /\ preference \in [Users -> BOOLEAN]
    /\ subscription \in [Users -> P!Subscriptions \union {P!NoSubscription}]
    /\ device \in [Devices -> P!DeviceRows \union {P!NoDevice}]
    /\ registered \in [Users -> {"to come", "to handle", "taken", "acknowledged"}]
    /\ faults \in Nat /\ crossed \subseteq Edits

ProfilesInv ==
    /\ RowTypes
    /\ edit \in [P!Actors -> P!TxStates]
    /\ P!ProfileIsWhole /\ P!RegisteredHasProfile
    /\ \A a \in P!Actors : RowsAreAsRead(a, edit[a])
    /\ \A a, b \in P!Actors : a # b /\ Holding(edit[a]) /\ Holding(edit[b]) => edit[a].user # edit[b].user
    /\ ConsumerKnows(edit[Consumer])

LEMMA TxFacts ==
    ASSUME NEW t \in P!TxStates
    PROVE  /\ t.at # "idle" => t.user \in Users
           /\ t.at = "upgrading" => t.tier \in P!Tiers /\ t.read \in P!Subscriptions
           /\ t.at = "editing" => t.device \in Devices
  BY DEF P!TxStates, P!Idle

LEMMA InitProfiles == P!Init => ProfilesInv
  <1> SUFFICES ASSUME P!Init PROVE ProfilesInv
    OBVIOUS
  <1>1. \A a \in P!Actors : edit[a] = P!Idle
    BY DEF P!Init
  <1>2. P!Idle.at = "idle" /\ P!Idle \in P!TxStates
    BY DEF P!Idle, P!TxStates
  <1>3. RowTypes
    BY DEF P!Init, RowTypes, P!Profiles
  <1>4. P!ProfileIsWhole /\ P!RegisteredHasProfile
    BY DEF P!Init, P!ProfileIsWhole, P!RegisteredHasProfile
  <1>5. ConsumerKnows(P!Idle)
    BY <1>2 DEF ConsumerKnows, P!Init
  <1>6. Consumer \in P!Actors
    BY DEF P!Actors
  <1>7. edit \in [P!Actors -> P!TxStates]
    BY <1>2 DEF P!Init
  <1> QED
    BY <1>1, <1>2, <1>3, <1>4, <1>5, <1>6, <1>7 DEF ProfilesInv, RowsAreAsRead, Holding

\* A step of actor a that leaves the rows alone.
LEMMA EditMoves ==
    ASSUME ProfilesInv, NEW a \in P!Actors, NEW t \in P!TxStates, edit' = [edit EXCEPT ![a] = t],
           UNCHANGED <<profile, preference, subscription, crossed>>,
           RowTypes', P!RegisteredHasProfile', RowsAreAsRead(a, t),
           faults' = 0 => faults = 0,
           Holding(t) => \A b \in P!Actors \ {a} : Holding(edit[b]) => edit[b].user # t.user,
           ConsumerKnows(edit[Consumer])'
    PROVE  ProfilesInv'
  <1>1. edit'[a] = t /\ \A b \in P!Actors : b # a => edit'[b] = edit[b]
    BY DEF ProfilesInv
  <1>2. edit' \in [P!Actors -> P!TxStates]
    BY DEF ProfilesInv
  <1>3. P!ProfileIsWhole'
    BY DEF ProfilesInv, P!ProfileIsWhole
  <1>4. ASSUME NEW b \in P!Actors PROVE RowsAreAsRead(b, edit[b])'
    <2>1. PICK q : q = edit'[b]
      OBVIOUS
    <2>2. RowsAreAsRead(b, q)
      BY <1>1, <2>1 DEF ProfilesInv
    <2>3. RowsAreAsRead(b, q)'
      BY <2>2 DEF RowsAreAsRead, Holding
    <2> QED
      BY <2>1, <2>3
  <1>5. \A b, c \in P!Actors : b # c /\ Holding(edit[b])' /\ Holding(edit[c])' => edit'[b].user # edit'[c].user
    BY <1>1 DEF ProfilesInv, Holding
  <1> QED
    BY <1>2, <1>3, <1>4, <1>5 DEF ProfilesInv

\* The same for a request, which takes nothing from the consumer.
LEMMA RequestMoves ==
    ASSUME ProfilesInv, NEW r \in Edits, NEW t \in P!TxStates, edit' = [edit EXCEPT ![r] = t],
           UNCHANGED <<profile, preference, subscription, device, registered, faults, crossed>>,
           RowsAreAsRead(r, t),
           Holding(t) => \A b \in P!Actors \ {r} : Holding(edit[b]) => edit[b].user # t.user
    PROVE  ProfilesInv'
  <1>1. r \in P!Actors /\ Consumer \in P!Actors /\ r # Consumer
    BY ConsumerAssumption DEF ConsumerAssumption, P!Actors
  <1>2. edit'[Consumer] = edit[Consumer]
    BY <1>1 DEF ProfilesInv
  <1>3. RowTypes' /\ P!RegisteredHasProfile'
    BY DEF ProfilesInv, RowTypes, P!RegisteredHasProfile
  <1>4. ConsumerKnows(edit[Consumer])'
    <2>1. PICK q : q = edit[Consumer]
      OBVIOUS
    <2>2. ConsumerKnows(q)'
      BY <2>1 DEF ProfilesInv, ConsumerKnows
    <2> QED
      BY <1>2, <2>1, <2>2
  <1> QED
    BY <1>1, <1>3, <1>4, EditMoves

\* The row that an insert finds is there, and one that it does not find is held by it.
LEMMA InsertFacts ==
    ASSUME ProfilesInv, NEW a \in P!Actors, NEW u \in Users, P!InsertProfile(a, u)
    PROVE  \E t \in P!TxStates :
               /\ edit' = [edit EXCEPT ![a] = t] /\ t.user = u
               /\ t.at \in {"profile", "failed"}
               /\ t.at = "profile" => profile[u] = "none"
               /\ t.at = "failed" => profile[u] # "none"
               /\ \A b \in P!Actors : Holding(edit[b]) => edit[b].user # u
  <1>1. PICK t : t = [at |-> IF profile[u] = "none" THEN "profile" ELSE "failed", user |-> u]
    OBVIOUS
  <1>2. t \in P!TxStates
    BY <1>1 DEF P!TxStates
  <1>3. edit' = [edit EXCEPT ![a] = t]
    BY <1>1 DEF P!InsertProfile
  <1>4. \A b \in P!Actors : Holding(edit[b]) => edit[b].user # u
    BY DEF P!InsertProfile, P!ProfileHeld, Holding
  <1> QED
    BY <1>1, <1>2, <1>3, <1>4

LEMMA CreateProfileKeeps ==
    ASSUME ProfilesInv, NEW r \in Edits, NEW token \in P!Bearers, P!CreateProfile(r, token)
    PROVE  ProfilesInv'
  <1>1. r \in P!Actors /\ token.user \in Users
    BY DEF P!Actors, P!Bearers
  <1>2. PICK t \in P!TxStates :
               /\ edit' = [edit EXCEPT ![r] = t] /\ t.user = token.user
               /\ t.at \in {"profile", "failed"}
               /\ t.at = "profile" => profile[t.user] = "none"
               /\ \A b \in P!Actors : Holding(edit[b]) => edit[b].user # t.user
    BY <1>1, InsertFacts DEF P!CreateProfile
  <1> QED
    BY <1>2, RequestMoves DEF P!CreateProfile, RowsAreAsRead, Holding

LEMMA ProvisionKeeps ==
    ASSUME ProfilesInv, NEW u \in Users, P!Provision(u)
    PROVE  ProfilesInv'
  <1>1. Consumer \in P!Actors
    BY DEF P!Actors
  <1>2. PICK t \in P!TxStates :
               /\ edit' = [edit EXCEPT ![Consumer] = t] /\ t.user = u
               /\ t.at \in {"profile", "failed"}
               /\ t.at = "profile" => profile[u] = "none"
               /\ t.at = "failed" => profile[u] # "none"
               /\ \A b \in P!Actors : Holding(edit[b]) => edit[b].user # u
    BY <1>1, InsertFacts DEF P!Provision
  <1>3. /\ edit[Consumer].at = "idle" /\ registered' = [registered EXCEPT ![u] = "taken"]
        /\ UNCHANGED <<profile, preference, subscription, device, faults, crossed>>
    BY DEF P!Provision, P!At
  <1>4. \A v \in Users : registered'[v] = "taken" => v = u
    BY <1>3 DEF ProfilesInv, ConsumerKnows, RowTypes
  <1>5. ConsumerKnows(t)'
    BY <1>2, <1>3, <1>4 DEF ConsumerKnows
  <1>6. edit'[Consumer] = t
    BY <1>1, <1>2 DEF ProfilesInv
  <1>7. ConsumerKnows(edit[Consumer])'
    BY <1>5, <1>6
  <1>8. RowTypes'
    BY <1>3 DEF ProfilesInv, RowTypes
  <1>9. P!RegisteredHasProfile'
    BY <1>3 DEF ProfilesInv, RowTypes, P!RegisteredHasProfile
  <1>10. RowsAreAsRead(Consumer, t)
    BY <1>2 DEF RowsAreAsRead, Holding
  <1> QED
    BY <1>1, <1>2, <1>3, <1>7, <1>8, <1>9, <1>10, EditMoves

\* A step of any actor within create_user_profile or in the making of preferences.
LEMMA PlaceMoves ==
    ASSUME ProfilesInv, NEW a \in P!Actors, NEW place \in {"both", "asking", "made", "created", "failed", "done"},
           edit[a].at # "idle", edit[a].at # "upgrading", edit[a].at # "editing",
           P!Goes(a, place),
           UNCHANGED <<profile, preference, subscription, device, registered, crossed>>,
           faults' \in Nat, faults' = 0 => faults = 0,
           place = "both" => edit[a].at = "profile",
           a = Consumer => /\ place \in {"both", "failed"}
                           /\ place = "failed" /\ faults' = 0 => preference[edit[a].user]
    PROVE  ProfilesInv'
  <1>1. PICK q : q = edit[a]
    OBVIOUS
  <1>2. PICK t : t = [q EXCEPT !.at = place]
    OBVIOUS
  <1>3. edit' = [edit EXCEPT ![a] = t]
    BY <1>1, <1>2 DEF P!Goes
  <1>4. /\ t \in P!TxStates /\ t.at = place /\ t.user = q.user
    BY <1>1, <1>2 DEF ProfilesInv, P!TxStates, P!Idle
  <1>5. RowsAreAsRead(a, t)
    BY <1>1, <1>4 DEF ProfilesInv, RowsAreAsRead, Holding
  <1>6. Holding(t) => \A b \in P!Actors \ {a} : Holding(edit[b]) => edit[b].user # t.user
    BY <1>1, <1>4 DEF ProfilesInv, Holding
  <1>7. ConsumerKnows(edit[Consumer])'
    <2>1. CASE a = Consumer
      <3>1. ConsumerKnows(q)
        BY <1>1, <2>1 DEF ProfilesInv
      <3>2. ConsumerKnows(t)'
        BY <1>1, <1>4, <2>1, <3>1 DEF ConsumerKnows
      <3>3. edit'[Consumer] = t
        BY <1>3, <2>1 DEF ProfilesInv
      <3> QED
        BY <3>2, <3>3
    <2>2. CASE a # Consumer
      <3>1. PICK k : k = edit[Consumer]
        OBVIOUS
      <3>2. ConsumerKnows(k)'
        BY <3>1 DEF ProfilesInv, ConsumerKnows
      <3>3. edit'[Consumer] = k
        BY <1>3, <2>2, <3>1 DEF ProfilesInv, P!Actors
      <3> QED
        BY <3>2, <3>3
    <2> QED
      BY <2>1, <2>2
  <1>8. RowTypes' /\ P!RegisteredHasProfile'
    BY DEF ProfilesInv, RowTypes, P!RegisteredHasProfile
  <1> QED
    BY <1>3, <1>4, <1>5, <1>6, <1>7, <1>8, EditMoves

LEMMA ConsumerIsActor == Consumer \in P!Actors /\ Edits \subseteq P!Actors /\ Consumer \notin Edits
  BY ConsumerAssumption DEF ConsumerAssumption, P!Actors

\* The places of the consumer
LEMMA ConsumerPlaces ==
    ProfilesInv => edit[Consumer].at \in {"idle", "profile", "both", "created", "failed"}
  BY DEF ProfilesInv, ConsumerKnows

LEMMA InsertPreferencesKeeps ==
    ASSUME ProfilesInv, NEW a \in P!Actors, P!InsertPreferences(a)
    PROVE  ProfilesInv'
  BY PlaceMoves DEF P!InsertPreferences, P!At, ProfilesInv, RowTypes

LEMMA FailKeeps ==
    ASSUME ProfilesInv, NEW a \in P!Actors, P!Fail(a)
    PROVE  ProfilesInv'
  <1>1. faults' = faults + 1 /\ faults \in Nat
    BY DEF P!Fail, P!Fault, ProfilesInv, RowTypes
  <1>2. faults' \in Nat /\ faults' # 0
    BY <1>1
  <1> QED
    BY <1>2, PlaceMoves DEF P!Fail, P!At

LEMMA MakePreferencesKeeps ==
    ASSUME ProfilesInv, NEW r \in Edits, P!MakePreferences(r)
    PROVE  ProfilesInv'
  BY PlaceMoves, ConsumerIsActor DEF P!MakePreferences, P!At, ProfilesInv, RowTypes

\* What an actor has seen of the rows stays so, but for the profile it holds.
LEMMA CommitProfileKeeps ==
    ASSUME ProfilesInv, NEW a \in P!Actors, P!CommitProfile(a)
    PROVE  ProfilesInv'
  <1>1. PICK q : q = edit[a]
    OBVIOUS
  <1>2. PICK u : u = q.user
    OBVIOUS
  <1>3. PICK t : t = [q EXCEPT !.at = "created"]
    OBVIOUS
  <1>4. /\ q \in P!TxStates /\ q.at = "both" /\ u \in Users /\ edit' = [edit EXCEPT ![a] = t]
        /\ profile' = [profile EXCEPT ![u] = "new"] /\ preference' = [preference EXCEPT ![u] = TRUE]
        /\ subscription' = [subscription EXCEPT ![u] = P!LimitsOf("free")]
        /\ UNCHANGED <<device, registered, faults, crossed>>
    BY <1>1, <1>2, <1>3, TxFacts DEF P!CommitProfile, P!At, P!Goes, ProfilesInv
  <1>5. t \in P!TxStates /\ t.at = "created" /\ t.user = u
    BY <1>2, <1>3, <1>4 DEF P!TxStates, P!Idle
  <1>6. P!LimitsOf("free") \in P!Subscriptions /\ P!LimitsOf("free") # P!NoSubscription
    BY DEF P!LimitsOf, P!Subscriptions, P!NoSubscription, P!Tiers
  <1>7. RowTypes' /\ edit' \in [P!Actors -> P!TxStates]
    BY <1>4, <1>5, <1>6 DEF ProfilesInv, RowTypes, P!Profiles
  <1>8. /\ edit'[a] = t /\ \A b \in P!Actors : b # a => edit'[b] = edit[b]
        /\ profile'[u] = "new" /\ preference'[u] = TRUE /\ subscription'[u] = P!LimitsOf("free")
        /\ \A v \in Users : v # u => profile'[v] = profile[v] /\ preference'[v] = preference[v]
                                     /\ subscription'[v] = subscription[v]
    BY <1>4 DEF ProfilesInv, RowTypes
  <1>9. P!ProfileIsWhole' /\ P!RegisteredHasProfile'
    BY <1>4, <1>6, <1>8 DEF ProfilesInv, P!ProfileIsWhole, P!RegisteredHasProfile
  <1>10. profile[u] = "none" /\ subscription[u] = P!NoSubscription
    BY <1>1, <1>2, <1>4 DEF ProfilesInv, RowsAreAsRead, Holding, P!ProfileIsWhole
  <1>11. ASSUME NEW b \in P!Actors PROVE RowsAreAsRead(b, edit[b])'
    <2>1. PICK p : p = edit'[b]
      OBVIOUS
    <2>2. CASE b = a
      BY <1>5, <1>8, <2>2 DEF RowsAreAsRead, Holding
    <2>3. CASE b # a
      <3>1. p = edit[b] /\ p \in P!TxStates /\ RowsAreAsRead(b, p)
        BY <1>8, <2>1, <2>3 DEF ProfilesInv
      <3>2. Holding(p) \/ p.at = "upgrading" => p.user # u /\ p.user \in Users
        BY <1>1, <1>2, <1>4, <1>10, <2>3, <3>1, TxFacts DEF ProfilesInv, RowsAreAsRead, Holding
      <3>3. RowsAreAsRead(b, p)'
        BY <1>4, <1>8, <3>1, <3>2 DEF RowsAreAsRead, Holding
      <3> QED
        BY <2>1, <3>3
    <2> QED
      BY <2>2, <2>3
  <1>12. \A b, c \in P!Actors : b # c /\ Holding(edit[b])' /\ Holding(edit[c])' => edit'[b].user # edit'[c].user
    BY <1>5, <1>8 DEF ProfilesInv, Holding
  <1>13. ConsumerKnows(edit[Consumer])'
    <2>1. PICK p : p = edit'[Consumer]
      OBVIOUS
    <2>2. CASE a = Consumer
      <3>1. p = t /\ ConsumerKnows(q)
        BY <1>1, <1>8, <2>1, <2>2 DEF ProfilesInv
      <3>2. ConsumerKnows(t)'
        BY <1>2, <1>4, <1>5, <1>8, <3>1 DEF ConsumerKnows
      <3> QED
        BY <2>1, <3>1, <3>2
    <2>3. CASE a # Consumer
      <3>1. p = edit[Consumer] /\ p \in P!TxStates /\ ConsumerKnows(p)
        BY <1>8, <2>1, <2>3, ConsumerIsActor DEF ProfilesInv
      <3>2. p.at # "idle" => p.user \in Users
        BY <3>1, TxFacts
      <3>3. \A v \in Users : /\ profile[v] # "none" => profile'[v] # "none"
                             /\ preference[v] => preference'[v]
        BY <1>8
      <3>4. ConsumerKnows(p)'
        BY <1>4, <3>1, <3>2, <3>3 DEF ConsumerKnows
      <3> QED
        BY <2>1, <3>4
    <2> QED
      BY <2>2, <2>3
  <1> QED
    BY <1>7, <1>9, <1>11, <1>12, <1>13 DEF ProfilesInv

\* A step that leaves the actors alone, and takes no profile, preference or
\* subscription away.
LEMMA RowsChange ==
    ASSUME ProfilesInv, UNCHANGED <<edit, subscription, preference, faults, crossed>>, RowTypes',
           \A u \in Users : profile'[u] = "none" <=> profile[u] = "none",
           \A u \in Users : registered'[u] = "taken" => registered[u] = "taken",
           \A u \in Users : registered'[u] = "acknowledged" => registered[u] = "acknowledged"
    PROVE  ProfilesInv'
  <1>1. P!ProfileIsWhole' /\ P!RegisteredHasProfile'
    BY DEF ProfilesInv, P!ProfileIsWhole, P!RegisteredHasProfile
  <1>2. ASSUME NEW b \in P!Actors PROVE RowsAreAsRead(b, edit[b])'
    <2>1. PICK p : p = edit[b]
      OBVIOUS
    <2>2. p \in P!TxStates /\ RowsAreAsRead(b, p)
      BY <2>1 DEF ProfilesInv
    <2>3. RowsAreAsRead(b, p)'
      BY <2>2, TxFacts DEF RowsAreAsRead, Holding
    <2> QED
      BY <2>1, <2>3
  <1>3. ConsumerKnows(edit[Consumer])'
    <2>1. PICK p : p = edit[Consumer]
      OBVIOUS
    <2>2. p \in P!TxStates /\ ConsumerKnows(p)
      BY <2>1, ConsumerIsActor DEF ProfilesInv
    <2>3. ConsumerKnows(p)'
      BY <2>2, TxFacts DEF ConsumerKnows
    <2> QED
      BY <2>1, <2>3
  <1> QED
    BY <1>1, <1>2, <1>3 DEF ProfilesInv, Holding

LEMMA RegisterKeeps == ASSUME ProfilesInv, NEW u \in Users, P!Register(u) PROVE ProfilesInv'
  <1>1. RowTypes' /\ \A v \in Users : v # u => registered'[v] = registered[v]
    BY DEF P!Register, ProfilesInv, RowTypes
  <1>2. registered'[u] = "to handle"
    BY DEF P!Register, ProfilesInv, RowTypes
  <1> QED
    BY <1>1, <1>2, RowsChange DEF P!Register

LEMMA CompleteOnboardingKeeps ==
    ASSUME ProfilesInv, NEW u \in Users, NEW token \in P!Bearers, P!CompleteOnboarding(u, token)
    PROVE  ProfilesInv'
  <1>1. RowTypes' /\ \A v \in Users : profile'[v] = "none" <=> profile[v] = "none"
    BY DEF P!CompleteOnboarding, ProfilesInv, RowTypes, P!Profiles
  <1> QED
    BY <1>1, RowsChange DEF P!CompleteOnboarding

LEMMA DeviceKeeps ==
    ASSUME ProfilesInv, NEW d \in Devices, NEW token \in P!Bearers,
           P!RegisterDevice(d, token) \/ P!RemoveDevice(d, token)
    PROVE  ProfilesInv'
  <1>1. device' \in [Devices -> P!DeviceRows \union {P!NoDevice}]
    <2>1. CASE P!RegisterDevice(d, token)
      <3>1. PICK x : x = [is |-> "active", user |-> token.user]
        OBVIOUS
      <3>2. x \in P!DeviceRows
        BY <3>1 DEF P!DeviceRows, P!Bearers
      <3>3. device' = [device EXCEPT ![d] = x]
        BY <2>1, <3>1 DEF P!RegisterDevice
      <3> QED
        BY <3>2, <3>3 DEF ProfilesInv, RowTypes
    <2>2. CASE P!RemoveDevice(d, token)
      <3>1. PICK x : x = device[d]
        OBVIOUS
      <3>2. PICK y : y = [x EXCEPT !.is = "removed"]
        OBVIOUS
      <3>3. x \in P!DeviceRows
        BY <2>2, <3>1 DEF P!RemoveDevice, P!Owned, P!Present, ProfilesInv, RowTypes
      <3>4. y \in P!DeviceRows
        BY <3>2, <3>3 DEF P!DeviceRows
      <3>5. device' = [device EXCEPT ![d] = y]
        BY <2>2, <3>1, <3>2 DEF P!RemoveDevice
      <3> QED
        BY <3>4, <3>5 DEF ProfilesInv, RowTypes
    <2> QED
      BY <2>1, <2>2
  <1>2. UNCHANGED <<profile, preference, subscription, registered, edit, faults, crossed>>
    BY DEF P!RegisterDevice, P!RemoveDevice
  <1>3. RowTypes'
    BY <1>1, <1>2 DEF ProfilesInv, RowTypes
  <1> QED
    BY <1>2, <1>3, RowsChange

\* The consumer has no registration left to handle.
LEMMA ConsumerRests ==
    ASSUME ProfilesInv, edit' = [edit EXCEPT ![Consumer] = P!Idle],
           UNCHANGED <<profile, preference, subscription, crossed>>,
           RowTypes', P!RegisteredHasProfile', faults' = 0 => faults = 0,
           \A u \in Users : registered'[u] # "taken"
    PROVE  ProfilesInv'
  <1>1. P!Idle.at = "idle" /\ P!Idle \in P!TxStates
    BY DEF P!Idle, P!TxStates
  <1>2. edit'[Consumer] = P!Idle
    BY ConsumerIsActor DEF ProfilesInv
  <1>3. ConsumerKnows(P!Idle)'
    BY <1>1 DEF ConsumerKnows
  <1>4. RowsAreAsRead(Consumer, P!Idle) /\ ~Holding(P!Idle)
    BY <1>1 DEF RowsAreAsRead, Holding
  <1> QED
    BY <1>1, <1>2, <1>3, <1>4, ConsumerIsActor, EditMoves

LEMMA AcknowledgeKeeps == ASSUME ProfilesInv, NEW u \in Users, P!Acknowledge(u) PROVE ProfilesInv'
  <1>1. PICK q : q = edit[Consumer]
    OBVIOUS
  <1>2. ConsumerKnows(q) /\ q.at \in {"created", "failed"} /\ q.user = u
    BY <1>1 DEF P!Acknowledge, P!At, ProfilesInv, ConsumerKnows
  <1>3. faults = 0 => profile[u] # "none" \/ preference[u]
    BY <1>2 DEF ConsumerKnows
  <1>4. /\ registered'[u] = "acknowledged" /\ \A v \in Users : v # u => registered'[v] = registered[v]
        /\ RowTypes' /\ UNCHANGED <<profile, preference, subscription, faults, crossed>>
    BY DEF P!Acknowledge, ProfilesInv, RowTypes
  <1>5. P!RegisteredHasProfile'
    BY <1>3, <1>4 DEF ProfilesInv, P!RegisteredHasProfile
  <1>6. \A v \in Users : registered'[v] # "taken"
    BY <1>1, <1>2, <1>4 DEF ConsumerKnows
  <1> QED
    BY <1>4, <1>5, <1>6, ConsumerRests DEF P!Acknowledge

LEMMA RestartKeeps == ASSUME ProfilesInv, P!Restart PROVE ProfilesInv'
  <1>1. faults \in Nat /\ faults' = faults + 1
    BY DEF P!Restart, P!Fault, ProfilesInv, RowTypes
  <1>2. faults' \in Nat /\ faults' # 0
    BY <1>1
  <1>3. RowTypes' /\ P!RegisteredHasProfile' /\ \A v \in Users : registered'[v] # "taken"
    BY <1>2 DEF P!Restart, ProfilesInv, RowTypes, P!RegisteredHasProfile
  <1> QED
    BY <1>2, <1>3, ConsumerRests DEF P!Restart

LEMMA AskPreferencesKeeps ==
    ASSUME ProfilesInv, NEW r \in Edits, NEW u \in Users, NEW token \in P!Bearers,
           P!AskPreferences(r, u, token)
    PROVE  ProfilesInv'
  <1>1. PICK t : t = [at |-> IF preference[u] THEN "done" ELSE "asking", user |-> u]
    OBVIOUS
  <1>2. t \in P!TxStates /\ t.at \in {"done", "asking"}
    BY <1>1 DEF P!TxStates
  <1>3. edit' = [edit EXCEPT ![r] = t]
    BY <1>1 DEF P!AskPreferences
  <1> QED
    BY <1>2, <1>3, RequestMoves DEF P!AskPreferences, RowsAreAsRead, Holding

LEMMA UpgradeKeeps ==
    ASSUME ProfilesInv, NEW r \in Edits, NEW u \in Users, NEW tier \in P!Tiers,
           NEW token \in P!Bearers, P!Upgrade(r, u, tier, token)
    PROVE  ProfilesInv'
  <1>1. PICK x : x = subscription[u]
    OBVIOUS
  <1>2. PICK t : t = [at |-> "upgrading", user |-> u, tier |-> tier, read |-> x]
    OBVIOUS
  <1>3. x \in P!Subscriptions /\ x # P!NoSubscription
    BY <1>1 DEF P!Upgrade, ProfilesInv, RowTypes
  <1>4. t \in P!TxStates
    BY <1>2, <1>3 DEF P!TxStates
  <1>5. t.at = "upgrading" /\ t.user = u /\ t.read = x
    BY <1>2
  <1>6. edit' = [edit EXCEPT ![r] = t]
    BY <1>1, <1>2 DEF P!Upgrade
  <1> QED
    BY <1>1, <1>3, <1>4, <1>5, <1>6, RequestMoves DEF P!Upgrade, RowsAreAsRead, Holding

LEMMA EditDeviceKeeps ==
    ASSUME ProfilesInv, NEW r \in Edits, NEW d \in Devices, NEW token \in P!Bearers,
           P!EditDevice(r, d, token)
    PROVE  ProfilesInv'
  <1>1. PICK t : t = [at |-> "editing", user |-> token.user, device |-> d]
    OBVIOUS
  <1>2. token.user \in Users
    BY DEF P!Bearers
  <1>3. t \in P!TxStates
    BY <1>1, <1>2 DEF P!TxStates
  <1>4. t.at = "editing"
    BY <1>1
  <1>5. edit' = [edit EXCEPT ![r] = t]
    BY <1>1 DEF P!EditDevice
  <1> QED
    BY <1>3, <1>4, <1>5, RequestMoves DEF P!EditDevice, RowsAreAsRead, Holding

\* A request that is done touches no profile: what the others rely on stays.
LEMMA RequestEnds ==
    ASSUME ProfilesInv, NEW r \in Edits, NEW t \in P!TxStates, edit' = [edit EXCEPT ![r] = t],
           t.at \in {"done", "failed"}, UNCHANGED <<profile, registered, faults>>, RowTypes',
           crossed \subseteq crossed',
           \A v \in Users : preference[v] => preference'[v],
           \A v \in Users : (subscription'[v] = P!NoSubscription) <=> (subscription[v] = P!NoSubscription),
           \A q \in Edits \ (crossed' \union {r}) : edit[q].at = "upgrading" =>
               subscription'[edit[q].user] = subscription[edit[q].user]
    PROVE  ProfilesInv'
  <1>1. r \in P!Actors /\ r # Consumer
    BY ConsumerIsActor
  <1>2. edit' \in [P!Actors -> P!TxStates]
    BY <1>1 DEF ProfilesInv
  <1>3. edit'[r] = t /\ \A b \in P!Actors : b # r => edit'[b] = edit[b]
    BY <1>1 DEF ProfilesInv
  <1>4. P!ProfileIsWhole' /\ P!RegisteredHasProfile'
    BY DEF ProfilesInv, P!ProfileIsWhole, P!RegisteredHasProfile
  <1>5. edit[Consumer].at # "upgrading"
    BY ConsumerPlaces
  <1>6. ASSUME NEW b \in P!Actors PROVE RowsAreAsRead(b, edit[b])'
    <2>1. PICK p : p = edit'[b]
      OBVIOUS
    <2>2. CASE b = r
      BY <1>3, <2>2 DEF RowsAreAsRead, Holding
    <2>3. CASE b # r
      <3>1. p = edit[b] /\ p \in P!TxStates /\ RowsAreAsRead(b, p)
        BY <1>3, <2>1, <2>3 DEF ProfilesInv
      <3>2. p.at = "upgrading" => b \in Edits /\ p.user \in Users
        BY <1>5, <3>1, TxFacts DEF P!Actors
      <3>3. RowsAreAsRead(b, p)'
        BY <2>3, <3>1, <3>2 DEF RowsAreAsRead, Holding
      <3> QED
        BY <2>1, <3>3
    <2> QED
      BY <2>2, <2>3
  <1>7. \A b, c \in P!Actors : b # c /\ Holding(edit[b])' /\ Holding(edit[c])' => edit'[b].user # edit'[c].user
    BY <1>3 DEF ProfilesInv, Holding
  <1>8. ConsumerKnows(edit[Consumer])'
    <2>1. PICK p : p = edit[Consumer]
      OBVIOUS
    <2>2. p = edit'[Consumer] /\ p \in P!TxStates /\ ConsumerKnows(p)
      BY <1>1, <1>3, <2>1, ConsumerIsActor DEF ProfilesInv
    <2>3. ConsumerKnows(p)'
      BY <2>2, TxFacts DEF ConsumerKnows
    <2> QED
      BY <2>2, <2>3
  <1> QED
    BY <1>2, <1>4, <1>6, <1>7, <1>8 DEF ProfilesInv

LEMMA CommitPreferencesKeeps ==
    ASSUME ProfilesInv, NEW r \in Edits, P!CommitPreferences(r)
    PROVE  ProfilesInv'
  <1>1. PICK q : q = edit[r]
    OBVIOUS
  <1>2. PICK t : t = [q EXCEPT !.at = "done"]
    OBVIOUS
  <1>3. q \in P!TxStates /\ q.at = "made" /\ edit' = [edit EXCEPT ![r] = t]
    BY <1>1, <1>2, ConsumerIsActor DEF P!CommitPreferences, P!At, P!Goes, ProfilesInv
  <1>4. t \in P!TxStates /\ t.at = "done"
    BY <1>2, <1>3 DEF P!TxStates, P!Idle
  <1>5. RowTypes' /\ \A v \in Users : preference[v] => preference'[v]
    BY DEF P!CommitPreferences, ProfilesInv, RowTypes
  <1> QED
    BY <1>3, <1>4, <1>5, RequestEnds DEF P!CommitPreferences

\* An upgrade writes the limits of its tier, or a mixture with what was there.
LEMMA WrittenIsRow ==
    ASSUME NEW x \in P!Subscriptions, NEW y \in P!Subscriptions, NEW z \in P!Subscriptions
    PROVE  /\ P!Written(x, y, z) \in P!Subscriptions
           /\ x = y => P!Written(x, y, z) = z
  <1>1. /\ DOMAIN x = {"is", "tier", "streams", "download", "fourK", "adFree"}
        /\ DOMAIN z = {"is", "tier", "streams", "download", "fourK", "adFree"}
    BY DEF P!Subscriptions
  <1>2. PICK w : w = P!Written(x, y, z)
    OBVIOUS
  <1>3. w = [c \in {"is", "tier", "streams", "download", "fourK", "adFree"} |->
                IF y[c] # z[c] THEN z[c] ELSE x[c]]
    BY <1>1, <1>2 DEF P!Written
  <1>4. w = [is |-> w.is, tier |-> w.tier, streams |-> w.streams, download |-> w.download,
             fourK |-> w.fourK, adFree |-> w.adFree]
    BY <1>3
  <1>5. /\ w.is = "row" /\ w.tier \in P!Tiers /\ w.streams \in {1, 2, 4}
        /\ w.download \in BOOLEAN /\ w.fourK \in BOOLEAN /\ w.adFree \in BOOLEAN
    BY <1>3 DEF P!Subscriptions
  <1>6. w \in P!Subscriptions
    BY <1>4, <1>5 DEF P!Subscriptions
  <1>7. x = y => w = z
    <2>1. z = [c \in {"is", "tier", "streams", "download", "fourK", "adFree"} |-> z[c]]
      BY <1>1 DEF P!Subscriptions
    <2> QED
      BY <1>3, <2>1
  <1> QED
    BY <1>2, <1>6, <1>7

LEMMA LimitsAreRow == \A tier \in P!Tiers : P!LimitsOf(tier) \in P!Subscriptions
  BY DEF P!LimitsOf, P!Subscriptions, P!Tiers

LEMMA CommitUpgradeFacts ==
    ASSUME ProfilesInv, NEW r \in Edits, P!CommitUpgrade(r)
    PROVE  \E u \in Users, x, y \in P!Subscriptions, tier \in P!Tiers :
               /\ u = edit[r].user /\ x = subscription[u] /\ tier = edit[r].tier
               /\ r \notin crossed => x = y
               /\ subscription' = [subscription EXCEPT ![u] = P!Written(x, y, P!LimitsOf(tier))]
  <1>1. PICK t : t = edit[r]
    OBVIOUS
  <1>2. t \in P!TxStates /\ t.at = "upgrading" /\ RowsAreAsRead(r, t)
    BY <1>1, ConsumerIsActor DEF P!CommitUpgrade, P!At, ProfilesInv
  <1>3. t.user \in Users /\ t.tier \in P!Tiers /\ t.read \in P!Subscriptions
    BY <1>2, TxFacts
  <1>4. PICK u : u = t.user
    OBVIOUS
  <1>5. subscription[u] \in P!Subscriptions /\ (r \notin crossed => subscription[u] = t.read)
    BY <1>2, <1>3, <1>4 DEF RowsAreAsRead, ProfilesInv, RowTypes
  <1>6. subscription' = [subscription EXCEPT ![u] = P!Written(subscription[u], t.read, P!LimitsOf(t.tier))]
    BY <1>1, <1>3, <1>4 DEF P!CommitUpgrade
  <1> QED
    BY <1>1, <1>3, <1>4, <1>5, <1>6

LEMMA CommitUpgradeKeeps ==
    ASSUME ProfilesInv, NEW r \in Edits, P!CommitUpgrade(r)
    PROVE  ProfilesInv'
  <1>1. PICK u \in Users : \E x, y \in P!Subscriptions, tier \in P!Tiers :
               /\ u = edit[r].user /\ x = subscription[u]
               /\ subscription' = [subscription EXCEPT ![u] = P!Written(x, y, P!LimitsOf(tier))]
    BY CommitUpgradeFacts
  <1>2. PICK z \in P!Subscriptions : subscription' = [subscription EXCEPT ![u] = z]
    BY <1>1, WrittenIsRow, LimitsAreRow
  <1>3. subscription[u] \in P!Subscriptions
    BY <1>1
  <1>4. PICK t : t = [at |-> "done", user |-> u]
    OBVIOUS
  <1>5. t \in P!TxStates /\ t.at = "done"
    BY <1>4 DEF P!TxStates
  <1>6. edit' = [edit EXCEPT ![r] = t]
    BY <1>1, <1>4 DEF P!CommitUpgrade
  <1>7. /\ UNCHANGED <<profile, preference, device, registered, faults>>
        /\ crossed' = crossed \union {q \in Edits \ {r} : edit[q].at = "upgrading" /\ edit[q].user = u}
    BY <1>1 DEF P!CommitUpgrade, P!At
  <1>8. RowTypes'
    BY <1>2, <1>7 DEF ProfilesInv, RowTypes
  <1>9. subscription'[u] = z /\ \A v \in Users : v # u => subscription'[v] = subscription[v]
    BY <1>2 DEF ProfilesInv, RowTypes
  <1>10. \A x \in P!Subscriptions : x # P!NoSubscription
    BY DEF P!Subscriptions, P!NoSubscription
  <1>11. \A v \in Users : (subscription'[v] = P!NoSubscription) <=> (subscription[v] = P!NoSubscription)
    BY <1>3, <1>9, <1>10
  <1>12. \A q \in Edits \ (crossed' \union {r}) : edit[q].at = "upgrading" =>
             subscription'[edit[q].user] = subscription[edit[q].user]
    <2> SUFFICES ASSUME NEW q \in Edits \ (crossed' \union {r}), edit[q].at = "upgrading"
                 PROVE  subscription'[edit[q].user] = subscription[edit[q].user]
      OBVIOUS
    <2>1. edit[q].user # u
      BY <1>7
    <2>2. edit[q] \in P!TxStates
      BY ConsumerIsActor DEF ProfilesInv
    <2>3. edit[q].user \in Users
      BY <2>2, TxFacts
    <2> QED
      BY <1>9, <2>1, <2>3
  <1> QED
    BY <1>5, <1>6, <1>7, <1>8, <1>11, <1>12, RequestEnds

LEMMA CommitDeviceKeeps ==
    ASSUME ProfilesInv, NEW r \in Edits, P!CommitDevice(r)
    PROVE  ProfilesInv'
  <1>1. PICK q : q = edit[r]
    OBVIOUS
  <1>2. PICK d : d = q.device
    OBVIOUS
  <1>3. PICK x : x = device[d]
    OBVIOUS
  <1>4. PICK t : t = [at |-> IF P!Updatable(d) THEN "done" ELSE "failed", user |-> q.user]
    OBVIOUS
  <1>5. q \in P!TxStates /\ q.at = "editing"
    BY <1>1, ConsumerIsActor DEF P!CommitDevice, P!At, ProfilesInv
  <1>6. d \in Devices /\ q.user \in Users
    BY <1>2, <1>5, TxFacts
  <1>7. t \in P!TxStates /\ t.at \in {"done", "failed"}
    BY <1>4, <1>6 DEF P!TxStates
  <1>8. edit' = [edit EXCEPT ![r] = t]
    BY <1>1, <1>2, <1>4 DEF P!CommitDevice
  <1>9. device' \in [Devices -> P!DeviceRows \union {P!NoDevice}]
    <2>1. CASE P!Updatable(d)
      <3>1. PICK y : y = [x EXCEPT !.is = "inactive"]
        OBVIOUS
      <3>2. x \in P!DeviceRows
        BY <1>3, <2>1 DEF P!Updatable, P!Present, ProfilesInv, RowTypes
      <3>3. y \in P!DeviceRows
        BY <3>1, <3>2 DEF P!DeviceRows
      <3>4. device' = [device EXCEPT ![d] = y]
        BY <1>1, <1>2, <1>3, <2>1, <3>1 DEF P!CommitDevice
      <3> QED
        BY <3>3, <3>4 DEF ProfilesInv, RowTypes
    <2>2. CASE ~P!Updatable(d)
      BY <1>1, <1>2, <2>2 DEF P!CommitDevice, ProfilesInv, RowTypes
    <2> QED
      BY <2>1, <2>2
  <1>10. UNCHANGED <<profile, preference, subscription, registered, faults, crossed>>
    BY DEF P!CommitDevice
  <1>11. RowTypes'
    BY <1>9, <1>10 DEF ProfilesInv, RowTypes
  <1> QED
    BY <1>7, <1>8, <1>10, <1>11, RequestEnds

LEMMA ProfilesStep == ProfilesInv /\ [P!Next]_profiles => ProfilesInv'
  <1> SUFFICES ASSUME ProfilesInv, [P!Next]_profiles PROVE ProfilesInv'
    OBVIOUS
  <1>1. ASSUME NEW token \in P!Bearers, NEW r \in Edits, P!CreateProfile(r, token) PROVE ProfilesInv'
    BY <1>1, CreateProfileKeeps
  <1>2. ASSUME NEW token \in P!Bearers, NEW r \in Edits, NEW u \in Users,
               P!AskPreferences(r, u, token)
        PROVE  ProfilesInv'
    BY <1>2, AskPreferencesKeeps
  <1>3. ASSUME NEW token \in P!Bearers, NEW r \in Edits, NEW u \in Users, NEW tier \in P!Tiers,
               P!Upgrade(r, u, tier, token)
        PROVE  ProfilesInv'
    BY <1>3, UpgradeKeeps
  <1>4. ASSUME NEW token \in P!Bearers, NEW r \in Edits, NEW d \in Devices, P!EditDevice(r, d, token)
        PROVE  ProfilesInv'
    BY <1>4, EditDeviceKeeps
  <1>5. ASSUME NEW token \in P!Bearers, NEW u \in Users, P!CompleteOnboarding(u, token)
        PROVE  ProfilesInv'
    BY <1>5, CompleteOnboardingKeeps
  <1>6. ASSUME NEW token \in P!Bearers, NEW d \in Devices,
               P!RegisterDevice(d, token) \/ P!RemoveDevice(d, token)
        PROVE  ProfilesInv'
    BY <1>6, DeviceKeeps
  <1>7. ASSUME NEW a \in P!Actors, P!InsertPreferences(a) \/ P!CommitProfile(a) \/ P!Fail(a)
        PROVE  ProfilesInv'
    BY <1>7, InsertPreferencesKeeps, CommitProfileKeeps, FailKeeps
  <1>8. ASSUME NEW r \in Edits,
               P!MakePreferences(r) \/ P!CommitPreferences(r) \/ P!CommitUpgrade(r) \/ P!CommitDevice(r)
        PROVE  ProfilesInv'
    BY <1>8, MakePreferencesKeeps, CommitPreferencesKeeps, CommitUpgradeKeeps, CommitDeviceKeeps
  <1>9. ASSUME NEW u \in Users, P!Register(u) \/ P!Provision(u) \/ P!Acknowledge(u)
        PROVE  ProfilesInv'
    BY <1>9, RegisterKeeps, ProvisionKeeps, AcknowledgeKeeps
  <1>10. CASE P!Restart
    BY <1>10, RestartKeeps
  <1>11. CASE UNCHANGED profiles
    <2>1. UNCHANGED <<profile, preference, subscription, device, registered, edit, faults, crossed>>
      BY <1>11 DEF profiles
    <2>2. RowTypes'
      BY <2>1 DEF ProfilesInv, RowTypes
    <2> QED
      BY <2>1, <2>2, RowsChange
  <1> QED
    BY <1>1, <1>2, <1>3, <1>4, <1>5, <1>6, <1>7, <1>8, <1>9, <1>10, <1>11 DEF P!Next

\* An upgrade writes what it has read, unless another has overtaken it.
LEMMA UpgradesSettle == ProfilesInv => P!UpgradeSettles
  <1> SUFFICES ASSUME ProfilesInv, NEW r \in Edits, P!CommitUpgrade(r), r \notin crossed
               PROVE  subscription'[edit[r].user] = P!LimitsOf(edit[r].tier)
    BY DEF P!UpgradeSettles
  <1>1. PICK u \in Users : \E x, y \in P!Subscriptions, tier \in P!Tiers :
               /\ u = edit[r].user /\ x = y /\ tier = edit[r].tier
               /\ subscription' = [subscription EXCEPT ![u] = P!Written(x, y, P!LimitsOf(tier))]
    BY CommitUpgradeFacts
  <1>2. subscription' = [subscription EXCEPT ![u] = P!LimitsOf(edit[r].tier)]
    BY <1>1, WrittenIsRow, LimitsAreRow
  <1> QED
    BY <1>1, <1>2 DEF ProfilesInv, RowTypes

\* Only an edit of a device that is there writes it.
LEMMA RemovedDevicesStay == ProfilesInv /\ [P!Next]_profiles => P!RemovedStays
  <1> SUFFICES ASSUME ProfilesInv, [P!Next]_profiles, NEW d \in Devices, device[d] # P!NoDevice,
                      d \notin P!Present
               PROVE  d \notin P!Present'
    BY DEF P!RemovedStays
  <1>1. device'[d] = device[d]
    <2>1. device \in [Devices -> P!DeviceRows \union {P!NoDevice}]
      BY DEF ProfilesInv, RowTypes
    <2>2. CASE UNCHANGED device
      BY <2>2
    <2>3. ASSUME NEW token \in P!Bearers, NEW e \in Devices,
                 P!RegisterDevice(e, token) \/ P!RemoveDevice(e, token)
          PROVE  device'[d] = device[d]
      <3>1. e # d
        BY <2>3 DEF P!RegisterDevice, P!RemoveDevice, P!Owned
      <3> QED
        BY <2>1, <2>3, <3>1 DEF P!RegisterDevice, P!RemoveDevice
    <2>4. ASSUME NEW r \in Edits, P!CommitDevice(r) PROVE device'[d] = device[d]
      BY <2>1, <2>4 DEF P!CommitDevice, P!Updatable
    <2> QED
      BY <2>2, <2>3, <2>4
         DEF P!Next, profiles, P!CreateProfile, P!AskPreferences, P!Upgrade, P!EditDevice,
             P!CompleteOnboarding, P!InsertPreferences, P!CommitProfile, P!Fail, P!MakePreferences,
             P!CommitPreferences, P!CommitUpgrade, P!Register, P!Provision, P!Acknowledge, P!Restart
  <1> QED
    BY <1>1 DEF P!Present

\* However requests and the consumer overlap, fail and start again, a profile is whole
\* and there once its registration is acknowledged, an upgrade that no other overtook
\* leaves the limits of its tier, and a removed device is not written again.
THEOREM ProfilesHold == SideSpec => ProfilesAreKept
  <1>1. SideInit => ProfilesInv
    BY InitProfiles DEF SideInit
  <1>2. [SideNext]_<<side, vars, others>> => [P!Next]_profiles
    BY DEF SideNext, others
  <1>3. ProfilesInv /\ [SideNext]_<<side, vars, others>> => ProfilesInv'
    BY <1>2, ProfilesStep
  <1>4. ProfilesInv /\ [SideNext]_<<side, vars, others>> =>
            [P!ProfileIsWhole' /\ P!RegisteredHasProfile' /\ P!UpgradeSettles /\ P!RemovedStays]_profiles
    <2> SUFFICES ASSUME ProfilesInv, [SideNext]_<<side, vars, others>>
                 PROVE  P!ProfileIsWhole' /\ P!RegisteredHasProfile' /\ P!UpgradeSettles /\ P!RemovedStays
      OBVIOUS
    <2>1. P!ProfileIsWhole' /\ P!RegisteredHasProfile'
      BY <1>3 DEF ProfilesInv
    <2> QED
      BY <1>2, <2>1, UpgradesSettle, RemovedDevicesStay
  <1> QED
    BY <1>1, <1>3, <1>4, PTL DEF SideSpec, ProfilesAreKept

-----------------------------------------------------------------------------
(* Notifications                                                             *)

Has(n, e) == row[n] # N!NoRow /\ row[n].event = e

\* Only an unknown channel fails, and it fails again.
FailsAgain(x) == \A c \in DOMAIN x.outcome : x.outcome[c] = "failed" => c = N!Unknown

\* What a request was told is told by the row of its event.
ToldTruly(s) ==
    s.at = "answered" /\ s.event # N!NoEvent /\ s.status # "skipped" =>
        \E n \in Requests : Has(n, s.event) /\ N!StatusOf(row[n].outcome) = s.status

\* A send whose insert is waited for is the only one of its event.
Inserts(s, e) == s.at = "created" /\ s.event = e /\ e # N!NoEvent

NotifyInv ==
    /\ row \in [Requests -> N!Rows \union {N!NoRow}]
    /\ send \in [Requests -> N!SendStates]
    /\ \A n \in Requests : row[n] # N!NoRow => send[n].at = "answered" /\ FailsAgain(row[n])
    /\ \A m, n \in Requests : \A e : Has(m, e) /\ Has(n, e) /\ e # N!NoEvent => m = n
    /\ \A r \in Requests : \A e : Inserts(send[r], e) =>
           /\ \A n \in Requests : ~Has(n, e)
           /\ \A q \in Requests : q # r => ~Inserts(send[q], e)
    /\ \A r \in Requests : ToldTruly(send[r])

LEMMA InitNotify == N!Init => NotifyInv
  BY DEF N!Init, NotifyInv, N!SendStates, N!Idle, Has, Inserts, ToldTruly

\* A step of r that leaves the rows alone.
LEMMA SendMoves ==
    ASSUME NotifyInv, NEW r \in Requests, row[r] = N!NoRow, NEW s \in N!SendStates,
           UNCHANGED row, send' = [send EXCEPT ![r] = s], ToldTruly(s),
           \A e : Inserts(s, e) =>
               /\ \A n \in Requests : ~Has(n, e)
               /\ \A q \in Requests : q # r => ~Inserts(send[q], e)
    PROVE  NotifyInv'
  <1>1. send'[r] = s /\ \A q \in Requests : q # r => send'[q] = send[q]
    BY DEF NotifyInv
  <1>2. send' \in [Requests -> N!SendStates]
    BY DEF NotifyInv
  <1>3. \A n, e : Has(n, e)' <=> Has(n, e)
    BY DEF Has
  <1>4. \A n \in Requests : row'[n] # N!NoRow => send'[n].at = "answered" /\ FailsAgain(row[n])'
    BY <1>1 DEF NotifyInv, FailsAgain
  <1>5. ASSUME NEW q \in Requests, NEW e, Inserts(send[q], e)'
        PROVE  /\ \A n \in Requests : ~Has(n, e)'
               /\ \A p \in Requests : p # q => ~Inserts(send[p], e)'
    <2>1. CASE q = r
      BY <1>1, <1>3, <1>5, <2>1 DEF Inserts
    <2>2. CASE q # r
      <3>1. Inserts(send[q], e)
        BY <1>1, <1>5, <2>2 DEF Inserts
      <3> QED
        BY <1>1, <1>3, <2>2, <3>1 DEF NotifyInv, Inserts
    <2> QED
      BY <2>1, <2>2
  <1>6. ASSUME NEW q \in Requests PROVE ToldTruly(send[q])'
    <2>1. PICK t : t = send'[q]
      OBVIOUS
    <2>2. ToldTruly(t)
      BY <1>1, <2>1 DEF NotifyInv
    <2> QED
      BY <1>3, <2>1, <2>2 DEF ToldTruly, Has
  <1> QED
    BY <1>2, <1>3, <1>4, <1>5, <1>6 DEF NotifyInv

\* A step on the rows that were sent already, which changes neither their events
\* nor what was told.
LEMMA RowsMove ==
    ASSUME NotifyInv, UNCHANGED send, NEW n \in Requests, row[n] # N!NoRow,
           NEW x, row' = [row EXCEPT ![n] = x], x \in N!Rows, x.event = row[n].event,
           x.outcome = row[n].outcome
    PROVE  NotifyInv'
  <1>1. row' \in [Requests -> N!Rows \union {N!NoRow}]
    BY DEF NotifyInv
  <1>2. row'[n] = x /\ \A m \in Requests : m # n => row'[m] = row[m]
    BY DEF NotifyInv
  <1>3. x # N!NoRow
    BY DEF N!Rows, N!NoRow
  <1>4. \A m \in Requests : \A e : Has(m, e)' <=> Has(m, e)
    BY <1>2, <1>3 DEF Has
  <1>5. \A m \in Requests : row'[m] # N!NoRow =>
           /\ row[m] # N!NoRow /\ row'[m].outcome = row[m].outcome /\ row'[m].event = row[m].event
    BY <1>2
  <1>6. \A m \in Requests : row'[m] # N!NoRow => send'[m].at = "answered" /\ FailsAgain(row[m])'
    BY <1>5 DEF NotifyInv, FailsAgain
  <1>7. ASSUME NEW r \in Requests PROVE ToldTruly(send[r])'
    <2>1. PICK t : t = send[r]
      OBVIOUS
    <2>2. ToldTruly(t)
      BY <2>1 DEF NotifyInv
    <2>3. \A m \in Requests : \A e : Has(m, e) => row'[m].outcome = row[m].outcome
      BY <1>2 DEF Has
    <2>4. ToldTruly(t)'
      BY <1>4, <2>2, <2>3 DEF ToldTruly
    <2> QED
      BY <2>1, <2>4
  <1> QED
    BY <1>1, <1>4, <1>6, <1>7 DEF NotifyInv, Inserts

LEMMA LookKeeps ==
    ASSUME NotifyInv, NEW r \in Requests, NEW u \in Addressees, NEW e \in Events \union {N!NoEvent},
           NEW asked \in Lists, N!Look(r, u, e, asked)
    PROVE  NotifyInv'
  <1>1. PICK s : s = [at |-> "looked", user |-> u, event |-> e, asked |-> asked,
                      enabled |-> {c \in asked : N!Allowed(u, c)},
                      inserted |-> wanted[u] = N!NoPreference]
    OBVIOUS
  <1>2. s \in N!SendStates
    <2>1. asked \subseteq N!Channels
      BY ListsAssumption DEF ListsAssumption, N!Channels, N!InApp, N!Push, N!Unknown
    <2>2. {c \in asked : N!Allowed(u, c)} \in SUBSET N!Channels
      BY <2>1
    <2> QED
      BY <1>1, <2>2 DEF N!SendStates
  <1>3. s.at = "looked"
    BY <1>1
  <1>4. send' = [send EXCEPT ![r] = s]
    <2>1. send' = [send EXCEPT ![r] =
             [at |-> "looked", user |-> u, event |-> e, asked |-> asked,
              enabled |-> {c \in asked : N!Allowed(u, c)},
              inserted |-> wanted[u] = N!NoPreference]]
      BY Zenon DEF N!Look
    <2> QED
      BY <1>1, <2>1, Zenon
  <1>5. UNCHANGED row /\ send[r].at = "idle"
    BY DEF N!Look, N!Under
  <1> QED
    BY <1>2, <1>3, <1>4, <1>5, SendMoves DEF NotifyInv, ToldTruly, Inserts

LEMMA AnswerIsState ==
    ASSUME NotifyInv, NEW r \in Requests, send[r].at \in {"looked", "creating", "created"}
    PROVE  /\ send[r] \in [at : {"looked", "creating", "created"}, user : Addressees,
                           event : Events \union {N!NoEvent}, asked : Lists,
                           enabled : SUBSET N!Channels, inserted : BOOLEAN]
           /\ row[r] = N!NoRow
  BY DEF NotifyInv, N!SendStates, N!Idle

\* A request that answers without a row of its own.
LEMMA AnswerKeeps ==
    ASSUME NotifyInv, NEW r \in Requests, send[r].at \in {"looked", "creating", "created"},
           NEW status \in {"sent", "partial", "failed", "skipped"}, N!Answer(r, status),
           UNCHANGED row,
           status = "skipped" \/
               \E n \in Requests : Has(n, send[r].event) /\ N!StatusOf(row[n].outcome) = status
    PROVE  NotifyInv'
  <1>1. PICK e : e = send[r].event
    OBVIOUS
  <1>2. PICK s : s = [at |-> "answered", event |-> e, status |-> status]
    OBVIOUS
  <1>3. s \in N!SendStates
    BY <1>1, <1>2, AnswerIsState DEF N!SendStates
  <1>4. s.at = "answered" /\ s.event = e /\ s.status = status
    BY <1>2
  <1>5. send' = [send EXCEPT ![r] = s]
    BY <1>1, <1>2 DEF N!Answer
  <1> QED
    BY <1>1, <1>3, <1>4, <1>5, AnswerIsState, SendMoves DEF ToldTruly, Inserts

LEMMA StatusType == \A outcome : N!StatusOf(outcome) \in {"sent", "partial", "failed", "skipped"}
  BY DEF N!StatusOf

LEMMA FindExistingKeeps ==
    ASSUME NotifyInv, NEW r \in Requests, N!FindExisting(r) \/ N!CreateConflicts(r)
    PROVE  NotifyInv'
  <1>1. PICK n \in Requests : /\ n \in N!RowsOf(send[r].event)
                              /\ N!Answer(r, N!StatusOf(row[n].outcome))
    BY DEF N!FindExisting, N!CreateConflicts, N!FoundOnInsert, N!RowsOf, N!Stored
  <1>2. Has(n, send[r].event) /\ UNCHANGED row /\ send[r].at \in {"looked", "creating"}
    BY <1>1 DEF Has, N!RowsOf, N!Stored, N!FindExisting, N!CreateConflicts, N!Under
  <1> QED
    BY <1>1, <1>2, StatusType, AnswerKeeps

LEMMA SkipKeeps == ASSUME NotifyInv, NEW r \in Requests, N!Skip(r) PROVE NotifyInv'
  BY AnswerKeeps DEF N!Skip, N!Under

LEMMA CreateKeeps ==
    ASSUME NotifyInv, NEW r \in Requests, N!FindNone(r) \/ N!Create(r)
    PROVE  NotifyInv'
  <1>1. PICK t : t = send[r]
    OBVIOUS
  <1>2. PICK s : s = [t EXCEPT !.at = IF N!FindNone(r) THEN "creating" ELSE "created"]
    OBVIOUS
  <1>3. t.at \in {"looked", "creating"} /\ UNCHANGED row
    BY <1>1 DEF N!FindNone, N!Create, N!Under
  <1>4. /\ s \in N!SendStates /\ s.event = t.event /\ row[r] = N!NoRow
        /\ s.at = IF N!FindNone(r) THEN "creating" ELSE "created"
    BY <1>1, <1>2, <1>3, AnswerIsState DEF N!SendStates
  <1>5. send' = [send EXCEPT ![r] = s]
    <2>1. CASE N!FindNone(r)
      BY <1>1, <1>2, <2>1 DEF N!FindNone
    <2>2. CASE ~N!FindNone(r)
      BY <1>1, <1>2, <2>2 DEF N!Create
    <2> QED
      BY <2>1, <2>2
  <1>6. ASSUME NEW e, Inserts(s, e)
        PROVE  /\ \A n \in Requests : ~Has(n, e)
               /\ \A q \in Requests : q # r => ~Inserts(send[q], e)
    <2>1. N!Create(r) /\ e = t.event /\ e # N!NoEvent
      BY <1>4, <1>6 DEF Inserts
    <2>2. N!EventIsFree(e) /\ N!RowsOf(e) = {}
      BY <1>1, <2>1 DEF N!Create, N!FoundOnInsert
    <2> QED
      BY <2>1, <2>2 DEF N!EventIsFree, N!RowsOf, N!Stored, Has, Inserts, N!Under
  <1>7. ToldTruly(s)
    BY <1>4 DEF ToldTruly
  <1> QED
    BY <1>4, <1>5, <1>3, <1>6, <1>7, SendMoves

\* A dispatch fails the channels it does not know, and no others.
LEMMA DispatchFailsAgain ==
    ASSUME NEW asked \in Lists, NEW enabled, NEW x, x.outcome = N!Dispatched(asked, enabled)
    PROVE  x.outcome \in [asked -> N!Outcomes] /\ FailsAgain(x)
  BY ListsAssumption
     DEF ListsAssumption, N!Dispatched, N!Delivered, N!Outcomes, FailsAgain, N!InApp, N!Push, N!Unknown

\* So a retry tells again what was told.
LEMMA AgainIsSame ==
    ASSUME NEW x \in N!Rows, FailsAgain(x), NEW u
    PROVE  N!Again(u, x.outcome) = x.outcome
  <1>1. PICK asked \in Lists : x.outcome \in [asked -> N!Outcomes]
    BY DEF N!Rows
  <1>2. ASSUME NEW c \in DOMAIN x.outcome, x.outcome[c] = "failed"
        PROVE  x.outcome[c] = (IF N!Allowed(u, c) THEN N!Delivered(c) ELSE "skipped")
    <2>1. c = N!Unknown
      BY <1>2 DEF FailsAgain
    <2> QED
      BY <1>2, <2>1 DEF N!Allowed, N!Delivered, N!InApp, N!Push, N!Unknown
  <1> QED
    BY <1>1, <1>2 DEF N!Again

LEMMA CommitSendKeeps ==
    ASSUME NotifyInv, NEW r \in Requests, N!CommitSend(r)
    PROVE  NotifyInv'
  <1>1. PICK t : t = send[r]
    OBVIOUS
  <1>2. PICK e : e = t.event
    OBVIOUS
  <1>3. PICK outcome : outcome = N!Dispatched(t.asked, t.enabled)
    OBVIOUS
  <1>4. PICK x : x = [is |-> "kept", user |-> t.user, event |-> e, read |-> FALSE,
                      outcome |-> outcome]
    OBVIOUS
  <1>5. PICK s : s = [at |-> "answered", event |-> e, status |-> N!StatusOf(outcome)]
    OBVIOUS
  <1>6. /\ t.at = "created" /\ t.user \in Addressees /\ e \in Events \union {N!NoEvent}
        /\ t.asked \in Lists /\ row[r] = N!NoRow
    BY <1>1, <1>2, AnswerIsState DEF N!CommitSend, N!Under
  <1>7. row' = [row EXCEPT ![r] = x]
    BY <1>1, <1>2, <1>3, <1>4, Zenon DEF N!CommitSend
  <1>8. send' = [send EXCEPT ![r] = s]
    BY <1>1, <1>2, <1>3, <1>5, Zenon DEF N!CommitSend, N!Answer
  <1>9. outcome \in [t.asked -> N!Outcomes] /\ FailsAgain(x)
    BY <1>3, <1>4, <1>6, DispatchFailsAgain
  <1>10. x \in N!Rows /\ x # N!NoRow /\ x.event = e /\ x.outcome = outcome
    BY <1>4, <1>6, <1>9 DEF N!Rows, N!NoRow
  <1>11. s \in N!SendStates /\ s.at = "answered" /\ s.event = e /\ s.status = N!StatusOf(outcome)
    BY <1>5, <1>6, StatusType DEF N!SendStates
  <1>12. /\ row' \in [Requests -> N!Rows \union {N!NoRow}] /\ send' \in [Requests -> N!SendStates]
         /\ row'[r] = x /\ \A q \in Requests : q # r => row'[q] = row[q] /\ send'[q] = send[q]
         /\ send'[r] = s
    BY <1>7, <1>8, <1>10, <1>11 DEF NotifyInv
  <1>13. /\ \A n \in Requests : \A f : Has(n, f)' <=> Has(n, f) \/ (n = r /\ f = e)
         /\ \A f : ~Has(r, f)
    BY <1>6, <1>10, <1>12 DEF Has
  <1>14. \A f : Inserts(t, f) => /\ \A n \in Requests : ~Has(n, f)
                                 /\ \A q \in Requests : q # r => ~Inserts(send[q], f)
    BY <1>1 DEF NotifyInv
  <1>15. e # N!NoEvent => Inserts(t, e)
    BY <1>2, <1>6 DEF Inserts
  <1>16. \A n \in Requests : row'[n] # N!NoRow => send'[n].at = "answered" /\ FailsAgain(row[n])'
    BY <1>9, <1>11, <1>12 DEF NotifyInv, FailsAgain
  <1>17. \A m, n \in Requests : \A f : Has(m, f)' /\ Has(n, f)' /\ f # N!NoEvent => m = n
    BY <1>13, <1>14, <1>15 DEF NotifyInv
  <1>18. \A q \in Requests : \A f : Inserts(send[q], f)' => Inserts(send[q], f) /\ q # r
    BY <1>11, <1>12 DEF Inserts
  <1>19. ASSUME NEW q \in Requests, NEW f, Inserts(send[q], f)'
         PROVE  /\ \A n \in Requests : ~Has(n, f)'
                /\ \A p \in Requests : p # q => ~Inserts(send[p], f)'
    <2>1. Inserts(send[q], f) /\ q # r
      BY <1>18, <1>19
    <2>2. /\ \A n \in Requests : ~Has(n, f)
          /\ \A p \in Requests : p # q => ~Inserts(send[p], f)
      BY <2>1 DEF NotifyInv
    <2>3. f # e
      BY <1>14, <1>15, <2>1 DEF Inserts
    <2> QED
      BY <1>13, <1>18, <2>2, <2>3
  <1>20. ASSUME NEW q \in Requests PROVE ToldTruly(send[q])'
    <2>1. CASE q = r
      <3>1. ToldTruly(s)'
        BY <1>10, <1>11, <1>12, <1>13 DEF ToldTruly
      <3> QED
        BY <1>12, <2>1, <3>1 DEF ToldTruly
    <2>2. CASE q # r
      <3>1. PICK p : p = send[q]
        OBVIOUS
      <3>2. ToldTruly(p)
        BY <3>1 DEF NotifyInv
      <3>3. ToldTruly(p)'
        BY <1>12, <1>13, <3>2 DEF ToldTruly
      <3> QED
        BY <1>12, <2>2, <3>1, <3>3
    <2> QED
      BY <2>1, <2>2
  <1> QED
    BY <1>12, <1>16, <1>17, <1>19, <1>20 DEF NotifyInv

LEMMA LoseKeeps ==
    ASSUME NotifyInv, NEW r \in Requests, N!Lose(r)
    PROVE  NotifyInv'
  <1>1. PICK s : s = [at |-> "lost"]
    OBVIOUS
  <1>2. s \in N!SendStates /\ s.at = "lost"
    BY <1>1 DEF N!SendStates
  <1>3. send' = [send EXCEPT ![r] = s] /\ UNCHANGED row /\ row[r] = N!NoRow
    BY <1>1, AnswerIsState DEF N!Lose, N!Under
  <1> QED
    BY <1>2, <1>3, SendMoves DEF ToldTruly, Inserts

LEMMA RowKeeps ==
    ASSUME NotifyInv, NEW n \in Requests, NEW u \in Addressees,
           N!Retry(n, u) \/ N!MarkAsRead(n, u) \/ N!SoftDelete(n, u)
    PROVE  NotifyInv'
  <1>1. PICK x : x = row[n]
    OBVIOUS
  <1>2. x \in N!Rows /\ x # N!NoRow /\ FailsAgain(x) /\ UNCHANGED send
    BY <1>1 DEF NotifyInv, N!Retry, N!MarkAsRead, N!SoftDelete, N!Stored
  <1>3. CASE N!Retry(n, u)
    <2>1. PICK y : y = [x EXCEPT !.outcome = N!Again(u, x.outcome)]
      OBVIOUS
    <2>2. row' = [row EXCEPT ![n] = y]
      BY <1>1, <1>3, <2>1 DEF N!Retry, NotifyInv
    <2>3. y = x
      BY <1>2, <2>1, AgainIsSame DEF N!Rows
    <2> QED
      BY <1>1, <1>2, <2>2, <2>3, RowsMove
  <1>4. CASE N!MarkAsRead(n, u)
    <2>1. PICK y : y = [x EXCEPT !.read = TRUE]
      OBVIOUS
    <2>2. row' = [row EXCEPT ![n] = y]
      BY <1>1, <1>4, <2>1 DEF N!MarkAsRead, NotifyInv
    <2>3. y \in N!Rows /\ y.event = x.event /\ y.outcome = x.outcome
      BY <1>2, <2>1 DEF N!Rows
    <2> QED
      BY <1>1, <1>2, <2>2, <2>3, RowsMove
  <1>5. CASE N!SoftDelete(n, u)
    <2>1. PICK y : y = [x EXCEPT !.is = "deleted"]
      OBVIOUS
    <2>2. row' = [row EXCEPT ![n] = y]
      BY <1>1, <1>5, <2>1 DEF N!SoftDelete, NotifyInv
    <2>3. y \in N!Rows /\ y.event = x.event /\ y.outcome = x.outcome
      BY <1>2, <2>1 DEF N!Rows
    <2> QED
      BY <1>1, <1>2, <2>2, <2>3, RowsMove
  <1> QED
    BY <1>3, <1>4, <1>5

LEMMA NotifyStep == NotifyInv /\ [N!Next]_notifications => NotifyInv'
  <1> SUFFICES ASSUME NotifyInv, [N!Next]_notifications PROVE NotifyInv'
    OBVIOUS
  <1>1. ASSUME NEW r \in Requests, NEW u \in Addressees, NEW e \in Events \union {N!NoEvent},
               NEW asked \in Lists, N!Look(r, u, e, asked)
        PROVE  NotifyInv'
    BY <1>1, LookKeeps
  <1>2. ASSUME NEW r \in Requests,
               N!FindExisting(r) \/ N!Skip(r) \/ N!FindNone(r) \/ N!Create(r)
               \/ N!CreateConflicts(r) \/ N!CommitSend(r) \/ N!Lose(r)
        PROVE  NotifyInv'
    BY <1>2, FindExistingKeeps, SkipKeeps, CreateKeeps, CommitSendKeeps, LoseKeeps
  <1>3. ASSUME NEW n \in Requests, NEW u \in Addressees,
               N!Retry(n, u) \/ N!MarkAsRead(n, u) \/ N!SoftDelete(n, u)
        PROVE  NotifyInv'
    BY <1>3, RowKeeps
  <1>4. CASE UNCHANGED <<row, send>>
    BY <1>4 DEF NotifyInv, Has, FailsAgain, ToldTruly, Inserts
  <1> QED
    BY <1>1, <1>2, <1>3, <1>4 DEF N!Next, N!UpdatePreference, notifications

LEMMA SameCardinality == ASSUME NEW S PROVE N!Cardinality(S) = Cardinality(S)
  BY DEF Cardinality, N!Cardinality

LEMMA NotifiedOnceHolds == NotifyInv => NotifiedOnce
  <1> SUFFICES ASSUME NotifyInv PROVE N!NotifiedOnce
    BY DEF NotifiedOnce
  <1>1. ASSUME NEW e \in Events PROVE Cardinality(N!RowsOf(e)) <= 1
    <2>1. \A m, n \in N!RowsOf(e) : m = n
      BY DEF NotifyInv, N!RowsOf, N!Stored, Has
    <2>2. CASE N!RowsOf(e) = {}
      BY <2>2, FS_EmptySet
    <2>3. CASE N!RowsOf(e) # {}
      <3>1. PICK n : N!RowsOf(e) = {n}
        BY <2>1, <2>3
      <3>2. Cardinality({n}) = 1
        BY FS_Singleton
      <3> QED
        BY <3>1, <3>2
    <2> QED
      BY <2>2, <2>3
  <1>2. ASSUME NEW r \in Requests, N!Under(r, {"answered"}), send[r].event # N!NoEvent,
               send[r].status # "skipped"
        PROVE  \E n \in N!RowsOf(send[r].event) : N!StatusOf(row[n].outcome) = send[r].status
    BY <1>2 DEF NotifyInv, ToldTruly, N!RowsOf, N!Stored, Has, N!Under
  <1> QED
    BY <1>1, <1>2, SameCardinality, Zenon DEF N!NotifiedOnce

\* However the sends of an event overlap, fail and are retried, the event has one row
\* and every request was told what that row says.
THEOREM NotifiedHolds == SideSpec => []NotifiedOnce
  <1>1. SideInit => NotifyInv
    BY InitNotify DEF SideInit
  <1>2. NotifyInv /\ [SideNext]_<<side, vars, others>> => NotifyInv'
    BY NotifyStep DEF SideNext, others, notifications
  <1>3. NotifyInv => NotifiedOnce
    BY NotifiedOnceHolds
  <1> QED
    BY <1>1, <1>2, <1>3, PTL DEF SideSpec

=============================================================================
