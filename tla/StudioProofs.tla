---------------------------- MODULE StudioProofs ----------------------------
(***************************************************************************)
(* What holds of the outbox, of the upload sessions, of the jobs of the    *)
(* media pipeline and of the accounts of creators, for every number of     *)
(* them, of their requests and workers, and every pattern of crashes,      *)
(* failing calls and lost transactions.                                    *)
(*                                                                         *)
(* The status of an outbox row is written by the commit of a drain, from   *)
(* what the drain marked, from what it sent: the invariant follows a       *)
(* publish along that path.  Each other part says first what its requests  *)
(* know of the rows, and then what a step does to both.                    *)
(***************************************************************************)
EXTENDS MCStudio, Sums

\* A drain marks what it has sent, and has sent only what the broker took.
SentWasPublished ==
    \A w \in Workers : \A r \in drain[w].sent \union drain[w].marked : Published(r)

Inv == TypeOK /\ SentWasPublished /\ DispatchedWasPublished

\* A drain that starts, or has ended, has sent and marked nothing.
LEMMA ClosedFacts ==
    /\ Closed \in Drains
    /\ Closed.sent = {} /\ Closed.marked = {}
    /\ \A S \in SUBSET Rows :
          LET d == [Closed EXCEPT !.todo = S, !.open = TRUE]
          IN  d \in Drains /\ d.sent = {} /\ d.marked = {}
  BY DEF Closed, Drains

\* Giving a worker another drain keeps the types and, if the broker took what that
\* drain has sent and marked, the invariant about drains.
LEMMA DrainStep ==
    ASSUME Inv, NEW w \in Workers, NEW d \in Drains,
           drain' = [drain EXCEPT ![w] = d],
           \A r \in Rows : Published(r) => Published(r)',
           \A r \in d.sent \union d.marked : Published(r)'
    PROVE  drain' \in [Workers -> Drains] /\ SentWasPublished'
<1>1. drain' \in [Workers -> Drains]
  BY DEF Inv, TypeOK
<1>2. SUFFICES ASSUME NEW v \in Workers,
                      NEW r \in drain'[v].sent \union drain'[v].marked
               PROVE  Published(r)'
  BY <1>1 DEF SentWasPublished
<1>3. CASE v = w
  BY <1>2, <1>3 DEF Inv, TypeOK
<1>4. CASE v # w
  <2>1. drain'[v] = drain[v] /\ drain[v] \in Drains
    BY <1>4 DEF Inv, TypeOK
  <2>2. r \in Rows /\ Published(r)
    BY <2>1, <1>2 DEF Drains, Inv, SentWasPublished
  <2> QED BY <2>2
<1> QED BY <1>3, <1>4

LEMMA InitInv == Init => Inv
<1> SUFFICES ASSUME Init PROVE Inv
  OBVIOUS
<1>1. TypeOK
  <2>1. row \in [Rows -> RowStatuses] /\ copies \in [Rows -> Nat]
    BY DEF Init, RowStatuses
  <2>2. Closed \in Drains
    BY ClosedFacts
  <2>3. drain \in [Workers -> Drains]
    BY <2>2 DEF Init
  <2>4. faults \in 0 .. MaxFaults
    BY OutboxAssumption DEF Init, OutboxAssumption
  <2> QED BY <2>1, <2>3, <2>4 DEF TypeOK
<1>2. SentWasPublished
  BY ClosedFacts DEF Init, SentWasPublished
<1>3. DispatchedWasPublished
  BY DEF Init, DispatchedWasPublished
<1> QED BY <1>1, <1>2, <1>3 DEF Inv

\* A new row is pending, and disturbs no drain.
LEMMA EnqueueInv == ASSUME Inv, NEW r \in Rows, Enqueue(r) PROVE Inv'
<1>1. TypeOK'
  BY DEF Inv, TypeOK, Enqueue, RowStatuses
<1>2. SentWasPublished'
  BY DEF Inv, SentWasPublished, Enqueue, Published
<1>3. DispatchedWasPublished'
  BY DEF Inv, TypeOK, DispatchedWasPublished, Enqueue, Published
<1> QED BY <1>1, <1>2, <1>3 DEF Inv

LEMMA OpenInv == ASSUME Inv, NEW w \in Workers, Open(w) PROVE Inv'
<1>1. Batch \in SUBSET Rows
  BY DEF Batch, Pending
<1> DEFINE d == [Closed EXCEPT !.todo = Batch, !.open = TRUE]
<1>2. d \in Drains /\ d.sent = {} /\ d.marked = {}
  BY <1>1, ClosedFacts
<1>3. drain' = [drain EXCEPT ![w] = d] /\ UNCHANGED <<row, copies, faults>>
  BY DEF Open
<1> HIDE DEF d
<1>4. drain' \in [Workers -> Drains] /\ SentWasPublished'
  BY <1>2, <1>3, DrainStep DEF Published
<1> QED BY <1>3, <1>4 DEF Inv, TypeOK, DispatchedWasPublished, Published

\* The only step that sends: what it sends, the broker has taken.
LEMMA PublishInv ==
    ASSUME Inv, NEW w \in Workers, NEW r \in Rows, Publish(w, r) PROVE Inv'
<1> DEFINE d == [drain[w] EXCEPT !.todo = @ \ {r}, !.sent = {r}]
<1>1. drain[w] \in Drains
  BY DEF Inv, TypeOK
<1>2. d \in Drains /\ d.sent = {r} /\ d.marked = drain[w].marked
  BY <1>1 DEF Drains
<1>3. drain' = [drain EXCEPT ![w] = d] /\ UNCHANGED <<row, faults>>
  BY DEF Publish
<1> HIDE DEF d
<1>4. /\ copies' \in [Rows -> Nat]
      /\ \A q \in Rows : Published(q) => Published(q)'
      /\ Published(r)'
  BY DEF Publish, Inv, TypeOK, Published
<1>5. \A q \in drain[w].marked : q \in Rows /\ Published(q)
  BY <1>1 DEF Drains, Inv, SentWasPublished
<1>6. drain' \in [Workers -> Drains] /\ SentWasPublished'
  <2>1. \A q \in d.sent \union d.marked : Published(q)'
    BY <1>2, <1>4, <1>5
  <2> QED BY <1>2, <1>3, <1>4, <2>1, DrainStep
<1>7. DispatchedWasPublished'
  BY <1>3, <1>4 DEF Inv, DispatchedWasPublished
<1> QED BY <1>3, <1>4, <1>6, <1>7 DEF Inv, TypeOK

\* A publish that raised leaves the row out of what was sent.
LEMMA PublishFailsInv ==
    ASSUME Inv, NEW w \in Workers, NEW r \in Rows, PublishFails(w, r) PROVE Inv'
<1> DEFINE d == Skipped(drain[w], r)
<1>1. drain[w] \in Drains
  BY DEF Inv, TypeOK
<1>2. d \in Drains /\ d.sent = drain[w].sent /\ d.marked = drain[w].marked
  BY <1>1 DEF Drains, Skipped
<1>3. drain' = [drain EXCEPT ![w] = d] /\ UNCHANGED <<row, copies>>
  BY DEF PublishFails
<1> HIDE DEF d
<1>4. \A q \in drain[w].sent \union drain[w].marked : Published(q)
  BY DEF Inv, SentWasPublished
<1>5. drain' \in [Workers -> Drains] /\ SentWasPublished'
  BY <1>2, <1>3, <1>4, DrainStep DEF Published
<1>6. faults' \in 0 .. MaxFaults
  BY OutboxAssumption DEF PublishFails, Inv, TypeOK
<1> QED BY <1>3, <1>5, <1>6 DEF Inv, TypeOK, DispatchedWasPublished, Published

\* Marking moves what was sent to what is marked.
LEMMA MarkInv == ASSUME Inv, NEW w \in Workers, Mark(w) PROVE Inv'
<1> DEFINE d == Marked(drain[w])
<1>1. drain[w] \in Drains
  BY DEF Inv, TypeOK
<1>2. d \in Drains /\ d.sent = {} /\ d.marked = drain[w].marked \union drain[w].sent
  BY <1>1 DEF Drains, Marked
<1>3. drain' = [drain EXCEPT ![w] = d] /\ UNCHANGED <<row, copies, faults>>
  BY DEF Mark
<1> HIDE DEF d
<1>4. \A q \in drain[w].sent \union drain[w].marked : Published(q)
  BY DEF Inv, SentWasPublished
<1>5. drain' \in [Workers -> Drains] /\ SentWasPublished'
  BY <1>2, <1>3, <1>4, DrainStep DEF Published
<1> QED BY <1>3, <1>5 DEF Inv, TypeOK, DispatchedWasPublished, Published

\* The rows that become DISPATCHED are the marked ones.
LEMMA CommitInv == ASSUME Inv, NEW w \in Workers, Commit(w) PROVE Inv'
<1>1. drain' = [drain EXCEPT ![w] = Closed] /\ UNCHANGED <<copies, faults>>
  BY DEF Commit
<1>2. drain' \in [Workers -> Drains] /\ SentWasPublished'
  BY <1>1, ClosedFacts, DrainStep DEF Published
<1>3. row' = [r \in Rows |-> IF r \in drain[w].marked THEN "dispatched" ELSE row[r]]
  BY DEF Commit
<1>4. row' \in [Rows -> RowStatuses]
  BY <1>3 DEF Inv, TypeOK, RowStatuses
<1>5. \A q \in drain[w].marked : Published(q)
  BY DEF Inv, SentWasPublished
<1>6. DispatchedWasPublished'
  BY <1>1, <1>3, <1>5 DEF Inv, DispatchedWasPublished, Published
<1> QED BY <1>1, <1>2, <1>4, <1>6 DEF Inv, TypeOK

LEMMA DieInv == ASSUME Inv, NEW w \in Workers, Die(w) PROVE Inv'
<1>1. drain' = [drain EXCEPT ![w] = Closed] /\ UNCHANGED <<row, copies>>
  BY DEF Die
<1>2. drain' \in [Workers -> Drains] /\ SentWasPublished'
  BY <1>1, ClosedFacts, DrainStep DEF Published
<1>3. faults' \in 0 .. MaxFaults
  BY OutboxAssumption DEF Die, Inv, TypeOK
<1> QED BY <1>1, <1>2, <1>3 DEF Inv, TypeOK, DispatchedWasPublished, Published

LEMMA StutterInv == Inv /\ UNCHANGED vars => Inv'
  BY DEF vars, Inv, TypeOK, SentWasPublished, DispatchedWasPublished, Published

LEMMA NextInv == Inv /\ [Next]_vars => Inv'
<1> SUFFICES ASSUME Inv, [Next]_vars PROVE Inv'
  OBVIOUS
<1>1. ASSUME NEW r \in Rows, Enqueue(r) PROVE Inv'
  BY <1>1, EnqueueInv
<1>2. ASSUME NEW w \in Workers, Drain(w) PROVE Inv'
  BY <1>2, OpenInv, PublishInv, MarkInv, CommitInv DEF Drain
<1>3. ASSUME NEW w \in Workers, Die(w) PROVE Inv'
  BY <1>3, DieInv
<1>4. ASSUME NEW w \in Workers, NEW r \in Rows, PublishFails(w, r) PROVE Inv'
  BY <1>4, PublishFailsInv
<1>5. CASE UNCHANGED vars
  BY <1>5, StutterInv
<1> QED BY <1>1, <1>2, <1>3, <1>4, <1>5 DEF Next


\* The variables of the outbox keep their types.
THEOREM TypeCorrect == Spec => []TypeOK
<1>1. Inv => TypeOK
  BY DEF Inv
<1> QED BY <1>1, InitInv, NextInv, PTL DEF Spec

\* "a broker outage never loses an event" (OutboxEvent): whatever fails and
\* however many workers drain the same rows, a row that is marked DISPATCHED,
\* and so never looked at again, has been taken by the broker.
THEOREM NothingIsLost == Spec => []DispatchedWasPublished
<1>1. Inv => DispatchedWasPublished
  BY DEF Inv
<1> QED BY <1>1, InitInv, NextInv, PTL DEF Spec

-----------------------------------------------------------------------------
(* The copies of a row.  As long as the row may be read again, every copy    *)
(* is accounted for by a fault or by a drain that has published the row and  *)
(* not ended.  Once it is dispatched, the only copies to come are those of    *)
(* the drains that read it before and have not reached it.                   *)

Used(r) == {w \in Workers : r \in drain[w].sent \union drain[w].marked}
Due(r) == {w \in Workers : r \in drain[w].todo}

\* A drain does not publish a row again.
TriedOnce == \A w \in Workers : drain[w].todo \intersect (drain[w].sent \union drain[w].marked) = {}

Accounted(r) ==
    IF row[r] = "dispatched"
    THEN copies[r] + Cardinality(Due(r)) <= Cardinality(Workers) + faults
    ELSE copies[r] <= Cardinality(Used(r)) + faults

CopyInv == TypeOK /\ TriedOnce /\ \A r \in Rows : Accounted(r)

\* Sets of workers are counted by natural numbers.
LEMMA WorkerSets ==
    ASSUME NEW S \in SUBSET Workers
    PROVE  /\ Cardinality(S) \in Nat
           /\ Cardinality(S) <= Cardinality(Workers)
           /\ Cardinality(Workers) \in Nat
           /\ \A w \in Workers :
                 /\ Cardinality(S \union {w}) =
                       IF w \in S THEN Cardinality(S) ELSE Cardinality(S) + 1
                 /\ Cardinality(S \ {w}) =
                       IF w \in S THEN Cardinality(S) - 1 ELSE Cardinality(S)
<1>1. IsFiniteSet(Workers)
  BY OutboxAssumption DEF OutboxAssumption
<1>2. IsFiniteSet(S) /\ Cardinality(S) <= Cardinality(Workers)
  BY <1>1, FS_Subset
<1>3. Cardinality(S) \in Nat /\ Cardinality(Workers) \in Nat
  BY <1>1, <1>2, FS_CardinalityType
<1>4. ASSUME NEW w \in Workers
      PROVE  /\ Cardinality(S \union {w}) =
                   IF w \in S THEN Cardinality(S) ELSE Cardinality(S) + 1
             /\ Cardinality(S \ {w}) =
                   IF w \in S THEN Cardinality(S) - 1 ELSE Cardinality(S)
  BY <1>2, FS_AddElement, FS_RemoveElement
<1> QED BY <1>2, <1>3, <1>4

\* Two sets of workers without a common one.
LEMMA DisjointWorkers ==
    ASSUME NEW S \in SUBSET Workers, NEW T \in SUBSET Workers, S \intersect T = {}
    PROVE  Cardinality(S) + Cardinality(T) <= Cardinality(Workers)
<1>1. IsFiniteSet(S) /\ IsFiniteSet(T)
  BY OutboxAssumption, FS_Subset DEF OutboxAssumption
<1>2. Cardinality(S \union T) = Cardinality(S) + Cardinality(T) - Cardinality(S \intersect T)
  BY <1>1, FS_Union
<1>3. Cardinality(S \intersect T) = 0
  BY FS_EmptySet
<1>4. Cardinality(S \union T) <= Cardinality(Workers)
  BY WorkerSets
<1> QED BY <1>2, <1>3, <1>4, WorkerSets

\* What a worker's new drain does to the sets of each row.
LEMMA SetsStep ==
    ASSUME TypeOK, NEW w \in Workers, NEW d \in Drains,
           drain' = [drain EXCEPT ![w] = d],
           NEW r \in Rows
    PROVE  /\ Used(r) \in SUBSET Workers /\ Due(r) \in SUBSET Workers
           /\ Used(r)' = IF r \in d.sent \union d.marked THEN Used(r) \union {w}
                                                          ELSE Used(r) \ {w}
           /\ Due(r)' = IF r \in d.todo THEN Due(r) \union {w} ELSE Due(r) \ {w}
<1>1. drain'[w] = d /\ \A v \in Workers \ {w} : drain'[v] = drain[v]
  BY DEF TypeOK
<1>2. Used(r) \in SUBSET Workers /\ Due(r) \in SUBSET Workers
  BY DEF Used, Due
<1>3. Used(r)' = {v \in Workers : r \in drain'[v].sent \union drain'[v].marked}
  BY DEF Used
<1>4. Due(r)' = {v \in Workers : r \in drain'[v].todo}
  BY DEF Due
<1>5. Used(r)' = IF r \in d.sent \union d.marked THEN Used(r) \union {w} ELSE Used(r) \ {w}
  BY <1>1, <1>3 DEF Used
<1>6. Due(r)' = IF r \in d.todo THEN Due(r) \union {w} ELSE Due(r) \ {w}
  BY <1>1, <1>4 DEF Due
<1> QED BY <1>2, <1>5, <1>6

\* TriedOnce is kept by a drain that keeps it.
LEMMA TriedStep ==
    ASSUME TypeOK, TriedOnce, NEW w \in Workers, NEW d \in Drains,
           drain' = [drain EXCEPT ![w] = d],
           d.todo \intersect (d.sent \union d.marked) = {}
    PROVE  TriedOnce'
<1> SUFFICES ASSUME NEW v \in Workers
             PROVE  drain'[v].todo \intersect (drain'[v].sent \union drain'[v].marked) = {}
  BY DEF TriedOnce
<1>1. CASE v = w
  BY <1>1 DEF TypeOK
<1>2. CASE v # w
  BY <1>2 DEF TypeOK, TriedOnce
<1> QED BY <1>1, <1>2

\* While the row is pending, a worker's copy is spent when it ends without a commit;
\* a dispatched row waits for fewer drains.  These are the two ways of the count.
LEMMA CountStep ==
    ASSUME CopyInv, TypeOK', NEW w \in Workers, NEW d \in Drains, NEW r \in Rows,
           drain' = [drain EXCEPT ![w] = d],
           row'[r] = row[r],
           copies[r]' = copies[r],
           faults' \in {faults, faults + 1},
           r \in d.todo => r \in drain[w].todo \/ row[r] # "dispatched",
           \/ faults' = faults + 1
           \/ r \in d.sent \union d.marked
           \/ r \notin drain[w].sent \union drain[w].marked
           \/ row[r] = "dispatched"
    PROVE  Accounted(r)'
<1> DEFINE Us == Cardinality(Used(r))  D == Cardinality(Due(r))  W == Cardinality(Workers)
<1>1. /\ copies[r] \in Nat /\ faults \in Nat
      /\ IF row[r] = "dispatched" THEN copies[r] + D <= W + faults ELSE copies[r] <= Us + faults
  BY DEF CopyInv, TypeOK, Accounted
<1>2. /\ Used(r) \in SUBSET Workers /\ Due(r) \in SUBSET Workers
      /\ Used(r)' = IF r \in d.sent \union d.marked THEN Used(r) \union {w} ELSE Used(r) \ {w}
      /\ Due(r)' = IF r \in d.todo THEN Due(r) \union {w} ELSE Due(r) \ {w}
  BY SetsStep DEF CopyInv
<1>3. /\ w \in Used(r) <=> r \in drain[w].sent \union drain[w].marked
      /\ w \in Due(r) <=> r \in drain[w].todo
  BY DEF Used, Due
<1>4. Us \in Nat /\ D \in Nat /\ W \in Nat
  BY <1>2, WorkerSets
<1>5. CASE row[r] = "dispatched"
  <2>1. Cardinality(Due(r)') <= D /\ Cardinality(Due(r)') \in Nat
    <3>1. CASE r \in d.todo
      <4>1. Due(r)' = Due(r)
        BY <1>2, <1>3, <1>5, <3>1
      <4> QED BY <4>1, <1>4
    <3>2. CASE r \notin d.todo
      <4>1. /\ Due(r)' = Due(r) \ {w}
            /\ Cardinality(Due(r) \ {w}) = IF w \in Due(r) THEN D - 1 ELSE D
            /\ Cardinality(Due(r) \ {w}) \in Nat
        BY <1>2, <3>2, WorkerSets
      <4> QED BY <4>1, <1>4
    <3> QED BY <3>1, <3>2
  <2>2. copies[r] + Cardinality(Due(r)') <= W + faults'
    BY <1>1, <1>4, <1>5, <2>1
  <2> QED BY <1>5, <2>2 DEF Accounted
<1>6. CASE row[r] # "dispatched"
  <2>1. /\ Cardinality(Used(r)') \in Nat
        /\ Us <= Cardinality(Used(r)') \/ (faults' = faults + 1 /\ Us - 1 <= Cardinality(Used(r)'))
    <3>1. CASE r \in d.sent \union d.marked
      <4>1. /\ Used(r)' = Used(r) \union {w}
            /\ Cardinality(Used(r) \union {w}) = IF w \in Used(r) THEN Us ELSE Us + 1
        BY <1>2, <3>1, WorkerSets
      <4> QED BY <4>1, <1>4
    <3>2. CASE r \notin d.sent \union d.marked
      <4>1. /\ Used(r)' = Used(r) \ {w}
            /\ Cardinality(Used(r) \ {w}) = IF w \in Used(r) THEN Us - 1 ELSE Us
            /\ Cardinality(Used(r) \ {w}) \in Nat
        BY <1>2, <3>2, WorkerSets
      <4> QED BY <4>1, <1>3, <1>4, <1>6, <3>2
    <3> QED BY <3>1, <3>2
  <2>2. copies[r] <= Cardinality(Used(r)') + faults'
    BY <1>1, <1>4, <1>6, <2>1
  <2> QED BY <1>6, <2>2 DEF Accounted
<1> QED BY <1>5, <1>6

LEMMA InitCopies == Init => CopyInv
<1> SUFFICES ASSUME Init PROVE CopyInv
  OBVIOUS
<1>1. TypeOK
  BY InitInv DEF Inv
<1>2. TriedOnce
  BY DEF Init, Closed, TriedOnce
<1>3. ASSUME NEW r \in Rows PROVE Accounted(r)
  <2>1. Cardinality(Used(r)) \in Nat
    BY WorkerSets DEF Used
  <2>2. row[r] # "dispatched" /\ copies[r] = 0 /\ faults = 0
    BY <1>3 DEF Init
  <2> QED BY <2>1, <2>2 DEF Accounted
<1> QED BY <1>1, <1>2, <1>3 DEF CopyInv

LEMMA EnqueueCopies ==
    ASSUME CopyInv, TypeOK', NEW r \in Rows, Enqueue(r) PROVE CopyInv'
<1>1. UNCHANGED <<drain, copies, faults>>
  BY DEF Enqueue
<1>2. TriedOnce'
  BY <1>1 DEF CopyInv, TriedOnce
<1>3. ASSUME NEW q \in Rows PROVE Accounted(q)'
  <2>1. Used(q)' = Used(q) /\ Due(q)' = Due(q)
    BY <1>1 DEF Used, Due
  <2>2. row'[q] = "dispatched" <=> row[q] = "dispatched"
    BY DEF Enqueue, CopyInv, TypeOK
  <2> QED BY <1>1, <2>1, <2>2 DEF CopyInv, Accounted
<1> QED BY <1>2, <1>3 DEF CopyInv

\* Only pending rows are read.
LEMMA OpenCopies ==
    ASSUME CopyInv, TypeOK', NEW w \in Workers, Open(w) PROVE CopyInv'
<1>1. Batch \in SUBSET Rows /\ \A r \in Batch : row[r] = "pending"
  BY DEF Batch, Pending
<1> DEFINE d == [Closed EXCEPT !.todo = Batch, !.open = TRUE]
<1>2. d \in Drains /\ d.sent = {} /\ d.marked = {} /\ d.todo = Batch
  BY <1>1, ClosedFacts DEF Closed
<1>3. /\ drain' = [drain EXCEPT ![w] = d] /\ UNCHANGED <<row, copies, faults>>
      /\ drain[w].sent = {} /\ drain[w].marked = {}
  BY ClosedFacts DEF Open
<1> HIDE DEF d
<1>4. TriedOnce'
  BY <1>2, <1>3, TriedStep DEF CopyInv
<1>5. ASSUME NEW r \in Rows PROVE Accounted(r)'
  <2>1. r \in d.todo => row[r] # "dispatched"
    BY <1>1, <1>2
  <2> QED BY <1>2, <1>3, <2>1, CountStep
<1> QED BY <1>4, <1>5 DEF CopyInv

\* The copy of a row is counted with the drain that made it; if the row has
\* been dispatched meanwhile, one drain fewer is due.
LEMMA PublishCopies ==
    ASSUME CopyInv, TypeOK', NEW w \in Workers, NEW r \in Rows, Publish(w, r)
    PROVE  CopyInv'
<1> DEFINE d == [drain[w] EXCEPT !.todo = @ \ {r}, !.sent = {r}]
<1>1. drain[w] \in Drains /\ drain[w].sent = {} /\ r \in drain[w].todo
  BY DEF CopyInv, TypeOK, Publish, IsNext
<1>2. /\ d \in Drains
      /\ d.todo = drain[w].todo \ {r} /\ d.sent = {r} /\ d.marked = drain[w].marked
  BY <1>1 DEF Drains
<1>3. drain' = [drain EXCEPT ![w] = d] /\ UNCHANGED <<row, faults>>
  BY DEF Publish
<1> HIDE DEF d
<1>4. drain[w].todo \intersect (drain[w].sent \union drain[w].marked) = {}
  BY DEF CopyInv, TriedOnce
<1>5. TriedOnce'
  <2>1. d.todo \intersect (d.sent \union d.marked) = {}
    BY <1>2, <1>4
  <2> QED BY <1>2, <1>3, <2>1, TriedStep DEF CopyInv
<1>6. copies[r] \in Nat /\ copies'[r] = copies[r] + 1 /\ \A q \in Rows \ {r} : copies'[q] = copies[q]
  BY DEF Publish, CopyInv, TypeOK
<1>7. ASSUME NEW q \in Rows \ {r} PROVE Accounted(q)'
  <2>1. q \in Rows /\ row'[q] = row[q] /\ copies[q]' = copies[q]
    BY <1>3, <1>6
  <2>2. q \in d.todo => q \in drain[w].todo
    BY <1>2
  <2>3. q \in d.sent \union d.marked \/ q \notin drain[w].sent \union drain[w].marked
    BY <1>1, <1>2
  <2> QED BY <1>2, <1>3, <2>1, <2>2, <2>3, CountStep
<1>8. Accounted(r)'
  <2>1. /\ Used(r) \in SUBSET Workers /\ Due(r) \in SUBSET Workers
        /\ Used(r)' = Used(r) \union {w} /\ Due(r)' = Due(r) \ {w}
    BY <1>2, <1>3, SetsStep DEF CopyInv
  <2>2. w \notin Used(r) /\ w \in Due(r)
    BY <1>1, <1>4 DEF Used, Due
  <2>3. /\ Cardinality(Used(r)') = Cardinality(Used(r)) + 1
        /\ Cardinality(Due(r)') = Cardinality(Due(r)) - 1
        /\ Cardinality(Used(r)) \in Nat /\ Cardinality(Due(r)) \in Nat
        /\ Cardinality(Workers) \in Nat
    BY <2>1, <2>2, WorkerSets
  <2>4. faults \in Nat /\ Accounted(r)
    BY DEF CopyInv, TypeOK
  <2> QED BY <1>3, <1>6, <2>3, <2>4 DEF Accounted
<1> QED BY <1>5, <1>7, <1>8 DEF CopyInv

LEMMA PublishFailsCopies ==
    ASSUME CopyInv, TypeOK', NEW w \in Workers, NEW r \in Rows, PublishFails(w, r)
    PROVE  CopyInv'
<1> DEFINE d == Skipped(drain[w], r)
<1>1. drain[w] \in Drains
  BY DEF CopyInv, TypeOK
<1>2. /\ d \in Drains
      /\ d.todo = drain[w].todo \ {r} /\ d.sent = drain[w].sent
      /\ d.marked = drain[w].marked
  BY <1>1 DEF Drains, Skipped
<1>3. drain' = [drain EXCEPT ![w] = d] /\ UNCHANGED <<row, copies>> /\ faults' = faults + 1
  BY DEF PublishFails
<1> HIDE DEF d
<1>4. TriedOnce'
  <2>1. d.todo \intersect (d.sent \union d.marked) = {}
    BY <1>2 DEF CopyInv, TriedOnce
  <2> QED BY <1>2, <1>3, <2>1, TriedStep DEF CopyInv
<1>5. ASSUME NEW q \in Rows PROVE Accounted(q)'
  <2>1. q \in d.todo => q \in drain[w].todo
    BY <1>2
  <2> QED BY <1>2, <1>3, <2>1, CountStep
<1> QED BY <1>4, <1>5 DEF CopyInv

LEMMA MarkCopies ==
    ASSUME CopyInv, TypeOK', NEW w \in Workers, Mark(w) PROVE CopyInv'
<1> DEFINE d == Marked(drain[w])
<1>1. drain[w] \in Drains
  BY DEF CopyInv, TypeOK
<1>2. /\ d \in Drains
      /\ d.todo = drain[w].todo /\ d.sent = {}
      /\ d.marked = drain[w].marked \union drain[w].sent
  BY <1>1 DEF Drains, Marked
<1>3. drain' = [drain EXCEPT ![w] = d] /\ UNCHANGED <<row, copies, faults>>
  BY DEF Mark
<1> HIDE DEF d
<1>4. TriedOnce'
  <2>1. d.todo \intersect (d.sent \union d.marked) = {}
    BY <1>2 DEF CopyInv, TriedOnce
  <2> QED BY <1>2, <1>3, <2>1, TriedStep DEF CopyInv
<1>5. ASSUME NEW q \in Rows PROVE Accounted(q)'
  <2>1. q \in d.todo => q \in drain[w].todo
    BY <1>2
  <2>2. q \in d.sent \union d.marked \/ q \notin drain[w].sent \union drain[w].marked
    BY <1>2
  <2> QED BY <1>2, <1>3, <2>1, <2>2, CountStep
<1> QED BY <1>4, <1>5 DEF CopyInv

\* A commit turns the count of a row it marked from the drains that have used
\* it to those for which it is due; no drain is among both.
LEMMA CommitCopies ==
    ASSUME CopyInv, TypeOK', NEW w \in Workers, Commit(w) PROVE CopyInv'
<1>1. /\ drain' = [drain EXCEPT ![w] = Closed] /\ UNCHANGED <<copies, faults>>
      /\ drain[w].sent = {}
      /\ row' = [r \in Rows |-> IF r \in drain[w].marked THEN "dispatched" ELSE row[r]]
  BY DEF Commit
<1>2. Closed \in Drains /\ Closed.todo = {} /\ Closed.sent = {} /\ Closed.marked = {}
  BY ClosedFacts DEF Closed
<1>3. TriedOnce'
  BY <1>1, <1>2, TriedStep DEF CopyInv
<1>4. ASSUME NEW q \in Rows, q \notin drain[w].marked PROVE Accounted(q)'
  <2>1. row'[q] = row[q] /\ copies[q]' = copies[q]
    BY <1>1, <1>4
  <2>2. q \notin drain[w].sent \union drain[w].marked
    BY <1>1, <1>4
  <2> QED BY <1>1, <1>2, <2>1, <2>2, CountStep
<1>5. ASSUME NEW q \in Rows, q \in drain[w].marked PROVE Accounted(q)'
  <2>1. /\ Used(q) \in SUBSET Workers /\ Due(q) \in SUBSET Workers
        /\ Due(q)' = Due(q) \ {w}
    BY <1>1, <1>2, SetsStep DEF CopyInv
  <2>2. Used(q) \intersect Due(q) = {}
    BY DEF Used, Due, CopyInv, TriedOnce
  <2>3. Cardinality(Used(q)) + Cardinality(Due(q)) <= Cardinality(Workers)
    BY <2>1, <2>2, DisjointWorkers
  <2>4. /\ Cardinality(Used(q)) \in Nat /\ Cardinality(Due(q)) \in Nat
        /\ Cardinality(Workers) \in Nat
        /\ Cardinality(Due(q) \ {w}) \in {Cardinality(Due(q)), Cardinality(Due(q)) - 1}
    BY <2>1, WorkerSets
  <2>5. copies[q] \in Nat /\ faults \in Nat /\ Accounted(q)
    BY DEF CopyInv, TypeOK
  <2>6. copies[q] + Cardinality(Due(q)) <= Cardinality(Workers) + faults
    BY <2>3, <2>4, <2>5 DEF Accounted
  <2>7. copies[q]' + Cardinality(Due(q)') <= Cardinality(Workers) + faults'
    BY <1>1, <2>1, <2>4, <2>5, <2>6
  <2>8. row'[q] = "dispatched"
    BY <1>1, <1>5
  <2> QED BY <2>7, <2>8 DEF Accounted
<1> QED BY <1>3, <1>4, <1>5 DEF CopyInv

LEMMA DieCopies ==
    ASSUME CopyInv, TypeOK', NEW w \in Workers, Die(w) PROVE CopyInv'
<1>1. drain' = [drain EXCEPT ![w] = Closed] /\ UNCHANGED <<row, copies>> /\ faults' = faults + 1
  BY DEF Die
<1>2. Closed \in Drains /\ Closed.todo = {} /\ Closed.sent = {} /\ Closed.marked = {}
  BY ClosedFacts DEF Closed
<1>3. TriedOnce'
  BY <1>1, <1>2, TriedStep DEF CopyInv
<1>4. ASSUME NEW q \in Rows PROVE Accounted(q)'
  BY <1>1, <1>2, CountStep
<1> QED BY <1>3, <1>4 DEF CopyInv

LEMMA StutterCopies == CopyInv /\ UNCHANGED vars => CopyInv'
<1> SUFFICES ASSUME CopyInv, UNCHANGED vars PROVE CopyInv'
  OBVIOUS
<1>1. TypeOK' /\ TriedOnce'
  BY DEF vars, CopyInv, TypeOK, TriedOnce
<1>2. ASSUME NEW q \in Rows PROVE Accounted(q)'
  <2>1. Used(q)' = Used(q) /\ Due(q)' = Due(q)
    BY DEF vars, Used, Due
  <2> QED BY <2>1 DEF vars, CopyInv, Accounted
<1> QED BY <1>1, <1>2 DEF CopyInv

LEMMA NextCopies == CopyInv /\ TypeOK' /\ [Next]_vars => CopyInv'
<1> SUFFICES ASSUME CopyInv, TypeOK', [Next]_vars PROVE CopyInv'
  OBVIOUS
<1>1. ASSUME NEW r \in Rows, Enqueue(r) PROVE CopyInv'
  BY <1>1, EnqueueCopies
<1>2. ASSUME NEW w \in Workers, Drain(w) PROVE CopyInv'
  BY <1>2, OpenCopies, PublishCopies, MarkCopies, CommitCopies DEF Drain
<1>3. ASSUME NEW w \in Workers, Die(w) PROVE CopyInv'
  BY <1>3, DieCopies
<1>4. ASSUME NEW w \in Workers, NEW r \in Rows, PublishFails(w, r) PROVE CopyInv'
  BY <1>4, PublishFailsCopies
<1>5. CASE UNCHANGED vars
  BY <1>5, StutterCopies
<1> QED BY <1>1, <1>2, <1>3, <1>4, <1>5 DEF Next

\* The count gives the bound, since no set of workers is larger than Workers.
LEMMA CountBounds == CopyInv => CopiesAreBounded
<1> SUFFICES ASSUME CopyInv, NEW r \in Rows
             PROVE  copies[r] <= Cardinality(Workers) + faults
  BY DEF CopiesAreBounded
<1>1. /\ Cardinality(Used(r)) \in Nat /\ Cardinality(Due(r)) \in Nat
      /\ Cardinality(Workers) \in Nat
      /\ Cardinality(Used(r)) <= Cardinality(Workers)
  BY WorkerSets DEF Used, Due
<1>2. copies[r] \in Nat /\ faults \in Nat /\ Accounted(r)
  BY DEF CopyInv, TypeOK
<1> QED BY <1>1, <1>2 DEF Accounted

\* The price of "at-least-once" (drain_outbox): however many rows, workers and
\* faults there are, a row is published at most once by each worker and once
\* more for each fault.
THEOREM CopiesBounded == Spec => []CopiesAreBounded
<1>1. Inv => TypeOK
  BY DEF Inv
<1> QED BY <1>1, InitInv, NextInv, InitCopies, NextCopies, CountBounds, PTL DEF Spec

-----------------------------------------------------------------------------
(* Upload sessions and the object store                                      *)

Locked == {"register", "assemble", "verify", "abort", "aborted"}

Uploading == {"initiated", "uploading"}

Abortable == Uploading \union {"aborted"}

EmptyOrLeaked(s) == s \in leaked \/ store[s] = U!EmptyStore

RowShape(x) == DOMAIN x = {"status", "chunks", "cleaned"} /\ x.cleaned \in BOOLEAN

StoreShape(x) == DOMAIN x = {"upload", "parts", "object"}

UploadTypes ==
    /\ DOMAIN session = Sessions /\ \A s \in Sessions : RowShape(session[s])
    /\ DOMAIN store = Sessions /\ \A s \in Sessions : StoreShape(store[s])
    /\ DOMAIN lock = Sessions
    /\ DOMAIN request = Requests
    /\ \A r \in Requests : DOMAIN request[r] = {"step", "session", "chunk", "ok"}
                           /\ request[r].ok \in BOOLEAN
    /\ DOMAIN reaper = {"step", "todo", "held", "ok"}

\* What a request knows of its session: while it creates it there is no row, and
\* while it holds its lock nobody else moves it.
RequestKnows(r) ==
    LET s == request[r].session
        step == request[r].step
    IN
    /\ step \in Locked \union {"idle", "create"}
    /\ step = "create" => s \in Sessions /\ session[s].status = "none" /\ store[s].upload # "none"
    /\ step \in Locked => s \in Sessions /\ lock[s] = r
    /\ step \in {"register", "assemble", "verify"} => session[s].status \in Uploading
    /\ step \in {"abort", "aborted"} => session[s].status \in Abortable
    /\ step = "aborted" /\ request[r].ok => EmptyOrLeaked(s)

\* A session is created by one request at most.
OneCreator ==
    \A r, q \in Requests :
        request[r].step = "create" /\ request[q].step = "create"
        /\ request[r].session = request[q].session => r = q

\* What the reaper knows of the sessions it holds.
ReaperKnows ==
    /\ reaper.todo \subseteq reaper.held /\ reaper.ok \subseteq reaper.held
    /\ \A s \in reaper.held :
        s \in Sessions /\ lock[s] = Reaper /\ session[s].status \in Abortable
    /\ \A s \in reaper.ok : EmptyOrLeaked(s)

\* What the row of a session says is so in the store.
RowTells(s) ==
    /\ session[s].cleaned => session[s].status = "aborted" /\ EmptyOrLeaked(s)
    /\ session[s].status = "complete" => store[s].object = "good"
    /\ store[s].upload = "none" => session[s].status = "none"

UploadInv ==
    /\ UploadTypes /\ OneCreator /\ ReaperKnows
    /\ \A r \in Requests : RequestKnows(r)
    /\ \A s \in Sessions : RowTells(s)

LEMMA UploadFacts ==
    /\ U!Idle.step = "idle" /\ DOMAIN U!Idle = {"step", "session", "chunk", "ok"}
    /\ U!Idle.ok \in BOOLEAN
    /\ U!IdleReaper.todo = {} /\ U!IdleReaper.held = {} /\ U!IdleReaper.ok = {}
    /\ DOMAIN U!IdleReaper = {"step", "todo", "held", "ok"}
    /\ StoreShape(U!EmptyStore) /\ U!EmptyStore.upload = "closed" /\ U!EmptyStore.object = "missing"
  BY DEF U!Idle, U!IdleReaper, U!EmptyStore, StoreShape

LEMMA IdleKnows ==
    ASSUME NEW r, request[r].step = "idle" PROVE RequestKnows(r)
  BY DEF RequestKnows, Locked

\* Only the request r and the session s move, which it creates or holds.
LEMMA OneActs ==
    ASSUME UploadInv, NEW r \in Requests, NEW s \in Sessions,
           request[r].session = s, request[r].step \in Locked \union {"create"},
           UNCHANGED reaper, UploadTypes',
           \A t \in Sessions : t # s =>
               session'[t] = session[t] /\ store'[t] = store[t] /\ (t \in leaked' <=> t \in leaked),
           \A t \in Sessions : lock'[t] = lock[t] \/ lock[t] = r,
           \A q \in Requests : q # r => request'[q] = request[q],
           request'[r].step = "create" => FALSE,
           RequestKnows(r)', RowTells(s)'
    PROVE  UploadInv'
  <1>1. ASSUME NEW q \in Requests, q # r, request[q].step \in Locked \union {"create"}
        PROVE  request[q].session # s
    <2>1. RequestKnows(q) /\ RequestKnows(r)
      BY DEF UploadInv
    <2>2. CASE request[q].step = "create" /\ request[r].step = "create"
      BY <1>1, <2>2 DEF UploadInv, OneCreator
    <2>3. CASE request[q].step \in Locked /\ request[r].step \in Locked
      BY <1>1, <2>1, <2>3 DEF RequestKnows
    <2>4. \A p \in Requests : RequestKnows(p) /\ request[p].step \in Locked
                => session[request[p].session].status # "none"
      BY DEF RequestKnows, Locked, Uploading, Abortable
    <2>5. \A p \in Requests : RequestKnows(p) /\ request[p].step = "create"
                => session[request[p].session].status = "none"
      BY DEF RequestKnows
    <2> QED
      BY <1>1, <2>1, <2>2, <2>3, <2>4, <2>5
  <1>2. s \notin reaper.held
    <2>1. RequestKnows(r) /\ ReaperKnows
      BY DEF UploadInv
    <2>2. CASE request[r].step = "create"
      BY <2>1, <2>2 DEF RequestKnows, ReaperKnows, Abortable, Uploading
    <2>3. CASE request[r].step \in Locked
      BY <2>1, <2>3, HoldersAssumption DEF RequestKnows, ReaperKnows
    <2> QED
      BY <2>2, <2>3
  <1>3. ASSUME NEW q \in Requests
        PROVE  RequestKnows(q)'
    <2>1. CASE q = r
      BY <2>1
    <2>2. CASE q # r /\ request[q].step \notin Locked \union {"create"}
      BY <2>2 DEF UploadInv, RequestKnows, Locked
    <2>3. CASE q # r /\ request[q].step \in Locked \union {"create"}
      <3>1. RequestKnows(q) /\ request'[q] = request[q] /\ request[q].session # s
            /\ request[q].session \in Sessions
        BY <1>1, <2>3 DEF UploadInv, RequestKnows
      <3> DEFINE t == request[q].session
      <3>2. session'[t] = session[t] /\ store'[t] = store[t] /\ (t \in leaked' <=> t \in leaked)
            /\ (lock'[t] = lock[t] \/ lock[t] = r)
        BY <3>1
      <3> HIDE DEF t
      <3> QED
        BY <2>3, <3>1, <3>2 DEF RequestKnows, EmptyOrLeaked, t
    <2> QED
      BY <2>1, <2>2, <2>3
  <1>4. ReaperKnows'
    <2>1. \A t \in reaper.held : t \in Sessions /\ t # s /\ lock[t] # r
      BY <1>2, HoldersAssumption DEF UploadInv, ReaperKnows
    <2> QED
      BY <2>1 DEF UploadInv, ReaperKnows, EmptyOrLeaked
  <1>5. OneCreator'
    BY DEF UploadInv, OneCreator
  <1>6. \A t \in Sessions : RowTells(t)'
    BY DEF UploadInv, RowTells, EmptyOrLeaked
  <1> QED
    BY <1>3, <1>4, <1>5, <1>6 DEF UploadInv

\* What a cleanup leaves: an empty store, or what it failed to take away.
LEMMA CleanupLeaves ==
    ASSUME UploadInv, NEW s \in Sessions, NEW left, NEW raised \in BOOLEAN,
           U!Cleanup(s, left, raised)
    PROVE  /\ DOMAIN store' = Sessions /\ StoreShape(store'[s])
           /\ \A t \in Sessions : t # s => store'[t] = store[t] /\ (t \in leaked' <=> t \in leaked)
           /\ EmptyOrLeaked(s) \/ ~raised => EmptyOrLeaked(s)'
           /\ store[s].upload # "none" => store'[s].upload # "none"
  <1>1. /\ StoreShape(store[s]) /\ DOMAIN store = Sessions
        /\ left \in {U!EmptyStore, [U!EmptyStore EXCEPT !.object = store[s].object],
                     [store[s] EXCEPT !.object = "missing"], store[s]}
        /\ store' = [store EXCEPT ![s] = left]
        /\ leaked' = IF left = U!EmptyStore THEN leaked \ {s}
                     ELSE IF raised THEN leaked ELSE leaked \union {s}
    BY DEF UploadInv, UploadTypes, U!Cleanup, U!AfterCleanup
  <1>2. /\ StoreShape(left)
        /\ store[s].upload # "none" => left.upload # "none"
        /\ store[s] = U!EmptyStore => left = U!EmptyStore
    BY <1>1, UploadFacts DEF StoreShape, U!EmptyStore
  <1>3. store'[s] = left /\ DOMAIN store' = Sessions /\ \A t \in Sessions : t # s => store'[t] = store[t]
    BY <1>1
  <1>4. EmptyOrLeaked(s) \/ ~raised => left = U!EmptyStore \/ s \in leaked'
    BY <1>1, <1>2 DEF EmptyOrLeaked
  <1> QED
    BY <1>1, <1>2, <1>3, <1>4 DEF EmptyOrLeaked

\* A request ends.
LEMMA DoneRequest ==
    ASSUME UploadInv, NEW r \in Requests, U!Done(r)
    PROVE  /\ request'[r] = U!Idle /\ \A q \in Requests : q # r => request'[q] = request[q]
           /\ DOMAIN request' = Requests
           /\ \A q \in Requests : DOMAIN request'[q] = {"step", "session", "chunk", "ok"}
                                  /\ request'[q].ok \in BOOLEAN
           /\ RequestKnows(r)'
  <1>1. /\ request'[r] = U!Idle /\ \A q \in Requests : q # r => request'[q] = request[q]
        /\ DOMAIN request' = Requests
    BY DEF U!Done, UploadInv, UploadTypes
  <1>2. RequestKnows(r)'
    BY <1>1, UploadFacts DEF RequestKnows, Locked
  <1> QED
    BY <1>1, <1>2, UploadFacts DEF UploadInv, UploadTypes

\* What a request in hand knows.
LEMMA InHand ==
    ASSUME UploadInv, NEW r \in Requests, request[r].step \in Locked \union {"create"}
    PROVE  request[r].session \in Sessions /\ RequestKnows(r) /\ RowTells(request[r].session)
  BY DEF UploadInv, RequestKnows

LEMMA PersistUpload ==
    ASSUME UploadInv, NEW r \in Requests, NEW s \in Sessions, request[r].session = s,
           U!Persist(r)
    PROVE  UploadInv'
  <1> DEFINE x == [session[s] EXCEPT !.status = "initiated"]
  <1>1. /\ request[r].step = "create" /\ session' = [session EXCEPT ![s].status = "initiated"]
        /\ U!Done(r) /\ UNCHANGED <<lock, store, reaper, leaked>>
    BY DEF U!Persist
  <1>2. s \in Sessions /\ RequestKnows(r) /\ RowTells(s) /\ RowShape(session[s])
    BY <1>1, InHand DEF UploadInv, UploadTypes
  <1>3. /\ session'[s] = x /\ DOMAIN session' = Sessions
        /\ \A t \in Sessions : t # s => session'[t] = session[t]
    BY <1>1, <1>2 DEF UploadInv, UploadTypes
  <1>4. x.status = "initiated" /\ x.cleaned = session[s].cleaned /\ RowShape(x)
    BY <1>2 DEF RowShape
  <1>5. RowTells(s)'
    BY <1>1, <1>2, <1>3, <1>4 DEF RowTells, RequestKnows, EmptyOrLeaked
  <1>6. UploadTypes'
    BY <1>1, <1>3, <1>4, DoneRequest DEF UploadInv, UploadTypes
  <1> QED
    BY <1>1, <1>2, <1>3, <1>5, <1>6, DoneRequest, UploadFacts, OneActs

LEMMA PersistFailsUpload ==
    ASSUME UploadInv, NEW r \in Requests, NEW s \in Sessions, request[r].session = s,
           U!PersistFails(r)
    PROVE  UploadInv'
  <1>1. request[r].step = "create" /\ U!Done(r) /\ UNCHANGED <<session, lock, reaper>>
    BY DEF U!PersistFails
  <1>2. PICK left \in U!AfterCleanup(s), raised \in BOOLEAN : U!Cleanup(s, left, raised)
    BY DEF U!PersistFails
  <1>3. s \in Sessions /\ RequestKnows(r) /\ RowTells(s)
    BY <1>1, InHand
  <1>4. /\ DOMAIN store' = Sessions /\ StoreShape(store'[s])
        /\ \A t \in Sessions : t # s => store'[t] = store[t] /\ (t \in leaked' <=> t \in leaked)
        /\ EmptyOrLeaked(s) => EmptyOrLeaked(s)'
        /\ store[s].upload # "none" => store'[s].upload # "none"
    BY <1>2, <1>3, CleanupLeaves
  <1>5. RowTells(s)'
    BY <1>1, <1>3, <1>4 DEF RowTells, RequestKnows
  <1>6. UploadTypes'
    BY <1>1, <1>4, DoneRequest DEF UploadInv, UploadTypes
  <1> QED
    BY <1>1, <1>3, <1>4, <1>5, <1>6, DoneRequest, UploadFacts, OneActs

\* A row lock is released, by whoever holds it.
LEMMA Released ==
    ASSUME UploadInv, NEW s \in Sessions, U!Release(s)
    PROVE  DOMAIN lock' = Sessions /\ \A t \in Sessions : t # s => lock'[t] = lock[t]
  BY DEF UploadInv, UploadTypes, U!Release

LEMMA RegisterUpload ==
    ASSUME UploadInv, NEW r \in Requests, NEW s \in Sessions, request[r].session = s,
           U!Register(r)
    PROVE  UploadInv'
  <1>1. /\ request[r].step = "register"
        /\ session' = [session EXCEPT ![s].status = "uploading",
                                      ![s].chunks = @ \union {request[r].chunk}]
        /\ U!Done(r) /\ U!Release(s) /\ UNCHANGED <<store, reaper, leaked>>
    BY DEF U!Register
  <1>2. s \in Sessions /\ RequestKnows(r) /\ RowTells(s) /\ RowShape(session[s])
    BY <1>1, InHand DEF UploadInv, UploadTypes, Locked
  <1>3. /\ session'[s].status = "uploading" /\ session'[s].cleaned = session[s].cleaned
        /\ RowShape(session'[s]) /\ DOMAIN session' = Sessions
        /\ \A t \in Sessions : t # s => session'[t] = session[t]
    BY <1>1, <1>2 DEF UploadInv, UploadTypes, RowShape
  <1>4. RowTells(s)'
    BY <1>1, <1>2, <1>3 DEF RowTells, RequestKnows, EmptyOrLeaked, Uploading
  <1>5. DOMAIN lock' = Sessions /\ \A t \in Sessions : lock'[t] = lock[t] \/ lock[t] = r
    BY <1>1, <1>2, Released DEF RequestKnows, Locked
  <1>6. UploadTypes'
    BY <1>1, <1>3, <1>5, DoneRequest DEF UploadInv, UploadTypes
  <1>7. request[r].step \in Locked
    BY <1>1 DEF Locked
  <1> QED
    BY <1>1, <1>2, <1>3, <1>4, <1>5, <1>6, <1>7, DoneRequest, UploadFacts, OneActs

LEMMA AssembleUpload ==
    ASSUME UploadInv, NEW r \in Requests, NEW s \in Sessions, request[r].session = s,
           U!Assemble(r)
    PROVE  UploadInv'
  <1>1. /\ request[r].step = "assemble"
        /\ store' = [store EXCEPT ![s] = [U!EmptyStore EXCEPT !.object = U!Assembled(store[s].parts)]]
        /\ request' = [request EXCEPT ![r].step = "verify"]
        /\ UNCHANGED <<session, lock, reaper, leaked>>
    BY DEF U!Assemble, U!Goto
  <1>2. s \in Sessions /\ RequestKnows(r) /\ RowTells(s)
    BY <1>1, InHand DEF Locked
  <1> DEFINE o == U!Assembled(store[s].parts)
             x == [U!EmptyStore EXCEPT !.object = o]
  <1>3. StoreShape(x) /\ x.upload = "closed"
    BY DEF U!EmptyStore, StoreShape
  <1>4. store'[s] = x /\ DOMAIN store' = Sessions /\ \A t \in Sessions : t # s => store'[t] = store[t]
    BY <1>1, <1>2 DEF UploadInv, UploadTypes
  <1>5. /\ request'[r].step = "verify" /\ request'[r].session = s /\ request'[r].ok = request[r].ok
        /\ DOMAIN request' = Requests /\ DOMAIN request'[r] = {"step", "session", "chunk", "ok"}
        /\ \A q \in Requests : q # r => request'[q] = request[q]
    BY <1>1 DEF UploadInv, UploadTypes
  <1>6. session[s].status \in Uploading /\ lock[s] = r
    BY <1>1, <1>2 DEF RequestKnows, Locked
  <1> HIDE DEF x
  <1>7. RowTells(s)'
    BY <1>1, <1>2, <1>3, <1>4, <1>6 DEF RowTells, Uploading
  <1>8. RequestKnows(r)'
    BY <1>1, <1>2, <1>5, <1>6 DEF RequestKnows, Locked
  <1>9. UploadTypes'
    BY <1>1, <1>3, <1>4, <1>5 DEF UploadInv, UploadTypes
  <1>10. request[r].step \in Locked
    BY <1>1 DEF Locked
  <1> QED
    BY <1>1, <1>2, <1>4, <1>5, <1>7, <1>8, <1>9, <1>10, OneActs

LEMMA CompleteUpload ==
    ASSUME UploadInv, NEW r \in Requests, NEW s \in Sessions, request[r].session = s,
           U!Complete(r)
    PROVE  UploadInv'
  <1>1. /\ request[r].step = "verify" /\ store[s].object = "good"
        /\ session' = [session EXCEPT ![s].status = "complete"]
        /\ U!Done(r) /\ U!Release(s) /\ UNCHANGED <<store, reaper, leaked>>
    BY DEF U!Complete, U!Verified
  <1>2. s \in Sessions /\ RequestKnows(r) /\ RowTells(s) /\ RowShape(session[s])
    BY <1>1, InHand DEF UploadInv, UploadTypes, Locked
  <1>3. /\ session'[s].status = "complete" /\ session'[s].cleaned = session[s].cleaned
        /\ RowShape(session'[s]) /\ DOMAIN session' = Sessions
        /\ \A t \in Sessions : t # s => session'[t] = session[t]
    BY <1>1, <1>2 DEF UploadInv, UploadTypes, RowShape
  <1>4. RowTells(s)'
    BY <1>1, <1>2, <1>3 DEF RowTells, RequestKnows, EmptyOrLeaked, Uploading
  <1>5. DOMAIN lock' = Sessions /\ \A t \in Sessions : lock'[t] = lock[t] \/ lock[t] = r
    BY <1>1, <1>2, Released DEF RequestKnows, Locked
  <1>6. UploadTypes'
    BY <1>1, <1>3, <1>5, DoneRequest DEF UploadInv, UploadTypes
  <1>7. request[r].step \in Locked
    BY <1>1 DEF Locked
  <1> QED
    BY <1>1, <1>2, <1>3, <1>4, <1>5, <1>6, <1>7, DoneRequest, UploadFacts, OneActs

LEMMA AbortUpload ==
    ASSUME UploadInv, NEW r \in Requests, NEW s \in Sessions, request[r].session = s,
           U!Abort(r)
    PROVE  UploadInv'
  <1>1. PICK left \in U!AfterCleanup(s), raised \in BOOLEAN :
           /\ U!Cleanup(s, left, raised)
           /\ request' = [request EXCEPT ![r].step = "aborted", ![r].ok = ~raised]
    BY DEF U!Abort, U!ReportsSuccess
  <1>2. request[r].step = "abort" /\ UNCHANGED <<session, lock, reaper>>
    BY DEF U!Abort
  <1>3. s \in Sessions /\ RequestKnows(r) /\ RowTells(s)
    BY <1>2, InHand DEF Locked
  <1>4. /\ DOMAIN store' = Sessions /\ StoreShape(store'[s])
        /\ \A t \in Sessions : t # s => store'[t] = store[t] /\ (t \in leaked' <=> t \in leaked)
        /\ EmptyOrLeaked(s) \/ ~raised => EmptyOrLeaked(s)'
        /\ store[s].upload # "none" => store'[s].upload # "none"
    BY <1>1, <1>3, CleanupLeaves
  <1>5. /\ request'[r].step = "aborted" /\ request'[r].session = s /\ request'[r].ok = ~raised
        /\ DOMAIN request' = Requests /\ DOMAIN request'[r] = {"step", "session", "chunk", "ok"}
        /\ \A q \in Requests : q # r => request'[q] = request[q]
    BY <1>1 DEF UploadInv, UploadTypes
  <1>6. session[s].status \in Abortable /\ lock[s] = r
    BY <1>2, <1>3 DEF RequestKnows, Locked
  <1>7. RowTells(s)'
    BY <1>2, <1>3, <1>4, <1>6 DEF RowTells, Abortable, Uploading
  <1>8. RequestKnows(r)'
    <2>1. ~raised => s \in leaked' \/ store'[s] = U!EmptyStore
      BY <1>4 DEF EmptyOrLeaked
    <2>2. EmptyOrLeaked(request[r].session)' <=>
             request'[r].session \in leaked' \/ store'[request'[r].session] = U!EmptyStore
      BY DEF EmptyOrLeaked
    <2>3. request'[r].ok => EmptyOrLeaked(request[r].session)'
      BY <1>5, <2>1, <2>2
    <2>4. lock'[s] = r /\ session'[s].status \in Abortable
      BY <1>2, <1>6
    <2> QED
      BY <1>5, <2>3, <2>4 DEF RequestKnows, Locked
  <1>9. UploadTypes'
    <2>1. \A q \in Requests : /\ DOMAIN request'[q] = {"step", "session", "chunk", "ok"}
                             /\ request'[q].ok \in BOOLEAN
      BY <1>5 DEF UploadInv, UploadTypes
    <2> QED
      BY <1>2, <1>4, <1>5, <2>1 DEF UploadInv, UploadTypes
  <1>10. request[r].step \in Locked
    BY <1>2 DEF Locked
  <1> QED
    BY <1>2, <1>3, <1>4, <1>5, <1>7, <1>8, <1>9, <1>10, OneActs

\* The row of an aborted session.
LEMMA AbortedRowIs ==
    ASSUME UploadInv, NEW s \in Sessions, NEW ok \in BOOLEAN, NEW x, x = U!AbortedRow(s, ok)
    PROVE  RowShape(x) /\ x.status = "aborted" /\ x.cleaned = (session[s].cleaned \/ ok)
  BY DEF UploadInv, UploadTypes, RowShape, U!AbortedRow

LEMMA CommitAbortUpload ==
    ASSUME UploadInv, NEW r \in Requests, NEW s \in Sessions, request[r].session = s,
           U!CommitAbort(r)
    PROVE  UploadInv'
  <1>1. /\ request[r].step = "aborted"
        /\ session' = [session EXCEPT ![s] = U!AbortedRow(s, request[r].ok)]
        /\ U!Done(r) /\ U!Release(s) /\ UNCHANGED <<store, reaper, leaked>>
    BY DEF U!CommitAbort
  <1>2. RequestKnows(r) /\ RowTells(s) /\ request[r].ok \in BOOLEAN
    BY <1>1, InHand DEF UploadInv, UploadTypes, Locked
  <1>3. PICK x : x = U!AbortedRow(s, request[r].ok)
    OBVIOUS
  <1>4. RowShape(x) /\ x.status = "aborted" /\ x.cleaned = (session[s].cleaned \/ request[r].ok)
    BY <1>2, <1>3, AbortedRowIs
  <1>5. /\ session'[s] = x /\ DOMAIN session' = Sessions
        /\ \A t \in Sessions : t # s => session'[t] = session[t]
    BY <1>1, <1>3 DEF UploadInv, UploadTypes
  <1>6. session[s].status # "none" /\ (session[s].cleaned \/ request[r].ok => EmptyOrLeaked(s))
    BY <1>1, <1>2 DEF RowTells, RequestKnows, Abortable, Uploading
  <1>7. RowTells(s)'
    BY <1>1, <1>2, <1>4, <1>5, <1>6 DEF RowTells, EmptyOrLeaked
  <1>8. DOMAIN lock' = Sessions /\ \A t \in Sessions : lock'[t] = lock[t] \/ lock[t] = r
    BY <1>1, <1>2, Released DEF RequestKnows, Locked
  <1>9. UploadTypes'
    BY <1>1, <1>4, <1>5, <1>8, DoneRequest DEF UploadInv, UploadTypes
  <1>10. request[r].step \in Locked
    BY <1>1 DEF Locked
  <1> QED
    BY <1>1, <1>2, <1>5, <1>7, <1>8, <1>9, <1>10, DoneRequest, UploadFacts, OneActs

LEMMA RollbackUpload ==
    ASSUME UploadInv, NEW r \in Requests, NEW s \in Sessions, request[r].session = s,
           request[r].step \in Locked \union {"create"}, U!Rollback(r)
    PROVE  UploadInv'
  <1>1. /\ lock' = [t \in Sessions |-> IF lock[t] = r THEN NoOne ELSE lock[t]]
        /\ U!Done(r) /\ UNCHANGED <<session, store, reaper, leaked>>
    BY DEF U!Rollback
  <1>2. RowTells(s)
    BY DEF UploadInv
  <1>3. RowTells(s)'
    BY <1>1, <1>2 DEF RowTells, EmptyOrLeaked
  <1>4. DOMAIN lock' = Sessions /\ \A t \in Sessions : lock'[t] = lock[t] \/ lock[t] = r
    BY <1>1
  <1>5. UploadTypes'
    BY <1>1, <1>4, DoneRequest DEF UploadInv, UploadTypes
  <1> QED
    BY <1>1, <1>3, <1>4, <1>5, DoneRequest, UploadFacts, OneActs

\* A request that has nothing in hand takes a session that nobody holds, or begins
\* one that is not in the store.
LEMMA OneStarts ==
    ASSUME UploadInv, NEW r \in Requests, NEW s \in Sessions, request[r].step = "idle",
           UNCHANGED <<session, reaper, leaked>>, UploadTypes',
           \A t \in Sessions : t # s => store'[t] = store[t] /\ lock'[t] = lock[t],
           lock[s] = NoOne \/ lock'[s] = lock[s],
           store'[s] = store[s] \/ (store[s].upload = "none" /\ store'[s].upload # "none"),
           \A q \in Requests : q # r => request'[q] = request[q],
           request'[r].step = "create" =>
               request'[r].session = s /\ store[s].upload = "none",
           RequestKnows(r)'
    PROVE  UploadInv'
  <1>1. RowTells(s)
    BY DEF UploadInv
  <1>2. RowTells(s)'
    BY <1>1 DEF RowTells, EmptyOrLeaked
  <1>3. \A t \in Sessions : t # s => RowTells(t)'
    BY DEF UploadInv, RowTells, EmptyOrLeaked
  <1>4. ASSUME NEW q \in Requests PROVE RequestKnows(q)'
    <2>1. CASE q = r
      BY <2>1
    <2>2. CASE q # r /\ request[q].step \notin Locked \union {"create"}
      BY <2>2 DEF UploadInv, RequestKnows, Locked
    <2>3. CASE q # r /\ request[q].step \in Locked \union {"create"}
      <3>1. PICK t \in Sessions : request[q].session = t
        BY <2>3, InHand
      <3>2. RequestKnows(q) /\ request'[q] = request[q] /\ session'[t] = session[t]
        BY <2>3 DEF UploadInv
      <3>3. EmptyOrLeaked(t) => EmptyOrLeaked(t)'
        BY <1>1, UploadFacts DEF EmptyOrLeaked
      <3>4. store[t].upload # "none" => store'[t].upload # "none"
        BY <1>1
      <3>5. lock[t] = q => lock'[t] = q
        BY HoldersAssumption
      <3>6. request[q].step = "aborted" /\ request[q].ok => EmptyOrLeaked(t)'
        BY <3>1, <3>2, <3>3 DEF RequestKnows
      <3>7. EmptyOrLeaked(t)' => (t \in leaked' \/ store'[t] = U!EmptyStore)
        BY DEF EmptyOrLeaked
      <3> QED
        BY <3>1, <3>2, <3>4, <3>5, <3>6, <3>7 DEF RequestKnows, EmptyOrLeaked
    <2> QED
      BY <2>1, <2>2, <2>3
  <1>5. OneCreator'
    <2>1. \A q \in Requests : request[q].step = "create" => request[q].session # s
                              \/ store[s].upload # "none"
      BY DEF UploadInv, RequestKnows
    <2> QED
      BY <2>1 DEF UploadInv, OneCreator
  <1>6. ReaperKnows'
    <2>1. \A t \in reaper.held : t \in Sessions /\ lock'[t] = lock[t]
      BY HoldersAssumption DEF UploadInv, ReaperKnows
    <2>2. \A t \in Sessions : EmptyOrLeaked(t) => EmptyOrLeaked(t)'
      BY UploadFacts DEF EmptyOrLeaked
    <2>3. reaper.todo \subseteq reaper.held /\ reaper.ok \subseteq reaper.held
      BY DEF UploadInv, ReaperKnows
    <2> QED
      BY <2>1, <2>2, <2>3 DEF UploadInv, ReaperKnows
  <1> QED
    BY <1>2, <1>3, <1>4, <1>5, <1>6 DEF UploadInv

LEMMA BeginUpload ==
    ASSUME UploadInv, NEW r \in Requests, NEW s \in Sessions, U!Begin(r, s)
    PROVE  UploadInv'
  <1> DEFINE x == [store[s] EXCEPT !.upload = "open"]
             q == [U!Idle EXCEPT !.step = "create", !.session = s]
  <1>1. /\ request[r].step = "idle" /\ store[s].upload = "none"
        /\ store' = [store EXCEPT ![s].upload = "open"]
        /\ request' = [request EXCEPT ![r] = q]
        /\ UNCHANGED <<session, lock, reaper, leaked>>
    BY DEF U!Begin
  <1>2. /\ store'[s] = x /\ DOMAIN store' = Sessions
        /\ \A t \in Sessions : t # s => store'[t] = store[t]
    BY <1>1 DEF UploadInv, UploadTypes
  <1>3. x.upload = "open" /\ StoreShape(x)
    BY DEF UploadInv, UploadTypes, StoreShape
  <1>4. /\ q.step = "create" /\ q.session = s /\ q.ok = FALSE
        /\ DOMAIN q = {"step", "session", "chunk", "ok"}
    BY DEF U!Idle
  <1>5. /\ request'[r] = q /\ DOMAIN request' = Requests
        /\ \A p \in Requests : p # r => request'[p] = request[p]
    BY <1>1 DEF UploadInv, UploadTypes
  <1> HIDE DEF q, x
  <1>6. session[s].status = "none"
    BY <1>1 DEF UploadInv, RowTells
  <1>7. RequestKnows(r)'
    BY <1>1, <1>2, <1>3, <1>4, <1>5, <1>6 DEF RequestKnows, Locked
  <1>8. UploadTypes'
    BY <1>1, <1>2, <1>3, <1>4, <1>5 DEF UploadInv, UploadTypes
  <1> QED
    BY <1>1, <1>2, <1>3, <1>4, <1>5, <1>7, <1>8, OneStarts

LEMMA LockUpload ==
    ASSUME UploadInv, NEW r \in Requests, NEW s \in Sessions, NEW step, NEW i,
           \/ step \in {"register", "assemble"} /\ session[s].status \in Uploading
           \/ step = "abort" /\ session[s].status \in Abortable,
           U!Lock(r, s, step, i)
    PROVE  UploadInv'
  <1> DEFINE q == [step |-> step, session |-> s, chunk |-> i, ok |-> FALSE]
  <1>1. /\ request[r].step = "idle" /\ lock[s] = NoOne
        /\ lock' = [lock EXCEPT ![s] = r]
        /\ request' = [request EXCEPT ![r] = q]
        /\ UNCHANGED <<session, store, reaper, leaked>>
    BY DEF U!Lock, U!LockFree
  <1>2. lock'[s] = r /\ DOMAIN lock' = Sessions /\ \A t \in Sessions : t # s => lock'[t] = lock[t]
    BY <1>1 DEF UploadInv, UploadTypes
  <1>3. /\ q.step = step /\ q.session = s /\ q.ok = FALSE
        /\ DOMAIN q = {"step", "session", "chunk", "ok"}
    OBVIOUS
  <1>4. /\ request'[r] = q /\ DOMAIN request' = Requests
        /\ \A p \in Requests : p # r => request'[p] = request[p]
    BY <1>1 DEF UploadInv, UploadTypes
  <1> HIDE DEF q
  <1>5. RequestKnows(r)'
    BY <1>1, <1>2, <1>3, <1>4 DEF RequestKnows, Locked
  <1>6. UploadTypes'
    BY <1>1, <1>2, <1>3, <1>4 DEF UploadInv, UploadTypes
  <1> QED
    BY <1>1, <1>2, <1>3, <1>4, <1>5, <1>6, OneStarts

LEMMA ReceiveUpload ==
    ASSUME UploadInv, NEW r \in Requests, NEW s \in Sessions, U!Receive(r, s)
    PROVE  UploadInv'
  <1>1. CASE U!Begin(r, s)
    BY <1>1, BeginUpload
  <1>2. ASSUME NEW i, U!LockToRegister(r, s, i) PROVE UploadInv'
    BY <1>2, LockUpload DEF U!LockToRegister, U!Active, Uploading
  <1>3. CASE U!LockToComplete(r, s)
    BY <1>3, LockUpload DEF U!LockToComplete, U!Active, Uploading
  <1>4. CASE U!LockToAbort(r, s)
    BY <1>4, LockUpload DEF U!LockToAbort, U!Active, Uploading, Abortable
  <1> QED
    BY <1>1, <1>2, <1>3, <1>4 DEF U!Receive

LEMMA HandleUpload ==
    ASSUME UploadInv, NEW r \in Requests, U!Handle(r)
    PROVE  UploadInv'
  <1>1. request[r].step \in Locked \union {"create"}
    <2>1. request[r].step \in Locked \union {"idle", "create"}
      BY DEF UploadInv, RequestKnows
    <2>2. request[r].step # "idle"
      BY DEF U!Handle, U!Persist, U!PersistFails, U!Register, U!Assemble, U!Complete, U!Abort,
             U!CommitAbort, U!Rollback
    <2> QED
      BY <2>1, <2>2
  <1>2. PICK s \in Sessions : request[r].session = s
    BY <1>1, InHand
  <1> QED
    BY <1>1, <1>2, PersistUpload, PersistFailsUpload, RegisterUpload, AssembleUpload, CompleteUpload,
       AbortUpload, CommitAbortUpload, RollbackUpload DEF U!Handle

LEMMA ExpireUpload ==
    ASSUME UploadInv, UNCHANGED <<session, lock, store, request, reaper, leaked>>
    PROVE  UploadInv'
  <1>1. UploadTypes' /\ OneCreator' /\ ReaperKnows'
    BY DEF UploadInv, UploadTypes, OneCreator, ReaperKnows, EmptyOrLeaked
  <1>2. ASSUME NEW r \in Requests PROVE RequestKnows(r)'
    BY DEF UploadInv, RequestKnows, EmptyOrLeaked
  <1>3. ASSUME NEW s \in Sessions PROVE RowTells(s)'
    BY DEF UploadInv, RowTells, EmptyOrLeaked
  <1> QED
    BY <1>1, <1>2, <1>3 DEF UploadInv

\* A chunk is put into an open upload, which no cleanup has closed.
LEMMA PutUpload ==
    ASSUME UploadInv, NEW s \in Sessions, NEW i \in U!Chunks, NEW content, U!Put(s, i, content)
    PROVE  UploadInv'
  <1> DEFINE x == [store[s] EXCEPT !.parts[i] = content]
  <1>1. /\ store[s].upload = "open" /\ store' = [store EXCEPT ![s].parts[i] = content]
        /\ UNCHANGED <<session, lock, request, reaper, leaked>>
    BY DEF U!Put
  <1>2. /\ store'[s] = x /\ DOMAIN store' = Sessions
        /\ \A t \in Sessions : t # s => store'[t] = store[t]
    BY <1>1 DEF UploadInv, UploadTypes
  <1>3. StoreShape(x) /\ x.upload = store[s].upload /\ x.object = store[s].object
    BY DEF UploadInv, UploadTypes, StoreShape
  <1> HIDE DEF x
  <1>4. \A t \in Sessions : /\ store'[t].upload = store[t].upload
                            /\ store'[t].object = store[t].object
                            /\ (EmptyOrLeaked(t) => EmptyOrLeaked(t)')
    BY <1>1, <1>2, <1>3, UploadFacts DEF EmptyOrLeaked
  <1>5. UploadTypes' /\ OneCreator'
    BY <1>1, <1>2, <1>3 DEF UploadInv, UploadTypes, OneCreator
  <1>6. ReaperKnows'
    BY <1>1, <1>4 DEF UploadInv, ReaperKnows
  <1>7. ASSUME NEW r \in Requests PROVE RequestKnows(r)'
    <2>1. RequestKnows(r) /\ request'[r] = request[r]
      BY <1>1 DEF UploadInv
    <2>2. CASE request[r].step \notin Locked \union {"create"}
      BY <2>1, <2>2 DEF RequestKnows, Locked
    <2>3. CASE request[r].step \in Locked \union {"create"}
      <3>1. PICK t \in Sessions : request[r].session = t
        BY <2>3, InHand
      <3>2. EmptyOrLeaked(t)' => (t \in leaked' \/ store'[t] = U!EmptyStore)
        BY DEF EmptyOrLeaked
      <3> QED
        BY <1>1, <1>4, <2>1, <3>1, <3>2 DEF RequestKnows, EmptyOrLeaked
    <2> QED
      BY <2>2, <2>3
  <1>8. ASSUME NEW t \in Sessions PROVE RowTells(t)'
    BY <1>1, <1>4 DEF UploadInv, RowTells
  <1> QED
    BY <1>5, <1>6, <1>7, <1>8 DEF UploadInv

\* The reaper, or its end, moves sessions that are free or its own, and no request's.
LEMMA ReaperActs ==
    ASSUME UploadInv, UploadTypes', ReaperKnows', UNCHANGED request,
           NEW moved, moved \subseteq Sessions,
           \A t \in moved : lock[t] \in {NoOne, Reaper},
           \A t \in Sessions : session[t].status = "none" =>
               session'[t] = session[t] /\ store'[t] = store[t],
           \A t \in Sessions \ moved :
               session'[t] = session[t] /\ store'[t] = store[t] /\ lock'[t] = lock[t]
               /\ (t \in leaked' <=> t \in leaked),
           \A t \in moved : RowTells(t)'
    PROVE  UploadInv'
  <1>1. ASSUME NEW r \in Requests PROVE RequestKnows(r)'
    <2>1. RequestKnows(r) /\ request'[r] = request[r]
      BY DEF UploadInv
    <2>2. CASE request[r].step \notin Locked \union {"create"}
      BY <2>1, <2>2 DEF RequestKnows, Locked
    <2>3. CASE request[r].step \in Locked \union {"create"}
      <3>1. PICK t \in Sessions : request[r].session = t
        BY <2>3, InHand
      <3> SUFFICES ASSUME request[r].step \in Locked PROVE RequestKnows(r)'
        BY <2>1, <2>3, <3>1 DEF RequestKnows, Locked
      <3>2. t \notin moved
        BY <2>1, <2>3, <3>1, HoldersAssumption DEF RequestKnows
      <3>3. EmptyOrLeaked(t) => EmptyOrLeaked(t)'
        BY <3>2 DEF EmptyOrLeaked
      <3>4. EmptyOrLeaked(t)' => (t \in leaked' \/ store'[t] = U!EmptyStore)
        BY DEF EmptyOrLeaked
      <3> QED
        BY <2>1, <3>1, <3>2, <3>3, <3>4 DEF RequestKnows, EmptyOrLeaked
    <2> QED
      BY <2>2, <2>3
  <1>2. ASSUME NEW t \in Sessions \ moved PROVE RowTells(t)'
    BY DEF UploadInv, RowTells, EmptyOrLeaked
  <1>3. OneCreator'
    BY DEF UploadInv, OneCreator
  <1> QED
    BY <1>1, <1>2, <1>3 DEF UploadInv

\* The reaper takes a batch of free sessions that are not complete.
LEMMA TakeUpload ==
    ASSUME UploadInv, NEW batch, NEW step, U!Take(batch, step),
           \A s \in batch : s \in Sessions /\ lock[s] = NoOne /\ session[s].status \in Abortable
    PROVE  UploadInv'
  <1>1. /\ lock' = [s \in Sessions |-> IF s \in batch THEN Reaper ELSE lock[s]]
        /\ reaper' = [reaper EXCEPT !.step = step, !.todo = batch, !.held = @ \union batch]
        /\ UNCHANGED <<session, store, request, leaked>>
    BY DEF U!Take
  <1>2. /\ reaper'.todo = batch /\ reaper'.held = reaper.held \union batch /\ reaper'.ok = reaper.ok
        /\ DOMAIN reaper' = {"step", "todo", "held", "ok"}
    BY <1>1 DEF UploadInv, UploadTypes
  <1>3. UploadTypes'
    BY <1>1, <1>2 DEF UploadInv, UploadTypes
  <1>4. ReaperKnows'
    BY <1>1, <1>2 DEF UploadInv, ReaperKnows, EmptyOrLeaked
  <1>5. \A t \in batch : RowTells(t)'
    BY <1>1 DEF UploadInv, RowTells, EmptyOrLeaked
  <1>6. \A t \in batch : session[t].status # "none"
    BY DEF Abortable, Uploading
  <1> QED
    BY <1>1, <1>3, <1>4, <1>5, <1>6, ReaperActs

LEMMA ReapUpload ==
    ASSUME UploadInv, NEW s \in reaper.todo, NEW left, NEW raised \in BOOLEAN,
           U!Cleanup(s, left, raised), UNCHANGED <<session, lock, request>>,
           reaper' = [reaper EXCEPT !.todo = @ \ {s}, !.ok = IF ~raised THEN @ \union {s} ELSE @]
    PROVE  UploadInv'
  <1>1. s \in Sessions /\ s \in reaper.held /\ lock[s] = Reaper /\ session[s].status \in Abortable
        /\ RowTells(s)
    BY DEF UploadInv, ReaperKnows
  <1>2. /\ DOMAIN store' = Sessions /\ StoreShape(store'[s])
        /\ \A t \in Sessions : t # s => store'[t] = store[t] /\ (t \in leaked' <=> t \in leaked)
        /\ EmptyOrLeaked(s) \/ ~raised => EmptyOrLeaked(s)'
        /\ store[s].upload # "none" => store'[s].upload # "none"
    BY <1>1, CleanupLeaves
  <1>3. /\ reaper'.todo = reaper.todo \ {s} /\ reaper'.held = reaper.held
        /\ reaper'.ok = IF ~raised THEN reaper.ok \union {s} ELSE reaper.ok
        /\ DOMAIN reaper' = {"step", "todo", "held", "ok"}
    BY DEF UploadInv, UploadTypes
  <1>4. UploadTypes'
    BY <1>1, <1>2, <1>3 DEF UploadInv, UploadTypes
  <1>5. \A t \in reaper'.ok : EmptyOrLeaked(t)'
    <2>1. ASSUME NEW t \in reaper.ok, t # s PROVE EmptyOrLeaked(t)'
      BY <1>2, <2>1 DEF UploadInv, ReaperKnows, EmptyOrLeaked
    <2>2. s \in reaper.ok \/ ~raised => EmptyOrLeaked(s)'
      BY <1>2 DEF UploadInv, ReaperKnows
    <2> QED
      BY <1>3, <2>1, <2>2
  <1>6. ReaperKnows'
    BY <1>1, <1>3, <1>5 DEF UploadInv, ReaperKnows
  <1>7. RowTells(s)'
    BY <1>1, <1>2 DEF RowTells, Abortable, Uploading
  <1>8. PICK moved : moved = {s}
    OBVIOUS
  <1>9. /\ moved \subseteq Sessions
        /\ \A t \in moved : lock[t] \in {NoOne, Reaper} /\ RowTells(t)'
    BY <1>1, <1>7, <1>8
  <1>10. \A t \in Sessions : session[t].status = "none" => t # s
    BY <1>1 DEF Abortable, Uploading
  <1> QED
    BY <1>2, <1>4, <1>6, <1>8, <1>9, <1>10, ReaperActs

LEMMA CommitReapUpload ==
    ASSUME UploadInv, U!CommitReap
    PROVE  UploadInv'
  <1>1. /\ session' = [s \in Sessions |-> IF s \in reaper.held
                                          THEN U!AbortedRow(s, s \in reaper.ok) ELSE session[s]]
        /\ lock' = [s \in Sessions |-> IF lock[s] = Reaper THEN NoOne ELSE lock[s]]
        /\ reaper' = U!IdleReaper /\ UNCHANGED <<store, request, leaked>>
    BY DEF U!CommitReap
  <1> DEFINE moved == {s \in Sessions : lock[s] = Reaper}
  <1>2. ASSUME NEW s \in reaper.held
        PROVE  RowShape(session'[s]) /\ RowTells(s)'
    <2>1. s \in Sessions /\ RowTells(s) /\ session[s].status \in Abortable
          /\ (s \in reaper.ok => EmptyOrLeaked(s))
      BY DEF UploadInv, ReaperKnows
    <2>2. PICK ok \in BOOLEAN : ok <=> s \in reaper.ok
      <3>1. CASE s \in reaper.ok
        BY <3>1
      <3>2. CASE s \notin reaper.ok
        BY <3>2
      <3> QED
        BY <3>1, <3>2
    <2>3. PICK x : x = U!AbortedRow(s, ok)
      OBVIOUS
    <2>4. session'[s] = x
      BY <1>1, <2>1, <2>2, <2>3
    <2>5. RowShape(x) /\ x.status = "aborted" /\ x.cleaned = (session[s].cleaned \/ ok)
      BY <2>1, <2>3, AbortedRowIs
    <2>6. session[s].status # "none"
      BY <2>1 DEF Abortable, Uploading
    <2>7. EmptyOrLeaked(s) => EmptyOrLeaked(s)'
      BY <1>1 DEF EmptyOrLeaked
    <2> QED
      BY <1>1, <2>1, <2>2, <2>4, <2>5, <2>6, <2>7 DEF RowTells
  <1>3. ASSUME NEW s \in Sessions, s \notin reaper.held
        PROVE  RowShape(session'[s]) /\ session'[s] = session[s] /\ RowTells(s)'
    BY <1>1, <1>3 DEF UploadInv, UploadTypes, RowTells, EmptyOrLeaked
  <1>4. UploadTypes'
    BY <1>1, <1>2, <1>3, UploadFacts DEF UploadInv, UploadTypes
  <1>5. ReaperKnows'
    BY <1>1, UploadFacts DEF ReaperKnows
  <1>6. \A s \in Sessions : session[s].status = "none" => s \notin reaper.held
    BY DEF UploadInv, ReaperKnows, Abortable, Uploading
  <1>7. /\ \A s \in moved : RowTells(s)'
        /\ \A s \in Sessions : session[s].status = "none" => session'[s] = session[s]
    BY <1>2, <1>3, <1>6
  <1>8. \A s \in Sessions \ moved : session'[s] = session[s] /\ lock'[s] = lock[s]
    BY <1>1, <1>3 DEF UploadInv, ReaperKnows
  <1> QED
    BY <1>1, <1>4, <1>5, <1>7, <1>8, ReaperActs

LEMMA ReaperDiesUpload ==
    ASSUME UploadInv, U!ReaperDies
    PROVE  UploadInv'
  <1>1. /\ lock' = [s \in Sessions |-> IF lock[s] = Reaper THEN NoOne ELSE lock[s]]
        /\ reaper' = U!IdleReaper /\ UNCHANGED <<session, store, request, leaked>>
    BY DEF U!ReaperDies
  <1> DEFINE moved == {s \in Sessions : lock[s] = Reaper}
  <1>2. UploadTypes' /\ ReaperKnows'
    BY <1>1, UploadFacts DEF UploadInv, UploadTypes, ReaperKnows
  <1>3. \A s \in moved : RowTells(s)'
    BY <1>1 DEF UploadInv, RowTells, EmptyOrLeaked
  <1>4. \A s \in Sessions \ moved : lock'[s] = lock[s]
    BY <1>1
  <1> QED
    BY <1>1, <1>2, <1>3, <1>4, ReaperActs

LEMMA ReaperStepUpload ==
    ASSUME UploadInv, U!ReaperStep PROVE UploadInv'
  <1>1. CASE U!StartReap
    <2>1. \A s \in U!ExpiredSessions :
             s \in Sessions /\ lock[s] = NoOne /\ session[s].status \in Abortable
      BY DEF U!ExpiredSessions, U!Active, U!LockFree, Abortable, Uploading
    <2> QED
      BY <1>1, <2>1, TakeUpload DEF U!StartReap
  <1>2. CASE U!StartRetry
    <2>1. \A s \in U!UncleanedAborted :
             s \in Sessions /\ lock[s] = NoOne /\ session[s].status \in Abortable
      BY DEF U!UncleanedAborted, U!LockFree, Abortable
    <2> QED
      BY <1>2, <2>1, TakeUpload DEF U!StartRetry
  <1>3. CASE U!Reap
    <2>1. ASSUME NEW s \in reaper.todo, NEW left \in U!AfterCleanup(s), NEW raised \in BOOLEAN,
                 U!Cleanup(s, left, raised),
                 reaper' = [reaper EXCEPT !.todo = @ \ {s},
                                          !.ok = IF ~raised THEN @ \union {s} ELSE @]
          PROVE  UploadInv'
      <3>1. UNCHANGED <<session, lock, request>>
        BY <1>3 DEF U!Reap
      <3> QED
        BY <2>1, <3>1, ReapUpload, ZenonT(30)
    <2> QED
      BY <1>3, <2>1, ZenonT(30) DEF U!Reap, U!ReportsSuccess
  <1> QED
    BY <1>1, <1>2, <1>3, CommitReapUpload DEF U!ReaperStep

LEMMA NextUpload == UploadInv /\ [U!Next]_uploads => UploadInv'
  <1> SUFFICES ASSUME UploadInv, [U!Next]_uploads PROVE UploadInv'
    OBVIOUS
  <1>1. ASSUME NEW s \in Sessions, U!Expire(s) PROVE UploadInv'
    BY <1>1, ExpireUpload DEF U!Expire
  <1>2. ASSUME NEW s \in Sessions, NEW i \in U!Chunks, NEW content \in Contents, U!Put(s, i, content)
        PROVE  UploadInv'
    BY <1>2, PutUpload
  <1>3. ASSUME NEW r \in Requests, U!Handle(r) PROVE UploadInv'
    BY <1>3, HandleUpload
  <1>4. ASSUME NEW r \in Requests, NEW s \in Sessions, U!Receive(r, s) PROVE UploadInv'
    BY <1>4, ReceiveUpload
  <1>5. CASE UNCHANGED uploads
    BY <1>5, ExpireUpload DEF uploads
  <1> QED
    BY <1>1, <1>2, <1>3, <1>4, <1>5, ReaperStepUpload, ReaperDiesUpload DEF U!Next

LEMMA InitUpload == U!Init => UploadInv
  <1> SUFFICES ASSUME U!Init PROVE UploadInv
    OBVIOUS
  <1>1. /\ session = [s \in Sessions |-> [status |-> "none", chunks |-> {}, cleaned |-> FALSE]]
        /\ lock = [s \in Sessions |-> NoOne]
        /\ store = [s \in Sessions |-> [U!EmptyStore EXCEPT !.upload = "none"]]
        /\ request = [r \in Requests |-> U!Idle] /\ reaper = U!IdleReaper
    BY DEF U!Init
  <1>2. StoreShape([U!EmptyStore EXCEPT !.upload = "none"])
    BY DEF U!EmptyStore, StoreShape
  <1>3. UploadTypes
    BY <1>1, <1>2, UploadFacts DEF UploadTypes, RowShape
  <1>4. OneCreator /\ ReaperKnows
    BY <1>1, UploadFacts DEF OneCreator, ReaperKnows
  <1>5. ASSUME NEW r \in Requests PROVE RequestKnows(r)
    BY <1>1, UploadFacts DEF RequestKnows, Locked
  <1>6. ASSUME NEW s \in Sessions PROVE RowTells(s)
    BY <1>1 DEF RowTells
  <1> QED
    BY <1>3, <1>4, <1>5, <1>6 DEF UploadInv

\* Whatever the clients, the reaper and the clock do in whatever order, and whatever
\* dies or fails in between: a complete session has its verified object in the store
\* (complete_upload commits it under the row lock that keeps the reaper and abort
\* away), and a session whose storage_cleaned_at is set has nothing left there,
\* unless a cleanup failed without saying so.
THEOREM StoreHolds == SideSpec => []StoreMatches
<1>1. SideInit => UploadInv
  BY InitUpload DEF SideInit
<1>2. UploadInv /\ [SideNext]_sides => UploadInv'
  BY NextUpload DEF SideNext, OfOutbox, OfUploads, OfJobs, OfCreators, sides
<1>3. UploadInv => StoreMatches
  BY DEF UploadInv, RowTells, EmptyOrLeaked, StoreMatches, U!StoreMatches, U!CompleteIsStored,
         U!CleanedIsEmpty
<1> QED
  BY <1>1, <1>2, <1>3, PTL DEF SideSpec

-----------------------------------------------------------------------------
(* The jobs of the media pipeline *)

HasRow(q) == q.step \in {"locked", "next", "running"}

HasSlot(q) == q.step \in {"next", "running", "lost", "ending"}

\* What the outbox has of a job: one event for each stage that is done, and f and c
\* that it has failed and that it is complete.
History(e, d, f, c) ==
    /\ \A s \in J!Stages : e[s] = IF s <= d THEN 1 ELSE 0
    /\ e[J!Failed] = f /\ e[J!Published] = c

One(b) == IF b THEN 1 ELSE 0

\* The retry time of a job stays below its limit while the job runs.
TxShape(q) ==
    /\ q \in J!Transactions
    /\ q.spent < MaxRetries
    /\ q.step = "running" =>
           q.attempt >= 1 /\ q.spent + q.attempt <= MaxRetries /\ q.done < StageCount
    /\ q.step # "idle" => q.key \in Keys

JobRow(x) == x \in J!Jobs /\ x.spent < MaxRetries /\ (x.status = "none" => x.done = 0)

JobShape ==
    /\ job \in [Keys -> J!Jobs] /\ outbox \in [Keys -> [J!Topics -> Nat]]
    /\ active \in [Processes -> Nat]
    /\ \A k \in Keys : JobRow(job[k])
    /\ DOMAIN tx = Advancers /\ \A w \in Advancers : TxShape(tx[w])

OneHasRow ==
    \A v, w \in Advancers : HasRow(tx[v]) /\ HasRow(tx[w]) /\ tx[v].key = tx[w].key => v = w

\* The row of a transaction that has locked it is unfinished and behind it.
Knows(q) ==
    HasRow(q) =>
        /\ job[q.key].status \in {"pending", "running"}
        /\ job[q.key].done <= q.done
        /\ History(q.events, q.done, 0, 0)

OutboxTells ==
    \A k \in Keys : History(outbox[k], job[k].done, One(job[k].status = "failed"),
                            One(job[k].status = "completed"))

RowsInv == JobShape /\ OneHasRow /\ (\A w \in Advancers : Knows(tx[w])) /\ OutboxTells

JobsInv == RowsInv /\ J!SlotsAreTrue

\* What ProgressIsKept says of a step
Progress ==
    \A k \in Keys :
        /\ job'[k].done >= job[k].done
        /\ job[k].status \in J!Terminal => job'[k].status = job[k].status

LEMMA JobConstants ==
    /\ StageCount \in Nat \ {0} /\ MaxRetries \in Nat \ {0} /\ MaxAttempts \in Nat \ {0}
    /\ J!Failed \notin J!Stages /\ J!Published \notin J!Stages /\ J!Failed # J!Published
    /\ J!Stages \subseteq J!Topics /\ J!Failed \in J!Topics /\ J!Published \in J!Topics
    /\ NoKey \notin Keys
  BY PipelineAssumption DEF J!Failed, J!Published, J!Stages, J!Topics

LEMMA IdleTransaction == TxShape(J!Idle) /\ ~HasRow(J!Idle) /\ ~HasSlot(J!Idle)
  BY JobConstants DEF J!Idle, TxShape, HasRow, HasSlot, J!Transactions, J!NoEvents

LEMMA AbsentJob == JobRow(J!NoJob) /\ J!NoJob.done = 0
  BY JobConstants DEF J!NoJob, JobRow, J!Jobs, J!Statuses

\* A transaction goes on, and no row is written.
LEMMA Goes ==
    ASSUME RowsInv, NEW w \in Advancers, NEW q, tx' = [tx EXCEPT ![w] = q], TxShape(q), Knows(q),
           HasRow(q) => \A v \in Advancers \ {w} : HasRow(tx[v]) => tx[v].key # q.key,
           UNCHANGED <<job, outbox>>, active' \in [Processes -> Nat]
    PROVE  RowsInv' /\ Progress
  <1>1. /\ DOMAIN tx' = Advancers /\ tx'[w] = q
        /\ \A v \in Advancers : v # w => tx'[v] = tx[v]
    BY DEF RowsInv, JobShape
  <1>2. JobShape'
    BY <1>1 DEF RowsInv, JobShape
  <1>3. OneHasRow'
    BY <1>1 DEF RowsInv, OneHasRow
  <1>4. \A v \in Advancers : Knows(tx[v])'
    BY <1>1 DEF RowsInv, Knows
  <1>5. OutboxTells'
    BY DEF RowsInv, OutboxTells
  <1>6. Progress
    BY DEF RowsInv, JobShape, Progress, JobRow, J!Jobs
  <1> QED
    BY <1>2, <1>3, <1>4, <1>5, <1>6 DEF RowsInv

\* A transaction commits its row and its events, and has the row no more.
LEMMA Commits ==
    ASSUME RowsInv, NEW w \in Advancers, HasRow(tx[w]), NEW q, tx' = [tx EXCEPT ![w] = q],
           TxShape(q), ~HasRow(q), NEW status \in {"running", "failed", "completed"},
           NEW leased \in BOOLEAN, NEW e \in [J!Topics -> Nat], J!Commit(w, status, leased, e),
           History(e, tx[w].done, One(status = "failed"), One(status = "completed")),
           active' \in [Processes -> Nat]
    PROVE  RowsInv' /\ Progress
  <1> DEFINE k == tx[w].key
             x == J!Saved(w, status, leased)
  <1>1. /\ DOMAIN tx' = Advancers /\ tx'[w] = q
        /\ \A v \in Advancers : v # w => tx'[v] = tx[v]
    BY DEF RowsInv, JobShape
  <1>2. /\ k \in Keys /\ TxShape(tx[w]) /\ JobRow(job[k]) /\ Knows(tx[w])
        /\ \A v \in Advancers : v # w /\ HasRow(tx[v]) => tx[v].key # k
    BY DEF RowsInv, JobShape, TxShape, HasRow, OneHasRow
  <1>3. /\ x \in J!Jobs /\ x.status = status /\ x.done = tx[w].done /\ x.spent = tx[w].spent
    BY <1>2 DEF J!Saved, J!Job, JobRow, J!Jobs, TxShape, J!Transactions, J!Statuses
  <1>4. /\ job' = [job EXCEPT ![k] = x] /\ outbox' = [outbox EXCEPT ![k] = e]
    BY DEF J!Commit
  <1> HIDE DEF k, x
  <1>5. /\ job' \in [Keys -> J!Jobs] /\ outbox' \in [Keys -> [J!Topics -> Nat]]
        /\ job'[k] = x /\ outbox'[k] = e
        /\ \A j \in Keys : j # k => job'[j] = job[j] /\ outbox'[j] = outbox[j]
    BY <1>2, <1>3, <1>4 DEF RowsInv, JobShape
  <1>6. JobShape'
    BY <1>1, <1>2, <1>3, <1>5 DEF RowsInv, JobShape, JobRow, TxShape
  <1>7. OneHasRow'
    BY <1>1 DEF RowsInv, OneHasRow
  <1>8. \A v \in Advancers : Knows(tx[v])'
    <2> SUFFICES ASSUME NEW v \in Advancers, HasRow(tx'[v])
                 PROVE  /\ job'[tx'[v].key].status \in {"pending", "running"}
                        /\ job'[tx'[v].key].done <= tx'[v].done
                        /\ History(tx'[v].events, tx'[v].done, 0, 0)
      BY DEF Knows
    <2>1. v # w /\ tx'[v] = tx[v] /\ tx[v].key \in Keys /\ tx[v].key # k /\ Knows(tx[v])
      BY <1>1, <1>2 DEF RowsInv, JobShape, TxShape, HasRow
    <2> QED
      BY <2>1, <1>5 DEF Knows
  <1>9. OutboxTells'
    BY <1>2, <1>3, <1>5 DEF RowsInv, OutboxTells
  <1>10. Progress
    <2>1. x.done >= job[k].done /\ job[k].status \notin J!Terminal
      BY <1>2, <1>3 DEF Knows, J!Terminal, JobRow, J!Jobs, TxShape, J!Transactions, k
    <2> QED
      BY <2>1, <1>5 DEF RowsInv, JobShape, JobRow, J!Jobs, Progress
  <1> QED
    BY <1>6, <1>7, <1>8, <1>9, <1>10 DEF RowsInv

\* A request that is entered anew knows nothing and has no row.
LEMMA EntersRows ==
    ASSUME RowsInv, NEW w \in Advancers, NEW k \in Keys, NEW u \in Uploads,
           NEW step \in {"ready", "creating"}, J!Enter(w, step, k, u)
    PROVE  RowsInv' /\ Progress
  <1> DEFINE q == [J!Idle EXCEPT !.step = step, !.key = k, !.upload = u]
  <1>1. TxShape(q) /\ ~HasRow(q)
    BY IdleTransaction DEF TxShape, HasRow, J!Transactions, J!Idle
  <1> HIDE DEF q
  <1>2. tx' = [tx EXCEPT ![w] = q] /\ UNCHANGED <<job, outbox, active>>
    BY DEF J!Enter, q
  <1> QED
    BY <1>1, <1>2, Goes DEF Knows, RowsInv, JobShape

\* A request ends that writes nothing.
LEMMA EndsRows ==
    ASSUME RowsInv, NEW w \in Advancers, tx' = [tx EXCEPT ![w] = J!Idle],
           UNCHANGED <<job, outbox>>, active' \in [Processes -> Nat]
    PROVE  RowsInv' /\ Progress
  BY IdleTransaction, Goes DEF Knows

LEMMA DecrementedType ==
    ASSUME active \in [Processes -> Nat], NEW p
    PROVE  J!Decremented(p) \in [Processes -> Nat]
  <1>1. CASE p \in Processes
    <2>1. active[p] \in Nat
      BY <1>1
    <2>2. (IF active[p] > 0 THEN active[p] - 1 ELSE 0) \in Nat
      BY <2>1
    <2> QED
      BY <2>2 DEF J!Decremented
  <1>2. CASE p \notin Processes
    BY <1>2 DEF J!Decremented
  <1> QED
    BY <1>1, <1>2

LEMMA StartRows ==
    ASSUME RowsInv, NEW w \in Advancers, J!Start(w)
    PROVE  RowsInv' /\ Progress
  <1>1. CASE \E k \in Keys, u \in Uploads :
                 J!FoundByKey(w, k, u) \/ J!FoundByUpload(w, k, u) \/ J!NotFound(w, k, u)
    <2>1. PICK k \in Keys, u \in Uploads, step \in {"ready", "creating"} : J!Enter(w, step, k, u)
      BY <1>1 DEF J!FoundByKey, J!FoundByUpload, J!NotFound
    <2> QED
      BY <2>1, EntersRows
  <1>2. CASE J!Create(w)
    <2> DEFINE k == tx[w].key
               q == [tx[w] EXCEPT !.step = "ready"]
               x == [J!NoJob EXCEPT !.status = "pending", !.upload = tx[w].upload]
    <2>1. k \in Keys /\ TxShape(tx[w]) /\ tx[w].step = "creating" /\ job[k].status = "none"
      BY <1>2 DEF J!Create, J!Exists, RowsInv, JobShape, TxShape
    <2>2. TxShape(q) /\ ~HasRow(q)
      BY <2>1 DEF TxShape, HasRow, J!Transactions
    <2>3. JobRow(x) /\ x.done = 0 /\ x.status = "pending"
      BY <2>1, AbsentJob DEF JobRow, J!NoJob, J!Jobs, J!Statuses, TxShape, J!Transactions
    <2>4. tx' = [tx EXCEPT ![w] = q] /\ job' = [job EXCEPT ![k] = x] /\ UNCHANGED <<outbox, active>>
      BY <1>2 DEF J!Create
    <2> HIDE DEF q, x, k
    <2>5. /\ job' \in [Keys -> J!Jobs] /\ job'[k] = x
          /\ \A j \in Keys : j # k => job'[j] = job[j]
          /\ DOMAIN tx' = Advancers /\ tx'[w] = q
          /\ \A v \in Advancers : v # w => tx'[v] = tx[v]
      BY <2>1, <2>3, <2>4 DEF RowsInv, JobShape, JobRow
    <2>6. JobShape'
      BY <2>2, <2>3, <2>4, <2>5 DEF RowsInv, JobShape, JobRow, TxShape
    <2>7. OneHasRow'
      BY <2>2, <2>5 DEF RowsInv, OneHasRow
    <2>8. \A v \in Advancers : Knows(tx[v])'
      <3> SUFFICES ASSUME NEW v \in Advancers, HasRow(tx'[v])
                   PROVE  /\ job'[tx'[v].key].status \in {"pending", "running"}
                          /\ job'[tx'[v].key].done <= tx'[v].done
                          /\ History(tx'[v].events, tx'[v].done, 0, 0)
        BY DEF Knows
      <3>1. v # w /\ tx'[v] = tx[v] /\ tx[v].key \in Keys /\ Knows(tx[v])
        BY <2>2, <2>5 DEF RowsInv, JobShape, TxShape, HasRow
      <3>2. tx[v].key # k
        BY <2>1, <3>1 DEF Knows
      <3> QED
        BY <3>1, <3>2, <2>5 DEF Knows
    <2>9. job[k].done = 0
      BY <2>1 DEF RowsInv, JobShape, JobRow
    <2>10. OutboxTells'
      BY <2>1, <2>3, <2>4, <2>5, <2>9 DEF RowsInv, OutboxTells, One
    <2>11. Progress
      BY <2>1, <2>3, <2>5, <2>9 DEF Progress, J!Terminal, RowsInv, JobShape, JobRow, J!Jobs
    <2> QED
      BY <2>6, <2>7, <2>8, <2>10, <2>11 DEF RowsInv
  <1>3. CASE J!CreateConflicts(w)
    BY <1>3, EndsRows DEF J!CreateConflicts, RowsInv, JobShape
  <1> QED
    BY <1>1, <1>2, <1>3 DEF J!Start

\* What a transaction that has the row has, and may enqueue.
LEMMA HolderFacts ==
    ASSUME RowsInv, NEW w \in Advancers, HasRow(tx[w])
    PROVE  /\ tx[w].key \in Keys /\ TxShape(tx[w]) /\ Knows(tx[w])
           /\ tx[w].events \in [J!Topics -> Nat] /\ tx[w].done \in 0 .. StageCount
           /\ \A v \in Advancers \ {w} : HasRow(tx[v]) => tx[v].key # tx[w].key
           /\ History(tx[w].events, tx[w].done, 0, 0)
           /\ active \in [Processes -> Nat]
  BY DEF RowsInv, JobShape, TxShape, HasRow, OneHasRow, Knows, J!Transactions

LEMMA Enqueues ==
    ASSUME NEW q, TxShape(q), History(q.events, q.done, 0, 0)
    PROVE  /\ \A t \in J!Topics : J!Enqueued(q, t) \in [J!Topics -> Nat]
           /\ History(J!Enqueued(q, J!Failed), q.done, 1, 0)
           /\ History(J!Enqueued(q, J!Published), q.done, 0, 1)
           /\ q.done < StageCount => /\ q.done + 1 \in J!Topics
                                     /\ History(J!Enqueued(q, q.done + 1), q.done + 1, 0, 0)
  <1>1. q.events \in [J!Topics -> Nat] /\ q.done \in 0 .. StageCount
    BY DEF TxShape, J!Transactions
  <1>2. ASSUME NEW t \in J!Topics
        PROVE  /\ J!Enqueued(q, t) \in [J!Topics -> Nat]
               /\ J!Enqueued(q, t)[t] = q.events[t] + 1
               /\ \A s \in J!Topics : s # t => J!Enqueued(q, t)[s] = q.events[s]
    BY <1>1 DEF J!Enqueued
  <1>3. History(J!Enqueued(q, J!Failed), q.done, 1, 0)
    BY <1>2, JobConstants DEF History
  <1>4. History(J!Enqueued(q, J!Published), q.done, 0, 1)
    BY <1>2, JobConstants DEF History
  <1>5. ASSUME q.done < StageCount
        PROVE  q.done + 1 \in J!Topics /\ History(J!Enqueued(q, q.done + 1), q.done + 1, 0, 0)
    <2>1. q.done + 1 \in J!Stages /\ q.done + 1 \in J!Topics
      BY <1>1, <1>5, JobConstants DEF J!Stages
    <2>2. \A s \in J!Stages : s # q.done + 1 => (s <= q.done <=> s <= q.done + 1)
      BY <1>1 DEF J!Stages
    <2>3. q.events[q.done + 1] = 0
      BY <1>1, <2>1 DEF History
    <2> QED
      BY <1>1, <1>2, <2>1, <2>2, <2>3, JobConstants DEF History
  <1> QED
    BY <1>2, <1>3, <1>4, <1>5

LEMMA StageDoneRows ==
    ASSUME RowsInv, NEW w \in Advancers, tx[w].step = "running", tx[w].done < StageCount,
           NEW spent \in Nat, spent < MaxRetries,
           tx' = [tx EXCEPT ![w] = J!StageDone(tx[w], spent)], UNCHANGED <<job, outbox, active>>
    PROVE  RowsInv' /\ Progress
  <1> DEFINE q == J!StageDone(tx[w], spent)
  <1>1. HasRow(tx[w])
    BY DEF HasRow
  <1>2. /\ q.step = "next" /\ q.done = tx[w].done + 1 /\ q.key = tx[w].key
        /\ q.events = J!Enqueued(tx[w], tx[w].done + 1)
        /\ q.spent = spent
    BY <1>1, HolderFacts DEF J!StageDone, TxShape, J!Transactions
  <1>3. History(q.events, q.done, 0, 0) /\ q.events \in [J!Topics -> Nat]
    BY <1>1, <1>2, HolderFacts, Enqueues
  <1>4. q \in J!Transactions
    <2>1. q.done \in 0 .. StageCount /\ spent \in 0 .. MaxRetries /\ 0 \in 0 .. MaxAttempts
      BY <1>1, <1>2, HolderFacts, JobConstants
    <2>2. tx[w] \in J!Transactions
      BY <1>1, HolderFacts DEF TxShape
    <2>4. J!Enqueued(tx[w], tx[w].done + 1) \in [J!Topics -> Nat]
      BY <1>2, <1>3
    <2>3. tx[w].done + 1 \in 0 .. StageCount
      <3>1. tx[w].done \in 0 .. StageCount /\ StageCount \in Nat
        BY <1>1, HolderFacts, JobConstants
      <3> QED
        BY <3>1
    <2>5. ASSUME NEW d \in J!Transactions, NEW n \in 0 .. StageCount, NEW e \in [J!Topics -> Nat],
                 NEW s \in 0 .. MaxRetries
          PROVE  [d EXCEPT !.step = "next", !.done = n, !.spent = s, !.attempt = 0, !.events = e]
                     \in J!Transactions
      BY <2>1 DEF J!Transactions
    <2>6. q = [tx[w] EXCEPT !.step = "next", !.done = tx[w].done + 1, !.spent = spent,
                            !.attempt = 0, !.events = J!Enqueued(tx[w], tx[w].done + 1)]
      BY DEF J!StageDone
    <2> HIDE DEF q
    <2> QED
      BY <2>1, <2>2, <2>3, <2>4, <2>5, <2>6
  <1>5. TxShape(q)
    BY <1>1, <1>2, <1>4, HolderFacts DEF TxShape
  <1>6. Knows(q)
    BY <1>1, <1>2, <1>3, HolderFacts DEF Knows, TxShape, J!Transactions, RowsInv, JobShape, J!Jobs
  <1>7. \A v \in Advancers \ {w} : HasRow(tx[v]) => tx[v].key # q.key
    BY <1>1, <1>2, HolderFacts
  <1> HIDE DEF q
  <1>8. tx' = [tx EXCEPT ![w] = q] /\ active' \in [Processes -> Nat]
    BY <1>1, HolderFacts DEF q
  <1> QED
    BY <1>5, <1>6, <1>7, <1>8, Goes

\* A transaction goes on with the row that it has.
LEMMA KeepsRow ==
    ASSUME RowsInv, NEW w \in Advancers, HasRow(tx[w]), NEW q, TxShape(q),
           q.key = tx[w].key, q.done = tx[w].done, q.events = tx[w].events,
           tx' = [tx EXCEPT ![w] = q], UNCHANGED <<job, outbox>>, active' \in [Processes -> Nat]
    PROVE  RowsInv' /\ Progress
  <1>1. Knows(q)
    BY HolderFacts DEF Knows
  <1> QED
    BY <1>1, HolderFacts, Goes

LEMMA FailRows ==
    ASSUME RowsInv, NEW w \in Advancers, HasRow(tx[w]), J!Fail(w), active' \in [Processes -> Nat]
    PROVE  RowsInv' /\ Progress
  <1> DEFINE q == [tx[w] EXCEPT !.step = "ending"]
             e == J!Enqueued(tx[w], J!Failed)
  <1>1. J!Commit(w, "failed", TRUE, e) /\ tx' = [tx EXCEPT ![w] = q]
    BY DEF J!Fail
  <1>2. TxShape(q) /\ ~HasRow(q)
    BY HolderFacts DEF TxShape, HasRow, J!Transactions
  <1>3. e \in [J!Topics -> Nat] /\ History(e, tx[w].done, 1, 0)
    BY HolderFacts, Enqueues, JobConstants
  <1> HIDE DEF q, e
  <1> QED
    BY <1>1, <1>2, <1>3, Commits DEF One

\* The finally clause gives up the lease and changes nothing else of the row.
LEMMA EndRows ==
    ASSUME RowsInv, NEW w \in Advancers, J!End(w), active' \in [Processes -> Nat]
    PROVE  RowsInv' /\ Progress
  <1> DEFINE k == tx[w].key
             x == [job[k] EXCEPT !.leased = FALSE]
  <1>1. k \in Keys /\ JobRow(job[k])
    BY DEF J!End, RowsInv, JobShape, TxShape
  <1>2. JobRow(x) /\ x.status = job[k].status /\ x.done = job[k].done
    BY <1>1 DEF JobRow, J!Jobs
  <1>3. job' = [job EXCEPT ![k] = x] /\ tx' = [tx EXCEPT ![w] = J!Idle] /\ UNCHANGED outbox
    BY <1>1 DEF J!End, RowsInv, JobShape
  <1> HIDE DEF k, x
  <1>4. /\ job' \in [Keys -> J!Jobs] /\ \A j \in Keys : JobRow(job'[j])
        /\ \A j \in Keys : job'[j].status = job[j].status /\ job'[j].done = job[j].done
    BY <1>1, <1>2, <1>3 DEF RowsInv, JobShape, JobRow
  <1>5. /\ DOMAIN tx' = Advancers /\ tx'[w] = J!Idle
        /\ \A v \in Advancers : v # w => tx'[v] = tx[v]
    BY <1>3 DEF RowsInv, JobShape
  <1>6. JobShape'
    BY <1>3, <1>4, <1>5, IdleTransaction DEF RowsInv, JobShape, JobRow, TxShape
  <1>7. OneHasRow'
    BY <1>5, IdleTransaction DEF RowsInv, OneHasRow
  <1>8. \A v \in Advancers : Knows(tx[v])'
    <2> SUFFICES ASSUME NEW v \in Advancers, HasRow(tx'[v])
                 PROVE  /\ job'[tx'[v].key].status \in {"pending", "running"}
                        /\ job'[tx'[v].key].done <= tx'[v].done
                        /\ History(tx'[v].events, tx'[v].done, 0, 0)
      BY DEF Knows
    <2>1. tx'[v] = tx[v] /\ tx[v].key \in Keys /\ Knows(tx[v])
      BY <1>5, IdleTransaction DEF RowsInv, JobShape, TxShape, HasRow
    <2> QED
      BY <2>1, <1>4 DEF Knows
  <1>9. OutboxTells'
    BY <1>3, <1>4 DEF RowsInv, OutboxTells
  <1>10. Progress
    BY <1>4 DEF Progress, RowsInv, JobShape, JobRow, J!Jobs
  <1> QED
    BY <1>6, <1>7, <1>8, <1>9, <1>10 DEF RowsInv

LEMMA AdvanceRows ==
    ASSUME RowsInv, NEW w \in Advancers, J!Advance(w), active' \in [Processes -> Nat]
    PROVE  RowsInv' /\ Progress
  <1>1. CASE J!Acquire(w)
    <2> DEFINE k == tx[w].key
               q == [tx[w] EXCEPT !.step = "locked", !.done = job[k].done,
                                  !.spent = job[k].spent, !.events = outbox[k]]
    <2>1. /\ k \in Keys /\ TxShape(tx[w]) /\ JobRow(job[k]) /\ outbox[k] \in [J!Topics -> Nat]
          /\ job[k].status \in {"pending", "running"}
          /\ \A v \in Advancers \ {w} : HasRow(tx[v]) => tx[v].key # k
      BY <1>1 DEF J!Acquire, J!Runnable, J!RowFree, RowsInv, JobShape, TxShape, HasRow
    <2>2. q \in J!Transactions
      BY <2>1 DEF TxShape, JobRow, J!Jobs, J!Transactions
    <2>3. /\ q.step = "locked" /\ q.key = k /\ q.done = job[k].done /\ q.spent = job[k].spent
          /\ q.events = outbox[k]
      BY <2>1 DEF TxShape, J!Transactions
    <2>4. TxShape(q)
      BY <2>1, <2>2, <2>3 DEF TxShape, JobRow
    <2>5. History(outbox[k], job[k].done, 0, 0)
      BY <2>1 DEF RowsInv, OutboxTells, One
    <2>6. Knows(q)
      BY <2>1, <2>3, <2>5 DEF Knows, JobRow, J!Jobs
    <2>7. tx' = [tx EXCEPT ![w] = q] /\ UNCHANGED <<job, outbox>>
      BY <1>1 DEF J!Acquire
    <2> HIDE DEF q
    <2> QED
      BY <2>1, <2>3, <2>4, <2>6, <2>7, Goes
  <1>2. CASE J!Decline(w)
    BY <1>2, EndsRows DEF J!Decline
  <1>3. CASE J!Admit(w) \/ J!Begin(w) \/ J!Retry(w)
    <2>1. HasRow(tx[w])
      BY <1>3 DEF HasRow, J!Admit, J!Begin, J!Retry, J!Fails
    <2>2. PICK q : /\ tx' = [tx EXCEPT ![w] = q] /\ TxShape(q)
                   /\ q.key = tx[w].key /\ q.done = tx[w].done /\ q.events = tx[w].events
      <3>1. CASE J!Admit(w)
        <4> DEFINE q == [tx[w] EXCEPT !.step = "next"]
        <4>1. /\ TxShape(q) /\ q.key = tx[w].key /\ q.done = tx[w].done /\ q.events = tx[w].events
          BY <2>1, HolderFacts DEF TxShape, J!Transactions
        <4>2. tx' = [tx EXCEPT ![w] = q]
          BY <3>1 DEF J!Admit
        <4> QED
          BY <4>1, <4>2
      <3>2. CASE J!Begin(w)
        <4> DEFINE q == [tx[w] EXCEPT !.step = "running", !.attempt = 1]
        <4>1. /\ q \in J!Transactions /\ q.step = "running" /\ q.attempt = 1
              /\ q.spent = tx[w].spent /\ q.key = tx[w].key /\ q.done = tx[w].done
              /\ q.events = tx[w].events
          <5>1. tx[w] \in J!Transactions
            BY <2>1, HolderFacts DEF TxShape
          <5>2. 1 \in 0 .. MaxAttempts
            BY JobConstants
          <5> QED
            BY <5>1, <5>2 DEF J!Transactions
        <4>2. TxShape(q)
          <5>1. tx[w].done < StageCount /\ tx[w].spent \in Nat /\ tx[w].spent < MaxRetries
            BY <2>1, <3>2, HolderFacts DEF J!Begin, TxShape, J!Transactions
          <5>2. tx[w].key \in Keys /\ MaxRetries \in Nat
            BY <2>1, HolderFacts, JobConstants
          <5> HIDE DEF q
          <5> QED
            BY <4>1, <5>1, <5>2 DEF TxShape
        <4>3. tx' = [tx EXCEPT ![w] = q]
          BY <3>2 DEF J!Begin
        <4> QED
          BY <4>1, <4>2, <4>3
      <3>3. CASE J!Retry(w)
        <4> DEFINE q == [tx[w] EXCEPT !.attempt = tx[w].attempt + 1]
        <4>1. /\ tx[w] \in J!Transactions /\ TxShape(tx[w]) /\ tx[w].step = "running"
              /\ tx[w].attempt # MaxAttempts /\ tx[w].spent + tx[w].attempt < MaxRetries
          BY <2>1, <3>3, HolderFacts DEF J!Retry, J!Fails, J!LastAttempt, J!SpentIfFails, TxShape
        <4>2. tx[w].attempt \in 0 .. MaxAttempts /\ tx[w].spent \in 0 .. MaxRetries
          BY <4>1 DEF J!Transactions
        <4>3. tx[w].attempt + 1 \in 0 .. MaxAttempts
          BY <4>1, <4>2, JobConstants
        <4>4. /\ q \in J!Transactions /\ q.attempt = tx[w].attempt + 1 /\ q.spent = tx[w].spent
              /\ q.key = tx[w].key /\ q.done = tx[w].done /\ q.events = tx[w].events
              /\ q.step = tx[w].step
          BY <4>1, <4>3 DEF J!Transactions
        <4>5. TxShape(q)
          BY <4>1, <4>2, <4>4, JobConstants DEF TxShape
        <4>6. tx' = [tx EXCEPT ![w] = q]
          BY <3>3 DEF J!Retry
        <4> QED
          BY <4>4, <4>5, <4>6
      <3> QED
        BY <1>3, <3>1, <3>2, <3>3
    <2>3. UNCHANGED <<job, outbox>>
      BY <1>3 DEF J!Admit, J!Begin, J!Retry
    <2> QED
      BY <2>1, <2>2, <2>3, KeepsRow
  <1>4. CASE J!Refuse(w) \/ J!BreakerOpen(w)
    <2>1. HasRow(tx[w]) /\ J!Commit(w, "running", FALSE, tx[w].events)
          /\ tx' = [tx EXCEPT ![w] = J!Idle]
      BY <1>4 DEF HasRow, J!Refuse, J!BreakerOpen, J!Leave
    <2> QED
      BY <2>1, HolderFacts, IdleTransaction, Commits DEF One
  <1>5. CASE J!Succeed(w)
    <2> DEFINE spent == tx[w].spent + tx[w].attempt - 1
    <2>1. HasRow(tx[w]) /\ tx[w].step = "running"
      BY <1>5 DEF HasRow, J!Succeed
    <2>2. spent \in Nat /\ spent < MaxRetries
      BY <2>1, HolderFacts, JobConstants DEF TxShape, J!Transactions
    <2>3. tx' = [tx EXCEPT ![w] = J!StageDone(tx[w], spent)] /\ UNCHANGED <<job, outbox, active>>
      BY <1>5 DEF J!Succeed
    <2>4. tx[w].done < StageCount
      BY <2>1, HolderFacts DEF TxShape
    <2> QED
      BY <2>1, <2>2, <2>3, <2>4, StageDoneRows
  <1>6. CASE J!Skip(w)
    <2> DEFINE spent == tx[w].spent + tx[w].attempt
    <2>1. HasRow(tx[w]) /\ tx[w].step = "running"
      BY <1>6 DEF HasRow, J!Skip, J!Fails
    <2>2. spent \in Nat /\ spent < MaxRetries
      BY <1>6, <2>1, HolderFacts, JobConstants DEF J!Skip, J!SpentIfFails, TxShape, J!Transactions
    <2>3. tx' = [tx EXCEPT ![w] = J!StageDone(tx[w], spent)] /\ UNCHANGED <<job, outbox, active>>
      BY <1>6 DEF J!Skip, J!SpentIfFails
    <2>4. tx[w].done < StageCount
      BY <2>1, HolderFacts DEF TxShape
    <2> QED
      BY <2>1, <2>2, <2>3, <2>4, StageDoneRows
  <1>7. CASE J!Exhausted(w) \/ J!OutOfTime(w) \/ J!OverQuota(w)
    <2>1. HasRow(tx[w]) /\ J!Fail(w)
      BY <1>7 DEF HasRow, J!Exhausted, J!OutOfTime, J!OverQuota, J!Fails
    <2> QED
      BY <2>1, FailRows
  <1>8. CASE J!Complete(w)
    <2> DEFINE q == [tx[w] EXCEPT !.step = "ending"]
               e == J!Enqueued(tx[w], J!Published)
    <2>1. HasRow(tx[w]) /\ J!Commit(w, "completed", TRUE, e) /\ tx' = [tx EXCEPT ![w] = q]
      BY <1>8 DEF HasRow, J!Complete
    <2>2. TxShape(q) /\ ~HasRow(q)
      BY <2>1, HolderFacts DEF TxShape, HasRow, J!Transactions
    <2>3. e \in [J!Topics -> Nat] /\ History(e, tx[w].done, 0, 1)
      BY <2>1, HolderFacts, Enqueues, JobConstants
    <2> HIDE DEF q, e
    <2> QED
      BY <2>1, <2>2, <2>3, Commits DEF One
  <1>9. CASE J!End(w)
    BY <1>9, EndRows
  <1> QED
    BY <1>1, <1>2, <1>3, <1>4, <1>5, <1>6, <1>7, <1>8, <1>9 DEF J!Advance

\* A cancellation, a lost transaction and its end
LEMMA FaultRows ==
    ASSUME RowsInv, NEW w \in Advancers, J!Cancel(w) \/ J!Lose(w) \/ J!Unwind(w),
           active' \in [Processes -> Nat]
    PROVE  RowsInv' /\ Progress
  <1>1. CASE J!Cancel(w) /\ J!Leave(w)
    <2>1. HasRow(tx[w]) /\ J!Commit(w, "running", FALSE, tx[w].events)
          /\ tx' = [tx EXCEPT ![w] = J!Idle]
      BY <1>1 DEF HasRow, J!Cancel, J!Leave
    <2> QED
      BY <2>1, HolderFacts, IdleTransaction, Commits DEF One
  <1>2. CASE J!RolledBack(w)
    BY <1>2, EndsRows DEF J!RolledBack
  <1>3. CASE J!Lose(w)
    <2> DEFINE q == IF tx[w].step = "locked" THEN J!Idle
                    ELSE [J!Idle EXCEPT !.step = "lost", !.key = tx[w].key]
    <2>1. TxShape(tx[w]) /\ tx[w].key \in Keys /\ w \in DOMAIN tx
      BY <1>3 DEF RowsInv, JobShape, TxShape, J!Lose
    <2>2. TxShape(q) /\ ~HasRow(q)
      BY <2>1, IdleTransaction DEF TxShape, HasRow, J!Transactions, J!Idle
    <2>3. tx' = [tx EXCEPT ![w] = q] /\ UNCHANGED <<job, outbox>>
      BY <1>3 DEF J!Lose
    <2> HIDE DEF q
    <2> QED
      BY <2>2, <2>3, Goes DEF Knows
  <1> QED
    BY <1>1, <1>2, <1>3 DEF J!Cancel, J!Unwind

LEMMA CrashRows ==
    ASSUME RowsInv, NEW p \in Processes, J!Crash(p), active' \in [Processes -> Nat]
    PROVE  RowsInv' /\ Progress
  <1>1. /\ DOMAIN tx' = Advancers /\ UNCHANGED <<job, outbox>>
        /\ \A v \in Advancers : tx'[v] = tx[v] \/ tx'[v] = J!Idle
    BY DEF J!Crash
  <1>2. JobShape'
    BY <1>1, IdleTransaction DEF RowsInv, JobShape
  <1>3. OneHasRow'
    BY <1>1, IdleTransaction DEF RowsInv, OneHasRow
  <1>4. \A v \in Advancers : Knows(tx[v])'
    BY <1>1, IdleTransaction DEF RowsInv, Knows
  <1>5. OutboxTells' /\ Progress
    BY <1>1 DEF RowsInv, OutboxTells, Progress, JobShape, JobRow, J!Jobs
  <1> QED
    BY <1>2, <1>3, <1>4, <1>5 DEF RowsInv

-----------------------------------------------------------------------------
(* The semaphores of a process *)

SlotsOf(p) == {w \in Advancers : J!Me(w) = p /\ HasSlot(tx[w])}

LEMMA SameCardinality == ASSUME NEW S PROVE J!Cardinality(S) = Cardinality(S)
  BY DEF Cardinality, J!Cardinality

LEMMA SlotsAreCounted ==
    J!SlotsAreTrue <=> \A p \in Processes : /\ active[p] = Cardinality(SlotsOf(p))
                                            /\ active[p] <= MaxActive
  <1>1. \A p : SlotsOf(p) = {w \in Advancers : J!Me(w) = p /\ J!Counted(w)}
    BY DEF J!Counted, SlotsOf, HasSlot
  <1> QED
    BY <1>1, SameCardinality DEF J!SlotsAreTrue

LEMMA SlotsAreCountedNext ==
    (\A p \in Processes : active'[p] = Cardinality(SlotsOf(p)') /\ active'[p] <= MaxActive)
        => J!SlotsAreTrue'
  <1>1. \A p : SlotsOf(p)' = {w \in Advancers : J!Me(w) = p /\ J!Counted(w)'}
    BY DEF J!Counted, SlotsOf, HasSlot, J!Me
  <1> QED
    <2> SUFFICES ASSUME \A p \in Processes : /\ active'[p] = Cardinality(SlotsOf(p)')
                                              /\ active'[p] <= MaxActive
                 PROVE  \A p \in Processes :
                            /\ active'[p] = Cardinality({w \in Advancers :
                                                            J!Me(w) = p /\ J!Counted(w)'})
                            /\ active'[p] <= MaxActive
      BY DEF J!SlotsAreTrue, J!Me, Cardinality, J!Cardinality
    <2> QED
      BY <1>1

LEMMA SlotsAreFinite ==
    ASSUME NEW p
    PROVE  IsFiniteSet(SlotsOf(p)) /\ Cardinality(SlotsOf(p)) \in Nat
  BY PipelineAssumption, FS_Subset, FS_CardinalityType DEF SlotsOf

\* The transaction of w has a slot after the step if it had one before it.
LEMMA SlotKept ==
    ASSUME JobShape, J!SlotsAreTrue, NEW w \in Advancers, NEW q, tx' = [tx EXCEPT ![w] = q],
           HasSlot(q) <=> HasSlot(tx[w]), UNCHANGED active
    PROVE  J!SlotsAreTrue'
  <1>1. tx'[w] = q /\ \A v \in Advancers : v # w => tx'[v] = tx[v]
    BY DEF JobShape
  <1>2. \A p : SlotsOf(p)' = SlotsOf(p)
    BY <1>1 DEF SlotsOf, J!Me
  <1> QED
    BY <1>2, SlotsAreCounted, SlotsAreCountedNext

LEMMA SlotTaken ==
    ASSUME JobShape, J!SlotsAreTrue, NEW w \in Advancers, NEW q, tx' = [tx EXCEPT ![w] = q],
           HasSlot(q), ~HasSlot(tx[w]), active[J!Me(w)] < MaxActive,
           active' = [active EXCEPT ![J!Me(w)] = @ + 1]
    PROVE  J!SlotsAreTrue'
  <1> DEFINE m == J!Me(w)
  <1>1. tx'[w] = q /\ \A v \in Advancers : v # w => tx'[v] = tx[v]
    BY DEF JobShape
  <1>2. m \in Processes /\ active \in [Processes -> Nat] /\ MaxActive \in Nat
    BY PipelineAssumption DEF JobShape, J!Me
  <1>3. SlotsOf(m)' = SlotsOf(m) \union {w} /\ w \notin SlotsOf(m)
    BY <1>1 DEF SlotsOf, J!Me
  <1>4. \A p \in Processes : p # m => SlotsOf(p)' = SlotsOf(p)
    BY <1>1 DEF SlotsOf, J!Me
  <1>5. Cardinality(SlotsOf(m)') = Cardinality(SlotsOf(m)) + 1
    BY <1>3, SlotsAreFinite, FS_AddElement
  <1> HIDE DEF m
  <1>6. /\ active'[m] = active[m] + 1 /\ active[m] < MaxActive
        /\ \A p \in Processes : p # m => active'[p] = active[p]
    BY <1>2 DEF m
  <1> QED
    BY <1>2, <1>4, <1>5, <1>6, SlotsAreCounted, SlotsAreCountedNext

LEMMA SlotGivenUp ==
    ASSUME JobShape, J!SlotsAreTrue, NEW w \in Advancers, NEW q, tx' = [tx EXCEPT ![w] = q],
           ~HasSlot(q), HasSlot(tx[w]), active' = J!Decremented(J!Me(w))
    PROVE  J!SlotsAreTrue'
  <1> DEFINE m == J!Me(w)
  <1>1. tx'[w] = q /\ \A v \in Advancers : v # w => tx'[v] = tx[v]
    BY DEF JobShape
  <1>2. m \in Processes /\ active \in [Processes -> Nat] /\ MaxActive \in Nat
    BY PipelineAssumption DEF JobShape, J!Me
  <1>3. SlotsOf(m)' = SlotsOf(m) \ {w} /\ w \in SlotsOf(m)
    BY <1>1 DEF SlotsOf, J!Me
  <1>4. \A p \in Processes : p # m => SlotsOf(p)' = SlotsOf(p)
    BY <1>1 DEF SlotsOf, J!Me
  <1>5. /\ Cardinality(SlotsOf(m)') = Cardinality(SlotsOf(m)) - 1
        /\ Cardinality(SlotsOf(m)) > 0
    <2>1. Cardinality(SlotsOf(m)') = Cardinality(SlotsOf(m)) - 1
      BY <1>3, SlotsAreFinite, FS_RemoveElement
    <2>2. Cardinality(SlotsOf(m)) # 0
      BY <1>3, SlotsAreFinite, FS_EmptySet
    <2> QED
      BY <2>1, <2>2, SlotsAreFinite
  <1>6. /\ active'[m] = IF active[m] > 0 THEN active[m] - 1 ELSE 0
        /\ \A p \in Processes : p # m => active'[p] = active[p]
    BY <1>2 DEF J!Decremented
  <1> HIDE DEF m
  <1>7. active[m] = Cardinality(SlotsOf(m)) /\ active[m] <= MaxActive
    BY <1>2, SlotsAreCounted
  <1> QED
    BY <1>2, <1>4, <1>5, <1>6, <1>7, SlotsAreCounted, SlotsAreCountedNext

LEMMA SlotsOfCrash ==
    ASSUME JobShape, J!SlotsAreTrue, NEW p \in Processes, J!Crash(p)
    PROVE  J!SlotsAreTrue'
  <1>1. /\ \A v \in Advancers : J!Me(v) = p => tx'[v] = J!Idle
        /\ \A v \in Advancers : J!Me(v) # p => tx'[v] = tx[v]
        /\ active'[p] = 0 /\ \A r \in Processes : r # p => active'[r] = active[r]
    BY DEF J!Crash, JobShape, J!Me
  <1>2. SlotsOf(p)' = {}
    BY <1>1, IdleTransaction DEF SlotsOf, J!Me
  <1>3. \A r \in Processes : r # p => SlotsOf(r)' = SlotsOf(r)
    BY <1>1 DEF SlotsOf, J!Me
  <1>4. MaxActive >= 0
    BY PipelineAssumption
  <1> QED
    BY <1>1, <1>2, <1>3, <1>4, FS_EmptySet, SlotsAreCounted, SlotsAreCountedNext

LEMMA SlotsOfRequest ==
    ASSUME JobShape, J!SlotsAreTrue, NEW w \in Advancers,
           J!Start(w) \/ J!Advance(w) \/ J!Cancel(w) \/ J!Lose(w) \/ J!Unwind(w)
    PROVE  J!SlotsAreTrue'
  <1>1. TxShape(tx[w]) /\ tx[w] \in J!Transactions /\ J!Idle.step = "idle"
    BY DEF JobShape, TxShape, J!Idle
  <1>2. CASE J!Start(w)
    <2>1. PICK q : tx' = [tx EXCEPT ![w] = q] /\ ~HasSlot(q) /\ ~HasSlot(tx[w]) /\ UNCHANGED active
      <3>1. CASE \E k \in Keys, u \in Uploads :
                     J!FoundByKey(w, k, u) \/ J!FoundByUpload(w, k, u) \/ J!NotFound(w, k, u)
        <4>1. PICK k \in Keys, u \in Uploads, step \in {"ready", "creating"} : J!Enter(w, step, k, u)
          BY <3>1 DEF J!FoundByKey, J!FoundByUpload, J!NotFound
        <4>2. tx[w] = J!Idle
          BY <3>1 DEF J!FoundByKey, J!FoundByUpload, J!NotFound
        <4>3. ~HasSlot([J!Idle EXCEPT !.step = step, !.key = k, !.upload = u])
          BY DEF J!Idle, HasSlot
        <4> QED
          BY <4>1, <4>2, <4>3, IdleTransaction DEF J!Enter
      <3>2. CASE J!Create(w)
        <4>1. ~HasSlot([tx[w] EXCEPT !.step = "ready"])
          BY <1>1 DEF HasSlot, J!Transactions
        <4> QED
          BY <3>2, <4>1 DEF J!Create, HasSlot
      <3>3. CASE J!CreateConflicts(w)
        BY <3>3, IdleTransaction DEF J!CreateConflicts, HasSlot
      <3> QED
        BY <1>2, <3>1, <3>2, <3>3 DEF J!Start
    <2> QED
      BY <2>1, SlotKept
  <1>3. CASE J!Acquire(w)
    <2> DEFINE k == tx[w].key
               q == [tx[w] EXCEPT !.step = "locked", !.done = job[k].done,
                                  !.spent = job[k].spent, !.events = outbox[k]]
    <2>1. q.step = "locked"
      BY <1>1 DEF J!Transactions
    <2>2. tx' = [tx EXCEPT ![w] = q] /\ tx[w].step = "ready" /\ UNCHANGED active
      BY <1>3 DEF J!Acquire
    <2> HIDE DEF q
    <2> QED
      BY <2>1, <2>2, SlotKept DEF HasSlot
  <1>4. CASE J!Decline(w) \/ J!Refuse(w)
    BY <1>4, IdleTransaction, SlotKept DEF J!Decline, J!Refuse, HasSlot
  <1>5. CASE J!Admit(w)
    <2>1. [tx[w] EXCEPT !.step = "next"].step = "next"
      BY <1>1 DEF J!Transactions
    <2>2. tx' = [tx EXCEPT ![w] = [tx[w] EXCEPT !.step = "next"]]
      BY <1>5 DEF J!Admit
    <2> QED
      BY <1>5, <2>1, <2>2, SlotTaken DEF J!Admit, HasSlot
  <1>6. CASE J!Begin(w)
    <2> DEFINE q == [tx[w] EXCEPT !.step = "running", !.attempt = 1]
    <2>1. q.step = "running"
      BY <1>1 DEF J!Transactions
    <2>2. tx' = [tx EXCEPT ![w] = q] /\ tx[w].step = "next" /\ UNCHANGED active
      BY <1>6 DEF J!Begin
    <2> HIDE DEF q
    <2> QED
      BY <2>1, <2>2, SlotKept DEF HasSlot
  <1>7. CASE J!Retry(w)
    <2> DEFINE q == [tx[w] EXCEPT !.attempt = tx[w].attempt + 1]
    <2>1. q.step = tx[w].step
      BY <1>1 DEF J!Transactions
    <2>2. tx' = [tx EXCEPT ![w] = q] /\ UNCHANGED active
      BY <1>7 DEF J!Retry
    <2> HIDE DEF q
    <2> QED
      BY <2>1, <2>2, SlotKept DEF HasSlot
  <1>8. CASE J!Succeed(w) \/ J!Skip(w)
    <2>1. PICK s : tx' = [tx EXCEPT ![w] = J!StageDone(tx[w], s)]
      BY <1>8 DEF J!Succeed, J!Skip
    <2>2. J!StageDone(tx[w], s).step = "next"
      BY <1>1 DEF J!StageDone, J!Transactions
    <2>3. tx[w].step = "running" /\ UNCHANGED active
      BY <1>8 DEF J!Succeed, J!Skip, J!Fails
    <2> QED
      BY <2>1, <2>2, <2>3, SlotKept DEF HasSlot
  <1>9. CASE J!Exhausted(w) \/ J!OutOfTime(w) \/ J!OverQuota(w) \/ J!Complete(w)
    <2> DEFINE q == [tx[w] EXCEPT !.step = "ending"]
    <2>1. q.step = "ending"
      BY <1>1 DEF J!Transactions
    <2>2. tx' = [tx EXCEPT ![w] = q] /\ tx[w].step \in {"next", "running"} /\ UNCHANGED active
      BY <1>9 DEF J!Exhausted, J!OutOfTime, J!OverQuota, J!Complete, J!Fail, J!Fails
    <2> HIDE DEF q
    <2> QED
      BY <2>1, <2>2, SlotKept DEF HasSlot
  <1>10. CASE J!Lose(w)
    <2> DEFINE q == IF tx[w].step = "locked" THEN J!Idle
                    ELSE [J!Idle EXCEPT !.step = "lost", !.key = tx[w].key]
    <2>1. tx[w].step \in {"next", "running"} => q.step = "lost"
      BY DEF J!Idle
    <2>2. tx[w].step = "locked" => q = J!Idle
      OBVIOUS
    <2>3. tx' = [tx EXCEPT ![w] = q] /\ tx[w].step \in {"locked", "next", "running"}
          /\ UNCHANGED active
      BY <1>10 DEF J!Lose
    <2> HIDE DEF q
    <2> QED
      BY <2>1, <2>2, <2>3, IdleTransaction, SlotKept DEF HasSlot
  <1>11. CASE J!BreakerOpen(w) \/ J!End(w) \/ J!Cancel(w) \/ J!Unwind(w)
    <2>1. /\ tx' = [tx EXCEPT ![w] = J!Idle] /\ active' = J!Decremented(J!Me(w))
          /\ tx[w].step \in {"next", "ending", "running", "lost"}
      BY <1>11 DEF J!BreakerOpen, J!End, J!Cancel, J!Unwind, J!Leave, J!RolledBack
    <2> QED
      BY <2>1, IdleTransaction, SlotGivenUp DEF HasSlot
  <1> QED
    BY <1>2, <1>3, <1>4, <1>5, <1>6, <1>7, <1>8, <1>9, <1>10, <1>11 DEF J!Advance

LEMMA ActiveType ==
    ASSUME active \in [Processes -> Nat], J!Next
    PROVE  active' \in [Processes -> Nat]
  <1>1. ASSUME NEW p, active' = [active EXCEPT ![p] = @ + 1]
        PROVE  active' \in [Processes -> Nat]
    <2>1. CASE p \in Processes
      BY <1>1, <2>1
    <2>2. CASE p \notin Processes
      BY <1>1, <2>2
    <2> QED
      BY <2>1, <2>2
  <1>2. ASSUME NEW p, active' = [active EXCEPT ![p] = 0]
        PROVE  active' \in [Processes -> Nat]
    BY <1>2
  <1>4. ASSUME NEW w \in Advancers, J!Admit(w)
        PROVE  active' \in [Processes -> Nat]
    BY <1>1, <1>4 DEF J!Admit
  <1>5. ASSUME NEW w \in Advancers,
               J!Leave(w) \/ J!RolledBack(w) \/ J!BreakerOpen(w) \/ J!End(w) \/ J!Cancel(w)
        PROVE  active' \in [Processes -> Nat]
    <2>1. active' = J!Decremented(J!Me(w))
      BY <1>5 DEF J!Leave, J!RolledBack, J!BreakerOpen, J!End, J!Cancel
    <2> QED
      BY <2>1, DecrementedType
  <1>6. ASSUME NEW w \in Advancers, J!Start(w) \/ J!Lose(w)
        PROVE  active' \in [Processes -> Nat]
    BY <1>6 DEF J!Start, J!Lose, J!Enter, J!FoundByKey, J!FoundByUpload, J!NotFound, J!Create,
                J!CreateConflicts
  <1>7. ASSUME NEW w \in Advancers, J!Advance(w)
        PROVE  active' \in [Processes -> Nat]
    <2>1. CASE J!Admit(w) \/ J!BreakerOpen(w) \/ J!End(w)
      BY <2>1, <1>4, <1>5
    <2>2. CASE J!Acquire(w) \/ J!Decline(w) \/ J!Refuse(w) \/ J!Begin(w) \/ J!Succeed(w) \/ J!Retry(w)
      BY <2>2 DEF J!Acquire, J!Decline, J!Refuse, J!Begin, J!Succeed, J!Retry
    <2>3. CASE J!Skip(w) \/ J!Exhausted(w) \/ J!OutOfTime(w) \/ J!OverQuota(w) \/ J!Complete(w)
      BY <2>3 DEF J!Skip, J!Exhausted, J!OutOfTime, J!OverQuota, J!Complete, J!Fail
    <2> QED
      BY <1>7, <2>1, <2>2, <2>3 DEF J!Advance
  <1>8. ASSUME NEW p \in Processes, J!Crash(p)
        PROVE  active' \in [Processes -> Nat]
    BY <1>2, <1>8 DEF J!Crash
  <1> QED
    BY <1>5, <1>6, <1>7, <1>8 DEF J!Next, J!Unwind

LEMMA JobsStart ==
    ASSUME J!Init
    PROVE  JobsInv
  <1>1. \A w \in Advancers : tx[w] = J!Idle
    BY DEF J!Init
  <1>2. JobShape
    BY <1>1, IdleTransaction, AbsentJob DEF JobShape, J!Init, JobRow, J!NoEvents
  <1>3. OneHasRow /\ \A w \in Advancers : Knows(tx[w])
    BY <1>1, IdleTransaction DEF OneHasRow, Knows
  <1>4. OutboxTells
    <2> SUFFICES ASSUME NEW k \in Keys PROVE History(J!NoEvents, J!NoJob.done, 0, 0)
      BY DEF OutboxTells, J!Init, One, J!NoJob
    <2>1. \A s \in J!Stages : ~(s <= 0)
      BY DEF J!Stages
    <2> QED
      BY <2>1, JobConstants DEF History, J!NoEvents, J!NoJob
  <1>5. J!SlotsAreTrue
    <2>1. ASSUME NEW p \in Processes PROVE active[p] = 0 /\ SlotsOf(p) = {}
      BY <1>1, IdleTransaction DEF J!Init, SlotsOf
    <2> QED
      BY <2>1, FS_EmptySet, SlotsAreCounted, PipelineAssumption
  <1> QED
    BY <1>2, <1>3, <1>4, <1>5 DEF JobsInv, RowsInv

LEMMA JobsStep ==
    ASSUME JobsInv, J!Next
    PROVE  JobsInv' /\ Progress
  <1>1. RowsInv /\ J!SlotsAreTrue /\ JobShape /\ active' \in [Processes -> Nat]
    BY ActiveType DEF JobsInv, RowsInv, JobShape
  <1>2. ASSUME NEW w \in Advancers,
               J!Start(w) \/ J!Advance(w) \/ J!Cancel(w) \/ J!Lose(w) \/ J!Unwind(w)
        PROVE  JobsInv' /\ Progress
    BY <1>1, <1>2, StartRows, AdvanceRows, FaultRows, SlotsOfRequest DEF JobsInv
  <1>3. ASSUME NEW p \in Processes, J!Crash(p)
        PROVE  JobsInv' /\ Progress
    BY <1>1, <1>3, CrashRows, SlotsOfCrash DEF JobsInv
  <1> QED
    BY <1>2, <1>3 DEF J!Next

LEMMA JobsRest ==
    ASSUME JobsInv, UNCHANGED jobs
    PROVE  JobsInv' /\ Progress
  BY DEF JobsInv, RowsInv, JobShape, OneHasRow, Knows, OutboxTells, J!SlotsAreTrue, J!Counted, J!Me,
         Progress, jobs, JobRow, J!Jobs

LEMMA JobsInvariant == SideSpec => [](JobsInv)
  <1>1. SideInit => JobsInv
    BY JobsStart DEF SideInit
  <1>2. JobsInv /\ [SideNext]_sides => JobsInv'
    BY JobsStep, JobsRest DEF SideNext, OfOutbox, OfUploads, OfJobs, OfCreators, sides
  <1> QED
    BY <1>1, <1>2, PTL DEF SideSpec

\* Whatever crashes, is cancelled, is lost or resumed, the outbox of a job tells its
\* history and the semaphores of a process count the jobs that it runs.
THEOREM JobsHold == SideSpec => [](JobsAreAccounted)
  <1>1. JobsInv => JobsAreAccounted
    BY DEF JobsInv, RowsInv, OutboxTells, History, One, JobsAreAccounted, J!EventsMatchTheJob
  <1> QED
    BY <1>1, JobsInvariant, PTL

\* No request takes back what another one has committed, and the end of a job is final.
THEOREM ProgressHolds == SideSpec => ProgressIsKept
  <1>1. JobsInv /\ [SideNext]_sides => [Progress]_(J!vars)
    BY JobsStep, JobsRest DEF SideNext, OfOutbox, OfUploads, OfJobs, OfCreators, sides
  <1>2. SideSpec => [][Progress]_(J!vars)
    BY <1>1, JobsInvariant, PTL DEF SideSpec
  <1> QED
    BY <1>2 DEF ProgressIsKept, J!ProgressIsKept, Progress

-----------------------------------------------------------------------------
(* The accounts of the creators *)

CallSteps == {"idle", "onboarding", "loaded", "computed", "releasing", "killing"}

CallShape(q) ==
    /\ q \in [at : CallSteps, period : Periods \union {None}, earned : Nat, fee : Nat, floor : Nat,
              threshold : Thresholds \union {None}, seen : SUBSET (Thresholds \union C!Tranches)]
    /\ q.at \in {"loaded", "computed"} => q.period \in Periods
    /\ q.at = "releasing" => q.threshold \in Thresholds

AccountShape ==
    /\ floor \in Nat
    /\ pool \in C!Balances \union {None}
    /\ ledger \in [Periods -> C!Payouts \union {None}]
    /\ part \in [Thresholds -> C!Tranches]
    /\ DOMAIN call = Calls /\ \A r \in Calls : CallShape(call[r])

\* A released tranche that a kill has read has been released since.
Spares(q) == q.at = "killing" => \A t \in q.seen \intersect Thresholds : part[t] = "released" => t \in overtaken

CreatorsInv == AccountShape /\ \A r \in Calls : Spares(call[r])

\* What CreatorsArePaid says of a step
Paid ==
    /\ <<pool, ledger>>' # <<pool, ledger>> =>
           C!AccruedCents' - C!AccruedCents = C!Topups' - C!Topups
    /\ account = "suspended" => ledger' = ledger

StaysReleased == \A t \in Thresholds \ overtaken : part[t] = "released" => part'[t] = "released"

Terms == [p \in Periods |-> IF ledger[p] = None THEN 0 ELSE ledger[p].topup]

LEMMA SameTopups == C!Topups = SumFunctionOnSet(Terms, Periods)
  BY DEF C!Topups, Terms, SumFunctionOnSet, FoldFunctionOnSet, MapThenFoldSet,
         C!SumFunctionOnSet, C!FoldFunctionOnSet, C!MapThenFoldSet

LEMMA SameTopupsNext == C!Topups' = SumFunctionOnSet(Terms', Periods)
  BY DEF C!Topups, Terms, SumFunctionOnSet, FoldFunctionOnSet, MapThenFoldSet,
         C!SumFunctionOnSet, C!FoldFunctionOnSet, C!MapThenFoldSet

LEMMA TermsAreNumbers ==
    ASSUME AccountShape
    PROVE  \A p \in Periods : Terms[p] \in Int
  BY DEF AccountShape, Terms, C!Payouts

LEMMA MoneyTypes ==
    ASSUME AccountShape
    PROVE  C!AccruedCents \in Int /\ C!Topups \in Int
  <1>1. C!AccruedCents \in Int
    BY DEF AccountShape, C!AccruedCents, C!Balances
  <1> QED
    BY <1>1, TermsAreNumbers, SameTopups, SumType, CreatorsAssumption

\* The ledger is not written, and the pool keeps what has accrued.
LEMMA NothingAccrues ==
    ASSUME AccountShape, ledger' = ledger, C!AccruedCents' = C!AccruedCents
    PROVE  Paid
  <1>1. C!Topups' = C!Topups
    BY SameTopups, SameTopupsNext DEF Terms
  <1> QED
    BY <1>1, MoneyTypes DEF Paid

LEMMA IdleCall == CallShape(C!IdleRequest) /\ C!IdleRequest.at = "idle"
  BY DEF CallShape, CallSteps, C!IdleRequest

\* No tranche is written, and a call becomes another.
LEMMA CallGoesOn ==
    ASSUME CreatorsInv, NEW r \in Calls, NEW q, CallShape(q), Spares(q), C!Becomes(r, q),
           UNCHANGED <<part, overtaken>>,
           floor' \in Nat, pool' \in C!Balances \union {None},
           ledger' \in [Periods -> C!Payouts \union {None}]
    PROVE  CreatorsInv' /\ StaysReleased
  <1>1. /\ DOMAIN call' = Calls /\ call'[r] = q
        /\ \A s \in Calls : s # r => call'[s] = call[s]
    BY DEF CreatorsInv, AccountShape, C!Becomes
  <1>2. AccountShape'
    BY <1>1 DEF CreatorsInv, AccountShape
  <1>3. \A s \in Calls : Spares(call[s])'
    BY <1>1 DEF CreatorsInv, Spares
  <1> QED
    BY <1>2, <1>3 DEF CreatorsInv, StaysReleased

\* No call goes on, and no tranche is written.
LEMMA CallsRest ==
    ASSUME CreatorsInv, UNCHANGED <<call, part, overtaken>>,
           floor' \in Nat, pool' \in C!Balances \union {None},
           ledger' \in [Periods -> C!Payouts \union {None}]
    PROVE  CreatorsInv' /\ StaysReleased
  BY DEF CreatorsInv, AccountShape, Spares, StaysReleased

\* A call reads, or has read, and nothing that is paid moves.
LEMMA ReadsPay ==
    ASSUME CreatorsInv, NEW r \in Calls, NEW q, CallShape(q), Spares(q), C!Becomes(r, q),
           UNCHANGED <<floor, pool, ledger, part, overtaken>>
    PROVE  CreatorsInv' /\ Paid /\ StaysReleased
  <1>1. CreatorsInv' /\ StaysReleased
    BY CallGoesOn DEF CreatorsInv, AccountShape
  <1>2. Paid
    BY NothingAccrues DEF CreatorsInv, C!AccruedCents
  <1> QED
    BY <1>1, <1>2

LEMMA MaxOfTwo ==
    ASSUME NEW n \in Int
    PROVE  C!Max({0, n}) \in Nat
  <1>1. \E x \in {0, n} : \A y \in {0, n} : x >= y
    BY SMT
  <1>2. C!Max({0, n}) \in {0, n} /\ C!Max({0, n}) >= 0
    BY <1>1 DEF C!Max
  <1> QED
    BY <1>2

LEMMA PartOf ==
    ASSUME NEW n \in Nat, NEW m \in Nat
    PROVE  (n * m) \div 100 \in Nat
  <1>1. n * m \in Nat
    BY SMT
  <1>2. \A k \in Nat : k \div 100 \in Nat
    BY SMT
  <1> QED
    BY <1>1, <1>2

LEMMA PayoutType ==
    ASSUME NEW q, CallShape(q), C!Payout(q).net >= 0
    PROVE  C!Payout(q) \in C!Payouts
  <1> DEFINE topup == C!Max({0, q.floor - q.earned})
             x == (topup * PoolPercent) \div 100
  <1>1. q.floor \in Nat /\ q.earned \in Nat /\ q.fee \in Nat
    BY DEF CallShape, CallSteps
  <1>2. topup \in Nat
    BY <1>1, MaxOfTwo
  <1>3. x \in Nat
    BY <1>2, PartOf, CreatorsAssumption
  <1>4. C!Payout(q) = [topup |-> x, share |-> q.earned + topup, net |-> q.earned + topup - q.fee]
    BY DEF C!Payout
  <1> HIDE DEF topup, x
  <1>5. q.earned + topup \in Nat /\ q.earned + topup - q.fee \in Nat
    BY <1>1, <1>2, <1>4
  <1> QED
    BY <1>3, <1>4, <1>5 DEF C!Payouts

LEMMA AddedType ==
    ASSUME pool \in C!Balances \union {None}, NEW cents \in Nat
    PROVE  /\ C!Added(pool, "accrued", cents) \in C!Balances
           /\ C!Added(pool, "contributed", cents) \in C!Balances
           /\ C!Added(pool, "accrued", cents).accrued = C!AccruedCents + cents
           /\ C!Added(pool, "contributed", cents).accrued = C!AccruedCents
  <1> DEFINE b == IF pool = None THEN C!NoBalance ELSE pool
  <1>1. b \in C!Balances /\ b.accrued = C!AccruedCents
    BY DEF C!Balances, C!NoBalance, C!AccruedCents
  <1>2. /\ C!Added(pool, "accrued", cents) = [b EXCEPT !.accrued = b.accrued + cents]
        /\ C!Added(pool, "contributed", cents) = [b EXCEPT !.contributed = b.contributed + cents]
    BY DEF C!Added
  <1> HIDE DEF b
  <1> QED
    BY <1>1, <1>2 DEF C!Balances

\* Its tranches apart, an account pays what is due.
LEMMA AccruePays ==
    ASSUME CreatorsInv, NEW r \in Calls, C!Accrue(r)
    PROVE  CreatorsInv' /\ Paid /\ StaysReleased
  <1> DEFINE p == call[r].period
             x == C!Payout(call[r])
  <1>1. AccountShape /\ CallShape(call[r]) /\ p \in Periods
    BY DEF CreatorsInv, AccountShape, CallShape, C!Accrue
  <1>2. C!Becomes(r, C!IdleRequest) /\ UNCHANGED <<part, overtaken, floor>>
    BY DEF C!Accrue
  <1>3. Spares(C!IdleRequest)
    BY IdleCall DEF Spares
  <1>4. floor' \in Nat
    BY <1>1, <1>2 DEF AccountShape
  <1>5. CASE UNCHANGED <<ledger, pool>>
    BY <1>2, <1>3, <1>5, IdleCall, ReadsPay
  <1>6. CASE account = "active" /\ x.net >= 0 /\ ledger[p] # None
    <2>1. ledger' = [ledger EXCEPT ![p] = ledger[p]] /\ pool' = pool
      BY <1>6 DEF C!Accrue, C!StillActive, C!Credited
    <2>2. ledger' = ledger
      BY <1>1, <2>1 DEF AccountShape
    <2> QED
      BY <1>5, <2>1, <2>2
  <1>7. CASE account = "active" /\ x.net >= 0 /\ ledger[p] = None
    <2>1. ledger' = [ledger EXCEPT ![p] = x] /\ pool' = C!Added(pool, "accrued", x.topup)
      BY <1>7 DEF C!Accrue, C!StillActive, C!Credited
    <2>2. x \in C!Payouts /\ x.topup \in Nat /\ x # None
      BY <1>1, <1>7, PayoutType, CreatorsAssumption DEF C!Payouts
    <2> HIDE DEF x, p
    <2>3. /\ pool' \in C!Balances /\ pool' # None /\ pool'.accrued = C!AccruedCents + x.topup
      BY <1>1, <2>1, <2>2, AddedType, CreatorsAssumption DEF AccountShape
    <2>4. ledger' \in [Periods -> C!Payouts \union {None}]
      BY <1>1, <2>1, <2>2 DEF AccountShape
    <2>5. CreatorsInv' /\ StaysReleased
      BY <1>2, <1>3, <1>4, <2>3, <2>4, IdleCall, CallGoesOn
    <2>6. C!AccruedCents' = C!AccruedCents + x.topup
      BY <2>3 DEF C!AccruedCents
    <2>7. /\ Terms[p] = 0 /\ Terms'[p] = x.topup
          /\ \A y \in Periods \ {p} : Terms'[y] = Terms[y]
      BY <1>1, <1>7, <2>1, <2>2 DEF Terms, AccountShape
    <2>8. \A y \in Periods : Terms[y] \in Int /\ Terms'[y] \in Int
      BY <1>1, <2>2, <2>7, TermsAreNumbers
    <2>9. SumFunctionOnSet(Terms', Periods) = SumFunctionOnSet(Terms, Periods) + (x.topup - 0)
      BY <1>1, <2>7, <2>8, SumUpdate, CreatorsAssumption
    <2>10. C!Topups' = C!Topups + (x.topup - 0)
      BY <2>9, SameTopups, SameTopupsNext
    <2>11. account # "suspended"
      BY <1>7
    <2> QED
      BY <1>1, <2>2, <2>5, <2>6, <2>10, <2>11, MoneyTypes DEF Paid
  <1> QED
    BY <1>5, <1>6, <1>7 DEF C!Accrue, C!StillActive

\* The floor, the balance of the pool and the contributions to it
LEMMA FundsPay ==
    ASSUME CreatorsInv, NEW r \in Calls,
           (\E amount \in Floors : C!SetFloor(r, amount)) \/ C!GetBalance(r) \/ C!Contribute(r, 1)
    PROVE  CreatorsInv' /\ Paid /\ StaysReleased
  <1>1. AccountShape /\ UNCHANGED <<call, part, overtaken, ledger>>
    BY DEF CreatorsInv, C!SetFloor, C!GetBalance, C!Contribute
  <1>2. floor' \in Nat
    BY <1>1, CreatorsAssumption DEF C!SetFloor, C!GetBalance, C!Contribute, AccountShape
  <1>3. pool' \in C!Balances \union {None} /\ C!AccruedCents' = C!AccruedCents
    <2>1. CASE \E amount \in Floors : C!SetFloor(r, amount)
      BY <1>1, <2>1 DEF C!SetFloor, AccountShape, C!AccruedCents
    <2>2. CASE C!GetBalance(r)
      BY <1>1, <2>2, CreatorsAssumption
      DEF C!GetBalance, AccountShape, C!AccruedCents, C!NoBalance, C!Balances
    <2>3. CASE C!Contribute(r, 1)
      <3>1. pool' \in C!Balances /\ pool' # None /\ pool'.accrued = C!AccruedCents
        BY <1>1, <2>3, AddedType, CreatorsAssumption DEF C!Contribute, AccountShape
      <3> QED
        BY <3>1 DEF C!AccruedCents
    <2> QED
      BY <2>1, <2>2, <2>3
  <1> QED
    BY <1>1, <1>2, <1>3, CallsRest, NothingAccrues DEF AccountShape

\* A call that reads and goes on
LEMMA CallsPay ==
    ASSUME CreatorsInv, NEW r \in Calls,
           \/ C!FindAccount(r) \/ C!CreateAccount(r) \/ C!ReadFloor(r) \/ C!FindUnreleased(r)
           \/ \E p \in Periods, earned \in Earnings, fee \in Fees : C!LoadAccount(r, p, earned, fee)
           \/ \E t \in Thresholds : C!FindTranche(r, t)
    PROVE  CreatorsInv' /\ Paid /\ StaysReleased
  <1>1. CallShape(call[r]) /\ AccountShape
    BY DEF CreatorsInv, AccountShape
  <1>2. PICK q : CallShape(q) /\ Spares(q) /\ C!Becomes(r, q)
    <2>1. CASE C!FindAccount(r)
      <3>1. /\ CallShape([C!IdleRequest EXCEPT !.at = "onboarding"])
            /\ [C!IdleRequest EXCEPT !.at = "onboarding"].at = "onboarding"
        BY DEF CallShape, CallSteps, C!IdleRequest
      <3> QED
        BY <2>1, <3>1 DEF C!FindAccount, Spares
    <2>2. CASE C!CreateAccount(r)
      BY <2>2, IdleCall DEF C!CreateAccount, Spares
    <2>3. CASE C!ReadFloor(r)
      <3> DEFINE q == [call[r] EXCEPT !.at = "computed", !.floor = floor]
      <3>1. CallShape(q) /\ q.at = "computed"
        BY <1>1, <2>3 DEF CallShape, CallSteps, AccountShape, C!ReadFloor
      <3>2. C!Becomes(r, q)
        BY <2>3 DEF C!ReadFloor
      <3> HIDE DEF q
      <3> QED
        BY <3>1, <3>2 DEF Spares
    <2>4. CASE C!FindUnreleased(r)
      <3> DEFINE q == [C!IdleRequest EXCEPT !.at = "killing", !.seen = C!Unreleased]
      <3>1. CallShape(q) /\ q.seen = C!Unreleased
        BY DEF CallShape, CallSteps, C!IdleRequest, C!Unreleased
      <3>2. C!Becomes(r, q)
        BY <2>4 DEF C!FindUnreleased
      <3> HIDE DEF q
      <3> QED
        BY <3>1, <3>2 DEF Spares, C!Unreleased
    <2>5. CASE \E p \in Periods, earned \in Earnings, fee \in Fees : C!LoadAccount(r, p, earned, fee)
      <3>1. PICK p \in Periods, earned \in Earnings, fee \in Fees : C!LoadAccount(r, p, earned, fee)
        BY <2>5
      <3> DEFINE q == [C!IdleRequest EXCEPT !.at = "loaded", !.period = p, !.earned = earned, !.fee = fee]
      <3>2. CallShape(q) /\ q.at = "loaded"
        BY CreatorsAssumption DEF CallShape, CallSteps, C!IdleRequest
      <3>3. C!Becomes(r, q)
        BY <3>1 DEF C!LoadAccount
      <3> HIDE DEF q
      <3> QED
        BY <3>2, <3>3 DEF Spares
    <2>6. CASE \E t \in Thresholds : C!FindTranche(r, t)
      <3>1. PICK t \in Thresholds : C!FindTranche(r, t)
        BY <2>6
      <3> DEFINE q == [C!IdleRequest EXCEPT !.at = "releasing", !.threshold = t, !.seen = {part[t]}]
      <3>2. CallShape(q) /\ q.at = "releasing"
        <4>1. {part[t]} \in SUBSET (Thresholds \union C!Tranches)
          BY <1>1 DEF AccountShape
        <4> QED
          BY <4>1 DEF CallShape, CallSteps, C!IdleRequest
      <3>3. C!Becomes(r, q)
        BY <3>1 DEF C!FindTranche
      <3> HIDE DEF q
      <3> QED
        BY <3>2, <3>3 DEF Spares
    <2> QED
      BY <2>1, <2>2, <2>3, <2>4, <2>5, <2>6
  <1>3. UNCHANGED <<floor, pool, ledger, part, overtaken>>
    BY DEF C!FindAccount, C!CreateAccount, C!ReadFloor, C!FindUnreleased, C!LoadAccount,
           C!FindTranche, C!rows
  <1> QED
    BY <1>2, <1>3, ReadsPay

LEMMA TranchesPay ==
    ASSUME CreatorsInv, NEW r \in Calls,
           \/ C!CreateMilestone(r) \/ C!Release(r) \/ C!Kill(r)
           \/ \E t \in Thresholds : C!AddTranche(r, t)
    PROVE  CreatorsInv' /\ Paid /\ StaysReleased
  <1>1. AccountShape /\ CallShape(call[r]) /\ UNCHANGED <<floor, pool, ledger>>
    BY DEF CreatorsInv, AccountShape, C!CreateMilestone, C!AddTranche, C!Release, C!Kill
  <1>2. Paid
    BY <1>1, NothingAccrues DEF C!AccruedCents
  <1>3. CASE C!CreateMilestone(r)
    BY <1>1, <1>2, <1>3, CallsRest DEF C!CreateMilestone, AccountShape
  <1>4. CASE \E t \in Thresholds : C!AddTranche(r, t)
    <2> PICK t \in Thresholds : C!AddTranche(r, t)
      BY <1>4
    <2>1. /\ UNCHANGED <<call, overtaken>> /\ part' \in [Thresholds -> C!Tranches]
          /\ part[t] = None /\ part'[t] = "locked" /\ \A u \in Thresholds : u # t => part'[u] = part[u]
      BY <1>1 DEF C!AddTranche, AccountShape, C!Tranches
    <2>2. AccountShape'
      BY <1>1, <2>1 DEF AccountShape
    <2>3. \A s \in Calls : Spares(call[s])'
      BY <2>1 DEF CreatorsInv, Spares
    <2>4. StaysReleased
      BY <2>1, CreatorsAssumption DEF StaysReleased
    <2> QED
      BY <1>2, <2>2, <2>3, <2>4 DEF CreatorsInv
  <1>5. CASE C!Release(r)
    <2> DEFINE u == call[r].threshold
    <2>1. u \in Thresholds /\ C!Becomes(r, C!IdleRequest)
      BY <1>1, <1>5 DEF C!Release, CallShape
    <2>2. /\ part' \in [Thresholds -> C!Tranches]
          /\ \A v \in Thresholds : v # u => part'[v] = part[v]
          /\ part'[u] = part[u] \/ part'[u] = "released"
      BY <1>1, <1>5, <2>1 DEF C!Release, AccountShape, C!Tranches
    <2>3. /\ overtaken \subseteq overtaken'
          /\ (\E k \in Calls : call[k].at = "killing" /\ u \in call[k].seen) => u \in overtaken'
      BY <1>5 DEF C!Release
    <2> HIDE DEF u
    <2>4. /\ DOMAIN call' = Calls /\ call'[r] = C!IdleRequest
          /\ \A s \in Calls : s # r => call'[s] = call[s]
      BY <1>1, <2>1 DEF AccountShape, C!Becomes
    <2>5. AccountShape'
      BY <1>1, <2>2, <2>4, IdleCall DEF AccountShape
    <2>6. ASSUME NEW s \in Calls PROVE Spares(call[s])'
      BY <2>1, <2>2, <2>3, <2>4, IdleCall DEF CreatorsInv, Spares
    <2>7. StaysReleased
      BY <2>2 DEF StaysReleased
    <2> QED
      BY <1>2, <2>5, <2>6, <2>7 DEF CreatorsInv
  <1>6. CASE C!Kill(r)
    <2>1. /\ C!Becomes(r, C!IdleRequest) /\ UNCHANGED overtaken /\ call[r].at = "killing"
          /\ part' = [v \in Thresholds |-> IF v \in call[r].seen THEN "rolled_back" ELSE part[v]]
      BY <1>6 DEF C!Kill
    <2>2. /\ part' \in [Thresholds -> C!Tranches]
          /\ \A v \in Thresholds : part'[v] = IF v \in call[r].seen THEN "rolled_back" ELSE part[v]
      BY <1>1, <2>1 DEF AccountShape, C!Tranches
    <2>3. /\ DOMAIN call' = Calls /\ call'[r] = C!IdleRequest
          /\ \A s \in Calls : s # r => call'[s] = call[s]
      BY <1>1, <2>1 DEF AccountShape, C!Becomes
    <2>4. AccountShape'
      BY <1>1, <2>2, <2>3, IdleCall DEF AccountShape
    <2>5. ASSUME NEW s \in Calls PROVE Spares(call[s])'
      BY <2>1, <2>2, <2>3, IdleCall DEF CreatorsInv, Spares
    <2>6. StaysReleased
      BY <2>1, <2>2 DEF StaysReleased, CreatorsInv, Spares
    <2> QED
      BY <1>2, <2>4, <2>5, <2>6 DEF CreatorsInv
  <1> QED
    BY <1>3, <1>4, <1>5, <1>6

LEMMA DrainsPay ==
    ASSUME CreatorsInv,
           \/ \E kind \in C!EventKinds : C!Receive(kind)
           \/ \E w \in Drainers : \/ C!Fetch(w) \/ C!FailEvent(w) \/ C!Suspend(w)
                                  \/ C!CommitBatch(w) \/ C!AbortBatch(w)
    PROVE  CreatorsInv' /\ Paid /\ StaysReleased
  <1>1. UNCHANGED <<floor, pool, ledger, part, call, overtaken>>
    BY DEF C!Receive, C!Fetch, C!FailEvent, C!Suspend, C!CommitBatch, C!AbortBatch, C!rows
  <1> QED
    BY <1>1, CallsRest, NothingAccrues DEF CreatorsInv, AccountShape, C!AccruedCents

LEMMA CreatorsStart ==
    ASSUME C!Init
    PROVE  CreatorsInv
  BY IdleCall DEF C!Init, CreatorsInv, AccountShape, Spares, C!Tranches

LEMMA CreatorsStep ==
    ASSUME CreatorsInv, C!Next
    PROVE  CreatorsInv' /\ Paid /\ StaysReleased
  BY AccruePays, FundsPay, CallsPay, TranchesPay, DrainsPay DEF C!Next

LEMMA CreatorsRest ==
    ASSUME CreatorsInv, UNCHANGED creators
    PROVE  CreatorsInv' /\ Paid /\ StaysReleased
  BY CallsRest, NothingAccrues DEF creators, CreatorsInv, AccountShape, C!AccruedCents

LEMMA CreatorsInvariant == SideSpec => [](CreatorsInv)
  <1>1. SideInit => CreatorsInv
    BY CreatorsStart DEF SideInit
  <1>2. CreatorsInv /\ [SideNext]_sides => CreatorsInv'
    BY CreatorsStep, CreatorsRest DEF SideNext, OfOutbox, OfUploads, OfJobs, OfCreators, sides
  <1> QED
    BY <1>1, <1>2, PTL DEF SideSpec

\* The pool balance of a creator moves with its ledger, neither does once the creator
\* is suspended, and a released tranche stays released.
THEOREM CreatorsHold == SideSpec => CreatorsArePaid
  <1>1. CreatorsInv /\ [SideNext]_sides => [Paid]_(C!vars)
    BY CreatorsStep, CreatorsRest DEF SideNext, OfOutbox, OfUploads, OfJobs, OfCreators, sides
  <1>2. CreatorsInv /\ [SideNext]_sides => [StaysReleased]_(C!vars)
    BY CreatorsStep, CreatorsRest DEF SideNext, OfOutbox, OfUploads, OfJobs, OfCreators, sides
  <1>3. SideSpec => [][Paid]_(C!vars)
    BY <1>1, CreatorsInvariant, PTL DEF SideSpec
  <1>4. SideSpec => [][StaysReleased]_(C!vars)
    BY <1>2, CreatorsInvariant, PTL DEF SideSpec
  <1> QED
    BY <1>3, <1>4 DEF CreatorsArePaid, C!PayoutsAreDue, C!ReleasedStays, Paid, StaysReleased

=============================================================================
