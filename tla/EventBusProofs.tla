--------------------------- MODULE EventBusProofs ---------------------------
(***************************************************************************)
(* Proofs about EventSubscriber and EventPublisher for every log, every    *)
(* number of consumers, handlers, calls and services, and of faults.       *)
(***************************************************************************)
EXTENDS MCEventBus, Sums

-----------------------------------------------------------------------------
(* The inductive invariant of AckedIsSettled *)

Handled(o, h) == done[o][h] > 0 \/ <<h, o>> \in dead

\* The message itself is settled, or another one of its key.
Explained(o) ==
    \E p \in Offsets : Settled(p) /\ (p = o \/ IdemKeys(p) \intersect IdemKeys(o) # {})

Deciding == {"quarantine", "check", "dispatch", "mark", "markidem"}

HoldsMessage ==
    \A c \in Consumers :
        worker[c].step \in Deciding \union {"commit"} => worker[c].message \in Offsets

InHand(c) ==
    LET w == worker[c] IN
    /\ w.step = "check" => w.handler = 1
    /\ w.step = "dispatch" => \A h \in Handlers : h < w.handler => Handled(w.message, h)
    /\ w.step \in {"mark", "markidem"} => \A h \in Handlers : Handled(w.message, h)
    /\ w.step = "commit" => Explained(w.message)

\* Up to the owner's position all is explained, but for what it has in hand.
OwnerKeepsUp ==
    owner # NoConsumer =>
        /\ IsMember(owner)
        /\ \A o \in Offsets : o <= worker[owner].position =>
              Explained(o) \/ (o = worker[owner].message /\ worker[owner].step \in Deciding)

MarkedIsSettled ==
    /\ \A o \in Offsets : IdKey(o) \in marked => Settled(o)
    /\ \A key \in Keys : <<"idem", key>> \in marked =>
          \E p \in Offsets : Settled(p) /\ Log[p].idem = key

AckInv ==
    /\ TypeOK /\ HoldsMessage
    /\ \A c \in Consumers : InHand(c)
    /\ OwnerKeepsUp
    /\ MarkedIsSettled
    /\ AckedIsSettled

-----------------------------------------------------------------------------
(* The inductive invariant of RepeatsNeedFaults *)

Unmarked(key) == <<"idem", key>> \notin marked

Busy(c, key) ==
    worker[c].step \in Deciding \ {"quarantine"} /\ Log[worker[c].message].idem = key

\* A consumer that may still run handler h on an event of the key.
MayRun(c, key, h) ==
    /\ Busy(c, key)
    /\ \/ worker[c].step = "check" /\ Unmarked(key)
       \/ worker[c].step = "dispatch" /\ worker[c].handler <= h

Weight(key, h) == [c \in Consumers |-> IF MayRun(c, key, h) THEN 1 ELSE 0]

\* An event of the key may be fetched and run once more: by the owner, unless it
\* is at one already, or by the next owner.
Reserve(key) == IF Unmarked(key) /\ ~(owner \in Consumers /\ Busy(owner, key)) THEN 1 ELSE 0

Accounted ==
    Dedup => \A key \in Keys, h \in Handlers :
        Successes(key, h) + SumFunctionOnSet(Weight(key, h), Consumers) + Reserve(key) <= 1 + faults

SubInv == AckInv /\ Accounted

-----------------------------------------------------------------------------
(* Types *)

LEMMA LogFacts ==
    /\ Len(Log) \in Nat
    /\ \A o \in Offsets : o \in Nat /\ o > 0 /\ Log[o].kind \in Kinds /\ Log[o].idem \in Keys \union {NoKey}
  <1>1. /\ Len(Log) \in Nat
        /\ \A o \in 1 .. Len(Log) : Log[o] \in [kind : Kinds, idem : Keys \union {NoKey}]
    <2> DEFINE M == [kind : Kinds, idem : Keys \union {NoKey}]
    <2>1. Log \in Seq(M)
      BY LogAssumption
    <2> HIDE DEF M
    <2>2. Len(Log) \in Nat /\ \A o \in 1 .. Len(Log) : Log[o] \in M
      BY <2>1
    <2> QED
      BY <2>2 DEF M
  <1> QED
    BY <1>1 DEF Offsets

LEMMA GotoType ==
    ASSUME TypeOK, NEW c \in Consumers, NEW step \in Steps, Goto(c, step)
    PROVE  worker' \in [Consumers -> WorkerStates]
  BY DEF TypeOK, Goto, WorkerStates

LEMMA FetchType ==
    ASSUME TypeOK, NEW c \in Consumers, Fetch(c)
    PROVE  worker' \in [Consumers -> WorkerStates]
  <1> DEFINE o == worker[c].position + 1
             w == [step |-> FirstStep(o), position |-> o, message |-> o, handler |-> 1, attempt |-> 0]
  <1>1. o \in 0 .. Len(Log)
    BY LogFacts DEF TypeOK, WorkerStates, Fetch
  <1>2. FirstStep(o) \in Steps
    BY DEF FirstStep, StartEvent, Steps
  <1>3. w \in WorkerStates
    BY <1>1, <1>2, LimitsAssumption DEF WorkerStates
  <1>4. worker' = [worker EXCEPT ![c] = w]
    BY DEF Fetch
  <1> QED
    BY <1>3, <1>4 DEF TypeOK

LEMMA NextHandlerType ==
    ASSUME TypeOK, NEW c \in Consumers, worker[c].handler \in Handlers
    PROVE  [worker EXCEPT ![c] = NextHandler(worker[c])] \in [Consumers -> WorkerStates]
  <1>1. NextHandler(worker[c]) \in WorkerStates
    <2> DEFINE w == worker[c]
    <2>1. w \in WorkerStates
      BY DEF TypeOK
    <2>2. NextHandler(w) = [w EXCEPT !.handler = w.handler + 1, !.attempt = 0]
      BY DEF NextHandler
    <2>3. w.handler + 1 \in 1 .. HandlerCount + 1 /\ 0 \in 0 .. MaxRetries - 1
      BY LimitsAssumption DEF Handlers
    <2> HIDE DEF w
    <2>4. [w EXCEPT !.handler = w.handler + 1] \in WorkerStates
      BY <2>1, <2>3 DEF WorkerStates
    <2>5. [[w EXCEPT !.handler = w.handler + 1] EXCEPT !.attempt = 0] \in WorkerStates
      BY <2>3, <2>4 DEF WorkerStates
    <2> QED
      BY <2>2, <2>5 DEF w
  <1> QED
    BY <1>1 DEF TypeOK

LEMMA NextHandlerFields ==
    ASSUME TypeOK, NEW c \in Consumers, worker' = [worker EXCEPT ![c] = NextHandler(worker[c])]
    PROVE  /\ \A d \in Consumers \ {c} : worker'[d] = worker[d]
           /\ \A d \in Consumers : /\ worker'[d].step = worker[d].step
                                   /\ worker'[d].message = worker[d].message
                                   /\ worker'[d].position = worker[d].position
           /\ worker'[c].handler = worker[c].handler + 1
  <1> DEFINE w == worker[c]
             v == [w EXCEPT !.handler = w.handler + 1, !.attempt = 0]
  <1>1. w \in WorkerStates /\ worker' = [worker EXCEPT ![c] = v]
    BY DEF TypeOK, NextHandler
  <1>2. /\ v.step = w.step /\ v.message = w.message /\ v.position = w.position
        /\ v.handler = w.handler + 1
    <2> HIDE DEF w
    <2> QED
      BY <1>1 DEF WorkerStates
  <1> HIDE DEF v
  <1> QED
    BY <1>1, <1>2 DEF TypeOK

LEMMA OneMore ==
    ASSUME NEW f \in [Offsets -> [Handlers -> Nat]], NEW a \in Offsets, NEW b \in Handlers
    PROVE  LET g == [f EXCEPT ![a][b] = @ + 1] IN
           /\ g \in [Offsets -> [Handlers -> Nat]]
           /\ g[a][b] = f[a][b] + 1
           /\ \A o \in Offsets, h \in Handlers : o # a \/ h # b => g[o][h] = f[o][h]
  <1> DEFINE row == [f[a] EXCEPT ![b] = f[a][b] + 1]
             g == [f EXCEPT ![a] = row]
  <1>1. row \in [Handlers -> Nat] /\ row[b] = f[a][b] + 1
        /\ \A h \in Handlers : h # b => row[h] = f[a][h]
    OBVIOUS
  <1> HIDE DEF row
  <1>2. /\ g \in [Offsets -> [Handlers -> Nat]]
        /\ g[a] = row
        /\ \A o \in Offsets : o # a => g[o] = f[o]
    BY <1>1
  <1> HIDE DEF g
  <1>3. /\ g \in [Offsets -> [Handlers -> Nat]]
        /\ g[a][b] = f[a][b] + 1
        /\ \A o \in Offsets, h \in Handlers : o # a \/ h # b => g[o][h] = f[o][h]
    BY <1>1, <1>2
  <1> QED
    BY <1>3 DEF g, row

LEMMA SucceedFacts ==
    ASSUME TypeOK, HoldsMessage, NEW c \in Consumers, Succeed(c)
    PROVE  LET m == worker[c].message
               b == worker[c].handler IN
           /\ m \in Offsets /\ b \in Handlers
           /\ done' \in [Offsets -> [Handlers -> Nat]]
           /\ done'[m][b] = done[m][b] + 1
           /\ \A o \in Offsets, h \in Handlers : o # m \/ h # b => done'[o][h] = done[o][h]
  <1> DEFINE m == worker[c].message
             b == worker[c].handler
  <1>1. m \in Offsets /\ b \in Handlers
    BY DEF Succeed, HoldsMessage, Deciding
  <1>2. done' = [done EXCEPT ![m][b] = @ + 1] /\ done \in [Offsets -> [Handlers -> Nat]]
    BY DEF Succeed, TypeOK
  <1> HIDE DEF m, b
  <1>3. /\ done' \in [Offsets -> [Handlers -> Nat]]
        /\ done'[m][b] = done[m][b] + 1
        /\ \A o \in Offsets, h \in Handlers : o # m \/ h # b => done'[o][h] = done[o][h]
    BY <1>1, <1>2, OneMore
  <1> QED
    BY <1>1, <1>3 DEF m, b

LEMMA SubscriberInit == Init => TypeOK
  BY LogFacts, LimitsAssumption DEF Init, TypeOK, WorkerStates, Down, Steps, Offsets, Handlers

LEMMA TypeStep == TypeOK /\ HoldsMessage /\ [Next]_vars => TypeOK' /\ HoldsMessage'
  <1> SUFFICES ASSUME TypeOK, HoldsMessage, [Next]_vars PROVE TypeOK' /\ HoldsMessage'
    OBVIOUS
  <1> USE LogFacts, LimitsAssumption
  <1>1. CASE UNCHANGED vars
    BY <1>1 DEF vars, TypeOK, HoldsMessage
  <1>2. CASE Produce
    BY <1>2 DEF Produce, TypeOK, HoldsMessage
  <1>3. CASE Revoke
    BY <1>3 DEF Revoke, TypeOK, HoldsMessage
  <1>4. ASSUME NEW c \in Consumers, Start(c) PROVE TypeOK' /\ HoldsMessage'
    <2>1. [Down EXCEPT !.step = "poll"] \in WorkerStates
      BY DEF Down, WorkerStates, Steps
    <2>2. TypeOK'
      BY <1>4, <2>1 DEF Start, TypeOK
    <2>3. HoldsMessage'
      BY <1>4 DEF Start, Down, TypeOK, HoldsMessage, Deciding
    <2> QED
      BY <2>2, <2>3
  <1>5. ASSUME NEW c \in Consumers, Assign(c) PROVE TypeOK' /\ HoldsMessage'
    <2>1. worker' \in [Consumers -> WorkerStates]
      BY <1>5 DEF Assign, WorkerStates, Resume, TypeOK
    <2>2. TypeOK'
      BY <1>5, <2>1 DEF Assign, TypeOK
    <2>3. HoldsMessage'
      BY <1>5 DEF Assign, TypeOK, WorkerStates, HoldsMessage
    <2> QED
      BY <2>2, <2>3
  <1>6. ASSUME NEW c \in Consumers, Fetch(c) PROVE TypeOK' /\ HoldsMessage'
    <2>1. TypeOK'
      BY <1>6, FetchType DEF Fetch, Leave, TypeOK
    <2>2. worker[c].position + 1 \in Offsets
      BY <1>6 DEF Fetch, TypeOK, WorkerStates, Offsets
    <2>3. HoldsMessage'
      BY <1>6, <2>2 DEF Fetch, HoldsMessage, TypeOK
    <2> QED
      BY <2>1, <2>3
  <1>7. ASSUME NEW c \in Consumers, NEW step \in Steps, Goto(c, step),
               step \in Deciding \union {"commit"} => worker[c].step \in Deciding \union {"commit"}
        PROVE  worker' \in [Consumers -> WorkerStates] /\ HoldsMessage'
    BY <1>7, GotoType DEF Goto, HoldsMessage, TypeOK, WorkerStates
  <1>8. ASSUME NEW c \in Consumers, Quarantine(c) PROVE TypeOK' /\ HoldsMessage'
    <2>1. worker[c].message \in Offsets /\ 0 \in 0 .. HandlerCount
      BY <1>8 DEF Quarantine, HoldsMessage, Deciding
    <2>2. worker' \in [Consumers -> WorkerStates] /\ HoldsMessage'
      BY <1>8, <1>7 DEF Quarantine, Deciding, Steps
    <2> QED
      BY <1>8, <2>1, <2>2 DEF Quarantine, TypeOK
  <1>9. ASSUME NEW c \in Consumers, Check(c) PROVE TypeOK' /\ HoldsMessage'
    <2>1. worker' \in [Consumers -> WorkerStates] /\ HoldsMessage'
      BY <1>9, <1>7 DEF Check, Deciding, Steps
    <2> QED
      BY <1>9, <2>1 DEF Check, TypeOK
  <1>10. ASSUME NEW c \in Consumers, Succeed(c) PROVE TypeOK' /\ HoldsMessage'
    <2>1. worker[c].message \in Offsets /\ worker[c].handler \in Handlers
      BY <1>10, SucceedFacts
    <2>2. done' \in [Offsets -> [Handlers -> Nat]]
      BY <1>10, SucceedFacts
    <2>3. worker' \in [Consumers -> WorkerStates]
      BY <1>10, <2>1, NextHandlerType DEF Succeed
    <2>4. HoldsMessage'
      BY <1>10, NextHandlerFields DEF Succeed, HoldsMessage
    <2> QED
      BY <1>10, <2>2, <2>3, <2>4 DEF Succeed, TypeOK
  <1>11. ASSUME NEW c \in Consumers, Retry(c) PROVE TypeOK' /\ HoldsMessage'
    <2>1. worker' \in [Consumers -> WorkerStates]
      <3>1. worker[c] \in WorkerStates /\ worker[c].attempt + 1 < MaxRetries
        BY <1>11 DEF Retry, AttemptsLeft, TypeOK
      <3>a. worker[c].attempt \in 0 .. MaxRetries - 1
        BY <3>1 DEF WorkerStates
      <3>b. worker[c].attempt + 1 \in 0 .. MaxRetries - 1
        BY <3>1, <3>a
      <3>2. [worker[c] EXCEPT !.attempt = worker[c].attempt + 1] \in WorkerStates
        BY <3>1, <3>b DEF WorkerStates
      <3> QED
        BY <1>11, <3>2 DEF Retry, TypeOK
    <2>2. HoldsMessage'
      BY <1>11 DEF Retry, HoldsMessage, TypeOK, WorkerStates
    <2> QED
      BY <1>11, <2>1, <2>2 DEF Retry, TypeOK
  <1>12. ASSUME NEW c \in Consumers, GiveUp(c) PROVE TypeOK' /\ HoldsMessage'
    <2>1. worker[c].message \in Offsets /\ worker[c].handler \in Handlers
      BY <1>12 DEF GiveUp, HoldsMessage, Deciding
    <2>2. Sent(worker[c]) \subseteq (0 .. HandlerCount) \X Offsets
      BY <2>1 DEF Sent, Handlers
    <2>3. worker' \in [Consumers -> WorkerStates]
      BY <1>12, <2>1, NextHandlerType DEF GiveUp
    <2>4. HoldsMessage'
      BY <1>12, NextHandlerFields DEF GiveUp, HoldsMessage
    <2> QED
      BY <1>12, <2>2, <2>3, <2>4 DEF GiveUp, TypeOK
  <1>13. ASSUME NEW c \in Consumers, Dispatched(c) PROVE TypeOK' /\ HoldsMessage'
    <2>1. worker' \in [Consumers -> WorkerStates] /\ HoldsMessage'
      BY <1>13, <1>7 DEF Dispatched, Deciding, Steps
    <2> QED
      BY <1>13, <2>1 DEF Dispatched, TypeOK
  <1>14. ASSUME NEW c \in Consumers, Mark(c) PROVE TypeOK' /\ HoldsMessage'
    <2>1. worker[c].message \in Offsets
      BY <1>14 DEF Mark, HoldsMessage, Deciding
    <2>2. IdKey(worker[c].message) \in DedupKeys /\ IdemKeys(worker[c].message) \subseteq DedupKeys
      BY <2>1 DEF IdKey, IdemKeys, DedupKeys
    <2>3. worker' \in [Consumers -> WorkerStates] /\ HoldsMessage'
      BY <1>14, <1>7 DEF Mark, Deciding, Steps
    <2> QED
      BY <1>14, <2>2, <2>3 DEF Mark, TypeOK
  <1>15. ASSUME NEW c \in Consumers, Commit(c) PROVE TypeOK' /\ HoldsMessage'
    <2>1. worker' \in [Consumers -> WorkerStates] /\ HoldsMessage'
      BY <1>15, <1>7 DEF Commit, Deciding, Steps
    <2>2. worker[c].position \in 0 .. Len(Log)
      BY DEF TypeOK, WorkerStates
    <2> QED
      BY <1>15, <2>1, <2>2 DEF Commit, TypeOK
  <1>16. ASSUME NEW c \in Consumers, CommitRefused(c) PROVE TypeOK' /\ HoldsMessage'
    <2>1. worker' \in [Consumers -> WorkerStates] /\ HoldsMessage'
      BY <1>16, <1>7 DEF CommitRefused, Deciding, Steps
    <2> QED
      BY <1>16, <2>1 DEF CommitRefused, TypeOK
  <1>17. ASSUME NEW c \in Consumers, Reconnect(c) PROVE TypeOK' /\ HoldsMessage'
    <2>1. worker' \in [Consumers -> WorkerStates] /\ HoldsMessage'
      BY <1>17, <1>7 DEF Reconnect, Deciding, Steps
    <2> QED
      BY <1>17, <2>1 DEF Reconnect, TypeOK
  <1>18. ASSUME NEW c \in Consumers, LoopError(c) PROVE TypeOK' /\ HoldsMessage'
    <2>1. worker' \in [Consumers -> WorkerStates] /\ HoldsMessage'
      BY <1>18, <1>7 DEF LoopError, Deciding, Steps
    <2> QED
      BY <1>18, <2>1 DEF LoopError, Leave, TypeOK
  <1>19. ASSUME NEW c \in Consumers, ReconnectFails(c) PROVE TypeOK' /\ HoldsMessage'
    <2>1. worker' \in [Consumers -> WorkerStates] /\ HoldsMessage'
      BY <1>19, <1>7 DEF ReconnectFails, Deciding, Steps
    <2> QED
      BY <1>19, <2>1 DEF ReconnectFails, TypeOK
  <1>20. ASSUME NEW c \in Consumers, Stop(c) PROVE TypeOK' /\ HoldsMessage'
    <2>1. worker' \in [Consumers -> WorkerStates] /\ HoldsMessage'
      BY <1>20, <1>7 DEF Stop, Deciding, Steps
    <2> QED
      BY <1>20, <2>1 DEF Stop, TypeOK
  <1> QED
    BY <1>1, <1>2, <1>3, <1>4, <1>5, <1>6, <1>8, <1>9, <1>10, <1>11, <1>12, <1>13, <1>14, <1>15,
       <1>16, <1>17, <1>18, <1>19, <1>20 DEF Next, Process

-----------------------------------------------------------------------------
(* Acknowledged messages are settled *)

\* What has been handled or dead-lettered stays so.
LEMMA Grows ==
    ASSUME TypeOK, HoldsMessage, [Next]_vars
    PROVE  /\ dead \subseteq dead'
           /\ \A o \in Offsets, h \in Handlers : done[o][h] > 0 => done'[o][h] > 0
  <1>1. CASE UNCHANGED done
    <2>1. dead \subseteq dead'
      BY DEF Next, Process, vars, Produce, Revoke, Start, Assign, LoopError, ReconnectFails, Stop, Fetch,
             Quarantine, Check, Succeed, Retry, GiveUp, Dispatched, Mark, Commit, CommitRefused,
             Reconnect
    <2> QED
      BY <1>1, <2>1
  <1>2. ASSUME NEW c \in Consumers, Succeed(c)
        PROVE  /\ dead \subseteq dead'
               /\ \A o \in Offsets, h \in Handlers : done[o][h] > 0 => done'[o][h] > 0
    <2>1. dead' = dead
      BY <1>2 DEF Succeed
    <2>2. ASSUME NEW o \in Offsets, NEW h \in Handlers, done[o][h] > 0 PROVE done'[o][h] > 0
      <3>1. done[o][h] \in Nat
        BY DEF TypeOK
      <3>2. done'[o][h] = done[o][h] \/ done'[o][h] = done[o][h] + 1
        BY <1>2, SucceedFacts
      <3> QED
        BY <2>2, <3>1, <3>2
    <2> QED
      BY <2>1, <2>2
  <1>3. UNCHANGED done \/ \E c \in Consumers : Succeed(c)
    BY DEF Next, Process, vars, Produce, Revoke, Start, Assign, LoopError, ReconnectFails, Stop, Fetch,
           Quarantine, Check, Retry, GiveUp, Dispatched, Mark, Commit, CommitRefused, Reconnect
  <1> QED
    BY <1>1, <1>2, <1>3

LEMMA SettledStays ==
    ASSUME TypeOK, HoldsMessage, [Next]_vars
    PROVE  /\ \A o \in Offsets, h \in Handlers : Handled(o, h) => Handled(o, h)'
           /\ \A o \in Offsets : Settled(o) => Settled(o)'
           /\ \A o \in Offsets : Explained(o) => Explained(o)'
  <1>1. \A o \in Offsets, h \in Handlers : Handled(o, h) => Handled(o, h)'
    BY Grows DEF Handled
  <1>2. \A o \in Offsets : Settled(o) => Settled(o)'
    BY <1>1, Grows DEF Settled, Handled
  <1>3. \A o \in Offsets : Explained(o) => Explained(o)'
    BY <1>2 DEF Explained
  <1> QED
    BY <1>1, <1>2, <1>3

LEMMA AllHandledIsExplained ==
    /\ \A o \in Offsets : (\A h \in Handlers : Handled(o, h)) => Settled(o)
    /\ \A o \in Offsets : Settled(o) => Explained(o)
  BY DEF Handled, Settled, Explained

\* The other consumers keep what they know of the message in their hands.
LEMMA OthersInHand ==
    ASSUME TypeOK, HoldsMessage, [Next]_vars, NEW d \in Consumers, InHand(d), worker'[d] = worker[d]
    PROVE  InHand(d)'
  <1>1. worker[d].step \in Deciding \union {"commit"} => worker[d].message \in Offsets
    BY DEF HoldsMessage
  <1> QED
    BY <1>1, SettledStays DEF InHand, Deciding

\* So does one that goes on to a step where nothing is to be known.
LEMMA IdleInHand ==
    ASSUME NEW d \in Consumers, worker'[d].step \notin Deciding \union {"commit"}
    PROVE  InHand(d)'
  BY DEF InHand, Deciding

LEMMA GotoAlone ==
    ASSUME TypeOK, NEW c \in Consumers, NEW step \in Steps, Goto(c, step)
    PROVE  /\ \A d \in Consumers \ {c} : worker'[d] = worker[d]
           /\ worker'[c].step = step
           /\ \A d \in Consumers : /\ worker'[d].message = worker[d].message
                                   /\ worker'[d].handler = worker[d].handler
                                   /\ worker'[d].position = worker[d].position
  BY DEF Goto, TypeOK, WorkerStates

LEMMA DuplicateIsExplained ==
    ASSUME MarkedIsSettled, NEW o \in Offsets, IsDuplicate(o)
    PROVE  Explained(o)
  <1>1. CASE IdKey(o) \in marked
    BY <1>1 DEF MarkedIsSettled, Explained
  <1>2. CASE IdKey(o) \notin marked
    <2>1. Log[o].idem # NoKey /\ IdemKeys(o) = {<<"idem", Log[o].idem>>}
          /\ <<"idem", Log[o].idem>> \in marked
      BY <1>2 DEF IsDuplicate, KeysOf, IdemKeys
    <2>2. PICK p \in Offsets : Settled(p) /\ Log[p].idem = Log[o].idem
      BY <2>1, LogFacts DEF MarkedIsSettled
    <2>3. IdemKeys(p) = IdemKeys(o)
      BY <2>2 DEF IdemKeys
    <2> QED
      BY <2>1, <2>2, <2>3 DEF Explained
  <1> QED
    BY <1>1, <1>2

LEMMA InHandStep ==
    ASSUME TypeOK, HoldsMessage, \A c \in Consumers : InHand(c), MarkedIsSettled, [Next]_vars,
           NEW d \in Consumers
    PROVE  InHand(d)'
  <1>1. CASE worker'[d] = worker[d]
    BY <1>1, OthersInHand
  <1>2. CASE worker'[d].step \notin Deciding \union {"commit"}
    BY <1>2, IdleInHand
  <1>3. ASSUME Start(d) PROVE InHand(d)'
    BY <1>3 DEF Start, Down, InHand, TypeOK, Deciding
  <1>4. ASSUME Assign(d) PROVE InHand(d)'
    <2>1. /\ worker'[d].step = worker[d].step /\ worker'[d].message = worker[d].message
          /\ worker'[d].handler = worker[d].handler
      BY <1>4 DEF Assign, TypeOK, WorkerStates
    <2>2. worker[d].step \in Deciding \union {"commit"} => worker[d].message \in Offsets
      BY DEF HoldsMessage
    <2> QED
      BY <2>1, <2>2, SettledStays DEF InHand, Deciding
  <1>5. ASSUME Fetch(d) PROVE InHand(d)'
    <2>1. worker'[d].handler = 1 /\ worker'[d].step \in {"check", "dispatch", "quarantine", "backoff"}
      BY <1>5 DEF Fetch, FirstStep, StartEvent, TypeOK
    <2>2. \A h \in Handlers : ~(h < 1)
      BY DEF Handlers
    <2> QED
      BY <2>1, <2>2 DEF InHand
  <1>6. ASSUME Quarantine(d) PROVE InHand(d)'
    <2>1. worker'[d].step = "commit" /\ worker'[d].message = worker[d].message
      BY <1>6, GotoAlone DEF Quarantine, Steps
    <2>2. worker[d].message \in Offsets /\ <<0, worker[d].message>> \in dead'
      BY <1>6 DEF Quarantine, HoldsMessage, Deciding
    <2>3. Explained(worker[d].message)'
      BY <2>1, <2>2 DEF Explained, Settled
    <2> QED
      BY <2>1, <2>3 DEF InHand
  <1>7. ASSUME Check(d) PROVE InHand(d)'
    <2>1. worker[d].message \in Offsets /\ worker[d].handler = 1
      BY <1>7 DEF Check, HoldsMessage, Deciding, InHand
    <2>2. \A h \in Handlers : ~(h < 1)
      BY DEF Handlers
    <2>3. CASE IsDuplicate(worker[d].message)
      <3>1. worker'[d].step = "commit" /\ worker'[d].message = worker[d].message
        BY <1>7, <2>3, GotoAlone DEF Check, Steps
      <3>2. Explained(worker[d].message)'
        BY <2>1, <2>3, <3>1, DuplicateIsExplained, SettledStays
      <3> QED
        BY <3>1, <3>2 DEF InHand
    <2>4. CASE ~IsDuplicate(worker[d].message)
      <3>1. worker'[d].step = "dispatch" /\ worker'[d].handler = 1
        BY <1>7, <2>1, <2>4, GotoAlone DEF Check, Steps
      <3> QED
        BY <2>2, <3>1 DEF InHand
    <2> QED
      BY <2>3, <2>4
  <1>8. ASSUME worker[d].step = "dispatch", worker[d].handler \in Handlers,
               worker' = [worker EXCEPT ![d] = NextHandler(worker[d])],
               \/ done'[worker[d].message][worker[d].handler] > 0
               \/ <<worker[d].handler, worker[d].message>> \in dead'
        PROVE  InHand(d)'
    <2> DEFINE m == worker[d].message
               b == worker[d].handler
    <2>1. m \in Offsets /\ \A h \in Handlers : h < b => Handled(m, h)
      BY <1>8 DEF HoldsMessage, Deciding, InHand
    <2>2. /\ worker'[d].step = "dispatch" /\ worker'[d].message = m
          /\ worker'[d].handler = b + 1
      BY <1>8, NextHandlerFields
    <2>3. \A h \in Handlers : h < b + 1 => h < b \/ h = b
      BY <1>8 DEF Handlers
    <2>4. \A h \in Handlers : h < b + 1 => done'[m][h] > 0 \/ <<h, m>> \in dead'
      BY <1>8, <2>1, <2>3, Grows DEF Handled
    <2> QED
      BY <2>2, <2>4 DEF InHand, Handled
  <1>9. ASSUME Succeed(d) PROVE InHand(d)'
    <2> DEFINE m == worker[d].message
               b == worker[d].handler
    <2>1. /\ m \in Offsets /\ b \in Handlers /\ done'[m][b] = done[m][b] + 1
      BY <1>9, SucceedFacts
    <2>2. done[m][b] \in Nat
      BY <2>1 DEF TypeOK
    <2>3. done'[m][b] > 0
      BY <2>1, <2>2
    <2> QED
      BY <1>8, <1>9, <2>3 DEF Succeed
  <1>10. ASSUME Retry(d) PROVE InHand(d)'
    <2>1. /\ worker'[d].step = "dispatch" /\ worker'[d].message = worker[d].message
          /\ worker'[d].handler = worker[d].handler /\ worker[d].step = "dispatch"
      BY <1>10 DEF Retry, TypeOK, WorkerStates
    <2>2. worker[d].message \in Offsets
      BY <2>1 DEF HoldsMessage, Deciding
    <2> QED
      BY <2>1, <2>2, SettledStays DEF InHand
  <1>11. ASSUME GiveUp(d) PROVE InHand(d)'
    <2>1. <<worker[d].handler, worker[d].message>> \in dead'
      BY <1>11 DEF GiveUp, Sent
    <2> QED
      BY <1>8, <1>11, <2>1 DEF GiveUp, Handled
  <1>12. ASSUME Dispatched(d) PROVE InHand(d)'
    <2>1. /\ worker'[d].step \in {"mark", "commit"} /\ worker'[d].message = worker[d].message
      BY <1>12, GotoAlone DEF Dispatched, Steps
    <2>2. worker[d].message \in Offsets
      BY <1>12 DEF Dispatched, HoldsMessage, Deciding
    <2>3. \A h \in Handlers : h < worker[d].handler
      BY <1>12, LimitsAssumption DEF Dispatched, Handlers, TypeOK, WorkerStates
    <2>4. \A h \in Handlers : Handled(worker[d].message, h)
      BY <1>12, <2>3 DEF InHand, Dispatched
    <2>5. \A h \in Handlers : Handled(worker[d].message, h)'
      BY <2>1, <2>2, <2>4, SettledStays
    <2>6. Explained(worker[d].message)'
      BY <2>1, <2>2, <2>4, SettledStays, AllHandledIsExplained
    <2> QED
      BY <2>1, <2>5, <2>6 DEF InHand
  <1>13. ASSUME Mark(d) PROVE InHand(d)'
    <2>1. /\ worker'[d].step \in {"markidem", "commit"} /\ worker'[d].message = worker[d].message
          /\ worker[d].step \in {"mark", "markidem"}
      BY <1>13, GotoAlone DEF Mark, Steps
    <2>2. worker[d].message \in Offsets /\ \A h \in Handlers : Handled(worker[d].message, h)
      BY <2>1 DEF HoldsMessage, Deciding, InHand
    <2>3. \A h \in Handlers : Handled(worker[d].message, h)'
      BY <2>1, <2>2, SettledStays
    <2>4. Explained(worker[d].message)'
      BY <2>1, <2>2, SettledStays, AllHandledIsExplained
    <2> QED
      BY <2>1, <2>3, <2>4 DEF InHand
  <1>14. worker'[d] = worker[d] \/ worker'[d].step \notin Deciding \union {"commit"} \/ Start(d) \/ Assign(d)
         \/ Fetch(d) \/ Quarantine(d) \/ Check(d) \/ Succeed(d) \/ Retry(d) \/ GiveUp(d)
         \/ Dispatched(d) \/ Mark(d)
    <2>1. ASSUME NEW c \in Consumers, NEW step \in Steps \ (Deciding \union {"commit"}), Goto(c, step)
          PROVE  worker'[d] = worker[d] \/ worker'[d].step \notin Deciding \union {"commit"}
      BY <2>1, GotoAlone
    <2>2. CASE UNCHANGED vars \/ Produce \/ Revoke
      BY <2>2 DEF vars, Produce, Revoke
    <2>3. ASSUME NEW c \in Consumers, LoopError(c) \/ ReconnectFails(c) \/ Stop(c) \/ Commit(c)
                   \/ CommitRefused(c) \/ Reconnect(c)
          PROVE  worker'[d] = worker[d] \/ worker'[d].step \notin Deciding \union {"commit"}
      BY <2>1, <2>3 DEF LoopError, ReconnectFails, Stop, Commit, CommitRefused, Reconnect, Steps, Deciding
    <2>4. ASSUME NEW c \in Consumers \ {d}, Start(c) \/ Assign(c) \/ Fetch(c) \/ Quarantine(c)
                   \/ Check(c) \/ Succeed(c) \/ Retry(c) \/ GiveUp(c) \/ Dispatched(c) \/ Mark(c)
          PROVE  worker'[d] = worker[d]
      BY <2>4 DEF Start, Assign, Fetch, Quarantine, Check, Succeed, Retry, GiveUp, Dispatched, Mark,
                  Goto, TypeOK
    <2> QED
      BY <2>2, <2>3, <2>4 DEF Next, Process
  <1> QED
    BY <1>1, <1>2, <1>3, <1>4, <1>5, <1>6, <1>7, <1>9, <1>10, <1>11, <1>12, <1>13, <1>14

LEMMA MarkedStep ==
    ASSUME TypeOK, HoldsMessage, \A c \in Consumers : InHand(c), MarkedIsSettled, [Next]_vars
    PROVE  MarkedIsSettled'
  <1>1. ASSUME NEW m \in Offsets, Settled(m), marked' = marked \union {IdKey(m)}
               \/ marked' = marked \union IdemKeys(m)
        PROVE  MarkedIsSettled'
    <2>1. \A o \in Offsets : IdKey(o) \in marked' => Settled(o)
      BY <1>1 DEF MarkedIsSettled, IdKey, IdemKeys
    <2>2. \A key \in Keys : <<"idem", key>> \in marked' =>
              \E p \in Offsets : Settled(p) /\ Log[p].idem = key
      BY <1>1 DEF MarkedIsSettled, IdKey, IdemKeys
    <2> QED
      BY <2>1, <2>2, SettledStays DEF MarkedIsSettled, IdKey
  <1>2. CASE marked' = marked
    BY <1>2, SettledStays DEF MarkedIsSettled, IdKey
  <1>3. ASSUME NEW c \in Consumers, Mark(c) PROVE MarkedIsSettled'
    <2>1. worker[c].message \in Offsets /\ \A h \in Handlers : Handled(worker[c].message, h)
      BY <1>3 DEF Mark, HoldsMessage, Deciding, InHand
    <2> QED
      BY <1>1, <1>3, <2>1, AllHandledIsExplained DEF Mark
  <1>4. marked' = marked \/ \E c \in Consumers : Mark(c)
    BY DEF Next, Process, vars, Produce, Revoke, Start, Assign, LoopError, ReconnectFails, Stop, Fetch,
           Quarantine, Check, Succeed, Retry, GiveUp, Dispatched, Commit, CommitRefused, Reconnect
  <1> QED
    BY <1>2, <1>3, <1>4

LEMMA AckedMeansExplained ==
    ASSUME TypeOK
    PROVE  AckedIsSettled <=> \A o \in Offsets : o <= committed => Explained(o)
  <1>1. \A o : o \in 1 .. committed <=> o \in Offsets /\ o <= committed
    BY LogFacts DEF Offsets, TypeOK
  <1> QED
    BY <1>1 DEF AckedIsSettled, Explained

LEMMA ExplainedIsAcked ==
    ASSUME TypeOK', \A o \in Offsets : o <= committed' => Explained(o)'
    PROVE  AckedIsSettled'
  <1>1. \A o : o \in 1 .. committed' <=> o \in Offsets /\ o <= committed'
    BY LogFacts DEF Offsets, TypeOK
  <1> QED
    BY <1>1 DEF AckedIsSettled, Explained

\* Whatever the consumers do, what the owner has behind it is explained.
LEMMA OwnerStep ==
    ASSUME AckInv, [Next]_vars, \A c \in Consumers : InHand(c)'
    PROVE  OwnerKeepsUp'
  <1> USE DEF AckInv
  <1> SUFFICES ASSUME owner' # NoConsumer PROVE OwnerKeepsUp'
    BY DEF OwnerKeepsUp
  <1>1. ASSUME owner' = owner, worker'[owner] = worker[owner] PROVE OwnerKeepsUp'
    BY <1>1, SettledStays DEF OwnerKeepsUp, IsMember
  <1>2. ASSUME NEW c \in Consumers, owner' = owner, owner # c,
               \A d \in Consumers \ {c} : worker'[d] = worker[d]
        PROVE  OwnerKeepsUp'
    BY <1>1, <1>2 DEF TypeOK
  <1>3. ASSUME NEW c \in Consumers, owner' = owner, worker'[c].message = worker[c].message,
               \A d \in Consumers \ {c} : worker'[d] = worker[d],
               worker'[c].position = worker[c].position,
               \/ worker'[c].step \in Deciding \union {"commit"}
               \/ worker[c].step = "commit" /\ worker'[c].step = "poll"
        PROVE  OwnerKeepsUp'
    <2>1. CASE owner # c
      BY <1>2, <1>3, <2>1
    <2>2. CASE owner = c /\ worker'[c].step \in Deciding
      BY <1>3, <2>2, SettledStays DEF OwnerKeepsUp, IsMember, Deciding
    <2>3. CASE owner = c /\ worker'[c].step = "commit"
      <3>1. Explained(worker[c].message)'
        BY <2>3 DEF InHand
      <3>2. \A o \in Offsets : o <= worker[c].position => Explained(o) \/ o = worker[c].message
        BY <2>3, ConsumersAssumption DEF OwnerKeepsUp
      <3>3. \A o \in Offsets : o <= worker'[c].position => Explained(o)'
        BY <1>3, <3>1, <3>2, SettledStays
      <3> QED
        BY <1>3, <2>3, <3>3 DEF OwnerKeepsUp, IsMember
    <2>4. CASE owner = c /\ worker[c].step = "commit" /\ worker'[c].step = "poll"
      BY <1>3, <2>4, SettledStays DEF OwnerKeepsUp, IsMember, Deciding
    <2> QED
      BY <1>3, <2>1, <2>2, <2>3, <2>4
  <1>4. CASE UNCHANGED vars \/ Produce \/ Revoke
    BY <1>1, <1>4 DEF vars, Produce, Revoke
  <1>5. ASSUME NEW c \in Consumers, Start(c) PROVE OwnerKeepsUp'
    BY <1>2, <1>5 DEF Start, OwnerKeepsUp, IsMember, TypeOK
  <1>6. ASSUME NEW c \in Consumers, Assign(c) PROVE OwnerKeepsUp'
    <2>1. owner' = c /\ worker'[c].step = worker[c].step /\ worker'[c].position = committed /\ IsMember(c)
      BY <1>6 DEF Assign, TypeOK, WorkerStates, Resume
    <2>2. \A o \in Offsets : o <= committed => Explained(o)'
      BY AckedMeansExplained, SettledStays
    <2> QED
      BY <2>1, <2>2 DEF OwnerKeepsUp, IsMember
  <1>7. ASSUME NEW c \in Consumers, Fetch(c) PROVE OwnerKeepsUp'
    <2> DEFINE n == worker[c].position + 1
    <2>1. owner = c /\ owner' = c /\ FirstStep(n) # "backoff" /\ worker[c].step = "poll"
      BY <1>7 DEF Fetch, Leave
    <2>2. FirstStep(n) \in {"quarantine", "check", "dispatch"}
      BY <2>1 DEF FirstStep, StartEvent
    <2>3. worker'[c].step = FirstStep(n) /\ worker'[c].position = n /\ worker'[c].message = n
      BY <1>7 DEF Fetch, TypeOK
    <2>4. worker[c].position \in Nat
      BY LogFacts DEF TypeOK, WorkerStates
    <2>5. \A o \in Offsets : o <= n => o <= worker[c].position \/ o = n
      BY <2>4, LogFacts
    <2>6. \A o \in Offsets : o <= worker[c].position => Explained(o)'
      BY <2>1, SettledStays DEF OwnerKeepsUp, Deciding
    <2> HIDE DEF n
    <2> QED
      BY <2>1, <2>2, <2>3, <2>5, <2>6 DEF OwnerKeepsUp, IsMember, Deciding
  <1>8. ASSUME NEW c \in Consumers, Quarantine(c) \/ Check(c) \/ Dispatched(c) \/ Mark(c)
        PROVE  OwnerKeepsUp'
    <2>1. PICK step \in Deciding \union {"commit"} : Goto(c, step) /\ owner' = owner
      BY <1>8 DEF Quarantine, Check, Dispatched, Mark, Deciding
    <2>2. step \in Steps
      BY DEF Deciding, Steps
    <2> QED
      BY <1>3, <2>1, <2>2, GotoAlone
  <1>9. ASSUME NEW c \in Consumers, Succeed(c) \/ GiveUp(c) PROVE OwnerKeepsUp'
    <2>1. owner' = owner /\ worker[c].step = "dispatch" /\ worker' = [worker EXCEPT ![c] = NextHandler(worker[c])]
      BY <1>9 DEF Succeed, GiveUp
    <2> QED
      BY <1>3, <2>1, NextHandlerFields DEF Deciding
  <1>10. ASSUME NEW c \in Consumers, Retry(c) PROVE OwnerKeepsUp'
    <2>1. /\ owner' = owner /\ worker'[c].step = "dispatch" /\ worker'[c].message = worker[c].message
          /\ worker'[c].position = worker[c].position
          /\ \A d \in Consumers \ {c} : worker'[d] = worker[d]
      BY <1>10 DEF Retry, TypeOK, WorkerStates
    <2> QED
      BY <1>3, <2>1 DEF Deciding
  <1>11. ASSUME NEW c \in Consumers, Commit(c) PROVE OwnerKeepsUp'
    <2>1. Goto(c, "poll") /\ "poll" \in Steps /\ owner' = owner /\ worker[c].step = "commit"
      BY <1>11 DEF Commit, Steps
    <2> QED
      BY <1>3, <2>1, GotoAlone
  <1>12. ASSUME NEW c \in Consumers, CommitRefused(c) \/ Reconnect(c) \/ ReconnectFails(c)
                  \/ LoopError(c) \/ Stop(c)
         PROVE  OwnerKeepsUp'
    <2>1. \E step \in Steps : Goto(c, step)
      BY <1>12 DEF CommitRefused, Reconnect, ReconnectFails, LoopError, Stop, Steps
    <2>2. owner # c /\ owner' = owner
      BY <1>12 DEF CommitRefused, Owns, Reconnect, ReconnectFails, LoopError, Leave, Stop, OwnerKeepsUp,
                   IsMember
    <2> QED
      BY <1>2, <2>1, <2>2, GotoAlone
  <1> QED
    BY <1>4, <1>5, <1>6, <1>7, <1>8, <1>9, <1>10, <1>11, <1>12 DEF Next, Process

LEMMA AckedStep ==
    ASSUME AckInv, [Next]_vars, TypeOK'
    PROVE  AckedIsSettled'
  <1> USE DEF AckInv
  <1>1. CASE committed' = committed
    <2>1. \A o \in Offsets : o <= committed' => Explained(o)'
      BY <1>1, AckedMeansExplained, SettledStays
    <2> QED
      BY <2>1, ExplainedIsAcked
  <1>2. ASSUME NEW c \in Consumers, Commit(c) PROVE AckedIsSettled'
    <2>1. \A o \in Offsets : o <= worker[c].position => Explained(o)
      BY <1>2, ConsumersAssumption DEF Commit, Owns, OwnerKeepsUp, Deciding
    <2>2. committed' = worker[c].position
      BY <1>2 DEF Commit
    <2>3. \A o \in Offsets : o <= committed' => Explained(o)'
      BY <2>1, <2>2, SettledStays
    <2> QED
      BY <2>3, ExplainedIsAcked
  <1>3. committed' = committed \/ \E c \in Consumers : Commit(c)
    BY DEF Next, Process, vars, Produce, Revoke, Start, Assign, LoopError, ReconnectFails, Stop, Fetch,
           Quarantine, Check, Succeed, Retry, GiveUp, Dispatched, Mark, CommitRefused, Reconnect
  <1> QED
    BY <1>1, <1>2, <1>3

LEMMA AckInvStep == AckInv /\ [Next]_vars => AckInv'
  <1> SUFFICES ASSUME AckInv, [Next]_vars PROVE AckInv'
    OBVIOUS
  <1>1. TypeOK' /\ HoldsMessage'
    BY TypeStep DEF AckInv
  <1>2. \A c \in Consumers : InHand(c)'
    BY InHandStep DEF AckInv
  <1>3. OwnerKeepsUp'
    BY <1>2, OwnerStep
  <1>4. MarkedIsSettled'
    BY MarkedStep DEF AckInv
  <1>5. AckedIsSettled'
    BY <1>1, AckedStep
  <1> QED
    BY <1>1, <1>2, <1>3, <1>4, <1>5 DEF AckInv

LEMMA AckInvInit == Init => AckInv
  <1> SUFFICES ASSUME Init PROVE AckInv
    OBVIOUS
  <1>1. TypeOK
    BY SubscriberInit
  <1>2. \A c \in Consumers : worker[c].step = "down"
    BY DEF Init, Down
  <1>3. HoldsMessage /\ \A c \in Consumers : InHand(c)
    BY <1>2 DEF HoldsMessage, InHand, Deciding
  <1>4. OwnerKeepsUp /\ MarkedIsSettled /\ AckedIsSettled
    BY DEF Init, OwnerKeepsUp, MarkedIsSettled, AckedIsSettled
  <1> QED
    BY <1>1, <1>3, <1>4 DEF AckInv

-----------------------------------------------------------------------------
(* Repeats need faults *)

\* Successes, as a function of what has been done.
Count(f, key, h) ==
    SumFunctionOnSet([o \in Offsets |-> f[o][h]], {o \in Offsets : Log[o].idem = key})

LEMMA KeyOffsetsFinite == \A key : IsFiniteSet({o \in Offsets : Log[o].idem = key})
  <1>1. IsFiniteSet(1 .. Len(Log))
    BY LogFacts, FS_Interval
  <1>2. IsFiniteSet(Offsets)
    BY <1>1 DEF Offsets
  <1> SUFFICES ASSUME NEW key PROVE IsFiniteSet({o \in Offsets : Log[o].idem = key})
    OBVIOUS
  <1> DEFINE S == {o \in Offsets : Log[o].idem = key}
  <1>3. S \in SUBSET Offsets
    OBVIOUS
  <1> HIDE DEF S
  <1>4. IsFiniteSet(S)
    BY <1>2, <1>3, FS_Subset
  <1> QED
    BY <1>4 DEF S

LEMMA CountType ==
    ASSUME NEW f \in [Offsets -> [Handlers -> Nat]], NEW key, NEW h \in Handlers
    PROVE  Count(f, key, h) \in Int
  <1> DEFINE S == {o \in Offsets : Log[o].idem = key}
             g == [o \in Offsets |-> f[o][h]]
  <1>1. IsFiniteSet(S)
    BY KeyOffsetsFinite
  <1>2. \A o \in S : g[o] \in Int
    OBVIOUS
  <1> HIDE DEF S, g
  <1>3. SumFunctionOnSet(g, S) \in Int
    BY <1>1, <1>2, SumType
  <1> QED
    BY <1>3 DEF Count, S, g

\* g is f with one more success of b on a.
Bumped(f, g, a, b) ==
    /\ f \in [Offsets -> [Handlers -> Nat]] /\ g \in [Offsets -> [Handlers -> Nat]]
    /\ g[a][b] = f[a][b] + 1
    /\ \A o \in Offsets, i \in Handlers : o # a \/ i # b => g[o][i] = f[o][i]

\* It counts for the key of a and for b only.
LEMMA CountOneMore ==
    ASSUME NEW f, NEW g, NEW a \in Offsets, NEW b \in Handlers, Bumped(f, g, a, b),
           NEW key, NEW h \in Handlers
    PROVE  Count(g, key, h) = Count(f, key, h) + (IF Log[a].idem = key /\ h = b THEN 1 ELSE 0)
  <1> DEFINE S == {o \in Offsets : Log[o].idem = key}
             ff == [o \in Offsets |-> f[o][h]]
             gg == [o \in Offsets |-> g[o][h]]
  <1>1. IsFiniteSet(S)
    BY KeyOffsetsFinite
  <1>2. \A o \in S : ff[o] \in Int /\ gg[o] \in Int
    BY DEF Bumped
  <1>3. \A o \in S : o # a \/ h # b => gg[o] = ff[o]
    BY DEF Bumped
  <1>4. a \in S /\ h = b => gg[a] = ff[a] + 1
    BY DEF Bumped
  <1>5. a \in S <=> Log[a].idem = key
    BY DEF Bumped
  <1> HIDE DEF S, ff, gg
  <1>6. SumFunctionOnSet(ff, S) \in Int
    BY <1>1, <1>2, SumType
  <1>7. CASE a \in S /\ h = b
    <2>1. SumFunctionOnSet(gg, S) = SumFunctionOnSet(ff, S) + (gg[a] - ff[a])
      BY <1>1, <1>2, <1>3, <1>7, SumUpdate
    <2>2. ff[a] \in Int /\ gg[a] = ff[a] + 1
      BY <1>2, <1>4, <1>7
    <2>3. SumFunctionOnSet(gg, S) = SumFunctionOnSet(ff, S) + 1
      BY <1>6, <2>1, <2>2
    <2> QED
      BY <1>5, <1>7, <2>3 DEF Count, S, ff, gg
  <1>8. CASE ~(a \in S /\ h = b)
    <2>1. \A o \in S : ff[o] = gg[o]
      BY <1>3, <1>8
    <2>2. SumFunctionOnSet(gg, S) = SumFunctionOnSet(ff, S)
      BY <1>1, <2>1, SumSame
    <2>3. SumFunctionOnSet(gg, S) = SumFunctionOnSet(ff, S) + 0
      BY <1>6, <2>2
    <2> QED
      BY <1>5, <1>8, <2>3 DEF Count, S, ff, gg
  <1> QED
    BY <1>7, <1>8

Total(w) == SumFunctionOnSet(w, Consumers)

Weights == [Consumers -> {0, 1}]

LEMMA WeightsTotal ==
    ASSUME NEW f \in Weights
    PROVE  Total(f) \in Int
  BY SumType, ConsumersAssumption DEF Weights, Total

LEMMA WeightsLess ==
    ASSUME NEW f \in Weights, NEW g \in Weights, \A c \in Consumers : g[c] <= f[c]
    PROVE  Total(g) <= Total(f)
  BY SumLess, ConsumersAssumption DEF Weights, Total

LEMMA WeightsUpdate ==
    ASSUME NEW f \in Weights, NEW g \in Weights, NEW c \in Consumers,
           \A d \in Consumers \ {c} : g[d] = f[d]
    PROVE  Total(g) = Total(f) + (g[c] - f[c])
  BY SumUpdate, ConsumersAssumption DEF Weights, Total

LEMMA WeightType ==
    ASSUME NEW key, NEW h
    PROVE  Weight(key, h) \in Weights /\ Weight(key, h)' \in Weights
  BY DEF Weight, Weights

LEMMA WeightAt ==
    ASSUME NEW key, NEW h, NEW c \in Consumers
    PROVE  /\ Weight(key, h)[c] = IF MayRun(c, key, h) THEN 1 ELSE 0
           /\ Weight(key, h)'[c] = IF MayRun(c, key, h)' THEN 1 ELSE 0
  BY DEF Weight

\* What is accounted for a key and a handler
Account(key, h) == Count(done, key, h) + Total(Weight(key, h)) + Reserve(key)

LEMMA AccountedAsAccount ==
    /\ Accounted <=> (Dedup => \A key \in Keys, h \in Handlers : Account(key, h) <= 1 + faults)
    /\ Accounted' <=> (Dedup => \A key \in Keys, h \in Handlers : Account(key, h)' <= 1 + faults')
  BY DEF Accounted, Account, Count, Successes, Total

\* A step of one consumer, by what becomes of its own terms.
LEMMA OneWeight ==
    ASSUME TypeOK, TypeOK', NEW key \in Keys, NEW h \in Handlers, NEW c \in Consumers,
           Account(key, h) <= 1 + faults,
           \A d \in Consumers \ {c} : MayRun(d, key, h)' <=> MayRun(d, key, h),
           Count(done', key, h) + Weight(key, h)'[c] + Reserve(key)' - faults'
               <= Count(done, key, h) + Weight(key, h)[c] + Reserve(key) - faults
    PROVE  Account(key, h)' <= 1 + faults'
  <1> DEFINE f == Weight(key, h)
             g == Weight(key, h)'
  <1>1. f \in Weights /\ g \in Weights
    BY WeightType
  <1>2. \A d \in Consumers \ {c} : g[d] = f[d]
    BY WeightAt
  <1>3. /\ f[c] \in {0, 1} /\ g[c] \in {0, 1}
    BY WeightAt
  <1>4. Reserve(key) \in {0, 1} /\ Reserve(key)' \in {0, 1}
    BY DEF Reserve
  <1>5. faults \in Int /\ faults' \in Int
    BY LimitsAssumption DEF TypeOK
  <1>6. Count(done, key, h) \in Int /\ Count(done', key, h) \in Int
    BY CountType DEF TypeOK
  <1>7. Account(key, h)' = Count(done', key, h) + Total(g) + Reserve(key)'
    BY DEF Account, Count, Total
  <1>8. Account(key, h) = Count(done, key, h) + Total(f) + Reserve(key)
    BY DEF Account
  <1> HIDE DEF f, g
  <1>9. Total(f) \in Int /\ Total(g) \in Int
    BY <1>1, WeightsTotal
  <1>10. Total(g) = Total(f) + (g[c] - f[c])
    BY <1>1, <1>2, WeightsUpdate
  <1>11. Count(done', key, h) + g[c] + Reserve(key)' - faults'
               <= Count(done, key, h) + f[c] + Reserve(key) - faults
    BY DEF f, g
  <1> QED
    BY <1>3, <1>4, <1>5, <1>6, <1>7, <1>8, <1>9, <1>10, <1>11

\* A step that lets no consumer run more than before.
LEMMA LessWeights ==
    ASSUME TypeOK, TypeOK', NEW key \in Keys, NEW h \in Handlers, UNCHANGED done,
           Account(key, h) <= 1 + faults,
           \A d \in Consumers : MayRun(d, key, h)' => MayRun(d, key, h),
           Reserve(key)' - faults' <= Reserve(key) - faults
    PROVE  Account(key, h)' <= 1 + faults'
  <1> DEFINE f == Weight(key, h)
             g == Weight(key, h)'
  <1>1. f \in Weights /\ g \in Weights
    BY WeightType
  <1>2. \A d \in Consumers : g[d] <= f[d]
    BY WeightAt
  <1>4. Reserve(key) \in {0, 1} /\ Reserve(key)' \in {0, 1}
    BY DEF Reserve
  <1>5. faults \in Int /\ faults' \in Int
    BY LimitsAssumption DEF TypeOK
  <1>6. Count(done, key, h) \in Int
    BY CountType DEF TypeOK
  <1>7. Account(key, h)' = Count(done, key, h) + Total(g) + Reserve(key)'
    BY DEF Account, Count, Total
  <1>8. Account(key, h) = Count(done, key, h) + Total(f) + Reserve(key)
    BY DEF Account
  <1> HIDE DEF f, g
  <1>9. Total(f) \in Int /\ Total(g) \in Int /\ Total(g) <= Total(f)
    BY <1>1, <1>2, WeightsTotal, WeightsLess
  <1> QED
    BY <1>4, <1>5, <1>6, <1>7, <1>8, <1>9

LEMMA SameReserve ==
    ASSUME NEW key, Unmarked(key)' <=> Unmarked(key), owner' = owner,
           owner \in Consumers => (Busy(owner, key)' <=> Busy(owner, key))
    PROVE  Reserve(key)' = Reserve(key)
  BY DEF Reserve

LEMMA SameMayRun ==
    ASSUME NEW d \in Consumers, NEW key, NEW h, worker'[d] = worker[d], Unmarked(key)' <=> Unmarked(key)
    PROVE  (MayRun(d, key, h)' <=> MayRun(d, key, h)) /\ (Busy(d, key)' <=> Busy(d, key))
  BY DEF MayRun, Busy

LEMMA SameUnmarked == ASSUME marked' = marked PROVE \A key : Unmarked(key)' <=> Unmarked(key)
  BY DEF Unmarked

\* A step of consumer c that leaves the marks and the successes alone.
LEMMA QuietStep ==
    ASSUME TypeOK, TypeOK', NEW key \in Keys, NEW h \in Handlers, NEW c \in Consumers,
           Account(key, h) <= 1 + faults, UNCHANGED <<marked, done>>,
           \A d \in Consumers \ {c} : worker'[d] = worker[d],
           Weight(key, h)'[c] + Reserve(key)' - faults' <= Weight(key, h)[c] + Reserve(key) - faults
    PROVE  Account(key, h)' <= 1 + faults'
  <1>1. \A d \in Consumers \ {c} : MayRun(d, key, h)' <=> MayRun(d, key, h)
    BY SameMayRun, SameUnmarked
  <1>2. Count(done, key, h) \in Int /\ Count(done', key, h) = Count(done, key, h)
    BY CountType DEF TypeOK
  <1>3. Weight(key, h)'[c] \in {0, 1} /\ Weight(key, h)[c] \in {0, 1}
    BY WeightAt
  <1>4. Reserve(key) \in {0, 1} /\ Reserve(key)' \in {0, 1}
    BY DEF Reserve
  <1>5. faults \in Int /\ faults' \in Int
    BY LimitsAssumption DEF TypeOK
  <1>6. Count(done', key, h) + Weight(key, h)'[c] + Reserve(key)' - faults'
           <= Count(done, key, h) + Weight(key, h)[c] + Reserve(key) - faults
    BY <1>2, <1>3, <1>4, <1>5
  <1> QED
    BY <1>1, <1>6, OneWeight

LEMMA AccountFetch ==
    ASSUME TypeOK, TypeOK', Dedup, NEW key \in Keys, NEW h \in Handlers, NEW c \in Consumers,
           Account(key, h) <= 1 + faults, Fetch(c)
    PROVE  Account(key, h)' <= 1 + faults'
  <1> DEFINE n == worker[c].position + 1
  <1>1. /\ owner = c /\ worker[c].step = "poll" /\ UNCHANGED <<marked, done, faults>>
        /\ \A d \in Consumers \ {c} : worker'[d] = worker[d]
        /\ worker'[c].step = FirstStep(n) /\ worker'[c].message = n
        /\ owner' = IF FirstStep(n) = "backoff" THEN NoConsumer ELSE c
    BY DEF Fetch, Leave, TypeOK
  <1>2. FirstStep(n) \in {"check", "quarantine", "backoff"}
    BY DEF FirstStep, StartEvent
  <1>3. ~Busy(c, key) /\ ~MayRun(c, key, h)
    BY <1>1 DEF Busy, MayRun, Deciding
  <1>4. Weight(key, h)[c] = 0 /\ Reserve(key) = IF Unmarked(key) THEN 1 ELSE 0
    BY <1>1, <1>3, WeightAt DEF Reserve
  <1>5. faults \in Int
    BY LimitsAssumption DEF TypeOK
  <1>6. Weight(key, h)'[c] + Reserve(key)' <= Reserve(key)
    <2>1. Unmarked(key)' <=> Unmarked(key)
      BY <1>1, SameUnmarked
    <2>2. CASE Busy(c, key)'
      <3>1. owner' = c /\ Reserve(key)' = 0
        BY <1>1, <1>2, <2>2 DEF Busy, Deciding, Reserve
      <3>2. Weight(key, h)'[c] = 0 \/ Unmarked(key)
        BY <1>1, <1>2, <2>1, <2>2, WeightAt DEF MayRun, Busy, Deciding
      <3>3. Weight(key, h)'[c] \in {0, 1}
        BY WeightAt
      <3> QED
        BY <1>4, <3>1, <3>2, <3>3
    <2>3. CASE ~Busy(c, key)'
      <3>1. Weight(key, h)'[c] = 0
        BY <2>3, WeightAt DEF MayRun
      <3>2. Reserve(key)' = Reserve(key)
        BY <1>1, <1>4, <2>1, <2>3, ConsumersAssumption DEF Reserve
      <3> QED
        BY <1>4, <3>1, <3>2
    <2> QED
      BY <2>2, <2>3
  <1>7. Reserve(key) \in {0, 1} /\ Reserve(key)' \in {0, 1} /\ Weight(key, h)'[c] \in {0, 1}
    BY WeightAt DEF Reserve
  <1>8. Weight(key, h)'[c] + Reserve(key)' - faults' <= Weight(key, h)[c] + Reserve(key) - faults
    BY <1>1, <1>4, <1>5, <1>6, <1>7
  <1> QED
    BY <1>1, <1>8, QuietStep

LEMMA AccountCheck ==
    ASSUME AckInv, TypeOK', NEW key \in Keys, NEW h \in Handlers, NEW c \in Consumers,
           Account(key, h) <= 1 + faults, Check(c)
    PROVE  Account(key, h)' <= 1 + faults'
  <1> DEFINE m == worker[c].message
  <1>1. /\ worker[c].step = "check" /\ UNCHANGED <<owner, marked, done, faults>>
        /\ worker'[c].step = (IF IsDuplicate(m) THEN "commit" ELSE "dispatch")
        /\ worker'[c].message = m /\ worker'[c].handler = worker[c].handler
        /\ \A d \in Consumers \ {c} : worker'[d] = worker[d]
    BY GotoAlone DEF Check, AckInv, Steps
  <1>2. m \in Offsets /\ worker[c].handler = 1
    BY <1>1 DEF AckInv, HoldsMessage, Deciding, InHand
  <1>3. Unmarked(key)' <=> Unmarked(key)
    BY <1>1, SameUnmarked
  <1>4. faults \in Int /\ TypeOK
    BY LimitsAssumption DEF AckInv, TypeOK
  <1>5. Reserve(key) \in {0, 1} /\ Reserve(key)' \in {0, 1} /\ Weight(key, h)'[c] \in {0, 1}
        /\ Weight(key, h)[c] \in {0, 1}
    BY WeightAt DEF Reserve
  <1>6. Weight(key, h)'[c] + Reserve(key)' <= Weight(key, h)[c] + Reserve(key)
    <2>1. CASE Log[m].idem # key
      <3>1. ~Busy(c, key) /\ ~Busy(c, key)'
        BY <1>1, <2>1 DEF Busy
      <3>2. Weight(key, h)'[c] = 0 /\ Weight(key, h)[c] = 0
        BY <3>1, WeightAt DEF MayRun
      <3>3. Reserve(key)' = Reserve(key)
        <4>1. owner \in Consumers => (Busy(owner, key)' <=> Busy(owner, key))
          BY <1>1, <1>3, <3>1, SameMayRun
        <4> QED
          BY <1>1, <1>3, <4>1, SameReserve
      <3> QED
        BY <1>5, <3>2, <3>3
    <2>2. CASE Log[m].idem = key /\ IsDuplicate(m)
      <3>1. Busy(c, key) /\ ~Busy(c, key)'
        BY <1>1, <2>2 DEF Busy, Deciding
      <3>2. Weight(key, h)'[c] = 0 /\ (Weight(key, h)[c] = IF Unmarked(key) THEN 1 ELSE 0)
        BY <1>1, <3>1, WeightAt DEF MayRun
      <3>3. Unmarked(key) \/ Reserve(key)' = 0
        BY <1>3 DEF Reserve
      <3>4. owner # c => Reserve(key)' = Reserve(key)
        <4>1. owner \in Consumers /\ owner # c => (Busy(owner, key)' <=> Busy(owner, key))
          BY <1>1, <1>3, SameMayRun
        <4> QED
          BY <1>1, <1>3, <4>1, SameReserve
      <3>5. owner = c => Reserve(key) = 0
        BY <3>1 DEF Reserve
      <3> QED
        BY <1>5, <3>2, <3>3, <3>4, <3>5
    <2>3. CASE Log[m].idem = key /\ ~IsDuplicate(m)
      <3>1. Busy(c, key) /\ Busy(c, key)'
        BY <1>1, <2>3 DEF Busy, Deciding
      <3>2. key # NoKey
        BY LogAssumption
      <3>3. Unmarked(key)
        BY <2>3, <3>2 DEF IsDuplicate, KeysOf, IdemKeys, Unmarked
      <3>4. Weight(key, h)[c] = 1
        BY <1>1, <3>1, <3>3, WeightAt DEF MayRun
      <3>5. Reserve(key)' = Reserve(key)
        <4>1. owner \in Consumers => (Busy(owner, key)' <=> Busy(owner, key))
          BY <1>1, <1>3, <3>1, SameMayRun
        <4> QED
          BY <1>1, <1>3, <4>1, SameReserve
      <3> QED
        BY <1>5, <3>4, <3>5
    <2> QED
      BY <2>1, <2>2, <2>3
  <1>7. Weight(key, h)'[c] + Reserve(key)' - faults' <= Weight(key, h)[c] + Reserve(key) - faults
    BY <1>1, <1>4, <1>5, <1>6
  <1> QED
    BY <1>1, <1>4, <1>7, QuietStep

\* A step within dispatch: of handler b and on to the next, or again.
LEMMA AccountDispatch ==
    ASSUME AckInv, TypeOK', NEW key \in Keys, NEW h \in Handlers, NEW c \in Consumers,
           Account(key, h) <= 1 + faults, Succeed(c) \/ GiveUp(c) \/ Retry(c)
    PROVE  Account(key, h)' <= 1 + faults'
  <1> DEFINE m == worker[c].message
             b == worker[c].handler
             p == IF Succeed(c) /\ Log[m].idem = key /\ h = b THEN 1 ELSE 0
  <1>0. TypeOK /\ HoldsMessage
    BY DEF AckInv
  <1>1. /\ worker[c].step = "dispatch" /\ UNCHANGED <<owner, marked, faults>> /\ b \in Handlers
        /\ worker'[c].step = "dispatch" /\ worker'[c].message = m
        /\ \A d \in Consumers \ {c} : worker'[d] = worker[d]
        /\ Retry(c) => worker'[c].handler = b
        /\ ~Retry(c) => worker'[c].handler = b + 1
    <2>1. CASE Retry(c)
      BY <1>0, <2>1 DEF Retry, TypeOK, WorkerStates
    <2>2. CASE ~Retry(c)
      <3>1. /\ worker' = [worker EXCEPT ![c] = NextHandler(worker[c])] /\ worker[c].step = "dispatch"
            /\ UNCHANGED <<owner, marked, faults>> /\ b \in Handlers
        BY <2>2 DEF Succeed, GiveUp
      <3> QED
        BY <1>0, <2>2, <3>1, NextHandlerFields
    <2> QED
      BY <2>1, <2>2
  <1>2. m \in Offsets /\ b \in Nat /\ h \in Nat
    BY <1>0, <1>1 DEF HoldsMessage, Deciding, Handlers
  <1>3. Unmarked(key)' <=> Unmarked(key)
    BY <1>1, SameUnmarked
  <1>4. Busy(c, key)' <=> Busy(c, key)
    BY <1>1 DEF Busy
  <1>5. Reserve(key)' = Reserve(key) /\ Reserve(key) \in {0, 1}
    <2>1. owner \in Consumers => (Busy(owner, key)' <=> Busy(owner, key))
      BY <1>1, <1>3, <1>4, SameMayRun
    <2> QED
      BY <1>1, <1>3, <2>1, SameReserve DEF Reserve
  <1>6. Succeed(c) => ~Retry(c)
    <2> SUFFICES ASSUME Succeed(c), Retry(c) PROVE FALSE
      OBVIOUS
    <2>1. done' = done
      BY DEF Retry
    <2>2. done'[m][b] = done[m][b] + 1
      BY <1>0, SucceedFacts
    <2>3. done[m][b] \in Nat
      BY <1>0, <1>1, <1>2 DEF TypeOK
    <2> QED
      BY <2>1, <2>2, <2>3
  <1>7. Weight(key, h)'[c] + p <= Weight(key, h)[c]
    <2>1. /\ Weight(key, h)[c] = IF Busy(c, key) /\ b <= h THEN 1 ELSE 0
          /\ Weight(key, h)'[c] = IF Busy(c, key) /\ worker'[c].handler <= h THEN 1 ELSE 0
      BY <1>1, <1>4, WeightAt DEF MayRun
    <2>2. Busy(c, key) <=> Log[m].idem = key
      BY <1>1 DEF Busy, Deciding
    <2>3. worker'[c].handler = b \/ worker'[c].handler = b + 1
      BY <1>1
    <2>4. Succeed(c) => worker'[c].handler = b + 1
      BY <1>1, <1>6
    <2> HIDE DEF b, m
    <2>5. CASE p = 1
      <3>1. Succeed(c) /\ Log[m].idem = key /\ h = b
        BY <2>5
      <3> QED
        BY <1>2, <2>1, <2>2, <2>4, <2>5, <3>1
    <2>6. CASE p = 0
      BY <1>2, <2>1, <2>3, <2>6
    <2> QED
      BY <2>5, <2>6
  <1>8. Count(done', key, h) = Count(done, key, h) + p /\ Count(done, key, h) \in Int
    <2>1. Count(done, key, h) \in Int
      BY <1>0, CountType DEF TypeOK
    <2>2. CASE Succeed(c)
      <3>1. /\ done \in [Offsets -> [Handlers -> Nat]] /\ done' \in [Offsets -> [Handlers -> Nat]]
            /\ done'[m][b] = done[m][b] + 1
            /\ \A o \in Offsets, i \in Handlers : o # m \/ i # b => done'[o][i] = done[o][i]
        BY <1>0, <2>2, SucceedFacts DEF TypeOK
      <3>2. Count(done', key, h) = Count(done, key, h) + (IF Log[m].idem = key /\ h = b THEN 1 ELSE 0)
        <4>1. b \in Handlers
          BY <1>1
        <4>2. m \in Offsets
          BY <1>2
        <4>3. Bumped(done, done', m, b)
          BY <3>1 DEF Bumped
        <4> HIDE DEF m, b, p
        <4> QED
          BY <4>1, <4>2, <4>3, CountOneMore
      <3>3. p = IF Log[m].idem = key /\ h = b THEN 1 ELSE 0
        BY <2>2
      <3> HIDE DEF p
      <3> QED
        BY <2>1, <3>2, <3>3
    <2>3. CASE ~Succeed(c)
      <3>1. done' = done /\ p = 0
        BY <2>3 DEF Retry, GiveUp
      <3> HIDE DEF p
      <3> QED
        BY <2>1, <3>1
    <2> QED
      BY <2>2, <2>3
  <1>9. \A d \in Consumers \ {c} : MayRun(d, key, h)' <=> MayRun(d, key, h)
    BY <1>1, <1>3, SameMayRun
  <1>10. faults \in Int /\ faults' = faults /\ p \in Int
    BY <1>0, <1>1, LimitsAssumption DEF TypeOK
  <1>11. Weight(key, h)'[c] \in {0, 1} /\ Weight(key, h)[c] \in {0, 1}
    BY WeightAt
  <1> HIDE DEF p
  <1>12. Count(done', key, h) + Weight(key, h)'[c] + Reserve(key)' - faults'
           <= Count(done, key, h) + Weight(key, h)[c] + Reserve(key) - faults
    BY <1>5, <1>7, <1>8, <1>10, <1>11
  <1> QED
    BY <1>0, <1>9, <1>12, OneWeight

LEMMA AccountDispatched ==
    ASSUME AckInv, TypeOK', Dedup, NEW key \in Keys, NEW h \in Handlers, NEW c \in Consumers,
           Account(key, h) <= 1 + faults, Dispatched(c)
    PROVE  Account(key, h)' <= 1 + faults'
  <1>0. TypeOK /\ faults \in Int
    BY LimitsAssumption DEF AckInv, TypeOK
  <1>1. /\ worker[c].step = "dispatch" /\ UNCHANGED <<owner, marked, done, faults>>
        /\ worker'[c].step = "mark" /\ worker'[c].message = worker[c].message
        /\ \A d \in Consumers \ {c} : worker'[d] = worker[d]
    BY <1>0, GotoAlone DEF Dispatched, Steps
  <1>2. Unmarked(key)' <=> Unmarked(key)
    BY <1>1, SameUnmarked
  <1>3. Busy(c, key)' <=> Busy(c, key)
    BY <1>1 DEF Busy, Deciding
  <1>4. Reserve(key)' = Reserve(key) /\ Reserve(key) \in {0, 1}
    <2>1. owner \in Consumers => (Busy(owner, key)' <=> Busy(owner, key))
      BY <1>1, <1>2, <1>3, SameMayRun
    <2> QED
      BY <1>1, <1>2, <2>1, SameReserve DEF Reserve
  <1>5. Weight(key, h)'[c] = 0 /\ Weight(key, h)[c] \in {0, 1}
    BY <1>1, WeightAt DEF MayRun
  <1>6. Weight(key, h)'[c] + Reserve(key)' - faults' <= Weight(key, h)[c] + Reserve(key) - faults
    BY <1>0, <1>1, <1>4, <1>5
  <1> QED
    BY <1>0, <1>1, <1>6, QuietStep

\* Once the key is marked, nobody runs an event of it any more that has not begun.
LEMMA AccountMark ==
    ASSUME AckInv, TypeOK', NEW key \in Keys, NEW h \in Handlers, NEW c \in Consumers,
           Account(key, h) <= 1 + faults, Mark(c)
    PROVE  Account(key, h)' <= 1 + faults'
  <1> DEFINE m == worker[c].message
  <1>0. TypeOK /\ faults \in Int /\ key # NoKey
    BY LimitsAssumption, LogAssumption DEF AckInv, TypeOK
  <1>1. /\ worker[c].step \in {"mark", "markidem"} /\ UNCHANGED <<owner, done, faults>>
        /\ worker'[c].step = (IF worker[c].step = "mark" THEN "markidem" ELSE "commit")
        /\ worker'[c].message = m
        /\ marked' = marked \union (IF worker[c].step = "mark" THEN {IdKey(m)} ELSE IdemKeys(m))
        /\ \A d \in Consumers \ {c} : worker'[d] = worker[d]
    BY <1>0, GotoAlone DEF Mark, Steps
  <1>2. ~MayRun(c, key, h)'
    BY <1>1 DEF MayRun
  <1>3. Unmarked(key)' => Unmarked(key)
    BY <1>1 DEF Unmarked
  <1>4. \A d \in Consumers : MayRun(d, key, h)' => MayRun(d, key, h)
    BY <1>1, <1>2, <1>3 DEF MayRun, Busy
  <1>5. Reserve(key)' <= Reserve(key)
    <2>1. CASE Unmarked(key)'
      <3>1. ~(Log[m].idem = key /\ worker[c].step = "markidem")
        BY <1>0, <1>1, <2>1 DEF Unmarked, IdemKeys
      <3>2. Busy(c, key)' <=> Busy(c, key)
        BY <1>1, <3>1 DEF Busy, Deciding
      <3>3. owner \in Consumers => (Busy(owner, key)' <=> Busy(owner, key))
        BY <1>1, <1>3, <2>1, <3>2, SameMayRun
      <3>4. Reserve(key)' = Reserve(key)
        BY <1>1, <1>3, <2>1, <3>3, SameReserve
      <3> QED
        BY <3>4 DEF Reserve
    <2>2. CASE ~Unmarked(key)'
      BY <2>2 DEF Reserve
    <2> QED
      BY <2>1, <2>2
  <1>6. Reserve(key)' - faults' <= Reserve(key) - faults
    <2>1. Reserve(key) \in {0, 1} /\ Reserve(key)' \in {0, 1}
      BY DEF Reserve
    <2> QED
      BY <1>0, <1>1, <1>5, <2>1
  <1>7. UNCHANGED done
    BY <1>1
  <1> QED
    BY <1>0, <1>4, <1>6, <1>7, LessWeights

\* Steps with no event in hand before or after, or none that is of concern.
LEMMA AccountIdle ==
    ASSUME AckInv, TypeOK', NEW key \in Keys, NEW h \in Handlers, NEW c \in Consumers,
           Account(key, h) <= 1 + faults,
           Start(c) \/ Quarantine(c) \/ Commit(c) \/ CommitRefused(c) \/ Reconnect(c) \/ ReconnectFails(c)
    PROVE  Account(key, h)' <= 1 + faults'
  <1>0. TypeOK /\ faults \in Int /\ faults' \in Int
    BY LimitsAssumption DEF AckInv, TypeOK
  <1>1. /\ UNCHANGED <<owner, marked, done>> /\ faults' >= faults
        /\ worker[c].step \notin Deciding \ {"quarantine"}
        /\ worker'[c].step \notin Deciding \ {"quarantine"}
        /\ \A d \in Consumers \ {c} : worker'[d] = worker[d]
    <2>1. CASE Start(c)
      BY <1>0, <2>1 DEF Start, Down, TypeOK, Deciding
    <2>2. CASE ~Start(c)
      <3>1. PICK step \in Steps \ (Deciding \ {"quarantine"}) : Goto(c, step)
        BY <2>2 DEF Quarantine, Commit, CommitRefused, Reconnect, ReconnectFails, Steps, Deciding
      <3>2. /\ \A d \in Consumers \ {c} : worker'[d] = worker[d]
            /\ worker'[c].step = step
        BY <1>0, <3>1, GotoAlone
      <3>3. faults' >= faults
        BY <1>0, <2>2 DEF Quarantine, Commit, CommitRefused, Reconnect, ReconnectFails
      <3> QED
        BY <2>2, <3>1, <3>2, <3>3 DEF Quarantine, Commit, CommitRefused, Reconnect, ReconnectFails, Deciding
    <2> QED
      BY <2>1, <2>2
  <1>2. ~Busy(c, key) /\ ~Busy(c, key)'
    BY <1>1 DEF Busy
  <1>3. Weight(key, h)'[c] = 0 /\ Weight(key, h)[c] = 0
    BY <1>2, WeightAt DEF MayRun
  <1>4. Unmarked(key)' <=> Unmarked(key)
    BY <1>1, SameUnmarked
  <1>5. Reserve(key)' = Reserve(key) /\ Reserve(key) \in {0, 1}
    <2>1. owner \in Consumers => (Busy(owner, key)' <=> Busy(owner, key))
      BY <1>1, <1>2, <1>4, SameMayRun
    <2> QED
      BY <1>1, <1>4, <2>1, SameReserve DEF Reserve
  <1>6. Weight(key, h)'[c] + Reserve(key)' - faults' <= Weight(key, h)[c] + Reserve(key) - faults
    BY <1>0, <1>1, <1>3, <1>5
  <1> QED
    BY <1>0, <1>1, <1>6, QuietStep

\* The partition is handed over.
LEMMA AccountAssign ==
    ASSUME AckInv, TypeOK', NEW key \in Keys, NEW h \in Handlers, NEW c \in Consumers,
           Account(key, h) <= 1 + faults, Assign(c)
    PROVE  Account(key, h)' <= 1 + faults'
  <1>0. TypeOK /\ faults \in Int
    BY LimitsAssumption DEF AckInv, TypeOK
  <1>1. /\ UNCHANGED <<marked, done, faults>> /\ owner = NoConsumer
        /\ \A d \in Consumers : /\ worker'[d].step = worker[d].step
                                /\ worker'[d].message = worker[d].message
                                /\ worker'[d].handler = worker[d].handler
    BY <1>0 DEF Assign, TypeOK, WorkerStates
  <1>2. Unmarked(key)' <=> Unmarked(key)
    BY <1>1, SameUnmarked
  <1>3. \A d \in Consumers : MayRun(d, key, h)' => MayRun(d, key, h)
    BY <1>1, <1>2 DEF MayRun, Busy
  <1>4. Reserve(key)' <= Reserve(key)
    BY <1>1, <1>2, ConsumersAssumption DEF Reserve
  <1>5. Reserve(key)' - faults' <= Reserve(key) - faults
    <2>1. Reserve(key) \in {0, 1} /\ Reserve(key)' \in {0, 1}
      BY DEF Reserve
    <2> QED
      BY <1>0, <1>1, <1>4, <2>1
  <1>6. UNCHANGED done
    BY <1>1
  <1> QED
    BY <1>0, <1>3, <1>5, <1>6, LessWeights

\* A fault is the excuse for one more success.
LEMMA AccountFault ==
    ASSUME AckInv, TypeOK', NEW key \in Keys, NEW h \in Handlers, Account(key, h) <= 1 + faults,
           Revoke \/ \E c \in Consumers : LoopError(c) \/ Stop(c)
    PROVE  Account(key, h)' <= 1 + faults'
  <1>0. TypeOK /\ faults \in Int
    BY LimitsAssumption DEF AckInv, TypeOK
  <1>1. UNCHANGED <<marked, done>> /\ faults' = faults + 1
    BY DEF Revoke, LoopError, Stop
  <1>2. Unmarked(key)' <=> Unmarked(key)
    BY <1>1, SameUnmarked
  <1>3. \A d \in Consumers : MayRun(d, key, h)' => MayRun(d, key, h)
    <2>1. CASE Revoke
      BY <1>2, <2>1, SameMayRun DEF Revoke
    <2>2. ASSUME NEW c \in Consumers, LoopError(c) \/ Stop(c), NEW d \in Consumers, MayRun(d, key, h)'
          PROVE  MayRun(d, key, h)
      <3>1. PICK step \in {"backoff", "down"} : Goto(c, step)
        BY <2>2 DEF LoopError, Stop
      <3>2. /\ \A e \in Consumers \ {c} : worker'[e] = worker[e]
            /\ worker'[c].step = step
        BY <1>0, <3>1, GotoAlone DEF Steps
      <3>3. d # c
        BY <2>2, <3>1, <3>2 DEF MayRun
      <3> QED
        BY <1>2, <2>2, <3>2, <3>3, SameMayRun
    <2> QED
      BY <2>1, <2>2
  <1>4. Reserve(key) \in {0, 1} /\ Reserve(key)' \in {0, 1}
    BY DEF Reserve
  <1>5. Reserve(key)' - faults' <= Reserve(key) - faults
    BY <1>0, <1>1, <1>4
  <1>6. UNCHANGED done
    BY <1>1
  <1> QED
    BY <1>0, <1>3, <1>5, <1>6, LessWeights

LEMMA AccountStill ==
    ASSUME AckInv, TypeOK', NEW key \in Keys, NEW h \in Handlers, Account(key, h) <= 1 + faults,
           UNCHANGED vars \/ Produce
    PROVE  Account(key, h)' <= 1 + faults'
  <1>0. TypeOK
    BY DEF AckInv
  <1>1. UNCHANGED <<owner, marked, worker, done, faults>>
    BY DEF vars, Produce
  <1>2. Unmarked(key)' <=> Unmarked(key)
    BY <1>1, SameUnmarked
  <1>3. \A d \in Consumers : MayRun(d, key, h)' => MayRun(d, key, h)
    BY <1>1, <1>2, SameMayRun
  <1>4. Reserve(key)' = Reserve(key) /\ Reserve(key) \in {0, 1}
    BY <1>1, <1>2, SameReserve, SameMayRun DEF Reserve
  <1>5. Reserve(key)' - faults' <= Reserve(key) - faults
    BY <1>0, <1>1, <1>4, LimitsAssumption DEF TypeOK
  <1> QED
    BY <1>0, <1>1, <1>3, <1>5, LessWeights

LEMMA AccountedStep == AckInv /\ Accounted /\ [Next]_vars => Accounted'
  <1> SUFFICES ASSUME AckInv, Accounted, [Next]_vars, Dedup, NEW key \in Keys, NEW h \in Handlers
               PROVE  Account(key, h)' <= 1 + faults'
    BY AccountedAsAccount
  <1>1. TypeOK'
    BY AckInvStep DEF AckInv
  <1>2. Account(key, h) <= 1 + faults
    BY AccountedAsAccount
  <1>3. ASSUME NEW c \in Consumers, Process(c) PROVE Account(key, h)' <= 1 + faults'
    BY <1>1, <1>2, <1>3, AccountFetch, AccountCheck, AccountDispatch, AccountDispatched, AccountMark,
       AccountIdle DEF Process, AckInv
  <1>4. ASSUME NEW c \in Consumers,
               Start(c) \/ Assign(c) \/ LoopError(c) \/ ReconnectFails(c) \/ Stop(c)
        PROVE  Account(key, h)' <= 1 + faults'
    BY <1>1, <1>2, <1>4, AccountAssign, AccountFault, AccountIdle
  <1>5. CASE UNCHANGED vars \/ Produce \/ Revoke
    BY <1>1, <1>2, <1>5, AccountStill, AccountFault
  <1> QED
    BY <1>3, <1>4, <1>5 DEF Next

LEMMA AccountedInit == Init => Accounted
  <1> SUFFICES ASSUME Init, NEW key \in Keys, NEW h \in Handlers PROVE Account(key, h) <= 1 + faults
    BY AccountedAsAccount
  <1>1. faults = 0 /\ Reserve(key) <= 1 /\ Reserve(key) \in {0, 1}
    BY DEF Init, Reserve
  <1>2. Count(done, key, h) = 0
    <2> DEFINE S == {o \in Offsets : Log[o].idem = key}
               f == [o \in Offsets |-> done[o][h]]
    <2>1. IsFiniteSet(S)
      BY KeyOffsetsFinite
    <2>2. \A o \in S : f[o] = 0
      BY DEF Init
    <2> HIDE DEF S, f
    <2>3. SumFunctionOnSet(f, S) = 0
      BY <2>1, <2>2, SumZero
    <2> QED
      BY <2>3 DEF Count, S, f
  <1>3. Total(Weight(key, h)) = 0
    <2>1. \A c \in Consumers : Weight(key, h)[c] = 0
      BY WeightAt DEF Init, Down, MayRun, Busy, Deciding
    <2> QED
      BY <2>1, SumZero, ConsumersAssumption DEF Total
  <1> QED
    BY <1>1, <1>2, <1>3 DEF Account

\* What has been counted is at least no less than the successes.
LEMMA AccountedIsExplained == ASSUME AckInv, Accounted PROVE RepeatsNeedFaults
  <1> SUFFICES ASSUME Dedup, NEW key \in Keys, NEW h \in Handlers
               PROVE  Successes(key, h) <= 1 + faults
    BY DEF RepeatsNeedFaults
  <1>1. Account(key, h) <= 1 + faults
    BY AccountedAsAccount
  <1>2. Total(Weight(key, h)) \in Int /\ 0 <= Total(Weight(key, h))
    <2>1. \A c \in Consumers : Weight(key, h)[c] \in Nat
      BY WeightAt
    <2>2. Total(Weight(key, h)) \in Nat
      BY <2>1, SumNat, ConsumersAssumption DEF Total
    <2> QED
      BY <2>2
  <1>3. Reserve(key) \in {0, 1} /\ faults \in Int /\ Count(done, key, h) \in Int
    BY CountType, LimitsAssumption DEF Reserve, AckInv, TypeOK
  <1>4. Successes(key, h) = Count(done, key, h)
    BY DEF Successes, Count
  <1> QED
    BY <1>1, <1>2, <1>3, <1>4 DEF Account

-----------------------------------------------------------------------------
(* What publish answers *)

\* A call that is not answered has no record, and a record is of a valid event.
PublisherInv ==
    /\ call \in [Calls -> P!CallStates] /\ log \in [Calls -> Nat]
    /\ \A c \in Calls :
        /\ call[c].at \in {"idle", "asking", "starting", "sending", "refused"} => log[c] = 0
        /\ call[c].at \in {"asking", "starting", "sending", "returned", "raised"} =>
              P!Publishable(call[c].event)
        /\ call[c].at = "returned" => log[c] = 1

LEMMA CallShape ==
    ASSUME NEW s \in P!CallStates
    PROVE  /\ s.at \in {"idle", "asking", "starting", "sending", "returned", "raised", "refused"}
           /\ s.at # "idle" => s.event \in P!Envelopes /\ s = [at |-> s.at, event |-> s.event]
  BY DEF P!CallStates, P!Idle

\* A call that goes on keeps its event, and the others are as they were.
LEMMA CallGoes ==
    ASSUME call \in [Calls -> P!CallStates], NEW c \in Calls, call[c].at # "idle", NEW place,
           place \in {"asking", "starting", "sending", "returned", "raised", "refused"},
           P!Goes(c, place)
    PROVE  /\ call' \in [Calls -> P!CallStates]
           /\ call'[c].at = place /\ call'[c].event = call[c].event
           /\ \A d \in Calls \ {c} : call'[d] = call[d]
  <1> DEFINE s == call[c]
             t == [at |-> place, event |-> s.event]
  <1>1. s.event \in P!Envelopes /\ s = [at |-> s.at, event |-> s.event]
    BY CallShape
  <1>2. t \in P!CallStates
    BY <1>1 DEF P!CallStates
  <1>3. [s EXCEPT !.at = place] = t
    <2> HIDE DEF s
    <2> QED
      BY <1>1
  <1>4. call' = [call EXCEPT ![c] = t]
    BY <1>3 DEF P!Goes
  <1>5. t.at = place /\ t.event = s.event
    OBVIOUS
  <1> HIDE DEF t
  <1> QED
    BY <1>2, <1>4, <1>5

LEMMA PublisherStep == PublisherInv /\ P!Next => PublisherInv'
  <1> SUFFICES ASSUME PublisherInv, P!Next PROVE PublisherInv'
    OBVIOUS
  <1> USE DEF PublisherInv
  <1>1. ASSUME NEW c \in Calls, NEW e \in P!Envelopes, P!Publish(c, e) PROVE PublisherInv'
    <2> DEFINE s == [at |-> IF P!Publishable(e) THEN "asking" ELSE "refused", event |-> e]
    <2>1. s \in P!CallStates /\ call' = [call EXCEPT ![c] = s] /\ log' = log /\ log[c] = 0
      BY <1>1 DEF P!Publish, P!CallStates, P!At
    <2>2. /\ s.at \in {"asking", "refused"} /\ s.event = e
          /\ s.at = "asking" => P!Publishable(e)
      OBVIOUS
    <2> HIDE DEF s
    <2> QED
      BY <2>1, <2>2
  <1>2. ASSUME NEW c \in Calls, NEW place \in {"starting", "sending", "raised"}, P!Goes(c, place),
               call[c].at \in {"asking", "starting"}, log' = log
        PROVE  PublisherInv'
    <2>1. /\ call' \in [Calls -> P!CallStates] /\ call'[c].at = place /\ call'[c].event = call[c].event
          /\ \A d \in Calls \ {c} : call'[d] = call[d]
      BY <1>2, CallGoes
    <2> QED
      BY <1>2, <2>1
  <1>3. ASSUME NEW c \in Calls,
               P!MakeProducer(c) \/ P!Started(c) \/ P!StartFails(c) \/ P!UseProducer(c)
        PROVE  PublisherInv'
    BY <1>2, <1>3 DEF P!MakeProducer, P!Started, P!StartFails, P!UseProducer, P!At
  <1>4. ASSUME NEW c \in Calls, P!Send(c) PROVE PublisherInv'
    <2>1. PICK acked \in BOOLEAN, stored \in BOOLEAN :
            /\ acked => stored
            /\ log' = IF stored THEN [log EXCEPT ![c] = @ + 1] ELSE log
            /\ (acked /\ P!Goes(c, "returned")) \/ P!Goes(c, "raised")
      BY <1>4 DEF P!Send, P!MayReturn
    <2>2. call[c].at = "sending" /\ log[c] = 0
      BY <1>4 DEF P!Send, P!At
    <2>3. PICK place \in {"returned", "raised"} : P!Goes(c, place) /\ (place = "returned" => stored)
      BY <2>1
    <2>4. /\ call' \in [Calls -> P!CallStates] /\ call'[c].at = place /\ call'[c].event = call[c].event
          /\ \A d \in Calls \ {c} : call'[d] = call[d]
      BY <2>2, <2>3, CallGoes
    <2>5. /\ log' \in [Calls -> Nat] /\ \A d \in Calls \ {c} : log'[d] = log[d]
          /\ stored => log'[c] = 1
      BY <2>1, <2>2
    <2> QED
      BY <2>2, <2>3, <2>4, <2>5
  <1>5. CASE P!Close \/ P!BrokerGoes \/ P!BrokerReturns
    BY <1>5 DEF P!Close, P!BrokerGoes, P!BrokerReturns
  <1> QED
    BY <1>1, <1>3, <1>4, <1>5 DEF P!Next

LEMMA PublisherSafe == PublisherInv => P!ReturnedIsPublished
  <1> SUFFICES ASSUME PublisherInv, NEW c \in Calls
               PROVE  /\ P!At(c, "returned") => log[c] = 1
                      /\ P!At(c, "refused") \/ P!At(c, "idle") => log[c] = 0
                      /\ log[c] > 0 /\ call[c].event.key = "given" => P!Readable(call[c].event)
    BY DEF P!ReturnedIsPublished
  <1>1. call[c].at \in {"idle", "asking", "starting", "sending", "returned", "raised", "refused"}
    BY CallShape DEF PublisherInv
  <1>2. log[c] > 0 => P!Publishable(call[c].event)
    BY <1>1 DEF PublisherInv
  <1> QED
    BY <1>2 DEF PublisherInv, P!At, P!Readable, P!Publishable

-----------------------------------------------------------------------------
(* Dead-letter topics *)

LEMMA SetupShape ==
    ASSUME NEW r \in P!SetupStates
    PROVE  /\ r.at \in {"none", "listed", "altering", "done"}
           /\ r.at = "listed" => r.missing \subseteq DeadLetters
           /\ r.at = "altering" => /\ r.todo \subseteq DeadLetters /\ r.skipped \subseteq DeadLetters
                                   /\ r = [at |-> "altering", todo |-> r.todo, skipped |-> r.skipped]
           /\ r.at = "done" => r.skipped \subseteq DeadLetters
  BY DEF P!SetupStates

\* What a service may rest on
ServiceInv(r) ==
    /\ r \in P!SetupStates
    /\ r.at = "listed" => \A t \in r.missing : topic[t] = "endless" => t \in crossed
    /\ r.at = "altering" =>
          \A t \in DeadLetters \ (r.todo \union r.skipped \union crossed) : topic[t] = "bounded"
    /\ r.at = "done" => \A t \in DeadLetters \ (r.skipped \union crossed) : topic[t] = "bounded"

TopicTypes == topic \in [DeadLetters -> {"none", "endless", "bounded"}] /\ crossed \subseteq DeadLetters

RetentionInv ==
    /\ TopicTypes
    /\ DOMAIN setup = Services
    /\ \A s \in Services : ServiceInv(setup[s])

\* Topics that were bounded or crossed stay so, and those that came into being are bounded
\* or crossed as far as a service knows of them.
LEMMA ServiceStays ==
    ASSUME NEW r \in P!SetupStates, ServiceInv(r), TopicTypes, TopicTypes',
           crossed \subseteq crossed',
           \A t \in DeadLetters : topic[t] = "bounded" => topic'[t] = "bounded",
           \A t \in DeadLetters : topic'[t] = "endless" /\ t \notin crossed' =>
               topic[t] = "endless" \/ ~(r.at = "listed" /\ t \in r.missing)
    PROVE  ServiceInv(r)'
  <1>1. ASSUME r.at = "listed", NEW t \in r.missing, topic'[t] = "endless" PROVE t \in crossed'
    <2>1. t \in DeadLetters
      BY <1>1, SetupShape
    <2> QED
      BY <1>1, <2>1 DEF ServiceInv
  <1>2. ASSUME r.at = "altering", NEW t \in DeadLetters \ (r.todo \union r.skipped \union crossed')
        PROVE  topic'[t] = "bounded"
    BY <1>2 DEF ServiceInv
  <1>3. ASSUME r.at = "done", NEW t \in DeadLetters \ (r.skipped \union crossed')
        PROVE  topic'[t] = "bounded"
    BY <1>3 DEF ServiceInv
  <1> QED
    BY <1>1, <1>2, <1>3 DEF ServiceInv

\* A service changes its own record only, and the topics as above.
LEMMA RetentionByOne ==
    ASSUME RetentionInv, NEW s \in Services, NEW r, setup' = [setup EXCEPT ![s] = r], ServiceInv(r)',
           TopicTypes', crossed' = crossed,
           \A t \in DeadLetters : topic[t] = "bounded" => topic'[t] = "bounded",
           \A t \in DeadLetters : topic'[t] = "endless" => topic[t] = "endless"
    PROVE  RetentionInv'
  <1>1. ASSUME NEW d \in Services \ {s} PROVE ServiceInv(setup[d])'
    <2>1. PICK e : e = setup[d]
      OBVIOUS
    <2>2. setup'[d] = e /\ ServiceInv(e) /\ e \in P!SetupStates
      BY <2>1 DEF RetentionInv, ServiceInv
    <2>3. ServiceInv(e)'
      BY <2>2, ServiceStays DEF RetentionInv
    <2> QED
      BY <2>2, <2>3
  <1>2. setup'[s] = r /\ DOMAIN setup' = Services
    BY DEF RetentionInv
  <1> QED
    BY <1>1, <1>2 DEF RetentionInv

LEMMA RetentionStep == RetentionInv /\ P!RetentionNext => RetentionInv'
  <1> SUFFICES ASSUME RetentionInv, P!RetentionNext PROVE RetentionInv'
    OBVIOUS
  <1>1. ASSUME NEW t \in DeadLetters, P!DeadLetter(t) PROVE RetentionInv'
    <2>1. /\ topic[t] = "none" /\ topic' = [topic EXCEPT ![t] = "endless"] /\ setup' = setup
          /\ crossed' = IF P!Listed(t) THEN crossed \union {t} ELSE crossed
      BY <1>1 DEF P!DeadLetter
    <2>2. TopicTypes'
      BY <2>1 DEF RetentionInv, TopicTypes
    <2>3. ASSUME NEW s \in Services PROVE ServiceInv(setup[s])'
      <3>0. PICK e : e = setup[s]
        OBVIOUS
      <3>1. e \in P!SetupStates /\ ServiceInv(e)
        BY <3>0 DEF RetentionInv, ServiceInv
      <3>2. e.at = "listed" /\ t \in e.missing => t \in crossed'
        BY <2>1, <3>0 DEF P!Listed
      <3>3. /\ crossed \subseteq crossed'
            /\ \A u \in DeadLetters : topic[u] = "bounded" => topic'[u] = "bounded"
            /\ \A u \in DeadLetters : topic'[u] = "endless" => topic[u] = "endless" \/ u = t
        BY <2>1 DEF RetentionInv, TopicTypes
      <3>4. ServiceInv(e)'
        BY <2>2, <3>1, <3>2, <3>3, ServiceStays DEF RetentionInv
      <3> QED
        BY <2>1, <3>0, <3>4
    <2> QED
      BY <2>1, <2>2, <2>3 DEF RetentionInv
  <1>2. ASSUME NEW s \in Services, P!List(s) PROVE RetentionInv'
    <2>1. UNCHANGED <<topic, crossed>> /\ TopicTypes'
      BY <1>2 DEF P!List, RetentionInv, TopicTypes
    <2>2. PICK r : /\ setup' = [setup EXCEPT ![s] = r]
                   /\ \/ r = [at |-> "listed", missing |-> {t \in DeadLetters : topic[t] = "none"}]
                      \/ r = [at |-> "done", skipped |-> DeadLetters]
      BY <1>2 DEF P!List
    <2>3. ServiceInv(r)'
      <3>1. r \in P!SetupStates
        BY <2>2 DEF P!SetupStates
      <3>2. CASE r = [at |-> "done", skipped |-> DeadLetters]
        BY <3>1, <3>2 DEF ServiceInv
      <3>3. CASE r = [at |-> "listed", missing |-> {t \in DeadLetters : topic[t] = "none"}]
        BY <2>1, <3>1, <3>3 DEF ServiceInv
      <3> QED
        BY <2>2, <3>2, <3>3
    <2> QED
      BY <2>1, <2>2, <2>3, RetentionByOne
  <1>3. ASSUME NEW s \in Services, P!CreateMissing(s) PROVE RetentionInv'
    <2> DEFINE missing == setup[s].missing
    <2>1. setup[s].at = "listed" /\ crossed' = crossed /\ ServiceInv(setup[s])
      BY <1>3 DEF P!CreateMissing, RetentionInv
    <2>2. missing \subseteq DeadLetters
      BY <2>1, SetupShape DEF ServiceInv
    <2> DEFINE Made(made) == [t \in DeadLetters |->
                                 IF t \in made /\ topic[t] = "none" THEN "bounded" ELSE topic[t]]
    <2>b. PICK made \in SUBSET missing :
            /\ topic' = Made(made)
            /\ \E r : /\ setup' = [setup EXCEPT ![s] = r]
                      /\ \/ /\ r = [at |-> "altering", todo |-> DeadLetters \ missing, skipped |-> {}]
                            /\ made = missing
                         \/ r = [at |-> "done", skipped |-> DeadLetters]
      BY <1>3 DEF P!CreateMissing, P!ToAlter
    <2>3. PICK r : /\ topic' = Made(made) /\ setup' = [setup EXCEPT ![s] = r]
                   /\ \/ /\ r = [at |-> "altering", todo |-> DeadLetters \ missing, skipped |-> {}]
                         /\ made = missing
                      \/ r = [at |-> "done", skipped |-> DeadLetters]
      BY <2>b
    <2>4. TopicTypes'
      BY <2>1, <2>3 DEF RetentionInv, TopicTypes
    <2>5. r \in P!SetupStates
      BY <2>3 DEF P!SetupStates
    <2>6. CASE r = [at |-> "done", skipped |-> DeadLetters]
      <3>1. ServiceInv(r)'
        BY <2>5, <2>6 DEF ServiceInv
      <3> QED
        BY <2>1, <2>3, <2>4, <3>1, RetentionByOne
    <2>7. CASE r = [at |-> "altering", todo |-> DeadLetters \ missing, skipped |-> {}] /\ made = missing
      <3>1. ASSUME NEW t \in DeadLetters \ (r.todo \union r.skipped \union crossed')
            PROVE  topic'[t] = "bounded"
        <4>1. t \in missing /\ t \notin crossed
          BY <2>1, <2>7, <3>1
        <4>2. topic[t] # "endless" /\ topic[t] \in {"none", "endless", "bounded"}
          BY <2>1, <4>1 DEF ServiceInv, RetentionInv, TopicTypes
        <4> QED
          BY <2>3, <2>7, <4>1, <4>2
      <3>2. ServiceInv(r)'
        BY <2>5, <2>7, <3>1 DEF ServiceInv
      <3> QED
        BY <2>1, <2>3, <2>4, <3>2, RetentionByOne
    <2> QED
      BY <2>3, <2>6, <2>7
  <1>4. ASSUME NEW s \in Services, P!Alter(s) PROVE RetentionInv'
    <2>1. setup[s].at = "altering" /\ crossed' = crossed /\ ServiceInv(setup[s])
      BY <1>4 DEF P!Alter, RetentionInv
    <2>a. PICK w : w = setup[s]
      OBVIOUS
    <2>2. PICK t \in w.todo, ok \in BOOLEAN :
            /\ topic' = IF ok THEN [topic EXCEPT ![t] = "bounded"] ELSE topic
            /\ setup' = [setup EXCEPT ![s].todo = @ \ {t},
                                      ![s].skipped = IF ok THEN @ ELSE @ \union {t}]
      BY <1>4, <2>a DEF P!Alter
    <2>3. /\ w.todo \subseteq DeadLetters /\ w.skipped \subseteq DeadLetters
          /\ w = [at |-> "altering", todo |-> w.todo, skipped |-> w.skipped]
      BY <2>1, <2>a, SetupShape DEF ServiceInv
    <2> DEFINE r == [at |-> "altering", todo |-> w.todo \ {t},
                     skipped |-> IF ok THEN w.skipped ELSE w.skipped \union {t}]
    <2>4. setup' = [setup EXCEPT ![s] = r]
      <3> DEFINE v == [at |-> "altering", todo |-> w.todo \ {t}, skipped |-> w.skipped]
                 x == IF ok THEN w.skipped ELSE w.skipped \union {t}
      <3>1. [w EXCEPT !.todo = w.todo \ {t}] = v
        BY <2>3
      <3>2. [v EXCEPT !.skipped = x] = r
        OBVIOUS
      <3>3. setup' = [setup EXCEPT ![s] = [[w EXCEPT !.todo = w.todo \ {t}] EXCEPT !.skipped = x]]
        BY <2>2, <2>a DEF RetentionInv
      <3> HIDE DEF v, x, r
      <3> QED
        BY <3>1, <3>2, <3>3
    <2>5. TopicTypes'
      BY <2>1, <2>2, <2>3 DEF RetentionInv, TopicTypes
    <2>6. r \in P!SetupStates
      BY <2>2, <2>3 DEF P!SetupStates
    <2>7. /\ \A u \in DeadLetters : topic[u] = "bounded" => topic'[u] = "bounded"
          /\ \A u \in DeadLetters : topic'[u] = "endless" => topic[u] = "endless"
          /\ ok => topic'[t] = "bounded"
      BY <2>2, <2>3 DEF RetentionInv, TopicTypes
    <2>8. ASSUME NEW u \in DeadLetters \ (r.todo \union r.skipped \union crossed')
          PROVE  topic'[u] = "bounded"
      <3>1. u \notin crossed /\ u \notin w.skipped /\ (u \notin w.todo \/ u = t) /\ (u = t => ok)
        BY <2>1, <2>8
      <3>2. CASE u = t
        BY <2>7, <3>1, <3>2
      <3>3. CASE u # t
        BY <2>1, <2>a, <2>7, <3>1, <3>3 DEF ServiceInv
      <3> QED
        BY <3>2, <3>3
    <2>9. ServiceInv(r)'
      BY <2>6, <2>8 DEF ServiceInv
    <2> HIDE DEF r
    <2> QED
      BY <2>1, <2>4, <2>5, <2>7, <2>9, RetentionByOne
  <1>5. ASSUME NEW s \in Services, P!Finish(s) PROVE RetentionInv'
    <2>0. PICK r : r = [at |-> "done", skipped |-> setup[s].skipped]
      OBVIOUS
    <2>1. /\ setup[s].at = "altering" /\ setup[s].todo = {} /\ UNCHANGED <<topic, crossed>>
          /\ setup' = [setup EXCEPT ![s] = r] /\ ServiceInv(setup[s])
      BY <1>5, <2>0 DEF P!Finish, RetentionInv
    <2>2. r \in P!SetupStates
      BY <2>0, <2>1, SetupShape DEF ServiceInv, P!SetupStates
    <2>3. ServiceInv(r)'
      BY <2>0, <2>1, <2>2 DEF ServiceInv
    <2>4. TopicTypes'
      BY <2>1 DEF RetentionInv, TopicTypes
    <2> QED
      BY <2>1, <2>3, <2>4, RetentionByOne
  <1> QED
    BY <1>1, <1>2, <1>3, <1>4, <1>5 DEF P!RetentionNext

LEMMA RetentionSafe == RetentionInv => P!DeadLettersExpire
  BY DEF RetentionInv, ServiceInv, P!DeadLettersExpire

LEMMA RetentionInit == P!RetentionInit => RetentionInv
  BY DEF P!RetentionInit, RetentionInv, TopicTypes, ServiceInv, P!SetupStates

LEMMA PublisherInit == P!Init => PublisherInv
  BY DEF P!Init, PublisherInv, P!CallStates, P!Idle

LEMMA BrokerStep ==
    PublisherInv /\ RetentionInv /\ [SideNext]_all => PublisherInv' /\ RetentionInv'
  <1> SUFFICES ASSUME PublisherInv, RetentionInv, [SideNext]_all PROVE PublisherInv' /\ RetentionInv'
    OBVIOUS
  <1>1. ASSUME UNCHANGED publisher PROVE PublisherInv'
    BY <1>1 DEF publisher, PublisherInv
  <1>2. ASSUME UNCHANGED deadLetters PROVE RetentionInv'
    BY <1>2 DEF deadLetters, RetentionInv, TopicTypes, ServiceInv
  <1> QED
    BY <1>1, <1>2, PublisherStep, RetentionStep DEF SideNext, OfSubscriber, all

-----------------------------------------------------------------------------
(* Theorems *)

\* The types of the subscriber's variables (EventSubscriber).
THEOREM SubscriberTypes == Spec => []TypeOK
  <1>1. AckInv => TypeOK
    BY DEF AckInv
  <1> QED
    BY <1>1, AckInvInit, AckInvStep, PTL DEF Spec

\* Whatever crashes, rebalances and errors do to any number of consumers: an
\* acknowledged message has been handled or dead-lettered, or one of its
\* business operation has, and a handler succeeds on a business operation once
\* and once more for every fault at the most (KafkaEventSubscriber).
THEOREM NothingLostNothingRepeated == Spec => []HandledOrExplained
  <1>1. AckInv /\ Accounted => HandledOrExplained
    BY AccountedIsExplained DEF HandledOrExplained, AckInv
  <1> QED
    BY <1>1, AckInvInit, AckInvStep, AccountedInit, AccountedStep, PTL DEF Spec

\* What publish answers is what the broker has, whatever becomes of the broker and
\* of the producer (KafkaEventPublisher), and the dead-letter topics that a service
\* has set up expire, unless a failure or a crossing left one out
\* (apply_dlq_retention).
THEOREM BrokerKeeps == SideSpec => []BrokerKeepsItsPart
  <1>1. SideInit => PublisherInv /\ RetentionInv
    BY PublisherInit, RetentionInit DEF SideInit
  <1>2. PublisherInv /\ RetentionInv => BrokerKeepsItsPart
    BY PublisherSafe, RetentionSafe DEF BrokerKeepsItsPart
  <1> QED
    BY <1>1, <1>2, BrokerStep, PTL DEF SideSpec

=============================================================================
