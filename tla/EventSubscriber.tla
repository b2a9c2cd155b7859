--------------------------- MODULE EventSubscriber ---------------------------
(***************************************************************************)
(* KafkaEventSubscriber of the event SDK: the consumers of one group on    *)
(* one partition, with retries, dead-letter queue and deduplication.       *)
(*                                                                         *)
(* The broker (external) assigns the partition, hands a consumer that gets *)
(* it the committed offset, and refuses the commits of any other.  What    *)
(* the consumer was doing when it lost the partition goes on.              *)
(***************************************************************************)
EXTENDS Integers, Sequences, FiniteSets, Functions

CONSTANTS
    Log,             \* the messages of the partition, [kind, idem]
    Keys,            \* idempotency keys
    NoKey,           \* a message without one
    HandlerCount,    \* the handlers subscribed to the topic
    MaxRetries,      \* max_retries
    Dedup,           \* a DeduplicationStore is configured
    Consumers,
    NoConsumer,
    MaxFaults        \* crashes, rebalances and failing calls, counted together

\* "unreadable": too large, malformed or of a newer schema version.
\* "badkey": the key of the Kafka record is not UTF-8.
Kinds == {"good", "unreadable", "badkey"}

Offsets == 1 .. Len(Log)

Handlers == 1 .. HandlerCount

ASSUME LogAssumption == NoKey \notin Keys /\ Log \in Seq([kind : Kinds, idem : Keys \union {NoKey}])

ASSUME LimitsAssumption ==
    HandlerCount \in Nat /\ MaxRetries \in Nat \ {0} /\ MaxFaults \in Nat /\ Dedup \in BOOLEAN

ASSUME ConsumersAssumption == IsFiniteSet(Consumers) /\ NoConsumer \notin Consumers

VARIABLES
    produced,    \* how much of Log has been produced
    owner,       \* the consumer the partition is assigned to
    committed,   \* the committed offset: all up to it is acknowledged
    marked,      \* the keys in the deduplication store
    worker,      \* each consumer
    done,        \* history: how often each handler has succeeded on each message
    dead,        \* history: what went to the DLQ, <<handler, offset>>; handler 0
                 \* for a message that could not be read.  _publish_dlq does not
                 \* raise: an event that the DLQ refuses is only logged.
    faults

vars == <<produced, owner, committed, marked, worker, done, dead, faults>>

-----------------------------------------------------------------------------
(* Types *)

Steps == {"down", "poll", "quarantine", "check", "dispatch", "mark", "markidem", "commit",
          "backoff", "dead"}

\* position  the offset of the last message fetched
\* message   the offset of the message in hand
\* handler   the handler that runs next on it
\* attempt   how often that handler has failed on it
WorkerStates == [step : Steps, position : 0 .. Len(Log), message : 0 .. Len(Log),
            handler : 1 .. HandlerCount + 1, attempt : 0 .. MaxRetries - 1]

Down == [step |-> "down", position |-> 0, message |-> 0, handler |-> 1, attempt |-> 0]

DedupKeys == {<<"event_id", o>> : o \in Offsets} \union {<<"idem", k>> : k \in Keys}

\* Running consumers are members of the group.
IsMember(c) == worker[c].step \notin {"down", "backoff", "dead"}

-----------------------------------------------------------------------------
(* Deduplication *)

IdKey(o) == <<"event_id", o>>

IdemKeys(o) == IF Log[o].idem = NoKey THEN {} ELSE {<<"idem", Log[o].idem>>}

KeysOf(o) == {IdKey(o)} \union IdemKeys(o)

IsDuplicate(o) == KeysOf(o) \intersect marked # {}

-----------------------------------------------------------------------------
(* Actions *)

Init ==
    /\ produced = 0
    /\ owner = NoConsumer
    /\ committed = 0
    /\ marked = {}
    /\ worker = [c \in Consumers |-> Down]
    /\ done = [o \in Offsets |-> [h \in Handlers |-> 0]]
    /\ dead = {}
    /\ faults = 0

Goto(c, step) == worker' = [worker EXCEPT ![c].step = step]

\* External: a producer appends the next message.
Produce ==
    /\ produced < Len(Log)
    /\ produced' = produced + 1
    /\ UNCHANGED <<owner, committed, marked, worker, done, dead, faults>>

\* start
Start(c) ==
    /\ worker[c].step = "down"
    /\ worker' = [worker EXCEPT ![c] = [Down EXCEPT !.step = "poll"]]
    /\ UNCHANGED <<produced, owner, committed, marked, done, dead, faults>>

\* auto_offset_reset is "earliest": a group without offset starts at the first message.
Resume == committed

\* External: the broker assigns the partition.
Assign(c) ==
    /\ owner = NoConsumer
    /\ IsMember(c)
    /\ owner' = c
    /\ worker' = [worker EXCEPT ![c].position = Resume]
    /\ UNCHANGED <<produced, committed, marked, done, dead, faults>>

\* External: the broker takes it away (a rebalance, a session timeout).
Revoke ==
    /\ owner # NoConsumer
    /\ faults < MaxFaults
    /\ owner' = NoConsumer
    /\ faults' = faults + 1
    /\ UNCHANGED <<produced, committed, marked, worker, done, dead>>

\* An event that could be read.
StartEvent == IF Dedup THEN "check" ELSE "dispatch"

\* Faulty variant: an unreadable message raises in the poll loop.
RaiseFirst(o) == IF Log[o].kind = "good" THEN StartEvent ELSE "backoff"

\* What _process_message does first: the key is decoded outside its try.
FirstStep(o) ==
    IF Log[o].kind = "badkey" THEN "backoff"
    ELSE IF Log[o].kind = "unreadable" THEN "quarantine"
    ELSE StartEvent

Leave(c, step) == owner' = IF step = "backoff" /\ owner = c THEN NoConsumer ELSE owner

Fetch(c) ==
    LET o == worker[c].position + 1 IN
    /\ worker[c].step = "poll"
    /\ owner = c
    /\ o <= produced
    /\ worker' = [worker EXCEPT ![c] = [step |-> FirstStep(o), position |-> o, message |-> o,
                                        handler |-> 1, attempt |-> 0]]
    /\ Leave(c, FirstStep(o))
    /\ UNCHANGED <<produced, committed, marked, done, dead, faults>>

\* _quarantine_raw
Quarantine(c) ==
    /\ worker[c].step = "quarantine"
    /\ dead' = dead \union {<<0, worker[c].message>>}
    /\ Goto(c, "commit")
    /\ UNCHANGED <<produced, owner, committed, marked, done, faults>>

\* The keys are looked up before the event is dispatched.
Check(c) ==
    /\ worker[c].step = "check"
    /\ Goto(c, IF IsDuplicate(worker[c].message) THEN "commit" ELSE "dispatch")
    /\ UNCHANGED <<produced, owner, committed, marked, done, dead, faults>>

\* The worker after the current handler is done with the message.
NextHandler(w) == [w EXCEPT !.handler = @ + 1, !.attempt = 0]

Succeed(c) ==
    LET w == worker[c] IN
    /\ w.step = "dispatch" /\ w.handler \in Handlers
    /\ done' = [done EXCEPT ![w.message][w.handler] = @ + 1]
    /\ worker' = [worker EXCEPT ![c] = NextHandler(w)]
    /\ UNCHANGED <<produced, owner, committed, marked, dead, faults>>

AttemptsLeft(w) == w.attempt + 1 < MaxRetries

\* A failure with attempts left: back off and try again.
Retry(c) ==
    LET w == worker[c] IN
    /\ w.step = "dispatch" /\ w.handler \in Handlers
    /\ AttemptsLeft(w)
    /\ worker' = [worker EXCEPT ![c].attempt = @ + 1]
    /\ UNCHANGED <<produced, owner, committed, marked, done, dead, faults>>

\* Faulty variant: the event is given up without a trace.
NotSent(w) == {}

\* _send_to_dlq
Sent(w) == {<<w.handler, w.message>>}

\* PermanentFailure, or the last attempt has failed: DLQ, next handler.
GiveUp(c) ==
    LET w == worker[c] IN
    /\ w.step = "dispatch" /\ w.handler \in Handlers
    /\ dead' = dead \union Sent(w)
    /\ worker' = [worker EXCEPT ![c] = NextHandler(w)]
    /\ UNCHANGED <<produced, owner, committed, marked, done, faults>>

Dispatched(c) ==
    /\ worker[c].step = "dispatch" /\ worker[c].handler \notin Handlers
    /\ Goto(c, IF Dedup THEN "mark" ELSE "commit")
    /\ UNCHANGED <<produced, owner, committed, marked, done, dead, faults>>

\* The keys are marked one by one.
Mark(c) ==
    LET w == worker[c] IN
    /\ \/ /\ w.step = "mark"
          /\ marked' = marked \union {IdKey(w.message)}
          /\ Goto(c, "markidem")
       \/ /\ w.step = "markidem"
          /\ marked' = marked \union IdemKeys(w.message)
          /\ Goto(c, "commit")
    /\ UNCHANGED <<produced, owner, committed, done, dead, faults>>

\* External: the broker takes the commit of the owner only.
Owns(c) == owner = c

\* commit() acknowledges everything up to the position of the consumer.
Commit(c) ==
    /\ worker[c].step = "commit"
    /\ Owns(c)
    /\ committed' = worker[c].position
    /\ Goto(c, "poll")
    /\ UNCHANGED <<produced, owner, marked, done, dead, faults>>

\* The partition is no longer c's: the broker refuses the commit, or the
\* client already knows and commits nothing.
CommitRefused(c) ==
    /\ worker[c].step = "commit"
    /\ ~Owns(c)
    /\ Goto(c, "backoff") \/ Goto(c, "poll")
    /\ UNCHANGED <<produced, owner, committed, marked, done, dead, faults>>

\* The broker or the store fails in a call outside the handlers: the poll
\* loop catches it.
LoopError(c) ==
    /\ faults < MaxFaults
    /\ worker[c].step \in {"poll", "check", "mark", "markidem", "commit"}
    /\ Goto(c, "backoff")
    /\ Leave(c, "backoff")
    /\ faults' = faults + 1
    /\ UNCHANGED <<produced, committed, marked, done, dead>>

\* _reconnect: a new consumer joins the group.
Reconnect(c) ==
    /\ worker[c].step = "backoff"
    /\ Goto(c, "poll")
    /\ UNCHANGED <<produced, owner, committed, marked, done, dead, faults>>

\* The start of the new consumer fails inside the except clause of _run: the
\* exception ends the task.
ReconnectFails(c) ==
    /\ worker[c].step = "backoff"
    /\ faults < MaxFaults
    /\ Goto(c, "dead")
    /\ faults' = faults + 1
    /\ UNCHANGED <<produced, owner, committed, marked, done, dead>>

\* stop cancels the task, or the process dies, wherever it is.
Stop(c) ==
    /\ faults < MaxFaults
    /\ worker[c].step # "down"
    /\ Goto(c, "down")
    /\ owner' = IF owner = c THEN NoConsumer ELSE owner
    /\ faults' = faults + 1
    /\ UNCHANGED <<produced, committed, marked, done, dead>>

\* What a live consumer does by itself.
Process(c) ==
    \/ Fetch(c)
    \/ Quarantine(c)
    \/ Check(c)
    \/ Succeed(c)
    \/ Retry(c)
    \/ GiveUp(c)
    \/ Dispatched(c)
    \/ Mark(c)
    \/ Commit(c)
    \/ CommitRefused(c)
    \/ Reconnect(c)

Next ==
    \/ Produce
    \/ Revoke
    \/ \E c \in Consumers :
        Start(c) \/ Assign(c) \/ Process(c) \/ LoopError(c) \/ ReconnectFails(c) \/ Stop(c)

Spec == Init /\ [][Next]_vars

\* Handlers return (retries are bounded), the loop goes on, a service that is
\* down is started again, and the broker assigns a partition without owner.
FairSpec ==
    /\ Spec
    /\ \A c \in Consumers : WF_vars(Process(c)) /\ WF_vars(Start(c))
    /\ WF_vars(\E c \in Consumers : Assign(c))

-----------------------------------------------------------------------------
(* Properties *)

TypeOK ==
    /\ produced \in 0 .. Len(Log)
    /\ owner \in Consumers \union {NoConsumer}
    /\ committed \in 0 .. Len(Log)
    /\ marked \subseteq DedupKeys
    /\ worker \in [Consumers -> WorkerStates]
    /\ done \in [Offsets -> [Handlers -> Nat]]
    /\ dead \subseteq (0 .. HandlerCount) \X Offsets
    /\ faults \in 0 .. MaxFaults

\* Every handler has succeeded on the message or given it up to the DLQ.
Settled(o) ==
    \/ <<0, o>> \in dead
    \/ \A h \in Handlers : done[o][h] > 0 \/ <<h, o>> \in dead

\* "Acknowledge only after success": an acknowledged message is settled, or
\* one with the same idempotency key is.
AckedIsSettled ==
    \A o \in 1 .. committed : \E p \in Offsets :
        Settled(p) /\ (p = o \/ IdemKeys(p) \intersect IdemKeys(o) # {})

\* How often handler h has succeeded on events of the key.
Successes(key, h) ==
    SumFunctionOnSet([o \in Offsets |-> done[o][h]], {o \in Offsets : Log[o].idem = key})

\* "skip duplicate deliveries after consumer restarts": a handler runs once on
\* the events of an idempotency key, and once more for every crash, rebalance or
\* failing call at the most.
RepeatsNeedFaults ==
    Dedup => \A key \in Keys, h \in Handlers : Successes(key, h) <= 1 + faults

\* Nothing is acknowledged before it is handled or dead-lettered, and nothing is
\* handled twice without a fault to explain it.
HandledOrExplained == AckedIsSettled /\ RepeatsNeedFaults

\* Every message is acknowledged in the end, unreadable ones, crashes, errors and
\* rebalances or not, while the poll loop of one consumer of the group is left
\* (and no record has a key that is not UTF-8).
AckedWhileOneLives ==
    \A o \in Offsets :
        produced >= o ~> committed >= o \/ \A c \in Consumers : worker[c].step = "dead"

=============================================================================
