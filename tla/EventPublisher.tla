--------------------------- MODULE EventPublisher ---------------------------
(***************************************************************************)
(* What a service of the event SDK asks of the broker, in two parts that   *)
(* share no state.                                                         *)
(*                                                                         *)
(* KafkaEventPublisher of the event SDK: the envelope that both ends of    *)
(* the broker check, and a producer that the first publish starts.         *)
(*                                                                         *)
(* One publisher is shared by the requests of a process, without a lock.   *)
(* The broker goes away and comes back.  A producer that never started, or *)
(* is closed, fails every send; what the broker does with a send that      *)
(* fails is open: its acknowledgement may be all that was lost.            *)
(*                                                                         *)
(* The retention that services set on the dead-letter topics when they     *)
(* start (apply_dlq_retention), several at a time.  A topic the broker     *)
(* makes by itself, for the first dead letter, keeps what it holds for     *)
(* ever.  Requests to the broker fail at any time.                         *)
(***************************************************************************)
EXTENDS Naturals

CONSTANTS
    Calls,       \* calls of publish; each is used once
    MaxOutages,  \* bound of the model: times the broker goes away
    DeadLetters, \* the topics <topic>.dlq of all_dlq_topics
    Services     \* services that start and set retention

VARIABLES
    producer,  \* _producer of the publisher
    call,      \* the publishes and their local variables
    log,       \* records at the broker, by the call that made them
    isUp,      \* the broker
    outages,
    topic,     \* the dead-letter topics at the broker
    setup,     \* apply_dlq_retention of each service
    crossed    \* history: the topics a dead letter made after a service found them missing

vars == <<producer, call, log, isUp, outages>>

retention == <<topic, setup, crossed>>

-----------------------------------------------------------------------------
(* Envelopes *)

\* Payloads that are JSON-safe, that carry a key named like a secret, that hold
\* what JSON cannot, and that are larger than max_payload_bytes.
Payloads == {"plain", "secret", "unsafe", "large"}

\* schema_version is SCHEMA_VERSION in everything that this code publishes.
Envelopes == [payload : Payloads, key : {"empty", "given"}]

ValidPayload(payload) == payload \in {"plain", "large"}

\* EventPublisher.validate_event
Publishable(e) == ValidPayload(e.payload) /\ e.payload # "large"

\* DomainEvent.from_dict: what a consumer makes an event of
Readable(e) == e.key = "given" /\ ValidPayload(e.payload)

-----------------------------------------------------------------------------
(* Types *)

ProducerStates == {"none", "starting", "started", "broken"}

Idle == [at |-> "idle"]

\* asking    the event is valid, and a producer is wanted
\* starting  this call made the producer, and starts it
\* sending   send_and_wait
CallStates ==
    {Idle} \union [at : {"asking", "starting", "sending", "returned", "raised", "refused"},
                   event : Envelopes]

At(c, place) == call[c].at = place

Goes(c, place) == call' = [call EXCEPT ![c].at = place]

Init ==
    /\ producer = "none"
    /\ call = [c \in Calls |-> Idle]
    /\ log = [c \in Calls |-> 0]
    /\ isUp = TRUE /\ outages = 0

-----------------------------------------------------------------------------
(* Publishing *)

\* publish: the event is validated before anything else is done.
Publish(c, e) ==
    /\ At(c, "idle")
    /\ call' = [call EXCEPT ![c] =
           [at |-> IF Publishable(e) THEN "asking" ELSE "refused", event |-> e]]
    /\ UNCHANGED <<producer, log, isUp, outages>>

\* _get_producer: it is kept before it is started.
MakeProducer(c) ==
    /\ At(c, "asking") /\ producer = "none"
    /\ producer' = "starting"
    /\ Goes(c, "starting")
    /\ UNCHANGED <<log, isUp, outages>>

\* A producer that was closed meanwhile is given up for None, which cannot send.
Started(c) ==
    /\ At(c, "starting") /\ isUp
    /\ producer' = IF producer = "starting" THEN "started" ELSE producer
    /\ Goes(c, IF producer = "starting" THEN "sending" ELSE "raised")
    /\ UNCHANGED <<log, isUp, outages>>

\* It stays, and no later publish starts it.
StartFails(c) ==
    /\ At(c, "starting") /\ ~isUp
    /\ producer' = IF producer = "starting" THEN "broken" ELSE producer
    /\ Goes(c, "raised")
    /\ UNCHANGED <<log, isUp, outages>>

UseProducer(c) ==
    /\ At(c, "asking") /\ producer # "none"
    /\ Goes(c, "sending")
    /\ UNCHANGED <<producer, log, isUp, outages>>

\* Faulty variant: the send is not waited for.
Whatever(c, acked) == TRUE

\* send_and_wait returns when all replicas have the record, and raises otherwise.
MayReturn(c, acked) == acked

\* The producer is idempotent: its own retries add no second record.
Send(c) ==
    /\ At(c, "sending")
    /\ \E acked \in BOOLEAN, stored \in BOOLEAN :
        /\ acked => stored /\ isUp
        /\ stored => producer = "started"
        /\ log' = IF stored THEN [log EXCEPT ![c] = @ + 1] ELSE log
        /\ \/ MayReturn(c, acked) /\ Goes(c, "returned")
           \/ ~acked /\ Goes(c, "raised")
    /\ UNCHANGED <<producer, isUp, outages>>

Close ==
    /\ producer # "none"
    /\ producer' = "none"
    /\ UNCHANGED <<call, log, isUp, outages>>

BrokerGoes ==
    /\ isUp /\ outages < MaxOutages
    /\ isUp' = FALSE /\ outages' = outages + 1
    /\ UNCHANGED <<producer, call, log>>

BrokerReturns ==
    /\ ~isUp
    /\ isUp' = TRUE
    /\ UNCHANGED <<producer, call, log, outages>>

Next ==
    \/ \E c \in Calls :
        \/ \E e \in Envelopes : Publish(c, e)
        \/ MakeProducer(c) \/ Started(c) \/ StartFails(c) \/ UseProducer(c) \/ Send(c)
    \/ Close \/ BrokerGoes \/ BrokerReturns

-----------------------------------------------------------------------------
(* Retention of dead letters *)

\* listed    the topics that were missing are to be made
\* altering  the others are to be given retention
\* done      with what was left out, after a failure
SetupStates ==
    [at : {"none"}] \union [at : {"listed"}, missing : SUBSET DeadLetters]
    \union [at : {"altering"}, todo : SUBSET DeadLetters, skipped : SUBSET DeadLetters]
    \union [at : {"done"}, skipped : SUBSET DeadLetters]

RetentionInit ==
    /\ topic = [t \in DeadLetters |-> "none"]
    /\ setup = [s \in Services |-> [at |-> "none"]]
    /\ crossed = {}

Listed(t) == \E s \in Services : setup[s].at = "listed" /\ t \in setup[s].missing

\* A dead letter makes its topic, which keeps it for ever.
DeadLetter(t) ==
    /\ topic[t] = "none"
    /\ topic' = [topic EXCEPT ![t] = "endless"]
    /\ crossed' = IF Listed(t) THEN crossed \union {t} ELSE crossed
    /\ UNCHANGED setup

List(s) ==
    /\ setup[s].at = "none"
    /\ \/ setup' = [setup EXCEPT ![s] =
              [at |-> "listed", missing |-> {t \in DeadLetters : topic[t] = "none"}]]
       \/ setup' = [setup EXCEPT ![s] = [at |-> "done", skipped |-> DeadLetters]]
    /\ UNCHANGED <<topic, crossed>>

\* The topics that are altered rather than made.
ToAlter(missing) == DeadLetters \ missing

\* A topic that another made since the listing is left as it is, and the broker's
\* answer may be an error for the whole request, which ends the setup with some made.
CreateMissing(s) ==
    LET missing == setup[s].missing IN
    /\ setup[s].at = "listed"
    /\ \/ /\ topic' = [t \in DeadLetters |->
                 IF t \in missing /\ topic[t] = "none" THEN "bounded" ELSE topic[t]]
          /\ setup' = [setup EXCEPT ![s] =
                 [at |-> "altering", todo |-> ToAlter(missing), skipped |-> {}]]
       \/ /\ \E made \in SUBSET missing :
                topic' = [t \in DeadLetters |->
                    IF t \in made /\ topic[t] = "none" THEN "bounded" ELSE topic[t]]
          /\ setup' = [setup EXCEPT ![s] = [at |-> "done", skipped |-> DeadLetters]]
    /\ UNCHANGED crossed

\* One topic after the other; one that fails is left out.
Alter(s) ==
    /\ setup[s].at = "altering"
    /\ \E t \in setup[s].todo, ok \in BOOLEAN :
        /\ topic' = IF ok THEN [topic EXCEPT ![t] = "bounded"] ELSE topic
        /\ setup' = [setup EXCEPT ![s].todo = @ \ {t},
                                  ![s].skipped = IF ok THEN @ ELSE @ \union {t}]
    /\ UNCHANGED crossed

Finish(s) ==
    /\ setup[s].at = "altering" /\ setup[s].todo = {}
    /\ setup' = [setup EXCEPT ![s] = [at |-> "done", skipped |-> setup[s].skipped]]
    /\ UNCHANGED <<topic, crossed>>

RetentionNext ==
    \/ \E t \in DeadLetters : DeadLetter(t)
    \/ \E s \in Services : List(s) \/ CreateMissing(s) \/ Alter(s) \/ Finish(s)

Spec ==
    /\ Init /\ RetentionInit
    /\ [][(Next /\ UNCHANGED retention) \/ (RetentionNext /\ UNCHANGED vars)]_<<vars, retention>>

-----------------------------------------------------------------------------
(* Properties *)

\* Types of the variables.
TypeOK ==
    /\ producer \in ProducerStates
    /\ call \in [Calls -> CallStates] /\ log \in [Calls -> Nat]
    /\ isUp \in BOOLEAN /\ outages \in 0 .. MaxOutages
    /\ topic \in [DeadLetters -> {"none", "endless", "bounded"}]
    /\ setup \in [Services -> SetupStates] /\ crossed \subseteq DeadLetters

\* A publish that returned has its record at the broker, once, one that was
\* refused has none, and a record with a key is one that every consumer of
\* this release can read.
ReturnedIsPublished ==
    \A c \in Calls :
        /\ At(c, "returned") => log[c] = 1
        /\ At(c, "refused") \/ At(c, "idle") => log[c] = 0
        /\ log[c] > 0 /\ call[c].event.key = "given" => Readable(call[c].event)

\* A service that has set the retention of a dead-letter topic without a
\* failure leaves it bounded, unless the topic came into being meanwhile.
DeadLettersExpire ==
    \A s \in Services : setup[s].at = "done" =>
        \A t \in DeadLetters \ (setup[s].skipped \union crossed) : topic[t] = "bounded"

=============================================================================
