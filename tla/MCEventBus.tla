----------------------------- MODULE MCEventBus -----------------------------
(***************************************************************************)
(* The event SDK for TLC: the consumers of a group (EventSubscriber), the  *)
(* publisher of a process and the dead-letter topics (EventPublisher).     *)
(* They share no state but the broker, which each sees its own side of, so *)
(* that nothing is lost by exploring them side by side: the first state    *)
(* chooses one of them, and only that one takes steps.                     *)
(***************************************************************************)
EXTENDS EventSubscriber

CONSTANTS business, Calls, MaxOutages, DeadLetters, Services

VARIABLES producer, call, log, isUp, outages, topic, setup, crossed

P == INSTANCE EventPublisher

publisher == <<producer, call, log, isUp, outages>>

deadLetters == <<topic, setup, crossed>>

Message(kind, idem) == [kind |-> kind, idem |-> idem]

\* The third message repeats the business operation of the first.
MCLog ==
    <<Message("good", business), Message("unreadable", NoKey), Message("good", business)>>

VARIABLE side

all == <<side, vars, publisher, deadLetters>>

SideInit ==
    /\ Init /\ P!Init /\ P!RetentionInit
    /\ side \in {"subscriber", "publisher", "dead letters"}

OfSubscriber(Step) == side = "subscriber" /\ Step /\ UNCHANGED <<side, publisher, deadLetters>>

SideNext ==
    \/ OfSubscriber(Next)
    \/ side = "publisher" /\ P!Next /\ UNCHANGED <<side, vars, deadLetters>>
    \/ side = "dead letters" /\ P!RetentionNext /\ UNCHANGED <<side, vars, publisher>>

\* The fairness of EventSubscriber!FairSpec
SideSpec ==
    /\ SideInit /\ [][SideNext]_all
    /\ \A c \in Consumers : WF_all(OfSubscriber(Process(c))) /\ WF_all(OfSubscriber(Start(c)))
    /\ WF_all(\E c \in Consumers : OfSubscriber(Assign(c)))

\* What publish answers is what the broker has (EventPublisher), and a dead-letter
\* topic that was set up without a failure does not keep its letters for ever.
BrokerKeepsItsPart == P!ReturnedIsPublished /\ P!DeadLettersExpire

=============================================================================
