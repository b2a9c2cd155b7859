----------------------------- MODULE OnceHandled -----------------------------
(***************************************************************************)
(* What the webhook inbox promises: an event is taken up, possibly several *)
(* times, and is done at most once; the transaction that makes it done is  *)
(* the one transaction that has its effects.  Nothing is promised of an    *)
(* event of which a request outlived its lease.                            *)
(***************************************************************************)
EXTENDS Integers

CONSTANTS
    Events,      \* the events
    KnownTypes   \* the events that have effects

VARIABLES
    phase,       \* "new", "open", "done" or "late"
    effects      \* how many transactions with the effects of the event committed

vars == <<phase, effects>>

Init ==
    /\ phase = [e \in Events |-> "new"]
    /\ effects = [e \in Events |-> 0]

Open(e) ==
    /\ phase[e] = "new"
    /\ phase' = [phase EXCEPT ![e] = "open"]
    /\ UNCHANGED effects

Finish(e) ==
    /\ phase[e] = "open"
    /\ phase' = [phase EXCEPT ![e] = "done"]
    /\ effects' = [effects EXCEPT ![e] = IF e \in KnownTypes THEN @ + 1 ELSE @]

GiveUp(S) ==
    /\ phase' = [e \in Events |-> IF e \in S THEN "late" ELSE phase[e]]
    /\ effects' = [e \in Events |-> IF e \in S THEN 0 ELSE effects[e]]

Next ==
    \/ \E e \in Events : Open(e) \/ Finish(e)
    \/ \E S \in SUBSET Events : GiveUp(S)

Spec == Init /\ [][Next]_vars

=============================================================================
