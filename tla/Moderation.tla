----------------------------- MODULE Moderation -----------------------------
(***************************************************************************)
(* The moderation service: flags raised against content, the decisions of  *)
(* moderators, the strikes they issue and the suspension of creators.      *)
(*                                                                         *)
(* A decision is one transaction at READ COMMITTED.  It locks the row of   *)
(* its flag, and a strike is counted with SELECT ... FOR UPDATE: the       *)
(* statement fixes the set of strike rows when it starts (what is          *)
(* committed then, and the transaction's own) and only then waits for the  *)
(* locks on them.  The event rows of a transaction commit with it.         *)
(***************************************************************************)
EXTENDS Integers, FiniteSets

CONSTANTS
    Flags,
    Creators,
    NoCreator,   \* the creator of the content could not be resolved
    CreatorOf,   \* content_creator_id of each flag
    NoFlag,
    Moderators,
    Threshold    \* STRIKES_BEFORE_SUSPENSION

ASSUME ModerationAssumption ==
    /\ IsFiniteSet(Flags)
    /\ NoCreator \notin Creators
    /\ CreatorOf \in [Flags -> Creators \union {NoCreator}]
    /\ NoFlag \notin Flags
    /\ Threshold \in Nat \ {0}

VARIABLES
    flag,        \* content_flags: the committed status of each flag, "none" if absent
    decisions,   \* moderation_decisions: the decisions recorded for each flag
    strike,      \* creator_strikes: the strike each flag led to
    outbox,      \* outbox_events: the committed rows, as <<topic, flag>>
    tx,          \* the open decision of each moderator
    overlapped   \* history: the creators with two strikes in flight at once

vars == <<flag, decisions, strike, outbox, tx, overlapped>>

-----------------------------------------------------------------------------
(* Types *)

FlagStatuses == {"none", "pending", "resolved", "escalated"}

Decisions == {"approve", "reject", "escalate"}

\* A strike is active until its expires_at.
StrikeStates == {"none", "active", "expired"}

Topics == {"content.flagged", "moderation.decision_made", "creator.suspended"}

\* step      the statement the transaction runs next
\* issued    it has inserted a strike
\* counted   the strike rows its count has fixed, its own aside
\* suspends  it has enqueued creator.suspended
Transactions ==
    [step : {"strike", "count", "commit"}, flag : Flags, decision : Decisions,
     issued : BOOLEAN, counted : SUBSET Flags, suspends : BOOLEAN]

Idle == [step |-> "idle", flag |-> NoFlag, decision |-> "approve", issued |-> FALSE,
         counted |-> {}, suspends |-> FALSE]

-----------------------------------------------------------------------------
(* Strikes and locks *)

\* The rows list_active_for_update selects.
ActiveOf(c) == {f \in Flags : CreatorOf[f] = c /\ strike[f] = "active"}

\* Faulty variant: the flag is read without FOR UPDATE.
FlagUnlocked(m, f) == TRUE

\* get_for_update does not wait: no other decision holds the row of f.
FlagFree(m, f) == \A n \in Moderators \ {m} : tx[n].flag # f

Terminal(d) == d # "escalate"

\* An INSERT of decision d violates neither partial unique index, one row of
\* each class for a flag, nor waits for an uncommitted row to tell.
Recordable(m, f, d) ==
    /\ \A e \in decisions[f] : Terminal(e) # Terminal(d)
    /\ \A n \in Moderators \ {m} : tx[n].flag = f => Terminal(tx[n].decision) # Terminal(d)

\* A count keeps its rows locked until its transaction ends.
StrikesLocked(n) == IF tx[n].step = "commit" THEN tx[n].counted ELSE {}

Count(m) == Cardinality(tx[m].counted) + 1

\* A strike suspends only if it is the one that makes the threshold.
Suspends(n) == n = Threshold

-----------------------------------------------------------------------------
(* Actions *)

Init ==
    /\ flag = [f \in Flags |-> "none"]
    /\ decisions = [f \in Flags |-> {}]
    /\ strike = [f \in Flags |-> "none"]
    /\ outbox = {}
    /\ tx = [m \in Moderators |-> Idle]
    /\ overlapped = {}

\* flag_content.  The unique constraint on content and reporter keeps a flag
\* from being raised again.
FlagContent(f) ==
    /\ flag[f] = "none"
    /\ flag' = [flag EXCEPT ![f] = "pending"]
    /\ outbox' = outbox \union {<<"content.flagged", f>>}
    /\ UNCHANGED <<decisions, strike, tx, overlapped>>

\* The status make_decision gives the flag.
Outcome(d) == IF d = "escalate" THEN "escalated" ELSE "resolved"

\* make_decision up to _issue_strike: the row is locked, a flag that is
\* resolved or escalated is refused, the decision and the status are written.
\* No strike is issued when the creator is unknown.
Decide(m, f, d) ==
    /\ tx[m] = Idle
    /\ FlagFree(m, f)
    /\ flag[f] = "pending"
    /\ Recordable(m, f, d)
    /\ tx' = [tx EXCEPT ![m] =
                 [Idle EXCEPT !.flag = f, !.decision = d,
                              !.step = IF d = "reject" /\ CreatorOf[f] # NoCreator
                                       THEN "strike" ELSE "commit"]]
    /\ UNCHANGED <<flag, decisions, strike, outbox, overlapped>>

\* m is about to issue a strike against the creator of n's.
BothIssue(m, n) == tx[n].issued /\ CreatorOf[tx[n].flag] = CreatorOf[tx[m].flag]

\* _issue_strike inserts the strike; the SELECT ... FOR UPDATE starts.
IssueStrike(m) ==
    /\ tx[m].step = "strike"
    /\ tx' = [tx EXCEPT ![m].step = "count",
                        ![m].issued = TRUE,
                        ![m].counted = ActiveOf(CreatorOf[tx[m].flag])]
    /\ overlapped' = IF \E n \in Moderators \ {m} : BothIssue(m, n)
                      THEN overlapped \union {CreatorOf[tx[m].flag]} ELSE overlapped
    /\ UNCHANGED <<flag, decisions, strike, outbox>>

\* It has its locks and returns; at exactly Threshold strikes
\* creator.suspended is enqueued.
CountStrikes(m) ==
    /\ tx[m].step = "count"
    /\ \A n \in Moderators \ {m} : tx[m].counted \intersect StrikesLocked(n) = {}
    /\ tx' = [tx EXCEPT ![m].step = "commit", ![m].suspends = Suspends(Count(m))]
    /\ UNCHANGED <<flag, decisions, strike, outbox, overlapped>>

\* The event rows of m's transaction.
Enqueued(m) ==
    {<<"moderation.decision_made", tx[m].flag>>}
        \union {r \in {<<"creator.suspended", tx[m].flag>>} : tx[m].suspends}

Commit(m) ==
    LET f == tx[m].flag IN
    /\ tx[m].step = "commit"
    /\ flag' = [flag EXCEPT ![f] = Outcome(tx[m].decision)]
    /\ decisions' = [decisions EXCEPT ![f] = @ \union {tx[m].decision}]
    /\ strike' = [strike EXCEPT ![f] = IF tx[m].issued THEN "active" ELSE @]
    /\ outbox' = outbox \union Enqueued(m)
    /\ tx' = [tx EXCEPT ![m] = Idle]
    /\ UNCHANGED overlapped

\* A statement or the commit fails, or the process dies.
Rollback(m) ==
    /\ tx[m] # Idle
    /\ tx' = [tx EXCEPT ![m] = Idle]
    /\ UNCHANGED <<flag, decisions, strike, outbox, overlapped>>

\* Time passes the expires_at of a strike.
Expire(f) ==
    /\ strike[f] = "active"
    /\ strike' = [strike EXCEPT ![f] = "expired"]
    /\ UNCHANGED <<flag, decisions, outbox, tx, overlapped>>

Decision(m) ==
    \/ \E f \in Flags, d \in Decisions : Decide(m, f, d)
    \/ IssueStrike(m)
    \/ CountStrikes(m)
    \/ Commit(m)
    \/ Rollback(m)

Next ==
    \/ \E f \in Flags : FlagContent(f) \/ Expire(f)
    \/ \E m \in Moderators : Decision(m)

Spec == Init /\ [][Next]_vars

-----------------------------------------------------------------------------
(* Properties *)

TypeOK ==
    /\ flag \in [Flags -> FlagStatuses]
    /\ decisions \in [Flags -> SUBSET Decisions]
    /\ strike \in [Flags -> StrikeStates]
    /\ outbox \subseteq Topics \X Flags
    /\ tx \in [Moderators -> Transactions \union {Idle}]
    /\ overlapped \subseteq Creators

\* "no further decisions" (make_decision): moderators who act on one flag at
\* once leave one decision, and a flag that is resolved or escalated has it.
OneDecision ==
    \A f \in Flags :
        Cardinality(decisions[f]) = (IF flag[f] \in {"resolved", "escalated"} THEN 1 ELSE 0)

Suspensions(c) == {f \in Flags : CreatorOf[f] = c /\ <<"creator.suspended", f>> \in outbox}

\* The same for the creators whose strikes were issued one after the other,
\* whatever expired or was rolled back in between.
SerialStrikesSuspend ==
    \A c \in Creators \ overlapped :
        Cardinality(ActiveOf(c)) >= Threshold => Suspensions(c) # {}

=============================================================================
