------------------------------ MODULE AdminDesk ------------------------------
(***************************************************************************)
(* The admin service: decisions about users, flags on content, the         *)
(* configuration, alerts, the audit log that tells who did what, and the   *)
(* step-up token that destructive actions ask for.  How a decision reaches *)
(* the auth service is in AuthAccount.                                     *)
(*                                                                         *)
(* A request reads, writes and records in one transaction.  Its UPDATEs    *)
(* leave out a column that keeps the value it was read with.  One user,    *)
(* content item, alert and configuration key each are modelled: requests   *)
(* about different ones share nothing but the log.                         *)
(***************************************************************************)
EXTENDS Naturals, Sequences, FiniteSets, SequencesExt

CONSTANTS
    Admins,
    Tokens,      \* step-up tokens of the auth service, by their jti
    Replicas,    \* processes of the service, each with its own memory
    Values,      \* of the configuration key
    Requests,    \* requests in flight at the same time
    MaxAudit     \* bound of the model: audit rows

VARIABLES
    decisions,  \* user_moderations: the statuses of the rows of a user, oldest first
    flags,      \* content_moderations: the flags of an item, oldest first
    config,     \* system_configs: the value of the key, or none
    alert,      \* system_alerts: who acknowledged it, or nobody
    audit,      \* admin_audit_logs, in the order of the commits
    redis,      \* the tokens that Redis remembers
    memory,     \* those that a process remembers
    req,        \* the requests and their local variables
    \* history of the run, not state of the program
    spent,      \* how many requests each token has let through, up to two
    outages,    \* the tokens whose check could not reach Redis
    mixed       \* the last set_config brought the value that it had read, and another
                \* request had changed it since

vars == <<decisions, flags, config, alert, audit, redis, memory, req, spent, outages, mixed>>

-----------------------------------------------------------------------------
(* Types *)

\* banned is to all that follows as suspended
Statuses == {"active", "suspended"}

FlagRows == [by : Admins, status : {"flagged", "active", "removed"}]

NoOne == "nobody"
NoValue == "none"

Entry(action, about) == [action |-> action, about |-> about]

Idle == [at |-> "idle"]

\* cleared      the step-up token was accepted
\* deciding     moderate_user has found no row, or one with another status
\* inserting    update_status has found no row either
\* resolving    update_status has selected the open flags
\* flagging     flag_content has found no open flag of this admin
\* configuring  set_config has read the row
\* reading      acknowledge has read the alert
RequestStates ==
    {Idle, [at |-> "cleared"]}
    \union [at : {"deciding", "inserting"}, status : Statuses]
    \union [at : {"resolving"}, status : {"active", "removed"}, seen : SUBSET (1 .. MaxAudit)]
    \union [at : {"flagging"}, by : Admins]
    \union [at : {"configuring"}, value : Values, seen : Values \union {NoValue}]
    \union [at : {"reading"}, by : Admins, open : BOOLEAN]

-----------------------------------------------------------------------------
(* Helpers *)

At(r, place) == req[r].at = place

Become(r, state) == req' = [req EXCEPT ![r] = state]

\* The commit of a request, with the row it has added to the log
Record(r, entry) ==
    /\ Len(audit) < MaxAudit
    /\ audit' = Append(audit, entry)
    /\ Become(r, Idle)

UnchangedTables == UNCHANGED <<decisions, flags, config, alert, audit, mixed>>
UnchangedTokens == UNCHANGED <<redis, memory, spent, outages>>

\* get_by_user_id: the newest row is the one in force.
InForce == decisions[Len(decisions)]

Open == {i \in 1 .. Len(flags) : flags[i].status = "flagged"}

\* Faulty variant: the rows are as they were when they were selected.
AsSelected(seen) == seen

\* FOR UPDATE waits for another transaction and then looks at the status again.
StillOpen(seen) == seen \intersect Open

\* SET NX in Redis
Remembers(p, t) == t \in redis

-----------------------------------------------------------------------------
Init ==
    /\ decisions = <<>> /\ flags = <<>> /\ config = NoValue /\ alert = NoOne
    /\ audit = <<>>
    /\ redis = {} /\ memory = [p \in Replicas |-> {}]
    /\ req = [r \in Requests |-> Idle]
    /\ spent = [t \in Tokens |-> 0]
    /\ outages = {} /\ mixed = FALSE

(* The step-up token *)

\* verify_admin_reauth: _consume_stepup_jti, with Redis
ConsumeToken(r, p, t) ==
    /\ At(r, "idle")
    /\ ~Remembers(p, t)
    /\ redis' = redis \union {t}
    /\ spent' = [spent EXCEPT ![t] = Min({2, @ + 1})]
    /\ Become(r, [at |-> "cleared"])
    /\ UNCHANGED <<memory, outages>>
    /\ UnchangedTables

\* The call fails, whether it was carried out or not: the memory of the process decides.
ConsumeWithoutRedis(r, p, t) ==
    /\ At(r, "idle")
    /\ redis' \in {redis, redis \union {t}}
    /\ outages' = outages \union {t}
    /\ t \notin memory[p]
    /\ memory' = [memory EXCEPT ![p] = @ \union {t}]
    /\ spent' = [spent EXCEPT ![t] = Min({2, @ + 1})]
    /\ Become(r, [at |-> "cleared"])
    /\ UnchangedTables

\* A process starts again and has forgotten.
Restart(p) ==
    /\ memory[p] # {}
    /\ memory' = [memory EXCEPT ![p] = {}]
    /\ UNCHANGED <<redis, req, spent, outages>>
    /\ UnchangedTables

-----------------------------------------------------------------------------
(* Users *)

\* moderate_user: a decision that stands already is only published again.
ReadUser(r, status) ==
    /\ At(r, "cleared")
    /\ decisions # <<>> => InForce # status
    /\ Become(r, [at |-> "deciding", status |-> status])
    /\ UnchangedTables /\ UnchangedTokens

\* update_status looks the row up again, under a lock, and writes it.
DecideUser(r) ==
    /\ At(r, "deciding") /\ decisions # <<>>
    /\ decisions' = [decisions EXCEPT ![Len(decisions)] = req[r].status]
    /\ Record(r, Entry("user", req[r].status))
    /\ UNCHANGED <<flags, config, alert, mixed>>
    /\ UnchangedTokens

\* There is none still, which locks nothing.
FindNoUser(r) ==
    /\ At(r, "deciding") /\ decisions = <<>>
    /\ Become(r, [at |-> "inserting", status |-> req[r].status])
    /\ UnchangedTables /\ UnchangedTokens

\* A row is inserted; one that another request has committed may be older or newer.
InsertDecision(r) ==
    /\ At(r, "inserting")
    /\ \E i \in 1 .. Len(decisions) + 1 : decisions' = InsertAt(decisions, i, req[r].status)
    /\ Record(r, Entry("user", req[r].status))
    /\ UNCHANGED <<flags, config, alert, mixed>>
    /\ UnchangedTokens

-----------------------------------------------------------------------------
(* Content *)

\* flag_content: this admin has no open flag on the item.
ReadFlags(r, a) ==
    /\ At(r, "idle")
    /\ \A i \in Open : flags[i].by # a
    /\ Become(r, [at |-> "flagging", by |-> a])
    /\ UnchangedTables /\ UnchangedTokens

CreateFlag(r) ==
    /\ At(r, "flagging")
    /\ flags' = Append(flags, [by |-> req[r].by, status |-> "flagged"])
    /\ Record(r, Entry("flagged", req[r].by))
    /\ UNCHANGED <<decisions, config, alert, mixed>>
    /\ UnchangedTokens

\* resolve_content_flag: the open flags are selected.
SelectOpen(r, status) ==
    /\ At(r, "cleared")
    /\ Become(r, [at |-> "resolving", status |-> status, seen |-> Open])
    /\ UnchangedTables /\ UnchangedTokens

\* They are locked, written and recorded, those that are open still.
ResolveFlags(r) ==
    LET mine == StillOpen(req[r].seen) IN
    /\ At(r, "resolving") /\ mine # {}
    /\ flags' = [i \in 1 .. Len(flags) |->
         IF i \in mine THEN [flags[i] EXCEPT !.status = req[r].status] ELSE flags[i]]
    /\ Record(r, Entry("resolved", req[r].status))
    /\ UNCHANGED <<decisions, config, alert, mixed>>
    /\ UnchangedTokens

-----------------------------------------------------------------------------
(* Configuration and alerts *)

\* set_config: the row is read, and updated or inserted.
ReadConfig(r, value) ==
    /\ At(r, "idle")
    /\ Become(r, [at |-> "configuring", value |-> value, seen |-> config])
    /\ UnchangedTables /\ UnchangedTokens

\* The unique key refuses a second row.  A value that is the one read is not written.
WriteConfig(r) ==
    LET q == req[r] IN
    /\ At(r, "configuring")
    /\ q.seen = NoValue => config = NoValue
    /\ config' = IF q.value = q.seen THEN config ELSE q.value
    /\ mixed' = (q.value = q.seen /\ q.seen # config)
    /\ Record(r, Entry("config", q.value))
    /\ UNCHANGED <<decisions, flags, alert>>
    /\ UnchangedTokens

ReadAlert(r, a) ==
    /\ At(r, "idle")
    /\ Become(r, [at |-> "reading", by |-> a, open |-> (alert = NoOne)])
    /\ UnchangedTables /\ UnchangedTokens

\* acknowledge_alert records the admin also when the alert was acknowledged before.
Acknowledge(r) ==
    /\ At(r, "reading")
    /\ alert' = IF req[r].open THEN req[r].by ELSE alert
    /\ Record(r, Entry("acknowledged", req[r].by))
    /\ UNCHANGED <<decisions, flags, config, mixed>>
    /\ UnchangedTokens

\* A request is refused, fails or dies.
Leave(r) ==
    /\ ~At(r, "idle")
    /\ Become(r, Idle)
    /\ UnchangedTables /\ UnchangedTokens

Next ==
    \/ \E r \in Requests :
        \/ \E t \in Tokens, p \in Replicas : ConsumeToken(r, p, t) \/ ConsumeWithoutRedis(r, p, t)
        \/ \E status \in Statuses : ReadUser(r, status)
        \/ \E status \in {"active", "removed"} : SelectOpen(r, status)
        \/ \E a \in Admins : ReadFlags(r, a) \/ ReadAlert(r, a)
        \/ \E value \in Values : ReadConfig(r, value)
        \/ DecideUser(r) \/ FindNoUser(r) \/ InsertDecision(r) \/ CreateFlag(r) \/ ResolveFlags(r)
        \/ WriteConfig(r) \/ Acknowledge(r) \/ Leave(r)
    \/ \E p \in Replicas : Restart(p)

Spec == Init /\ [][Next]_vars

-----------------------------------------------------------------------------
(* Properties *)

TypeOK ==
    /\ decisions \in Seq(Statuses) /\ flags \in Seq(FlagRows)
    /\ config \in Values \union {NoValue} /\ alert \in Admins \union {NoOne}
    /\ Len(audit) <= MaxAudit
    /\ redis \subseteq Tokens /\ memory \in [Replicas -> SUBSET Tokens]
    /\ req \in [Requests -> RequestStates]
    /\ spent \in [Tokens -> 0 .. 2] /\ outages \subseteq Tokens /\ mixed \in BOOLEAN

Entries(action) == {i \in 1 .. Len(audit) : audit[i].action = action}

Newest(action) == audit[Max(Entries(action))]

\* Append-only audit persistence (AdminAuditLogRepository): the log and the tables
\* tell the same story.  The decision in force and the configuration are what the
\* newest entry about them says; every flag has its entry, and no entry tells of a
\* resolution that resolved nothing; who acknowledged the alert is on record.
\* Two first decisions about a user that overlap leave two rows, and no promise.
AuditTells ==
    /\ Len(decisions) = 1 => decisions[1] = Newest("user").about
    /\ Len(flags) = Cardinality(Entries("flagged"))
    /\ Cardinality(Entries("resolved")) <= Len(flags) - Cardinality(Open)
    /\ config # NoValue /\ ~mixed => config = Newest("config").about
    /\ alert # NoOne => \E i \in Entries("acknowledged") : audit[i].about = alert

\* "Reauth token already used" (verify_admin_reauth): a step-up token lets one
\* request through, whichever process it comes to, unless Redis failed one of its
\* checks: then every process decides by itself, and forgets with a restart.
StepUpIsSpent == \A t \in Tokens \ outages : spent[t] <= 1

=============================================================================
