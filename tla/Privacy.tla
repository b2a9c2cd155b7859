------------------------------- MODULE Privacy -------------------------------
(***************************************************************************)
(* The privacy routes of the auth service: the versions of the privacy     *)
(* notice of one jurisdiction and language, of which one is to be current, *)
(* and the consent of one user to one kind of processing.                  *)
(*                                                                         *)
(* Requests read rows without locking them and write, when they commit,    *)
(* the columns that differ from what they have read.  The table of notices *)
(* has a unique key; the table of consents has none, and a lookup that     *)
(* finds two rows raises MultipleResultsFound: the request answers 500.    *)
(*                                                                         *)
(* Dates, texts and reasons are left out: of withdrawn_at only whether it  *)
(* is set.  withdraw_consent is not modelled: it has no route.             *)
(***************************************************************************)
EXTENDS Naturals, Sequences, FiniteSets

CONSTANTS
    Versions,       \* of the notice of one jurisdiction and language
    Requests,       \* requests in flight at the same time
    MaxConsents     \* bound of the model: rows for one consent

VARIABLES
    notice,     \* privacy_notices: by version
    consents,   \* consent_records: the rows of one user, type and jurisdiction
    req,        \* the requests and their local variables
    \* history of the run, not state of the program
    said,       \* the last decision on the consent that was committed
    disturbed   \* requests that overlap a commit of another one

vars == <<notice, consents, req, said, disturbed>>

-----------------------------------------------------------------------------
(* Types *)

NoticeStates == {"absent", "stored", "current"}

ConsentRows == [granted : BOOLEAN, withdrawn : BOOLEAN]

Idle == [at |-> "idle"]

\* What a request writes when it commits: the columns it has changed.
NoticeWrites == UNION {[S -> BOOLEAN] : S \in SUBSET Versions}
ConsentWrites == UNION {[S -> BOOLEAN] : S \in SUBSET {"granted", "withdrawn"}}

\* inserting  create_privacy_notice has found the version free
\* promoting  a notice is to become current; loaded: it was when it was read
\* noticing   the writes of a notice request are ready
\* recording  create_consent has found no row
\* consenting the writes to a consent are ready
RequestStates ==
    {Idle}
    \union [at : {"inserting"}, version : Versions]
    \union [at : {"promoting"}, version : Versions, new : BOOLEAN, loaded : BOOLEAN]
    \union [at : {"noticing"}, version : Versions, new : BOOLEAN, promotes : BOOLEAN,
            writes : NoticeWrites]
    \union [at : {"recording"}, granted : BOOLEAN]
    \union [at : {"consenting"}, word : {"grant", "withdraw", "none"}, writes : ConsentWrites]

-----------------------------------------------------------------------------
(* Helpers *)

At(r, place) == req[r].at = place

Become(r, state) == req' = [req EXCEPT ![r] = state]

\* A request starts undisturbed.
Starts(r, state) ==
    /\ At(r, "idle")
    /\ Become(r, state)
    /\ disturbed' = disturbed \ {r}

\* A commit that changes rows disturbs the others that are under way.
Commits(r) ==
    /\ Become(r, Idle)
    /\ disturbed' = disturbed \union {q \in Requests \ {r} : ~At(q, "idle")}

Exists(v) == notice[v] # "absent"

\* get_all_current, and get_current, which raises when there are two
Current == {v \in Versions : notice[v] = "current"}

\* set_current demotes whatever else is current.
Demoted(v) == Current \ {v}

\* get_active_by_user
Active(c) == c.granted /\ ~c.withdrawn

\* scalar_one_or_none: the row, if there is one and no more
HasRecord == Len(consents) = 1

\* grant and withdraw of the repository
Granting == [granted |-> TRUE, withdrawn |-> FALSE]
Withdrawing == [granted |-> FALSE, withdrawn |-> TRUE]

\* What a decision changes, and a date of withdrawal that a client sets with it
Changes(word, dated) ==
    LET decided == CASE word = "grant" -> Granting
                     [] word = "withdraw" -> Withdrawing
                     [] OTHER -> <<>> IN
    IF dated THEN [c \in DOMAIN decided \union {"withdrawn"} |-> c = "withdrawn" \/ decided[c]]
    ELSE decided

\* An UPDATE of a row
Updated(row, writes) == [c \in DOMAIN row |-> IF c \in DOMAIN writes THEN writes[c] ELSE row[c]]

\* Faulty variant: every column of the row is written.
WholeRow(changes, loaded) == Updated(loaded, changes)

\* A column that is set to the value it was loaded with is not written; a new
\* time is never the one before.
Written(changes, loaded) ==
    [c \in {d \in DOMAIN changes :
        changes[d] # loaded[d] \/ (d = "withdrawn" /\ changes[d])} |-> changes[c]]

-----------------------------------------------------------------------------
Init ==
    /\ notice = [v \in Versions |-> "absent"]
    /\ consents = <<>>
    /\ req = [r \in Requests |-> Idle]
    /\ said = "none"
    /\ disturbed = {}

UnchangedRows == UNCHANGED <<notice, consents, said>>

(* Notices *)

\* create_privacy_notice: the version is new, and inserted.
CreateNotice(r, v) ==
    /\ ~Exists(v)
    /\ Starts(r, [at |-> "inserting", version |-> v])
    /\ UnchangedRows

\* Whether there is a current notice; with two of them this raises.
FindCurrent(r) ==
    LET v == req[r].version IN
    /\ At(r, "inserting")
    /\ \/ /\ Current = {}
          /\ Become(r, [at |-> "promoting", version |-> v, new |-> TRUE, loaded |-> FALSE])
       \/ /\ Cardinality(Current) = 1
          /\ Become(r, [at |-> "noticing", version |-> v, new |-> TRUE, promotes |-> FALSE,
                        writes |-> [c \in {v} |-> FALSE]])
    /\ UNCHANGED disturbed
    /\ UnchangedRows

\* set_notice_current, and update_privacy_notice with is_current
PromoteNotice(r, v) ==
    /\ Exists(v)
    /\ Starts(r, [at |-> "promoting", version |-> v, new |-> FALSE, loaded |-> (v \in Current)])
    /\ UnchangedRows

\* set_current reads what is current now; the notice itself is as it was read.
SetCurrent(r) ==
    LET q == req[r] IN
    /\ At(r, "promoting")
    /\ Become(r, [at |-> "noticing", version |-> q.version, new |-> q.new, promotes |-> TRUE,
                  writes |-> [c \in Demoted(q.version) \union (IF q.loaded THEN {} ELSE {q.version}) |->
                                c = q.version]])
    /\ UNCHANGED disturbed
    /\ UnchangedRows

\* deprecate_notice, and update_privacy_notice with is_current false
RetireNotice(r, v) ==
    /\ Exists(v)
    /\ Starts(r, [at |-> "noticing", version |-> v, new |-> FALSE, promotes |-> FALSE,
                  writes |-> [c \in Current \intersect {v} |-> FALSE]])
    /\ UnchangedRows

\* The commit; the unique key refuses a version that another request inserted.
CommitNotice(r) ==
    LET w == req[r].writes IN
    /\ At(r, "noticing")
    /\ ~(req[r].new /\ Exists(req[r].version))
    /\ notice' = [v \in Versions |->
         IF v \notin DOMAIN w THEN notice[v] ELSE IF w[v] THEN "current" ELSE "stored"]
    /\ Commits(r)
    /\ UNCHANGED <<consents, said>>

-----------------------------------------------------------------------------
(* Consents *)

\* create_consent: there is no record yet.
CreateConsent(r, granted) ==
    /\ consents = <<>>
    /\ Starts(r, [at |-> "recording", granted |-> granted])
    /\ UnchangedRows

\* The row is inserted; nothing refuses a second one.
CommitRecord(r) ==
    /\ At(r, "recording")
    /\ Len(consents) < MaxConsents
    /\ consents' = Append(consents, [granted |-> req[r].granted, withdrawn |-> FALSE])
    /\ said' = IF req[r].granted THEN "grant" ELSE "withdraw"
    /\ Commits(r)
    /\ UNCHANGED notice

\* grant_consent: the record is not granted.
GrantConsent(r) ==
    /\ HasRecord /\ ~consents[1].granted
    /\ Starts(r, [at |-> "consenting", word |-> "grant", writes |-> Written(Granting, consents[1])])
    /\ UnchangedRows

\* update_consent: a decision that changes the record, or none, and perhaps a
\* date of withdrawal that the client sets.
UpdateConsent(r, word, dated) ==
    /\ HasRecord
    /\ word = "grant" => ~consents[1].granted
    /\ word = "withdraw" => consents[1].granted
    /\ Starts(r, [at |-> "consenting", word |-> word,
                  writes |-> Written(Changes(word, dated), consents[1])])
    /\ UnchangedRows

CommitConsent(r) ==
    LET q == req[r] IN
    /\ At(r, "consenting")
    /\ consents' = [consents EXCEPT ![1] = Updated(@, q.writes)]
    /\ said' = IF q.word = "none" THEN said ELSE q.word
    /\ Commits(r)
    /\ UNCHANGED notice

\* A request is refused, fails or dies; what it has not committed is lost.
Leave(r) ==
    /\ ~At(r, "idle")
    /\ Become(r, Idle)
    /\ UNCHANGED disturbed
    /\ UnchangedRows

Next ==
    \E r \in Requests :
        \/ \E v \in Versions : CreateNotice(r, v) \/ PromoteNotice(r, v) \/ RetireNotice(r, v)
        \/ FindCurrent(r) \/ SetCurrent(r) \/ CommitNotice(r)
        \/ \E granted \in BOOLEAN : CreateConsent(r, granted)
        \/ \E word \in {"grant", "withdraw", "none"}, dated \in BOOLEAN :
            UpdateConsent(r, word, dated)
        \/ CommitRecord(r) \/ GrantConsent(r) \/ CommitConsent(r) \/ Leave(r)

Spec == Init /\ [][Next]_vars

-----------------------------------------------------------------------------
(* Properties *)

TypeOK ==
    /\ notice \in [Versions -> NoticeStates]
    /\ consents \in Seq(ConsentRows)
    /\ req \in [Requests -> RequestStates]
    /\ said \in {"none", "grant", "withdraw"}
    /\ disturbed \subseteq Requests

\* "Consent withdrawn" (ConsentRecordRepository.withdraw): whatever requests
\* overlap, a consent is active only when the last decision that was committed
\* was to grant it.  A withdrawal is never undone by a request that read the
\* record before.
LastWordStands == HasRecord /\ Active(consents[1]) => said = "grant"

\* "Set a notice as current for its jurisdiction/language, deprecating others"
\* (set_current): whatever overlapping requests have left behind, two current
\* notices or none, one that is not disturbed leaves exactly its notice current.
UndisturbedSetterWins ==
    \A r \in Requests :
        CommitNotice(r) /\ req[r].promotes /\ r \notin disturbed
            => Current' = {req[r].version}

=============================================================================
