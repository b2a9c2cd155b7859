----------------------------- MODULE Compliance -----------------------------
(***************************************************************************)
(* The compliance package and the rows that it asks for, in two parts that *)
(* share the policies and no state.                                        *)
(*                                                                         *)
(* The policy of a deployment that several jurisdictions apply to          *)
(* (ComplianceSettingsMixin) is that of the first one, with the overrides  *)
(* of the environment, merged with those of the others one after the       *)
(* other.  Policy events change nothing: their consumer logs them.         *)
(*                                                                         *)
(* The rows are those of age verification (auth service), of child         *)
(* accounts, data subject requests and consents (user service).  Lookups   *)
(* take no lock.  The tables of ages and of child accounts have a unique   *)
(* key, the table of consents has none: two rows make every later lookup   *)
(* of that consent raise MultipleResultsFound.                             *)
(***************************************************************************)
EXTENDS Integers, FiniteSets, FiniteSetsExt

CONSTANTS
    Users,      \* children and people who declare an age
    Parents,
    Ages,       \* that are declared
    Requests,   \* requests in flight at the same time
    MaxRows     \* bound of the model: rows in the tables without a unique key

VARIABLES
    settings,   \* of a deployment: its jurisdictions, overrides and policy
    aged,       \* age_verifications: by user, or NoRow
    child,      \* child_accounts: by child_user_id, or NoRow
    consents,   \* user_consent_records: the rows of one user and type
    dsar,       \* dsar_requests: how many there are, all pending
    req,        \* the requests and their local variables
    first       \* history of the run: the parent whose link was committed first

vars == <<aged, child, consents, dsar, req, first>>

-----------------------------------------------------------------------------
(* Policies: of a policy the fields that the code reads and those that the
   merge treats apart are kept; of the jurisdictions one of each way to find a
   policy. *)

Jurisdictions == {"EU", "US", "US-CA", "US-VA", "IN", "CA-QC", "GLOBAL"}

None == -1

\* The parent of a jurisdiction, or none
Parent(j) == CASE j \in {"US-CA", "US-VA"} -> "US" [] j = "CA-QC" -> "CA" [] OTHER -> "none"

\* The fields are consent_minor_age, breach_notification_hours,
\* max_retention_days, dpo_required, grievance_officer_required and
\* data_residency_required.
CompliancePolicy ==
    [age |-> 16, hours |-> 72, days |-> None, dpo |-> FALSE, officer |-> FALSE,
     residency |-> FALSE]

GDPRPolicy == [CompliancePolicy EXCEPT !.dpo = TRUE]

USPrivacyPolicy == [CompliancePolicy EXCEPT !.age = 13, !.hours = 720]

CCPA_CPRAPolicy == CompliancePolicy

IndiaDPDPPolicy ==
    [CompliancePolicy EXCEPT !.age = 18, !.days = 100, !.dpo = TRUE, !.officer = TRUE,
                             !.residency = TRUE]

GlobalBaselinePolicy == CompliancePolicy

Registry ==
    [j \in {"EU", "IN", "GLOBAL", "US", "US-CA"} |->
        CASE j = "EU" -> GDPRPolicy
          [] j = "IN" -> IndiaDPDPPolicy
          [] j = "US" -> USPrivacyPolicy
          [] j = "US-CA" -> CCPA_CPRAPolicy
          [] OTHER -> GlobalBaselinePolicy]

Registered(j) == j \in DOMAIN Registry

\* The policy that a jurisdiction starts from
BasePolicy(j) ==
    IF Registered(Parent(j)) THEN Registry[Parent(j)]
    ELSE IF Registered(j) THEN Registry[j]
    ELSE Registry["GLOBAL"]

\* get_policy_for_jurisdiction.  The parent's policy is the base whenever it is
\* registered: model_dump(exclude_unset=True) keeps the overrides alone, not the
\* defaults of the child's class.
PolicyFor(j, overrides) ==
    [f \in DOMAIN BasePolicy(j) |->
        IF f \in DOMAIN overrides THEN overrides[f] ELSE BasePolicy(j)[f]]

\* _merge_policies: the days are merged only when both policies have some.
Merge(p, q) ==
    [p EXCEPT !.age = Max({@, q.age}),
              !.hours = Min({@, q.hours}),
              !.days = IF @ # None /\ q.days # None THEN Min({@, q.days}) ELSE @,
              !.dpo = @ \/ q.dpo, !.officer = @ \/ q.officer, !.residency = @ \/ q.residency]

\* is_compliant, of a policy and the contacts and regions that are configured
IsCompliant(p, has) ==
    /\ p.dpo => "dpo_email" \in has
    /\ p.officer => "officer_email" \in has
    /\ p.residency => "regions" \in has

-----------------------------------------------------------------------------
(* The policy of a deployment *)

\* What a deployment may override
Overrides == {<<>>, [dpo |-> FALSE], [hours |-> 48], [age |-> 13, dpo |-> FALSE]}

SettingsInit ==
    \E j \in Jurisdictions, overrides \in Overrides :
        settings = [primary |-> j, overrides |-> overrides, merged |-> {},
                    policy |-> PolicyFor(j, overrides)]

\* get_compliance_policy: one round of the loop over the additional jurisdictions
MergeAdditional(j) ==
    /\ j \notin settings.merged
    /\ settings' = [settings EXCEPT !.merged = @ \union {j},
                                    !.policy = Merge(@, PolicyFor(j, <<>>))]

SettingsNext == \E j \in Jurisdictions : MergeAdditional(j)

-----------------------------------------------------------------------------
(* Rows *)

NoRow == [exists |-> FALSE]

AgeRows == [exists : {TRUE}, declared : Ages, minor : BOOLEAN, consentAge : {13, 16, 18}]

ChildRows == [exists : {TRUE}, parent : Parents, verified : BOOLEAN]

Idle == [at |-> "idle"]

\* linking     the child is not linked yet
\* verifying   the link was found
\* consenting  there is no consent of that type yet
RequestStates ==
    {Idle}
    \union [at : {"linking"}, user : Users, parent : Parents]
    \union [at : {"verifying"}, user : Users]
    \union [at : {"consenting"}]

At(r, place) == req[r].at = place

Become(r, state) == req' = [req EXCEPT ![r] = state]

\* Faulty variant: the lookup before the insert is taken to be enough.
AdmitsAny(table, u) == TRUE

\* The unique keys of age_verifications and child_accounts
Admits(table, u) == ~table[u].exists

-----------------------------------------------------------------------------
RecordsInit ==
    /\ aged = [u \in Users |-> NoRow]
    /\ child = [u \in Users |-> NoRow]
    /\ consents = 0
    /\ dsar = 0
    /\ req = [r \in Requests |-> Idle]
    /\ first = [u \in Users |-> {}]

UnchangedRows == UNCHANGED <<aged, child, consents, dsar, first>>

\* verify_age: one statement, which the unique key of the user may refuse
VerifyAge(u, age, j) ==
    LET limit == PolicyFor(j, <<>>).age IN
    /\ Admits(aged, u)
    /\ aged' = [aged EXCEPT ![u] = [exists |-> TRUE, declared |-> age, minor |-> age < limit,
                                    consentAge |-> limit]]
    /\ UNCHANGED <<child, consents, dsar, req, first>>

\* create_child_account: the child is not linked; then the row is inserted.
FindChild(r, u, p) ==
    /\ At(r, "idle") /\ ~child[u].exists
    /\ Become(r, [at |-> "linking", user |-> u, parent |-> p])
    /\ UnchangedRows

LinkChild(r) ==
    LET u == req[r].user IN
    /\ At(r, "linking") /\ Admits(child, u)
    /\ child' = [child EXCEPT ![u] = [exists |-> TRUE, parent |-> req[r].parent,
                                      verified |-> FALSE]]
    /\ first' = [first EXCEPT ![u] = IF @ = {} THEN {req[r].parent} ELSE @]
    /\ Become(r, Idle)
    /\ UNCHANGED <<aged, consents, dsar>>

\* verify_parental_consent: the link is found, marked and committed.
FindLink(r, u) ==
    /\ At(r, "idle") /\ child[u].exists
    /\ Become(r, [at |-> "verifying", user |-> u])
    /\ UnchangedRows

VerifyParentalConsent(r) ==
    /\ At(r, "verifying")
    /\ child' = [child EXCEPT ![req[r].user].verified = TRUE]
    /\ Become(r, Idle)
    /\ UNCHANGED <<aged, consents, dsar, first>>

\* create_consent of the user service: no unique key backs the lookup.
FindConsent(r) ==
    /\ At(r, "idle") /\ consents = 0
    /\ Become(r, [at |-> "consenting"])
    /\ UnchangedRows

CreateConsent(r) ==
    /\ At(r, "consenting") /\ consents < MaxRows
    /\ consents' = consents + 1
    /\ Become(r, Idle)
    /\ UNCHANGED <<aged, child, dsar, first>>

\* create_dsar: pending, and due in 30 days in every jurisdiction
CreateDsar ==
    /\ dsar < MaxRows
    /\ dsar' = dsar + 1
    /\ UNCHANGED <<aged, child, consents, req, first>>

\* A request is refused, fails or dies.
Leave(r) ==
    /\ ~At(r, "idle")
    /\ Become(r, Idle)
    /\ UnchangedRows

RecordsNext ==
    \/ \E u \in Users, age \in Ages, j \in Jurisdictions : VerifyAge(u, age, j)
    \/ \E r \in Requests :
        \/ \E u \in Users : FindLink(r, u) \/ \E p \in Parents : FindChild(r, u, p)
        \/ LinkChild(r) \/ VerifyParentalConsent(r)
        \/ FindConsent(r) \/ CreateConsent(r) \/ Leave(r)
    \/ CreateDsar

Init == SettingsInit /\ RecordsInit

Next ==
    \/ SettingsNext /\ UNCHANGED vars
    \/ RecordsNext /\ UNCHANGED settings

Spec == Init /\ [][Next]_<<settings, vars>>

-----------------------------------------------------------------------------
(* Properties *)

TypeOK ==
    /\ settings.primary \in Jurisdictions /\ settings.merged \subseteq Jurisdictions
    /\ settings.policy.age \in {13, 16, 18}
    /\ aged \in [Users -> AgeRows \union {NoRow}]
    /\ child \in [Users -> ChildRows \union {NoRow}]
    /\ consents \in 0 .. MaxRows /\ dsar \in 0 .. MaxRows
    /\ req \in [Requests -> RequestStates]
    /\ first \in [Users -> SUBSET Parents]

Merged == {PolicyFor(j, <<>>) : j \in settings.merged}

\* "Merge two policies, taking the most restrictive settings" (_merge_policies):
\* in whatever order the jurisdictions are listed, the age is the highest of all,
\* the time to notify the shortest, and a deployment that complies complies with
\* each of them.  The retention limit is left out: a first policy without one
\* keeps none.
MergeIsStrictest ==
    LET all == Merged \union {PolicyFor(settings.primary, settings.overrides)} IN
    /\ settings.policy.age = Max({p.age : p \in all})
    /\ settings.policy.hours = Min({p.hours : p \in all})
    /\ \A has \in SUBSET {"dpo_email", "officer_email", "regions"} :
        IsCompliant(settings.policy, has) <=> \A p \in all : IsCompliant(p, has)

\* "Child already linked" (create_child_account): a child keeps the parent whose
\* link was committed first, however many requests found it without one.
FirstLinkStands == \A u \in Users : child[u].exists => first[u] = {child[u].parent}

=============================================================================
