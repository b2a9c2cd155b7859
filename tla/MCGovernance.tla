---------------------------- MODULE MCGovernance ----------------------------
(***************************************************************************)
(* Moderation, AdminDesk, Privacy, Compliance and what is kept of a        *)
(* user (Profiles, Notifications) for TLC.  They share no state, so that   *)
(* nothing is lost by exploring them side by side: the first state chooses *)
(* one of them, and only that one takes steps.                             *)
(***************************************************************************)
EXTENDS Moderation, TLC

CONSTANTS f1, f2, f3, f4, f5, creator, other

\* f4 is against another creator, the creator of f5 is unknown.
MCCreatorOf == [f \in Flags |-> IF f = f4 THEN other ELSE IF f = f5 THEN NoCreator ELSE creator]

CONSTANTS
    Requests,
    Admins, Tokens, Replicas, Values, MaxAudit,     \* AdminDesk
    Versions, MaxConsents,                          \* Privacy
    Users, Parents, Ages, MaxRows,                  \* Compliance
    Devices, Edits, Consumer, MaxFaults,            \* Profiles
    Addressees, Events, Lists                       \* Notifications

ASSUME ListsAssumption == Lists \subseteq SUBSET {"in-app", "push", "unknown"}

ASSUME ConsumerAssumption == Consumer \notin Edits

VARIABLES
    rulings, reports, config, alert, audit, redis, memory, desk, spent, outages, mixed,
    notice, consents, form, said, disturbed,
    settings,
    aged, child, given, dsar, claim, first,
    profile, preference, subscription, device, registered, edit, faults, crossed,
    row, wanted, send,
    side

D == INSTANCE AdminDesk WITH decisions <- rulings, flags <- reports, req <- desk

V == INSTANCE Privacy WITH req <- form

C == INSTANCE Compliance WITH consents <- given, req <- claim

P == INSTANCE Profiles WITH Requests <- Edits, tx <- edit

N == INSTANCE Notifications WITH Users <- Addressees, preference <- wanted

admin == <<rulings, reports, config, alert, audit, redis, memory, desk, spent, outages, mixed>>
privacy == <<notice, consents, form, said, disturbed>>
records == <<aged, child, given, dsar, claim, first>>
profiles == <<profile, preference, subscription, device, registered, edit, faults, crossed>>
notifications == <<row, wanted, send>>
others == <<admin, privacy, settings, records, profiles, notifications>>

SideInit ==
    /\ Init /\ D!Init /\ V!Init /\ C!Init /\ P!Init /\ N!Init
    /\ side \in {"moderation", "admin", "privacy", "settings", "records", "profiles", "notifications"}
    /\ side # "settings" => settings.primary = "GLOBAL" /\ settings.overrides = <<>>

SideNext ==
    /\ UNCHANGED side
    /\ \/ side = "moderation" /\ Next /\ UNCHANGED others
       \/ /\ UNCHANGED vars
          /\ \/ /\ side = "admin" /\ D!Next
                /\ UNCHANGED <<privacy, settings, records, profiles, notifications>>
             \/ /\ side = "privacy" /\ V!Next
                /\ UNCHANGED <<admin, settings, records, profiles, notifications>>
             \/ /\ side = "settings" /\ C!SettingsNext
                /\ UNCHANGED <<admin, privacy, records, profiles, notifications>>
             \/ /\ side = "records" /\ C!RecordsNext
                /\ UNCHANGED <<admin, privacy, settings, profiles, notifications>>
             \/ /\ side = "profiles" /\ P!Next
                /\ UNCHANGED <<admin, privacy, settings, records, notifications>>
             \/ /\ side = "notifications" /\ N!Next
                /\ UNCHANGED <<admin, privacy, settings, records, profiles>>

SideSpec == SideInit /\ [][SideNext]_<<side, vars, others>>

Symmetry == Permutations(Moderators) \union Permutations(Requests)

\* The log of the admin service and its tables tell the same story, and a step-up
\* token lets one request through (AdminDesk, verify_admin_reauth).
AdminActsOnce == D!AuditTells /\ D!StepUpIsSpent

\* No request undoes the withdrawal of a consent that it has not seen, and one
\* undisturbed set_current leaves exactly its notice current (Privacy).
ConsentsStand == [][V!LastWordStands' /\ V!UndisturbedSetterWins]_privacy

\* The merged policy is the strictest of all, whatever the order of its parts, and a
\* child keeps the parent it was first linked to (Compliance).
ChildrenAreProtected == C!MergeIsStrictest /\ C!FirstLinkStands

\* The rows of a user are whole and made on registration, upgrades settle and removed
\* devices stay away (Profiles).
ProfilesAreKept ==
    [][P!ProfileIsWhole' /\ P!RegisteredHasProfile' /\ P!UpgradeSettles /\ P!RemovedStays]_profiles

\* An event has one row, and its status is what every send of it was told
\* (Notifications).
NotifiedOnce == N!NotifiedOnce

\* A flag is decided once, and strikes that do not overlap suspend at the threshold
\* (Moderation).
DecisionsCount == OneDecision /\ SerialStrikesSuspend

=============================================================================
