------------------------------ MODULE Profiles ------------------------------
(***************************************************************************)
(* The rows that the user service keeps for a user: profile, preferences   *)
(* and subscription, made by its consumer of user.registered or by         *)
(* POST /profiles in one transaction, and the user's devices.              *)
(*                                                                         *)
(* An insert holds its unique key until its transaction ends: a second one *)
(* waits, and then finds the row or its absence.  An update reads the row, *)
(* and writes the columns that differ from what it has read when it        *)
(* commits.  Values that no property tells apart are left out.             *)
(***************************************************************************)
EXTENDS Naturals, FiniteSets

CONSTANTS
    Users,
    Devices,     \* rows of devices, all of one device_id; each is made once
    Requests,    \* requests of users; each is used once
    Consumer,    \* the consumer of user.registered
    MaxFaults    \* bound of the model: transactions that fail and restarts of the consumer

VARIABLES
    profile,       \* user_profiles: whether the user has one, and has been welcomed
    preference,    \* user_preferences: whether the user has them
    subscription,  \* user_subscription_profiles
    device,        \* user_devices
    registered,    \* user.registered of each user: to come, to handle, taken, acknowledged
    tx,            \* requests and the consumer, and their local variables
    faults,
    \* history of the run, not state of the program
    crossed        \* upgrades that another upgrade of the same user has overtaken

vars == <<profile, preference, subscription, device, registered, tx, faults, crossed>>

Actors == Requests \union {Consumer}

-----------------------------------------------------------------------------
(* Tables *)

Profiles == {"none", "new", "onboarded"}

\* A tier is any text; what is neither free, basic nor premium is as good as basic
\* but for its streams.
Tiers == {"free", "basic", "premium"}

NoSubscription == [is |-> "none"]

\* create_default and update_tier
LimitsOf(t) ==
    [is |-> "row", tier |-> t,
     streams |-> CASE t = "free" -> 1 [] t = "basic" -> 2 [] OTHER -> 4,
     download |-> t # "free", fourK |-> t = "premium", adFree |-> t # "free"]

Subscriptions ==
    [is : {"row"}, tier : Tiers, streams : {1, 2, 4},
     download : BOOLEAN, fourK : BOOLEAN, adFree : BOOLEAN]

NoDevice == [is |-> "none"]
DeviceRows == [is : {"active", "inactive", "removed"}, user : Users]

-----------------------------------------------------------------------------
(* Callers *)

\* sub of a token; is it signed, in time and an access token; and what the auth
\* service says of it: nothing, an error, no version, another one or the same
Bearers ==
    [user : Users, good : BOOLEAN, me : {"silent", "error", "unversioned", "other", "same"}]

\* get_current_user_id and _enforce_auth_version
Admitted(token) == token.good /\ token.me \in {"unversioned", "same"}

\* require_self: the user in the path is the one in the token.
IsSelf(token, u) == Admitted(token) /\ token.user = u

-----------------------------------------------------------------------------
(* Transactions *)

Idle == [at |-> "idle"]

\* profile, both  create_user_profile has inserted the profile; the preferences too
\* asking         preferences were looked for in vain
\* made           they are inserted
\* upgrading      the subscription is read
\* editing        a device is read
TxStates ==
    {Idle} \union [at : {"profile", "both", "asking", "made", "created", "failed", "done"}, user : Users]
    \union [at : {"upgrading"}, user : Users, tier : Tiers, read : Subscriptions]
    \union [at : {"editing"}, user : Users, device : Devices]

At(a, place) == tx[a].at = place

Goes(a, place) == tx' = [tx EXCEPT ![a].at = place]

\* Inserted and not committed: others wait.
ProfileHeld(u) == \E a \in Actors : tx[a].at \in {"profile", "both"} /\ tx[a].user = u

PreferencesHeld(u) == \E a \in Actors : tx[a].at \in {"both", "made"} /\ tx[a].user = u

Init ==
    /\ profile = [u \in Users |-> "none"]
    /\ preference = [u \in Users |-> FALSE]
    /\ subscription = [u \in Users |-> NoSubscription]
    /\ device = [d \in Devices |-> NoDevice]
    /\ registered = [u \in Users |-> "to come"]
    /\ tx = [a \in Actors |-> Idle]
    /\ faults = 0 /\ crossed = {}

Fault == faults < MaxFaults /\ faults' = faults + 1

-----------------------------------------------------------------------------
(* create_user_profile *)

\* The profile exists: the request is answered 500, the consumer logs it.
InsertProfile(a, u) ==
    /\ ~ProfileHeld(u)
    /\ tx' = [tx EXCEPT ![a] = [at |-> IF profile[u] = "none" THEN "profile" ELSE "failed", user |-> u]]

\* POST /profiles
CreateProfile(r, token) ==
    /\ At(r, "idle")
    /\ Admitted(token)
    /\ InsertProfile(r, token.user)
    /\ UNCHANGED <<profile, preference, subscription, device, registered, faults, crossed>>

\* _provision_profile
Provision(u) ==
    /\ At(Consumer, "idle")
    /\ registered[u] = "to handle"
    /\ registered' = [registered EXCEPT ![u] = "taken"]
    /\ InsertProfile(Consumer, u)
    /\ UNCHANGED <<profile, preference, subscription, device, faults, crossed>>

\* Preferences that are there already take the profile back.
InsertPreferences(a) ==
    LET u == tx[a].user IN
    /\ At(a, "profile")
    /\ ~PreferencesHeld(u)
    /\ Goes(a, IF preference[u] THEN "failed" ELSE "both")
    /\ UNCHANGED <<profile, preference, subscription, device, registered, faults, crossed>>

\* The subscription and the commit
CommitProfile(a) ==
    LET u == tx[a].user IN
    /\ At(a, "both")
    /\ profile' = [profile EXCEPT ![u] = "new"]
    /\ preference' = [preference EXCEPT ![u] = TRUE]
    /\ subscription' = [subscription EXCEPT ![u] = LimitsOf("free")]
    /\ Goes(a, "created")
    /\ UNCHANGED <<device, registered, faults, crossed>>

\* The database fails, or a lock is not had in time: everything is rolled back.
Fail(a) ==
    /\ At(a, "profile") \/ At(a, "both") \/ At(a, "asking") \/ At(a, "made")
    /\ Fault
    /\ Goes(a, "failed")
    /\ UNCHANGED <<profile, preference, subscription, device, registered, crossed>>

-----------------------------------------------------------------------------
(* The consumer *)

\* auth: user.registered, once the account is committed
Register(u) ==
    /\ registered[u] = "to come"
    /\ registered' = [registered EXCEPT ![u] = "to handle"]
    /\ UNCHANGED <<profile, preference, subscription, device, tx, faults, crossed>>

\* The offset is committed whether or not there is a profile now.
Acknowledge(u) ==
    /\ At(Consumer, "created") \/ At(Consumer, "failed")
    /\ registered[u] = "taken"
    /\ registered' = [registered EXCEPT ![u] = "acknowledged"]
    /\ tx' = [tx EXCEPT ![Consumer] = Idle]
    /\ UNCHANGED <<profile, preference, subscription, device, faults, crossed>>

\* The service starts again, and what was not acknowledged is delivered again.
Restart ==
    /\ Fault
    /\ tx' = [tx EXCEPT ![Consumer] = Idle]
    /\ registered' = [u \in Users |->
           IF registered[u] = "taken" THEN "to handle" ELSE registered[u]]
    /\ UNCHANGED <<profile, preference, subscription, device, crossed>>

-----------------------------------------------------------------------------
(* Profile, preferences and subscription *)

\* POST /profiles/{user_id}/onboarding/complete; PATCH /profiles/{user_id} sets
\* other columns.
CompleteOnboarding(u, token) ==
    /\ IsSelf(token, u)
    /\ profile[u] # "none"
    /\ profile' = [profile EXCEPT ![u] = "onboarded"]
    /\ UNCHANGED <<preference, subscription, device, registered, tx, faults, crossed>>

\* GET and PATCH /preferences/{user_id} make preferences for whoever has none.
AskPreferences(r, u, token) ==
    /\ At(r, "idle")
    /\ IsSelf(token, u)
    /\ tx' = [tx EXCEPT ![r] = [at |-> IF preference[u] THEN "done" ELSE "asking", user |-> u]]
    /\ UNCHANGED <<profile, preference, subscription, device, registered, faults, crossed>>

MakePreferences(r) ==
    /\ At(r, "asking")
    /\ ~PreferencesHeld(tx[r].user)
    /\ Goes(r, IF preference[tx[r].user] THEN "failed" ELSE "made")
    /\ UNCHANGED <<profile, preference, subscription, device, registered, faults, crossed>>

CommitPreferences(r) ==
    /\ At(r, "made")
    /\ preference' = [preference EXCEPT ![tx[r].user] = TRUE]
    /\ Goes(r, "done")
    /\ UNCHANGED <<profile, subscription, device, registered, faults, crossed>>

\* POST /subscriptions/{user_id}/upgrade, to any tier
Upgrade(r, u, tier, token) ==
    /\ At(r, "idle")
    /\ IsSelf(token, u)
    /\ subscription[u] # NoSubscription
    /\ tx' = [tx EXCEPT ![r] = [at |-> "upgrading", user |-> u, tier |-> tier, read |-> subscription[u]]]
    /\ UNCHANGED <<profile, preference, subscription, device, registered, faults, crossed>>

\* Faulty variant: 4K is given and never taken.
NeverTaken(row, read, new) == [new EXCEPT !.fourK = row.fourK \/ new.fourK]

\* UPDATE names the columns that differ from what was read.
Written(row, read, new) == [c \in DOMAIN row |-> IF read[c] # new[c] THEN new[c] ELSE row[c]]

CommitUpgrade(r) ==
    LET u == tx[r].user IN
    /\ At(r, "upgrading")
    /\ subscription' = [subscription EXCEPT ![u] = Written(@, tx[r].read, LimitsOf(tx[r].tier))]
    /\ crossed' = crossed \union {q \in Requests \ {r} : At(q, "upgrading") /\ tx[q].user = u}
    /\ tx' = [tx EXCEPT ![r] = [at |-> "done", user |-> u]]
    /\ UNCHANGED <<profile, preference, device, registered, faults>>

-----------------------------------------------------------------------------
(* Devices *)

Present == {d \in Devices : device[d] # NoDevice /\ device[d].is # "removed"}

Owned(token) == {d \in Present : Admitted(token) /\ device[d].user = token.user}

\* POST /devices: a device_id is had by one user at a time; anything else is a 400.
RegisterDevice(d, token) ==
    /\ Admitted(token)
    /\ device[d] = NoDevice /\ Present = {}
    /\ device' = [device EXCEPT ![d] = [is |-> "active", user |-> token.user]]
    /\ UNCHANGED <<profile, preference, subscription, registered, tx, faults, crossed>>

\* POST /devices/{id}/deactivate reads the device first; PATCH does too, and sets
\* other columns.
EditDevice(r, d, token) ==
    /\ At(r, "idle")
    /\ d \in Owned(token)
    /\ tx' = [tx EXCEPT ![r] = [at |-> "editing", user |-> token.user, device |-> d]]
    /\ UNCHANGED <<profile, preference, subscription, device, registered, faults, crossed>>

\* An UPDATE of a row that is gone matches nothing, which is an error.
Updatable(d) == d \in Present

CommitDevice(r) ==
    LET d == tx[r].device IN
    /\ At(r, "editing")
    /\ IF Updatable(d)
       THEN device' = [device EXCEPT ![d].is = "inactive"]
       ELSE UNCHANGED device
    /\ tx' = [tx EXCEPT ![r] = [at |-> IF Updatable(d) THEN "done" ELSE "failed", user |-> tx[r].user]]
    /\ UNCHANGED <<profile, preference, subscription, registered, faults, crossed>>

RemoveDevice(d, token) ==
    /\ d \in Owned(token)
    /\ device' = [device EXCEPT ![d].is = "removed"]
    /\ UNCHANGED <<profile, preference, subscription, registered, tx, faults, crossed>>

Next ==
    \/ \E token \in Bearers :
        \/ \E r \in Requests :
            \/ CreateProfile(r, token)
            \/ \E u \in Users :
                \/ AskPreferences(r, u, token)
                \/ \E tier \in Tiers : Upgrade(r, u, tier, token)
            \/ \E d \in Devices : EditDevice(r, d, token)
        \/ \E u \in Users : CompleteOnboarding(u, token)
        \/ \E d \in Devices : RegisterDevice(d, token) \/ RemoveDevice(d, token)
    \/ \E a \in Actors : InsertPreferences(a) \/ CommitProfile(a) \/ Fail(a)
    \/ \E r \in Requests :
        MakePreferences(r) \/ CommitPreferences(r) \/ CommitUpgrade(r) \/ CommitDevice(r)
    \/ \E u \in Users : Register(u) \/ Provision(u) \/ Acknowledge(u)
    \/ Restart

Spec == Init /\ [][Next]_vars

-----------------------------------------------------------------------------
(* Properties *)

\* Types of the variables.
TypeOK ==
    /\ profile \in [Users -> Profiles]
    /\ preference \in [Users -> BOOLEAN]
    /\ subscription \in [Users -> Subscriptions \union {NoSubscription}]
    /\ device \in [Devices -> DeviceRows \union {NoDevice}]
    /\ registered \in [Users -> {"to come", "to handle", "taken", "acknowledged"}]
    /\ tx \in [Actors -> TxStates]
    /\ faults \in 0 .. MaxFaults /\ crossed \subseteq Requests

\* A profile is there with preferences and a subscription, or not at all, as
\* get_complete_profile takes for granted, whoever made the preferences first.
ProfileIsWhole ==
    \A u \in Users : (profile[u] # "none") <=> (subscription[u] # NoSubscription)
                     /\ (profile[u] # "none" => preference[u])

\* An upgrade that no other has overtaken leaves the limits of its tier, whatever
\* mixture of two tiers overlapping upgrades had left (update_tier).
UpgradeSettles ==
    \A r \in Requests : CommitUpgrade(r) /\ r \notin crossed =>
        subscription'[tx[r].user] = LimitsOf(tx[r].tier)

\* A device that was removed stays removed, whatever edit had read it before.
RemovedStays ==
    \A d \in Devices : device[d] # NoDevice /\ d \notin Present => d \notin Present'

\* "the account page never 404s for a fresh user" (event_consumer.py): once the
\* registration is acknowledged the user has a profile, unless a transaction or the
\* consumer failed, or a request had made the preferences, which take the profile back.
RegisteredHasProfile ==
    \A u \in Users : registered[u] = "acknowledged" /\ faults = 0 =>
        profile[u] # "none" \/ preference[u]

\* The rows of a user are whole and made, upgrades settle and removed devices stay away.
ProfilesAreKept ==
    [][ProfileIsWhole' /\ RegisteredHasProfile' /\ UpgradeSettles /\ RemovedStays]_vars

=============================================================================
