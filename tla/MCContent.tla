------------------------------ MODULE MCContent ------------------------------
(***************************************************************************)
(* Instances of what viewers meet, for TLC: the playback sessions, the     *)
(* manifests and the records of the streaming service (PlaybackSession,    *)
(* Delivery, StreamingRecords), and the titles they are of, in the search  *)
(* index (SearchIndex), in what is counted of them (Catalogue), as they    *)
(* are edited (Titles) and as they are recommended (Recommendations).      *)
(* They share no state: a run checks those of Sides side by side, each     *)
(* with the others at rest.  What Delivery needs of a session's status is  *)
(* that an ended one stays ended.                                          *)
(***************************************************************************)
EXTENDS PlaybackSession, TLC

CONSTANTS
    Sides,                                                           \* the modules of the run
    Viewings, Episodes, Titles, Protocols, Fetches, Lifetime, UrlTtls,  \* Delivery
    Names, Percents, Errors,                                         \* StreamingRecords, Titles
    Jobs, None, MaxRequests, MaxVersion, MaxFaults,                  \* SearchIndex
    Seasons, Numbers, Ratings, MaxWrites,                            \* Catalogue
    Items, Texts, Tags, MaxJobs,                                     \* Titles
    Asks, MaxFailures,                                               \* Recommendations
    s1, s2, s3, u1, u2

VARIABLES
    session, manifest, urls, fetch, time,
    profile, region, maturity, job, download, report, errors,
    entry, deleted, req, served, pending, handler, stopped, rebuild, removing, mirror, faults,
    docs, alias, strayed, crossed, raced,
    season, episodes, count, rating, total, writer, written, disturbed,
    content, seasons, genre, similar, jobs, editor, asked,
    preferences, clock, rows, cache, published, gone, ask, failures, evicted, mixed,
    part        \* the module that takes the steps of this behavior

D == INSTANCE Delivery WITH Sessions <- Viewings, Users <- {u1, u2}

R == INSTANCE StreamingRecords WITH Users <- {u1, u2}, Titles <- Names

X == INSTANCE SearchIndex WITH status <- entry, job <- rebuild

C == INSTANCE Catalogue WITH MaxRequests <- MaxWrites, req <- writer, served <- written

E == INSTANCE Titles WITH req <- editor

K == INSTANCE Recommendations
        WITH Requests <- Asks, MaxFaults <- MaxFailures, request <- ask, faults <- failures

\* Not having one, which is NULL in the database, is different from having any.
ASSUME NullAssumption == D!NoEpisode \notin Episodes /\ R!NoError \notin Errors

ASSUME SeasonAssumption == None \notin Seasons

ASSUME SearchAssumption ==
    /\ None \notin Titles \union Nat \union X!Statuses
    /\ IsFiniteSet(Titles) /\ IsFiniteSet(Requests) /\ IsFiniteSet(Jobs)
    /\ MaxRequests \in Nat /\ MaxVersion \in Nat \ {0} /\ MaxFaults \in Nat

delivery == <<session, manifest, urls, fetch, time>>

records == <<profile, region, maturity, job, download, report, errors>>

search == <<entry, deleted, req, served, pending, handler, stopped, rebuild, removing, mirror,
            faults, docs, alias, strayed, crossed, raced>>

counts == <<season, episodes, count, rating, total, writer, written, disturbed>>

titles == <<content, seasons, genre, similar, jobs, editor, asked>>

lists == <<preferences, clock, rows, cache, published, gone, ask, failures, evicted, mixed>>

SideInit ==
    /\ Init /\ D!Init /\ R!Init /\ X!Init /\ C!Init /\ E!Init /\ K!Init
    /\ part \in Sides

OfSessions(Step) ==
    part = "limit" /\ Step /\ UNCHANGED <<part, delivery, records, search, counts, titles, lists>>

OfDelivery(Step) ==
    part = "delivery" /\ Step /\ UNCHANGED <<part, vars, records, search, counts, titles, lists>>

OfRecords(Step) ==
    part = "records" /\ Step /\ UNCHANGED <<part, vars, delivery, search, counts, titles, lists>>

OfSearch(Step) ==
    part = "search" /\ Step /\ UNCHANGED <<part, vars, delivery, records, counts, titles, lists>>

OfCounts(Step) ==
    part = "catalogue" /\ Step /\ UNCHANGED <<part, vars, delivery, records, search, titles, lists>>

OfTitles(Step) ==
    part = "titles" /\ Step /\ UNCHANGED <<part, vars, delivery, records, search, counts, lists>>

OfLists(Step) ==
    part = "recommendations" /\ Step
    /\ UNCHANGED <<part, vars, delivery, records, search, counts, titles>>

SideNext ==
    \/ OfSessions(Next) \/ OfDelivery(D!Next) \/ OfRecords(R!Next)
    \/ OfSearch(X!Next) \/ OfCounts(C!Next) \/ OfTitles(E!Next) \/ OfLists(K!Next)

sides == <<part, vars, delivery, records, search, counts, titles, lists>>

SideSpec == SideInit /\ [][SideNext]_sides

\* A user with a session more than the limit.
OneUser == [s \in Sessions |-> u1]

\* Only a session that is active and not expired has a manifest served, whatever a
\* signed URL still says (Delivery), and reports that overlap do not take back an
\* error that was reported for a job (StreamingRecords).
StreamingIsTrue == D!ServedWhilePlayable /\ R!ReportedErrorsShow

\* When its events are consumed, search finds of a title what the catalogue says of
\* it, unless an event was overtaken, lost or handled beside another (SearchIndex).
SearchFollowsCatalogue == X!SearchFollowsCatalogue

\* The alias of the index points to one index that exists (SearchIndex).
AliasStands == X!AliasStands

\* The counts and the score that a season and a title store are those of its
\* episodes and ratings, unless the request that stored them overlapped another.
StoredIsCounted == C!StoredIsCounted

\* What was read before something newer was written prevails nowhere: editing one
\* thing of a title takes back nothing else of it (Titles), and what is recommended
\* is of the present preferences and names no title that was removed, unless
\* requests overlapped (Recommendations).
NothingStalePrevails == [][E!KeepsTheRest /\ K!ServesCurrent]_<<titles, lists>>

Symmetry == Permutations(Requests) \union Permutations(Sessions)

=============================================================================
