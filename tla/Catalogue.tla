------------------------------ MODULE Catalogue ------------------------------
(***************************************************************************)
(* The numbers that the content service keeps beside the rows they count:  *)
(* the episode_count of a season, and the total_votes and audience_score   *)
(* of a title.  create_episode, delete_episode and rate_content write a    *)
(* row, list the rows there are and store what they counted, without a     *)
(* lock.  A session sees what is committed and what it wrote itself, and   *)
(* at its commit it writes the columns that differ from what it loaded.    *)
(* Titles share nothing, so that there is one.                             *)
(***************************************************************************)
EXTENDS Integers, FiniteSetsExt, TLC

CONSTANTS
    Seasons,
    Numbers,      \* of episodes
    Users,
    Ratings,      \* what a user may rate a title
    Requests,
    None,
    MaxRequests   \* bound of the model: requests altogether

VARIABLES
    season,     \* what has become of each season
    episodes,   \* the episodes, by season and number
    count,      \* season: episode_count
    rating,     \* content_rating: the rating of each user
    total,      \* content: total_votes and audience_score
    req,        \* the requests and their local variables
    served,     \* how many requests have begun
    disturbed   \* history: seasons, or None for the title, whose number was last
                \* stored by a request during which another had committed

vars == <<season, episodes, count, rating, total, req, served, disturbed>>

-----------------------------------------------------------------------------
(* Types *)

Unrated == -1

Totals == [votes : Nat, score : Nat]

\* A request of rate_content has no season.
\* at     where it is, by what it has done
\* item   the number of the episode, or the user
\* value  the rating it gives
\* old    the rating that the session loaded
\* seen   the stored numbers that the session loaded
\* found  what it has counted
\* calm   no other request on the same row has committed since it began
RequestStates ==
    [at : {"idle", "found", "written", "loaded", "listed", "counted"},
     kind : {"create", "delete", "rate"}, on : Seasons \union {None},
     item : Numbers \union Users \union {None}, value : Ratings \union {Unrated},
     old : Ratings \union {Unrated},
     seen : Totals, found : Totals, calm : BOOLEAN]

NoTotals == [votes |-> 0, score |-> 0]

IdleRequest ==
    [at |-> "idle", kind |-> "create", on |-> None, item |-> None, value |-> Unrated,
     old |-> Unrated, seen |-> NoTotals, found |-> NoTotals, calm |-> TRUE]

\* The count of a season
OfSeason(n) == [votes |-> n, score |-> 0]

Rows(s) == {n \in Numbers : <<s, n>> \in episodes}

Rated(f) == {u \in Users : f[u] # Unrated}

\* The average, in parts that a few ratings have no fractions of.
Average(f) ==
    LET users == Rated(f) IN
    IF users = {} THEN 0
    ELSE (60 * MapThenSumSet(LAMBDA u : f[u], users)) \div Cardinality(users)

Counted(f) == [votes |-> Cardinality(Rated(f)), score |-> Average(f)]

TypeOK ==
    /\ season \in [Seasons -> {"unborn", "live", "gone"}]
    /\ episodes \subseteq Seasons \X Numbers
    /\ count \in [Seasons -> Nat]
    /\ rating \in [Users -> Ratings \union {Unrated}]
    /\ total \in Totals
    /\ req \in [Requests -> RequestStates]
    /\ served \in 0 .. MaxRequests
    /\ disturbed \subseteq Seasons \union {None}

Init ==
    /\ season = [s \in Seasons |-> "unborn"]
    /\ episodes = {}
    /\ count = [s \in Seasons |-> 0]
    /\ rating = [u \in Users |-> Unrated]
    /\ total = NoTotals
    /\ req = [r \in Requests |-> IdleRequest]
    /\ served = 0
    /\ disturbed = {}

-----------------------------------------------------------------------------
(* Seasons *)

CreateSeason(s) ==
    /\ season[s] = "unborn"
    /\ season' = [season EXCEPT ![s] = "live"]
    /\ UNCHANGED <<episodes, count, rating, total, req, served, disturbed>>

\* A request has written a row that it has not committed; the row is locked.
Holds(r, s, i) == req[r].at \notin {"idle", "found"} /\ req[r].on = s /\ req[r].item = i

\* The episodes go with it, and it waits for those that are being written.
DeleteSeason(s) ==
    /\ season[s] = "live"
    /\ \A r \in Requests, n \in Numbers : ~Holds(r, s, n)
    /\ season' = [season EXCEPT ![s] = "gone"]
    /\ episodes' = {e \in episodes : e[1] # s}
    /\ UNCHANGED <<count, rating, total, req, served, disturbed>>

-----------------------------------------------------------------------------
(* Requests *)

Begin(r, new) ==
    /\ req[r].at = "idle"
    /\ served < MaxRequests
    /\ served' = served + 1
    /\ req' = [req EXCEPT ![r] = new]

Goes(r, new) == req' = [req EXCEPT ![r] = new] /\ UNCHANGED served

Free(s, i) == \A q \in Requests : ~Holds(q, s, i)

\* create_episode: the number is unique in the season, the season must exist.
InsertEpisode(r, s, n) ==
    /\ season[s] = "live" /\ <<s, n>> \notin episodes /\ Free(s, n)
    /\ Begin(r, [IdleRequest EXCEPT !.at = "written", !.kind = "create", !.on = s, !.item = n])
    /\ UNCHANGED <<season, episodes, count, rating, total, disturbed>>

LoadSeason(r) ==
    /\ req[r].at = "written" /\ req[r].kind = "create"
    /\ Goes(r, [req[r] EXCEPT !.at = "loaded", !.seen = OfSeason(count[req[r].on])])
    /\ UNCHANGED <<season, episodes, count, rating, total, disturbed>>

\* delete_episode: the season is loaded with its episodes.
FindEpisode(r, s, n) ==
    /\ season[s] = "live" /\ <<s, n>> \in episodes
    /\ Begin(r, [IdleRequest EXCEPT !.at = "found", !.kind = "delete", !.on = s, !.item = n,
                                    !.seen = OfSeason(count[s])])
    /\ UNCHANGED <<season, episodes, count, rating, total, disturbed>>

\* Deleting a row that another request has deleted is a warning.
DropEpisode(r) ==
    /\ req[r].at = "found" /\ req[r].kind = "delete"
    /\ Free(req[r].on, req[r].item)
    /\ Goes(r, [req[r] EXCEPT !.at = "loaded"])
    /\ UNCHANGED <<season, episodes, count, rating, total, disturbed>>

\* Faulty variant: the episodes are those that are committed.
CommittedEpisodes(r) == Rows(req[r].on)

\* The episodes that the session sees: the committed ones, and what it wrote.
EpisodesSeen(r) ==
    IF req[r].kind = "create" THEN Rows(req[r].on) \union {req[r].item}
    ELSE Rows(req[r].on) \ {req[r].item}

ListEpisodes(r) ==
    /\ req[r].at = "loaded"
    /\ Goes(r, [req[r] EXCEPT !.at = "counted",
                              !.found = OfSeason(Cardinality(EpisodesSeen(r)))])
    /\ UNCHANGED <<season, episodes, count, rating, total, disturbed>>

\* rate_content: the user's rating is looked for, then inserted or updated.
FindRating(r, u, v) ==
    /\ Begin(r, [IdleRequest EXCEPT !.at = "found", !.kind = "rate", !.item = u, !.value = v,
                                    !.old = rating[u]])
    /\ UNCHANGED <<season, episodes, count, rating, total, disturbed>>

\* There is one rating of a user; a second insert fails.
WriteRating(r) ==
    /\ req[r].at = "found" /\ req[r].kind = "rate"
    /\ Free(None, req[r].item)
    /\ req[r].old = Unrated => rating[req[r].item] = Unrated
    /\ Goes(r, [req[r] EXCEPT !.at = "written"])
    /\ UNCHANGED <<season, episodes, count, rating, total, disturbed>>

\* The session's own object is the rating it gives, whatever the row is by now.
RatingsSeen(r) == [rating EXCEPT ![req[r].item] = req[r].value]

ListRatings(r) ==
    /\ req[r].at = "written" /\ req[r].kind = "rate"
    /\ Goes(r, [req[r] EXCEPT !.at = "listed", !.found = Counted(RatingsSeen(r))])
    /\ UNCHANGED <<season, episodes, count, rating, total, disturbed>>

LoadTitle(r) ==
    /\ req[r].at = "listed"
    /\ Goes(r, [req[r] EXCEPT !.at = "counted", !.seen = total])
    /\ UNCHANGED <<season, episodes, count, rating, total, disturbed>>

\* Only a value that the session changed is written.
Written(now, seen, found) == IF seen = found THEN now ELSE found

Stored(r) ==
    [votes |-> Written(total.votes, req[r].seen.votes, req[r].found.votes),
     score |-> Written(total.score, req[r].seen.score, req[r].found.score)]

\* The commit; the number of a season that is gone cannot be written.
Commit(r) ==
    LET q == req[r] IN
    /\ q.at = "counted"
    /\ q.on # None /\ q.seen # q.found => season[q.on] = "live"
    /\ IF q.kind = "rate"
       THEN /\ rating' = [rating EXCEPT ![q.item] = Written(@, q.old, q.value)]
            /\ total' = Stored(r)
            /\ UNCHANGED <<episodes, count>>
       ELSE /\ episodes' = IF q.kind = "create" THEN episodes \union {<<q.on, q.item>>}
                           ELSE episodes \ {<<q.on, q.item>>}
            /\ count' = [count EXCEPT ![q.on] = Written(@, q.seen.votes, q.found.votes)]
            /\ UNCHANGED <<rating, total>>
    /\ req' = [p \in Requests |-> IF p = r THEN IdleRequest
                                  ELSE IF req[p].at # "idle" /\ req[p].on = q.on
                                       THEN [req[p] EXCEPT !.calm = FALSE] ELSE req[p]]
    /\ disturbed' = IF q.calm THEN disturbed \ {q.on} ELSE disturbed \union {q.on}
    /\ UNCHANGED <<season, served>>

\* The request fails, waits too long for a lock or dies; what it wrote is undone.
Leave(r) ==
    /\ req[r].at # "idle"
    /\ Goes(r, IdleRequest)
    /\ UNCHANGED <<season, episodes, count, rating, total, disturbed>>

Next ==
    \/ \E s \in Seasons : CreateSeason(s) \/ DeleteSeason(s)
    \/ \E r \in Requests :
        \/ \E s \in Seasons, n \in Numbers : InsertEpisode(r, s, n) \/ FindEpisode(r, s, n)
        \/ \E u \in Users, v \in Ratings : FindRating(r, u, v)
        \/ LoadSeason(r) \/ DropEpisode(r) \/ ListEpisodes(r)
        \/ WriteRating(r) \/ ListRatings(r) \/ LoadTitle(r)
        \/ Commit(r) \/ Leave(r)

Spec == Init /\ [][Next]_vars

-----------------------------------------------------------------------------
(* Properties *)

\* "Update season episode count" (create_episode), "Update content average score"
\* (rate_content): the count of a season is that of its episodes, and the votes and
\* score of the title are those of its ratings, when the last request to store them
\* was one during which no other committed, whatever requests that overlapped had
\* left there before.
StoredIsCounted ==
    /\ \A s \in Seasons : season[s] = "live" /\ s \notin disturbed =>
           count[s] = Cardinality(Rows(s))
    /\ None \notin disturbed => total = Counted(rating)

=============================================================================
