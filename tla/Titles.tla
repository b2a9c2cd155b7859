------------------------------- MODULE Titles -------------------------------
(***************************************************************************)
(* The editing of the catalogue (content service): titles, genres, seasons *)
(* and the titles recommended with others.  Only administrators edit, with *)
(* a token that the auth service still stands by.                          *)
(*                                                                         *)
(* A request loads a row without a lock and at its commit writes the       *)
(* columns that differ from what it has loaded; a value that is None in a  *)
(* request is left alone.  Of the plain columns of a title there is one,   *)
(* its text.  Deleting a title sets deleted_at, and every other operation  *)
(* goes on as before.                                                      *)
(*                                                                         *)
(* Counts and ratings are in Catalogue, the events in SearchIndex.  Cast   *)
(* is left out: linking a member violates NOT NULL on content_cast.role,   *)
(* so that the request fails and nothing of it stays.  So are the genres   *)
(* of a title, whose rows are the business of the ORM alone.               *)
(***************************************************************************)
EXTENDS Naturals, FiniteSets, TLC

CONSTANTS
    Items,       \* titles
    Texts,       \* values of the plain columns
    Tags,        \* genres, by their id
    Names,       \* of genres
    Requests,    \* requests in flight at the same time
    MaxJobs      \* bound of the model: reindex jobs

VARIABLES
    content,    \* by title: its row, or NoRow
    seasons,    \* the titles with a season of one number, and its text
    genre,      \* by genre: its name, or NoName
    similar,    \* content_recommendation: pairs of titles
    jobs,       \* reindex jobs of the process, all ACCEPTED
    req,        \* the requests and their local variables
    \* history of the run, not state of the program
    asked       \* by title: what the last publish_content asked that was not what
                \* it had loaded

vars == <<content, seasons, genre, similar, jobs, req, asked>>

-----------------------------------------------------------------------------
(* Types *)

ContentStatus == {"draft", "published", "archived"}

NoRow == [exists |-> FALSE]
NoName == "none"

Contents ==
    [exists : {TRUE}, status : ContentStatus, deleted : BOOLEAN, text : Texts]

\* stands  auth/me answers 200 to it: it is of the account's version, and not expired
\* role    of the account, and whether it is of the configured ADMIN_ROLE_VERSION
Tokens == [stands : BOOLEAN, role : {"user", "admin"}, newest : BOOLEAN]

\* What the request changes: the columns of a title.
Changes == [text : Texts] \union [status : ContentStatus] \union [deleted : {TRUE}]

Idle == [at |-> "idle"]

\* admitted  the token was accepted
\* loaded    a title was loaded; its changes are to be written
\* naming    update_genre has loaded a genre, which is to have another name
\* season    update_season or delete_season has loaded a season
RequestStates ==
    {Idle, [at |-> "admitted"]}
    \union [at : {"loaded"}, item : Items, old : Contents, changes : Changes]
    \union [at : {"naming"}, tag : Tags, name : Names]
    \union [at : {"season"}, item : Items, text : Texts \union {NoName}]

-----------------------------------------------------------------------------
(* Helpers *)

At(r, place) == req[r].at = place

Become(r, state) == req' = [req EXCEPT ![r] = state]

Exists(t) == content[t].exists

\* list_filtered
Listed(t) == Exists(t) /\ ~content[t].deleted

\* The other queries of the catalogue: by type, genre, text, trend and price
Offered(t) == Listed(t) /\ content[t].status = "published"

\* Faulty variant: every column of the row that was loaded is written.
EveryColumn(old, changes) == changes @@ old

\* The columns of a title that an UPDATE names
Dirty(old, changes) == [c \in {d \in DOMAIN changes : changes[d] # old[d]} |-> changes[c]]

\* Its row after the UPDATE
Updated(row, w) == [c \in DOMAIN row |-> IF c \in DOMAIN w THEN w[c] ELSE row[c]]

\* Names and slugs are unique.
Free(name) == \A g \in Tags : genre[g] # name

\* The auth service is asked each time; when it cannot be, the request is refused.
Verified(token) == token.stands

IsAdmin(token) == token.role = "admin" /\ token.newest

UnchangedRows == UNCHANGED <<content, seasons, genre, similar, jobs, asked>>

-----------------------------------------------------------------------------
Init ==
    /\ content = [t \in Items |-> NoRow]
    /\ seasons = <<>>
    /\ genre = [g \in Tags |-> NoName]
    /\ similar = {} /\ jobs = 0
    /\ req = [r \in Requests |-> Idle]
    /\ asked = [t \in Items |-> "draft"]

\* get_admin_identity
Admit(r, token) ==
    /\ At(r, "idle")
    /\ Verified(token) /\ IsAdmin(token)
    /\ Become(r, [at |-> "admitted"])
    /\ UnchangedRows

\* A request that is one transaction with a constraint of the database to refuse it
Edits(r) == At(r, "admitted") /\ Become(r, Idle) /\ UNCHANGED jobs

(* Genres *)

CreateGenre(r, g, name) ==
    /\ Edits(r)
    /\ genre[g] = NoName /\ Free(name)
    /\ genre' = [genre EXCEPT ![g] = name]
    /\ UNCHANGED <<content, seasons, similar, asked>>

LoadGenre(r, g, name) ==
    /\ At(r, "admitted") /\ genre[g] # NoName
    /\ Become(r, [at |-> "naming", tag |-> g, name |-> name])
    /\ UnchangedRows

\* A genre that was deleted meanwhile raises StaleDataError.
UpdateGenre(r) ==
    LET g == req[r].tag IN
    /\ At(r, "naming") /\ genre[g] # NoName
    /\ genre[g] = req[r].name \/ Free(req[r].name)
    /\ genre' = [genre EXCEPT ![g] = req[r].name]
    /\ Become(r, Idle)
    /\ UNCHANGED <<content, seasons, similar, jobs, asked>>

DeleteGenre(r, g) ==
    /\ Edits(r)
    /\ genre[g] # NoName
    /\ genre' = [genre EXCEPT ![g] = NoName]
    /\ UNCHANGED <<content, seasons, similar, asked>>

-----------------------------------------------------------------------------
(* Titles *)

\* The slug is unique.
CreateContent(r, t, text) ==
    /\ Edits(r)
    /\ ~Exists(t)
    /\ content' = [content EXCEPT ![t] =
         [exists |-> TRUE, status |-> "draft", deleted |-> FALSE, text |-> text]]
    /\ UNCHANGED <<seasons, genre, similar, asked>>

Load(r, t, changes) ==
    /\ At(r, "admitted") /\ Exists(t)
    /\ Become(r, [at |-> "loaded", item |-> t, old |-> content[t], changes |-> changes])
    /\ UnchangedRows

UpdateContent(r, t, text) == Load(r, t, [text |-> text])

PublishContent(r, t, status) == Load(r, t, [status |-> status])

DeleteContent(r, t) == Load(r, t, [deleted |-> TRUE])

\* The flush and the commit
CommitContent(r) ==
    LET q == req[r]
        w == Dirty(q.old, q.changes) IN
    /\ At(r, "loaded")
    /\ content' = [content EXCEPT ![q.item] = Updated(@, w)]
    /\ asked' = IF "status" \in DOMAIN q.changes /\ q.changes.status # q.old.status
                THEN [asked EXCEPT ![q.item] = q.changes.status] ELSE asked
    /\ Become(r, Idle)
    /\ UNCHANGED <<seasons, genre, similar, jobs>>

(* Seasons and recommendations *)

\* The number is unique in the title.
CreateSeason(r, t, text) ==
    /\ Edits(r)
    /\ Exists(t) /\ t \notin DOMAIN seasons
    /\ seasons' = t :> text @@ seasons
    /\ UNCHANGED <<content, genre, similar, asked>>

\* update_season, or delete_season, which has no text
LoadSeason(r, t, text) ==
    /\ At(r, "admitted") /\ t \in DOMAIN seasons
    /\ Become(r, [at |-> "season", item |-> t, text |-> text])
    /\ UnchangedRows

\* A season that is gone raises StaleDataError when it is updated, and is no
\* error when it is deleted.
CommitSeason(r) ==
    LET q == req[r] IN
    /\ At(r, "season")
    /\ q.text # NoName => q.item \in DOMAIN seasons
    /\ seasons' = IF q.text = NoName THEN [t \in DOMAIN seasons \ {q.item} |-> seasons[t]]
                  ELSE [seasons EXCEPT ![q.item] = q.text]
    /\ Become(r, Idle)
    /\ UNCHANGED <<content, genre, similar, jobs, asked>>

AddRecommendation(r, t, u) ==
    /\ Edits(r)
    /\ Exists(t) /\ Exists(u) /\ <<t, u>> \notin similar
    /\ similar' = similar \union {<<t, u>>}
    /\ UNCHANGED <<content, seasons, genre, asked>>

\* start_reindex: nothing ever runs the job.
StartReindex ==
    /\ jobs < MaxJobs
    /\ jobs' = jobs + 1
    /\ UNCHANGED <<content, seasons, genre, similar, req, asked>>

\* A request is refused, fails or dies.
Leave(r) ==
    /\ ~At(r, "idle")
    /\ Become(r, Idle)
    /\ UnchangedRows

Next ==
    \/ \E r \in Requests :
        \/ \E token \in Tokens : Admit(r, token)
        \/ \E g \in Tags, name \in Names : CreateGenre(r, g, name) \/ LoadGenre(r, g, name)
        \/ UpdateGenre(r)
        \/ \E g \in Tags : DeleteGenre(r, g)
        \/ \E t \in Items, text \in Texts :
            CreateContent(r, t, text) \/ UpdateContent(r, t, text) \/ CreateSeason(r, t, text)
        \/ \E t \in Items, status \in ContentStatus : PublishContent(r, t, status)
        \/ \E t \in Items, text \in Texts \union {NoName} : LoadSeason(r, t, text)
        \/ \E t \in Items : DeleteContent(r, t)
        \/ \E t, u \in Items : AddRecommendation(r, t, u)
        \/ CommitContent(r) \/ CommitSeason(r) \/ Leave(r)
    \/ StartReindex

Spec == Init /\ [][Next]_vars

-----------------------------------------------------------------------------
(* Properties *)

TypeOK ==
    /\ content \in [Items -> Contents \union {NoRow}]
    /\ DOMAIN seasons \subseteq Items
    /\ genre \in [Tags -> Names \union {NoName}]
    /\ similar \subseteq Items \X Items /\ jobs \in 0 .. MaxJobs
    /\ req \in [Requests -> RequestStates]
    /\ asked \in [Items -> ContentStatus]

\* Editing one thing of a title takes back nothing else, whatever was loaded
\* before: "soft-deleted content must never appear" again (list_filtered), and
\* what the catalogue offers are the titles whose last change of status was to
\* publish them.
KeepsTheRest ==
    \A t \in Items : Exists(t) =>
        /\ ~Listed(t) => ~Listed(t)'
        /\ Offered(t)' <=> Listed(t)' /\ asked'[t] = "published"

=============================================================================
