-------------------------- MODULE Recommendations --------------------------
(***************************************************************************)
(* The recommendations of a user (recommendation service): generated from  *)
(* the user's preferences and the catalogue, stored as rows, and kept in   *)
(* Redis until they expire.  Preferences change, titles go and             *)
(* subscriptions change while requests are under way.  Users share         *)
(* nothing, so there is one.                                               *)
(*                                                                         *)
(* Preferences are the number of the update that made them, and the clock  *)
(* counts the updates: a row is as new as the clock it was made at.  A     *)
(* generation is one transaction that deletes the rows it sees, holding    *)
(* their locks, and inserts its own.                                       *)
(***************************************************************************)
EXTENDS Naturals, FiniteSets

CONSTANTS
    Titles,
    Requests,    \* GET and PUT requests, and subscription events; each is used once
    MaxFaults    \* bound of the model: Redis commands that fail

VARIABLES
    preferences,  \* user_preferences
    clock,        \* updates that have set their updated_at
    rows,         \* recommendations: the committed rows
    cache,        \* the key of the user in Redis
    published,    \* the catalogue of the content service
    gone,         \* titles whose content.deleted or content.unpublished is under way
    request,      \* the requests and their local variables
    faults,
    \* history of the run, not state of the program
    evicted,      \* titles whose event was handled
    mixed         \* requests overlapped or Redis failed since the last update alone

vars == <<preferences, clock, rows, cache, published, gone, request, faults, evicted, mixed>>

-----------------------------------------------------------------------------
(* Types *)

Clocks == 0 .. Cardinality(Requests)

\* of: the preferences it was generated from; made: created_at
Rows == [title : Titles, of : Clocks, made : Clocks]

NoCache == [is |-> "none"]
Cached(result) == [is |-> "list", result |-> result]

Idle == [at |-> "idle"]

Kinds == {"get", "put"}

\* missed      nothing was in Redis, the preferences are read
\* stamped     an update has its updated_at, and is not committed
\* committed   its cache entry is to be deleted
\* generating  the rows are missing or older than the preferences
\* fetched     titles of the catalogue; cleared: the rows it has deleted and locked
\* caching     the result is to be put into Redis
\* answered    began, hidden: the preferences and the evicted titles when a GET was sent
RequestStates ==
    {Idle}
    \union [at : {"missed", "committed"}, kind : Kinds, lists : Clocks, began : Clocks,
            hidden : SUBSET Titles]
    \union [at : {"stamped"}, kind : {"put"}, lists : Clocks, began : Clocks,
            hidden : SUBSET Titles]
    \union [at : {"generating"}, kind : Kinds, lists : Clocks, stored : SUBSET Rows,
            began : Clocks, hidden : SUBSET Titles]
    \union [at : {"fetched"}, kind : Kinds, lists : Clocks, titles : SUBSET Titles,
            began : Clocks, hidden : SUBSET Titles]
    \union [at : {"cleared"}, kind : Kinds, lists : Clocks, titles : SUBSET Titles,
            deleted : SUBSET Rows, began : Clocks, hidden : SUBSET Titles]
    \union [at : {"caching", "answered"}, result : SUBSET Rows, began : Clocks,
            hidden : SUBSET Titles]
    \union [at : {"evicting"}] \union [at : {"done", "failed"}]

-----------------------------------------------------------------------------
(* Helpers *)

At(r, place) == request[r].at = place

Under(r) == request[r].at \notin {"idle", "answered", "done", "failed"}

\* What a request begins with, its history included
Begins(r, next, alone) ==
    /\ At(r, "idle")
    /\ request' = [request EXCEPT ![r] = next]
    /\ mixed' = IF gone # {} \/ \E q \in Requests : Under(q) THEN TRUE
                ELSE IF alone THEN FALSE ELSE mixed

Locked == UNION {request[r].deleted : r \in {q \in Requests : At(q, "cleared")}}

\* Rows that were made after the preferences were last changed.
Fresh(stored, lists) == \E row \in stored : row.made >= lists

UnchangedCatalogue == UNCHANGED <<published, gone, evicted>>

\* A Redis command that fails is logged, and the request goes on.
Redis(value) ==
    \/ cache' = value /\ UNCHANGED <<faults, mixed>>
    \/ /\ faults < MaxFaults
       /\ faults' = faults + 1 /\ mixed' = TRUE /\ UNCHANGED cache

Init ==
    /\ preferences = 0 /\ clock = 0
    /\ rows = {} /\ cache = NoCache
    /\ published = Titles /\ gone = {} /\ evicted = {}
    /\ request = [r \in Requests |-> Idle]
    /\ faults = 0 /\ mixed = FALSE

-----------------------------------------------------------------------------
(* GET /for-user/{user_id} *)

ServeCached(r) ==
    /\ cache # NoCache
    /\ Begins(r, [at |-> "answered", result |-> cache.result,
                  began |-> preferences, hidden |-> evicted], FALSE)
    /\ UNCHANGED <<preferences, clock, rows, cache, faults>> /\ UnchangedCatalogue

Miss(r) ==
    /\ cache = NoCache
    /\ Begins(r, [at |-> "missed", kind |-> "get", lists |-> preferences,
                  began |-> preferences, hidden |-> evicted], FALSE)
    /\ UNCHANGED <<preferences, clock, rows, cache, faults>> /\ UnchangedCatalogue

ReadRows(r) ==
    /\ At(r, "missed")
    /\ request' = [request EXCEPT ![r] =
           IF Fresh(rows, @.lists)
           THEN [at |-> "caching", result |-> rows, began |-> @.began, hidden |-> @.hidden]
           ELSE [at |-> "generating", kind |-> @.kind, lists |-> @.lists, stored |-> rows,
                 began |-> @.began, hidden |-> @.hidden]]
    /\ UNCHANGED <<preferences, clock, rows, cache, faults, mixed>> /\ UnchangedCatalogue

\* _cache_set, and the answer
Answer(r) ==
    /\ At(r, "caching")
    /\ request' = [request EXCEPT ![r] =
           [at |-> "answered", result |-> @.result, began |-> @.began, hidden |-> @.hidden]]
    /\ Redis(Cached(request[r].result))
    /\ UNCHANGED <<preferences, clock, rows>> /\ UnchangedCatalogue

-----------------------------------------------------------------------------
(* generate, for a request or an update *)

FetchCatalogue(r) ==
    /\ At(r, "generating")
    /\ request' = [request EXCEPT ![r] =
           [at |-> "fetched", kind |-> @.kind, lists |-> @.lists, titles |-> published,
            began |-> @.began, hidden |-> @.hidden]]
    /\ UNCHANGED <<preferences, clock, rows, cache, faults, mixed>> /\ UnchangedCatalogue

\* The content service does not answer.  An update ends; a GET without rows has an
\* empty list, and one with rows cannot read them any more, as the rollback has
\* expired them.
FetchFails(r) ==
    /\ At(r, "generating")
    /\ request' = [request EXCEPT ![r] =
           IF @.kind = "put" THEN [at |-> "done"]
           ELSE IF @.stored # {} THEN [at |-> "failed"]
           ELSE [at |-> "caching", result |-> {}, began |-> @.began, hidden |-> @.hidden]]
    /\ UNCHANGED <<preferences, clock, rows, cache, faults, mixed>> /\ UnchangedCatalogue

Clear(r) ==
    /\ At(r, "fetched")
    /\ rows \intersect Locked = {}
    /\ request' = [request EXCEPT ![r] =
           [at |-> "cleared", kind |-> @.kind, lists |-> @.lists, titles |-> @.titles,
            deleted |-> rows, began |-> @.began, hidden |-> @.hidden]]
    /\ UNCHANGED <<preferences, clock, rows, cache, faults, mixed>> /\ UnchangedCatalogue

Generated(r) == [title : request[r].titles, of : {request[r].lists}, made : {clock}]

\* The inserts and the commit; a GET reads the rows again.
Store(r) ==
    /\ At(r, "cleared")
    /\ rows' = (rows \ request[r].deleted) \union Generated(r)
    /\ request' = [request EXCEPT ![r] =
           IF @.kind = "put" THEN [at |-> "done"]
           ELSE [at |-> "caching", result |-> rows', began |-> @.began, hidden |-> @.hidden]]
    /\ UNCHANGED <<preferences, clock, cache, faults, mixed>> /\ UnchangedCatalogue

-----------------------------------------------------------------------------
(* PUT /preferences/{user_id} *)

Stamp(r) ==
    /\ Begins(r, [at |-> "stamped", kind |-> "put", lists |-> clock + 1,
                  began |-> 0, hidden |-> {}], TRUE)
    /\ clock' = clock + 1
    /\ UNCHANGED <<preferences, rows, cache, faults>> /\ UnchangedCatalogue

CommitPreferences(r) ==
    /\ At(r, "stamped")
    /\ preferences' = request[r].lists
    /\ request' = [request EXCEPT ![r] =
           [at |-> "committed", kind |-> @.kind, lists |-> @.lists,
            began |-> @.began, hidden |-> @.hidden]]
    /\ UNCHANGED <<clock, rows, cache, faults, mixed>> /\ UnchangedCatalogue

\* Then the rows are generated again.
Invalidate(r) ==
    /\ At(r, "committed")
    /\ request' = [request EXCEPT ![r] =
           [at |-> "generating", kind |-> @.kind, lists |-> @.lists, stored |-> {},
            began |-> @.began, hidden |-> @.hidden]]
    /\ Redis(NoCache)
    /\ UNCHANGED <<preferences, clock, rows>> /\ UnchangedCatalogue

-----------------------------------------------------------------------------
(* Events *)

\* billing.subscription.*: the rows are deleted, then the cache entry.
SubscriptionChanges(r) ==
    /\ rows \intersect Locked = {}
    /\ Begins(r, [at |-> "evicting"], FALSE)
    /\ rows' = {}
    /\ UNCHANGED <<preferences, clock, cache, faults>> /\ UnchangedCatalogue

EvictUser(r) ==
    /\ At(r, "evicting")
    /\ request' = [request EXCEPT ![r] = [at |-> "done"]]
    /\ Redis(NoCache)
    /\ UNCHANGED <<preferences, clock, rows>> /\ UnchangedCatalogue

\* The content service takes a title down.
TakeDown(t) ==
    /\ t \in published
    /\ published' = published \ {t}
    /\ gone' = gone \union {t}
    /\ mixed' = (mixed \/ \E r \in Requests : Under(r))
    /\ UNCHANGED <<preferences, clock, rows, cache, request, faults, evicted>>

\* Its rows are deleted; the cache entry is deleted if the user had one of them.
EvictTitle(t) ==
    LET ofTitle == {row \in rows : row.title = t} IN
    /\ t \in gone
    /\ ofTitle \intersect Locked = {}
    /\ rows' = rows \ ofTitle
    /\ gone' = gone \ {t} /\ evicted' = evicted \union {t}
    /\ IF ofTitle # {} THEN Redis(NoCache) ELSE UNCHANGED <<cache, faults, mixed>>
    /\ UNCHANGED <<preferences, clock, published, request>>

Expire ==
    /\ cache # NoCache
    /\ cache' = NoCache
    /\ UNCHANGED <<preferences, clock, rows, request, faults, mixed>> /\ UnchangedCatalogue

Next ==
    \/ \E r \in Requests :
        \/ ServeCached(r) \/ Miss(r) \/ ReadRows(r) \/ Answer(r)
        \/ FetchCatalogue(r) \/ FetchFails(r) \/ Clear(r) \/ Store(r)
        \/ Stamp(r) \/ CommitPreferences(r) \/ Invalidate(r)
        \/ SubscriptionChanges(r) \/ EvictUser(r)
    \/ \E t \in Titles : TakeDown(t) \/ EvictTitle(t)
    \/ Expire

Spec == Init /\ [][Next]_vars

-----------------------------------------------------------------------------
(* Properties *)

\* Types of the variables.
TypeOK ==
    /\ preferences \in Clocks /\ clock \in Clocks
    /\ rows \subseteq Rows
    /\ cache = NoCache \/ cache.result \subseteq Rows
    /\ published \subseteq Titles /\ gone \subseteq Titles /\ evicted \subseteq Titles
    /\ request \in [Requests -> RequestStates]
    /\ faults \in 0 .. MaxFaults /\ mixed \in BOOLEAN

\* What is served was generated from the preferences the user had when asking
\* and names no title whose removal was handled by then, unless requests have
\* overlapped, or Redis failed, since the last update that was alone.
ServesCurrent ==
    \A r \in Requests : ~At(r, "answered") /\ At(r, "answered")' /\ ~mixed' =>
        \A row \in request'[r].result :
            row.of >= request'[r].began /\ row.title \notin request'[r].hidden

=============================================================================
