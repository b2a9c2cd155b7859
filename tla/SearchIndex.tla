----------------------------- MODULE SearchIndex -----------------------------
(***************************************************************************)
(* The search index and the catalogue it follows: publish_content and      *)
(* delete_content of the content service, the two consumers of its events  *)
(* in the search service, and the rebuild of the index behind an alias.    *)
(*                                                                         *)
(* An operation of the content service commits and then publishes an event *)
(* to the topic of what it did.  The events of a topic about one title are *)
(* alike and handled one after the other, so that they are only counted;   *)
(* nothing orders the topics.  Redelivery by a rebalance is left to the    *)
(* module EventSubscriber, here a failed or crashed handler's event is     *)
(* delivered again.  Elasticsearch (external) runs each call in one step.  *)
(***************************************************************************)
EXTENDS Integers, FiniteSetsExt, TLC

CONSTANTS
    Titles,
    Requests,     \* requests to the content service
    Jobs,         \* rebuilds that may run at once, one in each replica
    None,
    \* bounds of the model
    MaxRequests,  \* requests altogether
    MaxVersion,   \* versions of the index
    MaxFaults     \* failing calls, crashes and operations of an administrator

VARIABLES
    \* content service
    status,     \* contents: the status of each title
    deleted,    \* contents: the titles with a deleted_at
    req,        \* the requests and their local variables
    served,     \* how many requests have begun
    \* broker
    pending,    \* events that are not consumed yet, by topic and title
    \* search service
    handler,    \* the two consumers
    stopped,    \* the sync consumer has given up
    job,        \* the rebuilds
    removing,   \* the index an administrator is about to delete
    mirror,     \* search_index: the titles with a row
    faults,
    \* Elasticsearch
    docs,       \* the documents of each index that there is
    alias,      \* the indices that the alias "content" points to
    \* history of the run, not state of the program
    strayed,    \* titles whose events were lost, or handled two at a time
    crossed,    \* titles with events that undo each other in two topics at once
    raced       \* two rebuilds overlapped, or one and the deletion of an index

catalogue == <<status, deleted, req, served>>
index == <<docs, alias>>
history == <<strayed, crossed, raced>>
vars == <<catalogue, pending, handler, stopped, job, removing, mirror, faults, index, history>>

-----------------------------------------------------------------------------
(* Types *)

Statuses == {"draft", "published", "archived"}

\* What a route is asked for, and the topic that tells of it.
Wishes == Statuses \union {"deleted"}

Topics == {"published", "unpublished", "deleted"}

Gone == {"unpublished", "deleted"}

\* Legacy is an index that has the name of the alias.
Legacy == 0

Indices == 0 .. MaxVersion

RequestStates ==
    [at : {"idle", "committing", "publishing"}, on : Titles \union {None},
     seen : Statuses, want : Wishes]

IdleRequest == [at |-> "idle", on |-> None, seen |-> "draft", want |-> "draft"]

\* subscriber  KafkaEventSubscriber, for the topics of titles that are gone
\* sync        run_content_sync_consumer, for all three
Handlers == {"subscriber", "sync"}

HandlerStates ==
    [at : {"idle", "fetched", "mirroring"}, on : Titles \union {None}, topic : Topics,
     doc : Statuses]

IdleHandler == [at |-> "idle", on |-> None, topic |-> "published", doc |-> "draft"]

\* old, new  the index it replaces, and the one it builds
\* items     the titles that were listed
\* touched   titles that something happened to since it began
JobStates ==
    [at : {"idle", "creating", "listing", "filling", "switching", "cleaning", "deleting"},
     old : Indices, new : Indices, items : SUBSET Titles, touched : SUBSET Titles]

IdleJob == [at |-> "idle", old |-> 0, new |-> 0, items |-> {}, touched |-> {}]

NoDocs == [t \in Titles |-> None]

\* The catalogue lists a title, search finds it.
Listed(t) == status[t] = "published" /\ t \notin deleted

Found(t) == \E v \in alias : docs[v][t] = "published"

-----------------------------------------------------------------------------
(* Helpers *)

Quiet(t) ==
    /\ \A r \in Requests : req[r].on # t
    /\ \A h \in Handlers : handler[h].on # t
    /\ \A p \in Topics : pending[p][t] = 0

Building == {j \in Jobs : job[j].at # "idle"}

\* History: every rebuild that runs has missed something about the title.
Touch(t) == [j \in Jobs |-> IF j \in Building
                            THEN [job[j] EXCEPT !.touched = @ \union {t}] ELSE job[j]]

Fault == faults < MaxFaults /\ faults' = faults + 1

Init ==
    /\ status = [t \in Titles |-> "draft"]
    /\ deleted = {}
    /\ req = [r \in Requests |-> IdleRequest]
    /\ served = 0
    /\ pending = [p \in Topics |-> [t \in Titles |-> 0]]
    /\ handler = [h \in Handlers |-> IdleHandler]
    /\ stopped = FALSE
    /\ job = [j \in Jobs |-> IdleJob]
    /\ removing = None
    /\ mirror = {}
    /\ faults = 0
    /\ docs = [v \in {1} |-> NoDocs]
    /\ alias = {1}
    /\ strayed = {} /\ crossed = {} /\ raced = FALSE

-----------------------------------------------------------------------------
(* Content service *)

\* publish_content and delete_content read the row; neither looks at deleted_at.
Read(r, t, want) ==
    /\ req[r].at = "idle"
    /\ served < MaxRequests
    /\ served' = served + 1
    /\ req' = [req EXCEPT ![r] = [at |-> "committing", on |-> t, seen |-> status[t],
                                  want |-> want]]
    /\ strayed' = IF \E v \in Requests : req[v].on = t THEN strayed \union {t} ELSE strayed
    /\ job' = Touch(t)
    /\ UNCHANGED <<status, deleted, pending, handler, stopped, removing, mirror, faults, index, crossed,
                   raced>>

\* The event of a request that commits now may be overtaken by one of another topic.
Crosses(t, want) ==
    \/ want = "published" /\ (t \in deleted \/ \E p \in Gone : pending[p][t] > 0)
    \/ want = "published" /\ \E h \in Handlers : handler[h].on = t
    \/ want = "deleted" /\ (pending["published"][t] > 0 \/ handler["sync"].on = t)

Commit(r) ==
    LET t == req[r].on  want == req[r].want IN
    /\ req[r].at = "committing"
    /\ IF want = "deleted"
       THEN deleted' = deleted \union {t} /\ UNCHANGED status
       ELSE status' = [status EXCEPT ![t] = IF want # req[r].seen THEN want ELSE @]
            /\ UNCHANGED deleted
    /\ req' = [req EXCEPT ![r] = [@ EXCEPT !.at = "publishing", !.seen = "draft"]]
    /\ crossed' = IF Crosses(t, want) THEN crossed \union {t} ELSE crossed
    /\ UNCHANGED <<served, pending, handler, stopped, job, removing, mirror, faults, index, strayed, raced>>

\* What is not published anew is unpublished.
TopicOf(want) == IF want \in {"published", "deleted"} THEN want ELSE "unpublished"

Publish(r) ==
    /\ req[r].at = "publishing"
    /\ pending' = [pending EXCEPT ![TopicOf(req[r].want)][req[r].on] = @ + 1]
    /\ req' = [req EXCEPT ![r] = IdleRequest]
    /\ UNCHANGED <<status, deleted, served, handler, stopped, job, removing, mirror, faults, index, strayed,
                   crossed, raced>>

\* The request fails or dies, after its commit with the event unpublished.
LeaveRequest(r) ==
    /\ req[r].at # "idle"
    /\ Fault
    /\ req' = [req EXCEPT ![r] = IdleRequest]
    /\ strayed' = IF req[r].at = "publishing" THEN strayed \union {req[r].on} ELSE strayed
    /\ UNCHANGED <<status, deleted, served, pending, handler, stopped, job, removing, mirror, index, crossed,
                   raced>>

-----------------------------------------------------------------------------
(* Consumers of the search service *)

\* A partition belongs to one consumer of the group, which handles it in order.
Take(h, p, t) ==
    /\ handler[h].at = "idle"
    /\ h = "sync" => ~stopped
    /\ pending[p][t] > 0
    /\ \A g \in Handlers : ~(handler[g].on = t /\ handler[g].topic = p)
    /\ strayed' = IF \E g \in Handlers : handler[g].on = t THEN strayed \union {t} ELSE strayed
    /\ pending' = [pending EXCEPT ![p][t] = @ - 1]
    /\ job' = Touch(t)
    /\ UNCHANGED <<catalogue, stopped, removing, mirror, faults, crossed, raced>>

\* A write through the alias goes to its one index, or makes an index of that name.
Targets == IF alias = {} THEN {Legacy} \intersect DOMAIN docs ELSE alias

Without(t) ==
    [v \in DOMAIN docs |-> IF v \in Targets THEN [docs[v] EXCEPT ![t] = None] ELSE docs[v]]

\* delete_content: the document first.
DeleteDoc(h, p, t) ==
    /\ Take(h, p, t)
    /\ handler' = [handler EXCEPT ![h] = [at |-> "mirroring", on |-> t, topic |-> p,
                                          doc |-> "draft"]]
    /\ Cardinality(Targets) <= 1
    /\ docs' = Without(t)
    /\ UNCHANGED alias

\* Faulty variant: what is published is what the event says.
AsAnnounced(t) == "published"

\* GET /content/{id} answers for a title whatever its status, a deleted one too.
Detail(t) == status[t]

\* content.published: the title is fetched from the content service.
Fetch(t) ==
    /\ Take("sync", "published", t)
    /\ handler' = [handler EXCEPT !["sync"] = [at |-> "fetched", on |-> t, topic |-> "published",
                                               doc |-> Detail(t)]]
    /\ UNCHANGED index

\* index_content: the row is upserted, not committed; then the document is indexed.
IndexDoc ==
    LET t == handler["sync"].on
        v == IF alias = {} THEN Legacy ELSE CHOOSE a \in alias : TRUE
    IN
    /\ handler["sync"].at = "fetched"
    /\ Cardinality(alias) <= 1
    /\ docs' = [i \in DOMAIN docs \union {v} |->
                   IF i \notin DOMAIN docs THEN [NoDocs EXCEPT ![t] = handler["sync"].doc]
                   ELSE IF i = v THEN [docs[i] EXCEPT ![t] = handler["sync"].doc] ELSE docs[i]]
    /\ handler' = [handler EXCEPT !["sync"] = [@ EXCEPT !.at = "mirroring", !.doc = "draft"]]
    /\ UNCHANGED <<catalogue, pending, stopped, job, removing, mirror, faults, alias, history>>

Mirrored(h, t) == IF handler[h].topic = "published" THEN mirror \union {t} ELSE mirror \ {t}

\* The row is committed, and the offset.
Acknowledge(h) ==
    /\ handler[h].at = "mirroring"
    /\ mirror' = Mirrored(h, handler[h].on)
    /\ handler' = [handler EXCEPT ![h] = IdleHandler]
    /\ UNCHANGED <<catalogue, pending, stopped, job, removing, faults, index, history>>

Redelivered(h) ==
    IF handler[h].on = None THEN pending
    ELSE [pending EXCEPT ![handler[h].topic][handler[h].on] = @ + 1]

\* The sync consumer stops at the first failure, its event is not acknowledged.
Stop ==
    /\ handler["sync"].at # "idle"
    /\ Fault
    /\ pending' = Redelivered("sync")
    /\ handler' = [handler EXCEPT !["sync"] = IdleHandler]
    /\ stopped' = TRUE
    /\ UNCHANGED <<catalogue, job, removing, mirror, index, history>>

\* The subscriber retries for a while, then the event is a dead letter.
DeadLetter ==
    /\ handler["subscriber"].at # "idle"
    /\ Fault
    /\ strayed' = strayed \union {handler["subscriber"].on}
    /\ handler' = [handler EXCEPT !["subscriber"] = IdleHandler]
    /\ UNCHANGED <<catalogue, pending, stopped, job, removing, mirror, index, crossed, raced>>

\* The service dies and starts again; the indices it was building remain.
Restart ==
    /\ Fault
    /\ pending' = [p \in Topics |-> [t \in Titles |->
          pending[p][t] + Cardinality({h \in Handlers : handler[h].on = t /\ handler[h].topic = p})]]
    /\ handler' = [h \in Handlers |-> IdleHandler]
    /\ stopped' = FALSE
    /\ job' = [j \in Jobs |-> IdleJob]
    /\ removing' = None
    /\ UNCHANGED <<catalogue, mirror, index, history>>

\* DELETE /search/content/{id}
RemoveDoc(t) ==
    /\ Fault
    /\ Cardinality(Targets) <= 1
    /\ docs' = Without(t)
    /\ mirror' = mirror \ {t}
    /\ strayed' = strayed \union {t}
    /\ job' = Touch(t)
    /\ UNCHANGED <<catalogue, pending, handler, stopped, removing, alias, crossed, raced>>

-----------------------------------------------------------------------------
(* Rebuild: reindex_catalog, at startup or asked for by an administrator     *)

\* Faulty variant: the old version stays behind the alias.
NotRemoved(old, new) == alias \union {new}

\* One call of update_aliases adds the new index and removes the old one.
Switched(old, new) == (alias \ {old}) \union {new}

\* An index that is new has no documents.
With(v) == [d \in DOMAIN docs \union {v} |-> IF d \in DOMAIN docs THEN docs[d] ELSE NoDocs]

\* ensure_index: no alias, and no index of its name, and a first index gets it.
Start(j) ==
    /\ job[j].at = "idle"
    /\ \/ alias # {} /\ UNCHANGED index
       \/ /\ alias = {} /\ Legacy \notin DOMAIN docs
          /\ alias' = {1}
          /\ docs' = With(1)
    /\ job' = [job EXCEPT ![j] = [IdleJob EXCEPT !.at = "creating", !.old = Max(alias')]]
    /\ raced' = (raced \/ Building # {})
    /\ UNCHANGED <<catalogue, pending, handler, stopped, removing, mirror, faults, strayed,
                   crossed>>

\* _next_version: orphans of rebuilds that were interrupted count too.
NextVersion(old) == Max(DOMAIN docs \union {old}) + 1

Create(j) ==
    LET v == NextVersion(job[j].old) IN
    /\ job[j].at = "creating"
    /\ v <= MaxVersion
    /\ docs' = With(v)
    /\ job' = [job EXCEPT ![j] = [@ EXCEPT !.at = "listing", !.new = v]]
    /\ UNCHANGED <<catalogue, pending, handler, stopped, removing, mirror, faults, alias, history>>

List(j) ==
    /\ job[j].at = "listing"
    /\ job' = [job EXCEPT ![j] = [@ EXCEPT !.at = "filling", !.items = {t \in Titles : Listed(t)},
                                           !.touched = {t \in Titles : ~Quiet(t)}]]
    /\ UNCHANGED <<catalogue, pending, handler, stopped, removing, mirror, faults, index, history>>

\* The details of the titles are fetched, and their documents indexed in bulk,
\* into an index that is made if there is none of the name.
Fill(j) ==
    LET v == job[j].new IN
    /\ job[j].at = "filling"
    /\ job[j].items # {}
    /\ docs' = [d \in DOMAIN docs \union {v} |->
                   IF d # v THEN docs[d]
                   ELSE [t \in Titles |-> IF t \in job[j].items THEN Detail(t) ELSE None]]
    /\ job' = [job EXCEPT ![j] = [@ EXCEPT !.at = "switching", !.items = {}]]
    /\ UNCHANGED <<catalogue, pending, handler, stopped, removing, mirror, faults, alias, history>>

Dropped(v) == [d \in DOMAIN docs \ {v} |-> docs[d]]

\* Nothing is published, or something fails: the new index is deleted.
CleanUp(j) ==
    /\ \/ job[j].at = "filling" /\ job[j].items = {} /\ UNCHANGED faults
       \/ job[j].at \in {"listing", "filling"} /\ Fault
    /\ docs' = Dropped(job[j].new)
    /\ alias' = alias \ {job[j].new}
    /\ job' = [job EXCEPT ![j] = IdleJob]
    /\ UNCHANGED <<catalogue, pending, handler, stopped, removing, mirror, history>>

\* The switch makes good what was amiss with the titles that nothing happened to.
Switch(j) ==
    LET o == job[j].old  v == job[j].new IN
    /\ job[j].at = "switching"
    /\ {o, v} \subseteq DOMAIN docs
    /\ alias' = Switched(o, v)
    /\ \/ job' = [job EXCEPT ![j] = [@ EXCEPT !.at = "deleting"]] /\ UNCHANGED faults
       \/ Fault /\ job' = [job EXCEPT ![j] = IdleJob]
    /\ strayed' = job[j].touched
    /\ crossed' = crossed \intersect job[j].touched
    /\ UNCHANGED <<catalogue, pending, handler, stopped, removing, mirror, docs, raced>>

DeleteOld(j) ==
    /\ job[j].at = "deleting"
    /\ docs' = Dropped(job[j].old)
    /\ alias' = alias \ {job[j].old}
    /\ job' = [job EXCEPT ![j] = IdleJob]
    /\ UNCHANGED <<catalogue, pending, handler, stopped, removing, mirror, faults, history>>

\* The rebuild fails where nothing is cleaned up.
LeaveJob(j) ==
    /\ job[j].at \in {"creating", "switching", "deleting"}
    /\ Fault
    /\ job' = [job EXCEPT ![j] = IdleJob]
    /\ UNCHANGED <<catalogue, pending, handler, stopped, removing, mirror, index, history>>

\* delete_index refuses the index that the alias points to.
CheckIndex(v) ==
    /\ removing = None
    /\ Fault
    /\ v \in DOMAIN docs \ {Legacy}
    /\ alias # {} => Max(alias) # v
    /\ removing' = v
    /\ raced' = (raced \/ Building # {})
    /\ UNCHANGED <<catalogue, pending, handler, stopped, job, mirror, index, strayed, crossed>>

DeleteIndex ==
    /\ removing # None
    /\ docs' = Dropped(removing)
    /\ alias' = alias \ {removing}
    /\ removing' = None
    /\ raced' = (raced \/ Building # {})
    /\ UNCHANGED <<catalogue, pending, handler, stopped, job, mirror, faults, strayed, crossed>>

Next ==
    \/ \E r \in Requests :
        \/ \E t \in Titles, want \in Wishes : Read(r, t, want)
        \/ Commit(r) \/ Publish(r) \/ LeaveRequest(r)
    \/ \E t \in Titles :
        \/ \E h \in Handlers, p \in Gone : DeleteDoc(h, p, t)
        \/ Fetch(t) \/ RemoveDoc(t)
    \/ IndexDoc \/ Stop \/ DeadLetter \/ Restart
    \/ \E h \in Handlers : Acknowledge(h)
    \/ \E j \in Jobs :
        \/ Start(j) \/ Create(j) \/ List(j) \/ Fill(j) \/ CleanUp(j) \/ Switch(j)
        \/ DeleteOld(j) \/ LeaveJob(j)
    \/ \E v \in Indices : CheckIndex(v)
    \/ DeleteIndex

Spec == Init /\ [][Next]_vars

-----------------------------------------------------------------------------
(* Properties *)

\* Types of the variables.
TypeOK ==
    /\ status \in [Titles -> Statuses] /\ deleted \subseteq Titles
    /\ req \in [Requests -> RequestStates] /\ served \in 0 .. MaxRequests
    /\ pending \in [Topics -> [Titles -> Nat]]
    /\ handler \in [Handlers -> HandlerStates] /\ stopped \in BOOLEAN
    /\ job \in [Jobs -> JobStates] /\ removing \in Indices \union {None}
    /\ mirror \subseteq Titles /\ faults \in 0 .. MaxFaults
    /\ DOMAIN docs \subseteq Indices /\ alias \subseteq DOMAIN docs
    /\ \A v \in DOMAIN docs : docs[v] \in [Titles -> Statuses \union {None}]
    /\ strayed \subseteq Titles /\ crossed \subseteq Titles /\ raced \in BOOLEAN

\* "removed content disappears from search" (search-service events.py) and
\* "search reflects new titles" (event_consumer.py): when the events of a title
\* are consumed, search does not find what is not published, in whatever order
\* the topics were read; and it finds what the catalogue lists and no more, if no
\* event was overtaken by one of another topic.  Either way unless an event was
\* lost, or two consumers or two requests worked on the title at once.
SearchFollowsCatalogue ==
    ~raced => \A t \in Titles \ strayed : Quiet(t) =>
        /\ Found(t) => status[t] = "published"
        /\ t \notin crossed => (Found(t) <=> Listed(t))

\* "there should be exactly one" (_alias_target): the alias has one index, which
\* exists, unless rebuilds and deletions of an index overlapped.
AliasStands == ~raced => \E v \in DOMAIN docs : alias = {v}

=============================================================================
