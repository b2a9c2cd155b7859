---------------------------- MODULE UploadSession ----------------------------
(***************************************************************************)
(* The uploads service: chunked upload sessions over an object store.      *)
(*                                                                         *)
(* A request takes the row lock of its session, talks to the store while   *)
(* it holds it, and writes the row and the outbox in one transaction at    *)
(* the end.  The reaper does the same for a batch of sessions.  The store  *)
(* does not roll back.  Sessions of more than one chunk: multipart uploads *)
(* of S3StoragePort.                                                       *)
(***************************************************************************)
EXTENDS Integers

CONSTANTS
    Sessions,
    TotalChunks,      \* of a session
    Requests,         \* the requests the service handles at once
    Reaper, NoOne,
    Contents,         \* what a client may upload as a chunk
    MaxFaults         \* crashes, rollbacks and failing deletes, counted together

\* "short" has the wrong number of bytes, "corrupt" the right number but not the
\* declared checksum.
AllContents == {"good", "short", "corrupt"}

Chunks == 0 .. TotalChunks - 1

VARIABLES
    row,        \* the rows of upload_sessions and upload_chunks
    lock,       \* who holds the row lock of each session
    expired,    \* the sessions whose expires_at has passed
    events,     \* the outbox rows of each session, by topic
    store,      \* the object store, by session
    request,    \* the requests
    reaper,
    faults,
    \* history of the run, not state of the program
    leaked      \* the sessions of which a cleanup failed without saying so, and none succeeded since

vars == <<row, lock, expired, events, store, request, reaper, faults, leaked>>

-----------------------------------------------------------------------------
(* Types *)

Statuses == {"none", "initiated", "uploading", "complete", "aborted"}

\* chunks   the registered indices (uploaded_chunks is their number)
\* cleaned  storage_cleaned_at is set
Rows == [status : Statuses, chunks : SUBSET Chunks, cleaned : BOOLEAN]

Topics == {"content.uploaded", "content.uploaded.aborted"}

\* upload  the multipart upload
\* parts   the parts received for it
\* object  the final object
Stores == [upload : {"none", "open", "closed"},
           parts : [Chunks -> AllContents \union {"missing"}],
           object : AllContents \union {"missing"}]

NoParts == [i \in Chunks |-> "missing"]

RequestSteps == {"idle", "create", "register", "assemble", "verify", "abort", "aborted"}

\* ok  the cleanup of its storage reported success
RequestRecords == [step : RequestSteps, session : Sessions \union {NoOne},
                   chunk : Chunks \union {NoOne}, ok : BOOLEAN]

Idle == [step |-> "idle", session |-> NoOne, chunk |-> NoOne, ok |-> FALSE]

\* todo  the sessions of the batch that are still to be cleaned
\* held  the sessions the transaction has locked
\* ok    those whose cleanup reported success
Reapers == [step : {"idle", "expired", "uncleaned"}, todo : SUBSET Sessions,
            held : SUBSET Sessions, ok : SUBSET Sessions]

IdleReaper == [step |-> "idle", todo |-> {}, held |-> {}, ok |-> {}]

-----------------------------------------------------------------------------
(* Operators *)

\* Neither complete nor aborted.
Active(s) == row[s].status \in {"initiated", "uploading"}

LockFree(s) == lock[s] = NoOne

\* Faulty variant: the declared checksum is not compared.
SizeIsRight(object) == object \in {"good", "corrupt"}

\* The size of the final object is the declared one, and its digest too.
Verified(object) == object = "good"

Assembled(parts) ==
    IF \E i \in Chunks : parts[i] = "short" THEN "short"
    ELSE IF \E i \in Chunks : parts[i] = "corrupt" THEN "corrupt"
    ELSE "good"

EmptyStore == [upload |-> "closed", parts |-> NoParts, object |-> "missing"]

\* What cleanup_upload may leave: the delete of the object and the abort of
\* the multipart upload can each fail.
AfterCleanup(s) ==
    {EmptyStore, [EmptyStore EXCEPT !.object = store[s].object],
     [store[s] EXCEPT !.object = "missing"], store[s]}

\* The except clause of _cleanup_storage leaves storage_cleaned_at unset.
ReportsSuccess(raised) == ~raised

\* A failed delete is a fault.  The port may raise; S3StoragePort only logs
\* the failure, and returns.
Cleanup(s, left, raised) ==
    /\ left \in AfterCleanup(s)
    /\ raised => left # EmptyStore
    /\ left # EmptyStore => faults < MaxFaults
    /\ store' = [store EXCEPT ![s] = left]
    /\ faults' = IF left = EmptyStore THEN faults ELSE faults + 1
    /\ leaked' = IF left = EmptyStore THEN leaked \ {s}
                 ELSE IF raised THEN leaked ELSE leaked \union {s}

-----------------------------------------------------------------------------
(* Actions *)

Init ==
    /\ row = [s \in Sessions |-> [status |-> "none", chunks |-> {}, cleaned |-> FALSE]]
    /\ lock = [s \in Sessions |-> NoOne]
    /\ expired = {}
    /\ events = [s \in Sessions |-> [t \in Topics |-> 0]]
    /\ store = [s \in Sessions |-> [EmptyStore EXCEPT !.upload = "none"]]
    /\ request = [r \in Requests |-> Idle]
    /\ reaper = IdleReaper
    /\ faults = 0
    /\ leaked = {}

\* External: the clock.  Every session expires, SESSION_EXPIRES_HOURS after it
\* was created.
Expire(s) ==
    /\ row[s].status # "none"
    /\ expired' = expired \union {s}
    /\ UNCHANGED <<row, lock, events, store, request, reaper, faults, leaked>>

\* External: a client puts a chunk, once or again, by its signed URL.
Put(s, i, content) ==
    /\ row[s].status # "none"
    /\ store[s].upload = "open"
    /\ store' = [store EXCEPT ![s].parts[i] = content]
    /\ UNCHANGED <<row, lock, expired, events, request, reaper, faults, leaked>>

Goto(r, step) == request' = [request EXCEPT ![r].step = step]

Done(r) == request' = [request EXCEPT ![r] = Idle]

\* create_session: begin_upload, before the row is written.
Begin(r, s) ==
    /\ request[r].step = "idle"
    /\ store[s].upload = "none"
    /\ store' = [store EXCEPT ![s].upload = "open"]
    /\ request' = [request EXCEPT ![r] = [Idle EXCEPT !.step = "create", !.session = s]]
    /\ UNCHANGED <<row, lock, expired, events, reaper, faults, leaked>>

Persist(r) ==
    /\ request[r].step = "create"
    /\ row' = [row EXCEPT ![request[r].session].status = "initiated"]
    /\ Done(r)
    /\ UNCHANGED <<lock, expired, events, store, reaper, faults, leaked>>

\* The insert fails: the storage of the session is cleaned up at once.
PersistFails(r) ==
    /\ request[r].step = "create"
    /\ \E left \in AfterCleanup(request[r].session), raised \in BOOLEAN :
          Cleanup(request[r].session, left, raised)
    /\ Done(r)
    /\ UNCHANGED <<row, lock, expired, events, reaper>>

\* get_for_update and the checks that follow it, which change nothing if they fail.
Lock(r, s, step, i) ==
    /\ request[r].step = "idle"
    /\ LockFree(s)
    /\ lock' = [lock EXCEPT ![s] = r]
    /\ request' = [request EXCEPT ![r] = [step |-> step, session |-> s, chunk |-> i, ok |-> FALSE]]
    /\ UNCHANGED <<row, expired, events, store, reaper, faults, leaked>>

InRange(i) == i < TotalChunks

LockToRegister(r, s, i) ==
    /\ Active(s) /\ s \notin expired
    /\ InRange(i) /\ i \notin row[s].chunks
    /\ Lock(r, s, "register", i)

LockToComplete(r, s) ==
    /\ Active(s) /\ s \notin expired
    /\ row[s].chunks = Chunks
    /\ Lock(r, s, "assemble", NoOne)

\* abort, also of an aborted session.  create_session calls it as well, when
\* it cannot sign the URLs.
LockToAbort(r, s) ==
    /\ Active(s) \/ row[s].status = "aborted"
    /\ Lock(r, s, "abort", NoOne)

Release(s) == lock' = [lock EXCEPT ![s] = NoOne]

HasChunk(r) == store[request[r].session].parts[request[r].chunk] \notin {"missing", "short"}

\* register_chunk: the store has the chunk in its size.
Register(r) ==
    LET s == request[r].session IN
    /\ request[r].step = "register"
    /\ HasChunk(r)
    /\ row' = [row EXCEPT ![s].status = "uploading", ![s].chunks = @ \union {request[r].chunk}]
    /\ Release(s)
    /\ Done(r)
    /\ UNCHANGED <<expired, events, store, reaper, faults, leaked>>

\* list_parts of an open upload gives 1 .. N.
HasParts(s) == store[s].upload = "open" /\ \A i \in Chunks : store[s].parts[i] # "missing"

\* complete_upload: the parts are consumed.
Assemble(r) ==
    LET s == request[r].session IN
    /\ request[r].step = "assemble"
    /\ HasParts(s)
    /\ store' = [store EXCEPT ![s] = [EmptyStore EXCEPT !.object = Assembled(store[s].parts)]]
    /\ Goto(r, "verify")
    /\ UNCHANGED <<row, lock, expired, events, reaper, faults, leaked>>

Emit(s, topic) == events' = [events EXCEPT ![s][topic] = @ + 1]

\* The metadata of the final object is as declared: commit.
Complete(r) ==
    LET s == request[r].session IN
    /\ request[r].step = "verify"
    /\ Verified(store[s].object)
    /\ row' = [row EXCEPT ![s].status = "complete"]
    /\ Emit(s, "content.uploaded")
    /\ Release(s)
    /\ Done(r)
    /\ UNCHANGED <<expired, store, reaper, faults, leaked>>

\* _cleanup_storage in abort
Abort(r) ==
    LET s == request[r].session IN
    /\ request[r].step = "abort"
    /\ \E left \in AfterCleanup(s), raised \in BOOLEAN :
        /\ Cleanup(s, left, raised)
        /\ request' = [request EXCEPT ![r].step = "aborted", ![r].ok = ReportsSuccess(raised)]
    /\ UNCHANGED <<row, lock, expired, events, reaper>>

EmitAborted(s) ==
    IF row[s].status = "aborted" THEN UNCHANGED events ELSE Emit(s, "content.uploaded.aborted")

\* The row of s once it is aborted.
AbortedRow(s, ok) == [row[s] EXCEPT !.status = "aborted", !.cleaned = @ \/ ok]

CommitAbort(r) ==
    LET s == request[r].session IN
    /\ request[r].step = "aborted"
    /\ row' = [row EXCEPT ![s] = AbortedRow(s, request[r].ok)]
    /\ EmitAborted(s)
    /\ Release(s)
    /\ Done(r)
    /\ UNCHANGED <<expired, store, reaper, faults, leaked>>

\* The store has something else than the request needs.
Rejected(r) ==
    \/ request[r].step = "register" /\ ~HasChunk(r)
    \/ request[r].step = "assemble" /\ ~HasParts(request[r].session)
    \/ request[r].step = "verify" /\ ~Verified(store[request[r].session].object)

\* An exception, or the process dies: the transaction is rolled back.
Rollback(r) ==
    /\ request[r].step # "idle"
    /\ \/ Rejected(r) /\ UNCHANGED faults
       \/ ~Rejected(r) /\ faults < MaxFaults /\ faults' = faults + 1
    /\ lock' = [s \in Sessions |-> IF lock[s] = r THEN NoOne ELSE lock[s]]
    /\ Done(r)
    /\ UNCHANGED <<row, expired, events, store, reaper, leaked>>

-----------------------------------------------------------------------------
(* The reaper *)

\* FOR UPDATE SKIP LOCKED
Take(batch, step) ==
    /\ lock' = [s \in Sessions |-> IF s \in batch THEN Reaper ELSE lock[s]]
    /\ reaper' = [reaper EXCEPT !.step = step, !.todo = batch, !.held = @ \union batch]
    /\ UNCHANGED <<row, expired, events, store, request, faults, leaked>>

\* expired_sessions
ExpiredSessions == {s \in Sessions : s \in expired /\ Active(s) /\ LockFree(s)}

\* Faulty variant: nothing is retried.
NoneUncleaned == {}

\* uncleaned_aborted (CLEANUP_RETRY_GRACE_SECONDS is always over; it keeps the
\* sessions of this very transaction out, which are locked)
UncleanedAborted ==
    {s \in Sessions : row[s].status = "aborted" /\ ~row[s].cleaned /\ LockFree(s)}

StartReap ==
    /\ reaper.step = "idle"
    /\ Take(ExpiredSessions, "expired")

\* One session of the batch: its storage is cleaned up.
Reap ==
    /\ \E s \in reaper.todo : \E left \in AfterCleanup(s), raised \in BOOLEAN :
        /\ Cleanup(s, left, raised)
        /\ reaper' = [reaper EXCEPT !.todo = @ \ {s},
                                    !.ok = IF ReportsSuccess(raised) THEN @ \union {s} ELSE @]
    /\ UNCHANGED <<row, lock, expired, events, request>>

StartRetry ==
    /\ reaper.step = "expired" /\ reaper.todo = {}
    /\ Take(UncleanedAborted, "uncleaned")

\* One commit for all sessions.
CommitReap ==
    /\ reaper.step = "uncleaned" /\ reaper.todo = {}
    /\ row' = [s \in Sessions |->
                  IF s \in reaper.held THEN AbortedRow(s, s \in reaper.ok) ELSE row[s]]
    /\ events' = [s \in Sessions |->
                     IF s \in reaper.held /\ row[s].status # "aborted"
                     THEN [events[s] EXCEPT !["content.uploaded.aborted"] = @ + 1]
                     ELSE events[s]]
    /\ lock' = [s \in Sessions |-> IF lock[s] = Reaper THEN NoOne ELSE lock[s]]
    /\ reaper' = IdleReaper
    /\ UNCHANGED <<expired, store, request, faults, leaked>>

ReaperDies ==
    /\ reaper.step # "idle"
    /\ faults < MaxFaults
    /\ faults' = faults + 1
    /\ lock' = [s \in Sessions |-> IF lock[s] = Reaper THEN NoOne ELSE lock[s]]
    /\ reaper' = IdleReaper
    /\ UNCHANGED <<row, expired, events, store, request, leaked>>

ReaperStep == StartReap \/ Reap \/ StartRetry \/ CommitReap

\* What a request in hand does next.
Handle(r) ==
    \/ Persist(r)
    \/ PersistFails(r)
    \/ Register(r)
    \/ Assemble(r)
    \/ Complete(r)
    \/ Abort(r)
    \/ CommitAbort(r)
    \/ Rollback(r)

Receive(r, s) ==
    \/ Begin(r, s)
    \/ \E i \in 0 .. TotalChunks : LockToRegister(r, s, i)
    \/ LockToComplete(r, s)
    \/ LockToAbort(r, s)

Next ==
    \/ \E s \in Sessions : Expire(s)
    \/ \E s \in Sessions, i \in Chunks, content \in Contents : Put(s, i, content)
    \/ \E r \in Requests : Handle(r) \/ \E s \in Sessions : Receive(r, s)
    \/ ReaperStep
    \/ ReaperDies

Spec == Init /\ [][Next]_vars

\* Time passes, requests end, and _background_workers runs the reaper for ever.
\* A client need not do anything.
FairSpec ==
    /\ Spec
    /\ \A s \in Sessions : WF_vars(Expire(s))
    /\ \A r \in Requests : WF_vars(Handle(r))
    /\ WF_vars(ReaperStep)

-----------------------------------------------------------------------------
(* Properties *)

TypeOK ==
    /\ row \in [Sessions -> Rows]
    /\ lock \in [Sessions -> Requests \union {Reaper, NoOne}]
    /\ expired \subseteq Sessions
    /\ events \in [Sessions -> [Topics -> Nat]]
    /\ store \in [Sessions -> Stores]
    /\ request \in [Requests -> RequestRecords]
    /\ reaper \in Reapers
    /\ faults \in 0 .. MaxFaults
    /\ leaked \subseteq Sessions

\* The object of a complete session is there, with the declared size and
\* checksum: no later request and no cleanup takes it away.
CompleteIsStored ==
    \A s \in Sessions : row[s].status = "complete" => store[s].object = "good"

\* storage_cleaned_at is "set when object-storage cleanup for this session has
\* fully succeeded": nothing of the session is left in the store, unless its
\* cleanup failed without saying so.
CleanedIsEmpty ==
    \A s \in Sessions \ leaked : row[s].cleaned => store[s] = EmptyStore

\* The rows and the store agree: what is complete is there, what is cleaned is not.
StoreMatches == CompleteIsStored /\ CleanedIsEmpty

\* A session ends complete, or aborted with an empty store, whatever its
\* client does and however often its cleanup fails at first, unless it failed
\* without saying so.
EverySessionEnds ==
    \A s \in Sessions :
        row[s].status # "none"
            ~> \/ row[s].status = "complete"
               \/ row[s].status = "aborted" /\ (store[s] = EmptyStore \/ s \in leaked)

=============================================================================
