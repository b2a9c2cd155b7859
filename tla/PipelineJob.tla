----------------------------- MODULE PipelineJob -----------------------------
(***************************************************************************)
(* Jobs of the media pipeline: MediaPipelineService.start_job and advance. *)
(*                                                                         *)
(* A request finds or creates the job of an upload and then runs the       *)
(* stages that are left, all in one transaction that holds the row lock of *)
(* the job.  The transaction commits when the job fails or completes, and  *)
(* when the request leaves it at the concurrency limit, at an open circuit *)
(* breaker or because it was cancelled.  The database may end it sooner: a *)
(* session that is idle in a transaction for 30 s is terminated, while a   *)
(* stage may run for an hour.  The worker notices when the stage returns.  *)
(*                                                                         *)
(* Retry times are counted in failed attempts.  All uploads are one        *)
(* creator's.  The limit and the circuit breakers are those of a process.  *)
(***************************************************************************)
EXTENDS Integers, FiniteSets

CONSTANTS
    Keys,           \* idempotency keys; a key names the job it made
    NoKey,
    Uploads,
    NoUpload,
    Requests,       \* requests in flight at the same time
    Processes,
    ProcessOf,      \* the process that serves each request
    StageCount,     \* DEFAULT_STAGE_ORDER
    Critical,       \* the stages that are not best-effort
    MaxAttempts,    \* PIPELINE_MAX_STAGE_ATTEMPTS
    MaxRetries,     \* PIPELINE_MAX_TOTAL_RETRY_TIME_SECONDS, in failed attempts
    MaxActive,      \* PIPELINE_MAX_JOBS_PER_CREATOR
    Threshold       \* PIPELINE_CIRCUIT_BREAKER_THRESHOLD

Stages == 1 .. StageCount

VARIABLES
    job,      \* pipeline_jobs: the committed row of each key
    outbox,   \* outbox_events: how many committed rows of each topic a job has
    files,    \* the stages whose output is in the job's work directory
    tx,       \* the request and its transaction
    active,   \* _creator_concurrency of each process
    breaker   \* _circuit_breaker of each process

vars == <<job, outbox, files, tx, active, breaker>>

-----------------------------------------------------------------------------
(* Types *)

Statuses == {"none", "pending", "running", "failed", "completed"}

Terminal == {"failed", "completed"}

\* The success event of each stage; 0 is content.pipeline.failed, the last one
\* content.published (with content.packaged, enqueued by the same statement block).
Failed == 0
Published == StageCount + 1
Topics == Failed .. Published

\* done   stage_versions: stages are run in order, so it is how many are done
\* spent  _total_retry_time_seconds in the job's context
Jobs == [status : Statuses, upload : Uploads \union {NoUpload}, done : 0 .. StageCount,
         spent : 0 .. MaxRetries, leased : BOOLEAN]

NoJob == [status |-> "none", upload |-> NoUpload, done |-> 0, spent |-> 0, leased |-> FALSE]

\* step  creating  the lookups found nothing
\*       ready     the job is there
\*       locked    it has the row lock and the lease
\*       next      it is counted, and between two stages
\*       running   it runs a stage
\*       lost      it runs a stage, or is between two; the database has
\*                 rolled its transaction back, with all that it wrote
\*       ending    it has committed the job's end
\* done, spent, events: what its transaction has written to the row and the outbox
Transactions ==
    [step : {"idle", "creating", "ready", "locked", "next", "running", "lost", "ending"},
     key : Keys \union {NoKey}, upload : Uploads \union {NoUpload}, done : 0 .. StageCount,
     spent : 0 .. MaxRetries, attempt : 0 .. MaxAttempts, events : [Topics -> Nat]]

NoEvents == [t \in Topics |-> 0]

Idle == [step |-> "idle", key |-> NoKey, upload |-> NoUpload, done |-> 0,
         spent |-> 0, attempt |-> 0, events |-> NoEvents]

-----------------------------------------------------------------------------
(* Rows, locks and counters *)

Me(w) == ProcessOf[w]

Job(w) == job[tx[w].key]

Exists(k) == job[k].status # "none"

\* get_by_upload_session
ByUpload(u) == {k \in Keys : Exists(k) /\ job[k].upload = u}

\* Faulty variant: a failed job is taken up again.
NotCompleted(k) == job[k].status \in {"pending", "running", "failed"}

Runnable(k) == job[k].status \in {"pending", "running"}

\* FOR UPDATE SKIP LOCKED finds the row only if no open transaction has it.
RowFree(w, k) ==
    \A v \in Requests \ {w} :
        tx[v].step \in {"locked", "next", "running"} => tx[v].key # k

\* _decrement_concurrency
Decremented(p) == [active EXCEPT ![p] = IF @ > 0 THEN @ - 1 ELSE 0]

\* Faulty variant: an unfinished job does not keep what was done.
DoneNotKept(w, status, leased) ==
    [Job(w) EXCEPT !.status = status, !.spent = tx[w].spent, !.leased = leased]

\* The row as the transaction commits it.
Saved(w, status, leased) ==
    [Job(w) EXCEPT !.status = status, !.done = tx[w].done, !.spent = tx[w].spent,
                   !.leased = leased]

\* _check_circuit_breaker, for the next stage
BreakerClosed(w) == breaker[Me(w)][tx[w].done + 1] < Threshold

LastAttempt(d) == d.attempt = MaxAttempts

\* The retry time of the job if the attempt under way fails.
SpentIfFails(d) == d.spent + d.attempt

Enqueued(d, t) == [d.events EXCEPT ![t] = @ + 1]

\* The stage is done and its event is enqueued; spent is the job's retry time.
StageDone(d, spent) ==
    [d EXCEPT !.step = "next", !.done = @ + 1, !.spent = spent, !.attempt = 0,
              !.events = Enqueued(d, d.done + 1)]

\* A stage reads the outputs of the critical stages before it.
HasInputs(w) == Critical \intersect 1 .. tx[w].done \subseteq files[tx[w].key]

Stage(w) == tx[w].done + 1

Fails(w) == tx[w].step = "running"

-----------------------------------------------------------------------------
(* start_job: both lookups are one step, since a row that appears between   *)
(* them is found by the second one all the same                              *)

Init ==
    /\ job = [k \in Keys |-> NoJob]
    /\ outbox = [k \in Keys |-> NoEvents]
    /\ files = [k \in Keys |-> {}]
    /\ tx = [w \in Requests |-> Idle]
    /\ active = [p \in Processes |-> 0]
    /\ breaker = [p \in Processes |-> [s \in Stages |-> 0]]

Enter(w, step, k, u) ==
    /\ tx' = [tx EXCEPT ![w] = [Idle EXCEPT !.step = step, !.key = k, !.upload = u]]
    /\ UNCHANGED <<job, outbox, files, active, breaker>>

\* A key that belongs to another upload is an IdempotencyConflict: no step.
FoundByKey(w, k, u) ==
    /\ tx[w] = Idle
    /\ Exists(k) /\ job[k].upload = u
    /\ Enter(w, "ready", k, u)

\* scalar_one_or_none raises if the upload has two jobs: no step.
FoundByUpload(w, k, u) ==
    /\ tx[w] = Idle
    /\ ~Exists(k)
    /\ \E j \in Keys : ByUpload(u) = {j} /\ Enter(w, "ready", j, u)

NotFound(w, k, u) ==
    /\ tx[w] = Idle
    /\ ~Exists(k)
    /\ ByUpload(u) = {}
    /\ active[Me(w)] < MaxActive
    /\ Enter(w, "creating", k, u)

Create(w) ==
    LET k == tx[w].key IN
    /\ tx[w].step = "creating"
    /\ ~Exists(k)
    /\ job' = [job EXCEPT ![k] = [NoJob EXCEPT !.status = "pending", !.upload = tx[w].upload]]
    /\ tx' = [tx EXCEPT ![w].step = "ready"]
    /\ UNCHANGED <<outbox, files, active, breaker>>

\* The unique index on idempotency_key.
CreateConflicts(w) ==
    /\ tx[w].step = "creating"
    /\ Exists(tx[w].key)
    /\ tx' = [tx EXCEPT ![w] = Idle]
    /\ UNCHANGED <<job, outbox, files, active, breaker>>

-----------------------------------------------------------------------------
(* advance: the lease, the limit, the loop over the stages                   *)

\* A lease that is committed with the row may have expired.
Acquire(w) ==
    LET k == tx[w].key IN
    /\ tx[w].step = "ready"
    /\ Runnable(k)
    /\ RowFree(w, k)
    /\ tx' = [tx EXCEPT ![w] = [@ EXCEPT !.step = "locked", !.done = job[k].done,
                                         !.spent = job[k].spent, !.events = outbox[k]]]
    /\ UNCHANGED <<job, outbox, files, active, breaker>>

\* The job has ended, its row is locked, or its lease has not expired.
Decline(w) ==
    LET k == tx[w].key IN
    /\ tx[w].step = "ready"
    /\ ~Runnable(k) \/ ~RowFree(w, k) \/ job[k].leased
    /\ tx' = [tx EXCEPT ![w] = Idle]
    /\ UNCHANGED <<job, outbox, files, active, breaker>>

Admit(w) ==
    /\ tx[w].step = "locked"
    /\ active[Me(w)] < MaxActive
    /\ active' = [active EXCEPT ![Me(w)] = @ + 1]
    /\ tx' = [tx EXCEPT ![w].step = "next"]
    /\ UNCHANGED <<job, outbox, files, breaker>>

\* The row and the outbox as the transaction leaves them.
Commit(w, status, leased, events) ==
    /\ job' = [job EXCEPT ![tx[w].key] = Saved(w, status, leased)]
    /\ outbox' = [outbox EXCEPT ![tx[w].key] = events]

\* ConcurrencyLimitExceeded: the job stays RUNNING, without a lease.
Refuse(w) ==
    /\ tx[w].step = "locked"
    /\ active[Me(w)] >= MaxActive
    /\ Commit(w, "running", FALSE, tx[w].events)
    /\ tx' = [tx EXCEPT ![w] = Idle]
    /\ UNCHANGED <<files, active, breaker>>

\* The finally clause, for a job that has not ended.
Leave(w) ==
    /\ Commit(w, "running", FALSE, tx[w].events)
    /\ active' = Decremented(Me(w))
    /\ tx' = [tx EXCEPT ![w] = Idle]

\* The job fails and commits; the finally clause is a transaction of its own.
Fail(w) ==
    /\ Commit(w, "failed", TRUE, Enqueued(tx[w], Failed))
    /\ files' = [files EXCEPT ![tx[w].key] = {}]
    /\ tx' = [tx EXCEPT ![w].step = "ending"]
    /\ UNCHANGED active

Begin(w) ==
    /\ tx[w].step = "next"
    /\ tx[w].done < StageCount
    /\ BreakerClosed(w)
    /\ tx' = [tx EXCEPT ![w].step = "running", ![w].attempt = 1]
    /\ UNCHANGED <<job, outbox, files, active, breaker>>

\* CircuitBreakerOpen leaves advance through the finally clause only.
BreakerOpen(w) ==
    /\ tx[w].step = "next"
    /\ tx[w].done < StageCount
    /\ ~BreakerClosed(w)
    /\ Leave(w)
    /\ UNCHANGED <<files, breaker>>

Succeed(w) ==
    /\ tx[w].step = "running"
    /\ HasInputs(w)
    /\ tx' = [tx EXCEPT ![w] = StageDone(@, @.spent + @.attempt - 1)]
    /\ files' = [files EXCEPT ![tx[w].key] = @ \union {Stage(w)}]
    /\ breaker' = [breaker EXCEPT ![Me(w)][Stage(w)] = 0]
    /\ UNCHANGED <<job, outbox, active>>

Retry(w) ==
    /\ Fails(w)
    /\ ~LastAttempt(tx[w])
    /\ SpentIfFails(tx[w]) < MaxRetries
    /\ tx' = [tx EXCEPT ![w].attempt = @ + 1]
    /\ UNCHANGED <<job, outbox, files, active, breaker>>

\* A best-effort stage that has used its attempts counts as done: its event is
\* enqueued, and the failure that was recorded with the breaker is reset.
Skip(w) ==
    /\ Fails(w)
    /\ LastAttempt(tx[w])
    /\ Stage(w) \notin Critical
    /\ SpentIfFails(tx[w]) < MaxRetries
    /\ tx' = [tx EXCEPT ![w] = StageDone(@, SpentIfFails(@))]
    /\ breaker' = [breaker EXCEPT ![Me(w)][Stage(w)] = 0]
    /\ UNCHANGED <<job, outbox, files, active>>

Exhausted(w) ==
    /\ Fails(w)
    /\ LastAttempt(tx[w])
    /\ Stage(w) \in Critical
    /\ SpentIfFails(tx[w]) < MaxRetries
    /\ breaker' = [breaker EXCEPT ![Me(w)][Stage(w)] = @ + 1]
    /\ Fail(w)

\* TotalRetryTimeExceeded
OutOfTime(w) ==
    /\ Fails(w)
    /\ SpentIfFails(tx[w]) >= MaxRetries
    /\ Fail(w)
    /\ UNCHANGED breaker

\* PipelineNonRetryable: the stage has run, and the job is over its disk quota.
OverQuota(w) ==
    /\ tx[w].step = "running"
    /\ HasInputs(w)
    /\ Fail(w)
    /\ UNCHANGED breaker

\* The finally clause, for a transaction that is gone or cannot commit.
RolledBack(w) ==
    /\ active' = Decremented(Me(w))
    /\ tx' = [tx EXCEPT ![w] = Idle]
    /\ UNCHANGED <<job, outbox>>

\* CancelledError: the work directory is removed; what was done is committed,
\* unless the cancellation reaches the commit as well.
Cancel(w) ==
    /\ tx[w].step = "running"
    /\ files' = [files EXCEPT ![tx[w].key] = {}]
    /\ Leave(w) \/ RolledBack(w)
    /\ UNCHANGED breaker

\* The job completes; the work directory is removed after the commit.
Complete(w) ==
    /\ tx[w].step = "next"
    /\ tx[w].done = StageCount
    /\ Commit(w, "completed", TRUE, Enqueued(tx[w], Published))
    /\ files' = [files EXCEPT ![tx[w].key] = {}]
    /\ tx' = [tx EXCEPT ![w].step = "ending"]
    /\ UNCHANGED <<active, breaker>>

\* The finally clause after the end of a job.
End(w) ==
    /\ tx[w].step = "ending"
    /\ job' = [job EXCEPT ![tx[w].key].leased = FALSE]
    /\ active' = Decremented(Me(w))
    /\ tx' = [tx EXCEPT ![w] = Idle]
    /\ UNCHANGED <<outbox, files, breaker>>

-----------------------------------------------------------------------------
(* Faults *)

\* idle_in_transaction_session_timeout, or a lost connection.
Lose(w) ==
    /\ tx[w].step \in {"locked", "next", "running"}
    /\ tx' = [tx EXCEPT ![w] = IF @.step = "locked" THEN Idle
                               ELSE [Idle EXCEPT !.step = "lost", !.key = tx[w].key]]
    /\ UNCHANGED <<job, outbox, files, active, breaker>>

\* The first statement on the lost transaction raises.
Unwind(w) ==
    /\ tx[w].step = "lost"
    /\ RolledBack(w)
    /\ UNCHANGED <<files, breaker>>

\* A process dies with its counters; its requests are rolled back.
Crash(p) ==
    /\ tx' = [w \in Requests |-> IF Me(w) = p THEN Idle ELSE tx[w]]
    /\ active' = [active EXCEPT ![p] = 0]
    /\ breaker' = [breaker EXCEPT ![p] = [s \in Stages |-> 0]]
    /\ UNCHANGED <<job, outbox, files>>

Start(w) ==
    \/ \E k \in Keys, u \in Uploads :
           FoundByKey(w, k, u) \/ FoundByUpload(w, k, u) \/ NotFound(w, k, u)
    \/ Create(w) \/ CreateConflicts(w)

Advance(w) ==
    \/ Acquire(w) \/ Decline(w) \/ Admit(w) \/ Refuse(w)
    \/ Begin(w) \/ BreakerOpen(w) \/ Succeed(w) \/ Retry(w) \/ Skip(w) \/ Exhausted(w)
    \/ OutOfTime(w) \/ OverQuota(w) \/ Complete(w) \/ End(w)

Next ==
    \/ \E w \in Requests : Start(w) \/ Advance(w) \/ Cancel(w) \/ Lose(w) \/ Unwind(w)
    \/ \E p \in Processes : Crash(p)

Spec == Init /\ [][Next]_vars

-----------------------------------------------------------------------------
(* Properties *)

TypeOK ==
    /\ job \in [Keys -> Jobs]
    /\ outbox \in [Keys -> [Topics -> Nat]]
    /\ files \in [Keys -> SUBSET Stages]
    /\ tx \in [Requests -> Transactions]
    /\ active \in [Processes -> Nat]
    /\ breaker \in [Processes -> [Stages -> Nat]]

\* "Job state + all outbox events enqueued above commit atomically" (advance):
\* whatever crashes, is cancelled or resumed, the outbox of a job tells its
\* history: one event for each stage that is done, one for its end.
EventsMatchTheJob ==
    \A k \in Keys :
        /\ \A s \in Stages : outbox[k][s] = IF s <= job[k].done THEN 1 ELSE 0
        /\ outbox[k][Failed] = IF job[k].status = "failed" THEN 1 ELSE 0
        /\ outbox[k][Published] = IF job[k].status = "completed" THEN 1 ELSE 0

\* "advance resumes from the last completed stage" (MediaPipelineService): no
\* request takes back what another one has committed, and an end is final.
ProgressIsKept ==
    [][\A k \in Keys :
        /\ job'[k].done >= job[k].done
        /\ job[k].status \in Terminal => job'[k].status = job[k].status]_vars

Counted(w) == tx[w].step \in {"next", "running", "lost", "ending"}

\* Through every exit of advance the counter of a process is the number of
\* requests that run stages in it, and so no more than the limit: no slot leaks.
SlotsAreTrue ==
    \A p \in Processes :
        /\ active[p] = Cardinality({w \in Requests : Me(w) = p /\ Counted(w)})
        /\ active[p] <= MaxActive

=============================================================================
