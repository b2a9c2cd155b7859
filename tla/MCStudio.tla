------------------------------ MODULE MCStudio ------------------------------
(***************************************************************************)
(* Instances of what creators depend on, for TLC: the drains of an outbox  *)
(* (Outbox), the reaper of the upload sessions (UploadSession), the jobs   *)
(* of their uploads (PipelineJob) and their accounts (Creators).  No two   *)
(* of them share state: a run checks those of Sides side by side, each     *)
(* with the others at rest.                                                *)
(***************************************************************************)
EXTENDS Outbox, TLC

CONSTANTS
    Sides,                                                             \* the modules of the run
    Sessions, TotalChunks, Requests, Reaper, NoOne, Contents, UploadFaults,  \* UploadSession
    Keys, NoKey, Uploads, NoUpload, Advancers, Processes, ProcessOf, StageCount,  \* PipelineJob
    Critical, MaxAttempts, MaxRetries, MaxActive, Threshold,
    Periods, Thresholds, Events, Calls, Drainers, None, PoolPercent, BatchLimit,  \* Creators
    Floors, Earnings, Fees, MaxCalls, MaxAborts,
    k1, k2, r1, r2, r3, p1, p2

VARIABLES
    session, lock, expired, events, store, request, reaper, mishaps, leaked,
    job, outbox, files, tx, active, breaker,
    account, floor, pool, ledger, film, part, event, call, worker, overtaken, calls, aborts,
    side        \* the module that takes the steps of this behavior

U == INSTANCE UploadSession WITH MaxFaults <- UploadFaults, row <- session, faults <- mishaps

J == INSTANCE PipelineJob WITH Requests <- Advancers

C == INSTANCE Creators
        WITH milestone <- film, tranche <- part, req <- call, served <- calls, faults <- aborts,
             Requests <- Calls, Workers <- Drainers, MaxRequests <- MaxCalls, MaxFaults <- MaxAborts

\* A row lock is free, the reaper's or a request's.
ASSUME HoldersAssumption == NoOne # Reaper /\ NoOne \notin Requests /\ Reaper \notin Requests

ASSUME PipelineAssumption ==
    /\ NoKey \notin Keys
    /\ NoUpload \notin Uploads
    /\ IsFiniteSet(Advancers)
    /\ ProcessOf \in [Advancers -> Processes]
    /\ StageCount \in Nat \ {0}
    /\ Critical \subseteq J!Stages
    /\ MaxAttempts \in Nat \ {0} /\ MaxRetries \in Nat \ {0}
    /\ MaxActive \in Nat \ {0} /\ Threshold \in Nat \ {0}

ASSUME CreatorsAssumption ==
    /\ IsFiniteSet(Periods)
    /\ None \notin C!Payouts \union C!Balances \union {"released"}
    /\ Floors \subseteq Nat /\ Earnings \subseteq Nat /\ Fees \subseteq Nat
    /\ PoolPercent \in 0 .. 100

uploads == <<session, lock, expired, events, store, request, reaper, mishaps, leaked>>

jobs == <<job, outbox, files, tx, active, breaker>>

creators == <<account, floor, pool, ledger, film, part, event, call, worker, overtaken, calls, aborts>>

SideInit == Init /\ U!Init /\ J!Init /\ C!Init /\ side \in Sides

OfOutbox(Step) == side = "outbox" /\ Step /\ UNCHANGED <<side, uploads, jobs, creators>>

OfUploads(Step) == side = "uploads" /\ Step /\ UNCHANGED <<side, vars, jobs, creators>>

OfJobs(Step) == side = "jobs" /\ Step /\ UNCHANGED <<side, vars, uploads, creators>>

OfCreators(Step) == side = "creators" /\ Step /\ UNCHANGED <<side, vars, uploads, jobs>>

SideNext == OfOutbox(Next) \/ OfUploads(U!Next) \/ OfJobs(J!Next) \/ OfCreators(C!Next)

sides == <<side, vars, uploads, jobs, creators>>

SideSpec == SideInit /\ [][SideNext]_sides

\* The fairness of Outbox!FairSpec and UploadSession!FairSpec
FairSideSpec ==
    /\ SideSpec
    /\ \A w \in Workers : WF_sides(OfOutbox(Drain(w)))
    /\ \A s \in Sessions : WF_sides(OfUploads(U!Expire(s)))
    /\ \A r \in Requests : WF_sides(OfUploads(U!Handle(r)))
    /\ WF_sides(OfUploads(U!ReaperStep))

\* Of the jobs' requests, two share a process and a third has its own.
TwoProcesses == [w \in Advancers |-> IF w = r3 THEN p2 ELSE p1]

FirstCritical == {1}

\* The requests and workers of the creators bear the names of two requests and of
\* the keys, so that one set of permutations is enough.
Symmetry == Permutations(Keys) \union Permutations({r1, r2})

\* The object of a complete session is there, and a cleaned one has none (UploadSession).
StoreMatches == U!StoreMatches

\* Every session ends complete, or aborted with nothing left behind (UploadSession).
EverySessionEnds == U!EverySessionEnds

\* The outbox tells the history of a job, and the semaphores of a process count the
\* jobs it runs (PipelineJob).
JobsAreAccounted == J!EventsMatchTheJob /\ J!SlotsAreTrue

\* No request takes back what another one has committed for a job (PipelineJob).
ProgressIsKept == J!ProgressIsKept

\* The pool balance of a creator moves with its ledger, and neither does once the
\* creator is suspended, whatever overlaps; and a released tranche stays released,
\* unless it was released while a kill was under way (Creators).
CreatorsArePaid == C!PayoutsAreDue /\ C!ReleasedStays

=============================================================================
