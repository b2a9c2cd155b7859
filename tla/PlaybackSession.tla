--------------------------- MODULE PlaybackSession ---------------------------
(***************************************************************************)
(* Playback sessions of the streaming service and the limit on those a     *)
(* user may have active: StreamingService and PlaybackSessionRepository.   *)
(*                                                                         *)
(* A request reads its session, takes the advisory lock of the user, ends  *)
(* the user's idle sessions and counts the active ones; then it decides,   *)
(* writes and commits, which releases the lock.  What it has ended is      *)
(* visible to the others when it commits, and undone if it is refused.     *)
(***************************************************************************)
EXTENDS Integers, FiniteSets

CONSTANTS
    Sessions,
    Users,
    UserOf,       \* the user of each session
    MaxActive,    \* MAX_ACTIVE_SESSIONS
    IdleTimeout,  \* PLAYBACK_SESSION_IDLE_TIMEOUT_MINUTES, in clock ticks
    Requests,     \* requests in flight at the same time
    NoSession,
    MaxTime       \* bound of the model: the clock stops there

ASSUME PlaybackAssumption ==
    /\ IsFiniteSet(Sessions)
    /\ UserOf \in [Sessions -> Users]
    /\ MaxActive \in Nat \ {0}
    /\ IdleTimeout \in Nat
    /\ NoSession \notin Sessions
    /\ MaxTime \in Nat

VARIABLES
    status,   \* playback_session: the committed status, "none" before the row exists
    touched,  \* last_activity_at of each session
    tx,       \* the transaction of each request
    now       \* the clock

vars == <<status, touched, tx, now>>

-----------------------------------------------------------------------------
(* Types *)

Terminal == {"completed", "interrupted"}

Statuses == {"none", "active", "paused"} \union Terminal

Wishes == {"unset", "active", "paused"} \union Terminal

\* step     it waits for the advisory lock, or has it and has counted
\* reaped   the idle sessions it has ended
\* count    the active sessions it has counted
Transactions ==
    [step : {"waiting", "counted"}, kind : {"start", "update", "end"}, session : Sessions,
     wish : Wishes, reaped : SUBSET Sessions, count : Nat]

Closed == [step |-> "closed", kind |-> "end", session |-> NoSession, wish |-> "unset", reaped |-> {},
           count |-> 0]

Opened(kind, s, wish) ==
    [step |-> "waiting", kind |-> kind, session |-> s, wish |-> wish, reaped |-> {}, count |-> 0]

-----------------------------------------------------------------------------
(* Sessions of a user *)

ActiveOf(u) == {s \in Sessions : UserOf[s] = u /\ status[s] = "active"}

\* The rows the UPDATE of count_active_sessions_locked matches.
IdleOf(u) == {s \in ActiveOf(u) : touched[s] + IdleTimeout < now}

User(w) == UserOf[tx[w].session]

\* Faulty variant: no advisory lock is taken.
NoLock(w) == TRUE

\* pg_advisory_xact_lock: no open transaction has the lock of this user.
LockFree(w) ==
    \A v \in Requests \ {w} : tx[v].step = "counted" => User(v) # User(w)

\* The status of its session after refresh: the transaction sees its own UPDATE.
Refreshed(w) ==
    IF tx[w].session \in tx[w].reaped THEN "completed" ELSE status[tx[w].session]

\* Faulty variant: the session that was active last.
Newest(w) ==
    LET active == ActiveOf(User(w)) \ tx[w].reaped IN
    {s \in active : \A o \in active : touched[o] <= touched[s]}

\* get_oldest_active; those with the same last_activity_at are ordered by id.
Oldest(w) ==
    LET active == ActiveOf(User(w)) \ tx[w].reaped IN
    {s \in active : \A o \in active : touched[s] <= touched[o]}

\* What update writes to the status: fields that are not set are left alone.
Written(w) ==
    IF tx[w].kind = "end" THEN "completed"
    ELSE IF tx[w].wish = "unset" THEN Refreshed(w)
    ELSE tx[w].wish

\* The committed statuses once the sessions S have been ended.
Ended(S) == [s \in Sessions |-> IF s \in S THEN "completed" ELSE status[s]]

-----------------------------------------------------------------------------
(* Actions *)

Init ==
    /\ status = [s \in Sessions |-> "none"]
    /\ touched = [s \in Sessions |-> 0]
    /\ tx = [w \in Requests |-> Closed]
    /\ now = 0

\* POST /playback-sessions; the new row is s.
Start(w, s) ==
    /\ tx[w] = Closed
    /\ status[s] = "none"
    /\ \A v \in Requests : tx[v].session # s
    /\ tx' = [tx EXCEPT ![w] = Opened("start", s, "unset")]
    /\ UNCHANGED <<status, touched, now>>

\* PATCH /playback-sessions/{id}, POST /playback-sessions/{id}/end.
Request(w, s, kind, wish) ==
    /\ tx[w] = Closed
    /\ status[s] # "none"
    /\ tx' = [tx EXCEPT ![w] = Opened(kind, s, wish)]
    /\ UNCHANGED <<status, touched, now>>

\* count_active_sessions_locked.
Count(w) ==
    LET idle == IdleOf(User(w)) IN
    /\ tx[w].step = "waiting"
    /\ LockFree(w)
    /\ tx' = [tx EXCEPT ![w].step = "counted",
                        ![w].reaped = idle,
                        ![w].count = Cardinality(ActiveOf(User(w)) \ idle)]
    /\ UNCHANGED <<status, touched, now>>

Counted(w, kind) == tx[w].step = "counted" /\ tx[w].kind = kind

Commit(w, newStatus, newTouched) ==
    /\ status' = newStatus
    /\ touched' = newTouched
    /\ tx' = [tx EXCEPT ![w] = Closed]
    /\ UNCHANGED now

Rollback(w) ==
    /\ tx' = [tx EXCEPT ![w] = Closed]
    /\ UNCHANGED <<status, touched, now>>

\* start_playback_session below the limit.
Admit(w) ==
    LET s == tx[w].session IN
    /\ Counted(w, "start")
    /\ tx[w].count < MaxActive
    /\ Commit(w, [Ended(tx[w].reaped) EXCEPT ![s] = "active"], [touched EXCEPT ![s] = now])

\* start_playback_session at the limit: the oldest session makes room.
\* mark_completed ends the sessions that have become idle since, too.
Replace(w) ==
    LET s == tx[w].session IN
    /\ Counted(w, "start")
    /\ tx[w].count >= MaxActive
    /\ \E o \in Oldest(w) :
         Commit(w, [Ended(tx[w].reaped \union IdleOf(User(w)) \union {o}) EXCEPT ![s] = "active"],
                [touched EXCEPT ![s] = now])

\* The session has ended and the request asks for nothing else.
AlreadyEnded(w) ==
    /\ \/ Counted(w, "end")
       \/ Counted(w, "update") /\ tx[w].wish \in {"unset", Refreshed(w)}
    /\ Refreshed(w) \in Terminal
    /\ Commit(w, Ended(tx[w].reaped), touched)

Resumes(w) == tx[w].wish = "active" /\ Refreshed(w) # "active"

\* update_playback_session answers 409: the session has ended, or there is no
\* room to resume it.
Refuse(w) ==
    /\ Counted(w, "update")
    /\ \/ Refreshed(w) \in Terminal /\ tx[w].wish \notin {"unset", Refreshed(w)}
       \/ Refreshed(w) \notin Terminal /\ Resumes(w) /\ tx[w].count >= MaxActive
    /\ Rollback(w)

\* The row is updated.  A request that changes no column of it makes no UPDATE
\* and leaves last_activity_at alone.
Change(w) ==
    LET s == tx[w].session IN
    /\ tx[w].step = "counted" /\ tx[w].kind # "start"
    /\ Refreshed(w) \notin Terminal
    /\ tx[w].kind = "update" /\ Resumes(w) => tx[w].count < MaxActive
    /\ \E time \in {now} \union {t \in {touched[s]} : Written(w) = status[s]} :
         Commit(w, [Ended(tx[w].reaped) EXCEPT ![s] = Written(w)], [touched EXCEPT ![s] = time])

\* A statement fails, the wait for the lock times out, or the process dies.
Abort(w) ==
    /\ tx[w] # Closed
    /\ Rollback(w)

Tick ==
    /\ now < MaxTime
    /\ now' = now + 1
    /\ UNCHANGED <<status, touched, tx>>

Next ==
    \/ \E w \in Requests, s \in Sessions :
         \/ Start(w, s)
         \/ \E wish \in Wishes : Request(w, s, "update", wish)
         \/ Request(w, s, "end", "unset")
    \/ \E w \in Requests :
         \/ Count(w)
         \/ Admit(w)
         \/ Replace(w)
         \/ AlreadyEnded(w)
         \/ Refuse(w)
         \/ Change(w)
         \/ Abort(w)
    \/ Tick

Spec == Init /\ [][Next]_vars

-----------------------------------------------------------------------------
(* Properties *)

TypeOK ==
    /\ status \in [Sessions -> Statuses]
    /\ touched \in [Sessions -> Nat]
    /\ tx \in [Requests -> Transactions \union {Closed}]
    /\ now \in 0 .. MaxTime

\* "Atomic check" (start_playback_session): starts and resumes that count at the
\* same time never leave a user with more active sessions than allowed.
WithinLimit == \A u \in Users : Cardinality(ActiveOf(u)) <= MaxActive

\* "End a session once" (mark_completed): a request that read a session before
\* another ended it cannot bring it back.
EndedIsFinal ==
    [][\A s \in Sessions : status[s] \in Terminal => status'[s] = status[s]]_vars

\* A client has asked for the end of s and is answered in this step.
Asked(s) ==
    \E w \in Requests :
        /\ tx[w].session = s /\ tx'[w] = Closed
        /\ tx[w].kind = "end" \/ tx[w].wish = "completed"

\* A start of the user of s is answered in this step, at the limit, and no
\* session of theirs has been idle for longer.
MakesRoom(s) ==
    /\ \E w \in Requests :
         tx[w].kind = "start" /\ tx'[w] = Closed /\ tx[w].session # NoSession /\ User(w) = UserOf[s]
    /\ Cardinality(ActiveOf(UserOf[s])) = MaxActive
    /\ \A o \in ActiveOf(UserOf[s]) : touched[s] <= touched[o]

\* "Newest-device-wins: end the OLDEST active session" (start_playback_session):
\* an active session is ended for one reason only: its client asked, it was
\* idle, or it was the oldest at the limit.
EndedForAReason ==
    [][\A s \in Sessions :
         status[s] = "active" /\ status'[s] = "completed" =>
             s \in IdleOf(UserOf[s]) \/ Asked(s) \/ MakesRoom(s)]_vars

=============================================================================
