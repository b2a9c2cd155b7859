------------------------------- MODULE Gateway -------------------------------
(***************************************************************************)
(* The API gateway: a request passes track_in_flight, the header           *)
(* sanitizer, the body limit and the rate limiter, and is forwarded.       *)
(*                                                                         *)
(* The counters of the rate limiter are in Redis and outlive the process;  *)
(* the body budget, the number of requests in flight and the HTTP client   *)
(* are globals of the process.  A step ends where the code awaits.         *)
(***************************************************************************)
EXTENDS Integers, Sequences, FiniteSets, FiniteSetsExt, SequencesExt

CONSTANTS
    Clients,      \* addresses of clients
    Proxies,      \* addresses of the proxies in front of the gateway
    Trusted,      \* TRUSTED_PROXIES
    TrustProxy,   \* TRUST_PROXY
    Accounts,     \* the `sub` claims
    Devices,      \* X-Device-Id
    None,         \* no account, no device, no address
    Dimensions,   \* the rate limits that the model has, in the order of _check_dual
    Kinds,        \* the kinds of requests the clients send
    LimitOf,      \* the settings RATE_LIMIT_*, by dimension and kind
    Reserves,     \* bytes that a request with a body may announce
    MaxBytes,     \* GATEWAY_GLOBAL_BODY_BUDGET_BYTES
    MaxBodies,    \* GATEWAY_MAX_CONCURRENT_BODIES
    Requests,     \* requests in flight at once
    MaxRequests,  \* bound of the model: requests altogether
    MaxFaults     \* bound of the model: Redis errors, cancellations and restarts

AllKinds == {"auth", "search", "reindex", "uploads", "finalize", "default"}

AllDimensions == {"window", "burst", "concurrent"}

ASSUME GatewayAssumption ==
    /\ Kinds \subseteq AllKinds
    /\ Dimensions \in Seq(AllDimensions)
    /\ LimitOf \in [AllDimensions -> [Kinds -> Nat \ {0}]]
    /\ None \notin Clients \union Proxies \union Accounts \union Devices
    /\ Clients \intersect Proxies = {}
    /\ TrustProxy \in BOOLEAN
    /\ Reserves \subseteq Nat \ {0} /\ MaxBytes \in Nat /\ MaxBodies \in Nat
    /\ IsFiniteSet(Requests)
    /\ MaxRequests \in Nat /\ MaxFaults \in Nat

VARIABLES
    counter,    \* Redis: the value of each key, 0 if it is absent
    expiring,   \* Redis: the keys that have a time to live
    req,        \* the requests
    bytes,      \* _GLOBAL_BODY_CURRENT
    bodies,     \* _GLOBAL_STREAM_COUNT
    inFlight,   \* _in_flight_requests
    process,    \* "serving", "draining" or "closed": the client is closed
    \* history of the run, not state of the program
    passed,     \* how many requests of each kind passed the check of a key since it was made
    orphaned,   \* the keys whose first request ended before it had set their time to live
    served, faults

redis == <<counter, expiring, passed, orphaned>>

globals == <<bytes, bodies, inFlight>>

vars == <<counter, expiring, req, bytes, bodies, inFlight, process, passed, orphaned, served, faults>>

-----------------------------------------------------------------------------
(* Types *)

\* The path of an upload that is completed or aborted, and of a reindex, has
\* limits of its own but counts on the key of its service.
ServiceOf(kind) ==
    CASE kind = "reindex" -> "search"
      [] kind = "finalize" -> "uploads"
      [] OTHER -> kind

Services == {ServiceOf(k) : k \in Kinds}

Keys == AllDimensions \X (Clients \union Proxies \union Accounts \union Devices) \X Services

\* _get_burst_limit, _get_concurrency_limit: other services have neither.
HasLimit(dimension, kind) == dimension = "window" \/ kind # "default"

\* at       where the request is
\* kind     its service and path
\* client   the address it came from, before any proxy
\* who      what it is counted as: its address, its account and its device
\* reserve  the bytes it has reserved
\* checks   the keys that are still to be checked
IdleRequest == [at |-> "idle", kind |-> None, client |-> None, who |-> <<>>,
                reserve |-> 0, checks |-> <<>>]

-----------------------------------------------------------------------------
(* The address of the client *)

\* _is_trusted_ip, of an address and of anything else
IsTrusted(a) == a \in Trusted

IsAddress(a) == a \in Clients \union Proxies

\* The last entry of X-Forwarded-For that a trusted proxy has not set.
Untrusted(forwarded) ==
    {i \in 1 .. Len(forwarded) :
        /\ IsAddress(forwarded[i])
        /\ Trusted # {} => ~IsTrusted(forwarded[i])}

\* _derive_real_ip
RealAddress(peer, forwarded) ==
    IF ~TrustProxy \/ ~(Trusted = {} \/ IsTrusted(peer)) \/ Untrusted(forwarded) = {} THEN peer
    ELSE forwarded[Max(Untrusted(forwarded))]

\* What a client may write into the header itself.
Claims == {<<>>} \union {<<a>> : a \in Clients \union Proxies \union {None}}

\* External: each proxy appends the address it was called from.
Forwarded(client, claim, path) ==
    claim \o (IF path = <<>> THEN <<>> ELSE <<client>> \o Front(path))

Paths == {<<>>} \union {<<p>> : p \in Proxies} \union {<<p, q>> : p, q \in Proxies}

-----------------------------------------------------------------------------
(* Requests *)

Init ==
    /\ counter = [k \in Keys |-> 0]
    /\ expiring = {}
    /\ req = [r \in Requests |-> IdleRequest]
    /\ bytes = 0 /\ bodies = 0 /\ inFlight = 0
    /\ process = "serving"
    /\ passed = [k \in Keys |-> [kind \in Kinds |-> 0]]
    /\ orphaned = {}
    /\ served = 0 /\ faults = 0

Becomes(r, q) == req' = [req EXCEPT ![r] = q]

Goto(r, at) == req' = [req EXCEPT ![r].at = at]

Fault == faults < MaxFaults /\ faults' = faults + 1

\* The `sub` of a bearer token that verify_token accepts.
Subjects == Accounts \union {None}

Given(w) == IF w = None THEN <<>> ELSE <<w>>

\* What a request is counted as: its address, its account and its device.
Identities(address, account, device) ==
    <<address>> \o Given(account) \o Given(device)

\* track_in_flight counts the request in, unless the gateway is shutting down;
\* the header sanitizer finds out where it comes from.
Accept(r, client, claim, path, kind, account, device) ==
    LET peer == IF path = <<>> THEN client ELSE Last(path)
        address == RealAddress(peer, Forwarded(client, claim, path))
    IN
    /\ req[r].at = "idle"
    /\ process = "serving"
    /\ served < MaxRequests
    /\ served' = served + 1
    /\ inFlight' = inFlight + 1
    /\ Becomes(r, [IdleRequest EXCEPT !.at = "accepted", !.kind = kind, !.client = client,
                                      !.who = Identities(address, account, device)])
    /\ UNCHANGED <<redis, bytes, bodies, process, faults>>

\* The keys in the order _check_dual takes them.
ChecksOf(q) ==
    LET in(dimension) == [i \in 1 .. Len(q.who) |-> <<dimension, q.who[i], ServiceOf(q.kind)>>]
    IN FlattenSeq([d \in 1 .. Len(Dimensions) |->
                      IF HasLimit(Dimensions[d], q.kind) THEN in(Dimensions[d]) ELSE <<>>])

\* _acquire_global_budget
Room(n) == bytes + n <= MaxBytes /\ bodies + 1 <= MaxBodies

\* The body limit reserves what the request announces; one without a body
\* reserves nothing.
Reserve(r, n) ==
    /\ req[r].at = "accepted"
    /\ Room(n)
    /\ bytes' = bytes + n
    /\ bodies' = bodies + 1
    /\ Becomes(r, [req[r] EXCEPT !.at = "checking", !.reserve = n, !.checks = ChecksOf(req[r])])
    /\ UNCHANGED <<redis, inFlight, process, served, faults>>

PassEmpty(r) ==
    /\ req[r].at = "accepted"
    /\ Becomes(r, [req[r] EXCEPT !.at = "checking", !.checks = ChecksOf(req[r])])
    /\ UNCHANGED <<redis, globals, process, served, faults>>

\* Too large, too many headers, or no room: answered at once.
RefuseBody(r) ==
    /\ req[r].at = "accepted"
    /\ Goto(r, "ended")
    /\ UNCHANGED <<redis, globals, process, served, faults>>

Check(r) == Head(req[r].checks)

Limit(r) == LimitOf[Check(r)[1]][req[r].kind]

Checked(r) == [req[r] EXCEPT !.at = "checking", !.checks = Tail(@)]

\* The count is compared with the limit.
Compared(r, n) ==
    IF n <= Limit(r)
    THEN /\ Becomes(r, Checked(r))
         /\ passed' = [passed EXCEPT ![Check(r)][req[r].kind] = @ + 1]
    ELSE Goto(r, "denied") /\ UNCHANGED passed

\* INCR, of a key that was there
Count(r) ==
    /\ req[r].at = "checking" /\ req[r].checks # <<>>
    /\ counter[Check(r)] > 0
    /\ counter' = [counter EXCEPT ![Check(r)] = @ + 1]
    /\ Compared(r, counter[Check(r)] + 1)
    /\ UNCHANGED <<expiring, orphaned, globals, process, served, faults>>

\* INCR makes the key
CountFirst(r) ==
    /\ req[r].at = "checking" /\ req[r].checks # <<>>
    /\ counter[Check(r)] = 0
    /\ counter' = [counter EXCEPT ![Check(r)] = 1]
    /\ Goto(r, "counted")
    /\ UNCHANGED <<expiring, passed, orphaned, globals, process, served, faults>>

\* Faulty variant: the count is read again before it is compared with 1.
DatedAlone(k) == IF counter[k] = 1 THEN expiring \union {k} ELSE expiring

\* EXPIRE: a key without a time to live is still there.
Dated(k) == expiring \union {k}

SetExpiry(r) ==
    /\ req[r].at = "counted"
    /\ expiring' = Dated(Check(r))
    /\ Compared(r, 1)
    /\ UNCHANGED <<counter, orphaned, globals, process, served, faults>>

\* Faulty variant: a Redis error lets every request pass.
FailsOpen(r) == TRUE

\* A Redis error denies a request to the auth service and lets others pass.
Passes(r) == ServiceOf(req[r].kind) # "auth"

\* INCR or EXPIRE raises.
RedisFails(r) ==
    /\ req[r].at \in {"checking", "counted"} /\ req[r].checks # <<>>
    /\ Fault
    /\ orphaned' = IF req[r].at = "counted" THEN orphaned \union {Check(r)} ELSE orphaned
    /\ IF Passes(r)
       THEN /\ Becomes(r, Checked(r))
            /\ passed' = [passed EXCEPT ![Check(r)][req[r].kind] = @ + 1]
       ELSE Goto(r, "denied") /\ UNCHANGED passed
    /\ UNCHANGED <<counter, expiring, globals, process, served>>

\* External: the time to live is over.
Expire(k) ==
    /\ k \in expiring
    /\ counter' = [counter EXCEPT ![k] = 0]
    /\ expiring' = expiring \ {k}
    /\ passed' = [passed EXCEPT ![k] = [kind \in Kinds |-> 0]]
    /\ UNCHANGED <<req, orphaned, globals, process, served, faults>>

\* Every check has passed: forwarded, unless the client is closed already.
Forward(r) ==
    /\ req[r].at = "checking" /\ req[r].checks = <<>>
    /\ process # "closed"
    /\ Goto(r, "forwarding")
    /\ UNCHANGED <<redis, globals, process, served, faults>>

\* Faulty variant: the budget of a request that was denied is kept.
KeptIfDenied(r) == IF req[r].checks # <<>> THEN 0 ELSE req[r].reserve

Reserved(r) == req[r].reserve

NotBelowZero(n) == IF n < 0 THEN 0 ELSE n

\* _release_global_budget, in the finally clause of the body limit, whichever way
\* the request ends.
Ends(r) ==
    /\ IF Reserved(r) > 0
       THEN bytes' = NotBelowZero(bytes - Reserved(r)) /\ bodies' = NotBelowZero(bodies - 1)
       ELSE UNCHANGED <<bytes, bodies>>
    /\ Becomes(r, [IdleRequest EXCEPT !.at = "ended"])
    /\ UNCHANGED <<counter, expiring, passed, inFlight, process, served>>

\* 429; or the upstream has answered, timed out or gone; or the client is closed.
Answer(r) ==
    /\ \/ req[r].at \in {"denied", "forwarding"}
       \/ req[r].at = "checking" /\ req[r].checks = <<>> /\ process = "closed"
    /\ Ends(r)
    /\ UNCHANGED <<orphaned, faults>>

\* The caller hangs up: the exception unwinds the request where it waits.
Cancel(r) ==
    /\ req[r].at \in {"accepted", "checking", "counted", "forwarding"}
    /\ Fault
    /\ orphaned' = IF req[r].at = "counted" THEN orphaned \union {Check(r)} ELSE orphaned
    /\ Ends(r)

\* The finally clause of track_in_flight
Depart(r) ==
    /\ req[r].at = "ended"
    /\ inFlight' = inFlight - 1
    /\ Becomes(r, IdleRequest)
    /\ UNCHANGED <<redis, bytes, bodies, process, served, faults>>

\* lifespan after its yield: no request is accepted any more.
ShutDown ==
    /\ process = "serving"
    /\ process' = "draining"
    /\ UNCHANGED <<redis, req, globals, served, faults>>

\* No request is left, or _MAX_DRAIN_SECONDS are over: the client is closed.
CloseClient ==
    /\ process = "draining"
    /\ inFlight = 0 \/ faults < MaxFaults
    /\ faults' = IF inFlight = 0 THEN faults ELSE faults + 1
    /\ process' = "closed"
    /\ UNCHANGED <<redis, req, globals, served>>

\* The process ends, or dies before that, and another one starts.
Restart ==
    /\ \/ process = "closed" /\ UNCHANGED faults
       \/ process # "closed" /\ Fault
    /\ orphaned' = orphaned \union {Check(r) : r \in {q \in Requests : req[q].at = "counted"}}
    /\ req' = [r \in Requests |-> IdleRequest]
    /\ bytes' = 0 /\ bodies' = 0 /\ inFlight' = 0
    /\ process' = "serving"
    /\ UNCHANGED <<counter, expiring, passed, served>>

Next ==
    \/ \E r \in Requests :
        \/ \E client \in Clients, claim \in Claims, path \in Paths, kind \in Kinds,
              account \in Subjects, device \in Devices \union {None} :
              Accept(r, client, claim, path, kind, account, device)
        \/ \E n \in Reserves : Reserve(r, n)
        \/ PassEmpty(r) \/ RefuseBody(r)
        \/ Count(r) \/ CountFirst(r) \/ SetExpiry(r) \/ RedisFails(r)
        \/ Forward(r) \/ Answer(r) \/ Cancel(r)
        \/ Depart(r)
    \/ \E k \in Keys : Expire(k)
    \/ ShutDown \/ CloseClient \/ Restart

Spec == Init /\ [][Next]_vars

-----------------------------------------------------------------------------
(* Properties *)

\* Types of the variables.
TypeOK ==
    /\ counter \in [Keys -> Nat] /\ expiring \subseteq Keys /\ orphaned \subseteq Keys
    /\ passed \in [Keys -> [Kinds -> Nat]]
    /\ \A r \in Requests :
        /\ req[r].at \in {"idle", "accepted", "checking", "counted", "denied", "forwarding", "ended"}
        /\ req[r].kind \in Kinds \union {None} /\ req[r].client \in Clients \union {None}
        /\ req[r].reserve \in Nat /\ req[r].checks \in Seq(Keys)
    /\ bytes \in Nat /\ bodies \in Nat /\ inFlight \in 0 .. Cardinality(Requests)
    /\ process \in {"serving", "draining", "closed"}
    /\ served \in 0 .. MaxRequests /\ faults \in 0 .. MaxFaults

\* A request is counted as the client it comes from, whatever that client wrote
\* into X-Forwarded-For and however many trusted proxies it came through.
CountedAsItself ==
    \A r \in Requests : req[r].who # <<>> => req[r].who[1] = req[r].client

\* While a counter lives, no more requests of a kind pass it than their limit,
\* however they interleave; for the auth service also when Redis fails.
WithinLimit ==
    \A k \in Keys : \A kind \in Kinds :
        kind = "auth" \/ faults = 0 => passed[k][kind] <= LimitOf[k[1]][kind]

\* A request is counted as the client it comes from, and no more requests of a
\* kind pass a counter than their limit while it lives.
EachWithinItsLimit == CountedAsItself /\ WithinLimit

\* A counter comes to its end, so that nobody is denied for ever: it has a time to
\* live, or a request is about to give it one, unless that request ended before.
CountersExpire ==
    \A k \in Keys : counter[k] > 0 =>
        \/ k \in expiring \union orphaned
        \/ \E r \in Requests : req[r].at = "counted" /\ Check(r) = k

\* Whichever way requests end, the budget is what those still here have reserved,
\* and within its limits.
BudgetIsTrue ==
    /\ bytes = SumFunctionOnSet([r \in Requests |-> req[r].reserve], Requests)
    /\ bodies = Cardinality({r \in Requests : req[r].reserve > 0})
    /\ inFlight = Cardinality({r \in Requests : req[r].at # "idle"})
    /\ bytes <= MaxBytes /\ bodies <= MaxBodies

=============================================================================
