----------------------------- MODULE Idempotency -----------------------------
(***************************************************************************)
(* IdempotencyCoordinator.Execute and the idempotency_records row it works *)
(* on, for one (scope, key).  Every request runs Execute once; a client's  *)
(* retry is another request.  One SQL statement is one step, and between   *)
(* two statements any other request, the lease renewal of an executor, the *)
(* cleanup job, a crash or the clock may come in.                          *)
(*                                                                         *)
(*   service/idempotency.go                 Execute, renewProcessingLease  *)
(*   repository/idempotency_repo.go         the statements                 *)
(*   service/idempotency_cleanup_service.go DeleteExpired                  *)
(*                                                                         *)
(* Time is one clock read by all instances.  A call whose statement took   *)
(* effect although it returned an error is the statement followed by Crash.*)
(***************************************************************************)
EXTENDS Integers, FiniteSets

CONSTANTS
    Reqs,               \* requests that carry the key
    Fingerprint,        \* fingerprint of a request's method, route and payload
    Detached,           \* requests with ExecutionTimeout > 0 (leases renewed)
    Large,              \* requests whose response exceeds MaxStoredResponseLen
    TTL,                \* opts.TTL / DefaultTTL
    ProcessingTimeout,  \* cfg.ProcessingTimeout
    Backoff,            \* cfg.FailedRetryBackoff
    MaxTime,            \* bound on the clock
    StoreFaults         \* TRUE: repository calls may fail

ASSUME ConstantsAssumption ==
    /\ IsFiniteSet(Reqs)
    /\ Detached \subseteq Reqs
    /\ Large \subseteq Reqs
    /\ TTL \in Nat \ {0}
    /\ ProcessingTimeout \in Nat \ {0}
    /\ Backoff \in Nat
    /\ MaxTime \in Nat
    /\ StoreFaults \in BOOLEAN

VARIABLES
    now,       \* the clock
    row,       \* the row of the key: {} or {record}
    nextId,    \* the id sequence
    pc,        \* pc[r]: where Execute is
    start,     \* start[r]: the time Execute read at its beginning
    seen,      \* seen[r]: {} or {record}: the row as last read
    rid,       \* rid[r]: record.ID of the record it owns
    deadline,  \* deadline[r]: expires_at it last wrote for that record
    result,    \* result[r]: how Execute returned
    body,      \* body[r]: the response it returned
    effects    \* the side effects committed so far

vars == <<now, row, nextId, pc, start, seen, rid, deadline, result, body, effects>>

NoBody == "none"
Truncated == "truncated"
NullLock == 0          \* locked_until IS NULL: no time is before it

Statuses == {"processing", "succeeded", "failed_retryable"}
Claiming == {"create", "get", "reclaim_expired", "get_again", "reclaim"}
Executing == {"exec", "mark_succeeded", "mark_failed"}
Results == {"none", "data", "replayed", "key_conflict", "in_progress",
            "retry_backoff", "store_unavailable", "failed"}
Bodies == Reqs \cup {NoBody, Truncated}

Fingerprints == {Fingerprint[r] : r \in Reqs}
Records == [id : Nat, fp : Fingerprints, status : Statuses,
            lock : Nat, exp : Nat, body : Bodies]

TypeOK ==
    /\ now \in Nat
    /\ row \in SUBSET Records /\ \A x, y \in row : x = y
    /\ nextId \in Nat
    /\ pc \in [Reqs -> {"idle", "done", "dead"} \cup Claiming \cup Executing]
    /\ start \in [Reqs -> Nat]
    /\ seen \in [Reqs -> SUBSET Records]
    /\ rid \in [Reqs -> Nat]
    /\ deadline \in [Reqs -> Nat]
    /\ result \in [Reqs -> Results]
    /\ body \in [Reqs -> Bodies]
    /\ effects \subseteq [by : Reqs, at : Nat, until : Nat]

-----------------------------------------------------------------------------
(* The statements.                                                         *)

\* TryReclaim: take the row over from the status it was read with, unless its
\* lock is still running at the time the request began.
ReclaimableLocked(x, id, from, t) == x.id = id /\ x.status = from
ReclaimableAnyStatus(x, id, from, t) == x.id = id /\ x.lock <= t
Reclaimable(x, id, from, t) == x.id = id /\ x.status = from /\ x.lock <= t

Record(id, fp, status, lock, exp, b) ==
    [id |-> id, fp |-> fp, status |-> status, lock |-> lock, exp |-> exp, body |-> b]

Reclaimed(x, t) ==
    Record(x.id, x.fp, "processing", t + ProcessingTimeout, t + TTL, x.body)

\* MarkSucceeded and MarkFailedRetryable update whatever row has the id.
Succeeded(x, b, e) == Record(x.id, x.fp, "succeeded", NullLock, e, b)
Failed(x, e) == Record(x.id, x.fp, "failed_retryable", now + Backoff, e, x.body)

\* marshalStoredResponse: what exceeds the limit is cut, and no longer decodes.
Stored(r) == IF r \in Large THEN Truncated ELSE r

\* The expiry written with the result: detached executions count anew.
ResultExpiry(r) == IF r \in Detached THEN now + TTL ELSE start[r] + TTL

-----------------------------------------------------------------------------
(* Execute.                                                                *)

Goto(r, l) == pc' = [pc EXCEPT ![r] = l]

Return(r, how, what) ==
    /\ Goto(r, "done")
    /\ result' = [result EXCEPT ![r] = how]
    /\ body' = [body EXCEPT ![r] = what]

Own(r, id) ==
    /\ rid' = [rid EXCEPT ![r] = id]
    /\ deadline' = [deadline EXCEPT ![r] = start[r] + TTL]
    /\ Goto(r, "exec")

Begin(r) ==
    /\ pc[r] = "idle"
    /\ start' = [start EXCEPT ![r] = now]
    /\ Goto(r, "create")
    /\ UNCHANGED <<now, row, nextId, seen, rid, deadline, result, body, effects>>

\* INSERT ... ON CONFLICT (scope, key) DO NOTHING.
CreateProcessing(r) ==
    /\ pc[r] = "create"
    /\ \/ /\ row = {}
          /\ row' = {Record(nextId, Fingerprint[r], "processing",
                            start[r] + ProcessingTimeout, start[r] + TTL, NoBody)}
          /\ nextId' = nextId + 1
          /\ Own(r, nextId)
       \/ /\ row # {}
          /\ Goto(r, "get")
          /\ UNCHANGED <<row, nextId, rid, deadline>>
    /\ UNCHANGED <<now, start, seen, result, body, effects>>

\* The stored record belongs to a request with the same fingerprint.
AnyRequest(r, x) == TRUE
SameRequest(r, x) == x.fp = Fingerprint[r]

\* What Execute does with an existing record it may not reclaim as expired.
FollowStatus(r, x) ==
    \/ /\ x.status = "succeeded"
       /\ IF x.body = Truncated THEN Return(r, "store_unavailable", NoBody)
                                ELSE Return(r, "replayed", x.body)
    \/ /\ x.status = "processing"
       /\ Return(r, "in_progress", NoBody)
    \/ /\ x.status = "failed_retryable" /\ x.lock > start[r]
       /\ Return(r, "retry_backoff", NoBody)
    \/ /\ x.status = "failed_retryable" /\ x.lock <= start[r]
       /\ Goto(r, "reclaim")
       /\ UNCHANGED <<result, body>>

IsExpired(x, t) == x.exp <= t

\* GetByScopeAndKeyHash after the insert found a row.
GetExisting(r) ==
    /\ pc[r] = "get"
    /\ seen' = [seen EXCEPT ![r] = row]
    /\ \/ /\ row = {}
          /\ Return(r, "store_unavailable", NoBody)
       \/ \E x \in row :
          \/ /\ ~SameRequest(r, x)
             /\ Return(r, "key_conflict", NoBody)
          \/ /\ SameRequest(r, x) /\ IsExpired(x, start[r])
             /\ Goto(r, "reclaim_expired")
             /\ UNCHANGED <<result, body>>
          \/ /\ SameRequest(r, x) /\ ~IsExpired(x, start[r])
             /\ FollowStatus(r, x)
    /\ UNCHANGED <<now, row, nextId, start, rid, deadline, effects>>

\* TryReclaim of an expired record, from the status it was read with.
ReclaimExpired(r) ==
    /\ pc[r] = "reclaim_expired"
    /\ \E x \in seen[r] :
        \/ /\ \E y \in row : /\ Reclaimable(y, x.id, x.status, start[r])
                              /\ row' = {Reclaimed(y, start[r])}
           /\ Own(r, x.id)
        \/ /\ \A y \in row : ~Reclaimable(y, x.id, x.status, start[r])
           /\ Goto(r, "get_again")
           /\ UNCHANGED <<row, rid, deadline>>
    /\ UNCHANGED <<now, nextId, start, seen, result, body, effects>>

\* The reclaim was lost: read again and follow the status found.
GetAgain(r) ==
    /\ pc[r] = "get_again"
    /\ seen' = [seen EXCEPT ![r] = row]
    /\ \/ /\ row = {}
          /\ Return(r, "store_unavailable", NoBody)
       \/ \E x \in row :
          \/ /\ ~SameRequest(r, x)
             /\ Return(r, "key_conflict", NoBody)
          \/ /\ SameRequest(r, x)
             /\ FollowStatus(r, x)
    /\ UNCHANGED <<now, row, nextId, start, rid, deadline, effects>>

\* TryReclaim of a failed record whose backoff is over.
ReclaimFailed(r) ==
    /\ pc[r] = "reclaim"
    /\ \E x \in seen[r] :
        \/ /\ \E y \in row : /\ Reclaimable(y, x.id, "failed_retryable", start[r])
                              /\ row' = {Reclaimed(y, start[r])}
           /\ Own(r, x.id)
           /\ UNCHANGED <<result, body>>
        \/ /\ \A y \in row : ~Reclaimable(y, x.id, "failed_retryable", start[r])
           /\ Return(r, "in_progress", NoBody)
           /\ UNCHANGED <<row, rid, deadline>>
    /\ UNCHANGED <<now, nextId, start, seen, effects>>

\* A repository call of the claim phase fails.
StoreFails(r) ==
    /\ StoreFaults
    /\ pc[r] \in Claiming
    /\ Return(r, "store_unavailable", NoBody)
    /\ UNCHANGED <<now, row, nextId, start, seen, rid, deadline, effects>>

\* execute(ctx) commits its side effect, or fails without one.
ExecuteSucceeds(r) ==
    /\ pc[r] = "exec"
    /\ effects' = effects \cup {[by |-> r, at |-> now, until |-> deadline[r]]}
    /\ Goto(r, "mark_succeeded")
    /\ UNCHANGED <<now, row, nextId, start, seen, rid, deadline, result, body>>

ExecuteFails(r) ==
    /\ pc[r] = "exec"
    /\ Goto(r, "mark_failed")
    /\ UNCHANGED <<now, row, nextId, start, seen, rid, deadline, result, body, effects>>

\* One tick of the renewal goroutine of a detached execution; it is stopped
\* only when Execute returns.
ExtendProcessingLock(r) ==
    /\ pc[r] \in Executing
    /\ r \in Detached
    /\ \E x \in row : /\ x.id = rid[r] /\ x.status = "processing"
                      /\ x.fp = Fingerprint[r]
                      /\ row' = {Reclaimed(x, now)}
    /\ deadline' = [deadline EXCEPT ![r] = now + TTL]
    /\ UNCHANGED <<now, nextId, pc, start, seen, rid, result, body, effects>>

\* MarkSucceeded; when it fails, or the response does not marshal, the row stays
\* "processing" and the caller is told the store is unavailable although the
\* effect is there.
MarkSucceeded(r) ==
    /\ pc[r] = "mark_succeeded"
    /\ \/ /\ row' = {IF x.id = rid[r] THEN Succeeded(x, Stored(r), ResultExpiry(r)) ELSE x
                      : x \in row}
          /\ Return(r, "data", r)
       \/ /\ StoreFaults
          /\ Return(r, "store_unavailable", NoBody)
          /\ UNCHANGED row
    /\ UNCHANGED <<now, nextId, start, seen, rid, deadline, effects>>

\* MarkFailedRetryable; its own failure is only recorded.
MarkFailedRetryable(r) ==
    /\ pc[r] = "mark_failed"
    /\ \/ row' = {IF x.id = rid[r] THEN Failed(x, ResultExpiry(r)) ELSE x : x \in row}
       \/ StoreFaults /\ UNCHANGED row
    /\ Return(r, "failed", NoBody)
    /\ UNCHANGED <<now, nextId, start, seen, rid, deadline, effects>>

-----------------------------------------------------------------------------
(* The rest of the world.                                                  *)

\* The instance that runs the request dies.
Crash(r) ==
    /\ pc[r] \in Claiming \cup Executing
    /\ Goto(r, "dead")
    /\ UNCHANGED <<now, row, nextId, start, seen, rid, deadline, result, body, effects>>

\* cleanupOnce: DELETE ... WHERE expires_at <= now.
DeleteExpired ==
    /\ \E x \in row : IsExpired(x, now)
    /\ row' = {}
    /\ UNCHANGED <<now, nextId, pc, start, seen, rid, deadline, result, body, effects>>

\* Time passes.  A claim is decided before its own lock would have run out,
\* and an execution is over, or renewed, before the record it owns expires.
Tick ==
    /\ now < MaxTime
    /\ \A r \in Reqs : /\ pc[r] \in Claiming => now + 1 < start[r] + ProcessingTimeout
                       /\ pc[r] \in Executing => now + 1 < deadline[r]
    /\ now' = now + 1
    /\ UNCHANGED <<row, nextId, pc, start, seen, rid, deadline, result, body, effects>>

-----------------------------------------------------------------------------

Init ==
    /\ now = 0
    /\ row = {}
    /\ nextId = 1
    /\ pc = [r \in Reqs |-> "idle"]
    /\ start = [r \in Reqs |-> 0]
    /\ seen = [r \in Reqs |-> {}]
    /\ rid = [r \in Reqs |-> 0]
    /\ deadline = [r \in Reqs |-> 0]
    /\ result = [r \in Reqs |-> "none"]
    /\ body = [r \in Reqs |-> NoBody]
    /\ effects = {}

RequestStep(r) ==
    \/ Begin(r) \/ CreateProcessing(r) \/ GetExisting(r) \/ ReclaimExpired(r)
    \/ GetAgain(r) \/ ReclaimFailed(r) \/ StoreFails(r)
    \/ ExecuteSucceeds(r) \/ ExecuteFails(r) \/ ExtendProcessingLock(r)
    \/ MarkSucceeded(r) \/ MarkFailedRetryable(r) \/ Crash(r)

Next ==
    \/ \E r \in Reqs : RequestStep(r)
    \/ DeleteExpired
    \/ Tick

Spec == Init /\ [][Next]_vars

-----------------------------------------------------------------------------
(* Properties.                                                             *)

\* At most one request is between taking the record and marking its outcome,
\* through races of inserts and reclaims, crashes, expiry and cleanup: the
\* unfenced UPDATE ... WHERE id of the two marks never hits another's record.
OneExecutor ==
    \A r, q \in Reqs : pc[r] \in Executing /\ pc[q] \in Executing => r = q

\* A replayed response was produced by an execution of the same request, that
\* is, one with the replaying request's own fingerprint, and it did happen.
ReplayFaithful ==
    \A r \in Reqs : result[r] = "replayed" =>
        \E e \in effects : e.by = body[r] /\ Fingerprint[e.by] = Fingerprint[r]

FoundExpired(r) == \E x \in seen[r] : IsExpired(x, start[r])

\* A request that had found the record of effect d expired took it over,
\* although d's record was not the one it had found: it began before d's
\* record could expire.
TakenOver(d) ==
    \E q \in Reqs : FoundExpired(q) /\ rid[q] = rid[d.by] /\ start[q] < d.until

\* The side effect happens at most once in the life of a record: no effect is
\* committed before the record of an earlier one has expired, unless the
\* record of one of the two was taken over by a request that had found it
\* expired.  TryReclaim does not compare expires_at, so such a request may
\* reclaim the next, fresh success too.  A failure, a crash, an unrecorded
\* success, a backoff that is over, a renewal and the cleanup job never lead
\* to a second effect.
OnceUnlessExpired ==
    \A d, e \in effects : d # e =>
        d.until <= e.at \/ e.until <= d.at \/ TakenOver(d) \/ TakenOver(e)

-----------------------------------------------------------------------------
(* The inductive invariant behind OneExecutor.                             *)

\* An executor's record is there, held in "processing", and not yet expired.
ExecutorOwnsRow ==
    \A q \in Reqs : pc[q] \in Executing =>
        /\ now < deadline[q]
        /\ \E x \in row : /\ x.id = rid[q] /\ x.status = "processing"
                          /\ x.exp = deadline[q]

\* A request about to reclaim the row as expired began before the lock of
\* whoever took the row meanwhile runs out.
LockOutlivesClaims ==
    \A q, r \in Reqs : pc[q] \in Executing /\ pc[r] = "reclaim_expired" =>
        \A x \in row : x.lock > start[r]

\* A claim is decided within ProcessingTimeout of the time it works with.
ClaimsAreFresh ==
    \A r \in Reqs : pc[r] \in Claiming =>
        start[r] <= now /\ now < start[r] + ProcessingTimeout

ExecutorInv == OneExecutor /\ ExecutorOwnsRow /\ LockOutlivesClaims /\ ClaimsAreFresh

-----------------------------------------------------------------------------
(* The inductive invariant behind ReplayFaithful.                          *)

\* Ids come from the sequence.
IdsAreDrawn ==
    /\ nextId > 0
    /\ \A x \in row : 0 < x.id /\ x.id < nextId
    /\ \A r \in Reqs : rid[r] < nextId /\ \A x \in seen[r] : 0 < x.id /\ x.id < nextId

\* The fingerprint of a record never changes, and a request works on records
\* with its own.
FingerprintsMatch ==
    \A r \in Reqs :
        /\ \A x \in seen[r], y \in row : x.id = y.id => x.fp = y.fp
        /\ pc[r] \in {"reclaim_expired", "reclaim"} => \A x \in seen[r] : SameRequest(r, x)
        /\ pc[r] \in Executing => \A x \in row : x.id = rid[r] => SameRequest(r, x)

Happened(b, fp) == \E e \in effects : e.by = b /\ Fingerprint[e.by] = fp

\* A success is recorded after its effect, under the effect's fingerprint.
SuccessesHappened ==
    /\ \A r \in Reqs : pc[r] = "mark_succeeded" => Happened(r, Fingerprint[r])
    /\ \A x \in row : x.status = "succeeded" /\ x.body # Truncated => Happened(x.body, x.fp)

ReplayInv == IdsAreDrawn /\ FingerprintsMatch /\ SuccessesHappened /\ ReplayFaithful

-----------------------------------------------------------------------------
(* The inductive invariant behind OnceUnlessExpired, beside ExecutorInv.   *)

\* A request owns a record from its claim on, and commits once.
ClaimsOwnNothing ==
    /\ \A r \in Reqs : pc[r] \in {"idle"} \cup Claiming => rid[r] = 0
    /\ \A e \in effects : rid[e.by] # 0 /\ pc[e.by] \in {"mark_succeeded", "done", "dead"}

ExpiredWasSeen ==
    \A r \in Reqs : pc[r] = "reclaim_expired" => \A x \in seen[r] : IsExpired(x, start[r])

\* What an executor writes never brings the expiry of its record forward.
ExpiryGrows ==
    \A r \in Reqs : pc[r] \in Executing =>
        /\ start[r] <= now /\ deadline[r] <= now + TTL
        /\ r \notin Detached => deadline[r] = start[r] + TTL

\* The record of effect d says so, or is at least not free, and nobody but
\* d's own request is at work on it.
Intact(d) ==
    /\ \E x \in row : x.id = rid[d.by] /\ d.until <= x.exp /\ x.status # "failed_retryable"
    /\ \A q \in Reqs : pc[q] \in Executing => q = d.by

LiveEffectsIntact == \A d \in effects : now < d.until => TakenOver(d) \/ Intact(d)

OnceInv ==
    /\ ClaimsOwnNothing /\ ExpiredWasSeen /\ ExpiryGrows /\ LiveEffectsIntact
    /\ OnceUnlessExpired
=============================================================================
