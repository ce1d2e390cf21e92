-------------------------- MODULE ConcurrencySlots --------------------------
(***************************************************************************)
(* The concurrency limiter of one user (or one account): a Redis sorted    *)
(* set of slots, a wait counter with a TTL, and the member this user has   *)
(* in the "active index" that startup cleanup and the reconciling worker   *)
(* use to find users with load.  Several gateway processes share the keys; *)
(* a slot member carries the prefix of the process that added it.          *)
(*                                                                         *)
(*   repository/concurrency_cache.go   the Lua scripts and the index       *)
(*   service/concurrency_service.go    fail-open wrappers, release closure *)
(*   handler/gateway_helper.go         try, queue, poll, release           *)
(*                                                                         *)
(* Time is relative: every score or TTL is the number of ticks it still    *)
(* has to live (0 = expired, not yet removed), so no run bounds the clock. *)
(* One Redis command or script is one step.  The pipeline of a load read   *)
(* (and the TIME call before it) is one step.  Live leases, which share    *)
(* the limit, are not part of this module: the live set is empty.          *)
(***************************************************************************)
EXTENDS Integers, FiniteSets

CONSTANTS
    Procs,           \* gateway processes (one request-id prefix each)
    Reqs,            \* requests in flight at once
    Owner,           \* the process that serves a request
    MaxConcurrency,  \* maxConcurrency of the user
    QueueLimit,      \* queueLimit of the wait counter
    SlotTTL,         \* slotTTLSeconds, in ticks
    WaitTTL,         \* waitQueueTTLSeconds, in ticks
    Overlap,         \* TRUE: a process may start while another one serves
    SpanBounded,     \* TRUE: requests end before the TTLs of slot and counter
    Faults           \* which Redis calls may fail

None == -1

FaultKinds == {"index", "incr", "decr", "release", "reply", "cleanup"}

ASSUME ConstantsAssumption ==
    /\ IsFiniteSet(Reqs)
    /\ Owner \in [Reqs -> Procs]
    /\ MaxConcurrency \in Nat \ {0}
    /\ QueueLimit \in Nat \ {0}
    /\ SlotTTL \in Nat \ {0}
    /\ WaitTTL \in Nat \ {0}
    /\ Overlap \in BOOLEAN
    /\ SpanBounded \in BOOLEAN
    /\ Faults \subseteq FaultKinds

VARIABLES
    slot,       \* slot[r]: ticks the sorted-set member of r has to live, or None
    wait,       \* value of the wait counter key (0 = key absent)
    waitLife,   \* ticks the wait counter key has to live
    index,      \* ticks until the index member's score is due, or None
    swept,      \* the legacy-sweep marker key exists
    pc,         \* pc[r]: where the request's goroutine is
    ret,        \* ret[r]: where it goes on after maintaining the index
    plan,       \* plan[r]: the index score it is about to write (None = ZREM)
    held,       \* held[r]: ticks left of the TTL of the slot the request holds
    cleaned,    \* holders whose member another process's startup cleanup removed
    queued,     \* queued[r]: ticks the request may still wait
    proc,       \* proc[p]: life cycle of the process
    keep,       \* keep[p]: startup cleanup found own slots left
    wk,         \* wk[p]: where the reconciling worker is
    wplan       \* wplan[p]: the index score the worker is about to write

redis == <<slot, wait, waitLife, index, swept>>
request == <<pc, ret, plan, held, cleaned, queued>>
process == <<proc, keep, wk, wplan>>
vars == <<redis, request, process>>

RequestStates == {"idle", "queue", "waiting", "won", "gaveup", "serving",
                  "refresh", "index", "done", "dead"}
ProcessStates == {"down", "sweep", "scan", "slots", "wait", "member", "up", "dead"}

Lives(n) == {None} \cup 0..n
LargestTTL == IF SlotTTL > WaitTTL THEN SlotTTL ELSE WaitTTL

TypeOK ==
    /\ slot \in [Reqs -> Lives(SlotTTL)]
    /\ wait \in Nat
    /\ waitLife \in 0..WaitTTL
    /\ index \in Lives(LargestTTL)
    /\ swept \in BOOLEAN
    /\ pc \in [Reqs -> RequestStates]
    /\ ret \in [Reqs -> RequestStates]
    /\ plan \in [Reqs -> Lives(LargestTTL)]
    /\ held \in [Reqs -> 0..SlotTTL]
    /\ cleaned \subseteq Reqs
    /\ queued \in [Reqs -> 0..WaitTTL]
    /\ proc \in [Procs -> ProcessStates]
    /\ keep \in [Procs -> BOOLEAN]
    /\ wk \in [Procs -> {"rest", "load", "write"}]
    /\ wplan \in [Procs -> Lives(LargestTTL)]

-----------------------------------------------------------------------------
(* The Redis side: what the scripts compute.                               *)

\* ZREMRANGEBYSCORE key -inf (now - ttl): the members with nothing left to live.
PurgedEarly == [r \in Reqs |-> IF slot[r] \in 0..1 THEN None ELSE slot[r]]
Purged == [r \in Reqs |-> IF slot[r] = 0 THEN None ELSE slot[r]]

Members(s) == {r \in Reqs : s[r] # None}

\* The check of acquireScript: a slot is free once the expired ones are gone.
HasRoomOffByOne(s) == Cardinality(Members(s)) <= MaxConcurrency
HasRoom(s) == Cardinality(Members(s)) < MaxConcurrency

\* The check of incrementWaitScript.
QueueHasRoomOffByOne == wait <= QueueLimit
QueueHasRoom == wait < QueueLimit

\* Its EXPIRE: every increment gives the counter its whole TTL again.
FirstWaitLife == IF wait = 0 THEN WaitTTL ELSE waitLife
RefreshedWaitLife == WaitTTL

\* decrementWaitScript never goes below zero.
Decremented(w) == IF w > 0 THEN w - 1 ELSE w

\* activeIndexTTL, and the caller's choice to remove the member (None).
IndexScoreSticky(s, w) == IF Members(s) # {} THEN SlotTTL ELSE WaitTTL
IndexScore(s, w) ==
    LET busy == Members(s) # {}
    IN  IF ~busy /\ w = 0 THEN None
        ELSE IF busy /\ w > 0 THEN LargestTTL
        ELSE IF busy THEN SlotTTL ELSE WaitTTL

-----------------------------------------------------------------------------
(* The requests.                                                           *)

Running(r) == proc[Owner[r]] = "up"

\* The request has been told it owns a slot and has not given it back.
Holding(r) ==
    \/ pc[r] \in {"won", "serving"}
    \/ pc[r] \in {"refresh", "index"} /\ ret[r] \in {"won", "serving"}

\* The request is in the wait queue: counted, and its decrement not yet run.
Queued(r) ==
    \/ pc[r] \in {"waiting", "won", "gaveup"}
    \/ pc[r] = "index" /\ ret[r] \in {"waiting", "won"}

\* tryAcquire of an idle request, and of one whose poll timer fired.  The
\* script adds the member or reports a full set; expired members go either way.
Acquire(r) ==
    /\ Running(r)
    /\ pc[r] \in {"idle", "waiting"}
    /\ IF HasRoom(Purged)
       THEN /\ slot' = [Purged EXCEPT ![r] = SlotTTL]
            /\ plan' = [plan EXCEPT ![r] = SlotTTL]
            /\ held' = [held EXCEPT ![r] = SlotTTL]
            /\ ret' = [ret EXCEPT ![r] = IF pc[r] = "idle" THEN "serving" ELSE "won"]
            /\ pc' = [pc EXCEPT ![r] = "index"]
       ELSE /\ slot' = Purged
            /\ pc' = [pc EXCEPT ![r] = IF pc[r] = "idle" THEN "queue" ELSE "waiting"]
            /\ UNCHANGED <<plan, held, ret>>
    /\ UNCHANGED <<wait, waitLife, index, swept, cleaned, queued, process>>

\* The script ran but its reply is lost (the poll runs under the wait's
\* deadline): the member stays, nobody holds a release function for it.
AcquireReplyLost(r) ==
    /\ "reply" \in Faults
    /\ Running(r)
    /\ pc[r] \in {"idle", "waiting"}
    /\ slot' = IF HasRoom(Purged) THEN [Purged EXCEPT ![r] = SlotTTL] ELSE Purged
    /\ pc' = [pc EXCEPT ![r] = IF pc[r] = "idle" THEN "done" ELSE "gaveup"]
    /\ UNCHANGED <<wait, waitLife, index, swept, ret, plan, held, cleaned, queued, process>>

\* IncrementWaitCount: join the queue and refresh the counter's TTL, or be
\* refused with WaitQueueFullError.
IncrementWait(r) ==
    /\ Running(r)
    /\ pc[r] = "queue"
    /\ IF QueueHasRoom
       THEN /\ wait' = wait + 1
            /\ waitLife' = RefreshedWaitLife
            /\ queued' = [queued EXCEPT ![r] = WaitTTL]
            /\ plan' = [plan EXCEPT ![r] = WaitTTL]
            /\ ret' = [ret EXCEPT ![r] = "waiting"]
            /\ pc' = [pc EXCEPT ![r] = "index"]
       ELSE /\ pc' = [pc EXCEPT ![r] = "done"]
            /\ UNCHANGED <<wait, waitLife, queued, plan, ret>>
    /\ UNCHANGED <<slot, index, swept, held, cleaned, process>>

\* The increment failed: the service lets the request wait uncounted.
IncrementWaitFailsOpen(r) ==
    /\ "incr" \in Faults
    /\ Running(r)
    /\ pc[r] = "queue"
    /\ pc' = [pc EXCEPT ![r] = "waiting"]
    /\ queued' = [queued EXCEPT ![r] = WaitTTL]
    /\ UNCHANGED <<redis, ret, plan, held, cleaned, process>>

\* The wait's deadline passed or the client went away.
GiveUp(r) ==
    /\ Running(r)
    /\ pc[r] = "waiting"
    /\ pc' = [pc EXCEPT ![r] = "gaveup"]
    /\ UNCHANGED <<redis, ret, plan, held, cleaned, queued, process>>

\* The deferred DecrementWaitCount, on every way out of the queue.
DecrementWait(r) ==
    /\ Running(r)
    /\ pc[r] \in {"won", "gaveup"}
    /\ LET after == IF pc[r] = "won" THEN "serving" ELSE "done"
       IN  \/ /\ wait' = Decremented(wait)
              /\ pc' = [pc EXCEPT ![r] = "refresh"]
              /\ ret' = [ret EXCEPT ![r] = after]
           \/ /\ "decr" \in Faults
              /\ pc' = [pc EXCEPT ![r] = after]
              /\ UNCHANGED <<wait, ret>>
    /\ queued' = [queued EXCEPT ![r] = 0]
    /\ UNCHANGED <<slot, waitLife, index, swept, plan, held, cleaned, process>>

\* The release closure: ZREM, then the index refresh; an error is only logged.
Release(r) ==
    /\ Running(r)
    /\ pc[r] = "serving"
    /\ \/ /\ slot' = [slot EXCEPT ![r] = None]
          /\ pc' = [pc EXCEPT ![r] = "refresh"]
          /\ ret' = [ret EXCEPT ![r] = "done"]
       \/ /\ "release" \in Faults
          /\ pc' = [pc EXCEPT ![r] = "done"]
          /\ UNCHANGED <<slot, ret>>
    /\ held' = [held EXCEPT ![r] = 0]
    /\ cleaned' = cleaned \ {r}
    /\ UNCHANGED <<wait, waitLife, index, swept, plan, queued, process>>

\* refreshActiveIndex, first half: purge, read the load, choose the score.
ReadLoad(r) ==
    /\ Running(r)
    /\ pc[r] = "refresh"
    /\ slot' = Purged
    /\ plan' = [plan EXCEPT ![r] = IndexScore(Purged, wait)]
    /\ pc' = [pc EXCEPT ![r] = "index"]
    /\ UNCHANGED <<wait, waitLife, index, swept, ret, held, cleaned, queued, process>>

\* The ZADD or ZREM of the index member; best effort.
WriteIndex(r) ==
    /\ Running(r)
    /\ pc[r] = "index"
    /\ \/ index' = plan[r]
       \/ "index" \in Faults /\ UNCHANGED index
    /\ pc' = [pc EXCEPT ![r] = ret[r]]
    /\ ret' = [ret EXCEPT ![r] = "done"]
    /\ plan' = [plan EXCEPT ![r] = None]
    /\ UNCHANGED <<slot, wait, waitLife, swept, held, cleaned, queued, process>>

\* The next request: generateRequestID never repeats, so r stands for a new
\* request only once no member carries its old id.
NewRequest(r) ==
    /\ Running(r)
    /\ pc[r] = "done"
    /\ slot[r] = None
    /\ pc' = [pc EXCEPT ![r] = "idle"]
    /\ UNCHANGED <<redis, ret, plan, held, cleaned, queued, process>>

-----------------------------------------------------------------------------
(* The processes.                                                          *)

\* ProvideConcurrencyService runs CleanupStaleProcessSlots before it serves.
Start(p) ==
    /\ proc[p] = "down"
    /\ Overlap \/ \A q \in Procs : proc[q] \in {"down", "dead"}
    /\ proc' = [proc EXCEPT ![p] = "sweep"]
    /\ UNCHANGED <<redis, request, keep, wk, wplan>>

\* sweepLegacyWaitKeysOnce: delete every wait key unless the marker exists.
Sweep(p) ==
    /\ proc[p] = "sweep"
    /\ wait' = IF swept THEN wait ELSE 0
    /\ waitLife' = IF swept THEN waitLife ELSE 0
    /\ swept' = TRUE
    /\ proc' = [proc EXCEPT ![p] = "scan"]
    /\ UNCHANGED <<slot, index, request, keep, wk, wplan>>

\* allIndexMembers: only a user with an index member is cleaned.
Scan(p) ==
    /\ proc[p] = "scan"
    /\ proc' = [proc EXCEPT ![p] = IF index # None THEN "slots" ELSE "up"]
    /\ UNCHANGED <<redis, request, keep, wk, wplan>>

\* startupCleanupSlotScript removes every member without this process's prefix.
Foreign(p) == {r \in Reqs : Owner[r] # p}

CleanSlots(p) ==
    /\ proc[p] = "slots"
    /\ slot' = [r \in Reqs |-> IF r \in Foreign(p) THEN None ELSE slot[r]]
    /\ cleaned' = cleaned \cup {r \in Foreign(p) : Holding(r)}
    /\ keep' = [keep EXCEPT ![p] = Members(slot) \ Foreign(p) # {}]
    /\ proc' = [proc EXCEPT ![p] = "wait"]
    /\ UNCHANGED <<wait, waitLife, index, swept, pc, ret, plan, held, queued, wk, wplan>>

\* DEL of the wait key.
CleanWait(p) ==
    /\ proc[p] = "wait"
    /\ wait' = 0
    /\ waitLife' = 0
    /\ proc' = [proc EXCEPT ![p] = "member"]
    /\ UNCHANGED <<slot, index, swept, request, keep, wk, wplan>>

\* The index member is kept for own slots and removed otherwise.
CleanMember(p) ==
    /\ proc[p] = "member"
    /\ index' = IF keep[p] THEN SlotTTL ELSE None
    /\ proc' = [proc EXCEPT ![p] = "up"]
    /\ UNCHANGED <<slot, wait, waitLife, swept, request, keep, wk, wplan>>

\* A failing cleanup step is logged and the process serves all the same.
CleanupFails(p) ==
    /\ "cleanup" \in Faults
    /\ proc[p] \in {"sweep", "scan", "slots", "wait"}
    /\ proc' = [proc EXCEPT ![p] = "up"]
    /\ UNCHANGED <<redis, request, keep, wk, wplan>>

\* The process dies with everything it was doing; Redis keeps its state.
Crash(p) ==
    /\ proc[p] \notin {"down", "dead"}
    /\ proc' = [proc EXCEPT ![p] = "dead"]
    /\ pc' = [r \in Reqs |-> IF Owner[r] = p THEN "dead" ELSE pc[r]]
    /\ ret' = [r \in Reqs |-> IF Owner[r] = p THEN "done" ELSE ret[r]]
    /\ plan' = [r \in Reqs |-> IF Owner[r] = p THEN None ELSE plan[r]]
    /\ held' = [r \in Reqs |-> IF Owner[r] = p THEN 0 ELSE held[r]]
    /\ cleaned' = {r \in cleaned : Owner[r] # p}
    /\ queued' = [r \in Reqs |-> IF Owner[r] = p THEN 0 ELSE queued[r]]
    /\ keep' = [keep EXCEPT ![p] = FALSE]
    /\ wk' = [wk EXCEPT ![p] = "rest"]
    /\ wplan' = [wplan EXCEPT ![p] = None]
    /\ UNCHANGED redis

\* A new process has a new random prefix: p stands for one again only when
\* no member carries the old prefix.
Replace(p) ==
    /\ proc[p] = "dead"
    /\ \A r \in Reqs : Owner[r] = p => slot[r] = None
    /\ proc' = [proc EXCEPT ![p] = "down"]
    /\ pc' = [r \in Reqs |-> IF Owner[r] = p THEN "idle" ELSE pc[r]]
    /\ UNCHANGED <<redis, ret, plan, held, cleaned, queued, keep, wk, wplan>>

\* reconcileExpiredIndexCandidates: due members are read back from the load.
ReconcileScan(p) ==
    /\ proc[p] = "up"
    /\ wk[p] = "rest"
    /\ index = 0
    /\ wk' = [wk EXCEPT ![p] = "load"]
    /\ UNCHANGED <<redis, request, proc, keep, wplan>>

ReconcileLoad(p) ==
    /\ proc[p] = "up"
    /\ wk[p] = "load"
    /\ slot' = Purged
    /\ wplan' = [wplan EXCEPT ![p] = IndexScore(Purged, wait)]
    /\ wk' = [wk EXCEPT ![p] = "write"]
    /\ UNCHANGED <<wait, waitLife, index, swept, request, proc, keep>>

ReconcileWrite(p) ==
    /\ proc[p] = "up"
    /\ wk[p] = "write"
    /\ index' = wplan[p]
    /\ wk' = [wk EXCEPT ![p] = "rest"]
    /\ wplan' = [wplan EXCEPT ![p] = None]
    /\ UNCHANGED <<slot, wait, waitLife, swept, request, proc, keep>>

-----------------------------------------------------------------------------
(* Time.                                                                   *)

Decay(n) == IF n > 0 THEN n - 1 ELSE n

\* Redis time advances: scores age and the wait key may expire.  With
\* SpanBounded no request outlives the TTL of its slot or of the counter; no code
\* bounds a request, and only the properties of the queue need it.
Tick ==
    /\ SpanBounded => \A r \in Reqs : /\ Holding(r) => held[r] > 1
                                      /\ Queued(r) => queued[r] > 1
    /\ slot' = [r \in Reqs |-> Decay(slot[r])]
    /\ waitLife' = Decay(waitLife)
    /\ wait' = IF waitLife <= 1 THEN 0 ELSE wait
    /\ index' = Decay(index)
    /\ plan' = [r \in Reqs |-> Decay(plan[r])]
    /\ held' = [r \in Reqs |-> Decay(held[r])]
    /\ queued' = [r \in Reqs |-> Decay(queued[r])]
    /\ wplan' = [p \in Procs |-> Decay(wplan[p])]
    /\ UNCHANGED <<swept, pc, ret, cleaned, proc, keep, wk>>

-----------------------------------------------------------------------------

Init ==
    /\ slot = [r \in Reqs |-> None]
    /\ wait = 0
    /\ waitLife = 0
    /\ index = None
    /\ swept = FALSE
    /\ pc = [r \in Reqs |-> "idle"]
    /\ ret = [r \in Reqs |-> "done"]
    /\ plan = [r \in Reqs |-> None]
    /\ held = [r \in Reqs |-> 0]
    /\ cleaned = {}
    /\ queued = [r \in Reqs |-> 0]
    /\ proc = [p \in Procs |-> "down"]
    /\ keep = [p \in Procs |-> FALSE]
    /\ wk = [p \in Procs |-> "rest"]
    /\ wplan = [p \in Procs |-> None]

RequestStep(r) ==
    \/ Acquire(r) \/ AcquireReplyLost(r)
    \/ IncrementWait(r) \/ IncrementWaitFailsOpen(r)
    \/ GiveUp(r) \/ DecrementWait(r)
    \/ Release(r) \/ ReadLoad(r) \/ WriteIndex(r) \/ NewRequest(r)

StartupStep(p) ==
    \/ Sweep(p) \/ Scan(p) \/ CleanSlots(p) \/ CleanWait(p) \/ CleanMember(p)

WorkerStep(p) == ReconcileScan(p) \/ ReconcileLoad(p) \/ ReconcileWrite(p)

ProcessStep(p) ==
    \/ Start(p) \/ StartupStep(p) \/ CleanupFails(p)
    \/ Crash(p) \/ Replace(p) \/ WorkerStep(p)

Next ==
    \/ \E r \in Reqs : RequestStep(r)
    \/ \E p \in Procs : ProcessStep(p)
    \/ Tick

Spec == Init /\ [][Next]_vars

-----------------------------------------------------------------------------
(* Properties.                                                             *)

\* The sorted set never holds more members than the limit, whatever crashes,
\* lost replies, failed releases and overlapping startups do (acquireScript
\* counts and adds in one script).
CapInv == Cardinality(Members(slot)) <= MaxConcurrency

\* The request is in service on a slot that is still its own: the TTL of the
\* slot has not run out since it was acquired (nothing renews a slot, and
\* nothing bounds how long a request runs), and no process that started in the
\* meantime has removed the slots of the other processes.
Entitled(r) == Holding(r) /\ held[r] > 0 /\ r \notin cleaned

\* Those two are the only ways to lose a slot: the member of every other request
\* in service is in the set and unexpired, whatever reconcilers, releases,
\* purges, crashes and starting processes do to the shared keys.
HolderKeepsSlot == \A r \in Reqs : Entitled(r) => slot[r] > 0

\* What the limiter is for: never more requests in service than the limit,
\* those not counted that have lost their slot in one of the two ways.
RunningBounded == Cardinality({r \in Reqs : Entitled(r)}) <= MaxConcurrency

\* The wait counter is never below the number of requests in the queue, so the
\* queue limit is never exceeded by requests that were counted.
WaitCoversQueue == Cardinality({r \in Reqs : Queued(r)}) <= wait

\* What the queue limit is for: never more requests waiting than it allows.
WaitersBounded == Cardinality({r \in Reqs : Queued(r)}) <= QueueLimit

\* Time passes, started work goes on, a dead process is replaced and its
\* worker's ticker fires; nothing forces new requests or crashes.
Fairness ==
    /\ WF_vars(Tick)
    /\ \A r \in Reqs : /\ WF_vars(GiveUp(r))
                        /\ WF_vars(IncrementWait(r) \/ DecrementWait(r) \/ Release(r))
                        /\ WF_vars(ReadLoad(r) \/ WriteIndex(r))
    /\ \A p \in Procs : /\ WF_vars(Start(p)) /\ WF_vars(Replace(p))
                         /\ WF_vars(StartupStep(p)) /\ WF_vars(WorkerStep(p))

FairSpec == Spec /\ Fairness

\* When the load is gone for good and some process stays up, the index member
\* goes for good: neither a late index write nor a crash leaves an entry no
\* worker ever removes.
IndexDrains ==
    \A p \in Procs :
        <>[](Members(slot) = {} /\ wait = 0 /\ proc[p] = "up") => <>[](index = None)

=============================================================================
