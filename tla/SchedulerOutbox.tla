-------------------------- MODULE SchedulerOutbox --------------------------
(***************************************************************************)
(* How a change of an account or a group reaches the scheduler's cache:    *)
(*                                                                         *)
(*   repository/scheduler_outbox_repo.go     enqueue with deduplication,   *)
(*                                           listing, cleanup              *)
(*   repository/scheduler_outbox_retry.go    the durable retry queue       *)
(*   service/scheduler_snapshot_service.go   pollOutbox and its helpers    *)
(*   service/scheduler_snapshot_outbox_retry.go  the retry worker          *)
(*                                                                         *)
(* PostgreSQL keeps the events and the retry tasks, Redis the watermark:   *)
(* one plain value that every instance reads, and writes without           *)
(* comparing.  Each instance runs one poller and one retry worker.         *)
(*                                                                         *)
(* A key stands for what an event is about, with the cache entries and     *)
(* buckets its handler rewrites.  version[k] counts the committed changes  *)
(* of k; covered[k] is the highest version that some completed handler had *)
(* read when it started.  How two handlers of one key exclude each other   *)
(* when they publish is not part of this module.                           *)
(***************************************************************************)
EXTENDS Integers, FiniteSets

CONSTANTS
    Keys,        \* accounts and groups
    Pollers,     \* instances, as runners of runOutboxWorker
    Workers,     \* instances, as runners of runOutboxRetryWorker
    Writers,     \* requests that change a key and enqueue its event
    MaxId,       \* bound: changes begun, hence ids drawn
    MaxGen,      \* bound: generations in use at one time
    Limit,       \* events per poll (200)
    Reorder,     \* TRUE: ids become visible in any order, as in PostgreSQL
    DedupInTx,   \* TRUE: transactions enqueue deduplicated events, as the code does
    Lossy,       \* TRUE: an enqueue after the commit of its change may fail
    Crashes      \* TRUE: processes die, Redis may lose the watermark

ASSUME ConstantsAssumption ==
    /\ Keys # {}
    /\ MaxId \in Nat
    /\ MaxGen \in Nat
    /\ Limit \in Nat \ {0}
    /\ Reorder \in BOOLEAN /\ DedupInTx \in BOOLEAN
    /\ Lossy \in BOOLEAN /\ Crashes \in BOOLEAN

VARIABLES
    version, covered,       \* see above
    begun, next,            \* changes begun; next value of the id sequence
    writer, wkey, wrow,     \* state, key and uncommitted event of a writer
    rows,                   \* ids of the committed rows of scheduler_outbox
    keyOf,                  \* account_id / group_id of an event
    dedup,                  \* ids whose dedup_key is not NULL
    watermark,              \* Redis
    poller, after, batch, event, last, seen, snap,   \* locals of pollOutbox
    tasks, leased, gen,     \* scheduler_outbox_retries, lease_until > NOW(), generation (0: none)
    worker, job, jobGen, jobSnap,             \* locals of pollOutboxRetry
    settled,                \* history: events handled or copied to tasks
    carrier,                \* history: the event that announces the latest change
    late,                   \* history: events that appeared behind a poller's position
    holds                   \* history: the worker's lease has not run out

outboxVars == <<rows, keyOf, dedup, next>>
writerVars == <<version, begun, writer, wkey, wrow, carrier, late>>
pollVars == <<watermark, poller, after, batch, event, last, seen, snap, settled>>
taskVars == <<tasks, leased, gen>>
workVars == <<worker, job, jobGen, jobSnap, holds>>
vars == <<outboxVars, writerVars, pollVars, taskVars, workVars, covered>>

Ids == 1..MaxId
NoId == 0
Generations == 1..MaxGen
AnyKey == CHOOSE k \in Keys : TRUE   \* of writers and events not yet in use

WriterStates == {"idle", "owes", "auto", "tx"}
PollerStates == {"idle", "read", "batch", "handling", "failed", "advance", "cleanup"}
WorkerStates == {"idle", "claimed", "running", "handled", "failed"}

TypeOK ==
    /\ version \in [Keys -> Nat] /\ covered \in [Keys -> Nat]
    /\ begun \in 0..MaxId /\ next \in 1..(MaxId + 1)
    /\ writer \in [Writers -> WriterStates]
    /\ wkey \in [Writers -> Keys]
    /\ wrow \in [Writers -> {NoId} \cup Ids]
    /\ rows \subseteq Ids /\ dedup \subseteq Ids
    /\ keyOf \in [Ids -> Keys]
    /\ watermark \in {NoId} \cup Ids
    /\ poller \in [Pollers -> PollerStates]
    /\ after \in [Pollers -> {NoId} \cup Ids]
    /\ batch \in [Pollers -> SUBSET Ids]
    /\ event \in [Pollers -> {NoId} \cup Ids]
    /\ last \in [Pollers -> {NoId} \cup Ids]
    /\ seen \in [Pollers -> SUBSET Keys]
    /\ snap \in [Pollers -> Nat]
    /\ leased \subseteq tasks /\ tasks \subseteq Ids
    /\ gen \in [Ids -> {0} \cup Generations]
    /\ worker \in [Workers -> WorkerStates]
    /\ job \in [Workers -> {NoId} \cup Ids]
    /\ jobGen \in [Workers -> {0} \cup Generations]
    /\ jobSnap \in [Workers -> Nat]
    /\ settled \subseteq Ids
    /\ carrier \in [Keys -> {NoId} \cup Ids]
    /\ late \subseteq Ids
    /\ holds \in [Workers -> BOOLEAN]

Init ==
    /\ version = [k \in Keys |-> 0] /\ covered = [k \in Keys |-> 0]
    /\ begun = 0 /\ next = 1
    /\ writer = [w \in Writers |-> "idle"]
    /\ wkey = [w \in Writers |-> AnyKey]
    /\ wrow = [w \in Writers |-> NoId]
    /\ rows = {} /\ dedup = {}
    /\ keyOf = [e \in Ids |-> AnyKey]
    /\ watermark = NoId
    /\ poller = [i \in Pollers |-> "idle"]
    /\ after = [i \in Pollers |-> NoId] /\ last = [i \in Pollers |-> NoId]
    /\ batch = [i \in Pollers |-> {}] /\ event = [i \in Pollers |-> NoId]
    /\ seen = [i \in Pollers |-> {}] /\ snap = [i \in Pollers |-> 0]
    /\ tasks = {} /\ leased = {} /\ gen = [e \in Ids |-> 0]
    /\ worker = [i \in Workers |-> "idle"]
    /\ job = [i \in Workers |-> NoId] /\ jobGen = [i \in Workers |-> 0]
    /\ jobSnap = [i \in Workers |-> 0]
    /\ settled = {} /\ carrier = [k \in Keys |-> NoId] /\ late = {}
    /\ holds = [i \in Workers |-> FALSE]

Larger(a, b) == IF a >= b THEN a ELSE b

-----------------------------------------------------------------------------
(* Writers.  A repository method either updates the account, commits, and  *)
(* then enqueues with a statement of its own (owes, auto), or does both in *)
(* one transaction that keeps the account's row locked (tx).               *)

Open == {wrow[w] : w \in Writers} \ {NoId}

\* Committed rows that an insert for k conflicts with.
Duplicates(k) == {e \in rows \cap dedup : keyOf[e] = k}

\* The insert waits while a conflicting row is uncommitted.
InsertWaits(k) == \E e \in Open \cap dedup : keyOf[e] = k

RowLocked(k) == \E w \in Writers : writer[w] = "tx" /\ wkey[w] = k

\* The latest change of k is announced by one of the events, if there is one.
Announce(k, events, otherwise) ==
    \/ \E e \in events : carrier' = [carrier EXCEPT ![k] = e]
    \/ events = {} /\ carrier' = otherwise

\* A new row with its id, drawn from the sequence before the commit.
InsertRow(w, k, deduplicated) ==
    /\ next <= MaxId
    /\ next' = next + 1
    /\ wrow' = [wrow EXCEPT ![w] = next]
    /\ keyOf' = [keyOf EXCEPT ![next] = k]
    /\ dedup' = IF deduplicated THEN dedup \cup {next} ELSE dedup
    /\ UNCHANGED rows

\* ON CONFLICT DO NOTHING: the value of the sequence is used up.
InsertNothing(w) ==
    /\ next <= MaxId
    /\ next' = next + 1
    /\ UNCHANGED <<wrow, rows, keyOf, dedup>>

\* The update of a method that enqueues afterwards: committed at once.
Change(w, k) ==
    /\ writer[w] = "idle" /\ begun < MaxId
    /\ ~RowLocked(k)
    /\ begun' = begun + 1
    /\ version' = [version EXCEPT ![k] = @ + 1]
    /\ carrier' = [carrier EXCEPT ![k] = NoId]
    /\ writer' = [writer EXCEPT ![w] = "owes"]
    /\ wkey' = [wkey EXCEPT ![w] = k]
    /\ UNCHANGED <<outboxVars, wrow, late, pollVars, taskVars, workVars, covered>>

enqueueSchedulerOutbox(w, deduplicated) ==
    LET k == wkey[w] IN
    /\ writer[w] = "owes"
    /\ deduplicated => ~InsertWaits(k)
    /\ IF deduplicated /\ Duplicates(k) # {}
       THEN /\ InsertNothing(w)
            /\ writer' = [writer EXCEPT ![w] = "idle"]
            /\ Announce(k, Duplicates(k) \ late, carrier)
       ELSE /\ InsertRow(w, k, deduplicated)
            /\ writer' = [writer EXCEPT ![w] = "auto"]
            /\ UNCHANGED carrier
    /\ UNCHANGED <<version, begun, wkey, late, pollVars, taskVars, workVars, covered>>

\* The callers only log an enqueue that fails.
EnqueueFails(w) ==
    /\ Lossy /\ writer[w] = "owes"
    /\ writer' = [writer EXCEPT ![w] = "idle"]
    /\ UNCHANGED <<version, begun, wkey, wrow, carrier, late, outboxVars, pollVars,
                   taskVars, workVars, covered>>

\* A transaction that updates the account and then enqueues.
Transaction(w, k, deduplicated) ==
    /\ writer[w] = "idle" /\ begun < MaxId
    /\ ~RowLocked(k)
    /\ deduplicated => DedupInTx /\ ~InsertWaits(k)
    /\ IF deduplicated /\ Duplicates(k) # {}
       THEN InsertNothing(w)
       ELSE InsertRow(w, k, deduplicated)
    /\ begun' = begun + 1
    /\ writer' = [writer EXCEPT ![w] = "tx"]
    /\ wkey' = [wkey EXCEPT ![w] = k]
    /\ UNCHANGED <<version, carrier, late, pollVars, taskVars, workVars, covered>>

\* Ids are drawn in order but, unless ~Reorder, may become visible in any.
InTurn(w) == wrow[w] = NoId \/ Reorder \/ \A e \in Open : wrow[w] <= e

\* Some poller's position, or the watermark, has reached the id.
Passed(e) ==
    \/ e <= watermark
    \/ \E i \in Pollers :
        e <= after[i] \/ e <= last[i] \/ \E c \in batch[i] : e <= c

\* The change relies on the event of its own, or on the one its insert met, if
\* a poller is still to list it.
Commit(w) ==
    LET k == wkey[w]
        own == {wrow[w]} \ {NoId}
        relied == IF own = {} THEN Duplicates(k) ELSE own
    IN
    /\ writer[w] \in {"auto", "tx"} /\ InTurn(w)
    /\ rows' = rows \cup own
    /\ version' = IF writer[w] = "tx" THEN [version EXCEPT ![k] = @ + 1] ELSE version
    /\ late' = late \cup {e \in own : Passed(e)}
    /\ Announce(k, relied \ late',
                IF writer[w] = "tx" THEN [carrier EXCEPT ![k] = NoId] ELSE carrier)
    /\ writer' = [writer EXCEPT ![w] = "idle"]
    /\ wrow' = [wrow EXCEPT ![w] = NoId]
    /\ UNCHANGED <<begun, wkey, keyOf, dedup, next, pollVars, taskVars, workVars, covered>>

Rollback(w) ==
    /\ writer[w] = "tx"
    /\ writer' = [writer EXCEPT ![w] = "idle"]
    /\ wrow' = [wrow EXCEPT ![w] = NoId]
    /\ dedup' = dedup \ {wrow[w]}
    /\ UNCHANGED <<version, begun, wkey, carrier, late, rows, keyOf, next, pollVars,
                   taskVars, workVars, covered>>

-----------------------------------------------------------------------------
(* pollOutbox.  The waits that the in-memory backoff adds before a poll    *)
(* are not told apart from the ticker's.                                   *)

\* SELECT ... WHERE id > after ORDER BY id LIMIT Limit
Listing(i) ==
    LET found == {e \in rows : e > after[i]} IN
    {b \in SUBSET found :
        /\ Cardinality(b) = Limit \/ (b = found /\ Cardinality(b) < Limit)
        /\ \A e \in b, f \in found : f < e => f \in b}

Return(i) ==
    /\ poller' = [poller EXCEPT ![i] = "idle"]
    /\ after' = [after EXCEPT ![i] = NoId]
    /\ batch' = [batch EXCEPT ![i] = {}]
    /\ event' = [event EXCEPT ![i] = NoId]
    /\ last' = [last EXCEPT ![i] = NoId]
    /\ seen' = [seen EXCEPT ![i] = {}]
    /\ snap' = [snap EXCEPT ![i] = 0]

GetOutboxWatermark(i) ==
    /\ poller[i] = "idle"
    /\ poller' = [poller EXCEPT ![i] = "read"]
    /\ after' = [after EXCEPT ![i] = watermark]
    /\ UNCHANGED <<outboxVars, writerVars, watermark, batch, event, last, seen, snap,
                   settled, taskVars, workVars, covered>>

\* Mutant: the dedup keys stay until the rows are deleted.
ListKeepsDedup(i) ==
    /\ poller[i] = "read"
    /\ \E b \in Listing(i) : b # {} /\ batch' = [batch EXCEPT ![i] = b]
    /\ poller' = [poller EXCEPT ![i] = "batch"]
    /\ last' = [last EXCEPT ![i] = after[i]]
    /\ seen' = [seen EXCEPT ![i] = {}]
    /\ UNCHANGED <<outboxVars, writerVars, watermark, after, event, snap,
                   settled, taskVars, workVars, covered>>

ListAfterAndReleaseDedup(i) ==
    /\ poller[i] = "read"
    /\ \E b \in Listing(i) :
        /\ b # {}
        /\ dedup' = dedup \ b
        /\ batch' = [batch EXCEPT ![i] = b]
    /\ poller' = [poller EXCEPT ![i] = "batch"]
    /\ last' = [last EXCEPT ![i] = after[i]]
    /\ seen' = [seen EXCEPT ![i] = {}]
    /\ UNCHANGED <<rows, keyOf, next, writerVars, watermark, after, event, snap,
                   settled, taskVars, workVars, covered>>

\* Nothing to do, or a failed query: whether the keys were released is open.
PollEnds(i) ==
    /\ poller[i] = "read"
    /\ \E b \in Listing(i) : dedup' = dedup \ b \/ dedup' = dedup
    /\ Return(i)
    /\ UNCHANGED <<rows, keyOf, next, writerVars, watermark, settled, taskVars,
                   workVars, covered>>

\* The handler reads the current state of its key, unless this batch has
\* rebuilt the key's buckets already.
HandleStart(i) ==
    /\ poller[i] = "batch"
    /\ \E e \in batch[i] :
        LET k == keyOf[e] IN
        /\ \A f \in batch[i] : e <= f
        /\ event' = [event EXCEPT ![i] = e]
        /\ snap' = [snap EXCEPT ![i] = IF k \in seen[i] THEN 0 ELSE version[k]]
        /\ seen' = [seen EXCEPT ![i] = @ \cup {k}]
    /\ poller' = [poller EXCEPT ![i] = "handling"]
    /\ UNCHANGED <<outboxVars, writerVars, watermark, after, batch, last, settled,
                   taskVars, workVars, covered>>

\* The event is done with: on to the next one, or to the watermark.
Settle(i) ==
    /\ settled' = settled \cup {event[i]}
    /\ last' = [last EXCEPT ![i] = event[i]]
    /\ batch' = [batch EXCEPT ![i] = @ \ {event[i]}]
    /\ poller' = [poller EXCEPT ![i] =
                    IF batch[i] = {event[i]} THEN "advance" ELSE "batch"]
    /\ event' = [event EXCEPT ![i] = NoId]
    /\ snap' = [snap EXCEPT ![i] = 0]

HandleOk(i) ==
    /\ poller[i] = "handling"
    /\ covered' = [covered EXCEPT ![keyOf[event[i]]] = Larger(@, snap[i])]
    /\ Settle(i)
    /\ UNCHANGED <<outboxVars, writerVars, watermark, after, seen, taskVars, workVars>>

HandleFails(i) ==
    /\ poller[i] = "handling"
    /\ poller' = [poller EXCEPT ![i] = "failed"]
    /\ UNCHANGED <<outboxVars, writerVars, watermark, after, batch, event, last,
                   seen, snap, settled, taskVars, workVars, covered>>

\* INSERT ... SELECT ... ON CONFLICT: an existing task keeps its lease.
CopyTask(e) ==
    /\ tasks' = tasks \cup {e}
    /\ UNCHANGED <<leased, gen>>

DeferOutboxEvent(i) ==
    /\ poller[i] = "failed" /\ event[i] \in rows
    /\ CopyTask(event[i])
    /\ Settle(i)
    /\ seen' = [seen EXCEPT ![i] = {}]
    /\ UNCHANGED <<outboxVars, writerVars, watermark, after, workVars, covered>>

\* Mutant: the failed event counts as part of the handled prefix.
SkipFailure(i) ==
    /\ poller' = [poller EXCEPT ![i] = "advance"]
    /\ last' = [last EXCEPT ![i] = event[i]]
    /\ batch' = [batch EXCEPT ![i] = {}]
    /\ event' = [event EXCEPT ![i] = NoId]
    /\ seen' = [seen EXCEPT ![i] = {}]
    /\ snap' = [snap EXCEPT ![i] = 0]
    /\ UNCHANGED after

\* The copy failed, as far as the poller knows: keep the handled prefix.
StopAtFailure(i) ==
    IF last[i] > after[i]
    THEN /\ poller' = [poller EXCEPT ![i] = "advance"]
         /\ batch' = [batch EXCEPT ![i] = {}]
         /\ event' = [event EXCEPT ![i] = NoId]
         /\ seen' = [seen EXCEPT ![i] = {}]
         /\ snap' = [snap EXCEPT ![i] = 0]
         /\ UNCHANGED <<after, last>>
    ELSE Return(i)

DeferFails(i) ==
    /\ poller[i] = "failed"
    /\ \/ event[i] \in rows /\ CopyTask(event[i])
       \/ UNCHANGED taskVars
    /\ StopAtFailure(i)
    /\ UNCHANGED <<outboxVars, writerVars, watermark, settled, workVars, covered>>

SetOutboxWatermark(i) ==
    /\ poller[i] = "advance"
    /\ watermark' = last[i]
    /\ poller' = [poller EXCEPT ![i] = "cleanup"]
    /\ UNCHANGED <<outboxVars, writerVars, after, batch, event, last, seen, snap,
                   settled, taskVars, workVars, covered>>

\* Three attempts failed; one of them may still have been carried out.
SetWatermarkFails(i) ==
    /\ poller[i] = "advance"
    /\ watermark' \in {watermark, last[i]}
    /\ Return(i)
    /\ UNCHANGED <<outboxVars, writerVars, settled, taskVars, workVars, covered>>

\* The rows a cleanup may delete: the consumed ones past the grace period.
\* None, if the advisory lock is taken or the statement fails.
DeleteConsumedUpTo(id) == SUBSET {e \in rows : e <= id}

cleanupConsumedOutbox(i) ==
    /\ poller[i] = "cleanup"
    /\ \E aged \in DeleteConsumedUpTo(last[i]) :
        /\ rows' = rows \ aged
        /\ dedup' = dedup \ aged
    /\ Return(i)
    /\ UNCHANGED <<keyOf, next, writerVars, watermark, settled, taskVars, workVars,
                   covered>>

-----------------------------------------------------------------------------
(* pollOutboxRetry.                                                        *)

\* nextval of the generation sequence.  Generations are only compared for
\* equality, so the least one that nothing refers to stands for a new one.
Unused(g) ==
    /\ \A i \in Workers : worker[i] # "idle" => jobGen[i] # g
    /\ \A e \in tasks : gen[e] # g

NextGeneration(e) ==
    {g \in Generations : Unused(g) /\ \A h \in Generations : Unused(h) => g <= h}

\* Mutant: a lease that has run out is not taken over.
NeverClaimed(e) == e \in tasks \ leased /\ gen[e] = 0

\* Due, with no lease or one that has run out.
Claimable(e) == e \in tasks \ leased

\* Mutant: the generation is not compared.
LeasedToSomeone(i) == job[i] \in leased
Owns(i) == job[i] \in leased /\ gen[job[i]] = jobGen[i]

Idle(i) ==
    /\ worker' = [worker EXCEPT ![i] = "idle"]
    /\ job' = [job EXCEPT ![i] = NoId]
    /\ jobGen' = [jobGen EXCEPT ![i] = 0]
    /\ jobSnap' = [jobSnap EXCEPT ![i] = 0]
    /\ holds' = [holds EXCEPT ![i] = FALSE]

ClaimOutboxRetry(i, e) ==
    /\ worker[i] = "idle" /\ Claimable(e)
    /\ \E g \in NextGeneration(e) :
        /\ gen' = [gen EXCEPT ![e] = g]
        /\ jobGen' = [jobGen EXCEPT ![i] = g]
    /\ leased' = leased \cup {e}
    /\ worker' = [worker EXCEPT ![i] = "claimed"]
    /\ job' = [job EXCEPT ![i] = e]
    /\ holds' = [holds EXCEPT ![i] = TRUE]
    /\ UNCHANGED <<outboxVars, writerVars, pollVars, tasks, jobSnap, covered>>

RetryStart(i) ==
    /\ worker[i] = "claimed"
    /\ worker' = [worker EXCEPT ![i] = "running"]
    /\ jobSnap' = [jobSnap EXCEPT ![i] = version[keyOf[job[i]]]]
    /\ UNCHANGED <<outboxVars, writerVars, pollVars, taskVars, job, jobGen, holds, covered>>

RetryOk(i) ==
    /\ worker[i] = "running"
    /\ worker' = [worker EXCEPT ![i] = "handled"]
    /\ covered' = [covered EXCEPT ![keyOf[job[i]]] = Larger(@, jobSnap[i])]
    /\ UNCHANGED <<outboxVars, writerVars, pollVars, taskVars, job, jobGen, jobSnap, holds>>

RetryFails(i) ==
    /\ worker[i] = "running"
    /\ worker' = [worker EXCEPT ![i] = "failed"]
    /\ UNCHANGED <<outboxVars, writerVars, pollVars, taskVars, job, jobGen, jobSnap,
                   holds, covered>>

CompleteOutboxRetry(i) ==
    /\ worker[i] = "handled" /\ Owns(i)
    /\ tasks' = tasks \ {job[i]}
    /\ leased' = leased \ {job[i]}
    /\ gen' = [gen EXCEPT ![job[i]] = 0]
    /\ Idle(i)
    /\ UNCHANGED <<outboxVars, writerVars, pollVars, covered>>

RescheduleOutboxRetry(i) ==
    /\ worker[i] = "failed" /\ Owns(i)
    /\ leased' = leased \ {job[i]}
    /\ Idle(i)
    /\ UNCHANGED <<outboxVars, writerVars, pollVars, tasks, gen, covered>>

\* The claimed event cannot be decoded, or the last statement fails or finds
\* another owner: the task stays as it is.
RetryAbandoned(i) ==
    /\ worker[i] \in {"claimed", "handled", "failed"}
    /\ Idle(i)
    /\ UNCHANGED <<outboxVars, writerVars, pollVars, taskVars, covered>>

LeaseExpires(e) ==
    /\ e \in leased
    /\ leased' = leased \ {e}
    /\ holds' = [i \in Workers |->
                    holds[i] /\ ~(job[i] = e /\ jobGen[i] = gen[e])]
    /\ UNCHANGED <<outboxVars, writerVars, pollVars, tasks, gen, worker, job, jobGen,
                   jobSnap, covered>>

-----------------------------------------------------------------------------
(* Failures.                                                               *)

\* The death of a process takes both of its loops.
PollerDies(i) ==
    /\ Crashes /\ poller[i] # "idle"
    /\ Return(i)
    /\ UNCHANGED <<outboxVars, writerVars, watermark, settled, taskVars, workVars, covered>>

WorkerDies(i) ==
    /\ Crashes /\ worker[i] # "idle"
    /\ Idle(i)
    /\ UNCHANGED <<outboxVars, writerVars, pollVars, taskVars, covered>>

\* GetOutboxWatermark takes a missing key for 0.
WatermarkLost ==
    /\ Crashes
    /\ watermark' = NoId
    /\ UNCHANGED <<outboxVars, writerVars, poller, after, batch, event, last, seen, snap,
                   settled, taskVars, workVars, covered>>

-----------------------------------------------------------------------------
Write(w) ==
    \/ \E k \in Keys : Change(w, k)
    \/ \E d \in BOOLEAN : enqueueSchedulerOutbox(w, d)
    \/ EnqueueFails(w)
    \/ \E k \in Keys, d \in BOOLEAN : Transaction(w, k, d)
    \/ Commit(w)
    \/ Rollback(w)

Poll(i) ==
    \/ GetOutboxWatermark(i) \/ ListAfterAndReleaseDedup(i) \/ PollEnds(i)
    \/ HandleStart(i) \/ HandleOk(i) \/ HandleFails(i)
    \/ DeferOutboxEvent(i) \/ DeferFails(i)
    \/ SetOutboxWatermark(i) \/ SetWatermarkFails(i) \/ cleanupConsumedOutbox(i)

Retry(i) ==
    \/ \E e \in Ids : ClaimOutboxRetry(i, e)
    \/ RetryStart(i) \/ RetryOk(i) \/ RetryFails(i)
    \/ CompleteOutboxRetry(i) \/ RescheduleOutboxRetry(i) \/ RetryAbandoned(i)

Next ==
    \/ \E w \in Writers : Write(w)
    \/ \E i \in Pollers : Poll(i) \/ PollerDies(i)
    \/ \E i \in Workers : Retry(i) \/ WorkerDies(i)
    \/ \E e \in Ids : LeaseExpires(e)
    \/ WatermarkLost

Spec == Init /\ [][Next]_vars

-----------------------------------------------------------------------------
(* Properties.                                                             *)

\* No committed change that an event announces is forgotten (pollOutbox, the
\* retry queue, dedup): as long as no completed handler has read it, an event of
\* its key is yet to be polled or waits in the retry queue.
NoChangeLost ==
    \A k \in Keys :
        \/ carrier[k] = NoId
        \/ covered[k] >= version[k]
        \/ \E e \in rows : e > watermark /\ keyOf[e] = k
        \/ \E e \in tasks : keyOf[e] = k

\* DeleteConsumedUpTo removes a row only after its event has been handled or
\* copied to the retry queue, whatever the other instances' pollers do, unless
\* the row appeared behind their positions.
CleanupOnlySettled == [][rows \ rows' \subseteq settled \cup late]_vars

\* Until its lease runs out, a retry worker is the one owner of its task: no
\* worker whose lease on it ran out earlier completes or reschedules it, also
\* when the task was completed and copied anew meanwhile, and no copy by a
\* poller resets it.
LeaseHonoured ==
    \A i \in Workers : worker[i] # "idle" /\ holds[i] => Owns(i)

-----------------------------------------------------------------------------
(* Fairness.  Tickers fire, statements end, leases run out.  A listing, a  *)
(* copy, the watermark's SET and the steps of a retry may fail any number  *)
(* of times but not for ever; the poller's handlers may fail for ever.     *)

Fairness ==
    /\ \A w \in Writers :
        WF_vars((\E d \in BOOLEAN : enqueueSchedulerOutbox(w, d)) \/ Commit(w))
    /\ \A i \in Pollers :
        /\ WF_vars(\/ GetOutboxWatermark(i) \/ HandleStart(i) \/ HandleOk(i)
                   \/ HandleFails(i) \/ cleanupConsumedOutbox(i))
        /\ SF_vars(ListAfterAndReleaseDedup(i))
        /\ SF_vars(DeferOutboxEvent(i))
        /\ SF_vars(SetOutboxWatermark(i))
    /\ \A i \in Workers :
        /\ WF_vars(RetryFails(i) \/ RescheduleOutboxRetry(i) \/ RetryAbandoned(i))
        /\ SF_vars(RetryStart(i))
        /\ SF_vars(RetryOk(i))
        /\ SF_vars(CompleteOutboxRetry(i))
        /\ WF_vars(\E e \in Ids : ClaimOutboxRetry(i, e))
    /\ WF_vars(\E e \in Ids : LeaseExpires(e))

FairSpec == Spec /\ Fairness

\* Every committed change that an event announces is eventually read by a
\* handler that completes, by the poller or, when that keeps failing, by the
\* retry workers.
Delivered ==
    \A k \in Keys, v \in Ids : version[k] >= v /\ carrier[k] # NoId ~> covered[k] >= v

-----------------------------------------------------------------------------
(* The inductive invariants behind LeaseHonoured and CleanupOnlySettled.   *)

\* A poller in the middle of an event works on the first one of its batch.
EventIsFirst ==
    \A i \in Pollers : poller[i] \in {"handling", "failed"} =>
        event[i] \in batch[i] /\ \A e \in batch[i] : event[i] <= e

\* A busy worker has a job, and a generation no other busy worker has.
JobsAreNamed ==
    \A i \in Workers : worker[i] # "idle" => job[i] \in Ids /\ jobGen[i] \in Generations

GenerationsDiffer ==
    \A i, j \in Workers :
        i # j /\ worker[i] # "idle" /\ worker[j] # "idle" => jobGen[i] # jobGen[j]

\* Ids are drawn once.
IdsAreFresh ==
    /\ \A e \in rows : e < next /\ e \notin Open
    /\ \A w \in Writers : wrow[w] < next
    /\ \A v, w \in Writers : v # w /\ wrow[v] # NoId => wrow[v] # wrow[w]

\* The events up to the id n that did not appear late are settled, but for the
\* ones in the set b.
ClosedTo(n, b) == \A e \in rows : e <= n => e \in settled \cup b \cup late

PositionsAreClosed ==
    /\ ClosedTo(watermark, {})
    /\ \A i \in Pollers :
        /\ ClosedTo(after[i], {}) /\ ClosedTo(last[i], {})
        /\ \A c \in batch[i] : ClosedTo(c, batch[i])

OrderInv == EventIsFirst /\ IdsAreFresh /\ PositionsAreClosed

LeaseInv == JobsAreNamed /\ GenerationsDiffer /\ LeaseHonoured

-----------------------------------------------------------------------------
(* The inductive invariant behind NoChangeLost.                            *)

\* A writer's uncommitted event is about the key it changed.
RowsAreNamed ==
    \A w \in Writers :
        /\ wrow[w] # NoId => writer[w] \in {"auto", "tx"} /\ keyOf[wrow[w]] = wkey[w]
        /\ writer[w] = "auto" => wrow[w] # NoId

\* The events that a poller has listed, or a task was made of.
Taken == {e \in Ids :
    \/ e \in tasks \cup settled
    \/ \E i \in Pollers : e \in batch[i]
    \/ \E i \in Workers : worker[i] # "idle" /\ job[i] = e}

\* No later change is announced by one of them.
TakenIsOld == \A e \in Taken : e < next /\ e \notin Open /\ e \notin dedup

\* If the poller i has listed the event e of k, it is still to read k, or it
\* is handling k after reading it no earlier than the latest change.
PollerReads(i, e, k) == e \in batch[i] =>
    /\ k \in seen[i] => poller[i] \in {"handling", "failed"} /\ keyOf[event[i]] = k
    /\ poller[i] = "handling" /\ keyOf[event[i]] = k => snap[i] >= version[k]

\* The same for a worker that has claimed the task of e.
WorkerReads(i, e, k) == worker[i] # "idle" /\ job[i] = e =>
    /\ worker[i] # "handled"
    /\ worker[i] = "running" => jobSnap[i] >= version[k]

\* The event e announces the latest change of k: it is in the outbox or in
\* the retry queue, and no handler of it has an older state of k in hand.
Announces(e, k) ==
    /\ e \in Ids /\ keyOf[e] = k
    /\ e \in tasks \/ (e \in rows /\ e \notin settled \cup late)
    /\ \A i \in Pollers : PollerReads(i, e, k)
    /\ \A i \in Workers : WorkerReads(i, e, k)

ChangesAreAnnounced ==
    \A k \in Keys :
        carrier[k] = NoId \/ covered[k] >= version[k] \/ Announces(carrier[k], k)

LossInv == RowsAreNamed /\ TakenIsOld /\ ChangesAreAnnounced

=============================================================================
