# Verification of the sub2api gateway

sub2api is an API gateway that sells access to pooled upstream AI accounts: it
authenticates an API key, chooses an account, bounds concurrency, forwards the
request, and charges the user. It runs as one or more identical Go processes
over PostgreSQL (durable state) and Redis (limits, caches, locks). What is hard
to test in it are the protocols between those processes: leases and TTLs, locks
that are not renewed, outboxes with a shared watermark, marks without fencing.
This directory models these protocols in TLA+, model-checks them with TLC and
proves their main safety properties with TLAPS.

Paths below are relative to `src/backend/internal/`.

## 1. The parts of the system

### Modelled

| Part | State it keeps | Operations | Meets |
|---|---|---|---|
| Concurrency slots and wait queue (`repository/concurrency_cache.go`, `service/concurrency_service.go`, `handler/gateway_helper.go`) | Redis: sorted set of slots, wait counter with TTL, active index, sweep marker. In process: what a request was told | acquire, queue, poll, give up, release, maintain index; startup cleanup; reconciling worker | every gateway request; account load used by the scheduler |
| Idempotency coordinator (`service/idempotency.go`, `repository/idempotency_repo.go`, cleanup service) | one `idempotency_records` row per (scope, key) | claim by insert, reclaim expired, reclaim failed, execute, renew, mark, clean up | administration, payment and redemption endpoints; system operation lock (same table) |
| WebSocket ingress leases (same files as slots) | Redis sorted set per API key; per session: last confirmation, ticker, call in flight | acquire, refresh, loss, release | OpenAI WebSocket handler |
| Scheduler outbox and retry queue (`repository/scheduler_outbox_repo.go`, `scheduler_outbox_retry.go`, `service/scheduler_snapshot_service.go`, `scheduler_snapshot_outbox_retry.go`) | `scheduler_outbox` rows with dedup keys, `scheduler_outbox_retries` with lease and generation, watermark in Redis | enqueue in and after a transaction, poll, handle, defer, advance watermark, clean up, claim, complete, reschedule | every write to accounts, groups, proxies and quotas; the scheduler's snapshot |
| Payment orders and refunds (`service/payment_order.go`, `payment_order_lifecycle.go`, `payment_fulfillment.go`, `payment_refund.go`, `redeem_service.go`) | `payment_orders` row (status, `updated_at` as lease version, `paid_at`), redeem code, audit entries; at the gateway: payment and refund | create, cancel, expire, verify, notify, acquire the fulfilment lease, redeem, rebate, complete; prepare, execute, query and finalize a refund | payment gateway, users' balances and subscriptions, administrators |
| OAuth token refresh (`service/token_refresh_service.go`, `oauth_refresh_api.go`, `repository/gemini_token_cache.go`) | credentials and status in the account's row, refresh lock in Redis; at the provider: single-use refresh tokens | candidate scan, lock, reread, refresh, race recovery, conditional write, quarantine, cooldown; edit, re-authorize, manual refresh | the scheduler (which accounts are active), administrators |
| Batch image jobs (`service/batch_image_*.go`, `repository/batch_image_queue.go`, `batch_image_repo.go`, `usage_billing_repo.go`) | `batch_image_jobs` row, dedup claims and frozen balance, queue and job lock in Redis; at the provider: the batch | submit, cancel, reserve, lock, poll, index, capture, release, retry, recover | provider, users' balances |
| Scheduler snapshot publication (`repository/scheduler_cache.go`, `service/scheduler_snapshot_service.go`, `scheduler_outbox_publication.go`) | Redis, per bucket: epoch, tombstone, version counter, active version, lock; per group: lifecycle lease | capture, allocate, activate, retire, reopen; handle an event, retry it, rebuild everything; publish after a miss | the outbox, every request's account selection |

These parts share no state that couples them: slots and ingress leases live
under different Redis keys; the idempotency table, the outbox, the orders, the
accounts' credentials and the batch jobs are touched by different transactions.
Where two parts do write one row, a module composes them: `Payments` puts
fulfilment (`PaymentOrder`) and refund (`PaymentRefund`) on one order. The
composition inside each part (processes, workers, cleanup jobs, stores, clock)
is in its module.

### Not modelled yet (section 7)

* **System operation lock**: one idempotency row as a lease around update,
  rollback and restart. Hard: `TryReclaim` does not write the fingerprint that
  renewal compares, so a reclaimed lock is never renewed. Correct if two
  operations never run together and a living holder keeps its lock.
* **Usage billing**: dedup row and charge in one transaction, in-flight
  reservations counted in process, cached balances. Correct if a request is
  charged once and a reservation lasts until its charge. (Hold, capture and
  release of the same repository are in `BatchImage`.)
* **Auth cache invalidation**: two-pass deletion against readers that refill the
  cache. Correct if no revoked key stays cached after the second pass.
* **Quota flusher**: dirty set popped before it is written. Correct if no usage
  is forgotten while the process lives.
* **Live leases and user x group slots**: variants of the modelled scripts; an
  extension of `ConcurrencySlots`.
* **Upstream WebSocket pool, user message queue**: in-process pool and a
  per-account lock; candidates after the ones above.
* Of the modelled parts: the token providers of the request path with their
  access-token cache, rate gate and circuit breaker (`TokenRefresh`); cleanup of
  inputs and outputs, downloads and record deletion (`BatchImage`); the accounts'
  own records in Redis with their revisions and in-process copies, last-used
  times, `full_rebuild` events and the lag watch (`SnapshotPublication`).

### Not modelled, and why

Session, RPM and rate-limit counters and the leader lock are single Redis
commands or scripts with no protocol around them. Account selection is scoring
over float metrics. Image tasks are one record written by its creator. The usage
worker pool wraps a library. Redeem and promo codes, affiliate, subscriptions and
administration are single transactions on rows; what they announce to the
scheduler is in `SchedulerOutbox`. Protocol conversion is data conversion.
Moderation, security audit, QQ bot, mihomo manager, source updater, plugins, MCP
server, monitoring and the HTTP plumbing are I/O around external programs. The
generated `ent` code, migrations and frontend carry no logic of their own.

`PROJECT.json` lists all parts with their sources, every hazard with its line
and the properties aimed at it, and the source lines of each definition.

## 2. The modules

Each component has a module and an `MC` module with the model values, owners and
symmetry of its runs, if any, and each has a module with its theorems. An inductive
invariant stands at the end of its component's module, in named parts, where TLC can
check it too. Definitions keep the names of the code where it has one. A definition
that precedes another one and differs from it in one plausible mistake
(`HasRoomOffByOne`, `RefreshRecreates`, ...) is a mutant: put in the place of the right
one, it makes TLC find a violation. No specification uses a mutant.

### ConcurrencySlots

One user or one account. `slot[r]`, `wait`, `waitLife`, `index` and `swept` are the
Redis keys; `pc`, `ret`, `plan` the goroutine of a request; `proc`, `keep` the start
of a process; `wk`, `wplan` its reconciling worker. Two histories serve the
properties: `held[r]`, what is left of the TTL of the slot a request was given, and
`cleaned`, the holders whose slot another process' startup cleanup removed. Time is
relative: scores and TTLs are what they have left to live, so the clock needs no
bound.

* Requests: `Acquire` (acquireScript: purge, count, add), `AcquireReplyLost` (the
  script ran, the caller timed out), `IncrementWait`, `IncrementWaitFailsOpen`,
  `GiveUp`, `DecrementWait`, `Release`, and after each of them the two round trips
  of the index maintenance, `ReadLoad` and `WriteIndex`, as steps of their own
  between which everything else may happen.
* Processes: `Start`, `Sweep`, `Scan`, `CleanSlots`, `CleanWait`, `CleanMember` (startup
  cleanup), `CleanupFails` (a failure is logged and the process serves), `Crash`,
  `Replace`, and the worker's `ReconcileScan`, `ReconcileLoad`, `ReconcileWrite`.

Slots are not renewed, and nothing in the code bounds a stream's length; the
cleanup of a starting process removes slots with a foreign prefix. A request
in service can therefore lose its slot in two ways, and the limit can then be
exceeded. `HolderKeepsSlot` and `RunningBounded` are about the requests `Entitled` to
their slots: the TTL (15 minutes by default) has not run out, and no process that
started meanwhile has cleaned them away. They say that there is no third way.

Two facts about the deployment are parameters, which only the properties of the
queue need. `Overlap`: a process may start while another one serves; its cleanup
deletes the wait count. `SpanBounded`: a request leaves slot and queue before their
TTLs run out; waiting is bounded by 30 seconds. `WaitCoversQueue` and
`WaitersBounded` are stated for `~Overlap` and `SpanBounded`. Live leases, which count
against the same limit, are an empty set here.

### Idempotency

One (scope, key). `row` is the table row, `pc`, `start`, `seen`, `rid`, `deadline` the
locals of `Execute`, `effects` a history of committed side effects with the life
of the record they belong to. Every SQL statement is a step: `CreateProcessing`,
`GetExisting`, `ReclaimExpired`, `GetAgain`, `ReclaimFailed`, `ExecuteSucceeds`,
`ExecuteFails`, `ExtendProcessingLock`, `MarkSucceeded`, `MarkFailedRetryable`,
`StoreFails`, `Crash`, and the cleanup job's `DeleteExpired`.

Assumed: all instances read one clock; a claim is decided before its own lock
would have run out; an execution ends, or renews its record, before the record
expires (`Tick`'s guard: the defaults are 30 seconds and 24 hours); a failed
business function had no effect. A response body is named by the request that
produced it, a body above the storage limit becomes `Truncated`. A statement that
took effect although it returned an error is the statement followed by `Crash`.

### IngressLease

One API key. `member[s]` is the sorted set in Redis, `session`, `reply`, `timer`,
`elapsed` the session, `unwritten` a history clock. A call is two steps, script
and reply, up to `OpTimeout` apart; an error reply leaves open whether the script
ran. `AcquireOpenAIWSIngressLease`, `AcquireReply`, `Refresh`, `RefreshReply`, `Stop`,
`Release`, `Crash`, `Connect`, `Tick`. Assumed: a tick that is due is served before
time goes on, and a call ends by its timeout. A script that Redis runs only
after the caller gave up is not modelled.

### SchedulerOutbox

`rows`, `keyOf`, `dedup`, `next` are the event table, `tasks`, `leased`, `gen` the retry
table, `watermark` the Redis value; `writer`, `wkey`, `wrow` transactions in
progress; `poller`, `after`, `batch`, `event`, `last`, `seen`, `snap` and `worker`,
`job`, `jobGen`, `jobSnap` the locals of the two loops on each instance. `version[k]`
counts the committed changes of a key, `covered[k]` is the highest one a
completed handler had read when it started. Three histories serve the properties:
`settled`, the events handled or copied to tasks; `late`, those that became visible
behind the watermark or a poller's position; `carrier[k]`, the event that announces
the latest change of k: its own, if that is not late, or the pending one its insert
met, if that is still to be listed when the change is committed. A change that has
no such event (`NoId`: not yet enqueued, a failed enqueue, a late event, a
deduplicated insert against an event that was listed before the commit) is one the
outbox cannot deliver, and the properties are about all others.

* Writers: `Change` (update, then enqueue after the commit), `EnqueueFails`,
  `enqueueSchedulerOutbox`, `Transaction`, `Commit`, `Rollback`.
* Pollers: `GetOutboxWatermark`, `ListAfterAndReleaseDedup`, `PollEnds`, `HandleStart`,
  `HandleOk`, `HandleFails`, `DeferOutboxEvent`, `DeferFails`, `SetOutboxWatermark`,
  `SetWatermarkFails`, `cleanupConsumedOutbox`.
* Retry workers: `ClaimOutboxRetry`, `RetryStart`, `RetryOk`, `RetryFails`,
  `CompleteOutboxRetry`, `RescheduleOutboxRetry`, `RetryAbandoned`, `LeaseExpires`.
* Failures: `PollerDies`, `WorkerDies`, `WatermarkLost`.

Leases, the grace period and backoff are untimed: a lease may run out at any
moment, cleanup may find any consumed row old enough. Generations are only
compared for equality, so the least one in no use stands for a new sequence
value. Four parameters switch behaviours on: `Reorder` (ids become visible out of
order, as PostgreSQL allows), `DedupInTx` (deduplicated inserts inside a
transaction, as the code makes them), `Lossy` (an enqueue after the commit fails
and is only logged), `Crashes`. Left out: the best-effort cache write after some
commits, and the full rebuild every 300 s (in `SnapshotPublication`). Both repair a
lost event later, so a violation here is a change that stays unseen for up to that period.

Which changes have no event is a matter of the first three parameters: late
events exist with `Reorder` only, and with none of the three every change is
announced or still to be enqueued. The code does not exclude any of them, so no
property or theorem assumes them away (section 6).

### PaymentOrder, PaymentRefund, Payments, PaymentLedger

One order. `PaymentOrder` has its row (`status`, `paidAt`, and `held` / `old`, which
stand for `updated_at` as version and as age of the fulfilment lease), the order at
the gateway, the redeem code (`grant`), and the handlers: any webhook, cancellation,
expiry job, verification or retry that works on the order is one of `Handlers`,
with its step in `pc`. `CreateOrder`, `InvokeProvider`, `UserPays`, `Webhook`,
`Cancel`, `Verify`, `AdminRetry`, then statement by statement `CheckPaid`,
`CancelCore`, `ConfirmPayment`, `ToPaid`, `AlreadyProcessed`, `ReadOrder`,
`AcquireLease`, `ReloadLease`, `LookupCode`, `CreateCode`, `Redeem`,
`AssignSubscription`, `ApplyAffiliateRebate`, `MarkCompleted`, `MarkFailed`.
`PaymentRefund` extends it with `Admins`, refund requests in `rpc` and `plan`:
`PrepareRefund`, `ClaimRefund`, `Deduct`, `GwRefund`, `MarkRefundOk`,
`MarkRefundPending`, `RollbackRefund`, `RestoreStatus`, `MarkRefundFailed`, and the
finalization of a pending refund, `QueryRefund`, `FinalizeOk`, `FinalizeFailed`.
`Payments` composes both on the one status they share and states the properties.

`PaymentLedger` is the abstract specification: pay, grant, deduct, return, refund,
without statuses, leases or retries. `MoneyMovesByLedger` says that `Payments`
implements it (`paid <- gateway = "paid"`, `refunded <- refund = "done"`).

Faults are counted, up to `MaxFaults`: crashes, failing calls, failing reads in
the webhook path, lost audit entries, and a fulfilment slower than its lease. A
reply or entry whose loss hides a movement of money from the program sets
`sighted` to FALSE; the ledger then no longer promises that a deduction is made
and returned once, only that grants stay single and no return exceeds what was
deducted. "REFUNDED" stands for partial refunds too. Left out: orders of releases
that kept no deduction, and orders without a trade number.

### TokenRefresh

One account on several instances. A credential document is the number under which
the provider issued it; `live` are the documents whose refresh token the provider
still accepts, `due` those close to expiry. `job[w]` is `refreshWithRetry` on an
instance (attempt, document read and tried, whether it holds the lock, what is left
of its deadline), `adm[a]` an administrator's request. `Begin` (candidate page),
`AcquireRefreshLock` (also when Redis fails and the lock is skipped), `Reread`,
`Refresh`, `Recover` (`tryRecoverFromRefreshRace`), `PersistGrok` (conditional) and
`PersistOther` (unconditional), `LoadDurable`, `ReleaseRefreshLock`, then the
outcome: `EndRefreshed`, `EndRevoked`, `TryAgain`, `EndExhausted`, `EndQuietly`.
Among the provider's answers is a permanent refusal of the account, its refresh
token not used up (`RefusesAccount`: access or entitlement denied, subscription
required, no project); `refused` are the working documents it was given for. An
attempt's own deadline may have passed when its result is looked at, whatever that
was (`DeadlinePasses`). Administrators edit, re-authorize and refresh by hand
(`StartEdit` ... `WriteAccount`, `ClearAccountError`) without the lock. Time is in
ticks, because the lock is never renewed: the deadline of an attempt, its cleanup
and its release must fit in the lock's lifetime. A call that runs into its deadline
is a counted fault. `mishap` records that a fault, or an edit that wrote back what
it had read, has cost an issued document.

### BatchImage

One job, which holds one unit of its user's balance. `job` is its row, `claims` and
`moved` are the dedup claims and those that moved money, `queue` and `lock` Redis,
`upstream` the provider's batch; `submit`, `client`, `recovery`, `worker` say what
each actor does next; `usable` says that the account is there, of a type the
provider takes, and its provider configured. `Submit` is `CreateBatchImageJob` ...
`EnqueueSubmitted` with its error paths `ReleaseSubmitHold`, `RecordUnreleased`,
`RejectSubmit`, `AbortOrphan`; `Cancel` is `CancelRead` ... `CancelRetry`; the
recovery of dead submissions `ListStale` ... `RecoveryRetry`; the worker `Reserve`,
`TryAcquireJobLock`, `ReadJob`, `Poll`, `Index`, `SettleRead`, `Capture`,
`RecordFailure`, `Exhaust`, `MarkSettled`, `Ack`, `Requeue`, `Unlock` and what lies
between them. `AccountEdited` is an administrator who deletes or changes the
account, or changes it back. A batch may succeed, fail, or succeed with an output
that cannot be opened or results that cannot be read or priced. Any call may fail
with or without its effect, any actor may die between two steps.

Deadlines are untimed: a lease runs out when nobody keeps it alive, and that it
does so under a living holder (`HeartbeatsFail`, `GoesStale`) is a counted fault.
`lapses` records events after which the code gives no more guarantee; each
property names the ones it excepts, so that the exceptions are visible in its
statement (section 6). The frozen balance of other jobs is not modelled: where the
code could take from it, the model lets the call fail or reports a second
movement.

### SnapshotPublication

One bucket (the accounts of a group on one platform) and its group. `group`,
`members` are the database, `changed` counts its changes by kind, `acked` those whose
event the watermark has passed, `retry` the kinds with a deferred task; `epoch`,
`retired`, `registered`, `active`, `versions`, `lock` and `lease` are the Redis keys. Version
numbers are only compared, so `versions` is the order of those in use, with the
active one's place marked. `job[w]` is what a loop or a request does next.

* Work comes from `TakeEvent` (with the later events of the batch that find their
  bucket already rebuilt), `TakeRetry`, `BeginFullRebuild` and `Miss`, a request that
  found no snapshot and publishes what it loads without any lock.
* `TryAcquireGroupLifecycleLease`, `GetGroup`, `RetireBucket` or `ReopenBucket`,
  `ReleaseGroupLifecycleLease` are `prepareGroupLifecycle`.
* `CaptureBucketWriteToken`, `TryLockBucket`, `LoadAccounts`, `WithLatestSchedulerAccounts`
  (retries only), `AllocateSnapshotVersion`, `ActivateSnapshotVersion`, `UnlockBucket` are a
  rebuild; `LoadForSibling` is the reuse of a query across buckets of a batch.
* `Succeed`, `FailEvent`, `FailRetry`, `FailFullRebuild` end a job.

Calls fail, replies get lost, processes die, and the lock and the lease run out
under a holder that stalls, each a counted fault. `lapses` records what the next
full rebuild has to repair: *raced*, a publication without the lock installed old
accounts; *overtaken*, a group's state was written by a loop that had lost the
lease and whose work nobody repeats. `lives` and the field `era` tell the lives of
a bucket apart independently of the epoch. The delivery of events and tasks is
`SchedulerOutbox`'s matter and taken as reliable here; the two kinds of events are
two streams, which allows more orders than one watermark does.

## 3. The runs

| Run | Configuration | Checks | Distinct states |
|---|---|---|---|
| `slots` | `ConcurrencySlots.cfg`: 2 processes, one serving at a time, 4 requests (3 on one of them), which end in time, limit 1, queue 2, TTLs 2; index, decrement, release, reply and cleanup calls may fail | `CapInv` `WaitCoversQueue` `WaitersBounded` | 847,412 |
| `slots_index_drains` | `ConcurrencyLive.cfg`: 2 processes that may overlap, 2 requests without bound on their length, limit 1, queue 1, TTLs 2, increments may fail open, `FairSpec` | `HolderKeepsSlot` `RunningBounded` `IndexDrains` | 544,218 |
| `idempotency` | 3 requests with one payload, 1 detached request with another and a response too long to store; failing statements; TTL 3, lock 2, backoff 1, time to 4 | `OneExecutor` `ReplayFaithful` `OnceUnlessExpired` | 5,054,639 |
| `ingress` | 2 sessions, cap 1, TTL 7, interval 3, timeout 1, calls may fail with or without effect, crashes | `CapInv` `LiveHasMember` `LiveBounded` `OverrunBounded` | 312,266 |
| `outbox` | 1 key, 2 pollers, 2 workers, two of the four loops at work at a time, 2 writers, 2 events, 3 generations; processes die, Redis loses the watermark; failed enqueues and deduplicated inserts in transactions | `NoChangeLost` `CleanupOnlySettled` `LeaseHonoured` | 1,261,094 |
| `outbox_delivery` | 1 poller, 1 worker, 1 writer, 2 changes, enqueues that fail and deduplicated inserts in transactions, `FairSpec` | `Delivered` | 64,239 |
| `payments` | 2 handlers and 2 administrators, two of them busy at a time, 2 faults of any kind | `CompletedIsGranted` `RefundExclusive` `DeductionAccounted` `PendingHeld` `NeverUnsettled` `MoneyMovesByLedger` | 1,123,315 |
| `payments_fulfilment` | `PaymentsLive.cfg`: 2 handlers, 2 faults, fairness | `PaidOrderCompletes` | 119,831 |
| `payments_pending` | 1 handler, 1 administrator, no faults | `PendingRefundsTracked` is **violated** | |
| `token_refresh` | 2 instances (one with one attempt, one with two), 1 administrator, both kinds of platform, 3 documents, 1 fault, lock 3 ticks, margin 2, fairness | `TypeOK` `LockOwned` `TokenKept` `WorkingCredentialsKept` `DueIsSettled` | 972,429 |
| `batch_image` | 2 workers, 1 request of the owner at a time, an account that is edited at any time, 1 fault besides the death of the submission, 2 settlement attempts, fairness | `TypeOK` `SettledOnce` `CompletedIsCharged` `NoOrphan` `HoldSettles` `TerminalStays` | 263,328 |
| `snapshot` | 1 poller, 1 retry worker, 1 full rebuild loop, 1 request, two of them at work at a time, 1 account, 2 changes of a published snapshot, 1 fault, fairness | `TypeOK` `ServedIsOfThisEpoch` `GroupIsReflected` `AcknowledgedIsServed` `ServedInTheEnd` | 415,755 |

The type invariants of all eight modules are proved (section 5); three runs check
theirs as well.

Why the bounds are enough to be interesting:

* `slots`: with limit 1 and queue 2, three requests of one process fill slot and
  queue, and the fourth, of the other process, meets them after a crash: leaked
  members, leaked counts, startup cleanup. A TTL of 2 has a tick at which
  things are old and one at which they are gone.
* `slots_index_drains`: two requests on two processes and limit 1 are what it takes
  for a starting process to remove a living one's slot, or for the TTL to do so,
  and for the other request to take the place; crashes and restarts are unbounded.
* `idempotency`: three equal requests are the fewest for a reclaim race behind an
  executor; the fourth tries the key with another payload. TTL 3 within 4 ticks
  lets a record expire, be reclaimed or cleaned up, and be replayed. `MaxTime` is the
  only bound on behaviours; requests run `Execute` once, so the run
  ends and deadlock is not an error.
* `ingress`: 7, 3 and 1 keep the code's order of 60, 20 and 2 seconds with
  `Interval + OpTimeout < TTL` and room for one missed refresh, not two.
  `Connect` reuses a closed or dead session, so the number of connections over
  time is unbounded.
* `outbox`: two pollers are enough for a watermark that moves backwards, two events
  for a batch of which a prefix is settled; `MaxId` bounds the changes. `Limit` (200
  in the code) does not cut a batch in these runs; `CleanupIsSafe` and
  `ChangesAreKept` cover every limit, and any number of keys. One key suffices for
  the run because no statement relates two keys. Two workers are a late one whose
  lease ran out and the one that has claimed the task, or a copy of it with a new
  generation, since. `TwoBusy` lets two of the four loops work at a time; without
  it, two pollers with one worker (2,338,406 states) and one poller with two workers
  (2,027,515 states) were checked for the same properties, and `LeasesAreHonoured`
  covers any number of both. Ids become visible in order in this run; with `Reorder`
  it has more than 7 million states. The inductive invariants were checked with
  `Reorder` on instances without the worker: two pollers and 2 events (77,874
  states), one poller and 3 events (144,848 states), which is what it takes for an
  insert to meet a late event; the theorems hold for either value.
* `payments`: handlers and administrators return to idle and start again, so a
  behaviour has any number of notifications, cancellations and refund attempts;
  bounded are those at work at a time (two, of any kind, which is what a race
  for one row takes) and the faults (two: one that leaves something behind and
  one that hits its repair). The proofs have neither bound.
* `token_refresh`: two instances and an administrator are the three writers of the
  row; three documents are the one at the start, the one a race loses and its
  successor. With a lock of 3 ticks and a margin of 2 the clamped attempt has
  one tick; the unclamped one would have four.
* `batch_image`: two workers race for one job, the owner's requests and the edits of
  the account repeat without bound, and the submission may die besides the one
  fault, so that the recovery too can meet a fault. With 2 faults (627,554 states,
  without the account's edits and with the submission's death in the count) the
  properties were checked too, in more time than a regular run should take.
* `snapshot`: two changes retire and reopen the group while a writer of its first
  life is on its way, or retire it while an account changes; one account is in the
  snapshot or not. Two at work at a time (`MaxBusy`) are what a race for a lock, a
  lease or an epoch takes; jobs and requests repeat without bound. Larger instances
  without `MaxBusy` were checked for the invariants, from before the creation of the
  group: poller, retry worker and rebuild loop with 3 changes and 1 fault (5,032,737
  states), poller, retry worker and request with 2 faults (2,375,376 states).

## 4. Fairness

`slots_index_drains` assumes that time passes, that started requests and round trips
end, that a dead process is replaced, and that a process' start and its
worker's ticker go on. Nothing makes requests arrive or crashes stop, and
acquiring is not fair: `IndexDrains` speaks of behaviours in which the load ends
for good and some process stays up.

`outbox_delivery` assumes weak fairness of tickers, statements and lease expiry,
and strong fairness of those steps that may fail any number of times but not
for ever: the listing, the copy to the retry queue, the watermark's SET, and the
retry worker's steps. The poller's own handlers have no such promise: they may
fail for ever, and delivery is then the retry queue's work. The code justifies it
by its loops: every failure is met with another tick.

`payments_fulfilment` assumes that a handler that has begun goes on, that the
gateway repeats its notification until it is answered (strong fairness: the
handlers are free again and again, not always), and that time passes, so that a
lease left behind grows old. No administrator or user has to do anything. A
fulfilment slower than its lease is a counted fault.

`token_refresh` assumes that the cycles repeat, calls return, an administrator's
request that was begun is carried out, time passes and a cooldown ends. Nobody has
to edit or to start a refresh by hand. An attempt that runs into its deadline is a
counted fault.

`batch_image` assumes that begun steps go on, that the worker and recovery loops run
(all start again after a crash), that a batch ends at the provider, that leases of
dead holders run out and delayed entries become due. Nobody has to edit the account
or to edit it back. That leases run out under a living holder is a counted fault,
not something that may happen for ever.

`snapshot` assumes that the tickers of the poller, the retry worker and the full
rebuild go on, that what they began goes on, and that the TTLs of a dead holder's
lock and lease run out. Requests need not end: one may keep what it loaded for ever
and publish it at any time.

## 5. The proofs

TLAPS proves these for every value of the constants that meets the modules'
assumptions: any number of processes, requests, sessions and workers, any limits
and TTLs. Every safety property and every action property that a run checks has
its theorem; the obligations of the eight modules are 13,214.

The proofs have one shape. An invariant is seldom inductive as a run states it, so
each has a strengthening, checked by TLC before it was proved; a lemma for each
action shows what that action leaves of it; the theorem follows with PTL. Where
many actions disturb the same parts (`BatchImage`, `TokenRefresh`,
`SnapshotPublication`), a few lemmas say what a step of one actor has to respect
(what it leaves to the others, what its own next state has to satisfy), and each
action's lemma shows that it does.

* **ConcurrencySlotsProofs** (731 obligations). `TypeCorrect`. `CapacityRespected`:
  `CapInv` with every fault and with overlapping processes; it is inductive with
  `TypeOK`, on a lemma that adding one member to a set with room stays within the
  limit. `HoldersKeepSlots` and `LimitEnforced`, for any overlap of processes,
  requests of any length and every fault: the strengthening says that the member of
  an entitled request has at least as long to live as is left of its TTL
  (`SlotOutlivesHolder`); entitled requests are then a subset of the members.
  `QueueLimitEnforced`, for `~Overlap` and `SpanBounded` and without failing
  increments: one process serves (`OneServes`), the counter's key outlives every
  waiter (`CounterOutlivesQueue`), and a request maintaining the index remembers
  whether it is still counted (`ReturnInv`). `WaitersAreBounded` states the limit by
  itself.
* **IdempotencyProofs** (1,206). `TypeCorrect`. `ExecutorIsAlone`, for
  `ProcessingTimeout <= TTL`: `OneExecutor` alone is not inductive. `ExecutorInv` adds
  that an executor's row is there, in "processing" and unexpired (`ExecutorOwnsRow`),
  that a claim is decided within a lock's time of its start (`ClaimsAreFresh`), and
  that hence a request about to reclaim a row as expired finds a lock that is still
  set (`LockOutlivesClaims`). This is why the marks, which update by id only, never
  hit another executor's row. `RepliesAreFaithful`, from `ReplayInv`: the id of a
  record stands for its fingerprint, also through reclaims and deletions, and a
  success is recorded after its effect. `EffectsAreSingle`, for
  `ProcessingTimeout <= TTL`: while an effect's record has not expired, nobody but its
  own request works on the record and it is not free to claim (`Intact`), unless one
  of two effects belongs to a request that had found its record expired.
* **IngressLeaseProofs** (466). `TypeCorrect`; `CapRespected`, with all faults;
  `OverrunIsBounded`, whatever Redis does, from `BoundedInv`, which relates the last
  write, the last confirmation and the timer; `LiveSessionsKeepMembers` and
  `LiveSessionsBounded`, with all faults too, for the sessions that had an answer
  within their lease's lifetime less one call's timeout (`Confirmed`), from
  `BoundedInv` and `FreshInv` (a member lives for a lease lifetime from its last
  write). The constants need `OpTimeout < Interval` and
  `Interval + OpTimeout < TTL`.
* **SchedulerOutboxProofs** (1,355). `TypeCorrect`; `LeasesAreHonoured`, for all
  parameters, from `LeaseInv` (busy workers have different generations);
  `CleanupIsSafe`, for all parameters, from `OrderInv`: the watermark, every
  position a poller holds and every element of its batch have only settled or late
  events below them, so that even a watermark that moves backwards or is lost stays
  safe. `ChangesAreKept`, for all parameters: the event that announces a key's
  latest change is in the outbox or in the retry queue, and no poller or worker is
  about to settle it with an older state in hand (`Announces`). What makes this
  inductive is that a listed event no longer takes part in deduplication
  (`TakenIsOld`), so that a later change cannot rely on it.
* **PaymentsProofs** (885). `TypeCorrect`; `CompletionIsGrant`, `RefundsExclude`,
  `DeductionsAccounted`, `PendingIsHeld`, `SettledForever`, and `ImplementsLedger`, the
  refinement, for any number of handlers, administrators and faults. The
  inductive invariant `IndInv` has three parts: `OrderInv` (what each step of a
  handler knows of status, code and credit: a handler that marks the order
  completed has seen the credit, a code exists once), `RefundInv` (`RefundExclusive`, and that a
  request about to return a deduction finds one taken) and `SightedInv`, which holds
  while `sighted` does (what is deducted is what an earlier attempt failed to
  return, or else what the request or the pending entry in charge knows of).
  `KeptByOrder` and `KeptByRefund` carry each half of the invariant through the other
  component's steps. For the refinement each step is a ledger step or leaves the
  money alone.
* **TokenRefreshProofs** (2,094). `TypeCorrect`, with `DocsAreIssued` and `StagesMatch`:
  the bound on documents leaves room for one refresh of each that is due.
  `LockIsOwned`, from `LeaseInv`: the lock lives longer than the time its holder has
  left plus what its later stages need (`Reserve`); it rests on `SafetyMargin` covering
  cleanup and release, which the code's constants do. `TokenIsKept`, from
  `TokenInv`: a document that is stored nowhere is known to its owner only
  (`UnstoredIsOwned`), and whoever has used the stored token up is about to store its
  successor (`Succession`). `WorkingCredentialsAreKept`, an action property: the
  refreshed document displaces the one that was used up or, except for Grok, what
  was stored under the attempt; and who puts the account into error has found its
  document used up, or was refused with it (`UsedUp`), unless, except for Grok, the
  row was changed under the attempt.
* **BatchImageProofs** (2,331). `TypeCorrect`: the ready list's length is bounded by
  counting copies, of which each fault makes one more (`Copies`). `EndedStaysEnded` and
  `CompletedWasCharged`, from `StatusInv` and `ChargeInv`: who releases has seen the job
  given up, and a worker that marks the job settled has had its capture answered.
  `NoBatchIsOrphaned`, from `UpstreamInv`: a live batch belongs to a submission about
  to store or abort it, or to a job that is not given up. `HoldIsSettledOnce`, from
  `SettledInv`: as long as no worker outlived its leases, the one with the lock knows
  the job's status and what was claimed (`Knows`), and captures only before the
  retries are exhausted, whereas a release needs a job given up or exhausted.
* **SnapshotPublicationProofs** (4,146). `TypeCorrect`, with `VersionsMatch` (a version is
  in use once). `ServedIsOfThisLife`, from `EpochInv`: the epoch counts the bucket's
  lives, and no token is newer than what its writer loaded. `GroupIsFollowed`, from
  `GroupInv`: when the last event is acknowledged, or a poller has decided it under
  the lease, either the tombstone is right or the holder of the lease is about to
  correct it (`InGoodHands`), or somebody still has to look at the group (`Debt`).
  `AcknowledgedIsPublished`, from `ServedInv`, three invariants that need each other:
  `WritersMatch` (an allocated version waits for its activation, a tombstone fences
  every token, rebuilds for events are strict), `MembersInv` (a job that began after
  the last change can succeed only when that change is served: the lock's holder has
  loaded after it, and a version placed before the active one is dropped only in
  favour of fresh accounts) and `PublishedInv` (an active group's bucket is published, or a
  task for the group is open, or somebody looks at the group again).

Only model-checked: liveness (`IndexDrains`, `Delivered`, `PaidOrderCompletes`,
`DueIsSettled`, `HoldSettles`, `ServedInTheEnd`), because fairness and ENABLED are out of
the prover's reach, and the violation in `payments_pending`, which needs no proof.
Neither recursion nor induction over data occurs in the models.

## 6. Where the code disagrees with what it says, and known limits

* **A second pending refund strands its order** (run `payments_pending`).
  `payment_audit_logs` has a unique index on `(order_id, action)`
  (`migrations/131_affiliate_rebate_hardening.sql:40`). When a first pending refund
  failed and the second attempt is pending too, `markRefundPending`
  (`service/payment_refund.go:845`) cannot insert another `REFUND_PENDING` entry, and
  its transaction is rolled back. The order stays `REFUNDING` with the deduction
  taken, and no operation accepts it any more. The comment at line 806 says that
  the entry is written with the status so that the finalization can read it.

The following are consequences of the code that the properties name as
exceptions or that a parameter of a model switches on.

* **A retry after expiry may execute twice.** `TryReclaim`
  (`repository/idempotency_repo.go:118`) compares id, status and lock, but not
  `expires_at`. Two requests read the same expired "succeeded" row; one reclaims
  it, executes and marks it succeeded, which sets `locked_until` to NULL; the other
  then reclaims this new success and executes again. A third
  request can follow it, before the first one's record would have expired.
  `OnceUnlessExpired` excepts pairs of effects of which one belongs to a request that
  had found its record expired, and shows that there is no other way.
  `OneExecutor` holds all the same: they execute one after the other.
* **A slow transaction's event may never be polled.** Ids are drawn before the
  commit and the poller lists `id > watermark`, so a row that appears below the
  watermark is not listed, and is deleted after the grace period. The comment at
  `repository/scheduler_outbox_repo.go:131` says that the grace period lets such a
  row be consumed first. Such rows are the set `late`, which `CleanupOnlySettled` and
  `NoChangeLost` except. While a late row with a dedup key lasts, it swallows the later
  deduplicated events of its key, which nobody polls either. The full rebuild
  repairs both.
* **A deduplicated event may be consumed before its transaction commits.** `INSERT
  ... ON CONFLICT DO NOTHING` inside a transaction relies on a pending event that
  may be handled, with the old state, before the commit
  (`repository/usage_billing_repo.go:593`), and an enqueue that fails after the commit
  is only logged. Such changes have no event (`carrier` is `NoId`), and
  `NoChangeLost` does not speak of them. The full rebuild repairs both.
* **Slots.** A regular slot is never renewed, and the cleanup of a starting process
  removes the slots of one that still serves. The request goes on, another one
  gets its place, and more requests than the limit are then in service.
  `HolderKeepsSlot` and `RunningBounded` do not count requests that lost their slot
  so, and show that there is no other way. The same cleanup deletes the wait
  count, which a later decrement can then take from somebody else: the properties
  of the queue are stated for one serving process and requests that end in time.
* **Token refresh.** On platforms other than Grok the new credentials and the error
  status are written unconditionally, over what an administrator stored in the
  meantime (`WorkingCredentialsKept`). `isNonRetryableRefreshError` also takes
  answers for permanent that are about the account and not its token (access or
  entitlement denied, subscription required, no project): the account goes into
  error with a refresh token that still works, until somebody brings it back by hand
  (`refused`). An edit that writes back the document it had read may restore a
  used-up token (`mishap`).
* **Batch images**, by the name in `lapses`. *untracked*: a cancellation before the
  reservation claims the release without a hold to return, so that the later hold
  has none left; an enqueue that fails is only logged; a process dies between
  storing "submitted" and the enqueue. *crossed*: a cancellation that read the job
  before the provider's name was stored cancels it while the batch runs on.
  *orphan*: the provider's answer was lost or the process died before storing it.
  *doubt*: the settlement's retries end on a capture whose outcome is unknown, and
  the release follows. *late*, *dropped*: a worker that lost its leases acts beside
  its successor, and acknowledges a job that became settling, which
  `isBatchImageProcessorDoneStatus` counts as done.
* **A batch can wait for its account for ever.** While the account is deleted, of a
  type its provider does not take, or its provider is not configured, every attempt
  of the worker returns an error (`service/batch_image_processor.go:75`), and so does
  indexing while the output cannot be opened. Nothing counts these attempts: the job
  is requeued for ever, its hold stays frozen, and the owner cannot cancel it, because
  cancelling needs the provider too. `HoldSettles` excepts behaviours in which this
  comes again and again (`Waits`). Once the job is settling the account is not looked
  at any more. The errors of `batch_image_settlement.go:103` for a missing API key or
  account are not in the model: a submission always stores both, and no
  statement changes them. The deletion of the owner's own user record, after which
  neither capture nor release finds a row, is not modelled.
* **A late decision may be left to a task that does not repeat it.** An account's event
  that meets a tombstone decides the group's lifecycle on the way
  (`service/scheduler_snapshot_service.go:860`). If the lease ran out under it, its
  failure is deferred as an account's task, and the retry captures a token without
  looking at the group when the tombstone is gone; what was written late stands
  (*overtaken*). The same holds of a late decision whose loop dies, whose event could
  not be deferred, or that a full rebuild made. `GroupIsReflected` excepts these, and
  shows that the deferred events of the group itself never lead to it;
  `ServedInTheEnd` that the next full rebuild repairs it.
* **Snapshots.** A request's unlocked publication, or a rebuild that reuses accounts
  loaded for a sibling bucket, may put old accounts over those of an event that is
  already acknowledged (*raced*). `AcknowledgedIsServed` excepts these and shows
  that there is no other way; `ServedInTheEnd` that the full rebuild repairs them. A
  retry may complete without publishing: `activateSnapshotScript` drops a version
  older than the active one and returns 0, which `schedulerBucketWriteResultError`
  (`repository/scheduler_cache.go:742`) takes for success, although the newer
  version may be a request's with older accounts.
  `service/scheduler_snapshot_service.go:1106` says "Retry completion requires a real
  publication of fresh membership".

## 7. Plan

Theorems that remain worth proving are refinements of abstract specifications, each
checked as a PROPERTY of a run first: a counting semaphore for `ConcurrencySlots` and
`IngressLease` (what `CapInv` and the bounds on holders say together), a once-only
register for `Idempotency`, "the last change is delivered" for `SchedulerOutbox`.

Models that remain worth writing: `SystemOperationLock` on the row operators of
`Idempotency`; `UsageBilling` (dedup claim, archive, in-flight reservation);
`SnapshotPublication` composed with `SchedulerOutbox`; `AuthCacheOutbox`; `QuotaFlusher`; live leases in
`ConcurrencySlots`; the request path of `TokenRefresh` (access-token cache, rate
gate, circuit breaker); the cleanup of batch images.
