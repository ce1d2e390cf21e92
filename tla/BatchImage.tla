----------------------------- MODULE BatchImage -----------------------------
(***************************************************************************)
(* One batch image job, from its submission to the settlement of the       *)
(* balance that was held for it:                                           *)
(*                                                                         *)
(*   service/batch_image_public.go      Submit and Cancel                  *)
(*   service/batch_image_worker.go      the loop around a queued job       *)
(*   service/batch_image_processor.go   polling and indexing               *)
(*   service/batch_image_settlement.go  capture, retries, exhaustion       *)
(*   service/batch_image_billing_recovery.go   submissions that died       *)
(*   repository/batch_image_queue.go    ready, delayed and active entries, *)
(*                                      the job lock                       *)
(*   repository/batch_image_repo.go     the job's row                      *)
(*   repository/usage_billing_repo.go   hold, capture and release          *)
(*                                                                         *)
(* The job holds one unit of the user's balance.  The frozen balance is    *)
(* one number per user: without that unit a capture or release fails, or   *)
(* takes what is held for another job.  Deadlines are not timed.  A lock,  *)
(* an active entry or an unsubmitted job runs out of time when nobody      *)
(* keeps it alive; that it does so under a living holder is one of the     *)
(* counted faults.                                                         *)
(***************************************************************************)
EXTENDS Integers, FiniteSets

CONSTANTS
    Workers,      \* instances, as runners of BatchImageWorker.Run
    Clients,      \* concurrent requests of the owner about the job
    MaxRetries,   \* batchImageSettlementMaxRetries
    MaxFaults,    \* bound: failing calls, lost replies, late holders, crashes
                  \* other than that of the submission
    Nobody

ASSUME ConstantsAssumption ==
    /\ Nobody \notin Workers /\ IsFiniteSet(Workers)
    /\ MaxRetries \in Nat \ {0}
    /\ MaxFaults \in Nat

VARIABLES
    job,         \* the row of batch_image_jobs
    claims,      \* request ids of the job in usage_billing_dedup
    moved,       \* history: the claims that moved money
    queue,       \* Redis: copies in ready; whether in delayed, active, inflight
    lock,        \* Redis: whose token is in the job's lock
    upstream,    \* the job at the provider
    usable,      \* whether the job's account is there, of a type the provider
                 \* takes, and the provider configured
    submit, client, recovery, worker,   \* what each actor does next
    faults,      \* failures so far
    lapses       \* history: what has gone wrong that the code does not repair

billing == <<claims, moved>>
store == <<job, claims, moved, queue, lock, upstream, usable>>
vars == <<store, submit, client, recovery, worker, faults, lapses>>

Terminal == {"completed", "failed", "cancelled"}
Statuses == {"none", "created", "uploading", "submitted", "running", "indexing",
             "settling"} \cup Terminal
\* A batch that succeeded may have results that cannot be opened or not be
\* read, or whose counts or price do not pass the checks of the settlement.
Succeeded == {"succeeded", "unusable", "garbled", "missing"}
Movements == {"hold", "capture", "release"}
SubmitSteps == {"idle", "reserve", "items", "upload", "provider", "persist", "abort",
                "enqueue", "release", "releaseOnly", "reject", "unreleased", "retry",
                "done"}
ClientSteps == {"idle", "provider", "enqueue", "transition", "release", "retry"}
RecoverySteps == {"idle", "fail", "release", "retry"}
Unlocked == {"idle", "reserved", "conflict"}
WorkerSteps == Unlocked \cup
    {"pipeline", "provider", "poll", "index", "indexed", "unindexed", "terminal",
     "settle", "capture", "recordFailure", "exhaust", "toFailed", "reread",
     "mark", "ack", "requeue", "unlock"}

\* Shapes; money moves under a claim, and only leases that ran out under
\* their holders put the job into the ready list more than once.
TypeOK ==
    /\ job \in [status : Statuses, named : BOOLEAN, retries : 0..MaxRetries,
                stale : BOOLEAN, hidden : BOOLEAN]
    /\ moved \subseteq claims /\ claims \subseteq Movements
    /\ queue \in [ready : 0..(1 + faults), delayed : BOOLEAN, active : BOOLEAN,
                  inflight : BOOLEAN]
    /\ lock \in Workers \cup {Nobody}
    /\ upstream \in {"none", "live", "failed", "cancelled"} \cup Succeeded
    /\ usable \in BOOLEAN
    /\ submit \in SubmitSteps
    /\ client \in [Clients -> ClientSteps]
    /\ recovery \in RecoverySteps
    /\ worker \in [Workers -> WorkerSteps]
    /\ faults \in 0..MaxFaults
    /\ lapses \subseteq {"untracked", "orphan", "crossed", "doubt", "late", "dropped"}

Init ==
    /\ job = [status |-> "none", named |-> FALSE, retries |-> 0, stale |-> FALSE,
              hidden |-> FALSE]
    /\ claims = {} /\ moved = {}
    /\ queue = [ready |-> 0, delayed |-> FALSE, active |-> FALSE, inflight |-> FALSE]
    /\ lock = Nobody /\ upstream = "none" /\ usable = TRUE
    /\ submit = "idle" /\ recovery = "idle"
    /\ client = [c \in Clients |-> "idle"]
    /\ worker = [w \in Workers |-> "idle"]
    /\ faults = 0 /\ lapses = {}

-----------------------------------------------------------------------------
(* The stores.                                                             *)

Fault == faults < MaxFaults /\ faults' = faults + 1
NoFault == UNCHANGED faults

Note(what) == lapses' = lapses \cup what
NoteIf(happens, what) == Note(IF happens THEN {what} ELSE {})

\* CanTransitionBatchImageJob
CanTransition(from, to) ==
    /\ from \notin Terminal \cup {"none"}
    /\ \/ to = "failed"
       \/ to = "uploading" /\ from = "created"
       \/ to = "submitted" /\ from \in {"created", "uploading"}
       \/ to = "running" /\ from \in {"submitted", "running"}
       \/ to = "indexing" /\ from \in {"submitted", "running"}
       \/ to = "cancelled" /\ from \in {"created", "uploading", "submitted", "running"}
       \/ to = "settling" /\ from = "indexing"

\* Every UPDATE of the row renews updated_at.
SetStatus(to) == job' = [job EXCEPT !.status = to, !.stale = FALSE]

\* TransitionBatchImageJobStatus: done, refused, or with its outcome unknown.
Transition(to) == CanTransition(job.status, to) /\ SetStatus(to) /\ NoFault
TransitionRefused(to) == ~CanTransition(job.status, to) /\ UNCHANGED job /\ NoFault
TransitionFails(to) ==
    /\ Fault
    /\ UNCHANGED job \/ (CanTransition(job.status, to) /\ SetStatus(to))

NoTransition(to) == TransitionRefused(to) \/ TransitionFails(to)

Claim(request) == claims' = claims \cup {request}
Move(request) == Claim(request) /\ moved' = moved \cup {request}

\* The job's unit is in the frozen balance.
Held == "hold" \in moved /\ moved \cap {"capture", "release"} = {}

\* CaptureBatchImageBalance: a claimed request is answered and not repeated.
CaptureBalance == IF "capture" \in claims THEN UNCHANGED billing ELSE Move("capture")

\* ReleaseBatchImageBalance: without a hold the claim stays and nothing moves.
ReleaseBalance ==
    CASE "release" \in claims -> UNCHANGED billing
      [] "release" \notin claims /\ "hold" \notin claims ->
            Claim("release") /\ UNCHANGED moved
      [] OTHER -> Move("release")

\* The frozen balance does not suffice, or the outcome is unknown.
CaptureFails ==
    \/ "capture" \notin claims /\ ~Held /\ UNCHANGED billing /\ NoFault
    \/ (UNCHANGED billing \/ CaptureBalance) /\ Fault

ReleaseFails ==
    \/ "release" \notin claims /\ "hold" \in claims /\ ~Held /\ UNCHANGED billing /\ NoFault
    \/ (UNCHANGED billing \/ ReleaseBalance) /\ Fault

\* Mutant: a queued job is queued again.
PushAlways == TRUE
NotInflight == ~queue.inflight

\* Enqueue: the inflight key keeps a queued job from being queued again.
Enqueue ==
    queue' = IF NotInflight THEN [queue EXCEPT !.inflight = TRUE, !.ready = @ + 1]
                            ELSE queue

\* Enqueue, or its failure, which callers log.
EnqueueOr(lapse) ==
    \/ Enqueue /\ NoFault /\ UNCHANGED lapses
    \/ UNCHANGED queue /\ Fault /\ Note(lapse)

\* The provider's Cancel.
CancelUpstream == upstream' = IF upstream = "live" THEN "cancelled" ELSE upstream

UpstreamEnds ==
    /\ upstream = "live"
    /\ upstream' \in {"failed"} \cup Succeeded
    /\ UNCHANGED <<job, billing, queue, lock, usable, submit, client, recovery, worker,
                   faults, lapses>>

\* An administrator deletes or edits the account, or edits it back.  Submit
\* goes on with the account it selected: only later readers see the change.
AccountEdited ==
    /\ job.named
    /\ usable' = ~usable
    /\ UNCHANGED <<job, billing, queue, lock, upstream, submit, client, recovery, worker,
                   faults, lapses>>

-----------------------------------------------------------------------------
(* Submit.                                                                 *)

SubmitStep(from, to) ==
    /\ submit = from /\ submit' = to
    /\ UNCHANGED <<lock, usable, client, recovery, worker>>

CreateBatchImageJob ==
    /\ SubmitStep("idle", "reserve")
    /\ SetStatus("created")
    /\ UNCHANGED <<billing, queue, upstream, faults, lapses>>

\* ReserveBatchImageBalance.  A hold made after a cancellation has released
\* it finds the release claimed, and nobody can return it.
ReserveBalance ==
    /\ \/ /\ SubmitStep("reserve", "items")
          /\ Move("hold") /\ NoFault
          /\ NoteIf("release" \in claims, "untracked")
       \/ /\ SubmitStep("reserve", "reject")
          /\ UNCHANGED <<billing, lapses, faults>>
       \/ /\ SubmitStep("reserve", "reject")
          /\ Move("hold") /\ Fault /\ Note({"untracked"})
    /\ UNCHANGED <<job, queue, upstream>>

CreatePendingItems ==
    /\ \/ SubmitStep("items", "upload") /\ NoFault
       \/ SubmitStep("items", "release") /\ Fault
    /\ UNCHANGED <<job, billing, queue, upstream, lapses>>

\* A refusal means that the job was cancelled or given up meanwhile; its
\* status is left alone.
StartUpload ==
    /\ \/ SubmitStep("upload", "provider") /\ Transition("uploading")
       \/ SubmitStep("upload", "releaseOnly") /\ TransitionRefused("uploading")
       \/ SubmitStep("upload", "release") /\ TransitionFails("uploading")
    /\ UNCHANGED <<billing, queue, upstream, lapses>>

\* runSubmitHeartbeat
TouchSubmitting ==
    /\ SubmitStep("provider", "provider")
    /\ job.stale /\ job.status \in {"created", "uploading"}
    /\ job' = [job EXCEPT !.stale = FALSE]
    /\ UNCHANGED <<billing, queue, upstream, faults, lapses>>

\* provider.Submit; when its answer is lost the job runs and nobody knows.
ProviderSubmit ==
    /\ \/ SubmitStep("provider", "persist") /\ upstream' = "live" /\ UNCHANGED <<faults, lapses>>
       \/ SubmitStep("provider", "release") /\ UNCHANGED <<upstream, faults, lapses>>
       \/ /\ SubmitStep("provider", "release")
          /\ upstream' = "live" /\ Fault /\ Note({"orphan"})
    /\ UNCHANGED <<job, billing, queue>>

\* Mutant: the status is not read again before it is overwritten.
SubmittedAlways == job.status # "none"
Submittable == CanTransition(job.status, "submitted")

Submitted == job' = [job EXCEPT !.status = "submitted", !.named = TRUE, !.stale = FALSE]

UpdateProviderSubmit ==
    /\ \/ /\ SubmitStep("persist", "enqueue")
          /\ Submittable /\ Submitted
          /\ UNCHANGED <<faults, lapses>>
       \/ SubmitStep("persist", "abort") /\ ~Submittable /\ UNCHANGED <<job, faults, lapses>>
       \/ SubmitStep("persist", "abort") /\ Fault /\ UNCHANGED <<job, lapses>>
       \/ SubmitStep("persist", "abort") /\ Submittable /\ Submitted /\ Fault /\ Note({"untracked"})
    /\ UNCHANGED <<billing, queue, upstream>>

\* abortOrphanProviderJob
AbortOrphan ==
    /\ SubmitStep("abort", "done")
    /\ \/ CancelUpstream /\ UNCHANGED <<faults, lapses>>
       \/ UNCHANGED upstream /\ Fault /\ Note({"orphan"})
    /\ UNCHANGED <<job, billing, queue>>

EnqueueSubmitted ==
    /\ SubmitStep("enqueue", "done") \/ SubmitStep("retry", "done")
    /\ EnqueueOr({"untracked"})
    /\ UNCHANGED <<job, billing, upstream>>

\* releaseFailedSubmitHold
ReleaseSubmitHold ==
    /\ \/ SubmitStep("release", "reject") /\ ReleaseBalance /\ NoFault
       \/ SubmitStep("releaseOnly", "done") /\ ReleaseBalance /\ NoFault
       \/ SubmitStep("release", "unreleased") /\ ReleaseFails
       \/ SubmitStep("releaseOnly", "unreleased") /\ ReleaseFails
    /\ UNCHANGED <<job, queue, upstream, lapses>>

\* RecordBatchImageJobSubmitFailure: whatever the status was; errors are ignored.
RecordUnreleased ==
    /\ SubmitStep("unreleased", "retry")
    /\ (SetStatus("failed") /\ NoFault) \/ (UNCHANGED job /\ Fault)
    /\ UNCHANGED <<billing, queue, upstream, lapses>>

\* The same, and hidePreUpstreamSubmitFailure, each of which may fail.
RejectSubmit ==
    /\ SubmitStep("reject", "done")
    /\ \/ job' = [job EXCEPT !.status = "failed", !.stale = FALSE, !.hidden = TRUE] /\ NoFault
       \/ SetStatus("failed") /\ Fault
       \/ job' = [job EXCEPT !.hidden = @ \/ job.status \in Terminal] /\ Fault
    /\ UNCHANGED <<billing, queue, upstream, lapses>>

\* The instance dies, or the client of the request goes away.  It happens once
\* at most, and is not counted among the faults.
CrashSubmit ==
    /\ submit \notin {"idle", "done"}
    /\ SubmitStep(submit, "done")
    /\ NoFault
    /\ Note(CASE submit \in {"persist", "abort"} -> {"orphan"}
              [] submit \in {"enqueue", "retry"} -> {"untracked"}
              [] OTHER -> {})
    /\ UNCHANGED <<job, billing, queue, upstream>>

-----------------------------------------------------------------------------
(* Cancel, and Submit repeated with the same idempotency key.              *)

ClientStep(c, from, to) ==
    /\ client[c] = from /\ client' = [client EXCEPT ![c] = to]
    /\ UNCHANGED <<lock, usable, submit, recovery, worker>>

CancelRead(c) ==
    /\ job.status # "none" /\ ~job.hidden
    /\ ClientStep(c, "idle",
            CASE job.status \in {"failed", "cancelled"} -> "release"
              [] job.status \in {"settling", "completed"} -> "idle"
              [] job.named -> "provider"
              [] OTHER -> "transition")
    /\ UNCHANGED <<job, billing, queue, upstream, faults, lapses>>

\* The account is read again; without it nobody asks the provider.
CancelProvider(c) ==
    /\ \/ ClientStep(c, "provider", "enqueue") /\ usable /\ CancelUpstream /\ NoFault
       \/ ClientStep(c, "provider", "idle") /\ ~usable /\ UNCHANGED <<upstream, faults>>
       \/ ClientStep(c, "provider", "idle") /\ Fault /\ (CancelUpstream \/ UNCHANGED upstream)
    /\ UNCHANGED <<job, billing, queue, lapses>>

\* A queue failure is reported; the job is queued already, or was lost before.
ClientEnqueue(c) ==
    /\ ClientStep(c, "enqueue", "idle")
    /\ EnqueueOr({})
    /\ UNCHANGED <<job, billing, upstream>>

Resubmit(c) ==
    /\ job.status = "submitted"
    /\ ClientStep(c, "idle", "enqueue")
    /\ UNCHANGED <<job, billing, queue, upstream, faults, lapses>>

\* The job may have been submitted since it was read: then it is cancelled
\* here, its hold is returned, and the provider is not told.
Crossing == IF job.named THEN {"crossed"} ELSE {}

CancelTransition(c) ==
    /\ \/ /\ ClientStep(c, "transition", "release")
          /\ Transition("cancelled")
          /\ Note(Crossing)
       \/ ClientStep(c, "transition", "idle") /\ TransitionRefused("cancelled") /\ UNCHANGED lapses
       \/ /\ ClientStep(c, "transition", "idle")
          /\ TransitionFails("cancelled")
          /\ Note(IF job' = job THEN {} ELSE {"untracked"} \cup Crossing)
    /\ UNCHANGED <<billing, queue, upstream>>

CancelRelease(c) ==
    /\ \/ ClientStep(c, "release", "idle") /\ ReleaseBalance /\ NoFault
       \/ ClientStep(c, "release", "retry") /\ ReleaseFails
    /\ UNCHANGED <<job, queue, upstream, lapses>>

\* enqueueBillingRetry
CancelRetry(c) ==
    /\ ClientStep(c, "retry", "idle")
    /\ EnqueueOr({"untracked"})
    /\ UNCHANGED <<job, billing, upstream>>

CrashClient(c) ==
    /\ client[c] # "idle"
    /\ ClientStep(c, client[c], "idle")
    /\ Fault
    /\ NoteIf(client[c] \in {"release", "retry"}, "untracked")
    /\ UNCHANGED <<job, billing, queue, upstream>>
-----------------------------------------------------------------------------
(* ReleaseStaleUnsubmittedOnce.                                            *)

RecoveryStep(from, to) ==
    /\ recovery = from /\ recovery' = to
    /\ UNCHANGED <<lock, usable, submit, client, worker>>

\* updated_at falls behind the cutoff although Submit is still at work, or
\* because it is not.
GoesStale ==
    /\ job.status \in {"created", "uploading"} /\ ~job.stale
    /\ IF submit = "done" THEN NoFault ELSE Fault
    /\ job' = [job EXCEPT !.stale = TRUE]
    /\ UNCHANGED <<billing, queue, lock, upstream, usable, submit, client, recovery, worker,
                   lapses>>

StaleUnsubmitted == job.status \in {"created", "uploading"} /\ ~job.named /\ job.stale

ListStale ==
    /\ StaleUnsubmitted
    /\ RecoveryStep("idle", "fail")
    /\ UNCHANGED <<job, billing, queue, upstream, faults, lapses>>

\* Mutant: the job is still as it was listed.
AsListed == TRUE
StillStale == StaleUnsubmitted

\* FailStaleUnsubmittedBatchImageJob
FailStale ==
    /\ \/ /\ RecoveryStep("fail", "release")
          /\ StillStale /\ SetStatus("failed")
          /\ UNCHANGED <<faults, lapses>>
       \/ RecoveryStep("fail", "idle") /\ ~StillStale /\ UNCHANGED <<job, faults, lapses>>
       \/ RecoveryStep("fail", "idle") /\ Fault /\ UNCHANGED <<job, lapses>>
       \/ /\ RecoveryStep("fail", "idle")
          /\ StillStale /\ SetStatus("failed")
          /\ Fault /\ Note({"untracked"})
    /\ UNCHANGED <<billing, queue, upstream>>

RecoveryRelease ==
    /\ \/ RecoveryStep("release", "idle") /\ ReleaseBalance /\ NoFault
       \/ RecoveryStep("release", "retry") /\ ReleaseFails
    /\ UNCHANGED <<job, queue, upstream, lapses>>

RecoveryRetry ==
    /\ RecoveryStep("retry", "idle")
    /\ EnqueueOr({"untracked"})
    /\ UNCHANGED <<job, billing, upstream>>

CrashRecovery ==
    /\ recovery # "idle"
    /\ RecoveryStep(recovery, "idle")
    /\ Fault
    /\ NoteIf(recovery \in {"release", "retry"}, "untracked")
    /\ UNCHANGED <<job, billing, queue, upstream>>

-----------------------------------------------------------------------------
(* RunOnce: reservation, lock, Ack and RequeueAfter.                       *)

Step(w, from, to) ==
    /\ worker[w] = from /\ worker' = [worker EXCEPT ![w] = to]
    /\ UNCHANGED <<usable, submit, client, recovery>>

Reserve(w) ==
    /\ queue.ready > 0
    /\ Step(w, "idle", "reserved")
    /\ queue' = [queue EXCEPT !.ready = @ - 1, !.active = TRUE]
    /\ UNCHANGED <<job, billing, lock, upstream, faults, lapses>>

\* SETNX; an error is treated like a conflict.
TryAcquireJobLock(w) ==
    /\ \/ Step(w, "reserved", "pipeline") /\ lock = Nobody /\ lock' = w /\ NoFault
       \/ Step(w, "reserved", "conflict") /\ lock # Nobody /\ UNCHANGED <<lock, faults>>
       \/ /\ Step(w, "reserved", "conflict") /\ Fault
          /\ lock' \in {lock, IF lock = Nobody THEN w ELSE lock}
    /\ UNCHANGED <<job, billing, queue, upstream, lapses>>

\* RequeueAfter; when it fails the entry stays active.
Requeue(w) ==
    /\ Step(w, "conflict", "idle") \/ Step(w, "requeue", "unlock")
    /\ \/ queue' = [queue EXCEPT !.active = FALSE, !.delayed = TRUE] /\ NoFault
       \/ UNCHANGED queue /\ Fault
    /\ UNCHANGED <<job, billing, lock, upstream, lapses>>

Ack(w) ==
    /\ Step(w, "ack", "unlock")
    /\ \/ /\ queue' = [queue EXCEPT !.active = FALSE, !.delayed = FALSE, !.inflight = FALSE]
          /\ NoFault
          /\ NoteIf(job.status = "settling", "dropped")
       \/ UNCHANGED <<queue, lapses>> /\ Fault
    /\ UNCHANGED <<job, billing, lock, upstream>>

\* lock.Release compares the token.
Unlock(w) ==
    /\ Step(w, "unlock", "idle")
    /\ \/ lock' = (IF lock = w THEN Nobody ELSE lock) /\ NoFault
       \/ UNCHANGED lock /\ Fault
    /\ UNCHANGED <<job, billing, queue, upstream, lapses>>

\* The instance dies: its lock and the active entry stay.
CrashWorker(w) ==
    /\ worker[w] # "idle"
    /\ Step(w, worker[w], "idle")
    /\ Fault
    /\ UNCHANGED <<job, billing, queue, lock, upstream, lapses>>

\* Leases run out when their holder is gone.
LockExpires ==
    /\ lock # Nobody
    /\ worker[lock] \in Unlocked
    /\ lock' = Nobody
    /\ UNCHANGED <<job, billing, queue, upstream, usable, submit, client, recovery, worker,
                   faults, lapses>>

\* Mutant: the entry is removed and not pushed.
Forgotten == [queue EXCEPT !.active = FALSE]
Recovered == [queue EXCEPT !.active = FALSE, !.ready = @ + 1]

RecoverStaleActive ==
    /\ queue.active
    /\ \A w \in Workers : worker[w] = "idle"
    /\ queue' = Recovered
    /\ UNCHANGED <<job, billing, lock, upstream, usable, submit, client, recovery, worker,
                   faults, lapses>>

\* runJobHeartbeat does not get through: the lock, the active entry or both
\* run out although the worker is alive.
HeartbeatsFail(w) ==
    /\ worker[w] # "idle"
    /\ lock' \in {lock, IF lock = w THEN Nobody ELSE lock}
    /\ queue' \in {queue, IF queue.active THEN Recovered ELSE queue}
    /\ <<lock, queue>>' # <<lock, queue>>
    /\ Fault /\ Note({"late"})
    /\ UNCHANGED <<job, billing, upstream, usable, submit, client, recovery, worker>>

MoveDueDelayed ==
    /\ queue.delayed
    /\ queue' = [queue EXCEPT !.delayed = FALSE, !.ready = @ + 1]
    /\ UNCHANGED <<job, billing, lock, upstream, usable, submit, client, recovery, worker,
                   faults, lapses>>

-----------------------------------------------------------------------------
(* Process: polling and indexing.                                          *)

\* BatchImagePipelineProcessor.Process
Pipeline(w) ==
    /\ Step(w, "pipeline", IF job.status = "settling" THEN "settle" ELSE "provider")
    /\ UNCHANGED <<job, billing, queue, lock, upstream, faults, lapses>>

\* Mutant: every finished job is released.
DoneReturnsHold == job.status \in Terminal
\* releaseTerminalHold
ReturnsHold == job.status \in {"failed", "cancelled"}

\* isBatchImageProcessorDoneStatus
IsDone == job.status \in Terminal \cup {"settling"}

\* BatchImageProviderProcessor.Process reads the job again, and its account.
\* An account that cannot be used is an error every time, as is a job without
\* the provider's name: the job is requeued and stays as it is.
ReadJob(w) ==
    /\ Step(w, "provider",
            CASE ReturnsHold -> "terminal"
              [] IsDone /\ ~ReturnsHold -> "ack"
              [] ~IsDone /\ ~(usable /\ job.named) -> "requeue"
              [] usable /\ job.named /\ job.status = "indexing" -> "index"
              [] OTHER -> "poll")
    /\ UNCHANGED <<job, billing, queue, lock, upstream, faults, lapses>>

\* provider.Get and the transition it calls for.
Poll(w) ==
    LET Becomes(states, status, next) ==
            /\ upstream \in states
            /\ \/ Step(w, "poll", next) /\ Transition(status)
               \/ Step(w, "poll", "requeue") /\ NoTransition(status)
    IN /\ \/ Becomes({"live"}, "running", "requeue")
          \/ Becomes(Succeeded, "indexing", "index")
          \/ Becomes({"failed"}, "failed", "terminal")
          \/ Becomes({"cancelled"}, "cancelled", "terminal")
          \/ Step(w, "poll", "requeue") /\ upstream = "live" /\ UNCHANGED <<job, faults>>
          \/ Step(w, "poll", "requeue") /\ UNCHANGED job /\ Fault
       /\ UNCHANGED <<billing, queue, lock, upstream, lapses>>

\* Index replaces the items only while the job is indexing.  Output that
\* cannot be opened is waited for, however long; any other error, of reading
\* too, fails the job.
Index(w) ==
    /\ \/ /\ upstream \notin {"garbled", "missing"}
          /\ Step(w, "index", IF job.status = "indexing" THEN "indexed" ELSE "requeue")
          /\ NoFault
       \/ upstream = "missing" /\ Step(w, "index", "requeue") /\ NoFault
       \/ upstream = "garbled" /\ Step(w, "index", "unindexed") /\ NoFault
       \/ (Step(w, "index", "requeue") \/ Step(w, "index", "unindexed")) /\ Fault
    /\ UNCHANGED <<job, billing, queue, lock, upstream, lapses>>

IndexFailed(w) ==
    /\ \/ Step(w, "unindexed", "terminal") /\ Transition("failed")
       \/ Step(w, "unindexed", "requeue") /\ NoTransition("failed")
    /\ UNCHANGED <<billing, queue, lock, upstream, lapses>>

IndexDone(w) ==
    /\ Step(w, "indexed", "requeue")
    /\ Transition("settling") \/ NoTransition("settling")
    /\ UNCHANGED <<billing, queue, lock, upstream, lapses>>

ReleaseTerminal(w) ==
    /\ \/ Step(w, "terminal", "ack") /\ ReleaseBalance /\ NoFault
       \/ Step(w, "terminal", "requeue") /\ ReleaseFails
    /\ UNCHANGED <<job, queue, lock, upstream, lapses>>
-----------------------------------------------------------------------------
(* Settle.                                                                 *)

\* The checks: of the retry limit, then of counts, manifest and price.  The
\* account is not read.  Those of the ids of API key and account, which stand
\* before, never fail: Submit stores both, and no statement changes them.
SettleRead(w) ==
    /\ \/ job.status = "completed" /\ Step(w, "settle", "ack")
       \/ job.status \notin {"settling", "completed"} /\ Step(w, "settle", "requeue")
       \/ /\ job.status = "settling"
          /\ Step(w, "settle", IF job.retries >= MaxRetries THEN "exhaust"
                               ELSE IF upstream = "unusable" THEN "recordFailure"
                               ELSE "capture")
    /\ UNCHANGED <<job, billing, queue, lock, upstream, faults, lapses>>

\* Mutant: an error of the capture is swallowed.
CaptureErrorIgnored == "mark"
CaptureError == "recordFailure"

\* An error although the capture took effect leaves the charge in doubt.
Capture(w) ==
    /\ \/ Step(w, "capture", "mark") /\ CaptureBalance /\ UNCHANGED <<faults, lapses>>
       \/ /\ Step(w, "capture", CaptureError)
          /\ CaptureFails
          /\ NoteIf("capture" \in claims', "doubt")
    /\ UNCHANGED <<job, queue, lock, upstream>>

\* SetBatchImageJobSettlementFailed; counted no further than the limit.
CountFailure ==
    job' = [job EXCEPT !.retries = IF @ < MaxRetries THEN @ + 1 ELSE @, !.stale = FALSE]

\* recordSettlementFailure; its own errors are ignored.
RecordFailure(w) ==
    /\ LET again == IF upstream = "unusable" THEN "requeue" ELSE "reread" IN
       \/ /\ CountFailure /\ NoFault
          /\ Step(w, "recordFailure", IF job'.retries >= MaxRetries THEN "exhaust" ELSE again)
       \/ Step(w, "recordFailure", again) /\ Fault /\ (CountFailure \/ UNCHANGED job)
    /\ UNCHANGED <<billing, queue, lock, upstream, lapses>>

\* failExhaustedSettlement: the hold is returned, then the job fails.  A
\* return that fails is counted like any failure, beyond the limit.
Exhaust(w) ==
    /\ \/ Step(w, "exhaust", "toFailed") /\ ReleaseBalance /\ NoFault
       \/ Step(w, "exhaust", "reread") /\ ReleaseFails
    /\ UNCHANGED <<job, queue, lock, upstream, lapses>>

ExhaustFails(w) ==
    /\ \/ Step(w, "toFailed", "reread") /\ Transition("failed")
       \/ Step(w, "toFailed", "requeue") /\ NoTransition("failed")
    /\ UNCHANGED <<billing, queue, lock, upstream, lapses>>

\* The pipeline looks whether a failed settlement has ended the job.
Reread(w) ==
    /\ \/ Step(w, "reread", IF job.status \in Terminal THEN "ack" ELSE "requeue") /\ NoFault
       \/ Step(w, "reread", "requeue") /\ Fault
    /\ UNCHANGED <<job, billing, queue, lock, upstream, lapses>>

\* MarkBatchImageJobSettled: UPDATE ... WHERE status = 'settling'.
MarkSettled(w) ==
    /\ \/ Step(w, "mark", "ack") /\ job.status = "settling" /\ SetStatus("completed") /\ NoFault
       \/ Step(w, "mark", "requeue") /\ job.status # "settling" /\ UNCHANGED job /\ NoFault
       \/ /\ Step(w, "mark", "requeue") /\ Fault
          /\ UNCHANGED job \/ (job.status = "settling" /\ SetStatus("completed"))
    /\ UNCHANGED <<billing, queue, lock, upstream, lapses>>

-----------------------------------------------------------------------------

Submitting ==
    \/ CreateBatchImageJob \/ ReserveBalance \/ CreatePendingItems \/ StartUpload
    \/ ProviderSubmit \/ UpdateProviderSubmit \/ AbortOrphan \/ EnqueueSubmitted
    \/ ReleaseSubmitHold \/ RecordUnreleased \/ RejectSubmit

Cancelling(c) ==
    \/ CancelProvider(c) \/ ClientEnqueue(c) \/ CancelTransition(c)
    \/ CancelRelease(c) \/ CancelRetry(c)

Recovering == ListStale \/ FailStale \/ RecoveryRelease \/ RecoveryRetry

Working(w) ==
    \/ Reserve(w) \/ TryAcquireJobLock(w) \/ Requeue(w) \/ Ack(w) \/ Unlock(w)
    \/ Pipeline(w) \/ ReadJob(w) \/ Poll(w) \/ Index(w) \/ IndexFailed(w) \/ IndexDone(w)
    \/ ReleaseTerminal(w) \/ SettleRead(w) \/ Capture(w) \/ RecordFailure(w) \/ Exhaust(w)
    \/ ExhaustFails(w) \/ Reread(w) \/ MarkSettled(w)

Crash ==
    \/ CrashSubmit \/ CrashRecovery
    \/ \E c \in Clients : CrashClient(c)
    \/ \E w \in Workers : CrashWorker(w)

Next ==
    \/ Submitting \/ TouchSubmitting \/ Recovering \/ GoesStale
    \/ UpstreamEnds \/ AccountEdited \/ LockExpires \/ RecoverStaleActive \/ MoveDueDelayed \/ Crash
    \/ \E w \in Workers : HeartbeatsFail(w)
    \/ \E c \in Clients : CancelRead(c) \/ Resubmit(c) \/ Cancelling(c)
    \/ \E w \in Workers : Working(w)

\* What has begun goes on, the loops of the worker and of the recovery keep
\* running, batches end, and time passes.
Fairness ==
    /\ WF_vars(Submitting) /\ WF_vars(Recovering)
    /\ \A c \in Clients : WF_vars(Cancelling(c))
    /\ \A w \in Workers : WF_vars(Working(w))
    /\ WF_vars(UpstreamEnds) /\ WF_vars(MoveDueDelayed)
    /\ WF_vars(LockExpires) /\ WF_vars(RecoverStaleActive) /\ WF_vars(GoesStale)

Safety == Init /\ [][Next]_vars
Spec == Safety /\ Fairness

-----------------------------------------------------------------------------

\* A hold is captured or released, not both, however workers, cancellations,
\* the recovery and failed submissions race for it: the two requests have
\* different ids in usage_billing_dedup, and only the job's status and the
\* lock keep them apart.  They fail to when a worker outlives its leases, or
\* when the retries end on a capture whose outcome is unknown.
SettledOnce ==
    {"capture", "release"} \subseteq moved => lapses \cap {"doubt", "late"} # {}

\* MarkBatchImageJobSettled completes only jobs whose hold was captured, also
\* when an earlier attempt captured it and died.
CompletedIsCharged ==
    job.status = "completed" => {"hold", "capture"} \subseteq moved

\* No batch keeps running at the provider for a job that was given up and
\* refunded, although cancellations and the recovery run into submissions:
\* only a lost answer or a crash leaves one behind, or a cancellation that
\* read the job before the provider's name was stored.
NoOrphan ==
    upstream = "live" /\ job.status \in {"failed", "cancelled"} /\ submit = "done" =>
        lapses \cap {"orphan", "crossed"} # {}

\* A late submission, cancellation, recovery or straggling worker never
\* revives a job that has ended, and never fails a completed one.
TerminalStays ==
    [][/\ job.status = "completed" => job'.status = "completed"
       /\ job.status \in {"failed", "cancelled"} => job'.status \in {"failed", "cancelled"}]_vars

\* A submitted batch is not settled, given up or cancelled without its account,
\* or without its output: Process fails and requeues the job each time.
Waits ==
    \/ job.status \in {"submitted", "running", "indexing"} /\ ~usable
    \/ job.status = "indexing" /\ upstream = "missing"

\* What is held is charged or returned in the end, through crashes, failing
\* calls and expired leases, and although the account goes and comes back or
\* goes for good once the results are indexed.  The code loses track of a hold
\* where it only logs, and where a worker that lost its leases acknowledges a
\* job that meanwhile became settling (isBatchImageProcessorDoneStatus).  It
\* keeps the hold, with no limit of time or attempts, while the job waits for
\* an account or an output that does not come back to stay.
HoldSettles ==
    "hold" \in moved ~> \/ {"capture", "release"} \cap moved # {}
                        \/ "untracked" \in lapses \/ {"late", "dropped"} \subseteq lapses
                        \/ []<>Waits

-----------------------------------------------------------------------------
(* The inductive invariant behind TypeOK.                                  *)

\* The workers that are going to requeue or acknowledge the job.
Holders == {w \in Workers : worker[w] \notin {"idle", "unlock"}}

Count(b) == IF b THEN 1 ELSE 0

\* The active entry stands for one of them, or for one that died.
AtWork == IF Holders = {} THEN Count(queue.active) ELSE Cardinality(Holders)

\* The copies of the job, in the queue and with workers, and the one that may
\* still be pushed.
Copies == queue.ready + Count(queue.delayed) + Count(~queue.inflight) + AtWork

TypeInv == TypeOK /\ Copies <= 1 + faults

-----------------------------------------------------------------------------
(* The inductive invariant behind TerminalStays and CompletedIsCharged.    *)

GivenUp == job.status \in {"failed", "cancelled"}

\* Submit has not got, or will never get, the job accepted.
Unsubmitted == {"idle", "reserve", "items", "upload", "provider", "persist", "release",
                "releaseOnly", "reject", "unreleased", "retry"}

StatusInv ==
    /\ submit = "idle" <=> job.status = "none"
    /\ submit \in Unsubmitted => ~job.named
    /\ ~job.named => job.status \in {"none", "created", "uploading", "failed", "cancelled"}
    /\ \A w \in Workers : worker[w] = "terminal" => GivenUp
    /\ \A c \in Clients : client[c] \in {"release", "retry"} => GivenUp
    /\ recovery \in {"release", "retry"} => GivenUp

ChargeInv ==
    /\ submit \in {"items", "upload", "provider", "persist"} \/ job.named => "hold" \in moved
    /\ "capture" \in claims => "capture" \in moved
    /\ (\E w \in Workers : worker[w] = "mark") => "capture" \in claims
    /\ job.status = "completed" => "capture" \in claims

-----------------------------------------------------------------------------
(* The inductive invariant behind NoOrphan.                                *)

\* Workers that have seen the batch succeed.
SeenSuccess == {"index", "indexed", "unindexed", "settle", "capture", "recordFailure",
                "exhaust", "toFailed", "mark"}

UpstreamInv ==
    /\ submit \in {"idle", "reserve", "items", "upload", "provider"} => upstream = "none"
    /\ job.status \in {"indexing", "settling", "completed"} => upstream \in Succeeded
    /\ \A w \in Workers : worker[w] \in SeenSuccess => upstream \in Succeeded
    /\ upstream = "live" /\ lapses \cap {"orphan", "crossed"} = {} =>
         \/ submit \in {"persist", "abort"}
         \/ job.named /\ ~GivenUp

-----------------------------------------------------------------------------
(* The inductive invariant behind SettledOnce: what keeps capture and      *)
(* release apart while every worker keeps its leases.                      *)

Exhausted == job.retries >= MaxRetries

\* What worker w knows of the job as long as it has the lock.
Knows(w) ==
    /\ worker[w] \in {"poll", "index", "indexed", "unindexed"} =>
         job.status \notin {"settling", "completed"}
    /\ worker[w] \in {"capture", "mark", "recordFailure", "exhaust", "toFailed"} =>
         job.status = "settling"
    /\ worker[w] \in {"capture", "mark"} => ~Exhausted /\ upstream # "unusable"
    /\ worker[w] \in {"recordFailure", "exhaust", "toFailed"} => "capture" \notin claims
    /\ worker[w] \in {"exhaust", "toFailed"} => Exhausted

SettledInv ==
    /\ "release" \in claims =>
         \/ GivenUp
         \/ ~job.named /\ submit \in {"reject", "unreleased", "retry", "done"}
         \/ job.status = "settling" /\ Exhausted
         \/ lapses \cap {"doubt", "late"} # {}
    /\ lapses \cap {"doubt", "late"} = {} =>
         /\ \A w \in Workers : worker[w] \notin Unlocked => lock = w /\ Knows(w)
         /\ "capture" \in claims =>
              /\ job.status \in {"settling", "completed"} /\ ~Exhausted
              /\ upstream # "unusable" /\ "release" \notin claims

=============================================================================
