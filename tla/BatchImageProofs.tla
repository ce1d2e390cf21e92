-------------------------- MODULE BatchImageProofs --------------------------
(***************************************************************************)
(* For any number of workers, requests of the owner, retries and failures: *)
(* what has ended stays ended, what is completed was charged, and no hold  *)
(* is both charged and returned while workers keep their leases.           *)
(***************************************************************************)
EXTENDS BatchImage, FiniteSetTheorems, TLAPS

-----------------------------------------------------------------------------
(* The shapes of the variables, without the bound on the ready list.       *)

JobRecord == [status : Statuses, named : BOOLEAN, retries : 0..MaxRetries,
              stale : BOOLEAN, hidden : BOOLEAN]
QueueRecord == [ready : Nat, delayed : BOOLEAN, active : BOOLEAN, inflight : BOOLEAN]
Lapses == {"untracked", "orphan", "crossed", "doubt", "late", "dropped"}

StoreShape ==
    /\ job \in JobRecord /\ moved \subseteq claims /\ claims \subseteq Movements
    /\ lock \in Workers \cup {Nobody}
    /\ upstream \in {"none", "live", "failed", "cancelled"} \cup Succeeded
    /\ usable \in BOOLEAN
    /\ faults \in 0..MaxFaults /\ lapses \subseteq Lapses

ActorShape ==
    /\ submit \in SubmitSteps /\ recovery \in RecoverySteps
    /\ client \in [Clients -> ClientSteps] /\ worker \in [Workers -> WorkerSteps]

Shape == StoreShape /\ queue \in QueueRecord /\ ActorShape

LEMMA FaultShape ==
    ASSUME StoreShape, Fault \/ NoFault \/ UNCHANGED faults
    PROVE  faults' \in 0..MaxFaults /\ faults <= faults'
  BY ConstantsAssumption DEF StoreShape, Fault, NoFault

LEMMA JobShape ==
    ASSUME StoreShape
    PROVE  /\ \A to \in Statuses : SetStatus(to) => job' \in JobRecord
           /\ Submitted => job' \in JobRecord
           /\ CountFailure => job' \in JobRecord
           /\ UNCHANGED job => job' \in JobRecord
<1>1. \A to \in Statuses : SetStatus(to) => job' \in JobRecord
  BY DEF StoreShape, SetStatus, JobRecord
<1>2. Submitted => job' \in JobRecord
  BY DEF StoreShape, Submitted, JobRecord, Statuses
<1>3. CountFailure => job' \in JobRecord
  <2> DEFINE n == IF job.retries < MaxRetries THEN job.retries + 1 ELSE job.retries
  <2>1. n \in 0..MaxRetries
    BY ConstantsAssumption DEF StoreShape, JobRecord
  <2>2. CountFailure => job' = [job EXCEPT !.retries = n, !.stale = FALSE]
    BY DEF CountFailure
  <2> HIDE DEF n
  <2> QED
    BY <2>1, <2>2 DEF StoreShape, JobRecord
<1> QED
  BY <1>1, <1>2, <1>3 DEF StoreShape

LEMMA TransitionShape ==
    ASSUME StoreShape, NEW to \in Statuses, Transition(to) \/ NoTransition(to)
    PROVE  job' \in JobRecord /\ faults' \in 0..MaxFaults
<1>1. SetStatus(to) \/ UNCHANGED job
  BY DEF Transition, NoTransition, TransitionRefused, TransitionFails
<1>2. Fault \/ NoFault
  BY DEF Transition, NoTransition, TransitionRefused, TransitionFails
<1> QED
  BY <1>1, <1>2, JobShape, FaultShape

LEMMA BillingShape ==
    ASSUME StoreShape,
           \/ UNCHANGED billing \/ CaptureBalance \/ ReleaseBalance \/ CaptureFails \/ ReleaseFails
           \/ Move("hold")
    PROVE  moved' \subseteq claims' /\ claims' \subseteq Movements
<1>1. \/ UNCHANGED billing
      \/ \E r \in Movements : Claim(r) /\ (moved' = moved \/ moved' = moved \cup {r})
  BY DEF CaptureFails, ReleaseFails, CaptureBalance, ReleaseBalance, Move, Movements
<1> QED
  BY <1>1 DEF StoreShape, Claim, billing

\* A step that leaves the stores in shape.
LEMMA StoreStep ==
    ASSUME StoreShape, job' \in JobRecord, moved' \subseteq claims' /\ claims' \subseteq Movements,
           lock' \in Workers \cup {Nobody},
           upstream' \in {"none", "live", "failed", "cancelled"} \cup Succeeded,
           usable' \in BOOLEAN,
           faults' \in 0..MaxFaults, lapses' \subseteq Lapses
    PROVE  StoreShape'
  BY DEF StoreShape

LEMMA LapseShape ==
    ASSUME StoreShape
    PROVE  /\ \A s \in SUBSET Lapses : Note(s) => lapses' \subseteq Lapses
           /\ \A x \in Lapses : Note({x}) => lapses' \subseteq Lapses
           /\ Note({}) => lapses' \subseteq Lapses
           /\ UNCHANGED lapses => lapses' \subseteq Lapses
           /\ {"untracked", "orphan", "crossed", "doubt", "late", "dropped"} = Lapses
  BY DEF StoreShape, Note, Lapses

LEMMA SubmitShape ==
    ASSUME Shape, Submitting \/ TouchSubmitting \/ CrashSubmit
    PROVE  StoreShape' /\ ActorShape'
<1>0. StoreShape /\ ActorShape
  BY DEF Shape
<1>1. \E from, to \in SubmitSteps : SubmitStep(from, to)
  BY <1>0 DEF ActorShape, Submitting, TouchSubmitting, CrashSubmit, CreateBatchImageJob, ReserveBalance,
     CreatePendingItems, StartUpload, ProviderSubmit, UpdateProviderSubmit, AbortOrphan,
     EnqueueSubmitted, ReleaseSubmitHold, RecordUnreleased, RejectSubmit, SubmitSteps
<1>2. ActorShape' /\ lock' \in Workers \cup {Nobody} /\ usable' \in BOOLEAN
  BY <1>0, <1>1 DEF ActorShape, StoreShape, SubmitStep
<1>3. job' \in JobRecord
  <2>1. CASE CreateBatchImageJob
    BY <1>0, <2>1, JobShape DEF CreateBatchImageJob, Statuses
  <2>2. CASE StartUpload
    BY <1>0, <2>2, TransitionShape DEF StartUpload, NoTransition, Statuses
  <2>3. CASE UpdateProviderSubmit
    BY <1>0, <2>3, JobShape DEF UpdateProviderSubmit
  <2>4. CASE RecordUnreleased
    BY <1>0, <2>4, JobShape DEF RecordUnreleased, Statuses, Terminal
  <2>5. CASE RejectSubmit
    <3>1. CASE SetStatus("failed")
      BY <1>0, <3>1, JobShape DEF Statuses, Terminal
    <3>2. CASE job' = [job EXCEPT !.status = "failed", !.stale = FALSE, !.hidden = TRUE]
      BY <1>0, <3>2 DEF StoreShape, JobRecord, Statuses, Terminal
    <3>3. CASE job' = [job EXCEPT !.hidden = @ \/ job.status \in Terminal]
      <4> DEFINE h == job.hidden \/ job.status \in Terminal
      <4>1. h \in BOOLEAN /\ job' = [job EXCEPT !.hidden = h]
        BY <3>3
      <4> HIDE DEF h
      <4> QED
        BY <1>0, <4>1 DEF StoreShape, JobRecord
    <3> QED
      BY <2>5, <3>1, <3>2, <3>3 DEF RejectSubmit
  <2>6. CASE TouchSubmitting
    BY <1>0, <2>6 DEF TouchSubmitting, StoreShape, JobRecord
  <2>7. CASE \/ ReserveBalance \/ CreatePendingItems \/ ProviderSubmit \/ AbortOrphan
             \/ EnqueueSubmitted \/ ReleaseSubmitHold \/ CrashSubmit
    BY <1>0, <2>7, JobShape DEF ReserveBalance, CreatePendingItems, ProviderSubmit, AbortOrphan,
       EnqueueSubmitted, ReleaseSubmitHold, CrashSubmit
  <2> QED
    BY <2>1, <2>2, <2>3, <2>4, <2>5, <2>6, <2>7 DEF Submitting
<1>4. moved' \subseteq claims' /\ claims' \subseteq Movements
  <2>1. \/ UNCHANGED billing \/ ReleaseBalance \/ ReleaseFails \/ Move("hold")
    BY DEF Submitting, TouchSubmitting, CrashSubmit, CreateBatchImageJob, ReserveBalance,
     CreatePendingItems, StartUpload, ProviderSubmit, UpdateProviderSubmit, AbortOrphan,
     EnqueueSubmitted, ReleaseSubmitHold, RecordUnreleased, RejectSubmit
  <2> QED
    BY <1>0, <2>1, BillingShape
<1>5. upstream' \in {"none", "live", "failed", "cancelled"} \cup Succeeded
  <2>1. upstream' \in {upstream, "live", "cancelled"}
    BY DEF Submitting, TouchSubmitting, CrashSubmit, CreateBatchImageJob, ReserveBalance,
     CreatePendingItems, StartUpload, ProviderSubmit, UpdateProviderSubmit, AbortOrphan,
     EnqueueSubmitted, ReleaseSubmitHold, RecordUnreleased, RejectSubmit, CancelUpstream
  <2> QED
    BY <1>0, <2>1 DEF StoreShape
<1>6. faults' \in 0..MaxFaults
  <2>1. Fault \/ NoFault \/ UNCHANGED faults
    BY DEF Submitting, TouchSubmitting, CrashSubmit, CreateBatchImageJob, ReserveBalance,
     CreatePendingItems, StartUpload, ProviderSubmit, UpdateProviderSubmit, AbortOrphan,
     EnqueueSubmitted, ReleaseSubmitHold, RecordUnreleased, RejectSubmit, Transition,
     TransitionRefused, TransitionFails, EnqueueOr, ReleaseFails
  <2> QED
    BY <1>0, <2>1, FaultShape
<1>7. lapses' \subseteq Lapses
  <2>1. CASE CrashSubmit
    <3>1. Note({"orphan"}) \/ Note({"untracked"}) \/ Note({})
      BY <2>1 DEF CrashSubmit
    <3> QED
      BY <1>0, <3>1, LapseShape
  <2>2. CASE ReserveBalance
    <3>1. UNCHANGED lapses \/ Note({"untracked"}) \/ Note({})
      BY <2>2 DEF ReserveBalance, NoteIf
    <3> QED
      BY <1>0, <3>1, LapseShape
  <2>3. CASE EnqueueSubmitted
    BY <1>0, <2>3, LapseShape DEF EnqueueSubmitted, EnqueueOr
  <2>4. CASE ProviderSubmit \/ UpdateProviderSubmit \/ AbortOrphan
    <3>1. UNCHANGED lapses \/ Note({"untracked"}) \/ Note({"orphan"})
      BY <2>4 DEF ProviderSubmit, UpdateProviderSubmit, AbortOrphan
    <3> QED
      BY <1>0, <3>1, LapseShape
  <2>5. CASE \/ CreateBatchImageJob \/ CreatePendingItems \/ StartUpload \/ ReleaseSubmitHold
             \/ RecordUnreleased \/ RejectSubmit \/ TouchSubmitting
    <3>1. UNCHANGED lapses
      BY <2>5 DEF CreateBatchImageJob, CreatePendingItems, StartUpload, ReleaseSubmitHold,
         RecordUnreleased, RejectSubmit, TouchSubmitting
    <3> QED
      BY <1>0, <3>1, LapseShape
  <2> QED
    BY <2>1, <2>2, <2>3, <2>4, <2>5 DEF Submitting
<1> QED
  BY <1>0, <1>2, <1>3, <1>4, <1>5, <1>6, <1>7, StoreStep

LEMMA ClientShape ==
    ASSUME Shape, NEW c \in Clients,
           CancelRead(c) \/ Resubmit(c) \/ Cancelling(c) \/ CrashClient(c)
    PROVE  StoreShape' /\ ActorShape'
<1>0. StoreShape /\ ActorShape
  BY DEF Shape
<1>1. \E from, to \in ClientSteps : ClientStep(c, from, to)
  <2>1. CASE CancelRead(c)
    BY <2>1 DEF CancelRead, ClientSteps
  <2>2. CASE Resubmit(c) \/ Cancelling(c)
    BY <2>2 DEF Resubmit, Cancelling, CancelProvider, ClientEnqueue, CancelTransition, CancelRelease,
       CancelRetry, ClientSteps
  <2>3. CASE CrashClient(c)
    BY <1>0, <2>3 DEF CrashClient, ClientSteps, ActorShape
  <2> QED
    BY <2>1, <2>2, <2>3
<1>2. ActorShape' /\ lock' \in Workers \cup {Nobody} /\ usable' \in BOOLEAN
  BY <1>0, <1>1 DEF ActorShape, StoreShape, ClientStep
<1>3. job' \in JobRecord /\ faults' \in 0..MaxFaults
  <2>1. CASE CancelTransition(c)
    BY <1>0, <2>1, TransitionShape DEF CancelTransition, NoTransition, Statuses, Terminal
  <2>2. CASE \/ CancelRead(c) \/ Resubmit(c) \/ CancelProvider(c) \/ ClientEnqueue(c)
             \/ CancelRelease(c) \/ CancelRetry(c) \/ CrashClient(c)
    <3>1. UNCHANGED job /\ (Fault \/ NoFault \/ UNCHANGED faults)
      BY <2>2 DEF CancelRead, Resubmit, CancelProvider, ClientEnqueue, CancelRelease, CancelRetry,
         CrashClient, EnqueueOr, ReleaseFails
    <3> QED
      BY <1>0, <3>1, JobShape, FaultShape
  <2> QED
    BY <2>1, <2>2 DEF Cancelling
<1>4. moved' \subseteq claims' /\ claims' \subseteq Movements
  <2>1. \/ UNCHANGED billing \/ ReleaseBalance \/ ReleaseFails
    BY DEF CancelRead, Resubmit, Cancelling, CancelProvider, ClientEnqueue, CancelTransition,
       CancelRelease, CancelRetry, CrashClient
  <2> QED
    BY <1>0, <2>1, BillingShape
<1>5. upstream' \in {"none", "live", "failed", "cancelled"} \cup Succeeded
  <2>1. upstream' \in {upstream, "cancelled"}
    BY DEF CancelRead, Resubmit, Cancelling, CancelProvider, ClientEnqueue, CancelTransition,
       CancelRelease, CancelRetry, CrashClient, CancelUpstream
  <2> QED
    BY <1>0, <2>1 DEF StoreShape
<1>6. lapses' \subseteq Lapses
  <2>1. CASE CancelTransition(c)
    <3>1. Crossing \in SUBSET Lapses /\ ({"untracked"} \cup Crossing) \in SUBSET Lapses /\ {} \in SUBSET Lapses
      BY DEF Crossing, Lapses
    <3>2. UNCHANGED lapses \/ \E s \in {Crossing, {"untracked"} \cup Crossing, {}} : Note(s)
      BY <2>1 DEF CancelTransition
    <3> QED
      BY <1>0, <3>1, <3>2, LapseShape
  <2>2. CASE CrashClient(c)
    <3>1. Note({"untracked"}) \/ Note({})
      BY <2>2 DEF CrashClient, NoteIf
    <3> QED
      BY <1>0, <3>1, LapseShape
  <2>3. CASE \/ CancelRead(c) \/ Resubmit(c) \/ CancelProvider(c) \/ ClientEnqueue(c)
             \/ CancelRelease(c) \/ CancelRetry(c)
    <3>1. UNCHANGED lapses \/ Note({"untracked"}) \/ Note({})
      BY <2>3 DEF CancelRead, Resubmit, CancelProvider, ClientEnqueue, CancelRelease, CancelRetry,
         EnqueueOr
    <3> QED
      BY <1>0, <3>1, LapseShape
  <2> QED
    BY <2>1, <2>2, <2>3 DEF Cancelling
<1> QED
  BY <1>0, <1>2, <1>3, <1>4, <1>5, <1>6, StoreStep

LEMMA RecoveryShape ==
    ASSUME Shape, Recovering \/ CrashRecovery
    PROVE  StoreShape' /\ ActorShape'
<1>0. StoreShape /\ ActorShape
  BY DEF Shape
<1>1. \E from, to \in RecoverySteps : RecoveryStep(from, to)
  BY <1>0 DEF Recovering, CrashRecovery, ListStale, FailStale, RecoveryRelease, RecoveryRetry,
     RecoverySteps, ActorShape
<1>2. ActorShape' /\ lock' \in Workers \cup {Nobody} /\ usable' \in BOOLEAN
  BY <1>0, <1>1 DEF ActorShape, StoreShape, RecoveryStep
<1>3. job' \in JobRecord
  BY <1>0, JobShape DEF Recovering, CrashRecovery, ListStale, FailStale, RecoveryRelease,
     RecoveryRetry, Statuses, Terminal
<1>4. moved' \subseteq claims' /\ claims' \subseteq Movements
  <2>1. \/ UNCHANGED billing \/ ReleaseBalance \/ ReleaseFails
    BY DEF Recovering, CrashRecovery, ListStale, FailStale, RecoveryRelease, RecoveryRetry
  <2> QED
    BY <1>0, <2>1, BillingShape
<1>5. upstream' = upstream /\ (Fault \/ NoFault \/ UNCHANGED faults)
  BY DEF Recovering, CrashRecovery, ListStale, FailStale, RecoveryRelease, RecoveryRetry, EnqueueOr,
     ReleaseFails
<1>6. UNCHANGED lapses \/ Note({"untracked"}) \/ Note({})
  BY DEF Recovering, CrashRecovery, ListStale, FailStale, RecoveryRelease, RecoveryRetry, EnqueueOr,
     NoteIf
<1>7. lapses' \subseteq Lapses /\ faults' \in 0..MaxFaults
  BY <1>0, <1>5, <1>6, LapseShape, FaultShape
<1>8. upstream' \in {"none", "live", "failed", "cancelled"} \cup Succeeded
  BY <1>0, <1>5 DEF StoreShape
<1> QED
  BY <1>0, <1>2, <1>3, <1>4, <1>7, <1>8, StoreStep

\* Where worker w goes, for any step but that of the settlement.
LEMMA WorkerGoes ==
    ASSUME ActorShape, NEW w \in Workers, NEW from, NEW to \in WorkerSteps, Step(w, from, to)
    PROVE  /\ worker[w] = from /\ worker' \in [Workers -> WorkerSteps] /\ ActorShape'
           /\ \A v \in Workers : worker'[v] = IF v = w THEN to ELSE worker[v]
           /\ UNCHANGED <<submit, client, recovery>>
  BY DEF ActorShape, Step

LEMMA WorkerShape ==
    ASSUME Shape, NEW w \in Workers, Working(w) \/ CrashWorker(w)
    PROVE  StoreShape' /\ ActorShape'
<1>0. StoreShape /\ ActorShape
  BY DEF Shape
<1>1. \E from, to \in WorkerSteps : Step(w, from, to)
  <2>1. CASE ReadJob(w) \/ Poll(w) \/ Pipeline(w) \/ Index(w) \/ IndexFailed(w) \/ IndexDone(w)
    BY <2>1 DEF ReadJob, Poll, Pipeline, Index, IndexFailed, IndexDone, WorkerSteps
  <2>2. CASE SettleRead(w) \/ Capture(w) \/ RecordFailure(w) \/ Exhaust(w) \/ ExhaustFails(w)
             \/ Reread(w) \/ MarkSettled(w) \/ ReleaseTerminal(w)
    BY <2>2 DEF SettleRead, Capture, CaptureError, RecordFailure, Exhaust, ExhaustFails, Reread,
       MarkSettled, ReleaseTerminal, WorkerSteps
  <2>3. CASE Reserve(w) \/ TryAcquireJobLock(w) \/ Requeue(w) \/ Ack(w) \/ Unlock(w)
    BY <2>3 DEF Reserve, TryAcquireJobLock, Requeue, Ack, Unlock, WorkerSteps, Unlocked
  <2>4. CASE CrashWorker(w)
    BY <1>0, <2>4 DEF CrashWorker, ActorShape, WorkerSteps, Unlocked
  <2> QED
    BY <2>1, <2>2, <2>3, <2>4 DEF Working
<1>2. ActorShape' /\ usable' \in BOOLEAN
  BY <1>0, <1>1, WorkerGoes DEF Step, StoreShape
<1>3. /\ job' \in JobRecord /\ faults' \in 0..MaxFaults
      /\ moved' \subseteq claims' /\ claims' \subseteq Movements
  <2>1. CASE Poll(w) \/ IndexFailed(w) \/ IndexDone(w) \/ ExhaustFails(w)
    <3>1. UNCHANGED billing
      BY <2>1 DEF Poll, IndexFailed, IndexDone, ExhaustFails
    <3>2. \/ \E to \in Statuses : Transition(to) \/ NoTransition(to)
          \/ UNCHANGED job /\ (Fault \/ UNCHANGED faults)
      BY <2>1 DEF Poll, IndexFailed, IndexDone, ExhaustFails, Statuses, Terminal
    <3> QED
      BY <1>0, <3>1, <3>2, TransitionShape, BillingShape, JobShape, FaultShape
  <2>2. CASE RecordFailure(w) \/ MarkSettled(w)
    <3>1. UNCHANGED billing /\ (Fault \/ NoFault)
      BY <2>2 DEF RecordFailure, MarkSettled
    <3>2. CountFailure \/ UNCHANGED job \/ SetStatus("completed")
      BY <2>2 DEF RecordFailure, MarkSettled
    <3> QED
      BY <1>0, <3>1, <3>2, BillingShape, JobShape, FaultShape DEF Statuses, Terminal
  <2>3. CASE Capture(w) \/ Exhaust(w) \/ ReleaseTerminal(w)
    <3>1. \/ CaptureBalance \/ CaptureFails \/ ReleaseBalance \/ ReleaseFails
      BY <2>3 DEF Capture, Exhaust, ReleaseTerminal
    <3>2. UNCHANGED job /\ (Fault \/ NoFault \/ UNCHANGED faults)
      BY <2>3 DEF Capture, Exhaust, ReleaseTerminal, CaptureFails, ReleaseFails
    <3> QED
      BY <1>0, <3>1, <3>2, BillingShape, JobShape, FaultShape
  <2>4. CASE \/ Reserve(w) \/ TryAcquireJobLock(w) \/ Requeue(w) \/ Ack(w) \/ Unlock(w) \/ Pipeline(w)
             \/ ReadJob(w) \/ Index(w) \/ SettleRead(w) \/ Reread(w) \/ CrashWorker(w)
    <3>1. UNCHANGED <<job, billing>> /\ (Fault \/ NoFault \/ UNCHANGED faults)
      BY <2>4 DEF Reserve, TryAcquireJobLock, Requeue, Ack, Unlock, Pipeline, ReadJob, Index,
         SettleRead, Reread, CrashWorker
    <3> QED
      BY <1>0, <3>1, BillingShape, JobShape, FaultShape
  <2> QED
    BY <2>1, <2>2, <2>3, <2>4 DEF Working
<1>4. UNCHANGED upstream /\ lock' \in {lock, w, Nobody}
  BY DEF Working, Reserve, TryAcquireJobLock, Requeue, Ack, Unlock, Pipeline, ReadJob, Poll, Index,
     IndexFailed, IndexDone, ReleaseTerminal, SettleRead, Capture, RecordFailure, Exhaust,
     ExhaustFails, Reread, MarkSettled, CrashWorker
<1>5. UNCHANGED lapses \/ Note({"dropped"}) \/ Note({"doubt"}) \/ Note({})
  BY DEF Working, Reserve, TryAcquireJobLock, Requeue, Ack, Unlock, Pipeline, ReadJob, Poll, Index,
     IndexFailed, IndexDone, ReleaseTerminal, SettleRead, Capture, RecordFailure, Exhaust,
     ExhaustFails, Reread, MarkSettled, CrashWorker, NoteIf
<1>6. lapses' \subseteq Lapses
  BY <1>0, <1>5, LapseShape
<1>7. /\ upstream' \in {"none", "live", "failed", "cancelled"} \cup Succeeded
      /\ lock' \in Workers \cup {Nobody}
  BY <1>0, <1>4 DEF StoreShape
<1> QED
  BY <1>0, <1>2, <1>3, <1>6, <1>7, StoreStep

LEMMA WorldShape ==
    ASSUME Shape,
           \/ GoesStale \/ UpstreamEnds \/ AccountEdited \/ LockExpires
           \/ RecoverStaleActive \/ MoveDueDelayed
           \/ \E w \in Workers : HeartbeatsFail(w)
    PROVE  StoreShape' /\ ActorShape'
<1>0. StoreShape /\ ActorShape
  BY DEF Shape
<1>1. ActorShape' /\ UNCHANGED billing /\ (Fault \/ NoFault \/ UNCHANGED faults)
  BY <1>0 DEF ActorShape, GoesStale, UpstreamEnds, AccountEdited, LockExpires,
     RecoverStaleActive, MoveDueDelayed, HeartbeatsFail
<1>2. job' \in JobRecord
  <2>1. job' = job \/ job' = [job EXCEPT !.stale = TRUE]
    BY DEF GoesStale, UpstreamEnds, AccountEdited, LockExpires,
           RecoverStaleActive, MoveDueDelayed, HeartbeatsFail
  <2> QED
    BY <1>0, <2>1 DEF StoreShape, JobRecord
<1>3. /\ lock' \in {lock, Nobody} /\ upstream' \in {upstream, "failed"} \cup Succeeded
      /\ usable' \in {usable, ~usable}
  BY DEF GoesStale, UpstreamEnds, AccountEdited, LockExpires,
         RecoverStaleActive, MoveDueDelayed, HeartbeatsFail
<1>4. UNCHANGED lapses \/ Note({"late"})
  BY DEF GoesStale, UpstreamEnds, AccountEdited, LockExpires,
         RecoverStaleActive, MoveDueDelayed, HeartbeatsFail
<1>5. lapses' \subseteq Lapses
  BY <1>0, <1>4, LapseShape
<1>6. /\ upstream' \in {"none", "live", "failed", "cancelled"} \cup Succeeded
      /\ usable' \in BOOLEAN
      /\ lock' \in Workers \cup {Nobody} /\ faults' \in 0..MaxFaults
      /\ moved' \subseteq claims' /\ claims' \subseteq Movements
  BY <1>0, <1>1, <1>3, BillingShape, FaultShape DEF StoreShape
<1> QED
  BY <1>0, <1>1, <1>2, <1>5, <1>6, StoreStep

-----------------------------------------------------------------------------
(* The copies of the job.                                                  *)

LEMMA HoldersFacts ==
    ASSUME NEW H \in SUBSET Workers
    PROVE  /\ IsFiniteSet(H) /\ Cardinality(H) \in Nat
           /\ H = {} => Cardinality(H) = 0
           /\ H # {} => Cardinality(H) >= 1
<1>1. IsFiniteSet(H)
  BY ConstantsAssumption, FS_Subset
<1>2. Cardinality(H) \in Nat /\ (Cardinality(H) = 0 <=> H = {})
  BY <1>1, FS_CardinalityType, FS_EmptySet
<1> QED
  BY <1>1, <1>2

\* A worker takes a copy, returns it, or neither.
LEMMA AtWorkStep ==
    ASSUME queue \in QueueRecord, queue' \in QueueRecord
    PROVE  /\ AtWork \in Nat /\ AtWork' \in Nat
           /\ Holders' \subseteq Holders /\ (queue'.active => queue.active)
                => AtWork' <= AtWork
           /\ \A w \in Workers : Holders' \subseteq Holders \cup {w} => AtWork' <= AtWork + 1
           /\ \A w \in Holders : Holders' \subseteq Holders \ {w} /\ ~queue'.active
                => AtWork' + 1 <= AtWork
<1>1. Holders \in SUBSET Workers /\ Holders' \in SUBSET Workers
  BY DEF Holders
<1> DEFINE m == Count(queue.active)
           n == Count(queue'.active)
<1>2. /\ m \in 0..1 /\ n \in 0..1 /\ (~queue'.active => n = 0)
      /\ (queue'.active => queue.active) => n <= m
  BY DEF Count
<1>3. /\ AtWork = IF Holders = {} THEN m ELSE Cardinality(Holders)
      /\ AtWork' = IF Holders' = {} THEN n ELSE Cardinality(Holders')
  BY DEF AtWork
<1>4. PICK H \in SUBSET Workers : H = Holders
  BY <1>1
<1>5. PICK G \in SUBSET Workers : G = Holders'
  BY <1>1
<1> HIDE DEF m, n
<1>6. /\ IsFiniteSet(H) /\ IsFiniteSet(G) /\ Cardinality(H) \in Nat /\ Cardinality(G) \in Nat
      /\ H # {} => Cardinality(H) >= 1
      /\ G # {} => Cardinality(G) >= 1
      /\ H = {} => Cardinality(H) = 0
  BY HoldersFacts
<1>7. AtWork \in Nat /\ AtWork' \in Nat
  BY <1>2, <1>3, <1>4, <1>5, <1>6
<1>8. ASSUME G \subseteq H, n <= m
      PROVE  AtWork' <= AtWork
  <2>1. Cardinality(G) <= Cardinality(H)
    BY <1>6, <1>8, FS_Subset
  <2>2. G # {} => H # {}
    BY <1>8
  <2>4. CASE H = {}
    <3>1. AtWork = m /\ AtWork' = n
      BY <1>3, <1>4, <1>5, <2>2, <2>4
    <3> QED
      BY <1>8, <3>1
  <2>5. CASE H # {}
    <3>1. AtWork = Cardinality(H) /\ (AtWork' = n \/ AtWork' = Cardinality(G))
      BY <1>3, <1>4, <1>5, <2>5
    <3>2. n <= Cardinality(H)
      BY <1>2, <1>6, <2>5
    <3> QED
      BY <2>1, <3>1, <3>2
  <2> QED
    BY <2>4, <2>5
<1>9. ASSUME NEW w \in Workers, G \subseteq H \cup {w}
      PROVE  AtWork' <= AtWork + 1
  <2>1. Cardinality(H \cup {w}) <= Cardinality(H) + 1 /\ IsFiniteSet(H \cup {w})
        /\ Cardinality(H \cup {w}) \in Nat
    <3>1. /\ IsFiniteSet(H \cup {w})
          /\ Cardinality(H \cup {w}) = IF w \in H THEN Cardinality(H) ELSE Cardinality(H) + 1
      BY <1>6, FS_AddElement
    <3> QED
      BY <1>6, <3>1
  <2>2. Cardinality(G) <= Cardinality(H \cup {w})
    BY <1>9, <2>1, FS_Subset
  <2>3. Cardinality(G) <= Cardinality(H) + 1
    BY <1>6, <2>1, <2>2
  <2> QED
    BY <1>2, <1>3, <1>4, <1>5, <1>6, <2>3
<1>10. ASSUME NEW w \in H, G \subseteq H \ {w}, n = 0
       PROVE  AtWork' + 1 <= AtWork
  <2>1. Cardinality(H \ {w}) = Cardinality(H) - 1 /\ IsFiniteSet(H \ {w})
    BY <1>6, FS_RemoveElement
  <2>2. Cardinality(G) <= Cardinality(H \ {w})
    BY <1>10, <2>1, FS_Subset
  <2>3. H # {}
    BY <1>10
  <2> QED
    BY <1>2, <1>3, <1>4, <1>5, <1>6, <1>10, <2>1, <2>2, <2>3
<1> QED
  BY <1>2, <1>4, <1>5, <1>7, <1>8, <1>9, <1>10

LEMMA QueueFields ==
    ASSUME queue \in QueueRecord
    PROVE  /\ queue.ready \in Nat /\ queue.delayed \in BOOLEAN /\ queue.active \in BOOLEAN
           /\ queue.inflight \in BOOLEAN
           /\ Count(queue.delayed) \in 0..1 /\ Count(~queue.inflight) \in 0..1
  BY DEF QueueRecord, Count

LEMMA SumOfTwo ==
    ASSUME NEW a \in Int, NEW b \in Int, NEW c \in Int, NEW d \in Int, NEW r \in Int, NEW s \in Int,
           c <= a + r, d <= b + s
    PROVE  c + d <= (a + b) + (r + s)
  OBVIOUS

LEMMA SumOfFour ==
    ASSUME NEW a \in Int, NEW b \in Int, NEW c \in Int, NEW d \in Int
    PROVE  a + b \in Int /\ c + d \in Int /\ a + b + c + d = (a + b) + (c + d)
  OBVIOUS

LEMMA Within ==
    ASSUME NEW a \in Int, NEW b \in Int, NEW c \in Int, NEW d \in Int, NEW e \in Int,
           a <= b + c, b <= 1 + d, c <= e - d
    PROVE  a <= 1 + e
  OBVIOUS

\* What a step does to the queue and to the copies in it.
LEMMA CopiesStep ==
    ASSUME Shape, Copies <= 1 + faults, faults' \in Nat, faults <= faults', queue' \in QueueRecord,
           NEW r \in Int, NEW d \in Int, NEW n \in Int, NEW h \in Int,
           queue'.ready <= queue.ready + r, Count(queue'.delayed) <= Count(queue.delayed) + d,
           Count(~queue'.inflight) <= Count(~queue.inflight) + n, AtWork' <= AtWork + h,
           r + d + n + h <= faults' - faults
    PROVE  Copies' <= 1 + faults'
<1>1. /\ queue.ready \in Nat /\ Count(queue.delayed) \in Nat /\ Count(~queue.inflight) \in Nat
      /\ faults \in Nat
  BY QueueFields DEF Shape, StoreShape
<1>2. queue'.ready \in Nat /\ Count(queue'.delayed) \in Nat /\ Count(~queue'.inflight) \in Nat
  BY DEF QueueRecord, Count
<1>3. AtWork \in Nat /\ AtWork' \in Nat
  BY AtWorkStep DEF Shape
<1>4. Copies' = queue'.ready + Count(queue'.delayed) + Count(~queue'.inflight) + AtWork'
  BY DEF Copies
<1>5. queue.ready + Count(queue.delayed) + Count(~queue.inflight) + AtWork <= 1 + faults
  BY DEF Copies
<1> DEFINE ready == queue.ready
           ready1 == queue'.ready
           delayed == Count(queue.delayed)
           delayed1 == Count(queue'.delayed)
           away == Count(~queue.inflight)
           away1 == Count(~queue'.inflight)
<1>6. /\ ready \in Int /\ delayed \in Int /\ away \in Int /\ AtWork \in Int
      /\ ready1 \in Int /\ delayed1 \in Int /\ away1 \in Int /\ AtWork' \in Int
      /\ faults \in Int /\ faults' \in Int
  BY <1>1, <1>2, <1>3
<1>7. /\ ready1 <= ready + r /\ delayed1 <= delayed + d /\ away1 <= away + n
      /\ ready + delayed + away + AtWork <= 1 + faults
  BY <1>5
<1> HIDE DEF ready, ready1, delayed, delayed1, away, away1
<1>8. ready1 + delayed1 <= (ready + delayed) + (r + d)
  BY <1>6, <1>7, SumOfTwo
<1>9. away1 + AtWork' <= (away + AtWork) + (n + h)
  BY <1>6, <1>7, SumOfTwo
<1> DEFINE x == ready + delayed
           y == away + AtWork
           x1 == ready1 + delayed1
           y1 == away1 + AtWork'
           p == r + d
           q == n + h
<1>10. /\ x \in Int /\ y \in Int /\ x1 \in Int /\ y1 \in Int /\ p \in Int /\ q \in Int
       /\ ready + delayed + away + AtWork = x + y
       /\ ready1 + delayed1 + away1 + AtWork' = x1 + y1
       /\ r + d + n + h = p + q
  BY <1>6, SumOfFour
<1>11. x1 <= x + p /\ y1 <= y + q
  BY <1>8, <1>9
<1> HIDE DEF x, y, x1, y1, p, q
<1>12. /\ x1 + y1 <= (x + y) + (p + q)
       /\ x1 + y1 \in Int /\ x + y \in Int /\ p + q \in Int
       /\ x + y <= 1 + faults /\ p + q <= faults' - faults
  BY <1>7, <1>10, <1>11, SumOfTwo, SumOfFour
<1>13. x1 + y1 <= 1 + faults'
  BY <1>6, <1>12, Within
<1> QED
  BY <1>4, <1>10, <1>13 DEF ready1, delayed1, away1

LEMMA Slack ==
    ASSUME NEW a \in Nat, NEW b \in Nat, a <= b
    PROVE  /\ 0 + 0 + 0 + 0 <= b - a /\ 1 + 0 + (-1) + 0 <= b - a /\ 0 + 1 + 0 + (-1) <= b - a
           /\ (-1) + 0 + 0 + 1 <= b - a /\ 0 + 0 + 1 + (-1) <= b - a /\ 1 + (-1) + 0 + 0 <= b - a
           /\ 1 + 0 + 0 + (-1) <= b - a
           /\ b = a + 1 => 1 + 0 + 0 + 0 <= b - a
           /\ 0 \in Int /\ 1 \in Int /\ -1 \in Int
  OBVIOUS

LEMMA OneLess ==
    ASSUME NEW a \in Nat, NEW b \in Nat, a + 1 <= b
    PROVE  a <= b + (-1)
  OBVIOUS

LEMMA OneMore ==
    ASSUME NEW a \in 0..1, NEW b \in 0..1
    PROVE  a <= b + 1 /\ (a = 0 => a <= b + 0)
  OBVIOUS

LEMMA CopiesFrame ==
    ASSUME Shape, Copies <= 1 + faults, faults' \in Nat, faults <= faults', UNCHANGED queue,
           Holders' \subseteq Holders
    PROVE  queue' \in QueueRecord /\ Copies' <= 1 + faults'
<1>1. queue' \in QueueRecord /\ queue \in QueueRecord
  BY DEF Shape
<1>2. AtWork' <= AtWork + 0 /\ AtWork \in Nat /\ AtWork' \in Nat
  BY <1>1, AtWorkStep
<1>3. /\ queue'.ready <= queue.ready + 0 /\ Count(queue'.delayed) <= Count(queue.delayed) + 0
      /\ Count(~queue'.inflight) <= Count(~queue.inflight) + 0
  BY <1>1, QueueFields DEF Count
<1>4. faults \in Nat
  BY DEF Shape, StoreShape
<1>5. 0 + 0 + 0 + 0 <= faults' - faults /\ 0 \in Int
  BY ONLY <1>4, Slack, faults' \in Nat, faults <= faults'
<1> QED
  BY <1>1, <1>2, <1>3, <1>5, CopiesStep

\* Enqueue pushes the copy that was still to be pushed.
LEMMA CopiesEnqueue ==
    ASSUME Shape, Copies <= 1 + faults, Enqueue \/ UNCHANGED queue, Holders' \subseteq Holders,
           faults' \in Nat, faults <= faults'
    PROVE  queue' \in QueueRecord /\ Copies' <= 1 + faults'
<1>0. queue \in QueueRecord
  BY DEF Shape
<1>1. CASE UNCHANGED queue
  BY <1>1, CopiesFrame
<1>2. CASE Enqueue /\ queue' # queue
  <2> DEFINE n == queue.ready + 1
  <2>0. n \in Nat /\ n = queue.ready + 1 /\ faults \in Nat
    BY <1>0, QueueFields DEF Shape, StoreShape
  <2>1. queue' = [queue EXCEPT !.inflight = TRUE, !.ready = n] /\ ~queue.inflight
    BY <1>2 DEF Enqueue, NotInflight
  <2> HIDE DEF n
  <2>2. /\ queue' \in QueueRecord /\ queue'.ready = queue.ready + 1 /\ queue'.inflight
        /\ queue'.delayed = queue.delayed /\ queue'.active = queue.active
    BY <1>0, <2>0, <2>1 DEF QueueRecord
  <2>3. AtWork' <= AtWork + 0 /\ AtWork \in Nat /\ AtWork' \in Nat
    BY <1>0, <2>2, AtWorkStep
  <2>4. Count(~queue'.inflight) = 0 /\ Count(~queue.inflight) = 1
    BY <2>1, <2>2 DEF Count
  <2>5. /\ queue'.ready <= queue.ready + 1 /\ Count(queue'.delayed) <= Count(queue.delayed) + 0
        /\ Count(~queue'.inflight) <= Count(~queue.inflight) + (-1)
    BY <1>0, <2>2, <2>4, QueueFields
  <2>6. 1 + 0 + (-1) + 0 <= faults' - faults /\ 0 \in Int /\ 1 \in Int /\ -1 \in Int
    BY ONLY <2>0, Slack, faults' \in Nat, faults <= faults'
  <2> QED
    BY <2>2, <2>3, <2>5, <2>6, CopiesStep
<1> QED
  BY <1>1, <1>2

LEMMA CopiesReserve ==
    ASSUME Shape, Copies <= 1 + faults, NEW w \in Workers, Reserve(w), faults' \in Nat
    PROVE  queue' \in QueueRecord /\ Copies' <= 1 + faults'
<1> DEFINE n == queue.ready - 1
<1>0. queue \in QueueRecord /\ faults \in Nat /\ faults' = faults
  BY DEF Shape, StoreShape, Reserve
<1>1. n \in Nat /\ n = queue.ready - 1 /\ queue.ready \in Nat
  BY <1>0, QueueFields DEF Reserve
<1>2. queue' = [queue EXCEPT !.ready = n, !.active = TRUE]
  BY DEF Reserve
<1> HIDE DEF n
<1>3. /\ queue' \in QueueRecord /\ queue'.ready = n
      /\ queue'.delayed = queue.delayed /\ queue'.inflight = queue.inflight
  BY <1>0, <1>1, <1>2 DEF QueueRecord
<1>4. Holders' \subseteq Holders \cup {w}
  BY DEF Reserve, Step, Holders, Shape, ActorShape
<1>5. AtWork' <= AtWork + 1
  BY <1>0, <1>3, <1>4, AtWorkStep
<1>6. /\ queue'.ready <= queue.ready + (-1) /\ Count(queue'.delayed) <= Count(queue.delayed) + 0
      /\ Count(~queue'.inflight) <= Count(~queue.inflight) + 0
  BY <1>0, <1>1, <1>3, QueueFields
<1>7. (-1) + 0 + 0 + 1 <= faults' - faults /\ 0 \in Int /\ 1 \in Int /\ -1 \in Int /\ faults <= faults'
  BY ONLY <1>0, Slack
<1> QED
  BY <1>3, <1>5, <1>6, <1>7, CopiesStep

LEMMA CopiesRequeue ==
    ASSUME Shape, Copies <= 1 + faults, NEW w \in Workers, Requeue(w) \/ Ack(w), faults' \in Nat
    PROVE  queue' \in QueueRecord /\ Copies' <= 1 + faults'
<1>0. queue \in QueueRecord /\ faults \in Nat /\ faults <= faults'
  BY DEF Shape, StoreShape, Requeue, Ack, Fault, NoFault
<1>1. w \in Holders /\ Holders' \subseteq Holders \ {w}
  BY DEF Requeue, Ack, Step, Holders, Shape, ActorShape
<1>2. CASE UNCHANGED queue
  BY <1>0, <1>1, <1>2, CopiesFrame
<1>3. CASE queue' = [queue EXCEPT !.active = FALSE, !.delayed = TRUE]
  <2>1. /\ queue' \in QueueRecord /\ queue'.ready = queue.ready /\ ~queue'.active
        /\ queue'.inflight = queue.inflight
    BY <1>0, <1>3 DEF QueueRecord
  <2>2. AtWork' + 1 <= AtWork /\ AtWork \in Nat /\ AtWork' \in Nat
    BY <1>0, <1>1, <2>1, AtWorkStep
  <2>3. /\ queue'.ready <= queue.ready + 0 /\ Count(queue'.delayed) <= Count(queue.delayed) + 1
        /\ Count(~queue'.inflight) <= Count(~queue.inflight) + 0 /\ AtWork' <= AtWork + (-1)
    <3>1. Count(queue'.delayed) \in 0..1 /\ Count(queue.delayed) \in 0..1
      BY DEF Count
    <3>2. Count(queue'.delayed) <= Count(queue.delayed) + 1 /\ AtWork' <= AtWork + (-1)
      BY ONLY <2>2, <3>1, OneLess, OneMore
    <3> QED
      BY <1>0, <2>1, <3>2, QueueFields
  <2>4. 0 + 1 + 0 + (-1) <= faults' - faults /\ 0 \in Int /\ 1 \in Int /\ -1 \in Int
    BY ONLY <1>0, Slack, faults' \in Nat
  <2> QED
    BY <1>0, <2>1, <2>3, <2>4, CopiesStep
<1>4. CASE queue' = [queue EXCEPT !.active = FALSE, !.delayed = FALSE, !.inflight = FALSE]
  <2>1. /\ queue' \in QueueRecord /\ queue'.ready = queue.ready /\ ~queue'.active
        /\ ~queue'.delayed
    BY <1>0, <1>4 DEF QueueRecord
  <2>2. AtWork' + 1 <= AtWork /\ AtWork \in Nat /\ AtWork' \in Nat
    BY <1>0, <1>1, <2>1, AtWorkStep
  <2>3. /\ queue'.ready <= queue.ready + 0 /\ Count(queue'.delayed) <= Count(queue.delayed) + 0
        /\ Count(~queue'.inflight) <= Count(~queue.inflight) + 1 /\ AtWork' <= AtWork + (-1)
    <3>1. /\ Count(queue'.delayed) = 0 /\ Count(~queue'.inflight) \in 0..1
          /\ Count(queue'.delayed) \in 0..1
          /\ Count(queue.delayed) \in 0..1 /\ Count(~queue.inflight) \in 0..1
      BY <2>1 DEF Count
    <3>2. /\ Count(queue'.delayed) <= Count(queue.delayed) + 0 /\ AtWork' <= AtWork + (-1)
          /\ Count(~queue'.inflight) <= Count(~queue.inflight) + 1
      BY ONLY <2>2, <3>1, OneLess, OneMore
    <3> QED
      BY <1>0, <2>1, <3>2, QueueFields
  <2>4. 0 + 0 + 1 + (-1) <= faults' - faults /\ 0 \in Int /\ 1 \in Int /\ -1 \in Int
    BY ONLY <1>0, Slack, faults' \in Nat
  <2> QED
    BY <1>0, <2>1, <2>3, <2>4, CopiesStep
<1> QED
  BY <1>2, <1>3, <1>4 DEF Requeue, Ack

LEMMA CopiesMove ==
    ASSUME Shape, Copies <= 1 + faults, MoveDueDelayed, faults' \in Nat
    PROVE  queue' \in QueueRecord /\ Copies' <= 1 + faults'
<1> DEFINE n == queue.ready + 1
<1>0. queue \in QueueRecord /\ faults \in Nat /\ faults' = faults
  BY DEF Shape, StoreShape, MoveDueDelayed
<1>1. n \in Nat /\ n = queue.ready + 1 /\ queue.ready \in Nat
  BY <1>0, QueueFields
<1>2. queue' = [queue EXCEPT !.delayed = FALSE, !.ready = n] /\ queue.delayed
  BY DEF MoveDueDelayed
<1> HIDE DEF n
<1>3. /\ queue' \in QueueRecord /\ queue'.ready = n /\ ~queue'.delayed
      /\ queue'.active = queue.active /\ queue'.inflight = queue.inflight
  BY <1>0, <1>1, <1>2 DEF QueueRecord
<1>4. Holders' \subseteq Holders
  BY DEF MoveDueDelayed, Holders
<1>5. AtWork' <= AtWork + 0
  BY <1>0, <1>3, <1>4, AtWorkStep
<1>6. Count(queue'.delayed) = 0 /\ Count(queue.delayed) = 1
  BY <1>2, <1>3 DEF Count
<1>7. /\ queue'.ready <= queue.ready + 1 /\ Count(queue'.delayed) <= Count(queue.delayed) + (-1)
      /\ Count(~queue'.inflight) <= Count(~queue.inflight) + 0
  BY <1>0, <1>1, <1>3, <1>6, QueueFields
<1>8. 1 + (-1) + 0 + 0 <= faults' - faults /\ 0 \in Int /\ 1 \in Int /\ -1 \in Int /\ faults <= faults'
  BY ONLY <1>0, Slack
<1> QED
  BY <1>3, <1>5, <1>7, <1>8, CopiesStep

LEMMA RecoveredFacts ==
    ASSUME queue \in QueueRecord, queue' = Recovered
    PROVE  /\ queue' \in QueueRecord /\ queue'.ready = queue.ready + 1 /\ ~queue'.active
           /\ Count(queue'.delayed) <= Count(queue.delayed) + 0
           /\ Count(~queue'.inflight) <= Count(~queue.inflight) + 0
<1> DEFINE n == queue.ready + 1
<1>1. n \in Nat /\ n = queue.ready + 1
  BY QueueFields
<1>2. queue' = [queue EXCEPT !.active = FALSE, !.ready = n]
  BY DEF Recovered
<1> HIDE DEF n
<1>3. /\ queue' \in QueueRecord /\ queue'.ready = n /\ ~queue'.active
      /\ queue'.delayed = queue.delayed /\ queue'.inflight = queue.inflight
  BY <1>1, <1>2 DEF QueueRecord
<1> QED
  BY <1>1, <1>3, QueueFields

\* An entry whose worker is dead takes that worker's copy with it; one whose
\* worker is alive makes another copy, and counts as a fault.
LEMMA CopiesRecovered ==
    ASSUME Shape, Copies <= 1 + faults, faults' \in Nat,
           RecoverStaleActive \/ \E w \in Workers : HeartbeatsFail(w)
    PROVE  queue' \in QueueRecord /\ Copies' <= 1 + faults'
<1>0. queue \in QueueRecord /\ faults \in Nat /\ faults <= faults'
  BY DEF Shape, StoreShape, RecoverStaleActive, HeartbeatsFail, Fault
<1>1. Holders' = Holders
  BY DEF RecoverStaleActive, HeartbeatsFail, Holders
<1>2. CASE UNCHANGED queue
  BY <1>0, <1>1, <1>2, CopiesFrame
<1>3. CASE RecoverStaleActive
  <2>1. queue' = Recovered /\ Holders = {} /\ queue.active
    BY <1>3 DEF RecoverStaleActive, Holders
  <2>2. /\ queue' \in QueueRecord /\ queue'.ready = queue.ready + 1 /\ ~queue'.active
        /\ Count(queue'.delayed) <= Count(queue.delayed) + 0
        /\ Count(~queue'.inflight) <= Count(~queue.inflight) + 0
    BY <1>0, <2>1, RecoveredFacts
  <2>3. AtWork = 1 /\ AtWork' = 0
    <3>1. Count(queue.active) = 1 /\ Count(queue'.active) = 0
      BY <2>1, <2>2 DEF Count
    <3> QED
      BY <1>1, <2>1, <3>1 DEF AtWork
  <2>4. AtWork' <= AtWork + (-1) /\ queue'.ready <= queue.ready + 1
    BY <1>0, <2>2, <2>3, QueueFields
  <2>5. 1 + 0 + 0 + (-1) <= faults' - faults /\ 0 \in Int /\ 1 \in Int /\ -1 \in Int
    BY ONLY <1>0, Slack, faults' \in Nat
  <2> QED
    BY <1>0, <2>2, <2>4, <2>5, CopiesStep
<1>4. CASE queue' = Recovered /\ \E w \in Workers : HeartbeatsFail(w)
  <2>1. /\ queue' \in QueueRecord /\ queue'.ready = queue.ready + 1 /\ ~queue'.active
        /\ Count(queue'.delayed) <= Count(queue.delayed) + 0
        /\ Count(~queue'.inflight) <= Count(~queue.inflight) + 0
    BY <1>0, <1>4, RecoveredFacts
  <2>2. AtWork' <= AtWork + 0
    BY <1>0, <1>1, <2>1, AtWorkStep
  <2>3. queue'.ready <= queue.ready + 1 /\ faults' = faults + 1
    BY <1>0, <1>4, <2>1, QueueFields DEF HeartbeatsFail, Fault
  <2>4. 1 + 0 + 0 + 0 <= faults' - faults /\ 0 \in Int /\ 1 \in Int
    BY ONLY <1>0, <2>3, Slack, faults' \in Nat
  <2> QED
    BY <1>0, <2>1, <2>2, <2>3, <2>4, CopiesStep
<1> QED
  BY <1>2, <1>3, <1>4 DEF HeartbeatsFail

\* What a worker does between taking a copy and returning it.
LEMMA WorkerFrame ==
    ASSUME ActorShape, NEW w \in Workers,
           \/ TryAcquireJobLock(w) \/ Unlock(w) \/ Pipeline(w) \/ ReadJob(w) \/ Poll(w) \/ Index(w)
           \/ IndexFailed(w) \/ IndexDone(w) \/ ReleaseTerminal(w) \/ SettleRead(w) \/ Capture(w)
           \/ RecordFailure(w) \/ Exhaust(w) \/ ExhaustFails(w) \/ Reread(w) \/ MarkSettled(w)
           \/ CrashWorker(w)
    PROVE  UNCHANGED queue /\ Holders' \subseteq Holders /\ (Fault \/ NoFault \/ UNCHANGED faults)
<1>1. UNCHANGED queue
  BY DEF TryAcquireJobLock, Unlock, Pipeline, ReadJob, Poll, Index, IndexFailed, IndexDone,
     ReleaseTerminal, SettleRead, Capture, RecordFailure, Exhaust, ExhaustFails, Reread, MarkSettled,
     CrashWorker
<1>2. Fault \/ NoFault \/ UNCHANGED faults
  BY DEF TryAcquireJobLock, Unlock, Pipeline, ReadJob, Poll, Index, IndexFailed, IndexDone,
     ReleaseTerminal, SettleRead, Capture, RecordFailure, Exhaust, ExhaustFails, Reread, MarkSettled,
     CrashWorker, Transition, NoTransition, TransitionRefused, TransitionFails, CaptureFails,
     ReleaseFails
<1>3. \E from, to : Step(w, from, to) /\ (from \notin {"idle", "unlock"} \/ to = "idle")
  <2>1. CASE TryAcquireJobLock(w) \/ Unlock(w) \/ Pipeline(w) \/ ReadJob(w) \/ CrashWorker(w)
    BY <2>1 DEF TryAcquireJobLock, Unlock, Pipeline, ReadJob, CrashWorker
  <2>2. CASE Poll(w) \/ Index(w) \/ IndexFailed(w) \/ IndexDone(w) \/ ReleaseTerminal(w)
    BY <2>2 DEF Poll, Index, IndexFailed, IndexDone, ReleaseTerminal
  <2>3. CASE SettleRead(w) \/ Capture(w) \/ RecordFailure(w) \/ Exhaust(w) \/ ExhaustFails(w)
             \/ Reread(w) \/ MarkSettled(w)
    BY <2>3 DEF SettleRead, Capture, RecordFailure, Exhaust, ExhaustFails, Reread, MarkSettled
  <2> QED
    BY <2>1, <2>2, <2>3
<1>4. Holders' \subseteq Holders
  BY <1>3 DEF Step, Holders, ActorShape
<1> QED
  BY <1>1, <1>2, <1>4

LEMMA CopiesNext ==
    ASSUME Shape, Copies <= 1 + faults, Next
    PROVE  queue' \in QueueRecord /\ Copies' <= 1 + faults'
<1>0. StoreShape /\ ActorShape
  BY DEF Shape
<1>1. CASE \/ Submitting \/ TouchSubmitting \/ CrashSubmit \/ Recovering \/ CrashRecovery
           \/ \E c \in Clients : CancelRead(c) \/ Resubmit(c) \/ Cancelling(c) \/ CrashClient(c)
  <2>1. UNCHANGED worker /\ (Enqueue \/ UNCHANGED queue) /\ (Fault \/ NoFault \/ UNCHANGED faults)
    <3>1. CASE Submitting \/ TouchSubmitting \/ CrashSubmit
      BY <3>1 DEF Submitting, TouchSubmitting, CrashSubmit, CreateBatchImageJob, ReserveBalance,
         CreatePendingItems, StartUpload, ProviderSubmit, UpdateProviderSubmit, AbortOrphan,
         EnqueueSubmitted, ReleaseSubmitHold, RecordUnreleased, RejectSubmit, Transition,
         TransitionRefused, TransitionFails, EnqueueOr, ReleaseFails, SubmitStep
    <3>2. CASE Recovering \/ CrashRecovery
      BY <3>2 DEF Recovering, CrashRecovery, ListStale, FailStale, RecoveryRelease, RecoveryRetry,
         EnqueueOr, ReleaseFails, RecoveryStep
    <3>3. ASSUME NEW c \in Clients, CancelRead(c) \/ Resubmit(c) \/ Cancelling(c) \/ CrashClient(c)
          PROVE  UNCHANGED worker /\ (Enqueue \/ UNCHANGED queue) /\ (Fault \/ NoFault \/ UNCHANGED faults)
      BY <3>3 DEF CancelRead, Resubmit, Cancelling, CancelProvider, ClientEnqueue, CancelTransition,
         CancelRelease, CancelRetry, CrashClient, EnqueueOr, ReleaseFails, ClientStep, Transition,
         TransitionRefused, TransitionFails
    <3> QED
      BY <1>1, <3>1, <3>2, <3>3
  <2>2. Holders' \subseteq Holders
    BY <2>1 DEF Holders
  <2>3. faults' \in Nat /\ faults <= faults'
    BY <1>0, <2>1, FaultShape
  <2> QED
    BY <2>1, <2>2, <2>3, CopiesEnqueue
<1>2. ASSUME NEW w \in Workers, Working(w) \/ CrashWorker(w)
      PROVE  queue' \in QueueRecord /\ Copies' <= 1 + faults'
  <2>0. faults' \in Nat
    BY <1>2, WorkerShape DEF StoreShape
  <2>1. CASE Reserve(w)
    BY <2>0, <2>1, CopiesReserve
  <2>2. CASE Requeue(w) \/ Ack(w)
    BY <2>0, <2>2, CopiesRequeue
  <2>3. CASE \/ TryAcquireJobLock(w) \/ Unlock(w) \/ Pipeline(w) \/ ReadJob(w) \/ Poll(w) \/ Index(w)
             \/ IndexFailed(w) \/ IndexDone(w) \/ ReleaseTerminal(w) \/ SettleRead(w) \/ Capture(w)
             \/ RecordFailure(w) \/ Exhaust(w) \/ ExhaustFails(w) \/ Reread(w) \/ MarkSettled(w)
             \/ CrashWorker(w)
    <3>1. UNCHANGED queue /\ Holders' \subseteq Holders /\ (Fault \/ NoFault \/ UNCHANGED faults)
      BY <1>0, <2>3, WorkerFrame
    <3>2. faults <= faults'
      BY <1>0, <3>1, FaultShape
    <3> QED
      BY <2>0, <3>1, <3>2, CopiesFrame
  <2> QED
    BY <1>2, <2>1, <2>2, <2>3 DEF Working
<1>3. CASE \/ GoesStale \/ UpstreamEnds \/ AccountEdited \/ LockExpires
           \/ RecoverStaleActive \/ MoveDueDelayed
           \/ \E w \in Workers : HeartbeatsFail(w)
  <2>0. faults' \in Nat
    BY <1>3, WorldShape DEF StoreShape
  <2>1. CASE MoveDueDelayed
    BY <2>0, <2>1, CopiesMove
  <2>2. CASE RecoverStaleActive \/ \E w \in Workers : HeartbeatsFail(w)
    BY <2>0, <2>2, CopiesRecovered
  <2>3. CASE GoesStale \/ UpstreamEnds \/ AccountEdited \/ LockExpires
    <3>1. UNCHANGED queue /\ Holders' \subseteq Holders /\ (Fault \/ NoFault \/ UNCHANGED faults)
      BY <2>3 DEF GoesStale, UpstreamEnds, AccountEdited, LockExpires, Holders
    <3>2. faults <= faults'
      BY <1>0, <3>1, FaultShape
    <3> QED
      BY <2>0, <3>1, <3>2, CopiesFrame
  <2> QED
    BY <1>3, <2>1, <2>2, <2>3
<1> QED
  BY <1>1, <1>2, <1>3 DEF Next, Crash

LEMMA ShapeNext ==
    ASSUME Shape, Next
    PROVE  StoreShape' /\ ActorShape'
<1>1. CASE Submitting \/ TouchSubmitting \/ CrashSubmit
  BY <1>1, SubmitShape
<1>2. ASSUME NEW c \in Clients, CancelRead(c) \/ Resubmit(c) \/ Cancelling(c) \/ CrashClient(c)
      PROVE  StoreShape' /\ ActorShape'
  BY <1>2, ClientShape
<1>3. CASE Recovering \/ CrashRecovery
  BY <1>3, RecoveryShape
<1>4. ASSUME NEW w \in Workers, Working(w) \/ CrashWorker(w)
      PROVE  StoreShape' /\ ActorShape'
  BY <1>4, WorkerShape
<1>5. CASE \/ GoesStale \/ UpstreamEnds \/ AccountEdited \/ LockExpires
           \/ RecoverStaleActive \/ MoveDueDelayed
           \/ \E w \in Workers : HeartbeatsFail(w)
  BY <1>5, WorldShape
<1> QED
  BY <1>1, <1>2, <1>3, <1>4, <1>5 DEF Next, Crash

\* The bound on the ready list follows from that on all the copies.
LEMMA TypeIsShape ==
    TypeInv <=> Shape /\ Copies <= 1 + faults
<1>1. TypeInv => Shape /\ Copies <= 1 + faults
  <2> SUFFICES ASSUME TypeInv PROVE Shape
    BY DEF TypeInv
  <2>1. queue \in QueueRecord
    BY DEF TypeInv, TypeOK, QueueRecord
  <2> QED
    BY <2>1 DEF TypeInv, TypeOK, Shape, StoreShape, ActorShape, JobRecord, Lapses
<1>2. ASSUME Shape, Copies <= 1 + faults
      PROVE  TypeInv
  <2>1. queue \in QueueRecord /\ faults \in Nat
    BY <1>2 DEF Shape, StoreShape
  <2>2. /\ queue.ready \in Nat /\ Count(queue.delayed) \in 0..1 /\ Count(~queue.inflight) \in 0..1
    BY <2>1, QueueFields
  <2>3. AtWork \in Nat
    <3>1. Holders \in SUBSET Workers
      BY DEF Holders
    <3>2. Cardinality(Holders) \in Nat /\ Count(queue.active) \in Nat
      BY <3>1, HoldersFacts DEF Count
    <3> QED
      BY <3>2 DEF AtWork
  <2>4. queue.ready + Count(queue.delayed) + Count(~queue.inflight) + AtWork <= 1 + faults
    BY <1>2 DEF Copies
  <2>5. queue.ready \in 0..(1 + faults)
    BY ONLY <2>1, <2>2, <2>3, <2>4
  <2>6. queue \in [ready : 0..(1 + faults), delayed : BOOLEAN, active : BOOLEAN, inflight : BOOLEAN]
    BY <2>1, <2>5 DEF QueueRecord
  <2> QED
    BY <1>2, <2>6 DEF TypeInv, TypeOK, Shape, StoreShape, ActorShape, JobRecord, Lapses
<1> QED
  BY <1>1, <1>2

LEMMA TypeNext ==
    ASSUME TypeInv, [Next]_vars
    PROVE  TypeInv'
<1>1. Shape /\ Copies <= 1 + faults
  BY TypeIsShape
<1>2. CASE Next
  <2>1. (Shape /\ Copies <= 1 + faults)'
    BY <1>1, <1>2, ShapeNext, CopiesNext DEF Shape
  <2> QED
    BY <2>1, TypeIsShape, PTL
<1>3. CASE UNCHANGED vars
  <2>1. TypeOK'
    BY <1>3 DEF TypeInv, TypeOK, vars, store
  <2>2. Copies' = Copies /\ faults' = faults
    BY <1>3 DEF vars, store, Copies, AtWork, Holders, Count
  <2> QED
    BY <2>1, <2>2 DEF TypeInv
<1> QED
  BY <1>2, <1>3

LEMMA TypeInit ==
    ASSUME Init
    PROVE  TypeInv
<1>1. TypeOK
  BY ConstantsAssumption DEF Init, TypeOK, Statuses, Movements, SubmitSteps, ClientSteps,
     RecoverySteps, WorkerSteps, Unlocked
<1>2. Holders = {}
  BY DEF Init, Holders
<1>3. Copies = 1
  BY <1>2 DEF Init, Copies, AtWork, Count
<1> QED
  BY <1>1, <1>3 DEF TypeInv, Init

-----------------------------------------------------------------------------
(* The status: where each actor leaves the row.                            *)

Nameless == {"none", "created", "uploading", "failed", "cancelled"}

LEMMA JobFields ==
    ASSUME job \in JobRecord
    PROVE  /\ \A to \in Statuses : SetStatus(to) =>
                job'.status = to /\ job'.named = job.named /\ job'.retries = job.retries
           /\ Submitted =>
                job'.status = "submitted" /\ job'.named = TRUE /\ job'.retries = job.retries
           /\ CountFailure =>
                /\ job'.status = job.status /\ job'.named = job.named
                /\ job'.retries = IF job.retries < MaxRetries THEN job.retries + 1 ELSE job.retries
           /\ \A s \in BOOLEAN : job' = [job EXCEPT !.stale = s] =>
                job'.status = job.status /\ job'.named = job.named /\ job'.retries = job.retries
           /\ job.status \in Statuses /\ job.named \in BOOLEAN /\ job.retries \in 0..MaxRetries
<1>1. \A to \in Statuses : SetStatus(to) =>
         job'.status = to /\ job'.named = job.named /\ job'.retries = job.retries
  BY DEF SetStatus, JobRecord
<1>2. Submitted => job'.status = "submitted" /\ job'.named = TRUE /\ job'.retries = job.retries
  BY DEF Submitted, JobRecord
<1>3. CountFailure =>
         /\ job'.status = job.status /\ job'.named = job.named
         /\ job'.retries = IF job.retries < MaxRetries THEN job.retries + 1 ELSE job.retries
  <2> DEFINE n == IF job.retries < MaxRetries THEN job.retries + 1 ELSE job.retries
  <2>1. CountFailure => job' = [job EXCEPT !.retries = n, !.stale = FALSE]
    BY DEF CountFailure
  <2> HIDE DEF n
  <2>2. CountFailure => job'.status = job.status /\ job'.named = job.named /\ job'.retries = n
    BY <2>1 DEF JobRecord
  <2> QED
    BY <2>2 DEF n
<1>4. \A s \in BOOLEAN : job' = [job EXCEPT !.stale = s] =>
         job'.status = job.status /\ job'.named = job.named /\ job'.retries = job.retries
  BY DEF JobRecord
<1> QED
  BY <1>1, <1>2, <1>3, <1>4 DEF JobRecord

\* TransitionBatchImageJobStatus leaves the row alone or moves it.
LEMMA TransitionFields ==
    ASSUME job \in JobRecord, NEW to \in Statuses, Transition(to) \/ NoTransition(to)
    PROVE  /\ job'.named = job.named /\ job'.retries = job.retries
           /\ job'.status = job.status \/ (CanTransition(job.status, to) /\ job'.status = to)
           /\ Transition(to) => CanTransition(job.status, to) /\ job'.status = to
           /\ Transition(to) \/ TransitionFails(to) \/ UNCHANGED job
<1>1. \/ CanTransition(job.status, to) /\ SetStatus(to)
      \/ UNCHANGED job
  BY DEF Transition, NoTransition, TransitionRefused, TransitionFails
<1>2. Transition(to) => CanTransition(job.status, to) /\ SetStatus(to)
  BY DEF Transition
<1>3. Transition(to) \/ TransitionFails(to) \/ UNCHANGED job
  BY DEF NoTransition, TransitionRefused
<1> QED
  BY <1>1, <1>2, <1>3, JobFields

\* A step that keeps what has ended.
LEMMA StatusStep ==
    ASSUME StatusInv, GivenUp => GivenUp',
           submit' = "idle" <=> job'.status = "none",
           submit' \in Unsubmitted => ~job'.named,
           ~job'.named => job'.status \in Nameless,
           \A w \in Workers : worker'[w] = "terminal" => worker[w] = "terminal" \/ GivenUp',
           \A c \in Clients : client'[c] \in {"release", "retry"} =>
                client[c] \in {"release", "retry"} \/ GivenUp',
           recovery' \in {"release", "retry"} => recovery \in {"release", "retry"} \/ GivenUp'
    PROVE  StatusInv'
<1>1. (\A w \in Workers : worker[w] = "terminal" => GivenUp)'
  BY DEF StatusInv
<1>2. (\A c \in Clients : client[c] \in {"release", "retry"} => GivenUp)'
  BY DEF StatusInv
<1>3. (recovery \in {"release", "retry"} => GivenUp)'
  BY DEF StatusInv
<1> QED
  BY <1>1, <1>2, <1>3 DEF StatusInv, Nameless

\* An action property of the row: what has ended stays ended.
Ended ==
    /\ job.status = "completed" => job'.status = "completed"
    /\ job.status \in {"failed", "cancelled"} => job'.status \in {"failed", "cancelled"}

LEMMA SubmitStatus ==
    ASSUME StoreShape, StatusInv, Submitting \/ TouchSubmitting \/ CrashSubmit
    PROVE  StatusInv' /\ Ended
<1>0. job \in JobRecord /\ job.status \in Statuses
  BY JobFields DEF StoreShape
<1>1. UNCHANGED <<client, recovery, worker>>
  BY DEF Submitting, TouchSubmitting, CrashSubmit, CreateBatchImageJob, ReserveBalance,
     CreatePendingItems, StartUpload, ProviderSubmit, UpdateProviderSubmit, AbortOrphan,
     EnqueueSubmitted, ReleaseSubmitHold, RecordUnreleased, RejectSubmit, SubmitStep
<1> DEFINE Good ==
      /\ submit' = "idle" <=> job'.status = "none"
      /\ submit' \in Unsubmitted => ~job'.named
      /\ ~job'.named => job'.status \in Nameless
<1>2. Good /\ Ended
  <2>1. CASE CreateBatchImageJob
    <3>1. SetStatus("created") /\ submit = "idle" /\ submit' = "reserve"
      BY <2>1 DEF CreateBatchImageJob, SubmitStep
    <3>2. job'.status = "created" /\ job'.named = job.named
      BY <1>0, <3>1, JobFields DEF Statuses
    <3> QED
      BY <3>1, <3>2 DEF StatusInv, Unsubmitted, Nameless, Ended
  <2>2. CASE StartUpload
    <3>1. /\ submit = "upload" /\ submit' \in {"provider", "releaseOnly", "release"}
          /\ Transition("uploading") \/ NoTransition("uploading")
      BY <2>2 DEF StartUpload, SubmitStep, NoTransition
    <3>2. /\ job'.named = job.named
          /\ job'.status = job.status \/ (CanTransition(job.status, "uploading") /\ job'.status = "uploading")
      BY <1>0, <3>1, TransitionFields DEF Statuses
    <3> QED
      BY <3>1, <3>2 DEF StatusInv, Unsubmitted, Nameless, Ended, CanTransition, Terminal
  <2>3. CASE UpdateProviderSubmit
    <3>1. /\ submit = "persist" /\ submit' \in {"enqueue", "abort"}
          /\ (CanTransition(job.status, "submitted") /\ Submitted) \/ UNCHANGED job
      BY <2>3 DEF UpdateProviderSubmit, SubmitStep, Submittable
    <3>2. CASE UNCHANGED job
      BY <3>1, <3>2 DEF StatusInv, Unsubmitted, Nameless, Ended
    <3>3. CASE CanTransition(job.status, "submitted") /\ Submitted
      <4>1. job'.status = "submitted" /\ job'.named
        BY <1>0, <3>3, JobFields
      <4> QED
        BY <3>1, <3>3, <4>1 DEF StatusInv, Unsubmitted, Nameless, Ended, CanTransition, Terminal
    <3> QED
      BY <3>1, <3>2, <3>3
  <2>4. CASE RecordUnreleased \/ RejectSubmit
    <3>1. /\ submit \in {"unreleased", "reject"} /\ submit' \in {"retry", "done"}
          /\ \/ SetStatus("failed") \/ UNCHANGED job
             \/ job' = [job EXCEPT !.status = "failed", !.stale = FALSE, !.hidden = TRUE]
             \/ job' = [job EXCEPT !.hidden = @ \/ job.status \in Terminal]
      BY <2>4 DEF RecordUnreleased, RejectSubmit, SubmitStep
    <3>2. job'.named = job.named /\ (job'.status = job.status \/ job'.status = "failed")
      <4>1. CASE SetStatus("failed")
        BY <1>0, <4>1, JobFields DEF Statuses, Terminal
      <4>2. CASE job' = [job EXCEPT !.status = "failed", !.stale = FALSE, !.hidden = TRUE]
        BY <1>0, <4>2 DEF JobRecord
      <4>3. CASE job' = [job EXCEPT !.hidden = @ \/ job.status \in Terminal]
        <5> DEFINE h == job.hidden \/ job.status \in Terminal
        <5>1. job' = [job EXCEPT !.hidden = h]
          BY <4>3
        <5> HIDE DEF h
        <5> QED
          BY <1>0, <5>1 DEF JobRecord
      <4> QED
        BY <3>1, <4>1, <4>2, <4>3
    <3> QED
      BY <3>1, <3>2 DEF StatusInv, Unsubmitted, Nameless, Ended
  <2>5. CASE TouchSubmitting
    <3>1. submit = "provider" /\ submit' = "provider" /\ job' = [job EXCEPT !.stale = FALSE]
      BY <2>5 DEF TouchSubmitting, SubmitStep
    <3>2. job'.status = job.status /\ job'.named = job.named
      BY <1>0, <3>1, JobFields
    <3> QED
      BY <3>1, <3>2 DEF StatusInv, Unsubmitted, Nameless, Ended
  <2>6. CASE \/ ReserveBalance \/ CreatePendingItems \/ ProviderSubmit \/ AbortOrphan
             \/ EnqueueSubmitted \/ ReleaseSubmitHold \/ CrashSubmit
    <3>1. /\ UNCHANGED job /\ submit # "idle" /\ submit' # "idle"
          /\ submit' \in Unsubmitted => submit \in Unsubmitted
      BY <2>6 DEF ReserveBalance, CreatePendingItems, ProviderSubmit, AbortOrphan,
         EnqueueSubmitted, ReleaseSubmitHold, CrashSubmit, SubmitStep, Unsubmitted
    <3> QED
      BY <3>1 DEF StatusInv, Nameless, Ended
  <2> QED
    BY <2>1, <2>2, <2>3, <2>4, <2>5, <2>6 DEF Submitting
<1>3. GivenUp => GivenUp'
  BY <1>2 DEF Ended, GivenUp
<1>4. StatusInv'
  BY <1>1, <1>2, <1>3, StatusStep
<1> QED
  BY <1>2, <1>4

LEMMA ClientStatus ==
    ASSUME StoreShape, ActorShape, StatusInv, NEW c \in Clients,
           CancelRead(c) \/ Resubmit(c) \/ Cancelling(c) \/ CrashClient(c)
    PROVE  StatusInv' /\ Ended
<1>0. job \in JobRecord /\ job.status \in Statuses
  BY JobFields DEF StoreShape
<1>1. UNCHANGED <<submit, recovery, worker>>
  BY DEF CancelRead, Resubmit, Cancelling, CancelProvider, ClientEnqueue, CancelTransition,
     CancelRelease, CancelRetry, CrashClient, ClientStep
<1>2. \/ UNCHANGED job
      \/ job'.named = job.named /\ CanTransition(job.status, "cancelled") /\ job'.status = "cancelled"
      \/ job'.named = job.named /\ job'.status = job.status
  <2>1. CASE CancelTransition(c)
    <3>1. Transition("cancelled") \/ NoTransition("cancelled")
      BY <2>1 DEF CancelTransition, NoTransition
    <3> QED
      BY <1>0, <3>1, TransitionFields DEF Statuses, Terminal
  <2>2. CASE \/ CancelRead(c) \/ Resubmit(c) \/ CancelProvider(c) \/ ClientEnqueue(c)
             \/ CancelRelease(c) \/ CancelRetry(c) \/ CrashClient(c)
    BY <2>2 DEF CancelRead, Resubmit, CancelProvider, ClientEnqueue, CancelRelease, CancelRetry,
       CrashClient
  <2> QED
    BY <2>1, <2>2 DEF Cancelling
<1>3. /\ submit' = "idle" <=> job'.status = "none"
      /\ submit' \in Unsubmitted => ~job'.named
      /\ ~job'.named => job'.status \in Nameless
      /\ Ended
  BY <1>1, <1>2 DEF StatusInv, Nameless, Ended, CanTransition, Terminal
<1>4. GivenUp => GivenUp'
  BY <1>3 DEF Ended, GivenUp
<1>5. \E to : /\ client' = [client EXCEPT ![c] = to]
              /\ to \in {"release", "retry"} => client[c] \in {"release", "retry"} \/ GivenUp'
  <2>1. CASE CancelRead(c)
    <3>1. \/ ClientStep(c, "idle", "release") /\ job.status \in {"failed", "cancelled"}
          \/ \E to \in {"idle", "provider", "transition"} : ClientStep(c, "idle", to)
      BY <2>1 DEF CancelRead
    <3> QED
      BY <1>4, <3>1 DEF ClientStep, GivenUp
  <2>2. CASE CancelTransition(c)
    <3>1. \/ ClientStep(c, "transition", "release") /\ Transition("cancelled")
          \/ ClientStep(c, "transition", "idle")
      BY <2>2 DEF CancelTransition
    <3>2. Transition("cancelled") => job'.status = "cancelled"
      BY <1>0, TransitionFields DEF Statuses, Terminal
    <3> QED
      BY <3>1, <3>2 DEF ClientStep, GivenUp
  <2>3. CASE \/ Resubmit(c) \/ CancelProvider(c) \/ ClientEnqueue(c) \/ CancelRelease(c) \/ CancelRetry(c)
             \/ CrashClient(c)
    BY <2>3 DEF Resubmit, CancelProvider, ClientEnqueue, CancelRelease, CancelRetry, CrashClient,
       ClientStep
  <2> QED
    BY <2>1, <2>2, <2>3 DEF Cancelling
<1>6. \A d \in Clients : client'[d] \in {"release", "retry"} =>
         client[d] \in {"release", "retry"} \/ GivenUp'
  BY <1>5 DEF ActorShape
<1>7. StatusInv'
  BY <1>1, <1>3, <1>4, <1>6, StatusStep
<1> QED
  BY <1>3, <1>7

LEMMA RecoveryStatus ==
    ASSUME StoreShape, StatusInv, Recovering \/ CrashRecovery
    PROVE  StatusInv' /\ Ended
<1>0. job \in JobRecord /\ job.status \in Statuses
  BY JobFields DEF StoreShape
<1>1. UNCHANGED <<submit, client, worker>>
  BY DEF Recovering, CrashRecovery, ListStale, FailStale, RecoveryRelease, RecoveryRetry, RecoveryStep
<1>2. UNCHANGED job \/ (StaleUnsubmitted /\ SetStatus("failed"))
  BY DEF Recovering, CrashRecovery, ListStale, FailStale, RecoveryRelease, RecoveryRetry, StillStale
<1>3. \/ UNCHANGED job
      \/ /\ job'.named = job.named /\ job'.status = "failed"
         /\ job.status \in {"created", "uploading"}
  BY <1>0, <1>2, JobFields DEF StaleUnsubmitted, Statuses, Terminal
<1>4. /\ submit' = "idle" <=> job'.status = "none"
      /\ submit' \in Unsubmitted => ~job'.named
      /\ ~job'.named => job'.status \in Nameless
      /\ Ended
  BY <1>1, <1>3 DEF StatusInv, Nameless, Ended
<1>5. recovery' \in {"release", "retry"} => recovery \in {"release", "retry"} \/ GivenUp'
  <2>1. recovery' \in {"release", "retry"} =>
            recovery \in {"release", "retry"} \/ SetStatus("failed")
    BY DEF Recovering, CrashRecovery, ListStale, FailStale, RecoveryRelease, RecoveryRetry, RecoveryStep
  <2>2. SetStatus("failed") => GivenUp'
    BY <1>0, JobFields DEF GivenUp, Statuses, Terminal
  <2> QED
    BY <2>1, <2>2
<1>6. GivenUp => GivenUp'
  BY <1>4 DEF Ended, GivenUp
<1>7. StatusInv'
  BY <1>1, <1>4, <1>5, <1>6, StatusStep
<1> QED
  BY <1>4, <1>7

\* What a worker does to the row.
LEMMA WorkerRow ==
    ASSUME StoreShape, NEW w \in Workers, Working(w) \/ CrashWorker(w)
    PROVE  /\ job'.named = job.named
           /\ \/ job'.status = job.status
              \/ /\ job'.status \in {"running", "indexing", "failed", "cancelled", "settling"}
                 /\ CanTransition(job.status, job'.status)
              \/ job.status = "settling" /\ job'.status = "completed" /\ worker[w] = "mark"
<1>0. job \in JobRecord /\ job.status \in Statuses
  BY JobFields DEF StoreShape
<1>1. CASE Poll(w) \/ IndexFailed(w) \/ IndexDone(w) \/ ExhaustFails(w)
  <2>1. \/ \E to \in {"running", "indexing", "failed", "cancelled", "settling"} :
              Transition(to) \/ NoTransition(to)
        \/ UNCHANGED job
    BY <1>1 DEF Poll, IndexFailed, IndexDone, ExhaustFails
  <2>2. CASE UNCHANGED job
    BY <2>2
  <2>3. ASSUME NEW to \in {"running", "indexing", "failed", "cancelled", "settling"},
               Transition(to) \/ NoTransition(to)
        PROVE  /\ job'.named = job.named
               /\ job'.status = job.status \/ (CanTransition(job.status, to) /\ job'.status = to)
    BY <1>0, <2>3, TransitionFields DEF Statuses, Terminal
  <2> QED
    BY <2>1, <2>2, <2>3
<1>2. CASE RecordFailure(w)
  <2>1. CountFailure \/ UNCHANGED job
    BY <1>2 DEF RecordFailure
  <2> QED
    BY <1>0, <2>1, JobFields
<1>3. CASE MarkSettled(w)
  <2>1. UNCHANGED job \/ (job.status = "settling" /\ SetStatus("completed") /\ worker[w] = "mark")
    BY <1>3 DEF MarkSettled, Step
  <2> QED
    BY <1>0, <2>1, JobFields DEF Statuses, Terminal
<1>4. CASE \/ Reserve(w) \/ TryAcquireJobLock(w) \/ Requeue(w) \/ Ack(w) \/ Unlock(w) \/ Pipeline(w)
           \/ ReadJob(w) \/ Index(w) \/ SettleRead(w) \/ Reread(w) \/ CrashWorker(w)
           \/ Capture(w) \/ Exhaust(w) \/ ReleaseTerminal(w)
  <2>1. UNCHANGED job
    BY <1>4 DEF Reserve, TryAcquireJobLock, Requeue, Ack, Unlock, Pipeline, ReadJob, Index,
       SettleRead, Reread, CrashWorker, Capture, Exhaust, ReleaseTerminal
  <2> QED
    BY <2>1
<1> QED
  BY <1>1, <1>2, <1>3, <1>4 DEF Working

LEMMA WorkerStatus ==
    ASSUME StoreShape, ActorShape, StatusInv, NEW w \in Workers, Working(w) \/ CrashWorker(w)
    PROVE  StatusInv' /\ Ended
<1>0. job \in JobRecord /\ job.status \in Statuses
  BY JobFields DEF StoreShape
<1>1. UNCHANGED <<submit, client, recovery>>
  BY DEF Working, Reserve, TryAcquireJobLock, Requeue, Ack, Unlock, Pipeline, ReadJob, Poll, Index,
     IndexFailed, IndexDone, ReleaseTerminal, SettleRead, Capture, RecordFailure, Exhaust,
     ExhaustFails, Reread, MarkSettled, CrashWorker, Step
<1>2. /\ submit' = "idle" <=> job'.status = "none"
      /\ submit' \in Unsubmitted => ~job'.named
      /\ ~job'.named => job'.status \in Nameless
      /\ Ended
  BY <1>1, WorkerRow DEF StatusInv, Nameless, Ended, CanTransition, Terminal
<1>3. GivenUp => GivenUp'
  BY <1>2 DEF Ended, GivenUp
<1>4. \E to : worker' = [worker EXCEPT ![w] = to] /\ (to = "terminal" => GivenUp')
  <2>1. CASE ReadJob(w)
    <3>1. \/ Step(w, "provider", "terminal") /\ ReturnsHold
          \/ \E to \in {"ack", "requeue", "index", "poll"} : Step(w, "provider", to)
      BY <2>1 DEF ReadJob
    <3> QED
      BY <1>3, <3>1 DEF Step, ReturnsHold, GivenUp
  <2>2. CASE Poll(w) \/ IndexFailed(w)
    <3>1. \/ \E to : Step(w, worker[w], to) /\ to # "terminal"
          \/ Step(w, worker[w], "terminal") /\ (Transition("failed") \/ Transition("cancelled"))
      BY <2>2 DEF Poll, IndexFailed, Step
    <3>2. Transition("failed") \/ Transition("cancelled") => GivenUp'
      BY <1>0, TransitionFields DEF Statuses, Terminal, GivenUp
    <3> QED
      BY <3>1, <3>2 DEF Step
  <2>3. CASE \/ Reserve(w) \/ TryAcquireJobLock(w) \/ Requeue(w) \/ Ack(w) \/ Unlock(w) \/ Pipeline(w)
             \/ CrashWorker(w) \/ Index(w) \/ IndexDone(w)
    BY <2>3 DEF Reserve, TryAcquireJobLock, Requeue, Ack, Unlock, Pipeline, CrashWorker, Index,
       IndexDone, Step
  <2>4. CASE \/ ReleaseTerminal(w) \/ SettleRead(w) \/ Capture(w) \/ RecordFailure(w) \/ Exhaust(w)
             \/ ExhaustFails(w) \/ Reread(w) \/ MarkSettled(w)
    BY <2>4 DEF ReleaseTerminal, SettleRead, Capture, CaptureError, RecordFailure, Exhaust,
       ExhaustFails, Reread, MarkSettled, Step
  <2> QED
    BY <2>1, <2>2, <2>3, <2>4 DEF Working
<1>5. \A v \in Workers : worker'[v] = "terminal" => worker[v] = "terminal" \/ GivenUp'
  BY <1>4 DEF ActorShape
<1>6. StatusInv'
  BY <1>1, <1>2, <1>3, <1>5, StatusStep
<1> QED
  BY <1>2, <1>6

LEMMA WorldStatus ==
    ASSUME StoreShape, StatusInv,
           \/ GoesStale \/ UpstreamEnds \/ AccountEdited \/ LockExpires
           \/ RecoverStaleActive \/ MoveDueDelayed
           \/ \E w \in Workers : HeartbeatsFail(w)
    PROVE  StatusInv' /\ Ended
<1>1. UNCHANGED <<submit, client, recovery, worker>>
  BY DEF GoesStale, UpstreamEnds, AccountEdited, LockExpires,
         RecoverStaleActive, MoveDueDelayed, HeartbeatsFail
<1>2. job' = job \/ job' = [job EXCEPT !.stale = TRUE]
  BY DEF GoesStale, UpstreamEnds, AccountEdited, LockExpires,
         RecoverStaleActive, MoveDueDelayed, HeartbeatsFail
<1>3. job'.status = job.status /\ job'.named = job.named
  BY <1>2, JobFields DEF StoreShape
<1>4. StatusInv'
  BY <1>1, <1>3 DEF StatusInv, GivenUp
<1> QED
  BY <1>3, <1>4 DEF Ended

LEMMA StatusNext ==
    ASSUME Shape, StatusInv, [Next]_vars
    PROVE  StatusInv' /\ Ended
<1>0. StoreShape /\ ActorShape
  BY DEF Shape
<1>1. CASE Submitting \/ TouchSubmitting \/ CrashSubmit
  BY <1>0, <1>1, SubmitStatus
<1>2. ASSUME NEW c \in Clients, CancelRead(c) \/ Resubmit(c) \/ Cancelling(c) \/ CrashClient(c)
      PROVE  StatusInv' /\ Ended
  BY <1>0, <1>2, ClientStatus
<1>3. CASE Recovering \/ CrashRecovery
  BY <1>0, <1>3, RecoveryStatus
<1>4. ASSUME NEW w \in Workers, Working(w) \/ CrashWorker(w)
      PROVE  StatusInv' /\ Ended
  BY <1>0, <1>4, WorkerStatus
<1>5. CASE \/ GoesStale \/ UpstreamEnds \/ AccountEdited \/ LockExpires
           \/ RecoverStaleActive \/ MoveDueDelayed
           \/ \E w \in Workers : HeartbeatsFail(w)
  BY <1>0, <1>5, WorldStatus
<1>6. CASE UNCHANGED vars
  BY <1>6 DEF vars, store, StatusInv, GivenUp, Ended
<1> QED
  BY <1>1, <1>2, <1>3, <1>4, <1>5, <1>6 DEF Next, Crash

-----------------------------------------------------------------------------
(* The charge: a job is completed only after its hold was captured.        *)

LEMMA BillingGrows ==
    ASSUME \/ UNCHANGED billing \/ CaptureBalance \/ ReleaseBalance \/ CaptureFails \/ ReleaseFails
           \/ Move("hold")
    PROVE  /\ claims \subseteq claims' /\ moved \subseteq moved'
           /\ "capture" \in claims' => "capture" \in claims \/ "capture" \in moved'
<1>1. \/ UNCHANGED billing
      \/ \E r \in {"hold", "capture", "release"} : Move(r)
      \/ Claim("release") /\ UNCHANGED moved
  BY DEF CaptureFails, ReleaseFails, CaptureBalance, ReleaseBalance
<1> QED
  BY <1>1 DEF Claim, Move, billing

Paying == {"items", "upload", "provider", "persist"}

LEMMA ChargeStep ==
    ASSUME ChargeInv, claims \subseteq claims', moved \subseteq moved',
           "capture" \in claims' => "capture" \in claims \/ "capture" \in moved',
           submit' \in Paying \/ job'.named => submit \in Paying \/ job.named \/ "hold" \in moved',
           \A w \in Workers : worker'[w] = "mark" => worker[w] = "mark" \/ "capture" \in claims',
           job'.status = "completed" => job.status = "completed" \/ "capture" \in claims'
    PROVE  ChargeInv'
<1>1. (submit \in {"items", "upload", "provider", "persist"} \/ job.named => "hold" \in moved)'
  BY DEF ChargeInv, Paying
<1>2. ("capture" \in claims => "capture" \in moved)'
  BY DEF ChargeInv
<1>3. ((\E w \in Workers : worker[w] = "mark") => "capture" \in claims)'
  BY DEF ChargeInv
<1>4. (job.status = "completed" => "capture" \in claims)'
  BY DEF ChargeInv
<1> QED
  BY <1>1, <1>2, <1>3, <1>4 DEF ChargeInv

LEMMA SubmitCharge ==
    ASSUME StoreShape, StatusInv, ChargeInv, Submitting \/ TouchSubmitting \/ CrashSubmit
    PROVE  ChargeInv'
<1>0. job \in JobRecord /\ job.status \in Statuses
  BY JobFields DEF StoreShape
<1>1. UNCHANGED worker
  BY DEF Submitting, TouchSubmitting, CrashSubmit, CreateBatchImageJob, ReserveBalance,
     CreatePendingItems, StartUpload, ProviderSubmit, UpdateProviderSubmit, AbortOrphan,
     EnqueueSubmitted, ReleaseSubmitHold, RecordUnreleased, RejectSubmit, SubmitStep
<1>2. \/ UNCHANGED billing \/ ReleaseBalance \/ ReleaseFails \/ Move("hold")
  BY DEF Submitting, TouchSubmitting, CrashSubmit, CreateBatchImageJob, ReserveBalance,
     CreatePendingItems, StartUpload, ProviderSubmit, UpdateProviderSubmit, AbortOrphan,
     EnqueueSubmitted, ReleaseSubmitHold, RecordUnreleased, RejectSubmit
<1>3. /\ claims \subseteq claims' /\ moved \subseteq moved'
      /\ "capture" \in claims' => "capture" \in claims \/ "capture" \in moved'
  BY <1>2, BillingGrows
<1>4. submit' \in Paying => submit \in Paying \/ "hold" \in moved'
  BY DEF Submitting, TouchSubmitting, CrashSubmit, CreateBatchImageJob, ReserveBalance,
     CreatePendingItems, StartUpload, ProviderSubmit, UpdateProviderSubmit, AbortOrphan,
     EnqueueSubmitted, ReleaseSubmitHold, RecordUnreleased, RejectSubmit, SubmitStep, Move, Paying
<1>5. /\ job'.named => job.named \/ submit \in Paying
      /\ job'.status = "completed" => job.status = "completed"
  <2>1. CASE CreateBatchImageJob \/ RecordUnreleased
    <3>1. SetStatus("created") \/ SetStatus("failed") \/ UNCHANGED job
      BY <2>1 DEF CreateBatchImageJob, RecordUnreleased
    <3> QED
      BY <1>0, <3>1, JobFields DEF Statuses, Terminal
  <2>2. CASE StartUpload
    <3>1. Transition("uploading") \/ NoTransition("uploading")
      BY <2>2 DEF StartUpload, NoTransition
    <3> QED
      BY <1>0, <3>1, TransitionFields DEF Statuses
  <2>3. CASE UpdateProviderSubmit
    <3>1. submit = "persist" /\ (Submitted \/ UNCHANGED job)
      BY <2>3 DEF UpdateProviderSubmit, SubmitStep
    <3> QED
      BY <1>0, <3>1, JobFields DEF Paying
  <2>4. CASE RejectSubmit
    <3>1. \/ SetStatus("failed")
          \/ job' = [job EXCEPT !.status = "failed", !.stale = FALSE, !.hidden = TRUE]
          \/ job' = [job EXCEPT !.hidden = @ \/ job.status \in Terminal]
      BY <2>4 DEF RejectSubmit
    <3>2. CASE SetStatus("failed")
      BY <1>0, <3>2, JobFields DEF Statuses, Terminal
    <3>3. CASE job' = [job EXCEPT !.status = "failed", !.stale = FALSE, !.hidden = TRUE]
      BY <1>0, <3>3 DEF JobRecord
    <3>4. CASE job' = [job EXCEPT !.hidden = @ \/ job.status \in Terminal]
      <4> DEFINE h == job.hidden \/ job.status \in Terminal
      <4>1. job' = [job EXCEPT !.hidden = h]
        BY <3>4
      <4> HIDE DEF h
      <4> QED
        BY <1>0, <4>1 DEF JobRecord
    <3> QED
      BY <3>1, <3>2, <3>3, <3>4
  <2>5. CASE TouchSubmitting
    <3>1. job' = [job EXCEPT !.stale = FALSE]
      BY <2>5 DEF TouchSubmitting
    <3> QED
      BY <1>0, <3>1, JobFields
  <2>6. CASE \/ ReserveBalance \/ CreatePendingItems \/ ProviderSubmit \/ AbortOrphan
             \/ EnqueueSubmitted \/ ReleaseSubmitHold \/ CrashSubmit
    <3>1. UNCHANGED job
      BY <2>6 DEF ReserveBalance, CreatePendingItems, ProviderSubmit, AbortOrphan,
         EnqueueSubmitted, ReleaseSubmitHold, CrashSubmit
    <3> QED
      BY <3>1
  <2> QED
    BY <2>1, <2>2, <2>3, <2>4, <2>5, <2>6 DEF Submitting
<1> QED
  BY <1>1, <1>3, <1>4, <1>5, ChargeStep

\* What an owner's request, the recovery or the world does to the row.
LEMMA OthersRow ==
    ASSUME StoreShape,
           \/ \E c \in Clients : CancelRead(c) \/ Resubmit(c) \/ Cancelling(c) \/ CrashClient(c)
           \/ Recovering \/ CrashRecovery
           \/ GoesStale \/ UpstreamEnds \/ AccountEdited \/ LockExpires
           \/ RecoverStaleActive \/ MoveDueDelayed
           \/ \E w \in Workers : HeartbeatsFail(w)
    PROVE  /\ job'.named = job.named /\ job'.retries = job.retries
           /\ \/ job'.status = job.status
              \/ /\ \E c \in Clients : CancelTransition(c)
                 /\ CanTransition(job.status, "cancelled") /\ job'.status = "cancelled"
              \/ /\ job.status \in {"created", "uploading"} /\ ~job.named /\ job'.status = "failed"
                 /\ FailStale
           /\ UNCHANGED <<submit, worker>>
           /\ \/ UNCHANGED billing
              \/ ReleaseBalance \/ ReleaseFails
           /\ ~UNCHANGED billing =>
                \/ \E c \in Clients : client[c] = "release"
                \/ recovery = "release"
<1>0. job \in JobRecord /\ job.status \in Statuses
  BY JobFields DEF StoreShape
<1>1. CASE \E c \in Clients : CancelTransition(c)
  <2>1. PICK c \in Clients : CancelTransition(c)
    BY <1>1
  <2>2. UNCHANGED billing /\ (Transition("cancelled") \/ NoTransition("cancelled")) /\ UNCHANGED <<submit, worker>>
    BY <2>1 DEF CancelTransition, NoTransition, ClientStep
  <2>3. /\ job'.named = job.named /\ job'.retries = job.retries
        /\ job'.status = job.status \/ (CanTransition(job.status, "cancelled") /\ job'.status = "cancelled")
    BY <1>0, <2>2, TransitionFields DEF Statuses, Terminal
  <2> QED
    BY <1>1, <2>2, <2>3
<1>2. CASE FailStale
  <2>1. /\ UNCHANGED billing /\ UNCHANGED <<submit, worker>>
        /\ UNCHANGED job \/ (StaleUnsubmitted /\ SetStatus("failed"))
    BY <1>2 DEF FailStale, StillStale, RecoveryStep
  <2> QED
    BY <1>0, <1>2, <2>1, JobFields DEF StaleUnsubmitted, Statuses, Terminal
<1>3. CASE GoesStale
  <2>1. /\ UNCHANGED billing /\ UNCHANGED <<submit, worker>>
        /\ job' = [job EXCEPT !.stale = TRUE]
    BY <1>3 DEF GoesStale
  <2> QED
    BY <1>0, <2>1, JobFields
<1>4. ASSUME NEW c \in Clients,
             \/ CancelRead(c) \/ Resubmit(c) \/ CancelProvider(c) \/ ClientEnqueue(c)
             \/ CancelRelease(c) \/ CancelRetry(c) \/ CrashClient(c)
      PROVE  /\ UNCHANGED job /\ UNCHANGED <<submit, worker>>
             /\ UNCHANGED billing \/ (client[c] = "release" /\ (ReleaseBalance \/ ReleaseFails))
  BY <1>4 DEF CancelRead, Resubmit, CancelProvider, ClientEnqueue, CancelRelease, CancelRetry,
     CrashClient, ClientStep
<1>5. CASE \/ ListStale \/ RecoveryRelease \/ RecoveryRetry \/ CrashRecovery
           \/ UpstreamEnds \/ AccountEdited \/ LockExpires \/ RecoverStaleActive \/ MoveDueDelayed
           \/ \E w \in Workers : HeartbeatsFail(w)
  <2>1. /\ UNCHANGED job /\ UNCHANGED <<submit, worker>>
        /\ UNCHANGED billing \/ (recovery = "release" /\ (ReleaseBalance \/ ReleaseFails))
    BY <1>5 DEF ListStale, RecoveryRelease, RecoveryRetry, CrashRecovery, UpstreamEnds,
       AccountEdited, LockExpires, RecoverStaleActive, MoveDueDelayed, HeartbeatsFail, RecoveryStep
  <2> QED
    BY <2>1
<1>6. CASE \E c \in Clients :
             \/ CancelRead(c) \/ Resubmit(c) \/ CancelProvider(c) \/ ClientEnqueue(c)
             \/ CancelRelease(c) \/ CancelRetry(c) \/ CrashClient(c)
  BY <1>4, <1>6
<1> QED
  BY <1>1, <1>2, <1>3, <1>5, <1>6 DEF Recovering, Cancelling

LEMMA WorkerCharge ==
    ASSUME StoreShape, ActorShape, ChargeInv, NEW w \in Workers, Working(w) \/ CrashWorker(w)
    PROVE  ChargeInv'
<1>1. UNCHANGED submit
  BY DEF Working, Reserve, TryAcquireJobLock, Requeue, Ack, Unlock, Pipeline, ReadJob, Poll, Index,
     IndexFailed, IndexDone, ReleaseTerminal, SettleRead, Capture, RecordFailure, Exhaust,
     ExhaustFails, Reread, MarkSettled, CrashWorker, Step
<1>2. \/ UNCHANGED billing \/ CaptureBalance \/ CaptureFails \/ ReleaseBalance \/ ReleaseFails
  BY DEF Working, Reserve, TryAcquireJobLock, Requeue, Ack, Unlock, Pipeline, ReadJob, Poll, Index,
     IndexFailed, IndexDone, ReleaseTerminal, SettleRead, Capture, RecordFailure, Exhaust,
     ExhaustFails, Reread, MarkSettled, CrashWorker
<1>3. /\ claims \subseteq claims' /\ moved \subseteq moved'
      /\ "capture" \in claims' => "capture" \in claims \/ "capture" \in moved'
  BY <1>2, BillingGrows
<1>4. \E to : worker' = [worker EXCEPT ![w] = to] /\ (to = "mark" => "capture" \in claims')
  <2>1. CASE Capture(w)
    BY <2>1 DEF Capture, CaptureError, Step, CaptureBalance, Move, Claim, billing
  <2>2. CASE ReadJob(w) \/ Poll(w) \/ Pipeline(w)
    <3>1. \E to \in {"terminal", "ack", "requeue", "index", "poll", "settle", "provider"} :
             Step(w, worker[w], to)
      BY <2>2 DEF ReadJob, Poll, Pipeline, Step
    <3> QED
      BY <3>1 DEF Step
  <2>3. CASE \/ Reserve(w) \/ TryAcquireJobLock(w) \/ Requeue(w) \/ Ack(w) \/ Unlock(w)
             \/ CrashWorker(w) \/ Index(w) \/ IndexDone(w) \/ IndexFailed(w)
    BY <2>3 DEF Reserve, TryAcquireJobLock, Requeue, Ack, Unlock, Pipeline, CrashWorker, Index,
       IndexDone, IndexFailed, Step
  <2>4. CASE \/ ReleaseTerminal(w) \/ SettleRead(w) \/ RecordFailure(w) \/ Exhaust(w)
             \/ ExhaustFails(w) \/ Reread(w) \/ MarkSettled(w)
    BY <2>4 DEF ReleaseTerminal, SettleRead, RecordFailure, Exhaust,
       ExhaustFails, Reread, MarkSettled, Step
  <2> QED
    BY <2>1, <2>2, <2>3, <2>4 DEF Working
<1>5. \A v \in Workers : worker'[v] = "mark" => worker[v] = "mark" \/ "capture" \in claims'
  BY <1>4 DEF ActorShape
<1>6. /\ job'.named = job.named
      /\ job'.status = "completed" => job.status = "completed" \/ worker[w] = "mark"
  BY WorkerRow
<1>7. worker[w] = "mark" => "capture" \in claims'
  BY <1>3 DEF ChargeInv
<1> QED
  BY <1>1, <1>3, <1>5, <1>6, <1>7, ChargeStep

LEMMA ChargeNext ==
    ASSUME Shape, StatusInv, ChargeInv, [Next]_vars
    PROVE  ChargeInv'
<1>0. StoreShape /\ ActorShape
  BY DEF Shape
<1>1. CASE Submitting \/ TouchSubmitting \/ CrashSubmit
  BY <1>0, <1>1, SubmitCharge
<1>2. CASE \/ \E c \in Clients : CancelRead(c) \/ Resubmit(c) \/ Cancelling(c) \/ CrashClient(c)
           \/ Recovering \/ CrashRecovery
           \/ GoesStale \/ UpstreamEnds \/ AccountEdited \/ LockExpires
           \/ RecoverStaleActive \/ MoveDueDelayed
           \/ \E w \in Workers : HeartbeatsFail(w)
  <2>1. /\ job'.named = job.named
        /\ job'.status = "completed" => job.status = "completed"
        /\ UNCHANGED <<submit, worker>>
        /\ UNCHANGED billing \/ ReleaseBalance \/ ReleaseFails
    BY <1>0, <1>2, OthersRow
  <2>2. /\ claims \subseteq claims' /\ moved \subseteq moved'
        /\ "capture" \in claims' => "capture" \in claims \/ "capture" \in moved'
    BY <2>1, BillingGrows
  <2> QED
    BY <2>1, <2>2, ChargeStep
<1>3. ASSUME NEW w \in Workers, Working(w) \/ CrashWorker(w)
      PROVE  ChargeInv'
  BY <1>0, <1>3, WorkerCharge
<1>4. CASE UNCHANGED vars
  BY <1>4 DEF vars, store, billing, ChargeInv
<1> QED
  BY <1>1, <1>2, <1>3, <1>4 DEF Next, Crash

-----------------------------------------------------------------------------
(* The batch at the provider: who still knows of it.                       *)

Before == {"idle", "reserve", "items", "upload", "provider"}
Past == {"indexing", "settling", "completed"}
Abandoned == lapses \cap {"orphan", "crossed"} # {}

LEMMA UpstreamStep ==
    ASSUME submit' \in Before => upstream' = "none",
           job'.status \in Past => upstream' \in Succeeded,
           \A w \in Workers : worker'[w] \in SeenSuccess => upstream' \in Succeeded,
           upstream' = "live" /\ ~Abandoned' =>
                submit' \in {"persist", "abort"} \/ (job'.named /\ ~GivenUp')
    PROVE  UpstreamInv'
  BY DEF UpstreamInv, Before, Past, Abandoned

LEMMA UpstreamFacts ==
    ASSUME UpstreamInv
    PROVE  /\ submit \in Before => upstream = "none"
           /\ job.status \in Past => upstream \in Succeeded
           /\ \A w \in Workers : worker[w] \in SeenSuccess => upstream \in Succeeded
           /\ upstream = "live" /\ ~Abandoned =>
                submit \in {"persist", "abort"} \/ (job.named /\ ~GivenUp)
           /\ "live" \notin Succeeded /\ "none" \notin Succeeded /\ "cancelled" \notin Succeeded
  BY DEF UpstreamInv, Before, Past, Abandoned, Succeeded

LEMMA SubmitUpstream ==
    ASSUME StoreShape, StatusInv, UpstreamInv, Submitting \/ TouchSubmitting \/ CrashSubmit
    PROVE  UpstreamInv'
<1>0. job \in JobRecord /\ job.status \in Statuses
  BY JobFields DEF StoreShape
<1>1. UNCHANGED worker
  BY DEF Submitting, TouchSubmitting, CrashSubmit, CreateBatchImageJob, ReserveBalance,
     CreatePendingItems, StartUpload, ProviderSubmit, UpdateProviderSubmit, AbortOrphan,
     EnqueueSubmitted, ReleaseSubmitHold, RecordUnreleased, RejectSubmit, SubmitStep
<1>2. CASE CreateBatchImageJob \/ StartUpload
  <2>1. /\ submit \in Before /\ UNCHANGED <<upstream, lapses>>
        /\ SetStatus("created") \/ Transition("uploading") \/ NoTransition("uploading")
    BY <1>2 DEF CreateBatchImageJob, StartUpload, SubmitStep, Before, NoTransition
  <2>2. job'.status \in Past => job.status \in Past
    BY <1>0, <2>1, JobFields, TransitionFields DEF Statuses, Past
  <2> QED
    BY <1>1, <2>1, <2>2, UpstreamFacts, UpstreamStep
<1>3. CASE ReserveBalance \/ CreatePendingItems
  <2>1. submit \in Before /\ UNCHANGED <<upstream, job>>
    BY <1>3 DEF ReserveBalance, CreatePendingItems, SubmitStep, Before
  <2> QED
    BY <1>1, <2>1, UpstreamFacts, UpstreamStep
<1>4. CASE TouchSubmitting
  <2>1. submit \in Before /\ UNCHANGED upstream /\ job' = [job EXCEPT !.stale = FALSE]
    BY <1>4 DEF TouchSubmitting, SubmitStep, Before
  <2>2. job'.status = job.status
    BY <1>0, <2>1, JobFields
  <2> QED
    BY <1>1, <2>1, <2>2, UpstreamFacts, UpstreamStep
<1>5. CASE ProviderSubmit
  <2>1. /\ submit = "provider" /\ submit' \in {"persist", "release"} /\ UNCHANGED job
        /\ upstream' = "live" => submit' = "persist" \/ Abandoned' \/ upstream = "live"
    BY <1>5 DEF ProviderSubmit, SubmitStep, Abandoned, Note
  <2>2. upstream = "none" /\ job.status \notin Past
    BY <2>1, UpstreamFacts DEF Before
  <2>3. \A w \in Workers : worker[w] \notin SeenSuccess
    BY <2>2, UpstreamFacts
  <2> QED
    BY <1>1, <2>1, <2>2, <2>3, UpstreamStep DEF Before
<1>6. CASE UpdateProviderSubmit
  <2>1. /\ submit = "persist" /\ submit' \in {"enqueue", "abort"} /\ UNCHANGED upstream
        /\ UNCHANGED job \/ Submitted
        /\ submit' = "enqueue" => Submitted
    BY <1>6 DEF UpdateProviderSubmit, SubmitStep
  <2>2. /\ job'.status = job.status \/ job'.status = "submitted"
        /\ submit' = "enqueue" => job'.named /\ job'.status = "submitted"
    BY <1>0, <2>1, JobFields
  <2>3. GivenUp' => job'.status \in {"failed", "cancelled"}
    BY DEF GivenUp
  <2> QED
    BY <1>1, <2>1, <2>2, <2>3, UpstreamFacts, UpstreamStep DEF Before, Past
<1>7. CASE AbortOrphan
  <2>1. /\ submit' = "done" /\ UNCHANGED job
        /\ upstream' = upstream \/ (upstream = "live" /\ upstream' = "cancelled")
        /\ upstream' = "live" => Abandoned'
    BY <1>7 DEF AbortOrphan, SubmitStep, Abandoned, Note, CancelUpstream
  <2> QED
    BY <1>1, <2>1, UpstreamFacts, UpstreamStep DEF Before
<1>8. CASE RecordUnreleased \/ RejectSubmit
  <2>1. /\ submit \in {"unreleased", "reject"} /\ submit' \in {"retry", "done"} /\ UNCHANGED upstream
        /\ UNCHANGED lapses
    BY <1>8 DEF RecordUnreleased, RejectSubmit, SubmitStep
  <2>2. StatusInv' /\ Ended
    BY SubmitStatus
  <2>3. ~job.named /\ (upstream = "live" => Abandoned)
    BY <2>1, UpstreamFacts DEF StatusInv, Unsubmitted
  <2>4. job'.status \notin Past
    <3>1. CASE SetStatus("failed") \/ UNCHANGED job
      BY <1>0, <2>3, <3>1, JobFields DEF Past, Statuses, Terminal, StatusInv
    <3>2. CASE job' = [job EXCEPT !.status = "failed", !.stale = FALSE, !.hidden = TRUE]
      BY <1>0, <3>2 DEF JobRecord, Past
    <3>3. CASE job' = [job EXCEPT !.hidden = @ \/ job.status \in Terminal]
      <4> DEFINE h == job.hidden \/ job.status \in Terminal
      <4>1. job' = [job EXCEPT !.hidden = h]
        BY <3>3
      <4> HIDE DEF h
      <4>2. job'.status = job.status
        BY <1>0, <4>1 DEF JobRecord
      <4> QED
        BY <2>3, <4>2 DEF Past, StatusInv
    <3> QED
      BY <1>8, <3>1, <3>2, <3>3 DEF RecordUnreleased, RejectSubmit
  <2>5. Abandoned' <=> Abandoned
    BY <2>1 DEF Abandoned
  <2> QED
    BY <1>1, <2>1, <2>3, <2>4, <2>5, UpstreamFacts, UpstreamStep DEF Before
<1>9. CASE EnqueueSubmitted \/ ReleaseSubmitHold \/ CrashSubmit
  <2>1. /\ submit' \notin Before \cup {"persist", "abort"} /\ UNCHANGED <<job, upstream>>
        /\ submit \in {"persist", "abort"} => Abandoned'
        /\ Abandoned => Abandoned'
    BY <1>9 DEF EnqueueSubmitted, ReleaseSubmitHold, CrashSubmit, SubmitStep, Before, Abandoned, Note,
       EnqueueOr
  <2>2. GivenUp' <=> GivenUp
    BY <2>1 DEF GivenUp
  <2> QED
    BY <1>1, <2>1, <2>2, UpstreamFacts, UpstreamStep
<1> QED
  BY <1>2, <1>3, <1>4, <1>5, <1>6, <1>7, <1>8, <1>9 DEF Submitting

LEMMA OthersUpstream ==
    ASSUME StoreShape, StatusInv, UpstreamInv,
           \/ \E c \in Clients : CancelRead(c) \/ Resubmit(c) \/ Cancelling(c) \/ CrashClient(c)
           \/ Recovering \/ CrashRecovery
           \/ GoesStale \/ UpstreamEnds \/ AccountEdited \/ LockExpires
           \/ RecoverStaleActive \/ MoveDueDelayed
           \/ \E w \in Workers : HeartbeatsFail(w)
    PROVE  UpstreamInv'
<1>1. /\ job'.named = job.named
      /\ \/ job'.status = job.status
         \/ /\ \E c \in Clients : CancelTransition(c)
            /\ CanTransition(job.status, "cancelled") /\ job'.status = "cancelled"
         \/ /\ job.status \in {"created", "uploading"} /\ ~job.named /\ job'.status = "failed"
            /\ FailStale
      /\ UNCHANGED <<submit, worker>>
  BY OthersRow
<1>2. \/ upstream' = upstream
      \/ upstream = "live" /\ upstream' \in {"cancelled", "failed"} \cup Succeeded
  BY DEF CancelRead, Resubmit, Cancelling, CancelProvider, ClientEnqueue, CancelTransition,
     CancelRelease, CancelRetry, CrashClient, CancelUpstream, Recovering, CrashRecovery, ListStale,
     FailStale, RecoveryRelease, RecoveryRetry, GoesStale, UpstreamEnds, AccountEdited, LockExpires,
     RecoverStaleActive, MoveDueDelayed, HeartbeatsFail
<1>3. Abandoned => Abandoned'
  BY DEF CancelRead, Resubmit, Cancelling, CancelProvider, ClientEnqueue, CancelTransition,
     CancelRelease, CancelRetry, CrashClient, CancelUpstream, Recovering, CrashRecovery, ListStale,
     FailStale, RecoveryRelease, RecoveryRetry, GoesStale, UpstreamEnds, AccountEdited, LockExpires,
     RecoverStaleActive, MoveDueDelayed, HeartbeatsFail, EnqueueOr, Note, NoteIf, Abandoned
<1>4. job.named /\ job'.status # job.status => Abandoned'
  <2>1. ASSUME NEW c \in Clients, CancelTransition(c), job.named, job' # job
        PROVE  Abandoned'
    <3>1. Note(Crossing) \/ Note({"untracked"} \cup Crossing)
      BY <2>1 DEF CancelTransition, TransitionRefused
    <3> QED
      BY <2>1, <3>1 DEF Note, Crossing, Abandoned
  <2> QED
    BY <1>1, <2>1
<1>5. job'.status \in Past => job.status \in Past
  BY <1>1 DEF Past
<1>6. GivenUp' => GivenUp \/ job'.status # job.status
  BY DEF GivenUp
<1> QED
  BY <1>1, <1>2, <1>3, <1>4, <1>5, <1>6, UpstreamFacts, UpstreamStep

LEMMA WorkerUpstream ==
    ASSUME StoreShape, ActorShape, UpstreamInv, NEW w \in Workers, Working(w) \/ CrashWorker(w)
    PROVE  UpstreamInv'
<1>0. job \in JobRecord /\ job.status \in Statuses
  BY JobFields DEF StoreShape
<1>1. UNCHANGED <<submit, upstream>> /\ lapses \subseteq lapses'
  BY DEF Working, Reserve, TryAcquireJobLock, Requeue, Ack, Unlock, Pipeline, ReadJob, Poll, Index,
     IndexFailed, IndexDone, ReleaseTerminal, SettleRead, Capture, RecordFailure, Exhaust,
     ExhaustFails, Reread, MarkSettled, CrashWorker, Step, Note, NoteIf
<1>2. Abandoned => Abandoned'
  BY <1>1 DEF Abandoned
<1>3. /\ job'.named = job.named
      /\ job'.status \in Past => job.status \in Past \/ upstream \in Succeeded
      /\ GivenUp' => GivenUp \/ upstream # "live"
  <2>1. CASE Poll(w)
    <3>1. \/ UNCHANGED job
          \/ upstream \in Succeeded /\ (Transition("indexing") \/ NoTransition("indexing"))
          \/ Transition("running") \/ NoTransition("running")
          \/ upstream = "failed" /\ (Transition("failed") \/ NoTransition("failed"))
          \/ upstream = "cancelled" /\ (Transition("cancelled") \/ NoTransition("cancelled"))
      BY <2>1 DEF Poll
    <3> QED
      BY <1>0, <3>1, TransitionFields DEF Statuses, Terminal, Past, GivenUp, Succeeded
  <2>2. CASE IndexFailed(w) \/ ExhaustFails(w) \/ IndexDone(w)
    <3>1. /\ worker[w] \in SeenSuccess
          /\ \/ Transition("failed") \/ NoTransition("failed")
             \/ Transition("settling") \/ NoTransition("settling")
      BY <2>2 DEF IndexFailed, ExhaustFails, IndexDone, Step, SeenSuccess
    <3>2. upstream \in Succeeded /\ upstream # "live"
      BY <3>1, UpstreamFacts
    <3>3. job'.named = job.named
      BY <1>0, <3>1, TransitionFields DEF Statuses, Terminal
    <3> QED
      BY <3>2, <3>3
  <2>3. CASE MarkSettled(w)
    <3>1. UNCHANGED job \/ (job.status = "settling" /\ SetStatus("completed"))
      BY <2>3 DEF MarkSettled
    <3> QED
      BY <1>0, <3>1, JobFields DEF Statuses, Terminal, Past, GivenUp
  <2>4. CASE RecordFailure(w)
    <3>1. UNCHANGED job \/ CountFailure
      BY <2>4 DEF RecordFailure
    <3> QED
      BY <1>0, <3>1, JobFields DEF GivenUp
  <2>5. CASE \/ Reserve(w) \/ TryAcquireJobLock(w) \/ Requeue(w) \/ Ack(w) \/ Unlock(w) \/ Pipeline(w)
           \/ ReadJob(w) \/ Index(w) \/ SettleRead(w) \/ Reread(w) \/ CrashWorker(w)
           \/ Capture(w) \/ Exhaust(w) \/ ReleaseTerminal(w)
    <3>1. UNCHANGED job
      BY <2>5 DEF Reserve, TryAcquireJobLock, Requeue, Ack, Unlock, Pipeline, ReadJob, Index,
         SettleRead, Reread, CrashWorker, Capture, Exhaust, ReleaseTerminal
    <3> QED
      BY <3>1 DEF GivenUp
  <2> QED
    BY <2>1, <2>2, <2>3, <2>4, <2>5 DEF Working
<1>4. \E to : /\ worker' = [worker EXCEPT ![w] = to]
              /\ to \in SeenSuccess => \/ worker[w] \in SeenSuccess \/ upstream \in Succeeded
                                       \/ job.status \in Past
  <2>1. CASE ReadJob(w)
    <3>1. \/ Step(w, "provider", "index") /\ job.status = "indexing"
          \/ \E to \in {"terminal", "ack", "requeue", "poll"} : Step(w, "provider", to)
      BY <2>1 DEF ReadJob
    <3> QED
      BY <3>1 DEF Step, SeenSuccess, Past
  <2>2. CASE Poll(w)
    BY <2>2 DEF Poll, Step, SeenSuccess
  <2>3. CASE \/ Reserve(w) \/ TryAcquireJobLock(w) \/ Requeue(w) \/ Ack(w) \/ Unlock(w) \/ Pipeline(w)
             \/ CrashWorker(w) \/ ReleaseTerminal(w) \/ Reread(w)
    BY <2>3 DEF Reserve, TryAcquireJobLock, Requeue, Ack, Unlock, Pipeline, CrashWorker,
       ReleaseTerminal, Reread, Step, SeenSuccess, Past
  <2>4. CASE \/ Index(w) \/ IndexDone(w) \/ IndexFailed(w) \/ SettleRead(w) \/ Capture(w)
             \/ RecordFailure(w) \/ Exhaust(w) \/ ExhaustFails(w) \/ MarkSettled(w)
    <3>1. worker[w] \in SeenSuccess /\ \E to : worker' = [worker EXCEPT ![w] = to]
      BY <2>4 DEF Index, IndexDone, IndexFailed, SettleRead, Capture, RecordFailure, Exhaust,
         ExhaustFails, MarkSettled, Step, SeenSuccess
    <3> QED
      BY <3>1
  <2> QED
    BY <2>1, <2>2, <2>3, <2>4 DEF Working
<1>5. \A v \in Workers : worker'[v] \in SeenSuccess => upstream' \in Succeeded
  BY <1>1, <1>4, UpstreamFacts DEF ActorShape
<1> QED
  BY <1>1, <1>2, <1>3, <1>5, UpstreamFacts, UpstreamStep

LEMMA UpstreamNext ==
    ASSUME Shape, StatusInv, UpstreamInv, [Next]_vars
    PROVE  UpstreamInv'
<1>0. StoreShape /\ ActorShape
  BY DEF Shape
<1>1. CASE Submitting \/ TouchSubmitting \/ CrashSubmit
  BY <1>0, <1>1, SubmitUpstream
<1>2. CASE \/ \E c \in Clients : CancelRead(c) \/ Resubmit(c) \/ Cancelling(c) \/ CrashClient(c)
           \/ Recovering \/ CrashRecovery
           \/ GoesStale \/ UpstreamEnds \/ AccountEdited \/ LockExpires
           \/ RecoverStaleActive \/ MoveDueDelayed
           \/ \E w \in Workers : HeartbeatsFail(w)
  BY <1>0, <1>2, OthersUpstream
<1>3. ASSUME NEW w \in Workers, Working(w) \/ CrashWorker(w)
      PROVE  UpstreamInv'
  BY <1>0, <1>3, WorkerUpstream
<1>4. CASE UNCHANGED vars
  BY <1>4 DEF vars, store, UpstreamInv, GivenUp
<1> QED
  BY <1>1, <1>2, <1>3, <1>4 DEF Next, Crash

-----------------------------------------------------------------------------
(* Capture and release.                                                    *)

Lapsed == lapses \cap {"doubt", "late"} # {}
Closing == {"reject", "unreleased", "retry", "done"}

LEMMA SettledFacts ==
    ASSUME SettledInv, ~Lapsed
    PROVE  /\ "release" \in claims =>
                \/ GivenUp \/ (~job.named /\ submit \in Closing)
                \/ (job.status = "settling" /\ Exhausted)
           /\ \A w \in Workers : worker[w] \notin Unlocked => lock = w /\ Knows(w)
           /\ "capture" \in claims =>
                /\ job.status \in {"settling", "completed"} /\ ~Exhausted
                /\ upstream # "unusable" /\ "release" \notin claims
  BY DEF SettledInv, Lapsed, Closing

LEMMA SettledStep ==
    ASSUME ~Lapsed' =>
             /\ "release" \in claims' =>
                  \/ GivenUp' \/ (~job'.named /\ submit' \in Closing)
                  \/ (job'.status = "settling" /\ Exhausted')
             /\ \A w \in Workers : worker'[w] \notin Unlocked => lock' = w /\ Knows(w)'
             /\ "capture" \in claims' =>
                  /\ job'.status \in {"settling", "completed"} /\ ~Exhausted'
                  /\ upstream' # "unusable" /\ "release" \notin claims'
    PROVE  SettledInv'
<1>1. ("release" \in claims =>
         \/ GivenUp
         \/ ~job.named /\ submit \in {"reject", "unreleased", "retry", "done"}
         \/ job.status = "settling" /\ Exhausted
         \/ lapses \cap {"doubt", "late"} # {})'
  BY DEF Lapsed, Closing
<1>2. (lapses \cap {"doubt", "late"} = {} =>
         /\ \A w \in Workers : worker[w] \notin Unlocked => lock = w /\ Knows(w)
         /\ "capture" \in claims =>
              /\ job.status \in {"settling", "completed"} /\ ~Exhausted
              /\ upstream # "unusable" /\ "release" \notin claims)'
  BY DEF Lapsed
<1> QED
  BY <1>1, <1>2 DEF SettledInv

LEMMA ExhaustedStays ==
    ASSUME job'.retries = job.retries
    PROVE  Exhausted' <=> Exhausted
  BY DEF Exhausted

\* A step of anyone but a worker.
LEMMA SettledAround ==
    ASSUME StatusInv, UpstreamInv, SettledInv, Lapsed => Lapsed', UNCHANGED worker,
           ~Lapsed' => \A w \in Workers : worker[w] \notin Unlocked /\ lock = w => lock' = w,
           job'.retries = job.retries, GivenUp => GivenUp',
           job.status \in {"settling", "completed"} => job'.status = job.status,
           job'.status \in {"settling", "completed"} => job'.status = job.status,
           upstream \in Succeeded => upstream' = upstream,
           "capture" \in claims' => "capture" \in claims,
           "release" \in claims' => \/ "release" \in claims \/ GivenUp
                                    \/ (~job.named /\ ~job'.named /\ submit' \in Closing),
           ~job.named /\ submit \in Closing => ~job'.named /\ submit' \in Closing
    PROVE  SettledInv'
<1> SUFFICES ASSUME ~Lapsed'
             PROVE  /\ "release" \in claims' =>
                         \/ GivenUp' \/ (~job'.named /\ submit' \in Closing)
                         \/ (job'.status = "settling" /\ Exhausted')
                    /\ \A w \in Workers : worker'[w] \notin Unlocked => lock' = w /\ Knows(w)'
                    /\ "capture" \in claims' =>
                         /\ job'.status \in {"settling", "completed"} /\ ~Exhausted'
                         /\ upstream' # "unusable" /\ "release" \notin claims'
  BY SettledStep
<1>1. /\ "release" \in claims =>
           \/ GivenUp \/ (~job.named /\ submit \in Closing)
           \/ (job.status = "settling" /\ Exhausted)
      /\ \A w \in Workers : worker[w] \notin Unlocked => lock = w /\ Knows(w)
      /\ "capture" \in claims =>
           /\ job.status \in {"settling", "completed"} /\ ~Exhausted
           /\ upstream # "unusable" /\ "release" \notin claims
  BY SettledFacts
<1>2. Exhausted' <=> Exhausted
  BY ExhaustedStays
<1>3. job.status \in {"settling", "completed"} => upstream' = upstream
  BY DEF UpstreamInv
<1>4. "release" \in claims' =>
         \/ GivenUp' \/ (~job'.named /\ submit' \in Closing)
         \/ (job'.status = "settling" /\ Exhausted')
  BY <1>1, <1>2
<1>5. ASSUME NEW w \in Workers, worker'[w] \notin Unlocked
      PROVE  lock' = w /\ Knows(w)'
  <2>1. worker[w] = worker'[w] /\ worker[w] \notin Unlocked
    BY <1>5
  <2>2. lock = w /\ lock' = w
    BY <1>1, <2>1
  <2>3. Knows(w)
    BY <1>1, <2>1
  <2> QED
    BY <1>2, <1>3, <2>1, <2>2, <2>3 DEF Knows
<1>6. ASSUME "capture" \in claims'
      PROVE  /\ job'.status \in {"settling", "completed"} /\ ~Exhausted'
             /\ upstream' # "unusable" /\ "release" \notin claims'
  <2>1. /\ job.status \in {"settling", "completed"} /\ ~Exhausted
        /\ upstream # "unusable" /\ "release" \notin claims
    BY <1>1, <1>6
  <2>2. ~GivenUp /\ job.named
    BY <2>1 DEF GivenUp, StatusInv
  <2> QED
    BY <1>2, <1>3, <2>1, <2>2
<1> QED
  BY <1>4, <1>5, <1>6

\* What a hold's return or a failed attempt at it claims.
LEMMA ReleaseClaims ==
    ASSUME UNCHANGED billing \/ ReleaseBalance \/ ReleaseFails \/ Move("hold")
    PROVE  /\ "capture" \in claims' => "capture" \in claims
           /\ UNCHANGED billing \/ Move("hold") => ("release" \in claims' => "release" \in claims)
<1>1. \/ UNCHANGED claims \/ Claim("release") \/ Claim("hold")
  BY DEF ReleaseBalance, ReleaseFails, Move, billing
<1>2. UNCHANGED billing \/ Move("hold") => UNCHANGED claims \/ Claim("hold")
  BY DEF Move, billing
<1> QED
  BY <1>1, <1>2 DEF Claim

LEMMA SubmitSettled ==
    ASSUME StoreShape, StatusInv, UpstreamInv, SettledInv, Submitting \/ TouchSubmitting \/ CrashSubmit
    PROVE  SettledInv'
<1>0. job \in JobRecord /\ job.status \in Statuses
  BY JobFields DEF StoreShape
<1>1. UNCHANGED <<worker, lock>>
  BY DEF Submitting, TouchSubmitting, CrashSubmit, CreateBatchImageJob, ReserveBalance,
     CreatePendingItems, StartUpload, ProviderSubmit, UpdateProviderSubmit, AbortOrphan,
     EnqueueSubmitted, ReleaseSubmitHold, RecordUnreleased, RejectSubmit, SubmitStep
<1>2. Lapsed => Lapsed'
  BY DEF Submitting, TouchSubmitting, CrashSubmit, CreateBatchImageJob, ReserveBalance,
     CreatePendingItems, StartUpload, ProviderSubmit, UpdateProviderSubmit, AbortOrphan,
     EnqueueSubmitted, ReleaseSubmitHold, RecordUnreleased, RejectSubmit, EnqueueOr, Note, NoteIf,
     Lapsed
<1>3. \/ UNCHANGED billing \/ Move("hold")
      \/ /\ ReleaseBalance \/ ReleaseFails
         /\ submit \in {"release", "releaseOnly"} /\ submit' \in Closing /\ UNCHANGED job
  BY DEF Submitting, TouchSubmitting, CrashSubmit, CreateBatchImageJob, ReserveBalance,
     CreatePendingItems, StartUpload, ProviderSubmit, UpdateProviderSubmit, AbortOrphan,
     EnqueueSubmitted, ReleaseSubmitHold, RecordUnreleased, RejectSubmit, SubmitStep, Closing
<1>4. /\ "capture" \in claims' => "capture" \in claims
      /\ "release" \in claims' => \/ "release" \in claims
                                  \/ (~job.named /\ ~job'.named /\ submit' \in Closing)
  BY <1>3, ReleaseClaims DEF StatusInv, Unsubmitted
<1>5. submit \in Closing => submit' \in Closing
  BY DEF Submitting, TouchSubmitting, CrashSubmit, CreateBatchImageJob, ReserveBalance,
     CreatePendingItems, StartUpload, ProviderSubmit, UpdateProviderSubmit, AbortOrphan,
     EnqueueSubmitted, ReleaseSubmitHold, RecordUnreleased, RejectSubmit, SubmitStep, Closing
<1>6. upstream' = upstream \/ upstream \in {"none", "live"}
  <2>1. upstream' = upstream \/ submit = "provider" \/ upstream = "live"
    BY DEF Submitting, TouchSubmitting, CrashSubmit, CreateBatchImageJob, ReserveBalance,
       CreatePendingItems, StartUpload, ProviderSubmit, UpdateProviderSubmit, AbortOrphan,
       EnqueueSubmitted, ReleaseSubmitHold, RecordUnreleased, RejectSubmit, SubmitStep, CancelUpstream
  <2> QED
    BY <2>1 DEF UpstreamInv
<1>7. StatusInv' /\ Ended
  BY SubmitStatus
<1>8. /\ job'.retries = job.retries
      /\ job'.named => job.named \/ submit = "persist"
      /\ \/ job'.status = job.status
         \/ job'.status \in {"created", "uploading", "submitted"} /\ submit \in Unsubmitted
         \/ job'.status = "failed" /\ submit \in Unsubmitted
  <2>1. CASE CreateBatchImageJob \/ RecordUnreleased
    <3>1. /\ SetStatus("created") \/ SetStatus("failed") \/ UNCHANGED job
          /\ submit \in Unsubmitted
      BY <2>1 DEF CreateBatchImageJob, RecordUnreleased, SubmitStep, Unsubmitted
    <3> QED
      BY <1>0, <3>1, JobFields DEF Statuses, Terminal
  <2>2. CASE StartUpload
    <3>1. (Transition("uploading") \/ NoTransition("uploading")) /\ submit \in Unsubmitted
      BY <2>2 DEF StartUpload, NoTransition, SubmitStep, Unsubmitted
    <3> QED
      BY <1>0, <3>1, TransitionFields DEF Statuses
  <2>3. CASE UpdateProviderSubmit
    <3>1. submit = "persist" /\ (Submitted \/ UNCHANGED job) /\ submit \in Unsubmitted
      BY <2>3 DEF UpdateProviderSubmit, SubmitStep, Unsubmitted
    <3> QED
      BY <1>0, <3>1, JobFields
  <2>4. CASE RejectSubmit
    <3>1. /\ submit \in Unsubmitted
          /\ \/ SetStatus("failed")
             \/ job' = [job EXCEPT !.status = "failed", !.stale = FALSE, !.hidden = TRUE]
             \/ job' = [job EXCEPT !.hidden = @ \/ job.status \in Terminal]
      BY <2>4 DEF RejectSubmit, SubmitStep, Unsubmitted
    <3>2. CASE SetStatus("failed")
      BY <1>0, <3>1, <3>2, JobFields DEF Statuses, Terminal
    <3>3. CASE job' = [job EXCEPT !.status = "failed", !.stale = FALSE, !.hidden = TRUE]
      BY <1>0, <3>1, <3>3 DEF JobRecord
    <3>4. CASE job' = [job EXCEPT !.hidden = @ \/ job.status \in Terminal]
      <4> DEFINE h == job.hidden \/ job.status \in Terminal
      <4>1. job' = [job EXCEPT !.hidden = h]
        BY <3>4
      <4> HIDE DEF h
      <4> QED
        BY <1>0, <4>1 DEF JobRecord
    <3> QED
      BY <3>1, <3>2, <3>3, <3>4
  <2>5. CASE TouchSubmitting
    <3>1. job' = [job EXCEPT !.stale = FALSE]
      BY <2>5 DEF TouchSubmitting
    <3> QED
      BY <1>0, <3>1, JobFields
  <2>6. CASE \/ ReserveBalance \/ CreatePendingItems \/ ProviderSubmit \/ AbortOrphan
             \/ EnqueueSubmitted \/ ReleaseSubmitHold \/ CrashSubmit
    <3>1. UNCHANGED job
      BY <2>6 DEF ReserveBalance, CreatePendingItems, ProviderSubmit, AbortOrphan,
         EnqueueSubmitted, ReleaseSubmitHold, CrashSubmit
    <3> QED
      BY <3>1
  <2> QED
    BY <2>1, <2>2, <2>3, <2>4, <2>5, <2>6 DEF Submitting
<1>9. /\ GivenUp => GivenUp'
      /\ job.status \in {"settling", "completed"} => job'.status = job.status
      /\ job'.status \in {"settling", "completed"} => job'.status = job.status
      /\ ~job.named /\ submit \in Closing => ~job'.named /\ submit' \in Closing
      /\ upstream \in Succeeded => upstream' = upstream
  <2>1. submit \in Unsubmitted => job.status \notin {"settling", "completed"}
    BY DEF StatusInv
  <2> QED
    BY <1>5, <1>6, <1>7, <1>8, <2>1 DEF Ended, GivenUp, Closing, Succeeded
<1> QED
  BY <1>1, <1>2, <1>4, <1>8, <1>9, SettledAround

LEMMA OthersSettled ==
    ASSUME StoreShape, StatusInv, UpstreamInv, SettledInv,
           \/ \E c \in Clients : CancelRead(c) \/ Resubmit(c) \/ Cancelling(c) \/ CrashClient(c)
           \/ Recovering \/ CrashRecovery
           \/ GoesStale \/ UpstreamEnds \/ AccountEdited \/ LockExpires
           \/ RecoverStaleActive \/ MoveDueDelayed
           \/ \E w \in Workers : HeartbeatsFail(w)
    PROVE  SettledInv'
<1>1. /\ job'.named = job.named /\ job'.retries = job.retries
      /\ \/ job'.status = job.status
         \/ CanTransition(job.status, "cancelled") /\ job'.status = "cancelled"
         \/ job.status \in {"created", "uploading"} /\ job'.status = "failed"
      /\ UNCHANGED <<submit, worker>>
      /\ UNCHANGED billing \/ ReleaseBalance \/ ReleaseFails
      /\ ~UNCHANGED billing =>
           (\E c \in Clients : client[c] = "release") \/ recovery = "release"
  BY OthersRow
<1>2. upstream' = upstream \/ upstream = "live"
  BY DEF CancelRead, Resubmit, Cancelling, CancelProvider, ClientEnqueue, CancelTransition,
     CancelRelease, CancelRetry, CrashClient, CancelUpstream, Recovering, CrashRecovery, ListStale,
     FailStale, RecoveryRelease, RecoveryRetry, GoesStale, UpstreamEnds, AccountEdited, LockExpires,
     RecoverStaleActive, MoveDueDelayed, HeartbeatsFail
<1>3. Lapsed => Lapsed'
  BY DEF CancelRead, Resubmit, Cancelling, CancelProvider, ClientEnqueue, CancelTransition,
     CancelRelease, CancelRetry, CrashClient, CancelUpstream, Recovering, CrashRecovery, ListStale,
     FailStale, RecoveryRelease, RecoveryRetry, GoesStale, UpstreamEnds, AccountEdited, LockExpires,
     RecoverStaleActive, MoveDueDelayed, HeartbeatsFail, EnqueueOr, Note, NoteIf, Lapsed
<1>4. ~Lapsed' => \A w \in Workers : worker[w] \notin Unlocked /\ lock = w => lock' = w
  <2>1. CASE \E w \in Workers : HeartbeatsFail(w)
    BY <2>1 DEF HeartbeatsFail, Note, Lapsed
  <2>2. CASE LockExpires
    BY <2>2 DEF LockExpires
  <2>3. CASE \/ \E c \in Clients : CancelRead(c) \/ Resubmit(c) \/ Cancelling(c) \/ CrashClient(c)
             \/ Recovering \/ CrashRecovery
             \/ GoesStale \/ UpstreamEnds \/ AccountEdited \/ RecoverStaleActive \/ MoveDueDelayed
    <3>1. UNCHANGED lock
      BY <2>3 DEF CancelRead, Resubmit, Cancelling, CancelProvider, ClientEnqueue, CancelTransition,
         CancelRelease, CancelRetry, CrashClient, Recovering, CrashRecovery, ListStale,
         FailStale, RecoveryRelease, RecoveryRetry, GoesStale, UpstreamEnds, AccountEdited,
         RecoverStaleActive, MoveDueDelayed, ClientStep, RecoveryStep
    <3> QED
      BY <3>1
  <2> QED
    BY <2>1, <2>2, <2>3
<1>5. ~UNCHANGED billing => GivenUp
  BY <1>1 DEF StatusInv
<1>6. /\ "capture" \in claims' => "capture" \in claims
      /\ "release" \in claims' => "release" \in claims \/ GivenUp
  BY <1>1, <1>5, ReleaseClaims
<1>7. /\ GivenUp => GivenUp'
      /\ job.status \in {"settling", "completed"} => job'.status = job.status
      /\ job'.status \in {"settling", "completed"} => job'.status = job.status
      /\ upstream \in Succeeded => upstream' = upstream
  BY <1>1, <1>2 DEF GivenUp, CanTransition, Terminal, Succeeded
<1> QED
  BY <1>1, <1>3, <1>4, <1>6, <1>7, SettledAround

\* What the claims say of the job when no worker has lost its leases.
Apart ==
    /\ "release" \in claims =>
         \/ GivenUp \/ (~job.named /\ submit \in Closing)
         \/ (job.status = "settling" /\ Exhausted)
    /\ "capture" \in claims =>
         /\ job.status \in {"settling", "completed"} /\ ~Exhausted
         /\ upstream # "unusable" /\ "release" \notin claims

\* A step of the worker that has the lock: no other worker is past it.
LEMMA SettledHolder ==
    ASSUME ActorShape, SettledInv, NEW w \in Workers, worker[w] \notin Unlocked,
           NEW to, worker' = [worker EXCEPT ![w] = to], Lapsed => Lapsed',
           ~Lapsed' /\ lock = w /\ Knows(w) /\ Apart =>
                Apart' /\ (to \notin Unlocked => lock' = w /\ Knows(w)')
    PROVE  SettledInv'
<1> SUFFICES ASSUME ~Lapsed'
             PROVE  Apart' /\ \A v \in Workers : worker'[v] \notin Unlocked => lock' = v /\ Knows(v)'
  BY SettledStep DEF Apart
<1>1. Apart /\ \A v \in Workers : worker[v] \notin Unlocked => lock = v /\ Knows(v)
  BY SettledFacts DEF Apart
<1>2. lock = w /\ Knows(w) /\ \A v \in Workers : worker[v] \notin Unlocked => v = w
  BY <1>1
<1>3. Apart' /\ (to \notin Unlocked => lock' = w /\ Knows(w)')
  BY <1>1, <1>2
<1>4. \A v \in Workers : worker'[v] = IF v = w THEN to ELSE worker[v]
  BY DEF ActorShape
<1> QED
  BY <1>2, <1>3, <1>4

\* A step of a worker without the lock, which it may get.
LEMMA SettledOutside ==
    ASSUME StoreShape, ActorShape, SettledInv, NEW w \in Workers,
           Reserve(w) \/ TryAcquireJobLock(w) \/ (worker[w] \in Unlocked /\ (Requeue(w) \/ CrashWorker(w)))
    PROVE  SettledInv'
<1>1. UNCHANGED <<job, billing, upstream, lapses, submit>>
  BY DEF Reserve, TryAcquireJobLock, Requeue, CrashWorker, Step
<1>2. Lapsed' <=> Lapsed
  BY <1>1 DEF Lapsed
<1> SUFFICES ASSUME ~Lapsed'
             PROVE  Apart' /\ \A v \in Workers : worker'[v] \notin Unlocked => lock' = v /\ Knows(v)'
  BY SettledStep DEF Apart
<1>3. Apart /\ \A v \in Workers : worker[v] \notin Unlocked => lock = v /\ Knows(v)
  BY <1>2, SettledFacts DEF Apart
<1>4. Apart'
  BY <1>1, <1>3 DEF Apart, GivenUp, Exhausted, billing
<1>5. \E to \in Unlocked \cup {"pipeline"} :
        /\ worker' = [worker EXCEPT ![w] = to] /\ worker[w] \in Unlocked
        /\ to = "pipeline" => lock' = w
  BY DEF Reserve, TryAcquireJobLock, Requeue, CrashWorker, Step, Unlocked
<1>6. lock # Nobody => lock' = lock
  BY DEF Reserve, TryAcquireJobLock, Requeue, CrashWorker
<1>7. PICK to \in Unlocked \cup {"pipeline"} :
        /\ worker' = [worker EXCEPT ![w] = to] /\ worker[w] \in Unlocked
        /\ to = "pipeline" => lock' = w
  BY <1>5
<1>8. \A v \in Workers : worker'[v] = IF v = w THEN to ELSE worker[v]
  BY <1>7 DEF ActorShape
<1>9. ASSUME NEW v \in Workers, worker'[v] \notin Unlocked
      PROVE  lock' = v /\ Knows(v)'
  <2>1. CASE v = w
    <3>1. worker'[w] = "pipeline" /\ lock' = w
      BY <1>7, <1>8, <1>9, <2>1
    <3> QED
      BY <2>1, <3>1 DEF Knows
  <2>2. CASE v # w
    <3>1. worker'[v] = worker[v] /\ lock = v /\ Knows(v)
      BY <1>3, <1>8, <1>9, <2>2
    <3>2. lock' = v
      BY <1>6, <3>1, ConstantsAssumption
    <3> QED
      BY <1>1, <3>1, <3>2 DEF Knows, Exhausted, billing
  <2> QED
    BY <2>1, <2>2
<1> QED
  BY <1>4, <1>9

\* The steps that leave the job, the claims and the lock alone.
LEMMA SettledReading ==
    ASSUME StoreShape, ActorShape, SettledInv, NEW w \in Workers,
           \/ Pipeline(w) \/ ReadJob(w) \/ Index(w) \/ SettleRead(w) \/ Reread(w) \/ Ack(w)
           \/ (worker[w] \notin Unlocked /\ (Requeue(w) \/ CrashWorker(w)))
    PROVE  SettledInv'
<1>1. UNCHANGED <<job, billing, upstream, lock, submit>> /\ lapses \subseteq lapses'
  BY DEF Pipeline, ReadJob, Index, SettleRead, Reread, Ack, Requeue, CrashWorker, Step, Note, NoteIf
<1>2. Lapsed => Lapsed'
  BY <1>1 DEF Lapsed
<1>3. worker[w] \notin Unlocked
  BY DEF Pipeline, ReadJob, Index, SettleRead, Reread, Ack, Requeue, CrashWorker, Step, Unlocked
<1>4. Apart => Apart'
  BY <1>1 DEF Apart, GivenUp, Exhausted, billing
<1> DEFINE Told(to) ==
      /\ to \in {"poll", "index", "indexed", "unindexed"} =>
           job.status \notin {"settling", "completed"}
      /\ to \in {"capture", "mark", "recordFailure", "exhaust", "toFailed"} =>
           job.status = "settling"
      /\ to \in {"capture", "mark"} => ~Exhausted /\ upstream # "unusable"
      /\ to \in {"recordFailure", "exhaust", "toFailed"} => "capture" \notin claims
      /\ to \in {"exhaust", "toFailed"} => Exhausted
<1>5. ASSUME NEW to, worker' = [worker EXCEPT ![w] = to], Knows(w) /\ Apart => Told(to)
      PROVE  SettledInv'
  <2>1. worker'[w] = to
    BY <1>5 DEF ActorShape
  <2>2. Exhausted' <=> Exhausted
    BY <1>1 DEF Exhausted
  <2>3. Told(to) => Knows(w)'
    BY <1>1, <2>1, <2>2 DEF Knows, billing
  <2>4. ~Lapsed' /\ lock = w /\ Knows(w) /\ Apart =>
           Apart' /\ (to \notin Unlocked => lock' = w /\ Knows(w)')
    BY <1>1, <1>4, <1>5, <2>3
  <2> QED
    BY <1>2, <1>3, <1>5, <2>4, SettledHolder
<1>6. \E to : worker' = [worker EXCEPT ![w] = to] /\ (Knows(w) /\ Apart => Told(to))
  <2>1. CASE Pipeline(w) \/ Reread(w) \/ Ack(w) \/ Requeue(w) \/ CrashWorker(w)
    <3>1. \E to \in {"settle", "provider", "ack", "requeue", "unlock", "idle"} :
             worker' = [worker EXCEPT ![w] = to]
      BY <2>1 DEF Pipeline, Reread, Ack, Requeue, CrashWorker, Step
    <3> QED
      BY <3>1
  <2>2. CASE ReadJob(w)
    <3>1. \/ Step(w, "provider", "index") /\ job.status = "indexing"
          \/ Step(w, "provider", "poll") /\ job.status \notin {"completed", "settling"}
          \/ \E to \in {"terminal", "ack", "requeue"} : Step(w, "provider", to)
      BY <2>2 DEF ReadJob, ReturnsHold, IsDone, Terminal
    <3> QED
      BY <3>1 DEF Step
  <2>3. CASE Index(w)
    <3>1. /\ worker[w] = "index"
          /\ \E to \in {"indexed", "unindexed", "requeue"} : worker' = [worker EXCEPT ![w] = to]
      BY <2>3 DEF Index, Step
    <3>2. Knows(w) => job.status \notin {"settling", "completed"}
      BY <3>1 DEF Knows
    <3> QED
      BY <3>1, <3>2
  <2>4. CASE SettleRead(w)
    <3>1. \/ \E to \in {"ack", "requeue"} : worker' = [worker EXCEPT ![w] = to]
          \/ job.status = "settling" /\ Exhausted /\ worker' = [worker EXCEPT ![w] = "exhaust"]
          \/ /\ job.status = "settling" /\ ~Exhausted /\ upstream = "unusable"
             /\ worker' = [worker EXCEPT ![w] = "recordFailure"]
          \/ /\ job.status = "settling" /\ ~Exhausted /\ upstream # "unusable"
             /\ worker' = [worker EXCEPT ![w] = "capture"]
      BY <2>4 DEF SettleRead, Step, Exhausted
    <3>2. Apart => ("capture" \in claims => ~Exhausted /\ upstream # "unusable")
      BY DEF Apart
    <3> QED
      BY <3>1, <3>2
  <2> QED
    BY <2>1, <2>2, <2>3, <2>4
<1> HIDE DEF Told
<1> QED
  BY <1>5, <1>6

\* Polling and indexing: a job that was not settling is not captured.
LEMMA SettledPolling ==
    ASSUME StoreShape, ActorShape, StatusInv, SettledInv, NEW w \in Workers,
           Poll(w) \/ IndexFailed(w) \/ IndexDone(w)
    PROVE  SettledInv'
<1>0. job \in JobRecord /\ job.status \in Statuses
  BY JobFields DEF StoreShape
<1>1. UNCHANGED <<billing, upstream, lock, submit, lapses>>
  BY DEF Poll, IndexFailed, IndexDone, Step
<1>2. Lapsed => Lapsed'
  BY <1>1 DEF Lapsed
<1>3. worker[w] \in {"poll", "unindexed", "indexed"} /\ worker[w] \notin Unlocked
  BY DEF Poll, IndexFailed, IndexDone, Step, Unlocked
<1>4. Knows(w) => job.status \notin {"settling", "completed"}
  BY <1>3 DEF Knows
<1>5. StatusInv' /\ Ended
  BY WorkerStatus DEF Working
<1>6. job'.named = job.named
  BY WorkerRow DEF Working
<1>7. Knows(w) /\ Apart => Apart'
  <2> SUFFICES ASSUME Knows(w), Apart PROVE Apart'
    OBVIOUS
  <2>1. GivenUp => GivenUp'
    BY <1>5 DEF Ended, GivenUp
  <2>2. "capture" \notin claims
    BY <1>4 DEF Apart
  <2>3. "release" \in claims => GivenUp \/ (~job.named /\ submit \in Closing)
    BY <1>4 DEF Apart
  <2> QED
    BY <1>1, <1>6, <2>1, <2>2, <2>3 DEF Apart, billing
<1>8. \E to \in {"requeue", "terminal", "index"} :
        /\ worker' = [worker EXCEPT ![w] = to]
        /\ to = "index" => job'.status = "indexing"
  <2>1. CASE Poll(w)
    <3>1. \/ \E to \in {"requeue", "terminal"} : Step(w, "poll", to)
          \/ Step(w, "poll", "index") /\ Transition("indexing")
      BY <2>1 DEF Poll
    <3>2. Transition("indexing") => job'.status = "indexing"
      BY <1>0, TransitionFields DEF Statuses
    <3> QED
      BY <3>1, <3>2 DEF Step
  <2>2. CASE IndexFailed(w) \/ IndexDone(w)
    BY <2>2 DEF IndexFailed, IndexDone, Step
  <2> QED
    BY <2>1, <2>2
<1>9. PICK to \in {"requeue", "terminal", "index"} :
        /\ worker' = [worker EXCEPT ![w] = to]
        /\ to = "index" => job'.status = "indexing"
  BY <1>8
<1>10. worker'[w] = to
  BY <1>9 DEF ActorShape
<1>11. Knows(w)'
  BY <1>9, <1>10 DEF Knows
<1> QED
  BY <1>1, <1>2, <1>3, <1>7, <1>9, <1>11, SettledHolder

\* The hold is returned: the job has failed, was cancelled, or is exhausted.
LEMMA SettledReleasing ==
    ASSUME StoreShape, ActorShape, StatusInv, SettledInv, NEW w \in Workers,
           ReleaseTerminal(w) \/ Exhaust(w)
    PROVE  SettledInv'
<1>1. /\ UNCHANGED <<job, upstream, lock, submit, lapses>>
      /\ ReleaseBalance \/ ReleaseFails
  BY DEF ReleaseTerminal, Exhaust, Step
<1>2. (Lapsed => Lapsed') /\ (GivenUp' <=> GivenUp) /\ (Exhausted' <=> Exhausted)
  BY <1>1 DEF Lapsed, GivenUp, Exhausted
<1>3. "capture" \in claims' => "capture" \in claims
  BY <1>1, ReleaseClaims
<1>4. \/ worker[w] = "terminal" /\ \E to \in {"ack", "requeue"} : worker' = [worker EXCEPT ![w] = to]
      \/ worker[w] = "exhaust" /\ \E to \in {"toFailed", "reread"} : worker' = [worker EXCEPT ![w] = to]
  BY DEF ReleaseTerminal, Exhaust, Step
<1>5. PICK to \in {"ack", "requeue", "toFailed", "reread"} :
        /\ worker' = [worker EXCEPT ![w] = to]
        /\ to = "toFailed" => worker[w] = "exhaust"
  BY <1>4
<1>6. worker[w] \in {"terminal", "exhaust"} /\ worker[w] \notin Unlocked /\ worker'[w] = to
  BY <1>4, <1>5 DEF Unlocked, ActorShape
<1>7. Knows(w) => \/ GivenUp
                  \/ job.status = "settling" /\ Exhausted /\ "capture" \notin claims
  BY <1>6 DEF Knows, StatusInv
<1>8. Knows(w) /\ Apart => Apart'
  <2> SUFFICES ASSUME Knows(w), Apart PROVE Apart'
    OBVIOUS
  <2>1. "capture" \notin claims
    BY <1>7 DEF Apart, GivenUp
  <2> QED
    BY <1>1, <1>2, <1>3, <1>7, <2>1 DEF Apart
<1>9. Knows(w) => Knows(w)'
  BY <1>1, <1>2, <1>3, <1>5, <1>6 DEF Knows
<1> QED
  BY <1>1, <1>2, <1>5, <1>6, <1>8, <1>9, SettledHolder

\* The hold is captured: no return has been claimed, and none will be.
LEMMA SettledCapturing ==
    ASSUME StoreShape, ActorShape, StatusInv, SettledInv, NEW w \in Workers, Capture(w)
    PROVE  SettledInv'
<1>1. /\ UNCHANGED <<job, upstream, lock, submit>> /\ lapses \subseteq lapses'
      /\ CaptureBalance \/ CaptureFails
      /\ worker[w] = "capture" /\ worker[w] \notin Unlocked
  BY DEF Capture, Step, Note, NoteIf, Unlocked
<1>2. (Lapsed => Lapsed') /\ (GivenUp' <=> GivenUp) /\ (Exhausted' <=> Exhausted)
  BY <1>1 DEF Lapsed, GivenUp, Exhausted
<1>3. \E to \in {"mark", "recordFailure"} :
        /\ worker' = [worker EXCEPT ![w] = to]
        /\ to = "recordFailure" => NoteIf("capture" \in claims', "doubt")
  BY DEF Capture, CaptureError, Step
<1>4. PICK to \in {"mark", "recordFailure"} :
        /\ worker' = [worker EXCEPT ![w] = to]
        /\ to = "recordFailure" => NoteIf("capture" \in claims', "doubt")
  BY <1>3
<1>5. ~Lapsed' /\ to = "recordFailure" => "capture" \notin claims'
  BY <1>4 DEF Lapsed, NoteIf, Note
<1>6. "release" \in claims' => "release" \in claims
  <2>1. UNCHANGED claims \/ Claim("capture")
    BY <1>1 DEF CaptureFails, CaptureBalance, Move, billing
  <2> QED
    BY <2>1 DEF Claim
<1>7. worker'[w] = to
  BY <1>4 DEF ActorShape
<1>8. Knows(w) => job.status = "settling" /\ ~Exhausted /\ upstream # "unusable"
  BY <1>1 DEF Knows
<1>9. Knows(w) /\ Apart => Apart'
  <2> SUFFICES ASSUME Knows(w), Apart PROVE Apart'
    OBVIOUS
  <2>1. ~GivenUp /\ job.named
    BY <1>8 DEF GivenUp, StatusInv
  <2>2. "release" \notin claims
    BY <1>8, <2>1 DEF Apart
  <2> QED
    BY <1>1, <1>2, <1>6, <1>8, <2>2 DEF Apart
<1>10. ~Lapsed' /\ Knows(w) => Knows(w)'
  BY <1>1, <1>2, <1>4, <1>5, <1>7, <1>8 DEF Knows
<1> QED
  BY <1>1, <1>2, <1>4, <1>9, <1>10, SettledHolder

LEMMA SettledCounting ==
    ASSUME StoreShape, ActorShape, StatusInv, SettledInv, NEW w \in Workers, RecordFailure(w)
    PROVE  SettledInv'
<1>0. job \in JobRecord /\ job.retries \in 0..MaxRetries
  BY JobFields DEF StoreShape
<1>1. /\ UNCHANGED <<billing, upstream, lock, submit, lapses>>
      /\ CountFailure \/ UNCHANGED job
      /\ worker[w] = "recordFailure" /\ worker[w] \notin Unlocked
  BY DEF RecordFailure, Step, Unlocked
<1>2. Lapsed => Lapsed'
  BY <1>1 DEF Lapsed
<1>3. job'.status = job.status /\ job'.named = job.named
  BY <1>0, <1>1, JobFields
<1>4. Exhausted => Exhausted'
  <2>1. job'.retries = job.retries \/ (job.retries < MaxRetries /\ job'.retries = job.retries + 1)
    BY <1>0, <1>1, JobFields
  <2> QED
    BY <1>0, <2>1, ConstantsAssumption DEF Exhausted
<1>5. \E to \in {"exhaust", "requeue", "reread"} :
        /\ worker' = [worker EXCEPT ![w] = to] /\ (to = "exhaust" => Exhausted')
  BY DEF RecordFailure, Step, Exhausted
<1>6. PICK to \in {"exhaust", "requeue", "reread"} :
        /\ worker' = [worker EXCEPT ![w] = to] /\ (to = "exhaust" => Exhausted')
  BY <1>5
<1>7. worker'[w] = to
  BY <1>6 DEF ActorShape
<1>8. Knows(w) => job.status = "settling" /\ "capture" \notin claims
  BY <1>1 DEF Knows
<1>9. Knows(w) /\ Apart => Apart'
  <2> SUFFICES ASSUME Knows(w), Apart PROVE Apart'
    OBVIOUS
  <2>1. GivenUp' <=> GivenUp
    BY <1>3 DEF GivenUp
  <2> QED
    BY <1>1, <1>3, <1>4, <1>8, <2>1 DEF Apart, billing
<1>10. Knows(w) => Knows(w)'
  BY <1>1, <1>3, <1>6, <1>7, <1>8 DEF Knows, billing
<1> QED
  BY <1>1, <1>2, <1>6, <1>9, <1>10, SettledHolder

\* The end of a settlement: failed without a capture, completed with one.
LEMMA SettledEnding ==
    ASSUME StoreShape, ActorShape, StatusInv, ChargeInv, SettledInv, NEW w \in Workers,
           ExhaustFails(w) \/ MarkSettled(w)
    PROVE  SettledInv'
<1>0. job \in JobRecord /\ job.status \in Statuses
  BY JobFields DEF StoreShape
<1>1. UNCHANGED <<billing, upstream, lock, submit, lapses>>
  BY DEF ExhaustFails, MarkSettled, Step
<1>2. Lapsed => Lapsed'
  BY <1>1 DEF Lapsed
<1>3. /\ worker[w] \in {"toFailed", "mark"} /\ worker[w] \notin Unlocked
      /\ \E to \in {"reread", "requeue", "ack"} : worker' = [worker EXCEPT ![w] = to]
  BY DEF ExhaustFails, MarkSettled, Step, Unlocked
<1>4. PICK to \in {"reread", "requeue", "ack"} : worker' = [worker EXCEPT ![w] = to]
  BY <1>3
<1>5. worker'[w] = to
  BY <1>4 DEF ActorShape
<1>6. Knows(w)'
  BY <1>5 DEF Knows
<1>7. /\ job'.named = job.named /\ job'.retries = job.retries
      /\ \/ job'.status = job.status
         \/ worker[w] = "toFailed" /\ job'.status = "failed"
         \/ worker[w] = "mark" /\ job'.status = "completed"
  <2>1. CASE ExhaustFails(w)
    <3>1. worker[w] = "toFailed" /\ (Transition("failed") \/ NoTransition("failed"))
      BY <2>1 DEF ExhaustFails, Step
    <3> QED
      BY <1>0, <3>1, TransitionFields DEF Statuses, Terminal
  <2>2. CASE MarkSettled(w)
    <3>1. worker[w] = "mark" /\ (UNCHANGED job \/ SetStatus("completed"))
      BY <2>2 DEF MarkSettled, Step
    <3> QED
      BY <1>0, <3>1, JobFields DEF Statuses, Terminal
  <2> QED
    BY <2>1, <2>2
<1>8. Exhausted' <=> Exhausted
  BY <1>7 DEF Exhausted
<1>9. Knows(w) /\ Apart => Apart'
  <2> SUFFICES ASSUME Knows(w), Apart PROVE Apart'
    OBVIOUS
  <2>1. CASE job'.status = job.status
    <3>1. GivenUp' <=> GivenUp
      BY <2>1 DEF GivenUp
    <3> QED
      BY <1>1, <1>7, <1>8, <2>1, <3>1 DEF Apart, billing
  <2>2. CASE worker[w] = "toFailed" /\ job'.status = "failed"
    <3>1. "capture" \notin claims
      BY <2>2 DEF Knows
    <3>2. GivenUp'
      BY <2>2 DEF GivenUp
    <3> QED
      BY <1>1, <3>1, <3>2 DEF Apart, billing
  <2>3. CASE worker[w] = "mark" /\ job'.status = "completed"
    <3>1. "capture" \in claims
      BY <2>3 DEF ChargeInv
    <3> QED
      BY <1>1, <1>8, <2>3, <3>1 DEF Apart, billing
  <2> QED
    BY <1>7, <2>1, <2>2, <2>3
<1> QED
  BY <1>2, <1>3, <1>4, <1>6, <1>1, <1>9, SettledHolder

LEMMA SettledUnlock ==
    ASSUME ActorShape, SettledInv, NEW w \in Workers, Unlock(w)
    PROVE  SettledInv'
<1>1. /\ UNCHANGED <<job, billing, upstream, submit, lapses>>
      /\ worker[w] = "unlock" /\ worker[w] \notin Unlocked /\ "idle" \in Unlocked
      /\ worker' = [worker EXCEPT ![w] = "idle"]
  BY DEF Unlock, Step, Unlocked
<1>2. (Lapsed => Lapsed') /\ (Apart => Apart')
  BY <1>1 DEF Lapsed, Apart, GivenUp, Exhausted, billing
<1> QED
  BY <1>1, <1>2, SettledHolder

LEMMA SettledNext ==
    ASSUME Shape, StatusInv, ChargeInv, UpstreamInv, SettledInv, [Next]_vars
    PROVE  SettledInv'
<1>0. StoreShape /\ ActorShape
  BY DEF Shape
<1>1. CASE Submitting \/ TouchSubmitting \/ CrashSubmit
  BY <1>0, <1>1, SubmitSettled
<1>2. CASE \/ \E c \in Clients : CancelRead(c) \/ Resubmit(c) \/ Cancelling(c) \/ CrashClient(c)
           \/ Recovering \/ CrashRecovery
           \/ GoesStale \/ UpstreamEnds \/ AccountEdited \/ LockExpires
           \/ RecoverStaleActive \/ MoveDueDelayed
           \/ \E w \in Workers : HeartbeatsFail(w)
  BY <1>0, <1>2, OthersSettled
<1>3. ASSUME NEW w \in Workers, Working(w) \/ CrashWorker(w)
      PROVE  SettledInv'
  <2>1. CASE Reserve(w) \/ TryAcquireJobLock(w) \/ (worker[w] \in Unlocked /\ (Requeue(w) \/ CrashWorker(w)))
    BY <1>0, <2>1, SettledOutside
  <2>2. CASE \/ Pipeline(w) \/ ReadJob(w) \/ Index(w) \/ SettleRead(w) \/ Reread(w) \/ Ack(w)
             \/ (worker[w] \notin Unlocked /\ (Requeue(w) \/ CrashWorker(w)))
    BY <1>0, <2>2, SettledReading
  <2>3. CASE Poll(w) \/ IndexFailed(w) \/ IndexDone(w)
    BY <1>0, <2>3, SettledPolling
  <2>4. CASE ReleaseTerminal(w) \/ Exhaust(w)
    BY <1>0, <2>4, SettledReleasing
  <2>5. CASE Capture(w)
    BY <1>0, <2>5, SettledCapturing
  <2>6. CASE RecordFailure(w)
    BY <1>0, <2>6, SettledCounting
  <2>7. CASE ExhaustFails(w) \/ MarkSettled(w)
    BY <1>0, <2>7, SettledEnding
  <2>8. CASE Unlock(w)
    BY <1>0, <2>8, SettledUnlock
  <2> QED
    BY <1>3, <2>1, <2>2, <2>3, <2>4, <2>5, <2>6, <2>7, <2>8 DEF Working
<1>4. CASE UNCHANGED vars
  BY <1>4 DEF vars, store, billing, SettledInv, Knows, GivenUp, Exhausted
<1> QED
  BY <1>1, <1>2, <1>3, <1>4 DEF Next, Crash

-----------------------------------------------------------------------------
(* The theorems.                                                           *)

Inv == TypeInv /\ StatusInv /\ ChargeInv /\ UpstreamInv /\ SettledInv

LEMMA InitInv ==
    ASSUME Init
    PROVE  Inv
<1>1. TypeInv
  BY TypeInit
<1>2. StatusInv /\ ChargeInv
  BY DEF Init, StatusInv, ChargeInv, Unsubmitted
<1>3. UpstreamInv
  BY DEF Init, UpstreamInv, SeenSuccess
<1>4. SettledInv
  BY DEF Init, SettledInv, Unlocked
<1> QED
  BY <1>1, <1>2, <1>3, <1>4 DEF Inv

LEMMA NextInv ==
    ASSUME Inv, [Next]_vars
    PROVE  Inv' /\ Ended
<1>1. Shape
  BY TypeIsShape DEF Inv
<1> QED
  BY <1>1, TypeNext, StatusNext, ChargeNext, UpstreamNext, SettledNext DEF Inv

LEMMA Invariance == Spec => []Inv
<1>1. Inv /\ [Next]_vars => Inv'
  BY NextInv
<1> QED
  BY <1>1, InitInv, PTL DEF Spec, Safety

\* The variables keep their types; in particular the ready list holds the job
\* once, and once more for every lease that ran out under a living worker,
\* however pushes, acknowledgements, requeues and recoveries interleave.
THEOREM TypeCorrect == Spec => []TypeOK
<1>1. Inv => TypeOK
  BY DEF Inv, TypeInv
<1> QED
  BY <1>1, Invariance, PTL

\* TransitionBatchImageJobStatus, RecordBatchImageJobSubmitFailure (which looks
\* at no status), FailStaleUnsubmittedBatchImageJob and MarkBatchImageJobSettled
\* never revive a job that has ended, and never fail a completed one.
THEOREM EndedStaysEnded == Spec => TerminalStays
<1>1. Inv /\ [Next]_vars => Ended
  BY NextInv
<1>2. Spec => [][Ended]_vars
  <2>1. Inv /\ [Next]_vars => [Ended]_vars
    BY <1>1
  <2> QED
    BY <2>1, Invariance, PTL DEF Spec, Safety
<1> QED
  BY <1>2 DEF TerminalStays, Ended

\* A job is completed only with its hold captured, also when an earlier
\* attempt captured it and died, and whatever leases ran out.
THEOREM CompletedWasCharged == Spec => []CompletedIsCharged
<1>1. Inv => CompletedIsCharged
  BY DEF Inv, StatusInv, ChargeInv, CompletedIsCharged
<1> QED
  BY <1>1, Invariance, PTL

\* A batch that runs at the provider for a job given up was left there by a
\* lost answer, a crash, or a cancellation that crossed the submission.
THEOREM NoBatchIsOrphaned == Spec => []NoOrphan
<1>1. Inv => NoOrphan
  BY DEF Inv, UpstreamInv, NoOrphan, GivenUp
<1> QED
  BY <1>1, Invariance, PTL

\* A hold is not both captured and released, unless a worker outlived its
\* leases or the retries ended on a capture whose outcome was unknown.
THEOREM HoldIsSettledOnce == Spec => []SettledOnce
<1>1. Inv => SettledOnce
  BY DEF Inv, TypeInv, TypeOK, SettledInv, SettledOnce
<1> QED
  BY <1>1, Invariance, PTL

=============================================================================
