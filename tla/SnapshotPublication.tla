------------------------- MODULE SnapshotPublication -------------------------
(***************************************************************************)
(* How the scheduler's snapshot of one bucket (a group's accounts on one   *)
(* platform) gets into Redis: pollers and retry workers that handle outbox *)
(* events, the periodic full rebuild, and requests that found no snapshot  *)
(* and publish what they loaded from the database.  Writers are fenced by  *)
(* an epoch that the retirement of the bucket advances; the retirement and *)
(* the reopening are decided under a lease; rebuilds take a lock.          *)
(*                                                                         *)
(* An outbox event is the number of a change.  That events are delivered   *)
(* at least once, and those deferred too, is SchedulerOutbox's matter.     *)
(***************************************************************************)
EXTENDS Naturals, Sequences, FiniteSets

CONSTANTS
    Pollers, Retriers, Rebuilders,  \* loops of SchedulerSnapshotService
    Requests,                       \* calls of ListSchedulableAccounts
    Accounts,
    MaxChanges,                     \* bound on committed changes
    MaxBusy,                        \* bound on writers at work at a time
    MaxFaults                       \* bound on failing calls, crashes, stalls

Workers == Pollers \cup Retriers \cup Rebuilders
Writers == Workers \cup Requests

None == "none"
Left == "left"          \* a lock or lease whose holder has died
Marker == "active"      \* the place of the active version in versions

ASSUME ConstantsAssumption ==
    /\ MaxChanges \in Nat /\ MaxBusy \in Nat /\ MaxFaults \in Nat
    /\ Pollers \cap Retriers = {} /\ Rebuilders \cap (Pollers \cup Retriers) = {}
    /\ Requests \cap Workers = {}
    /\ {None, Left, Marker} \cap Writers = {}

VARIABLES
    group,      \* the group's status in the database
    members,    \* its schedulable accounts
    changed,    \* changed[k]: the changes of kind k, each with its event
    acked,      \* acked[k]: how many of them are acknowledged
    retry,      \* the kinds with a task in the retry queue
    epoch,      \* sched:epoch, 0 if it does not exist
    retired,    \* sched:retired exists
    registered, \* the bucket is in sched:buckets
    active,     \* the snapshot that sched:active and sched:ready name
    versions,   \* the versions in use, in the order of their allocation
    lock,       \* sched:lock
    lease,      \* sched:group:lifecycle-lock
    job,        \* job[w]: what writer w does
    faults,
    lives,      \* history: how often the bucket was retired
    lapses      \* history: what only the next full rebuild repairs

database == <<group, members, changed>>
outbox == <<acked, retry>>
bucket == <<epoch, retired, registered, active, versions, lives>>
vars == <<database, outbox, bucket, lock, lease, job, faults, lapses>>

Kinds == {"group", "account"}

NoJob == [pc |-> "idle", kind |-> None, first |-> 0, upto |-> [k \in Kinds |-> 0], listed |-> FALSE, token |-> 0,
          strict |-> FALSE, shared |-> FALSE, load |-> {}, era |-> 0,
          late |-> FALSE, ok |-> TRUE]

Steps == {"idle", "list", "groups", "capture", "lease", "decide", "reopen", "retire",
          "release", "lock", "load", "latest", "allocate", "activate", "unlock", "end"}

Jobs == [pc : Steps, kind : Kinds \cup {"full", "read", None}, first : Nat, upto : [Kinds -> Nat], listed : BOOLEAN,
         token : Nat, strict : BOOLEAN, shared : BOOLEAN, load : SUBSET Accounts,
         era : Nat, late : BOOLEAN, ok : BOOLEAN]

\* A snapshot is the accounts it lists; era is the life of the bucket in
\* which they were loaded (a history field).
Snapshots == [set : SUBSET Accounts, era : Nat]
NoSnapshot == [set |-> {}, era |-> 0]

TypeOK ==
    /\ group \in {"active", "inactive"} /\ members \subseteq Accounts
    /\ changed \in [Kinds -> Nat] /\ acked \in [Kinds -> Nat] /\ retry \subseteq Kinds
    /\ \A k \in Kinds : acked[k] <= changed[k]
    /\ epoch \in Nat /\ retired \in BOOLEAN /\ registered \in BOOLEAN
    /\ active \in Snapshots /\ versions \in Seq(Writers \cup {Marker})
    /\ lock \in Workers \cup {None, Left} /\ lease \in Workers \cup {None, Left}
    /\ job \in [Writers -> Jobs]
    /\ lives \in Nat /\ faults \in 0..MaxFaults /\ lapses \subseteq {"raced", "overtaken"}

Init ==
    /\ group = "active" /\ members \in SUBSET Accounts
    /\ changed = [k \in Kinds |-> 0] /\ acked = [k \in Kinds |-> 0] /\ retry = {}
    /\ epoch = 1 /\ retired = FALSE /\ registered = TRUE
    /\ active = [set |-> members, era |-> 0] /\ versions = <<Marker>>
    /\ lock = None /\ lease = None
    /\ job = [w \in Writers |-> NoJob]
    /\ lives = 0 /\ faults = 0 /\ lapses = {}

-----------------------------------------------------------------------------
(* Auxiliary.                                                              *)

Fault == faults < MaxFaults /\ faults' = faults + 1
\* Writer w may begin.
Free(w) == job[w].pc = "idle" /\ Cardinality({v \in Writers : job[v].pc # "idle"}) < MaxBusy

At(w, pc) == job[w].pc = pc
Goto(w, pc) == job' = [job EXCEPT ![w].pc = pc]

\* Nothing but the result, and for whom it is, matters any more.
Result(w, pc, ok) ==
    [NoJob EXCEPT !.pc = pc, !.ok = ok, !.kind = job[w].kind, !.first = job[w].first,
                  !.upto = job[w].upto, !.late = job[w].late]
Ends(w, ok) == job' = [job EXCEPT ![w] = Result(w, "end", ok)]

Larger(m, n) == IF m < n THEN n ELSE m

InUse(v) == \E i \in DOMAIN versions : versions[i] = v
Place(v) == CHOOSE i \in DOMAIN versions : versions[i] = v

\* A version is in use once.
Without(v) ==
    IF InUse(v)
    THEN [i \in 1..(Len(versions) - 1) |-> versions[IF i < Place(v) THEN i ELSE i + 1]]
    ELSE versions

\* A snapshot is published: sched:active and sched:ready exist.
Published == InUse(Marker)

\* The script compares the writer's epoch and looks for the tombstone.
Fenced(w) == retired \/ epoch # job[w].token

-----------------------------------------------------------------------------
(* The database.  A change and its event are committed together.           *)

MayChange == changed["group"] + changed["account"] < MaxChanges

ChangeGroup ==
    /\ MayChange
    /\ group' = IF group = "active" THEN "inactive" ELSE "active"
    /\ changed' = [changed EXCEPT !["group"] = @ + 1]
    /\ UNCHANGED <<members, outbox, bucket, lock, lease, job, faults, lapses>>

\* An account joins or leaves the group, or can (not) be scheduled any more.
\* Leaving the group does not touch the account's row: the row locks of
\* WithLatestSchedulerAccounts do not delay it.
ChangeMembers(a) ==
    /\ MayChange
    /\ members' = IF a \in members THEN members \ {a} ELSE members \cup {a}
    /\ changed' = [changed EXCEPT !["account"] = @ + 1]
    /\ UNCHANGED <<group, outbox, bucket, lock, lease, job, faults, lapses>>

-----------------------------------------------------------------------------
(* Where the work comes from.                                              *)

\* handleGroupEvent asks for the group's state, handleAccountEvent rebuilds.
FirstStep(k) == IF k = "group" THEN "lease" ELSE "capture"

\* pollOutbox: the next event above the watermark.  Events of the batch that
\* concern what it rebuilds are then found among the seen and do nothing.
TakeEvent(w, k, upto) ==
    /\ Free(w) /\ acked[k] < upto[k]
    /\ \A j \in Kinds : upto[j] \in acked[j]..changed[j]
    /\ k = "account" => upto["group"] = acked["group"]
    /\ job' = [job EXCEPT ![w] = [NoJob EXCEPT !.pc = FirstStep(k), !.kind = k,
                                     !.first = acked[k] + 1, !.upto = upto]]
    /\ UNCHANGED <<database, outbox, bucket, lock, lease, faults, lapses>>

\* pollOutboxRetry.  The task is back in the queue if it is not completed.
TakeRetry(w, k) ==
    /\ Free(w) /\ k \in retry
    /\ retry' = retry \ {k}
    /\ job' = [job EXCEPT ![w] = [NoJob EXCEPT !.pc = FirstStep(k), !.kind = k]]
    /\ UNCHANGED <<database, acked, bucket, lock, lease, faults, lapses>>

\* runFullRebuildWorker, runInitialRebuild.
BeginFullRebuild(w) ==
    /\ Free(w)
    /\ job' = [job EXCEPT ![w] = [NoJob EXCEPT !.pc = "list", !.kind = "full"]]
    /\ UNCHANGED <<database, outbox, bucket, lock, lease, faults, lapses>>

ListBuckets(w) ==
    /\ At(w, "list")
    /\ job' = [job EXCEPT ![w].pc = "groups", ![w].listed = registered]
    /\ UNCHANGED <<database, outbox, bucket, lock, lease, faults, lapses>>

\* Groups that are not active are left to their events.
ActiveGroupsOnly(w) ==
    /\ At(w, "groups")
    /\ \/ group = "active" /\ Goto(w, "capture")
       \/ group # "active" /\ Ends(w, TRUE)
    /\ UNCHANGED <<database, outbox, bucket, lock, lease, faults, lapses>>

\* Buckets of active groups are captured; the lifecycle of a group that has
\* buckets and is not active is decided anew.
ListActiveGroups(w) ==
    /\ At(w, "groups")
    /\ \/ group = "active" /\ Goto(w, "capture")
       \/ group # "active" /\ job[w].listed /\ Goto(w, "lease")
       \/ group # "active" /\ ~job[w].listed /\ Ends(w, TRUE)
    /\ UNCHANGED <<database, outbox, bucket, lock, lease, faults, lapses>>

\* ListSchedulableAccounts: GetSnapshot finds nothing, an empty snapshot, a
\* deleted account, or fails; then the request may publish what it is going to load.
Miss(r) ==
    /\ Free(r)
    /\ \/ (active.set = {} \/ ~(active.set \subseteq members)) /\ UNCHANGED faults
       \/ active.set # {} /\ Fault
    /\ job' = [job EXCEPT ![r] = [NoJob EXCEPT !.pc = "capture", !.kind = "read"]]
    /\ UNCHANGED <<database, outbox, bucket, lock, lease, lapses>>

-----------------------------------------------------------------------------
(* prepareGroupLifecycle.                                                  *)

\* Whoever holds the lease is trusted to see the change.
BusyLeaseIsDone(w) ==
    /\ At(w, "lease")
    /\ \/ lease = None /\ lease' = w /\ Goto(w, "decide")
       \/ lease # None /\ Ends(w, TRUE) /\ UNCHANGED lease
    /\ UNCHANGED <<database, outbox, bucket, lock, faults, lapses>>

TryAcquireGroupLifecycleLease(w) ==
    /\ At(w, "lease")
    /\ \/ lease = None /\ lease' = w /\ Goto(w, "decide")
       \/ lease # None /\ Ends(w, FALSE) /\ UNCHANGED lease
    /\ UNCHANGED <<database, outbox, bucket, lock, faults, lapses>>

GetGroup(w) ==
    /\ At(w, "decide")
    /\ Goto(w, IF group = "active" THEN "reopen" ELSE "retire")
    /\ UNCHANGED <<database, outbox, bucket, lock, lease, faults, lapses>>

\* The call's reply may be lost.  A decision carried out without the lease is
\* late (a history field).
Decided(w) ==
    \E ok \in BOOLEAN :
        /\ IF ok THEN UNCHANGED faults ELSE Fault
        /\ job' = [job EXCEPT ![w].pc = "release", ![w].ok = ok, ![w].late = (lease # w),
                              ![w].token = IF retired' THEN 0 ELSE epoch', ![w].strict = TRUE]

\* The epoch is left alone: the tombstone is thought to be enough.
RetireKeepsEpoch(w) ==
    /\ At(w, "retire")
    /\ retired' = TRUE /\ registered' = FALSE
    /\ epoch' = Larger(1, epoch) /\ lives' = IF retired THEN lives ELSE lives + 1
    /\ active' = NoSnapshot /\ versions' = Without(Marker)
    /\ Decided(w)
    /\ UNCHANGED <<database, outbox, lock, lease, lapses>>

\* Only the first retirement advances the epoch.
RetireBucket(w) ==
    /\ At(w, "retire")
    /\ retired' = TRUE /\ registered' = FALSE
    /\ epoch' = IF retired THEN epoch ELSE epoch + 1
    /\ lives' = IF retired THEN lives ELSE lives + 1
    /\ active' = NoSnapshot /\ versions' = Without(Marker)
    /\ Decided(w)
    /\ UNCHANGED <<database, outbox, lock, lease, lapses>>

ReopenBucket(w) ==
    /\ At(w, "reopen")
    /\ retired' = FALSE /\ epoch' = Larger(1, epoch)
    /\ registered' = (registered /\ ~retired)
    /\ active' = IF retired THEN NoSnapshot ELSE active
    /\ versions' = IF retired THEN Without(Marker) ELSE versions
    /\ Decided(w)
    /\ UNCHANGED <<database, outbox, lives, lock, lease, lapses>>

\* Compares the owner.  What was decided counts only if the lease was kept.
ReleaseGroupLifecycleLease(w) ==
    /\ At(w, "release")
    /\ lease' = IF lease = w THEN None ELSE lease
    /\ \/ job[w].ok /\ lease = w /\ job[w].token > 0 /\ Goto(w, "lock")
       \/ job[w].ok /\ lease = w /\ job[w].token = 0 /\ Ends(w, TRUE)
       \/ (~job[w].ok \/ lease # w) /\ Ends(w, FALSE)
    /\ UNCHANGED <<database, outbox, bucket, lock, faults, lapses>>

-----------------------------------------------------------------------------
(* Capturing a token, loading, publishing.                                 *)

\* The token of a rebuild.  A tombstone leads to the group's lifecycle.
CaptureBucketWriteToken(w) ==
    /\ At(w, "capture")
    /\ \/ /\ retired /\ Goto(w, "lease") /\ UNCHANGED epoch
       \/ /\ ~retired /\ epoch' = Larger(1, epoch)
          /\ job' = [job EXCEPT ![w].pc = "lock", ![w].token = epoch', ![w].strict = (w \notin Rebuilders)]
    /\ UNCHANGED <<database, outbox, retired, registered, active, versions, lives, lock, lease, faults, lapses>>

\* The token of a request, which takes no lock.
CaptureForRead(r) ==
    /\ At(r, "capture")
    /\ \/ /\ retired /\ job' = [job EXCEPT ![r] = NoJob] /\ UNCHANGED epoch
       \/ /\ ~retired /\ epoch' = Larger(1, epoch)
          /\ job' = [job EXCEPT ![r].pc = "load", ![r].token = epoch']
    /\ UNCHANGED <<database, outbox, retired, registered, active, versions, lives, lock, lease, faults, lapses>>

\* Whoever holds the lock is trusted to publish the change.
BusyIsDone(w) ==
    /\ At(w, "lock")
    /\ \/ lock = None /\ lock' = w /\ Goto(w, "load")
       \/ lock # None /\ Ends(w, TRUE) /\ UNCHANGED lock
    /\ UNCHANGED <<database, outbox, bucket, lease, faults, lapses>>

\* A busy lock is a failure for events and reopened buckets only.
TryLockBucket(w) ==
    /\ At(w, "lock")
    /\ \/ lock = None /\ lock' = w /\ Goto(w, "load")
       \/ lock # None /\ Ends(w, ~job[w].strict) /\ UNCHANGED lock
    /\ UNCHANGED <<database, outbox, bucket, lease, faults, lapses>>

\* schedulerAccountQueryCache: the accounts were loaded for another bucket of
\* the same batch, before this bucket's lock was taken.
LoadForSibling(w) ==
    /\ At(w, "lock") /\ ~job[w].shared
    /\ job' = [job EXCEPT ![w].shared = TRUE, ![w].load = members, ![w].era = lives]
    /\ UNCHANGED <<database, outbox, bucket, lock, lease, faults, lapses>>

LoadAccounts(w) ==
    /\ At(w, "load")
    /\ LET next == IF w \in Retriers THEN "latest" ELSE "allocate"
       IN  job' = IF job[w].shared THEN [job EXCEPT ![w].pc = next]
                  ELSE [job EXCEPT ![w].pc = next, ![w].load = members, ![w].era = lives]
    /\ UNCHANGED <<database, outbox, bucket, lock, lease, faults, lapses>>

\* The accounts that were loaded are locked, read again and filtered.
WithLatestSchedulerAccounts(w) ==
    /\ At(w, "latest")
    /\ job' = [job EXCEPT ![w].pc = "allocate", ![w].load = @ \cap members]
    /\ UNCHANGED <<database, outbox, bucket, lock, lease, faults, lapses>>

\* What comes after SetSnapshot: a rebuild unlocks the bucket, a request has
\* its accounts already.
AfterSet(w, ok) ==
    job' = IF w \in Requests THEN [job EXCEPT ![w] = NoJob]
           ELSE [job EXCEPT ![w] = Result(w, "unlock", ok)]

AllocateSnapshotVersion(w) ==
    /\ At(w, "allocate")
    /\ \/ Fenced(w) /\ AfterSet(w, ~job[w].strict) /\ UNCHANGED versions
       \/ ~Fenced(w) /\ versions' = Append(versions, w) /\ Goto(w, "activate")
    /\ UNCHANGED <<database, outbox, epoch, retired, registered, active, lives, lock, lease, faults, lapses>>

\* An unlocked writer installs what is already out of date.
Races(w) == (w \in Requests \/ job[w].shared \/ lock # w) /\ job[w].load # members

Install(w) ==
    /\ active' = [set |-> job[w].load, era |-> job[w].era]
    /\ registered' = TRUE
    /\ versions' = [i \in DOMAIN Without(Marker) |->
                      IF Without(Marker)[i] = w THEN Marker ELSE Without(Marker)[i]]
    /\ lapses' = IF Races(w) THEN lapses \cup {"raced"} ELSE lapses

\* activateSnapshotScript.  A version older than the active one is dropped,
\* and that is no error.  The reply may be lost.
ActivateSnapshotVersion(w) ==
    /\ At(w, "activate")
    /\ \/ /\ Fenced(w)
          /\ versions' = Without(w) /\ AfterSet(w, ~job[w].strict)
          /\ UNCHANGED <<registered, active, faults, lapses>>
       \/ /\ ~Fenced(w) /\ Published /\ Place(w) < Place(Marker)
          /\ versions' = Without(w) /\ AfterSet(w, TRUE)
          /\ UNCHANGED <<registered, active, faults, lapses>>
       \/ /\ ~Fenced(w) /\ (Published => Place(Marker) < Place(w))
          /\ Install(w)
          /\ \/ AfterSet(w, TRUE) /\ UNCHANGED faults
             \/ AfterSet(w, FALSE) /\ Fault
    /\ UNCHANGED <<database, outbox, epoch, retired, lives, lock, lease>>

\* DEL without comparing the owner; the error is ignored.
UnlockBucket(w) ==
    /\ At(w, "unlock")
    /\ \/ lock' = None /\ UNCHANGED faults
       \/ lock' = (IF lock = w THEN Left ELSE lock) /\ Fault
    /\ Goto(w, "end")
    /\ UNCHANGED <<database, outbox, bucket, lease, lapses>>

-----------------------------------------------------------------------------
(* The end of a job.                                                       *)

\* A decision made without the lease stands unless the group is looked at
\* again, which the retry of a group's event does and an account's does not.
Overtaken(w, again) ==
    lapses' = IF job[w].late /\ ~again THEN lapses \cup {"overtaken"} ELSE lapses

\* One event too far.
AcknowledgePast(w) == acked' = [k \in Kinds |-> IF k = job[w].kind THEN job[w].upto[k] + 1 ELSE acked[k]]

\* The watermark passes the event and those its rebuild covers.
Acknowledge(w) == acked' = [k \in Kinds |-> Larger(acked[k], job[w].upto[k])]

\* It passes a deferred event, not the ones after it.
AcknowledgeFirst(w) == acked' = [acked EXCEPT ![job[w].kind] = Larger(@, job[w].first)]

Succeed(w) ==
    /\ At(w, "end") /\ job[w].ok
    /\ IF w \in Pollers THEN Acknowledge(w) ELSE UNCHANGED acked
    /\ job' = [job EXCEPT ![w] = NoJob]
    /\ UNCHANGED <<database, retry, bucket, lock, lease, faults, lapses>>

\* A failed event is deferred, or stays above the watermark unless another
\* poller has moved it; a failed task is rescheduled; a full rebuild comes
\* again.
FailEvent(w) ==
    /\ At(w, "end") /\ ~job[w].ok
    /\ \/ /\ retry' = retry \cup {job[w].kind} /\ AcknowledgeFirst(w)
          /\ Overtaken(w, job[w].kind = "group") /\ UNCHANGED faults
       \/ Fault /\ Overtaken(w, FALSE) /\ UNCHANGED outbox
    /\ job' = [job EXCEPT ![w] = NoJob]
    /\ UNCHANGED <<database, bucket, lock, lease>>

FailRetry(w) ==
    /\ At(w, "end") /\ ~job[w].ok
    /\ retry' = retry \cup {job[w].kind}
    /\ Overtaken(w, job[w].kind = "group")
    /\ job' = [job EXCEPT ![w] = NoJob]
    /\ UNCHANGED <<database, acked, bucket, lock, lease, faults>>

FailFullRebuild(w) ==
    /\ At(w, "end") /\ ~job[w].ok
    /\ Overtaken(w, FALSE)
    /\ job' = [job EXCEPT ![w] = NoJob]
    /\ UNCHANGED <<database, outbox, bucket, lock, lease, faults>>

-----------------------------------------------------------------------------
(* Failures.                                                               *)

\* A call fails.  TryAcquireGroupLifecycleLease and TryLockBucket may have
\* had their effect; the lease is released and the bucket unlocked.
CallFails(w) ==
    /\ Fault
    /\ \/ job[w].pc \in {"list", "groups", "capture"} /\ Ends(w, FALSE) /\ UNCHANGED <<lock, lease>>
       \/ At(w, "lease") /\ Ends(w, FALSE) /\ UNCHANGED lock /\ lease' \in {lease, IF lease = None THEN Left ELSE lease}
       \/ job[w].pc \in {"decide", "reopen", "retire"} /\ UNCHANGED <<lock, lease>>
             /\ job' = [job EXCEPT ![w].pc = "release", ![w].ok = FALSE]
       \/ At(w, "release") /\ Ends(w, FALSE) /\ UNCHANGED lock /\ lease' = (IF lease = w THEN Left ELSE lease)
       \/ At(w, "lock") /\ Ends(w, FALSE) /\ UNCHANGED lease /\ lock' \in {lock, IF lock = None THEN Left ELSE lock}
       \/ job[w].pc \in {"load", "latest", "allocate", "activate"} /\ AfterSet(w, FALSE) /\ UNCHANGED <<lock, lease>>
    /\ versions' = Without(w)
    /\ UNCHANGED <<database, outbox, epoch, retired, registered, active, lives, lapses>>

\* A request is cancelled or fails.
RequestEnds(r) ==
    /\ ~At(r, "idle")
    /\ versions' = Without(r)
    /\ job' = [job EXCEPT ![r] = NoJob]
    /\ UNCHANGED <<database, outbox, epoch, retired, registered, active, lives, lock, lease, faults, lapses>>

\* The process dies.  An event that is not acknowledged is delivered again.
Crash(w) ==
    /\ ~At(w, "idle") /\ Fault
    /\ lock' = IF lock = w THEN Left ELSE lock
    /\ lease' = IF lease = w THEN Left ELSE lease
    /\ versions' = Without(w)
    /\ retry' = IF w \in Retriers THEN retry \cup {job[w].kind} ELSE retry
    /\ Overtaken(w, w \in Retriers /\ job[w].kind = "group")
    /\ job' = [job EXCEPT ![w] = NoJob]
    /\ UNCHANGED <<database, acked, epoch, retired, registered, active, lives>>

\* The TTLs of the lock (30 s) and the lease (60 s).  They exceed the time
\* their holders are given unless a holder stalls.
LockExpires == lock = Left /\ lock' = None
               /\ UNCHANGED <<database, outbox, bucket, lease, job, faults, lapses>>
LeaseExpires == lease = Left /\ lease' = None
                /\ UNCHANGED <<database, outbox, bucket, lock, job, faults, lapses>>

HolderStalls ==
    /\ Fault
    /\ \/ lock \in Workers /\ lock' = None /\ UNCHANGED lease
       \/ lease \in Workers /\ lease' = None /\ UNCHANGED lock
    /\ UNCHANGED <<database, outbox, bucket, job, lapses>>

-----------------------------------------------------------------------------

Lifecycle(w) ==
    \/ TryAcquireGroupLifecycleLease(w) \/ GetGroup(w) \/ RetireBucket(w)
    \/ ReopenBucket(w) \/ ReleaseGroupLifecycleLease(w)

Publish(w) == LoadAccounts(w) \/ AllocateSnapshotVersion(w) \/ ActivateSnapshotVersion(w)

Rebuild(w) ==
    \/ CaptureBucketWriteToken(w) \/ TryLockBucket(w) \/ Publish(w) \/ UnlockBucket(w)

Work(w) == Lifecycle(w) \/ Rebuild(w) \/ Succeed(w)

Poller(w) == (\E k \in Kinds : \E upto \in [Kinds -> 0..MaxChanges] : TakeEvent(w, k, upto))
             \/ Work(w) \/ FailEvent(w)
Retrier(w) == (\E k \in Kinds : TakeRetry(w, k)) \/ Work(w)
              \/ WithLatestSchedulerAccounts(w) \/ FailRetry(w)
Rebuilder(w) == BeginFullRebuild(w) \/ ListBuckets(w) \/ ListActiveGroups(w)
                \/ Work(w) \/ FailFullRebuild(w)
Request(r) == Miss(r) \/ CaptureForRead(r) \/ Publish(r) \/ RequestEnds(r)

Next ==
    \/ ChangeGroup \/ \E a \in Accounts : ChangeMembers(a)
    \/ \E w \in Pollers : Poller(w)
    \/ \E w \in Retriers : Retrier(w)
    \/ \E w \in Rebuilders : Rebuilder(w)
    \/ \E w \in Pollers \cup Rebuilders : LoadForSibling(w)
    \/ \E r \in Requests : Request(r)
    \/ \E w \in Workers : CallFails(w) \/ Crash(w)
    \/ LockExpires \/ LeaseExpires \/ HolderStalls

\* The loops go on, and TTLs run out.
Fairness ==
    /\ \A w \in Pollers : WF_vars(Poller(w))
    /\ \A w \in Retriers : WF_vars(Retrier(w))
    /\ \A w \in Rebuilders : WF_vars(Rebuilder(w))
    /\ WF_vars(LockExpires) /\ WF_vars(LeaseExpires)

Safety == Init /\ [][Next]_vars
Spec == Safety /\ Fairness

-----------------------------------------------------------------------------

\* What was loaded before the bucket was retired is never served afterwards,
\* also when the bucket was reopened in between, and a retired bucket serves
\* nothing: whoever loaded, allocated a version or waited for a lock meanwhile.
ServedIsOfThisEpoch == Published => ~retired /\ active.era = lives

\* When every event is acknowledged and no decision is under way, the bucket
\* is retired exactly if the group is not active, although leases run out
\* under their holders and several loops decide at once.
GroupIsReflected ==
    /\ acked["group"] = changed["group"] /\ "group" \notin retry
    /\ \A w \in Workers : job[w].pc \notin {"decide", "reopen", "retire", "release", "end"}
    /\ "overtaken" \notin lapses
    /\ ~\E w \in Retriers : At(w, "lease") /\ job[w].kind = "group"
    => (retired <=> group = "inactive")

\* When every event is acknowledged, the snapshot has been published with
\* what they changed: a busy lock, a fence or a failure acknowledges nothing.
\* A publication without the lock may have undone it.
AcknowledgedIsServed ==
    /\ acked = changed /\ retry = {} /\ \A w \in Workers : At(w, "idle")
    /\ group = "active" /\ lapses = {}
    => Published /\ active.set = members

\* In the end the snapshot is right whatever went wrong.
ServedInTheEnd ==
    <>[](IF group = "active" THEN Published /\ active.set = members ELSE ~Published)

-----------------------------------------------------------------------------
(* The inductive invariant behind TypeOK.                                  *)

Publishing == {"latest", "allocate", "activate"}

\* What a job is for.
JobsMatch ==
    \A w \in Writers :
        /\ \A k \in Kinds : job[w].upto[k] <= changed[k]
        /\ \A k \in Kinds : job[w].kind = k => job[w].first <= changed[k]
        /\ w \in Pollers \cup Retriers /\ ~At(w, "idle") => job[w].kind \in Kinds
        /\ job[w].kind = "account" => job[w].upto["group"] <= acked["group"]
        /\ job[w].kind = "group" => job[w].pc \notin {"list", "groups", "capture"}

\* A version is in use once, for the snapshot that is served or by the writer
\* that is about to activate it.
VersionsMatch ==
    /\ \A i, j \in DOMAIN versions : versions[i] = versions[j] => i = j
    /\ \A i \in DOMAIN versions : versions[i] # Marker => At(versions[i], "activate")

TypeInv == TypeOK /\ JobsMatch /\ VersionsMatch

-----------------------------------------------------------------------------
(* The inductive invariant behind ServedIsOfThisEpoch.                     *)

\* The epoch counts the bucket's lives; what a writer has loaded is not older
\* than its token.
EpochInv ==
    /\ epoch = lives + 1
    /\ \A w \in Writers :
         /\ job[w].token <= epoch /\ job[w].era <= lives
         /\ job[w].shared => job[w].pc \in {"lock", "load"} \cup Publishing
         /\ job[w].shared \/ job[w].pc \in Publishing => job[w].token <= job[w].era + 1
    /\ ServedIsOfThisEpoch

-----------------------------------------------------------------------------
(* The inductive invariant behind GroupIsReflected.                        *)

Settled == retired <=> group = "inactive"
HasPlan(w) == job[w].pc \in {"reopen", "retire"}
PlanIsRight(w) == At(w, "retire") <=> group = "inactive"

\* A decision without the lease is reported as a failure.
LateFails ==
    \A w \in Writers : job[w].late => \/ At(w, "release") /\ lease # w
                                      \/ At(w, "end") /\ ~job[w].ok

\* The job handles the group's latest change.
Current(w) == job[w].kind = "group" /\ job[w].upto["group"] = changed["group"]

\* Poller w has decided, under the lease, what the latest change asks for.
Passed(w) ==
    /\ Current(w)
    /\ \/ job[w].pc \in {"lock", "load", "unlock"} \cup Publishing
       \/ At(w, "release") /\ job[w].ok /\ lease = w
       \/ At(w, "end") /\ job[w].ok

\* The task of retrier w has not looked at the group yet, or is going to fail.
TaskLeft(w) ==
    /\ job[w].kind = "group"
    /\ \/ job[w].pc \in {"lease", "decide"}
       \/ HasPlan(w) /\ lease # w
       \/ At(w, "release") /\ (~job[w].ok \/ lease # w)
       \/ At(w, "end") /\ ~job[w].ok

\* Somebody is going to look at the group again.
Debt ==
    \/ "group" \in retry \/ "overtaken" \in lapses
    \/ \E w \in Workers : job[w].late
    \/ \E w \in Retriers : TaskLeft(w)

\* Whoever holds the lease carries out what the group's status asks for.
InGoodHands ==
    /\ \A w \in Workers : lease = w /\ HasPlan(w) => PlanIsRight(w)
    /\ Settled \/ \E w \in Retriers : lease = w /\ HasPlan(w) /\ job[w].kind = "group"

GroupInv ==
    /\ LateFails
    /\ \A w \in Pollers : Current(w) /\ HasPlan(w) => PlanIsRight(w)
    /\ acked["group"] = changed["group"] \/ (\E w \in Pollers : Passed(w)) => Debt \/ InGoodHands

-----------------------------------------------------------------------------
(* The inductive invariant behind AcknowledgedIsServed.                    *)

\* An allocated version waits for its activation; a tombstone fences all
\* tokens; a rebuild for an event is strict.
WritersMatch ==
    \A w \in Writers :
        /\ At(w, "idle") => job[w].kind = None
        /\ At(w, "activate") => InUse(w)
        /\ retired => job[w].token < epoch
        /\ /\ w \in Pollers \cup Retriers
           /\ \/ job[w].pc \in {"lock", "load"} \cup Publishing
              \/ At(w, "release") /\ job[w].ok
           => job[w].strict

\* Worker w may publish what it loaded under the lock.
Holds(w) == lock = w /\ ~job[w].shared /\ job[w].pc \in Publishing /\ job[w].token = epoch

HoldersAreFresh == \A w \in Workers : Holds(w) => job[w].load = members

\* What is served is up to date, and stays so until a change or a race.
Fresh == (Published => active.set = members) /\ HoldersAreFresh

Before(u, v) == \E i, j \in DOMAIN versions : i < j /\ versions[i] = u /\ versions[j] = v

\* The job is going to succeed: it has published, or retired the bucket.
Done(w) == job[w].ok /\ (job[w].pc \in {"unlock", "end"} \/ (At(w, "release") /\ job[w].token = 0))

\* Worker w began after the last change of the members: it can only succeed
\* when that change is served.
OnTrack(w) ==
    /\ job[w].shared \/ job[w].pc \in Publishing => job[w].load = members
    /\ job[w].pc \in {"load"} \cup Publishing => HoldersAreFresh
    /\ At(w, "activate") /\ Before(w, Marker) => active.set = members
    /\ Done(w) => Fresh

MembersInv ==
    "raced" \notin lapses =>
        /\ \A w \in Pollers : job[w].upto["account"] = changed["account"] => OnTrack(w)
        /\ acked["account"] = changed["account"] =>
             \/ Fresh \/ "account" \in retry
             \/ \E w \in Retriers : job[w].kind = "account" /\ OnTrack(w)

\* The group's last event is acknowledged, or is going to be.
Handled == acked["group"] = changed["group"] \/ \E w \in Pollers : Passed(w) /\ Done(w)

\* A task for the group is going to publish the bucket, or to fail.
TaskOpen(w) == job[w].kind = "group" /\ ~Done(w)

\* The bucket of an active group is published, or somebody looks at it again.
CaredFor == group = "inactive" \/ Published \/ Debt \/ \E w \in Retriers : TaskOpen(w)

PublishedInv == Handled => CaredFor

ServedInv == WritersMatch /\ MembersInv /\ PublishedInv

=============================================================================
