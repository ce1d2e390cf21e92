----------------------- MODULE ConcurrencySlotsProofs -----------------------
(***************************************************************************)
(* What holds of the limiter for every number of processes and requests,   *)
(* every limit and every TTL.                                              *)
(***************************************************************************)
EXTENDS ConcurrencySlots, FiniteSetTheorems, TLAPS

\* A score or TTL stays in its range when purged, written or aged.
LEMMA LivesFacts ==
    /\ SlotTTL \in Nat \ {0} /\ WaitTTL \in Nat \ {0}
    /\ LargestTTL \in Nat
    /\ SlotTTL \in Lives(SlotTTL) /\ None \in Lives(SlotTTL)
    /\ None \in Lives(LargestTTL) /\ LargestTTL \in Lives(LargestTTL)
    /\ SlotTTL \in Lives(LargestTTL) /\ WaitTTL \in Lives(LargestTTL)
  BY ConstantsAssumption DEF Lives, LargestTTL, None

LEMMA DecayFacts ==
    /\ \A n \in Nat : \A x \in Lives(n) : Decay(x) \in Lives(n)
    /\ \A n \in Nat : \A x \in 0..n : Decay(x) \in 0..n
  BY DEF Decay, Lives, None

LEMMA IndexScoreType ==
    ASSUME NEW s, NEW w
    PROVE  IndexScore(s, w) \in Lives(LargestTTL)
  BY LivesFacts DEF IndexScore

LEMMA PurgedType == TypeOK => Purged \in [Reqs -> Lives(SlotTTL)]
  BY LivesFacts DEF TypeOK, Purged

-----------------------------------------------------------------------------

LEMMA TypeInit == Init => TypeOK
<1>1. 0 \in 0..SlotTTL /\ 0 \in 0..WaitTTL
  BY LivesFacts
<1>2. "idle" \in RequestStates /\ "done" \in RequestStates /\ "down" \in ProcessStates
  BY DEF RequestStates, ProcessStates
<1> SUFFICES ASSUME Init PROVE TypeOK
  OBVIOUS
<1>3. /\ slot \in [Reqs -> Lives(SlotTTL)]
      /\ plan \in [Reqs -> Lives(LargestTTL)]
      /\ wplan \in [Procs -> Lives(LargestTTL)]
      /\ index \in Lives(LargestTTL)
  BY LivesFacts DEF Init
<1>4. /\ pc \in [Reqs -> RequestStates] /\ ret \in [Reqs -> RequestStates]
      /\ held \in [Reqs -> 0..SlotTTL] /\ queued \in [Reqs -> 0..WaitTTL]
      /\ cleaned \subseteq Reqs
      /\ proc \in [Procs -> ProcessStates] /\ keep \in [Procs -> BOOLEAN]
      /\ wk \in [Procs -> {"rest", "load", "write"}]
  BY <1>1, <1>2 DEF Init
<1> QED
  BY <1>1, <1>3, <1>4 DEF Init, TypeOK

LEMMA TypeRequest ==
    ASSUME TypeOK, NEW r \in Reqs, RequestStep(r)
    PROVE  TypeOK'
<1> USE DEF TypeOK, RequestStates, request, redis, process
<1>1. CASE Acquire(r)
  BY <1>1, LivesFacts, PurgedType DEF Acquire, Lives
<1>2. CASE AcquireReplyLost(r)
  BY <1>2, LivesFacts, PurgedType DEF AcquireReplyLost
<1>3. CASE IncrementWait(r)
  BY <1>3, LivesFacts DEF IncrementWait, RefreshedWaitLife
<1>4. CASE IncrementWaitFailsOpen(r)
  BY <1>4, LivesFacts DEF IncrementWaitFailsOpen
<1>5. CASE GiveUp(r)
  BY <1>5 DEF GiveUp
<1>6. CASE DecrementWait(r)
  BY <1>6, LivesFacts DEF DecrementWait, Decremented
<1>7. CASE Release(r)
  BY <1>7, LivesFacts DEF Release
<1>8. CASE ReadLoad(r)
  BY <1>8, PurgedType, IndexScoreType DEF ReadLoad
<1>9. CASE WriteIndex(r)
  BY <1>9, LivesFacts DEF WriteIndex
<1>10. CASE NewRequest(r)
  BY <1>10 DEF NewRequest
<1> QED
  BY <1>1, <1>2, <1>3, <1>4, <1>5, <1>6, <1>7, <1>8, <1>9, <1>10 DEF RequestStep

LEMMA TypeProcess ==
    ASSUME TypeOK, NEW p \in Procs, ProcessStep(p)
    PROVE  TypeOK'
<1> USE DEF TypeOK, ProcessStates, request, redis, process
<1>1. CASE Start(p)
  BY <1>1 DEF Start
<1>2. CASE Sweep(p)
  BY <1>2, LivesFacts DEF Sweep
<1>3. CASE Scan(p)
  BY <1>3 DEF Scan
<1>4. CASE CleanSlots(p)
  BY <1>4, LivesFacts DEF CleanSlots, Foreign
<1>5. CASE CleanWait(p)
  BY <1>5, LivesFacts DEF CleanWait
<1>6. CASE CleanMember(p)
  BY <1>6, LivesFacts DEF CleanMember
<1>7. CASE CleanupFails(p)
  BY <1>7 DEF CleanupFails
<1>8. CASE Crash(p)
  BY <1>8, LivesFacts DEF Crash, RequestStates
<1>9. CASE Replace(p)
  BY <1>9 DEF Replace, RequestStates
<1>10. CASE ReconcileScan(p)
  BY <1>10 DEF ReconcileScan
<1>11. CASE ReconcileLoad(p)
  BY <1>11, PurgedType, IndexScoreType DEF ReconcileLoad
<1>12. CASE ReconcileWrite(p)
  BY <1>12, LivesFacts DEF ReconcileWrite
<1> QED
  BY <1>1, <1>2, <1>3, <1>4, <1>5, <1>6, <1>7, <1>8, <1>9, <1>10, <1>11, <1>12
     DEF ProcessStep, StartupStep, WorkerStep

LEMMA TypeTick ==
    ASSUME TypeOK, Tick
    PROVE  TypeOK'
<1>1. /\ slot' \in [Reqs -> Lives(SlotTTL)]
      /\ index' \in Lives(LargestTTL)
      /\ plan' \in [Reqs -> Lives(LargestTTL)]
      /\ wplan' \in [Procs -> Lives(LargestTTL)]
  BY LivesFacts, DecayFacts DEF TypeOK, Tick
<1>2. /\ waitLife' \in 0..WaitTTL
      /\ held' \in [Reqs -> 0..SlotTTL]
      /\ queued' \in [Reqs -> 0..WaitTTL]
  BY LivesFacts, DecayFacts DEF TypeOK, Tick
<1>3. wait' \in Nat
  BY DEF TypeOK, Tick
<1> QED
  BY <1>1, <1>2, <1>3 DEF TypeOK, Tick

\* Every reachable state is well typed: scores, TTLs and budgets stay within
\* their TTL however acquire, queue, release, cleanup, worker and time interleave.
THEOREM TypeCorrect == Spec => []TypeOK
<1>1. TypeOK /\ [Next]_vars => TypeOK'
  <2> SUFFICES ASSUME TypeOK, [Next]_vars PROVE TypeOK'
    OBVIOUS
  <2>1. CASE UNCHANGED vars
    BY <2>1 DEF vars, redis, request, process, TypeOK
  <2>2. CASE Next
    BY <2>2, TypeRequest, TypeProcess, TypeTick DEF Next
  <2> QED
    BY <2>1, <2>2
<1> QED
  BY <1>1, TypeInit, PTL DEF Spec

-----------------------------------------------------------------------------

\* Purging only removes members; adding one member to a set with room keeps
\* the set within the limit.
LEMMA MembersFinite ==
    ASSUME NEW s
    PROVE  IsFiniteSet(Members(s)) /\ Cardinality(Members(s)) \in Nat
  BY ConstantsAssumption, FS_Subset, FS_CardinalityType DEF Members

LEMMA FewerMembers ==
    ASSUME NEW s, NEW t, Members(t) \subseteq Members(s),
           Cardinality(Members(s)) <= MaxConcurrency
    PROVE  Cardinality(Members(t)) <= MaxConcurrency
<1>1. Cardinality(Members(t)) <= Cardinality(Members(s))
  BY MembersFinite, FS_Subset
<1> QED
  BY <1>1, MembersFinite, ConstantsAssumption

LEMMA PurgedMembers == Members(Purged) \subseteq Members(slot)
  BY DEF Members, Purged

LEMMA OneMoreMember ==
    ASSUME NEW s \in [Reqs -> Lives(SlotTTL)], NEW r \in Reqs, HasRoom(s)
    PROVE  Cardinality(Members([s EXCEPT ![r] = SlotTTL])) <= MaxConcurrency
<1> DEFINE t == [s EXCEPT ![r] = SlotTTL]
<1>1. Members(t) = Members(s) \cup {r}
  BY LivesFacts DEF Members, None
<1> HIDE DEF t
<1>2. Cardinality(Members(t)) <= Cardinality(Members(s)) + 1
  <2>1. IsFiniteSet(Members(s)) /\ Cardinality(Members(s)) \in Nat
    BY MembersFinite
  <2>2. Cardinality(Members(s) \cup {r}) =
            IF r \in Members(s) THEN Cardinality(Members(s))
                               ELSE Cardinality(Members(s)) + 1
    BY <2>1, FS_AddElement
  <2> QED
    BY <1>1, <2>1, <2>2
<1>3. Cardinality(Members(t)) <= MaxConcurrency
  BY <1>2, MembersFinite, ConstantsAssumption DEF HasRoom
<1> QED
  BY <1>3 DEF t

LEMMA CapNext == TypeOK /\ CapInv /\ [Next]_vars => CapInv'
<1> SUFFICES ASSUME TypeOK, CapInv, [Next]_vars PROVE CapInv'
  OBVIOUS
<1> USE DEF CapInv
<1>1. ASSUME slot' = Purged PROVE CapInv'
  BY <1>1, PurgedMembers, FewerMembers
<1>2. ASSUME UNCHANGED slot PROVE CapInv'
  BY <1>2 DEF Members
<1>3. ASSUME Members(slot') \subseteq Members(slot) PROVE CapInv'
  <2>1. Cardinality(Members(slot')) <= MaxConcurrency
    BY <1>3, FewerMembers
  <2> QED
    BY <2>1 DEF Members
<1>4. ASSUME NEW r \in Reqs, HasRoom(Purged), slot' = [Purged EXCEPT ![r] = SlotTTL]
      PROVE  CapInv'
  <2>1. Cardinality(Members([Purged EXCEPT ![r] = SlotTTL])) <= MaxConcurrency
    BY <1>4, PurgedType, OneMoreMember
  <2> QED
    BY <1>4, <2>1 DEF Members
<1>5. CASE UNCHANGED vars
  BY <1>5, <1>2 DEF vars, redis
<1>6. ASSUME NEW r \in Reqs, RequestStep(r) PROVE CapInv'
  <2>1. CASE Acquire(r)
    BY <2>1, <1>1, <1>4 DEF Acquire
  <2>2. CASE AcquireReplyLost(r)
    BY <2>2, <1>1, <1>4 DEF AcquireReplyLost
  <2>3. CASE Release(r)
    BY <2>3, <1>2, <1>3 DEF Release, Members, TypeOK
  <2>4. CASE ReadLoad(r)
    BY <2>4, <1>1 DEF ReadLoad
  <2>5. CASE IncrementWait(r) \/ IncrementWaitFailsOpen(r) \/ GiveUp(r)
             \/ DecrementWait(r) \/ WriteIndex(r) \/ NewRequest(r)
    BY <2>5, <1>2 DEF IncrementWait, IncrementWaitFailsOpen, GiveUp,
                      DecrementWait, WriteIndex, NewRequest, redis
  <2> QED
    BY <1>6, <2>1, <2>2, <2>3, <2>4, <2>5 DEF RequestStep
<1>7. ASSUME NEW p \in Procs, ProcessStep(p) PROVE CapInv'
  <2>1. CASE CleanSlots(p)
    BY <2>1, <1>3 DEF CleanSlots, Members
  <2>2. CASE ReconcileLoad(p)
    BY <2>2, <1>1 DEF ReconcileLoad
  <2>3. CASE ~CleanSlots(p) /\ ~ReconcileLoad(p)
    BY <1>7, <2>3, <1>2
       DEF ProcessStep, StartupStep, WorkerStep, Start, Sweep, Scan, CleanWait,
           CleanMember, CleanupFails, Crash, Replace, ReconcileScan,
           ReconcileWrite, redis
  <2> QED
    BY <2>1, <2>2, <2>3
<1>8. CASE Tick
  BY <1>8, <1>3 DEF Tick, Members, Decay, TypeOK, Lives, None
<1> QED
  BY <1>5, <1>6, <1>7, <1>8 DEF Next

\* The sorted set never exceeds the limit, for any number of processes and
\* requests, with every fault and with overlapping startups.
THEOREM CapacityRespected == Spec => []CapInv
<1>1. Init => CapInv
  <2>1. ASSUME Init PROVE Members(slot) = {}
    BY <2>1 DEF Init, Members
  <2> QED
    BY <2>1, FS_EmptySet, ConstantsAssumption DEF CapInv
<1> QED
  BY <1>1, CapNext, TypeCorrect, PTL DEF Spec

-----------------------------------------------------------------------------
(***************************************************************************)
(* A request keeps its slot for the slot's TTL unless a starting process   *)
(* cleans it away.  Not inductive alone: the member has to live at least   *)
(* as long as what is left of the TTL, and no step but the cleanup of      *)
(* another process may remove a member that is not expired.                *)
(***************************************************************************)

SlotOutlivesHolder ==
    \A r \in Reqs : Entitled(r) => held[r] <= slot[r]

\* A step that leaves the request, its member and its own state alone, or only
\* takes the member when it is expired.
LEMMA HolderUnmoved ==
    ASSUME TypeOK, SlotOutlivesHolder, NEW r \in Reqs, Holding(r)' => Holding(r),
           held'[r] = held[r], r \in cleaned => r \in cleaned',
           slot[r] > 0 => slot'[r] = slot[r]
    PROVE  Entitled(r)' => held'[r] <= slot'[r]
  BY LivesFacts DEF SlotOutlivesHolder, Entitled, TypeOK, Lives, None

LEMMA HolderRequest ==
    ASSUME TypeOK, SlotOutlivesHolder, NEW q \in Reqs, RequestStep(q)
    PROVE  SlotOutlivesHolder'
<1> SUFFICES ASSUME NEW r \in Reqs PROVE Entitled(r)' => held'[r] <= slot'[r]
  BY DEF SlotOutlivesHolder
<1> USE DEF TypeOK
<1>1. slot[r] > 0 => Purged[r] = slot[r]
  BY DEF Purged, Lives, None
<1>2. CASE Acquire(q)
  <2>1. CASE q = r /\ HasRoom(Purged)
    BY <1>2, <2>1, PurgedType, LivesFacts DEF Acquire
  <2>2. CASE q # r \/ ~HasRoom(Purged)
    BY <1>1, <1>2, <2>2, PurgedType, HolderUnmoved DEF Acquire, Holding
  <2> QED
    BY <2>1, <2>2
<1>3. CASE AcquireReplyLost(q)
  <2>1. CASE q = r
    BY <1>3, <2>1 DEF AcquireReplyLost, Entitled, Holding
  <2>2. CASE q # r
    BY <1>1, <1>3, <2>2, PurgedType, HolderUnmoved DEF AcquireReplyLost, Holding
  <2> QED
    BY <2>1, <2>2
<1>4. CASE IncrementWait(q)
  BY <1>4, HolderUnmoved DEF IncrementWait, Holding
<1>5. CASE IncrementWaitFailsOpen(q)
  BY <1>5, HolderUnmoved DEF IncrementWaitFailsOpen, Holding, redis
<1>6. CASE GiveUp(q)
  BY <1>6, HolderUnmoved DEF GiveUp, Holding, redis
<1>7. CASE DecrementWait(q)
  BY <1>7, HolderUnmoved DEF DecrementWait, Holding
<1>8. CASE Release(q)
  <2>1. CASE q = r
    BY <1>8, <2>1 DEF Release, Entitled
  <2>2. CASE q # r
    BY <1>8, <2>2, HolderUnmoved DEF Release, Holding
  <2> QED
    BY <2>1, <2>2
<1>9. CASE ReadLoad(q)
  BY <1>1, <1>9, HolderUnmoved DEF ReadLoad, Holding
<1>10. CASE WriteIndex(q)
  BY <1>10, HolderUnmoved DEF WriteIndex, Holding
<1>11. CASE NewRequest(q)
  BY <1>11, HolderUnmoved DEF NewRequest, Holding, redis
<1> QED
  BY <1>2, <1>3, <1>4, <1>5, <1>6, <1>7, <1>8, <1>9, <1>10, <1>11 DEF RequestStep

LEMMA HolderProcess ==
    ASSUME TypeOK, SlotOutlivesHolder, NEW p \in Procs, ProcessStep(p)
    PROVE  SlotOutlivesHolder'
<1> SUFFICES ASSUME NEW r \in Reqs PROVE Entitled(r)' => held'[r] <= slot'[r]
  BY DEF SlotOutlivesHolder
<1> USE DEF TypeOK
<1>1. CASE CleanSlots(p)
  \* A holder served by another process is recorded as cleaned away.
  <2>1. CASE r \in Foreign(p) /\ Holding(r)
    BY <1>1, <2>1 DEF CleanSlots, Entitled
  <2>2. CASE r \in Foreign(p) /\ ~Holding(r)
    BY <1>1, <2>2 DEF CleanSlots, Entitled, Holding
  <2>3. CASE r \notin Foreign(p)
    BY <1>1, <2>3, HolderUnmoved DEF CleanSlots, Holding
  <2> QED
    BY <2>1, <2>2, <2>3
<1>2. CASE Start(p) \/ Sweep(p) \/ Scan(p) \/ CleanWait(p) \/ CleanMember(p) \/ CleanupFails(p)
  BY <1>2, HolderUnmoved DEF Start, Sweep, Scan, CleanWait, CleanMember, CleanupFails,
     Holding, request, redis
<1>3. CASE Crash(p)
  <2>1. CASE Owner[r] = p
    BY <1>3, <2>1 DEF Crash, Entitled
  <2>2. CASE Owner[r] # p
    BY <1>3, <2>2, HolderUnmoved DEF Crash, Holding, redis
  <2> QED
    BY <2>1, <2>2
<1>4. CASE Replace(p)
  BY <1>4, HolderUnmoved DEF Replace, Holding, redis
<1>5. CASE ReconcileLoad(p)
  BY <1>5, HolderUnmoved DEF ReconcileLoad, Holding, request, Purged, Lives, None
<1>6. CASE ReconcileScan(p) \/ ReconcileWrite(p)
  BY <1>6, HolderUnmoved DEF ReconcileScan, ReconcileWrite, Holding, request, redis
<1> QED
  BY <1>1, <1>2, <1>3, <1>4, <1>5, <1>6 DEF ProcessStep, StartupStep, WorkerStep

LEMMA HolderTick ==
    ASSUME TypeOK, SlotOutlivesHolder, Tick
    PROVE  SlotOutlivesHolder'
<1> SUFFICES ASSUME NEW r \in Reqs, Entitled(r)' PROVE held'[r] <= slot'[r]
  BY DEF SlotOutlivesHolder
<1>1. held'[r] = Decay(held[r]) /\ slot'[r] = Decay(slot[r])
  BY DEF Tick
<1>2. held[r] \in Nat /\ slot[r] \in Int
  BY LivesFacts DEF TypeOK, Lives, None
<1>3. held[r] > 0 /\ Holding(r) /\ r \notin cleaned
  BY <1>1, <1>2 DEF Entitled, Decay, Tick, Holding
<1>4. held[r] <= slot[r]
  BY <1>3 DEF SlotOutlivesHolder, Entitled
<1> QED
  BY <1>1, <1>2, <1>3, <1>4 DEF Decay

\* A request in service keeps an unexpired member in the set for the TTL of its
\* slot unless a starting process removes it, for every limit and TTL, however
\* processes overlap, requests overrun and Redis calls fail.
THEOREM HoldersKeepSlots == Spec => []HolderKeepsSlot
<1>1. Init => SlotOutlivesHolder
  BY DEF Init, SlotOutlivesHolder, Entitled, Holding
<1>2. TypeOK /\ SlotOutlivesHolder /\ [Next]_vars => SlotOutlivesHolder'
  <2> SUFFICES ASSUME TypeOK, SlotOutlivesHolder, [Next]_vars PROVE SlotOutlivesHolder'
    OBVIOUS
  <2>1. CASE UNCHANGED vars
    BY <2>1 DEF vars, redis, request, SlotOutlivesHolder, Entitled, Holding
  <2>2. CASE Next
    BY <2>2, HolderRequest, HolderProcess, HolderTick DEF Next
  <2> QED
    BY <2>1, <2>2
<1>3. TypeOK /\ SlotOutlivesHolder => HolderKeepsSlot
  BY LivesFacts DEF HolderKeepsSlot, SlotOutlivesHolder, Entitled, TypeOK, Lives, None
<1> QED
  BY <1>1, <1>2, <1>3, TypeCorrect, PTL DEF Spec

\* Never more requests in service than the limit, those that overran their TTL
\* or were cleaned away not counted: the others are members of the set, which
\* acquireScript keeps within the limit.
THEOREM LimitEnforced == Spec => []RunningBounded
<1>1. CapInv /\ HolderKeepsSlot => RunningBounded
  <2> SUFFICES ASSUME CapInv, HolderKeepsSlot PROVE RunningBounded
    OBVIOUS
  <2>1. {r \in Reqs : Entitled(r)} \subseteq Members(slot)
    BY DEF HolderKeepsSlot, Members, None
  <2>2. Cardinality({r \in Reqs : Entitled(r)}) <= Cardinality(Members(slot))
    BY <2>1, MembersFinite, FS_Subset
  <2>3. Cardinality({r \in Reqs : Entitled(r)}) \in Nat
    BY <2>1, MembersFinite, FS_Subset, FS_CardinalityType
  <2> QED
    BY <2>2, <2>3, MembersFinite, ConstantsAssumption DEF CapInv, RunningBounded
<1> QED
  BY <1>1, CapacityRespected, HoldersKeepSlots, PTL

-----------------------------------------------------------------------------
(***************************************************************************)
(* The wait counter covers the queue: every queued request was counted,    *)
(* the counter outlives what the request may still wait, and a process     *)
(* that is cleaning up, which deletes it, is the only one that is not down.*)
(***************************************************************************)

Started(p) == proc[p] \notin {"down", "dead"}

OneServes == \A p, q \in Procs : Started(p) /\ Started(q) => p = q

LEMMA OneServesNext ==
    ASSUME TypeOK, OneServes, ~Overlap, [Next]_vars
    PROVE  OneServes'
<1> USE DEF OneServes, Started, TypeOK
<1>1. CASE UNCHANGED proc
  BY <1>1
<1>2. CASE Tick \/ UNCHANGED vars \/ \E r \in Reqs : RequestStep(r)
  BY <1>1, <1>2 DEF Tick, vars, RequestStep, Acquire, AcquireReplyLost, IncrementWait,
     IncrementWaitFailsOpen, GiveUp, DecrementWait, Release, ReadLoad, WriteIndex,
     NewRequest, process
<1>3. ASSUME NEW p \in Procs, ProcessStep(p) PROVE OneServes'
  <2>1. CASE Start(p)
    BY <2>1 DEF Start
  <2>2. CASE StartupStep(p)
    BY <2>2 DEF StartupStep, Sweep, Scan, CleanSlots, CleanWait, CleanMember
  <2>3. CASE CleanupFails(p)
    BY <2>3 DEF CleanupFails
  <2>4. CASE Crash(p) \/ Replace(p)
    BY <2>4 DEF Crash, Replace
  <2>5. CASE WorkerStep(p)
    BY <2>5, <1>1 DEF WorkerStep, ReconcileScan, ReconcileLoad, ReconcileWrite
  <2> QED
    BY <1>3, <2>1, <2>2, <2>3, <2>4, <2>5 DEF ProcessStep
<1> QED
  BY <1>2, <1>3 DEF Next

InQueue == {r \in Reqs : Queued(r)}

CounterOutlivesQueue ==
    \A r \in Reqs : Queued(r) => /\ Running(r)
                                 /\ 1 <= queued[r] /\ queued[r] <= waitLife

QueueInv == WaitCoversQueue /\ CounterOutlivesQueue /\ wait <= QueueLimit

LEMMA InQueueFinite == IsFiniteSet(InQueue) /\ Cardinality(InQueue) \in Nat
  BY ConstantsAssumption, FS_Subset, FS_CardinalityType DEF InQueue

\* Nobody joins the queue and the counter does not move.
LEMMA SameQueue ==
    ASSUME QueueInv, TypeOK, wait' = wait, waitLife' = waitLife,
           \A r \in Reqs : Queued(r)' => /\ Queued(r) /\ queued'[r] = queued[r]
                                         /\ Running(r) => Running(r)'
    PROVE  QueueInv'
<1>1. InQueue' \subseteq InQueue
  BY DEF InQueue
<1>2. Cardinality(InQueue') <= Cardinality(InQueue) /\ Cardinality(InQueue') \in Nat
  BY <1>1, InQueueFinite, FS_Subset, FS_CardinalityType
<1>3. WaitCoversQueue'
  BY <1>2, InQueueFinite DEF QueueInv, WaitCoversQueue, InQueue, TypeOK
<1> QED
  BY <1>3 DEF QueueInv, CounterOutlivesQueue

\* Nobody is queued: the counter may be anything up to the limit.
LEMMA EmptyQueue ==
    ASSUME \A r \in Reqs : ~Queued(r)', wait' \in Nat, wait' <= QueueLimit
    PROVE  QueueInv'
<1>1. InQueue' = {}
  BY DEF InQueue
<1>2. Cardinality(InQueue') = 0
  BY <1>1, FS_EmptySet
<1> QED
  BY <1>2 DEF QueueInv, WaitCoversQueue, CounterOutlivesQueue, InQueue

\* Where a request goes on after it has maintained the index.
ReturnInv ==
    \A r \in Reqs :
        /\ pc[r] = "refresh" => ret[r] \in {"serving", "done"}
        /\ pc[r] = "index" => ret[r] \in {"serving", "won", "waiting", "done"}

LEMMA ReturnNext ==
    ASSUME TypeOK, ReturnInv, [Next]_vars
    PROVE  ReturnInv'
<1> USE DEF TypeOK, ReturnInv
<1>1. CASE UNCHANGED vars \/ Tick
  BY <1>1 DEF vars, request, Tick
<1>2. ASSUME NEW q \in Reqs, RequestStep(q) PROVE ReturnInv'
  <2>1. CASE Acquire(q) \/ AcquireReplyLost(q)
    BY <2>1 DEF Acquire, AcquireReplyLost
  <2>2. CASE IncrementWait(q) \/ IncrementWaitFailsOpen(q) \/ GiveUp(q)
    BY <2>2 DEF IncrementWait, IncrementWaitFailsOpen, GiveUp
  <2>3. CASE DecrementWait(q) \/ Release(q)
    BY <2>3 DEF DecrementWait, Release
  <2>4. CASE ReadLoad(q) \/ WriteIndex(q) \/ NewRequest(q)
    BY <2>4 DEF ReadLoad, WriteIndex, NewRequest
  <2> QED
    BY <1>2, <2>1, <2>2, <2>3, <2>4 DEF RequestStep
<1>3. ASSUME NEW p \in Procs, ProcessStep(p) PROVE ReturnInv'
  <2>1. CASE Crash(p) \/ Replace(p)
    BY <2>1 DEF Crash, Replace
  <2>2. CASE ~Crash(p) /\ ~Replace(p)
    <3>1. UNCHANGED <<pc, ret>>
      BY <1>3, <2>2 DEF request, ProcessStep, StartupStep, WorkerStep, Start, Sweep, Scan,
         CleanSlots, CleanWait, CleanMember, CleanupFails, ReconcileScan,
         ReconcileLoad, ReconcileWrite
    <3> QED
      BY <3>1
  <2> QED
    BY <2>1, <2>2
<1> QED
  BY <1>1, <1>2, <1>3 DEF Next

LEMMA QueueRequest ==
    ASSUME TypeOK, QueueInv, ReturnInv, "incr" \notin Faults, NEW q \in Reqs, RequestStep(q)
    PROVE  QueueInv'
<1> USE DEF TypeOK
<1>0. UNCHANGED process /\ Running(q)
  BY DEF RequestStep, Acquire, AcquireReplyLost, IncrementWait,
     IncrementWaitFailsOpen, GiveUp, DecrementWait, Release, ReadLoad, WriteIndex,
     NewRequest
<1>r. \A r \in Reqs : Running(r) => Running(r)'
  BY <1>0 DEF Running, process
<1>1. CASE Acquire(q)
  BY <1>1, <1>r, SameQueue DEF Acquire, Queued
<1>2. CASE AcquireReplyLost(q)
  BY <1>2, <1>r, SameQueue DEF AcquireReplyLost, Queued
<1>3. CASE IncrementWait(q)
  <2>1. CASE ~QueueHasRoom
    BY <1>3, <1>r, <2>1, SameQueue DEF IncrementWait, Queued
  <2>2. CASE QueueHasRoom
    <3>1. InQueue' = InQueue \cup {q} /\ q \notin InQueue
      BY <1>3, <2>2 DEF IncrementWait, Queued, InQueue
    <3>2. Cardinality(InQueue') = Cardinality(InQueue) + 1
      BY <3>1, InQueueFinite, FS_AddElement
    <3>3. wait' = wait + 1 /\ wait' <= QueueLimit
      BY <1>3, <2>2, ConstantsAssumption DEF IncrementWait, QueueHasRoom
    <3>4. WaitCoversQueue'
      BY <3>2, <3>3, InQueueFinite DEF WaitCoversQueue, InQueue, QueueInv
    <3>5. CounterOutlivesQueue'
      <4> SUFFICES ASSUME NEW r \in Reqs, Queued(r)'
                   PROVE  Running(r)' /\ 1 <= queued'[r] /\ queued'[r] <= waitLife'
        BY DEF CounterOutlivesQueue
      <4>1. waitLife' = WaitTTL /\ queued' = [queued EXCEPT ![q] = WaitTTL]
        BY <1>3, <2>2 DEF IncrementWait, RefreshedWaitLife
      <4>2. CASE r = q
        BY <1>0, <1>r, <4>1, <4>2, LivesFacts
      <4>3. CASE r # q
        <5>1. Queued(r)
          BY <1>3, <2>2, <4>3 DEF IncrementWait, Queued
        <5> QED
          BY <1>r, <4>1, <4>3, <5>1, LivesFacts DEF QueueInv, CounterOutlivesQueue
      <4> QED
        BY <4>2, <4>3
    <3> QED
      BY <3>3, <3>4, <3>5 DEF QueueInv
  <2> QED
    BY <2>1, <2>2
<1>4. CASE DecrementWait(q)
  <2>1. InQueue' = InQueue \ {q} /\ q \in InQueue
    BY <1>4 DEF DecrementWait, Queued, InQueue
  <2>2. Cardinality(InQueue') = Cardinality(InQueue) - 1
    BY <2>1, InQueueFinite, FS_RemoveElement
  <2>3. Cardinality(InQueue) <= wait
    BY DEF QueueInv, WaitCoversQueue, InQueue
  <2>4. Cardinality(InQueue') \in Nat
    BY <2>1, InQueueFinite, FS_Subset, FS_CardinalityType
  <2>5. wait' = wait - 1 \/ wait' = wait
    BY <1>4 DEF DecrementWait, Decremented
  <2>6. Cardinality(InQueue') <= wait' /\ wait' <= QueueLimit
    BY <2>2, <2>3, <2>4, <2>5, InQueueFinite, ConstantsAssumption DEF QueueInv
  <2>7. CounterOutlivesQueue'
    BY <1>4, <1>r, <2>1 DEF DecrementWait, CounterOutlivesQueue, QueueInv, Queued
  <2> QED
    BY <2>6, <2>7 DEF QueueInv, WaitCoversQueue, InQueue
<1>5. CASE GiveUp(q)
  BY <1>5, <1>r, SameQueue DEF GiveUp, Queued, redis
<1>6. CASE Release(q)
  BY <1>6, <1>r, SameQueue DEF Release, Queued
<1>7. CASE ReadLoad(q)
  BY <1>7, <1>r, SameQueue DEF ReadLoad, Queued, ReturnInv
<1>8. CASE WriteIndex(q)
  BY <1>8, <1>r, SameQueue DEF WriteIndex, Queued, ReturnInv
<1>9. CASE NewRequest(q)
  BY <1>9, <1>r, SameQueue DEF NewRequest, Queued, redis
<1>10. ~IncrementWaitFailsOpen(q)
  BY DEF IncrementWaitFailsOpen
<1> QED
  BY <1>1, <1>2, <1>3, <1>4, <1>5, <1>6, <1>7, <1>8, <1>9, <1>10 DEF RequestStep

LEMMA QueueProcess ==
    ASSUME TypeOK, OneServes, QueueInv, NEW p \in Procs, ProcessStep(p)
    PROVE  QueueInv'
<1> USE DEF TypeOK
<1>0. \A r \in Reqs : Owner[r] \in Procs
  BY ConstantsAssumption
<1>1. ASSUME proc[p] \in {"sweep", "wait"}, NEW r \in Reqs PROVE ~Queued(r)
  \* A process that is cleaning up is the only started one.
  BY <1>0, <1>1 DEF QueueInv, CounterOutlivesQueue, OneServes, Started, Running
<1>2. CASE Sweep(p) \/ CleanWait(p)
  <2>1. \A r \in Reqs : ~Queued(r)'
    BY <1>1, <1>2 DEF Sweep, CleanWait, Queued, request
  <2>2. wait' \in Nat /\ wait' <= QueueLimit
    BY <1>2, ConstantsAssumption DEF Sweep, CleanWait, QueueInv
  <2> QED
    BY <2>1, <2>2, EmptyQueue
<1>3. CASE Start(p) \/ Scan(p) \/ CleanSlots(p) \/ CleanMember(p) \/ CleanupFails(p)
  BY <1>0, <1>3, SameQueue DEF Start, Scan, CleanSlots, CleanMember, CleanupFails,
     Queued, Running, request, redis
<1>4. CASE Crash(p)
  BY <1>0, <1>4, SameQueue DEF Crash, Queued, Running, redis
<1>5. CASE Replace(p)
  BY <1>0, <1>5, SameQueue DEF Replace, Queued, Running, redis
<1>6. CASE WorkerStep(p)
  BY <1>6, SameQueue DEF WorkerStep, ReconcileScan, ReconcileLoad, ReconcileWrite,
     Queued, Running, request, redis
<1> QED
  BY <1>2, <1>3, <1>4, <1>5, <1>6 DEF ProcessStep, StartupStep

LEMMA QueueTick ==
    ASSUME TypeOK, QueueInv, SpanBounded, Tick
    PROVE  QueueInv'
<1> USE DEF TypeOK
<1>q. \A r \in Reqs : Queued(r)' <=> Queued(r)
  BY DEF Tick, Queued
<1>1. CASE \A r \in Reqs : ~Queued(r)
  BY <1>1, <1>q, EmptyQueue, ConstantsAssumption DEF Tick, QueueInv
<1>2. CASE \E r \in Reqs : Queued(r)
  <2>1. \A r \in Reqs : Queued(r) => queued[r] > 1 /\ queued[r] <= waitLife
    BY DEF Tick, QueueInv, CounterOutlivesQueue
  <2>2. waitLife > 1
    BY <1>2, <2>1, LivesFacts
  <2>3. wait' = wait /\ waitLife' = waitLife - 1
    BY <2>2, LivesFacts DEF Tick, Decay
  <2>4. WaitCoversQueue' /\ wait' <= QueueLimit
    <3>1. {r \in Reqs : Queued(r)}' = {r \in Reqs : Queued(r)}
      BY <1>q
    <3> QED
      BY <2>3, <3>1 DEF WaitCoversQueue, QueueInv
  <2>5. CounterOutlivesQueue'
    <3> SUFFICES ASSUME NEW r \in Reqs, Queued(r)'
                 PROVE  Running(r)' /\ 1 <= queued'[r] /\ queued'[r] <= waitLife'
      BY DEF CounterOutlivesQueue
    <3>1. Queued(r)
      BY <1>q
    <3>2. Running(r)'
      BY <3>1 DEF QueueInv, CounterOutlivesQueue, Tick, Running
    <3>3. queued'[r] = queued[r] - 1
      BY <2>1, <3>1 DEF Tick, Decay
    <3> QED
      BY <2>1, <2>3, <3>1, <3>2, <3>3, LivesFacts
  <2> QED
    BY <2>4, <2>5 DEF QueueInv
<1> QED
  BY <1>1, <1>2

\* The wait counter is at least the length of the queue and the queue at most
\* its limit, through crashes, leaked counts, expiry and startup cleanup, unless
\* increments fail open, processes overlap or requests outlive the TTL.
THEOREM QueueLimitEnforced ==
    ASSUME ~Overlap, SpanBounded, "incr" \notin Faults
    PROVE  Spec => [](WaitCoversQueue /\ WaitersBounded)
<1> DEFINE IInv == OneServes /\ ReturnInv /\ QueueInv
<1>1. Init => IInv
  <2> SUFFICES ASSUME Init PROVE IInv
    OBVIOUS
  <2>1. OneServes /\ ReturnInv
    BY DEF Init, OneServes, Started, ReturnInv
  <2>2. InQueue = {} /\ \A r \in Reqs : ~Queued(r)
    BY DEF Init, InQueue, Queued
  <2>3. Cardinality(InQueue) = 0
    BY <2>2, FS_EmptySet
  <2>4. QueueInv
    BY <2>2, <2>3, ConstantsAssumption
       DEF Init, QueueInv, WaitCoversQueue, CounterOutlivesQueue, InQueue
  <2> QED
    BY <2>1, <2>4
<1>2. TypeOK /\ IInv /\ [Next]_vars => IInv'
  <2> SUFFICES ASSUME TypeOK, IInv, [Next]_vars PROVE IInv'
    OBVIOUS
  <2>0. OneServes' /\ ReturnInv'
    BY OneServesNext, ReturnNext
  <2>1. CASE UNCHANGED vars
    BY <2>0, <2>1, SameQueue DEF vars, redis, request, process, Queued, Running
  <2>2. CASE Next
    BY <2>0, <2>2, QueueRequest, QueueProcess, QueueTick DEF Next
  <2> QED
    BY <2>1, <2>2
<1>3. TypeOK /\ IInv => WaitCoversQueue /\ WaitersBounded
  <2> SUFFICES ASSUME TypeOK, QueueInv PROVE WaitersBounded
    BY DEF QueueInv
  <2> QED
    BY InQueueFinite, ConstantsAssumption
       DEF TypeOK, QueueInv, WaitCoversQueue, WaitersBounded, InQueue
<1> QED
  BY <1>1, <1>2, <1>3, TypeCorrect, PTL DEF Spec

\* No more requests wait in the queue than IncrementWaitCount admits, under
\* the same conditions.
THEOREM WaitersAreBounded ==
    ASSUME ~Overlap, SpanBounded, "incr" \notin Faults
    PROVE  Spec => []WaitersBounded
BY QueueLimitEnforced, PTL
=============================================================================
