-------------------------- MODULE IdempotencyProofs --------------------------
(***************************************************************************)
(* For any number of requests, any fingerprints and any timeouts: one row  *)
(* for the key at most, one executor of it at a time, replays of what      *)
(* happened for the same fingerprint, and one effect in the life of a      *)
(* record.                                                                 *)
(***************************************************************************)
EXTENDS Idempotency, TLAPS

LEMMA RecordType ==
    ASSUME NEW id \in Nat, NEW fp \in Fingerprints, NEW status \in Statuses,
           NEW lock \in Nat, NEW exp \in Nat, NEW b \in Bodies
    PROVE  Record(id, fp, status, lock, exp, b) \in Records
  BY DEF Record, Records

LEMMA RecordFields ==
    ASSUME NEW x \in Records
    PROVE  /\ x.id \in Nat /\ x.fp \in Fingerprints /\ x.status \in Statuses
           /\ x.lock \in Nat /\ x.exp \in Nat /\ x.body \in Bodies
  BY DEF Records

LEMMA ReclaimedType ==
    ASSUME NEW x \in Records, NEW t \in Nat
    PROVE  /\ Reclaimed(x, t) \in Records
           /\ Reclaimed(x, t).id = x.id /\ Reclaimed(x, t).fp = x.fp
           /\ Reclaimed(x, t).status = "processing"
           /\ Reclaimed(x, t).lock = t + ProcessingTimeout
           /\ Reclaimed(x, t).exp = t + TTL
<1>1. Reclaimed(x, t) \in Records
  BY ConstantsAssumption, RecordType, RecordFields DEF Reclaimed, Statuses
<1> QED
  BY <1>1 DEF Reclaimed, Record

LEMMA MarkedType ==
    ASSUME TypeOK, NEW x \in Records, NEW r \in Reqs
    PROVE  /\ Succeeded(x, Stored(r), ResultExpiry(r)) \in Records
           /\ Failed(x, ResultExpiry(r)) \in Records
<1>1. ResultExpiry(r) \in Nat
  BY ConstantsAssumption DEF ResultExpiry, TypeOK
<1>2. Stored(r) \in Bodies
  BY DEF Stored, Bodies
<1>3. /\ "succeeded" \in Statuses /\ "failed_retryable" \in Statuses
      /\ NullLock \in Nat /\ now + Backoff \in Nat
  BY ConstantsAssumption DEF Statuses, NullLock, TypeOK
<1>4. /\ x.id \in Nat /\ x.fp \in Fingerprints /\ x.body \in Bodies
  BY RecordFields
<1>5. Record(x.id, x.fp, "succeeded", NullLock, ResultExpiry(r), Stored(r)) \in Records
  BY <1>1, <1>2, <1>3, <1>4, RecordType
<1>6. Record(x.id, x.fp, "failed_retryable", now + Backoff, ResultExpiry(r), x.body)
        \in Records
  BY <1>1, <1>3, <1>4, RecordType
<1> QED
  BY <1>5, <1>6 DEF Succeeded, Failed

LEMMA TypeClaim ==
    ASSUME TypeOK, NEW r \in Reqs,
           Begin(r) \/ CreateProcessing(r) \/ GetExisting(r) \/ ReclaimExpired(r)
               \/ GetAgain(r) \/ ReclaimFailed(r) \/ StoreFails(r)
    PROVE  TypeOK'
<1>0. /\ start[r] + ProcessingTimeout \in Nat /\ start[r] + TTL \in Nat
      /\ NoBody \in Bodies /\ \A x \in Records : x.body \in Bodies /\ x.id \in Nat
  BY ConstantsAssumption, RecordFields DEF TypeOK, Bodies
<1> USE <1>0 DEF TypeOK, Goto, Return, Own
<1>1. CASE Begin(r)
  BY <1>1 DEF Begin, Claiming
<1>2. CASE CreateProcessing(r)
  <2>1. Record(nextId, Fingerprint[r], "processing", start[r] + ProcessingTimeout,
               start[r] + TTL, NoBody) \in Records
    BY RecordType DEF Fingerprints, Statuses
  <2> QED
    BY <1>2, <2>1 DEF CreateProcessing, Executing, Claiming
<1>3. CASE GetExisting(r)
  <2>1. pc' \in [Reqs -> {"idle", "done", "dead"} \cup Claiming \cup Executing]
    BY <1>3 DEF GetExisting, FollowStatus, Claiming
  <2>2. seen' \in [Reqs -> SUBSET Records]
    BY <1>3 DEF GetExisting
  <2>3. result' \in [Reqs -> Results] /\ body' \in [Reqs -> Bodies]
    BY <1>3 DEF GetExisting, FollowStatus, Results
  <2> QED
    BY <1>3, <2>1, <2>2, <2>3 DEF GetExisting
<1>4. CASE ReclaimExpired(r)
  <2>1. pc' \in [Reqs -> {"idle", "done", "dead"} \cup Claiming \cup Executing]
    BY <1>4 DEF ReclaimExpired, Claiming, Executing
  <2>2. row' \in SUBSET Records /\ \A x, y \in row' : x = y
    <3>1. \A y \in row : Reclaimed(y, start[r]) \in Records
      BY ReclaimedType
    <3>2. row' = row \/ \E y \in row : row' = {Reclaimed(y, start[r])}
      BY <1>4 DEF ReclaimExpired
    <3> QED
      BY <3>1, <3>2
  <2>3. rid' \in [Reqs -> Nat] /\ deadline' \in [Reqs -> Nat]
    BY <1>4 DEF ReclaimExpired
  <2> QED
    BY <1>4, <2>1, <2>2, <2>3 DEF ReclaimExpired
<1>5. CASE GetAgain(r)
  BY <1>5 DEF GetAgain, FollowStatus, Results, Claiming
<1>6. CASE ReclaimFailed(r)
  <2>1. pc' \in [Reqs -> {"idle", "done", "dead"} \cup Claiming \cup Executing]
    BY <1>6 DEF ReclaimFailed, Claiming, Executing
  <2>2. row' \in SUBSET Records /\ \A x, y \in row' : x = y
    <3>1. \A y \in row : Reclaimed(y, start[r]) \in Records
      BY ReclaimedType
    <3>2. row' = row \/ \E y \in row : row' = {Reclaimed(y, start[r])}
      BY <1>6 DEF ReclaimFailed
    <3> QED
      BY <3>1, <3>2
  <2>3. rid' \in [Reqs -> Nat] /\ deadline' \in [Reqs -> Nat]
    BY <1>6 DEF ReclaimFailed
  <2>4. result' \in [Reqs -> Results] /\ body' \in [Reqs -> Bodies]
    BY <1>6 DEF ReclaimFailed, Results
  <2> QED
    BY <1>6, <2>1, <2>2, <2>3, <2>4 DEF ReclaimFailed
<1>7. CASE StoreFails(r)
  BY <1>7 DEF StoreFails, Results
<1> QED
  BY <1>1, <1>2, <1>3, <1>4, <1>5, <1>6, <1>7

LEMMA TypeExecute ==
    ASSUME TypeOK, NEW r \in Reqs,
           ExecuteSucceeds(r) \/ ExecuteFails(r) \/ ExtendProcessingLock(r)
               \/ MarkSucceeded(r) \/ MarkFailedRetryable(r) \/ Crash(r)
    PROVE  TypeOK'
<1> USE DEF TypeOK, Goto, Return
<1>1. CASE ExecuteSucceeds(r)
  <2>1. effects' \subseteq [by : Reqs, at : Nat, until : Nat]
    <3>1. [by |-> r, at |-> now, until |-> deadline[r]] \in [by : Reqs, at : Nat, until : Nat]
      OBVIOUS
    <3> QED
      BY <1>1, <3>1 DEF ExecuteSucceeds
  <2> QED
    BY <1>1, <2>1 DEF ExecuteSucceeds, Executing
<1>2. CASE ExecuteFails(r)
  BY <1>2 DEF ExecuteFails, Executing
<1>3. CASE ExtendProcessingLock(r)
  <2>1. \A x \in row : Reclaimed(x, now) \in Records
    BY ReclaimedType
  <2>2. row' \in SUBSET Records /\ \A x, y \in row' : x = y
    BY <1>3, <2>1 DEF ExtendProcessingLock
  <2>3. now + TTL \in Nat
    BY ConstantsAssumption
  <2> QED
    BY <1>3, <2>2, <2>3 DEF ExtendProcessingLock
<1>4. CASE MarkSucceeded(r)
  <2>1. row' \in SUBSET Records /\ \A x, y \in row' : x = y
    <3>1. \A x \in row : Succeeded(x, Stored(r), ResultExpiry(r)) \in Records
      BY MarkedType
    <3> QED
      BY <1>4, <3>1 DEF MarkSucceeded
  <2> QED
    BY <1>4, <2>1 DEF MarkSucceeded, Results, Bodies
<1>5. CASE MarkFailedRetryable(r)
  <2>1. row' \in SUBSET Records /\ \A x, y \in row' : x = y
    <3>1. \A x \in row : Failed(x, ResultExpiry(r)) \in Records
      BY MarkedType
    <3> QED
      BY <1>5, <3>1 DEF MarkFailedRetryable
  <2> QED
    BY <1>5, <2>1 DEF MarkFailedRetryable, Results, Bodies
<1>6. CASE Crash(r)
  BY <1>6 DEF Crash
<1> QED
  BY <1>1, <1>2, <1>3, <1>4, <1>5, <1>6

\* Every reachable state is well typed; in particular the key has one row at
\* most, whatever inserts, reclaims and cleanups interleave.
THEOREM TypeCorrect == Spec => []TypeOK
<1>1. Init => TypeOK
  BY DEF Init, TypeOK, Records, Bodies, Results
<1>2. TypeOK /\ [Next]_vars => TypeOK'
  <2> SUFFICES ASSUME TypeOK, [Next]_vars PROVE TypeOK'
    OBVIOUS
  <2>1. CASE UNCHANGED vars
    BY <2>1 DEF vars, TypeOK
  <2>2. ASSUME NEW r \in Reqs, RequestStep(r) PROVE TypeOK'
    BY <2>2, TypeClaim, TypeExecute DEF RequestStep
  <2>3. CASE DeleteExpired \/ Tick
    BY <2>3 DEF DeleteExpired, Tick, TypeOK
  <2> QED
    BY <2>1, <2>2, <2>3 DEF Next
<1> QED
  BY <1>1, <1>2, PTL DEF Spec

-----------------------------------------------------------------------------
(* One executor.                                                           *)

\* Nobody executes when the row is gone, failed, finished or expired.
LEMMA NoExecutor ==
    ASSUME TypeOK, ExecutorInv,
           \A x \in row : x.status # "processing" \/ x.exp <= now
    PROVE  \A q \in Reqs : pc[q] \notin Executing
  BY DEF TypeOK, ExecutorInv, ExecutorOwnsRow, Records

\* Taking the row over while nobody executes makes the taker the executor.
LEMMA TakeOver ==
    ASSUME TypeOK, ExecutorInv, ProcessingTimeout <= TTL, NEW r \in Reqs, NEW id,
           pc[r] \in Claiming, \A q \in Reqs : pc[q] \notin Executing,
           Own(r, id), UNCHANGED <<now, start>>,
           NEW y, row' = {y}, y.id = id, y.status = "processing",
           y.lock = start[r] + ProcessingTimeout, y.exp = start[r] + TTL
    PROVE  ExecutorInv'
<1>1. /\ pc' = [pc EXCEPT ![r] = "exec"] /\ rid' = [rid EXCEPT ![r] = id]
      /\ deadline' = [deadline EXCEPT ![r] = start[r] + TTL]
  BY DEF Own, Goto
<1>2. /\ start[r] <= now /\ now < start[r] + ProcessingTimeout
      /\ start[r] \in Nat /\ now \in Nat /\ TTL \in Nat /\ ProcessingTimeout \in Nat
  BY ConstantsAssumption DEF ExecutorInv, ClaimsAreFresh, TypeOK
<1>3. \A q \in Reqs : pc'[q] \in Executing => q = r
  BY <1>1 DEF TypeOK
<1>4. \A q \in Reqs : pc'[q] \in Claiming => pc[q] \in Claiming /\ pc'[q] = pc[q]
  BY <1>1 DEF TypeOK, Claiming
<1>5. OneExecutor'
  BY <1>3 DEF OneExecutor
<1>6. ExecutorOwnsRow'
  BY <1>1, <1>2, <1>3 DEF ExecutorOwnsRow, TypeOK
<1>7. ClaimsAreFresh'
  BY <1>4 DEF ExecutorInv, ClaimsAreFresh
<1>8. LockOutlivesClaims'
  <2> SUFFICES ASSUME NEW p \in Reqs, pc'[p] = "reclaim_expired"
               PROVE  y.lock > start[p]
    BY DEF LockOutlivesClaims
  <2>1. start[p] <= now
    BY <1>4 DEF ExecutorInv, ClaimsAreFresh, Claiming
  <2> QED
    BY <1>2, <2>1 DEF TypeOK
<1> QED
  BY <1>5, <1>6, <1>7, <1>8 DEF ExecutorInv

\* A request that only moves on, without entering the execution or setting out
\* to reclaim an expired row, disturbs nothing.
LEMMA MoveOn ==
    ASSUME TypeOK, ExecutorInv, NEW r \in Reqs, NEW l,
           Goto(r, l), UNCHANGED <<now, row, start, rid, deadline>>,
           l \in {"done", "dead"} \/ (l \in Claiming /\ pc[r] \in Claiming
                                        /\ l # "reclaim_expired")
               \/ (l \in Executing /\ pc[r] \in Executing)
    PROVE  ExecutorInv'
<1>1. \A q \in Reqs : /\ pc'[q] \in Executing => pc[q] \in Executing
                      /\ pc'[q] \in Claiming => pc[q] \in Claiming
                      /\ pc'[q] = "reclaim_expired" => pc[q] = "reclaim_expired"
  BY DEF Goto, TypeOK, Claiming, Executing
<1> QED
  BY <1>1 DEF ExecutorInv, OneExecutor, ExecutorOwnsRow, LockOutlivesClaims, ClaimsAreFresh

\* The executor that marks its record was the only one.
LEMMA Leave ==
    ASSUME TypeOK, ExecutorInv, NEW r \in Reqs, pc[r] \in Executing,
           Goto(r, "done"), UNCHANGED <<now, start, rid, deadline>>
    PROVE  ExecutorInv'
<1>1. \A q \in Reqs : /\ pc'[q] \notin Executing
                      /\ pc'[q] \in Claiming => pc[q] \in Claiming
  BY DEF Goto, TypeOK, Claiming, Executing, ExecutorInv, OneExecutor
<1> QED
  BY <1>1 DEF ExecutorInv, OneExecutor, ExecutorOwnsRow, LockOutlivesClaims, ClaimsAreFresh

LEMMA ExecutorClaim ==
    ASSUME TypeOK, ExecutorInv, ProcessingTimeout <= TTL, NEW r \in Reqs,
           Begin(r) \/ CreateProcessing(r) \/ GetExisting(r) \/ ReclaimExpired(r)
               \/ GetAgain(r) \/ ReclaimFailed(r) \/ StoreFails(r)
    PROVE  ExecutorInv'
<1>1. CASE Begin(r)
  <2>1. \A q \in Reqs : /\ pc'[q] \in Executing => pc[q] \in Executing
                        /\ pc'[q] = "reclaim_expired" => pc[q] = "reclaim_expired" /\ q # r
                        /\ pc'[q] \in Claiming => q = r \/ pc[q] \in Claiming
    BY <1>1 DEF Begin, Goto, TypeOK, Executing, Claiming
  <2>2. \A q \in Reqs : start'[q] = IF q = r THEN now ELSE start[q]
    BY <1>1 DEF Begin, TypeOK
  <2>3. UNCHANGED <<now, row, rid, deadline>>
    BY <1>1 DEF Begin
  <2>4. ClaimsAreFresh'
    BY <2>1, <2>2, <2>3, ConstantsAssumption DEF ExecutorInv, ClaimsAreFresh, TypeOK
  <2> QED
    BY <2>1, <2>2, <2>3, <2>4
       DEF ExecutorInv, OneExecutor, ExecutorOwnsRow, LockOutlivesClaims
<1>2. CASE CreateProcessing(r)
  <2>1. CASE row = {}
    <3> DEFINE y == Record(nextId, Fingerprint[r], "processing",
                           start[r] + ProcessingTimeout, start[r] + TTL, NoBody)
    <3>1. /\ y.id = nextId /\ y.status = "processing"
          /\ y.lock = start[r] + ProcessingTimeout /\ y.exp = start[r] + TTL
      BY DEF Record
    <3>2. row' = {y} /\ Own(r, nextId) /\ UNCHANGED <<now, start>> /\ pc[r] \in Claiming
      BY <1>2, <2>1 DEF CreateProcessing, Claiming
    <3>3. \A q \in Reqs : pc[q] \notin Executing
      BY <2>1, NoExecutor
    <3> HIDE DEF y
    <3> QED
      BY <3>1, <3>2, <3>3, TakeOver
  <2>2. CASE row # {}
    BY <1>2, <2>2, MoveOn DEF CreateProcessing, Claiming
  <2> QED
    BY <2>1, <2>2
<1>3. CASE GetExisting(r)
  <2>0. UNCHANGED <<now, row, start, rid, deadline>> /\ pc[r] \in Claiming
    BY <1>3 DEF GetExisting, Claiming
  <2>1. CASE Goto(r, "reclaim_expired") /\ \E x \in row : IsExpired(x, start[r])
    <3>1. \A x \in row : x.exp <= now
      BY <2>0, <2>1 DEF IsExpired, TypeOK, Records, ExecutorInv, ClaimsAreFresh
    <3>2. \A q \in Reqs : pc[q] \notin Executing
      BY <3>1, NoExecutor
    <3>3. \A q \in Reqs : /\ pc'[q] \notin Executing
                          /\ pc'[q] \in Claiming => pc[q] \in Claiming
      BY <2>0, <2>1, <3>2 DEF Goto, TypeOK, Executing
    <3> QED
      BY <2>0, <3>3
         DEF ExecutorInv, OneExecutor, ExecutorOwnsRow, LockOutlivesClaims, ClaimsAreFresh
  <2>2. CASE \E l \in {"done", "reclaim"} : Goto(r, l)
    BY <2>0, <2>2, MoveOn DEF Claiming
  <2> QED
    BY <1>3, <2>1, <2>2 DEF GetExisting, FollowStatus, Return
<1>4. CASE ReclaimExpired(r)
  <2>0. UNCHANGED <<now, start>> /\ pc[r] \in Claiming /\ pc[r] = "reclaim_expired"
    BY <1>4 DEF ReclaimExpired, Claiming
  <2>1. ASSUME NEW x \in seen[r], NEW y \in row,
               Reclaimable(y, x.id, x.status, start[r]),
               row' = {Reclaimed(y, start[r])}, Own(r, x.id)
        PROVE  ExecutorInv'
    <3>1. \A q \in Reqs : pc[q] \notin Executing
      BY <2>0, <2>1 DEF Reclaimable, ExecutorInv, LockOutlivesClaims, TypeOK, Records
    <3>2. y \in Records /\ start[r] \in Nat
      BY DEF TypeOK
    <3>3. /\ Reclaimed(y, start[r]).id = x.id
          /\ Reclaimed(y, start[r]).status = "processing"
          /\ Reclaimed(y, start[r]).lock = start[r] + ProcessingTimeout
          /\ Reclaimed(y, start[r]).exp = start[r] + TTL
      BY <2>1, <3>2, ReclaimedType DEF Reclaimable
    <3> QED
      BY <2>0, <2>1, <3>1, <3>3, TakeOver
  <2>2. CASE Goto(r, "get_again") /\ UNCHANGED <<row, rid, deadline>>
    BY <2>0, <2>2, MoveOn DEF Claiming
  <2> QED
    BY <1>4, <2>1, <2>2 DEF ReclaimExpired
<1>5. CASE GetAgain(r)
  <2>1. UNCHANGED <<now, row, start, rid, deadline>> /\ pc[r] \in Claiming
    BY <1>5 DEF GetAgain, Claiming
  <2>2. \E l \in {"done", "reclaim"} : Goto(r, l)
    BY <1>5 DEF GetAgain, FollowStatus, Return
  <2> QED
    BY <2>1, <2>2, MoveOn DEF Claiming
<1>6. CASE ReclaimFailed(r)
  <2>0. UNCHANGED <<now, start>> /\ pc[r] \in Claiming
    BY <1>6 DEF ReclaimFailed, Claiming
  <2>1. ASSUME NEW x \in seen[r], NEW y \in row,
               Reclaimable(y, x.id, "failed_retryable", start[r]),
               row' = {Reclaimed(y, start[r])}, Own(r, x.id)
        PROVE  ExecutorInv'
    <3>1. \A q \in Reqs : pc[q] \notin Executing
      BY <2>1, NoExecutor DEF Reclaimable, TypeOK
    <3>2. y \in Records /\ start[r] \in Nat
      BY DEF TypeOK
    <3>3. /\ Reclaimed(y, start[r]).id = x.id
          /\ Reclaimed(y, start[r]).status = "processing"
          /\ Reclaimed(y, start[r]).lock = start[r] + ProcessingTimeout
          /\ Reclaimed(y, start[r]).exp = start[r] + TTL
      BY <2>1, <3>2, ReclaimedType DEF Reclaimable
    <3> QED
      BY <2>0, <2>1, <3>1, <3>3, TakeOver
  <2>2. CASE Goto(r, "done") /\ UNCHANGED <<row, rid, deadline>>
    BY <2>0, <2>2, MoveOn
  <2> QED
    BY <1>6, <2>1, <2>2 DEF ReclaimFailed, Return
<1>7. CASE StoreFails(r)
  BY <1>7, MoveOn DEF StoreFails, Return
<1> QED
  BY <1>1, <1>2, <1>3, <1>4, <1>5, <1>6, <1>7

LEMMA ExecutorExecute ==
    ASSUME TypeOK, ExecutorInv, NEW r \in Reqs,
           ExecuteSucceeds(r) \/ ExecuteFails(r) \/ ExtendProcessingLock(r)
               \/ MarkSucceeded(r) \/ MarkFailedRetryable(r) \/ Crash(r)
    PROVE  ExecutorInv'
<1>1. CASE ExecuteSucceeds(r)
  BY <1>1, MoveOn DEF ExecuteSucceeds, Executing
<1>2. CASE ExecuteFails(r)
  BY <1>2, MoveOn DEF ExecuteFails, Executing
<1>3. CASE ExtendProcessingLock(r)
  <2>1. PICK x \in row : x.id = rid[r] /\ row' = {Reclaimed(x, now)}
    BY <1>3 DEF ExtendProcessingLock
  <2>2. /\ UNCHANGED <<now, pc, start, rid>> /\ pc[r] \in Executing
        /\ deadline' = [deadline EXCEPT ![r] = now + TTL]
    BY <1>3 DEF ExtendProcessingLock, Executing
  <2>3. x \in Records /\ now \in Nat
    BY DEF TypeOK
  <2>4. /\ Reclaimed(x, now).id = x.id /\ Reclaimed(x, now).status = "processing"
        /\ Reclaimed(x, now).lock = now + ProcessingTimeout
        /\ Reclaimed(x, now).exp = now + TTL
    BY <2>3, ReclaimedType
  <2>5. \A q \in Reqs : pc[q] \in Executing => q = r
    BY <2>2 DEF ExecutorInv, OneExecutor
  <2>6. ExecutorOwnsRow'
    BY <2>1, <2>2, <2>3, <2>4, <2>5, ConstantsAssumption DEF ExecutorOwnsRow, TypeOK
  <2>7. LockOutlivesClaims'
    BY <2>1, <2>2, <2>3, <2>4, ConstantsAssumption
       DEF LockOutlivesClaims, ExecutorInv, ClaimsAreFresh, Claiming, TypeOK
  <2> QED
    BY <2>2, <2>6, <2>7 DEF ExecutorInv, OneExecutor, ClaimsAreFresh
<1>4. CASE MarkSucceeded(r)
  BY <1>4, Leave DEF MarkSucceeded, Return, Executing
<1>5. CASE MarkFailedRetryable(r)
  BY <1>5, Leave DEF MarkFailedRetryable, Return, Executing
<1>6. CASE Crash(r)
  BY <1>6, MoveOn DEF Crash
<1> QED
  BY <1>1, <1>2, <1>3, <1>4, <1>5, <1>6

LEMMA ExecutorInvariant ==
    ASSUME ProcessingTimeout <= TTL
    PROVE  Spec => []ExecutorInv
<1>1. Init => ExecutorInv
  BY DEF Init, ExecutorInv, OneExecutor, ExecutorOwnsRow, LockOutlivesClaims,
         ClaimsAreFresh, Executing, Claiming
<1>2. TypeOK /\ ExecutorInv /\ [Next]_vars => ExecutorInv'
  <2> SUFFICES ASSUME TypeOK, ExecutorInv, [Next]_vars PROVE ExecutorInv'
    OBVIOUS
  <2>1. CASE UNCHANGED vars
    BY <2>1 DEF vars, ExecutorInv, OneExecutor, ExecutorOwnsRow, LockOutlivesClaims,
                ClaimsAreFresh
  <2>2. ASSUME NEW r \in Reqs, RequestStep(r) PROVE ExecutorInv'
    BY <2>2, ExecutorClaim, ExecutorExecute DEF RequestStep
  <2>3. CASE DeleteExpired
    <3>1. \A x \in row : x.exp <= now
      BY <2>3 DEF DeleteExpired, IsExpired, TypeOK
    <3>2. \A q \in Reqs : pc[q] \notin Executing
      BY <3>1, NoExecutor
    <3> QED
      BY <2>3, <3>2 DEF DeleteExpired, ExecutorInv, OneExecutor, ExecutorOwnsRow,
                        LockOutlivesClaims, ClaimsAreFresh
  <2>4. CASE Tick
    <3>1. /\ UNCHANGED <<row, pc, start, rid, deadline>> /\ now' = now + 1
          /\ \A q \in Reqs : /\ pc[q] \in Claiming => now + 1 < start[q] + ProcessingTimeout
                             /\ pc[q] \in Executing => now + 1 < deadline[q]
      BY <2>4 DEF Tick
    <3>2. ExecutorOwnsRow'
      BY <3>1 DEF ExecutorInv, ExecutorOwnsRow
    <3>3. ClaimsAreFresh'
      BY <3>1 DEF ExecutorInv, ClaimsAreFresh, TypeOK
    <3> QED
      BY <3>1, <3>2, <3>3 DEF ExecutorInv, OneExecutor, LockOutlivesClaims
  <2> QED
    BY <2>1, <2>2, <2>3, <2>4 DEF Next
<1> QED
  BY <1>1, <1>2, TypeCorrect, PTL DEF Spec

\* At most one request at a time is between taking the record and marking its
\* outcome, for any number of requests and instances and any timeouts with
\* ProcessingTimeout <= TTL (the defaults are 30 seconds and 24 hours): the
\* insert, the two TryReclaim calls, the renewal and the cleanup exclude each
\* other although none of them reads and writes in one transaction.
THEOREM ExecutorIsAlone ==
    ASSUME ProcessingTimeout <= TTL
    PROVE  Spec => []OneExecutor
<1>1. ExecutorInv => OneExecutor
  BY DEF ExecutorInv
<1> QED
  BY <1>1, ExecutorInvariant, PTL

-----------------------------------------------------------------------------
(* Faithful replays.                                                       *)

\* y is what one statement makes of the row: the row itself, with its id and
\* fingerprint, which is not marked by this step unless its effect is there, or
\* a new row with the next id.
Follows(y) ==
    \/ \E x \in row : /\ y.id = x.id /\ y.fp = x.fp
                      /\ y.status = "succeeded" /\ y.body # Truncated =>
                            \/ x.status = "succeeded" /\ x.body = y.body
                            \/ Happened(y.body, y.fp)
    \/ y.id = nextId /\ nextId < nextId' /\ y.status # "succeeded"

\* What every step of request r has to respect for ReplayInv.
LEMMA ReplayStep ==
    ASSUME TypeOK, TypeOK', ReplayInv, NEW r \in Reqs,
           \A q \in Reqs \ {r} :
                /\ pc'[q] = pc[q] /\ seen'[q] = seen[q] /\ rid'[q] = rid[q]
                /\ result'[q] = result[q] /\ body'[q] = body[q],
           effects \subseteq effects', nextId <= nextId',
           \A y \in row' : Follows(y),
           rid'[r] < nextId',
           seen'[r] = seen[r] \/ seen'[r] = row,
           pc'[r] \in {"reclaim_expired", "reclaim"} =>
                \A x \in seen'[r] : SameRequest(r, x),
           pc'[r] \in Executing => \A x \in row' : x.id = rid'[r] => SameRequest(r, x),
           pc'[r] = "mark_succeeded" => Happened(r, Fingerprint[r])',
           result'[r] = "replayed" =>
                \E e \in effects' : e.by = body'[r] /\ Fingerprint[e.by] = Fingerprint[r]
    PROVE  ReplayInv'
<1>0. /\ nextId \in Nat /\ nextId' \in Nat
      /\ \A x \in row : x \in Records /\ x.id \in Nat
      /\ \A y \in row' : y \in Records /\ y.id \in Nat
      /\ \A q \in Reqs : rid[q] \in Nat /\ rid'[q] \in Nat
      /\ \A q \in Reqs : \A x \in seen[q] : x.id \in Nat
      /\ \A x, y \in row : x = y
  BY RecordFields DEF TypeOK
<1>1. \A b, fp : Happened(b, fp) => Happened(b, fp)'
  BY DEF Happened
<1>2. \A q \in Reqs : seen'[q] = seen[q] \/ seen'[q] = row
  OBVIOUS
<1>3. IdsAreDrawn'
  <2>1. \A y \in row' : 0 < y.id /\ y.id < nextId'
    BY <1>0 DEF Follows, ReplayInv, IdsAreDrawn
  <2>2. \A q \in Reqs : \A x \in seen'[q] : 0 < x.id /\ x.id < nextId'
    BY <1>0, <1>2 DEF ReplayInv, IdsAreDrawn
  <2>3. \A q \in Reqs : rid'[q] < nextId'
    BY <1>0 DEF ReplayInv, IdsAreDrawn
  <2> QED
    BY <1>0, <2>1, <2>2, <2>3 DEF ReplayInv, IdsAreDrawn
<1>4. FingerprintsMatch'
  <2>1. ASSUME NEW q \in Reqs, NEW x \in seen'[q], NEW y \in row', x.id = y.id
        PROVE  x.fp = y.fp
    <3>1. x.id < nextId /\ x.id # nextId
      BY <1>0, <1>2 DEF ReplayInv, IdsAreDrawn
    <3>2. PICK z \in row : y.id = z.id /\ y.fp = z.fp
      BY <2>1, <3>1 DEF Follows
    <3> QED
      BY <1>0, <1>2, <2>1, <3>2 DEF ReplayInv, FingerprintsMatch
  <2>2. ASSUME NEW q \in Reqs, pc'[q] \in {"reclaim_expired", "reclaim"}
        PROVE  \A x \in seen'[q] : SameRequest(q, x)
    BY <2>2 DEF ReplayInv, FingerprintsMatch
  <2>3. ASSUME NEW q \in Reqs, pc'[q] \in Executing, NEW y \in row', y.id = rid'[q]
        PROVE  SameRequest(q, y)
    <3>1. CASE q = r
      BY <2>3, <3>1
    <3>2. CASE q # r
      <4>1. rid'[q] = rid[q] /\ pc'[q] = pc[q] /\ rid[q] < nextId
        BY <3>2 DEF ReplayInv, IdsAreDrawn
      <4>2. PICK z \in row : y.id = z.id /\ y.fp = z.fp
        BY <1>0, <2>3, <4>1 DEF Follows
      <4> QED
        BY <2>3, <4>1, <4>2 DEF ReplayInv, FingerprintsMatch, SameRequest
    <3> QED
      BY <3>1, <3>2
  <2> QED
    BY <2>1, <2>2, <2>3 DEF FingerprintsMatch, SameRequest
<1>5. SuccessesHappened'
  <2>1. ASSUME NEW q \in Reqs, pc'[q] = "mark_succeeded"
        PROVE  Happened(q, Fingerprint[q])'
    BY <1>1, <2>1 DEF ReplayInv, SuccessesHappened
  <2>2. ASSUME NEW y \in row', y.status = "succeeded", y.body # Truncated
        PROVE  Happened(y.body, y.fp)'
    BY <1>1, <2>2 DEF Follows, ReplayInv, SuccessesHappened
  <2> QED
    BY <2>1, <2>2 DEF SuccessesHappened
<1>6. ReplayFaithful'
  <2> SUFFICES ASSUME NEW q \in Reqs, result'[q] = "replayed"
               PROVE  \E e \in effects' : /\ e.by = body'[q]
                                           /\ Fingerprint[e.by] = Fingerprint[q]
    BY DEF ReplayFaithful
  <2>1. CASE q = r
    BY <2>1
  <2>2. CASE q # r
    BY <2>2 DEF ReplayInv, ReplayFaithful
  <2> QED
    BY <2>1, <2>2
<1> QED
  BY <1>3, <1>4, <1>5, <1>6 DEF ReplayInv

LEMMA ReplayClaim ==
    ASSUME TypeOK, TypeOK', ReplayInv, NEW r \in Reqs,
           Begin(r) \/ CreateProcessing(r) \/ GetExisting(r) \/ ReclaimExpired(r)
               \/ GetAgain(r) \/ ReclaimFailed(r) \/ StoreFails(r)
    PROVE  ReplayInv'
<1>0. /\ nextId \in Nat /\ rid[r] < nextId /\ \A x \in row : Follows(x)
      /\ \A x, y \in row : x = y
      /\ pc \in [Reqs -> {"idle", "done", "dead"} \cup Claiming \cup Executing]
      /\ seen \in [Reqs -> SUBSET Records] /\ rid \in [Reqs -> Nat]
      /\ result \in [Reqs -> Results] /\ body \in [Reqs -> Bodies]
  BY DEF TypeOK, ReplayInv, IdsAreDrawn, Follows
<1>1. result[r] = "replayed" =>
          \E e \in effects : e.by = body[r] /\ Fingerprint[e.by] = Fingerprint[r]
  BY DEF ReplayInv, ReplayFaithful
<1>2. ASSUME NEW x \in row, SameRequest(r, x), FollowStatus(r, x), effects' = effects
      PROVE  /\ pc' = [pc EXCEPT ![r] = "done"] \/ pc' = [pc EXCEPT ![r] = "reclaim"]
             /\ \A q \in Reqs \ {r} : result'[q] = result[q] /\ body'[q] = body[q]
             /\ result'[r] = "replayed" =>
                  \E e \in effects' : e.by = body'[r] /\ Fingerprint[e.by] = Fingerprint[r]
  <2>1. CASE Return(r, "replayed", x.body) /\ x.status = "succeeded" /\ x.body # Truncated
    <3>1. Happened(x.body, x.fp)
      BY <2>1 DEF ReplayInv, SuccessesHappened
    <3> QED
      BY <1>0, <1>2, <2>1, <3>1 DEF Happened, SameRequest, Return, Goto
  <2>2. CASE \E how \in {"store_unavailable", "in_progress", "retry_backoff"} :
                Return(r, how, NoBody)
    BY <1>0, <2>2 DEF Return, Goto
  <2>3. CASE Goto(r, "reclaim") /\ UNCHANGED <<result, body>>
    BY <1>0, <1>1, <1>2, <2>3 DEF Goto
  <2> QED
    BY <1>2, <2>1, <2>2, <2>3 DEF FollowStatus
<1>3. CASE Begin(r)
  BY <1>0, <1>1, <1>3, ReplayStep DEF Begin, Goto, Executing
<1>4. CASE CreateProcessing(r)
  <2>1. CASE row = {}
    <3> DEFINE y == Record(nextId, Fingerprint[r], "processing",
                           start[r] + ProcessingTimeout, start[r] + TTL, NoBody)
    <3>1. y.id = nextId /\ y.status # "succeeded" /\ SameRequest(r, y)
      BY DEF Record, SameRequest
    <3>2. /\ row' = {y} /\ Own(r, nextId) /\ nextId' = nextId + 1
          /\ UNCHANGED <<seen, result, body, effects>>
      BY <1>4, <2>1 DEF CreateProcessing
    <3> HIDE DEF y
    <3>3. \A z \in row' : Follows(z) /\ SameRequest(r, z)
      BY <1>0, <3>1, <3>2 DEF Follows
    <3> QED
      BY <1>0, <1>1, <3>2, <3>3, ReplayStep DEF Own, Goto
  <2>2. CASE row # {}
    BY <1>0, <1>1, <1>4, <2>2, ReplayStep DEF CreateProcessing, Goto, Executing
  <2> QED
    BY <2>1, <2>2
<1>5. CASE GetExisting(r)
  <2>0. /\ UNCHANGED <<row, nextId, rid, effects>>
        /\ seen' = [seen EXCEPT ![r] = row]
    BY <1>5 DEF GetExisting
  <2>1. CASE \E how \in {"store_unavailable", "key_conflict"} : Return(r, how, NoBody)
    BY <1>0, <1>1, <2>0, <2>1, ReplayStep DEF Return, Goto, Executing
  <2>2. ASSUME NEW x \in row, SameRequest(r, x),
               \/ Goto(r, "reclaim_expired") /\ UNCHANGED <<result, body>>
               \/ FollowStatus(r, x)
        PROVE  ReplayInv'
    <3>1. \A z \in row : SameRequest(r, z)
      BY <1>0, <2>2
    <3>2. CASE Goto(r, "reclaim_expired") /\ UNCHANGED <<result, body>>
      BY <1>0, <1>1, <2>0, <3>1, <3>2, ReplayStep DEF Goto, Executing
    <3>3. CASE FollowStatus(r, x)
      BY <1>0, <1>2, <2>0, <2>2, <3>1, <3>3, ReplayStep DEF Executing
    <3> QED
      BY <2>2, <3>2, <3>3
  <2> QED
    BY <1>5, <2>1, <2>2 DEF GetExisting
<1>6. CASE ReclaimExpired(r) \/ ReclaimFailed(r)
  <2>0. /\ UNCHANGED <<nextId, seen, effects>>
        /\ pc[r] \in {"reclaim_expired", "reclaim"}
    BY <1>6 DEF ReclaimExpired, ReclaimFailed
  <2>1. ASSUME NEW x \in seen[r], NEW y \in row, y.id = x.id,
               row' = {Reclaimed(y, start[r])}, Own(r, x.id), UNCHANGED <<result, body>>
        PROVE  ReplayInv'
    <3> DEFINE z == Reclaimed(y, start[r])
    <3>1. y \in Records /\ start[r] \in Nat /\ x.id < nextId /\ x.fp = y.fp
          /\ SameRequest(r, x)
      BY <2>0, <2>1 DEF TypeOK, ReplayInv, IdsAreDrawn, FingerprintsMatch
    <3>2. z.id = y.id /\ z.fp = y.fp /\ z.status = "processing"
      BY <3>1, ReclaimedType
    <3> HIDE DEF z
    <3>3. row' = {z}
      BY <2>1 DEF z
    <3>4. \A v \in row' : Follows(v) /\ SameRequest(r, v)
      BY <3>1, <3>2, <3>3 DEF Follows, SameRequest
    <3> QED
      BY <1>0, <1>1, <2>0, <2>1, <3>1, <3>4, ReplayStep DEF Own, Goto
  <2>2. CASE Goto(r, "get_again") /\ UNCHANGED <<row, rid, result, body>>
    BY <1>0, <1>1, <2>0, <2>2, ReplayStep DEF Goto, Executing
  <2>3. CASE Return(r, "in_progress", NoBody) /\ UNCHANGED <<row, rid>>
    BY <1>0, <1>1, <2>0, <2>3, ReplayStep DEF Return, Goto, Executing
  <2> QED
    BY <1>6, <2>1, <2>2, <2>3 DEF ReclaimExpired, ReclaimFailed, Reclaimable
<1>7. CASE GetAgain(r)
  <2>0. /\ UNCHANGED <<row, nextId, rid, effects>>
        /\ seen' = [seen EXCEPT ![r] = row]
    BY <1>7 DEF GetAgain
  <2>1. CASE \E how \in {"store_unavailable", "key_conflict"} : Return(r, how, NoBody)
    BY <1>0, <1>1, <2>0, <2>1, ReplayStep DEF Return, Goto, Executing
  <2>2. ASSUME NEW x \in row, SameRequest(r, x), FollowStatus(r, x)
        PROVE  ReplayInv'
    <3>1. \A z \in row : SameRequest(r, z)
      BY <1>0, <2>2
    <3> QED
      BY <1>0, <1>2, <2>0, <2>2, <3>1, ReplayStep DEF Executing
  <2> QED
    BY <1>7, <2>1, <2>2 DEF GetAgain
<1>8. CASE StoreFails(r)
  BY <1>0, <1>1, <1>8, ReplayStep DEF StoreFails, Return, Goto, Executing
<1> QED
  BY <1>3, <1>4, <1>5, <1>6, <1>7, <1>8

LEMMA ReplayExecute ==
    ASSUME TypeOK, TypeOK', ReplayInv, NEW r \in Reqs,
           ExecuteSucceeds(r) \/ ExecuteFails(r) \/ ExtendProcessingLock(r)
               \/ MarkSucceeded(r) \/ MarkFailedRetryable(r) \/ Crash(r)
    PROVE  ReplayInv'
<1>0. /\ nextId \in Nat /\ rid[r] < nextId /\ \A x \in row : Follows(x)
      /\ \A x, y \in row : x = y
      /\ pc \in [Reqs -> {"idle", "done", "dead"} \cup Claiming \cup Executing]
      /\ seen \in [Reqs -> SUBSET Records] /\ rid \in [Reqs -> Nat]
      /\ result \in [Reqs -> Results] /\ body \in [Reqs -> Bodies]
  BY DEF TypeOK, ReplayInv, IdsAreDrawn, Follows
<1>1. result[r] = "replayed" =>
          \E e \in effects : e.by = body[r] /\ Fingerprint[e.by] = Fingerprint[r]
  BY DEF ReplayInv, ReplayFaithful
<1>2. pc[r] \in Executing => \A x \in row : x.id = rid[r] => SameRequest(r, x)
  BY DEF ReplayInv, FingerprintsMatch
<1>3. CASE ExecuteSucceeds(r)
  <2>1. /\ UNCHANGED <<row, nextId, seen, rid, result, body>>
        /\ pc' = [pc EXCEPT ![r] = "mark_succeeded"] /\ pc[r] \in Executing
        /\ effects' = effects \cup {[by |-> r, at |-> now, until |-> deadline[r]]}
    BY <1>3 DEF ExecuteSucceeds, Goto, Executing
  <2>2. Happened(r, Fingerprint[r])'
    <3> DEFINE e == [by |-> r, at |-> now, until |-> deadline[r]]
    <3>1. e \in effects' /\ e.by = r
      BY <2>1
    <3> QED
      BY <3>1 DEF Happened
  <2>3. effects \subseteq effects'
    BY <2>1, Zenon
  <2>4. pc'[r] = "mark_succeeded" /\ \A q \in Reqs \ {r} : pc'[q] = pc[q]
    BY <1>0, <2>1
  <2>5. UNCHANGED <<row, nextId, seen, rid, result, body>> /\ pc[r] \in Executing
    BY <2>1
  <2> QED
    BY <1>0, <1>1, <1>2, <2>2, <2>3, <2>4, <2>5, ReplayStep
<1>4. CASE ExecuteFails(r) \/ Crash(r)
  BY <1>0, <1>1, <1>2, <1>4, ReplayStep DEF ExecuteFails, Crash, Goto, Executing
<1>5. CASE ExtendProcessingLock(r)
  <2>1. PICK x \in row : x.id = rid[r] /\ x.fp = Fingerprint[r] /\ row' = {Reclaimed(x, now)}
    BY <1>5 DEF ExtendProcessingLock
  <2>2. UNCHANGED <<nextId, pc, seen, rid, result, body, effects>>
    BY <1>5 DEF ExtendProcessingLock
  <2>3. x \in Records /\ now \in Nat
    BY DEF TypeOK
  <2> DEFINE z == Reclaimed(x, now)
  <2>4. z.id = x.id /\ z.fp = x.fp /\ z.status = "processing"
    BY <2>3, ReclaimedType
  <2> HIDE DEF z
  <2>5. row' = {z}
    BY <2>1 DEF z
  <2>6. \A y \in row' : Follows(y) /\ SameRequest(r, y)
    BY <2>1, <2>4, <2>5 DEF Follows, SameRequest
  <2>7. /\ pc[r] = "mark_succeeded" => Happened(r, Fingerprint[r])'
        /\ pc[r] \in {"reclaim_expired", "reclaim"} => \A y \in seen[r] : SameRequest(r, y)
    BY <2>2 DEF ReplayInv, SuccessesHappened, FingerprintsMatch, Happened
  <2> QED
    BY <1>0, <1>1, <2>2, <2>6, <2>7, ReplayStep
<1>6. CASE MarkSucceeded(r)
  <2>0. /\ UNCHANGED <<nextId, seen, rid, effects>> /\ pc[r] = "mark_succeeded"
        /\ pc[r] \in Executing
    BY <1>6 DEF MarkSucceeded, Executing
  <2>1. \A y \in row' : Follows(y)
    <3> SUFFICES ASSUME NEW x \in row, x.id = rid[r],
                        NEW y, y = Succeeded(x, Stored(r), ResultExpiry(r))
                 PROVE  Follows(y)
      BY <1>0, <1>6 DEF MarkSucceeded
    <3>1. y.id = x.id /\ y.fp = x.fp /\ y.body = Stored(r)
      BY DEF Succeeded, Record
    <3>2. Happened(r, Fingerprint[r]) /\ SameRequest(r, x)
      BY <1>2, <2>0 DEF ReplayInv, SuccessesHappened
    <3> QED
      BY <3>1, <3>2 DEF Follows, Stored, SameRequest
  <2>2. \E how \in {"data", "store_unavailable"}, b \in Bodies : Return(r, how, b)
    BY <1>6 DEF MarkSucceeded, Bodies
  <2> QED
    BY <1>0, <2>0, <2>1, <2>2, ReplayStep DEF Return, Goto, Executing
<1>7. CASE MarkFailedRetryable(r)
  <2>0. /\ UNCHANGED <<nextId, seen, rid, effects>> /\ Return(r, "failed", NoBody)
    BY <1>7 DEF MarkFailedRetryable
  <2>1. \A y \in row' : Follows(y)
    <3> SUFFICES ASSUME NEW x \in row, NEW y, y = Failed(x, ResultExpiry(r))
                 PROVE  Follows(y)
      BY <1>0, <1>7 DEF MarkFailedRetryable
    <3>1. y.id = x.id /\ y.fp = x.fp /\ y.status # "succeeded"
      BY DEF Failed, Record
    <3> QED
      BY <3>1 DEF Follows
  <2> QED
    BY <1>0, <2>0, <2>1, ReplayStep DEF Return, Goto, Executing
<1> QED
  BY <1>3, <1>4, <1>5, <1>6, <1>7

LEMMA ReplayInvariant == Spec => []ReplayInv
<1>1. Init => ReplayInv
  BY DEF Init, ReplayInv, IdsAreDrawn, FingerprintsMatch, SuccessesHappened, ReplayFaithful,
         Executing
<1>2. TypeOK /\ TypeOK' /\ ReplayInv /\ [Next]_vars => ReplayInv'
  <2> SUFFICES ASSUME TypeOK, TypeOK', ReplayInv, [Next]_vars PROVE ReplayInv'
    OBVIOUS
  <2>1. CASE UNCHANGED vars
    BY <2>1 DEF vars, ReplayInv, IdsAreDrawn, FingerprintsMatch, SuccessesHappened,
                ReplayFaithful, Happened, SameRequest
  <2>2. ASSUME NEW r \in Reqs, RequestStep(r) PROVE ReplayInv'
    BY <2>2, ReplayClaim, ReplayExecute DEF RequestStep
  <2>3. CASE DeleteExpired \/ Tick
    BY <2>3 DEF DeleteExpired, Tick, ReplayInv, IdsAreDrawn, FingerprintsMatch,
                SuccessesHappened, ReplayFaithful, Happened, SameRequest
  <2> QED
    BY <2>1, <2>2, <2>3 DEF Next
<1> QED
  BY <1>1, <1>2, TypeCorrect, PTL DEF Spec

\* A replayed response is the response of an execution that did happen, for a
\* request with the replaying request's own method, route and payload, for any
\* number of requests and any timeouts: the fingerprint is compared before the
\* status is followed, no statement changes it, and MarkSucceeded, which is not
\* fenced, only ever finds a record of the executor's own fingerprint.
THEOREM RepliesAreFaithful == Spec => []ReplayFaithful
<1>1. ReplayInv => ReplayFaithful
  BY DEF ReplayInv
<1> QED
  BY <1>1, ReplayInvariant, PTL

-----------------------------------------------------------------------------
(* One effect in the life of a record.                                     *)

\* A request that owns a record keeps it, and what it had read: so a takeover
\* stays one.
LEMMA TakenOverStays ==
    ASSUME ClaimsOwnNothing,
           \A q \in Reqs : rid[q] # 0 =>
                rid'[q] = rid[q] /\ start'[q] = start[q] /\ seen'[q] = seen[q]
    PROVE  \A d \in effects : d.by \in Reqs /\ TakenOver(d) => TakenOver(d)'
<1> SUFFICES ASSUME NEW d \in effects, d.by \in Reqs, NEW q \in Reqs,
                    FoundExpired(q), rid[q] = rid[d.by], start[q] < d.until
             PROVE  FoundExpired(q)' /\ rid'[q] = rid'[d.by] /\ start'[q] < d.until
  BY DEF TakenOver
<1>1. rid[d.by] # 0
  BY DEF ClaimsOwnNothing
<1> QED
  BY <1>1 DEF FoundExpired, IsExpired

\* What a step of request r that commits nothing has to respect for OnceInv.
LEMMA OnceStep ==
    ASSUME TypeOK, TypeOK', OnceInv, NEW r \in Reqs,
           \A q \in Reqs \ {r} :
                /\ pc'[q] = pc[q] /\ start'[q] = start[q] /\ seen'[q] = seen[q]
                /\ rid'[q] = rid[q] /\ deadline'[q] = deadline[q],
           now' = now, effects' = effects,
           rid[r] # 0 => rid'[r] = rid[r] /\ start'[r] = start[r] /\ seen'[r] = seen[r],
           pc'[r] \in {"idle"} \cup Claiming => rid'[r] = 0,
           pc[r] \in {"mark_succeeded", "done", "dead"} =>
                pc'[r] \in {"mark_succeeded", "done", "dead"},
           pc'[r] = "reclaim_expired" => \A x \in seen'[r] : IsExpired(x, start'[r]),
           pc'[r] \in Executing =>
                /\ start'[r] <= now /\ deadline'[r] <= now + TTL
                /\ r \notin Detached => deadline'[r] = start'[r] + TTL,
           \A d \in effects : now < d.until /\ Intact(d) => TakenOver(d)' \/ Intact(d)'
    PROVE  OnceInv'
<1>0. \A d \in effects : d.by \in Reqs
  BY DEF TypeOK
<1>1. \A d \in effects : TakenOver(d) => TakenOver(d)'
  BY <1>0, TakenOverStays DEF OnceInv
<1>2. ClaimsOwnNothing'
  BY <1>0 DEF OnceInv, ClaimsOwnNothing
<1>3. ExpiredWasSeen'
  BY DEF OnceInv, ExpiredWasSeen
<1>4. ExpiryGrows'
  BY DEF OnceInv, ExpiryGrows
<1>5. LiveEffectsIntact'
  BY <1>1 DEF OnceInv, LiveEffectsIntact
<1>6. OnceUnlessExpired'
  BY <1>1 DEF OnceInv, OnceUnlessExpired
<1> QED
  BY <1>2, <1>3, <1>4, <1>5, <1>6 DEF OnceInv

\* A step that leaves the row alone and starts no execution keeps Intact.
LEMMA IntactStays ==
    ASSUME \A q \in Reqs : pc'[q] \in Executing => pc[q] \in Executing,
           \A d \in effects : rid'[d.by] = rid[d.by], row' = row
    PROVE  \A d \in effects : Intact(d) => Intact(d)'
  BY DEF Intact

LEMMA OnceClaim ==
    ASSUME TypeOK, TypeOK', ExecutorInv, OnceInv, NEW r \in Reqs,
           Begin(r) \/ CreateProcessing(r) \/ GetExisting(r) \/ ReclaimExpired(r)
               \/ GetAgain(r) \/ ReclaimFailed(r) \/ StoreFails(r)
    PROVE  OnceInv'
<1>0. /\ pc[r] \in {"idle"} \cup Claiming /\ rid[r] = 0 /\ now' = now /\ effects' = effects
      /\ pc[r] \notin {"mark_succeeded", "done", "dead"}
  <2>1. pc[r] \in {"idle"} \cup Claiming /\ now' = now /\ effects' = effects
    BY DEF Begin, CreateProcessing, GetExisting, ReclaimExpired, GetAgain, ReclaimFailed,
           StoreFails, Claiming
  <2> QED
    BY <2>1 DEF OnceInv, ClaimsOwnNothing, Claiming
<1>1. /\ pc \in [Reqs -> {"idle", "done", "dead"} \cup Claiming \cup Executing]
      /\ seen \in [Reqs -> SUBSET Records] /\ rid \in [Reqs -> Nat]
      /\ start \in [Reqs -> Nat] /\ deadline \in [Reqs -> Nat] /\ now \in Nat
      /\ \A x, y \in row : x = y /\ \A d \in effects : d.by \in Reqs /\ d.until \in Nat
  BY DEF TypeOK
<1>2. \A d \in effects : rid[d.by] # 0 /\ d.by # r
  BY <1>0 DEF OnceInv, ClaimsOwnNothing
<1>3. ASSUME pc[r] \in Claiming, NEW l \in {"done", "get", "get_again", "reclaim"},
             Goto(r, l), UNCHANGED <<row, start, rid, deadline>>,
             \A q \in Reqs \ {r} : seen'[q] = seen[q]
      PROVE  OnceInv'
  <2>1. \A q \in Reqs : pc'[q] \in Executing => pc[q] \in Executing
    BY <1>1, <1>3 DEF Goto, Executing
  <2>2. \A d \in effects : Intact(d) => Intact(d)'
    BY <1>3, <2>1, IntactStays
  <2>3. /\ pc'[r] = l /\ \A q \in Reqs \ {r} : pc'[q] = pc[q]
        /\ pc'[r] \notin Executing /\ pc'[r] # "reclaim_expired"
    BY <1>1, <1>3 DEF Goto, Executing
  <2> QED
    BY <1>0, <1>3, <2>2, <2>3, OnceStep
<1>4. ASSUME pc[r] \in Claiming, NEW id, Own(r, id), UNCHANGED <<start, seen>>,
             \A d \in effects : now < d.until /\ Intact(d) => TakenOver(d)'
      PROVE  OnceInv'
  <2>1. /\ pc'[r] = "exec" /\ deadline'[r] = start[r] + TTL
        /\ \A q \in Reqs \ {r} : pc'[q] = pc[q] /\ rid'[q] = rid[q] /\ deadline'[q] = deadline[q]
    BY <1>1, <1>4 DEF Own, Goto
  <2>2. start[r] <= now /\ start[r] + TTL <= now + TTL
    BY <1>1, <1>4, ConstantsAssumption DEF ExecutorInv, ClaimsAreFresh
  <2>3. pc'[r] \notin {"idle"} \cup Claiming
    BY <2>1 DEF Claiming
  <2> QED
    BY <1>0, <1>4, <2>1, <2>2, <2>3, OnceStep
<1>5. CASE Begin(r)
  <2>1. \A q \in Reqs : pc'[q] \in Executing => pc[q] \in Executing
    BY <1>1, <1>5 DEF Begin, Goto, Executing
  <2>2. \A d \in effects : Intact(d) => Intact(d)'
    BY <1>5, <2>1, IntactStays DEF Begin
  <2> QED
    BY <1>0, <1>1, <1>5, <2>2, OnceStep DEF Begin, Goto, Executing
<1>6. CASE CreateProcessing(r)
  <2>1. CASE row = {}
    BY <1>4, <1>6, <2>1 DEF CreateProcessing, Claiming, Intact
  <2>2. CASE row # {}
    BY <1>3, <1>6, <2>2 DEF CreateProcessing, Claiming
  <2> QED
    BY <2>1, <2>2
<1>7. CASE GetExisting(r)
  <2>0. /\ pc[r] \in Claiming /\ UNCHANGED <<row, start, rid, deadline>>
        /\ seen' = [seen EXCEPT ![r] = row]
    BY <1>7 DEF GetExisting, Claiming
  <2>1. CASE \E l \in {"done", "reclaim"} : Goto(r, l)
    BY <1>1, <1>3, <2>0, <2>1
  <2>2. CASE Goto(r, "reclaim_expired") /\ \E x \in row : IsExpired(x, start[r])
    <3>1. \A q \in Reqs : pc'[q] \in Executing => pc[q] \in Executing
      BY <1>1, <2>2 DEF Goto, Executing
    <3>2. \A d \in effects : Intact(d) => Intact(d)'
      BY <2>0, <3>1, IntactStays
    <3>3. /\ pc'[r] = "reclaim_expired" /\ pc'[r] \notin Executing
          /\ \A q \in Reqs \ {r} : pc'[q] = pc[q] /\ seen'[q] = seen[q]
          /\ \A x \in seen'[r] : IsExpired(x, start'[r])
      BY <1>1, <2>0, <2>2 DEF Goto, Executing
    <3> QED
      BY <1>0, <2>0, <3>2, <3>3, OnceStep
  <2> QED
    BY <1>7, <2>1, <2>2 DEF GetExisting, FollowStatus, Return
<1>8. CASE ReclaimExpired(r)
  <2>0. pc[r] \in Claiming /\ UNCHANGED <<start, seen>> /\ pc[r] = "reclaim_expired"
    BY <1>8 DEF ReclaimExpired, Claiming
  <2>1. ASSUME NEW x \in seen[r], NEW y \in row, y.id = x.id, Own(r, x.id)
        PROVE  OnceInv'
    <3>1. ASSUME NEW d \in effects, now < d.until, Intact(d)
          PROVE  TakenOver(d)'
      <4>1. y.id = rid[d.by] /\ rid'[r] = y.id /\ rid'[d.by] = rid[d.by]
        BY <1>1, <1>2, <2>1, <3>1 DEF Intact, Own
      <4>2. IsExpired(x, start[r]) /\ start[r] <= now
        BY <2>0 DEF OnceInv, ExpiredWasSeen, ExecutorInv, ClaimsAreFresh
      <4>3. FoundExpired(r)' /\ start'[r] < d.until
        BY <1>1, <2>0, <3>1, <4>2 DEF FoundExpired, IsExpired
      <4> QED
        BY <4>1, <4>3 DEF TakenOver
    <3> QED
      BY <1>4, <2>0, <2>1, <3>1
  <2>2. CASE Goto(r, "get_again") /\ UNCHANGED <<row, rid, deadline>>
    BY <1>3, <2>0, <2>2
  <2> QED
    BY <1>8, <2>1, <2>2 DEF ReclaimExpired, Reclaimable
<1>9. CASE GetAgain(r)
  <2>1. /\ pc[r] \in Claiming /\ UNCHANGED <<row, start, rid, deadline>>
        /\ seen' = [seen EXCEPT ![r] = row]
    BY <1>9 DEF GetAgain, Claiming
  <2>2. \E l \in {"done", "reclaim"} : Goto(r, l)
    BY <1>9 DEF GetAgain, FollowStatus, Return
  <2> QED
    BY <1>1, <1>3, <2>1, <2>2
<1>10. CASE ReclaimFailed(r)
  <2>0. pc[r] \in Claiming /\ UNCHANGED <<start, seen>>
    BY <1>10 DEF ReclaimFailed, Claiming
  <2>1. ASSUME NEW x \in seen[r], NEW y \in row, y.status = "failed_retryable", Own(r, x.id)
        PROVE  OnceInv'
    <3>1. \A d \in effects : ~Intact(d)
      BY <1>1, <2>1 DEF Intact
    <3> QED
      BY <1>4, <2>0, <2>1, <3>1
  <2>2. CASE Goto(r, "done") /\ UNCHANGED <<row, rid, deadline>>
    BY <1>3, <2>0, <2>2
  <2> QED
    BY <1>10, <2>1, <2>2 DEF ReclaimFailed, Reclaimable, Return
<1>11. CASE StoreFails(r)
  BY <1>3, <1>11 DEF StoreFails, Return
<1> QED
  BY <1>5, <1>6, <1>7, <1>8, <1>9, <1>10, <1>11

\* The commit: whatever effect is still live was taken over, or else its
\* request would be the one that commits now, a second time.
LEMMA OnceCommit ==
    ASSUME TypeOK, TypeOK', ExecutorInv, IdsAreDrawn, OnceInv, NEW r \in Reqs,
           ExecuteSucceeds(r)
    PROVE  OnceInv'
<1>0. PICK e : e = [by |-> r, at |-> now, until |-> deadline[r]]
  OBVIOUS
<1>1. /\ pc[r] = "exec" /\ pc[r] \in Executing /\ effects' = effects \cup {e}
      /\ UNCHANGED <<now, row, start, seen, rid, deadline>>
      /\ pc' = [pc EXCEPT ![r] = "mark_succeeded"]
  BY <1>0 DEF ExecuteSucceeds, Goto, Executing
<1>2. e.by = r /\ e.at = now /\ e.until = deadline[r]
  BY <1>0
<1>3. /\ \A q \in Reqs : pc'[q] = IF q = r THEN "mark_succeeded" ELSE pc[q]
      /\ \A d \in effects : d.by \in Reqs
  BY <1>1 DEF TypeOK
<1>4. \A q \in Reqs : (pc'[q] \in Executing) = (pc[q] \in Executing)
  BY <1>1, <1>3 DEF Executing
<1>5. \A d \in effects : TakenOver(d) => TakenOver(d)'
  BY <1>1, <1>3, TakenOverStays DEF OnceInv
<1>6. \A d \in effects : d.by # r
  BY <1>1 DEF OnceInv, ClaimsOwnNothing
<1>7. \A d \in effects : ~Intact(d)
  BY <1>1, <1>6 DEF Intact
<1>8. \A d \in effects : now < d.until => TakenOver(d)'
  BY <1>5, <1>7 DEF OnceInv, LiveEffectsIntact
<1>9. PICK x \in row : x.id = rid[r] /\ x.status = "processing" /\ x.exp = deadline[r]
  BY <1>1 DEF ExecutorInv, ExecutorOwnsRow
<1>10. rid[r] # 0 /\ x.exp \in Nat /\ now \in Nat /\ \A d \in effects : d.until \in Nat
  BY <1>9 DEF IdsAreDrawn, TypeOK, Records
<1>11. ClaimsOwnNothing'
  <2>1. \A q \in Reqs : pc'[q] \in {"idle"} \cup Claiming => rid'[q] = 0
    BY <1>1, <1>3 DEF OnceInv, ClaimsOwnNothing, Claiming
  <2>2. \A d \in effects' : /\ rid'[d.by] # 0
                            /\ pc'[d.by] \in {"mark_succeeded", "done", "dead"}
    BY <1>1, <1>2, <1>3, <1>6, <1>10 DEF OnceInv, ClaimsOwnNothing
  <2> QED
    BY <2>1, <2>2 DEF ClaimsOwnNothing
<1>12. ExpiredWasSeen'
  BY <1>1, <1>3 DEF OnceInv, ExpiredWasSeen
<1>13. ExpiryGrows'
  BY <1>1, <1>4 DEF OnceInv, ExpiryGrows
<1>14. LiveEffectsIntact'
  <2>1. Intact(e)'
    <3>1. \A q \in Reqs : pc'[q] \in Executing => q = r
      BY <1>1, <1>4 DEF ExecutorInv, OneExecutor
    <3>2. x \in row' /\ x.id = rid'[r] /\ deadline[r] <= x.exp /\ x.status # "failed_retryable"
      BY <1>1, <1>9, <1>10
    <3> QED
      BY <1>2, <3>1, <3>2 DEF Intact
  <2> QED
    BY <1>1, <1>8, <2>1 DEF LiveEffectsIntact
<1>15. OnceUnlessExpired'
  <2>1. \A d \in effects : d.until <= e.at \/ TakenOver(d)'
    BY <1>2, <1>8, <1>10
  <2> QED
    BY <1>1, <1>5, <2>1 DEF OnceInv, OnceUnlessExpired
<1> QED
  BY <1>11, <1>12, <1>13, <1>14, <1>15 DEF OnceInv

LEMMA OnceExecute ==
    ASSUME TypeOK, TypeOK', ExecutorInv, IdsAreDrawn, OnceInv, NEW r \in Reqs,
           ExecuteSucceeds(r) \/ ExecuteFails(r) \/ ExtendProcessingLock(r)
               \/ MarkSucceeded(r) \/ MarkFailedRetryable(r) \/ Crash(r)
    PROVE  OnceInv'
<1>1. /\ pc \in [Reqs -> {"idle", "done", "dead"} \cup Claiming \cup Executing]
      /\ seen \in [Reqs -> SUBSET Records] /\ rid \in [Reqs -> Nat]
      /\ start \in [Reqs -> Nat] /\ deadline \in [Reqs -> Nat] /\ now \in Nat
      /\ \A x, y \in row : x = y
      /\ \A x \in row : x \in Records /\ x.exp \in Nat
      /\ \A d \in effects : d.by \in Reqs /\ d.until \in Nat
      /\ TTL \in Nat
  BY ConstantsAssumption, RecordFields DEF TypeOK
<1>2. /\ pc[r] \in Executing => /\ start[r] <= now /\ deadline[r] <= now + TTL
                                /\ r \notin Detached => deadline[r] = start[r] + TTL
      /\ pc[r] \in {"idle"} \cup Claiming => rid[r] = 0
  BY DEF OnceInv, ExpiryGrows, ClaimsOwnNothing
<1>3. CASE ExecuteSucceeds(r)
  BY <1>3, OnceCommit
<1>4. CASE ExecuteFails(r) \/ Crash(r)
  <2>1. \A q \in Reqs : pc'[q] \in Executing => pc[q] \in Executing
    BY <1>1, <1>4 DEF ExecuteFails, Crash, Goto, Executing
  <2>2. \A d \in effects : Intact(d) => Intact(d)'
    BY <1>4, <2>1, IntactStays DEF ExecuteFails, Crash
  <2>3. /\ UNCHANGED <<now, start, seen, rid, deadline, effects>>
        /\ \A q \in Reqs \ {r} : pc'[q] = pc[q]
        /\ pc'[r] \notin {"idle"} \cup Claiming /\ pc'[r] # "reclaim_expired"
        /\ pc[r] \in {"mark_succeeded", "done", "dead"} => pc'[r] = "dead"
    BY <1>1, <1>4 DEF ExecuteFails, Crash, Goto, Claiming
  <2>4. pc'[r] \in Executing => pc[r] \in Executing
    BY <2>1
  <2> QED
    BY <1>2, <2>2, <2>3, <2>4, OnceStep
<1>5. CASE ExtendProcessingLock(r)
  <2>1. PICK x \in row : x.id = rid[r] /\ row' = {Reclaimed(x, now)}
    BY <1>5 DEF ExtendProcessingLock
  <2>2. /\ pc[r] \in Executing /\ r \in Detached
        /\ UNCHANGED <<now, pc, start, seen, rid, effects>>
        /\ deadline' = [deadline EXCEPT ![r] = now + TTL]
    BY <1>5 DEF ExtendProcessingLock
  <2> DEFINE z == Reclaimed(x, now)
  <2>3. z.id = x.id /\ z.status = "processing" /\ z.exp = now + TTL
    BY <1>1, ReclaimedType
  <2> HIDE DEF z
  <2>4. row' = {z}
    BY <2>1 DEF z
  <2>5. x.exp <= now + TTL
    BY <1>1, <1>2, <2>2 DEF ExecutorInv, ExecutorOwnsRow
  <2>6. ASSUME NEW d \in effects, Intact(d)
        PROVE  Intact(d)'
    <3>1. d.until <= z.exp /\ z.id = rid'[d.by] /\ z.status # "failed_retryable"
      BY <1>1, <2>2, <2>3, <2>5, <2>6 DEF Intact
    <3> QED
      BY <2>2, <2>4, <2>6, <3>1 DEF Intact
  <2>7. /\ pc[r] # "reclaim_expired" /\ deadline'[r] <= now + TTL /\ start[r] <= now
        /\ \A q \in Reqs \ {r} : deadline'[q] = deadline[q]
    BY <1>1, <1>2, <2>2 DEF Executing
  <2> QED
    BY <1>2, <2>2, <2>6, <2>7, OnceStep
<1>6. CASE MarkSucceeded(r)
  <2>1. /\ pc[r] = "mark_succeeded" /\ pc[r] \in Executing
        /\ UNCHANGED <<now, start, seen, rid, deadline, effects>>
        /\ pc' = [pc EXCEPT ![r] = "done"]
    BY <1>6 DEF MarkSucceeded, Return, Goto, Executing
  <2>2. /\ pc'[r] = "done" /\ \A q \in Reqs \ {r} : pc'[q] = pc[q]
        /\ pc'[r] \notin Executing /\ pc'[r] \notin {"idle"} \cup Claiming
        /\ \A q \in Reqs : pc'[q] \in Executing => pc[q] \in Executing
    BY <1>1, <2>1 DEF Executing, Claiming
  <2>3. ASSUME NEW d \in effects, Intact(d)
        PROVE  Intact(d)'
    <3>1. PICK x \in row : x.id = rid[d.by] /\ d.until <= x.exp
                             /\ x.status # "failed_retryable"
      BY <2>3 DEF Intact
    <3>2. r = d.by
      BY <2>1, <2>3 DEF Intact
    <3>3. CASE row' = row
      BY <2>1, <2>2, <2>3, <3>3, IntactStays
    <3>4. CASE row' = {IF y.id = rid[r] THEN Succeeded(y, Stored(r), ResultExpiry(r)) ELSE y
                       : y \in row}
      <4> DEFINE z == Succeeded(x, Stored(r), ResultExpiry(r))
      <4>1. z.id = x.id /\ z.status # "failed_retryable" /\ z.exp = ResultExpiry(r)
        BY DEF Succeeded, Record
      <4>2. x.exp = deadline[r]
        BY <1>1, <2>1, <3>1 DEF ExecutorInv, ExecutorOwnsRow
      <4>3. deadline[r] <= ResultExpiry(r)
        BY <1>1, <1>2, <2>1 DEF ResultExpiry
      <4>4. ResultExpiry(r) \in Nat
        BY <1>1 DEF ResultExpiry
      <4>5. d.until <= z.exp
        BY <1>1, <3>1, <4>1, <4>2, <4>3, <4>4
      <4>6. z \in row'
        BY <3>1, <3>2, <3>4
      <4> HIDE DEF z
      <4> QED
        BY <2>1, <2>2, <2>3, <3>1, <4>1, <4>5, <4>6 DEF Intact
    <3> QED
      BY <1>6, <3>3, <3>4 DEF MarkSucceeded
  <2> QED
    BY <2>1, <2>2, <2>3, OnceStep
<1>7. CASE MarkFailedRetryable(r)
  <2>1. /\ pc[r] = "mark_failed" /\ pc[r] \in Executing
        /\ UNCHANGED <<now, start, seen, rid, deadline, effects>>
        /\ pc' = [pc EXCEPT ![r] = "done"]
    BY <1>7 DEF MarkFailedRetryable, Return, Goto, Executing
  <2>2. /\ pc'[r] = "done" /\ \A q \in Reqs \ {r} : pc'[q] = pc[q]
        /\ pc'[r] \notin Executing /\ pc'[r] \notin {"idle"} \cup Claiming
    BY <1>1, <2>1 DEF Executing, Claiming
  <2>3. \A d \in effects : ~Intact(d)
    BY <2>1 DEF Intact, OnceInv, ClaimsOwnNothing
  <2> QED
    BY <2>1, <2>2, <2>3, OnceStep
<1> QED
  BY <1>3, <1>4, <1>5, <1>6, <1>7

LEMMA OnceInvariant ==
    ASSUME ProcessingTimeout <= TTL
    PROVE  Spec => []OnceInv
<1>1. Init => OnceInv
  BY DEF Init, OnceInv, ClaimsOwnNothing, ExpiredWasSeen, ExpiryGrows, LiveEffectsIntact,
         OnceUnlessExpired, Executing, Claiming
<1>2. TypeOK /\ TypeOK' /\ ExecutorInv /\ ReplayInv /\ OnceInv /\ [Next]_vars => OnceInv'
  <2> SUFFICES ASSUME TypeOK, TypeOK', ExecutorInv, ReplayInv, OnceInv, [Next]_vars
               PROVE  OnceInv'
    OBVIOUS
  <2>0. IdsAreDrawn
    BY DEF ReplayInv
  <2>1. ASSUME NEW r \in Reqs, RequestStep(r) PROVE OnceInv'
    BY <2>0, <2>1, OnceClaim, OnceExecute DEF RequestStep
  <2>2. CASE UNCHANGED vars \/ DeleteExpired \/ Tick
    <3>1. /\ UNCHANGED <<pc, start, seen, rid, deadline, effects>>
          /\ now' = now \/ now' = now + 1
      BY <2>2 DEF vars, DeleteExpired, Tick
    <3>2. /\ now \in Nat /\ \A d \in effects : d.by \in Reqs /\ d.until \in Nat
          /\ start \in [Reqs -> Nat] /\ deadline \in [Reqs -> Nat] /\ TTL \in Nat
      BY ConstantsAssumption DEF TypeOK
    <3>3. \A d \in effects : TakenOver(d) => TakenOver(d)'
      BY <3>1, <3>2, TakenOverStays DEF OnceInv
    <3>4. ASSUME NEW d \in effects, now' < d.until PROVE TakenOver(d)' \/ Intact(d)'
      <4>1. now < d.until
        BY <3>1, <3>2, <3>4
      <4>2. CASE row' = row
        BY <3>1, <3>3, <4>1, <4>2 DEF OnceInv, LiveEffectsIntact, Intact
      <4>3. CASE DeleteExpired
        <5>1. ~Intact(d)
          BY <3>2, <4>1, <4>3 DEF DeleteExpired, IsExpired, Intact, TypeOK, Records
        <5> QED
          BY <3>3, <4>1, <5>1 DEF OnceInv, LiveEffectsIntact
      <4> QED
        BY <2>2, <4>2, <4>3 DEF vars, Tick
    <3>5. LiveEffectsIntact' /\ OnceUnlessExpired'
      BY <3>1, <3>3, <3>4 DEF OnceInv, LiveEffectsIntact, OnceUnlessExpired
    <3>6. ClaimsOwnNothing' /\ ExpiredWasSeen'
      BY <3>1 DEF OnceInv, ClaimsOwnNothing, ExpiredWasSeen, IsExpired
    <3>7. ExpiryGrows'
      BY <3>1, <3>2 DEF OnceInv, ExpiryGrows
    <3> QED
      BY <3>5, <3>6, <3>7 DEF OnceInv
  <2> QED
    BY <2>1, <2>2 DEF Next
<1> QED
  BY <1>1, <1>2, TypeCorrect, ExecutorInvariant, ReplayInvariant, PTL DEF Spec

\* The side effect happens at most once in the life of a record, except where
\* TryReclaim, which does not compare expires_at, lets a request that had found
\* the record expired take over the fresh one that replaced it; for any number
\* of requests, instances, failures and crashes, with or without lease renewal,
\* and any timeouts with ProcessingTimeout <= TTL.
THEOREM EffectsAreSingle ==
    ASSUME ProcessingTimeout <= TTL
    PROVE  Spec => []OnceUnlessExpired
<1>1. OnceInv => OnceUnlessExpired
  BY DEF OnceInv
<1> QED
  BY <1>1, OnceInvariant, PTL
=============================================================================
