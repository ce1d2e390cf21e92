----------------------- MODULE SchedulerOutboxProofs -----------------------
(***************************************************************************)
(* Proofs about SchedulerOutbox, for any numbers of keys, pollers, workers *)
(* and writers, and any bounds.                                            *)
(***************************************************************************)
EXTENDS SchedulerOutbox, TLAPS

USE ConstantsAssumption

Shape == TypeOK /\ EventIsFirst /\ JobsAreNamed

LEMMA AnyKeyIsKey == AnyKey \in Keys
BY DEF AnyKey

LEMMA ShapeInit == Init => Shape
BY AnyKeyIsKey DEF Init, Shape, TypeOK, EventIsFirst, JobsAreNamed, Ids, NoId,
    Generations, WriterStates, PollerStates, WorkerStates

OutboxTyped ==
    /\ next \in 1..(MaxId + 1)
    /\ wrow \in [Writers -> {NoId} \cup Ids]
    /\ rows \subseteq Ids /\ dedup \subseteq Ids
    /\ keyOf \in [Ids -> Keys]

LEMMA InsertTyped ==
    ASSUME TypeOK, NEW w \in Writers, NEW k \in Keys, NEW d \in BOOLEAN,
           InsertRow(w, k, d) \/ InsertNothing(w)
    PROVE  OutboxTyped'
<1>1. next \in Ids /\ next + 1 \in 1..(MaxId + 1)
  BY DEF TypeOK, InsertRow, InsertNothing, Ids
<1>2. CASE InsertRow(w, k, d)
  BY <1>1, <1>2 DEF InsertRow, OutboxTyped, TypeOK
<1>3. CASE InsertNothing(w)
  BY <1>1, <1>3 DEF InsertNothing, OutboxTyped, TypeOK
<1> QED
  BY <1>2, <1>3

LEMMA AnnounceTyped ==
    ASSUME TypeOK, NEW k \in Keys, NEW events \in SUBSET Ids,
           NEW otherwise \in [Keys -> {NoId} \cup Ids], Announce(k, events, otherwise)
    PROVE  carrier' \in [Keys -> {NoId} \cup Ids]
BY DEF Announce, TypeOK

LEMMA ShapeWrite ==
    ASSUME Shape, NEW w \in Writers, Write(w)
    PROVE  Shape'
<1>1. CASE \E k \in Keys : Change(w, k)
  <2>1. PICK k \in Keys : Change(w, k)
    BY <1>1
  <2>2. version' \in [Keys -> Nat] /\ carrier' \in [Keys -> {NoId} \cup Ids]
    BY <2>1 DEF Change, Shape, TypeOK
  <2>3. writer' \in [Writers -> WriterStates] /\ wkey' \in [Writers -> Keys]
    BY <2>1 DEF Change, Shape, TypeOK, WriterStates
  <2>4. begun' \in 0..MaxId
    BY <2>1 DEF Change, Shape, TypeOK
  <2> QED
    BY <2>1, <2>2, <2>3, <2>4 DEF Change, Shape, TypeOK, EventIsFirst, JobsAreNamed,
      outboxVars, pollVars, taskVars, workVars
<1>2. CASE \E d \in BOOLEAN : enqueueSchedulerOutbox(w, d)
  <2>1. PICK d \in BOOLEAN : enqueueSchedulerOutbox(w, d)
    BY <1>2
  <2>2. OutboxTyped'
    BY <2>1, InsertTyped DEF enqueueSchedulerOutbox, Shape, TypeOK
  <2>3. writer' \in [Writers -> WriterStates]
    BY <2>1 DEF enqueueSchedulerOutbox, Shape, TypeOK, WriterStates
  <2>4. carrier' \in [Keys -> {NoId} \cup Ids]
    <3>1. wkey[w] \in Keys /\ Duplicates(wkey[w]) \ late \in SUBSET Ids
      BY DEF Duplicates, Shape, TypeOK
    <3>2. carrier' = carrier \/ Announce(wkey[w], Duplicates(wkey[w]) \ late, carrier)
      BY <2>1 DEF enqueueSchedulerOutbox
    <3>3. carrier \in [Keys -> {NoId} \cup Ids] /\ TypeOK
      BY DEF Shape, TypeOK
    <3> QED
      BY <3>1, <3>2, <3>3, AnnounceTyped
  <2> QED
    BY <2>1, <2>2, <2>3, <2>4 DEF enqueueSchedulerOutbox, OutboxTyped, Shape, TypeOK,
      EventIsFirst, JobsAreNamed, pollVars, taskVars, workVars
<1>3. CASE EnqueueFails(w)
  BY <1>3 DEF EnqueueFails, Shape, TypeOK, EventIsFirst, JobsAreNamed, Ids, NoId,
    WriterStates, outboxVars, pollVars, taskVars, workVars
<1>4. CASE \E k \in Keys, d \in BOOLEAN : Transaction(w, k, d)
  <2>1. PICK k \in Keys, d \in BOOLEAN : Transaction(w, k, d)
    BY <1>4
  <2>2. OutboxTyped'
    BY <2>1, InsertTyped DEF Transaction, Shape, TypeOK
  <2>3. wkey' \in [Writers -> Keys] /\ writer' \in [Writers -> WriterStates]
    BY <2>1 DEF Transaction, Shape, TypeOK, WriterStates
  <2>4. begun' \in 0..MaxId
    BY <2>1 DEF Transaction, Shape, TypeOK
  <2> QED
    BY <2>1, <2>2, <2>3, <2>4 DEF Transaction, OutboxTyped, Shape, TypeOK,
      EventIsFirst, JobsAreNamed, pollVars, taskVars, workVars
<1>5. CASE Commit(w)
  <2>1. version' \in [Keys -> Nat]
    BY <1>5 DEF Commit, Shape, TypeOK
  <2>0. late' \in SUBSET Ids
    BY <1>5 DEF Commit, Shape, TypeOK
  <2>4. carrier' \in [Keys -> {NoId} \cup Ids]
    <3> DEFINE own == {wrow[w]} \ {NoId}
               relied == IF own = {} THEN Duplicates(wkey[w]) ELSE own
               otherwise == IF writer[w] = "tx" THEN [carrier EXCEPT ![wkey[w]] = NoId]
                                                 ELSE carrier
    <3>1. wkey[w] \in Keys /\ TypeOK
      BY DEF Shape, TypeOK
    <3>2. relied \ late' \in SUBSET Ids
      BY DEF Duplicates, Shape, TypeOK
    <3>3. otherwise \in [Keys -> {NoId} \cup Ids]
      BY DEF Shape, TypeOK
    <3>4. Announce(wkey[w], relied \ late', otherwise)
      BY <1>5 DEF Commit
    <3> QED
      BY <3>1, <3>2, <3>3, <3>4, AnnounceTyped
  <2>2. writer' \in [Writers -> WriterStates] /\ wrow' \in [Writers -> {NoId} \cup Ids]
    BY <1>5 DEF Commit, Shape, TypeOK, WriterStates
  <2>3. rows' \subseteq Ids
    BY <1>5 DEF Commit, Shape, TypeOK
  <2> QED
    BY <1>5, <2>0, <2>1, <2>2, <2>3, <2>4 DEF Commit, Shape, TypeOK, EventIsFirst, JobsAreNamed,
      pollVars, taskVars, workVars
<1>6. CASE Rollback(w)
  BY <1>6 DEF Rollback, Shape, TypeOK, EventIsFirst, JobsAreNamed, Ids, NoId,
    WriterStates, outboxVars, pollVars, taskVars, workVars
<1> QED
  BY <1>1, <1>2, <1>3, <1>4, <1>5, <1>6 DEF Write

LEMMA ShapePoll ==
    ASSUME Shape, NEW i \in Pollers, Poll(i) \/ PollerDies(i)
    PROVE  Shape'
<1> USE DEF Shape, TypeOK, EventIsFirst, JobsAreNamed, Ids, NoId, PollerStates,
        outboxVars, writerVars, taskVars, workVars
<1>1. CASE GetOutboxWatermark(i)
  BY <1>1 DEF GetOutboxWatermark
<1>2. CASE ListAfterAndReleaseDedup(i)
  <2>1. PICK b \in Listing(i) : /\ dedup' = dedup \ b
                                 /\ batch' = [batch EXCEPT ![i] = b]
    BY <1>2 DEF ListAfterAndReleaseDedup
  <2>2. b \subseteq Ids
    BY <2>1 DEF Listing
  <2>3. batch' \in [Pollers -> SUBSET Ids] /\ dedup' \subseteq Ids
    BY <2>1, <2>2
  <2>4. last' \in [Pollers -> {NoId} \cup Ids] /\ seen' \in [Pollers -> SUBSET Keys]
    BY <1>2 DEF ListAfterAndReleaseDedup
  <2>5. poller' \in [Pollers -> PollerStates]
    BY <1>2 DEF ListAfterAndReleaseDedup
  <2>6. EventIsFirst'
    BY <1>2, <2>1 DEF ListAfterAndReleaseDedup
  <2> QED
    BY <1>2, <2>1, <2>3, <2>4, <2>5, <2>6 DEF ListAfterAndReleaseDedup
<1>3. CASE PollEnds(i)
  BY <1>3 DEF PollEnds, Return
<1>4. CASE HandleStart(i)
  <2>1. PICK e \in batch[i] :
            /\ \A f \in batch[i] : e <= f
            /\ event' = [event EXCEPT ![i] = e]
            /\ snap' = [snap EXCEPT ![i] = IF keyOf[e] \in seen[i] THEN 0
                                                         ELSE version[keyOf[e]]]
            /\ seen' = [seen EXCEPT ![i] = @ \cup {keyOf[e]}]
    BY <1>4 DEF HandleStart
  <2>2. e \in Ids /\ keyOf[e] \in Keys /\ version[keyOf[e]] \in Nat
    BY <2>1
  <2>3. event' \in [Pollers -> {NoId} \cup Ids] /\ snap' \in [Pollers -> Nat]
    BY <2>1, <2>2
  <2>4. seen' \in [Pollers -> SUBSET Keys]
    BY <2>1, <2>2
  <2>5. poller' \in [Pollers -> PollerStates]
    BY <1>4 DEF HandleStart
  <2>6. EventIsFirst'
    BY <1>4, <2>1 DEF HandleStart
  <2> QED
    BY <1>4, <2>3, <2>4, <2>5, <2>6 DEF HandleStart
<1>5. CASE HandleOk(i)
  BY ZenonT(60), <1>5 DEF HandleOk, Settle, Larger
<1>6. CASE HandleFails(i)
  BY <1>6 DEF HandleFails
<1>7. CASE DeferOutboxEvent(i)
  BY <1>7 DEF DeferOutboxEvent, CopyTask, Settle
<1>8. CASE DeferFails(i)
  <2>1. tasks' \subseteq Ids /\ leased' \subseteq tasks' /\ gen' = gen
    BY <1>8 DEF DeferFails, CopyTask
  <2>2. StopAtFailure(i) /\ UNCHANGED <<outboxVars, writerVars, watermark, settled,
                                        workVars, covered>>
    BY <1>8 DEF DeferFails
  <2>3. CASE last[i] > after[i]
    <3>1. /\ poller' = [poller EXCEPT ![i] = "advance"]
          /\ batch' = [batch EXCEPT ![i] = {}]
          /\ event' = [event EXCEPT ![i] = NoId]
          /\ seen' = [seen EXCEPT ![i] = {}]
          /\ snap' = [snap EXCEPT ![i] = 0]
          /\ UNCHANGED <<after, last>>
      BY <2>2, <2>3 DEF StopAtFailure
    <3>2. EventIsFirst'
      BY <3>1
    <3> QED
      BY <2>1, <2>2, <3>1, <3>2
  <2>4. CASE ~(last[i] > after[i])
    <3>1. Return(i)
      BY <2>2, <2>4 DEF StopAtFailure
    <3> QED
      BY <2>1, <2>2, <3>1 DEF Return
  <2> QED
    BY <2>3, <2>4
<1>9. CASE SetOutboxWatermark(i)
  BY <1>9 DEF SetOutboxWatermark
<1>10. CASE SetWatermarkFails(i)
  BY <1>10 DEF SetWatermarkFails, Return
<1>11. CASE cleanupConsumedOutbox(i)
  BY <1>11 DEF cleanupConsumedOutbox, DeleteConsumedUpTo, Return
<1>12. CASE PollerDies(i)
  BY <1>12 DEF PollerDies, Return
<1> QED
  BY <1>1, <1>2, <1>3, <1>4, <1>5, <1>6, <1>7, <1>8, <1>9, <1>10, <1>11, <1>12
  DEF Poll

LEMMA ShapeRetry ==
    ASSUME Shape, NEW i \in Workers, Retry(i) \/ WorkerDies(i)
    PROVE  Shape'
<1> USE DEF Shape, TypeOK, EventIsFirst, JobsAreNamed, Ids, NoId, Generations,
        WorkerStates, outboxVars, writerVars, pollVars, taskVars
<1>1. CASE \E e \in Ids : ClaimOutboxRetry(i, e)
  <2>1. PICK e \in Ids : ClaimOutboxRetry(i, e)
    BY <1>1
  <2>2. PICK g \in Generations : /\ gen' = [gen EXCEPT ![e] = g]
                                 /\ jobGen' = [jobGen EXCEPT ![i] = g]
    BY <2>1 DEF ClaimOutboxRetry, NextGeneration
  <2>3. gen' \in [Ids -> {0} \cup Generations] /\ jobGen' \in [Workers -> {0} \cup Generations]
    BY <2>2
  <2>4. leased' \subseteq tasks
    BY <2>1 DEF ClaimOutboxRetry, Claimable
  <2>5. worker' \in [Workers -> WorkerStates] /\ job' \in [Workers -> {NoId} \cup Ids]
    BY <2>1 DEF ClaimOutboxRetry
  <2>6. JobsAreNamed'
    BY <2>1, <2>2 DEF ClaimOutboxRetry
  <2> QED
    BY <2>1, <2>3, <2>4, <2>5, <2>6 DEF ClaimOutboxRetry
<1>2. CASE RetryStart(i)
  BY <1>2 DEF RetryStart
<1>3. CASE RetryOk(i)
  BY <1>3 DEF RetryOk, Larger
<1>4. CASE RetryFails(i)
  BY <1>4 DEF RetryFails
<1>5. CASE CompleteOutboxRetry(i)
  BY <1>5 DEF CompleteOutboxRetry, Idle
<1>6. CASE RescheduleOutboxRetry(i)
  BY <1>6 DEF RescheduleOutboxRetry, Idle
<1>7. CASE RetryAbandoned(i)
  BY <1>7 DEF RetryAbandoned, Idle
<1>8. CASE WorkerDies(i)
  BY <1>8 DEF WorkerDies, Idle
<1> QED
  BY <1>1, <1>2, <1>3, <1>4, <1>5, <1>6, <1>7, <1>8 DEF Retry

LEMMA ShapeStep == Shape /\ [Next]_vars => Shape'
<1> SUFFICES ASSUME Shape, [Next]_vars PROVE Shape'
  OBVIOUS
<1>1. ASSUME NEW e \in Ids, LeaseExpires(e) PROVE Shape'
  BY <1>1 DEF LeaseExpires, Shape, TypeOK, EventIsFirst, JobsAreNamed, Ids, NoId,
    Generations, WorkerStates, outboxVars, writerVars, pollVars
<1>2. CASE WatermarkLost
  BY <1>2 DEF WatermarkLost, Shape, TypeOK, EventIsFirst, JobsAreNamed, Ids, NoId,
    outboxVars, writerVars, taskVars, workVars
<1>3. CASE UNCHANGED vars
  BY <1>3 DEF Shape, TypeOK, EventIsFirst, JobsAreNamed, vars, outboxVars,
    writerVars, pollVars, taskVars, workVars
<1> QED
  BY <1>1, <1>2, <1>3, ShapeWrite, ShapePoll, ShapeRetry DEF Next

LEMMA ShapeAlways == Spec => []Shape
BY ShapeInit, ShapeStep, PTL DEF Spec

\* The locals of the pollers and workers and the tables keep their types: no
\* poller settles, and no worker handles, an event it does not have.
THEOREM TypeCorrect == Spec => []TypeOK
BY ShapeAlways, PTL DEF Shape

-----------------------------------------------------------------------------
(* Leases.  Generations tell the owners of a task apart, so a statement    *)
(* that asks for one's own generation never meets another owner's lease.   *)

LEMMA LeaseInit == Init => LeaseInv
BY DEF Init, LeaseInv, JobsAreNamed, GenerationsDiffer, LeaseHonoured

LEMMA IdleFrame ==
    ASSUME Shape, NEW i \in Workers, Idle(i)
    PROVE  \A j \in Workers : worker'[j] # "idle" =>
              /\ j # i /\ worker[j] # "idle" /\ job'[j] = job[j]
              /\ jobGen'[j] = jobGen[j] /\ holds'[j] = holds[j]
BY DEF Idle, Shape, TypeOK

LEMMA LeaseStep == Shape /\ LeaseInv /\ [Next]_vars => LeaseInv'
<1> SUFFICES ASSUME Shape, LeaseInv, [Next]_vars PROVE LeaseInv'
  OBVIOUS
<1>0. JobsAreNamed'
  BY ShapeStep DEF Shape
<1> SUFFICES GenerationsDiffer' /\ LeaseHonoured'
  BY <1>0 DEF LeaseInv
<1> USE DEF LeaseInv, GenerationsDiffer, LeaseHonoured, Owns
<1>1. ASSUME UNCHANGED <<workVars, leased, gen>> PROVE GenerationsDiffer' /\ LeaseHonoured'
  BY <1>1 DEF workVars
<1>2. ASSUME NEW w \in Writers, Write(w) PROVE UNCHANGED <<workVars, leased, gen>>
  BY <1>2 DEF Write, Change, enqueueSchedulerOutbox, EnqueueFails, Transaction,
    Commit, Rollback, taskVars
<1>3. ASSUME NEW i \in Pollers, Poll(i) \/ PollerDies(i)
      PROVE  UNCHANGED <<workVars, leased, gen>>
  BY <1>3 DEF Poll, GetOutboxWatermark, ListAfterAndReleaseDedup, PollEnds, HandleStart,
    HandleOk, HandleFails, DeferOutboxEvent, DeferFails, CopyTask, SetOutboxWatermark,
    SetWatermarkFails, cleanupConsumedOutbox, PollerDies, taskVars
<1>4. ASSUME NEW i \in Workers, NEW e \in Ids, ClaimOutboxRetry(i, e)
      PROVE  GenerationsDiffer' /\ LeaseHonoured'
  <2>1. PICK g \in NextGeneration(e) : /\ gen' = [gen EXCEPT ![e] = g]
                                       /\ jobGen' = [jobGen EXCEPT ![i] = g]
    BY <1>4 DEF ClaimOutboxRetry
  <2>2. \A j \in Workers : worker[j] # "idle" => jobGen[j] # g
    BY <2>1 DEF NextGeneration, Unused
  <2>3. e \notin leased
    BY <1>4 DEF ClaimOutboxRetry, Claimable
  <2>4. GenerationsDiffer'
    BY <1>4, <2>1, <2>2 DEF ClaimOutboxRetry, Shape, TypeOK
  <2>5. LeaseHonoured'
    BY <1>4, <2>1, <2>3 DEF ClaimOutboxRetry, Shape, TypeOK
  <2> QED
    BY <2>4, <2>5
<1>5. ASSUME NEW i \in Workers, RetryStart(i) \/ RetryOk(i) \/ RetryFails(i)
      PROVE  GenerationsDiffer' /\ LeaseHonoured'
  BY ZenonT(60), <1>5 DEF RetryStart, RetryOk, RetryFails, taskVars, Shape, TypeOK
<1>6. ASSUME NEW i \in Workers, CompleteOutboxRetry(i) \/ RescheduleOutboxRetry(i)
      PROVE  GenerationsDiffer' /\ LeaseHonoured'
  <2>1. \A j \in Workers : j # i /\ worker[j] # "idle" /\ holds[j] => job[j] # job[i]
    BY <1>6 DEF CompleteOutboxRetry, RescheduleOutboxRetry
  <2>2. \A j \in Workers : worker'[j] # "idle" =>
            /\ j # i /\ worker[j] # "idle" /\ job'[j] = job[j]
            /\ jobGen'[j] = jobGen[j] /\ holds'[j] = holds[j]
    BY <1>6, IdleFrame DEF CompleteOutboxRetry, RescheduleOutboxRetry
  <2>3. GenerationsDiffer'
    BY <2>2
  <2>4. \A j \in Workers : worker[j] # "idle" /\ holds[j] /\ j # i =>
            /\ job[j] \in leased => job[j] \in leased'
            /\ gen'[job[j]] = gen[job[j]]
    BY <1>6, <2>1 DEF CompleteOutboxRetry, RescheduleOutboxRetry, Shape, TypeOK, JobsAreNamed
  <2> QED
    BY <2>2, <2>3, <2>4
<1>7. ASSUME NEW i \in Workers, RetryAbandoned(i) \/ WorkerDies(i)
      PROVE  GenerationsDiffer' /\ LeaseHonoured'
  <2>1. \A j \in Workers : worker'[j] # "idle" =>
            /\ j # i /\ worker[j] # "idle" /\ job'[j] = job[j]
            /\ jobGen'[j] = jobGen[j] /\ holds'[j] = holds[j]
    BY <1>7, IdleFrame DEF RetryAbandoned, WorkerDies
  <2>2. leased' = leased /\ gen' = gen
    BY <1>7 DEF RetryAbandoned, WorkerDies, taskVars
  <2> QED
    BY <2>1, <2>2
<1>8. ASSUME NEW e \in Ids, LeaseExpires(e) PROVE GenerationsDiffer' /\ LeaseHonoured'
  BY <1>8 DEF LeaseExpires, Shape, TypeOK
<1>9. CASE WatermarkLost
  BY <1>1, <1>9 DEF WatermarkLost, taskVars
<1>10. CASE UNCHANGED vars
  BY <1>1, <1>10 DEF vars, taskVars
<1> QED
  BY <1>1, <1>2, <1>3, <1>4, <1>5, <1>6, <1>7, <1>8, <1>9, <1>10 DEF Next, Retry

\* A retry worker is the one owner of its task until its lease runs out, with
\* any number of workers, crashes, failed statements and repeated copies.
THEOREM LeasesAreHonoured == Spec => []LeaseHonoured
<1>1. LeaseInv => LeaseHonoured
  BY DEF LeaseInv
<1> QED
  BY <1>1, ShapeAlways, LeaseInit, LeaseStep, PTL DEF Spec


-----------------------------------------------------------------------------
(* Order.  Behind the watermark and every poller's position all rows are   *)
(* settled, but for the ones that appeared there late.                     *)

\* What every step does to the ids: new ones are fresh, rows come from open
\* transactions, and what is settled or late stays so.
Evolves ==
    /\ next' >= next
    /\ \A e \in Open' : e \in Open \/ e >= next
    /\ rows' \subseteq rows \cup Open
    /\ settled \subseteq settled'
    /\ late \subseteq late' /\ late' \subseteq late \cup Open

LEMMA OrderInit == Init => OrderInv
BY DEF Init, OrderInv, EventIsFirst, IdsAreFresh, PositionsAreClosed, ClosedTo, Ids, NoId, Open

LEMMA EvolvesInsert ==
    ASSUME TypeOK, NEW w \in Writers, NEW k \in Keys, NEW d \in BOOLEAN,
           InsertRow(w, k, d) \/ InsertNothing(w), UNCHANGED <<settled, late>>
    PROVE  Evolves
BY DEF TypeOK, InsertRow, InsertNothing, Evolves, Open, Ids, NoId

LEMMA WriteEvolves ==
    ASSUME TypeOK, NEW w \in Writers, Write(w)
    PROVE  Evolves
<1>1. CASE \E k \in Keys : Change(w, k)
  BY <1>1 DEF Change, Evolves, Open, outboxVars, pollVars, TypeOK, Ids
<1>2. CASE \E d \in BOOLEAN : enqueueSchedulerOutbox(w, d)
  BY <1>2, EvolvesInsert DEF enqueueSchedulerOutbox, pollVars, TypeOK
<1>3. CASE EnqueueFails(w)
  BY <1>3 DEF EnqueueFails, Evolves, Open, outboxVars, pollVars, TypeOK, Ids
<1>4. CASE \E k \in Keys, d \in BOOLEAN : Transaction(w, k, d)
  BY <1>4, EvolvesInsert DEF Transaction, pollVars
<1>5. CASE Commit(w)
  <2>1. /\ next' = next /\ settled' = settled /\ late \subseteq late'
        /\ wrow' = [wrow EXCEPT ![w] = NoId]
        /\ rows' \subseteq rows \cup ({wrow[w]} \ {NoId})
        /\ late' \subseteq late \cup ({wrow[w]} \ {NoId})
    BY <1>5 DEF Commit, pollVars
  <2>2. {wrow[w]} \ {NoId} \subseteq Open /\ Open' \subseteq Open
    BY <2>1 DEF Open, TypeOK
  <2>3. next \in Int
    BY DEF TypeOK
  <2> QED
    BY <2>1, <2>2, <2>3 DEF Evolves
<1>6. CASE Rollback(w)
  BY <1>6 DEF Rollback, Evolves, Open, pollVars, TypeOK, Ids, NoId
<1> QED
  BY <1>1, <1>2, <1>3, <1>4, <1>5, <1>6 DEF Write

LEMMA OthersEvolve ==
    ASSUME TypeOK, UNCHANGED <<next, wrow, late>>, rows' \subseteq rows,
           settled \subseteq settled'
    PROVE  Evolves
BY DEF Evolves, Open, TypeOK, Ids

\* Only writers draw and show ids.
LEMMA OthersFrame ==
    ASSUME \/ \E i \in Pollers : Poll(i) \/ PollerDies(i)
           \/ \E i \in Workers : Retry(i) \/ WorkerDies(i)
           \/ \E e \in Ids : LeaseExpires(e)
           \/ WatermarkLost
           \/ UNCHANGED vars
    PROVE  UNCHANGED <<next, wrow, late>> /\ rows' \subseteq rows /\ settled \subseteq settled'
<1>1. ASSUME NEW i \in Pollers, Poll(i) \/ PollerDies(i)
      PROVE  UNCHANGED <<next, wrow, late>> /\ rows' \subseteq rows /\ settled \subseteq settled'
  BY <1>1 DEF Poll, GetOutboxWatermark, ListAfterAndReleaseDedup, PollEnds, HandleStart,
    HandleOk, HandleFails, DeferOutboxEvent, DeferFails, Settle, SetOutboxWatermark,
    SetWatermarkFails, cleanupConsumedOutbox, PollerDies, outboxVars, writerVars
<1>2. ASSUME NEW i \in Workers, Retry(i) \/ WorkerDies(i)
      PROVE  UNCHANGED <<next, wrow, late, rows, settled>>
  BY <1>2 DEF Retry, ClaimOutboxRetry, RetryStart, RetryOk, RetryFails, CompleteOutboxRetry,
    RescheduleOutboxRetry, RetryAbandoned, WorkerDies, outboxVars, writerVars, pollVars
<1>3. ASSUME NEW e \in Ids, LeaseExpires(e) PROVE UNCHANGED <<next, wrow, late, rows, settled>>
  BY <1>3 DEF LeaseExpires, outboxVars, writerVars, pollVars
<1>4. CASE WatermarkLost
  BY <1>4 DEF WatermarkLost, outboxVars, writerVars
<1>5. CASE UNCHANGED vars
  BY <1>5 DEF vars, outboxVars, writerVars, pollVars
<1> QED
  BY <1>1, <1>2, <1>3, <1>4, <1>5

LEMMA InsertIsFresh ==
    ASSUME TypeOK, IdsAreFresh, NEW w \in Writers, NEW k \in Keys, NEW d \in BOOLEAN,
           InsertRow(w, k, d) \/ InsertNothing(w)
    PROVE  IdsAreFresh'
<1>0. next \in Int /\ rows \subseteq Int /\ \A v \in Writers : wrow[v] \in Int
  BY DEF TypeOK, Ids, NoId
<1>1. CASE InsertRow(w, k, d)
  <2>1. /\ next' = next + 1 /\ rows' = rows
        /\ \A v \in Writers : wrow'[v] = IF v = w THEN next ELSE wrow[v]
    BY <1>1 DEF InsertRow, TypeOK
  <2>2. \A e \in Open' : e \in Open \/ e = next
    BY <2>1 DEF Open
  <2>3. \A e \in rows' : e < next' /\ e \notin Open'
    BY <1>0, <2>1, <2>2 DEF IdsAreFresh
  <2> QED
    BY <1>0, <2>1, <2>3 DEF IdsAreFresh
<1>2. CASE InsertNothing(w)
  BY <1>0, <1>2 DEF InsertNothing, IdsAreFresh, Open
<1> QED
  BY <1>1, <1>2

LEMMA IdsStep ==
    ASSUME Shape, IdsAreFresh, [Next]_vars
    PROVE  IdsAreFresh'
<1>1. ASSUME NEW w \in Writers, Write(w) PROVE IdsAreFresh'
  <2>1. CASE \E k \in Keys : Change(w, k)
    BY <2>1 DEF Change, IdsAreFresh, Open, outboxVars
  <2>2. CASE \E d \in BOOLEAN : enqueueSchedulerOutbox(w, d)
    BY <2>2, InsertIsFresh DEF enqueueSchedulerOutbox, Shape, TypeOK
  <2>3. CASE EnqueueFails(w)
    BY <2>3 DEF EnqueueFails, IdsAreFresh, Open, outboxVars
  <2>4. CASE \E k \in Keys, d \in BOOLEAN : Transaction(w, k, d)
    BY <2>4, InsertIsFresh DEF Transaction, Shape
  <2>5. CASE Commit(w) \/ Rollback(w)
    <3>0. next \in Int /\ next > 0 /\ rows \subseteq Int /\ \A v \in Writers : wrow[v] \in Int
      BY DEF Shape, TypeOK, Ids, NoId
    <3>1. /\ next' = next
          /\ \A v \in Writers : wrow'[v] = IF v = w THEN NoId ELSE wrow[v]
          /\ rows' \subseteq rows \cup ({wrow[w]} \ {NoId})
      BY <2>5 DEF Commit, Rollback, Shape, TypeOK
    <3>2. \A e \in Open' : e \in Open /\ e # wrow[w]
      BY <3>1 DEF Open, IdsAreFresh
    <3>3. \A e \in rows' : e < next' /\ e \notin Open'
      BY <3>1, <3>2 DEF IdsAreFresh
    <3> QED
      BY <3>0, <3>1, <3>3 DEF IdsAreFresh, NoId
  <2> QED
    BY <1>1, <2>1, <2>2, <2>3, <2>4, <2>5 DEF Write
<1>2. ASSUME UNCHANGED <<next, wrow>>, rows' \subseteq rows PROVE IdsAreFresh'
  BY <1>2 DEF IdsAreFresh, Open
<1> QED
  BY <1>1, <1>2, OthersFrame DEF Next

LEMMA StepEvolves == Shape /\ [Next]_vars => Evolves
BY WriteEvolves, OthersEvolve, OthersFrame DEF Shape, Next


\* A row that appears behind a position is late.
LEMMA PositionsWrite ==
    ASSUME Shape, PositionsAreClosed, NEW w \in Writers, Write(w)
    PROVE  PositionsAreClosed'
<1>1. UNCHANGED <<watermark, after, last, batch, settled>>
  BY DEF Write, Change, enqueueSchedulerOutbox, EnqueueFails, Transaction, Commit, Rollback,
    pollVars
<1>2. late \subseteq late' /\ \A e \in rows' : e \in rows \/ e \in late' \/ ~Passed(e)
  <2>1. CASE Commit(w)
    BY <2>1 DEF Commit
  <2>2. CASE ~Commit(w)
    BY <2>2 DEF Write, Change, enqueueSchedulerOutbox, InsertRow, InsertNothing, EnqueueFails,
      Transaction, Rollback, outboxVars
  <2> QED
    BY <2>1, <2>2
<1>3. ASSUME NEW n, NEW b, ClosedTo(n, b), \A e \in rows' : e <= n => Passed(e)
      PROVE  \A e \in rows' : e <= n => e \in settled \cup b \cup late'
  BY <1>2, <1>3 DEF ClosedTo
<1>4. \A e \in rows' : e <= watermark => e \in settled \cup {} \cup late'
  BY <1>3 DEF PositionsAreClosed, Passed
<1>5. ASSUME NEW i \in Pollers
      PROVE  /\ \A e \in rows' : e <= after[i] => e \in settled \cup {} \cup late'
             /\ \A e \in rows' : e <= last[i] => e \in settled \cup {} \cup late'
  BY <1>3 DEF PositionsAreClosed, Passed
<1>6. ASSUME NEW i \in Pollers, NEW c \in batch[i]
      PROVE  \A e \in rows' : e <= c => e \in settled \cup batch[i] \cup late'
  BY <1>3 DEF PositionsAreClosed, Passed
<1> QED
  BY <1>1, <1>4, <1>5, <1>6 DEF PositionsAreClosed, ClosedTo

LEMMA PositionsStep ==
    ASSUME Shape, PositionsAreClosed, [Next]_vars
    PROVE  PositionsAreClosed'
<1> SUFFICES ASSUME \/ \E i \in Pollers : Poll(i) \/ PollerDies(i)
                    \/ \E i \in Workers : Retry(i) \/ WorkerDies(i)
                    \/ \E e \in Ids : LeaseExpires(e)
                    \/ WatermarkLost
                    \/ UNCHANGED vars
             PROVE  PositionsAreClosed'
  BY PositionsWrite DEF Next
<1> DEFINE C(n, b) == \A e \in rows' : e <= n => e \in settled' \cup b \cup late'
<1>1. /\ TypeOK /\ TypeOK' /\ UNCHANGED <<next, wrow, late>>
      /\ rows' \subseteq rows /\ settled \subseteq settled'
  BY ShapeStep, OthersFrame DEF Shape
<1>2. ASSUME NEW n, NEW b, ClosedTo(n, b) PROVE C(n, b)
  BY <1>1, <1>2 DEF ClosedTo
<1>3. /\ C(watermark, {}) /\ C(NoId, {})
      /\ \A i \in Pollers : C(after[i], {}) /\ C(last[i], {})
      /\ \A i \in Pollers : \A c \in batch[i] : C(c, batch[i])
  <2>1. ClosedTo(NoId, {})
    BY DEF ClosedTo, Ids, NoId, Shape, TypeOK
  <2>2. C(watermark, {}) /\ C(NoId, {})
    BY <1>2, <2>1 DEF PositionsAreClosed
  <2>3. ASSUME NEW i \in Pollers PROVE C(after[i], {}) /\ C(last[i], {})
    BY <1>2 DEF PositionsAreClosed
  <2>4. ASSUME NEW i \in Pollers, NEW c \in batch[i] PROVE C(c, batch[i])
    BY <1>2 DEF PositionsAreClosed
  <2> QED
    BY <2>2, <2>3, <2>4
<1> SUFFICES /\ C(watermark', {})
             /\ \A i \in Pollers : C(after'[i], {}) /\ C(last'[i], {})
             /\ \A i \in Pollers : \A c \in batch'[i] : C(c, batch'[i])
  BY DEF PositionsAreClosed, ClosedTo
<1> HIDE DEF C
<1>4. CASE UNCHANGED <<watermark, after, last, batch>>
  BY <1>3, <1>4
<1>5. ASSUME NEW i \in Pollers, Poll(i) \/ PollerDies(i)
      PROVE  /\ C(watermark', {})
             /\ \A j \in Pollers : C(after'[j], {}) /\ C(last'[j], {})
             /\ \A j \in Pollers : \A c \in batch'[j] : C(c, batch'[j])
  <2>1. ASSUME Return(i), watermark' \in {watermark, last[i]}
        PROVE  /\ C(watermark', {})
               /\ \A j \in Pollers : C(after'[j], {}) /\ C(last'[j], {})
               /\ \A j \in Pollers : \A c \in batch'[j] : C(c, batch'[j])
    BY <1>1, <1>3, <2>1 DEF Return, TypeOK
  <2>2. CASE GetOutboxWatermark(i)
    BY <1>1, <1>3, <2>2 DEF GetOutboxWatermark, TypeOK
  <2>3. CASE ListAfterAndReleaseDedup(i)
    <3>1. PICK b \in Listing(i) : batch' = [batch EXCEPT ![i] = b]
      BY <2>3 DEF ListAfterAndReleaseDedup
    <3>3. ASSUME NEW c \in b PROVE C(c, b)
      <4>1. c \in Int /\ after[i] \in Int /\ \A e \in rows : e \in Int
        <5>1. c \in rows
          BY <3>1, <3>3 DEF Listing
        <5> QED
          BY <1>1, <5>1 DEF TypeOK, Ids, NoId
      <4>2. \A e \in rows : e > after[i] /\ e < c => e \in b
        BY <3>1, <3>3 DEF Listing
      <4>3. \A e \in rows : e <= after[i] => e \in settled' \cup late'
        BY <1>1 DEF PositionsAreClosed, ClosedTo
      <4>4. ASSUME NEW e \in rows, e <= c PROVE e \in settled' \cup b \cup late'
        <5>1. e <= after[i] \/ e = c \/ (e > after[i] /\ e < c)
          BY <4>1, <4>4
        <5> QED
          BY <3>3, <4>2, <4>3, <5>1
      <4> QED
        BY <1>1, <4>4 DEF C
    <3> QED
      BY <1>1, <1>3, <2>3, <3>1, <3>3 DEF ListAfterAndReleaseDedup, TypeOK
  <2>4. CASE PollEnds(i) \/ cleanupConsumedOutbox(i) \/ PollerDies(i)
    BY <2>1, <2>4 DEF PollEnds, cleanupConsumedOutbox, PollerDies
  <2>5. CASE HandleStart(i) \/ HandleFails(i)
    BY <1>4, <2>5, <1>3 DEF HandleStart, HandleFails
  <2>6. CASE HandleOk(i) \/ DeferOutboxEvent(i)
    <3>1. Settle(i) /\ UNCHANGED <<watermark, after, next, wrow, rows>>
      BY <2>6 DEF HandleOk, DeferOutboxEvent, outboxVars, writerVars
    <3>2. event[i] \in batch[i] /\ \A e \in batch[i] : event[i] <= e
      BY <2>6 DEF HandleOk, DeferOutboxEvent, Shape, EventIsFirst
    <3>3. /\ event[i] \in Ids /\ batch[i] \subseteq Ids /\ Ids \subseteq Int
          /\ settled' = settled \cup {event[i]}
          /\ last' = [last EXCEPT ![i] = event[i]]
          /\ batch' = [batch EXCEPT ![i] = batch[i] \ {event[i]}]
      BY <1>1, <3>1, <3>2 DEF Settle, TypeOK, Ids
    <3>4. C(event[i], {})
      <4>1. C(event[i], batch[i])
        BY <1>3, <3>2
      <4>2. ASSUME NEW e \in batch[i], e <= event[i] PROVE e \in settled'
        <5>1. e \in Int /\ event[i] \in Int /\ event[i] <= e
          BY <3>2, <3>3
        <5>2. e = event[i]
          BY <4>2, <5>1
        <5> QED
          BY <3>3, <5>2
      <4> QED
        BY <4>1, <4>2 DEF C
    <3>5. ASSUME NEW c \in batch[i] PROVE C(c, batch[i] \ {event[i]})
      BY <1>3, <3>3, <3>5 DEF C
    <3>6. \A j \in Pollers : C(after'[j], {}) /\ C(last'[j], {})
      BY <1>1, <1>3, <3>1, <3>3, <3>4 DEF TypeOK
    <3>7. ASSUME NEW j \in Pollers, NEW c \in batch'[j] PROVE C(c, batch'[j])
      <4>1. CASE j = i
        BY <1>1, <3>3, <3>5, <3>7, <4>1 DEF TypeOK
      <4>2. CASE j # i
        <5>1. batch'[j] = batch[j]
          BY <1>1, <3>3, <4>2 DEF TypeOK
        <5> QED
          BY <1>3, <3>7, <5>1
      <4> QED
        BY <4>1, <4>2
    <3> QED
      BY <1>3, <3>1, <3>6, <3>7
  <2>7. CASE DeferFails(i)
    <3>1. watermark' = watermark /\ StopAtFailure(i)
      BY <2>7 DEF DeferFails
    <3>2. CASE last[i] > after[i]
      <4>1. batch' = [batch EXCEPT ![i] = {}] /\ UNCHANGED <<after, last>>
        BY <3>1, <3>2 DEF StopAtFailure
      <4> QED
        BY <1>1, <1>3, <3>1, <4>1 DEF TypeOK
    <3>3. CASE ~(last[i] > after[i])
      BY <2>1, <3>1, <3>3 DEF StopAtFailure
    <3> QED
      BY <3>2, <3>3
  <2>8. CASE SetOutboxWatermark(i)
    BY <1>3, <2>8 DEF SetOutboxWatermark
  <2>9. CASE SetWatermarkFails(i)
    BY <2>1, <2>9 DEF SetWatermarkFails
  <2> QED
    BY <1>5, <2>2, <2>3, <2>4, <2>5, <2>6, <2>7, <2>8, <2>9 DEF Poll
<1>7. ASSUME NEW i \in Workers, Retry(i) \/ WorkerDies(i)
      PROVE  UNCHANGED <<watermark, after, last, batch>>
  BY <1>7 DEF Retry, ClaimOutboxRetry, RetryStart, RetryOk, RetryFails, CompleteOutboxRetry,
    RescheduleOutboxRetry, RetryAbandoned, WorkerDies, pollVars
<1>8. ASSUME NEW e \in Ids, LeaseExpires(e) PROVE UNCHANGED <<watermark, after, last, batch>>
  BY <1>8 DEF LeaseExpires, pollVars
<1>9. CASE WatermarkLost
  BY <1>3, <1>9 DEF WatermarkLost
<1>10. CASE UNCHANGED vars
  BY <1>4, <1>10 DEF vars, pollVars
<1> QED
  BY <1>4, <1>5, <1>7, <1>8, <1>9, <1>10

\* A row disappears from the outbox only after its event was handled or copied
\* to the retry queue, or if it appeared behind the pollers, however many of
\* them share the watermark, crash, or see it lost.
THEOREM CleanupIsSafe == Spec => CleanupOnlySettled
<1>1. Init => OrderInv
  BY OrderInit
<1>2. Shape /\ OrderInv /\ [Next]_vars => OrderInv'
  BY ShapeStep, IdsStep, PositionsStep DEF OrderInv, Shape
<1>3. Shape /\ OrderInv /\ [Next]_vars => [rows \ rows' \subseteq settled \cup late]_vars
  <2> SUFFICES ASSUME Shape, OrderInv, [Next]_vars, NEW e \in rows, e \notin rows'
               PROVE  e \in settled \cup late
    OBVIOUS
  <2>1. PICK i \in Pollers : cleanupConsumedOutbox(i)
    <3>1. ASSUME NEW w \in Writers, Write(w) PROVE FALSE
      BY <3>1 DEF Write, Change, enqueueSchedulerOutbox, InsertRow, InsertNothing,
        EnqueueFails, Transaction, Commit, Rollback, outboxVars
    <3>2. ASSUME NEW i \in Pollers, Poll(i) \/ PollerDies(i), ~cleanupConsumedOutbox(i)
          PROVE  FALSE
      BY <3>2 DEF Poll, GetOutboxWatermark, ListAfterAndReleaseDedup, PollEnds, HandleStart,
        HandleOk, HandleFails, DeferOutboxEvent, DeferFails, SetOutboxWatermark,
        SetWatermarkFails, PollerDies, outboxVars
    <3>3. ASSUME NEW i \in Workers, Retry(i) \/ WorkerDies(i) PROVE FALSE
      BY <3>3 DEF Retry, ClaimOutboxRetry, RetryStart, RetryOk, RetryFails,
        CompleteOutboxRetry, RescheduleOutboxRetry, RetryAbandoned, WorkerDies, outboxVars
    <3>4. ASSUME NEW f \in Ids, LeaseExpires(f) PROVE FALSE
      BY <3>4 DEF LeaseExpires, outboxVars
    <3>5. ~WatermarkLost /\ ~UNCHANGED vars
      BY DEF WatermarkLost, outboxVars, vars
    <3> QED
      BY <3>1, <3>2, <3>3, <3>4, <3>5 DEF Next
  <2>2. e <= last[i]
    BY <2>1 DEF cleanupConsumedOutbox, DeleteConsumedUpTo
  <2> QED
    BY <2>2 DEF OrderInv, PositionsAreClosed, ClosedTo, Shape, TypeOK
<1> QED
  BY <1>1, <1>2, <1>3, ShapeAlways, PTL DEF Spec, CleanupOnlySettled

-----------------------------------------------------------------------------
(* No lost change.  What a poller has listed or a task was made of is old:  *)
(* its dedup key is released, so the event that the next change relies on  *)
(* is one that nobody has in hand yet.                                     *)

LEMMA LossInit == Init => LossInv
BY DEF Init, LossInv, RowsAreNamed, TakenIsOld, Taken, ChangesAreAnnounced

\* Only writers change what the writers know and what the events are about.
LEMMA WritersFrame ==
    ASSUME \/ \E i \in Pollers : Poll(i) \/ PollerDies(i)
           \/ \E i \in Workers : Retry(i) \/ WorkerDies(i)
           \/ \E e \in Ids : LeaseExpires(e)
           \/ WatermarkLost
           \/ UNCHANGED vars
    PROVE  UNCHANGED <<writerVars, keyOf, next>>
<1>1. ASSUME NEW i \in Pollers, Poll(i) \/ PollerDies(i)
      PROVE  UNCHANGED <<writerVars, keyOf, next>>
  BY <1>1 DEF Poll, GetOutboxWatermark, ListAfterAndReleaseDedup, PollEnds, HandleStart,
    HandleOk, HandleFails, DeferOutboxEvent, DeferFails, SetOutboxWatermark,
    SetWatermarkFails, cleanupConsumedOutbox, PollerDies, outboxVars
<1>2. ASSUME NEW i \in Workers, Retry(i) \/ WorkerDies(i)
      PROVE  UNCHANGED <<writerVars, keyOf, next>>
  BY <1>2 DEF Retry, ClaimOutboxRetry, RetryStart, RetryOk, RetryFails, CompleteOutboxRetry,
    RescheduleOutboxRetry, RetryAbandoned, WorkerDies, outboxVars
<1>3. ASSUME NEW e \in Ids, LeaseExpires(e) PROVE UNCHANGED <<writerVars, keyOf, next>>
  BY <1>3 DEF LeaseExpires, outboxVars
<1>4. CASE WatermarkLost
  BY <1>4 DEF WatermarkLost, outboxVars
<1>5. CASE UNCHANGED vars
  BY <1>5 DEF vars, outboxVars
<1> QED
  BY <1>1, <1>2, <1>3, <1>4, <1>5

\* Only pollers and workers change what has been taken.
LEMMA WritersTakeNothing ==
    ASSUME NEW w \in Writers, Write(w)
    PROVE  UNCHANGED <<pollVars, taskVars, workVars, covered>> /\ Taken' = Taken
<1>1. UNCHANGED <<pollVars, taskVars, workVars, covered>>
  BY DEF Write, Change, enqueueSchedulerOutbox, EnqueueFails, Transaction, Commit, Rollback
<1> QED
  BY <1>1 DEF Taken, pollVars, taskVars, workVars

LEMMA NamedStep ==
    ASSUME Shape, IdsAreFresh, RowsAreNamed, [Next]_vars
    PROVE  RowsAreNamed'
<1>1. ASSUME NEW w \in Writers, Write(w) PROVE RowsAreNamed'
  <2> USE DEF RowsAreNamed, Shape, TypeOK, WriterStates
  <2>0. next # NoId /\ \A v \in Writers : wrow[v] # next
    BY DEF IdsAreFresh, Ids, NoId
  <2>1. CASE \E k \in Keys : Change(w, k)
    BY <2>1 DEF Change, outboxVars
  <2>2. CASE \E d \in BOOLEAN : enqueueSchedulerOutbox(w, d)
    <3>1. PICK d \in BOOLEAN : enqueueSchedulerOutbox(w, d)
      BY <2>2
    <3>2. CASE InsertRow(w, wkey[w], d) /\ writer' = [writer EXCEPT ![w] = "auto"]
      BY <2>0, <3>1, <3>2 DEF enqueueSchedulerOutbox, InsertRow, Ids
    <3>3. CASE InsertNothing(w) /\ writer' = [writer EXCEPT ![w] = "idle"]
      BY <3>1, <3>3 DEF enqueueSchedulerOutbox, InsertNothing
    <3> QED
      BY <3>1, <3>2, <3>3 DEF enqueueSchedulerOutbox
  <2>3. CASE EnqueueFails(w)
    BY <2>3 DEF EnqueueFails, outboxVars
  <2>4. CASE \E k \in Keys, d \in BOOLEAN : Transaction(w, k, d)
    <3>1. PICK k \in Keys, d \in BOOLEAN : Transaction(w, k, d)
      BY <2>4
    <3>2. CASE InsertRow(w, k, d)
      BY <2>0, <3>1, <3>2 DEF Transaction, InsertRow, Ids
    <3>3. CASE InsertNothing(w)
      BY <3>1, <3>3 DEF Transaction, InsertNothing
    <3> QED
      BY <3>1, <3>2, <3>3 DEF Transaction
  <2>5. CASE Commit(w)
    BY <2>5 DEF Commit
  <2>6. CASE Rollback(w)
    BY <2>6 DEF Rollback
  <2> QED
    BY <1>1, <2>1, <2>2, <2>3, <2>4, <2>5, <2>6 DEF Write
<1>2. ASSUME UNCHANGED <<writerVars, keyOf, next>> PROVE RowsAreNamed'
  BY <1>2 DEF RowsAreNamed, writerVars
<1> QED
  BY <1>1, <1>2, WritersFrame DEF Next

\* What no step of a writer changes about old ids.
LEMMA OldWrite ==
    ASSUME Shape, IdsAreFresh, NEW w \in Writers, Write(w),
           NEW e \in Ids, e < next, e \notin Open, e \notin dedup
    PROVE  e < next' /\ e \notin Open' /\ e \notin dedup'
<1> USE DEF Shape, TypeOK
<1>1. Evolves
  BY WriteEvolves
<1>2. e \in Int /\ next \in Int /\ next' \in Int
  <2>1. OutboxTyped'
    BY ShapeWrite DEF OutboxTyped
  <2> QED
    BY <2>1 DEF OutboxTyped, Ids
<1>3. e < next' /\ e \notin Open'
  BY <1>1, <1>2 DEF Evolves
<1>4. \A f \in dedup' : f \in dedup \/ f = next
  <2>1. ASSUME NEW k \in Keys, NEW d \in BOOLEAN, InsertRow(w, k, d) \/ InsertNothing(w)
        PROVE  \A f \in dedup' : f \in dedup \/ f = next
    BY <2>1 DEF InsertRow, InsertNothing
  <2>2. CASE \E k \in Keys : Change(w, k)
    BY <2>2 DEF Change, outboxVars
  <2>3. CASE \E d \in BOOLEAN : enqueueSchedulerOutbox(w, d)
    BY <2>1, <2>3 DEF enqueueSchedulerOutbox
  <2>4. CASE \E k \in Keys, d \in BOOLEAN : Transaction(w, k, d)
    BY <2>1, <2>4 DEF Transaction
  <2>5. CASE EnqueueFails(w) \/ Commit(w) \/ Rollback(w)
    BY <2>5 DEF EnqueueFails, Commit, Rollback, outboxVars
  <2> QED
    BY <2>2, <2>3, <2>4, <2>5 DEF Write
<1> QED
  BY <1>2, <1>3, <1>4

\* A poller takes committed events and releases their dedup keys.
LEMMA PollTakes ==
    ASSUME Shape, NEW i \in Pollers, Poll(i) \/ PollerDies(i)
    PROVE  /\ dedup' \subseteq dedup
           /\ \A e \in Taken' : e \in Taken \/ (e \in rows /\ e \notin dedup')
<1> USE DEF Shape, TypeOK
<1>1. dedup' \subseteq dedup
  BY DEF Poll, GetOutboxWatermark, ListAfterAndReleaseDedup, PollEnds, HandleStart,
    HandleOk, HandleFails, DeferOutboxEvent, DeferFails, SetOutboxWatermark,
    SetWatermarkFails, cleanupConsumedOutbox, PollerDies, outboxVars
<1>2. UNCHANGED workVars
  BY DEF Poll, GetOutboxWatermark, ListAfterAndReleaseDedup, PollEnds, HandleStart,
    HandleOk, HandleFails, DeferOutboxEvent, DeferFails, SetOutboxWatermark,
    SetWatermarkFails, cleanupConsumedOutbox, PollerDies
<1>3. poller[i] \in {"handling", "failed"} => event[i] \in batch[i]
  BY DEF EventIsFirst
<1>4. tasks' \subseteq tasks \cup batch[i] /\ settled' \subseteq settled \cup batch[i]
  <2>1. CASE HandleOk(i)
    BY <1>3, <2>1 DEF HandleOk, Settle, taskVars
  <2>2. CASE DeferOutboxEvent(i)
    BY <1>3, <2>2 DEF DeferOutboxEvent, Settle, CopyTask
  <2>3. CASE DeferFails(i)
    BY <1>3, <2>3 DEF DeferFails, CopyTask, taskVars
  <2>4. CASE ~(HandleOk(i) \/ DeferOutboxEvent(i) \/ DeferFails(i))
    BY <2>4 DEF Poll, GetOutboxWatermark, ListAfterAndReleaseDedup, PollEnds, HandleStart,
      HandleFails, SetOutboxWatermark, SetWatermarkFails, cleanupConsumedOutbox,
      PollerDies, taskVars
  <2> QED
    BY <2>1, <2>2, <2>3, <2>4
<1>5. /\ \A j \in Pollers : j # i => batch'[j] = batch[j]
      /\ batch'[i] \subseteq batch[i] \/ batch'[i] \subseteq rows \ dedup'
  <2>1. CASE ListAfterAndReleaseDedup(i)
    <3>1. PICK b \in Listing(i) : dedup' = dedup \ b /\ batch' = [batch EXCEPT ![i] = b]
      BY <2>1 DEF ListAfterAndReleaseDedup
    <3>2. b \subseteq rows
      BY <3>1 DEF Listing
    <3> QED
      BY <3>1, <3>2
  <2>2. CASE HandleOk(i) \/ DeferOutboxEvent(i)
    BY <2>2 DEF HandleOk, DeferOutboxEvent, Settle
  <2>3. CASE DeferFails(i)
    BY <2>3 DEF DeferFails, StopAtFailure, Return
  <2>4. CASE ~(ListAfterAndReleaseDedup(i) \/ HandleOk(i) \/ DeferOutboxEvent(i) \/ DeferFails(i))
    BY <2>4 DEF Poll, GetOutboxWatermark, PollEnds, HandleStart, HandleFails,
      SetOutboxWatermark, SetWatermarkFails, cleanupConsumedOutbox, PollerDies, Return
  <2> QED
    BY <2>1, <2>2, <2>3, <2>4
<1> QED
  BY <1>1, <1>2, <1>4, <1>5 DEF Taken, workVars

\* A worker takes a task.
LEMMA RetryTakes ==
    ASSUME Shape, NEW i \in Workers, Retry(i) \/ WorkerDies(i)
    PROVE  UNCHANGED <<outboxVars, pollVars>> /\ Taken' \subseteq Taken
<1> USE DEF Shape, TypeOK
<1>1. UNCHANGED <<outboxVars, pollVars>>
  BY DEF Retry, ClaimOutboxRetry, RetryStart, RetryOk, RetryFails, CompleteOutboxRetry,
    RescheduleOutboxRetry, RetryAbandoned, WorkerDies
<1>2. tasks' \subseteq tasks
  BY DEF Retry, ClaimOutboxRetry, RetryStart, RetryOk, RetryFails, CompleteOutboxRetry,
    RescheduleOutboxRetry, RetryAbandoned, WorkerDies, taskVars
<1>3. \A j \in Workers : worker'[j] # "idle" =>
          (worker[j] # "idle" /\ job'[j] = job[j]) \/ job'[j] \in tasks
  BY DEF Retry, ClaimOutboxRetry, Claimable, RetryStart, RetryOk, RetryFails,
    CompleteOutboxRetry, RescheduleOutboxRetry, RetryAbandoned, WorkerDies, Idle
<1> QED
  BY <1>1, <1>2, <1>3 DEF Taken, pollVars

LEMMA OldStep ==
    ASSUME Shape, IdsAreFresh, TakenIsOld, [Next]_vars
    PROVE  TakenIsOld'
<1>0. Taken \subseteq Ids
  BY DEF Taken
<1>1. ASSUME NEW w \in Writers, Write(w) PROVE TakenIsOld'
  BY <1>0, <1>1, OldWrite, WritersTakeNothing DEF TakenIsOld
<1>2. ASSUME NEW i \in Pollers, Poll(i) \/ PollerDies(i) PROVE TakenIsOld'
  <2>1. UNCHANGED <<next, wrow>>
    BY <1>2, OthersFrame
  <2>2. \A e \in rows : e < next /\ e \notin Open
    BY DEF IdsAreFresh
  <2> QED
    BY <1>2, <2>1, <2>2, PollTakes DEF TakenIsOld, Open
<1>3. ASSUME NEW i \in Workers, Retry(i) \/ WorkerDies(i) PROVE TakenIsOld'
  <2>1. UNCHANGED <<next, wrow, dedup>>
    BY <1>3, OthersFrame, RetryTakes DEF outboxVars
  <2> QED
    BY <1>3, <2>1, RetryTakes DEF TakenIsOld, Open
<1>4. ASSUME UNCHANGED <<outboxVars, wrow, tasks, settled, batch, worker, job>>
      PROVE  TakenIsOld'
  BY <1>4 DEF TakenIsOld, Taken, Open, outboxVars
<1>5. ASSUME NEW e \in Ids, LeaseExpires(e) PROVE TakenIsOld'
  BY <1>4, <1>5 DEF LeaseExpires, writerVars, pollVars
<1>6. CASE WatermarkLost
  BY <1>4, <1>6 DEF WatermarkLost, writerVars, taskVars, workVars
<1>7. CASE UNCHANGED vars
  BY <1>4, <1>7 DEF vars, writerVars, pollVars, taskVars, workVars
<1> QED
  BY <1>1, <1>2, <1>3, <1>5, <1>6, <1>7 DEF Next

-----------------------------------------------------------------------------
\* An event that nobody has taken announces what it is about.
LEMMA FreshAnnounces ==
    ASSUME NEW k \in Keys, NEW e \in Ids, e \in rows', e \notin late', e \notin Taken',
           keyOf'[e] = k
    PROVE  Announces(e, k)'
BY DEF Taken, Announces, PollerReads, WorkerReads

\* The steps that leave alone whatever makes an event announce a change.
LEMMA AnnouncesFrame ==
    ASSUME NEW k \in Keys, NEW e \in Ids, Announces(e, k),
           UNCHANGED <<pollVars, taskVars, workVars>>,
           e \in rows => e \in rows' /\ (e \in late' => e \in late),
           version'[k] = version[k],
           \A f \in Taken \cup rows : keyOf'[f] = keyOf[f],
           Shape
    PROVE  Announces(e, k)'
<1>1. keyOf'[e] = k
  BY DEF Announces, Taken
<1>2. \A i \in Pollers : poller[i] \in {"handling", "failed"} => keyOf'[event[i]] = keyOf[event[i]]
  BY DEF Taken, Shape, TypeOK, EventIsFirst
<1>3. \A i \in Pollers : PollerReads(i, e, k)'
  BY <1>2 DEF Announces, PollerReads, pollVars
<1>4. \A i \in Workers : WorkerReads(i, e, k)'
  BY DEF Announces, WorkerReads, workVars
<1>5. e \in tasks' \/ (e \in rows' /\ e \notin settled' \cup late')
  BY DEF Announces, pollVars, taskVars
<1> QED
  BY <1>1, <1>3, <1>4, <1>5 DEF Announces

LEMMA AnnouncedWrite ==
    ASSUME Shape, IdsAreFresh, LossInv, NEW w \in Writers, Write(w), NEW k \in Keys
    PROVE  (carrier[k] = NoId \/ covered[k] >= version[k] \/ Announces(carrier[k], k))'
<1> USE DEF Shape, TypeOK, LossInv
<1>1. /\ UNCHANGED <<pollVars, taskVars, workVars, covered>>
      /\ Taken' = Taken
  BY WritersTakeNothing
<1>2. carrier[k] = NoId \/ covered[k] >= version[k] \/ Announces(carrier[k], k)
  BY DEF ChangesAreAnnounced
<1>3. \A f \in Taken \cup rows : f \in Ids /\ f < next
  BY DEF TakenIsOld, IdsAreFresh, Taken
<1>4. \A f \in Taken : f \notin Open /\ f \notin dedup
  BY DEF TakenIsOld
<1>5. \A f \in rows : f \in late' => f \in late
  BY WriteEvolves DEF Evolves, IdsAreFresh
\* A step that keeps the version and the carrier of k.
<1>6. ASSUME version'[k] = version[k], carrier'[k] = carrier[k], rows \subseteq rows',
             \A f \in Taken \cup rows : keyOf'[f] = keyOf[f]
      PROVE  (carrier[k] = NoId \/ covered[k] >= version[k] \/ Announces(carrier[k], k))'
  <2>1. CASE carrier[k] = NoId
    BY <1>6, <2>1
  <2>2. CASE covered[k] >= version[k]
    BY <1>1, <1>6, <2>2
  <2>3. CASE Announces(carrier[k], k)
    <3>1. PICK e \in Ids : e = carrier[k]
      BY <2>3 DEF Announces
    <3>2. Announces(e, k)'
      BY <1>1, <1>5, <1>6, <2>3, <3>1, AnnouncesFrame
    <3> QED
      BY <1>6, <3>1, <3>2
  <2> QED
    BY <1>2, <2>1, <2>2, <2>3
\* A step after which an event announces k that nobody has taken.
<1>7. ASSUME NEW events, Announce(k, events, carrier'), carrier'[k] = NoId \/ events # {},
             \A e \in events : e \in Ids /\ e \in rows' /\ e \notin late' /\ e \notin Taken
                                 /\ keyOf'[e] = k
      PROVE  (carrier[k] = NoId \/ covered[k] >= version[k] \/ Announces(carrier[k], k))'
  <2>1. CASE events = {}
    BY <1>7, <2>1
  <2>2. CASE events # {}
    <3>1. PICK e \in events : carrier'[k] = e
      BY <1>7, <2>2 DEF Announce
    <3>2. Announces(e, k)'
      BY <1>1, <1>7, <3>1, FreshAnnounces
    <3> QED
      BY <3>1, <3>2
  <2> QED
    BY <2>1, <2>2
<1>8. ASSUME NEW c \in Keys, Change(w, c)
      PROVE  (carrier[k] = NoId \/ covered[k] >= version[k] \/ Announces(carrier[k], k))'
  <2>1. CASE c = k
    BY <1>8, <2>1 DEF Change
  <2>2. CASE c # k
    BY <1>6, <1>8, <2>2 DEF Change, outboxVars
  <2> QED
    BY <2>1, <2>2
<1>9. ASSUME NEW d \in BOOLEAN, enqueueSchedulerOutbox(w, d)
      PROVE  (carrier[k] = NoId \/ covered[k] >= version[k] \/ Announces(carrier[k], k))'
  <2>1. UNCHANGED <<version, late>>
    BY <1>9 DEF enqueueSchedulerOutbox
  <2>2. CASE InsertRow(w, wkey[w], d) /\ UNCHANGED carrier
    <3>1. \A f \in Taken \cup rows : keyOf'[f] = keyOf[f]
      BY <1>3, <2>2 DEF InsertRow
    <3> QED
      BY <1>6, <2>1, <2>2, <3>1 DEF InsertRow
  <2>3. CASE InsertNothing(w) /\ Announce(wkey[w], Duplicates(wkey[w]) \ late, carrier)
    <3>0. UNCHANGED <<rows, keyOf>>
      BY <2>3 DEF InsertNothing
    <3>1. CASE carrier'[k] = carrier[k]
      BY <1>6, <2>1, <3>0, <3>1
    <3>2. CASE carrier'[k] # carrier[k]
      <4>1. k = wkey[w] /\ Duplicates(k) \ late # {}
        BY <2>3, <3>2 DEF Announce
      <4>2. Announce(k, Duplicates(k) \ late, carrier')
        BY <2>3, <4>1 DEF Announce
      <4>3. \A e \in Duplicates(k) \ late : e \in Ids /\ e \in rows' /\ e \notin late'
              /\ e \notin Taken /\ keyOf'[e] = k
        BY <1>4, <2>1, <3>0 DEF Duplicates
      <4> QED
        BY <1>7, <4>1, <4>2, <4>3
    <3> QED
      BY <3>1, <3>2
  <2> QED
    BY <1>9, <2>2, <2>3 DEF enqueueSchedulerOutbox
<1>10. ASSUME NEW c \in Keys, NEW d \in BOOLEAN, Transaction(w, c, d)
       PROVE  (carrier[k] = NoId \/ covered[k] >= version[k] \/ Announces(carrier[k], k))'
  <2>1. rows' = rows /\ \A f \in Taken \cup rows : keyOf'[f] = keyOf[f]
    BY <1>3, <1>10 DEF Transaction, InsertRow, InsertNothing
  <2> QED
    BY <1>6, <1>10, <2>1 DEF Transaction
<1>11. ASSUME Commit(w)
       PROVE  (carrier[k] = NoId \/ covered[k] >= version[k] \/ Announces(carrier[k], k))'
  <2> DEFINE own == {wrow[w]} \ {NoId}
             relied == (IF own = {} THEN Duplicates(wkey[w]) ELSE own) \ late'
             otherwise == IF writer[w] = "tx" THEN [carrier EXCEPT ![wkey[w]] = NoId]
                                               ELSE carrier
  <2>1. /\ rows' = rows \cup own /\ keyOf' = keyOf
        /\ version' = IF writer[w] = "tx" THEN [version EXCEPT ![wkey[w]] = @ + 1] ELSE version
        /\ Announce(wkey[w], relied, otherwise)
    BY <1>11 DEF Commit
  <2>2. ASSUME NEW e \in relied
        PROVE  e \in Ids /\ e \in rows' /\ e \notin late' /\ e \notin Taken /\ keyOf'[e] = wkey[w]
    <3>1. CASE own = {}
      BY <1>4, <2>1, <2>2, <3>1 DEF Duplicates
    <3>2. CASE own # {}
      <4>1. e = wrow[w] /\ e # NoId /\ e \notin late'
        BY <2>2, <3>2
      <4>2. e \in Open /\ keyOf[e] = wkey[w]
        BY <4>1 DEF Open, RowsAreNamed
      <4> QED
        BY <1>4, <2>1, <4>1, <4>2
    <3> QED
      BY <3>1, <3>2
  <2> HIDE DEF relied, own
  <2>3. CASE k = wkey[w] /\ relied # {}
    <3>1. Announce(k, relied, carrier')
      BY <2>1, <2>3 DEF Announce
    <3> QED
      BY <1>7, <2>2, <2>3, <3>1
  <2>4. CASE k = wkey[w] /\ relied = {} /\ writer[w] = "tx"
    BY <2>1, <2>4 DEF Announce
  <2>5. CASE k # wkey[w] \/ (relied = {} /\ writer[w] # "tx")
    <3>1. version'[k] = version[k] /\ carrier'[k] = carrier[k]
      BY <2>1, <2>5 DEF Announce
    <3> QED
      BY <1>6, <2>1, <3>1
  <2> QED
    BY <2>3, <2>4, <2>5
<1>12. ASSUME EnqueueFails(w) \/ Rollback(w)
       PROVE  (carrier[k] = NoId \/ covered[k] >= version[k] \/ Announces(carrier[k], k))'
  BY <1>6, <1>12 DEF EnqueueFails, Rollback, outboxVars
<1> QED
  BY <1>8, <1>9, <1>10, <1>11, <1>12 DEF Write

\* A poller touches its own locals only.
LEMMA PollFrame ==
    ASSUME Shape, NEW i \in Pollers, Poll(i) \/ PollerDies(i)
    PROVE  /\ UNCHANGED <<writerVars, keyOf, workVars>> /\ tasks \subseteq tasks'
           /\ \A j \in Pollers \ {i} :
                /\ poller'[j] = poller[j] /\ batch'[j] = batch[j] /\ event'[j] = event[j]
                /\ seen'[j] = seen[j] /\ snap'[j] = snap[j]
<1> USE DEF Shape, TypeOK
<1>1. UNCHANGED <<writerVars, keyOf, workVars>> /\ tasks \subseteq tasks'
  BY DEF Poll, GetOutboxWatermark, ListAfterAndReleaseDedup, PollEnds, HandleStart,
    HandleOk, HandleFails, DeferOutboxEvent, DeferFails, CopyTask, SetOutboxWatermark,
    SetWatermarkFails, cleanupConsumedOutbox, PollerDies, outboxVars, taskVars
<1> SUFFICES ASSUME NEW j \in Pollers \ {i}
             PROVE  /\ poller'[j] = poller[j] /\ batch'[j] = batch[j] /\ event'[j] = event[j]
                    /\ seen'[j] = seen[j] /\ snap'[j] = snap[j]
  BY <1>1
<1>2. CASE HandleOk(i) \/ DeferOutboxEvent(i)
  BY <1>2 DEF HandleOk, DeferOutboxEvent, Settle
<1>3. CASE DeferFails(i)
  BY <1>3 DEF DeferFails, StopAtFailure, Return
<1>4. CASE ~(HandleOk(i) \/ DeferOutboxEvent(i) \/ DeferFails(i))
  BY <1>4 DEF Poll, GetOutboxWatermark, ListAfterAndReleaseDedup, PollEnds, HandleStart,
    HandleFails, SetOutboxWatermark, SetWatermarkFails, cleanupConsumedOutbox, PollerDies,
    Return
<1> QED
  BY <1>2, <1>3, <1>4

\* A poller that goes through an event that announces a change either covers
\* the change, or leaves the event for somebody else.
LEMMA AnnouncedPoll ==
    ASSUME Shape, PositionsAreClosed, NEW k \in Keys, NEW e \in Ids, Announces(e, k),
           NEW i \in Pollers, Poll(i) \/ PollerDies(i)
    PROVE  covered'[k] >= version'[k] \/ Announces(e, k)'
<1> USE DEF Shape, TypeOK
<1>1. /\ UNCHANGED <<version, keyOf, late, workVars>> /\ tasks \subseteq tasks'
      /\ \A j \in Pollers \ {i} :
            /\ poller'[j] = poller[j] /\ batch'[j] = batch[j] /\ event'[j] = event[j]
            /\ seen'[j] = seen[j] /\ snap'[j] = snap[j]
  BY PollFrame DEF writerVars
<1>2. \A j \in Workers : WorkerReads(j, e, k)'
  BY <1>1 DEF Announces, WorkerReads, workVars
<1>3. \A j \in Pollers \ {i} : PollerReads(j, e, k)'
  BY <1>1 DEF Announces, PollerReads
<1>4. ASSUME PollerReads(i, e, k)', e \in tasks' \/ (e \in rows' /\ e \notin settled' \cup late')
      PROVE  Announces(e, k)'
  BY <1>1, <1>2, <1>3, <1>4 DEF Announces
\* Steps that settle nothing and drop nothing.
<1>5. ASSUME PollerReads(i, e, k)', rows' = rows, settled' = settled
      PROVE  Announces(e, k)'
  BY <1>1, <1>4, <1>5 DEF Announces
<1>6. PollerReads(i, e, k)
  BY DEF Announces
<1>7. CASE GetOutboxWatermark(i) \/ HandleFails(i) \/ SetOutboxWatermark(i)
  <2>1. UNCHANGED <<batch, seen, event, snap>> /\ rows' = rows /\ settled' = settled
    BY <1>7 DEF GetOutboxWatermark, HandleFails, SetOutboxWatermark, outboxVars
  <2>2. \/ poller'[i] = "failed" /\ poller[i] = "handling"
        \/ poller[i] \notin {"handling", "failed"} /\ poller'[i] \notin {"handling", "failed"}
    BY <1>7 DEF GetOutboxWatermark, HandleFails, SetOutboxWatermark
  <2> QED
    BY <1>1, <1>5, <1>6, <2>1, <2>2 DEF PollerReads
<1>8. CASE ListAfterAndReleaseDedup(i)
  BY <1>5, <1>8 DEF ListAfterAndReleaseDedup, PollerReads
<1>9. ASSUME Return(i), rows' = rows, settled' = settled PROVE Announces(e, k)'
  BY <1>5, <1>9 DEF Return, PollerReads
<1>10. CASE PollEnds(i) \/ SetWatermarkFails(i) \/ PollerDies(i)
  BY <1>9, <1>10 DEF PollEnds, SetWatermarkFails, PollerDies, outboxVars
<1>11. CASE HandleStart(i)
  <2>1. PICK f \in batch[i] :
            /\ event' = [event EXCEPT ![i] = f]
            /\ snap' = [snap EXCEPT ![i] = IF keyOf[f] \in seen[i] THEN 0
                                                         ELSE version[keyOf[f]]]
            /\ seen' = [seen EXCEPT ![i] = @ \cup {keyOf[f]}]
    BY <1>11 DEF HandleStart
  <2>2. poller[i] = "batch" /\ poller'[i] = "handling" /\ batch' = batch
        /\ rows' = rows /\ settled' = settled
    BY <1>11 DEF HandleStart, outboxVars
  <2>3. e \in batch[i] => k \notin seen[i]
    BY <1>6, <2>2 DEF PollerReads
  <2>4. event'[i] = f /\ seen'[i] = seen[i] \cup {keyOf[f]}
        /\ (keyOf[f] \notin seen[i] => snap'[i] = version[keyOf[f]])
    BY <2>1
  <2>5. PollerReads(i, e, k)'
    BY <1>1, <2>2, <2>3, <2>4 DEF PollerReads
  <2> QED
    BY <1>5, <2>2, <2>5
<1>12. CASE HandleOk(i)
  <2>1. /\ poller[i] = "handling" /\ rows' = rows
        /\ covered' = [covered EXCEPT ![keyOf[event[i]]] = Larger(@, snap[i])]
        /\ settled' = settled \cup {event[i]}
        /\ batch'[i] = batch[i] \ {event[i]} /\ seen' = seen
        /\ poller'[i] \in {"advance", "batch"}
    BY <1>12 DEF HandleOk, Settle, outboxVars
  <2>2. event[i] \in batch[i]
    BY <2>1 DEF EventIsFirst
  <2>3. CASE e \in batch[i] /\ keyOf[event[i]] = k
    BY <1>1, <1>6, <2>1, <2>3 DEF PollerReads, Larger
  <2>4. CASE e \notin batch[i]
    BY <1>4, <1>1, <2>1, <2>2, <2>4 DEF PollerReads, Announces
  <2>5. CASE e \in batch[i] /\ keyOf[event[i]] # k
    <3>1. e # event[i] /\ k \notin seen[i]
      BY <1>6, <2>5 DEF PollerReads, Announces
    <3>2. PollerReads(i, e, k)'
      BY <2>1, <3>1 DEF PollerReads
    <3> QED
      BY <1>4, <1>1, <2>1, <3>1, <3>2 DEF Announces
  <2> QED
    BY <2>3, <2>4, <2>5
<1>13. CASE DeferOutboxEvent(i)
  <2>1. /\ rows' = rows /\ tasks' = tasks \cup {event[i]} /\ settled' = settled \cup {event[i]}
        /\ seen'[i] = {} /\ poller'[i] \in {"advance", "batch"}
    BY <1>13 DEF DeferOutboxEvent, CopyTask, Settle, outboxVars
  <2>2. PollerReads(i, e, k)'
    BY <2>1 DEF PollerReads
  <2> QED
    BY <1>1, <1>4, <2>1, <2>2 DEF Announces
<1>14. CASE DeferFails(i)
  <2>1. rows' = rows /\ settled' = settled /\ StopAtFailure(i)
    BY <1>14 DEF DeferFails, outboxVars
  <2>2. CASE last[i] > after[i]
    <3>1. batch' = [batch EXCEPT ![i] = {}]
      BY <2>1, <2>2 DEF StopAtFailure
    <3> QED
      BY <1>5, <2>1, <3>1 DEF PollerReads
  <2>3. CASE ~(last[i] > after[i])
    BY <1>9, <2>1, <2>3 DEF StopAtFailure
  <2> QED
    BY <2>2, <2>3
<1>15. CASE cleanupConsumedOutbox(i)
  <2>1. PICK aged \in DeleteConsumedUpTo(last[i]) : rows' = rows \ aged
    BY <1>15 DEF cleanupConsumedOutbox
  <2>2. settled' = settled /\ Return(i)
    BY <1>15 DEF cleanupConsumedOutbox
  <2>3. \A f \in aged : f \in settled \cup late
    BY <2>1 DEF DeleteConsumedUpTo, PositionsAreClosed, ClosedTo
  <2>4. PollerReads(i, e, k)'
    BY <2>2 DEF Return, PollerReads
  <2> QED
    BY <1>1, <1>4, <2>1, <2>2, <2>3, <2>4 DEF Announces
<1> QED
  BY <1>7, <1>8, <1>10, <1>11, <1>12, <1>13, <1>14, <1>15 DEF Poll

\* So does a retry worker that goes through its task.
LEMMA AnnouncedRetry ==
    ASSUME Shape, NEW k \in Keys, NEW e \in Ids, Announces(e, k),
           NEW i \in Workers, Retry(i) \/ WorkerDies(i)
    PROVE  covered'[k] >= version'[k] \/ Announces(e, k)'
<1> USE DEF Shape, TypeOK
<1>1. UNCHANGED <<version, late, outboxVars, pollVars>>
  BY RetryTakes, WritersFrame DEF writerVars
<1>2. \A j \in Pollers : PollerReads(j, e, k)'
  BY <1>1 DEF Announces, PollerReads, outboxVars, pollVars
<1>3. WorkerReads(i, e, k)
  BY DEF Announces
<1>4. ASSUME e \in tasks => e \in tasks',
             \A j \in Workers \ {i} : worker'[j] = worker[j] /\ job'[j] = job[j]
                                        /\ jobSnap'[j] = jobSnap[j],
             WorkerReads(i, e, k)'
      PROVE  Announces(e, k)'
  <2>1. \A j \in Workers : WorkerReads(j, e, k)'
    BY <1>1, <1>4 DEF Announces, WorkerReads
  <2> QED
    BY <1>1, <1>2, <1>4, <2>1 DEF Announces, outboxVars, pollVars
<1>5. ASSUME Idle(i), e \in tasks => e \in tasks' PROVE Announces(e, k)'
  <2>1. WorkerReads(i, e, k)'
    BY <1>5 DEF Idle, WorkerReads
  <2> QED
    BY <1>4, <1>5, <2>1 DEF Idle
<1>6. ASSUME NEW f \in Ids, ClaimOutboxRetry(i, f) PROVE Announces(e, k)'
  <2>1. WorkerReads(i, e, k)'
    BY <1>6 DEF ClaimOutboxRetry, WorkerReads
  <2> QED
    BY <1>4, <1>6, <2>1 DEF ClaimOutboxRetry
<1>7. CASE RetryStart(i)
  <2>1. WorkerReads(i, e, k)'
    BY <1>1, <1>7 DEF RetryStart, WorkerReads, Announces
  <2> QED
    BY <1>4, <1>7, <2>1 DEF RetryStart, taskVars
<1>8. CASE RetryOk(i)
  <2>1. CASE job[i] = e
    BY <1>1, <1>3, <1>8, <2>1 DEF RetryOk, WorkerReads, Announces, Larger
  <2>2. CASE job[i] # e
    <3>1. WorkerReads(i, e, k)'
      BY <1>8, <2>2 DEF RetryOk, WorkerReads
    <3> QED
      BY <1>4, <1>8, <3>1 DEF RetryOk, taskVars
  <2> QED
    BY <2>1, <2>2
<1>9. CASE RetryFails(i)
  <2>1. WorkerReads(i, e, k)'
    BY <1>9 DEF RetryFails, WorkerReads
  <2> QED
    BY <1>4, <1>9, <2>1 DEF RetryFails, taskVars
<1>10. CASE CompleteOutboxRetry(i)
  <2>1. job[i] # e
    BY <1>3, <1>10 DEF CompleteOutboxRetry, WorkerReads
  <2> QED
    BY <1>5, <1>10, <2>1 DEF CompleteOutboxRetry
<1>11. CASE RescheduleOutboxRetry(i) \/ RetryAbandoned(i) \/ WorkerDies(i)
  BY <1>5, <1>11 DEF RescheduleOutboxRetry, RetryAbandoned, WorkerDies, taskVars
<1> QED
  BY <1>6, <1>7, <1>8, <1>9, <1>10, <1>11 DEF Retry

\* What a completed handler has covered stays covered.
LEMMA CoveredGrows ==
    ASSUME Shape, \/ \E i \in Pollers : Poll(i) \/ PollerDies(i)
                  \/ \E i \in Workers : Retry(i) \/ WorkerDies(i),
           NEW k \in Keys
    PROVE  covered'[k] >= covered[k]
<1> USE DEF Shape, TypeOK
<1>1. \A i \in Pollers : HandleOk(i) => covered'[k] >= covered[k]
  BY DEF HandleOk, Larger
<1>2. \A i \in Workers : RetryOk(i) => covered'[k] >= covered[k]
  BY DEF RetryOk, Larger
<1>3. \A i \in Pollers : Poll(i) \/ PollerDies(i) => HandleOk(i) \/ covered' = covered
  BY DEF Poll, GetOutboxWatermark, ListAfterAndReleaseDedup, PollEnds, HandleStart,
    HandleFails, DeferOutboxEvent, DeferFails, SetOutboxWatermark, SetWatermarkFails,
    cleanupConsumedOutbox, PollerDies
<1>4. \A i \in Workers : Retry(i) \/ WorkerDies(i) => RetryOk(i) \/ covered' = covered
  BY DEF Retry, ClaimOutboxRetry, RetryStart, RetryFails, CompleteOutboxRetry,
    RescheduleOutboxRetry, RetryAbandoned, WorkerDies
<1> QED
  BY <1>1, <1>2, <1>3, <1>4

LEMMA AnnouncedStep ==
    ASSUME Shape, OrderInv, LossInv, [Next]_vars
    PROVE  ChangesAreAnnounced'
<1> SUFFICES ASSUME NEW k \in Keys
             PROVE  (carrier[k] = NoId \/ covered[k] >= version[k] \/ Announces(carrier[k], k))'
  BY DEF ChangesAreAnnounced
<1> USE DEF Shape, OrderInv
<1>1. carrier[k] = NoId \/ covered[k] >= version[k] \/ Announces(carrier[k], k)
  BY DEF LossInv, ChangesAreAnnounced
<1>2. ASSUME UNCHANGED <<writerVars, keyOf>>, covered'[k] >= covered[k],
             \A e \in Ids : Announces(e, k) => covered'[k] >= version'[k] \/ Announces(e, k)'
      PROVE  (carrier[k] = NoId \/ covered[k] >= version[k] \/ Announces(carrier[k], k))'
  <2>1. CASE covered[k] >= version[k]
    <3>1. covered'[k] \in Int /\ covered[k] \in Int /\ version[k] \in Int /\ version' = version
      BY <1>2, ShapeStep DEF TypeOK, writerVars
    <3> QED
      BY <1>2, <2>1, <3>1
  <2>2. CASE carrier[k] = NoId
    BY <1>2, <2>2 DEF writerVars
  <2>3. CASE Announces(carrier[k], k)
    <3>1. PICK e \in Ids : e = carrier[k] /\ Announces(e, k)
      BY <2>3 DEF Announces
    <3>2. carrier'[k] = e
      BY <1>2, <3>1 DEF writerVars
    <3> QED
      BY <1>2, <3>1, <3>2
  <2> QED
    BY <1>1, <2>1, <2>2, <2>3
<1>3. ASSUME NEW w \in Writers, Write(w)
      PROVE  (carrier[k] = NoId \/ covered[k] >= version[k] \/ Announces(carrier[k], k))'
  BY <1>3, AnnouncedWrite
<1>4. ASSUME NEW i \in Pollers, Poll(i) \/ PollerDies(i)
      PROVE  (carrier[k] = NoId \/ covered[k] >= version[k] \/ Announces(carrier[k], k))'
  BY <1>2, <1>4, AnnouncedPoll, CoveredGrows, WritersFrame
<1>5. ASSUME NEW i \in Workers, Retry(i) \/ WorkerDies(i)
      PROVE  (carrier[k] = NoId \/ covered[k] >= version[k] \/ Announces(carrier[k], k))'
  BY <1>2, <1>5, AnnouncedRetry, CoveredGrows, WritersFrame
\* A lost watermark or lease is no matter here.
<1>6. ASSUME UNCHANGED <<writerVars, rows, keyOf, settled, poller, batch, event, seen, snap,
                          tasks, worker, job, jobSnap, covered>>
      PROVE  (carrier[k] = NoId \/ covered[k] >= version[k] \/ Announces(carrier[k], k))'
  BY <1>1, <1>6 DEF Announces, PollerReads, WorkerReads, writerVars
<1>7. ASSUME NEW e \in Ids, LeaseExpires(e)
      PROVE  (carrier[k] = NoId \/ covered[k] >= version[k] \/ Announces(carrier[k], k))'
  BY <1>6, <1>7 DEF LeaseExpires, outboxVars, pollVars
<1>8. CASE WatermarkLost
  BY <1>6, <1>8 DEF WatermarkLost, outboxVars, taskVars, workVars
<1>9. CASE UNCHANGED vars
  BY <1>6, <1>9 DEF vars, outboxVars, pollVars, taskVars, workVars
<1> QED
  BY <1>3, <1>4, <1>5, <1>7, <1>8, <1>9 DEF Next

\* No committed change that an event announces is forgotten: deduplication, the
\* watermark shared and lost, the cleanup, crashes and the retry queue cannot
\* lose one between them.
THEOREM ChangesAreKept == Spec => []NoChangeLost
<1>1. Init => OrderInv /\ LossInv
  BY OrderInit, LossInit
<1>2. Shape /\ OrderInv /\ LossInv /\ [Next]_vars => (OrderInv /\ LossInv)'
  <2> SUFFICES ASSUME Shape, OrderInv, LossInv, [Next]_vars
               PROVE  OrderInv' /\ LossInv'
    OBVIOUS
  <2>1. OrderInv'
    BY ShapeStep, IdsStep, PositionsStep DEF OrderInv, Shape
  <2>2. RowsAreNamed' /\ TakenIsOld'
    BY NamedStep, OldStep DEF OrderInv, LossInv
  <2> QED
    BY <2>1, <2>2, AnnouncedStep DEF LossInv
<1>3. Shape /\ OrderInv /\ LossInv => NoChangeLost
  <2> SUFFICES ASSUME Shape, OrderInv, LossInv, NEW k \in Keys,
                      carrier[k] # NoId, ~(covered[k] >= version[k])
               PROVE  \/ \E e \in rows : e > watermark /\ keyOf[e] = k
                      \/ \E e \in tasks : keyOf[e] = k
    BY DEF NoChangeLost
  <2>1. PICK e \in Ids : Announces(e, k)
    BY DEF LossInv, ChangesAreAnnounced, Announces
  <2>2. CASE e \in tasks
    BY <2>1, <2>2 DEF Announces
  <2>3. CASE e \in rows /\ e \notin settled \cup late
    <3>1. ~(e <= watermark)
      BY <2>3 DEF OrderInv, PositionsAreClosed, ClosedTo
    <3>2. e \in Int /\ watermark \in Int
      BY DEF Shape, TypeOK, Ids, NoId
    <3> QED
      BY <2>1, <2>3, <3>1, <3>2 DEF Announces
  <2> QED
    BY <2>1, <2>2, <2>3 DEF Announces
<1> QED
  BY <1>1, <1>2, <1>3, ShapeAlways, PTL DEF Spec

=============================================================================
