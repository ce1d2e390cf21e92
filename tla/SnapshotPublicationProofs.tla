---------------------- MODULE SnapshotPublicationProofs ----------------------
(***************************************************************************)
(* For any number of loops, requests, accounts, changes and failures: what *)
(* a bucket serves was loaded in its present life, the tombstone follows   *)
(* the group, and what is acknowledged is published.                       *)
(***************************************************************************)
EXTENDS SnapshotPublication, TLAPS

-----------------------------------------------------------------------------
(* The versions in use.                                                    *)

LEMMA PlaceEffect ==
    ASSUME NEW v, InUse(v)
    PROVE  Place(v) \in DOMAIN versions /\ versions[Place(v)] = v
<1> DEFINE P(i) == i \in DOMAIN versions /\ versions[i] = v
<1>1. \E i : P(i)
  BY DEF InUse
<1>2. P(CHOOSE i : P(i))
  BY <1>1, Zenon
<1> QED
  BY <1>2 DEF Place

\* What is left keeps its order, and occurs once.
LEMMA WithoutEffect ==
    ASSUME TypeOK, VersionsMatch, NEW v
    PROVE  /\ Without(v) \in Seq(Writers \cup {Marker})
           /\ \A i \in DOMAIN Without(v) :
                Without(v)[i] # v /\ \E k \in DOMAIN versions : Without(v)[i] = versions[k]
           /\ \A i, j \in DOMAIN Without(v) : Without(v)[i] = Without(v)[j] => i = j
<1>0. /\ versions \in Seq(Writers \cup {Marker}) /\ Len(versions) \in Nat
      /\ DOMAIN versions = 1..Len(versions)
      /\ \A i \in 1..Len(versions) : versions[i] \in Writers \cup {Marker}
      /\ \A i, j \in 1..Len(versions) : versions[i] = versions[j] => i = j
  BY DEF TypeOK, VersionsMatch
<1>1. CASE ~InUse(v)
  BY <1>0, <1>1 DEF Without, InUse
<1>2. CASE InUse(v)
  <2> DEFINE p == Place(v)
             n == Len(versions)
             u(i) == versions[IF i < p THEN i ELSE i + 1]
  <2>1. p \in 1..n /\ versions[p] = v
    BY <1>0, <1>2, PlaceEffect
  <2>2. Without(v) = [i \in 1..(n - 1) |-> u(i)]
    BY <1>2 DEF Without
  <2> HIDE DEF p, n
  <2>3. n \in Nat /\ n - 1 \in Nat
    BY <1>0, <2>1 DEF n
  <2>4. \A i \in 1..(n - 1) : (IF i < p THEN i ELSE i + 1) \in 1..n /\ (IF i < p THEN i ELSE i + 1) # p
    BY <2>1, <2>3
  <2>5. \A i \in 1..(n - 1) : u(i) \in Writers \cup {Marker} /\ u(i) # v
    BY <1>0, <2>1, <2>4 DEF n
  <2>6. \A i, j \in 1..(n - 1) : u(i) = u(j) => i = j
    <3>1. \A i, j \in 1..(n - 1) :
            u(i) = u(j) => (IF i < p THEN i ELSE i + 1) = (IF j < p THEN j ELSE j + 1)
      BY <1>0, <2>4 DEF n
    <3>2. \A i, j \in 1..(n - 1) :
            (IF i < p THEN i ELSE i + 1) = (IF j < p THEN j ELSE j + 1) => i = j
      BY <2>1, <2>3
    <3> QED
      BY <3>1, <3>2
  <2>7. \A i \in 1..(n - 1) : \E k \in DOMAIN versions : u(i) = versions[k]
    BY <1>0, <2>4 DEF n
  <2>8. DOMAIN Without(v) = 1..(n - 1) /\ \A i \in 1..(n - 1) : Without(v)[i] = u(i)
    BY <2>2
  <2>9. Without(v) \in Seq(Writers \cup {Marker})
    <3>1. [i \in 1..(n - 1) |-> u(i)] \in Seq(Writers \cup {Marker})
      BY <2>3, <2>5
    <3> QED
      BY <2>2, <3>1
  <2> HIDE DEF u
  <2> QED
    BY <2>5, <2>6, <2>7, <2>8, <2>9
<1> QED
  BY <1>1, <1>2

-----------------------------------------------------------------------------
(* What a step makes of a job.                                             *)

Becomes(w, j) == j \in Jobs /\ job' = [job EXCEPT ![w] = j]

\* The fields that the invariants look at: what the job is for,
IsFor(j, kind, first, upto) == j.kind = kind /\ j.first = first /\ j.upto = upto

\* and how far it has got.
IsAt(j, pc, token, shared, era, late, ok) ==
    /\ j.pc = pc /\ j.token = token /\ j.shared = shared /\ j.era = era
    /\ j.late = late /\ j.ok = ok

\* The job is for the same as before.
Same(w, j) == IsFor(j, job[w].kind, job[w].first, job[w].upto)

LEMMA JobFields ==
    ASSUME NEW j \in Jobs
    PROVE  /\ j.pc \in Steps /\ j.kind \in Kinds \cup {"full", "read", None} /\ j.first \in Nat
           /\ j.upto \in [Kinds -> Nat] /\ j.listed \in BOOLEAN /\ j.token \in Nat
           /\ j.strict \in BOOLEAN /\ j.shared \in BOOLEAN /\ j.load \subseteq Accounts
           /\ j.era \in Nat /\ j.late \in BOOLEAN /\ j.ok \in BOOLEAN
  BY DEF Jobs

LEMMA NoJobEffect ==
    /\ NoJob \in Jobs /\ IsFor(NoJob, None, 0, [k \in Kinds |-> 0])
    /\ IsAt(NoJob, "idle", 0, FALSE, 0, FALSE, TRUE)
  BY DEF NoJob, Jobs, Steps, IsFor, IsAt

LEMMA StartEffect ==
    ASSUME NEW kind \in Kinds \cup {"full", "read", None}, NEW pc \in Steps
    PROVE  /\ [NoJob EXCEPT !.pc = pc, !.kind = kind] \in Jobs
           /\ IsFor([NoJob EXCEPT !.pc = pc, !.kind = kind], kind, 0, [k \in Kinds |-> 0])
           /\ IsAt([NoJob EXCEPT !.pc = pc, !.kind = kind], pc, 0, FALSE, 0, FALSE, TRUE)
  BY DEF NoJob, Jobs, IsFor, IsAt

LEMMA GotoEffect ==
    ASSUME job \in [Writers -> Jobs], NEW w \in Writers, NEW pc \in Steps, Goto(w, pc)
    PROVE  \E j : /\ Becomes(w, j) /\ Same(w, j)
                  /\ IsAt(j, pc, job[w].token, job[w].shared, job[w].era, job[w].late, job[w].ok)
<1> DEFINE i == job[w]
           j == [i EXCEPT !.pc = pc]
<1>1. job' = [job EXCEPT ![w] = j] /\ i \in Jobs
  BY DEF Goto
<1> HIDE DEF i
<1>2. /\ j \in Jobs /\ IsFor(j, i.kind, i.first, i.upto)
      /\ IsAt(j, pc, i.token, i.shared, i.era, i.late, i.ok)
  BY <1>1 DEF Jobs, IsFor, IsAt
<1> QED
  BY <1>1, <1>2 DEF i, Becomes, Same

LEMMA ResultEffect ==
    ASSUME job \in [Writers -> Jobs], NEW w \in Writers, NEW pc \in Steps, NEW ok \in BOOLEAN
    PROVE  /\ Result(w, pc, ok) \in Jobs /\ Same(w, Result(w, pc, ok))
           /\ IsAt(Result(w, pc, ok), pc, 0, FALSE, 0, job[w].late, ok)
<1>1. job[w] \in Jobs
  OBVIOUS
<1>2. /\ job[w].kind \in Kinds \cup {"full", "read", None} /\ job[w].first \in Nat
      /\ job[w].upto \in [Kinds -> Nat] /\ job[w].late \in BOOLEAN
  BY <1>1, JobFields
<1> QED
  BY <1>2 DEF Result, NoJob, Jobs, Same, IsFor, IsAt

LEMMA EndsEffect ==
    ASSUME job \in [Writers -> Jobs], NEW w \in Writers, NEW ok \in BOOLEAN, Ends(w, ok)
    PROVE  \E j : /\ Becomes(w, j) /\ Same(w, j)
                  /\ IsAt(j, "end", 0, FALSE, 0, job[w].late, ok)
<1>1. "end" \in Steps
  BY DEF Steps
<1> QED
  BY <1>1, ResultEffect DEF Ends, Becomes

LEMMA AfterSetEffect ==
    ASSUME job \in [Writers -> Jobs], NEW w \in Writers, NEW ok \in BOOLEAN, AfterSet(w, ok)
    PROVE  \/ w \in Requests /\ Becomes(w, NoJob)
           \/ \E j : /\ Becomes(w, j) /\ Same(w, j) /\ w \notin Requests
                     /\ IsAt(j, "unlock", 0, FALSE, 0, job[w].late, ok)
<1>1. "unlock" \in Steps
  BY DEF Steps
<1> QED
  BY <1>1, ResultEffect, NoJobEffect DEF AfterSet, Becomes

-----------------------------------------------------------------------------
(* What the step of writer w has to respect.                               *)

JobOK(w, j) ==
    /\ \A k \in Kinds : j.upto[k] <= changed[k]
    /\ \A k \in Kinds : j.kind = k => j.first <= changed[k]
    /\ w \in Pollers \cup Retriers /\ j.pc # "idle" => j.kind \in Kinds
    /\ j.kind = "account" => j.upto["group"] <= acked["group"]
    /\ j.kind = "group" => j.pc \notin {"list", "groups", "capture"}

EraOK(j, e, n) ==
    /\ j.token <= e /\ j.era <= n
    /\ j.shared => j.pc \in {"lock", "load"} \cup Publishing
    /\ j.shared \/ j.pc \in Publishing => j.token <= j.era + 1

LEMMA JobFacts ==
    ASSUME TypeInv, NEW w \in Writers
    PROVE  /\ job \in [Writers -> Jobs] /\ job[w] \in Jobs /\ JobOK(w, job[w])
  BY DEF TypeInv, TypeOK, JobsMatch, JobOK, At

LEMMA ChangeFacts ==
    ASSUME TypeOK
    PROVE  /\ "group" \in Kinds /\ "account" \in Kinds
           /\ changed \in [Kinds -> Nat] /\ acked \in [Kinds -> Nat]
           /\ \A k \in Kinds : changed[k] \in Nat /\ acked[k] \in Nat /\ acked[k] <= changed[k]
  BY DEF TypeOK, Kinds

LEMMA TypeStep ==
    ASSUME TypeInv, NEW w \in Writers, NEW j, Becomes(w, j), JobOK(w, j), UNCHANGED database,
           acked' \in [Kinds -> Nat], retry' \subseteq Kinds,
           \A k \in Kinds : acked[k] <= acked'[k] /\ acked'[k] <= changed[k],
           epoch' \in Nat, retired' \in BOOLEAN, registered' \in BOOLEAN, lives' \in Nat,
           active' \in Snapshots, versions' \in Seq(Writers \cup {Marker}), VersionsMatch',
           lock' \in Workers \cup {None, Left}, lease' \in Workers \cup {None, Left},
           faults' \in 0..MaxFaults, lapses' \subseteq {"raced", "overtaken"}
    PROVE  TypeInv'
<1>1. /\ job' \in [Writers -> Jobs]
      /\ \A v \in Writers : job'[v] = IF v = w THEN j ELSE job[v]
  BY DEF Becomes, TypeInv, TypeOK
<1>2. UNCHANGED <<group, members, changed>>
  BY DEF database
<1>3. TypeOK'
  BY <1>1, <1>2 DEF TypeInv, TypeOK
<1>4. JobsMatch'
  <2>1. \A v \in Writers : JobOK(v, job'[v])
    BY <1>1, JobFacts
  <2>2. ASSUME NEW v \in Writers, job'[v].kind = "account"
        PROVE  job'[v].upto["group"] <= acked'["group"]
    <3>1. job'[v].upto["group"] <= acked["group"]
      BY <2>1, <2>2 DEF JobOK
    <3>2. job'[v].upto \in [Kinds -> Nat] /\ "group" \in Kinds
      BY <1>1, JobFields DEF Kinds
    <3>3. job'[v].upto["group"] \in Nat /\ acked["group"] \in Nat /\ acked'["group"] \in Nat
          /\ acked["group"] <= acked'["group"]
      BY <3>2 DEF TypeInv, TypeOK
    <3> QED
      BY <3>1, <3>3
  <2> QED
    BY <1>2, <2>1, <2>2 DEF JobsMatch, JobOK, At
<1> QED
  BY <1>3, <1>4 DEF TypeInv

LEMMA EpochStep ==
    ASSUME TypeInv, EpochInv, NEW w \in Writers, NEW j, Becomes(w, j),
           lives' \in Nat, lives <= lives', epoch' = lives' + 1, EraOK(j, epoch', lives'),
           ServedIsOfThisEpoch'
    PROVE  EpochInv'
<1>1. \A v \in Writers : job'[v] = IF v = w THEN j ELSE job[v]
  BY DEF Becomes, TypeInv, TypeOK
<1>2. ASSUME NEW v \in Writers
      PROVE  EraOK(job'[v], epoch', lives')
  <2>1. CASE v = w
    BY <1>1, <2>1
  <2>2. CASE v # w
    <3>1. /\ job[v].token <= epoch /\ job[v].era <= lives /\ epoch = lives + 1
          /\ job[v].shared => job[v].pc \in {"lock", "load"} \cup Publishing
          /\ job[v].shared \/ job[v].pc \in Publishing => job[v].token <= job[v].era + 1
      BY DEF EpochInv
    <3>2. /\ job[v].token \in Nat /\ job[v].era \in Nat /\ lives \in Nat
      BY JobFacts, JobFields DEF TypeInv, TypeOK
    <3>3. job[v].token <= epoch' /\ job[v].era <= lives'
      BY <3>1, <3>2
    <3> QED
      BY <1>1, <2>2, <3>1, <3>3 DEF EraOK
  <2> QED
    BY <2>1, <2>2
<1> QED
  BY <1>2 DEF EpochInv, EraOK

LEMMA ServedFrame ==
    ASSUME EpochInv, UNCHANGED <<retired, active, lives>>, Published' => Published
    PROVE  ServedIsOfThisEpoch'
  BY DEF EpochInv, ServedIsOfThisEpoch

\* The writers' versions are left alone, or one of them goes, or comes last.
LEMMA VersionsStep ==
    ASSUME TypeInv, NEW w \in Writers, NEW j, Becomes(w, j),
           \/ versions' = versions /\ (job[w].pc = "activate" => j.pc = "activate")
           \/ versions' = Without(w)
           \/ versions' = Append(versions, w) /\ job[w].pc # "activate" /\ j.pc = "activate"
           \/ versions' = Without(Marker) /\ job[w].pc # "activate"
    PROVE  /\ VersionsMatch' /\ versions' \in Seq(Writers \cup {Marker})
           /\ Published' => Published
<1>0. TypeOK /\ VersionsMatch /\ Marker \notin Writers
  BY ConstantsAssumption DEF TypeInv
<1>1. /\ versions \in Seq(Writers \cup {Marker})
      /\ \A v \in Writers : job'[v] = IF v = w THEN j ELSE job[v]
  BY <1>0 DEF Becomes, TypeOK
<1>2. /\ \A i, k \in DOMAIN versions : versions[i] = versions[k] => i = k
      /\ \A i \in DOMAIN versions :
           /\ versions[i] \in Writers \cup {Marker}
           /\ versions[i] # Marker => job[versions[i]].pc = "activate"
  BY <1>0, <1>1 DEF VersionsMatch, At
<1>3. CASE versions' = versions /\ (job[w].pc = "activate" => j.pc = "activate")
  BY <1>1, <1>2, <1>3 DEF VersionsMatch, At, Published, InUse
<1>4. ASSUME NEW v, versions' = Without(v), v = w \/ job[w].pc # "activate"
      PROVE  /\ VersionsMatch' /\ versions' \in Seq(Writers \cup {Marker})
             /\ Published' => Published
  <2>1. /\ versions' \in Seq(Writers \cup {Marker})
        /\ \A i \in DOMAIN versions' :
             versions'[i] # v /\ \E k \in DOMAIN versions : versions'[i] = versions[k]
        /\ \A i, k \in DOMAIN versions' : versions'[i] = versions'[k] => i = k
    BY <1>0, <1>4, WithoutEffect
  <2>2. ASSUME NEW i \in DOMAIN versions', versions'[i] # Marker
        PROVE  job'[versions'[i]].pc = "activate"
    <3>1. PICK k \in DOMAIN versions : versions'[i] = versions[k]
      BY <2>1
    <3>2. versions[k] # Marker /\ versions[k] # v /\ versions[k] \in Writers
          /\ job[versions[k]].pc = "activate"
      BY <1>2, <2>1, <2>2, <3>1
    <3> QED
      BY <1>1, <1>4, <3>1, <3>2
  <2>3. VersionsMatch'
    BY <2>1, <2>2 DEF VersionsMatch, At
  <2>4. Published' => Published
    BY <2>1 DEF Published, InUse
  <2> QED
    BY <2>1, <2>3, <2>4
<1>5. CASE versions' = Append(versions, w) /\ job[w].pc # "activate" /\ j.pc = "activate"
  <2>1. /\ versions' \in Seq(Writers \cup {Marker}) /\ Len(versions) \in Nat
        /\ DOMAIN versions = 1..Len(versions) /\ DOMAIN versions' = 1..(Len(versions) + 1)
        /\ \A i \in 1..Len(versions) : versions'[i] = versions[i]
        /\ versions'[Len(versions) + 1] = w
    BY <1>1, <1>5
  <2>2. \A i \in DOMAIN versions : versions[i] # w
    BY <1>0, <1>2, <1>5
  <2>3. \A i \in DOMAIN versions' : i \in DOMAIN versions \/ i = Len(versions) + 1
    BY <2>1
  <2>4. \A i, k \in DOMAIN versions' : versions'[i] = versions'[k] => i = k
    BY <1>2, <2>1, <2>2, <2>3
  <2>5. ASSUME NEW i \in DOMAIN versions', versions'[i] # Marker
        PROVE  job'[versions'[i]].pc = "activate"
    <3>1. CASE i \in DOMAIN versions
      <4>1. versions'[i] = versions[i] /\ versions[i] \in Writers /\ versions[i] # w
        BY <1>2, <2>1, <2>2, <2>5, <3>1
      <4> QED
        BY <1>1, <1>2, <2>5, <3>1, <4>1
    <3>2. CASE i = Len(versions) + 1
      BY <1>1, <1>5, <2>1, <3>2
    <3> QED
      BY <2>3, <3>1, <3>2
  <2>6. VersionsMatch'
    BY <2>4, <2>5 DEF VersionsMatch, At
  <2>7. Published' => Published
    BY <1>0, <2>1, <2>3 DEF Published, InUse
  <2> QED
    BY <2>1, <2>6, <2>7
<1> QED
  BY <1>3, <1>4, <1>5

LEMMA VersionsInstalled ==
    ASSUME TypeInv, NEW w \in Writers, NEW j, Becomes(w, j), Install(w)
    PROVE  VersionsMatch' /\ versions' \in Seq(Writers \cup {Marker})
<1>0. TypeOK /\ VersionsMatch /\ Marker \notin Writers
  BY ConstantsAssumption DEF TypeInv
<1>1. \A v \in Writers : job'[v] = IF v = w THEN j ELSE job[v]
  BY <1>0 DEF Becomes, TypeOK
<1>2. PICK u \in Seq(Writers \cup {Marker}) : u = Without(Marker)
  BY <1>0, WithoutEffect
<1>3. /\ \A i \in DOMAIN u : u[i] # Marker /\ \E k \in DOMAIN versions : u[i] = versions[k]
      /\ \A i, k \in DOMAIN u : u[i] = u[k] => i = k
  BY <1>0, <1>2, WithoutEffect
<1>4. versions' = [i \in DOMAIN u |-> IF u[i] = w THEN Marker ELSE u[i]]
  BY <1>2 DEF Install
<1>5. versions' \in Seq(Writers \cup {Marker})
  <2>1. \A i \in DOMAIN u : (IF u[i] = w THEN Marker ELSE u[i]) \in Writers \cup {Marker}
    BY <1>2
  <2>2. DOMAIN u = 1..Len(u) /\ Len(u) \in Nat
    BY <1>2
  <2> QED
    BY <1>4, <2>1, <2>2
<1>6. \A i, k \in DOMAIN versions' : versions'[i] = versions'[k] => i = k
  BY <1>0, <1>3, <1>4
<1>7. ASSUME NEW i \in DOMAIN versions', versions'[i] # Marker
      PROVE  job'[versions'[i]].pc = "activate"
  <2>1. i \in DOMAIN u /\ versions'[i] = u[i] /\ u[i] # w /\ u[i] # Marker
    BY <1>3, <1>4, <1>7
  <2>2. PICK k \in DOMAIN versions : u[i] = versions[k]
    BY <1>3, <2>1
  <2>3. job[versions[k]].pc = "activate" /\ versions[k] \in Writers
    BY <1>0, <2>1, <2>2 DEF VersionsMatch, At, TypeOK
  <2> QED
    BY <1>1, <2>1, <2>2, <2>3
<1> QED
  BY <1>5, <1>6, <1>7 DEF VersionsMatch, At

\* What the step of writer w has to respect about the group.
LEMMA GroupStep ==
    ASSUME TypeInv, GroupInv, NEW w \in Writers, NEW j, Becomes(w, j),
           group' = group, changed' = changed,
           \A v \in Writers : v # w /\ lease' = v => lease = v,
           j.late =>
             (j.pc = "release" /\ lease' # w) \/ (j.pc = "end" /\ ~j.ok),
           w \in Pollers /\ Current(w)' /\ HasPlan(w)' => PlanIsRight(w)',
           acked'["group"] = changed["group"] =>
             acked["group"] = changed["group"] \/ (w \in Pollers /\ Passed(w)) \/ Debt',
           w \in Pollers /\ Passed(w)' => Passed(w) \/ Debt' \/ InGoodHands',
           "group" \in retry \/ "overtaken" \in lapses \/ (w \in Workers /\ job[w].late)
             \/ (w \in Retriers /\ TaskLeft(w)) => Debt' \/ InGoodHands',
           InGoodHands => Debt' \/ InGoodHands'
    PROVE  GroupInv'
<1>0. /\ \A v \in Writers : job'[v] = IF v = w THEN j ELSE job[v]
      /\ Pollers \subseteq Workers /\ Retriers \subseteq Workers /\ Workers \subseteq Writers
  BY DEF Becomes, TypeInv, TypeOK, Workers, Writers
<1>1. LateFails'
  BY <1>0 DEF GroupInv, LateFails, At
<1>2. \A v \in Pollers : Current(v)' /\ HasPlan(v)' => PlanIsRight(v)'
  <2> SUFFICES ASSUME NEW v \in Pollers, Current(v)', HasPlan(v)'
               PROVE  PlanIsRight(v)'
    OBVIOUS
  <2>1. CASE v # w
    <3>1. job'[v] = job[v]
      BY <1>0, <2>1
    <3>2. Current(v) /\ HasPlan(v)
      BY <3>1 DEF Current, HasPlan
    <3> QED
      BY <3>1, <3>2 DEF GroupInv, PlanIsRight, At
  <2> QED
    BY <2>1
<1>3. ASSUME NEW v \in Pollers, v # w, Passed(v)'
      PROVE  Passed(v)
  <2>1. job'[v] = job[v] /\ (lease' = v => lease = v)
    BY <1>0, <1>3
  <2> QED
    BY <1>3, <2>1 DEF Passed, Current, At
<1>4. ASSUME NEW v \in Retriers, v # w, TaskLeft(v)
      PROVE  TaskLeft(v)'
  <2>1. job'[v] = job[v] /\ (lease' = v => lease = v)
    BY <1>0, <1>4
  <2> QED
    BY <1>4, <2>1 DEF TaskLeft, HasPlan, At
<1>5. ASSUME Debt
      PROVE  Debt' \/ InGoodHands'
  <2>1. ASSUME NEW v \in Workers, v # w, job[v].late
        PROVE  Debt'
    <3>1. job'[v] = job[v]
      BY <1>0, <2>1
    <3> QED
      BY <2>1, <3>1 DEF Debt
  <2>2. ASSUME NEW v \in Retriers, v # w, TaskLeft(v)
        PROVE  Debt'
    BY <1>4, <2>2 DEF Debt
  <2> QED
    BY <1>5, <2>1, <2>2 DEF Debt
<1>6. acked'["group"] = changed'["group"] \/ (\E v \in Pollers : Passed(v)')
        => Debt' \/ InGoodHands'
  <2>1. acked["group"] = changed["group"] \/ (\E v \in Pollers : Passed(v))
          => Debt \/ InGoodHands
    BY DEF GroupInv
  <2>2. CASE acked'["group"] = changed'["group"]
    BY <1>5, <2>1, <2>2
  <2>3. ASSUME NEW v \in Pollers, Passed(v)'
        PROVE  Debt' \/ InGoodHands'
    BY <1>3, <1>5, <2>1, <2>3
  <2> QED
    BY <2>2, <2>3
<1> QED
  BY <1>1, <1>2, <1>6 DEF GroupInv

LEMMA GoodStep ==
    ASSUME TypeInv, InGoodHands, NEW w \in Writers, NEW j, Becomes(w, j), group' = group,
           \A v \in Writers : v # w /\ lease' = v => lease = v,
           retired' = retired \/ Settled',
           w \in Workers /\ lease' = w /\ HasPlan(w)' => PlanIsRight(w)',
           w \in Retriers /\ lease = w /\ HasPlan(w) /\ job[w].kind = "group" =>
             Debt' \/ Settled' \/ (lease' = w /\ HasPlan(w)' /\ j.kind = "group")
    PROVE  Debt' \/ InGoodHands'
<1>0. /\ \A v \in Writers : job'[v] = IF v = w THEN j ELSE job[v]
      /\ Retriers \subseteq Workers /\ Workers \subseteq Writers
  BY DEF Becomes, TypeInv, TypeOK, Workers, Writers
<1>1. ASSUME NEW v \in Workers, lease' = v, HasPlan(v)'
      PROVE  PlanIsRight(v)'
  <2>1. CASE v # w
    <3>1. job'[v] = job[v] /\ lease = v
      BY <1>0, <1>1, <2>1
    <3>2. HasPlan(v)
      BY <1>1, <3>1 DEF HasPlan
    <3> QED
      BY <3>1, <3>2 DEF InGoodHands, PlanIsRight, At
  <2> QED
    BY <1>1, <2>1
<1>2. CASE Settled \/ Settled'
  <2>1. Settled'
    BY <1>2 DEF Settled
  <2> QED
    BY <1>1, <2>1 DEF InGoodHands
<1>3. ASSUME NEW v \in Retriers, lease = v, HasPlan(v), job[v].kind = "group"
      PROVE  Debt' \/ InGoodHands'
  <2>1. CASE v = w
    <3>1. job'[w] = j
      BY <1>0
    <3> QED
      BY <1>1, <1>2, <1>3, <2>1, <3>1 DEF InGoodHands
  <2>2. CASE v # w
    <3>1. job'[v] = job[v]
      BY <1>0, <2>2
    <3>2. CASE lease' = v
      BY <1>1, <1>3, <3>1, <3>2 DEF InGoodHands, HasPlan
    <3>3. CASE lease' # v
      BY <1>3, <3>1, <3>3 DEF Debt, TaskLeft, HasPlan
    <3> QED
      BY <3>2, <3>3
  <2> QED
    BY <2>1, <2>2
<1> QED
  BY <1>2, <1>3 DEF InGoodHands

Deciding == {"decide", "reopen", "retire", "release"}

\* A step that has nothing to do with the group's lifecycle.
LEMMA GroupQuiet ==
    ASSUME TypeInv, GroupInv, NEW w \in Writers, NEW j, Becomes(w, j),
           UNCHANGED <<group, changed, retired, lease>>,
           acked'["group"] = acked["group"], lapses \subseteq lapses',
           "group" \in retry => \/ "group" \in retry'
                                \/ w \in Retriers /\ j.pc = "lease" /\ j.kind = "group",
           job[w].pc \notin Deciding \cup {"lease", "end"}, j.pc \notin Deciding, ~j.late,
           j.kind = "group" /\ (j.pc \in {"lock", "load", "unlock"} \cup Publishing
                                \/ (j.pc = "end" /\ j.ok)) =>
             Same(w, j) /\ job[w].pc \in {"lock", "load", "unlock"} \cup Publishing
    PROVE  GroupInv'
<1>0. /\ \A v \in Writers : job'[v] = IF v = w THEN j ELSE job[v]
      /\ Pollers \subseteq Workers /\ Retriers \subseteq Workers
  BY DEF Becomes, TypeInv, TypeOK, Workers
<1>1. ~HasPlan(w) /\ ~HasPlan(w)'
  BY <1>0 DEF HasPlan, Deciding
<1>2. ~job[w].late
  BY DEF GroupInv, LateFails, At, Deciding
<1>3. ~TaskLeft(w)
  BY DEF TaskLeft, HasPlan, At, Deciding
<1>4. Passed(w)' => Passed(w)
  BY <1>0 DEF Passed, Current, At, Same, IsFor, Deciding
<1>5. "group" \in retry \/ "overtaken" \in lapses => Debt'
  <2>1. CASE w \in Retriers /\ j.pc = "lease" /\ j.kind = "group"
    BY <1>0, <2>1 DEF Debt, TaskLeft
  <2> QED
    BY <2>1 DEF Debt
<1>6. InGoodHands => Debt' \/ InGoodHands'
  BY <1>1, GoodStep
<1> QED
  BY <1>1, <1>2, <1>3, <1>4, <1>5, <1>6, GroupStep

\* The three invariants together.
Inv == TypeInv /\ EpochInv /\ GroupInv

LEMMA FaultFacts ==
    ASSUME TypeOK
    PROVE  /\ Fault => faults' \in 0..MaxFaults
           /\ UNCHANGED faults => faults' \in 0..MaxFaults
  BY ConstantsAssumption DEF TypeOK, Fault

\* A step of a rebuild or a request that leaves the database, the outbox, the
\* tombstone and the lease alone.
LEMMA QuietStep ==
    ASSUME Inv, NEW w \in Writers, NEW j, Becomes(w, j), JobOK(w, j),
           EraOK(j, epoch, lives),
           UNCHANGED <<database, acked, epoch, retired, lives, lease>>,
           retry' \subseteq retry,
           "group" \in retry => \/ "group" \in retry'
                                \/ w \in Retriers /\ j.pc = "lease" /\ j.kind = "group",
           registered' \in BOOLEAN, active' \in Snapshots,
           VersionsMatch', versions' \in Seq(Writers \cup {Marker}), ServedIsOfThisEpoch',
           lock' \in Workers \cup {None, Left}, faults' \in 0..MaxFaults,
           lapses \subseteq lapses', lapses' \subseteq {"raced", "overtaken"},
           job[w].pc \notin Deciding \cup {"lease", "end"}, j.pc \notin Deciding, ~j.late,
           j.kind = "group" /\ (j.pc \in {"lock", "load", "unlock"} \cup Publishing
                                \/ (j.pc = "end" /\ j.ok)) =>
             Same(w, j) /\ job[w].pc \in {"lock", "load", "unlock"} \cup Publishing
    PROVE  Inv'
<1>0. /\ TypeInv /\ EpochInv /\ GroupInv /\ TypeOK
      /\ UNCHANGED <<group, members, changed>>
  BY DEF Inv, TypeInv, database
<1>1. \A k \in Kinds : acked[k] \in Nat /\ changed[k] \in Nat /\ acked[k] <= changed[k]
  BY <1>0, ChangeFacts
<1>2. TypeInv'
  <2>1. /\ acked' \in [Kinds -> Nat] /\ retry' \subseteq Kinds /\ epoch' \in Nat
        /\ retired' \in BOOLEAN /\ lives' \in Nat /\ lease' \in Workers \cup {None, Left}
    BY <1>0 DEF TypeOK
  <2>2. \A k \in Kinds : acked[k] <= acked'[k] /\ acked'[k] <= changed[k]
    BY <1>1
  <2> QED
    BY <1>0, <2>1, <2>2, TypeStep
<1>3. EpochInv'
  <2>1. lives \in Nat /\ lives <= lives' /\ epoch' = lives' + 1 /\ lives' \in Nat
    BY <1>0 DEF TypeOK, EpochInv
  <2> QED
    BY <1>0, <2>1, EpochStep
<1>4. GroupInv'
  BY <1>0, GroupQuiet
<1> QED
  BY <1>2, <1>3, <1>4 DEF Inv

\* What an unchanged bucket, or one that differs in the versions of writers,
\* means for the step above.
LEMMA BucketFrame ==
    ASSUME Inv, NEW w \in Writers, NEW j, Becomes(w, j),
           UNCHANGED <<registered, active, retired, lives>>,
           \/ versions' = versions /\ (job[w].pc = "activate" => j.pc = "activate")
           \/ versions' = Without(w)
           \/ versions' = Append(versions, w) /\ job[w].pc # "activate" /\ j.pc = "activate"
    PROVE  /\ registered' \in BOOLEAN /\ active' \in Snapshots
           /\ VersionsMatch' /\ versions' \in Seq(Writers \cup {Marker}) /\ ServedIsOfThisEpoch'
<1>1. VersionsMatch' /\ versions' \in Seq(Writers \cup {Marker}) /\ (Published' => Published)
  BY VersionsStep DEF Inv
<1>2. ServedIsOfThisEpoch'
  BY <1>1, ServedFrame DEF Inv
<1> QED
  BY <1>1, <1>2 DEF Inv, TypeInv, TypeOK

-----------------------------------------------------------------------------
(* The steps of rebuilds and requests.                                     *)

LEMMA QuietFacts ==
    ASSUME Inv, NEW w \in Writers, job[w].pc \notin Deciding \cup {"lease", "end"}
    PROVE  /\ job \in [Writers -> Jobs] /\ job[w] \in Jobs /\ JobOK(w, job[w])
           /\ EraOK(job[w], epoch, lives) /\ ~job[w].late
           /\ epoch = lives + 1 /\ lives \in Nat
           /\ faults \in 0..MaxFaults /\ lapses \subseteq {"raced", "overtaken"}
           /\ lock \in Workers \cup {None, Left}
  BY JobFacts DEF Inv, TypeInv, TypeOK, EpochInv, EraOK, GroupInv, LateFails, At, Deciding

\* A job that is over, or only has to report its result.
LEMMA OverFacts ==
    ASSUME Inv, NEW w \in Writers, NEW j \in Jobs,
           \/ j = NoJob
           \/ /\ Same(w, j) /\ j.pc \in {"unlock", "end"} /\ j.token = 0 /\ ~j.shared /\ j.era = 0
              /\ job[w].pc # "idle"
    PROVE  JobOK(w, j) /\ EraOK(j, epoch, lives)
<1>1. /\ JobOK(w, job[w]) /\ epoch = lives + 1 /\ lives \in Nat
      /\ \A k \in Kinds : changed[k] \in Nat
  BY JobFacts, ChangeFacts DEF Inv, EpochInv, TypeInv, TypeOK
<1>2. CASE j = NoJob
  <2>1. \A k \in Kinds : NoJob.upto[k] = 0 /\ 0 <= changed[k]
    BY <1>1, NoJobEffect DEF IsFor
  <2>2. NoJob.kind = None /\ None \notin Kinds
    BY NoJobEffect DEF IsFor, None, Kinds
  <2>3. /\ NoJob.pc = "idle" /\ NoJob.token = 0 /\ NoJob.shared = FALSE /\ NoJob.era = 0
    BY NoJobEffect DEF IsAt
  <2> QED
    BY <1>1, <1>2, <2>1, <2>2, <2>3 DEF JobOK, EraOK, None, Publishing, Kinds
<1>3. CASE /\ Same(w, j) /\ j.pc \in {"unlock", "end"} /\ j.token = 0 /\ ~j.shared /\ j.era = 0
           /\ job[w].pc # "idle"
  <2>1. EraOK(j, epoch, lives)
    BY <1>1, <1>3 DEF EraOK, Publishing
  <2> QED
    BY <1>1, <1>3, <2>1 DEF JobOK, Same, IsFor
<1> QED
  BY <1>2, <1>3

LEMMA BeginStep ==
    ASSUME Inv, NEW w \in Writers,
           \/ w \in Pollers /\ \E k \in Kinds, upto \in [Kinds -> 0..MaxChanges] : TakeEvent(w, k, upto)
           \/ w \in Retriers /\ \E k \in Kinds : TakeRetry(w, k)
           \/ w \in Rebuilders /\ BeginFullRebuild(w)
           \/ w \in Requests /\ Miss(w)
    PROVE  Inv'
<1>0. /\ Inv /\ TypeOK /\ job[w].pc = "idle" /\ job[w].pc \notin Deciding \cup {"lease", "end"}
      /\ epoch = lives + 1 /\ lives \in Nat
      /\ \A k \in Kinds : changed[k] \in Nat /\ acked[k] \in Nat /\ 0 <= changed[k]
  <2>1. Free(w)
    BY Zenon DEF TakeEvent, TakeRetry, BeginFullRebuild, Miss
  <2>2. job[w].pc = "idle"
    BY <2>1 DEF Free
  <2>3. TypeOK /\ epoch = lives + 1 /\ lives \in Nat
    BY DEF Inv, TypeInv, TypeOK, EpochInv
  <2>4. \A k \in Kinds : changed[k] \in Nat /\ acked[k] \in Nat /\ 0 <= changed[k]
    BY <2>3, ChangeFacts
  <2> QED
    BY <2>2, <2>3, <2>4 DEF Deciding
<1>1. /\ UNCHANGED <<database, acked, epoch, retired, lives, lease, registered, active, versions,
                     lock, lapses>>
      /\ faults' \in 0..MaxFaults
  <2>1. faults' = faults \/ Fault
    BY DEF TakeEvent, TakeRetry, BeginFullRebuild, Miss
  <2>2. faults' \in 0..MaxFaults
    BY <1>0, <2>1, FaultFacts
  <2> QED
    BY <2>2 DEF TakeEvent, TakeRetry, BeginFullRebuild, Miss, bucket, outbox
<1>2. ASSUME NEW j, Becomes(w, j), JobOK(w, j), IsAt(j, j.pc, 0, FALSE, 0, FALSE, TRUE),
             j.pc \in {"lease", "capture", "list"}, retry' \subseteq retry,
             "group" \in retry => \/ "group" \in retry'
                                  \/ w \in Retriers /\ j.pc = "lease" /\ j.kind = "group"
      PROVE  Inv'
  <2>1. EraOK(j, epoch, lives) /\ ~j.late /\ j.pc \notin Deciding
    BY <1>0, <1>2 DEF EraOK, IsAt, Publishing, Deciding
  <2>2. /\ registered' \in BOOLEAN /\ active' \in Snapshots
        /\ VersionsMatch' /\ versions' \in Seq(Writers \cup {Marker}) /\ ServedIsOfThisEpoch'
    BY <1>0, <1>1, <1>2, BucketFrame
  <2>3. lock' \in Workers \cup {None, Left} /\ lapses' \subseteq {"raced", "overtaken"}
    BY <1>0, <1>1 DEF TypeOK
  <2>4. j.pc \notin {"lock", "load", "unlock", "end"} \cup Publishing
    BY <1>2 DEF Publishing
  <2> QED
    BY <1>0, <1>1, <1>2, <2>1, <2>2, <2>3, <2>4, QuietStep
<1>3. ASSUME w \in Pollers, NEW k \in Kinds, NEW upto \in [Kinds -> 0..MaxChanges],
             TakeEvent(w, k, upto)
      PROVE  Inv'
  <2> DEFINE j == [NoJob EXCEPT !.pc = FirstStep(k), !.kind = k, !.first = acked[k] + 1,
                               !.upto = upto]
  <2>0. FirstStep(k) \in {"lease", "capture"} /\ (k = "group" => FirstStep(k) = "lease")
    BY DEF FirstStep
  <2>1. /\ upto \in [Kinds -> Nat] /\ acked[k] + 1 \in Nat
    BY <1>0, ConstantsAssumption
  <2>2. /\ j \in Jobs /\ IsFor(j, k, acked[k] + 1, upto)
        /\ IsAt(j, FirstStep(k), 0, FALSE, 0, FALSE, TRUE)
    BY <2>0, <2>1 DEF NoJob, Jobs, Steps, IsFor, IsAt
  <2>3. job' = [job EXCEPT ![w] = j] /\ retry' = retry
    BY <1>3 DEF TakeEvent, outbox
  <2> HIDE DEF j
  <2>4. JobOK(w, j)
    <3>1. /\ \A i \in Kinds : upto[i] \in Nat /\ upto[i] <= changed[i]
          /\ acked[k] < upto[k] /\ (k = "account" => upto["group"] = acked["group"])
      <4>1. /\ \A i \in Kinds : upto[i] \in acked[i]..changed[i]
            /\ acked[k] < upto[k] /\ (k = "account" => upto["group"] = acked["group"])
        BY <1>3, Zenon DEF TakeEvent
      <4>2. \A i \in Kinds : upto[i] \in Nat
        BY <2>1
      <4> QED
        BY <1>0, <4>1, <4>2
    <3>2. acked[k] + 1 <= changed[k] /\ "group" \in Kinds
      BY <1>0, <3>1 DEF Kinds
    <3> QED
      BY <1>0, <2>0, <2>2, <3>1, <3>2 DEF JobOK, IsFor, IsAt
  <2>5. Becomes(w, j) /\ j.pc = FirstStep(k)
    BY <2>2, <2>3 DEF Becomes, IsAt
  <2> QED
    BY <1>2, <2>0, <2>2, <2>3, <2>4, <2>5
<1>4. ASSUME NEW kind \in Kinds \cup {"full", "read"}, NEW pc \in {"lease", "capture", "list"},
             kind = "group" => pc = "lease", w \in Pollers \cup Retriers => kind \in Kinds,
             job' = [job EXCEPT ![w] = [NoJob EXCEPT !.pc = pc, !.kind = kind]],
             retry' = retry \/ (retry' = retry \ {kind} /\ w \in Retriers)
      PROVE  Inv'
  <2> DEFINE j == [NoJob EXCEPT !.pc = pc, !.kind = kind]
  <2>1. pc \in Steps /\ kind \in Kinds \cup {"full", "read", None}
    BY DEF Steps
  <2>2. /\ j \in Jobs /\ IsFor(j, kind, 0, [k \in Kinds |-> 0])
        /\ IsAt(j, pc, 0, FALSE, 0, FALSE, TRUE)
    BY <2>1, StartEffect
  <2>3. Becomes(w, j) /\ j.pc = pc /\ j.kind = kind
    BY <1>4, <2>2 DEF Becomes, IsAt, IsFor
  <2> HIDE DEF j
  <2>4. JobOK(w, j)
    <3>1. \A k \in Kinds : j.upto[k] = 0
      BY <2>2 DEF IsFor
    <3>2. "group" \in Kinds
      BY DEF Kinds
    <3> QED
      BY <1>0, <1>4, <2>2, <2>3, <3>1, <3>2 DEF JobOK, IsFor
  <2> QED
    BY <1>2, <1>4, <2>2, <2>3, <2>4
<1>5. ASSUME w \in Retriers, NEW k \in Kinds, TakeRetry(w, k)
      PROVE  Inv'
  <2>1. FirstStep(k) \in {"lease", "capture", "list"} /\ (k = "group" => FirstStep(k) = "lease")
    BY DEF FirstStep
  <2> QED
    BY <1>4, <1>5, <2>1 DEF TakeRetry
<1>6. CASE w \in Rebuilders /\ BeginFullRebuild(w)
  <2>1. w \notin Pollers \cup Retriers
    BY <1>6, ConstantsAssumption
  <2> QED
    BY <1>4, <1>6, <2>1 DEF BeginFullRebuild, outbox, Kinds
<1>7. CASE w \in Requests /\ Miss(w)
  <2>1. w \notin Pollers \cup Retriers
    BY <1>7, ConstantsAssumption DEF Workers
  <2> QED
    BY <1>4, <1>7, <2>1 DEF Miss, outbox, Kinds
<1> QED
  BY <1>3, <1>5, <1>6, <1>7

\* The job goes on, for the same purpose as before.
LEMMA SameStep ==
    ASSUME Inv, NEW w \in Writers, NEW j, Becomes(w, j), Same(w, j), j.late = job[w].late,
           job[w].pc \notin Deciding \cup {"lease", "end", "idle"},
           j.pc \notin Deciding \cup {"idle", "list"},
           j.pc \in {"groups", "capture"} => job[w].pc \in {"list", "groups"},
           EraOK(j, epoch, lives),
           UNCHANGED <<database, outbox, epoch, retired, lives, lease>>,
           registered' \in BOOLEAN, active' \in Snapshots,
           VersionsMatch', versions' \in Seq(Writers \cup {Marker}), ServedIsOfThisEpoch',
           lock' \in Workers \cup {None, Left}, faults' \in 0..MaxFaults,
           lapses \subseteq lapses', lapses' \subseteq {"raced", "overtaken"}
    PROVE  Inv'
<1>1. job[w] \in Jobs /\ JobOK(w, job[w]) /\ ~job[w].late
  BY QuietFacts
<1>2. JobOK(w, j)
  BY <1>1 DEF JobOK, Same, IsFor
<1>3. UNCHANGED acked /\ UNCHANGED retry
  BY DEF outbox
<1>4. job[w].kind = "group" => job[w].pc \in {"lock", "load", "unlock"} \cup Publishing
  <2>1. job[w].pc \in Steps
    BY <1>1, JobFields
  <2> QED
    BY <1>1, <2>1 DEF JobOK, Steps, Deciding, Publishing
<1>5. j.kind = job[w].kind
  BY DEF Same, IsFor
<1> QED
  BY <1>1, <1>2, <1>3, <1>4, <1>5, QuietStep DEF Deciding

\* The job is over, or only has to report its result.
LEMMA OverStep ==
    ASSUME Inv, NEW w \in Writers, NEW j, Becomes(w, j),
           \/ j = NoJob
           \/ /\ Same(w, j) /\ j.late = job[w].late /\ j.pc \in {"unlock", "end"}
              /\ j.token = 0 /\ ~j.shared /\ j.era = 0,
           job[w].pc \notin Deciding \cup {"lease", "end", "idle"},
           UNCHANGED <<database, outbox, epoch, retired, registered, active, lives, lease, lapses>>,
           (versions' = versions /\ job[w].pc # "activate") \/ versions' = Without(w),
           lock' \in Workers \cup {None, Left}, faults' \in 0..MaxFaults
    PROVE  Inv'
<1>1. /\ registered' \in BOOLEAN /\ active' \in Snapshots
      /\ VersionsMatch' /\ versions' \in Seq(Writers \cup {Marker}) /\ ServedIsOfThisEpoch'
  BY BucketFrame
<1>2. j \in Jobs /\ lapses' \subseteq {"raced", "overtaken"} /\ lapses \subseteq lapses'
  BY QuietFacts DEF Becomes
<1>3. JobOK(w, j) /\ EraOK(j, epoch, lives)
  BY <1>2, OverFacts
<1>4. CASE j = NoJob
  <2>1. j.pc = "idle" /\ j.late = FALSE /\ j.kind = None
    BY <1>4, NoJobEffect DEF IsAt, IsFor
  <2>2. UNCHANGED acked /\ UNCHANGED retry
    BY DEF outbox
  <2> QED
    BY <1>1, <1>2, <1>3, <2>1, <2>2, QuietStep DEF None, Deciding
<1>5. CASE /\ Same(w, j) /\ j.late = job[w].late /\ j.pc \in {"unlock", "end"}
           /\ j.token = 0 /\ ~j.shared /\ j.era = 0
  BY <1>1, <1>2, <1>3, <1>5, SameStep DEF Deciding
<1> QED
  BY <1>4, <1>5

LEMMA ListStep ==
    ASSUME Inv, NEW w \in Writers, ListBuckets(w) \/ ListActiveGroups(w)
    PROVE  Inv'
<1>0. /\ job[w].pc \in {"list", "groups"} /\ job[w].pc \notin Deciding \cup {"lease", "end", "idle"}
      /\ job[w].pc # "activate"
  BY DEF ListBuckets, ListActiveGroups, At, Deciding
<1>1. /\ UNCHANGED <<database, outbox, epoch, retired, registered, active, lives, lease, lapses,
                     versions, lock, faults>>
  BY DEF ListBuckets, ListActiveGroups, bucket
<1>2. /\ job \in [Writers -> Jobs] /\ job[w] \in Jobs /\ EraOK(job[w], epoch, lives)
      /\ lock' \in Workers \cup {None, Left} /\ faults' \in 0..MaxFaults
      /\ lapses' \subseteq {"raced", "overtaken"}
  BY <1>0, <1>1, QuietFacts
<1>3. ASSUME NEW j, Becomes(w, j), Same(w, j), NEW pc \in {"groups", "capture", "lease"},
             IsAt(j, pc, job[w].token, job[w].shared, job[w].era, job[w].late, job[w].ok)
      PROVE  Inv'
  <2>1. /\ registered' \in BOOLEAN /\ active' \in Snapshots
        /\ VersionsMatch' /\ versions' \in Seq(Writers \cup {Marker}) /\ ServedIsOfThisEpoch'
    BY <1>0, <1>1, <1>3, BucketFrame
  <2>2. EraOK(j, epoch, lives) /\ j.pc = pc /\ j.late = job[w].late
    BY <1>0, <1>2, <1>3 DEF EraOK, IsAt, Publishing
  <2>3. j.pc \notin Deciding \cup {"idle", "list"}
    BY <1>3, <2>2 DEF Deciding
  <2> QED
    BY <1>0, <1>1, <1>2, <1>3, <2>1, <2>2, <2>3, SameStep
<1>4. CASE ListBuckets(w)
  <2> DEFINE i == job[w]
             j == [i EXCEPT !.pc = "groups", !.listed = registered]
  <2>1. job' = [job EXCEPT ![w] = j] /\ i \in Jobs /\ registered \in BOOLEAN
    BY <1>2, <1>4 DEF ListBuckets, Inv, TypeInv, TypeOK
  <2> HIDE DEF i
  <2>2. /\ j \in Jobs /\ IsFor(j, i.kind, i.first, i.upto)
        /\ IsAt(j, "groups", i.token, i.shared, i.era, i.late, i.ok)
    BY <2>1 DEF Jobs, Steps, IsFor, IsAt
  <2> HIDE DEF j
  <2>3. Becomes(w, j) /\ Same(w, j)
    BY <2>1, <2>2 DEF Becomes, Same, i
  <2> QED
    BY <1>3, <2>2, <2>3 DEF i
<1>5. ASSUME NEW pc \in {"capture", "lease"}, Goto(w, pc)
      PROVE  Inv'
  <2>1. pc \in Steps
    BY DEF Steps
  <2>2. PICK j : /\ Becomes(w, j) /\ Same(w, j)
                 /\ IsAt(j, pc, job[w].token, job[w].shared, job[w].era, job[w].late, job[w].ok)
    BY <1>2, <1>5, <2>1, GotoEffect
  <2> QED
    BY <1>3, <1>5, <2>2
<1>6. CASE Ends(w, TRUE)
  <2>1. PICK j : /\ Becomes(w, j) /\ Same(w, j) /\ IsAt(j, "end", 0, FALSE, 0, job[w].late, TRUE)
    BY <1>2, <1>6, EndsEffect
  <2> QED
    BY <1>0, <1>1, <1>2, <2>1, OverStep DEF IsAt
<1> QED
  BY <1>4, <1>5, <1>6 DEF ListActiveGroups

LEMMA CaptureStep ==
    ASSUME Inv, NEW w \in Writers, CaptureBucketWriteToken(w) \/ CaptureForRead(w)
    PROVE  Inv'
<1>0. /\ job[w].pc = "capture" /\ job[w].pc \notin Deciding \cup {"lease", "end", "idle"}
      /\ job[w].pc # "activate"
  BY DEF CaptureBucketWriteToken, CaptureForRead, At, Deciding
<1>1. /\ UNCHANGED <<database, outbox, retired, registered, active, lives, lease, lapses,
                     versions, lock, faults>>
  BY DEF CaptureBucketWriteToken, CaptureForRead
<1>2. /\ job \in [Writers -> Jobs] /\ job[w] \in Jobs /\ EraOK(job[w], epoch, lives)
      /\ epoch = lives + 1 /\ lives \in Nat /\ job[w].shared = FALSE
      /\ lock' \in Workers \cup {None, Left} /\ faults' \in 0..MaxFaults
      /\ lapses' \subseteq {"raced", "overtaken"}
  BY <1>0, <1>1, QuietFacts, JobFields DEF EraOK, Publishing
<1>3. Larger(1, epoch) = epoch /\ epoch \in Nat
  BY <1>2 DEF Larger
<1>4. epoch' = epoch
  BY <1>3 DEF CaptureBucketWriteToken, CaptureForRead
<1>5. ASSUME NEW j, Becomes(w, j), Same(w, j), NEW pc \in {"lease", "lock", "load"},
             NEW token \in {job[w].token, epoch},
             IsAt(j, pc, token, job[w].shared, job[w].era, job[w].late, job[w].ok)
      PROVE  Inv'
  <2>1. /\ registered' \in BOOLEAN /\ active' \in Snapshots
        /\ VersionsMatch' /\ versions' \in Seq(Writers \cup {Marker}) /\ ServedIsOfThisEpoch'
    BY <1>0, <1>1, <1>5, BucketFrame
  <2>2. EraOK(j, epoch, lives) /\ j.pc = pc /\ j.late = job[w].late
    BY <1>0, <1>2, <1>3, <1>5 DEF EraOK, IsAt, Publishing
  <2>3. j.pc \notin Deciding \cup {"idle", "list"}
    BY <1>5, <2>2 DEF Deciding
  <2> QED
    BY <1>0, <1>1, <1>2, <1>4, <1>5, <2>1, <2>2, <2>3, SameStep
<1>6. CASE Goto(w, "lease")
  <2>1. "lease" \in Steps
    BY DEF Steps
  <2>2. PICK j : /\ Becomes(w, j) /\ Same(w, j)
                 /\ IsAt(j, "lease", job[w].token, job[w].shared, job[w].era, job[w].late, job[w].ok)
    BY <1>2, <1>6, <2>1, GotoEffect
  <2> QED
    BY <1>5, <2>2
<1>7. CASE job' = [job EXCEPT ![w].pc = "lock", ![w].token = epoch',
                              ![w].strict = (w \notin Rebuilders)]
  <2> DEFINE i == job[w]
             j == [i EXCEPT !.pc = "lock", !.token = epoch, !.strict = (w \notin Rebuilders)]
  <2>1. job' = [job EXCEPT ![w] = j] /\ i \in Jobs
    BY <1>2, <1>4, <1>7
  <2> HIDE DEF i
  <2>2. /\ j \in Jobs /\ IsFor(j, i.kind, i.first, i.upto)
        /\ IsAt(j, "lock", epoch, i.shared, i.era, i.late, i.ok)
    BY <1>3, <2>1 DEF Jobs, Steps, IsFor, IsAt
  <2> HIDE DEF j
  <2>3. Becomes(w, j) /\ Same(w, j)
    BY <2>1, <2>2 DEF Becomes, Same, i
  <2> QED
    BY <1>5, <2>2, <2>3 DEF i
<1>8. CASE job' = [job EXCEPT ![w].pc = "load", ![w].token = epoch']
  <2> DEFINE i == job[w]
             j == [i EXCEPT !.pc = "load", !.token = epoch]
  <2>1. job' = [job EXCEPT ![w] = j] /\ i \in Jobs
    BY <1>2, <1>4, <1>8
  <2> HIDE DEF i
  <2>2. /\ j \in Jobs /\ IsFor(j, i.kind, i.first, i.upto)
        /\ IsAt(j, "load", epoch, i.shared, i.era, i.late, i.ok)
    BY <1>3, <2>1 DEF Jobs, Steps, IsFor, IsAt
  <2> HIDE DEF j
  <2>3. Becomes(w, j) /\ Same(w, j)
    BY <2>1, <2>2 DEF Becomes, Same, i
  <2> QED
    BY <1>5, <2>2, <2>3 DEF i
<1>9. CASE job' = [job EXCEPT ![w] = NoJob]
  <2>1. Becomes(w, NoJob)
    BY <1>9, NoJobEffect DEF Becomes
  <2> QED
    BY <1>0, <1>1, <1>2, <1>4, <2>1, OverStep
<1> QED
  BY <1>6, <1>7, <1>8, <1>9 DEF CaptureBucketWriteToken, CaptureForRead

LEMMA LockStep ==
    ASSUME Inv, NEW w \in Workers, TryLockBucket(w) \/ UnlockBucket(w)
    PROVE  Inv'
<1>0. /\ job[w].pc \in {"lock", "unlock"} /\ job[w].pc \notin Deciding \cup {"lease", "end", "idle"}
      /\ job[w].pc # "activate" /\ w \in Writers
  BY DEF TryLockBucket, UnlockBucket, At, Deciding, Writers
<1>1. /\ UNCHANGED <<database, outbox, epoch, retired, registered, active, lives, lease, lapses,
                     versions>>
  BY DEF TryLockBucket, UnlockBucket, bucket
<1>2. /\ job \in [Writers -> Jobs] /\ job[w] \in Jobs /\ EraOK(job[w], epoch, lives)
      /\ lock \in Workers \cup {None, Left} /\ faults \in 0..MaxFaults
      /\ lapses' \subseteq {"raced", "overtaken"} /\ job[w].strict \in BOOLEAN
  BY <1>0, <1>1, QuietFacts, JobFields
<1>3. lock' \in Workers \cup {None, Left} /\ faults' \in 0..MaxFaults
  <2>1. faults' = faults \/ Fault
    BY DEF TryLockBucket, UnlockBucket
  <2>2. lock' \in {lock, w, None, Left}
    BY DEF TryLockBucket, UnlockBucket
  <2> QED
    BY <1>2, <2>1, <2>2, FaultFacts DEF Inv, TypeInv
<1>4. ASSUME NEW pc \in {"load", "end"}, Goto(w, pc), pc = "load" => job[w].pc = "lock",
             pc = "end" => job[w].pc = "unlock"
      PROVE  Inv'
  <2>1. pc \in Steps
    BY DEF Steps
  <2>2. PICK j : /\ Becomes(w, j) /\ Same(w, j)
                 /\ IsAt(j, pc, job[w].token, job[w].shared, job[w].era, job[w].late, job[w].ok)
    BY <1>0, <1>2, <1>4, <2>1, GotoEffect
  <2>3. /\ registered' \in BOOLEAN /\ active' \in Snapshots
        /\ VersionsMatch' /\ versions' \in Seq(Writers \cup {Marker}) /\ ServedIsOfThisEpoch'
    BY <1>0, <1>1, <2>2, BucketFrame
  <2>4. EraOK(j, epoch, lives) /\ j.pc = pc /\ j.late = job[w].late
    BY <1>2, <1>4, <2>2 DEF EraOK, IsAt, Publishing
  <2>5. j.pc \notin Deciding \cup {"idle", "list"}
    BY <1>4, <2>4 DEF Deciding
  <2> QED
    BY <1>0, <1>1, <1>2, <1>3, <1>4, <2>2, <2>3, <2>4, <2>5, SameStep
<1>5. CASE Ends(w, ~job[w].strict)
  <2>1. (~job[w].strict) \in BOOLEAN
    OBVIOUS
  <2>2. PICK j : /\ Becomes(w, j) /\ Same(w, j)
                 /\ IsAt(j, "end", 0, FALSE, 0, job[w].late, ~job[w].strict)
    BY <1>0, <1>2, <1>5, <2>1, EndsEffect
  <2> QED
    BY <1>0, <1>1, <1>2, <1>3, <2>2, OverStep DEF IsAt
<1> QED
  BY <1>4, <1>5 DEF TryLockBucket, UnlockBucket, At

LEMMA LoadStep ==
    ASSUME Inv, NEW w \in Writers,
           LoadForSibling(w) \/ LoadAccounts(w) \/ WithLatestSchedulerAccounts(w)
    PROVE  Inv'
<1>0. /\ job[w].pc \in {"lock", "load", "latest"}
      /\ job[w].pc \notin Deciding \cup {"lease", "end", "idle"} /\ job[w].pc # "activate"
  BY DEF LoadForSibling, LoadAccounts, WithLatestSchedulerAccounts, At, Deciding
<1>1. UNCHANGED <<database, outbox, epoch, retired, registered, active, lives, lease, lapses,
                  versions, lock, faults>>
  BY DEF LoadForSibling, LoadAccounts, WithLatestSchedulerAccounts, bucket
<1>2. /\ job \in [Writers -> Jobs] /\ job[w] \in Jobs /\ EraOK(job[w], epoch, lives)
      /\ epoch = lives + 1 /\ lives \in Nat /\ members \subseteq Accounts
      /\ lock' \in Workers \cup {None, Left} /\ faults' \in 0..MaxFaults
      /\ lapses' \subseteq {"raced", "overtaken"}
  BY <1>0, <1>1, QuietFacts DEF Inv, TypeInv, TypeOK
<1>3. ASSUME NEW j, Becomes(w, j), Same(w, j), NEW pc \in {"lock", "latest", "allocate"},
             NEW shared, NEW era,
             IsAt(j, pc, job[w].token, shared, era, job[w].late, job[w].ok),
             \/ era = lives
             \/ era = job[w].era /\ (job[w].shared \/ job[w].pc = "latest")
      PROVE  Inv'
  <2>1. /\ registered' \in BOOLEAN /\ active' \in Snapshots
        /\ VersionsMatch' /\ versions' \in Seq(Writers \cup {Marker}) /\ ServedIsOfThisEpoch'
    BY <1>0, <1>1, <1>3, BucketFrame
  <2>2. EraOK(j, epoch, lives) /\ j.pc = pc /\ j.late = job[w].late
    BY <1>0, <1>2, <1>3, JobFields DEF EraOK, IsAt, Publishing
  <2>3. j.pc \notin Deciding \cup {"idle", "list", "groups", "capture"}
    BY <1>3, <2>2 DEF Deciding
  <2> QED
    BY <1>0, <1>1, <1>2, <1>3, <2>1, <2>2, <2>3, SameStep
<1> DEFINE i == job[w]
<1>4. i \in Jobs
  BY <1>2
<1>5. CASE LoadForSibling(w)
  <2> DEFINE j == [i EXCEPT !.shared = TRUE, !.load = members, !.era = lives]
  <2>1. job' = [job EXCEPT ![w] = j] /\ i.pc = "lock"
    BY <1>5 DEF LoadForSibling, At
  <2> HIDE DEF i
  <2>2. /\ j \in Jobs /\ IsFor(j, i.kind, i.first, i.upto)
        /\ IsAt(j, "lock", i.token, TRUE, lives, i.late, i.ok)
    BY <1>2, <1>4, <2>1 DEF Jobs, IsFor, IsAt
  <2> HIDE DEF j
  <2>3. Becomes(w, j) /\ Same(w, j)
    BY <2>1, <2>2 DEF Becomes, Same, i
  <2> QED
    BY <1>3, <2>2, <2>3 DEF i
<1>6. CASE LoadAccounts(w)
  <2>0. PICK pc \in {"latest", "allocate"} :
          job' = IF job[w].shared THEN [job EXCEPT ![w].pc = pc]
                 ELSE [job EXCEPT ![w].pc = pc, ![w].load = members, ![w].era = lives]
    BY <1>6 DEF LoadAccounts
  <2>1. CASE job[w].shared
    <3> DEFINE j == [i EXCEPT !.pc = pc]
    <3>1. job' = [job EXCEPT ![w] = j]
      BY <2>0, <2>1
    <3> HIDE DEF i
    <3>2. /\ j \in Jobs /\ IsFor(j, i.kind, i.first, i.upto)
          /\ IsAt(j, pc, i.token, i.shared, i.era, i.late, i.ok)
      BY <1>4 DEF Jobs, Steps, IsFor, IsAt
    <3> HIDE DEF j
    <3>3. Becomes(w, j) /\ Same(w, j)
      BY <3>1, <3>2 DEF Becomes, Same, i
    <3> QED
      BY <1>3, <2>1, <3>2, <3>3 DEF i
  <2>2. CASE ~job[w].shared
    <3> DEFINE j == [i EXCEPT !.pc = pc, !.load = members, !.era = lives]
    <3>1. job' = [job EXCEPT ![w] = j]
      BY <2>0, <2>2
    <3> HIDE DEF i
    <3>2. /\ j \in Jobs /\ IsFor(j, i.kind, i.first, i.upto)
          /\ IsAt(j, pc, i.token, i.shared, lives, i.late, i.ok)
      BY <1>2, <1>4 DEF Jobs, Steps, IsFor, IsAt
    <3> HIDE DEF j
    <3>3. Becomes(w, j) /\ Same(w, j)
      BY <3>1, <3>2 DEF Becomes, Same, i
    <3> QED
      BY <1>3, <3>2, <3>3 DEF i
  <2> QED
    BY <2>1, <2>2
<1>7. CASE WithLatestSchedulerAccounts(w)
  <2> DEFINE j == [i EXCEPT !.pc = "allocate", !.load = @ \cap members]
  <2>1. job' = [job EXCEPT ![w] = j] /\ i.pc = "latest"
    BY <1>7 DEF WithLatestSchedulerAccounts, At
  <2> HIDE DEF i
  <2>2. /\ j \in Jobs /\ IsFor(j, i.kind, i.first, i.upto)
        /\ IsAt(j, "allocate", i.token, i.shared, i.era, i.late, i.ok)
    BY <1>2, <1>4 DEF Jobs, Steps, IsFor, IsAt
  <2> HIDE DEF j
  <2>3. Becomes(w, j) /\ Same(w, j)
    BY <2>1, <2>2 DEF Becomes, Same, i
  <2> QED
    BY <1>3, <2>1, <2>2, <2>3 DEF i
<1> QED
  BY <1>5, <1>6, <1>7

\* After SetSnapshot, with the writer's version gone or never allocated.
LEMMA AfterSetStep ==
    ASSUME Inv, NEW w \in Writers, NEW ok \in BOOLEAN, AfterSet(w, ok),
           job[w].pc \in {"load"} \cup Publishing,
           UNCHANGED <<database, outbox, epoch, retired, registered, active, lives, lease, lapses,
                       lock>>,
           (versions' = versions /\ job[w].pc # "activate") \/ versions' = Without(w),
           faults' \in 0..MaxFaults
    PROVE  Inv'
<1>0. job[w].pc \notin Deciding \cup {"lease", "end", "idle"}
  BY DEF Deciding, Publishing
<1>1. job \in [Writers -> Jobs] /\ lock' \in Workers \cup {None, Left}
  BY <1>0, QuietFacts
<1>2. PICK j : /\ Becomes(w, j)
               /\ \/ j = NoJob
                  \/ Same(w, j) /\ IsAt(j, "unlock", 0, FALSE, 0, job[w].late, ok)
  BY <1>1, AfterSetEffect
<1> QED
  BY <1>0, <1>1, <1>2, OverStep DEF IsAt

LEMMA AllocateStep ==
    ASSUME Inv, NEW w \in Writers, AllocateSnapshotVersion(w)
    PROVE  Inv'
<1>0. /\ job[w].pc = "allocate" /\ job[w].pc \notin Deciding \cup {"lease", "end", "idle"}
      /\ job[w].pc # "activate" /\ job[w].pc \in {"load"} \cup Publishing
  BY DEF AllocateSnapshotVersion, At, Deciding, Publishing
<1>1. UNCHANGED <<database, outbox, epoch, retired, registered, active, lives, lease, lapses,
                  lock, faults>>
  BY DEF AllocateSnapshotVersion
<1>2. /\ job \in [Writers -> Jobs] /\ job[w] \in Jobs /\ EraOK(job[w], epoch, lives)
      /\ lock' \in Workers \cup {None, Left} /\ faults' \in 0..MaxFaults
      /\ lapses' \subseteq {"raced", "overtaken"}
  BY <1>0, <1>1, QuietFacts
<1>3. CASE AfterSet(w, ~job[w].strict) /\ versions' = versions
  <2>1. (~job[w].strict) \in BOOLEAN
    OBVIOUS
  <2> QED
    BY <1>0, <1>1, <1>2, <1>3, <2>1, AfterSetStep
<1>4. CASE versions' = Append(versions, w) /\ Goto(w, "activate")
  <2>1. "activate" \in Steps
    BY DEF Steps
  <2>2. PICK j : /\ Becomes(w, j) /\ Same(w, j)
                 /\ IsAt(j, "activate", job[w].token, job[w].shared, job[w].era, job[w].late,
                         job[w].ok)
    BY <1>2, <1>4, <2>1, GotoEffect
  <2>3. /\ EraOK(j, epoch, lives) /\ j.pc = "activate" /\ j.late = job[w].late
        /\ j.pc \notin Deciding \cup {"idle", "list", "groups", "capture"}
    BY <1>0, <1>2, <2>2 DEF EraOK, IsAt, Publishing, Deciding
  <2>4. /\ registered' \in BOOLEAN /\ active' \in Snapshots
        /\ VersionsMatch' /\ versions' \in Seq(Writers \cup {Marker}) /\ ServedIsOfThisEpoch'
    BY <1>0, <1>1, <1>4, <2>2, <2>3, BucketFrame
  <2> QED
    BY <1>0, <1>1, <1>2, <2>2, <2>3, <2>4, SameStep
<1> QED
  BY <1>3, <1>4 DEF AllocateSnapshotVersion

\* The fence: what is installed was loaded in the bucket's present life.
LEMMA ActivateStep ==
    ASSUME Inv, NEW w \in Writers, ActivateSnapshotVersion(w)
    PROVE  Inv'
<1>0. /\ job[w].pc = "activate" /\ job[w].pc \notin Deciding \cup {"lease", "end", "idle"}
      /\ job[w].pc \in {"load"} \cup Publishing
  BY DEF ActivateSnapshotVersion, At, Deciding, Publishing
<1>1. UNCHANGED <<database, outbox, epoch, retired, lives, lease, lock>>
  BY DEF ActivateSnapshotVersion
<1>2. /\ job \in [Writers -> Jobs] /\ job[w] \in Jobs /\ EraOK(job[w], epoch, lives)
      /\ epoch = lives + 1 /\ lives \in Nat /\ faults \in 0..MaxFaults
      /\ lock' \in Workers \cup {None, Left} /\ lapses \subseteq {"raced", "overtaken"}
      /\ job[w].era \in Nat /\ job[w].token \in Nat
      /\ job[w].load \subseteq Accounts
  BY <1>0, <1>1, QuietFacts, JobFields
<1>3. ASSUME NEW ok \in BOOLEAN, AfterSet(w, ok), versions' = Without(w),
             UNCHANGED <<registered, active, faults, lapses>>
      PROVE  Inv'
  BY <1>0, <1>1, <1>2, <1>3, AfterSetStep
<1>4. ASSUME ~Fenced(w), Install(w), NEW ok \in BOOLEAN, AfterSet(w, ok),
             faults' \in 0..MaxFaults
      PROVE  Inv'
  <2>1. ~retired /\ job[w].era = lives
    BY <1>0, <1>2, <1>4 DEF Fenced, EraOK, Publishing
  <2>2. /\ active' = [set |-> job[w].load, era |-> job[w].era] /\ registered' = TRUE
        /\ lapses \subseteq lapses' /\ lapses' \subseteq {"raced", "overtaken"}
    BY <1>2, <1>4 DEF Install
  <2>3. active' \in Snapshots /\ active'.era = lives /\ registered' \in BOOLEAN
    BY <1>2, <2>1, <2>2 DEF Snapshots
  <2>4. ServedIsOfThisEpoch'
    BY <1>1, <2>1, <2>3 DEF ServedIsOfThisEpoch
  <2>5. PICK j : /\ Becomes(w, j)
                 /\ \/ j = NoJob
                    \/ Same(w, j) /\ IsAt(j, "unlock", 0, FALSE, 0, job[w].late, ok)
    BY <1>2, <1>4, AfterSetEffect
  <2>6. VersionsMatch' /\ versions' \in Seq(Writers \cup {Marker})
    BY <1>4, <2>5, VersionsInstalled DEF Inv
  <2>7. j \in Jobs
    BY <2>5 DEF Becomes
  <2>8. JobOK(w, j) /\ EraOK(j, epoch, lives)
    BY <1>0, <2>5, <2>7, OverFacts DEF IsAt
  <2>9. CASE j = NoJob
    <3>1. j.pc = "idle" /\ j.late = FALSE /\ j.kind = None
      BY <2>9, NoJobEffect DEF IsAt, IsFor
    <3>2. UNCHANGED acked /\ UNCHANGED retry
      BY <1>1 DEF outbox
    <3> QED
      BY <1>0, <1>1, <1>2, <1>4, <2>2, <2>3, <2>4, <2>5, <2>6, <2>8, <3>1, <3>2, QuietStep
         DEF None, Deciding
  <2>10. CASE Same(w, j) /\ IsAt(j, "unlock", 0, FALSE, 0, job[w].late, ok)
    BY <1>0, <1>1, <1>2, <1>4, <2>2, <2>3, <2>4, <2>5, <2>6, <2>8, <2>10, SameStep
       DEF IsAt, Deciding
  <2> QED
    BY <2>5, <2>9, <2>10
<1>5. Fault \/ UNCHANGED faults => faults' \in 0..MaxFaults
  BY FaultFacts DEF Inv, TypeInv
<1>6. (~job[w].strict) \in BOOLEAN /\ TRUE \in BOOLEAN /\ FALSE \in BOOLEAN
  OBVIOUS
<1> QED
  BY <1>3, <1>4, <1>5, <1>6 DEF ActivateSnapshotVersion

\* The job is over, whatever it was at: the bucket differs at most in the
\* writer's version, and what the group is owed has been handed on.
LEMMA EndStep ==
    ASSUME Inv, NEW w \in Writers, Becomes(w, NoJob),
           UNCHANGED <<database, epoch, retired, registered, active, lives>>,
           (versions' = versions /\ job[w].pc # "activate") \/ versions' = Without(w),
           acked' \in [Kinds -> Nat],
           \A k \in Kinds : acked[k] <= acked'[k] /\ acked'[k] <= changed[k],
           retry \subseteq retry', retry' \subseteq Kinds,
           lapses \subseteq lapses', lapses' \subseteq {"raced", "overtaken"},
           lock' \in Workers \cup {None, Left}, lease' \in Workers \cup {None, Left},
           faults' \in 0..MaxFaults,
           \A v \in Writers : v # w /\ lease' = v => lease = v,
           acked'["group"] = changed["group"] =>
             acked["group"] = changed["group"] \/ (w \in Pollers /\ Passed(w)) \/ "group" \in retry',
           w \in Workers /\ job[w].late => "group" \in retry' \/ "overtaken" \in lapses',
           w \in Retriers /\ job[w].kind = "group" => (job[w].ok /\ At(w, "end")) \/ "group" \in retry'
    PROVE  Inv'
<1>0. /\ TypeInv /\ EpochInv /\ GroupInv /\ TypeOK /\ group' = group /\ changed' = changed
      /\ lives \in Nat /\ epoch = lives + 1
  BY DEF Inv, TypeInv, TypeOK, EpochInv, database
<1>1. /\ registered' \in BOOLEAN /\ active' \in Snapshots
      /\ VersionsMatch' /\ versions' \in Seq(Writers \cup {Marker}) /\ ServedIsOfThisEpoch'
  BY BucketFrame
<1>2. /\ NoJob \in Jobs /\ NoJob.pc = "idle" /\ NoJob.late = FALSE /\ NoJob.kind = None
      /\ job'[w] = NoJob
  BY <1>0, NoJobEffect DEF IsAt, IsFor, Becomes, TypeOK
<1>3. JobOK(w, NoJob) /\ EraOK(NoJob, epoch, lives)
  BY <1>2, OverFacts
<1>4. TypeInv'
  <2>1. epoch' \in Nat /\ retired' \in BOOLEAN /\ lives' \in Nat
    BY <1>0 DEF TypeOK
  <2> QED
    BY <1>0, <1>1, <1>3, <2>1, TypeStep
<1>5. EpochInv'
  <2>1. lives <= lives' /\ epoch' = lives' + 1 /\ lives' \in Nat
    BY <1>0
  <2> QED
    BY <1>0, <1>1, <1>3, <2>1, EpochStep
<1>6. ~HasPlan(w)' /\ ~Passed(w)'
  BY <1>2 DEF HasPlan, Passed, Current, None
<1>7. "group" \in retry' \/ "overtaken" \in lapses' => Debt'
  BY DEF Debt
<1>8. TaskLeft(w) /\ w \in Retriers => Debt'
  BY <1>7 DEF TaskLeft, HasPlan, At
<1>9. InGoodHands => Debt' \/ InGoodHands'
  <2>1. w \in Retriers /\ lease = w /\ HasPlan(w) /\ job[w].kind = "group" => Debt'
    BY <1>7 DEF HasPlan, At
  <2> QED
    BY <1>0, <1>6, <2>1, GoodStep
<1>10. GroupInv'
  BY <1>0, <1>2, <1>6, <1>7, <1>8, <1>9, GroupStep
<1> QED
  BY <1>4, <1>5, <1>10 DEF Inv

LEMMA RequestEndsStep ==
    ASSUME Inv, NEW w \in Requests, RequestEnds(w)
    PROVE  Inv'
<1>0. w \in Writers /\ w \notin Workers /\ w \notin Pollers /\ w \notin Retriers
  BY ConstantsAssumption DEF Writers, Workers
<1>1. /\ UNCHANGED <<database, acked, retry, epoch, retired, registered, active, lives, lease,
                     lapses, lock, faults>>
      /\ versions' = Without(w)
  BY DEF RequestEnds, outbox
<1>2. Becomes(w, NoJob)
  BY NoJobEffect DEF RequestEnds, Becomes
<1>3. /\ acked \in [Kinds -> Nat] /\ retry \subseteq Kinds /\ lapses \subseteq {"raced", "overtaken"}
      /\ lock \in Workers \cup {None, Left} /\ lease \in Workers \cup {None, Left}
      /\ faults \in 0..MaxFaults
  BY DEF Inv, TypeInv, TypeOK
<1>4. \A k \in Kinds : acked[k] <= acked'[k] /\ acked'[k] <= changed[k]
  BY <1>1, ChangeFacts DEF Inv, TypeInv
<1> QED
  BY <1>0, <1>1, <1>2, <1>3, <1>4, EndStep

-----------------------------------------------------------------------------
(* The end of a job, and the death of a loop.                              *)

LEMMA LargerFacts ==
    ASSUME NEW m \in Nat, NEW n \in Nat
    PROVE  Larger(m, n) \in {m, n} /\ Larger(m, n) \in Nat /\ m <= Larger(m, n)
  BY DEF Larger

LEMMA EndFacts ==
    ASSUME Inv, NEW w \in Workers
    PROVE  /\ w \in Writers /\ job \in [Writers -> Jobs] /\ job[w] \in Jobs
           /\ job[w].upto \in [Kinds -> Nat] /\ job[w].first \in Nat /\ JobOK(w, job[w])
           /\ acked \in [Kinds -> Nat] /\ changed \in [Kinds -> Nat] /\ retry \subseteq Kinds
           /\ \A k \in Kinds : acked[k] <= acked[k] /\ acked[k] <= changed[k]
           /\ "group" \in Kinds /\ lapses \subseteq {"raced", "overtaken"}
           /\ lock \in Workers \cup {None, Left} /\ lease \in Workers \cup {None, Left}
           /\ faults \in 0..MaxFaults
           /\ job[w].late => \/ At(w, "release") /\ lease # w
                             \/ At(w, "end") /\ ~job[w].ok
           /\ w \in Pollers \cup Retriers /\ job[w].pc # "idle" => job[w].kind \in Kinds
<1>1. w \in Writers /\ TypeInv /\ TypeOK /\ GroupInv
  BY DEF Writers, Inv, TypeInv
<1>2. job \in [Writers -> Jobs] /\ job[w] \in Jobs /\ JobOK(w, job[w])
  BY <1>1, JobFacts
<1>3. \A k \in Kinds : acked[k] <= acked[k] /\ acked[k] <= changed[k]
  BY <1>1, ChangeFacts
<1>4. job[w].late => (At(w, "release") /\ lease # w) \/ (At(w, "end") /\ ~job[w].ok)
  BY <1>1 DEF GroupInv, LateFails
<1>5. w \in Pollers \cup Retriers /\ job[w].pc # "idle" => job[w].kind \in Kinds
  BY <1>2 DEF JobOK
<1> QED
  BY <1>1, <1>2, <1>3, <1>4, <1>5, JobFields DEF TypeOK, Kinds

LEMMA SucceedStep ==
    ASSUME Inv, NEW w \in Workers, Succeed(w)
    PROVE  Inv'
<1>0. At(w, "end") /\ job[w].ok /\ ~job[w].late /\ job[w].pc # "activate" /\ job[w].pc # "idle"
  BY EndFacts DEF Succeed, At
<1>1. /\ UNCHANGED <<database, retry, epoch, retired, registered, active, lives, lease, lapses,
                     lock, faults, versions>>
  BY DEF Succeed, bucket
<1>2. w \in Writers /\ Becomes(w, NoJob)
  BY EndFacts, NoJobEffect DEF Succeed, Becomes
<1>3. /\ acked' \in [Kinds -> Nat]
      /\ \A k \in Kinds : acked[k] <= acked'[k] /\ acked'[k] <= changed[k]
      /\ acked'["group"] = changed["group"] =>
           acked["group"] = changed["group"] \/ (w \in Pollers /\ Passed(w))
  <2>1. CASE w \in Pollers
    <3>1. acked' = [k \in Kinds |-> Larger(acked[k], job[w].upto[k])]
      BY <2>1 DEF Succeed, Acknowledge
    <3>2. \A k \in Kinds : /\ acked[k] \in Nat /\ changed[k] \in Nat /\ job[w].upto[k] \in Nat
                           /\ job[w].upto[k] <= changed[k] /\ acked[k] <= changed[k]
      BY EndFacts DEF JobOK
    <3>3. \A k \in Kinds : /\ acked'[k] \in {acked[k], job[w].upto[k]} /\ acked'[k] \in Nat
                           /\ acked[k] <= acked'[k]
      BY <3>1, <3>2, LargerFacts
    <3>4. acked' \in [Kinds -> Nat]
      <4>1. \A k \in Kinds : Larger(acked[k], job[w].upto[k]) \in Nat
        BY <3>2, LargerFacts
      <4> QED
        BY <3>1, <4>1
    <3>5. ASSUME acked'["group"] = changed["group"], acked["group"] # changed["group"]
          PROVE  Passed(w)
      <4>1. "group" \in Kinds /\ job[w].upto["group"] = changed["group"]
        BY <3>3, <3>5, EndFacts
      <4>2. job[w].kind \in Kinds /\ (job[w].kind = "account" => job[w].upto["group"] <= acked["group"])
        BY <1>0, <2>1, EndFacts DEF JobOK
      <4>3. job[w].kind # "account"
        BY <3>2, <3>5, <4>1, <4>2
      <4>4. job[w].kind = "group"
        BY <4>2, <4>3 DEF Kinds
      <4> QED
        BY <1>0, <4>1, <4>4 DEF Passed, Current
    <3> QED
      BY <2>1, <3>2, <3>3, <3>4, <3>5
  <2>2. CASE w \notin Pollers
    <3>1. acked' = acked
      BY <2>2 DEF Succeed
    <3> QED
      BY <3>1, EndFacts
  <2> QED
    BY <2>1, <2>2
<1>4. /\ retry \subseteq retry' /\ retry' \subseteq Kinds /\ lapses \subseteq lapses'
      /\ lapses' \subseteq {"raced", "overtaken"} /\ faults' \in 0..MaxFaults
      /\ lock' \in Workers \cup {None, Left} /\ lease' \in Workers \cup {None, Left}
  BY <1>1, EndFacts
<1> QED
  BY <1>0, <1>1, <1>2, <1>3, <1>4, EndStep

\* An event, a task or a full rebuild has failed.
LEMMA FailStep ==
    ASSUME Inv, NEW w \in Workers,
           \/ w \in Pollers /\ FailEvent(w)
           \/ w \in Retriers /\ FailRetry(w)
           \/ w \in Rebuilders /\ FailFullRebuild(w)
    PROVE  Inv'
<1>0. At(w, "end") /\ ~job[w].ok /\ job[w].pc # "activate" /\ job[w].pc # "idle"
  BY DEF FailEvent, FailRetry, FailFullRebuild, At
<1>1. /\ UNCHANGED <<database, epoch, retired, registered, active, lives, lease, lock, versions>>
  BY DEF FailEvent, FailRetry, FailFullRebuild, bucket
<1>2. w \in Writers /\ Becomes(w, NoJob)
  BY EndFacts, NoJobEffect DEF FailEvent, FailRetry, FailFullRebuild, Becomes
<1>3. faults' \in 0..MaxFaults
  <2>1. faults' = faults \/ Fault
    BY DEF FailEvent, FailRetry, FailFullRebuild
  <2> QED
    BY <2>1, FaultFacts DEF Inv, TypeInv
<1>4. lapses \subseteq lapses' /\ lapses' \subseteq {"raced", "overtaken"}
  <2>1. Overtaken(w, job[w].kind = "group") \/ Overtaken(w, FALSE)
    BY DEF FailEvent, FailRetry, FailFullRebuild
  <2> QED
    BY <2>1, EndFacts DEF Overtaken
<1>5. lock' \in Workers \cup {None, Left} /\ lease' \in Workers \cup {None, Left}
  BY <1>1, EndFacts
<1>6. ASSUME retry' = retry \cup {job[w].kind}, w \in Pollers \cup Retriers,
             Overtaken(w, job[w].kind = "group"),
             acked' = acked \/ AcknowledgeFirst(w)
      PROVE  Inv'
  <2>1. job[w].kind \in Kinds
    BY <1>0, <1>6, EndFacts
  <2>2. /\ acked' \in [Kinds -> Nat]
        /\ \A k \in Kinds : acked[k] <= acked'[k] /\ acked'[k] <= changed[k]
        /\ job[w].kind # "group" => acked'["group"] = acked["group"]
    <3>1. CASE acked' = acked
      BY <3>1, EndFacts
    <3>2. CASE AcknowledgeFirst(w)
      <4> DEFINE kind == job[w].kind
                 top == Larger(acked[kind], job[w].first)
      <4>1. acked' = [acked EXCEPT ![kind] = top]
        BY <3>2 DEF AcknowledgeFirst
      <4>2. /\ acked[kind] \in Nat /\ job[w].first \in Nat /\ job[w].first <= changed[kind]
            /\ acked[kind] <= changed[kind]
        BY <2>1, EndFacts DEF JobOK
      <4>3. top \in Nat /\ acked[kind] <= top /\ top <= changed[kind]
        BY <4>2, LargerFacts
      <4> HIDE DEF top
      <4>4. kind \in Kinds
        BY <2>1
      <4> HIDE DEF kind
      <4>5. acked' \in [Kinds -> Nat] /\ \A k \in Kinds : acked'[k] = IF k = kind THEN top ELSE acked[k]
        BY <4>1, <4>3, <4>4, EndFacts
      <4>6. \A k \in Kinds : acked[k] <= acked'[k] /\ acked'[k] <= changed[k]
        BY <4>3, <4>5, EndFacts
      <4>7. kind # "group" => acked'["group"] = acked["group"]
        BY <4>5 DEF Kinds
      <4> QED
        BY <4>5, <4>6, <4>7 DEF kind
    <3> QED
      BY <1>6, <3>1, <3>2
  <2>3. retry \subseteq retry' /\ retry' \subseteq Kinds
    BY <1>6, <2>1, EndFacts
  <2>4. job[w].kind = "group" => "group" \in retry'
    BY <1>6
  <2>5. job[w].late => "group" \in retry' \/ "overtaken" \in lapses'
    BY <1>6, <2>4 DEF Overtaken
  <2> QED
    BY <1>0, <1>1, <1>2, <1>3, <1>4, <1>5, <2>2, <2>3, <2>4, <2>5, EndStep
<1>7. ASSUME UNCHANGED outbox, w \notin Retriers, Overtaken(w, FALSE)
      PROVE  Inv'
  <2>1. acked' = acked /\ retry' = retry
    BY <1>7 DEF outbox
  <2>2. job[w].late => "overtaken" \in lapses'
    BY <1>7 DEF Overtaken
  <2>3. /\ acked' \in [Kinds -> Nat] /\ retry \subseteq retry' /\ retry' \subseteq Kinds
        /\ \A k \in Kinds : acked[k] <= acked'[k] /\ acked'[k] <= changed[k]
    BY <2>1, EndFacts
  <2> QED
    BY <1>0, <1>1, <1>2, <1>3, <1>4, <1>5, <1>7, <2>1, <2>2, <2>3, EndStep
<1>8. CASE w \in Pollers /\ FailEvent(w)
  <2>1. w \notin Retriers
    BY <1>8, ConstantsAssumption
  <2> QED
    BY <1>6, <1>7, <1>8, <2>1 DEF FailEvent
<1>9. CASE w \in Retriers /\ FailRetry(w)
  BY <1>6, <1>9 DEF FailRetry
<1>10. CASE w \in Rebuilders /\ FailFullRebuild(w)
  <2>1. w \notin Retriers
    BY <1>10, ConstantsAssumption
  <2> QED
    BY <1>7, <1>10, <2>1 DEF FailFullRebuild
<1> QED
  BY <1>8, <1>9, <1>10

LEMMA CrashStep ==
    ASSUME Inv, NEW w \in Workers, Crash(w)
    PROVE  Inv'
<1>0. job[w].pc # "idle" /\ w # None /\ w # Left /\ w \in Writers
  BY EndFacts, ConstantsAssumption DEF Crash, At
<1>1. /\ UNCHANGED <<database, acked, epoch, retired, registered, active, lives>>
      /\ versions' = Without(w)
  BY DEF Crash
<1>2. Becomes(w, NoJob)
  BY NoJobEffect DEF Crash, Becomes
<1>3. faults' \in 0..MaxFaults
  BY FaultFacts DEF Inv, TypeInv, Crash
<1>4. lapses \subseteq lapses' /\ lapses' \subseteq {"raced", "overtaken"}
  BY EndFacts DEF Crash, Overtaken
<1>5. /\ lock' \in Workers \cup {None, Left} /\ lease' \in Workers \cup {None, Left}
  BY EndFacts DEF Crash
<1>6. ASSUME NEW v \in Writers, lease' = v
      PROVE  lease = v
  <2>1. v # Left
    BY ConstantsAssumption
  <2> QED
    BY <1>6, <2>1 DEF Crash
<1>7. retry \subseteq retry' /\ retry' \subseteq Kinds
  BY <1>0, EndFacts DEF Crash
<1>8. w \in Retriers /\ job[w].kind = "group" => "group" \in retry'
  BY DEF Crash
<1>9. job[w].late => "group" \in retry' \/ "overtaken" \in lapses'
  BY <1>8 DEF Crash, Overtaken
<1>10. /\ acked' \in [Kinds -> Nat]
       /\ \A k \in Kinds : acked[k] <= acked'[k] /\ acked'[k] <= changed[k]
  BY <1>1, EndFacts
<1> QED
  BY <1>0, <1>1, <1>2, <1>3, <1>4, <1>5, <1>6, <1>7, <1>8, <1>9, <1>10, EndStep

-----------------------------------------------------------------------------
(* The group's lifecycle.                                                  *)

\* A step on the way to the decision or away from it.
LEMMA WayStep ==
    ASSUME Inv, NEW w \in Workers, NEW j, Becomes(w, j), Same(w, j), j.late = job[w].late,
           job[w].pc \in {"lease"} \cup Deciding, j.pc \in {"decide", "release", "lock", "end"},
           UNCHANGED <<database, outbox, epoch, retired, registered, active, lives, lapses, lock>>,
           versions' = versions \/ versions' = Without(w), faults' \in 0..MaxFaults,
           j.token <= epoch, j.era <= lives, ~j.shared,
           lease' \in Workers \cup {None, Left},
           \A v \in Writers : v # w /\ lease' = v => lease = v,
           j.late => j.pc = "end" /\ ~j.ok,
           j.pc = "lock" \/ (j.pc \in {"release", "end"} /\ j.ok) =>
             At(w, "release") /\ job[w].ok /\ lease = w
    PROVE  Inv'
<1>0. /\ TypeInv /\ EpochInv /\ GroupInv /\ TypeOK /\ group' = group /\ changed' = changed
      /\ acked' = acked /\ retry' = retry /\ lives \in Nat /\ epoch = lives + 1 /\ w \in Writers
      /\ job[w].pc # "activate" /\ job[w].pc # "idle" /\ job[w] \in Jobs
  BY EndFacts DEF Inv, TypeInv, TypeOK, EpochInv, database, outbox, Deciding
<1>1. /\ registered' \in BOOLEAN /\ active' \in Snapshots
      /\ VersionsMatch' /\ versions' \in Seq(Writers \cup {Marker}) /\ ServedIsOfThisEpoch'
  BY <1>0, BucketFrame
<1>2. job'[w] = j /\ j.kind = job[w].kind /\ j.upto = job[w].upto
  BY <1>0 DEF Becomes, TypeOK, Same, IsFor
<1>3. JobOK(w, j)
  BY <1>0, EndFacts DEF JobOK, Same, IsFor
<1>4. EraOK(j, epoch, lives)
  BY DEF EraOK, Publishing
<1>5. TypeInv'
  <2>1. /\ acked' \in [Kinds -> Nat] /\ retry' \subseteq Kinds /\ epoch' \in Nat
        /\ retired' \in BOOLEAN /\ lives' \in Nat /\ lock' \in Workers \cup {None, Left}
        /\ lapses' \subseteq {"raced", "overtaken"}
    BY <1>0 DEF TypeOK
  <2>2. \A k \in Kinds : acked[k] <= acked'[k] /\ acked'[k] <= changed[k]
    BY <1>0, EndFacts
  <2> QED
    BY <1>0, <1>1, <1>3, <2>1, <2>2, TypeStep
<1>6. EpochInv'
  <2>1. lives <= lives' /\ epoch' = lives' + 1 /\ lives' \in Nat
    BY <1>0
  <2> QED
    BY <1>0, <1>1, <1>4, <2>1, EpochStep
<1>7. ~HasPlan(w)'
  BY <1>2 DEF HasPlan
<1>8. Passed(w)' => Passed(w)
  BY <1>0, <1>2 DEF Passed, Current, At, Publishing
<1>9. ASSUME w \in Retriers, TaskLeft(w) \/ (HasPlan(w) /\ job[w].kind = "group")
      PROVE  Debt'
  <2>1. ~(At(w, "release") /\ job[w].ok /\ lease = w)
    BY <1>9 DEF TaskLeft, HasPlan, At
  <2>2. TaskLeft(w)'
    BY <1>2, <1>9, <2>1 DEF TaskLeft, At
  <2> QED
    BY <1>9, <2>2 DEF Debt
<1>10. "group" \in retry \/ "overtaken" \in lapses \/ job[w].late => Debt'
  BY <1>0, <1>2 DEF Debt
<1>11. InGoodHands => Debt' \/ InGoodHands'
  BY <1>0, <1>7, <1>9, GoodStep
<1>12. GroupInv'
  BY <1>0, <1>7, <1>8, <1>9, <1>10, <1>11, GroupStep
<1> QED
  BY <1>5, <1>6, <1>12 DEF Inv

LEMMA LifecycleFacts ==
    ASSUME Inv, NEW w \in Workers, job[w].pc \in {"lease"} \cup Deciding
    PROVE  /\ job[w].token \in Nat /\ job[w].era \in Nat /\ lives \in Nat /\ epoch = lives + 1
           /\ job[w].token <= epoch /\ job[w].era <= lives /\ job[w].shared = FALSE
           /\ job[w].ok \in BOOLEAN /\ 0 <= epoch /\ 0 <= lives
           /\ w # None /\ w # Left
           /\ job[w].pc # "release" => job[w].late = FALSE
<1>1. w \in Writers /\ job[w] \in Jobs
  BY EndFacts
<1>2. EraOK(job[w], epoch, lives) /\ lives \in Nat /\ epoch = lives + 1
  BY <1>1 DEF Inv, EpochInv, EraOK, TypeInv, TypeOK
<1>3. job[w].shared = FALSE
  BY <1>1, <1>2, JobFields DEF EraOK, Publishing, Deciding
<1>4. job[w].pc # "release" => job[w].late = FALSE
  BY <1>1, EndFacts, JobFields DEF At, Deciding
<1> QED
  BY <1>1, <1>2, <1>3, <1>4, JobFields, ConstantsAssumption DEF EraOK

LEMMA LeaseStep ==
    ASSUME Inv, NEW w \in Workers,
           TryAcquireGroupLifecycleLease(w) \/ ReleaseGroupLifecycleLease(w)
    PROVE  Inv'
<1>0. job[w].pc \in {"lease", "release"} /\ job[w].pc \in {"lease"} \cup Deciding /\ w \in Writers
  BY EndFacts DEF TryAcquireGroupLifecycleLease, ReleaseGroupLifecycleLease, At, Deciding
<1>1. UNCHANGED <<database, outbox, epoch, retired, registered, active, lives, lapses, lock, versions,
                  faults>>
  BY DEF TryAcquireGroupLifecycleLease, ReleaseGroupLifecycleLease, bucket
<1>2. /\ lease' \in Workers \cup {None, Left} /\ faults' \in 0..MaxFaults
      /\ \A v \in Writers : v # w /\ lease' = v => lease = v
  <2>1. lease' \in {lease, w, None} /\ None \notin Writers
    BY ConstantsAssumption DEF TryAcquireGroupLifecycleLease, ReleaseGroupLifecycleLease
  <2> QED
    BY <1>1, <2>1, EndFacts
<1>3. CASE Goto(w, "decide") /\ job[w].pc = "lease"
  <2>1. "decide" \in Steps
    BY DEF Steps
  <2>2. PICK j : /\ Becomes(w, j) /\ Same(w, j)
                 /\ IsAt(j, "decide", job[w].token, job[w].shared, job[w].era, job[w].late, job[w].ok)
    BY <1>0, <1>3, <2>1, EndFacts, GotoEffect
  <2> QED
    BY <1>0, <1>1, <1>2, <1>3, <2>2, LifecycleFacts, WayStep DEF IsAt
<1>4. CASE Ends(w, FALSE)
  <2>1. PICK j : /\ Becomes(w, j) /\ Same(w, j) /\ IsAt(j, "end", 0, FALSE, 0, job[w].late, FALSE)
    BY <1>0, <1>4, EndFacts, EndsEffect
  <2> QED
    BY <1>0, <1>1, <1>2, <2>1, LifecycleFacts, WayStep DEF IsAt
<1>5. CASE Ends(w, TRUE) /\ At(w, "release") /\ job[w].ok /\ lease = w
  <2>1. PICK j : /\ Becomes(w, j) /\ Same(w, j) /\ IsAt(j, "end", 0, FALSE, 0, job[w].late, TRUE)
    BY <1>0, <1>5, EndFacts, EndsEffect
  <2>2. ~job[w].late
    BY <1>5, EndFacts DEF At
  <2> QED
    BY <1>0, <1>1, <1>2, <1>5, <2>1, <2>2, LifecycleFacts, WayStep DEF IsAt
<1>6. CASE Goto(w, "lock") /\ At(w, "release") /\ job[w].ok /\ lease = w
  <2>1. "lock" \in Steps
    BY DEF Steps
  <2>2. PICK j : /\ Becomes(w, j) /\ Same(w, j)
                 /\ IsAt(j, "lock", job[w].token, job[w].shared, job[w].era, job[w].late, job[w].ok)
    BY <1>0, <1>6, <2>1, EndFacts, GotoEffect
  <2>3. ~job[w].late
    BY <1>6, EndFacts DEF At
  <2> QED
    BY <1>0, <1>1, <1>2, <1>6, <2>2, <2>3, LifecycleFacts, WayStep DEF IsAt
<1> QED
  BY <1>3, <1>4, <1>5, <1>6 DEF TryAcquireGroupLifecycleLease, ReleaseGroupLifecycleLease, At

\* Whoever holds the lease when it reads the group's status is right until the
\* next change.
LEMMA GetGroupStep ==
    ASSUME Inv, NEW w \in Workers, GetGroup(w)
    PROVE  Inv'
<1>0. /\ TypeInv /\ EpochInv /\ GroupInv /\ TypeOK /\ w \in Writers
      /\ At(w, "decide") /\ job[w].pc \in {"lease"} \cup Deciding /\ job[w].pc # "activate"
      /\ lives \in Nat /\ epoch = lives + 1
  BY EndFacts DEF Inv, TypeInv, TypeOK, EpochInv, GetGroup, At, Deciding
<1>1. /\ UNCHANGED <<database, acked, retry, epoch, retired, registered, active, lives, lapses, lock, versions,
                  faults, lease>>
      /\ group' = group /\ changed' = changed
  BY DEF GetGroup, bucket, outbox, database
<1> DEFINE pc == IF group = "active" THEN "reopen" ELSE "retire"
<1>2. Goto(w, pc) /\ pc \in Steps
  BY DEF GetGroup, Steps
<1>3. PICK j : /\ Becomes(w, j) /\ Same(w, j)
               /\ IsAt(j, pc, job[w].token, job[w].shared, job[w].era, job[w].late, job[w].ok)
  BY <1>0, <1>2, EndFacts, GotoEffect
<1>4. /\ job'[w] = j /\ j.kind = job[w].kind /\ j.upto = job[w].upto /\ j.pc = pc
      /\ j.late = FALSE /\ j.shared = FALSE
  BY <1>0, <1>3, LifecycleFacts DEF Becomes, TypeOK, Same, IsFor, IsAt, At
<1>5. JobOK(w, j) /\ EraOK(j, epoch, lives)
  <2>1. JobOK(w, j)
    BY <1>0, <1>3, <1>4, EndFacts DEF JobOK, Same, IsFor, At
  <2>2. EraOK(j, epoch, lives)
    BY <1>0, <1>3, LifecycleFacts DEF EraOK, IsAt, Publishing
  <2> QED
    BY <2>1, <2>2
<1>6. /\ registered' \in BOOLEAN /\ active' \in Snapshots
      /\ VersionsMatch' /\ versions' \in Seq(Writers \cup {Marker}) /\ ServedIsOfThisEpoch'
  BY <1>0, <1>1, <1>3, BucketFrame
<1>7. TypeInv'
  <2>1. /\ acked' \in [Kinds -> Nat] /\ retry' \subseteq Kinds /\ epoch' \in Nat
        /\ retired' \in BOOLEAN /\ lives' \in Nat /\ lock' \in Workers \cup {None, Left}
        /\ lapses' \subseteq {"raced", "overtaken"} /\ lease' \in Workers \cup {None, Left}
        /\ faults' \in 0..MaxFaults
    BY <1>0, <1>1 DEF TypeOK
  <2>2. \A k \in Kinds : acked[k] <= acked'[k] /\ acked'[k] <= changed[k]
    BY <1>1, EndFacts
  <2> QED
    BY <1>0, <1>1, <1>3, <1>5, <1>6, <2>1, <2>2, TypeStep
<1>8. EpochInv'
  <2>1. lives <= lives' /\ epoch' = lives' + 1 /\ lives' \in Nat /\ epoch' = epoch /\ lives' = lives
    BY <1>0, <1>1
  <2> QED
    BY <1>0, <1>3, <1>5, <1>6, <2>1, EpochStep
<1>9. HasPlan(w)' /\ PlanIsRight(w)' /\ ~HasPlan(w) /\ ~Passed(w)'
  <2>1. group \in {"active", "inactive"}
    BY <1>0 DEF TypeOK
  <2> QED
    BY <1>0, <1>1, <1>4, <2>1 DEF HasPlan, PlanIsRight, Passed, At, Publishing
<1>10. "group" \in retry \/ "overtaken" \in lapses => Debt'
  BY <1>1 DEF Debt
<1>11. ASSUME w \in Retriers, TaskLeft(w)
       PROVE  Debt' \/ InGoodHands'
  <2>1. j.kind = "group"
    BY <1>4, <1>11 DEF TaskLeft
  <2>2. CASE lease # w
    BY <1>1, <1>4, <1>9, <1>11, <2>1, <2>2 DEF Debt, TaskLeft
  <2>3. CASE lease = w
    BY <1>1, <1>4, <1>9, <1>11, <2>1, <2>3 DEF InGoodHands
  <2> QED
    BY <2>2, <2>3
<1>12. InGoodHands => Debt' \/ InGoodHands'
  BY <1>0, <1>1, <1>3, <1>9, GoodStep
<1>13. job[w].late = FALSE
  BY <1>0, LifecycleFacts DEF At
<1>14. GroupInv'
  BY <1>0, <1>1, <1>3, <1>4, <1>9, <1>10, <1>11, <1>12, <1>13, GroupStep
<1> QED
  BY <1>7, <1>8, <1>14 DEF Inv

\* The decision: right when the lease was kept, and otherwise known to be late.
LEMMA DecideStep ==
    ASSUME Inv, NEW w \in Workers, RetireBucket(w) \/ ReopenBucket(w)
    PROVE  Inv'
<1>0. /\ TypeInv /\ EpochInv /\ GroupInv /\ TypeOK /\ w \in Writers
      /\ HasPlan(w) /\ job[w].pc \in {"lease"} \cup Deciding /\ job[w].pc # "activate"
      /\ job[w].pc # "release" /\ job[w].pc # "idle" /\ lives \in Nat /\ epoch = lives + 1
  BY EndFacts DEF Inv, TypeInv, TypeOK, EpochInv, RetireBucket, ReopenBucket, At, Deciding, HasPlan
<1>1. /\ UNCHANGED <<database, acked, retry, lapses, lock, lease>>
      /\ group' = group /\ changed' = changed
  BY DEF RetireBucket, ReopenBucket, outbox, database
<1>2. PICK ok \in BOOLEAN :
        /\ IF ok THEN UNCHANGED faults ELSE Fault
        /\ job' = [job EXCEPT ![w].pc = "release", ![w].ok = ok, ![w].late = (lease # w),
                              ![w].token = IF retired' THEN 0 ELSE epoch', ![w].strict = TRUE]
  BY DEF RetireBucket, ReopenBucket, Decided
<1>3. faults' \in 0..MaxFaults
  <2>1. Fault \/ UNCHANGED faults
    BY <1>2
  <2> QED
    BY <1>0, <2>1, FaultFacts
<1>4. /\ lives' \in Nat /\ lives <= lives' /\ epoch' = lives' + 1 /\ retired' \in BOOLEAN
      /\ registered' \in BOOLEAN /\ active' \in Snapshots /\ epoch' \in Nat
      /\ retired' <=> At(w, "retire")
  <2>0. Larger(1, epoch) = epoch
    BY <1>0 DEF Larger
  <2>1. NoSnapshot \in Snapshots
    BY <1>0 DEF NoSnapshot, Snapshots
  <2>2. CASE RetireBucket(w)
    <3>1. /\ retired' = TRUE /\ registered' = FALSE /\ active' = NoSnapshot
          /\ epoch' = (IF retired THEN epoch ELSE epoch + 1)
          /\ lives' = (IF retired THEN lives ELSE lives + 1) /\ At(w, "retire")
      BY <2>2 DEF RetireBucket
    <3>2. lives \in Nat /\ epoch = lives + 1
      BY <1>0
    <3>3. lives' \in Nat /\ lives <= lives' /\ epoch' = lives' + 1 /\ epoch' \in Nat
      BY <3>1, <3>2
    <3>4. retired' <=> At(w, "retire")
      BY <3>1, Zenon
    <3>5. retired' \in BOOLEAN /\ registered' \in BOOLEAN /\ active' \in Snapshots
      BY <2>1, <3>1
    <3> QED
      BY <3>3, <3>4, <3>5, Zenon
  <2>3. CASE ReopenBucket(w)
    <3>1. /\ retired' = FALSE /\ registered' = (registered /\ ~retired)
          /\ active' = (IF retired THEN NoSnapshot ELSE active)
          /\ epoch' = epoch /\ lives' = lives /\ At(w, "reopen")
      BY <2>0, <2>3 DEF ReopenBucket
    <3>2. (registered /\ ~retired) \in BOOLEAN
      OBVIOUS
    <3>3. active' \in Snapshots
      BY <1>0, <2>1, <3>1 DEF TypeOK
    <3>4. ~At(w, "retire")
      BY <3>1 DEF At
    <3>5. lives' \in Nat /\ lives <= lives' /\ epoch' = lives' + 1 /\ epoch' \in Nat
      BY <1>0, <3>1
    <3>6. registered' \in BOOLEAN
      BY <3>1, <3>2
    <3> QED
      BY <3>1, <3>3, <3>4, <3>5, <3>6
  <2> QED
    BY <2>2, <2>3
<1> DEFINE i == job[w]
           late == lease # w
           token == IF retired' THEN 0 ELSE epoch'
           j == [i EXCEPT !.pc = "release", !.ok = ok, !.late = late, !.token = token,
                          !.strict = TRUE]
<1>5. job' = [job EXCEPT ![w] = j] /\ i \in Jobs /\ late \in BOOLEAN /\ token \in Nat /\ token <= epoch'
  <2>1. job' = [job EXCEPT ![w] = j]
    BY <1>2
  <2>2. late \in BOOLEAN
    OBVIOUS
  <2>3. token \in Nat /\ token <= epoch'
    <3>1. epoch' \in Nat
      BY <1>4, Zenon
    <3>2. token \in {0, epoch'}
      OBVIOUS
    <3>3. 0 \in Nat /\ 0 <= epoch' /\ epoch' <= epoch'
      BY <3>1
    <3> HIDE DEF token
    <3> QED
      BY <3>1, <3>2, <3>3
  <2> QED
    BY <2>1, <2>2, <2>3, EndFacts
<1> HIDE DEF i, late, token
<1>6. /\ j \in Jobs /\ IsFor(j, i.kind, i.first, i.upto)
      /\ IsAt(j, "release", token, i.shared, i.era, late, ok)
  BY <1>5 DEF Jobs, Steps, IsFor, IsAt
<1> HIDE DEF j
<1>7. Becomes(w, j) /\ Same(w, j) /\ job'[w] = j
  BY <1>0, <1>5, <1>6 DEF Becomes, Same, i, TypeOK
<1>8. /\ j.kind = job[w].kind /\ j.upto = job[w].upto /\ j.pc = "release"
      /\ j.late = (lease # w) /\ j.ok = ok /\ j.token <= epoch' /\ j.shared = FALSE
      /\ j.era <= lives
  BY <1>0, <1>5, <1>6, LifecycleFacts DEF IsFor, IsAt, i, late
<1>9. JobOK(w, j) /\ EraOK(j, epoch', lives')
  <2>1. JobOK(w, j)
    BY <1>0, <1>7, <1>8, EndFacts DEF JobOK, Same, IsFor
  <2>2. j.era <= lives'
    BY <1>0, <1>4, <1>6, <1>8, JobFields
  <2>3. EraOK(j, epoch', lives')
    BY <1>8, <2>2 DEF EraOK, Publishing
  <2> QED
    BY <2>1, <2>3
<1>10. /\ VersionsMatch' /\ versions' \in Seq(Writers \cup {Marker}) /\ ServedIsOfThisEpoch'
  <2>1. CASE versions' = Without(Marker)
    <3>1. VersionsMatch' /\ versions' \in Seq(Writers \cup {Marker})
      BY <1>0, <1>7, <2>1, VersionsStep
    <3>2. \A k \in DOMAIN versions' : versions'[k] # Marker
      BY <1>0, <2>1, WithoutEffect DEF TypeInv
    <3>3. ~Published'
      BY <3>2 DEF Published, InUse
    <3> QED
      BY <3>1, <3>3 DEF ServedIsOfThisEpoch
  <2>2. CASE versions' = versions /\ UNCHANGED <<retired, active, lives>>
    <3>1. VersionsMatch' /\ versions' \in Seq(Writers \cup {Marker}) /\ (Published' => Published)
      BY <1>0, <1>7, <2>2, VersionsStep
    <3> QED
      BY <1>0, <2>2, <3>1, ServedFrame
  <2>3. ASSUME ReopenBucket(w), ~retired
        PROVE  versions' = versions /\ UNCHANGED <<retired, active, lives>>
    <3>1. retired \in BOOLEAN
      BY <1>0 DEF TypeOK
    <3> QED
      BY <2>3, <3>1 DEF ReopenBucket
  <2> QED
    BY <2>1, <2>2, <2>3 DEF RetireBucket, ReopenBucket
<1>11. TypeInv'
  <2>1. /\ acked' \in [Kinds -> Nat] /\ retry' \subseteq Kinds /\ lock' \in Workers \cup {None, Left}
        /\ lapses' \subseteq {"raced", "overtaken"} /\ lease' \in Workers \cup {None, Left}
    BY <1>0, <1>1 DEF TypeOK
  <2>2. \A k \in Kinds : acked[k] <= acked'[k] /\ acked'[k] <= changed[k]
    BY <1>1, EndFacts
  <2> QED
    BY <1>0, <1>1, <1>3, <1>4, <1>7, <1>9, <1>10, <2>1, <2>2, TypeStep
<1>12. EpochInv'
  BY <1>0, <1>4, <1>7, <1>9, <1>10, EpochStep
<1>13. PlanIsRight(w) => Settled'
  BY <1>1, <1>4 DEF PlanIsRight, Settled
<1>14. ~HasPlan(w)'
  BY <1>7, <1>8 DEF HasPlan
<1>15. lease = w /\ PlanIsRight(w) => InGoodHands'
  BY <1>1, <1>13, <1>14 DEF InGoodHands
<1>16. lease # w => Debt'
  BY <1>7, <1>8 DEF Debt
<1>17. InGoodHands => Debt' \/ InGoodHands'
  BY <1>0, <1>15, <1>16 DEF InGoodHands
<1>18. w \in Pollers /\ Passed(w)' => InGoodHands'
  <2> SUFFICES ASSUME w \in Pollers, Passed(w)'
               PROVE  InGoodHands'
    OBVIOUS
  <2>1. lease = w /\ Current(w)
    BY <1>1, <1>7, <1>8 DEF Passed, Current, At, Publishing
  <2>2. PlanIsRight(w)
    BY <1>0, <2>1 DEF GroupInv
  <2> QED
    BY <1>15, <2>1, <2>2
<1>19. "group" \in retry \/ "overtaken" \in lapses => Debt'
  BY <1>1 DEF Debt
<1>20. TaskLeft(w) => Debt'
  BY <1>0, <1>16 DEF TaskLeft, HasPlan, At
<1>21. job[w].late = FALSE
  BY <1>0, LifecycleFacts
<1>22. GroupInv'
  BY <1>0, <1>1, <1>7, <1>8, <1>14, <1>17, <1>18, <1>19, <1>20, <1>21, GroupStep
<1> QED
  BY <1>11, <1>12, <1>22 DEF Inv

-----------------------------------------------------------------------------
(* Failing calls, and what happens by itself.                              *)

LEMMA CallFailsStep ==
    ASSUME Inv, NEW w \in Workers, CallFails(w)
    PROVE  Inv'
<1>0. /\ w \in Writers /\ job \in [Writers -> Jobs] /\ Left \notin Writers /\ None \notin Writers
      /\ versions' = Without(w) /\ faults' \in 0..MaxFaults
      /\ UNCHANGED <<database, outbox, epoch, retired, registered, active, lives, lapses>>
  BY EndFacts, FaultFacts, ConstantsAssumption DEF CallFails, Inv, TypeInv
<1>1. ASSUME job[w].pc \in {"list", "groups", "capture", "lock"}, Ends(w, FALSE), UNCHANGED lease,
             lock' \in {lock, None, Left}
      PROVE  Inv'
  <2>1. PICK j : /\ Becomes(w, j) /\ Same(w, j) /\ IsAt(j, "end", 0, FALSE, 0, job[w].late, FALSE)
    BY <1>0, <1>1, EndsEffect
  <2>2. lock' \in Workers \cup {None, Left} /\ job[w].pc \notin Deciding \cup {"lease", "end", "idle"}
    BY <1>1, EndFacts DEF Deciding
  <2> QED
    BY <1>0, <1>1, <2>1, <2>2, OverStep DEF IsAt
<1>2. ASSUME job[w].pc \in {"load"} \cup Publishing, AfterSet(w, FALSE), UNCHANGED <<lock, lease>>
      PROVE  Inv'
  BY <1>0, <1>2, AfterSetStep
<1>3. ASSUME job[w].pc \in {"lease", "release"}, Ends(w, FALSE), UNCHANGED lock,
             lease' \in {lease, Left}
      PROVE  Inv'
  <2>1. PICK j : /\ Becomes(w, j) /\ Same(w, j) /\ IsAt(j, "end", 0, FALSE, 0, job[w].late, FALSE)
    BY <1>0, <1>3, EndsEffect
  <2>2. /\ lease' \in Workers \cup {None, Left} /\ job[w].pc \in {"lease"} \cup Deciding
        /\ \A v \in Writers : v # w /\ lease' = v => lease = v
    BY <1>0, <1>3, EndFacts DEF Deciding
  <2> QED
    BY <1>0, <1>3, <2>1, <2>2, LifecycleFacts, WayStep DEF IsAt
<1>4. ASSUME job[w].pc \in {"decide", "reopen", "retire"}, UNCHANGED <<lock, lease>>,
             job' = [job EXCEPT ![w].pc = "release", ![w].ok = FALSE]
      PROVE  Inv'
  <2> DEFINE i == job[w]
             j == [i EXCEPT !.pc = "release", !.ok = FALSE]
  <2>1. job' = [job EXCEPT ![w] = j] /\ i \in Jobs
    BY <1>0, <1>4
  <2> HIDE DEF i
  <2>2. /\ j \in Jobs /\ IsFor(j, i.kind, i.first, i.upto)
        /\ IsAt(j, "release", i.token, i.shared, i.era, i.late, FALSE)
    BY <2>1 DEF Jobs, Steps, IsFor, IsAt
  <2> HIDE DEF j
  <2>3. Becomes(w, j) /\ Same(w, j)
    BY <2>1, <2>2 DEF Becomes, Same, i
  <2>4. IsAt(j, "release", job[w].token, job[w].shared, job[w].era, job[w].late, FALSE)
    BY <2>2 DEF i
  <2>5. /\ lease' \in Workers \cup {None, Left} /\ job[w].pc \in {"lease"} \cup Deciding
        /\ job[w].pc # "release"
    BY <1>4, EndFacts DEF Deciding
  <2>6. j.pc = "release" /\ j.token <= epoch /\ j.era <= lives /\ ~j.shared /\ ~j.late
        /\ j.late = job[w].late /\ j.ok = FALSE
    BY <2>4, <2>5, LifecycleFacts DEF IsAt
  <2> QED
    BY <1>0, <1>4, <2>3, <2>5, <2>6, WayStep
<1> QED
  BY <1>1, <1>2, <1>3, <1>4 DEF CallFails, At, Publishing

\* Locks and leases run out: nothing else changes.
LEMMA ExpiryStep ==
    ASSUME Inv, LockExpires \/ LeaseExpires \/ HolderStalls
    PROVE  Inv'
<1>0. /\ TypeInv /\ EpochInv /\ GroupInv /\ TypeOK
      /\ UNCHANGED <<group, members, changed, acked, retry, epoch, retired, registered, active, versions,
                     lives, job, lapses>>
  BY DEF Inv, TypeInv, LockExpires, LeaseExpires, HolderStalls, database, outbox, bucket
<1>1. /\ lock' \in {lock, None} /\ lease' \in {lease, None} /\ None \notin Writers
  BY ConstantsAssumption DEF LockExpires, LeaseExpires, HolderStalls
<1>2. faults' \in 0..MaxFaults
  <2>1. Fault \/ UNCHANGED faults
    BY DEF LockExpires, LeaseExpires, HolderStalls
  <2> QED
    BY <1>0, <2>1, FaultFacts
<1>3. TypeInv'
  <2>1. TypeOK'
    BY <1>0, <1>1, <1>2 DEF TypeOK
  <2>2. JobsMatch' /\ VersionsMatch'
    BY <1>0 DEF TypeInv, JobsMatch, VersionsMatch, At
  <2> QED
    BY <2>1, <2>2 DEF TypeInv
<1>4. EpochInv'
  BY <1>0 DEF EpochInv, ServedIsOfThisEpoch, Published, InUse
<1>5. GroupInv'
  <2>0. /\ Pollers \subseteq Workers /\ Retriers \subseteq Workers /\ Workers \subseteq Writers
        /\ \A w \in Writers : lease' = w => lease = w
    BY <1>1 DEF Workers, Writers
  <2>1. LateFails'
    BY <1>0, <2>0 DEF GroupInv, LateFails, At
  <2>2. \A w \in Pollers : Current(w)' /\ HasPlan(w)' => PlanIsRight(w)'
    BY <1>0 DEF GroupInv, Current, HasPlan, PlanIsRight, At
  <2>3. ASSUME NEW w \in Pollers, Passed(w)'
        PROVE  Passed(w)
    BY <1>0, <2>0, <2>3 DEF Passed, Current, At
  <2>4. ASSUME NEW w \in Retriers, TaskLeft(w)
        PROVE  TaskLeft(w)'
    BY <1>0, <2>0, <2>4 DEF TaskLeft, HasPlan, At
  <2>5. Debt => Debt'
    BY <1>0, <2>4 DEF Debt
  <2>6. InGoodHands => Debt' \/ InGoodHands'
    <3>1. ASSUME NEW w \in Workers, InGoodHands, lease' = w, HasPlan(w)'
          PROVE  PlanIsRight(w)'
      BY <1>0, <2>0, <3>1 DEF InGoodHands, HasPlan, PlanIsRight, At
    <3>2. Settled => Settled'
      BY <1>0 DEF Settled
    <3>3. ASSUME NEW w \in Retriers, lease = w, HasPlan(w), job[w].kind = "group"
          PROVE  TaskLeft(w)' \/ (lease' = w /\ HasPlan(w)' /\ job'[w].kind = "group")
      BY <1>0, <3>3 DEF TaskLeft, HasPlan
    <3> QED
      BY <3>1, <3>2, <3>3 DEF InGoodHands, Debt
  <2> QED
    BY <1>0, <2>1, <2>2, <2>3, <2>5, <2>6 DEF GroupInv
<1> QED
  BY <1>3, <1>4, <1>5 DEF Inv

\* A change of the group makes every decision out of date, and is not
\* acknowledged yet; one of the members leaves the group alone.
LEMMA ChangeStep ==
    ASSUME Inv, ChangeGroup \/ \E a \in Accounts : ChangeMembers(a)
    PROVE  Inv'
<1>0. /\ TypeInv /\ EpochInv /\ GroupInv /\ TypeOK
      /\ UNCHANGED <<acked, retry, epoch, retired, registered, active, versions, lives, job, lapses,
                     lock, lease, faults>>
  BY DEF Inv, TypeInv, ChangeGroup, ChangeMembers, outbox, bucket
<1>1. PICK k \in Kinds : /\ changed' = [changed EXCEPT ![k] = @ + 1]
                         /\ k = "account" => group' = group
  BY DEF ChangeGroup, ChangeMembers, Kinds
<1>2. group' \in {"active", "inactive"} /\ members' \subseteq Accounts
  BY <1>0 DEF ChangeGroup, ChangeMembers, TypeOK
<1>3. /\ changed' \in [Kinds -> Nat] /\ "group" \in Kinds
      /\ \A i \in Kinds : changed'[i] = IF i = k THEN changed[i] + 1 ELSE changed[i]
      /\ \A i \in Kinds : changed[i] \in Nat /\ acked[i] \in Nat /\ acked[i] <= changed[i]
  BY <1>0, <1>1, ChangeFacts
<1>4. \A i \in Kinds : changed[i] <= changed'[i] /\ acked[i] <= changed'[i]
  BY <1>3
<1>5. TypeInv'
  <2>1. TypeOK'
    BY <1>0, <1>2, <1>3, <1>4 DEF TypeOK
  <2>2. JobsMatch'
    <3>1. ASSUME NEW w \in Writers, NEW i \in Kinds
          PROVE  /\ job[w].upto[i] <= changed'[i]
                 /\ job[w].kind = i => job[w].first <= changed'[i]
      <4>1. /\ job[w].upto[i] \in Nat /\ job[w].first \in Nat /\ job[w].upto[i] <= changed[i]
            /\ job[w].kind = i => job[w].first <= changed[i]
        BY <1>0, JobFacts, JobFields DEF JobOK
      <4> QED
        BY <1>3, <1>4, <4>1
    <3> QED
      BY <1>0, <3>1 DEF TypeInv, JobsMatch, At
  <2>3. VersionsMatch'
    BY <1>0 DEF TypeInv, VersionsMatch, At
  <2> QED
    BY <2>1, <2>2, <2>3 DEF TypeInv
<1>6. EpochInv'
  BY <1>0 DEF EpochInv, ServedIsOfThisEpoch, Published, InUse
<1>7. GroupInv'
  <2>0. Pollers \subseteq Writers
    BY DEF Workers, Writers
  <2>1. LateFails'
    BY <1>0 DEF GroupInv, LateFails, At
  <2>2. CASE k = "group"
    <3>1. changed'["group"] = changed["group"] + 1
      BY <1>3, <2>2
    <3>2. \A w \in Pollers : ~Current(w)'
      <4>1. \A w \in Pollers : job[w].upto["group"] \in Nat /\ job[w].upto["group"] <= changed["group"]
        BY <1>0, <1>3, <2>0, JobFacts, JobFields DEF JobOK
      <4> QED
        BY <1>0, <1>3, <3>1, <4>1 DEF Current
    <3>3. acked'["group"] # changed'["group"]
      BY <1>0, <1>3, <3>1
    <3> QED
      BY <2>1, <3>2, <3>3 DEF GroupInv, Passed
  <2>3. CASE k = "account"
    <3>1. changed'["group"] = changed["group"] /\ group' = group
      BY <1>1, <1>3, <2>3
    <3>2. \A w \in Pollers : /\ Current(w)' => Current(w)
                             /\ HasPlan(w)' => HasPlan(w)
                             /\ PlanIsRight(w) => PlanIsRight(w)'
                             /\ Passed(w)' => Passed(w)
      BY <1>0, <3>1 DEF Current, HasPlan, PlanIsRight, Passed, At
    <3>3. Debt => Debt'
      BY <1>0 DEF Debt, TaskLeft, HasPlan, At
    <3>4. InGoodHands => InGoodHands'
      BY <1>0, <3>1 DEF InGoodHands, HasPlan, PlanIsRight, Settled, At
    <3> QED
      BY <1>0, <2>1, <3>1, <3>2, <3>3, <3>4 DEF GroupInv
  <2> QED
    BY <2>2, <2>3 DEF Kinds
<1> QED
  BY <1>5, <1>6, <1>7 DEF Inv

-----------------------------------------------------------------------------
(* The invariance proof.                                                   *)

LEMMA InitInv ==
    ASSUME Init
    PROVE  Inv
<1>0. /\ NoJob \in Jobs /\ NoJob.pc = "idle" /\ NoJob.late = FALSE /\ NoJob.kind = None
      /\ NoJob.first = 0 /\ NoJob.upto = [k \in Kinds |-> 0] /\ NoJob.token = 0
      /\ NoJob.shared = FALSE /\ NoJob.era = 0
  BY NoJobEffect DEF IsFor, IsAt
<1>1. /\ job = [w \in Writers |-> NoJob] /\ \A w \in Writers : job[w] = NoJob
      /\ Workers \subseteq Writers /\ Pollers \subseteq Writers /\ Retriers \subseteq Writers
  BY DEF Init, Workers, Writers
<1>2. /\ group = "active" /\ members \subseteq Accounts
      /\ changed = [k \in Kinds |-> 0] /\ acked = [k \in Kinds |-> 0] /\ retry = {}
      /\ epoch = 1 /\ retired = FALSE /\ registered = TRUE
      /\ active = [set |-> members, era |-> 0] /\ versions = <<Marker>>
      /\ lock = None /\ lease = None /\ lives = 0 /\ faults = 0 /\ lapses = {}
  BY DEF Init
<1>3. TypeOK
  <2>1. active \in Snapshots /\ versions \in Seq(Writers \cup {Marker})
    BY <1>2 DEF Snapshots
  <2>2. job \in [Writers -> Jobs]
    BY <1>0, <1>1
  <2>3. changed \in [Kinds -> Nat] /\ acked \in [Kinds -> Nat] /\ \A k \in Kinds : acked[k] <= changed[k]
    BY <1>2
  <2> QED
    <3>1. faults \in 0..MaxFaults
      BY <1>2, ConstantsAssumption
    <3>2. lives \in Nat /\ epoch \in Nat
      BY <1>2
    <3>3. retired \in BOOLEAN /\ registered \in BOOLEAN
      BY <1>2
    <3> QED
      BY <1>2, <2>1, <2>2, <2>3, <3>1, <3>2, <3>3 DEF TypeOK
<1>4. JobsMatch
  <2>1. \A k \in Kinds : changed[k] = 0 /\ NoJob.upto[k] = 0
    BY <1>0, <1>2
  <2> QED
    BY <1>0, <1>1, <2>1 DEF JobsMatch, At, None, Kinds
<1>5. VersionsMatch
  BY <1>2 DEF VersionsMatch
<1>6. EpochInv
  BY <1>0, <1>1, <1>2 DEF EpochInv, ServedIsOfThisEpoch, Publishing
<1>7. GroupInv
  <2>1. \A w \in Writers : ~HasPlan(w) /\ ~job[w].late
    BY <1>0, <1>1 DEF HasPlan
  <2>2. Settled
    BY <1>2 DEF Settled
  <2>3. InGoodHands
    BY <1>1, <2>1, <2>2 DEF InGoodHands
  <2> QED
    BY <1>1, <2>1, <2>3 DEF GroupInv, LateFails
<1> QED
  BY <1>3, <1>4, <1>5, <1>6, <1>7 DEF Inv, TypeInv

LEMMA Stutter ==
    ASSUME Inv, UNCHANGED vars
    PROVE  Inv'
<1>1. UNCHANGED <<group, members, changed, acked, retry, epoch, retired, registered, active, versions,
                  lives, lock, lease, job, faults, lapses>>
  BY DEF vars, database, outbox, bucket
<1>2. TypeInv'
  BY <1>1 DEF Inv, TypeInv, TypeOK, JobsMatch, VersionsMatch, At
<1>3. EpochInv'
  BY <1>1 DEF Inv, EpochInv, ServedIsOfThisEpoch, Published, InUse
<1>4. GroupInv'
  <2>1. GroupInv
    BY DEF Inv
  <2> QED
    BY <1>1, <2>1 DEF GroupInv, LateFails, Current, HasPlan, PlanIsRight, Passed, Debt, TaskLeft,
                      InGoodHands, Settled, At
<1> QED
  BY <1>2, <1>3, <1>4 DEF Inv

LEMMA WorkStep ==
    ASSUME Inv, NEW w \in Workers, Work(w)
    PROVE  Inv'
<1>1. w \in Writers
  BY DEF Writers
<1>2. CASE Lifecycle(w)
  BY <1>2, LeaseStep, GetGroupStep, DecideStep DEF Lifecycle
<1>3. CASE Rebuild(w)
  BY <1>1, <1>3, CaptureStep, LockStep, LoadStep, AllocateStep, ActivateStep DEF Rebuild, Publish
<1>4. CASE Succeed(w)
  BY <1>4, SucceedStep
<1> QED
  BY <1>2, <1>3, <1>4 DEF Work

LEMMA NextInv ==
    ASSUME Inv, [Next]_vars
    PROVE  Inv'
<1>0. /\ Pollers \subseteq Workers /\ Retriers \subseteq Workers /\ Rebuilders \subseteq Workers
      /\ Workers \subseteq Writers /\ Requests \subseteq Writers
  BY DEF Workers, Writers
<1>1. ASSUME NEW w \in Pollers, Poller(w)
      PROVE  Inv'
  BY <1>0, <1>1, BeginStep, WorkStep, FailStep DEF Poller
<1>2. ASSUME NEW w \in Retriers, Retrier(w)
      PROVE  Inv'
  BY <1>0, <1>2, BeginStep, WorkStep, LoadStep, FailStep DEF Retrier
<1>3. ASSUME NEW w \in Rebuilders, Rebuilder(w)
      PROVE  Inv'
  BY <1>0, <1>3, BeginStep, ListStep, WorkStep, FailStep DEF Rebuilder
<1>4. ASSUME NEW w \in Pollers \cup Rebuilders, LoadForSibling(w)
      PROVE  Inv'
  BY <1>0, <1>4, LoadStep
<1>5. ASSUME NEW w \in Requests, Request(w)
      PROVE  Inv'
  BY <1>0, <1>5, BeginStep, CaptureStep, LoadStep, AllocateStep, ActivateStep, RequestEndsStep
     DEF Request, Publish
<1>6. ASSUME NEW w \in Workers, CallFails(w) \/ Crash(w)
      PROVE  Inv'
  BY <1>6, CallFailsStep, CrashStep
<1>7. CASE ChangeGroup \/ \E a \in Accounts : ChangeMembers(a)
  BY <1>7, ChangeStep
<1>8. CASE LockExpires \/ LeaseExpires \/ HolderStalls
  BY <1>8, ExpiryStep
<1>9. CASE UNCHANGED vars
  BY <1>9, Stutter
<1> QED
  BY <1>1, <1>2, <1>3, <1>4, <1>5, <1>6, <1>7, <1>8, <1>9 DEF Next

LEMMA Invariance == Spec => []Inv
<1>1. Init => Inv
  BY InitInv
<1>2. Inv /\ [Next]_vars => Inv'
  BY NextInv
<1> QED
  BY <1>1, <1>2, PTL DEF Spec, Safety

-----------------------------------------------------------------------------

\* Every step of every loop and request, every failing call and every expiry
\* keeps the variables in their types: the watermark does not pass a change
\* that was not made, and whatever is at the end of the retry queue is a kind
\* of event.
THEOREM TypeCorrect == Spec => []TypeOK
<1>1. Inv => TypeOK
  BY DEF Inv, TypeInv
<1> QED
  BY <1>1, Invariance, PTL

\* What was loaded before the bucket was retired is never served afterwards:
\* activateSnapshotScript compares the epoch with the writer's, which was
\* captured no later than it loaded, and RetireBucket advances the epoch.
THEOREM ServedIsOfThisLife == Spec => []ServedIsOfThisEpoch
<1>1. Inv => ServedIsOfThisEpoch
  BY DEF Inv, EpochInv
<1> QED
  BY <1>1, Invariance, PTL

\* When the group's events are acknowledged and nobody is deciding or owes a
\* decision, the tombstone says what the group's status asks for: a poller
\* acknowledges only what it decided under the lease, and a decision made
\* without it is reported as a failure, whose retry looks at the group again.
THEOREM GroupIsFollowed == Spec => []GroupIsReflected
<1>1. ASSUME Inv
      PROVE  GroupIsReflected
  <2> SUFFICES ASSUME acked["group"] = changed["group"], "group" \notin retry,
                      \A w \in Workers : job[w].pc \notin {"decide", "reopen", "retire", "release", "end"},
                      "overtaken" \notin lapses,
                      ~\E w \in Retriers : At(w, "lease") /\ job[w].kind = "group"
               PROVE  Settled
    BY DEF GroupIsReflected, Settled
  <2>1. GroupInv /\ Workers \subseteq Writers /\ Retriers \subseteq Workers
    BY <1>1 DEF Inv, Writers, Workers
  <2>2. \A w \in Workers : ~job[w].late
    BY <2>1 DEF GroupInv, LateFails, At
  <2>3. \A w \in Retriers : ~TaskLeft(w) /\ ~HasPlan(w)
    BY <2>1 DEF TaskLeft, HasPlan, At
  <2>4. ~Debt
    BY <2>2, <2>3 DEF Debt
  <2> QED
    BY <2>1, <2>3, <2>4 DEF GroupInv, InGoodHands
<1> QED
  BY <1>1, Invariance, PTL

-----------------------------------------------------------------------------
(* AcknowledgedIsServed: the order of the versions.                        *)

\* The other versions stay in use, in the same order.
LEMMA WithoutOrder ==
    ASSUME TypeOK, VersionsMatch, NEW x
    PROVE  /\ \A v : v # x /\ InUse(v) => \E i \in DOMAIN Without(x) : Without(x)[i] = v
           /\ \A i, k \in DOMAIN Without(x) : i < k => Before(Without(x)[i], Without(x)[k])
<1>0. /\ versions \in Seq(Writers \cup {Marker}) /\ Len(versions) \in Nat
      /\ DOMAIN versions = 1..Len(versions)
  BY DEF TypeOK
<1>1. CASE ~InUse(x)
  <2>1. Without(x) = versions
    BY <1>1 DEF Without
  <2> QED
    BY <2>1, Zenon DEF InUse, Before
<1>2. CASE InUse(x)
  <2> DEFINE p == Place(x)
             n == Len(versions)
             at(i) == IF i < p THEN i ELSE i + 1
  <2>1. p \in 1..n /\ versions[p] = x
    BY <1>0, <1>2, PlaceEffect
  <2>2. Without(x) = [i \in 1..(n - 1) |-> versions[at(i)]]
    BY <1>2 DEF Without
  <2> HIDE DEF p, n
  <2>3. n \in Nat /\ n - 1 \in Nat /\ DOMAIN versions = 1..n
    BY <1>0, <2>1 DEF n
  <2>4. \A i \in 1..(n - 1) : at(i) \in 1..n
    BY <2>1, <2>3
  <2>5. \A i, k \in 1..(n - 1) : i < k => at(i) < at(k)
    BY <2>1, <2>3
  <2>6. \A m \in 1..n : m # p => \E i \in 1..(n - 1) : at(i) = m
    <3> SUFFICES ASSUME NEW m \in 1..n, m # p
                 PROVE  \E i \in 1..(n - 1) : at(i) = m
      OBVIOUS
    <3>1. CASE m < p
      BY <2>1, <2>3, <3>1
    <3>2. CASE m > p
      <4>1. m - 1 \in 1..(n - 1) /\ at(m - 1) = m
        BY <2>1, <2>3, <3>2
      <4> QED
        BY <4>1
    <3> QED
      BY <2>1, <2>3, <3>1, <3>2
  <2> HIDE DEF at
  <2>7. DOMAIN Without(x) = 1..(n - 1) /\ \A i \in 1..(n - 1) : Without(x)[i] = versions[at(i)]
    BY <2>2
  <2>8. ASSUME NEW v, v # x, InUse(v)
        PROVE  \E i \in DOMAIN Without(x) : Without(x)[i] = v
    <3>1. PICK m \in 1..n : versions[m] = v
      BY <2>3, <2>8 DEF InUse
    <3>2. PICK i \in 1..(n - 1) : at(i) = m
      BY <2>1, <2>6, <2>8, <3>1
    <3> QED
      BY <2>7, <3>1, <3>2
  <2>9. ASSUME NEW i \in DOMAIN Without(x), NEW k \in DOMAIN Without(x), i < k
        PROVE  Before(Without(x)[i], Without(x)[k])
    <3>1. at(i) \in DOMAIN versions /\ at(k) \in DOMAIN versions /\ at(i) < at(k)
      BY <2>3, <2>4, <2>5, <2>7, <2>9
    <3>2. Without(x)[i] = versions[at(i)] /\ Without(x)[k] = versions[at(k)]
      BY <2>7
    <3> QED
      BY <3>1, <3>2 DEF Before
  <2> QED
    BY <2>8, <2>9
<1> QED
  BY <1>1, <1>2

\* A writer's version goes.
LEMMA DroppedEffect ==
    ASSUME TypeOK, VersionsMatch, NEW w \in Writers, versions' = Without(w)
    PROVE  /\ \A v \in Writers : v # w /\ InUse(v) => InUse(v)'
           /\ Published' <=> Published
           /\ \A v \in Writers : Before(v, Marker)' => Before(v, Marker)
<1>1. Marker # w
  BY ConstantsAssumption
<1>2. \A v : v # w /\ InUse(v) => InUse(v)'
  BY WithoutOrder DEF InUse
<1>3. Published' => Published
  BY WithoutEffect DEF Published, InUse
<1>4. \A v \in Writers : Before(v, Marker)' => Before(v, Marker)
  BY WithoutOrder DEF Before
<1> QED
  BY <1>1, <1>2, <1>3, <1>4 DEF Published

\* A writer's version comes last.
LEMMA AppendedEffect ==
    ASSUME TypeOK, NEW w \in Writers, versions' = Append(versions, w)
    PROVE  /\ InUse(w)' /\ \A v \in Writers : InUse(v) => InUse(v)'
           /\ Published' <=> Published
           /\ \A v \in Writers : Before(v, Marker)' => Before(v, Marker)
<1>1. /\ Len(versions) \in Nat /\ Marker # w
      /\ DOMAIN versions = 1..Len(versions) /\ DOMAIN versions' = 1..(Len(versions) + 1)
      /\ \A i \in 1..Len(versions) : versions'[i] = versions[i]
      /\ versions'[Len(versions) + 1] = w
  BY ConstantsAssumption DEF TypeOK
<1>2. \A i \in DOMAIN versions' : i \in DOMAIN versions \/ i = Len(versions) + 1
  BY <1>1
<1>3. \A i \in DOMAIN versions : i \in DOMAIN versions' /\ versions'[i] = versions[i]
  BY <1>1
<1>4. InUse(w)' /\ \A v : InUse(v) => InUse(v)'
  BY <1>1, <1>3 DEF InUse
<1>5. Published' => Published
  BY <1>1, <1>2, <1>3 DEF Published, InUse
<1>6. ASSUME NEW v \in Writers, Before(v, Marker)'
      PROVE  Before(v, Marker)
  <2>1. PICK i, k \in DOMAIN versions' : i < k /\ versions'[i] = v /\ versions'[k] = Marker
    BY <1>6 DEF Before
  <2>2. k \in DOMAIN versions
    BY <1>1, <1>2, <2>1
  <2>3. i \in DOMAIN versions
    BY <1>1, <2>1, <2>2
  <2> QED
    BY <1>3, <2>1, <2>2, <2>3 DEF Before
<1> QED
  BY <1>4, <1>5, <1>6 DEF Published

\* The active version goes.
LEMMA UnpublishedEffect ==
    ASSUME TypeOK, VersionsMatch, versions' = Without(Marker)
    PROVE  ~Published' /\ \A v \in Writers : InUse(v) => InUse(v)'
<1>1. \A v \in Writers : v # Marker
  BY ConstantsAssumption
<1>2. ~Published'
  BY WithoutEffect DEF Published, InUse
<1> QED
  BY <1>1, <1>2, WithoutOrder DEF InUse

\* A writer's version becomes the active one.
LEMMA InstalledEffect ==
    ASSUME TypeOK, VersionsMatch, NEW w \in Writers, InUse(w), Install(w)
    PROVE  Published' /\ \A v \in Writers : v # w /\ InUse(v) => InUse(v)'
<1>1. \A v \in Writers : v # Marker
  BY ConstantsAssumption
<1>2. PICK u : u = Without(Marker)
  OBVIOUS
<1>3. versions' = [i \in DOMAIN u |-> IF u[i] = w THEN Marker ELSE u[i]]
  BY <1>2 DEF Install
<1>4. \A v \in Writers : InUse(v) => \E i \in DOMAIN u : u[i] = v
  BY <1>1, <1>2, WithoutOrder
<1> QED
  BY <1>3, <1>4 DEF Published, InUse

LEMMA OlderEffect ==
    ASSUME InUse(Marker), NEW w \in Writers, InUse(w), Place(w) < Place(Marker)
    PROVE  Before(w, Marker)
  BY PlaceEffect DEF Before

-----------------------------------------------------------------------------
(* AcknowledgedIsServed: what the step of writer w has to respect.         *)

\* What it leaves to the others.
Leaves(w) ==
    /\ \A v \in Writers : v # w /\ lock' = v => lock = v
    /\ \A v \in Writers : v # w /\ lease' = v => lease = v
    /\ \A v \in Writers : v # w /\ InUse(v) => InUse(v)'
    /\ epoch <= epoch' /\ lapses \subseteq lapses'

WriterOK(w, j) ==
    /\ j.pc = "idle" => j.kind = None
    /\ w \in Pollers \cup Retriers
         /\ (j.pc \in {"lock", "load"} \cup Publishing \/ (j.pc = "release" /\ j.ok))
       => j.strict

LEMMA OtherJobs ==
    ASSUME Inv, NEW w \in Writers, NEW j, Becomes(w, j)
    PROVE  /\ \A v \in Writers : job'[v] = IF v = w THEN j ELSE job[v]
           /\ Pollers \subseteq Workers /\ Retriers \subseteq Workers /\ Workers \subseteq Writers
  BY DEF Becomes, Inv, TypeInv, TypeOK, Workers, Writers

LEMMA WritersStep ==
    ASSUME Inv, WritersMatch, NEW w \in Writers, NEW j, Becomes(w, j), Leaves(w), WriterOK(w, j),
           epoch' \in Nat,
           retired' => (retired /\ epoch' = epoch) \/ epoch < epoch',
           j.pc = "activate" => InUse(w)', retired' => j.token < epoch'
    PROVE  WritersMatch'
<1>1. \A v \in Writers : job'[v] = IF v = w THEN j ELSE job[v]
  BY OtherJobs
<1>2. ASSUME NEW v \in Writers, v # w, retired'
      PROVE  job[v].token < epoch'
  <2>1. job[v].token <= epoch /\ job[v].token \in Nat /\ epoch \in Nat
    BY JobFacts, JobFields DEF Inv, EpochInv, TypeInv, TypeOK
  <2>2. retired => job[v].token < epoch
    BY DEF WritersMatch
  <2> QED
    BY <1>2, <2>1, <2>2
<1>3. ASSUME NEW v \in Writers, v # w, job[v].pc = "activate"
      PROVE  InUse(v)'
  BY <1>3 DEF WritersMatch, At, Leaves
<1> QED
  BY <1>1, <1>2, <1>3 DEF WritersMatch, WriterOK, At

LEMMA HoldersStep ==
    ASSUME Inv, HoldersAreFresh, NEW w \in Writers, NEW j, Becomes(w, j), Leaves(w),
           members' = members, epoch' \in Nat,
           Holds(w)' => j.load = members \/ (Holds(w) /\ j.load = job[w].load)
    PROVE  HoldersAreFresh'
<1>1. /\ \A v \in Writers : job'[v] = IF v = w THEN j ELSE job[v]
      /\ Workers \subseteq Writers
  BY OtherJobs
<1>2. ASSUME NEW v \in Workers, v # w, Holds(v)'
      PROVE  job[v].load = members
  <2>1. job[v].token <= epoch /\ job[v].token \in Nat /\ epoch \in Nat
    BY <1>1, JobFacts, JobFields DEF Inv, EpochInv, TypeInv, TypeOK
  <2>2. job'[v] = job[v] /\ lock = v
    BY <1>1, <1>2 DEF Holds, Leaves
  <2>3. job[v].token = epoch
    BY <1>2, <2>1, <2>2 DEF Holds, Leaves
  <2>4. Holds(v)
    BY <1>2, <2>2, <2>3 DEF Holds
  <2> QED
    BY <2>4 DEF HoldersAreFresh
<1> QED
  BY <1>1, <1>2 DEF HoldersAreFresh

\* What is served stays as it is, or goes, or is brought up to date.
Kept ==
    \/ active'.set = members \/ ~Published'
    \/ /\ active' = active /\ Published
       /\ \A v \in Writers : Before(v, Marker)' => Before(v, Marker)

LEMMA OthersStep ==
    ASSUME Inv, NEW w \in Writers, NEW j, Becomes(w, j), members' = members,
           HoldersAreFresh => HoldersAreFresh' /\ Kept
    PROVE  /\ Fresh => Fresh'
           /\ \A v \in Writers : v # w /\ OnTrack(v) => OnTrack(v)'
<1>1. \A v \in Writers : job'[v] = IF v = w THEN j ELSE job[v]
  BY OtherJobs
<1>2. Fresh => Fresh'
  BY DEF Fresh, Kept
<1>3. ASSUME NEW v \in Writers, v # w, OnTrack(v)
      PROVE  OnTrack(v)'
  <2>1. job'[v] = job[v]
    BY <1>1, <1>3
  <2>2. Done(v)' => Fresh'
    BY <1>2, <1>3, <2>1 DEF OnTrack, Done, At
  <2>3. ASSUME At(v, "activate"), Before(v, Marker)'
        PROVE  active'.set = members
    <3>1. HoldersAreFresh
      BY <1>3, <2>3 DEF OnTrack, At, Publishing
    <3>2. Published'
      BY <2>3 DEF Before, Published, InUse
    <3> QED
      BY <1>3, <2>3, <3>1, <3>2 DEF Kept, OnTrack
  <2> QED
    BY <1>3, <2>1, <2>2, <2>3 DEF OnTrack, At
<1> QED
  BY <1>2, <1>3

LEMMA MembersStep ==
    ASSUME Inv, MembersInv, NEW w \in Writers, NEW j, Becomes(w, j), Leaves(w), UNCHANGED database,
           "raced" \notin lapses' /\ HoldersAreFresh => HoldersAreFresh' /\ Kept,
           "raced" \notin lapses' /\ w \in Pollers /\ j.upto["account"] = changed["account"] =>
             OnTrack(w)',
           "raced" \notin lapses' /\ w \in Retriers /\ job[w].kind = "account" /\ OnTrack(w) =>
             (j.kind = "account" /\ OnTrack(w)') \/ "account" \in retry' \/ Fresh',
           "account" \in retry =>
             (w \in Retriers /\ j.kind = "account" /\ OnTrack(w)') \/ "account" \in retry',
           "raced" \notin lapses' /\ acked'["account"] = changed["account"] =>
             acked["account"] = changed["account"] \/ "account" \in retry' \/ Fresh'
    PROVE  MembersInv'
<1>0. members' = members /\ changed' = changed
  BY DEF database
<1> SUFFICES ASSUME "raced" \notin lapses'
             PROVE  /\ \A v \in Pollers : job'[v].upto["account"] = changed["account"] => OnTrack(v)'
                    /\ acked'["account"] = changed["account"] =>
                         \/ Fresh' \/ "account" \in retry'
                         \/ \E v \in Retriers : job'[v].kind = "account" /\ OnTrack(v)'
  BY <1>0 DEF MembersInv
<1>1. /\ \A v \in Writers : job'[v] = IF v = w THEN j ELSE job[v]
      /\ Pollers \subseteq Writers /\ Retriers \subseteq Writers
  BY OtherJobs
<1>2. "raced" \notin lapses
  BY DEF Leaves
<1>3. (Fresh => Fresh') /\ \A v \in Writers : v # w /\ OnTrack(v) => OnTrack(v)'
  BY <1>0, OthersStep
<1>4. ASSUME NEW v \in Pollers, job'[v].upto["account"] = changed["account"]
      PROVE  OnTrack(v)'
  BY <1>1, <1>2, <1>3, <1>4 DEF MembersInv
<1>5. ASSUME acked["account"] = changed["account"]
      PROVE  \/ Fresh' \/ "account" \in retry'
             \/ \E v \in Retriers : job'[v].kind = "account" /\ OnTrack(v)'
  BY <1>1, <1>2, <1>3, <1>5 DEF MembersInv
<1> QED
  BY <1>4, <1>5

LEMMA PublishedStep ==
    ASSUME Inv, PublishedInv, NEW w \in Writers, NEW j, Becomes(w, j), Leaves(w), UNCHANGED database,
           acked'["group"] = changed["group"] =>
             acked["group"] = changed["group"] \/ (w \in Pollers /\ Passed(w) /\ Done(w)) \/ CaredFor',
           w \in Pollers /\ Passed(w)' /\ Done(w)' => (Passed(w) /\ Done(w)) \/ CaredFor',
           Handled /\ Published => CaredFor',
           "group" \in retry \/ (w \in Workers /\ job[w].late) => CaredFor',
           Handled /\ w \in Retriers /\ (TaskLeft(w) \/ TaskOpen(w)) => CaredFor'
    PROVE  PublishedInv'
<1>0. group' = group /\ changed' = changed
  BY DEF database
<1>1. /\ \A v \in Writers : job'[v] = IF v = w THEN j ELSE job[v]
      /\ Pollers \subseteq Writers /\ Retriers \subseteq Writers /\ Workers \subseteq Writers
  BY OtherJobs
<1>2. ASSUME NEW v \in Pollers, v # w, Passed(v)', Done(v)'
      PROVE  Passed(v) /\ Done(v)
  <2>1. job'[v] = job[v] /\ (lease' = v => lease = v)
    BY <1>1, <1>2 DEF Leaves
  <2> QED
    BY <1>0, <1>2, <2>1 DEF Passed, Current, Done, At
<1>3. ASSUME NEW v \in Retriers, v # w, TaskLeft(v) \/ TaskOpen(v)
      PROVE  CaredFor'
  <2>1. job'[v] = job[v] /\ (lease' = v => lease = v)
    BY <1>1, <1>3 DEF Leaves
  <2>2. TaskLeft(v) => TaskLeft(v)'
    BY <2>1 DEF TaskLeft, HasPlan, At
  <2>3. TaskOpen(v) => TaskOpen(v)'
    BY <2>1 DEF TaskOpen, Done, At
  <2> QED
    BY <1>3, <2>2, <2>3 DEF CaredFor, Debt
<1>4. ASSUME NEW v \in Workers, v # w, job[v].late
      PROVE  CaredFor'
  <2>1. job'[v] = job[v]
    BY <1>1, <1>4
  <2> QED
    BY <1>4, <2>1 DEF CaredFor, Debt
<1>5. ASSUME Handled
      PROVE  CaredFor'
  <2>1. "overtaken" \in lapses => CaredFor'
    BY DEF Leaves, CaredFor, Debt
  <2>2. Debt => CaredFor'
    BY <1>3, <1>4, <1>5, <2>1 DEF Debt
  <2>3. group = "inactive" => CaredFor'
    BY <1>0 DEF CaredFor
  <2> QED
    BY <1>3, <1>5, <2>2, <2>3 DEF PublishedInv, CaredFor
<1>6. ASSUME Handled'
      PROVE  CaredFor'
  BY <1>0, <1>2, <1>5, <1>6 DEF Handled
<1> QED
  BY <1>6 DEF PublishedInv

\* A bucket that differs at most in a writer's version.
LEMMA SameVersions ==
    ASSUME Inv, NEW w \in Writers, active' = active,
           versions' = versions \/ versions' = Without(w)
    PROVE  /\ \A v \in Writers : v # w /\ InUse(v) => InUse(v)'
           /\ Published' <=> Published
           /\ Kept
<1>1. CASE versions' = versions
  BY <1>1 DEF Kept, Published, InUse, Before
<1>2. CASE versions' = Without(w)
  BY <1>2, DroppedEffect DEF Inv, TypeInv, Kept
<1> QED
  BY <1>1, <1>2

\* A job that promises nothing.
Harmless(j) ==
    /\ ~j.shared /\ j.pc \notin {"load"} \cup Publishing
    /\ j.ok => j.pc \notin {"unlock", "end"} /\ (j.pc = "release" => j.token # 0)

LEMMA HarmlessFacts ==
    ASSUME Inv, NEW w \in Writers, NEW j, Becomes(w, j), Harmless(j)
    PROVE  OnTrack(w)' /\ ~Done(w)' /\ ~Holds(w)'
<1>1. job'[w] = j
  BY OtherJobs
<1> QED
  BY <1>1 DEF Harmless, OnTrack, Done, Holds, At, Publishing

LEMMA NoJobFacts ==
    /\ Harmless(NoJob) /\ NoJob.pc = "idle" /\ NoJob.kind = None /\ NoJob.token = 0
    /\ \A w : WriterOK(w, NoJob)
  BY NoJobEffect DEF IsAt, IsFor, Harmless, WriterOK, Publishing

\* A step of a rebuild or a request that leaves the database, the outbox, the
\* epoch and the lease alone, after which the job still keeps what it promises.
QuietMove(w, j) ==
    /\ Becomes(w, j) /\ Same(w, j) /\ WriterOK(w, j)
    /\ UNCHANGED <<database, outbox, epoch, retired, lease>>
    /\ \A v \in Writers : v # w /\ lock' = v => lock = v
    /\ \A v \in Writers : v # w /\ InUse(v) => InUse(v)'
    /\ lapses \subseteq lapses'
    /\ job[w].pc \notin Deciding \cup {"lease", "end"}
    /\ j.pc = "activate" => InUse(w)'
    /\ retired => j.token < epoch
    /\ Published => Published'
    /\ "raced" \notin lapses' /\ HoldersAreFresh => Kept
    /\ HoldersAreFresh /\ Holds(w)' => j.load = members
    /\ /\ "raced" \notin lapses' /\ w \in Pollers \cup Retriers /\ OnTrack(w)
       /\ (HoldersAreFresh => HoldersAreFresh') /\ (Fresh => Fresh')
       => OnTrack(w)'
    /\ w \in Pollers \cup Retriers /\ Done(w)' => Done(w) \/ Published'

LEMMA QuietServed ==
    ASSUME Inv, ServedInv, NEW w \in Writers, NEW j, QuietMove(w, j)
    PROVE  ServedInv'
<1>0. /\ WritersMatch /\ MembersInv /\ PublishedInv
      /\ UNCHANGED <<group, members, changed, acked, retry>> /\ epoch \in Nat
      /\ Becomes(w, j) /\ Same(w, j) /\ UNCHANGED database
  BY DEF QuietMove, ServedInv, database, outbox, Inv, TypeInv, TypeOK
<1>1. Leaves(w) /\ epoch' \in Nat
  BY <1>0 DEF QuietMove, Leaves
<1>2. job'[w] = j /\ Pollers \subseteq Workers /\ Retriers \subseteq Workers /\ Workers \subseteq Writers
  BY <1>0, OtherJobs
<1>3. WritersMatch'
  BY <1>0, <1>1, WritersStep DEF QuietMove
<1>4. "raced" \notin lapses' /\ HoldersAreFresh => HoldersAreFresh' /\ Kept
  BY <1>0, <1>1, HoldersStep DEF QuietMove
<1>5. "raced" \notin lapses' => (Fresh => Fresh') /\ (HoldersAreFresh => HoldersAreFresh')
  BY <1>0, <1>4, OthersStep
<1>6. MembersInv'
  <2>1. "raced" \notin lapses' /\ w \in Pollers \cup Retriers /\ OnTrack(w) => OnTrack(w)'
    BY <1>5 DEF QuietMove
  <2>2. "raced" \notin lapses' /\ w \in Pollers /\ j.upto["account"] = changed["account"] => OnTrack(w)'
    BY <1>0, <1>1, <2>1 DEF MembersInv, Leaves, Same, IsFor
  <2>3. "raced" \notin lapses' /\ w \in Retriers /\ job[w].kind = "account" /\ OnTrack(w) =>
          j.kind = "account" /\ OnTrack(w)'
    BY <1>0, <2>1 DEF Same, IsFor
  <2> QED
    BY <1>0, <1>1, <1>4, <2>2, <2>3, MembersStep
<1>7. PublishedInv'
  <2>1. w \in Workers => ~job[w].late /\ ~TaskLeft(w)
    BY <1>2, QuietFacts DEF QuietMove, TaskLeft, HasPlan, At, Deciding
  <2>2. Published' => CaredFor'
    BY DEF CaredFor
  <2>3. "group" \in retry => CaredFor'
    BY <1>0 DEF CaredFor, Debt
  <2>4. ASSUME w \in Retriers, TaskOpen(w)
        PROVE  CaredFor'
    <3>1. ~Done(w) /\ j.kind = "group"
      BY <1>0, <2>4 DEF TaskOpen, Same, IsFor
    <3>2. CASE ~Done(w)'
      BY <1>2, <2>4, <3>1, <3>2 DEF CaredFor, TaskOpen
    <3> QED
      BY <2>2, <2>4, <3>1, <3>2 DEF QuietMove
  <2>5. ASSUME w \in Pollers, Passed(w)', Done(w)'
        PROVE  (Passed(w) /\ Done(w)) \/ CaredFor'
    <3>1. CASE Done(w)
      <4>1. Current(w) /\ job[w].pc = "unlock"
        BY <1>0, <1>2, <2>5, <3>1 DEF QuietMove, Passed, Current, Done, At, Same, IsFor, Deciding
      <4> QED
        BY <3>1, <4>1 DEF Passed
    <3> QED
      BY <2>2, <2>5, <3>1 DEF QuietMove
  <2> QED
    BY <1>0, <1>1, <1>2, <2>1, <2>2, <2>3, <2>4, <2>5, PublishedStep DEF QuietMove
<1> QED
  BY <1>3, <1>6, <1>7 DEF ServedInv

\* The job is over: what it was for is served, or in the retry queue.
LEMMA EndServed ==
    ASSUME Inv, ServedInv, NEW w \in Writers, Becomes(w, NoJob),
           UNCHANGED <<database, epoch, retired, active>>,
           versions' = versions \/ versions' = Without(w),
           \A v \in Writers : v # w /\ lock' = v => lock = v,
           \A v \in Writers : v # w /\ lease' = v => lease = v,
           lapses \subseteq lapses', retry \subseteq retry',
           w \in Retriers => job[w].kind \in retry' \cup {None} \/ (job[w].pc = "end" /\ job[w].ok),
           \A k \in Kinds : acked'[k] = changed[k] =>
             \/ acked[k] = changed[k] \/ k \in retry'
             \/ w \in Pollers /\ job[w].pc = "end" /\ job[w].ok /\ job[w].upto[k] = changed[k],
           w \in Workers /\ job[w].late => "group" \in retry' \/ "overtaken" \in lapses'
    PROVE  ServedInv'
<1>0. /\ WritersMatch /\ MembersInv /\ PublishedInv
      /\ UNCHANGED <<group, members, changed>> /\ epoch \in Nat /\ "group" \in Kinds /\ "account" \in Kinds
  BY DEF ServedInv, database, Inv, TypeInv, TypeOK, Kinds
<1>1. /\ \A v \in Writers : v # w /\ InUse(v) => InUse(v)'
      /\ Published' <=> Published
      /\ Kept
  BY SameVersions
<1>2. Leaves(w) /\ epoch' \in Nat
  BY <1>0, <1>1 DEF Leaves
<1>3. /\ job'[w] = NoJob /\ OnTrack(w)' /\ ~Done(w)' /\ ~Holds(w)' /\ Pollers \subseteq Workers
      /\ Retriers \subseteq Workers
  BY OtherJobs, HarmlessFacts, NoJobFacts
<1>4. WritersMatch'
  <2>1. retired' => 0 < epoch'
    <3>1. epoch = lives + 1 /\ lives \in Nat
      BY DEF Inv, EpochInv, TypeInv, TypeOK
    <3> QED
      BY <3>1
  <2> QED
    BY <1>0, <1>2, <2>1, NoJobFacts, WritersStep
<1>5. HoldersAreFresh => HoldersAreFresh' /\ Kept
  BY <1>0, <1>1, <1>2, <1>3, HoldersStep
<1>6. job[w].pc = "end" /\ job[w].ok /\ OnTrack(w) => Fresh'
  BY <1>0, <1>5, OthersStep DEF OnTrack, Done
<1>7. MembersInv'
  <2>1. "raced" \notin lapses' /\ acked'["account"] = changed["account"] =>
             acked["account"] = changed["account"] \/ "account" \in retry' \/ Fresh'
    BY <1>0, <1>2, <1>6 DEF MembersInv, Leaves
  <2>2. w \in Retriers /\ job[w].kind = "account" /\ OnTrack(w) => "account" \in retry' \/ Fresh'
    BY <1>6 DEF None
  <2> QED
    BY <1>0, <1>2, <1>3, <1>5, <2>1, <2>2, MembersStep
<1>8. PublishedInv'
  <2>1. "group" \in retry' \/ "overtaken" \in lapses' => CaredFor'
    BY DEF CaredFor, Debt
  <2>2. Published => CaredFor'
    BY <1>1 DEF CaredFor
  <2>3. w \in Retriers /\ (TaskLeft(w) \/ TaskOpen(w)) => CaredFor'
    BY <2>1 DEF TaskLeft, TaskOpen, HasPlan, Done, At, None
  <2>4. ASSUME acked'["group"] = changed["group"]
        PROVE  acked["group"] = changed["group"] \/ (w \in Pollers /\ Passed(w) /\ Done(w)) \/ CaredFor'
    <3> SUFFICES ASSUME acked["group"] # changed["group"], w \in Pollers, job[w].pc = "end", job[w].ok,
                        job[w].upto["group"] = changed["group"]
                 PROVE  Passed(w) /\ Done(w)
      BY <1>0, <2>1, <2>4
    <3>1. /\ job[w].kind \in Kinds /\ (job[w].kind = "account" => job[w].upto["group"] <= acked["group"])
          /\ acked["group"] \in Nat /\ changed["group"] \in Nat /\ acked["group"] <= changed["group"]
      BY <1>0, JobFacts, ChangeFacts DEF JobOK, Inv, TypeInv
    <3>2. job[w].kind # "account"
      BY <3>1
    <3>3. job[w].kind = "group"
      BY <3>1, <3>2 DEF Kinds
    <3> QED
      BY <3>3 DEF Passed, Done, Current, At
  <2> QED
    BY <1>0, <1>2, <1>3, <2>1, <2>2, <2>3, <2>4, PublishedStep
<1> QED
  BY <1>4, <1>7, <1>8 DEF ServedInv

-----------------------------------------------------------------------------
(* AcknowledgedIsServed: the steps.                                        *)

LEMMA GotoLoad ==
    ASSUME job \in [Writers -> Jobs], NEW w \in Writers, NEW pc \in Steps, Goto(w, pc)
    PROVE  \E j : /\ Becomes(w, j) /\ Same(w, j)
                  /\ IsAt(j, pc, job[w].token, job[w].shared, job[w].era, job[w].late, job[w].ok)
                  /\ j.strict = job[w].strict /\ j.load = job[w].load
<1>1. PICK j : /\ Becomes(w, j) /\ Same(w, j)
               /\ IsAt(j, pc, job[w].token, job[w].shared, job[w].era, job[w].late, job[w].ok)
  BY GotoEffect
<1>2. j = [job[w] EXCEPT !.pc = pc] /\ job[w] \in Jobs
  BY <1>1 DEF Becomes, Goto
<1>3. j.strict = job[w].strict /\ j.load = job[w].load
  BY <1>2 DEF Jobs
<1> QED
  BY <1>1, <1>3

\* No writer is at once a worker of two kinds, or a worker and a request.
LEMMA Disjoint ==
    /\ \A w \in Rebuilders : w \notin Pollers \cup Retriers
    /\ \A w \in Requests : w \notin Workers /\ w \notin Pollers \cup Retriers
    /\ \A w \in Pollers : w \notin Retriers
  BY ConstantsAssumption DEF Workers

LEMMA BeginServed ==
    ASSUME Inv, ServedInv, NEW w \in Writers,
           \/ w \in Pollers /\ \E k \in Kinds, upto \in [Kinds -> 0..MaxChanges] : TakeEvent(w, k, upto)
           \/ w \in Retriers /\ \E k \in Kinds : TakeRetry(w, k)
           \/ w \in Rebuilders /\ BeginFullRebuild(w)
           \/ w \in Requests /\ Miss(w)
    PROVE  ServedInv'
<1>0. /\ job[w].pc = "idle" /\ job[w].kind = None /\ WritersMatch /\ MembersInv /\ PublishedInv
      /\ epoch \in Nat /\ epoch > 0 /\ ~job[w].late /\ job \in [Writers -> Jobs]
      /\ \A k \in Kinds : acked[k] \in Nat
  <2>1. Free(w)
    BY Zenon DEF TakeEvent, TakeRetry, BeginFullRebuild, Miss
  <2>2. job[w].pc = "idle"
    BY <2>1 DEF Free
  <2>3. epoch = lives + 1 /\ lives \in Nat
    BY DEF Inv, EpochInv, TypeInv, TypeOK
  <2>4. \A k \in Kinds : acked[k] \in Nat
    BY ChangeFacts DEF Inv, TypeInv
  <2> QED
    BY <2>2, <2>3, <2>4, QuietFacts DEF ServedInv, WritersMatch, At, Deciding
<1>1. UNCHANGED <<database, acked, epoch, retired, lease, active, versions, lock, lapses>>
  BY DEF TakeEvent, TakeRetry, BeginFullRebuild, Miss, bucket, outbox
<1>2. ASSUME NEW j, Becomes(w, j), j.pc \in {"lease", "capture", "list"}, ~j.shared, j.token = 0,
             \A k \in retry : k \in retry' \/ (w \in Retriers /\ j.kind = k)
      PROVE  ServedInv'
  <2>0. UNCHANGED <<group, members, changed>>
    BY <1>1 DEF database
  <2>1. /\ \A v \in Writers : v # w /\ InUse(v) => InUse(v)'
        /\ Published' <=> Published
        /\ Kept
    BY <1>1, SameVersions
  <2>2. Leaves(w) /\ epoch' \in Nat
    BY <1>0, <1>1, <2>1 DEF Leaves
  <2>3. OnTrack(w)' /\ ~Done(w)' /\ ~Holds(w)' /\ job'[w] = j /\ WriterOK(w, j)
    <3>1. Harmless(j) /\ WriterOK(w, j)
      BY <1>2 DEF Harmless, WriterOK, Publishing
    <3> QED
      BY <1>2, <3>1, HarmlessFacts, OtherJobs
  <2>4. WritersMatch'
    BY <1>0, <1>1, <1>2, <2>2, <2>3, WritersStep
  <2>5. HoldersAreFresh => HoldersAreFresh' /\ Kept
    BY <1>2, <2>0, <2>1, <2>2, <2>3, HoldersStep
  <2>6. MembersInv'
    BY <1>0, <1>1, <1>2, <2>0, <2>2, <2>3, <2>5, MembersStep DEF None
  <2>7. PublishedInv'
    <3>1. "group" \in retry => CaredFor'
      BY <1>2, <2>3 DEF CaredFor, Debt, TaskOpen
    <3>2. ~TaskLeft(w) /\ ~TaskOpen(w)
      BY <1>0 DEF TaskLeft, TaskOpen, None
    <3>3. Published => CaredFor'
      BY <2>1 DEF CaredFor
    <3> QED
      BY <1>0, <1>1, <1>2, <2>2, <2>3, <3>1, <3>2, <3>3, PublishedStep
  <2> QED
    BY <2>4, <2>6, <2>7 DEF ServedInv
<1>3. ASSUME NEW k \in Kinds, NEW upto \in [Kinds -> 0..MaxChanges], TakeEvent(w, k, upto)
      PROVE  ServedInv'
  <2> DEFINE j == [NoJob EXCEPT !.pc = FirstStep(k), !.kind = k, !.first = acked[k] + 1,
                               !.upto = upto]
  <2>1. job' = [job EXCEPT ![w] = j] /\ retry' = retry
    BY <1>3 DEF TakeEvent, outbox
  <2>2. upto \in [Kinds -> Nat] /\ acked[k] + 1 \in Nat /\ FirstStep(k) \in {"lease", "capture"}
    BY <1>0, ConstantsAssumption DEF FirstStep
  <2>3. j \in Jobs /\ j.pc = FirstStep(k) /\ j.shared = FALSE /\ j.token = 0
    BY <2>2 DEF NoJob, Jobs, Steps
  <2> QED
    BY <1>2, <2>1, <2>2, <2>3 DEF Becomes
<1>4. ASSUME NEW kind \in Kinds \cup {"full", "read"}, NEW pc \in {"lease", "capture", "list"},
             job' = [job EXCEPT ![w] = [NoJob EXCEPT !.pc = pc, !.kind = kind]],
             retry' = retry \/ (retry' = retry \ {kind} /\ w \in Retriers)
      PROVE  ServedInv'
  <2> DEFINE j == [NoJob EXCEPT !.pc = pc, !.kind = kind]
  <2>1. pc \in Steps /\ kind \in Kinds \cup {"full", "read", None}
    BY DEF Steps
  <2>2. j \in Jobs /\ j.pc = pc /\ j.shared = FALSE /\ j.token = 0 /\ j.kind = kind
    BY <2>1, StartEffect DEF IsFor, IsAt
  <2> QED
    BY <1>2, <1>4, <2>2 DEF Becomes
<1>5. ASSUME w \in Retriers, NEW k \in Kinds, TakeRetry(w, k)
      PROVE  ServedInv'
  <2>1. FirstStep(k) \in {"lease", "capture", "list"}
    BY DEF FirstStep
  <2> QED
    BY <1>4, <1>5, <2>1 DEF TakeRetry
<1>6. CASE BeginFullRebuild(w) \/ Miss(w)
  BY <1>4, <1>6 DEF BeginFullRebuild, Miss, outbox
<1> QED
  BY <1>3, <1>5, <1>6

LEMMA ListServed ==
    ASSUME Inv, ServedInv, NEW w \in Writers, w \notin Pollers \cup Retriers,
           ListBuckets(w) \/ ListActiveGroups(w)
    PROVE  ServedInv'
<1>0. /\ job[w].pc \in {"list", "groups"} /\ job[w].pc \notin Deciding \cup {"lease", "end"}
      /\ job \in [Writers -> Jobs] /\ job[w] \in Jobs
      /\ retired => job[w].token < epoch
      /\ epoch = lives + 1 /\ lives \in Nat
  BY QuietFacts DEF ListBuckets, ListActiveGroups, At, Deciding, ServedInv, WritersMatch
<1>1. UNCHANGED <<database, outbox, epoch, retired, active, versions, lease, lapses, lock>>
  BY DEF ListBuckets, ListActiveGroups, bucket
<1>2. ASSUME NEW j, Becomes(w, j), Same(w, j), j.pc \in {"groups", "capture", "lease", "end"},
             j.token \in {0, job[w].token}
      PROVE  ServedInv'
  <2>1. /\ \A v \in Writers : v # w /\ InUse(v) => InUse(v)'
        /\ Published' <=> Published
        /\ Kept
    BY <1>1, SameVersions
  <2>2. ~Holds(w)' /\ WriterOK(w, j) /\ (retired => j.token < epoch) /\ j.pc # "activate"
    BY <1>0, <1>2, OtherJobs DEF Holds, Publishing, WriterOK
  <2>3. (\A v \in Writers : v # w /\ lock' = v => lock = v) /\ lapses \subseteq lapses'
    BY <1>1
  <2>4. QuietMove(w, j)
    BY <1>0, <1>1, <1>2, <2>1, <2>2, <2>3 DEF QuietMove
  <2> QED
    BY <2>4, QuietServed
<1>3. CASE ListBuckets(w)
  <2> DEFINE i == job[w]
             j == [i EXCEPT !.pc = "groups", !.listed = registered]
  <2>1. job' = [job EXCEPT ![w] = j] /\ i \in Jobs /\ registered \in BOOLEAN
    BY <1>0, <1>3 DEF ListBuckets, Inv, TypeInv, TypeOK
  <2> HIDE DEF i
  <2>2. j \in Jobs /\ IsFor(j, i.kind, i.first, i.upto) /\ j.pc = "groups" /\ j.token = i.token
    BY <2>1 DEF Jobs, Steps, IsFor
  <2> HIDE DEF j
  <2>3. Becomes(w, j) /\ Same(w, j)
    BY <2>1, <2>2 DEF Becomes, Same, i
  <2> QED
    BY <1>2, <2>2, <2>3 DEF i
<1>4. ASSUME NEW pc \in {"capture", "lease"}, Goto(w, pc)
      PROVE  ServedInv'
  <2>1. pc \in Steps
    BY DEF Steps
  <2> QED
    BY <1>0, <1>2, <1>4, <2>1, GotoEffect DEF IsAt
<1>5. CASE Ends(w, TRUE)
  BY <1>0, <1>2, <1>5, EndsEffect DEF IsAt
<1> QED
  BY <1>3, <1>4, <1>5 DEF ListActiveGroups

LEMMA CaptureServed ==
    ASSUME Inv, ServedInv, NEW w \in Writers,
           (w \in Workers /\ CaptureBucketWriteToken(w)) \/ (w \in Requests /\ CaptureForRead(w))
    PROVE  ServedInv'
<1>0. /\ job[w].pc = "capture" /\ job[w].pc \notin Deciding \cup {"lease", "end"}
      /\ job \in [Writers -> Jobs] /\ job[w] \in Jobs /\ job[w].shared = FALSE /\ ~job[w].late
      /\ retired => job[w].token < epoch
      /\ epoch = lives + 1 /\ lives \in Nat
  <2>1. job[w].pc = "capture" /\ job[w].pc \notin Deciding \cup {"lease", "end"}
    BY DEF CaptureBucketWriteToken, CaptureForRead, At, Deciding
  <2> QED
    BY <2>1, QuietFacts, JobFields DEF ServedInv, WritersMatch, EraOK, Publishing
<1>1. UNCHANGED <<database, outbox, retired, active, versions, lease, lapses, lock>>
  BY DEF CaptureBucketWriteToken, CaptureForRead
<1>2. epoch' = epoch /\ Larger(1, epoch) = epoch /\ epoch \in Nat
  BY <1>0 DEF Larger, CaptureBucketWriteToken, CaptureForRead
<1>3. /\ \A v \in Writers : v # w /\ InUse(v) => InUse(v)'
      /\ Published' <=> Published
      /\ Kept
  BY <1>1, SameVersions
<1>4. ASSUME NEW j, Becomes(w, j), Same(w, j), j.pc \in {"lease", "lock", "load"}, ~j.shared,
             j.pc = "load" => w \notin Pollers \cup Retriers,
             j.pc = "lock" /\ w \in Pollers \cup Retriers => j.strict,
             retired => j.token < epoch
      PROVE  ServedInv'
  <2>1. ~Holds(w)' /\ WriterOK(w, j) /\ j.pc # "activate"
    BY <1>4, OtherJobs DEF Holds, Publishing, WriterOK
  <2>2. w \in Pollers \cup Retriers => OnTrack(w)' /\ ~Done(w)'
    <3>1. w \in Pollers \cup Retriers => Harmless(j)
      BY <1>4 DEF Harmless, Publishing
    <3> QED
      BY <1>4, <3>1, HarmlessFacts
  <2>3. (\A v \in Writers : v # w /\ lock' = v => lock = v) /\ lapses \subseteq lapses'
    BY <1>1
  <2>4. QuietMove(w, j)
    BY <1>0, <1>1, <1>2, <1>3, <1>4, <2>1, <2>2, <2>3 DEF QuietMove
  <2> QED
    BY <2>4, QuietServed
<1>5. CASE Goto(w, "lease")
  <2>1. "lease" \in Steps
    BY DEF Steps
  <2> QED
    BY <1>0, <1>4, <1>5, <2>1, GotoEffect DEF IsAt
<1> DEFINE i == job[w]
<1>6. CASE /\ ~retired /\ w \in Workers
           /\ job' = [job EXCEPT ![w].pc = "lock", ![w].token = epoch', ![w].strict = (w \notin Rebuilders)]
  <2> DEFINE j == [i EXCEPT !.pc = "lock", !.token = epoch, !.strict = (w \notin Rebuilders)]
  <2>0. i \in Jobs /\ epoch \in Nat
    BY <1>0, <1>2
  <2>1. job' = [job EXCEPT ![w] = j]
    BY <1>2, <1>6
  <2> HIDE DEF i
  <2>2. /\ j \in Jobs /\ IsFor(j, i.kind, i.first, i.upto) /\ j.pc = "lock" /\ j.shared = i.shared
        /\ j.strict = (w \notin Rebuilders)
    BY <2>0 DEF Jobs, Steps, IsFor
  <2> HIDE DEF j
  <2>3. Becomes(w, j) /\ Same(w, j)
    BY <2>1, <2>2 DEF Becomes, Same, i
  <2> QED
    BY <1>0, <1>4, <1>6, <2>2, <2>3, Disjoint DEF i
<1>7. CASE /\ ~retired /\ w \in Requests
           /\ job' = [job EXCEPT ![w].pc = "load", ![w].token = epoch']
  <2> DEFINE j == [i EXCEPT !.pc = "load", !.token = epoch]
  <2>0. i \in Jobs /\ epoch \in Nat
    BY <1>0, <1>2
  <2>1. job' = [job EXCEPT ![w] = j]
    BY <1>2, <1>7
  <2> HIDE DEF i
  <2>2. j \in Jobs /\ IsFor(j, i.kind, i.first, i.upto) /\ j.pc = "load" /\ j.shared = i.shared
    BY <2>0 DEF Jobs, Steps, IsFor
  <2> HIDE DEF j
  <2>3. Becomes(w, j) /\ Same(w, j)
    BY <2>1, <2>2 DEF Becomes, Same, i
  <2> QED
    BY <1>0, <1>4, <1>7, <2>2, <2>3, Disjoint DEF i
<1>8. CASE w \in Requests /\ job' = [job EXCEPT ![w] = NoJob]
  <2>1. Becomes(w, NoJob) /\ w \notin Workers /\ w \notin Pollers \cup Retriers
    BY <1>8, NoJobEffect, Disjoint DEF Becomes
  <2>2. acked' = acked /\ retry' = retry
    BY <1>1 DEF outbox
  <2> QED
    BY <1>1, <1>2, <2>1, <2>2, EndServed
<1> QED
  BY <1>5, <1>6, <1>7, <1>8 DEF CaptureBucketWriteToken, CaptureForRead

LEMMA LockServed ==
    ASSUME Inv, ServedInv, NEW w \in Workers, TryLockBucket(w) \/ UnlockBucket(w)
    PROVE  ServedInv'
<1>0. /\ job[w].pc \in {"lock", "unlock"} /\ job[w].pc \notin Deciding \cup {"lease", "end"}
      /\ w \in Writers
  BY DEF TryLockBucket, UnlockBucket, At, Deciding, Writers
<1>1. UNCHANGED <<database, outbox, epoch, retired, active, versions, lease, lapses>>
  BY DEF TryLockBucket, UnlockBucket, bucket
<1>2. /\ job \in [Writers -> Jobs] /\ job[w] \in Jobs /\ EraOK(job[w], epoch, lives)
      /\ epoch = lives + 1 /\ lives \in Nat /\ (retired => job[w].token < epoch)
      /\ w \in Pollers \cup Retriers /\ job[w].pc = "lock" => job[w].strict
  BY <1>0, QuietFacts DEF ServedInv, WritersMatch
<1>3. \A v \in Writers : v # w /\ lock' = v => lock = v
  <2>1. \A v \in Writers : v # None /\ v # Left
    BY ConstantsAssumption
  <2> QED
    BY <2>1 DEF TryLockBucket, UnlockBucket
<1>4. ASSUME NEW j, Becomes(w, j), Same(w, j), WriterOK(w, j), j.pc \in {"load", "end"},
             j.token \in {0, job[w].token},
             w \in Pollers \cup Retriers /\ OnTrack(w) /\ (Fresh => Fresh') => OnTrack(w)',
             w \in Pollers \cup Retriers /\ Done(w)' => Done(w)
      PROVE  ServedInv'
  <2>1. /\ \A v \in Writers : v # w /\ InUse(v) => InUse(v)'
        /\ Published' <=> Published
        /\ Kept
    BY <1>0, <1>1, SameVersions
  <2>2. ~Holds(w)' /\ j.pc # "activate" /\ (retired => j.token < epoch)
    BY <1>0, <1>2, <1>4, OtherJobs DEF Holds, Publishing
  <2>3. QuietMove(w, j)
    BY <1>0, <1>1, <1>3, <1>4, <2>1, <2>2 DEF QuietMove
  <2> QED
    BY <1>0, <2>3, QuietServed
<1>5. CASE job[w].pc = "lock" /\ lock = None /\ lock' = w /\ Goto(w, "load")
  <2>1. "load" \in Steps
    BY DEF Steps
  <2>2. PICK j : /\ Becomes(w, j) /\ Same(w, j)
                 /\ IsAt(j, "load", job[w].token, job[w].shared, job[w].era, job[w].late, job[w].ok)
                 /\ j.strict = job[w].strict /\ j.load = job[w].load
    BY <1>0, <1>2, <1>5, <2>1, GotoLoad
  <2>3. /\ j.pc = "load" /\ j.token = job[w].token /\ j.shared = job[w].shared
        /\ j.strict = job[w].strict /\ j.load = job[w].load
        /\ \A v \in Writers : job'[v] = IF v = w THEN j ELSE job[v]
    BY <1>0, <2>2, OtherJobs DEF IsAt
  <2>4. HoldersAreFresh'
    BY <1>0, <1>5, <2>3 DEF HoldersAreFresh, Holds, Publishing
  <2>5. members' = members
    BY <1>1 DEF database
  <2>6. OnTrack(w) => OnTrack(w)'
    BY <1>0, <2>3, <2>4, <2>5 DEF OnTrack, Publishing, Done, At
  <2>7. ~Done(w)' /\ WriterOK(w, j)
    BY <1>0, <1>2, <1>5, <2>3 DEF Done, At, WriterOK, Publishing
  <2> QED
    BY <1>4, <2>2, <2>3, <2>6, <2>7
<1>6. CASE job[w].pc = "lock" /\ Ends(w, ~job[w].strict)
  <2>1. (~job[w].strict) \in BOOLEAN
    OBVIOUS
  <2>2. PICK j : /\ Becomes(w, j) /\ Same(w, j)
                 /\ IsAt(j, "end", 0, FALSE, 0, job[w].late, ~job[w].strict)
    BY <1>0, <1>2, <1>6, <2>1, EndsEffect
  <2>3. /\ j.pc = "end" /\ j.token = 0 /\ ~j.shared /\ WriterOK(w, j)
        /\ w \in Pollers \cup Retriers => ~j.ok
    BY <1>2, <1>6, <2>2 DEF IsAt, WriterOK, Publishing
  <2>4. w \in Pollers \cup Retriers => OnTrack(w)' /\ ~Done(w)'
    <3>1. w \in Pollers \cup Retriers => Harmless(j)
      BY <2>3 DEF Harmless, Publishing
    <3> QED
      BY <1>0, <2>2, <3>1, HarmlessFacts
  <2> QED
    BY <1>4, <2>2, <2>3, <2>4
<1>7. CASE job[w].pc = "unlock" /\ Goto(w, "end")
  <2>1. "end" \in Steps
    BY DEF Steps
  <2>2. PICK j : /\ Becomes(w, j) /\ Same(w, j)
                 /\ IsAt(j, "end", job[w].token, job[w].shared, job[w].era, job[w].late, job[w].ok)
    BY <1>0, <1>2, <1>7, <2>1, GotoEffect
  <2>3. /\ j.pc = "end" /\ j.token = job[w].token /\ j.shared = FALSE /\ j.ok = job[w].ok
        /\ job'[w] = j
    BY <1>0, <1>2, <1>7, <2>2, OtherJobs, JobFields DEF IsAt, EraOK, Publishing
  <2>4. Done(w)' => Done(w)
    BY <1>7, <2>3 DEF Done, At
  <2>5. OnTrack(w) /\ (Fresh => Fresh') => OnTrack(w)'
    BY <2>3, <2>4 DEF OnTrack, Publishing, At
  <2>6. WriterOK(w, j)
    BY <2>3 DEF WriterOK, Publishing
  <2> QED
    BY <1>4, <2>2, <2>3, <2>4, <2>5, <2>6
<1> QED
  BY <1>5, <1>6, <1>7 DEF TryLockBucket, UnlockBucket, At

LEMMA LoadServed ==
    ASSUME Inv, ServedInv, NEW w \in Writers,
           LoadForSibling(w) \/ LoadAccounts(w) \/ WithLatestSchedulerAccounts(w)
    PROVE  ServedInv'
<1>0. /\ job[w].pc \in {"lock", "load", "latest"}
      /\ job[w].pc \notin Deciding \cup {"lease", "end"}
  BY DEF LoadForSibling, LoadAccounts, WithLatestSchedulerAccounts, At, Deciding
<1>1. UNCHANGED <<database, outbox, epoch, retired, active, versions, lease, lapses, lock>>
  BY DEF LoadForSibling, LoadAccounts, WithLatestSchedulerAccounts, bucket
<1>2. /\ job \in [Writers -> Jobs] /\ job[w] \in Jobs /\ (retired => job[w].token < epoch)
      /\ w \in Pollers \cup Retriers => job[w].strict
      /\ members \subseteq Accounts /\ members' = members /\ lives \in Nat
  BY <1>0, <1>1, QuietFacts DEF ServedInv, WritersMatch, Publishing, Inv, TypeInv, TypeOK, database
<1>3. ASSUME NEW j, Becomes(w, j), Same(w, j), j.token = job[w].token, j.strict = job[w].strict,
             \/ j.pc = "lock" /\ j.load = members
             \/ /\ j.pc \in {"latest", "allocate"} /\ job[w].pc \in {"load", "latest"}
                /\ \/ j.load = members
                   \/ job[w].shared /\ j.shared /\ j.load = job[w].load
                   \/ job[w].pc = "latest" /\ j.shared = job[w].shared /\ j.load = job[w].load \cap members
      PROVE  ServedInv'
  <2>1. /\ \A v \in Writers : v # w /\ InUse(v) => InUse(v)'
        /\ Published' <=> Published
        /\ Kept
    BY <1>1, SameVersions
  <2>2. job'[w] = j /\ WriterOK(w, j) /\ ~Done(w)' /\ j.pc # "activate"
    BY <1>2, <1>3, OtherJobs DEF WriterOK, Publishing, Done, At
  <2>3. HoldersAreFresh /\ Holds(w)' => j.load = members
    <3>1. job[w].pc = "latest" /\ Holds(w)' /\ ~job[w].shared => Holds(w)
      BY <1>1, <1>3, <2>2 DEF Holds, Publishing
    <3>2. HoldersAreFresh /\ Holds(w) => job[w].load = members
      <4>1. w # None /\ w # Left /\ lock \in Workers \cup {None, Left}
        BY ConstantsAssumption DEF Inv, TypeInv, TypeOK
      <4> QED
        BY <4>1 DEF HoldersAreFresh, Holds
    <3>3. Holds(w)' => ~j.shared /\ j.pc \in Publishing
      BY <2>2 DEF Holds
    <3> QED
      BY <1>3, <3>1, <3>2, <3>3 DEF Publishing
  <2>4. OnTrack(w) /\ (HoldersAreFresh => HoldersAreFresh') => OnTrack(w)'
    <3>1. OnTrack(w) => j.load = members
      BY <1>3 DEF OnTrack, Publishing
    <3>2. OnTrack(w) /\ job[w].pc \in {"load", "latest"} => HoldersAreFresh
      BY DEF OnTrack, Publishing
    <3> QED
      BY <1>2, <1>3, <2>2, <3>1, <3>2 DEF OnTrack, Publishing, At
  <2> QED
    BY <1>0, <1>1, <1>2, <1>3, <2>1, <2>2, <2>3, <2>4, QuietServed DEF QuietMove
<1> DEFINE i == job[w]
<1>4. i \in Jobs
  BY <1>2
<1>5. CASE LoadForSibling(w)
  <2> DEFINE j == [i EXCEPT !.shared = TRUE, !.load = members, !.era = lives]
  <2>1. job' = [job EXCEPT ![w] = j] /\ i.pc = "lock"
    BY <1>5 DEF LoadForSibling, At
  <2> HIDE DEF i
  <2>2. /\ j \in Jobs /\ IsFor(j, i.kind, i.first, i.upto) /\ j.pc = i.pc /\ j.token = i.token
        /\ j.strict = i.strict /\ j.load = members
    BY <1>2, <1>4 DEF Jobs, IsFor
  <2> HIDE DEF j
  <2>3. Becomes(w, j) /\ Same(w, j)
    BY <2>1, <2>2 DEF Becomes, Same, i
  <2> QED
    BY <1>3, <2>1, <2>2, <2>3 DEF i
<1>6. CASE LoadAccounts(w)
  <2>0. PICK pc \in {"latest", "allocate"} :
          job' = IF job[w].shared THEN [job EXCEPT ![w].pc = pc]
                 ELSE [job EXCEPT ![w].pc = pc, ![w].load = members, ![w].era = lives]
    BY <1>6 DEF LoadAccounts
  <2>1. i.pc = "load"
    BY <1>6 DEF LoadAccounts, At
  <2>2. CASE job[w].shared
    <3> DEFINE j == [i EXCEPT !.pc = pc]
    <3>1. job' = [job EXCEPT ![w] = j]
      BY <2>0, <2>2
    <3> HIDE DEF i
    <3>2. /\ j \in Jobs /\ IsFor(j, i.kind, i.first, i.upto) /\ j.pc = pc /\ j.token = i.token
          /\ j.strict = i.strict /\ j.load = i.load /\ j.shared = i.shared
      BY <1>4 DEF Jobs, Steps, IsFor
    <3> HIDE DEF j
    <3>3. Becomes(w, j) /\ Same(w, j)
      BY <3>1, <3>2 DEF Becomes, Same, i
    <3> QED
      BY <1>3, <2>1, <2>2, <3>2, <3>3 DEF i
  <2>3. CASE ~job[w].shared
    <3> DEFINE j == [i EXCEPT !.pc = pc, !.load = members, !.era = lives]
    <3>1. job' = [job EXCEPT ![w] = j]
      BY <2>0, <2>3
    <3> HIDE DEF i
    <3>2. /\ j \in Jobs /\ IsFor(j, i.kind, i.first, i.upto) /\ j.pc = pc /\ j.token = i.token
          /\ j.strict = i.strict /\ j.load = members
      BY <1>2, <1>4 DEF Jobs, Steps, IsFor
    <3> HIDE DEF j
    <3>3. Becomes(w, j) /\ Same(w, j)
      BY <3>1, <3>2 DEF Becomes, Same, i
    <3> QED
      BY <1>3, <2>1, <3>2, <3>3 DEF i
  <2> QED
    BY <2>2, <2>3
<1>7. CASE WithLatestSchedulerAccounts(w)
  <2> DEFINE j == [i EXCEPT !.pc = "allocate", !.load = @ \cap members]
  <2>1. job' = [job EXCEPT ![w] = j] /\ i.pc = "latest"
    BY <1>7 DEF WithLatestSchedulerAccounts, At
  <2> HIDE DEF i
  <2>2. /\ j \in Jobs /\ IsFor(j, i.kind, i.first, i.upto) /\ j.pc = "allocate" /\ j.token = i.token
        /\ j.strict = i.strict /\ j.load = i.load \cap members /\ j.shared = i.shared
    BY <1>4 DEF Jobs, Steps, IsFor
  <2> HIDE DEF j
  <2>3. Becomes(w, j) /\ Same(w, j)
    BY <2>1, <2>2 DEF Becomes, Same, i
  <2> QED
    BY <1>3, <2>1, <2>2, <2>3 DEF i
<1> QED
  BY <1>5, <1>6, <1>7

\* After SetSnapshot: the writer's version is gone, or has become the active
\* one, or was never allocated.
LEMMA AfterSetServed ==
    ASSUME Inv, ServedInv, NEW w \in Writers, NEW ok \in BOOLEAN, AfterSet(w, ok),
           job[w].pc \in {"load"} \cup Publishing,
           UNCHANGED <<database, outbox, epoch, retired, lease, lock>>,
           \A v \in Writers : v # w /\ InUse(v) => InUse(v)',
           lapses \subseteq lapses', Published => Published',
           "raced" \notin lapses' /\ HoldersAreFresh => Kept,
           ok /\ w \in Pollers \cup Retriers =>
             Published' /\ ("raced" \notin lapses' /\ OnTrack(w) => active'.set = members)
    PROVE  ServedInv'
<1>0. /\ job[w].pc \notin Deciding \cup {"lease", "end"} /\ members' = members
      /\ \A v \in Writers : v # w /\ lock' = v => lock = v
  BY DEF Deciding, Publishing, database
<1>1. job \in [Writers -> Jobs] /\ job[w] \in Jobs /\ epoch = lives + 1 /\ lives \in Nat
  BY <1>0, QuietFacts
<1>2. ASSUME NEW j, Becomes(w, j), Same(w, j), w \notin Requests,
             IsAt(j, "unlock", 0, FALSE, 0, job[w].late, ok)
      PROVE  ServedInv'
  <2>1. /\ j.pc = "unlock" /\ ~j.shared /\ j.token = 0 /\ j.ok = ok /\ job'[w] = j
        /\ WriterOK(w, j) /\ ~Holds(w)'
    BY <1>2, OtherJobs DEF IsAt, WriterOK, Publishing, Holds
  <2>2. ~ok => ~Done(w)'
    BY <2>1 DEF Done, At
  <2>3. /\ "raced" \notin lapses' /\ w \in Pollers \cup Retriers /\ OnTrack(w)
        /\ (HoldersAreFresh => HoldersAreFresh')
        => OnTrack(w)'
    <3>1. OnTrack(w) => HoldersAreFresh
      BY DEF OnTrack
    <3>2. HoldersAreFresh' /\ active'.set = members => Fresh'
      BY <1>0 DEF Fresh
    <3> QED
      BY <2>1, <2>2, <3>1, <3>2 DEF OnTrack, Publishing, At
  <2>4. w \in Pollers \cup Retriers /\ Done(w)' => Published'
    BY <2>2
  <2>5. retired => j.token < epoch
    BY <1>1, <2>1
  <2> QED
    BY <1>0, <1>2, <2>1, <2>3, <2>4, <2>5, QuietServed DEF QuietMove
<1>3. ASSUME w \in Requests, Becomes(w, NoJob)
      PROVE  ServedInv'
  <2>1. w \notin Workers /\ w \notin Pollers /\ w \notin Retriers
    BY <1>3, Disjoint
  <2>2. /\ ~Holds(w)' /\ WriterOK(w, NoJob) /\ NoJob.pc = "idle" /\ NoJob.token = 0
    BY <1>3, HarmlessFacts, NoJobFacts
  <2>3. /\ WritersMatch /\ MembersInv /\ PublishedInv /\ epoch' \in Nat /\ epoch' > 0
        /\ acked' = acked /\ retry' = retry /\ Leaves(w)
    BY <1>0, <1>1 DEF ServedInv, outbox, Leaves
  <2>4. WritersMatch'
    BY <1>3, <2>2, <2>3, WritersStep
  <2>5. "raced" \notin lapses' /\ HoldersAreFresh => HoldersAreFresh' /\ Kept
    BY <1>0, <1>3, <2>2, <2>3, HoldersStep
  <2>6. MembersInv'
    BY <1>3, <2>1, <2>3, <2>5, MembersStep
  <2>7. PublishedInv'
    <3>1. ("group" \in retry \/ Published) => CaredFor'
      BY <2>3 DEF CaredFor, Debt
    <3> QED
      BY <1>3, <2>1, <2>3, <3>1, PublishedStep
  <2> QED
    BY <2>4, <2>6, <2>7 DEF ServedInv
<1> QED
  BY <1>1, <1>2, <1>3, AfterSetEffect

LEMMA AllocateServed ==
    ASSUME Inv, ServedInv, NEW w \in Writers, AllocateSnapshotVersion(w)
    PROVE  ServedInv'
<1>0. /\ job[w].pc = "allocate" /\ job[w].pc \notin Deciding \cup {"lease", "end"}
      /\ job[w].pc \in {"load"} \cup Publishing
  BY DEF AllocateSnapshotVersion, At, Deciding, Publishing
<1>1. UNCHANGED <<database, outbox, epoch, retired, active, lease, lapses, lock>>
  BY DEF AllocateSnapshotVersion
<1>2. /\ job \in [Writers -> Jobs] /\ job[w] \in Jobs /\ (retired => job[w].token < epoch)
      /\ w \in Pollers \cup Retriers => job[w].strict
      /\ members' = members /\ TypeOK /\ VersionsMatch
  BY <1>0, <1>1, QuietFacts DEF ServedInv, WritersMatch, Publishing, Inv, TypeInv, database
<1>3. CASE AfterSet(w, ~job[w].strict) /\ versions' = versions
  <2>1. (~job[w].strict) \in BOOLEAN
    OBVIOUS
  <2>2. /\ \A v \in Writers : v # w /\ InUse(v) => InUse(v)'
        /\ Published' <=> Published
        /\ Kept
    BY <1>1, <1>3, SameVersions
  <2>3. lapses \subseteq lapses'
    BY <1>1
  <2> QED
    BY <1>0, <1>1, <1>2, <1>3, <2>1, <2>2, <2>3, AfterSetServed
<1>4. CASE versions' = Append(versions, w) /\ Goto(w, "activate")
  <2>1. "activate" \in Steps
    BY DEF Steps
  <2>2. PICK j : /\ Becomes(w, j) /\ Same(w, j)
                 /\ IsAt(j, "activate", job[w].token, job[w].shared, job[w].era, job[w].late,
                         job[w].ok)
                 /\ j.strict = job[w].strict /\ j.load = job[w].load
    BY <1>2, <1>4, <2>1, GotoLoad
  <2>3. /\ j.pc = "activate" /\ j.token = job[w].token /\ j.shared = job[w].shared
        /\ j.strict = job[w].strict /\ j.load = job[w].load /\ job'[w] = j
    BY <2>2, OtherJobs DEF IsAt
  <2>4. /\ InUse(w)' /\ \A v \in Writers : InUse(v) => InUse(v)'
        /\ Published' <=> Published
        /\ \A v \in Writers : Before(v, Marker)' => Before(v, Marker)
    BY <1>2, <1>4, AppendedEffect
  <2>5. Kept
    BY <1>1, <2>4 DEF Kept
  <2>6. ~Before(w, Marker)'
    <3>1. w # Marker
      BY ConstantsAssumption
    <3>2. ~Before(w, Marker)
      BY <1>0, <1>2, <3>1 DEF Before, VersionsMatch, At
    <3> QED
      BY <2>4, <3>2
  <2>7. HoldersAreFresh /\ Holds(w)' => j.load = members
    <3>1. Holds(w)' => Holds(w)
      BY <1>0, <1>1, <2>3 DEF Holds, Publishing
    <3>2. w # None /\ w # Left /\ lock \in Workers \cup {None, Left}
      BY <1>2, ConstantsAssumption DEF TypeOK
    <3>3. Holds(w) => w \in Workers
      BY <3>2 DEF Holds
    <3> QED
      BY <2>3, <3>1, <3>3 DEF HoldersAreFresh
  <2>8. ~Done(w)' /\ WriterOK(w, j)
    BY <1>2, <2>3 DEF Done, At, WriterOK
  <2>9. OnTrack(w) /\ (HoldersAreFresh => HoldersAreFresh') => OnTrack(w)'
    <3>1. OnTrack(w) => j.load = members /\ HoldersAreFresh
      BY <1>0, <2>3 DEF OnTrack, Publishing
    <3> QED
      BY <1>2, <2>3, <2>6, <2>8, <3>1 DEF OnTrack
  <2> QED
    BY <1>0, <1>1, <1>2, <2>2, <2>3, <2>4, <2>5, <2>7, <2>8, <2>9, QuietServed DEF QuietMove
<1> QED
  BY <1>3, <1>4 DEF AllocateSnapshotVersion

LEMMA ActivateServed ==
    ASSUME Inv, ServedInv, NEW w \in Writers, ActivateSnapshotVersion(w)
    PROVE  ServedInv'
<1>0. /\ job[w].pc = "activate" /\ job[w].pc \notin Deciding \cup {"lease", "end"}
      /\ job[w].pc \in {"load"} \cup Publishing
  BY DEF ActivateSnapshotVersion, At, Deciding, Publishing
<1>1. UNCHANGED <<database, outbox, epoch, retired, lease, lock>>
  BY DEF ActivateSnapshotVersion
<1>2. /\ job \in [Writers -> Jobs] /\ job[w] \in Jobs /\ InUse(w)
      /\ w \in Pollers \cup Retriers => job[w].strict
      /\ members' = members /\ TypeOK /\ VersionsMatch
      /\ lock \in Workers \cup {None, Left} /\ w # None /\ w # Left
  BY <1>0, <1>1, QuietFacts, ConstantsAssumption
     DEF ServedInv, WritersMatch, At, Publishing, Inv, TypeInv, database
<1>3. ASSUME NEW ok \in BOOLEAN, AfterSet(w, ok), versions' = Without(w),
             UNCHANGED <<active, lapses>>,
             ok /\ w \in Pollers \cup Retriers =>
               Published' /\ ("raced" \notin lapses' /\ OnTrack(w) => active'.set = members)
      PROVE  ServedInv'
  <2>1. /\ \A v \in Writers : v # w /\ InUse(v) => InUse(v)'
        /\ Published' <=> Published
        /\ Kept
    BY <1>3, SameVersions
  <2>2. lapses \subseteq lapses'
    BY <1>3
  <2> QED
    BY <1>0, <1>1, <1>3, <2>1, <2>2, AfterSetServed
<1>4. CASE versions' = Without(w) /\ AfterSet(w, ~job[w].strict) /\ UNCHANGED <<active, lapses>>
  <2>1. (~job[w].strict) \in BOOLEAN
    OBVIOUS
  <2> QED
    BY <1>2, <1>3, <1>4, <2>1
<1>5. CASE /\ Published /\ Place(w) < Place(Marker)
           /\ versions' = Without(w) /\ AfterSet(w, TRUE) /\ UNCHANGED <<active, lapses>>
  <2>1. Before(w, Marker)
    BY <1>2, <1>5, OlderEffect DEF Published
  <2>2. OnTrack(w) => active'.set = members
    BY <1>0, <1>5, <2>1 DEF OnTrack, At
  <2>3. Published'
    BY <1>2, <1>5, DroppedEffect
  <2> QED
    BY <1>3, <1>5, <2>2, <2>3
<1>6. ASSUME ~Fenced(w), Install(w), NEW ok \in BOOLEAN, AfterSet(w, ok)
      PROVE  ServedInv'
  <2>1. Published' /\ \A v \in Writers : v # w /\ InUse(v) => InUse(v)'
    BY <1>2, <1>6, InstalledEffect
  <2>2. active'.set = job[w].load /\ lapses \subseteq lapses' /\ ("raced" \notin lapses' => ~Races(w))
    BY <1>6 DEF Install
  <2>3. OnTrack(w) => active'.set = members
    BY <1>0, <2>2 DEF OnTrack, Publishing
  <2>4. ASSUME HoldersAreFresh, ~Races(w)
        PROVE  job[w].load = members
    <3> SUFFICES ASSUME w \notin Requests, ~job[w].shared, lock = w
                 PROVE  job[w].load = members
      BY <2>4 DEF Races
    <3>1. Holds(w) /\ w \in Workers
      BY <1>0, <1>2, <1>6 DEF Holds, Fenced, Publishing
    <3> QED
      BY <2>4, <3>1 DEF HoldersAreFresh
  <2>5. "raced" \notin lapses' /\ HoldersAreFresh => Kept
    BY <2>2, <2>4 DEF Kept
  <2> QED
    BY <1>0, <1>1, <1>6, <2>1, <2>2, <2>3, <2>5, AfterSetServed
<1> QED
  BY <1>4, <1>5, <1>6 DEF ActivateSnapshotVersion

-----------------------------------------------------------------------------
(* AcknowledgedIsServed: the end of a job.                                 *)

LEMMA RequestEndsServed ==
    ASSUME Inv, ServedInv, NEW w \in Requests, RequestEnds(w)
    PROVE  ServedInv'
<1>1. /\ UNCHANGED <<database, outbox, epoch, retired, active, lock, lease, lapses>>
      /\ versions' = Without(w) /\ w \in Writers /\ Becomes(w, NoJob)
  BY NoJobEffect DEF RequestEnds, Becomes, Writers
<1>2. acked' = acked /\ retry' = retry /\ w \notin Workers /\ w \notin Pollers \cup Retriers
  BY <1>1, Disjoint DEF outbox
<1> QED
  BY <1>1, <1>2, EndServed

LEMMA SucceedServed ==
    ASSUME Inv, ServedInv, NEW w \in Workers, Succeed(w)
    PROVE  ServedInv'
<1>1. /\ UNCHANGED <<database, retry, epoch, retired, active, lock, lease, lapses, versions>>
      /\ job[w].pc = "end" /\ job[w].ok /\ ~job[w].late
  BY EndFacts DEF Succeed, bucket, At
<1>2. w \in Writers /\ Becomes(w, NoJob)
  BY EndFacts, NoJobEffect DEF Succeed, Becomes
<1>3. \A k \in Kinds : acked'[k] = changed[k] =>
             \/ acked[k] = changed[k] \/ k \in retry'
             \/ w \in Pollers /\ job[w].pc = "end" /\ job[w].ok /\ job[w].upto[k] = changed[k]
  <2>1. CASE w \in Pollers
    <3>1. acked' = [k \in Kinds |-> Larger(acked[k], job[w].upto[k])]
      BY <2>1 DEF Succeed, Acknowledge
    <3>2. \A k \in Kinds : acked'[k] \in {acked[k], job[w].upto[k]}
      BY <3>1 DEF Larger
    <3> QED
      BY <1>1, <2>1, <3>2
  <2>2. CASE w \notin Pollers
    BY <2>2 DEF Succeed
  <2> QED
    BY <2>1, <2>2
<1> QED
  BY <1>1, <1>2, <1>3, EndServed

LEMMA FailServed ==
    ASSUME Inv, ServedInv, NEW w \in Workers,
           \/ w \in Pollers /\ FailEvent(w)
           \/ w \in Retriers /\ FailRetry(w)
           \/ w \in Rebuilders /\ FailFullRebuild(w)
    PROVE  ServedInv'
<1>1. /\ UNCHANGED <<database, epoch, retired, active, lock, lease, versions>>
  BY DEF FailEvent, FailRetry, FailFullRebuild, bucket
<1>2. w \in Writers /\ Becomes(w, NoJob)
  BY EndFacts, NoJobEffect DEF FailEvent, FailRetry, FailFullRebuild, Becomes
<1>3. ASSUME retry' = retry \cup {job[w].kind}, Overtaken(w, job[w].kind = "group"),
             acked' = acked \/ AcknowledgeFirst(w)
      PROVE  ServedInv'
  <2>1. \A k \in Kinds : acked'[k] = changed[k] => acked[k] = changed[k] \/ k \in retry'
    BY <1>3, EndFacts DEF AcknowledgeFirst
  <2>2. /\ lapses \subseteq lapses' /\ retry \subseteq retry' /\ job[w].kind \in retry'
        /\ job[w].late => "group" \in retry' \/ "overtaken" \in lapses'
    BY <1>3 DEF Overtaken
  <2> QED
    BY <1>1, <1>2, <2>1, <2>2, EndServed
<1>4. ASSUME UNCHANGED outbox, w \notin Retriers, Overtaken(w, FALSE)
      PROVE  ServedInv'
  <2>1. acked' = acked /\ retry' = retry /\ lapses \subseteq lapses' /\ (job[w].late => "overtaken" \in lapses')
    BY <1>4 DEF outbox, Overtaken
  <2> QED
    BY <1>1, <1>2, <1>4, <2>1, EndServed
<1>5. CASE w \in Pollers /\ FailEvent(w)
  BY <1>3, <1>4, <1>5, Disjoint DEF FailEvent
<1>6. CASE w \in Retriers /\ FailRetry(w)
  BY <1>3, <1>6 DEF FailRetry
<1>7. CASE w \in Rebuilders /\ FailFullRebuild(w)
  BY <1>4, <1>7, Disjoint DEF FailFullRebuild
<1> QED
  BY <1>5, <1>6, <1>7

LEMMA CrashServed ==
    ASSUME Inv, ServedInv, NEW w \in Workers, Crash(w)
    PROVE  ServedInv'
<1>1. /\ UNCHANGED <<database, acked, epoch, retired, active>> /\ versions' = Without(w)
  BY DEF Crash
<1>2. w \in Writers /\ Becomes(w, NoJob) /\ Left \notin Writers
  BY EndFacts, NoJobEffect, ConstantsAssumption DEF Crash, Becomes
<1>3. /\ \A v \in Writers : v # w /\ lock' = v => lock = v
      /\ \A v \in Writers : v # w /\ lease' = v => lease = v
  BY <1>2 DEF Crash
<1>4. /\ lapses \subseteq lapses' /\ retry \subseteq retry' /\ (w \in Retriers => job[w].kind \in retry')
      /\ job[w].late => "group" \in retry' \/ "overtaken" \in lapses'
  BY DEF Crash, Overtaken
<1> QED
  BY <1>1, <1>2, <1>3, <1>4, EndServed

-----------------------------------------------------------------------------
(* AcknowledgedIsServed: the group's lifecycle, and failing calls.         *)

\* A step of a worker that leaves the database and the outbox alone, after
\* which the job still keeps what it promises.
LifecycleMove(w, j) ==
    /\ Becomes(w, j) /\ Same(w, j) /\ WriterOK(w, j) /\ Leaves(w)
    /\ UNCHANGED <<database, outbox>>
    /\ retired' => (retired /\ epoch' = epoch) \/ epoch < epoch'
    /\ j.pc # "activate" /\ (retired' => j.token < epoch') /\ ~Holds(w)'
    /\ HoldersAreFresh => Kept
    /\ "raced" \notin lapses' /\ OnTrack(w) /\ (HoldersAreFresh => HoldersAreFresh') /\ (Fresh => Fresh')
         => OnTrack(w)'
    /\ w \in Pollers /\ Passed(w)' /\ Done(w)' => (Passed(w) /\ Done(w)) \/ CaredFor'
    /\ Handled /\ Published => CaredFor'
    /\ job[w].late => CaredFor'
    /\ Handled /\ w \in Retriers /\ (TaskLeft(w) \/ TaskOpen(w)) => CaredFor'

LEMMA LifecycleServed ==
    ASSUME Inv, Inv', ServedInv, NEW w \in Workers, NEW j, LifecycleMove(w, j)
    PROVE  ServedInv'
<1>0. /\ w \in Writers /\ WritersMatch /\ MembersInv /\ PublishedInv /\ epoch' \in Nat
      /\ UNCHANGED <<group, members, changed, acked, retry>>
      /\ Becomes(w, j) /\ Same(w, j) /\ Leaves(w) /\ UNCHANGED database
  BY EndFacts DEF LifecycleMove, ServedInv, database, outbox, Inv, TypeInv, TypeOK
<1>1. WritersMatch'
  BY <1>0, WritersStep DEF LifecycleMove
<1>2. HoldersAreFresh => HoldersAreFresh' /\ Kept
  BY <1>0, HoldersStep DEF LifecycleMove
<1>3. (Fresh => Fresh') /\ (HoldersAreFresh => HoldersAreFresh')
  BY <1>0, <1>2, OthersStep
<1>4. MembersInv'
  <2>1. "raced" \notin lapses' /\ OnTrack(w) => OnTrack(w)'
    BY <1>3 DEF LifecycleMove
  <2>2. "raced" \notin lapses' /\ w \in Pollers /\ j.upto["account"] = changed["account"] => OnTrack(w)'
    BY <1>0, <2>1 DEF MembersInv, Leaves, Same, IsFor
  <2>3. "raced" \notin lapses' /\ w \in Retriers /\ job[w].kind = "account" /\ OnTrack(w) =>
          j.kind = "account" /\ OnTrack(w)'
    BY <1>0, <2>1 DEF Same, IsFor
  <2> QED
    BY <1>0, <1>2, <2>2, <2>3, MembersStep
<1>5. PublishedInv'
  <2>1. "group" \in retry => CaredFor'
    BY <1>0 DEF CaredFor, Debt
  <2> QED
    BY <1>0, <2>1, PublishedStep DEF LifecycleMove
<1> QED
  BY <1>1, <1>4, <1>5 DEF ServedInv

\* The step of a worker whose job promises nothing afterwards.
LEMMA HarmlessServed ==
    ASSUME Inv, Inv', ServedInv, NEW w \in Workers, NEW j, Becomes(w, j), Same(w, j), WriterOK(w, j),
           Harmless(j), UNCHANGED <<database, outbox, epoch, retired, active, lapses>>,
           versions' = versions \/ versions' = Without(w),
           \A v \in Writers : v # w /\ lock' = v => lock = v,
           \A v \in Writers : v # w /\ lease' = v => lease = v,
           j.token \in {0, job[w].token}, job[w].late => j.late
    PROVE  ServedInv'
<1>0. /\ w \in Writers /\ job'[w] = j /\ OnTrack(w)' /\ ~Done(w)' /\ ~Holds(w)'
      /\ epoch = lives + 1 /\ lives \in Nat /\ (retired => job[w].token < epoch) /\ epoch <= epoch
  <2>1. w \in Writers
    BY EndFacts
  <2>2. epoch = lives + 1 /\ lives \in Nat
    BY DEF Inv, EpochInv, TypeInv, TypeOK
  <2>3. epoch <= epoch
    BY <2>2
  <2> QED
    BY <2>1, <2>2, <2>3, HarmlessFacts, OtherJobs DEF ServedInv, WritersMatch
<1>1. /\ \A v \in Writers : v # w /\ InUse(v) => InUse(v)'
      /\ Published' <=> Published
      /\ Kept
  BY <1>0, SameVersions
<1>2. Leaves(w)
  BY <1>0, <1>1 DEF Leaves
<1>3. j.pc # "activate" /\ (retired' => j.token < epoch')
  BY <1>0 DEF Harmless, Publishing
<1>4. Published \/ job[w].late => CaredFor'
  BY <1>0, <1>1 DEF CaredFor, Debt
<1>5. w \in Retriers /\ (TaskLeft(w) \/ TaskOpen(w)) => CaredFor'
  BY <1>0 DEF CaredFor, TaskLeft, TaskOpen, Same, IsFor
<1>6. LifecycleMove(w, j)
  BY <1>0, <1>1, <1>2, <1>3, <1>4, <1>5 DEF LifecycleMove
<1> QED
  BY <1>6, LifecycleServed

LEMMA LeaseServed ==
    ASSUME Inv, Inv', ServedInv, NEW w \in Workers,
           \/ TryAcquireGroupLifecycleLease(w) \/ GetGroup(w) \/ ReleaseGroupLifecycleLease(w)
    PROVE  ServedInv'
<1>0. /\ job[w].pc \in {"lease", "decide", "release"} /\ job[w].pc \in {"lease"} \cup Deciding
      /\ w \in Writers /\ job \in [Writers -> Jobs] /\ job[w].shared = FALSE
  <2>1. job[w].pc \in {"lease", "decide", "release"} /\ job[w].pc \in {"lease"} \cup Deciding
    BY DEF TryAcquireGroupLifecycleLease, GetGroup, ReleaseGroupLifecycleLease, At, Deciding
  <2> QED
    BY <2>1, EndFacts, LifecycleFacts
<1>1. UNCHANGED <<database, outbox, epoch, retired, active, lapses, lock, versions>>
  BY DEF TryAcquireGroupLifecycleLease, GetGroup, ReleaseGroupLifecycleLease, bucket
<1>2. \A v \in Writers : v # w /\ lease' = v => lease = v
  <2>1. lease' \in {lease, w, None} /\ None \notin Writers
    BY ConstantsAssumption DEF TryAcquireGroupLifecycleLease, GetGroup, ReleaseGroupLifecycleLease
  <2> QED
    BY <2>1
<1>3. ASSUME NEW pc \in {"decide", "reopen", "retire", "lock"}, Goto(w, pc),
             pc = "lock" => At(w, "release") /\ job[w].ok
      PROVE  ServedInv'
  <2>1. pc \in Steps
    BY DEF Steps
  <2>2. PICK j : /\ Becomes(w, j) /\ Same(w, j)
                 /\ IsAt(j, pc, job[w].token, job[w].shared, job[w].era, job[w].late, job[w].ok)
                 /\ j.strict = job[w].strict /\ j.load = job[w].load
    BY <1>0, <1>3, <2>1, GotoLoad
  <2>3. Harmless(j)
    BY <1>0, <2>2 DEF IsAt, Harmless, Publishing
  <2>4. WriterOK(w, j)
    BY <1>0, <1>3, <2>2 DEF IsAt, WriterOK, Publishing, ServedInv, WritersMatch
  <2>5. j.token \in {0, job[w].token} /\ (job[w].late => j.late)
    BY <2>2 DEF IsAt
  <2> QED
    BY <1>1, <1>2, <2>2, <2>3, <2>4, <2>5, HarmlessServed
<1>4. CASE Ends(w, FALSE)
  <2>1. PICK j : /\ Becomes(w, j) /\ Same(w, j) /\ IsAt(j, "end", 0, FALSE, 0, job[w].late, FALSE)
    BY <1>0, <1>4, EndsEffect
  <2>2. /\ Harmless(j) /\ WriterOK(w, j) /\ j.token \in {0, job[w].token} /\ (job[w].late => j.late)
    BY <2>1 DEF IsAt, Harmless, WriterOK, Publishing
  <2> QED
    BY <1>1, <1>2, <2>1, <2>2, HarmlessServed
<1>5. CASE Ends(w, TRUE) /\ At(w, "release") /\ job[w].ok /\ lease = w /\ job[w].token = 0
  <2>1. PICK j : /\ Becomes(w, j) /\ Same(w, j) /\ IsAt(j, "end", 0, FALSE, 0, job[w].late, TRUE)
    BY <1>0, <1>5, EndsEffect
  <2>2. /\ ~job[w].late /\ Done(w) /\ ~TaskLeft(w) /\ ~TaskOpen(w)
        /\ job'[w] = j /\ j.pc = "end" /\ ~j.shared /\ j.token = 0
    BY <1>0, <1>5, <2>1, EndFacts, OtherJobs DEF Done, At, TaskLeft, TaskOpen, HasPlan, IsAt
  <2>3. /\ \A v \in Writers : v # w /\ InUse(v) => InUse(v)'
        /\ Published' <=> Published
        /\ Kept
    BY <1>0, <1>1, SameVersions
  <2>4. Leaves(w) /\ (retired' => j.token < epoch')
    <3>1. epoch = lives + 1 /\ lives \in Nat
      BY DEF Inv, EpochInv, TypeInv, TypeOK
    <3>2. epoch <= epoch /\ 0 < epoch
      BY <3>1
    <3> QED
      BY <1>1, <1>2, <2>2, <2>3, <3>2 DEF Leaves
  <2>5. WriterOK(w, j) /\ ~Holds(w)'
    BY <2>2 DEF WriterOK, Holds, Publishing
  <2>6. OnTrack(w) /\ (Fresh => Fresh') => OnTrack(w)'
    BY <2>2 DEF OnTrack, Publishing, At
  <2>7. w \in Pollers /\ Passed(w)' /\ Done(w)' => Passed(w) /\ Done(w)
    <3>1. changed' = changed
      BY <1>1 DEF database
    <3> QED
      BY <1>5, <2>1, <2>2, <3>1 DEF Passed, Current, Same, IsFor
  <2>8. Published => CaredFor'
    BY <2>3 DEF CaredFor
  <2>9. LifecycleMove(w, j)
    BY <1>1, <2>1, <2>2, <2>3, <2>4, <2>5, <2>6, <2>7, <2>8 DEF LifecycleMove
  <2> QED
    BY <2>9, LifecycleServed
<1> QED
  BY <1>3, <1>4, <1>5 DEF TryAcquireGroupLifecycleLease, GetGroup, ReleaseGroupLifecycleLease

\* What becomes of a job when the group's lifecycle has been decided.
LEMMA DecidedEffect ==
    ASSUME Inv, NEW w \in Workers, job[w].pc \in {"lease"} \cup Deciding, Decided(w),
           epoch' \in Nat
    PROVE  \E j : /\ Becomes(w, j) /\ Same(w, j) /\ j.pc = "release" /\ j.shared = FALSE
                  /\ j.late = (lease # w) /\ j.token = (IF retired' THEN 0 ELSE epoch') /\ j.strict
<1>0. w \in Writers /\ job \in [Writers -> Jobs] /\ job[w] \in Jobs /\ job[w].shared = FALSE
  BY EndFacts, LifecycleFacts
<1>1. PICK ok \in BOOLEAN :
        job' = [job EXCEPT ![w].pc = "release", ![w].ok = ok, ![w].late = (lease # w),
                           ![w].token = IF retired' THEN 0 ELSE epoch', ![w].strict = TRUE]
  BY DEF Decided
<1> DEFINE i == job[w]
           late == lease # w
           token == IF retired' THEN 0 ELSE epoch'
           j == [i EXCEPT !.pc = "release", !.ok = ok, !.late = late, !.token = token,
                          !.strict = TRUE]
<1>2. job' = [job EXCEPT ![w] = j]
  BY <1>1
<1>3. i \in Jobs /\ late \in BOOLEAN /\ token \in Nat
  BY <1>0
<1> HIDE DEF i, late, token
<1>4. /\ j \in Jobs /\ IsFor(j, i.kind, i.first, i.upto) /\ j.pc = "release" /\ j.shared = i.shared
      /\ j.late = late /\ j.token = token /\ j.strict = TRUE
  BY <1>3 DEF Jobs, Steps, IsFor
<1> HIDE DEF j
<1>5. Becomes(w, j) /\ Same(w, j)
  BY <1>2, <1>4 DEF Becomes, Same, i
<1>6. j.late = (lease # w) /\ j.token = (IF retired' THEN 0 ELSE epoch') /\ j.shared = FALSE
  BY <1>0, <1>4 DEF i, late, token
<1> QED
  BY <1>4, <1>5, <1>6

\* Who retires the bucket of an active group is not trusted with the lease, or
\* somebody looks at the group again.
LEMMA RetireCared ==
    ASSUME Inv, Handled, NEW w \in Workers, At(w, "retire"), NEW j, Becomes(w, j),
           j.late = (lease # w), UNCHANGED <<database, outbox, lease, lapses>>
    PROVE  CaredFor'
<1>0. /\ w \in Writers /\ ~job[w].late /\ GroupInv
      /\ UNCHANGED <<group, changed, retry>>
      /\ \A v \in Writers : job'[v] = IF v = w THEN j ELSE job[v]
      /\ Pollers \subseteq Writers /\ Retriers \subseteq Writers /\ Workers \subseteq Writers
      /\ Retriers \subseteq Workers
  BY EndFacts, OtherJobs DEF Inv, database, outbox, At
<1>1. CASE lease # w
  BY <1>0, <1>1 DEF CaredFor, Debt
<1>2. CASE lease = w
  <2>1. Debt \/ InGoodHands
    BY <1>0 DEF Handled, GroupInv
  <2>2. CASE InGoodHands
    BY <1>0, <1>2, <2>2 DEF InGoodHands, HasPlan, PlanIsRight, At, CaredFor
  <2>3. CASE Debt
    <3>1. "group" \in retry \/ "overtaken" \in lapses => Debt'
      BY <1>0 DEF Debt
    <3>2. ASSUME NEW v \in Workers, job[v].late
          PROVE  Debt'
      <4>1. v # w /\ job'[v] = job[v]
        BY <1>0, <3>2
      <4> QED
        BY <3>2, <4>1 DEF Debt
    <3>3. ASSUME NEW v \in Retriers, TaskLeft(v)
          PROVE  Debt'
      <4>1. v # w
        BY <1>2, <3>3 DEF TaskLeft, HasPlan, At
      <4>2. job'[v] = job[v]
        BY <1>0, <4>1
      <4>3. TaskLeft(v)'
        BY <3>3, <4>2 DEF TaskLeft, HasPlan, At
      <4> QED
        BY <4>3 DEF Debt
    <3> QED
      BY <2>3, <3>1, <3>2, <3>3 DEF Debt, CaredFor
  <2> QED
    BY <2>1, <2>2, <2>3
<1> QED
  BY <1>1, <1>2

LEMMA DecideServed ==
    ASSUME Inv, Inv', ServedInv, NEW w \in Workers, RetireBucket(w) \/ ReopenBucket(w)
    PROVE  ServedInv'
<1>0. /\ w \in Writers /\ job[w].pc \in {"lease"} \cup Deciding /\ HasPlan(w) /\ ~job[w].late
      /\ job[w].pc # "activate"
      /\ epoch = lives + 1 /\ lives \in Nat /\ epoch \in Nat /\ epoch' \in Nat
      /\ TypeOK /\ VersionsMatch /\ GroupInv /\ (Published => ~retired)
      /\ \A v \in Writers : job[v].token <= epoch /\ job[v].token \in Nat
  <2>1. job[w].pc \in {"reopen", "retire"}
    BY DEF RetireBucket, ReopenBucket, At
  <2>2. w \in Writers /\ ~job[w].late
    BY <2>1, EndFacts DEF At
  <2>3. /\ epoch = lives + 1 /\ lives \in Nat /\ epoch \in Nat /\ epoch' \in Nat
        /\ TypeOK /\ VersionsMatch /\ GroupInv /\ (Published => ~retired)
    BY DEF Inv, EpochInv, ServedIsOfThisEpoch, TypeInv, TypeOK
  <2>4. \A v \in Writers : job[v].token <= epoch /\ job[v].token \in Nat
    BY JobFacts, JobFields DEF Inv, EpochInv
  <2> QED
    BY <2>1, <2>2, <2>3, <2>4 DEF Deciding, HasPlan
<1>1. /\ UNCHANGED <<database, outbox, lock, lease, lapses>> /\ Decided(w)
      /\ UNCHANGED <<group, members, changed>>
  BY DEF RetireBucket, ReopenBucket, database
<1>2. PICK j : /\ Becomes(w, j) /\ Same(w, j) /\ j.pc = "release" /\ j.shared = FALSE
               /\ j.late = (lease # w) /\ j.token = (IF retired' THEN 0 ELSE epoch') /\ j.strict
  BY <1>0, <1>1, DecidedEffect
<1>3. job'[w] = j /\ ~Holds(w)' /\ WriterOK(w, j)
  BY <1>0, <1>2, OtherJobs DEF Holds, Publishing, WriterOK
<1>5. CASE RetireBucket(w)
  <2>1. /\ At(w, "retire") /\ retired' = TRUE /\ epoch' = (IF retired THEN epoch ELSE epoch + 1)
        /\ versions' = Without(Marker)
    BY <1>5 DEF RetireBucket
  <2>2. ~Published' /\ Kept /\ \A v \in Writers : InUse(v) => InUse(v)'
    BY <1>0, <2>1, UnpublishedEffect DEF Kept
  <2>3. epoch <= epoch' /\ (retired' => (retired /\ epoch' = epoch) \/ epoch < epoch') /\ 0 < epoch'
    BY <1>0, <2>1
  <2>4. Leaves(w)
    BY <1>1, <2>2, <2>3 DEF Leaves
  <2>5. WritersMatch'
    BY <1>0, <1>2, <1>3, <2>1, <2>3, <2>4, WritersStep DEF ServedInv
  <2>6. HoldersAreFresh' /\ Fresh'
    <3>1. \A v \in Workers : job'[v].token < epoch'
      BY <2>1, <2>5 DEF WritersMatch, Writers
    <3>2. \A v \in Workers : job'[v].token # epoch'
      <4>1. \A v \in Workers : job'[v].token \in Nat
        BY EndFacts, JobFacts, JobFields DEF Inv, TypeInv, TypeOK, Writers
      <4> QED
        BY <1>0, <3>1, <4>1
    <3> QED
      BY <2>2, <3>2 DEF HoldersAreFresh, Holds, Fresh
  <2>7. OnTrack(w)'
    BY <1>2, <1>3, <2>6 DEF OnTrack, Publishing, At
  <2>8. Handled => CaredFor'
    BY <1>1, <1>2, <2>1, RetireCared
  <2>9. w \in Pollers /\ Passed(w)' => CaredFor'
    <3> SUFFICES ASSUME w \in Pollers, Passed(w)'
                 PROVE  group = "inactive"
      BY <1>1 DEF CaredFor
    <3>1. Current(w)
      BY <1>1, <1>2, <1>3 DEF Passed, Current, Same, IsFor
    <3> QED
      BY <1>0, <2>1, <3>1 DEF GroupInv, PlanIsRight
  <2>10. LifecycleMove(w, j)
    <3>1. j.pc # "activate" /\ (retired' => j.token < epoch')
      BY <1>2, <2>1, <2>3
    <3> QED
      BY <1>0, <1>1, <1>2, <1>3, <2>2, <2>3, <2>4, <2>7, <2>8, <2>9, <3>1 DEF LifecycleMove
  <2> QED
    BY <2>10, LifecycleServed
<1>6. CASE ReopenBucket(w)
  <2>1. /\ At(w, "reopen") /\ retired' = FALSE /\ epoch' = Larger(1, epoch)
        /\ active' = (IF retired THEN NoSnapshot ELSE active)
        /\ versions' = (IF retired THEN Without(Marker) ELSE versions)
    BY <1>6 DEF ReopenBucket
  <2>2. epoch' = epoch /\ epoch > 0 /\ epoch <= epoch
    BY <1>0, <2>1 DEF Larger
  <2>3. /\ Kept /\ (\A v \in Writers : v # w /\ InUse(v) => InUse(v)') /\ (Published => Published')
    <3>1. CASE retired
      BY <1>0, <2>1, <3>1, UnpublishedEffect DEF Kept
    <3>2. CASE ~retired
      BY <1>0, <2>1, <3>2, SameVersions
    <3> QED
      BY <3>1, <3>2
  <2>4. Leaves(w)
    BY <1>1, <2>2, <2>3 DEF Leaves
  <2>5. Harmless(j)
    BY <1>2, <2>1, <2>2 DEF Harmless, Publishing
  <2>6. OnTrack(w)' /\ ~Done(w)'
    BY <1>0, <1>2, <2>5, HarmlessFacts
  <2>7. Published \/ (w \in Retriers /\ (TaskLeft(w) \/ TaskOpen(w))) => CaredFor'
    BY <1>2, <1>3, <2>3, <2>6 DEF CaredFor, TaskLeft, TaskOpen, Same, IsFor
  <2>8. LifecycleMove(w, j)
    BY <1>0, <1>1, <1>2, <1>3, <2>1, <2>3, <2>4, <2>6, <2>7 DEF LifecycleMove
  <2> QED
    BY <2>8, LifecycleServed
<1> QED
  BY <1>5, <1>6

LEMMA CallFailsServed ==
    ASSUME Inv, Inv', ServedInv, NEW w \in Workers, CallFails(w)
    PROVE  ServedInv'
<1>0. /\ w \in Writers /\ w \notin Requests /\ job \in [Writers -> Jobs] /\ Left \notin Writers
      /\ versions' = Without(w)
      /\ UNCHANGED <<database, outbox, epoch, retired, active, lapses>>
  BY EndFacts, Disjoint, ConstantsAssumption DEF CallFails
<1>1. /\ \A v \in Writers : v # w /\ lock' = v => lock = v
      /\ \A v \in Writers : v # w /\ lease' = v => lease = v
  <2>1. lock' \in {lock, Left} /\ lease' \in {lease, Left}
    BY DEF CallFails
  <2> QED
    BY <1>0, <2>1
<1>2. ASSUME Ends(w, FALSE)
      PROVE  ServedInv'
  <2>1. PICK j : /\ Becomes(w, j) /\ Same(w, j) /\ IsAt(j, "end", 0, FALSE, 0, job[w].late, FALSE)
    BY <1>0, <1>2, EndsEffect
  <2>2. Harmless(j) /\ WriterOK(w, j) /\ j.token \in {0, job[w].token} /\ (job[w].late => j.late)
    BY <2>1 DEF IsAt, Harmless, WriterOK, Publishing
  <2> QED
    BY <1>0, <1>1, <2>1, <2>2, HarmlessServed
<1>3. ASSUME AfterSet(w, FALSE)
      PROVE  ServedInv'
  <2>1. PICK j : /\ Becomes(w, j) /\ Same(w, j) /\ IsAt(j, "unlock", 0, FALSE, 0, job[w].late, FALSE)
    BY <1>0, <1>3, AfterSetEffect
  <2>2. Harmless(j) /\ WriterOK(w, j) /\ j.token \in {0, job[w].token} /\ (job[w].late => j.late)
    BY <2>1 DEF IsAt, Harmless, WriterOK, Publishing
  <2> QED
    BY <1>0, <1>1, <2>1, <2>2, HarmlessServed
<1>4. ASSUME job[w].pc \in {"decide", "reopen", "retire"},
             job' = [job EXCEPT ![w].pc = "release", ![w].ok = FALSE]
      PROVE  ServedInv'
  <2> DEFINE i == job[w]
             j == [i EXCEPT !.pc = "release", !.ok = FALSE]
  <2>1. job' = [job EXCEPT ![w] = j] /\ i \in Jobs
    BY <1>0, <1>4
  <2> HIDE DEF i
  <2>2. /\ j \in Jobs /\ IsFor(j, i.kind, i.first, i.upto)
        /\ IsAt(j, "release", i.token, i.shared, i.era, i.late, FALSE)
    BY <2>1 DEF Jobs, Steps, IsFor, IsAt
  <2> HIDE DEF j
  <2>3. Becomes(w, j) /\ Same(w, j)
    BY <2>1, <2>2 DEF Becomes, Same, i
  <2>4. IsAt(j, "release", job[w].token, job[w].shared, job[w].era, job[w].late, FALSE)
    BY <2>2 DEF i
  <2>5. job[w].shared = FALSE
    <3>1. job[w].pc \in {"lease"} \cup Deciding
      BY <1>4 DEF Deciding
    <3> QED
      BY <3>1, LifecycleFacts
  <2>6. Harmless(j) /\ WriterOK(w, j) /\ j.token \in {0, job[w].token} /\ (job[w].late => j.late)
    BY <2>4, <2>5 DEF IsAt, Harmless, WriterOK, Publishing
  <2> QED
    BY <1>0, <1>1, <2>3, <2>6, HarmlessServed
<1> QED
  BY <1>2, <1>3, <1>4 DEF CallFails

\* A new change is not acknowledged yet, and nobody works for it.
LEMMA ChangeServed ==
    ASSUME Inv, ServedInv, ChangeGroup \/ \E a \in Accounts : ChangeMembers(a)
    PROVE  ServedInv'
<1>0. /\ WritersMatch /\ MembersInv /\ PublishedInv
      /\ UNCHANGED <<acked, retry, epoch, retired, registered, active, versions, lives, job, lapses,
                     lock, lease>>
      /\ Pollers \subseteq Writers /\ "group" \in Kinds /\ "account" \in Kinds
  BY DEF ServedInv, ChangeGroup, ChangeMembers, outbox, bucket, Workers, Writers, Kinds
<1>1. WritersMatch'
  BY <1>0 DEF WritersMatch, At, InUse
<1>2. /\ changed \in [Kinds -> Nat]
      /\ \A k \in Kinds : changed[k] \in Nat /\ acked[k] \in Nat /\ acked[k] <= changed[k]
      /\ \A w \in Writers : \A k \in Kinds : job[w].upto[k] \in Nat /\ job[w].upto[k] <= changed[k]
  BY ChangeFacts, JobFacts, JobFields DEF Inv, TypeInv, TypeOK, JobOK
<1>3. CASE ChangeGroup
  <2>1. changed'["group"] = changed["group"] + 1 /\ changed'["account"] = changed["account"]
        /\ members' = members
    BY <1>0, <1>2, <1>3 DEF ChangeGroup
  <2>2. MembersInv'
    BY <1>0, <2>1 DEF MembersInv, OnTrack, Fresh, HoldersAreFresh, Holds, Done, Before, Published,
                      InUse, At
  <2>3. acked["group"] # changed'["group"] /\ \A w \in Pollers : job[w].upto["group"] # changed'["group"]
    BY <1>0, <1>2, <2>1
  <2>4. ~Handled'
    BY <1>0, <2>3 DEF Handled, Passed, Current
  <2> QED
    BY <1>1, <2>2, <2>4 DEF ServedInv, PublishedInv
<1>4. CASE \E a \in Accounts : ChangeMembers(a)
  <2>1. changed'["account"] = changed["account"] + 1 /\ changed'["group"] = changed["group"]
        /\ group' = group
    BY <1>0, <1>2, <1>4 DEF ChangeMembers
  <2>2. acked["account"] # changed'["account"]
        /\ \A w \in Pollers : job[w].upto["account"] # changed'["account"]
    BY <1>0, <1>2, <2>1
  <2>3. MembersInv'
    BY <1>0, <2>2 DEF MembersInv
  <2>4. PublishedInv'
    BY <1>0, <2>1 DEF PublishedInv, Handled, Passed, Current, Done, CaredFor, Debt, TaskLeft, HasPlan,
                      TaskOpen, Published, InUse, At
  <2> QED
    BY <1>1, <2>3, <2>4 DEF ServedInv
<1> QED
  BY <1>3, <1>4

LEMMA ExpiryServed ==
    ASSUME Inv, ServedInv, LockExpires \/ LeaseExpires \/ HolderStalls
    PROVE  ServedInv'
<1>0. /\ WritersMatch /\ MembersInv /\ PublishedInv
      /\ UNCHANGED <<group, members, changed, acked, retry, epoch, retired, active, versions, job, lapses>>
      /\ Pollers \subseteq Writers /\ Retriers \subseteq Writers /\ Workers \subseteq Writers
  BY DEF ServedInv, LockExpires, LeaseExpires, HolderStalls, database, outbox, bucket, Workers, Writers
<1>1. lock' \in {lock, None} /\ lease' \in {lease, None} /\ None \notin Writers
  BY ConstantsAssumption DEF LockExpires, LeaseExpires, HolderStalls
<1>2. WritersMatch'
  BY <1>0 DEF WritersMatch, At, InUse
<1>3. /\ HoldersAreFresh => HoldersAreFresh'
      /\ Published' <=> Published
      /\ \A v : Before(v, Marker)' <=> Before(v, Marker)
      /\ \A w \in Writers : Done(w)' <=> Done(w)
  BY <1>0, <1>1 DEF HoldersAreFresh, Holds, Published, InUse, Before, Done, At
<1>4. (Fresh => Fresh') /\ \A w \in Writers : OnTrack(w) => OnTrack(w)'
  BY <1>0, <1>3 DEF Fresh, OnTrack, At
<1>5. MembersInv'
  BY <1>0, <1>4 DEF MembersInv
<1>6. /\ \A w \in Pollers : Passed(w)' => Passed(w)
      /\ \A w \in Retriers : TaskLeft(w) => TaskLeft(w)'
  BY <1>0, <1>1 DEF Passed, Current, TaskLeft, HasPlan, At
<1>7. PublishedInv'
  BY <1>0, <1>3, <1>6 DEF PublishedInv, Handled, CaredFor, Debt, TaskOpen
<1> QED
  BY <1>2, <1>5, <1>7 DEF ServedInv

-----------------------------------------------------------------------------
(* AcknowledgedIsServed: the invariance proof.                             *)

LEMMA InitServed ==
    ASSUME Init
    PROVE  ServedInv
<1>1. /\ \A w \in Writers : job[w] = NoJob
      /\ Pollers \subseteq Writers /\ Retriers \subseteq Writers /\ Workers \subseteq Writers
      /\ changed["account"] = 0 /\ retired = FALSE
      /\ active.set = members /\ versions = <<Marker>>
  BY DEF Init, Workers, Writers, Kinds
<1>2. Harmless(NoJob) /\ NoJob.pc = "idle" /\ NoJob.kind = None /\ \A w : WriterOK(w, NoJob)
  BY NoJobFacts
<1>3. WritersMatch
  BY <1>1, <1>2 DEF WritersMatch, WriterOK, At, Publishing
<1>4. Published
  <2>1. 1 \in DOMAIN versions /\ versions[1] = Marker
    BY <1>1
  <2> QED
    BY <2>1 DEF Published, InUse
<1>5. Fresh
  BY <1>1, <1>2 DEF Fresh, HoldersAreFresh, Holds, Harmless
<1>6. MembersInv
  BY <1>1, <1>2, <1>5 DEF MembersInv, OnTrack, Harmless, Done, At
<1> QED
  BY <1>3, <1>4, <1>6 DEF ServedInv, PublishedInv, CaredFor

LEMMA StutterServed ==
    ASSUME ServedInv, UNCHANGED vars
    PROVE  ServedInv'
<1>1. UNCHANGED <<group, members, changed, acked, retry, epoch, retired, registered, active, versions,
                  lives, lock, lease, job, faults, lapses>>
  BY DEF vars, database, outbox, bucket
<1>2. WritersMatch'
  BY <1>1 DEF ServedInv, WritersMatch, At, InUse
<1>3. MembersInv'
  BY <1>1 DEF ServedInv, MembersInv, OnTrack, Fresh, HoldersAreFresh, Holds, Done, Before, Published,
              InUse, At
<1>4. PublishedInv'
  BY <1>1 DEF ServedInv, PublishedInv, Handled, Passed, Current, Done, CaredFor, Debt, TaskLeft, HasPlan,
              TaskOpen, Published, InUse, At
<1> QED
  BY <1>2, <1>3, <1>4 DEF ServedInv

LEMMA WorkServed ==
    ASSUME Inv, Inv', ServedInv, NEW w \in Workers, Work(w)
    PROVE  ServedInv'
<1>1. w \in Writers
  BY DEF Writers
<1>2. CASE Lifecycle(w)
  BY <1>2, LeaseServed, DecideServed DEF Lifecycle
<1>3. CASE Rebuild(w)
  BY <1>1, <1>3, CaptureServed, LockServed, LoadServed, AllocateServed, ActivateServed
     DEF Rebuild, Publish
<1>4. CASE Succeed(w)
  BY <1>4, SucceedServed
<1> QED
  BY <1>2, <1>3, <1>4 DEF Work

LEMMA NextServed ==
    ASSUME Inv, Inv', ServedInv, [Next]_vars
    PROVE  ServedInv'
<1>0. /\ Pollers \subseteq Workers /\ Retriers \subseteq Workers /\ Rebuilders \subseteq Workers
      /\ Workers \subseteq Writers /\ Requests \subseteq Writers
  BY DEF Workers, Writers
<1>1. ASSUME NEW w \in Pollers, Poller(w)
      PROVE  ServedInv'
  BY <1>0, <1>1, BeginServed, WorkServed, FailServed DEF Poller
<1>2. ASSUME NEW w \in Retriers, Retrier(w)
      PROVE  ServedInv'
  BY <1>0, <1>2, BeginServed, WorkServed, LoadServed, FailServed DEF Retrier
<1>3. ASSUME NEW w \in Rebuilders, Rebuilder(w)
      PROVE  ServedInv'
  BY <1>0, <1>3, Disjoint, BeginServed, ListServed, WorkServed, FailServed DEF Rebuilder
<1>4. ASSUME NEW w \in Pollers \cup Rebuilders, LoadForSibling(w)
      PROVE  ServedInv'
  BY <1>0, <1>4, LoadServed
<1>5. ASSUME NEW w \in Requests, Request(w)
      PROVE  ServedInv'
  BY <1>0, <1>5, BeginServed, CaptureServed, LoadServed, AllocateServed, ActivateServed,
     RequestEndsServed DEF Request, Publish
<1>6. ASSUME NEW w \in Workers, CallFails(w) \/ Crash(w)
      PROVE  ServedInv'
  BY <1>6, CallFailsServed, CrashServed
<1>7. CASE ChangeGroup \/ \E a \in Accounts : ChangeMembers(a)
  BY <1>7, ChangeServed
<1>8. CASE LockExpires \/ LeaseExpires \/ HolderStalls
  BY <1>8, ExpiryServed
<1>9. CASE UNCHANGED vars
  BY <1>9, StutterServed
<1> QED
  BY <1>1, <1>2, <1>3, <1>4, <1>5, <1>6, <1>7, <1>8, <1>9 DEF Next

LEMMA ServedInvariance == Spec => []ServedInv
<1>1. Init => ServedInv
  BY InitServed
<1>2. Inv /\ Inv' /\ ServedInv /\ [Next]_vars => ServedInv'
  BY NextServed
<1> QED
  BY <1>1, <1>2, Invariance, PTL DEF Spec, Safety

\* When every event is acknowledged and nothing is under way, an active
\* group's snapshot is published with what the events changed, unless a
\* request or a rebuild without the lock has raced: a busy lock, a fence and a
\* failed call acknowledge nothing, and TryLockBucket keeps older loads out.
THEOREM AcknowledgedIsPublished == Spec => []AcknowledgedIsServed
<1>1. ASSUME Inv, ServedInv
      PROVE  AcknowledgedIsServed
  <2> SUFFICES ASSUME acked = changed, retry = {}, \A w \in Workers : At(w, "idle"),
                      group = "active", lapses = {}
               PROVE  Published /\ active.set = members
    BY DEF AcknowledgedIsServed
  <2>1. /\ WritersMatch /\ MembersInv /\ PublishedInv /\ LateFails
        /\ Workers \subseteq Writers /\ Retriers \subseteq Workers
    BY <1>1 DEF ServedInv, Inv, GroupInv, Writers, Workers
  <2>2. \A w \in Workers : job[w].kind = None /\ ~job[w].late
    BY <2>1 DEF WritersMatch, LateFails, At
  <2>3. Fresh
    BY <2>1, <2>2 DEF MembersInv, None
  <2>4. ~Debt /\ \A w \in Retriers : ~TaskOpen(w)
    BY <2>1, <2>2 DEF Debt, TaskLeft, TaskOpen, None
  <2>5. Published
    BY <2>1, <2>4 DEF PublishedInv, Handled, CaredFor
  <2> QED
    BY <2>3, <2>5 DEF Fresh
<1> QED
  BY <1>1, Invariance, ServedInvariance, PTL

=============================================================================
