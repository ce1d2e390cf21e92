------------------------- MODULE TokenRefreshProofs -------------------------
(***************************************************************************)
(* For any number of instances and administrators, any timeouts with the   *)
(* margins of the code and any number of failures: the refresh lock stays  *)
(* with its holder, and no refresh loses the account's credentials.        *)
(***************************************************************************)
EXTENDS TokenRefresh, FiniteSetTheorems, TLAPS

-----------------------------------------------------------------------------
(* What a step makes of a job.                                             *)

\* The fields of a job that the invariants look at.
Fields(j, stage, acct, used, fresh, held, result, left, tries) ==
    /\ j.stage = stage /\ j.acct = acct /\ j.used = used /\ j.fresh = fresh
    /\ j.held = held /\ j.result = result /\ j.left = left /\ j.tries = tries

Becomes(w, j) == j \in Jobs /\ job' = [job EXCEPT ![w] = j]

LEMMA JobFields ==
    ASSUME NEW j \in Jobs
    PROVE  /\ j.stage \in Stages /\ j.acct \in Docs \cup {NoDoc}
           /\ j.used \in Docs \cup {NoDoc} /\ j.fresh \in Docs \cup {NoDoc}
           /\ j.held \in BOOLEAN /\ j.result \in Results /\ j.left \in 0..LockTTL
           /\ j.tries \in Nat /\ j.late \in BOOLEAN /\ j.sawCooling \in BOOLEAN
  BY DEF Jobs

LEMMA Times ==
    /\ LockTTL \in Nat /\ 0 \in 0..LockTTL /\ ReleaseTimeout \in 0..LockTTL
    /\ CleanupTimeout \in 0..LockTTL /\ attemptTimeout \in 0..LockTTL
    /\ attemptTimeout <= LockTTL - SafetyMargin
  BY ConstantsAssumption DEF attemptTimeout

LEMMA IdleEffect ==
    ASSUME NEW s \in Stages
    PROVE  /\ IdleJob \in Jobs /\ Fields(IdleJob, "idle", NoDoc, NoDoc, NoDoc, FALSE, "none", 0, 0)
           /\ [IdleJob EXCEPT !.stage = s] \in Jobs
           /\ Fields([IdleJob EXCEPT !.stage = s], s, NoDoc, NoDoc, NoDoc, FALSE, "none", 0, 0)
  BY Times DEF IdleJob, Jobs, Stages, Results, Fields

LEMMA EndsEffect ==
    ASSUME NEW w \in Workers, Ends(w)
    PROVE  \E j : Becomes(w, j) /\ Fields(j, "rest", NoDoc, NoDoc, NoDoc, FALSE, "none", 0, 0)
<1>1. "rest" \in Stages
  BY DEF Stages
<1> QED
  BY <1>1, IdleEffect DEF Ends, Becomes

LEMMA StartEffect ==
    ASSUME NEW w \in Workers, NEW acct \in Docs \cup {NoDoc}, NEW tries \in Nat,
           job' = [job EXCEPT ![w] = [IdleJob EXCEPT !.stage = "lock", !.acct = acct,
                                             !.left = attemptTimeout, !.tries = tries]]
    PROVE  \E j : /\ Becomes(w, j)
                  /\ Fields(j, "lock", acct, NoDoc, NoDoc, FALSE, "none", attemptTimeout, tries)
<1> DEFINE j == [IdleJob EXCEPT !.stage = "lock", !.acct = acct, !.left = attemptTimeout,
                                !.tries = tries]
<1>1. j \in Jobs /\ Fields(j, "lock", acct, NoDoc, NoDoc, FALSE, "none", attemptTimeout, tries)
  BY Times DEF IdleJob, Jobs, Stages, Results, Fields
<1> QED
  BY <1>1 DEF Becomes

LEMMA ReturnsEffect ==
    ASSUME NEW w \in Workers, job \in [Workers -> Jobs], NEW result \in Results,
           NEW acct \in Docs \cup {NoDoc}, Returns(w, result, acct)
    PROVE  \E j : /\ Becomes(w, j)
                  /\ Fields(j, IF job[w].held THEN "release" ELSE "after", acct, NoDoc, NoDoc,
                            job[w].held, result,
                            IF job[w].held THEN ReleaseTimeout ELSE 0, job[w].tries)
<1> DEFINE i == job[w]
           j == [i EXCEPT !.stage = IF i.held THEN "release" ELSE "after",
                          !.result = result, !.acct = acct, !.used = NoDoc, !.fresh = NoDoc,
                          !.sawCooling = (result = "done" /\ @), !.late = (@ /\ i.held),
                          !.left = IF i.held THEN ReleaseTimeout ELSE 0]
<1>1. job' = [job EXCEPT ![w] = j]
  BY ZenonT(60) DEF Returns
<1>2. i \in Jobs
  OBVIOUS
<1> HIDE DEF i
<1>3. j \in Jobs
  BY ZenonT(60), <1>2, Times DEF Jobs, Stages
<1>4. Fields(j, IF i.held THEN "release" ELSE "after", acct, NoDoc, NoDoc, i.held, result,
             IF i.held THEN ReleaseTimeout ELSE 0, i.tries)
  BY <1>2 DEF Jobs, Fields
<1> QED
  BY <1>1, <1>3, <1>4 DEF i, Becomes

-----------------------------------------------------------------------------
(* The provider's documents.                                               *)

\* No document is exchanged or issued; the account may be refused with some.
Undisturbed == /\ UNCHANGED <<issued, live, due>>
               /\ refused \subseteq refused' /\ refused' \subseteq refused \cup live

LEMMA DueFinite ==
    ASSUME TypeOK
    PROVE  IsFiniteSet(due \cap live) /\ Cardinality(due \cap live) \in Nat
<1>1. IsFiniteSet(1..issued) /\ due \cap live \in SUBSET (1..issued)
  BY FS_Interval DEF TypeOK, Docs
<1> QED
  BY <1>1, FS_Subset, FS_CardinalityType

\* A document that was not live does not become so; one that is stays so
\* unless it is the one that is exchanged; the new one is new.
LEMMA RotateEffect ==
    ASSUME TypeInv, NEW d, Rotate(d), d \in due \/ Room
    PROVE  /\ issued' = issued + 1 /\ due' = due /\ issued' \in Docs
           /\ live' \subseteq 1..issued' /\ due' \subseteq 1..issued'
           /\ issued' + Cardinality(due' \cap live') <= MaxDocs
           /\ issued' \in live' /\ d \notin live'
           /\ \A e : e # d /\ e \in live => e \in live'
           /\ \A e : e <= issued /\ e \notin live => e \notin live'
           /\ \A e : e <= issued /\ e \notin live \ refused => e \notin live' \ refused'
           /\ refused' \subseteq 1..issued'
<1>1. /\ d \in live /\ issued' = issued + 1 /\ live' = (live \ {d}) \cup {issued + 1}
      /\ refused' = refused \ {d} /\ refused \subseteq 1..issued
      /\ due' = due /\ issued \in Nat /\ issued >= 1 /\ issued <= MaxDocs /\ MaxDocs \in Nat
      /\ live \subseteq 1..issued /\ due \subseteq 1..issued
  BY ConstantsAssumption DEF Rotate, TypeInv, TypeOK, Docs
<1>2. d \in 1..issued /\ d # issued + 1
  BY <1>1
<1>3. due' \cap live' = (due \cap live) \ {d}
  BY <1>1
<1>4. /\ IsFiniteSet(due \cap live) /\ Cardinality(due \cap live) \in Nat
      /\ issued + Cardinality(due \cap live) <= MaxDocs
  BY DueFinite DEF TypeInv, DocsAreIssued
<1>5. Cardinality(due' \cap live') =
        IF d \in due THEN Cardinality(due \cap live) - 1 ELSE Cardinality(due \cap live)
  BY <1>1, <1>3, <1>4, FS_RemoveElement
<1>6. Cardinality(due' \cap live') \in Nat
  BY <1>3, <1>4, FS_RemoveElement, FS_CardinalityType
<1>7. issued' + Cardinality(due' \cap live') <= MaxDocs
  BY <1>1, <1>4, <1>5, <1>6 DEF Room
<1>8. issued' \in Docs
  BY <1>1, <1>6, <1>7 DEF Docs
<1>9. live' \subseteq 1..issued' /\ due' \subseteq 1..issued'
  BY <1>1
<1>10. \A e : e <= issued /\ e \notin live => e \notin live'
  BY <1>1
<1>11. \A e : e <= issued /\ e \notin live \ refused => e \notin live' \ refused'
  BY <1>1
<1>12. refused' \subseteq 1..issued'
  BY <1>1
<1> QED
  BY <1>1, <1>2, <1>7, <1>8, <1>9, <1>10, <1>11, <1>12

-----------------------------------------------------------------------------
(* What the step of worker w has to respect.                               *)

LEMMA TypeStep ==
    ASSUME TypeInv, NEW w \in Workers, NEW j, Becomes(w, j),
           j.tries <= MaxRetries[w],
           j.acct <= issued, j.used <= issued, j.fresh <= issued',
           (j.stage = "persist") <=> (j.fresh # NoDoc),
           j.stage = "call" => j.used \in due,
           UNCHANGED <<platform, adm>>, row' \in Rows, row'.doc <= issued,
           lock' \in Workers \cup {Nobody}, ttl' \in 0..LockTTL,
           Undisturbed \/ \E d \in due : Rotate(d),
           faults' \in 0..MaxFaults, mishap' \in BOOLEAN
    PROVE  TypeInv'
<1>0. /\ issued \in Docs /\ live \subseteq 1..issued /\ due \subseteq 1..issued
      /\ refused \subseteq 1..issued
      /\ MaxDocs \in Nat /\ issued \in Nat
      /\ job \in [Workers -> Jobs] /\ adm \in [Admins -> AdminRequests]
  BY ConstantsAssumption DEF TypeInv, TypeOK, Docs
<1>1. /\ issued' \in Docs /\ issued <= issued' /\ due' = due
      /\ live' \subseteq 1..issued' /\ due' \subseteq 1..issued'
      /\ refused' \subseteq 1..issued'
      /\ issued' + Cardinality(due' \cap live') <= MaxDocs
  <2>1. CASE Undisturbed
    BY <1>0, <2>1 DEF Undisturbed, TypeInv, DocsAreIssued
  <2>2. ASSUME NEW d \in due, Rotate(d)
        PROVE  /\ issued' \in Docs /\ issued' = issued + 1 /\ due' = due
               /\ live' \subseteq 1..issued' /\ due' \subseteq 1..issued'
               /\ refused' \subseteq 1..issued'
               /\ issued' + Cardinality(due' \cap live') <= MaxDocs
    BY <2>2, RotateEffect
  <2> QED
    BY <1>0, <2>1, <2>2
<1>2. /\ j \in Jobs /\ job' \in [Workers -> Jobs]
      /\ \A v \in Workers : job'[v] = IF v = w THEN j ELSE job[v]
  BY <1>0 DEF Becomes
<1>3. TypeOK'
  BY <1>1, <1>2 DEF TypeInv, TypeOK
<1>4. DocsAreIssued'
  <2>1. /\ \A v \in Workers : /\ job[v].acct \in Nat /\ job[v].used \in Nat
                              /\ job[v].fresh \in Nat
        /\ j.acct \in Nat /\ j.used \in Nat /\ j.fresh \in Nat /\ row'.doc \in Nat
        /\ \A a \in Admins : adm[a].seen \in Nat /\ adm[a].doc \in Nat
        /\ issued' \in Nat
    BY <1>0, <1>1, <1>2, JobFields DEF Docs, NoDoc, Rows, AdminRequests
  <2>2. \A v \in Workers : /\ job'[v].acct <= issued' /\ job'[v].used <= issued'
                           /\ job'[v].fresh <= issued'
    BY <1>0, <1>1, <1>2, <2>1 DEF TypeInv, DocsAreIssued
  <2>3. \A a \in Admins : adm'[a].seen <= issued' /\ adm'[a].doc <= issued'
    BY <1>0, <1>1, <2>1 DEF TypeInv, DocsAreIssued
  <2> QED
    BY <1>0, <1>1, <2>1, <2>2, <2>3 DEF DocsAreIssued
<1>5. StagesMatch'
  BY <1>1, <1>2 DEF TypeInv, StagesMatch
<1> QED
  BY <1>3, <1>4, <1>5 DEF TypeInv

\* Worker w leaves the lock alone, takes it, or deletes its own.
LEMMA LeaseStep ==
    ASSUME TypeInv, LeaseInv, NEW w \in Workers, NEW j, Becomes(w, j),
           \/ UNCHANGED <<lock, ttl>>
           \/ lock = Nobody
           \/ job[w].held,
           j.stage = "lock" => j.left <= LockTTL - SafetyMargin,
           j.stage = "release" => j.held,
           j.held => /\ lock' = w /\ j.stage \in Holding
                     /\ j.left + Reserve(j.stage) < ttl'
    PROVE  LeaseInv'
<1>1. \A v \in Workers : job'[v] = IF v = w THEN j ELSE job[v]
  BY DEF Becomes, TypeInv, TypeOK
<1>2. \A v \in Workers \ {w} : job[v].held => UNCHANGED <<lock, ttl>>
  BY ConstantsAssumption DEF LeaseInv
<1> QED
  BY <1>1, <1>2 DEF LeaseInv

\* Worker w exchanges the document it uses, stores what it has got for it,
\* loses it with a mishap, or drops it because the row has another one.
LEMMA TokenStep ==
    ASSUME TypeInv, TokenInv, NEW w \in Workers, NEW j, Becomes(w, j), adm' = adm,
           \/ Undisturbed
           \/ /\ Rotate(job[w].used) /\ job[w].used \in due
              /\ \/ mishap' /\ j.fresh = NoDoc
                 \/ j.fresh = issued + 1 /\ j.used = job[w].used
              /\ row' = row /\ job[w].fresh = NoDoc,
           \/ row'.doc = row.doc
           \/ row'.doc = job[w].fresh /\ job[w].fresh # NoDoc /\ j.fresh = NoDoc,
           Undisturbed => j.fresh \in {NoDoc, job[w].fresh},
           j.used \in {NoDoc, job[w].used, row.doc},
           j.fresh # NoDoc => j.used = job[w].used,
           job[w].fresh # NoDoc /\ j.fresh = NoDoc =>
              mishap' \/ row'.doc = job[w].fresh \/ (row' = row /\ row.doc # job[w].used),
           mishap => mishap',
           j.stage \in {"persist", "recover"} => j.used \notin live',
           j.result = "revoked" => j.acct \notin live' \ refused'
    PROVE  TokenInv'
<1>0. /\ issued \in Nat /\ live \subseteq 1..issued /\ row.doc \in Nat /\ row.doc <= issued
      /\ row.doc # NoDoc
      /\ \A v \in Workers : /\ job[v].acct <= issued /\ job[v].used <= issued
                            /\ job[v].fresh <= issued
                            /\ job[v].acct \in Nat /\ job[v].used \in Nat /\ job[v].fresh \in Nat
      /\ \A a \in Admins : /\ adm[a].seen <= issued /\ adm[a].doc <= issued
                           /\ adm[a].seen \in Nat /\ adm[a].doc \in Nat
  <2>1. TypeOK /\ DocsAreIssued
    BY DEF TypeInv
  <2>2. \A v \in Workers : job[v].acct \in Nat /\ job[v].used \in Nat /\ job[v].fresh \in Nat
    BY <2>1, JobFields DEF TypeOK, Docs, NoDoc
  <2>3. \A a \in Admins : adm[a].seen \in Nat /\ adm[a].doc \in Nat
    BY <2>1 DEF TypeOK, AdminRequests, Docs, NoDoc
  <2>4. row.doc \in Nat /\ row.doc # NoDoc /\ issued \in Nat /\ live \subseteq 1..issued
    BY <2>1, ConstantsAssumption DEF TypeOK, Rows, Docs, NoDoc
  <2> QED
    BY <2>1, <2>2, <2>3, <2>4 DEF DocsAreIssued
<1>1. \A v \in Workers : job'[v] = IF v = w THEN j ELSE job[v]
  BY DEF Becomes, TypeInv, TypeOK
<1>2. CASE Undisturbed
  <2>0. live' = live /\ refused \subseteq refused' /\ j.fresh \in {NoDoc, job[w].fresh}
    BY <1>2 DEF Undisturbed
  <2>1. UnstoredIsOwned'
    <3>1. ASSUME NEW v \in Workers, job'[v].fresh # NoDoc
          PROVE  /\ job'[v].fresh = job[v].fresh /\ job[v].fresh \in live
                 /\ job[v].fresh # row.doc /\ job[v].fresh # row'.doc
                 /\ \A u \in Workers : /\ job[u].used # job[v].fresh
                                       /\ job[u].fresh = job[v].fresh => u = v
                 /\ \A a \in Admins : adm[a].seen # job[v].fresh /\ adm[a].doc # job[v].fresh
      BY <1>1, <2>0, <3>1 DEF TokenInv, UnstoredIsOwned
    <3>2. ASSUME NEW a \in Admins, Newborn(a)
          PROVE  /\ adm[a].doc \in live /\ adm[a].doc # row.doc /\ adm[a].doc # row'.doc
                 /\ \A v \in Workers : job[v].used # adm[a].doc
                 /\ \A b \in Admins : /\ adm[b].seen # adm[a].doc
                                      /\ adm[b].doc = adm[a].doc => b = a
      BY <3>2 DEF TokenInv, UnstoredIsOwned
    <3>3. ASSUME NEW v \in Workers
          PROVE  /\ job'[v].used \in {NoDoc, job[v].used, row.doc}
                 /\ job'[v].fresh \in {NoDoc, job[v].fresh}
      BY <1>1, <2>0
    <3>4. ASSUME NEW a \in Admins, Newborn(a)
          PROVE  adm[a].doc # NoDoc
      BY <3>4 DEF Newborn
    <3>5. \A a \in Admins : Newborn(a)' = Newborn(a)
      BY DEF Newborn
    <3> QED
      BY <2>0, <3>1, <3>2, <3>3, <3>4, <3>5 DEF UnstoredIsOwned
  <2>2. Succession'
    <3>1. CASE mishap
      BY <3>1 DEF Succession
    <3>2. CASE row'.doc = job[w].fresh /\ job[w].fresh # NoDoc
      BY <2>0, <3>2 DEF TokenInv, UnstoredIsOwned, Succession
    <3>3. CASE row'.doc = row.doc /\ row.doc \in live
      BY <2>0, <3>3 DEF Succession
    <3>4. ASSUME NEW v \in Workers, row'.doc = row.doc,
                 job[v].fresh # NoDoc, job[v].used = row.doc
          PROVE  Succession'
      <4>1. CASE v # w
        BY <1>1, <3>4, <4>1 DEF Succession
      <4>2. CASE v = w /\ j.fresh = NoDoc
        BY <2>0, <3>4, <4>2 DEF TokenInv, UnstoredIsOwned, Succession
      <4>3. CASE v = w /\ j.fresh # NoDoc
        BY <1>1, <3>4, <4>3 DEF Succession
      <4> QED
        BY <4>1, <4>2, <4>3
    <3>5. ASSUME NEW a \in Admins, Newborn(a), adm[a].kind = "refresh"
          PROVE  Succession'
      BY <3>5 DEF Succession, Newborn
    <3> QED
      BY <3>1, <3>2, <3>3, <3>4, <3>5 DEF TokenInv, Succession
  <2>3. UsedUp'
    BY <1>1, <2>0 DEF TokenInv, UsedUp
  <2> QED
    BY <2>1, <2>2, <2>3 DEF TokenInv
<1>3. CASE /\ Rotate(job[w].used) /\ job[w].used \in due
           /\ \/ mishap' /\ j.fresh = NoDoc
              \/ j.fresh = issued + 1 /\ j.used = job[w].used
           /\ row' = row /\ job[w].fresh = NoDoc
  <2>0. /\ issued' = issued + 1 /\ issued + 1 \in live' /\ job[w].used \notin live'
        /\ \A e : e # job[w].used /\ e \in live => e \in live'
        /\ \A e : e <= issued /\ e \notin live => e \notin live'
        /\ \A e : e <= issued /\ e \notin live \ refused => e \notin live' \ refused'
        /\ \A e \in Nat : e <= issued => e # issued + 1
        /\ j.fresh \in {NoDoc, issued + 1}
    BY <1>0, <1>3, RotateEffect
  <2>1. UnstoredIsOwned'
    <3>1. ASSUME NEW v \in Workers, v # w, job[v].fresh # NoDoc
          PROVE  /\ job[v].fresh \in live' /\ job[v].fresh # row.doc
                 /\ job[v].fresh # issued + 1
                 /\ \A u \in Workers : /\ job[u].used # job[v].fresh
                                       /\ job[u].fresh = job[v].fresh => u = v
                 /\ \A a \in Admins : adm[a].seen # job[v].fresh /\ adm[a].doc # job[v].fresh
      BY <1>0, <2>0, <3>1 DEF TokenInv, UnstoredIsOwned
    <3>2. ASSUME NEW a \in Admins, Newborn(a)
          PROVE  /\ adm[a].doc \in live' /\ adm[a].doc # row.doc
                 /\ \A v \in Workers : job[v].used # adm[a].doc
                 /\ \A b \in Admins : /\ adm[b].seen # adm[a].doc
                                      /\ adm[b].doc = adm[a].doc => b = a
      BY <2>0, <3>2 DEF TokenInv, UnstoredIsOwned
    <3>3. ASSUME NEW v \in Workers
          PROVE  job'[v].used \in {NoDoc, job[v].used, row.doc}
      BY <1>1
    <3>4. \A a \in Admins : Newborn(a) => adm[a].doc # NoDoc
      BY DEF Newborn
    <3>5. \A a \in Admins : /\ Newborn(a)' = Newborn(a)
                            /\ adm[a].seen # issued + 1 /\ adm[a].doc # issued + 1
      BY <1>0, <2>0 DEF Newborn
    <3>6. /\ row.doc # issued + 1 /\ NoDoc # issued + 1
          /\ \A v \in Workers : job[v].used # issued + 1 /\ job[v].fresh # issued + 1
      BY <1>0, <2>0 DEF NoDoc
    <3>7. \A v \in Workers : job'[v].fresh # NoDoc =>
             (v = w /\ job'[v].fresh = issued + 1) \/ (v # w /\ job'[v].fresh = job[v].fresh)
      BY <1>1, <2>0
    <3>8. ASSUME NEW v \in Workers, job'[v].fresh # NoDoc
          PROVE  /\ job'[v].fresh \in live' /\ job'[v].fresh # row'.doc
                 /\ \A u \in Workers : /\ job'[u].used # job'[v].fresh
                                       /\ job'[u].fresh = job'[v].fresh => u = v
                 /\ \A a \in Admins : /\ adm'[a].seen # job'[v].fresh
                                      /\ adm'[a].doc # job'[v].fresh
      BY <1>3, <2>0, <3>1, <3>3, <3>5, <3>6, <3>7, <3>8
    <3> QED
      BY <1>3, <3>2, <3>3, <3>4, <3>5, <3>8 DEF UnstoredIsOwned
  <2>2. Succession'
    <3>1. CASE mishap'
      BY <3>1 DEF Succession
    <3>2. CASE j.fresh = issued + 1 /\ j.used = job[w].used /\ ~mishap'
      <4>1. CASE row.doc = job[w].used
        BY <1>0, <1>1, <1>3, <3>2, <4>1 DEF Succession, NoDoc
      <4>2. CASE row.doc # job[w].used /\ row.doc \in live
        BY <1>3, <2>0, <4>2 DEF Succession
      <4>3. ASSUME NEW v \in Workers, job[v].fresh # NoDoc, job[v].used = row.doc
            PROVE  Succession'
        BY <1>1, <1>3, <4>3 DEF Succession
      <4>4. ASSUME NEW a \in Admins, Newborn(a), adm[a].kind = "refresh"
            PROVE  Succession'
        BY <4>4 DEF Succession, Newborn
      <4> QED
        BY <3>2, <4>1, <4>2, <4>3, <4>4 DEF TokenInv, Succession
    <3> QED
      BY <1>3, <3>1, <3>2
  <2>3. UsedUp'
    <3>1. ASSUME NEW v \in Workers, v # w
          PROVE  /\ job[v].stage \in {"persist", "recover"} => job[v].used \notin live'
                 /\ job[v].result = "revoked" => job[v].acct \notin live' \ refused'
      BY <1>0, <2>0 DEF TokenInv, UsedUp
    <3> QED
      BY <1>1, <3>1 DEF UsedUp
  <2> QED
    BY <2>1, <2>2, <2>3 DEF TokenInv
<1> QED
  BY <1>2, <1>3

-----------------------------------------------------------------------------
(* The steps of a worker.                                                  *)

\* The three invariants together.
Inv == TypeInv /\ LeaseInv /\ TokenInv

\* What the steps below need of a worker's job and of the rest.
LEMMA JobFacts ==
    ASSUME Inv, NEW w \in Workers
    PROVE  /\ job \in [Workers -> Jobs] /\ job[w] \in Jobs /\ row \in Rows
           /\ job[w].acct \in Docs \cup {NoDoc} /\ job[w].used \in Docs \cup {NoDoc}
           /\ job[w].fresh \in Docs \cup {NoDoc} /\ job[w].held \in BOOLEAN
           /\ job[w].left \in Nat /\ job[w].tries \in Nat /\ job[w].tries <= MaxRetries[w]
           /\ job[w].acct <= issued /\ job[w].used <= issued /\ job[w].fresh <= issued
           /\ row.doc <= issued /\ row.doc \in Docs /\ NoDoc <= issued
           /\ row' = row => row' \in Rows
           /\ lock \in Workers \cup {Nobody} /\ ttl \in 0..LockTTL
           /\ faults \in 0..MaxFaults /\ mishap \in BOOLEAN
           /\ issued \in Nat /\ MaxRetries[w] \in Nat \ {0}
  BY JobFields, ConstantsAssumption
     DEF Inv, TypeInv, TypeOK, DocsAreIssued, Docs, NoDoc, Rows

LEMMA FaultFacts ==
    ASSUME faults \in 0..MaxFaults, NEW w
    PROVE  /\ Fault => faults' \in 0..MaxFaults
           /\ NoFault => faults' \in 0..MaxFaults
           /\ Fails(w) => faults' \in 0..MaxFaults
           /\ InTime(w) => faults' \in 0..MaxFaults
  BY ConstantsAssumption DEF Fault, NoFault, Fails, InTime

\* The lock lasts for the release from any stage of an attempt, and from the
\* detached read after it.
LEMMA ReserveFacts ==
    ASSUME Inv, NEW w \in Workers, job[w].held, job[w].stage # "release"
    PROVE  /\ lock = w /\ ReleaseTimeout + Reserve("release") < ttl
           /\ job[w].stage \in {"read", "call", "persist", "recover"} /\ job[w].left > 0 =>
                CleanupTimeout + Reserve("durable") < ttl
<1>1. /\ lock = w /\ job[w].stage \in Holding /\ job[w].left + Reserve(job[w].stage) < ttl
  BY DEF Inv, LeaseInv
<1>2. /\ job[w].left \in Nat /\ ttl \in Nat /\ CleanupTimeout \in Nat \ {0}
      /\ ReleaseTimeout \in Nat \ {0}
  BY JobFacts, ConstantsAssumption
<1>3. Reserve("release") = 0 /\ Reserve("durable") = ReleaseTimeout
  BY DEF Reserve
<1>4. job[w].stage \in {"read", "call", "persist", "recover"} =>
        Reserve(job[w].stage) = CleanupTimeout + ReleaseTimeout - 1
  BY DEF Reserve
<1>5. CASE job[w].stage \in {"read", "call", "persist", "recover"}
  BY <1>1, <1>2, <1>3, <1>4, <1>5
<1>6. CASE job[w].stage = "durable"
  BY <1>1, <1>2, <1>3, <1>6
<1> QED
  BY <1>1, <1>5, <1>6 DEF Holding

\* RefreshIfNeeded returns from a stage before the release.
LEMMA ReturnStep ==
    ASSUME Inv, NEW w \in Workers, job[w].stage # "release",
           NEW result \in Results, NEW acct \in Docs \cup {NoDoc}, acct <= issued,
           Returns(w, result, acct), UNCHANGED <<platform, adm, lock, ttl>>,
           \/ Undisturbed
           \/ /\ job[w].stage = "call" /\ Rotate(job[w].used) /\ mishap' /\ row' = row,
           row' \in Rows, faults' \in 0..MaxFaults, mishap' \in BOOLEAN, mishap => mishap',
           \/ row'.doc = row.doc
           \/ row'.doc = job[w].fresh /\ job[w].fresh # NoDoc,
           job[w].fresh # NoDoc =>
              mishap' \/ row'.doc = job[w].fresh \/ (row' = row /\ row.doc # job[w].used),
           result = "revoked" => acct \notin live' \ refused'
    PROVE  Inv'
<1>0. /\ job \in [Workers -> Jobs] /\ job[w].tries <= MaxRetries[w] /\ row.doc <= issued
      /\ job[w].fresh <= issued /\ NoDoc <= issued /\ issued \in Nat
      /\ lock \in Workers \cup {Nobody} /\ ttl \in 0..LockTTL
      /\ job[w].held \in BOOLEAN
  BY JobFacts
<1>1. /\ TypeInv /\ LeaseInv /\ TokenInv
      /\ job[w].stage = "call" => job[w].used \in due /\ job[w].fresh = NoDoc
  BY DEF Inv, TypeInv, StagesMatch
<1>2. PICK j : /\ Becomes(w, j)
               /\ Fields(j, IF job[w].held THEN "release" ELSE "after", acct, NoDoc, NoDoc,
                         job[w].held, result,
                         IF job[w].held THEN ReleaseTimeout ELSE 0, job[w].tries)
  BY <1>0, ReturnsEffect
<1>3. /\ j.acct = acct /\ j.used = NoDoc /\ j.fresh = NoDoc /\ j.held = job[w].held
      /\ j.result = result /\ j.tries = job[w].tries
      /\ j.stage \in {"release", "after"}
      /\ j.held => j.stage = "release" /\ j.left = ReleaseTimeout
      /\ j.stage = "release" => j.held
  BY <1>0, <1>2 DEF Fields
<1>4. j.fresh <= issued'
  BY <1>0, <1>3 DEF Undisturbed, Rotate, NoDoc
<1>5. TypeInv'
  BY <1>0, <1>1, <1>2, <1>3, <1>4, TypeStep
<1>6. j.held => /\ lock' = w /\ j.stage \in Holding /\ j.left + Reserve(j.stage) < ttl'
  BY <1>3, ReserveFacts DEF Holding
<1>7. LeaseInv'
  BY <1>1, <1>2, <1>3, <1>6, LeaseStep
<1>8. TokenInv'
  BY <1>1, <1>2, <1>3, TokenStep
<1> QED
  BY <1>5, <1>7, <1>8 DEF Inv

\* The account's turn is over, or the instance dies.
LEMMA EndStep ==
    ASSUME Inv, NEW w \in Workers, Ends(w) \/ job' = [job EXCEPT ![w] = IdleJob],
           UNCHANGED <<platform, adm, lock, ttl>>, UNCHANGED providerVars,
           row' \in Rows, row'.doc = row.doc, faults' \in 0..MaxFaults, mishap' \in BOOLEAN,
           mishap => mishap', job[w].fresh # NoDoc => mishap'
    PROVE  Inv'
<1>0. /\ job \in [Workers -> Jobs] /\ row.doc <= issued /\ NoDoc <= issued
      /\ lock \in Workers \cup {Nobody} /\ ttl \in 0..LockTTL /\ 0 <= MaxRetries[w]
  BY JobFacts
<1>1. TypeInv /\ LeaseInv /\ TokenInv
  BY DEF Inv
<1>2. \E s \in {"idle", "rest"} : \E j : /\ Becomes(w, j)
                  /\ Fields(j, s, NoDoc, NoDoc, NoDoc, FALSE, "none", 0, 0)
  <2>1. CASE Ends(w)
    BY <2>1, EndsEffect
  <2>2. CASE job' = [job EXCEPT ![w] = IdleJob]
    <3>1. "idle" \in Stages
      BY DEF Stages
    <3> QED
      BY <2>2, <3>1, IdleEffect DEF Becomes
  <2> QED
    BY <2>1, <2>2
<1>3. PICK j : /\ Becomes(w, j) /\ j.stage \in {"idle", "rest"}
               /\ j.acct = NoDoc /\ j.used = NoDoc /\ j.fresh = NoDoc /\ j.held = FALSE
               /\ j.result = "none" /\ j.tries = 0
  BY <1>2 DEF Fields
<1>4. TypeInv'
  BY <1>0, <1>1, <1>3, TypeStep DEF providerVars, Undisturbed
<1>5. LeaseInv'
  BY <1>1, <1>3, LeaseStep
<1>6. TokenInv'
  BY <1>1, <1>3, TokenStep DEF providerVars, Undisturbed
<1> QED
  BY <1>4, <1>5, <1>6 DEF Inv

\* An attempt begins.
LEMMA StartStep ==
    ASSUME Inv, NEW w \in Workers, job[w].fresh = NoDoc,
           NEW acct \in Docs \cup {NoDoc}, acct <= issued,
           NEW tries \in Nat, tries <= MaxRetries[w],
           job' = [job EXCEPT ![w] = [IdleJob EXCEPT !.stage = "lock", !.acct = acct,
                                             !.left = attemptTimeout, !.tries = tries]],
           UNCHANGED <<rowVars, lockVars, adm, providerVars, faults, mishap>>
    PROVE  Inv'
<1>0. /\ row \in Rows /\ row.doc <= issued /\ NoDoc <= issued
      /\ lock \in Workers \cup {Nobody} /\ ttl \in 0..LockTTL
      /\ faults \in 0..MaxFaults /\ mishap \in BOOLEAN
  BY JobFacts
<1>1. TypeInv /\ LeaseInv /\ TokenInv
  BY DEF Inv
<1>2. PICK j : /\ Becomes(w, j)
               /\ Fields(j, "lock", acct, NoDoc, NoDoc, FALSE, "none", attemptTimeout, tries)
  BY StartEffect
<1>3. /\ j.stage = "lock" /\ j.acct = acct /\ j.used = NoDoc /\ j.fresh = NoDoc
      /\ j.held = FALSE /\ j.result = "none" /\ j.left = attemptTimeout /\ j.tries = tries
  BY <1>2 DEF Fields
<1>4. UNCHANGED <<platform, row, lock, ttl, adm, issued, live, due, refused, faults, mishap>>
  BY DEF rowVars, lockVars, providerVars, Undisturbed
<1>5. TypeInv'
  BY <1>0, <1>1, <1>2, <1>3, <1>4, TypeStep DEF providerVars, Undisturbed
<1>6. LeaseInv'
  BY <1>1, <1>2, <1>3, <1>4, Times, LeaseStep
<1>7. TokenInv'
  BY <1>1, <1>2, <1>3, <1>4, TokenStep DEF providerVars, Undisturbed
<1> QED
  BY <1>5, <1>6, <1>7 DEF Inv

LEMMA AcquireStep ==
    ASSUME Inv, NEW w \in Workers, AcquireRefreshLock(w)
    PROVE  Inv'
<1> DEFINE i == job[w]
<1>0. /\ i \in Jobs /\ row \in Rows /\ row.doc <= issued /\ NoDoc <= issued
      /\ i.acct <= issued /\ i.used <= issued /\ i.fresh <= issued /\ i.left \in Nat
      /\ i.tries <= MaxRetries[w] /\ lock \in Workers \cup {Nobody} /\ ttl \in 0..LockTTL
      /\ faults \in 0..MaxFaults /\ mishap \in BOOLEAN /\ job \in [Workers -> Jobs]
  BY JobFacts
<1>1. /\ TypeInv /\ LeaseInv /\ TokenInv
      /\ i.stage = "lock" /\ i.fresh = NoDoc /\ i.held = FALSE
      /\ i.left <= LockTTL - SafetyMargin
      /\ UNCHANGED <<platform, row, adm, issued, live, due, refused, mishap>>
  BY JobFacts DEF Inv, TypeInv, StagesMatch, LeaseInv, Holding, AcquireRefreshLock, rowVars,
                  providerVars, Undisturbed
<1>2. faults' \in 0..MaxFaults
  BY <1>0, FaultFacts DEF AcquireRefreshLock
<1>3. i.result = "revoked" => i.acct \notin live \ refused
  BY <1>1 DEF TokenInv, UsedUp
<1>4. CASE Returns(w, "skip", NoDoc) /\ UNCHANGED lockVars
  BY <1>0, <1>1, <1>2, <1>4, ReturnStep DEF Results, lockVars, providerVars, Undisturbed
<1>5. ASSUME NEW h \in BOOLEAN, lock = Nobody \/ UNCHANGED lockVars,
             lock' \in Workers \cup {Nobody}, ttl' \in 0..LockTTL,
             h => lock = Nobody /\ lock' = w /\ ttl' = LockTTL,
             job' = [job EXCEPT ![w] = [i EXCEPT !.stage = "read", !.held = h]]
      PROVE  Inv'
  <2> DEFINE j == [i EXCEPT !.stage = "read", !.held = h]
  <2>1. /\ j \in Jobs /\ j.stage = "read" /\ j.held = h /\ j.acct = i.acct /\ j.used = i.used
        /\ j.fresh = i.fresh /\ j.left = i.left /\ j.tries = i.tries /\ j.result = i.result
    BY <1>0 DEF Jobs, Stages
  <2>2. Becomes(w, j)
    BY <1>5, <2>1 DEF Becomes
  <2> HIDE DEF i, j
  <2>3. TypeInv'
    BY <1>0, <1>1, <1>2, <1>5, <2>1, <2>2, TypeStep DEF providerVars, Undisturbed
  <2>4. h => i.left + Reserve("read") < LockTTL
    BY <1>0, <1>1, ConstantsAssumption DEF Reserve
  <2>5. LeaseInv'
    BY <1>1, <1>5, <2>1, <2>2, <2>4, LeaseStep DEF lockVars, Holding
  <2>6. TokenInv'
    BY <1>1, <1>3, <2>1, <2>2, TokenStep DEF providerVars, Undisturbed, i
  <2> QED
    BY <2>3, <2>5, <2>6 DEF Inv
<1>6. /\ LockTTL \in 0..LockTTL
      /\ [i EXCEPT !.stage = "read"] = [i EXCEPT !.stage = "read", !.held = FALSE]
  <2> HIDE DEF i
  <2>1. i.held = FALSE /\ i \in Jobs
    BY <1>0, <1>1
  <2>2. [i EXCEPT !.stage = "read"] = [i EXCEPT !.stage = "read", !.held = FALSE]
    BY <2>1 DEF Jobs
  <2> QED
    BY <2>2, ConstantsAssumption
<1>7. /\ [job EXCEPT ![w].stage = "read"] = [job EXCEPT ![w] = [i EXCEPT !.stage = "read"]]
      /\ [job EXCEPT ![w].stage = "read", ![w].held = TRUE]
            = [job EXCEPT ![w] = [i EXCEPT !.stage = "read", !.held = TRUE]]
  BY <1>0
<1>8. CASE lock = Nobody /\ lock' = w /\ ttl' = LockTTL
           /\ job' = [job EXCEPT ![w].stage = "read", ![w].held = TRUE]
  BY <1>5, <1>6, <1>7, <1>8
<1>9. CASE /\ UNCHANGED lockVars \/ (lock = Nobody /\ lock' = w /\ ttl' = LockTTL)
           /\ job' = [job EXCEPT ![w].stage = "read"]
  BY <1>0, <1>5, <1>6, <1>7, <1>9 DEF lockVars
<1> QED
  BY <1>4, <1>8, <1>9 DEF AcquireRefreshLock

\* An attempt moves on to stage s with the lock as it is.
LEMMA AdvanceStep ==
    ASSUME Inv, NEW w \in Workers, NEW j, Becomes(w, j),
           job[w].stage \in {"read", "call", "persist"},
           UNCHANGED <<platform, adm, lock, ttl, mishap>>, row' \in Rows,
           faults' \in 0..MaxFaults,
           j.stage \in {"call", "persist", "recover", "durable"},
           j.held = job[w].held, j.tries = job[w].tries, j.acct = job[w].acct,
           j.result = job[w].result,
           \/ j.stage # "durable" /\ j.left = job[w].left
           \/ j.stage = "durable" /\ j.left = CleanupTimeout /\ job[w].left > 0,
           (j.stage = "persist") <=> (j.fresh # NoDoc), j.fresh <= issued',
           j.used \in {job[w].used, row.doc}, j.stage = "call" => j.used \in due,
           j.stage = "persist" => j.used = job[w].used,
           j.stage = "recover" => j.used \notin live,
           \/ UNCHANGED providerVars /\ j.stage # "persist"
           \/ /\ Rotate(job[w].used) /\ job[w].used \in due /\ job[w].fresh = NoDoc
              /\ row' = row /\ j.stage = "persist" /\ j.fresh = issued + 1,
           \/ row'.doc = row.doc /\ job[w].fresh = NoDoc
           \/ row'.doc = job[w].fresh /\ job[w].fresh # NoDoc /\ j.fresh = NoDoc
    PROVE  Inv'
<1>0. /\ job \in [Workers -> Jobs] /\ job[w].tries <= MaxRetries[w] /\ row.doc <= issued
      /\ job[w].fresh <= issued /\ job[w].acct <= issued /\ job[w].used <= issued
      /\ job[w].acct \in Nat
      /\ lock \in Workers \cup {Nobody} /\ ttl \in 0..LockTTL /\ mishap \in BOOLEAN
      /\ job[w].left \in Nat /\ issued \in Nat
  BY JobFacts DEF Docs, NoDoc
<1>1. TypeInv /\ LeaseInv /\ TokenInv
  BY DEF Inv
<1>7. /\ UNCHANGED providerVars => Undisturbed
      /\ job[w].used \in due /\ Rotate(job[w].used) => \E d \in due : Rotate(d)
  BY DEF providerVars, Undisturbed
<1>2. TypeInv'
  BY <1>0, <1>1, <1>7, TypeStep
<1>3. j.held => /\ lock' = w /\ j.stage \in Holding /\ j.left + Reserve(j.stage) < ttl'
  <2> SUFFICES ASSUME job[w].held
               PROVE  lock = w /\ j.stage \in Holding /\ j.left + Reserve(j.stage) < ttl
    OBVIOUS
  <2>1. lock = w /\ job[w].left + Reserve(job[w].stage) < ttl
    BY <1>1 DEF LeaseInv
  <2>2. CASE j.stage # "durable"
    BY <2>1, <2>2 DEF Reserve, Holding
  <2>3. CASE j.stage = "durable"
    BY <2>1, <2>3, ReserveFacts DEF Holding
  <2> QED
    BY <2>2, <2>3
<1>4. LeaseInv'
  BY <1>1, <1>3, LeaseStep
<1>5. /\ j.result = "revoked" => j.acct \notin live' \ refused'
      /\ j.stage \in {"persist", "recover"} => j.used \notin live'
  <2>1. job[w].result = "revoked" => job[w].acct \notin live \ refused
    BY <1>1 DEF TokenInv, UsedUp
  <2>2. CASE UNCHANGED providerVars /\ j.stage # "persist"
    BY <2>1, <2>2 DEF providerVars, Undisturbed
  <2>3. CASE Rotate(job[w].used) /\ job[w].used \in due /\ j.stage = "persist"
    <3>1. /\ job[w].used \notin live'
          /\ \A e : e <= issued /\ e \notin live \ refused => e \notin live' \ refused'
      BY <1>1, <2>3, RotateEffect
    <3> QED
      BY <1>0, <2>1, <2>3, <3>1
  <2> QED
    BY <2>2, <2>3
<1>6. TokenInv'
  <2>1. CASE UNCHANGED providerVars /\ j.stage # "persist"
    BY <1>1, <1>5, <1>7, <2>1, TokenStep
  <2>2. CASE /\ Rotate(job[w].used) /\ job[w].used \in due /\ job[w].fresh = NoDoc
             /\ row' = row /\ j.stage = "persist" /\ j.fresh = issued + 1
    <3>1. ~Undisturbed
      BY <1>0, <2>2 DEF Rotate, Undisturbed
    <3> QED
      BY <1>1, <1>5, <2>2, <3>1, TokenStep
  <2> QED
    BY <2>1, <2>2
<1> QED
  BY <1>2, <1>4, <1>6 DEF Inv

LEMMA RereadStep ==
    ASSUME Inv, NEW w \in Workers, Reread(w)
    PROVE  Inv'
<1> DEFINE i == job[w]
<1>0. /\ i \in Jobs /\ row \in Rows /\ NoDoc <= issued /\ row.doc <= issued /\ row.doc \in Docs
      /\ faults \in 0..MaxFaults /\ mishap \in BOOLEAN /\ job \in [Workers -> Jobs]
      /\ row.cooling \in BOOLEAN /\ i.fresh <= issued
  BY JobFacts DEF Rows
<1>1. /\ i.stage = "read" /\ i.fresh = NoDoc
      /\ UNCHANGED <<platform, row, lock, ttl, adm, issued, live, due, refused, mishap>>
  BY DEF Inv, TypeInv, StagesMatch, Reread, rowVars, lockVars, providerVars, Undisturbed
<1>2. faults' \in 0..MaxFaults
  BY <1>0, FaultFacts DEF Reread
<1>3. CASE \E result \in {"stop", "skip"} : Returns(w, result, NoDoc)
  BY <1>0, <1>1, <1>2, <1>3, ReturnStep DEF Results, providerVars, Undisturbed
<1>4. CASE /\ row.doc \in due
           /\ job' = [job EXCEPT ![w].stage = "call", ![w].used = row.doc,
                                 ![w].sawCooling = row.cooling]
  <2> DEFINE j == [i EXCEPT !.stage = "call", !.used = row.doc, !.sawCooling = row.cooling]
  <2>1. /\ j \in Jobs /\ j.stage = "call" /\ j.held = i.held /\ j.acct = i.acct
        /\ j.used = row.doc /\ j.fresh = i.fresh /\ j.left = i.left /\ j.tries = i.tries
        /\ j.result = i.result
    BY <1>0 DEF Jobs, Stages
  <2>2. Becomes(w, j)
    BY <1>4, <2>1 DEF Becomes
  <2> HIDE DEF j
  <2> QED
    BY <1>0, <1>1, <1>2, <1>4, <2>1, <2>2, AdvanceStep DEF providerVars, Undisturbed
<1> QED
  BY <1>3, <1>4 DEF Reread

LEMMA RefreshStep ==
    ASSUME Inv, NEW w \in Workers, Refresh(w)
    PROVE  Inv'
<1> DEFINE i == job[w]
<1>0. /\ i \in Jobs /\ row \in Rows /\ NoDoc <= issued /\ issued \in Nat
      /\ i.acct \in Docs \cup {NoDoc} /\ i.used \in Docs \cup {NoDoc}
      /\ i.acct <= issued /\ i.used <= issued /\ i.left \in Nat
      /\ faults \in 0..MaxFaults /\ mishap \in BOOLEAN /\ job \in [Workers -> Jobs]
  BY JobFacts
<1>1. /\ i.stage = "call" /\ i.fresh = NoDoc /\ i.used \in due
      /\ UNCHANGED <<platform, row, lock, ttl, adm>> /\ TypeInv
  BY DEF Inv, TypeInv, StagesMatch, Refresh, rowVars, lockVars
<1>2. faults' \in 0..MaxFaults
  BY <1>0, FaultFacts DEF Refresh, RefusesAccount
<1>3. ASSUME Rotate(i.used), UNCHANGED mishap,
             job' = [job EXCEPT ![w].stage = "persist", ![w].fresh = issued + 1]
      PROVE  Inv'
  <2> DEFINE j == [i EXCEPT !.stage = "persist", !.fresh = issued + 1]
  <2>1. issued + 1 \in Docs /\ issued' = issued + 1 /\ issued + 1 # NoDoc
    BY <1>0, <1>1, <1>3, RotateEffect DEF NoDoc
  <2>2. /\ j \in Jobs /\ j.stage = "persist" /\ j.held = i.held /\ j.acct = i.acct
        /\ j.used = i.used /\ j.fresh = issued + 1 /\ j.left = i.left /\ j.tries = i.tries
        /\ j.result = i.result
    BY <1>0, <2>1 DEF Jobs, Stages
  <2>3. Becomes(w, j)
    BY <1>3, <2>2 DEF Becomes
  <2>4. j.fresh <= issued'
    BY <1>0, <2>1, <2>2
  <2> HIDE DEF j
  <2> QED
    BY <1>0, <1>1, <1>2, <1>3, <2>1, <2>2, <2>3, <2>4, AdvanceStep
<1>4. ASSUME i.used \notin live, UNCHANGED <<issued, live, due, refused, mishap>>,
             job' = [job EXCEPT ![w].stage = "recover"]
      PROVE  Inv'
  <2> DEFINE j == [i EXCEPT !.stage = "recover"]
  <2>1. /\ j \in Jobs /\ j.stage = "recover" /\ j.held = i.held /\ j.acct = i.acct
        /\ j.used = i.used /\ j.fresh = i.fresh /\ j.left = i.left /\ j.tries = i.tries
        /\ j.result = i.result
    BY <1>0 DEF Jobs, Stages
  <2>2. Becomes(w, j)
    BY <1>4, <2>1 DEF Becomes
  <2> HIDE DEF j
  <2> QED
    BY <1>0, <1>1, <1>2, <1>4, <2>1, <2>2, AdvanceStep DEF providerVars, Undisturbed
<1>5. ASSUME UNCHANGED <<providerVars, mishap>> \/ (Rotate(i.used) /\ mishap' = TRUE),
             NEW result \in {"retry", "stop"}, NEW acct \in {i.acct, i.used, NoDoc},
             Returns(w, result, acct)
      PROVE  Inv'
  <2>1. /\ result \in Results /\ result # "revoked"
        /\ acct \in Docs \cup {NoDoc} /\ acct <= issued
    BY <1>0 DEF Results
  <2>2. CASE UNCHANGED <<providerVars, mishap>>
    <3>1. Undisturbed /\ UNCHANGED mishap
      BY <2>2 DEF providerVars, Undisturbed
    <3> QED
      BY <1>0, <1>1, <1>2, <1>5, <2>1, <3>1, ReturnStep
  <2>3. CASE Rotate(i.used) /\ mishap' = TRUE
    <3>1. mishap' \in BOOLEAN /\ mishap'
      BY <2>3, Zenon
    <3> QED
      BY <1>0, <1>1, <1>2, <1>5, <2>1, <2>3, <3>1, ReturnStep
  <2> QED
    BY <1>5, <2>2, <2>3
<1>6. CASE RefusesAccount(w)
  <2>1. /\ Undisturbed /\ UNCHANGED mishap /\ i.used \notin live' \ refused'
        /\ Returns(w, "revoked", i.used)
    BY <1>6 DEF RefusesAccount, Undisturbed
  <2> QED
    BY <1>0, <1>1, <1>2, <2>1, ReturnStep DEF Results
<1> QED
  BY <1>3, <1>4, <1>5, <1>6 DEF Refresh, providerVars

LEMMA RecoverStep ==
    ASSUME Inv, NEW w \in Workers, Recover(w)
    PROVE  Inv'
<1> DEFINE i == job[w]
<1>0. /\ row \in Rows /\ NoDoc <= issued
      /\ i.acct \in Docs \cup {NoDoc} /\ i.used \in Docs \cup {NoDoc}
      /\ i.acct <= issued /\ i.used <= issued
      /\ faults \in 0..MaxFaults /\ mishap \in BOOLEAN
  BY JobFacts
<1>1. /\ i.stage = "recover" /\ i.fresh = NoDoc /\ i.used \notin live
      /\ UNCHANGED <<platform, row, lock, ttl, adm, issued, live, due, refused, mishap>>
  BY DEF Inv, TypeInv, StagesMatch, TokenInv, UsedUp, Recover, rowVars, lockVars, providerVars, Undisturbed
<1>2. faults' \in 0..MaxFaults
  BY <1>0, FaultFacts DEF Recover
<1>3. \/ Returns(w, "skip", NoDoc) \/ Returns(w, "revoked", i.used)
      \/ \E acct \in {i.acct, i.used} : Returns(w, "retry", acct)
  BY DEF Recover
<1> QED
  BY <1>0, <1>1, <1>2, <1>3, ReturnStep DEF Results, providerVars, Undisturbed

LEMMA PersistStep ==
    ASSUME Inv, NEW w \in Workers, AnswerTooLate(w) \/ PersistGrok(w) \/ PersistOther(w)
    PROVE  Inv'
<1> DEFINE i == job[w]
<1>0. /\ row \in Rows /\ NoDoc <= issued /\ i \in Jobs
      /\ i.acct \in Docs \cup {NoDoc} /\ i.acct <= issued /\ i.fresh \in Docs \cup {NoDoc}
      /\ i.used <= issued
      /\ faults \in 0..MaxFaults /\ mishap \in BOOLEAN /\ job \in [Workers -> Jobs]
  BY JobFacts
<1>1. /\ i.stage = "persist" /\ i.fresh # NoDoc
      /\ UNCHANGED <<platform, lock, ttl, adm, issued, live, due, refused>>
  BY DEF Inv, TypeInv, StagesMatch, AnswerTooLate, PersistGrok, PersistOther, rowVars,
         lockVars, providerVars, Undisturbed
<1>2. faults' \in 0..MaxFaults
  BY <1>0, FaultFacts DEF AnswerTooLate, PersistGrok, PersistOther
<1>3. Stored(w) => row' \in Rows /\ row'.doc = i.fresh
  BY <1>0, <1>1 DEF Stored, Rows
<1>4. ASSUME NEW result \in {"skip", "stop", "retry", "done"}, NEW acct \in {NoDoc, i.acct},
             Returns(w, result, acct),
             \/ Stored(w) /\ UNCHANGED mishap
             \/ UNCHANGED row /\ mishap' = TRUE
             \/ UNCHANGED <<row, mishap>> /\ row.doc # i.used
      PROVE  Inv'
  <2>1. /\ result \in Results /\ result # "revoked"
        /\ acct \in Docs \cup {NoDoc} /\ acct <= issued
    BY <1>0 DEF Results
  <2>2. Undisturbed
    BY <1>1 DEF Undisturbed
  <2>3. CASE Stored(w) /\ UNCHANGED mishap
    BY <1>0, <1>1, <1>2, <1>3, <1>4, <2>1, <2>2, <2>3, ReturnStep
  <2>4. CASE UNCHANGED row /\ mishap' = TRUE
    <3>1. mishap' \in BOOLEAN /\ mishap'
      BY <2>4, Zenon
    <3> QED
      BY <1>0, <1>1, <1>2, <1>4, <2>1, <2>2, <2>4, <3>1, ReturnStep
  <2>5. CASE UNCHANGED <<row, mishap>> /\ row.doc # i.used
    BY <1>0, <1>1, <1>2, <1>4, <2>1, <2>2, <2>5, ReturnStep
  <2> QED
    BY <1>4, <2>3, <2>4, <2>5
<1>5. ASSUME Stored(w), UNCHANGED mishap, i.left > 0,
             job' = [job EXCEPT ![w].stage = "durable", ![w].fresh = NoDoc,
                                ![w].left = CleanupTimeout]
      PROVE  Inv'
  <2> DEFINE j == [i EXCEPT !.stage = "durable", !.fresh = NoDoc, !.left = CleanupTimeout]
  <2>1. /\ j \in Jobs /\ j.stage = "durable" /\ j.held = i.held /\ j.acct = i.acct
        /\ j.used = i.used /\ j.fresh = NoDoc /\ j.left = CleanupTimeout
        /\ j.tries = i.tries /\ j.result = i.result
    BY <1>0, Times DEF Jobs, Stages
  <2>2. Becomes(w, j)
    BY <1>5, <2>1 DEF Becomes
  <2> HIDE DEF j
  <2> QED
    BY <1>0, <1>1, <1>2, <1>3, <1>5, <2>1, <2>2, AdvanceStep DEF providerVars, Undisturbed
<1>6. CASE AnswerTooLate(w)
  BY <1>4, <1>6 DEF AnswerTooLate, rowVars
<1>7. CASE PersistGrok(w)
  BY <1>4, <1>5, <1>7 DEF PersistGrok, InTime
<1>8. CASE PersistOther(w)
  BY <1>4, <1>8 DEF PersistOther
<1> QED
  BY <1>6, <1>7, <1>8

LEMMA ReleaseStep ==
    ASSUME Inv, NEW w \in Workers, LoadDurable(w) \/ ReleaseRefreshLock(w)
    PROVE  Inv'
<1> DEFINE i == job[w]
<1>0. /\ i \in Jobs /\ row \in Rows /\ NoDoc <= issued /\ row.doc <= issued
      /\ i.acct <= issued /\ i.used <= issued /\ i.fresh <= issued
      /\ i.tries <= MaxRetries[w] /\ lock \in Workers \cup {Nobody} /\ ttl \in 0..LockTTL
      /\ faults \in 0..MaxFaults /\ mishap \in BOOLEAN /\ job \in [Workers -> Jobs]
      /\ row.cooling \in BOOLEAN /\ i.held \in BOOLEAN
  BY JobFacts DEF Rows
<1>1. /\ TypeInv /\ LeaseInv /\ TokenInv /\ i.fresh = NoDoc
      /\ i.stage = "release" => i.held
      /\ i.result = "revoked" => i.acct \notin live \ refused
      /\ UNCHANGED <<platform, row, adm, issued, live, due, refused, mishap>>
  BY DEF Inv, TypeInv, StagesMatch, LeaseInv, TokenInv, UsedUp, LoadDurable,
         ReleaseRefreshLock, rowVars, providerVars, Undisturbed
<1>2. faults' \in 0..MaxFaults
  BY <1>0, FaultFacts DEF LoadDurable, ReleaseRefreshLock
<1>3. CASE LoadDurable(w)
  <2>0. i.stage = "durable" /\ UNCHANGED <<lock, ttl>>
    BY <1>3 DEF LoadDurable, lockVars
  <2>1. CASE Returns(w, "stop", NoDoc)
    BY <1>0, <1>1, <1>2, <2>0, <2>1, ReturnStep DEF Results, providerVars, Undisturbed
  <2>2. CASE job' = [job EXCEPT ![w].stage = IF job[w].held THEN "release" ELSE "after",
                                ![w].result = "done",
                                ![w].acct = NoDoc, ![w].used = NoDoc,
                                ![w].sawCooling = row.cooling,
                                ![w].left = IF job[w].held THEN ReleaseTimeout ELSE 0]
    <3> DEFINE j == [i EXCEPT !.stage = IF i.held THEN "release" ELSE "after",
                              !.result = "done", !.acct = NoDoc, !.used = NoDoc,
                              !.sawCooling = row.cooling,
                              !.left = IF i.held THEN ReleaseTimeout ELSE 0]
    <3>1. /\ j \in Jobs /\ j.stage = (IF i.held THEN "release" ELSE "after")
          /\ j.result = "done" /\ j.acct = NoDoc /\ j.used = NoDoc /\ j.fresh = i.fresh
          /\ j.held = i.held /\ j.tries = i.tries
          /\ j.left = IF i.held THEN ReleaseTimeout ELSE 0
      BY <1>0, Times DEF Jobs, Stages, Results
    <3>2. Becomes(w, j)
      BY <2>2, <3>1 DEF Becomes
    <3> HIDE DEF j
    <3>3. j.stage \in {"release", "after"} /\ (j.stage = "release" => j.held)
      BY <1>0, <3>1
    <3>4. TypeInv'
      BY <1>0, <1>1, <1>2, <2>0, <3>1, <3>2, <3>3, TypeStep DEF providerVars, Undisturbed
    <3>5. j.held => /\ lock' = w /\ j.stage \in Holding /\ j.left + Reserve(j.stage) < ttl'
      BY <2>0, <3>1, ReserveFacts DEF Holding
    <3>6. LeaseInv'
      BY <1>1, <2>0, <3>2, <3>3, <3>5, LeaseStep
    <3>7. TokenInv'
      BY <1>1, <3>1, <3>2, <3>3, TokenStep DEF providerVars, Undisturbed
    <3> QED
      BY <3>4, <3>6, <3>7 DEF Inv
  <2> QED
    BY <1>3, <2>1, <2>2 DEF LoadDurable
<1>4. CASE ReleaseRefreshLock(w)
  <2>0. i.stage = "release" /\ i.held
    BY <1>1, <1>4 DEF ReleaseRefreshLock
  <2>1. PICK r \in {i.result, Late(i.result)} :
            job' = [job EXCEPT ![w].stage = "after", ![w].held = FALSE,
                               ![w].left = 0, ![w].late = FALSE, ![w].result = r]
    <3>1. CASE job' = [job EXCEPT ![w].stage = "after", ![w].held = FALSE,
                                  ![w].left = 0, ![w].late = FALSE]
      <4>1. [job EXCEPT ![w].stage = "after", ![w].held = FALSE, ![w].left = 0,
                        ![w].late = FALSE]
              = [job EXCEPT ![w].stage = "after", ![w].held = FALSE, ![w].left = 0,
                            ![w].late = FALSE, ![w].result = i.result]
        BY ZenonT(60), <1>0 DEF Jobs
      <4> QED
        BY <3>1, <4>1
    <3> QED
      BY <1>4, <3>1 DEF ReleaseRefreshLock
  <2> DEFINE j == [i EXCEPT !.stage = "after", !.held = FALSE, !.left = 0, !.late = FALSE,
                            !.result = r]
  <2>2. r \in Results /\ (r = "revoked" => i.result = "revoked")
    BY <1>0 DEF Late, Results, Jobs
  <2>3. /\ j \in Jobs /\ j.stage = "after" /\ j.held = FALSE /\ j.acct = i.acct
        /\ j.used = i.used /\ j.fresh = i.fresh /\ j.tries = i.tries /\ j.result = r
    BY <1>0, <2>2, Times DEF Jobs, Stages
  <2>4. Becomes(w, j)
    BY <2>1, <2>3 DEF Becomes
  <2> HIDE DEF j
  <2>5. lock' \in Workers \cup {Nobody} /\ ttl' \in 0..LockTTL
    BY <1>0, <1>4, Times DEF ReleaseRefreshLock, lockVars
  <2>6. TypeInv'
    BY <1>0, <1>1, <1>2, <2>3, <2>4, <2>5, TypeStep DEF providerVars, Undisturbed
  <2>7. LeaseInv'
    BY <1>1, <2>0, <2>3, <2>4, LeaseStep
  <2>8. TokenInv'
    BY <1>1, <2>2, <2>3, <2>4, TokenStep DEF providerVars, Undisturbed
  <2> QED
    BY <2>6, <2>7, <2>8 DEF Inv
<1> QED
  BY <1>3, <1>4

\* The attempt's deadline passes after it has returned.
LEMMA LateStep ==
    ASSUME Inv, NEW w \in Workers, DeadlinePasses(w)
    PROVE  Inv'
<1> DEFINE i == job[w]
           j == [i EXCEPT !.result = Late(i.result)]
<1>0. /\ i \in Jobs /\ job \in [Workers -> Jobs] /\ row \in Rows /\ row.doc <= issued
      /\ i.acct <= issued /\ i.used <= issued /\ NoDoc <= issued
      /\ i.tries <= MaxRetries[w] /\ lock \in Workers \cup {Nobody} /\ ttl \in 0..LockTTL
      /\ mishap \in BOOLEAN
  BY JobFacts
<1>1. /\ TypeInv /\ LeaseInv /\ TokenInv /\ i.fresh = NoDoc
      /\ i.stage \in {"release", "after"}
      /\ i.stage = "release" => i.held
      /\ i.held => lock = w /\ i.stage \in Holding /\ i.left + Reserve(i.stage) < ttl
      /\ UNCHANGED <<platform, row, adm, lock, ttl, mishap>> /\ UNCHANGED providerVars
  BY DEF Inv, TypeInv, StagesMatch, LeaseInv, DeadlinePasses, rowVars, lockVars
<1>2. faults' \in 0..MaxFaults
  BY JobFacts, FaultFacts DEF DeadlinePasses
<1>3. Late(i.result) \in Results /\ Late(i.result) # "revoked"
  BY DEF DeadlinePasses, Late, Results
<1>4. /\ j \in Jobs /\ j.stage = i.stage /\ j.held = i.held /\ j.acct = i.acct
      /\ j.used = i.used /\ j.fresh = i.fresh /\ j.tries = i.tries /\ j.left = i.left
      /\ j.result # "revoked"
  BY <1>0, <1>3 DEF Jobs
<1>5. Becomes(w, j)
  BY <1>4 DEF DeadlinePasses, Becomes
<1> HIDE DEF i, j
<1>9. /\ Undisturbed /\ j.stage \notin {"persist", "call", "lock", "recover"}
      /\ row' \in Rows /\ row'.doc <= issued /\ j.fresh <= issued'
  BY <1>0, <1>1, <1>4 DEF providerVars, Undisturbed
<1>6. TypeInv'
  BY <1>0, <1>1, <1>2, <1>4, <1>5, <1>9, TypeStep DEF i
<1>7. LeaseInv'
  BY <1>1, <1>4, <1>5, <1>9, LeaseStep DEF i
<1>8. TokenInv'
  BY <1>1, <1>4, <1>5, <1>9, TokenStep DEF i
<1> QED
  BY <1>6, <1>7, <1>8 DEF Inv

LEMMA OutcomeStep ==
    ASSUME Inv, NEW w \in Workers, Begin(w) \/ Outcome(w) \/ CycleOver(w) \/ Crash(w)
    PROVE  Inv'
<1>0. /\ row \in Rows /\ row.doc <= issued /\ row.doc \in Docs
      /\ job[w].acct \in Docs \cup {NoDoc} /\ job[w].acct <= issued
      /\ job[w].tries \in Nat /\ MaxRetries[w] \in Nat \ {0}
      /\ job[w].fresh # NoDoc => job[w].stage = "persist"
      /\ faults \in 0..MaxFaults /\ mishap \in BOOLEAN
  <2>1. job[w].fresh # NoDoc => job[w].stage = "persist"
    BY DEF Inv, TypeInv, StagesMatch
  <2> QED
    BY <2>1, JobFacts
<1>1. CASE Begin(w)
  <2>1. job[w].fresh = NoDoc /\ 1 \in Nat /\ 1 <= MaxRetries[w]
    BY <1>0, <1>1 DEF Begin
  <2> QED
    BY <1>0, <1>1, <2>1, StartStep DEF Begin
<1>2. CASE TryAgain(w)
  <2>1. job[w].fresh = NoDoc /\ job[w].tries + 1 \in Nat /\ job[w].tries + 1 <= MaxRetries[w]
    BY <1>0, <1>2 DEF TryAgain
  <2> QED
    BY <1>0, <1>2, <2>1, StartStep DEF TryAgain
<1>3. CASE EndQuietly(w) \/ EndRefreshed(w) \/ EndRevoked(w) \/ EndExhausted(w)
  <2>1. job[w].fresh = NoDoc
    BY <1>0, <1>3 DEF EndQuietly, EndRefreshed, EndRevoked, EndExhausted
  <2>2. row' \in Rows /\ row'.doc = row.doc
    BY ZenonT(60), <1>0, <1>3 DEF EndQuietly, EndRefreshed, EndRevoked, EndExhausted, Quarantines,
                      CoolsDown, rowVars, Rows, Statuses
  <2>3. /\ UNCHANGED <<platform, adm, lock, ttl, faults, mishap>> /\ Ends(w)
        /\ UNCHANGED providerVars
    BY <1>3 DEF EndQuietly, EndRefreshed, EndRevoked, EndExhausted, rowVars, lockVars
  <2> QED
    BY <1>0, <2>1, <2>2, <2>3, EndStep
<1>4. CASE CycleOver(w)
  <2>1. /\ UNCHANGED <<platform, row, adm, lock, ttl, mishap>> /\ UNCHANGED providerVars
        /\ Ends(w) /\ faults' \in 0..MaxFaults /\ job[w].fresh = NoDoc
    BY <1>0, <1>4, FaultFacts DEF CycleOver, rowVars, lockVars
  <2> QED
    BY <1>0, <2>1, EndStep
<1>5. CASE Crash(w)
  <2>1. /\ UNCHANGED <<platform, row, adm, lock, ttl>> /\ UNCHANGED providerVars
        /\ job' = [job EXCEPT ![w] = IdleJob] /\ faults' \in 0..MaxFaults
    BY <1>0, <1>5, FaultFacts DEF Crash, rowVars, lockVars
  <2>2. mishap' = (mishap \/ job[w].fresh # NoDoc)
    BY <1>5 DEF Crash
  <2>3. mishap' \in BOOLEAN /\ (mishap => mishap') /\ (job[w].fresh # NoDoc => mishap')
    BY <2>2, Zenon
  <2> QED
    BY <1>0, <2>1, <2>3, EndStep
<1> QED
  BY <1>1, <1>2, <1>3, <1>4, <1>5 DEF Outcome

-----------------------------------------------------------------------------
(* The steps of the administrators.                                        *)

Asks(a, b) == b \in AdminRequests /\ adm' = [adm EXCEPT ![a] = b]

\* The request exchanges document d, or obtains a new one beside it.
Obtains(d) ==
    /\ issued' = issued + 1 /\ due' = due
    /\ live' = (live \ {d}) \cup {issued + 1} /\ refused' = refused \ {d}
    /\ (d \in due /\ d \in live) \/ Room

LEMMA ObtainsEffect ==
    ASSUME TypeInv, NEW d, Obtains(d)
    PROVE  /\ issued' = issued + 1 /\ due' = due /\ issued' \in Docs
           /\ live' \subseteq 1..issued' /\ due' \subseteq 1..issued'
           /\ issued' + Cardinality(due' \cap live') <= MaxDocs
           /\ issued' \in live'
           /\ \A e : e # d /\ e \in live => e \in live'
           /\ \A e : e <= issued /\ e \notin live => e \notin live'
           /\ \A e : e <= issued /\ e \notin live \ refused => e \notin live' \ refused'
           /\ refused' \subseteq 1..issued'
<1>1. /\ issued' = issued + 1 /\ live' = (live \ {d}) \cup {issued + 1}
      /\ refused' = refused \ {d} /\ refused \subseteq 1..issued
      /\ due' = due /\ issued \in Nat /\ issued >= 1 /\ MaxDocs \in Nat
      /\ live \subseteq 1..issued /\ due \subseteq 1..issued
  BY ConstantsAssumption DEF Obtains, TypeInv, TypeOK, Docs
<1>2. due' \cap live' = (due \cap live) \ {d}
  BY <1>1
<1>3. /\ IsFiniteSet(due \cap live) /\ Cardinality(due \cap live) \in Nat
      /\ issued + Cardinality(due \cap live) <= MaxDocs
  BY DueFinite DEF TypeInv, DocsAreIssued
<1>4. Cardinality(due' \cap live') =
        IF d \in due \cap live THEN Cardinality(due \cap live) - 1
                               ELSE Cardinality(due \cap live)
  BY <1>2, <1>3, FS_RemoveElement
<1>5. Cardinality(due' \cap live') \in Nat
  BY <1>2, <1>3, FS_RemoveElement, FS_CardinalityType
<1>6. issued' + Cardinality(due' \cap live') <= MaxDocs
  BY <1>1, <1>3, <1>4, <1>5 DEF Room, Obtains
<1>7. issued' \in Docs
  BY <1>1, <1>5, <1>6 DEF Docs
<1>8. live' \subseteq 1..issued' /\ due' \subseteq 1..issued'
  <2>1. \A e \in live' : e \in 1..issued \/ e = issued + 1
    BY <1>1
  <2>2. \A e \in 1..issued : e \in 1..(issued + 1)
    BY <1>1
  <2>3. issued + 1 \in 1..(issued + 1)
    BY <1>1
  <2> QED
    BY <1>1, <2>1, <2>2, <2>3
<1>9. \A e : e <= issued /\ e \notin live => e \notin live'
  BY <1>1
<1>10. \A e : e <= issued /\ e \notin live \ refused => e \notin live' \ refused'
  BY <1>1
<1>11. refused' \subseteq 1..issued'
  <2>1. \A e \in 1..issued : e \in 1..(issued + 1)
    BY <1>1
  <2> QED
    BY <1>1, <2>1
<1> QED
  BY <1>1, <1>6, <1>7, <1>8, <1>9, <1>10, <1>11

\* Which documents the request of stage and kind may name.
Consistent(b) ==
    /\ b.stage \in {"idle", "clear"} => b.doc = NoDoc
    /\ b.stage = "write" => b.doc # NoDoc /\ b.kind # "none"
    /\ b.stage = "read" => b.doc # NoDoc /\ b.kind = "refresh"
    /\ b.stage = "call" => b.doc = NoDoc /\ b.kind = "refresh"
    /\ b.kind = "edit" => b.doc = b.seen

LEMMA AdminType ==
    ASSUME TypeInv, NEW a \in Admins, NEW b, Asks(a, b), Consistent(b),
           b.seen <= issued, b.doc <= issued', UNCHANGED <<platform, lock, ttl, job>>,
           row' \in Rows, row'.doc <= issued, faults' \in 0..MaxFaults, mishap' \in BOOLEAN,
           UNCHANGED providerVars \/ \E d : Obtains(d)
    PROVE  TypeInv'
<1>0. /\ issued \in Docs /\ live \subseteq 1..issued /\ due \subseteq 1..issued
      /\ refused \subseteq 1..issued
      /\ MaxDocs \in Nat /\ issued \in Nat
      /\ job \in [Workers -> Jobs] /\ adm \in [Admins -> AdminRequests]
  BY ConstantsAssumption DEF TypeInv, TypeOK, Docs
<1>1. /\ issued' \in Docs /\ issued <= issued' /\ due' = due
      /\ live' \subseteq 1..issued' /\ due' \subseteq 1..issued'
      /\ refused' \subseteq 1..issued'
      /\ issued' + Cardinality(due' \cap live') <= MaxDocs
  <2>1. CASE UNCHANGED providerVars
    BY <1>0, <2>1 DEF providerVars, TypeInv, DocsAreIssued
  <2>2. ASSUME NEW d, Obtains(d)
        PROVE  /\ issued' \in Docs /\ issued' = issued + 1 /\ due' = due
               /\ live' \subseteq 1..issued' /\ due' \subseteq 1..issued'
               /\ refused' \subseteq 1..issued'
               /\ issued' + Cardinality(due' \cap live') <= MaxDocs
    BY <2>2, ObtainsEffect
  <2> QED
    BY <1>0, <2>1, <2>2
<1>2. /\ b \in AdminRequests /\ adm' \in [Admins -> AdminRequests]
      /\ \A c \in Admins : adm'[c] = IF c = a THEN b ELSE adm[c]
  BY <1>0 DEF Asks
<1>3. TypeOK'
  BY <1>1, <1>2 DEF TypeInv, TypeOK
<1>4. DocsAreIssued'
  <2>1. /\ \A v \in Workers : /\ job[v].acct \in Nat /\ job[v].used \in Nat
                              /\ job[v].fresh \in Nat
        /\ \A c \in Admins : adm[c].seen \in Nat /\ adm[c].doc \in Nat
        /\ b.seen \in Nat /\ b.doc \in Nat /\ row'.doc \in Nat /\ issued' \in Nat
    BY <1>0, <1>1, <1>2, JobFields DEF Docs, NoDoc, Rows, AdminRequests
  <2>2. \A v \in Workers : /\ job'[v].acct <= issued' /\ job'[v].used <= issued'
                           /\ job'[v].fresh <= issued'
    BY <1>0, <1>1, <2>1 DEF TypeInv, DocsAreIssued
  <2>3. \A c \in Admins : adm'[c].seen <= issued' /\ adm'[c].doc <= issued'
    BY <1>0, <1>1, <1>2, <2>1 DEF TypeInv, DocsAreIssued
  <2> QED
    BY <1>0, <1>1, <2>1, <2>2, <2>3 DEF DocsAreIssued
<1>5. StagesMatch'
  BY <1>1, <1>2 DEF TypeInv, StagesMatch, Consistent
<1> QED
  BY <1>3, <1>4, <1>5 DEF TypeInv

Bears(b) == b.kind \in {"reauth", "refresh"} /\ b.doc # NoDoc

\* The request obtains a document, stores the one it has, gives it up with a
\* mishap, or writes back what it had read.
LEMMA AdminToken ==
    ASSUME TypeInv, TokenInv, NEW a \in Admins, NEW b, Asks(a, b), job' = job,
           Consistent(b), mishap => mishap',
           b.seen \in {NoDoc, adm[a].seen, row.doc},
           \/ /\ UNCHANGED providerVars
              /\ Bears(b) => Newborn(a) /\ b.doc = adm[a].doc /\ b.kind = adm[a].kind
              /\ b.doc \in {NoDoc, adm[a].doc, row.doc}
           \/ /\ \E d \in {NoDoc, adm[a].seen} :
                    Obtains(d) /\ (d \in live => b.kind = "refresh")
              /\ b.doc = issued + 1 /\ b.kind \in {"reauth", "refresh"}
              /\ row' = row /\ ~Newborn(a),
           \/ row'.doc = row.doc
           \/ Newborn(a) /\ row'.doc = adm[a].doc /\ b.doc = NoDoc
           \/ mishap' /\ row'.doc = adm[a].seen,
           Newborn(a) /\ adm[a].kind = "refresh" /\ ~Bears(b) =>
              mishap' \/ row'.doc = adm[a].doc
    PROVE  TokenInv'
<1>0. /\ issued \in Nat /\ live \subseteq 1..issued /\ row.doc \in Nat /\ row.doc <= issued
      /\ row.doc # NoDoc
      /\ \A v \in Workers : /\ job[v].acct <= issued /\ job[v].used <= issued
                            /\ job[v].fresh <= issued
                            /\ job[v].acct \in Nat /\ job[v].used \in Nat /\ job[v].fresh \in Nat
      /\ \A c \in Admins : /\ adm[c].seen <= issued /\ adm[c].doc <= issued
                           /\ adm[c].seen \in Nat /\ adm[c].doc \in Nat
  <2>1. TypeOK /\ DocsAreIssued
    BY DEF TypeInv
  <2>2. \A v \in Workers : job[v].acct \in Nat /\ job[v].used \in Nat /\ job[v].fresh \in Nat
    BY <2>1, JobFields DEF TypeOK, Docs, NoDoc
  <2>3. \A c \in Admins : adm[c].seen \in Nat /\ adm[c].doc \in Nat
    BY <2>1 DEF TypeOK, AdminRequests, Docs, NoDoc
  <2>4. row.doc \in Nat /\ row.doc # NoDoc /\ issued \in Nat /\ live \subseteq 1..issued
    BY <2>1, ConstantsAssumption DEF TypeOK, Rows, Docs, NoDoc
  <2> QED
    BY <2>1, <2>2, <2>3, <2>4 DEF DocsAreIssued
<1>1. /\ \A c \in Admins : adm'[c] = IF c = a THEN b ELSE adm[c]
      /\ \A c \in Admins : Newborn(c)' = IF c = a THEN Bears(b) ELSE Newborn(c)
  <2>1. \A c \in Admins : adm'[c] = IF c = a THEN b ELSE adm[c]
    BY DEF Asks, TypeInv, TypeOK
  <2> QED
    BY <2>1 DEF Newborn, Bears
<1>2. CASE /\ UNCHANGED providerVars
           /\ Bears(b) => Newborn(a) /\ b.doc = adm[a].doc /\ b.kind = adm[a].kind
           /\ b.doc \in {NoDoc, adm[a].doc, row.doc}
  <2>0. live' = live /\ refused' = refused
    BY <1>2 DEF providerVars
  <2>1. ASSUME NEW v \in Workers, job[v].fresh # NoDoc
        PROVE  /\ job[v].fresh \in live
               /\ job[v].fresh # row.doc /\ job[v].fresh # row'.doc
               /\ \A u \in Workers : /\ job[u].used # job[v].fresh
                                     /\ job[u].fresh = job[v].fresh => u = v
               /\ \A c \in Admins : adm[c].seen # job[v].fresh /\ adm[c].doc # job[v].fresh
    BY <2>1 DEF TokenInv, UnstoredIsOwned
  <2>2. ASSUME NEW c \in Admins, Newborn(c)
        PROVE  /\ adm[c].doc \in live /\ adm[c].doc # row.doc /\ adm[c].doc # NoDoc
               /\ \A v \in Workers : job[v].used # adm[c].doc
               /\ \A e \in Admins : /\ adm[e].seen # adm[c].doc
                                    /\ adm[e].doc = adm[c].doc => e = c
    BY <2>2 DEF TokenInv, UnstoredIsOwned, Newborn
  <2>3. ASSUME NEW c \in Admins, Newborn(c)'
        PROVE  Newborn(c) /\ adm'[c].doc = adm[c].doc /\ adm[c].doc # row'.doc
    <3>1. Newborn(c) /\ adm'[c].doc = adm[c].doc
      BY <1>1, <1>2, <2>3
    <3>2. c = a => b.doc # NoDoc
      BY <1>1, <2>3 DEF Bears
    <3> QED
      BY <1>1, <2>2, <3>1, <3>2
  <2>4. ASSUME NEW c \in Admins
        PROVE  /\ adm'[c].seen \in {NoDoc, adm[c].seen, row.doc}
               /\ adm'[c].doc \in {NoDoc, adm[c].doc, row.doc}
    BY <1>1, <1>2
  <2>5. UnstoredIsOwned'
    <3>1. \A v \in Workers : job'[v].fresh # NoDoc =>
             /\ job'[v].fresh \in live' /\ job'[v].fresh # row'.doc
             /\ \A u \in Workers : /\ job'[u].used # job'[v].fresh
                                   /\ job'[u].fresh = job'[v].fresh => u = v
             /\ \A c \in Admins : adm'[c].seen # job'[v].fresh /\ adm'[c].doc # job'[v].fresh
      BY <2>0, <2>1, <2>4
    <3>2. \A c \in Admins : Newborn(c)' =>
             /\ adm'[c].doc \in live' /\ adm'[c].doc # row'.doc
             /\ \A v \in Workers : job'[v].used # adm'[c].doc
             /\ \A e \in Admins : /\ adm'[e].seen # adm'[c].doc
                                  /\ adm'[e].doc = adm'[c].doc => e = c
      BY <2>0, <2>2, <2>3, <2>4
    <3> QED
      BY <3>1, <3>2 DEF UnstoredIsOwned
  <2>6. Succession'
    <3>1. CASE mishap'
      BY <3>1 DEF Succession
    <3>2. CASE Newborn(a) /\ row'.doc = adm[a].doc
      BY <2>0, <2>2, <3>2 DEF Succession
    <3>3. CASE row'.doc = row.doc /\ row.doc \in live
      BY <2>0, <3>3 DEF Succession
    <3>4. ASSUME NEW v \in Workers, job[v].fresh # NoDoc, job[v].used = row.doc,
                 row'.doc = row.doc
          PROVE  Succession'
      BY <3>4 DEF Succession
    <3>5. ASSUME NEW c \in Admins, Newborn(c), adm[c].kind = "refresh", ~mishap',
                 ~(Newborn(a) /\ row'.doc = adm[a].doc)
          PROVE  Succession'
      <4>1. Newborn(c)' /\ adm'[c].kind = "refresh"
        BY <1>1, <1>2, <3>5
      <4> QED
        BY <4>1 DEF Succession
    <3> QED
      BY <3>1, <3>2, <3>3, <3>4, <3>5 DEF TokenInv, Succession
  <2>7. UsedUp'
    BY <2>0 DEF TokenInv, UsedUp
  <2> QED
    BY <2>5, <2>6, <2>7 DEF TokenInv
<1>3. ASSUME NEW d \in {NoDoc, adm[a].seen}, Obtains(d), d \in live => b.kind = "refresh",
             b.doc = issued + 1, b.kind \in {"reauth", "refresh"}, row' = row, ~Newborn(a)
      PROVE  TokenInv'
  <2>0. /\ issued + 1 \in live'
        /\ \A e : e # d /\ e \in live => e \in live'
        /\ \A e : e <= issued /\ e \notin live => e \notin live'
        /\ \A e : e <= issued /\ e \notin live \ refused => e \notin live' \ refused'
        /\ \A e \in Nat : e <= issued => e # issued + 1
        /\ issued + 1 # NoDoc
    BY <1>0, <1>3, ObtainsEffect DEF NoDoc
  <2>1. ASSUME NEW v \in Workers, job[v].fresh # NoDoc
        PROVE  /\ job[v].fresh \in live' /\ job[v].fresh # row.doc
               /\ job[v].fresh # issued + 1
               /\ \A u \in Workers : /\ job[u].used # job[v].fresh
                                     /\ job[u].fresh = job[v].fresh => u = v
               /\ \A c \in Admins : adm[c].seen # job[v].fresh /\ adm[c].doc # job[v].fresh
    BY <1>0, <1>3, <2>0, <2>1 DEF TokenInv, UnstoredIsOwned
  <2>2. ASSUME NEW c \in Admins, Newborn(c)
        PROVE  /\ adm[c].doc \in live' /\ adm[c].doc # row.doc /\ adm[c].doc # NoDoc
               /\ adm[c].doc # issued + 1 /\ c # a
               /\ \A v \in Workers : job[v].used # adm[c].doc
               /\ \A e \in Admins : /\ adm[e].seen # adm[c].doc
                                    /\ adm[e].doc = adm[c].doc => e = c
    BY <1>0, <1>3, <2>0, <2>2 DEF TokenInv, UnstoredIsOwned, Newborn
  <2>3. ASSUME NEW c \in Admins
        PROVE  /\ adm'[c].seen \in {NoDoc, adm[c].seen, row.doc}
               /\ c # a => adm'[c].doc = adm[c].doc
               /\ c = a => adm'[c].doc = issued + 1
               /\ adm[c].seen # issued + 1 /\ adm[c].doc # issued + 1
               /\ Newborn(c)' => c = a \/ Newborn(c)
    BY <1>0, <1>1, <1>3, <2>0
  <2>4. /\ row.doc # issued + 1
        /\ \A v \in Workers : job[v].used # issued + 1 /\ job[v].fresh # issued + 1
    BY <1>0, <2>0
  <2>5. UnstoredIsOwned'
    <3>1. \A v \in Workers : job'[v].fresh # NoDoc =>
             /\ job'[v].fresh \in live' /\ job'[v].fresh # row'.doc
             /\ \A u \in Workers : /\ job'[u].used # job'[v].fresh
                                   /\ job'[u].fresh = job'[v].fresh => u = v
             /\ \A c \in Admins : adm'[c].seen # job'[v].fresh /\ adm'[c].doc # job'[v].fresh
      BY <1>3, <2>1, <2>3
    <3>2. \A c \in Admins : Newborn(c)' =>
             /\ adm'[c].doc \in live' /\ adm'[c].doc # row'.doc
             /\ \A v \in Workers : job'[v].used # adm'[c].doc
             /\ \A e \in Admins : /\ adm'[e].seen # adm'[c].doc
                                  /\ adm'[e].doc = adm'[c].doc => e = c
      BY <1>3, <2>0, <2>2, <2>3, <2>4
    <3> QED
      BY <3>1, <3>2 DEF UnstoredIsOwned
  <2>6. Succession'
    <3>1. CASE mishap'
      BY <3>1 DEF Succession
    <3>2. CASE row.doc \in live /\ row.doc # d
      BY <1>3, <2>0, <3>2 DEF Succession
    <3>3. CASE row.doc \in live /\ row.doc = d
      <4>1. Newborn(a)' /\ adm'[a].kind = "refresh"
        BY <1>1, <1>3, <2>0, <3>3 DEF Bears
      <4> QED
        BY <4>1 DEF Succession
    <3>4. ASSUME NEW v \in Workers, job[v].fresh # NoDoc, job[v].used = row.doc
          PROVE  Succession'
      BY <1>3, <3>4 DEF Succession
    <3>5. ASSUME NEW c \in Admins, Newborn(c), adm[c].kind = "refresh"
          PROVE  Succession'
      <4>1. Newborn(c)' /\ adm'[c].kind = "refresh"
        BY <1>1, <1>3, <3>5
      <4> QED
        BY <4>1 DEF Succession
    <3> QED
      BY <3>1, <3>2, <3>3, <3>4, <3>5 DEF TokenInv, Succession
  <2>7. UsedUp'
    <3>1. ASSUME NEW v \in Workers
          PROVE  /\ job[v].stage \in {"persist", "recover"} => job[v].used \notin live'
                 /\ job[v].result = "revoked" => job[v].acct \notin live' \ refused'
      BY <1>0, <2>0 DEF TokenInv, UsedUp
    <3> QED
      BY <3>1 DEF UsedUp
  <2> QED
    BY <2>5, <2>6, <2>7 DEF TokenInv
<1> QED
  BY <1>2, <1>3

LEMMA AdminFacts ==
    ASSUME TypeInv, NEW a \in Admins
    PROVE  /\ adm[a] \in AdminRequests
           /\ adm[a].seen \in Docs \cup {NoDoc} /\ adm[a].doc \in Docs \cup {NoDoc}
           /\ adm[a].seen \in Nat /\ adm[a].doc \in Nat
           /\ adm[a].seen <= issued /\ adm[a].doc <= issued
           /\ adm[a].kind \in {"none", "edit", "reauth", "refresh"}
           /\ adm[a].status \in Statuses
           /\ Consistent(adm[a])
           /\ row \in Rows /\ row.doc \in Docs /\ row.doc \in Nat /\ row.doc <= issued
           /\ row.status \in Statuses /\ row.cooling \in BOOLEAN
           /\ issued \in Nat /\ NoDoc <= issued /\ NoDoc \in Docs \cup {NoDoc}
           /\ faults \in 0..MaxFaults /\ mishap \in BOOLEAN
<1>1. adm[a] \in AdminRequests /\ row \in Rows /\ issued \in Docs
  BY DEF TypeInv, TypeOK
<1>2. /\ adm[a].seen \in Docs \cup {NoDoc} /\ adm[a].doc \in Docs \cup {NoDoc}
      /\ adm[a].kind \in {"none", "edit", "reauth", "refresh"}
      /\ adm[a].status \in Statuses
  BY <1>1 DEF AdminRequests
<1>3. row.doc \in Docs /\ row.status \in Statuses /\ row.cooling \in BOOLEAN
  BY <1>1 DEF Rows
<1>4. /\ adm[a].seen <= issued /\ adm[a].doc <= issued /\ row.doc <= issued
      /\ Consistent(adm[a])
  BY DEF TypeInv, DocsAreIssued, StagesMatch, Consistent
<1>5. /\ adm[a].seen \in Nat /\ adm[a].doc \in Nat /\ row.doc \in Nat /\ issued \in Nat
      /\ NoDoc <= issued /\ NoDoc \in Docs \cup {NoDoc}
  BY <1>1, <1>2, <1>3, ConstantsAssumption DEF Docs, NoDoc
<1> QED
  BY <1>1, <1>2, <1>3, <1>4, <1>5 DEF TypeInv, TypeOK

\* A request that ends, or goes on to clear the error.
LEMMA IdleAdminEffect ==
    /\ IdleAdmin \in AdminRequests /\ [IdleAdmin EXCEPT !.stage = "clear"] \in AdminRequests
    /\ Consistent(IdleAdmin) /\ Consistent([IdleAdmin EXCEPT !.stage = "clear"])
    /\ IdleAdmin.seen = NoDoc /\ IdleAdmin.doc = NoDoc
    /\ [IdleAdmin EXCEPT !.stage = "clear"].seen = NoDoc
    /\ [IdleAdmin EXCEPT !.stage = "clear"].doc = NoDoc
  BY DEF IdleAdmin, AdminRequests, Consistent, Statuses

LEMMA AdminFrame ==
    ASSUME LeaseInv, UNCHANGED <<lock, ttl, job>>
    PROVE  LeaseInv'
  BY DEF LeaseInv

\* The request is over, or has nothing in hand any more.
LEMMA AdminEnds ==
    ASSUME Inv, NEW a \in Admins, NEW b \in {IdleAdmin, [IdleAdmin EXCEPT !.stage = "clear"]},
           adm' = [adm EXCEPT ![a] = b],
           UNCHANGED <<platform, lock, ttl, job, issued, live, due, refused>>,
           row' \in Rows, faults' \in 0..MaxFaults, mishap' \in BOOLEAN, mishap => mishap',
           \/ row'.doc = row.doc
           \/ Newborn(a) /\ row'.doc = adm[a].doc
           \/ mishap' /\ row'.doc = adm[a].seen,
           Newborn(a) /\ adm[a].kind = "refresh" => mishap' \/ row'.doc = adm[a].doc
    PROVE  Inv'
<1>0. TypeInv /\ LeaseInv /\ TokenInv
  BY DEF Inv
<1>1. Asks(a, b) /\ Consistent(b) /\ b.seen = NoDoc /\ b.doc = NoDoc /\ ~Bears(b)
  BY IdleAdminEffect DEF Asks, Bears
<1>2. b.seen <= issued /\ b.doc <= issued' /\ row'.doc <= issued /\ UNCHANGED providerVars
  BY <1>0, <1>1, AdminFacts DEF providerVars
<1>3. TypeInv'
  BY <1>0, <1>1, <1>2, AdminType
<1>4. TokenInv'
  BY <1>0, <1>1, <1>2, AdminToken
<1> QED
  BY <1>0, <1>3, <1>4, AdminFrame DEF Inv

LEMMA StartRequestStep ==
    ASSUME Inv, NEW a \in Admins, StartEdit(a) \/ StartReauth(a) \/ StartManualRefresh(a)
    PROVE  Inv'
<1>0. TypeInv /\ LeaseInv /\ TokenInv
  BY DEF Inv
<1>1. adm[a].stage = "idle" /\ adm[a].doc = NoDoc /\ ~Newborn(a)
  BY <1>0, AdminFacts DEF StartEdit, StartReauth, StartManualRefresh, Consistent, Newborn
<1>2. /\ row' = row /\ row' \in Rows /\ row'.doc <= issued
      /\ faults' \in 0..MaxFaults /\ mishap' \in BOOLEAN
      /\ UNCHANGED <<platform, lock, ttl, job>>
  BY <1>0, AdminFacts DEF StartEdit, StartReauth, StartManualRefresh, rowVars, lockVars
<1>3. mishap => mishap'
  BY DEF StartEdit, StartReauth, StartManualRefresh
<1>4. CASE StartEdit(a)
  <2>1. PICK status \in {row.status, "active", "inactive"} :
          adm' = [adm EXCEPT ![a] = [stage |-> "write", kind |-> "edit", seen |-> row.doc,
                                     doc |-> row.doc, status |-> status]]
    BY <1>4 DEF StartEdit
  <2> DEFINE b == [stage |-> "write", kind |-> "edit", seen |-> row.doc,
                   doc |-> row.doc, status |-> status]
  <2>2. b \in AdminRequests /\ b.seen = row.doc /\ b.doc = row.doc /\ b.kind = "edit"
    BY <1>0, AdminFacts DEF AdminRequests, Statuses
  <2>3. Asks(a, b) /\ Consistent(b) /\ ~Bears(b)
    BY <1>0, <2>1, <2>2, AdminFacts DEF Asks, Consistent, Bears, Docs, NoDoc
  <2>4. UNCHANGED providerVars /\ issued' = issued
    BY <1>4 DEF StartEdit, providerVars
  <2> HIDE DEF b
  <2>5. b.seen <= issued /\ b.doc <= issued'
    BY <1>0, <2>2, <2>4, AdminFacts
  <2>6. TypeInv'
    BY <1>0, <1>2, <2>3, <2>4, <2>5, AdminType
  <2>7. TokenInv'
    BY <1>0, <1>1, <1>2, <1>3, <2>2, <2>3, <2>4, AdminToken
  <2> QED
    BY <1>0, <1>2, <2>6, <2>7, AdminFrame DEF Inv
<1>5. CASE StartManualRefresh(a)
  <2> DEFINE b == [IdleAdmin EXCEPT !.stage = "call", !.kind = "refresh", !.seen = row.doc]
  <2>1. adm' = [adm EXCEPT ![a] = b]
    BY <1>5 DEF StartManualRefresh
  <2>2. /\ b \in AdminRequests /\ b.seen = row.doc /\ b.doc = NoDoc /\ b.kind = "refresh"
        /\ b.stage = "call"
    BY <1>0, AdminFacts DEF AdminRequests, Statuses, IdleAdmin
  <2>3. Asks(a, b) /\ Consistent(b) /\ ~Bears(b)
    BY <2>1, <2>2 DEF Asks, Consistent, Bears
  <2>4. UNCHANGED providerVars /\ issued' = issued
    BY <1>5 DEF StartManualRefresh, providerVars
  <2> HIDE DEF b
  <2>5. b.seen <= issued /\ b.doc <= issued'
    BY <1>0, <2>2, <2>4, AdminFacts
  <2>6. TypeInv'
    BY <1>0, <1>2, <2>3, <2>4, <2>5, AdminType
  <2>7. TokenInv'
    BY <1>0, <1>1, <1>2, <1>3, <2>2, <2>3, <2>4, AdminToken
  <2> QED
    BY <1>0, <1>2, <2>6, <2>7, AdminFrame DEF Inv
<1>6. CASE StartReauth(a)
  <2> DEFINE b == [stage |-> "write", kind |-> "reauth", seen |-> NoDoc,
                   doc |-> issued + 1, status |-> row.status]
  <2>1. adm' = [adm EXCEPT ![a] = b]
    BY <1>6 DEF StartReauth
  <2>2. NoDoc \notin live /\ NoDoc \notin refused
    BY <1>0 DEF TypeInv, TypeOK, Docs, NoDoc
  <2>3. Obtains(NoDoc)
    BY <1>6, <2>2 DEF StartReauth, Obtains
  <2>4. issued' \in Docs /\ issued' = issued + 1
    BY <1>0, <2>3, ObtainsEffect
  <2>5. /\ b \in AdminRequests /\ b.seen = NoDoc /\ b.doc = issued + 1 /\ b.kind = "reauth"
        /\ b.stage = "write" /\ issued + 1 # NoDoc
    BY <1>0, <2>4, AdminFacts DEF AdminRequests, NoDoc
  <2>6. Asks(a, b) /\ Consistent(b)
    BY <2>1, <2>5 DEF Asks, Consistent
  <2> HIDE DEF b
  <2>7. b.seen <= issued /\ b.doc <= issued'
    BY <1>0, <2>4, <2>5, AdminFacts
  <2>8. TypeInv'
    BY <1>0, <1>2, <2>3, <2>6, <2>7, AdminType
  <2>9. TokenInv'
    BY <1>0, <1>1, <1>2, <1>3, <2>2, <2>3, <2>5, <2>6, AdminToken
  <2> QED
    BY <1>0, <1>2, <2>8, <2>9, AdminFrame DEF Inv
<1> QED
  BY <1>4, <1>5, <1>6

LEMMA ManualStep ==
    ASSUME Inv, NEW a \in Admins, ManualCall(a) \/ ManualRead(a)
    PROVE  Inv'
<1>0. TypeInv /\ LeaseInv /\ TokenInv
  BY DEF Inv
<1>2. /\ row' = row /\ row' \in Rows /\ row'.doc <= issued
      /\ faults' \in 0..MaxFaults /\ mishap' \in BOOLEAN
      /\ UNCHANGED <<platform, lock, ttl, job>>
  BY <1>0, AdminFacts DEF ManualCall, ManualRead, rowVars, lockVars
<1>3. mishap => mishap'
  BY DEF ManualCall, ManualRead
<1>4. CASE /\ adm[a].stage = "call"
           /\ Rotate(adm[a].seen) /\ (adm[a].seen \notin due => Room)
           /\ adm' = [adm EXCEPT ![a].stage = "read", ![a].seen = NoDoc, ![a].doc = issued + 1]
  <2> DEFINE i == adm[a]
             b == [i EXCEPT !.stage = "read", !.seen = NoDoc, !.doc = issued + 1]
  <2>1. adm' = [adm EXCEPT ![a] = b]
    BY <1>4
  <2>2. Obtains(adm[a].seen)
    BY <1>4 DEF Rotate, Obtains
  <2>3. issued' \in Docs /\ issued' = issued + 1 /\ issued + 1 # NoDoc /\ NoDoc <= issued
    BY <1>0, <2>2, AdminFacts, ObtainsEffect DEF NoDoc
  <2>4. i \in AdminRequests /\ i.kind = "refresh" /\ ~Newborn(a)
    BY <1>0, <1>4, AdminFacts DEF Consistent, Newborn
  <2> HIDE DEF i
  <2>5. /\ b \in AdminRequests /\ b.seen = NoDoc /\ b.doc = issued + 1 /\ b.kind = "refresh"
        /\ b.stage = "read"
    BY <2>3, <2>4 DEF AdminRequests
  <2>6. Asks(a, b) /\ Consistent(b)
    BY <2>1, <2>3, <2>5 DEF Asks, Consistent
  <2> HIDE DEF b
  <2>7. b.seen <= issued /\ b.doc <= issued'
    BY <1>0, <2>3, <2>5, AdminFacts
  <2>8. TypeInv'
    BY <1>0, <1>2, <2>2, <2>6, <2>7, AdminType
  <2>9. TokenInv'
    BY <1>0, <1>2, <1>3, <2>2, <2>4, <2>5, <2>6, AdminToken
  <2> QED
    BY <1>0, <1>2, <2>8, <2>9, AdminFrame DEF Inv
<1>5. CASE /\ adm[a].stage = "call" /\ adm' = [adm EXCEPT ![a] = IdleAdmin]
           /\ UNCHANGED providerVars
  <2>1. ~Newborn(a)
    BY <1>0, <1>5, AdminFacts DEF Consistent, Newborn
  <2> QED
    BY <1>2, <1>3, <1>5, <2>1, AdminEnds DEF providerVars
<1>6. CASE ManualRead(a)
  <2> DEFINE i == adm[a]
             b == [i EXCEPT !.stage = "write", !.status = row.status]
  <2>1. adm' = [adm EXCEPT ![a] = b]
    BY <1>6 DEF ManualRead
  <2>2. i \in AdminRequests /\ i.kind = "refresh" /\ i.doc # NoDoc
    BY <1>0, <1>6, AdminFacts DEF Consistent, ManualRead
  <2>3. row.status \in Statuses
    BY <1>0, AdminFacts
  <2>4. Newborn(a)
    BY <2>2 DEF Newborn
  <2> HIDE DEF i
  <2>5. /\ b \in AdminRequests /\ b.seen = i.seen /\ b.doc = i.doc /\ b.kind = i.kind
        /\ b.stage = "write"
    BY <2>2, <2>3 DEF AdminRequests
  <2>6. Asks(a, b) /\ Consistent(b) /\ Bears(b)
    BY <2>1, <2>2, <2>5 DEF Asks, Consistent, Bears
  <2>7. UNCHANGED providerVars /\ issued' = issued
    BY <1>6 DEF ManualRead, providerVars
  <2> HIDE DEF b
  <2>8. b.seen <= issued /\ b.doc <= issued' /\ b.seen = adm[a].seen /\ b.doc = adm[a].doc
        /\ b.kind = adm[a].kind
    BY <1>0, <2>5, <2>7, AdminFacts DEF i
  <2>9. TypeInv'
    BY <1>0, <1>2, <2>6, <2>7, <2>8, AdminType
  <2>10. TokenInv'
    BY <1>0, <1>2, <1>3, <2>4, <2>6, <2>7, <2>8, AdminToken
  <2> QED
    BY <1>0, <1>2, <2>9, <2>10, AdminFrame DEF Inv
<1> QED
  BY <1>4, <1>5, <1>6 DEF ManualCall

LEMMA WriteStep ==
    ASSUME Inv, NEW a \in Admins, WriteAccount(a) \/ ClearAccountError(a) \/ AbortRequest(a)
    PROVE  Inv'
<1>0. TypeInv /\ LeaseInv /\ TokenInv
  BY DEF Inv
<1>1. CASE WriteAccount(a)
  <2>1. PICK b \in {IdleAdmin, [IdleAdmin EXCEPT !.stage = "clear"]} :
          adm' = [adm EXCEPT ![a] = b]
    BY <1>1 DEF WriteAccount
  <2>2. adm[a].doc # NoDoc /\ adm[a].kind # "none" /\ (adm[a].kind = "edit" => adm[a].doc = adm[a].seen)
    BY <1>0, <1>1, AdminFacts DEF WriteAccount, Consistent
  <2>3. row' = [row EXCEPT !.doc = adm[a].doc, !.status = adm[a].status]
    BY <1>1 DEF WriteAccount
  <2>4. row' \in Rows /\ row'.doc = adm[a].doc
    BY <1>0, <2>2, <2>3, AdminFacts DEF Rows
  <2>5. mishap' = (mishap \/ (adm[a].kind = "edit" /\ row.doc # adm[a].seen))
    BY <1>1 DEF WriteAccount
  <2>6. /\ mishap' \in BOOLEAN /\ (mishap => mishap')
        /\ adm[a].kind = "edit" /\ row.doc # adm[a].seen => mishap'
    BY <2>5, Zenon
  <2>7. adm[a].kind # "edit" => Newborn(a)
    BY <1>0, <2>2, AdminFacts DEF Newborn
  <2>8. UNCHANGED <<platform, lock, ttl, job, issued, live, due, refused>> /\ faults' \in 0..MaxFaults
    BY <1>0, <1>1, AdminFacts DEF WriteAccount, lockVars, providerVars
  <2> QED
    BY <2>1, <2>2, <2>4, <2>6, <2>7, <2>8, AdminEnds
<1>2. CASE ClearAccountError(a)
  <2>1. ~Newborn(a)
    BY <1>0, <1>2, AdminFacts DEF ClearAccountError, Consistent, Newborn
  <2>2. row' \in Rows /\ row'.doc = row.doc
    BY <1>0, <1>2, AdminFacts DEF ClearAccountError, Rows, Statuses
  <2>3. /\ UNCHANGED <<platform, lock, ttl, job, issued, live, due, refused>> /\ faults' \in 0..MaxFaults
        /\ mishap' \in BOOLEAN /\ adm' = [adm EXCEPT ![a] = IdleAdmin]
    BY <1>0, <1>2, AdminFacts DEF ClearAccountError, lockVars, providerVars
  <2>4. mishap => mishap'
    BY <1>2 DEF ClearAccountError
  <2> QED
    BY <2>1, <2>2, <2>3, <2>4, AdminEnds
<1>3. CASE AbortRequest(a)
  <2>1. mishap' = (mishap \/ adm[a].kind = "refresh")
    BY <1>3 DEF AbortRequest
  <2>2. mishap' \in BOOLEAN /\ (mishap => mishap') /\ (adm[a].kind = "refresh" => mishap')
    BY <2>1, Zenon
  <2>3. /\ UNCHANGED <<platform, row, lock, ttl, job, issued, live, due, refused>>
        /\ adm' = [adm EXCEPT ![a] = IdleAdmin]
    BY <1>3 DEF AbortRequest, lockVars, providerVars, rowVars
  <2>4. row' \in Rows /\ faults' \in 0..MaxFaults
    BY <1>0, <1>3, <2>3, AdminFacts, ConstantsAssumption DEF AbortRequest, Fault
  <2> QED
    BY <2>2, <2>3, <2>4, AdminEnds
<1> QED
  BY <1>1, <1>2, <1>3

-----------------------------------------------------------------------------
(* The steps of the provider and of time.                                  *)

LEMMA EnvironmentStep ==
    ASSUME Inv, BecomesDue \/ CooldownEnds
    PROVE  Inv'
<1>0. TypeInv /\ LeaseInv /\ TokenInv
  BY DEF Inv
<1>1. /\ UNCHANGED <<platform, lock, ttl, job, adm, issued, live, refused, faults>>
      /\ row'.doc = row.doc /\ row' \in Rows
  BY <1>0 DEF BecomesDue, CooldownEnds, rowVars, lockVars, providerVars, TypeInv, TypeOK, Rows
<1>2. mishap' = mishap
  BY DEF BecomesDue, CooldownEnds
<1>3. LeaseInv'
  BY <1>0, <1>1, AdminFrame
<1>4. TokenInv'
  <2>1. UnstoredIsOwned'
    BY <1>0, <1>1 DEF TokenInv, UnstoredIsOwned, Newborn
  <2>2. Succession'
    BY <1>0, <1>1, <1>2 DEF TokenInv, Succession, Newborn
  <2>3. UsedUp'
    BY <1>0, <1>1 DEF TokenInv, UsedUp
  <2> QED
    BY <2>1, <2>2, <2>3 DEF TokenInv
<1>5. due' \subseteq 1..issued /\ due \subseteq due' /\ issued + Cardinality(due' \cap live) <= MaxDocs
  <2>0. row.doc \in 1..issued /\ due \subseteq 1..issued
    BY <1>0 DEF TypeInv, TypeOK, DocsAreIssued, Docs, Rows
  <2>1. /\ IsFiniteSet(due \cap live) /\ Cardinality(due \cap live) \in Nat /\ issued \in Nat
        /\ issued + Cardinality(due \cap live) <= MaxDocs /\ MaxDocs \in Nat
    BY <1>0, DueFinite, ConstantsAssumption DEF TypeInv, TypeOK, DocsAreIssued, Docs
  <2>2. CASE BecomesDue /\ row.doc \in live
    <3>1. due' \cap live = (due \cap live) \cup {row.doc} /\ row.doc \notin due \cap live
      BY <2>2 DEF BecomesDue
    <3>2. Cardinality(due' \cap live) = Cardinality(due \cap live) + 1
      BY <2>1, <3>1, FS_AddElement
    <3>3. issued + Cardinality(due \cap live) < MaxDocs
      BY <2>2 DEF BecomesDue, Room
    <3>4. issued + Cardinality(due' \cap live) <= MaxDocs
      BY <2>1, <3>2, <3>3
    <3>5. due' = due \cup {row.doc}
      BY <2>2 DEF BecomesDue
    <3> QED
      BY <2>0, <3>4, <3>5
  <2>3. CASE BecomesDue /\ row.doc \notin live
    <3>1. due' \cap live = due \cap live
      BY <2>3 DEF BecomesDue
    <3> QED
      BY <2>0, <2>1, <2>3, <3>1 DEF BecomesDue
  <2>4. CASE CooldownEnds
    BY <2>0, <2>1, <2>4 DEF CooldownEnds, providerVars
  <2> QED
    BY <2>2, <2>3, <2>4
<1>6. TypeInv'
  <2>1. TypeOK'
    BY <1>0, <1>1, <1>2, <1>5 DEF TypeInv, TypeOK
  <2>2. DocsAreIssued'
    BY <1>0, <1>1, <1>5 DEF TypeInv, DocsAreIssued
  <2>3. StagesMatch'
    BY <1>0, <1>1, <1>5 DEF TypeInv, StagesMatch
  <2> QED
    BY <2>1, <2>2, <2>3 DEF TypeInv
<1> QED
  BY <1>3, <1>4, <1>6 DEF Inv

\* What time makes of a job: it has less of it, or begins the next cycle.
LEMMA TickEffect ==
    ASSUME TypeInv, Tick, NEW w \in Workers
    PROVE  /\ job' \in [Workers -> Jobs]
           /\ \/ /\ Running(w) /\ job[w].left > 0 /\ job'[w].left = job[w].left - 1
                 /\ job'[w].stage = job[w].stage /\ job'[w].acct = job[w].acct
                 /\ job'[w].used = job[w].used /\ job'[w].fresh = job[w].fresh
                 /\ job'[w].held = job[w].held /\ job'[w].result = job[w].result
                 /\ job'[w].tries = job[w].tries
              \/ ~Running(w) /\ job[w].stage = "rest" /\ job'[w] = IdleJob
              \/ ~Running(w) /\ job'[w] = job[w]
<1>1. \A v \in Workers : job[v] \in Jobs
  BY DEF TypeInv, TypeOK
<1>2. ASSUME NEW v \in Workers, Running(v)
      PROVE  /\ job'[v] \in Jobs
             /\ job[v].left > 0 /\ job'[v].left = job[v].left - 1
             /\ job'[v].stage = job[v].stage /\ job'[v].acct = job[v].acct
             /\ job'[v].used = job[v].used /\ job'[v].fresh = job[v].fresh
             /\ job'[v].held = job[v].held /\ job'[v].result = job[v].result
             /\ job'[v].tries = job[v].tries
  <2> DEFINE i == job[v]
             j == [i EXCEPT !.left = @ - 1, !.late = @ \/ i.left = 1]
  <2>1. job'[v] = j /\ i.left > 0 /\ i \in Jobs
    BY <1>1, <1>2 DEF Tick
  <2> HIDE DEF i
  <2>2. i.left - 1 \in 0..LockTTL
    BY <2>1, Times DEF Jobs
  <2>3. /\ j \in Jobs /\ j.left = i.left - 1 /\ j.stage = i.stage /\ j.acct = i.acct
        /\ j.used = i.used /\ j.fresh = i.fresh /\ j.held = i.held /\ j.result = i.result
        /\ j.tries = i.tries
    BY <2>1, <2>2 DEF Jobs
  <2> HIDE DEF j
  <2> QED
    BY <2>1, <2>3 DEF i
<1>3. \A v \in Workers : ~Running(v) => job'[v] = IF job[v].stage = "rest" THEN IdleJob ELSE job[v]
  BY DEF Tick
<1>4. IdleJob \in Jobs
  <2>1. "idle" \in Stages
    BY DEF Stages
  <2> QED
    BY <2>1, IdleEffect
<1>5. job' \in [Workers -> Jobs]
  <2>1. \A v \in Workers : job'[v] \in Jobs
    BY <1>1, <1>2, <1>3, <1>4
  <2>2. job' = [v \in Workers |-> job'[v]]
    BY DEF Tick
  <2> QED
    BY <2>1, <2>2
<1> QED
  BY <1>2, <1>3, <1>5

LEMMA TickStep ==
    ASSUME Inv, Tick
    PROVE  Inv'
<1>0. TypeInv /\ LeaseInv /\ TokenInv
  BY DEF Inv
<1>1. UNCHANGED <<platform, row, adm, issued, live, due, refused, mishap>>
  BY DEF Tick, rowVars, providerVars
<1>2. \A w \in Workers : job[w] \in Jobs
  BY <1>0 DEF TypeInv, TypeOK
<1>3. Fields(IdleJob, "idle", NoDoc, NoDoc, NoDoc, FALSE, "none", 0, 0)
  <2>1. "idle" \in Stages
    BY DEF Stages
  <2> QED
    BY <2>1, IdleEffect
<1>4. lock' \in Workers \cup {Nobody} /\ ttl' \in 0..LockTTL /\ faults' \in 0..MaxFaults
  <2>1. lock \in Workers \cup {Nobody} /\ ttl \in 0..LockTTL /\ faults \in 0..MaxFaults
    BY <1>0 DEF TypeInv, TypeOK
  <2>2. (ttl' = IF ttl = 0 THEN 0 ELSE ttl - 1) /\ lock' \in {Nobody, lock}
    BY DEF Tick
  <2>3. faults' = faults \/ (faults < MaxFaults /\ faults' = faults + 1)
    BY DEF Tick, Fault, NoFault
  <2>4. ttl' \in 0..LockTTL
    BY <2>1, <2>2, ConstantsAssumption
  <2>5. faults' \in 0..MaxFaults
    BY <2>1, <2>3, ConstantsAssumption
  <2> QED
    BY <2>1, <2>2, <2>4, <2>5
<1>5. \A w \in Workers :
        /\ job'[w].acct \in {NoDoc, job[w].acct} /\ job'[w].used \in {NoDoc, job[w].used}
        /\ job'[w].fresh \in {NoDoc, job[w].fresh} /\ job'[w].result \in {"none", job[w].result}
        /\ job'[w].stage \in {"idle", job[w].stage}
        /\ job'[w].tries <= MaxRetries[w]
        /\ job'[w].stage # "idle" => /\ job'[w].acct = job[w].acct /\ job'[w].used = job[w].used
                                     /\ job'[w].fresh = job[w].fresh
  <2>1. \A w \in Workers : job[w].tries <= MaxRetries[w] /\ 0 <= MaxRetries[w]
    BY <1>0, ConstantsAssumption DEF TypeInv, TypeOK
  <2> QED
    BY <1>0, <1>3, <2>1, TickEffect DEF Fields
<1>6. TypeInv'
  <2>1. job' \in [Workers -> Jobs]
    <3>1. CASE Workers = {}
      BY <3>1 DEF Tick
    <3>2. CASE Workers # {}
      BY <1>0, <3>2, TickEffect
    <3> QED
      BY <3>1, <3>2
  <2>2. TypeOK'
    BY <1>0, <1>1, <1>4, <1>5, <2>1 DEF TypeInv, TypeOK
  <2>3. NoDoc <= issued
    BY <1>0 DEF TypeInv, TypeOK, Docs, NoDoc
  <2>4. DocsAreIssued'
    BY <1>0, <1>1, <1>5, <2>3 DEF TypeInv, DocsAreIssued
  <2>5. StagesMatch'
    <3>1. \A w \in Workers : job[w].stage = "rest" => job[w].fresh = NoDoc
      BY <1>0 DEF TypeInv, StagesMatch
    <3>2. \A w \in Workers : (job'[w].stage = "persist") <=> (job'[w].fresh # NoDoc)
      BY <1>0, <1>3, TickEffect DEF TypeInv, StagesMatch, Fields
    <3>3. \A w \in Workers : job'[w].stage = "call" => job'[w].used \in due
      BY <1>0, <1>5 DEF TypeInv, StagesMatch
    <3> QED
      BY <1>0, <1>1, <3>2, <3>3 DEF TypeInv, StagesMatch
  <2> QED
    BY <2>2, <2>4, <2>5 DEF TypeInv
<1>7. LeaseInv'
  <2> SUFFICES ASSUME NEW w \in Workers
               PROVE  /\ job'[w].stage = "lock" => job'[w].left <= LockTTL - SafetyMargin
                      /\ job'[w].stage = "release" => job'[w].held
                      /\ job'[w].held => /\ lock' = w /\ job'[w].stage \in Holding
                                         /\ job'[w].left + Reserve(job'[w].stage) < ttl'
    BY DEF LeaseInv
  <2>1. /\ job[w].left \in Nat /\ ttl \in Nat /\ LockTTL \in Nat /\ SafetyMargin \in Nat
        /\ Reserve(job[w].stage) \in Nat
    <3>1. job[w].left \in Nat /\ ttl \in Nat
      BY <1>0, <1>2, JobFields, Times DEF TypeInv, TypeOK
    <3>2. Reserve(job[w].stage) \in Nat
      BY ConstantsAssumption DEF Reserve
    <3> QED
      BY <3>1, <3>2, ConstantsAssumption
  <2>2. CASE Running(w)
    <3>1. job[w].left > 0 /\ job'[w].left = job[w].left - 1 /\ job'[w].stage = job[w].stage
          /\ job'[w].held = job[w].held
      BY <1>0, <2>2, TickEffect
    <3>2. job[w].held => ttl > 1 /\ ttl' = ttl - 1 /\ lock' = lock
      <4>1. (ttl' = IF ttl = 0 THEN 0 ELSE ttl - 1) /\ (lock' = IF ttl = 1 THEN Nobody ELSE lock)
        BY DEF Tick
      <4>2. job[w].held => job[w].left + Reserve(job[w].stage) < ttl
        BY <1>0 DEF LeaseInv
      <4> QED
        BY <2>1, <3>1, <4>1, <4>2
    <3> QED
      BY <1>0, <2>1, <3>1, <3>2 DEF LeaseInv
  <2>3. CASE ~Running(w)
    <3>1. ~job[w].held
      BY <1>0, <2>3 DEF LeaseInv, Running, Holding
    <3>2. job'[w] = IdleJob \/ job'[w] = job[w]
      BY <1>0, <2>3, TickEffect
    <3> QED
      BY <1>0, <1>3, <3>1, <3>2 DEF LeaseInv, Fields
  <2> QED
    BY <2>2, <2>3
<1>8. TokenInv'
  <2>1. \A w \in Workers : job'[w].fresh = job[w].fresh
    <3>1. \A w \in Workers : job[w].stage = "rest" => job[w].fresh = NoDoc
      BY <1>0 DEF TypeInv, StagesMatch
    <3> QED
      BY <1>0, <1>3, <3>1, TickEffect DEF Fields
  <2>2. UnstoredIsOwned'
    BY <1>0, <1>1, <1>5, <2>1 DEF TokenInv, UnstoredIsOwned, Newborn
  <2>3. Succession'
    <3>1. \A w \in Workers : job[w].fresh # NoDoc => job'[w].used = job[w].used
      <4>1. \A w \in Workers : job[w].fresh # NoDoc => job[w].stage = "persist"
        BY <1>0 DEF TypeInv, StagesMatch
      <4> QED
        BY <1>0, <4>1, TickEffect
    <3> QED
      BY <1>0, <1>1, <2>1, <3>1 DEF TokenInv, Succession, Newborn
  <2>4. UsedUp'
    BY <1>0, <1>1, <1>3, TickEffect DEF TokenInv, UsedUp, Fields
  <2> QED
    BY <2>2, <2>3, <2>4 DEF TokenInv
<1> QED
  BY <1>6, <1>7, <1>8 DEF Inv

-----------------------------------------------------------------------------
(* The theorems.                                                           *)

LEMMA InitInv == Init => Inv
<1> SUFFICES ASSUME Init PROVE Inv
  OBVIOUS
<1>0. Fields(IdleJob, "idle", NoDoc, NoDoc, NoDoc, FALSE, "none", 0, 0) /\ IdleJob \in Jobs
  <2>1. "idle" \in Stages
    BY DEF Stages
  <2> QED
    BY <2>1, IdleEffect
<1>1. /\ \A w \in Workers : job[w] = IdleJob
      /\ job \in [Workers -> Jobs]
  BY <1>0 DEF Init
<1>2. /\ \A a \in Admins : adm[a] = IdleAdmin
      /\ adm \in [Admins -> AdminRequests]
      /\ IdleAdmin.stage = "idle" /\ IdleAdmin.kind = "none"
      /\ IdleAdmin.seen = NoDoc /\ IdleAdmin.doc = NoDoc
  BY IdleAdminEffect DEF Init, IdleAdmin
<1>3. /\ issued = 1 /\ live = {1} /\ due = {} /\ refused = {} /\ row.doc = 1 /\ row \in Rows
      /\ 1 \in Docs /\ MaxDocs \in Nat \ {0}
  BY ConstantsAssumption DEF Init, Rows, Statuses, Docs
<1>4. Cardinality(due \cap live) = 0
  <2>1. due \cap live = {}
    BY <1>3
  <2> QED
    BY <2>1, FS_EmptySet
<1>5. TypeOK
  <2>1. \A w \in Workers : job[w].tries <= MaxRetries[w]
    BY <1>0, <1>1, ConstantsAssumption DEF Fields
  <2>2. /\ platform \in Platforms /\ lock \in Workers \cup {Nobody} /\ ttl = 0
        /\ faults = 0 /\ mishap \in BOOLEAN
    BY DEF Init
  <2>3. ttl \in 0..LockTTL /\ faults \in 0..MaxFaults
    BY <2>2, ConstantsAssumption
  <2>4. live \subseteq 1..issued /\ due \subseteq 1..issued /\ refused \subseteq 1..issued
    BY <1>3
  <2> QED
    BY <1>1, <1>2, <1>3, <2>1, <2>2, <2>3, <2>4 DEF TypeOK
<1>6. TypeInv
  BY <1>0, <1>1, <1>2, <1>3, <1>4, <1>5, ConstantsAssumption
     DEF TypeInv, DocsAreIssued, StagesMatch, Fields, NoDoc
<1>7. LeaseInv
  BY <1>0, <1>1 DEF LeaseInv, Fields
<1>8. TokenInv
  BY <1>0, <1>1, <1>2, <1>3
     DEF TokenInv, UnstoredIsOwned, Newborn, Succession, UsedUp, Fields
<1> QED
  BY <1>6, <1>7, <1>8 DEF Inv

LEMMA NextInv == Inv /\ [Next]_vars => Inv'
<1> SUFFICES ASSUME Inv, [Next]_vars PROVE Inv'
  OBVIOUS
<1>1. CASE BecomesDue \/ CooldownEnds
  BY <1>1, EnvironmentStep
<1>2. CASE Tick
  BY <1>2, TickStep
<1>3. ASSUME NEW w \in Workers, Begin(w) \/ Outcome(w) \/ CycleOver(w) \/ Crash(w)
      PROVE  Inv'
  BY <1>3, OutcomeStep
<1>4. ASSUME NEW w \in Workers, Attempt(w)
      PROVE  Inv'
  <2>1. CASE AcquireRefreshLock(w)
    BY <2>1, AcquireStep
  <2>2. CASE Reread(w)
    BY <2>2, RereadStep
  <2>3. CASE Refresh(w)
    BY <2>3, RefreshStep
  <2>4. CASE Recover(w)
    BY <2>4, RecoverStep
  <2>5. CASE AnswerTooLate(w) \/ PersistGrok(w) \/ PersistOther(w)
    BY <2>5, PersistStep
  <2>6. CASE LoadDurable(w) \/ ReleaseRefreshLock(w)
    BY <2>6, ReleaseStep
  <2> QED
    BY <1>4, <2>1, <2>2, <2>3, <2>4, <2>5, <2>6 DEF Attempt
<1>5. ASSUME NEW a \in Admins, StartEdit(a) \/ StartReauth(a) \/ StartManualRefresh(a)
      PROVE  Inv'
  BY <1>5, StartRequestStep
<1>6. ASSUME NEW a \in Admins, AdminStep(a) \/ AbortRequest(a)
      PROVE  Inv'
  BY <1>6, ManualStep, WriteStep DEF AdminStep
<1>7. CASE UNCHANGED vars
  BY <1>7 DEF vars, Inv, TypeInv, TypeOK, DocsAreIssued, StagesMatch, LeaseInv, TokenInv,
              UnstoredIsOwned, Newborn, Succession, UsedUp
<1>8. ASSUME NEW w \in Workers, DeadlinePasses(w)
      PROVE  Inv'
  BY <1>8, LateStep
<1> QED
  BY <1>1, <1>2, <1>3, <1>4, <1>5, <1>6, <1>7, <1>8 DEF Next

LEMMA Invariance == Spec => []Inv
  BY InitInv, NextInv, PTL DEF Spec

\* The state is as declared: in particular no instance makes more attempts in
\* a cycle than it is configured for, and no document is in use that the
\* provider has not issued.
THEOREM TypeCorrect == Spec => []TypeOK
<1>1. Inv => TypeOK
  BY DEF Inv, TypeInv
<1> QED
  BY <1>1, Invariance, PTL

\* clampRefreshAttemptToLockLease and the detached timeouts after it: who
\* acquired the refresh lock owns it until it has released it.
THEOREM LockIsOwned == Spec => []LockOwned
<1>1. Inv => LockOwned
  BY DEF Inv, LeaseInv, LockOwned
<1> QED
  BY <1>1, Invariance, PTL

\* However the refreshes of the instances and of the administrators
\* interleave, with the lock or without it, the account keeps a refresh token
\* that works, or one is about to be stored, unless a failure or a stale edit
\* has cost it one.
THEOREM TokenIsKept == Spec => []TokenKept
<1>1. Inv => TokenKept
  BY DEF Inv, TokenInv, UnstoredIsOwned, Succession, TokenKept, Newborn
<1> QED
  BY <1>1, Invariance, PTL

\* Of the workers' steps only a write of new credentials and a quarantine
\* change the stored document or the status.
LEMMA DisplacingSteps ==
    ASSUME Inv, Next, Replaces \/ PutsIntoError
    PROVE  \E w \in Workers : PersistGrok(w) \/ PersistOther(w) \/ EndRevoked(w)
<1>0. TypeInv /\ row \in Rows /\ adm \in [Admins -> AdminRequests]
  BY DEF Inv, TypeInv, TypeOK
<1>1. ~(row'.doc = row.doc /\ row'.status = row.status) /\ adm' = adm /\ row' # row
  BY DEF Replaces, PutsIntoError
<1>2. ~BecomesDue /\ ~CooldownEnds /\ ~Tick
  BY <1>0, <1>1 DEF BecomesDue, CooldownEnds, Tick, rowVars, Rows
<1>3. ASSUME NEW w \in Workers,
             \/ Begin(w) \/ AcquireRefreshLock(w) \/ Reread(w) \/ Refresh(w) \/ Recover(w)
             \/ AnswerTooLate(w) \/ LoadDurable(w) \/ ReleaseRefreshLock(w)
             \/ EndQuietly(w) \/ TryAgain(w) \/ CycleOver(w) \/ Crash(w) \/ DeadlinePasses(w)
      PROVE  FALSE
  BY <1>1, <1>3 DEF Begin, AcquireRefreshLock, Reread, Refresh, Recover, AnswerTooLate,
                    LoadDurable, ReleaseRefreshLock, EndQuietly, TryAgain, CycleOver, Crash,
                    DeadlinePasses, rowVars
<1>4. ASSUME NEW w \in Workers, EndRefreshed(w) \/ EndExhausted(w)
      PROVE  FALSE
  BY <1>0, <1>1, <1>4 DEF EndRefreshed, EndExhausted, CoolsDown, Rows
<1>5. ASSUME NEW a \in Admins,
             \/ StartEdit(a) \/ StartReauth(a) \/ StartManualRefresh(a)
             \/ ManualCall(a) \/ ManualRead(a) \/ AbortRequest(a)
      PROVE  FALSE
  BY <1>1, <1>5 DEF StartEdit, StartReauth, StartManualRefresh, ManualCall, ManualRead,
                    AbortRequest, rowVars
<1>6. ASSUME NEW a \in Admins, WriteAccount(a) \/ ClearAccountError(a)
      PROVE  FALSE
  <2>1. /\ IdleAdmin.stage = "idle" /\ [IdleAdmin EXCEPT !.stage = "clear"].stage = "clear"
    BY DEF IdleAdmin
  <2>2. CASE WriteAccount(a)
    <3>1. /\ adm[a].stage = "write"
          /\ adm'[a] \in {IdleAdmin, [IdleAdmin EXCEPT !.stage = "clear"]}
      BY <1>0, <2>2 DEF WriteAccount
    <3> QED
      BY <1>1, <2>1, <3>1
  <2>3. CASE ClearAccountError(a)
    <3>1. adm[a].stage = "clear" /\ adm'[a] = IdleAdmin
      BY <1>0, <2>3 DEF ClearAccountError
    <3> QED
      BY <1>1, <2>1, <3>1
  <2> QED
    BY <1>6, <2>2, <2>3
<1> QED
  BY <1>2, <1>3, <1>4, <1>5, <1>6 DEF Next, Attempt, Outcome, AdminStep

\* PersistOther and EndRevoked change the worker's job.
LEMMA EndsAttempt ==
    ASSUME Inv, NEW w \in Workers, PersistOther(w) \/ EndRevoked(w)
    PROVE  job'[w] # job[w]
<1>0. job \in [Workers -> Jobs]
  BY DEF Inv, TypeInv, TypeOK
<1>1. CASE PersistOther(w)
  <2>1. PICK result \in Results, acct \in Docs \cup {NoDoc} : Returns(w, result, acct)
    <3>1. job[w].acct \in Docs \cup {NoDoc} /\ NoDoc \in Docs \cup {NoDoc}
      BY JobFacts
    <3>2. Returns(w, "done", NoDoc) \/ Returns(w, "retry", job[w].acct)
      BY <1>1 DEF PersistOther
    <3>3. "done" \in Results /\ "retry" \in Results
      BY DEF Results
    <3> QED
      BY <3>1, <3>2, <3>3
  <2>2. PICK j : /\ Becomes(w, j)
                 /\ Fields(j, IF job[w].held THEN "release" ELSE "after", acct, NoDoc, NoDoc,
                           job[w].held, result,
                           IF job[w].held THEN ReleaseTimeout ELSE 0, job[w].tries)
    BY <1>0, <2>1, ReturnsEffect
  <2>3. job'[w] = j /\ j.stage \in {"release", "after"}
    BY <1>0, <2>2 DEF Becomes, Fields
  <2> QED
    BY <1>1, <2>3 DEF PersistOther
<1>2. CASE EndRevoked(w)
  <2>1. PICK j : Becomes(w, j) /\ Fields(j, "rest", NoDoc, NoDoc, NoDoc, FALSE, "none", 0, 0)
    BY <1>2, EndsEffect DEF EndRevoked
  <2> QED
    BY <1>0, <1>2, <2>1 DEF Becomes, Fields, EndRevoked
<1> QED
  BY <1>1, <1>2

\* updateLockedAccount aside, nothing displaces credentials that work: the
\* compare-and-set of Grok never does, and on the other platforms a refresh
\* replaces or quarantines only the document it used, unless the row was
\* changed under it.  An account is put into error with a document that works
\* only if the provider refused the account with it (access_denied,
\* entitlement_denied, ...).
THEOREM WorkingCredentialsAreKept == Spec => WorkingCredentialsKept
<1> DEFINE Excused == platform = "other" /\ ChangedUnder
           Kept == /\ Replaces => row.doc \notin live \/ Excused
                   /\ PutsIntoError => row.doc \notin live \ refused \/ Excused
<1>1. ASSUME Inv, Next
      PROVE  Kept
  <2>0. /\ job \in [Workers -> Jobs] /\ UsedUp
        /\ row.doc \notin live => row.doc \notin live \ refused
    BY <1>1 DEF Inv, TypeInv, TypeOK, TokenInv
  <2>1. ASSUME NEW w \in Workers, PersistGrok(w)
        PROVE  Kept
    <3>1. job[w].stage = "persist" /\ (row' = row \/ row.doc = job[w].used)
      BY <2>1 DEF PersistGrok
    <3> QED
      BY <2>0, <3>1 DEF UsedUp, Replaces, PutsIntoError
  <2>2. ASSUME NEW w \in Workers, PersistOther(w)
        PROVE  Kept
    <3>1. job[w].stage = "persist" /\ platform = "other" /\ job'[w] # job[w]
      BY <1>1, <2>2, EndsAttempt DEF PersistOther
    <3>2. Tried(w) = job[w].used
      BY <3>1 DEF Tried
    <3> QED
      BY <2>0, <3>1, <3>2 DEF UsedUp, ChangedUnder
  <2>3. ASSUME NEW w \in Workers, EndRevoked(w)
        PROVE  Kept
    <3>1. /\ job[w].stage = "after" /\ job[w].result = "revoked" /\ job'[w] # job[w]
          /\ row' = row \/ platform = "other" \/ row.doc = job[w].acct
      BY <1>1, <2>3, EndsAttempt DEF EndRevoked, Quarantines, Unchanged
    <3>2. row'.doc = row.doc
      BY <1>1, <2>3, JobFacts DEF EndRevoked, Quarantines, Rows
    <3>3. Tried(w) = job[w].acct
      BY <3>1 DEF Tried
    <3>4. row.doc = job[w].acct => row.doc \notin live \ refused
      BY <2>0, <3>1 DEF UsedUp
    <3> QED
      BY <3>1, <3>2, <3>3, <3>4 DEF ChangedUnder, Replaces, PutsIntoError
  <2> QED
    BY <1>1, <2>1, <2>2, <2>3, DisplacingSteps
<1>2. Inv /\ [Next]_vars => [Kept]_vars
  BY <1>1
<1> QED
  BY <1>2, Invariance, PTL DEF Spec, WorkingCredentialsKept

=============================================================================
