------------------------- MODULE IngressLeaseProofs -------------------------
(***************************************************************************)
(* For every number of sessions and instances, every cap and every choice  *)
(* of the three periods with OpTimeout < Interval and                      *)
(* Interval + OpTimeout < TTL (the code's are 2, 20 and 60 seconds).       *)
(***************************************************************************)
EXTENDS IngressLease, FiniteSetTheorems, TLAPS

LEMMA ScriptsTyped ==
    ASSUME TypeOK, NEW s \in Sessions
    PROVE  /\ Reaped \in [Sessions -> {None} \cup 0..TTL]
           /\ AcquireScript(s) \in [Sessions -> {None} \cup 0..TTL]
           /\ RefreshScript(s) \in [Sessions -> {None} \cup 0..TTL]
<1>1. Reaped \in [Sessions -> {None} \cup 0..TTL]
  BY DEF TypeOK, Reaped
<1>2. TTL \in 0..TTL
  BY ConstantsAssumption
<1> QED
  BY <1>1, <1>2 DEF AcquireScript, RefreshScript

LEMMA CallTyped ==
    ASSUME TypeOK, NEW s \in Sessions,
           NEW after \in [Sessions -> {None} \cup 0..TTL], Call(s, after)
    PROVE  /\ member' \in [Sessions -> {None} \cup 0..TTL]
           /\ reply' \in [Sessions -> Replies]
           /\ timer' \in [Sessions -> 0..Interval]
           /\ unwritten' \in [Sessions -> 0..MaxOverrun]
<1>1. Interval \in 0..Interval /\ 0 \in 0..MaxOverrun
  BY ConstantsAssumption DEF MaxOverrun
<1>2. timer' \in [Sessions -> 0..Interval] /\ unwritten' \in [Sessions -> 0..MaxOverrun]
  BY <1>1 DEF Call, TypeOK
<1>3. reply' \in [Sessions -> Replies]
  BY DEF Call, TypeOK, Replies
<1> QED
  BY <1>2, <1>3 DEF Call, TypeOK

\* Every reachable state is well typed: no lifetime and no clock leaves its range.
THEOREM TypeCorrect == Spec => []TypeOK
<1> USE ConstantsAssumption
<1>1. Init => TypeOK
  BY DEF Init, TypeOK, None, SessionStates, Replies, MaxOverrun
<1>2. TypeOK /\ [Next]_vars => TypeOK'
  <2> SUFFICES ASSUME TypeOK, [Next]_vars PROVE TypeOK'
    OBVIOUS
  <2>1. CASE UNCHANGED vars
    BY <2>1 DEF vars, TypeOK
  <2>2. ASSUME NEW s \in Sessions, SessionStep(s) PROVE TypeOK'
    <3>1. CASE AcquireOpenAIWSIngressLease(s)
      BY <3>1, ScriptsTyped, CallTyped DEF AcquireOpenAIWSIngressLease, TypeOK, SessionStates
    <3>2. CASE AcquireReply(s)
      <4>1. Interval \in 0..Interval /\ 0 \in 0..MaxOverrun
        BY DEF MaxOverrun
      <4> QED
        BY <3>2, <4>1 DEF AcquireReply, TypeOK, SessionStates, Replies
    <3>3. CASE Refresh(s)
      BY <3>3, ScriptsTyped, CallTyped DEF Refresh, TypeOK
    <3>4. CASE RefreshReply(s)
      <4>1. 0 \in 0..MaxOverrun
        BY DEF MaxOverrun
      <4> QED
        BY <3>4, <4>1 DEF RefreshReply, TypeOK, SessionStates, Replies
    <3>5. CASE Stop(s) \/ Crash(s)
      BY <3>5 DEF Stop, Crash, TypeOK, SessionStates, Replies
    <3>6. CASE Release(s) \/ Connect(s)
      BY <3>6 DEF Release, Connect, TypeOK, SessionStates
    <3> QED
      BY <2>2, <3>1, <3>2, <3>3, <3>4, <3>5, <3>6 DEF SessionStep
  <2>3. CASE Tick
    <3>1. member' \in [Sessions -> {None} \cup 0..TTL]
      BY <2>3 DEF Tick, Sooner, TypeOK, None
    <3>2. timer' \in [Sessions -> 0..Interval]
      BY <2>3 DEF Tick, Sooner, TypeOK
    <3>3. MaxOverrun \in Nat
      BY DEF MaxOverrun
    <3>4. elapsed' \in [Sessions -> 0..MaxOverrun] /\ unwritten' \in [Sessions -> 0..MaxOverrun]
      BY <2>3, <3>3 DEF Tick, Advance, TypeOK
    <3> QED
      BY <2>3, <3>1, <3>2, <3>4 DEF Tick, TypeOK
  <2> QED
    BY <2>1, <2>2, <2>3 DEF Next
<1> QED
  BY <1>1, <1>2, PTL DEF Spec

-----------------------------------------------------------------------------
(* The cap.                                                                *)

LEMMA MembersFinite ==
    ASSUME NEW m
    PROVE  IsFiniteSet(Members(m)) /\ Cardinality(Members(m)) \in Nat
<1>1. Members(m) \subseteq Sessions
  BY DEF Members
<1> QED
  BY <1>1, ConstantsAssumption, FS_Subset, FS_CardinalityType

LEMMA FewerMembers ==
    ASSUME NEW m, NEW n, Members(n) \subseteq Members(m),
           Cardinality(Members(m)) <= MaxConnections
    PROVE  Cardinality(Members(n)) <= MaxConnections
<1>1. Cardinality(Members(n)) <= Cardinality(Members(m))
  BY MembersFinite, FS_Subset
<1> QED
  BY <1>1, MembersFinite, ConstantsAssumption

LEMMA ScriptsRespectCap ==
    ASSUME TypeOK, CapInv, NEW s \in Sessions
    PROVE  /\ Cardinality(Members(AcquireScript(s))) <= MaxConnections
           /\ Cardinality(Members(RefreshScript(s))) <= MaxConnections
<1>1. Cardinality(Members(Reaped)) <= MaxConnections
  <2>1. Members(Reaped) \subseteq Members(member)
    BY DEF Members, Reaped
  <2> QED
    BY <2>1, FewerMembers DEF CapInv
<1>2. Cardinality(Members(AcquireScript(s))) <= MaxConnections
  <2>1. CASE HasRoom(Reaped)
    <3>1. Members(AcquireScript(s)) \subseteq Members(Reaped) \cup {s}
      BY <2>1, ScriptsTyped DEF AcquireScript, Members
    <3>2. /\ IsFiniteSet(Members(Reaped) \cup {s})
          /\ Cardinality(Members(Reaped) \cup {s}) <= Cardinality(Members(Reaped)) + 1
      <4>1. IsFiniteSet(Members(Reaped)) /\ Cardinality(Members(Reaped)) \in Nat
        BY MembersFinite
      <4> HIDE DEF Reaped
      <4>2. /\ IsFiniteSet(Members(Reaped) \cup {s})
            /\ Cardinality(Members(Reaped) \cup {s}) = IF s \in Members(Reaped)
                  THEN Cardinality(Members(Reaped)) ELSE Cardinality(Members(Reaped)) + 1
        BY <4>1, FS_AddElement
      <4> QED
        BY <4>1, <4>2
    <3>3. Cardinality(Members(AcquireScript(s))) <= Cardinality(Members(Reaped) \cup {s})
      BY <3>1, <3>2, FS_Subset
    <3>4. Cardinality(Members(Reaped)) < MaxConnections
      BY <2>1 DEF HasRoom
    <3>5. /\ Cardinality(Members(Reaped)) \in Nat
          /\ Cardinality(Members(AcquireScript(s))) \in Nat
          /\ Cardinality(Members(Reaped) \cup {s}) \in Nat
      BY <3>2, MembersFinite, FS_CardinalityType
    <3> QED
      BY <3>2, <3>3, <3>4, <3>5, ConstantsAssumption
  <2>2. CASE ~HasRoom(Reaped)
    BY <1>1, <2>2 DEF AcquireScript
  <2> QED
    BY <2>1, <2>2
<1>3. Members(RefreshScript(s)) \subseteq Members(Reaped)
  BY ScriptsTyped DEF RefreshScript, Members
<1> QED
  BY <1>1, <1>2, <1>3, FewerMembers

\* The sorted set never counts more leases than the cap, whatever calls fail,
\* run without a reply or are repeated, and whichever instances die.
THEOREM CapRespected == Spec => []CapInv
<1>1. Init => CapInv
  <2> SUFFICES ASSUME Init PROVE CapInv
    OBVIOUS
  <2>1. Members(member) = {}
    BY DEF Init, Members, None
  <2> QED
    BY <2>1, FS_EmptySet, ConstantsAssumption DEF CapInv
<1>2. TypeOK /\ CapInv /\ [Next]_vars => CapInv'
  <2> SUFFICES ASSUME TypeOK, CapInv, [Next]_vars PROVE CapInv'
    OBVIOUS
  <2>1. CASE member' = member
    BY <2>1 DEF CapInv, Members
  <2>2. ASSUME Members(member') \subseteq Members(member) PROVE CapInv'
    <3>1. Cardinality(Members(member')) <= MaxConnections
      BY <2>2, FewerMembers DEF CapInv
    <3> QED
      BY <3>1 DEF CapInv, Members
  <2>3. ASSUME NEW s \in Sessions, SessionStep(s) PROVE CapInv'
    <3>1. ASSUME NEW after, after = AcquireScript(s) \/ after = RefreshScript(s),
                 Call(s, after)
          PROVE  CapInv'
      <4>1. member' = member \/ member' = after
        BY <3>1 DEF Call
      <4>2. Cardinality(Members(after)) <= MaxConnections
        BY <3>1, ScriptsRespectCap
      <4> QED
        BY <4>1, <4>2, <2>1 DEF CapInv, Members
    <3>2. CASE Release(s) \/ Connect(s)
      <4>1. Members(member') \subseteq Members(member)
        BY <3>2 DEF Release, Connect, Members, TypeOK
      <4> QED
        BY <4>1, <2>2
    <3>3. CASE AcquireReply(s) \/ RefreshReply(s) \/ Stop(s) \/ Crash(s)
      BY <3>3, <2>1 DEF AcquireReply, RefreshReply, Stop, Crash
    <3> QED
      BY <2>3, <3>1, <3>2, <3>3 DEF SessionStep, AcquireOpenAIWSIngressLease, Refresh
  <2>4. CASE Tick
    <3>1. Members(member') \subseteq Members(member)
      BY <2>4 DEF Tick, Sooner, Members, TypeOK, None
    <3> QED
      BY <3>1, <2>2
  <2> QED
    BY <2>1, <2>3, <2>4 DEF Next, vars
<1> QED
  BY <1>1, <1>2, TypeCorrect, PTL DEF Spec

-----------------------------------------------------------------------------
(* What another session's script does to a member.                         *)

\* Another session's call leaves a member with time left alone.
LEMMA OthersUntouched ==
    ASSUME TypeOK, NEW s \in Sessions, NEW t \in Sessions, t # s, member[t] > 0
    PROVE  AcquireScript(s)[t] = member[t] /\ RefreshScript(s)[t] = member[t]
<1>1. Reaped[t] = member[t]
  BY DEF Reaped, TypeOK
<1>2. Reaped \in [Sessions -> {None} \cup 0..TTL]
  BY ScriptsTyped
<1> QED
  BY <1>1, <1>2 DEF AcquireScript, RefreshScript

-----------------------------------------------------------------------------
(* Sessions cut off from Redis end in time.                                *)

LEMMA BoundedImplies ==
    ASSUME TypeOK, NEW s \in Sessions, Bounded(s), session[s] = "live"
    PROVE  /\ elapsed[s] < TTL + Interval + OpTimeout
           /\ unwritten[s] < MaxOverrun
<1>1. /\ timer[s] \in 0..Interval /\ elapsed[s] \in Nat /\ unwritten[s] \in Nat
      /\ TTL \in Nat /\ Interval \in Nat /\ OpTimeout \in Nat
  BY ConstantsAssumption DEF TypeOK, MaxOverrun
<1>2. elapsed[s] < TTL + Interval + OpTimeout
  BY <1>1 DEF Bounded
<1>3. unwritten[s] <= elapsed[s] + OpTimeout
  BY DEF Bounded
<1> QED
  BY <1>1, <1>2, <1>3 DEF MaxOverrun

LEMMA CallWrites ==
    ASSUME TypeOK, NEW s \in Sessions,
           NEW after \in [Sessions -> {None} \cup 0..TTL],
           after[s] \in {None, TTL}, Call(s, after)
    PROVE  /\ timer'[s] = Interval /\ reply'[s] # "none"
           /\ unwritten'[s] \in {0, unwritten[s]}
           /\ reply'[s] = "owned" => unwritten'[s] = 0
  BY DEF Call, TypeOK

LEMMA BoundedStep ==
    ASSUME TypeOK, BoundedInv, [Next]_vars
    PROVE  BoundedInv'
<1>1. CASE UNCHANGED vars
  BY <1>1 DEF vars, BoundedInv, Bounded
<1>2. ASSUME NEW s \in Sessions, SessionStep(s) PROVE BoundedInv'
  <2> USE DEF Bounded
  <2>a. /\ timer[s] \in 0..Interval /\ elapsed[s] \in Nat /\ unwritten[s] \in Nat
        /\ TTL \in Nat /\ Interval \in Nat /\ OpTimeout \in Nat
        /\ OpTimeout < Interval /\ Interval < TTL
    BY ConstantsAssumption DEF TypeOK, MaxOverrun
  <2>b. Bounded(s)
    BY DEF BoundedInv
  <2>c. ASSUME NEW t \in Sessions, t # s PROVE Bounded(t)'
    <3>1. /\ session'[t] = session[t] /\ reply'[t] = reply[t] /\ timer'[t] = timer[t]
          /\ elapsed'[t] = elapsed[t] /\ unwritten'[t] = unwritten[t]
      BY <1>2, <2>c
         DEF SessionStep, AcquireOpenAIWSIngressLease, AcquireReply, Refresh, RefreshReply,
             Stop, Release, Crash, Connect, Call, TypeOK
    <3>2. member[t] = None => member'[t] = None
      BY <1>2, <2>c, ScriptsTyped
         DEF SessionStep, AcquireOpenAIWSIngressLease, AcquireReply, Refresh, RefreshReply,
             Stop, Release, Crash, Connect, Call, TypeOK, AcquireScript, RefreshScript, Reaped
    <3>3. Bounded(t)
      BY DEF BoundedInv
    <3> QED
      BY <3>1, <3>2, <3>3
  <2> SUFFICES Bounded(s)'
    BY <2>c DEF BoundedInv
  <2>1. CASE AcquireOpenAIWSIngressLease(s)
    <3>1. AcquireScript(s)[s] \in {None, TTL}
      <4>1. Reaped[s] = None
        BY <2>b, <2>1 DEF AcquireOpenAIWSIngressLease, Reaped, None
      <4> QED
        BY <4>1, ScriptsTyped DEF AcquireScript
    <3>2. session'[s] = "acquiring"
      BY <2>1 DEF AcquireOpenAIWSIngressLease, TypeOK
    <3>3. timer'[s] = Interval /\ (reply'[s] = "owned" => unwritten'[s] = 0)
      BY <2>1, <3>1, ScriptsTyped, CallWrites DEF AcquireOpenAIWSIngressLease
    <3> QED
      BY <2>a, <3>2, <3>3
  <2>2. CASE AcquireReply(s)
    <3>1. \/ session'[s] = "closed"
          \/ /\ session'[s] = "live" /\ reply'[s] = "none" /\ reply[s] = "owned"
             /\ timer'[s] = Interval /\ elapsed'[s] = 0 /\ unwritten'[s] = unwritten[s]
             /\ session[s] = "acquiring"
      BY <2>2 DEF AcquireReply, TypeOK
    <3> QED
      BY <2>a, <2>b, <3>1
  <2>3. CASE Refresh(s)
    <3>1. RefreshScript(s)[s] \in {None, TTL}
      BY ScriptsTyped DEF RefreshScript
    <3>2. /\ session[s] = "live" /\ session'[s] = "live" /\ reply[s] = "none"
          /\ timer[s] = 0 /\ elapsed'[s] = elapsed[s]
      BY <2>3 DEF Refresh
    <3>3. /\ timer'[s] = Interval /\ reply'[s] # "none"
          /\ unwritten'[s] \in {0, unwritten[s]}
          /\ reply'[s] = "owned" => unwritten'[s] = 0
      BY <2>3, <3>1, ScriptsTyped, CallWrites DEF Refresh
    <3> QED
      BY <2>a, <2>b, <3>2, <3>3
  <2>4. CASE RefreshReply(s)
    <3>1. /\ reply'[s] = "none" /\ timer'[s] = timer[s] /\ unwritten'[s] = unwritten[s]
          /\ session'[s] \in {"live", "stopping"} /\ reply[s] # "none"
          /\ session'[s] = "live" => session[s] = "live" /\ ~Lost(s)
          /\ elapsed'[s] = IF reply[s] = "owned" THEN 0 ELSE elapsed[s]
      BY <2>4 DEF RefreshReply, TypeOK
    <3>2. CASE session'[s] = "live"
      <4>1. reply[s] = "owned" \/ elapsed[s] < TTL
        BY <2>a, <3>1, <3>2 DEF Lost, TypeOK, Replies
      <4> QED
        BY <2>a, <2>b, <3>1, <3>2, <4>1
    <3>3. CASE session'[s] = "stopping"
      BY <3>3
    <3> QED
      BY <3>1, <3>2, <3>3
  <2>5. CASE Stop(s) \/ Release(s) \/ Crash(s) \/ Connect(s)
    <3>1. /\ session'[s] \notin {"live", "acquiring"}
          /\ session'[s] = "idle" => member'[s] = None
      BY <2>5 DEF Stop, Release, Crash, Connect, TypeOK
    <3> QED
      BY <3>1
  <2> QED
    BY <1>2, <2>1, <2>2, <2>3, <2>4, <2>5 DEF SessionStep
<1>3. CASE Tick
  <2> SUFFICES ASSUME NEW s \in Sessions PROVE Bounded(s)'
    BY DEF BoundedInv
  <2>1. /\ timer[s] \in 0..Interval /\ elapsed[s] \in Nat /\ unwritten[s] \in Nat
        /\ TTL \in Nat /\ Interval \in Nat /\ OpTimeout \in Nat /\ MaxOverrun \in Nat
        /\ OpTimeout < Interval /\ MaxOverrun = TTL + Interval + 2 * OpTimeout
    BY ConstantsAssumption DEF TypeOK, MaxOverrun
  <2>2. Bounded(s)
    BY DEF BoundedInv
  <2>3. /\ session'[s] = session[s] /\ reply'[s] = reply[s]
        /\ reply[s] # "none" => Interval - timer[s] < OpTimeout
        /\ session[s] = "live" /\ reply[s] = "none" => timer[s] > 0
        /\ member[s] = None => member'[s] = None
        /\ timer'[s] = IF Open(s) THEN Sooner(timer[s]) ELSE 0
        /\ elapsed'[s] = Advance(elapsed, s) /\ unwritten'[s] = Advance(unwritten, s)
    BY <1>3 DEF Tick, TypeOK, Sooner, None
  <2>4. CASE session[s] \in {"live", "acquiring"}
    <3>1. Open(s)
      BY <2>4 DEF Open
    <3>2. session[s] = "live" => elapsed'[s] = elapsed[s] + 1
      BY <2>1, <2>2, <2>3, <3>1, BoundedImplies DEF Advance
    <3>3. unwritten'[s] <= unwritten[s] + 1 /\ unwritten'[s] \in Nat
      BY <2>1, <2>3, <3>1 DEF Advance
    <3>4. timer[s] > 0 => timer'[s] = timer[s] - 1
      BY <2>3, <3>1 DEF Sooner
    <3>5. reply[s] # "none" => timer[s] > 0
      BY <2>1, <2>3
    <3> QED
      BY <2>1, <2>2, <2>3, <2>4, <3>2, <3>3, <3>4, <3>5 DEF Bounded
  <2>5. CASE session[s] \notin {"live", "acquiring"}
    BY <2>2, <2>3, <2>5 DEF Bounded
  <2> QED
    BY <2>4, <2>5
<1> QED
  BY <1>1, <1>2, <1>3 DEF Next

\* Whatever Redis does, a live session was written by Redis less than a lease
\* lifetime, a refresh interval and two calls ago.
THEOREM OverrunIsBounded == Spec => []OverrunBounded
<1>1. Init => BoundedInv
  BY DEF Init, BoundedInv, Bounded
<1>2. TypeOK /\ BoundedInv /\ [Next]_vars => BoundedInv'
  BY BoundedStep
<1>3. TypeOK /\ BoundedInv => OverrunBounded
  BY BoundedImplies DEF OverrunBounded, BoundedInv, Live
<1> QED
  BY <1>1, <1>2, <1>3, TypeCorrect, PTL DEF Spec

-----------------------------------------------------------------------------
(* Confirmed sessions have their members.                                  *)

\* A step of one session keeps every other session fresh.
LEMMA OthersFresh ==
    ASSUME TypeOK, FreshInv, NEW s \in Sessions, SessionStep(s),
           NEW t \in Sessions, t # s
    PROVE  Fresh(t)'
<1>1. session'[t] = session[t] /\ reply'[t] = reply[t] /\ unwritten'[t] = unwritten[t]
  BY DEF SessionStep, AcquireOpenAIWSIngressLease, AcquireReply, Refresh, RefreshReply,
         Stop, Release, Crash, Connect, Call, TypeOK
<1>2. member[t] > 0 => member'[t] = member[t]
  BY OthersUntouched
     DEF SessionStep, AcquireOpenAIWSIngressLease, AcquireReply, Refresh, RefreshReply,
         Stop, Release, Crash, Connect, Call, TypeOK
<1>3. member[t] \in Int /\ unwritten[t] \in Nat /\ TTL \in Nat
  BY ConstantsAssumption DEF TypeOK, None, MaxOverrun
<1> QED
  BY <1>1, <1>2, <1>3 DEF Fresh, FreshInv

LEMMA FreshStep ==
    ASSUME TypeOK, BoundedInv, FreshInv, [Next]_vars
    PROVE  FreshInv'
<1> USE DEF Fresh
<1>0. (\A t \in Sessions : Fresh(t)') => FreshInv'
  BY DEF FreshInv
<1>1. CASE UNCHANGED vars
  BY <1>1 DEF vars, FreshInv
<1>2. ASSUME NEW s \in Sessions, SessionStep(s) PROVE FreshInv'
  <2>a. member[s] \in Int /\ unwritten[s] \in Nat /\ TTL \in Nat
    BY ConstantsAssumption DEF TypeOK, None, MaxOverrun
  <2>b. Fresh(s)
    BY DEF FreshInv
  <2> SUFFICES Fresh(s)'
    BY <1>0, <1>2, OthersFresh
  <2>1. CASE AcquireOpenAIWSIngressLease(s)
    <3>1. session'[s] = "acquiring"
      BY <2>1 DEF AcquireOpenAIWSIngressLease, TypeOK
    <3>2. reply'[s] = "owned" => member'[s] = TTL
      <4>1. session[s] = "idle" /\ Call(s, AcquireScript(s))
        BY <2>1 DEF AcquireOpenAIWSIngressLease
      <4>2. Reaped[s] = None
        BY <4>1 DEF BoundedInv, Bounded, Reaped, None
      <4>3. AcquireScript(s)[s] \in {None, TTL}
        BY <4>2, ScriptsTyped DEF AcquireScript
      <4> QED
        BY <4>1, <4>3 DEF Call, TypeOK
    <3>3. unwritten'[s] \in Nat
      BY <2>1, <2>a DEF AcquireOpenAIWSIngressLease, Call, TypeOK
    <3> QED
      BY <2>a, <3>1, <3>2, <3>3
  <2>2. CASE AcquireReply(s)
    <3>1. \/ session'[s] = "closed"
          \/ /\ session[s] = "acquiring" /\ reply[s] = "owned"
             /\ member'[s] = member[s] /\ unwritten'[s] = unwritten[s]
      BY <2>2 DEF AcquireReply, TypeOK
    <3> QED
      BY <2>b, <3>1
  <2>3. CASE Refresh(s)
    <3>1. /\ session[s] = "live" /\ session'[s] = "live"
          /\ member' = member \/ member' = RefreshScript(s)
          /\ unwritten'[s] = IF member'[s] = TTL THEN 0 ELSE unwritten[s]
      BY <2>3 DEF Refresh, Call, TypeOK
    <3>2. ASSUME unwritten[s] < TTL PROVE RefreshScript(s)[s] = TTL
      <4>1. member[s] > 0
        BY <2>a, <2>b, <3>1, <3>2
      <4>2. Reaped[s] # None
        BY <4>1 DEF Reaped, TypeOK, None
      <4> QED
        BY <4>2, ScriptsTyped DEF RefreshScript
    <3>3. RefreshScript(s)[s] \in {None, TTL}
      BY ScriptsTyped DEF RefreshScript
    <3> QED
      BY <2>a, <2>b, <3>1, <3>2, <3>3
  <2>4. CASE RefreshReply(s)
    <3>1. /\ session'[s] = "live" => session[s] = "live"
          /\ session'[s] # "acquiring"
          /\ member'[s] = member[s] /\ unwritten'[s] = unwritten[s]
      BY <2>4 DEF RefreshReply, TypeOK
    <3> QED
      BY <2>b, <3>1
  <2>5. CASE Stop(s) \/ Release(s) \/ Crash(s) \/ Connect(s)
    <3>1. session'[s] \notin {"live", "acquiring"}
      BY <2>5 DEF Stop, Release, Crash, Connect, TypeOK
    <3> QED
      BY <3>1
  <2> QED
    BY <1>2, <2>1, <2>2, <2>3, <2>4, <2>5 DEF SessionStep
<1>3. CASE Tick
  <2> SUFFICES ASSUME NEW s \in Sessions PROVE Fresh(s)'
    BY <1>0
  <2>1. /\ member[s] \in Int /\ unwritten[s] \in Nat /\ TTL \in Nat
        /\ MaxOverrun \in Nat /\ TTL <= MaxOverrun
    BY ConstantsAssumption DEF TypeOK, None, MaxOverrun
  <2>2. /\ session'[s] = session[s] /\ reply'[s] = reply[s]
        /\ member[s] > 0 => member'[s] = member[s] - 1
        /\ Open(s) /\ unwritten[s] < MaxOverrun => unwritten'[s] = unwritten[s] + 1
        /\ Open(s) /\ unwritten[s] >= MaxOverrun => unwritten'[s] = unwritten[s]
    BY <1>3, <2>1 DEF Tick, Sooner, Advance, TypeOK, None
  <2>3. Fresh(s)
    BY DEF FreshInv
  <2>4. session[s] = "live" \/ (session[s] = "acquiring" /\ reply[s] = "owned") => Open(s)
    BY DEF Open
  <2> QED
    BY <2>1, <2>2, <2>3, <2>4
<1> QED
  BY <1>1, <1>2, <1>3 DEF Next

\* A confirmation younger than the lease lifetime less a call still stands,
\* whatever calls failed since and whichever instances died.
THEOREM LiveSessionsKeepMembers == Spec => []LiveHasMember
<1>1. Init => BoundedInv /\ FreshInv
  BY DEF Init, BoundedInv, Bounded, FreshInv, Fresh
<1>2. TypeOK /\ BoundedInv /\ FreshInv /\ [Next]_vars => BoundedInv' /\ FreshInv'
  BY BoundedStep, FreshStep
<1>3. TypeOK /\ BoundedInv /\ FreshInv => LiveHasMember
  <2> SUFFICES ASSUME TypeOK, BoundedInv, FreshInv, NEW s \in Confirmed
               PROVE  member[s] > 0
    BY DEF LiveHasMember
  <2>1. s \in Sessions /\ session[s] = "live" /\ elapsed[s] + OpTimeout < TTL
    BY DEF Confirmed, Live
  <2>2. unwritten[s] <= elapsed[s] + OpTimeout
    BY <2>1 DEF BoundedInv, Bounded
  <2>3. /\ member[s] \in Int /\ unwritten[s] \in Nat /\ elapsed[s] \in Nat
        /\ TTL \in Nat /\ OpTimeout \in Nat
    BY <2>1, ConstantsAssumption DEF TypeOK, None, MaxOverrun
  <2> QED
    BY <2>1, <2>2, <2>3 DEF FreshInv, Fresh
<1> QED
  BY <1>1, <1>2, <1>3, TypeCorrect, PTL DEF Spec

\* An API key never has more confirmed WebSockets than its cap, over all
\* instances and through crashes and failing calls.
THEOREM LiveSessionsBounded == Spec => []LiveBounded
<1>1. CapInv /\ LiveHasMember => LiveBounded
  <2> SUFFICES ASSUME CapInv, LiveHasMember PROVE LiveBounded
    OBVIOUS
  <2>1. Confirmed \subseteq Members(member)
    BY DEF LiveHasMember, Confirmed, Live, Members, None
  <2>2. Cardinality(Confirmed) <= Cardinality(Members(member)) /\ Cardinality(Confirmed) \in Nat
    BY <2>1, MembersFinite, FS_Subset, FS_CardinalityType
  <2> QED
    BY <2>2, MembersFinite, ConstantsAssumption DEF LiveBounded, CapInv
<1> QED
  BY <1>1, CapRespected, LiveSessionsKeepMembers, PTL
=============================================================================
