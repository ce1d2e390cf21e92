---------------------------- MODULE IngressLease ----------------------------
(***************************************************************************)
(* The lease that bounds the live client WebSockets of one API key:        *)
(*                                                                         *)
(*   service/concurrency_service.go   OpenAIWSIngressLease, its refresh    *)
(*                                    loop, acquisition and release        *)
(*   repository/concurrency_cache.go  the two Lua scripts and the ZREM     *)
(*                                                                         *)
(* Redis keeps a sorted set of lease ids scored with Redis TIME; a session *)
(* learns only from replies whether it still has its member.  A call is    *)
(* two steps, the script in Redis and the handling of the reply, at most   *)
(* OpTimeout apart; an error reply leaves open whether the script ran.     *)
(***************************************************************************)
EXTENDS Integers, FiniteSets

CONSTANTS
    Sessions,        \* WebSocket sessions, on any instance
    MaxConnections,  \* the cap of the API key
    TTL,             \* openAIWSIngressLeaseTTL(Seconds)
    Interval,        \* openAIWSIngressLeaseRefreshInterval
    OpTimeout,       \* openAIWSIngressLeaseOperationTO
    Faults           \* TRUE: calls to Redis may fail

ASSUME ConstantsAssumption ==
    /\ IsFiniteSet(Sessions)
    /\ MaxConnections \in Nat \ {0}
    /\ OpTimeout \in Nat
    /\ Interval \in Nat /\ OpTimeout < Interval
    /\ TTL \in Nat /\ Interval + OpTimeout < TTL
    /\ Faults \in BOOLEAN

VARIABLES
    member,     \* member[s]: None, or the time its member has left in Redis
    session,    \* session[s]: the handler's state
    reply,      \* reply[s]: the outcome of the call in flight
    timer,      \* timer[s]: time to the next tick, Interval when a call starts
    elapsed,    \* elapsed[s]: time since lastConfirmedAt
    unwritten   \* unwritten[s]: time since Redis last wrote the member

vars == <<member, session, reply, timer, elapsed, unwritten>>

None == -1

\* No session outlives its last write by more than this (see OverrunBounded).
MaxOverrun == TTL + Interval + 2 * OpTimeout

SessionStates == {"idle", "acquiring", "live", "stopping", "closed", "dead"}
Replies == {"none", "owned", "refused", "error"}

TypeOK ==
    /\ member \in [Sessions -> {None} \cup 0..TTL]
    /\ session \in [Sessions -> SessionStates]
    /\ reply \in [Sessions -> Replies]
    /\ timer \in [Sessions -> 0..Interval]
    /\ elapsed \in [Sessions -> 0..MaxOverrun]
    /\ unwritten \in [Sessions -> 0..MaxOverrun]

-----------------------------------------------------------------------------
(* The scripts.                                                            *)

\* ZREMRANGEBYSCORE key -inf now-ttl: a member with no time left is reaped.
Reaped == [s \in Sessions |-> IF member[s] = 0 THEN None ELSE member[s]]

Members(m) == {s \in Sessions : m[s] # None}

HasRoomOffByOne(m) == Cardinality(Members(m)) <= MaxConnections
HasRoom(m) == Cardinality(Members(m)) < MaxConnections

\* The lease id is new, so the script's branch for a known id is not taken.
AcquireScript(s) ==
    IF HasRoom(Reaped) THEN [Reaped EXCEPT ![s] = TTL] ELSE Reaped

\* A missing member is not recreated.
RefreshRecreates(s) == [Reaped EXCEPT ![s] = TTL]
RefreshWritesNothing(s) == Reaped
RefreshScript(s) ==
    IF Reaped[s] # None THEN [Reaped EXCEPT ![s] = TTL] ELSE Reaped

-----------------------------------------------------------------------------
(* Sessions.                                                               *)

\* A call to Redis that runs `after' as its script: the reply says whether
\* the member is there, unless the call failed, with the script run or not.
Call(s, after) ==
    /\ timer' = [timer EXCEPT ![s] = Interval]
    /\ \/ /\ member' = after
          /\ reply' = [reply EXCEPT ![s] = IF after[s] # None THEN "owned" ELSE "refused"]
       \/ /\ Faults
          /\ member' \in {member, after}
          /\ reply' = [reply EXCEPT ![s] = "error"]
    /\ unwritten' = [unwritten EXCEPT ![s] = IF member'[s] = TTL THEN 0 ELSE @]

AcquireOpenAIWSIngressLease(s) ==
    /\ session[s] = "idle"
    /\ session' = [session EXCEPT ![s] = "acquiring"]
    /\ Call(s, AcquireScript(s))
    /\ UNCHANGED elapsed

\* The lease starts its refresh loop, whose ticker and lastConfirmedAt count
\* from now; without the lease the connection is refused.
AcquireReply(s) ==
    /\ session[s] = "acquiring"
    /\ reply' = [reply EXCEPT ![s] = "none"]
    /\ \/ /\ reply[s] = "owned"
          /\ session' = [session EXCEPT ![s] = "live"]
          /\ timer' = [timer EXCEPT ![s] = Interval]
          /\ elapsed' = [elapsed EXCEPT ![s] = 0]
       \/ /\ reply[s] \in {"refused", "error"}
          /\ session' = [session EXCEPT ![s] = "closed"]
          /\ UNCHANGED <<timer, elapsed>>
    /\ UNCHANGED <<member, unwritten>>

\* refreshLoop on a tick.
Refresh(s) ==
    /\ session[s] = "live" /\ reply[s] = "none"
    /\ timer[s] = 0
    /\ Call(s, RefreshScript(s))
    /\ UNCHANGED <<session, elapsed>>

\* refresh: a missing member is a loss, errors are borne for a lease lifetime.
LostOnlyWhenRefused(s) == reply[s] = "refused"
Lost(s) == reply[s] = "refused" \/ (reply[s] = "error" /\ elapsed[s] >= TTL)

RefreshReply(s) ==
    /\ session[s] \in {"live", "stopping"}
    /\ reply[s] # "none"
    /\ reply' = [reply EXCEPT ![s] = "none"]
    /\ elapsed' = [elapsed EXCEPT ![s] = IF reply[s] = "owned" THEN 0 ELSE @]
    /\ session' = [session EXCEPT ![s] = IF Lost(s) THEN "stopping" ELSE @]
    /\ UNCHANGED <<member, timer, unwritten>>

\* The client or the handler ends the session.
Stop(s) ==
    /\ session[s] = "live"
    /\ session' = [session EXCEPT ![s] = "stopping"]
    /\ UNCHANGED <<member, reply, timer, elapsed, unwritten>>

\* Release waits for the refresh loop, then removes the member.
Release(s) ==
    /\ session[s] = "stopping"
    /\ reply[s] = "none"
    /\ session' = [session EXCEPT ![s] = "closed"]
    /\ \/ member' = [member EXCEPT ![s] = None]
       \/ Faults /\ UNCHANGED member
    /\ UNCHANGED <<reply, timer, elapsed, unwritten>>

\* The instance dies; its members stay.
Crash(s) ==
    /\ session[s] \in {"acquiring", "live", "stopping"}
    /\ session' = [session EXCEPT ![s] = "dead"]
    /\ reply' = [reply EXCEPT ![s] = "none"]
    /\ UNCHANGED <<member, timer, elapsed, unwritten>>

\* Another connection, with a lease id of its own.
Connect(s) ==
    /\ session[s] \in {"closed", "dead"}
    /\ member[s] \in {None, 0}
    /\ member' = [member EXCEPT ![s] = None]
    /\ session' = [session EXCEPT ![s] = "idle"]
    /\ UNCHANGED <<reply, timer, elapsed, unwritten>>

\* Time passes.  Ticks are served without delay and calls end by their timeout;
\* the clocks of a session that is not open stand at zero.
Open(s) == session[s] \in {"acquiring", "live"} \/ reply[s] # "none"
Sooner(n) == IF n > 0 THEN n - 1 ELSE n
Advance(clock, s) == IF ~Open(s) THEN 0
                     ELSE IF clock[s] < MaxOverrun THEN clock[s] + 1 ELSE clock[s]

Tick ==
    /\ \A s \in Sessions :
         /\ reply[s] # "none" => Interval - timer[s] < OpTimeout
         /\ session[s] = "live" /\ reply[s] = "none" => timer[s] > 0
    /\ member' = [s \in Sessions |-> Sooner(member[s])]
    /\ timer' = [s \in Sessions |-> IF Open(s) THEN Sooner(timer[s]) ELSE 0]
    /\ elapsed' = [s \in Sessions |-> Advance(elapsed, s)]
    /\ unwritten' = [s \in Sessions |-> Advance(unwritten, s)]
    /\ UNCHANGED <<session, reply>>

-----------------------------------------------------------------------------

Init ==
    /\ member = [s \in Sessions |-> None]
    /\ session = [s \in Sessions |-> "idle"]
    /\ reply = [s \in Sessions |-> "none"]
    /\ timer = [s \in Sessions |-> 0]
    /\ elapsed = [s \in Sessions |-> 0]
    /\ unwritten = [s \in Sessions |-> 0]

SessionStep(s) ==
    \/ AcquireOpenAIWSIngressLease(s) \/ AcquireReply(s) \/ Refresh(s)
    \/ RefreshReply(s) \/ Stop(s) \/ Release(s) \/ Crash(s) \/ Connect(s)

Next == Tick \/ \E s \in Sessions : SessionStep(s)

Spec == Init /\ [][Next]_vars

-----------------------------------------------------------------------------
(* Properties.                                                             *)

Live == {s \in Sessions : session[s] = "live"}

\* The live sessions that know their member to be in Redis: the last reply is
\* so recent that the write it reported, at most a call earlier, still counts.
Confirmed == {s \in Live : elapsed[s] + OpTimeout < TTL}

\* The sorted set never counts more leases than the cap, through failing and
\* repeated calls, crashes and late refreshes: a refresh never adds a member.
CapInv == Cardinality(Members(member)) <= MaxConnections

\* A recent confirmation can be relied on: neither an expiry nor another
\* session's reaping script has taken the member away since, although
\* lastConfirmedAt is the time of the reply and not of the write, and although
\* the calls made in the meantime may have failed, with or without effect.
LiveHasMember == \A s \in Confirmed : member[s] > 0

\* "A process that lost its lease must terminate its local WebSocket instead
\* of silently continuing beyond the distributed cap."  Beyond the cap there
\* are only sessions that have had no answer for nearly a lease lifetime.
LiveBounded == Cardinality(Confirmed) <= MaxConnections

\* While Redis answers nothing, a session ends at most a refresh interval (and
\* the two calls' time) after its member was due to expire: refresh gives up
\* after a lease lifetime without confirmation, and looks once per tick.
OverrunBounded == \A s \in Live : unwritten[s] < MaxOverrun

-----------------------------------------------------------------------------
(* The inductive invariants.                                               *)

\* Behind LiveHasMember, with Bounded below: a session that was told it owns
\* its member has it for a lease lifetime from the last write.
Fresh(s) ==
    session[s] = "live" \/ (session[s] = "acquiring" /\ reply[s] = "owned") =>
        (unwritten[s] < TTL => member[s] >= TTL - unwritten[s])

FreshInv == \A s \in Sessions : Fresh(s)

\* Behind OverrunBounded: lastConfirmedAt follows the
\* write it confirms by at most a call, and a session that is still live was
\* within its lease lifetime when the last reply was handled.
Bounded(s) ==
    /\ session[s] = "idle" => member[s] = None
    /\ session[s] \in {"live", "acquiring"} /\ reply[s] # "none" =>
         timer[s] >= Interval - OpTimeout
    /\ session[s] \in {"live", "acquiring"} /\ reply[s] = "owned" =>
         unwritten[s] <= Interval - timer[s]
    /\ session[s] = "live" => unwritten[s] <= elapsed[s] + OpTimeout
    /\ session[s] = "live" /\ reply[s] = "none" =>
         elapsed[s] + timer[s] < TTL + Interval
    /\ session[s] = "live" /\ reply[s] # "none" =>
         elapsed[s] + timer[s] < TTL + Interval + Interval

BoundedInv == \A s \in Sessions : Bounded(s)
=============================================================================
