---------------------------- MODULE TokenRefresh ----------------------------
(***************************************************************************)
(* The background refresh of one account's OAuth credentials, on several   *)
(* instances, against the administrators who edit the same row:            *)
(*                                                                         *)
(*   service/token_refresh_service.go   candidates, attempts, deadlines,   *)
(*                                      retries and what failures lead to  *)
(*   service/oauth_refresh_api.go       RefreshIfNeeded                    *)
(*   repository/gemini_token_cache.go   the refresh lock in Redis          *)
(*   repository/account_repo.go         the writes of the row              *)
(*   service/admin_account.go,                                             *)
(*   handler/admin/account_handler.go   edits, re-authorization and the    *)
(*                                      manual refresh                     *)
(*                                                                         *)
(* A credential document is the number under which the provider issued it; *)
(* its refresh token can be used once.  Status "active" stands for active  *)
(* and quality_paused, which the background refresh treats alike.  Time is *)
(* counted in ticks: left is what an attempt, or a detached call after it, *)
(* has left, ttl what the lock has left.                                   *)
(***************************************************************************)
EXTENDS Integers, FiniteSets

CONSTANTS
    Workers,            \* the refresh services, one per instance
    Admins,             \* concurrent administrator requests
    Platforms,          \* kinds of account: "grok", "other"
    LockTTL,            \* defaultRefreshLockTTL
    SafetyMargin,       \* maxTokenRefreshLockSafetyMargin
    ConfiguredTimeout,  \* AttemptTimeoutSeconds
    CleanupTimeout,     \* defaultRefreshPostPersistCleanupTimeout
    ReleaseTimeout,     \* defaultRefreshLockReleaseTimeout
    MaxRetries,         \* MaxRetries[w]: attempts per cycle on instance w
    MaxDocs,            \* bound: documents the provider issues
    MaxFaults,          \* bound: failing or late calls, crashes
    Nobody

ASSUME ConstantsAssumption ==
    /\ IsFiniteSet(Workers) /\ IsFiniteSet(Admins)
    /\ Nobody \notin Workers
    /\ Platforms \subseteq {"grok", "other"}
    /\ CleanupTimeout \in Nat \ {0} /\ ReleaseTimeout \in Nat \ {0}
    /\ ConfiguredTimeout \in Nat \ {0}
    /\ MaxRetries \in [Workers -> Nat \ {0}]
    /\ SafetyMargin \in Nat /\ CleanupTimeout + ReleaseTimeout <= SafetyMargin
    /\ LockTTL \in Nat /\ SafetyMargin < LockTTL
    /\ MaxDocs \in Nat \ {0} /\ MaxFaults \in Nat

VARIABLES
    platform,  \* the account's platform
    row,       \* its row: credential document, status, retry cooldown
    lock,      \* whose SETNX made the refresh lock, or Nobody
    ttl,       \* what the lock has left
    job,       \* job[w]: the call of refreshWithRetry on instance w
    adm,       \* adm[a]: the administrator's request
    issued,    \* the number of the newest document
    live,      \* documents whose refresh token the provider accepts
    due,       \* documents close to their expiry
    refused,   \* working documents with which the provider refused the account
    faults,    \* failures so far
    mishap     \* a fault, or a stale edit, has cost an issued document

rowVars == <<platform, row>>
lockVars == <<lock, ttl>>
providerVars == <<issued, live, due, refused>>
vars == <<platform, row, lock, ttl, job, adm, issued, live, due, refused, faults, mishap>>

Docs == 1..MaxDocs
NoDoc == 0

Statuses == {"active", "inactive", "error"}
Stages == {"idle", "rest", "lock", "read", "call", "persist", "recover", "durable",
           "release", "after"}
Results == {"none", "skip", "stop", "retry", "revoked", "done", "stored"}

IdleJob == [stage |-> "idle", acct |-> NoDoc, used |-> NoDoc, fresh |-> NoDoc,
            held |-> FALSE, result |-> "none", left |-> 0, tries |-> 0,
            late |-> FALSE, sawCooling |-> FALSE]
IdleAdmin == [stage |-> "idle", kind |-> "none", seen |-> NoDoc, doc |-> NoDoc,
              status |-> "active"]

\* Mutant of attemptTimeout: the configured time is not clamped.
UnclampedTimeout == ConfiguredTimeout

\* attemptTimeout and clampRefreshAttemptToLockLease: an attempt ends a
\* margin before the lock it may have taken.
attemptTimeout ==
    IF ConfiguredTimeout > LockTTL - SafetyMargin
    THEN LockTTL - SafetyMargin ELSE ConfiguredTimeout

Rows == [doc : Docs, status : Statuses, cooling : BOOLEAN]
Jobs == [stage : Stages, acct : Docs \cup {NoDoc}, used : Docs \cup {NoDoc},
         fresh : Docs \cup {NoDoc}, held : BOOLEAN, result : Results,
         left : 0..LockTTL, tries : Nat, late : BOOLEAN, sawCooling : BOOLEAN]
AdminRequests == [stage : {"idle", "call", "read", "write", "clear"},
                  kind : {"none", "edit", "reauth", "refresh"},
                  seen : Docs \cup {NoDoc}, doc : Docs \cup {NoDoc}, status : Statuses]

TypeOK ==
    /\ platform \in Platforms /\ row \in Rows
    /\ lock \in Workers \cup {Nobody} /\ ttl \in 0..LockTTL
    /\ job \in [Workers -> Jobs] /\ adm \in [Admins -> AdminRequests]
    /\ \A w \in Workers : job[w].tries <= MaxRetries[w]
    /\ issued \in Docs /\ live \subseteq 1..issued /\ due \subseteq 1..issued
    /\ refused \subseteq 1..issued
    /\ faults \in 0..MaxFaults /\ mishap \in BOOLEAN

Init ==
    /\ platform \in Platforms
    /\ row = [doc |-> 1, status |-> "active", cooling |-> FALSE]
    /\ lock = Nobody /\ ttl = 0
    /\ job = [w \in Workers |-> IdleJob]
    /\ adm = [a \in Admins |-> IdleAdmin]
    /\ issued = 1 /\ live = {1} /\ due = {} /\ refused = {}
    /\ faults = 0 /\ mishap = FALSE

-----------------------------------------------------------------------------
(* The provider, time and failures.                                        *)

\* Room for one more document beside those that due documents will need.
Room == issued + Cardinality(due \cap live) < MaxDocs

\* The provider exchanges the refresh token of document d for a new document.
Rotate(d) ==
    /\ d \in live
    /\ issued' = issued + 1
    /\ live' = (live \ {d}) \cup {issued + 1}
    /\ refused' = refused \ {d}
    /\ due' = due

Fault == faults < MaxFaults /\ faults' = faults + 1
NoFault == UNCHANGED faults

\* A call fails: its time is up, which Tick has charged, or by a fault.
Fails(w) == IF job[w].left = 0 THEN NoFault ELSE Fault
InTime(w) == job[w].left > 0 /\ NoFault

\* The stored access token comes into the refresh window.
BecomesDue ==
    /\ row.doc \notin due
    /\ row.doc \in live => Room
    /\ due' = due \cup {row.doc}
    /\ UNCHANGED <<rowVars, lockVars, job, adm, issued, live, refused, faults, mishap>>

\* Ten minutes after the retries were exhausted.
CooldownEnds ==
    /\ row.cooling
    /\ row' = [row EXCEPT !.cooling = FALSE]
    /\ UNCHANGED <<platform, lockVars, job, adm, providerVars, faults, mishap>>

Running(w) == job[w].stage \notin {"idle", "rest", "after"}

\* Time passes, for everyone alike; a call whose time is up is over first.
\* An attempt that runs into a deadline is late, which counts as a fault.
Tick ==
    /\ \A w \in Workers : Running(w) => job[w].left > 0
    /\ IF \E w \in Workers : Running(w) /\ job[w].left = 1 /\ ~job[w].late
       THEN Fault ELSE NoFault
    /\ job' = [w \in Workers |->
                 IF Running(w)
                 THEN [job[w] EXCEPT !.left = @ - 1, !.late = @ \/ job[w].left = 1]
                 ELSE IF job[w].stage = "rest" THEN IdleJob ELSE job[w]]
    /\ ttl' = IF ttl = 0 THEN 0 ELSE ttl - 1
    /\ lock' = IF ttl = 1 THEN Nobody ELSE lock
    /\ UNCHANGED <<rowVars, adm, providerVars, mishap>>

-----------------------------------------------------------------------------
(* RefreshIfNeeded.                                                        *)

\* It returns, and releases the lock on the way if it acquired it.  On an
\* error of the provider the caller goes on with the account that was tried;
\* what the caller does not look at is dropped.
Returns(w, result, acct) ==
    job' = [job EXCEPT ![w].stage = IF job[w].held THEN "release" ELSE "after",
                       ![w].result = result,
                       ![w].acct = acct,
                       ![w].used = NoDoc,
                       ![w].fresh = NoDoc,
                       ![w].sawCooling = (result = "done" /\ @),
                       ![w].late = (@ /\ job[w].held),
                       ![w].left = IF job[w].held THEN ReleaseTimeout ELSE 0]

\* The page of candidates and the start of the first attempt.
Begin(w) ==
    /\ job[w].stage = "idle"
    /\ row.status = "active" /\ ~row.cooling /\ row.doc \in due
    /\ job' = [job EXCEPT ![w] = [IdleJob EXCEPT !.stage = "lock",
                                                 !.acct = row.doc,
                                                 !.left = attemptTimeout,
                                                 !.tries = 1]]
    /\ UNCHANGED <<rowVars, lockVars, adm, providerVars, faults, mishap>>

\* Mutant of AcquireRefreshLock: the key has no expiry.
LockForEver(w) ==
    /\ job[w].stage = "lock"
    /\ \/ /\ InTime(w) /\ lock = Nobody
          /\ lock' = w /\ ttl' = 0
          /\ job' = [job EXCEPT ![w].stage = "read", ![w].held = TRUE]
       \/ /\ InTime(w) /\ lock # Nobody
          /\ Returns(w, "skip", NoDoc)
          /\ UNCHANGED lockVars
    /\ UNCHANGED <<rowVars, adm, providerVars, mishap>>

\* SETNX with the TTL; held by another: skip; an error: go on without it,
\* whether or not the command was executed.
AcquireRefreshLock(w) ==
    /\ job[w].stage = "lock"
    /\ \/ /\ InTime(w) /\ lock = Nobody
          /\ lock' = w /\ ttl' = LockTTL
          /\ job' = [job EXCEPT ![w].stage = "read", ![w].held = TRUE]
       \/ /\ InTime(w) /\ lock # Nobody
          /\ Returns(w, "skip", NoDoc)
          /\ UNCHANGED lockVars
       \/ /\ Fails(w)
          /\ \/ UNCHANGED lockVars
             \/ lock = Nobody /\ lock' = w /\ ttl' = LockTTL
          /\ job' = [job EXCEPT ![w].stage = "read"]
    /\ UNCHANGED <<rowVars, adm, providerVars, mishap>>

\* The account is read again; it may be inactive, or refreshed, by now.
Reread(w) ==
    /\ job[w].stage = "read"
    /\ \/ /\ Fails(w)
          /\ Returns(w, "stop", NoDoc)
       \/ /\ InTime(w)
          /\ row.status # "active" \/ row.doc \notin due
          /\ Returns(w, "skip", NoDoc)
       \/ /\ InTime(w)
          /\ row.status = "active" /\ row.doc \in due
          /\ job' = [job EXCEPT ![w].stage = "call",
                                ![w].used = row.doc,
                                ![w].sawCooling = row.cooling]
    /\ UNCHANGED <<rowVars, lockVars, adm, providerVars, mishap>>

\* Mutant of Refresh: the new credentials are not handed on.
RefreshForgets(w) ==
    /\ job[w].stage = "call" /\ InTime(w)
    /\ Rotate(job[w].used)
    /\ Returns(w, "done", NoDoc)
    /\ UNCHANGED <<rowVars, lockVars, adm, mishap>>

\* A permanent refusal other than invalid_grant: of a used-up token, or of the
\* account (access_denied, entitlement_denied, "subscription required", ...),
\* whose token stays as good as it was.  Nobody looks for a race.
RefusesAccount(w) ==
    /\ InTime(w)
    /\ refused' = refused \cup ({job[w].used} \cap live)
    /\ Returns(w, "revoked", job[w].used)
    /\ UNCHANGED <<issued, live, due, mishap>>

\* The token endpoint: a new document; invalid_grant; a permanent refusal; a
\* failure before or after the token was exchanged; a refusal that concerns
\* the provider, or for Grok may concern it.
Refresh(w) ==
    /\ job[w].stage = "call"
    /\ \/ /\ InTime(w) /\ Rotate(job[w].used)
          /\ job' = [job EXCEPT ![w].stage = "persist", ![w].fresh = issued + 1]
          /\ UNCHANGED mishap
       \/ /\ InTime(w) /\ job[w].used \notin live
          /\ job' = [job EXCEPT ![w].stage = "recover"]
          /\ UNCHANGED <<providerVars, mishap>>
       \/ RefusesAccount(w)
       \/ /\ Fails(w)
          /\ \/ UNCHANGED <<providerVars, mishap>>
             \/ Rotate(job[w].used) /\ mishap' = TRUE
          /\ Returns(w, "retry",
                     IF job[w].left = 0 THEN job[w].acct ELSE job[w].used)
       \/ /\ job[w].left > 0 /\ Fault
          /\ Returns(w, "stop", NoDoc)
          /\ UNCHANGED <<providerVars, mishap>>
    /\ UNCHANGED <<rowVars, lockVars, adm>>

\* tryRecoverFromRefreshRace: has somebody else used the token?  A late
\* answer is a timeout, and not taken for a revoked token.
Recover(w) ==
    /\ job[w].stage = "recover"
    /\ \/ /\ InTime(w) /\ row.doc # job[w].used
          /\ Returns(w, "skip", NoDoc)
       \/ /\ InTime(w) /\ row.doc = job[w].used
          /\ Returns(w, "revoked", job[w].used)
       \/ /\ job[w].left > 0 /\ Fault
          /\ Returns(w, "revoked", job[w].used)
       \/ /\ job[w].left = 0 /\ NoFault
          /\ \E acct \in {job[w].acct, job[w].used} : Returns(w, "retry", acct)
    /\ UNCHANGED <<rowVars, lockVars, adm, providerVars, mishap>>

Stored(w) == row' = [row EXCEPT !.doc = job[w].fresh]

\* The provider's answer came after the deadline and is dropped.
AnswerTooLate(w) ==
    /\ job[w].stage = "persist" /\ job[w].left = 0 /\ NoFault
    /\ Returns(w, "retry", job[w].acct)
    /\ mishap' = TRUE
    /\ UNCHANGED <<rowVars, lockVars, adm, providerVars>>

\* UpdateGrokOAuthCredentialsIfUnchanged: compare and set.  A failed
\* statement leaves open whether it was executed.
PersistGrok(w) ==
    /\ platform = "grok" /\ job[w].stage = "persist"
    /\ \/ /\ InTime(w) /\ row.doc = job[w].used
          /\ Stored(w)
          /\ job' = [job EXCEPT ![w].stage = "durable", ![w].fresh = NoDoc,
                                ![w].left = CleanupTimeout]
          /\ UNCHANGED mishap
       \/ /\ job[w].left > 0 /\ row.doc # job[w].used
          /\ \/ NoFault /\ Returns(w, "skip", NoDoc)
             \/ Fault /\ Returns(w, "stop", NoDoc)
          /\ UNCHANGED <<row, mishap>>
       \/ /\ Fails(w)
          /\ \/ row.doc = job[w].used /\ Stored(w) /\ UNCHANGED mishap
             \/ UNCHANGED row /\ mishap' = TRUE
          /\ Returns(w, "stop", NoDoc)
    /\ UNCHANGED <<platform, lockVars, adm, providerVars>>

\* persistAccountCredentials: the other platforms write unconditionally,
\* and try again after a failure, with the token that is used up by now.
PersistOther(w) ==
    /\ platform = "other" /\ job[w].stage = "persist"
    /\ \/ /\ InTime(w) /\ Stored(w)
          /\ Returns(w, "done", NoDoc)
          /\ UNCHANGED mishap
       \/ /\ Fails(w)
          /\ \/ Stored(w) /\ UNCHANGED mishap
             \/ UNCHANGED row /\ mishap' = TRUE
          /\ Returns(w, "retry", job[w].acct)
    /\ UNCHANGED <<platform, lockVars, adm, providerVars>>

\* loadGrokDurableAccountAfterPersist, on a context of its own.
LoadDurable(w) ==
    /\ job[w].stage = "durable"
    /\ \/ /\ InTime(w)
          /\ job' = [job EXCEPT ![w].stage = IF job[w].held THEN "release" ELSE "after",
                                ![w].result = "done",
                                ![w].acct = NoDoc, ![w].used = NoDoc,
                                ![w].sawCooling = row.cooling,
                                ![w].left = IF job[w].held THEN ReleaseTimeout ELSE 0]
       \/ Fails(w) /\ Returns(w, "stop", NoDoc)
    /\ UNCHANGED <<rowVars, lockVars, adm, providerVars, mishap>>

\* What an outcome becomes when the deadline passes before the caller looks.
Late(result) ==
    CASE result = "revoked" -> "retry"
      [] result = "done"    -> "stored"
      [] OTHER              -> result

\* The deferred DEL, on a context of its own: of the key, whoever set it.
ReleaseRefreshLock(w) ==
    /\ job[w].stage = "release"
    /\ \/ NoFault /\ lock' = Nobody /\ ttl' = 0
          /\ job' = [job EXCEPT ![w].stage = "after", ![w].held = FALSE,
                                ![w].left = 0, ![w].late = FALSE]
       \/ Fails(w) /\ UNCHANGED lockVars
          /\ \E r \in {job[w].result, Late(job[w].result)} :
               job' = [job EXCEPT ![w].stage = "after", ![w].held = FALSE,
                                  ![w].left = 0, ![w].late = FALSE, ![w].result = r]
    /\ UNCHANGED <<rowVars, adm, providerVars, mishap>>

\* The attempt's own deadline passes before the caller looks at it, whatever
\* the attempt has returned.
DeadlinePasses(w) ==
    /\ job[w].stage \in {"release", "after"} /\ job[w].result \in {"revoked", "done"}
    /\ IF job[w].late THEN NoFault ELSE Fault
    /\ job' = [job EXCEPT ![w].result = Late(@)]
    /\ UNCHANGED <<rowVars, lockVars, adm, providerVars, mishap>>

-----------------------------------------------------------------------------
(* refreshWithRetryWithRateGate, after the attempt.                        *)

\* The account's turn is over; the next cycle begins after a while.
Ends(w) == job' = [job EXCEPT ![w] = [IdleJob EXCEPT !.stage = "rest"]]

\* SetGrokOAuthRefreshErrorIfCredentialsUnchanged's and its sibling's WHERE.
Unchanged(w) == row.doc = job[w].acct /\ row.status = "active"

\* Mutant of Quarantines: the document is not compared.
QuarantinesAny(w) == row' = [row EXCEPT !.status = "error"]

\* The token is revoked: the account goes into error; for Grok only if it
\* still has the document that was tried.
Quarantines(w) ==
    row' = IF platform = "other" \/ Unchanged(w)
           THEN [row EXCEPT !.status = "error"] ELSE row

\* The retries are exhausted: no attempt for a while.
CoolsDown(w) ==
    row' = IF platform = "other" \/ Unchanged(w)
           THEN [row EXCEPT !.cooling = TRUE] ELSE row

\* Skipped, contained for this cycle, or stored after the deadline.
EndQuietly(w) ==
    /\ job[w].stage = "after" /\ job[w].result \in {"skip", "stop", "stored"}
    /\ Ends(w)
    /\ UNCHANGED <<rowVars, lockVars, adm, providerVars, faults, mishap>>

\* postRefreshActions: a cooldown seen with the account is cleared.
EndRefreshed(w) ==
    /\ job[w].stage = "after" /\ job[w].result = "done"
    /\ row' = IF job[w].sawCooling THEN [row EXCEPT !.cooling = FALSE] ELSE row
    /\ Ends(w)
    /\ UNCHANGED <<platform, lockVars, adm, providerVars, faults, mishap>>

EndRevoked(w) ==
    /\ job[w].stage = "after" /\ job[w].result = "revoked"
    /\ Quarantines(w)
    /\ Ends(w)
    /\ UNCHANGED <<platform, lockVars, adm, providerVars, faults, mishap>>

\* Mutant of TryAgain: the attempts are not counted.
TryForEver(w) ==
    /\ job[w].stage = "after" /\ job[w].result = "retry"
    /\ job' = [job EXCEPT ![w] = [IdleJob EXCEPT !.stage = "lock",
                                                 !.acct = job[w].acct,
                                                 !.left = attemptTimeout,
                                                 !.tries = job[w].tries + 1]]
    /\ UNCHANGED <<rowVars, lockVars, adm, providerVars, faults, mishap>>

TryAgain(w) ==
    /\ job[w].stage = "after" /\ job[w].result = "retry"
    /\ job[w].tries < MaxRetries[w]
    /\ job' = [job EXCEPT ![w] = [IdleJob EXCEPT !.stage = "lock",
                                                 !.acct = job[w].acct,
                                                 !.left = attemptTimeout,
                                                 !.tries = job[w].tries + 1]]
    /\ UNCHANGED <<rowVars, lockVars, adm, providerVars, faults, mishap>>

EndExhausted(w) ==
    /\ job[w].stage = "after" /\ job[w].result = "retry"
    /\ job[w].tries = MaxRetries[w]
    /\ CoolsDown(w)
    /\ Ends(w)
    /\ UNCHANGED <<platform, lockVars, adm, providerVars, faults, mishap>>

\* The cycle's own deadline has passed, or the write of the outcome fails.
CycleOver(w) ==
    /\ job[w].stage = "after" /\ Fault
    /\ Ends(w)
    /\ UNCHANGED <<rowVars, lockVars, adm, providerVars, mishap>>

\* The instance dies, its lock stays until it expires; a new one begins with
\* a cycle.
Crash(w) ==
    /\ job[w].stage \notin {"idle", "rest"} /\ Fault
    /\ job' = [job EXCEPT ![w] = IdleJob]
    /\ mishap' = (mishap \/ job[w].fresh # NoDoc)
    /\ UNCHANGED <<rowVars, lockVars, adm, providerVars>>

-----------------------------------------------------------------------------
(* The administrators.                                                     *)

\* UpdateAccount reads the whole row, changes a field and writes it back.
StartEdit(a) ==
    /\ adm[a].stage = "idle"
    /\ \E status \in {row.status, "active", "inactive"} :
         adm' = [adm EXCEPT ![a] = [stage |-> "write", kind |-> "edit",
                                    seen |-> row.doc, doc |-> row.doc,
                                    status |-> status]]
    /\ UNCHANGED <<rowVars, lockVars, job, providerVars, faults, mishap>>

\* ApplyOAuthCredentials: the account was authorized anew.
StartReauth(a) ==
    /\ adm[a].stage = "idle" /\ Room
    /\ issued' = issued + 1 /\ live' = live \cup {issued + 1}
    /\ UNCHANGED <<due, refused>>
    /\ adm' = [adm EXCEPT ![a] = [stage |-> "write", kind |-> "reauth",
                                  seen |-> NoDoc, doc |-> issued + 1,
                                  status |-> row.status]]
    /\ UNCHANGED <<rowVars, lockVars, job, faults, mishap>>

\* refreshSingleAccount: the token is used without the refresh lock.
StartManualRefresh(a) ==
    /\ adm[a].stage = "idle"
    /\ adm' = [adm EXCEPT ![a] = [IdleAdmin EXCEPT !.stage = "call",
                                                   !.kind = "refresh",
                                                   !.seen = row.doc]]
    /\ UNCHANGED <<rowVars, lockVars, job, providerVars, faults, mishap>>

ManualCall(a) ==
    /\ adm[a].stage = "call"
    /\ \/ /\ Rotate(adm[a].seen) /\ (adm[a].seen \notin due => Room)
          /\ adm' = [adm EXCEPT ![a].stage = "read", ![a].seen = NoDoc,
                              ![a].doc = issued + 1]
       \/ /\ adm[a].seen \notin live \/ (adm[a].seen \notin due /\ ~Room)
          /\ adm' = [adm EXCEPT ![a] = IdleAdmin]
          /\ UNCHANGED providerVars
    /\ UNCHANGED <<rowVars, lockVars, job, faults, mishap>>

ManualRead(a) ==
    /\ adm[a].stage = "read"
    /\ adm' = [adm EXCEPT ![a].stage = "write", ![a].status = row.status]
    /\ UNCHANGED <<rowVars, lockVars, job, providerVars, faults, mishap>>

\* updateLockedAccount writes the credentials and the status as they were
\* read, whatever has been stored since.
WriteAccount(a) ==
    /\ adm[a].stage = "write"
    /\ row' = [row EXCEPT !.doc = adm[a].doc, !.status = adm[a].status]
    /\ mishap' = (mishap \/ (adm[a].kind = "edit" /\ row.doc # adm[a].seen))
    /\ adm' = [adm EXCEPT ![a] = IF adm[a].kind = "reauth"
                                 THEN [IdleAdmin EXCEPT !.stage = "clear"]
                                 ELSE IdleAdmin]
    /\ UNCHANGED <<platform, lockVars, job, providerVars, faults>>

\* ClearAccountError, the end of a re-authorization.
ClearAccountError(a) ==
    /\ adm[a].stage = "clear"
    /\ row' = [row EXCEPT !.status = "active", !.cooling = FALSE]
    /\ adm' = [adm EXCEPT ![a] = IdleAdmin]
    /\ UNCHANGED <<platform, lockVars, job, providerVars, faults, mishap>>

\* A request ends early: a failing statement, or its instance dies.
AbortRequest(a) ==
    /\ adm[a].stage # "idle" /\ Fault
    /\ adm' = [adm EXCEPT ![a] = IdleAdmin]
    /\ mishap' = (mishap \/ adm[a].kind = "refresh")
    /\ UNCHANGED <<rowVars, lockVars, job, providerVars>>

-----------------------------------------------------------------------------
Attempt(w) ==
    \/ AcquireRefreshLock(w) \/ Reread(w) \/ Refresh(w) \/ Recover(w)
    \/ AnswerTooLate(w) \/ PersistGrok(w) \/ PersistOther(w) \/ LoadDurable(w)
    \/ ReleaseRefreshLock(w)

Outcome(w) ==
    \/ EndQuietly(w) \/ EndRefreshed(w) \/ EndRevoked(w) \/ TryAgain(w)
    \/ EndExhausted(w)

AdminStep(a) == ManualCall(a) \/ ManualRead(a) \/ WriteAccount(a) \/ ClearAccountError(a)

Next ==
    \/ BecomesDue \/ CooldownEnds \/ Tick
    \/ \E w \in Workers :
         \/ Begin(w) \/ Attempt(w) \/ Outcome(w)
         \/ DeadlinePasses(w) \/ CycleOver(w) \/ Crash(w)
    \/ \E a \in Admins :
         \/ StartEdit(a) \/ StartReauth(a) \/ StartManualRefresh(a)
         \/ AdminStep(a) \/ AbortRequest(a)

\* The services keep running cycles, calls return, requests are carried out,
\* and time passes; nobody has to edit anything.
Fairness ==
    /\ WF_vars(Tick) /\ WF_vars(CooldownEnds)
    /\ \A w \in Workers : WF_vars(Begin(w) \/ Attempt(w) \/ Outcome(w))
    /\ \A a \in Admins : WF_vars(AdminStep(a))

Spec == Init /\ [][Next]_vars /\ Fairness

-----------------------------------------------------------------------------
\* A worker that acquired the lock owns it until it has released it, however
\* slow its calls are: two lock holders never refresh at the same time, and
\* nobody's release deletes the lock of another.
LockOwned == \A w \in Workers : job[w].held => lock = w

\* Unless a fault or a stale edit has cost an issued document, the stored
\* refresh token is one the provider accepts, or its successor is about to
\* be stored: neither concurrent instances, nor a refresh without the lock,
\* nor a manual refresh beside it leaves the account with a used-up token.
TokenKept ==
    \/ mishap
    \/ row.doc \in live
    \/ \E w \in Workers : job[w].fresh \in live
    \/ \E a \in Admins : adm[a].doc \in live

\* The document of the attempt whose outcome worker w is about to write.
Tried(w) == IF job[w].stage = "after" THEN job[w].acct ELSE job[w].used

\* What a worker does to the row: another document, the account in error.
Replaces == adm' = adm /\ row'.doc # row.doc
PutsIntoError == adm' = adm /\ row'.status = "error" /\ row.status # "error"

\* The row was changed under the attempt whose outcome is written.
ChangedUnder == \E w \in Workers : job'[w] # job[w] /\ Tried(w) # row.doc

\* A refresh never replaces credentials that still work, and never puts an
\* account into error whose credentials work and with which the provider has
\* not refused it: never for Grok, and for the other platforms only if the
\* row was changed under the attempt.
WorkingCredentialsKept ==
    [][/\ Replaces => row.doc \notin live \/ (platform = "other" /\ ChangedUnder)
       /\ PutsIntoError => \/ row.doc \notin live \ refused
                           \/ platform = "other" /\ ChangedUnder]_vars

\* An account whose token is due is refreshed in the end, or taken out of
\* service: it does not hang on a lock left behind, a cooldown or a used-up
\* token.  (A document stays due, so one that is stored is another one then.)
DueIsSettled == []<>(row.doc \notin due \/ row.status # "active")

-----------------------------------------------------------------------------
(* The inductive invariant behind TypeOK.                                  *)

\* No document is in use that the provider has not issued, and the bound on
\* documents leaves room for the refresh of those that are due.
DocsAreIssued ==
    /\ row.doc <= issued
    /\ \A w \in Workers : /\ job[w].acct <= issued /\ job[w].used <= issued
                          /\ job[w].fresh <= issued
    /\ \A a \in Admins : adm[a].seen <= issued /\ adm[a].doc <= issued
    /\ issued + Cardinality(due \cap live) <= MaxDocs

\* Which stage has which document.
StagesMatch ==
    /\ \A w \in Workers : /\ (job[w].stage = "persist") <=> (job[w].fresh # NoDoc)
                          /\ job[w].stage = "call" => job[w].used \in due
    /\ \A a \in Admins :
         /\ adm[a].stage \in {"idle", "clear"} => adm[a].doc = NoDoc
         /\ adm[a].stage = "write" => adm[a].doc # NoDoc /\ adm[a].kind # "none"
         /\ adm[a].stage = "read" => adm[a].doc # NoDoc /\ adm[a].kind = "refresh"
         /\ adm[a].stage = "call" => adm[a].doc = NoDoc /\ adm[a].kind = "refresh"
         /\ adm[a].kind = "edit" => adm[a].doc = adm[a].seen

TypeInv == TypeOK /\ DocsAreIssued /\ StagesMatch

-----------------------------------------------------------------------------
(* The inductive invariant behind LockOwned.                               *)

\* What the holder may still need of its lock when its present time is up.
Reserve(stage) ==
    CASE stage = "release" -> 0
      [] stage = "durable" -> ReleaseTimeout
      [] OTHER             -> CleanupTimeout + ReleaseTimeout - 1

Holding == {"read", "call", "persist", "recover", "durable", "release"}

\* The lock outlives the time its holder has left, and the reserve.
LeaseInv ==
    \A w \in Workers :
        /\ job[w].stage = "lock" => job[w].left <= LockTTL - SafetyMargin
        /\ job[w].stage = "release" => job[w].held
        /\ job[w].held => /\ lock = w /\ job[w].stage \in Holding
                          /\ job[w].left + Reserve(job[w].stage) < ttl

-----------------------------------------------------------------------------
(* The inductive invariant behind TokenKept and WorkingCredentialsKept.    *)

\* The administrator's request has a document that is stored nowhere yet.
Newborn(a) == adm[a].kind \in {"reauth", "refresh"} /\ adm[a].doc # NoDoc

\* A document that is stored nowhere is good, and known to its owner only:
\* nobody can use it up, or store it a second time.
UnstoredIsOwned ==
    /\ \A w \in Workers : job[w].fresh # NoDoc =>
         /\ job[w].fresh \in live /\ job[w].fresh # row.doc
         /\ \A v \in Workers : /\ job[v].used # job[w].fresh
                               /\ job[v].fresh = job[w].fresh => v = w
         /\ \A a \in Admins : adm[a].seen # job[w].fresh /\ adm[a].doc # job[w].fresh
    /\ \A a \in Admins : Newborn(a) =>
         /\ adm[a].doc \in live /\ adm[a].doc # row.doc
         /\ \A v \in Workers : job[v].used # adm[a].doc
         /\ \A b \in Admins : /\ adm[b].seen # adm[a].doc
                              /\ adm[b].doc = adm[a].doc => b = a

\* Who has used the stored token up is about to store its successor.
Succession ==
    \/ mishap
    \/ row.doc \in live
    \/ \E w \in Workers : job[w].fresh # NoDoc /\ job[w].used = row.doc
    \/ \E a \in Admins : Newborn(a) /\ adm[a].kind = "refresh"

\* Documents that were exchanged, or found revoked, stay so; a refusal is of
\* the document that was tried.
UsedUp ==
    \A w \in Workers :
        /\ job[w].stage \in {"persist", "recover"} => job[w].used \notin live
        /\ job[w].result = "revoked" => job[w].acct \notin live \ refused

TokenInv == UnstoredIsOwned /\ Succession /\ UsedUp
=============================================================================
