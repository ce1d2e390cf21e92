---------------------------- MODULE PaymentOrder ----------------------------
(***************************************************************************)
(* The life of one payment order up to its fulfilment:                     *)
(*                                                                         *)
(*   service/payment_order.go            CreateOrder, invokeProvider       *)
(*   service/payment_order_lifecycle.go  cancel, expiry, verification      *)
(*   service/payment_fulfillment.go      notifications and fulfilment      *)
(*   service/redeem_service.go           the code that carries the credit  *)
(*                                                                         *)
(* Handlers are the requests and jobs working on the order at a time, on   *)
(* any instance; one statement or transaction, or one call to the payment  *)
(* gateway, is one step.  Every UPDATE of the row moves updated_at, which  *)
(* serves both as the version of the fulfilment lease and as its age.  A   *)
(* statement that took effect although it returned an error is the         *)
(* statement followed by Crash.                                            *)
(***************************************************************************)
EXTENDS Naturals, FiniteSets

CONSTANTS
    Handlers,   \* concurrent webhooks, cancellations, jobs and retries
    Faults,     \* the kinds of faults that happen
    MaxFaults   \* how many of them, at most

FaultKinds == {"crash", "call", "lookup", "audit", "slow"}

ASSUME OrderAssumption ==
    /\ IsFiniteSet(Handlers)
    /\ Faults \subseteq FaultKinds
    /\ MaxFaults \in Nat

VARIABLES
    kind,      \* order_type
    status,    \* the row's status
    held,      \* the handlers whose lease version is the row's updated_at
    old,       \* updated_at lies a lease duration (and a grace period) back
    paidAt,    \* paid_at IS NOT NULL
    creation,  \* where CreateOrder is
    gateway,   \* the order at the payment gateway
    answer,    \* what the gateway last heard about its notification
    grant,     \* the redeem code of the order, or its SUBSCRIPTION_ASSIGNED audit
    credited,  \* how often balance or subscription days were granted
    rebated,   \* the affiliate rebate is claimed (and accrued, or skipped)
    pc,        \* pc[h]: the step of a handler
    via,       \* via[h]: who waits for the handler
    goal,      \* goal[h]: the status a cancellation is going to set
    faults     \* faults so far

row == <<status, held, old>>
orderVars == <<kind, status, held, old, paidAt, creation, gateway, answer, grant,
               credited, rebated, pc, via, goal, faults>>

Unpaid == {"none", "PENDING", "CANCELLED", "EXPIRED"}
Fulfillable == {"PAID", "FAILED", "RECHARGING"}
RefundStatuses == {"REFUND_REQUESTED", "REFUNDING", "REFUND_PENDING", "REFUNDED",
                   "REFUND_FAILED"}
Settled == {"COMPLETED"} \cup RefundStatuses
Statuses == Unpaid \cup Fulfillable \cup Settled

Crediting == {"lookup", "create", "redeem", "rebate", "complete", "fail"}
HandlerSteps == {"idle", "query", "cancel", "confirm", "topaid", "already", "read",
                 "acquire", "reload"} \cup Crediting

OrderTypeOK ==
    /\ kind \in {"balance", "subscription"}
    /\ status \in Statuses
    /\ held \subseteq Handlers
    /\ old \in BOOLEAN
    /\ paidAt \in BOOLEAN
    /\ creation \in {"none", "invoking", "offered", "refused"}
    /\ gateway \in {"none", "open", "paid", "mispaid", "closed"}
    /\ answer \in {"waiting", "acked", "dropped"}
    /\ grant \in {"none", "unused", "used"}
    /\ credited \in Nat
    /\ rebated \in BOOLEAN
    /\ pc \in [Handlers -> HandlerSteps]
    /\ via \in [Handlers -> {"webhook", "internal"}]
    /\ goal \in [Handlers -> {"none", "CANCELLED", "EXPIRED"}]
    /\ faults \in Nat

-----------------------------------------------------------------------------
(* Steps.                                                                  *)

\* An UPDATE of the row: UpdateDefault(time.Now) moves updated_at.
Update(st) ==
    /\ status' = st
    /\ held' = {}
    /\ old' = FALSE

Goto(h, l) == pc' = [pc EXCEPT ![h] = l]

\* The handler returns; only a webhook's nil error reaches the gateway.
Return(h, outcome) ==
    /\ Goto(h, "idle")
    /\ via' = [via EXCEPT ![h] = "internal"]
    /\ goal' = [goal EXCEPT ![h] = "none"]
    /\ answer' = IF via[h] = "webhook" /\ answer = "waiting" /\ outcome # "error"
                 THEN outcome ELSE answer

Stay == UNCHANGED <<via, goal, answer>>

Fault(k) ==
    /\ k \in Faults
    /\ faults < MaxFaults
    /\ faults' = faults + 1

-----------------------------------------------------------------------------
(* Creation and payment.                                                   *)

\* createOrderInTx.
CreateOrder ==
    /\ creation = "none"
    /\ creation' = "invoking"
    /\ Update("PENDING")
    /\ UNCHANGED <<kind, paidAt, gateway, answer, grant, credited, rebated, pc, via, goal, faults>>

\* invokeProvider: the user gets something to pay with, or the order is marked
\* FAILED whatever its status has become meanwhile.
InvokeProvider ==
    /\ creation = "invoking"
    /\ \/ /\ creation' = "offered"
          /\ gateway' = "open"
          /\ Update(status)
       \/ /\ creation' = "refused"
          /\ Update("FAILED")
          /\ UNCHANGED gateway
    /\ UNCHANGED <<kind, paidAt, answer, grant, credited, rebated, pc, via, goal, faults>>

\* The user pays, perhaps not what was asked for.
UserPays ==
    /\ creation = "offered" /\ gateway = "open"
    /\ gateway' \in {"paid", "mispaid"}
    /\ UNCHANGED <<kind, row, paidAt, creation, answer, grant, credited, rebated, pc, via, goal, faults>>

\* The gateway repeats its notification until it is answered with success;
\* deliveries may overlap.
Webhook(h) ==
    /\ pc[h] = "idle"
    /\ gateway \in {"paid", "mispaid"} /\ answer = "waiting"
    /\ Goto(h, "confirm")
    /\ via' = [via EXCEPT ![h] = "webhook"]
    /\ UNCHANGED <<kind, row, paidAt, creation, gateway, answer, grant, credited, rebated, goal, faults>>

-----------------------------------------------------------------------------
(* Cancellation, expiry, verification.                                     *)

\* CancelOrder, AdminCancelOrder and ExpireTimedOutOrders, once they read PENDING.
Cancel(h) ==
    /\ pc[h] = "idle"
    /\ status = "PENDING"
    /\ \E st \in {"CANCELLED", "EXPIRED"} : goal' = [goal EXCEPT ![h] = st]
    /\ Goto(h, "query")
    /\ UNCHANGED <<kind, row, paidAt, creation, gateway, answer, grant, credited, rebated, via, faults>>

\* VerifyOrderByOutTradeNo; ReconcilePendingPaymentOrders for PENDING ones.
Verify(h) ==
    /\ pc[h] = "idle"
    /\ status \in {"PENDING", "EXPIRED"}
    /\ Goto(h, "query")
    /\ UNCHANGED <<kind, row, paidAt, creation, gateway, answer, grant, credited, rebated, via, goal, faults>>

\* checkPaidWithOptions: a paid order is handled like a notification, after
\* its trade number is stored if the gateway returned another one (whatever
\* the status is by now).  An unpaid one is closed at the gateway, at best.
CheckPaid(h) ==
    /\ pc[h] = "query"
    /\ \/ /\ gateway \in {"paid", "mispaid"}
          /\ Update(status) \/ UNCHANGED row
          /\ Goto(h, "confirm")
          /\ Stay /\ UNCHANGED gateway
       \/ /\ gateway \notin {"paid", "mispaid"} /\ goal[h] # "none"
          /\ gateway' \in {gateway, IF gateway = "open" THEN "closed" ELSE gateway}
          /\ Goto(h, "cancel")
          /\ Stay /\ UNCHANGED row
       \/ /\ gateway \notin {"paid", "mispaid"} /\ goal[h] = "none"
          /\ Return(h, "error")
          /\ UNCHANGED <<row, gateway>>
    /\ UNCHANGED <<kind, paidAt, creation, grant, credited, rebated, faults>>

\* The last statement of cancelCore.
CancelCore(h) ==
    /\ pc[h] = "cancel"
    /\ IF status = "PENDING" THEN Update(goal[h]) ELSE UNCHANGED row
    /\ Return(h, "error")
    /\ UNCHANGED <<kind, paidAt, creation, gateway, grant, credited, rebated, faults>>

-----------------------------------------------------------------------------
(* Notification.                                                           *)

\* confirmPayment: provider, metadata and amount must be the order's.
ConfirmPayment(h) ==
    /\ pc[h] = "confirm"
    /\ IF gateway = "paid" THEN Goto(h, "topaid") /\ Stay ELSE Return(h, "error")
    /\ UNCHANGED <<kind, row, paidAt, creation, gateway, grant, credited, rebated, faults>>

Payable(st, late) == st \in {"PENDING", "CANCELLED"} \/ (st = "EXPIRED" /\ ~late)

ToPaid(h) ==
    /\ pc[h] = "topaid"
    /\ IF Payable(status, old)
       THEN Update("PAID") /\ paidAt' = TRUE /\ Goto(h, "read")
       ELSE Goto(h, "already") /\ UNCHANGED <<row, paidAt>>
    /\ Stay
    /\ UNCHANGED <<kind, creation, gateway, grant, credited, rebated, faults>>

AlreadyProcessed(h) ==
    /\ pc[h] = "already"
    /\ \/ status \in Settled /\ Return(h, "acked")
       \/ status \in Fulfillable /\ Goto(h, "read") /\ Stay
       \/ status \in Unpaid /\ Return(h, "dropped")
    /\ UNCHANGED <<kind, row, paidAt, creation, gateway, grant, credited, rebated, faults>>

\* RetryFulfillment.
AdminRetry(h) ==
    /\ pc[h] = "idle"
    /\ paidAt /\ status \in Fulfillable
    /\ Goto(h, "read")
    /\ UNCHANGED <<kind, row, paidAt, creation, gateway, answer, grant, credited, rebated, via, goal, faults>>

-----------------------------------------------------------------------------
(* Fulfilment.                                                             *)

\* ExecuteBalanceFulfillment, ExecuteSubscriptionFulfillment: the first read.
ReadOrder(h) ==
    /\ pc[h] = "read"
    /\ \/ status = "COMPLETED" /\ Return(h, "acked")
       \/ status \in Fulfillable /\ Goto(h, "acquire") /\ Stay
       \/ status \notin Fulfillable \cup {"COMPLETED"} /\ Return(h, "error")
    /\ UNCHANGED <<kind, row, paidAt, creation, gateway, grant, credited, rebated, faults>>

LeaseNeverStale(st, stale) == st \in {"PAID", "FAILED"}
LeaseFree(st, stale) == st \in {"PAID", "FAILED"} \/ (st = "RECHARGING" /\ stale)

\* acquirePaymentFulfillmentLease: the UPDATE.
AcquireLease(h) ==
    /\ pc[h] = "acquire"
    /\ \/ LeaseFree(status, old) /\ Update("RECHARGING") /\ Goto(h, "reload") /\ Stay
       \/ /\ ~LeaseFree(status, old)
          /\ Return(h, IF status = "COMPLETED" THEN "acked" ELSE "error")
          /\ UNCHANGED row
    /\ UNCHANGED <<kind, paidAt, creation, gateway, grant, credited, rebated, faults>>

\* Its second half reads the version back, perhaps another handler's.
ReloadLease(h) ==
    /\ pc[h] = "reload"
    /\ \/ /\ status = "RECHARGING"
          /\ held' = held \cup {h}
          /\ Goto(h, "lookup")
          /\ Stay /\ UNCHANGED <<status, old>>
       \/ status # "RECHARGING" /\ Return(h, "error") /\ UNCHANGED row
    /\ UNCHANGED <<kind, paidAt, creation, gateway, grant, credited, rebated, faults>>

SkipWhenExisting == CASE grant = "none" -> "create" [] OTHER -> "rebate"
resolveRedeemAction ==
    CASE grant = "none" -> "create" [] grant = "unused" -> "redeem" [] grant = "used" -> "rebate"

\* doBalance: the lookup.
LookupCode(h) ==
    /\ pc[h] = "lookup" /\ kind = "balance"
    /\ Goto(h, resolveRedeemAction)
    /\ Stay
    /\ UNCHANGED <<kind, row, paidAt, creation, gateway, grant, credited, rebated, faults>>

\* CreateCode; the code is unique.
CreateCode(h) ==
    /\ pc[h] = "create"
    /\ \/ grant = "none" /\ grant' = "unused" /\ Goto(h, "redeem")
       \/ grant # "none" /\ Goto(h, "fail") /\ UNCHANGED grant
    /\ Stay
    /\ UNCHANGED <<kind, row, paidAt, creation, gateway, credited, rebated, faults>>

\* The credit, in one transaction with what forbids a second one.  The caller
\* may see an error after the commit: of the reload or a cache invalidation.
Credit(h) ==
    /\ grant' = "used"
    /\ credited' = credited + 1
    /\ \/ Goto(h, "rebate") /\ UNCHANGED faults
       \/ Goto(h, "fail") /\ Fault("call")

CodeUsable == grant # "none"
CodeUnused == grant = "unused"

\* redeemForPaymentFulfillment: UPDATE ... WHERE status = 'unused' and the balance.
Redeem(h) ==
    /\ pc[h] = "redeem"
    /\ \/ CodeUnused /\ Credit(h)
       \/ ~CodeUnused /\ Goto(h, "fail") /\ UNCHANGED <<grant, credited, faults>>
    /\ Stay
    /\ UNCHANGED <<kind, row, paidAt, creation, gateway, rebated>>

\* ensurePaymentSubscriptionAssigned: the days and the unique audit.
AssignSubscription(h) ==
    /\ pc[h] = "lookup" /\ kind = "subscription"
    /\ \/ grant = "none" /\ Credit(h)
       \/ grant # "none" /\ Goto(h, "rebate") /\ UNCHANGED <<grant, credited, faults>>
    /\ Stay
    /\ UNCHANGED <<kind, row, paidAt, creation, gateway, rebated>>

\* applyAffiliateRebateForOrder: claim and accrual in one transaction.
ApplyAffiliateRebate(h) ==
    /\ pc[h] = "rebate"
    /\ rebated' = TRUE
    /\ Goto(h, "complete")
    /\ Stay
    /\ UNCHANGED <<kind, row, paidAt, creation, gateway, grant, credited, faults>>

LeaseUnchecked(h) == TRUE
LeaseHeld(h) == status = "RECHARGING" /\ h \in held

MarkCompleted(h) ==
    /\ pc[h] = "complete"
    /\ \/ LeaseHeld(h) /\ Update("COMPLETED") /\ Return(h, "acked")
       \/ ~LeaseHeld(h) /\ status = "COMPLETED" /\ Return(h, "acked") /\ UNCHANGED row
       \/ ~LeaseHeld(h) /\ status # "COMPLETED" /\ Goto(h, "fail") /\ Stay /\ UNCHANGED row
    /\ UNCHANGED <<kind, paidAt, creation, gateway, grant, credited, rebated, faults>>

MarkFailed(h) ==
    /\ pc[h] = "fail"
    /\ IF LeaseHeld(h) THEN Update("FAILED") ELSE UNCHANGED row
    /\ Return(h, "error")
    /\ UNCHANGED <<kind, paidAt, creation, gateway, grant, credited, rebated, faults>>

-----------------------------------------------------------------------------
(* Faults and time.                                                        *)

\* A call or statement fails without effect.  A failed query of the gateway
\* (or an answer without a valid amount) does not stop a cancellation.
CallFails(h) ==
    /\ Fault("call")
    /\ \/ pc[h] \in {"cancel", "confirm", "topaid", "read", "acquire", "reload", "fail"}
            /\ Return(h, "error") /\ held' = held \ {h}
       \/ pc[h] \in Crediting \ {"fail"} /\ Goto(h, "fail") /\ Stay /\ UNCHANGED held
       \/ pc[h] = "query" /\ goal[h] # "none" /\ Goto(h, "cancel") /\ Stay /\ UNCHANGED held
       \/ pc[h] = "query" /\ goal[h] = "none" /\ Return(h, "error") /\ UNCHANGED held
    /\ UNCHANGED <<kind, status, old, paidAt, creation, gateway, grant, credited, rebated>>

\* handleNotify takes a failed lookup of the provider, and confirmPayment and
\* alreadyProcessed a failed read of the order, for a reason to answer the
\* notification with success.
LookupFails(h) ==
    /\ Fault("lookup")
    /\ pc[h] \in {"confirm", "already"}
    /\ Return(h, "dropped")
    /\ UNCHANGED <<kind, row, paidAt, creation, gateway, grant, credited, rebated>>

\* The instance dies, or the request's context is cancelled.
Crash(h) ==
    /\ Fault("crash")
    /\ pc[h] # "idle"
    /\ Return(h, "error")
    /\ held' = held \ {h}
    /\ UNCHANGED <<kind, status, old, paidAt, creation, gateway, grant, credited, rebated>>

\* Five minutes pass without an UPDATE: the lease is stale, the grace is over.
\* That a fulfilment takes longer than its lease is a fault.
Age ==
    /\ ~old /\ status \in {"RECHARGING", "EXPIRED"}
    /\ IF \E h \in Handlers : pc[h] \in Crediting \cup {"reload"}
       THEN Fault("slow") ELSE UNCHANGED faults
    /\ old' = TRUE
    /\ UNCHANGED <<kind, status, held, paidAt, creation, gateway, answer, grant, credited,
                   rebated, pc, via, goal>>

-----------------------------------------------------------------------------

OrderInit ==
    /\ kind \in {"balance", "subscription"}
    /\ status = "none" /\ held = {} /\ old = FALSE /\ paidAt = FALSE
    /\ creation = "none" /\ gateway = "none" /\ answer = "waiting"
    /\ grant = "none" /\ credited = 0 /\ rebated = FALSE
    /\ pc = [h \in Handlers |-> "idle"]
    /\ via = [h \in Handlers |-> "internal"]
    /\ goal = [h \in Handlers |-> "none"]
    /\ faults = 0

\* What a handler that has begun does next, faults aside.
Continue(h) ==
    \/ CheckPaid(h) \/ CancelCore(h) \/ ConfirmPayment(h) \/ ToPaid(h)
    \/ AlreadyProcessed(h) \/ ReadOrder(h) \/ AcquireLease(h) \/ ReloadLease(h)
    \/ LookupCode(h) \/ CreateCode(h) \/ Redeem(h) \/ AssignSubscription(h)
    \/ ApplyAffiliateRebate(h) \/ MarkCompleted(h) \/ MarkFailed(h)

HandlerStep(h) ==
    \/ Webhook(h) \/ Cancel(h) \/ Verify(h) \/ AdminRetry(h) \/ Continue(h)
    \/ CallFails(h) \/ LookupFails(h) \/ Crash(h)

OrderNext ==
    \/ CreateOrder \/ InvokeProvider \/ UserPays \/ Age
    \/ \E h \in Handlers : HandlerStep(h)
=============================================================================
