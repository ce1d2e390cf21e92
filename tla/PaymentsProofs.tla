--------------------------- MODULE PaymentsProofs ---------------------------
(***************************************************************************)
(* IndInv is inductive.  Handlers and refunds share the row: the handlers' *)
(* steps (OrderStep) move the status only while the order is not settled,  *)
(* and refunds (RefundStep) only once it is; what each keeps about its own *)
(* variables then survives the other's steps (KeptByOrder, KeptByRefund).  *)
(* The ledger's promises follow from the same facts, step by step.         *)
(***************************************************************************)
EXTENDS Payments, TLAPS

\* What a step of a handler may do to the status, and to the ledger.
StatusMove ==
    \/ status' = status
    \/ status \notin Settled /\ (status' \notin Settled \/ status' = "COMPLETED")

GrantMove ==
    /\ gateway = "paid" => gateway' = "paid"
    /\ \/ credited' = credited
       \/ gateway = "paid" /\ credited = 0 /\ credited' = 1 /\ gateway' = gateway

OrderStep == OrderTypeOK' /\ OrderInv' /\ StatusMove /\ GrantMove

-----------------------------------------------------------------------------
(* The handlers.                                                           *)

USE DEF row, Unpaid, Fulfillable, RefundStatuses, Settled, Statuses, Crediting, HandlerSteps

\* UPDATEs of the row, or none, keep its flag a flag.
LEMMA OldIsBoolean ==
    ASSUME OrderTypeOK, old' = FALSE \/ old' = old
    PROVE  old' \in BOOLEAN
  BY Zenon DEF OrderTypeOK

LEMMA CreateOrderStep ==
    ASSUME OrderTypeOK, OrderInv, CreateOrder
    PROVE  OrderStep
<1>1. OrderTypeOK'
  BY DEF CreateOrder, Update, OrderTypeOK
<1>2. OrderInv'
  BY DEF CreateOrder, Update, OrderInv, CompletedIsGranted, Paying, OrderTypeOK
<1>3. StatusMove
  BY DEF CreateOrder, Update, StatusMove, OrderInv, Paying, OrderTypeOK
<1>4. GrantMove
  BY DEF CreateOrder, Update, GrantMove, OrderInv, Paying, OrderTypeOK
<1>. QED
  BY <1>1, <1>2, <1>3, <1>4 DEF OrderStep

LEMMA InvokeProviderStep ==
    ASSUME OrderTypeOK, OrderInv, InvokeProvider
    PROVE  OrderStep
<1>1. OrderTypeOK'
  BY ZenonT(60) DEF InvokeProvider, Update, OrderTypeOK
<1>2. OrderInv'
  BY DEF InvokeProvider, Update, OrderInv, CompletedIsGranted, Paying, OrderTypeOK
<1>3. StatusMove
  BY DEF InvokeProvider, Update, StatusMove, OrderInv, Paying, OrderTypeOK
<1>4. GrantMove
  BY DEF InvokeProvider, Update, GrantMove, OrderInv, Paying, OrderTypeOK
<1>. QED
  BY <1>1, <1>2, <1>3, <1>4 DEF OrderStep

LEMMA UserPaysStep ==
    ASSUME OrderTypeOK, OrderInv, UserPays
    PROVE  OrderStep
<1>1. OrderTypeOK'
  BY DEF UserPays, OrderTypeOK
<1>2. OrderInv'
  BY DEF UserPays, OrderInv, CompletedIsGranted, Paying, OrderTypeOK
<1>3. StatusMove
  BY DEF UserPays, StatusMove, OrderInv, Paying, OrderTypeOK
<1>4. GrantMove
  BY DEF UserPays, GrantMove, OrderInv, Paying, OrderTypeOK
<1>. QED
  BY <1>1, <1>2, <1>3, <1>4 DEF OrderStep

LEMMA AgeStep ==
    ASSUME OrderTypeOK, OrderInv, Age
    PROVE  OrderStep
<1>1. OrderTypeOK'
  BY DEF Age, Fault, OrderTypeOK
<1>2. OrderInv'
  BY DEF Age, Fault, OrderInv, CompletedIsGranted, Paying, OrderTypeOK
<1>3. StatusMove
  BY DEF Age, Fault, StatusMove, OrderInv, Paying, OrderTypeOK
<1>4. GrantMove
  BY DEF Age, Fault, GrantMove, OrderInv, Paying, OrderTypeOK
<1>. QED
  BY <1>1, <1>2, <1>3, <1>4 DEF OrderStep

LEMMA WebhookStep ==
    ASSUME OrderTypeOK, OrderInv, NEW h \in Handlers, Webhook(h)
    PROVE  OrderStep
<1>1. OrderTypeOK'
  BY DEF Webhook, Goto, OrderTypeOK
<1>2. OrderInv'
  BY DEF Webhook, Goto, OrderInv, CompletedIsGranted, Paying, OrderTypeOK
<1>3. StatusMove
  BY DEF Webhook, Goto, StatusMove, OrderInv, Paying, OrderTypeOK
<1>4. GrantMove
  BY DEF Webhook, Goto, GrantMove, OrderInv, Paying, OrderTypeOK
<1>. QED
  BY <1>1, <1>2, <1>3, <1>4 DEF OrderStep

LEMMA CancelStep ==
    ASSUME OrderTypeOK, OrderInv, NEW h \in Handlers, Cancel(h)
    PROVE  OrderStep
<1>1. OrderTypeOK'
  BY DEF Cancel, Goto, OrderTypeOK
<1>2. OrderInv'
  BY DEF Cancel, Goto, OrderInv, CompletedIsGranted, Paying, OrderTypeOK
<1>3. StatusMove
  BY DEF Cancel, Goto, StatusMove, OrderInv, Paying, OrderTypeOK
<1>4. GrantMove
  BY DEF Cancel, Goto, GrantMove, OrderInv, Paying, OrderTypeOK
<1>. QED
  BY <1>1, <1>2, <1>3, <1>4 DEF OrderStep

LEMMA VerifyStep ==
    ASSUME OrderTypeOK, OrderInv, NEW h \in Handlers, Verify(h)
    PROVE  OrderStep
<1>1. OrderTypeOK'
  BY DEF Verify, Goto, OrderTypeOK
<1>2. OrderInv'
  BY DEF Verify, Goto, OrderInv, CompletedIsGranted, Paying, OrderTypeOK
<1>3. StatusMove
  BY DEF Verify, Goto, StatusMove, OrderInv, Paying, OrderTypeOK
<1>4. GrantMove
  BY DEF Verify, Goto, GrantMove, OrderInv, Paying, OrderTypeOK
<1>. QED
  BY <1>1, <1>2, <1>3, <1>4 DEF OrderStep

LEMMA AdminRetryStep ==
    ASSUME OrderTypeOK, OrderInv, NEW h \in Handlers, AdminRetry(h)
    PROVE  OrderStep
<1>1. OrderTypeOK'
  BY DEF AdminRetry, Goto, OrderTypeOK
<1>2. OrderInv'
  BY DEF AdminRetry, Goto, OrderInv, CompletedIsGranted, Paying, OrderTypeOK
<1>3. StatusMove
  BY DEF AdminRetry, Goto, StatusMove, OrderInv, Paying, OrderTypeOK
<1>4. GrantMove
  BY DEF AdminRetry, Goto, GrantMove, OrderInv, Paying, OrderTypeOK
<1>. QED
  BY <1>1, <1>2, <1>3, <1>4 DEF OrderStep

LEMMA CheckPaidStep ==
    ASSUME OrderTypeOK, OrderInv, NEW h \in Handlers, CheckPaid(h)
    PROVE  OrderStep
<1>a. old' = FALSE \/ old' = old
  BY DEF CheckPaid, Update, Goto, Return, Stay
<1>b. old' \in BOOLEAN
  BY <1>a, OldIsBoolean
<1>1. OrderTypeOK'
  BY <1>b DEF CheckPaid, Update, Goto, Return, Stay, OrderTypeOK
<1>2. OrderInv'
  BY DEF CheckPaid, Update, Goto, Return, Stay, OrderInv, CompletedIsGranted, Paying,
         OrderTypeOK
<1>3. StatusMove
  BY DEF CheckPaid, Update, Goto, Return, Stay, StatusMove, OrderInv, Paying, OrderTypeOK
<1>4. GrantMove
  BY DEF CheckPaid, Update, Goto, Return, Stay, GrantMove, OrderInv, Paying, OrderTypeOK
<1>. QED
  BY <1>1, <1>2, <1>3, <1>4 DEF OrderStep

LEMMA CancelCoreStep ==
    ASSUME OrderTypeOK, OrderInv, NEW h \in Handlers, CancelCore(h)
    PROVE  OrderStep
<1>a. old' = FALSE \/ old' = old
  BY DEF CancelCore, Update, Goto, Return
<1>b. old' \in BOOLEAN
  BY <1>a, OldIsBoolean
<1>1. OrderTypeOK'
  BY <1>b DEF CancelCore, Update, Goto, Return, OrderTypeOK
<1>2. OrderInv'
  BY DEF CancelCore, Update, Goto, Return, OrderInv, CompletedIsGranted, Paying, OrderTypeOK
<1>3. StatusMove
  BY DEF CancelCore, Update, Goto, Return, StatusMove, OrderInv, Paying, OrderTypeOK
<1>4. GrantMove
  BY DEF CancelCore, Update, Goto, Return, GrantMove, OrderInv, Paying, OrderTypeOK
<1>. QED
  BY <1>1, <1>2, <1>3, <1>4 DEF OrderStep

LEMMA ConfirmPaymentStep ==
    ASSUME OrderTypeOK, OrderInv, NEW h \in Handlers, ConfirmPayment(h)
    PROVE  OrderStep
<1>1. OrderTypeOK'
  BY DEF ConfirmPayment, Goto, Return, Stay, OrderTypeOK
<1>2. OrderInv'
  BY DEF ConfirmPayment, Goto, Return, Stay, OrderInv, CompletedIsGranted, Paying,
         OrderTypeOK
<1>3. StatusMove
  BY DEF ConfirmPayment, Goto, Return, Stay, StatusMove, OrderInv, Paying, OrderTypeOK
<1>4. GrantMove
  BY DEF ConfirmPayment, Goto, Return, Stay, GrantMove, OrderInv, Paying, OrderTypeOK
<1>. QED
  BY <1>1, <1>2, <1>3, <1>4 DEF OrderStep

LEMMA ToPaidStep ==
    ASSUME OrderTypeOK, OrderInv, NEW h \in Handlers, ToPaid(h)
    PROVE  OrderStep
<1>a. old' = FALSE \/ old' = old
  BY DEF ToPaid, Payable, Update, Goto, Stay
<1>b. old' \in BOOLEAN
  BY <1>a, OldIsBoolean
<1>c. paidAt' = TRUE \/ paidAt' = paidAt
  BY DEF ToPaid
<1>d. paidAt' \in BOOLEAN
  BY <1>c, Zenon DEF OrderTypeOK
<1>1. OrderTypeOK'
  BY <1>b, <1>d DEF ToPaid, Payable, Update, Goto, Stay, OrderTypeOK
<1>2. OrderInv'
  BY DEF ToPaid, Payable, Update, Goto, Stay, OrderInv, CompletedIsGranted, Paying,
         OrderTypeOK
<1>3. StatusMove
  BY DEF ToPaid, Payable, Update, Goto, Stay, StatusMove, OrderInv, Paying, OrderTypeOK
<1>4. GrantMove
  BY DEF ToPaid, Payable, Update, Goto, Stay, GrantMove, OrderInv, Paying, OrderTypeOK
<1>. QED
  BY <1>1, <1>2, <1>3, <1>4 DEF OrderStep

LEMMA AlreadyProcessedStep ==
    ASSUME OrderTypeOK, OrderInv, NEW h \in Handlers, AlreadyProcessed(h)
    PROVE  OrderStep
<1>1. OrderTypeOK'
  BY DEF AlreadyProcessed, Goto, Return, Stay, OrderTypeOK
<1>2. OrderInv'
  BY DEF AlreadyProcessed, Goto, Return, Stay, OrderInv, CompletedIsGranted, Paying,
         OrderTypeOK
<1>3. StatusMove
  BY DEF AlreadyProcessed, Goto, Return, Stay, StatusMove, OrderInv, Paying, OrderTypeOK
<1>4. GrantMove
  BY DEF AlreadyProcessed, Goto, Return, Stay, GrantMove, OrderInv, Paying, OrderTypeOK
<1>. QED
  BY <1>1, <1>2, <1>3, <1>4 DEF OrderStep

LEMMA ReadOrderStep ==
    ASSUME OrderTypeOK, OrderInv, NEW h \in Handlers, ReadOrder(h)
    PROVE  OrderStep
<1>1. OrderTypeOK'
  BY DEF ReadOrder, Goto, Return, Stay, OrderTypeOK
<1>2. OrderInv'
  BY DEF ReadOrder, Goto, Return, Stay, OrderInv, CompletedIsGranted, Paying, OrderTypeOK
<1>3. StatusMove
  BY DEF ReadOrder, Goto, Return, Stay, StatusMove, OrderInv, Paying, OrderTypeOK
<1>4. GrantMove
  BY DEF ReadOrder, Goto, Return, Stay, GrantMove, OrderInv, Paying, OrderTypeOK
<1>. QED
  BY <1>1, <1>2, <1>3, <1>4 DEF OrderStep

LEMMA AcquireLeaseStep ==
    ASSUME OrderTypeOK, OrderInv, NEW h \in Handlers, AcquireLease(h)
    PROVE  OrderStep
<1>a. old' = FALSE \/ old' = old
  BY DEF AcquireLease, LeaseFree, Update, Goto, Return, Stay
<1>b. old' \in BOOLEAN
  BY <1>a, OldIsBoolean
<1>1. OrderTypeOK'
  BY <1>b DEF AcquireLease, LeaseFree, Update, Goto, Return, Stay, OrderTypeOK
<1>2. OrderInv'
  BY DEF AcquireLease, LeaseFree, Update, Goto, Return, Stay, OrderInv, CompletedIsGranted,
         Paying, OrderTypeOK
<1>3. StatusMove
  BY DEF AcquireLease, LeaseFree, Update, Goto, Return, Stay, StatusMove, OrderInv, Paying,
         OrderTypeOK
<1>4. GrantMove
  BY DEF AcquireLease, LeaseFree, Update, Goto, Return, Stay, GrantMove, OrderInv, Paying,
         OrderTypeOK
<1>. QED
  BY <1>1, <1>2, <1>3, <1>4 DEF OrderStep

LEMMA ReloadLeaseStep ==
    ASSUME OrderTypeOK, OrderInv, NEW h \in Handlers, ReloadLease(h)
    PROVE  OrderStep
<1>1. OrderTypeOK'
  BY DEF ReloadLease, Goto, Return, Stay, OrderTypeOK
<1>2. OrderInv'
  BY DEF ReloadLease, Goto, Return, Stay, OrderInv, CompletedIsGranted, Paying, OrderTypeOK
<1>3. StatusMove
  BY DEF ReloadLease, Goto, Return, Stay, StatusMove, OrderInv, Paying, OrderTypeOK
<1>4. GrantMove
  BY DEF ReloadLease, Goto, Return, Stay, GrantMove, OrderInv, Paying, OrderTypeOK
<1>. QED
  BY <1>1, <1>2, <1>3, <1>4 DEF OrderStep

LEMMA LookupCodeStep ==
    ASSUME OrderTypeOK, OrderInv, NEW h \in Handlers, LookupCode(h)
    PROVE  OrderStep
<1>1. OrderTypeOK'
  BY DEF LookupCode, resolveRedeemAction, Goto, Stay, OrderTypeOK
<1>2. OrderInv'
  BY DEF LookupCode, resolveRedeemAction, Goto, Stay, OrderInv, CompletedIsGranted, Paying,
         OrderTypeOK
<1>3. StatusMove
  BY DEF LookupCode, resolveRedeemAction, Goto, Stay, StatusMove, OrderInv, Paying,
         OrderTypeOK
<1>4. GrantMove
  BY DEF LookupCode, resolveRedeemAction, Goto, Stay, GrantMove, OrderInv, Paying,
         OrderTypeOK
<1>. QED
  BY <1>1, <1>2, <1>3, <1>4 DEF OrderStep

LEMMA CreateCodeStep ==
    ASSUME OrderTypeOK, OrderInv, NEW h \in Handlers, CreateCode(h)
    PROVE  OrderStep
<1>1. OrderTypeOK'
  BY DEF CreateCode, Goto, Stay, OrderTypeOK
<1>2. OrderInv'
  BY DEF CreateCode, Goto, Stay, OrderInv, CompletedIsGranted, Paying, OrderTypeOK
<1>3. StatusMove
  BY DEF CreateCode, Goto, Stay, StatusMove, OrderInv, Paying, OrderTypeOK
<1>4. GrantMove
  BY DEF CreateCode, Goto, Stay, GrantMove, OrderInv, Paying, OrderTypeOK
<1>. QED
  BY <1>1, <1>2, <1>3, <1>4 DEF OrderStep

LEMMA RedeemStep ==
    ASSUME OrderTypeOK, OrderInv, NEW h \in Handlers, Redeem(h)
    PROVE  OrderStep
<1>1. OrderTypeOK'
  BY DEF Redeem, CodeUnused, Credit, Fault, Goto, Stay, OrderTypeOK
<1>2. OrderInv'
  BY DEF Redeem, CodeUnused, Credit, Fault, Goto, Stay, OrderInv, CompletedIsGranted,
         Paying, OrderTypeOK
<1>3. StatusMove
  BY DEF Redeem, CodeUnused, Credit, Fault, Goto, Stay, StatusMove, OrderInv, Paying,
         OrderTypeOK
<1>4. GrantMove
  BY DEF Redeem, CodeUnused, Credit, Fault, Goto, Stay, GrantMove, OrderInv, Paying,
         OrderTypeOK
<1>. QED
  BY <1>1, <1>2, <1>3, <1>4 DEF OrderStep

LEMMA AssignSubscriptionStep ==
    ASSUME OrderTypeOK, OrderInv, NEW h \in Handlers, AssignSubscription(h)
    PROVE  OrderStep
<1>1. OrderTypeOK'
  BY DEF AssignSubscription, Credit, Fault, Goto, Stay, OrderTypeOK
<1>2. OrderInv'
  BY DEF AssignSubscription, Credit, Fault, Goto, Stay, OrderInv, CompletedIsGranted,
         Paying, OrderTypeOK
<1>3. StatusMove
  BY DEF AssignSubscription, Credit, Fault, Goto, Stay, StatusMove, OrderInv, Paying,
         OrderTypeOK
<1>4. GrantMove
  BY DEF AssignSubscription, Credit, Fault, Goto, Stay, GrantMove, OrderInv, Paying,
         OrderTypeOK
<1>. QED
  BY <1>1, <1>2, <1>3, <1>4 DEF OrderStep

LEMMA ApplyAffiliateRebateStep ==
    ASSUME OrderTypeOK, OrderInv, NEW h \in Handlers, ApplyAffiliateRebate(h)
    PROVE  OrderStep
<1>1. OrderTypeOK'
  BY DEF ApplyAffiliateRebate, Goto, Stay, OrderTypeOK
<1>2. OrderInv'
  BY DEF ApplyAffiliateRebate, Goto, Stay, OrderInv, CompletedIsGranted, Paying, OrderTypeOK
<1>3. StatusMove
  BY DEF ApplyAffiliateRebate, Goto, Stay, StatusMove, OrderInv, Paying, OrderTypeOK
<1>4. GrantMove
  BY DEF ApplyAffiliateRebate, Goto, Stay, GrantMove, OrderInv, Paying, OrderTypeOK
<1>. QED
  BY <1>1, <1>2, <1>3, <1>4 DEF OrderStep

LEMMA MarkCompletedStep ==
    ASSUME OrderTypeOK, OrderInv, NEW h \in Handlers, MarkCompleted(h)
    PROVE  OrderStep
<1>a. old' = FALSE \/ old' = old
  BY DEF MarkCompleted, LeaseHeld, Update, Goto, Return, Stay
<1>b. old' \in BOOLEAN
  BY <1>a, OldIsBoolean
<1>1. OrderTypeOK'
  BY <1>b DEF MarkCompleted, LeaseHeld, Update, Goto, Return, Stay, OrderTypeOK
<1>2. OrderInv'
  BY DEF MarkCompleted, LeaseHeld, Update, Goto, Return, Stay, OrderInv, CompletedIsGranted,
         Paying, OrderTypeOK
<1>3. StatusMove
  BY DEF MarkCompleted, LeaseHeld, Update, Goto, Return, Stay, StatusMove, OrderInv, Paying,
         OrderTypeOK
<1>4. GrantMove
  BY DEF MarkCompleted, LeaseHeld, Update, Goto, Return, Stay, GrantMove, OrderInv, Paying,
         OrderTypeOK
<1>. QED
  BY <1>1, <1>2, <1>3, <1>4 DEF OrderStep

LEMMA MarkFailedStep ==
    ASSUME OrderTypeOK, OrderInv, NEW h \in Handlers, MarkFailed(h)
    PROVE  OrderStep
<1>a. old' = FALSE \/ old' = old
  BY DEF MarkFailed, LeaseHeld, Update, Goto, Return
<1>b. old' \in BOOLEAN
  BY <1>a, OldIsBoolean
<1>1. OrderTypeOK'
  BY <1>b DEF MarkFailed, LeaseHeld, Update, Goto, Return, OrderTypeOK
<1>2. OrderInv'
  BY DEF MarkFailed, LeaseHeld, Update, Goto, Return, OrderInv, CompletedIsGranted, Paying,
         OrderTypeOK
<1>3. StatusMove
  BY DEF MarkFailed, LeaseHeld, Update, Goto, Return, StatusMove, OrderInv, Paying,
         OrderTypeOK
<1>4. GrantMove
  BY DEF MarkFailed, LeaseHeld, Update, Goto, Return, GrantMove, OrderInv, Paying,
         OrderTypeOK
<1>. QED
  BY <1>1, <1>2, <1>3, <1>4 DEF OrderStep

LEMMA CallFailsStep ==
    ASSUME OrderTypeOK, OrderInv, NEW h \in Handlers, CallFails(h)
    PROVE  OrderStep
<1>1. OrderTypeOK'
  BY DEF CallFails, Fault, Goto, Return, Stay, OrderTypeOK
<1>2. OrderInv'
  BY DEF CallFails, Fault, Goto, Return, Stay, OrderInv, CompletedIsGranted, Paying,
         OrderTypeOK
<1>3. StatusMove
  BY DEF CallFails, Fault, Goto, Return, Stay, StatusMove, OrderInv, Paying, OrderTypeOK
<1>4. GrantMove
  BY DEF CallFails, Fault, Goto, Return, Stay, GrantMove, OrderInv, Paying, OrderTypeOK
<1>. QED
  BY <1>1, <1>2, <1>3, <1>4 DEF OrderStep

LEMMA LookupFailsStep ==
    ASSUME OrderTypeOK, OrderInv, NEW h \in Handlers, LookupFails(h)
    PROVE  OrderStep
<1>1. OrderTypeOK'
  BY DEF LookupFails, Fault, Goto, Return, OrderTypeOK
<1>2. OrderInv'
  BY DEF LookupFails, Fault, Goto, Return, OrderInv, CompletedIsGranted, Paying, OrderTypeOK
<1>3. StatusMove
  BY DEF LookupFails, Fault, Goto, Return, StatusMove, OrderInv, Paying, OrderTypeOK
<1>4. GrantMove
  BY DEF LookupFails, Fault, Goto, Return, GrantMove, OrderInv, Paying, OrderTypeOK
<1>. QED
  BY <1>1, <1>2, <1>3, <1>4 DEF OrderStep

LEMMA CrashStep ==
    ASSUME OrderTypeOK, OrderInv, NEW h \in Handlers, Crash(h)
    PROVE  OrderStep
<1>1. OrderTypeOK'
  BY DEF Crash, Fault, Goto, Return, OrderTypeOK
<1>2. OrderInv'
  BY DEF Crash, Fault, Goto, Return, OrderInv, CompletedIsGranted, Paying, OrderTypeOK
<1>3. StatusMove
  BY DEF Crash, Fault, Goto, Return, StatusMove, OrderInv, Paying, OrderTypeOK
<1>4. GrantMove
  BY DEF Crash, Fault, Goto, Return, GrantMove, OrderInv, Paying, OrderTypeOK
<1>. QED
  BY <1>1, <1>2, <1>3, <1>4 DEF OrderStep

\* Every step of OrderNext keeps the order's part of the invariant, leaves a
\* settled order's status alone, and grants at most once.
LEMMA OrderSteps ==
    ASSUME OrderTypeOK, OrderInv, OrderNext
    PROVE  OrderStep
  BY CreateOrderStep, InvokeProviderStep, UserPaysStep, AgeStep, WebhookStep, CancelStep,
     VerifyStep, AdminRetryStep, CheckPaidStep, CancelCoreStep, ConfirmPaymentStep,
     ToPaidStep, AlreadyProcessedStep, ReadOrderStep, AcquireLeaseStep, ReloadLeaseStep,
     LookupCodeStep, CreateCodeStep, RedeemStep, AssignSubscriptionStep,
     ApplyAffiliateRebateStep, MarkCompletedStep, MarkFailedStep, CallFailsStep,
     LookupFailsStep, CrashStep
     DEF OrderNext, HandlerStep, Continue

-----------------------------------------------------------------------------
(* The refunds.                                                            *)

USE DEF Refundable, Executing, Finalizing, unmoved

\* What a refund step leaves of the order, and what it may move.
RowMove ==
    /\ UNCHANGED unmoved
    /\ held' \subseteq Handlers /\ old' \in BOOLEAN /\ faults' \in Nat
    /\ status' = status \/ (status \in Settled /\ status' \in Settled)

LedgerMove == [Ledger!LedgerNext]_(Ledger!ledgerVars)

RefundStep == RefundTypeOK' /\ RowMove /\ RefundInv' /\ (sighted' => SightedInv') /\ LedgerMove

\* A plan stays a plan, a flag a flag.
LEMMA PlanIsPlan ==
    ASSUME RefundTypeOK, NEW a \in Admins,
           \/ plan' = plan
           \/ plan' = [plan EXCEPT ![a] = NoPlan]
           \/ plan' = [plan EXCEPT ![a].deduct = FALSE]
    PROVE  plan' \in [Admins -> [deduct : BOOLEAN, from : Refundable \cup {"none"}]]
<1>1. CASE plan' = plan
  BY <1>1 DEF RefundTypeOK
<1>2. CASE plan' = [plan EXCEPT ![a] = NoPlan]
  BY <1>2 DEF RefundTypeOK, NoPlan
<1>3. CASE plan' = [plan EXCEPT ![a].deduct = FALSE]
  BY <1>3 DEF RefundTypeOK
<1>. QED
  BY <1>1, <1>2, <1>3

LEMMA SightedIsBoolean ==
    ASSUME RefundTypeOK, sighted' = FALSE \/ sighted' = sighted
    PROVE  /\ sighted' \in BOOLEAN
           /\ sighted' => sighted
<1>1. sighted' \in BOOLEAN
  BY Zenon DEF RefundTypeOK
<1>2. sighted' => sighted
  BY Zenon DEF RefundTypeOK
<1>. QED
  BY <1>1, <1>2

LEMMA RequestRefundStep ==
    ASSUME IndInv, RequestRefund
    PROVE  RefundStep
<1>a. old' = FALSE \/ old' = old
  BY DEF RequestRefund, Update, refundVars
<1>b. old' \in BOOLEAN
  BY <1>a, OldIsBoolean DEF IndInv, TypeOK
<1>1. RefundTypeOK'
  BY DEF RequestRefund, Update, refundVars, IndInv, TypeOK, OrderTypeOK, RefundTypeOK,
         RefundInv
<1>2. RowMove
  BY <1>b DEF RequestRefund, Update, refundVars, RowMove, IndInv, TypeOK, OrderTypeOK,
              RefundInv, RefundExclusive
<1>3. RefundInv'
  BY <1>1, <1>2 DEF RequestRefund, Update, refundVars, RowMove, IndInv, TypeOK,
                    RefundTypeOK, OrderInv, CompletedIsGranted, RefundInv, RefundExclusive
<1>4. sighted' => SightedInv'
  BY <1>1, <1>2 DEF RequestRefund, Update, refundVars, RowMove, IndInv, TypeOK, OrderTypeOK,
                    RefundTypeOK, RefundInv, RefundExclusive, SightedInv, Deducted, Owed,
                    NotRefunded
<1>5. LedgerMove
  BY DEF RequestRefund, Update, refundVars, LedgerMove, Ledger!LedgerNext,
         Ledger!ledgerVars, Ledger!Deduct, Ledger!Return, Ledger!Refund, Ledger!LoseSight,
         IndInv, TypeOK, OrderTypeOK, RefundTypeOK, OrderInv, CompletedIsGranted, RefundInv,
         RefundExclusive, SightedInv, Deducted, Owed, NotRefunded
<1>. QED
  BY <1>1, <1>2, <1>3, <1>4, <1>5 DEF RefundStep

LEMMA GwSettlesStep ==
    ASSUME IndInv, GwSettles
    PROVE  RefundStep
<1>a. old' = FALSE \/ old' = old
  BY DEF GwSettles
<1>b. old' \in BOOLEAN
  BY <1>a, OldIsBoolean DEF IndInv, TypeOK
<1>1. RefundTypeOK'
  BY DEF GwSettles, IndInv, TypeOK, OrderTypeOK, RefundTypeOK, RefundInv
<1>2. RowMove
  BY <1>b DEF GwSettles, RowMove, IndInv, TypeOK, OrderTypeOK, RefundInv, RefundExclusive
<1>3. RefundInv'
  BY <1>1, <1>2 DEF GwSettles, RowMove, IndInv, TypeOK, RefundTypeOK, OrderInv,
                    CompletedIsGranted, RefundInv, RefundExclusive
<1>4. sighted' => SightedInv'
  BY <1>1, <1>2 DEF GwSettles, RowMove, IndInv, TypeOK, OrderTypeOK, RefundTypeOK,
                    RefundInv, RefundExclusive, SightedInv, Deducted, Owed, NotRefunded
<1>5. LedgerMove
  BY DEF GwSettles, LedgerMove, Ledger!LedgerNext, Ledger!ledgerVars, Ledger!Deduct,
         Ledger!Return, Ledger!Refund, Ledger!LoseSight, IndInv, TypeOK, OrderTypeOK,
         RefundTypeOK, OrderInv, CompletedIsGranted, RefundInv, RefundExclusive, SightedInv,
         Deducted, Owed, NotRefunded
<1>. QED
  BY <1>1, <1>2, <1>3, <1>4, <1>5 DEF RefundStep

LEMMA PrepareRefundStep ==
    ASSUME IndInv, NEW a \in Admins, PrepareRefund(a)
    PROVE  RefundStep
<1>a. old' = FALSE \/ old' = old
  BY DEF PrepareRefund, RGoto
<1>b. old' \in BOOLEAN
  BY <1>a, OldIsBoolean DEF IndInv, TypeOK
<1>1. RefundTypeOK'
  BY DEF PrepareRefund, RGoto, IndInv, TypeOK, OrderTypeOK, RefundTypeOK, RefundInv
<1>2. RowMove
  BY <1>b DEF PrepareRefund, RGoto, RowMove, IndInv, TypeOK, OrderTypeOK, RefundInv,
              RefundExclusive
<1>3. RefundInv'
  BY <1>1, <1>2 DEF PrepareRefund, RGoto, RowMove, IndInv, TypeOK, RefundTypeOK, OrderInv,
                    CompletedIsGranted, RefundInv, RefundExclusive
<1>4. sighted' => SightedInv'
  BY <1>1, <1>2 DEF PrepareRefund, RGoto, RowMove, IndInv, TypeOK, OrderTypeOK,
                    RefundTypeOK, RefundInv, RefundExclusive, SightedInv, Deducted, Owed,
                    NotRefunded
<1>5. LedgerMove
  BY DEF PrepareRefund, RGoto, LedgerMove, Ledger!LedgerNext, Ledger!ledgerVars,
         Ledger!Deduct, Ledger!Return, Ledger!Refund, Ledger!LoseSight, IndInv, TypeOK,
         OrderTypeOK, RefundTypeOK, OrderInv, CompletedIsGranted, RefundInv,
         RefundExclusive, SightedInv, Deducted, Owed, NotRefunded
<1>. QED
  BY <1>1, <1>2, <1>3, <1>4, <1>5 DEF RefundStep

LEMMA ClaimRefundStep ==
    ASSUME IndInv, NEW a \in Admins, ClaimRefund(a)
    PROVE  RefundStep
<1>a. old' = FALSE \/ old' = old
  BY DEF ClaimRefund, Claimable, Update, RGoto, RReturn, NoPlan
<1>b. old' \in BOOLEAN
  BY <1>a, OldIsBoolean DEF IndInv, TypeOK
<1>c. \/ plan' = plan
      \/ plan' = [plan EXCEPT ![a] = NoPlan]
      \/ plan' = [plan EXCEPT ![a].deduct = FALSE]
  BY DEF ClaimRefund, Claimable, Update, RGoto, RReturn, NoPlan
<1>d. plan' \in [Admins -> [deduct : BOOLEAN, from : Refundable \cup {"none"}]]
  BY <1>c, PlanIsPlan DEF IndInv, TypeOK
<1>1. RefundTypeOK'
  BY <1>d DEF ClaimRefund, Claimable, Update, RGoto, RReturn, NoPlan, IndInv, TypeOK,
              OrderTypeOK, RefundTypeOK, RefundInv
<1>2. RowMove
  BY <1>b DEF ClaimRefund, Claimable, Update, RGoto, RReturn, NoPlan, RowMove, IndInv,
              TypeOK, OrderTypeOK, RefundInv, RefundExclusive
<1>3. RefundInv'
  BY <1>1, <1>2 DEF ClaimRefund, Claimable, Update, RGoto, RReturn, NoPlan, RowMove, IndInv,
                    TypeOK, RefundTypeOK, OrderInv, CompletedIsGranted, RefundInv,
                    RefundExclusive
<1>4. sighted' => SightedInv'
  BY <1>1, <1>2 DEF ClaimRefund, Claimable, Update, RGoto, RReturn, NoPlan, RowMove, IndInv,
                    TypeOK, OrderTypeOK, RefundTypeOK, RefundInv, RefundExclusive,
                    SightedInv, Deducted, Owed, NotRefunded
<1>5. LedgerMove
  BY DEF ClaimRefund, Claimable, Update, RGoto, RReturn, NoPlan, LedgerMove,
         Ledger!LedgerNext, Ledger!ledgerVars, Ledger!Deduct, Ledger!Return, Ledger!Refund,
         Ledger!LoseSight, IndInv, TypeOK, OrderTypeOK, RefundTypeOK, OrderInv,
         CompletedIsGranted, RefundInv, RefundExclusive, SightedInv, Deducted, Owed,
         NotRefunded
<1>. QED
  BY <1>1, <1>2, <1>3, <1>4, <1>5 DEF RefundStep

LEMMA DeductStep ==
    ASSUME IndInv, NEW a \in Admins, Deduct(a)
    PROVE  RefundStep
<1>a. old' = FALSE \/ old' = old
  BY DEF Deduct, Fails, Fault, RGoto
<1>b. old' \in BOOLEAN
  BY <1>a, OldIsBoolean DEF IndInv, TypeOK
<1>c. \/ plan' = plan
      \/ plan' = [plan EXCEPT ![a] = NoPlan]
      \/ plan' = [plan EXCEPT ![a].deduct = FALSE]
  BY DEF Deduct, Fails, Fault, RGoto
<1>d. plan' \in [Admins -> [deduct : BOOLEAN, from : Refundable \cup {"none"}]]
  BY <1>c, PlanIsPlan DEF IndInv, TypeOK
<1>e. sighted' = FALSE \/ sighted' = sighted
  BY DEF Deduct, Fails, Fault, RGoto
<1>f. sighted' \in BOOLEAN /\ (sighted' => sighted)
  BY <1>e, SightedIsBoolean DEF IndInv, TypeOK
<1>1. RefundTypeOK'
  BY <1>d, <1>f DEF Deduct, Fails, Fault, RGoto, IndInv, TypeOK, OrderTypeOK, RefundTypeOK,
                    RefundInv
<1>2. RowMove
  BY <1>b DEF Deduct, Fails, Fault, RGoto, RowMove, IndInv, TypeOK, OrderTypeOK, RefundInv,
              RefundExclusive
<1>3. RefundInv'
  BY <1>1, <1>2 DEF Deduct, Fails, Fault, RGoto, RowMove, IndInv, TypeOK, RefundTypeOK,
                    OrderInv, CompletedIsGranted, RefundInv, RefundExclusive
<1>4. sighted' => SightedInv'
  BY <1>f, <1>1, <1>2 DEF Deduct, Fails, Fault, RGoto, RowMove, IndInv, TypeOK, OrderTypeOK,
                          RefundTypeOK, RefundInv, RefundExclusive, SightedInv, Deducted,
                          Owed, NotRefunded
<1>5. LedgerMove
  <2>1. credited = 1
    BY DEF Deduct, IndInv, OrderInv, CompletedIsGranted, RefundInv, RefundExclusive
  <2>2. sighted /\ "REFUND_ROLLBACK_FAILED" \notin audits => taken = 0 /\ refund # "done"
    BY DEF Deduct, IndInv, SightedInv, Deducted, Owed, NotRefunded
  <2>3. CASE taken' = taken
    BY <2>3, <1>e DEF Deduct, LedgerMove, Ledger!LedgerNext, Ledger!ledgerVars,
                      Ledger!LoseSight
  <2>4. CASE taken' = taken + 1 /\ sighted' = FALSE
    BY <2>1, <2>4 DEF Deduct, LedgerMove, Ledger!LedgerNext, Ledger!Deduct
  <2>5. CASE /\ taken' = taken + 1 /\ sighted' = sighted
             /\ "REFUND_ROLLBACK_FAILED" \notin audits
    BY <2>1, <2>2, <2>5 DEF Deduct, LedgerMove, Ledger!LedgerNext, Ledger!Deduct
  <2>. QED
    BY <2>3, <2>4, <2>5 DEF Deduct
<1>. QED
  BY <1>1, <1>2, <1>3, <1>4, <1>5 DEF RefundStep

LEMMA GwRefundStep ==
    ASSUME IndInv, NEW a \in Admins, GwRefund(a)
    PROVE  RefundStep
<1>a. old' = FALSE \/ old' = old
  BY DEF GwRefund, Fault, RGoto
<1>b. old' \in BOOLEAN
  BY <1>a, OldIsBoolean DEF IndInv, TypeOK
<1>e. sighted' = FALSE \/ sighted' = sighted
  BY DEF GwRefund, Fault, RGoto
<1>f. sighted' \in BOOLEAN /\ (sighted' => sighted)
  BY <1>e, SightedIsBoolean DEF IndInv, TypeOK
<1>1. RefundTypeOK'
  BY <1>f DEF GwRefund, Fault, RGoto, IndInv, TypeOK, OrderTypeOK, RefundTypeOK, RefundInv
<1>2. RowMove
  BY <1>b DEF GwRefund, Fault, RGoto, RowMove, IndInv, TypeOK, OrderTypeOK, RefundInv,
              RefundExclusive
<1>3. RefundInv'
  BY <1>1, <1>2 DEF GwRefund, Fault, RGoto, RowMove, IndInv, TypeOK, RefundTypeOK, OrderInv,
                    CompletedIsGranted, RefundInv, RefundExclusive
<1>g. sighted' /\ rpc'[a] = "rollback" => refund' \notin {"pending", "done"}
  <2>1. CASE refund = "done"
    BY <1>f, <2>1 DEF GwRefund, IndInv, SightedInv, NotRefunded
  <2>2. CASE refund # "done" /\ faults' = faults
    BY <2>2 DEF GwRefund, Fault, RGoto, IndInv, TypeOK, OrderTypeOK, RefundTypeOK
  <2>3. CASE Fault("call") /\ sighted' = (sighted /\ refund' \notin {"pending", "done"})
    BY <2>3, Zenon
  <2>. QED
    BY <2>1, <2>2, <2>3 DEF GwRefund
<1>4. sighted' => SightedInv'
  <2>. SUFFICES ASSUME sighted'
                PROVE  SightedInv'
    OBVIOUS
  <2>1. status' = "REFUNDING" /\ \A b \in Admins \ {a} : rpc'[b] \notin Executing
    BY DEF GwRefund, RGoto, IndInv, TypeOK, RefundTypeOK, RefundInv, RefundExclusive
  <2>2. Deducted(plan[a].deduct)' /\ Deducted(plan[a].deduct)
    BY <1>f DEF GwRefund, IndInv, SightedInv, Deducted, Owed
  <2>3. rpc'[a] \in {"ok", "pending", "rollback"}
    BY DEF GwRefund, RGoto, IndInv, TypeOK, RefundTypeOK
  <2>4. rpc'[a] = "rollback" => NotRefunded'
    BY <1>1, <1>g DEF NotRefunded, RefundTypeOK
  <2>. QED
    BY <2>1, <2>2, <2>3, <2>4 DEF SightedInv
<1>5. LedgerMove
  BY <1>e, <1>f DEF GwRefund, Fault, RGoto, LedgerMove, Ledger!LedgerNext,
                    Ledger!ledgerVars, Ledger!Deduct, Ledger!Return, Ledger!Refund,
                    Ledger!LoseSight, IndInv, TypeOK, OrderTypeOK, RefundTypeOK, OrderInv,
                    CompletedIsGranted, RefundInv, RefundExclusive, SightedInv, Deducted,
                    Owed, NotRefunded
<1>. QED
  BY <1>1, <1>2, <1>3, <1>4, <1>5 DEF RefundStep

LEMMA MarkRefundOkStep ==
    ASSUME IndInv, NEW a \in Admins, MarkRefundOk(a)
    PROVE  RefundStep
<1>a. old' = FALSE \/ old' = old
  BY DEF MarkRefundOk, Update, Fault, RGoto, RReturn, NoPlan
<1>b. old' \in BOOLEAN
  BY <1>a, OldIsBoolean DEF IndInv, TypeOK
<1>1. RefundTypeOK'
  BY DEF MarkRefundOk, Update, Fault, RGoto, RReturn, NoPlan, IndInv, TypeOK, OrderTypeOK,
         RefundTypeOK, RefundInv
<1>2. RowMove
  BY <1>b DEF MarkRefundOk, Update, Fault, RGoto, RReturn, NoPlan, RowMove, IndInv, TypeOK,
              OrderTypeOK, RefundInv, RefundExclusive
<1>3. RefundInv'
  BY <1>1, <1>2 DEF MarkRefundOk, Update, Fault, RGoto, RReturn, NoPlan, RowMove, IndInv,
                    TypeOK, RefundTypeOK, OrderInv, CompletedIsGranted, RefundInv,
                    RefundExclusive
<1>4. sighted' => SightedInv'
  BY <1>1, <1>2 DEF MarkRefundOk, Update, Fault, RGoto, RReturn, NoPlan, RowMove, IndInv,
                    TypeOK, OrderTypeOK, RefundTypeOK, RefundInv, RefundExclusive,
                    SightedInv, Deducted, Owed, NotRefunded
<1>5. LedgerMove
  BY DEF MarkRefundOk, Update, Fault, RGoto, RReturn, NoPlan, LedgerMove, Ledger!LedgerNext,
         Ledger!ledgerVars, Ledger!Deduct, Ledger!Return, Ledger!Refund, Ledger!LoseSight,
         IndInv, TypeOK, OrderTypeOK, RefundTypeOK, OrderInv, CompletedIsGranted, RefundInv,
         RefundExclusive, SightedInv, Deducted, Owed, NotRefunded
<1>. QED
  BY <1>1, <1>2, <1>3, <1>4, <1>5 DEF RefundStep

LEMMA MarkRefundPendingStep ==
    ASSUME IndInv, NEW a \in Admins, MarkRefundPending(a)
    PROVE  RefundStep
<1>a. old' = FALSE \/ old' = old
  BY DEF MarkRefundPending, PendingDetail, Update, Fault, RGoto, RReturn, NoPlan
<1>b. old' \in BOOLEAN
  BY <1>a, OldIsBoolean DEF IndInv, TypeOK
<1>1. RefundTypeOK'
  BY DEF MarkRefundPending, PendingDetail, Update, Fault, RGoto, RReturn, NoPlan, IndInv,
         TypeOK, OrderTypeOK, RefundTypeOK, RefundInv
<1>2. RowMove
  BY <1>b DEF MarkRefundPending, PendingDetail, Update, Fault, RGoto, RReturn, NoPlan,
              RowMove, IndInv, TypeOK, OrderTypeOK, RefundInv, RefundExclusive
<1>3. RefundInv'
  BY <1>1, <1>2 DEF MarkRefundPending, PendingDetail, Update, Fault, RGoto, RReturn, NoPlan,
                    RowMove, IndInv, TypeOK, RefundTypeOK, OrderInv, CompletedIsGranted,
                    RefundInv, RefundExclusive
<1>4. sighted' => SightedInv'
  BY <1>1, <1>2 DEF MarkRefundPending, PendingDetail, Update, Fault, RGoto, RReturn, NoPlan,
                    RowMove, IndInv, TypeOK, OrderTypeOK, RefundTypeOK, RefundInv,
                    RefundExclusive, SightedInv, Deducted, Owed, NotRefunded
<1>5. LedgerMove
  BY DEF MarkRefundPending, PendingDetail, Update, Fault, RGoto, RReturn, NoPlan,
         LedgerMove, Ledger!LedgerNext, Ledger!ledgerVars, Ledger!Deduct, Ledger!Return,
         Ledger!Refund, Ledger!LoseSight, IndInv, TypeOK, OrderTypeOK, RefundTypeOK,
         OrderInv, CompletedIsGranted, RefundInv, RefundExclusive, SightedInv, Deducted,
         Owed, NotRefunded
<1>. QED
  BY <1>1, <1>2, <1>3, <1>4, <1>5 DEF RefundStep

LEMMA RollbackRefundStep ==
    ASSUME IndInv, NEW a \in Admins, RollbackRefund(a)
    PROVE  RefundStep
<1>a. old' = FALSE \/ old' = old
  BY DEF RollbackRefund, Returned, RollbackAudit, Fails, Fault, RGoto
<1>b. old' \in BOOLEAN
  BY <1>a, OldIsBoolean DEF IndInv, TypeOK
<1>c. \/ plan' = plan
      \/ plan' = [plan EXCEPT ![a] = NoPlan]
      \/ plan' = [plan EXCEPT ![a].deduct = FALSE]
  BY DEF RollbackRefund, Returned, RollbackAudit, Fails, Fault, RGoto
<1>d. plan' \in [Admins -> [deduct : BOOLEAN, from : Refundable \cup {"none"}]]
  BY <1>c, PlanIsPlan DEF IndInv, TypeOK
<1>e. sighted' = FALSE \/ sighted' = sighted
  BY DEF RollbackRefund, Returned, RollbackAudit, Fails, Fault, RGoto
<1>f. sighted' \in BOOLEAN /\ (sighted' => sighted)
  BY <1>e, SightedIsBoolean DEF IndInv, TypeOK
<1>g. Returned(a) \in Nat /\ (plan[a].deduct => taken - 1 \in Nat)
  BY DEF Returned, RollbackRefund, IndInv, TypeOK, RefundTypeOK, RefundInv
<1>1. RefundTypeOK'
  BY ZenonT(60), <1>d, <1>f, <1>g DEF RollbackRefund, RollbackAudit, Fails, Fault, RGoto, IndInv,
                          TypeOK, OrderTypeOK, RefundTypeOK
<1>2. RowMove
  BY <1>b DEF RollbackRefund, Returned, RollbackAudit, Fails, Fault, RGoto, RowMove, IndInv,
              TypeOK, OrderTypeOK, RefundInv, RefundExclusive
<1>3. RefundInv'
  BY <1>1, <1>2 DEF RollbackRefund, Returned, RollbackAudit, Fails, Fault, RGoto, RowMove,
                    IndInv, TypeOK, RefundTypeOK, OrderInv, CompletedIsGranted, RefundInv,
                    RefundExclusive
<1>4. sighted' => SightedInv'
  BY SMTT(60), <1>f, <1>1, <1>2 DEF RollbackRefund, Returned, RollbackAudit, Fails, Fault, RGoto,
                          RowMove, IndInv, TypeOK, OrderTypeOK, RefundTypeOK, RefundInv,
                          RefundExclusive, SightedInv, Deducted, Owed, NotRefunded
<1>5. LedgerMove
  BY <1>e, <1>f DEF RollbackRefund, Returned, RollbackAudit, Fails, Fault, RGoto,
                    LedgerMove, Ledger!LedgerNext, Ledger!ledgerVars, Ledger!Deduct,
                    Ledger!Return, Ledger!Refund, Ledger!LoseSight, IndInv, TypeOK,
                    OrderTypeOK, RefundTypeOK, OrderInv, CompletedIsGranted, RefundInv,
                    RefundExclusive, SightedInv, Deducted, Owed, NotRefunded
<1>. QED
  BY <1>1, <1>2, <1>3, <1>4, <1>5 DEF RefundStep

LEMMA RestoreStatusStep ==
    ASSUME IndInv, NEW a \in Admins, RestoreStatus(a)
    PROVE  RefundStep
<1>a. old' = FALSE \/ old' = old
  BY DEF RestoreStatus, Update, Fault, RGoto, RReturn, NoPlan
<1>b. old' \in BOOLEAN
  BY <1>a, OldIsBoolean DEF IndInv, TypeOK
<1>1. RefundTypeOK'
  BY DEF RestoreStatus, Update, Fault, RGoto, RReturn, NoPlan, IndInv, TypeOK, OrderTypeOK,
         RefundTypeOK, RefundInv
<1>2. RowMove
  BY <1>b DEF RestoreStatus, Update, Fault, RGoto, RReturn, NoPlan, RowMove, IndInv, TypeOK,
              OrderTypeOK, RefundInv, RefundExclusive
<1>3. RefundInv'
  BY <1>1, <1>2 DEF RestoreStatus, Update, Fault, RGoto, RReturn, NoPlan, RowMove, IndInv,
                    TypeOK, RefundTypeOK, OrderInv, CompletedIsGranted, RefundInv,
                    RefundExclusive
<1>4. sighted' => SightedInv'
  BY <1>1, <1>2 DEF RestoreStatus, Update, Fault, RGoto, RReturn, NoPlan, RowMove, IndInv,
                    TypeOK, OrderTypeOK, RefundTypeOK, RefundInv, RefundExclusive,
                    SightedInv, Deducted, Owed, NotRefunded
<1>5. LedgerMove
  BY DEF RestoreStatus, Update, Fault, RGoto, RReturn, NoPlan, LedgerMove,
         Ledger!LedgerNext, Ledger!ledgerVars, Ledger!Deduct, Ledger!Return, Ledger!Refund,
         Ledger!LoseSight, IndInv, TypeOK, OrderTypeOK, RefundTypeOK, OrderInv,
         CompletedIsGranted, RefundInv, RefundExclusive, SightedInv, Deducted, Owed,
         NotRefunded
<1>. QED
  BY <1>1, <1>2, <1>3, <1>4, <1>5 DEF RefundStep

LEMMA MarkRefundFailedStep ==
    ASSUME IndInv, NEW a \in Admins, MarkRefundFailed(a)
    PROVE  RefundStep
<1>a. old' = FALSE \/ old' = old
  BY DEF MarkRefundFailed, Update, Fault, RGoto, RReturn, NoPlan
<1>b. old' \in BOOLEAN
  BY <1>a, OldIsBoolean DEF IndInv, TypeOK
<1>1. RefundTypeOK'
  BY DEF MarkRefundFailed, Update, Fault, RGoto, RReturn, NoPlan, IndInv, TypeOK,
         OrderTypeOK, RefundTypeOK, RefundInv
<1>2. RowMove
  BY <1>b DEF MarkRefundFailed, Update, Fault, RGoto, RReturn, NoPlan, RowMove, IndInv,
              TypeOK, OrderTypeOK, RefundInv, RefundExclusive
<1>3. RefundInv'
  BY <1>1, <1>2 DEF MarkRefundFailed, Update, Fault, RGoto, RReturn, NoPlan, RowMove,
                    IndInv, TypeOK, RefundTypeOK, OrderInv, CompletedIsGranted, RefundInv,
                    RefundExclusive
<1>4. sighted' => SightedInv'
  BY <1>1, <1>2 DEF MarkRefundFailed, Update, Fault, RGoto, RReturn, NoPlan, RowMove,
                    IndInv, TypeOK, OrderTypeOK, RefundTypeOK, RefundInv, RefundExclusive,
                    SightedInv, Deducted, Owed, NotRefunded
<1>5. LedgerMove
  BY DEF MarkRefundFailed, Update, Fault, RGoto, RReturn, NoPlan, LedgerMove,
         Ledger!LedgerNext, Ledger!ledgerVars, Ledger!Deduct, Ledger!Return, Ledger!Refund,
         Ledger!LoseSight, IndInv, TypeOK, OrderTypeOK, RefundTypeOK, OrderInv,
         CompletedIsGranted, RefundInv, RefundExclusive, SightedInv, Deducted, Owed,
         NotRefunded
<1>. QED
  BY <1>1, <1>2, <1>3, <1>4, <1>5 DEF RefundStep

LEMMA QueryAndFinalizeRefundStep ==
    ASSUME IndInv, NEW a \in Admins, QueryAndFinalizeRefund(a)
    PROVE  RefundStep
<1>a. old' = FALSE \/ old' = old
  BY DEF QueryAndFinalizeRefund, RGoto
<1>b. old' \in BOOLEAN
  BY <1>a, OldIsBoolean DEF IndInv, TypeOK
<1>1. RefundTypeOK'
  BY DEF QueryAndFinalizeRefund, RGoto, IndInv, TypeOK, OrderTypeOK, RefundTypeOK, RefundInv
<1>2. RowMove
  BY <1>b DEF QueryAndFinalizeRefund, RGoto, RowMove, IndInv, TypeOK, OrderTypeOK,
              RefundInv, RefundExclusive
<1>3. RefundInv'
  BY <1>1, <1>2 DEF QueryAndFinalizeRefund, RGoto, RowMove, IndInv, TypeOK, RefundTypeOK,
                    OrderInv, CompletedIsGranted, RefundInv, RefundExclusive
<1>4. sighted' => SightedInv'
  BY <1>1, <1>2 DEF QueryAndFinalizeRefund, RGoto, RowMove, IndInv, TypeOK, OrderTypeOK,
                    RefundTypeOK, RefundInv, RefundExclusive, SightedInv, Deducted, Owed,
                    NotRefunded
<1>5. LedgerMove
  BY DEF QueryAndFinalizeRefund, RGoto, LedgerMove, Ledger!LedgerNext, Ledger!ledgerVars,
         Ledger!Deduct, Ledger!Return, Ledger!Refund, Ledger!LoseSight, IndInv, TypeOK,
         OrderTypeOK, RefundTypeOK, OrderInv, CompletedIsGranted, RefundInv,
         RefundExclusive, SightedInv, Deducted, Owed, NotRefunded
<1>. QED
  BY <1>1, <1>2, <1>3, <1>4, <1>5 DEF RefundStep

LEMMA QueryRefundStep ==
    ASSUME IndInv, NEW a \in Admins, QueryRefund(a)
    PROVE  RefundStep
<1>a. old' = FALSE \/ old' = old
  BY DEF QueryRefund, Fault, RGoto, RReturn, NoPlan
<1>b. old' \in BOOLEAN
  BY <1>a, OldIsBoolean DEF IndInv, TypeOK
<1>c. \/ plan' = plan
      \/ plan' = [plan EXCEPT ![a] = NoPlan]
      \/ plan' = [plan EXCEPT ![a].deduct = FALSE]
  BY DEF QueryRefund, Fault, RGoto, RReturn, NoPlan
<1>d. plan' \in [Admins -> [deduct : BOOLEAN, from : Refundable \cup {"none"}]]
  BY <1>c, PlanIsPlan DEF IndInv, TypeOK
<1>1. RefundTypeOK'
  BY <1>d DEF QueryRefund, Fault, RGoto, RReturn, NoPlan, IndInv, TypeOK, OrderTypeOK,
              RefundTypeOK, RefundInv
<1>2. RowMove
  BY <1>b DEF QueryRefund, Fault, RGoto, RReturn, NoPlan, RowMove, IndInv, TypeOK,
              OrderTypeOK, RefundInv, RefundExclusive
<1>3. RefundInv'
  BY <1>1, <1>2 DEF QueryRefund, Fault, RGoto, RReturn, NoPlan, RowMove, IndInv, TypeOK,
                    RefundTypeOK, OrderInv, CompletedIsGranted, RefundInv, RefundExclusive
<1>4. sighted' => SightedInv'
  BY <1>1, <1>2 DEF QueryRefund, Fault, RGoto, RReturn, NoPlan, RowMove, IndInv, TypeOK,
                    OrderTypeOK, RefundTypeOK, RefundInv, RefundExclusive, SightedInv,
                    Deducted, Owed, NotRefunded
<1>5. LedgerMove
  BY DEF QueryRefund, Fault, RGoto, RReturn, NoPlan, LedgerMove, Ledger!LedgerNext,
         Ledger!ledgerVars, Ledger!Deduct, Ledger!Return, Ledger!Refund, Ledger!LoseSight,
         IndInv, TypeOK, OrderTypeOK, RefundTypeOK, OrderInv, CompletedIsGranted, RefundInv,
         RefundExclusive, SightedInv, Deducted, Owed, NotRefunded
<1>. QED
  BY <1>1, <1>2, <1>3, <1>4, <1>5 DEF RefundStep

LEMMA FinalizeOkStep ==
    ASSUME IndInv, NEW a \in Admins, FinalizeOk(a)
    PROVE  RefundStep
<1>a. old' = FALSE \/ old' = old
  BY DEF FinalizeOk, Update, Fault, RGoto, RReturn, NoPlan
<1>b. old' \in BOOLEAN
  BY <1>a, OldIsBoolean DEF IndInv, TypeOK
<1>1. RefundTypeOK'
  BY DEF FinalizeOk, Update, Fault, RGoto, RReturn, NoPlan, IndInv, TypeOK, OrderTypeOK,
         RefundTypeOK, RefundInv
<1>2. RowMove
  BY <1>b DEF FinalizeOk, Update, Fault, RGoto, RReturn, NoPlan, RowMove, IndInv, TypeOK,
              OrderTypeOK, RefundInv, RefundExclusive
<1>3. RefundInv'
  BY <1>1, <1>2 DEF FinalizeOk, Update, Fault, RGoto, RReturn, NoPlan, RowMove, IndInv,
                    TypeOK, RefundTypeOK, OrderInv, CompletedIsGranted, RefundInv,
                    RefundExclusive
<1>4. sighted' => SightedInv'
  BY <1>1, <1>2 DEF FinalizeOk, Update, Fault, RGoto, RReturn, NoPlan, RowMove, IndInv,
                    TypeOK, OrderTypeOK, RefundTypeOK, RefundInv, RefundExclusive,
                    SightedInv, Deducted, Owed, NotRefunded
<1>5. LedgerMove
  BY DEF FinalizeOk, Update, Fault, RGoto, RReturn, NoPlan, LedgerMove, Ledger!LedgerNext,
         Ledger!ledgerVars, Ledger!Deduct, Ledger!Return, Ledger!Refund, Ledger!LoseSight,
         IndInv, TypeOK, OrderTypeOK, RefundTypeOK, OrderInv, CompletedIsGranted, RefundInv,
         RefundExclusive, SightedInv, Deducted, Owed, NotRefunded
<1>. QED
  BY <1>1, <1>2, <1>3, <1>4, <1>5 DEF RefundStep

LEMMA FinalizeFailedStep ==
    ASSUME IndInv, NEW a \in Admins, FinalizeFailed(a)
    PROVE  RefundStep
<1>a. old' = FALSE \/ old' = old
  BY DEF FinalizeFailed, Returned, Update, Fails, Fault, RGoto, RReturn, NoPlan
<1>b. old' \in BOOLEAN
  BY <1>a, OldIsBoolean DEF IndInv, TypeOK
<1>c. \/ plan' = plan
      \/ plan' = [plan EXCEPT ![a] = NoPlan]
      \/ plan' = [plan EXCEPT ![a].deduct = FALSE]
  BY DEF FinalizeFailed, Returned, Update, Fails, Fault, RGoto, RReturn, NoPlan
<1>d. plan' \in [Admins -> [deduct : BOOLEAN, from : Refundable \cup {"none"}]]
  BY <1>c, PlanIsPlan DEF IndInv, TypeOK
<1>e. plan[a].deduct = heldDetail
  BY DEF FinalizeFailed, IndInv, RefundInv
<1>f. plan[a].deduct /\ status = "REFUND_PENDING" => taken > 0
  BY <1>e, Zenon DEF IndInv, RefundInv
<1>g. status = "REFUND_PENDING" => Returned(a) \in Nat
  BY <1>f DEF Returned, IndInv, TypeOK, RefundTypeOK
<1>1. RefundTypeOK'
  BY ZenonT(60), <1>d, <1>g DEF FinalizeFailed, Update, Fails, Fault, RGoto, RReturn, NoPlan, IndInv,
                    TypeOK, OrderTypeOK, RefundTypeOK
<1>2. RowMove
  BY <1>b DEF FinalizeFailed, Returned, Update, Fails, Fault, RGoto, RReturn, NoPlan,
              RowMove, IndInv, TypeOK, OrderTypeOK, RefundInv, RefundExclusive
<1>3. RefundInv'
  BY <1>1, <1>2 DEF FinalizeFailed, Returned, Update, Fails, Fault, RGoto, RReturn, NoPlan,
                    RowMove, IndInv, TypeOK, RefundTypeOK, OrderInv, CompletedIsGranted,
                    RefundInv, RefundExclusive
<1>4. sighted' => SightedInv'
  BY <1>1, <1>2 DEF FinalizeFailed, Returned, Update, Fails, Fault, RGoto, RReturn, NoPlan,
                    RowMove, IndInv, TypeOK, OrderTypeOK, RefundTypeOK, RefundInv,
                    RefundExclusive, SightedInv, Deducted, Owed, NotRefunded
<1>5. LedgerMove
  BY DEF FinalizeFailed, Returned, Update, Fails, Fault, RGoto, RReturn, NoPlan, LedgerMove,
         Ledger!LedgerNext, Ledger!ledgerVars, Ledger!Deduct, Ledger!Return, Ledger!Refund,
         Ledger!LoseSight, IndInv, TypeOK, OrderTypeOK, RefundTypeOK, OrderInv,
         CompletedIsGranted, RefundInv, RefundExclusive, SightedInv, Deducted, Owed,
         NotRefunded
<1>. QED
  BY <1>1, <1>2, <1>3, <1>4, <1>5 DEF RefundStep

LEMMA FinalizeUnreturnedStep ==
    ASSUME IndInv, NEW a \in Admins, FinalizeUnreturned(a)
    PROVE  RefundStep
<1>a. old' = FALSE \/ old' = old
  BY DEF FinalizeUnreturned, Update, Fault, RGoto, RReturn, NoPlan
<1>b. old' \in BOOLEAN
  BY <1>a, OldIsBoolean DEF IndInv, TypeOK
<1>1. RefundTypeOK'
  BY DEF FinalizeUnreturned, Update, Fault, RGoto, RReturn, NoPlan, IndInv, TypeOK,
         OrderTypeOK, RefundTypeOK, RefundInv
<1>2. RowMove
  BY <1>b DEF FinalizeUnreturned, Update, Fault, RGoto, RReturn, NoPlan, RowMove, IndInv,
              TypeOK, OrderTypeOK, RefundInv, RefundExclusive
<1>3. RefundInv'
  BY <1>1, <1>2 DEF FinalizeUnreturned, Update, Fault, RGoto, RReturn, NoPlan, RowMove,
                    IndInv, TypeOK, RefundTypeOK, OrderInv, CompletedIsGranted, RefundInv,
                    RefundExclusive
<1>4. sighted' => SightedInv'
  BY <1>1, <1>2 DEF FinalizeUnreturned, Update, Fault, RGoto, RReturn, NoPlan, RowMove,
                    IndInv, TypeOK, OrderTypeOK, RefundTypeOK, RefundInv, RefundExclusive,
                    SightedInv, Deducted, Owed, NotRefunded
<1>5. LedgerMove
  BY DEF FinalizeUnreturned, Update, Fault, RGoto, RReturn, NoPlan, LedgerMove,
         Ledger!LedgerNext, Ledger!ledgerVars, Ledger!Deduct, Ledger!Return, Ledger!Refund,
         Ledger!LoseSight, IndInv, TypeOK, OrderTypeOK, RefundTypeOK, OrderInv,
         CompletedIsGranted, RefundInv, RefundExclusive, SightedInv, Deducted, Owed,
         NotRefunded
<1>. QED
  BY <1>1, <1>2, <1>3, <1>4, <1>5 DEF RefundStep

LEMMA CrashRefundStep ==
    ASSUME IndInv, NEW a \in Admins, CrashRefund(a)
    PROVE  RefundStep
<1>a. old' = FALSE \/ old' = old
  BY DEF CrashRefund, Fault, RGoto, RReturn, NoPlan
<1>b. old' \in BOOLEAN
  BY <1>a, OldIsBoolean DEF IndInv, TypeOK
<1>1. RefundTypeOK'
  BY DEF CrashRefund, Fault, RGoto, RReturn, NoPlan, IndInv, TypeOK, OrderTypeOK,
         RefundTypeOK, RefundInv
<1>2. RowMove
  BY <1>b DEF CrashRefund, Fault, RGoto, RReturn, NoPlan, RowMove, IndInv, TypeOK,
              OrderTypeOK, RefundInv, RefundExclusive
<1>3. RefundInv'
  BY <1>1, <1>2 DEF CrashRefund, Fault, RGoto, RReturn, NoPlan, RowMove, IndInv, TypeOK,
                    RefundTypeOK, OrderInv, CompletedIsGranted, RefundInv, RefundExclusive
<1>4. sighted' => SightedInv'
  BY <1>1, <1>2 DEF CrashRefund, Fault, RGoto, RReturn, NoPlan, RowMove, IndInv, TypeOK,
                    OrderTypeOK, RefundTypeOK, RefundInv, RefundExclusive, SightedInv,
                    Deducted, Owed, NotRefunded
<1>5. LedgerMove
  BY DEF CrashRefund, Fault, RGoto, RReturn, NoPlan, LedgerMove, Ledger!LedgerNext,
         Ledger!ledgerVars, Ledger!Deduct, Ledger!Return, Ledger!Refund, Ledger!LoseSight,
         IndInv, TypeOK, OrderTypeOK, RefundTypeOK, OrderInv, CompletedIsGranted, RefundInv,
         RefundExclusive, SightedInv, Deducted, Owed, NotRefunded
<1>. QED
  BY <1>1, <1>2, <1>3, <1>4, <1>5 DEF RefundStep

\* Every step of RefundNext keeps the refund's part of the invariant, moves
\* only a settled order, and moves the money as the ledger allows.
LEMMA RefundSteps ==
    ASSUME IndInv, RefundNext
    PROVE  RefundStep
  BY RequestRefundStep, GwSettlesStep, PrepareRefundStep, ClaimRefundStep, DeductStep,
     GwRefundStep, MarkRefundOkStep, MarkRefundPendingStep, RollbackRefundStep,
     RestoreStatusStep, MarkRefundFailedStep, QueryAndFinalizeRefundStep, QueryRefundStep,
     FinalizeOkStep, FinalizeFailedStep, FinalizeUnreturnedStep, CrashRefundStep
     DEF RefundNext, Execute, Finalize

-----------------------------------------------------------------------------
(* Together.                                                               *)

\* Steps of handlers keep what the refunds rely on.
LEMMA KeptByOrder ==
    ASSUME IndInv, OrderStep, UNCHANGED refundVars
    PROVE  RefundTypeOK' /\ RefundInv' /\ (sighted' => SightedInv')
<1>. USE DEF refundVars
<1>1. RefundTypeOK'
  BY DEF IndInv, TypeOK, RefundTypeOK
<1>2. RefundExclusive'
  BY DEF IndInv, OrderStep, StatusMove, RefundInv, RefundExclusive
<1>3. credited = 1 => credited' = 1
  BY DEF OrderStep, GrantMove
<1>4. status' = "REFUND_PENDING" => status = "REFUND_PENDING"
  BY DEF OrderStep, StatusMove
<1>5. RefundInv'
  BY <1>2, <1>3, <1>4 DEF IndInv, RefundInv
<1>6. sighted' => SightedInv'
  BY <1>4 DEF IndInv, OrderStep, StatusMove, SightedInv, Deducted, Owed, NotRefunded
<1>. QED
  BY <1>1, <1>5, <1>6

\* Refunds keep what the handlers rely on.
LEMMA KeptByRefund ==
    ASSUME IndInv, RefundStep
    PROVE  OrderTypeOK' /\ OrderInv'
<1>1. OrderTypeOK'
  BY DEF IndInv, TypeOK, OrderTypeOK, RefundStep, RowMove
<1>2. OrderInv'
  BY DEF IndInv, OrderInv, CompletedIsGranted, RefundStep, RowMove
<1>. QED
  BY <1>1, <1>2

LEMMA InitIndInv == Init => IndInv
<1>. SUFFICES ASSUME Init
              PROVE  IndInv
  OBVIOUS
<1>1. TypeOK
  BY DEF Init, OrderInit, RefundInit, TypeOK, OrderTypeOK, RefundTypeOK, NoPlan
<1>2. OrderInv
  BY DEF Init, OrderInit, OrderInv, CompletedIsGranted, Paying
<1>3. RefundInv
  BY DEF Init, OrderInit, RefundInit, RefundInv, RefundExclusive
<1>4. SightedInv
  BY DEF Init, OrderInit, RefundInit, SightedInv, Deducted, Owed, NotRefunded
<1>. QED
  BY <1>1, <1>2, <1>3, <1>4 DEF IndInv

LEMMA NextIndInv == IndInv /\ [Next]_vars => IndInv'
<1>. SUFFICES ASSUME IndInv, [Next]_vars
              PROVE  IndInv'
  OBVIOUS
<1>1. CASE OrderNext /\ UNCHANGED refundVars
  BY <1>1, OrderSteps, KeptByOrder DEF IndInv, TypeOK, OrderStep
<1>2. CASE RefundNext
  BY <1>2, RefundSteps, KeptByRefund DEF IndInv, TypeOK, RefundStep
<1>3. CASE UNCHANGED vars
  <2>1. TypeOK' /\ OrderInv'
    BY <1>3 DEF vars, orderVars, refundVars, IndInv, TypeOK, OrderTypeOK, RefundTypeOK,
                OrderInv,
                CompletedIsGranted
  <2>2. RefundInv' /\ (sighted' => SightedInv')
    BY <1>3 DEF vars, orderVars, refundVars, IndInv, RefundInv, RefundExclusive, SightedInv,
                Deducted, Owed, NotRefunded
  <2>. QED
    BY <2>1, <2>2 DEF IndInv
<1>. QED
  BY <1>1, <1>2, <1>3 DEF Next

\* What holds in every reachable state, for any number of handlers,
\* administrators and faults.
THEOREM Invariance == Safety => []IndInv
  BY InitIndInv, NextIndInv, PTL DEF Safety

\* The statuses, steps, plans and counters stay in range: in particular no
\* rollback or finalization returns a deduction that was not made.
THEOREM TypeCorrect == Safety => []TypeOK
<1>1. IndInv => TypeOK
  BY DEF IndInv
<1>. QED
  BY <1>1, Invariance, PTL

\* A completed order, and one under refund, was paid, granted once and rebated,
\* whichever of several handlers, before or after a crash or a takeover of
\* the fulfilment lease, ran markCompleted.
THEOREM CompletionIsGrant == Safety => []CompletedIsGranted
<1>1. IndInv => CompletedIsGranted
  BY DEF IndInv, OrderInv
<1>. QED
  BY <1>1, Invariance, PTL

\* Between ExecuteRefund's claim and its outcome one request owns the order.
THEOREM RefundsExclude == Safety => []RefundExclusive
<1>1. IndInv => RefundExclusive
  BY DEF IndInv, RefundInv
<1>. QED
  BY <1>1, Invariance, PTL

\* A deduction that is left when an order can be refunded again is on record,
\* unless a reply or an audit entry was lost.
THEOREM DeductionsAccounted == Safety => []DeductionAccounted
<1>1. IndInv => DeductionAccounted
  BY DEF IndInv, SightedInv, Deducted, Owed, DeductionAccounted
<1>. QED
  BY <1>1, Invariance, PTL

\* While a refund is pending, what finalizeRefundFailed would return is what
\* is taken.
THEOREM PendingIsHeld == Safety => []PendingHeld
<1>1. IndInv => PendingHeld
  BY DEF IndInv, SightedInv, Deducted, Owed, PendingHeld
<1>. QED
  BY <1>1, Invariance, PTL

\* Handlers that come late never unsettle an order.
THEOREM SettledForever == Safety => NeverUnsettled
<1>1. IndInv /\ [Next]_vars => [(status \in Settled) => (status' \in Settled)]_vars
  <2>. SUFFICES ASSUME IndInv, [Next]_vars, status \in Settled
                PROVE  status' \in Settled
    OBVIOUS
  <2>1. CASE OrderNext
    BY <2>1, OrderSteps DEF IndInv, TypeOK, OrderStep, StatusMove
  <2>2. CASE RefundNext
    BY <2>2, RefundSteps DEF RefundStep, RowMove
  <2>3. CASE UNCHANGED vars
    BY <2>3 DEF vars, orderVars
  <2>. QED
    BY <2>1, <2>2, <2>3 DEF Next
<1>. QED
  BY <1>1, Invariance, PTL DEF Safety, NeverUnsettled

\* The system of handlers, jobs, leases, retries and refunds implements the
\* ledger: a grant for a payment and once, no second deduction, no return of
\* what the gateway refunded, as long as no movement was hidden.
THEOREM ImplementsLedger == Safety => MoneyMovesByLedger
<1>1. Init => Ledger!LedgerInit
  BY DEF Init, OrderInit, RefundInit, Ledger!LedgerInit
<1>2. IndInv /\ [Next]_vars => [Ledger!LedgerNext]_(Ledger!ledgerVars)
  <2>. SUFFICES ASSUME IndInv, [Next]_vars
                PROVE  LedgerMove
    BY DEF LedgerMove
  <2>1. CASE OrderNext /\ UNCHANGED refundVars
    <3>1. GrantMove /\ UNCHANGED refundVars
      BY <2>1, OrderSteps DEF IndInv, TypeOK, OrderStep
    <3>. QED
      BY <3>1 DEF GrantMove, refundVars, LedgerMove, Ledger!LedgerNext, Ledger!ledgerVars,
                  Ledger!Pay, Ledger!Grant
  <2>2. CASE RefundNext
    BY <2>2, RefundSteps DEF RefundStep
  <2>3. CASE UNCHANGED vars
    BY <2>3 DEF vars, orderVars, refundVars, LedgerMove, Ledger!ledgerVars
  <2>. QED
    BY <2>1, <2>2, <2>3 DEF Next
<1>. QED
  BY <1>1, <1>2, Invariance, PTL DEF Safety, MoneyMovesByLedger, Ledger!LedgerSpec
=============================================================================
