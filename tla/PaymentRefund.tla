--------------------------- MODULE PaymentRefund ----------------------------
(***************************************************************************)
(* The refund of a fulfilled order, service/payment_refund.go: the user's  *)
(* request, an administrator's PrepareRefund and ExecuteRefund, and        *)
(* QueryAndFinalizeRefund for a refund the gateway left pending.  The      *)
(* granted balance or days are taken back before the gateway is asked, and *)
(* returned when it refuses.                                               *)
(*                                                                         *)
(* payment_audit_logs has a unique index on order and action (migration    *)
(* 131): an order has one entry per action, and a transaction that writes  *)
(* a second one fails as a whole.  "REFUNDED" also stands for              *)
(* PARTIALLY_REFUNDED.  Left out: REFUND_PENDING orders of releases that   *)
(* kept no deduction, and orders without a trade number.                   *)
(***************************************************************************)
EXTENDS PaymentOrder

CONSTANT Admins   \* concurrent refund requests of administrators

ASSUME RefundAssumption == IsFiniteSet(Admins)

VARIABLES
    rpc,         \* rpc[a]: the step of a refund request
    plan,        \* plan[a]: what it deducts, and the status PrepareRefund read
    audits,      \* the entries of payment_audit_logs that matter
    heldDetail,  \* the REFUND_PENDING entry records a deduction
    taken,       \* deductions not returned
    refund,      \* the refund at the gateway
    sighted      \* no lost reply or audit entry hid a movement of money

refundVars == <<rpc, plan, audits, heldDetail, taken, refund, sighted>>

Refundable == {"COMPLETED", "REFUND_REQUESTED", "REFUND_FAILED"}

Executing == {"deduct", "gateway", "ok", "pending", "rollback", "restore", "failed"}
Finalizing == {"query", "finalOk", "finalFailed", "unreturned"}

NoPlan == [deduct |-> FALSE, from |-> "none"]

RefundTypeOK ==
    /\ rpc \in [Admins -> {"idle", "execute"} \cup Executing \cup Finalizing]
    /\ plan \in [Admins -> [deduct : BOOLEAN, from : Refundable \cup {"none"}]]
    /\ audits \subseteq {"REFUND_PENDING", "REFUND_FAILED", "REFUND_ROLLBACK_FAILED"}
    /\ heldDetail \in BOOLEAN
    /\ taken \in Nat
    /\ refund \in {"none", "pending", "done", "failed"}
    /\ sighted \in BOOLEAN

-----------------------------------------------------------------------------
(* Steps.                                                                  *)

unmoved == <<kind, paidAt, creation, gateway, answer, grant, credited, rebated, pc, via, goal>>

RGoto(a, l) == rpc' = [rpc EXCEPT ![a] = l]

RReturn(a) ==
    /\ RGoto(a, "idle")
    /\ plan' = [plan EXCEPT ![a] = NoPlan]

\* The call fails: because of a fault, or (a subscription that is expired, or
\* was revoked by the deduction) because the service refuses.
Fails == Fault("call") \/ (kind = "subscription" /\ UNCHANGED faults)

-----------------------------------------------------------------------------
(* Request and execution.                                                  *)

\* RequestRefund: the user asks, for balance orders only.
RequestRefund ==
    /\ status = "COMPLETED" /\ kind = "balance"
    /\ Update("REFUND_REQUESTED")
    /\ UNCHANGED <<unmoved, refundVars, faults>>

\* PrepareRefund and prepDeduct; there may be nothing to deduct.
PrepareRefund(a) ==
    /\ rpc[a] = "idle"
    /\ status \in Refundable
    /\ \E d \in BOOLEAN : plan' = [plan EXCEPT ![a] = [deduct |-> d, from |-> status]]
    /\ RGoto(a, "execute")
    /\ UNCHANGED <<unmoved, row, audits, heldDetail, taken, refund, sighted, faults>>

ClaimableWhileRefunding(st) == st \in Refundable \cup {"REFUNDING"}
Claimable(st) == st \in Refundable

\* ExecuteRefund: the first statement.
ClaimRefund(a) ==
    /\ rpc[a] = "execute"
    /\ \/ Claimable(status) /\ Update("REFUNDING") /\ RGoto(a, "deduct") /\ UNCHANGED plan
       \/ ~Claimable(status) /\ RReturn(a) /\ UNCHANGED row
    /\ UNCHANGED <<unmoved, audits, heldDetail, taken, refund, sighted, faults>>

\* ExecuteRefund: the deduction.  An entry REFUND_ROLLBACK_FAILED says that
\* an earlier one was not returned; a failed read of it counts as none.
Deduct(a) ==
    /\ rpc[a] = "deduct"
    /\ LET unreturned == "REFUND_ROLLBACK_FAILED" \in audits IN
       \/ /\ plan[a].deduct /\ ~unreturned
          /\ RGoto(a, "gateway")
          /\ taken' = taken + 1
          /\ UNCHANGED <<plan, sighted, faults>>
       \/ /\ plan[a].deduct => unreturned \/ kind = "balance"
          /\ RGoto(a, "gateway")
          /\ plan' = [plan EXCEPT ![a].deduct = FALSE]
          /\ UNCHANGED <<taken, sighted, faults>>
       \/ /\ plan[a].deduct /\ ~unreturned
          /\ Fails
          /\ RGoto(a, "restore")
          /\ UNCHANGED <<plan, taken, sighted>>
       \/ /\ plan[a].deduct /\ ~unreturned
          /\ Fault("call")
          /\ RGoto(a, "restore")
          /\ taken' = taken + 1
          /\ sighted' = FALSE
          /\ UNCHANGED plan
       \/ /\ plan[a].deduct /\ unreturned
          /\ Fault("audit")
          /\ RGoto(a, "gateway")
          /\ taken' = taken + 1
          /\ sighted' = FALSE
          /\ UNCHANGED plan
    /\ UNCHANGED <<unmoved, row, audits, heldDetail, refund>>

\* gwRefund and the dispatch of finishRefund; the reply may be lost.
GwRefund(a) ==
    /\ rpc[a] = "gateway"
    /\ \/ /\ refund # "done"
          /\ \/ refund' = "done" /\ RGoto(a, "ok")
             \/ refund' = "pending" /\ RGoto(a, "pending")
             \/ refund' = "failed" /\ RGoto(a, "rollback")
          /\ UNCHANGED <<sighted, faults>>
       \/ /\ refund = "done"
          /\ RGoto(a, "ok") \/ RGoto(a, "rollback")
          /\ UNCHANGED <<refund, sighted, faults>>
       \/ /\ Fault("call")
          /\ refund' \in IF refund = "done" THEN {"done"} ELSE {refund, "pending", "done"}
          /\ sighted' = (sighted /\ refund' \notin {"pending", "done"})
          /\ RGoto(a, "rollback")
    /\ UNCHANGED <<unmoved, row, plan, audits, heldDetail, taken>>

\* markRefundOk; when its UPDATE fails the order stays REFUNDING.
MarkRefundOk(a) ==
    /\ rpc[a] = "ok"
    /\ \/ Update("REFUNDED") /\ UNCHANGED faults
       \/ Fault("call") /\ UNCHANGED row
    /\ RReturn(a)
    /\ UNCHANGED <<unmoved, audits, heldDetail, taken, refund, sighted>>

PendingForgetsDeduction(a) == FALSE
PendingDetail(a) == plan[a].deduct

\* markRefundPending: status and entry in one transaction.
MarkRefundPending(a) ==
    /\ rpc[a] = "pending"
    /\ \/ /\ "REFUND_PENDING" \notin audits
          /\ Update("REFUND_PENDING")
          /\ audits' = audits \cup {"REFUND_PENDING"}
          /\ heldDetail' = PendingDetail(a)
          /\ UNCHANGED faults
       \/ /\ ("REFUND_PENDING" \in audits /\ UNCHANGED faults) \/ Fault("call")
          /\ UNCHANGED <<row, audits, heldDetail>>
    /\ RReturn(a)
    /\ UNCHANGED <<unmoved, taken, refund, sighted>>

Returned(a) == IF plan[a].deduct THEN taken - 1 ELSE taken

RollbackAuditForgotten == audits
RollbackAudit == audits \cup {"REFUND_ROLLBACK_FAILED"}

\* RollbackRefund: a deduction that cannot be returned is written to the audit
\* log, at best.
RollbackRefund(a) ==
    /\ rpc[a] = "rollback"
    /\ \/ /\ RGoto(a, "restore")
          /\ taken' = Returned(a)
          /\ UNCHANGED <<audits, sighted, faults>>
       \/ /\ plan[a].deduct
          /\ Fails
          /\ RGoto(a, "failed")
          /\ audits' = RollbackAudit
          /\ UNCHANGED <<taken, sighted>>
       \/ /\ plan[a].deduct
          /\ Fault("call")
          /\ RGoto(a, "failed")
          /\ audits' = RollbackAudit
          /\ taken' = taken - 1
          /\ sighted' = FALSE
       \/ /\ plan[a].deduct
          /\ Fault("audit")
          /\ RGoto(a, "failed")
          /\ sighted' = FALSE
          /\ UNCHANGED <<audits, taken>>
    /\ UNCHANGED <<unmoved, row, plan, heldDetail, refund>>

\* restoreStatus: an unguarded UPDATE to the status that was planned from.
RestoreStatus(a) ==
    /\ rpc[a] = "restore"
    /\ \/ /\ Update(IF plan[a].from = "REFUND_REQUESTED" THEN "REFUND_REQUESTED" ELSE "COMPLETED")
          /\ UNCHANGED faults
       \/ Fault("call") /\ UNCHANGED row
    /\ RReturn(a)
    /\ UNCHANGED <<unmoved, audits, heldDetail, taken, refund, sighted>>

\* handleGwFail after a failed rollback; the entry is written if it can be.
MarkRefundFailed(a) ==
    /\ rpc[a] = "failed"
    /\ LET entry == audits \cup {"REFUND_FAILED"} IN
       \/ Update("REFUND_FAILED") /\ audits' = entry /\ UNCHANGED faults
       \/ Update("REFUND_FAILED") /\ UNCHANGED audits /\ Fault("audit")
       \/ UNCHANGED row /\ audits' = entry /\ Fault("call")
    /\ RReturn(a)
    /\ UNCHANGED <<unmoved, heldDetail, taken, refund, sighted>>

-----------------------------------------------------------------------------
(* Finalization of a pending refund.                                       *)

\* QueryAndFinalizeRefund: order and latestRefundPendingDetail are read.
QueryAndFinalizeRefund(a) ==
    /\ rpc[a] = "idle"
    /\ status = "REFUND_PENDING"
    /\ plan' = [plan EXCEPT ![a].deduct = heldDetail]
    /\ RGoto(a, "query")
    /\ UNCHANGED <<unmoved, row, audits, heldDetail, taken, refund, sighted, faults>>

\* The gateway decides.
GwSettles ==
    /\ refund = "pending"
    /\ refund' \in {"done", "failed"}
    /\ UNCHANGED <<unmoved, row, faults, rpc, plan, audits, heldDetail, taken, sighted>>

\* QueryRefund and the dispatch on its answer.
QueryRefund(a) ==
    /\ rpc[a] = "query"
    /\ \/ /\ refund \in {"done", "failed"}
          /\ RGoto(a, IF refund = "done" THEN "finalOk" ELSE "finalFailed")
          /\ UNCHANGED <<plan, faults>>
       \/ refund = "pending" /\ RReturn(a) /\ UNCHANGED faults
       \/ Fault("call") /\ RReturn(a)
    /\ UNCHANGED <<unmoved, row, audits, heldDetail, taken, refund, sighted>>

\* finalizePendingRefundSuccess; the deduction was made before.
FinalizeOk(a) ==
    /\ rpc[a] = "finalOk"
    /\ \/ status = "REFUND_PENDING" /\ Update("REFUNDED") /\ UNCHANGED faults
       \/ status # "REFUND_PENDING" /\ UNCHANGED <<row, faults>>
       \/ Fault("call") /\ UNCHANGED row
    /\ RReturn(a)
    /\ UNCHANGED <<unmoved, audits, heldDetail, taken, refund, sighted>>

\* finalizeRefundFailedTx without a rollback error: status, return of the
\* deduction and entry in one transaction.
FinalizeFailed(a) ==
    /\ rpc[a] = "finalFailed"
    /\ \/ /\ status = "REFUND_PENDING" /\ "REFUND_FAILED" \notin audits
          /\ Update("REFUND_FAILED")
          /\ taken' = Returned(a)
          /\ audits' = audits \cup {"REFUND_FAILED"}
          /\ RReturn(a) /\ UNCHANGED faults
       \/ /\ \/ (status # "REFUND_PENDING" \/ "REFUND_FAILED" \in audits) /\ UNCHANGED faults
             \/ Fault("call")
          /\ RReturn(a)
          /\ UNCHANGED <<row, taken, audits>>
       \/ /\ status = "REFUND_PENDING" /\ plan[a].deduct
          /\ Fails
          /\ RGoto(a, "unreturned")
          /\ UNCHANGED <<row, plan, taken, audits>>
    /\ UNCHANGED <<unmoved, heldDetail, refund, sighted>>

\* finalizeRefundFailedTx again, with the error of the return.
FinalizeUnreturned(a) ==
    /\ rpc[a] = "unreturned"
    /\ LET entries == {"REFUND_ROLLBACK_FAILED", "REFUND_FAILED"} IN
       \/ /\ status = "REFUND_PENDING" /\ entries \cap audits = {}
          /\ Update("REFUND_FAILED")
          /\ audits' = audits \cup entries
          /\ UNCHANGED faults
       \/ /\ \/ (status # "REFUND_PENDING" \/ entries \cap audits # {}) /\ UNCHANGED faults
             \/ Fault("call")
          /\ UNCHANGED <<row, audits>>
    /\ RReturn(a)
    /\ UNCHANGED <<unmoved, heldDetail, taken, refund, sighted>>

\* The instance dies, or the administrator's request is cancelled.
CrashRefund(a) ==
    /\ Fault("crash")
    /\ rpc[a] # "idle"
    /\ RReturn(a)
    /\ UNCHANGED <<unmoved, row, audits, heldDetail, taken, refund, sighted>>

-----------------------------------------------------------------------------

RefundInit ==
    /\ rpc = [a \in Admins |-> "idle"]
    /\ plan = [a \in Admins |-> NoPlan]
    /\ audits = {} /\ heldDetail = FALSE /\ taken = 0
    /\ refund = "none" /\ sighted = TRUE

Execute(a) ==
    \/ ClaimRefund(a) \/ Deduct(a) \/ GwRefund(a) \/ MarkRefundOk(a) \/ MarkRefundPending(a)
    \/ RollbackRefund(a) \/ RestoreStatus(a) \/ MarkRefundFailed(a)

Finalize(a) ==
    \/ QueryRefund(a) \/ FinalizeOk(a) \/ FinalizeFailed(a) \/ FinalizeUnreturned(a)

RefundNext ==
    \/ RequestRefund \/ GwSettles
    \/ \E a \in Admins : \/ PrepareRefund(a) \/ Execute(a)
                         \/ QueryAndFinalizeRefund(a) \/ Finalize(a) \/ CrashRefund(a)
=============================================================================
