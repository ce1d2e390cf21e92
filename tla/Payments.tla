------------------------------ MODULE Payments ------------------------------
(***************************************************************************)
(* One order with everything that works on it: creation, notifications,    *)
(* jobs and fulfilments (PaymentOrder), and refunds (PaymentRefund).  Both *)
(* write the same status, some of them without a guard.                    *)
(***************************************************************************)
EXTENDS PaymentRefund

vars == <<orderVars, refundVars>>

Init == OrderInit /\ RefundInit

Next == (OrderNext /\ UNCHANGED refundVars) \/ RefundNext

\* A handler that has begun goes on; the gateway repeats its notification
\* until it is answered; time passes.
Fairness ==
    /\ \A h \in Handlers : WF_vars(Continue(h) /\ UNCHANGED refundVars)
    /\ SF_vars(\E h \in Handlers : Webhook(h) /\ UNCHANGED refundVars)
    /\ WF_vars(Age /\ UNCHANGED refundVars)

Safety == Init /\ [][Next]_vars
Spec == Safety /\ Fairness

TypeOK == OrderTypeOK /\ RefundTypeOK

-----------------------------------------------------------------------------

\* The money of an order moves as the ledger says, whatever callbacks, jobs,
\* takeovers of the fulfilment lease, refund attempts and faults interleave.
Ledger == INSTANCE PaymentLedger
            WITH paid <- gateway = "paid", refunded <- refund = "done"
MoneyMovesByLedger == Ledger!LedgerSpec

\* markCompleted is reached only after the credit and the rebate, also by a
\* handler that took over a lease or found a code of an earlier attempt; and
\* no refund begins before.
CompletedIsGranted ==
    status \in Settled => credited = 1 /\ rebated /\ gateway = "paid"

\* A settled order never becomes payable, cancelled, failed or recharging
\* again: late cancellations, failures of superseded handlers and repeated
\* notifications leave it alone.
NeverUnsettled == [][(status \in Settled) => (status' \in Settled)]_vars

\* ExecuteRefund's claim admits one request between claim and outcome, and
\* nothing else moves the order meanwhile: the unguarded UPDATEs of
\* markRefundOk, restoreStatus and handleGwFail hit the status they mean.
RefundExclusive ==
    \A a \in Admins : rpc[a] \in Executing =>
        /\ status = "REFUNDING"
        /\ \A b \in Admins \ {a} : rpc[b] \notin Executing

\* A deduction left over by an attempt that ended is on record before the next
\* attempt can start, so that ExecuteRefund does not deduct again.
DeductionAccounted ==
    sighted /\ status \in Refundable /\ taken > 0 => "REFUND_ROLLBACK_FAILED" \in audits

\* While a refund is pending the deduction is in place exactly when the
\* entry, or that of an earlier failed rollback, says so: finalizeRefundFailed
\* returns what was taken and no more.
PendingHeld ==
    sighted /\ status = "REFUND_PENDING" =>
        /\ taken = IF heldDetail \/ "REFUND_ROLLBACK_FAILED" \in audits THEN 1 ELSE 0
        /\ ~(heldDetail /\ "REFUND_ROLLBACK_FAILED" \in audits)

\* What the gateway has been paid is fulfilled in the end, through crashes,
\* failing calls and stale leases, unless the service told the gateway to
\* stop notifying (an order past its grace period, or a failed read).
PaidOrderCompletes ==
    gateway = "paid" ~> (status \in Settled \/ answer = "dropped")

\* markRefundPending: "the status and the audit entry are written in one
\* transaction, so that the finalization finds the deduction that is kept";
\* a refund that is pending at the gateway can be finalized.
PendingRefundsTracked ==
    refund = "pending" /\ (\A a \in Admins : rpc[a] = "idle") => status = "REFUND_PENDING"

-----------------------------------------------------------------------------
(* The inductive invariants behind them: what the order's handlers keep,   *)
(* and where the money is at every step of a refund.                       *)

\* The steps of a handler that has seen the payment confirmed.
Paying == {"topaid", "already", "read", "acquire", "reload"} \cup Crediting

OrderInv ==
    /\ credited = IF grant = "used" THEN 1 ELSE 0
    /\ kind = "subscription" => grant # "unused"
    /\ paidAt => gateway = "paid"
    /\ creation \in {"none", "invoking"} => status \in Unpaid /\ gateway = "none"
    /\ CompletedIsGranted
    /\ \A h \in Handlers :
        /\ pc[h] \in Paying => gateway = "paid"
        /\ pc[h] \in {"create", "redeem"} => kind = "balance"
        /\ pc[h] \in {"rebate", "complete"} => grant = "used"
        /\ pc[h] = "complete" => rebated

\* The deduction that an earlier attempt could not return.
Owed == IF "REFUND_ROLLBACK_FAILED" \in audits THEN 1 ELSE 0

\* A deduction d beyond it is in place; there is not more than one.
Deducted(d) == taken = Owed + (IF d THEN 1 ELSE 0) /\ ~(d /\ Owed = 1)

NotRefunded == refund \in {"none", "failed"}

\* Whether the program saw every movement or not.
RefundInv ==
    /\ RefundExclusive
    /\ refund # "none" => credited = 1
    /\ status = "REFUND_PENDING" =>
        "REFUND_PENDING" \in audits /\ (heldDetail => taken > 0)
    /\ \A a \in Admins :
        /\ rpc[a] \in {"gateway", "pending", "rollback"} /\ plan[a].deduct => taken > 0
        /\ rpc[a] \in Finalizing => "REFUND_PENDING" \in audits /\ plan[a].deduct = heldDetail
        /\ rpc[a] = "unreturned" => plan[a].deduct
        /\ rpc[a] \in {"finalFailed", "unreturned"} /\ status = "REFUND_PENDING" =>
            refund = "failed"

\* As long as it did.
SightedInv ==
    /\ status \notin Settled \ Refundable => Deducted(FALSE) /\ NotRefunded
    /\ status = "REFUND_PENDING" => Deducted(heldDetail)
    /\ \A a \in Admins :
        /\ rpc[a] \in {"deduct", "restore", "failed"} => Deducted(FALSE) /\ NotRefunded
        /\ rpc[a] \in {"gateway", "rollback"} => Deducted(plan[a].deduct) /\ NotRefunded
        /\ rpc[a] = "pending" => Deducted(plan[a].deduct)

IndInv == TypeOK /\ OrderInv /\ RefundInv /\ (sighted => SightedInv)
=============================================================================
