---------------------------- MODULE PaymentLedger ---------------------------
(***************************************************************************)
(* What the payment service promises about the money of one order, without *)
(* statuses, leases or retries: what was bought is granted at most once    *)
(* and only for a payment; a deduction is not made twice, and is not       *)
(* returned for a payment the gateway gave back.  Only a movement that the *)
(* program could not see (a lost reply, a lost audit entry) ends the last  *)
(* two promises.                                                           *)
(***************************************************************************)
EXTENDS Naturals

VARIABLES
    paid,      \* the gateway has the money, in the right amount
    credited,  \* grants
    taken,     \* deductions not returned
    refunded,  \* the gateway gave the money back
    sighted    \* the program saw every movement

ledgerVars == <<paid, credited, taken, refunded, sighted>>

LedgerInit ==
    /\ paid = FALSE /\ refunded = FALSE
    /\ credited = 0 /\ taken = 0
    /\ sighted = TRUE

Pay ==
    /\ paid' = TRUE
    /\ UNCHANGED <<credited, taken, refunded, sighted>>

Grant ==
    /\ paid /\ credited = 0
    /\ credited' = 1
    /\ UNCHANGED <<paid, taken, refunded, sighted>>

Deduct ==
    /\ credited = 1
    /\ sighted' \in {sighted, FALSE}
    /\ sighted' => taken = 0 /\ ~refunded
    /\ taken' = taken + 1
    /\ UNCHANGED <<paid, credited, refunded>>

Return ==
    /\ sighted' \in {sighted, FALSE}
    /\ taken > 0
    /\ sighted' => ~refunded
    /\ taken' = taken - 1
    /\ UNCHANGED <<paid, credited, refunded>>

Refund ==
    /\ credited = 1
    /\ refunded' = TRUE
    /\ sighted' \in {sighted, FALSE}
    /\ UNCHANGED <<paid, credited, taken>>

LoseSight ==
    /\ sighted' = FALSE
    /\ UNCHANGED <<paid, credited, taken, refunded>>

LedgerNext == Pay \/ Grant \/ Deduct \/ Return \/ Refund \/ LoseSight

LedgerSpec == LedgerInit /\ [][LedgerNext]_ledgerVars
=============================================================================
