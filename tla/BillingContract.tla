-------------------------- MODULE BillingContract --------------------------
(***************************************************************************)
(* What BillingService promises an instructor about money and credits,     *)
(* whatever requests overlap: a payment is decided once, what it buys is   *)
(* there from the moment it is approved, and each credit that was granted  *)
(* is used once or lost, in whole requests.  Every action is one commit of *)
(* the service; dates, passes and the order in which credits are drained   *)
(* are left to the detailed specification.                                 *)
(***************************************************************************)
EXTENDS Integers, FiniteSetsExt

CONSTANTS PassPayments, PackPayments, GrantPayments, PassCredits, PackCredits, UseAmounts

Payments == PassPayments \cup PackPayments \cup GrantPayments

VARIABLES
    status,    \* of each payment
    granted,   \* credits of its bucket when it was made
    available, \* credits that are left there
    used       \* credits consumeCredits took from it

contractVars == <<status, granted, available, used>>

Init ==
    /\ status = [p \in Payments |-> "NONE"]
    /\ granted = [p \in Payments |-> 0]
    /\ available = [p \in Payments |-> 0]
    /\ used = [p \in Payments |-> 0]

Order(p) ==
    /\ status[p] = "NONE" /\ p \notin GrantPayments
    /\ status' = [status EXCEPT ![p] = "PENDING_DEPOSIT"]
    /\ UNCHANGED <<granted, available, used>>

Decline(p, verdict) ==
    /\ status[p] = "PENDING_DEPOSIT"
    /\ status' = [status EXCEPT ![p] = verdict]
    /\ UNCHANGED <<granted, available, used>>

\* The payment's credits appear with the approval; those of a pass only if its first month
\* begins at once.
Approve(p, credits) ==
    /\ status[p] = IF p \in GrantPayments THEN "NONE" ELSE "PENDING_DEPOSIT"
    /\ credits \in (IF p \in PassPayments THEN {0, PassCredits} ELSE {PackCredits})
    /\ status' = [status EXCEPT ![p] = "APPROVED"]
    /\ granted' = [granted EXCEPT ![p] = credits]
    /\ available' = [available EXCEPT ![p] = credits]
    /\ UNCHANGED used

\* A request for credits gets the whole amount or nothing, from what was available.
Use(take) ==
    /\ MapThenSumSet(LAMBDA p : take[p], Payments) \in UseAmounts
    /\ \A p \in Payments : take[p] <= available[p]
    /\ available' = [p \in Payments |-> available[p] - take[p]]
    /\ used' = [p \in Payments |-> used[p] + take[p]]
    /\ UNCHANGED <<status, granted>>

\* A reconcile or a refund: credits of `lost` expire or are taken back, and the included
\* credits of `begun` passes, granted once, appear.
Settle(lost, begun) ==
    /\ \A p \in begun : p \in PassPayments /\ status[p] = "APPROVED" /\ granted[p] = 0
    /\ granted' = [p \in Payments |-> IF p \in begun THEN PassCredits ELSE granted[p]]
    /\ available' = [p \in Payments |-> IF p \in lost THEN 0
                                        ELSE IF p \in begun THEN PassCredits ELSE available[p]]
    /\ UNCHANGED <<status, used>>

Next ==
    \/ \E p \in Payments : Order(p)
    \/ \E p \in Payments, verdict \in {"REJECTED", "CANCELED"} : Decline(p, verdict)
    \/ \E p \in Payments, credits \in {0, PassCredits, PackCredits} : Approve(p, credits)
    \/ \E take \in [Payments -> 0..(PassCredits + PackCredits)] : Use(take)
    \/ \E lost, begun \in SUBSET Payments : Settle(lost, begun)

Spec == Init /\ [][Next]_contractVars
=============================================================================
