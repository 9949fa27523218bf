---------------------------- MODULE BillingViews ----------------------------
(***************************************************************************)
(* What BillingService answers about the rows of Billing: the revocations  *)
(* and the estimated refund that formatPayment adds to a payment, the      *)
(* credits of a pack, and the access that an active pass opens.            *)
(***************************************************************************)
EXTENDS Billing

CONSTANT Price   \* totalPrice of every item

ASSUME PriceAssumption == Price \in Nat

RevokedPasses(p) == {e \in PassIds : e[1] = p /\ pass[e].revoked > 0}
PassesOf(p, status) == {e \in PassIds : e[1] = p /\ pass[e].status = status}

\* getCreditBucketRevocationSummary: what is neither there nor taken back counts as used.
UsedCredits(p) ==
    LET b == bucket[p]
        used == b.granted - b.remaining - b.adjusted IN
    IF used < 0 THEN 0 ELSE used

\* hasRevocation, which counts canceled passes of a pass and credits of a pack.
ShowsRevocation(p) == IF p \in PassPayments THEN RevokedPasses(p) # {} ELSE bucket[p].adjusted > 0

\* maxRevocableCount of a pass; a pack is rechargeRevocable or not.
Revocable(p) ==
    IF p \in PassPayments
    THEN Cardinality(PassesOf(p, "QUEUED")) + (IF PassesOf(p, "ACTIVE") = {} THEN 0 ELSE 1)
    ELSE IF bucket[p].status = "ACTIVE" /\ bucket[p].remaining > 0 THEN 1 ELSE 0

\* calculatePaymentItemEstimatedRefund; the empty set is its null.
EstimatePerRevoked(p) ==
    IF RevokedPasses(p) = {} THEN {}
    ELSE {(Price * MapThenSumSet(LAMBDA e : pass[e].weight, RevokedPasses(p)))
            \div (Cardinality(RevokedPasses(p)) * Whole)}
EstimatedRefund(p) ==
    IF p \in PassPayments
    THEN IF RevokedPasses(p) = {} THEN {}
         ELSE {(Price * MapThenSumSet(LAMBDA e : pass[e].weight, RevokedPasses(p))) \div (PassCount * Whole)}
    ELSE IF bucket[p].adjusted = 0 THEN {}
         ELSE {(Price * bucket[p].adjusted) \div bucket[p].granted}

\* canAccess of loadInstructorBillingContext, by which createRequireActiveInstructorEntitlement lets a
\* request through, and what getSessionActiveEntitlement makes of it.
CanAccess == \E e \in PassIds : pass[e].status = "ACTIVE"
DepositAwaited == \E p \in PassPayments : payment[p].status = "PENDING_DEPOSIT"
SessionShows == IF CanAccess THEN "ACTIVE" ELSE IF DepositAwaited THEN "PENDING_DEPOSIT" ELSE "none"

(***************************************************************************)
(* Properties.                                                             *)
(***************************************************************************)

\* What a payment says of its refund fits what happened to it: it shows a revocation exactly when the
\* next refund request would find one, it can be revoked further exactly when such a request would find
\* something to revoke, and the estimate never pays for a month that was not taken back nor for credits
\* that were spent, or that lapsed (buildPaymentItemRevocationSummary, calculatePaymentItemEstimatedRefund).
RefundFitsUse == \A p \in Payments :
    LET b == bucket[p] IN
    /\ ShowsRevocation(p) <=> HasRevocation(p)
    /\ p \in PassPayments => \A n \in 1..PassCount : RefundChoices(RefundTargets(p), n) # {} <=> n <= Revocable(p)
    /\ p \notin PassPayments => UsedCredits(p) = b.used + b.expired
    /\ \A amount \in EstimatedRefund(p) :
         IF p \in PassPayments
         THEN amount >= 0 /\ amount * PassCount <= Price * Cardinality(PassesOf(p, "CANCELED"))
         ELSE amount * b.granted + Price * UsedCredits(p) <= Price * b.granted

\* Whoever reconciles is let in exactly when a pass that was bought and not taken back covers the moment
\* of the request, and is shown that a deposit is awaited only when no such pass does, however long
\* nobody looked at the passes before (reconcileInstructorState, assertMgmtAccess, getSessionActiveEntitlement).
AccessFollowsPass == [][\A r \in Requests :
    CloseReconcile(r) =>
      (SessionShows' = "ACTIVE" <=>
         \E e \in PassIds : pass'[e].status \notin {"NONE", "CANCELED"} /\ Covers(pass'[e], req[r].at))]_vars
=============================================================================
