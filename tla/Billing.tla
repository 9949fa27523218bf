------------------------------ MODULE Billing ------------------------------
(***************************************************************************)
(* Payments, monthly passes (entitlements) and credits of ONE instructor,  *)
(* as BillingService keeps them in PostgreSQL.                             *)
(*                                                                         *)
(* A request is a handler of BillingService.  It runs one or two database  *)
(* transactions, and all of them but the one of consumeCredits run at      *)
(* READ COMMITTED: a read sees what is committed at that moment plus the   *)
(* transaction's own writes, an UPDATE or INSERT takes the row's lock and  *)
(* waits for another transaction that holds it, and a commit publishes all *)
(* the writes at once.  One action here is a maximal run of writes, the    *)
(* reads that follow them up to the next write, and the commit if it comes *)
(* next: taking a lock commutes to the right over other requests' steps,   *)
(* so splitting an action at any other place gives no new behaviour.       *)
(*                                                                         *)
(* consumeCredits runs SERIALIZABLE: it spends from the snapshot it read   *)
(* and fails with P2034 on a row another transaction changed since.        *)
(***************************************************************************)
EXTENDS Integers, FiniteSets, FiniteSetsExt, Relation, TLC

CONSTANTS
    Requests,       \* requests that may be in progress at the same time
    PassPayments,   \* payments for a PASS_SINGLE product
    PackPayments,   \* payments for a CREDIT_PACK product
    GrantPayments,  \* payments of createAdminCreditGrant
    NoPayment,      \* the payment of a request that concerns none
    PassCount,      \* months times quantity of a pass payment's item
    PassCredits,    \* credits included in each monthly pass
    PackCredits,    \* credits of a pack or of an admin grant
    UseAmounts,     \* amounts consumeCredits is called with
    RefundInputs,   \* refund statuses a caller asks for
    Handlers,       \* the handlers this instance's callers use, of AllHandlers
    DayTicks,       \* clock ticks of a day
    MonthDays,      \* days of a month
    PackDays,       \* days until the credits of a pack expire
    RetryLimit,     \* SERIALIZABLE_TRANSACTION_RETRY_LIMIT
    Horizon         \* last instant of the bounded clock

AllHandlers == {"approve", "reject", "cancel", "grant", "refund", "read", "use"}

Payments == PassPayments \cup PackPayments \cup GrantPayments
PassIds  == PassPayments \X (1..PassCount)

ASSUME BillingAssumption ==
    /\ Requests # {} /\ IsFiniteSet(Requests) /\ IsFiniteSet(Payments)
    /\ PassPayments \cap (PackPayments \cup GrantPayments) = {}
    /\ PackPayments \cap GrantPayments = {}
    /\ NoPayment \notin Payments
    /\ PassCount \in Nat \ {0} /\ PassCredits \in Nat \ {0} /\ PackCredits \in Nat \ {0}
    /\ UseAmounts \subseteq Nat \ {0} /\ RefundInputs \subseteq {"PENDING", "COMPLETED"}
    /\ DayTicks \in Nat \ {0} /\ MonthDays \in Nat \ {0} /\ PackDays \in Nat \ {0}
    /\ Handlers \subseteq AllHandlers
    /\ RetryLimit \in Nat \ {0} /\ Horizon \in Nat

VARIABLES
    now,      \* the wall clock
    payment,  \* payments with their single item: status, refund status, status changes logged
    pass,     \* entitlements, by item and sequence number
    bucket,   \* credit buckets, by item: UNIQUE (payment_item_id, source_type)
    req,      \* per request, the handler and its local variables
    pend,     \* per request, rows its open transaction wrote and still locks
    stale     \* per serializable transaction, rows others committed since its snapshot

vars == <<now, payment, pass, bucket, req, pend, stale>>
rows == <<payment, pass, bucket>>

(***************************************************************************)
(* Rows.  A bucket carries, summed by type, the ledger rows that name it;  *)
(* `revoked` counts the payment_item_revocation_histories of a target;     *)
(* `weight` sums the parts of the price they give back, in 1/Whole.        *)
(***************************************************************************)
PaymentStatus == {"NONE", "PENDING_DEPOSIT", "APPROVED", "REJECTED", "CANCELED"}
PassStatus    == {"NONE", "QUEUED", "ACTIVE", "EXPIRED", "CANCELED"}
BucketStatus  == {"NONE", "ACTIVE", "DEPLETED", "EXPIRED", "CANCELED"}

PaymentRow == [status: PaymentStatus, refund: {"NONE", "PENDING", "COMPLETED"}, decisions: Nat]
PassRow    == [status: PassStatus, startsAt: Nat, endsAt: Nat, revoked: Nat, weight: Nat]
BucketRow  == [status: BucketStatus, seq: 0..PassCount, expiresAt: Nat, remaining: Nat,
               granted: Nat, used: Nat, expired: Nat, adjusted: Nat, revoked: Nat]

NoPaymentRow == [status |-> "NONE", refund |-> "NONE", decisions |-> 0]
NoPassRow    == [status |-> "NONE", startsAt |-> 0, endsAt |-> 0, revoked |-> 0, weight |-> 0]
NoBucketRow  == [status |-> "NONE", seq |-> 0, expiresAt |-> 0, remaining |-> 0,
                 granted |-> 0, used |-> 0, expired |-> 0, adjusted |-> 0, revoked |-> 0]

NewBucket(seq, amount, expiresAt) ==
    [NoBucketRow EXCEPT !.status = "ACTIVE", !.seq = seq, !.expiresAt = expiresAt,
                        !.remaining = amount, !.granted = amount]

(***************************************************************************)
(* Periods (date.util.ts), with days of DayTicks and months of MonthDays.  *)
(***************************************************************************)
StartOfDay(t) == t - (t % DayTicks)
MonthlyEndAt(start) == StartOfDay(start) + MonthDays * DayTicks - 1
NextStartAt(end) == end + 1
CreditExpiryAt(base) == StartOfDay(base) + PackDays * DayTicks - 1
Covers(row, t) == row.startsAt <= t /\ t < row.endsAt
OverLater(row, t) == row.endsAt < t
Over(row, t) == row.endsAt <= t

(***************************************************************************)
(* Transactions: pending writes, the row locks they hold, commit.          *)
(***************************************************************************)
NoWrites == [payment |-> <<>>, pass |-> <<>>, bucket |-> <<>>, wallet |-> FALSE]

Patch(f, x, v) == [y \in DOMAIN f \cup {x} |-> IF y = x THEN v ELSE f[y]]
View(table, writes) == [x \in DOMAIN table |-> IF x \in DOMAIN writes THEN writes[x] ELSE table[x]]

Held(w) == {<<"payment", p>> : p \in DOMAIN w.payment} \cup {<<"pass", e>> : e \in DOMAIN w.pass}
           \cup {<<"bucket", p>> : p \in DOMAIN w.bucket}
           \cup (IF w.wallet THEN {<<"wallet">>} ELSE {})

\* A handler works through lists it read before: `item` is in hand, `todo` is what is left.
\* The rank is the ORDER BY of the query; rows that tie are taken in any order.
NoItem == [rank |-> 0]
PassItem(e, status, rank) == [pass |-> e, was |-> status, rank |-> rank]
CreditItem(p, b) == [bucket |-> p, amount |-> b.remaining, rank |-> b.expiresAt]
First(todo) == {x \in todo : \A y \in todo : x.rank <= y.rank}

\* Local variables of a handler that is not running.
Idle == [op |-> "none", pc |-> "idle", pay |-> NoPayment, at |-> 0, latest |-> -1, amount |-> 0,
         toUse |-> 0, todo |-> {}, item |-> NoItem, refund |-> "NONE", tries |-> 0]

\* The rows whose locks the next statement of r takes.
Needs(r) ==
    LET q == req[r] IN
    CASE q.pc \in {"decide", "finishRefund"} -> {<<"payment", q.pay>>}
      [] q.pc \in {"cancelPass", "expirePass", "activatePass"} -> {<<"pass", q.item.pass>>}
      [] q.pc = "grantIncluded" -> {<<"bucket", q.item.pass[1]>>, <<"wallet">>}
      [] q.pc = "clawback" -> {<<"bucket", q.pay>>}
      [] q.pc \in {"expireBucket", "spend"} -> {<<"bucket", q.item.bucket>>}
      [] q.pc \in {"provision", "adjustLedger", "expireLedger", "useLedger", "closeReconcile"} -> {<<"wallet">>}
      [] OTHER -> {}

WaitsFor(r, q) == r # q /\ Needs(r) \cap Held(pend[q]) # {}
Unblocked(r) == \A q \in Requests : ~WaitsFor(r, q)
WalletUnlocked(r) == \A q \in Requests \ {r} : ~pend[q].wallet

\* Rows of a serializable snapshot that a commit of w makes out of date.
Changed(w) == {h \in Held(w) : h[1] \in {"bucket", "wallet"}}
NotSerializable(q) == FALSE
InSnapshot(q) == q.pc \in {"spend", "useLedger"}

Stage(r, w, q) ==
    /\ pend' = [pend EXCEPT ![r] = w]
    /\ req' = [req EXCEPT ![r] = q]
    /\ UNCHANGED <<now, payment, pass, bucket, stale>>

Commit(r, w, q) ==
    /\ payment' = View(payment, w.payment)
    /\ pass' = View(pass, w.pass)
    /\ bucket' = View(bucket, w.bucket)
    /\ pend' = [pend EXCEPT ![r] = NoWrites]
    /\ req' = [req EXCEPT ![r] = q]
    /\ stale' = [s \in Requests |-> IF s = r THEN {}
                                    ELSE IF InSnapshot(req[s]) THEN stale[s] \cup Changed(w)
                                    ELSE stale[s]]
    /\ UNCHANGED now

\* The transaction is rolled back and the request goes on at q.
Rollback(r, q) ==
    /\ pend' = [pend EXCEPT ![r] = NoWrites]
    /\ req' = [req EXCEPT ![r] = q]
    /\ stale' = [stale EXCEPT ![r] = {}]
    /\ UNCHANGED <<now, payment, pass, bucket>>

(***************************************************************************)
(* Paying: createBankTransferPayment, createAdminCreditGrant, and the      *)
(* decisions approvePayment, rejectPayment, cancelInstructorPayment.       *)
(***************************************************************************)
IsIdle(r) == req[r].pc = "idle"

\* A handler that answers through getPayment reconciles first, in a transaction of its own.
\* (That it may take its `now` later than the commit before it is the case of a new read.)
Reconciling == [Idle EXCEPT !.op = "read", !.pc = "reconcile", !.at = now]

Purchase(p) ==
    /\ payment[p].status = "NONE" /\ p \notin GrantPayments
    /\ payment' = [payment EXCEPT ![p].status = "PENDING_DEPOSIT"]
    /\ UNCHANGED <<now, pass, bucket, req, pend, stale>>

AdminGrant(r, p) ==
    /\ IsIdle(r) /\ WalletUnlocked(r)
    /\ payment[p].status = "NONE" /\ p \in GrantPayments
    /\ LET paid == [payment[p] EXCEPT !.status = "APPROVED", !.decisions = @ + 1]
       IN  Commit(r, [NoWrites EXCEPT !.payment = Patch(@, p, paid),
                                      !.bucket = Patch(@, p, NewBucket(0, PackCredits, CreditExpiryAt(now))),
                                      !.wallet = TRUE],
                  Reconciling)

MisspeltVerdict == [approve |-> "APPROVED", reject |-> "REJECTED", cancel |-> "CANCELLED"]
Verdict == [approve |-> "APPROVED", reject |-> "REJECTED", cancel |-> "CANCELED"]

\* The handler reads the payment; any status but PENDING_DEPOSIT is answered 400.
ReadPending(r, p, op) ==
    /\ IsIdle(r)
    /\ payment[p].status = "PENDING_DEPOSIT"
    /\ Stage(r, NoWrites, [Idle EXCEPT !.op = op, !.pc = "decide", !.pay = p, !.at = now])

\* updatePaymentWithStatusGuard: UPDATE ... WHERE status = PENDING_DEPOSIT.
NoStatusGuard(p) == TRUE
StillPending(p) == payment[p].status = "PENDING_DEPOSIT"

\* findLatestEntitlement, looking at the open passes; -1 when there is none.
OnlyActive(e) == pass[e].status = "ACTIVE"
Open(e) == pass[e].status \in {"ACTIVE", "QUEUED"}
IsLatestEnd(end) ==
    \/ end = -1 /\ \A e \in PassIds : ~Open(e)
    \/ \E e \in PassIds : Open(e) /\ end = pass[e].endsAt /\ \A f \in PassIds : Open(f) => pass[f].endsAt <= end

\* The approval goes on in the transaction of its UPDATE.
ApproveOutsideTransaction(r, w, q) == Commit(r, w, q)
ApproveInTransaction(r, w, q) == Stage(r, w, q)

Decide(r) ==
    /\ req[r].pc = "decide" /\ Unblocked(r)
    /\ LET p == req[r].pay
           decided == [payment[p] EXCEPT !.status = Verdict[req[r].op], !.decisions = @ + 1]
           w == [NoWrites EXCEPT !.payment = Patch(@, p, decided)]
       IN  \/ /\ ~StillPending(p)
              /\ Rollback(r, Idle)
           \/ /\ StillPending(p) /\ req[r].op = "approve"
              /\ \E end \in {-1} \cup {pass[e].endsAt : e \in PassIds} :
                   /\ IsLatestEnd(end)
                   /\ ApproveInTransaction(r, w, [req[r] EXCEPT !.pc = "provision", !.latest = end])
           \/ /\ StillPending(p) /\ req[r].op = "reject"
              /\ Commit(r, w, Reconciling)
           \/ /\ StillPending(p) /\ req[r].op = "cancel"
              /\ Commit(r, w, Idle)

\* The monthly passes of an item.  The first starts when the latest open pass ends, or at once and
\* then it is ACTIVE; each other starts when the one before it ends, on the first instant of a day.
AllActivated(latest, at) ==
    LET first == IF latest = -1 THEN at ELSE NextStartAt(latest)
        start(n) == IF n = 1 THEN first ELSE StartOfDay(first) + (n - 1) * MonthDays * DayTicks
    IN  [n \in 1..PassCount |->
           [NoPassRow EXCEPT !.status = IF latest = -1 THEN "ACTIVE" ELSE "QUEUED",
                             !.startsAt = start(n), !.endsAt = MonthlyEndAt(start(n))]]
ProvisionedPasses(latest, at) ==
    LET first == IF latest = -1 THEN at ELSE NextStartAt(latest)
        start(n) == IF n = 1 THEN first ELSE StartOfDay(first) + (n - 1) * MonthDays * DayTicks
    IN  [n \in 1..PassCount |->
           [NoPassRow EXCEPT !.status = IF latest = -1 /\ n = 1 THEN "ACTIVE" ELSE "QUEUED",
                             !.startsAt = start(n), !.endsAt = MonthlyEndAt(start(n))]]

Provision(r) ==
    /\ req[r].pc = "provision" /\ Unblocked(r)
    /\ LET p == req[r].pay
           made == ProvisionedPasses(req[r].latest, req[r].at)
           w == [pend[r] EXCEPT !.wallet = TRUE]
           passed == [w EXCEPT !.pass = [e \in {p} \X (1..PassCount) |-> made[e[2]]],
                               !.bucket = IF req[r].latest = -1
                                          THEN Patch(@, p, NewBucket(1, PassCredits, made[1].endsAt))
                                          ELSE @]
           packed == [w EXCEPT !.bucket = Patch(@, p, NewBucket(0, PackCredits, CreditExpiryAt(req[r].at)))]
       IN  Commit(r, IF p \in PassPayments THEN passed ELSE packed, Reconciling)

(***************************************************************************)
(* updatePaymentRefundStatus.  The payment's status is never looked at:    *)
(* what can be refunded is what can be revoked.                            *)
(***************************************************************************)
HasRevocation(p) ==
    \/ bucket[p].revoked > 0
    \/ \E e \in PassIds : e[1] = p /\ pass[e].revoked > 0

\* Queued passes, the one that starts last first, then the active one (an item never has
\* two: GrantIncluded).
OldestFirst(e) == pass[e].startsAt
RefundRank(e) == IF pass[e].status = "ACTIVE" THEN 1 ELSE -pass[e].startsAt
AnyNotExpired(p) == {PassItem(e, pass[e].status, 0 - pass[e].startsAt) :
                        e \in {f \in PassIds : f[1] = p /\ pass[f].status \notin {"NONE", "EXPIRED"}}}
RefundTargets(p) == {PassItem(e, pass[e].status, RefundRank(e)) : e \in {f \in PassIds : f[1] = p /\ Open(f)}}

\* The first `count` of the targets; count = 0: the caller gives no revokeCount, all of them.
RefundChoices(targets, count) ==
    {chosen \in SUBSET targets :
        /\ chosen # {} /\ count \in {0, Cardinality(chosen)} /\ (count = 0 => chosen = targets)
        /\ \A x \in chosen, y \in targets \ chosen : x.rank <= y.rank}

ReadRefund(r, p, count, allowActive, status) ==
    /\ IsIdle(r)
    /\ LET targets == RefundTargets(p)
           tryPasses == ~HasRevocation(p) \/ count > 0
           q == [Idle EXCEPT !.op = "refund", !.pay = p, !.refund = status]
       IN  \/ /\ tryPasses
              /\ \E chosen \in RefundChoices(targets, count) : \E x \in First(chosen) :
                   /\ allowActive \/ \A y \in chosen : y.was # "ACTIVE"
                   /\ Stage(r, NoWrites, [q EXCEPT !.pc = "cancelPass", !.item = x, !.todo = chosen \ {x}])
           \/ /\ ~tryPasses \/ targets = {}
              /\ HasRevocation(p)
              /\ Stage(r, NoWrites, [q EXCEPT !.pc = "finishRefund"])
           \/ /\ ~HasRevocation(p) /\ p \notin PassPayments /\ payment[p].status # "NONE"
              /\ Stage(r, NoWrites, [q EXCEPT !.pc = "readPack"])

NextTarget(r, w) ==
    \/ /\ req[r].todo = {}
       /\ Stage(r, w, [req[r] EXCEPT !.pc = "finishRefund", !.item = NoItem, !.amount = 0])
    \/ \E x \in First(req[r].todo) :
         Stage(r, w, [req[r] EXCEPT !.pc = "cancelPass", !.item = x, !.todo = @ \ {x}, !.amount = 0])

\* calculateRevokedEntitlementRefundRatio of the history a cancellation writes, with its clampRatio and
\* the four decimals of toFixed: a month that was QUEUED counts whole, an ACTIVE one what is left of it.
Whole == 10000
Clamped(x) == IF x < 0 THEN 0 ELSE IF x > Whole THEN Whole ELSE x
RefundWeight(row, was, t) ==
    LET total == row.endsAt - row.startsAt
        left == row.endsAt - t IN
    IF was = "QUEUED" THEN Whole
    ELSE IF was # "ACTIVE" \/ total <= 0 THEN 0
    ELSE Clamped((2 * Whole * left + total) \div (2 * total))

\* An entitlement is canceled whatever its status is by now; its credits are looked up
\* if it was ACTIVE when the payment was read.
NeverClawback(r) ==
    /\ req[r].pc = "cancelPass" /\ Unblocked(r)
    /\ LET e == req[r].item.pass
       IN  NextTarget(r, [pend[r] EXCEPT !.pass =
                            Patch(@, e, [pass[e] EXCEPT !.status = "CANCELED", !.revoked = @ + 1])])
CancelPass(r) ==
    /\ req[r].pc = "cancelPass" /\ Unblocked(r)
    /\ LET e == req[r].item.pass
           row == [pass[e] EXCEPT !.status = "CANCELED", !.revoked = @ + 1,
                                  !.weight = @ + RefundWeight(pass[e], req[r].item.was, now)]
           w == [pend[r] EXCEPT !.pass = Patch(@, e, row)]
           credits == View(bucket, w.bucket)[e[1]]
           hasCredits == req[r].item.was = "ACTIVE" /\ credits.status # "NONE" /\ credits.seq = e[2]
       IN  \/ hasCredits /\ Stage(r, w, [req[r] EXCEPT !.pc = "clawback", !.amount = credits.remaining])
           \/ ~hasCredits /\ NextTarget(r, w)

\* revokeRechargeCreditsForRefund looks for an ACTIVE bucket with credits left; none is a 400.
ReadPack(r) ==
    /\ req[r].pc = "readPack"
    /\ LET b == bucket[req[r].pay]
       IN  \/ /\ b.status = "ACTIVE" /\ b.remaining > 0
              /\ Stage(r, pend[r], [req[r] EXCEPT !.pc = "clawback", !.amount = b.remaining])
           \/ /\ b.status # "ACTIVE" \/ b.remaining = 0
              /\ Rollback(r, Idle)

\* The bucket is emptied by an absolute write; history and ledger record the amount read before.
Clawback(r) ==
    /\ req[r].pc = "clawback" /\ Unblocked(r)
    /\ LET p == req[r].pay
           cleared == [View(bucket, pend[r].bucket)[p] EXCEPT !.status = "CANCELED", !.remaining = 0,
                           !.adjusted = @ + req[r].amount, !.revoked = @ + 1]
           w == [pend[r] EXCEPT !.bucket = Patch(@, p, cleared)]
       IN  \/ req[r].amount > 0 /\ Stage(r, w, [req[r] EXCEPT !.pc = "adjustLedger"])
           \/ req[r].amount = 0 /\ NextTarget(r, w)

\* updatePayment without a status guard.
FinishRefund(r) ==
    /\ req[r].pc = "finishRefund" /\ Unblocked(r)
    /\ LET p == req[r].pay
       IN  Commit(r, [pend[r] EXCEPT !.payment = Patch(@, p, [payment[p] EXCEPT !.refund = req[r].refund])],
                  Reconciling)

(***************************************************************************)
(* reconcileInstructorState: expire passes, activate the one that is due,  *)
(* expire buckets, refresh the wallet.  Every read endpoint, the session   *)
(* lookup, the scheduler job and consumeCredits run it.                    *)
(***************************************************************************)
BeginRead(r) ==
    /\ IsIdle(r)
    /\ Stage(r, NoWrites, Reconciling)

\* The reads of the reconcile between two writes, of what its transaction sees, and the row
\* they lead to.
GoOn(r, w) ==
    LET q == req[r]
        passes  == View(pass, w.pass)
        buckets == View(bucket, w.bucket)
        active  == {e \in PassIds : passes[e].status = "ACTIVE"}
        over    == {PassItem(e, "ACTIVE", passes[e].endsAt) : e \in {f \in active : Over(passes[f], q.at)}}
        ready   == {PassItem(e, "QUEUED", passes[e].startsAt) :
                      e \in {f \in PassIds : passes[f].status = "QUEUED" /\ Covers(passes[f], q.at)}}
        lapsed  == {CreditItem(p, buckets[p]) :
                      p \in {o \in Payments : buckets[o].status = "ACTIVE" /\ buckets[o].expiresAt <= q.at}}
    IN  \/ \E x \in First(over) :
             Stage(r, w, [q EXCEPT !.pc = "expirePass", !.item = x])
        \/ /\ active = {}
           /\ \E x \in First(ready) :
                Stage(r, w, [q EXCEPT !.pc = "activatePass", !.item = x])
        \/ /\ over = {} /\ (active # {} \/ ready = {})
           /\ \E x \in First(lapsed) :
                Stage(r, w, [q EXCEPT !.pc = "expireBucket", !.item = x, !.todo = lapsed \ {x}])
        \/ /\ over = {} /\ (active # {} \/ ready = {}) /\ lapsed = {}
           /\ Stage(r, w, [q EXCEPT !.pc = "closeReconcile", !.item = NoItem])

ReadDue(r) == req[r].pc = "reconcile" /\ GoOn(r, pend[r])

ExpirePass(r) ==
    /\ req[r].pc = "expirePass" /\ Unblocked(r)
    /\ LET e == req[r].item.pass
       IN  GoOn(r, [pend[r] EXCEPT !.pass = Patch(@, e, [pass[e] EXCEPT !.status = "EXPIRED"])])

\* activateEntitlement, and the lookup of an included bucket granted before.
ActivatePass(r) ==
    /\ req[r].pc = "activatePass" /\ Unblocked(r)
    /\ LET e == req[r].item.pass
           w == [pend[r] EXCEPT !.pass = Patch(@, e, [pass[e] EXCEPT !.status = "ACTIVE"])]
           credits == View(bucket, w.bucket)[e[1]]
           granted == credits.status # "NONE" /\ credits.seq = e[2]
       IN  \/ granted /\ GoOn(r, w)
           \/ ~granted /\ Stage(r, w, [req[r] EXCEPT !.pc = "grantIncluded"])

\* UNIQUE (payment_item_id, source_type) refuses a second included bucket of an item.
OneBucketInAll(buckets, p) == \E o \in Payments : buckets[o].status # "NONE"
UniqueKeyTaken(buckets, p) == buckets[p].status # "NONE"

\* The upsert is keyed by the entitlement, so a bucket of another pass of the item raises P2002
\* and the reconcile is rolled back.
GrantIncluded(r) ==
    /\ req[r].pc = "grantIncluded" /\ Unblocked(r)
    /\ LET e == req[r].item.pass
           seen == View(bucket, pend[r].bucket)
           fresh == NewBucket(e[2], PassCredits, View(pass, pend[r].pass)[e].endsAt)
       IN  \/ /\ ~UniqueKeyTaken(seen, e[1])
              /\ GoOn(r, [pend[r] EXCEPT !.bucket = Patch(@, e[1], fresh), !.wallet = TRUE])
           \/ /\ UniqueKeyTaken(seen, e[1])
              /\ Rollback(r, Idle)

\* expireCreditBucket: an absolute write, and a ledger row with the amount the list had.
ExpireWithoutLedger(r) ==
    /\ req[r].pc = "expireBucket" /\ Unblocked(r)
    /\ LET p == req[r].item.bucket
           over == [View(bucket, pend[r].bucket)[p] EXCEPT !.status = "EXPIRED", !.remaining = 0]
       IN  Stage(r, [pend[r] EXCEPT !.bucket = Patch(@, p, over)], [req[r] EXCEPT !.pc = "expireLedger"])
ExpireBucket(r) ==
    /\ req[r].pc = "expireBucket" /\ Unblocked(r)
    /\ LET p == req[r].item.bucket
           over == [View(bucket, pend[r].bucket)[p] EXCEPT !.status = "EXPIRED", !.remaining = 0,
                        !.expired = @ + req[r].item.amount]
       IN  Stage(r, [pend[r] EXCEPT !.bucket = Patch(@, p, over)], [req[r] EXCEPT !.pc = "expireLedger"])

CloseReconcile(r) ==
    /\ req[r].pc = "closeReconcile" /\ Unblocked(r)
    /\ Commit(r, [pend[r] EXCEPT !.wallet = TRUE],
              IF req[r].op = "use" THEN [req[r] EXCEPT !.pc = "readCredits", !.at = 0] ELSE Idle)

(***************************************************************************)
(* consumeCredits: a reconcile, then a serializable transaction that is    *)
(* tried RetryLimit times.                                                 *)
(***************************************************************************)
BeginUse(r, amount) ==
    /\ IsIdle(r)
    /\ Stage(r, NoWrites, [Reconciling EXCEPT !.op = "use", !.amount = amount])

\* listActiveCreditBuckets.
Spendable == {p \in Payments : /\ bucket[p].status = "ACTIVE" /\ bucket[p].remaining > 0
                               /\ bucket[p].expiresAt > now}

\* The snapshot is taken here; credits that do not suffice are answered 400.
ReadCredits(r) ==
    /\ req[r].pc = "readCredits"
    /\ LET credits == {CreditItem(p, bucket[p]) : p \in Spendable}
           enough == MapThenSumSet(LAMBDA x : x.amount, credits) >= req[r].amount
       IN  \/ ~enough /\ Rollback(r, Idle)
           \/ enough /\ \E x \in First(credits) :
                Stage(r, NoWrites, [req[r] EXCEPT !.pc = "spend", !.item = x, !.todo = credits \ {x},
                                                  !.toUse = req[r].amount])

\* P2034: tried again from the start until the limit, then the error is thrown.
RetryForever(r) ==
    Rollback(r, [req[r] EXCEPT !.pc = "readCredits", !.item = NoItem, !.todo = {}, !.toUse = 0])
Conflict(r) ==
    LET tries == req[r].tries + 1
    IN  Rollback(r, IF tries < RetryLimit
                    THEN [req[r] EXCEPT !.pc = "readCredits", !.item = NoItem, !.todo = {}, !.toUse = 0,
                                        !.tries = tries]
                    ELSE Idle)

TakeAll(q) == q.item.amount
Take(q) == IF q.item.amount <= q.toUse THEN q.item.amount ELSE q.toUse

Spend(r) ==
    /\ req[r].pc = "spend" /\ Unblocked(r)
    /\ LET p == req[r].item.bucket
           left == req[r].item.amount - Take(req[r])
           taken == [bucket[p] EXCEPT !.remaining = left, !.used = @ + Take(req[r]),
                                      !.status = IF left = 0 THEN "DEPLETED" ELSE "ACTIVE"]
       IN  \/ /\ <<"bucket", p>> \in stale[r]
              /\ Conflict(r)
           \/ /\ <<"bucket", p>> \notin stale[r]
              /\ Stage(r, [pend[r] EXCEPT !.bucket = Patch(@, p, taken)], [req[r] EXCEPT !.pc = "useLedger"])

(***************************************************************************)
(* appendCreditLedger refreshes the wallet row, so it takes its lock.      *)
(***************************************************************************)
AdjustLedger(r) ==
    /\ req[r].pc = "adjustLedger" /\ Unblocked(r)
    /\ NextTarget(r, [pend[r] EXCEPT !.wallet = TRUE])

ExpireLedger(r) ==
    /\ req[r].pc = "expireLedger" /\ Unblocked(r)
    /\ LET w == [pend[r] EXCEPT !.wallet = TRUE]
       IN  \/ /\ req[r].todo = {}
              /\ Stage(r, w, [req[r] EXCEPT !.pc = "closeReconcile", !.item = NoItem])
           \/ \E x \in First(req[r].todo) :
                Stage(r, w, [req[r] EXCEPT !.pc = "expireBucket", !.item = x, !.todo = @ \ {x}])

ForgetWallet(r) == FALSE
WalletStale(r) == <<"wallet">> \in stale[r]

UseLedger(r) ==
    /\ req[r].pc = "useLedger" /\ Unblocked(r)
    /\ LET w == [pend[r] EXCEPT !.wallet = TRUE]
           left == req[r].toUse - Take(req[r])
       IN  \/ /\ WalletStale(r)
              /\ Conflict(r)
           \/ /\ ~WalletStale(r) /\ left > 0
              /\ \E x \in First(req[r].todo) :
                   Stage(r, w, [req[r] EXCEPT !.pc = "spend", !.item = x, !.todo = @ \ {x}, !.toUse = left])
           \/ /\ ~WalletStale(r) /\ left <= 0
              /\ Commit(r, w, Idle)

(***************************************************************************)
(* PostgreSQL aborts one transaction of a lock cycle; a request may also   *)
(* fail anywhere: Prisma's transaction timeout, a lost connection, a       *)
(* process that deploy.sh replaces.  Its open transaction is rolled back,  *)
(* what it committed before stays.                                         *)
(***************************************************************************)
InDeadlock(r) == TransitiveClosure([q, s \in Requests |-> WaitsFor(q, s)], Requests)[r, r]

DeadlockAbort(r) ==
    /\ InDeadlock(r)
    /\ \/ InSnapshot(req[r]) /\ Conflict(r)
       \/ Rollback(r, Idle)

Fail(r) == ~IsIdle(r) /\ Rollback(r, Idle)

Tick == now < Horizon /\ now' = now + 1 /\ UNCHANGED <<payment, pass, bucket, req, pend, stale>>

-----------------------------------------------------------------------------
Init ==
    /\ now = 0
    /\ payment = [p \in Payments |-> NoPaymentRow]
    /\ pass = [e \in PassIds |-> NoPassRow]
    /\ bucket = [p \in Payments |-> NoBucketRow]
    /\ req = [r \in Requests |-> Idle]
    /\ pend = [r \in Requests |-> NoWrites]
    /\ stale = [r \in Requests |-> {}]

Begin(r) ==
    \/ "grant" \in Handlers /\ \E p \in Payments : AdminGrant(r, p)
    \/ \E p \in Payments, op \in DOMAIN Verdict \cap Handlers : ReadPending(r, p, op)
    \/ /\ "refund" \in Handlers
       /\ \E p \in Payments, count \in 0..PassCount, allow \in BOOLEAN, status \in RefundInputs :
            ReadRefund(r, p, count, allow, status)
    \/ "read" \in Handlers /\ BeginRead(r)
    \/ "use" \in Handlers /\ \E amount \in UseAmounts : BeginUse(r, amount)

Step(r) ==
    \/ Decide(r) \/ Provision(r)
    \/ CancelPass(r) \/ ReadPack(r) \/ Clawback(r) \/ AdjustLedger(r) \/ FinishRefund(r)
    \/ ReadDue(r) \/ ExpirePass(r) \/ ActivatePass(r) \/ GrantIncluded(r)
    \/ ExpireBucket(r) \/ ExpireLedger(r) \/ CloseReconcile(r)
    \/ ReadCredits(r) \/ Spend(r) \/ UseLedger(r)
    \/ DeadlockAbort(r)

Work ==
    \/ Tick
    \/ \E p \in Payments : Purchase(p)
    \/ \E r \in Requests : Begin(r) \/ Step(r)

Next == Work \/ \E r \in Requests : Fail(r)

Spec == Init /\ [][Next]_vars

\* No request fails from outside, the server and the database keep executing what was started,
\* and the callers that reconcile, of which the scheduler is one, keep coming.
SteadySpec ==
    /\ Init /\ [][Work]_vars
    /\ \A r \in Requests : WF_vars(Step(r))
    /\ SF_vars(\E r \in Requests : "read" \in Handlers /\ BeginRead(r))

-----------------------------------------------------------------------------
(***************************************************************************)
(* Properties that hold however requests overlap.                          *)
(***************************************************************************)
RowNames == ({"payment", "bucket"} \X Payments) \cup ({"pass"} \X PassIds) \cup {<<"wallet">>}

WritesOK(w) ==
    /\ w = [payment |-> w.payment, pass |-> w.pass, bucket |-> w.bucket, wallet |-> w.wallet]
    /\ DOMAIN w.payment \subseteq Payments /\ \A p \in DOMAIN w.payment : w.payment[p] \in PaymentRow
    /\ DOMAIN w.pass \subseteq PassIds /\ \A e \in DOMAIN w.pass : w.pass[e] \in PassRow
    /\ DOMAIN w.bucket \subseteq Payments /\ \A p \in DOMAIN w.bucket : w.bucket[p] \in BucketRow
    /\ w.wallet \in BOOLEAN

PassItems == [pass: PassIds, was: PassStatus, rank: Int]
CreditItems == [bucket: Payments, amount: Nat, rank: Int]
Items == PassItems \cup CreditItems \cup {NoItem}

Pcs == {"idle", "decide", "provision", "cancelPass", "readPack", "clawback", "adjustLedger",
        "finishRefund", "reconcile", "expirePass", "activatePass", "grantIncluded", "expireBucket",
        "expireLedger", "closeReconcile", "readCredits", "spend", "useLedger"}

Locals == [op: AllHandlers \cup {"none"}, pc: Pcs, pay: Payments \cup {NoPayment}, at: Nat, latest: Nat \cup {-1},
           amount: Nat, toUse: Nat, todo: SUBSET Items, item: Items,
           refund: {"NONE", "PENDING", "COMPLETED"}, tries: Nat]

\* Every table holds rows of its type, and so do the writes of open transactions and the rows
\* the handlers remember; no column is ever negative or given a status the schema lacks.
TypeOK ==
    /\ now \in Nat
    /\ payment \in [Payments -> PaymentRow]
    /\ pass \in [PassIds -> PassRow]
    /\ bucket \in [Payments -> BucketRow]
    /\ req \in [Requests -> Locals]
    /\ pend = [r \in Requests |-> pend[r]] /\ \A r \in Requests : WritesOK(pend[r])
    /\ stale \in [Requests -> SUBSET RowNames]

\* approvePayment, rejectPayment and cancelInstructorPayment race for the same payment, and
\* exactly one of them decides it: the log holds one decision, the one the status shows.
DecidedOnce == \A p \in Payments :
    payment[p].decisions = (IF payment[p].status \in {"NONE", "PENDING_DEPOSIT"} THEN 0 ELSE 1)

\* A decision is final: no handler that is still under way, whatever it read before, moves a
\* payment out of APPROVED, REJECTED or CANCELED again.
DecisionIsFinal == [][\A p \in Payments :
    payment[p].status \notin {"NONE", "PENDING_DEPOSIT"} => payment'[p].status = payment[p].status]_vars

\* What a payment buys exists exactly when it was approved: a failure between the guarded
\* update and the last entitlement or bucket leaves nothing behind.
BenefitsFollowApproval == \A p \in Payments :
    /\ \A e \in PassIds : e[1] = p => (pass[e].status # "NONE" <=> payment[p].status = "APPROVED")
    /\ p \notin PassPayments => (bucket[p].status # "NONE" <=> payment[p].status = "APPROVED")

\* Credits are never spent twice: whatever is used was granted and is no longer there, although
\* consumeCredits writes back an amount it computed from a snapshot.
NeverOverspent == \A p \in Payments : bucket[p].used + bucket[p].remaining <= bucket[p].granted

\* The service keeps its contract: every commit, of any request, is one step of BillingContract
\* or changes nothing the contract speaks of.
Contract == INSTANCE BillingContract WITH
    status    <- [p \in Payments |-> payment[p].status],
    granted   <- [p \in Payments |-> bucket[p].granted],
    available <- [p \in Payments |-> bucket[p].remaining],
    used      <- [p \in Payments |-> bucket[p].used]
KeepsContract == Contract!Spec

\* consumeCredits drains the credits that expire first: when it takes from a bucket, no credits
\* that are valid now and expire earlier stay behind, not even ones granted while it ran.
NearestExpiryFirst == [][\A p, o \in Payments :
    bucket'[p].used > bucket[p].used /\ o \in Spendable /\ bucket[o].expiresAt < bucket[p].expiresAt
        => bucket'[o].remaining = 0]_vars

\* Every request that starts ends: lock waits are finite, a lock cycle is broken, and the
\* retries of consumeCredits are bounded however often other requests interfere.
RequestsEnd == \A r \in Requests : req[r].pc # "idle" ~> req[r].pc = "idle"

\* A month that was paid and has begun is served: a QUEUED pass does not wait forever in its
\* window for reconcileInstructorState to activate it.
Waiting(e) == pass[e].status = "QUEUED" /\ pass[e].startsAt <= now /\ now < pass[e].endsAt
ReadyPassIsActivated == \A e \in PassIds : Waiting(e) ~> ~Waiting(e)

(***************************************************************************)
(* Properties that hold as long as the requests of an instructor do not    *)
(* overlap (one element in Requests).                                      *)
(***************************************************************************)
\* The credit ledger explains the balance: what was granted is still there or was used,
\* expired or adjusted by a row of the ledger.
LedgerExplainsBalance == \A p \in Payments :
    bucket[p].granted = bucket[p].remaining + bucket[p].used + bucket[p].expired + bucket[p].adjusted

\* An instructor has at most one ACTIVE pass; a pass bought meanwhile is QUEUED.
OneActivePass == \A e, f \in PassIds : pass[e].status = "ACTIVE" /\ pass[f].status = "ACTIVE" => e = f

\* The windows of the passes an instructor still has do not overlap: no paid month is lost.
PassesDisjoint == \A e, f \in {g \in PassIds : pass[g].status \in {"ACTIVE", "QUEUED"}} : e # f =>
    pass[e].endsAt < pass[f].startsAt \/ pass[f].endsAt < pass[e].startsAt

\* A refund is final: what it revoked was revoked once and stays CANCELED.
RevokedOnce ==
    /\ \A e \in PassIds : pass[e].revoked <= 1 /\ (pass[e].revoked = 1 <=> pass[e].status = "CANCELED")
    /\ \A p \in Payments : bucket[p].revoked <= 1 /\ (bucket[p].revoked = 1 <=> bucket[p].status = "CANCELED")

\* A partial refund takes back the months that lie furthest ahead: it leaves no QUEUED pass of
\* the payment that starts later than one it cancels.
RefundsNewestFirst == [][\A e, f \in PassIds :
    /\ e[1] = f[1] /\ pass[f].status = "QUEUED" /\ pass[f].startsAt > pass[e].startsAt
    /\ pass[e].status # "CANCELED" /\ pass'[e].status = "CANCELED"
    => pass'[f].status = "CANCELED"]_vars

\* Credits of a pass that was taken back cannot be spent.
NoCreditsOfCanceledPass == \A e \in PassIds :
    pass[e].status = "CANCELED" /\ bucket[e[1]].seq = e[2] => bucket[e[1]].remaining = 0
=============================================================================
