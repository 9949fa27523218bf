----------------------- MODULE BillingContractProofs -----------------------
(***************************************************************************)
(* Proofs about Billing, and that the billing of one instructor keeps its  *)
(* contract, however requests overlap.                                     *)
(*                                                                         *)
(* Whatever a handler does, it ends in one of three ways: it stages        *)
(* writes, it commits them or it rolls back.  One lemma for each step of a *)
(* handler (...Step, concluding Outcome) says with which writes and local  *)
(* variables, and the theorems then need one case for each way.            *)
(***************************************************************************)
EXTENDS Billing, SumProofs

\* The status of a payment row is the one its log of decisions explains.
DecidedRow(row) == row.decisions = (IF row.status \in {"NONE", "PENDING_DEPOSIT"} THEN 0 ELSE 1)

\* What a handler remembers fits the statement it executes next.
AtPayment == {"decide", "provision", "readPack", "cancelPass", "clawback", "adjustLedger", "finishRefund"}
AtPass    == {"cancelPass", "expirePass", "activatePass", "grantIncluded"}
AtCredits == {"expireBucket", "expireLedger", "spend", "useLedger"}
NoList    == {"readPack", "reconcile", "expirePass", "activatePass", "grantIncluded", "closeReconcile"}
LocalsOK(q) ==
    /\ q \in Locals
    /\ q.pc \in AtPayment => q.pay \in Payments
    /\ q.pc = "decide" => q.op \in DOMAIN Verdict
    /\ q.pc \in AtPass => q.item \in PassItems
    /\ q.pc \in {"cancelPass", "clawback", "adjustLedger"} => q.todo \subseteq PassItems
    /\ q.pc \in NoList => q.todo = {}
    /\ q.pc \in AtCredits => q.item \in CreditItems /\ q.todo \subseteq CreditItems

\* Payment rows a transaction is to commit: the log explains their status, and they leave a
\* decision that is already committed alone.
Undecided == {"NONE", "PENDING_DEPOSIT"}
Decisions(w) == \A p \in DOMAIN w.payment :
    /\ DecidedRow(w.payment[p])
    /\ payment[p].status \in Undecided \/ w.payment[p].status = payment[p].status

\* No two open transactions lock the same row, and what they lock of payments are rows that exist.
Locks(w, p) == <<"payment", p>> \in Held(w)
LocksFit(r, w) ==
    /\ \A s \in Requests \ {r} : Held(w) \cap Held(pend[s]) = {}
    /\ \A p \in Payments : Locks(w, p) => payment[p].status # "NONE"

IInv ==
    /\ TypeOK
    /\ \A r \in Requests : LocalsOK(req[r]) /\ Decisions(pend[r]) /\ LocksFit(r, pend[r])
    /\ DecidedOnce

\* A handler's writes, and the payments it may commit them to.
WritesFit(w) == WritesOK(w) /\ Decisions(w)
CommitFits(r, w) == \A s \in Requests \ {r}, p \in Payments : ~(Locks(w, p) /\ Locks(pend[s], p))

\* The three ways a step of a request ends.
Staged(r)     == \E w, q : WritesFit(w) /\ LocksFit(r, w) /\ LocalsOK(q) /\ Stage(r, w, q)
Committed(r)  == \E w, q : WritesFit(w) /\ CommitFits(r, w) /\ LocalsOK(q) /\ Commit(r, w, q)
RolledBack(r) == \E q : LocalsOK(q) /\ Rollback(r, q)
Outcome(r)    == Staged(r) \/ Committed(r) \/ RolledBack(r)

-----------------------------------------------------------------------------
LEMMA NoWritesFit == WritesFit(NoWrites)
  BY DEF WritesFit, WritesOK, NoWrites, Decisions

LEMMA LocksPayments == ASSUME NEW w, NEW p PROVE Locks(w, p) <=> p \in DOMAIN w.payment
  BY DEF Locks, Held

LEMMA NoWritesHoldNothing == Held(NoWrites) = {}
  BY DEF Held, NoWrites

LEMMA IdleOK == LocalsOK(Idle)
<1>1. Idle.item \in Items /\ Idle.todo \in SUBSET Items
  BY DEF Idle, Items
<1>2. Idle \in Locals
  BY <1>1 DEF Idle, Locals, Pcs, AllHandlers
<1>3. Idle.pc = "idle"
  BY DEF Idle
<1> QED
  BY <1>2, <1>3 DEF LocalsOK, AtPayment, AtPass, AtCredits, NoList

\* Patching a table keeps the rows it has and adds one.
LEMMA PatchRows ==
  ASSUME NEW f, NEW x, NEW v, NEW S, NEW R, DOMAIN f \subseteq S, \A y \in DOMAIN f : f[y] \in R, x \in S, v \in R
  PROVE  /\ DOMAIN Patch(f, x, v) \subseteq S
         /\ \A y \in DOMAIN Patch(f, x, v) : Patch(f, x, v)[y] \in R
  BY DEF Patch

\* A transaction sees every row of a table, with its own writes in it.
LEMMA ViewRows ==
  ASSUME NEW S, NEW R, NEW table \in [S -> R], NEW f, \A y \in DOMAIN f : f[y] \in R
  PROVE  View(table, f) \in [S -> R]
  BY DEF View

\* A pass or bucket row joins a transaction's writes, with the lock it needs.
LEMMA WritePass ==
  ASSUME NEW r, NEW w, WritesFit(w), NEW e \in PassIds, NEW row \in PassRow, NEW v,
         v = [w EXCEPT !.pass = Patch(@, e, row)]
  PROVE  WritesFit(v) /\ Held(v) = Held(w) \cup {<<"pass", e>>}
<1>1. /\ v.payment = w.payment /\ v.bucket = w.bucket /\ v.wallet = w.wallet
      /\ v.pass = Patch(w.pass, e, row)
      /\ v = [payment |-> v.payment, pass |-> v.pass, bucket |-> v.bucket, wallet |-> v.wallet]
  BY DEF WritesFit, WritesOK
<1>2. DOMAIN v.pass \subseteq PassIds /\ \A f \in DOMAIN v.pass : v.pass[f] \in PassRow
  BY <1>1, PatchRows DEF WritesFit, WritesOK
<1>3. DOMAIN v.pass = DOMAIN w.pass \cup {e}
  BY <1>1 DEF Patch
<1> QED
  BY <1>1, <1>2, <1>3 DEF WritesFit, WritesOK, Decisions, Held

LEMMA WriteBucket ==
  ASSUME NEW w, WritesFit(w), NEW p \in Payments, NEW row \in BucketRow, NEW v,
         v = [w EXCEPT !.bucket = Patch(@, p, row)]
  PROVE  WritesFit(v) /\ Held(v) = Held(w) \cup {<<"bucket", p>>}
<1>1. /\ v.payment = w.payment /\ v.pass = w.pass /\ v.wallet = w.wallet
      /\ v.bucket = Patch(w.bucket, p, row)
      /\ v = [payment |-> v.payment, pass |-> v.pass, bucket |-> v.bucket, wallet |-> v.wallet]
  BY DEF WritesFit, WritesOK
<1>2. DOMAIN v.bucket \subseteq Payments /\ \A f \in DOMAIN v.bucket : v.bucket[f] \in BucketRow
  BY <1>1, PatchRows DEF WritesFit, WritesOK
<1>3. DOMAIN v.bucket = DOMAIN w.bucket \cup {p}
  BY <1>1 DEF Patch
<1> QED
  BY <1>1, <1>2, <1>3 DEF WritesFit, WritesOK, Decisions, Held

LEMMA WritePayment ==
  ASSUME NEW w, WritesFit(w), NEW p \in Payments, NEW row \in PaymentRow, DecidedRow(row),
         payment[p].status \in Undecided \/ row.status = payment[p].status, NEW v,
         v = [w EXCEPT !.payment = Patch(@, p, row)]
  PROVE  WritesFit(v) /\ Held(v) = Held(w) \cup {<<"payment", p>>}
<1>1. /\ v.bucket = w.bucket /\ v.pass = w.pass /\ v.wallet = w.wallet
      /\ v.payment = Patch(w.payment, p, row)
      /\ v = [payment |-> v.payment, pass |-> v.pass, bucket |-> v.bucket, wallet |-> v.wallet]
  BY DEF WritesFit, WritesOK
<1>2. DOMAIN v.payment \subseteq Payments /\ \A f \in DOMAIN v.payment : v.payment[f] \in PaymentRow
  BY <1>1, PatchRows DEF WritesFit, WritesOK
<1>3. DOMAIN v.payment = DOMAIN w.payment \cup {p} /\ Decisions(v)
  BY <1>1 DEF Patch, WritesFit, Decisions
<1> QED
  BY <1>1, <1>2, <1>3 DEF WritesFit, WritesOK, Decisions, Held

LEMMA WriteWallet ==
  ASSUME NEW w, WritesFit(w), NEW v, v = [w EXCEPT !.wallet = TRUE]
  PROVE  WritesFit(v) /\ Held(v) = Held(w) \cup {<<"wallet">>}
<1>1. /\ v.bucket = w.bucket /\ v.pass = w.pass /\ v.payment = w.payment /\ v.wallet = TRUE
      /\ v = [payment |-> v.payment, pass |-> v.pass, bucket |-> v.bucket, wallet |-> v.wallet]
  BY DEF WritesFit, WritesOK
<1> QED
  BY <1>1 DEF WritesFit, WritesOK, Decisions, Held

-----------------------------------------------------------------------------
(***************************************************************************)
(* Walking a work list.                                                    *)
(***************************************************************************)
\* Taking an item of a list of passes in hand.
LEMMA TakePassItem ==
  ASSUME NEW q, q \in Locals, q.pay \in Payments, NEW T, T \subseteq PassItems, NEW x \in T, NEW amount \in Nat,
         NEW p, p = [q EXCEPT !.pc = "cancelPass", !.item = x, !.todo = T \ {x}, !.amount = amount]
  PROVE  LocalsOK(p)
<1>1. x \in Items /\ T \ {x} \in SUBSET Items
  BY DEF Items
<1>2. p \in Locals
  BY <1>1 DEF Locals, Pcs
<1>3. p.pc = "cancelPass" /\ p.item \in PassItems /\ p.todo \subseteq PassItems /\ p.pay = q.pay
  BY DEF Locals
<1> QED
  BY <1>2, <1>3 DEF LocalsOK, AtPass, AtPayment, AtCredits, NoList

LEMMA TakeCreditItem ==
  ASSUME NEW q, q \in Locals, NEW T, T \subseteq CreditItems, NEW x \in T, NEW pc \in {"expireBucket", "spend"},
         NEW toUse \in Nat,
         NEW p, p = [q EXCEPT !.pc = pc, !.item = x, !.todo = T \ {x}, !.toUse = toUse]
  PROVE  LocalsOK(p)
<1>1. x \in Items /\ T \ {x} \in SUBSET Items /\ pc \in Pcs
  BY DEF Items, Pcs
<1>2. p \in Locals
  BY <1>1 DEF Locals
<1>3. p.pc = pc /\ p.item \in CreditItems /\ p.todo \subseteq CreditItems
  BY DEF Locals
<1> QED
  BY <1>2, <1>3 DEF LocalsOK, AtPass, AtPayment, AtCredits, NoList

\* The next target of a refund.
LEMMA NextTargetStages ==
  ASSUME NEW r \in Requests, LocalsOK(req[r]), req[r].todo \subseteq PassItems, req[r].pay \in Payments,
         NEW w, WritesFit(w), LocksFit(r, w), NextTarget(r, w)
  PROVE  Staged(r)
<1>1. CASE req[r].todo = {} /\ Stage(r, w, [req[r] EXCEPT !.pc = "finishRefund", !.item = NoItem, !.amount = 0])
  <2> DEFINE q == [req[r] EXCEPT !.pc = "finishRefund", !.item = NoItem, !.amount = 0]
  <2>1. q \in Locals /\ q.pc = "finishRefund" /\ q.pay \in Payments
    BY DEF LocalsOK, Locals, Items, Pcs
  <2>2. LocalsOK(q)
    BY <2>1 DEF LocalsOK, AtPass, AtPayment, AtCredits, NoList
  <2> QED
    BY <1>1, <2>2 DEF Staged
<1>2. ASSUME NEW x \in First(req[r].todo),
             Stage(r, w, [req[r] EXCEPT !.pc = "cancelPass", !.item = x, !.todo = @ \ {x}, !.amount = 0])
      PROVE  Staged(r)
  <2> DEFINE q == [req[r] EXCEPT !.pc = "cancelPass", !.item = x, !.todo = @ \ {x}, !.amount = 0]
  <2>1. x \in req[r].todo /\ req[r] \in Locals
    BY DEF First, LocalsOK
  <2>2. q = [req[r] EXCEPT !.pc = "cancelPass", !.item = x, !.todo = req[r].todo \ {x}, !.amount = 0]
    OBVIOUS
  <2>3. LocalsOK(q)
    BY <2>1, <2>2, TakePassItem
  <2> QED
    BY <1>2, <2>3 DEF Staged
<1> QED
  BY <1>1, <1>2 DEF NextTarget

\* What a transaction sees of the tables.
LEMMA SeenRows ==
  ASSUME TypeOK, NEW w, WritesFit(w)
  PROVE  View(bucket, w.bucket) \in [Payments -> BucketRow] /\ View(pass, w.pass) \in [PassIds -> PassRow]
<1>1. View(bucket, w.bucket) \in [Payments -> BucketRow]
  BY ViewRows DEF TypeOK, WritesFit, WritesOK
<1>2. View(pass, w.pass) \in [PassIds -> PassRow]
  BY ViewRows DEF TypeOK, WritesFit, WritesOK
<1> QED
  BY <1>1, <1>2

\* What the reconcile does after a read.
LEMMA GoOnStages ==
  ASSUME TypeOK, NEW r \in Requests, LocalsOK(req[r]), req[r].todo = {},
         NEW w, WritesFit(w), LocksFit(r, w), GoOn(r, w)
  PROVE  Staged(r)
<1> DEFINE q == req[r]
           passes  == View(pass, w.pass)
           buckets == View(bucket, w.bucket)
           active  == {e \in PassIds : passes[e].status = "ACTIVE"}
           over    == {PassItem(e, "ACTIVE", passes[e].endsAt) : e \in {f \in active : Over(passes[f], q.at)}}
           ready   == {PassItem(e, "QUEUED", passes[e].startsAt) :
                         e \in {f \in PassIds : passes[f].status = "QUEUED" /\ Covers(passes[f], q.at)}}
           lapsed  == {CreditItem(p, buckets[p]) :
                         p \in {o \in Payments : buckets[o].status = "ACTIVE" /\ buckets[o].expiresAt <= q.at}}
<1>1. passes \in [PassIds -> PassRow]
  BY SeenRows
<1>2. buckets \in [Payments -> BucketRow]
  BY SeenRows
<1>3. over \subseteq PassItems /\ ready \subseteq PassItems
  BY <1>1 DEF PassItem, PassItems, PassRow, PassStatus
<1>4. lapsed \subseteq CreditItems
  BY <1>2 DEF CreditItem, CreditItems, BucketRow
<1>5. q \in Locals /\ q.amount \in Nat /\ q.toUse \in Nat
  BY DEF LocalsOK, Locals
<1> HIDE DEF passes, buckets, over, ready, lapsed
<1>6. ASSUME NEW T, T \subseteq PassItems, NEW x \in First(T), NEW pc \in {"expirePass", "activatePass"},
             Stage(r, w, [q EXCEPT !.pc = pc, !.item = x])
      PROVE  Staged(r)
  <2> DEFINE p == [q EXCEPT !.pc = pc, !.item = x]
  <2>1. x \in PassItems /\ x \in Items /\ pc \in Pcs
    BY <1>6 DEF First, Items, Pcs
  <2>2. p \in Locals /\ p.pc = pc /\ p.item = x /\ p.todo = {}
    BY <1>5, <2>1 DEF Locals
  <2>3. LocalsOK(p)
    BY <2>1, <2>2 DEF LocalsOK, AtPass, AtPayment, AtCredits, NoList
  <2> QED
    BY <1>6, <2>3 DEF Staged
<1>7. ASSUME NEW x \in First(lapsed), Stage(r, w, [q EXCEPT !.pc = "expireBucket", !.item = x, !.todo = lapsed \ {x}])
      PROVE  Staged(r)
  <2>1. x \in lapsed
    BY DEF First
  <2> DEFINE p == [q EXCEPT !.pc = "expireBucket", !.item = x, !.todo = lapsed \ {x}]
  <2>2. x \in Items /\ lapsed \ {x} \in SUBSET Items
    BY <1>4, <2>1 DEF Items
  <2>3. p \in Locals /\ p.pc = "expireBucket" /\ p.item = x /\ p.todo = lapsed \ {x}
    BY <1>5, <2>2 DEF Locals, Pcs
  <2>4. LocalsOK(p)
    BY <2>1, <2>3, <1>4 DEF LocalsOK, AtPass, AtPayment, AtCredits, NoList
  <2> QED
    BY <1>7, <2>4 DEF Staged
<1>8. ASSUME Stage(r, w, [q EXCEPT !.pc = "closeReconcile", !.item = NoItem])
      PROVE  Staged(r)
  <2> DEFINE p == [q EXCEPT !.pc = "closeReconcile", !.item = NoItem]
  <2>0. NoItem \in Items
    BY DEF Items
  <2>1. p \in Locals /\ p.pc = "closeReconcile" /\ p.todo = {}
    BY <1>5, <2>0, ZenonT(60) DEF Locals, Pcs
  <2> HIDE DEF p
  <2>2. LocalsOK(p)
    BY <2>1 DEF LocalsOK, AtPass, AtPayment, AtCredits, NoList
  <2> QED
    BY <1>8, <2>2 DEF Staged, p
<1> QED
  BY <1>3, <1>6, <1>7, <1>8 DEF GoOn, passes, buckets, over, ready, lapsed

-----------------------------------------------------------------------------
(***************************************************************************)
(* Rows and dates.                                                         *)
(***************************************************************************)
LEMMA Product == ASSUME NEW a \in Nat, NEW b \in Nat PROVE a * b \in Nat
  OBVIOUS

LEMMA PositiveProduct == ASSUME NEW a \in Nat \ {0}, NEW b \in Nat \ {0} PROVE a * b \in Nat \ {0}
  OBVIOUS

LEMMA Dates ==
  ASSUME NEW t \in Nat
  PROVE  StartOfDay(t) \in Nat /\ MonthlyEndAt(t) \in Nat /\ NextStartAt(t) \in Nat /\ CreditExpiryAt(t) \in Nat
<1>1. DayTicks \in Nat \ {0} /\ MonthDays \in Nat \ {0} /\ PackDays \in Nat \ {0}
  BY BillingAssumption
<1>2. t % DayTicks \in 0..t
  BY <1>1
<1>3. MonthDays * DayTicks \in Nat \ {0} /\ PackDays * DayTicks \in Nat \ {0}
  BY <1>1, PositiveProduct
<1> HIDE DEF StartOfDay
<1>4. StartOfDay(t) \in Nat
  BY <1>2 DEF StartOfDay
<1> QED
  BY <1>3, <1>4 DEF MonthlyEndAt, NextStartAt, CreditExpiryAt

LEMMA NewBucketRow ==
  ASSUME NEW seq \in 0..PassCount, NEW amount \in Nat, NEW t \in Nat
  PROVE  NewBucket(seq, amount, t) \in BucketRow
  BY DEF NewBucket, NoBucketRow, BucketRow, BucketStatus

LEMMA NullRows == NoPaymentRow \in PaymentRow /\ NoPassRow \in PassRow /\ NoBucketRow \in BucketRow
  BY BillingAssumption DEF NoPaymentRow, PaymentRow, PaymentStatus, NoPassRow, PassRow, PassStatus,
     NoBucketRow, BucketRow, BucketStatus

LEMMA ProvisionedRows ==
  ASSUME NEW latest \in Nat \cup {-1}, NEW at \in Nat, NEW n \in 1..PassCount
  PROVE  ProvisionedPasses(latest, at)[n] \in PassRow
<1> DEFINE first == IF latest = -1 THEN at ELSE NextStartAt(latest)
           start == IF n = 1 THEN first ELSE StartOfDay(first) + (n - 1) * MonthDays * DayTicks
<1>1. first \in Nat
  BY Dates
<1>2. n - 1 \in Nat /\ MonthDays \in Nat /\ DayTicks \in Nat
  BY BillingAssumption
<1>3. (n - 1) * MonthDays * DayTicks \in Nat
  BY <1>2, Product
<1> HIDE DEF first
<1>4. start \in Nat
  BY <1>1, <1>3, Dates
<1> HIDE DEF start
<1>5. MonthlyEndAt(start) \in Nat
  BY <1>4, Dates
<1>6. ProvisionedPasses(latest, at)[n] =
        [NoPassRow EXCEPT !.status = IF latest = -1 /\ n = 1 THEN "ACTIVE" ELSE "QUEUED",
                          !.startsAt = start, !.endsAt = MonthlyEndAt(start)]
  BY DEF ProvisionedPasses, start, first
<1>7. ASSUME NEW st \in {"ACTIVE", "QUEUED"}, NEW e \in Nat
      PROVE  [NoPassRow EXCEPT !.status = st, !.startsAt = start, !.endsAt = e] \in PassRow
  BY <1>4 DEF NoPassRow, PassRow, PassStatus
<1> QED
  BY <1>5, <1>6, <1>7

LEMMA ReconcilingOK == TypeOK => LocalsOK(Reconciling) /\ Reconciling.todo = {}
<1> SUFFICES ASSUME TypeOK PROVE LocalsOK(Reconciling) /\ Reconciling.todo = {}
  OBVIOUS
<1>1. Idle \in Locals /\ Idle.todo = {} /\ now \in Nat
  BY IdleOK DEF LocalsOK, TypeOK, Idle
<1>2. Reconciling \in Locals /\ Reconciling.pc = "reconcile" /\ Reconciling.todo = {}
  BY <1>1, ZenonT(60) DEF Reconciling, Locals, Pcs, AllHandlers
<1> QED
  BY <1>2 DEF LocalsOK, AtPass, AtPayment, AtCredits, NoList

\* Each statement asks for the lock of the row it writes.
LEMMA NeededLocks ==
  ASSUME NEW r
  PROVE  /\ req[r].pc \in {"decide", "finishRefund"} => <<"payment", req[r].pay>> \in Needs(r)
         /\ req[r].pc \in {"cancelPass", "expirePass", "activatePass"} => <<"pass", req[r].item.pass>> \in Needs(r)
         /\ req[r].pc = "grantIncluded" => <<"bucket", req[r].item.pass[1]>> \in Needs(r) /\ <<"wallet">> \in Needs(r)
         /\ req[r].pc = "clawback" => <<"bucket", req[r].pay>> \in Needs(r)
         /\ req[r].pc \in {"expireBucket", "spend"} => <<"bucket", req[r].item.bucket>> \in Needs(r)
         /\ req[r].pc \in {"provision", "adjustLedger", "expireLedger", "useLedger", "closeReconcile"}
              => <<"wallet">> \in Needs(r)
  BY DEF Needs

-----------------------------------------------------------------------------
(***************************************************************************)
(* The handlers.                                                           *)
(***************************************************************************)
\* What the invariant says of one request.
LEMMA Context ==
  ASSUME IInv, NEW r \in Requests
  PROVE  /\ req[r] \in Locals /\ LocalsOK(req[r]) /\ WritesFit(pend[r]) /\ LocksFit(r, pend[r])
         /\ LocksFit(r, NoWrites)
  BY NoWritesHoldNothing DEF IInv, TypeOK, LocalsOK, WritesFit, LocksFit, Locks

\* Rows that are next to be written, written under their locks.
LEMMA StageLocked ==
  ASSUME IInv, NEW r \in Requests, Unblocked(r), NEW w, NEW L, L \subseteq Needs(r),
         \A p \in Payments : <<"payment", p>> \notin L, Held(w) = Held(pend[r]) \cup L
  PROVE  LocksFit(r, w)
<1>1. LocksFit(r, pend[r])
  BY Context
<1>2. \A s \in Requests \ {r} : L \cap Held(pend[s]) = {}
  BY DEF Unblocked, WaitsFor
<1>3. \A s \in Requests \ {r} : Held(w) \cap Held(pend[s]) = {}
  BY <1>1, <1>2 DEF LocksFit
<1>4. \A p \in Payments : Locks(w, p) => Locks(pend[r], p)
  BY DEF Locks
<1> QED
  BY <1>1, <1>3, <1>4 DEF LocksFit

LEMMA StagePass ==
  ASSUME IInv, NEW r \in Requests, Unblocked(r), NEW w, NEW e, <<"pass", e>> \in Needs(r),
         Held(w) = Held(pend[r]) \cup {<<"pass", e>>}
  PROVE  LocksFit(r, w)
<1>1. \A p \in Payments : <<"payment", p>> \notin {<<"pass", e>>}
  OBVIOUS
<1>2. {<<"pass", e>>} \subseteq Needs(r)
  OBVIOUS
<1> QED
  BY <1>1, <1>2, StageLocked

LEMMA StageBucket ==
  ASSUME IInv, NEW r \in Requests, Unblocked(r), NEW w, NEW b, <<"bucket", b>> \in Needs(r),
         Held(w) = Held(pend[r]) \cup {<<"bucket", b>>}
  PROVE  LocksFit(r, w)
<1>1. \A p \in Payments : <<"payment", p>> \notin {<<"bucket", b>>}
  OBVIOUS
<1>2. {<<"bucket", b>>} \subseteq Needs(r)
  OBVIOUS
<1> QED
  BY <1>1, <1>2, StageLocked

LEMMA StageWallet ==
  ASSUME IInv, NEW r \in Requests, Unblocked(r), NEW w, <<"wallet">> \in Needs(r),
         Held(w) = Held(pend[r]) \cup {<<"wallet">>}
  PROVE  LocksFit(r, w)
<1>1. \A p \in Payments : <<"payment", p>> \notin {<<"wallet">>}
  OBVIOUS
<1>2. {<<"wallet">>} \subseteq Needs(r)
  OBVIOUS
<1> QED
  BY <1>1, <1>2, StageLocked

\* A transaction that has its locks may commit, whatever else it writes.
LEMMA CommitLocked ==
  ASSUME IInv, NEW r \in Requests, NEW w, w.payment = pend[r].payment
  PROVE  CommitFits(r, w)
  BY LocksPayments, Context DEF CommitFits, LocksFit, Locks

\* So may one that has just got the lock of the payment it decides.
LEMMA CommitDecision ==
  ASSUME IInv, NEW r \in Requests, Unblocked(r), req[r].pc \in {"decide", "finishRefund"}, NEW w,
         Held(w) \subseteq Held(pend[r]) \cup {<<"payment", req[r].pay>>}
  PROVE  CommitFits(r, w)
<1>1. <<"payment", req[r].pay>> \in Needs(r)
  BY NeededLocks
<1> QED
  BY <1>1, Context DEF CommitFits, LocksFit, Locks, Unblocked, WaitsFor

LEMMA BackToIdle == ASSUME NEW r, Rollback(r, Idle) PROVE RolledBack(r)
  BY IdleOK DEF RolledBack

\* A decision on a row that has none is explained by its log.
LEMMA DecisionRow ==
  ASSUME NEW row \in PaymentRow, row.decisions = 0, NEW verdict \in {"APPROVED", "REJECTED", "CANCELED"},
         NEW d, d = [row EXCEPT !.status = verdict, !.decisions = @ + 1]
  PROVE  d \in PaymentRow /\ DecidedRow(d)
<1>1. d = [row EXCEPT !.status = verdict, !.decisions = 1]
  OBVIOUS
<1>2. d \in PaymentRow
  <2>1. verdict \in PaymentStatus /\ 1 \in Nat
    BY DEF PaymentStatus
  <2> QED
    BY <1>1, <2>1 DEF PaymentRow
<1>3. d.status = verdict /\ d.decisions = 1
  BY <1>1 DEF PaymentRow
<1> QED
  BY <1>2, <1>3 DEF DecidedRow

LEMMA AdminGrantStep == ASSUME IInv, NEW r \in Requests, NEW p \in Payments, AdminGrant(r, p) PROVE Outcome(r)
<1> DEFINE paid == [payment[p] EXCEPT !.status = "APPROVED", !.decisions = @ + 1]
           credits == NewBucket(0, PackCredits, CreditExpiryAt(now))
           w1 == [NoWrites EXCEPT !.payment = Patch(@, p, paid)]
           w2 == [w1 EXCEPT !.bucket = Patch(@, p, credits)]
           w3 == [w2 EXCEPT !.wallet = TRUE]
<1>1. payment[p] \in PaymentRow /\ payment[p].decisions = 0 /\ now \in Nat
  BY SMTT(60) DEF IInv, TypeOK, DecidedOnce, AdminGrant
<1>2. paid \in PaymentRow /\ DecidedRow(paid) /\ payment[p].status = "NONE"
  BY <1>1, DecisionRow DEF AdminGrant
<1>3. credits \in BucketRow
  BY <1>1, NewBucketRow, Dates, BillingAssumption
<1> HIDE DEF paid, credits
<1>4. WritesFit(w1)
  BY <1>2, NoWritesFit, WritePayment DEF Undecided
<1>5. WritesFit(w2)
  BY <1>3, <1>4, WriteBucket
<1>6. WritesFit(w3)
  BY <1>5, WriteWallet
<1>7. w3 = [NoWrites EXCEPT !.payment = Patch(@, p, paid), !.bucket = Patch(@, p, credits), !.wallet = TRUE]
  BY DEF NoWrites
<1>8. Commit(r, w3, Reconciling)
  BY <1>7 DEF AdminGrant, paid, credits
<1>9. CommitFits(r, w3)
  <2>1. DOMAIN w3.payment = {p}
    BY DEF NoWrites, Patch
  <2>2. \A s \in Requests : ~Locks(pend[s], p)
    BY <1>2 DEF IInv, LocksFit
  <2> HIDE DEF w3
  <2> QED
    BY <2>1, <2>2, LocksPayments DEF CommitFits
<1> QED
  BY <1>6, <1>8, <1>9, ReconcilingOK DEF Outcome, Committed, IInv

LEMMA ReadPendingStep ==
  ASSUME IInv, NEW r \in Requests, NEW p \in Payments, NEW op \in DOMAIN Verdict, ReadPending(r, p, op)
  PROVE  Outcome(r)
<1> DEFINE q == [Idle EXCEPT !.op = op, !.pc = "decide", !.pay = p, !.at = now]
<1>1. Idle \in Locals /\ now \in Nat /\ op \in AllHandlers
  BY IdleOK DEF LocalsOK, IInv, TypeOK, Verdict, AllHandlers
<1>2. q \in Locals /\ q.pc = "decide" /\ q.pay = p /\ q.op = op
  BY <1>1 DEF Locals, Pcs
<1>3. LocalsOK(q)
  BY <1>2 DEF LocalsOK, AtPass, AtPayment, AtCredits, NoList
<1> QED
  BY <1>3, Context, NoWritesFit DEF ReadPending, Outcome, Staged

\* The one step that changes the status of an existing payment.
LEMMA DecideStep == ASSUME IInv, NEW r \in Requests, Decide(r) PROVE Outcome(r)
<1> DEFINE p == req[r].pay
           decided == [payment[p] EXCEPT !.status = Verdict[req[r].op], !.decisions = @ + 1]
           w == [NoWrites EXCEPT !.payment = Patch(@, p, decided)]
<1>1. req[r].pc = "decide" /\ Unblocked(r) /\ req[r].op \in DOMAIN Verdict /\ p \in Payments /\ req[r] \in Locals
  BY Context DEF Decide, LocalsOK, AtPayment
<1>2. CASE ~StillPending(p)
  BY <1>2, BackToIdle DEF Decide, Outcome
<1>3. CASE StillPending(p)
  <2>1. payment[p] \in PaymentRow /\ payment[p].decisions = 0
    BY <1>1, <1>3 DEF IInv, TypeOK, DecidedOnce, StillPending
  <2>2. Verdict[req[r].op] \in {"APPROVED", "REJECTED", "CANCELED"}
    BY <1>1, SMTT(60) DEF Verdict
  <2>3. decided \in PaymentRow /\ DecidedRow(decided)
    BY <2>1, <2>2, DecisionRow
  <2> HIDE DEF decided
  <2>4. WritesFit(w) /\ Held(w) = {<<"payment", p>>}
    BY <1>1, <1>3, <2>3, NoWritesFit, NoWritesHoldNothing, WritePayment DEF StillPending, Undecided
  <2> HIDE DEF w
  <2>5. LocksFit(r, w) /\ CommitFits(r, w)
    <3>1. \A s \in Requests \ {r} : Held(w) \cap Held(pend[s]) = {}
      BY <1>1, <2>4, NeededLocks DEF Unblocked, WaitsFor
    <3>2. \A o \in Payments : Locks(w, o) => payment[o].status # "NONE"
      BY <1>1, <1>3, <2>4 DEF Locks, StillPending
    <3>3. CommitFits(r, w)
      BY <1>1, <2>4, CommitDecision
    <3> QED
      BY <3>1, <3>2, <3>3 DEF LocksFit
  <2>6. ASSUME NEW end \in {-1} \cup {pass[e].endsAt : e \in PassIds},
               Stage(r, w, [req[r] EXCEPT !.pc = "provision", !.latest = end])
        PROVE  Staged(r)
    <3> DEFINE q == [req[r] EXCEPT !.pc = "provision", !.latest = end]
    <3>1. end \in Nat \cup {-1}
      BY DEF IInv, TypeOK, PassRow
    <3>2. q \in Locals /\ q.pc = "provision" /\ q.pay \in Payments
      BY <1>1, <3>1 DEF Locals, Pcs
    <3>3. LocalsOK(q)
      BY <3>2 DEF LocalsOK, AtPass, AtPayment, AtCredits, NoList
    <3> QED
      BY <2>4, <2>5, <2>6, <3>3 DEF Staged
  <2>7. ASSUME Commit(r, w, Reconciling) \/ Commit(r, w, Idle) PROVE Committed(r)
    BY <2>4, <2>5, <2>7, IdleOK, ReconcilingOK DEF Committed, IInv
  <2> QED
    BY <1>3, <2>6, <2>7 DEF Decide, ApproveInTransaction, Outcome, decided, w
<1> QED
  BY <1>2, <1>3

LEMMA ProvisionStep == ASSUME IInv, NEW r \in Requests, Provision(r) PROVE Outcome(r)
<1> DEFINE p == req[r].pay
           made == ProvisionedPasses(req[r].latest, req[r].at)
           first == NewBucket(1, PassCredits, made[1].endsAt)
           pack == NewBucket(0, PackCredits, CreditExpiryAt(req[r].at))
           w == [pend[r] EXCEPT !.wallet = TRUE]
           rowsOf == [e \in {p} \X (1..PassCount) |-> made[e[2]]]
           buckets == IF req[r].latest = -1 THEN Patch(w.bucket, p, first) ELSE w.bucket
           passed == [w EXCEPT !.pass = rowsOf, !.bucket = buckets]
           packed == [w EXCEPT !.bucket = Patch(@, p, pack)]
<1>1. req[r].pc = "provision" /\ p \in Payments /\ req[r] \in Locals /\ WritesFit(w)
  BY Context, WriteWallet DEF Provision, LocalsOK, AtPayment
<1>2. req[r].latest \in Nat \cup {-1} /\ req[r].at \in Nat
  BY <1>1 DEF Locals
<1>3. \A n \in 1..PassCount : made[n] \in PassRow
  BY <1>2, ProvisionedRows
<1>4. 1 \in 1..PassCount /\ 0 \in 0..PassCount /\ 1 \in 0..PassCount /\ PassCredits \in Nat /\ PackCredits \in Nat
  BY BillingAssumption
<1> HIDE DEF made, w
<1>5. first \in BucketRow /\ pack \in BucketRow
  <2>1. made[1].endsAt \in Nat
    BY <1>3, <1>4 DEF PassRow
  <2>2. CreditExpiryAt(req[r].at) \in Nat
    BY <1>2, Dates
  <2> QED
    BY <1>4, <2>1, <2>2, NewBucketRow
<1> HIDE DEF first, pack
<1>6. WritesFit(packed)
  BY <1>1, <1>5, WriteBucket
<1>7. ASSUME p \in PassPayments PROVE WritesFit(passed)
  <2>1. DOMAIN rowsOf \subseteq PassIds /\ \A e \in DOMAIN rowsOf : rowsOf[e] \in PassRow
    BY <1>3, <1>7 DEF PassIds
  <2> HIDE DEF rowsOf
  <2>2. DOMAIN buckets \subseteq Payments /\ \A o \in DOMAIN buckets : buckets[o] \in BucketRow
    BY <1>1, <1>5, PatchRows DEF WritesFit, WritesOK
  <2> HIDE DEF buckets
  <2>3. w \in [payment: {w.payment}, pass: {w.pass}, bucket: {w.bucket}, wallet: {w.wallet}]
    BY <1>1 DEF WritesFit, WritesOK
  <2>4. passed \in [payment: {w.payment}, pass: {rowsOf}, bucket: {buckets}, wallet: {w.wallet}]
    BY <2>3
  <2> HIDE DEF passed
  <2>5. passed = [payment |-> w.payment, pass |-> rowsOf, bucket |-> buckets, wallet |-> w.wallet]
    BY <2>4
  <2> QED
    BY <1>1, <2>1, <2>2, <2>5 DEF WritesFit, WritesOK, Decisions
<1>8. Commit(r, IF p \in PassPayments THEN passed ELSE packed, Reconciling)
  BY DEF Provision, made, first, pack, w
<1>9. CommitFits(r, passed) /\ CommitFits(r, packed)
  <2>1. passed.payment = pend[r].payment /\ packed.payment = pend[r].payment
    BY <1>1 DEF w, WritesFit, WritesOK
  <2> HIDE DEF passed, packed
  <2> QED
    BY <2>1, CommitLocked
<1> HIDE DEF passed, packed
<1> QED
  BY <1>6, <1>7, <1>8, <1>9, ReconcilingOK DEF Outcome, Committed, IInv

\* The writes to a row that exists give a row.
LEMMA PassStatusChange ==
  ASSUME NEW row \in PassRow, NEW status \in {"ACTIVE", "EXPIRED"}
  PROVE  [row EXCEPT !.status = status] \in PassRow
<1>1. status \in PassStatus
  BY DEF PassStatus
<1> QED
  BY <1>1 DEF PassRow

LEMMA PartIsNat == ASSUME NEW v \in 0..Whole PROVE v \in Nat
  BY DEF Whole

\* The part of a month's price that a revocation gives back is a part.
LEMMA RefundWeightIsPart ==
  ASSUME NEW row \in PassRow, NEW was, NEW t \in Nat
  PROVE  RefundWeight(row, was, t) \in 0..Whole
<1> DEFINE total == row.endsAt - row.startsAt
           left == row.endsAt - t
           x == (2 * Whole * left + total) \div (2 * total)
<1>1. total \in Int /\ left \in Int
  BY DEF PassRow
<1>2. Whole \in Nat
  BY DEF Whole
<1>3. CASE total > 0
  <2>1. 2 * Whole * left + total \in Int /\ 2 * total \in Nat \ {0}
    BY <1>1, <1>2, <1>3
  <2> HIDE DEF total, left
  <2>2. x \in Int
    BY <2>1
  <2> HIDE DEF x
  <2>3. Clamped(x) \in 0..Whole
    BY <1>2, <2>2 DEF Clamped
  <2> QED
    BY <1>2, <1>3, <2>3 DEF RefundWeight, x, total, left
<1>4. CASE total <= 0
  BY <1>2, <1>4 DEF RefundWeight
<1> QED
  BY <1>1, <1>3, <1>4

LEMMA RevokePass ==
  ASSUME NEW row \in PassRow, NEW weight \in Nat
  PROVE  [row EXCEPT !.status = "CANCELED", !.revoked = @ + 1, !.weight = @ + weight] \in PassRow
<1>1. "CANCELED" \in PassStatus /\ row.revoked + 1 \in Nat /\ row.weight + weight \in Nat
  BY DEF PassRow, PassStatus
<1> QED
  BY <1>1 DEF PassRow

LEMMA ClearBucket ==
  ASSUME NEW row \in BucketRow, NEW amount \in Nat
  PROVE  /\ [row EXCEPT !.status = "CANCELED", !.remaining = 0, !.adjusted = @ + amount, !.revoked = @ + 1] \in BucketRow
         /\ [row EXCEPT !.status = "EXPIRED", !.remaining = 0, !.expired = @ + amount] \in BucketRow
<1>1. /\ "CANCELED" \in BucketStatus /\ "EXPIRED" \in BucketStatus
      /\ row.adjusted + amount \in Nat /\ row.revoked + 1 \in Nat /\ row.expired + amount \in Nat
  BY DEF BucketRow, BucketStatus
<1> QED
  BY <1>1 DEF BucketRow

LEMMA SpendBucket ==
  ASSUME NEW row \in BucketRow, NEW left \in Nat, NEW taken \in Nat
  PROVE  [row EXCEPT !.remaining = left, !.used = @ + taken,
                     !.status = IF left = 0 THEN "DEPLETED" ELSE "ACTIVE"] \in BucketRow
<1>1. "DEPLETED" \in BucketStatus /\ "ACTIVE" \in BucketStatus /\ row.used + taken \in Nat
  BY DEF BucketRow, BucketStatus
<1> QED
  BY <1>1 DEF BucketRow

LEMMA ReadRefundStep ==
  ASSUME IInv, NEW r \in Requests, NEW p \in Payments, NEW count, NEW allowActive,
         NEW status \in {"NONE", "PENDING", "COMPLETED"}, ReadRefund(r, p, count, allowActive, status)
  PROVE  Outcome(r)
<1> DEFINE targets == RefundTargets(p)
           q == [Idle EXCEPT !.op = "refund", !.pay = p, !.refund = status]
<1>1. q \in Locals /\ q.pay = p /\ q.todo = {} /\ q.amount \in Nat /\ q.amount = 0
  <2>1. Idle \in Locals /\ Idle.todo = {} /\ Idle.amount = 0 /\ "refund" \in AllHandlers
    BY IdleOK DEF LocalsOK, Idle, AllHandlers
  <2> QED
    BY <2>1 DEF Locals
<1>2. targets \subseteq PassItems
  <2>1. \A e \in PassIds : pass[e].status \in PassStatus /\ RefundRank(e) \in Int
    BY DEF IInv, TypeOK, PassRow, RefundRank
  <2> QED
    BY <2>1 DEF RefundTargets, PassItem, PassItems
<1> HIDE DEF q, targets
<1>3. ASSUME NEW chosen \in RefundChoices(targets, count), NEW x \in First(chosen),
             Stage(r, NoWrites, [q EXCEPT !.pc = "cancelPass", !.item = x, !.todo = chosen \ {x}])
      PROVE  Staged(r)
  <2> DEFINE n == [q EXCEPT !.pc = "cancelPass", !.item = x, !.todo = chosen \ {x}]
  <2>1. chosen \subseteq PassItems /\ x \in chosen
    BY <1>2 DEF RefundChoices, First
  <2>2. x \in Items /\ chosen \ {x} \in SUBSET Items
    BY <2>1 DEF Items
  <2>3. n \in Locals /\ n.pc = "cancelPass" /\ n.pay = p /\ n.item = x /\ n.todo = chosen \ {x}
    BY <1>1, <2>2 DEF Locals, Pcs
  <2>4. LocalsOK(n)
    BY <2>1, <2>3 DEF LocalsOK, AtPass, AtPayment, AtCredits, NoList
  <2> QED
    BY <1>3, <2>4, Context, NoWritesFit DEF Staged
<1>4. ASSUME NEW pc \in {"finishRefund", "readPack"}, Stage(r, NoWrites, [q EXCEPT !.pc = pc])
      PROVE  Staged(r)
  <2> DEFINE n == [q EXCEPT !.pc = pc]
  <2>1. n \in Locals /\ n.pc = pc /\ n.pay = p /\ n.todo = {}
    BY <1>1 DEF Locals, Pcs
  <2>2. LocalsOK(n)
    BY <2>1, SMTT(60) DEF LocalsOK, AtPass, AtPayment, AtCredits, NoList
  <2> QED
    BY <1>4, <2>2, Context, NoWritesFit DEF Staged
<1> QED
  BY <1>3, <1>4 DEF ReadRefund, Outcome, q, targets

LEMMA CancelPassStep == ASSUME IInv, NEW r \in Requests, CancelPass(r) PROVE Outcome(r)
<1> DEFINE e == req[r].item.pass
           row == [pass[e] EXCEPT !.status = "CANCELED", !.revoked = @ + 1,
                                  !.weight = @ + RefundWeight(pass[e], req[r].item.was, now)]
           w == [pend[r] EXCEPT !.pass = Patch(@, e, row)]
           credits == View(bucket, w.bucket)[e[1]]
           q == [req[r] EXCEPT !.pc = "clawback", !.amount = credits.remaining]
<1>1. /\ req[r].pc = "cancelPass" /\ Unblocked(r) /\ e \in PassIds
      /\ req[r] \in Locals /\ req[r].todo \subseteq PassItems /\ req[r].pay \in Payments
  BY Context DEF CancelPass, LocalsOK, AtPass, AtPayment, PassItems
<1>2. row \in PassRow
  <2>1. pass[e] \in PassRow /\ now \in Nat
    BY <1>1 DEF IInv, TypeOK
  <2>2. RefundWeight(pass[e], req[r].item.was, now) \in 0..Whole
    BY <2>1, RefundWeightIsPart
  <2>3. RefundWeight(pass[e], req[r].item.was, now) \in Nat
    BY <2>2, PartIsNat
  <2> QED
    BY <2>1, <2>3, RevokePass
<1> HIDE DEF row
<1>3. WritesFit(w) /\ Held(w) = Held(pend[r]) \cup {<<"pass", e>>}
  BY <1>1, <1>2, Context, WritePass
<1>4. LocksFit(r, w)
  <2>1. <<"pass", e>> \in Needs(r)
    BY <1>1, NeededLocks
  <2> HIDE DEF w
  <2> QED
    BY <1>1, <1>3, <2>1, StagePass
<1>5. credits.remaining \in Nat
  <2>1. e[1] \in Payments
    BY <1>1 DEF PassIds, Payments
  <2>2. View(bucket, w.bucket) \in [Payments -> BucketRow]
    BY <1>3, SeenRows DEF IInv
  <2> QED
    BY <2>1, <2>2 DEF BucketRow
<1> HIDE DEF w, credits
<1>6. LocalsOK(q)
  <2>1. q \in Locals /\ q.pc = "clawback" /\ q.pay = req[r].pay /\ q.todo = req[r].todo
    BY <1>1, <1>5 DEF Locals, Pcs
  <2> QED
    BY <1>1, <2>1 DEF LocalsOK, AtPass, AtPayment, AtCredits, NoList
<1>7. CASE Stage(r, w, q)
  BY <1>3, <1>4, <1>6, <1>7 DEF Staged, Outcome
<1>8. CASE NextTarget(r, w)
  BY <1>1, <1>3, <1>4, <1>8, Context, NextTargetStages DEF Outcome
<1>9. Stage(r, w, q) \/ NextTarget(r, w)
  BY ZenonT(60) DEF CancelPass, w, credits, row
<1> QED
  BY <1>7, <1>8, <1>9

LEMMA ReadPackStep == ASSUME IInv, NEW r \in Requests, ReadPack(r) PROVE Outcome(r)
<1> DEFINE q == [req[r] EXCEPT !.pc = "clawback", !.amount = bucket[req[r].pay].remaining]
<1>1. req[r] \in Locals /\ req[r].pay \in Payments /\ req[r].todo = {}
  BY Context DEF ReadPack, LocalsOK, AtPayment, NoList
<1>2. bucket[req[r].pay].remaining \in Nat
  BY <1>1 DEF IInv, TypeOK, BucketRow
<1>3. q \in Locals /\ q.pc = "clawback" /\ q.pay = req[r].pay /\ q.todo = {}
  BY <1>1, <1>2 DEF Locals, Pcs
<1>4. LocalsOK(q)
  BY <1>1, <1>3 DEF LocalsOK, AtPass, AtPayment, AtCredits, NoList
<1>5. CASE Stage(r, pend[r], q)
  BY <1>4, <1>5, Context DEF Staged, Outcome
<1>6. CASE Rollback(r, Idle)
  BY <1>6, BackToIdle DEF Outcome
<1> QED
  BY <1>5, <1>6 DEF ReadPack

LEMMA ClawbackStep == ASSUME IInv, NEW r \in Requests, Clawback(r) PROVE Outcome(r)
<1> DEFINE p == req[r].pay
           old == View(bucket, pend[r].bucket)[p]
           cleared == [old EXCEPT !.status = "CANCELED", !.remaining = 0,
                           !.adjusted = @ + req[r].amount, !.revoked = @ + 1]
           w == [pend[r] EXCEPT !.bucket = Patch(@, p, cleared)]
           q == [req[r] EXCEPT !.pc = "adjustLedger"]
<1>1. /\ req[r].pc = "clawback" /\ Unblocked(r) /\ p \in Payments
      /\ req[r] \in Locals /\ req[r].todo \subseteq PassItems /\ req[r].amount \in Nat
  BY Context DEF Clawback, LocalsOK, AtPayment, Locals
<1>2. old \in BucketRow
  BY <1>1, Context, SeenRows, SMTT(60) DEF IInv
<1> HIDE DEF old
<1>3. cleared \in BucketRow
  BY <1>1, <1>2, ClearBucket
<1> HIDE DEF cleared
<1>4. WritesFit(w) /\ Held(w) = Held(pend[r]) \cup {<<"bucket", p>>}
  BY <1>1, <1>3, Context, WriteBucket
<1>5. LocksFit(r, w)
  <2>1. <<"bucket", p>> \in Needs(r)
    BY <1>1, NeededLocks
  <2> HIDE DEF w
  <2> QED
    BY <1>1, <1>4, <2>1, StageBucket
<1> HIDE DEF w
<1>6. LocalsOK(q)
  <2>1. q \in Locals /\ q.pc = "adjustLedger" /\ q.pay = p /\ q.todo = req[r].todo
    BY <1>1 DEF Locals, Pcs
  <2> QED
    BY <1>1, <2>1 DEF LocalsOK, AtPass, AtPayment, AtCredits, NoList
<1>7. CASE Stage(r, w, q)
  BY <1>4, <1>5, <1>6, <1>7 DEF Staged, Outcome
<1>8. CASE NextTarget(r, w)
  BY <1>1, <1>4, <1>5, <1>8, Context, NextTargetStages DEF Outcome
<1> QED
  BY <1>7, <1>8 DEF Clawback, w, cleared, old

LEMMA AdjustLedgerStep == ASSUME IInv, NEW r \in Requests, AdjustLedger(r) PROVE Outcome(r)
<1> DEFINE w == [pend[r] EXCEPT !.wallet = TRUE]
<1>1. /\ req[r].pc = "adjustLedger" /\ Unblocked(r) /\ req[r].pay \in Payments /\ req[r].todo \subseteq PassItems
  BY Context DEF AdjustLedger, LocalsOK, AtPayment
<1>2. WritesFit(w) /\ Held(w) = Held(pend[r]) \cup {<<"wallet">>}
  BY Context, WriteWallet
<1>3. LocksFit(r, w)
  <2>1. <<"wallet">> \in Needs(r)
    BY <1>1, NeededLocks
  <2> HIDE DEF w
  <2> QED
    BY <1>1, <1>2, <2>1, StageWallet
<1> QED
  BY <1>1, <1>2, <1>3, Context, NextTargetStages DEF AdjustLedger, Outcome

\* The refund status changes, the decision does not.
LEMMA FinishRefundStep == ASSUME IInv, NEW r \in Requests, FinishRefund(r) PROVE Outcome(r)
<1> DEFINE p == req[r].pay
           row == [payment[p] EXCEPT !.refund = req[r].refund]
           w == [pend[r] EXCEPT !.payment = Patch(@, p, row)]
<1>1. p \in Payments /\ req[r].refund \in {"NONE", "PENDING", "COMPLETED"}
  BY Context DEF FinishRefund, LocalsOK, AtPayment, Locals
<1>2. row \in PaymentRow /\ row.status = payment[p].status /\ row.decisions = payment[p].decisions
  BY <1>1 DEF IInv, TypeOK, PaymentRow
<1>3. DecidedRow(row)
  BY <1>1, <1>2 DEF IInv, DecidedOnce, DecidedRow
<1> HIDE DEF row
<1>4. WritesFit(w) /\ Held(w) = Held(pend[r]) \cup {<<"payment", p>>}
  BY <1>1, <1>2, <1>3, Context, WritePayment
<1> HIDE DEF w
<1>5. CommitFits(r, w)
  BY <1>4, CommitDecision DEF FinishRefund
<1> QED
  BY <1>4, <1>5, ReconcilingOK DEF FinishRefund, Outcome, Committed, IInv, row, w

LEMMA BeginReadStep == ASSUME IInv, NEW r \in Requests, BeginRead(r) PROVE Outcome(r)
  BY Context, ReconcilingOK, NoWritesFit DEF BeginRead, Outcome, Staged, IInv

LEMMA ReadDueStep == ASSUME IInv, NEW r \in Requests, ReadDue(r) PROVE Outcome(r)
<1>1. req[r].todo = {}
  BY Context DEF ReadDue, LocalsOK, NoList
<1> QED
  BY <1>1, Context, GoOnStages DEF ReadDue, Outcome, IInv

LEMMA ExpirePassStep == ASSUME IInv, NEW r \in Requests, ExpirePass(r) PROVE Outcome(r)
<1> DEFINE e == req[r].item.pass
           row == [pass[e] EXCEPT !.status = "EXPIRED"]
           w == [pend[r] EXCEPT !.pass = Patch(@, e, row)]
<1>1. req[r].pc = "expirePass" /\ Unblocked(r) /\ e \in PassIds /\ req[r].todo = {}
  BY Context DEF ExpirePass, LocalsOK, AtPass, NoList, PassItems
<1>2. row \in PassRow
  BY <1>1, PassStatusChange DEF IInv, TypeOK
<1> HIDE DEF row
<1>3. WritesFit(w) /\ Held(w) = Held(pend[r]) \cup {<<"pass", e>>}
  BY <1>1, <1>2, Context, WritePass
<1>4. LocksFit(r, w)
  <2>1. <<"pass", e>> \in Needs(r)
    BY <1>1, NeededLocks
  <2> HIDE DEF w
  <2> QED
    BY <1>1, <1>3, <2>1, StagePass
<1> HIDE DEF w
<1>5. GoOn(r, w)
  BY DEF ExpirePass, w, row
<1> QED
  BY <1>1, <1>3, <1>4, <1>5, Context, GoOnStages DEF Outcome, IInv

LEMMA ActivatePassStep == ASSUME IInv, NEW r \in Requests, ActivatePass(r) PROVE Outcome(r)
<1> DEFINE e == req[r].item.pass
           row == [pass[e] EXCEPT !.status = "ACTIVE"]
           w == [pend[r] EXCEPT !.pass = Patch(@, e, row)]
           q == [req[r] EXCEPT !.pc = "grantIncluded"]
<1>1. /\ req[r].pc = "activatePass" /\ Unblocked(r) /\ e \in PassIds /\ req[r].todo = {}
      /\ req[r] \in Locals /\ req[r].item \in PassItems
  BY Context DEF ActivatePass, LocalsOK, AtPass, NoList, PassItems
<1>2. row \in PassRow
  BY <1>1, PassStatusChange DEF IInv, TypeOK
<1> HIDE DEF row
<1>3. WritesFit(w) /\ Held(w) = Held(pend[r]) \cup {<<"pass", e>>}
  BY <1>1, <1>2, Context, WritePass
<1>4. LocksFit(r, w)
  <2>1. <<"pass", e>> \in Needs(r)
    BY <1>1, NeededLocks
  <2> HIDE DEF w
  <2> QED
    BY <1>1, <1>3, <2>1, StagePass
<1> HIDE DEF w
<1>5. LocalsOK(q)
  <2>1. q \in Locals /\ q.pc = "grantIncluded" /\ q.item = req[r].item /\ q.todo = {}
    BY <1>1 DEF Locals, Pcs
  <2> QED
    BY <1>1, <2>1 DEF LocalsOK, AtPass, AtPayment, AtCredits, NoList
<1>6. CASE GoOn(r, w)
  BY <1>1, <1>3, <1>4, <1>6, Context, GoOnStages DEF Outcome, IInv
<1>7. CASE Stage(r, w, q)
  BY <1>3, <1>4, <1>5, <1>7 DEF Staged, Outcome
<1>8. GoOn(r, w) \/ Stage(r, w, q)
  BY ZenonT(60) DEF ActivatePass, w, row
<1> QED
  BY <1>6, <1>7, <1>8

LEMMA GrantIncludedStep == ASSUME IInv, NEW r \in Requests, GrantIncluded(r) PROVE Outcome(r)
<1> DEFINE e == req[r].item.pass
           fresh == NewBucket(e[2], PassCredits, View(pass, pend[r].pass)[e].endsAt)
           w1 == [pend[r] EXCEPT !.bucket = Patch(@, e[1], fresh)]
           w == [w1 EXCEPT !.wallet = TRUE]
<1>1. req[r].pc = "grantIncluded" /\ Unblocked(r) /\ e \in PassIds /\ req[r].todo = {}
  BY Context DEF GrantIncluded, LocalsOK, AtPass, NoList, PassItems
<1>2. e[1] \in Payments /\ e[2] \in 0..PassCount /\ PassCredits \in Nat
  BY <1>1, BillingAssumption DEF PassIds, Payments
<1>3. View(pass, pend[r].pass)[e].endsAt \in Nat
  BY <1>1, Context, SeenRows DEF IInv, PassRow
<1>4. fresh \in BucketRow
  BY <1>2, <1>3, NewBucketRow
<1> HIDE DEF fresh
<1>5. WritesFit(w1) /\ Held(w1) = Held(pend[r]) \cup {<<"bucket", e[1]>>}
  BY <1>2, <1>4, Context, WriteBucket
<1>6. WritesFit(w) /\ Held(w) = Held(pend[r]) \cup {<<"bucket", e[1]>>} \cup {<<"wallet">>}
  BY <1>5, WriteWallet
<1>7. LocksFit(r, w)
  <2> DEFINE L == {<<"bucket", e[1]>>, <<"wallet">>}
  <2>1. L \subseteq Needs(r)
    BY <1>1, NeededLocks
  <2>2. \A p \in Payments : <<"payment", p>> \notin L
    OBVIOUS
  <2>3. Held(w) = Held(pend[r]) \cup L
    BY <1>6
  <2> HIDE DEF w, L
  <2> QED
    BY <1>1, <2>1, <2>2, <2>3, StageLocked
<1>8. w = [pend[r] EXCEPT !.bucket = Patch(@, e[1], fresh), !.wallet = TRUE]
  OBVIOUS
<1> HIDE DEF w
<1>9. CASE GoOn(r, w)
  BY <1>1, <1>6, <1>7, <1>9, Context, GoOnStages DEF Outcome, IInv
<1>10. CASE Rollback(r, Idle)
  BY <1>10, BackToIdle DEF Outcome
<1> QED
  BY <1>8, <1>9, <1>10 DEF GrantIncluded, fresh

LEMMA ExpireBucketStep == ASSUME IInv, NEW r \in Requests, ExpireBucket(r) PROVE Outcome(r)
<1> DEFINE p == req[r].item.bucket
           old == View(bucket, pend[r].bucket)[p]
           over == [old EXCEPT !.status = "EXPIRED", !.remaining = 0, !.expired = @ + req[r].item.amount]
           w == [pend[r] EXCEPT !.bucket = Patch(@, p, over)]
           q == [req[r] EXCEPT !.pc = "expireLedger"]
<1>1. /\ req[r].pc = "expireBucket" /\ Unblocked(r) /\ req[r].item \in CreditItems
      /\ req[r].todo \subseteq CreditItems /\ req[r] \in Locals
  BY Context DEF ExpireBucket, LocalsOK, AtCredits
<1>2. p \in Payments /\ req[r].item.amount \in Nat
  BY <1>1 DEF CreditItems
<1>3. old \in BucketRow
  BY <1>2, Context, SeenRows, SMTT(60) DEF IInv
<1> HIDE DEF old
<1>4. over \in BucketRow
  BY <1>2, <1>3, ClearBucket
<1> HIDE DEF over
<1>5. WritesFit(w) /\ Held(w) = Held(pend[r]) \cup {<<"bucket", p>>}
  BY <1>2, <1>4, Context, WriteBucket
<1>6. LocksFit(r, w)
  <2>1. <<"bucket", p>> \in Needs(r)
    BY <1>1, NeededLocks
  <2> HIDE DEF w
  <2> QED
    BY <1>1, <1>5, <2>1, StageBucket
<1> HIDE DEF w
<1>7. LocalsOK(q)
  <2>1. q \in Locals /\ q.pc = "expireLedger" /\ q.item = req[r].item /\ q.todo = req[r].todo
    BY <1>1 DEF Locals, Pcs
  <2> QED
    BY <1>1, <2>1 DEF LocalsOK, AtPass, AtPayment, AtCredits, NoList
<1>8. Stage(r, w, q)
  BY DEF ExpireBucket, w, over, old
<1> QED
  BY <1>5, <1>6, <1>7, <1>8 DEF Staged, Outcome

LEMMA ExpireLedgerStep == ASSUME IInv, NEW r \in Requests, ExpireLedger(r) PROVE Outcome(r)
<1> DEFINE w == [pend[r] EXCEPT !.wallet = TRUE]
           done == [req[r] EXCEPT !.pc = "closeReconcile", !.item = NoItem]
<1>1. /\ req[r].pc = "expireLedger" /\ Unblocked(r) /\ req[r] \in Locals
      /\ req[r].todo \subseteq CreditItems
  BY Context DEF ExpireLedger, LocalsOK, AtCredits
<1>2. WritesFit(w) /\ Held(w) = Held(pend[r]) \cup {<<"wallet">>}
  BY Context, WriteWallet
<1>3. LocksFit(r, w)
  <2>1. <<"wallet">> \in Needs(r)
    BY <1>1, NeededLocks
  <2> HIDE DEF w
  <2> QED
    BY <1>1, <1>2, <2>1, StageWallet
<1> HIDE DEF w
<1>4. CASE req[r].todo = {} /\ Stage(r, w, done)
  <2>1. done \in Locals /\ done.pc = "closeReconcile" /\ done.todo = {}
    BY <1>1, <1>4 DEF Locals, Items, Pcs
  <2>2. LocalsOK(done)
    BY <2>1 DEF LocalsOK, AtPass, AtPayment, AtCredits, NoList
  <2> QED
    BY <1>2, <1>3, <1>4, <2>2 DEF Staged, Outcome
<1>5. ASSUME NEW x \in First(req[r].todo),
             Stage(r, w, [req[r] EXCEPT !.pc = "expireBucket", !.item = x, !.todo = @ \ {x}])
      PROVE  Outcome(r)
  <2> DEFINE q == [req[r] EXCEPT !.pc = "expireBucket", !.item = x, !.todo = req[r].todo \ {x}]
  <2>1. x \in req[r].todo
    BY DEF First
  <2>2. x \in Items /\ req[r].todo \ {x} \in SUBSET Items
    BY <1>1, <2>1 DEF Items
  <2>3. q \in Locals /\ q.pc = "expireBucket" /\ q.item = x /\ q.todo = req[r].todo \ {x}
    BY <1>1, <2>2 DEF Locals, Pcs
  <2>4. LocalsOK(q)
    BY <1>1, <2>1, <2>3 DEF LocalsOK, AtPass, AtPayment, AtCredits, NoList
  <2> QED
    BY <1>2, <1>3, <1>5, <2>4 DEF Staged, Outcome
<1> QED
  BY <1>4, <1>5 DEF ExpireLedger, w

LEMMA CloseReconcileStep == ASSUME IInv, NEW r \in Requests, CloseReconcile(r) PROVE Outcome(r)
<1> DEFINE w == [pend[r] EXCEPT !.wallet = TRUE]
           q == [req[r] EXCEPT !.pc = "readCredits", !.at = 0]
<1>1. WritesFit(w) /\ req[r] \in Locals
  BY Context, WriteWallet
<1>2. LocalsOK(q)
  <2>1. q \in Locals /\ q.pc = "readCredits"
    BY <1>1 DEF Locals, Pcs
  <2> QED
    BY <2>1 DEF LocalsOK, AtPass, AtPayment, AtCredits, NoList
<1>3. Commit(r, w, q) \/ Commit(r, w, Idle)
  BY DEF CloseReconcile, q, w
<1>4. CommitFits(r, w)
  <2>1. w.payment = pend[r].payment
    BY Context DEF WritesFit, WritesOK
  <2> HIDE DEF w
  <2> QED
    BY <2>1, CommitLocked
<1> HIDE DEF q, w
<1> QED
  BY <1>1, <1>2, <1>3, <1>4, IdleOK DEF Outcome, Committed

LEMMA BeginUseStep == ASSUME IInv, NEW r \in Requests, NEW amount \in Nat, BeginUse(r, amount) PROVE Outcome(r)
<1> DEFINE q == [Reconciling EXCEPT !.op = "use", !.amount = amount]
<1>1. Reconciling \in Locals /\ Reconciling.todo = {} /\ Reconciling.pc = "reconcile"
  BY ReconcilingOK DEF LocalsOK, IInv, Reconciling, Idle
<1>2. q \in Locals /\ q.pc = "reconcile" /\ q.todo = {}
  BY <1>1 DEF Locals, AllHandlers
<1>3. LocalsOK(q)
  BY <1>2 DEF LocalsOK, AtPass, AtPayment, AtCredits, NoList
<1> QED
  BY <1>3, Context, NoWritesFit DEF BeginUse, Outcome, Staged

LEMMA ReadCreditsStep == ASSUME IInv, NEW r \in Requests, ReadCredits(r) PROVE Outcome(r)
<1> DEFINE credits == {CreditItem(p, bucket[p]) : p \in Spendable}
<1>1. credits \subseteq CreditItems
  BY DEF Spendable, CreditItem, CreditItems, IInv, TypeOK, BucketRow
<1>2. req[r] \in Locals /\ req[r].amount \in Nat
  BY Context DEF Locals
<1> HIDE DEF credits
<1>3. CASE Rollback(r, Idle)
  BY <1>3, BackToIdle DEF Outcome
<1>4. ASSUME NEW x \in First(credits),
             Stage(r, NoWrites, [req[r] EXCEPT !.pc = "spend", !.item = x, !.todo = credits \ {x},
                                               !.toUse = req[r].amount])
      PROVE  Outcome(r)
  <2>1. x \in credits
    BY DEF First
  <2>2. LocalsOK([req[r] EXCEPT !.pc = "spend", !.item = x, !.todo = credits \ {x}, !.toUse = req[r].amount])
    BY <1>1, <1>2, <2>1, TakeCreditItem
  <2> QED
    BY <1>4, <2>2, Context, NoWritesFit DEF Staged, Outcome
<1> QED
  BY <1>3, <1>4 DEF ReadCredits, credits

LEMMA ConflictStep == ASSUME IInv, NEW r \in Requests, Conflict(r) PROVE Outcome(r)
<1> DEFINE tries == req[r].tries + 1
           again == [req[r] EXCEPT !.pc = "readCredits", !.item = NoItem, !.todo = {}, !.toUse = 0,
                                   !.tries = tries]
<1>1. req[r] \in Locals /\ tries \in Nat
  BY Context DEF Locals
<1> HIDE DEF tries
<1>2. again \in Locals /\ again.pc = "readCredits"
  <2>1. NoItem \in Items
    BY DEF Items
  <2> QED
    BY <1>1, <2>1, ZenonT(60) DEF Locals, Pcs
<1>3. LocalsOK(again)
  BY <1>2 DEF LocalsOK, AtPass, AtPayment, AtCredits, NoList
<1> HIDE DEF again
<1>4. Rollback(r, again) \/ Rollback(r, Idle)
  BY DEF Conflict, again, tries
<1> QED
  BY <1>3, <1>4, IdleOK DEF RolledBack, Outcome

LEMMA SpendStep == ASSUME IInv, NEW r \in Requests, Spend(r) PROVE Outcome(r)
<1> DEFINE p == req[r].item.bucket
           take == Take(req[r])
           left == req[r].item.amount - take
           row == [bucket[p] EXCEPT !.remaining = left, !.used = @ + take,
                                    !.status = IF left = 0 THEN "DEPLETED" ELSE "ACTIVE"]
           w == [pend[r] EXCEPT !.bucket = Patch(@, p, row)]
           q == [req[r] EXCEPT !.pc = "useLedger"]
<1>1. /\ req[r].pc = "spend" /\ Unblocked(r) /\ req[r].item \in CreditItems
      /\ req[r].todo \subseteq CreditItems /\ req[r] \in Locals
  BY Context DEF Spend, LocalsOK, AtCredits
<1>2. p \in Payments /\ req[r].item.amount \in Nat /\ req[r].toUse \in Nat
  BY <1>1 DEF CreditItems, Locals
<1>3. take \in Nat /\ left \in Nat /\ bucket[p] \in BucketRow
  BY <1>2 DEF Take, IInv, TypeOK
<1> HIDE DEF take, left
<1>4. row \in BucketRow
  BY <1>3, SpendBucket
<1> HIDE DEF row
<1>5. WritesFit(w) /\ Held(w) = Held(pend[r]) \cup {<<"bucket", p>>}
  BY <1>2, <1>4, Context, WriteBucket
<1>6. LocksFit(r, w)
  <2>1. <<"bucket", p>> \in Needs(r)
    BY <1>1, NeededLocks
  <2> HIDE DEF w
  <2> QED
    BY <1>1, <1>5, <2>1, StageBucket
<1>7. LocalsOK(q)
  <2>1. q \in Locals /\ q.pc = "useLedger" /\ q.item = req[r].item /\ q.todo = req[r].todo
    BY <1>1 DEF Locals, Pcs
  <2> QED
    BY <1>1, <2>1 DEF LocalsOK, AtPass, AtPayment, AtCredits, NoList
<1>8. CASE Conflict(r)
  BY <1>8, ConflictStep
<1>9. CASE Stage(r, w, q)
  BY <1>5, <1>6, <1>7, <1>9 DEF Staged, Outcome
<1> QED
  BY <1>8, <1>9 DEF Spend, row, left, take

LEMMA UseLedgerStep == ASSUME IInv, NEW r \in Requests, UseLedger(r) PROVE Outcome(r)
<1> DEFINE w == [pend[r] EXCEPT !.wallet = TRUE]
           left == req[r].toUse - Take(req[r])
<1>1. /\ req[r].pc = "useLedger" /\ Unblocked(r) /\ req[r] \in Locals
      /\ req[r].todo \subseteq CreditItems /\ req[r].item \in CreditItems
  BY Context DEF UseLedger, LocalsOK, AtCredits
<1>2. left \in Nat
  BY <1>1 DEF Take, CreditItems, Locals
<1>3. WritesFit(w) /\ Held(w) = Held(pend[r]) \cup {<<"wallet">>}
  BY Context, WriteWallet
<1>4. LocksFit(r, w) /\ CommitFits(r, w)
  <2>1. w.payment = pend[r].payment
    BY Context DEF WritesFit, WritesOK
  <2>2. <<"wallet">> \in Needs(r)
    BY <1>1, NeededLocks
  <2> HIDE DEF w
  <2>3. LocksFit(r, w)
    BY <1>1, <1>3, <2>2, StageWallet
  <2>4. CommitFits(r, w)
    BY <2>1, CommitLocked
  <2> QED
    BY <2>3, <2>4
<1> HIDE DEF w, left
<1>5. CASE Conflict(r)
  BY <1>5, ConflictStep
<1>6. ASSUME NEW x \in First(req[r].todo),
             Stage(r, w, [req[r] EXCEPT !.pc = "spend", !.item = x, !.todo = @ \ {x}, !.toUse = left])
      PROVE  Outcome(r)
  <2>1. x \in req[r].todo
    BY DEF First
  <2>2. LocalsOK([req[r] EXCEPT !.pc = "spend", !.item = x, !.todo = req[r].todo \ {x}, !.toUse = left])
    BY <1>1, <1>2, <2>1, TakeCreditItem
  <2> QED
    BY <1>3, <1>4, <1>6, <2>2 DEF Staged, Outcome
<1>7. CASE Commit(r, w, Idle)
  BY <1>3, <1>4, <1>7, IdleOK DEF Committed, Outcome
<1> QED
  BY <1>5, <1>6, <1>7 DEF UseLedger, w, left

\* Every step of a request ends in one of the three ways.
LEMMA RequestOutcome ==
  ASSUME IInv, NEW r \in Requests, Begin(r) \/ Step(r) \/ Fail(r)
  PROVE  Outcome(r)
<1>1. CASE Begin(r)
  <2>1. ASSUME NEW p \in Payments, AdminGrant(r, p) PROVE Outcome(r)
    BY <2>1, AdminGrantStep
  <2>2. ASSUME NEW p \in Payments, NEW op \in DOMAIN Verdict \cap Handlers, ReadPending(r, p, op)
        PROVE  Outcome(r)
    BY <2>2, ReadPendingStep
  <2>3. ASSUME NEW p \in Payments, NEW count \in 0..PassCount, NEW allow \in BOOLEAN,
               NEW status \in RefundInputs, ReadRefund(r, p, count, allow, status)
        PROVE  Outcome(r)
    BY <2>3, ReadRefundStep, BillingAssumption
  <2>4. ASSUME NEW amount \in UseAmounts, BeginUse(r, amount) PROVE Outcome(r)
    BY <2>4, BeginUseStep, BillingAssumption
  <2> QED
    BY <1>1, <2>1, <2>2, <2>3, <2>4, BeginReadStep DEF Begin
<1>2. CASE Step(r)
  <2>1. CASE DeadlockAbort(r)
    BY <2>1, ConflictStep, BackToIdle DEF DeadlockAbort, Outcome
  <2> QED
    BY <1>2, <2>1, DecideStep, ProvisionStep, CancelPassStep, ReadPackStep, ClawbackStep, AdjustLedgerStep,
       FinishRefundStep, ReadDueStep, ExpirePassStep, ActivatePassStep, GrantIncludedStep, ExpireBucketStep,
       ExpireLedgerStep, CloseReconcileStep, ReadCreditsStep, SpendStep, UseLedgerStep DEF Step
<1>3. CASE Fail(r)
  BY <1>3, BackToIdle DEF Fail, Outcome
<1> QED
  BY <1>1, <1>2, <1>3

-----------------------------------------------------------------------------
(***************************************************************************)
(* The theorems.                                                           *)
(***************************************************************************)
LEMMA InitIInv == Init => IInv
<1> SUFFICES ASSUME Init PROVE IInv
  OBVIOUS
<1>1. TypeOK
  <2>1. payment \in [Payments -> PaymentRow] /\ pass \in [PassIds -> PassRow] /\ bucket \in [Payments -> BucketRow]
    BY NullRows DEF Init
  <2>2. req \in [Requests -> Locals]
    BY IdleOK DEF Init, LocalsOK
  <2>3. pend = [r \in Requests |-> pend[r]] /\ \A r \in Requests : WritesOK(pend[r])
    BY NoWritesFit DEF Init, WritesFit
  <2> QED
    BY <2>1, <2>2, <2>3 DEF Init, TypeOK
<1>2. \A r \in Requests : LocalsOK(req[r]) /\ Decisions(pend[r]) /\ LocksFit(r, pend[r])
  BY IdleOK, NoWritesFit, NoWritesHoldNothing DEF Init, WritesFit, LocksFit, Locks
<1>3. DecidedOnce
  BY DEF Init, DecidedOnce, NoPaymentRow
<1> QED
  BY <1>1, <1>2, <1>3 DEF IInv

\* A commit changes the status of a payment only if it was undecided, and changes no row that
\* another transaction has locked.
LEMMA CommitPayments ==
  ASSUME IInv, NEW r \in Requests, NEW w, WritesFit(w), CommitFits(r, w), payment' = View(payment, w.payment)
  PROVE  /\ payment' \in [Payments -> PaymentRow]
         /\ \A p \in Payments : payment[p].status \in Undecided \/ payment'[p].status = payment[p].status
         /\ \A p \in Payments : DecidedRow(payment'[p])
         /\ \A s \in Requests \ {r}, p \in Payments : Locks(pend[s], p) => payment'[p] = payment[p]
<1>1. payment' \in [Payments -> PaymentRow]
  BY ViewRows DEF IInv, TypeOK, WritesFit, WritesOK
<1>2. \A p \in Payments : payment'[p] = IF p \in DOMAIN w.payment THEN w.payment[p] ELSE payment[p]
  BY DEF View, IInv, TypeOK
<1>3. \A p \in Payments : DecidedRow(payment[p])
  BY DEF IInv, DecidedOnce, DecidedRow
<1>4. \A s \in Requests \ {r}, p \in Payments : Locks(pend[s], p) => p \notin DOMAIN w.payment
  BY LocksPayments DEF CommitFits
<1> QED
  BY <1>1, <1>2, <1>3, <1>4 DEF WritesFit, Decisions

\* The three ways a request's step ends keep the invariant.
LEMMA OutcomeKeepsIInv ==
  ASSUME IInv, NEW r \in Requests, Outcome(r)
  PROVE  IInv'
<1>1. ASSUME NEW w, WritesOK(w), NEW q, LocalsOK(q),
             pend' = [pend EXCEPT ![r] = w], req' = [req EXCEPT ![r] = q]
      PROVE  /\ req' \in [Requests -> Locals]
             /\ pend' = [s \in Requests |-> pend'[s]] /\ \A s \in Requests : WritesOK(pend'[s])
             /\ \A s \in Requests : LocalsOK(req'[s])
             /\ pend'[r] = w /\ \A s \in Requests \ {r} : pend'[s] = pend[s]
  BY <1>1 DEF IInv, TypeOK, LocalsOK
<1>2. WritesOK(NoWrites) /\ DOMAIN NoWrites.payment = {} /\ Held(NoWrites) = {}
  BY NoWritesFit, NoWritesHoldNothing DEF WritesFit, NoWrites
<1>3. CASE Staged(r)
  <2>1. PICK w, q : WritesFit(w) /\ LocksFit(r, w) /\ LocalsOK(q) /\ Stage(r, w, q)
    BY <1>3 DEF Staged
  <2>2. UNCHANGED <<now, payment, pass, bucket, stale>>
    BY <2>1 DEF Stage
  <2>3. /\ req' \in [Requests -> Locals]
        /\ pend' = [s \in Requests |-> pend'[s]] /\ \A s \in Requests : WritesOK(pend'[s])
        /\ \A s \in Requests : LocalsOK(req'[s])
        /\ pend'[r] = w /\ \A s \in Requests \ {r} : pend'[s] = pend[s]
    BY <2>1, <1>1 DEF Stage, WritesFit
  <2>4. \A s \in Requests : Decisions(pend[s])'
    BY <2>1, <2>2, <2>3 DEF WritesFit, Decisions, IInv
  <2>5. \A s \in Requests : LocksFit(s, pend[s])'
    BY <2>1, <2>2, <2>3 DEF LocksFit, IInv, Locks
  <2> QED
    BY <2>2, <2>3, <2>4, <2>5 DEF IInv, TypeOK, DecidedOnce
<1>4. CASE Committed(r)
  <2>1. PICK w, q : WritesFit(w) /\ CommitFits(r, w) /\ LocalsOK(q) /\ Commit(r, w, q)
    BY <1>4 DEF Committed
  <2>2. /\ payment' \in [Payments -> PaymentRow]
        /\ \A p \in Payments : DecidedRow(payment'[p])
        /\ \A s \in Requests \ {r}, p \in Payments : Locks(pend[s], p) => payment'[p] = payment[p]
    BY <2>1, CommitPayments DEF Commit
  <2>3. pass' \in [PassIds -> PassRow] /\ bucket' \in [Payments -> BucketRow] /\ now' \in Nat
    BY <2>1, SeenRows DEF Commit, IInv, TypeOK
  <2>4. stale' \in [Requests -> SUBSET RowNames]
    <3>1. Changed(w) \subseteq RowNames
      BY <2>1 DEF Changed, Held, RowNames, WritesFit, WritesOK
    <3> QED
      BY <2>1, <3>1 DEF Commit, IInv, TypeOK
  <2>5. DecidedOnce'
    BY <2>2 DEF DecidedOnce, DecidedRow
  <2>6. /\ req' \in [Requests -> Locals]
        /\ pend' = [s \in Requests |-> pend'[s]] /\ \A s \in Requests : WritesOK(pend'[s])
        /\ \A s \in Requests : LocalsOK(req'[s])
        /\ pend'[r] = NoWrites /\ \A s \in Requests \ {r} : pend'[s] = pend[s]
    BY <2>1, <1>1, <1>2 DEF Commit
  <2>7. \A s \in Requests : Decisions(pend[s])'
    <3>1. \A s \in Requests : WritesOK(pend[s])
      BY DEF IInv, TypeOK
    <3>2. ASSUME NEW s \in Requests \ {r}, NEW p \in DOMAIN pend[s].payment PROVE payment'[p] = payment[p]
      BY <2>2, <3>1, LocksPayments DEF WritesOK
    <3> QED
      BY <1>2, <2>6, <3>2 DEF Decisions, IInv
  <2>8. \A s \in Requests : LocksFit(s, pend[s])'
    BY <1>2, <2>2, <2>6 DEF LocksFit, IInv, Locks
  <2> QED
    BY <2>2, <2>3, <2>4, <2>5, <2>6, <2>7, <2>8 DEF IInv, TypeOK
<1>5. CASE RolledBack(r)
  <2>1. PICK q : LocalsOK(q) /\ Rollback(r, q)
    BY <1>5 DEF RolledBack
  <2>2. stale' \in [Requests -> SUBSET RowNames] /\ UNCHANGED <<now, payment, pass, bucket>>
    BY <2>1 DEF Rollback, IInv, TypeOK
  <2>3. /\ req' \in [Requests -> Locals]
        /\ pend' = [s \in Requests |-> pend'[s]] /\ \A s \in Requests : WritesOK(pend'[s])
        /\ \A s \in Requests : LocalsOK(req'[s])
        /\ pend'[r] = NoWrites /\ \A s \in Requests \ {r} : pend'[s] = pend[s]
    BY <2>1, <1>1, <1>2 DEF Rollback
  <2>4. \A s \in Requests : Decisions(pend[s])'
    BY <1>2, <2>2, <2>3 DEF Decisions, IInv
  <2>5. \A s \in Requests : LocksFit(s, pend[s])'
    BY <1>2, <2>2, <2>3 DEF LocksFit, IInv, Locks
  <2> QED
    BY <2>2, <2>3, <2>4, <2>5 DEF IInv, TypeOK, DecidedOnce
<1> QED
  BY <1>3, <1>4, <1>5 DEF Outcome

\* What a step does to the status of a payment.
KeepsDecisions == \A p \in Payments :
    payment[p].status \notin Undecided => payment'[p].status = payment[p].status

LEMMA OutcomeKeepsDecisions ==
  ASSUME IInv, NEW r \in Requests, Outcome(r)
  PROVE  KeepsDecisions
<1>1. CASE Committed(r)
  BY <1>1, CommitPayments DEF Committed, Commit, KeepsDecisions
<1>2. CASE Staged(r) \/ RolledBack(r)
  BY <1>2 DEF Staged, Stage, RolledBack, Rollback, KeepsDecisions
<1> QED
  BY <1>1, <1>2 DEF Outcome

LEMMA PurchaseKeepsIInv ==
  ASSUME IInv, NEW p \in Payments, Purchase(p)
  PROVE  IInv' /\ KeepsDecisions
<1> DEFINE row == [payment[p] EXCEPT !.status = "PENDING_DEPOSIT"]
<1>1. row \in PaymentRow /\ row.status = "PENDING_DEPOSIT" /\ row.decisions = 0 /\ payment[p].status = "NONE"
  BY DEF Purchase, IInv, TypeOK, DecidedOnce, PaymentRow, PaymentStatus
<1>2. payment' = [payment EXCEPT ![p] = row] /\ UNCHANGED <<now, pass, bucket, req, pend, stale>>
  BY DEF Purchase
<1> HIDE DEF row
<1>3. payment' \in [Payments -> PaymentRow] /\ DecidedOnce' /\ KeepsDecisions
  BY <1>1, <1>2 DEF IInv, TypeOK, DecidedOnce, KeepsDecisions, Undecided
<1>4. ASSUME NEW r \in Requests PROVE Decisions(pend[r])' /\ LocksFit(r, pend[r])'
  <2>1. p \notin DOMAIN pend[r].payment /\ WritesOK(pend[r])
    BY <1>1, LocksPayments DEF IInv, LocksFit, TypeOK
  <2>2. \A o \in DOMAIN pend[r].payment : payment'[o] = payment[o]
    BY <1>2, <2>1 DEF WritesOK, IInv, TypeOK
  <2>3. \A o \in Payments : payment[o].status # "NONE" => payment'[o].status # "NONE"
    BY <1>1, <1>2 DEF IInv, TypeOK
  <2>4. Decisions(pend[r]) /\ LocksFit(r, pend[r]) /\ UNCHANGED pend
    BY <1>2 DEF IInv
  <2>5. Decisions(pend[r])'
    BY <2>2, <2>4 DEF Decisions
  <2>6. LocksFit(r, pend[r])'
    BY <2>3, <2>4 DEF LocksFit, Locks
  <2> QED
    BY <2>5, <2>6
<1> QED
  BY <1>2, <1>3, <1>4 DEF IInv, TypeOK

LEMMA NextKeepsIInv == IInv /\ [Next]_vars => IInv' /\ KeepsDecisions
<1> SUFFICES ASSUME IInv, [Next]_vars PROVE IInv' /\ KeepsDecisions
  OBVIOUS
<1>1. ASSUME NEW r \in Requests, Begin(r) \/ Step(r) \/ Fail(r) PROVE IInv' /\ KeepsDecisions
  BY <1>1, RequestOutcome, OutcomeKeepsIInv, OutcomeKeepsDecisions
<1>2. CASE Tick
  BY <1>2 DEF Tick, IInv, TypeOK, DecidedOnce, Decisions, LocksFit, Locks, KeepsDecisions
<1>3. ASSUME NEW p \in Payments, Purchase(p) PROVE IInv' /\ KeepsDecisions
  BY <1>3, PurchaseKeepsIInv
<1>4. CASE UNCHANGED vars
  BY <1>4 DEF vars, IInv, TypeOK, DecidedOnce, Decisions, LocksFit, Locks, KeepsDecisions
<1> QED
  BY <1>1, <1>2, <1>3, <1>4 DEF Next, Work

LEMMA SpecIInv == Spec => []IInv
<1> QED
  BY InitIInv, NextKeepsIInv, PTL DEF Spec

\* Whatever requests overlap, fail or dead-lock, every row of the billing tables, committed or
\* not, has its type: no bucket goes below zero, no column leaves the values of the schema.
THEOREM TypeCorrect == Spec => []TypeOK
<1>1. IInv => TypeOK
  BY DEF IInv
<1> QED
  BY <1>1, SpecIInv, PTL

\* approvePayment, rejectPayment and cancelInstructorPayment decide a payment once, for any
\* number of payments and of requests that race for them.
THEOREM PaymentDecidedOnce == Spec => []DecidedOnce
<1>1. IInv => DecidedOnce
  BY DEF IInv
<1> QED
  BY <1>1, SpecIInv, PTL
\* No request that is still under way, whatever it read before, changes a decided payment:
\* the row's lock and the guard of updatePayment let only one decision through.
THEOREM DecisionsAreFinal == Spec => DecisionIsFinal
<1>1. IInv /\ [Next]_vars =>
        [\A p \in Payments : payment[p].status \notin {"NONE", "PENDING_DEPOSIT"}
                                => payment'[p].status = payment[p].status]_vars
  BY NextKeepsIInv DEF KeepsDecisions, Undecided
<1> QED
  BY <1>1, SpecIInv, PTL DEF Spec, DecisionIsFinal

(***************************************************************************)
(* The contract.  The invariant of types and locks is joined by one of     *)
(* money: a transaction has only written passes and buckets of a payment   *)
(* that is approved, or it is the one that approves it; a bucket it wrote  *)
(* differs from the committed row by credits that lapse, that begin or     *)
(* that are used; and a serializable transaction that is not stale has     *)
(* read the credits it spends as they are.                                 *)
(***************************************************************************)
Paid(p) == p \in Payments /\ payment[p].status = "APPROVED"

BucketFits(b) ==
    /\ b.used + b.remaining <= b.granted /\ b.granted <= PassCredits + PackCredits
    /\ b.status = "NONE" => b.granted = 0

\* What the committed tables say of each other.
TablesFit ==
    /\ BenefitsFollowApproval
    /\ \A p \in Payments : /\ BucketFits(bucket[p])
                           /\ bucket[p].status # "NONE" => Paid(p)
                           /\ p \in GrantPayments => payment[p].status \in {"NONE", "APPROVED"}

\* What a transaction wrote in a bucket: credits that are lost, that begin with their pass, or that
\* are taken by consumeCredits.
Lost(row, b) == row.remaining = 0 /\ row.granted = b.granted /\ row.used = b.used
Begun(p, row, b) == /\ p \in PassPayments /\ b.status = "NONE"
                    /\ row.granted = PassCredits /\ row.used = 0 /\ row.remaining \in {0, PassCredits}
Taken(row, b) == row.granted = b.granted /\ row.used + row.remaining = b.used + b.remaining /\ b.used <= row.used

Settled(w) == \A p \in DOMAIN w.bucket : Lost(w.bucket[p], bucket[p]) \/ Begun(p, w.bucket[p], bucket[p])
Spent(w) == \A p \in DOMAIN w.bucket : Taken(w.bucket[p], bucket[p])
TakenFrom(w) == [p \in Payments |-> IF p \in DOMAIN w.bucket THEN w.bucket[p].used - bucket[p].used ELSE 0]

\* The transaction of an approval, between the decision and what the payment buys.
Approving(w, p) ==
    /\ payment[p].status = "PENDING_DEPOSIT"
    /\ DOMAIN w.payment = {p} /\ w.payment[p].status = "APPROVED"
    /\ DOMAIN w.pass = {} /\ DOMAIN w.bucket = {}

\* Any other transaction.
PaidFor(w) ==
    /\ DOMAIN w.payment = {}
    /\ \A e \in DOMAIN w.pass : Paid(e[1]) /\ w.pass[e].status # "NONE"
    /\ \A p \in DOMAIN w.bucket : Paid(p) /\ w.bucket[p].status # "NONE"

\* What consumeCredits has in hand: rows of its snapshot, each to be spent once, and the amount.
InHand(q) == q.todo \cup {q.item}
Fresh(r, x) == <<"bucket", x.bucket>> \in stale[r] \/ bucket[x.bucket].remaining = x.amount
Spending(r, q, w) ==
    /\ Spent(w)
    /\ \A x \in InHand(q) : Fresh(r, x)
    /\ \A x \in q.todo : x.bucket \notin DOMAIN w.bucket /\ x.bucket # q.item.bucket
    /\ \A x, y \in q.todo : x.bucket = y.bucket => x = y
    /\ q.pc = "spend" => /\ q.item.bucket \notin DOMAIN w.bucket
                         /\ Total(TakenFrom(w), Payments) + q.toUse = q.amount
    /\ q.pc = "useLedger" => Total(TakenFrom(w), Payments) + q.toUse = q.amount + Take(q)

Refunding == {"cancelPass", "clawback", "adjustLedger"}
RequestFits(r, q, w) ==
    /\ q.pc = "provision" => Approving(w, q.pay)
    /\ q.pc # "provision" => PaidFor(w)
    /\ q.pc \notin {"provision", "spend", "useLedger"} => Settled(w)
    /\ InSnapshot(q) => Spending(r, q, w)
    /\ q.pc \in Refunding => Paid(q.pay) /\ \A x \in q.todo : x.pass[1] = q.pay
    /\ q.pc = "cancelPass" => q.item.pass[1] = q.pay
    /\ q.pc \in {"expirePass", "activatePass", "grantIncluded"} => Paid(q.item.pass[1])
    /\ q.pc \in AtCredits => \A x \in InHand(q) : Paid(x.bucket)
    /\ q.op = "use" \/ q.pc \in {"readCredits", "spend", "useLedger"} => q.amount \in UseAmounts
    /\ q.pc \in Refunding \cup {"readPack", "finishRefund"} => q.op = "refund"

JInv == TablesFit /\ \A r \in Requests : RequestFits(r, req[r], pend[r])

-----------------------------------------------------------------------------
(***************************************************************************)
(* What other requests do to a transaction's claims.                       *)
(***************************************************************************)
\* A request that has written nothing yet.
Quiet(q) ==
    /\ q.pc \in {"idle", "decide", "reconcile", "readCredits"}
    /\ q.op = "use" \/ q.pc = "readCredits" => q.amount \in UseAmounts

LEMMA QuietFits == ASSUME NEW r, NEW q, Quiet(q) PROVE RequestFits(r, q, NoWrites) /\ RequestFits(r, q, NoWrites)'
  BY DEF Quiet, RequestFits, PaidFor, Settled, NoWrites, Refunding, AtCredits, InSnapshot

LEMMA IdleQuiet == Quiet(Idle) /\ Quiet(Reconciling)
  BY DEF Quiet, Idle, Reconciling

\* As long as the tables stay, so do the claims.
LEMMA SameTables ==
  ASSUME NEW r, NEW q, NEW w, RequestFits(r, q, w), UNCHANGED <<payment, pass, bucket>>, stale'[r] = stale[r]
  PROVE  RequestFits(r, q, w)'
<1>1. TakenFrom(w)' = TakenFrom(w)
  BY DEF TakenFrom
<1>2. Spending(r, q, w)' <=> Spending(r, q, w)
  BY <1>1 DEF Spending, Spent, Fresh, Taken
<1> QED
  BY <1>2 DEF RequestFits, Approving, PaidFor, Settled, Paid, Lost, Begun

\* Another request's commit leaves alone what it does not lock, and lets a snapshot know.
LEMMA OtherTables ==
  ASSUME NEW r, NEW q, NEW w, RequestFits(r, q, w),
         \A p : Paid(p) => Paid(p)',
         q.pc = "provision" => payment'[q.pay] = payment[q.pay],
         \A p \in DOMAIN w.bucket : bucket'[p] = bucket[p],
         InSnapshot(q) => \A x \in InHand(q) : Fresh(r, x) => Fresh(r, x)'
  PROVE  RequestFits(r, q, w)'
<1>1. TakenFrom(w)' = TakenFrom(w)
  BY DEF TakenFrom
<1>2. InSnapshot(q) /\ Spending(r, q, w) => Spending(r, q, w)'
  BY <1>1 DEF Spending, Spent, Taken
<1> QED
  BY <1>2 DEF RequestFits, Approving, PaidFor, Settled, Lost, Begun, Paid

\* A step the contract does not see.
Silent == JInv' /\ UNCHANGED <<payment, bucket>>

\* The three ways a step ends, for the claims of all requests.
LEMMA StageKeeps ==
  ASSUME IInv, JInv, NEW r \in Requests, NEW w, NEW q, RequestFits(r, q, w), Stage(r, w, q)
  PROVE  Silent
<1>1. UNCHANGED <<payment, pass, bucket>> /\ UNCHANGED stale
  BY DEF Stage
<1>2. /\ req'[r] = q /\ pend'[r] = w
      /\ \A s \in Requests \ {r} : req'[s] = req[s] /\ pend'[s] = pend[s]
  BY DEF Stage, IInv, TypeOK
<1>3. TablesFit'
  BY <1>1 DEF JInv, TablesFit, BenefitsFollowApproval, Paid
<1>4. ASSUME NEW s \in Requests PROVE RequestFits(s, req'[s], pend'[s])
  BY <1>2 DEF JInv
<1>5. ASSUME NEW s \in Requests PROVE RequestFits(s, req[s], pend[s])'
  <2>1. PICK p, v : p = req'[s] /\ v = pend'[s]
    OBVIOUS
  <2>2. RequestFits(s, p, v)'
    BY <1>1, <1>4, <2>1, SameTables
  <2> QED
    BY <2>1, <2>2
<1> QED
  BY <1>1, <1>3, <1>5 DEF JInv, Silent

LEMMA RollbackKeeps ==
  ASSUME IInv, JInv, NEW r \in Requests, NEW q, Quiet(q), Rollback(r, q)
  PROVE  Silent
<1>1. UNCHANGED <<payment, pass, bucket>>
  BY DEF Rollback
<1>2. /\ req'[r] = q /\ pend'[r] = NoWrites
      /\ \A s \in Requests \ {r} : req'[s] = req[s] /\ pend'[s] = pend[s] /\ stale'[s] = stale[s]
  BY DEF Rollback, IInv, TypeOK
<1>3. TablesFit'
  BY <1>1 DEF JInv, TablesFit, BenefitsFollowApproval, Paid
<1>4. ASSUME NEW s \in Requests \ {r} PROVE RequestFits(s, req[s], pend[s])'
  <2>1. PICK p, v : p = req'[s] /\ v = pend'[s]
    OBVIOUS
  <2>2. RequestFits(s, p, v)
    BY <1>2, <2>1 DEF JInv
  <2>3. RequestFits(s, p, v)'
    BY <1>1, <1>2, <2>2, SameTables
  <2> QED
    BY <2>1, <2>3
<1>5. RequestFits(r, req[r], pend[r])'
  <2>1. RequestFits(r, q, NoWrites)'
    BY QuietFits
  <2> QED
    BY <1>2, <2>1
<1> QED
  BY <1>1, <1>3, <1>4, <1>5 DEF JInv, Silent

\* A commit writes no bucket that another open transaction has written.
BucketsApart(r, w) == \A s \in Requests \ {r} : DOMAIN w.bucket \cap DOMAIN pend[s].bucket = {}

LEMMA CommitKeeps ==
  ASSUME IInv, JInv, KeepsDecisions, NEW r \in Requests, NEW w, NEW q, Quiet(q), Commit(r, w, q),
         CommitFits(r, w), BucketsApart(r, w), TablesFit'
  PROVE  JInv'
<1>1. /\ payment' = View(payment, w.payment) /\ bucket' = View(bucket, w.bucket)
      /\ req'[r] = q /\ pend'[r] = NoWrites
      /\ \A s \in Requests \ {r} : req'[s] = req[s] /\ pend'[s] = pend[s]
  BY DEF Commit, IInv, TypeOK
<1>2. \A p \in Payments : /\ p \notin DOMAIN w.payment => payment'[p] = payment[p]
                          /\ p \notin DOMAIN w.bucket => bucket'[p] = bucket[p]
  BY <1>1 DEF View, IInv, TypeOK
<1>3. \A p : Paid(p) => Paid(p)'
  BY DEF Paid, KeepsDecisions, Undecided
<1>4. ASSUME NEW s \in Requests \ {r} PROVE RequestFits(s, req[s], pend[s])'
  <2>1. PICK p, v : p = req'[s] /\ v = pend'[s]
    OBVIOUS
  <2>2. RequestFits(s, p, v) /\ p = req[s] /\ v = pend[s]
    BY <1>1, <2>1 DEF JInv
  <2>3. p.pc = "provision" => payment'[p.pay] = payment[p.pay]
    <3> SUFFICES ASSUME p.pc = "provision" PROVE payment'[p.pay] = payment[p.pay]
      OBVIOUS
    <3>1. p.pay \in Payments /\ Locks(v, p.pay)
      BY <2>2, LocksPayments, Context DEF LocalsOK, AtPayment, RequestFits, Approving
    <3> QED
      BY <1>2, <2>2, <3>1, LocksPayments DEF CommitFits
  <2>4. \A o \in DOMAIN v.bucket : bucket'[o] = bucket[o]
    <3>1. DOMAIN v.bucket \subseteq Payments
      BY <2>2 DEF IInv, TypeOK, WritesOK
    <3> QED
      BY <1>2, <2>2, <3>1 DEF BucketsApart
  <2>5. ASSUME InSnapshot(p), NEW x \in InHand(p), Fresh(s, x) PROVE Fresh(s, x)'
    <3>1. x.bucket \in Payments
      BY <2>2, <2>5, Context DEF LocalsOK, AtCredits, InSnapshot, InHand, CreditItems
    <3>2. stale'[s] = stale[s] \cup Changed(w)
      BY <2>2, <2>5 DEF Commit
    <3>3. x.bucket \in DOMAIN w.bucket => <<"bucket", x.bucket>> \in Changed(w)
      BY DEF Changed, Held
    <3> QED
      BY <1>2, <2>5, <3>1, <3>2, <3>3 DEF Fresh
  <2>6. RequestFits(s, p, v)'
    BY <1>3, <2>2, <2>3, <2>4, <2>5, OtherTables
  <2> QED
    BY <2>1, <2>6
<1>5. RequestFits(r, req[r], pend[r])'
  <2>1. RequestFits(r, q, NoWrites)'
    BY QuietFits
  <2> QED
    BY <1>1, <2>1
<1> QED
  BY <1>4, <1>5 DEF JInv

-----------------------------------------------------------------------------
(***************************************************************************)
(* The statements, and the steps of the handlers that stage them.          *)
(***************************************************************************)
\* What the invariant says of one request.
LEMMA Claims ==
  ASSUME IInv, JInv, NEW r \in Requests
  PROVE  /\ RequestFits(r, req[r], pend[r])
         /\ req[r] \in Locals /\ LocalsOK(req[r]) /\ WritesOK(pend[r])
  BY Context DEF JInv, WritesFit

\* A written row of a paid pass or bucket.
LEMMA PaidPass ==
  ASSUME NEW w, WritesOK(w), PaidFor(w), Settled(w), NEW e, Paid(e[1]), NEW row, row.status # "NONE",
         NEW v, v = [w EXCEPT !.pass = Patch(@, e, row)]
  PROVE  PaidFor(v) /\ Settled(v)
<1>1. v.payment = w.payment /\ v.bucket = w.bucket /\ v.pass = Patch(w.pass, e, row)
  BY DEF WritesOK
<1> QED
  BY <1>1 DEF PaidFor, Settled, Patch

LEMMA PaidBucket ==
  ASSUME NEW w, WritesOK(w), PaidFor(w), Settled(w), NEW p, Paid(p), NEW row, row.status # "NONE",
         Lost(row, bucket[p]) \/ Begun(p, row, bucket[p]),
         NEW v, v = [w EXCEPT !.bucket = Patch(@, p, row)]
  PROVE  PaidFor(v) /\ Settled(v)
<1>1. v.payment = w.payment /\ v.pass = w.pass /\ v.bucket = Patch(w.bucket, p, row)
  BY DEF WritesOK
<1> QED
  BY <1>1 DEF PaidFor, Settled, Patch

LEMMA PaidWallet ==
  ASSUME NEW w, WritesOK(w), NEW v, v = [w EXCEPT !.wallet = TRUE]
  PROVE  /\ v.payment = w.payment /\ v.pass = w.pass /\ v.bucket = w.bucket
         /\ PaidFor(w) => PaidFor(v)
         /\ Settled(w) => Settled(v)
<1>1. v.payment = w.payment /\ v.pass = w.pass /\ v.bucket = w.bucket
  BY DEF WritesOK
<1> QED
  BY <1>1 DEF PaidFor, Settled

\* Emptying a bucket as the transaction sees it.
LEMMA Emptied ==
  ASSUME IInv, NEW w, Settled(w), NEW p \in Payments, NEW row,
         row.remaining = 0, row.granted = View(bucket, w.bucket)[p].granted, row.used = View(bucket, w.bucket)[p].used
  PROVE  Lost(row, bucket[p]) \/ Begun(p, row, bucket[p])
<1>1. View(bucket, w.bucket)[p] = IF p \in DOMAIN w.bucket THEN w.bucket[p] ELSE bucket[p]
  BY DEF View, IInv, TypeOK
<1> QED
  BY <1>1 DEF Settled, Lost, Begun

\* What a transaction sees is paid.
LEMMA SeenIsPaid ==
  ASSUME IInv, JInv, NEW w, PaidFor(w)
  PROVE  /\ \A e \in PassIds : View(pass, w.pass)[e].status # "NONE" => Paid(e[1])
         /\ \A p \in Payments : View(bucket, w.bucket)[p].status # "NONE" => Paid(p)
<1>1. \A e \in PassIds : pass[e].status # "NONE" => Paid(e[1])
  BY DEF JInv, TablesFit, BenefitsFollowApproval, Paid, PassIds, Payments
<1>2. \A p \in Payments : bucket[p].status # "NONE" => Paid(p)
  BY DEF JInv, TablesFit
<1> QED
  BY <1>1, <1>2 DEF View, PaidFor, IInv, TypeOK

LEMMA NextTargetKeeps ==
  ASSUME IInv, JInv, NEW r \in Requests, req[r].pc \in Refunding, NEW w, PaidFor(w), Settled(w), NextTarget(r, w)
  PROVE  Silent
<1>1. /\ req[r] \in Locals /\ Paid(req[r].pay) /\ req[r].op = "refund"
      /\ \A x \in req[r].todo : x.pass[1] = req[r].pay
  BY Claims DEF RequestFits
<1>2. CASE req[r].todo = {} /\ Stage(r, w, [req[r] EXCEPT !.pc = "finishRefund", !.item = NoItem, !.amount = 0])
  <2> DEFINE q == [req[r] EXCEPT !.pc = "finishRefund", !.item = NoItem, !.amount = 0]
  <2>1. q.pc = "finishRefund" /\ q.op = "refund"
    BY <1>1 DEF Locals
  <2>2. RequestFits(r, q, w)
    BY <2>1 DEF RequestFits, Refunding, AtCredits, InSnapshot
  <2> QED
    BY <1>2, <2>2, StageKeeps
<1>3. ASSUME NEW x \in First(req[r].todo),
             Stage(r, w, [req[r] EXCEPT !.pc = "cancelPass", !.item = x, !.todo = @ \ {x}, !.amount = 0])
      PROVE  Silent
  <2> DEFINE q == [req[r] EXCEPT !.pc = "cancelPass", !.item = x, !.todo = @ \ {x}, !.amount = 0]
  <2>1. /\ q.pc = "cancelPass" /\ q.op = "refund" /\ q.pay = req[r].pay
        /\ q.item = x /\ q.todo = req[r].todo \ {x} /\ x \in req[r].todo
    BY <1>1 DEF Locals, First
  <2> HIDE DEF q
  <2>2. RequestFits(r, q, w)
    BY <1>1, <2>1 DEF RequestFits, Refunding, AtCredits, InSnapshot
  <2> QED
    BY <1>3, <2>2, StageKeeps DEF q
<1> QED
  BY <1>2, <1>3 DEF NextTarget

\* Where the list of a refund and the reads of a reconcile lead.
LEMMA NextTargetGoes ==
  ASSUME NEW r, NEW w, req[r] \in Locals, NextTarget(r, w)
  PROVE  \E q : q.pc \in {"finishRefund", "cancelPass"} /\ Stage(r, w, q)
<1> DEFINE last == [req[r] EXCEPT !.pc = "finishRefund", !.item = NoItem, !.amount = 0]
           next(x) == [req[r] EXCEPT !.pc = "cancelPass", !.item = x, !.todo = @ \ {x}, !.amount = 0]
<1>1. last.pc = "finishRefund" /\ \A x : next(x).pc = "cancelPass"
  BY DEF Locals
<1>2. Stage(r, w, last) \/ \E x : Stage(r, w, next(x))
  BY DEF NextTarget
<1> HIDE DEF last, next
<1> QED
  BY <1>1, <1>2

LEMMA GoOnGoes ==
  ASSUME NEW r, NEW w, req[r] \in Locals, GoOn(r, w)
  PROVE  \E q : q.pc \in {"expirePass", "activatePass", "expireBucket", "closeReconcile"} /\ Stage(r, w, q)
<1> DEFINE at(pc, x) == [req[r] EXCEPT !.pc = pc, !.item = x]
           first(x, T) == [req[r] EXCEPT !.pc = "expireBucket", !.item = x, !.todo = T]
           last == [req[r] EXCEPT !.pc = "closeReconcile", !.item = NoItem]
<1>1. /\ \A x, T : first(x, T).pc = "expireBucket"
      /\ \A x : at("expirePass", x).pc = "expirePass" /\ at("activatePass", x).pc = "activatePass"
      /\ last.pc = "closeReconcile"
  BY DEF Locals
<1>2. \/ \E x, T : Stage(r, w, first(x, T))
      \/ \E x : Stage(r, w, at("expirePass", x)) \/ Stage(r, w, at("activatePass", x))
      \/ Stage(r, w, last)
  BY ZenonT(60) DEF GoOn
<1> HIDE DEF at, first, last
<1> QED
  BY <1>1, <1>2

GoingOn == {"reconcile", "expirePass", "activatePass", "grantIncluded"}

LEMMA GoOnKeeps ==
  ASSUME IInv, JInv, NEW r \in Requests, req[r].pc \in GoingOn, NEW w, PaidFor(w), Settled(w), GoOn(r, w)
  PROVE  Silent
<1> DEFINE q == req[r]
           passes  == View(pass, w.pass)
           buckets == View(bucket, w.bucket)
           active  == {e \in PassIds : passes[e].status = "ACTIVE"}
           over    == {PassItem(e, "ACTIVE", passes[e].endsAt) : e \in {f \in active : Over(passes[f], q.at)}}
           ready   == {PassItem(e, "QUEUED", passes[e].startsAt) :
                         e \in {f \in PassIds : passes[f].status = "QUEUED" /\ Covers(passes[f], q.at)}}
           lapsed  == {CreditItem(p, buckets[p]) :
                         p \in {o \in Payments : buckets[o].status = "ACTIVE" /\ buckets[o].expiresAt <= q.at}}
<1>1. q \in Locals /\ (q.op = "use" => q.amount \in UseAmounts)
  BY Claims DEF RequestFits
<1>2. /\ \A e \in PassIds : passes[e].status # "NONE" => Paid(e[1])
      /\ \A p \in Payments : buckets[p].status # "NONE" => Paid(p)
  BY SeenIsPaid
<1> HIDE DEF passes, buckets
<1>3. \A x \in over \cup ready : Paid(x.pass[1])
  BY <1>2 DEF PassItem
<1>4. \A x \in lapsed : Paid(x.bucket)
  BY <1>2 DEF CreditItem
<1> HIDE DEF over, ready, lapsed
<1>5. ASSUME NEW T, \A x \in T : Paid(x.pass[1]), NEW x \in First(T), NEW pc \in {"expirePass", "activatePass"},
             Stage(r, w, [q EXCEPT !.pc = pc, !.item = x])
      PROVE  Silent
  <2> DEFINE p == [q EXCEPT !.pc = pc, !.item = x]
  <2>1. p.pc = pc /\ p.op = q.op /\ p.amount = q.amount /\ p.item = x /\ x \in T
    BY <1>1 DEF Locals, First
  <2> HIDE DEF p
  <2>2. RequestFits(r, p, w)
    BY <1>1, <1>5, <2>1 DEF RequestFits, Refunding, AtCredits, InSnapshot
  <2> QED
    BY <1>5, <2>2, StageKeeps DEF p
<1>6. ASSUME NEW x \in First(lapsed), Stage(r, w, [q EXCEPT !.pc = "expireBucket", !.item = x, !.todo = lapsed \ {x}])
      PROVE  Silent
  <2> DEFINE p == [q EXCEPT !.pc = "expireBucket", !.item = x, !.todo = lapsed \ {x}]
  <2>1. /\ p.pc = "expireBucket" /\ p.op = q.op /\ p.amount = q.amount
        /\ p.item = x /\ p.todo = lapsed \ {x} /\ x \in lapsed
    BY <1>1 DEF Locals, First
  <2> HIDE DEF p
  <2>2. RequestFits(r, p, w)
    BY <1>1, <1>4, <2>1 DEF RequestFits, Refunding, AtCredits, InSnapshot, InHand
  <2> QED
    BY <1>6, <2>2, StageKeeps DEF p
<1>7. ASSUME Stage(r, w, [q EXCEPT !.pc = "closeReconcile", !.item = NoItem])
      PROVE  Silent
  <2> DEFINE p == [q EXCEPT !.pc = "closeReconcile", !.item = NoItem]
  <2>1. p.pc = "closeReconcile" /\ p.op = q.op /\ p.amount = q.amount
    BY <1>1 DEF Locals
  <2> HIDE DEF p
  <2>2. RequestFits(r, p, w)
    BY <1>1, <2>1 DEF RequestFits, Refunding, AtCredits, InSnapshot
  <2> QED
    BY <1>7, <2>2, StageKeeps DEF p
<1>8. over \subseteq over \cup ready /\ ready \subseteq over \cup ready
  OBVIOUS
<1> QED
  BY <1>3, <1>5, <1>6, <1>7, <1>8 DEF GoOn, passes, buckets, over, ready, lapsed

LEMMA ReadPendingKeeps ==
  ASSUME IInv, JInv, NEW r \in Requests, NEW p \in Payments, NEW op \in DOMAIN Verdict, ReadPending(r, p, op)
  PROVE  Silent
<1> DEFINE q == [Idle EXCEPT !.op = op, !.pc = "decide", !.pay = p, !.at = now]
<1>1. q.pc = "decide" /\ q.op = op /\ op # "use"
  BY SMTT(60) DEF Idle, Verdict
<1> HIDE DEF q
<1>2. RequestFits(r, q, NoWrites)
  BY <1>1, QuietFits DEF Quiet
<1> QED
  BY <1>2, StageKeeps DEF ReadPending, q

LEMMA BeginReadKeeps == ASSUME IInv, JInv, NEW r \in Requests, BeginRead(r) PROVE Silent
  BY IdleQuiet, QuietFits, StageKeeps DEF BeginRead

LEMMA BeginUseKeeps ==
  ASSUME IInv, JInv, NEW r \in Requests, NEW amount \in UseAmounts, BeginUse(r, amount)
  PROVE  Silent
<1> DEFINE q == [Reconciling EXCEPT !.op = "use", !.amount = amount]
<1>1. q.pc = "reconcile" /\ q.amount = amount
  BY DEF Reconciling, Idle
<1> HIDE DEF q
<1>2. RequestFits(r, q, NoWrites)
  BY <1>1, QuietFits DEF Quiet
<1> QED
  BY <1>2, StageKeeps DEF BeginUse, q

\* A refund is of a payment that was paid, whatever its row says: only what was paid can be revoked.
LEMMA ReadRefundKeeps ==
  ASSUME IInv, JInv, NEW r \in Requests, NEW p \in Payments, NEW count, NEW allowActive, NEW status,
         ReadRefund(r, p, count, allowActive, status)
  PROVE  Silent
<1> DEFINE targets == RefundTargets(p)
           q == [Idle EXCEPT !.op = "refund", !.pay = p, !.refund = status]
<1>1. \A x \in targets : x.pass[1] = p /\ Paid(p)
  BY DEF RefundTargets, PassItem, Open, JInv, TablesFit, BenefitsFollowApproval, Paid
<1> HIDE DEF targets
<1>2. ASSUME NEW chosen \in RefundChoices(targets, count), NEW x \in First(chosen),
             Stage(r, NoWrites, [q EXCEPT !.pc = "cancelPass", !.item = x, !.todo = chosen \ {x}])
      PROVE  Silent
  <2> DEFINE n == [q EXCEPT !.pc = "cancelPass", !.item = x, !.todo = chosen \ {x}]
  <2>1. n.pc = "cancelPass" /\ n.op = "refund" /\ n.pay = p /\ n.item = x /\ n.todo = chosen \ {x}
    BY DEF Idle
  <2>2. x \in chosen /\ chosen \subseteq targets
    BY DEF RefundChoices, First
  <2> HIDE DEF n
  <2>3. RequestFits(r, n, NoWrites)
    BY <1>1, <2>1, <2>2 DEF RequestFits, Refunding, AtCredits, InSnapshot, PaidFor, Settled, NoWrites
  <2> QED
    BY <1>2, <2>3, StageKeeps DEF n
<1>3. ASSUME NEW pc \in {"finishRefund", "readPack"}, Stage(r, NoWrites, [q EXCEPT !.pc = pc])
      PROVE  Silent
  <2> DEFINE n == [q EXCEPT !.pc = pc]
  <2>1. n.pc = pc /\ n.op = "refund"
    BY DEF Idle
  <2> HIDE DEF n
  <2>2. RequestFits(r, n, NoWrites)
    BY <2>1 DEF RequestFits, Refunding, AtCredits, InSnapshot, PaidFor, Settled, NoWrites
  <2> QED
    BY <1>3, <2>2, StageKeeps DEF n
<1> QED
  BY <1>2, <1>3 DEF ReadRefund, targets

LEMMA CancelPassKeeps == ASSUME IInv, JInv, NEW r \in Requests, CancelPass(r) PROVE Silent
<1> DEFINE e == req[r].item.pass
           row == [pass[e] EXCEPT !.status = "CANCELED", !.revoked = @ + 1,
                                  !.weight = @ + RefundWeight(pass[e], req[r].item.was, now)]
           w == [pend[r] EXCEPT !.pass = Patch(@, e, row)]
           credits == View(bucket, w.bucket)[e[1]]
           q == [req[r] EXCEPT !.pc = "clawback", !.amount = credits.remaining]
<1>1. /\ req[r].pc = "cancelPass" /\ req[r] \in Locals /\ WritesOK(pend[r]) /\ e \in PassIds
      /\ PaidFor(pend[r]) /\ Settled(pend[r]) /\ req[r].op = "refund"
      /\ Paid(req[r].pay) /\ e[1] = req[r].pay /\ \A x \in req[r].todo : x.pass[1] = req[r].pay
  BY Claims DEF CancelPass, RequestFits, Refunding, LocalsOK, AtPass, PassItems
<1>2. row.status # "NONE"
  BY <1>1 DEF IInv, TypeOK, PassRow
<1> HIDE DEF row
<1>3. PaidFor(w) /\ Settled(w)
  BY <1>1, <1>2, PaidPass
<1> HIDE DEF w, credits
<1>4. CASE Stage(r, w, q)
  <2>1. q.pc = "clawback" /\ q.op = "refund" /\ q.pay = req[r].pay /\ q.todo = req[r].todo
    BY <1>1 DEF Locals
  <2> HIDE DEF q
  <2>2. RequestFits(r, q, w)
    BY <1>1, <1>3, <2>1 DEF RequestFits, Refunding, AtCredits, InSnapshot
  <2> QED
    BY <1>4, <2>2, StageKeeps
<1>5. CASE NextTarget(r, w)
  BY <1>1, <1>3, <1>5, NextTargetKeeps DEF Refunding
<1>6. Stage(r, w, q) \/ NextTarget(r, w)
  BY ZenonT(60) DEF CancelPass, w, credits, row
<1> QED
  BY <1>4, <1>5, <1>6

LEMMA ReadPackKeeps == ASSUME IInv, JInv, NEW r \in Requests, ReadPack(r) PROVE Silent
<1> DEFINE q == [req[r] EXCEPT !.pc = "clawback", !.amount = bucket[req[r].pay].remaining]
<1>1. /\ req[r].pc = "readPack" /\ req[r] \in Locals /\ req[r].pay \in Payments /\ req[r].todo = {}
      /\ PaidFor(pend[r]) /\ Settled(pend[r]) /\ req[r].op = "refund"
  BY Claims DEF ReadPack, RequestFits, LocalsOK, AtPayment, NoList
<1>2. CASE bucket[req[r].pay].status = "ACTIVE" /\ Stage(r, pend[r], q)
  <2>1. q.pc = "clawback" /\ q.op = "refund" /\ q.pay = req[r].pay /\ q.todo = {}
    BY <1>1 DEF Locals
  <2>2. Paid(req[r].pay)
    BY <1>1, <1>2 DEF JInv, TablesFit
  <2> HIDE DEF q
  <2>3. RequestFits(r, q, pend[r])
    BY <1>1, <2>1, <2>2 DEF RequestFits, Refunding, AtCredits, InSnapshot
  <2> QED
    BY <1>2, <2>3, StageKeeps
<1>3. CASE Rollback(r, Idle)
  BY <1>3, IdleQuiet, RollbackKeeps
<1> QED
  BY <1>2, <1>3 DEF ReadPack

LEMMA ClawbackKeeps == ASSUME IInv, JInv, NEW r \in Requests, Clawback(r) PROVE Silent
<1> DEFINE p == req[r].pay
           old == View(bucket, pend[r].bucket)[p]
           cleared == [old EXCEPT !.status = "CANCELED", !.remaining = 0,
                           !.adjusted = @ + req[r].amount, !.revoked = @ + 1]
           w == [pend[r] EXCEPT !.bucket = Patch(@, p, cleared)]
           q == [req[r] EXCEPT !.pc = "adjustLedger"]
<1>1. /\ req[r].pc = "clawback" /\ req[r] \in Locals /\ WritesOK(pend[r]) /\ p \in Payments
      /\ PaidFor(pend[r]) /\ Settled(pend[r]) /\ req[r].op = "refund"
      /\ Paid(p) /\ \A x \in req[r].todo : x.pass[1] = p
  BY Claims DEF Clawback, RequestFits, Refunding, LocalsOK, AtPayment
<1>2. old \in BucketRow
  BY <1>1, Context, SeenRows, SMTT(60) DEF IInv
<1> HIDE DEF old
<1>3. cleared.status # "NONE" /\ cleared.remaining = 0 /\ cleared.granted = old.granted /\ cleared.used = old.used
  BY <1>2 DEF BucketRow
<1> HIDE DEF cleared
<1>4. Lost(cleared, bucket[p]) \/ Begun(p, cleared, bucket[p])
  BY <1>1, <1>3, Emptied DEF old
<1>5. PaidFor(w) /\ Settled(w)
  BY <1>1, <1>3, <1>4, PaidBucket
<1> HIDE DEF w
<1>6. CASE Stage(r, w, q)
  <2>1. q.pc = "adjustLedger" /\ q.op = "refund" /\ q.pay = req[r].pay /\ q.todo = req[r].todo
    BY <1>1 DEF Locals
  <2> HIDE DEF q
  <2>2. RequestFits(r, q, w)
    BY <1>1, <1>5, <2>1 DEF RequestFits, Refunding, AtCredits, InSnapshot
  <2> QED
    BY <1>6, <2>2, StageKeeps
<1>7. CASE NextTarget(r, w)
  BY <1>1, <1>5, <1>7, NextTargetKeeps DEF Refunding
<1> QED
  BY <1>6, <1>7 DEF Clawback, w, cleared, old

LEMMA AdjustLedgerKeeps == ASSUME IInv, JInv, NEW r \in Requests, AdjustLedger(r) PROVE Silent
<1>1. req[r].pc = "adjustLedger" /\ WritesOK(pend[r]) /\ PaidFor(pend[r]) /\ Settled(pend[r])
  BY Claims DEF AdjustLedger, RequestFits
<1>2. PaidFor([pend[r] EXCEPT !.wallet = TRUE]) /\ Settled([pend[r] EXCEPT !.wallet = TRUE])
  BY <1>1, PaidWallet
<1> QED
  BY <1>1, <1>2, NextTargetKeeps DEF AdjustLedger, Refunding

LEMMA ReadDueKeeps == ASSUME IInv, JInv, NEW r \in Requests, ReadDue(r) PROVE Silent
<1>1. req[r].pc = "reconcile" /\ PaidFor(pend[r]) /\ Settled(pend[r])
  BY Claims DEF ReadDue, RequestFits
<1> QED
  BY <1>1, GoOnKeeps DEF ReadDue, GoingOn

LEMMA ExpirePassKeeps == ASSUME IInv, JInv, NEW r \in Requests, ExpirePass(r) PROVE Silent
<1> DEFINE e == req[r].item.pass
           row == [pass[e] EXCEPT !.status = "EXPIRED"]
           w == [pend[r] EXCEPT !.pass = Patch(@, e, row)]
<1>1. /\ req[r].pc = "expirePass" /\ WritesOK(pend[r]) /\ PaidFor(pend[r]) /\ Settled(pend[r])
      /\ Paid(e[1]) /\ e \in PassIds
  BY Claims DEF ExpirePass, RequestFits, LocalsOK, AtPass, PassItems
<1>2. row.status # "NONE"
  BY <1>1 DEF IInv, TypeOK, PassRow
<1> HIDE DEF row
<1>3. PaidFor(w) /\ Settled(w)
  BY <1>1, <1>2, PaidPass
<1> HIDE DEF w
<1>4. GoOn(r, w)
  BY DEF ExpirePass, w, row
<1> QED
  BY <1>1, <1>3, <1>4, GoOnKeeps DEF GoingOn

LEMMA ActivatePassKeeps == ASSUME IInv, JInv, NEW r \in Requests, ActivatePass(r) PROVE Silent
<1> DEFINE e == req[r].item.pass
           row == [pass[e] EXCEPT !.status = "ACTIVE"]
           w == [pend[r] EXCEPT !.pass = Patch(@, e, row)]
           q == [req[r] EXCEPT !.pc = "grantIncluded"]
<1>1. /\ req[r].pc = "activatePass" /\ WritesOK(pend[r]) /\ PaidFor(pend[r]) /\ Settled(pend[r])
      /\ Paid(e[1]) /\ e \in PassIds /\ req[r] \in Locals
      /\ req[r].op = "use" => req[r].amount \in UseAmounts
  BY Claims DEF ActivatePass, RequestFits, LocalsOK, AtPass, PassItems
<1>2. row.status # "NONE"
  BY <1>1 DEF IInv, TypeOK, PassRow
<1> HIDE DEF row
<1>3. PaidFor(w) /\ Settled(w)
  BY <1>1, <1>2, PaidPass
<1> HIDE DEF w
<1>4. CASE GoOn(r, w)
  BY <1>1, <1>3, <1>4, GoOnKeeps DEF GoingOn
<1>5. CASE Stage(r, w, q)
  <2>1. q.pc = "grantIncluded" /\ q.op = req[r].op /\ q.amount = req[r].amount /\ q.item = req[r].item
    BY <1>1 DEF Locals
  <2> HIDE DEF q
  <2>2. RequestFits(r, q, w)
    BY <1>1, <1>3, <2>1 DEF RequestFits, Refunding, AtCredits, InSnapshot
  <2> QED
    BY <1>5, <2>2, StageKeeps
<1>6. GoOn(r, w) \/ Stage(r, w, q)
  BY ZenonT(60) DEF ActivatePass, w, row
<1> QED
  BY <1>4, <1>5, <1>6

\* The included bucket is new: the unique key holds against what the transaction sees, and the row's
\* lock against the others.
LEMMA GrantIncludedKeeps == ASSUME IInv, JInv, NEW r \in Requests, GrantIncluded(r) PROVE Silent
<1> DEFINE e == req[r].item.pass
           seen == View(bucket, pend[r].bucket)
           fresh == NewBucket(e[2], PassCredits, View(pass, pend[r].pass)[e].endsAt)
           w1 == [pend[r] EXCEPT !.bucket = Patch(@, e[1], fresh)]
           w == [w1 EXCEPT !.wallet = TRUE]
<1>1. /\ req[r].pc = "grantIncluded" /\ WritesOK(pend[r]) /\ PaidFor(pend[r]) /\ Settled(pend[r])
      /\ Paid(e[1]) /\ e \in PassIds
  BY Claims DEF GrantIncluded, RequestFits, LocalsOK, AtPass, PassItems
<1>2. e[1] \in PassPayments /\ e[1] \in Payments
  BY <1>1 DEF PassIds, Payments
<1>3. CASE ~UniqueKeyTaken(seen, e[1])
  <2>1. bucket[e[1]].status = "NONE"
    BY <1>1, <1>2, <1>3 DEF UniqueKeyTaken, View, PaidFor, IInv, TypeOK
  <2>2. fresh.status = "ACTIVE" /\ fresh.granted = PassCredits /\ fresh.used = 0 /\ fresh.remaining = PassCredits
    BY DEF NewBucket, NoBucketRow
  <2> HIDE DEF fresh
  <2>3. Begun(e[1], fresh, bucket[e[1]])
    BY <1>2, <2>1, <2>2 DEF Begun
  <2>4. PaidFor(w1) /\ Settled(w1)
    BY <1>1, <2>2, <2>3, PaidBucket
  <2>5. WritesOK(w1)
    <3>1. /\ w1.payment = pend[r].payment /\ w1.pass = pend[r].pass /\ w1.wallet = pend[r].wallet
          /\ w1.bucket = Patch(pend[r].bucket, e[1], fresh)
          /\ w1 = [payment |-> w1.payment, pass |-> w1.pass, bucket |-> w1.bucket, wallet |-> w1.wallet]
      BY <1>1 DEF WritesOK
    <3>2. View(pass, pend[r].pass) \in [PassIds -> PassRow]
      BY <1>1, Context, SeenRows DEF IInv
    <3>3. e[2] \in 0..PassCount /\ View(pass, pend[r].pass)[e].endsAt \in Nat /\ PassCredits \in Nat
      BY <1>1, <3>2, BillingAssumption DEF PassIds, PassRow
    <3>4. fresh \in BucketRow
      BY <3>3, NewBucketRow DEF fresh
    <3>5. DOMAIN w1.bucket \subseteq Payments /\ \A p \in DOMAIN w1.bucket : w1.bucket[p] \in BucketRow
      BY <1>1, <1>2, <3>1, <3>4, PatchRows DEF WritesOK
    <3> QED
      BY <1>1, <3>1, <3>5 DEF WritesOK
  <2> HIDE DEF w1
  <2>6. PaidFor(w) /\ Settled(w)
    BY <2>4, <2>5, PaidWallet
  <2> HIDE DEF w
  <2>7. GoOn(r, w)
    <3>1. w = [pend[r] EXCEPT !.bucket = Patch(@, e[1], fresh), !.wallet = TRUE]
      BY DEF w, w1
    <3> QED
      BY <1>3, <3>1 DEF GrantIncluded, fresh
  <2> QED
    BY <1>1, <2>6, <2>7, GoOnKeeps DEF GoingOn
<1>4. CASE UniqueKeyTaken(seen, e[1])
  <2>1. Rollback(r, Idle)
    BY <1>4 DEF GrantIncluded
  <2> QED
    BY <2>1, IdleQuiet, RollbackKeeps
<1> QED
  BY <1>3, <1>4

LEMMA ExpireBucketKeeps == ASSUME IInv, JInv, NEW r \in Requests, ExpireBucket(r) PROVE Silent
<1> DEFINE p == req[r].item.bucket
           old == View(bucket, pend[r].bucket)[p]
           over == [old EXCEPT !.status = "EXPIRED", !.remaining = 0, !.expired = @ + req[r].item.amount]
           w == [pend[r] EXCEPT !.bucket = Patch(@, p, over)]
           q == [req[r] EXCEPT !.pc = "expireLedger"]
<1>1. /\ req[r].pc = "expireBucket" /\ req[r] \in Locals /\ WritesOK(pend[r]) /\ p \in Payments
      /\ PaidFor(pend[r]) /\ Settled(pend[r]) /\ Paid(p)
      /\ \A x \in InHand(req[r]) : Paid(x.bucket)
      /\ req[r].op = "use" => req[r].amount \in UseAmounts
  BY Claims DEF ExpireBucket, RequestFits, LocalsOK, AtCredits, CreditItems, InHand
<1>2. old \in BucketRow
  BY <1>1, Context, SeenRows, SMTT(60) DEF IInv
<1> HIDE DEF old
<1>3. over.status # "NONE" /\ over.remaining = 0 /\ over.granted = old.granted /\ over.used = old.used
  BY <1>2 DEF BucketRow
<1> HIDE DEF over
<1>4. Lost(over, bucket[p]) \/ Begun(p, over, bucket[p])
  BY <1>1, <1>3, Emptied DEF old
<1>5. PaidFor(w) /\ Settled(w)
  BY <1>1, <1>3, <1>4, PaidBucket
<1> HIDE DEF w
<1>6. Stage(r, w, q)
  BY DEF ExpireBucket, w, over, old
<1>7. /\ q.pc = "expireLedger" /\ q.op = req[r].op /\ q.amount = req[r].amount
      /\ q.item = req[r].item /\ q.todo = req[r].todo
  BY <1>1 DEF Locals
<1> HIDE DEF q
<1>8. RequestFits(r, q, w)
  BY <1>1, <1>5, <1>7 DEF RequestFits, Refunding, AtCredits, InSnapshot, InHand
<1> QED
  BY <1>6, <1>8, StageKeeps

LEMMA ExpireLedgerKeeps == ASSUME IInv, JInv, NEW r \in Requests, ExpireLedger(r) PROVE Silent
<1> DEFINE w == [pend[r] EXCEPT !.wallet = TRUE]
           done == [req[r] EXCEPT !.pc = "closeReconcile", !.item = NoItem]
<1>1. /\ req[r].pc = "expireLedger" /\ req[r] \in Locals /\ WritesOK(pend[r])
      /\ PaidFor(pend[r]) /\ Settled(pend[r])
      /\ \A x \in req[r].todo : Paid(x.bucket)
      /\ req[r].op = "use" => req[r].amount \in UseAmounts
  BY Claims DEF ExpireLedger, RequestFits, AtCredits, InHand
<1>2. PaidFor(w) /\ Settled(w)
  BY <1>1, PaidWallet
<1> HIDE DEF w
<1>3. CASE Stage(r, w, done)
  <2>1. done.pc = "closeReconcile" /\ done.op = req[r].op /\ done.amount = req[r].amount
    BY <1>1 DEF Locals
  <2> HIDE DEF done
  <2>2. RequestFits(r, done, w)
    BY <1>1, <1>2, <2>1 DEF RequestFits, Refunding, AtCredits, InSnapshot
  <2> QED
    BY <1>3, <2>2, StageKeeps
<1>4. ASSUME NEW x \in First(req[r].todo),
             Stage(r, w, [req[r] EXCEPT !.pc = "expireBucket", !.item = x, !.todo = @ \ {x}])
      PROVE  Silent
  <2> DEFINE q == [req[r] EXCEPT !.pc = "expireBucket", !.item = x, !.todo = @ \ {x}]
  <2>1. /\ q.pc = "expireBucket" /\ q.op = req[r].op /\ q.amount = req[r].amount
        /\ q.item = x /\ q.todo = req[r].todo \ {x} /\ x \in req[r].todo
    BY <1>1 DEF Locals, First
  <2> HIDE DEF q
  <2>2. RequestFits(r, q, w)
    BY <1>1, <1>2, <2>1 DEF RequestFits, Refunding, AtCredits, InSnapshot, InHand
  <2> QED
    BY <1>4, <2>2, StageKeeps DEF q
<1> QED
  BY <1>3, <1>4 DEF ExpireLedger, w

\* The snapshot: every bucket once, with the credits it has.
LEMMA ReadCreditsKeeps == ASSUME IInv, JInv, NEW r \in Requests, ReadCredits(r) PROVE Silent
<1> DEFINE credits == {CreditItem(p, bucket[p]) : p \in Spendable}
<1>1. req[r].pc = "readCredits" /\ req[r] \in Locals /\ req[r].amount \in UseAmounts
  BY Claims DEF ReadCredits, RequestFits
<1>2. CASE Rollback(r, Idle)
  BY <1>2, IdleQuiet, RollbackKeeps
<1>3. ASSUME NEW x \in First(credits),
             Stage(r, NoWrites, [req[r] EXCEPT !.pc = "spend", !.item = x, !.todo = credits \ {x},
                                               !.toUse = req[r].amount])
      PROVE  Silent
  <2> DEFINE q == [req[r] EXCEPT !.pc = "spend", !.item = x, !.todo = credits \ {x}, !.toUse = req[r].amount]
  <2>1. /\ \A y \in credits : Paid(y.bucket) /\ Fresh(r, y)
        /\ \A y, z \in credits : y.bucket = z.bucket => y = z
    BY DEF CreditItem, Fresh, Spendable, JInv, TablesFit
  <2> HIDE DEF credits
  <2>2. /\ q.pc = "spend" /\ q.amount = req[r].amount /\ q.toUse = q.amount
        /\ q.item = x /\ q.todo = credits \ {x} /\ x \in credits
    BY <1>1 DEF Locals, First
  <2>3. Total(TakenFrom(NoWrites), Payments) = 0
    <3>1. \A p \in Payments : TakenFrom(NoWrites)[p] = 0
      BY DEF TakenFrom, NoWrites
    <3> QED
      BY <3>1, SumOfZeros, BillingAssumption
  <2>4. q.amount \in Nat
    BY <1>1, <2>2, BillingAssumption
  <2> HIDE DEF q
  <2>5. Spending(r, q, NoWrites)
    <3>1. DOMAIN NoWrites.bucket = {}
      BY DEF NoWrites
    <3> QED
      BY <2>1, <2>2, <2>3, <2>4, <3>1 DEF Spending, InHand, Spent
  <2>6. RequestFits(r, q, NoWrites)
    BY <1>1, <2>1, <2>2, <2>5 DEF RequestFits, Refunding, AtCredits, InSnapshot, InHand, PaidFor, NoWrites
  <2> QED
    BY <1>3, <2>6, StageKeeps DEF q
<1> QED
  BY <1>2, <1>3 DEF ReadCredits, credits

LEMMA ConflictKeeps == ASSUME IInv, JInv, NEW r \in Requests, InSnapshot(req[r]), Conflict(r) PROVE Silent
<1> DEFINE again == [req[r] EXCEPT !.pc = "readCredits", !.item = NoItem, !.todo = {}, !.toUse = 0,
                                   !.tries = req[r].tries + 1]
<1>1. req[r] \in Locals /\ req[r].amount \in UseAmounts
  BY Claims DEF RequestFits, InSnapshot
<1>2. again.pc = "readCredits" /\ again.amount = req[r].amount
  BY <1>1 DEF Locals
<1> HIDE DEF again
<1>3. Quiet(again)
  BY <1>1, <1>2 DEF Quiet
<1>4. Rollback(r, again) \/ Rollback(r, Idle)
  BY DEF Conflict, again
<1> QED
  BY <1>3, <1>4, IdleQuiet, RollbackKeeps

\* What was taken is a natural number, bucket by bucket and in all.
LEMMA TakenIsNat ==
  ASSUME IInv, NEW w, WritesOK(w), Spent(w)
  PROVE  TakenFrom(w) \in [Payments -> Nat] /\ Total(TakenFrom(w), Payments) \in Nat
<1>1. ASSUME NEW p \in Payments PROVE TakenFrom(w)[p] \in Nat
  <2>1. CASE p \notin DOMAIN w.bucket
    BY <2>1 DEF TakenFrom
  <2>2. CASE p \in DOMAIN w.bucket
    <3>1. w.bucket[p].used \in Nat /\ bucket[p].used \in Nat /\ bucket[p].used <= w.bucket[p].used
      BY <2>2 DEF WritesOK, Spent, Taken, IInv, TypeOK, BucketRow
    <3> QED
      BY <2>2, <3>1 DEF TakenFrom
  <2> QED
    BY <2>1, <2>2
<1>2. TakenFrom(w) \in [Payments -> Nat]
  BY <1>1 DEF TakenFrom
<1> QED
  BY <1>2, SumOfNats, BillingAssumption

\* A row that is not stale has the credits of the snapshot, so what Spend writes back takes from the
\* committed row what it should.
LEMMA SpendKeeps == ASSUME IInv, JInv, NEW r \in Requests, Spend(r) PROVE Silent
<1> DEFINE p == req[r].item.bucket
           take == Take(req[r])
           left == req[r].item.amount - take
           row == [bucket[p] EXCEPT !.remaining = left, !.used = @ + take,
                                    !.status = IF left = 0 THEN "DEPLETED" ELSE "ACTIVE"]
           w == [pend[r] EXCEPT !.bucket = Patch(@, p, row)]
           q == [req[r] EXCEPT !.pc = "useLedger"]
<1>1. /\ req[r].pc = "spend" /\ req[r] \in Locals /\ WritesOK(pend[r]) /\ p \in Payments
      /\ req[r].item.amount \in Nat /\ req[r].toUse \in Nat
      /\ PaidFor(pend[r]) /\ Spending(r, req[r], pend[r]) /\ Paid(p)
      /\ \A x \in InHand(req[r]) : Paid(x.bucket)
      /\ req[r].amount \in UseAmounts /\ req[r].amount \in Nat
  BY Claims DEF Spend, RequestFits, LocalsOK, AtCredits, CreditItems, InHand, InSnapshot, Locals
<1>2. CASE Conflict(r)
  BY <1>1, <1>2, ConflictKeeps DEF InSnapshot
<1>3. CASE <<"bucket", p>> \notin stale[r] /\ Stage(r, w, q)
  <2>1. bucket[p] \in BucketRow /\ bucket[p].remaining = req[r].item.amount
    BY <1>1, <1>3 DEF Spending, InHand, Fresh, IInv, TypeOK
  <2>2. take \in Nat /\ left \in Nat
    BY <1>1 DEF Take
  <2> HIDE DEF take
  <2>3. /\ row.remaining = left /\ row.used = bucket[p].used + take /\ row.granted = bucket[p].granted
        /\ row.status # "NONE"
    BY <2>1 DEF BucketRow
  <2>4. row \in BucketRow
    BY <2>1, <2>2, SpendBucket
  <2>5. Taken(row, bucket[p])
    BY <2>1, <2>2, <2>3 DEF Taken, BucketRow
  <2> HIDE DEF row
  <2>6. /\ w.payment = pend[r].payment /\ w.pass = pend[r].pass /\ w.wallet = pend[r].wallet
        /\ w.bucket = Patch(pend[r].bucket, p, row)
        /\ w = [payment |-> w.payment, pass |-> w.pass, bucket |-> w.bucket, wallet |-> w.wallet]
    BY <1>1 DEF WritesOK
  <2> HIDE DEF w
  <2>7. WritesOK(w)
    <3>1. DOMAIN w.bucket \subseteq Payments /\ \A o \in DOMAIN w.bucket : w.bucket[o] \in BucketRow
      BY <1>1, <2>4, <2>6, PatchRows DEF WritesOK
    <3> QED
      BY <1>1, <2>6, <3>1 DEF WritesOK
  <2>8. PaidFor(w) /\ Spent(w)
    BY <1>1, <2>3, <2>5, <2>6 DEF PaidFor, Spending, Spent, Patch
  <2>9. Total(TakenFrom(w), Payments) = Total(TakenFrom(pend[r]), Payments) + take
    <3>1. p \notin DOMAIN pend[r].bucket
      BY <1>1 DEF Spending
    <3>2. TakenFrom(w)[p] = take /\ TakenFrom(pend[r])[p] = 0
      BY <1>1, <2>1, <2>2, <2>3, <2>6, <3>1 DEF TakenFrom, Patch, BucketRow
    <3>3. \A o \in Payments \ {p} : TakenFrom(w)[o] = TakenFrom(pend[r])[o]
      BY <2>6 DEF TakenFrom, Patch
    <3>4. TakenFrom(w) \in [Payments -> Nat] /\ TakenFrom(pend[r]) \in [Payments -> Nat]
      BY <1>1, <2>7, <2>8, TakenIsNat DEF Spending
    <3>5. TakenFrom(w)[p] = TakenFrom(pend[r])[p] + take
      BY <2>2, <3>2
    <3> QED
      BY <1>1, <2>2, <3>3, <3>4, <3>5, SumAfterChange, BillingAssumption
  <2>10. /\ q.pc = "useLedger" /\ q.amount = req[r].amount /\ q.toUse = req[r].toUse
         /\ q.item = req[r].item /\ q.todo = req[r].todo
    BY <1>1 DEF Locals
  <2>11. Take(q) = take
    BY <2>10 DEF Take, take
  <2> HIDE DEF q
  <2>12. Total(TakenFrom(w), Payments) + q.toUse = q.amount + Take(q)
    <3>1. Total(TakenFrom(pend[r]), Payments) + req[r].toUse = req[r].amount
      BY <1>1 DEF Spending
    <3>2. Total(TakenFrom(pend[r]), Payments) \in Nat
      BY <1>1, TakenIsNat DEF Spending
    <3> QED
      BY <1>1, <2>2, <2>9, <2>10, <2>11, <3>1, <3>2
  <2>13. Spending(r, q, w)
    <3>1. DOMAIN w.bucket = DOMAIN pend[r].bucket \cup {p}
      BY <2>6 DEF Patch
    <3> QED
      BY <1>1, <2>8, <2>10, <2>12, <3>1 DEF Spending, InHand
  <2>14. RequestFits(r, q, w)
    BY <1>1, <2>8, <2>10, <2>13 DEF RequestFits, Refunding, AtCredits, InSnapshot, InHand
  <2> QED
    BY <1>3, <2>14, StageKeeps
<1> QED
  BY <1>2, <1>3 DEF Spend, row, left, take

-----------------------------------------------------------------------------
(***************************************************************************)
(* The commits.                                                            *)
(***************************************************************************)
\* One commit is one step of the contract.
ContractStep == Contract!Next \/ UNCHANGED Contract!contractVars
Kept == JInv' /\ ContractStep

LEMMA SilentIsKept == Silent => Kept
  BY DEF Silent, Kept, ContractStep, Contract!contractVars

\* The buckets a transaction wrote are its own, by their locks.
LEMMA LocksBuckets == ASSUME NEW w, NEW p PROVE <<"bucket", p>> \in Held(w) <=> p \in DOMAIN w.bucket
  BY DEF Held

LEMMA ApartByLocks ==
  ASSUME IInv, NEW r \in Requests, NEW w, w.bucket = pend[r].bucket
  PROVE  BucketsApart(r, w)
<1>1. \A s \in Requests \ {r} : Held(pend[r]) \cap Held(pend[s]) = {}
  BY Context DEF LocksFit
<1> QED
  BY <1>1, LocksBuckets DEF BucketsApart

\* A transaction that publishes what it wrote in passes and buckets, and decides no payment.
LEMMA TablesAfter ==
  ASSUME IInv, JInv, NEW w, WritesOK(w), PaidFor(w), \A p \in DOMAIN w.bucket : BucketFits(w.bucket[p]),
         pass' = View(pass, w.pass), bucket' = View(bucket, w.bucket),
         \A p \in Payments : payment'[p].status = payment[p].status
  PROVE  TablesFit'
<1>1. \A e \in PassIds : pass'[e] = IF e \in DOMAIN w.pass THEN w.pass[e] ELSE pass[e]
  BY DEF View, IInv, TypeOK
<1>2. \A p \in Payments : bucket'[p] = IF p \in DOMAIN w.bucket THEN w.bucket[p] ELSE bucket[p]
  BY DEF View, IInv, TypeOK
<1>3. \A p \in Payments : Paid(p)' <=> Paid(p)
  BY DEF Paid
<1>4. BenefitsFollowApproval'
  <2>1. ASSUME NEW p \in Payments, NEW e \in PassIds, e[1] = p
        PROVE  (pass'[e].status # "NONE" <=> payment'[p].status = "APPROVED")
    BY <1>1, <2>1 DEF PaidFor, Paid, JInv, TablesFit, BenefitsFollowApproval
  <2>2. ASSUME NEW p \in Payments \ PassPayments
        PROVE  (bucket'[p].status # "NONE" <=> payment'[p].status = "APPROVED")
    BY <1>2 DEF PaidFor, Paid, JInv, TablesFit, BenefitsFollowApproval
  <2> QED
    BY <2>1, <2>2 DEF BenefitsFollowApproval
<1>5. ASSUME NEW p \in Payments
      PROVE  /\ BucketFits(bucket'[p])
             /\ bucket'[p].status # "NONE" => Paid(p)'
             /\ p \in GrantPayments => payment'[p].status \in {"NONE", "APPROVED"}
  BY <1>2, <1>3 DEF PaidFor, JInv, TablesFit
<1> QED
  BY <1>4, <1>5 DEF TablesFit

\* What expires or is taken back, and what begins, is a Settle of the contract.
LEMMA SettledRowsFit ==
  ASSUME IInv, JInv, NEW w, WritesOK(w), PaidFor(w), Settled(w)
  PROVE  \A p \in DOMAIN w.bucket : BucketFits(w.bucket[p])
<1> SUFFICES ASSUME NEW p \in DOMAIN w.bucket PROVE BucketFits(w.bucket[p])
  OBVIOUS
<1>1. p \in Payments /\ w.bucket[p] \in BucketRow /\ bucket[p] \in BucketRow
  BY DEF WritesOK, IInv, TypeOK
<1>2. BucketFits(bucket[p]) /\ w.bucket[p].status # "NONE"
  BY <1>1 DEF JInv, TablesFit, PaidFor
<1>3. Lost(w.bucket[p], bucket[p]) \/ Begun(p, w.bucket[p], bucket[p])
  BY DEF Settled
<1>4. PassCredits \in Nat /\ PackCredits \in Nat
  BY BillingAssumption
<1> QED
  BY <1>1, <1>2, <1>3, <1>4 DEF BucketFits, Lost, Begun, BucketRow

LEMMA SettleStep ==
  ASSUME IInv, JInv, NEW w, WritesOK(w), PaidFor(w), Settled(w), bucket' = View(bucket, w.bucket),
         \A p \in Payments : payment'[p].status = payment[p].status
  PROVE  ContractStep
<1> DEFINE lost == {p \in Payments : p \in DOMAIN w.bucket /\ w.bucket[p].remaining = 0}
           begun == {p \in Payments : p \in DOMAIN w.bucket /\ Begun(p, w.bucket[p], bucket[p])}
<1>1. \A p \in Payments : bucket'[p] = IF p \in DOMAIN w.bucket THEN w.bucket[p] ELSE bucket[p]
  BY DEF View, IInv, TypeOK
<1>2. \A p \in Payments : /\ p \in DOMAIN w.bucket => Lost(w.bucket[p], bucket[p]) \/ Begun(p, w.bucket[p], bucket[p])
                          /\ p \in DOMAIN w.bucket => Paid(p)
  BY DEF Settled, PaidFor
<1>3. ASSUME NEW p \in Payments, bucket[p].status = "NONE"
      PROVE  bucket[p].granted = 0 /\ bucket[p].used = 0
  <2>1. bucket[p] \in BucketRow /\ BucketFits(bucket[p])
    BY DEF JInv, TablesFit, IInv, TypeOK
  <2> QED
    BY <1>3, <2>1 DEF BucketFits, BucketRow
<1>4. \A p \in begun : p \in PassPayments /\ payment[p].status = "APPROVED" /\ bucket[p].granted = 0
  BY <1>2, <1>3 DEF Begun, Paid
<1>5. ASSUME NEW p \in Payments
      PROVE  /\ bucket'[p].granted = IF p \in begun THEN PassCredits ELSE bucket[p].granted
             /\ bucket'[p].remaining = IF p \in lost THEN 0 ELSE IF p \in begun THEN PassCredits ELSE bucket[p].remaining
             /\ bucket'[p].used = bucket[p].used
  BY <1>1, <1>2, <1>3 DEF Lost, Begun
<1> HIDE DEF lost, begun
<1>6. PICK l, b \in SUBSET Payments : l = lost /\ b = begun
  BY DEF lost, begun
<1>7. Contract!Settle(l, b)
  BY <1>4, <1>5, <1>6 DEF Contract!Settle, Contract!Payments, Payments
<1>8. Contract!Next
  <2>1. Contract!Payments = Payments
    BY DEF Contract!Payments, Payments
  <2>2. \E x, y \in SUBSET Contract!Payments : Contract!Settle(x, y)
    BY <1>6, <1>7, <2>1
  <2> QED
    BY <2>2 DEF Contract!Next
<1> QED
  BY <1>8 DEF ContractStep

LEMMA FinishRefundKeeps ==
  ASSUME IInv, JInv, KeepsDecisions, NEW r \in Requests, FinishRefund(r)
  PROVE  Kept
<1> DEFINE p == req[r].pay
           row == [payment[p] EXCEPT !.refund = req[r].refund]
           w == [pend[r] EXCEPT !.payment = Patch(@, p, row)]
<1>1. /\ req[r].pc = "finishRefund" /\ WritesOK(pend[r]) /\ PaidFor(pend[r]) /\ Settled(pend[r]) /\ p \in Payments
  BY Claims DEF FinishRefund, RequestFits, LocalsOK, AtPayment
<1>2. row.status = payment[p].status
  BY <1>1 DEF IInv, TypeOK, PaymentRow
<1> HIDE DEF row
<1>3. w.pass = pend[r].pass /\ w.bucket = pend[r].bucket /\ w.payment = Patch(pend[r].payment, p, row)
  BY <1>1 DEF WritesOK
<1>4. Held(w) = Held(pend[r]) \cup {<<"payment", p>>}
  BY <1>1 DEF Held, Patch, WritesOK
<1> HIDE DEF w
<1>5. Commit(r, w, Reconciling) /\ Unblocked(r)
  BY DEF FinishRefund, w, row
<1>6. CommitFits(r, w)
  BY <1>1, <1>4, <1>5, CommitDecision
<1>7. BucketsApart(r, w)
  BY <1>3, ApartByLocks
<1>8. \A o \in Payments : payment'[o].status = payment[o].status
  BY <1>1, <1>2, <1>3, <1>5 DEF Commit, View, Patch, PaidFor, IInv, TypeOK
<1>9. TablesFit'
  BY <1>1, <1>3, <1>5, <1>8, SettledRowsFit, TablesAfter DEF Commit
<1>10. JInv'
  BY <1>5, <1>6, <1>7, <1>9, IdleQuiet, CommitKeeps
<1>11. ContractStep
  BY <1>1, <1>3, <1>5, <1>8, SettleStep DEF Commit
<1> QED
  BY <1>10, <1>11 DEF Kept

LEMMA CloseReconcileKeeps ==
  ASSUME IInv, JInv, KeepsDecisions, NEW r \in Requests, CloseReconcile(r)
  PROVE  Kept
<1> DEFINE w == [pend[r] EXCEPT !.wallet = TRUE]
           again == [req[r] EXCEPT !.pc = "readCredits", !.at = 0]
           q == IF req[r].op = "use" THEN again ELSE Idle
<1>1. /\ req[r].pc = "closeReconcile" /\ WritesOK(pend[r]) /\ PaidFor(pend[r]) /\ Settled(pend[r])
      /\ req[r] \in Locals /\ (req[r].op = "use" => req[r].amount \in UseAmounts)
  BY Claims DEF CloseReconcile, RequestFits
<1>2. w.payment = pend[r].payment /\ w.pass = pend[r].pass /\ w.bucket = pend[r].bucket
  BY <1>1, PaidWallet
<1>3. again.pc = "readCredits" /\ again.amount = req[r].amount
  BY <1>1 DEF Locals
<1>4. Commit(r, w, q)
  BY DEF CloseReconcile
<1> HIDE DEF w, again
<1>5. Quiet(q)
  BY <1>1, <1>3, IdleQuiet DEF Quiet
<1> HIDE DEF q
<1>6. CommitFits(r, w)
  BY <1>2, CommitLocked
<1>7. BucketsApart(r, w)
  BY <1>2, ApartByLocks
<1>8. \A o \in Payments : payment'[o].status = payment[o].status
  BY <1>1, <1>2, <1>4 DEF Commit, View, PaidFor, IInv, TypeOK
<1>9. TablesFit'
  BY <1>1, <1>2, <1>4, <1>8, SettledRowsFit, TablesAfter DEF Commit
<1>10. JInv'
  BY <1>4, <1>5, <1>6, <1>7, <1>9, CommitKeeps
<1>11. ContractStep
  BY <1>1, <1>2, <1>4, <1>8, SettleStep DEF Commit
<1> QED
  BY <1>10, <1>11 DEF Kept

\* A row of a bucket that is not there carries no credits.
LEMMA NoCredits ==
  ASSUME IInv, JInv, NEW p \in Payments, bucket[p].status = "NONE"
  PROVE  bucket[p].granted = 0 /\ bucket[p].used = 0 /\ bucket[p].remaining = 0
<1>1. bucket[p] \in BucketRow /\ BucketFits(bucket[p])
  BY DEF JInv, TablesFit, IInv, TypeOK
<1> QED
  BY <1>1 DEF BucketFits, BucketRow

\* An approval, with the credits that come with it, is an Approve of the contract, and what the
\* payment buys is there when it is.
LEMMA ApproveStep ==
  ASSUME IInv, JInv, NEW p \in Payments, NEW credits,
         credits \in (IF p \in PassPayments THEN {0, PassCredits} ELSE {PackCredits}),
         payment[p].status = (IF p \in GrantPayments THEN "NONE" ELSE "PENDING_DEPOSIT"),
         payment'[p].status = "APPROVED",
         bucket'[p].granted = credits, bucket'[p].remaining = credits, bucket'[p].used = 0,
         \A o \in Payments \ {p} : payment'[o].status = payment[o].status /\ bucket'[o] = bucket[o]
  PROVE  ContractStep
<1>1. bucket[p].status = "NONE"
  BY DEF JInv, TablesFit, Paid
<1>2. bucket[p].used = 0
  BY <1>1, NoCredits
<1>3. Contract!Approve(p, credits)
  BY <1>2 DEF Contract!Approve, Contract!Payments, Payments
<1>4. Contract!Payments = Payments /\ credits \in {0, PassCredits, PackCredits}
  BY DEF Contract!Payments, Payments
<1> QED
  BY <1>3, <1>4 DEF Contract!Next, ContractStep

LEMMA ApproveTables ==
  ASSUME IInv, JInv, NEW p \in Payments,
         payment'[p].status = "APPROVED",
         \A o \in Payments \ {p} : payment'[o].status = payment[o].status /\ bucket'[o] = bucket[o],
         \A e \in PassIds : IF e[1] = p THEN pass'[e].status # "NONE" ELSE pass'[e] = pass[e],
         BucketFits(bucket'[p]), p \notin PassPayments => bucket'[p].status # "NONE"
  PROVE  TablesFit'
<1>1. BenefitsFollowApproval'
  <2>1. ASSUME NEW o \in Payments, NEW e \in PassIds, e[1] = o
        PROVE  (pass'[e].status # "NONE" <=> payment'[o].status = "APPROVED")
    BY <2>1 DEF JInv, TablesFit, BenefitsFollowApproval
  <2>2. ASSUME NEW o \in Payments \ PassPayments
        PROVE  (bucket'[o].status # "NONE" <=> payment'[o].status = "APPROVED")
    BY DEF JInv, TablesFit, BenefitsFollowApproval
  <2> QED
    BY <2>1, <2>2 DEF BenefitsFollowApproval
<1>2. ASSUME NEW o \in Payments
      PROVE  /\ BucketFits(bucket'[o])
             /\ bucket'[o].status # "NONE" => Paid(o)'
             /\ o \in GrantPayments => payment'[o].status \in {"NONE", "APPROVED"}
  BY DEF JInv, TablesFit, Paid
<1> QED
  BY <1>1, <1>2 DEF TablesFit

\* The credits a bucket starts with.
LEMMA NewBucketFits ==
  ASSUME NEW seq, NEW t, NEW amount \in {PassCredits, PackCredits}
  PROVE  LET b == NewBucket(seq, amount, t) IN
         /\ BucketFits(b) /\ b.status = "ACTIVE"
         /\ b.granted = amount /\ b.remaining = amount /\ b.used = 0
<1>1. amount \in Nat /\ PassCredits \in Nat /\ PackCredits \in Nat
  BY BillingAssumption
<1> QED
  BY <1>1 DEF NewBucket, NoBucketRow, BucketFits

\* Buckets of a payment that is not approved are in nobody's hands.
LEMMA UnpaidApart ==
  ASSUME IInv, JInv, NEW r \in Requests, NEW p, ~Paid(p), NEW w, DOMAIN w.bucket \subseteq {p}
  PROVE  BucketsApart(r, w)
<1>1. ASSUME NEW s \in Requests PROVE p \notin DOMAIN pend[s].bucket
  BY Claims DEF RequestFits, PaidFor, Approving
<1> QED
  BY <1>1 DEF BucketsApart

LEMMA AdminGrantKeeps ==
  ASSUME IInv, JInv, KeepsDecisions, NEW r \in Requests, NEW p \in Payments, AdminGrant(r, p)
  PROVE  Kept
<1> DEFINE paid == [payment[p] EXCEPT !.status = "APPROVED", !.decisions = @ + 1]
           credits == NewBucket(0, PackCredits, CreditExpiryAt(now))
           w == [NoWrites EXCEPT !.payment = Patch(@, p, paid), !.bucket = Patch(@, p, credits), !.wallet = TRUE]
<1>1. payment[p].status = "NONE" /\ p \in GrantPayments /\ p \notin PassPayments
  BY BillingAssumption DEF AdminGrant
<1>2. paid.status = "APPROVED"
  BY DEF IInv, TypeOK, PaymentRow
<1>3. /\ BucketFits(credits) /\ credits.status = "ACTIVE"
      /\ credits.granted = PackCredits /\ credits.remaining = PackCredits /\ credits.used = 0
  BY NewBucketFits
<1>4. Commit(r, w, Reconciling)
  BY DEF AdminGrant
<1> HIDE DEF paid, credits
<1>5. /\ DOMAIN w.payment = {p} /\ DOMAIN w.bucket = {p} /\ DOMAIN w.pass = {}
      /\ w.payment[p] = paid /\ w.bucket[p] = credits
  BY DEF NoWrites, Patch
<1> HIDE DEF w
<1>6. /\ payment'[p] = paid /\ bucket'[p] = credits
      /\ \A o \in Payments \ {p} : payment'[o] = payment[o] /\ bucket'[o] = bucket[o]
      /\ \A e \in PassIds : pass'[e] = pass[e]
  BY <1>4, <1>5 DEF Commit, View, IInv, TypeOK
<1>7. TablesFit'
  <2>1. \A e \in PassIds : e[1] # p
    BY <1>1 DEF PassIds
  <2> QED
    BY <1>2, <1>3, <1>6, <2>1, ApproveTables
<1>8. ContractStep
  BY <1>1, <1>2, <1>3, <1>6, ApproveStep
<1>9. CommitFits(r, w)
  <2>1. \A s \in Requests : ~Locks(pend[s], p)
    BY <1>1 DEF IInv, LocksFit
  <2> QED
    BY <1>5, <2>1, LocksPayments DEF CommitFits
<1>10. BucketsApart(r, w)
  BY <1>1, <1>5, UnpaidApart DEF Paid
<1>11. JInv'
  BY <1>4, <1>7, <1>9, <1>10, IdleQuiet, CommitKeeps
<1> QED
  BY <1>8, <1>11 DEF Kept

LEMMA DecideKeeps ==
  ASSUME IInv, JInv, KeepsDecisions, NEW r \in Requests, Decide(r)
  PROVE  Kept
<1> DEFINE p == req[r].pay
           decided == [payment[p] EXCEPT !.status = Verdict[req[r].op], !.decisions = @ + 1]
           w == [NoWrites EXCEPT !.payment = Patch(@, p, decided)]
<1>1. req[r].pc = "decide" /\ req[r] \in Locals /\ p \in Payments /\ Unblocked(r)
  BY Claims DEF Decide, LocalsOK, AtPayment
<1>2. CASE ~StillPending(p)
  <2>1. Rollback(r, Idle)
    BY <1>2 DEF Decide
  <2> QED
    BY <2>1, IdleQuiet, RollbackKeeps, SilentIsKept
<1>3. CASE StillPending(p)
  <2>1. decided.status = Verdict[req[r].op]
    BY <1>1 DEF IInv, TypeOK, PaymentRow
  <2> HIDE DEF decided
  <2>2. /\ DOMAIN w.payment = {p} /\ w.payment[p] = decided
        /\ DOMAIN w.pass = {} /\ DOMAIN w.bucket = {} /\ w.wallet = FALSE
    BY DEF NoWrites, Patch
  <2> HIDE DEF w
  <2>3. ASSUME NEW end, Stage(r, w, [req[r] EXCEPT !.pc = "provision", !.latest = end]), req[r].op = "approve"
        PROVE  Kept
    <3> DEFINE q == [req[r] EXCEPT !.pc = "provision", !.latest = end]
    <3>1. q.pc = "provision" /\ q.pay = p /\ q.op = "approve"
      BY <1>1, <2>3 DEF Locals
    <3> HIDE DEF q
    <3>2. decided.status = "APPROVED"
      BY <2>1, <2>3 DEF Verdict
    <3>3. Approving(w, p)
      BY <1>3, <2>2, <3>2 DEF Approving, StillPending
    <3>4. RequestFits(r, q, w)
      BY <3>1, <3>3 DEF RequestFits, Refunding, AtCredits, InSnapshot
    <3> QED
      BY <2>3, <3>4, StageKeeps, SilentIsKept DEF q
  <2>4. ASSUME NEW q, Quiet(q), Commit(r, w, q), req[r].op \in {"reject", "cancel"} PROVE Kept
    <3>1. decided.status \in {"REJECTED", "CANCELED"}
      BY <2>1, <2>4, SMTT(60) DEF Verdict
    <3>2. /\ payment'[p] = decided /\ UNCHANGED bucket
          /\ \A o \in Payments \ {p} : payment'[o] = payment[o]
          /\ \A e \in PassIds : pass'[e] = pass[e]
      BY <1>1, <2>2, <2>4 DEF Commit, View, IInv, TypeOK
    <3>3. payment[p].status = "PENDING_DEPOSIT"
      BY <1>3 DEF StillPending
    <3>4. TablesFit'
      <4>1. \A o \in Payments : Paid(o)' <=> Paid(o)
        BY <3>1, <3>2, <3>3 DEF Paid
      <4>2. BenefitsFollowApproval'
        BY <3>1, <3>2, <3>3 DEF JInv, TablesFit, BenefitsFollowApproval
      <4>3. p \notin GrantPayments
        BY <1>1, <3>3 DEF JInv, TablesFit
      <4> QED
        BY <3>2, <4>1, <4>2, <4>3 DEF JInv, TablesFit
    <3>5. Contract!Decline(p, decided.status)
      BY <1>1, <3>2, <3>3 DEF Contract!Decline
    <3>6. ContractStep
      <4>1. Contract!Payments = Payments
        BY DEF Contract!Payments, Payments
      <4>2. PICK o \in Payments, verdict \in {"REJECTED", "CANCELED"} : o = p /\ verdict = decided.status
        BY <1>1, <3>1
      <4>3. Contract!Decline(o, verdict)
        BY <1>1, <3>2, <3>3, <4>2 DEF Contract!Decline
      <4> QED
        BY <4>1, <4>3 DEF Contract!Next, ContractStep
    <3>7. CommitFits(r, w)
      <4>1. <<"payment", p>> \in Needs(r)
        BY <1>1, NeededLocks
      <4> QED
        BY <1>1, <2>2, <4>1, LocksPayments DEF CommitFits, Unblocked, WaitsFor, Locks
    <3>8. BucketsApart(r, w)
      BY <2>2 DEF BucketsApart
    <3>9. JInv'
      BY <2>4, <3>4, <3>7, <3>8, CommitKeeps
    <3> QED
      BY <3>6, <3>9 DEF Kept
  <2> QED
    BY <1>3, <2>3, <2>4, IdleQuiet DEF Decide, ApproveInTransaction, decided, w
<1> QED
  BY <1>2, <1>3

\* The commit of an approval: its payment, the passes of its item if it has any, and the bucket
\* that starts at once.
LEMMA ApprovalKeeps ==
  ASSUME IInv, JInv, KeepsDecisions, NEW r \in Requests, NEW p \in Payments, Approving(pend[r], p),
         NEW w, w.payment = pend[r].payment, DOMAIN w.bucket \subseteq {p},
         \A e \in PassIds : e \in DOMAIN w.pass <=> e[1] = p,
         \A e \in DOMAIN w.pass : w.pass[e].status # "NONE",
         p \in DOMAIN w.bucket => /\ BucketFits(w.bucket[p]) /\ w.bucket[p].status # "NONE"
                                  /\ w.bucket[p].granted = IF p \in PassPayments THEN PassCredits ELSE PackCredits
                                  /\ w.bucket[p].remaining = w.bucket[p].granted /\ w.bucket[p].used = 0,
         p \in PassPayments \/ p \in DOMAIN w.bucket,
         Commit(r, w, Reconciling)
  PROVE  Kept
<1>1. payment[p].status = "PENDING_DEPOSIT" /\ w.payment[p].status = "APPROVED" /\ DOMAIN w.payment = {p}
  BY DEF Approving
<1>2. p \notin GrantPayments /\ bucket[p].status = "NONE"
  BY <1>1 DEF JInv, TablesFit, Paid
<1>3. /\ payment'[p] = w.payment[p]
      /\ bucket'[p] = IF p \in DOMAIN w.bucket THEN w.bucket[p] ELSE bucket[p]
      /\ \A o \in Payments \ {p} : payment'[o] = payment[o] /\ bucket'[o] = bucket[o]
      /\ \A e \in PassIds : pass'[e] = IF e[1] = p THEN w.pass[e] ELSE pass[e]
  BY <1>1 DEF Commit, View, IInv, TypeOK
<1>4. TablesFit'
  <2>1. BucketFits(bucket'[p])
    BY <1>3 DEF JInv, TablesFit
  <2> QED
    BY <1>1, <1>3, <2>1, ApproveTables
<1>5. ContractStep
  <2> DEFINE credits == bucket'[p].granted
  <2>1. credits \in (IF p \in PassPayments THEN {0, PassCredits} ELSE {PackCredits})
    BY <1>2, <1>3, NoCredits
  <2>2. bucket'[p].remaining = credits /\ bucket'[p].used = 0
    BY <1>2, <1>3, NoCredits
  <2> HIDE DEF credits
  <2>3. PICK c : c = credits
    OBVIOUS
  <2>4. c \in (IF p \in PassPayments THEN {0, PassCredits} ELSE {PackCredits}) /\ bucket'[p].granted = c
    BY <2>1, <2>3 DEF credits
  <2>5. payment[p].status = (IF p \in GrantPayments THEN "NONE" ELSE "PENDING_DEPOSIT")
    BY <1>1, <1>2
  <2> QED
    BY <1>1, <1>3, <2>2, <2>3, <2>4, <2>5, ApproveStep
<1>6. CommitFits(r, w)
  BY CommitLocked
<1>7. BucketsApart(r, w)
  BY <1>1, UnpaidApart DEF Paid
<1>8. JInv'
  BY <1>4, <1>6, <1>7, IdleQuiet, CommitKeeps
<1> QED
  BY <1>5, <1>8 DEF Kept

LEMMA ProvisionKeeps == ASSUME IInv, JInv, KeepsDecisions, NEW r \in Requests, Provision(r) PROVE Kept
<1> DEFINE p == req[r].pay
           made == ProvisionedPasses(req[r].latest, req[r].at)
           first == NewBucket(1, PassCredits, made[1].endsAt)
           pack == NewBucket(0, PackCredits, CreditExpiryAt(req[r].at))
           w == [pend[r] EXCEPT !.wallet = TRUE]
           rowsOf == [e \in {p} \X (1..PassCount) |-> made[e[2]]]
           buckets == IF req[r].latest = -1 THEN Patch(w.bucket, p, first) ELSE w.bucket
           passed == [w EXCEPT !.pass = rowsOf, !.bucket = buckets]
           packed == [w EXCEPT !.bucket = Patch(@, p, pack)]
<1>1. req[r].pc = "provision" /\ p \in Payments /\ Approving(pend[r], p) /\ WritesOK(pend[r])
  BY Claims DEF Provision, LocalsOK, AtPayment, RequestFits
<1> HIDE DEF made, first, pack, rowsOf, buckets, passed, packed
<1>2. /\ w.payment = pend[r].payment /\ w.pass = pend[r].pass /\ w.bucket = pend[r].bucket
      /\ WritesOK(w)
  BY <1>1, Context, PaidWallet, WriteWallet DEF WritesFit
<1>3. \A n \in 1..PassCount : made[n].status # "NONE"
  BY DEF made, ProvisionedPasses, NoPassRow
<1> HIDE DEF w
<1>4. /\ BucketFits(first) /\ first.status = "ACTIVE"
      /\ first.granted = PassCredits /\ first.remaining = PassCredits /\ first.used = 0
  BY NewBucketFits DEF first
<1>5. /\ BucketFits(pack) /\ pack.status = "ACTIVE"
      /\ pack.granted = PackCredits /\ pack.remaining = PackCredits /\ pack.used = 0
  BY NewBucketFits DEF pack
<1>6. CASE p \in PassPayments
  <2>1. DOMAIN rowsOf = {e \in PassIds : e[1] = p} /\ \A e \in DOMAIN rowsOf : rowsOf[e].status # "NONE"
    BY <1>3, <1>6 DEF PassIds, rowsOf
  <2>2. DOMAIN buckets \subseteq {p} /\ \A o \in DOMAIN buckets : buckets[o] = first
    BY <1>1, <1>2 DEF Approving, Patch, buckets
  <2>3. passed.payment = pend[r].payment /\ passed.pass = rowsOf /\ passed.bucket = buckets
    BY <1>2 DEF passed, WritesOK
  <2>4. Commit(r, passed, Reconciling)
    BY <1>6 DEF Provision, passed, buckets, rowsOf, made, first, w
  <2> QED
    BY <1>1, <1>4, <1>6, <2>1, <2>2, <2>3, <2>4, ApprovalKeeps
<1>7. CASE p \notin PassPayments
  <2>1. \A e \in PassIds : e[1] # p
    BY <1>7 DEF PassIds
  <2>2. /\ packed.payment = pend[r].payment /\ packed.pass = pend[r].pass
        /\ packed.bucket = Patch(pend[r].bucket, p, pack)
    BY <1>2 DEF packed, WritesOK
  <2>3. DOMAIN packed.pass = {} /\ DOMAIN packed.bucket = {p} /\ packed.bucket[p] = pack
    BY <1>1, <2>2 DEF Approving, Patch
  <2>4. Commit(r, packed, Reconciling)
    BY <1>7 DEF Provision, packed, pack, w
  <2> QED
    BY <1>1, <1>5, <1>7, <2>1, <2>2, <2>3, <2>4, ApprovalKeeps
<1> QED
  BY <1>6, <1>7

\* What a serializable transaction took, bucket by bucket.
LEMMA TakenFits ==
  ASSUME IInv, JInv, NEW w, WritesOK(w), Spent(w)
  PROVE  \A p \in Payments :
           /\ TakenFrom(w)[p] \in 0..(PassCredits + PackCredits)
           /\ TakenFrom(w)[p] <= bucket[p].remaining
           /\ View(bucket, w.bucket)[p].remaining = bucket[p].remaining - TakenFrom(w)[p]
           /\ View(bucket, w.bucket)[p].used = bucket[p].used + TakenFrom(w)[p]
           /\ View(bucket, w.bucket)[p].granted = bucket[p].granted
           /\ p \in DOMAIN w.bucket /\ w.bucket[p].status # "NONE" => BucketFits(w.bucket[p])
<1> SUFFICES ASSUME NEW p \in Payments
             PROVE  /\ TakenFrom(w)[p] \in 0..(PassCredits + PackCredits)
                    /\ TakenFrom(w)[p] <= bucket[p].remaining
                    /\ View(bucket, w.bucket)[p].remaining = bucket[p].remaining - TakenFrom(w)[p]
                    /\ View(bucket, w.bucket)[p].used = bucket[p].used + TakenFrom(w)[p]
                    /\ View(bucket, w.bucket)[p].granted = bucket[p].granted
                    /\ p \in DOMAIN w.bucket /\ w.bucket[p].status # "NONE" => BucketFits(w.bucket[p])
  OBVIOUS
<1>1. bucket[p] \in BucketRow /\ BucketFits(bucket[p]) /\ PassCredits \in Nat /\ PackCredits \in Nat
  BY BillingAssumption DEF JInv, TablesFit, IInv, TypeOK
<1>2. View(bucket, w.bucket)[p] = IF p \in DOMAIN w.bucket THEN w.bucket[p] ELSE bucket[p]
  BY DEF View, IInv, TypeOK
<1>3. CASE p \notin DOMAIN w.bucket
  <2>1. TakenFrom(w)[p] = 0
    BY <1>3 DEF TakenFrom
  <2> QED
    BY <1>1, <1>2, <1>3, <2>1 DEF BucketRow
<1>4. CASE p \in DOMAIN w.bucket
  <2>1. w.bucket[p] \in BucketRow /\ Taken(w.bucket[p], bucket[p])
    BY <1>4 DEF WritesOK, Spent
  <2>2. TakenFrom(w)[p] = w.bucket[p].used - bucket[p].used
    BY <1>4 DEF TakenFrom
  <2> QED
    BY <1>1, <1>2, <1>4, <2>1, <2>2 DEF BucketRow, BucketFits, Taken
<1> QED
  BY <1>3, <1>4

\* The contract's sum is the one of SumProofs.
ContractTotal(f) == Contract!MapThenSumSet(LAMBDA p : f[p], Contract!Payments)
LEMMA SameTotal == ASSUME NEW f PROVE ContractTotal(f) = Total(f, Payments)
  BY DEF ContractTotal, Total, Contract!MapThenSumSet, Contract!MapThenFoldSet, MapThenSumSet, MapThenFoldSet,
         Contract!Payments, Payments

\* The commit of consumeCredits is a Use of the contract: the whole amount, from what was there.
LEMMA UseStep ==
  ASSUME IInv, JInv, NEW w, WritesOK(w), Spent(w), Total(TakenFrom(w), Payments) \in UseAmounts,
         bucket' = View(bucket, w.bucket), UNCHANGED payment
  PROVE  ContractStep
<1>1. Contract!Payments = Payments
  BY DEF Contract!Payments, Payments
<1>2. TakenFrom(w) \in [Payments -> 0..(PassCredits + PackCredits)]
  BY TakenFits DEF TakenFrom
<1>3. PICK take \in [Payments -> 0..(PassCredits + PackCredits)] : take = TakenFrom(w)
  BY <1>2
<1>4. ContractTotal(take) \in UseAmounts
  BY <1>3, SameTotal
<1>5. \A p \in Payments : /\ take[p] <= bucket[p].remaining
                          /\ bucket'[p].remaining = bucket[p].remaining - take[p]
                          /\ bucket'[p].used = bucket[p].used + take[p]
                          /\ bucket'[p].granted = bucket[p].granted
  BY <1>3, TakenFits
<1>6. Contract!Use(take)
  BY <1>1, <1>4, <1>5 DEF Contract!Use, ContractTotal
<1> QED
  BY <1>1, <1>6 DEF Contract!Next, ContractStep

LEMMA UseLedgerKeeps == ASSUME IInv, JInv, KeepsDecisions, NEW r \in Requests, UseLedger(r) PROVE Kept
<1> DEFINE w == [pend[r] EXCEPT !.wallet = TRUE]
           left == req[r].toUse - Take(req[r])
<1>1. /\ req[r].pc = "useLedger" /\ req[r] \in Locals /\ WritesOK(pend[r])
      /\ req[r].item.amount \in Nat /\ req[r].toUse \in Nat
      /\ PaidFor(pend[r]) /\ Spending(r, req[r], pend[r])
      /\ \A x \in InHand(req[r]) : Paid(x.bucket)
      /\ req[r].amount \in UseAmounts /\ req[r].amount \in Nat
  BY Claims, BillingAssumption DEF UseLedger, RequestFits, LocalsOK, AtCredits, CreditItems, InSnapshot, Locals
<1>2. /\ w.payment = pend[r].payment /\ w.pass = pend[r].pass /\ w.bucket = pend[r].bucket
      /\ PaidFor(w) /\ WritesOK(w)
  BY <1>1, Context, PaidWallet, WriteWallet DEF WritesFit
<1> HIDE DEF w
<1>3. TakenFrom(w) = TakenFrom(pend[r]) /\ Spent(w)
  BY <1>1, <1>2 DEF TakenFrom, Spent, Spending
<1>4. left \in Nat /\ Total(TakenFrom(w), Payments) + left = req[r].amount /\ Total(TakenFrom(w), Payments) \in Nat
  <2>1. Total(TakenFrom(w), Payments) \in Nat
    BY <1>2, <1>3, TakenIsNat
  <2>2. Total(TakenFrom(w), Payments) + req[r].toUse = req[r].amount + Take(req[r])
    BY <1>1, <1>3 DEF Spending
  <2>3. Take(req[r]) \in Nat /\ Take(req[r]) <= req[r].toUse
    BY <1>1 DEF Take
  <2> QED
    BY <1>1, <2>1, <2>2, <2>3
<1> HIDE DEF left
<1>5. CASE Conflict(r)
  BY <1>1, <1>5, ConflictKeeps, SilentIsKept DEF InSnapshot
<1>6. ASSUME NEW x \in First(req[r].todo),
             Stage(r, w, [req[r] EXCEPT !.pc = "spend", !.item = x, !.todo = @ \ {x}, !.toUse = left])
      PROVE  Kept
  <2> DEFINE q == [req[r] EXCEPT !.pc = "spend", !.item = x, !.todo = @ \ {x}, !.toUse = left]
  <2>1. /\ q.pc = "spend" /\ q.amount = req[r].amount /\ q.toUse = left
        /\ q.item = x /\ q.todo = req[r].todo \ {x} /\ x \in req[r].todo
    BY <1>1 DEF Locals, First
  <2> HIDE DEF q
  <2>2. Spending(r, q, w)
    BY <1>1, <1>2, <1>3, <1>4, <2>1 DEF Spending, InHand
  <2>3. RequestFits(r, q, w)
    BY <1>1, <1>2, <2>1, <2>2 DEF RequestFits, Refunding, AtCredits, InSnapshot, InHand
  <2> QED
    BY <1>6, <2>3, StageKeeps, SilentIsKept DEF q
<1>7. CASE left <= 0 /\ Commit(r, w, Idle)
  <2>1. Total(TakenFrom(w), Payments) \in UseAmounts
    BY <1>1, <1>4, <1>7
  <2>2. UNCHANGED payment /\ bucket' = View(bucket, w.bucket) /\ pass' = View(pass, w.pass)
    BY <1>2, <1>7 DEF Commit, View, PaidFor, IInv, TypeOK
  <2>3. ContractStep
    BY <1>2, <1>3, <2>1, <2>2, UseStep
  <2>4. TablesFit'
    <3>1. \A p \in DOMAIN w.bucket : BucketFits(w.bucket[p])
      BY <1>2, <1>3, TakenFits DEF PaidFor, WritesOK
    <3> QED
      BY <1>2, <2>2, <3>1, TablesAfter
  <2>5. CommitFits(r, w) /\ BucketsApart(r, w)
    BY <1>2, CommitLocked, ApartByLocks
  <2>6. JInv'
    BY <1>7, <2>4, <2>5, IdleQuiet, CommitKeeps
  <2> QED
    BY <2>3, <2>6 DEF Kept
<1> QED
  BY <1>5, <1>6, <1>7 DEF UseLedger, w, left

\* A new order changes nothing that is paid, and no payment a transaction has in hand.
LEMMA PurchaseKeeps == ASSUME IInv, JInv, KeepsDecisions, NEW p \in Payments, Purchase(p) PROVE Kept
<1>1. /\ payment[p].status = "NONE" /\ p \notin GrantPayments
      /\ payment'[p].status = "PENDING_DEPOSIT"
      /\ \A o \in Payments \ {p} : payment'[o] = payment[o]
      /\ UNCHANGED <<now, pass, bucket, req, pend, stale>>
  BY DEF Purchase, IInv, TypeOK, PaymentRow
<1>2. \A o : Paid(o)' <=> Paid(o)
  BY <1>1 DEF Paid
<1>3. TablesFit'
  <2>1. BenefitsFollowApproval'
    BY <1>1 DEF JInv, TablesFit, BenefitsFollowApproval
  <2> QED
    BY <1>1, <1>2, <2>1 DEF JInv, TablesFit
<1>4. ASSUME NEW s \in Requests PROVE RequestFits(s, req[s], pend[s])'
  <2>1. PICK q, w : q = req[s] /\ w = pend[s]
    OBVIOUS
  <2>2. RequestFits(s, q, w)
    BY <2>1 DEF JInv
  <2>3. q.pc = "provision" => payment'[q.pay] = payment[q.pay]
    BY <1>1, <2>1, <2>2, Context DEF RequestFits, Approving, LocalsOK, AtPayment
  <2>4. RequestFits(s, q, w)'
    BY <1>1, <1>2, <2>2, <2>3, OtherTables DEF Fresh
  <2> QED
    BY <1>1, <2>1, <2>4
<1>5. Contract!Order(p)
  BY <1>1 DEF Contract!Order, Contract!Payments, Payments, Purchase, IInv, TypeOK, PaymentRow
<1>6. ContractStep
  <2>1. Contract!Payments = Payments
    BY DEF Contract!Payments, Payments
  <2> QED
    BY <1>5, <2>1 DEF ContractStep, Contract!Next
<1> QED
  BY <1>3, <1>4, <1>6 DEF JInv, Kept

LEMMA StutterKeeps == ASSUME JInv, UNCHANGED <<payment, pass, bucket, req, pend, stale>> PROVE Kept
<1>1. TablesFit'
  BY DEF JInv, TablesFit, BenefitsFollowApproval, Paid
<1>2. ASSUME NEW s \in Requests PROVE RequestFits(s, req[s], pend[s])'
  <2>1. PICK q, w : q = req[s] /\ w = pend[s]
    OBVIOUS
  <2>2. RequestFits(s, q, w)'
    BY <2>1, SameTables DEF JInv
  <2> QED
    BY <2>1, <2>2
<1> QED
  BY <1>1, <1>2 DEF JInv, Kept, ContractStep, Contract!contractVars

\* Every step of a request keeps the invariant, and is one step of the contract or none.
LEMMA RequestKeeps ==
  ASSUME IInv, JInv, KeepsDecisions, NEW r \in Requests, Begin(r) \/ Step(r) \/ Fail(r)
  PROVE  Kept
<1>1. CASE Begin(r)
  <2>1. ASSUME NEW p \in Payments, AdminGrant(r, p) PROVE Kept
    BY <2>1, AdminGrantKeeps
  <2>2. ASSUME NEW p \in Payments, NEW op \in DOMAIN Verdict \cap Handlers, ReadPending(r, p, op)
        PROVE  Kept
    BY <2>2, ReadPendingKeeps, SilentIsKept
  <2>3. ASSUME NEW p \in Payments, NEW count \in 0..PassCount, NEW allow \in BOOLEAN,
               NEW status \in RefundInputs, ReadRefund(r, p, count, allow, status)
        PROVE  Kept
    BY <2>3, ReadRefundKeeps, SilentIsKept
  <2>4. ASSUME NEW amount \in UseAmounts, BeginUse(r, amount) PROVE Kept
    BY <2>4, BeginUseKeeps, SilentIsKept
  <2> QED
    BY <1>1, <2>1, <2>2, <2>3, <2>4, BeginReadKeeps, SilentIsKept DEF Begin
<1>2. CASE Step(r)
  <2>1. CASE DeadlockAbort(r)
    BY <2>1, ConflictKeeps, IdleQuiet, RollbackKeeps, SilentIsKept DEF DeadlockAbort
  <2>2. CASE Decide(r) \/ Provision(r) \/ FinishRefund(r) \/ CloseReconcile(r) \/ UseLedger(r)
    BY <2>2, DecideKeeps, ProvisionKeeps, FinishRefundKeeps, CloseReconcileKeeps, UseLedgerKeeps
  <2>3. CASE CancelPass(r) \/ ReadPack(r) \/ Clawback(r) \/ AdjustLedger(r)
    BY <2>3, CancelPassKeeps, ReadPackKeeps, ClawbackKeeps, AdjustLedgerKeeps, SilentIsKept
  <2>4. CASE ReadDue(r) \/ ExpirePass(r) \/ ActivatePass(r) \/ GrantIncluded(r) \/ ExpireBucket(r) \/ ExpireLedger(r)
    BY <2>4, ReadDueKeeps, ExpirePassKeeps, ActivatePassKeeps, GrantIncludedKeeps, ExpireBucketKeeps,
       ExpireLedgerKeeps, SilentIsKept
  <2>5. CASE ReadCredits(r) \/ Spend(r)
    BY <2>5, ReadCreditsKeeps, SpendKeeps, SilentIsKept
  <2> QED
    BY <1>2, <2>1, <2>2, <2>3, <2>4, <2>5 DEF Step
<1>3. CASE Fail(r)
  BY <1>3, IdleQuiet, RollbackKeeps, SilentIsKept DEF Fail
<1> QED
  BY <1>1, <1>2, <1>3

-----------------------------------------------------------------------------
(***************************************************************************)
(* The theorems.                                                           *)
(***************************************************************************)
LEMMA InitFits == Init => JInv /\ Contract!Init
<1> SUFFICES ASSUME Init PROVE JInv /\ Contract!Init
  OBVIOUS
<1>1. TablesFit
  <2>1. BenefitsFollowApproval
    BY DEF Init, BenefitsFollowApproval, NoPaymentRow, NoPassRow, NoBucketRow
  <2>2. PassCredits + PackCredits \in Nat
    BY BillingAssumption
  <2>3. \A p \in Payments : BucketFits(bucket[p]) /\ bucket[p].status = "NONE" /\ payment[p].status = "NONE"
    BY <2>2 DEF Init, BucketFits, NoBucketRow, NoPaymentRow
  <2> QED
    BY <2>1, <2>3 DEF TablesFit
<1>2. \A r \in Requests : RequestFits(r, req[r], pend[r])
  BY IdleQuiet, QuietFits DEF Init
<1>3. Contract!Init
  BY DEF Init, Contract!Init, Contract!Payments, Payments, NoPaymentRow, NoBucketRow
<1> QED
  BY <1>1, <1>2, <1>3 DEF JInv

LEMMA NextKeeps == IInv /\ JInv /\ [Next]_vars => JInv' /\ ContractStep
<1> SUFFICES ASSUME IInv, JInv, [Next]_vars PROVE Kept
  BY DEF Kept
<1>1. KeepsDecisions
  BY NextKeepsIInv
<1>2. ASSUME NEW r \in Requests, Begin(r) \/ Step(r) \/ Fail(r) PROVE Kept
  BY <1>1, <1>2, RequestKeeps
<1>3. CASE Tick
  BY <1>3, StutterKeeps DEF Tick
<1>4. ASSUME NEW p \in Payments, Purchase(p) PROVE Kept
  BY <1>1, <1>4, PurchaseKeeps
<1>5. CASE UNCHANGED vars
  BY <1>5, StutterKeeps DEF vars
<1> QED
  BY <1>2, <1>3, <1>4, <1>5 DEF Next, Work

LEMMA SpecJInv == Spec => [](IInv /\ JInv)
  BY InitIInv, InitFits, NextKeepsIInv, NextKeeps, PTL DEF Spec

\* What a payment buys exists exactly when the payment is approved, for any number of payments
\* and of requests that overlap, fail or dead-lock: the guarded update and all that follows from
\* it are published by one commit, and no transaction writes a pass or a bucket that is not paid.
THEOREM BenefitsFollow == Spec => []BenefitsFollowApproval
<1>1. JInv => BenefitsFollowApproval
  BY DEF JInv, TablesFit
<1> QED
  BY <1>1, SpecJInv, PTL

\* consumeCredits never takes a credit twice, although it writes back amounts it computed from
\* its snapshot: a transaction that commits has read the rows it wrote as they still were.
THEOREM CreditsNotOverspent == Spec => []NeverOverspent
<1>1. JInv => NeverOverspent
  BY DEF JInv, TablesFit, BucketFits, NeverOverspent
<1> QED
  BY <1>1, SpecJInv, PTL

\* BillingService keeps its contract: every commit, of any request, is one step of
\* BillingContract or changes nothing the contract speaks of.
THEOREM ImplementsContract == Spec => KeepsContract
<1>1. IInv /\ JInv /\ [Next]_vars => [Contract!Next]_(Contract!contractVars)
  BY NextKeeps DEF ContractStep
<1>2. Init => Contract!Init
  BY InitFits
<1> QED
  BY <1>1, <1>2, SpecJInv, PTL DEF Spec, KeepsContract, Contract!Spec
-----------------------------------------------------------------------------
(***************************************************************************)
(* That consumeCredits takes the credits that expire first, whatever other *)
(* requests grant, expire and take back meanwhile.  A transaction that is  *)
(* not stale knows every bucket with credits: it is in its list, in the    *)
(* order of the query, or it was emptied before.  Credits that come later  *)
(* come with the wallet's row, so that the transaction is told.            *)
(***************************************************************************)
\* Credits are only left in a bucket, or put there, under the lock of the wallet.
Refreshed(w) == w.wallet \/ \A p \in DOMAIN w.bucket : w.bucket[p].remaining = 0

\* What consumeCredits has in hand and has written, by date of expiry.
Dated(r, x) == <<"bucket", x.bucket>> \in stale[r] \/ bucket[x.bucket].expiresAt = x.rank
Listed(q, o) == \E x \in InHand(q) : x.bucket = o /\ x.rank = bucket[o].expiresAt
Drained(q, w) == \A p \in DOMAIN w.bucket :
    /\ bucket[p].expiresAt <= q.item.rank
    /\ p # q.item.bucket => w.bucket[p].remaining = 0
Walking(r, q, w) ==
    /\ \A x \in InHand(q) : Dated(r, x)
    /\ \A y \in q.todo : q.item.rank <= y.rank
    /\ Drained(q, w)
    /\ ~WalletStale(r) => \A o \in Spendable : o \in DOMAIN w.bucket \/ Listed(q, o)

\* The bucket just written still has what the request does not need.
TakenNow(q, w) ==
    /\ q.item.bucket \in DOMAIN w.bucket
    /\ w.bucket[q.item.bucket].remaining = q.item.amount - Take(q)
    /\ bucket[q.item.bucket].expiresAt = q.item.rank

InOrder(r, q, w) ==
    /\ InSnapshot(q) => Walking(r, q, w)
    /\ ~InSnapshot(q) => Refreshed(w)
    /\ q.pc = "useLedger" => TakenNow(q, w)

OInv == \A r \in Requests : InOrder(r, req[r], pend[r])

\* No bucket is taken from while credits that expire earlier stay.
Nearest == \A p, o \in Payments :
    bucket'[p].used > bucket[p].used /\ o \in Spendable /\ bucket[o].expiresAt < bucket[p].expiresAt
        => bucket'[o].remaining = 0
Ordered == OInv' /\ Nearest

-----------------------------------------------------------------------------
(***************************************************************************)
(* What other requests do to a transaction's list.                         *)
(***************************************************************************)
LEMMA NothingToOrder == ASSUME NEW r, NEW q, ~InSnapshot(q) PROVE InOrder(r, q, NoWrites) /\ InOrder(r, q, NoWrites)'
  BY DEF InOrder, InSnapshot, Refreshed, NoWrites

\* Time only takes credits away.
LEMMA SameOrder ==
  ASSUME IInv, NEW r, NEW q, NEW w, InOrder(r, q, w), UNCHANGED bucket, stale'[r] = stale[r], now' \in {now, now + 1}
  PROVE  InOrder(r, q, w)'
<1>1. Spendable' \subseteq Spendable
  BY DEF Spendable, IInv, TypeOK, BucketRow
<1> QED
  BY <1>1 DEF InOrder, Walking, Dated, Listed, Drained, TakenNow, Refreshed, WalletStale

LEMMA OtherOrder ==
  ASSUME IInv, NEW r, NEW q, NEW w, InOrder(r, q, w), NEW v, Refreshed(v), UNCHANGED now,
         bucket' = View(bucket, v.bucket), DOMAIN w.bucket \cap DOMAIN v.bucket = {}, DOMAIN w.bucket \subseteq Payments,
         InSnapshot(q) => /\ stale'[r] = stale[r] \cup Changed(v)
                          /\ \A x \in InHand(q) : x.bucket \in Payments
  PROVE  InOrder(r, q, w)'
<1>1. \A p \in Payments : bucket'[p] = IF p \in DOMAIN v.bucket THEN v.bucket[p] ELSE bucket[p]
  BY DEF View, IInv, TypeOK
<1>2. /\ v.wallet => <<"wallet">> \in Changed(v)
      /\ \A p \in DOMAIN v.bucket : <<"bucket", p>> \in Changed(v)
  BY DEF Changed, Held
<1>3. \A p \in DOMAIN w.bucket : bucket'[p] = bucket[p]
  BY <1>1
<1>4. CASE InSnapshot(q)
  <2>1. \A x \in InHand(q) : Dated(r, x)'
    BY <1>1, <1>2, <1>4 DEF InOrder, Walking, Dated
  <2>2. Drained(q, w)'
    BY <1>3, <1>4 DEF InOrder, Walking, Drained
  <2>3. ASSUME ~WalletStale(r)', NEW o \in Spendable' PROVE o \in DOMAIN w.bucket \/ Listed(q, o)'
    <3>1. ~WalletStale(r) /\ ~v.wallet
      BY <1>2, <1>4, <2>3 DEF WalletStale
    <3>2. o \in Payments /\ o \notin DOMAIN v.bucket
      BY <1>1, <2>3, <3>1 DEF Spendable, Refreshed
    <3>3. bucket'[o] = bucket[o] /\ o \in Spendable
      BY <1>1, <2>3, <3>2 DEF Spendable
    <3> QED
      BY <1>4, <3>1, <3>3 DEF InOrder, Walking, Listed
  <2>4. q.pc = "useLedger" => TakenNow(q, w)'
    BY <1>3 DEF InOrder, TakenNow
  <2> QED
    BY <1>4, <2>1, <2>2, <2>3, <2>4 DEF InOrder, Walking
<1>5. CASE ~InSnapshot(q)
  BY <1>5 DEF InOrder, InSnapshot, Refreshed
<1> QED
  BY <1>4, <1>5

\* The three ways a step ends.
LEMMA NothingTaken == ASSUME IInv, UNCHANGED bucket PROVE Nearest
  BY DEF Nearest, IInv, TypeOK, BucketRow

LEMMA StageOrder ==
  ASSUME IInv, OInv, NEW r \in Requests, NEW w, NEW q, InOrder(r, q, w), Stage(r, w, q)
  PROVE  Ordered
<1>1. UNCHANGED <<now, bucket, stale>>
  BY DEF Stage
<1>2. /\ req'[r] = q /\ pend'[r] = w
      /\ \A s \in Requests \ {r} : req'[s] = req[s] /\ pend'[s] = pend[s]
  BY DEF Stage, IInv, TypeOK
<1>3. ASSUME NEW s \in Requests PROVE InOrder(s, req[s], pend[s])'
  <2>1. PICK p, v : p = req'[s] /\ v = pend'[s]
    OBVIOUS
  <2>2. InOrder(s, p, v)
    BY <1>2, <2>1 DEF OInv
  <2>3. InOrder(s, p, v)'
    BY <1>1, <2>2, SameOrder
  <2> QED
    BY <2>1, <2>3
<1>4. Nearest
  BY <1>1, NothingTaken
<1> QED
  BY <1>3, <1>4 DEF OInv, Ordered

LEMMA RollbackOrder ==
  ASSUME IInv, OInv, NEW r \in Requests, NEW q, ~InSnapshot(q), Rollback(r, q)
  PROVE  Ordered
<1>1. UNCHANGED <<now, bucket>>
  BY DEF Rollback
<1>2. /\ req'[r] = q /\ pend'[r] = NoWrites
      /\ \A s \in Requests \ {r} : req'[s] = req[s] /\ pend'[s] = pend[s] /\ stale'[s] = stale[s]
  BY DEF Rollback, IInv, TypeOK
<1>3. ASSUME NEW s \in Requests \ {r} PROVE InOrder(s, req[s], pend[s])'
  <2>1. PICK p, v : p = req'[s] /\ v = pend'[s]
    OBVIOUS
  <2>2. InOrder(s, p, v)
    BY <1>2, <2>1 DEF OInv
  <2>3. InOrder(s, p, v)'
    BY <1>1, <1>2, <2>2, SameOrder
  <2> QED
    BY <2>1, <2>3
<1>4. InOrder(r, req[r], pend[r])'
  <2>1. InOrder(r, q, NoWrites)'
    BY NothingToOrder
  <2> QED
    BY <1>2, <2>1
<1>5. Nearest
  BY <1>1, NothingTaken
<1> QED
  BY <1>3, <1>4, <1>5 DEF OInv, Ordered

LEMMA CommitOrder ==
  ASSUME IInv, OInv, NEW r \in Requests, NEW w, NEW q, ~InSnapshot(q), Refreshed(w), BucketsApart(r, w), Commit(r, w, q)
  PROVE  OInv'
<1>1. /\ bucket' = View(bucket, w.bucket) /\ UNCHANGED now
      /\ req'[r] = q /\ pend'[r] = NoWrites
      /\ \A s \in Requests \ {r} : req'[s] = req[s] /\ pend'[s] = pend[s]
  BY DEF Commit, IInv, TypeOK
<1>2. ASSUME NEW s \in Requests \ {r} PROVE InOrder(s, req[s], pend[s])'
  <2>1. PICK p, v : p = req'[s] /\ v = pend'[s]
    OBVIOUS
  <2>2. InOrder(s, p, v) /\ p = req[s] /\ v = pend[s]
    BY <1>1, <2>1 DEF OInv
  <2>3. DOMAIN v.bucket \subseteq Payments /\ DOMAIN v.bucket \cap DOMAIN w.bucket = {}
    BY <2>2 DEF IInv, TypeOK, WritesOK, BucketsApart
  <2>4. ASSUME InSnapshot(p)
        PROVE  stale'[s] = stale[s] \cup Changed(w) /\ \A x \in InHand(p) : x.bucket \in Payments
    <3>1. stale'[s] = stale[s] \cup Changed(w)
      BY <2>2, <2>4 DEF Commit
    <3>2. \A x \in InHand(p) : x.bucket \in Payments
      BY <2>2, <2>4, Context DEF LocalsOK, AtCredits, InSnapshot, InHand, CreditItems
    <3> QED
      BY <3>1, <3>2
  <2>5. InOrder(s, p, v)'
    BY <1>1, <2>2, <2>3, <2>4, OtherOrder
  <2> QED
    BY <2>1, <2>5
<1>3. InOrder(r, req[r], pend[r])'
  <2>1. InOrder(r, q, NoWrites)'
    BY NothingToOrder
  <2> QED
    BY <1>1, <2>1
<1> QED
  BY <1>2, <1>3 DEF OInv

\* A commit of a transaction that used no credits.
Unused(w) == \A p \in DOMAIN w.bucket : w.bucket[p].used <= bucket[p].used
LEMMA UnusedOrder ==
  ASSUME IInv, OInv, NEW r \in Requests, NEW w, NEW q, ~InSnapshot(q), Refreshed(w), BucketsApart(r, w), Unused(w),
         DOMAIN w.bucket \subseteq Payments, \A p \in DOMAIN w.bucket : w.bucket[p].used \in Nat, Commit(r, w, q)
  PROVE  Ordered
<1>1. OInv'
  BY CommitOrder
<1>2. ASSUME NEW p \in Payments PROVE ~(bucket'[p].used > bucket[p].used)
  <2>1. bucket'[p] = IF p \in DOMAIN w.bucket THEN w.bucket[p] ELSE bucket[p]
    BY DEF Commit, View, IInv, TypeOK
  <2>2. bucket[p].used \in Nat
    BY DEF IInv, TypeOK, BucketRow
  <2> QED
    BY <2>1, <2>2 DEF Unused
<1>3. Nearest
  BY <1>2 DEF Nearest
<1> QED
  BY <1>1, <1>3 DEF Ordered

-----------------------------------------------------------------------------
(***************************************************************************)
(* The steps of the handlers.                                              *)
(***************************************************************************)
\* What the invariants say of one request that is not spending.
LEMMA OrderClaims ==
  ASSUME IInv, OInv, NEW r \in Requests
  PROVE  /\ InOrder(r, req[r], pend[r]) /\ req[r] \in Locals /\ WritesOK(pend[r])
         /\ ~InSnapshot(req[r]) => Refreshed(pend[r])
  BY Context DEF OInv, InOrder, WritesFit

LEMMA CalmOrder ==
  ASSUME IInv, OInv, NEW r \in Requests, NEW w, Refreshed(w), \E q : ~InSnapshot(q) /\ Stage(r, w, q)
  PROVE  Ordered
<1>1. PICK q : ~InSnapshot(q) /\ Stage(r, w, q)
  OBVIOUS
<1>2. InOrder(r, q, w)
  BY <1>1 DEF InOrder, InSnapshot
<1> QED
  BY <1>1, <1>2, StageOrder

LEMMA PassRefreshed ==
  ASSUME NEW w, WritesOK(w), Refreshed(w), NEW f, NEW v, v = [w EXCEPT !.pass = f] \/ v = [w EXCEPT !.payment = f] \/ v = [w EXCEPT !.wallet = TRUE]
  PROVE  Refreshed(v)
  BY DEF Refreshed, WritesOK

LEMMA BucketRefreshed ==
  ASSUME NEW w, WritesOK(w), Refreshed(w), NEW p, NEW row, row.remaining = 0, NEW v, v = [w EXCEPT !.bucket = Patch(@, p, row)]
  PROVE  Refreshed(v)
<1>1. v.wallet = w.wallet /\ v.bucket = Patch(w.bucket, p, row)
  BY DEF WritesOK
<1> QED
  BY <1>1 DEF Refreshed, Patch

LEMMA NothingRefreshed == Refreshed(NoWrites)
  BY DEF Refreshed, NoWrites

LEMMA NextTargetCalm ==
  ASSUME NEW r, NEW w, req[r] \in Locals, NextTarget(r, w)
  PROVE  \E q : ~InSnapshot(q) /\ Stage(r, w, q)
  BY NextTargetGoes DEF InSnapshot

LEMMA GoOnCalm ==
  ASSUME NEW r, NEW w, req[r] \in Locals, GoOn(r, w)
  PROVE  \E q : ~InSnapshot(q) /\ Stage(r, w, q)
  BY GoOnGoes DEF InSnapshot

LEMMA BeginOrder ==
  ASSUME IInv, OInv, NEW r \in Requests,
         \/ \E p, op : ReadPending(r, p, op)
         \/ \E p, count, allow, status : ReadRefund(r, p, count, allow, status)
         \/ BeginRead(r)
         \/ \E amount : BeginUse(r, amount)
  PROVE  Ordered
<1>1. ASSUME NEW p, NEW op, ReadPending(r, p, op) PROVE \E q : ~InSnapshot(q) /\ Stage(r, NoWrites, q)
  BY <1>1 DEF ReadPending, Idle, InSnapshot
<1>2. ASSUME NEW p, NEW count, NEW allow, NEW status, ReadRefund(r, p, count, allow, status)
      PROVE  \E q : ~InSnapshot(q) /\ Stage(r, NoWrites, q)
  <2> DEFINE q == [Idle EXCEPT !.op = "refund", !.pay = p, !.refund = status]
             first(x, T) == [q EXCEPT !.pc = "cancelPass", !.item = x, !.todo = T]
             other(pc) == [q EXCEPT !.pc = pc]
  <2>1. /\ \A x, T : ~InSnapshot(first(x, T))
        /\ ~InSnapshot(other("finishRefund")) /\ ~InSnapshot(other("readPack"))
    BY DEF Idle, InSnapshot
  <2>2. \/ \E x, T : Stage(r, NoWrites, first(x, T))
        \/ Stage(r, NoWrites, other("finishRefund")) \/ Stage(r, NoWrites, other("readPack"))
    BY <1>2, ZenonT(60) DEF ReadRefund
  <2> HIDE DEF first, other
  <2> QED
    BY <2>1, <2>2
<1>3. ASSUME BeginRead(r) PROVE \E q : ~InSnapshot(q) /\ Stage(r, NoWrites, q)
  BY <1>3 DEF BeginRead, Reconciling, Idle, InSnapshot
<1>4. ASSUME NEW amount, BeginUse(r, amount) PROVE \E q : ~InSnapshot(q) /\ Stage(r, NoWrites, q)
  BY <1>4 DEF BeginUse, Reconciling, Idle, InSnapshot
<1> QED
  BY <1>1, <1>2, <1>3, <1>4, NothingRefreshed, CalmOrder

LEMMA IdleCalm == ~InSnapshot(Idle) /\ ~InSnapshot(Reconciling)
  BY DEF Idle, Reconciling, InSnapshot

LEMMA CancelPassOrder == ASSUME IInv, OInv, NEW r \in Requests, CancelPass(r) PROVE Ordered
<1> DEFINE e == req[r].item.pass
           row == [pass[e] EXCEPT !.status = "CANCELED", !.revoked = @ + 1,
                                  !.weight = @ + RefundWeight(pass[e], req[r].item.was, now)]
           w == [pend[r] EXCEPT !.pass = Patch(@, e, row)]
           credits == View(bucket, w.bucket)[e[1]]
           next == [req[r] EXCEPT !.pc = "clawback", !.amount = credits.remaining]
<1>1. req[r].pc = "cancelPass" /\ req[r] \in Locals /\ WritesOK(pend[r]) /\ Refreshed(pend[r])
  BY OrderClaims DEF CancelPass, InSnapshot
<1>2. Stage(r, w, next) \/ NextTarget(r, w)
  BY DEF CancelPass
<1>3. ~InSnapshot(next)
  BY <1>1 DEF Locals, InSnapshot
<1> HIDE DEF next
<1>4. Refreshed(w)
  BY <1>1, PassRefreshed
<1> HIDE DEF w
<1> QED
  BY <1>1, <1>2, <1>3, <1>4, NextTargetCalm, CalmOrder

LEMMA ReadPackOrder == ASSUME IInv, OInv, NEW r \in Requests, ReadPack(r) PROVE Ordered
<1> DEFINE next == [req[r] EXCEPT !.pc = "clawback", !.amount = bucket[req[r].pay].remaining]
<1>1. req[r].pc = "readPack" /\ req[r] \in Locals /\ Refreshed(pend[r])
  BY OrderClaims DEF ReadPack, InSnapshot
<1>2. ~InSnapshot(next)
  BY <1>1 DEF Locals, InSnapshot
<1>3. Stage(r, pend[r], next) \/ Rollback(r, Idle)
  BY DEF ReadPack
<1> HIDE DEF next
<1> QED
  BY <1>1, <1>2, <1>3, IdleCalm, CalmOrder, RollbackOrder

LEMMA ClawbackOrder == ASSUME IInv, OInv, NEW r \in Requests, Clawback(r) PROVE Ordered
<1> DEFINE p == req[r].pay
           cleared == [View(bucket, pend[r].bucket)[p] EXCEPT !.status = "CANCELED", !.remaining = 0,
                           !.adjusted = @ + req[r].amount, !.revoked = @ + 1]
           w == [pend[r] EXCEPT !.bucket = Patch(@, p, cleared)]
           next == [req[r] EXCEPT !.pc = "adjustLedger"]
<1>1. /\ req[r].pc = "clawback" /\ req[r] \in Locals /\ WritesOK(pend[r]) /\ Refreshed(pend[r])
      /\ WritesFit(pend[r]) /\ p \in Payments
  BY OrderClaims, Context DEF Clawback, InSnapshot, LocalsOK, AtPayment
<1>2. Stage(r, w, next) \/ NextTarget(r, w)
  BY DEF Clawback
<1>3. ~InSnapshot(next)
  BY <1>1 DEF Locals, InSnapshot
<1> HIDE DEF next
<1>4. cleared.remaining = 0
  BY <1>1, SeenRows DEF IInv, BucketRow
<1> HIDE DEF cleared
<1>5. Refreshed(w)
  BY <1>1, <1>4, BucketRefreshed
<1> HIDE DEF w
<1> QED
  BY <1>1, <1>2, <1>3, <1>5, NextTargetCalm, CalmOrder

LEMMA AdjustLedgerOrder == ASSUME IInv, OInv, NEW r \in Requests, AdjustLedger(r) PROVE Ordered
<1> DEFINE w == [pend[r] EXCEPT !.wallet = TRUE]
<1>1. req[r] \in Locals /\ WritesOK(pend[r]) /\ Refreshed(pend[r])
  BY OrderClaims DEF AdjustLedger, InSnapshot
<1>2. NextTarget(r, w)
  BY DEF AdjustLedger
<1>3. Refreshed(w)
  BY <1>1, PassRefreshed
<1> HIDE DEF w
<1> QED
  BY <1>1, <1>2, <1>3, NextTargetCalm, CalmOrder

LEMMA PassesOrder == ASSUME IInv, OInv, NEW r \in Requests, ReadDue(r) \/ ExpirePass(r) \/ ActivatePass(r) PROVE Ordered
<1> DEFINE e == req[r].item.pass
           w(status) == [pend[r] EXCEPT !.pass = Patch(@, e, [pass[e] EXCEPT !.status = status])]
           next == [req[r] EXCEPT !.pc = "grantIncluded"]
<1>1. req[r] \in Locals /\ WritesOK(pend[r]) /\ Refreshed(pend[r])
  BY OrderClaims DEF ReadDue, ExpirePass, ActivatePass, InSnapshot
<1>2. \/ GoOn(r, pend[r]) \/ GoOn(r, w("EXPIRED"))
      \/ GoOn(r, w("ACTIVE")) \/ Stage(r, w("ACTIVE"), next)
  BY DEF ReadDue, ExpirePass, ActivatePass
<1>3. ~InSnapshot(next)
  BY <1>1 DEF Locals, InSnapshot
<1>4. Refreshed(w("EXPIRED")) /\ Refreshed(w("ACTIVE"))
  BY <1>1, PassRefreshed
<1> HIDE DEF w, next
<1> QED
  BY <1>1, <1>2, <1>3, <1>4, GoOnCalm, CalmOrder

LEMMA GrantIncludedOrder == ASSUME IInv, OInv, NEW r \in Requests, GrantIncluded(r) PROVE Ordered
<1> DEFINE e == req[r].item.pass
           fresh == NewBucket(e[2], PassCredits, View(pass, pend[r].pass)[e].endsAt)
           w == [pend[r] EXCEPT !.bucket = Patch(@, e[1], fresh), !.wallet = TRUE]
<1>1. req[r] \in Locals /\ WritesOK(pend[r])
  BY OrderClaims
<1>2. Refreshed(w)
  BY <1>1 DEF Refreshed, WritesOK
<1>3. GoOn(r, w) \/ Rollback(r, Idle)
  BY DEF GrantIncluded
<1> HIDE DEF w
<1> QED
  BY <1>1, <1>2, <1>3, GoOnCalm, CalmOrder, IdleCalm, RollbackOrder

LEMMA ExpireBucketOrder == ASSUME IInv, OInv, NEW r \in Requests, ExpireBucket(r) PROVE Ordered
<1> DEFINE p == req[r].item.bucket
           over == [View(bucket, pend[r].bucket)[p] EXCEPT !.status = "EXPIRED", !.remaining = 0,
                        !.expired = @ + req[r].item.amount]
           w == [pend[r] EXCEPT !.bucket = Patch(@, p, over)]
           next == [req[r] EXCEPT !.pc = "expireLedger"]
<1>1. /\ req[r].pc = "expireBucket" /\ req[r] \in Locals /\ WritesOK(pend[r]) /\ Refreshed(pend[r])
      /\ WritesFit(pend[r]) /\ p \in Payments
  BY OrderClaims, Context DEF ExpireBucket, InSnapshot, LocalsOK, AtCredits, CreditItems
<1>2. Stage(r, w, next)
  BY DEF ExpireBucket
<1>3. ~InSnapshot(next)
  BY <1>1 DEF Locals, InSnapshot
<1> HIDE DEF next
<1>4. over.remaining = 0
  BY <1>1, SeenRows DEF IInv, BucketRow
<1> HIDE DEF over
<1>5. Refreshed(w)
  BY <1>1, <1>4, BucketRefreshed
<1> HIDE DEF w
<1> QED
  BY <1>2, <1>3, <1>5, CalmOrder

LEMMA ExpireLedgerOrder == ASSUME IInv, OInv, NEW r \in Requests, ExpireLedger(r) PROVE Ordered
<1> DEFINE w == [pend[r] EXCEPT !.wallet = TRUE]
           last == [req[r] EXCEPT !.pc = "closeReconcile", !.item = NoItem]
           next(x) == [req[r] EXCEPT !.pc = "expireBucket", !.item = x, !.todo = @ \ {x}]
<1>1. req[r] \in Locals /\ WritesOK(pend[r]) /\ Refreshed(pend[r])
  BY OrderClaims DEF ExpireLedger, InSnapshot
<1>2. Stage(r, w, last) \/ \E x : Stage(r, w, next(x))
  BY DEF ExpireLedger
<1>3. ~InSnapshot(last) /\ \A x : ~InSnapshot(next(x))
  BY <1>1 DEF Locals, InSnapshot
<1>4. Refreshed(w)
  BY <1>1, PassRefreshed
<1> HIDE DEF w, last, next
<1> QED
  BY <1>2, <1>3, <1>4, CalmOrder

-----------------------------------------------------------------------------
(***************************************************************************)
(* The commits that use no credits.                                        *)
(***************************************************************************)
LEMMA SettledUnused ==
  ASSUME IInv, NEW w, WritesOK(w), Settled(w)
  PROVE  Unused(w) /\ \A p \in DOMAIN w.bucket : w.bucket[p].used \in Nat
<1>1. \A p \in DOMAIN w.bucket : w.bucket[p] \in BucketRow /\ bucket[p] \in BucketRow
  BY DEF WritesOK, IInv, TypeOK
<1> QED
  BY <1>1 DEF Settled, Lost, Begun, Unused, BucketRow

LEMMA ClosingOrder ==
  ASSUME IInv, JInv, OInv, NEW r \in Requests, FinishRefund(r) \/ CloseReconcile(r)
  PROVE  Ordered
<1> DEFINE paid == [payment[req[r].pay] EXCEPT !.refund = req[r].refund]
           w1 == [pend[r] EXCEPT !.payment = Patch(@, req[r].pay, paid)]
           w2 == [pend[r] EXCEPT !.wallet = TRUE]
           again == [req[r] EXCEPT !.pc = "readCredits", !.at = 0]
<1>1. /\ req[r].pc \in {"finishRefund", "closeReconcile"}
      /\ req[r] \in Locals /\ WritesOK(pend[r]) /\ Settled(pend[r])
  BY Claims DEF FinishRefund, CloseReconcile, RequestFits
<1>2. Refreshed(pend[r])
  BY <1>1, OrderClaims DEF InSnapshot
<1>3. Refreshed(w1) /\ Refreshed(w2) /\ w1.bucket = pend[r].bucket /\ w2.bucket = pend[r].bucket
  BY <1>1, <1>2, PassRefreshed DEF WritesOK
<1>4. ~InSnapshot(again)
  BY <1>1 DEF Locals, InSnapshot
<1>5. Commit(r, w1, Reconciling) \/ Commit(r, w2, again) \/ Commit(r, w2, Idle)
  BY DEF FinishRefund, CloseReconcile
<1> HIDE DEF w1, w2, again
<1>6. PICK w, q : Commit(r, w, q) /\ ~InSnapshot(q) /\ Refreshed(w) /\ w.bucket = pend[r].bucket
  BY <1>3, <1>4, <1>5, IdleCalm
<1>7. /\ Unused(w) /\ DOMAIN w.bucket \subseteq Payments
      /\ \A p \in DOMAIN w.bucket : w.bucket[p].used \in Nat
  BY <1>1, <1>6, SettledUnused DEF Unused, WritesOK
<1>8. BucketsApart(r, w)
  BY <1>6, ApartByLocks
<1> QED
  BY <1>6, <1>7, <1>8, UnusedOrder

\* The credits that an approval or a grant adds.
LEMMA GrantsOrder ==
  ASSUME IInv, JInv, OInv, NEW r \in Requests, NEW p \in Payments, ~Paid(p), NEW w, NEW q, ~InSnapshot(q),
         Commit(r, w, q), w.wallet, DOMAIN w.bucket \subseteq {p}, \A o \in DOMAIN w.bucket : w.bucket[o].used = 0
  PROVE  Ordered
<1>1. BucketsApart(r, w)
  BY UnpaidApart
<1>2. Refreshed(w) /\ DOMAIN w.bucket \subseteq Payments
  BY DEF Refreshed
<1>3. Unused(w)
  BY <1>2 DEF Unused, IInv, TypeOK, BucketRow
<1> QED
  BY <1>1, <1>2, <1>3, UnusedOrder

LEMMA AdminGrantOrder == ASSUME IInv, JInv, OInv, NEW r \in Requests, NEW p \in Payments, AdminGrant(r, p) PROVE Ordered
<1> DEFINE credits == NewBucket(0, PackCredits, CreditExpiryAt(now))
           paid == [payment[p] EXCEPT !.status = "APPROVED", !.decisions = @ + 1]
           w == [NoWrites EXCEPT !.payment = Patch(@, p, paid), !.bucket = Patch(@, p, credits), !.wallet = TRUE]
<1>1. ~Paid(p)
  BY DEF AdminGrant, Paid
<1>2. credits.used = 0
  BY DEF NewBucket, NoBucketRow
<1>3. Commit(r, w, Reconciling)
  BY DEF AdminGrant
<1> HIDE DEF credits, paid
<1>4. w.wallet /\ DOMAIN w.bucket \subseteq {p} /\ \A o \in DOMAIN w.bucket : w.bucket[o].used = 0
  BY <1>2 DEF NoWrites, Patch
<1> HIDE DEF w
<1> QED
  BY <1>1, <1>3, <1>4, IdleCalm, GrantsOrder

LEMMA ProvisionOrder == ASSUME IInv, JInv, OInv, NEW r \in Requests, Provision(r) PROVE Ordered
<1> DEFINE p == req[r].pay
           made == ProvisionedPasses(req[r].latest, req[r].at)
           first == NewBucket(1, PassCredits, made[1].endsAt)
           pack == NewBucket(0, PackCredits, CreditExpiryAt(req[r].at))
           w == [pend[r] EXCEPT !.wallet = TRUE]
           rowsOf == [e \in {p} \X (1..PassCount) |-> made[e[2]]]
           buckets == IF req[r].latest = -1 THEN Patch(w.bucket, p, first) ELSE w.bucket
           passed == [w EXCEPT !.pass = rowsOf, !.bucket = buckets]
           packed == [w EXCEPT !.bucket = Patch(@, p, pack)]
<1>1. p \in Payments /\ Approving(pend[r], p) /\ WritesOK(pend[r])
  BY Claims DEF Provision, LocalsOK, AtPayment, RequestFits
<1> HIDE DEF made, rowsOf
<1>2. first.used = 0 /\ pack.used = 0
  BY DEF NewBucket, NoBucketRow
<1> HIDE DEF first, pack
<1>3. ~Paid(p)
  BY <1>1 DEF Approving, Paid
<1>4. w.wallet = TRUE /\ w.bucket = pend[r].bucket /\ WritesOK(w)
  <2>1. w.wallet = TRUE
    BY <1>1 DEF WritesOK
  <2>2. WritesFit(w)
    BY <1>1, Context, WriteWallet
  <2> QED
    BY <1>1, <2>1, <2>2, PaidWallet DEF WritesFit
<1> HIDE DEF w
<1>5. DOMAIN buckets \subseteq {p} /\ \A o \in DOMAIN buckets : buckets[o].used = 0
  BY <1>1, <1>2, <1>4 DEF Approving, Patch
<1>6. passed.wallet /\ packed.wallet /\ passed.bucket = buckets /\ packed.bucket = Patch(w.bucket, p, pack)
  BY <1>4 DEF WritesOK
<1>7. DOMAIN packed.bucket \subseteq {p} /\ \A o \in DOMAIN packed.bucket : packed.bucket[o].used = 0
  BY <1>1, <1>2, <1>4, <1>6 DEF Approving, Patch
<1>8. Commit(r, passed, Reconciling) \/ Commit(r, packed, Reconciling)
  BY DEF Provision, made, rowsOf, first, pack, w
<1> HIDE DEF passed, packed, buckets
<1> QED
  BY <1>1, <1>3, <1>5, <1>6, <1>7, <1>8, IdleCalm, GrantsOrder

LEMMA DecideOrder == ASSUME IInv, JInv, OInv, NEW r \in Requests, Decide(r) PROVE Ordered
<1> DEFINE w == [NoWrites EXCEPT !.payment = Patch(@, req[r].pay,
                    [payment[req[r].pay] EXCEPT !.status = Verdict[req[r].op], !.decisions = @ + 1])]
           next(end) == [req[r] EXCEPT !.pc = "provision", !.latest = end]
<1>1. req[r] \in Locals
  BY OrderClaims
<1>2. DOMAIN w.bucket = {}
  BY DEF NoWrites
<1>3. \A end : ~InSnapshot(next(end))
  BY <1>1 DEF Locals, InSnapshot
<1>4. \/ Rollback(r, Idle) \/ Commit(r, w, Reconciling) \/ Commit(r, w, Idle)
      \/ \E end : Stage(r, w, next(end))
  BY DEF Decide, ApproveInTransaction
<1> HIDE DEF w, next
<1>5. Refreshed(w) /\ Unused(w) /\ BucketsApart(r, w)
  BY <1>2 DEF Refreshed, Unused, BucketsApart
<1>6. ASSUME NEW q, ~InSnapshot(q), Commit(r, w, q) PROVE Ordered
  BY <1>2, <1>5, <1>6, UnusedOrder
<1> QED
  BY <1>3, <1>4, <1>5, <1>6, IdleCalm, CalmOrder, RollbackOrder

-----------------------------------------------------------------------------
(***************************************************************************)
(* consumeCredits.                                                         *)
(***************************************************************************)
\* The list that the snapshot gives holds every bucket with credits, in the order of the query.
LEMMA ReadCreditsOrder == ASSUME IInv, OInv, NEW r \in Requests, ReadCredits(r) PROVE Ordered
<1> DEFINE credits == {CreditItem(p, bucket[p]) : p \in Spendable}
           q(x) == [req[r] EXCEPT !.pc = "spend", !.item = x, !.todo = credits \ {x}, !.toUse = req[r].amount]
<1>1. req[r] \in Locals
  BY OrderClaims
<1>2. Rollback(r, Idle) \/ \E x \in First(credits) : Stage(r, NoWrites, q(x))
  BY DEF ReadCredits
<1>3. ASSUME NEW x \in First(credits) PROVE InOrder(r, q(x), NoWrites)
  <2>1. /\ \A y \in credits : bucket[y.bucket].expiresAt = y.rank
        /\ \A o \in Spendable : \E y \in credits : y.bucket = o /\ y.rank = bucket[o].expiresAt
    <3>1. \A o : CreditItem(o, bucket[o]).bucket = o /\ CreditItem(o, bucket[o]).rank = bucket[o].expiresAt
      BY DEF CreditItem
    <3>2. \A o \in Spendable : CreditItem(o, bucket[o]) \in credits
      OBVIOUS
    <3>3. \A y \in credits : \E o \in Spendable : y = CreditItem(o, bucket[o])
      OBVIOUS
    <3> HIDE DEF credits
    <3> QED
      BY <3>1, <3>2, <3>3
  <2>2. x \in credits /\ \A y \in credits : x.rank <= y.rank
    BY DEF First
  <2> HIDE DEF credits
  <2>3. q(x).pc = "spend" /\ q(x).item = x /\ q(x).todo = credits \ {x}
    BY <1>1 DEF Locals
  <2> HIDE DEF q
  <2>4. InHand(q(x)) = credits /\ q(x).todo \subseteq credits
    BY <2>2, <2>3 DEF InHand
  <2>5. DOMAIN NoWrites.bucket = {}
    BY DEF NoWrites
  <2> QED
    BY <2>1, <2>2, <2>3, <2>4, <2>5 DEF InOrder, InSnapshot, Walking, Dated, Listed, Drained
<1> HIDE DEF q, credits
<1> QED
  BY <1>2, <1>3, IdleCalm, RollbackOrder, StageOrder

LEMMA ConflictOrder == ASSUME IInv, OInv, NEW r \in Requests, Conflict(r) PROVE Ordered
<1> DEFINE again == [req[r] EXCEPT !.pc = "readCredits", !.item = NoItem, !.todo = {}, !.toUse = 0,
                                   !.tries = req[r].tries + 1]
<1>1. req[r] \in Locals
  BY OrderClaims
<1>2. ~InSnapshot(again)
  BY <1>1 DEF Locals, InSnapshot
<1>3. Rollback(r, again) \/ Rollback(r, Idle)
  BY DEF Conflict
<1> HIDE DEF again
<1> QED
  BY <1>2, <1>3, IdleCalm, RollbackOrder

\* A bucket is written that is no later than what is left of the list.
LEMMA SpendOrder == ASSUME IInv, JInv, OInv, NEW r \in Requests, Spend(r) PROVE Ordered
<1> DEFINE p == req[r].item.bucket
           left == req[r].item.amount - Take(req[r])
           taken == [bucket[p] EXCEPT !.remaining = left, !.used = @ + Take(req[r]),
                                      !.status = IF left = 0 THEN "DEPLETED" ELSE "ACTIVE"]
           w == [pend[r] EXCEPT !.bucket = Patch(@, p, taken)]
           q == [req[r] EXCEPT !.pc = "useLedger"]
<1>1. /\ req[r].pc = "spend" /\ req[r] \in Locals /\ WritesOK(pend[r]) /\ p \in Payments
      /\ Walking(r, req[r], pend[r]) /\ Spending(r, req[r], pend[r])
  BY OrderClaims, Claims DEF Spend, InOrder, RequestFits, InSnapshot, LocalsOK, AtCredits, CreditItems
<1>2. CASE Conflict(r)
  BY <1>2, ConflictOrder
<1>3. CASE <<"bucket", p>> \notin stale[r] /\ Stage(r, w, q)
  <2>1. bucket[p].expiresAt = req[r].item.rank
    BY <1>1, <1>3 DEF Walking, Dated, InHand
  <2>2. taken.remaining = left
    BY <1>1 DEF IInv, TypeOK, BucketRow
  <2> HIDE DEF taken
  <2>3. w.bucket = Patch(pend[r].bucket, p, taken)
    BY <1>1 DEF WritesOK
  <2> HIDE DEF w
  <2>4. /\ q.pc = "useLedger" /\ q.item = req[r].item /\ q.todo = req[r].todo /\ q.toUse = req[r].toUse
    BY <1>1 DEF Locals
  <2>5. Take(q) = Take(req[r])
    BY <2>4 DEF Take
  <2> HIDE DEF q
  <2>6. TakenNow(q, w)
    BY <2>1, <2>2, <2>3, <2>4, <2>5 DEF TakenNow, Patch
  <2>7. Drained(q, w)
    <3>1. p \notin DOMAIN pend[r].bucket
      BY <1>1 DEF Spending
    <3>2. bucket[p].expiresAt \in Nat
      BY <1>1 DEF IInv, TypeOK, BucketRow
    <3> QED
      BY <1>1, <2>1, <2>3, <2>4, <3>1, <3>2 DEF Walking, Drained, Patch
  <2>8. InHand(q) = InHand(req[r]) /\ DOMAIN pend[r].bucket \subseteq DOMAIN w.bucket
    BY <2>3, <2>4 DEF InHand, Patch
  <2>9. Walking(r, q, w)
    BY <1>1, <2>4, <2>7, <2>8 DEF Walking, Listed
  <2>10. InOrder(r, q, w)
    BY <2>4, <2>6, <2>9 DEF InOrder, InSnapshot
  <2> QED
    BY <1>3, <2>10, StageOrder
<1> QED
  BY <1>2, <1>3 DEF Spend

\* A transaction that commits was told of every bucket with credits: what expires before a bucket it
\* took from was in its list before it, and it took all of it.
LEMMA UsedNearest ==
  ASSUME IInv, NEW r \in Requests, req[r] \in Locals, LocalsOK(req[r]), req[r].pc = "useLedger", ~WalletStale(r),
         Walking(r, req[r], pend[r]), TakenNow(req[r], pend[r]), WritesOK(pend[r]),
         NEW w, w.bucket = pend[r].bucket, bucket' = View(bucket, w.bucket)
  PROVE  Nearest
<1> SUFFICES ASSUME NEW p \in Payments, NEW o \in Payments, bucket'[p].used > bucket[p].used, o \in Spendable,
                    bucket[o].expiresAt < bucket[p].expiresAt
             PROVE  bucket'[o].remaining = 0
  BY DEF Nearest
<1> DEFINE q == req[r]
<1>1. \A e \in Payments : bucket'[e] = IF e \in DOMAIN w.bucket THEN w.bucket[e] ELSE bucket[e]
  BY DEF View, IInv, TypeOK
<1>2. p \in DOMAIN w.bucket
  BY <1>1 DEF IInv, TypeOK, BucketRow
<1>3. /\ bucket[p].expiresAt \in Nat /\ bucket[o].expiresAt \in Nat
      /\ q.item.rank \in Int /\ \A x \in q.todo : x.rank \in Int
  BY DEF IInv, TypeOK, BucketRow, LocalsOK, AtCredits, CreditItems
<1>4. bucket[p].expiresAt <= q.item.rank
  BY <1>2 DEF Walking, Drained
<1>5. o \in DOMAIN w.bucket
  <2> SUFFICES ASSUME Listed(q, o), o \notin DOMAIN w.bucket PROVE FALSE
    BY DEF Walking
  <2>1. PICK x \in InHand(q) : x.bucket = o /\ x.rank = bucket[o].expiresAt
    BY DEF Listed
  <2>2. q.item.rank <= x.rank
    BY <1>3, <2>1 DEF Walking, InHand
  <2> QED
    BY <1>3, <1>4, <2>1, <2>2
<1>6. o # q.item.bucket
  BY <1>3, <1>4 DEF TakenNow
<1> QED
  BY <1>1, <1>5, <1>6 DEF Walking, Drained

LEMMA UseLedgerOrder == ASSUME IInv, JInv, OInv, NEW r \in Requests, UseLedger(r) PROVE Ordered
<1> DEFINE w == [pend[r] EXCEPT !.wallet = TRUE]
           left == req[r].toUse - Take(req[r])
           q(x) == [req[r] EXCEPT !.pc = "spend", !.item = x, !.todo = @ \ {x}, !.toUse = left]
<1>1. /\ req[r].pc = "useLedger" /\ req[r] \in Locals /\ LocalsOK(req[r]) /\ WritesOK(pend[r])
      /\ Walking(r, req[r], pend[r]) /\ TakenNow(req[r], pend[r]) /\ Spending(r, req[r], pend[r])
      /\ req[r].item.amount \in Nat /\ req[r].toUse \in Nat
  BY OrderClaims, Claims DEF UseLedger, InOrder, RequestFits, InSnapshot, LocalsOK, AtCredits, CreditItems, Locals
<1>2. w.bucket = pend[r].bucket /\ w.wallet = TRUE
  BY <1>1 DEF WritesOK
<1> HIDE DEF w
<1>3. CASE Conflict(r)
  BY <1>3, ConflictOrder
<1>4. ASSUME left > 0, NEW x \in First(req[r].todo), Stage(r, w, q(x)) PROVE Ordered
  <2>1. req[r].item.amount = Take(req[r])
    BY <1>1, <1>4 DEF Take
  <2>2. \A e \in DOMAIN w.bucket : w.bucket[e].remaining = 0
    <3>1. req[r].item.amount - Take(req[r]) = 0
      BY <1>1, <2>1
    <3> QED
      BY <1>1, <1>2, <3>1 DEF Walking, Drained, TakenNow
  <2>3. /\ q(x).pc = "spend" /\ q(x).item = x /\ q(x).todo = req[r].todo \ {x}
        /\ x \in req[r].todo /\ \A y \in req[r].todo : x.rank <= y.rank
    BY <1>1 DEF Locals, First
  <2> HIDE DEF q
  <2>4. Drained(q(x), w)
    <3>1. \A e \in DOMAIN w.bucket : bucket[e].expiresAt \in Nat
      BY <1>1, <1>2 DEF WritesOK, IInv, TypeOK, BucketRow
    <3>2. req[r].item.rank \in Int /\ x.rank \in Int /\ req[r].item.rank <= x.rank
      BY <1>1, <2>3 DEF LocalsOK, AtCredits, CreditItems, Walking
    <3> QED
      BY <1>1, <1>2, <2>2, <2>3, <3>1, <3>2 DEF Walking, Drained
  <2>5. InHand(q(x)) = req[r].todo /\ InHand(req[r]) = req[r].todo \cup {req[r].item}
    BY <2>3 DEF InHand
  <2>6. \A o \in Spendable : o \in DOMAIN w.bucket \/ Listed(req[r], o) => o \in DOMAIN w.bucket \/ Listed(q(x), o)
    BY <1>1, <1>2, <2>5 DEF Listed, TakenNow
  <2>7. Walking(r, q(x), w)
    BY <1>1, <1>2, <2>3, <2>4, <2>5, <2>6 DEF Walking
  <2>8. InOrder(r, q(x), w)
    BY <2>3, <2>7 DEF InOrder, InSnapshot
  <2> QED
    BY <1>4, <2>8, StageOrder
<1>5. CASE ~WalletStale(r) /\ Commit(r, w, Idle)
  <2>1. bucket' = View(bucket, w.bucket)
    BY <1>5 DEF Commit
  <2>2. Nearest
    BY <1>1, <1>2, <1>5, <2>1, UsedNearest
  <2>3. BucketsApart(r, w) /\ Refreshed(w)
    BY <1>2, ApartByLocks DEF Refreshed
  <2> QED
    BY <1>5, <2>2, <2>3, IdleCalm, CommitOrder DEF Ordered
<1> HIDE DEF q
<1> QED
  BY <1>3, <1>4, <1>5 DEF UseLedger, w, left, q

-----------------------------------------------------------------------------
(***************************************************************************)
(* All steps.                                                              *)
(***************************************************************************)
LEMMA OutsideOrder ==
  ASSUME IInv, OInv, UNCHANGED <<bucket, req, pend, stale>>, now' \in {now, now + 1}
  PROVE  Ordered
<1>1. ASSUME NEW s \in Requests PROVE InOrder(s, req[s], pend[s])'
  <2>1. PICK q, w : q = req[s] /\ w = pend[s]
    OBVIOUS
  <2>2. InOrder(s, q, w)'
    BY <2>1, SameOrder DEF OInv
  <2> QED
    BY <2>1, <2>2
<1> QED
  BY <1>1, NothingTaken DEF OInv, Ordered

LEMMA RequestOrder == ASSUME IInv, JInv, OInv, NEW r \in Requests, Begin(r) \/ Step(r) \/ Fail(r) PROVE Ordered
<1>1. CASE Begin(r)
  <2>1. ASSUME NEW p \in Payments, AdminGrant(r, p) PROVE Ordered
    BY <2>1, AdminGrantOrder
  <2>2. CASE \/ \E p, op : ReadPending(r, p, op)
             \/ \E p, count, allow, status : ReadRefund(r, p, count, allow, status)
             \/ BeginRead(r)
             \/ \E amount : BeginUse(r, amount)
    BY <2>2, BeginOrder
  <2> QED
    BY <1>1, <2>1, <2>2 DEF Begin
<1>2. CASE Decide(r) \/ Provision(r) \/ FinishRefund(r) \/ CloseReconcile(r)
  BY <1>2, DecideOrder, ProvisionOrder, ClosingOrder
<1>3. CASE CancelPass(r) \/ ReadPack(r) \/ Clawback(r) \/ AdjustLedger(r)
  BY <1>3, CancelPassOrder, ReadPackOrder, ClawbackOrder, AdjustLedgerOrder
<1>4. CASE ReadDue(r) \/ ExpirePass(r) \/ ActivatePass(r) \/ GrantIncluded(r) \/ ExpireBucket(r) \/ ExpireLedger(r)
  BY <1>4, PassesOrder, GrantIncludedOrder, ExpireBucketOrder, ExpireLedgerOrder
<1>5. CASE ReadCredits(r) \/ Spend(r) \/ UseLedger(r)
  BY <1>5, ReadCreditsOrder, SpendOrder, UseLedgerOrder
<1>6. CASE DeadlockAbort(r) \/ Fail(r)
  BY <1>6, ConflictOrder, IdleCalm, RollbackOrder DEF DeadlockAbort, Fail
<1> QED
  BY <1>1, <1>2, <1>3, <1>4, <1>5, <1>6 DEF Step

LEMMA NextOrder == IInv /\ JInv /\ OInv /\ [Next]_vars => Ordered
<1> SUFFICES ASSUME IInv, JInv, OInv, [Next]_vars PROVE Ordered
  OBVIOUS
<1>0. now \in Nat
  BY DEF IInv, TypeOK
<1>1. ASSUME NEW r \in Requests, Begin(r) \/ Step(r) \/ Fail(r) PROVE Ordered
  BY <1>1, RequestOrder
<1>2. CASE Tick
  BY <1>2, OutsideOrder DEF Tick
<1>3. ASSUME NEW p \in Payments, Purchase(p) PROVE Ordered
  BY <1>3, OutsideOrder DEF Purchase
<1>4. CASE UNCHANGED vars
  BY <1>4, OutsideOrder DEF vars
<1> QED
  BY <1>1, <1>2, <1>3, <1>4 DEF Next, Work

LEMMA SpecOInv == Spec => [](IInv /\ JInv /\ OInv)
<1>1. Init => OInv
  BY IdleCalm, NothingToOrder DEF Init, OInv
<1>2. IInv /\ JInv /\ OInv /\ [Next]_vars => OInv'
  BY NextOrder DEF Ordered
<1> QED
  BY <1>1, <1>2, SpecJInv, PTL DEF Spec

\* consumeCredits takes from no bucket while credits that are valid and expire earlier stay behind, for
\* any number of buckets and of requests that grant, expire and take back credits while it runs: whoever
\* adds credits refreshes the wallet, whose row the transaction refreshes too, so that it conflicts.
THEOREM NearestExpiryTakenFirst == Spec => NearestExpiryFirst
<1>1. IInv /\ JInv /\ OInv /\ [Next]_vars =>
        [\A p, o \in Payments :
            bucket'[p].used > bucket[p].used /\ o \in Spendable /\ bucket[o].expiresAt < bucket[p].expiresAt
              => bucket'[o].remaining = 0]_vars
  BY NextOrder DEF Ordered, Nearest
<1> QED
  BY <1>1, SpecOInv, PTL DEF Spec, NearestExpiryFirst
=============================================================================
