------------------------ MODULE BillingSerialProofs ------------------------
(***************************************************************************)
(* What holds of an instructor's passes and credits as long as its         *)
(* requests do not overlap: the windows of the passes, the one that is     *)
(* active, refunds that take back once and newest first, the credit        *)
(* ledger, and the access a pass opens.  With one request in progress the  *)
(* tables it sees, its own writes included, are the whole state, so the    *)
(* invariant says of them what the properties say of the committed ones,   *)
(* and of the lists in the request's hand that they still are as read.     *)
(***************************************************************************)
EXTENDS BillingContractProofs, BillingViews

OneAtATime == \A r, s \in Requests : r = s

SeenPasses(w) == View(pass, w.pass)
SeenBuckets(w) == View(bucket, w.bucket)

\* The passes of a table: refunds are noted once, and the open windows lie apart.
OpenRow(row) == row.status \in {"ACTIVE", "QUEUED"}
Apart(one, other) == one.endsAt < other.startsAt \/ other.endsAt < one.startsAt
PassesFit(P) == \A e \in PassIds :
    /\ P[e].revoked = (IF P[e].status = "CANCELED" THEN 1 ELSE 0)
    /\ \A f \in PassIds : P[e].status = "ACTIVE" /\ P[f].status = "ACTIVE" => e = f
    /\ \A f \in PassIds : e # f /\ OpenRow(P[e]) /\ OpenRow(P[f]) => Apart(P[e], P[f])

\* A pass that runs has begun, and one that ran out is over.
TimesFit(P, t) == \A e \in PassIds :
    /\ P[e].status = "ACTIVE" => P[e].startsAt <= t
    /\ P[e].status = "EXPIRED" => P[e].endsAt <= t

\* A bucket's ledger, and the pass its included credits came with.
LedgerFits(b) ==
    /\ b.granted = b.remaining + b.used + b.expired + b.adjusted
    /\ b.revoked = (IF b.status = "CANCELED" THEN 1 ELSE 0)
    /\ b.status = "CANCELED" => b.remaining = 0
CreditsFit(p, P, B) == B[p].status # "NONE" =>
    /\ B[p].seq \in 1..PassCount
    /\ P[<<p, B[p].seq>>].status \notin {"NONE", "QUEUED"}
    /\ P[<<p, B[p].seq>>].status = "CANCELED" <=> B[p].status = "CANCELED"
LedgersFit(B) == \A p \in Payments : LedgerFits(B[p])

AllFit(P, B) == PassesFit(P) /\ LedgersFit(B) /\ \A p \in PassPayments : CreditsFit(p, P, B)

\* The refund under way: what it canceled and what it is still to cancel of its payment.
RefundPcs == Refunding \cup {"readPack", "finishRefund"}
Targets(q) == q.todo \cup (IF q.pc = "cancelPass" THEN {q.item} ELSE {})
Chosen(q, w) == DOMAIN w.pass \cup {x.pass : x \in Targets(q)}
NewestFirst(S) == \A e \in S, f \in PassIds :
    e[1] = f[1] /\ pass[f].status = "QUEUED" /\ pass[f].startsAt > pass[e].startsAt => f \in S
RefundHand(q, w) ==
    /\ \A x \in Targets(q) : /\ x.pass \in PassIds /\ x.pass \notin DOMAIN w.pass
                             /\ Open(x.pass) /\ x.was = pass[x.pass].status
    /\ \A x, y \in Targets(q) : x.pass = y.pass => x = y
    /\ q.pc = "cancelPass" => q.item \notin q.todo
    /\ q.pc \in {"readPack", "finishRefund"} => q.todo = {}
    /\ q.pc = "readPack" => q.pay \notin PassPayments /\ DOMAIN w.pass = {} /\ DOMAIN w.bucket = {}
    /\ \A e \in DOMAIN w.pass : w.pass[e].status = "CANCELED"
    /\ NewestFirst(Chosen(q, w))

\* The credits that are taken back next are those of the pass just canceled, or of a pack.
ClawbackHand(q, P, B) ==
    /\ B[q.pay].status \notin {"NONE", "CANCELED"} /\ q.amount = B[q.pay].remaining
    /\ q.pay \in PassPayments => B[q.pay].seq \in 1..PassCount /\ P[<<q.pay, B[q.pay].seq>>].status = "CANCELED"

\* The reconcile under way.
ReconcilePcs == GoingOn \cup {"expireBucket", "expireLedger", "closeReconcile"}
Walked(P, t) ==
    /\ \A e \in PassIds : P[e].status = "ACTIVE" => ~Over(P[e], t)
    /\ (\E e \in PassIds : P[e].status = "ACTIVE") \/ \A e \in PassIds : ~(P[e].status = "QUEUED" /\ Covers(P[e], t))
Lapsing(x, B) == B[x.bucket].status = "ACTIVE" /\ x.amount = B[x.bucket].remaining
Reconciled(P, t) ==
    /\ \A e \in PassIds : /\ P[e].startsAt = pass[e].startsAt /\ P[e].endsAt = pass[e].endsAt
                          /\ P[e].revoked = pass[e].revoked
                          /\ P[e].status = "CANCELED" => pass[e].status = "CANCELED"
    /\ TimesFit(P, t)
ReconcileHand(q, P, B) ==
    /\ Reconciled(P, q.at)
    /\ q.pc = "expirePass" => P[q.item.pass].status = "ACTIVE" /\ Over(P[q.item.pass], q.at)
    /\ q.pc = "activatePass" => /\ P[q.item.pass].status = "QUEUED" /\ Covers(P[q.item.pass], q.at)
                                /\ \A e \in PassIds : P[e].status # "ACTIVE"
    /\ q.pc = "grantIncluded" => P[q.item.pass].status = "ACTIVE"
    /\ q.pc \in {"expireBucket", "expireLedger", "closeReconcile"} => Walked(P, q.at)
    /\ q.pc \in {"expireBucket", "expireLedger"} =>
         (\A x \in q.todo : Lapsing(x, B)) /\ \A x, y \in q.todo : x.bucket = y.bucket => x = y
    /\ q.pc = "expireBucket" => Lapsing(q.item, B) /\ \A x \in q.todo : x.bucket # q.item.bucket

\* The credits consumeCredits has in hand.
SpendHand(q, w) ==
    /\ DOMAIN w.pass = {}
    /\ \A x \in q.todo : bucket[x.bucket].status = "ACTIVE"
    /\ q.pc = "spend" => bucket[q.item.bucket].status = "ACTIVE"

LatestKnown(end) ==
    /\ end = -1 => \A e \in PassIds : ~Open(e)
    /\ end # -1 => \A e \in PassIds : Open(e) => pass[e].endsAt <= end

Hand(q, w, P, B) ==
    /\ PassesFit(P) /\ LedgersFit(B)
    /\ \A p \in PassPayments : (q.pc = "clawback" /\ p = q.pay) \/ CreditsFit(p, P, B)
    /\ q.at <= now
    /\ q.pc = "provision" => LatestKnown(q.latest)
    /\ q.pc \in RefundPcs => RefundHand(q, w)
    /\ q.pc = "clawback" => ClawbackHand(q, P, B)
    /\ q.pc \in ReconcilePcs => ReconcileHand(q, P, B)
    /\ InSnapshot(q) => SpendHand(q, w)

SInv ==
    /\ AllFit(pass, bucket) /\ TimesFit(pass, now)
    /\ \A r \in Requests : /\ stale[r] = {}
                           /\ Hand(req[r], pend[r], SeenPasses(pend[r]), SeenBuckets(pend[r]))

-----------------------------------------------------------------------------
(***************************************************************************)
(* The tables a request sees.                                              *)
(***************************************************************************)
LEMMA SeenAt ==
  ASSUME IInv, NEW w, WritesOK(w)
  PROVE  /\ SeenPasses(w) \in [PassIds -> PassRow] /\ SeenBuckets(w) \in [Payments -> BucketRow]
         /\ \A e \in PassIds : SeenPasses(w)[e] = IF e \in DOMAIN w.pass THEN w.pass[e] ELSE pass[e]
         /\ \A p \in Payments : SeenBuckets(w)[p] = IF p \in DOMAIN w.bucket THEN w.bucket[p] ELSE bucket[p]
  BY DEF SeenPasses, SeenBuckets, View, IInv, TypeOK, WritesOK

LEMMA SeenNothing ==
  ASSUME IInv, NEW w, DOMAIN w.pass = {}, DOMAIN w.bucket = {}
  PROVE  SeenPasses(w) = pass /\ SeenBuckets(w) = bucket
  BY DEF SeenPasses, SeenBuckets, View, IInv, TypeOK

LEMMA SeenSame ==
  ASSUME NEW w, NEW v, v.pass = w.pass, v.bucket = w.bucket
  PROVE  SeenPasses(v) = SeenPasses(w) /\ SeenBuckets(v) = SeenBuckets(w)
  BY DEF SeenPasses, SeenBuckets

LEMMA NothingWritten == DOMAIN NoWrites.pass = {} /\ DOMAIN NoWrites.bucket = {} /\ WritesOK(NoWrites)
  BY NoWritesFit DEF NoWrites, WritesFit

WrotePass(v, w, e, row) == v.pass = Patch(w.pass, e, row) /\ v.bucket = w.bucket
WroteBucket(v, w, p, row) == v.bucket = Patch(w.bucket, p, row) /\ v.pass = w.pass

LEMMA PassOfWrites ==
  ASSUME NEW w, WritesOK(w), NEW e, NEW row, NEW v, v = [w EXCEPT !.pass = Patch(@, e, row)]
  PROVE  WrotePass(v, w, e, row)
  BY DEF WritesOK, WrotePass

LEMMA BucketOfWrites ==
  ASSUME NEW w, WritesOK(w), NEW p, NEW row, NEW v, v = [w EXCEPT !.bucket = Patch(@, p, row)]
  PROVE  WroteBucket(v, w, p, row)
  BY DEF WritesOK, WroteBucket

\* A row more, as the transaction then sees its table.
LEMMA SeePass ==
  ASSUME IInv, NEW w, WritesOK(w), NEW e \in PassIds, NEW row, NEW v, WrotePass(v, w, e, row)
  PROVE  /\ SeenPasses(v)[e] = row /\ \A f \in PassIds \ {e} : SeenPasses(v)[f] = SeenPasses(w)[f]
         /\ SeenBuckets(v) = SeenBuckets(w)
         /\ DOMAIN v.pass = DOMAIN w.pass \cup {e} /\ DOMAIN v.bucket = DOMAIN w.bucket
         /\ v.pass[e] = row /\ \A f \in DOMAIN w.pass \ {e} : v.pass[f] = w.pass[f]
<1>1. v.bucket = w.bucket /\ v.pass = Patch(w.pass, e, row)
  BY DEF WrotePass
<1>2. DOMAIN pass = PassIds
  BY DEF IInv, TypeOK
<1>3. DOMAIN v.pass = DOMAIN w.pass \cup {e} /\ v.pass[e] = row /\ \A f \in DOMAIN w.pass \ {e} : v.pass[f] = w.pass[f]
  BY <1>1 DEF Patch
<1>4. SeenPasses(v) = [f \in PassIds |-> IF f = e THEN row ELSE SeenPasses(w)[f]]
  BY <1>2, <1>3 DEF SeenPasses, View
<1> QED
  BY <1>1, <1>3, <1>4 DEF SeenBuckets

LEMMA SeeBucket ==
  ASSUME IInv, NEW w, WritesOK(w), NEW p \in Payments, NEW row, NEW v, WroteBucket(v, w, p, row)
  PROVE  /\ SeenBuckets(v)[p] = row /\ \A o \in Payments \ {p} : SeenBuckets(v)[o] = SeenBuckets(w)[o]
         /\ SeenPasses(v) = SeenPasses(w)
         /\ v.pass = w.pass
<1>1. v.pass = w.pass /\ v.bucket = Patch(w.bucket, p, row)
  BY DEF WroteBucket
<1>2. DOMAIN bucket = Payments
  BY DEF IInv, TypeOK
<1>3. DOMAIN v.bucket = DOMAIN w.bucket \cup {p} /\ v.bucket[p] = row
      /\ \A o \in DOMAIN w.bucket \ {p} : v.bucket[o] = w.bucket[o]
  BY <1>1 DEF Patch
<1>4. SeenBuckets(v) = [o \in Payments |-> IF o = p THEN row ELSE SeenBuckets(w)[o]]
  BY <1>2, <1>3 DEF SeenBuckets, View
<1> QED
  BY <1>1, <1>4 DEF SeenPasses

LEMMA SeeWallet ==
  ASSUME NEW w, WritesOK(w), NEW v, v = [w EXCEPT !.wallet = TRUE]
  PROVE  SeenBuckets(v) = SeenBuckets(w) /\ SeenPasses(v) = SeenPasses(w) /\ v.pass = w.pass /\ v.bucket = w.bucket
<1>1. v.pass = w.pass /\ v.bucket = w.bucket
  BY PaidWallet
<1> QED
  BY <1>1, SeenSame

\* What the invariant says of the request in progress.
LEMMA InHandNow ==
  ASSUME IInv, SInv, NEW r \in Requests, NEW q, q = req[r], NEW w, w = pend[r],
         NEW P, P = SeenPasses(w), NEW B, B = SeenBuckets(w)
  PROVE  /\ Hand(q, w, P, B) /\ WritesOK(w) /\ q \in Locals /\ LocalsOK(q)
         /\ P \in [PassIds -> PassRow] /\ B \in [Payments -> BucketRow]
<1>1. WritesOK(w) /\ q \in Locals /\ LocalsOK(q)
  BY Context DEF WritesFit
<1> QED
  BY <1>1, SeenAt DEF SInv

-----------------------------------------------------------------------------
(***************************************************************************)
(* The three ways a step ends.                                             *)
(***************************************************************************)
\* A request that has read nothing it still relies on.
Calm(q) == q.pc \in {"idle", "decide", "reconcile", "readCredits"}

LEMMA CalmHand ==
  ASSUME NEW q, Calm(q), NEW P, NEW B
  PROVE  /\ AllFit(P, B) /\ P = pass /\ TimesFit(P, q.at) /\ q.at <= now => Hand(q, NoWrites, P, B)
         /\ (AllFit(P, B) /\ P = pass /\ TimesFit(P, q.at) /\ q.at <= now => Hand(q, NoWrites, P, B))'
  BY DEF Calm, AllFit, Hand, RefundPcs, Refunding, ReconcilePcs, GoingOn, ReconcileHand, Reconciled, InSnapshot

\* Only the clock may have moved.
LEMMA HandLater ==
  ASSUME NEW q, NEW w, NEW P, NEW B, Hand(q, w, P, B), UNCHANGED <<pass, bucket>>, q.at <= now'
  PROVE  Hand(q, w, P, B)'
  BY DEF Hand, PassesFit, LedgersFit, CreditsFit, LatestKnown, Open, RefundHand, NewestFirst, Chosen, Targets,
         ClawbackHand, ReconcileHand, Reconciled, TimesFit, SpendHand, Lapsing, Walked

LEMMA StageSerial ==
  ASSUME OneAtATime, IInv, SInv, NEW r \in Requests, NEW w, NEW q, Stage(r, w, q),
         Hand(q, w, SeenPasses(w), SeenBuckets(w))
  PROVE  SInv'
<1>1. UNCHANGED <<now, pass, bucket, stale>>
  BY DEF Stage
<1>2. \A s \in Requests : s = r /\ req'[s] = q /\ pend'[s] = w
  BY DEF Stage, IInv, TypeOK, OneAtATime
<1>3. PICK P, B : P = SeenPasses(w) /\ B = SeenBuckets(w)
  OBVIOUS
<1>4. Hand(q, w, P, B)'
  <2>1. q.at <= now
    BY DEF Hand
  <2> QED
    BY <1>1, <1>3, <2>1, HandLater
<1>5. P = SeenPasses(w)' /\ B = SeenBuckets(w)'
  BY <1>1, <1>3 DEF SeenPasses, SeenBuckets, View
<1>6. AllFit(pass, bucket)' /\ TimesFit(pass, now)'
  BY <1>1 DEF SInv, AllFit, PassesFit, LedgersFit, CreditsFit, TimesFit
<1>7. \A s \in Requests : (stale[s] = {})'
  BY <1>1 DEF SInv
<1>8. ASSUME NEW s \in Requests PROVE Hand(req[s], pend[s], SeenPasses(pend[s]), SeenBuckets(pend[s]))'
  BY <1>2, <1>4, <1>5
<1> QED
  BY <1>6, <1>7, <1>8 DEF SInv

\* A reconcile that starts takes the time as it is.
Fresher(q) == Calm(q) /\ q.at <= now /\ (q.pc = "reconcile" => q.at = now)

LEMMA CalmHandAt ==
  ASSUME NEW q, Calm(q), q.at <= now, q.pc = "reconcile" => q.at = now, NEW P, NEW B
  PROVE  /\ AllFit(P, B) /\ P = pass /\ TimesFit(P, now) => Hand(q, NoWrites, P, B)
         /\ UNCHANGED now => (AllFit(P, B) /\ P = pass /\ TimesFit(P, now) => Hand(q, NoWrites, P, B))'
<1>1. q.pc # "reconcile" => q.pc \notin RefundPcs \cup ReconcilePcs
  BY DEF Calm, RefundPcs, Refunding, ReconcilePcs, GoingOn
<1>2. q.pc \notin {"clawback", "provision"} /\ ~InSnapshot(q)
  BY DEF Calm, InSnapshot
<1>3. CASE q.pc = "reconcile"
  BY <1>3, CalmHand
<1>4. CASE q.pc # "reconcile"
  BY <1>1, <1>2, <1>4 DEF Hand, AllFit
<1> QED
  BY <1>3, <1>4

LEMMA CommitSerial ==
  ASSUME OneAtATime, IInv, SInv, NEW r \in Requests, NEW w, NEW q, Commit(r, w, q), Fresher(q),
         AllFit(SeenPasses(w), SeenBuckets(w)), TimesFit(SeenPasses(w), now)
  PROVE  SInv'
<1>1. UNCHANGED now /\ pass' = SeenPasses(w) /\ bucket' = SeenBuckets(w)
  BY DEF Commit, SeenPasses, SeenBuckets
<1>2. \A s \in Requests : s = r /\ req'[s] = q /\ pend'[s] = NoWrites /\ stale'[s] = {}
  BY DEF Commit, IInv, TypeOK, OneAtATime
<1>3. PICK P, B : P = SeenPasses(w) /\ B = SeenBuckets(w)
  OBVIOUS
<1>4. AllFit(P, B) /\ TimesFit(P, now)
  BY <1>3
<1>5. AllFit(P, B)' /\ TimesFit(P, now)'
  BY <1>1, <1>4 DEF AllFit, PassesFit, LedgersFit, CreditsFit, TimesFit
<1>6. Hand(q, NoWrites, P, B)'
  BY <1>1, <1>3, <1>5, CalmHandAt DEF Fresher
<1>7. P = SeenPasses(NoWrites)' /\ B = SeenBuckets(NoWrites)'
  <2>1. P = pass' /\ B = bucket' /\ P = [e \in PassIds |-> P[e]] /\ B = [p \in Payments |-> B[p]]
    BY <1>1, <1>3 DEF SeenPasses, SeenBuckets, View, IInv, TypeOK
  <2> QED
    BY <2>1, NothingWritten DEF SeenPasses, SeenBuckets, View
<1>8. ASSUME NEW s \in Requests PROVE Hand(req[s], pend[s], SeenPasses(pend[s]), SeenBuckets(pend[s]))'
  BY <1>2, <1>6, <1>7
<1>9. AllFit(pass, bucket)' /\ TimesFit(pass, now)'
  BY <1>1, <1>3, <1>5
<1> QED
  BY <1>2, <1>8, <1>9 DEF SInv

LEMMA RollbackSerial ==
  ASSUME OneAtATime, IInv, SInv, NEW r \in Requests, NEW q, Rollback(r, q), Fresher(q)
  PROVE  SInv'
<1>1. UNCHANGED <<now, pass, bucket>>
  BY DEF Rollback
<1>2. \A s \in Requests : s = r /\ req'[s] = q /\ pend'[s] = NoWrites /\ stale'[s] = {}
  BY DEF Rollback, IInv, TypeOK, OneAtATime
<1>3. PICK P, B : P = pass /\ B = bucket
  OBVIOUS
<1>4. AllFit(P, B) /\ TimesFit(P, now)
  BY <1>3 DEF SInv
<1>5. AllFit(P, B)' /\ TimesFit(P, now)'
  BY <1>1, <1>4 DEF AllFit, PassesFit, LedgersFit, CreditsFit, TimesFit
<1>6. Hand(q, NoWrites, P, B)'
  BY <1>1, <1>3, <1>5, CalmHandAt DEF Fresher
<1>7. P = SeenPasses(NoWrites)' /\ B = SeenBuckets(NoWrites)'
  BY <1>1, <1>3, NothingWritten DEF SeenPasses, SeenBuckets, View, IInv, TypeOK
<1>8. ASSUME NEW s \in Requests PROVE Hand(req[s], pend[s], SeenPasses(pend[s]), SeenBuckets(pend[s]))'
  BY <1>2, <1>6, <1>7
<1>9. AllFit(pass, bucket)' /\ TimesFit(pass, now)'
  BY <1>1, <1>3, <1>5
<1> QED
  BY <1>2, <1>8, <1>9 DEF SInv

\* A step that begins something with nothing written.
LEMMA BeginSerial ==
  ASSUME OneAtATime, IInv, SInv, NEW r \in Requests, NEW q, Stage(r, NoWrites, q), Fresher(q)
  PROVE  SInv'
<1>1. SeenPasses(NoWrites) = pass /\ SeenBuckets(NoWrites) = bucket
  BY SeenNothing, NothingWritten
<1>2. Hand(q, NoWrites, SeenPasses(NoWrites), SeenBuckets(NoWrites))
  BY <1>1, CalmHandAt DEF Fresher, SInv
<1> QED
  BY <1>2, StageSerial

LEMMA FresherIdle == IInv => Fresher(Idle) /\ Fresher(Reconciling)
  BY SMTT(60) DEF Fresher, Calm, Idle, Reconciling, IInv, TypeOK

-----------------------------------------------------------------------------
(***************************************************************************)
(* The reconcile.                                                          *)
(***************************************************************************)
LEMMA GoOnSerial ==
  ASSUME OneAtATime, IInv, SInv, NEW r \in Requests, req[r].pc \in GoingOn, NEW w, WritesOK(w),
         AllFit(SeenPasses(w), SeenBuckets(w)), Reconciled(SeenPasses(w), req[r].at), GoOn(r, w)
  PROVE  SInv'
<1> DEFINE q == req[r]
           passes  == View(pass, w.pass)
           buckets == View(bucket, w.bucket)
           active  == {e \in PassIds : passes[e].status = "ACTIVE"}
           over    == {PassItem(e, "ACTIVE", passes[e].endsAt) : e \in {f \in active : Over(passes[f], q.at)}}
           ready   == {PassItem(e, "QUEUED", passes[e].startsAt) :
                         e \in {f \in PassIds : passes[f].status = "QUEUED" /\ Covers(passes[f], q.at)}}
           lapsed  == {CreditItem(p, buckets[p]) :
                         p \in {o \in Payments : buckets[o].status = "ACTIVE" /\ buckets[o].expiresAt <= q.at}}
<1>1. q \in Locals /\ q.at <= now
  BY InHandNow DEF Hand
<1>2. passes = SeenPasses(w) /\ buckets = SeenBuckets(w)
  BY DEF SeenPasses, SeenBuckets
<1> HIDE DEF passes, buckets
<1>3. \A x \in over : passes[x.pass].status = "ACTIVE" /\ Over(passes[x.pass], q.at)
  BY DEF PassItem
<1>4. \A x \in ready : passes[x.pass].status = "QUEUED" /\ Covers(passes[x.pass], q.at)
  BY DEF PassItem
<1>5. /\ \A x \in lapsed : Lapsing(x, buckets)
      /\ \A x, y \in lapsed : x.bucket = y.bucket => x = y
  BY DEF CreditItem, Lapsing
<1>6. over = {} => \A e \in PassIds : passes[e].status = "ACTIVE" => ~Over(passes[e], q.at)
  OBVIOUS
<1>7. active # {} \/ ready = {} => \/ \E e \in PassIds : passes[e].status = "ACTIVE"
                                   \/ \A e \in PassIds : ~(passes[e].status = "QUEUED" /\ Covers(passes[e], q.at))
  OBVIOUS
<1>8. active = {} => \A e \in PassIds : passes[e].status # "ACTIVE"
  OBVIOUS
<1> HIDE DEF over, ready, lapsed, active
<1>9. over = {} /\ (active # {} \/ ready = {}) => Walked(passes, q.at)
  BY <1>6, <1>7 DEF Walked
\* Where the reconcile goes on.
<1>10. ASSUME NEW n, n.pc \in ReconcilePcs, n.at = q.at, ReconcileHand(n, passes, buckets)
       PROVE  Hand(n, w, passes, buckets)
  <2>1. n.pc \notin RefundPcs \cup {"clawback", "provision"} /\ ~InSnapshot(n)
    BY <1>10 DEF ReconcilePcs, GoingOn, RefundPcs, Refunding, InSnapshot
  <2> QED
    BY <1>1, <1>2, <1>10, <2>1 DEF Hand, AllFit
<1>11. ASSUME NEW x \in First(over), Stage(r, w, [q EXCEPT !.pc = "expirePass", !.item = x])
       PROVE  SInv'
  <2> DEFINE n == [q EXCEPT !.pc = "expirePass", !.item = x]
  <2>1. n.pc = "expirePass" /\ n.at = q.at /\ n.item = x /\ x \in over
    BY <1>1 DEF Locals, First
  <2> HIDE DEF n
  <2>2. Hand(n, w, passes, buckets)
    BY <1>2, <1>3, <1>10, <2>1 DEF ReconcileHand, ReconcilePcs, GoingOn
  <2> QED
    BY <1>2, <1>11, <2>2, StageSerial DEF n
<1>12. ASSUME NEW x \in First(ready), active = {}, Stage(r, w, [q EXCEPT !.pc = "activatePass", !.item = x])
       PROVE  SInv'
  <2> DEFINE n == [q EXCEPT !.pc = "activatePass", !.item = x]
  <2>1. n.pc = "activatePass" /\ n.at = q.at /\ n.item = x /\ x \in ready
    BY <1>1 DEF Locals, First
  <2> HIDE DEF n
  <2>2. Hand(n, w, passes, buckets)
    BY <1>2, <1>4, <1>8, <1>10, <1>12, <2>1 DEF ReconcileHand, ReconcilePcs, GoingOn
  <2> QED
    BY <1>2, <1>12, <2>2, StageSerial DEF n
<1>13. ASSUME NEW x \in First(lapsed), over = {}, active # {} \/ ready = {},
              Stage(r, w, [q EXCEPT !.pc = "expireBucket", !.item = x, !.todo = lapsed \ {x}])
       PROVE  SInv'
  <2> DEFINE n == [q EXCEPT !.pc = "expireBucket", !.item = x, !.todo = lapsed \ {x}]
  <2>1. n.pc = "expireBucket" /\ n.at = q.at /\ n.item = x /\ n.todo = lapsed \ {x} /\ x \in lapsed
    BY <1>1 DEF Locals, First
  <2> HIDE DEF n
  <2>2. Hand(n, w, passes, buckets)
    BY <1>2, <1>5, <1>9, <1>10, <1>13, <2>1 DEF ReconcileHand, ReconcilePcs, GoingOn
  <2> QED
    BY <1>2, <1>13, <2>2, StageSerial DEF n
<1>14. ASSUME over = {}, active # {} \/ ready = {}, Stage(r, w, [q EXCEPT !.pc = "closeReconcile", !.item = NoItem])
       PROVE  SInv'
  <2> DEFINE n == [q EXCEPT !.pc = "closeReconcile", !.item = NoItem]
  <2>1. n.pc = "closeReconcile" /\ n.at = q.at
    BY <1>1 DEF Locals
  <2> HIDE DEF n
  <2>2. Hand(n, w, passes, buckets)
    BY <1>2, <1>9, <1>10, <1>14, <2>1 DEF ReconcileHand, ReconcilePcs, GoingOn
  <2> QED
    BY <1>2, <1>14, <2>2, StageSerial DEF n
<1> QED
  BY <1>11, <1>12, <1>13, <1>14 DEF GoOn, passes, buckets, active, over, ready, lapsed

\* A pass changes its status, and nothing else of it.
Restatus(P, e, status, N) ==
    /\ \A f \in PassIds : f # e => N[f] = P[f]
    /\ N[e].status = status /\ N[e].startsAt = P[e].startsAt /\ N[e].endsAt = P[e].endsAt /\ N[e].revoked = P[e].revoked

LEMMA RunsOut ==
  ASSUME NEW P, NEW B, NEW N, NEW e \in PassIds, AllFit(P, B), NEW t, Reconciled(P, t),
         Restatus(P, e, "EXPIRED", N), P[e].status = "ACTIVE", Over(P[e], t)
  PROVE  AllFit(N, B) /\ Reconciled(N, t)
<1>1. PassesFit(N)
  BY DEF AllFit, PassesFit, Restatus, OpenRow, Apart
<1>2. \A p \in PassPayments : CreditsFit(p, N, B)
  BY DEF AllFit, CreditsFit, Restatus, PassIds
<1>3. Reconciled(N, t)
  BY DEF Reconciled, TimesFit, Restatus, Over
<1> QED
  BY <1>1, <1>2, <1>3 DEF AllFit

LEMMA Begins ==
  ASSUME NEW P, NEW B, NEW N, NEW e \in PassIds, AllFit(P, B), NEW t, Reconciled(P, t),
         Restatus(P, e, "ACTIVE", N), P[e].status = "QUEUED", Covers(P[e], t),
         \A f \in PassIds : P[f].status # "ACTIVE"
  PROVE  AllFit(N, B) /\ Reconciled(N, t)
<1>1. PassesFit(N)
  BY DEF AllFit, PassesFit, Restatus, OpenRow, Apart
<1>2. \A p \in PassPayments : CreditsFit(p, N, B)
  BY DEF AllFit, CreditsFit, Restatus, PassIds
<1>3. Reconciled(N, t)
  BY DEF Reconciled, TimesFit, Restatus, Covers
<1> QED
  BY <1>1, <1>2, <1>3 DEF AllFit

\* What the invariant says of a reconcile under way.
LEMMA ReconcileNow ==
  ASSUME IInv, SInv, NEW r \in Requests, req[r].pc \in ReconcilePcs
  PROVE  /\ AllFit(SeenPasses(pend[r]), SeenBuckets(pend[r]))
         /\ Reconciled(SeenPasses(pend[r]), req[r].at)
         /\ ReconcileHand(req[r], SeenPasses(pend[r]), SeenBuckets(pend[r]))
         /\ WritesOK(pend[r]) /\ req[r] \in Locals /\ LocalsOK(req[r]) /\ req[r].at <= now
<1>1. /\ Hand(req[r], pend[r], SeenPasses(pend[r]), SeenBuckets(pend[r]))
      /\ WritesOK(pend[r]) /\ req[r] \in Locals /\ LocalsOK(req[r])
  BY InHandNow
<1>2. req[r].pc # "clawback"
  BY DEF ReconcilePcs, GoingOn
<1> QED
  BY <1>1, <1>2 DEF Hand, AllFit, ReconcileHand

LEMMA ReadDueSerial == ASSUME OneAtATime, IInv, SInv, NEW r \in Requests, ReadDue(r) PROVE SInv'
<1>1. req[r].pc = "reconcile" /\ GoOn(r, pend[r]) /\ req[r].pc \in GoingOn
  BY DEF ReadDue, GoingOn
<1>2. req[r].pc \in ReconcilePcs
  BY <1>1 DEF ReconcilePcs
<1> QED
  BY <1>1, <1>2, ReconcileNow, GoOnSerial

\* A pass a reconcile writes: the row it writes is of what it sees, for it changes statuses only.
LEMMA StatusWritten ==
  ASSUME IInv, SInv, NEW r \in Requests, req[r].pc \in ReconcilePcs, NEW e \in PassIds,
         NEW status \in PassStatus, NEW w, w = [pend[r] EXCEPT !.pass = Patch(@, e, [pass[e] EXCEPT !.status = status])]
  PROVE  /\ Restatus(SeenPasses(pend[r]), e, status, SeenPasses(w))
         /\ SeenBuckets(w) = SeenBuckets(pend[r]) /\ WritesOK(w)
<1> DEFINE row == [pass[e] EXCEPT !.status = status]
           P == SeenPasses(pend[r])
<1>1. Reconciled(P, req[r].at) /\ WritesOK(pend[r])
  BY ReconcileNow
<1>2. pass[e] \in PassRow
  BY DEF IInv, TypeOK
<1>3. /\ row.status = status /\ row.startsAt = pass[e].startsAt /\ row.endsAt = pass[e].endsAt
      /\ row.revoked = pass[e].revoked /\ row \in PassRow
  BY <1>2 DEF PassRow
<1>4. WrotePass(w, pend[r], e, row)
  BY <1>1, PassOfWrites
<1> HIDE DEF row, P
<1>6. /\ SeenPasses(w)[e] = row /\ \A f \in PassIds \ {e} : SeenPasses(w)[f] = P[f]
      /\ SeenBuckets(w) = SeenBuckets(pend[r])
  BY <1>1, <1>4, SeePass DEF P
<1>5. WritesOK(w)
  BY <1>3, Context, WritePass DEF WritesFit, row
<1> QED
  BY <1>1, <1>3, <1>5, <1>6 DEF Restatus, Reconciled, P

LEMMA ExpirePassSerial == ASSUME OneAtATime, IInv, SInv, NEW r \in Requests, ExpirePass(r) PROVE SInv'
<1> DEFINE e == req[r].item.pass
           w == [pend[r] EXCEPT !.pass = Patch(@, e, [pass[e] EXCEPT !.status = "EXPIRED"])]
<1>1. req[r].pc = "expirePass" /\ req[r].pc \in GoingOn /\ req[r].pc \in ReconcilePcs /\ GoOn(r, w)
  BY DEF ExpirePass, GoingOn, ReconcilePcs
<1>2. /\ AllFit(SeenPasses(pend[r]), SeenBuckets(pend[r])) /\ Reconciled(SeenPasses(pend[r]), req[r].at)
      /\ SeenPasses(pend[r])[e].status = "ACTIVE" /\ Over(SeenPasses(pend[r])[e], req[r].at) /\ e \in PassIds
  BY <1>1, ReconcileNow DEF ReconcileHand, LocalsOK, AtPass, PassItems
<1>3. Restatus(SeenPasses(pend[r]), e, "EXPIRED", SeenPasses(w)) /\ SeenBuckets(w) = SeenBuckets(pend[r]) /\ WritesOK(w)
  BY <1>1, <1>2, StatusWritten DEF PassStatus
<1> HIDE DEF w
<1>4. AllFit(SeenPasses(w), SeenBuckets(w)) /\ Reconciled(SeenPasses(w), req[r].at)
  BY <1>2, <1>3, RunsOut
<1> QED
  BY <1>1, <1>3, <1>4, GoOnSerial

LEMMA ActivatePassSerial == ASSUME OneAtATime, IInv, SInv, NEW r \in Requests, ActivatePass(r) PROVE SInv'
<1> DEFINE e == req[r].item.pass
           w == [pend[r] EXCEPT !.pass = Patch(@, e, [pass[e] EXCEPT !.status = "ACTIVE"])]
           n == [req[r] EXCEPT !.pc = "grantIncluded"]
<1>1. req[r].pc = "activatePass" /\ req[r].pc \in GoingOn /\ req[r].pc \in ReconcilePcs /\ (GoOn(r, w) \/ Stage(r, w, n))
  BY ZenonT(60) DEF ActivatePass, GoingOn, ReconcilePcs
<1>2. /\ AllFit(SeenPasses(pend[r]), SeenBuckets(pend[r])) /\ Reconciled(SeenPasses(pend[r]), req[r].at)
      /\ SeenPasses(pend[r])[e].status = "QUEUED" /\ Covers(SeenPasses(pend[r])[e], req[r].at) /\ e \in PassIds
      /\ \A f \in PassIds : SeenPasses(pend[r])[f].status # "ACTIVE"
      /\ req[r] \in Locals /\ req[r].at <= now
  BY <1>1, ReconcileNow DEF ReconcileHand, LocalsOK, AtPass, PassItems
<1>3. Restatus(SeenPasses(pend[r]), e, "ACTIVE", SeenPasses(w)) /\ SeenBuckets(w) = SeenBuckets(pend[r]) /\ WritesOK(w)
  BY <1>1, <1>2, StatusWritten DEF PassStatus
<1> HIDE DEF w
<1>4. AllFit(SeenPasses(w), SeenBuckets(w)) /\ Reconciled(SeenPasses(w), req[r].at)
  BY <1>2, <1>3, Begins
<1>5. CASE GoOn(r, w)
  BY <1>1, <1>3, <1>4, <1>5, GoOnSerial
<1>6. CASE Stage(r, w, n)
  <2>1. n.pc = "grantIncluded" /\ n.at = req[r].at /\ n.item.pass = e
    BY <1>2 DEF Locals
  <2> HIDE DEF n
  <2>2. ReconcileHand(n, SeenPasses(w), SeenBuckets(w))
    BY <1>3, <1>4, <2>1 DEF ReconcileHand, Restatus
  <2>3. Hand(n, w, SeenPasses(w), SeenBuckets(w))
    BY <1>2, <1>4, <2>1, <2>2 DEF Hand, AllFit, RefundPcs, Refunding, InSnapshot
  <2> QED
    BY <1>6, <2>3, StageSerial
<1> QED
  BY <1>1, <1>5, <1>6

LEMMA GrantIncludedSerial == ASSUME OneAtATime, IInv, SInv, NEW r \in Requests, GrantIncluded(r) PROVE SInv'
<1> DEFINE e == req[r].item.pass
           seen == View(bucket, pend[r].bucket)
           fresh == NewBucket(e[2], PassCredits, View(pass, pend[r].pass)[e].endsAt)
           w1 == [pend[r] EXCEPT !.bucket = Patch(@, e[1], fresh)]
           w == [w1 EXCEPT !.wallet = TRUE]
           P == SeenPasses(pend[r])
           B == SeenBuckets(pend[r])
<1>1. req[r].pc = "grantIncluded" /\ req[r].pc \in GoingOn /\ req[r].pc \in ReconcilePcs
  BY DEF GrantIncluded, GoingOn, ReconcilePcs
<1>2. /\ AllFit(P, B) /\ Reconciled(P, req[r].at) /\ P[e].status = "ACTIVE" /\ e \in PassIds
      /\ WritesOK(pend[r])
  BY <1>1, ReconcileNow DEF ReconcileHand, LocalsOK, AtPass, PassItems
<1>3. e[1] \in PassPayments /\ e[1] \in Payments /\ e[2] \in 1..PassCount /\ e = <<e[1], e[2]>>
  BY <1>2 DEF PassIds, Payments
<1>4. CASE ~UniqueKeyTaken(seen, e[1])
  <2>1. /\ fresh.status = "ACTIVE" /\ fresh.seq = e[2] /\ fresh.granted = PassCredits /\ fresh.used = 0
        /\ fresh.remaining = PassCredits /\ fresh.expired = 0 /\ fresh.adjusted = 0 /\ fresh.revoked = 0
    BY DEF NewBucket, NoBucketRow
  <2>2. fresh \in BucketRow
    <3>1. P[e].endsAt \in Nat
      BY <1>2, SeenAt DEF PassRow
    <3>2. e[2] \in 0..PassCount /\ PassCredits \in Nat
      BY <1>3, BillingAssumption
    <3> QED
      BY <3>1, <3>2, NewBucketRow DEF fresh, SeenPasses
  <2>3. WritesFit(w1) /\ WritesOK(w1)
    BY <1>3, <2>2, Context, WriteBucket DEF WritesFit
  <2> HIDE DEF fresh, P, B
  <2>12. WroteBucket(w1, pend[r], e[1], fresh)
    BY <1>2, BucketOfWrites
  <2> HIDE DEF w1
  <2>4. /\ SeenBuckets(w1)[e[1]] = fresh /\ \A p \in Payments \ {e[1]} : SeenBuckets(w1)[p] = B[p]
        /\ SeenPasses(w1) = P
    BY <1>2, <1>3, <2>12, SeeBucket DEF P, B
  <2>5. SeenBuckets(w) = SeenBuckets(w1) /\ SeenPasses(w) = P
    BY <2>3, <2>4, SeeWallet
  <2>7. WritesOK(w)
    BY <2>3, WriteWallet DEF WritesFit
  <2>8. w = [pend[r] EXCEPT !.bucket = Patch(@, e[1], fresh), !.wallet = TRUE]
    BY DEF w1
  <2> HIDE DEF w
  <2>9. PassCredits \in Nat
    BY BillingAssumption
  <2>10. AllFit(P, SeenBuckets(w))
    <3>1. LedgersFit(SeenBuckets(w))
      BY <1>2, <2>1, <2>4, <2>5, <2>9 DEF AllFit, LedgersFit, LedgerFits
    <3>2. \A p \in PassPayments : CreditsFit(p, P, SeenBuckets(w))
      BY <1>2, <1>3, <2>1, <2>4, <2>5 DEF AllFit, CreditsFit, Payments
    <3> QED
      BY <1>2, <3>1, <3>2 DEF AllFit
  <2>11. GoOn(r, w)
    BY <1>4, <2>8 DEF GrantIncluded, fresh
  <2> QED
    BY <1>1, <1>2, <2>5, <2>7, <2>10, <2>11, GoOnSerial
<1>5. CASE UniqueKeyTaken(seen, e[1])
  <2>1. Rollback(r, Idle)
    BY <1>5 DEF GrantIncluded
  <2> QED
    BY <2>1, FresherIdle, RollbackSerial
<1> QED
  BY <1>4, <1>5

LEMMA BucketWritten ==
  ASSUME IInv, NEW r \in Requests, NEW p \in Payments, NEW row \in BucketRow,
         NEW w, w = [pend[r] EXCEPT !.bucket = Patch(@, p, row)]
  PROVE  /\ SeenBuckets(w)[p] = row /\ \A o \in Payments \ {p} : SeenBuckets(w)[o] = SeenBuckets(pend[r])[o]
         /\ SeenPasses(w) = SeenPasses(pend[r]) /\ WritesOK(w) /\ w.pass = pend[r].pass
<1>1. WritesOK(pend[r]) /\ WritesOK(w)
  BY Context, WriteBucket DEF WritesFit
<1>2. WroteBucket(w, pend[r], p, row)
  BY <1>1, BucketOfWrites
<1>3. /\ SeenBuckets(w)[p] = row /\ \A o \in Payments \ {p} : SeenBuckets(w)[o] = SeenBuckets(pend[r])[o]
      /\ SeenPasses(w) = SeenPasses(pend[r]) /\ w.pass = pend[r].pass
  BY <1>1, <1>2, SeeBucket
<1> QED
  BY <1>1, <1>3

LEMMA WalletWritten ==
  ASSUME IInv, NEW r \in Requests, NEW w, w = [pend[r] EXCEPT !.wallet = TRUE]
  PROVE  /\ SeenBuckets(w) = SeenBuckets(pend[r]) /\ SeenPasses(w) = SeenPasses(pend[r]) /\ WritesOK(w)
         /\ w.pass = pend[r].pass /\ w.bucket = pend[r].bucket
<1>1. WritesOK(pend[r]) /\ WritesOK(w)
  BY Context, WriteWallet DEF WritesFit
<1> QED
  BY <1>1, SeeWallet

LEMMA WalksOn ==
  ASSUME IInv, SInv, NEW r \in Requests, req[r].pc \in ReconcilePcs, NEW n, n.pc \in ReconcilePcs, n.at = req[r].at,
         NEW P, NEW B, AllFit(P, B), ReconcileHand(n, P, B), NEW w
  PROVE  Hand(n, w, P, B)
<1>1. n.pc \notin RefundPcs \cup {"clawback", "provision"} /\ ~InSnapshot(n)
  BY DEF ReconcilePcs, GoingOn, RefundPcs, Refunding, InSnapshot
<1>2. n.at <= now
  BY ReconcileNow
<1> QED
  BY <1>1, <1>2 DEF Hand, AllFit

\* A bucket that lapses, once, keeps its ledger.
LEMMA Lapse ==
  ASSUME NEW P, NEW B, NEW N, AllFit(P, B), NEW p \in Payments, B[p] \in BucketRow, B[p].status = "ACTIVE",
         \A o \in Payments \ {p} : N[o] = B[o],
         N[p] = [B[p] EXCEPT !.status = "EXPIRED", !.remaining = 0, !.expired = @ + B[p].remaining]
  PROVE  AllFit(P, N)
<1>1. /\ N[p].status = "EXPIRED" /\ N[p].remaining = 0 /\ N[p].expired = B[p].expired + B[p].remaining
      /\ N[p].granted = B[p].granted /\ N[p].used = B[p].used /\ N[p].adjusted = B[p].adjusted
      /\ N[p].revoked = B[p].revoked /\ N[p].seq = B[p].seq
  BY DEF BucketRow
<1>2. B[p].remaining \in Nat /\ B[p].expired \in Nat /\ B[p].used \in Nat /\ B[p].adjusted \in Nat /\ B[p].granted \in Nat
  BY DEF BucketRow
<1>3. LedgerFits(N[p])
  BY <1>1, <1>2 DEF AllFit, LedgersFit, LedgerFits
<1>4. LedgersFit(N)
  BY <1>3 DEF AllFit, LedgersFit
<1>5. ASSUME NEW o \in PassPayments PROVE CreditsFit(o, P, N)
  <2>1. o \in Payments /\ CreditsFit(o, P, B)
    BY DEF AllFit, Payments
  <2>2. CASE o = p
    BY <1>1, <2>1, <2>2 DEF CreditsFit
  <2>3. CASE o # p
    BY <2>1, <2>3 DEF CreditsFit
  <2> QED
    BY <2>2, <2>3
<1> QED
  BY <1>4, <1>5 DEF AllFit

LEMMA ExpireBucketSerial == ASSUME OneAtATime, IInv, SInv, NEW r \in Requests, ExpireBucket(r) PROVE SInv'
<1> DEFINE p == req[r].item.bucket
           old == View(bucket, pend[r].bucket)[p]
           over == [old EXCEPT !.status = "EXPIRED", !.remaining = 0, !.expired = @ + req[r].item.amount]
           w == [pend[r] EXCEPT !.bucket = Patch(@, p, over)]
           n == [req[r] EXCEPT !.pc = "expireLedger"]
           P == SeenPasses(pend[r])
           B == SeenBuckets(pend[r])
<1>1. Stage(r, w, n) /\ req[r].pc = "expireBucket" /\ req[r].pc \in ReconcilePcs
  BY DEF ExpireBucket, ReconcilePcs
<1>2. /\ AllFit(P, B) /\ Reconciled(P, req[r].at) /\ ReconcileHand(req[r], P, B) /\ WritesOK(pend[r])
      /\ req[r] \in Locals
  BY <1>1, ReconcileNow
<1>3. req[r].item \in CreditItems
  BY <1>1, ReconcileNow DEF LocalsOK, AtCredits
<1>4. p \in Payments /\ req[r].item.amount \in Nat
  BY <1>3 DEF CreditItems
<1>5. old = B[p] /\ old \in BucketRow
  BY <1>2, <1>4, SeenAt DEF SeenBuckets
<1>6. /\ old.status = "ACTIVE" /\ req[r].item.amount = old.remaining
      /\ \A x \in req[r].todo : x.bucket # p
      /\ \A x \in req[r].todo : Lapsing(x, B)
      /\ \A x, y \in req[r].todo : x.bucket = y.bucket => x = y
      /\ Walked(P, req[r].at)
  BY <1>1, <1>2, <1>5 DEF ReconcileHand, Lapsing
<1>7. over = [B[p] EXCEPT !.status = "EXPIRED", !.remaining = 0, !.expired = @ + B[p].remaining]
  BY <1>5, <1>6
<1>16. B[p] \in BucketRow /\ B[p].status = "ACTIVE"
  BY <1>5, <1>6
<1> HIDE DEF old
<1>8. over \in BucketRow
  BY <1>4, <1>5, ClearBucket
<1> HIDE DEF over
<1>9. /\ SeenBuckets(w)[p] = over /\ \A o \in Payments \ {p} : SeenBuckets(w)[o] = B[o]
      /\ SeenPasses(w) = P
  BY <1>4, <1>8, BucketWritten
<1> HIDE DEF w
<1> HIDE DEF n, P, B, p
<1>10. AllFit(P, SeenBuckets(w))
  BY <1>2, <1>4, <1>7, <1>9, <1>16, Lapse
<1>11. n.pc = "expireLedger" /\ n.at = req[r].at /\ n.todo = req[r].todo
  BY <1>2 DEF Locals, n
<1>12. \A x \in req[r].todo : x.bucket \in Payments
  BY <1>1, ReconcileNow DEF LocalsOK, AtCredits, CreditItems
<1>13. \A x \in req[r].todo : Lapsing(x, SeenBuckets(w))
  BY <1>6, <1>9, <1>12 DEF Lapsing
<1>14. ReconcileHand(n, P, SeenBuckets(w))
  BY <1>2, <1>6, <1>11, <1>13 DEF ReconcileHand
<1>15. Hand(n, w, P, SeenBuckets(w))
  BY <1>1, <1>10, <1>11, <1>14, WalksOn DEF ReconcilePcs
<1> QED
  BY <1>1, <1>9, <1>15, StageSerial

LEMMA ExpireLedgerSerial == ASSUME OneAtATime, IInv, SInv, NEW r \in Requests, ExpireLedger(r) PROVE SInv'
<1> DEFINE w == [pend[r] EXCEPT !.wallet = TRUE]
           done == [req[r] EXCEPT !.pc = "closeReconcile", !.item = NoItem]
           P == SeenPasses(pend[r])
           B == SeenBuckets(pend[r])
<1>1. req[r].pc = "expireLedger" /\ req[r].pc \in ReconcilePcs
  BY DEF ExpireLedger, ReconcilePcs
<1>2. AllFit(P, B) /\ ReconcileHand(req[r], P, B) /\ req[r] \in Locals
  BY <1>1, ReconcileNow
<1>3. SeenPasses(w) = P /\ SeenBuckets(w) = B
  BY WalletWritten
<1>4. CASE Stage(r, w, done)
  <2>1. done.pc = "closeReconcile" /\ done.at = req[r].at
    BY <1>2 DEF Locals
  <2> HIDE DEF done, w, P, B
  <2>2. ReconcileHand(done, P, B)
    BY <1>1, <1>2, <2>1 DEF ReconcileHand
  <2>3. Hand(done, w, P, B)
    BY <1>1, <1>2, <2>1, <2>2, WalksOn DEF ReconcilePcs
  <2> QED
    BY <1>3, <1>4, <2>3, StageSerial
<1>5. ASSUME NEW x \in First(req[r].todo),
             Stage(r, w, [req[r] EXCEPT !.pc = "expireBucket", !.item = x, !.todo = @ \ {x}])
      PROVE  SInv'
  <2> DEFINE n == [req[r] EXCEPT !.pc = "expireBucket", !.item = x, !.todo = req[r].todo \ {x}]
  <2>1. n.pc = "expireBucket" /\ n.at = req[r].at /\ n.item = x /\ n.todo = req[r].todo \ {x} /\ x \in req[r].todo
    BY <1>2 DEF Locals, First
  <2>2. Stage(r, w, n)
    BY <1>5
  <2> HIDE DEF n, w, P, B
  <2>3. ReconcileHand(n, P, B)
    BY <1>1, <1>2, <2>1 DEF ReconcileHand
  <2>4. Hand(n, w, P, B)
    BY <1>1, <1>2, <2>1, <2>3, WalksOn DEF ReconcilePcs
  <2> QED
    BY <1>3, <2>2, <2>4, StageSerial
<1> QED
  BY <1>4, <1>5 DEF ExpireLedger

LEMMA LaterFits ==
  ASSUME NEW P, NEW s \in Nat, NEW t \in Nat, s <= t, TimesFit(P, s),
         \A e \in PassIds : P[e].startsAt \in Nat /\ P[e].endsAt \in Nat
  PROVE  TimesFit(P, t)
  BY DEF TimesFit

\* The reconcile commits what it sees.
LEMMA ReconcileCommits ==
  ASSUME OneAtATime, IInv, SInv, NEW r \in Requests, CloseReconcile(r)
  PROVE  /\ SInv'
         /\ pass' = SeenPasses(pend[r]) /\ Walked(pass', req[r].at) /\ TimesFit(pass', req[r].at)
<1> DEFINE w == [pend[r] EXCEPT !.wallet = TRUE]
           n == [req[r] EXCEPT !.pc = "readCredits", !.at = 0]
           P == SeenPasses(pend[r])
           B == SeenBuckets(pend[r])
<1>1. req[r].pc = "closeReconcile" /\ req[r].pc \in ReconcilePcs
  BY DEF CloseReconcile, ReconcilePcs
<1>2. /\ AllFit(P, B) /\ ReconcileHand(req[r], P, B) /\ Reconciled(P, req[r].at)
      /\ req[r] \in Locals /\ req[r].at <= now /\ WritesOK(pend[r])
  BY <1>1, ReconcileNow
<1>3. SeenPasses(w) = P /\ SeenBuckets(w) = B
  BY WalletWritten
<1>4. PICK m : Commit(r, w, m) /\ m \in {n, Idle}
  BY DEF CloseReconcile
<1>5. Fresher(m)
  <2>1. n.pc = "readCredits" /\ n.at = 0 /\ 0 <= now
    BY <1>2 DEF Locals, IInv, TypeOK
  <2>2. Fresher(n)
    BY <2>1 DEF Fresher, Calm
  <2> QED
    BY <1>4, <2>2, FresherIdle
<1>6. TimesFit(P, now)
  <2>1. \A e \in PassIds : P[e].startsAt \in Nat /\ P[e].endsAt \in Nat
    BY <1>2, SeenAt DEF PassRow
  <2>2. now \in Nat /\ req[r].at \in Nat
    BY <1>2 DEF IInv, TypeOK, Locals
  <2> QED
    BY <1>2, <2>1, <2>2, LaterFits DEF Reconciled
<1> HIDE DEF w, n
<1>7. SInv'
  BY <1>2, <1>3, <1>4, <1>5, <1>6, CommitSerial
<1>8. pass' = P
  BY <1>3, <1>4 DEF Commit, SeenPasses
<1>9. Walked(P, req[r].at) /\ TimesFit(P, req[r].at)
  BY <1>1, <1>2 DEF ReconcileHand, Reconciled
<1> QED
  BY <1>7, <1>8, <1>9

\* Whoever reconciled is shown the access the passes give.
LEMMA ShowsAccess ==
  ASSUME OneAtATime, IInv, SInv, NEW r \in Requests, CloseReconcile(r)
  PROVE  SessionShows' = "ACTIVE" <=>
           \E e \in PassIds : pass'[e].status \notin {"NONE", "CANCELED"} /\ Covers(pass'[e], req[r].at)
<1>1. PICK P, t : P = pass' /\ t = req[r].at
  OBVIOUS
<1>2. Walked(P, t) /\ TimesFit(P, t) /\ P = SeenPasses(pend[r])
  BY <1>1, ReconcileCommits
<1>3. SessionShows' = "ACTIVE" <=> \E e \in PassIds : P[e].status = "ACTIVE"
  BY <1>1 DEF SessionShows, CanAccess
<1>4. P \in [PassIds -> PassRow] /\ t \in Nat
  <2>1. WritesOK(pend[r]) /\ req[r] \in Locals
    BY Context DEF WritesFit
  <2> QED
    BY <1>1, <1>2, <2>1, SeenAt DEF Locals
<1>5. \A e \in PassIds : P[e].startsAt \in Nat /\ P[e].endsAt \in Nat /\ P[e].status \in PassStatus
  BY <1>4 DEF PassRow
<1>6. ASSUME NEW e \in PassIds, P[e].status = "ACTIVE" PROVE Covers(P[e], t)
  BY <1>2, <1>4, <1>5, <1>6 DEF Walked, TimesFit, Over, Covers
<1>7. ASSUME NEW e \in PassIds, P[e].status \notin {"NONE", "CANCELED"}, Covers(P[e], t)
      PROVE  \E f \in PassIds : P[f].status = "ACTIVE"
  BY <1>2, <1>4, <1>5, <1>7 DEF Walked, TimesFit, Over, Covers, PassStatus
<1> QED
  BY <1>1, <1>3, <1>6, <1>7

-----------------------------------------------------------------------------
(***************************************************************************)
(* Paying.                                                                 *)
(***************************************************************************)
LEMMA ReadPendingSerial ==
  ASSUME OneAtATime, IInv, SInv, NEW r \in Requests, NEW p, NEW op, ReadPending(r, p, op)
  PROVE  SInv'
<1> DEFINE q == [Idle EXCEPT !.op = op, !.pc = "decide", !.pay = p, !.at = now]
<1>1. q.pc = "decide" /\ q.at = now
  BY DEF Idle
<1>2. Stage(r, NoWrites, q)
  BY DEF ReadPending
<1> HIDE DEF q
<1>3. Fresher(q)
  BY <1>1 DEF Fresher, Calm, IInv, TypeOK
<1> QED
  BY <1>2, <1>3, BeginSerial

LEMMA BeginReadSerial == ASSUME OneAtATime, IInv, SInv, NEW r \in Requests, BeginRead(r) PROVE SInv'
  BY FresherIdle, BeginSerial DEF BeginRead

LEMMA BeginUseSerial ==
  ASSUME OneAtATime, IInv, SInv, NEW r \in Requests, NEW amount, BeginUse(r, amount)
  PROVE  SInv'
<1> DEFINE q == [Reconciling EXCEPT !.op = "use", !.amount = amount]
<1>1. q.pc = "reconcile" /\ q.at = now
  BY DEF Reconciling, Idle
<1>2. Stage(r, NoWrites, q)
  BY DEF BeginUse
<1> HIDE DEF q
<1>3. Fresher(q)
  BY <1>1 DEF Fresher, Calm, IInv, TypeOK
<1> QED
  BY <1>2, <1>3, BeginSerial

\* What a transaction commits that writes neither passes nor buckets.
LEMMA CommitOther ==
  ASSUME OneAtATime, IInv, SInv, NEW r \in Requests, NEW w, DOMAIN w.pass = {}, DOMAIN w.bucket = {},
         NEW q, Commit(r, w, q), Fresher(q)
  PROVE  SInv'
<1>1. SeenPasses(w) = pass /\ SeenBuckets(w) = bucket
  BY SeenNothing
<1>2. AllFit(SeenPasses(w), SeenBuckets(w)) /\ TimesFit(SeenPasses(w), now)
  BY <1>1 DEF SInv
<1> QED
  BY <1>2, CommitSerial

LEMMA DecideSerial == ASSUME OneAtATime, IInv, SInv, NEW r \in Requests, Decide(r) PROVE SInv'
<1> DEFINE p == req[r].pay
           decided == [payment[p] EXCEPT !.status = Verdict[req[r].op], !.decisions = @ + 1]
           w == [NoWrites EXCEPT !.payment = Patch(@, p, decided)]
<1>1. DOMAIN w.pass = {} /\ DOMAIN w.bucket = {}
  BY DEF NoWrites
<1>2. req[r] \in Locals /\ req[r].at <= now
  BY InHandNow DEF Hand
<1> HIDE DEF decided
<1>3. CASE Rollback(r, Idle)
  BY <1>3, FresherIdle, RollbackSerial
<1>4. CASE Commit(r, w, Reconciling) \/ Commit(r, w, Idle)
  <2> HIDE DEF w
  <2> QED
    BY <1>1, <1>4, FresherIdle, CommitOther
<1>5. ASSUME NEW end \in {-1} \cup {pass[e].endsAt : e \in PassIds}, IsLatestEnd(end),
             Stage(r, w, [req[r] EXCEPT !.pc = "provision", !.latest = end])
      PROVE  SInv'
  <2> DEFINE q == [req[r] EXCEPT !.pc = "provision", !.latest = end]
  <2>1. q.pc = "provision" /\ q.at = req[r].at /\ q.latest = end
    BY <1>2 DEF Locals
  <2>2. SeenPasses(w) = pass /\ SeenBuckets(w) = bucket
    <3> HIDE DEF w
    <3> QED
      BY <1>1, SeenNothing
  <2> HIDE DEF w, q
  <2>3. LatestKnown(end)
    <3>1. \A e \in PassIds : pass[e].endsAt \in Nat
      BY DEF IInv, TypeOK, PassRow
    <3> QED
      BY <1>5, <3>1 DEF LatestKnown, IsLatestEnd
  <2>4. Hand(q, w, pass, bucket)
    BY <1>2, <2>1, <2>3 DEF Hand, SInv, AllFit, RefundPcs, Refunding, ReconcilePcs, GoingOn, InSnapshot
  <2>5. Stage(r, w, q)
    BY <1>5 DEF q
  <2> QED
    BY <2>2, <2>4, <2>5, StageSerial
<1> QED
  BY <1>3, <1>4, <1>5 DEF Decide, ApproveInTransaction, decided, w

\* Months are of MonthDays days.
LEMMA TimesMore == ASSUME NEW a \in Nat, NEW b \in Nat, a <= b, NEW c \in Nat PROVE a * c <= b * c
<1>1. PICK d \in Nat : b = a + d
  <2>1. b - a \in Nat /\ b = a + (b - a)
    OBVIOUS
  <2> QED
    BY <2>1
<1>2. b * c = a * c + d * c
  BY <1>1
<1> QED
  BY <1>2, Product

LEMMA MonthsPass ==
  ASSUME NEW n \in Nat, NEW m \in Nat, n < m, NEW M \in Nat, NEW D \in Nat
  PROVE  n * M * D + M * D <= m * M * D
<1>1. n + 1 \in Nat /\ n + 1 <= m
  OBVIOUS
<1>2. (n + 1) * M <= m * M /\ (n + 1) * M \in Nat /\ m * M \in Nat
  BY <1>1, TimesMore, Product
<1>3. (n + 1) * M * D <= m * M * D
  BY <1>2, TimesMore
<1>4. (n + 1) * M * D = n * M * D + M * D
  OBVIOUS
<1> QED
  BY <1>3, <1>4

LEMMA DayBegins ==
  ASSUME NEW t \in Nat
  PROVE  StartOfDay(t) \in Nat /\ StartOfDay(t) <= t /\ t < StartOfDay(t) + DayTicks
<1>1. DayTicks \in Nat \ {0}
  BY BillingAssumption
<1>2. t % DayTicks \in 0..t /\ t % DayTicks < DayTicks
  BY <1>1
<1> QED
  BY <1>1, <1>2 DEF StartOfDay

\* The windows of the passes of an approval follow on each other, and on the latest there was.
LEMMA Windows ==
  ASSUME NEW latest \in Nat \cup {-1}, NEW at \in Nat, NEW made, made = ProvisionedPasses(latest, at)
  PROVE  /\ \A n \in 1..PassCount : /\ made[n] \in PassRow /\ made[n].revoked = 0
                                    /\ made[n].status = IF latest = -1 /\ n = 1 THEN "ACTIVE" ELSE "QUEUED"
                                    /\ latest < made[n].startsAt
         /\ latest = -1 => made[1].startsAt = at
         /\ \A n, m \in 1..PassCount : n < m => made[n].endsAt < made[m].startsAt
<1> DEFINE first == IF latest = -1 THEN at ELSE NextStartAt(latest)
           later(n) == (n - 1) * MonthDays * DayTicks
           month == MonthDays * DayTicks
           start(n) == IF n = 1 THEN first ELSE StartOfDay(first) + later(n)
<1>1. MonthDays \in Nat \ {0} /\ DayTicks \in Nat \ {0} /\ PassCount \in Nat \ {0}
  BY BillingAssumption
<1>2. first \in Nat /\ latest < first /\ (latest = -1 => first = at)
  BY DEF NextStartAt
<1>3. month \in Nat /\ DayTicks <= month
  <2>1. 1 * DayTicks <= MonthDays * DayTicks
    BY <1>1, TimesMore
  <2> QED
    BY <1>1, <2>1, Product
<1>4. \A n \in 1..PassCount : later(n) \in Nat
  BY <1>1, Product
<1>5. \A n, m \in 1..PassCount : n < m => later(n) + month <= later(m)
  <2>1. SUFFICES ASSUME NEW n \in 1..PassCount, NEW m \in 1..PassCount, n < m PROVE later(n) + month <= later(m)
    OBVIOUS
  <2>2. n - 1 \in Nat /\ m - 1 \in Nat /\ n - 1 < m - 1
    BY <1>1, <2>1
  <2> QED
    BY <1>1, <2>2, MonthsPass
<1>6. later(1) = 0
  BY <1>1
<1>7. \A n \in 1..PassCount :
        made[n] = [NoPassRow EXCEPT !.status = IF latest = -1 /\ n = 1 THEN "ACTIVE" ELSE "QUEUED",
                                    !.startsAt = start(n), !.endsAt = MonthlyEndAt(start(n))]
  BY DEF ProvisionedPasses
<1> HIDE DEF first, later, month
<1>8. StartOfDay(first) \in Nat /\ StartOfDay(first) <= first /\ first < StartOfDay(first) + DayTicks
  BY <1>2, DayBegins
<1>9. \A n \in 1..PassCount : /\ start(n) \in Nat /\ first <= start(n)
                              /\ StartOfDay(start(n)) \in Nat /\ StartOfDay(start(n)) <= StartOfDay(first) + later(n)
  <2> TAKE n \in 1..PassCount
  <2>1. CASE n = 1
    BY <1>2, <1>6, <1>8, <2>1
  <2>2. CASE n # 1
    <3>1. 1 \in 1..PassCount /\ 1 < n
      BY <1>1, <2>2
    <3>2. month <= later(n)
      BY <1>3, <1>4, <1>5, <1>6, <3>1
    <3>3. start(n) \in Nat /\ first <= start(n)
      BY <1>1, <1>2, <1>3, <1>4, <1>8, <2>2, <3>2
    <3>4. StartOfDay(start(n)) \in Nat /\ StartOfDay(start(n)) <= start(n)
      BY <3>3, DayBegins
    <3> QED
      BY <2>2, <3>3, <3>4
  <2> QED
    BY <2>1, <2>2
<1>10. \A n \in 1..PassCount : MonthlyEndAt(start(n)) = StartOfDay(start(n)) + month - 1
  BY DEF MonthlyEndAt, month
<1>11. \A n, m \in 1..PassCount : n < m => MonthlyEndAt(start(n)) < start(m)
  <2> SUFFICES ASSUME NEW n \in 1..PassCount, NEW m \in 1..PassCount, n < m PROVE MonthlyEndAt(start(n)) < start(m)
    OBVIOUS
  <2>1. m # 1 /\ start(m) = StartOfDay(first) + later(m)
    BY <1>1
  <2>2. later(n) \in Nat /\ later(m) \in Nat /\ later(n) + month <= later(m)
    BY <1>4, <1>5
  <2>3. StartOfDay(start(n)) \in Nat /\ StartOfDay(start(n)) <= StartOfDay(first) + later(n)
    BY <1>9
  <2> QED
    BY <1>3, <1>8, <1>10, <2>1, <2>2, <2>3
<1>12. \A n \in 1..PassCount : /\ made[n].revoked = 0
                               /\ made[n].status = IF latest = -1 /\ n = 1 THEN "ACTIVE" ELSE "QUEUED"
                               /\ made[n].startsAt = start(n) /\ made[n].endsAt = MonthlyEndAt(start(n))
  <2> HIDE DEF start
  <2> TAKE n \in 1..PassCount
  <2>1. PICK st, b, f : st = (IF latest = -1 /\ n = 1 THEN "ACTIVE" ELSE "QUEUED") /\ b = start(n) /\ f = MonthlyEndAt(start(n))
    OBVIOUS
  <2>2. made[n] = [NoPassRow EXCEPT !.status = st, !.startsAt = b, !.endsAt = f]
    BY <1>7, <2>1
  <2> QED
    BY <2>1, <2>2 DEF NoPassRow
<1>13. \A n \in 1..PassCount : latest < start(n)
  BY <1>2, <1>9
<1>14. 1 \in 1..PassCount /\ start(1) = first
  BY <1>1
<1> HIDE DEF start
<1> QED
  BY <1>2, <1>11, <1>12, <1>13, <1>14, ProvisionedRows

\* The passes of an approval, next to those there are.
Joins(P, N, p, made) ==
    /\ \A e \in PassIds : e[1] # p => N[e] = P[e]
    /\ \A n \in 1..PassCount : N[<<p, n>>] = made[n]
NoneAfter(P, latest) == \A e \in PassIds : OpenRow(P[e]) => latest # -1 /\ P[e].endsAt <= latest

LEMMA Joined ==
  ASSUME NEW P, NEW N, NEW p \in PassPayments, NEW latest \in Nat \cup {-1}, NEW at \in Nat, NEW t \in Nat, at <= t,
         PassesFit(P), TimesFit(P, t), P \in [PassIds -> PassRow],
         NoneAfter(P, latest), Joins(P, N, p, ProvisionedPasses(latest, at))
  PROVE  PassesFit(N) /\ TimesFit(N, t)
<1> DEFINE made == ProvisionedPasses(latest, at)
<1>1. /\ \A n \in 1..PassCount : /\ made[n] \in PassRow /\ made[n].revoked = 0
                                 /\ made[n].status = IF latest = -1 /\ n = 1 THEN "ACTIVE" ELSE "QUEUED"
                                 /\ latest < made[n].startsAt
      /\ latest = -1 => made[1].startsAt = at
      /\ \A n, m \in 1..PassCount : n < m => made[n].endsAt < made[m].startsAt
  BY Windows
<1> HIDE DEF made
<1>2. ASSUME NEW e \in PassIds, e[1] = p PROVE \E n \in 1..PassCount : e = <<p, n>> /\ N[e] = made[n]
  BY <1>2 DEF PassIds, Joins, made
<1>3. \A e \in PassIds : e[1] # p => /\ N[e] = P[e] /\ N[e] \in PassRow
                                     /\ (OpenRow(N[e]) => latest # -1 /\ N[e].endsAt <= latest)
  BY DEF Joins, NoneAfter
<1>4. ASSUME NEW e \in PassIds PROVE N[e].revoked = IF N[e].status = "CANCELED" THEN 1 ELSE 0
  BY <1>1, <1>2, <1>3 DEF PassesFit
<1>5. ASSUME NEW e \in PassIds, NEW f \in PassIds, N[e].status = "ACTIVE", N[f].status = "ACTIVE"
      PROVE  e = f
  <2>1. CASE e[1] # p /\ f[1] # p
    BY <1>3, <1>5, <2>1 DEF PassesFit
  <2>2. CASE e[1] = p /\ f[1] = p
    BY <1>1, <1>2, <1>5, <2>2
  <2>3. CASE e[1] = p /\ f[1] # p
    BY <1>1, <1>2, <1>3, <1>5, <2>3 DEF OpenRow
  <2>4. CASE e[1] # p /\ f[1] = p
    BY <1>1, <1>2, <1>3, <1>5, <2>4 DEF OpenRow
  <2> QED
    BY <2>1, <2>2, <2>3, <2>4
<1>6. ASSUME NEW e \in PassIds, NEW f \in PassIds, e[1] # p, f[1] = p, OpenRow(N[e])
      PROVE  N[e].endsAt < N[f].startsAt
  <2>1. PICK n \in 1..PassCount : N[f] = made[n]
    BY <1>2, <1>6
  <2>2. latest < made[n].startsAt /\ made[n].startsAt \in Int
    BY <1>1 DEF PassRow
  <2>3. latest # -1 /\ N[e].endsAt <= latest /\ N[e].endsAt \in Int
    BY <1>3, <1>6 DEF PassRow
  <2> QED
    BY <2>1, <2>2, <2>3
<1>7. ASSUME NEW e \in PassIds, NEW f \in PassIds, e # f, OpenRow(N[e]), OpenRow(N[f])
      PROVE  Apart(N[e], N[f])
  <2>1. CASE e[1] # p /\ f[1] # p
    BY <1>3, <1>7, <2>1 DEF PassesFit
  <2>2. CASE e[1] = p /\ f[1] = p
    <3>1. PICK n \in 1..PassCount, m \in 1..PassCount : e = <<p, n>> /\ N[e] = made[n] /\ f = <<p, m>> /\ N[f] = made[m]
      BY <1>2, <2>2
    <3>2. n < m \/ m < n
      BY <1>7, <3>1, BillingAssumption
    <3> QED
      BY <1>1, <3>1, <3>2 DEF Apart
  <2>3. CASE e[1] = p /\ f[1] # p
    BY <1>6, <1>7, <2>3 DEF Apart
  <2>4. CASE e[1] # p /\ f[1] = p
    BY <1>6, <1>7, <2>4 DEF Apart
  <2> QED
    BY <2>1, <2>2, <2>3, <2>4
<1>8. TimesFit(N, t)
  BY <1>1, <1>2, <1>3 DEF TimesFit
<1>9. PassesFit(N)
  BY <1>4, <1>5, <1>7 DEF PassesFit
<1> QED
  BY <1>8, <1>9

LEMMA NewBucketLedger ==
  ASSUME NEW seq, NEW amount \in Nat, NEW t, NEW b, b = NewBucket(seq, amount, t)
  PROVE  LedgerFits(b) /\ b.status = "ACTIVE" /\ b.seq = seq
<1>1. /\ b.status = "ACTIVE" /\ b.seq = seq /\ b.granted = amount /\ b.remaining = amount /\ b.used = 0
      /\ b.expired = 0 /\ b.adjusted = 0 /\ b.revoked = 0
  BY DEF NewBucket, NoBucketRow
<1> QED
  BY <1>1 DEF LedgerFits

\* What nobody has bought yet is not there.
LEMMA NotThere ==
  ASSUME IInv, JInv, NEW p \in Payments, payment[p].status # "APPROVED"
  PROVE  bucket[p].status = "NONE" /\ \A e \in PassIds : e[1] = p => pass[e].status = "NONE"
  BY DEF JInv, TablesFit, Paid, BenefitsFollowApproval

LEMMA ProvisionSerial == ASSUME OneAtATime, IInv, JInv, SInv, NEW r \in Requests, Provision(r) PROVE SInv'
<1> DEFINE p == req[r].pay
           made == ProvisionedPasses(req[r].latest, req[r].at)
           first == NewBucket(1, PassCredits, made[1].endsAt)
           pack == NewBucket(0, PackCredits, CreditExpiryAt(req[r].at))
           w == [pend[r] EXCEPT !.wallet = TRUE]
           rowsOf == [e \in {p} \X (1..PassCount) |-> made[e[2]]]
           buckets == IF req[r].latest = -1 THEN Patch(w.bucket, p, first) ELSE w.bucket
           passed == [w EXCEPT !.pass = rowsOf, !.bucket = buckets]
           packed == [w EXCEPT !.bucket = Patch(@, p, pack)]
<1>1. req[r].pc = "provision" /\ p \in Payments /\ Approving(pend[r], p) /\ WritesOK(pend[r]) /\ req[r] \in Locals
  BY Claims DEF Provision, LocalsOK, AtPayment, RequestFits
<1>2. Hand(req[r], pend[r], SeenPasses(pend[r]), SeenBuckets(pend[r]))
  BY InHandNow
<1>3. req[r].at <= now /\ LatestKnown(req[r].latest) /\ req[r].latest \in Nat \cup {-1} /\ req[r].at \in Nat
  BY <1>1, <1>2 DEF Hand, Locals
<1> HIDE DEF made, first, pack, rowsOf, buckets, passed, packed
<1>4. /\ w.payment = pend[r].payment /\ w.pass = pend[r].pass /\ w.bucket = pend[r].bucket /\ WritesOK(w)
  BY <1>1, Context, PaidWallet, WriteWallet DEF WritesFit
<1> HIDE DEF w
<1>5. DOMAIN w.pass = {} /\ DOMAIN w.bucket = {}
  BY <1>1, <1>4 DEF Approving
<1>6. AllFit(pass, bucket) /\ TimesFit(pass, now) /\ now \in Nat /\ pass \in [PassIds -> PassRow]
      /\ DOMAIN pass = PassIds /\ DOMAIN bucket = Payments
  BY DEF SInv, IInv, TypeOK
<1>7. bucket[p].status = "NONE" /\ \A e \in PassIds : e[1] = p => pass[e].status = "NONE"
  <2>1. payment[p].status # "APPROVED"
    BY <1>1 DEF Approving
  <2> QED
    BY <1>1, <2>1, NotThere
<1>8. PassCredits \in Nat /\ PackCredits \in Nat /\ 1 \in 1..PassCount
  BY BillingAssumption
<1>9. CASE p \in PassPayments
  <2> DEFINE N == SeenPasses(passed)
             B == SeenBuckets(passed)
  <2>1. passed.pass = rowsOf /\ passed.bucket = buckets
    BY <1>4 DEF passed, WritesOK
  <2>2. /\ \A e \in PassIds : e[1] # p => N[e] = pass[e]
        /\ \A n \in 1..PassCount : N[<<p, n>>] = made[n]
    <3>1. N = [e \in PassIds |-> IF e \in DOMAIN rowsOf THEN rowsOf[e] ELSE pass[e]]
      BY <1>6, <2>1 DEF SeenPasses, View
    <3>2. \A e \in PassIds : e \in DOMAIN rowsOf <=> e[1] = p
      BY <1>9 DEF PassIds, rowsOf
    <3>3. \A n \in 1..PassCount : <<p, n>> \in PassIds /\ <<p, n>> \in DOMAIN rowsOf /\ rowsOf[<<p, n>>] = made[n]
      BY <1>9 DEF PassIds, rowsOf
    <3> HIDE DEF N
    <3> QED
      BY <3>1, <3>2, <3>3
  <2>3. /\ \A o \in Payments \ {p} : B[o] = bucket[o]
        /\ req[r].latest = -1 => B[p] = first
        /\ req[r].latest # -1 => B[p] = bucket[p]
    <3>1. B = [o \in Payments |-> IF o \in DOMAIN buckets THEN buckets[o] ELSE bucket[o]]
      BY <1>6, <2>1 DEF SeenBuckets, View
    <3>2. req[r].latest = -1 => DOMAIN buckets = {p} /\ buckets[p] = first
      BY <1>5 DEF buckets, Patch
    <3>3. req[r].latest # -1 => DOMAIN buckets = {}
      BY <1>5 DEF buckets
    <3> HIDE DEF B
    <3> QED
      BY <1>1, <3>1, <3>2, <3>3
  <2>4. Commit(r, passed, Reconciling)
    BY <1>9 DEF Provision, passed, buckets, rowsOf, made, first, w
  <2> HIDE DEF N, B
  <2>5. PassesFit(N) /\ TimesFit(N, now)
    <3>1. \A e \in PassIds : OpenRow(pass[e]) => req[r].latest # -1 /\ pass[e].endsAt <= req[r].latest
      BY <1>3 DEF LatestKnown, OpenRow, Open
    <3>2. PassesFit(pass)
      BY <1>6 DEF AllFit
    <3>3. made = ProvisionedPasses(req[r].latest, req[r].at)
      BY DEF made
    <3>4. NoneAfter(pass, req[r].latest) /\ Joins(pass, N, p, ProvisionedPasses(req[r].latest, req[r].at))
      BY <2>2, <3>1, <3>3 DEF NoneAfter, Joins
    <3> QED
      BY <1>3, <1>6, <1>9, <3>2, <3>4, Joined
  <2>6. \A o \in PassPayments : CreditsFit(o, N, B)
    <3> SUFFICES ASSUME NEW o \in PassPayments PROVE CreditsFit(o, N, B)
      OBVIOUS
    <3>1. CASE o = p
      <4>1. CASE req[r].latest = -1
        <5>1. N[<<p, 1>>].status = "ACTIVE"
          <6>1. made[1].status = "ACTIVE"
            BY <1>3, <1>8, <4>1, Windows DEF made
          <6> QED
            BY <1>8, <2>2, <6>1
        <5>2. B[p].status = "ACTIVE" /\ B[p].seq = 1
          BY <1>8, <2>3, <4>1, NewBucketLedger DEF first
        <5> QED
          BY <1>8, <3>1, <5>1, <5>2 DEF CreditsFit
      <4>2. CASE req[r].latest # -1
        BY <1>7, <2>3, <3>1, <4>2 DEF CreditsFit
      <4> QED
        BY <4>1, <4>2
    <3>2. CASE o # p
      <4>1. CreditsFit(o, pass, bucket) /\ o \in Payments
        BY <1>6 DEF AllFit, Payments
      <4>2. B[o] = bucket[o]
        BY <2>3, <3>2, <4>1
      <4>3. \A n \in 1..PassCount : N[<<o, n>>] = pass[<<o, n>>]
        BY <2>2, <3>2 DEF PassIds
      <4> QED
        BY <4>1, <4>2, <4>3 DEF CreditsFit
    <3> QED
      BY <3>1, <3>2
  <2>7. LedgersFit(B)
    <3>1. req[r].latest = -1 => LedgerFits(B[p])
      BY <1>8, <2>3, NewBucketLedger DEF first
    <3>2. \A o \in Payments : LedgerFits(bucket[o])
      BY <1>6 DEF AllFit, LedgersFit
    <3> QED
      BY <1>1, <2>3, <3>1, <3>2 DEF LedgersFit
  <2>8. AllFit(SeenPasses(passed), SeenBuckets(passed)) /\ TimesFit(SeenPasses(passed), now)
    BY <2>5, <2>6, <2>7 DEF AllFit, N, B
  <2> QED
    BY <2>4, <2>8, FresherIdle, CommitSerial
<1>10. CASE p \notin PassPayments
  <2>1. packed.pass = w.pass /\ packed.bucket = Patch(w.bucket, p, pack)
    BY <1>4 DEF packed, WritesOK
  <2>2. SeenPasses(packed) = pass
    BY <1>5, <1>6, <2>1 DEF SeenPasses, View
  <2>3. SeenBuckets(packed) = [o \in Payments |-> IF o = p THEN pack ELSE bucket[o]]
    <3>1. DOMAIN packed.bucket = {p} /\ packed.bucket[p] = pack
      BY <1>5, <2>1 DEF Patch
    <3> QED
      BY <1>6, <3>1 DEF SeenBuckets, View
  <2>4. Commit(r, packed, Reconciling)
    BY <1>10 DEF Provision, packed, pack, w
  <2>5. AllFit(SeenPasses(packed), SeenBuckets(packed))
    <3>1. LedgersFit(SeenBuckets(packed))
      <4>1. LedgerFits(pack)
        BY <1>8, NewBucketLedger DEF pack
      <4> QED
        BY <1>6, <2>3, <4>1 DEF AllFit, LedgersFit
    <3>2. \A o \in PassPayments : CreditsFit(o, pass, SeenBuckets(packed))
      BY <1>6, <1>10, <2>3 DEF AllFit, CreditsFit, Payments
    <3> QED
      BY <1>6, <2>2, <3>1, <3>2 DEF AllFit
  <2> QED
    BY <1>6, <2>2, <2>4, <2>5, FresherIdle, CommitSerial
<1> QED
  BY <1>9, <1>10

LEMMA AdminGrantSerial ==
  ASSUME OneAtATime, IInv, JInv, SInv, NEW r \in Requests, NEW p \in Payments, AdminGrant(r, p)
  PROVE  SInv'
<1> DEFINE paid == [payment[p] EXCEPT !.status = "APPROVED", !.decisions = @ + 1]
           credits == NewBucket(0, PackCredits, CreditExpiryAt(now))
           w == [NoWrites EXCEPT !.payment = Patch(@, p, paid), !.bucket = Patch(@, p, credits), !.wallet = TRUE]
<1>1. p \notin PassPayments
  BY BillingAssumption DEF AdminGrant
<1>2. Commit(r, w, Reconciling)
  BY DEF AdminGrant
<1> HIDE DEF paid, credits
<1>3. DOMAIN w.bucket = {p} /\ DOMAIN w.pass = {} /\ w.bucket[p] = credits
  BY DEF NoWrites, Patch
<1> HIDE DEF w
<1>4. /\ AllFit(pass, bucket) /\ TimesFit(pass, now) /\ pass \in [PassIds -> PassRow] /\ DOMAIN pass = PassIds
      /\ DOMAIN bucket = Payments
  BY DEF SInv, IInv, TypeOK
<1>5. SeenPasses(w) = pass /\ SeenBuckets(w) = [o \in Payments |-> IF o = p THEN credits ELSE bucket[o]]
  BY <1>3, <1>4 DEF SeenPasses, SeenBuckets, View
<1>6. AllFit(pass, SeenBuckets(w))
  <2>1. LedgerFits(credits)
    BY BillingAssumption, NewBucketLedger DEF credits
  <2>2. LedgersFit(SeenBuckets(w))
    BY <1>4, <1>5, <2>1 DEF AllFit, LedgersFit
  <2>3. \A o \in PassPayments : CreditsFit(o, pass, SeenBuckets(w))
    BY <1>1, <1>4, <1>5 DEF AllFit, CreditsFit, Payments
  <2> QED
    BY <1>4, <2>2, <2>3 DEF AllFit
<1> QED
  BY <1>2, <1>4, <1>5, <1>6, FresherIdle, CommitSerial

-----------------------------------------------------------------------------
(***************************************************************************)
(* The refund.                                                             *)
(***************************************************************************)
\* What is left to cancel, next to what the transaction canceled.
Left(T, w) ==
    /\ \A x \in T : /\ x.pass \in PassIds /\ x.pass \notin DOMAIN w.pass
                    /\ Open(x.pass) /\ x.was = pass[x.pass].status
    /\ \A x, y \in T : x.pass = y.pass => x = y
    /\ \A e \in DOMAIN w.pass : w.pass[e].status = "CANCELED"
    /\ NewestFirst(DOMAIN w.pass \cup {x.pass : x \in T})

\* Where a refund goes on.
LEMMA RefundOn ==
  ASSUME IInv, SInv, NEW n, NEW w, NEW P, NEW B, AllFit(P, B), n.at <= now,
         n.pc \in {"cancelPass", "adjustLedger", "finishRefund"}, Left(Targets(n), w),
         n.pc = "cancelPass" => n.item \notin n.todo, n.pc = "finishRefund" => n.todo = {}
  PROVE  Hand(n, w, P, B)
<1>1. n.pc \in RefundPcs /\ n.pc \notin ReconcilePcs /\ n.pc \notin {"provision", "clawback", "readPack"} /\ ~InSnapshot(n)
  BY DEF RefundPcs, Refunding, ReconcilePcs, GoingOn, InSnapshot
<1>2. RefundHand(n, w)
  BY <1>1 DEF RefundHand, Left, Chosen
<1> QED
  BY <1>1, <1>2 DEF Hand, AllFit

LEMMA NextTargetSerial ==
  ASSUME OneAtATime, IInv, SInv, NEW r \in Requests, NEW w, AllFit(SeenPasses(w), SeenBuckets(w)),
         Left(req[r].todo, w), NextTarget(r, w)
  PROVE  SInv'
<1> DEFINE done == [req[r] EXCEPT !.pc = "finishRefund", !.item = NoItem, !.amount = 0]
<1>1. req[r] \in Locals /\ req[r].at <= now
  BY InHandNow DEF Hand
<1>2. CASE req[r].todo = {} /\ Stage(r, w, done)
  <2>1. done.pc = "finishRefund" /\ done.at = req[r].at /\ done.todo = {}
    BY <1>1, <1>2 DEF Locals
  <2> HIDE DEF done
  <2>2. Targets(done) = req[r].todo
    BY <1>2, <2>1 DEF Targets
  <2>3. Hand(done, w, SeenPasses(w), SeenBuckets(w))
    BY <1>1, <2>1, <2>2, RefundOn
  <2> QED
    BY <1>2, <2>3, StageSerial
<1>3. ASSUME NEW x \in First(req[r].todo),
             Stage(r, w, [req[r] EXCEPT !.pc = "cancelPass", !.item = x, !.todo = @ \ {x}, !.amount = 0])
      PROVE  SInv'
  <2> DEFINE n == [req[r] EXCEPT !.pc = "cancelPass", !.item = x, !.todo = req[r].todo \ {x}, !.amount = 0]
  <2>1. n.pc = "cancelPass" /\ n.at = req[r].at /\ n.item = x /\ n.todo = req[r].todo \ {x} /\ x \in req[r].todo
    BY <1>1 DEF Locals, First
  <2>2. Stage(r, w, n)
    BY <1>3
  <2> HIDE DEF n
  <2>3. Targets(n) = req[r].todo
    BY <2>1 DEF Targets
  <2>4. Hand(n, w, SeenPasses(w), SeenBuckets(w))
    BY <1>1, <2>1, <2>3, RefundOn
  <2> QED
    BY <2>2, <2>4, StageSerial
<1> QED
  BY <1>2, <1>3 DEF NextTarget

\* What can be taken back of a payment.
LEMMA TargetsFit ==
  ASSUME IInv, NEW p, NEW count, NEW chosen \in RefundChoices(RefundTargets(p), count)
  PROVE  Left(chosen, NoWrites)
<1>1. \A x \in RefundTargets(p) : \E e \in PassIds :
        e[1] = p /\ Open(e) /\ x.pass = e /\ x.was = pass[e].status /\ x.rank = RefundRank(e) /\ x = PassItem(e, pass[e].status, RefundRank(e))
  BY DEF RefundTargets, PassItem
<1>2. chosen \subseteq RefundTargets(p) /\ \A x \in chosen, y \in RefundTargets(p) \ chosen : x.rank <= y.rank
  BY DEF RefundChoices
<1>3. \A f \in PassIds : f[1] = p /\ Open(f) => \E y \in RefundTargets(p) : y.pass = f /\ y.rank = RefundRank(f)
  <2> TAKE f \in PassIds
  <2> HAVE f[1] = p /\ Open(f)
  <2> DEFINE y == PassItem(f, pass[f].status, RefundRank(f))
  <2>1. y \in RefundTargets(p)
    BY DEF RefundTargets
  <2>2. y.pass = f /\ y.rank = RefundRank(f)
    BY DEF PassItem
  <2> HIDE DEF y
  <2> QED
    BY <2>1, <2>2
<1>4. NewestFirst({x.pass : x \in chosen})
  <2> SUFFICES ASSUME NEW x \in chosen, NEW f \in PassIds, x.pass[1] = f[1],
                      pass[f].status = "QUEUED", pass[f].startsAt > pass[x.pass].startsAt
               PROVE  f \in {y.pass : y \in chosen}
    BY DEF NewestFirst
  <2>1. PICK e \in PassIds : e[1] = p /\ Open(e) /\ x.pass = e /\ x.rank = RefundRank(e)
    BY <1>1, <1>2
  <2>2. f[1] = p /\ Open(f)
    BY <2>1 DEF Open
  <2>3. PICK y \in RefundTargets(p) : y.pass = f /\ y.rank = RefundRank(f)
    BY <1>3, <2>2
  <2>4. pass[e].startsAt \in Nat /\ pass[f].startsAt \in Nat
    BY DEF IInv, TypeOK, PassRow
  <2>5. ~(x.rank <= y.rank)
    BY <2>1, <2>3, <2>4 DEF RefundRank
  <2> QED
    BY <1>2, <2>3, <2>5
<1>5. DOMAIN NoWrites.pass = {}
  BY NothingWritten
<1>6. NewestFirst(DOMAIN NoWrites.pass \cup {x.pass : x \in chosen})
  BY <1>4, <1>5
<1>7. \A x, y \in chosen : x.pass = y.pass => x = y
  BY <1>1, <1>2
<1>8. \A x \in chosen : x.pass \in PassIds /\ Open(x.pass) /\ x.was = pass[x.pass].status
  BY <1>1, <1>2
<1> QED
  BY <1>5, <1>6, <1>7, <1>8 DEF Left

LEMMA ReadRefundSerial ==
  ASSUME OneAtATime, IInv, SInv, NEW r \in Requests, NEW p, NEW count, NEW allowActive, NEW status,
         ReadRefund(r, p, count, allowActive, status)
  PROVE  SInv'
<1> DEFINE q == [Idle EXCEPT !.op = "refund", !.pay = p, !.refund = status]
<1>1. q.todo = {} /\ q.at = 0 /\ q.pay = p /\ q.pc = "idle"
  BY DEF Idle
<1>2. q \in [op: {q.op}, pc: {q.pc}, pay: {p}, at: {0}, latest: {q.latest}, amount: {q.amount}, toUse: {q.toUse},
             todo: {{}}, item: {q.item}, refund: {status}, tries: {q.tries}]
  BY DEF Idle
<1> HIDE DEF q
<1>3. SeenPasses(NoWrites) = pass /\ SeenBuckets(NoWrites) = bucket /\ AllFit(pass, bucket) /\ 0 <= now
  BY NothingWritten, SeenNothing DEF SInv, IInv, TypeOK
<1>4. ASSUME NEW chosen \in RefundChoices(RefundTargets(p), count), NEW x \in First(chosen),
             Stage(r, NoWrites, [q EXCEPT !.pc = "cancelPass", !.item = x, !.todo = chosen \ {x}])
      PROVE  SInv'
  <2> DEFINE n == [q EXCEPT !.pc = "cancelPass", !.item = x, !.todo = chosen \ {x}]
  <2>1. n.pc = "cancelPass" /\ n.at = 0 /\ n.item = x /\ n.todo = chosen \ {x} /\ x \in chosen
    BY <1>2 DEF First
  <2> HIDE DEF n
  <2>2. Targets(n) = chosen
    BY <2>1 DEF Targets
  <2>3. Left(chosen, NoWrites)
    BY TargetsFit
  <2>4. Hand(n, NoWrites, pass, bucket)
    BY <1>3, <2>1, <2>2, <2>3, RefundOn
  <2>5. Stage(r, NoWrites, n)
    BY <1>4 DEF n
  <2> QED
    BY <1>3, <2>4, <2>5, StageSerial
<1>5. CASE Stage(r, NoWrites, [q EXCEPT !.pc = "finishRefund"])
  <2> DEFINE n == [q EXCEPT !.pc = "finishRefund"]
  <2>1. n.pc = "finishRefund" /\ n.at = 0 /\ n.todo = {}
    BY <1>2
  <2> HIDE DEF n
  <2>2. Left(Targets(n), NoWrites)
    BY <2>1, NothingWritten DEF Targets, Left, NewestFirst
  <2>3. Hand(n, NoWrites, pass, bucket)
    BY <1>3, <2>1, <2>2, RefundOn
  <2> QED
    BY <1>3, <1>5, <2>3, StageSerial DEF n
<1>6. CASE p \notin PassPayments /\ Stage(r, NoWrites, [q EXCEPT !.pc = "readPack"])
  <2> DEFINE n == [q EXCEPT !.pc = "readPack"]
  <2>1. n.pc = "readPack" /\ n.at = 0 /\ n.todo = {} /\ n.pay = p
    BY <1>2
  <2> HIDE DEF n
  <2>2. RefundHand(n, NoWrites)
    BY <1>6, <2>1, NothingWritten DEF RefundHand, Targets, Chosen, NewestFirst
  <2>3. Hand(n, NoWrites, pass, bucket)
    BY <1>3, <2>1, <2>2 DEF Hand, AllFit, ReconcilePcs, GoingOn, InSnapshot
  <2> QED
    BY <1>3, <1>6, <2>3, StageSerial DEF n
<1> QED
  BY <1>4, <1>5, <1>6 DEF ReadRefund, q

\* What the invariant says of a refund under way.
LEMMA RefundNow ==
  ASSUME IInv, JInv, SInv, NEW r \in Requests, req[r].pc \in RefundPcs
  PROVE  /\ RefundHand(req[r], pend[r]) /\ Left(Targets(req[r]), pend[r])
         /\ WritesOK(pend[r]) /\ req[r] \in Locals /\ req[r].at <= now
         /\ req[r].pc # "clawback" => AllFit(SeenPasses(pend[r]), SeenBuckets(pend[r]))
<1>1. /\ Hand(req[r], pend[r], SeenPasses(pend[r]), SeenBuckets(pend[r]))
      /\ WritesOK(pend[r]) /\ req[r] \in Locals
  BY InHandNow
<1>2. RefundHand(req[r], pend[r]) /\ req[r].at <= now
      /\ (req[r].pc # "clawback" => AllFit(SeenPasses(pend[r]), SeenBuckets(pend[r])))
  BY <1>1 DEF Hand, AllFit
<1>3. Left(Targets(req[r]), pend[r])
  BY <1>2 DEF RefundHand, Left, Chosen
<1> QED
  BY <1>1, <1>2, <1>3

\* A pass that is canceled, once, and the bucket it came with, if it has one.
Canceled(P, N, e) ==
    /\ \A f \in PassIds \ {e} : N[f] = P[f]
    /\ N[e].status = "CANCELED" /\ N[e].revoked = P[e].revoked + 1
HasCredits(e, B) == B[e[1]].status # "NONE" /\ B[e[1]].seq = e[2]

LEMMA CancelFits ==
  ASSUME NEW P, NEW N, NEW B, NEW e \in PassIds, AllFit(P, B), OpenRow(P[e]), Canceled(P, N, e)
  PROVE  /\ PassesFit(N) /\ \A p \in PassPayments : p = e[1] \/ CreditsFit(p, N, B)
         /\ ~HasCredits(e, B) => CreditsFit(e[1], N, B)
         /\ HasCredits(e, B) => P[e].status = "ACTIVE" /\ B[e[1]].status # "CANCELED"
<1>1. P[e].revoked = 0
  BY DEF AllFit, PassesFit, OpenRow
<1>2. N[e].revoked = 1 /\ N[e].status = "CANCELED" /\ ~OpenRow(N[e])
  BY <1>1 DEF Canceled, OpenRow
<1>3. PassesFit(N)
  BY <1>2 DEF AllFit, PassesFit, Canceled
<1>4. e[1] \in PassPayments /\ e[2] \in 1..PassCount /\ e = <<e[1], e[2]>>
  BY DEF PassIds
<1>5. ASSUME NEW p \in PassPayments, p # e[1] PROVE CreditsFit(p, N, B)
  <2>1. \A n \in 1..PassCount : N[<<p, n>>] = P[<<p, n>>]
    BY <1>5 DEF Canceled, PassIds
  <2>2. CreditsFit(p, P, B)
    BY DEF AllFit
  <2> QED
    BY <2>1, <2>2 DEF CreditsFit
<1>6. CreditsFit(e[1], P, B)
  BY <1>4 DEF AllFit
<1>7. ASSUME ~HasCredits(e, B) PROVE CreditsFit(e[1], N, B)
  <2>1. \A n \in 1..PassCount : n # e[2] => N[<<e[1], n>>] = P[<<e[1], n>>]
    BY <1>4 DEF Canceled, PassIds
  <2> QED
    BY <1>6, <1>7, <2>1 DEF CreditsFit, HasCredits
<1>8. ASSUME HasCredits(e, B) PROVE P[e].status = "ACTIVE" /\ B[e[1]].status # "CANCELED"
  BY <1>4, <1>6, <1>8 DEF CreditsFit, HasCredits, OpenRow
<1> QED
  BY <1>3, <1>5, <1>7, <1>8

LEMMA CancelPassSerial == ASSUME OneAtATime, IInv, JInv, SInv, NEW r \in Requests, CancelPass(r) PROVE SInv'
<1> DEFINE e == req[r].item.pass
           row == [pass[e] EXCEPT !.status = "CANCELED", !.revoked = @ + 1,
                                  !.weight = @ + RefundWeight(pass[e], req[r].item.was, now)]
           w == [pend[r] EXCEPT !.pass = Patch(@, e, row)]
           credits == View(bucket, w.bucket)[e[1]]
           n == [req[r] EXCEPT !.pc = "clawback", !.amount = credits.remaining]
           P == SeenPasses(pend[r])
           B == SeenBuckets(pend[r])
           N == SeenPasses(w)
<1>1. req[r].pc = "cancelPass" /\ req[r].pc \in RefundPcs /\ e[1] = req[r].pay /\ req[r].item \in PassItems
  BY Claims DEF CancelPass, RequestFits, RefundPcs, Refunding, LocalsOK, AtPass
<1>2. /\ RefundHand(req[r], pend[r]) /\ Left(Targets(req[r]), pend[r]) /\ WritesOK(pend[r])
      /\ req[r] \in Locals /\ req[r].at <= now /\ AllFit(P, B)
  BY <1>1, RefundNow
<1>3. Targets(req[r]) = req[r].todo \cup {req[r].item} /\ req[r].item \notin req[r].todo
  BY <1>1, <1>2 DEF Targets, RefundHand
<1>4. e \in PassIds /\ e \notin DOMAIN pend[r].pass /\ Open(e) /\ req[r].item.was = pass[e].status
      /\ P[e] = pass[e] /\ pass[e] \in PassRow
  <2>1. e \in PassIds /\ e \notin DOMAIN pend[r].pass /\ Open(e) /\ req[r].item.was = pass[e].status
    BY <1>2, <1>3 DEF Left
  <2> QED
    BY <1>2, <2>1, SeenAt DEF IInv, TypeOK
<1>5. row.status = "CANCELED" /\ row.revoked = pass[e].revoked + 1
  BY <1>4 DEF PassRow
<1>6. WrotePass(w, pend[r], e, row)
  BY <1>2, PassOfWrites
<1> HIDE DEF row
<1>7. /\ N[e] = row /\ \A f \in PassIds \ {e} : N[f] = P[f]
      /\ SeenBuckets(w) = B
      /\ DOMAIN w.pass = DOMAIN pend[r].pass \cup {e}
      /\ w.pass[e] = row /\ \A f \in DOMAIN pend[r].pass \ {e} : w.pass[f] = pend[r].pass[f]
  <2> HIDE DEF w, e
  <2> QED
    BY <1>2, <1>4, <1>6, SeePass
<1>8. credits = B[e[1]]
  BY <1>7 DEF SeenBuckets
<1>9. \/ Stage(r, w, n) /\ HasCredits(e, B)
      \/ NextTarget(r, w) /\ (HasCredits(e, B) => req[r].item.was # "ACTIVE")
  BY <1>8, ZenonT(60) DEF CancelPass, w, credits, row, HasCredits
<1> HIDE DEF w, credits, N
<1>10. Canceled(P, N, e) /\ OpenRow(P[e])
  BY <1>4, <1>5, <1>7 DEF Canceled, OpenRow, Open
<1>11. /\ PassesFit(N) /\ \A p \in PassPayments : p = e[1] \/ CreditsFit(p, N, B)
       /\ ~HasCredits(e, B) => CreditsFit(e[1], N, B)
       /\ HasCredits(e, B) => P[e].status = "ACTIVE" /\ B[e[1]].status # "CANCELED"
  BY <1>2, <1>4, <1>10, CancelFits
<1>12. Left(req[r].todo, w)
  <2>1. \A x \in req[r].todo : x.pass # e
    BY <1>2, <1>3 DEF Left
  <2>2. DOMAIN w.pass \cup {x.pass : x \in req[r].todo} = DOMAIN pend[r].pass \cup {x.pass : x \in Targets(req[r])}
    BY <1>3, <1>7
  <2>3. NewestFirst(DOMAIN w.pass \cup {x.pass : x \in req[r].todo})
    BY <1>2, <2>2 DEF Left
  <2>4. \A f \in DOMAIN w.pass : w.pass[f].status = "CANCELED"
    BY <1>2, <1>5, <1>7 DEF Left
  <2>5. /\ \A x \in req[r].todo : /\ x.pass \in PassIds /\ x.pass \notin DOMAIN w.pass
                                  /\ Open(x.pass) /\ x.was = pass[x.pass].status
        /\ \A x, y \in req[r].todo : x.pass = y.pass => x = y
    BY <1>2, <1>3, <1>7, <2>1 DEF Left
  <2> QED
    BY <2>3, <2>4, <2>5 DEF Left
<1>13. CASE Stage(r, w, n) /\ HasCredits(e, B)
  <2>1. n.pc = "clawback" /\ n.at = req[r].at /\ n.todo = req[r].todo /\ n.pay = req[r].pay /\ n.amount = credits.remaining
    BY <1>2 DEF Locals
  <2>2. Stage(r, w, n)
    BY <1>13
  <2> HIDE DEF n
  <2>3. RefundHand(n, w)
    BY <1>12, <2>1 DEF RefundHand, Left, Targets, Chosen
  <2>4. ClawbackHand(n, N, B)
    <3>1. B[e[1]].status \notin {"NONE", "CANCELED"} /\ n.amount = B[n.pay].remaining /\ n.pay = e[1]
      BY <1>1, <1>8, <1>11, <1>13, <2>1 DEF HasCredits
    <3>2. B[e[1]].seq = e[2] /\ e = <<e[1], e[2]>> /\ e[2] \in 1..PassCount
      BY <1>4, <1>13 DEF HasCredits, PassIds
    <3>3. N[e].status = "CANCELED"
      BY <1>10 DEF Canceled
    <3> HIDE DEF e
    <3> QED
      BY <3>1, <3>2, <3>3 DEF ClawbackHand
  <2>5. Hand(n, w, N, B)
    <3>1. n.pc \in RefundPcs /\ n.pc \notin ReconcilePcs /\ n.pc # "provision" /\ ~InSnapshot(n)
      BY <2>1 DEF RefundPcs, Refunding, ReconcilePcs, GoingOn, InSnapshot
    <3>2. \A p \in PassPayments : (n.pc = "clawback" /\ p = n.pay) \/ CreditsFit(p, N, B)
      BY <1>1, <1>11, <2>1
    <3> QED
      BY <1>2, <1>11, <2>1, <2>3, <2>4, <3>1, <3>2 DEF Hand, AllFit
  <2> QED
    BY <1>7, <2>2, <2>5, StageSerial DEF N
<1>14. CASE NextTarget(r, w) /\ (HasCredits(e, B) => req[r].item.was # "ACTIVE")
  <2>1. ~HasCredits(e, B)
    BY <1>4, <1>11, <1>14
  <2>2. AllFit(N, B)
    BY <1>2, <1>11, <2>1 DEF AllFit
  <2> QED
    BY <1>7, <1>12, <1>14, <2>2, NextTargetSerial DEF N
<1> QED
  BY <1>9, <1>13, <1>14

LEMMA ReadPackSerial == ASSUME OneAtATime, IInv, JInv, SInv, NEW r \in Requests, ReadPack(r) PROVE SInv'
<1> DEFINE p == req[r].pay
           n == [req[r] EXCEPT !.pc = "clawback", !.amount = bucket[p].remaining]
<1>1. req[r].pc = "readPack" /\ req[r].pc \in RefundPcs
  BY DEF ReadPack, RefundPcs
<1>2. /\ RefundHand(req[r], pend[r]) /\ WritesOK(pend[r])
      /\ req[r] \in Locals /\ req[r].at <= now /\ AllFit(SeenPasses(pend[r]), SeenBuckets(pend[r]))
  BY <1>1, RefundNow
<1>3. /\ req[r].todo = {} /\ p \notin PassPayments /\ DOMAIN pend[r].pass = {} /\ DOMAIN pend[r].bucket = {}
      /\ SeenPasses(pend[r]) = pass /\ SeenBuckets(pend[r]) = bucket
  BY <1>1, <1>2, SeenNothing DEF RefundHand
<1>4. CASE Rollback(r, Idle)
  BY <1>4, FresherIdle, RollbackSerial
<1>5. CASE bucket[p].status = "ACTIVE" /\ Stage(r, pend[r], n)
  <2>1. n.pc = "clawback" /\ n.at = req[r].at /\ n.todo = {} /\ n.pay = p /\ n.amount = bucket[p].remaining
    BY <1>2, <1>3 DEF Locals
  <2> HIDE DEF n
  <2>2. RefundHand(n, pend[r])
    BY <1>3, <2>1 DEF RefundHand, Targets, Chosen, NewestFirst
  <2>3. ClawbackHand(n, pass, bucket)
    BY <1>3, <1>5, <2>1 DEF ClawbackHand
  <2>4. Hand(n, pend[r], pass, bucket)
    BY <1>2, <1>3, <2>1, <2>2, <2>3 DEF Hand, AllFit, ReconcilePcs, GoingOn, InSnapshot
  <2> QED
    BY <1>3, <1>5, <2>4, StageSerial
<1> QED
  BY <1>4, <1>5 DEF ReadPack

\* A bucket that is emptied, once, keeps its ledger.
Cleared(b, amount) == [b EXCEPT !.status = "CANCELED", !.remaining = 0, !.adjusted = @ + amount, !.revoked = @ + 1]

LEMMA Emptying ==
  ASSUME NEW b \in BucketRow, LedgerFits(b), b.status \notin {"NONE", "CANCELED"},
         NEW c, c = Cleared(b, b.remaining)
  PROVE  LedgerFits(c) /\ c.status = "CANCELED" /\ c.seq = b.seq
<1>1. /\ c.status = "CANCELED" /\ c.remaining = 0 /\ c.adjusted = b.adjusted + b.remaining /\ c.revoked = b.revoked + 1
      /\ c.granted = b.granted /\ c.used = b.used /\ c.expired = b.expired /\ c.seq = b.seq
  BY DEF BucketRow, Cleared
<1>2. b.remaining \in Nat /\ b.expired \in Nat /\ b.used \in Nat /\ b.adjusted \in Nat /\ b.granted \in Nat
  BY DEF BucketRow
<1> QED
  BY <1>1, <1>2 DEF LedgerFits

LEMMA ClawbackSerial == ASSUME OneAtATime, IInv, JInv, SInv, NEW r \in Requests, Clawback(r) PROVE SInv'
<1> DEFINE p == req[r].pay
           old == View(bucket, pend[r].bucket)[p]
           cleared == [old EXCEPT !.status = "CANCELED", !.remaining = 0,
                           !.adjusted = @ + req[r].amount, !.revoked = @ + 1]
           w == [pend[r] EXCEPT !.bucket = Patch(@, p, cleared)]
           n == [req[r] EXCEPT !.pc = "adjustLedger"]
           P == SeenPasses(pend[r])
           B == SeenBuckets(pend[r])
           C == SeenBuckets(w)
<1>1. req[r].pc = "clawback" /\ req[r].pc \in RefundPcs
  BY DEF Clawback, RefundPcs, Refunding
<1>2. /\ RefundHand(req[r], pend[r]) /\ Left(Targets(req[r]), pend[r]) /\ WritesOK(pend[r])
      /\ req[r] \in Locals /\ req[r].at <= now
  BY <1>1, RefundNow
<1>3. /\ PassesFit(P) /\ LedgersFit(B) /\ \A o \in PassPayments : o = p \/ CreditsFit(o, P, B)
      /\ ClawbackHand(req[r], P, B)
  BY <1>1, InHandNow DEF Hand
<1>4. p \in Payments /\ req[r].amount \in Nat
  BY <1>1, <1>2, Claims DEF LocalsOK, AtPayment, Locals
<1>5. old = B[p] /\ old \in BucketRow
  BY <1>2, <1>4, SeenAt DEF SeenBuckets
<1>6. old.status \notin {"NONE", "CANCELED"} /\ req[r].amount = old.remaining /\ LedgerFits(old)
  BY <1>3, <1>4, <1>5 DEF ClawbackHand, LedgersFit
<1>7. LedgerFits(cleared) /\ cleared.status = "CANCELED" /\ cleared.seq = old.seq
  <2>1. cleared = Cleared(old, old.remaining)
    BY <1>6 DEF Cleared
  <2> HIDE DEF old, cleared
  <2> QED
    BY <1>5, <1>6, <2>1, Emptying
<1>8. cleared \in BucketRow
  <2> HIDE DEF old
  <2> QED
    BY <1>4, <1>5, ClearBucket
<1> HIDE DEF cleared, old
<1>9. /\ C[p] = cleared /\ \A o \in Payments \ {p} : C[o] = B[o]
      /\ SeenPasses(w) = P /\ w.pass = pend[r].pass
  BY <1>4, <1>8, BucketWritten
<1> HIDE DEF C, P, B
<1>10. AllFit(P, C)
  <2>1. LedgersFit(C)
    BY <1>3, <1>7, <1>9 DEF LedgersFit
  <2>2. ASSUME NEW o \in PassPayments PROVE CreditsFit(o, P, C)
    <3>1. CASE o = p
      <4>1. B[p].seq \in 1..PassCount /\ P[<<p, B[p].seq>>].status = "CANCELED"
        BY <1>3, <3>1 DEF ClawbackHand
      <4> QED
        BY <1>5, <1>7, <1>9, <3>1, <4>1 DEF CreditsFit
    <3>2. CASE o # p
      <4>1. o \in Payments /\ C[o] = B[o] /\ CreditsFit(o, P, B)
        BY <1>3, <1>9, <3>2 DEF Payments
      <4> QED
        BY <4>1 DEF CreditsFit
    <3> QED
      BY <3>1, <3>2
  <2> QED
    BY <1>3, <2>1, <2>2 DEF AllFit
<1>11. Left(req[r].todo, w)
  <2>1. Targets(req[r]) = req[r].todo
    BY <1>1 DEF Targets
  <2> QED
    BY <1>2, <1>9, <2>1 DEF Left
<1>12. Stage(r, w, n) \/ NextTarget(r, w)
  BY DEF Clawback, w, cleared, old
<1> HIDE DEF w
<1>13. CASE Stage(r, w, n)
  <2>1. n.pc = "adjustLedger" /\ n.at = req[r].at /\ n.todo = req[r].todo
    BY <1>2 DEF Locals
  <2> HIDE DEF n
  <2>2. Targets(n) = req[r].todo
    BY <2>1 DEF Targets
  <2>3. Hand(n, w, P, C)
    BY <1>2, <1>10, <1>11, <2>1, <2>2, RefundOn
  <2> QED
    BY <1>9, <1>13, <2>3, StageSerial DEF C
<1>14. CASE NextTarget(r, w)
  BY <1>9, <1>10, <1>11, <1>14, NextTargetSerial DEF C
<1> QED
  BY <1>12, <1>13, <1>14

LEMMA AdjustLedgerSerial == ASSUME OneAtATime, IInv, JInv, SInv, NEW r \in Requests, AdjustLedger(r) PROVE SInv'
<1> DEFINE w == [pend[r] EXCEPT !.wallet = TRUE]
<1>1. req[r].pc = "adjustLedger" /\ req[r].pc \in RefundPcs /\ NextTarget(r, w)
  BY DEF AdjustLedger, RefundPcs, Refunding
<1>2. Left(Targets(req[r]), pend[r]) /\ AllFit(SeenPasses(pend[r]), SeenBuckets(pend[r]))
  BY <1>1, RefundNow
<1>3. SeenPasses(w) = SeenPasses(pend[r]) /\ SeenBuckets(w) = SeenBuckets(pend[r]) /\ w.pass = pend[r].pass
  BY WalletWritten
<1> HIDE DEF w
<1>4. Left(req[r].todo, w)
  <2>1. Targets(req[r]) = req[r].todo
    BY <1>1 DEF Targets
  <2> QED
    BY <1>2, <1>3, <2>1 DEF Left
<1> QED
  BY <1>1, <1>2, <1>3, <1>4, NextTargetSerial

\* The passes that a step cancels are, of each payment, the ones that start last.
Newest == \A e, f \in PassIds :
    /\ e[1] = f[1] /\ pass[f].status = "QUEUED" /\ pass[f].startsAt > pass[e].startsAt
    /\ pass[e].status # "CANCELED" /\ pass'[e].status = "CANCELED"
    => pass'[f].status = "CANCELED"

LEMMA RefundCommits ==
  ASSUME OneAtATime, IInv, JInv, SInv, NEW r \in Requests, FinishRefund(r)
  PROVE  SInv' /\ Newest
<1> DEFINE p == req[r].pay
           row == [payment[p] EXCEPT !.refund = req[r].refund]
           w == [pend[r] EXCEPT !.payment = Patch(@, p, row)]
           P == SeenPasses(pend[r])
           B == SeenBuckets(pend[r])
<1>1. req[r].pc = "finishRefund" /\ req[r].pc \in RefundPcs /\ Commit(r, w, Reconciling)
  BY DEF FinishRefund, RefundPcs
<1>2. /\ RefundHand(req[r], pend[r]) /\ Left(Targets(req[r]), pend[r]) /\ WritesOK(pend[r]) /\ AllFit(P, B)
  BY <1>1, RefundNow
<1>3. w.pass = pend[r].pass /\ w.bucket = pend[r].bucket
  BY <1>2 DEF WritesOK
<1> HIDE DEF row, w
<1>4. SeenPasses(w) = P /\ SeenBuckets(w) = B
  BY <1>3, SeenSame
<1>5. Targets(req[r]) = {}
  BY <1>1, <1>2 DEF RefundHand, Targets
<1>6. \A e \in PassIds : P[e] = IF e \in DOMAIN pend[r].pass THEN pend[r].pass[e] ELSE pass[e]
  BY <1>2, SeenAt
<1>7. \A e \in DOMAIN pend[r].pass : pend[r].pass[e].status = "CANCELED"
  BY <1>2 DEF Left
<1>8. TimesFit(P, now)
  BY <1>6, <1>7 DEF TimesFit, SInv
<1>9. pass' = P
  BY <1>1, <1>4 DEF Commit, SeenPasses
<1>10. Newest
  <2>1. NewestFirst(DOMAIN pend[r].pass)
    BY <1>2, <1>5 DEF Left
  <2> HIDE DEF P
  <2> QED
    BY <1>6, <1>7, <1>9, <2>1 DEF Newest, NewestFirst
<1> QED
  BY <1>1, <1>2, <1>4, <1>8, <1>10, FresherIdle, CommitSerial

-----------------------------------------------------------------------------
(***************************************************************************)
(* Spending.                                                               *)
(***************************************************************************)
\* Where consumeCredits goes on.
LEMMA SpendOn ==
  ASSUME IInv, SInv, NEW n, NEW w, NEW P, NEW B, AllFit(P, B), n.at <= now, InSnapshot(n), SpendHand(n, w)
  PROVE  Hand(n, w, P, B)
<1>1. n.pc \notin RefundPcs \cup ReconcilePcs \cup {"provision", "clawback"}
  BY DEF RefundPcs, Refunding, ReconcilePcs, GoingOn, InSnapshot
<1> QED
  BY <1>1 DEF Hand, AllFit

LEMMA ReadCreditsSerial == ASSUME OneAtATime, IInv, SInv, NEW r \in Requests, ReadCredits(r) PROVE SInv'
<1> DEFINE credits == {CreditItem(p, bucket[p]) : p \in Spendable}
<1>1. req[r] \in Locals /\ req[r].at <= now
  BY InHandNow DEF Hand
<1>2. CASE Rollback(r, Idle)
  BY <1>2, FresherIdle, RollbackSerial
<1>3. ASSUME NEW x \in First(credits),
             Stage(r, NoWrites, [req[r] EXCEPT !.pc = "spend", !.item = x, !.todo = credits \ {x},
                                               !.toUse = req[r].amount])
      PROVE  SInv'
  <2> DEFINE n == [req[r] EXCEPT !.pc = "spend", !.item = x, !.todo = credits \ {x}, !.toUse = req[r].amount]
  <2>1. n.pc = "spend" /\ n.at = req[r].at /\ n.item = x /\ n.todo = credits \ {x} /\ x \in credits
    BY <1>1 DEF Locals, First
  <2>2. \A y \in credits : bucket[y.bucket].status = "ACTIVE"
    BY DEF Spendable, CreditItem
  <2>3. Stage(r, NoWrites, n)
    BY <1>3
  <2> HIDE DEF n, credits
  <2>4. SpendHand(n, NoWrites)
    BY <2>1, <2>2, NothingWritten DEF SpendHand
  <2>5. SeenPasses(NoWrites) = pass /\ SeenBuckets(NoWrites) = bucket /\ AllFit(pass, bucket)
    BY NothingWritten, SeenNothing DEF SInv
  <2>6. Hand(n, NoWrites, pass, bucket)
    BY <1>1, <2>1, <2>4, <2>5, SpendOn DEF InSnapshot
  <2> QED
    BY <2>3, <2>5, <2>6, StageSerial
<1> QED
  BY <1>2, <1>3 DEF ReadCredits, credits

LEMMA ConflictSerial == ASSUME OneAtATime, IInv, SInv, NEW r \in Requests, Conflict(r) PROVE SInv'
<1> DEFINE again == [req[r] EXCEPT !.pc = "readCredits", !.item = NoItem, !.todo = {}, !.toUse = 0,
                                   !.tries = req[r].tries + 1]
<1>1. req[r] \in Locals /\ req[r].at <= now
  BY InHandNow DEF Hand
<1>2. again.pc = "readCredits" /\ again.at = req[r].at
  BY <1>1 DEF Locals
<1> HIDE DEF again
<1>3. Fresher(again)
  BY <1>1, <1>2 DEF Fresher, Calm
<1>4. Rollback(r, again) \/ Rollback(r, Idle)
  BY DEF Conflict, again
<1> QED
  BY <1>3, <1>4, FresherIdle, RollbackSerial

\* What the invariant says of consumeCredits under way.
LEMMA SpendNow ==
  ASSUME IInv, JInv, SInv, NEW r \in Requests, InSnapshot(req[r])
  PROVE  /\ SpendHand(req[r], pend[r]) /\ Spending(r, req[r], pend[r]) /\ stale[r] = {}
         /\ WritesOK(pend[r]) /\ req[r] \in Locals /\ req[r].at <= now
         /\ AllFit(SeenPasses(pend[r]), SeenBuckets(pend[r]))
         /\ req[r].item \in CreditItems
<1>1. /\ Hand(req[r], pend[r], SeenPasses(pend[r]), SeenBuckets(pend[r]))
      /\ WritesOK(pend[r]) /\ req[r] \in Locals /\ LocalsOK(req[r])
  BY InHandNow
<1>2. Spending(r, req[r], pend[r]) /\ stale[r] = {}
  BY Claims DEF RequestFits, SInv
<1>3. req[r].pc # "clawback" /\ req[r].item \in CreditItems
  BY <1>1 DEF InSnapshot, LocalsOK, AtCredits
<1> QED
  BY <1>1, <1>2, <1>3 DEF Hand, AllFit

\* Credits that are used keep their ledger.
Used(b, take) == [b EXCEPT !.remaining = b.remaining - take, !.used = @ + take,
                           !.status = IF b.remaining - take = 0 THEN "DEPLETED" ELSE "ACTIVE"]

LEMMA Using ==
  ASSUME NEW b \in BucketRow, LedgerFits(b), b.status = "ACTIVE", NEW take \in Nat, take <= b.remaining,
         NEW c, c = Used(b, take)
  PROVE  LedgerFits(c) /\ c.status \in {"DEPLETED", "ACTIVE"} /\ c.seq = b.seq /\ c \in BucketRow
<1>1. b.remaining \in Nat /\ b.expired \in Nat /\ b.used \in Nat /\ b.adjusted \in Nat /\ b.granted \in Nat
      /\ b.remaining - take \in Nat
  BY DEF BucketRow
<1>2. /\ c.status \in {"DEPLETED", "ACTIVE"} /\ c.remaining = b.remaining - take /\ c.used = b.used + take
      /\ c.revoked = b.revoked /\ c.granted = b.granted /\ c.adjusted = b.adjusted /\ c.expired = b.expired
      /\ c.seq = b.seq
  BY DEF BucketRow, Used
<1>3. c \in BucketRow
  BY <1>1, SpendBucket DEF Used
<1> QED
  BY <1>1, <1>2, <1>3 DEF LedgerFits

LEMMA SpendSerial == ASSUME OneAtATime, IInv, JInv, SInv, NEW r \in Requests, Spend(r) PROVE SInv'
<1> DEFINE p == req[r].item.bucket
           take == Take(req[r])
           left == req[r].item.amount - take
           row == [bucket[p] EXCEPT !.remaining = left, !.used = @ + take,
                                    !.status = IF left = 0 THEN "DEPLETED" ELSE "ACTIVE"]
           w == [pend[r] EXCEPT !.bucket = Patch(@, p, row)]
           n == [req[r] EXCEPT !.pc = "useLedger"]
           P == SeenPasses(pend[r])
           B == SeenBuckets(pend[r])
<1>1. req[r].pc = "spend" /\ InSnapshot(req[r])
  BY DEF Spend, InSnapshot
<1>2. /\ SpendHand(req[r], pend[r]) /\ Spending(r, req[r], pend[r]) /\ stale[r] = {}
      /\ WritesOK(pend[r]) /\ req[r] \in Locals /\ req[r].at <= now /\ AllFit(P, B)
      /\ req[r].item \in CreditItems
  BY <1>1, SpendNow
<1>3. p \in Payments /\ req[r].item.amount \in Nat /\ req[r].toUse \in Nat
  BY <1>2 DEF CreditItems, Locals
<1>4. bucket[p].remaining = req[r].item.amount /\ p \notin DOMAIN pend[r].bucket /\ bucket[p].status = "ACTIVE"
      /\ bucket[p] \in BucketRow
  BY <1>1, <1>2, <1>3 DEF Spending, InHand, Fresh, SpendHand, IInv, TypeOK
<1>5. B[p] = bucket[p]
  BY <1>2, <1>3, <1>4, SeenAt
<1>6. take \in Nat /\ take <= bucket[p].remaining
  BY <1>3, <1>4 DEF Take
<1>7. CASE Conflict(r)
  BY <1>7, ConflictSerial
<1>8. CASE Stage(r, w, n)
  <2>1. row = Used(bucket[p], take)
    BY <1>4 DEF Used
  <2> HIDE DEF take
  <2>2. LedgerFits(bucket[p])
    BY <1>2, <1>3, <1>5 DEF AllFit, LedgersFit
  <2> HIDE DEF row
  <2>3. LedgerFits(row) /\ row.status \in {"DEPLETED", "ACTIVE"} /\ row.seq = bucket[p].seq /\ row \in BucketRow
    <3> HIDE DEF p
    <3> QED
      BY <1>4, <1>6, <2>1, <2>2, Using
  <2> DEFINE C == SeenBuckets(w)
  <2>4. /\ C[p] = row /\ \A o \in Payments \ {p} : C[o] = B[o]
        /\ SeenPasses(w) = P /\ w.pass = pend[r].pass
    BY <1>3, <2>3, BucketWritten
  <2> HIDE DEF w, P, B, C
  <2>5. AllFit(P, C)
    <3>1. LedgersFit(C)
      BY <1>2, <2>3, <2>4 DEF AllFit, LedgersFit
    <3>2. ASSUME NEW o \in PassPayments PROVE CreditsFit(o, P, C)
      <4>1. o \in Payments /\ CreditsFit(o, P, B)
        BY <1>2 DEF AllFit, Payments
      <4>2. CASE o = p
        BY <1>4, <1>5, <2>3, <2>4, <4>1, <4>2 DEF CreditsFit
      <4>3. CASE o # p
        BY <2>4, <4>1, <4>3 DEF CreditsFit
      <4> QED
        BY <4>2, <4>3
    <3> QED
      BY <1>2, <3>1, <3>2 DEF AllFit
  <2>6. n.pc = "useLedger" /\ n.at = req[r].at /\ n.todo = req[r].todo
    BY <1>2 DEF Locals
  <2> HIDE DEF n
  <2>7. SpendHand(n, w)
    BY <1>2, <2>4, <2>6 DEF SpendHand
  <2>8. Hand(n, w, P, C)
    BY <1>2, <2>5, <2>6, <2>7, SpendOn DEF InSnapshot
  <2> QED
    BY <1>8, <2>4, <2>8, StageSerial DEF C
<1> QED
  BY <1>7, <1>8 DEF Spend, w, row, n, left, take

\* Credits commit no pass.
LEMMA UseLedgerSerial ==
  ASSUME OneAtATime, IInv, JInv, SInv, NEW r \in Requests, UseLedger(r)
  PROVE  SInv' /\ pass' = pass
<1> DEFINE w == [pend[r] EXCEPT !.wallet = TRUE]
           left == req[r].toUse - Take(req[r])
           P == SeenPasses(pend[r])
           B == SeenBuckets(pend[r])
<1>1. req[r].pc = "useLedger" /\ InSnapshot(req[r])
  BY DEF UseLedger, InSnapshot
<1>2. /\ SpendHand(req[r], pend[r]) /\ WritesOK(pend[r]) /\ req[r] \in Locals /\ req[r].at <= now /\ AllFit(P, B)
  BY <1>1, SpendNow
<1>3. SeenPasses(w) = P /\ SeenBuckets(w) = B /\ w.pass = pend[r].pass
  BY WalletWritten
<1>4. P = pass
  <2>1. DOMAIN pend[r].pass = {}
    BY <1>2 DEF SpendHand
  <2> QED
    BY <2>1 DEF SeenPasses, View, IInv, TypeOK
<1>5. Conflict(r) \/ Commit(r, w, Idle)
      \/ \E x \in First(req[r].todo) :
           Stage(r, w, [req[r] EXCEPT !.pc = "spend", !.item = x, !.todo = @ \ {x}, !.toUse = left])
  BY DEF UseLedger
<1> HIDE DEF w, left
<1>6. CASE Conflict(r)
  BY <1>6, ConflictSerial DEF Conflict, Rollback
<1>7. ASSUME NEW x \in First(req[r].todo),
             Stage(r, w, [req[r] EXCEPT !.pc = "spend", !.item = x, !.todo = @ \ {x}, !.toUse = left])
      PROVE  SInv' /\ pass' = pass
  <2> DEFINE n == [req[r] EXCEPT !.pc = "spend", !.item = x, !.todo = req[r].todo \ {x}, !.toUse = left]
  <2>1. n.pc = "spend" /\ n.at = req[r].at /\ n.item = x /\ n.todo = req[r].todo \ {x} /\ x \in req[r].todo
    BY <1>2 DEF Locals, First
  <2>2. Stage(r, w, n)
    BY <1>7
  <2> HIDE DEF n, P, B
  <2>3. SpendHand(n, w)
    BY <1>2, <1>3, <2>1 DEF SpendHand
  <2>4. Hand(n, w, P, B)
    BY <1>2, <2>1, <2>3, SpendOn DEF InSnapshot
  <2> QED
    BY <1>3, <2>2, <2>4, StageSerial DEF Stage
<1>8. CASE Commit(r, w, Idle)
  <2>1. TimesFit(P, now)
    BY <1>4 DEF SInv
  <2> HIDE DEF P, B
  <2>2. SInv'
    BY <1>2, <1>3, <1>8, <2>1, FresherIdle, CommitSerial
  <2>3. pass' = P
    BY <1>3, <1>8 DEF Commit, SeenPasses
  <2> QED
    BY <1>4, <2>2, <2>3
<1> QED
  BY <1>5, <1>6, <1>7, <1>8

-----------------------------------------------------------------------------
(***************************************************************************)
(* All steps.                                                              *)
(***************************************************************************)
\* The clock and new orders.
LEMMA OutsideSerial ==
  ASSUME IInv, SInv, UNCHANGED <<pass, bucket, req, pend, stale>>, now' \in {now, now + 1}
  PROVE  SInv' /\ Newest
<1>1. now \in Nat /\ now' \in Nat /\ now <= now'
  BY DEF IInv, TypeOK
<1>2. AllFit(pass, bucket)'
  BY DEF SInv, AllFit, PassesFit, LedgersFit, CreditsFit
<1>3. TimesFit(pass, now)'
  <2>1. \A e \in PassIds : pass[e].startsAt \in Nat /\ pass[e].endsAt \in Nat
    BY DEF IInv, TypeOK, PassRow
  <2>2. TimesFit(pass, now')
    BY <1>1, <2>1, LaterFits DEF SInv
  <2> QED
    BY <2>2
<1>4. ASSUME NEW r \in Requests
      PROVE  (stale[r] = {})' /\ Hand(req[r], pend[r], SeenPasses(pend[r]), SeenBuckets(pend[r]))'
  <2>1. PICK q, w, P, B : q = req[r] /\ w = pend[r] /\ P = SeenPasses(w) /\ B = SeenBuckets(w)
    OBVIOUS
  <2>2. Hand(q, w, P, B) /\ q \in Locals
    BY <2>1, InHandNow
  <2>3. q.at <= now'
    BY <1>1, <2>2 DEF Hand, Locals
  <2>4. Hand(q, w, P, B)'
    BY <2>2, <2>3, HandLater
  <2>5. P = SeenPasses(w)' /\ B = SeenBuckets(w)'
    BY <2>1 DEF SeenPasses, SeenBuckets, View
  <2> QED
    BY <2>1, <2>4, <2>5 DEF SInv
<1>5. Newest
  BY DEF Newest
<1> QED
  BY <1>2, <1>3, <1>4, <1>5 DEF SInv

\* What approves a payment cancels nothing.
LEMMA NoneCanceled ==
  ASSUME \A e \in PassIds : pass'[e].status = "CANCELED" => pass[e].status = "CANCELED"
  PROVE  Newest
  BY DEF Newest

LEMMA ProvisionNewest == ASSUME IInv, JInv, NEW r \in Requests, Provision(r) PROVE Newest
<1> DEFINE p == req[r].pay
           made == ProvisionedPasses(req[r].latest, req[r].at)
           w == [pend[r] EXCEPT !.wallet = TRUE]
           rowsOf == [e \in {p} \X (1..PassCount) |-> made[e[2]]]
           buckets == IF req[r].latest = -1 THEN Patch(w.bucket, p, NewBucket(1, PassCredits, made[1].endsAt)) ELSE w.bucket
           passed == [w EXCEPT !.pass = rowsOf, !.bucket = buckets]
           packed == [w EXCEPT !.bucket = Patch(@, p, NewBucket(0, PackCredits, CreditExpiryAt(req[r].at)))]
<1>1. Approving(pend[r], p) /\ WritesOK(pend[r])
  BY Claims DEF Provision, RequestFits
<1>2. \A n \in 1..PassCount : made[n].status # "CANCELED"
  BY DEF ProvisionedPasses, NoPassRow
<1> HIDE DEF made
<1>3. w.pass = pend[r].pass /\ WritesOK(w)
  BY <1>1, Context, PaidWallet, WriteWallet DEF WritesFit
<1> HIDE DEF w
<1>4. passed.pass = rowsOf /\ packed.pass = w.pass
  BY <1>3 DEF WritesOK
<1>5. Commit(r, passed, Reconciling) \/ Commit(r, packed, Reconciling)
  BY DEF Provision, made, w
<1> HIDE DEF passed, packed
<1>6. DOMAIN w.pass = {} /\ \A e \in DOMAIN rowsOf : rowsOf[e].status # "CANCELED"
  BY <1>1, <1>2, <1>3 DEF Approving
<1> HIDE DEF rowsOf
<1>7. CASE Commit(r, passed, Reconciling)
  <2>1. pass' = View(pass, rowsOf)
    BY <1>4, <1>7 DEF Commit
  <2> QED
    BY <1>6, <2>1, NoneCanceled DEF View, IInv, TypeOK
<1>8. CASE Commit(r, packed, Reconciling)
  <2>1. pass' = View(pass, w.pass)
    BY <1>4, <1>8 DEF Commit
  <2> QED
    BY <1>6, <2>1, NoneCanceled DEF View, IInv, TypeOK
<1> QED
  BY <1>5, <1>7, <1>8

LEMMA ReconcileNewest ==
  ASSUME OneAtATime, IInv, SInv, NEW r \in Requests, CloseReconcile(r)
  PROVE  Newest
<1>1. pass' = SeenPasses(pend[r]) /\ req[r].pc \in ReconcilePcs
  BY ReconcileCommits DEF CloseReconcile, ReconcilePcs
<1>2. Reconciled(SeenPasses(pend[r]), req[r].at)
  BY <1>1, ReconcileNow
<1> QED
  BY <1>1, <1>2, NoneCanceled DEF Reconciled

LEMMA WritesNoPass ==
  ASSUME IInv, NEW r, NEW w, DOMAIN w.pass = {}, NEW q, Commit(r, w, q)
  PROVE  Newest
<1>1. pass' = pass
  BY DEF Commit, View, IInv, TypeOK
<1> QED
  BY <1>1 DEF Newest

LEMMA DecideNewest == ASSUME IInv, NEW r, Decide(r) PROVE Newest
<1> DEFINE w == [NoWrites EXCEPT !.payment = Patch(@, req[r].pay,
                    [payment[req[r].pay] EXCEPT !.status = Verdict[req[r].op], !.decisions = @ + 1])]
<1>1. DOMAIN w.pass = {}
  BY DEF NoWrites
<1>2. (\E q : Commit(r, w, q)) \/ pass' = pass
  BY DEF Decide, ApproveInTransaction, Stage, Rollback
<1> HIDE DEF w
<1>3. ASSUME NEW q, Commit(r, w, q) PROVE Newest
  BY <1>1, <1>3, WritesNoPass
<1>4. ASSUME pass' = pass PROVE Newest
  BY <1>4 DEF Newest
<1> QED
  BY <1>2, <1>3, <1>4

LEMMA AdminGrantNewest == ASSUME IInv, NEW r, NEW p, AdminGrant(r, p) PROVE Newest
<1> DEFINE w == [NoWrites EXCEPT !.payment = Patch(@, p, [payment[p] EXCEPT !.status = "APPROVED", !.decisions = @ + 1]),
                                 !.bucket = Patch(@, p, NewBucket(0, PackCredits, CreditExpiryAt(now))),
                                 !.wallet = TRUE]
<1>1. DOMAIN w.pass = {} /\ Commit(r, w, Reconciling)
  BY DEF NoWrites, AdminGrant
<1> HIDE DEF w
<1> QED
  BY <1>1, WritesNoPass

LEMMA BeginsSerial ==
  ASSUME OneAtATime, IInv, JInv, SInv, NEW r \in Requests, Begin(r)
  PROVE  SInv' /\ Newest
<1>1. ASSUME NEW p \in Payments, AdminGrant(r, p) PROVE SInv' /\ Newest
  BY <1>1, AdminGrantSerial, AdminGrantNewest
<1>2. ASSUME NEW p \in Payments, NEW op \in DOMAIN Verdict \cap Handlers, ReadPending(r, p, op) PROVE SInv' /\ pass' = pass
  BY <1>2, ReadPendingSerial DEF ReadPending, Stage
<1>3. ASSUME NEW p \in Payments, NEW count \in 0..PassCount, NEW allow \in BOOLEAN,
             NEW status \in RefundInputs, ReadRefund(r, p, count, allow, status)
      PROVE  SInv' /\ pass' = pass
  <2>1. \E w, q : Stage(r, w, q)
    BY <1>3, ZenonT(60) DEF ReadRefund
  <2>2. pass' = pass
    BY <2>1 DEF Stage
  <2> QED
    BY <1>3, <2>2, ReadRefundSerial
<1>4. ASSUME BeginRead(r) PROVE SInv' /\ pass' = pass
  BY <1>4, BeginReadSerial DEF BeginRead, Stage
<1>5. ASSUME NEW amount \in UseAmounts, BeginUse(r, amount) PROVE SInv' /\ pass' = pass
  BY <1>5, BeginUseSerial DEF BeginUse, Stage
<1>6. pass' = pass => Newest
  BY DEF Newest
<1> QED
  BY <1>1, <1>2, <1>3, <1>4, <1>5, <1>6 DEF Begin

LEMMA ReconcileSteps ==
  ASSUME OneAtATime, IInv, JInv, SInv, NEW r \in Requests,
         ReadDue(r) \/ ExpirePass(r) \/ ActivatePass(r) \/ GrantIncluded(r) \/ ExpireBucket(r) \/ ExpireLedger(r)
  PROVE  SInv' /\ pass' = pass
<1>1. CASE ReadDue(r)
  BY <1>1, ReadDueSerial DEF ReadDue, GoOn, Stage
<1>2. CASE ExpirePass(r)
  BY <1>2, ExpirePassSerial DEF ExpirePass, GoOn, Stage
<1>3. CASE ActivatePass(r)
  BY <1>3, ActivatePassSerial DEF ActivatePass, GoOn, Stage
<1>4. CASE GrantIncluded(r)
  BY <1>4, GrantIncludedSerial DEF GrantIncluded, GoOn, Stage, Rollback
<1>5. CASE ExpireBucket(r)
  BY <1>5, ExpireBucketSerial DEF ExpireBucket, Stage
<1>6. CASE ExpireLedger(r)
  BY <1>6, ExpireLedgerSerial DEF ExpireLedger, Stage
<1> QED
  BY <1>1, <1>2, <1>3, <1>4, <1>5, <1>6

LEMMA RefundSteps ==
  ASSUME OneAtATime, IInv, JInv, SInv, NEW r \in Requests,
         CancelPass(r) \/ ReadPack(r) \/ Clawback(r) \/ AdjustLedger(r)
  PROVE  SInv' /\ pass' = pass
<1>1. CASE CancelPass(r)
  BY <1>1, CancelPassSerial DEF CancelPass, NextTarget, Stage
<1>2. CASE ReadPack(r)
  BY <1>2, ReadPackSerial DEF ReadPack, Stage, Rollback
<1>3. CASE Clawback(r)
  BY <1>3, ClawbackSerial DEF Clawback, NextTarget, Stage
<1>4. CASE AdjustLedger(r)
  BY <1>4, AdjustLedgerSerial DEF AdjustLedger, NextTarget, Stage
<1> QED
  BY <1>1, <1>2, <1>3, <1>4

LEMMA StepsSerial ==
  ASSUME OneAtATime, IInv, JInv, SInv, NEW r \in Requests, Step(r) \/ Fail(r)
  PROVE  SInv' /\ Newest
<1>1. pass' = pass => Newest
  BY DEF Newest
<1>2. CASE Decide(r) \/ Provision(r) \/ FinishRefund(r) \/ CloseReconcile(r)
  BY <1>2, DecideSerial, DecideNewest, ProvisionSerial, ProvisionNewest, RefundCommits, ReconcileCommits, ReconcileNewest
<1>3. CASE CancelPass(r) \/ ReadPack(r) \/ Clawback(r) \/ AdjustLedger(r)
  BY <1>1, <1>3, RefundSteps
<1>4. CASE ReadDue(r) \/ ExpirePass(r) \/ ActivatePass(r) \/ GrantIncluded(r) \/ ExpireBucket(r) \/ ExpireLedger(r)
  BY <1>1, <1>4, ReconcileSteps
<1>5. CASE ReadCredits(r)
  BY <1>1, <1>5, ReadCreditsSerial DEF ReadCredits, Stage, Rollback
<1>6. CASE Spend(r)
  BY <1>1, <1>6, SpendSerial DEF Spend, Conflict, Stage, Rollback
<1>7. CASE UseLedger(r)
  BY <1>1, <1>7, UseLedgerSerial
<1>8. CASE DeadlockAbort(r) \/ Fail(r)
  <2>1. Conflict(r) \/ Rollback(r, Idle)
    BY <1>8 DEF DeadlockAbort, Fail
  <2>2. SInv'
    BY <2>1, ConflictSerial, FresherIdle, RollbackSerial
  <2>3. pass' = pass
    BY <2>1 DEF Conflict, Rollback
  <2> QED
    BY <1>1, <2>2, <2>3
<1> QED
  BY <1>2, <1>3, <1>4, <1>5, <1>6, <1>7, <1>8 DEF Step

LEMMA NextKeepsSInv ==
  ASSUME OneAtATime
  PROVE  IInv /\ JInv /\ SInv /\ [Next]_vars => SInv' /\ Newest
<1> SUFFICES ASSUME IInv, JInv, SInv, [Next]_vars PROVE SInv' /\ Newest
  OBVIOUS
<1>1. ASSUME NEW r \in Requests, Begin(r) \/ Step(r) \/ Fail(r) PROVE SInv' /\ Newest
  BY <1>1, BeginsSerial, StepsSerial
<1>2. CASE Tick
  BY <1>2, OutsideSerial DEF Tick
<1>3. ASSUME NEW p \in Payments, Purchase(p) PROVE SInv' /\ Newest
  BY <1>3, OutsideSerial DEF Purchase
<1>4. CASE UNCHANGED vars
  BY <1>4, OutsideSerial DEF vars
<1> QED
  BY <1>1, <1>2, <1>3, <1>4 DEF Next, Work

LEMMA InitSInv == ASSUME OneAtATime PROVE Init => SInv
<1> SUFFICES ASSUME Init PROVE SInv
  OBVIOUS
<1>1. IInv
  BY InitIInv
<1>2. \A e \in PassIds : pass[e].status = "NONE" /\ pass[e].revoked = 0
  BY DEF Init, NoPassRow
<1>3. \A p \in Payments : bucket[p].status = "NONE" /\ LedgerFits(bucket[p])
  BY DEF Init, NoBucketRow, LedgerFits
<1>4. \A p \in PassPayments : p \in Payments
  BY DEF Payments
<1>5. AllFit(pass, bucket)
  BY <1>2, <1>3, <1>4 DEF AllFit, PassesFit, OpenRow, LedgersFit, CreditsFit
<1>6. TimesFit(pass, now)
  BY <1>2 DEF TimesFit
<1>7. SeenPasses(NoWrites) = pass /\ SeenBuckets(NoWrites) = bucket
  BY <1>1, NothingWritten, SeenNothing
<1>8. Hand(Idle, NoWrites, pass, bucket)
  BY <1>1, <1>5, <1>6, FresherIdle, CalmHandAt DEF Fresher
<1> QED
  BY <1>5, <1>6, <1>7, <1>8 DEF SInv, Init

LEMMA SpecSInv == ASSUME OneAtATime PROVE Spec => [](IInv /\ JInv /\ SInv)
  BY InitSInv, NextKeepsSInv, SpecJInv, PTL DEF Spec

-----------------------------------------------------------------------------
(***************************************************************************)
(* The theorems.                                                           *)
(***************************************************************************)
\* Whatever is bought, refunded and reconciled, at whatever times, never two passes run.
THEOREM OnePassRuns == ASSUME OneAtATime PROVE Spec => []OneActivePass
<1>1. SInv => OneActivePass
  BY DEF SInv, AllFit, PassesFit, OneActivePass
<1> QED
  BY <1>1, SpecSInv, PTL

\* No paid month is lost: the window of a pass starts after the ones bought before it end.
THEOREM MonthsDoNotOverlap == ASSUME OneAtATime PROVE Spec => []PassesDisjoint
<1>1. SInv => PassesDisjoint
  BY DEF SInv, AllFit, PassesFit, OpenRow, Apart, PassesDisjoint
<1> QED
  BY <1>1, SpecSInv, PTL

\* A refund takes back what it takes back once, and nothing brings it back.
THEOREM RevocationsAreFinal == ASSUME OneAtATime PROVE Spec => []RevokedOnce
<1>1. SInv => RevokedOnce
  BY DEF SInv, AllFit, PassesFit, LedgersFit, LedgerFits, RevokedOnce
<1> QED
  BY <1>1, SpecSInv, PTL

\* The included credits of a pass that was taken back are gone with it.
THEOREM CreditsGoWithThePass == ASSUME OneAtATime PROVE Spec => []NoCreditsOfCanceledPass
<1>1. IInv /\ JInv /\ SInv => NoCreditsOfCanceledPass
  <2> SUFFICES ASSUME IInv, JInv, SInv, NEW e \in PassIds, pass[e].status = "CANCELED", bucket[e[1]].seq = e[2]
               PROVE  bucket[e[1]].remaining = 0
    BY DEF NoCreditsOfCanceledPass
  <2>1. e[1] \in PassPayments /\ e[1] \in Payments /\ e = <<e[1], e[2]>>
    BY DEF PassIds, Payments
  <2>2. CASE bucket[e[1]].status = "NONE"
    BY <2>1, <2>2, NoCredits
  <2>3. CASE bucket[e[1]].status # "NONE"
    <3>1. bucket[e[1]].status = "CANCELED"
      BY <2>1, <2>3 DEF SInv, AllFit, CreditsFit
    <3> QED
      BY <2>1, <3>1 DEF SInv, AllFit, LedgersFit, LedgerFits
  <2> QED
    BY <2>2, <2>3
<1> QED
  BY <1>1, SpecSInv, PTL

\* Every credit that was ever granted is there or is accounted for by a row of the ledger.
THEOREM LedgerIsComplete == ASSUME OneAtATime PROVE Spec => []LedgerExplainsBalance
<1>1. SInv => LedgerExplainsBalance
  BY DEF SInv, AllFit, LedgersFit, LedgerFits, LedgerExplainsBalance
<1> QED
  BY <1>1, SpecSInv, PTL

\* A partial refund never leaves a month behind that lies further ahead than one it takes back.
THEOREM RefundsTakeTheNewest == ASSUME OneAtATime PROVE Spec => RefundsNewestFirst
<1>1. IInv /\ JInv /\ SInv /\ [Next]_vars =>
        [\A e, f \in PassIds :
            /\ e[1] = f[1] /\ pass[f].status = "QUEUED" /\ pass[f].startsAt > pass[e].startsAt
            /\ pass[e].status # "CANCELED" /\ pass'[e].status = "CANCELED"
            => pass'[f].status = "CANCELED"]_vars
  BY NextKeepsSInv DEF Newest
<1> QED
  BY <1>1, SpecSInv, PTL DEF Spec, RefundsNewestFirst

\* The reconcile that comes before an answer leaves the access exactly that the passes give at that time.
THEOREM AccessIsExact == ASSUME OneAtATime PROVE Spec => AccessFollowsPass
<1>1. IInv /\ JInv /\ SInv /\ [Next]_vars =>
        [\A r \in Requests :
            CloseReconcile(r) =>
              (SessionShows' = "ACTIVE" <=>
                 \E e \in PassIds : pass'[e].status \notin {"NONE", "CANCELED"} /\ Covers(pass'[e], req[r].at))]_vars
  BY ShowsAccess
<1> QED
  BY <1>1, SpecSInv, PTL DEF Spec, AccessFollowsPass

-----------------------------------------------------------------------------
(***************************************************************************)
(* What a refund notes: how much of its price a canceled pass gives back,  *)
(* and that credits are taken back from a pack that had some.              *)
(***************************************************************************)
NotedPass(row) == row.weight <= Whole /\ (row.status # "CANCELED" => row.weight = 0)
NotedBucket(p, b) == p \notin PassPayments => (b.adjusted > 0 <=> b.status = "CANCELED")
NotedWrites(w) ==
    /\ \A e \in DOMAIN w.pass : NotedPass(w.pass[e])
    /\ \A p \in DOMAIN w.bucket : NotedBucket(p, w.bucket[p])
NotedHand(q) == q.pc = "clawback" /\ q.pay \notin PassPayments => q.amount > 0
NInv ==
    /\ \A e \in PassIds : NotedPass(pass[e])
    /\ \A p \in Payments : NotedBucket(p, bucket[p])
    /\ \A r \in Requests : NotedWrites(pend[r]) /\ NotedHand(req[r])

LEMMA NothingNoted == NotedWrites(NoWrites)
  BY DEF NotedWrites, NoWrites

LEMMA SameNotes == ASSUME NEW w, NEW q PROVE (NotedWrites(w) <=> NotedWrites(w)') /\ (NotedHand(q) <=> NotedHand(q)')
  BY DEF NotedWrites, NotedHand, NotedPass, NotedBucket

\* The ways a step ends.
LEMMA StageNotes ==
  ASSUME IInv, NInv, NEW r \in Requests, NEW w, NEW q, Stage(r, w, q), NotedWrites(w), NotedHand(q)
  PROVE  NInv'
<1>1. UNCHANGED <<pass, bucket>>
  BY DEF Stage
<1>2. /\ req'[r] = q /\ pend'[r] = w
      /\ \A s \in Requests \ {r} : req'[s] = req[s] /\ pend'[s] = pend[s]
  BY DEF Stage, IInv, TypeOK
<1>3. ASSUME NEW s \in Requests PROVE (NotedWrites(pend[s]) /\ NotedHand(req[s]))'
  <2>1. PICK p, v : p = req'[s] /\ v = pend'[s]
    OBVIOUS
  <2>2. NotedWrites(v) /\ NotedHand(p)
    BY <1>2, <2>1 DEF NInv
  <2> QED
    BY <2>1, <2>2, SameNotes
<1> QED
  BY <1>1, <1>3 DEF NInv, NotedPass, NotedBucket

LEMMA RollbackNotes ==
  ASSUME IInv, NInv, NEW r \in Requests, NEW q, Rollback(r, q), NotedHand(q)
  PROVE  NInv'
<1>1. UNCHANGED <<pass, bucket>>
  BY DEF Rollback
<1>2. /\ req'[r] = q /\ pend'[r] = NoWrites
      /\ \A s \in Requests \ {r} : req'[s] = req[s] /\ pend'[s] = pend[s]
  BY DEF Rollback, IInv, TypeOK
<1>3. ASSUME NEW s \in Requests PROVE (NotedWrites(pend[s]) /\ NotedHand(req[s]))'
  <2>1. PICK p, v : p = req'[s] /\ v = pend'[s]
    OBVIOUS
  <2>2. NotedWrites(v) /\ NotedHand(p)
    BY <1>2, <2>1, NothingNoted DEF NInv
  <2> QED
    BY <2>1, <2>2, SameNotes
<1> QED
  BY <1>1, <1>3 DEF NInv, NotedPass, NotedBucket

LEMMA CommitNotes ==
  ASSUME IInv, NInv, NEW r \in Requests, NEW w, NEW q, Commit(r, w, q), NotedWrites(w), NotedHand(q)
  PROVE  NInv'
<1>1. /\ \A e \in PassIds : pass'[e] = IF e \in DOMAIN w.pass THEN w.pass[e] ELSE pass[e]
      /\ \A p \in Payments : bucket'[p] = IF p \in DOMAIN w.bucket THEN w.bucket[p] ELSE bucket[p]
  BY DEF Commit, View, IInv, TypeOK
<1>2. /\ req'[r] = q /\ pend'[r] = NoWrites
      /\ \A s \in Requests \ {r} : req'[s] = req[s] /\ pend'[s] = pend[s]
  BY DEF Commit, IInv, TypeOK
<1>3. ASSUME NEW s \in Requests PROVE (NotedWrites(pend[s]) /\ NotedHand(req[s]))'
  <2>1. PICK p, v : p = req'[s] /\ v = pend'[s]
    OBVIOUS
  <2>2. NotedWrites(v) /\ NotedHand(p)
    BY <1>2, <2>1, NothingNoted DEF NInv
  <2> QED
    BY <2>1, <2>2, SameNotes
<1>4. \A e \in PassIds : NotedPass(pass'[e])
  BY <1>1 DEF NInv, NotedWrites
<1>5. \A p \in Payments : NotedBucket(p, bucket'[p])
  BY <1>1 DEF NInv, NotedWrites
<1> QED
  BY <1>3, <1>4, <1>5 DEF NInv

\* A step that takes no credits in hand.
Ends(r, w) == \E q : q.pc # "clawback" /\ (Stage(r, w, q) \/ Commit(r, w, q) \/ Rollback(r, q))
LEMMA EndNotes ==
  ASSUME IInv, NInv, NEW r \in Requests, NEW w, Ends(r, w), NotedWrites(w)
  PROVE  NInv'
<1>1. PICK q : q.pc # "clawback" /\ (Stage(r, w, q) \/ Commit(r, w, q) \/ Rollback(r, q))
  BY DEF Ends
<1>2. NotedHand(q)
  BY <1>1 DEF NotedHand
<1> QED
  BY <1>1, <1>2, StageNotes, CommitNotes, RollbackNotes

LEMMA EndsStaged == ASSUME NEW r, NEW w, \E q : q.pc # "clawback" /\ Stage(r, w, q) PROVE Ends(r, w)
  BY DEF Ends
LEMMA EndsIdle == ASSUME NEW r, NEW w, Rollback(r, Idle) \/ Commit(r, w, Idle) \/ Commit(r, w, Reconciling) PROVE Ends(r, w)
  BY DEF Ends, Idle, Reconciling
LEMMA EndsTarget == ASSUME NEW r, NEW w, req[r] \in Locals, NextTarget(r, w) PROVE Ends(r, w)
  BY NextTargetGoes, EndsStaged
LEMMA EndsGoOn == ASSUME NEW r, NEW w, req[r] \in Locals, GoOn(r, w) PROVE Ends(r, w)
  BY GoOnGoes, EndsStaged

\* What a transaction sees is noted, and so are the rows it adds.
LEMMA NotesNow ==
  ASSUME IInv, NInv, NEW r \in Requests
  PROVE  /\ WritesOK(pend[r]) /\ req[r] \in Locals /\ LocalsOK(req[r]) /\ NotedWrites(pend[r])
         /\ \A p \in Payments : NotedBucket(p, SeenBuckets(pend[r])[p]) /\ SeenBuckets(pend[r])[p] \in BucketRow
<1>1. WritesOK(pend[r]) /\ req[r] \in Locals /\ LocalsOK(req[r])
  BY Context DEF WritesFit
<1>2. NotedWrites(pend[r]) /\ \A p \in Payments : NotedBucket(p, bucket[p])
  BY DEF NInv
<1>3. \A p \in Payments : SeenBuckets(pend[r])[p] = IF p \in DOMAIN pend[r].bucket THEN pend[r].bucket[p] ELSE bucket[p]
  BY <1>1, SeenAt
<1>4. \A p \in Payments : SeenBuckets(pend[r])[p] \in BucketRow
  BY <1>1, SeenAt
<1> QED
  BY <1>1, <1>2, <1>3, <1>4 DEF NotedWrites

LEMMA PassNoted ==
  ASSUME NEW w, WritesOK(w), NotedWrites(w), NEW e, NEW row, NotedPass(row), NEW v, v = [w EXCEPT !.pass = Patch(@, e, row)]
  PROVE  NotedWrites(v)
<1>1. v.pass = Patch(w.pass, e, row) /\ v.bucket = w.bucket
  BY DEF WritesOK
<1> QED
  BY <1>1 DEF NotedWrites, Patch

LEMMA BucketNoted ==
  ASSUME NEW w, WritesOK(w), NotedWrites(w), NEW p, NEW row, NotedBucket(p, row), NEW v, v = [w EXCEPT !.bucket = Patch(@, p, row)]
  PROVE  NotedWrites(v)
<1>1. v.bucket = Patch(w.bucket, p, row) /\ v.pass = w.pass
  BY DEF WritesOK
<1> QED
  BY <1>1 DEF NotedWrites, Patch

LEMMA OtherNoted ==
  ASSUME NEW w, WritesOK(w), NotedWrites(w), NEW f, NEW v, v = [w EXCEPT !.wallet = TRUE] \/ v = [w EXCEPT !.payment = f]
  PROVE  NotedWrites(v)
  BY DEF NotedWrites, WritesOK

LEMMA NewBucketNoted == ASSUME NEW p, NEW seq, NEW amount, NEW t PROVE NotedBucket(p, NewBucket(seq, amount, t))
<1>1. NewBucket(seq, amount, t).adjusted = 0 /\ NewBucket(seq, amount, t).status = "ACTIVE"
  BY DEF NewBucket, NoBucketRow
<1> QED
  BY <1>1 DEF NotedBucket

LEMMA BeginNotes ==
  ASSUME OneAtATime, IInv, JInv, SInv, NInv, NEW r \in Requests, Begin(r)
  PROVE  NInv'
<1>1. ASSUME NEW p \in Payments, AdminGrant(r, p) PROVE NInv'
  <2> DEFINE paid == [payment[p] EXCEPT !.status = "APPROVED", !.decisions = @ + 1]
             credits == NewBucket(0, PackCredits, CreditExpiryAt(now))
             w == [NoWrites EXCEPT !.payment = Patch(@, p, paid), !.bucket = Patch(@, p, credits), !.wallet = TRUE]
  <2>1. Commit(r, w, Reconciling)
    BY <1>1 DEF AdminGrant
  <2> HIDE DEF paid
  <2>2. NotedBucket(p, credits)
    BY NewBucketNoted
  <2> HIDE DEF credits
  <2>3. DOMAIN w.pass = {} /\ DOMAIN w.bucket = {p} /\ w.bucket[p] = credits
    BY DEF NoWrites, Patch
  <2>4. NotedWrites(w)
    BY <2>2, <2>3 DEF NotedWrites
  <2> HIDE DEF w
  <2> QED
    BY <2>1, <2>4, EndsIdle, EndNotes
<1>2. ASSUME NEW p \in Payments, NEW op, ReadPending(r, p, op) PROVE \E q : q.pc # "clawback" /\ Stage(r, NoWrites, q)
  BY <1>2 DEF ReadPending, Idle
<1>3. ASSUME NEW p \in Payments, NEW count, NEW allow, NEW status, ReadRefund(r, p, count, allow, status)
      PROVE  \E q : q.pc # "clawback" /\ Stage(r, NoWrites, q)
  <2> DEFINE q == [Idle EXCEPT !.op = "refund", !.pay = p, !.refund = status]
             first(x, T) == [q EXCEPT !.pc = "cancelPass", !.item = x, !.todo = T]
             other(pc) == [q EXCEPT !.pc = pc]
  <2>1. /\ \A x, T : first(x, T).pc = "cancelPass"
        /\ other("finishRefund").pc = "finishRefund" /\ other("readPack").pc = "readPack"
    BY DEF Idle
  <2>2. \/ \E x, T : Stage(r, NoWrites, first(x, T))
        \/ Stage(r, NoWrites, other("finishRefund")) \/ Stage(r, NoWrites, other("readPack"))
    BY <1>3, ZenonT(60) DEF ReadRefund
  <2> HIDE DEF first, other
  <2> QED
    BY <2>1, <2>2
<1>4. ASSUME BeginRead(r) PROVE \E q : q.pc # "clawback" /\ Stage(r, NoWrites, q)
  BY <1>4 DEF BeginRead, Reconciling, Idle
<1>5. ASSUME NEW amount, BeginUse(r, amount) PROVE \E q : q.pc # "clawback" /\ Stage(r, NoWrites, q)
  BY <1>5 DEF BeginUse, Reconciling, Idle
<1>6. (\E q : q.pc # "clawback" /\ Stage(r, NoWrites, q)) => NInv'
  BY EndsStaged, EndNotes, NothingNoted
<1> QED
  BY <1>1, <1>2, <1>3, <1>4, <1>5, <1>6 DEF Begin

LEMMA DecideNotes == ASSUME IInv, NInv, NEW r \in Requests, Decide(r) PROVE NInv'
<1> DEFINE p == req[r].pay
           decided == [payment[p] EXCEPT !.status = Verdict[req[r].op], !.decisions = @ + 1]
           w == [NoWrites EXCEPT !.payment = Patch(@, p, decided)]
           n(end) == [req[r] EXCEPT !.pc = "provision", !.latest = end]
<1>1. \/ Rollback(r, Idle) \/ Commit(r, w, Idle) \/ Commit(r, w, Reconciling)
      \/ \E end : Stage(r, w, n(end))
  BY DEF Decide, ApproveInTransaction
<1>2. \A end : n(end).pc = "provision"
  BY NotesNow DEF Locals
<1> HIDE DEF n, decided
<1>3. NotedWrites(w)
  BY DEF NotedWrites, NoWrites
<1> HIDE DEF w
<1>4. Ends(r, w)
  BY <1>1, <1>2, EndsIdle, EndsStaged
<1> QED
  BY <1>3, <1>4, EndNotes

LEMMA ProvisionNotes == ASSUME IInv, JInv, SInv, NInv, NEW r \in Requests, Provision(r) PROVE NInv'
<1> DEFINE p == req[r].pay
           made == ProvisionedPasses(req[r].latest, req[r].at)
           first == NewBucket(1, PassCredits, made[1].endsAt)
           pack == NewBucket(0, PackCredits, CreditExpiryAt(req[r].at))
           w == [pend[r] EXCEPT !.wallet = TRUE]
           rowsOf == [e \in {p} \X (1..PassCount) |-> made[e[2]]]
           buckets == IF req[r].latest = -1 THEN Patch(w.bucket, p, first) ELSE w.bucket
           passed == [w EXCEPT !.pass = rowsOf, !.bucket = buckets]
           packed == [w EXCEPT !.bucket = Patch(@, p, pack)]
<1>1. Commit(r, passed, Reconciling) \/ Commit(r, packed, Reconciling)
  BY DEF Provision
<1>2. WritesOK(w) /\ NotedWrites(w)
  BY NotesNow, OtherNoted, Context, WriteWallet DEF WritesFit
<1>3. \A n \in 1..PassCount : made[n].weight = 0
  BY DEF ProvisionedPasses, NoPassRow
<1>4. NotedBucket(p, first) /\ NotedBucket(p, pack)
  BY NewBucketNoted
<1> HIDE DEF made, first, pack, w
<1>5. NotedWrites(packed)
  BY <1>2, <1>4, BucketNoted
<1>6. NotedWrites(passed)
  <2>1. passed.pass = rowsOf /\ passed.bucket = buckets
    BY <1>2 DEF WritesOK
  <2>2. \A e \in DOMAIN rowsOf : rowsOf[e].weight = 0
    BY <1>3
  <2>3. \A o \in DOMAIN buckets : NotedBucket(o, buckets[o])
    BY <1>2, <1>4 DEF NotedWrites, Patch
  <2> HIDE DEF rowsOf, buckets, passed
  <2> QED
    BY <2>1, <2>2, <2>3 DEF NotedWrites, NotedPass, Whole
<1> HIDE DEF passed, packed
<1> QED
  BY <1>1, <1>5, <1>6, EndsIdle, EndNotes

\* A month gives back a part of its price, and is noted once.
LEMMA RevokedPass ==
  ASSUME NEW row \in PassRow, row.weight = 0, NEW part \in 0..Whole
  PROVE  NotedPass([row EXCEPT !.status = "CANCELED", !.revoked = @ + 1, !.weight = @ + part])
<1> DEFINE new == [row EXCEPT !.status = "CANCELED", !.revoked = @ + 1, !.weight = @ + part]
<1>1. Whole \in Nat /\ part \in Nat
  BY DEF Whole
<1>2. 0 + part = part /\ part <= Whole
  BY <1>1
<1>3. new.status = "CANCELED" /\ new.weight = 0 + part
  BY DEF PassRow
<1> HIDE DEF new
<1>4. NotedPass(new)
  BY <1>2, <1>3 DEF NotedPass
<1> QED
  BY <1>4 DEF new

LEMMA CancelPassNotes == ASSUME IInv, JInv, SInv, NInv, NEW r \in Requests, CancelPass(r) PROVE NInv'
<1> DEFINE e == req[r].item.pass
           part == RefundWeight(pass[e], req[r].item.was, now)
           row == [pass[e] EXCEPT !.status = "CANCELED", !.revoked = @ + 1, !.weight = @ + part]
           w == [pend[r] EXCEPT !.pass = Patch(@, e, row)]
           credits == View(bucket, w.bucket)[e[1]]
           n == [req[r] EXCEPT !.pc = "clawback", !.amount = credits.remaining]
<1>1. req[r].pc = "cancelPass" /\ req[r].pc \in RefundPcs /\ req[r].pay = e[1] /\ req[r].item \in PassItems
  BY Claims DEF CancelPass, RequestFits, RefundPcs, Refunding, LocalsOK, AtPass
<1>2. WritesOK(pend[r]) /\ req[r] \in Locals /\ NotedWrites(pend[r])
  BY NotesNow
<1>3. e \in PassIds /\ Open(e) /\ pass[e] \in PassRow /\ now \in Nat /\ e[1] \in PassPayments
  <2>1. e \in PassIds /\ Open(e)
    BY <1>1, RefundNow DEF RefundHand, Targets
  <2> QED
    BY <2>1 DEF IInv, TypeOK, PassIds
<1>4. pass[e].weight = 0
  BY <1>3 DEF NInv, NotedPass, Open
<1>5. part \in 0..Whole
  BY <1>3, RefundWeightIsPart
<1> HIDE DEF part
<1>7. NotedPass(row)
  BY <1>3, <1>4, <1>5, RevokedPass
<1> HIDE DEF row
<1>8. NotedWrites(w)
  BY <1>2, <1>7, PassNoted
<1>9. Stage(r, w, n) \/ NextTarget(r, w)
  BY DEF CancelPass, w, row, part
<1>10. NotedHand(n)
  <2>1. n.pay = req[r].pay
    BY <1>2 DEF Locals
  <2> QED
    BY <1>1, <1>3, <2>1 DEF NotedHand
<1> HIDE DEF w, n
<1> QED
  BY <1>2, <1>8, <1>9, <1>10, StageNotes, EndsTarget, EndNotes

LEMMA ReadPackNotes == ASSUME IInv, NInv, NEW r \in Requests, ReadPack(r) PROVE NInv'
<1> DEFINE n == [req[r] EXCEPT !.pc = "clawback", !.amount = bucket[req[r].pay].remaining]
<1>1. NotedWrites(pend[r]) /\ req[r] \in Locals
  BY NotesNow
<1>2. Rollback(r, Idle) \/ (bucket[req[r].pay].remaining > 0 /\ Stage(r, pend[r], n))
  BY DEF ReadPack
<1>3. n.amount = bucket[req[r].pay].remaining
  BY <1>1 DEF Locals
<1> HIDE DEF n
<1> QED
  BY <1>1, <1>2, <1>3, EndsIdle, EndNotes, StageNotes DEF NotedHand

LEMMA ClawbackNotes == ASSUME IInv, JInv, SInv, NInv, NEW r \in Requests, Clawback(r) PROVE NInv'
<1> DEFINE p == req[r].pay
           old == View(bucket, pend[r].bucket)[p]
           cleared == [old EXCEPT !.status = "CANCELED", !.remaining = 0,
                           !.adjusted = @ + req[r].amount, !.revoked = @ + 1]
           w == [pend[r] EXCEPT !.bucket = Patch(@, p, cleared)]
           n == [req[r] EXCEPT !.pc = "adjustLedger"]
<1>1. req[r].pc = "clawback"
  BY DEF Clawback
<1>2. WritesOK(pend[r]) /\ req[r] \in Locals /\ NotedWrites(pend[r]) /\ LocalsOK(req[r])
  BY NotesNow
<1>3. p \in Payments /\ req[r].amount \in Nat
  BY <1>1, <1>2 DEF LocalsOK, AtPayment, Locals
<1>4. old \in BucketRow
  BY <1>3, NotesNow DEF SeenBuckets
<1> HIDE DEF old
<1>5. cleared.status = "CANCELED" /\ cleared.adjusted = old.adjusted + req[r].amount /\ old.adjusted \in Nat
  BY <1>4 DEF BucketRow
<1> HIDE DEF cleared
<1>6. p \notin PassPayments => req[r].amount > 0
  BY <1>1 DEF NInv, NotedHand
<1>7. NotedBucket(p, cleared)
  BY <1>3, <1>5, <1>6 DEF NotedBucket
<1>8. NotedWrites(w)
  BY <1>2, <1>7, BucketNoted
<1>9. Stage(r, w, n) \/ NextTarget(r, w)
  BY DEF Clawback, w, cleared, old
<1>10. n.pc # "clawback"
  BY <1>2 DEF Locals
<1> HIDE DEF w, n
<1> QED
  BY <1>2, <1>8, <1>9, <1>10, EndsStaged, EndsTarget, EndNotes

LEMMA WalletNotes ==
  ASSUME IInv, NInv, NEW r \in Requests,
         AdjustLedger(r) \/ ExpireLedger(r) \/ CloseReconcile(r) \/ FinishRefund(r)
  PROVE  NInv'
<1> DEFINE w == [pend[r] EXCEPT !.wallet = TRUE]
           v == [pend[r] EXCEPT !.payment = Patch(@, req[r].pay, [payment[req[r].pay] EXCEPT !.refund = req[r].refund])]
           done == [req[r] EXCEPT !.pc = "closeReconcile", !.item = NoItem]
           next(x) == [req[r] EXCEPT !.pc = "expireBucket", !.item = x, !.todo = @ \ {x}]
           use == [req[r] EXCEPT !.pc = "readCredits", !.at = 0]
<1>1. WritesOK(pend[r]) /\ req[r] \in Locals /\ NotedWrites(pend[r])
  BY NotesNow
<1>2. NotedWrites(w) /\ NotedWrites(v)
  BY <1>1, OtherNoted
<1>3. done.pc = "closeReconcile" /\ use.pc = "readCredits" /\ \A x : next(x).pc = "expireBucket"
  BY <1>1 DEF Locals
<1>4. \/ NextTarget(r, w)
      \/ Stage(r, w, done) \/ \E x : Stage(r, w, next(x))
      \/ Commit(r, w, use) \/ Commit(r, w, Idle) \/ Commit(r, v, Reconciling)
  BY ZenonT(60) DEF AdjustLedger, ExpireLedger, CloseReconcile, FinishRefund
<1> HIDE DEF w, v, done, next, use
<1>5. Ends(r, w) \/ Ends(r, v)
  BY <1>1, <1>3, <1>4, EndsTarget, EndsIdle, EndsStaged DEF Ends
<1> QED
  BY <1>2, <1>5, EndNotes

\* A pass that a reconcile moves on was not taken back.
LEMMA MovedPassNoted ==
  ASSUME IInv, SInv, NInv, NEW r \in Requests, req[r].pc \in {"expirePass", "activatePass"},
         NEW e, e = req[r].item.pass, NEW status
  PROVE  NotedPass([pass[e] EXCEPT !.status = status])
<1>1. req[r].pc \in ReconcilePcs
  BY DEF ReconcilePcs, GoingOn
<1>2. PICK P, B : P = SeenPasses(pend[r]) /\ B = SeenBuckets(pend[r])
  OBVIOUS
<1>3. /\ AllFit(P, B) /\ Reconciled(P, req[r].at) /\ ReconcileHand(req[r], P, B) /\ LocalsOK(req[r])
  BY <1>1, <1>2, ReconcileNow
<1>4. e \in PassIds
  BY <1>3 DEF LocalsOK, AtPass, PassItems
<1>5. P[e].status \in {"ACTIVE", "QUEUED"}
  BY <1>3 DEF ReconcileHand
<1>6. pass[e].revoked = 0
  BY <1>3, <1>4, <1>5 DEF AllFit, PassesFit, Reconciled
<1>7. pass[e].status # "CANCELED" /\ pass[e] \in PassRow
  BY <1>4, <1>6 DEF SInv, AllFit, PassesFit, IInv, TypeOK
<1>8. pass[e].weight = 0
  BY <1>4, <1>7 DEF NInv, NotedPass
<1>9. [pass[e] EXCEPT !.status = status].weight = 0
  BY <1>7, <1>8 DEF PassRow
<1> QED
  BY <1>9 DEF NotedPass, Whole

LEMMA ReconcileNotes ==
  ASSUME IInv, SInv, NInv, NEW r \in Requests, ReadDue(r) \/ ExpirePass(r) \/ ActivatePass(r)
  PROVE  NInv'
<1> DEFINE e == req[r].item.pass
           row(status) == [pass[e] EXCEPT !.status = status]
           w(status) == [pend[r] EXCEPT !.pass = Patch(@, e, row(status))]
           n == [req[r] EXCEPT !.pc = "grantIncluded"]
<1>1. WritesOK(pend[r]) /\ req[r] \in Locals /\ NotedWrites(pend[r])
  BY NotesNow
<1>2. CASE ReadDue(r)
  BY <1>1, <1>2, EndsGoOn, EndNotes DEF ReadDue
<1>3. CASE ExpirePass(r)
  <2>1. GoOn(r, w("EXPIRED")) /\ req[r].pc = "expirePass"
    BY <1>3 DEF ExpirePass
  <2>2. NotedPass(row("EXPIRED"))
    BY <2>1, MovedPassNoted
  <2> HIDE DEF row
  <2>3. NotedWrites(w("EXPIRED"))
    BY <1>1, <2>2, PassNoted
  <2> HIDE DEF w
  <2> QED
    BY <1>1, <2>1, <2>3, EndsGoOn, EndNotes
<1>4. CASE ActivatePass(r)
  <2>1. (GoOn(r, w("ACTIVE")) \/ Stage(r, w("ACTIVE"), n)) /\ req[r].pc = "activatePass"
    BY <1>4 DEF ActivatePass
  <2>2. NotedPass(row("ACTIVE"))
    BY <2>1, MovedPassNoted
  <2> HIDE DEF row
  <2>3. NotedWrites(w("ACTIVE"))
    BY <1>1, <2>2, PassNoted
  <2>4. n.pc = "grantIncluded"
    BY <1>1 DEF Locals
  <2> HIDE DEF w, n
  <2>5. Ends(r, w("ACTIVE"))
    BY <1>1, <2>1, <2>4, EndsGoOn, EndsStaged
  <2> QED
    BY <2>3, <2>5, EndNotes
<1> QED
  BY <1>2, <1>3, <1>4

LEMMA GrantIncludedNotes == ASSUME IInv, NInv, NEW r \in Requests, GrantIncluded(r) PROVE NInv'
<1> DEFINE e == req[r].item.pass
           fresh == NewBucket(e[2], PassCredits, View(pass, pend[r].pass)[e].endsAt)
           v == [pend[r] EXCEPT !.bucket = Patch(@, e[1], fresh)]
           w == [v EXCEPT !.wallet = TRUE]
<1>1. WritesOK(pend[r]) /\ req[r] \in Locals /\ NotedWrites(pend[r])
  BY NotesNow
<1>2. GoOn(r, w) \/ Rollback(r, Idle)
  BY DEF GrantIncluded
<1>3. NotedBucket(e[1], fresh)
  BY NewBucketNoted
<1> HIDE DEF fresh
<1>4. NotedWrites(v)
  BY <1>1, <1>3, BucketNoted
<1>5. NotedWrites(w)
  <2>1. w.pass = v.pass /\ w.bucket = v.bucket
    BY <1>1 DEF WritesOK
  <2> HIDE DEF v, w
  <2> QED
    BY <1>4, <2>1 DEF NotedWrites
<1> HIDE DEF v, w
<1>6. Ends(r, w)
  BY <1>1, <1>2, EndsGoOn, EndsIdle
<1> QED
  BY <1>5, <1>6, EndNotes

\* Credits that lapse or are used were not taken back.
LEMMA ExpireBucketNotes == ASSUME IInv, SInv, NInv, NEW r \in Requests, ExpireBucket(r) PROVE NInv'
<1> DEFINE p == req[r].item.bucket
           old == View(bucket, pend[r].bucket)[p]
           over == [old EXCEPT !.status = "EXPIRED", !.remaining = 0, !.expired = @ + req[r].item.amount]
           w == [pend[r] EXCEPT !.bucket = Patch(@, p, over)]
           n == [req[r] EXCEPT !.pc = "expireLedger"]
<1>1. req[r].pc = "expireBucket" /\ req[r].pc \in ReconcilePcs /\ Stage(r, w, n)
  BY DEF ExpireBucket, ReconcilePcs
<1>2. WritesOK(pend[r]) /\ req[r] \in Locals /\ NotedWrites(pend[r])
  BY NotesNow
<1>3. p \in Payments
  BY <1>1, ReconcileNow DEF LocalsOK, AtCredits, CreditItems
<1>4. old \in BucketRow /\ NotedBucket(p, old)
  BY <1>3, NotesNow DEF SeenBuckets
<1>5. old.status = "ACTIVE"
  BY <1>1, ReconcileNow DEF ReconcileHand, Lapsing, SeenBuckets
<1> HIDE DEF old
<1>6. over.status = "EXPIRED" /\ over.adjusted = old.adjusted
  BY <1>4 DEF BucketRow
<1> HIDE DEF over
<1>7. NotedBucket(p, over)
  BY <1>4, <1>5, <1>6 DEF NotedBucket
<1>8. NotedWrites(w)
  BY <1>2, <1>7, BucketNoted
<1>9. n.pc = "expireLedger"
  BY <1>2 DEF Locals
<1> HIDE DEF w, n
<1> QED
  BY <1>1, <1>8, <1>9, EndsStaged, EndNotes

LEMMA UseNotes ==
  ASSUME IInv, JInv, SInv, NInv, NEW r \in Requests, ReadCredits(r) \/ Spend(r) \/ UseLedger(r) \/ Conflict(r)
  PROVE  NInv'
<1> DEFINE again == [req[r] EXCEPT !.pc = "readCredits", !.item = NoItem, !.todo = {}, !.toUse = 0,
                                   !.tries = req[r].tries + 1]
<1>1. WritesOK(pend[r]) /\ req[r] \in Locals /\ NotedWrites(pend[r])
  BY NotesNow
<1>2. ASSUME Conflict(r) PROVE NInv'
  <2>1. again.pc = "readCredits"
    BY <1>1 DEF Locals
  <2>2. Rollback(r, again) \/ Rollback(r, Idle)
    BY <1>2 DEF Conflict
  <2> HIDE DEF again
  <2>3. Ends(r, NoWrites)
    BY <2>1, <2>2, EndsIdle DEF Ends
  <2> QED
    BY <2>3, NothingNoted, EndNotes
<1>3. CASE ReadCredits(r)
  <2> DEFINE n(x, T) == [req[r] EXCEPT !.pc = "spend", !.item = x, !.todo = T, !.toUse = req[r].amount]
  <2>1. Rollback(r, Idle) \/ \E x, T : Stage(r, NoWrites, n(x, T))
    BY <1>3, ZenonT(60) DEF ReadCredits
  <2>2. \A x, T : n(x, T).pc = "spend"
    BY <1>1 DEF Locals
  <2> HIDE DEF n
  <2>3. Ends(r, NoWrites)
    BY <2>1, <2>2, EndsIdle, EndsStaged
  <2> QED
    BY <2>3, NothingNoted, EndNotes
<1>4. CASE Spend(r)
  <2> DEFINE p == req[r].item.bucket
             left == req[r].item.amount - Take(req[r])
             row == [bucket[p] EXCEPT !.remaining = left, !.used = @ + Take(req[r]),
                                      !.status = IF left = 0 THEN "DEPLETED" ELSE "ACTIVE"]
             w == [pend[r] EXCEPT !.bucket = Patch(@, p, row)]
             n == [req[r] EXCEPT !.pc = "useLedger"]
  <2>1. Conflict(r) \/ Stage(r, w, n)
    BY <1>4 DEF Spend
  <2>2. req[r].pc = "spend" /\ InSnapshot(req[r])
    BY <1>4 DEF Spend, InSnapshot
  <2>3. bucket[p].status = "ACTIVE" /\ p \in Payments
    BY <2>2, SpendNow DEF SpendHand, CreditItems
  <2>4. bucket[p] \in BucketRow /\ NotedBucket(p, bucket[p])
    BY <2>3 DEF IInv, TypeOK, NInv
  <2> HIDE DEF left
  <2>5. row.adjusted = bucket[p].adjusted /\ row.status \in {"DEPLETED", "ACTIVE"}
    BY <2>4 DEF BucketRow
  <2> HIDE DEF row
  <2>6. NotedBucket(p, row)
    BY <2>3, <2>4, <2>5 DEF NotedBucket
  <2>7. NotedWrites(w)
    BY <1>1, <2>6, BucketNoted
  <2>8. n.pc = "useLedger"
    BY <1>1 DEF Locals
  <2> HIDE DEF w, n
  <2> QED
    BY <1>2, <2>1, <2>7, <2>8, EndsStaged, EndNotes
<1>5. CASE UseLedger(r)
  <2> DEFINE w == [pend[r] EXCEPT !.wallet = TRUE]
             left == req[r].toUse - Take(req[r])
             n(x) == [req[r] EXCEPT !.pc = "spend", !.item = x, !.todo = @ \ {x}, !.toUse = left]
  <2>1. Conflict(r) \/ Commit(r, w, Idle) \/ \E x : Stage(r, w, n(x))
    BY <1>5, ZenonT(60) DEF UseLedger
  <2> HIDE DEF left
  <2>2. \A x : n(x).pc = "spend"
    BY <1>1 DEF Locals
  <2>3. NotedWrites(w)
    BY <1>1, OtherNoted
  <2> HIDE DEF w, n
  <2> QED
    BY <1>2, <2>1, <2>2, <2>3, EndsIdle, EndsStaged, EndNotes
<1> QED
  BY <1>2, <1>3, <1>4, <1>5

LEMMA OutsideNotes == ASSUME NInv, UNCHANGED <<pass, bucket, req, pend>> PROVE NInv'
  BY DEF NInv, NotedWrites, NotedHand, NotedPass, NotedBucket

LEMMA NextKeepsNInv ==
  ASSUME OneAtATime
  PROVE  IInv /\ JInv /\ SInv /\ NInv /\ [Next]_vars => NInv'
<1> SUFFICES ASSUME IInv, JInv, SInv, NInv, [Next]_vars PROVE NInv'
  OBVIOUS
<1>1. ASSUME NEW r \in Requests, Begin(r) PROVE NInv'
  BY <1>1, BeginNotes
<1>2. ASSUME NEW r \in Requests, DeadlockAbort(r) \/ Fail(r) PROVE NInv'
  <2>1. Conflict(r) \/ Rollback(r, Idle)
    BY <1>2 DEF DeadlockAbort, Fail
  <2> QED
    BY <2>1, UseNotes, EndsIdle, NothingNoted, EndNotes
<1>3. ASSUME NEW r \in Requests, Step(r) PROVE NInv'
  BY <1>2, <1>3, DecideNotes, ProvisionNotes, CancelPassNotes, ReadPackNotes, ClawbackNotes, WalletNotes,
     ReconcileNotes, GrantIncludedNotes, ExpireBucketNotes, UseNotes DEF Step
<1>4. CASE Tick
  BY <1>4, OutsideNotes DEF Tick
<1>5. ASSUME NEW p \in Payments, Purchase(p) PROVE NInv'
  BY <1>5, OutsideNotes DEF Purchase
<1>6. CASE UNCHANGED vars
  BY <1>6, OutsideNotes DEF vars
<1> QED
  BY <1>1, <1>2, <1>3, <1>4, <1>5, <1>6 DEF Next, Work

LEMMA InitNInv == Init => NInv
<1> SUFFICES ASSUME Init PROVE NInv
  OBVIOUS
<1>1. \A e \in PassIds : NotedPass(pass[e])
  BY DEF Init, NoPassRow, NotedPass, Whole
<1>2. \A p \in Payments : NotedBucket(p, bucket[p])
  BY DEF Init, NoBucketRow, NotedBucket
<1>3. \A r \in Requests : pend[r] = NoWrites /\ req[r].pc = "idle"
  BY DEF Init, Idle
<1> QED
  BY <1>1, <1>2, <1>3, NothingNoted DEF NInv, NotedHand

LEMMA SpecNInv == ASSUME OneAtATime PROVE Spec => [](IInv /\ JInv /\ SInv /\ NInv)
  BY InitNInv, NextKeepsNInv, SpecSInv, PTL DEF Spec

-----------------------------------------------------------------------------
(***************************************************************************)
(* What a payment shows of its refund.                                     *)
(***************************************************************************)
LEMMA PassesFinite == IsFiniteSet(PassIds) /\ \A S \in SUBSET PassIds : IsFiniteSet(S) /\ Cardinality(S) \in Nat
<1>1. IsFiniteSet(PassPayments)
  BY BillingAssumption, FS_Subset DEF Payments
<1>2. IsFiniteSet(1..PassCount)
  BY BillingAssumption, FS_Interval
<1>3. IsFiniteSet(PassIds)
  BY <1>1, <1>2, FS_Product DEF PassIds
<1> QED
  BY <1>3, FS_Subset, FS_CardinalityType

\* The passes that were taken back are the canceled ones.
LEMMA RevokedAreCanceled ==
  ASSUME IInv, SInv, NEW p
  PROVE  RevokedPasses(p) = PassesOf(p, "CANCELED")
<1>1. \A e \in PassIds : pass[e].revoked = (IF pass[e].status = "CANCELED" THEN 1 ELSE 0)
  BY DEF SInv, AllFit, PassesFit
<1> QED
  BY <1>1 DEF RevokedPasses, PassesOf

LEMMA RevocationIsShown ==
  ASSUME IInv, JInv, SInv, NInv, NEW p \in Payments
  PROVE  ShowsRevocation(p) <=> HasRevocation(p)
<1>1. bucket[p].revoked > 0 <=> bucket[p].status = "CANCELED"
  BY DEF SInv, AllFit, LedgersFit, LedgerFits
<1>2. CASE p \in PassPayments
  <2>1. ASSUME bucket[p].status = "CANCELED" PROVE RevokedPasses(p) # {}
    <3> DEFINE e == <<p, bucket[p].seq>>
    <3>1. e \in PassIds /\ e[1] = p /\ pass[e].status = "CANCELED"
      BY <1>2, <2>1 DEF SInv, AllFit, CreditsFit, PassIds
    <3>2. e \in PassesOf(p, "CANCELED")
      BY <3>1 DEF PassesOf
    <3> QED
      BY <3>2, RevokedAreCanceled
  <2>2. RevokedPasses(p) # {} <=> \E e \in PassIds : e[1] = p /\ pass[e].revoked > 0
    BY DEF RevokedPasses
  <2> QED
    BY <1>1, <1>2, <2>1, <2>2 DEF ShowsRevocation, HasRevocation
<1>3. CASE p \notin PassPayments
  <2>1. \A e \in PassIds : e[1] # p
    BY <1>3 DEF PassIds
  <2>2. bucket[p].adjusted > 0 <=> bucket[p].status = "CANCELED"
    BY <1>3 DEF NInv, NotedBucket
  <2> QED
    BY <1>1, <1>3, <2>1, <2>2 DEF ShowsRevocation, HasRevocation
<1> QED
  BY <1>2, <1>3

\* A refund finds as many passes as the payment says can be revoked.
LEMMA TargetsCounted ==
  ASSUME IInv, SInv, NEW p \in PassPayments
  PROVE  IsFiniteSet(RefundTargets(p)) /\ Cardinality(RefundTargets(p)) = Revocable(p)
<1> DEFINE queued == PassesOf(p, "QUEUED")
           active == PassesOf(p, "ACTIVE")
           open == {f \in PassIds : f[1] = p /\ Open(f)}
           item(e) == PassItem(e, pass[e].status, RefundRank(e))
           f == [e \in open |-> item(e)]
<1>1. /\ IsFiniteSet(queued) /\ IsFiniteSet(active) /\ IsFiniteSet(open)
      /\ Cardinality(queued) \in Nat
  BY PassesFinite DEF PassesOf
<1>2. open = queued \cup active /\ queued \cap active = {}
  BY DEF PassesOf, Open
<1>3. Cardinality(active) = IF active = {} THEN 0 ELSE 1
  <2>1. CASE active = {}
    BY <2>1, FS_EmptySet
  <2>2. ASSUME NEW e \in active PROVE active = {e}
    BY <2>2 DEF SInv, AllFit, PassesFit, PassesOf
  <2> QED
    BY <2>1, <2>2, FS_Singleton
<1>4. Cardinality(open) = Cardinality(queued) + (IF active = {} THEN 0 ELSE 1)
  <2> HIDE DEF queued, active, open
  <2>1. Cardinality(queued \cup active) = Cardinality(queued) + Cardinality(active) - Cardinality(queued \cap active)
    BY <1>1, FS_Union
  <2>2. Cardinality(queued \cap active) = 0
    BY <1>2, FS_EmptySet
  <2> QED
    BY <1>1, <1>2, <1>3, <2>1, <2>2
<1>5. RefundTargets(p) = {item(e) : e \in open}
  BY DEF RefundTargets
<1>6. f \in Bijection(open, RefundTargets(p))
  <2>1. \A e : item(e).pass = e
    BY DEF PassItem
  <2> HIDE DEF item, open
  <2>2. f \in [open -> RefundTargets(p)]
    BY <1>5
  <2>3. \A d, e \in open : f[d] = f[e] => d = e
    BY <2>1
  <2>4. \A x \in RefundTargets(p) : \E e \in open : f[e] = x
    BY <1>5
  <2> QED
    BY <2>2, <2>3, <2>4, Zenon DEF Bijection, Injection, Surjection, IsInjective
<1>7. ExistsBijection(open, RefundTargets(p))
  BY <1>6 DEF ExistsBijection
<1>8. IsFiniteSet(RefundTargets(p)) /\ Cardinality(RefundTargets(p)) = Cardinality(open)
  BY <1>1, <1>7, FS_Bijection
<1> QED
  BY <1>4, <1>8 DEF Revocable

LEMMA RevocableIsExact ==
  ASSUME IInv, SInv, NEW p \in PassPayments, NEW n \in 1..PassCount
  PROVE  RefundChoices(RefundTargets(p), n) # {} <=> n <= Revocable(p)
<1>1. PICK T : T = RefundTargets(p)
  OBVIOUS
<1>2. IsFiniteSet(T) /\ Cardinality(T) = Revocable(p) /\ Cardinality(T) \in Nat
  BY <1>1, TargetsCounted, FS_CardinalityType
<1>3. \A x \in T : x.rank \in Int
  BY <1>1 DEF RefundTargets, PassItem, RefundRank, IInv, TypeOK, PassRow
<1>4. n \in Nat /\ n # 0
  BY BillingAssumption
<1>5. ASSUME NEW X \in RefundChoices(T, n) PROVE n <= Revocable(p)
  <2>1. X \in SUBSET T /\ n = Cardinality(X)
    BY <1>4 DEF RefundChoices
  <2> QED
    BY <1>2, <2>1, FS_Subset
<1>6. ASSUME n <= Revocable(p) PROVE RefundChoices(T, n) # {}
  <2> DEFINE f == [x \in T |-> x.rank]
  <2>1. f \in [T -> Int]
    BY <1>3
  <2>2. n \in 0..Cardinality(T)
    BY <1>2, <1>4, <1>6
  <2>3. PICK X \in SUBSET T : Cardinality(X) = n /\ Prefix(X, f, T)
    <3> HIDE DEF f
    <3> QED
      BY <1>2, <2>1, <2>2, PrefixExists
  <2>4. X # {}
    BY <1>4, <2>3, FS_EmptySet
  <2>5. \A x \in X, y \in T \ X : x.rank <= y.rank
    BY <2>3 DEF Prefix
  <2>6. X \in RefundChoices(T, n)
    BY <1>4, <2>3, <2>4, <2>5 DEF RefundChoices
  <2> QED
    BY <2>6
<1> QED
  BY <1>1, <1>5, <1>6

\* What counts as used was used or lapsed.
LEMMA UsedIsExact ==
  ASSUME IInv, SInv, NEW p \in Payments
  PROVE  /\ UsedCredits(p) = bucket[p].used + bucket[p].expired
         /\ UsedCredits(p) + bucket[p].adjusted <= bucket[p].granted
<1>1. bucket[p] \in BucketRow /\ LedgerFits(bucket[p])
  BY DEF SInv, AllFit, LedgersFit, IInv, TypeOK
<1> QED
  BY <1>1 DEF BucketRow, LedgerFits, UsedCredits

\* The arithmetic of shares.
LEMMA Quotient ==
  ASSUME NEW a \in Nat, NEW b \in Nat \ {0}
  PROVE  a \div b \in Nat /\ (a \div b) * b <= a
<1>1. a = b * (a \div b) + (a % b) /\ 0 <= a % b /\ a \div b \in Int
  OBVIOUS
<1>2. a \div b \in Nat
  OBVIOUS
<1> QED
  BY <1>1, <1>2

LEMMA CancelsOut ==
  ASSUME NEW a \in Nat, NEW b \in Nat, NEW c \in Nat \ {0}, a * c <= b * c
  PROVE  a <= b
<1> SUFFICES ASSUME b + 1 <= a PROVE FALSE
  OBVIOUS
<1>1. (b + 1) * c <= a * c
  BY TimesMore
<1>2. (b + 1) * c = b * c + c
  OBVIOUS
<1>3. b * c \in Nat /\ a * c \in Nat
  BY Product
<1> QED
  BY <1>1, <1>2, <1>3

\* What the estimate adds up is at most the whole of each canceled month.
LEMMA WeightsAdd ==
  ASSUME IInv, NInv, NEW R \in SUBSET PassIds
  PROVE  LET sum == MapThenSumSet(LAMBDA e : pass[e].weight, R) IN sum \in Nat /\ sum <= Whole * Cardinality(R)
<1> DEFINE f == [e \in R |-> pass[e].weight]
           iter == CHOOSE g : g = [s \in SUBSET R |-> IF s = {} THEN 0 ELSE pass[CHOOSE x \in s : TRUE].weight
                                                                            + g[s \ {CHOOSE x \in s : TRUE}]]
<1>1. IsFiniteSet(R)
  BY PassesFinite
<1>2. f \in [R -> Nat] /\ \A x \in R : f[x] <= Whole
  BY DEF NInv, NotedPass, IInv, TypeOK, PassRow
<1>3. MapThenSumSet(LAMBDA e : pass[e].weight, R) = iter[R]
  BY DEF MapThenSumSet, MapThenFoldSet
<1>4. \A s \in SUBSET R : s # {} => f[Pick(s)] = pass[CHOOSE x \in s : TRUE].weight
  BY PickIn DEF Pick
<1> HIDE DEF f
<1>5. \A g : Sums(g, f, R) <=> g = [s \in SUBSET R |-> IF s = {} THEN 0 ELSE pass[CHOOSE x \in s : TRUE].weight
                                                                          + g[s \ {CHOOSE x \in s : TRUE}]]
  BY <1>4 DEF Sums, Pick, Rest
<1>6. Sums(iter, f, R)
  <2>1. \E g : Sums(g, f, R)
    BY <1>1, SumsExist
  <2> QED
    BY <1>5, <2>1
<1> HIDE DEF iter
<1>7. iter[R] = Total(f, R)
  <2>1. PICK g : Sums(g, f, R) /\ Total(f, R) = g[R]
    BY <1>1, SumIsSums
  <2> QED
    BY <1>1, <1>6, <2>1, SumsAgree
<1>8. Total(f, R) \in Nat
  BY <1>1, <1>2, SumOfNats
<1>9. Whole \in Nat
  BY DEF Whole
<1>10. Total(f, R) <= Whole * Cardinality(R)
  BY <1>1, <1>2, <1>9, SumIsBounded
<1> QED
  BY <1>3, <1>7, <1>8, <1>10

LEMMA PassEstimate ==
  ASSUME IInv, SInv, NInv, NEW p \in PassPayments, NEW amount \in EstimatedRefund(p)
  PROVE  amount >= 0 /\ amount * PassCount <= Price * Cardinality(PassesOf(p, "CANCELED"))
<1> DEFINE sum == MapThenSumSet(LAMBDA e : pass[e].weight, RevokedPasses(p))
<1>1. RevokedPasses(p) \in SUBSET PassIds /\ RevokedPasses(p) = PassesOf(p, "CANCELED")
  BY RevokedAreCanceled DEF RevokedPasses
<1>2. PICK c : c = Cardinality(PassesOf(p, "CANCELED"))
  OBVIOUS
<1>3. c \in Nat /\ PassCount \in Nat \ {0} /\ Price \in Nat /\ Whole \in Nat \ {0}
  BY <1>1, <1>2, PassesFinite, BillingAssumption, PriceAssumption DEF Whole
<1>4. sum \in Nat /\ sum <= Whole * c
  BY <1>1, <1>2, WeightsAdd
<1>5. amount = (Price * sum) \div (PassCount * Whole)
  BY DEF EstimatedRefund
<1> HIDE DEF sum
<1>6. Price * sum \in Nat /\ PassCount * Whole \in Nat \ {0} /\ Whole * c \in Nat
  BY <1>3, <1>4, Product, PositiveProduct
<1>7. amount \in Nat /\ amount * (PassCount * Whole) <= Price * sum
  BY <1>5, <1>6, Quotient
<1>8. Price * sum <= Price * (Whole * c)
  <2>1. sum * Price <= (Whole * c) * Price
    BY <1>3, <1>4, <1>6, TimesMore
  <2>2. sum * Price = Price * sum /\ (Whole * c) * Price = Price * (Whole * c)
    BY <1>3, <1>4, <1>6
  <2> QED
    BY <2>1, <2>2
<1>9. (amount * PassCount) * Whole <= (Price * c) * Whole
  <2>1. amount * (PassCount * Whole) = (amount * PassCount) * Whole
    BY <1>3, <1>7
  <2>2. Price * (Whole * c) = (Price * c) * Whole
    BY <1>3
  <2>3. (amount * PassCount) * Whole \in Nat /\ (Price * c) * Whole \in Nat
    BY <1>3, <1>7, Product
  <2> QED
    BY <1>6, <1>7, <1>8, <2>1, <2>2, <2>3
<1>10. amount * PassCount \in Nat /\ Price * c \in Nat
  BY <1>3, <1>7, Product
<1> QED
  BY <1>2, <1>3, <1>7, <1>9, <1>10, CancelsOut

LEMMA PackEstimate ==
  ASSUME IInv, SInv, NInv, NEW p \in Payments \ PassPayments, NEW amount \in EstimatedRefund(p)
  PROVE  amount * bucket[p].granted + Price * UsedCredits(p) <= Price * bucket[p].granted
<1> DEFINE b == bucket[p]
<1>1. b \in BucketRow /\ b.granted \in Nat /\ b.adjusted \in Nat /\ Price \in Nat /\ b.used \in Nat /\ b.expired \in Nat
  BY PriceAssumption DEF IInv, TypeOK, BucketRow
<1>2. b.adjusted # 0 /\ amount = (Price * b.adjusted) \div b.granted
  BY DEF EstimatedRefund
<1>3. UsedCredits(p) \in Nat /\ UsedCredits(p) + b.adjusted <= b.granted
  BY <1>1, UsedIsExact
<1>4. PICK g, a, u : g = b.granted /\ a = b.adjusted /\ u = UsedCredits(p)
  OBVIOUS
<1> HIDE DEF b
<1>5. g \in Nat \ {0} /\ a \in Nat /\ u \in Nat /\ u + a \in Nat /\ u + a <= g /\ amount = (Price * a) \div g
  BY <1>1, <1>2, <1>3, <1>4
<1>6. Price * a \in Nat
  BY <1>1, <1>5, Product
<1>7. amount \in Nat /\ amount * g <= Price * a
  BY <1>5, <1>6, Quotient
<1>8. (u + a) * Price <= g * Price
  BY <1>1, <1>5, TimesMore
<1>9. (u + a) * Price = Price * u + Price * a /\ g * Price = Price * g
  BY <1>1, <1>5
<1>10. amount * g \in Nat /\ Price * u \in Nat /\ Price * g \in Nat
  BY <1>1, <1>5, <1>7, Product
<1>11. amount * g + Price * u <= Price * g
  BY <1>6, <1>7, <1>8, <1>9, <1>10
<1> QED
  BY <1>4, <1>11 DEF b

\* What a payment says of its refund fits what happened to it: it says that something was taken back and
\* how much more can be exactly as the next refund finds it, and the estimate never pays for a month
\* that was not taken back nor for credits that were used.
THEOREM RefundsAreExact == ASSUME OneAtATime PROVE Spec => []RefundFitsUse
<1>1. IInv /\ JInv /\ SInv /\ NInv => RefundFitsUse
  <2> SUFFICES ASSUME IInv, JInv, SInv, NInv PROVE RefundFitsUse
    OBVIOUS
  <2>1. \A p \in Payments : ShowsRevocation(p) <=> HasRevocation(p)
    BY RevocationIsShown
  <2>2. \A p \in PassPayments, n \in 1..PassCount : RefundChoices(RefundTargets(p), n) # {} <=> n <= Revocable(p)
    BY RevocableIsExact
  <2>3. \A p \in Payments : UsedCredits(p) = bucket[p].used + bucket[p].expired
    BY UsedIsExact
  <2>4. \A p \in PassPayments : \A amount \in EstimatedRefund(p) :
          amount >= 0 /\ amount * PassCount <= Price * Cardinality(PassesOf(p, "CANCELED"))
    BY PassEstimate
  <2>5. \A p \in Payments \ PassPayments : \A amount \in EstimatedRefund(p) :
          amount * bucket[p].granted + Price * UsedCredits(p) <= Price * bucket[p].granted
    BY PackEstimate
  <2> QED
    BY <2>1, <2>2, <2>3, <2>4, <2>5, Zenon DEF RefundFitsUse
<1> QED
  BY <1>1, SpecNInv, PTL
=============================================================================
