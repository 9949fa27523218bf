-------------------------- MODULE SchedulerProofs --------------------------
(***************************************************************************)
(* Proofs about Scheduler: for any number of processes and any schedules,  *)
(* every variable keeps its type, and a process that the row names as the  *)
(* holder of the lease has no other run of the job than the one it took    *)
(* the lease for.                                                          *)
(***************************************************************************)
EXTENDS Scheduler, TLAPS

\* A process that has read its configuration has a schedule; one that has not, or has ended,
\* runs nothing.
Configured(w) == worker[w].period \in Periods
Silent(w) ==
    /\ worker[w].phase \in {"new", "gone"} /\ ~worker[w].listed
    /\ \A s \in Slots : run[w][s] = NoRun

OneRun(w) == \A s, o \in Slots : Active(w, s) /\ Active(w, o) => s = o

IInv ==
    /\ TypeOK
    /\ \A w \in Workers : Configured(w) \/ Silent(w)
    /\ \A w \in Workers : OneRun(w)
    /\ LeaseIsOfRun

-----------------------------------------------------------------------------
LEMMA Product == ASSUME NEW a \in Nat, NEW b \in Nat PROVE a * b \in Nat
  OBVIOUS

LEMMA Occurrences ==
  ASSUME NEW period \in Nat \ {0}, NEW t \in Nat
  PROVE  NextOccurrence(period, t) \in Nat /\ FirstOccurrence(period, t) \in Nat
<1>1. (t \div period) + 1 \in Nat /\ (t + period - 1) \div period \in Nat
  OBVIOUS
<1> QED
  BY <1>1, Product DEF NextOccurrence, FirstOccurrence

LEMMA NullRecords == NoRow \in RowType /\ NewWorker \in WorkerType /\ NoRun \in RunType
  BY SchedulerAssumption DEF NoRow, RowType, Never, NewWorker, WorkerType, NoRun, RunType

LEMMA Typed ==
  ASSUME IInv, NEW w \in Workers, NEW s \in Slots
  PROVE  /\ now \in Nat /\ row \in RowType /\ worker[w] \in WorkerType /\ run[w][s] \in RunType
         /\ Ended(w, s) \in RunType /\ Ended(w, s).phase = "none"
         /\ run[w][s] # NoRun => Configured(w)
<1>1. run[w][s] \in RunType
  BY DEF IInv, TypeOK
<1>2. Ended(w, s) \in RunType /\ Ended(w, s).phase = "none"
  BY <1>1 DEF Ended, NoRun, RunType
<1> QED
  BY <1>1, <1>2, SchedulerAssumption DEF IInv, TypeOK, Silent

\* What a step of a run may do to the row: leave the lease, give it up, or take it for itself.
KeepsLease(w, s, q) ==
    /\ row'.lockedBy = row.lockedBy /\ row'.leasedFor = row.leasedFor
    /\ q.phase \in {"handler", "succeed", "fail"} => run[w][s].phase \in {"handler", "succeed", "fail"}
TakesLease(w, s) == row'.lockedBy = w /\ row'.leasedFor = s /\ Active(w, s)

\* A step of one run, whatever else it does, keeps the invariant.
LEMMA RunChange ==
  ASSUME IInv, NEW w \in Workers, NEW s \in Slots, NEW q \in RunType, Configured(w),
         SetRun(w, s, q), row' \in RowType, UNCHANGED now,
         worker' = worker \/ worker' = [worker EXCEPT ![w].listed = FALSE],
         q.phase = "none" \/ Active(w, s) \/ ~Running(w),
         KeepsLease(w, s, q) \/ row'.lockedBy = Nobody \/ TakesLease(w, s)
  PROVE  IInv'
<1>1. run' \in [Workers -> [Slots -> RunType]] /\ worker' \in [Workers -> WorkerType]
  <2>1. run' \in [Workers -> [Slots -> RunType]]
    BY DEF SetRun, IInv, TypeOK
  <2>2. worker' \in [Workers -> WorkerType]
    <3>1. worker \in [Workers -> WorkerType]
      BY DEF IInv, TypeOK
    <3>2. [worker[w] EXCEPT !.listed = FALSE] \in WorkerType
      BY <3>1 DEF WorkerType
    <3> QED
      BY <3>1, <3>2
  <2> QED
    BY <2>1, <2>2
<1>2. TypeOK'
  BY <1>1 DEF IInv, TypeOK
<1>3. \A v \in Workers : worker'[v].period = worker[v].period /\ (worker'[v].listed => worker[v].listed)
                           /\ worker'[v].phase = worker[v].phase
  BY SMTT(60) DEF IInv, TypeOK, WorkerType
<1>4. \A v \in Workers, o \in Slots : run'[v][o] = IF v = w /\ o = s THEN q ELSE run[v][o]
  BY DEF SetRun, IInv, TypeOK
<1>5. \A v \in Workers : (Configured(v) \/ Silent(v))'
  BY <1>3, <1>4 DEF Configured, Silent, IInv
<1>6. \A v \in Workers : OneRun(v)'
  BY <1>4 DEF OneRun, Active, Running, IInv
<1>7. LeaseIsOfRun'
  <2>1. CASE KeepsLease(w, s, q)
    BY <1>4, <2>1 DEF KeepsLease, LeaseIsOfRun, IInv
  <2>2. CASE row'.lockedBy = Nobody
    BY <2>2, SchedulerAssumption DEF LeaseIsOfRun
  <2>3. CASE TakesLease(w, s)
    BY <1>4, <2>3 DEF TakesLease, LeaseIsOfRun, IInv, OneRun, Active
  <2> QED
    BY <2>1, <2>2, <2>3
<1> QED
  BY <1>2, <1>5, <1>6, <1>7 DEF IInv

-----------------------------------------------------------------------------
LEMMA InitIInv == Init => IInv
<1> SUFFICES ASSUME Init PROVE IInv
  OBVIOUS
<1>1. TypeOK
  BY NullRecords, SchedulerAssumption DEF Init, TypeOK
<1>2. \A w \in Workers : Silent(w)
  BY DEF Init, Silent, NewWorker
<1>3. \A w \in Workers, s \in Slots : run[w][s].phase = "none"
  BY DEF Init, NoRun
<1> QED
  BY <1>1, <1>2, <1>3 DEF IInv, OneRun, Active, LeaseIsOfRun

LEMMA StutterIInv == ASSUME IInv, UNCHANGED vars PROVE IInv'
  BY DEF vars, IInv, TypeOK, Configured, Silent, OneRun, Active, LeaseIsOfRun

\* A step that leaves the runs alone and does not move the lease keeps the invariant.
LEMMA ProcessChange ==
  ASSUME IInv, NEW w \in Workers, NEW p \in WorkerType, SetWorker(w, p), UNCHANGED <<now, run>>,
         row' \in RowType, row'.lockedBy = Nobody \/ (row'.lockedBy = row.lockedBy /\ row'.leasedFor = row.leasedFor),
         p.period \in Periods
  PROVE  IInv'
<1>1. worker' \in [Workers -> WorkerType] /\ worker'[w] = p /\ \A v \in Workers \ {w} : worker'[v] = worker[v]
  BY DEF SetWorker, IInv, TypeOK
<1>2. TypeOK'
  BY <1>1 DEF IInv, TypeOK
<1>3. \A v \in Workers : (Configured(v) \/ Silent(v))'
  BY <1>1 DEF IInv, Configured, Silent
<1>4. \A v \in Workers : OneRun(v)'
  BY DEF IInv, OneRun, Active
<1>5. LeaseIsOfRun'
  BY SchedulerAssumption DEF IInv, LeaseIsOfRun
<1> QED
  BY <1>2, <1>3, <1>4, <1>5 DEF IInv

LEMMA StartIInv == ASSUME IInv, NEW w \in Workers, Start(w) PROVE IInv'
<1>1. PICK period \in Periods :
        SetWorker(w, [worker[w] EXCEPT !.phase = "starting", !.period = period, !.at = now,
                          !.saw = IF ~row.exists THEN "nothing"
                                  ELSE IF row.period = period THEN "same" ELSE "other"])
  BY DEF Start
<1> DEFINE p == [worker[w] EXCEPT !.phase = "starting", !.period = period, !.at = now,
                          !.saw = IF ~row.exists THEN "nothing"
                                  ELSE IF row.period = period THEN "same" ELSE "other"]
<1>2. worker[w] \in WorkerType /\ now \in Nat /\ row \in RowType
  BY SchedulerAssumption DEF IInv, TypeOK
<1>3. p \in WorkerType /\ p.period = period
  BY <1>2 DEF WorkerType
<1>4. UNCHANGED <<now, row, run>>
  BY DEF Start
<1>5. SetWorker(w, p)
  BY <1>1
<1> HIDE DEF p
<1> QED
  BY <1>2, <1>3, <1>4, <1>5, ProcessChange

LEMMA EnsureIInv == ASSUME IInv, NEW w \in Workers, EnsureJobState(w) PROVE IInv'
<1> DEFINE job == worker[w]
           initial == FirstOccurrence(job.period, job.at)
           p == [job EXCEPT !.phase = "up", !.at = 0, !.saw = "nothing"]
<1>1. job \in WorkerType /\ row \in RowType /\ job.period \in Periods
  BY DEF IInv, TypeOK, EnsureJobState, Configured, Silent
<1>2. p \in WorkerType /\ p.period = job.period
  BY <1>1 DEF WorkerType
<1>3. SetWorker(w, p) /\ UNCHANGED <<now, run>>
  BY DEF EnsureJobState
<1>4. initial \in Nat
  BY <1>1, Occurrences, SchedulerAssumption DEF WorkerType
<1>5. \/ UNCHANGED row
      \/ row' = [NoRow EXCEPT !.exists = TRUE, !.period = job.period, !.nextRunAt = initial]
      \/ row' = [row EXCEPT !.period = job.period, !.nextRunAt = initial, !.rescheduled = TRUE]
  BY DEF EnsureJobState
<1> HIDE DEF p, initial
<1>6. /\ row' \in RowType
      /\ row'.lockedBy = Nobody \/ (row'.lockedBy = row.lockedBy /\ row'.leasedFor = row.leasedFor)
  BY <1>1, <1>4, <1>5, NullRecords DEF RowType, NoRow
<1> QED
  BY <1>1, <1>2, <1>3, <1>6, ProcessChange

LEMMA PollIInv == ASSUME IInv, NEW w \in Workers, Poll(w) PROVE IInv'
<1> DEFINE p == [worker[w] EXCEPT !.listed = TRUE]
<1>1. worker[w] \in WorkerType /\ row \in RowType /\ worker[w].period \in Periods
  BY DEF IInv, TypeOK, Poll, Configured, Silent
<1>2. p \in WorkerType /\ p.period \in Periods
  BY <1>1 DEF WorkerType
<1>3. SetWorker(w, p) /\ UNCHANGED <<now, run, row>>
  BY DEF Poll
<1> HIDE DEF p
<1> QED
  BY <1>1, <1>2, <1>3, ProcessChange

LEMMA StoppedIInv == ASSUME IInv, NEW w \in Workers, Stopped(w) PROVE IInv'
<1> DEFINE p == [worker[w] EXCEPT !.phase = "stopped"]
<1>1. worker[w] \in WorkerType /\ row \in RowType /\ worker[w].period \in Periods
  BY DEF IInv, TypeOK, Stopped, Configured, Silent
<1>2. p \in WorkerType /\ p.period \in Periods
  BY <1>1 DEF WorkerType
<1>3. SetWorker(w, p) /\ UNCHANGED <<now, run, row>>
  BY DEF Stopped
<1> HIDE DEF p
<1> QED
  BY <1>1, <1>2, <1>3, ProcessChange

LEMMA TickIInv == ASSUME IInv, Tick PROVE IInv'
<1>1. now' \in 0..Horizon
  BY SchedulerAssumption DEF Tick, IInv, TypeOK
<1> QED
  BY <1>1 DEF Tick, IInv, TypeOK, Configured, Silent, OneRun, Active, LeaseIsOfRun

\* stop() marks the runs of one process, and changes no other part of them.
LEMMA StopIInv == ASSUME IInv, NEW w \in Workers, Stop(w) PROVE IInv'
<1>1. /\ run' = [run EXCEPT ![w] = [s \in Slots |-> [run[w][s] EXCEPT !.stopped = Active(w, s)]]]
      /\ worker' = [worker EXCEPT ![w] = [worker[w] EXCEPT !.phase = "stopping"]]
      /\ UNCHANGED <<now, row>> /\ worker[w].phase = "up"
  BY DEF Stop, SetWorker
<1>2. \A s \in Slots : run[w][s] \in RunType /\ Active(w, s) \in BOOLEAN
  BY DEF IInv, TypeOK, Active
<1>3. \A s \in Slots : /\ [run[w][s] EXCEPT !.stopped = Active(w, s)] \in RunType
                      /\ [run[w][s] EXCEPT !.stopped = Active(w, s)].phase = run[w][s].phase
  BY <1>2 DEF RunType
<1>4. run' \in [Workers -> [Slots -> RunType]]
  BY <1>1, <1>3 DEF IInv, TypeOK
<1>5. \A v \in Workers, s \in Slots : run'[v][s].phase = run[v][s].phase
  BY <1>1, <1>3 DEF IInv, TypeOK
<1>6. \A v \in Workers \ {w} : run'[v] = run[v] /\ worker'[v] = worker[v]
  BY <1>1 DEF IInv, TypeOK
<1>7. worker'[w] \in WorkerType /\ worker'[w].period = worker[w].period /\ worker' \in [Workers -> WorkerType]
  BY <1>1 DEF IInv, TypeOK, WorkerType
<1>8. \A v \in Workers : (Configured(v) \/ Silent(v))'
  BY <1>1, <1>6, <1>7 DEF IInv, Configured, Silent
<1> QED
  BY <1>1, <1>4, <1>5, <1>7, <1>8, SMTT(60) DEF IInv, TypeOK, OneRun, Active, LeaseIsOfRun

LEMMA ExitIInv == ASSUME IInv, NEW w \in Workers, Exit(w) PROVE IInv'
<1> DEFINE p == [NewWorker EXCEPT !.phase = "gone"]
<1>1. /\ run' = [run EXCEPT ![w] = [s \in Slots |-> NoRun]]
      /\ worker' = [worker EXCEPT ![w] = p] /\ UNCHANGED <<now, row>>
  BY DEF Exit, SetWorker
<1>2. p \in WorkerType /\ p.phase = "gone" /\ ~p.listed
  BY NullRecords DEF NewWorker, WorkerType
<1> HIDE DEF p
<1>3. run' \in [Workers -> [Slots -> RunType]] /\ worker' \in [Workers -> WorkerType]
  BY <1>1, <1>2, NullRecords DEF IInv, TypeOK
<1>4. \A v \in Workers \ {w} : run'[v] = run[v] /\ worker'[v] = worker[v]
  BY <1>1 DEF IInv, TypeOK
<1>5. worker'[w] = p /\ \A s \in Slots : run'[w][s] = NoRun
  BY <1>1 DEF IInv, TypeOK
<1>6. \A v \in Workers : (Configured(v) \/ Silent(v))'
  BY <1>2, <1>4, <1>5 DEF IInv, Configured, Silent
<1>7. \A v \in Workers : OneRun(v)'
  BY <1>4, <1>5 DEF IInv, OneRun, Active, NoRun
<1>8. LeaseIsOfRun'
  BY <1>1, <1>4, <1>5 DEF IInv, LeaseIsOfRun, NoRun
<1> QED
  BY <1>1, <1>3, <1>6, <1>7, <1>8 DEF IInv, TypeOK
-----------------------------------------------------------------------------
LEMMA PollAnswerIInv == ASSUME IInv, NEW w \in Workers, PollAnswer(w) PROVE IInv'
<1>1. worker' = [worker EXCEPT ![w].listed = FALSE] /\ UNCHANGED <<now, row>> /\ worker[w].listed
  BY DEF PollAnswer, SetWorker, IInv, TypeOK
<1>2. worker[w].period \in Periods /\ row \in RowType /\ worker[w] \in WorkerType /\ now \in Nat
  BY <1>1, SchedulerAssumption DEF IInv, TypeOK, Configured, Silent
<1>3. CASE Running(w) /\ UNCHANGED run
  <2>1. SetWorker(w, [worker[w] EXCEPT !.listed = FALSE]) /\ [worker[w] EXCEPT !.listed = FALSE] \in WorkerType
        /\ [worker[w] EXCEPT !.listed = FALSE].period = worker[w].period
    BY <1>2 DEF PollAnswer, WorkerType
  <2> QED
    BY <1>1, <1>2, <1>3, <2>1, ProcessChange
<1>4. CASE ~Running(w) /\ \E s \in Free(w) : SetRun(w, s, [NoRun EXCEPT !.phase = "acquire", !.at = now])
  <2> DEFINE q == [NoRun EXCEPT !.phase = "acquire", !.at = now]
  <2>1. q \in RunType /\ q.phase = "acquire"
    BY <1>2, NullRecords DEF NoRun, RunType
  <2>2. PICK s \in Slots : SetRun(w, s, q)
    BY <1>4 DEF Free
  <2> HIDE DEF q
  <2>3. KeepsLease(w, s, q)
    BY <1>1, <2>1 DEF KeepsLease
  <2> QED
    BY <1>1, <1>2, <1>4, <2>1, <2>2, <2>3, RunChange DEF Configured
<1> QED
  BY <1>3, <1>4 DEF PollAnswer

LEMMA AcquireIInv == ASSUME IInv, NEW w \in Workers, NEW s \in Slots, Acquire(w, s) PROVE IInv'
<1> DEFINE q == run[w][s]
           leased == [row EXCEPT !.lockedBy = w, !.leasedFor = s, !.lockedUntil = q.at + LeaseTtl]
           next == [q EXCEPT !.phase = "handler", !.at = 0]
<1>1. q.phase = "acquire" /\ Active(w, s) /\ UNCHANGED <<now, worker>>
  BY DEF Acquire, Active
<1>2. /\ q \in RunType /\ Ended(w, s) \in RunType /\ Ended(w, s).phase = "none"
      /\ row \in RowType /\ Configured(w)
  BY <1>1, Typed DEF NoRun
<1>3. next \in RunType
  BY <1>2 DEF RunType
<1>4. leased \in RowType /\ leased.lockedBy = w /\ leased.leasedFor = s
  <2>1. q.at + LeaseTtl \in Nat
    BY <1>2, SchedulerAssumption DEF RunType
  <2> HIDE DEF q
  <2> QED
    BY <1>2, <2>1 DEF RowType
<1>5. \/ row' = leased /\ SetRun(w, s, next)
      \/ row' = leased /\ SetRun(w, s, Ended(w, s))
      \/ UNCHANGED row /\ SetRun(w, s, Ended(w, s))
  BY DEF Acquire
<1> HIDE DEF next, leased
<1>6. CASE row' = leased
  <2>1. TakesLease(w, s)
    BY <1>1, <1>4, <1>6 DEF TakesLease
  <2> QED
    BY <1>1, <1>2, <1>3, <1>4, <1>5, <1>6, <2>1, RunChange
<1>7. CASE UNCHANGED row /\ SetRun(w, s, Ended(w, s))
  <2>1. KeepsLease(w, s, Ended(w, s))
    BY <1>2, <1>7 DEF KeepsLease
  <2> QED
    BY <1>1, <1>2, <1>7, <2>1, RunChange
<1> QED
  BY <1>5, <1>6, <1>7

LEMMA SendBeatIInv == ASSUME IInv, NEW w \in Workers, NEW s \in Slots, SendBeat(w, s) PROVE IInv'
<1> DEFINE q == [run[w][s] EXCEPT !.beats = @ \cup {now}]
<1>1. Active(w, s) /\ SetRun(w, s, q) /\ UNCHANGED <<now, worker, row>>
  BY DEF SendBeat, Active
<1>2. run[w][s] \in RunType /\ now \in Nat /\ row \in RowType /\ Configured(w)
  BY <1>1, Typed DEF Active, NoRun
<1>3. q \in RunType /\ q.phase = run[w][s].phase
  BY <1>2 DEF RunType
<1> HIDE DEF q
<1>4. KeepsLease(w, s, q)
  BY <1>1, <1>3 DEF KeepsLease
<1> QED
  BY <1>1, <1>2, <1>3, <1>4, RunChange

LEMMA ExtendLeaseIInv ==
  ASSUME IInv, NEW w \in Workers, NEW s \in Slots, NEW t, ExtendLease(w, s, t)
  PROVE  IInv'
<1> DEFINE q == run[w][s]
           aborted == q.phase \in {"handler", "succeed"}
           lost == [q EXCEPT !.beats = @ \ {t}, !.leaseLost = aborted]
           kept == [q EXCEPT !.beats = @ \ {t}]
           extended == [row EXCEPT !.lockedUntil = t + LeaseTtl]
<1>1. t \in q.beats /\ UNCHANGED <<now, worker>>
  BY DEF ExtendLease
<1>2. q \in RunType /\ row \in RowType /\ Configured(w)
  BY <1>1, Typed DEF NoRun
<1>3. lost \in RunType /\ kept \in RunType /\ lost.phase = q.phase /\ kept.phase = q.phase
  <2>1. aborted \in BOOLEAN
    OBVIOUS
  <2> HIDE DEF aborted
  <2> QED
    BY <1>2, <2>1 DEF RunType
<1>4. /\ extended \in RowType
      /\ extended.lockedBy = row.lockedBy /\ extended.leasedFor = row.leasedFor
  BY <1>1, <1>2, SchedulerAssumption DEF RowType, RunType
<1>5. row' \in {row, extended} /\ (SetRun(w, s, lost) \/ SetRun(w, s, kept))
  BY DEF ExtendLease
<1> HIDE DEF lost, kept, extended
<1>6. row' \in RowType /\ KeepsLease(w, s, lost) /\ KeepsLease(w, s, kept)
  BY <1>2, <1>3, <1>4, <1>5 DEF KeepsLease
<1>7. q.phase = "none" \/ Active(w, s)
  BY DEF Active
<1> QED
  BY <1>1, <1>2, <1>3, <1>5, <1>6, <1>7, RunChange

LEMMA HandlerEndsIInv == ASSUME IInv, NEW w \in Workers, NEW s \in Slots, HandlerEnds(w, s) PROVE IInv'
<1>1. run[w][s].phase = "handler" /\ Active(w, s) /\ UNCHANGED <<now, worker, row>>
  BY DEF HandlerEnds, Active
<1>2. /\ run[w][s] \in RunType /\ Ended(w, s) \in RunType /\ Ended(w, s).phase = "none"
      /\ row \in RowType /\ now \in Nat /\ Configured(w)
  BY <1>1, Typed DEF NoRun
<1>3. PICK q \in RunType : SetRun(w, s, q)
  <2>1. \A outcome \in {"succeed", "fail"} : [run[w][s] EXCEPT !.phase = outcome, !.at = now] \in RunType
    BY <1>2 DEF RunType
  <2> QED
    BY <1>2, <2>1 DEF HandlerEnds
<1>4. KeepsLease(w, s, q)
  BY <1>1 DEF KeepsLease
<1> QED
  BY <1>1, <1>2, <1>3, <1>4, RunChange

LEMMA UnlockedRow ==
  ASSUME row \in RowType
  PROVE  Unlocked(row) \in RowType /\ Unlocked(row).lockedBy = Nobody
  BY DEF Unlocked, RowType

LEMMA MarkSucceededIInv == ASSUME IInv, NEW w \in Workers, NEW s \in Slots, MarkSucceeded(w, s) PROVE IInv'
<1> DEFINE q == run[w][s]
           done == [Unlocked(row) EXCEPT !.nextRunAt = NextOccurrence(worker[w].period, q.at),
                                         !.succeededAt = q.at, !.rescheduled = FALSE]
           retry == [q EXCEPT !.phase = "fail", !.at = now]
<1>1. q.phase = "succeed" /\ Active(w, s) /\ UNCHANGED <<now, worker>>
  BY DEF MarkSucceeded, Active
<1>2. /\ q \in RunType /\ Ended(w, s) \in RunType /\ Ended(w, s).phase = "none"
      /\ row \in RowType /\ now \in Nat /\ Configured(w)
  BY <1>1, Typed DEF NoRun
<1>3. retry \in RunType
  BY <1>2 DEF RunType
<1>4. NextOccurrence(worker[w].period, q.at) \in Nat /\ q.at \in Nat
  BY <1>2, Occurrences, SchedulerAssumption DEF Configured, RunType
<1>5. done \in RowType /\ done.lockedBy = Nobody
  BY <1>2, <1>4, UnlockedRow DEF RowType
<1>6. row' \in {row, done} /\ (SetRun(w, s, Ended(w, s)) \/ SetRun(w, s, retry))
  BY DEF MarkSucceeded
<1> HIDE DEF done, retry
<1>7. row' \in RowType
  BY <1>2, <1>5, <1>6
<1>8. PICK r \in RunType : SetRun(w, s, r)
  BY <1>2, <1>3, <1>6
<1>9. KeepsLease(w, s, r) \/ row'.lockedBy = Nobody
  BY <1>1, <1>5, <1>6 DEF KeepsLease
<1> QED
  BY <1>1, <1>2, <1>7, <1>8, <1>9, RunChange

LEMMA MarkFailedIInv == ASSUME IInv, NEW w \in Workers, NEW s \in Slots, MarkFailed(w, s) PROVE IInv'
<1> DEFINE q == run[w][s]
           failed == [Unlocked(row) EXCEPT !.nextRunAt = q.at + RetryDelay]
<1>1. q.phase = "fail" /\ Active(w, s) /\ UNCHANGED <<now, worker>> /\ SetRun(w, s, Ended(w, s))
  BY DEF MarkFailed, Active
<1>2. /\ q \in RunType /\ Ended(w, s) \in RunType /\ row \in RowType /\ Configured(w)
  BY <1>1, Typed DEF NoRun
<1>3. q.at + RetryDelay \in Nat
  BY <1>2, SchedulerAssumption DEF RunType
<1>4. failed \in RowType /\ failed.lockedBy = Nobody
  BY <1>2, <1>3, UnlockedRow DEF RowType
<1>5. row' \in {row, failed}
  BY DEF MarkFailed
<1> HIDE DEF failed
<1>6. row' \in RowType /\ (KeepsLease(w, s, Ended(w, s)) \/ row'.lockedBy = Nobody)
  BY <1>1, <1>2, <1>4, <1>5 DEF KeepsLease
<1> QED
  BY <1>1, <1>2, <1>6, RunChange

-----------------------------------------------------------------------------
LEMMA NextIInv == ASSUME IInv, [Next]_vars PROVE IInv'
<1>1. CASE Tick
  BY <1>1, TickIInv
<1>2. ASSUME NEW w \in Workers, Process(w) PROVE IInv'
  <2>1. ASSUME NEW s \in Slots, RunStep(w, s) \/ SendBeat(w, s) \/ BeatArrives(w, s) PROVE IInv'
    BY <2>1, AcquireIInv, SendBeatIInv, ExtendLeaseIInv, HandlerEndsIInv, MarkSucceededIInv, MarkFailedIInv
       DEF RunStep, BeatArrives
  <2> QED
    BY <1>2, <2>1, StartIInv, EnsureIInv, PollIInv, PollAnswerIInv, StoppedIInv DEF Process
<1>3. ASSUME NEW w \in Workers, Stop(w) \/ Exit(w) PROVE IInv'
  BY <1>3, StopIInv, ExitIInv
<1>4. CASE UNCHANGED vars
  BY <1>4, StutterIInv
<1> QED
  BY <1>1, <1>2, <1>3, <1>4 DEF Next

LEMMA SpecIInv == Spec => []IInv
  BY InitIInv, NextIInv, PTL DEF Spec

\* Every column of the job's row and every local variable of a worker keeps its type: the row
\* the guarded UPDATEs of scheduler.repo.ts leave behind is always one the code can read.
THEOREM TypeCorrect == Spec => []TypeOK
<1>1. IInv => TypeOK
  BY DEF IInv
<1> QED
  BY <1>1, SpecIInv, PTL

\* A process named in lockedBy has no run but the one the lease was taken for, however many
\* processes poll, however late answers and heartbeats come: runningJobs keeps a process from
\* starting the job twice, so a guard on lockedBy alone identifies the run.
THEOREM LeaseNamesItsRun == Spec => []LeaseIsOfRun
<1>1. IInv => LeaseIsOfRun
  BY DEF IInv
<1> QED
  BY <1>1, SpecIInv, PTL
-----------------------------------------------------------------------------
(***************************************************************************)
(* Occurrences.  What nextRunAt promises travels with the lease: a lease   *)
(* is granted at or after nextRunAt, the run that holds it ends later, and *)
(* a run the row does not name records nothing.                            *)
(***************************************************************************)
\* There is an occurrence of a schedule between the last success and t, unless the job never
\* succeeded or start() moved nextRunAt since.
Scheduled(t) ==
    \/ row.succeededAt = Never
    \/ row.rescheduled
    \/ \E period \in Periods : NextOccurrence(period, row.succeededAt) <= t

\* The earliest time at which a run can still be recorded as ended.
EndsAfter(q) == IF q.phase = "handler" THEN now ELSE q.at
UnderLease(q) == q.phase \in {"handler", "succeed", "fail"}

OccInv ==
    /\ Scheduled(row.nextRunAt)
    /\ \A w \in Workers, s \in Slots : run[w][s].at <= now
    /\ \A w \in Workers, s \in Slots :
         UnderLease(run[w][s]) /\ row.lockedBy = w => Scheduled(EndsAfter(run[w][s]))

\* A row that is not there has no lease and no success.
Created == row.exists \/ (row.succeededAt = Never /\ row.lockedBy = Nobody)

LEMMA ScheduledLater ==
  ASSUME row \in RowType, NEW t \in Nat, NEW u \in Nat, t <= u, Scheduled(t)
  PROVE  Scheduled(u)
<1>1. row.succeededAt = Never \/ row.succeededAt \in Nat
  BY DEF RowType
<1>2. ASSUME NEW period \in Periods, row.succeededAt \in Nat, NextOccurrence(period, row.succeededAt) <= t
      PROVE  NextOccurrence(period, row.succeededAt) <= u
  <2>1. NextOccurrence(period, row.succeededAt) \in Nat
    BY <1>2, Occurrences, SchedulerAssumption
  <2> QED
    BY <1>2, <2>1
<1> QED
  BY <1>1, <1>2 DEF Scheduled

\* A step of one run keeps the invariant when the row it leaves behind is free, or when it
\* holds the same success as before and the run, if it is under the lease, ends late enough.
LEMMA RunOcc ==
  ASSUME IInv, OccInv, NEW w \in Workers, NEW s \in Slots, NEW q \in RunType,
         SetRun(w, s, q), UNCHANGED now, q.at <= now, Scheduled(row.nextRunAt)',
         \/ row'.lockedBy = Nobody
         \/ /\ row'.succeededAt = row.succeededAt /\ row'.rescheduled = row.rescheduled
            /\ row'.lockedBy = row.lockedBy \/ (row'.lockedBy = w /\ Active(w, s))
            /\ UnderLease(q) /\ row'.lockedBy = w => Scheduled(EndsAfter(q))
  PROVE  OccInv'
<1>1. \A v \in Workers, o \in Slots : run'[v][o] = IF v = w /\ o = s THEN q ELSE run[v][o]
  BY DEF SetRun, IInv, TypeOK
<1>2. \A v \in Workers, o \in Slots : run'[v][o].at <= now'
  BY <1>1 DEF OccInv
<1>3. ASSUME NEW v \in Workers, NEW o \in Slots, UnderLease(run'[v][o]), row'.lockedBy = v
      PROVE  Scheduled(EndsAfter(run[v][o]))'
  <2>1. /\ row'.lockedBy # Nobody
        /\ row'.succeededAt = row.succeededAt /\ row'.rescheduled = row.rescheduled
    BY <1>3, SchedulerAssumption
  <2>2. CASE v = w /\ o = s
    <3>1. Scheduled(EndsAfter(q)) /\ run'[v][o] = q
      BY <1>1, <1>3, <2>1, <2>2
    <3> QED
      BY <2>1, <3>1 DEF Scheduled, EndsAfter
  <2>3. CASE ~(v = w /\ o = s)
    <3>1. run'[v][o] = run[v][o] /\ UnderLease(run[v][o])
      BY <1>1, <1>3, <2>3
    <3>2. row.lockedBy = v
      BY <1>3, <2>1, <2>3, <3>1 DEF IInv, OneRun, Active, UnderLease
    <3>3. Scheduled(EndsAfter(run[v][o]))
      BY <3>1, <3>2 DEF OccInv
    <3> QED
      BY <2>1, <3>1, <3>3 DEF Scheduled, EndsAfter
  <2> QED
    BY <2>2, <2>3
<1> QED
  BY <1>2, <1>3 DEF OccInv

LEMMA InitOcc == Init => OccInv /\ Created
  BY DEF Init, OccInv, Created, Scheduled, NoRow, NoRun, UnderLease

LEMMA StutterOcc ==
  ASSUME OccInv, UNCHANGED <<now, row, run>>
  PROVE  OccInv'
  BY DEF OccInv, Scheduled, EndsAfter

LEMMA TickOcc == ASSUME IInv, OccInv, Tick PROVE OccInv'
<1>1. now \in Nat /\ now' = now + 1 /\ UNCHANGED <<row, run>>
  BY SchedulerAssumption DEF Tick, IInv, TypeOK
<1>2. \A w \in Workers, s \in Slots : run[w][s] \in RunType /\ run[w][s].at \in Nat
  BY DEF IInv, TypeOK, RunType
<1>3. \A w \in Workers, s \in Slots : run'[w][s].at <= now'
  BY <1>1, <1>2 DEF OccInv
<1>4. ASSUME NEW w \in Workers, NEW s \in Slots, UnderLease(run[w][s]), row.lockedBy = w
      PROVE  Scheduled(EndsAfter(run[w][s]))'
  <2>1. Scheduled(EndsAfter(run[w][s]))
    BY <1>4 DEF OccInv
  <2>2. /\ EndsAfter(run[w][s]) \in Nat /\ EndsAfter(run[w][s])' \in Nat
        /\ EndsAfter(run[w][s]) <= EndsAfter(run[w][s])'
    BY <1>1, <1>2 DEF EndsAfter
  <2> DEFINE u == EndsAfter(run[w][s])'
  <2>3. row \in RowType
    BY DEF IInv, TypeOK
  <2>4. u \in Nat /\ EndsAfter(run[w][s]) <= u
    BY <2>2
  <2> HIDE DEF u
  <2>5. Scheduled(u)
    BY <2>1, <2>2, <2>3, <2>4, ScheduledLater
  <2> QED
    BY <1>1, <2>5 DEF Scheduled, u
<1> QED
  BY <1>1, <1>3, <1>4 DEF OccInv, Scheduled

\* A start with another schedule says so in the row; one that creates the row starts afresh.
LEMMA EnsureOcc == ASSUME IInv, OccInv, NEW w \in Workers, EnsureJobState(w) PROVE OccInv'
<1> DEFINE job == worker[w]
           initial == FirstOccurrence(job.period, job.at)
<1>1. UNCHANGED <<now, run>> /\ row \in RowType
  BY DEF EnsureJobState, IInv, TypeOK
<1>2. CASE UNCHANGED row
  BY <1>1, <1>2, StutterOcc
<1>3. CASE row' = [NoRow EXCEPT !.exists = TRUE, !.period = job.period, !.nextRunAt = initial]
  <2>1. row'.succeededAt = Never
    BY <1>3 DEF NoRow
  <2> QED
    BY <1>1, <2>1 DEF OccInv, Scheduled
<1>4. CASE row' = [row EXCEPT !.period = job.period, !.nextRunAt = initial, !.rescheduled = TRUE]
  <2>1. row'.rescheduled = TRUE
    BY <1>1, <1>4 DEF RowType
  <2> QED
    BY <1>1, <2>1 DEF OccInv, Scheduled
<1> QED
  BY <1>2, <1>3, <1>4 DEF EnsureJobState

LEMMA PollAnswerOcc == ASSUME IInv, OccInv, NEW w \in Workers, PollAnswer(w) PROVE OccInv'
<1>1. UNCHANGED <<now, row>> /\ Scheduled(row.nextRunAt)'
  BY DEF PollAnswer, OccInv, Scheduled
<1>2. CASE UNCHANGED run
  BY <1>1, <1>2, StutterOcc
<1>3. CASE \E s \in Free(w) : SetRun(w, s, [NoRun EXCEPT !.phase = "acquire", !.at = now])
  <2> DEFINE q == [NoRun EXCEPT !.phase = "acquire", !.at = now]
  <2>1. now \in Nat
    BY SchedulerAssumption DEF IInv, TypeOK
  <2>2. q \in RunType /\ q.at <= now /\ ~UnderLease(q)
    <3>1. q \in RunType /\ q.at = now /\ q.phase = "acquire"
      BY <2>1, NullRecords DEF NoRun, RunType
    <3> QED
      BY <2>1, <3>1 DEF UnderLease
  <2>3. PICK s \in Slots : SetRun(w, s, q)
    BY <1>3 DEF Free
  <2> HIDE DEF q
  <2> QED
    BY <1>1, <2>2, <2>3, RunOcc
<1> QED
  BY <1>2, <1>3 DEF PollAnswer

\* tryAcquireLease is granted at a time that is not before nextRunAt.
LEMMA AcquireOcc ==
  ASSUME IInv, OccInv, NEW w \in Workers, NEW s \in Slots, Acquire(w, s)
  PROVE  OccInv'
<1> DEFINE q == run[w][s]
           leased == [row EXCEPT !.lockedBy = w, !.leasedFor = s, !.lockedUntil = q.at + LeaseTtl]
           next == [q EXCEPT !.phase = "handler", !.at = 0]
<1>1. q.phase = "acquire" /\ Active(w, s) /\ UNCHANGED now
  BY DEF Acquire, Active
<1>2. /\ q \in RunType /\ Ended(w, s) \in RunType /\ Ended(w, s).phase = "none"
      /\ row \in RowType /\ now \in Nat
  BY <1>1, Typed DEF NoRun
<1>3. next \in RunType /\ next.at = 0 /\ next.phase = "handler" /\ Ended(w, s).at = 0 /\ q.at \in Nat
  BY <1>2 DEF RunType, Ended, NoRun
<1>4. /\ leased.succeededAt = row.succeededAt /\ leased.rescheduled = row.rescheduled
      /\ leased.nextRunAt = row.nextRunAt /\ leased.lockedBy = w
  BY <1>2 DEF RowType
<1>5. \/ row' = leased /\ LeaseGranted(q.at) /\ (SetRun(w, s, next) \/ SetRun(w, s, Ended(w, s)))
      \/ UNCHANGED row /\ SetRun(w, s, Ended(w, s))
  BY DEF Acquire
<1>6. Ended(w, s).at <= now /\ next.at <= now /\ ~UnderLease(Ended(w, s))
  BY <1>2, <1>3 DEF UnderLease
<1> HIDE DEF leased, next
<1>7. Scheduled(row.nextRunAt)'
  BY <1>4, <1>5 DEF OccInv, Scheduled
<1>8. CASE row' = leased /\ LeaseGranted(q.at) /\ SetRun(w, s, next)
  <2>1. q.at <= now /\ row.nextRunAt <= q.at /\ row.nextRunAt \in Nat
    BY <1>2, <1>8 DEF OccInv, LeaseGranted, Due, RowType
  <2>2. row.nextRunAt <= now
    BY <1>2, <1>3, <2>1
  <2>3. Scheduled(now)
    BY <1>2, <2>1, <2>2, ScheduledLater DEF OccInv
  <2>4. Scheduled(EndsAfter(next))
    BY <1>3, <2>3 DEF EndsAfter
  <2> QED
    BY <1>1, <1>3, <1>4, <1>6, <1>7, <1>8, <2>4, RunOcc
<1>9. CASE row' = leased /\ SetRun(w, s, Ended(w, s))
  BY <1>1, <1>2, <1>4, <1>6, <1>7, <1>9, RunOcc
<1>10. CASE UNCHANGED row /\ SetRun(w, s, Ended(w, s))
  BY <1>1, <1>2, <1>6, <1>7, <1>10, RunOcc
<1> QED
  BY <1>5, <1>8, <1>9, <1>10

\* Heartbeats, sent or answered, move neither the schedule nor the time a run ends.
LEMMA BeatOcc ==
  ASSUME IInv, OccInv, NEW w \in Workers, NEW s \in Slots,
         SendBeat(w, s) \/ BeatArrives(w, s)
  PROVE  OccInv'
<1> DEFINE q == run[w][s]
<1>1. q \in RunType /\ row \in RowType /\ now \in Nat
  BY Typed
<1>2. PICK r \in RunType : SetRun(w, s, r) /\ r.phase = q.phase /\ r.at = q.at
  <2>1. CASE SendBeat(w, s)
    <3>1. SetRun(w, s, [q EXCEPT !.beats = @ \cup {now}])
      BY <2>1 DEF SendBeat
    <3>2. /\ [q EXCEPT !.beats = @ \cup {now}] \in RunType
          /\ [q EXCEPT !.beats = @ \cup {now}].phase = q.phase
          /\ [q EXCEPT !.beats = @ \cup {now}].at = q.at
      BY <1>1 DEF RunType
    <3> QED
      BY <3>1, <3>2
  <2>2. CASE BeatArrives(w, s)
    <3>1. PICK t \in q.beats : ExtendLease(w, s, t)
      BY <2>2 DEF BeatArrives
    <3> DEFINE aborted == q.phase \in {"handler", "succeed"}
               lost == [q EXCEPT !.beats = @ \ {t}, !.leaseLost = aborted]
               kept == [q EXCEPT !.beats = @ \ {t}]
    <3>2. SetRun(w, s, lost) \/ SetRun(w, s, kept)
      BY <3>1 DEF ExtendLease
    <3>3. aborted \in BOOLEAN
      OBVIOUS
    <3> HIDE DEF aborted
    <3>4. /\ lost \in RunType /\ lost.phase = q.phase /\ lost.at = q.at
          /\ kept \in RunType /\ kept.phase = q.phase /\ kept.at = q.at
      BY <1>1, <3>3 DEF RunType
    <3> HIDE DEF lost, kept
    <3> QED
      BY <3>2, <3>4
  <2> QED
    BY <2>1, <2>2
<1>3. /\ UNCHANGED now /\ row'.succeededAt = row.succeededAt /\ row'.rescheduled = row.rescheduled
      /\ row'.nextRunAt = row.nextRunAt /\ row'.lockedBy = row.lockedBy
  BY <1>1 DEF SendBeat, BeatArrives, ExtendLease, RowType
<1>4. Scheduled(row.nextRunAt)'
  BY <1>3 DEF OccInv, Scheduled
<1>5. r.at <= now /\ (UnderLease(r) /\ row'.lockedBy = w => Scheduled(EndsAfter(r)))
  BY <1>2, <1>3 DEF OccInv, UnderLease, EndsAfter
<1> QED
  BY <1>2, <1>3, <1>4, <1>5, RunOcc

LEMMA HandlerEndsOcc ==
  ASSUME IInv, OccInv, NEW w \in Workers, NEW s \in Slots, HandlerEnds(w, s)
  PROVE  OccInv'
<1>1. run[w][s].phase = "handler" /\ UNCHANGED <<now, row>> /\ Scheduled(row.nextRunAt)'
  BY DEF HandlerEnds, OccInv, Scheduled
<1>2. /\ run[w][s] \in RunType /\ Ended(w, s) \in RunType /\ Ended(w, s).phase = "none"
      /\ row \in RowType /\ now \in Nat
  BY Typed
<1>3. Ended(w, s).at <= now /\ ~UnderLease(Ended(w, s))
  BY <1>2 DEF Ended, NoRun, UnderLease, RunType
<1>4. CASE SetRun(w, s, Ended(w, s))
  BY <1>1, <1>2, <1>3, <1>4, RunOcc
<1>5. ASSUME NEW outcome \in {"succeed", "fail"},
             SetRun(w, s, [run[w][s] EXCEPT !.phase = outcome, !.at = now])
      PROVE  OccInv'
  <2> DEFINE q == [run[w][s] EXCEPT !.phase = outcome, !.at = now]
  <2>1. q \in RunType /\ q.at = now /\ q.phase # "handler"
    BY <1>2 DEF RunType
  <2>2. SetRun(w, s, q)
    BY <1>5
  <2>3. q.at <= now
    BY <1>2, <2>1
  <2> HIDE DEF q
  <2>4. row.lockedBy = w => Scheduled(EndsAfter(q))
    BY <1>1, <2>1 DEF OccInv, EndsAfter, UnderLease
  <2> QED
    BY <1>1, <1>2, <2>1, <2>2, <2>3, <2>4, RunOcc
<1> QED
  BY <1>4, <1>5 DEF HandlerEnds

\* What the recording of an outcome finds: a run under the lease that ended late enough.
LEMMA OutcomeInTime ==
  ASSUME IInv, OccInv, NEW w \in Workers, NEW s \in Slots,
         run[w][s].phase \in {"succeed", "fail"}, HoldsLease(w, run[w][s].at)
  PROVE  Scheduled(run[w][s].at)
  BY DEF OccInv, UnderLease, EndsAfter, HoldsLease

LEMMA MarkSucceededOcc ==
  ASSUME IInv, OccInv, NEW w \in Workers, NEW s \in Slots, MarkSucceeded(w, s)
  PROVE  OccInv'
<1> DEFINE q == run[w][s]
           next == NextOccurrence(worker[w].period, q.at)
           done == [Unlocked(row) EXCEPT !.nextRunAt = next, !.succeededAt = q.at, !.rescheduled = FALSE]
           retry == [q EXCEPT !.phase = "fail", !.at = now]
<1>1. q.phase = "succeed" /\ Active(w, s) /\ UNCHANGED now
  BY DEF MarkSucceeded, Active
<1>2. /\ q \in RunType /\ Ended(w, s) \in RunType /\ Ended(w, s).phase = "none"
      /\ row \in RowType /\ now \in Nat /\ Configured(w)
  BY <1>1, Typed DEF NoRun
<1>3. /\ retry \in RunType /\ retry.at = now /\ retry.phase = "fail"
      /\ Ended(w, s).at <= now /\ ~UnderLease(Ended(w, s)) /\ q.at \in Nat
  <2>1. retry \in RunType /\ retry.at = now /\ retry.phase = "fail"
    BY <1>2 DEF RunType
  <2>2. Ended(w, s).at = 0 /\ q.at \in Nat
    BY <1>2 DEF RunType, Ended, NoRun
  <2> QED
    BY <1>2, <2>1, <2>2 DEF UnderLease
<1>4. next \in Nat
  BY <1>2, <1>3, Occurrences, SchedulerAssumption DEF Configured
<1>5. done.lockedBy = Nobody /\ done.nextRunAt = next /\ done.succeededAt = q.at
  BY <1>2 DEF RowType, Unlocked
<1>6. row' \in {row, done} /\ (SetRun(w, s, Ended(w, s)) \/ SetRun(w, s, retry))
  BY DEF MarkSucceeded
<1> HIDE DEF done, retry
<1>7. Scheduled(row.nextRunAt)'
  <2>1. CASE row' = row
    BY <2>1 DEF OccInv, Scheduled
  <2>2. CASE row' = done
    <3>1. next <= next
      BY <1>4
    <3> QED
      BY <1>2, <1>5, <2>2, <3>1 DEF Scheduled, Configured
  <2> QED
    BY <1>6, <2>1, <2>2
<1>8. row.lockedBy = w => Scheduled(EndsAfter(retry))
  <2>1. row.lockedBy = w => Scheduled(q.at) /\ q.at <= now
    BY <1>1 DEF OccInv, UnderLease, EndsAfter
  <2>2. row.lockedBy = w => Scheduled(now)
    BY <1>2, <1>3, <2>1, ScheduledLater
  <2> QED
    BY <1>3, <2>2 DEF EndsAfter
<1>9. row' = row \/ row'.lockedBy = Nobody
  BY <1>5, <1>6
<1>10. now <= now
  BY <1>2
<1>11. CASE SetRun(w, s, Ended(w, s))
  BY <1>1, <1>2, <1>3, <1>7, <1>9, <1>11, RunOcc
<1>12. CASE SetRun(w, s, retry)
  BY <1>1, <1>3, <1>7, <1>8, <1>9, <1>10, <1>12, RunOcc
<1> QED
  BY <1>6, <1>11, <1>12

LEMMA MarkFailedOcc ==
  ASSUME IInv, OccInv, NEW w \in Workers, NEW s \in Slots, MarkFailed(w, s)
  PROVE  OccInv'
<1> DEFINE q == run[w][s]
           later == q.at + RetryDelay
           failed == [Unlocked(row) EXCEPT !.nextRunAt = later]
<1>1. q.phase = "fail" /\ UNCHANGED now /\ SetRun(w, s, Ended(w, s))
  BY DEF MarkFailed
<1>2. /\ q \in RunType /\ Ended(w, s) \in RunType /\ Ended(w, s).phase = "none"
      /\ row \in RowType /\ now \in Nat
  BY Typed
<1>3. Ended(w, s).at <= now /\ ~UnderLease(Ended(w, s)) /\ q.at \in Nat
  BY <1>2 DEF RunType, Ended, NoRun, UnderLease
<1>4. /\ failed.lockedBy = Nobody /\ failed.nextRunAt = later
      /\ failed.succeededAt = row.succeededAt /\ failed.rescheduled = row.rescheduled
  BY <1>2 DEF RowType, Unlocked
<1>5. row' = row \/ (row' = failed /\ HoldsLease(w, q.at))
  BY DEF MarkFailed
<1> HIDE DEF failed
<1>6. Scheduled(row.nextRunAt)'
  <2>1. CASE row' = row
    BY <2>1 DEF OccInv, Scheduled
  <2>2. CASE row' = failed /\ HoldsLease(w, q.at)
    <3>1. Scheduled(q.at)
      BY <1>1, <2>2, OutcomeInTime
    <3>2. later \in Nat /\ q.at <= later
      BY <1>3, SchedulerAssumption
    <3>3. Scheduled(later)
      BY <1>2, <1>3, <3>1, <3>2, ScheduledLater
    <3> QED
      BY <1>4, <2>2, <3>3 DEF Scheduled
  <2> QED
    BY <1>5, <2>1, <2>2
<1> QED
  BY <1>1, <1>2, <1>3, <1>4, <1>5, <1>6, RunOcc

\* stop() marks runs and Exit forgets them: no run's time changes but to none.
LEMMA StopOcc == ASSUME IInv, OccInv, NEW w \in Workers, Stop(w) \/ Exit(w) PROVE OccInv'
<1>1. UNCHANGED <<now, row>>
  BY DEF Stop, Exit
<1>2. \A v \in Workers, s \in Slots :
        \/ run'[v][s].phase = run[v][s].phase /\ run'[v][s].at = run[v][s].at
        \/ run'[v][s] = NoRun
  <2>1. \A v \in Workers, s \in Slots : run[v][s] \in RunType
    BY DEF IInv, TypeOK
  <2>2. CASE Stop(w)
    <3>1. run' = [run EXCEPT ![w] = [s \in Slots |-> [run[w][s] EXCEPT !.stopped = Active(w, s)]]]
      BY <2>2 DEF Stop
    <3>2. \A s \in Slots : /\ [run[w][s] EXCEPT !.stopped = Active(w, s)].phase = run[w][s].phase
                          /\ [run[w][s] EXCEPT !.stopped = Active(w, s)].at = run[w][s].at
      BY <2>1 DEF RunType
    <3> QED
      BY <3>1, <3>2 DEF IInv, TypeOK
  <2>3. CASE Exit(w)
    BY <2>3 DEF Exit, IInv, TypeOK
  <2> QED
    BY <2>2, <2>3
<1>3. now \in Nat
  BY SchedulerAssumption DEF IInv, TypeOK
<1>4. \A v \in Workers, s \in Slots : run'[v][s].at <= now'
  BY <1>1, <1>2, <1>3 DEF OccInv, NoRun
<1>5. ASSUME NEW v \in Workers, NEW s \in Slots, UnderLease(run'[v][s]), row'.lockedBy = v
      PROVE  Scheduled(EndsAfter(run[v][s]))'
  <2>1. run'[v][s].phase = run[v][s].phase /\ run'[v][s].at = run[v][s].at
    BY <1>2, <1>5 DEF UnderLease, NoRun
  <2>2. Scheduled(EndsAfter(run[v][s]))
    BY <1>1, <1>5, <2>1 DEF OccInv, UnderLease
  <2> QED
    BY <1>1, <2>1, <2>2 DEF Scheduled, EndsAfter
<1> QED
  BY <1>1, <1>4, <1>5 DEF OccInv, Scheduled

LEMMA NextOcc == ASSUME IInv, OccInv, [Next]_vars PROVE OccInv'
<1>1. CASE Tick
  BY <1>1, TickOcc
<1>2. ASSUME NEW w \in Workers, Process(w) PROVE OccInv'
  <2>1. ASSUME NEW s \in Slots, RunStep(w, s) \/ SendBeat(w, s) \/ BeatArrives(w, s) PROVE OccInv'
    BY <2>1, AcquireOcc, BeatOcc, HandlerEndsOcc, MarkSucceededOcc, MarkFailedOcc DEF RunStep
  <2>2. CASE Start(w) \/ Poll(w) \/ Stopped(w)
    BY <2>2, StutterOcc DEF Start, Poll, Stopped
  <2> QED
    BY <1>2, <2>1, <2>2, EnsureOcc, PollAnswerOcc DEF Process
<1>3. ASSUME NEW w \in Workers, Stop(w) \/ Exit(w) PROVE OccInv'
  BY <1>3, StopOcc
<1>4. CASE UNCHANGED vars
  BY <1>4, StutterOcc DEF vars
<1> QED
  BY <1>1, <1>2, <1>3, <1>4 DEF Next

\* What a step leaves of the row: it exists once it is created, and its last success stays
\* unless a run whose end was in time records another one.
SuccessInTime ==
    \/ row'.succeededAt = row.succeededAt
    \/ row.succeededAt = Never
    \/ Scheduled(row'.succeededAt)

LEMMA RunRowStep ==
  ASSUME IInv, OccInv, Created, NEW w \in Workers, NEW s \in Slots,
         RunStep(w, s) \/ SendBeat(w, s) \/ BeatArrives(w, s)
  PROVE  Created' /\ SuccessInTime
<1> DEFINE q == run[w][s]
<1>1. row \in RowType /\ (row.lockedBy = w => row.exists)
  BY SchedulerAssumption DEF IInv, TypeOK, Created, NoRow
<1>2. CASE UNCHANGED row
  BY <1>2 DEF Created, SuccessInTime
<1>3. CASE Acquire(w, s)
  <2>1. (row'.exists = row.exists /\ row'.succeededAt = row.succeededAt) \/ UNCHANGED row
    BY <1>1, <1>3 DEF Acquire, RowType
  <2>2. row.exists \/ UNCHANGED row
    BY <1>3 DEF Acquire, LeaseGranted, Due
  <2> QED
    BY <1>2, <2>1, <2>2 DEF Created, SuccessInTime
<1>4. CASE BeatArrives(w, s)
  <2>1. row'.exists = row.exists /\ row'.succeededAt = row.succeededAt /\ (row.exists \/ UNCHANGED row)
    BY <1>1, <1>4 DEF BeatArrives, ExtendLease, RowType, HoldsLease
  <2> QED
    BY <1>2, <2>1 DEF Created, SuccessInTime
<1>5. CASE MarkSucceeded(w, s)
  <2>1. UNCHANGED row \/ (HoldsLease(w, q.at) /\ row'.exists = row.exists /\ row'.succeededAt = q.at)
    BY <1>1, <1>5 DEF MarkSucceeded, Unlocked, RowType
  <2>2. CASE HoldsLease(w, q.at) /\ row'.exists = row.exists /\ row'.succeededAt = q.at
    <3>1. row.exists
      BY <1>1, <2>2 DEF HoldsLease
    <3>2. Scheduled(q.at)
      BY <1>5, <2>2, OutcomeInTime DEF MarkSucceeded
    <3> QED
      BY <2>2, <3>1, <3>2 DEF Created, SuccessInTime
  <2> QED
    BY <1>2, <2>1, <2>2
<1>6. CASE MarkFailed(w, s)
  <2>1. UNCHANGED row
        \/ (HoldsLease(w, q.at) /\ row'.exists = row.exists /\ row'.succeededAt = row.succeededAt)
    BY <1>1, <1>6 DEF MarkFailed, Unlocked, RowType
  <2> QED
    BY <1>1, <1>2, <2>1 DEF Created, SuccessInTime, HoldsLease
<1> QED
  BY <1>2, <1>3, <1>4, <1>5, <1>6 DEF RunStep, HandlerEnds, SendBeat

LEMMA RowStep ==
  ASSUME IInv, OccInv, Created, [Next]_vars
  PROVE  Created' /\ SuccessInTime
<1>1. CASE UNCHANGED row
  BY <1>1 DEF Created, SuccessInTime
<1>2. ASSUME NEW w \in Workers, EnsureJobState(w) PROVE Created' /\ SuccessInTime
  <2>1. row \in RowType /\ (row.exists \/ (row.succeededAt = Never /\ row.lockedBy = Nobody))
    BY DEF IInv, TypeOK, Created
  <2>2. CASE ~row.exists /\ row'.exists
    BY <2>1, <2>2 DEF Created, SuccessInTime
  <2>3. CASE row'.exists = row.exists /\ row'.succeededAt = row.succeededAt /\ row'.lockedBy = row.lockedBy
    BY <2>1, <2>3 DEF Created, SuccessInTime
  <2>4. \/ UNCHANGED row
        \/ ~row.exists /\ row'.exists
        \/ row'.exists = row.exists /\ row'.succeededAt = row.succeededAt /\ row'.lockedBy = row.lockedBy
    BY <1>2, <2>1 DEF EnsureJobState, RowType, NoRow
  <2> QED
    BY <1>1, <2>2, <2>3, <2>4
<1>3. CASE Tick \/ UNCHANGED vars
  BY <1>1, <1>3 DEF Tick, vars
<1>4. ASSUME NEW w \in Workers, Stop(w) \/ Exit(w) \/ Start(w) \/ Poll(w) \/ PollAnswer(w) \/ Stopped(w)
      PROVE  Created' /\ SuccessInTime
  BY <1>1, <1>4 DEF Start, Poll, PollAnswer, Stopped, Stop, Exit
<1> QED
  BY <1>2, <1>3, <1>4, RunRowStep DEF Next, Process

LEMMA SpecOcc == Spec => [](IInv /\ OccInv /\ Created)
<1>1. IInv /\ OccInv /\ Created /\ [Next]_vars => (IInv /\ OccInv /\ Created)'
  BY NextIInv, NextOcc, RowStep
<1> QED
  BY <1>1, InitIInv, InitOcc, PTL DEF Spec

\* Between two recorded successes lies an occurrence of a schedule, whichever processes poll,
\* lose the lease, fail or come back late in between: markJobSucceeded of a run that another
\* run has superseded finds its guard on lockedBy false, and nextRunAt is never behind.
THEOREM OccurrencesDoneOnce == Spec => OccurrenceDoneOnce
<1> DEFINE A == row'.succeededAt # row.succeededAt /\ row.succeededAt # Never /\ ~row.rescheduled
                  => \E period \in Periods : NextOccurrence(period, row.succeededAt) <= row'.succeededAt
<1>1. IInv /\ OccInv /\ Created /\ [Next]_vars => [A]_vars
  BY RowStep DEF SuccessInTime, Scheduled
<1>2. Spec => [][A]_vars
  <2> HIDE DEF A
  <2> QED
    BY <1>1, SpecOcc, PTL DEF Spec
<1> QED
  BY <1>2 DEF OccurrenceDoneOnce
=============================================================================
