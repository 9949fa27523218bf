----------------------------- MODULE Scheduler -----------------------------
(***************************************************************************)
(* SchedulerService: worker processes that share one periodic job through  *)
(* the job's row of scheduled_job_states.  A worker polls for a due job,   *)
(* takes a lease on the row, runs the handler while a heartbeat extends    *)
(* the lease, and records how the run ended, all of it by guarded UPDATEs  *)
(* that carry a time the worker read before it sent them.                  *)
(*                                                                         *)
(* An element of Workers is one process, from start to end: a restarted    *)
(* scheduler has another worker id (run-scheduler.ts draws a new one).     *)
(* Jobs never touch each other's rows; this is the life of one of them.    *)
(* A statement takes effect at any moment after the step that sends it;    *)
(* its answer is handled in the same step.                                 *)
(***************************************************************************)
EXTENDS Integers, FiniteSets

CONSTANTS
    Workers,     \* worker processes
    Nobody,      \* lockedBy of a row without a lease
    Slots,       \* numbers of the runs a process remembers, ended ones included
    Periods,     \* cron schedules: an occurrence at every multiple of the period
    LeaseTtl,    \* ticks a lease lasts
    RetryDelay,  \* ticks until a failed run is tried again
    BeatLimit,   \* heartbeats of a run that may be on their way at once
    Horizon      \* last instant of the bounded clock

ASSUME SchedulerAssumption ==
    /\ Nobody \notin Workers
    /\ Periods \subseteq Nat \ {0} /\ LeaseTtl \in Nat \ {0} /\ RetryDelay \in Nat \ {0}
    /\ Slots \subseteq Nat /\ BeatLimit \in Nat /\ Horizon \in Nat

VARIABLES
    now,     \* the clock, the same for all workers
    row,     \* the job's row of scheduled_job_states
    worker,  \* per process, where it is in start(), poll() and stop()
    run      \* per process and slot, an execution of runJob

vars == <<now, row, worker, run>>

Never == -1

RowType == [exists: BOOLEAN, period: Periods \cup {0}, nextRunAt: Nat, lockedBy: Workers \cup {Nobody},
            leasedFor: Slots \cup {Nobody}, lockedUntil: Nat, succeededAt: Nat \cup {Never}, rescheduled: BOOLEAN]

\* `leasedFor`: the run the lease was taken for; `rescheduled`: start() moved nextRunAt since the
\* last success.  Both are history.
NoRow == [exists |-> FALSE, period |-> 0, nextRunAt |-> 0, lockedBy |-> Nobody, leasedFor |-> Nobody,
          lockedUntil |-> 0, succeededAt |-> Never, rescheduled |-> FALSE]

WorkerType == [phase: {"new", "starting", "up", "stopping", "stopped", "gone"}, period: Periods \cup {0},
               at: Nat, saw: {"nothing", "same", "other"}, listed: BOOLEAN]
NewWorker == [phase |-> "new", period |-> 0, at |-> 0, saw |-> "nothing", listed |-> FALSE]

RunType == [phase: {"none", "acquire", "handler", "succeed", "fail"}, at: Nat,
            leaseLost: BOOLEAN, stopped: BOOLEAN, beats: SUBSET Nat]
NoRun == [phase |-> "none", at |-> 0, leaseLost |-> FALSE, stopped |-> FALSE, beats |-> {}]

(***************************************************************************)
(* The row's guards.                                                       *)
(***************************************************************************)
NextOccurrence(period, t) == ((t \div period) + 1) * period
FirstOccurrence(period, t) == ((t + period - 1) \div period) * period

Due(t) == row.exists /\ row.nextRunAt <= t
NotLeased(t) == row.lockedBy = Nobody
Leasable(t) == row.lockedBy = Nobody \/ row.lockedUntil <= t

\* tryAcquireLease looks at both again, the list of poll() being out of date.
LeaseFree(t) == Leasable(t)
LeaseGranted(t) == Due(t) /\ Leasable(t)

HoldsLease(w, t) == row.lockedBy = w /\ row.lockedUntil > t

UnlockedByEmptyName(r) == [r EXCEPT !.lockedBy = "", !.leasedFor = Nobody, !.lockedUntil = 0]
Unlocked(r) == [r EXCEPT !.lockedBy = Nobody, !.leasedFor = Nobody, !.lockedUntil = 0]

\* A run stands in runningJobs from poll() until its promise is settled.
Active(w, s) == run[w][s].phase # "none"
NothingRunning(w) == FALSE
Running(w) == \E s \in Slots : Active(w, s)
Free(w) == {s \in Slots : run[w][s] = NoRun}

SetWorker(w, f) == worker' = [worker EXCEPT ![w] = f]
SetRun(w, s, q) == run' = [run EXCEPT ![w][s] = q]
\* The promise is settled; heartbeats that were sent are still on their way.
Ended(w, s) == [NoRun EXCEPT !.beats = run[w][s].beats]

(***************************************************************************)
(* start(): ensureJobState reads the row and then creates or updates it.   *)
(***************************************************************************)
Start(w) ==
    /\ worker[w].phase = "new"
    /\ \E period \in Periods :
         SetWorker(w, [worker[w] EXCEPT !.phase = "starting", !.period = period, !.at = now,
                           !.saw = IF ~row.exists THEN "nothing"
                                   ELSE IF row.period = period THEN "same" ELSE "other"])
    /\ UNCHANGED <<now, row, run>>

EnsureJobState(w) ==
    LET job == worker[w]
        initial == FirstOccurrence(job.period, job.at)
    IN  /\ job.phase = "starting"
        /\ \/ /\ job.saw = "nothing" /\ ~row.exists
              /\ row' = [NoRow EXCEPT !.exists = TRUE, !.period = job.period, !.nextRunAt = initial]
           \/ /\ job.saw = "same" \/ (job.saw = "nothing" /\ row.exists)
              /\ UNCHANGED row
           \/ /\ job.saw = "other"
              /\ row' = [row EXCEPT !.period = job.period, !.nextRunAt = initial, !.rescheduled = TRUE]
        /\ SetWorker(w, [job EXCEPT !.phase = "up", !.at = 0, !.saw = "nothing"])
        /\ UNCHANGED <<now, run>>

(***************************************************************************)
(* poll(): list the job if it is due, then start it if it is not running.  *)
(* A poll that lists nothing, or whose query fails, changes nothing.       *)
(***************************************************************************)
Poll(w) ==
    /\ worker[w].phase = "up" /\ ~worker[w].listed
    /\ Due(now) /\ Leasable(now)
    /\ SetWorker(w, [worker[w] EXCEPT !.listed = TRUE])
    /\ UNCHANGED <<now, row, run>>

\* The answer is handled even if stop() was called while the query ran.
PollAnswer(w) ==
    /\ worker[w].listed
    /\ \/ /\ ~Running(w)
          /\ \E s \in Free(w) :
               /\ \A o \in Free(w) : s <= o
               /\ SetRun(w, s, [NoRun EXCEPT !.phase = "acquire", !.at = now])
       \/ Running(w) /\ UNCHANGED run
    /\ SetWorker(w, [worker[w] EXCEPT !.listed = FALSE])
    /\ UNCHANGED <<now, row>>

(***************************************************************************)
(* runJob().                                                               *)
(***************************************************************************)
Acquire(w, s) ==
    LET q == run[w][s]
        leased == [row EXCEPT !.lockedBy = w, !.leasedFor = s, !.lockedUntil = q.at + LeaseTtl]
    IN  /\ q.phase = "acquire"
        /\ \/ /\ LeaseGranted(q.at)
              /\ row' = leased
              /\ \/ SetRun(w, s, [q EXCEPT !.phase = "handler", !.at = 0])
                 \/ SetRun(w, s, Ended(w, s))  \* the answer is lost: the job "crashed"
           \/ UNCHANGED row /\ SetRun(w, s, Ended(w, s))  \* not granted, or the statement fails
        /\ UNCHANGED <<now, worker>>

\* The heartbeat's timer runs until the outcome is recorded.
SendBeat(w, s) ==
    /\ run[w][s].phase \in {"handler", "succeed", "fail"}
    /\ Cardinality(run[w][s].beats) < BeatLimit
    /\ SetRun(w, s, [run[w][s] EXCEPT !.beats = @ \cup {now}])
    /\ UNCHANGED <<now, row, worker>>

\* extendLease; when it extends nothing, or fails, the handler is aborted.
ExtendLease(w, s, t) ==
    LET q == run[w][s]
        lost == [q EXCEPT !.beats = @ \ {t}, !.leaseLost = q.phase \in {"handler", "succeed"}]
        extended == [row EXCEPT !.lockedUntil = t + LeaseTtl]
    IN  /\ t \in q.beats
        /\ \/ /\ HoldsLease(w, t)
              /\ row' = extended
              /\ SetRun(w, s, [q EXCEPT !.beats = @ \ {t}])
           \/ /\ ~HoldsLease(w, t)
              /\ UNCHANGED row /\ SetRun(w, s, lost)
           \/ /\ row' \in {row} \cup (IF HoldsLease(w, t) THEN {extended} ELSE {})
              /\ SetRun(w, s, lost)
        /\ UNCHANGED <<now, worker>>

\* The handler returns, throws, or, once its signal is aborted, throws the AbortError.  After a
\* loss of the lease, and after an abort, nothing is recorded.
HandlerEnds(w, s) ==
    LET q == run[w][s]
    IN  /\ q.phase = "handler"
        /\ \/ \E outcome \in {"succeed", "fail"} :
                SetRun(w, s, IF q.leaseLost THEN Ended(w, s) ELSE [q EXCEPT !.phase = outcome, !.at = now])
           \/ q.stopped /\ SetRun(w, s, Ended(w, s))
        /\ UNCHANGED <<now, row, worker>>

\* markJobSucceeded.  When the statement fails, whether it took effect or not, the run is
\* recorded as failed.
MarkSucceeded(w, s) ==
    LET q == run[w][s]
        done == [Unlocked(row) EXCEPT !.nextRunAt = NextOccurrence(worker[w].period, q.at),
                                      !.succeededAt = q.at, !.rescheduled = FALSE]
        written == IF HoldsLease(w, q.at) THEN done ELSE row
    IN  /\ q.phase = "succeed"
        /\ \/ /\ row' = written
              /\ SetRun(w, s, Ended(w, s))
           \/ /\ row' \in {row, written}
              /\ SetRun(w, s, IF q.leaseLost THEN Ended(w, s) ELSE [q EXCEPT !.phase = "fail", !.at = now])
        /\ UNCHANGED <<now, worker>>

MarkFailed(w, s) ==
    LET q == run[w][s]
        failed == [Unlocked(row) EXCEPT !.nextRunAt = q.at + RetryDelay]
    IN  /\ q.phase = "fail"
        /\ row' \in {row, IF HoldsLease(w, q.at) THEN failed ELSE row}
        /\ SetRun(w, s, Ended(w, s))
        /\ UNCHANGED <<now, worker>>

(***************************************************************************)
(* stop(): clear the timer, abort what runs and wait for it; then the      *)
(* process exits.  It may also be killed at any moment.                    *)
(***************************************************************************)
Stop(w) ==
    /\ worker[w].phase = "up"
    /\ SetWorker(w, [worker[w] EXCEPT !.phase = "stopping"])
    /\ run' = [run EXCEPT ![w] = [s \in Slots |-> [run[w][s] EXCEPT !.stopped = Active(w, s)]]]
    /\ UNCHANGED <<now, row>>

Stopped(w) ==
    /\ worker[w].phase = "stopping"
    /\ \A s \in Slots : ~(Active(w, s) /\ run[w][s].stopped)
    /\ SetWorker(w, [worker[w] EXCEPT !.phase = "stopped"])
    /\ UNCHANGED <<now, row, run>>

Exit(w) ==
    /\ worker[w].phase \notin {"new", "gone"}
    /\ SetWorker(w, [NewWorker EXCEPT !.phase = "gone"])
    /\ run' = [run EXCEPT ![w] = [s \in Slots |-> NoRun]]
    /\ UNCHANGED <<now, row>>

Tick == now < Horizon /\ now' = now + 1 /\ UNCHANGED <<row, worker, run>>

-----------------------------------------------------------------------------
Init ==
    /\ now = 0
    /\ row = NoRow
    /\ worker = [w \in Workers |-> NewWorker]
    /\ run = [w \in Workers |-> [s \in Slots |-> NoRun]]

RunStep(w, s) == Acquire(w, s) \/ HandlerEnds(w, s) \/ MarkSucceeded(w, s) \/ MarkFailed(w, s)
BeatArrives(w, s) == \E t \in run[w][s].beats : ExtendLease(w, s, t)

Process(w) ==
    \/ Start(w) \/ EnsureJobState(w) \/ Poll(w) \/ PollAnswer(w) \/ Stopped(w)
    \/ \E s \in Slots : RunStep(w, s) \/ SendBeat(w, s) \/ BeatArrives(w, s)

Next ==
    \/ Tick
    \/ \E w \in Workers : Process(w) \/ Stop(w) \/ Exit(w)

\* The event loop and the database execute what is started, a handler ends, and statements do
\* not fail for ever: a poll that could see a due job does so in the end, and an acquisition
\* that could take the lease does.  Processes need neither heartbeat nor live.
Spec ==
    /\ Init /\ [][Next]_vars
    /\ \A w \in Workers :
         /\ WF_vars(EnsureJobState(w)) /\ WF_vars(PollAnswer(w)) /\ WF_vars(\E s \in Slots : RunStep(w, s))
         /\ SF_vars(Poll(w)) /\ SF_vars(\E s \in Slots : Acquire(w, s) /\ row' # row)

-----------------------------------------------------------------------------
\* Every column and every local variable has its type.
TypeOK ==
    /\ now \in 0..Horizon
    /\ row \in RowType
    /\ worker \in [Workers -> WorkerType]
    /\ run \in [Workers -> [Slots -> RunType]]

\* When the row says that a process holds the lease, its run is the one the lease was taken
\* for: no outcome is ever recorded of a run that another run has superseded.
LeaseIsOfRun == \A w \in Workers, s \in Slots :
    run[w][s].phase \in {"handler", "succeed", "fail"} /\ row.lockedBy = w => row.leasedFor = s

\* An occurrence of the schedule is recorded as done once: between two successes, unless a
\* start with another schedule moved nextRunAt, there is an occurrence of a schedule.
OccurrenceDoneOnce == [][
    row'.succeededAt # row.succeededAt /\ row.succeededAt # Never /\ ~row.rescheduled
        => \E period \in Periods : NextOccurrence(period, row.succeededAt) <= row'.succeededAt]_vars

\* A due job nobody holds a valid lease of is taken, by any one process that stays up: not a
\* crash, a lost answer or a stopped worker keeps the job from running again.
Claimable == Due(now) /\ row.lockedUntil <= now
DueJobIsTaken == \A w \in Workers : <>[](worker[w].phase = "up") => (Claimable ~> ~Claimable)

\* stop() resolves only after every run of the process has ended.
StopEndsRuns == \A w \in Workers : worker[w].phase = "stopped" => ~Running(w)
=============================================================================
