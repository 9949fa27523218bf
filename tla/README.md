# A TLA+ model of the SSambee backend

SSambee is a Node.js service (Express, Prisma, PostgreSQL) that instructors of private
academies use to run their lectures: students and parents enrol, exams are graded, questions
are answered, assistants help, and the instructors pay for monthly passes and credits. Several
instances of the API server and one or more scheduler processes share the database.

This directory models the parts whose correctness depends on what happens *between* two
statements: what a second request, a second process, a crash or a late answer does to them.
Every definition is translated from the TypeScript sources, `prisma/schema.prisma` included;
`PROJECT.json` gives the lines of each one.

1. [Inventory of the system](#1-inventory-of-the-system)
2. [The modules](#2-the-modules)
3. [Billing](#3-billing)
4. [Scheduler](#4-scheduler)
5. [Requests, scenes and history](#5-requests-scenes-and-history)
6. [Classroom](#6-classroom)
7. [School](#7-school)
8. [What the runs check](#8-what-the-runs-check)
9. [What is proved](#9-what-is-proved)
10. [What the code does otherwise than its tests say](#10-what-the-code-does-otherwise-than-its-tests-say)
11. [Behaviour worth knowing that no text speaks about](#11-behaviour-worth-knowing-that-no-text-speaks-about)
12. [Not modelled](#12-not-modelled)
13. [Plan](#13-plan)

## 1. Inventory of the system

All state that survives a request is in PostgreSQL; the API server keeps none between
requests. So the components interact through rows, through calls between services, and through
the middlewares (`auth`, `billing-access`) that run before a handler. The service's
transactions run at READ COMMITTED unless they say otherwise; one of them is SERIALIZABLE. Files are
in S3 and users in better-auth's tables, and neither takes part in a transaction.

| Component (source) | State | Operations | What is hard | What makes it correct |
|---|---|---|---|---|
| Billing (`billing.service`, `billing.repo`) | payments with their items, entitlements (monthly passes), credit buckets, credit ledger, wallet, revocation histories | order, approve, reject, cancel, admin grant, refund, reconcile, consume credits | every endpoint reconciles; handlers of one instructor overlap; refunds and expiries write absolute amounts they read before; a serializable transaction with retries next to READ COMMITTED ones | a payment is decided once; its benefits appear with the approval; one pass at a time, in line; credits are never spent twice; the ledger explains the balance; a refund revokes once |
| Scheduler (`scheduler.service`, `scheduler.repo`, `run-scheduler`) | one row per job with a lease; running jobs of each process | start, poll, lease, heartbeat, succeed, fail, stop | processes that stall, crash or are replaced; lost answers; late heartbeats; clocks read before the statement is sent | an occurrence is done once; a lost holder is replaced; a lease identifies one run; stop waits for what runs |
| Sign-up and sessions (`auth.service`, `auth.middleware`) | users, accounts and sessions (better-auth), profiles | verify an address, sign up by role, sign in and out, withdraw | better-auth commits on its own, next to a database transaction; sessions cached in a cookie | who was removed is not admitted; a failed sign-up can be repeated |
| Assistants and administrators (`assistants`, `assistant-codes`, `admins` services) | assistants with a sign status, codes, administrators | create a code, use it, approve, reject, expel; invite, activate | the removal of a user commits inside a transaction that may roll back; statuses read long before they are written | a code's mark comes with its assistant; an expelled assistant stays out; an activated administrator stays active |
| Enrollments (`enrollments`, `lectures`, `parents`, `profile` services) | enrollments, lecture enrollments, links to students and parents | enrol, create a lecture with its list, migrate, edit, remove; register a child; edit a profile | linking by phone numbers from both sides at once; numbers that change on either side | whoever comes last, both are linked; linked rows carry the same numbers |
| Exams and grading (`exams`, `grades`, `statistics`, `clinics` services) | exams, questions, answers, grades, statistics, clinics, reports | edit the exam, submit grading, complete, compute statistics, update clinics, write and upload reports | the exam edited while it is graded; lists read before the transaction that uses them; numbers both stored and computed | answers come with a grade; clinics are those of who failed; pages agree |
| Assignments (`assignments`, `assignment-results`, `assignment-categories` services) | categories with presets, assignments, results | edit each, single and bulk results | an index checked against presets that change; a strict and a lenient bulk | a result is one of the presets |
| Attendances (`attendances.service`) | one row per seat and day | record, record many, delete | the lecture's status read before and within the transaction | only of a lecture that was in progress |
| Questions and comments (`student-posts`, `comments` services) | questions with an answer status, comments, attachments in S3 | ask, comment, edit, delete, change the status | the status read before an upload and written after it; files removed before rows | the status says whether an answer came; rows name files that are there |
| Library (`materials`, `assistant-order`, `instructor-posts` services) | materials, orders with copied links, announcements | upload, replace, delete; order; announce | links copied into other rows; an edit of some fields checked together with the others | rows name files that are there; an announcement for a lecture names it |
| Planner (`schedules`, `schedule-categories` services, products of `billing.service`) | schedules, categories, products | create, edit, delete | field-by-field edits checked against what was read | what an edit leaves, the check would accept |
| Dashboards and pages | none | read | the same number taken from different places | they agree |
| Permissions (`permission.service`, `casl/`) | none | ability of a role on a resource | stateless | - |
| Files, mail, Kakao tokens, logging | none of their own | calls to external services | pure I/O | - |
| HTTP shell and deployment (`app.ts`, `deploy.sh`, nginx) | the process | serve, shut down gracefully, replace the container | requests cut off when a process is replaced | covered as the failure of a request |

How they meet: the management routes (lectures, attendances, materials, instructor posts and
others) pass through the `billing-access` middleware, which asks BillingService for an active
entitlement, which reconciles; so do the session lookup and the profile. The scheduler's only
job, `billing-reconcile`, once a day by default, calls `BillingService.reconcileAllBilling`.
Sign-up writes through the enrollments repository to link what was entered for a phone number
before, and a profile hands its new numbers on the same way. Grading, statistics, clinics and
reports work on the rows of one exam; a removed seat takes all of them along. Comments move the
answer status of questions. Orders copy links of materials, announcements name them.

The hazards, each at its line, with the property that looks for it, are in `PROJECT.json`.

## 2. The modules

| Module | What it is |
|---|---|
| `Billing` | BillingService for one instructor, at the granularity of its statements |
| `BillingViews` | what it answers about those rows: revocations, estimates, access |
| `BillingContract` | what BillingService promises, one action per commit, no passes, dates or locks |
| `SumProofs` | what a sum over a finite set is, for any set |
| `BillingContractProofs` | theorems about `Billing` for requests that overlap: types, locks and decisions; credits, and the contract |
| `BillingSerialProofs` | theorems about `Billing` and `BillingViews` for one request at a time |
| `Scheduler`, `SchedulerProofs` | SchedulerService in several processes that share one job, and theorems about it |
| `Server` | requests in flight, each at a step of its handler |
| `Lectures` | one lecture and its seats |
| `Grading` | the exam of that lecture: questions, grades, statistics, clinics, reports |
| `Classwork` | its assignments with their results, and its attendance |
| `Classroom` | the three together, with the assignments on the exam's report |
| `GradeViews` | the pages and dashboards built from the rows of `Classroom` |
| `Accounts` | users, sessions, profiles, assistants, codes, administrators |
| `Roster` | enrollments, seats and links, over `Accounts` |
| `Board` | questions, comments and their files, over `Roster` |
| `Library` | materials, orders, announcements, over `Board` |
| `Planner` | schedules, their categories, products |
| `School` | the five together |
| `ClassroomProofs` | theorems about `Classroom` |
| `GradeViewsProofs` | theorems about `GradeViews`: its pages agree; types, ranks and rates of `Classroom` |
| `SchoolProofs` | theorems about `School`: its accounts and its roster |
| `BoardProofs` | theorems about `School`: its board, library and planner |
| `MCBilling`, `MCScheduler`, `MCClassroom`, `MCSchool` | instances for TLC: symmetry, scenes, papers |

`Lectures` and `Roster` both have lectures: the first the inside of one lecture, for which seats are
all alike; the second which seats there are, whatever happens in them.

Requests and processes are interchangeable: no definition, property or constant names one of
them, so permuting them is a symmetry. It is used only in runs without liveness properties.

## 3. Billing

**State.** `payment`, `pass` and `bucket` are the committed rows of payments (each with its
single item), entitlements and credit buckets. A pass is named by its item and its sequence
number and a bucket by its item, as the unique keys of the schema have it. The credit ledger is
kept as four sums in the bucket its rows name (`granted`, `used`, `expired`, `adjusted`), the
revocation histories as a count in their target, and the log of decisions as a count in the
payment. `req[r]` holds the handler a request runs and its local variables (what it read
before: lists, amounts, the latest end of a pass); `pend[r]` the rows its open transaction has
written, which other requests do not see and cannot lock; `stale[r]` what others committed
since the snapshot of a serializable transaction.

**Transactions.** A read returns the committed row, or the one the transaction itself wrote
(`View`). A write needs the row's lock (`Needs`, `Unblocked`), a commit publishes all writes at
once, an abort forgets them. An action is one write, or several with nothing in between that
another request could notice, together with the reads up to the next write. Reads that follow
each other directly are merged into one instant. The wallet row is written and never
read back, but writing it takes its lock and conflicts with a serializable transaction, so it
is there as a lock and as an entry of `stale`. `consumeCredits` reads one snapshot and fails
with P2034 when a row it writes was changed since; serialization failures PostgreSQL reports
for other reasons are the same as these to the program and are left out. A lock cycle is broken
by aborting any one of its transactions (`DeadlockAbort`); for the serializable one Prisma may
report that as P2034, which is retried, or as another error, which is not: both happen. Any
request may fail at any moment (`Fail`): Prisma's transaction timeout, a lost connection, a
process that `deploy.sh` replaces. What it committed before stays.

**Handlers.**

| Handler | Actions |
|---|---|
| `createBankTransferPayment` | `Purchase` |
| `createAdminCreditGrant` | `AdminGrant`, then a reconcile |
| `approvePayment` | `ReadPending`, `Decide`, `Provision`, then a reconcile |
| `rejectPayment`, `cancelInstructorPayment` | `ReadPending`, `Decide`, then (reject only) a reconcile |
| `updatePaymentRefundStatus` | `ReadRefund`, `CancelPass`/`ReadPack`, `Clawback`, `AdjustLedger`, `FinishRefund`, then a reconcile |
| `reconcileInstructorState` (reads, session lookups, scheduler) | `BeginRead`, `ReadDue`, `ExpirePass`, `ActivatePass`, `GrantIncluded`, `ExpireBucket`, `ExpireLedger`, `CloseReconcile` |
| `consumeCredits` | `BeginUse`, a reconcile, `ReadCredits`, `Spend`, `UseLedger`, `Conflict` |

`consumeCredits` is public and tested but has no caller in the API yet; it is modelled as if a
request called it.

"Then a reconcile" is `getPayment`, which answers after the commit in a transaction of its own;
its failure leaves the commit in place. A reconcile carries the time it was called with (`at`),
which for the scheduler is the time its run was triggered, and may be arbitrarily behind the
clock when it reads.

**Abstractions.** Days have `DayTicks` ticks, months `MonthDays` days; a pass ends one tick
before a day ends and the next begins one tick later, as one millisecond separates them in
`date.util.ts`. The length of a calendar month does not matter to any property. A payment has
one item, as every purchase creates it. Rows that tie in an ORDER BY are taken in any
order. The 120 iterations after which a reconcile gives up are not reached with so few rows.

**Contract.** `KeepsContract` says that each step of any request, mapped to
(status, granted, available, used), is a step of `BillingContract` or changes none of these:
a payment is decided once, its credits appear with the approval or with the start of its
first month, a use takes a whole request from credits that are there, and a settlement only
ever takes a bucket to zero or opens it once.

**What holds only for requests that do not overlap.** `OneActivePass`, `PassesDisjoint`,
`RevokedOnce`, `NoCreditsOfCanceledPass`, `LedgerExplainsBalance` and `RefundsNewestFirst`
are checked with one request at a time (any sequence of them, any failure). With two,
the code does not keep the first five: two approvals both see no pass (run
`BillingTwoApprovals`); two refunds both revoke (`BillingTwoRefunds`); a refund that read a
pass as QUEUED cancels it after a reconcile activated it, and its credits stay spendable
(`NoCreditsOfCanceledPass`); a refund or an expiry beside a use, or two expiries of one bucket,
write a ledger row with an amount that is no longer there (`LedgerExplainsBalance`). The latter
two contradict no text of the repository, so they are described here and not listed as
findings. What does hold for overlapping requests is in `BillingOverlap`.

## 4. Scheduler

**State.** `row` is the job's row of `scheduled_job_states` (`lockedBy`, `lockedUntil`,
`nextRunAt`, `lastSucceededAt`, the fingerprint of its schedule as a period). `worker[w]` is
where a process is in `start()`, `poll()` and `stop()`; `run[w][s]` is an execution of
`runJob`, with the local variables `startedAt`/`finishedAt` (`at`), `leaseLost`, and the
heartbeats that are on their way. `leasedFor` and `rescheduled` are history variables of the
row. A process is never restarted: its worker id contains a random UUID, so a restarted
scheduler is another element of `Workers`. One job is modelled: jobs have rows of their own
and share nothing but the process.

**Time.** All processes read one clock. Every guarded UPDATE carries a time its process read
before sending it; the statement may take effect any number of ticks later. Clock skew between
processes is not modelled (the guards compare two application clocks, so skew larger than
the lease would break any such scheme). A schedule is a period: `NextOccurrence` is strictly
after the given time, `FirstOccurrence` includes it, as the minus one millisecond in
`calculateInitialNextRunAt` makes it.

**Failures.** Any statement may fail without effect, or take effect and lose its answer: a lost
acquisition ends the run as "crashed" with the lease held; a lost heartbeat counts as a lost
lease and aborts the handler; a lost success is followed by `markJobFailed`; a lost failure is
logged. A process may end at any moment (`Exit`), with its statements in flight lost or done.
A poll that lists nothing or fails changes nothing and is no step.

**Fairness.** A process that is up executes what it started: the write of `ensureJobState`,
the answer of a poll, the steps of a run (the handler ends: the reconcile is a finite loop).
Polls run every 15 seconds, so one that could see a due job again and again finally does
(strong fairness of `Poll`), and statements do not fail for ever: an acquisition that could be
granted again and again finally is. Nothing is assumed of heartbeats, of the clock, or of
processes starting, stopping or staying alive. `DueJobIsTaken` adds the assumption it needs as
its premise: some process is up from some moment on.

## 5. Requests, scenes and history

`Server` is shared by `Classroom` and `School`. `req[r]` is the call that request `r` is
serving: a record with the handler (`op`), the next `step`, and the handler's local variables as
further fields. A handler is cut wherever it awaits something and another request could notice:
a query outside a transaction is a step, and a transaction, at READ COMMITTED, is a step for each
query whose answer it uses, of which the last also makes its writes visible. Writes of a
transaction that is still open block others by row locks (`UserLocked`, `ExamLocked`, `GradeLocked`,
`StatisticLocked`, `ResultLocked`): who needs the row waits. A handler with one query is one step
(`Serve`). `Abort` ends a request anywhere: the process is replaced, the connection lost, the
transaction timed out, S3 or better-auth refused. What was committed before it stays.

**Scenes.** All handlers at once would need several calls each before anything interesting
happens, which is out of TLC's reach. A scene names the handlers that clients call in a
behaviour, how often at most altogether, and (in `School`) where it starts. A behaviour picks one
scene and keeps it. The scenes are grouped by what handlers share: rows one reads and another
writes. Each handler is in one scene at least, every step of every handler is taken in some
behaviour, and every pair of handlers that touch the same rows with a step in between is in a
common scene. Pairs without common rows commute and are left apart.

**Starts.** `Classroom` starts with a lecture that has not begun, its seats, and an exam with
one question nobody has answered. `School` starts empty; with verified addresses and a fresh code;
with a student and a parent, both signed up, and the student's enrollment in a lecture; or with an
assistant at work and an enrollment without accounts. The last three are what the handlers make
of the first.

**History.** Some properties except what a stale read may legitimately do, and some say what
happened before. The variables and fields for it decide no guard: `current`
(which derived data counts every grade), `counted` (the questions whose statistics do), `overtaken` (a request, or an edited row, that read
before another one wrote), `reshaped` (assignments whose presets changed), `opened` (the lecture
was in progress once), `history` of an enrollment (`raced`, `released`, `resynced`,
`edited`, `mixed`), `answered` (staff commented), `lost` (files that died with a request).

## 6. Classroom

`Grading` keeps one exam (`exam`, `question`), and per seat the `answer`s, the `grade`, the
`clinic` and the `report`, with the `statistic` of each question and the report `files` in S3. Question
ids are never used again; a list of questions is a paper, which maps numbers to kind, key and score.

| Handler | Actions |
|---|---|
| `createExam`, `updateExam`, `deleteExam` | `BeginCreateExam`, `CreateExam`; `UpdateExam`; `BeginDeleteExam`, `DeleteExam` |
| `submitGrading` | `BeginSubmit`, `GradeAnswers`, `RecheckExam`, `SaveGrading` |
| `completeGrading` | `BeginComplete`, `CompleteOnly` or `ReadFailedGrades`, `ReadClinics`, `SyncClinics` |
| `updateClinics` | `BeginUpdateClinics`, `UpdateClinics` |
| `calculateAndSaveStatistics` | `BeginStatistics`, `CountGrades`, `CountAnswers` per question, `RankGrades`, `SaveStatistics` |
| reports | `BeginDescribeReport`, `DescribeReport`; `BeginUploadReport`, `UploadFile`, `SaveReportUrl` |
| categories, assignments, results | `Begin...` and its write; `BeginBulk`, `BulkItem` per item, `EndBulk` |
| attendance | `BeginAttendance`, `BeginBulkAttendance`, `CheckAttendance`, `WriteAttendance`; `BeginDeleteAttendance`, `EraseAttendance` |
| `updateExamReportAssignments` | `BeginShow`, `ReadLinks`, `SaveLinks` |
| lecture and seats | `UpdateLecture`, `DeleteLecture`; `BeginRemoval`, `Withdraw` |

Cascades of the schema are part of the action that deletes: a seat takes answers, grade, clinic,
report, results and attendance along (`GradingForgets`, `ClassworkForgets`), an exam and an
assignment their links (`Unlink`).

`GradeViews` has the pages: a student's grades, the grade's detail, clinics, attendance and
dashboard; the instructor's list, report, statistics, clinics and dashboard. `ReportsAgree`
relates them: ranks that are computed and ranks that are stored, averages from the grades and from
the exam's row, counts from answers and from statistics, scores in the list of clinics.
The average is kept as a sum and a number, rates are rounded as the code rounds them. What is said of
rates is said of the questions in `counted`: one that came after the statistics read the list of
questions is not counted by them, and shows 0 or what an older calculation made of it (section 11).
Lists are in the order the query asks for (`InOrder`), rows with equal keys as the database has them.

## 7. School

`Accounts` has one record per user for better-auth's row, the type its cached session
names (`session`, which may be older than the row), the profiles, and the rows of assistants and
administrators. A sign-up goes `SetPassword`, `SetType` (both of which better-auth commits),
then `SaveProfile` or, for an assistant, `FindCode` and `CreateAssistant`. A removed user
stays `gone`: a user stands for its address, and another sign-up is another user.

`Roster` has enrollments with phone numbers of student and parent. Linking is by equality of both
(`StudentOf`, `LinkOf`) and happens on five occasions: an enrollment is made alone or with a
lecture, or edited; a student signs up; a child is registered; a profile changes. Each is two steps
where the code reads and then writes, so each can miss what the others are doing, which
`NoMissedLink` accounts for by `raced`.

`Board` and `Library` share the files in S3 (`stored`, `uploads`), of which a request brings at
most one. `Drop` removes any subset of what it is asked to, since S3 may refuse; a request that
dies in between leaves rows that name files that are gone (`lost`), which is what the
code does and `FilesStored` excepts by name. Keys of uploads are never drawn twice.

`Planner` stands beside them with rows of its own. Its edits, and those of announcements, are
read, checked as a whole and written field by field; `EditsKeepRowsFit` says that the check is
enough as long as no other edit comes in between.

## 8. What the runs check

| Run | Instance | Properties | Shows |
|---|---|---|---|
| `BillingSerial` | one request, two two-month passes and a pack, a use of 3 credits, a month of 2 days, a pack of 3, 5 days | `OneActivePass`, `PassesDisjoint`, `RevokedOnce`, `NoCreditsOfCanceledPass`, `LedgerExplainsBalance`, `RefundsNewestFirst`, `RefundFitsUse`, `AccessFollowsPass` | the bookkeeping of passes and credits, and what is shown of it, over long sequences of calls and failures |
| `BillingOverlap` | two requests of all seven kinds, a pass and an admin grant, retry limit 2, 2 ticks | `TypeOK`, `DecidedOnce`, `DecisionIsFinal`, `BenefitsFollowApproval`, `NeverOverspent`, `NearestExpiryFirst`, `KeepsContract` | what survives every overlap, deadlock, conflict and failure |
| `BillingProgress` | two requests, two one-month passes, 2 ticks, no failures from outside | `RequestsEnd`, `ReadyPassIsActivated` | requests end and passes begin |
| `BillingTwoApprovals`, `BillingSecondMonth`, `BillingTwoRefunds` | see section 10 | one each | findings |
| `SchedulerSchedule` | two processes, periods 2 and 3, lease of 2, 4 instants, one run at a time | `TypeOK`, `OccurrenceDoneOnce` | an occurrence is recorded as done once |
| `SchedulerTakeover` | two processes with two runs each, lease of 1, one heartbeat in flight per run, 2 instants | `LeaseIsOfRun`, `DueJobIsTaken` | a lease names one run; a job is never stranded |
| `SchedulerStop` | one process, two runs | `StopEndsRuns` | finding |
| `Classroom` | two requests, 18 scenes of 2 to 4 calls, 3 seats, 3 question ids, 2 assignments, 2 categories, 1 day | `TypeOK`, `AnswersComeWithGrade`, `ClinicsFollowGrades`, `ReportsAgree`, `ReportUrlHasFile`, `ResultsAreOfPresets`, `AttendanceAfterOpening`, `GradedExamKept`, `ReportShowsList` | rows about one lecture hang together and pages agree |
| `School` | two requests, 30 scenes of 2 to 5 calls, 3 users, 2 phone numbers, 2 codes, 2 enrollments, 2 lectures, 3 files, one or two rows of each other kind | `TypeOK`, `CodesSpent`, `ExpelledNotAdmitted`, `NoMissedLink`, `PhonesInStep`, `DroppedIffDeleted`, `StatusTellsAnswer`, `FilesStored`, `EditsKeepRowsFit`, `ActivatedStays` | accounts, links, statuses and files survive each other's changes |
| `SignUpRetry` | one request, one student's sign-up | `SignUpCanBeRetried` | finding |

*Why the bounds are enough.* The overlap hazards of Billing are between two handlers that read
the same row before either writes it, so two requests reach all of them; a third adds only
that two of them finish in between, which one request reusing its slot does as well. One
two-credit grant next to a one-credit pass makes a use span two buckets, which the retry and
the order of draining need. In `BillingSerial` months of two days and a horizon of five let the
first month end (after day 2), the second be due and end (after day 4), the pack lapse between the
two (after day 3) and a pass of the other payment be chained behind or begin at once. In `BillingProgress` the horizon lets a month end and the queued one of
the other payment come due. The scheduler's races involve a holder and a taker, one heartbeat
and one lease boundary; four instants hold two occurrences of the period 2 and a retry between
them. Two slots per process let a run end and another start while heartbeats of the first are
in flight.

In `Classroom` and `School` two requests at a time suffice for the same reason as in Billing. Three
seats tell apart who passed, who failed and who was not graded, and let two scores tie; three
question ids let a question be kept, dropped and added; two presets let an index fall off the
list; two phone numbers tell a student's from a parent's and allow exactly one change. Three files
are an old one, a new one and one of another row. The number of calls in a scene is what its longest
hazard needs: make a row, read it, change it, write it back, and for a clinic or a status one more.

*Bounds in the model.* `Horizon` ends the clock (in `Planner`, the calendar), `Scenes` limit the calls, `MaxFiles` the uploads, `RetryLimit` is the code's constant 3 (2 where
that is enough to retry once), `Slots` limits the runs of a process that are remembered together,
`BeatLimit` the heartbeats in flight per run. Deadlock is checked in the Billing runs. It
is switched off in the Scheduler runs, where nothing is left to do when the clock is at its end and
all processes have ended, and in `Classroom` and `School`, where clients stop calling.

*Fairness in Billing.* `SteadySpec` drops the failures from outside and assumes that a server
keeps executing a request that can go on and that somebody keeps reconciling: the
scheduler's job does so every day, and every management request of the instructor, through the
access guard. The reconcile needs
strong fairness: with finitely many requests in the instance, another handler may occupy all
of them again and again, which the real server has no limit to match.

Every property has a mutant of the code in `PROJECT.json` that breaks it: a dropped status
guard, a side effect moved out of its transaction, a list taken in the wrong order, a ledger
row not written, a lease that is granted from an out-of-date list, and so on. The mutated
definitions stand in the modules directly before the ones they replace.

## 9. What is proved

The theorems hold for every value of the constants that satisfies the modules' assumptions: any
finite numbers of requests and payments, any credits, periods, prices and limits in Billing
(`BillingAssumption`, `PriceAssumption`); any sets of processes and schedules, any lease
(`SchedulerAssumption`); any sets of requests, scenes, seats, questions, papers, users, codes, phone
numbers, posts and files in `Classroom` and `School`. Of those the proofs use that a lecture's and an
enrollment's status is one of the enum's (`LecturesAssumption`, `RosterAssumption`); that no user,
number, code, enrollment or post is the value for a missing one, and no question is an
announcement (`AccountsAssumption`, `RosterAssumption`, `BoardAssumption`); that a bulk request is a list
of items (`ClassworkAssumption`); that seats, questions, choices and days are
finitely many, as they are counted, and a list of questions has no more than there are ids for
(`LecturesAssumption`, `GradingAssumption`, `ClassworkAssumption`); and that calls, uploads and the calendar are counted by
natural numbers (`ServerAssumption`, `BoardAssumption`, `PlannerAssumption`).

None of the properties is inductive, and mostly for one reason: a handler writes by what it read
steps ago. So each invariant below says, step by step of a handler, what its reading is still worth,
next to what the committed rows say of each other.

| Module | Invariant | What it adds to the properties |
|---|---|---|
| `BillingContractProofs` | `IInv` | types of all rows, open writes and locals; locks exclude each other |
| `BillingContractProofs` | `JInv` | whose payment a transaction writes for, and by how much its buckets differ from the committed ones |
| `BillingContractProofs` | `OInv` | which buckets a spending transaction still has before it |
| `BillingSerialProofs` | `SInv`, `NInv` | the rows a transaction sees, and its lists against them |
| `SchedulerProofs` | `IInv`, `OccInv` | one run per process and job; an occurrence lies before whatever may be recorded next |
| `ClassroomProofs` | `IInv`, `ClinicInv` | what submissions, completions, deletions and uploads read |
| `ClassroomProofs` | `PresetInv`, `LinksInv` | the presets an index was checked against; the links a request found |
| `GradeViewsProofs` | `TypeInv` | the shape of every call; scores, ranks and counts are numbers |
| `GradeViewsProofs` | `CountInv`, `MarkedOK` | what a statistics request has counted is still so, unless it was overtaken; a mark that is there was written |
| `SchoolProofs` | `IInv`, `RosterInv` | what sign-ups and staff requests, and enrolments and edits, read |
| `BoardProofs` | `TypedInv`, `AnswerInv`, `FilesInv` | the shape of every call; who is answered; who owns a file |

### Billing, whatever overlaps

**`BillingContractProofs!TypeCorrect`** (`Spec => []TypeOK`), **`PaymentDecidedOnce`**
(`Spec => []DecidedOnce`) and **`DecisionsAreFinal`** (`Spec => DecisionIsFinal`). A row that one request
has staged is committed after any number of commits of others. The invariant `IInv` adds

- `LocalsOK`: what a handler remembers fits its next statement (a payment where it decides or
  refunds, a pass item where it cancels or activates, a credit item where it spends);
- `LocksFit`: no two open transactions hold the lock of one row, and the payment rows they hold
  exist;
- `Decisions`: a staged payment row has a status its log explains, and the committed row under
  it is still undecided or already has that status.

Each step of a handler has one of three outcomes (`Outcome`): it stages, commits or rolls back.
One lemma for each step says so and that what it stages or commits fits, and the theorem has three
cases instead of twenty. The commits are where the argument is: `Decide` holds
the payment's lock from the moment it has seen the row pending (`StillPending`) until `Provision`
commits, so no other transaction can change the row in between (`CommitFits`), and a refund
writes the row with the status it has. Without the lock the log would still show one
decision, but a rejection could be overwritten by an approval that started earlier; that is
why `DecisionIsFinal` is a theorem of its own.

**`BillingContractProofs!BenefitsFollow`** (`Spec => []BenefitsFollowApproval`),
**`CreditsNotOverspent`** (`Spec => []NeverOverspent`) and **`ImplementsContract`**
(`Spec => KeepsContract`): every commit of every request is one step of `BillingContract` or a stutter,
for any number of requests. `JInv` says of each open transaction that it has written passes and
buckets of approved payments only, or is the one that approves (`Approving`); that
a bucket it wrote differs from the committed one by credits that lapse, begin or are used (`Settled`,
`Spent`); and, for `consumeCredits`, that a row of its snapshot is as it was read or is marked in `stale`
(`Fresh`), so that a commit that is not refused takes what is there. That the uses of all buckets
add up to the amount asked for needs sums over sets of any size: **`SumProofs`** derives them, for
the library's `MapThenSumSet`, from the well-foundedness of the subsets of a finite set.

**`NearestExpiryTakenFirst`** (`Spec => NearestExpiryFirst`). The argument (`OInv`) rests on a detail of
the code that is easily lost: credits only ever appear, or are left in a bucket, in
a transaction that also writes the wallet's row. So a bucket that a spending transaction does not
have in its list either had no credits to take, or the wallet's row makes the transaction fail.

### Billing, one request at a time

**`BillingSerialProofs`** proves the six invariants and two action properties the run
`BillingSerial` checks, without its bounds: **`OnePassRuns`**, **`MonthsDoNotOverlap`**,
**`RevocationsAreFinal`**, **`CreditsGoWithThePass`**, **`LedgerIsComplete`**, **`RefundsTakeTheNewest`**,
**`AccessIsExact`** and **`RefundsAreExact`**, each `ASSUME OneAtATime PROVE Spec => ...`. The hypothesis
is the case the run has (a set of one request) and cannot be dropped: section 3 says what overlapping
requests do instead, section 10 shows two of them. Everything else is arbitrary: months per payment,
lengths of months, credits, instants, failures anywhere.

`SInv` says of the rows a transaction sees, its own writes included, what the properties say of the
committed ones; and of its lists that they are these rows still (`Hand`): a refund has chosen the newest
queued passes (`NewestFirst`), a reconcile has no pass left that is over (`Walked`), an approval knows the
latest end of an open pass (`LatestKnown`), a bucket about to lapse is worth what was read (`Lapsing`).
The windows stay apart since a new one starts after the latest end; a
pass begins only when no other is active. `NInv` adds for `RefundFitsUse` the share of its price that a
canceled pass gives back, and that a pack is revoked only for credits that were there.

### Scheduler

**`SchedulerProofs!TypeCorrect`** (`Spec => []TypeOK`) and **`LeaseNamesItsRun`**
(`Spec => []LeaseIsOfRun`). `LeaseIsOfRun` needs that a process has at most one run of the job
(`OneRun`, what `runningJobs` is for): a second run could take over the expired lease of the
first, and the guards on `lockedBy` could no longer tell them apart. `IInv` also says that a
process without a configuration runs nothing. The lemma `RunChange` covers every step of a run:
it leaves the lease alone, gives it up, or takes it for the run that made the step.

**`OccurrencesDoneOnce`** (`Spec => OccurrenceDoneOnce`): between two recorded successes lies an
occurrence of a schedule. `OccInv` hands the promise of `nextRunAt` on to the lease: it was granted at
or after `nextRunAt`, the run that holds it ends later (`EndsAfter`), and a run the row does not name
records nothing. The one exception, which the property names, is a `start()` that moved `nextRunAt`.

### Classroom

**`ClassroomProofs!RowsHangTogether`** (`Spec => []AnswersComeWithGrade`), **`LinksLead`**
(`Spec => []ReportUrlHasFile`), **`AttendanceIsOfALecture`** (`Spec => []AttendanceAfterOpening`)
and **`NotDeletedKnowingly`** (`Spec => GradedExamKept`). `RequestOK` says what a reading is still worth when
the write comes:

- a submission that leaves the exam's status alone saw that grading had started, and it still has;
- the seats that get a clinic had a grade; each has it still, or its seat or the exam went with it
  (`GradedOrGone`), and then the foreign keys fail the transaction;
- a deletion of the exam that nothing overtook saw an exam without grades, and there are none;
- an upload that saves its link has stored its file;
- a request that writes attendance saw the lecture in progress.

`Kept` is what the rows have to do for that to last: grading is not undone, a grade only goes with its
seat or exam, files stay, an opened lecture was opened. Every step keeps `Kept`; `RequestKept` and
`OvertakenKept` conclude for the other requests at once, so the step lemmas only speak of
the rows they change. The rows' types are in `IInv` as far as the argument needs them; the
rest of `TypeOK` has an invariant of its own.

**`ClinicsAreOfTheFailed`** (`Spec => []ClinicsFollowGrades`): as long as no grade was saved since, a
completed exam's clinics are those of the students who failed. Two completions may work side by
side. `ClinicInv` therefore says of each that what it is about to create and to drop leads to
exactly those who failed from whatever the other has made of the clinics meanwhile (`CompletionOK`).

**`ResultsFitPresets`** (`Spec => []ResultsAreOfPresets`). An index is compared with the presets long
before it is written: by another statement of the handler, or, in a bulk, with a copy read for an earlier
item. `PresetInv` says that it fits the presets of an assignment which is there and not reshaped (`Fits`), of
the copies that they are these presets (`Remembered`), and of a strict bulk that what it has
checked is still there (`Checked`). The last one is where the locks matter: a commit writes all items
without looking again, and only because the rows it wrote are locked can no assignment, category or seat
under them have gone. What a step has to leave alone is one formula (`PresetsLast`), and each step that
adds, changes or deletes categories and assignments is proved to.

**`SavedListIsShown`** (`Spec => ReportShowsList`). A request adds its list and removes the links it
found outside the list. `LinksInv` says that it found all of them unless another list was saved meanwhile:
links only come with a list, and that overtakes the others. It also says that links lead to
assignments that exist and are none once the exam is deleted, so a step that leaves exam and
assignments alone and changes the links is a saved list.

**`GradeViewsProofs!ClassroomTypes`** (`Spec => []TypeOK`). `TypeInv` gives each handler the set of its calls
(`SubmitCalls`, `StatisticsCalls` and so on). That a score is a number rests on what a sum over a finite
set is (`ScoresAdd`, by `SumProofs`); that a rank is, on the next theorem; that ids of questions do
not run out, on the lists being finite (`NewRowsAre`).

**`LoopRanksLikePages`** (`Spec => [](Ranks = [s \in Graded |-> RankShown(s)])`). The statistics rank in a
loop over the grades sorted by score, in which an equal score takes the rank before it; a student's page
counts the better scores. They are the same for any number of students and ties. The loop is a function
defined by recursion: by a smallest position where they differ, there is only one that satisfies its
equation (`RankLoopAgrees`), and counting the better ones does (`RankLoopCounts`). A finite set can be put in
order in the first place (`OrderExists`), and the order leaves nobody out (`InOrderIs`).

**`PagesAgree`** (`Spec => []ReportsAgree`, for a class of at most 2222). `CountInv` says that, as
long as no grade was saved or removed since, the stored ranks, average and number of participants are those of
the grades there are, and the statistic of each question in `counted` is what counting its answers now would
give. To keep that, it follows a statistics request through its queries (`CountsRead`): what it has
counted so far is still so, or it was overtaken. Two such requests may overlap, and any edit of the exam
come between; ids that are never given out twice (`IdsOK`) keep a new question from being taken for one that
was counted. `CountLast` has in one formula what a step must leave alone, for all steps that have nothing
to do with grades. The rest is arithmetic: the choices of a question do not add up to more than those who
answered (`ChoicesAdd`), those not absent are those present, late or gone early (`AttendanceShows`), and who
was wrong is seen in the rounded rate (`RateOfSome`). The last one needs the bound: of 2223 students a
single wrong answer leaves 99.96% right, and the report's rate of wrong answers, with one decimal, says
0.0%. It is the one hypothesis of a theorem that the code does not enforce; the rest of `ReportsAgree`
does not use it.

### School

**`SchoolProofs!CodesAreSpent`** (`Spec => []CodesSpent`), **`ExpelledStayOut`**
(`Spec => []ExpelledNotAdmitted`), **`ActivationLasts`** (`Spec => ActivatedStays`) and
**`AccountsTyped`** (`Spec => []AccountsTypeOK`). They are about `Accounts`, in the composition with
everything else: `...Frames` lemmas show that the handlers of the other parts leave the accounts alone
and begin nothing on them, other than profiles that hand on phone numbers. `IInv` follows
what requests remember: a sign-up its user, who is neither new nor an administrator, and its code, handed
out when the assistant is created; the instructor's request a row that was there, whose user is gone
when the row is deleted. `ExpelledStayOut` rests on `AssistantOK`: a deleted row has lost its user, and a
user who is gone is admitted by no session; an approval that comes late cannot bring it back.

**`RosterTyped`** (`Spec => []RosterTypeOK`), **`NoLinkIsMissed`** (`Spec => []NoMissedLink`),
**`PhonesStayInStep`** (`Spec => []PhonesInStep`) and **`DroppedAreDeleted`** (`Spec => []DroppedIffDeleted`).
The three properties are proved together, row by row (`RowOK`), for the five occasions on which rows are
linked: each of them either finds whoever goes by the numbers (`Claimed`), or leaves behind a row that
nobody goes by (`Unclaimed`), or marks it in its history. The proof needs that a profile's number is its own
(`ProfilesDistinct`, the unique keys of the schema) and that a child link is held by a parent
(`LinksHeld`).

**`BoardProofs!Typed`** (`Spec => []TypeOK`) and **`EditsFit`** (`Spec => []EditsKeepRowsFit`). `TypedInv`
gives each handler of `Board`, `Library` and `Planner` the set of its calls (`EditPostCall`,
`EditNoticeCall` and so on) and says of an edit that the row with its fields passed the check;
a row that has not changed since (`overtaken`) is then the one that was checked.

**`StatusIsAnswer`** (`Spec => []StatusTellsAnswer`): a question waits exactly as long as no staff has
commented. What a comment read of the status may be old when it writes; `AnswerInv` says what survives:
who found the question answered writes to one that is, or that is gone (`Settled`).

**`FilesAreStored`** (`Spec => []FilesStored`). A request removes files before it rewrites the rows that
name them, so one has to know that no other row names them. `FilesInv` gives every upload one owner:
the request that brought it, until it writes a row, and from then on that row, even when the row is gone.
Owners are not part of the state; the invariant says that they can be assigned, and each step says how.
The claims of a request in flight (`EditPostClaims`, `DeletePostClaims` and so on) say which rows it has
still to rewrite.

### What the proofs found

- `FilesStored` was not quite what the code keeps: a material that is deleted
  while its file is being replaced keeps a link to the file that is gone (section 11), and orders may
  have copied that link. No run reached it, as no scene had an order, a replacement and a deletion
  together. The exception is now in the model's history (`SaveMaterial`), the property covers the rows of
  deleted materials too, and a scene has the four calls.
- `MCSchool`'s constants had kept questions and announcements apart, and the model relied on it without
  saying so; `BoardAssumption` and `RosterAssumption` now do.
- `AssignmentsFree` and `ClassworkForgets`, which make a deletion wait for the rows a strict bulk has written,
  asked every request whether another one held them. With a single request nobody was asked, and a
  deletion could pass; now every request is asked whether it holds them (`HoldsResult`). With two requests, as in
  the run, both say the same, which is why no run could tell. `ClassworkAssumption` had not said that
  a bulk request is a sequence of items.
- `ReportsAgree` was not quite what the code keeps, either. A calculation reads the list of questions before its
  transaction. Suppose one has, and then a question is added, a second calculation counts it and commits,
  and a grade is saved; when the first goes on, it counts every grade there is and says so, but not the new
  question, which keeps the second one's counts, without the last student. Their page may then say that nobody
  was right while they were. The proof stopped at this question; TLC found the trace once a scene had the four
  calls, which the run now has. The property speaks of the questions of the last complete calculation
  (`counted`), and section 11 of the others.
- `Lectures`, `Classwork` and `Grading` had not said that students, days and choices are finitely many, which
  their counts and sums rely on.

### What stays with the model checker

Liveness (`RequestsEnd`, `ReadyPassIsActivated`, `DueJobIsTaken`): the proof system has neither fairness
nor ENABLED. Every other property of a passing run is a theorem.

## 10. What the code does otherwise than its tests say

- **Two approvals, two active passes** (`BillingTwoApprovals`). `provisionPassEntitlements`
  looks for the latest entitlement at READ COMMITTED without locking anything of the
  instructor. Two approvals that overlap both find none and both activate.
- **The second month never begins** (`BillingSecondMonth`). The upsert of the included credits
  is keyed by entitlement, but the schema has a second unique key, on item and source type. For
  the second pass of an item the insert fails, the whole reconcile rolls back, and so
  does every later one of that instructor.
- **Two refunds revoke twice** (`BillingTwoRefunds`). The refund decides from histories it read
  without a lock; two that overlap both write the revocation and the ledger row.
- **A sign-up that cannot be repeated** (`SignUpRetry`). better-auth commits the user's final type
  before the transaction that creates the profile. If the request dies in between, or another
  sign-up took the phone number, the next attempt is refused as already complete.
- **A run that stop() does not wait for** (`SchedulerStop`). `poll()` looks at `stopped` before
  it awaits the due jobs and not after, so it may start a run after `stop()` has collected the
  ones to abort and to wait for.

`PROJECT.json` quotes the sentence of the test that each run contradicts.

## 11. Behaviour worth knowing that no text speaks about

What the models had to admit, and no document or test of the repository promises otherwise:

- One code may make two assistants: `markAsUsed` reports that it changed nothing, and nobody looks.
- A question added after the statistics read the questions is not counted: its rate shows as 0 until
  statistics are computed again, whoever was right; or, if another calculation that overlaps had counted it,
  what that one saw, though a grade has been saved since and the rest of the page counts it.
- The stored rank and average of the instructor's pages are those of the last statistics, a
  student's are computed at each call.
- Edits of two fields of one row that overlap may leave a schedule that ends before it starts, a
  credit pack without credits, or an announcement for a lecture that names none.
- An edit of a question that keeps some attachments and brings a new file removes all old files
  from S3 and keeps the rows of those it was to keep.
- An order's copy of a material's link is dead once the material gets a new file. If the material is
  deleted while its file is replaced, the old file is removed from S3 and the row's new link never saved.
- A comment of the staff that read the question as waiting sets it to REGISTERED even if the asker
  closed it meanwhile.
- Both dashboards: exams and clinics of a deleted lecture still count for the instructor and not
  for the student.
- A refund beside a reconcile or a use may leave credits of a canceled pass, or a ledger that
  explains more than was granted (section 3).
- `refundStatus` may go back from COMPLETED to PENDING, as the caller says.
- Two releases of the scheduler with different cron texts that start together leave the
  next occurrence of whichever wrote last.
- `reconcileAllBilling` stops at the first instructor whose reconcile throws.

## 12. Not modelled

- Several instructors: their rows are disjoint. Only `reconcileAllBilling` goes over several, one after
  the other; its stop between two is left out with them.
- Changes and resets of passwords and e-mail addresses, which better-auth does alone; the names and
  roles of users; instructors' and assistants' own profile fields.
- `autoCompleteExpiredPosts`, which nothing in `src/` calls.
- `updateReceiptRequest` (one column nobody reads), the wallet's cached sums, scheduler columns
  nobody reads, weekly hours of lectures, memos and other texts.
- Lists with search and paging, other than those in `GradeViews`, `BillingViews` and `PostStats`;
  today's hours and announcements of the dashboards; statistics by month.
- Permissions beyond the reach of a student or parent on the board: stateless, evaluated at the start
  of a handler, and here all rows belong to one instructor.
- Presigned links, mail, Kakao tokens, logging, monitoring: calls to the outside that change nothing here.
- Routing, validation of shapes, wiring, deployment and load tests. Migrations: the models have the
  schema they lead to.
- More than one transaction isolation anomaly per query: at READ COMMITTED a single statement is taken
  to see one instant.

## 13. Plan

What is left, in the order of what it would add:

1. A composition of the scheduler's run with reconciles of several instructors (the handler's loop,
   its abort, its first failure).
2. Passwords and addresses in `Accounts`, should this code come to keep state about them.
