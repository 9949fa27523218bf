------------------------------- MODULE Grading -------------------------------
(***************************************************************************)
(* ExamsService, GradesService, StatisticsService and ClinicsService: the  *)
(* life of one exam of the lecture.  Answers are graded and saved with the *)
(* grade, grading is declared complete, which creates clinics for those    *)
(* who failed, statistics are computed from answers and grades, reports    *)
(* are written per grade, and the exam is edited or deleted meanwhile.     *)
(*                                                                         *)
(* Transactions are READ COMMITTED (Prisma's default here): each query of  *)
(* one sees what is committed when it runs.                                *)
(***************************************************************************)
EXTENDS Lectures, FiniteSetsExt, SequencesExt

CONSTANTS
    QuestionIds,  \* rows of Question: 1..n, taken in order and never again
    Papers,       \* question lists of a request: by number, kind, key and score
    FirstPapers,  \* those of the exam that is there at first
    Cutoffs,      \* passing scores
    Options       \* the choices of a multiple-choice question

ASSUME GradingAssumption ==
    /\ IsFiniteSet(QuestionIds) /\ QuestionIds = 1 .. Cardinality(QuestionIds)
    /\ Cutoffs \subseteq Nat /\ FirstPapers \subseteq Papers /\ IsFiniteSet(Options)
    /\ \A paper \in Papers :
         /\ IsFiniteSet(DOMAIN paper) /\ DOMAIN paper \subseteq Nat
         /\ Cardinality(DOMAIN paper) <= Cardinality(QuestionIds)
         /\ \A n \in DOMAIN paper : paper[n] \in [kind: {"MULTIPLE", "ESSAY"}, key: Options, score: Nat]

VARIABLES
    exam,       \* the exam's row
    question,   \* rows of Question, by id
    minted,     \* the last question id that was taken
    answer,     \* rows of StudentAnswer, by seat and question id
    grade,      \* rows of Grade, by seat
    clinic,     \* rows of Clinic, by seat
    statistic,  \* rows of QuestionStatistic, by question id
    report,     \* rows of GradeReport, by seat
    files,      \* objects of the reports bucket
    current,    \* history: derived data that counts every grade there is
    counted     \* history: questions whose statistic does

gradingVars == <<exam, question, minted, answer, grade, clinic, statistic, report, files, current, counted>>

(***************************************************************************)
(* Rows.                                                                   *)
(***************************************************************************)
ExamRow == [status: {"NONE", "PENDING", "IN_PROGRESS", "COMPLETED", "DELETED"}, cutoff: Nat,
            isAutoClinic: BOOLEAN, gradesCount: Nat, average: [sum: Nat, of: Nat]]
NoExam == [status |-> "NONE", cutoff |-> 0, isAutoClinic |-> TRUE, gradesCount |-> 0,
           average |-> [sum |-> 0, of |-> 0]]

QuestionRow == [number: Nat, kind: {"MULTIPLE", "ESSAY"}, key: Options, score: Nat]
NoQuestion == [number |-> 0]
AnswerRow == [submitted: Options \cup {"text"}, isCorrect: BOOLEAN]
NoAnswer == [submitted |-> "none"]
GradeRow == [score: Nat, isPass: BOOLEAN, rank: Nat]
NoGrade == [score |-> 0]
NoRank == 0
ClinicRow == [status: {"NONE", "PENDING", "SENT", "COMPLETED"}, id: Nat]
StatisticRow == [submissions: Nat, correct: Nat, chosen: [Options -> Nat]]
NoStatistic == [submissions |-> 0]
ReportRow == [exists: BOOLEAN, url: Nat]
NoUrl == 0
NoReport == [exists |-> FALSE, url |-> NoUrl]

GradingTypeOK ==
    /\ LecturesTypeOK
    /\ exam \in ExamRow
    /\ question \in [QuestionIds -> QuestionRow \cup {NoQuestion}]
    /\ minted \in QuestionIds \cup {0}
    /\ answer \in [Students -> [QuestionIds -> AnswerRow \cup {NoAnswer}]]
    /\ grade \in [Students -> GradeRow \cup {NoGrade}]
    /\ clinic \in [Students -> ClinicRow]
    /\ statistic \in [QuestionIds -> StatisticRow \cup {NoStatistic}]
    /\ report \in [Students -> ReportRow]
    /\ files \subseteq Nat /\ current \subseteq {"clinics", "statistics"} /\ counted \subseteq QuestionIds

ExamExists == exam.status \notin {"NONE", "DELETED"}
Questions == {q \in QuestionIds : question[q] # NoQuestion}
Graded == {s \in Students : grade[s] # NoGrade}
Failed == {s \in Graded : ~grade[s].isPass}
WithClinic == {s \in Students : clinic[s].status # "NONE"}
Answered(q) == {s \in Students : answer[s][q] # NoAnswer}

\* The rows that the numbers of `new` get, by the ids after `last`, and the row of a new exam.
RowOf(paper, n) == [number |-> n, kind |-> paper[n].kind, key |-> paper[n].key, score |-> paper[n].score]
NewRows(paper, new, last) ==
    LET IdOf(n) == last + Cardinality({m \in new : m <= n})
    IN  [q \in {IdOf(n) : n \in new} |-> RowOf(paper, CHOOSE n \in new : IdOf(n) = q)]
NewExam(cutoff, auto) == [NoExam EXCEPT !.status = "PENDING", !.cutoff = cutoff, !.isAutoClinic = auto]

GradingOps == {"createExam", "updateExam", "deleteExam", "submitGrading", "completeGrading", "statistics",
               "updateClinics", "describeReport", "uploadReport", "showAssignments"}

\* Nothing is graded yet; there is an exam, unless the clients are to create it.
GradingInit ==
    /\ IF scene.ops \cap GradingOps = {} \/ "createExam" \in scene.ops
       THEN /\ exam = NoExam /\ minted = 0
            /\ question = [q \in QuestionIds |-> NoQuestion]
       ELSE \E cutoff \in Cutoffs, paper \in FirstPapers, auto \in BOOLEAN :
              /\ exam = NewExam(cutoff, auto) /\ minted = Cardinality(DOMAIN paper)
              /\ question = LET rows == NewRows(paper, DOMAIN paper, 0)
                            IN  [q \in QuestionIds |-> IF q \in DOMAIN rows THEN rows[q] ELSE NoQuestion]
    /\ answer = [s \in Students |-> [q \in QuestionIds |-> NoAnswer]]
    /\ grade = [s \in Students |-> NoGrade]
    /\ clinic = [s \in Students |-> [status |-> "NONE", id |-> 0]]
    /\ statistic = [q \in QuestionIds |-> NoStatistic]
    /\ report = [s \in Students |-> NoReport]
    /\ files = {} /\ current = {} /\ counted = {}

(***************************************************************************)
(* A request that read grades, and what it read is no longer all there is: *)
(* `overtaken` is history.                                                 *)
(***************************************************************************)
Overtake(ops, call) ==
    IF call.op \in ops /\ "overtaken" \in DOMAIN call THEN [call EXCEPT !.overtaken = TRUE] ELSE call

\* r's handler ends with a change of grades, and the requests of `ops` are overtaken by it.
ReplyOvertaking(r, ops) ==
    /\ req' = [q \in Requests |-> IF q = r THEN Idle ELSE Overtake(ops, req[q])]
    /\ UNCHANGED <<scene, calls>>

\* The first statement of a submission that reopens grading locks the exam's row until the commit.
ExamLocked(r) == \E q \in Requests \ {r} : At(q, "submitGrading", "commit") /\ req[q].reopens
\* A statistics transaction that wrote the ranks holds those rows.
GradeLocked(r, s) == \E q \in Requests \ {r} : At(q, "statistics", "commit") /\ s \in DOMAIN req[q].ranks
\* So does it with the statistics of the questions it has done.
StatisticLocked(r, i) ==
    \E q \in Requests \ {r} : req[q].op = "statistics" /\ req[q].step # "count" /\ i \in DOMAIN req[q].rows

(***************************************************************************)
(* Questions.                                                              *)
(***************************************************************************)
NewNumbers(paper) == DOMAIN paper \ {question[q].number : q \in Questions}
KeptBy(paper) == {q \in Questions : question[q].number \in DOMAIN paper}

\* Upsert by number: a number there is keeps its row's id, one that is missing loses its row.
SetQuestions(paper) ==
    LET new == NewNumbers(paper)
        rows == NewRows(paper, new, minted)
    IN  /\ minted + Cardinality(new) <= Cardinality(QuestionIds)
        /\ minted' = minted + Cardinality(new)
        /\ question' = [q \in QuestionIds |->
                          IF q \in DOMAIN rows THEN rows[q]
                          ELSE IF q \in KeptBy(paper) THEN RowOf(paper, question[q].number) ELSE NoQuestion]

BeginCreateExam(r) ==
    /\ exam.status = "NONE" /\ LectureFound
    /\ Begin(r, "createExam", [op |-> "createExam", step |-> "insert"])
    /\ UNCHANGED gradingVars

CreateExam(r) ==
    /\ At(r, "createExam", "insert")
    /\ exam.status = "NONE"
    /\ \E cutoff \in Cutoffs, auto \in BOOLEAN :
         exam' = NewExam(cutoff, auto)
    /\ \E paper \in Papers : SetQuestions(paper)
    /\ Reply(r)
    /\ UNCHANGED <<answer, grade, clinic, statistic, report, files, current, counted>>

(***************************************************************************)
(* updateExam.  Its transaction starts with an UPDATE of the exam's row,   *)
(* which fails if the exam is gone, whatever was read before.              *)
(***************************************************************************)
UpdateExam ==
    /\ Serve("updateExam")
    /\ ExamExists /\ \A r \in Requests : ~ExamLocked(r)
    /\ \E cutoff \in Cutoffs, auto \in BOOLEAN :
         exam' = [exam EXCEPT !.cutoff = cutoff, !.isAutoClinic = auto]
    /\ \/ UNCHANGED <<question, minted, answer, statistic, counted>>
       \/ \E paper \in Papers :
            /\ \A q \in Questions \ KeptBy(paper), r \in Requests : ~StatisticLocked(r, q)
            /\ SetQuestions(paper)
            /\ answer' = [s \in Students |-> [q \in QuestionIds |->
                            IF q \in KeptBy(paper) THEN answer[s][q] ELSE NoAnswer]]
            /\ statistic' = [q \in QuestionIds |-> IF q \in KeptBy(paper) THEN statistic[q] ELSE NoStatistic]
            /\ counted' = counted \cap KeptBy(paper)
    /\ UNCHANGED <<grade, clinic, report, files, current>>

(***************************************************************************)
(* deleteExam: only before grading, by the status the handler read.        *)
(***************************************************************************)
DeletableInAnyStatus == ExamExists
Deletable == exam.status = "PENDING"

BeginDeleteExam(r) ==
    /\ Deletable
    /\ Begin(r, "deleteExam", [op |-> "deleteExam", step |-> "delete", overtaken |-> FALSE])
    /\ UNCHANGED gradingVars

DeleteExam(r) ==
    /\ At(r, "deleteExam", "delete")
    /\ IF ExamExists
       THEN /\ ~ExamLocked(r)
            /\ \A s \in Students : ~GradeLocked(r, s)
            /\ \A q \in QuestionIds : ~StatisticLocked(r, q)
            /\ exam' = [exam EXCEPT !.status = "DELETED"]
            /\ question' = [q \in QuestionIds |-> NoQuestion]
            /\ answer' = [s \in Students |-> [q \in QuestionIds |-> NoAnswer]]
            /\ grade' = [s \in Students |-> NoGrade]
            /\ clinic' = [s \in Students |-> [clinic[s] EXCEPT !.status = "NONE"]]
            /\ statistic' = [q \in QuestionIds |-> NoStatistic]
            /\ report' = [s \in Students |-> NoReport]
            /\ current' = {} /\ counted' = {}
       ELSE UNCHANGED <<exam, question, answer, grade, clinic, statistic, report, current, counted>>
    /\ Reply(r)
    /\ UNCHANGED <<minted, files>>

(***************************************************************************)
(* submitGrading.                                                          *)
(***************************************************************************)
\* A multiple-choice answer is right if it is the key, and the client must agree; of an essay the
\* client's verdict counts.
Verdicts(q) ==
    IF question[q].kind = "ESSAY"
    THEN {[submitted |-> "text", isCorrect |-> b] : b \in BOOLEAN}
    ELSE {[submitted |-> c, isCorrect |-> c = question[q].key] : c \in Options}

\* The answers a request may carry and not be refused: some of the questions, each once.
Sheets ==
    UNION {{f \in [asked -> UNION {Verdicts(q) : q \in asked}] : \A q \in asked : f[q] \in Verdicts(q)} :
            asked \in SUBSET Questions \ {{}}}

ScoreOf(sheet) == MapThenSumSet(LAMBDA q : question[q].score, {q \in DOMAIN sheet : sheet[q].isCorrect})

BeginSubmit(r) ==
    /\ ExamExists /\ LectureFound
    /\ \E s \in enrolled :
         Begin(r, "submitGrading", [op |-> "submitGrading", step |-> "grade", seat |-> s, cutoff |-> exam.cutoff])
    /\ UNCHANGED gradingVars

\* Grade the answers by the questions there are now and the passing score read before.
GradeAnswers(r) ==
    /\ At(r, "submitGrading", "grade")
    /\ \/ \E sheet \in Sheets :
            Proceed(r, [op |-> "submitGrading", step |-> "recheck", seat |-> req[r].seat, sheet |-> sheet,
                        score |-> ScoreOf(sheet), isPass |-> ScoreOf(sheet) >= req[r].cutoff, reopens |-> FALSE])
       \/ Reply(r)   \* an answer to no question, or a sum the client got wrong
    /\ UNCHANGED gradingVars

\* Inside the transaction the exam is read again.
RecheckExam(r) ==
    /\ At(r, "submitGrading", "recheck")
    /\ \/ /\ exam.status = "IN_PROGRESS"
          /\ Proceed(r, [req[r] EXCEPT !.step = "commit"])
       \/ /\ ExamExists /\ exam.status # "IN_PROGRESS" /\ ~ExamLocked(r)
          /\ Proceed(r, [req[r] EXCEPT !.step = "commit", !.reopens = TRUE])
       \/ ~ExamExists /\ Reply(r)
    /\ UNCHANGED gradingVars

AnswersSavedAlone(r) == grade' = grade

SavesGrade(r) ==
    LET c == req[r] IN
    grade' = [grade EXCEPT ![c.seat] =
                [score |-> c.score, isPass |-> c.isPass,
                 rank |-> IF c.seat \in Graded THEN grade[c.seat].rank ELSE NoRank]]

\* The rows the saved ones refer to must exist, or the transaction fails.
SaveGrading(r) ==
    LET c == req[r] IN
    /\ At(r, "submitGrading", "commit")
    /\ IF ExamExists /\ c.seat \in enrolled /\ DOMAIN c.sheet \subseteq Questions
       THEN /\ ~GradeLocked(r, c.seat)
            /\ exam' = IF c.reopens THEN [exam EXCEPT !.status = "IN_PROGRESS"] ELSE exam
            /\ answer' = [answer EXCEPT ![c.seat] =
                            [q \in QuestionIds |-> IF q \in DOMAIN c.sheet THEN c.sheet[q] ELSE answer[c.seat][q]]]
            /\ SavesGrade(r)
            /\ current' = {} /\ counted' = {}
            /\ ReplyOvertaking(r, {"completeGrading", "statistics", "deleteExam"})
       ELSE Reply(r) /\ UNCHANGED <<exam, answer, grade, current, counted>>
    /\ UNCHANGED <<question, minted, clinic, statistic, report, files>>

(***************************************************************************)
(* completeGrading: clinics follow the failing grades, then the exam is    *)
(* COMPLETED.                                                              *)
(***************************************************************************)
BeginComplete(r) ==
    /\ ExamExists /\ LectureFound
    /\ Begin(r, "completeGrading",
             [op |-> "completeGrading", step |-> IF exam.isAutoClinic THEN "grades" ELSE "status",
              closes |-> exam.status # "COMPLETED"])
    /\ UNCHANGED gradingVars

\* Without automatic clinics only the status changes.
CompleteOnly(r) ==
    /\ At(r, "completeGrading", "status")
    /\ IF req[r].closes /\ ExamExists
       THEN /\ ~ExamLocked(r)
            /\ exam' = [exam EXCEPT !.status = "COMPLETED"]
            /\ current' = current \ {"clinics"}
       ELSE UNCHANGED <<exam, current>>
    /\ Reply(r)
    /\ UNCHANGED <<question, minted, answer, grade, clinic, statistic, report, files, counted>>

ReadFailedGrades(r) ==
    /\ At(r, "completeGrading", "grades")
    /\ Proceed(r, [op |-> "completeGrading", step |-> "clinics", closes |-> req[r].closes, failed |-> Failed,
                   overtaken |-> FALSE])
    /\ UNCHANGED gradingVars

ReadClinics(r) ==
    LET create == req[r].failed \ WithClinic
        drop == WithClinic \ req[r].failed
    IN  /\ At(r, "completeGrading", "clinics")
        /\ IF create # {} \/ drop # {} \/ req[r].closes
           THEN Proceed(r, [op |-> "completeGrading", step |-> "commit", closes |-> req[r].closes,
                            create |-> create, drop |-> drop, overtaken |-> req[r].overtaken])
           ELSE Reply(r)
        /\ UNCHANGED gradingVars

StaleClinicsStay(c) ==
    [s \in Students |->
        IF s \in c.create \ WithClinic THEN [status |-> "PENDING", id |-> clinic[s].id + 1] ELSE clinic[s]]

\* deleteMany, then createMany with skipDuplicates: a clinic that appeared meanwhile is left as it is.
SyncedClinics(c) ==
    [s \in Students |->
        IF s \in c.drop THEN [clinic[s] EXCEPT !.status = "NONE"]
        ELSE IF s \in c.create \ WithClinic THEN [status |-> "PENDING", id |-> clinic[s].id + 1]
        ELSE clinic[s]]

\* A clinic needs its seat and its exam: without them the whole transaction fails.
SyncClinics(r) ==
    LET c == req[r] IN
    /\ At(r, "completeGrading", "commit")
    /\ IF c.create \subseteq enrolled /\ (ExamExists \/ (c.create = {} /\ ~c.closes))
       THEN /\ c.closes => ~ExamLocked(r)
            /\ clinic' = SyncedClinics(c)
            /\ exam' = IF c.closes THEN [exam EXCEPT !.status = "COMPLETED"] ELSE exam
            /\ current' = IF c.overtaken THEN current \ {"clinics"} ELSE current \cup {"clinics"}
            /\ IF c.overtaken THEN ReplyOvertaking(r, {"completeGrading"}) ELSE Reply(r)
       ELSE Reply(r) /\ UNCHANGED <<clinic, exam, current>>
    /\ UNCHANGED <<question, minted, answer, grade, statistic, report, files, counted>>

\* updateClinics: every clinic of the request exists, then those that still do are updated.
BeginUpdateClinics(r) ==
    /\ LectureFound
    /\ \E seats \in SUBSET WithClinic \ {{}} :
         Begin(r, "updateClinics", [op |-> "updateClinics", step |-> "update",
                                    ids |-> [s \in seats |-> clinic[s].id]])
    /\ UNCHANGED gradingVars

UpdateClinics(r) ==
    LET ids == req[r].ids
        left == {s \in DOMAIN ids \cap WithClinic : clinic[s].id = ids[s]}
    IN  /\ At(r, "updateClinics", "update")
        /\ \E status \in {"PENDING", "SENT", "COMPLETED"} :
             clinic' = [s \in Students |-> IF s \in left THEN [clinic[s] EXCEPT !.status = status] ELSE clinic[s]]
        /\ Reply(r)
        /\ UNCHANGED <<exam, question, minted, answer, grade, statistic, report, files, current, counted>>

(***************************************************************************)
(* calculateAndSaveStatistics.                                             *)
(***************************************************************************)
\* A set in the order of its keys: elements of the same key come as the database has them.
InOrder(S, key) == CHOOSE seq \in SetToSeqs(S) : \A i, j \in DOMAIN seq : i < j => key[seq[i]] <= key[seq[j]]

BeginStatistics(r) ==
    /\ ExamExists /\ Questions # {}
    /\ Begin(r, "statistics",
             [op |-> "statistics", step |-> "count",
              todo |-> InOrder(Questions, [q \in Questions |-> question[q].number])])
    /\ UNCHANGED gradingVars

CountGrades(r) ==
    /\ At(r, "statistics", "count")
    /\ Proceed(r, [op |-> "statistics", step |-> "answers", todo |-> req[r].todo, submissions |-> Cardinality(Graded),
                   rows |-> <<>>, overtaken |-> FALSE])
    /\ UNCHANGED gradingVars

CountsEveryAnswer(q, submissions) ==
    [submissions |-> submissions, correct |-> Cardinality(Answered(q)), chosen |-> [c \in Options |-> 0]]
AnswerCounts(q, submissions) ==
    [submissions |-> submissions,
     correct |-> Cardinality({s \in Answered(q) : answer[s][q].isCorrect}),
     chosen |-> [c \in Options |-> Cardinality({s \in Answered(q) : answer[s][q].submitted = c})]]

\* One query per question, in turn.
CountAnswers(r) ==
    LET c == req[r]
        q == Head(c.todo)
    IN  /\ At(r, "statistics", "answers") /\ c.todo # <<>>
        /\ ~StatisticLocked(r, q)
        /\ Proceed(r, [c EXCEPT !.todo = Tail(@),
                                !.rows = [p \in DOMAIN @ \cup {q} |->
                                            IF p = q THEN AnswerCounts(q, c.submissions) ELSE @[p]]])
        /\ UNCHANGED gradingVars

\* The grades from the highest score: a grade that equals the one before has its rank.
Ranks ==
    LET order == InOrder(Graded, [s \in Graded |-> -grade[s].score])
        rank[i \in DOMAIN order] ==
            IF i > 1 /\ grade[order[i]].score = grade[order[i - 1]].score THEN rank[i - 1] ELSE i
    IN  [s \in Graded |-> rank[CHOOSE i \in DOMAIN order : order[i] = s]]

RankGrades(r) ==
    /\ At(r, "statistics", "answers") /\ req[r].todo = <<>>
    /\ \A s \in Graded : ~GradeLocked(r, s)
    /\ Proceed(r, [op |-> "statistics", step |-> "commit", submissions |-> req[r].submissions,
                   rows |-> req[r].rows, ranks |-> Ranks, overtaken |-> req[r].overtaken])
    /\ UNCHANGED gradingVars

AverageOfGrades == [sum |-> MapThenSumSet(LAMBDA s : grade[s].score, Graded), of |-> Cardinality(Graded)]

\* The average is of the grades there are now; it is kept as the fraction it is.
SaveStatistics(r) ==
    LET c == req[r] IN
    /\ At(r, "statistics", "commit")
    /\ IF ExamExists /\ DOMAIN c.rows \subseteq Questions /\ DOMAIN c.ranks \subseteq Graded
       THEN /\ ~ExamLocked(r)
            /\ statistic' = [q \in QuestionIds |-> IF q \in DOMAIN c.rows THEN c.rows[q] ELSE statistic[q]]
            /\ grade' = [s \in Students |->
                           IF s \in DOMAIN c.ranks THEN [grade[s] EXCEPT !.rank = c.ranks[s]] ELSE grade[s]]
            /\ exam' = [exam EXCEPT !.gradesCount = c.submissions, !.average = AverageOfGrades]
            /\ current' = IF c.overtaken THEN current \ {"statistics"} ELSE current \cup {"statistics"}
            /\ counted' = IF c.overtaken THEN counted \ DOMAIN c.rows ELSE counted \cup DOMAIN c.rows
       ELSE UNCHANGED <<statistic, grade, exam, current, counted>>
    /\ Reply(r)
    /\ UNCHANGED <<question, minted, answer, clinic, report, files>>

(***************************************************************************)
(* Reports of a grade.                                                     *)
(***************************************************************************)
BeginDescribeReport(r) ==
    /\ LectureFound
    /\ \E s \in Graded : Begin(r, "describeReport", [op |-> "describeReport", step |-> "upsert", seat |-> s])
    /\ UNCHANGED gradingVars

DescribeReport(r) ==
    /\ At(r, "describeReport", "upsert")
    /\ report' = IF req[r].seat \in Graded THEN [report EXCEPT ![req[r].seat].exists = TRUE] ELSE report
    /\ Reply(r)
    /\ UNCHANGED <<exam, question, minted, answer, grade, clinic, statistic, files, current, counted>>

\* The number of the call stands for the random name of its file.
BeginUploadReport(r) ==
    /\ \E s \in Graded :
         Begin(r, "uploadReport", [op |-> "uploadReport", step |-> "upload", seat |-> s, file |-> calls + 1])
    /\ UNCHANGED gradingVars

StoreNothing(r) == files' = files
StoreFile(r) == files' = files \cup {req[r].file}

UploadFile(r) ==
    /\ At(r, "uploadReport", "upload")
    /\ StoreFile(r)
    /\ Proceed(r, [req[r] EXCEPT !.step = "save"])
    /\ UNCHANGED <<exam, question, minted, answer, grade, clinic, statistic, report, current, counted>>

\* A grade that is gone by now is passed over in silence, and the file stays.
SaveReportUrl(r) ==
    LET c == req[r] IN
    /\ At(r, "uploadReport", "save")
    /\ report' = IF c.seat \in Graded THEN [report EXCEPT ![c.seat] = [exists |-> TRUE, url |-> c.file]] ELSE report
    /\ Reply(r)
    /\ UNCHANGED <<exam, question, minted, answer, grade, clinic, statistic, files, current, counted>>

(***************************************************************************)
(* What goes with a deleted seat.                                          *)
(***************************************************************************)
GradingForgets(s) ==
    /\ answer' = [answer EXCEPT ![s] = [q \in QuestionIds |-> NoAnswer]]
    /\ grade' = [grade EXCEPT ![s] = NoGrade]
    /\ clinic' = [clinic EXCEPT ![s].status = "NONE"]
    /\ report' = [report EXCEPT ![s] = NoReport]
    /\ current' = IF s \in Graded THEN current \ {"statistics"} ELSE current
    /\ counted' = IF s \in Graded THEN {} ELSE counted
    /\ UNCHANGED <<exam, question, minted, statistic, files>>

\* Requests that counted its grade are overtaken by the deletion.
RemovalOvertakes(r, s) == ReplyOvertaking(r, IF s \in Graded THEN {"statistics"} ELSE {})

GradingNext ==
    \/ UpdateExam
    \/ \E r \in Requests :
         \/ BeginCreateExam(r) \/ CreateExam(r) \/ BeginDeleteExam(r) \/ DeleteExam(r)
         \/ BeginSubmit(r) \/ GradeAnswers(r) \/ RecheckExam(r) \/ SaveGrading(r)
         \/ BeginComplete(r) \/ CompleteOnly(r) \/ ReadFailedGrades(r) \/ ReadClinics(r) \/ SyncClinics(r)
         \/ BeginUpdateClinics(r) \/ UpdateClinics(r)
         \/ BeginStatistics(r) \/ CountGrades(r) \/ CountAnswers(r) \/ RankGrades(r) \/ SaveStatistics(r)
         \/ BeginDescribeReport(r) \/ DescribeReport(r)
         \/ BeginUploadReport(r) \/ UploadFile(r) \/ SaveReportUrl(r)

(***************************************************************************)
(* Properties.                                                             *)
(***************************************************************************)

\* Rows hang together whatever is deleted or fails when: an answer has a grade of its student, a
\* grade a seat and an exam whose grading started, a clinic a grade (submitGrading saves both in one
\* transaction; the foreign keys and cascades of the schema do the rest).
AnswersComeWithGrade ==
    /\ \A s \in Students, q \in QuestionIds : answer[s][q] # NoAnswer => s \in Graded /\ q \in Questions
    /\ \A s \in Graded : s \in enrolled /\ exam.status \in {"IN_PROGRESS", "COMPLETED"}
    /\ WithClinic \subseteq Graded
    /\ \A s \in Students : report[s].exists => s \in Graded

\* When an exam is COMPLETED with automatic clinics, the students with a clinic are exactly those who
\* failed, unless a grade was saved after completeGrading read the failing ones: two completions at
\* once, seats deleted and exam edits in between do no harm.
ClinicsFollowGrades == exam.status = "COMPLETED" /\ "clinics" \in current => WithClinic = Failed

\* A report's link leads to a file: the file is stored before the row names it, whatever fails.
ReportUrlHasFile == \A s \in Students : report[s].url # NoUrl => report[s].url \in files

\* An exam with grades is deleted only if grading began while the deletion was under way
\* (deleteExam refuses an exam that is not PENDING, by what it read).
GradedExamKept ==
    [][Graded # {} /\ exam'.status = "DELETED" =>
         \E r \in Requests : At(r, "deleteExam", "delete") /\ req[r].overtaken]_<<exam, grade, req>>
=============================================================================
