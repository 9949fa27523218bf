----------------------------- MODULE GradeViews -----------------------------
(***************************************************************************)
(* What the pages about one exam show, to its students and their parents   *)
(* and to the instructor: lists and details of grades, reports,            *)
(* statistics, clinics, attendance and both dashboards.  They read the     *)
(* rows of Classroom and change none.  The same number is computed in two  *)
(* ways: a student's rank and average from the grades there are, the       *)
(* instructor's from what the last statistics stored.                      *)
(*                                                                         *)
(* A student here has one seat, in this lecture.  Averages and rates of    *)
(* attendance are in tenths, rates of answers in hundredths of a percent.  *)
(***************************************************************************)
EXTENDS Classroom

NotFound == [status |-> 404]

\* n / d, rounded to a whole; 0 if there is nothing to divide by.
Rounded(n, d) == IF d = 0 THEN 0 ELSE (2 * n + d) \div (2 * d)

(***************************************************************************)
(* Parts of several pages.                                                 *)
(***************************************************************************)
RankShown(s) == 1 + Cardinality({t \in Graded : grade[t].score > grade[s].score})
AverageShown == Rounded(10 * AverageOfGrades.sum, AverageOfGrades.of)

\* The answer of s to each question, `none` if there is none: then it counts as wrong.
AnswersShown(s) ==
    [q \in Questions |-> [submitted |-> answer[s][q].submitted,
                          isCorrect |-> answer[s][q] # NoAnswer /\ answer[s][q].isCorrect]]

\* A question without statistics shows 0.
CorrectRate(q) == IF statistic[q] = NoStatistic THEN 0 ELSE Rounded(10000 * statistic[q].correct, statistic[q].submissions)
ChoiceRate(q, c) == Rounded(10000 * statistic[q].chosen[c], statistic[q].submissions)
WrongRate(q) == Rounded(10000 - CorrectRate(q), 10)

\* The assignments on the exam's report, with the index of the student's result or null.
Null == -1
AssignmentsShown(s) ==
    [a \in shown |-> [index |-> IF result[a][s].there THEN result[a][s].index ELSE Null, presets |-> Presets(a)]]

(***************************************************************************)
(* Pages of a student or a parent.                                         *)
(***************************************************************************)
GradesOfSeat(s) ==
    IF s \notin Graded THEN <<>>
    ELSE <<[score |-> grade[s].score, isPass |-> grade[s].isPass, rank |-> RankShown(s), average |-> AverageShown]>>

GradeDetail(s) ==
    IF s \notin Graded THEN NotFound
    ELSE [score |-> grade[s].score, rank |-> RankShown(s), average |-> AverageShown,
          answers |-> AnswersShown(s), rates |-> [q \in Questions |-> CorrectRate(q)], assignments |-> AssignmentsShown(s)]

OwnClinics(s) == WithClinic \cap {s}
ClinicsOf(s) == {[status |-> clinic[t].status, cutoff |-> exam.cutoff] : t \in OwnClinics(s)}

\* Recorded marks of a seat; a rate counts everyone not absent, and the report counts it by absences.
MarksRecorded(s) == {d \in Days : attendance[s][d].there}
Marked(s, marks) == Cardinality({d \in MarksRecorded(s) : attendance[s][d].status \in marks})
AttendancePage(s) ==
    [total |-> Cardinality(MarksRecorded(s)), absent |-> Marked(s, {"ABSENT"}),
     rate |-> Rounded(1000 * Marked(s, {"PRESENT", "LATE", "EARLY_LEAVE"}), Cardinality(MarksRecorded(s)))]

\* A lecture that was deleted leaves the dashboard empty, though its pages can still be opened.
EmptyDashboard == [pendingClinics |-> 0, attendanceRate |-> 0, latestExam |-> {}]
StudentDashboard(s) ==
    IF s \notin enrolled \/ ~LectureFound THEN EmptyDashboard
    ELSE [pendingClinics |-> IF clinic[s].status = "PENDING" THEN 1 ELSE 0,
          attendanceRate |-> AttendancePage(s).rate,
          latestExam |-> {[score |-> grade[t].score, rank |-> RankShown(t), participants |-> Cardinality(Graded)] :
                            t \in Graded \cap {s}}]

(***************************************************************************)
(* Pages of the instructor and the assistants.                             *)
(***************************************************************************)
BestFirst == InOrder(Graded, [s \in Graded |-> -grade[s].score])
GradesOfExam == IF ExamExists /\ LectureFound THEN BestFirst ELSE <<>>

DetailForStaff(s) ==
    IF s \in Graded /\ LectureFound
    THEN [score |-> grade[s].score, isPass |-> grade[s].isPass, answers |-> AnswersShown(s)]
    ELSE NotFound

\* The stored rank, and the average and number of participants stored with the exam.
GradeReport(s) ==
    IF s \notin Graded THEN NotFound
    ELSE [rank |-> grade[s].rank, average |-> exam.average, participants |-> exam.gradesCount,
          attendanceRate |-> LET total == Cardinality(MarksRecorded(s))
                             IN  Rounded(1000 * (total - Marked(s, {"ABSENT"})), total),
          assignments |-> AssignmentsShown(s),
          answers |-> [q \in Questions |-> [isCorrect |-> AnswersShown(s)[q].isCorrect, wrongRate |-> WrongRate(q)]]]

ReportFile(s) == IF s \in Graded /\ report[s].url # NoUrl THEN report[s].url ELSE NotFound

WithStatistic == {q \in Questions : statistic[q] # NoStatistic}
\* Counted from the answers, not from the grade.
CorrectCount(s) == Cardinality({q \in Questions : answer[s][q] # NoAnswer /\ answer[s][q].isCorrect})

StatisticsPage ==
    IF ~ExamExists THEN NotFound
    ELSE [average |-> exam.average, participants |-> exam.gradesCount,
          questions |-> [q \in WithStatistic |->
                           [submissions |-> statistic[q].submissions, rate |-> CorrectRate(q),
                            choices |-> [c \in Options |-> ChoiceRate(q, c)]]],
          students |-> [s \in Graded |->
                          [rank |-> grade[s].rank, score |-> grade[s].score, correct |-> CorrectCount(s)]]]

\* Clinics of a deleted lecture are listed with the others; one without a grade would show the score 0.
ClinicsListed ==
    [s \in WithClinic |-> [status |-> clinic[s].status, cutoff |-> exam.cutoff,
                           score |-> IF s \in Graded THEN grade[s].score ELSE 0]]

\* Exams and clinics are counted whether or not their lecture is deleted.
Unfinished == IF ExamExists /\ exam.status # "COMPLETED" THEN 1 ELSE 0
LecturesIn(status) == IF LectureFound /\ lecture.status = status THEN 1 ELSE 0
LatestClinics == [s \in WithClinic |-> clinic[s].status]
StaffDashboard ==
    [ungraded |-> Unfinished, inProgress |-> LecturesIn("IN_PROGRESS"), scheduled |-> LecturesIn("SCHEDULED"),
     clinics |-> LatestClinics]

(***************************************************************************)
(* Properties.                                                             *)
(***************************************************************************)

\* From statistics that count every grade there is, the instructor's pages show what the students'
\* pages compute: the same rank and participants, the same average to one decimal.
StoredIsComputed(s) ==
    LET page == StatisticsPage
        stored == GradeReport(s)
        computed == GradeDetail(s)
    IN  /\ stored.rank = computed.rank /\ page.students[s].rank = computed.rank
        /\ Rounded(10 * stored.average.sum, stored.average.of) = computed.average
        /\ \A latest \in StudentDashboard(s).latestExam :
             latest.rank = stored.rank /\ latest.participants = stored.participants

\* Nobody sees a rate that their own answer refutes: who was right is among those who were, who was
\* wrong or did not answer among those who were not (in classes too small for a rate to be rounded
\* away), and no rate is beyond 100% (schema.prisma on correctRate).  A question that was added after
\* the statistics read the questions is left aside: it shows 0, or what an older calculation counted.
RatesFitAnswers(s) ==
    \A q \in counted \cap DOMAIN StatisticsPage.questions :
        /\ IF GradeDetail(s).answers[q].isCorrect THEN GradeDetail(s).rates[q] > 0
           ELSE GradeReport(s).answers[q].wrongRate > 0
        /\ GradeDetail(s).rates[q] <= 10000

\* Nor are there more choices of an answer than participants.
ChoicesFit ==
    \A q \in counted \cap DOMAIN StatisticsPage.questions :
        MapThenSumSet(LAMBDA c : statistic[q].chosen[c], Options) <= StatisticsPage.questions[q].submissions

\* Pages about one student agree, whatever was submitted, recomputed, deleted or edited in between
\* (getGradeDetail and getGradesByLectureEnrollment rank at each call, getGradeReport and
\* getStatistics show what was stored; the clinics' list takes its scores from the grades).
ReportsAgree ==
    /\ "statistics" \in current => ChoicesFit /\ \A s \in Graded : StoredIsComputed(s) /\ RatesFitAnswers(s)
    /\ \A s \in Graded :
         /\ GradesOfSeat(s)[1].rank = GradeDetail(s).rank
         /\ ExamExists /\ LectureFound => GradesOfExam[1] \in {t \in Graded : RankShown(t) = 1}
         /\ StatisticsPage.students[s].correct
              = Cardinality({q \in Questions : GradeReport(s).answers[q].isCorrect})
         /\ GradeReport(s).attendanceRate = AttendancePage(s).rate
    /\ \A s \in DOMAIN ClinicsListed :
         /\ DetailForStaff(s) # NotFound => DetailForStaff(s).score = ClinicsListed[s].score
         /\ s \in Graded
         /\ LectureFound => (StudentDashboard(s).pendingClinics = 1) = (StaffDashboard.clinics[s] = "PENDING")
=============================================================================
