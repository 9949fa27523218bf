-------------------------- MODULE ClassroomProofs --------------------------
(***************************************************************************)
(* Proofs about Classroom: the rows of an exam hang together, a report's   *)
(* link leads to a file, attendance is of a lecture that was opened, an    *)
(* exam with grades is not deleted unknowingly, clinics are of those who   *)
(* failed, results of their presets, and a report shows the list that was  *)
(* saved.  What makes them inductive is what a request read earlier and    *)
(* still relies on (RequestOK), and that the rows only move in ways that   *)
(* keep it (Kept).                                                         *)
(***************************************************************************)
EXTENDS Classroom, TLAPS

\* A student whose grade was there: it still is, or the seat or the exam went with it.
GradedOrGone(s) == s \in Graded \/ s \notin enrolled \/ exam.status = "DELETED"
Started == exam.status \notin {"NONE", "PENDING"}

AttendanceOps == {"attendance", "bulkAttendance", "deleteAttendance"}
ReliantOps == {"submitGrading", "completeGrading", "deleteExam", "uploadReport"} \cup AttendanceOps

\* A submission that leaves the status alone saw that grading had started.
SubmitOK(q) ==
    /\ q.step \in {"grade", "recheck", "commit"}
    /\ q.step # "grade" => "reopens" \in DOMAIN q
    /\ q.step = "commit" /\ ~q.reopens => Started
\* Clinics are created for students who were graded.
CompleteOK(q) ==
    /\ q.step \in {"grades", "status", "clinics", "commit"}
    /\ q.step = "clinics" => "failed" \in DOMAIN q /\ \A s \in q.failed : GradedOrGone(s)
    /\ q.step = "commit" => "create" \in DOMAIN q /\ \A s \in q.create : GradedOrGone(s)
\* A deletion that nothing has overtaken saw an exam without grades.
DeleteOK(q) == "overtaken" \in DOMAIN q /\ (q.overtaken = TRUE \/ Graded = {})
UploadOK(q) == "file" \in DOMAIN q /\ (q.step = "save" => q.file \in files)

RequestOK(r) ==
    /\ {"op", "step"} \subseteq DOMAIN req[r]
    /\ req[r].op = "submitGrading" => SubmitOK(req[r])
    /\ req[r].op = "completeGrading" => CompleteOK(req[r])
    /\ req[r].op = "deleteExam" => DeleteOK(req[r])
    /\ req[r].op = "uploadReport" => UploadOK(req[r])
    /\ req[r].op \in AttendanceOps /\ req[r].step = "write" => lecture.opened
RequestsOK == req = [r \in Requests |-> req[r]] /\ \A r \in Requests : RequestOK(r)

\* The parts of the rows' types that the properties rest on.
ExamOK ==
    /\ "status" \in DOMAIN exam
    /\ exam.status \in {"NONE", "PENDING", "IN_PROGRESS", "COMPLETED", "DELETED"}
GradeOK ==
    /\ grade = [s \in Students |-> grade[s]]
    /\ \A s \in Students : grade[s] = NoGrade \/ "isPass" \in DOMAIN grade[s]
AnswerOK ==
    /\ answer = [s \in Students |-> answer[s]]
    /\ \A s \in Students : answer[s] = [q \in QuestionIds |-> answer[s][q]]
ReportOK ==
    /\ report = [s \in Students |-> report[s]]
    /\ \A s \in Students : {"exists", "url"} \subseteq DOMAIN report[s]
AttendanceOK ==
    /\ attendance = [s \in Students |-> attendance[s]]
    /\ \A s \in Students :
         /\ attendance[s] = [d \in Days |-> attendance[s][d]]
         /\ \A d \in Days : "there" \in DOMAIN attendance[s][d]
OpenedOK == lecture.status = "IN_PROGRESS" => lecture.opened
RowsOK ==
    /\ LecturesTypeOK /\ OpenedOK /\ ExamOK /\ GradeOK /\ AnswerOK /\ ReportOK /\ AttendanceOK
    /\ clinic \in [Students -> ClinicRow]

IInv == RowsOK /\ RequestsOK /\ AnswersComeWithGrade /\ ReportUrlHasFile /\ AttendanceAfterOpening

-----------------------------------------------------------------------------
(***************************************************************************)
(* What a step does to the rows that requests in flight rely on, and to    *)
(* the requests themselves.                                                *)
(***************************************************************************)
Kept ==
    /\ Started => Started'
    /\ \A s : GradedOrGone(s) => GradedOrGone(s)'
    /\ files \subseteq files'
    /\ lecture.opened => lecture'.opened
NoneGraded == Graded = {} => Graded' = {}

ruled == <<lecture, enrolled, exam, question, answer, grade, clinic, report, files, attendance>>

LEMMA NothingMoved == ASSUME UNCHANGED ruled PROVE Kept /\ NoneGraded
  BY DEF ruled, Kept, NoneGraded, Started, GradedOrGone, Graded

LEMMA RequestKept ==
    ASSUME RequestsOK, Kept, NoneGraded, NEW r \in Requests, req'[r] = req[r] PROVE RequestOK(r)'
<1>1. RequestOK(r)
  BY DEF RequestsOK
<1>2. SubmitOK(req[r]) => SubmitOK(req[r])'
  BY DEF SubmitOK, Kept
<1>3. CompleteOK(req[r]) => CompleteOK(req[r])'
  BY DEF CompleteOK, Kept
<1>4. DeleteOK(req[r]) => DeleteOK(req[r])'
  BY DEF DeleteOK, NoneGraded
<1>5. UploadOK(req[r]) => UploadOK(req[r])'
  BY DEF UploadOK, Kept
<1> QED
  BY <1>1, <1>2, <1>3, <1>4, <1>5 DEF RequestOK, Kept

\* An overtaken request is as good as it was.
LEMMA OvertakenKept ==
    ASSUME RequestsOK, Kept, NEW r \in Requests, NEW ops, "submitGrading" \notin ops, "uploadReport" \notin ops,
           req'[r] = Overtake(ops, req[r]), NoneGraded \/ "deleteExam" \in ops
    PROVE  RequestOK(r)'
<1>1. RequestOK(r)
  BY DEF RequestsOK
<1>2. CASE req'[r] = req[r] /\ NoneGraded
  BY <1>2, RequestKept
<1>3. CASE req'[r] = req[r] /\ ~NoneGraded /\ ~(req[r].op \in ops /\ "overtaken" \in DOMAIN req[r])
  <2>1. req[r].op # "deleteExam"
    BY <1>1, <1>3 DEF RequestOK, DeleteOK
  <2> QED
    BY <1>1, <1>3, <2>1 DEF RequestOK, SubmitOK, CompleteOK, UploadOK, Kept
<1>4. CASE req[r].op \in ops /\ "overtaken" \in DOMAIN req[r] /\ req'[r] = [req[r] EXCEPT !.overtaken = TRUE]
  <2>1. /\ DOMAIN req'[r] = DOMAIN req[r] /\ req'[r].op = req[r].op /\ req'[r].step = req[r].step
        /\ "overtaken" \in DOMAIN req'[r] /\ req'[r].overtaken = TRUE
        /\ "failed" \in DOMAIN req[r] => req'[r].failed = req[r].failed
        /\ "create" \in DOMAIN req[r] => req'[r].create = req[r].create
    BY <1>1, <1>4 DEF RequestOK
  <2>2. CompleteOK(req[r]) => CompleteOK(req[r])'
    BY <2>1 DEF CompleteOK, Kept
  <2>3. DeleteOK(req[r])'
    BY <2>1 DEF DeleteOK
  <2> QED
    BY <1>1, <1>4, <2>1, <2>2, <2>3 DEF RequestOK, Kept
<1> QED
  BY <1>2, <1>3, <1>4 DEF Overtake

\* What says nothing about the rows is kept by any step.
Plain(q) == {"op", "step"} \subseteq DOMAIN q /\ q.op \notin ReliantOps
LEMMA PlainOK == ASSUME NEW r, Plain(req'[r]) PROVE RequestOK(r)'
  BY DEF Plain, RequestOK, ReliantOps

LEMMA IdlePlain == Plain(Idle)
  BY DEF Plain, Idle, ReliantOps, AttendanceOps

\* One request moves.
LEMMA Moves ==
    ASSUME RequestsOK, Kept, NoneGraded, NEW r \in Requests, NEW q, Proceed(r, q), RequestOK(r)' PROVE RequestsOK'
<1>1. req' = [req EXCEPT ![r] = q] /\ req = [s \in Requests |-> req[s]]
  BY DEF Proceed, RequestsOK
<1>2. \A s \in Requests : RequestOK(s)'
  BY <1>1, RequestKept
<1> QED
  BY <1>1, <1>2 DEF RequestsOK

LEMMA Begins ==
    ASSUME RequestsOK, Kept, NoneGraded, NEW r \in Requests, NEW op, NEW q, Begin(r, op, q), RequestOK(r)' PROVE RequestsOK'
<1>1. req' = [req EXCEPT ![r] = q] /\ req = [s \in Requests |-> req[s]]
  BY DEF Begin, RequestsOK
<1>2. \A s \in Requests : RequestOK(s)'
  BY <1>1, RequestKept
<1> QED
  BY <1>1, <1>2 DEF RequestsOK

LEMMA PlainMoves ==
    ASSUME RequestsOK, Kept, NoneGraded, NEW r \in Requests, NEW q, Plain(q), Proceed(r, q) PROVE RequestsOK'
<1>1. req'[r] = q
  BY DEF Proceed, RequestsOK
<1> QED
  BY <1>1, PlainOK, Moves

LEMMA PlainBegins ==
    ASSUME RequestsOK, Kept, NoneGraded, NEW r \in Requests, NEW op, NEW q, Plain(q), Begin(r, op, q) PROVE RequestsOK'
<1>1. req'[r] = q
  BY DEF Begin, RequestsOK
<1> QED
  BY <1>1, PlainOK, Begins

LEMMA Replied ==
    ASSUME RequestsOK, Kept, NoneGraded, NEW r \in Requests, Reply(r) PROVE RequestsOK'
  BY IdlePlain, PlainMoves DEF Reply

LEMMA Served ==
    ASSUME RequestsOK, Kept, NoneGraded, UNCHANGED req PROVE RequestsOK'
  BY RequestKept DEF RequestsOK

LEMMA RepliedOvertaking ==
    ASSUME RequestsOK, Kept, NEW r \in Requests, NEW ops, "submitGrading" \notin ops, "uploadReport" \notin ops,
           ReplyOvertaking(r, ops), NoneGraded \/ "deleteExam" \in ops
    PROVE  RequestsOK'
<1>1. req' = [q \in Requests |-> IF q = r THEN Idle ELSE Overtake(ops, req[q])]
  BY DEF ReplyOvertaking
<1>2. \A q \in Requests : RequestOK(q)'
  BY <1>1, IdlePlain, PlainOK, OvertakenKept
<1> QED
  BY <1>1, <1>2 DEF RequestsOK

\* The rows stay as they are.
LEMMA Still ==
    ASSUME IInv, UNCHANGED ruled, RequestsOK' PROVE IInv'
<1> USE DEF IInv, ruled
<1>1. RowsOK'
  BY DEF RowsOK, LecturesTypeOK, OpenedOK, ExamOK, GradeOK, AnswerOK, ReportOK, AttendanceOK
<1>2. AnswersComeWithGrade'
  BY DEF AnswersComeWithGrade, Graded, Questions, WithClinic
<1>3. ReportUrlHasFile' /\ AttendanceAfterOpening'
  BY DEF ReportUrlHasFile, AttendanceAfterOpening
<1> QED
  BY <1>1, <1>2, <1>3

-----------------------------------------------------------------------------
(***************************************************************************)
(* Steps that leave those rows alone.                                      *)
(***************************************************************************)
LEMMA ShowStep ==
    ASSUME IInv, NEW r \in Requests, BeginShow(r) \/ ReadLinks(r) \/ SaveLinks(r),
           UNCHANGED <<lectureVars, gradingVars, classworkVars>>
    PROVE  IInv'
<1>1. UNCHANGED ruled
  BY DEF ruled, lectureVars, gradingVars, classworkVars
<1> USE NothingMoved DEF IInv, Plain, ReliantOps, AttendanceOps
<1>2. CASE BeginShow(r)
  <2>1. RequestsOK'
    BY <1>1, <1>2, PlainBegins DEF BeginShow
  <2> QED
    BY <1>1, <2>1, Still
<1>3. CASE ReadLinks(r)
  <2>1. RequestsOK'
    BY <1>1, <1>3, PlainMoves DEF ReadLinks
  <2> QED
    BY <1>1, <2>1, Still
<1>4. CASE SaveLinks(r) /\ Reply(r)
  BY <1>1, <1>4, Replied, Still
<1>5. CASE SaveLinks(r) /\ OvertakeLinks(r)
  <2>1. ASSUME NEW q \in Requests PROVE RequestOK(q)'
    <3>1. CASE q = r
      BY <1>5, <3>1, IdlePlain, PlainOK DEF OvertakeLinks
    <3>2. CASE q # r /\ ~At(q, "showAssignments", "save")
      BY <1>1, <1>5, <3>2, RequestKept DEF OvertakeLinks
    <3>3. CASE q # r /\ At(q, "showAssignments", "save")
      <4>1. req'[q] = [req[q] EXCEPT !.drop = @ \ req[r].drop, !.overtaken = TRUE]
        BY <1>5, <3>3 DEF OvertakeLinks
      <4>2. {"op", "step"} \subseteq DOMAIN req[q]
        BY DEF RequestsOK, RequestOK
      <4>3. Plain(req'[q])
        BY <3>3, <4>1, <4>2 DEF At
      <4> QED
        BY <4>3, PlainOK
    <3> QED
      BY <3>1, <3>2, <3>3
  <2>2. RequestsOK'
    BY <1>5, <2>1 DEF OvertakeLinks, RequestsOK
  <2> QED
    BY <1>1, <2>2, Still
<1> QED
  BY <1>2, <1>3, <1>4, <1>5 DEF SaveLinks

LEMMA BeginStep ==
    ASSUME IInv, NEW r \in Requests,
           \/ BeginCreateExam(r) \/ BeginSubmit(r) \/ BeginComplete(r) \/ BeginDeleteExam(r) \/ BeginUpdateClinics(r)
           \/ BeginStatistics(r) \/ BeginDescribeReport(r) \/ BeginUploadReport(r),
           UNCHANGED <<lectureVars, classworkVars>>
    PROVE  IInv'
<1>1. UNCHANGED ruled
  BY DEF ruled, lectureVars, gradingVars, classworkVars, BeginCreateExam, BeginSubmit, BeginComplete, BeginDeleteExam,
     BeginUpdateClinics, BeginStatistics, BeginDescribeReport, BeginUploadReport
<1> USE <1>1, NothingMoved DEF IInv
<1>2. CASE BeginCreateExam(r) \/ BeginUpdateClinics(r) \/ BeginStatistics(r) \/ BeginDescribeReport(r)
  <2>1. RequestsOK'
    BY <1>2, PlainBegins DEF BeginCreateExam, BeginUpdateClinics, BeginStatistics, BeginDescribeReport, Plain, ReliantOps,
       AttendanceOps
  <2> QED
    BY <2>1, Still
<1>3. CASE BeginSubmit(r)
  <2>1. PICK s \in enrolled :
          Begin(r, "submitGrading", [op |-> "submitGrading", step |-> "grade", seat |-> s, cutoff |-> exam.cutoff])
    BY <1>3 DEF BeginSubmit
  <2>2. req'[r] = [op |-> "submitGrading", step |-> "grade", seat |-> s, cutoff |-> exam.cutoff]
    BY <2>1 DEF Begin, RequestsOK
  <2>3. RequestOK(r)'
    BY <2>2 DEF RequestOK, SubmitOK, AttendanceOps
  <2> QED
    BY <2>1, <2>3, Begins, Still
<1>4. CASE BeginComplete(r)
  <2> DEFINE q == [op |-> "completeGrading", step |-> IF exam.isAutoClinic THEN "grades" ELSE "status",
                  closes |-> exam.status # "COMPLETED"]
  <2>1. Begin(r, "completeGrading", q)
    BY <1>4 DEF BeginComplete
  <2>2. req'[r] = q
    BY <2>1 DEF Begin, RequestsOK
  <2>3. req'[r].op = "completeGrading" /\ req'[r].step \in {"grades", "status"} /\ {"op", "step"} \subseteq DOMAIN req'[r]
    BY <2>2
  <2>4. RequestOK(r)'
    BY <2>3 DEF RequestOK, CompleteOK, AttendanceOps
  <2> QED
    BY <2>1, <2>4, Begins, Still
<1>5. CASE BeginDeleteExam(r)
  <2>1. Begin(r, "deleteExam", [op |-> "deleteExam", step |-> "delete", overtaken |-> FALSE])
    BY <1>5 DEF BeginDeleteExam
  <2>2. req'[r] = [op |-> "deleteExam", step |-> "delete", overtaken |-> FALSE]
    BY <2>1 DEF Begin, RequestsOK
  <2>3. Graded = {}
    BY <1>5 DEF BeginDeleteExam, Deletable, AnswersComeWithGrade
  <2>4. Graded' = {}
    BY <2>3 DEF NoneGraded
  <2>5. RequestOK(r)'
    BY <2>2, <2>4 DEF RequestOK, DeleteOK, AttendanceOps
  <2> QED
    BY <2>1, <2>5, Begins, Still
<1>6. CASE BeginUploadReport(r)
  <2>1. PICK s \in Graded :
          Begin(r, "uploadReport", [op |-> "uploadReport", step |-> "upload", seat |-> s, file |-> calls + 1])
    BY <1>6 DEF BeginUploadReport
  <2>2. req'[r] = [op |-> "uploadReport", step |-> "upload", seat |-> s, file |-> calls + 1]
    BY <2>1 DEF Begin, RequestsOK
  <2>3. RequestOK(r)'
    BY <2>2 DEF RequestOK, UploadOK, AttendanceOps
  <2> QED
    BY <2>1, <2>3, Begins, Still
<1> QED
  BY <1>2, <1>3, <1>4, <1>5, <1>6

\* What the readings of a handler leave it with.
LEMMA ReadStep ==
    ASSUME IInv, NEW r \in Requests,
           \/ GradeAnswers(r) \/ RecheckExam(r) \/ ReadFailedGrades(r) \/ ReadClinics(r)
           \/ CountGrades(r) \/ CountAnswers(r) \/ RankGrades(r),
           UNCHANGED <<lectureVars, classworkVars>>
    PROVE  IInv'
<1>1. UNCHANGED ruled
  BY DEF ruled, lectureVars, gradingVars, classworkVars, GradeAnswers, RecheckExam, ReadFailedGrades, ReadClinics,
     CountGrades, CountAnswers, RankGrades
<1> USE <1>1, NothingMoved DEF IInv
<1>2. Reply(r) => IInv'
  BY Replied, Still
<1>3. ASSUME NEW q, Proceed(r, q), RequestOK(r)' PROVE IInv'
  BY <1>3, Moves, Still
<1>4. \A q : Proceed(r, q) => req'[r] = q
  BY DEF Proceed, RequestsOK
<1>5. RequestOK(r)
  BY DEF RequestsOK
<1>6. CASE GradeAnswers(r)
  <2>1. ASSUME NEW sheet, NEW score, NEW isPass, NEW q,
               q = [op |-> "submitGrading", step |-> "recheck", seat |-> req[r].seat, sheet |-> sheet,
                    score |-> score, isPass |-> isPass, reopens |-> FALSE],
               Proceed(r, q)
        PROVE  IInv'
    <3>1. req'[r] = q
      BY <1>4, <2>1
    <3>2. RequestOK(r)'
      BY <2>1, <3>1 DEF RequestOK, SubmitOK, AttendanceOps
    <3> QED
      BY <1>3, <2>1, <3>2
  <2> QED
    BY <1>2, <1>6, <2>1 DEF GradeAnswers
<1>7. CASE RecheckExam(r)
  <2>1. /\ req[r].op = "submitGrading" /\ {"op", "step", "reopens"} \subseteq DOMAIN req[r]
    BY <1>5, <1>7 DEF RecheckExam, At, RequestOK, SubmitOK
  <2>2. CASE exam.status = "IN_PROGRESS" /\ Proceed(r, [req[r] EXCEPT !.step = "commit"])
    <3>1. req'[r] = [req[r] EXCEPT !.step = "commit"]
      BY <1>4, <2>2
    <3>2. req'[r].op = "submitGrading" /\ req'[r].step = "commit" /\ {"op", "step", "reopens"} \subseteq DOMAIN req'[r]
      BY <2>1, <3>1
    <3>3. Started'
      BY <2>2 DEF Started, ruled
    <3>4. RequestOK(r)'
      BY <3>2, <3>3 DEF RequestOK, SubmitOK, AttendanceOps
    <3> QED
      BY <1>3, <2>2, <3>4
  <2>3. CASE Proceed(r, [req[r] EXCEPT !.step = "commit", !.reopens = TRUE])
    <3>1. req'[r] = [req[r] EXCEPT !.step = "commit", !.reopens = TRUE]
      BY <1>4, <2>3
    <3>2. /\ req'[r].op = "submitGrading" /\ req'[r].step = "commit" /\ {"op", "step", "reopens"} \subseteq DOMAIN req'[r]
          /\ req'[r].reopens = TRUE
      BY <2>1, <3>1
    <3>3. RequestOK(r)'
      BY <3>2 DEF RequestOK, SubmitOK, AttendanceOps
    <3> QED
      BY <1>3, <2>3, <3>3
  <2> QED
    BY <1>2, <1>7, <2>2, <2>3 DEF RecheckExam
<1>8. CASE ReadFailedGrades(r)
  <2> DEFINE q == [op |-> "completeGrading", step |-> "clinics", closes |-> req[r].closes, failed |-> Failed,
                  overtaken |-> FALSE]
  <2>1. Proceed(r, q)
    BY <1>8 DEF ReadFailedGrades
  <2>2. req'[r] = q
    BY <1>4, <2>1
  <2>3. req'[r].failed = Failed /\ req'[r].op = "completeGrading" /\ req'[r].step = "clinics"
        /\ {"op", "step", "failed"} \subseteq DOMAIN req'[r]
    BY <2>2
  <2>4. \A s \in Failed : GradedOrGone(s)
    BY DEF Failed, GradedOrGone
  <2>5. \A s \in Failed : GradedOrGone(s)'
    BY <2>4 DEF Kept
  <2>6. RequestOK(r)'
    BY <2>3, <2>5 DEF RequestOK, CompleteOK, AttendanceOps
  <2> QED
    BY <1>3, <2>1, <2>6
<1>9. CASE ReadClinics(r) /\ ~Reply(r)
  <2> DEFINE create == req[r].failed \ WithClinic
             q == [op |-> "completeGrading", step |-> "commit", closes |-> req[r].closes,
                   create |-> create, drop |-> WithClinic \ req[r].failed, overtaken |-> req[r].overtaken]
  <2>1. Proceed(r, q)
    BY <1>9 DEF ReadClinics
  <2>2. req'[r] = q
    BY <1>4, <2>1
  <2>3. req'[r].create = create /\ req'[r].op = "completeGrading" /\ req'[r].step = "commit"
        /\ {"op", "step", "create"} \subseteq DOMAIN req'[r]
    BY <2>2
  <2>4. \A s \in req[r].failed : GradedOrGone(s)
    BY <1>5, <1>9 DEF ReadClinics, At, RequestOK, CompleteOK
  <2>5. \A s \in create : GradedOrGone(s)'
    BY <2>4 DEF Kept
  <2>6. RequestOK(r)'
    BY <2>3, <2>5 DEF RequestOK, CompleteOK, AttendanceOps
  <2> QED
    BY <1>3, <2>1, <2>6
<1>10. CASE CountGrades(r) \/ RankGrades(r)
  <2>1. RequestsOK'
    BY <1>10, PlainMoves DEF CountGrades, RankGrades, Plain, ReliantOps, AttendanceOps
  <2> QED
    BY <2>1, Still
<1>11. CASE CountAnswers(r)
  <2>1. PICK todo, rows : Proceed(r, [req[r] EXCEPT !.todo = todo, !.rows = rows])
    BY <1>11 DEF CountAnswers
  <2>2. Plain([req[r] EXCEPT !.todo = todo, !.rows = rows])
    BY <1>5, <1>11 DEF CountAnswers, At, RequestOK, Plain, ReliantOps, AttendanceOps
  <2> QED
    BY <2>1, <2>2, PlainMoves, Still
<1> QED
  BY <1>2, <1>6, <1>7, <1>8, <1>9, <1>10, <1>11 DEF ReadClinics

\* Categories, assignments and results: other rows, and requests that rely on none of those above.
LEMMA ClassworkStep ==
    ASSUME IInv, UNCHANGED <<lectureVars, gradingVars>>,
           \/ DeleteCategory \/ DeleteAssignment
           \/ \E r \in Requests :
                \/ BeginCreateCategory(r) \/ CreateCategory(r) \/ BeginUpdateCategory(r) \/ UpdateCategory(r)
                \/ BeginCreateAssignment(r) \/ CreateAssignment(r) \/ BeginUpdateAssignment(r) \/ UpdateAssignment(r)
                \/ BeginCreateResult(r) \/ CreateResult(r) \/ BeginUpdateResult(r) \/ BeginDeleteResult(r) \/ ChangeResult(r)
                \/ BeginBulk(r) \/ BulkItem(r) \/ EndBulk(r)
    PROVE  IInv'
<1>1. ASSUME UNCHANGED attendance PROVE UNCHANGED ruled
  BY <1>1 DEF ruled, lectureVars, gradingVars
<1> USE NothingMoved, Still DEF IInv, Plain, ReliantOps, AttendanceOps
<1>2. CASE DeleteCategory \/ DeleteAssignment
  BY <1>1, <1>2, Served DEF DeleteCategory, DeleteAssignment, Serve
<1>3. ASSUME NEW r \in Requests, BeginCreateCategory(r) \/ BeginUpdateCategory(r) \/ BeginCreateAssignment(r) PROVE IInv'
  BY <1>1, <1>3, PlainBegins DEF BeginCreateCategory, BeginUpdateCategory, BeginCreateAssignment, classworkVars
<1>4. ASSUME NEW r \in Requests, BeginUpdateAssignment(r) \/ BeginCreateResult(r) \/ BeginUpdateResult(r) PROVE IInv'
  BY <1>1, <1>4, PlainBegins DEF BeginUpdateAssignment, BeginCreateResult, BeginUpdateResult, classworkVars
<1>5. ASSUME NEW r \in Requests, BeginDeleteResult(r) \/ BeginBulk(r) PROVE IInv'
  BY <1>1, <1>5, PlainBegins DEF BeginDeleteResult, BeginBulk, classworkVars
<1>6. ASSUME NEW r \in Requests,
             CreateCategory(r) \/ UpdateCategory(r) \/ CreateAssignment(r) \/ UpdateAssignment(r) \/ CreateResult(r)
               \/ ChangeResult(r) \/ EndBulk(r)
      PROVE  Reply(r) /\ UNCHANGED attendance
  BY <1>6 DEF CreateCategory, UpdateCategory, CreateAssignment, UpdateAssignment, CreateResult, ChangeResult, EndBulk
<1>7. ASSUME NEW r \in Requests, Reply(r), UNCHANGED attendance PROVE IInv'
  BY <1>1, <1>7, Replied
<1>8. ASSUME NEW r \in Requests, BulkItem(r) PROVE IInv'
  <2>1. Reply(r) \/ Proceed(r, AfterItem(req[r]))
    BY <1>8 DEF BulkItem
  <2>2. {"op", "step"} \subseteq DOMAIN req[r] /\ req[r].op \in {"bulkResults", "strictBulkResults"} /\ UNCHANGED attendance
    BY <1>8 DEF BulkItem, RequestsOK, RequestOK
  <2>3. Plain(AfterItem(req[r]))
    BY <2>2 DEF AfterItem
  <2> QED
    BY <1>1, <1>7, <2>1, <2>2, <2>3, PlainMoves
<1> QED
  BY <1>2, <1>3, <1>4, <1>5, <1>6, <1>7, <1>8

\* Attendance is read or begun.
LEMMA AttendanceReadStep ==
    ASSUME IInv, UNCHANGED <<lectureVars, gradingVars>>, NEW r \in Requests,
           BeginAttendance(r) \/ BeginBulkAttendance(r) \/ BeginDeleteAttendance(r) \/ CheckAttendance(r)
    PROVE  IInv'
<1>1. UNCHANGED ruled
  BY DEF ruled, lectureVars, gradingVars, classworkVars, BeginAttendance, BeginBulkAttendance, BeginDeleteAttendance,
     CheckAttendance
<1> USE <1>1, NothingMoved, Still DEF IInv
<1>2. ASSUME NEW op, NEW q, Begin(r, op, q), {"op", "step"} \subseteq DOMAIN q, q.op \in AttendanceOps, q.step = "check"
      PROVE  IInv'
  <2>1. req'[r] = q
    BY <1>2 DEF Begin, RequestsOK
  <2>2. RequestOK(r)'
    BY <1>2, <2>1 DEF RequestOK, AttendanceOps
  <2> QED
    BY <1>2, <2>2, Begins
<1>3. CASE BeginAttendance(r)
  BY <1>2, <1>3 DEF BeginAttendance, AttendanceOps
<1>4. CASE BeginBulkAttendance(r)
  BY <1>2, <1>4 DEF BeginBulkAttendance, AttendanceOps
<1>5. CASE BeginDeleteAttendance(r)
  BY <1>2, <1>5 DEF BeginDeleteAttendance, AttendanceOps
<1>6. CASE CheckAttendance(r) /\ Reply(r)
  BY <1>6, Replied
<1>7. CASE CheckAttendance(r) /\ ~Reply(r)
  <2>1. Writable /\ Proceed(r, [req[r] EXCEPT !.step = "write"]) /\ req[r].op \in AttendanceOps
    BY <1>7 DEF CheckAttendance, AttendanceOps
  <2>2. lecture.opened \/ lecture.status = "IN_PROGRESS"
    BY <2>1 DEF Writable
  <2>3. lecture'.opened
    BY <2>1 DEF Writable, RowsOK, ruled, OpenedOK
  <2>4. req'[r] = [req[r] EXCEPT !.step = "write"] /\ {"op", "step"} \subseteq DOMAIN req[r]
    BY <2>1 DEF Proceed, RequestsOK, RequestOK
  <2>5. req'[r].op = req[r].op /\ {"op", "step"} \subseteq DOMAIN req'[r]
    BY <2>4
  <2>6. RequestOK(r)'
    BY <2>1, <2>3, <2>5 DEF RequestOK, AttendanceOps
  <2> QED
    BY <2>1, <2>6, Moves
<1> QED
  BY <1>3, <1>4, <1>5, <1>6, <1>7

LEMMA WriteAttendanceStep ==
    ASSUME IInv, UNCHANGED <<lectureVars, gradingVars>>, NEW r \in Requests, WriteAttendance(r)
    PROVE  IInv'
<1>1. UNCHANGED <<lecture, enrolled, exam, question, answer, grade, clinic, report, files>>
  BY DEF lectureVars, gradingVars
<1> DEFINE marks == req[r].marks
           date == req[r].date
<1>2. lecture.opened
  BY DEF WriteAttendance, At, AttendanceOps, IInv, RequestsOK, RequestOK
<1>3. AttendanceOK' /\ \A s \in Students, d \in Days : attendance'[s][d].there => attendance[s][d].there \/ s \in enrolled
  <2>1. CASE UNCHANGED attendance
    BY <2>1 DEF AttendanceOK, IInv, RowsOK
  <2>2. CASE /\ DOMAIN marks \subseteq enrolled
             /\ attendance' = [s \in Students |->
                 IF s \in DOMAIN marks
                 THEN [attendance[s] EXCEPT ![date] = [there |-> TRUE, id |-> IF @.there THEN @.id ELSE @.id + 1,
                                                         status |-> marks[s]]]
                 ELSE attendance[s]]
    <3>1. ASSUME NEW s \in Students, s \in DOMAIN marks PROVE
            /\ attendance'[s] = [d \in Days |-> attendance'[s][d]]
            /\ \A d \in Days : "there" \in DOMAIN attendance'[s][d] /\ s \in enrolled
      BY <2>2, <3>1 DEF AttendanceOK, IInv, RowsOK
    <3>2. ASSUME NEW s \in Students, s \notin DOMAIN marks PROVE attendance'[s] = attendance[s]
      BY <2>2, <3>2
    <3> QED
      BY <2>2, <3>1, <3>2 DEF AttendanceOK, IInv, RowsOK
  <2> QED
    BY <2>1, <2>2 DEF WriteAttendance
<1>4. AttendanceAfterOpening'
  BY <1>1, <1>2, <1>3 DEF AttendanceAfterOpening, IInv
<1>5. RequestsOK'
  <2>1. Kept /\ NoneGraded
    BY <1>1 DEF Kept, NoneGraded, Started, GradedOrGone, Graded
  <2> QED
    BY <2>1, Replied DEF WriteAttendance, IInv
<1>6. RowsOK' /\ AnswersComeWithGrade' /\ ReportUrlHasFile'
  BY <1>1, <1>3 DEF IInv, RowsOK, LecturesTypeOK, OpenedOK, ExamOK, GradeOK, AnswerOK, ReportOK, AnswersComeWithGrade, Graded,
     Questions, WithClinic, ReportUrlHasFile
<1> QED
  BY <1>4, <1>5, <1>6 DEF IInv

\* Rows of attendance go.
StruckAt(s, d) == attendance'[s][d] = attendance[s][d] \/ attendance'[s][d] = Struck(attendance[s][d])
LEMMA StruckIsNotThere ==
    ASSUME NEW row, "there" \in DOMAIN row PROVE "there" \in DOMAIN Struck(row) /\ Struck(row).there = FALSE
  BY DEF Struck

LEMMA StruckRows ==
    ASSUME AttendanceOK, attendance' = [s \in Students |-> attendance'[s]],
           \A s \in Students : attendance'[s] = [d \in Days |-> attendance'[s][d]],
           \A s \in Students, d \in Days : StruckAt(s, d)
    PROVE  AttendanceOK' /\ \A s \in Students, d \in Days : attendance'[s][d].there => attendance[s][d].there
<1>1. ASSUME NEW s \in Students, NEW d \in Days
      PROVE  "there" \in DOMAIN attendance'[s][d] /\ (attendance'[s][d].there => attendance[s][d].there)
  <2>1. "there" \in DOMAIN attendance[s][d]
    BY DEF AttendanceOK
  <2>2. CASE attendance'[s][d] = attendance[s][d]
    BY <2>1, <2>2
  <2>3. CASE attendance'[s][d] = Struck(attendance[s][d])
    BY <2>1, <2>3, StruckIsNotThere
  <2> QED
    BY <2>2, <2>3 DEF StruckAt
<1> QED
  BY <1>1 DEF AttendanceOK

LEMMA EraseAttendanceStep ==
    ASSUME IInv, UNCHANGED <<lectureVars, gradingVars>>, NEW r \in Requests, EraseAttendance(r)
    PROVE  IInv'
<1>1. UNCHANGED <<lecture, enrolled, exam, question, answer, grade, clinic, report, files>>
  BY DEF lectureVars, gradingVars
<1> DEFINE seat == req[r].seat
           date == req[r].date
<1>2. AttendanceOK
  BY DEF IInv, RowsOK
<1>3. \/ attendance' = attendance
      \/ attendance' = [attendance EXCEPT ![seat] = [attendance[seat] EXCEPT ![date] = Struck(attendance[seat][date])]]
  BY DEF EraseAttendance
<1>4. /\ attendance' = [s \in Students |-> attendance'[s]]
      /\ \A s \in Students : attendance'[s] = [d \in Days |-> attendance'[s][d]]
      /\ \A s \in Students, d \in Days : StruckAt(s, d)
  <2> HIDE DEF seat, date
  <2>1. CASE attendance' = attendance
    BY <1>2, <2>1 DEF AttendanceOK, StruckAt
  <2>2. CASE attendance' = [attendance EXCEPT ![seat] = [attendance[seat] EXCEPT ![date] = Struck(attendance[seat][date])]]
    <3>1. attendance' = [s \in Students |-> attendance'[s]]
      BY <1>2, <2>2 DEF AttendanceOK
    <3>2. ASSUME NEW s \in Students PROVE
            /\ attendance'[s] = [d \in Days |-> attendance'[s][d]]
            /\ \A d \in Days : StruckAt(s, d)
      <4>1. CASE s # seat
        <5>1. attendance'[s] = attendance[s]
          BY <1>2, <2>2, <4>1 DEF AttendanceOK
        <5> QED
          BY <1>2, <5>1 DEF AttendanceOK, StruckAt
      <4>2. CASE s = seat
        <5>1. attendance'[s] = [attendance[s] EXCEPT ![date] = Struck(attendance[s][date])]
          BY <1>2, <2>2, <4>2 DEF AttendanceOK
        <5>2. attendance[s] = [d \in Days |-> attendance[s][d]]
          BY <1>2 DEF AttendanceOK
        <5> QED
          BY <5>1, <5>2 DEF StruckAt
      <4> QED
        BY <4>1, <4>2
    <3> QED
      BY <3>1, <3>2
  <2> QED
    BY <1>3, <2>1, <2>2
<1>5. AttendanceOK' /\ AttendanceAfterOpening'
  BY <1>1, <1>2, <1>4, StruckRows DEF AttendanceAfterOpening, IInv
<1>6. RequestsOK'
  <2>1. Kept /\ NoneGraded
    BY <1>1 DEF Kept, NoneGraded, Started, GradedOrGone, Graded
  <2> QED
    BY <2>1, Replied DEF EraseAttendance, IInv
<1>7. RowsOK' /\ AnswersComeWithGrade' /\ ReportUrlHasFile'
  BY <1>1, <1>5 DEF IInv, RowsOK, LecturesTypeOK, OpenedOK, ExamOK, GradeOK, AnswerOK, ReportOK, AnswersComeWithGrade, Graded,
     Questions, WithClinic, ReportUrlHasFile
<1> QED
  BY <1>5, <1>6, <1>7 DEF IInv

-----------------------------------------------------------------------------
(***************************************************************************)
(* Steps of the lecture.                                                   *)
(***************************************************************************)
LEMMA LectureMoved ==
    ASSUME IInv, UNCHANGED <<enrolled, gradingVars, classworkVars>>, lecture' \in LectureRow, OpenedOK',
           lecture.opened => lecture'.opened
    PROVE  /\ Kept /\ NoneGraded
           /\ RowsOK' /\ AnswersComeWithGrade' /\ ReportUrlHasFile' /\ AttendanceAfterOpening'
<1>1. UNCHANGED <<enrolled, exam, question, answer, grade, clinic, report, files, attendance>>
  BY DEF gradingVars, classworkVars
<1>2. Kept /\ NoneGraded
  BY <1>1 DEF Kept, NoneGraded, Started, GradedOrGone, Graded
<1>3. RowsOK'
  BY <1>1 DEF IInv, RowsOK, LecturesTypeOK, OpenedOK, ExamOK, GradeOK, AnswerOK, ReportOK, AttendanceOK
<1>4. AnswersComeWithGrade' /\ ReportUrlHasFile'
  BY <1>1 DEF IInv, AnswersComeWithGrade, Graded, Questions, WithClinic, ReportUrlHasFile
<1>5. AttendanceAfterOpening'
  BY <1>1 DEF IInv, AttendanceAfterOpening
<1> QED
  BY <1>2, <1>3, <1>4, <1>5

Updated(l, status, startAt) ==
    [l EXCEPT !.status = status, !.startAt = startAt, !.opened = @ \/ status = "IN_PROGRESS"]
LEMMA UpdatedRow ==
    ASSUME NEW l \in LectureRow, NEW status \in {"SCHEDULED", "IN_PROGRESS", "COMPLETED"},
           NEW startAt \in {"unset", "future", "past"}
    PROVE  Updated(l, status, startAt) \in LectureRow /\ Updated(l, status, startAt).status = status
           /\ Updated(l, status, startAt).opened = (l.opened \/ status = "IN_PROGRESS")
  BY DEF LectureRow, Updated

LEMMA LectureStep ==
    ASSUME IInv, UNCHANGED <<gradingVars, classworkVars>>,
           UpdateLecture \/ DeleteLecture \/ StartTimePasses \/ \E r \in Requests : BeginRemoval(r)
    PROVE  IInv'
<1>1. lecture \in LectureRow /\ OpenedOK
  BY DEF IInv, RowsOK, LecturesTypeOK
<1>2. CASE UpdateLecture
  <2>1. PICK status \in LectureStatuses \cup {lecture.status}, startAt \in {"unset", "future", "past"} :
          lecture' = Updated(lecture, status, startAt)
    BY <1>2 DEF UpdateLecture, Updated
  <2>2. status \in {"SCHEDULED", "IN_PROGRESS", "COMPLETED"}
    BY <1>1, LecturesAssumption DEF LectureRow
  <2>3. lecture' \in LectureRow /\ lecture'.status = status /\ lecture'.opened = (lecture.opened \/ status = "IN_PROGRESS")
    BY <1>1, <2>1, <2>2, UpdatedRow
  <2>4. OpenedOK' /\ (lecture.opened => lecture'.opened) /\ UNCHANGED <<enrolled, req>>
    BY <1>2, <2>3 DEF OpenedOK, UpdateLecture, Serve
  <2> QED
    BY <2>3, <2>4, LectureMoved, Served DEF IInv
<1>3. CASE DeleteLecture \/ StartTimePasses
  <2>1. lecture' = [lecture EXCEPT !.deleted = TRUE] \/ lecture' = [lecture EXCEPT !.startAt = "past"]
    BY <1>3 DEF DeleteLecture, StartTimePasses
  <2>2. lecture' \in LectureRow /\ lecture'.status = lecture.status /\ lecture'.opened = lecture.opened
    BY <1>1, <2>1 DEF LectureRow
  <2>3. UNCHANGED <<enrolled, req>>
    BY <1>3 DEF DeleteLecture, StartTimePasses, Serve, serverVars
  <2>4. OpenedOK'
    BY <1>1, <2>2 DEF OpenedOK
  <2> QED
    BY <2>2, <2>3, <2>4, LectureMoved, Served DEF IInv
<1>4. ASSUME NEW r \in Requests, BeginRemoval(r) PROVE IInv'
  <2>1. UNCHANGED ruled
    BY <1>4 DEF BeginRemoval, ruled, lectureVars, gradingVars, classworkVars
  <2>2. RequestsOK'
    BY <1>4, <2>1, NothingMoved, PlainBegins DEF IInv, BeginRemoval, Plain, ReliantOps, AttendanceOps
  <2> QED
    BY <2>1, <2>2, Still
<1> QED
  BY <1>2, <1>3, <1>4

-----------------------------------------------------------------------------
(***************************************************************************)
(* Steps of the exam, its grades, clinics and reports.                     *)
(***************************************************************************)

\* They leave the lecture and its attendance alone.
LEMMA LectureKept ==
    ASSUME IInv, UNCHANGED <<lectureVars, classworkVars>>
    PROVE  LecturesTypeOK' /\ OpenedOK' /\ AttendanceOK' /\ AttendanceAfterOpening'
  BY DEF IInv, RowsOK, lectureVars, classworkVars, LecturesTypeOK, OpenedOK, AttendanceOK, AttendanceAfterOpening

LEMMA CreateExamStep ==
    ASSUME IInv, UNCHANGED <<lectureVars, classworkVars>>, NEW r \in Requests, CreateExam(r)
    PROVE  IInv'
<1>1. /\ exam.status = "NONE" /\ Reply(r)
      /\ UNCHANGED <<lecture, enrolled, answer, grade, clinic, report, files>>
  BY DEF CreateExam, lectureVars
<1>2. exam'.status = "PENDING" /\ "status" \in DOMAIN exam'
  BY DEF CreateExam, NewExam, NoExam
<1>3. Graded = {}
  BY <1>1 DEF IInv, AnswersComeWithGrade
<1>4. Kept /\ NoneGraded
  BY <1>1 DEF Kept, NoneGraded, Started, GradedOrGone, Graded
<1>5. RowsOK'
  BY <1>1, <1>2, LectureKept DEF IInv, RowsOK, ExamOK, GradeOK, AnswerOK, ReportOK
<1>6. AnswersComeWithGrade'
  BY <1>1, <1>3 DEF IInv, AnswersComeWithGrade, Graded, WithClinic
<1>7. ReportUrlHasFile' /\ RequestsOK'
  BY <1>1, <1>4, Replied DEF IInv, ReportUrlHasFile
<1> QED
  BY <1>5, <1>6, <1>7, LectureKept DEF IInv

\* Questions that are kept by number are there afterwards.
LEMMA KeptQuestions ==
    ASSUME NEW paper, SetQuestions(paper), NEW q \in KeptBy(paper) PROVE q \in Questions'
<1> DEFINE rows == NewRows(paper, NewNumbers(paper), minted)
<1>1. q \in QuestionIds /\ question' = [i \in QuestionIds |->
          IF i \in DOMAIN rows THEN rows[i] ELSE IF i \in KeptBy(paper) THEN RowOf(paper, question[i].number) ELSE NoQuestion]
  BY DEF SetQuestions, KeptBy, Questions
<1>2. \A n : RowOf(paper, n) # NoQuestion
  BY DEF RowOf, NoQuestion
<1>3. \A i \in DOMAIN rows : \E n : rows[i] = RowOf(paper, n)
  BY DEF NewRows
<1>4. question'[q] # NoQuestion
  <2> HIDE DEF rows
  <2> QED
    BY <1>1, <1>2, <1>3
<1> QED
  BY <1>1, <1>4 DEF Questions

LEMMA UpdateExamStep ==
    ASSUME IInv, UNCHANGED <<lectureVars, classworkVars>>, UpdateExam
    PROVE  IInv'
<1>1. UNCHANGED <<req, lecture, enrolled, grade, clinic, report, files>>
  BY DEF UpdateExam, lectureVars, Serve
<1>2. "status" \in DOMAIN exam' /\ exam'.status = exam.status
  BY DEF UpdateExam, IInv, RowsOK, ExamOK
<1>3. Kept /\ NoneGraded
  BY <1>1, <1>2 DEF Kept, NoneGraded, Started, GradedOrGone, Graded
<1>4. AnswerOK' /\ \A s \in Students, q \in QuestionIds : answer'[s][q] # NoAnswer => answer[s][q] # NoAnswer /\ q \in Questions'
  <2>1. CASE UNCHANGED <<question, answer>>
    BY <2>1 DEF IInv, RowsOK, AnswerOK, AnswersComeWithGrade, Questions
  <2>2. ASSUME NEW paper, SetQuestions(paper),
               answer' = [s \in Students |-> [q \in QuestionIds |-> IF q \in KeptBy(paper) THEN answer[s][q] ELSE NoAnswer]]
        PROVE  AnswerOK' /\ \A s \in Students, q \in QuestionIds :
                 answer'[s][q] # NoAnswer => answer[s][q] # NoAnswer /\ q \in Questions'
    BY <2>2, KeptQuestions DEF AnswerOK
  <2> QED
    BY <2>1, <2>2 DEF UpdateExam
<1>5. RowsOK'
  BY <1>1, <1>2, <1>4, LectureKept DEF IInv, RowsOK, ExamOK, GradeOK, ReportOK
<1>6. AnswersComeWithGrade'
  BY <1>1, <1>2, <1>4 DEF IInv, AnswersComeWithGrade, Graded, WithClinic
<1>7. ReportUrlHasFile' /\ RequestsOK'
  BY <1>1, <1>3, Served DEF IInv, ReportUrlHasFile
<1> QED
  BY <1>5, <1>6, <1>7, LectureKept DEF IInv

LEMMA ClinicOff == ASSUME NEW row \in ClinicRow
                   PROVE  [row EXCEPT !.status = "NONE"] \in ClinicRow /\ [row EXCEPT !.status = "NONE"].status = "NONE"
  BY DEF ClinicRow

LEMMA DeleteExamStep ==
    ASSUME IInv, UNCHANGED <<lectureVars, classworkVars>>, NEW r \in Requests, DeleteExam(r)
    PROVE  IInv'
<1>1. Reply(r) /\ UNCHANGED <<lecture, enrolled, files>>
  BY DEF DeleteExam, lectureVars
<1>2. CASE UNCHANGED <<exam, question, answer, grade, clinic, statistic, report, current>>
  <2>1. UNCHANGED ruled
    BY <1>1, <1>2 DEF ruled, classworkVars
  <2> QED
    BY <1>1, <2>1, NothingMoved, Replied, Still DEF IInv
<1>3. CASE ExamExists /\ exam' = [exam EXCEPT !.status = "DELETED"]
           /\ answer' = [s \in Students |-> [q \in QuestionIds |-> NoAnswer]]
           /\ grade' = [s \in Students |-> NoGrade]
           /\ clinic' = [s \in Students |-> [clinic[s] EXCEPT !.status = "NONE"]]
           /\ report' = [s \in Students |-> NoReport]
  <2>1. "status" \in DOMAIN exam' /\ exam'.status = "DELETED"
    BY <1>3 DEF IInv, RowsOK, ExamOK
  <2>2. Graded' = {}
    BY <1>3 DEF Graded
  <2>3. Kept /\ NoneGraded
    BY <1>1, <2>1, <2>2 DEF Kept, NoneGraded, Started, GradedOrGone
  <2>4. clinic' \in [Students -> ClinicRow] /\ WithClinic' = {}
    BY <1>3, ClinicOff DEF IInv, RowsOK, WithClinic
  <2>5. RowsOK'
    BY <1>3, <2>1, <2>4, LectureKept DEF RowsOK, ExamOK, GradeOK, AnswerOK, ReportOK, NoReport
  <2>6. AnswersComeWithGrade' /\ ReportUrlHasFile'
    BY <1>3, <2>2, <2>4 DEF AnswersComeWithGrade, ReportUrlHasFile, NoReport
  <2> QED
    BY <1>1, <2>3, <2>5, <2>6, LectureKept, Replied DEF IInv
<1> QED
  BY <1>2, <1>3 DEF DeleteExam

\* A grade and its answers are saved together, with the exam in the state it was checked to be in.
LEMMA SaveGradingStep ==
    ASSUME IInv, UNCHANGED <<lectureVars, classworkVars>>, NEW r \in Requests, SaveGrading(r)
    PROVE  IInv'
<1> DEFINE c == req[r]
           seat == c.seat
<1>1. UNCHANGED <<lecture, enrolled, question, clinic, report, files>>
  BY DEF SaveGrading, lectureVars
<1>2. CASE Reply(r) /\ UNCHANGED <<exam, answer, grade, current>>
  <2>1. UNCHANGED ruled
    BY <1>1, <1>2 DEF ruled, classworkVars
  <2> QED
    BY <1>2, <2>1, NothingMoved, Replied, Still DEF IInv
<1>3. CASE /\ ExamExists /\ seat \in enrolled /\ DOMAIN c.sheet \subseteq Questions
           /\ exam' = IF c.reopens THEN [exam EXCEPT !.status = "IN_PROGRESS"] ELSE exam
           /\ answer' = [answer EXCEPT ![seat] =
                            [q \in QuestionIds |-> IF q \in DOMAIN c.sheet THEN c.sheet[q] ELSE answer[seat][q]]]
           /\ SavesGrade(r)
           /\ ReplyOvertaking(r, {"completeGrading", "statistics", "deleteExam"})
  <2>1. ~c.reopens => Started
    BY DEF SaveGrading, At, IInv, RequestsOK, RequestOK, SubmitOK
  <2>2. "status" \in DOMAIN exam' /\ exam'.status \in {"IN_PROGRESS", "COMPLETED"}
    <3>1. CASE c.reopens
      BY <1>3, <3>1 DEF IInv, RowsOK, ExamOK
    <3>2. CASE ~c.reopens
      BY <1>3, <2>1, <3>2 DEF IInv, RowsOK, ExamOK, ExamExists, Started
    <3> QED
      BY <3>1, <3>2
  <2>3. seat \in Students
    BY <1>3 DEF IInv, RowsOK, LecturesTypeOK
  <2>4. PICK g : /\ g # NoGrade /\ "isPass" \in DOMAIN g
                 /\ grade' = [grade EXCEPT ![seat] = g]
    <3> DEFINE h == [score |-> c.score, isPass |-> c.isPass, rank |-> IF seat \in Graded THEN grade[seat].rank ELSE NoRank]
    <3>1. grade' = [grade EXCEPT ![seat] = h]
      BY <1>3 DEF SavesGrade
    <3>2. DOMAIN h = {"score", "isPass", "rank"} /\ DOMAIN NoGrade = {"score"}
      BY DEF NoGrade
    <3>3. "isPass" \in DOMAIN h /\ "isPass" \notin DOMAIN NoGrade
      BY <3>2
    <3> HIDE DEF h
    <3>4. h # NoGrade
      BY <3>3
    <3> QED
      BY <3>1, <3>3, <3>4
  <2>5. GradeOK' /\ \A s \in Students : s # seat => grade'[s] = grade[s]
    BY <2>3, <2>4 DEF GradeOK, IInv, RowsOK
  <2>6. Graded' = Graded \cup {seat}
    BY <2>3, <2>4 DEF GradeOK, IInv, RowsOK, Graded
  <2>7. AnswerOK'
    <3>1. answer = [s \in Students |-> answer[s]]
      BY DEF AnswerOK, IInv, RowsOK
    <3> QED
      BY <1>3, <2>3, <3>1 DEF AnswerOK, IInv, RowsOK
  <2>8. ASSUME NEW s \in Students, NEW q \in QuestionIds, answer'[s][q] # NoAnswer
        PROVE  s \in Graded' /\ q \in Questions'
    <3>1. s # seat => answer'[s] = answer[s]
      BY <1>3 DEF AnswerOK, IInv, RowsOK
    <3>2. s = seat => answer'[s][q] = answer[s][q] \/ q \in DOMAIN c.sheet
      BY <1>3, <2>3 DEF AnswerOK, IInv, RowsOK
    <3> QED
      BY <1>1, <1>3, <2>6, <2>8, <3>1, <3>2 DEF IInv, AnswersComeWithGrade, Questions
  <2>9. AnswersComeWithGrade'
    BY <1>1, <1>3, <2>2, <2>6, <2>8 DEF IInv, AnswersComeWithGrade, WithClinic
  <2>10. Kept
    <3>1. Started'
      BY <2>2 DEF Started
    <3>2. exam.status # "DELETED" /\ Graded \subseteq Graded'
      BY <1>3, <2>6 DEF ExamExists
    <3> QED
      BY <1>1, <3>1, <3>2 DEF Kept, GradedOrGone
  <2>11. RequestsOK'
    BY <1>3, <2>10, RepliedOvertaking DEF IInv
  <2>12. RowsOK' /\ ReportUrlHasFile'
    BY <1>1, <2>2, <2>5, <2>7, LectureKept DEF IInv, RowsOK, ExamOK, ReportOK, ReportUrlHasFile
  <2> QED
    BY <2>9, <2>11, <2>12, LectureKept DEF IInv
<1> QED
  BY <1>2, <1>3 DEF SaveGrading

\* The exam's status moves on, and clinics only for the graded appear.
LEMMA ClinicsMoved ==
    ASSUME IInv, UNCHANGED <<lectureVars, classworkVars, question, answer, grade, report, files>>,
           "status" \in DOMAIN exam',
           exam'.status = exam.status \/ (ExamExists /\ exam'.status = "COMPLETED"),
           clinic' \in [Students -> ClinicRow], WithClinic' \subseteq Graded
    PROVE  /\ Kept /\ NoneGraded
           /\ RowsOK' /\ AnswersComeWithGrade' /\ ReportUrlHasFile' /\ AttendanceAfterOpening'
<1>1. UNCHANGED <<lecture, enrolled>>
  BY DEF lectureVars
<1>2. exam'.status \in {"NONE", "PENDING", "IN_PROGRESS", "COMPLETED", "DELETED"}
  BY DEF IInv, RowsOK, ExamOK
<1>3. Kept /\ NoneGraded
  BY <1>1 DEF Kept, NoneGraded, Started, GradedOrGone, Graded, ExamExists
<1>4. RowsOK'
  BY <1>2, LectureKept DEF IInv, RowsOK, ExamOK, GradeOK, AnswerOK, ReportOK
<1>5. AnswersComeWithGrade'
  BY <1>1 DEF IInv, AnswersComeWithGrade, Graded, Questions
<1> QED
  BY <1>3, <1>4, <1>5, LectureKept DEF IInv, ReportUrlHasFile

LEMMA StatusSet ==
    ASSUME NEW row, NEW status, "status" \in DOMAIN row
    PROVE  "status" \in DOMAIN [row EXCEPT !.status = status] /\ [row EXCEPT !.status = status].status = status
  OBVIOUS

LEMMA CompleteOnlyStep ==
    ASSUME IInv, UNCHANGED <<lectureVars, classworkVars>>, NEW r \in Requests, CompleteOnly(r)
    PROVE  IInv'
<1>1. Reply(r) /\ UNCHANGED <<question, answer, grade, clinic, report, files>>
  BY DEF CompleteOnly
<1>2. "status" \in DOMAIN exam' /\ (exam'.status = exam.status \/ (ExamExists /\ exam'.status = "COMPLETED"))
  <2>1. CASE exam' = exam
    BY <2>1 DEF IInv, RowsOK, ExamOK
  <2>2. CASE ExamExists /\ exam' = [exam EXCEPT !.status = "COMPLETED"]
    <3>1. "status" \in DOMAIN exam
      BY DEF IInv, RowsOK, ExamOK
    <3>2. "status" \in DOMAIN exam' /\ exam'.status = "COMPLETED"
      BY <2>2, <3>1, StatusSet
    <3> QED
      BY <2>2, <3>2
  <2> QED
    BY <2>1, <2>2 DEF CompleteOnly
<1>3. clinic' \in [Students -> ClinicRow] /\ WithClinic' \subseteq Graded
  BY <1>1 DEF IInv, RowsOK, WithClinic, AnswersComeWithGrade
<1> QED
  BY <1>1, <1>2, <1>3, ClinicsMoved, Replied DEF IInv

LEMMA NewClinic == ASSUME NEW row \in ClinicRow PROVE [status |-> "PENDING", id |-> row.id + 1] \in ClinicRow
  BY DEF ClinicRow

LEMMA SyncClinicsStep ==
    ASSUME IInv, UNCHANGED <<lectureVars, classworkVars>>, NEW r \in Requests, SyncClinics(r)
    PROVE  IInv'
<1> DEFINE c == req[r]
<1>1. UNCHANGED <<question, answer, grade, report, files>>
  BY DEF SyncClinics
<1>2. CASE Reply(r) /\ UNCHANGED <<clinic, exam, current>>
  <2>1. UNCHANGED ruled
    BY <1>1, <1>2 DEF ruled, classworkVars, lectureVars
  <2> QED
    BY <1>2, <2>1, NothingMoved, Replied, Still DEF IInv
<1>3. CASE /\ c.create \subseteq enrolled /\ (ExamExists \/ (c.create = {} /\ ~c.closes))
           /\ clinic' = SyncedClinics(c)
           /\ exam' = IF c.closes THEN [exam EXCEPT !.status = "COMPLETED"] ELSE exam
           /\ Reply(r) \/ ReplyOvertaking(r, {"completeGrading"})
  <2>1. \A s \in c.create : GradedOrGone(s)
    BY DEF SyncClinics, At, IInv, RequestsOK, RequestOK, CompleteOK
  <2>2. c.create \subseteq Graded
    BY <1>3, <2>1 DEF GradedOrGone, ExamExists
  <2>3. "status" \in DOMAIN exam' /\ (exam'.status = exam.status \/ (ExamExists /\ exam'.status = "COMPLETED"))
    <3>1. CASE c.closes
      <4>1. ExamExists /\ exam' = [exam EXCEPT !.status = "COMPLETED"]
        BY <1>3, <3>1
      <4>2. "status" \in DOMAIN exam
        BY DEF IInv, RowsOK, ExamOK
      <4>3. "status" \in DOMAIN exam' /\ exam'.status = "COMPLETED"
        BY <4>1, <4>2, StatusSet
      <4> QED
        BY <4>1, <4>3
    <3>2. CASE ~c.closes
      BY <1>3, <3>2 DEF IInv, RowsOK, ExamOK
    <3> QED
      BY <3>1, <3>2
  <2>4. ASSUME NEW s \in Students
        PROVE  clinic'[s] \in ClinicRow /\ (clinic'[s].status # "NONE" => s \in c.create \/ s \in WithClinic)
    <3>1. clinic[s] \in ClinicRow
      BY DEF IInv, RowsOK
    <3>2. \/ clinic'[s] = [clinic[s] EXCEPT !.status = "NONE"]
          \/ s \in c.create /\ clinic'[s] = [status |-> "PENDING", id |-> clinic[s].id + 1]
          \/ clinic'[s] = clinic[s]
      BY <1>3 DEF SyncedClinics
    <3> QED
      BY <3>1, <3>2, ClinicOff, NewClinic DEF WithClinic
  <2>5. clinic' = [s \in Students |-> clinic'[s]]
    BY <1>3 DEF SyncedClinics
  <2>6. clinic' \in [Students -> ClinicRow] /\ WithClinic' \subseteq Graded
    BY <2>2, <2>4, <2>5 DEF WithClinic, IInv, AnswersComeWithGrade
  <2>7. /\ Kept /\ NoneGraded
        /\ RowsOK' /\ AnswersComeWithGrade' /\ ReportUrlHasFile' /\ AttendanceAfterOpening'
    BY <1>1, <2>3, <2>6, ClinicsMoved
  <2>8. RequestsOK'
    BY <1>3, <2>7, Replied, RepliedOvertaking DEF IInv
  <2> QED
    BY <2>7, <2>8 DEF IInv
<1> QED
  BY <1>2, <1>3 DEF SyncClinics

LEMMA ClinicSet ==
    ASSUME NEW row \in ClinicRow, NEW status \in {"PENDING", "SENT", "COMPLETED"}
    PROVE  [row EXCEPT !.status = status] \in ClinicRow
  BY DEF ClinicRow

LEMMA UpdateClinicsStep ==
    ASSUME IInv, UNCHANGED <<lectureVars, classworkVars>>, NEW r \in Requests, UpdateClinics(r)
    PROVE  IInv'
<1> DEFINE ids == req[r].ids
           left == {s \in DOMAIN ids \cap WithClinic : clinic[s].id = ids[s]}
<1>1. Reply(r) /\ UNCHANGED <<exam, question, answer, grade, report, files>>
  BY DEF UpdateClinics
<1>2. PICK status \in {"PENDING", "SENT", "COMPLETED"} :
        clinic' = [s \in Students |-> IF s \in left THEN [clinic[s] EXCEPT !.status = status] ELSE clinic[s]]
  BY DEF UpdateClinics
<1>3. left \subseteq WithClinic
  OBVIOUS
<1> HIDE DEF left
<1>4. \A s \in Students : clinic'[s] \in ClinicRow /\ (s \in left \/ clinic'[s] = clinic[s])
  BY <1>2, ClinicSet DEF IInv, RowsOK
<1>5. clinic' \in [Students -> ClinicRow] /\ WithClinic' \subseteq Graded
  BY <1>2, <1>3, <1>4 DEF WithClinic, IInv, AnswersComeWithGrade
<1>6. "status" \in DOMAIN exam' /\ exam'.status = exam.status
  BY <1>1 DEF IInv, RowsOK, ExamOK
<1>7. /\ Kept /\ NoneGraded
      /\ RowsOK' /\ AnswersComeWithGrade' /\ ReportUrlHasFile' /\ AttendanceAfterOpening'
  <2>1. UNCHANGED <<lectureVars, classworkVars, question, answer, grade, report, files>>
    BY <1>1
  <2>2. exam'.status = exam.status \/ (ExamExists /\ exam'.status = "COMPLETED")
    BY <1>6
  <2> QED
    BY <1>5, <1>6, <2>1, <2>2, ClinicsMoved
<1>8. RequestsOK'
  BY <1>1, <1>7, Replied DEF IInv
<1> QED
  BY <1>7, <1>8 DEF IInv

LEMMA RankedGrade ==
    ASSUME NEW row, NEW rank, "isPass" \in DOMAIN row
    PROVE  "isPass" \in DOMAIN [row EXCEPT !.rank = rank] /\ [row EXCEPT !.rank = rank] # NoGrade
  BY DEF NoGrade

LEMMA SaveStatisticsStep ==
    ASSUME IInv, UNCHANGED <<lectureVars, classworkVars>>, NEW r \in Requests, SaveStatistics(r)
    PROVE  IInv'
<1> DEFINE ranks == req[r].ranks
<1>1. Reply(r) /\ UNCHANGED <<lecture, enrolled, question, answer, clinic, report, files>>
  BY DEF SaveStatistics, lectureVars
<1>2. "status" \in DOMAIN exam' /\ exam'.status = exam.status
  BY DEF SaveStatistics, IInv, RowsOK, ExamOK
<1>3. GradeOK' /\ Graded' = Graded
  <2>1. CASE UNCHANGED grade
    BY <2>1 DEF IInv, RowsOK, GradeOK, Graded
  <2>2. CASE /\ DOMAIN ranks \subseteq Graded
             /\ grade' = [s \in Students |->
                           IF s \in DOMAIN ranks THEN [grade[s] EXCEPT !.rank = ranks[s]] ELSE grade[s]]
    <3>1. ASSUME NEW s \in DOMAIN ranks
          PROVE  s \in Students /\ s \in Graded /\ "isPass" \in DOMAIN grade'[s] /\ grade'[s] # NoGrade
      <4>1. s \in Students /\ s \in Graded /\ "isPass" \in DOMAIN grade[s]
        BY <2>2 DEF Graded, IInv, RowsOK, GradeOK
      <4>2. grade'[s] = [grade[s] EXCEPT !.rank = ranks[s]]
        BY <2>2, <4>1
      <4> QED
        BY <4>1, <4>2, RankedGrade
    <3>2. ASSUME NEW s \in Students, s \notin DOMAIN ranks PROVE grade'[s] = grade[s]
      BY <2>2, <3>2
    <3> QED
      BY <2>2, <3>1, <3>2 DEF IInv, RowsOK, GradeOK, Graded
  <2> QED
    BY <2>1, <2>2 DEF SaveStatistics
<1>4. Kept /\ NoneGraded
  BY <1>1, <1>2, <1>3 DEF Kept, NoneGraded, Started, GradedOrGone
<1>5. RowsOK' /\ ReportUrlHasFile'
  BY <1>1, <1>2, <1>3, LectureKept DEF IInv, RowsOK, ExamOK, AnswerOK, ReportOK, ReportUrlHasFile
<1>6. AnswersComeWithGrade'
  BY <1>1, <1>2, <1>3 DEF IInv, AnswersComeWithGrade, Questions, WithClinic
<1> QED
  BY <1>1, <1>4, <1>5, <1>6, LectureKept, Replied DEF IInv

-----------------------------------------------------------------------------
(***************************************************************************)
(* Reports: the file first, then the row that names it.                    *)
(***************************************************************************)
LEMMA ReportsMoved ==
    ASSUME IInv, UNCHANGED <<lectureVars, classworkVars, exam, question, answer, grade, clinic>>, files \subseteq files', ReportOK',
           \A s \in Students : report'[s].exists => report[s].exists \/ s \in Graded,
           \A s \in Students : report'[s].url # NoUrl => report'[s].url \in files'
    PROVE  /\ Kept /\ NoneGraded
           /\ RowsOK' /\ AnswersComeWithGrade' /\ ReportUrlHasFile' /\ AttendanceAfterOpening'
<1>1. UNCHANGED <<lecture, enrolled>>
  BY DEF lectureVars
<1>2. Kept /\ NoneGraded
  BY <1>1 DEF Kept, NoneGraded, Started, GradedOrGone, Graded
<1>3. RowsOK'
  BY LectureKept DEF IInv, RowsOK, ExamOK, GradeOK, AnswerOK
<1>4. AnswersComeWithGrade'
  BY <1>1 DEF IInv, AnswersComeWithGrade, Graded, Questions, WithClinic
<1> QED
  BY <1>2, <1>3, <1>4, LectureKept DEF ReportUrlHasFile

LEMMA DescribedRow ==
    ASSUME NEW row, {"exists", "url"} \subseteq DOMAIN row
    PROVE  {"exists", "url"} \subseteq DOMAIN [row EXCEPT !.exists = TRUE] /\ [row EXCEPT !.exists = TRUE].url = row.url
  OBVIOUS

LEMMA DescribeReportStep ==
    ASSUME IInv, UNCHANGED <<lectureVars, classworkVars>>, NEW r \in Requests, DescribeReport(r)
    PROVE  IInv'
<1> DEFINE seat == req[r].seat
<1>1. UNCHANGED <<exam, question, answer, grade, clinic, files>> /\ Reply(r)
  BY DEF DescribeReport
<1>2. UNCHANGED <<lectureVars, classworkVars, exam, question, answer, grade, clinic>> /\ files \subseteq files'
  BY <1>1
<1>3. ReportOK
  BY DEF IInv, RowsOK
<1>4. /\ report' = [s \in Students |-> report'[s]]
      /\ \A s \in Students : report'[s] = report[s] \/ (s \in Graded /\ report'[s] = [report[s] EXCEPT !.exists = TRUE])
  <2>1. CASE report' = report
    BY <1>3, <2>1 DEF ReportOK
  <2>2. CASE seat \in Graded /\ report' = [report EXCEPT ![seat].exists = TRUE]
    BY <1>3, <2>2 DEF ReportOK
  <2> QED
    BY <2>1, <2>2 DEF DescribeReport
<1>5. ASSUME NEW s \in Students
      PROVE  /\ {"exists", "url"} \subseteq DOMAIN report'[s] /\ report'[s].url = report[s].url
             /\ report'[s].exists => report[s].exists \/ s \in Graded
  <2>1. {"exists", "url"} \subseteq DOMAIN report[s]
    BY <1>3 DEF ReportOK
  <2>2. CASE report'[s] = report[s]
    BY <2>1, <2>2
  <2>3. CASE s \in Graded /\ report'[s] = [report[s] EXCEPT !.exists = TRUE]
    BY <2>1, <2>3, DescribedRow
  <2> QED
    BY <1>4, <2>2, <2>3
<1>6. ReportOK'
  BY <1>4, <1>5 DEF ReportOK
<1>7. \A s \in Students : report'[s].url # NoUrl => report'[s].url \in files'
  BY <1>1, <1>5 DEF IInv, ReportUrlHasFile
<1>8. \A s \in Students : report'[s].exists => report[s].exists \/ s \in Graded
  BY <1>5
<1>9. /\ Kept /\ NoneGraded
      /\ RowsOK' /\ AnswersComeWithGrade' /\ ReportUrlHasFile' /\ AttendanceAfterOpening'
  BY <1>2, <1>6, <1>7, <1>8, ReportsMoved
<1>10. RequestsOK'
  BY <1>1, <1>9, Replied DEF IInv
<1> QED
  BY <1>9, <1>10 DEF IInv

LEMMA UploadFileStep ==
    ASSUME IInv, UNCHANGED <<lectureVars, classworkVars>>, NEW r \in Requests, UploadFile(r)
    PROVE  IInv'
<1>1. /\ UNCHANGED <<lectureVars, classworkVars, exam, question, answer, grade, clinic>> /\ report' = report
      /\ files' = files \cup {req[r].file}
      /\ Proceed(r, [req[r] EXCEPT !.step = "save"]) /\ req[r].op = "uploadReport"
  BY DEF UploadFile, StoreFile, At
<1>2. {"op", "step", "file"} \subseteq DOMAIN req[r]
  BY <1>1 DEF IInv, RequestsOK, RequestOK, UploadOK
<1>3. ReportOK' /\ files \subseteq files' /\ \A s \in Students : report'[s].exists => report[s].exists \/ s \in Graded
  BY <1>1 DEF IInv, RowsOK, ReportOK
<1>4. \A s \in Students : report'[s].url # NoUrl => report'[s].url \in files'
  BY <1>1 DEF IInv, ReportUrlHasFile
<1>5. /\ Kept /\ NoneGraded
      /\ RowsOK' /\ AnswersComeWithGrade' /\ ReportUrlHasFile' /\ AttendanceAfterOpening'
  BY <1>1, <1>3, <1>4, ReportsMoved
<1>6. req'[r] = [req[r] EXCEPT !.step = "save"]
  BY <1>1 DEF Proceed, IInv, RequestsOK
<1>7. /\ DOMAIN req'[r] = DOMAIN req[r] /\ req'[r].op = "uploadReport" /\ req'[r].file = req[r].file
  BY <1>1, <1>2, <1>6
<1>8. RequestOK(r)'
  BY <1>1, <1>2, <1>7 DEF RequestOK, UploadOK, AttendanceOps
<1>9. RequestsOK'
  BY <1>1, <1>5, <1>8, Moves DEF IInv
<1> QED
  BY <1>5, <1>9 DEF IInv

LEMMA SaveReportUrlStep ==
    ASSUME IInv, UNCHANGED <<lectureVars, classworkVars>>, NEW r \in Requests, SaveReportUrl(r)
    PROVE  IInv'
<1> DEFINE seat == req[r].seat
           new == [exists |-> TRUE, url |-> req[r].file]
<1>1. /\ UNCHANGED <<lectureVars, classworkVars, exam, question, answer, grade, clinic>> /\ files \subseteq files'
      /\ files' = files /\ Reply(r)
  BY DEF SaveReportUrl
<1>2. req[r].file \in files
  BY DEF SaveReportUrl, At, IInv, RequestsOK, RequestOK, UploadOK
<1>3. ReportOK
  BY DEF IInv, RowsOK
<1>4. /\ report' = [s \in Students |-> report'[s]]
      /\ \A s \in Students : report'[s] = report[s] \/ (s \in Graded /\ report'[s] = new)
  <2>1. CASE report' = report
    BY <1>3, <2>1 DEF ReportOK
  <2>2. CASE seat \in Graded /\ report' = [report EXCEPT ![seat] = new]
    BY <1>3, <2>2 DEF ReportOK
  <2> QED
    BY <2>1, <2>2 DEF SaveReportUrl
<1>5. new.url = req[r].file /\ {"exists", "url"} \subseteq DOMAIN new
  OBVIOUS
<1>11. ASSUME NEW s \in Students
       PROVE  /\ {"exists", "url"} \subseteq DOMAIN report'[s]
              /\ report'[s].url # NoUrl => report'[s].url \in files'
              /\ report'[s].exists => report[s].exists \/ s \in Graded
  <2>1. CASE report'[s] = report[s]
    BY <1>1, <1>3, <2>1 DEF ReportOK, IInv, ReportUrlHasFile
  <2>2. CASE s \in Graded /\ report'[s] = new
    BY <1>1, <1>2, <2>2
  <2> QED
    BY <1>4, <2>1, <2>2
<1> HIDE DEF new
<1>6. ReportOK'
  BY <1>4, <1>11 DEF ReportOK
<1>7. \A s \in Students : report'[s].url # NoUrl => report'[s].url \in files'
  BY <1>11
<1>8. \A s \in Students : report'[s].exists => report[s].exists \/ s \in Graded
  BY <1>11
<1>9. /\ Kept /\ NoneGraded
      /\ RowsOK' /\ AnswersComeWithGrade' /\ ReportUrlHasFile' /\ AttendanceAfterOpening'
  BY <1>1, <1>6, <1>7, <1>8, ReportsMoved
<1>10. RequestsOK'
  BY <1>1, <1>9, Replied DEF IInv
<1> QED
  BY <1>9, <1>10 DEF IInv

-----------------------------------------------------------------------------
(***************************************************************************)
(* A seat goes with everything that hangs on it.                           *)
(***************************************************************************)
LEMMA WithdrawStep ==
    ASSUME IInv, NEW r \in Requests, Withdraw(r)
    PROVE  IInv'
<1> DEFINE seat == req[r].seat
<1>1. /\ lecture' = lecture /\ enrolled' = enrolled \ {seat}
      /\ UNCHANGED <<exam, question, files>>
      /\ answer' = [answer EXCEPT ![seat] = [q \in QuestionIds |-> NoAnswer]]
      /\ grade' = [grade EXCEPT ![seat] = NoGrade]
      /\ clinic' = [clinic EXCEPT ![seat].status = "NONE"]
      /\ report' = [report EXCEPT ![seat] = NoReport]
      /\ attendance' = [attendance EXCEPT ![seat] = [d \in Days |-> Struck(attendance[seat][d])]]
  BY DEF Withdraw, RemoveSeat, GradingForgets, ClassworkForgets
<1>2. ReplyOvertaking(r, IF seat \in Graded THEN {"statistics"} ELSE {})
  BY DEF Withdraw, RemovalOvertakes
<1> HIDE DEF seat
<1> USE DEF IInv, RowsOK
<1>3. GradeOK' /\ \A s \in Students : IF s = seat THEN grade'[s] = NoGrade ELSE grade'[s] = grade[s]
  BY <1>1 DEF GradeOK
<1>4. Graded' = Graded \ {seat}
  BY <1>3 DEF Graded
<1>5. AnswerOK' /\ \A s \in Students, q \in QuestionIds : answer'[s][q] # NoAnswer => s # seat /\ answer[s][q] # NoAnswer
  BY <1>1 DEF AnswerOK
<1>6. clinic' \in [Students -> ClinicRow] /\ WithClinic' \subseteq WithClinic \ {seat}
  <2>1. clinic' = [s \in Students |-> clinic'[s]]
    BY <1>1
  <2>2. ASSUME NEW s \in Students
        PROVE  clinic'[s] \in ClinicRow /\ (clinic'[s].status # "NONE" => s # seat /\ clinic[s].status # "NONE")
    <3>1. CASE s = seat
      <4>1. clinic'[s] = [clinic[s] EXCEPT !.status = "NONE"]
        BY <1>1, <3>1
      <4> QED
        BY <4>1, ClinicOff
    <3>2. CASE s # seat
      BY <1>1, <3>2
    <3> QED
      BY <3>1, <3>2
  <2> QED
    BY <2>1, <2>2 DEF WithClinic
<1>7. ReportOK' /\ \A s \in Students : IF s = seat THEN report'[s] = NoReport ELSE report'[s] = report[s]
  BY <1>1 DEF ReportOK, NoReport
<1>8. ASSUME NEW s \in Students
      PROVE  /\ attendance'[s] = [d \in Days |-> attendance'[s][d]]
             /\ \A d \in Days : StruckAt(s, d) /\ (s = seat => attendance'[s][d] = Struck(attendance[s][d]))
  BY <1>1 DEF AttendanceOK, StruckAt
<1>9. AttendanceOK' /\ \A s \in Students, d \in Days : attendance'[s][d].there => attendance[s][d].there
  <2>1. attendance' = [s \in Students |-> attendance'[s]]
    BY <1>1 DEF AttendanceOK
  <2> QED
    BY <1>8, <2>1, StruckRows
<1>10. ASSUME seat \in Students, NEW d \in Days PROVE ~attendance'[seat][d].there
  <2>1. attendance'[seat][d] = Struck(attendance[seat][d])
    BY <1>8, <1>10
  <2>2. "there" \in DOMAIN attendance[seat][d]
    BY <1>10 DEF AttendanceOK
  <2> QED
    BY <2>1, <2>2, StruckIsNotThere
<1>11. RowsOK'
  BY <1>1, <1>3, <1>5, <1>6, <1>7, <1>9 DEF LecturesTypeOK, OpenedOK, ExamOK
<1>12. AnswersComeWithGrade'
  BY <1>1, <1>4, <1>5, <1>6, <1>7 DEF AnswersComeWithGrade, Questions, NoReport
<1>13. ReportUrlHasFile'
  BY <1>1, <1>7 DEF ReportUrlHasFile, NoReport
<1>14. AttendanceAfterOpening'
  BY <1>1, <1>9, <1>10 DEF AttendanceAfterOpening
<1>15. Kept /\ NoneGraded
  BY <1>1, <1>4 DEF Kept, NoneGraded, Started, GradedOrGone
<1>16. RequestsOK'
  BY <1>2, <1>15, RepliedOvertaking
<1> QED
  BY <1>11, <1>12, <1>13, <1>14, <1>16

-----------------------------------------------------------------------------
(***************************************************************************)
(* The invariant, and what it gives.                                       *)
(***************************************************************************)
LEMMA InitIInv == Init => IInv
<1> SUFFICES ASSUME Init PROVE IInv
  OBVIOUS
<1>1. ServerInit /\ LecturesInit /\ GradingInit /\ ClassworkInit
  BY DEF Init
<1>2. RequestsOK
  <2>1. req = [r \in Requests |-> Idle]
    BY <1>1 DEF ServerInit
  <2>2. \A r \in Requests : RequestOK(r)
    BY <2>1 DEF RequestOK, Idle, AttendanceOps
  <2> QED
    BY <2>1, <2>2 DEF RequestsOK
<1>3. LecturesTypeOK /\ OpenedOK
  BY <1>1 DEF LecturesInit, LecturesTypeOK, OpenedOK
<1>4. ExamOK
  <2>1. exam = NoExam \/ \E cutoff, auto : exam = NewExam(cutoff, auto)
    BY <1>1 DEF GradingInit
  <2>2. ASSUME NEW cutoff, NEW auto, exam = NewExam(cutoff, auto) PROVE ExamOK
    <3>1. "status" \in DOMAIN NewExam(cutoff, auto) /\ NewExam(cutoff, auto).status = "PENDING"
      BY DEF NewExam, NoExam
    <3> QED
      BY <2>2, <3>1 DEF ExamOK
  <2>3. CASE exam = NoExam
    BY <2>3 DEF ExamOK, NoExam
  <2> QED
    BY <2>1, <2>2, <2>3
<1>5. /\ answer = [s \in Students |-> [q \in QuestionIds |-> NoAnswer]]
      /\ grade = [s \in Students |-> NoGrade]
      /\ clinic = [s \in Students |-> [status |-> "NONE", id |-> 0]]
      /\ report = [s \in Students |-> NoReport]
  BY <1>1 DEF GradingInit
<1>6. attendance = [s \in Students |-> [d \in Days |-> NoAttendance]]
  BY <1>1 DEF ClassworkInit
<1>7. Graded = {} /\ WithClinic = {} /\ clinic \in [Students -> ClinicRow]
  BY <1>5 DEF Graded, WithClinic, ClinicRow
<1>8. GradeOK /\ AnswerOK /\ ReportOK /\ AttendanceOK
  BY <1>5, <1>6 DEF GradeOK, AnswerOK, ReportOK, AttendanceOK, NoReport, NoAttendance
<1>9. AnswersComeWithGrade /\ ReportUrlHasFile /\ AttendanceAfterOpening
  BY <1>5, <1>6, <1>7 DEF AnswersComeWithGrade, ReportUrlHasFile, AttendanceAfterOpening, NoReport, NoAttendance
<1> QED
  BY <1>2, <1>3, <1>4, <1>7, <1>8, <1>9 DEF IInv, RowsOK

LEMMA GradingStep ==
    ASSUME IInv, GradingNext, UNCHANGED <<lectureVars, classworkVars>> PROVE IInv'
<1>1. CASE UpdateExam
  BY <1>1, UpdateExamStep
<1>2. ASSUME NEW r \in Requests, CreateExam(r) \/ DeleteExam(r) \/ SaveGrading(r) \/ CompleteOnly(r) \/ SyncClinics(r)
      PROVE  IInv'
  BY <1>2, CreateExamStep, DeleteExamStep, SaveGradingStep, CompleteOnlyStep, SyncClinicsStep
<1>3. ASSUME NEW r \in Requests, UpdateClinics(r) \/ SaveStatistics(r) \/ DescribeReport(r) \/ UploadFile(r) \/ SaveReportUrl(r)
      PROVE  IInv'
  BY <1>3, UpdateClinicsStep, SaveStatisticsStep, DescribeReportStep, UploadFileStep, SaveReportUrlStep
<1>4. ASSUME NEW r \in Requests,
             \/ BeginCreateExam(r) \/ BeginSubmit(r) \/ BeginComplete(r) \/ BeginDeleteExam(r) \/ BeginUpdateClinics(r)
             \/ BeginStatistics(r) \/ BeginDescribeReport(r) \/ BeginUploadReport(r)
      PROVE  IInv'
  BY <1>4, BeginStep
<1>5. ASSUME NEW r \in Requests,
             \/ GradeAnswers(r) \/ RecheckExam(r) \/ ReadFailedGrades(r) \/ ReadClinics(r)
             \/ CountGrades(r) \/ CountAnswers(r) \/ RankGrades(r)
      PROVE  IInv'
  BY <1>5, ReadStep
<1> QED
  BY <1>1, <1>2, <1>3, <1>4, <1>5 DEF GradingNext

LEMMA NextIInv == ASSUME IInv, [Next]_vars PROVE IInv'
<1>1. CASE UNCHANGED vars
  <2>1. UNCHANGED ruled /\ UNCHANGED req
    BY <1>1 DEF vars, ruled, serverVars, lectureVars, gradingVars, classworkVars
  <2> QED
    BY <2>1, NothingMoved, Served, Still DEF IInv
<1>2. CASE (UpdateLecture \/ DeleteLecture \/ StartTimePasses \/ \E r \in Requests : BeginRemoval(r))
           /\ UNCHANGED <<gradingVars, classworkVars, shown>>
  BY <1>2, LectureStep
<1>3. CASE GradingNext /\ UNCHANGED <<lectureVars, classworkVars>> /\ Unlink
  BY <1>3, GradingStep
<1>4. CASE ClassworkNext /\ UNCHANGED <<lectureVars, gradingVars>> /\ Unlink
  <2>1. ASSUME NEW r \in Requests, BeginAttendance(r) \/ BeginBulkAttendance(r) \/ BeginDeleteAttendance(r) \/ CheckAttendance(r)
        PROVE  IInv'
    BY <1>4, <2>1, AttendanceReadStep
  <2>2. ASSUME NEW r \in Requests, WriteAttendance(r) \/ EraseAttendance(r) PROVE IInv'
    BY <1>4, <2>2, WriteAttendanceStep, EraseAttendanceStep
  <2> QED
    BY <1>4, <2>1, <2>2, ClassworkStep DEF ClassworkNext
<1>5. CASE (\E r \in Requests : BeginShow(r) \/ ReadLinks(r) \/ SaveLinks(r))
           /\ UNCHANGED <<lectureVars, gradingVars, classworkVars>>
  BY <1>5, ShowStep
<1>6. CASE \E r \in Requests : Withdraw(r)
  BY <1>6, WithdrawStep
<1>7. CASE \E r \in Requests : Abort(r) /\ UNCHANGED <<lectureVars, gradingVars, classworkVars, shown>>
  <2>1. UNCHANGED ruled
    BY <1>7 DEF ruled, lectureVars, gradingVars, classworkVars
  <2>2. \E r \in Requests : Reply(r)
    BY <1>7 DEF Abort
  <2> QED
    BY <2>1, <2>2, NothingMoved, Replied, Still DEF IInv
<1> QED
  BY <1>1, <1>2, <1>3, <1>4, <1>5, <1>6, <1>7 DEF Next

\* The rows, and what the requests in flight rely on, are as described in every reachable state.
THEOREM Invariance == Spec => []IInv
<1>1. Init => IInv
  BY InitIInv
<1>2. IInv /\ [Next]_vars => IInv'
  BY NextIInv
<1> QED
  BY <1>1, <1>2, PTL DEF Spec

\* Answers come with a grade, a grade with its seat and an exam whose grading started, clinics and
\* reports with a grade, whatever is submitted, completed, edited, withdrawn or deleted at once.
THEOREM RowsHangTogether == Spec => []AnswersComeWithGrade
<1>1. IInv => AnswersComeWithGrade
  BY DEF IInv
<1> QED
  BY <1>1, Invariance, PTL

\* The link of a report leads to a file that was stored before it.
THEOREM LinksLead == Spec => []ReportUrlHasFile
<1>1. IInv => ReportUrlHasFile
  BY DEF IInv
<1> QED
  BY <1>1, Invariance, PTL

\* Attendance is only recorded of a lecture that was in progress, and of seats that exist.
THEOREM AttendanceIsOfALecture == Spec => []AttendanceAfterOpening
<1>1. IInv => AttendanceAfterOpening
  BY DEF IInv
<1> QED
  BY <1>1, Invariance, PTL

\* Only a deletion deletes the exam.
LEMMA DeletedByDeletion ==
    ASSUME IInv, Next, exam'.status = "DELETED", exam.status # "DELETED" PROVE \E r \in Requests : DeleteExam(r)
<1>1. exam' # exam
  OBVIOUS
<1>2. "status" \in DOMAIN exam
  BY DEF IInv, RowsOK, ExamOK
<1>3. GradingNext
  BY <1>1 DEF Next, gradingVars, Withdraw, GradingForgets
<1>4. ~UpdateExam
  BY <1>2 DEF UpdateExam
<1>5. ASSUME NEW r \in Requests, CreateExam(r) PROVE FALSE
  BY <1>5 DEF CreateExam, NewExam, NoExam
<1>6. ASSUME NEW status \in {"IN_PROGRESS", "COMPLETED"}, exam' = [exam EXCEPT !.status = status] PROVE FALSE
  BY <1>2, <1>6, StatusSet
<1>7. ASSUME NEW r \in Requests, SaveGrading(r) PROVE FALSE
  BY <1>1, <1>6, <1>7 DEF SaveGrading
<1>8. ASSUME NEW r \in Requests, CompleteOnly(r) \/ SyncClinics(r) PROVE FALSE
  BY <1>1, <1>6, <1>8 DEF CompleteOnly, SyncClinics
<1>9. ASSUME NEW r \in Requests, SaveStatistics(r) PROVE FALSE
  BY <1>1, <1>2, <1>9 DEF SaveStatistics
<1>10. ASSUME NEW r \in Requests,
              UpdateClinics(r) \/ DescribeReport(r) \/ UploadFile(r) \/ SaveReportUrl(r)
       PROVE  FALSE
  BY <1>1, <1>10 DEF UpdateClinics, DescribeReport, UploadFile, SaveReportUrl
<1>11. ASSUME NEW r \in Requests,
              \/ BeginCreateExam(r) \/ BeginSubmit(r) \/ BeginComplete(r) \/ BeginDeleteExam(r) \/ BeginUpdateClinics(r)
              \/ BeginStatistics(r) \/ BeginDescribeReport(r) \/ BeginUploadReport(r)
       PROVE  FALSE
  BY <1>1, <1>11 DEF gradingVars, BeginCreateExam, BeginSubmit, BeginComplete, BeginDeleteExam,
     BeginUpdateClinics, BeginStatistics, BeginDescribeReport, BeginUploadReport
<1>12. ASSUME NEW r \in Requests,
              \/ GradeAnswers(r) \/ RecheckExam(r) \/ ReadFailedGrades(r) \/ ReadClinics(r)
              \/ CountGrades(r) \/ CountAnswers(r) \/ RankGrades(r)
       PROVE  FALSE
  BY <1>1, <1>12 DEF gradingVars, GradeAnswers, RecheckExam, ReadFailedGrades, ReadClinics, CountGrades, CountAnswers, RankGrades
<1> QED
  BY <1>3, <1>4, <1>5, <1>7, <1>8, <1>9, <1>10, <1>11, <1>12 DEF GradingNext

KeepsGradedExam ==
    Graded # {} /\ exam'.status = "DELETED" =>
        \E r \in Requests : At(r, "deleteExam", "delete") /\ req[r].overtaken

LEMMA KeepsGradedExamStep == ASSUME IInv, [Next]_vars PROVE [KeepsGradedExam]_<<exam, grade, req>>
<1> SUFFICES ASSUME Graded # {}, exam'.status = "DELETED", ~UNCHANGED <<exam, grade, req>>
             PROVE  \E r \in Requests : At(r, "deleteExam", "delete") /\ req[r].overtaken
  BY DEF KeepsGradedExam
<1>1. exam.status # "DELETED"
  BY DEF IInv, AnswersComeWithGrade
<1>2. Next
  BY DEF vars, serverVars, gradingVars
<1>3. PICK r \in Requests : DeleteExam(r)
  BY <1>1, <1>2, DeletedByDeletion
<1>4. At(r, "deleteExam", "delete") /\ DeleteOK(req[r])
  BY <1>3 DEF DeleteExam, At, IInv, RequestsOK, RequestOK
<1>5. req[r].overtaken
  BY <1>4 DEF DeleteOK
<1> QED
  BY <1>4, <1>5

\* An exam with grades is only deleted by a request that grading overtook after it looked.
THEOREM NotDeletedKnowingly == Spec => GradedExamKept
<1>1. IInv /\ [Next]_vars => [KeepsGradedExam]_<<exam, grade, req>>
  BY KeepsGradedExamStep
<1>2. Spec => [][KeepsGradedExam]_<<exam, grade, req>>
  BY <1>1, Invariance, PTL DEF Spec
<1> QED
  BY <1>2 DEF GradedExamKept, KeepsGradedExam
-----------------------------------------------------------------------------
(***************************************************************************)
(* Clinics.  A completion that no grade was saved behind has read, up to   *)
(* seats that are gone, the failing grades there are; and whatever other   *)
(* completions did to the clinics in between, what it is about to create   *)
(* and to drop still turns them into exactly those who failed.             *)
(***************************************************************************)
CompletionOK(q) ==
    /\ q.step \in {"clinics", "commit"} => "overtaken" \in DOMAIN q /\ (q.overtaken = TRUE \/ q.overtaken = FALSE)
    /\ q.step = "clinics" /\ q.overtaken = FALSE => "failed" \in DOMAIN q /\ q.failed \cap Graded = Failed
    /\ q.step = "commit" /\ q.overtaken = FALSE =>
         /\ {"create", "drop"} \subseteq DOMAIN q
         /\ q.create \cap Graded \subseteq Failed /\ q.drop \cap Failed = {}
         /\ Failed \subseteq q.create \cup WithClinic
         /\ WithClinic \subseteq q.drop \cup Failed

ClinicInv ==
    /\ "clinics" \in current => WithClinic = Failed
    /\ \A r \in Requests : req[r].op = "completeGrading" => CompletionOK(req[r])

\* Seats go, with their grades and clinics; otherwise nobody passes, fails or has another clinic.
SeatsGo(X) == Graded' = Graded \ X /\ Failed' = Failed \ X /\ WithClinic' = WithClinic \ X
OnlySeatsGo == \E X : SeatsGo(X)

LEMMA CompletionKept ==
    ASSUME NEW q, CompletionOK(q), OnlySeatsGo PROVE CompletionOK(q)'
<1>1. PICK X : SeatsGo(X)
  BY DEF OnlySeatsGo
<1> QED
  BY <1>1 DEF CompletionOK, SeatsGo

\* What any step but those of the completion itself does to a request.
Aside(s) ==
    \/ req'[s] = req[s]
    \/ req'[s].op # "completeGrading"
    \/ \E ops : req'[s] = Overtake(ops, req[s])

LEMMA AsideKept ==
    ASSUME IInv, ClinicInv, NEW s \in Requests, Aside(s), OnlySeatsGo, req'[s].op = "completeGrading"
    PROVE  CompletionOK(req[s])'
<1>1. CASE req'[s] = req[s]
  <2>1. CompletionOK(req[s])
    BY <1>1 DEF ClinicInv
  <2>2. PICK q : q = req[s]
    OBVIOUS
  <2>3. CompletionOK(q)'
    BY <2>1, <2>2, CompletionKept
  <2> QED
    BY <1>1, <2>2, <2>3
<1>2. ASSUME NEW ops, req'[s] = Overtake(ops, req[s]), req'[s] # req[s] PROVE CompletionOK(req[s])'
  <2>1. PICK q : q = req[s]
    OBVIOUS
  <2>2. Overtake(ops, q) # q /\ req'[s] = Overtake(ops, q)
    BY <1>2, <2>1
  <2>3. req'[s] = [q EXCEPT !.overtaken = TRUE] /\ "overtaken" \in DOMAIN q
    BY <2>2 DEF Overtake
  <2>4. "overtaken" \in DOMAIN req'[s] /\ req'[s].overtaken = TRUE
    BY <2>3
  <2> QED
    BY <2>4 DEF CompletionOK
<1> QED
  BY <1>1, <1>2 DEF Aside

\* A step that sets no completion going and lets no new grade or clinic in.
LEMMA AsideStep ==
    ASSUME IInv, ClinicInv, \A s \in Requests : Aside(s), OnlySeatsGo,
           "clinics" \in current' => "clinics" \in current
    PROVE  ClinicInv'
<1>1. "clinics" \in current' => WithClinic' = Failed'
  BY DEF ClinicInv, OnlySeatsGo, SeatsGo
<1>2. \A s \in Requests : req'[s].op = "completeGrading" => CompletionOK(req[s])'
  BY AsideKept
<1> QED
  BY <1>1, <1>2 DEF ClinicInv

-----------------------------------------------------------------------------
\* The moves of the requests.
LEMMA MovesAside ==
    ASSUME IInv, NEW r \in Requests, NEW q, q.op # "completeGrading", Proceed(r, q)
    PROVE  \A s \in Requests : Aside(s)
  BY DEF Proceed, Aside, IInv, RequestsOK

LEMMA BeginsAside ==
    ASSUME IInv, NEW r \in Requests, NEW op, NEW q, q.op # "completeGrading", Begin(r, op, q)
    PROVE  \A s \in Requests : Aside(s)
  BY DEF Begin, Aside, IInv, RequestsOK

LEMMA ReplyAside == ASSUME IInv, NEW r \in Requests, Reply(r) PROVE \A s \in Requests : Aside(s)
  BY MovesAside DEF Reply, Idle

LEMMA OvertakingAside ==
    ASSUME IInv, NEW r \in Requests, NEW ops, ReplyOvertaking(r, ops) PROVE \A s \in Requests : Aside(s)
<1>1. Idle.op # "completeGrading"
  BY DEF Idle
<1> QED
  BY <1>1 DEF ReplyOvertaking, Aside, IInv, RequestsOK

LEMMA StillAside == ASSUME UNCHANGED req PROVE \A s \in Requests : Aside(s)
  BY DEF Aside

LEMMA NobodyGoes == ASSUME UNCHANGED <<grade, clinic>> PROVE OnlySeatsGo
<1>1. SeatsGo({})
  BY DEF SeatsGo, Graded, Failed, WithClinic
<1> QED
  BY <1>1 DEF OnlySeatsGo

-----------------------------------------------------------------------------
\* Steps that leave grades and clinics alone.
LEMMA LectureClinics ==
    ASSUME IInv, ClinicInv, UNCHANGED <<gradingVars, classworkVars>>,
           UpdateLecture \/ DeleteLecture \/ StartTimePasses \/ \E r \in Requests : BeginRemoval(r)
    PROVE  ClinicInv'
<1>1. OnlySeatsGo /\ current' = current
  BY NobodyGoes DEF gradingVars
<1>2. CASE UpdateLecture \/ DeleteLecture \/ StartTimePasses
  BY <1>1, <1>2, StillAside, AsideStep DEF UpdateLecture, DeleteLecture, StartTimePasses, Serve, serverVars
<1>3. ASSUME NEW r \in Requests, BeginRemoval(r) PROVE ClinicInv'
  BY <1>1, <1>3, BeginsAside, AsideStep DEF BeginRemoval
<1> QED
  BY <1>2, <1>3

LEMMA ShowClinics ==
    ASSUME IInv, ClinicInv, UNCHANGED gradingVars, NEW r \in Requests, BeginShow(r) \/ ReadLinks(r) \/ SaveLinks(r)
    PROVE  ClinicInv'
<1>1. OnlySeatsGo /\ current' = current
  BY NobodyGoes DEF gradingVars
<1>2. CASE BeginShow(r)
  BY <1>1, <1>2, BeginsAside, AsideStep DEF BeginShow
<1>3. CASE ReadLinks(r)
  BY <1>1, <1>3, MovesAside, AsideStep DEF ReadLinks
<1>4. CASE Reply(r)
  BY <1>1, <1>4, ReplyAside, AsideStep
<1>5. CASE OvertakeLinks(r)
  <2>1. ASSUME NEW s \in Requests PROVE Aside(s)
    <3>1. CASE s = r
      BY <1>5, <3>1 DEF OvertakeLinks, Idle, Aside
    <3>2. CASE s # r /\ ~At(s, "showAssignments", "save")
      BY <1>5, <3>2 DEF OvertakeLinks, Aside
    <3>3. CASE s # r /\ At(s, "showAssignments", "save")
      <4>1. req'[s] = [req[s] EXCEPT !.drop = @ \ req[r].drop, !.overtaken = TRUE]
        BY <1>5, <3>3 DEF OvertakeLinks
      <4>2. req'[s].op = "showAssignments"
        BY <3>3, <4>1 DEF At, IInv, RequestsOK, RequestOK
      <4> QED
        BY <4>2 DEF Aside
    <3> QED
      BY <3>1, <3>2, <3>3
  <2> QED
    BY <1>1, <2>1, AsideStep
<1> QED
  BY <1>2, <1>3, <1>4, <1>5 DEF SaveLinks

LEMMA ClassworkClinics ==
    ASSUME IInv, ClinicInv, UNCHANGED gradingVars, ClassworkNext PROVE ClinicInv'
<1>1. OnlySeatsGo /\ current' = current
  BY NobodyGoes DEF gradingVars
<1> USE <1>1, AsideStep
<1>2. CASE DeleteCategory \/ DeleteAssignment
  BY <1>2, StillAside DEF DeleteCategory, DeleteAssignment, Serve
<1>3. ASSUME NEW r \in Requests, Reply(r) PROVE ClinicInv'
  BY <1>3, ReplyAside
<1>4. ASSUME NEW r \in Requests, BeginCreateCategory(r) \/ BeginUpdateCategory(r) \/ BeginCreateAssignment(r) PROVE ClinicInv'
  BY <1>4, BeginsAside DEF BeginCreateCategory, BeginUpdateCategory, BeginCreateAssignment
<1>5. ASSUME NEW r \in Requests, BeginUpdateAssignment(r) \/ BeginCreateResult(r) \/ BeginUpdateResult(r) PROVE ClinicInv'
  BY <1>5, BeginsAside DEF BeginUpdateAssignment, BeginCreateResult, BeginUpdateResult
<1>6. ASSUME NEW r \in Requests, BeginDeleteResult(r) \/ BeginBulk(r) PROVE ClinicInv'
  BY <1>6, BeginsAside DEF BeginDeleteResult, BeginBulk
<1>7. ASSUME NEW r \in Requests, BeginAttendance(r) \/ BeginBulkAttendance(r) \/ BeginDeleteAttendance(r) PROVE ClinicInv'
  BY <1>7, BeginsAside DEF BeginAttendance, BeginBulkAttendance, BeginDeleteAttendance
<1>8. ASSUME NEW r \in Requests, BulkItem(r) PROVE ClinicInv'
  <2>1. Reply(r) \/ Proceed(r, AfterItem(req[r]))
    BY <1>8 DEF BulkItem
  <2>2. AfterItem(req[r]).op # "completeGrading"
    BY <1>8 DEF BulkItem, AfterItem, IInv, RequestsOK, RequestOK
  <2> QED
    BY <1>3, <2>1, <2>2, MovesAside
<1>9. ASSUME NEW r \in Requests, CheckAttendance(r) PROVE ClinicInv'
  <2>1. Reply(r) \/ Proceed(r, [req[r] EXCEPT !.step = "write"])
    BY <1>9 DEF CheckAttendance
  <2>2. [req[r] EXCEPT !.step = "write"].op # "completeGrading"
    BY <1>9 DEF CheckAttendance, IInv, RequestsOK, RequestOK
  <2> QED
    BY <1>3, <2>1, <2>2, MovesAside
<1>10. ASSUME NEW r \in Requests,
              \/ CreateCategory(r) \/ UpdateCategory(r) \/ CreateAssignment(r) \/ UpdateAssignment(r) \/ CreateResult(r)
              \/ ChangeResult(r) \/ EndBulk(r) \/ WriteAttendance(r) \/ EraseAttendance(r)
      PROVE  ClinicInv'
  BY <1>3, <1>10 DEF CreateCategory, UpdateCategory, CreateAssignment, UpdateAssignment, CreateResult, ChangeResult, EndBulk,
     WriteAttendance, EraseAttendance
<1> QED
  BY <1>2, <1>4, <1>5, <1>6, <1>7, <1>8, <1>9, <1>10 DEF ClassworkNext

\* Handlers of the exam that begin or read, or write other rows.
LEMMA OtherHandlersClinics ==
    ASSUME IInv, ClinicInv, NEW r \in Requests,
           \/ BeginCreateExam(r) \/ BeginSubmit(r) \/ BeginDeleteExam(r) \/ BeginUpdateClinics(r)
           \/ BeginStatistics(r) \/ BeginDescribeReport(r) \/ BeginUploadReport(r)
           \/ GradeAnswers(r) \/ RecheckExam(r) \/ CountGrades(r) \/ CountAnswers(r) \/ RankGrades(r)
           \/ CreateExam(r) \/ CompleteOnly(r) \/ DescribeReport(r) \/ UploadFile(r) \/ SaveReportUrl(r)
    PROVE  ClinicInv'
<1>1. UNCHANGED <<grade, clinic>> /\ ("clinics" \in current' => "clinics" \in current)
  BY DEF gradingVars, BeginCreateExam, BeginSubmit, BeginDeleteExam, BeginUpdateClinics, BeginStatistics,
     BeginDescribeReport, BeginUploadReport, GradeAnswers, RecheckExam, CountGrades, CountAnswers, RankGrades,
     CreateExam, CompleteOnly, DescribeReport, UploadFile, SaveReportUrl
<1>2. OnlySeatsGo
  BY <1>1, NobodyGoes
<1> USE <1>1, <1>2, AsideStep
<1>3. CASE BeginCreateExam(r) \/ BeginSubmit(r) \/ BeginDeleteExam(r) \/ BeginUpdateClinics(r)
  BY <1>3, BeginsAside DEF BeginCreateExam, BeginSubmit, BeginDeleteExam, BeginUpdateClinics
<1>4. CASE BeginStatistics(r) \/ BeginDescribeReport(r) \/ BeginUploadReport(r)
  BY <1>4, BeginsAside DEF BeginStatistics, BeginDescribeReport, BeginUploadReport
<1>5. CASE Reply(r)
  BY <1>5, ReplyAside
<1>6. CASE CountGrades(r) \/ RankGrades(r)
  BY <1>6, MovesAside DEF CountGrades, RankGrades
<1>7. {"op", "step"} \subseteq DOMAIN req[r]
  BY DEF IInv, RequestsOK, RequestOK
<1>8. CASE GradeAnswers(r)
  BY <1>5, <1>8, MovesAside DEF GradeAnswers
<1>9. CASE RecheckExam(r)
  <2>1. \/ Reply(r)
        \/ Proceed(r, [req[r] EXCEPT !.step = "commit"])
        \/ Proceed(r, [req[r] EXCEPT !.step = "commit", !.reopens = TRUE])
    BY <1>9 DEF RecheckExam
  <2>2. [req[r] EXCEPT !.step = "commit"].op # "completeGrading"
        /\ [req[r] EXCEPT !.step = "commit", !.reopens = TRUE].op # "completeGrading"
    BY <1>7, <1>9 DEF RecheckExam, At
  <2> QED
    BY <1>5, <2>1, <2>2, MovesAside
<1>10. CASE CountAnswers(r)
  <2>1. PICK todo, rows : Proceed(r, [req[r] EXCEPT !.todo = todo, !.rows = rows])
    BY <1>10 DEF CountAnswers
  <2>2. [req[r] EXCEPT !.todo = todo, !.rows = rows].op # "completeGrading"
    BY <1>7, <1>10 DEF CountAnswers, At
  <2> QED
    BY <2>1, <2>2, MovesAside
<1>11. CASE UploadFile(r)
  <2>1. [req[r] EXCEPT !.step = "save"].op # "completeGrading"
    BY <1>7, <1>11 DEF UploadFile, At
  <2> QED
    BY <1>11, <2>1, MovesAside DEF UploadFile
<1> QED
  BY <1>3, <1>4, <1>5, <1>6, <1>8, <1>9, <1>10, <1>11 DEF CreateExam, CompleteOnly, DescribeReport, SaveReportUrl

-----------------------------------------------------------------------------
\* Steps that write clinics or grades.
LEMMA UpdateExamClinics == ASSUME IInv, ClinicInv, UpdateExam PROVE ClinicInv'
<1>1. UNCHANGED <<req, grade, clinic, current>>
  BY DEF UpdateExam, Serve
<1> QED
  BY <1>1, NobodyGoes, StillAside, AsideStep

LEMMA DeleteExamClinics == ASSUME IInv, ClinicInv, NEW r \in Requests, DeleteExam(r) PROVE ClinicInv'
<1>1. Reply(r) /\ ("clinics" \in current' => "clinics" \in current)
  BY DEF DeleteExam
<1>2. OnlySeatsGo
  <2>1. CASE UNCHANGED <<grade, clinic>>
    BY <2>1, NobodyGoes
  <2>2. CASE /\ grade' = [s \in Students |-> NoGrade]
             /\ clinic' = [s \in Students |-> [clinic[s] EXCEPT !.status = "NONE"]]
    <3>1. SeatsGo(Students)
      BY <2>2, ClinicOff DEF SeatsGo, Graded, Failed, WithClinic, IInv, RowsOK
    <3> QED
      BY <3>1 DEF OnlySeatsGo
  <2> QED
    BY <2>1, <2>2 DEF DeleteExam
<1> QED
  BY <1>1, <1>2, ReplyAside, AsideStep

LEMMA UpdateClinicsClinics == ASSUME IInv, ClinicInv, NEW r \in Requests, UpdateClinics(r) PROVE ClinicInv'
<1> DEFINE ids == req[r].ids
           left == {s \in DOMAIN ids \cap WithClinic : clinic[s].id = ids[s]}
<1>1. Reply(r) /\ UNCHANGED <<grade, current>>
  BY DEF UpdateClinics
<1>2. PICK status \in {"PENDING", "SENT", "COMPLETED"} :
        clinic' = [s \in Students |-> IF s \in left THEN [clinic[s] EXCEPT !.status = status] ELSE clinic[s]]
  BY DEF UpdateClinics
<1>3. left \subseteq WithClinic
  OBVIOUS
<1> HIDE DEF left
<1>4. \A s \in Students : (clinic'[s].status # "NONE") <=> (clinic[s].status # "NONE")
  <2>1. \A s \in Students : clinic[s] \in ClinicRow
    BY DEF IInv, RowsOK
  <2> QED
    BY <1>2, <1>3, <2>1 DEF ClinicRow, WithClinic
<1>5. SeatsGo({})
  BY <1>1, <1>4 DEF SeatsGo, Graded, Failed, WithClinic
<1> QED
  BY <1>1, <1>5, ReplyAside, AsideStep DEF OnlySeatsGo

\* The ranks that statistics write make nobody pass or fail.
LEMMA SaveStatisticsClinics == ASSUME IInv, ClinicInv, NEW r \in Requests, SaveStatistics(r) PROVE ClinicInv'
<1> DEFINE ranks == req[r].ranks
<1>1. Reply(r) /\ UNCHANGED clinic /\ ("clinics" \in current' => "clinics" \in current)
  BY DEF SaveStatistics
<1>2. \A s \in Students :
        grade'[s] = grade[s] \/ (s \in Graded /\ grade'[s] = [grade[s] EXCEPT !.rank = ranks[s]])
  <2>1. CASE UNCHANGED grade
    BY <2>1
  <2>2. CASE /\ DOMAIN ranks \subseteq Graded
             /\ grade' = [s \in Students |->
                           IF s \in DOMAIN ranks THEN [grade[s] EXCEPT !.rank = ranks[s]] ELSE grade[s]]
    BY <2>2
  <2> QED
    BY <2>1, <2>2 DEF SaveStatistics
<1> HIDE DEF ranks
<1>3. ASSUME NEW s \in Students
      PROVE  (grade'[s] # NoGrade <=> grade[s] # NoGrade) /\ (grade[s] # NoGrade => grade'[s].isPass = grade[s].isPass)
  <2>1. CASE grade'[s] = grade[s]
    BY <2>1
  <2>2. CASE s \in Graded /\ grade'[s] = [grade[s] EXCEPT !.rank = ranks[s]]
    <3>1. "isPass" \in DOMAIN grade[s] /\ grade[s] # NoGrade
      BY <2>2 DEF Graded, IInv, RowsOK, GradeOK
    <3>2. [grade[s] EXCEPT !.rank = ranks[s]].isPass = grade[s].isPass
      BY <3>1
    <3> QED
      BY <2>2, <3>1, <3>2, RankedGrade
  <2> QED
    BY <1>2, <2>1, <2>2
<1>4. SeatsGo({})
  BY <1>1, <1>3 DEF SeatsGo, Graded, Failed, WithClinic
<1> QED
  BY <1>1, <1>4, ReplyAside, AsideStep DEF OnlySeatsGo

LEMMA WithdrawClinics == ASSUME IInv, ClinicInv, NEW r \in Requests, Withdraw(r) PROVE ClinicInv'
<1> DEFINE seat == req[r].seat
<1>1. /\ grade' = [grade EXCEPT ![seat] = NoGrade]
      /\ clinic' = [clinic EXCEPT ![seat].status = "NONE"]
      /\ "clinics" \in current' => "clinics" \in current
  BY DEF Withdraw, GradingForgets
<1>2. \E ops : ReplyOvertaking(r, ops)
  BY DEF Withdraw, RemovalOvertakes
<1> HIDE DEF seat
<1>3. /\ \A s \in Students : IF s = seat THEN grade'[s] = NoGrade ELSE grade'[s] = grade[s]
      /\ \A s \in Students : IF s = seat THEN clinic'[s].status = "NONE" ELSE clinic'[s] = clinic[s]
  BY <1>1, ClinicOff DEF IInv, RowsOK, GradeOK
<1>4. SeatsGo({seat})
  BY <1>3 DEF SeatsGo, Graded, Failed, WithClinic
<1> QED
  BY <1>1, <1>2, <1>4, OvertakingAside, AsideStep DEF OnlySeatsGo

\* Every completion that is past its reading of the grades is overtaken.
LEMMA AllOvertaken ==
    ASSUME IInv, ClinicInv, NEW r \in Requests, NEW ops, "completeGrading" \in ops, ReplyOvertaking(r, ops),
           "clinics" \notin current'
    PROVE  ClinicInv'
<1>1. ASSUME NEW s \in Requests, req'[s].op = "completeGrading" PROVE CompletionOK(req[s])'
  <2>1. s # r /\ req'[s] = Overtake(ops, req[s])
    BY <1>1 DEF ReplyOvertaking, Idle
  <2>2. {"op", "step"} \subseteq DOMAIN req[s]
    BY DEF IInv, RequestsOK, RequestOK
  <2>3. CASE req'[s] # req[s]
    <3>1. req'[s] = [req[s] EXCEPT !.overtaken = TRUE] /\ "overtaken" \in DOMAIN req[s]
      BY <2>1, <2>3 DEF Overtake
    <3>2. req'[s].overtaken = TRUE /\ "overtaken" \in DOMAIN req'[s]
      BY <3>1
    <3> QED
      BY <3>2 DEF CompletionOK
  <2>4. CASE req'[s] = req[s] /\ "overtaken" \notin DOMAIN req[s]
    <3>1. req'[s].step \notin {"clinics", "commit"}
      BY <1>1, <2>4 DEF ClinicInv, CompletionOK
    <3> QED
      BY <3>1 DEF CompletionOK
  <2>5. CASE req'[s] = req[s] /\ "overtaken" \in DOMAIN req[s]
    <3>1. req'[s] = [req[s] EXCEPT !.overtaken = TRUE]
      BY <1>1, <2>1, <2>5 DEF Overtake
    <3>2. req'[s].overtaken = TRUE /\ "overtaken" \in DOMAIN req'[s]
      BY <2>5, <3>1
    <3> QED
      BY <3>2 DEF CompletionOK
  <2> QED
    BY <2>3, <2>4, <2>5
<1> QED
  BY <1>1 DEF ClinicInv

LEMMA SaveGradingClinics == ASSUME IInv, ClinicInv, NEW r \in Requests, SaveGrading(r) PROVE ClinicInv'
<1>1. UNCHANGED clinic
  BY DEF SaveGrading
<1>2. CASE Reply(r) /\ UNCHANGED <<grade, current>>
  BY <1>1, <1>2, NobodyGoes, ReplyAside, AsideStep
<1>3. CASE current' = {} /\ ReplyOvertaking(r, {"completeGrading", "statistics", "deleteExam"})
  BY <1>3, AllOvertaken
<1> QED
  BY <1>2, <1>3 DEF SaveGrading

-----------------------------------------------------------------------------
\* The steps of the completion.
LEMMA OthersAside ==
    ASSUME IInv, ClinicInv, OnlySeatsGo, NEW r \in Requests, NEW q, Proceed(r, q), CompletionOK(q)', UNCHANGED current
    PROVE  ClinicInv'
<1>1. req' = [req EXCEPT ![r] = q] /\ req'[r] = q
  BY DEF Proceed, IInv, RequestsOK
<1>2. \A s \in Requests \ {r} : Aside(s)
  BY <1>1 DEF Aside, IInv, RequestsOK
<1>3. \A s \in Requests \ {r} : req'[s].op = "completeGrading" => CompletionOK(req[s])'
  BY <1>2, AsideKept
<1>4. CompletionOK(req[r])'
  BY <1>1 DEF CompletionOK
<1>5. "clinics" \in current' => WithClinic' = Failed'
  BY DEF ClinicInv, OnlySeatsGo, SeatsGo
<1> QED
  BY <1>3, <1>4, <1>5 DEF ClinicInv

LEMMA BeginCompleteClinics == ASSUME IInv, ClinicInv, NEW r \in Requests, BeginComplete(r) PROVE ClinicInv'
<1> DEFINE q == [op |-> "completeGrading", step |-> IF exam.isAutoClinic THEN "grades" ELSE "status",
                 closes |-> exam.status # "COMPLETED"]
<1>1. Begin(r, "completeGrading", q) /\ UNCHANGED <<grade, clinic, current>>
  BY DEF BeginComplete, gradingVars
<1>2. q.step \notin {"clinics", "commit"}
  OBVIOUS
<1> HIDE DEF q
<1>3. req'[r] = q /\ \A s \in Requests \ {r} : Aside(s)
  BY <1>1 DEF Begin, Aside, IInv, RequestsOK
<1>4. \A s \in Requests \ {r} : req'[s].op = "completeGrading" => CompletionOK(req[s])'
  BY <1>1, <1>3, NobodyGoes, AsideKept
<1>5. CompletionOK(req[r])'
  BY <1>2, <1>3 DEF CompletionOK
<1>6. "clinics" \in current' => WithClinic' = Failed'
  BY <1>1, NobodyGoes DEF ClinicInv, OnlySeatsGo, SeatsGo
<1> QED
  BY <1>4, <1>5, <1>6 DEF ClinicInv

LEMMA ReadFailedClinics == ASSUME IInv, ClinicInv, NEW r \in Requests, ReadFailedGrades(r) PROVE ClinicInv'
<1> DEFINE q == [op |-> "completeGrading", step |-> "clinics", closes |-> req[r].closes, failed |-> Failed,
                 overtaken |-> FALSE]
<1>1. Proceed(r, q) /\ UNCHANGED <<grade, clinic, current>>
  BY DEF ReadFailedGrades, gradingVars
<1>2. q.step = "clinics" /\ q.overtaken = FALSE /\ {"overtaken", "failed"} \subseteq DOMAIN q /\ q.failed = Failed
  OBVIOUS
<1>3. Failed' = Failed /\ Graded' = Graded /\ Failed \subseteq Graded
  BY <1>1 DEF Failed, Graded
<1> HIDE DEF q
<1>4. PICK p : p = q
  OBVIOUS
<1>5. CompletionOK(p)'
  BY <1>2, <1>3, <1>4 DEF CompletionOK
<1> QED
  BY <1>1, <1>4, <1>5, NobodyGoes, OthersAside

LEMMA ReadClinicsClinics == ASSUME IInv, ClinicInv, NEW r \in Requests, ReadClinics(r) PROVE ClinicInv'
<1> DEFINE create == req[r].failed \ WithClinic
           drop == WithClinic \ req[r].failed
           q == [op |-> "completeGrading", step |-> "commit", closes |-> req[r].closes,
                 create |-> create, drop |-> drop, overtaken |-> req[r].overtaken]
<1>1. UNCHANGED <<grade, clinic, current>> /\ (Reply(r) \/ Proceed(r, q))
  BY DEF ReadClinics, gradingVars
<1>2. CASE Reply(r)
  BY <1>1, <1>2, NobodyGoes, ReplyAside, AsideStep
<1>3. CASE Proceed(r, q)
  <2>1. q.step = "commit" /\ q.overtaken = req[r].overtaken /\ {"overtaken", "create", "drop"} \subseteq DOMAIN q
        /\ q.create = create /\ q.drop = drop
    OBVIOUS
  <2>2. req[r].step = "clinics" /\ CompletionOK(req[r])
    BY DEF ReadClinics, At, ClinicInv
  <2>3. Failed' = Failed /\ Graded' = Graded /\ WithClinic' = WithClinic /\ WithClinic \subseteq Graded /\ Failed \subseteq Graded
    BY <1>1 DEF Failed, Graded, WithClinic, IInv, AnswersComeWithGrade
  <2>4. req[r].overtaken = FALSE =>
          /\ create \cap Graded \subseteq Failed /\ drop \cap Failed = {}
          /\ Failed \subseteq create \cup WithClinic
          /\ WithClinic \subseteq drop \cup Failed
    BY <2>2, <2>3 DEF CompletionOK
  <2>5. req[r].overtaken = TRUE \/ req[r].overtaken = FALSE
    BY <2>2 DEF CompletionOK
  <2> HIDE DEF q
  <2>6. PICK p : p = q
    OBVIOUS
  <2>7. p.step = "commit" /\ (p.overtaken = TRUE \/ p.overtaken = FALSE) /\ {"overtaken", "create", "drop"} \subseteq DOMAIN p
    BY <2>1, <2>5, <2>6
  <2>8. p.overtaken = FALSE =>
          /\ p.create \cap Graded \subseteq Failed /\ p.drop \cap Failed = {}
          /\ Failed \subseteq p.create \cup WithClinic
          /\ WithClinic \subseteq p.drop \cup Failed
    BY <2>1, <2>4, <2>6
  <2>9. CompletionOK(p)'
    BY <2>3, <2>7, <2>8 DEF CompletionOK
  <2> QED
    BY <1>1, <1>3, <2>6, <2>9, NobodyGoes, OthersAside
<1> QED
  BY <1>1, <1>2, <1>3

\* Once the clinics are those of the failed, what another completion has read leads there as well.
LEMMA CompletionAfterSync ==
    ASSUME NEW q, CompletionOK(q), Graded' = Graded, Failed' = Failed, WithClinic' = Failed PROVE CompletionOK(q)'
  BY DEF CompletionOK

LEMMA SyncClinicsClinics == ASSUME IInv, ClinicInv, NEW r \in Requests, SyncClinics(r) PROVE ClinicInv'
<1> DEFINE c == req[r]
<1>1. UNCHANGED grade /\ c.step = "commit" /\ CompletionOK(c)
  BY DEF SyncClinics, At, ClinicInv
<1>2. CASE Reply(r) /\ UNCHANGED <<clinic, current>>
  BY <1>1, <1>2, NobodyGoes, ReplyAside, AsideStep
<1>3. CASE /\ c.create \subseteq enrolled /\ (ExamExists \/ (c.create = {} /\ ~c.closes))
           /\ clinic' = SyncedClinics(c)
           /\ current' = IF c.overtaken THEN current \ {"clinics"} ELSE current \cup {"clinics"}
           /\ IF c.overtaken THEN ReplyOvertaking(r, {"completeGrading"}) ELSE Reply(r)
  <2>1. CASE c.overtaken = TRUE
    BY <1>3, <2>1, AllOvertaken
  <2>2. CASE c.overtaken = FALSE
    <3>1. \A s \in c.create : GradedOrGone(s)
      BY DEF SyncClinics, At, IInv, RequestsOK, RequestOK, CompleteOK
    <3>2. c.create \subseteq Graded
      BY <1>3, <3>1 DEF GradedOrGone, ExamExists
    <3>3. /\ c.create \subseteq Failed /\ c.drop \cap Failed = {}
          /\ Failed \subseteq c.create \cup WithClinic
          /\ WithClinic \subseteq c.drop \cup Failed
      BY <1>1, <2>2, <3>2 DEF CompletionOK
    <3>4. ASSUME NEW s \in Students PROVE clinic'[s].status # "NONE" <=> s \in Failed
      <4>1. clinic[s] \in ClinicRow
        BY DEF IInv, RowsOK
      <4>2. CASE s \in c.drop
        <5>1. clinic'[s] = [clinic[s] EXCEPT !.status = "NONE"]
          BY <1>3, <4>2 DEF SyncedClinics
        <5> QED
          BY <3>3, <4>1, <4>2, <5>1, ClinicOff
      <4>3. CASE s \notin c.drop /\ s \in c.create \ WithClinic
        <5>1. clinic'[s] = [status |-> "PENDING", id |-> clinic[s].id + 1]
          BY <1>3, <4>3 DEF SyncedClinics
        <5> QED
          BY <3>3, <4>3, <5>1
      <4>4. CASE s \notin c.drop /\ s \notin c.create \ WithClinic
        <5>1. clinic'[s] = clinic[s]
          BY <1>3, <4>4 DEF SyncedClinics
        <5> QED
          BY <3>3, <4>4, <5>1 DEF WithClinic
      <4> QED
        BY <4>2, <4>3, <4>4
    <3>5. Graded' = Graded /\ Failed' = Failed /\ Failed \subseteq Students
      BY <1>1 DEF Graded, Failed
    <3>6. WithClinic' = Failed
      BY <3>4, <3>5 DEF WithClinic
    <3>7. Reply(r)
      BY <1>3, <2>2
    <3>8. ASSUME NEW s \in Requests, req'[s].op = "completeGrading" PROVE CompletionOK(req[s])'
      <4>1. s # r /\ req'[s] = req[s]
        BY <3>7, <3>8 DEF Reply, Proceed, Idle, IInv, RequestsOK
      <4>2. CompletionOK(req[s])
        BY <3>8, <4>1 DEF ClinicInv
      <4> QED
        BY <3>5, <3>6, <4>1, <4>2, CompletionAfterSync DEF CompletionOK
    <3> QED
      BY <3>5, <3>6, <3>8 DEF ClinicInv
  <2> QED
    BY <1>1, <2>1, <2>2 DEF CompletionOK
<1> QED
  BY <1>2, <1>3 DEF SyncClinics

LEMMA GradingClinics == ASSUME IInv, ClinicInv, GradingNext PROVE ClinicInv'
<1>1. CASE UpdateExam
  BY <1>1, UpdateExamClinics
<1>2. ASSUME NEW r \in Requests,
             DeleteExam(r) \/ SaveGrading(r) \/ UpdateClinics(r) \/ SaveStatistics(r)
      PROVE  ClinicInv'
  BY <1>2, DeleteExamClinics, SaveGradingClinics, UpdateClinicsClinics, SaveStatisticsClinics
<1>3. ASSUME NEW r \in Requests, BeginComplete(r) \/ ReadFailedGrades(r) \/ ReadClinics(r) \/ SyncClinics(r)
      PROVE  ClinicInv'
  BY <1>3, BeginCompleteClinics, ReadFailedClinics, ReadClinicsClinics, SyncClinicsClinics
<1>4. ASSUME NEW r \in Requests,
             \/ BeginCreateExam(r) \/ BeginSubmit(r) \/ BeginDeleteExam(r) \/ BeginUpdateClinics(r)
             \/ BeginStatistics(r) \/ BeginDescribeReport(r) \/ BeginUploadReport(r)
             \/ GradeAnswers(r) \/ RecheckExam(r) \/ CountGrades(r) \/ CountAnswers(r) \/ RankGrades(r)
             \/ CreateExam(r) \/ CompleteOnly(r) \/ DescribeReport(r) \/ UploadFile(r) \/ SaveReportUrl(r)
      PROVE  ClinicInv'
  BY <1>4, OtherHandlersClinics
<1> QED
  BY <1>1, <1>2, <1>3, <1>4 DEF GradingNext

LEMMA NextClinics == ASSUME IInv, ClinicInv, [Next]_vars PROVE ClinicInv'
<1>1. CASE UNCHANGED vars
  BY <1>1, NobodyGoes, StillAside, AsideStep DEF vars, serverVars, gradingVars
<1>2. CASE (UpdateLecture \/ DeleteLecture \/ StartTimePasses \/ \E r \in Requests : BeginRemoval(r))
           /\ UNCHANGED <<gradingVars, classworkVars, shown>>
  BY <1>2, LectureClinics
<1>3. CASE GradingNext
  BY <1>3, GradingClinics
<1>4. CASE ClassworkNext /\ UNCHANGED <<lectureVars, gradingVars>>
  BY <1>4, ClassworkClinics
<1>5. CASE (\E r \in Requests : BeginShow(r) \/ ReadLinks(r) \/ SaveLinks(r))
           /\ UNCHANGED <<lectureVars, gradingVars, classworkVars>>
  BY <1>5, ShowClinics
<1>6. CASE \E r \in Requests : Withdraw(r)
  BY <1>6, WithdrawClinics
<1>7. CASE \E r \in Requests : Abort(r) /\ UNCHANGED <<lectureVars, gradingVars, classworkVars, shown>>
  BY <1>7, NobodyGoes, ReplyAside, AsideStep DEF Abort, gradingVars
<1> QED
  BY <1>1, <1>2, <1>3, <1>4, <1>5, <1>6, <1>7 DEF Next

LEMMA InitClinics == Init => ClinicInv
<1> SUFFICES ASSUME Init PROVE ClinicInv
  OBVIOUS
<1>1. req = [r \in Requests |-> Idle] /\ current = {}
  BY DEF Init, ServerInit, GradingInit
<1> QED
  BY <1>1 DEF ClinicInv, Idle

\* The students with a clinic are exactly those who failed, whenever the completion that made them
\* saw every grade: two completions at once, withdrawn seats, edits of the exam, clinics that are
\* updated meanwhile and requests that are cut off do no harm.
THEOREM ClinicsAreOfTheFailed == Spec => []ClinicsFollowGrades
<1>1. IInv /\ ClinicInv /\ [Next]_vars => ClinicInv'
  BY NextClinics
<1>2. Spec => []ClinicInv
  BY <1>1, InitClinics, Invariance, PTL DEF Spec
<1>3. ClinicInv => ClinicsFollowGrades
  BY DEF ClinicInv, ClinicsFollowGrades
<1> QED
  BY <1>2, <1>3, PTL
-----------------------------------------------------------------------------
(***************************************************************************)
(* Results.  An index was checked against the presets its request read of  *)
(* the assignment.  Until the assignment is counted as reshaped or gone,   *)
(* these are its presets still (PresetsLast), in the cache of a bulk, too; *)
(* and what a strict bulk has checked cannot be deleted before its commit. *)
(***************************************************************************)
BulkOps == {"bulkResults", "strictBulkResults"}
Known(a) == assignment[a].state # "unused"
Fits(a, index) == AssignmentThere(a) /\ a \notin reshaped => index < Presets(a)

BulkCall(q) ==
    /\ {"op", "step", "items", "done", "cache"} \subseteq DOMAIN q
    /\ q.items \in Bulks /\ q.done \in 0 .. Len(q.items)
\* The presets that a bulk request remembers.
Remembered(q) == \A a \in Assignments \cap DOMAIN q.cache :
    /\ Known(a)
    /\ AssignmentThere(a) /\ a \notin reshaped => q.cache[a] = Presets(a)
\* What a strict bulk has done and not committed.
Checked(q) == \A i \in 1 .. q.done :
    /\ AssignmentThere(q.items[i].assignment) /\ q.items[i].seat \in enrolled
    /\ q.items[i].index # Erase => Fits(q.items[i].assignment, q.items[i].index)

PresetCallOK(q) ==
    /\ q.op \in {"createCategory", "updateCategory"} => q.name \in Names /\ q.presets \in PresetCounts
    /\ q.op \in {"updateCategory", "createAssignment", "updateAssignment"} => q.category \in Categories
    /\ q.op = "updateAssignment" => q.assignment \in Assignments
    /\ q.op \in {"createResult", "updateResult"} =>
         /\ q.assignment \in Assignments /\ q.seat \in Students /\ q.index \in Nat
         /\ Known(q.assignment) /\ Fits(q.assignment, q.index)
    /\ q.op \in BulkOps => BulkCall(q) /\ Remembered(q)
    /\ q.op = "strictBulkResults" => Checked(q)
PresetCalls == \A r \in Requests : PresetCallOK(req[r])

ResultTables ==
    /\ category \in [Categories -> CategoryRow \cup {NoCategory}]
    /\ assignment \in [Assignments -> AssignmentRow \cup {NoAssignment}]
    /\ result \in [Assignments -> [Students -> ResultRow]]
Placed == \A a \in Assignments : AssignmentThere(a) => CategoryThere(assignment[a].category)
PresetInv == ResultTables /\ Placed /\ ResultsAreOfPresets /\ PresetCalls

-----------------------------------------------------------------------------
\* What a step has to leave of an assignment: it is the same as long as it is there and not reshaped.
PresetsLast == \A a \in Assignments : Known(a) =>
    /\ Known(a)'
    /\ AssignmentThere(a)' /\ a \notin reshaped' => AssignmentThere(a) /\ a \notin reshaped /\ Presets(a)' = Presets(a)
\* What a transaction has checked stays where it is.
StillChecked(q) == \A i \in 1 .. q.done :
    /\ AssignmentThere(q.items[i].assignment) => AssignmentThere(q.items[i].assignment)'
    /\ q.items[i].seat \in enrolled => q.items[i].seat \in enrolled'

LEMMA FitsLast ==
    ASSUME PresetsLast, NEW a \in Assignments, NEW index, Known(a), Fits(a, index) PROVE Fits(a, index)'
  BY DEF PresetsLast, Fits

LEMMA ElementOf == ASSUME NEW S, NEW s \in Seq(S), NEW i \in 1 .. Len(s) PROVE s[i] \in S
  OBVIOUS

\* The items of a bulk request.
LEMMA Items ==
    ASSUME NEW q, BulkCall(q), NEW i \in 1 .. q.done
    PROVE  /\ q.items[i].assignment \in Assignments /\ q.items[i].seat \in Students
           /\ q.items[i].index \in Nat \cup {Erase} /\ q.done \in Nat
<1>1. q.items \in Seq([assignment: Assignments, seat: Students, index: Nat \cup {Erase}])
  BY ClassworkAssumption DEF BulkCall
<1>2. i \in 1 .. Len(q.items) /\ q.done \in Nat
  BY <1>1 DEF BulkCall
<1>3. q.items[i] \in [assignment: Assignments, seat: Students, index: Nat \cup {Erase}]
  BY <1>1, <1>2, ElementOf
<1> QED
  BY <1>2, <1>3

LEMMA CallLasts ==
    ASSUME PresetsLast, NEW q, PresetCallOK(q), q.op = "strictBulkResults" => StillChecked(q) PROVE PresetCallOK(q)'
<1>1. ASSUME q.op \in {"createResult", "updateResult"}
      PROVE  Known(q.assignment)' /\ Fits(q.assignment, q.index)'
  <2>1. q.assignment \in Assignments /\ Known(q.assignment) /\ Fits(q.assignment, q.index)
    BY <1>1 DEF PresetCallOK
  <2> QED
    BY <2>1, FitsLast DEF PresetsLast
<1>2. ASSUME q.op \in BulkOps PROVE BulkCall(q)' /\ Remembered(q)'
  <2>1. BulkCall(q) /\ Remembered(q)
    BY <1>2 DEF PresetCallOK
  <2>2. BulkCall(q)'
    BY <2>1 DEF BulkCall
  <2>3. Remembered(q)'
    BY <2>1 DEF Remembered, PresetsLast
  <2> QED
    BY <2>2, <2>3
<1>3. ASSUME q.op = "strictBulkResults" PROVE Checked(q)'
  <2>1. BulkCall(q) /\ Checked(q)
    BY <1>3 DEF PresetCallOK, BulkOps
  <2>2. ASSUME NEW i \in 1 .. q.done
        PROVE  /\ AssignmentThere(q.items[i].assignment)' /\ q.items[i].seat \in enrolled'
               /\ q.items[i].index # Erase => Fits(q.items[i].assignment, q.items[i].index)'
    <3>1. PICK a, s, index : a = q.items[i].assignment /\ s = q.items[i].seat /\ index = q.items[i].index
      OBVIOUS
    <3>2. a \in Assignments /\ AssignmentThere(a) /\ s \in enrolled /\ (index # Erase => Fits(a, index))
      BY <2>1, <3>1, Items DEF Checked
    <3>3. Known(a)
      BY <3>2 DEF Known, AssignmentThere
    <3>4. AssignmentThere(a)' /\ s \in enrolled'
      BY <1>3, <3>1, <3>2 DEF StillChecked
    <3>5. index # Erase => Fits(a, index)'
      BY <3>2, <3>3, FitsLast
    <3> QED
      BY <3>1, <3>4, <3>5
  <2> QED
    BY <2>2 DEF Checked
<1>4. /\ q.op \in {"createCategory", "updateCategory"} => q.name \in Names /\ q.presets \in PresetCounts
      /\ q.op \in {"updateCategory", "createAssignment", "updateAssignment"} => q.category \in Categories
      /\ q.op = "updateAssignment" => q.assignment \in Assignments
      /\ q.op \in {"createResult", "updateResult"} =>
           q.assignment \in Assignments /\ q.seat \in Students /\ q.index \in Nat
  BY DEF PresetCallOK
<1> QED
  BY <1>1, <1>2, <1>3, <1>4 DEF PresetCallOK

\* Requests that do other work, or none.
LEMMA OtherCall == ASSUME NEW q, q.op \notin ClassworkOps PROVE PresetCallOK(q)
  BY DEF PresetCallOK, ClassworkOps, BulkOps
LEMMA IdleCall == Idle.op \notin ClassworkOps
  BY DEF Idle, ClassworkOps

OffWork(s) == req'[s] = req[s] \/ req'[s].op \notin ClassworkOps

LEMMA CallsLast ==
    ASSUME PresetCalls, PresetsLast, \A s \in Requests : OffWork(s),
           \A s \in Requests : req[s].op = "strictBulkResults" => StillChecked(req[s])
    PROVE  PresetCalls'
<1>1. ASSUME NEW s \in Requests PROVE PresetCallOK(req[s])'
  <2>1. CASE req'[s] = req[s]
    <3>1. PICK q : q = req[s]
      OBVIOUS
    <3>2. PresetCallOK(q) /\ (q.op = "strictBulkResults" => StillChecked(q))
      BY <3>1 DEF PresetCalls
    <3>3. PresetCallOK(q)'
      BY <3>2, CallLasts
    <3> QED
      BY <2>1, <3>1, <3>3
  <2>2. CASE req'[s].op \notin ClassworkOps
    BY <2>2 DEF PresetCallOK, ClassworkOps, BulkOps
  <2> QED
    BY <2>1, <2>2 DEF OffWork
<1> QED
  BY <1>1 DEF PresetCalls

\* Steps that leave the classwork's rows alone.
RowsRest == UNCHANGED <<category, assignment, result, reshaped, enrolled>>

LEMMA RestLasts == ASSUME UNCHANGED <<category, assignment, reshaped>> PROVE PresetsLast
  BY DEF PresetsLast, Known, AssignmentThere, Presets

LEMMA RestChecked == ASSUME UNCHANGED <<assignment, enrolled>>, NEW q PROVE StillChecked(q)
  BY DEF StillChecked, AssignmentThere

LEMMA RowsRestKept ==
    ASSUME PresetInv, RowsRest PROVE ResultTables' /\ Placed' /\ ResultsAreOfPresets'
  BY DEF PresetInv, RowsRest, ResultTables, Placed, ResultsAreOfPresets, AssignmentThere, CategoryThere, Presets

LEMMA OffWorkStep ==
    ASSUME PresetInv, RowsRest, \A s \in Requests : OffWork(s) PROVE PresetInv'
<1>1. PresetCalls'
  BY RestLasts, RestChecked, CallsLast DEF PresetInv, RowsRest
<1> QED
  BY <1>1, RowsRestKept DEF PresetInv

\* A request on the classwork begins or goes on.
LEMMA WorkStep ==
    ASSUME IInv, PresetInv, RowsRest, NEW r \in Requests, NEW q, PresetCallOK(q), req' = [req EXCEPT ![r] = q]
    PROVE  PresetInv'
<1>1. ASSUME NEW s \in Requests PROVE PresetCallOK(req[s])'
  <2>1. PICK p : p = req'[s]
    OBVIOUS
  <2>2. p = q \/ p = req[s]
    BY <2>1 DEF IInv, RequestsOK
  <2>3. PresetCallOK(p)
    BY <2>2 DEF PresetInv, PresetCalls
  <2>4. PresetCallOK(p)'
    BY <2>3, RestLasts, RestChecked, CallLasts DEF RowsRest
  <2> QED
    BY <2>1, <2>4
<1> QED
  BY <1>1, RowsRestKept DEF PresetInv, PresetCalls

LEMMA WorkBegins ==
    ASSUME IInv, PresetInv, RowsRest, NEW r \in Requests, NEW op, NEW q, PresetCallOK(q), Begin(r, op, q) PROVE PresetInv'
  BY WorkStep DEF Begin

LEMMA ReplyOffWork == ASSUME IInv, NEW r \in Requests, Reply(r) PROVE \A s \in Requests : OffWork(s)
  BY IdleCall DEF Reply, Proceed, OffWork, IInv, RequestsOK

LEMMA MovesOffWork ==
    ASSUME IInv, NEW r \in Requests, NEW q, q.op \notin ClassworkOps, Proceed(r, q) PROVE \A s \in Requests : OffWork(s)
  BY DEF Proceed, OffWork, IInv, RequestsOK

LEMMA BeginsOffWork ==
    ASSUME IInv, NEW r \in Requests, NEW op, NEW q, q.op \notin ClassworkOps, Begin(r, op, q)
    PROVE  \A s \in Requests : OffWork(s)
  BY DEF Begin, OffWork, IInv, RequestsOK

LEMMA StillOffWork == ASSUME UNCHANGED req PROVE \A s \in Requests : OffWork(s)
  BY DEF OffWork

\* The handlers of the exam turn their requests to nothing but themselves.
ExamOps == {"none", "createExam", "deleteExam", "submitGrading", "completeGrading", "updateClinics", "statistics",
            "describeReport", "uploadReport"}
Turns(ops) == \A s \in Requests : req'[s] = req[s] \/ req'[s].op \in ops

LEMMA StillTurns == ASSUME UNCHANGED req, NEW ops PROVE Turns(ops)
  BY DEF Turns
LEMMA ReplyTurns == ASSUME IInv, NEW r \in Requests, Reply(r), NEW ops, "none" \in ops PROVE Turns(ops)
  BY DEF Reply, Proceed, Idle, Turns, IInv, RequestsOK
LEMMA MovesTurn == ASSUME IInv, NEW r \in Requests, NEW q, Proceed(r, q), NEW ops, q.op \in ops PROVE Turns(ops)
  BY DEF Proceed, Turns, IInv, RequestsOK
LEMMA BeginsTurn == ASSUME IInv, NEW r \in Requests, NEW op, NEW q, Begin(r, op, q), NEW ops, q.op \in ops PROVE Turns(ops)
  BY DEF Begin, Turns, IInv, RequestsOK
LEMMA OvertakingTurns ==
    ASSUME IInv, NEW r \in Requests, NEW some, ReplyOvertaking(r, some), NEW ops, some \subseteq ops, "none" \in ops
    PROVE  Turns(ops)
<1>1. ASSUME NEW s \in Requests PROVE req'[s] = req[s] \/ req'[s].op \in ops
  <2>1. {"op", "step"} \subseteq DOMAIN req[s]
    BY DEF IInv, RequestsOK, RequestOK
  <2>2. CASE s = r
    BY <2>2 DEF ReplyOvertaking, Idle
  <2>3. CASE s # r /\ req[s].op \in some /\ "overtaken" \in DOMAIN req[s]
    <3>1. req'[s] = [req[s] EXCEPT !.overtaken = TRUE]
      BY <2>3 DEF ReplyOvertaking, Overtake
    <3> QED
      BY <2>1, <2>3, <3>1
  <2>4. CASE s # r /\ ~(req[s].op \in some /\ "overtaken" \in DOMAIN req[s])
    BY <2>4 DEF ReplyOvertaking, Overtake
  <2> QED
    BY <2>2, <2>3, <2>4
<1> QED
  BY <1>1 DEF Turns

LEMMA GradingTurns == ASSUME IInv, GradingNext PROVE Turns(ExamOps)
<1>a. /\ {"none", "createExam", "deleteExam", "submitGrading", "completeGrading"} \subseteq ExamOps
      /\ {"updateClinics", "statistics", "describeReport", "uploadReport"} \subseteq ExamOps
  BY DEF ExamOps
<1>b. ASSUME NEW r \in Requests, NEW op, NEW q, Begin(r, op, q), q.op \in ExamOps PROVE Turns(ExamOps)
  BY <1>b, BeginsTurn
<1>c. ASSUME NEW r \in Requests, NEW q, Proceed(r, q), q.op \in ExamOps PROVE Turns(ExamOps)
  BY <1>c, MovesTurn
<1>1. CASE UpdateExam
  BY <1>1, StillTurns DEF UpdateExam, Serve
<1> SUFFICES ASSUME ~UpdateExam PROVE Turns(ExamOps)
  BY <1>1
<1>2. ASSUME NEW r \in Requests, Reply(r) PROVE Turns(ExamOps)
  BY <1>a, <1>2, ReplyTurns
<1>3. ASSUME NEW r \in Requests, BeginCreateExam(r) \/ BeginSubmit(r) \/ BeginDeleteExam(r) \/ BeginUpdateClinics(r)
      PROVE  Turns(ExamOps)
  BY <1>3, <1>a, <1>b DEF BeginCreateExam, BeginSubmit, BeginDeleteExam, BeginUpdateClinics
<1>4. ASSUME NEW r \in Requests, BeginStatistics(r) \/ BeginDescribeReport(r) \/ BeginUploadReport(r) \/ BeginComplete(r)
      PROVE  Turns(ExamOps)
  BY <1>4, <1>a, <1>b DEF BeginStatistics, BeginDescribeReport, BeginUploadReport, BeginComplete
<1>5. ASSUME NEW r \in Requests, CountGrades(r) \/ RankGrades(r) \/ GradeAnswers(r) \/ ReadFailedGrades(r)
      PROVE  Turns(ExamOps)
  BY <1>2, <1>5, <1>a, <1>c DEF CountGrades, RankGrades, GradeAnswers, ReadFailedGrades
<1>6. ASSUME NEW r \in Requests, ReadClinics(r) PROVE Turns(ExamOps)
  BY <1>2, <1>6, <1>a, <1>c DEF ReadClinics
<1>7. ASSUME NEW r \in Requests PROVE {"op", "step"} \subseteq DOMAIN req[r]
  BY DEF IInv, RequestsOK, RequestOK
<1>8. ASSUME NEW r \in Requests, RecheckExam(r) PROVE Turns(ExamOps)
  <2>1. \/ Reply(r)
        \/ Proceed(r, [req[r] EXCEPT !.step = "commit"])
        \/ Proceed(r, [req[r] EXCEPT !.step = "commit", !.reopens = TRUE])
    BY <1>8 DEF RecheckExam
  <2>2. [req[r] EXCEPT !.step = "commit"].op = "submitGrading"
        /\ [req[r] EXCEPT !.step = "commit", !.reopens = TRUE].op = "submitGrading"
    BY <1>7, <1>8 DEF RecheckExam, At
  <2> QED
    BY <1>2, <2>1, <2>2, <1>a, <1>c
<1>9. ASSUME NEW r \in Requests, CountAnswers(r) PROVE Turns(ExamOps)
  <2>1. PICK todo, rows : Proceed(r, [req[r] EXCEPT !.todo = todo, !.rows = rows])
    BY <1>9 DEF CountAnswers
  <2>2. [req[r] EXCEPT !.todo = todo, !.rows = rows].op = "statistics"
    BY <1>7, <1>9 DEF CountAnswers, At
  <2> QED
    BY <2>1, <2>2, <1>a, <1>c
<1>10. ASSUME NEW r \in Requests, UploadFile(r) PROVE Turns(ExamOps)
  <2>1. [req[r] EXCEPT !.step = "save"].op = "uploadReport"
    BY <1>7, <1>10 DEF UploadFile, At
  <2> QED
    BY <1>10, <2>1, <1>a, <1>c DEF UploadFile
<1>11. ASSUME NEW r \in Requests, SaveGrading(r) \/ SyncClinics(r) PROVE Turns(ExamOps)
  <2>1. Reply(r) \/ ReplyOvertaking(r, {"completeGrading", "statistics", "deleteExam"}) \/ ReplyOvertaking(r, {"completeGrading"})
    BY <1>11 DEF SaveGrading, SyncClinics
  <2> QED
    BY <1>2, <2>1, <1>a, OvertakingTurns
<1>12. ASSUME NEW r \in Requests,
              \/ CreateExam(r) \/ DeleteExam(r) \/ CompleteOnly(r) \/ UpdateClinics(r) \/ SaveStatistics(r)
              \/ DescribeReport(r) \/ SaveReportUrl(r)
       PROVE  Turns(ExamOps)
  BY <1>2, <1>12 DEF CreateExam, DeleteExam, CompleteOnly, UpdateClinics, SaveStatistics, DescribeReport, SaveReportUrl
<1> QED
  BY <1>3, <1>4, <1>5, <1>6, <1>8, <1>9, <1>10, <1>11, <1>12 DEF GradingNext

LEMMA TurnsOffWork == ASSUME NEW ops, Turns(ops), ops \cap ClassworkOps = {} PROVE \A s \in Requests : OffWork(s)
  BY DEF Turns, OffWork

LEMMA GradingOffWork == ASSUME IInv, GradingNext PROVE \A s \in Requests : OffWork(s)
  BY GradingTurns, TurnsOffWork DEF ExamOps, ClassworkOps

LEMMA ShowOffWork ==
    ASSUME IInv, NEW r \in Requests, BeginShow(r) \/ ReadLinks(r) \/ SaveLinks(r) PROVE \A s \in Requests : OffWork(s)
<1> USE DEF ClassworkOps
<1>1. CASE BeginShow(r)
  BY <1>1, BeginsOffWork DEF BeginShow
<1>2. CASE ReadLinks(r)
  BY <1>2, MovesOffWork DEF ReadLinks
<1>3. CASE Reply(r)
  BY <1>3, ReplyOffWork
<1>4. CASE OvertakeLinks(r)
  <2>1. ASSUME NEW s \in Requests PROVE OffWork(s)
    <3>1. CASE s = r
      BY <1>4, <3>1, IdleCall DEF OvertakeLinks, OffWork
    <3>2. CASE s # r /\ ~At(s, "showAssignments", "save")
      BY <1>4, <3>2 DEF OvertakeLinks, OffWork
    <3>3. CASE s # r /\ At(s, "showAssignments", "save")
      <4>1. req'[s] = [req[s] EXCEPT !.drop = @ \ req[r].drop, !.overtaken = TRUE]
        BY <1>4, <3>3 DEF OvertakeLinks
      <4>2. req'[s].op = "showAssignments"
        BY <3>3, <4>1 DEF At, IInv, RequestsOK, RequestOK
      <4> QED
        BY <4>2 DEF OffWork
    <3> QED
      BY <3>1, <3>2, <3>3
  <2> QED
    BY <2>1
<1> QED
  BY <1>1, <1>2, <1>3, <1>4 DEF SaveLinks

LEMMA AttendanceOffWork ==
    ASSUME IInv, NEW r \in Requests,
           \/ BeginAttendance(r) \/ BeginBulkAttendance(r) \/ BeginDeleteAttendance(r)
           \/ CheckAttendance(r) \/ WriteAttendance(r) \/ EraseAttendance(r)
    PROVE  UNCHANGED <<category, assignment, result, reshaped>> /\ \A s \in Requests : OffWork(s)
<1> USE DEF ClassworkOps
<1>1. UNCHANGED <<category, assignment, result, reshaped>>
  BY DEF BeginAttendance, BeginBulkAttendance, BeginDeleteAttendance, CheckAttendance, WriteAttendance, EraseAttendance,
     classworkVars
<1>2. CASE BeginAttendance(r) \/ BeginBulkAttendance(r) \/ BeginDeleteAttendance(r)
  BY <1>1, <1>2, BeginsOffWork DEF BeginAttendance, BeginBulkAttendance, BeginDeleteAttendance
<1>3. CASE Reply(r)
  BY <1>1, <1>3, ReplyOffWork
<1>4. CASE CheckAttendance(r)
  <2>1. Reply(r) \/ Proceed(r, [req[r] EXCEPT !.step = "write"])
    BY <1>4 DEF CheckAttendance
  <2>2. [req[r] EXCEPT !.step = "write"].op \notin ClassworkOps
    BY <1>4 DEF CheckAttendance, IInv, RequestsOK, RequestOK
  <2> QED
    BY <1>1, <1>3, <2>1, <2>2, MovesOffWork
<1> QED
  BY <1>2, <1>3, <1>4 DEF WriteAttendance, EraseAttendance

-----------------------------------------------------------------------------
\* The requests on the classwork that begin or read.
LEMMA Theres ==
    ASSUME ResultTables
    PROVE  /\ \A c \in Categories : CategoryThere(c) => category[c] \in CategoryRow
           /\ \A a \in Assignments : AssignmentThere(a) => assignment[a] \in AssignmentRow /\ Known(a)
  BY DEF ResultTables, CategoryThere, AssignmentThere, Known, NoCategory, NoAssignment

LEMMA BeginClassworkStep ==
    ASSUME IInv, PresetInv, RowsRest, NEW r \in Requests,
           \/ BeginCreateCategory(r) \/ BeginUpdateCategory(r) \/ BeginCreateAssignment(r) \/ BeginUpdateAssignment(r)
           \/ BeginCreateResult(r) \/ BeginUpdateResult(r) \/ BeginDeleteResult(r) \/ BeginBulk(r)
    PROVE  PresetInv'
<1> USE WorkBegins, Theres DEF PresetCallOK, BulkOps, PresetInv
<1>1. CASE BeginCreateCategory(r)
  BY <1>1 DEF BeginCreateCategory
<1>2. CASE BeginUpdateCategory(r)
  <2>1. PICK c \in Categories, name \in Names, presets \in PresetCounts :
          Begin(r, "updateCategory", [op |-> "updateCategory", step |-> "update", category |-> c,
                                      name |-> name, presets |-> presets])
    BY <1>2 DEF BeginUpdateCategory, CategoryRow
  <2> QED
    BY <2>1
<1>3. CASE BeginCreateAssignment(r)
  BY <1>3 DEF BeginCreateAssignment
<1>4. CASE BeginUpdateAssignment(r)
  BY <1>4 DEF BeginUpdateAssignment
<1>5. ASSUME NEW n \in PresetCounts, NEW i \in 0 .. n PROVE i \in Nat
  OBVIOUS
<1>6. CASE BeginCreateResult(r)
  <2>1. PICK a \in Assignments, s \in enrolled, index \in Indexes :
          /\ AssignmentThere(a) /\ ValidIndex(index, Presets(a))
          /\ Begin(r, "createResult", [op |-> "createResult", step |-> "insert", assignment |-> a, seat |-> s, index |-> index])
    BY <1>6 DEF BeginCreateResult
  <2>2. index \in Nat /\ s \in Students
    BY <1>5, <2>1 DEF Indexes, IInv, RowsOK, LecturesTypeOK
  <2>3. Known(a) /\ Fits(a, index)
    BY <2>1 DEF ValidIndex, Fits
  <2> QED
    BY <2>1, <2>2, <2>3
<1>7. CASE BeginUpdateResult(r)
  <2>1. PICK a \in Assignments, s \in Students, index \in Indexes :
          /\ result[a][s].there /\ ValidIndex(index, Presets(a))
          /\ Begin(r, "updateResult", [op |-> "updateResult", step |-> "update", assignment |-> a, seat |-> s,
                                       id |-> result[a][s].id, index |-> index])
    BY <1>7 DEF BeginUpdateResult
  <2>2. index \in Nat /\ AssignmentThere(a)
    BY <1>5, <2>1 DEF Indexes, ResultsAreOfPresets
  <2>3. Known(a) /\ Fits(a, index)
    BY <2>1, <2>2 DEF ValidIndex, Fits
  <2> QED
    BY <2>1, <2>2, <2>3
<1>8. CASE BeginDeleteResult(r)
  BY <1>8 DEF BeginDeleteResult
<1>9. CASE BeginBulk(r)
  <2>1. PICK items \in Bulks, op \in BulkOps :
          Begin(r, op, [op |-> op, step |-> "items", items |-> items, done |-> 0, cache |-> <<>>])
    BY <1>9 DEF BeginBulk
  <2>2. PICK q : q = [op |-> op, step |-> "items", items |-> items, done |-> 0, cache |-> <<>>]
    OBVIOUS
  <2>3. BulkCall(q)
    BY <2>2, ClassworkAssumption DEF BulkCall
  <2>4. q.done = 0 /\ q.cache = <<>> /\ q.op = op
    BY <2>2
  <2>5. Remembered(q)
    BY <2>4 DEF Remembered
  <2>6. Checked(q)
    BY <2>4 DEF Checked
  <2>7. PresetCallOK(q)
    BY <2>3, <2>4, <2>5, <2>6
  <2> QED
    BY <2>1, <2>2, <2>7
<1> QED
  BY <1>1, <1>2, <1>3, <1>4, <1>6, <1>7, <1>8, <1>9

-----------------------------------------------------------------------------
\* Rows of results that change.
ResultsMove ==
    /\ result' \in [Assignments -> [Students -> ResultRow]]
    /\ \A a \in Assignments, s \in Students : result'[a][s].there =>
         \/ result[a][s].there /\ result'[a][s].index = result[a][s].index
         \/ AssignmentThere(a) /\ s \in enrolled /\ Fits(a, result'[a][s].index)

LEMMA ResultsMoved ==
    ASSUME PresetInv, UNCHANGED <<category, assignment, reshaped, enrolled>>, ResultsMove
    PROVE  ResultTables' /\ Placed' /\ ResultsAreOfPresets'
<1>1. ResultTables' /\ Placed'
  BY DEF PresetInv, ResultTables, Placed, AssignmentThere, CategoryThere, ResultsMove
<1>2. ASSUME NEW a \in Assignments, NEW s \in Students, result'[a][s].there
      PROVE  /\ AssignmentThere(a) /\ CategoryThere(assignment[a].category) /\ s \in enrolled
             /\ a \notin reshaped => result'[a][s].index < Presets(a)
  BY <1>2 DEF ResultsMove, PresetInv, ResultsAreOfPresets, Placed, Fits
<1>3. ResultsAreOfPresets'
  BY <1>2 DEF ResultsAreOfPresets, AssignmentThere, CategoryThere, Presets
<1> QED
  BY <1>1, <1>3

LEMMA ResultStep ==
    ASSUME IInv, PresetInv, UNCHANGED <<category, assignment, reshaped, enrolled>>, ResultsMove,
           NEW r \in Requests, NEW q, PresetCallOK(q), Proceed(r, q)
    PROVE  PresetInv'
<1>1. ASSUME NEW s \in Requests PROVE PresetCallOK(req[s])'
  <2>1. PICK p : p = req'[s]
    OBVIOUS
  <2>2. p = q \/ p = req[s]
    BY <2>1 DEF Proceed, IInv, RequestsOK
  <2>3. PresetCallOK(p)
    BY <2>2 DEF PresetInv, PresetCalls
  <2>4. PresetCallOK(p)'
    BY <2>3, RestLasts, RestChecked, CallLasts
  <2> QED
    BY <2>1, <2>4
<1> QED
  BY <1>1, ResultsMoved DEF PresetInv, PresetCalls

LEMMA ReplyStep ==
    ASSUME IInv, PresetInv, UNCHANGED <<category, assignment, reshaped, enrolled>>, ResultsMove, NEW r \in Requests, Reply(r)
    PROVE  PresetInv'
<1>1. PresetCallOK(Idle)
  BY OtherCall, IdleCall
<1> QED
  BY <1>1, ResultStep DEF Reply

LEMMA NoResultMoves == ASSUME PresetInv, UNCHANGED result PROVE ResultsMove
  BY DEF ResultsMove, PresetInv, ResultTables

LEMMA WrittenRow ==
    ASSUME NEW row \in ResultRow, NEW index \in Nat
    PROVE  /\ Written(row, index) \in ResultRow /\ Written(row, index).index = index
           /\ Removed(row) \in ResultRow /\ ~Removed(row).there
<1>1. row.id \in Nat /\ row.id + 1 \in Nat
  BY DEF ResultRow
<1>2. (IF row.there THEN row.id ELSE row.id + 1) \in Nat
  BY <1>1
<1>3. Written(row, index) \in ResultRow /\ Written(row, index).index = index
  BY <1>2 DEF ResultRow, Written
<1>4. Removed(row) \in ResultRow /\ ~Removed(row).there
  BY DEF ResultRow, Removed
<1> QED
  BY <1>3, <1>4

LEMMA OneResultMoves ==
    ASSUME PresetInv, NEW a \in Assignments, NEW s \in Students, NEW row \in ResultRow,
           result' = [result EXCEPT ![a][s] = row],
           row.there => AssignmentThere(a) /\ s \in enrolled /\ Fits(a, row.index)
    PROVE  ResultsMove
<1>1. result \in [Assignments -> [Students -> ResultRow]]
  BY DEF PresetInv, ResultTables
<1>2. result' \in [Assignments -> [Students -> ResultRow]]
  BY <1>1
<1>3. ASSUME NEW b \in Assignments, NEW t \in Students
      PROVE  result'[b][t] = IF b = a /\ t = s THEN row ELSE result[b][t]
  BY <1>1
<1> QED
  BY <1>2, <1>3 DEF ResultsMove

LEMMA CreateResultStep ==
    ASSUME IInv, PresetInv, UNCHANGED enrolled, NEW r \in Requests, CreateResult(r) PROVE PresetInv'
<1>1. PICK q : q = req[r]
  OBVIOUS
<1>2. q.op = "createResult" /\ PresetCallOK(q)
  BY <1>1 DEF CreateResult, At, PresetInv, PresetCalls
<1>3. q.assignment \in Assignments /\ q.seat \in Students /\ q.index \in Nat /\ Fits(q.assignment, q.index)
  BY <1>2 DEF PresetCallOK
<1>4. PICK row : row = result[q.assignment][q.seat]
  OBVIOUS
<1>5. row \in ResultRow
  BY <1>3, <1>4 DEF PresetInv, ResultTables
<1>6. ResultsMove
  <2>1. CASE UNCHANGED result
    BY <2>1, NoResultMoves
  <2>2. CASE /\ AssignmentThere(q.assignment) /\ q.seat \in enrolled
             /\ result' = [result EXCEPT ![q.assignment][q.seat] = Written(row, q.index)]
    BY <1>3, <1>5, <2>2, WrittenRow, OneResultMoves
  <2> QED
    BY <1>1, <1>4, <2>1, <2>2 DEF CreateResult
<1> QED
  BY <1>6, ReplyStep DEF CreateResult

LEMMA ChangeResultStep ==
    ASSUME IInv, PresetInv, UNCHANGED enrolled, NEW r \in Requests, ChangeResult(r) PROVE PresetInv'
<1>1. PICK q : q = req[r]
  OBVIOUS
<1>2. q.op \in {"updateResult", "deleteResult"} /\ PresetCallOK(q)
  BY <1>1 DEF ChangeResult, At, PresetInv, PresetCalls
<1>3. PICK row : row = result[q.assignment][q.seat]
  OBVIOUS
<1>4. ResultsMove
  <2>1. CASE UNCHANGED result
    BY <2>1, NoResultMoves
  <2>2. CASE q.op = "deleteResult" /\ row.there /\ result' = [result EXCEPT ![q.assignment][q.seat] = Removed(row)]
    <3>1. CASE q.assignment \in Assignments /\ q.seat \in Students
      <4>1. row \in ResultRow
        BY <1>3, <3>1 DEF PresetInv, ResultTables
      <4> QED
        BY <2>2, <3>1, <4>1, WrittenRow, OneResultMoves
    <3>2. CASE ~(q.assignment \in Assignments /\ q.seat \in Students)
      <4>1. UNCHANGED result
        BY <2>2, <3>2 DEF PresetInv, ResultTables
      <4> QED
        BY <4>1, NoResultMoves
    <3> QED
      BY <3>1, <3>2
  <2>3. CASE /\ q.op = "updateResult" /\ row.there
             /\ result' = [result EXCEPT ![q.assignment][q.seat] = Written(row, q.index)]
    <3>1. q.assignment \in Assignments /\ q.seat \in Students /\ q.index \in Nat /\ Fits(q.assignment, q.index)
      BY <1>2, <2>3 DEF PresetCallOK
    <3>2. row \in ResultRow /\ AssignmentThere(q.assignment) /\ q.seat \in enrolled
      BY <1>3, <2>3, <3>1 DEF PresetInv, ResultTables, ResultsAreOfPresets
    <3> QED
      BY <2>3, <3>1, <3>2, WrittenRow, OneResultMoves
  <2> QED
    BY <1>1, <1>2, <1>3, <2>1, <2>2, <2>3 DEF ChangeResult
<1> QED
  BY <1>4, ReplyStep DEF ChangeResult

-----------------------------------------------------------------------------
\* Bulk requests.
LEMMA Advanced ==
    ASSUME NEW q, BulkCall(q), Remembered(q), q.done < Len(q.items), q.op \in BulkOps
    PROVE  /\ AfterItem(q).op = q.op /\ AfterItem(q).items = q.items /\ AfterItem(q).done = q.done + 1
           /\ BulkCall(AfterItem(q)) /\ Remembered(AfterItem(q))
<1>1. q.items \in Seq([assignment: Assignments, seat: Students, index: Nat \cup {Erase}])
  BY ClassworkAssumption DEF BulkCall
<1>2. PICK a : a = ItemOf(q).assignment
  OBVIOUS
<1> DEFINE cache == IF a \in DOMAIN q.cache \/ AssignmentThere(a)
                    THEN [b \in DOMAIN q.cache \cup {a} |-> IF b \in DOMAIN q.cache THEN q.cache[b] ELSE Presets(b)]
                    ELSE q.cache
<1>3. AfterItem(q) = [q EXCEPT !.done = q.done + 1, !.cache = cache]
  BY <1>2 DEF AfterItem, BulkCall
<1>4. \A b \in Assignments \cap DOMAIN cache :
        /\ Known(b)
        /\ AssignmentThere(b) /\ b \notin reshaped => cache[b] = Presets(b)
  BY DEF Remembered, Known, AssignmentThere
<1> HIDE DEF cache
<1>5. PICK p : p = AfterItem(q)
  OBVIOUS
<1>6. /\ p.op = q.op /\ p.items = q.items /\ p.done = q.done + 1 /\ p.cache = cache
      /\ {"op", "step", "items", "done", "cache"} \subseteq DOMAIN p
  BY <1>3, <1>5 DEF BulkCall
<1>7. p.done \in 0 .. Len(p.items)
  BY <1>1, <1>6 DEF BulkCall
<1>8. BulkCall(p)
  BY <1>6, <1>7 DEF BulkCall
<1>9. Remembered(p)
  BY <1>4, <1>6 DEF Remembered
<1> QED
  BY <1>5, <1>6, <1>8, <1>9

LEMMA NextItem ==
    ASSUME NEW q, BulkCall(q), Remembered(q), q.done < Len(q.items), NEW item, item = ItemOf(q)
    PROVE  /\ item.assignment \in Assignments /\ item.seat \in Students /\ item.index \in Nat \cup {Erase}
           /\ ItemOK(q) => /\ AssignmentThere(item.assignment) /\ item.seat \in enrolled
                           /\ item.index # Erase => item.index \in Nat /\ Fits(item.assignment, item.index)
<1>1. q.items \in Seq([assignment: Assignments, seat: Students, index: Nat \cup {Erase}])
  BY ClassworkAssumption DEF BulkCall
<1>2. item \in [assignment: Assignments, seat: Students, index: Nat \cup {Erase}]
  <2>1. Len(q.items) \in Nat
    BY <1>1
  <2>2. q.done + 1 \in 1 .. Len(q.items)
    BY <2>1 DEF BulkCall
  <2> QED
    BY <1>1, <2>2, ElementOf DEF ItemOf
<1>3. ASSUME ItemOK(q), item.index # Erase PROVE Fits(item.assignment, item.index)
  <2>1. item.index < CachedPresets(q)
    BY <1>3 DEF ItemOK, ValidIndex
  <2>2. ASSUME AssignmentThere(item.assignment), item.assignment \notin reshaped
        PROVE  CachedPresets(q) = Presets(item.assignment)
    BY <1>2, <2>2 DEF CachedPresets, Remembered
  <2> QED
    BY <2>1, <2>2 DEF Fits
<1> QED
  BY <1>2, <1>3 DEF ItemOK

LEMMA BulkItemStep ==
    ASSUME IInv, PresetInv, UNCHANGED enrolled, NEW r \in Requests, BulkItem(r) PROVE PresetInv'
<1>1. PICK q : q = req[r]
  OBVIOUS
<1>2. /\ q.op \in BulkOps /\ q.done < Len(q.items) /\ PresetCallOK(q)
      /\ UNCHANGED <<category, assignment, reshaped>>
  BY <1>1 DEF BulkItem, BulkOps, PresetInv, PresetCalls
<1>3. BulkCall(q) /\ Remembered(q) /\ (q.op = "strictBulkResults" => Checked(q))
  BY <1>2 DEF PresetCallOK
<1>4. PICK item : item = ItemOf(q)
  OBVIOUS
<1>5. PICK p : p = AfterItem(q)
  OBVIOUS
<1>6. p.op = q.op /\ p.items = q.items /\ p.done = q.done + 1 /\ BulkCall(p) /\ Remembered(p)
  BY <1>2, <1>3, <1>5, Advanced
<1>7. ASSUME q.op = "strictBulkResults" => ItemOK(q) PROVE PresetCallOK(p)
  <2>1. ASSUME q.op = "strictBulkResults", NEW i \in 1 .. p.done
        PROVE  /\ AssignmentThere(p.items[i].assignment) /\ p.items[i].seat \in enrolled
               /\ p.items[i].index # Erase => Fits(p.items[i].assignment, p.items[i].index)
    <3>1. q.done \in Nat
      BY <1>3, ClassworkAssumption DEF BulkCall
    <3>2. CASE i \in 1 .. q.done
      BY <1>3, <1>6, <2>1, <3>2 DEF Checked
    <3>3. CASE i \notin 1 .. q.done
      <4>1. p.items[i] = item
        BY <1>4, <1>6, <3>1, <3>3 DEF ItemOf
      <4> QED
        BY <1>2, <1>3, <1>4, <1>7, <2>1, <4>1, NextItem
    <3> QED
      BY <3>2, <3>3
  <2>2. p.op = "strictBulkResults" => Checked(p)
    BY <1>6, <2>1 DEF Checked
  <2> QED
    BY <1>2, <1>6, <2>2 DEF PresetCallOK, BulkOps
<1>8. CASE ~ItemOK(q) /\ UNCHANGED result /\ (Reply(r) \/ (q.op # "strictBulkResults" /\ Proceed(r, p)))
  BY <1>2, <1>7, <1>8, NoResultMoves, ResultStep, ReplyStep
<1>9. CASE ItemOK(q) /\ UNCHANGED result /\ Proceed(r, p)
  BY <1>2, <1>7, <1>9, NoResultMoves, ResultStep
<1>10. CASE /\ ItemOK(q) /\ q.op # "strictBulkResults" /\ Proceed(r, p)
            /\ result' = [result EXCEPT ![item.assignment][item.seat] =
                            IF item.index = Erase THEN Removed(@) ELSE Written(@, item.index)]
  <2>1. PICK a, s, index : a = item.assignment /\ s = item.seat /\ index = item.index
    OBVIOUS
  <2>2. /\ a \in Assignments /\ s \in Students /\ AssignmentThere(a) /\ s \in enrolled
        /\ index # Erase => index \in Nat /\ Fits(a, index)
    BY <1>2, <1>3, <1>4, <1>10, <2>1, NextItem
  <2>3. result[a][s] \in ResultRow
    BY <2>2 DEF PresetInv, ResultTables
  <2>4. CASE index = Erase
    <3>1. result' = [result EXCEPT ![a][s] = Removed(result[a][s])]
      BY <1>10, <2>1, <2>4
    <3>2. ResultsMove
      BY <2>2, <2>3, <3>1, WrittenRow, OneResultMoves
    <3> QED
      BY <1>2, <1>7, <1>10, <3>2, ResultStep
  <2>5. CASE index # Erase
    <3>1. result' = [result EXCEPT ![a][s] = Written(result[a][s], index)]
      BY <1>10, <2>1, <2>5
    <3>2. ResultsMove
      BY <2>2, <2>3, <2>5, <3>1, WrittenRow, OneResultMoves
    <3> QED
      BY <1>2, <1>7, <1>10, <3>2, ResultStep
  <2> QED
    BY <2>4, <2>5
<1> QED
  BY <1>1, <1>2, <1>4, <1>5, <1>8, <1>9, <1>10 DEF BulkItem

LEMMA EndBulkStep ==
    ASSUME IInv, PresetInv, UNCHANGED enrolled, NEW r \in Requests, EndBulk(r) PROVE PresetInv'
<1>1. PICK q : q = req[r]
  OBVIOUS
<1>2. q.op \in BulkOps /\ PresetCallOK(q) /\ result' = Applied(q) /\ Reply(r) /\ UNCHANGED <<category, assignment, reshaped>>
  BY <1>1 DEF EndBulk, BulkOps, PresetInv, PresetCalls
<1>3. BulkCall(q) /\ (q.op = "strictBulkResults" => Checked(q))
  BY <1>2 DEF PresetCallOK
<1>4. ASSUME NEW a \in Assignments, NEW s \in Students
      PROVE  /\ result'[a][s] \in ResultRow
             /\ result'[a][s].there =>
                  \/ result'[a][s] = result[a][s]
                  \/ AssignmentThere(a) /\ s \in enrolled /\ Fits(a, result'[a][s].index)
  <2>1. result[a][s] \in ResultRow
    BY DEF PresetInv, ResultTables
  <2> DEFINE mine == {i \in 1 .. q.done : q.items[i].assignment = a /\ q.items[i].seat = s}
  <2>2. CASE ~(q.op = "strictBulkResults" /\ mine # {})
    <3>1. result'[a][s] = result[a][s]
      BY <1>2, <2>2 DEF Applied
    <3> QED
      BY <2>1, <3>1
  <2>3. CASE q.op = "strictBulkResults" /\ mine # {}
    <3>1. PICK i : i = CHOOSE j \in mine : TRUE
      OBVIOUS
    <3>2. i \in 1 .. q.done /\ q.items[i].assignment = a /\ q.items[i].seat = s
      BY <2>3, <3>1
    <3>3. PICK index : index = q.items[i].index
      OBVIOUS
    <3>4. result'[a][s] = IF index = Erase THEN Removed(result[a][s]) ELSE Written(result[a][s], index)
      BY <1>2, <2>3, <3>1, <3>3 DEF Applied
    <3>5. index \in Nat \cup {Erase}
      BY <1>3, <3>2, <3>3, Items
    <3>6. AssignmentThere(a) /\ s \in enrolled /\ (index # Erase => Fits(a, index))
      BY <1>3, <2>3, <3>2, <3>3 DEF Checked
    <3>7. CASE index = Erase
      BY <2>1, <3>4, <3>7, WrittenRow
    <3>8. CASE index # Erase
      <4>1. index \in Nat
        BY <3>5, <3>8
      <4>2. Written(result[a][s], index) \in ResultRow /\ Written(result[a][s], index).index = index
        BY <2>1, <4>1, WrittenRow
      <4> QED
        BY <3>4, <3>6, <3>8, <4>2
    <3> QED
      BY <3>7, <3>8
  <2> QED
    BY <2>2, <2>3
<1>5. result' = [a \in Assignments |-> [s \in Students |-> result'[a][s]]]
  BY <1>2 DEF Applied
<1>6. ResultsMove
  BY <1>4, <1>5 DEF ResultsMove
<1> QED
  BY <1>2, <1>6, ReplyStep

-----------------------------------------------------------------------------
\* Categories and assignments.
LEMMA ShapesStep ==
    ASSUME PresetInv, NEW r \in Requests, Reply(r), IInv, UNCHANGED <<result, enrolled>>,
           ResultTables', Placed', PresetsLast, \A a \in Assignments : AssignmentThere(a) => AssignmentThere(a)'
    PROVE  PresetInv'
<1>1. ASSUME NEW s \in Requests, req[s].op = "strictBulkResults" PROVE StillChecked(req[s])
  <2>1. PICK q : q = req[s]
    OBVIOUS
  <2>2. BulkCall(q)
    BY <1>1, <2>1 DEF PresetInv, PresetCalls, PresetCallOK, BulkOps
  <2>3. StillChecked(q)
    BY <2>2, Items DEF StillChecked
  <2> QED
    BY <2>1, <2>3
<1>2. PresetCalls'
  BY <1>1, ReplyOffWork, CallsLast DEF PresetInv
<1>3. ASSUME NEW a \in Assignments, NEW s \in Students, result'[a][s].there
      PROVE  /\ AssignmentThere(a)' /\ CategoryThere(assignment[a].category)' /\ s \in enrolled'
             /\ a \notin reshaped' => result'[a][s].index < Presets(a)'
  <2>1. /\ AssignmentThere(a) /\ s \in enrolled
        /\ a \notin reshaped => result[a][s].index < Presets(a)
    BY <1>3 DEF PresetInv, ResultsAreOfPresets
  <2>2. AssignmentThere(a)' /\ Known(a)
    BY <2>1 DEF AssignmentThere, Known
  <2>3. CategoryThere(assignment[a].category)'
    BY <2>2 DEF Placed
  <2>4. a \notin reshaped' => a \notin reshaped /\ Presets(a)' = Presets(a)
    BY <2>2 DEF PresetsLast
  <2> QED
    BY <2>1, <2>2, <2>3, <2>4
<1>4. ResultsAreOfPresets'
  BY <1>3 DEF ResultsAreOfPresets
<1> QED
  BY <1>2, <1>4 DEF PresetInv

LEMMA CreateCategoryStep ==
    ASSUME IInv, PresetInv, UNCHANGED enrolled, NEW r \in Requests, CreateCategory(r) PROVE PresetInv'
<1>1. UNCHANGED <<assignment, result, reshaped>> /\ Reply(r)
  BY DEF CreateCategory
<1>2. CASE UNCHANGED category
  BY <1>1, <1>2, NoResultMoves, ReplyStep DEF CreateCategory
<1>3. ASSUME NEW c \in Categories, category[c] = NoCategory,
             category' = [category EXCEPT ![c] = [state |-> "there", name |-> req[r].name, presets |-> req[r].presets]]
      PROVE  PresetInv'
  <2>1. req[r].name \in Names /\ req[r].presets \in PresetCounts
    BY DEF CreateCategory, At, PresetInv, PresetCalls, PresetCallOK
  <2>2. [state |-> "there", name |-> req[r].name, presets |-> req[r].presets] \in CategoryRow
    BY <2>1 DEF CategoryRow, Existence
  <2>3. ResultTables'
    BY <1>1, <1>3, <2>2 DEF PresetInv, ResultTables
  <2>4. \A d : CategoryThere(d) => category'[d] = category[d]
    BY <1>3 DEF CategoryThere, NoCategory, PresetInv, ResultTables
  <2>5. \A a \in Assignments : AssignmentThere(a) => Presets(a)' = Presets(a) /\ CategoryThere(assignment[a].category)'
    BY <1>1, <2>4 DEF PresetInv, Placed, Presets, CategoryThere
  <2>6. Placed'
    BY <1>1, <2>5 DEF Placed, AssignmentThere
  <2>7. PresetsLast
    BY <1>1, <2>5 DEF PresetsLast, Known, AssignmentThere
  <2> QED
    BY <1>1, <2>3, <2>6, <2>7, ShapesStep DEF AssignmentThere
<1> QED
  BY <1>2, <1>3 DEF CreateCategory

LEMMA UpdateCategoryStep ==
    ASSUME IInv, PresetInv, UNCHANGED enrolled, NEW r \in Requests, UpdateCategory(r) PROVE PresetInv'
<1>1. UNCHANGED <<assignment, result>> /\ Reply(r)
  BY DEF UpdateCategory
<1>2. CASE UNCHANGED <<category, reshaped>>
  BY <1>1, <1>2, NoResultMoves, ReplyStep
<1>3. CASE ~UNCHANGED <<category, reshaped>>
  <2>1. PICK c, name, presets : c = req[r].category /\ name = req[r].name /\ presets = req[r].presets
    OBVIOUS
  <2>2. c \in Categories /\ name \in Names /\ presets \in PresetCounts
    BY <2>1 DEF UpdateCategory, At, PresetInv, PresetCalls, PresetCallOK
  <2>3. /\ CategoryThere(c)
        /\ category' = [category EXCEPT ![c].name = name, ![c].presets = presets]
        /\ reshaped' = IF presets = category[c].presets THEN reshaped ELSE reshaped \cup InCategory(c)
    BY <1>3, <2>1 DEF UpdateCategory
  <2>4. category[c] \in CategoryRow
    BY <2>2, <2>3, Theres DEF PresetInv
  <2>5. /\ category'[c] \in CategoryRow /\ category'[c].state = category[c].state /\ category'[c].presets = presets
        /\ \A d : d # c => category'[d] = category[d]
    <3>1. DOMAIN category = Categories
      BY DEF PresetInv, ResultTables
    <3>2. category' = [category EXCEPT ![c] = [category[c] EXCEPT !.name = name, !.presets = presets]]
      BY <2>2, <2>3, <3>1
    <3>3. PICK row : row = [category[c] EXCEPT !.name = name, !.presets = presets]
      OBVIOUS
    <3>4. row \in CategoryRow /\ row.state = category[c].state /\ row.presets = presets
      BY <2>2, <2>4, <3>3 DEF CategoryRow
    <3>5. category'[c] = row /\ \A d : d # c => category'[d] = category[d]
      BY <2>2, <3>1, <3>2, <3>3
    <3> QED
      BY <3>4, <3>5
  <2>6. ResultTables'
    BY <1>1, <2>2, <2>3, <2>5 DEF PresetInv, ResultTables
  <2>7. Placed'
    BY <1>1, <2>5 DEF PresetInv, Placed, CategoryThere, AssignmentThere
  <2>8. ASSUME NEW a \in Assignments, AssignmentThere(a), a \notin reshaped'
        PROVE  a \notin reshaped /\ Presets(a)' = Presets(a)
    BY <1>1, <2>3, <2>5, <2>8 DEF InCategory, Presets
  <2>9. PresetsLast
    BY <1>1, <2>8 DEF PresetsLast, Known, AssignmentThere
  <2> QED
    BY <1>1, <2>6, <2>7, <2>9, ShapesStep DEF AssignmentThere
<1> QED
  BY <1>2, <1>3

LEMMA CreateAssignmentStep ==
    ASSUME IInv, PresetInv, UNCHANGED enrolled, NEW r \in Requests, CreateAssignment(r) PROVE PresetInv'
<1>1. UNCHANGED <<category, result, reshaped>> /\ Reply(r)
  BY DEF CreateAssignment
<1>2. CASE UNCHANGED assignment
  BY <1>1, <1>2, NoResultMoves, ReplyStep
<1>3. CASE ~UNCHANGED assignment
  <2>1. PICK c : c = req[r].category
    OBVIOUS
  <2>2. PICK a \in Assignments : /\ CategoryThere(c) /\ assignment[a] = NoAssignment
                                 /\ assignment' = [assignment EXCEPT ![a] = [state |-> "there", category |-> c]]
    BY <1>3, <2>1 DEF CreateAssignment
  <2>3. c \in Categories
    BY <2>1 DEF CreateAssignment, At, PresetInv, PresetCalls, PresetCallOK
  <2>4. /\ assignment'[a] = [state |-> "there", category |-> c]
        /\ \A b : b # a => assignment'[b] = assignment[b]
    BY <2>2 DEF PresetInv, ResultTables
  <2>5. assignment'[a] \in AssignmentRow /\ assignment'[a].category = c
    BY <2>3, <2>4 DEF AssignmentRow, Existence
  <2>6. ResultTables'
    BY <1>1, <2>2, <2>4, <2>5 DEF PresetInv, ResultTables
  <2>7. ~Known(a) /\ ~AssignmentThere(a)
    BY <2>2 DEF Known, AssignmentThere, NoAssignment
  <2>8. Placed'
    BY <1>1, <2>2, <2>4, <2>5 DEF PresetInv, Placed, CategoryThere, AssignmentThere
  <2>9. PresetsLast
    BY <1>1, <2>4, <2>7 DEF PresetsLast, Known, AssignmentThere, Presets
  <2> QED
    BY <1>1, <2>4, <2>6, <2>7, <2>8, <2>9, ShapesStep DEF AssignmentThere
<1> QED
  BY <1>2, <1>3

LEMMA UpdateAssignmentStep ==
    ASSUME IInv, PresetInv, UNCHANGED enrolled, NEW r \in Requests, UpdateAssignment(r) PROVE PresetInv'
<1>1. UNCHANGED <<category, result>> /\ Reply(r)
  BY DEF UpdateAssignment
<1>2. CASE UNCHANGED <<assignment, reshaped>>
  BY <1>1, <1>2, NoResultMoves, ReplyStep
<1>3. CASE ~UNCHANGED <<assignment, reshaped>>
  <2>1. PICK a, c : a = req[r].assignment /\ c = req[r].category
    OBVIOUS
  <2>2. a \in Assignments /\ c \in Categories
    BY <2>1 DEF UpdateAssignment, At, PresetInv, PresetCalls, PresetCallOK
  <2>3. /\ AssignmentThere(a) /\ CategoryThere(c)
        /\ assignment' = [assignment EXCEPT ![a].category = c]
        /\ reshaped' = IF category[c].presets = Presets(a) THEN reshaped ELSE reshaped \cup {a}
    BY <1>3, <2>1 DEF UpdateAssignment
  <2>4. assignment[a] \in AssignmentRow
    BY <2>2, <2>3, Theres DEF PresetInv
  <2>5. /\ assignment'[a] \in AssignmentRow /\ assignment'[a].category = c /\ assignment'[a].state = "there"
        /\ \A b : b # a => assignment'[b] = assignment[b]
    BY <2>2, <2>3, <2>4 DEF AssignmentRow, AssignmentThere, PresetInv, ResultTables
  <2>6. ResultTables'
    BY <1>1, <2>2, <2>3, <2>5 DEF PresetInv, ResultTables
  <2>7. Placed'
    BY <1>1, <2>3, <2>5 DEF PresetInv, Placed, CategoryThere, AssignmentThere
  <2>8. ASSUME NEW b \in Assignments, AssignmentThere(b)', b \notin reshaped'
        PROVE  AssignmentThere(b) /\ b \notin reshaped /\ Presets(b)' = Presets(b)
    BY <1>1, <2>3, <2>5, <2>8 DEF Presets, AssignmentThere
  <2>9. PresetsLast
    BY <2>5, <2>8 DEF PresetsLast, Known
  <2> QED
    BY <1>1, <2>5, <2>6, <2>7, <2>9, ShapesStep DEF AssignmentThere
<1> QED
  BY <1>2, <1>3

\* An assignment that is deleted leaves with its results, and only if no transaction has touched them.
LEMMA Dropped ==
    ASSUME PresetInv, NEW as \in SUBSET Assignments, AssignmentsFree(as), UNCHANGED <<reshaped, enrolled>>,
           assignment' = Unassigned(as), result' = Erased(as),
           category' \in [Categories -> CategoryRow \cup {NoCategory}],
           \A a \in as : AssignmentThere(a),
           \A a \in Assignments \ as : AssignmentThere(a) => category'[assignment[a].category] = category[assignment[a].category]
    PROVE  /\ ResultTables' /\ Placed' /\ ResultsAreOfPresets' /\ PresetsLast
           /\ \A s \in Requests : req[s].op = "strictBulkResults" => StillChecked(req[s])
<1>1. ASSUME NEW a \in Assignments \ as PROVE assignment'[a] = assignment[a] /\ result'[a] = result[a]
  <2>1. assignment'[a] = assignment[a] /\ result'[a] = [t \in Students |-> result[a][t]]
    BY <1>1 DEF Unassigned, Erased
  <2> QED
    BY <1>1, <2>1 DEF PresetInv, ResultTables
<1>2. ASSUME NEW a \in as
      PROVE  /\ assignment'[a] \in AssignmentRow /\ assignment'[a].state = "gone"
             /\ result'[a] \in [Students -> ResultRow] /\ \A t \in Students : ~result'[a][t].there
  <2>1. assignment[a] \in AssignmentRow
    BY <1>2, Theres DEF PresetInv
  <2>2. assignment'[a] = [assignment[a] EXCEPT !.state = "gone"]
        /\ result'[a] = [t \in Students |-> [result[a][t] EXCEPT !.there = FALSE]]
    BY <1>2 DEF Unassigned, Erased
  <2>3. assignment'[a] \in AssignmentRow /\ assignment'[a].state = "gone"
    BY <2>1, <2>2 DEF AssignmentRow, Existence
  <2>4. ASSUME NEW t \in Students PROVE result'[a][t] \in ResultRow /\ ~result'[a][t].there
    <3>1. PICK row : row = result[a][t]
      OBVIOUS
    <3>2. row \in ResultRow
      BY <1>2, <3>1 DEF PresetInv, ResultTables
    <3>3. [row EXCEPT !.there = FALSE] \in ResultRow /\ ~[row EXCEPT !.there = FALSE].there
      BY <3>2 DEF ResultRow
    <3>4. result'[a][t] = [row EXCEPT !.there = FALSE]
      BY <2>2, <3>1
    <3> QED
      BY <3>3, <3>4
  <2>5. result'[a] = [t \in Students |-> result'[a][t]]
    BY <2>2
  <2> QED
    BY <2>3, <2>4, <2>5
<1>3. ResultTables'
  <2>1. assignment' = [a \in Assignments |-> assignment'[a]] /\ result' = [a \in Assignments |-> result'[a]]
    BY DEF Unassigned, Erased
  <2>2. ASSUME NEW a \in Assignments
        PROVE  assignment'[a] \in AssignmentRow \cup {NoAssignment} /\ result'[a] \in [Students -> ResultRow]
    BY <1>1, <1>2 DEF PresetInv, ResultTables
  <2> QED
    BY <2>1, <2>2 DEF ResultTables
<1>4. ASSUME NEW a \in Assignments, AssignmentThere(a)'
      PROVE  /\ a \notin as /\ AssignmentThere(a) /\ CategoryThere(assignment[a].category)'
             /\ Presets(a)' = Presets(a) /\ assignment'[a] = assignment[a]
  <2>1. a \notin as
    BY <1>2, <1>4 DEF AssignmentThere
  <2>2. assignment'[a] = assignment[a] /\ AssignmentThere(a)
    BY <1>1, <1>4, <2>1 DEF AssignmentThere
  <2>3. CategoryThere(assignment[a].category)
    BY <2>2 DEF PresetInv, Placed
  <2>4. category'[assignment[a].category] = category[assignment[a].category]
    BY <2>1, <2>2
  <2>5. CategoryThere(assignment[a].category)' /\ Presets(a)' = Presets(a)
    BY <2>2, <2>3, <2>4 DEF CategoryThere, Presets
  <2> QED
    BY <2>1, <2>2, <2>5
<1>5. Placed'
  BY <1>4 DEF Placed
<1>6. ResultsAreOfPresets'
  <2>1. ASSUME NEW a \in Assignments, NEW t \in Students, result'[a][t].there
        PROVE  /\ AssignmentThere(a)' /\ CategoryThere(assignment[a].category)' /\ t \in enrolled
               /\ a \notin reshaped => result'[a][t].index < Presets(a)'
    <3>1. a \notin as
      BY <1>2, <2>1
    <3>2. assignment'[a] = assignment[a] /\ result'[a] = result[a]
      BY <1>1, <3>1
    <3>3. AssignmentThere(a) /\ t \in enrolled /\ (a \notin reshaped => result[a][t].index < Presets(a))
      BY <2>1, <3>2 DEF PresetInv, ResultsAreOfPresets
    <3>4. AssignmentThere(a)'
      BY <3>2, <3>3 DEF AssignmentThere
    <3> QED
      BY <1>4, <3>2, <3>3, <3>4
  <2> QED
    BY <2>1 DEF ResultsAreOfPresets
<1>7. PresetsLast
  <2>1. ASSUME NEW a \in Assignments, Known(a) PROVE Known(a)'
    BY <1>1, <1>2, <2>1 DEF Known
  <2> QED
    BY <1>4, <2>1 DEF PresetsLast
<1>8. ASSUME NEW s \in Requests, req[s].op = "strictBulkResults" PROVE StillChecked(req[s])
  <2>1. PICK q : q = req[s]
    OBVIOUS
  <2>2. q.op = "strictBulkResults" /\ BulkCall(q)
    BY <1>8, <2>1 DEF PresetInv, PresetCalls, PresetCallOK, BulkOps
  <2>3. ASSUME NEW i \in 1 .. q.done, AssignmentThere(q.items[i].assignment)
        PROVE  AssignmentThere(q.items[i].assignment)'
    <3>1. q.items[i].assignment \in Assignments /\ q.items[i].seat \in Students
      BY <2>2, Items
    <3>2. HoldsResult(s, q.items[i].assignment, q.items[i].seat)
      BY <2>1, <2>2 DEF HoldsResult
    <3>3. PICK a : a = q.items[i].assignment
      OBVIOUS
    <3>4. a \in Assignments \ as
      BY <3>1, <3>2, <3>3 DEF AssignmentsFree
    <3>5. assignment'[a] = assignment[a] /\ AssignmentThere(a)
      BY <1>1, <2>3, <3>3, <3>4
    <3> QED
      BY <3>3, <3>5 DEF AssignmentThere
  <2>4. \A i \in 1 .. q.done : q.items[i].seat \in enrolled => q.items[i].seat \in enrolled'
    OBVIOUS
  <2> QED
    <3>1. StillChecked(q)
      BY <2>3, <2>4 DEF StillChecked
    <3> QED
      BY <2>1, <3>1
<1> QED
  BY <1>3, <1>5, <1>6, <1>7, <1>8

LEMMA DeleteAssignmentStep ==
    ASSUME IInv, PresetInv, UNCHANGED enrolled, DeleteAssignment PROVE PresetInv'
<1>1. UNCHANGED <<req, category, reshaped>>
  BY DEF DeleteAssignment, Serve
<1>2. PICK a \in Assignments : /\ AssignmentThere(a) /\ AssignmentsFree({a})
                               /\ assignment' = Unassigned({a}) /\ result' = Erased({a})
  BY DEF DeleteAssignment
<1>3. category' \in [Categories -> CategoryRow \cup {NoCategory}]
  BY <1>1 DEF PresetInv, ResultTables
<1>4. /\ ResultTables' /\ Placed' /\ ResultsAreOfPresets' /\ PresetsLast
      /\ \A s \in Requests : req[s].op = "strictBulkResults" => StillChecked(req[s])
  BY <1>1, <1>2, <1>3, Dropped
<1>5. PresetCalls'
  BY <1>1, <1>4, StillOffWork, CallsLast DEF PresetInv
<1> QED
  BY <1>4, <1>5 DEF PresetInv

LEMMA DeleteCategoryStep ==
    ASSUME IInv, PresetInv, UNCHANGED enrolled, DeleteCategory PROVE PresetInv'
<1>1. UNCHANGED <<req, reshaped>>
  BY DEF DeleteCategory, Serve
<1>2. PICK c \in Categories : /\ CategoryThere(c) /\ AssignmentsFree(InCategory(c))
                              /\ category' = [category EXCEPT ![c].state = "gone"]
                              /\ assignment' = Unassigned(InCategory(c)) /\ result' = Erased(InCategory(c))
  BY DEF DeleteCategory
<1>3. category[c] \in CategoryRow
  BY <1>2, Theres DEF PresetInv
<1>4. category' \in [Categories -> CategoryRow \cup {NoCategory}] /\ \A d \in Categories \ {c} : category'[d] = category[d]
  <2>1. [category[c] EXCEPT !.state = "gone"] \in CategoryRow
    BY <1>3 DEF CategoryRow, Existence
  <2>2. category' = [category EXCEPT ![c] = [category[c] EXCEPT !.state = "gone"]]
    BY <1>2 DEF PresetInv, ResultTables
  <2> QED
    BY <2>1, <2>2 DEF PresetInv, ResultTables
<1>5. ASSUME NEW a \in Assignments \ InCategory(c), AssignmentThere(a)
      PROVE  category'[assignment[a].category] = category[assignment[a].category]
  <2>1. assignment[a].category \in Categories
    BY <1>5, Theres DEF PresetInv, AssignmentRow
  <2>2. assignment[a].category # c
    BY <1>5 DEF InCategory
  <2> QED
    BY <1>4, <2>1, <2>2
<1>6. InCategory(c) \in SUBSET Assignments /\ \A a \in InCategory(c) : AssignmentThere(a)
  BY DEF InCategory
<1>7. /\ ResultTables' /\ Placed' /\ ResultsAreOfPresets' /\ PresetsLast
      /\ \A s \in Requests : req[s].op = "strictBulkResults" => StillChecked(req[s])
  BY <1>1, <1>2, <1>4, <1>5, <1>6, Dropped
<1>8. PresetCalls'
  BY <1>1, <1>7, StillOffWork, CallsLast DEF PresetInv
<1> QED
  BY <1>7, <1>8 DEF PresetInv

\* The rest of the classwork, and the handlers of the lecture.
LEMMA ClassworkPresets == ASSUME IInv, PresetInv, UNCHANGED lectureVars, ClassworkNext PROVE PresetInv'
<1>1. UNCHANGED enrolled
  BY DEF lectureVars
<1>2. ASSUME NEW r \in Requests,
             \/ BeginCreateCategory(r) \/ BeginUpdateCategory(r) \/ BeginCreateAssignment(r) \/ BeginUpdateAssignment(r)
             \/ BeginCreateResult(r) \/ BeginUpdateResult(r) \/ BeginDeleteResult(r) \/ BeginBulk(r)
      PROVE  PresetInv'
  <2>1. UNCHANGED <<category, assignment, result, reshaped>>
    BY <1>2 DEF BeginCreateCategory, BeginUpdateCategory, BeginCreateAssignment, BeginUpdateAssignment, BeginCreateResult,
       BeginUpdateResult, BeginDeleteResult, BeginBulk, classworkVars
  <2> QED
    BY <1>1, <1>2, <2>1, BeginClassworkStep DEF RowsRest
<1>3. ASSUME NEW r \in Requests,
             \/ BeginAttendance(r) \/ BeginBulkAttendance(r) \/ BeginDeleteAttendance(r)
             \/ CheckAttendance(r) \/ WriteAttendance(r) \/ EraseAttendance(r)
      PROVE  PresetInv'
  BY <1>1, <1>3, AttendanceOffWork, OffWorkStep DEF RowsRest
<1>4. ASSUME NEW r \in Requests,
             \/ CreateCategory(r) \/ UpdateCategory(r) \/ CreateAssignment(r) \/ UpdateAssignment(r)
             \/ CreateResult(r) \/ ChangeResult(r) \/ BulkItem(r) \/ EndBulk(r)
      PROVE  PresetInv'
  BY <1>1, <1>4, CreateCategoryStep, UpdateCategoryStep, CreateAssignmentStep, UpdateAssignmentStep, CreateResultStep,
     ChangeResultStep, BulkItemStep, EndBulkStep
<1> QED
  BY <1>1, <1>2, <1>3, <1>4, DeleteCategoryStep, DeleteAssignmentStep DEF ClassworkNext

LEMMA LecturePresets ==
    ASSUME IInv, PresetInv, UNCHANGED classworkVars,
           UpdateLecture \/ DeleteLecture \/ StartTimePasses \/ \E r \in Requests : BeginRemoval(r)
    PROVE  PresetInv'
<1>1. RowsRest
  BY DEF RowsRest, classworkVars, UpdateLecture, DeleteLecture, StartTimePasses, BeginRemoval, lectureVars
<1>2. CASE UpdateLecture \/ DeleteLecture \/ StartTimePasses
  BY <1>1, <1>2, StillOffWork, OffWorkStep DEF UpdateLecture, DeleteLecture, StartTimePasses, Serve, serverVars
<1>3. ASSUME NEW r \in Requests, BeginRemoval(r) PROVE PresetInv'
  BY <1>1, <1>3, BeginsOffWork, OffWorkStep DEF BeginRemoval, ClassworkOps
<1> QED
  BY <1>2, <1>3

\* The results of a seat go with it, and no transaction has touched one.
LEMMA WithdrawPresets == ASSUME IInv, PresetInv, NEW r \in Requests, Withdraw(r) PROVE PresetInv'
<1>1. PICK seat : seat = req[r].seat
  OBVIOUS
<1>2. /\ enrolled' = enrolled \ {seat} /\ UNCHANGED <<category, assignment, reshaped>>
      /\ \A a \in Assignments, q \in Requests : ~HoldsResult(q, a, seat)
      /\ result' = [a \in Assignments |-> [result[a] EXCEPT ![seat].there = FALSE]]
  BY <1>1 DEF Withdraw, RemoveSeat, ClassworkForgets
<1>3. \A s \in Requests : OffWork(s)
  <2>1. Turns({"none", "statistics"})
    BY OvertakingTurns DEF Withdraw, RemovalOvertakes
  <2> QED
    BY <2>1, TurnsOffWork DEF ClassworkOps
<1>4. ASSUME NEW a \in Assignments, NEW t \in Students
      PROVE  /\ result'[a][t] \in ResultRow
             /\ result'[a][t].there => t # seat /\ result'[a][t] = result[a][t]
  <2>1. PICK row : row = result[a][t]
    OBVIOUS
  <2>2. row \in ResultRow
    BY <1>4, <2>1 DEF PresetInv, ResultTables
  <2>3. result'[a][t] = IF t = seat THEN [row EXCEPT !.there = FALSE] ELSE row
    BY <1>2, <2>1 DEF PresetInv, ResultTables
  <2>4. [row EXCEPT !.there = FALSE] \in ResultRow /\ ~[row EXCEPT !.there = FALSE].there
    BY <2>2 DEF ResultRow
  <2> QED
    BY <2>1, <2>2, <2>3, <2>4
<1>5. ResultTables'
  <2>1. ASSUME NEW a \in Assignments PROVE result'[a] \in [Students -> ResultRow]
    <3>1. result'[a] = [t \in Students |-> result'[a][t]]
      BY <1>2 DEF PresetInv, ResultTables
    <3> QED
      BY <1>4, <3>1
  <2> QED
    BY <1>2, <2>1 DEF PresetInv, ResultTables
<1>6. Placed'
  BY <1>2 DEF PresetInv, Placed, AssignmentThere, CategoryThere
<1>7. ResultsAreOfPresets'
  <2>1. ASSUME NEW a \in Assignments, NEW t \in Students, result'[a][t].there
        PROVE  /\ AssignmentThere(a) /\ CategoryThere(assignment[a].category) /\ t \in enrolled'
               /\ a \notin reshaped => result'[a][t].index < Presets(a)
    BY <1>2, <1>4, <2>1 DEF PresetInv, ResultsAreOfPresets
  <2> QED
    BY <1>2, <2>1 DEF ResultsAreOfPresets, AssignmentThere, CategoryThere, Presets
<1>8. ASSUME NEW s \in Requests, req[s].op = "strictBulkResults" PROVE StillChecked(req[s])
  <2>1. PICK q : q = req[s]
    OBVIOUS
  <2>2. q.op = "strictBulkResults" /\ BulkCall(q)
    BY <1>8, <2>1 DEF PresetInv, PresetCalls, PresetCallOK, BulkOps
  <2>3. ASSUME NEW i \in 1 .. q.done PROVE q.items[i].seat # seat
    <3>1. q.items[i].assignment \in Assignments
      BY <2>2, Items
    <3>2. HoldsResult(s, q.items[i].assignment, q.items[i].seat)
      BY <2>1, <2>2 DEF HoldsResult
    <3> QED
      BY <1>2, <3>1, <3>2
  <2>4. StillChecked(q)
    BY <1>2, <2>3 DEF StillChecked, AssignmentThere
  <2> QED
    BY <2>1, <2>4
<1>9. PresetCalls'
  BY <1>2, <1>3, <1>8, RestLasts, CallsLast DEF PresetInv
<1> QED
  BY <1>5, <1>6, <1>7, <1>9 DEF PresetInv

LEMMA NextPresets == ASSUME IInv, PresetInv, [Next]_vars PROVE PresetInv'
<1>1. CASE UNCHANGED vars
  BY <1>1, StillOffWork, OffWorkStep DEF vars, serverVars, classworkVars, lectureVars, RowsRest
<1>2. CASE (UpdateLecture \/ DeleteLecture \/ StartTimePasses \/ \E r \in Requests : BeginRemoval(r))
           /\ UNCHANGED <<gradingVars, classworkVars, shown>>
  BY <1>2, LecturePresets
<1>3. CASE GradingNext /\ UNCHANGED <<lectureVars, classworkVars>>
  BY <1>3, GradingOffWork, OffWorkStep DEF lectureVars, classworkVars, RowsRest
<1>4. CASE ClassworkNext /\ UNCHANGED <<lectureVars, gradingVars>>
  BY <1>4, ClassworkPresets
<1>5. CASE (\E r \in Requests : BeginShow(r) \/ ReadLinks(r) \/ SaveLinks(r))
           /\ UNCHANGED <<lectureVars, gradingVars, classworkVars>>
  BY <1>5, ShowOffWork, OffWorkStep DEF lectureVars, classworkVars, RowsRest
<1>6. CASE \E r \in Requests : Withdraw(r)
  BY <1>6, WithdrawPresets
<1>7. CASE \E r \in Requests : Abort(r) /\ UNCHANGED <<lectureVars, gradingVars, classworkVars, shown>>
  BY <1>7, ReplyOffWork, OffWorkStep DEF Abort, lectureVars, classworkVars, RowsRest
<1> QED
  BY <1>1, <1>2, <1>3, <1>4, <1>5, <1>6, <1>7 DEF Next

LEMMA InitPresets == Init => PresetInv
<1> SUFFICES ASSUME Init PROVE PresetInv
  OBVIOUS
<1>1. req = [r \in Requests |-> Idle] /\ ClassworkInit
  BY DEF Init, ServerInit
<1>2. PresetCalls
  BY <1>1, IdleCall, OtherCall DEF PresetCalls
<1>3. result \in [Assignments -> [Students -> ResultRow]] /\ \A a \in Assignments, s \in Students : ~result[a][s].there
  BY <1>1 DEF ClassworkInit, NoResult, ResultRow
<1>4. CASE category = [c \in Categories |-> NoCategory] /\ assignment = [a \in Assignments |-> NoAssignment]
  BY <1>2, <1>3, <1>4 DEF PresetInv, ResultTables, Placed, ResultsAreOfPresets, AssignmentThere, NoAssignment
<1>5. ASSUME NEW c \in Categories, NEW a \in Assignments, NEW name \in Names, NEW presets \in PresetCounts,
             category = [d \in Categories |-> IF d = c THEN [state |-> "there", name |-> name, presets |-> presets]
                                              ELSE NoCategory],
             assignment = [b \in Assignments |-> IF b = a THEN [state |-> "there", category |-> c] ELSE NoAssignment]
      PROVE  PresetInv
  <2>1. category \in [Categories -> CategoryRow \cup {NoCategory}] /\ CategoryThere(c)
    BY <1>5 DEF CategoryRow, Existence, CategoryThere
  <2>2. assignment \in [Assignments -> AssignmentRow \cup {NoAssignment}]
    BY <1>5 DEF AssignmentRow, Existence
  <2>3. Placed
    BY <1>5, <2>1 DEF Placed, AssignmentThere, NoAssignment
  <2> QED
    BY <1>2, <1>3, <2>1, <2>2, <2>3 DEF PresetInv, ResultTables, ResultsAreOfPresets
<1> QED
  BY <1>1, <1>4, <1>5 DEF ClassworkInit

\* A result belongs to a seat and an assignment that exist, and its index to the presets of the
\* assignment's category, unless the presets changed after the assignment was created: bulk requests
\* that remember presets, rows checked before they are written, and deletions of categories,
\* assignments and seats at any moment between break none of it.
THEOREM ResultsFitPresets == Spec => []ResultsAreOfPresets
<1>1. IInv /\ PresetInv /\ [Next]_vars => PresetInv'
  BY NextPresets
<1>2. Spec => []PresetInv
  BY <1>1, InitPresets, Invariance, PTL DEF Spec
<1>3. PresetInv => ResultsAreOfPresets
  BY DEF PresetInv
<1> QED
  BY <1>2, <1>3, PTL

-----------------------------------------------------------------------------
(***************************************************************************)
(* The assignments on the report.  Every link that is not on the list of a *)
(* request was among those it read, until another list is saved.           *)
(***************************************************************************)
ShowOK(q) == q.op = "showAssignments" /\ q.step = "save" =>
    /\ {"list", "drop", "overtaken"} \subseteq DOMAIN q
    /\ q.overtaken # TRUE => shown \ q.list \subseteq q.drop
LinksInv ==
    /\ \A r \in Requests : ShowOK(req[r])
    /\ \A a \in shown : AssignmentThere(a)
    /\ exam.status = "DELETED" => shown = {}

\* The handlers of the classwork turn their requests to nothing but themselves.
LEMMA ClassworkTurns ==
    ASSUME IInv, ClassworkNext PROVE Turns(ClassworkOps \cup AttendanceOps \cup {"none"})
<1>a. PICK ops : ops = ClassworkOps \cup AttendanceOps \cup {"none"}
  OBVIOUS
<1>1. /\ {"createCategory", "updateCategory", "createAssignment", "updateAssignment"} \subseteq ops
      /\ {"createResult", "updateResult", "deleteResult", "bulkResults", "strictBulkResults"} \subseteq ops
      /\ {"attendance", "bulkAttendance", "deleteAttendance", "none"} \subseteq ops
  BY <1>a DEF ClassworkOps, AttendanceOps
<1>b. ASSUME NEW r \in Requests, NEW op, NEW q, Begin(r, op, q), q.op \in ops PROVE Turns(ops)
  BY <1>b, BeginsTurn
<1>2. ASSUME DeleteCategory \/ DeleteAssignment PROVE Turns(ops)
  BY <1>2, StillTurns DEF DeleteCategory, DeleteAssignment, Serve
<1>3. ASSUME NEW r \in Requests, Reply(r) PROVE Turns(ops)
  BY <1>1, <1>3, ReplyTurns
<1>4. ASSUME NEW r \in Requests, BeginCreateCategory(r) \/ BeginUpdateCategory(r) \/ BeginCreateAssignment(r) PROVE Turns(ops)
  BY <1>1, <1>4, <1>b DEF BeginCreateCategory, BeginUpdateCategory, BeginCreateAssignment
<1>5. ASSUME NEW r \in Requests, BeginUpdateAssignment(r) \/ BeginCreateResult(r) \/ BeginUpdateResult(r) PROVE Turns(ops)
  BY <1>1, <1>5, <1>b DEF BeginUpdateAssignment, BeginCreateResult, BeginUpdateResult
<1>6. ASSUME NEW r \in Requests, BeginDeleteResult(r) \/ BeginBulk(r) PROVE Turns(ops)
  BY <1>1, <1>6, <1>b DEF BeginDeleteResult, BeginBulk
<1>7. ASSUME NEW r \in Requests, BeginAttendance(r) \/ BeginBulkAttendance(r) \/ BeginDeleteAttendance(r) PROVE Turns(ops)
  BY <1>1, <1>7, <1>b DEF BeginAttendance, BeginBulkAttendance, BeginDeleteAttendance
<1>8. ASSUME NEW r \in Requests, BulkItem(r) PROVE Turns(ops)
  <2>1. Reply(r) \/ Proceed(r, AfterItem(req[r]))
    BY <1>8 DEF BulkItem
  <2>2. AfterItem(req[r]).op \in ops
    BY <1>1, <1>8 DEF BulkItem, AfterItem, IInv, RequestsOK, RequestOK
  <2> QED
    BY <1>3, <2>1, <2>2, MovesTurn
<1>9. ASSUME NEW r \in Requests, CheckAttendance(r) PROVE Turns(ops)
  <2>1. Reply(r) \/ Proceed(r, [req[r] EXCEPT !.step = "write"])
    BY <1>9 DEF CheckAttendance
  <2>2. [req[r] EXCEPT !.step = "write"].op \in ops
    BY <1>1, <1>9 DEF CheckAttendance, IInv, RequestsOK, RequestOK
  <2> QED
    BY <1>3, <2>1, <2>2, MovesTurn
<1>10. ASSUME NEW r \in Requests,
              \/ CreateCategory(r) \/ UpdateCategory(r) \/ CreateAssignment(r) \/ UpdateAssignment(r) \/ CreateResult(r)
              \/ ChangeResult(r) \/ EndBulk(r) \/ WriteAttendance(r) \/ EraseAttendance(r)
       PROVE  Turns(ops)
  BY <1>3, <1>10 DEF CreateCategory, UpdateCategory, CreateAssignment, UpdateAssignment, CreateResult, ChangeResult, EndBulk,
     WriteAttendance, EraseAttendance
<1>11. Turns(ops)
  BY <1>2, <1>4, <1>5, <1>6, <1>7, <1>8, <1>9, <1>10 DEF ClassworkNext
<1> QED
  BY <1>a, <1>11

\* Other requests leave what was read of the links right as long as no link is added.
LEMMA ShowLasts ==
    ASSUME LinksInv, NEW ops, Turns(ops), "showAssignments" \notin ops, shown' \subseteq shown, NEW r \in Requests
    PROVE  ShowOK(req[r])'
<1>1. CASE req'[r] = req[r]
  <2>1. PICK q : q = req[r]
    OBVIOUS
  <2>2. ShowOK(q)
    BY <2>1 DEF LinksInv
  <2>3. ShowOK(q)'
    BY <2>2 DEF ShowOK
  <2> QED
    BY <1>1, <2>1, <2>3
<1>2. CASE req'[r].op \in ops
  BY <1>2 DEF ShowOK
<1> QED
  BY <1>1, <1>2 DEF Turns

LEMMA LinksRest ==
    ASSUME LinksInv, NEW ops, Turns(ops), "showAssignments" \notin ops, UNCHANGED <<shown, assignment, exam>> PROVE LinksInv'
<1>1. \A r \in Requests : ShowOK(req[r])'
  BY ShowLasts
<1> QED
  BY <1>1 DEF LinksInv, AssignmentThere

LEMMA LinksCut == ASSUME LinksInv, NEW ops, Turns(ops), "showAssignments" \notin ops, Unlink PROVE LinksInv'
<1>1. shown' \subseteq shown
  BY DEF Unlink
<1>2. \A r \in Requests : ShowOK(req[r])'
  BY <1>1, ShowLasts
<1>3. (\A a \in shown : AssignmentThere(a))' /\ (exam.status = "DELETED" => shown = {})'
  BY DEF Unlink, AssignmentThere
<1> QED
  BY <1>2, <1>3 DEF LinksInv

LEMMA ReadLinksStep == ASSUME IInv, LinksInv, UNCHANGED <<assignment, exam>>, NEW r \in Requests, ReadLinks(r) PROVE LinksInv'
<1>1. PICK q : q = [op |-> "showAssignments", step |-> "save", list |-> req[r].list, drop |-> shown \ req[r].list,
                    overtaken |-> FALSE]
  OBVIOUS
<1>2. Proceed(r, q) /\ shown' = shown
  BY <1>1 DEF ReadLinks
<1>3. ShowOK(q)
  BY <1>1 DEF ShowOK
<1>4. ASSUME NEW s \in Requests PROVE ShowOK(req[s])'
  <2>1. PICK p : p = req'[s]
    OBVIOUS
  <2>2. p = q \/ p = req[s]
    BY <1>2, <2>1 DEF Proceed, IInv, RequestsOK
  <2>3. ShowOK(p)
    BY <1>3, <2>2 DEF LinksInv
  <2>4. ShowOK(p)'
    BY <1>2, <2>3 DEF ShowOK
  <2> QED
    BY <2>1, <2>4
<1> QED
  BY <1>2, <1>4 DEF LinksInv, AssignmentThere

\* Whoever saves a list overtakes those that are about to save theirs.
LEMMA SaveLinksStep == ASSUME IInv, LinksInv, UNCHANGED <<assignment, exam>>, NEW r \in Requests, SaveLinks(r) PROVE LinksInv'
<1>1. CASE shown' = shown /\ Reply(r)
  BY <1>1, ReplyTurns, LinksRest
<1>2. CASE ExamExists /\ (\A a \in req[r].list : AssignmentThere(a)) /\ shown' = Relinked(req[r]) /\ OvertakeLinks(r)
  <2>1. ASSUME NEW s \in Requests PROVE ShowOK(req[s])'
    <3>1. CASE s = r
      BY <1>2, <3>1 DEF OvertakeLinks, ShowOK, Idle
    <3>2. CASE s # r /\ ~At(s, "showAssignments", "save")
      BY <1>2, <3>2 DEF OvertakeLinks, ShowOK, At
    <3>3. CASE s # r /\ At(s, "showAssignments", "save")
      <4>1. {"list", "drop", "overtaken"} \subseteq DOMAIN req[s]
        BY <3>3 DEF LinksInv, ShowOK, At
      <4>2. req'[s] = [req[s] EXCEPT !.drop = @ \ req[r].drop, !.overtaken = TRUE]
        BY <1>2, <3>3 DEF OvertakeLinks
      <4>3. DOMAIN req'[s] = DOMAIN req[s] /\ req'[s].overtaken = TRUE
        BY <4>1, <4>2
      <4> QED
        BY <4>1, <4>3 DEF ShowOK
    <3> QED
      BY <3>1, <3>2, <3>3
  <2>2. exam'.status # "DELETED"
    BY <1>2 DEF ExamExists
  <2>3. \A a \in shown' : AssignmentThere(a)'
    BY <1>2 DEF Relinked, LinksInv, AssignmentThere
  <2> QED
    BY <2>1, <2>2, <2>3 DEF LinksInv
<1> QED
  BY <1>1, <1>2 DEF SaveLinks

LEMMA NextLinks == ASSUME IInv, LinksInv, [Next]_vars PROVE LinksInv'
<1> USE LinksRest
<1>1. CASE UNCHANGED vars
  <2>1. Turns({})
    BY <1>1, StillTurns DEF vars, serverVars
  <2> QED
    BY <1>1, <2>1 DEF vars, classworkVars, gradingVars
<1>2. CASE (UpdateLecture \/ DeleteLecture \/ StartTimePasses \/ \E r \in Requests : BeginRemoval(r))
           /\ UNCHANGED <<gradingVars, classworkVars, shown>>
  <2>1. ASSUME NEW r \in Requests, BeginRemoval(r) PROVE Turns({"removeSeat"})
    BY <2>1, BeginsTurn DEF BeginRemoval
  <2>2. CASE UpdateLecture \/ DeleteLecture \/ StartTimePasses
    <3>1. UNCHANGED req
      BY <2>2 DEF UpdateLecture, DeleteLecture, StartTimePasses, Serve, serverVars
    <3>2. Turns({"removeSeat"})
      BY <3>1 DEF Turns
    <3> QED
      BY <1>2, <3>2 DEF classworkVars, gradingVars
  <2> QED
    BY <1>2, <2>1, <2>2 DEF classworkVars, gradingVars
<1>3. CASE GradingNext /\ UNCHANGED <<lectureVars, classworkVars>> /\ Unlink
  BY <1>3, GradingTurns, LinksCut DEF ExamOps
<1>4. CASE ClassworkNext /\ UNCHANGED <<lectureVars, gradingVars>> /\ Unlink
  <2>1. "showAssignments" \notin ClassworkOps \cup AttendanceOps \cup {"none"}
    BY DEF ClassworkOps, AttendanceOps
  <2> QED
    BY <1>4, <2>1, ClassworkTurns, LinksCut
<1>5. ASSUME NEW r \in Requests, BeginShow(r) \/ ReadLinks(r) \/ SaveLinks(r),
             UNCHANGED <<lectureVars, gradingVars, classworkVars>>
      PROVE  LinksInv'
  <2>1. UNCHANGED <<assignment, exam>>
    BY <1>5 DEF classworkVars, gradingVars
  <2>2. CASE BeginShow(r)
    <3>1. ASSUME NEW s \in Requests PROVE ShowOK(req[s])'
      <4>1. CASE req'[s] = req[s]
        <5>1. PICK q : q = req[s]
          OBVIOUS
        <5>2. ShowOK(q)
          BY <5>1 DEF LinksInv
        <5>3. ShowOK(q)'
          BY <2>2, <5>2 DEF ShowOK, BeginShow
        <5> QED
          BY <4>1, <5>1, <5>3
      <4>2. CASE req'[s].step = "links"
        BY <4>2 DEF ShowOK
      <4> QED
        BY <2>2, <4>1, <4>2 DEF BeginShow, Begin, IInv, RequestsOK
    <3> QED
      BY <2>1, <2>2, <3>1 DEF LinksInv, BeginShow, AssignmentThere
  <2> QED
    BY <1>5, <2>1, <2>2, ReadLinksStep, SaveLinksStep
<1>6. ASSUME NEW r \in Requests, Withdraw(r) PROVE LinksInv'
  <2>1. Turns({"none", "statistics"})
    BY <1>6, OvertakingTurns DEF Withdraw, RemovalOvertakes
  <2>2. UNCHANGED <<shown, assignment, exam>>
    BY <1>6 DEF Withdraw, GradingForgets, ClassworkForgets
  <2> QED
    BY <2>1, <2>2
<1>7. ASSUME NEW r \in Requests, Abort(r), UNCHANGED <<lectureVars, gradingVars, classworkVars, shown>> PROVE LinksInv'
  <2>1. Turns({"none"})
    BY <1>7, ReplyTurns DEF Abort
  <2> QED
    BY <1>7, <2>1 DEF classworkVars, gradingVars
<1> QED
  BY <1>1, <1>2, <1>3, <1>4, <1>5, <1>6, <1>7 DEF Next

LEMMA InitLinks == Init => LinksInv
  BY DEF Init, ServerInit, LinksInv, ShowOK, Idle

\* A link that goes without the exam or an assignment changing goes with a list that is saved.
LEMMA SavedIsTheList ==
    ASSUME IInv, LinksInv, [Next]_vars, NEW r \in Requests, At(r, "showAssignments", "save"), req[r].overtaken # TRUE,
           shown' # shown, req'[r] = Idle, UNCHANGED <<exam, assignment>>
    PROVE  shown' = req[r].list
<1>1. ~Unlink
  BY DEF Unlink, LinksInv, AssignmentThere
<1>2. PICK s \in Requests : SaveLinks(s)
  BY <1>1 DEF Next, vars, BeginShow, ReadLinks, Withdraw
<1>3. shown' = Relinked(req[s]) /\ OvertakeLinks(s)
  BY <1>2 DEF SaveLinks
<1>4. s = r
  <2>1. SUFFICES ASSUME s # r PROVE FALSE
    OBVIOUS
  <2>2. req'[r] = [req[r] EXCEPT !.drop = @ \ req[s].drop, !.overtaken = TRUE]
    BY <1>3, <2>1 DEF OvertakeLinks
  <2>3. req'[r].op = "showAssignments"
    BY <2>2 DEF At, IInv, RequestsOK, RequestOK
  <2> QED
    BY <2>3 DEF Idle
<1>5. shown \ req[r].list \subseteq req[r].drop
  BY DEF LinksInv, ShowOK, At
<1> QED
  BY <1>3, <1>4, <1>5 DEF Relinked

\* What is saved as the report's assignments is the list of the request, unless another list was saved
\* since the links were read, however the requests interleave with deletions of assignments, seats and
\* the exam.
THEOREM SavedListIsShown == Spec => ReportShowsList
<1>1. IInv /\ LinksInv /\ [Next]_vars => LinksInv'
  BY NextLinks
<1>2. Spec => []LinksInv
  BY <1>1, InitLinks, Invariance, PTL DEF Spec
<1>3. IInv /\ LinksInv /\ [Next]_vars =>
        [\A r \in Requests :
           At(r, "showAssignments", "save") /\ ~req[r].overtaken /\ shown' # shown /\ req'[r] = Idle /\ exam' = exam
           /\ assignment' = assignment => shown' = req[r].list]_vars
  BY SavedIsTheList
<1> QED
  BY <1>2, <1>3, Invariance, PTL DEF Spec, ReportShowsList
=============================================================================
