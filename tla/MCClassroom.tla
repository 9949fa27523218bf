---------------------------- MODULE MCClassroom ----------------------------
(* Instances of Classroom for TLC. *)
EXTENDS GradeViews
Multiple(key, score) == [kind |-> "MULTIPLE", key |-> key, score |-> score]
Essay(score) == [kind |-> "ESSAY", key |-> "A", score |-> score]
ShortPaper == (1 :> Essay(2))
LongPaper == (1 :> Multiple("A", 1)) @@ (2 :> Essay(1))
MCPapers == {ShortPaper, LongPaper}
MCFirstPapers == {ShortPaper}
MCBulks ==
    {<<[assignment |-> a, seat |-> p[1], index |-> 1], [assignment |-> a, seat |-> p[2], index |-> i]>> :
        a \in Assignments, i \in {0, Erase}, p \in {q \in Students \X Students : q[1] # q[2]}}
MCScenes ==
    {[calls |-> 4, ops |-> {"submitGrading", "completeGrading", "updateClinics"}],
     [calls |-> 4, ops |-> {"submitGrading", "completeGrading", "removeSeat"}],
     [calls |-> 3, ops |-> {"submitGrading", "updateExam", "completeGrading"}],
     [calls |-> 3, ops |-> {"createExam", "submitGrading", "statistics"}],
     [calls |-> 4, ops |-> {"submitGrading", "statistics", "removeSeat"}],
     [calls |-> 4, ops |-> {"submitGrading", "statistics", "updateExam"}],
     [calls |-> 4, ops |-> {"submitGrading", "deleteExam", "uploadReport", "describeReport"}],
     [calls |-> 3, ops |-> {"submitGrading", "removeSeat", "updateLecture", "deleteLecture"}],
     [calls |-> 3, ops |-> {"createCategory", "updateCategory", "deleteCategory"}],
     [calls |-> 3, ops |-> {"createAssignment", "updateAssignment", "deleteCategory"}],
     [calls |-> 4, ops |-> {"createAssignment", "updateAssignment", "deleteAssignment", "createResult"}],
     [calls |-> 4, ops |-> {"updateCategory", "createResult", "updateResult", "deleteResult"}],
     [calls |-> 3, ops |-> {"strictBulkResults", "updateCategory", "deleteAssignment"}],
     [calls |-> 2, ops |-> {"bulkResults", "createResult", "updateCategory"}],
     [calls |-> 2, ops |-> {"bulkResults", "strictBulkResults", "createResult", "removeSeat"}],
     [calls |-> 3, ops |-> {"attendance", "bulkAttendance", "updateLecture", "deleteLecture"}],
     [calls |-> 4, ops |-> {"attendance", "deleteAttendance", "updateLecture", "removeSeat"}],
     [calls |-> 4, ops |-> {"showAssignments", "createAssignment", "deleteAssignment", "deleteExam"}]}
MCSymmetry == Permutations(Requests) \cup Permutations(Students) \cup Permutations(Assignments)
=============================================================================
