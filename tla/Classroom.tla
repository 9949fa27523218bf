------------------------------ MODULE Classroom ------------------------------
(***************************************************************************)
(* One lecture with its seats, its exam (Grading) and its classwork        *)
(* (Classwork), and what ties the two together: the assignments that an    *)
(* exam's report shows, and the deletion of a seat, an assignment or the   *)
(* exam, which reaches into both.                                          *)
(***************************************************************************)
EXTENDS Grading, Classwork

VARIABLE shown   \* rows of AssignmentOnExamReport: the assignments on the exam's report

vars == <<serverVars, lectureVars, gradingVars, classworkVars, shown>>

TypeOK == GradingTypeOK /\ ClassworkTypeOK /\ shown \subseteq Assignments

Init == ServerInit /\ LecturesInit /\ GradingInit /\ ClassworkInit /\ shown = {}

(***************************************************************************)
(* updateExamReportAssignments: count the assignments of the list, then in *)
(* a transaction drop the links outside the list and add those of it.      *)
(***************************************************************************)
BeginShow(r) ==
    /\ ExamExists
    /\ \E list \in SUBSET {a \in Assignments : AssignmentThere(a)} :
         Begin(r, "showAssignments", [op |-> "showAssignments", step |-> "links", list |-> list])
    /\ UNCHANGED shown

ReadLinks(r) ==
    /\ At(r, "showAssignments", "links")
    /\ Proceed(r, [op |-> "showAssignments", step |-> "save", list |-> req[r].list, drop |-> shown \ req[r].list,
                   overtaken |-> FALSE])
    /\ UNCHANGED shown

NothingDropped(q) == shown \cup q.list
Relinked(q) == (shown \ q.drop) \cup q.list

\* Links are deleted by the ids that were read: one that comes again is another row.
OvertakeLinks(r) ==
    /\ req' = [q \in Requests |->
                 IF q = r THEN Idle
                 ELSE IF At(q, "showAssignments", "save")
                 THEN [req[q] EXCEPT !.drop = @ \ req[r].drop, !.overtaken = TRUE] ELSE req[q]]
    /\ UNCHANGED <<scene, calls>>

SaveLinks(r) ==
    LET q == req[r] IN
    /\ At(r, "showAssignments", "save")
    /\ IF ExamExists /\ \A a \in q.list : AssignmentThere(a)
       THEN shown' = Relinked(q) /\ OvertakeLinks(r)
       ELSE UNCHANGED shown /\ Reply(r)

(***************************************************************************)
(* A seat goes with all that hangs on it.                                  *)
(***************************************************************************)
Withdraw(r) ==
    LET s == req[r].seat IN
    /\ RemoveSeat(r)
    /\ ~GradeLocked(r, s)
    /\ GradingForgets(s) /\ ClassworkForgets(s)
    /\ RemovalOvertakes(r, s)
    /\ UNCHANGED shown

\* A link goes with its assignment or its exam.
Unlink == shown' = IF exam'.status = "DELETED" THEN {} ELSE {a \in shown : assignment'[a].state = "there"}

Next ==
    \/ /\ \/ UpdateLecture \/ DeleteLecture \/ StartTimePasses
          \/ \E r \in Requests : BeginRemoval(r)
       /\ UNCHANGED <<gradingVars, classworkVars, shown>>
    \/ GradingNext /\ UNCHANGED <<lectureVars, classworkVars>> /\ Unlink
    \/ ClassworkNext /\ UNCHANGED <<lectureVars, gradingVars>> /\ Unlink
    \/ /\ \E r \in Requests : BeginShow(r) \/ ReadLinks(r) \/ SaveLinks(r)
       /\ UNCHANGED <<lectureVars, gradingVars, classworkVars>>
    \/ \E r \in Requests : Withdraw(r)
    \/ \E r \in Requests : Abort(r) /\ UNCHANGED <<lectureVars, gradingVars, classworkVars, shown>>

Spec == Init /\ [][Next]_vars

(***************************************************************************)
(* Properties.                                                             *)
(***************************************************************************)

\* What is saved as the report's assignments is the list of that request, nothing more and nothing
\* less, unless another list was saved after the handler read the links (updateExamReportAssignments
\* removes what it read and does not want).
ReportShowsList ==
    [][\A r \in Requests :
         At(r, "showAssignments", "save") /\ ~req[r].overtaken /\ shown' # shown /\ req'[r] = Idle /\ exam' = exam
         /\ assignment' = assignment => shown' = req[r].list]_vars
=============================================================================
