------------------------------- MODULE School -------------------------------
(***************************************************************************)
(* Accounts, Roster, Board, Library and Planner together: the accounts     *)
(* that come and go under the instructor's roster, the questions asked     *)
(* from it, and what the instructor files, announces, plans and buys.      *)
(***************************************************************************)
EXTENDS Library, Planner

vars == <<serverVars, accountVars, rosterVars, boardVars, libraryVars, plannerVars>>

TypeOK == AccountsTypeOK /\ RosterTypeOK /\ BoardTypeOK /\ LibraryTypeOK /\ PlannerTypeOK

(***************************************************************************)
(* A scene starts with nothing, with every e-mail address verified and a   *)
(* code handed out, or with a student and a parent of a class: what        *)
(* sign-ups, a registered child and an enrollment lead to.                 *)
(***************************************************************************)
StartEmpty == scene.start = "empty" /\ AccountsInit /\ RosterInit

StartVerified ==
    /\ scene.start = "verified"
    /\ user = [u \in Users |-> [type |-> "PENDING", password |-> FALSE]]
    /\ session = [u \in Users |-> "PENDING"]
    /\ \E k \in Codes : code = [c \in Codes |-> IF c = k THEN "fresh" ELSE None]
    /\ profiles = {}
    /\ assistant = [u \in Users |-> NoAssistant] /\ admin = [u \in Users |-> NoAdmin]
    /\ RosterInit

StartClass ==
    /\ scene.start = "class"
    /\ \E s, p \in Users, e \in Enrollments, l \in LectureIds, m, n \in Phones :
         LET types == [u \in Users |-> CASE u = s -> "STUDENT" [] u = p -> "PARENT" [] OTHER -> "PENDING"]
             link == [parent |-> p, child |-> m]
         IN
         /\ s # p /\ m # n
         /\ user = [u \in Users |-> [type |-> types[u], password |-> types[u] # "PENDING"]]
         /\ session = types
         /\ profiles = {[type |-> "STUDENT", user |-> s, phone |-> m, parentPhone |-> n],
                        [type |-> "PARENT", user |-> p, phone |-> n, parentPhone |-> None]}
         /\ assistant = [u \in Users |-> NoAssistant] /\ admin = [u \in Users |-> NoAdmin]
         /\ code = [k \in Codes |-> None]
         /\ links = {link}
         /\ enrollment = [f \in Enrollments |-> IF f # e THEN NoEnrollment ELSE
              [there |-> TRUE, status |-> "ACTIVE", deleted |-> FALSE, phone |-> m, parentPhone |-> n,
               student |-> s, link |-> link, history |-> {}]]
         /\ lectures = [k \in LectureIds |-> IF k = l THEN "there" ELSE None]
         /\ seats = {<<l, e>>}

\* An assistant who works for the instructor, and an enrollment nobody is linked to.
StartStaffed ==
    /\ scene.start = "staffed"
    /\ \E u \in Users, k \in Codes, e \in Enrollments, l \in LectureIds, m, n \in Phones :
         LET types == [v \in Users |-> IF v = u THEN "ASSISTANT" ELSE "PENDING"]
         IN
         /\ m # n
         /\ user = [v \in Users |-> [type |-> types[v], password |-> v = u]]
         /\ session = types
         /\ profiles = {}
         /\ assistant = [v \in Users |-> IF v # u THEN NoAssistant ELSE
              [status |-> "SIGNED", phone |-> m, linked |-> TRUE, deleted |-> FALSE, code |-> k]]
         /\ admin = [v \in Users |-> NoAdmin]
         /\ code = [c \in Codes |-> IF c = k THEN "used" ELSE None]
         /\ links = {}
         /\ enrollment = [f \in Enrollments |-> IF f # e THEN NoEnrollment ELSE
              [NoEnrollment EXCEPT !.there = TRUE, !.phone = m, !.parentPhone = n]]
         /\ lectures = [k2 \in LectureIds |-> IF k2 = l THEN "there" ELSE None]
         /\ seats = {<<l, e>>}

Init ==
    /\ ServerInit /\ BoardInit /\ LibraryInit /\ PlannerInit
    /\ StartEmpty \/ StartVerified \/ StartClass \/ StartStaffed

Next ==
    \/ AccountsNext /\ RosterFollows /\ UNCHANGED <<boardVars, libraryVars, plannerVars>>
    \/ RosterNext /\ UNCHANGED <<boardVars, libraryVars, plannerVars>>
    \/ BoardNext /\ UNCHANGED <<accountVars, rosterVars, libraryVars, plannerVars>>
    \/ LibraryNext /\ UNCHANGED <<accountVars, rosterVars, plannerVars>>
    \/ PlannerNext /\ UNCHANGED <<accountVars, rosterVars, boardVars, libraryVars>>
    \/ \E r \in Requests : BoardAbort(r) /\ UNCHANGED <<accountVars, rosterVars, libraryVars, plannerVars>>

Spec == Init /\ [][Next]_vars

(***************************************************************************)
(* Properties of the parts that hold of all of them alike.                 *)
(***************************************************************************)

\* Every file that a row of the board or of the library names is in S3, with the exceptions named there.
FilesStored == AttachmentsStored /\ LibraryStored

\* What an edit leaves is what its check asked for, unless another edit was saved between the two.
EditsKeepRowsFit == NoticeHasLecture /\ SchedulesInOrder /\ PurchasableAsTyped
=============================================================================
