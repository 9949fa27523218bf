------------------------------ MODULE Lectures ------------------------------
(***************************************************************************)
(* LecturesService and the students' seats in one lecture: its status and  *)
(* start, its soft deletion, and the hard deletion of a seat (a row of     *)
(* LectureEnrollment), which takes every row that hangs on it along.       *)
(***************************************************************************)
EXTENDS Server

CONSTANTS
    Students,         \* lecture enrollments, the seats the lecture was given
    LectureStatuses   \* the statuses updates of the lecture write

ASSUME LecturesAssumption ==
    IsFiniteSet(Students) /\ LectureStatuses \subseteq {"SCHEDULED", "IN_PROGRESS", "COMPLETED"}

VARIABLES
    lecture,    \* the lecture's row
    enrolled    \* seats whose row exists

lectureVars == <<lecture, enrolled>>

\* `opened` is history: the lecture was in progress at some time.
LectureRow == [status: {"SCHEDULED", "IN_PROGRESS", "COMPLETED"}, startAt: {"unset", "future", "past"},
               deleted: BOOLEAN, opened: BOOLEAN]

LecturesTypeOK == lecture \in LectureRow /\ enrolled \subseteq Students

LecturesInit ==
    /\ lecture \in {l \in LectureRow : l.status = "SCHEDULED" /\ ~l.deleted /\ ~l.opened}
    /\ enrolled = Students

\* lecturesRepo.findById finds it.
LectureFound == ~lecture.deleted

UpdateLecture ==
    /\ Serve("updateLecture")
    /\ LectureFound
    /\ \E status \in LectureStatuses \cup {lecture.status}, startAt \in {"unset", "future", "past"} :
         lecture' = [lecture EXCEPT !.status = status, !.startAt = startAt,
                                      !.opened = @ \/ status = "IN_PROGRESS"]
    /\ UNCHANGED enrolled

DeleteLecture ==
    /\ Serve("deleteLecture")
    /\ LectureFound
    /\ lecture' = [lecture EXCEPT !.deleted = TRUE]
    /\ UNCHANGED enrolled

\* The moment of startAt passes.
StartTimePasses ==
    /\ lecture.startAt = "future"
    /\ lecture' = [lecture EXCEPT !.startAt = "past"]
    /\ UNCHANGED <<serverVars, enrolled>>

(***************************************************************************)
(* removeLectureEnrollment: look at the lecture and the seat, then delete. *)
(***************************************************************************)
SeatDeletable == lecture.status = "SCHEDULED" \/ lecture.startAt # "past"

BeginRemoval(r) ==
    /\ LectureFound /\ SeatDeletable
    /\ \E s \in enrolled : Begin(r, "removeSeat", [op |-> "removeSeat", step |-> "delete", seat |-> s])
    /\ UNCHANGED lectureVars

\* The rest of the rows that go with the seat belong to the modules that keep them.
RemoveSeat(r) ==
    /\ At(r, "removeSeat", "delete")
    /\ enrolled' = enrolled \ {req[r].seat}
    /\ UNCHANGED lecture
=============================================================================
