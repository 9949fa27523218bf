----------------------------- MODULE Classwork -----------------------------
(***************************************************************************)
(* AssignmentCategoryService, AssignmentsService, AssignmentResultsService *)
(* and AttendancesService: what a lecture's seats do outside of exams.  A  *)
(* result is an index into the presets of the assignment's category, and   *)
(* attendance is written only while the lecture is in progress.            *)
(***************************************************************************)
EXTENDS Lectures, Sequences

CONSTANTS
    Categories,    \* ids of AssignmentCategory rows, each given out once
    Assignments,   \* ids of Assignment rows, each given out once
    Names,         \* category names
    PresetCounts,  \* lengths of resultPresets in requests
    Bulks,         \* item lists of bulk requests: sequences of [assignment, seat, index]
    Days,          \* dates of attendance
    Marks          \* statuses of attendance that requests write

Erase == -1   \* the resultIndex null of a bulk item

ASSUME ClassworkAssumption ==
    /\ Marks \subseteq {"PRESENT", "LATE", "ABSENT", "EARLY_LEAVE"} /\ Marks # {} /\ IsFiniteSet(Days)
    /\ PresetCounts \subseteq Nat \ {0}
    /\ Bulks \subseteq Seq([assignment: Assignments, seat: Students, index: Nat \cup {Erase}])
    /\ \A bulk \in Bulks : \A i, j \in DOMAIN bulk :
         bulk[i].assignment = bulk[j].assignment /\ bulk[i].seat = bulk[j].seat => i = j

VARIABLES
    category,     \* rows of AssignmentCategory
    assignment,   \* rows of Assignment
    result,       \* rows of AssignmentResult, by assignment and seat
    attendance,   \* rows of Attendance, by seat and date
    reshaped      \* history: assignments whose presets changed after they were created

classworkVars == <<category, assignment, result, attendance, reshaped>>

Existence == {"unused", "there", "gone"}
CategoryRow == [state: Existence, name: Names, presets: PresetCounts]
NoCategory == [state |-> "unused"]
AssignmentRow == [state: Existence, category: Categories]
NoAssignment == [state |-> "unused"]
\* A row that comes again has another id.
ResultRow == [there: BOOLEAN, id: Nat, index: Nat]
NoResult == [there |-> FALSE, id |-> 0, index |-> 0]
AttendanceRow == [there: BOOLEAN, id: Nat, status: Marks \cup {"none"}]
NoAttendance == [there |-> FALSE, id |-> 0, status |-> "none"]

ClassworkTypeOK ==
    /\ category \in [Categories -> CategoryRow \cup {NoCategory}]
    /\ assignment \in [Assignments -> AssignmentRow \cup {NoAssignment}]
    /\ result \in [Assignments -> [Students -> ResultRow]]
    /\ attendance \in [Students -> [Days -> AttendanceRow]]
    /\ reshaped \subseteq Assignments

CategoryThere(c) == category[c].state = "there"
AssignmentThere(a) == assignment[a].state = "there"
Presets(a) == category[assignment[a].category].presets
NamesTaken == {category[c].name : c \in {d \in Categories : CategoryThere(d)}}
InCategory(c) == {a \in Assignments : AssignmentThere(a) /\ assignment[a].category = c}

ClassworkOps ==
    {"createCategory", "updateCategory", "deleteCategory", "createAssignment", "updateAssignment", "deleteAssignment",
     "createResult", "updateResult", "deleteResult", "bulkResults", "strictBulkResults"}

\* The instructor has some categories and an assignment in one of them.
ClassworkInit ==
    /\ IF ClassworkOps \cap scene.ops = {}
       THEN category = [c \in Categories |-> NoCategory] /\ assignment = [a \in Assignments |-> NoAssignment]
       ELSE \E c \in Categories, a \in Assignments, name \in Names, presets \in PresetCounts :
              /\ category = [d \in Categories |-> IF d = c THEN [state |-> "there", name |-> name, presets |-> presets]
                                                  ELSE NoCategory]
              /\ assignment = [b \in Assignments |-> IF b = a THEN [state |-> "there", category |-> c]
                                                     ELSE NoAssignment]
    /\ result = [a \in Assignments |-> [s \in Students |-> NoResult]]
    /\ attendance = [s \in Students |-> [d \in Days |-> NoAttendance]]
    /\ reshaped = {}

(***************************************************************************)
(* Categories.  The name is looked up first; two requests may both miss    *)
(* it, and then the unique key refuses the second.                         *)
(***************************************************************************)
UniqueName(c, name) == \A d \in Categories \ {c} : CategoryThere(d) => category[d].name # name

BeginCreateCategory(r) ==
    /\ \E name \in Names \ NamesTaken, presets \in PresetCounts :
         Begin(r, "createCategory", [op |-> "createCategory", step |-> "insert", name |-> name, presets |-> presets])
    /\ UNCHANGED classworkVars

CreateCategory(r) ==
    /\ At(r, "createCategory", "insert")
    /\ \/ \E c \in Categories :
            /\ category[c] = NoCategory /\ UniqueName(c, req[r].name)
            /\ category' = [category EXCEPT ![c] = [state |-> "there", name |-> req[r].name,
                                                    presets |-> req[r].presets]]
       \/ req[r].name \in NamesTaken /\ UNCHANGED category   \* P2002: 409
    /\ Reply(r)
    /\ UNCHANGED <<assignment, result, attendance, reshaped>>

\* The name or the presets, one of them at least; the name only if no other category seemed to have it.
BeginUpdateCategory(r) ==
    /\ \E c \in Categories : CategoryThere(c) /\
         \E name \in (Names \ NamesTaken) \cup {category[c].name}, presets \in PresetCounts \cup {category[c].presets} :
           Begin(r, "updateCategory", [op |-> "updateCategory", step |-> "update", category |-> c,
                                       name |-> name, presets |-> presets])
    /\ UNCHANGED classworkVars

UpdateCategory(r) ==
    LET q == req[r] IN
    /\ At(r, "updateCategory", "update")
    /\ IF CategoryThere(q.category) /\ UniqueName(q.category, q.name)
       THEN /\ category' = [category EXCEPT ![q.category].name = q.name, ![q.category].presets = q.presets]
            /\ reshaped' = IF q.presets = category[q.category].presets THEN reshaped
                           ELSE reshaped \cup InCategory(q.category)
       ELSE UNCHANGED <<category, reshaped>>
    /\ Reply(r)
    /\ UNCHANGED <<assignment, result, attendance>>

\* The assignments of the category and their results go with it.
Erased(as) == [a \in Assignments |-> [s \in Students |->
                 IF a \in as THEN [result[a][s] EXCEPT !.there = FALSE] ELSE result[a][s]]]

Unassigned(as) == [a \in Assignments |-> IF a \in as THEN [assignment[a] EXCEPT !.state = "gone"] ELSE assignment[a]]

\* A bulk transaction holds the rows it wrote.
HoldsResult(r, a, s) ==
    req[r].op = "strictBulkResults" /\ \E i \in 1 .. req[r].done :
        req[r].items[i].assignment = a /\ req[r].items[i].seat = s
ResultLocked(r, a, s) == \E q \in Requests \ {r} : HoldsResult(q, a, s)
AssignmentsFree(as) == \A a \in as, s \in Students, r \in Requests : ~HoldsResult(r, a, s)

DeleteCategory ==
    /\ Serve("deleteCategory")
    /\ \E c \in Categories :
         /\ CategoryThere(c) /\ AssignmentsFree(InCategory(c))
         /\ category' = [category EXCEPT ![c].state = "gone"]
         /\ assignment' = Unassigned(InCategory(c))
         /\ result' = Erased(InCategory(c))
    /\ UNCHANGED <<attendance, reshaped>>

(***************************************************************************)
(* Assignments.  The lecture itself is not looked at.                      *)
(***************************************************************************)
BeginCreateAssignment(r) ==
    /\ \E c \in Categories :
         CategoryThere(c) /\ Begin(r, "createAssignment", [op |-> "createAssignment", step |-> "insert", category |-> c])
    /\ UNCHANGED classworkVars

CreateAssignment(r) ==
    /\ At(r, "createAssignment", "insert")
    /\ IF CategoryThere(req[r].category)
       THEN \E a \in Assignments :
              /\ assignment[a] = NoAssignment
              /\ assignment' = [assignment EXCEPT ![a] = [state |-> "there", category |-> req[r].category]]
       ELSE UNCHANGED assignment
    /\ Reply(r)
    /\ UNCHANGED <<category, result, attendance, reshaped>>

BeginUpdateAssignment(r) ==
    /\ \E a \in Assignments, c \in Categories :
         /\ AssignmentThere(a) /\ CategoryThere(c)
         /\ Begin(r, "updateAssignment", [op |-> "updateAssignment", step |-> "update", assignment |-> a, category |-> c])
    /\ UNCHANGED classworkVars

UpdateAssignment(r) ==
    LET q == req[r] IN
    /\ At(r, "updateAssignment", "update")
    /\ IF AssignmentThere(q.assignment) /\ CategoryThere(q.category)
       THEN /\ assignment' = [assignment EXCEPT ![q.assignment].category = q.category]
            /\ reshaped' = IF category[q.category].presets = Presets(q.assignment) THEN reshaped
                           ELSE reshaped \cup {q.assignment}
       ELSE UNCHANGED <<assignment, reshaped>>
    /\ Reply(r)
    /\ UNCHANGED <<category, result, attendance>>

DeleteAssignment ==
    /\ Serve("deleteAssignment")
    /\ \E a \in Assignments :
         /\ AssignmentThere(a) /\ AssignmentsFree({a})
         /\ assignment' = Unassigned({a})
         /\ result' = Erased({a})
    /\ UNCHANGED <<category, attendance, reshaped>>

(***************************************************************************)
(* Results.                                                                *)
(***************************************************************************)
AnyIndex(index, presets) == index <= presets
ValidIndex(index, presets) == index < presets
Indexes == UNION {0 .. n : n \in PresetCounts}

Written(row, index) == [there |-> TRUE, id |-> IF row.there THEN row.id ELSE row.id + 1, index |-> index]
NullSaved(row) == [row EXCEPT !.index = Erase]
Removed(row) == [row EXCEPT !.there = FALSE]

BeginCreateResult(r) ==
    /\ \E a \in Assignments, s \in enrolled, index \in Indexes :
         /\ AssignmentThere(a) /\ ValidIndex(index, Presets(a)) /\ ~result[a][s].there
         /\ Begin(r, "createResult", [op |-> "createResult", step |-> "insert", assignment |-> a, seat |-> s, index |-> index])
    /\ UNCHANGED classworkVars

\* A result that appeared meanwhile is left alone: P2002, 409.
CreateResult(r) ==
    LET q == req[r] IN
    /\ At(r, "createResult", "insert")
    /\ ~ResultLocked(r, q.assignment, q.seat)
    /\ result' = IF AssignmentThere(q.assignment) /\ q.seat \in enrolled /\ ~result[q.assignment][q.seat].there
                 THEN [result EXCEPT ![q.assignment][q.seat] = Written(@, q.index)] ELSE result
    /\ Reply(r)
    /\ UNCHANGED <<category, assignment, attendance, reshaped>>

BeginUpdateResult(r) ==
    /\ \E a \in Assignments, s \in Students, index \in Indexes :
         /\ result[a][s].there /\ ValidIndex(index, Presets(a))
         /\ Begin(r, "updateResult", [op |-> "updateResult", step |-> "update", assignment |-> a, seat |-> s,
                                      id |-> result[a][s].id, index |-> index])
    /\ UNCHANGED classworkVars

BeginDeleteResult(r) ==
    /\ \E a \in Assignments, s \in Students :
         /\ result[a][s].there
         /\ Begin(r, "deleteResult", [op |-> "deleteResult", step |-> "delete", assignment |-> a, seat |-> s,
                                      id |-> result[a][s].id])
    /\ UNCHANGED classworkVars

\* Both address the row by its id.
ChangeResult(r) ==
    LET q == req[r]
        row == result[q.assignment][q.seat]
    IN  /\ At(r, "updateResult", "update") \/ At(r, "deleteResult", "delete")
        /\ ~ResultLocked(r, q.assignment, q.seat)
        /\ result' = IF row.there /\ row.id = q.id
                     THEN [result EXCEPT ![q.assignment][q.seat] =
                             IF q.op = "deleteResult" THEN Removed(row) ELSE Written(row, q.index)]
                     ELSE result
        /\ Reply(r)
        /\ UNCHANGED <<category, assignment, attendance, reshaped>>

(***************************************************************************)
(* upsertBulkResults: item by item, in one transaction if strict.  An      *)
(* assignment is read for its first item; the presets stay in a cache.     *)
(***************************************************************************)
BeginBulk(r) ==
    /\ \E items \in Bulks, op \in {"bulkResults", "strictBulkResults"} :
         Begin(r, op, [op |-> op, step |-> "items", items |-> items, done |-> 0, cache |-> <<>>])
    /\ UNCHANGED classworkVars

\* The rows as the transaction sees them: committed ones and its own writes.
Applied(q) ==
    [a \in Assignments |-> [s \in Students |->
        LET mine == {i \in 1 .. q.done : q.items[i].assignment = a /\ q.items[i].seat = s} IN
        IF q.op = "strictBulkResults" /\ mine # {}
        THEN LET item == q.items[CHOOSE i \in mine : TRUE] IN
             IF item.index = Erase THEN Removed(result[a][s]) ELSE Written(result[a][s], item.index)
        ELSE result[a][s]]]

ItemOf(q) == q.items[q.done + 1]
CachedPresets(q) == IF ItemOf(q).assignment \in DOMAIN q.cache THEN q.cache[ItemOf(q).assignment]
                    ELSE Presets(ItemOf(q).assignment)

ItemOK(q) ==
    LET item == ItemOf(q) IN
    /\ AssignmentThere(item.assignment)
    /\ item.seat \in enrolled
    /\ IF item.index = Erase THEN result[item.assignment][item.seat].there
       ELSE ValidIndex(item.index, CachedPresets(q))

AfterItem(q) ==
    [q EXCEPT !.done = @ + 1,
              !.cache = IF ItemOf(q).assignment \in DOMAIN @ \/ AssignmentThere(ItemOf(q).assignment)
                        THEN [a \in DOMAIN @ \cup {ItemOf(q).assignment} |->
                                IF a \in DOMAIN @ THEN @[a] ELSE Presets(a)]
                        ELSE @]

\* An item that fails ends a strict request and is skipped by the other kind.
BulkItem(r) ==
    LET q == req[r]
        item == ItemOf(q)
    IN  /\ q.op \in {"bulkResults", "strictBulkResults"} /\ q.done < Len(q.items)
        /\ ~ResultLocked(r, item.assignment, item.seat)
        /\ IF ItemOK(q)
           THEN /\ Proceed(r, AfterItem(q))
                /\ result' = IF q.op = "strictBulkResults" THEN result
                             ELSE [result EXCEPT ![item.assignment][item.seat] =
                                     IF item.index = Erase THEN Removed(@) ELSE Written(@, item.index)]
           ELSE /\ IF q.op = "strictBulkResults" THEN Reply(r) ELSE Proceed(r, AfterItem(q))
                /\ UNCHANGED result
        /\ UNCHANGED <<category, assignment, attendance, reshaped>>

EndBulk(r) ==
    LET q == req[r] IN
    /\ q.op \in {"bulkResults", "strictBulkResults"} /\ q.done = Len(q.items)
    /\ result' = Applied(q)
    /\ Reply(r)
    /\ UNCHANGED <<category, assignment, attendance, reshaped>>

(***************************************************************************)
(* Attendance: the status of the lecture is looked at inside the           *)
(* transaction, and the rows are written by its last statements.           *)
(***************************************************************************)
WritableInAnyStatus == LectureFound
Writable == LectureFound /\ lecture.status = "IN_PROGRESS"

\* One seat, or several, each with the status to write: a function from seats to statuses.
MarksOf(seats) == [seats -> Marks]

BeginAttendance(r) ==
    /\ LectureFound
    /\ \E d \in Days, s \in enrolled : \E marks \in MarksOf({s}) :
         Begin(r, "attendance", [op |-> "attendance", step |-> "check", marks |-> marks, date |-> d])
    /\ UNCHANGED classworkVars

BeginBulkAttendance(r) ==
    /\ LectureFound
    /\ \E d \in Days, seats \in SUBSET Students \ {{}} : \E marks \in MarksOf(seats) :
         Begin(r, "bulkAttendance", [op |-> "bulkAttendance", step |-> "check", marks |-> marks, date |-> d])
    /\ UNCHANGED classworkVars

BeginDeleteAttendance(r) ==
    /\ LectureFound
    /\ \E s \in Students, d \in Days :
         /\ attendance[s][d].there
         /\ Begin(r, "deleteAttendance", [op |-> "deleteAttendance", step |-> "check", seat |-> s, date |-> d,
                                          id |-> attendance[s][d].id])
    /\ UNCHANGED classworkVars

SameRow(q) == attendance[q.seat][q.date].there /\ attendance[q.seat][q.date].id = q.id

CheckAttendance(r) ==
    LET q == req[r] IN
    /\ q.op \in {"attendance", "bulkAttendance", "deleteAttendance"} /\ q.step = "check"
    /\ IF Writable /\ (IF q.op = "deleteAttendance" THEN SameRow(q) ELSE DOMAIN q.marks \subseteq enrolled)
       THEN Proceed(r, [q EXCEPT !.step = "write"])
       ELSE Reply(r)
    /\ UNCHANGED classworkVars

\* A seat that is gone by now makes the whole transaction fail.
WriteAttendance(r) ==
    LET q == req[r] IN
    /\ At(r, "attendance", "write") \/ At(r, "bulkAttendance", "write")
    /\ attendance' =
         IF DOMAIN q.marks \subseteq enrolled
         THEN [s \in Students |->
                 IF s \in DOMAIN q.marks
                 THEN [attendance[s] EXCEPT ![q.date] = [there |-> TRUE, id |-> IF @.there THEN @.id ELSE @.id + 1,
                                                         status |-> q.marks[s]]]
                 ELSE attendance[s]]
         ELSE attendance
    /\ Reply(r)
    /\ UNCHANGED <<category, assignment, result, reshaped>>

Struck(row) == [row EXCEPT !.there = FALSE, !.status = "none"]

EraseAttendance(r) ==
    LET q == req[r] IN
    /\ At(r, "deleteAttendance", "write")
    /\ attendance' = IF SameRow(q) THEN [attendance EXCEPT ![q.seat][q.date] = Struck(@)] ELSE attendance
    /\ Reply(r)
    /\ UNCHANGED <<category, assignment, result, reshaped>>

(***************************************************************************)
(* What goes with a deleted seat.                                          *)
(***************************************************************************)
ClassworkForgets(s) ==
    /\ \A a \in Assignments, r \in Requests : ~HoldsResult(r, a, s)
    /\ result' = [a \in Assignments |-> [result[a] EXCEPT ![s].there = FALSE]]
    /\ attendance' = [attendance EXCEPT ![s] = [d \in Days |-> Struck(@[d])]]
    /\ UNCHANGED <<category, assignment, reshaped>>

ClassworkNext ==
    \/ DeleteCategory \/ DeleteAssignment
    \/ \E r \in Requests :
         \/ BeginCreateCategory(r) \/ CreateCategory(r) \/ BeginUpdateCategory(r) \/ UpdateCategory(r)
         \/ BeginCreateAssignment(r) \/ CreateAssignment(r) \/ BeginUpdateAssignment(r) \/ UpdateAssignment(r)
         \/ BeginCreateResult(r) \/ CreateResult(r) \/ BeginUpdateResult(r) \/ BeginDeleteResult(r) \/ ChangeResult(r)
         \/ BeginBulk(r) \/ BulkItem(r) \/ EndBulk(r)
         \/ BeginAttendance(r) \/ BeginBulkAttendance(r) \/ BeginDeleteAttendance(r)
         \/ CheckAttendance(r) \/ WriteAttendance(r) \/ EraseAttendance(r)

(***************************************************************************)
(* Properties.                                                             *)
(***************************************************************************)

\* A result hangs on a seat and an assignment that exist and is one of the presets of its category,
\* except where the category's presets, or the assignment's category, changed after the assignment was
\* created: then results written before, or checked before, may lie beyond the list.
ResultsAreOfPresets ==
    \A a \in Assignments, s \in Students : result[a][s].there =>
        /\ AssignmentThere(a) /\ CategoryThere(assignment[a].category) /\ s \in enrolled
        /\ a \notin reshaped => result[a][s].index < Presets(a)

\* Attendance is only ever recorded of a lecture that was in progress at some time before: the status
\* is checked again inside the transaction (validateAttendanceWritableLecture).
AttendanceAfterOpening ==
    \A s \in Students, d \in Days : attendance[s][d].there => lecture.opened /\ s \in enrolled
=============================================================================
