------------------------------- MODULE Roster -------------------------------
(***************************************************************************)
(* EnrollmentsService, LecturesService.createLecture, ParentsService and   *)
(* ProfileService: the roster of one instructor.  An enrollment names a    *)
(* student and a parent by phone number; it is linked to the student's     *)
(* profile and to the parent's child link whenever both numbers match, at  *)
(* whichever comes last: the enrollment, the sign-up, the change of a      *)
(* profile or the registration of a child.                                 *)
(***************************************************************************)
EXTENDS Accounts, Functions

CONSTANTS
    Enrollments,   \* enrollments, a finite supply
    LectureIds,    \* lectures, a finite supply
    Statuses       \* the statuses updates of an enrollment write

ASSUME RosterAssumption == Statuses \subseteq {"ACTIVE", "PAUSED", "DROPPED"} /\ None \notin Enrollments

VARIABLES
    links,        \* parent-child links: a parent and a child's phone number
    enrollment,   \* enrollments
    lectures,     \* per lecture, its state
    seats         \* lecture enrollments: pairs of a lecture and an enrollment

rosterVars == <<links, enrollment, lectures, seats>>

LinkRow == [parent: Users, child: Phones]
NoLink == [parent |-> None, child |-> None]
PhonePair == [phone: Phones, parentPhone: Phones]
\* `history` tells how a row came to differ from what matching its phone numbers gives: "raced" with a
\* change of accounts or of the row, "released" by a withdrawal or dropped, "resynced" by a change of a
\* profile, "edited" by the instructor, "mixed" when linked under another parent's phone number.
EnrollmentRow ==
    [there: BOOLEAN, status: {"ACTIVE", "PAUSED", "DROPPED"}, deleted: BOOLEAN,
     phone: Phones \cup {None}, parentPhone: Phones \cup {None}, student: Users \cup {None},
     link: LinkRow \cup {NoLink}, history: SUBSET {"raced", "released", "resynced", "edited", "mixed"}]
NoEnrollment == [there |-> FALSE, status |-> "ACTIVE", deleted |-> FALSE, phone |-> None, parentPhone |-> None,
                 student |-> None, link |-> NoLink, history |-> {}]

RosterTypeOK ==
    /\ links \subseteq LinkRow
    /\ enrollment \in [Enrollments -> EnrollmentRow]
    /\ lectures \in [LectureIds -> {None, "there", "deleted"}]
    /\ seats \subseteq LectureIds \X Enrollments

RosterInit ==
    /\ links = {}
    /\ enrollment = [e \in Enrollments |-> NoEnrollment]
    /\ \E l \in LectureIds : lectures = [m \in LectureIds |-> IF m = l THEN "there" ELSE None]
    /\ seats = {}

There == {e \in Enrollments : enrollment[e].there}
PhonesOf(row) == [phone |-> row.phone, parentPhone |-> row.parentPhone]
Overwritten(row, phone, parentPhone) == [row EXCEPT !.phone = phone, !.parentPhone = parentPhone]
Changed(row, phone, parentPhone) == [row EXCEPT !.phone = IF phone = None THEN @ ELSE phone,
                                                !.parentPhone = IF parentPhone = None THEN @ ELSE parentPhone]

\* findByPhoneNumberAndParentPhoneNumber, of students and of child links; phone numbers are unique.
StudentOf(ps) ==
    LET found == {p \in profiles : p.type = "STUDENT" /\ p.phone = ps.phone /\ p.parentPhone = ps.parentPhone}
    IN IF found = {} THEN None ELSE (CHOOSE p \in found : TRUE).user
LinkOf(ps) ==
    LET parents == {p.user : p \in {q \in profiles : q.type = "PARENT" /\ q.phone = ps.parentPhone}}
        found == {l \in links : l.child = ps.phone /\ l.parent \in parents}
    IN IF found = {} THEN NoLink ELSE CHOOSE l \in found : TRUE

Matches(ps) == [student |-> StudentOf(ps), link |-> LinkOf(ps)]
Gives(found, row) == [row EXCEPT !.student = IF found.student = None THEN @ ELSE found.student,
                                 !.link = IF found.link = NoLink THEN @ ELSE found.link]
\* What is connected must still be there when it is connected.
Connectable(found) ==
    /\ found.student # None => ProfileOf(found.student, "STUDENT")
    /\ found.link # NoLink => found.link \in links
Marked(row, words) == [row EXCEPT !.history = @ \cup words]
Mark(word, when) == IF when THEN {word} ELSE {}

\* @@unique([instructorId, studentPhone]), dropped enrollments included.
PhonesDistinct(rows) ==
    \A e, f \in Enrollments : rows[e].there /\ rows[f].there /\ rows[e].phone = rows[f].phone => e = f

(***************************************************************************)
(* createEnrollment puts one student in a lecture, createLecture the       *)
(* students of its list: existing enrollments are reused and linked where  *)
(* they are not, others created, in one transaction.                       *)
(***************************************************************************)
Lists == {list \in SUBSET PhonePair : list # {} /\ \A p, q \in list : p.phone = q.phone => p = q}

BeginEnrol(r) ==
    /\ \/ \E l \in LectureIds, ps \in PhonePair :
            /\ lectures[l] = "there"
            /\ Begin(r, "createEnrollment", [op |-> "enrol", step |-> "match", lecture |-> l, creates |-> FALSE,
                                             list |-> {ps}])
       \/ \E l \in LectureIds, list \in Lists :
            /\ lectures[l] = None /\ \A q \in Requests : req[q].op = "enrol" => req[q].lecture # l
            /\ Begin(r, "createLecture", [op |-> "enrol", step |-> "match", lecture |-> l, creates |-> TRUE,
                                          list |-> list])
    /\ UNCHANGED <<accountVars, rosterVars>>

\* findManyByInstructorAndPhones
Existing(ps) == {e \in There : ~enrollment[e].deleted /\ enrollment[e].phone = ps.phone}

\* Only createLecture compares what it is given with what is there.
Consistent(q) ==
    q.creates =>
      \A ps \in q.list : \A e \in Existing(ps) : enrollment[e].parentPhone = ps.parentPhone

Resolved(ps) == [phone |-> ps.phone, parentPhone |-> ps.parentPhone, student |-> StudentOf(ps), link |-> LinkOf(ps)]

MatchEnrol(r) ==
    LET q == req[r] IN
    /\ At(r, "enrol", "match")
    /\ IF Consistent(q)
       THEN Proceed(r, [op |-> "enrol", step |-> "save", lecture |-> q.lecture, creates |-> q.creates,
              reused |-> {[id |-> p[1], was |-> enrollment[p[1]], by |-> Resolved(p[2])] :
                            p \in {x \in There \X q.list : x[1] \in Existing(x[2])}},
              new |-> {Resolved(ps) : ps \in {x \in q.list : Existing(x) = {}}}])
       ELSE Reply(r)
    /\ UNCHANGED <<accountVars, rosterVars>>

\* A link that was found missing is set, whatever has become of it since.
Reused(u, row) ==
    LET found == [student |-> IF u.was.student = None THEN u.by.student ELSE None,
                  link |-> IF u.was.link = NoLink THEN u.by.link ELSE NoLink]
    IN Marked(Gives(found, row),
              Mark("mixed", row.parentPhone # u.by.parentPhone /\ found # [student |-> None, link |-> NoLink])
              \cup Mark("raced", Matches(u.by) # [student |-> u.by.student, link |-> u.by.link]
                                 \/ PhonesOf(row) # PhonesOf(u.was)))
Created(n) ==
    Marked(Gives(n, [NoEnrollment EXCEPT !.there = TRUE, !.phone = n.phone, !.parentPhone = n.parentPhone]),
           Mark("raced", Matches(n) # [student |-> n.student, link |-> n.link]))

SaveEnrol(r) ==
    LET q == req[r] IN
    /\ At(r, "enrol", "save")
    /\ \E id \in Injection(q.new, Enrollments \ There) :
         LET rows == [e \in Enrollments |->
                        IF \E n \in q.new : id[n] = e THEN Created(CHOOSE n \in q.new : id[n] = e)
                        ELSE IF \E u \in q.reused : u.id = e THEN Reused(CHOOSE u \in q.reused : u.id = e, enrollment[e])
                        ELSE enrollment[e]]
         IN IF /\ PhonesDistinct(rows)
               /\ \A f \in q.new \cup {u.by : u \in q.reused} : Connectable(f)
            THEN /\ enrollment' = rows
                 /\ lectures' = IF q.creates THEN [lectures EXCEPT ![q.lecture] = "there"] ELSE lectures
                 /\ seats' = seats \cup {<<q.lecture, e>> : e \in Range(id) \cup {u.id : u \in q.reused}}
            ELSE UNCHANGED <<enrollment, lectures, seats>>
    /\ Reply(r)
    /\ UNCHANGED <<accountVars, links>>

\* createEnrollmentMigration reads the seats of the lecture, then adds the others; one that came in
\* between makes it fail.
BeginMigrate(r) ==
    /\ \E l \in LectureIds, es \in SUBSET There :
         /\ lectures[l] = "there"
         /\ {e \in es : <<l, e>> \notin seats} # {}
         /\ Begin(r, "migrate", [op |-> "migrate", step |-> "save",
                                 new |-> {<<l, e>> : e \in {f \in es : <<l, f>> \notin seats}}])
    /\ UNCHANGED <<accountVars, rosterVars>>

SaveMigrate(r) ==
    /\ At(r, "migrate", "save")
    /\ seats' = IF req[r].new \cap seats = {} THEN seats \cup req[r].new ELSE seats
    /\ Reply(r)
    /\ UNCHANGED <<accountVars, links, enrollment, lectures>>

RemoveSeat ==
    /\ Serve("removeSeat")
    /\ \E s \in seats : seats' = seats \ {s}
    /\ UNCHANGED <<accountVars, links, enrollment, lectures>>

DeleteLecture ==
    /\ Serve("deleteLecture")
    /\ \E l \in LectureIds : lectures[l] = "there" /\ lectures' = [lectures EXCEPT ![l] = "deleted"]
    /\ UNCHANGED <<accountVars, links, enrollment, seats>>

(***************************************************************************)
(* updateEnrollment: the row is read and matched, then written.            *)
(***************************************************************************)
BeginUpdate(r) ==
    /\ \E e \in There, status \in Statuses \cup {None}, phone, parentPhone \in Phones \cup {None} :
         LET row == enrollment[e]
             ps == PhonesOf(Changed(row, phone, parentPhone))
             edits == phone # None \/ parentPhone # None
         IN Begin(r, "updateEnrollment",
                  [op |-> "update", step |-> "save", id |-> e, status |-> status, phone |-> phone,
                   parentPhone |-> parentPhone, edits |-> edits, was |-> PhonesOf(row), by |-> ps,
                   found |-> IF edits THEN Matches(ps) ELSE [student |-> None, link |-> NoLink]])
    /\ UNCHANGED <<accountVars, rosterVars>>

DroppedForGood(row, status) ==
    IF status = None THEN row
    ELSE [row EXCEPT !.status = status, !.deleted = @ \/ status = "DROPPED",
                     !.history = @ \cup Mark("released", status = "DROPPED")]
WithStatus(row, status) ==
    IF status = None THEN row
    ELSE [row EXCEPT !.status = status, !.deleted = status = "DROPPED",
                     !.history = @ \cup Mark("released", status = "DROPPED")]
Edited(q, row) ==
    Marked(Gives(q.found, Changed(row, q.phone, q.parentPhone)),
           Mark("edited", q.edits)
           \cup Mark("raced", q.edits /\ (q.was # PhonesOf(row) \/ q.found # Matches(q.by))))

SaveUpdate(r) ==
    LET q == req[r]
        rows == [enrollment EXCEPT ![q.id] = WithStatus(Edited(q, @), q.status)]
    IN
    /\ At(r, "update", "save")
    /\ enrollment' = IF PhonesDistinct(rows) /\ Connectable(q.found) THEN rows ELSE enrollment
    /\ Reply(r)
    /\ UNCHANGED <<accountVars, links, lectures, seats>>

(***************************************************************************)
(* A student's profile takes its enrollments along, dropped ones excepted, *)
(* and looks for others that match; a parent's takes nothing.              *)
(***************************************************************************)
ProfileFree(p) == \A q \in profiles : q.type = p.type /\ q.phone = p.phone => q.user = p.user

SyncedNewOnly(p, phone, parentPhone, row) ==
    IF row.there /\ row.student = None /\ ~row.deleted /\ PhonesOf(row) = PhonesOf(p) THEN [row EXCEPT !.student = p.user] ELSE row
Synced(p, phone, parentPhone, row) ==
    IF row.student = p.user /\ ~row.deleted
    THEN LET new == Changed(row, phone, parentPhone) IN Marked(new, Mark("resynced", PhonesOf(new) # PhonesOf(row)))
    ELSE IF row.there /\ row.student = None /\ ~row.deleted /\ PhonesOf(row) = PhonesOf(p)
    THEN [row EXCEPT !.student = p.user] ELSE row

UpdateStudentProfile ==
    /\ Serve("studentProfile")
    /\ \E old \in {p \in profiles : p.type = "STUDENT"}, phone, parentPhone \in Phones \cup {None} :
         LET new == Changed(old, phone, parentPhone)
             rows == [e \in Enrollments |-> Synced(new, phone, parentPhone, enrollment[e])]
         IN /\ ProfileFree(new) /\ PhonesDistinct(rows)
            /\ profiles' = (profiles \ {old}) \cup {new}
            /\ enrollment' = rows
    /\ UNCHANGED <<user, session, assistant, code, admin, links, lectures, seats>>

UpdateParentProfile ==
    /\ Serve("parentProfile")
    /\ \E old \in {p \in profiles : p.type = "PARENT"}, phone \in Phones :
         LET new == [old EXCEPT !.phone = phone] IN
         /\ ProfileFree(new)
         /\ profiles' = (profiles \ {old}) \cup {new}
         /\ enrollment' = [e \in Enrollments |->
              Marked(enrollment[e], Mark("resynced", enrollment[e].parentPhone = phone /\ new # old))]
    /\ UNCHANGED <<user, session, assistant, code, admin, links, lectures, seats>>

BeginRegisterChild(r) ==
    /\ \E p \in profiles, child \in Phones :
         /\ p.type = "PARENT" /\ [parent |-> p.user, child |-> child] \notin links
         /\ Begin(r, "registerChild", [op |-> "child", step |-> "save", link |-> [parent |-> p.user, child |-> child]])
    /\ UNCHANGED <<accountVars, rosterVars>>

\* updateAppParentLinkIdByStudentPhoneAndParentPhone
BackfilledLink(link, parentPhone, row) ==
    IF row.phone = link.child /\ row.parentPhone = parentPhone /\ row.link = NoLink
    THEN [row EXCEPT !.link = link] ELSE row

SaveRegisterChild(r) ==
    LET link == req[r].link
        parents == {p \in profiles : p.type = "PARENT" /\ p.user = link.parent}
    IN
    /\ At(r, "child", "save")
    /\ IF parents # {} /\ link \notin links
       THEN /\ links' = links \cup {link}
            /\ enrollment' = [e \in Enrollments |->
                 BackfilledLink(link, (CHOOSE p \in parents : TRUE).phone, enrollment[e])]
       ELSE UNCHANGED <<links, enrollment>>
    /\ Reply(r)
    /\ UNCHANGED <<accountVars, lectures, seats>>

(***************************************************************************)
(* A step of the accounts reaches the roster when a student signs up       *)
(* (createStudent backfills) and when a user goes: an enrollment loses its *)
(* student (SetNull), a parent's links go (Cascade) and leave enrollments. *)
(***************************************************************************)
NotBackfilled(p, row) == row
Backfilled(p, row) ==
    IF p.type = "STUDENT" /\ PhonesOf(row) = PhonesOf(p) /\ row.student = None
    THEN [row EXCEPT !.student = p.user] ELSE row

Released(row) ==
    LET studentGone == row.student # None /\ user'[row.student].type = "gone"
        linkGone == row.link # NoLink /\ row.link \notin links'
    IN Marked([row EXCEPT !.student = IF studentGone THEN None ELSE @, !.link = IF linkGone THEN NoLink ELSE @],
              Mark("released", studentGone \/ linkGone))

RosterFollows ==
    LET new == profiles' \ profiles IN
    /\ links' = {l \in links : user'[l.parent].type # "gone"}
    /\ enrollment' = [e \in Enrollments |->
         IF new = {} THEN Released(enrollment[e]) ELSE Backfilled(CHOOSE p \in new : TRUE, enrollment[e])]
    /\ UNCHANGED <<lectures, seats>>

RosterNext ==
    \/ RemoveSeat \/ DeleteLecture \/ UpdateStudentProfile \/ UpdateParentProfile
    \/ \E r \in Requests :
         \/ BeginEnrol(r) \/ MatchEnrol(r) \/ SaveEnrol(r) \/ BeginMigrate(r) \/ SaveMigrate(r)
         \/ BeginUpdate(r) \/ SaveUpdate(r) \/ BeginRegisterChild(r) \/ SaveRegisterChild(r)

(***************************************************************************)
(* Properties.                                                             *)
(***************************************************************************)

\* Whoever comes last, the enrollment or the account, both are linked: an enrollment without a student
\* (or a child link) matches none, unless its numbers were matched while an account changed, it was
\* dropped, or its student or parent withdrew, or, for a link, a profile changed (createEnrollment,
\* createLecture, updateEnrollment, createStudent, registerChild, updateStudentProfile).
NoMissedLink ==
    \A e \in There :
      LET row == enrollment[e] IN
      row.history \cap {"raced", "released"} = {} =>
        /\ row.student = None => StudentOf(PhonesOf(row)) = None
        /\ row.link = NoLink /\ "resynced" \notin row.history => LinkOf(PhonesOf(row)) = NoLink

\* A linked enrollment carries its student's phone numbers, which the student's profile hands on,
\* unless the instructor edited it, it was dropped for a time, its link was set under another parent's
\* number or while the numbers changed (updateStudentProfile, createEnrollment).
PhonesInStep ==
    \A e \in There :
      LET row == enrollment[e] IN
      row.student # None /\ row.history \cap {"raced", "released", "edited", "mixed"} = {} =>
        \E p \in profiles : p.type = "STUDENT" /\ p.user = row.student /\ PhonesOf(p) = PhonesOf(row)

\* An enrollment is soft-deleted exactly while its status is DROPPED, through any sequence of updates:
\* a student taken back is found again (updateEnrollment).
DroppedIffDeleted == \A e \in There : enrollment[e].deleted <=> enrollment[e].status = "DROPPED"
=============================================================================
