------------------------------- MODULE Library -------------------------------
(***************************************************************************)
(* MaterialsService, AssistantOrderService and InstructorPostsService: the *)
(* materials of the instructor's library, the orders that hand copies of   *)
(* their links to assistants, and the announcements.  All of them put      *)
(* their files beside those of the board.                                  *)
(***************************************************************************)
EXTENDS Board

CONSTANTS
    Materials,   \* materials, a finite supply
    Orders       \* orders to assistants, a finite supply

VARIABLES
    material,   \* materials
    order,      \* orders
    notice      \* announcements

libraryVars == <<material, order, notice>>

\* A video is a link and has no file.  A deleted row stays, as a soft deletion or to keep its key unused.
MaterialRow == [state: {None, "there", "deleted"}, files: SUBSET Files]
NoMaterial == [state |-> None, files |-> {}]
Copy == [of: Materials, files: SUBSET Files]
OrderRow == [state: {None, "there", "deleted"}, to: Users \cup {None}, done: BOOLEAN, copies: SUBSET Copy]
NoOrder == [state |-> None, to |-> None, done |-> FALSE, copies |-> {}]
Scopes == {"GLOBAL", "LECTURE", "SELECTED"}
\* `overtaken` is history: an edit was saved that had read the row before another one was.
NoticeRow == [state: {None, "there", "deleted"}, scope: Scopes, lecture: LectureIds \cup {None},
              targets: SUBSET Enrollments, materials: SUBSET Materials, files: SUBSET Files, overtaken: BOOLEAN]
NoNotice == [state |-> None, scope |-> "GLOBAL", lecture |-> None, targets |-> {}, materials |-> {}, files |-> {},
             overtaken |-> FALSE]

LibraryTypeOK ==
    /\ material \in [Materials -> MaterialRow]
    /\ order \in [Orders -> OrderRow]
    /\ notice \in [Notices -> NoticeRow]

LibraryInit ==
    /\ material = [m \in Materials |-> NoMaterial]
    /\ order = [o \in Orders |-> NoOrder]
    /\ notice = [n \in Notices |-> NoNotice]

\* findById and findByIds of materials, which leave out the deleted ones.
Live == {m \in Materials : material[m].state = "there"}
OrderThere(o) == order[o].state = "there"
NoticeThere(n) == notice[n].state = "there"

(***************************************************************************)
(* uploadMaterial and updateMaterial.  A file is replaced by uploading the *)
(* new one, removing the old one and naming the new one in the row; every  *)
(* update writes the row's file, an edit of the title the one it has read. *)
(***************************************************************************)
BeginUploadMaterial(r) ==
    /\ \E video \in BOOLEAN :
         Begin(r, "uploadMaterial", [op |-> "uploadMaterial", step |-> "upload", uploads |-> ~video, added |-> {}])
    /\ UNCHANGED <<boardVars, libraryVars>>

CreateMaterial(r) ==
    /\ At(r, "uploadMaterial", "save")
    /\ \E m \in Materials :
         /\ material[m].state = None
         /\ material' = [material EXCEPT ![m] = [state |-> "there", files |-> req[r].added]]
    /\ Reply(r)
    /\ UNCHANGED <<boardVars, order, notice>>

BeginEditMaterial(r) ==
    /\ \E m \in Live, up \in BOOLEAN :
         /\ up => material[m].files # {}
         /\ Begin(r, "updateMaterial", [op |-> "updateMaterial", step |-> "upload", material |-> m,
                                        old |-> material[m].files, uploads |-> up, added |-> {}, dropped |-> {}])
    /\ UNCHANGED <<boardVars, libraryVars>>

DropOldMaterial(r) ==
    LET q == req[r] IN
    /\ At(r, "updateMaterial", "drop")
    /\ Drop(r, IF q.uploads THEN q.old ELSE {}, "save")
    /\ UNCHANGED <<post, comment, uploads, lost, libraryVars>>

NewLink(q) == IF q.uploads THEN q.added ELSE q.old

SaveMaterial(r) ==
    LET q == req[r] IN
    /\ At(r, "updateMaterial", "save")
    /\ material' = IF q.material \in Live THEN [material EXCEPT ![q.material].files = NewLink(q)] ELSE material
    /\ lost' = lost \cup (IF q.material \notin Live THEN q.dropped ELSE IF q.uploads THEN {} ELSE q.old \ stored)
    /\ Reply(r)
    /\ UNCHANGED <<post, comment, stored, uploads, order, notice>>

DeleteMaterial ==
    /\ Serve("deleteMaterial")
    /\ \E m \in Live : material' = [material EXCEPT ![m].state = "deleted"]
    /\ UNCHANGED <<boardVars, order, notice>>

(***************************************************************************)
(* Orders copy the links of the materials they name.                       *)
(***************************************************************************)
CopiesOf(ms) == {[of |-> m, files |-> material[m].files] : m \in ms}

BeginOrder(r) ==
    /\ \E u \in Users, ms \in SUBSET Live :
         /\ assistant[u].status # None
         /\ Begin(r, "createOrder", [op |-> "createOrder", step |-> "save", to |-> u, copies |-> CopiesOf(ms)])
    /\ UNCHANGED <<boardVars, libraryVars>>

CreateOrder(r) ==
    LET q == req[r] IN
    /\ At(r, "createOrder", "save")
    /\ \E o \in Orders :
         /\ order[o].state = None
         /\ order' = [order EXCEPT ![o] = [state |-> "there", to |-> q.to, done |-> FALSE, copies |-> q.copies]]
    /\ Reply(r)
    /\ UNCHANGED <<boardVars, material, notice>>

\* updateOrder: without materials the attachments stay, without a status the status.
BeginEditOrder(r) ==
    /\ \E o \in Orders, ms \in SUBSET Live, done \in SUBSET BOOLEAN :
         /\ OrderThere(o) /\ done # BOOLEAN
         /\ Begin(r, "updateOrder", [op |-> "updateOrder", step |-> "save", order |-> o, copies |-> CopiesOf(ms),
                                     done |-> done])
    /\ UNCHANGED <<boardVars, libraryVars>>

SaveOrder(r) ==
    LET q == req[r] IN
    /\ At(r, "updateOrder", "save")
    /\ order' = IF OrderThere(q.order)
                THEN [order EXCEPT ![q.order].copies = IF q.copies = {} THEN @ ELSE q.copies,
                                   ![q.order].done = IF q.done = {} THEN @ ELSE q.done = {TRUE}]
                ELSE order
    /\ Reply(r)
    /\ UNCHANGED <<boardVars, material, notice>>

\* updateOrderStatus, by the assistant it was given to, and deleteOrder.
UpdateOrderStatus ==
    /\ Serve("updateOrderStatus")
    /\ \E o \in Orders, done \in BOOLEAN :
         /\ OrderThere(o) /\ Admitted(order[o].to, "ASSISTANT")
         /\ order' = [order EXCEPT ![o].done = done]
    /\ UNCHANGED <<boardVars, material, notice>>

DeleteOrder ==
    /\ Serve("deleteOrder")
    /\ \E o \in Orders : OrderThere(o) /\ order' = [order EXCEPT ![o] = [NoOrder EXCEPT !.state = "deleted"]]
    /\ UNCHANGED <<boardVars, material, notice>>

(***************************************************************************)
(* Announcements: createPost, updatePost and deletePost of                 *)
(* InstructorPostsService.                                                 *)
(***************************************************************************)
KnownLecture(l) == lectures[l] = "there"
\* A foreign key holds whatever is not looked up: a lecture's row stays when it is deleted.
LectureRows == {l \in LectureIds : lectures[l] # None}

BeginNotice(r) ==
    /\ \E scope \in Scopes, l \in LectureRows \cup {None}, es \in SUBSET {e \in There : ~enrollment[e].deleted},
          ms \in SUBSET Live, up \in BOOLEAN :
         /\ scope = "LECTURE" => l # None /\ KnownLecture(l)
         /\ scope = "SELECTED" => es # {}
         /\ Begin(r, "createNotice", [op |-> "createNotice", step |-> "upload", scope |-> scope, lecture |-> l,
                                      targets |-> IF scope = "SELECTED" THEN es ELSE {}, materials |-> ms,
                                      uploads |-> up, added |-> {}])
    /\ UNCHANGED <<boardVars, libraryVars>>

CreateNotice(r) ==
    LET q == req[r] IN
    /\ At(r, "createNotice", "save")
    /\ \E n \in Notices :
         /\ notice[n].state = None
         /\ notice' = [notice EXCEPT ![n] = [NoNotice EXCEPT !.state = "there", !.scope = q.scope, !.lecture = q.lecture,
                                             !.targets = q.targets, !.materials = q.materials, !.files = q.added]]
    /\ Reply(r)
    /\ UNCHANGED <<boardVars, material, order>>

\* What an edit brings, for whom it is or what is attached; a field that is not given is the empty set.
\* Direct attachments are listed again when they are kept; materials or attachments that are given
\* replace all of both.
Edits(row) ==
    [scope: {{}} \cup {{s} : s \in Scopes}, lecture: {{}} \cup {{l} : l \in LectureRows \cup {None}},
     targets: {{}} \cup {{es} : es \in SUBSET There}, materials: {{}}, kept: {{}}, uploads: {FALSE}]
    \cup
    [scope: {{}}, lecture: {{}}, targets: {{}}, materials: {{}} \cup {{ms} : ms \in SUBSET Live},
     kept: SUBSET row.files, uploads: BOOLEAN]
OneOr(given, was) == IF given = {} THEN was ELSE CHOOSE x \in given : TRUE

ScopeAfter(edit, row) == OneOr(edit.scope, row.scope)

\* The checks of updatePost; the lecture is looked up when the edit names one or makes the scope LECTURE.
Allowed(edit, row) ==
    LET l == OneOr(edit.lecture, row.lecture) IN
    /\ ScopeAfter(edit, row) = "LECTURE" =>
         /\ l # None
         /\ edit.lecture # {} \/ edit.scope # {} => KnownLecture(l)
    /\ ScopeAfter(edit, row) = "SELECTED" => edit.targets # {{}}

Redundant(edit, row) ==
    /\ OneOr(edit.scope, row.scope) = row.scope /\ OneOr(edit.lecture, row.lecture) = row.lecture
    /\ OneOr(edit.targets, row.targets) = row.targets /\ OneOr(edit.materials, row.materials) = row.materials
    /\ edit.kept \in {{}, row.files} /\ ~edit.uploads

BeginEditNotice(r) ==
    /\ \E n \in Notices :
         /\ NoticeThere(n)
         /\ \E edit \in Edits(notice[n]) :
              /\ Allowed(edit, notice[n]) /\ ~Redundant(edit, notice[n])
              /\ Begin(r, "updateNotice", [op |-> "updateNotice", step |-> "upload", notice |-> n, edit |-> edit,
                                           read |-> notice[n], uploads |-> edit.uploads, added |-> {}])
    /\ UNCHANGED <<boardVars, libraryVars>>

EditedNotice(q, row) ==
    LET direct == q.edit.kept \cup q.added
        attaches == q.edit.materials # {} \/ direct # {} IN
    [row EXCEPT !.scope = OneOr(q.edit.scope, @), !.lecture = OneOr(q.edit.lecture, @),
                !.targets = OneOr(q.edit.targets, @),
                !.materials = IF attaches THEN OneOr(q.edit.materials, {}) ELSE @,
                !.files = IF attaches THEN direct ELSE @,
                !.overtaken = @ \/ row # q.read]

SaveNotice(r) ==
    LET q == req[r] IN
    /\ At(r, "updateNotice", "save")
    /\ notice' = IF NoticeThere(q.notice) THEN [notice EXCEPT ![q.notice] = EditedNotice(q, @)] ELSE notice
    /\ Reply(r)
    /\ UNCHANGED <<boardVars, material, order>>

\* The comments go with the row (Cascade); nobody removes files.
DeleteNotice ==
    /\ Serve("deleteNotice")
    /\ \E n \in Notices :
         /\ NoticeThere(n)
         /\ notice' = [notice EXCEPT ![n] = [NoNotice EXCEPT !.state = "deleted"]]
         /\ comment' = [c \in Comments |-> IF comment[c].on = n THEN DeletedComment ELSE comment[c]]
    /\ UNCHANGED <<post, stored, uploads, lost, material, order>>

(***************************************************************************)
(* createComment on an announcement, by the instructor's side or through   *)
(* the first enrollment that is found of the student or the parent: in the *)
(* lecture the announcement names, or in any.  A second child of a parent  *)
(* is not looked at.                                                       *)
(***************************************************************************)
StudentSeats(l) ==
    {e \in There :
       /\ enrollment[e].student # None /\ ~enrollment[e].deleted
       /\ IF l # None THEN <<l, e>> \in seats
          ELSE enrollment[e].status = "ACTIVE" /\ \E k \in LectureIds : <<k, e>> \in seats}
ChildSeats(l) ==
    {e \in There :
       /\ enrollment[e].link # NoLink /\ enrollment[e].status = "ACTIVE" /\ ~enrollment[e].deleted
       /\ l # None => <<l, e>> \in seats}

CommentsThrough(n, role) ==
    LET row == notice[n]
        found == CASE role = "STUDENT" -> StudentSeats(row.lecture)
                   [] role = "PARENT" -> ChildSeats(row.lecture)
                   [] OTHER -> {None} IN
    {e \in found : role # "STAFF" /\ row.scope = "SELECTED" => e \in row.targets}

BeginNoticeComment(r) ==
    /\ \E n \in Notices, role \in Roles, up \in BOOLEAN :
         /\ NoticeThere(n)
         /\ \E e \in CommentsThrough(n, role) :
              Begin(r, "createComment", [op |-> "createComment", step |-> "upload", on |-> n, role |-> role, by |-> e,
                                         status |-> None, uploads |-> up, added |-> {}])
    /\ UNCHANGED <<boardVars, libraryVars>>

SaveNoticeComment(r) ==
    LET q == req[r] IN
    /\ At(r, "createComment", "save") /\ q.on \in Notices
    /\ WriteComment(q, NoticeThere(q.on))
    /\ Reply(r)
    /\ UNCHANGED <<post, uploads, lost, libraryVars>>

UploadToLibrary(r) ==
    /\ \/ req[r].op = "updateMaterial" /\ Upload(r, "drop")
       \/ req[r].op \in {"uploadMaterial", "createNotice", "updateNotice"} /\ Upload(r, "save")
    /\ UNCHANGED libraryVars

LibraryNext ==
    \/ DeleteMaterial \/ UpdateOrderStatus \/ DeleteOrder \/ DeleteNotice
    \/ \E r \in Requests :
         \/ BeginUploadMaterial(r) \/ CreateMaterial(r) \/ BeginEditMaterial(r) \/ DropOldMaterial(r) \/ SaveMaterial(r)
         \/ BeginOrder(r) \/ CreateOrder(r) \/ BeginEditOrder(r) \/ SaveOrder(r)
         \/ BeginNotice(r) \/ CreateNotice(r) \/ BeginEditNotice(r) \/ SaveNotice(r)
         \/ BeginNoticeComment(r) \/ SaveNoticeComment(r)
         \/ UploadToLibrary(r)

(***************************************************************************)
(* Properties.                                                             *)
(***************************************************************************)

\* A material's file is in S3, that of a deleted one too, with the exceptions AttachmentsStored names: so the
\* link that an order copied leads to a file as long as the material has not got another one; the files of
\* announcements, which nothing removes, always are (updateMaterial, deleteMaterial, createOrder, updatePost).
LibraryStored ==
    LET gone == lost \cup UNION {Dropped(r) : r \in Requests} IN
    /\ \A m \in Materials : material[m].files \subseteq stored \cup gone
    /\ \A o \in Orders : \A c \in order[o].copies : material[c.of].files = c.files => c.files \subseteq stored \cup gone
    /\ \A n \in Notices : notice[n].files \subseteq stored

\* An announcement for one lecture names it, whatever fields its edits change one by one, unless an edit
\* was decided on a row that another one had changed by the time it was saved (createPost, updatePost).
NoticeHasLecture ==
    \A n \in Notices : NoticeThere(n) /\ notice[n].scope = "LECTURE" => notice[n].lecture # None \/ notice[n].overtaken
=============================================================================
