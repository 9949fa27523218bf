----------------------------- MODULE BoardProofs -----------------------------
(***************************************************************************)
(* Proofs about the board, the library and the planner of School, over     *)
(* those about its accounts and its roster.  Three invariants: rows and    *)
(* calls have their shapes, and a call that edits a row was checked with   *)
(* what it read (TypedInv); a question that a call found answered is one   *)
(* (AnswerInv); every file has one owner, a row or the request that has    *)
(* just uploaded it (FilesInv).                                            *)
(***************************************************************************)
EXTENDS SchoolProofs, FiniteSetTheorems

(***************************************************************************)
(* What the requests remember.                                             *)
(***************************************************************************)
FileSets == SUBSET Files
CreatePostCall == [op: {"createPost"}, step: {"upload", "save"}, of: Enrollments, role: {"STUDENT", "PARENT"},
                   uploads: BOOLEAN, added: FileSets]
StatusCall == [op: {"updateStatus"}, step: {"save"}, post: Posts, status: {"REGISTERED", "COMPLETED"}]
EditPostCall == [op: {"updatePost"}, step: {"upload", "drop", "clear", "insert"}, post: Posts, lists: BOOLEAN,
                 keeps: FileSets, old: FileSets, uploads: BOOLEAN, added: FileSets, dropped: FileSets]
DeletePostCall == [op: {"deletePost"}, step: {"files", "comments", "save"}, post: Posts, old: FileSets, dropped: FileSets]
CommentCall == [op: {"createComment"}, step: {"upload", "save"}, on: Posts \cup Notices, role: Roles,
                by: Enrollments \cup {None}, status: {None, "BEFORE", "REGISTERED", "COMPLETED"}, uploads: BOOLEAN,
                added: FileSets]
DeleteCommentCall == [op: {"deleteComment"}, step: {"drop", "save"}, comment: Comments, dropped: FileSets]
EditCommentCall == [op: {"updateComment"}, step: {"drop", "upload", "clear", "insert"}, comment: Comments,
                    rows: {"remove", "materials", "keep"}, uploads: BOOLEAN, added: FileSets, dropped: FileSets]
UploadMaterialCall == [op: {"uploadMaterial"}, step: {"upload", "save"}, uploads: BOOLEAN, added: FileSets]
EditMaterialCall == [op: {"updateMaterial"}, step: {"upload", "drop", "save"}, material: Materials, old: FileSets,
                     uploads: BOOLEAN, added: FileSets, dropped: FileSets]
OrderCall == [op: {"createOrder"}, step: {"save"}, to: Users, copies: SUBSET Copy]
EditOrderCall == [op: {"updateOrder"}, step: {"save"}, order: Orders, copies: SUBSET Copy, done: SUBSET BOOLEAN]
NoticeCall == [op: {"createNotice"}, step: {"upload", "save"}, scope: Scopes, lecture: LectureIds \cup {None},
               targets: SUBSET Enrollments, materials: SUBSET Materials, uploads: BOOLEAN, added: FileSets]
NoticeEdit == [scope: SUBSET Scopes, lecture: SUBSET (LectureIds \cup {None}), targets: SUBSET SUBSET Enrollments,
               materials: SUBSET SUBSET Materials, kept: FileSets, uploads: BOOLEAN]
EditNoticeCall == [op: {"updateNotice"}, step: {"upload", "save"}, notice: Notices, edit: NoticeEdit, read: NoticeRow,
                   uploads: BOOLEAN, added: FileSets]
ScheduleCall == [op: {"createSchedule"}, step: {"save"}, row: ScheduleRow]
ScheduleEdit == [start: SUBSET Times, end: SUBSET Times, category: SUBSET SUBSET Categories]
EditScheduleCall == [op: {"updateSchedule"}, step: {"save"}, schedule: Schedules, edit: ScheduleEdit, read: ScheduleRow]
ProductEdit == [type: SUBSET ProductTypes, months: SUBSET (0..1), credits: SUBSET (0..1), active: SUBSET BOOLEAN]
EditProductCall == [op: {"updateProduct"}, step: {"save"}, product: Products, edit: ProductEdit, read: ProductRow]

\* A row fits what its check asked for.
NoticeFits(row) == row.state = "there" /\ row.scope = "LECTURE" => row.lecture # None
ProductFits(row) ==
    Purchasable(row) =>
      \/ row.type = "PASS_SINGLE" /\ row.months > 0 /\ row.credits = 0
      \/ row.type = "CREDIT_PACK" /\ row.months = 0 /\ row.credits > 0

BoardCallOK(q) ==
    /\ q.op = "createPost" => q \in CreatePostCall
    /\ q.op = "updateStatus" => q \in StatusCall
    /\ q.op = "updatePost" => q \in EditPostCall /\ q.keeps \subseteq q.old
    /\ q.op = "deletePost" => q \in DeletePostCall
    /\ q.op = "createComment" => q \in CommentCall
    /\ q.op = "deleteComment" => q \in DeleteCommentCall
    /\ q.op = "updateComment" => q \in EditCommentCall
LibraryCallOK(q) ==
    /\ q.op = "uploadMaterial" => q \in UploadMaterialCall
    /\ q.op = "updateMaterial" => q \in EditMaterialCall
    /\ q.op = "createOrder" => q \in OrderCall
    /\ q.op = "updateOrder" => q \in EditOrderCall
    /\ q.op = "createNotice" => q \in NoticeCall /\ (q.scope = "LECTURE" => q.lecture # None)
    /\ q.op = "updateNotice" =>
         /\ q \in EditNoticeCall
         /\ ScopeAfter(q.edit, q.read) = "LECTURE" => OneOr(q.edit.lecture, q.read.lecture) # None
PlannerCallOK(q) ==
    /\ q.op = "createSchedule" => q \in ScheduleCall /\ InOrder(q.row)
    /\ q.op = "updateSchedule" => q \in EditScheduleCall /\ InOrder(EditedSchedule(q.edit, q.read))
    /\ q.op = "updateProduct" => q \in EditProductCall /\ ProductFits(WithFields(q.edit, q.read))
CallOK(q) == BoardCallOK(q) /\ LibraryCallOK(q) /\ PlannerCallOK(q)

Calls == \A r \in Requests : CallOK(req[r])
TypedInv == BoardTypeOK /\ LibraryTypeOK /\ PlannerTypeOK /\ EditsKeepRowsFit /\ Calls
SchoolInv == IInv /\ RosterInv /\ TypedInv

ServiceOps == BoardOps \cup LibraryOps \cup PlannerOps

-----------------------------------------------------------------------------
(***************************************************************************)
(* Calls that begin, go on and end.                                        *)
(***************************************************************************)
LEMMA CallOfOthers == ASSUME NEW q, q.op \notin ServiceOps PROVE CallOK(q)
  BY DEF CallOK, BoardCallOK, LibraryCallOK, PlannerCallOK, ServiceOps, BoardOps, LibraryOps, PlannerOps

LEMMA IdleIsNoCall == Idle.op \notin ServiceOps
  BY DEF Idle, ServiceOps, BoardOps, LibraryOps, PlannerOps

LEMMA CallsKept ==
    ASSUME Calls, NEW ops, Moved(ops), ops \cap ServiceOps = {} PROVE Calls'
<1>1. ASSUME NEW r \in Requests PROVE CallOK(req'[r])
  BY <1>1, CallOfOthers, IdleIsNoCall DEF Calls, Moved, Of
<1> QED
  BY <1>1 DEF Calls

LEMMA CallMoved ==
    ASSUME RequestsOK, Calls, NEW r \in Requests, NEW q, CallOK(q), req' = [req EXCEPT ![r] = q] PROVE Calls'
<1>1. \A s \in Requests : CallOK(req'[s])
  BY DEF RequestsOK, Calls
<1> QED
  BY <1>1 DEF Calls

LEMMA CallBegun ==
    ASSUME RequestsOK, Calls, NEW r \in Requests, NEW op, NEW q, CallOK(q), Begin(r, op, q) PROVE Calls'
  BY CallMoved DEF Begin

LEMMA CallGoesOn ==
    ASSUME RequestsOK, Calls, NEW r \in Requests, NEW q, CallOK(q), Proceed(r, q) PROVE Calls'
  BY CallMoved DEF Proceed

LEMMA CallAnswered == ASSUME RequestsOK, Calls, NEW r \in Requests, Reply(r) PROVE Calls'
  BY CallOfOthers, IdleIsNoCall, CallGoesOn DEF Reply

LEMMA CallServed == ASSUME Calls, NEW op, Serve(op) PROVE Calls'
  BY DEF Serve, Calls

-----------------------------------------------------------------------------
(***************************************************************************)
(* TypedInv: the steps of the board.                                       *)
(***************************************************************************)
LEMMA BoardUntouched == ASSUME BoardTypeOK, UNCHANGED boardVars PROVE BoardTypeOK'
  BY DEF BoardTypeOK, boardVars

\* What is uploaded has a key of its own.
LEMMA UploadTyped ==
    ASSUME BoardTypeOK, NEW r \in Requests, NEW next, Upload(r, next)
    PROVE  BoardTypeOK' /\ (req[r].uploads => {uploads'} \in FileSets)
<1>1. CASE req[r].uploads
  <2>1. uploads' = uploads + 1 /\ uploads' \in 1..MaxFiles
    BY <1>1, BoardAssumption DEF Upload, BoardTypeOK
  <2>2. stored' \subseteq Files
    BY <1>1, <2>1 DEF Upload, BoardTypeOK, Files
  <2> QED
    BY <1>1, <2>1, <2>2 DEF Upload, BoardTypeOK, Files, FileSets
<1>2. CASE ~req[r].uploads
  BY <1>2 DEF Upload, BoardTypeOK
<1> QED
  BY <1>1, <1>2

LEMMA UploadOnBoard == ASSUME RequestsOK, TypedInv, NEW r \in Requests, UploadOf(r) PROVE BoardTypeOK' /\ Calls'
<1>1. PICK q : q = req[r]
  OBVIOUS
<1>2. CASE q.op = "updatePost" /\ Upload(r, "drop")
  <2>1. q \in EditPostCall /\ q.keeps \subseteq q.old
    BY <1>1, <1>2 DEF TypedInv, Calls, CallOK, BoardCallOK
  <2>2. BoardTypeOK' /\ (q.uploads => {uploads'} \in FileSets)
    BY <1>1, <1>2, UploadTyped DEF TypedInv
  <2>3. PICK new : /\ Proceed(r, new)
                    /\ \/ new = [q EXCEPT !.step = "drop", !.added = {uploads'}] /\ q.uploads
                       \/ new = [q EXCEPT !.step = "drop"]
    BY <1>1, <1>2 DEF Upload
  <2>4. new \in EditPostCall /\ new.keeps \subseteq new.old
    BY <2>1, <2>2, <2>3 DEF EditPostCall
  <2>5. CallOK(new)
    BY <2>4 DEF CallOK, BoardCallOK, LibraryCallOK, PlannerCallOK, EditPostCall
  <2> QED
    BY <2>2, <2>3, <2>5, CallGoesOn DEF TypedInv
<1>3. CASE q.op = "updateComment" /\ Upload(r, "clear")
  <2>1. q \in EditCommentCall
    BY <1>1, <1>3 DEF TypedInv, Calls, CallOK, BoardCallOK
  <2>2. BoardTypeOK' /\ (q.uploads => {uploads'} \in FileSets)
    BY <1>1, <1>3, UploadTyped DEF TypedInv
  <2>3. PICK new : /\ Proceed(r, new)
                    /\ \/ new = [q EXCEPT !.step = "clear", !.added = {uploads'}] /\ q.uploads
                       \/ new = [q EXCEPT !.step = "clear"]
    BY <1>1, <1>3 DEF Upload
  <2>4. new \in EditCommentCall
    BY <2>1, <2>2, <2>3 DEF EditCommentCall
  <2>5. CallOK(new)
    BY <2>4 DEF CallOK, BoardCallOK, LibraryCallOK, PlannerCallOK, EditCommentCall
  <2> QED
    BY <2>2, <2>3, <2>5, CallGoesOn DEF TypedInv
<1>4. CASE q.op \in {"createPost", "createComment"} /\ Upload(r, "save")
  <2>1. q \in CreatePostCall \/ q \in CommentCall
    BY <1>1, <1>4 DEF TypedInv, Calls, CallOK, BoardCallOK
  <2>2. BoardTypeOK' /\ (q.uploads => {uploads'} \in FileSets)
    BY <1>1, <1>4, UploadTyped DEF TypedInv
  <2>3. PICK new : /\ Proceed(r, new)
                    /\ \/ new = [q EXCEPT !.step = "save", !.added = {uploads'}] /\ q.uploads
                       \/ new = [q EXCEPT !.step = "save"]
    BY <1>1, <1>4 DEF Upload
  <2>4. new \in CreatePostCall \/ new \in CommentCall
    BY <2>1, <2>2, <2>3 DEF CreatePostCall, CommentCall
  <2>5. CallOK(new)
    BY <2>4 DEF CallOK, BoardCallOK, LibraryCallOK, PlannerCallOK, CreatePostCall, CommentCall
  <2> QED
    BY <2>2, <2>3, <2>5, CallGoesOn DEF TypedInv
<1> QED
  BY <1>1, <1>2, <1>3, <1>4 DEF UploadOf

\* Rows of questions and comments that change.
LEMMA PostRows ==
    ASSUME NEW row \in PostRow, NEW status \in {"BEFORE", "REGISTERED", "COMPLETED"}, NEW files \in FileSets,
           NEW answered \in BOOLEAN
    PROVE  /\ [row EXCEPT !.status = status] \in PostRow /\ [row EXCEPT !.files = files] \in PostRow
           /\ [row EXCEPT !.status = status, !.answered = answered] \in PostRow
           /\ [NoPost EXCEPT !.of = row.of] \in PostRow
           /\ row.of \in Enrollments \cup {None} /\ row.files \subseteq Files
           /\ row.status \in {"BEFORE", "REGISTERED", "COMPLETED"}
  BY DEF PostRow, NoPost, FileSets

LEMMA CommentRows ==
    ASSUME NEW row \in CommentRow, NEW files \in FileSets
    PROVE  /\ [row EXCEPT !.files = files] \in CommentRow /\ DeletedComment \in CommentRow
           /\ row.files \subseteq Files
  BY DEF CommentRow, NoComment, DeletedComment, FileSets, Roles

\* A request begins with what it reads of a question or a comment.
LEMMA BoardBegins ==
    ASSUME RequestsOK, RosterInv, TypedInv, NEW r \in Requests,
           \/ BeginPost(r) \/ BeginStatus(r) \/ BeginEditPost(r) \/ BeginDeletePost(r)
           \/ BeginComment(r) \/ BeginDeleteComment(r) \/ BeginEditComment(r)
    PROVE  UNCHANGED boardVars /\ Calls'
<1> USE DEF CallOK, BoardCallOK, LibraryCallOK, PlannerCallOK
<1>0. Calls /\ BoardTypeOK
  BY DEF TypedInv
<1>1. CASE BeginPost(r)
  <2>1. PICK e \in There, role \in {"STUDENT", "PARENT"}, up \in BOOLEAN :
          Begin(r, "createPost", [op |-> "createPost", step |-> "upload", of |-> e, role |-> role, uploads |-> up,
                                  added |-> {}])
    BY <1>1 DEF BeginPost
  <2>2. [op |-> "createPost", step |-> "upload", of |-> e, role |-> role, uploads |-> up, added |-> {}] \in CreatePostCall
    BY DEF CreatePostCall, There, FileSets
  <2> QED
    BY <1>0, <1>1, <2>1, <2>2, CallBegun DEF BeginPost
<1>2. CASE BeginStatus(r)
  <2>1. PICK p \in Posts, status \in {"REGISTERED", "COMPLETED"} :
          Begin(r, "updateStatus", [op |-> "updateStatus", step |-> "save", post |-> p, status |-> status])
    BY <1>2 DEF BeginStatus
  <2>2. [op |-> "updateStatus", step |-> "save", post |-> p, status |-> status] \in StatusCall
    BY DEF StatusCall
  <2> QED
    BY <1>0, <1>2, <2>1, <2>2, CallBegun DEF BeginStatus
<1>3. CASE BeginEditPost(r)
  <2>1. PICK p \in Posts, lists \in BOOLEAN, up \in BOOLEAN :
          \E keeps \in IF lists THEN SUBSET post[p].files ELSE {{}} :
          Begin(r, "updatePost", [op |-> "updatePost", step |-> "upload", post |-> p, lists |-> lists, keeps |-> keeps,
                                  old |-> post[p].files, uploads |-> up, added |-> {}, dropped |-> {}])
    BY <1>3 DEF BeginEditPost
  <2>0. PICK keeps \in SUBSET post[p].files :
          Begin(r, "updatePost", [op |-> "updatePost", step |-> "upload", post |-> p, lists |-> lists, keeps |-> keeps,
                                  old |-> post[p].files, uploads |-> up, added |-> {}, dropped |-> {}])
    BY <2>1
  <2>2. post[p].files \subseteq Files
    BY <1>0, PostRows DEF BoardTypeOK, FileSets
  <2> DEFINE q == [op |-> "updatePost", step |-> "upload", post |-> p, lists |-> lists, keeps |-> keeps,
                   old |-> post[p].files, uploads |-> up, added |-> {}, dropped |-> {}]
  <2>3. q \in EditPostCall /\ q.keeps \subseteq q.old
    BY <2>2 DEF EditPostCall, FileSets
  <2>4. CallOK(q)
    BY <2>3
  <2> QED
    BY <1>0, <1>3, <2>0, <2>4, CallBegun DEF BeginEditPost
<1>4. CASE BeginDeletePost(r)
  <2>1. PICK p \in Posts :
          Begin(r, "deletePost", [op |-> "deletePost", step |-> "files", post |-> p, old |-> post[p].files, dropped |-> {}])
    BY <1>4 DEF BeginDeletePost
  <2>2. post[p].files \subseteq Files
    BY <1>0, PostRows DEF BoardTypeOK, FileSets
  <2>3. [op |-> "deletePost", step |-> "files", post |-> p, old |-> post[p].files, dropped |-> {}] \in DeletePostCall
    BY <2>2 DEF DeletePostCall, FileSets
  <2> QED
    BY <1>0, <1>4, <2>1, <2>3, CallBegun DEF BeginDeletePost
<1>5. CASE BeginComment(r)
  <2>1. PICK p \in Posts, role \in Roles, up \in BOOLEAN :
          Begin(r, "createComment", [op |-> "createComment", step |-> "upload", on |-> p, role |-> role,
                                     by |-> IF role = "STAFF" THEN None ELSE post[p].of,
                                     status |-> post[p].status, uploads |-> up, added |-> {}])
    BY <1>5 DEF BeginComment
  <2>2. post[p].of \in Enrollments \cup {None} /\ post[p].status \in {"BEFORE", "REGISTERED", "COMPLETED"}
    BY <1>0 DEF BoardTypeOK, PostRow
  <2> DEFINE q == [op |-> "createComment", step |-> "upload", on |-> p, role |-> role,
                   by |-> IF role = "STAFF" THEN None ELSE post[p].of,
                   status |-> post[p].status, uploads |-> up, added |-> {}]
  <2>3. q \in CommentCall
    BY <2>2 DEF CommentCall, FileSets
  <2>4. CallOK(q)
    BY <2>3
  <2> QED
    BY <1>0, <1>5, <2>1, <2>4, CallBegun DEF BeginComment
<1>6. CASE BeginDeleteComment(r)
  <2>1. PICK c \in Comments :
          Begin(r, "deleteComment", [op |-> "deleteComment", step |-> "drop", comment |-> c, dropped |-> {}])
    BY <1>6 DEF BeginDeleteComment
  <2>2. [op |-> "deleteComment", step |-> "drop", comment |-> c, dropped |-> {}] \in DeleteCommentCall
    BY DEF DeleteCommentCall, FileSets
  <2> QED
    BY <1>0, <1>6, <2>1, <2>2, CallBegun DEF BeginDeleteComment
<1>7. CASE BeginEditComment(r)
  <2>1. PICK c \in Comments, rows \in {"remove", "materials", "keep"}, up \in BOOLEAN,
             step \in {"drop", "upload"} :
          Begin(r, "updateComment", [op |-> "updateComment", step |-> step, comment |-> c, rows |-> rows, uploads |-> up,
                                     added |-> {}, dropped |-> {}])
    BY <1>7 DEF BeginEditComment
  <2>2. [op |-> "updateComment", step |-> step, comment |-> c, rows |-> rows, uploads |-> up, added |-> {},
         dropped |-> {}] \in EditCommentCall
    BY DEF EditCommentCall, FileSets
  <2> QED
    BY <1>0, <1>7, <2>1, <2>2, CallBegun DEF BeginEditComment
<1> QED
  BY <1>1, <1>2, <1>3, <1>4, <1>5, <1>6, <1>7
\* Files are removed from S3, or rows are written.
LEMMA BoardDrops ==
    ASSUME RequestsOK, TypedInv, NEW r \in Requests, DropOldFiles(r) \/ DropPostFiles(r) \/ DropCommentFiles(r)
    PROVE  BoardTypeOK' /\ Calls'
<1> USE DEF CallOK, BoardCallOK, LibraryCallOK, PlannerCallOK
<1>0. Calls /\ BoardTypeOK /\ CallOK(req[r])
  BY DEF TypedInv, Calls
<1>1. PICK q : q = req[r]
  OBVIOUS
<1>2. CASE DropOldFiles(r)
  <2>1. q \in EditPostCall /\ q.keeps \subseteq q.old
    BY <1>0, <1>1, <1>2 DEF DropOldFiles, At
  <2>2. PICK removed \in SUBSET q.old :
          stored' = stored \ removed /\ Proceed(r, [q EXCEPT !.step = "clear", !.dropped = @ \cup removed])
    BY <1>1, <1>2 DEF DropOldFiles, Drop
  <2> DEFINE new == [q EXCEPT !.step = "clear", !.dropped = @ \cup removed]
  <2>3. new \in EditPostCall /\ new.keeps \subseteq new.old /\ new.op = "updatePost"
    BY <2>1 DEF EditPostCall, FileSets
  <2>4. CallOK(new)
    BY <2>3
  <2>5. BoardTypeOK'
    BY <1>0, <1>2, <2>2 DEF DropOldFiles, BoardTypeOK
  <2> QED
    BY <1>0, <2>2, <2>4, <2>5, CallGoesOn
<1>3. CASE DropPostFiles(r)
  <2>1. q \in DeletePostCall
    BY <1>0, <1>1, <1>3 DEF DropPostFiles, At
  <2>2. q.old \subseteq Files /\ FilesOn(q.post) \subseteq Files
    BY <1>0, <2>1 DEF DeletePostCall, FileSets, FilesOn, On, BoardTypeOK, CommentRow
  <2>3. PICK removed \in FileSets, step \in {"comments", "save"} :
          stored' = stored \ removed /\ Proceed(r, [q EXCEPT !.step = step, !.dropped = @ \cup removed])
    BY <1>1, <1>3, <2>2 DEF DropPostFiles, Drop, FileSets
  <2> DEFINE new == [q EXCEPT !.step = step, !.dropped = @ \cup removed]
  <2>4. new \in DeletePostCall /\ new.op = "deletePost"
    BY <2>1 DEF DeletePostCall, FileSets
  <2>5. CallOK(new)
    BY <2>4
  <2>6. BoardTypeOK'
    BY <1>0, <1>3, <2>3 DEF DropPostFiles, BoardTypeOK
  <2> QED
    BY <1>0, <2>3, <2>5, <2>6, CallGoesOn
<1>4. CASE DropCommentFiles(r)
  <2>1. (q \in DeleteCommentCall /\ q.op = "deleteComment") \/ (q \in EditCommentCall /\ q.op = "updateComment")
    <3>1. q.op = "deleteComment" \/ q.op = "updateComment"
      BY <1>1, <1>4 DEF DropCommentFiles
    <3>2. BoardCallOK(q)
      BY <1>0, <1>1
    <3> QED
      BY <3>1, <3>2
  <2>2. q.comment \in Comments
    BY <2>1 DEF DeleteCommentCall, EditCommentCall
  <2>3. DirectFiles(q) \subseteq Files
    BY <1>0, <2>2, CommentRows DEF DirectFiles, BoardTypeOK, FileSets
  <2>0. PICK step \in {"save", "upload"} : step = IF q.op = "deleteComment" THEN "save" ELSE "upload"
    OBVIOUS
  <2>4. PICK removed \in FileSets :
          stored' = stored \ removed /\ Proceed(r, [q EXCEPT !.step = step, !.dropped = @ \cup removed])
    BY <1>1, <1>4, <2>0, <2>3 DEF DropCommentFiles, Drop, FileSets
  <2> DEFINE new == [q EXCEPT !.step = step, !.dropped = @ \cup removed]
  <2>5. (new \in DeleteCommentCall /\ new.op = "deleteComment") \/ (new \in EditCommentCall /\ new.op = "updateComment")
    <3>1. CASE q \in DeleteCommentCall /\ q.op = "deleteComment"
      BY <2>0, <3>1 DEF DeleteCommentCall, FileSets
    <3>2. CASE q \in EditCommentCall /\ q.op = "updateComment"
      <4>1. step = "upload"
        BY <2>0, <3>2
      <4>2. new \in EditCommentCall /\ new.op = q.op
        BY <3>2, <4>1 DEF EditCommentCall, FileSets
      <4> QED
        BY <3>2, <4>2
    <3> QED
      BY <2>1, <3>1, <3>2
  <2>6. CallOK(new)
    BY <2>5
  <2>7. BoardTypeOK'
    BY <1>0, <1>4, <2>4 DEF DropCommentFiles, BoardTypeOK
  <2> HIDE DEF new
  <2> QED
    BY <1>0, <2>4, <2>6, <2>7, CallGoesOn DEF new
<1> QED
  BY <1>2, <1>3, <1>4

LEMMA PostsSaved ==
    ASSUME RequestsOK, TypedInv, NEW r \in Requests,
           SavePost(r) \/ SaveStatus(r) \/ ClearAttachments(r) \/ InsertAttachments(r) \/ DeletePost(r)
    PROVE  BoardTypeOK' /\ Calls'
<1> USE DEF CallOK, BoardCallOK, LibraryCallOK, PlannerCallOK
<1>0. Calls /\ BoardTypeOK /\ CallOK(req[r])
  BY DEF TypedInv, Calls
<1>1. PICK q : q = req[r]
  OBVIOUS
<1>2. CASE SavePost(r)
  <2>1. q \in CreatePostCall
    BY <1>0, <1>1, <1>2 DEF SavePost, At
  <2>2. [NoPost EXCEPT !.there = TRUE, !.of = q.of, !.role = q.role, !.files = q.added] \in PostRow
    BY <2>1 DEF NoPost, PostRow, CreatePostCall, FileSets
  <2>3. post' \in [Posts -> PostRow]
    BY <1>0, <1>1, <1>2, <2>2 DEF SavePost, BoardTypeOK
  <2> QED
    BY <1>0, <1>2, <2>3, CallAnswered DEF SavePost, BoardTypeOK
<1>3. CASE SaveStatus(r)
  <2>1. q \in StatusCall
    BY <1>0, <1>1, <1>3 DEF SaveStatus, At
  <2>2. [post[q.post] EXCEPT !.status = q.status] \in PostRow
    BY <1>0, <2>1 DEF StatusCall, BoardTypeOK, PostRow
  <2>3. post' \in [Posts -> PostRow]
    BY <1>0, <1>1, <1>3, <2>2 DEF SaveStatus, BoardTypeOK
  <2> QED
    BY <1>0, <1>3, <2>3, CallAnswered DEF SaveStatus, BoardTypeOK
<1>4. CASE ClearAttachments(r)
  <2>1. q \in EditPostCall /\ q.keeps \subseteq q.old
    BY <1>0, <1>1, <1>4 DEF ClearAttachments, At
  <2>2. [post[q.post] EXCEPT !.files = {}] \in PostRow
    BY <1>0, <2>1 DEF EditPostCall, BoardTypeOK, PostRow
  <2>3. post' \in [Posts -> PostRow]
    BY <1>0, <1>1, <1>4, <2>2 DEF ClearAttachments, BoardTypeOK
  <2> DEFINE new == [q EXCEPT !.step = "insert"]
  <2>4. new \in EditPostCall /\ new.keeps \subseteq new.old /\ new.op = "updatePost"
    BY <2>1 DEF EditPostCall
  <2>5. CallOK(new)
    BY <2>4
  <2>6. Proceed(r, new) /\ UNCHANGED <<comment, stored, uploads, lost>>
    BY <1>1, <1>4 DEF ClearAttachments
  <2> HIDE DEF new
  <2> QED
    BY <1>0, <2>3, <2>5, <2>6, CallGoesOn DEF BoardTypeOK
<1>5. CASE InsertAttachments(r)
  <2>1. q \in EditPostCall
    BY <1>0, <1>1, <1>5 DEF InsertAttachments, At
  <2>2. [post[q.post] EXCEPT !.files = @ \cup q.keeps \cup q.added] \in PostRow
    BY <1>0, <2>1 DEF EditPostCall, BoardTypeOK, PostRow, FileSets
  <2>3. post' \in [Posts -> PostRow]
    BY <1>0, <1>1, <1>5, <2>2 DEF InsertAttachments, BoardTypeOK
  <2>4. lost' \subseteq Files
    BY <1>0, <1>1, <1>5, <2>1 DEF InsertAttachments, BoardTypeOK, EditPostCall, FileSets
  <2> QED
    BY <1>0, <1>5, <2>3, <2>4, CallAnswered DEF InsertAttachments, BoardTypeOK
<1>6. CASE DeletePost(r)
  <2>1. q \in DeletePostCall
    BY <1>0, <1>1, <1>6 DEF DeletePost, At
  <2>2. [NoPost EXCEPT !.of = post[q.post].of] \in PostRow
    BY <1>0, <2>1 DEF DeletePostCall, BoardTypeOK, PostRow, NoPost
  <2>3. post' \in [Posts -> PostRow]
    BY <1>0, <1>1, <1>6, <2>2 DEF DeletePost, BoardTypeOK
  <2>4. comment' \in [Comments -> CommentRow]
    <3>1. DeletedComment \in CommentRow
      BY DEF CommentRow, DeletedComment, NoComment, Roles
    <3>2. comment' = [c \in Comments |-> IF comment[c].on = q.post THEN DeletedComment ELSE comment[c]]
      BY <1>1, <1>6 DEF DeletePost
    <3> QED
      BY <1>0, <3>1, <3>2 DEF BoardTypeOK
  <2> QED
    BY <1>0, <1>6, <2>3, <2>4, CallAnswered DEF DeletePost, BoardTypeOK
<1> QED
  BY <1>2, <1>3, <1>4, <1>5, <1>6

\* WriteComment, of a comment on a question or an announcement.
LEMMA CommentWritten ==
    ASSUME BoardTypeOK, NEW q \in CommentCall, NEW there, WriteComment(q, there)
    PROVE  comment' \in [Comments -> CommentRow] /\ stored' \subseteq stored
<1>1. [on |-> q.on, by |-> q.by, role |-> q.role, files |-> q.added, gone |-> FALSE] \in CommentRow
  BY DEF CommentCall, CommentRow, FileSets
<1>2. CASE there
  BY <1>1, <1>2 DEF WriteComment, BoardTypeOK
<1>3. CASE ~there
  BY <1>3 DEF WriteComment, BoardTypeOK, CleanUp
<1> QED
  BY <1>2, <1>3

LEMMA CommentsSaved ==
    ASSUME RequestsOK, TypedInv, NEW r \in Requests,
           SaveComment(r) \/ DeleteComment(r) \/ ClearCommentRows(r) \/ InsertCommentRows(r)
    PROVE  BoardTypeOK' /\ Calls'
<1> USE DEF CallOK, BoardCallOK, LibraryCallOK, PlannerCallOK
<1>0. Calls /\ BoardTypeOK /\ CallOK(req[r])
  BY DEF TypedInv, Calls
<1>1. PICK q : q = req[r]
  OBVIOUS
<1>2. CASE SaveComment(r)
  <2>1. q \in CommentCall /\ q.on \in Posts
    BY <1>0, <1>1, <1>2 DEF SaveComment, At
  <2>2. comment' \in [Comments -> CommentRow] /\ stored' \subseteq stored
    BY <1>0, <1>1, <1>2, <2>1, CommentWritten DEF SaveComment
  <2>3. PICK status \in {"BEFORE", "REGISTERED", "COMPLETED"}, answered \in BOOLEAN :
          /\ status = IF FirstAnswer(q) THEN "REGISTERED" ELSE post[q.on].status
          /\ answered <=> post[q.on].answered \/ q.role = "STAFF"
    BY <1>0, <2>1 DEF BoardTypeOK, PostRow
  <2>4. [post[q.on] EXCEPT !.status = status, !.answered = answered] \in PostRow
    BY <1>0, <2>1, PostRows DEF BoardTypeOK, FileSets
  <2>5. post' = IF post[q.on].there
                THEN [post EXCEPT ![q.on] = [post[q.on] EXCEPT !.status = status, !.answered = answered]] ELSE post
    BY <1>0, <1>1, <1>2, <2>1, <2>3 DEF SaveComment, BoardTypeOK, PostRow
  <2>6. post' \in [Posts -> PostRow]
    BY <1>0, <2>4, <2>5 DEF BoardTypeOK
  <2> QED
    BY <1>0, <1>2, <2>2, <2>6, CallAnswered DEF SaveComment, BoardTypeOK
<1>3. CASE DeleteComment(r)
  <2>1. DeletedComment \in CommentRow
    BY DEF CommentRow, DeletedComment, NoComment, Roles
  <2> QED
    BY <1>0, <1>3, <2>1, CallAnswered DEF DeleteComment, BoardTypeOK
<1>4. CASE ClearCommentRows(r)
  <2>1. q \in EditCommentCall
    BY <1>0, <1>1, <1>4 DEF ClearCommentRows, At
  <2>2. [comment[q.comment] EXCEPT !.files = {}] \in CommentRow
    BY <1>0, <2>1 DEF EditCommentCall, BoardTypeOK, CommentRow
  <2>3. comment' \in [Comments -> CommentRow]
    BY <1>0, <1>1, <1>4, <2>2 DEF ClearCommentRows, BoardTypeOK
  <2> DEFINE new == [q EXCEPT !.step = "insert"]
  <2>4. new \in EditCommentCall /\ new.op = "updateComment"
    BY <2>1 DEF EditCommentCall
  <2>5. CallOK(new)
    BY <2>4
  <2>6. Proceed(r, new) /\ UNCHANGED <<post, stored, uploads, lost>>
    BY <1>1, <1>4 DEF ClearCommentRows
  <2> HIDE DEF new
  <2> QED
    BY <1>0, <2>3, <2>5, <2>6, CallGoesOn DEF BoardTypeOK
<1>5. CASE InsertCommentRows(r)
  <2>1. q \in EditCommentCall
    BY <1>0, <1>1, <1>5 DEF InsertCommentRows, At
  <2>2. [comment[q.comment] EXCEPT !.files = @ \cup NewRows(q)] \in CommentRow
    BY <1>0, <2>1 DEF EditCommentCall, BoardTypeOK, CommentRow, NewRows, FileSets
  <2>3. comment' \in [Comments -> CommentRow] /\ stored' \subseteq stored
    BY <1>0, <1>1, <1>5, <2>2 DEF InsertCommentRows, BoardTypeOK, CleanUp
  <2> QED
    BY <1>0, <1>5, <2>3, CallAnswered DEF InsertCommentRows, BoardTypeOK
<1> QED
  BY <1>2, <1>3, <1>4, <1>5

LEMMA BoardTyped ==
    ASSUME RequestsOK, RosterInv, TypedInv, BoardNext, UNCHANGED <<libraryVars, plannerVars>> PROVE TypedInv'
<1>1. ASSUME NEW r \in Requests,
             \/ BeginPost(r) \/ BeginStatus(r) \/ BeginEditPost(r) \/ BeginDeletePost(r)
             \/ BeginComment(r) \/ BeginDeleteComment(r) \/ BeginEditComment(r)
      PROVE  BoardTypeOK' /\ Calls'
  BY <1>1, BoardBegins, BoardUntouched DEF TypedInv
<1>2. BoardTypeOK' /\ Calls'
  BY <1>1, BoardDrops, PostsSaved, CommentsSaved, UploadOnBoard DEF BoardNext
<1>3. LibraryTypeOK' /\ PlannerTypeOK' /\ EditsKeepRowsFit'
  BY DEF TypedInv, libraryVars, plannerVars, LibraryTypeOK, PlannerTypeOK, EditsKeepRowsFit, NoticeHasLecture, NoticeThere,
     SchedulesInOrder, PurchasableAsTyped
<1> QED
  BY <1>2, <1>3 DEF TypedInv
-----------------------------------------------------------------------------
(***************************************************************************)
(* TypedInv: the steps of the library.  An edit of an announcement is      *)
(* checked with the row it read; saved over that row, it leaves one that   *)
(* fits, and saved over another it leaves one that is marked.              *)
(***************************************************************************)
LEMMA Given ==
    ASSUME NEW S, NEW given \in SUBSET S, NEW was \in S PROVE OneOr(given, was) \in S /\ OneOf(given, was) \in S
  BY DEF OneOr, OneOf

LEMMA GivenSet ==
    ASSUME NEW S, NEW given \in SUBSET SUBSET S, NEW was \in SUBSET S PROVE OneOr(given, was) \in SUBSET S
  BY Given

LEMMA EditsTyped == ASSUME NEW row \in NoticeRow, NEW edit \in Edits(row), LibraryTypeOK PROVE edit \in NoticeEdit
<1>1. There \subseteq Enrollments /\ LectureRows \subseteq LectureIds /\ Live \subseteq Materials /\ row.files \subseteq Files
  BY DEF There, LectureRows, Live, NoticeRow
<1>2. SUBSET There \subseteq SUBSET Enrollments /\ SUBSET Live \subseteq SUBSET Materials
  BY <1>1
<1>3. CASE edit \in [scope: {{}} \cup {{s} : s \in Scopes}, lecture: {{}} \cup {{l} : l \in LectureRows \cup {None}},
                   targets: {{}} \cup {{es} : es \in SUBSET There}, materials: {{}}, kept: {{}}, uploads: {FALSE}]
  <2>1. edit.scope \in SUBSET Scopes /\ edit.lecture \in SUBSET (LectureIds \cup {None})
    BY <1>1, <1>3
  <2>2. edit.targets \in SUBSET SUBSET Enrollments
    BY <1>2, <1>3
  <2>3. edit.materials \in SUBSET SUBSET Materials /\ edit.kept \in SUBSET Files /\ edit.uploads \in BOOLEAN
    BY <1>3
  <2> QED
    BY <1>3, <2>1, <2>2, <2>3 DEF NoticeEdit, FileSets
<1>4. CASE edit \in [scope: {{}}, lecture: {{}}, targets: {{}}, materials: {{}} \cup {{ms} : ms \in SUBSET Live},
                   kept: SUBSET row.files, uploads: BOOLEAN]
  <2>1. edit.materials \in SUBSET SUBSET Materials
    BY <1>2, <1>4
  <2>2. edit.scope \in SUBSET Scopes /\ edit.lecture \in SUBSET (LectureIds \cup {None})
        /\ edit.targets \in SUBSET SUBSET Enrollments
    BY <1>4
  <2>3. edit.kept \in SUBSET Files /\ edit.uploads \in BOOLEAN
    BY <1>1, <1>4
  <2> QED
    BY <1>4, <2>1, <2>2, <2>3 DEF NoticeEdit, FileSets
<1> QED
  BY <1>3, <1>4 DEF Edits

LEMMA NoticeEdited ==
    ASSUME NEW q \in EditNoticeCall, NEW row \in NoticeRow
    PROVE  /\ EditedNotice(q, row) \in NoticeRow
           /\ EditedNotice(q, row).state = row.state
           /\ EditedNotice(q, row).scope = ScopeAfter(q.edit, row)
           /\ EditedNotice(q, row).lecture = OneOr(q.edit.lecture, row.lecture)
           /\ EditedNotice(q, row).overtaken <=> row.overtaken \/ row # q.read
           /\ EditedNotice(q, row).files = (IF q.edit.materials # {} \/ q.edit.kept \cup q.added # {}
                                            THEN q.edit.kept \cup q.added ELSE row.files)
<1> DEFINE scope == OneOr(q.edit.scope, row.scope)
           lecture == OneOr(q.edit.lecture, row.lecture)
           targets == OneOr(q.edit.targets, row.targets)
           direct == q.edit.kept \cup q.added
           attaches == q.edit.materials # {} \/ direct # {}
           materials == IF attaches THEN OneOr(q.edit.materials, {}) ELSE row.materials
           files == IF attaches THEN direct ELSE row.files
<1>0. q.edit \in NoticeEdit /\ q.added \subseteq Files
  BY DEF EditNoticeCall, FileSets
<1>1. scope \in Scopes
  BY <1>0, Given DEF NoticeEdit, NoticeRow
<1>2. lecture \in LectureIds \cup {None}
  BY <1>0, Given DEF NoticeEdit, NoticeRow
<1>3. targets \in SUBSET Enrollments
  <2>1. q.edit.targets \in SUBSET SUBSET Enrollments /\ row.targets \in SUBSET Enrollments
    BY <1>0 DEF NoticeEdit, NoticeRow
  <2> QED
    BY <2>1, GivenSet
<1>4. materials \in SUBSET Materials
  <2>0. q.edit.materials \in SUBSET SUBSET Materials
    BY <1>0 DEF NoticeEdit
  <2>1. OneOr(q.edit.materials, {}) \in SUBSET Materials
    BY <2>0, GivenSet
  <2> QED
    BY <2>1 DEF NoticeRow
<1>5. files \in SUBSET Files
  BY <1>0 DEF NoticeEdit, NoticeRow, FileSets
<1>6. PICK overtaken \in BOOLEAN : overtaken <=> row.overtaken \/ row # q.read
  OBVIOUS
<1>7. EditedNotice(q, row) =
        [row EXCEPT !.scope = scope, !.lecture = lecture, !.targets = targets, !.materials = materials, !.files = files,
                    !.overtaken = overtaken]
  <2>1. overtaken = (row.overtaken \/ row # q.read)
    BY <1>6 DEF NoticeRow
  <2> HIDE DEF scope, lecture, targets
  <2> QED
    BY <2>1 DEF EditedNotice, scope, lecture, targets, NoticeRow
<1>8. scope = ScopeAfter(q.edit, row)
  BY DEF ScopeAfter
<1>9. files = (IF q.edit.materials # {} \/ q.edit.kept \cup q.added # {} THEN q.edit.kept \cup q.added ELSE row.files)
  OBVIOUS
<1> HIDE DEF scope, lecture, targets, materials, files
<1> QED
  BY <1>1, <1>2, <1>3, <1>4, <1>5, <1>6, <1>7, <1>8, <1>9 DEF NoticeRow, lecture

LEMMA UploadInLibrary == ASSUME RequestsOK, TypedInv, NEW r \in Requests, UploadToLibrary(r) PROVE BoardTypeOK' /\ Calls'
<1>1. PICK q : q = req[r]
  OBVIOUS
<1>2. CASE q.op = "updateMaterial" /\ Upload(r, "drop")
  <2>1. q \in EditMaterialCall
    BY <1>1, <1>2 DEF TypedInv, Calls, CallOK, LibraryCallOK
  <2>2. BoardTypeOK' /\ (q.uploads => {uploads'} \in FileSets)
    BY <1>1, <1>2, UploadTyped DEF TypedInv
  <2>3. PICK new : /\ Proceed(r, new)
                   /\ \/ new = [q EXCEPT !.step = "drop", !.added = {uploads'}] /\ q.uploads
                      \/ new = [q EXCEPT !.step = "drop"]
    BY <1>1, <1>2 DEF Upload
  <2>4. new \in EditMaterialCall
    BY <2>1, <2>2, <2>3 DEF EditMaterialCall
  <2>5. CallOK(new)
    BY <2>4 DEF CallOK, BoardCallOK, LibraryCallOK, PlannerCallOK, EditMaterialCall
  <2> QED
    BY <2>2, <2>3, <2>5, CallGoesOn DEF TypedInv
<1>3. CASE q.op \in {"uploadMaterial", "createNotice"} /\ Upload(r, "save")
  <2>1. q \in UploadMaterialCall \/ (q \in NoticeCall /\ (q.scope = "LECTURE" => q.lecture # None))
    BY <1>1, <1>3 DEF TypedInv, Calls, CallOK, LibraryCallOK
  <2>2. BoardTypeOK' /\ (q.uploads => {uploads'} \in FileSets)
    BY <1>1, <1>3, UploadTyped DEF TypedInv
  <2>3. PICK new : /\ Proceed(r, new)
                   /\ \/ new = [q EXCEPT !.step = "save", !.added = {uploads'}] /\ q.uploads
                      \/ new = [q EXCEPT !.step = "save"]
    BY <1>1, <1>3 DEF Upload
  <2>4. new \in UploadMaterialCall \/ (new \in NoticeCall /\ (new.scope = "LECTURE" => new.lecture # None))
    <3>1. CASE q \in UploadMaterialCall
      BY <2>2, <2>3, <3>1 DEF UploadMaterialCall
    <3>2. CASE q \in NoticeCall /\ (q.scope = "LECTURE" => q.lecture # None)
      BY <2>2, <2>3, <3>2 DEF NoticeCall
    <3> QED
      BY <2>1, <3>1, <3>2
  <2>5. CallOK(new)
    BY <2>4 DEF CallOK, BoardCallOK, LibraryCallOK, PlannerCallOK, UploadMaterialCall, NoticeCall
  <2> QED
    BY <2>2, <2>3, <2>5, CallGoesOn DEF TypedInv
<1>4. CASE q.op = "updateNotice" /\ Upload(r, "save")
  <2>1. q \in EditNoticeCall /\ (ScopeAfter(q.edit, q.read) = "LECTURE" => OneOr(q.edit.lecture, q.read.lecture) # None)
    BY <1>1, <1>4 DEF TypedInv, Calls, CallOK, LibraryCallOK
  <2>2. BoardTypeOK' /\ (q.uploads => {uploads'} \in FileSets)
    BY <1>1, <1>4, UploadTyped DEF TypedInv
  <2>3. PICK new : /\ Proceed(r, new)
                   /\ \/ new = [q EXCEPT !.step = "save", !.added = {uploads'}] /\ q.uploads
                      \/ new = [q EXCEPT !.step = "save"]
    BY <1>1, <1>4 DEF Upload
  <2>4. new \in EditNoticeCall /\ new.edit = q.edit /\ new.read = q.read /\ new.op = "updateNotice"
    BY <2>1, <2>2, <2>3 DEF EditNoticeCall
  <2>5. CallOK(new)
    BY <2>1, <2>4 DEF CallOK, BoardCallOK, LibraryCallOK, PlannerCallOK
  <2> QED
    BY <2>2, <2>3, <2>5, CallGoesOn DEF TypedInv
<1> QED
  BY <1>1, <1>2, <1>3, <1>4 DEF UploadToLibrary

\* A request begins with what it reads of materials, orders and announcements.
LEMMA CopiesTyped == ASSUME LibraryTypeOK, NEW ms \in SUBSET Live PROVE CopiesOf(ms) \in SUBSET Copy
<1>1. ASSUME NEW m \in ms PROVE [of |-> m, files |-> material[m].files] \in Copy
  BY DEF Live, LibraryTypeOK, MaterialRow, Copy
<1> QED
  BY <1>1 DEF CopiesOf

LEMMA LibraryBegins ==
    ASSUME RequestsOK, RosterInv, TypedInv, NEW r \in Requests,
           \/ BeginUploadMaterial(r) \/ BeginEditMaterial(r) \/ BeginOrder(r) \/ BeginEditOrder(r)
           \/ BeginNotice(r) \/ BeginEditNotice(r) \/ BeginNoticeComment(r)
    PROVE  UNCHANGED <<boardVars, libraryVars>> /\ Calls'
<1> USE DEF CallOK, BoardCallOK, LibraryCallOK, PlannerCallOK
<1>0. Calls /\ LibraryTypeOK
  BY DEF TypedInv
<1>1. CASE BeginUploadMaterial(r)
  <2>1. PICK video \in BOOLEAN :
          Begin(r, "uploadMaterial", [op |-> "uploadMaterial", step |-> "upload", uploads |-> ~video, added |-> {}])
    BY <1>1 DEF BeginUploadMaterial
  <2>2. [op |-> "uploadMaterial", step |-> "upload", uploads |-> ~video, added |-> {}] \in UploadMaterialCall
    BY DEF UploadMaterialCall, FileSets
  <2> QED
    BY <1>0, <1>1, <2>1, <2>2, CallBegun DEF BeginUploadMaterial
<1>2. CASE BeginEditMaterial(r)
  <2>1. PICK m \in Live, up \in BOOLEAN :
          Begin(r, "updateMaterial", [op |-> "updateMaterial", step |-> "upload", material |-> m,
                                      old |-> material[m].files, uploads |-> up, added |-> {}, dropped |-> {}])
    BY <1>2 DEF BeginEditMaterial
  <2>2. [op |-> "updateMaterial", step |-> "upload", material |-> m, old |-> material[m].files, uploads |-> up,
         added |-> {}, dropped |-> {}] \in EditMaterialCall
    BY <1>0 DEF EditMaterialCall, Live, LibraryTypeOK, MaterialRow, FileSets
  <2> QED
    BY <1>0, <1>2, <2>1, <2>2, CallBegun DEF BeginEditMaterial
<1>3. CASE BeginOrder(r)
  <2>1. PICK u \in Users, ms \in SUBSET Live :
          Begin(r, "createOrder", [op |-> "createOrder", step |-> "save", to |-> u, copies |-> CopiesOf(ms)])
    BY <1>3 DEF BeginOrder
  <2>2. [op |-> "createOrder", step |-> "save", to |-> u, copies |-> CopiesOf(ms)] \in OrderCall
    BY <1>0, CopiesTyped DEF OrderCall
  <2> QED
    BY <1>0, <1>3, <2>1, <2>2, CallBegun DEF BeginOrder
<1>4. CASE BeginEditOrder(r)
  <2>1. PICK o \in Orders, ms \in SUBSET Live, done \in SUBSET BOOLEAN :
          Begin(r, "updateOrder", [op |-> "updateOrder", step |-> "save", order |-> o, copies |-> CopiesOf(ms),
                                   done |-> done])
    BY <1>4 DEF BeginEditOrder
  <2>2. [op |-> "updateOrder", step |-> "save", order |-> o, copies |-> CopiesOf(ms), done |-> done] \in EditOrderCall
    BY <1>0, CopiesTyped DEF EditOrderCall
  <2> QED
    BY <1>0, <1>4, <2>1, <2>2, CallBegun DEF BeginEditOrder
<1>5. CASE BeginNotice(r)
  <2>1. PICK scope \in Scopes, l \in LectureRows \cup {None}, es \in SUBSET {e \in There : ~enrollment[e].deleted},
             ms \in SUBSET Live, up \in BOOLEAN :
          /\ scope = "LECTURE" => l # None
          /\ Begin(r, "createNotice", [op |-> "createNotice", step |-> "upload", scope |-> scope, lecture |-> l,
                                       targets |-> IF scope = "SELECTED" THEN es ELSE {}, materials |-> ms,
                                       uploads |-> up, added |-> {}])
    BY <1>5 DEF BeginNotice
  <2> DEFINE q == [op |-> "createNotice", step |-> "upload", scope |-> scope, lecture |-> l,
                   targets |-> IF scope = "SELECTED" THEN es ELSE {}, materials |-> ms, uploads |-> up, added |-> {}]
  <2>2. es \subseteq Enrollments /\ l \in LectureIds \cup {None} /\ ms \subseteq Materials
    BY DEF There, LectureRows, Live
  <2>3. q \in NoticeCall /\ (q.scope = "LECTURE" => q.lecture # None)
    BY <2>1, <2>2 DEF NoticeCall, FileSets
  <2>4. CallOK(q)
    BY <2>3
  <2> QED
    BY <1>0, <1>5, <2>1, <2>4, CallBegun DEF BeginNotice
<1>6. CASE BeginEditNotice(r)
  <2>1. PICK n \in Notices : \E edit \in Edits(notice[n]) :
          /\ Allowed(edit, notice[n])
          /\ Begin(r, "updateNotice", [op |-> "updateNotice", step |-> "upload", notice |-> n, edit |-> edit,
                                       read |-> notice[n], uploads |-> edit.uploads, added |-> {}])
    BY <1>6 DEF BeginEditNotice
  <2>2. PICK row : row = notice[n]
    OBVIOUS
  <2>3. PICK edit \in Edits(row) :
          /\ Allowed(edit, row)
          /\ Begin(r, "updateNotice", [op |-> "updateNotice", step |-> "upload", notice |-> n, edit |-> edit,
                                       read |-> row, uploads |-> edit.uploads, added |-> {}])
    BY <2>1, <2>2
  <2>4. row \in NoticeRow
    BY <1>0, <2>2 DEF LibraryTypeOK
  <2>5. edit \in NoticeEdit
    BY <1>0, <2>4, EditsTyped
  <2> DEFINE q == [op |-> "updateNotice", step |-> "upload", notice |-> n, edit |-> edit, read |-> row,
                   uploads |-> edit.uploads, added |-> {}]
  <2>6. q \in EditNoticeCall
    BY <2>4, <2>5 DEF EditNoticeCall, NoticeEdit, FileSets
  <2>7. ScopeAfter(q.edit, q.read) = "LECTURE" => OneOr(q.edit.lecture, q.read.lecture) # None
    BY <2>3 DEF Allowed
  <2>8. CallOK(q)
    BY <2>6, <2>7
  <2> QED
    BY <1>0, <1>6, <2>3, <2>8, CallBegun DEF BeginEditNotice
<1>7. CASE BeginNoticeComment(r)
  <2>1. PICK n \in Notices, role \in Roles, up \in BOOLEAN : \E e \in CommentsThrough(n, role) :
          Begin(r, "createComment", [op |-> "createComment", step |-> "upload", on |-> n, role |-> role, by |-> e,
                                     status |-> None, uploads |-> up, added |-> {}])
    BY <1>7 DEF BeginNoticeComment
  <2>2. CommentsThrough(n, role) \subseteq Enrollments \cup {None}
    <3>1. StudentSeats(notice[n].lecture) \subseteq Enrollments /\ ChildSeats(notice[n].lecture) \subseteq Enrollments
      BY DEF StudentSeats, ChildSeats, There
    <3> QED
      BY <3>1 DEF CommentsThrough
  <2>3. PICK e \in Enrollments \cup {None} :
          Begin(r, "createComment", [op |-> "createComment", step |-> "upload", on |-> n, role |-> role, by |-> e,
                                     status |-> None, uploads |-> up, added |-> {}])
    BY <2>1, <2>2
  <2>4. [op |-> "createComment", step |-> "upload", on |-> n, role |-> role, by |-> e, status |-> None, uploads |-> up,
         added |-> {}] \in CommentCall
    BY DEF CommentCall, FileSets
  <2> QED
    BY <1>0, <1>7, <2>3, <2>4, CallBegun DEF BeginNoticeComment
<1> QED
  BY <1>1, <1>2, <1>3, <1>4, <1>5, <1>6, <1>7

\* Materials and orders are written; the board only loses the name of a file.
LEMMA MaterialsSaved ==
    ASSUME RequestsOK, TypedInv, NEW r \in Requests, CreateMaterial(r) \/ DropOldMaterial(r) \/ SaveMaterial(r)
    PROVE  BoardTypeOK' /\ material' \in [Materials -> MaterialRow] /\ UNCHANGED <<order, notice>> /\ Calls'
<1> USE DEF CallOK, BoardCallOK, LibraryCallOK, PlannerCallOK
<1>0. Calls /\ BoardTypeOK /\ LibraryTypeOK /\ CallOK(req[r])
  BY DEF TypedInv, Calls
<1>1. PICK q : q = req[r]
  OBVIOUS
<1>2. CASE CreateMaterial(r)
  <2>1. q \in UploadMaterialCall
    BY <1>0, <1>1, <1>2 DEF CreateMaterial, At
  <2>2. [state |-> "there", files |-> q.added] \in MaterialRow
    BY <2>1 DEF UploadMaterialCall, MaterialRow, FileSets
  <2>3. material' \in [Materials -> MaterialRow]
    BY <1>0, <1>1, <1>2, <2>2 DEF CreateMaterial, LibraryTypeOK
  <2> QED
    BY <1>0, <1>2, <2>3, CallAnswered, BoardUntouched DEF CreateMaterial
<1>3. CASE DropOldMaterial(r)
  <2>1. q \in EditMaterialCall
    BY <1>0, <1>1, <1>3 DEF DropOldMaterial, At
  <2>2. PICK removed \in SUBSET q.old :
          stored' = stored \ removed /\ Proceed(r, [q EXCEPT !.step = "save", !.dropped = @ \cup removed])
    BY <1>1, <1>3 DEF DropOldMaterial, Drop
  <2> DEFINE new == [q EXCEPT !.step = "save", !.dropped = @ \cup removed]
  <2>3. new \in EditMaterialCall /\ new.op = "updateMaterial"
    BY <2>1 DEF EditMaterialCall, FileSets
  <2>4. CallOK(new)
    BY <2>3
  <2>5. BoardTypeOK' /\ material' \in [Materials -> MaterialRow] /\ UNCHANGED <<order, notice>>
    BY <1>0, <1>3, <2>2 DEF DropOldMaterial, BoardTypeOK, LibraryTypeOK, libraryVars
  <2> HIDE DEF new
  <2> QED
    BY <1>0, <2>2, <2>4, <2>5, CallGoesOn DEF new
<1>4. CASE SaveMaterial(r)
  <2>1. q \in EditMaterialCall
    BY <1>0, <1>1, <1>4 DEF SaveMaterial, At
  <2>2. NewLink(q) \subseteq Files /\ q.dropped \subseteq Files /\ q.old \subseteq Files /\ q.material \in Materials
    BY <2>1 DEF EditMaterialCall, NewLink, FileSets
  <2>3. [material[q.material] EXCEPT !.files = NewLink(q)] \in MaterialRow
    BY <1>0, <2>2 DEF LibraryTypeOK, MaterialRow
  <2>4. material' \in [Materials -> MaterialRow]
    BY <1>0, <1>1, <1>4, <2>2, <2>3 DEF SaveMaterial, LibraryTypeOK
  <2>5. lost' \subseteq Files
    <3>1. lost' = lost \cup q.dropped \/ lost' = lost \/ lost' = lost \cup (q.old \ stored)
      BY <1>1, <1>4 DEF SaveMaterial
    <3> QED
      BY <1>0, <2>2, <3>1 DEF BoardTypeOK
  <2> QED
    BY <1>0, <1>4, <2>4, <2>5, CallAnswered DEF SaveMaterial, BoardTypeOK
<1> QED
  BY <1>2, <1>3, <1>4

LEMMA OrdersSaved ==
    ASSUME RequestsOK, TypedInv, NEW r \in Requests, CreateOrder(r) \/ SaveOrder(r)
    PROVE  UNCHANGED <<boardVars, material, notice>> /\ order' \in [Orders -> OrderRow] /\ Calls'
<1> USE DEF CallOK, BoardCallOK, LibraryCallOK, PlannerCallOK
<1>0. Calls /\ LibraryTypeOK /\ CallOK(req[r])
  BY DEF TypedInv, Calls
<1>1. PICK q : q = req[r]
  OBVIOUS
<1>2. CASE CreateOrder(r)
  <2>1. q \in OrderCall
    BY <1>0, <1>1, <1>2 DEF CreateOrder, At
  <2>2. [state |-> "there", to |-> q.to, done |-> FALSE, copies |-> q.copies] \in OrderRow
    BY <2>1 DEF OrderCall, OrderRow
  <2>3. order' \in [Orders -> OrderRow]
    BY <1>0, <1>1, <1>2, <2>2 DEF CreateOrder, LibraryTypeOK
  <2> QED
    BY <1>0, <1>2, <2>3, CallAnswered DEF CreateOrder
<1>3. CASE SaveOrder(r)
  <2>1. q \in EditOrderCall
    BY <1>0, <1>1, <1>3 DEF SaveOrder, At
  <2>2. order[q.order] \in OrderRow
    BY <1>0, <2>1 DEF EditOrderCall, LibraryTypeOK
  <2>3. PICK copies \in SUBSET Copy : copies = IF q.copies = {} THEN order[q.order].copies ELSE q.copies
    BY <2>1, <2>2 DEF EditOrderCall, OrderRow
  <2>4. PICK done \in BOOLEAN : done = IF q.done = {} THEN order[q.order].done ELSE q.done = {TRUE}
    BY <2>1, <2>2 DEF EditOrderCall, OrderRow
  <2>5. [order[q.order] EXCEPT !.copies = copies, !.done = done] \in OrderRow
    BY <2>2 DEF OrderRow
  <2>6. order' = IF OrderThere(q.order)
                 THEN [order EXCEPT ![q.order] = [order[q.order] EXCEPT !.copies = copies, !.done = done]] ELSE order
    BY <1>0, <1>1, <1>3, <2>1, <2>2, <2>3, <2>4 DEF SaveOrder, LibraryTypeOK, EditOrderCall
  <2>7. order' \in [Orders -> OrderRow]
    BY <1>0, <2>5, <2>6 DEF LibraryTypeOK
  <2> QED
    BY <1>0, <1>3, <2>7, CallAnswered DEF SaveOrder
<1> QED
  BY <1>2, <1>3

\* What is served at once.
LEMMA LibraryServes ==
    ASSUME TypedInv, DeleteMaterial \/ UpdateOrderStatus \/ DeleteOrder \/ DeleteNotice
    PROVE  BoardTypeOK' /\ LibraryTypeOK' /\ NoticeHasLecture' /\ Calls'
<1>0. Calls /\ BoardTypeOK /\ LibraryTypeOK /\ NoticeHasLecture
  BY DEF TypedInv, EditsKeepRowsFit
<1>1. CASE DeleteMaterial
  <2>1. PICK m \in Live : material' = [material EXCEPT ![m].state = "deleted"]
    BY <1>1 DEF DeleteMaterial
  <2>2. [material[m] EXCEPT !.state = "deleted"] \in MaterialRow
    BY <1>0 DEF Live, LibraryTypeOK, MaterialRow
  <2>3. material' \in [Materials -> MaterialRow]
    BY <1>0, <2>1, <2>2 DEF LibraryTypeOK, Live
  <2> QED
    BY <1>0, <1>1, <2>3, CallServed, BoardUntouched DEF DeleteMaterial, LibraryTypeOK, NoticeHasLecture, NoticeThere
<1>2. CASE UpdateOrderStatus
  <2>1. PICK o \in Orders, done \in BOOLEAN : order' = [order EXCEPT ![o].done = done]
    BY <1>2 DEF UpdateOrderStatus
  <2>2. [order[o] EXCEPT !.done = done] \in OrderRow
    BY <1>0 DEF LibraryTypeOK, OrderRow
  <2>3. order' \in [Orders -> OrderRow]
    BY <1>0, <2>1, <2>2 DEF LibraryTypeOK
  <2> QED
    BY <1>0, <1>2, <2>3, CallServed, BoardUntouched DEF UpdateOrderStatus, LibraryTypeOK, NoticeHasLecture, NoticeThere
<1>3. CASE DeleteOrder
  <2>1. PICK o \in Orders : order' = [order EXCEPT ![o] = [NoOrder EXCEPT !.state = "deleted"]]
    BY <1>3 DEF DeleteOrder
  <2>2. [NoOrder EXCEPT !.state = "deleted"] \in OrderRow
    BY DEF NoOrder, OrderRow
  <2>3. order' \in [Orders -> OrderRow]
    BY <1>0, <2>1, <2>2 DEF LibraryTypeOK
  <2> QED
    BY <1>0, <1>3, <2>3, CallServed, BoardUntouched DEF DeleteOrder, LibraryTypeOK, NoticeHasLecture, NoticeThere
<1>4. CASE DeleteNotice
  <2>1. PICK n \in Notices :
          /\ notice' = [notice EXCEPT ![n] = [NoNotice EXCEPT !.state = "deleted"]]
          /\ comment' = [c \in Comments |-> IF comment[c].on = n THEN DeletedComment ELSE comment[c]]
    BY <1>4 DEF DeleteNotice
  <2>2. [NoNotice EXCEPT !.state = "deleted"] \in NoticeRow /\ [NoNotice EXCEPT !.state = "deleted"].state = "deleted"
    BY DEF NoNotice, NoticeRow, Scopes
  <2>3. notice' \in [Notices -> NoticeRow] /\ NoticeHasLecture'
    BY <1>0, <2>1, <2>2 DEF LibraryTypeOK, NoticeHasLecture, NoticeThere
  <2>4. DeletedComment \in CommentRow
    BY DEF CommentRow, DeletedComment, NoComment, Roles
  <2>5. BoardTypeOK'
    BY <1>0, <1>4, <2>1, <2>4 DEF DeleteNotice, BoardTypeOK
  <2> QED
    BY <1>0, <1>4, <2>3, <2>5, CallServed DEF DeleteNotice, LibraryTypeOK
<1> QED
  BY <1>1, <1>2, <1>3, <1>4

LEMMA NoticesSaved ==
    ASSUME RequestsOK, TypedInv, NEW r \in Requests, CreateNotice(r) \/ SaveNotice(r)
    PROVE  /\ UNCHANGED <<boardVars, material, order>> /\ notice' \in [Notices -> NoticeRow]
           /\ NoticeHasLecture' /\ Calls'
<1> USE DEF CallOK, BoardCallOK, LibraryCallOK, PlannerCallOK
<1>0. Calls /\ LibraryTypeOK /\ NoticeHasLecture /\ CallOK(req[r])
  BY DEF TypedInv, Calls, EditsKeepRowsFit
<1>1. PICK q : q = req[r]
  OBVIOUS
<1>2. CASE CreateNotice(r)
  <2>1. q \in NoticeCall /\ (q.scope = "LECTURE" => q.lecture # None)
    BY <1>0, <1>1, <1>2 DEF CreateNotice, At
  <2> DEFINE new == [NoNotice EXCEPT !.state = "there", !.scope = q.scope, !.lecture = q.lecture,
                                     !.targets = q.targets, !.materials = q.materials, !.files = q.added]
  <2>2. new \in NoticeRow /\ (new.scope = "LECTURE" => new.lecture # None)
    BY <2>1 DEF NoNotice, NoticeCall, NoticeRow, FileSets
  <2>3. PICK n \in Notices : notice' = [notice EXCEPT ![n] = new]
    BY <1>1, <1>2 DEF CreateNotice
  <2> HIDE DEF new
  <2>4. notice' \in [Notices -> NoticeRow] /\ NoticeHasLecture'
    BY <1>0, <2>2, <2>3 DEF LibraryTypeOK, NoticeHasLecture, NoticeThere
  <2> QED
    BY <1>0, <1>2, <2>4, CallAnswered DEF CreateNotice
<1>3. CASE SaveNotice(r)
  <2>1. q \in EditNoticeCall /\ (ScopeAfter(q.edit, q.read) = "LECTURE" => OneOr(q.edit.lecture, q.read.lecture) # None)
    BY <1>0, <1>1, <1>3 DEF SaveNotice, At
  <2>2. PICK row \in NoticeRow : row = notice[q.notice]
    BY <1>0, <2>1 DEF EditNoticeCall, LibraryTypeOK
  <2>3. PICK new : new = EditedNotice(q, row)
    OBVIOUS
  <2>4. /\ new \in NoticeRow /\ new.state = row.state /\ new.scope = ScopeAfter(q.edit, row)
        /\ new.lecture = OneOr(q.edit.lecture, row.lecture) /\ (new.overtaken <=> row.overtaken \/ row # q.read)
    BY <2>1, <2>3, NoticeEdited
  <2>5. new.scope = "LECTURE" => new.lecture # None \/ new.overtaken
    BY <2>1, <2>4
  <2>6. notice' = IF NoticeThere(q.notice) THEN [notice EXCEPT ![q.notice] = new] ELSE notice
    BY <1>0, <1>1, <1>3, <2>1, <2>2, <2>3 DEF SaveNotice, LibraryTypeOK, EditNoticeCall
  <2>7. notice' \in [Notices -> NoticeRow] /\ NoticeHasLecture'
    BY <1>0, <2>4, <2>5, <2>6 DEF LibraryTypeOK, NoticeHasLecture, NoticeThere
  <2> QED
    BY <1>0, <1>3, <2>7, CallAnswered DEF SaveNotice
<1> QED
  BY <1>2, <1>3

LEMMA NoticeCommented ==
    ASSUME RequestsOK, TypedInv, NEW r \in Requests, SaveNoticeComment(r)
    PROVE  BoardTypeOK' /\ UNCHANGED libraryVars /\ Calls'
<1>0. Calls /\ BoardTypeOK /\ CallOK(req[r])
  BY DEF TypedInv, Calls
<1>1. req[r] \in CommentCall
  BY <1>0 DEF SaveNoticeComment, At, CallOK, BoardCallOK
<1>2. comment' \in [Comments -> CommentRow] /\ stored' \subseteq stored
  BY <1>0, <1>1, CommentWritten DEF SaveNoticeComment
<1> QED
  BY <1>0, <1>2, CallAnswered DEF SaveNoticeComment, BoardTypeOK

LEMMA LibraryTyped ==
    ASSUME RequestsOK, RosterInv, TypedInv, LibraryNext, UNCHANGED plannerVars PROVE TypedInv'
<1> DEFINE Good == BoardTypeOK' /\ LibraryTypeOK' /\ NoticeHasLecture' /\ Calls'
<1>0. BoardTypeOK /\ LibraryTypeOK /\ NoticeHasLecture /\ Calls
  BY DEF TypedInv, EditsKeepRowsFit
<1>1. ASSUME UNCHANGED libraryVars PROVE LibraryTypeOK' /\ NoticeHasLecture'
  BY <1>0, <1>1 DEF libraryVars, LibraryTypeOK, NoticeHasLecture, NoticeThere
<1>2. ASSUME UNCHANGED notice PROVE NoticeHasLecture'
  BY <1>0, <1>2 DEF NoticeHasLecture, NoticeThere
<1>3. ASSUME NEW r \in Requests,
             \/ BeginUploadMaterial(r) \/ BeginEditMaterial(r) \/ BeginOrder(r) \/ BeginEditOrder(r)
             \/ BeginNotice(r) \/ BeginEditNotice(r) \/ BeginNoticeComment(r)
      PROVE  Good
  BY <1>0, <1>1, <1>3, LibraryBegins, BoardUntouched
<1>4. ASSUME NEW r \in Requests, CreateMaterial(r) \/ DropOldMaterial(r) \/ SaveMaterial(r) PROVE Good
  BY <1>0, <1>2, <1>4, MaterialsSaved DEF LibraryTypeOK
<1>5. ASSUME NEW r \in Requests, CreateOrder(r) \/ SaveOrder(r) PROVE Good
  BY <1>0, <1>2, <1>5, OrdersSaved, BoardUntouched DEF LibraryTypeOK
<1>6. ASSUME NEW r \in Requests, CreateNotice(r) \/ SaveNotice(r) PROVE Good
  BY <1>0, <1>6, NoticesSaved, BoardUntouched DEF LibraryTypeOK
<1>7. ASSUME NEW r \in Requests, SaveNoticeComment(r) PROVE Good
  BY <1>1, <1>7, NoticeCommented
<1>8. ASSUME NEW r \in Requests, UploadToLibrary(r) PROVE Good
  <2>1. UNCHANGED libraryVars
    BY <1>8 DEF UploadToLibrary
  <2> QED
    BY <1>1, <1>8, <2>1, UploadInLibrary
<1>9. Good
  BY <1>3, <1>4, <1>5, <1>6, <1>7, <1>8, LibraryServes DEF LibraryNext
<1>10. PlannerTypeOK' /\ SchedulesInOrder' /\ PurchasableAsTyped'
  BY DEF TypedInv, plannerVars, PlannerTypeOK, EditsKeepRowsFit, SchedulesInOrder, PurchasableAsTyped, Purchasable
<1> QED
  BY <1>9, <1>10 DEF TypedInv, EditsKeepRowsFit

-----------------------------------------------------------------------------
(***************************************************************************)
(* TypedInv: the steps of the planner, by the same argument.               *)
(***************************************************************************)
LEMMA ZeroAndOne == 0 \in 0..1 /\ 1 \in 0..1 /\ 0 \in Times
  BY PlannerAssumption DEF Times

LEMMA BlankRows ==
    /\ NoSchedule \in ScheduleRow /\ DeletedSchedule \in ScheduleRow /\ NoProduct \in ProductRow
    /\ NoSchedule.start <= NoSchedule.end /\ DeletedSchedule.start <= DeletedSchedule.end /\ ~Purchasable(NoProduct)
<1>1. NoSchedule \in ScheduleRow /\ NoSchedule.start <= NoSchedule.end
  BY ZeroAndOne DEF NoSchedule, ScheduleRow
<1>2. PICK row : row = DeletedSchedule
  OBVIOUS
<1>3. row = [state |-> "deleted", start |-> 0, end |-> 0, category |-> {}, overtaken |-> FALSE]
  BY <1>2 DEF DeletedSchedule, NoSchedule
<1>5. row \in ScheduleRow /\ row.start <= row.end
  BY <1>3, ZeroAndOne DEF ScheduleRow
<1>4. NoProduct \in ProductRow /\ ~Purchasable(NoProduct)
  BY ZeroAndOne DEF NoProduct, ProductRow, ProductTypes, Purchasable
<1> QED
  BY <1>1, <1>2, <1>4, <1>5

LEMMA TheOnlyOne == ASSUME NEW x, NEW was PROVE OneOf({x}, was) = x
  BY DEF OneOf

LEMMA AtMostOneOf == ASSUME NEW S PROVE AtMostOne(S) \subseteq SUBSET S
  BY DEF AtMostOne

LEMMA ScheduleEdited ==
    ASSUME NEW row \in ScheduleRow, NEW edit \in ScheduleEdit
    PROVE  EditedSchedule(edit, row) \in ScheduleRow /\ (EditedSchedule(edit, row).overtaken <=> row.overtaken)
<1> DEFINE start == OneOf(edit.start, row.start)
           end == OneOf(edit.end, row.end)
           cs == OneOf(edit.category, row.category)
<1>1. edit.start \in SUBSET Times /\ row.start \in Times /\ edit.end \in SUBSET Times /\ row.end \in Times
      /\ edit.category \in SUBSET SUBSET Categories /\ row.category \in SUBSET Categories
  BY DEF ScheduleEdit, ScheduleRow
<1>2. start \in Times /\ end \in Times
  BY <1>1, Given
<1>3. cs \in SUBSET Categories
  <2>1. ASSUME NEW S, edit.category \in SUBSET S, row.category \in S PROVE cs \in S
    BY <2>1, Given
  <2> QED
    BY <1>1, <2>1
<1>4. EditedSchedule(edit, row) = [row EXCEPT !.start = start, !.end = end, !.category = cs]
  BY DEF EditedSchedule, ScheduleRow
<1> HIDE DEF start, end, cs
<1> QED
  BY <1>2, <1>3, <1>4 DEF ScheduleRow

\* What an administrator sends and sanitizeProductData completes leaves a product that fits its type.
LEMMA ProductWritten ==
    ASSUME NEW row \in ProductRow, NEW edit \in ProductEdit
    PROVE  WithFields(edit, row) \in ProductRow /\ (WithFields(edit, row).overtaken <=> row.overtaken)
<1> DEFINE type == OneOf(edit.type, row.type)
           months == OneOf(edit.months, row.months)
           credits == OneOf(edit.credits, row.credits)
           active == OneOf(edit.active, row.active)
<1>1. type \in ProductTypes
  BY Given DEF ProductEdit, ProductRow
<1>2. months \in 0..1 /\ credits \in 0..1
  BY Given DEF ProductEdit, ProductRow
<1>3. active \in BOOLEAN
  BY Given DEF ProductEdit, ProductRow
<1>4. WithFields(edit, row) = [row EXCEPT !.type = type, !.months = months, !.credits = credits, !.active = active]
  BY DEF WithFields, ProductRow
<1> HIDE DEF type, months, credits, active
<1> QED
  BY <1>1, <1>2, <1>3, <1>4 DEF ProductRow

LEMMA EditSanitized ==
    ASSUME NEW row \in ProductRow, NEW edit \in ProductEdits, ~Rejected(edit, row)
    PROVE  Sanitized(edit, row) \in ProductEdit /\ ProductFits(WithFields(Sanitized(edit, row), row))
<1>1. edit \in ProductEdit
  <2>1. /\ edit.type \in SUBSET ProductTypes /\ edit.months \in SUBSET (0..1) /\ edit.credits \in SUBSET (0..1)
        /\ edit.active \in SUBSET BOOLEAN
    <3>1. /\ edit.type \in AtMostOne(ProductTypes) /\ edit.months \in AtMostOne({1})
          /\ edit.credits \in AtMostOne({0, 1}) /\ edit.active \in AtMostOne({FALSE})
      BY DEF ProductEdits
    <3>2. {1} \subseteq 0..1 /\ {0, 1} \subseteq 0..1
      BY ZeroAndOne
    <3>3. /\ edit.type \in SUBSET ProductTypes /\ edit.months \in SUBSET {1}
          /\ edit.credits \in SUBSET {0, 1} /\ edit.active \in SUBSET {FALSE}
      BY <3>1, AtMostOneOf
    <3> QED
      BY <3>2, <3>3
  <2> QED
    BY <2>1 DEF ProductEdit, ProductEdits
<1>2. PICK type \in ProductTypes : type = OneOf(edit.type, row.type)
  BY <1>1, Given DEF ProductEdit, ProductRow
<1>3. PICK given \in 0..1 : given = OneOf(edit.credits, row.credits)
  BY <1>1, Given DEF ProductEdit, ProductRow
<1>4. type = "CREDIT_PACK" => given > 0
  BY <1>2, <1>3 DEF Rejected
<1>5. PICK new : new = Sanitized(edit, row)
  OBVIOUS
<1>6. /\ new \in ProductEdit /\ new.type = edit.type
      /\ type = "PASS_SINGLE" => new.months = {1} /\ new.credits = {0}
      /\ type = "CREDIT_PACK" => new.months = {0} /\ new.credits = {given}
  <2>1. CASE type = "PASS_SINGLE"
    <3>1. new = [edit EXCEPT !.months = {1}, !.credits = {0}]
      BY <1>1, <1>2, <1>5, <2>1 DEF Sanitized, ProductEdit
    <3> QED
      BY <1>1, <2>1, <3>1, ZeroAndOne DEF ProductEdit
  <2>2. CASE type = "CREDIT_PACK"
    <3>1. new = [edit EXCEPT !.months = {0}, !.credits = {given}]
      BY <1>1, <1>2, <1>3, <1>5, <2>2 DEF Sanitized, ProductEdit
    <3> QED
      BY <1>1, <1>3, <2>2, <3>1, ZeroAndOne DEF ProductEdit
  <2>3. CASE type \notin {"PASS_SINGLE", "CREDIT_PACK"}
    <3>1. new = [edit EXCEPT !.months = edit.months, !.credits = edit.credits]
      BY <1>1, <1>2, <1>5, <2>3 DEF Sanitized, ProductEdit
    <3> QED
      BY <1>1, <2>3, <3>1 DEF ProductEdit
  <2> QED
    BY <2>1, <2>2, <2>3
<1>7. PICK after : after = WithFields(new, row)
  OBVIOUS
<1>8. /\ after.type = type /\ after.months = OneOf(new.months, row.months)
      /\ after.credits = OneOf(new.credits, row.credits)
  BY <1>2, <1>6, <1>7 DEF WithFields, ProductRow
<1>9. CASE type = "PASS_SINGLE"
  <2>1. after.months = 1 /\ after.credits = 0
    BY <1>6, <1>8, <1>9, TheOnlyOne
  <2> QED
    BY <1>5, <1>6, <1>7, <1>8, <1>9, <2>1 DEF ProductFits
<1>10. CASE type = "CREDIT_PACK"
  <2>1. after.months = 0 /\ after.credits = given
    BY <1>6, <1>8, <1>10, TheOnlyOne
  <2> QED
    BY <1>3, <1>4, <1>5, <1>6, <1>7, <1>8, <1>10, <2>1 DEF ProductFits
<1>11. CASE type \notin {"PASS_SINGLE", "CREDIT_PACK"}
  BY <1>5, <1>6, <1>7, <1>8, <1>11 DEF ProductFits, Purchasable
<1> QED
  BY <1>9, <1>10, <1>11

\* What is served at once.
LEMMA PlannerServes ==
    ASSUME TypedInv,
           \/ CreateCategory \/ UpdateCategory \/ DeleteCategory \/ DeleteSchedule \/ CreateProduct \/ CreateGrantProduct
    PROVE  PlannerTypeOK' /\ SchedulesInOrder' /\ PurchasableAsTyped' /\ Calls'
<1>0. Calls /\ PlannerTypeOK /\ SchedulesInOrder /\ PurchasableAsTyped
  BY DEF TypedInv, EditsKeepRowsFit
<1>1. DeletedSchedule \in ScheduleRow /\ DeletedSchedule.start <= DeletedSchedule.end
  BY BlankRows
<1>2. ASSUME UNCHANGED product PROVE product' \in [Products -> ProductRow] /\ PurchasableAsTyped'
  BY <1>0, <1>2 DEF PlannerTypeOK, PurchasableAsTyped, Purchasable
<1>3. ASSUME UNCHANGED schedule PROVE schedule' \in [Schedules -> ScheduleRow] /\ SchedulesInOrder'
  BY <1>0, <1>3 DEF PlannerTypeOK, SchedulesInOrder
<1>4. CASE CreateCategory
  <2>1. category' \in [Categories -> CategoryRow]
    BY <1>0, <1>4 DEF CreateCategory, PlannerTypeOK, CategoryRow
  <2> QED
    BY <1>0, <1>2, <1>3, <1>4, <2>1, CallServed DEF CreateCategory, PlannerTypeOK
<1>5. CASE UpdateCategory
  <2>1. PICK c \in Categories, name \in AtMostOne(Labels), color \in AtMostOne(Labels) :
          category' = [category EXCEPT ![c] = [state |-> "there", name |-> OneOf(name, category[c].name),
                                               color |-> OneOf(color, category[c].color)]]
    BY <1>5 DEF UpdateCategory
  <2>2. category[c].name \in Labels \cup {"none"} /\ category[c].color \in Labels \cup {"none"}
    BY <1>0 DEF PlannerTypeOK, CategoryRow
  <2>3. name \in SUBSET (Labels \cup {"none"}) /\ color \in SUBSET (Labels \cup {"none"})
    BY AtMostOneOf
  <2>4. OneOf(name, category[c].name) \in Labels \cup {"none"} /\ OneOf(color, category[c].color) \in Labels \cup {"none"}
    BY <2>2, <2>3, Given
  <2>5. category' \in [Categories -> CategoryRow]
    BY <1>0, <2>1, <2>4 DEF PlannerTypeOK, CategoryRow
  <2> QED
    BY <1>0, <1>2, <1>3, <1>5, <2>5, CallServed DEF UpdateCategory, PlannerTypeOK
<1>6. CASE DeleteCategory
  <2>1. category' \in [Categories -> CategoryRow]
    BY <1>0, <1>6 DEF DeleteCategory, PlannerTypeOK, CategoryRow, NoCategory
  <2>2. schedule' \in [Schedules -> ScheduleRow] /\ SchedulesInOrder'
    BY <1>0, <1>1, <1>6 DEF DeleteCategory, PlannerTypeOK, SchedulesInOrder
  <2> QED
    BY <1>0, <1>2, <1>6, <2>1, <2>2, CallServed DEF DeleteCategory, PlannerTypeOK
<1>7. CASE DeleteSchedule
  <2>1. schedule' \in [Schedules -> ScheduleRow] /\ SchedulesInOrder'
    BY <1>0, <1>1, <1>7 DEF DeleteSchedule, PlannerTypeOK, SchedulesInOrder
  <2> QED
    BY <1>0, <1>2, <1>7, <2>1, CallServed DEF DeleteSchedule, PlannerTypeOK
<1>8. CASE CreateProduct
  <2>1. PICK blank : blank = [NoProduct EXCEPT !.there = TRUE, !.active = TRUE]
    OBVIOUS
  <2>2. PICK p \in Products, edit \in ProductEdits :
          ~Rejected(edit, blank) /\ product' = [product EXCEPT ![p] = WithFields(Sanitized(edit, blank), blank)]
    BY <1>8, <2>1 DEF CreateProduct
  <2>3. blank \in ProductRow
    <3>1. blank = [there |-> TRUE, type |-> "PASS_SINGLE", months |-> 0, credits |-> 0, active |-> TRUE, system |-> FALSE,
                   overtaken |-> FALSE]
      BY <2>1 DEF NoProduct
    <3> QED
      BY <3>1, ZeroAndOne DEF ProductRow, ProductTypes
  <2>4. PICK row : row = WithFields(Sanitized(edit, blank), blank)
    OBVIOUS
  <2>5. row \in ProductRow /\ ProductFits(row)
    BY <2>2, <2>3, <2>4, EditSanitized, ProductWritten
  <2>6. product' = [product EXCEPT ![p] = row]
    BY <2>2, <2>4
  <2>7. product' \in [Products -> ProductRow] /\ PurchasableAsTyped'
    BY <1>0, <2>5, <2>6 DEF PlannerTypeOK, PurchasableAsTyped, ProductFits
  <2> QED
    BY <1>0, <1>3, <1>8, <2>7, CallServed DEF CreateProduct, PlannerTypeOK
<1>9. CASE CreateGrantProduct
  <2>1. PICK row : row = [NoProduct EXCEPT !.there = TRUE, !.type = "CREDIT_PACK", !.system = TRUE]
    OBVIOUS
  <2>2. row \in ProductRow /\ ~Purchasable(row)
    <3>1. row = [there |-> TRUE, type |-> "CREDIT_PACK", months |-> 0, credits |-> 0, active |-> FALSE, system |-> TRUE,
                 overtaken |-> FALSE]
      BY <2>1 DEF NoProduct
    <3> QED
      BY <3>1, ZeroAndOne DEF ProductRow, ProductTypes, Purchasable
  <2>3. PICK p \in Products : product' = [product EXCEPT ![p] = row]
    BY <1>9, <2>1 DEF CreateGrantProduct
  <2>4. product' \in [Products -> ProductRow] /\ PurchasableAsTyped'
    BY <1>0, <2>2, <2>3 DEF PlannerTypeOK, PurchasableAsTyped
  <2> QED
    BY <1>0, <1>3, <1>9, <2>4, CallServed DEF CreateGrantProduct, PlannerTypeOK
<1> QED
  BY <1>4, <1>5, <1>6, <1>7, <1>8, <1>9

LEMMA PlannerBegins ==
    ASSUME RequestsOK, TypedInv, NEW r \in Requests, BeginSchedule(r) \/ BeginEditSchedule(r) \/ BeginEditProduct(r)
    PROVE  UNCHANGED plannerVars /\ Calls'
<1> USE DEF CallOK, BoardCallOK, LibraryCallOK, PlannerCallOK
<1>0. Calls /\ PlannerTypeOK
  BY DEF TypedInv
<1>1. CASE BeginSchedule(r)
  <2>1. PICK start \in Times, end \in Times, cs \in AtMostOne({c \in Categories : CategoryThere(c)}) :
          /\ start <= end
          /\ Begin(r, "createSchedule", [op |-> "createSchedule", step |-> "save",
                                         row |-> [NoSchedule EXCEPT !.state = "there", !.start = start, !.end = end,
                                                                    !.category = cs]])
    BY <1>1 DEF BeginSchedule
  <2>2. cs \subseteq Categories
    BY AtMostOneOf
  <2>3. PICK row : row = [NoSchedule EXCEPT !.state = "there", !.start = start, !.end = end, !.category = cs]
    OBVIOUS
  <2>4. row \in ScheduleRow /\ InOrder(row)
    <3>1. row = [state |-> "there", start |-> start, end |-> end, category |-> cs, overtaken |-> FALSE]
      BY <2>3 DEF NoSchedule
    <3> QED
      BY <2>1, <2>2, <3>1 DEF ScheduleRow, InOrder
  <2>5. [op |-> "createSchedule", step |-> "save", row |-> row] \in ScheduleCall
    BY <2>4 DEF ScheduleCall
  <2>6. CallOK([op |-> "createSchedule", step |-> "save", row |-> row])
    BY <2>4, <2>5
  <2>7. Begin(r, "createSchedule", [op |-> "createSchedule", step |-> "save", row |-> row])
    BY <2>1, <2>3
  <2> QED
    BY <1>0, <1>1, <2>6, <2>7, CallBegun DEF BeginSchedule
<1>2. CASE BeginEditSchedule(r)
  <2>1. PICK s \in Schedules, start \in AtMostOne(Times), end \in AtMostOne(Times),
             cs \in {{}, {{}}} \cup {{{c}} : c \in {d \in Categories : CategoryThere(d)}} :
          /\ InOrder(EditedSchedule([start |-> start, end |-> end, category |-> cs], schedule[s]))
          /\ Begin(r, "updateSchedule", [op |-> "updateSchedule", step |-> "save", schedule |-> s,
                                         edit |-> [start |-> start, end |-> end, category |-> cs], read |-> schedule[s]])
    BY <1>2 DEF BeginEditSchedule
  <2>2. PICK edit : edit = [start |-> start, end |-> end, category |-> cs]
    OBVIOUS
  <2>3. start \in SUBSET Times /\ end \in SUBSET Times /\ cs \in SUBSET SUBSET Categories
    BY AtMostOneOf
  <2>4. edit \in ScheduleEdit
    BY <2>2, <2>3 DEF ScheduleEdit
  <2>5. PICK row \in ScheduleRow : row = schedule[s]
    BY <1>0 DEF PlannerTypeOK
  <2> DEFINE q == [op |-> "updateSchedule", step |-> "save", schedule |-> s, edit |-> edit, read |-> row]
  <2>6. q \in EditScheduleCall /\ InOrder(EditedSchedule(q.edit, q.read))
    BY <2>1, <2>2, <2>4, <2>5 DEF EditScheduleCall
  <2>7. CallOK(q)
    BY <2>6
  <2> QED
    BY <1>0, <1>2, <2>1, <2>2, <2>5, <2>7, CallBegun DEF BeginEditSchedule
<1>3. CASE BeginEditProduct(r)
  <2>1. PICK p \in Products, edit \in ProductEdits :
          /\ ~Rejected(edit, product[p])
          /\ Begin(r, "updateProduct", [op |-> "updateProduct", step |-> "save", product |-> p,
                                        edit |-> Sanitized(edit, product[p]), read |-> product[p]])
    BY <1>3 DEF BeginEditProduct
  <2>2. PICK row \in ProductRow : row = product[p]
    BY <1>0 DEF PlannerTypeOK
  <2>3. PICK new : new = Sanitized(edit, row)
    OBVIOUS
  <2>4. new \in ProductEdit /\ ProductFits(WithFields(new, row))
    BY <2>1, <2>2, <2>3, EditSanitized
  <2> DEFINE q == [op |-> "updateProduct", step |-> "save", product |-> p, edit |-> new, read |-> row]
  <2>5. q \in EditProductCall /\ ProductFits(WithFields(q.edit, q.read))
    BY <2>4 DEF EditProductCall
  <2>6. CallOK(q)
    BY <2>5
  <2> QED
    BY <1>0, <1>3, <2>1, <2>2, <2>3, <2>6, CallBegun DEF BeginEditProduct
<1> QED
  BY <1>1, <1>2, <1>3

LEMMA PlannerSaves ==
    ASSUME RequestsOK, TypedInv, NEW r \in Requests, SaveNewSchedule(r) \/ SaveSchedule(r) \/ SaveProduct(r)
    PROVE  PlannerTypeOK' /\ SchedulesInOrder' /\ PurchasableAsTyped' /\ Calls'
<1> USE DEF CallOK, BoardCallOK, LibraryCallOK, PlannerCallOK
<1>0. Calls /\ PlannerTypeOK /\ SchedulesInOrder /\ PurchasableAsTyped /\ CallOK(req[r])
  BY DEF TypedInv, EditsKeepRowsFit, Calls
<1>1. PICK q : q = req[r]
  OBVIOUS
<1>2. ASSUME UNCHANGED product PROVE product' \in [Products -> ProductRow] /\ PurchasableAsTyped'
  BY <1>0, <1>2 DEF PlannerTypeOK, PurchasableAsTyped, Purchasable
<1>3. CASE SaveNewSchedule(r)
  <2>1. q \in ScheduleCall /\ InOrder(q.row)
    BY <1>0, <1>1, <1>3 DEF SaveNewSchedule, At
  <2>2. schedule' \in [Schedules -> ScheduleRow] /\ SchedulesInOrder'
    BY <1>0, <1>1, <1>3, <2>1 DEF SaveNewSchedule, ScheduleCall, PlannerTypeOK, SchedulesInOrder, InOrder
  <2> QED
    BY <1>0, <1>2, <1>3, <2>2, CallAnswered DEF SaveNewSchedule, PlannerTypeOK
<1>4. CASE SaveSchedule(r)
  <2>1. q \in EditScheduleCall /\ InOrder(EditedSchedule(q.edit, q.read))
    BY <1>0, <1>1, <1>4 DEF SaveSchedule, At
  <2>2. PICK was \in ScheduleRow : was = schedule[q.schedule]
    BY <1>0, <2>1 DEF EditScheduleCall, PlannerTypeOK
  <2>3. PICK row : row = EditedSchedule(q.edit, was)
    OBVIOUS
  <2>4. row \in ScheduleRow
    BY <2>1, <2>2, <2>3, ScheduleEdited DEF EditScheduleCall
  <2>5. PICK overtaken \in BOOLEAN : overtaken = (row.overtaken \/ was # q.read)
    BY <2>4 DEF ScheduleRow
  <2>6. PICK new : new = [row EXCEPT !.overtaken = overtaken]
    OBVIOUS
  <2>7. new \in ScheduleRow /\ (new.start <= new.end \/ new.overtaken)
    BY <2>1, <2>3, <2>4, <2>5, <2>6 DEF ScheduleRow, InOrder
  <2>8. schedule' = schedule \/ schedule' = [schedule EXCEPT ![q.schedule] = new]
    BY <1>0, <1>1, <1>4, <2>1, <2>2, <2>3, <2>4, <2>5, <2>6 DEF SaveSchedule, PlannerTypeOK, EditScheduleCall, ScheduleRow
  <2>9. schedule' \in [Schedules -> ScheduleRow] /\ SchedulesInOrder'
    BY <1>0, <2>7, <2>8 DEF PlannerTypeOK, SchedulesInOrder
  <2> QED
    BY <1>0, <1>2, <1>4, <2>9, CallAnswered DEF SaveSchedule, PlannerTypeOK
<1>5. CASE SaveProduct(r)
  <2>1. q \in EditProductCall /\ ProductFits(WithFields(q.edit, q.read))
    BY <1>0, <1>1, <1>5 DEF SaveProduct, At
  <2>2. PICK was \in ProductRow : was = product[q.product]
    BY <1>0, <2>1 DEF EditProductCall, PlannerTypeOK
  <2>3. PICK row : row = WithFields(q.edit, was)
    OBVIOUS
  <2>4. row \in ProductRow
    BY <2>1, <2>2, <2>3, ProductWritten DEF EditProductCall
  <2>5. PICK overtaken \in BOOLEAN : overtaken = (row.overtaken \/ was # q.read)
    BY <2>4 DEF ProductRow
  <2>6. PICK new : new = [row EXCEPT !.overtaken = overtaken]
    OBVIOUS
  <2>7. new \in ProductRow /\ (ProductFits(new) \/ new.overtaken)
    <3>1. new \in ProductRow /\ (new.overtaken <=> row.overtaken \/ was # q.read)
      BY <2>4, <2>5, <2>6 DEF ProductRow
    <3>2. CASE was = q.read
      <4>1. ProductFits(row)
        BY <2>1, <2>3, <3>2
      <4>2. /\ new.there = row.there /\ new.active = row.active /\ new.type = row.type /\ new.months = row.months
            /\ new.credits = row.credits
        BY <2>4, <2>6 DEF ProductRow
      <4> QED
        BY <3>1, <4>1, <4>2 DEF ProductFits, Purchasable
    <3> QED
      BY <3>1, <3>2
  <2>8. product' = [product EXCEPT ![q.product] = new]
    BY <1>0, <1>1, <1>5, <2>1, <2>2, <2>3, <2>4, <2>5, <2>6 DEF SaveProduct, PlannerTypeOK, EditProductCall, ProductRow
  <2>9. product' \in [Products -> ProductRow] /\ PurchasableAsTyped'
    BY <1>0, <2>7, <2>8 DEF PlannerTypeOK, PurchasableAsTyped, ProductFits
  <2> QED
    BY <1>0, <1>5, <2>9, CallAnswered DEF SaveProduct, PlannerTypeOK, SchedulesInOrder
<1> QED
  BY <1>3, <1>4, <1>5

LEMMA PlannerTyped ==
    ASSUME RequestsOK, TypedInv, PlannerNext, UNCHANGED <<boardVars, libraryVars>> PROVE TypedInv'
<1>1. ASSUME NEW r \in Requests, BeginSchedule(r) \/ BeginEditSchedule(r) \/ BeginEditProduct(r)
      PROVE  PlannerTypeOK' /\ SchedulesInOrder' /\ PurchasableAsTyped' /\ Calls'
  <2>1. UNCHANGED plannerVars /\ Calls'
    BY <1>1, PlannerBegins
  <2> QED
    BY <2>1 DEF TypedInv, EditsKeepRowsFit, plannerVars, PlannerTypeOK, SchedulesInOrder, PurchasableAsTyped, Purchasable
<1>2. PlannerTypeOK' /\ SchedulesInOrder' /\ PurchasableAsTyped' /\ Calls'
  BY <1>1, PlannerServes, PlannerSaves DEF PlannerNext
<1>3. BoardTypeOK' /\ LibraryTypeOK' /\ NoticeHasLecture'
  BY BoardUntouched DEF TypedInv, libraryVars, LibraryTypeOK, EditsKeepRowsFit, NoticeHasLecture, NoticeThere
<1> QED
  BY <1>2, <1>3 DEF TypedInv, EditsKeepRowsFit

-----------------------------------------------------------------------------
(***************************************************************************)
(* TypedInv: every step.                                                   *)
(***************************************************************************)
LEMMA OtherParts == ServiceOps \cap (AccountOps \cup RosterOps) = {}
  BY DEF ServiceOps, AccountOps, StaffOps, AdminOps, RosterOps, BoardOps, LibraryOps, PlannerOps

\* What a request has removed from S3 are files.
LEMMA DroppedFiles == ASSUME RequestsOK, Calls, NEW r \in Requests PROVE Dropped(r) \subseteq Files
<1>1. CASE "dropped" \notin DOMAIN req[r]
  BY <1>1 DEF Dropped
<1>2. CASE "dropped" \in DOMAIN req[r]
  <2>1. req[r].op \in DropOps
    BY <1>2 DEF RequestsOK, RequestOK, Foreign, AccountOps, StaffOps, AdminOps
  <2>2. req[r].dropped \in FileSets
    <3>1. BoardCallOK(req[r]) /\ LibraryCallOK(req[r])
      BY DEF Calls, CallOK
    <3>2. \/ req[r] \in EditPostCall \/ req[r] \in DeletePostCall \/ req[r] \in DeleteCommentCall
          \/ req[r] \in EditCommentCall \/ req[r] \in EditMaterialCall
      BY <2>1, <3>1 DEF DropOps, BoardCallOK, LibraryCallOK
    <3> QED
      BY <3>2 DEF EditPostCall, DeletePostCall, DeleteCommentCall, EditCommentCall, EditMaterialCall
  <2> QED
    BY <1>2, <2>2 DEF Dropped, FileSets
<1> QED
  BY <1>1, <1>2

LEMMA RowsTyped ==
    ASSUME TypedInv, UNCHANGED <<libraryVars, plannerVars>>, BoardTypeOK', Calls' PROVE TypedInv'
  BY DEF TypedInv, libraryVars, plannerVars, LibraryTypeOK, PlannerTypeOK, EditsKeepRowsFit, NoticeHasLecture, NoticeThere,
     SchedulesInOrder, PurchasableAsTyped, Purchasable

LEMMA TypedNext == ASSUME IInv, RosterInv, TypedInv, [Next]_vars PROVE TypedInv'
<1>0. RequestsOK /\ Calls /\ BoardTypeOK
  BY DEF IInv, TypedInv
<1>1. CASE AccountsNext /\ UNCHANGED <<boardVars, libraryVars, plannerVars>>
  <2>1. Calls'
    BY <1>0, <1>1, AccountsFrames, CallsKept, OtherParts
  <2> QED
    BY <1>0, <1>1, <2>1, BoardUntouched, RowsTyped
<1>2. CASE RosterNext /\ UNCHANGED <<boardVars, libraryVars, plannerVars>>
  <2>1. Calls'
    BY <1>0, <1>2, RosterFrames, CallsKept, OtherParts
  <2> QED
    BY <1>0, <1>2, <2>1, BoardUntouched, RowsTyped
<1>3. CASE BoardNext /\ UNCHANGED <<libraryVars, plannerVars>>
  BY <1>0, <1>3, BoardTyped
<1>4. CASE LibraryNext /\ UNCHANGED plannerVars
  BY <1>0, <1>4, LibraryTyped
<1>5. CASE PlannerNext /\ UNCHANGED <<boardVars, libraryVars>>
  BY <1>0, <1>5, PlannerTyped
<1>6. ASSUME NEW r \in Requests, BoardAbort(r), UNCHANGED <<libraryVars, plannerVars>> PROVE TypedInv'
  <2>1. Calls'
    BY <1>0, <1>6, CallAnswered DEF BoardAbort, Abort
  <2>2. BoardTypeOK'
    BY <1>0, <1>6, DroppedFiles DEF BoardAbort, BoardTypeOK
  <2> QED
    BY <1>6, <2>1, <2>2, RowsTyped
<1>7. CASE UNCHANGED vars
  <2>1. UNCHANGED <<req, boardVars, libraryVars, plannerVars>>
    BY <1>7 DEF vars, serverVars
  <2>2. Calls'
    BY <1>0, <2>1 DEF Calls
  <2> QED
    BY <1>0, <2>1, <2>2, BoardUntouched, RowsTyped
<1> QED
  BY <1>1, <1>2, <1>3, <1>4, <1>5, <1>6, <1>7 DEF Next

LEMMA TypedStarts == ASSUME Init PROVE TypedInv
<1>1. Calls
  BY CallOfOthers, IdleIsNoCall DEF Init, ServerInit, Calls
<1>2. NoPost \in PostRow /\ NoComment \in CommentRow
  BY DEF NoPost, PostRow, NoComment, CommentRow, Roles
<1>3. BoardTypeOK
  BY <1>2, BoardAssumption DEF Init, BoardInit, BoardTypeOK
<1>4. NoMaterial \in MaterialRow /\ NoOrder \in OrderRow /\ NoNotice \in NoticeRow /\ NoNotice.scope = "GLOBAL"
  BY DEF NoMaterial, MaterialRow, NoOrder, OrderRow, NoNotice, NoticeRow, Scopes
<1>5. LibraryTypeOK /\ NoticeHasLecture
  BY <1>4 DEF Init, LibraryInit, LibraryTypeOK, NoticeHasLecture
<1>6. NoCategory \in CategoryRow
  BY DEF NoCategory, CategoryRow
<1>7. PlannerTypeOK /\ SchedulesInOrder /\ PurchasableAsTyped
  BY <1>6, BlankRows DEF Init, PlannerInit, PlannerTypeOK, SchedulesInOrder, PurchasableAsTyped
<1> QED
  BY <1>1, <1>3, <1>5, <1>7 DEF TypedInv, EditsKeepRowsFit

LEMMA TypedInvariance == Spec => []TypedInv
<1>1. IInv /\ RosterInv /\ TypedInv /\ [Next]_vars => TypedInv'
  BY TypedNext
<1> QED
  BY <1>1, TypedStarts, Invariance, RosterInvariance, PTL DEF Spec

-----------------------------------------------------------------------------
\* The rows of every part of the school keep their shapes, whatever requests interleave, abort or find
\* what they have read changed (the models of schema.prisma).
THEOREM Typed == Spec => []TypeOK
<1>1. IInv /\ RosterInv /\ TypedInv => TypeOK
  BY DEF IInv, RosterInv, RosterRows, TypedInv, TypeOK
<1> QED
  BY <1>1, Invariance, RosterInvariance, TypedInvariance, PTL

\* An announcement for one lecture names it, a schedule ends no earlier than it starts, and a product that
\* can be bought gives what its type says, however edits of single fields follow each other, but for those
\* that another edit has overtaken (updatePost, updateSchedule, updateProduct).
THEOREM EditsFit == Spec => []EditsKeepRowsFit
<1>1. TypedInv => EditsKeepRowsFit
  BY DEF TypedInv
<1> QED
  BY <1>1, TypedInvariance, PTL

-----------------------------------------------------------------------------
(***************************************************************************)
(* AnswerInv.  A question waits exactly as long as the instructor's side   *)
(* has not commented on it.  What a request has read of the status may be  *)
(* old when it writes: it found the question answered, and an answer is    *)
(* never taken back while the question is there.                           *)
(***************************************************************************)
RowTells(p) ==
    /\ post[p].status # "BEFORE" <=> post[p].answered
    /\ post[p].there => post[p].of # None

\* Asked and, while it is there, answered: a question's key is never used again.
Settled(p) == post[p].of # None /\ (post[p].there => post[p].status # "BEFORE")

CallTells(q) ==
    /\ q.op = "updateStatus" => Settled(q.post)
    /\ q.op = "createComment" => (q.on \in Posts /\ q.status # "BEFORE" => Settled(q.on))
    /\ q.op = "createPost" => q.of # None

AnswerRows == \A p \in Posts : RowTells(p)
AnswerCalls == \A r \in Requests : CallTells(req[r])
AnswerInv == AnswerRows /\ AnswerCalls

Telling == {"updateStatus", "createComment", "createPost"}

LEMMA OthersTell == ASSUME NEW q, q.op \notin Telling PROVE CallTells(q)
  BY DEF CallTells, Telling

LEMMA IdleTells == CallTells(Idle)
  BY DEF CallTells, Idle

LEMMA TellingMoved ==
    ASSUME RequestsOK, AnswerCalls, NEW r \in Requests, NEW q, CallTells(q), req' = [req EXCEPT ![r] = q]
    PROVE  \A s \in Requests : CallTells(req'[s])
  BY DEF RequestsOK, AnswerCalls

LEMMA TellingAnswered ==
    ASSUME RequestsOK, AnswerCalls, NEW r \in Requests, Reply(r) PROVE \A s \in Requests : CallTells(req'[s])
  BY IdleTells, TellingMoved DEF Reply, Proceed

LEMMA TellingBegun ==
    ASSUME RequestsOK, AnswerCalls, NEW r \in Requests, NEW op, NEW q, CallTells(q), Begin(r, op, q)
    PROVE  \A s \in Requests : CallTells(req'[s])
  BY TellingMoved DEF Begin

LEMMA TellingGoesOn ==
    ASSUME RequestsOK, AnswerCalls, NEW r \in Requests, NEW q, CallTells(q), Proceed(r, q)
    PROVE  \A s \in Requests : CallTells(req'[s])
  BY TellingMoved DEF Proceed

LEMMA TellingKept ==
    ASSUME AnswerCalls, NEW ops, Moved(ops), ops \cap Telling = {} PROVE \A s \in Requests : CallTells(req'[s])
<1>1. ASSUME NEW s \in Requests PROVE CallTells(req'[s])
  BY <1>1, OthersTell, IdleTells DEF AnswerCalls, Moved, Of
<1> QED
  BY <1>1

\* A step of another part changes neither the questions nor who has answered them.
LEMMA PostsStay ==
    ASSUME AnswerInv, UNCHANGED post, \A s \in Requests : CallTells(req'[s]) PROVE AnswerInv'
<1>1. \A p \in Posts : RowTells(p)' <=> RowTells(p)
  BY DEF RowTells
<1>2. ASSUME NEW s \in Requests PROVE CallTells(req[s])'
  BY <1>2 DEF CallTells, Settled
<1> QED
  BY <1>1, <1>2 DEF AnswerInv, AnswerRows, AnswerCalls

\* A row that changes still tells, and what was settled still is.
LEMMA PostsTell ==
    ASSUME AnswerInv, Calls', \A s \in Requests : CallTells(req'[s]),
           \A p \in Posts : RowTells(p)' /\ (Settled(p) => Settled(p)')
    PROVE  AnswerInv'
<1>1. ASSUME NEW s \in Requests PROVE CallTells(req[s])'
  <2>1. req'[s].op = "updateStatus" => req'[s].post \in Posts
    BY DEF Calls, CallOK, BoardCallOK, StatusCall
  <2> QED
    BY <2>1 DEF CallTells
<1> QED
  BY <1>1 DEF AnswerInv, AnswerRows, AnswerCalls

LEMMA BoardCallsTell ==
    ASSUME RequestsOK, RosterInv, TypedInv, AnswerInv, BoardNext PROVE \A s \in Requests : CallTells(req'[s])
<1> USE OthersTell DEF Telling
<1>0. AnswerCalls
  BY DEF AnswerInv
<1>1. ASSUME NEW r \in Requests, BeginPost(r) PROVE \A s \in Requests : CallTells(req'[s])
  <2>1. PICK e \in There, role \in {"STUDENT", "PARENT"}, up \in BOOLEAN :
          Begin(r, "createPost", [op |-> "createPost", step |-> "upload", of |-> e, role |-> role, uploads |-> up,
                                  added |-> {}])
    BY <1>1 DEF BeginPost
  <2>2. e # None
    BY RosterAssumption DEF There
  <2>3. CallTells([op |-> "createPost", step |-> "upload", of |-> e, role |-> role, uploads |-> up, added |-> {}])
    BY <2>2 DEF CallTells
  <2> QED
    BY <1>0, <2>1, <2>3, TellingBegun
<1>2. ASSUME NEW r \in Requests, BeginStatus(r) PROVE \A s \in Requests : CallTells(req'[s])
  <2>1. PICK p \in Posts, status \in {"REGISTERED", "COMPLETED"} :
          /\ Mine(p) /\ Closable(p)
          /\ Begin(r, "updateStatus", [op |-> "updateStatus", step |-> "save", post |-> p, status |-> status])
    BY <1>2 DEF BeginStatus
  <2>2. Settled(p)
    BY <2>1 DEF Mine, Closable, Settled, AnswerInv, AnswerRows, RowTells
  <2>3. CallTells([op |-> "updateStatus", step |-> "save", post |-> p, status |-> status])
    BY <2>2 DEF CallTells
  <2> QED
    BY <1>0, <2>1, <2>3, TellingBegun
<1>3. ASSUME NEW r \in Requests, BeginComment(r) PROVE \A s \in Requests : CallTells(req'[s])
  <2>1. PICK p \in Posts, role \in Roles, up \in BOOLEAN :
          /\ post[p].there
          /\ Begin(r, "createComment", [op |-> "createComment", step |-> "upload", on |-> p, role |-> role,
                                        by |-> IF role = "STAFF" THEN None ELSE post[p].of,
                                        status |-> post[p].status, uploads |-> up, added |-> {}])
    BY <1>3 DEF BeginComment
  <2> DEFINE q == [op |-> "createComment", step |-> "upload", on |-> p, role |-> role,
                   by |-> IF role = "STAFF" THEN None ELSE post[p].of,
                   status |-> post[p].status, uploads |-> up, added |-> {}]
  <2>2. post[p].status # "BEFORE" => Settled(p)
    BY <2>1 DEF Settled, AnswerInv, AnswerRows, RowTells
  <2>3. CallTells(q)
    BY <2>2 DEF CallTells
  <2> QED
    BY <1>0, <2>1, <2>3, TellingBegun
<1>4. ASSUME NEW r \in Requests, BeginEditPost(r) \/ BeginDeletePost(r) \/ BeginDeleteComment(r) \/ BeginEditComment(r)
      PROVE  \A s \in Requests : CallTells(req'[s])
  <2>1. CASE BeginEditPost(r)
    BY <1>0, <2>1, TellingBegun DEF BeginEditPost
  <2>2. CASE BeginDeletePost(r)
    BY <1>0, <2>2, TellingBegun DEF BeginDeletePost
  <2>3. CASE BeginDeleteComment(r)
    BY <1>0, <2>3, TellingBegun DEF BeginDeleteComment
  <2>4. CASE BeginEditComment(r)
    BY <1>0, <2>4, TellingBegun DEF BeginEditComment
  <2> QED
    BY <1>4, <2>1, <2>2, <2>3, <2>4
<1>5. ASSUME NEW r \in Requests,
             \/ SavePost(r) \/ SaveStatus(r) \/ InsertAttachments(r) \/ DeletePost(r) \/ SaveComment(r) \/ DeleteComment(r)
             \/ InsertCommentRows(r)
      PROVE  \A s \in Requests : CallTells(req'[s])
  BY <1>0, <1>5, TellingAnswered DEF SavePost, SaveStatus, InsertAttachments, DeletePost, SaveComment, DeleteComment,
     InsertCommentRows
<1>6. ASSUME NEW r \in Requests,
             \/ DropOldFiles(r) \/ DropPostFiles(r) \/ DropCommentFiles(r) \/ ClearAttachments(r) \/ ClearCommentRows(r)
      PROVE  \A s \in Requests : CallTells(req'[s])
  <2> DEFINE ops == {"updatePost", "deletePost", "deleteComment", "updateComment"}
  <2>1. Moved(ops)
    <3>1. CASE DropOldFiles(r) \/ DropPostFiles(r)
      BY <3>1, DropFrames DEF DropOldFiles, DropPostFiles, At
    <3>2. CASE DropCommentFiles(r)
      BY <3>2, DropFrames DEF DropCommentFiles
    <3>3. CASE ClearAttachments(r) \/ ClearCommentRows(r)
      BY <3>3, OnwardFrames DEF ClearAttachments, ClearCommentRows, At
    <3> QED
      BY <1>6, <3>1, <3>2, <3>3
  <2>2. ops \cap Telling = {}
    OBVIOUS
  <2> HIDE DEF ops
  <2> QED
    BY <1>0, <2>1, <2>2, TellingKept
<1>7. ASSUME NEW r \in Requests, UploadOf(r) PROVE \A s \in Requests : CallTells(req'[s])
  <2>1. PICK q, next : q = req[r] /\ Upload(r, next)
    BY <1>7 DEF UploadOf
  <2>2. PICK new : Proceed(r, new) /\ (new = [q EXCEPT !.step = next, !.added = {uploads'}] \/ new = [q EXCEPT !.step = next])
    BY <2>1 DEF Upload
  <2>3. {"op", "step"} \subseteq DOMAIN q /\ CallTells(q) /\ BoardCallOK(q)
    BY <1>0, <2>1 DEF RequestsOK, RequestOK, AnswerCalls, TypedInv, Calls, CallOK
  <2>4. CASE q.op = "createComment"
    <3>1. new.op = q.op /\ new.on = q.on /\ new.status = q.status
      BY <2>2, <2>3, <2>4 DEF BoardCallOK, CommentCall
    <3> QED
      BY <1>0, <2>2, <2>3, <2>4, <3>1, TellingGoesOn DEF CallTells
  <2>5. CASE q.op = "createPost"
    <3>1. new.op = q.op /\ new.of = q.of
      BY <2>2, <2>3, <2>5 DEF BoardCallOK, CreatePostCall
    <3> QED
      BY <1>0, <2>2, <2>3, <2>5, <3>1, TellingGoesOn DEF CallTells
  <2>6. CASE q.op \in {"updatePost", "updateComment"}
    <3>1. new.op = q.op
      BY <2>2, <2>3
    <3> QED
      BY <1>0, <2>2, <2>6, <3>1, TellingGoesOn
  <2> QED
    BY <1>7, <2>1, <2>4, <2>5, <2>6 DEF UploadOf
<1> QED
  BY <1>1, <1>2, <1>3, <1>4, <1>5, <1>6, <1>7 DEF BoardNext

\* The steps that write a question.
LEMMA PostSavedTells ==
    ASSUME TypedInv, AnswerInv, NEW r \in Requests, SavePost(r), NEW p \in Posts
    PROVE  RowTells(p)' /\ (Settled(p) => Settled(p)')
<1>1. PICK q : q = req[r]
  OBVIOUS
<1>2. q \in CreatePostCall /\ q.of # None
  BY <1>1 DEF SavePost, At, TypedInv, Calls, CallOK, BoardCallOK, AnswerInv, AnswerCalls, CallTells
<1>3. PICK n \in Posts :
        /\ post[n].of = None
        /\ post' = [post EXCEPT ![n] = [NoPost EXCEPT !.there = TRUE, !.of = q.of, !.role = q.role, !.files = q.added]]
  BY <1>1 DEF SavePost
<1>4. PICK row : row = [NoPost EXCEPT !.there = TRUE, !.of = q.of, !.role = q.role, !.files = q.added]
  OBVIOUS
<1>5. row.status = "BEFORE" /\ row.answered = FALSE /\ row.of = q.of
  BY <1>4 DEF NoPost
<1>6. post'[p] = IF p = n THEN row ELSE post[p]
  BY <1>3, <1>4 DEF TypedInv, BoardTypeOK
<1> QED
  BY <1>2, <1>3, <1>5, <1>6 DEF AnswerInv, AnswerRows, RowTells, Settled

LEMMA StatusSavedTells ==
    ASSUME TypedInv, AnswerInv, NEW r \in Requests, SaveStatus(r), NEW p \in Posts
    PROVE  RowTells(p)' /\ (Settled(p) => Settled(p)')
<1>1. PICK q : q = req[r]
  OBVIOUS
<1>2. q \in StatusCall /\ Settled(q.post)
  BY <1>1 DEF SaveStatus, At, TypedInv, Calls, CallOK, BoardCallOK, AnswerInv, AnswerCalls, CallTells
<1>3. q.post \in Posts /\ q.status # "BEFORE"
  BY <1>2 DEF StatusCall
<1>4. \/ post'[p] = post[p]
      \/ p = q.post /\ post[p].there /\ post'[p] = [post[p] EXCEPT !.status = q.status]
  BY <1>1, <1>3 DEF SaveStatus, TypedInv, BoardTypeOK
<1>5. post[p] \in PostRow /\ RowTells(p)
  BY DEF TypedInv, BoardTypeOK, AnswerInv, AnswerRows
<1>6. CASE post'[p] = post[p]
  BY <1>5, <1>6 DEF RowTells, Settled
<1>7. CASE p = q.post /\ post[p].there /\ post'[p] = [post[p] EXCEPT !.status = q.status]
  <2>1. /\ post'[p].status = q.status /\ post'[p].answered = post[p].answered
        /\ post'[p].there = post[p].there /\ post'[p].of = post[p].of
    BY <1>5, <1>7 DEF PostRow
  <2> QED
    BY <1>2, <1>3, <1>5, <1>7, <2>1 DEF RowTells, Settled
<1> QED
  BY <1>4, <1>6, <1>7

LEMMA FilesSavedTell ==
    ASSUME TypedInv, AnswerInv, NEW r \in Requests, ClearAttachments(r) \/ InsertAttachments(r) \/ DeletePost(r), NEW p \in Posts
    PROVE  RowTells(p)' /\ (Settled(p) => Settled(p)')
<1>1. PICK q : q = req[r]
  OBVIOUS
<1>2. post[p] \in PostRow /\ RowTells(p)
  BY DEF TypedInv, BoardTypeOK, AnswerInv, AnswerRows
<1>3. BoardCallOK(q) /\ DOMAIN post = Posts
  BY <1>1 DEF TypedInv, Calls, CallOK, BoardTypeOK
<1>4. CASE ClearAttachments(r) \/ InsertAttachments(r)
  <2>1. q.post \in Posts
    BY <1>1, <1>3, <1>4 DEF ClearAttachments, InsertAttachments, At, BoardCallOK, EditPostCall
  <2>2. PICK files : post' = post \/ post' = [post EXCEPT ![q.post].files = files]
    <3>1. CASE ClearAttachments(r)
      BY <1>1, <3>1 DEF ClearAttachments
    <3>2. CASE InsertAttachments(r)
      <4>1. post' = post \/ post' = [post EXCEPT ![q.post].files = post[q.post].files \cup q.keeps \cup q.added]
        BY <1>1, <3>2 DEF InsertAttachments
      <4> QED
        BY <4>1
    <3> QED
      BY <1>4, <3>1, <3>2
  <2>4. post'[p] = post[p] \/ post'[p] = [post[p] EXCEPT !.files = files]
    BY <1>3, <2>1, <2>2
  <2>3. /\ post'[p].status = post[p].status /\ post'[p].answered = post[p].answered
        /\ post'[p].there = post[p].there /\ post'[p].of = post[p].of
    BY <1>2, <2>4 DEF PostRow
  <2> QED
    BY <1>2, <2>3 DEF RowTells, Settled
<1>5. CASE DeletePost(r)
  <2>1. q.post \in Posts
    BY <1>1, <1>3, <1>5 DEF DeletePost, At, BoardCallOK, DeletePostCall
  <2>2. post'[p] = post[p] \/ post'[p] = [NoPost EXCEPT !.of = post[p].of]
    BY <1>1, <1>3, <1>5, <2>1 DEF DeletePost
  <2>3. CASE post'[p] = post[p]
    BY <1>2, <2>3 DEF RowTells, Settled
  <2>4. CASE post'[p] = [NoPost EXCEPT !.of = post[p].of]
    <3>1. post'[p].status = "BEFORE" /\ post'[p].answered = FALSE /\ post'[p].there = FALSE /\ post'[p].of = post[p].of
      BY <2>4 DEF NoPost
    <3> QED
      BY <1>2, <3>1 DEF RowTells, Settled
  <2> QED
    BY <2>2, <2>3, <2>4
<1> QED
  BY <1>4, <1>5

LEMMA CommentSavedTells ==
    ASSUME TypedInv, AnswerInv, NEW r \in Requests, SaveComment(r), NEW p \in Posts
    PROVE  RowTells(p)' /\ (Settled(p) => Settled(p)')
<1>1. PICK q : q = req[r]
  OBVIOUS
<1>2. q \in CommentCall /\ q.on \in Posts /\ (q.status # "BEFORE" => Settled(q.on))
  BY <1>1 DEF SaveComment, At, TypedInv, Calls, CallOK, BoardCallOK, AnswerInv, AnswerCalls, CallTells
<1>3. post[p] \in PostRow /\ RowTells(p)
  BY DEF TypedInv, BoardTypeOK, AnswerInv, AnswerRows
<1>4. CASE post'[p] = post[p]
  BY <1>3, <1>4 DEF RowTells, Settled
<1>5. CASE p = q.on /\ post[p].there
  <2>1. PICK status \in {"BEFORE", "REGISTERED", "COMPLETED"}, answered \in BOOLEAN :
          /\ status = IF FirstAnswer(q) THEN "REGISTERED" ELSE post[p].status
          /\ answered = (post[p].answered \/ q.role = "STAFF")
    BY <1>3 DEF PostRow
  <2>2. post'[p] = [post[p] EXCEPT !.status = status, !.answered = answered]
    BY <1>1, <1>2, <1>3, <1>5, <2>1 DEF SaveComment, TypedInv, BoardTypeOK, PostRow
  <2>3. /\ post'[p].status = status /\ (post'[p].answered <=> post[p].answered \/ q.role = "STAFF")
        /\ post'[p].there = post[p].there /\ post'[p].of = post[p].of
    BY <1>3, <2>1, <2>2 DEF PostRow
  <2>4. CASE q.role = "STAFF"
    <3>1. status # "BEFORE"
      BY <1>2, <1>5, <2>1, <2>4 DEF FirstAnswer, Settled
    <3> QED
      BY <1>3, <2>3, <2>4, <3>1 DEF RowTells, Settled
  <2>5. CASE q.role # "STAFF"
    BY <1>3, <2>1, <2>3, <2>5 DEF RowTells, Settled, FirstAnswer
  <2> QED
    BY <2>4, <2>5
<1>6. post'[p] = post[p] \/ (p = q.on /\ post[p].there)
  BY <1>1, <1>2 DEF SaveComment, TypedInv, BoardTypeOK
<1> QED
  BY <1>4, <1>5, <1>6

\* The requests of the library but those that comment.
LEMMA LibraryElse ==
    ASSUME RequestsOK, LibraryNext, ~\E r \in Requests : BeginNoticeComment(r) \/ SaveNoticeComment(r)
    PROVE  Moved(LibraryOps \ {"createComment"})
<1> DEFINE ops == LibraryOps \ {"createComment"}
<1> USE DEF Of, LibraryOps, DropOps
<1>1. CASE DeleteMaterial \/ UpdateOrderStatus \/ DeleteOrder \/ DeleteNotice
  BY <1>1, ServeFrames DEF DeleteMaterial, UpdateOrderStatus, DeleteOrder, DeleteNotice
<1>2. ASSUME NEW r \in Requests, BeginUploadMaterial(r) \/ BeginEditMaterial(r) \/ BeginOrder(r) \/ BeginEditOrder(r) PROVE Moved(ops)
  <2>1. CASE BeginUploadMaterial(r)
    BY <2>1, BeginFrames DEF BeginUploadMaterial
  <2>2. CASE BeginEditMaterial(r)
    BY <2>2, BeginFrames DEF BeginEditMaterial
  <2>3. CASE BeginOrder(r)
    BY <2>3, BeginFrames DEF BeginOrder
  <2>4. CASE BeginEditOrder(r)
    BY <2>4, BeginFrames DEF BeginEditOrder
  <2> QED
    BY <1>2, <2>1, <2>2, <2>3, <2>4
<1>3. ASSUME NEW r \in Requests, BeginNotice(r) \/ BeginEditNotice(r) PROVE Moved(ops)
  <2>1. CASE BeginNotice(r)
    BY <2>1, BeginFrames DEF BeginNotice
  <2>2. CASE BeginEditNotice(r)
    BY <2>2, BeginFrames DEF BeginEditNotice
  <2> QED
    BY <1>3, <2>1, <2>2
<1>4. ASSUME NEW r \in Requests,
             CreateMaterial(r) \/ SaveMaterial(r) \/ CreateOrder(r) \/ SaveOrder(r) \/ CreateNotice(r) \/ SaveNotice(r)
      PROVE  Moved(ops)
  BY <1>4, ReplyFrames DEF CreateMaterial, SaveMaterial, CreateOrder, SaveOrder, CreateNotice, SaveNotice, At
<1>5. ASSUME NEW r \in Requests, DropOldMaterial(r) PROVE Moved(ops)
  BY <1>5, DropFrames DEF DropOldMaterial, At
<1>6. ASSUME NEW r \in Requests, UploadToLibrary(r) PROVE Moved(ops)
  BY <1>6, UploadFrames DEF UploadToLibrary
<1> QED
  BY <1>1, <1>2, <1>3, <1>4, <1>5, <1>6 DEF LibraryNext

LEMMA AnswerNext == ASSUME IInv, RosterInv, TypedInv, AnswerInv, [Next]_vars PROVE AnswerInv'
<1>0. RequestsOK /\ AnswerCalls
  BY DEF IInv, AnswerInv
<1>1. CASE AccountsNext /\ UNCHANGED boardVars
  <2>1. AccountOps \cap Telling = {}
    BY DEF AccountOps, StaffOps, AdminOps, Telling
  <2> QED
    BY <1>0, <1>1, <2>1, AccountsFrames, TellingKept, PostsStay DEF boardVars
<1>2. CASE RosterNext /\ UNCHANGED boardVars
  <2>1. RosterOps \cap Telling = {}
    BY DEF RosterOps, Telling
  <2> QED
    BY <1>0, <1>2, <2>1, RosterFrames, TellingKept, PostsStay DEF boardVars
<1>3. CASE BoardNext
  <2>1. \A s \in Requests : CallTells(req'[s])
    BY <1>0, <1>3, BoardCallsTell
  <2>2. Calls'
    <3>1. ASSUME NEW r \in Requests,
                 \/ BeginPost(r) \/ BeginStatus(r) \/ BeginEditPost(r) \/ BeginDeletePost(r)
                 \/ BeginComment(r) \/ BeginDeleteComment(r) \/ BeginEditComment(r)
          PROVE  Calls'
      BY <1>0, <3>1, BoardBegins
    <3> QED
      BY <1>0, <1>3, <3>1, BoardDrops, PostsSaved, CommentsSaved, UploadOnBoard DEF BoardNext
  <2>3. ASSUME UNCHANGED post PROVE AnswerInv'
    BY <2>1, <2>3, PostsStay
  <2>4. ASSUME \A p \in Posts : RowTells(p)' /\ (Settled(p) => Settled(p)') PROVE AnswerInv'
    BY <2>1, <2>2, <2>4, PostsTell
  <2>5. ASSUME NEW r \in Requests,
               \/ SavePost(r) \/ SaveStatus(r) \/ ClearAttachments(r) \/ InsertAttachments(r) \/ DeletePost(r) \/ SaveComment(r)
        PROVE  AnswerInv'
    BY <2>4, <2>5, PostSavedTells, StatusSavedTells, FilesSavedTell, CommentSavedTells
  <2>6. ASSUME NEW r \in Requests,
               \/ BeginPost(r) \/ BeginStatus(r) \/ BeginEditPost(r) \/ BeginDeletePost(r)
               \/ BeginComment(r) \/ BeginDeleteComment(r) \/ BeginEditComment(r)
        PROVE  AnswerInv'
    BY <1>0, <2>3, <2>6, BoardBegins DEF boardVars
  <2>7. ASSUME NEW r \in Requests,
               \/ DropOldFiles(r) \/ DropPostFiles(r) \/ DropCommentFiles(r) \/ DeleteComment(r)
               \/ ClearCommentRows(r) \/ InsertCommentRows(r) \/ UploadOf(r)
        PROVE  AnswerInv'
    BY <2>3, <2>7 DEF DropOldFiles, DropPostFiles, DropCommentFiles, DeleteComment, ClearCommentRows, InsertCommentRows,
       UploadOf, Upload
  <2> QED
    BY <1>3, <2>5, <2>6, <2>7 DEF BoardNext
<1>4. CASE LibraryNext
  <2>1. ASSUME NEW r \in Requests, BeginNoticeComment(r) PROVE \A s \in Requests : CallTells(req'[s])
    <3>1. PICK n \in Notices, role \in Roles, up \in BOOLEAN : \E e \in CommentsThrough(n, role) :
            Begin(r, "createComment", [op |-> "createComment", step |-> "upload", on |-> n, role |-> role, by |-> e,
                                       status |-> None, uploads |-> up, added |-> {}])
      BY <2>1 DEF BeginNoticeComment
    <3>2. PICK e \in CommentsThrough(n, role) :
            Begin(r, "createComment", [op |-> "createComment", step |-> "upload", on |-> n, role |-> role, by |-> e,
                                       status |-> None, uploads |-> up, added |-> {}])
      BY <3>1
    <3>3. CallTells([op |-> "createComment", step |-> "upload", on |-> n, role |-> role, by |-> e, status |-> None,
                     uploads |-> up, added |-> {}])
      BY BoardAssumption DEF CallTells
    <3> QED
      BY <1>0, <3>2, <3>3, TellingBegun
  <2>2. ASSUME NEW r \in Requests, SaveNoticeComment(r) PROVE \A s \in Requests : CallTells(req'[s])
    BY <1>0, <2>2, TellingAnswered DEF SaveNoticeComment
  <2>3. ASSUME ~\E r \in Requests : BeginNoticeComment(r) \/ SaveNoticeComment(r)
        PROVE  \A s \in Requests : CallTells(req'[s])
    <3>1. Moved(LibraryOps \ {"createComment"})
      BY <1>0, <1>4, <2>3, LibraryElse
    <3>2. (LibraryOps \ {"createComment"}) \cap Telling = {}
      BY DEF LibraryOps, Telling
    <3> QED
      BY <1>0, <3>1, <3>2, TellingKept
  <2>4. UNCHANGED post
    <3>1. CASE DeleteMaterial \/ UpdateOrderStatus \/ DeleteOrder \/ DeleteNotice
      BY <3>1 DEF DeleteMaterial, UpdateOrderStatus, DeleteOrder, DeleteNotice, boardVars
    <3>2. ASSUME NEW r \in Requests,
                 \/ BeginUploadMaterial(r) \/ BeginEditMaterial(r) \/ BeginOrder(r) \/ BeginEditOrder(r)
                 \/ BeginNotice(r) \/ BeginEditNotice(r) \/ BeginNoticeComment(r)
          PROVE  UNCHANGED post
      BY <3>2 DEF BeginUploadMaterial, BeginEditMaterial, BeginOrder, BeginEditOrder, BeginNotice, BeginEditNotice,
         BeginNoticeComment, boardVars
    <3>3. ASSUME NEW r \in Requests,
                 \/ CreateMaterial(r) \/ DropOldMaterial(r) \/ SaveMaterial(r) \/ CreateOrder(r) \/ SaveOrder(r)
                 \/ CreateNotice(r) \/ SaveNotice(r) \/ SaveNoticeComment(r) \/ UploadToLibrary(r)
          PROVE  UNCHANGED post
      BY <3>3 DEF CreateMaterial, DropOldMaterial, SaveMaterial, CreateOrder, SaveOrder, CreateNotice, SaveNotice,
         SaveNoticeComment, UploadToLibrary, Upload, boardVars
    <3> QED
      BY <1>4, <3>1, <3>2, <3>3 DEF LibraryNext
  <2> QED
    BY <2>1, <2>2, <2>3, <2>4, PostsStay
<1>5. CASE PlannerNext /\ UNCHANGED boardVars
  <2>1. PlannerOps \cap Telling = {}
    BY DEF PlannerOps, Telling
  <2> QED
    BY <1>0, <1>5, <2>1, PlannerFrames, TellingKept, PostsStay DEF boardVars
<1>6. ASSUME NEW r \in Requests, BoardAbort(r) PROVE AnswerInv'
  BY <1>0, <1>6, TellingAnswered, PostsStay DEF BoardAbort, Abort
<1>7. CASE UNCHANGED vars
  <2>1. UNCHANGED <<req, post>>
    BY <1>7 DEF vars, serverVars, boardVars
  <2> QED
    BY <1>0, <2>1, PostsStay DEF AnswerCalls
<1> QED
  BY <1>1, <1>2, <1>3, <1>4, <1>5, <1>6, <1>7 DEF Next

LEMMA AnswerStarts == ASSUME Init PROVE AnswerInv
<1>1. AnswerRows
  BY DEF Init, BoardInit, AnswerRows, RowTells, NoPost
<1>2. AnswerCalls
  BY IdleTells DEF Init, ServerInit, AnswerCalls
<1> QED
  BY <1>1, <1>2 DEF AnswerInv

LEMMA AnswerInvariance == Spec => []AnswerInv
<1>1. IInv /\ RosterInv /\ TypedInv /\ AnswerInv /\ [Next]_vars => AnswerInv'
  BY AnswerNext
<1> QED
  BY <1>1, AnswerStarts, Invariance, RosterInvariance, TypedInvariance, PTL DEF Spec

\* The counts above the list leave no question out.
LEMMA ThreeParts ==
    ASSUME BoardTypeOK
    PROVE  PostStats.totalCount = PostStats.unansweredCount + PostStats.processingCount + PostStats.answeredCount
<1> DEFINE A == Listed("BEFORE")
           B == Listed("REGISTERED")
           C == Listed("COMPLETED")
<1>1. Asked \subseteq Posts /\ A \subseteq Asked /\ B \subseteq Asked /\ C \subseteq Asked
  BY DEF Asked, Listed
<1>2. IsFiniteSet(Asked) /\ IsFiniteSet(A) /\ IsFiniteSet(B) /\ IsFiniteSet(C)
  <2>1. IsFiniteSet(Asked)
    BY <1>1, BoardAssumption, FS_Subset
  <2> QED
    BY <1>1, <2>1, FS_Subset
<1>3. Asked = (A \cup B) \cup C
  BY DEF Asked, Listed, BoardTypeOK, PostRow
<1>4. A \cap B = {} /\ (A \cup B) \cap C = {}
  BY DEF Listed
<1> HIDE DEF A, B, C
<1>5. IsFiniteSet(A \cup B) /\ Cardinality(A \cup B) = Cardinality(A) + Cardinality(B) - Cardinality(A \cap B)
  BY <1>2, FS_Union
<1>6. Cardinality((A \cup B) \cup C) = Cardinality(A \cup B) + Cardinality(C) - Cardinality((A \cup B) \cap C)
  BY <1>2, <1>5, FS_Union
<1>7. Cardinality(A) \in Nat /\ Cardinality(B) \in Nat /\ Cardinality(C) \in Nat
  BY <1>2, FS_CardinalityType
<1>8. Cardinality(Asked) = Cardinality(A) + Cardinality(B) + Cardinality(C)
  <2>1. Cardinality(A \cap B) = 0 /\ Cardinality((A \cup B) \cap C) = 0
    BY <1>4, FS_EmptySet
  <2>2. Cardinality(A \cup B) = Cardinality(A) + Cardinality(B)
    BY <1>5, <1>7, <2>1
  <2>3. Cardinality((A \cup B) \cup C) = Cardinality(A \cup B) + Cardinality(C)
    BY <1>6, <1>7, <2>1, <2>2
  <2> QED
    BY <1>3, <2>2, <2>3
<1> QED
  BY <1>8 DEF PostStats, A, B, C

-----------------------------------------------------------------------------
\* A question waits exactly as long as the instructor's side has not commented, in whichever order the
\* comments, the asker's toggling and the deletion of the question are written, and the counts above the
\* list leave none out (createComment, updateStatus, getStats).
THEOREM StatusIsAnswer == Spec => []StatusTellsAnswer
<1>1. TypedInv /\ AnswerInv => StatusTellsAnswer
  <2> SUFFICES ASSUME TypedInv, AnswerInv PROVE StatusTellsAnswer
    OBVIOUS
  <2>1. \A p \in Posts : post[p].status # "BEFORE" <=> post[p].answered
    BY DEF AnswerInv, AnswerRows, RowTells
  <2>2. Listed("BEFORE") = {p \in Asked : ~post[p].answered}
    BY <2>1 DEF Listed, Asked
  <2>3. PostStats.unansweredCount = Cardinality({p \in Asked : ~post[p].answered})
    BY <2>2 DEF PostStats
  <2> QED
    BY <2>1, <2>3, ThreeParts DEF StatusTellsAnswer, TypedInv
<1> QED
  BY <1>1, TypedInvariance, AnswerInvariance, PTL

-----------------------------------------------------------------------------
(***************************************************************************)
(* FilesInv.  Every file that was uploaded belongs to one owner: to the    *)
(* request that brought it until a row is written, then to that row, and   *)
(* to it still when the row is gone.  So a request that removes a file     *)
(* from S3 touches the rows of one owner only, and those it writes before  *)
(* it is answered.                                                         *)
(***************************************************************************)
OfRequest(r) == <<"request", r>>
OfPost(p) == <<"post", p>>
OfComment(c) == <<"comment", c>>
OfMaterial(m) == <<"material", m>>
OfNotice(n) == <<"notice", n>>
Nobody == <<"nobody", "nobody">>
Owners ==
    {OfRequest(r) : r \in Requests} \cup {OfPost(p) : p \in Posts} \cup {OfComment(c) : c \in Comments}
      \cup {OfMaterial(m) : m \in Materials} \cup {OfNotice(n) : n \in Notices} \cup {Nobody}
OwnedBy(own, files, owner) == \A f \in files : own[f] = owner

\* The files a call has uploaded and not written, and those it has removed from S3 (Dropped).
AddOps == {"createPost", "updatePost", "createComment", "updateComment", "uploadMaterial", "updateMaterial",
           "createNotice", "updateNotice"}
Added(q) == IF q.op \in AddOps THEN q.added ELSE {}
TakenOut(q) == IF q.op \in DropOps THEN q.dropped ELSE {}
Missing == lost \cup UNION {TakenOut(req[r]) : r \in Requests}

\* What a call that removes files has still to do to the rows that name them.
EditPostClaims(own, q) ==
    /\ OwnedBy(own, q.old \cup q.dropped, OfPost(q.post))
    /\ q.dropped # {} => RowsCleared(q)
    /\ q.step = "insert" => post[q.post].files \cap q.dropped \subseteq lost
DeletePostClaims(own, q) ==
    /\ OwnedBy(own, q.old, OfPost(q.post))
    /\ \A f \in q.dropped :
         \/ own[f] = OfPost(q.post)
         \/ \E c \in Comments : own[f] = OfComment(c) /\ (comment[c].on = q.post \/ comment[c].gone)
EditCommentClaims(q) ==
    /\ q.step = "drop" \/ q.dropped # {} => q.uploads \/ q.rows = "remove"
    /\ q.step \in {"clear", "insert"} /\ q.uploads => q.added # {}
    /\ q.step = "insert" => comment[q.comment].files \cap q.dropped = {}

CallClaims(own, r, q) ==
    /\ OwnedBy(own, Added(q), OfRequest(r)) /\ Added(q) \subseteq stored
    /\ TakenOut(q) \cap stored = {}
    /\ q.op = "updatePost" => EditPostClaims(own, q)
    /\ q.op = "deletePost" => DeletePostClaims(own, q)
    /\ q.op \in {"deleteComment", "updateComment"} => OwnedBy(own, q.dropped, OfComment(q.comment))
    /\ q.op = "updateComment" => EditCommentClaims(q)
    /\ q.op = "updateMaterial" =>
         OwnedBy(own, q.old \cup q.dropped, OfMaterial(q.material)) /\ (~q.uploads => q.dropped = {})
    /\ q.op = "updateNotice" => OwnedBy(own, q.edit.kept, OfNotice(q.notice)) /\ q.edit.kept \subseteq stored

\* What rows name.  A question or a comment that is gone, or never was, names nothing.
RowClaims(own) ==
    /\ \A p \in Posts : OwnedBy(own, post[p].files, OfPost(p))
    /\ \A c \in Comments : OwnedBy(own, comment[c].files, OfComment(c))
    /\ \A m \in Materials : OwnedBy(own, material[m].files, OfMaterial(m))
    /\ \A n \in Notices : OwnedBy(own, notice[n].files, OfNotice(n))
    /\ \A p \in Posts : ~post[p].there => post[p].files = {}
    /\ \A c \in Comments : (comment[c].gone => comment[c].on = None) /\ (comment[c].on = None => comment[c].files = {})
RowsStored ==
    /\ \A p \in Posts : post[p].files \subseteq stored \cup Missing
    /\ \A c \in Comments : comment[c].files \subseteq stored \cup Missing
    /\ \A m \in Materials : material[m].files \subseteq stored \cup Missing
    /\ \A n \in Notices : notice[n].files \subseteq stored

Fresh(own) == \A f \in Files : f > uploads => own[f] = Nobody
FilesOf(own) ==
    /\ own \in [Files -> Owners]
    /\ Fresh(own) /\ RowClaims(own) /\ RowsStored
    /\ \A r \in Requests : CallClaims(own, r, req[r])
FilesInv == \E own \in [Files -> Owners] : FilesOf(own)

LEMMA Apart ==
    /\ \A x, y : /\ OfRequest(x) # OfPost(y) /\ OfRequest(x) # OfComment(y) /\ OfRequest(x) # OfMaterial(y)
                 /\ OfRequest(x) # OfNotice(y) /\ OfPost(x) # OfComment(y) /\ OfPost(x) # OfMaterial(y)
                 /\ OfPost(x) # OfNotice(y) /\ OfComment(x) # OfMaterial(y) /\ OfComment(x) # OfNotice(y)
                 /\ OfMaterial(x) # OfNotice(y)
    /\ \A x : /\ Nobody # OfRequest(x) /\ Nobody # OfPost(x) /\ Nobody # OfComment(x) /\ Nobody # OfMaterial(x)
              /\ Nobody # OfNotice(x)
    /\ \A x, y : /\ OfRequest(x) = OfRequest(y) => x = y
                 /\ OfPost(x) = OfPost(y) => x = y
                 /\ OfComment(x) = OfComment(y) => x = y
                 /\ OfMaterial(x) = OfMaterial(y) => x = y
                 /\ OfNotice(x) = OfNotice(y) => x = y
  BY DEF OfRequest, OfPost, OfComment, OfMaterial, OfNotice, Nobody

LEMMA OwnersAre ==
    /\ \A r \in Requests : OfRequest(r) \in Owners
    /\ \A p \in Posts : OfPost(p) \in Owners
    /\ \A c \in Comments : OfComment(c) \in Owners
    /\ \A m \in Materials : OfMaterial(m) \in Owners
    /\ \A n \in Notices : OfNotice(n) \in Owners
    /\ Nobody \in Owners
  BY DEF Owners

\* A call's files are files.
LEMMA CallFiles ==
    ASSUME NEW q, CallOK(q)
    PROVE  /\ Added(q) \subseteq Files /\ TakenOut(q) \subseteq Files
           /\ q.op = "updatePost" => q.post \in Posts /\ q.old \subseteq Files /\ q.keeps \subseteq q.old
                                     /\ q.dropped \subseteq Files /\ q.added \subseteq Files
           /\ q.op = "deletePost" => q.post \in Posts /\ q.old \subseteq Files /\ q.dropped \subseteq Files
           /\ q.op \in {"deleteComment", "updateComment"} => q.comment \in Comments /\ q.dropped \subseteq Files
           /\ q.op = "updateComment" => q.added \subseteq Files
           /\ q.op = "updateMaterial" => q.material \in Materials /\ q.old \subseteq Files /\ q.dropped \subseteq Files
                                         /\ q.added \subseteq Files
           /\ q.op = "updateNotice" => q.notice \in Notices /\ q.edit.kept \subseteq Files /\ q.added \subseteq Files
<1>1. /\ q.op = "createPost" => q.added \subseteq Files
      /\ q.op = "createComment" => q.added \subseteq Files
      /\ q.op = "uploadMaterial" => q.added \subseteq Files
      /\ q.op = "createNotice" => q.added \subseteq Files
  BY DEF CallOK, BoardCallOK, LibraryCallOK, CreatePostCall, CommentCall, UploadMaterialCall, NoticeCall, FileSets
<1>2. q.op = "updatePost" => q.post \in Posts /\ q.old \subseteq Files /\ q.keeps \subseteq q.old
                             /\ q.dropped \subseteq Files /\ q.added \subseteq Files
  BY DEF CallOK, BoardCallOK, EditPostCall, FileSets
<1>3. q.op = "deletePost" => q.post \in Posts /\ q.old \subseteq Files /\ q.dropped \subseteq Files
  BY DEF CallOK, BoardCallOK, DeletePostCall, FileSets
<1>4. /\ q.op \in {"deleteComment", "updateComment"} => q.comment \in Comments /\ q.dropped \subseteq Files
      /\ q.op = "updateComment" => q.added \subseteq Files
  BY DEF CallOK, BoardCallOK, DeleteCommentCall, EditCommentCall, FileSets
<1>5. q.op = "updateMaterial" => q.material \in Materials /\ q.old \subseteq Files /\ q.dropped \subseteq Files
                                 /\ q.added \subseteq Files
  BY DEF CallOK, LibraryCallOK, EditMaterialCall, FileSets
<1>6. q.op = "updateNotice" => q.notice \in Notices /\ q.edit.kept \subseteq Files /\ q.added \subseteq Files
  BY DEF CallOK, LibraryCallOK, EditNoticeCall, NoticeEdit, FileSets
<1>7. Added(q) \subseteq Files
  BY <1>1, <1>2, <1>4, <1>5, <1>6 DEF Added, AddOps
<1>8. TakenOut(q) \subseteq Files
  BY <1>2, <1>3, <1>4, <1>5 DEF TakenOut, DropOps
<1> QED
  BY <1>2, <1>3, <1>4, <1>5, <1>6, <1>7, <1>8

LEMMA TakenOutDropped == ASSUME RequestsOK, Calls, NEW r \in Requests PROVE Dropped(r) = TakenOut(req[r])
<1>1. CASE "dropped" \in DOMAIN req[r]
  <2>1. req[r].op \in DropOps
    BY <1>1 DEF RequestsOK, RequestOK
  <2> QED
    BY <1>1, <2>1 DEF Dropped, TakenOut
<1>2. CASE "dropped" \notin DOMAIN req[r]
  <2>1. req[r].op \notin DropOps
    <3>1. BoardCallOK(req[r]) /\ LibraryCallOK(req[r])
      BY DEF Calls, CallOK
    <3>2. /\ req[r].op = "updatePost" => "dropped" \in DOMAIN req[r]
          /\ req[r].op = "deletePost" => "dropped" \in DOMAIN req[r]
          /\ req[r].op = "deleteComment" => "dropped" \in DOMAIN req[r]
      BY <3>1 DEF BoardCallOK, EditPostCall, DeletePostCall, DeleteCommentCall
    <3>3. /\ req[r].op = "updateComment" => "dropped" \in DOMAIN req[r]
          /\ req[r].op = "updateMaterial" => "dropped" \in DOMAIN req[r]
      BY <3>1 DEF BoardCallOK, LibraryCallOK, EditCommentCall, EditMaterialCall
    <3> QED
      BY <1>2, <3>2, <3>3 DEF DropOps
  <2> QED
    BY <1>2, <2>1 DEF Dropped, TakenOut
<1> QED
  BY <1>1, <1>2

\* A call without files claims none.
FileOps == AddOps \cup DropOps
LEMMA NoClaims == ASSUME NEW own, NEW r, NEW q, q.op \notin FileOps PROVE CallClaims(own, r, q) /\ TakenOut(q) = {}
  BY DEF CallClaims, FileOps, AddOps, DropOps, Added, TakenOut, OwnedBy

LEMMA IdleIsNoFileOp == Idle.op \notin FileOps
  BY DEF Idle, FileOps, AddOps, DropOps

-----------------------------------------------------------------------------
(***************************************************************************)
(* What a step may do to files for every claim to stand: it hands over     *)
(* only what it has uploaded itself, removes from S3 what it remembers to  *)
(* have removed or has just uploaded, names nothing new that is neither in *)
(* S3 nor lost, and forgets what it has removed only when no row names it. *)
(***************************************************************************)
HandsOver(own, new, r) == \A f \in Files : new[f] # own[f] => own[f] \in {Nobody, OfRequest(r)}
KeepsComments ==
    \A c \in Comments :
      /\ comment[c].gone => comment'[c].gone
      /\ comment[c].on # None => comment'[c].on = comment[c].on \/ comment'[c].gone
StoresFresh(own) == \A f \in stored' \ stored : own[f] = Nobody
TakesOut(own, r, q) == \A f \in stored \ stored' : f \in TakenOut(q) \/ own[f] = OfRequest(r)
NamesStored ==
    /\ \A p \in Posts : post'[p].files \ post[p].files \subseteq (stored \cap stored') \cup lost'
    /\ \A c \in Comments : comment'[c].files \ comment[c].files \subseteq stored \cap stored'
    /\ \A m \in Materials : material'[m].files \ material[m].files \subseteq (stored \cap stored') \cup lost'
    /\ \A n \in Notices : notice'[n].files \ notice[n].files \subseteq stored \cap stored'
Unnamed(f) ==
    /\ \A p \in Posts : f \notin post[p].files
    /\ \A c \in Comments : f \notin comment[c].files
    /\ \A m \in Materials : f \notin material[m].files
Forgets(was, q) == \A f \in TakenOut(was) \ TakenOut(q) : f \in lost' \/ Unnamed(f)'

\* The claims of the calls that a step leaves alone.
LEMMA ClaimsKept ==
    ASSUME NEW own, NEW new, NEW r \in Requests, NEW call, NEW s \in Requests \ {r}, NEW q, CallOK(q), CallOK(call),
           CallClaims(own, s, q), CallClaims(new, r, call)', HandsOver(own, new, r), KeepsComments, StoresFresh(own),
           TakesOut(own, r, call), NamesStored, lost \subseteq lost'
    PROVE  CallClaims(new, s, q)'
<1>1. ASSUME NEW f \in Files, NEW x, own[f] = x, x # Nobody, x # OfRequest(r) PROVE new[f] = x
  BY <1>1 DEF HandsOver
<1>2. ASSUME NEW files, NEW x, files \subseteq Files, OwnedBy(own, files, x), x # Nobody, x # OfRequest(r)
      PROVE  OwnedBy(new, files, x)
  BY <1>1, <1>2 DEF OwnedBy
<1>3. ASSUME NEW f \in Files, f \in TakenOut(call)
      PROVE  \E x : new[f] \in {OfPost(x), OfComment(x), OfMaterial(x)}
  BY <1>3 DEF CallClaims, TakenOut, DropOps, EditPostClaims, DeletePostClaims, OwnedBy
<1>4. ASSUME NEW files, files \subseteq Files, files \subseteq stored,
             OwnedBy(own, files, OfRequest(s)) \/ \E n : OwnedBy(own, files, OfNotice(n))
      PROVE  files \subseteq stored'
  <2> SUFFICES ASSUME NEW f \in files, f \notin stored' PROVE FALSE
    OBVIOUS
  <2>1. f \in Files /\ f \in stored
    BY <1>4
  <2>2. own[f] = OfRequest(s) \/ \E n : own[f] = OfNotice(n)
    BY <1>4 DEF OwnedBy
  <2>3. own[f] # OfRequest(r)
    BY <2>2, Apart
  <2>4. f \in TakenOut(call)
    BY <2>1, <2>3 DEF TakesOut
  <2>5. new[f] = own[f]
    BY <1>1, <2>1, <2>2, Apart
  <2> QED
    BY <1>3, <2>1, <2>2, <2>4, <2>5, Apart
<1>5. /\ Added(q) \subseteq Files /\ TakenOut(q) \subseteq Files
      /\ OwnedBy(own, Added(q), OfRequest(s)) /\ Added(q) \subseteq stored
      /\ TakenOut(q) \cap stored = {}
  BY CallFiles DEF CallClaims
<1>6. OwnedBy(new, Added(q), OfRequest(s)) /\ Added(q) \subseteq stored'
  BY <1>2, <1>4, <1>5, Apart
<1>7. ASSUME NEW f \in TakenOut(q) PROVE \E x : own[f] \in {OfPost(x), OfComment(x), OfMaterial(x)}
  BY <1>7 DEF CallClaims, TakenOut, DropOps, EditPostClaims, DeletePostClaims, OwnedBy
<1>8. TakenOut(q) \cap stored' = {}
  <2> SUFFICES ASSUME NEW f \in TakenOut(q), f \in stored' PROVE FALSE
    OBVIOUS
  <2>1. own[f] = Nobody
    BY <1>5 DEF StoresFresh
  <2> QED
    BY <1>7, <2>1, Apart
<1>9. q.op = "updatePost" => EditPostClaims(new, q)'
  <2> SUFFICES ASSUME q.op = "updatePost" PROVE EditPostClaims(new, q)'
    OBVIOUS
  <2>1. EditPostClaims(own, q) /\ q.post \in Posts /\ q.old \cup q.dropped \subseteq Files
    BY CallFiles DEF CallClaims
  <2>2. OwnedBy(new, q.old \cup q.dropped, OfPost(q.post))
    BY <1>2, <2>1, Apart DEF EditPostClaims
  <2>3. q.dropped \cap stored = {}
    BY <1>5 DEF TakenOut, DropOps
  <2>4. q.step = "insert" => post'[q.post].files \cap q.dropped \subseteq lost'
    BY <2>1, <2>3 DEF EditPostClaims, NamesStored
  <2> QED
    BY <2>1, <2>2, <2>4 DEF EditPostClaims, RowsCleared
<1>10. q.op = "deletePost" => DeletePostClaims(new, q)'
  <2> SUFFICES ASSUME q.op = "deletePost" PROVE DeletePostClaims(new, q)'
    OBVIOUS
  <2>1. DeletePostClaims(own, q) /\ q.post \in Posts /\ q.old \subseteq Files /\ q.dropped \subseteq Files
    BY CallFiles DEF CallClaims
  <2>2. OwnedBy(new, q.old, OfPost(q.post))
    BY <1>2, <2>1, Apart DEF DeletePostClaims
  <2>3. ASSUME NEW f \in q.dropped
        PROVE  \/ new[f] = OfPost(q.post)
               \/ \E c \in Comments : new[f] = OfComment(c) /\ (comment'[c].on = q.post \/ comment'[c].gone)
    <3>1. CASE own[f] = OfPost(q.post)
      BY <1>1, <2>1, <3>1, Apart
    <3>2. ASSUME NEW c \in Comments, own[f] = OfComment(c), comment[c].on = q.post \/ comment[c].gone
          PROVE  new[f] = OfComment(c) /\ (comment'[c].on = q.post \/ comment'[c].gone)
      <4>1. q.post # None
        BY <2>1, BoardAssumption
      <4> QED
        BY <1>1, <2>1, <3>2, <4>1, Apart DEF KeepsComments
    <3> QED
      BY <2>1, <3>1, <3>2 DEF DeletePostClaims
  <2> QED
    BY <2>2, <2>3 DEF DeletePostClaims
<1>11. q.op \in {"deleteComment", "updateComment"} => OwnedBy(new, q.dropped, OfComment(q.comment))
  BY <1>2, CallFiles, Apart DEF CallClaims
<1>12. q.op = "updateComment" => EditCommentClaims(q)'
  <2> SUFFICES ASSUME q.op = "updateComment" PROVE EditCommentClaims(q)'
    OBVIOUS
  <2>1. EditCommentClaims(q) /\ q.comment \in Comments
    BY CallFiles DEF CallClaims
  <2>2. q.dropped \cap stored = {}
    BY <1>5 DEF TakenOut, DropOps
  <2>3. q.step = "insert" => comment'[q.comment].files \cap q.dropped = {}
    BY <2>1, <2>2 DEF EditCommentClaims, NamesStored
  <2> QED
    BY <2>1, <2>3 DEF EditCommentClaims
<1>13. q.op = "updateMaterial" =>
         OwnedBy(new, q.old \cup q.dropped, OfMaterial(q.material)) /\ (~q.uploads => q.dropped = {})
  BY <1>2, CallFiles, Apart DEF CallClaims
<1>14. q.op = "updateNotice" => OwnedBy(new, q.edit.kept, OfNotice(q.notice)) /\ q.edit.kept \subseteq stored'
  BY <1>2, <1>4, CallFiles, Apart DEF CallClaims
<1> QED
  BY <1>6, <1>8, <1>9, <1>10, <1>11, <1>12, <1>13, <1>14 DEF CallClaims

LEMMA FilesStep ==
    ASSUME RequestsOK, Calls, BoardTypeOK, LibraryTypeOK, BoardTypeOK', LibraryTypeOK', NEW own, FilesOf(own),
           NEW new \in [Files -> Owners], NEW r \in Requests, NEW call, CallOK(call), req' = [req EXCEPT ![r] = call],
           CallClaims(new, r, call)', Fresh(new)', RowClaims(new)', HandsOver(own, new, r), KeepsComments,
           StoresFresh(own), TakesOut(own, r, call), NamesStored, Forgets(req[r], call), lost \subseteq lost'
    PROVE  FilesOf(new)'
<1>1. req'[r] = call /\ \A s \in Requests \ {r} : req'[s] = req[s]
  BY DEF RequestsOK
<1>2. ASSUME NEW s \in Requests PROVE CallClaims(new, s, req[s])'
  <2>1. CASE s = r
    BY <1>1, <2>1 DEF CallClaims, Added, TakenOut, OwnedBy, EditPostClaims, DeletePostClaims, EditCommentClaims, RowsCleared
  <2>2. CASE s # r
    <3>1. PICK q : q = req[s] /\ q = req'[s]
      BY <1>1, <2>2
    <3>2. CallOK(q) /\ CallClaims(own, s, q)
      BY <3>1 DEF Calls, FilesOf
    <3>3. CallClaims(new, s, q)'
      BY <2>2, <3>2, ClaimsKept
    <3> QED
      BY <3>1, <3>3 DEF CallClaims, Added, TakenOut, OwnedBy, EditPostClaims, DeletePostClaims, EditCommentClaims, RowsCleared
  <2> QED
    BY <2>1, <2>2
<1>3. ASSUME NEW f, f \in Missing, ~Unnamed(f)' PROVE f \in Missing'
  <2>1. CASE f \in lost
    BY <2>1 DEF Missing
  <2>2. ASSUME NEW s \in Requests, f \in TakenOut(req[s]) PROVE f \in Missing'
    <3>1. CASE s = r
      <4>1. f \in TakenOut(call) \/ f \in lost'
        BY <1>3, <2>2, <3>1 DEF Forgets
      <4>2. TakenOut(req'[r]) = TakenOut(call)
        BY <1>1
      <4> QED
        BY <4>1, <4>2 DEF Missing
    <3>2. CASE s # r
      <4>1. TakenOut(req'[s]) = TakenOut(req[s])
        BY <1>1, <3>2
      <4> QED
        BY <2>2, <4>1 DEF Missing
    <3> QED
      BY <3>1, <3>2
  <2> QED
    BY <1>3, <2>1, <2>2 DEF Missing
<1>4. ASSUME NEW f \in Files, f \in stored, own[f] # OfRequest(r) PROVE f \in stored' \cup Missing'
  <2>1. f \in stored' \/ f \in TakenOut(call)
    BY <1>4 DEF TakesOut
  <2>2. TakenOut(req'[r]) = TakenOut(call)
    BY <1>1
  <2> QED
    BY <2>1, <2>2 DEF Missing
<1>5. ASSUME NEW f \in Files, f \in stored \cup Missing, own[f] # OfRequest(r), ~Unnamed(f)' PROVE f \in stored' \cup Missing'
  BY <1>3, <1>4, <1>5
<1>6. lost' \subseteq Missing'
  BY DEF Missing
<1>7. ASSUME NEW p \in Posts, NEW f \in post'[p].files PROVE f \in stored' \cup Missing'
  <2>1. CASE f \in post[p].files
    <3>1. f \in Files /\ f \in stored \cup Missing /\ own[f] = OfPost(p)
      <4>1. post[p] \in PostRow
        BY DEF BoardTypeOK
      <4>2. post[p].files \subseteq Files
        BY <4>1 DEF PostRow
      <4> QED
        BY <2>1, <4>2 DEF FilesOf, RowsStored, RowClaims, OwnedBy
    <3>2. ~Unnamed(f)'
      BY <1>7 DEF Unnamed
    <3> QED
      BY <1>5, <3>1, <3>2, Apart
  <2>2. CASE f \notin post[p].files
    BY <1>6, <1>7, <2>2 DEF NamesStored
  <2> QED
    BY <2>1, <2>2
<1>8. ASSUME NEW c \in Comments, NEW f \in comment'[c].files PROVE f \in stored' \cup Missing'
  <2>1. CASE f \in comment[c].files
    <3>1. f \in Files /\ f \in stored \cup Missing /\ own[f] = OfComment(c)
      BY <2>1 DEF FilesOf, RowsStored, RowClaims, OwnedBy, BoardTypeOK, CommentRow
    <3>2. ~Unnamed(f)'
      BY <1>8 DEF Unnamed
    <3> QED
      BY <1>5, <3>1, <3>2, Apart
  <2>2. CASE f \notin comment[c].files
    BY <1>8, <2>2 DEF NamesStored
  <2> QED
    BY <2>1, <2>2
<1>9. ASSUME NEW m \in Materials, NEW f \in material'[m].files PROVE f \in stored' \cup Missing'
  <2>1. CASE f \in material[m].files
    <3>1. f \in Files /\ f \in stored \cup Missing /\ own[f] = OfMaterial(m)
      BY <2>1 DEF FilesOf, RowsStored, RowClaims, OwnedBy, LibraryTypeOK, MaterialRow
    <3>2. ~Unnamed(f)'
      BY <1>9 DEF Unnamed
    <3> QED
      BY <1>5, <3>1, <3>2, Apart
  <2>2. CASE f \notin material[m].files
    BY <1>6, <1>9, <2>2 DEF NamesStored
  <2> QED
    BY <2>1, <2>2
<1>10. ASSUME NEW n \in Notices, NEW f \in notice'[n].files PROVE f \in stored'
  <2>1. CASE f \in notice[n].files
    <3>1. f \in Files /\ f \in stored /\ own[f] = OfNotice(n)
      BY <2>1 DEF FilesOf, RowsStored, RowClaims, OwnedBy, LibraryTypeOK, NoticeRow
    <3>2. new[f] = OfNotice(n)
      BY <1>10 DEF RowClaims, OwnedBy
    <3>3. f \notin TakenOut(call)
      <4> SUFFICES ASSUME f \in TakenOut(call) PROVE FALSE
        OBVIOUS
      <4>1. \E x : new[f] \in {OfPost(x), OfComment(x), OfMaterial(x)}
        BY DEF CallClaims, TakenOut, DropOps, EditPostClaims, DeletePostClaims, OwnedBy
      <4> QED
        BY <3>2, <4>1, Apart
    <3> QED
      BY <3>1, <3>3, Apart DEF TakesOut
  <2>2. CASE f \notin notice[n].files
    BY <1>10, <2>2 DEF NamesStored
  <2> QED
    BY <2>1, <2>2
<1>11. RowsStored'
  BY <1>7, <1>8, <1>9, <1>10 DEF RowsStored
<1> QED
  BY <1>2, <1>11 DEF FilesOf

-----------------------------------------------------------------------------
(***************************************************************************)
(* FilesInv: steps that change no row's files.                             *)
(***************************************************************************)
\* Requests begin, and go on to their next step.
RowsStay == UNCHANGED <<post, comment, material, notice, stored, uploads, lost>>

\* What FilesStep takes for granted of the rows' shapes.
Shaped == RequestsOK /\ TypedInv /\ TypedInv'

LEMMA RowsOfFiles ==
    ASSUME UNCHANGED <<post, comment, material, notice>>, NEW own, RowClaims(own) PROVE RowClaims(own)'
  BY DEF RowClaims, OwnedBy

LEMMA QuietStep ==
    ASSUME Shaped, NEW own, FilesOf(own), NEW r \in Requests, NEW call, CallOK(call), req' = [req EXCEPT ![r] = call],
           RowsStay, TakenOut(req[r]) \subseteq TakenOut(call), CallClaims(own, r, call)
    PROVE  FilesOf(own)'
<1>1. /\ own \in [Files -> Owners] /\ Fresh(own)' /\ RowClaims(own)'
      /\ HandsOver(own, own, r) /\ KeepsComments /\ StoresFresh(own) /\ TakesOut(own, r, call) /\ NamesStored
      /\ Forgets(req[r], call) /\ lost \subseteq lost'
  BY RowsOfFiles DEF FilesOf, RowsStay, Fresh, HandsOver, KeepsComments, StoresFresh, TakesOut, NamesStored, Forgets
<1>2. CallClaims(own, r, call)'
  BY DEF RowsStay, CallClaims, EditPostClaims, DeletePostClaims, EditCommentClaims
<1>3. RequestsOK /\ Calls /\ BoardTypeOK /\ LibraryTypeOK /\ BoardTypeOK' /\ LibraryTypeOK'
  BY DEF Shaped, TypedInv
<1> QED
  BY <1>1, <1>2, <1>3, FilesStep

\* Requests that have to do with files neither before nor after, and rows that at most lose names.
RowsShrink ==
    /\ UNCHANGED <<stored, uploads, lost>>
    /\ \A p \in Posts : post'[p].files \subseteq post[p].files /\ (~post'[p].there => post'[p].files = {})
    /\ \A c \in Comments :
         /\ comment'[c].files \subseteq comment[c].files
         /\ comment'[c].gone => comment'[c].on = None
         /\ comment'[c].on = None => comment'[c].files = {}
    /\ \A m \in Materials : material'[m].files \subseteq material[m].files
    /\ \A n \in Notices : notice'[n].files \subseteq notice[n].files
    /\ KeepsComments

LEMMA StayingShrinks == ASSUME NEW own, RowClaims(own), RowsStay PROVE RowsShrink
  BY DEF RowsStay, RowsShrink, RowClaims, KeepsComments

LEMMA ElsewhereStep ==
    ASSUME Calls, NEW own, FilesOf(own), RowsShrink,
           \A s \in Requests : req'[s] = req[s] \/ (req[s].op \notin FileOps /\ req'[s].op \notin FileOps)
    PROVE  FilesOf(own)'
<1>1. ASSUME NEW s \in Requests PROVE CallClaims(own, s, req[s])' /\ TakenOut(req'[s]) = TakenOut(req[s])
  <2>1. CASE req'[s] = req[s]
    <3>1. PICK q : q = req[s] /\ q = req'[s]
      BY <2>1
    <3>2. CallClaims(own, s, q) /\ CallOK(q)
      BY <1>1, <3>1 DEF FilesOf, Calls
    <3>3. q.op = "updatePost" => EditPostClaims(own, q)'
      BY <3>2, CallFiles DEF CallClaims, EditPostClaims, RowsCleared, OwnedBy, RowsShrink
    <3>4. q.op = "deletePost" => DeletePostClaims(own, q)'
      <4> SUFFICES ASSUME q.op = "deletePost" PROVE DeletePostClaims(own, q)'
        OBVIOUS
      <4>1. q.post # None /\ DeletePostClaims(own, q)
        BY <3>2, CallFiles, BoardAssumption DEF CallClaims
      <4> QED
        BY <4>1 DEF DeletePostClaims, OwnedBy, RowsShrink, KeepsComments
    <3>5. q.op = "updateComment" => EditCommentClaims(q)'
      <4> SUFFICES ASSUME q.op = "updateComment" PROVE EditCommentClaims(q)'
        OBVIOUS
      <4>1. q.comment \in Comments /\ EditCommentClaims(q)
        BY <3>2, CallFiles DEF CallClaims
      <4>2. comment'[q.comment].files \subseteq comment[q.comment].files
        BY <4>1 DEF RowsShrink
      <4> QED
        BY <4>1, <4>2 DEF EditCommentClaims
    <3>6. CallClaims(own, s, q)'
      BY <3>2, <3>3, <3>4, <3>5 DEF CallClaims, RowsShrink, Added, TakenOut, OwnedBy
    <3> QED
      BY <3>1, <3>6 DEF CallClaims, Added, TakenOut, OwnedBy, EditPostClaims, DeletePostClaims, EditCommentClaims, RowsCleared
  <2>2. CASE req[s].op \notin FileOps /\ req'[s].op \notin FileOps
    <3>1. PICK q : q = req'[s]
      OBVIOUS
    <3>2. TakenOut(q) = {} /\ TakenOut(req[s]) = {}
      BY <2>2, <3>1, NoClaims
    <3>3. q.op \notin FileOps
      BY <2>2, <3>1
    <3>4. CallClaims(own, s, q)'
      BY <3>3 DEF CallClaims, FileOps, AddOps, DropOps, Added, TakenOut, OwnedBy
    <3> QED
      BY <3>1, <3>2, <3>4 DEF CallClaims, Added, TakenOut, OwnedBy, EditPostClaims, DeletePostClaims, EditCommentClaims, RowsCleared
  <2> QED
    BY <1>1, <2>1, <2>2
<1>2. Missing' = Missing
  <2>1. {TakenOut(req'[s]) : s \in Requests} = {TakenOut(req[s]) : s \in Requests}
    BY <1>1
  <2> QED
    BY <2>1 DEF Missing, RowsShrink
<1>3. RowsStored'
  <2>1. RowsStored /\ stored' = stored
    BY DEF FilesOf, RowsShrink
  <2>2. \A p \in Posts : post'[p].files \subseteq stored' \cup Missing'
    BY <1>2, <2>1 DEF RowsShrink, RowsStored
  <2>3. \A c \in Comments : comment'[c].files \subseteq stored' \cup Missing'
    BY <1>2, <2>1 DEF RowsShrink, RowsStored
  <2>4. \A m \in Materials : material'[m].files \subseteq stored' \cup Missing'
    BY <1>2, <2>1 DEF RowsShrink, RowsStored
  <2>5. \A n \in Notices : notice'[n].files \subseteq stored'
    BY <2>1 DEF RowsShrink, RowsStored
  <2> QED
    BY <2>2, <2>3, <2>4, <2>5 DEF RowsStored
<1>4. Fresh(own)'
  BY DEF FilesOf, RowsShrink, Fresh
<1>5. RowClaims(own)'
  <2>1. RowClaims(own)
    BY DEF FilesOf
  <2>2. /\ \A p \in Posts : OwnedBy(own, post'[p].files, OfPost(p))
        /\ \A c \in Comments : OwnedBy(own, comment'[c].files, OfComment(c))
        /\ \A m \in Materials : OwnedBy(own, material'[m].files, OfMaterial(m))
        /\ \A n \in Notices : OwnedBy(own, notice'[n].files, OfNotice(n))
    BY <2>1 DEF RowClaims, RowsShrink, OwnedBy
  <2>3. /\ \A p \in Posts : ~post'[p].there => post'[p].files = {}
        /\ \A c \in Comments : (comment'[c].gone => comment'[c].on = None) /\ (comment'[c].on = None => comment'[c].files = {})
    BY DEF RowsShrink
  <2> QED
    BY <2>2, <2>3 DEF RowClaims, OwnedBy
<1> QED
  BY <1>1, <1>3, <1>4, <1>5 DEF FilesOf

LEMMA MovedElsewhere ==
    ASSUME Calls, NEW own, FilesOf(own), RowsShrink, NEW ops, Moved(ops), ops \cap FileOps = {} PROVE FilesOf(own)'
<1>1. ASSUME NEW s \in Requests PROVE req'[s] = req[s] \/ (req[s].op \notin FileOps /\ req'[s].op \notin FileOps)
  BY <1>1, IdleIsNoFileOp DEF Moved, Of
<1> QED
  BY <1>1, ElsewhereStep

\* A request begins: what it has read of a row belongs to the row.
LEMMA FilesBegun ==
    ASSUME Shaped, NEW own, FilesOf(own), NEW r \in Requests, NEW op, NEW q, Begin(r, op, q), RowsStay, CallClaims(own, r, q)
    PROVE  FilesOf(own)'
<1>1. req[r] = Idle /\ req' = [req EXCEPT ![r] = q]
  BY DEF Begin
<1>2. TakenOut(req[r]) = {}
  BY <1>1, NoClaims, IdleIsNoFileOp
<1>3. CallOK(q)
  <2>1. req'[r] = q
    BY <1>1 DEF Shaped, RequestsOK
  <2> QED
    BY <2>1 DEF Shaped, TypedInv, Calls
<1> QED
  BY <1>1, <1>2, <1>3, QuietStep

LEMMA BoardBegun ==
    ASSUME Shaped, NEW own, FilesOf(own), RowsStay, NEW r \in Requests,
           \/ BeginPost(r) \/ BeginStatus(r) \/ BeginEditPost(r) \/ BeginDeletePost(r)
           \/ BeginComment(r) \/ BeginDeleteComment(r) \/ BeginEditComment(r)
    PROVE  FilesOf(own)'
<1> USE DEF OwnedBy, Added, AddOps, TakenOut, DropOps
<1>1. CASE BeginPost(r)
  <2>1. PICK e \in There, role \in {"STUDENT", "PARENT"}, up \in BOOLEAN :
          Begin(r, "createPost", [op |-> "createPost", step |-> "upload", of |-> e, role |-> role, uploads |-> up,
                                  added |-> {}])
    BY <1>1 DEF BeginPost
  <2>2. CallClaims(own, r, [op |-> "createPost", step |-> "upload", of |-> e, role |-> role, uploads |-> up, added |-> {}])
    BY DEF CallClaims
  <2> QED
    BY <2>1, <2>2, FilesBegun
<1>2. CASE BeginStatus(r)
  <2>1. PICK p \in Posts, status \in {"REGISTERED", "COMPLETED"} :
          Begin(r, "updateStatus", [op |-> "updateStatus", step |-> "save", post |-> p, status |-> status])
    BY <1>2 DEF BeginStatus
  <2>2. CallClaims(own, r, [op |-> "updateStatus", step |-> "save", post |-> p, status |-> status])
    BY DEF CallClaims
  <2> QED
    BY <2>1, <2>2, FilesBegun
<1>3. CASE BeginEditPost(r)
  <2>1. PICK p \in Posts, lists \in BOOLEAN, up \in BOOLEAN :
          \E keeps \in IF lists THEN SUBSET post[p].files ELSE {{}} :
          Begin(r, "updatePost", [op |-> "updatePost", step |-> "upload", post |-> p, lists |-> lists, keeps |-> keeps,
                                  old |-> post[p].files, uploads |-> up, added |-> {}, dropped |-> {}])
    BY <1>3 DEF BeginEditPost
  <2>2. PICK keeps :
          Begin(r, "updatePost", [op |-> "updatePost", step |-> "upload", post |-> p, lists |-> lists, keeps |-> keeps,
                                  old |-> post[p].files, uploads |-> up, added |-> {}, dropped |-> {}])
    BY <2>1
  <2> DEFINE q == [op |-> "updatePost", step |-> "upload", post |-> p, lists |-> lists, keeps |-> keeps,
                   old |-> post[p].files, uploads |-> up, added |-> {}, dropped |-> {}]
  <2>3. CallClaims(own, r, q)
    BY DEF CallClaims, EditPostClaims, FilesOf, RowClaims
  <2> QED
    BY <2>2, <2>3, FilesBegun
<1>4. CASE BeginDeletePost(r)
  <2>1. PICK p \in Posts :
          Begin(r, "deletePost", [op |-> "deletePost", step |-> "files", post |-> p, old |-> post[p].files, dropped |-> {}])
    BY <1>4 DEF BeginDeletePost
  <2>2. CallClaims(own, r, [op |-> "deletePost", step |-> "files", post |-> p, old |-> post[p].files, dropped |-> {}])
    BY DEF CallClaims, DeletePostClaims, FilesOf, RowClaims
  <2> QED
    BY <2>1, <2>2, FilesBegun
<1>5. CASE BeginComment(r)
  <2>1. PICK p \in Posts, role \in Roles, up \in BOOLEAN :
          Begin(r, "createComment", [op |-> "createComment", step |-> "upload", on |-> p, role |-> role,
                                     by |-> IF role = "STAFF" THEN None ELSE post[p].of,
                                     status |-> post[p].status, uploads |-> up, added |-> {}])
    BY <1>5 DEF BeginComment
  <2> DEFINE q == [op |-> "createComment", step |-> "upload", on |-> p, role |-> role,
                   by |-> IF role = "STAFF" THEN None ELSE post[p].of,
                   status |-> post[p].status, uploads |-> up, added |-> {}]
  <2>2. CallClaims(own, r, q)
    BY DEF CallClaims
  <2> QED
    BY <2>1, <2>2, FilesBegun
<1>6. CASE BeginDeleteComment(r)
  <2>1. PICK c \in Comments :
          Begin(r, "deleteComment", [op |-> "deleteComment", step |-> "drop", comment |-> c, dropped |-> {}])
    BY <1>6 DEF BeginDeleteComment
  <2>2. CallClaims(own, r, [op |-> "deleteComment", step |-> "drop", comment |-> c, dropped |-> {}])
    BY DEF CallClaims
  <2> QED
    BY <2>1, <2>2, FilesBegun
<1>7. CASE BeginEditComment(r)
  <2>1. PICK c \in Comments, rows \in {"remove", "materials", "keep"}, up \in BOOLEAN,
             step \in {"drop", "upload"} :
          /\ step = IF up \/ rows = "remove" THEN "drop" ELSE "upload"
          /\ Begin(r, "updateComment", [op |-> "updateComment", step |-> step, comment |-> c, rows |-> rows, uploads |-> up,
                                        added |-> {}, dropped |-> {}])
    BY <1>7 DEF BeginEditComment
  <2> DEFINE q == [op |-> "updateComment", step |-> step, comment |-> c, rows |-> rows, uploads |-> up, added |-> {},
                   dropped |-> {}]
  <2>2. CallClaims(own, r, q)
    BY <2>1 DEF CallClaims, EditCommentClaims
  <2> QED
    BY <2>1, <2>2, FilesBegun
<1> QED
  BY <1>1, <1>2, <1>3, <1>4, <1>5, <1>6, <1>7

LEMMA LibraryBegun ==
    ASSUME Shaped, NEW own, FilesOf(own), RowsStay, NEW r \in Requests,
           \/ BeginUploadMaterial(r) \/ BeginEditMaterial(r) \/ BeginOrder(r) \/ BeginEditOrder(r)
           \/ BeginNotice(r) \/ BeginEditNotice(r) \/ BeginNoticeComment(r)
    PROVE  FilesOf(own)'
<1> USE DEF OwnedBy, Added, AddOps, TakenOut, DropOps
<1>1. CASE BeginUploadMaterial(r)
  <2>1. PICK video \in BOOLEAN :
          Begin(r, "uploadMaterial", [op |-> "uploadMaterial", step |-> "upload", uploads |-> ~video, added |-> {}])
    BY <1>1 DEF BeginUploadMaterial
  <2>2. CallClaims(own, r, [op |-> "uploadMaterial", step |-> "upload", uploads |-> ~video, added |-> {}])
    BY DEF CallClaims
  <2> QED
    BY <2>1, <2>2, FilesBegun
<1>2. CASE BeginEditMaterial(r)
  <2>1. PICK m \in Live, up \in BOOLEAN :
          Begin(r, "updateMaterial", [op |-> "updateMaterial", step |-> "upload", material |-> m,
                                      old |-> material[m].files, uploads |-> up, added |-> {}, dropped |-> {}])
    BY <1>2 DEF BeginEditMaterial
  <2>2. m \in Materials
    BY DEF Live
  <2>3. CallClaims(own, r, [op |-> "updateMaterial", step |-> "upload", material |-> m, old |-> material[m].files,
                            uploads |-> up, added |-> {}, dropped |-> {}])
    BY <2>2 DEF CallClaims, FilesOf, RowClaims
  <2> QED
    BY <2>1, <2>3, FilesBegun
<1>3. CASE BeginOrder(r)
  <2>1. PICK u \in Users, ms \in SUBSET Live :
          Begin(r, "createOrder", [op |-> "createOrder", step |-> "save", to |-> u, copies |-> CopiesOf(ms)])
    BY <1>3 DEF BeginOrder
  <2>2. CallClaims(own, r, [op |-> "createOrder", step |-> "save", to |-> u, copies |-> CopiesOf(ms)])
    BY DEF CallClaims
  <2> QED
    BY <2>1, <2>2, FilesBegun
<1>4. CASE BeginEditOrder(r)
  <2>1. PICK o \in Orders, ms \in SUBSET Live, done \in SUBSET BOOLEAN :
          Begin(r, "updateOrder", [op |-> "updateOrder", step |-> "save", order |-> o, copies |-> CopiesOf(ms),
                                   done |-> done])
    BY <1>4 DEF BeginEditOrder
  <2>2. CallClaims(own, r, [op |-> "updateOrder", step |-> "save", order |-> o, copies |-> CopiesOf(ms), done |-> done])
    BY DEF CallClaims
  <2> QED
    BY <2>1, <2>2, FilesBegun
<1>5. CASE BeginNotice(r)
  <2>1. PICK scope \in Scopes, l \in LectureRows \cup {None}, es \in SUBSET {e \in There : ~enrollment[e].deleted},
             ms \in SUBSET Live, up \in BOOLEAN :
          Begin(r, "createNotice", [op |-> "createNotice", step |-> "upload", scope |-> scope, lecture |-> l,
                                    targets |-> IF scope = "SELECTED" THEN es ELSE {}, materials |-> ms,
                                    uploads |-> up, added |-> {}])
    BY <1>5 DEF BeginNotice
  <2> DEFINE q == [op |-> "createNotice", step |-> "upload", scope |-> scope, lecture |-> l,
                   targets |-> IF scope = "SELECTED" THEN es ELSE {}, materials |-> ms, uploads |-> up, added |-> {}]
  <2>2. CallClaims(own, r, q)
    BY DEF CallClaims
  <2> QED
    BY <2>1, <2>2, FilesBegun
<1>6. CASE BeginEditNotice(r)
  <2>1. PICK n \in Notices : \E edit \in Edits(notice[n]) :
          Begin(r, "updateNotice", [op |-> "updateNotice", step |-> "upload", notice |-> n, edit |-> edit,
                                    read |-> notice[n], uploads |-> edit.uploads, added |-> {}])
    BY <1>6 DEF BeginEditNotice
  <2>2. PICK row : row = notice[n]
    OBVIOUS
  <2>3. PICK edit \in Edits(row) :
          Begin(r, "updateNotice", [op |-> "updateNotice", step |-> "upload", notice |-> n, edit |-> edit,
                                    read |-> row, uploads |-> edit.uploads, added |-> {}])
    BY <2>1, <2>2
  <2>4. edit.kept \subseteq row.files
    BY DEF Edits
  <2> DEFINE q == [op |-> "updateNotice", step |-> "upload", notice |-> n, edit |-> edit, read |-> row,
                   uploads |-> edit.uploads, added |-> {}]
  <2>5. OwnedBy(own, edit.kept, OfNotice(n)) /\ edit.kept \subseteq stored
    BY <2>2, <2>4 DEF FilesOf, RowClaims, RowsStored
  <2>6. CallClaims(own, r, q)
    BY <2>5 DEF CallClaims
  <2> QED
    BY <2>3, <2>6, FilesBegun
<1>7. CASE BeginNoticeComment(r)
  <2>1. PICK n \in Notices, role \in Roles, up \in BOOLEAN : \E e \in CommentsThrough(n, role) :
          Begin(r, "createComment", [op |-> "createComment", step |-> "upload", on |-> n, role |-> role, by |-> e,
                                     status |-> None, uploads |-> up, added |-> {}])
    BY <1>7 DEF BeginNoticeComment
  <2>2. PICK e :
          Begin(r, "createComment", [op |-> "createComment", step |-> "upload", on |-> n, role |-> role, by |-> e,
                                     status |-> None, uploads |-> up, added |-> {}])
    BY <2>1
  <2>3. CallClaims(own, r, [op |-> "createComment", step |-> "upload", on |-> n, role |-> role, by |-> e, status |-> None,
                            uploads |-> up, added |-> {}])
    BY DEF CallClaims
  <2> QED
    BY <2>2, <2>3, FilesBegun
<1> QED
  BY <1>1, <1>2, <1>3, <1>4, <1>5, <1>6, <1>7

-----------------------------------------------------------------------------
(***************************************************************************)
(* FilesInv: a call goes on with its next step, with what it has uploaded  *)
(* or with what it has removed.                                            *)
(***************************************************************************)
SameCall(q, call) ==
    /\ call.op = q.op
    /\ q.op = "updatePost" => call.post = q.post /\ call.lists = q.lists /\ call.keeps = q.keeps /\ call.old = q.old
    /\ q.op = "deletePost" => call.post = q.post /\ call.old = q.old
    /\ q.op \in {"deleteComment", "updateComment"} => call.comment = q.comment
    /\ q.op = "updateComment" => call.rows = q.rows /\ call.uploads = q.uploads
    /\ q.op = "updateMaterial" => call.material = q.material /\ call.old = q.old /\ call.uploads = q.uploads
    /\ q.op = "updateNotice" => call.notice = q.notice /\ call.edit = q.edit

\* The fields of a call with files, by its handler.
LEMMA CallFields ==
    ASSUME NEW q, CallOK(q), q.op \in FileOps
    PROVE  /\ {"op", "step"} \subseteq DOMAIN q
           /\ q.op \in AddOps => "added" \in DOMAIN q
           /\ q.op \in DropOps => "dropped" \in DOMAIN q
           /\ q.op = "updatePost" => {"post", "lists", "keeps", "old"} \subseteq DOMAIN q
           /\ q.op = "deletePost" => {"post", "old"} \subseteq DOMAIN q
           /\ q.op \in {"deleteComment", "updateComment"} => "comment" \in DOMAIN q
           /\ q.op = "updateComment" => {"rows", "uploads"} \subseteq DOMAIN q
           /\ q.op = "updateMaterial" => {"material", "old", "uploads"} \subseteq DOMAIN q
           /\ q.op = "updateNotice" => {"notice", "edit"} \subseteq DOMAIN q
<1>0. BoardCallOK(q) /\ LibraryCallOK(q)
  BY DEF CallOK
<1>1. CASE q.op \in {"createPost", "createComment"}
  BY <1>0, <1>1 DEF BoardCallOK, CreatePostCall, CommentCall, AddOps, DropOps
<1>2. CASE q.op = "updatePost"
  BY <1>0, <1>2 DEF BoardCallOK, EditPostCall
<1>3. CASE q.op = "deletePost"
  BY <1>0, <1>3 DEF BoardCallOK, DeletePostCall, AddOps
<1>4. CASE q.op = "deleteComment"
  BY <1>0, <1>4 DEF BoardCallOK, DeleteCommentCall, AddOps
<1>5. CASE q.op = "updateComment"
  BY <1>0, <1>5 DEF BoardCallOK, EditCommentCall
<1>6. CASE q.op \in {"uploadMaterial", "createNotice"}
  BY <1>0, <1>6 DEF LibraryCallOK, UploadMaterialCall, NoticeCall, AddOps, DropOps
<1>7. CASE q.op = "updateMaterial"
  BY <1>0, <1>7 DEF LibraryCallOK, EditMaterialCall
<1>8. CASE q.op = "updateNotice"
  BY <1>0, <1>8 DEF LibraryCallOK, EditNoticeCall, DropOps
<1> QED
  BY <1>1, <1>2, <1>3, <1>4, <1>5, <1>6, <1>7, <1>8 DEF FileOps, AddOps, DropOps

LEMMA SteppedCall ==
    ASSUME NEW q, CallOK(q), q.op \in FileOps, NEW step, NEW call, call = [q EXCEPT !.step = step]
    PROVE  /\ SameCall(q, call) /\ call.step = step /\ Added(call) = Added(q) /\ TakenOut(call) = TakenOut(q)
           /\ q.op \in AddOps => call.added = q.added
           /\ q.op \in DropOps => call.dropped = q.dropped
  BY CallFields DEF SameCall, Added, TakenOut

AsUploaded(q, step, files) == [q EXCEPT !.step = step, !.added = files]
AsDropped(q, step, files) == [q EXCEPT !.step = step, !.dropped = @ \cup files]

LEMMA UploadedCall ==
    ASSUME NEW q, CallOK(q), q.op \in AddOps, NEW step, NEW files, NEW call, call = AsUploaded(q, step, files)
    PROVE  /\ SameCall(q, call) /\ call.step = step /\ Added(call) = files /\ TakenOut(call) = TakenOut(q)
           /\ call.added = files
           /\ q.op \in DropOps => call.dropped = q.dropped
<1>1. q.op \in FileOps
  BY DEF FileOps
<1> QED
  BY <1>1, CallFields DEF AsUploaded, SameCall, Added, TakenOut

LEMMA DroppedCall ==
    ASSUME NEW q, CallOK(q), q.op \in DropOps, NEW step, NEW files, NEW call,
           call = AsDropped(q, step, files)
    PROVE  /\ SameCall(q, call) /\ call.step = step /\ Added(call) = Added(q) /\ TakenOut(call) = TakenOut(q) \cup files
           /\ q.op \in AddOps => call.added = q.added
           /\ call.dropped = q.dropped \cup files
<1>1. q.op \in FileOps
  BY DEF FileOps
<1> QED
  BY <1>1, CallFields DEF AsDropped, SameCall, Added, TakenOut

LEMMA CallProceeds ==
    ASSUME Shaped, NEW r \in Requests, NEW call, Proceed(r, call)
    PROVE  req' = [req EXCEPT ![r] = call] /\ CallOK(call) /\ CallOK(req[r])
<1>1. req' = [req EXCEPT ![r] = call] /\ req'[r] = call
  BY DEF Proceed, Shaped, RequestsOK
<1> QED
  BY <1>1 DEF Shaped, TypedInv, Calls

LEMMA TakenOutOwned ==
    ASSUME NEW own, NEW r, NEW q, CallClaims(own, r, q), NEW f \in TakenOut(q)
    PROVE  \E x : own[f] \in {OfPost(x), OfComment(x), OfMaterial(x)}
  BY DEF CallClaims, TakenOut, DropOps, EditPostClaims, DeletePostClaims, OwnedBy

\* Files change hands: those of a request, or new ones, get an owner.
KeepsOthers(own, new, r) ==
    \A fs \in SUBSET Files : \A x : OwnedBy(own, fs, x) /\ x # Nobody /\ x # OfRequest(r) => OwnedBy(new, fs, x)
GivenTo(own, files, owner) == [f \in Files |-> IF f \in files THEN owner ELSE own[f]]

LEMMA HandedOver ==
    ASSUME NEW own \in [Files -> Owners], NEW r, NEW files \in SUBSET Files, NEW owner \in Owners,
           \A f \in files : own[f] \in {Nobody, OfRequest(r)},
           NEW new, new = GivenTo(own, files, owner)
    PROVE  /\ new \in [Files -> Owners] /\ HandsOver(own, new, r) /\ OwnedBy(new, files, owner)
           /\ \A f \in Files \ files : new[f] = own[f]
           /\ KeepsOthers(own, new, r)
<1>1. new \in [Files -> Owners]
  BY DEF GivenTo
<1>2. \A f \in Files : new[f] = IF f \in files THEN owner ELSE own[f]
  BY DEF GivenTo
<1> QED
  BY <1>1, <1>2 DEF HandsOver, OwnedBy, KeepsOthers

LEMMA RowsHandedOver ==
    ASSUME BoardTypeOK, LibraryTypeOK, NEW own, RowClaims(own), NEW r, NEW new, HandsOver(own, new, r)
    PROVE  RowClaims(new)
<1>1. ASSUME NEW files, NEW x, files \subseteq Files, OwnedBy(own, files, x), x # Nobody, x # OfRequest(r)
      PROVE  OwnedBy(new, files, x)
  BY <1>1 DEF HandsOver, OwnedBy
<1>2. \A p \in Posts : OwnedBy(new, post[p].files, OfPost(p))
  <2> SUFFICES ASSUME NEW p \in Posts PROVE OwnedBy(new, post[p].files, OfPost(p))
    OBVIOUS
  <2>1. post[p] \in PostRow
    BY DEF BoardTypeOK
  <2>2. post[p].files \subseteq Files /\ OwnedBy(own, post[p].files, OfPost(p))
    BY <2>1 DEF PostRow, RowClaims
  <2> QED
    BY <1>1, <2>2, Apart
<1>3. \A c \in Comments : OwnedBy(new, comment[c].files, OfComment(c))
  <2> SUFFICES ASSUME NEW c \in Comments PROVE OwnedBy(new, comment[c].files, OfComment(c))
    OBVIOUS
  <2>1. comment[c].files \subseteq Files /\ OwnedBy(own, comment[c].files, OfComment(c))
    BY DEF BoardTypeOK, CommentRow, RowClaims
  <2> QED
    BY <1>1, <2>1, Apart
<1>4. \A m \in Materials : OwnedBy(new, material[m].files, OfMaterial(m))
  <2> SUFFICES ASSUME NEW m \in Materials PROVE OwnedBy(new, material[m].files, OfMaterial(m))
    OBVIOUS
  <2>1. material[m].files \subseteq Files /\ OwnedBy(own, material[m].files, OfMaterial(m))
    BY DEF LibraryTypeOK, MaterialRow, RowClaims
  <2> QED
    BY <1>1, <2>1, Apart
<1>5. \A n \in Notices : OwnedBy(new, notice[n].files, OfNotice(n))
  <2> SUFFICES ASSUME NEW n \in Notices PROVE OwnedBy(new, notice[n].files, OfNotice(n))
    OBVIOUS
  <2>1. notice[n].files \subseteq Files /\ OwnedBy(own, notice[n].files, OfNotice(n))
    BY DEF LibraryTypeOK, NoticeRow, RowClaims
  <2> QED
    BY <1>1, <2>1, Apart
<1> QED
  BY <1>2, <1>3, <1>4, <1>5 DEF RowClaims

LEMMA UploadStep ==
    ASSUME Shaped, NEW own, FilesOf(own), NEW r \in Requests, NEW next, Upload(r, next), UNCHANGED <<material, notice>>,
           req[r].op \in AddOps, next \in {"drop", "clear", "save"}, next = "drop" => req[r].op # "updateComment"
    PROVE  \E new \in [Files -> Owners] : FilesOf(new)'
<1>0. BoardTypeOK /\ LibraryTypeOK /\ RequestsOK /\ Calls /\ BoardTypeOK' /\ LibraryTypeOK'
  BY DEF Shaped, TypedInv
<1>1. PICK q : q = req[r] /\ CallOK(q) /\ CallClaims(own, r, q)
  BY <1>0 DEF Calls, FilesOf
<1>2. q.op \in FileOps
  BY <1>1 DEF FileOps
<1>3. CASE ~q.uploads
  <2>1. PICK call : call = [q EXCEPT !.step = next]
    OBVIOUS
  <2>2. RowsStay /\ Proceed(r, call)
    BY <1>1, <1>3, <2>1 DEF Upload, RowsStay
  <2>3. req' = [req EXCEPT ![r] = call] /\ CallOK(call)
    BY <2>2, CallProceeds
  <2>4. /\ SameCall(q, call) /\ call.step = next /\ Added(call) = Added(q) /\ TakenOut(call) = TakenOut(q)
        /\ call.added = q.added
        /\ q.op \in DropOps => call.dropped = q.dropped
    BY <1>1, <1>2, <2>1, SteppedCall
  <2>5. call.op = "updatePost" => EditPostClaims(own, call)
    BY <1>1, <2>4 DEF SameCall, CallClaims, EditPostClaims, RowsCleared, DropOps
  <2>6. call.op # "deletePost" /\ call.op # "deleteComment"
    BY <1>1, <2>4 DEF SameCall, AddOps
  <2>7. call.op = "updateComment" => EditCommentClaims(call) /\ OwnedBy(own, call.dropped, OfComment(call.comment))
    BY <1>1, <1>3, <2>4 DEF SameCall, CallClaims, EditCommentClaims, DropOps
  <2>8. call.op = "updateMaterial" =>
          OwnedBy(own, call.old \cup call.dropped, OfMaterial(call.material)) /\ (~call.uploads => call.dropped = {})
    BY <1>1, <2>4 DEF SameCall, CallClaims, DropOps
  <2>9. call.op = "updateNotice" => OwnedBy(own, call.edit.kept, OfNotice(call.notice)) /\ call.edit.kept \subseteq stored
    BY <1>1, <2>4 DEF SameCall, CallClaims
  <2>10. OwnedBy(own, Added(call), OfRequest(r)) /\ Added(call) \subseteq stored /\ TakenOut(call) \cap stored = {}
    BY <1>1, <2>4 DEF CallClaims
  <2>11. CallClaims(own, r, call)
    BY <2>5, <2>6, <2>7, <2>8, <2>9, <2>10 DEF CallClaims
  <2>12. FilesOf(own)'
    BY <1>1, <2>2, <2>3, <2>4, <2>11, QuietStep
  <2> QED
    BY <2>12 DEF FilesOf
<1>4. CASE q.uploads
  <2>1. PICK f : f = uploads + 1
    OBVIOUS
  <2>2. PICK call : call = [q EXCEPT !.step = next, !.added = {f}]
    OBVIOUS
  <2>3. /\ uploads < MaxFiles /\ uploads' = f /\ stored' = stored \cup {f} /\ Proceed(r, call)
        /\ UNCHANGED <<post, comment, lost>>
    BY <1>1, <1>4, <2>1, <2>2 DEF Upload
  <2>4. f \in Files /\ f > uploads /\ \A g \in Files : g > f => g > uploads
    BY <1>0, <2>1, <2>3, BoardAssumption DEF BoardTypeOK, Files
  <2>5. own[f] = Nobody /\ own \in [Files -> Owners]
    BY <2>4 DEF FilesOf, Fresh
  <2>6. PICK new : new = GivenTo(own, {f}, OfRequest(r))
    OBVIOUS
  <2>7. /\ new \in [Files -> Owners] /\ HandsOver(own, new, r) /\ OwnedBy(new, {f}, OfRequest(r))
        /\ \A g \in Files \ {f} : new[g] = own[g]
        /\ KeepsOthers(own, new, r)
    <3>1. {f} \in SUBSET Files /\ OfRequest(r) \in Owners /\ \A g \in {f} : own[g] \in {Nobody, OfRequest(r)}
      BY <2>4, <2>5, OwnersAre
    <3> QED
      BY <2>5, <2>6, <3>1, HandedOver
  <2>8. req' = [req EXCEPT ![r] = call] /\ CallOK(call)
    BY <2>3, CallProceeds
  <2>9. /\ SameCall(q, call) /\ call.step = next /\ Added(call) = {f} /\ TakenOut(call) = TakenOut(q) /\ call.added = {f}
        /\ q.op \in DropOps => call.dropped = q.dropped
    <3>1. CallOK(q) /\ q.op \in AddOps
      BY <1>1
    <3>2. call = AsUploaded(q, next, {f})
      BY <2>2 DEF AsUploaded
    <3> QED
      BY <3>1, <3>2, UploadedCall
  <2>10. RowClaims(new)'
    <3>1. RowClaims(new)
      BY <1>0, <2>7, RowsHandedOver DEF FilesOf
    <3> QED
      BY <2>3, <3>1, RowsOfFiles
  <2>11. Fresh(new)'
    <3>1. \A g \in Files : g > f => new[g] = Nobody
      BY <1>0, <2>4, <2>7 DEF FilesOf, Fresh, Files
    <3> QED
      BY <2>3, <3>1 DEF Fresh
  <2>12. CallClaims(new, r, call)'
    <3> USE Apart
    <3>1. TakenOut(call) \cap stored' = {}
      <4>1. f \notin TakenOut(q)
        BY <1>1, <2>5, TakenOutOwned
      <4> QED
        BY <1>1, <2>3, <2>9, <4>1 DEF CallClaims
    <3>2. OwnedBy(new, Added(call), OfRequest(r)) /\ Added(call) \subseteq stored'
      BY <2>3, <2>7, <2>9
    <3>3. call.op # "deletePost" /\ call.op # "deleteComment"
      BY <1>1, <2>9 DEF SameCall, AddOps
    <3>4. call.op = "updatePost" => EditPostClaims(new, call)'
      <4> SUFFICES ASSUME call.op = "updatePost" PROVE EditPostClaims(new, call)'
        OBVIOUS
      <4>1. q.op = "updatePost" /\ EditPostClaims(own, q) /\ q.old \cup q.dropped \in SUBSET Files
        BY <1>1, <2>9, CallFiles DEF SameCall, CallClaims
      <4>2. OwnedBy(new, q.old \cup q.dropped, OfPost(q.post))
        BY <2>7, <4>1 DEF EditPostClaims, KeepsOthers
      <4>3. call.step # "insert" /\ call.old = q.old /\ call.dropped = q.dropped /\ call.post = q.post /\ call.lists = q.lists
        BY <2>9, <4>1 DEF SameCall, DropOps
      <4>4. RowsCleared(call)
        BY <2>9 DEF RowsCleared
      <4> QED
        BY <4>2, <4>3, <4>4 DEF EditPostClaims, RowsCleared
    <3>5. call.op = "updateComment" => EditCommentClaims(call)' /\ OwnedBy(new, call.dropped, OfComment(call.comment))
      <4> SUFFICES ASSUME call.op = "updateComment"
                   PROVE  EditCommentClaims(call)' /\ OwnedBy(new, call.dropped, OfComment(call.comment))
        OBVIOUS
      <4>1. /\ q.op = "updateComment" /\ EditCommentClaims(q) /\ OwnedBy(own, q.dropped, OfComment(q.comment))
            /\ q.dropped \in SUBSET Files
        BY <1>1, <2>9, CallFiles DEF SameCall, CallClaims
      <4>2. OwnedBy(new, q.dropped, OfComment(q.comment))
        BY <2>7, <4>1 DEF KeepsOthers
      <4>3. /\ call.step \notin {"drop", "insert"} /\ call.dropped = q.dropped /\ call.comment = q.comment
            /\ call.uploads = q.uploads
        BY <1>1, <2>9, <4>1 DEF SameCall, DropOps
      <4> QED
        BY <1>4, <2>9, <4>2, <4>3 DEF EditCommentClaims
    <3>6. call.op = "updateMaterial" =>
            OwnedBy(new, call.old \cup call.dropped, OfMaterial(call.material)) /\ (~call.uploads => call.dropped = {})
      <4> SUFFICES ASSUME call.op = "updateMaterial"
                   PROVE  OwnedBy(new, call.old \cup call.dropped, OfMaterial(call.material)) /\ call.uploads = q.uploads
        BY <1>4
      <4>1. /\ q.op = "updateMaterial" /\ OwnedBy(own, q.old \cup q.dropped, OfMaterial(q.material))
            /\ q.old \cup q.dropped \in SUBSET Files
        BY <1>1, <2>9, CallFiles DEF SameCall, CallClaims
      <4>2. OwnedBy(new, q.old \cup q.dropped, OfMaterial(q.material))
        BY <2>7, <4>1 DEF KeepsOthers
      <4> QED
        BY <2>9, <4>1, <4>2 DEF SameCall, DropOps
    <3>7. call.op = "updateNotice" =>
            OwnedBy(new, call.edit.kept, OfNotice(call.notice)) /\ call.edit.kept \subseteq stored'
      <4> SUFFICES ASSUME call.op = "updateNotice"
                   PROVE  OwnedBy(new, call.edit.kept, OfNotice(call.notice)) /\ call.edit.kept \subseteq stored'
        OBVIOUS
      <4>1. /\ q.op = "updateNotice" /\ OwnedBy(own, q.edit.kept, OfNotice(q.notice)) /\ q.edit.kept \subseteq stored
            /\ q.edit.kept \in SUBSET Files
        BY <1>1, <2>9, CallFiles DEF SameCall, CallClaims
      <4>2. OwnedBy(new, q.edit.kept, OfNotice(q.notice))
        BY <2>7, <4>1 DEF KeepsOthers
      <4> QED
        BY <2>3, <2>9, <4>1, <4>2 DEF SameCall
    <3> QED
      BY <3>1, <3>2, <3>3, <3>4, <3>5, <3>6, <3>7 DEF CallClaims
  <2>13. KeepsComments /\ StoresFresh(own) /\ TakesOut(own, r, call) /\ NamesStored /\ lost \subseteq lost'
    BY <2>3, <2>5 DEF KeepsComments, StoresFresh, TakesOut, NamesStored
  <2>14. Forgets(req[r], call)
    BY <1>1, <2>9 DEF Forgets
  <2>15. FilesOf(new)'
    BY <1>0, <2>7, <2>8, <2>10, <2>11, <2>12, <2>13, <2>14, FilesStep
  <2> QED
    BY <2>7, <2>15
<1> QED
  BY <1>3, <1>4

-----------------------------------------------------------------------------
(***************************************************************************)
(* FilesInv: a call removes files from S3, those of the row it works on,   *)
(* or of that question's comments.                                         *)
(***************************************************************************)
DropClaims(own, call) ==
    /\ call.op = "updatePost" => EditPostClaims(own, call)
    /\ call.op = "deletePost" => DeletePostClaims(own, call)
    /\ call.op \in {"deleteComment", "updateComment"} => OwnedBy(own, call.dropped, OfComment(call.comment))
    /\ call.op = "updateComment" => EditCommentClaims(call)
    /\ call.op = "updateMaterial" =>
         OwnedBy(own, call.old \cup call.dropped, OfMaterial(call.material)) /\ (~call.uploads => call.dropped = {})

LEMMA DropStep ==
    ASSUME Shaped, NEW own, FilesOf(own), NEW r \in Requests, NEW q, q = req[r], q.op \in DropOps, NEW removed,
           \A f \in removed : \E x : own[f] \in {OfPost(x), OfComment(x), OfMaterial(x)},
           NEW next, NEW call, call = AsDropped(q, next, removed), Proceed(r, call), stored' = stored \ removed,
           UNCHANGED <<post, comment, uploads, lost, material, notice>>, DropClaims(own, call)
    PROVE  FilesOf(own)'
<1>0. RequestsOK /\ Calls /\ BoardTypeOK /\ LibraryTypeOK /\ BoardTypeOK' /\ LibraryTypeOK'
  BY DEF Shaped, TypedInv
<1>1. CallOK(q) /\ CallClaims(own, r, q)
  BY <1>0 DEF Calls, FilesOf
<1>2. req' = [req EXCEPT ![r] = call] /\ CallOK(call)
  BY CallProceeds
<1>3. /\ SameCall(q, call) /\ Added(call) = Added(q) /\ TakenOut(call) = TakenOut(q) \cup removed
  BY <1>1, DroppedCall
<1>4. removed \cap Added(q) = {}
  BY <1>1, Apart DEF CallClaims, OwnedBy
<1>5. OwnedBy(own, Added(call), OfRequest(r)) /\ Added(call) \subseteq stored' /\ TakenOut(call) \cap stored' = {}
  BY <1>1, <1>3, <1>4 DEF CallClaims
<1>6. call.op # "updateNotice"
  BY <1>3 DEF SameCall, DropOps
<1>7. CallClaims(own, r, call)'
  BY <1>5, <1>6 DEF DropClaims, CallClaims, EditPostClaims, DeletePostClaims, EditCommentClaims
<1>8. own \in [Files -> Owners] /\ Fresh(own)' /\ RowClaims(own)'
  BY RowsOfFiles DEF FilesOf, Fresh
<1>9. HandsOver(own, own, r) /\ KeepsComments /\ StoresFresh(own) /\ NamesStored /\ lost \subseteq lost'
  BY DEF HandsOver, KeepsComments, StoresFresh, NamesStored
<1>10. TakesOut(own, r, call) /\ Forgets(req[r], call)
  BY <1>3 DEF TakesOut, Forgets
<1> QED
  BY <1>0, <1>2, <1>7, <1>8, <1>9, <1>10, FilesStep

LEMMA OldFilesDropped ==
    ASSUME Shaped, NEW own, FilesOf(own), NEW r \in Requests, DropOldFiles(r), UNCHANGED <<material, notice>>
    PROVE  FilesOf(own)'
<1>1. PICK q : q = req[r] /\ CallOK(q) /\ CallClaims(own, r, q)
  BY DEF Shaped, TypedInv, Calls, FilesOf
<1>2. q.op = "updatePost" /\ q.op \in DropOps
  BY <1>1 DEF DropOldFiles, At, DropOps
<1>3. PICK removed \in SUBSET (IF q.added # {} \/ (q.lists /\ q.keeps = {}) THEN q.old ELSE {}) :
        stored' = stored \ removed /\ Proceed(r, [q EXCEPT !.step = "clear", !.dropped = @ \cup removed])
  BY <1>1 DEF DropOldFiles, Drop
<1>4. PICK call : call = AsDropped(q, "clear", removed)
  OBVIOUS
<1>5. Proceed(r, call)
  BY <1>3, <1>4 DEF AsDropped
<1>6. /\ SameCall(q, call) /\ call.step = "clear" /\ call.added = q.added /\ call.dropped = q.dropped \cup removed
  BY <1>1, <1>2, <1>4, DroppedCall DEF AddOps
<1>7. EditPostClaims(own, q) /\ removed \subseteq q.old /\ (removed # {} => RowsCleared(q))
  BY <1>1, <1>2, <1>3 DEF CallClaims, RowsCleared
<1>8. RowsCleared(call) <=> RowsCleared(q)
  BY <1>2, <1>6 DEF RowsCleared, SameCall
<1>9. call.op = "updatePost" /\ call.old = q.old /\ call.post = q.post
  BY <1>2, <1>6 DEF SameCall
<1>10. EditPostClaims(own, call)
  BY <1>6, <1>7, <1>8, <1>9 DEF EditPostClaims, OwnedBy
<1>11. DropClaims(own, call)
  BY <1>9, <1>10 DEF DropClaims
<1>12. \A f \in removed : \E x : own[f] \in {OfPost(x), OfComment(x), OfMaterial(x)}
  BY <1>7 DEF EditPostClaims, OwnedBy
<1>13. UNCHANGED <<post, comment, uploads, lost>>
  BY DEF DropOldFiles
<1> QED
  BY <1>1, <1>2, <1>3, <1>4, <1>5, <1>11, <1>12, <1>13, DropStep

LEMMA PostFilesDropped ==
    ASSUME Shaped, NEW own, FilesOf(own), NEW r \in Requests, DropPostFiles(r), UNCHANGED <<material, notice>>
    PROVE  FilesOf(own)'
<1>1. PICK q : q = req[r] /\ CallOK(q) /\ CallClaims(own, r, q)
  BY DEF Shaped, TypedInv, Calls, FilesOf
<1>2. q.op = "deletePost" /\ q.op \in DropOps
  BY <1>1 DEF DropPostFiles, At, DropOps
<1>3. DeletePostClaims(own, q)
  BY <1>1, <1>2 DEF CallClaims
<1>4. ASSUME NEW f \in FilesOn(q.post) PROVE \E c \in Comments : own[f] = OfComment(c) /\ comment[c].on = q.post
  BY <1>4 DEF FilesOn, On, FilesOf, RowClaims, OwnedBy
<1>5. PICK removed, step :
        /\ stored' = stored \ removed /\ Proceed(r, AsDropped(q, step, removed))
        /\ removed \subseteq q.old \/ removed \subseteq FilesOn(q.post)
  <2>1. CASE Drop(r, q.old, "comments")
    <3>1. PICK removed \in SUBSET q.old :
            stored' = stored \ removed /\ Proceed(r, [q EXCEPT !.step = "comments", !.dropped = @ \cup removed])
      BY <1>1, <2>1 DEF Drop
    <3>2. removed \subseteq q.old /\ Proceed(r, AsDropped(q, "comments", removed))
      BY <3>1 DEF AsDropped
    <3> QED
      BY <3>1, <3>2
  <2>2. CASE Drop(r, FilesOn(q.post), "save")
    <3>1. PICK removed \in SUBSET FilesOn(q.post) :
            stored' = stored \ removed /\ Proceed(r, [q EXCEPT !.step = "save", !.dropped = @ \cup removed])
      BY <1>1, <2>2 DEF Drop
    <3>2. removed \subseteq FilesOn(q.post) /\ Proceed(r, AsDropped(q, "save", removed))
      BY <3>1 DEF AsDropped
    <3> QED
      BY <3>1, <3>2
  <2> QED
    BY <1>1, <2>1, <2>2 DEF DropPostFiles
<1>6. ASSUME NEW f \in removed
      PROVE  own[f] = OfPost(q.post) \/ \E c \in Comments : own[f] = OfComment(c) /\ comment[c].on = q.post
  BY <1>3, <1>4, <1>5, <1>6 DEF DeletePostClaims, OwnedBy
<1>7. PICK call : call = AsDropped(q, step, removed)
  OBVIOUS
<1>8. Proceed(r, call)
  BY <1>5, <1>7
<1>9. SameCall(q, call) /\ call.dropped = q.dropped \cup removed
  BY <1>1, <1>2, <1>7, DroppedCall
<1>10. call.op = "deletePost" /\ call.old = q.old /\ call.post = q.post
  BY <1>2, <1>9 DEF SameCall
<1>11. DeletePostClaims(own, call)
  BY <1>3, <1>6, <1>9, <1>10 DEF DeletePostClaims
<1>12. DropClaims(own, call)
  BY <1>10, <1>11 DEF DropClaims
<1>13. \A f \in removed : \E x : own[f] \in {OfPost(x), OfComment(x), OfMaterial(x)}
  BY <1>6
<1>14. UNCHANGED <<post, comment, uploads, lost>>
  BY DEF DropPostFiles
<1> QED
  BY <1>1, <1>2, <1>5, <1>7, <1>8, <1>12, <1>13, <1>14, DropStep

LEMMA CommentFilesDropped ==
    ASSUME Shaped, NEW own, FilesOf(own), NEW r \in Requests, DropCommentFiles(r), UNCHANGED <<material, notice>>
    PROVE  FilesOf(own)'
<1>1. PICK q : q = req[r] /\ CallOK(q) /\ CallClaims(own, r, q)
  BY DEF Shaped, TypedInv, Calls, FilesOf
<1>2. q.op \in {"deleteComment", "updateComment"} /\ q.op \in DropOps /\ q.step = "drop"
  BY <1>1 DEF DropCommentFiles, DropOps
<1>3. q.comment \in Comments
  BY <1>1, <1>2, CallFiles
<1>4. PICK next \in {"save", "upload"} : next = IF q.op = "deleteComment" THEN "save" ELSE "upload"
  OBVIOUS
<1>5. PICK removed \in SUBSET DirectFiles(q) :
        stored' = stored \ removed /\ Proceed(r, [q EXCEPT !.step = next, !.dropped = @ \cup removed])
  BY <1>1, <1>4 DEF DropCommentFiles, Drop
<1>6. OwnedBy(own, removed, OfComment(q.comment))
  BY <1>3, <1>5 DEF DirectFiles, FilesOf, RowClaims, OwnedBy
<1>7. PICK call : call = AsDropped(q, next, removed)
  OBVIOUS
<1>8. Proceed(r, call)
  BY <1>5, <1>7 DEF AsDropped
<1>9. SameCall(q, call) /\ call.dropped = q.dropped \cup removed /\ call.step = next
  BY <1>1, <1>2, <1>7, DroppedCall
<1>10. call.op = q.op /\ call.comment = q.comment /\ OwnedBy(own, q.dropped, OfComment(q.comment))
  BY <1>1, <1>2, <1>9 DEF SameCall, CallClaims
<1>11. OwnedBy(own, call.dropped, OfComment(call.comment))
  BY <1>6, <1>9, <1>10 DEF OwnedBy
<1>12. call.op = "updateComment" => EditCommentClaims(call)
  BY <1>1, <1>2, <1>4, <1>9, <1>10 DEF SameCall, CallClaims, EditCommentClaims
<1>13. DropClaims(own, call)
  BY <1>2, <1>10, <1>11, <1>12 DEF DropClaims
<1>14. \A f \in removed : \E x : own[f] \in {OfPost(x), OfComment(x), OfMaterial(x)}
  BY <1>6 DEF OwnedBy
<1>15. UNCHANGED <<post, comment, uploads, lost>>
  BY DEF DropCommentFiles
<1> QED
  BY <1>1, <1>2, <1>5, <1>7, <1>8, <1>13, <1>14, <1>15, DropStep

LEMMA OldMaterialDropped ==
    ASSUME Shaped, NEW own, FilesOf(own), NEW r \in Requests, DropOldMaterial(r) PROVE FilesOf(own)'
<1>1. PICK q : q = req[r] /\ CallOK(q) /\ CallClaims(own, r, q)
  BY DEF Shaped, TypedInv, Calls, FilesOf
<1>2. q.op = "updateMaterial" /\ q.op \in DropOps
  BY <1>1 DEF DropOldMaterial, At, DropOps
<1>3. PICK removed \in SUBSET (IF q.uploads THEN q.old ELSE {}) :
        stored' = stored \ removed /\ Proceed(r, [q EXCEPT !.step = "save", !.dropped = @ \cup removed])
  BY <1>1 DEF DropOldMaterial, Drop
<1>4. PICK call : call = AsDropped(q, "save", removed)
  OBVIOUS
<1>5. Proceed(r, call)
  BY <1>3, <1>4 DEF AsDropped
<1>6. SameCall(q, call) /\ call.dropped = q.dropped \cup removed
  BY <1>1, <1>2, <1>4, DroppedCall
<1>7. OwnedBy(own, q.old \cup q.dropped, OfMaterial(q.material)) /\ (~q.uploads => q.dropped = {})
  BY <1>1, <1>2 DEF CallClaims
<1>8. removed \subseteq q.old /\ (~q.uploads => removed = {})
  BY <1>3
<1>9. call.op = "updateMaterial" /\ call.old = q.old /\ call.material = q.material /\ call.uploads = q.uploads
  BY <1>2, <1>6 DEF SameCall
<1>10. OwnedBy(own, call.old \cup call.dropped, OfMaterial(call.material)) /\ (~call.uploads => call.dropped = {})
  BY <1>6, <1>7, <1>8, <1>9 DEF OwnedBy
<1>11. DropClaims(own, call)
  BY <1>9, <1>10 DEF DropClaims
<1>12. \A f \in removed : \E x : own[f] \in {OfPost(x), OfComment(x), OfMaterial(x)}
  BY <1>7, <1>8 DEF OwnedBy
<1>13. UNCHANGED <<post, comment, uploads, lost, material, notice>>
  BY DEF DropOldMaterial, libraryVars
<1> QED
  BY <1>1, <1>2, <1>3, <1>4, <1>5, <1>11, <1>12, <1>13, DropStep

-----------------------------------------------------------------------------
(***************************************************************************)
(* FilesInv: rows are written, and the call goes on or is answered.        *)
(***************************************************************************)
\* What a row that is written owns, and what the others keep.
RowsWritten(own) ==
    /\ \A p \in Posts : OwnedBy(own, post'[p].files, OfPost(p)) /\ (~post'[p].there => post'[p].files = {})
    /\ \A c \in Comments :
         /\ OwnedBy(own, comment'[c].files, OfComment(c))
         /\ comment'[c].gone => comment'[c].on = None
         /\ comment'[c].on = None => comment'[c].files = {}
    /\ \A m \in Materials : OwnedBy(own, material'[m].files, OfMaterial(m))
    /\ \A n \in Notices : OwnedBy(own, notice'[n].files, OfNotice(n))

LEMMA WrittenClaims == ASSUME NEW own, RowsWritten(own) PROVE RowClaims(own)'
  BY DEF RowsWritten, RowClaims, OwnedBy

LEMMA KeptRows ==
    ASSUME NEW own, RowClaims(own)
    PROVE  /\ \A p \in Posts : OwnedBy(own, post[p].files, OfPost(p)) /\ (~post[p].there => post[p].files = {})
           /\ \A c \in Comments :
                /\ OwnedBy(own, comment[c].files, OfComment(c))
                /\ comment[c].gone => comment[c].on = None
                /\ comment[c].on = None => comment[c].files = {}
           /\ \A m \in Materials : OwnedBy(own, material[m].files, OfMaterial(m))
           /\ \A n \in Notices : OwnedBy(own, notice[n].files, OfNotice(n))
  BY DEF RowClaims

LEMMA AttachmentsCleared ==
    ASSUME Shaped, NEW own, FilesOf(own), NEW r \in Requests, ClearAttachments(r), UNCHANGED <<material, notice>>
    PROVE  FilesOf(own)'
<1>0. RequestsOK /\ Calls /\ BoardTypeOK /\ LibraryTypeOK /\ BoardTypeOK' /\ LibraryTypeOK'
  BY DEF Shaped, TypedInv
<1>1. PICK q : q = req[r] /\ CallOK(q) /\ CallClaims(own, r, q)
  BY <1>0 DEF Calls, FilesOf
<1>2. q.op = "updatePost" /\ q.op \in FileOps /\ q.op \in AddOps /\ q.op \in DropOps
  BY <1>1 DEF ClearAttachments, At, FileOps, DropOps, AddOps
<1>3. q.post \in Posts /\ EditPostClaims(own, q)
  BY <1>1, <1>2, CallFiles DEF CallClaims
<1>4. PICK call : call = [q EXCEPT !.step = "insert"]
  OBVIOUS
<1>5. /\ Proceed(r, call) /\ UNCHANGED <<comment, stored, uploads, lost>>
      /\ post' = IF post[q.post].there /\ RowsCleared(q) THEN [post EXCEPT ![q.post].files = {}] ELSE post
  BY <1>1, <1>4 DEF ClearAttachments
<1>6. req' = [req EXCEPT ![r] = call] /\ CallOK(call)
  BY <1>5, CallProceeds
<1>7. /\ SameCall(q, call) /\ call.step = "insert" /\ Added(call) = Added(q) /\ TakenOut(call) = TakenOut(q)
      /\ call.added = q.added /\ call.dropped = q.dropped
  BY <1>1, <1>2, <1>4, SteppedCall
<1>8. /\ \A p \in Posts : post'[p].there = post[p].there /\ (post'[p].files = post[p].files \/ post'[p].files = {})
      /\ post[q.post].there /\ RowsCleared(q) => post'[q.post].files = {}
  <2>1. \A p \in Posts : post[p] \in PostRow
    BY <1>0 DEF BoardTypeOK
  <2> QED
    BY <1>0, <1>3, <1>5, <2>1 DEF BoardTypeOK, PostRow
<1>9. RowsWritten(own)
  BY <1>5, <1>8 DEF FilesOf, RowClaims, RowsWritten, OwnedBy
<1>10. /\ own \in [Files -> Owners] /\ Fresh(own)' /\ RowClaims(own)'
  BY <1>5, <1>9, WrittenClaims DEF FilesOf, Fresh
<1>11. /\ HandsOver(own, own, r) /\ KeepsComments /\ StoresFresh(own) /\ TakesOut(own, r, call) /\ NamesStored
       /\ Forgets(req[r], call) /\ lost \subseteq lost'
  BY <1>1, <1>5, <1>7, <1>8 DEF HandsOver, KeepsComments, StoresFresh, TakesOut, NamesStored, Forgets
<1>12. q.dropped # {} => post'[q.post].files = {}
  <2>1. ~post[q.post].there => post'[q.post].files = {}
    BY <1>3, <1>8 DEF FilesOf, RowClaims
  <2> QED
    BY <1>3, <1>8, <2>1 DEF EditPostClaims
<1>13. call.op = "updatePost" /\ call.post = q.post /\ call.old = q.old /\ (RowsCleared(call) <=> RowsCleared(q))
  BY <1>2, <1>7 DEF SameCall, RowsCleared
<1>14. EditPostClaims(own, call)'
  BY <1>3, <1>7, <1>12, <1>13 DEF EditPostClaims
<1>15. CallClaims(own, r, call)'
  BY <1>1, <1>5, <1>7, <1>13, <1>14 DEF CallClaims
<1> QED
  BY <1>0, <1>6, <1>10, <1>11, <1>15, FilesStep

LEMMA CommentRowsCleared ==
    ASSUME Shaped, NEW own, FilesOf(own), NEW r \in Requests, ClearCommentRows(r), UNCHANGED <<material, notice>>
    PROVE  FilesOf(own)'
<1>0. RequestsOK /\ Calls /\ BoardTypeOK /\ LibraryTypeOK /\ BoardTypeOK' /\ LibraryTypeOK'
  BY DEF Shaped, TypedInv
<1>1. PICK q : q = req[r] /\ CallOK(q) /\ CallClaims(own, r, q)
  BY <1>0 DEF Calls, FilesOf
<1>2. q.op = "updateComment" /\ q.op \in FileOps /\ q.op \in AddOps /\ q.op \in DropOps /\ q.step = "clear"
  BY <1>1 DEF ClearCommentRows, At, FileOps, DropOps, AddOps
<1>3. q.comment \in Comments /\ EditCommentClaims(q) /\ OwnedBy(own, q.dropped, OfComment(q.comment))
  BY <1>1, <1>2, CallFiles DEF CallClaims
<1>4. PICK call : call = [q EXCEPT !.step = "insert"]
  OBVIOUS
<1>5. /\ Proceed(r, call) /\ UNCHANGED <<post, stored, uploads, lost>>
      /\ comment' = IF q.rows # "keep" \/ q.added # {} THEN [comment EXCEPT ![q.comment].files = {}] ELSE comment
  BY <1>1, <1>4 DEF ClearCommentRows
<1>6. req' = [req EXCEPT ![r] = call] /\ CallOK(call)
  BY <1>5, CallProceeds
<1>7. /\ SameCall(q, call) /\ call.step = "insert" /\ Added(call) = Added(q) /\ TakenOut(call) = TakenOut(q)
      /\ call.added = q.added /\ call.dropped = q.dropped
  BY <1>1, <1>2, <1>4, SteppedCall
<1>8. /\ \A c \in Comments :
           /\ comment'[c].on = comment[c].on /\ comment'[c].gone = comment[c].gone
           /\ comment'[c].files = comment[c].files \/ comment'[c].files = {}
      /\ q.rows # "keep" \/ q.added # {} => comment'[q.comment].files = {}
  BY <1>0, <1>3, <1>5 DEF BoardTypeOK, CommentRow
<1>9. RowsWritten(own)
  <2>1. RowClaims(own)
    BY DEF FilesOf
  <2> QED
    BY <1>5, <1>8, <2>1, KeptRows DEF RowsWritten, OwnedBy
<1>10. /\ own \in [Files -> Owners] /\ Fresh(own)' /\ RowClaims(own)'
  BY <1>5, <1>9, WrittenClaims DEF FilesOf, Fresh
<1>11. KeepsComments
  BY <1>8 DEF KeepsComments
<1>12. /\ HandsOver(own, own, r) /\ StoresFresh(own) /\ TakesOut(own, r, call) /\ NamesStored
       /\ Forgets(req[r], call) /\ lost \subseteq lost'
  BY <1>1, <1>5, <1>7, <1>8 DEF HandsOver, StoresFresh, TakesOut, NamesStored, Forgets
<1>13. q.dropped # {} => comment'[q.comment].files = {}
  BY <1>2, <1>3, <1>8 DEF EditCommentClaims
<1>14. /\ call.op = "updateComment" /\ call.comment = q.comment /\ call.rows = q.rows /\ call.uploads = q.uploads
  BY <1>2, <1>7 DEF SameCall
<1>15. EditCommentClaims(call)'
  BY <1>2, <1>3, <1>7, <1>13, <1>14 DEF EditCommentClaims
<1>16. CallClaims(own, r, call)'
  BY <1>1, <1>3, <1>5, <1>7, <1>14, <1>15 DEF CallClaims
<1> QED
  BY <1>0, <1>6, <1>10, <1>11, <1>12, <1>16, FilesStep

-----------------------------------------------------------------------------
(***************************************************************************)
(* FilesInv: a request is answered, and what it has uploaded belongs to    *)
(* the row it has written.                                                 *)
(***************************************************************************)
LEMMA AnsweredStep ==
    ASSUME Shaped, NEW own, FilesOf(own), NEW new \in [Files -> Owners], NEW r \in Requests, Reply(r),
           HandsOver(own, new, r), Fresh(new)', RowsWritten(new), KeepsComments, stored' \subseteq stored,
           \A f \in stored \ stored' : own[f] = OfRequest(r), NamesStored, lost \subseteq lost',
           \A f \in TakenOut(req[r]) : f \in lost' \/ Unnamed(f)'
    PROVE  FilesOf(new)'
<1>1. RequestsOK /\ Calls /\ BoardTypeOK /\ LibraryTypeOK /\ BoardTypeOK' /\ LibraryTypeOK'
  BY DEF Shaped, TypedInv
<1>2. req' = [req EXCEPT ![r] = Idle] /\ CallOK(Idle)
  BY CallOfOthers, IdleIsNoCall DEF Reply, Proceed
<1>3. CallClaims(new, r, Idle)'
  BY IdleIsNoFileOp DEF CallClaims, FileOps, AddOps, DropOps, Added, TakenOut, OwnedBy
<1>4. RowClaims(new)'
  BY WrittenClaims
<1>5. StoresFresh(own) /\ TakesOut(own, r, Idle) /\ Forgets(req[r], Idle)
  BY DEF StoresFresh, TakesOut, Forgets
<1> QED
  BY <1>1, <1>2, <1>3, <1>4, <1>5, FilesStep

\* The request's files go to the row; everybody else keeps what is theirs.
LEMMA RowGets ==
    ASSUME Shaped, NEW own, FilesOf(own), NEW r \in Requests, NEW files, files \subseteq Added(req[r]),
           NEW owner \in Owners, NEW new, new = GivenTo(own, files, owner), UNCHANGED uploads
    PROVE  /\ new \in [Files -> Owners] /\ HandsOver(own, new, r) /\ Fresh(new)' /\ RowClaims(new)
           /\ OwnedBy(new, files, owner) /\ files \subseteq stored
           /\ KeepsOthers(own, new, r)
<1>1. CallOK(req[r]) /\ CallClaims(own, r, req[r]) /\ BoardTypeOK /\ LibraryTypeOK /\ own \in [Files -> Owners]
  BY DEF Shaped, TypedInv, Calls, FilesOf
<1>2. files \in SUBSET Files /\ files \subseteq stored /\ \A f \in files : own[f] = OfRequest(r)
  BY <1>1, CallFiles DEF CallClaims, OwnedBy
<1>3. /\ new \in [Files -> Owners] /\ HandsOver(own, new, r) /\ OwnedBy(new, files, owner)
      /\ \A f \in Files \ files : new[f] = own[f]
      /\ KeepsOthers(own, new, r)
  BY <1>1, <1>2, HandedOver
<1>4. RowClaims(new)
  BY <1>1, <1>3, RowsHandedOver DEF FilesOf
<1>5. Fresh(new)'
  BY <1>2, <1>3, Apart DEF FilesOf, Fresh
<1> QED
  BY <1>2, <1>3, <1>4, <1>5

\* Nothing changes hands.
LEMMA NobodyGets ==
    ASSUME NEW own, FilesOf(own), NEW r, UNCHANGED uploads
    PROVE  own \in [Files -> Owners] /\ HandsOver(own, own, r) /\ Fresh(own)' /\ RowClaims(own)
  BY DEF FilesOf, HandsOver, Fresh

\* A file of a row that does not name it is named by none.
LEMMA NamedByOwner ==
    ASSUME NEW own, RowsWritten(own), NEW f
    PROVE  /\ \A p \in Posts : own[f] = OfPost(p) /\ f \notin post'[p].files => Unnamed(f)'
           /\ \A c \in Comments : own[f] = OfComment(c) /\ f \notin comment'[c].files => Unnamed(f)'
           /\ \A m \in Materials : own[f] = OfMaterial(m) /\ f \notin material'[m].files => Unnamed(f)'
  BY Apart DEF RowsWritten, OwnedBy, Unnamed

LEMMA PostSavedFiles ==
    ASSUME Shaped, NEW own, FilesOf(own), NEW r \in Requests, SavePost(r), UNCHANGED <<material, notice>>
    PROVE  \E new \in [Files -> Owners] : FilesOf(new)'
<1>1. PICK q : q = req[r] /\ q.op = "createPost"
  BY DEF SavePost, At
<1>2. Added(q) = q.added /\ TakenOut(q) = {}
  BY <1>1 DEF Added, AddOps, TakenOut, DropOps
<1>3. PICK p \in Posts : post' = [post EXCEPT ![p] = [NoPost EXCEPT !.there = TRUE, !.of = q.of, !.role = q.role, !.files = q.added]]
  BY <1>1 DEF SavePost
<1>4. Reply(r) /\ UNCHANGED <<comment, stored, uploads, lost>>
  BY DEF SavePost
<1>5. PICK new : new = GivenTo(own, q.added, OfPost(p))
  OBVIOUS
<1>6. /\ new \in [Files -> Owners] /\ HandsOver(own, new, r) /\ Fresh(new)' /\ RowClaims(new)
      /\ OwnedBy(new, q.added, OfPost(p)) /\ q.added \subseteq stored
  BY <1>1, <1>2, <1>4, <1>5, OwnersAre, RowGets
<1>7. post'[p].files = q.added /\ post'[p].there /\ \A s \in Posts \ {p} : post'[s] = post[s]
  BY <1>3 DEF Shaped, TypedInv, BoardTypeOK, NoPost
<1>8. RowsWritten(new)
  BY <1>4, <1>6, <1>7, KeptRows DEF RowsWritten
<1>9. KeepsComments /\ NamesStored
  BY <1>4, <1>6, <1>7 DEF KeepsComments, NamesStored
<1>10. FilesOf(new)'
  BY <1>1, <1>2, <1>4, <1>6, <1>8, <1>9, AnsweredStep
<1> QED
  BY <1>6, <1>10

LEMMA AttachmentsInserted ==
    ASSUME Shaped, NEW own, FilesOf(own), NEW r \in Requests, InsertAttachments(r), UNCHANGED <<material, notice>>
    PROVE  \E new \in [Files -> Owners] : FilesOf(new)'
<1>0. BoardTypeOK
  BY DEF Shaped, TypedInv
<1>1. PICK q : q = req[r] /\ q.op = "updatePost" /\ q.step = "insert" /\ CallOK(q) /\ CallClaims(own, r, q)
  BY DEF InsertAttachments, At, Shaped, TypedInv, Calls, FilesOf
<1>2. Added(q) = q.added /\ TakenOut(q) = q.dropped
  BY <1>1 DEF Added, AddOps, TakenOut, DropOps
<1>3. /\ q.post \in Posts /\ q.old \subseteq Files /\ q.keeps \subseteq q.old /\ q.dropped \subseteq Files
      /\ EditPostClaims(own, q) /\ q.dropped \cap stored = {}
  BY <1>1, <1>2, CallFiles DEF CallClaims
<1>4. /\ post' = IF post[q.post].there THEN [post EXCEPT ![q.post].files = @ \cup q.keeps \cup q.added] ELSE post
      /\ lost' = lost \cup (q.keeps \ stored) /\ Reply(r) /\ UNCHANGED <<comment, stored, uploads>>
  BY <1>1 DEF InsertAttachments
<1>5. PICK new : new = GivenTo(own, q.added, OfPost(q.post))
  OBVIOUS
<1>6. /\ new \in [Files -> Owners] /\ HandsOver(own, new, r) /\ Fresh(new)' /\ RowClaims(new)
      /\ OwnedBy(new, q.added, OfPost(q.post)) /\ q.added \subseteq stored
      /\ KeepsOthers(own, new, r)
  <2>1. OfPost(q.post) \in Owners /\ q.added \subseteq Added(req[r]) /\ UNCHANGED uploads
    BY <1>1, <1>2, <1>3, <1>4, OwnersAre
  <2> QED
    BY <1>5, <2>1, RowGets
<1>7. OwnedBy(new, q.keeps, OfPost(q.post)) /\ OwnedBy(new, q.dropped, OfPost(q.post))
  <2>1. OwnedBy(own, q.keeps, OfPost(q.post)) /\ OwnedBy(own, q.dropped, OfPost(q.post))
    BY <1>3 DEF EditPostClaims, OwnedBy
  <2>2. q.keeps \in SUBSET Files /\ q.dropped \in SUBSET Files
    BY <1>3
  <2> QED
    BY <1>6, <2>1, <2>2, Apart DEF KeepsOthers
<1>8. /\ \A s \in Posts : post'[s].there <=> post[s].there
      /\ \A s \in Posts \ {q.post} : post'[s].files = post[s].files
      /\ IF post[q.post].there THEN post'[q.post].files = post[q.post].files \cup q.keeps \cup q.added
         ELSE post'[q.post].files = post[q.post].files
  BY <1>0, <1>3, <1>4 DEF BoardTypeOK, PostRow
<1>9. \A s \in Posts : OwnedBy(new, post'[s].files, OfPost(s)) /\ (~post'[s].there => post'[s].files = {})
  BY <1>6, <1>7, <1>8, KeptRows DEF OwnedBy
<1>10. RowsWritten(new)
  BY <1>4, <1>6, <1>9, KeptRows DEF RowsWritten
<1>11. KeepsComments /\ lost \subseteq lost' /\ \A s \in Posts : post'[s].files \ post[s].files \subseteq stored \cup lost'
  BY <1>4, <1>6, <1>8 DEF KeepsComments
<1>12. NamesStored
  BY <1>4, <1>11 DEF NamesStored
<1>13. ASSUME NEW f \in TakenOut(q) PROVE f \in lost' \/ Unnamed(f)'
  <2>1. f \in q.dropped /\ f \notin stored /\ f \notin q.added /\ new[f] = OfPost(q.post)
    BY <1>2, <1>3, <1>6, <1>7, <1>13 DEF OwnedBy
  <2>2. CASE f \in post[q.post].files
    BY <1>1, <1>3, <1>4, <2>1, <2>2 DEF EditPostClaims
  <2>3. CASE f \in q.keeps
    BY <1>4, <2>1, <2>3
  <2>4. CASE f \notin post[q.post].files /\ f \notin q.keeps
    <3>1. f \notin post'[q.post].files
      BY <1>8, <2>1, <2>4
    <3> QED
      BY <1>3, <1>10, <2>1, <3>1, NamedByOwner
  <2> QED
    BY <2>2, <2>3, <2>4
<1>14. FilesOf(new)'
  BY <1>1, <1>4, <1>6, <1>10, <1>11, <1>12, <1>13, AnsweredStep
<1> QED
  BY <1>6, <1>14

LEMMA PostDeletedFiles ==
    ASSUME Shaped, NEW own, FilesOf(own), NEW r \in Requests, DeletePost(r), UNCHANGED <<material, notice>>
    PROVE  FilesOf(own)'
<1>0. BoardTypeOK
  BY DEF Shaped, TypedInv
<1>1. PICK q : q = req[r] /\ q.op = "deletePost" /\ CallOK(q) /\ CallClaims(own, r, q)
  BY DEF DeletePost, At, Shaped, TypedInv, Calls, FilesOf
<1>2. TakenOut(q) = q.dropped /\ q.post \in Posts /\ q.post # None /\ DeletePostClaims(own, q)
  BY <1>1, CallFiles, BoardAssumption DEF TakenOut, DropOps, CallClaims
<1>3. /\ post' = [post EXCEPT ![q.post] = [NoPost EXCEPT !.of = post[q.post].of]]
      /\ comment' = [c \in Comments |-> IF comment[c].on = q.post THEN DeletedComment ELSE comment[c]]
      /\ Reply(r) /\ UNCHANGED <<stored, uploads, lost>>
  BY <1>1 DEF DeletePost
<1>4. own \in [Files -> Owners] /\ HandsOver(own, own, r) /\ Fresh(own)' /\ RowClaims(own)
  BY <1>3, NobodyGets
<1>5. post'[q.post].files = {} /\ \A p \in Posts \ {q.post} : post'[p] = post[p]
  BY <1>0, <1>2, <1>3 DEF BoardTypeOK, NoPost
<1>6. \A c \in Comments : \/ comment'[c] = comment[c] /\ comment[c].on # q.post
                          \/ comment'[c].on = None /\ comment'[c].files = {} /\ comment'[c].gone
  BY <1>3 DEF DeletedComment, NoComment
<1>7. \A p \in Posts : OwnedBy(own, post'[p].files, OfPost(p)) /\ (~post'[p].there => post'[p].files = {})
  BY <1>4, <1>5, KeptRows DEF OwnedBy
<1>8. \A c \in Comments : /\ OwnedBy(own, comment'[c].files, OfComment(c))
                          /\ comment'[c].gone => comment'[c].on = None
                          /\ comment'[c].on = None => comment'[c].files = {}
  BY <1>4, <1>6, KeptRows DEF OwnedBy
<1>9. RowsWritten(own)
  BY <1>4, <1>7, <1>8, KeptRows DEF RowsWritten
<1>10. KeepsComments /\ NamesStored
  BY <1>3, <1>5, <1>6 DEF KeepsComments, NamesStored
<1>11. ASSUME NEW f \in TakenOut(q) PROVE Unnamed(f)'
  <2>1. CASE own[f] = OfPost(q.post)
    BY <1>2, <1>5, <1>9, <2>1, NamedByOwner
  <2>2. ASSUME NEW c \in Comments, own[f] = OfComment(c), comment[c].on = q.post \/ comment[c].gone PROVE Unnamed(f)'
    <3>1. comment'[c].files = {}
      BY <1>2, <1>4, <1>6, <2>2 DEF RowClaims
    <3> QED
      BY <1>9, <2>2, <3>1, NamedByOwner
  <2> QED
    BY <1>2, <1>11, <2>1, <2>2 DEF DeletePostClaims
<1> QED
  BY <1>1, <1>3, <1>4, <1>9, <1>10, <1>11, AnsweredStep

\* createComment: the comment is written with the file, or the upload is cleaned up.
LEMMA CommentWrittenFiles ==
    ASSUME Shaped, NEW own, FilesOf(own), NEW r \in Requests, NEW q, q = req[r], q.op = "createComment", NEW there,
           WriteComment(q, there), Reply(r), UNCHANGED <<uploads, lost, material, notice>>,
           \A p \in Posts : post'[p].files = post[p].files /\ post'[p].there = post[p].there
    PROVE  \E new \in [Files -> Owners] : FilesOf(new)'
<1>0. BoardTypeOK /\ CallOK(q) /\ CallClaims(own, r, q)
  BY DEF Shaped, TypedInv, Calls, FilesOf
<1>1. Added(q) = q.added /\ TakenOut(q) = {} /\ q.on # None
  <2>1. q.on \in Posts \cup Notices
    BY <1>0 DEF CallOK, BoardCallOK, CommentCall
  <2> QED
    BY <2>1, BoardAssumption DEF Added, AddOps, TakenOut, DropOps
<1>2. CASE there
  <2>1. PICK c \in Comments :
          /\ comment[c] = NoComment
          /\ comment' = [comment EXCEPT ![c] = [on |-> q.on, by |-> q.by, role |-> q.role, files |-> q.added, gone |-> FALSE]]
    BY <1>2 DEF WriteComment
  <2>2. stored' = stored
    BY <1>2 DEF WriteComment
  <2>3. PICK new : new = GivenTo(own, q.added, OfComment(c))
    OBVIOUS
  <2>4. /\ new \in [Files -> Owners] /\ HandsOver(own, new, r) /\ Fresh(new)' /\ RowClaims(new)
        /\ OwnedBy(new, q.added, OfComment(c)) /\ q.added \subseteq stored
    BY <1>1, <2>3, OwnersAre, RowGets
  <2>5. /\ comment'[c].on # None /\ comment'[c].files = q.added /\ ~comment'[c].gone
        /\ \A d \in Comments \ {c} : comment'[d] = comment[d]
    BY <1>0, <1>1, <2>1 DEF BoardTypeOK
  <2>6. comment[c].on = None /\ ~comment[c].gone
    BY <2>1 DEF NoComment
  <2>7. \A d \in Comments : /\ OwnedBy(new, comment'[d].files, OfComment(d))
                            /\ comment'[d].gone => comment'[d].on = None
                            /\ comment'[d].on = None => comment'[d].files = {}
    BY <2>4, <2>5, KeptRows
  <2>8. RowsWritten(new)
    BY <2>4, <2>7, KeptRows DEF RowsWritten
  <2>9. KeepsComments
    BY <2>5, <2>6 DEF KeepsComments
  <2>10. NamesStored
    BY <2>2, <2>4, <2>5 DEF NamesStored
  <2>11. FilesOf(new)'
    BY <1>1, <2>2, <2>4, <2>8, <2>9, <2>10, AnsweredStep
  <2> QED
    BY <2>4, <2>11
<1>3. CASE ~there
  <2>1. PICK removed \in SUBSET q.added : stored' = stored \ removed
    BY <1>3 DEF WriteComment, CleanUp
  <2>2. comment' = comment
    BY <1>3 DEF WriteComment
  <2>3. \A f \in stored \ stored' : own[f] = OfRequest(r)
    BY <1>0, <1>1, <2>1 DEF CallClaims, OwnedBy
  <2>4. own \in [Files -> Owners] /\ HandsOver(own, own, r) /\ Fresh(own)' /\ RowClaims(own)
    BY NobodyGets
  <2>5. RowsWritten(own) /\ KeepsComments /\ NamesStored
    BY <2>2, <2>4, KeptRows DEF RowsWritten, KeepsComments, NamesStored
  <2>6. FilesOf(own)'
    BY <1>1, <2>1, <2>3, <2>4, <2>5, AnsweredStep
  <2> QED
    BY <2>4, <2>6
<1> QED
  BY <1>2, <1>3

LEMMA CommentSavedFiles ==
    ASSUME Shaped, NEW own, FilesOf(own), NEW r \in Requests, SaveComment(r), UNCHANGED <<material, notice>>
    PROVE  \E new \in [Files -> Owners] : FilesOf(new)'
<1>0. BoardTypeOK
  BY DEF Shaped, TypedInv
<1>1. PICK q : q = req[r] /\ q.op = "createComment" /\ q.on \in Posts
  BY DEF SaveComment, At
<1>2. PICK there : there = post[q.on].there
  OBVIOUS
<1>3. WriteComment(q, there) /\ Reply(r) /\ UNCHANGED <<uploads, lost>>
  BY <1>1, <1>2 DEF SaveComment
<1>4. \A p \in Posts : post'[p].files = post[p].files /\ post'[p].there = post[p].there
  <2>1. PICK status, answered :
          post' = IF there THEN [post EXCEPT ![q.on] = [post[q.on] EXCEPT !.status = status, !.answered = answered]] ELSE post
    <3>1. PICK status, answered : status = (IF FirstAnswer(q) THEN "REGISTERED" ELSE post[q.on].status)
                                  /\ answered = (post[q.on].answered \/ q.role = "STAFF")
      OBVIOUS
    <3>2. post' = IF there THEN [post EXCEPT ![q.on] = [post[q.on] EXCEPT !.status = status, !.answered = answered]] ELSE post
      BY <1>0, <1>1, <1>2, <3>1 DEF SaveComment, BoardTypeOK, PostRow
    <3> QED
      BY <3>2
  <2>2. post[q.on] \in PostRow
    BY <1>0, <1>1 DEF BoardTypeOK
  <2> QED
    BY <1>0, <1>1, <2>1, <2>2 DEF BoardTypeOK, PostRow
<1> QED
  BY <1>1, <1>3, <1>4, CommentWrittenFiles

LEMMA NoticeCommentSavedFiles ==
    ASSUME Shaped, NEW own, FilesOf(own), NEW r \in Requests, SaveNoticeComment(r)
    PROVE  \E new \in [Files -> Owners] : FilesOf(new)'
<1>1. PICK q : q = req[r] /\ q.op = "createComment"
  BY DEF SaveNoticeComment, At
<1>2. PICK there : there = NoticeThere(q.on)
  OBVIOUS
<1>3. WriteComment(q, there) /\ Reply(r) /\ UNCHANGED <<post, uploads, lost, material, notice>>
  BY <1>1, <1>2 DEF SaveNoticeComment, libraryVars
<1> QED
  BY <1>1, <1>3, CommentWrittenFiles

LEMMA CommentDeletedFiles ==
    ASSUME Shaped, NEW own, FilesOf(own), NEW r \in Requests, DeleteComment(r), UNCHANGED <<material, notice>>
    PROVE  FilesOf(own)'
<1>0. BoardTypeOK
  BY DEF Shaped, TypedInv
<1>1. PICK q : q = req[r] /\ q.op = "deleteComment" /\ CallOK(q) /\ CallClaims(own, r, q)
  BY DEF DeleteComment, At, Shaped, TypedInv, Calls, FilesOf
<1>2. TakenOut(q) = q.dropped /\ q.comment \in Comments /\ OwnedBy(own, q.dropped, OfComment(q.comment))
  BY <1>1, CallFiles DEF TakenOut, DropOps, CallClaims
<1>3. comment' = [comment EXCEPT ![q.comment] = DeletedComment] /\ Reply(r) /\ UNCHANGED <<post, stored, uploads, lost>>
  BY <1>1 DEF DeleteComment
<1>4. own \in [Files -> Owners] /\ HandsOver(own, own, r) /\ Fresh(own)' /\ RowClaims(own)
  BY <1>3, NobodyGets
<1>5. /\ comment'[q.comment].files = {} /\ comment'[q.comment].on = None /\ comment'[q.comment].gone
      /\ \A c \in Comments \ {q.comment} : comment'[c] = comment[c]
  BY <1>0, <1>2, <1>3 DEF BoardTypeOK, DeletedComment, NoComment
<1>6. \A c \in Comments : /\ OwnedBy(own, comment'[c].files, OfComment(c))
                          /\ comment'[c].gone => comment'[c].on = None
                          /\ comment'[c].on = None => comment'[c].files = {}
  BY <1>4, <1>5, KeptRows DEF OwnedBy
<1>7. RowsWritten(own)
  BY <1>3, <1>4, <1>6, KeptRows DEF RowsWritten
<1>8. KeepsComments /\ NamesStored
  BY <1>3, <1>5 DEF KeepsComments, NamesStored
<1>9. \A f \in TakenOut(q) : Unnamed(f)'
  BY <1>2, <1>5, <1>7, NamedByOwner DEF OwnedBy
<1> QED
  BY <1>1, <1>3, <1>4, <1>7, <1>8, <1>9, AnsweredStep

LEMMA CommentRowsInserted ==
    ASSUME Shaped, NEW own, FilesOf(own), NEW r \in Requests, InsertCommentRows(r), UNCHANGED <<material, notice>>
    PROVE  \E new \in [Files -> Owners] : FilesOf(new)'
<1>0. BoardTypeOK
  BY DEF Shaped, TypedInv
<1>1. PICK q : q = req[r] /\ q.op = "updateComment" /\ q.step = "insert" /\ CallOK(q) /\ CallClaims(own, r, q)
  BY DEF InsertCommentRows, At, Shaped, TypedInv, Calls, FilesOf
<1>2. Added(q) = q.added /\ TakenOut(q) = q.dropped
  BY <1>1 DEF Added, AddOps, TakenOut, DropOps
<1>3. /\ q.comment \in Comments /\ q.dropped \subseteq Files /\ OwnedBy(own, q.dropped, OfComment(q.comment))
      /\ comment[q.comment].files \cap q.dropped = {} /\ q.dropped \cap stored = {}
  BY <1>1, <1>2, CallFiles DEF CallClaims, EditCommentClaims
<1>4. Reply(r) /\ UNCHANGED <<post, uploads, lost>>
  BY DEF InsertCommentRows
<1>5. CASE Still(q)
  <2>1. comment' = [comment EXCEPT ![q.comment].files = @ \cup NewRows(q)] /\ stored' = stored
    BY <1>1, <1>5 DEF InsertCommentRows
  <2>2. PICK new : new = GivenTo(own, q.added, OfComment(q.comment))
    OBVIOUS
  <2>3. /\ new \in [Files -> Owners] /\ HandsOver(own, new, r) /\ Fresh(new)' /\ RowClaims(new)
        /\ OwnedBy(new, q.added, OfComment(q.comment)) /\ q.added \subseteq stored
        /\ KeepsOthers(own, new, r)
    <3>1. OfComment(q.comment) \in Owners /\ q.added \subseteq Added(req[r]) /\ UNCHANGED uploads
      BY <1>1, <1>2, <1>3, <1>4, OwnersAre
    <3> QED
      BY <2>2, <3>1, RowGets
  <2>4. OwnedBy(new, q.dropped, OfComment(q.comment))
    <3>1. q.dropped \in SUBSET Files
      BY <1>3
    <3> QED
      BY <1>3, <2>3, <3>1, Apart DEF KeepsOthers
  <2>5. /\ \A c \in Comments : comment'[c].on = comment[c].on /\ comment'[c].gone = comment[c].gone
        /\ \A c \in Comments \ {q.comment} : comment'[c].files = comment[c].files
        /\ comment'[q.comment].files = comment[q.comment].files \cup NewRows(q)
        /\ comment[q.comment].on # None
    BY <1>0, <1>3, <1>5, <2>1 DEF Still, BoardTypeOK, CommentRow
  <2>6. NewRows(q) \subseteq q.added
    BY DEF NewRows
  <2>7. \A c \in Comments : /\ OwnedBy(new, comment'[c].files, OfComment(c))
                            /\ comment'[c].gone => comment'[c].on = None
                            /\ comment'[c].on = None => comment'[c].files = {}
    BY <2>3, <2>5, <2>6, KeptRows DEF OwnedBy
  <2>8. RowsWritten(new)
    BY <1>4, <2>3, <2>7, KeptRows DEF RowsWritten
  <2>9. KeepsComments
    BY <2>5 DEF KeepsComments
  <2>10. \A c \in Comments : comment'[c].files \ comment[c].files \subseteq stored
    BY <2>3, <2>5, <2>6
  <2>11. NamesStored
    BY <1>4, <2>1, <2>10 DEF NamesStored
  <2>12. ASSUME NEW f \in TakenOut(q) PROVE Unnamed(f)'
    <3>1. f \notin comment'[q.comment].files
      BY <1>2, <1>3, <2>3, <2>5, <2>6, <2>12
    <3>2. new[f] = OfComment(q.comment)
      BY <1>2, <2>4, <2>12 DEF OwnedBy
    <3> QED
      BY <1>3, <2>8, <3>1, <3>2, NamedByOwner
  <2>13. FilesOf(new)'
    BY <1>1, <1>4, <2>1, <2>3, <2>8, <2>9, <2>11, <2>12, AnsweredStep
  <2> QED
    BY <2>3, <2>13
<1>6. CASE ~Still(q)
  <2>1. PICK removed \in SUBSET q.added : stored' = stored \ removed
    BY <1>1, <1>6 DEF InsertCommentRows, CleanUp
  <2>2. comment' = comment
    BY <1>1, <1>6 DEF InsertCommentRows
  <2>3. \A f \in stored \ stored' : own[f] = OfRequest(r)
    BY <1>1, <1>2, <2>1 DEF CallClaims, OwnedBy
  <2>4. own \in [Files -> Owners] /\ HandsOver(own, own, r) /\ Fresh(own)' /\ RowClaims(own)
    BY <1>4, NobodyGets
  <2>5. RowsWritten(own) /\ KeepsComments /\ NamesStored
    BY <1>4, <2>2, <2>4, KeptRows DEF RowsWritten, KeepsComments, NamesStored
  <2>6. ASSUME NEW f \in TakenOut(q) PROVE Unnamed(f)'
    <3>1. f \notin comment'[q.comment].files /\ own[f] = OfComment(q.comment)
      BY <1>2, <1>3, <2>2, <2>6 DEF OwnedBy
    <3> QED
      BY <1>3, <2>5, <3>1, NamedByOwner
  <2>7. FilesOf(own)'
    BY <1>1, <1>4, <2>1, <2>3, <2>4, <2>5, <2>6, AnsweredStep
  <2> QED
    BY <2>4, <2>7
<1> QED
  BY <1>5, <1>6

LEMMA MaterialCreatedFiles ==
    ASSUME Shaped, NEW own, FilesOf(own), NEW r \in Requests, CreateMaterial(r)
    PROVE  \E new \in [Files -> Owners] : FilesOf(new)'
<1>1. PICK q : q = req[r] /\ q.op = "uploadMaterial"
  BY DEF CreateMaterial, At
<1>2. Added(q) = q.added /\ TakenOut(q) = {}
  BY <1>1 DEF Added, AddOps, TakenOut, DropOps
<1>3. PICK m \in Materials : material' = [material EXCEPT ![m] = [state |-> "there", files |-> q.added]]
  BY <1>1 DEF CreateMaterial
<1>4. Reply(r) /\ UNCHANGED <<post, comment, stored, uploads, lost, notice>>
  BY DEF CreateMaterial, boardVars
<1>5. PICK new : new = GivenTo(own, q.added, OfMaterial(m))
  OBVIOUS
<1>6. /\ new \in [Files -> Owners] /\ HandsOver(own, new, r) /\ Fresh(new)' /\ RowClaims(new)
      /\ OwnedBy(new, q.added, OfMaterial(m)) /\ q.added \subseteq stored
  BY <1>1, <1>2, <1>4, <1>5, OwnersAre, RowGets
<1>7. material'[m].files = q.added /\ \A n \in Materials \ {m} : material'[n] = material[n]
  BY <1>3 DEF Shaped, TypedInv, LibraryTypeOK
<1>8. RowsWritten(new)
  BY <1>4, <1>6, <1>7, KeptRows DEF RowsWritten
<1>9. KeepsComments /\ NamesStored
  BY <1>4, <1>6, <1>7 DEF KeepsComments, NamesStored
<1>10. FilesOf(new)'
  BY <1>1, <1>2, <1>4, <1>6, <1>8, <1>9, AnsweredStep
<1> QED
  BY <1>6, <1>10

LEMMA MaterialSavedFiles ==
    ASSUME Shaped, NEW own, FilesOf(own), NEW r \in Requests, SaveMaterial(r)
    PROVE  \E new \in [Files -> Owners] : FilesOf(new)'
<1>0. LibraryTypeOK
  BY DEF Shaped, TypedInv
<1>1. PICK q : q = req[r] /\ q.op = "updateMaterial" /\ CallOK(q) /\ CallClaims(own, r, q)
  BY DEF SaveMaterial, At, Shaped, TypedInv, Calls, FilesOf
<1>2. Added(q) = q.added /\ TakenOut(q) = q.dropped
  BY <1>1 DEF Added, AddOps, TakenOut, DropOps
<1>3. /\ q.material \in Materials /\ q.old \subseteq Files /\ q.dropped \subseteq Files /\ q.dropped \cap stored = {}
      /\ OwnedBy(own, q.old \cup q.dropped, OfMaterial(q.material)) /\ (~q.uploads => q.dropped = {})
  BY <1>1, <1>2, CallFiles DEF CallClaims
<1>4. Reply(r) /\ UNCHANGED <<post, comment, stored, uploads, notice>>
  BY DEF SaveMaterial
<1>5. lost \subseteq lost'
  BY DEF SaveMaterial
<1>6. own \in [Files -> Owners] /\ HandsOver(own, own, r) /\ Fresh(own)' /\ RowClaims(own)
  BY <1>4, NobodyGets
<1>7. CASE q.material \notin Live
  <2>1. material' = material /\ lost' = lost \cup q.dropped
    BY <1>1, <1>7 DEF SaveMaterial
  <2>2. RowsWritten(own) /\ KeepsComments /\ NamesStored
    BY <1>4, <1>6, <2>1, KeptRows DEF RowsWritten, KeepsComments, NamesStored
  <2>3. FilesOf(own)'
    BY <1>1, <1>2, <1>4, <1>6, <2>1, <2>2, AnsweredStep
  <2> QED
    BY <1>6, <2>3
<1>8. CASE q.material \in Live /\ q.uploads
  <2>1. material' = [material EXCEPT ![q.material].files = q.added] /\ lost' = lost
    BY <1>1, <1>8 DEF SaveMaterial, NewLink
  <2>2. PICK new : new = GivenTo(own, q.added, OfMaterial(q.material))
    OBVIOUS
  <2>3. /\ new \in [Files -> Owners] /\ HandsOver(own, new, r) /\ Fresh(new)' /\ RowClaims(new)
        /\ OwnedBy(new, q.added, OfMaterial(q.material)) /\ q.added \subseteq stored
        /\ KeepsOthers(own, new, r)
    <3>1. OfMaterial(q.material) \in Owners /\ q.added \subseteq Added(req[r]) /\ UNCHANGED uploads
      BY <1>1, <1>2, <1>3, <1>4, OwnersAre
    <3> QED
      BY <2>2, <3>1, RowGets
  <2>4. material'[q.material].files = q.added /\ \A m \in Materials \ {q.material} : material'[m] = material[m]
    BY <1>0, <1>3, <2>1 DEF LibraryTypeOK, MaterialRow
  <2>5. RowsWritten(new)
    BY <1>4, <2>3, <2>4, KeptRows DEF RowsWritten
  <2>6. KeepsComments /\ NamesStored
    BY <1>4, <2>3, <2>4 DEF KeepsComments, NamesStored
  <2>7. OwnedBy(new, q.dropped, OfMaterial(q.material))
    <3>1. q.dropped \in SUBSET Files /\ OwnedBy(own, q.dropped, OfMaterial(q.material))
      BY <1>3 DEF OwnedBy
    <3> QED
      BY <2>3, <3>1, Apart DEF KeepsOthers
  <2>8. ASSUME NEW f \in TakenOut(q) PROVE Unnamed(f)'
    <3>1. new[f] = OfMaterial(q.material) /\ f \notin material'[q.material].files
      BY <1>2, <1>3, <2>3, <2>4, <2>7, <2>8 DEF OwnedBy
    <3> QED
      BY <1>3, <2>5, <3>1, NamedByOwner
  <2>9. FilesOf(new)'
    BY <1>1, <1>4, <1>5, <2>3, <2>5, <2>6, <2>8, AnsweredStep
  <2> QED
    BY <2>3, <2>9
<1>9. CASE q.material \in Live /\ ~q.uploads
  <2>1. material' = [material EXCEPT ![q.material].files = q.old] /\ lost' = lost \cup (q.old \ stored)
    BY <1>1, <1>9 DEF SaveMaterial, NewLink
  <2>2. material'[q.material].files = q.old /\ \A m \in Materials \ {q.material} : material'[m] = material[m]
    BY <1>0, <1>3, <2>1 DEF LibraryTypeOK, MaterialRow
  <2>3. OwnedBy(own, q.old, OfMaterial(q.material))
    BY <1>3 DEF OwnedBy
  <2>4. RowsWritten(own)
    BY <1>4, <1>6, <2>2, <2>3, KeptRows DEF RowsWritten
  <2>5. KeepsComments /\ NamesStored
    BY <1>4, <2>1, <2>2 DEF KeepsComments, NamesStored
  <2>6. TakenOut(q) = {}
    BY <1>2, <1>3, <1>9
  <2>7. FilesOf(own)'
    BY <1>1, <1>4, <1>5, <1>6, <2>4, <2>5, <2>6, AnsweredStep
  <2> QED
    BY <1>6, <2>7
<1> QED
  BY <1>7, <1>8, <1>9

LEMMA NoticeCreatedFiles ==
    ASSUME Shaped, NEW own, FilesOf(own), NEW r \in Requests, CreateNotice(r)
    PROVE  \E new \in [Files -> Owners] : FilesOf(new)'
<1>1. PICK q : q = req[r] /\ q.op = "createNotice"
  BY DEF CreateNotice, At
<1>2. Added(q) = q.added /\ TakenOut(q) = {}
  BY <1>1 DEF Added, AddOps, TakenOut, DropOps
<1>3. PICK n \in Notices :
        notice' = [notice EXCEPT ![n] = [NoNotice EXCEPT !.state = "there", !.scope = q.scope, !.lecture = q.lecture,
                                         !.targets = q.targets, !.materials = q.materials, !.files = q.added]]
  BY <1>1 DEF CreateNotice
<1>4. Reply(r) /\ UNCHANGED <<post, comment, stored, uploads, lost, material>>
  BY DEF CreateNotice, boardVars
<1>5. PICK new : new = GivenTo(own, q.added, OfNotice(n))
  OBVIOUS
<1>6. /\ new \in [Files -> Owners] /\ HandsOver(own, new, r) /\ Fresh(new)' /\ RowClaims(new)
      /\ OwnedBy(new, q.added, OfNotice(n)) /\ q.added \subseteq stored
  BY <1>1, <1>2, <1>4, <1>5, OwnersAre, RowGets
<1>7. notice'[n].files = q.added /\ \A m \in Notices \ {n} : notice'[m] = notice[m]
  BY <1>3 DEF Shaped, TypedInv, LibraryTypeOK, NoNotice
<1>8. RowsWritten(new)
  BY <1>4, <1>6, <1>7, KeptRows DEF RowsWritten
<1>9. KeepsComments /\ NamesStored
  BY <1>4, <1>6, <1>7 DEF KeepsComments, NamesStored
<1>10. FilesOf(new)'
  BY <1>1, <1>2, <1>4, <1>6, <1>8, <1>9, AnsweredStep
<1> QED
  BY <1>6, <1>10

LEMMA NoticeSavedFiles ==
    ASSUME Shaped, NEW own, FilesOf(own), NEW r \in Requests, SaveNotice(r)
    PROVE  \E new \in [Files -> Owners] : FilesOf(new)'
<1>0. LibraryTypeOK
  BY DEF Shaped, TypedInv
<1>1. PICK q : q = req[r] /\ q.op = "updateNotice" /\ CallOK(q) /\ CallClaims(own, r, q)
  BY DEF SaveNotice, At, Shaped, TypedInv, Calls, FilesOf
<1>2. Added(q) = q.added /\ TakenOut(q) = {}
  BY <1>1 DEF Added, AddOps, TakenOut, DropOps
<1>3. /\ q \in EditNoticeCall /\ q.notice \in Notices /\ q.edit.kept \in SUBSET Files
      /\ OwnedBy(own, q.edit.kept, OfNotice(q.notice)) /\ q.edit.kept \subseteq stored
  BY <1>1, CallFiles DEF CallClaims, CallOK, LibraryCallOK
<1>4. Reply(r) /\ UNCHANGED <<post, comment, stored, uploads, lost, material>>
  BY DEF SaveNotice, boardVars
<1>5. PICK new : new = GivenTo(own, q.added, OfNotice(q.notice))
  OBVIOUS
<1>6. /\ new \in [Files -> Owners] /\ HandsOver(own, new, r) /\ Fresh(new)' /\ RowClaims(new)
      /\ OwnedBy(new, q.added, OfNotice(q.notice)) /\ q.added \subseteq stored
      /\ KeepsOthers(own, new, r)
  <2>1. OfNotice(q.notice) \in Owners /\ q.added \subseteq Added(req[r]) /\ UNCHANGED uploads
    BY <1>1, <1>2, <1>3, <1>4, OwnersAre
  <2> QED
    BY <1>5, <2>1, RowGets
<1>7. OwnedBy(new, q.edit.kept, OfNotice(q.notice))
  BY <1>3, <1>6, Apart DEF KeepsOthers
<1>8. PICK row \in NoticeRow : row = notice[q.notice]
  BY <1>0, <1>3 DEF LibraryTypeOK
<1>9. PICK edited : edited = EditedNotice(q, row)
  OBVIOUS
<1>10. edited.files \subseteq row.files \cup q.edit.kept \cup q.added
  <2>1. edited.files = IF q.edit.materials # {} \/ q.edit.kept \cup q.added # {} THEN q.edit.kept \cup q.added ELSE row.files
    BY <1>3, <1>8, <1>9, NoticeEdited
  <2> QED
    BY <2>1
<1>11. notice' = IF NoticeThere(q.notice) THEN [notice EXCEPT ![q.notice] = edited] ELSE notice
  BY <1>0, <1>1, <1>3, <1>8, <1>9 DEF SaveNotice, LibraryTypeOK
<1>12. /\ notice'[q.notice].files \subseteq notice[q.notice].files \cup q.edit.kept \cup q.added
       /\ \A n \in Notices \ {q.notice} : notice'[n] = notice[n]
  BY <1>0, <1>3, <1>8, <1>10, <1>11 DEF LibraryTypeOK
<1>13. \A n \in Notices : OwnedBy(new, notice'[n].files, OfNotice(n))
  BY <1>6, <1>7, <1>12, KeptRows DEF OwnedBy
<1>14. RowsWritten(new)
  BY <1>4, <1>6, <1>13, KeptRows DEF RowsWritten
<1>15. \A n \in Notices : notice'[n].files \ notice[n].files \subseteq stored
  BY <1>3, <1>6, <1>12
<1>16. KeepsComments /\ NamesStored
  BY <1>4, <1>15 DEF KeepsComments, NamesStored
<1>17. FilesOf(new)'
  BY <1>1, <1>2, <1>4, <1>6, <1>14, <1>16, AnsweredStep
<1> QED
  BY <1>6, <1>17

-----------------------------------------------------------------------------
(***************************************************************************)
(* FilesInv: steps that upload, remove and name nothing.                   *)
(***************************************************************************)
LEMMA ElsewhereAnswered ==
    ASSUME Shaped, NEW own, FilesOf(own), NEW r \in Requests, Reply(r), RowsShrink, req[r].op \notin FileOps PROVE FilesOf(own)'
<1>1. \A s \in Requests : req'[s] = req[s] \/ (req[s].op \notin FileOps /\ req'[s].op \notin FileOps)
  BY IdleIsNoFileOp DEF Reply, Proceed, Shaped, RequestsOK
<1> QED
  BY <1>1, ElsewhereStep DEF Shaped, TypedInv

LEMMA ElsewhereServed ==
    ASSUME Shaped, NEW own, FilesOf(own), NEW op, Serve(op), RowsShrink PROVE FilesOf(own)'
<1>1. \A s \in Requests : req'[s] = req[s]
  BY DEF Serve
<1> QED
  BY <1>1, ElsewhereStep DEF Shaped, TypedInv

LEMMA StatusSavedFiles ==
    ASSUME Shaped, NEW own, FilesOf(own), NEW r \in Requests, SaveStatus(r), UNCHANGED <<material, notice>> PROVE FilesOf(own)'
<1>1. PICK q : q = req[r] /\ q.op = "updateStatus" /\ CallOK(q)
  BY DEF SaveStatus, At, Shaped, TypedInv, Calls
<1>2. q.post \in Posts /\ q.op \notin FileOps /\ BoardTypeOK
  BY <1>1 DEF CallOK, BoardCallOK, StatusCall, FileOps, AddOps, DropOps, Shaped, TypedInv
<1>3. /\ post' = IF post[q.post].there THEN [post EXCEPT ![q.post].status = q.status] ELSE post
      /\ Reply(r) /\ UNCHANGED <<comment, stored, uploads, lost>>
  BY <1>1 DEF SaveStatus
<1>4. \A p \in Posts : post'[p].files = post[p].files /\ post'[p].there = post[p].there
  BY <1>2, <1>3 DEF BoardTypeOK, PostRow
<1>5. RowsShrink
  BY <1>3, <1>4 DEF FilesOf, RowClaims, RowsShrink, KeepsComments
<1> QED
  BY <1>1, <1>2, <1>3, <1>5, ElsewhereAnswered

LEMMA OrdersElsewhere ==
    ASSUME Shaped, NEW own, FilesOf(own),
           \/ \E r \in Requests : CreateOrder(r) \/ SaveOrder(r)
           \/ UpdateOrderStatus \/ DeleteOrder \/ DeleteMaterial \/ DeleteNotice
    PROVE  FilesOf(own)'
<1>0. BoardTypeOK /\ LibraryTypeOK /\ RowClaims(own)
  BY DEF Shaped, TypedInv, FilesOf
<1>1. ASSUME RowsStay PROVE RowsShrink
  BY <1>0, <1>1, StayingShrinks
<1>2. ASSUME NEW r \in Requests, CreateOrder(r) \/ SaveOrder(r) PROVE FilesOf(own)'
  <2>1. RowsStay /\ Reply(r)
    BY <1>2 DEF CreateOrder, SaveOrder, RowsStay, boardVars
  <2>2. req[r].op \notin FileOps
    BY <1>2 DEF CreateOrder, SaveOrder, At, FileOps, AddOps, DropOps
  <2> QED
    BY <1>1, <2>1, <2>2, ElsewhereAnswered
<1>3. CASE UpdateOrderStatus \/ DeleteOrder
  <2>1. RowsStay /\ \E op : Serve(op)
    BY <1>3 DEF UpdateOrderStatus, DeleteOrder, RowsStay, boardVars
  <2> QED
    BY <1>1, <2>1, ElsewhereServed
<1>4. CASE DeleteMaterial
  <2>1. UNCHANGED <<post, comment, stored, uploads, lost, notice>> /\ Serve("deleteMaterial")
    BY <1>4 DEF DeleteMaterial, boardVars
  <2>2. \A m \in Materials : material'[m].files = material[m].files
    BY <1>0, <1>4 DEF DeleteMaterial, LibraryTypeOK, MaterialRow
  <2>3. RowsShrink
    BY <1>0, <2>1, <2>2 DEF RowClaims, RowsShrink, KeepsComments
  <2> QED
    BY <2>1, <2>3, ElsewhereServed
<1>5. CASE DeleteNotice
  <2>1. UNCHANGED <<post, stored, uploads, lost, material>> /\ Serve("deleteNotice")
    BY <1>5 DEF DeleteNotice
  <2>2. PICK n \in Notices :
          /\ notice' = [notice EXCEPT ![n] = [NoNotice EXCEPT !.state = "deleted"]]
          /\ comment' = [c \in Comments |-> IF comment[c].on = n THEN DeletedComment ELSE comment[c]]
    BY <1>5 DEF DeleteNotice
  <2>3. \A m \in Notices : notice'[m].files \subseteq notice[m].files
    BY <1>0, <2>2 DEF LibraryTypeOK, NoNotice
  <2>4. \A c \in Comments : \/ comment'[c] = comment[c]
                            \/ comment'[c].on = None /\ comment'[c].files = {} /\ comment'[c].gone
    BY <2>2 DEF DeletedComment, NoComment
  <2>5. KeepsComments
    BY <2>4 DEF KeepsComments
  <2>6. RowsShrink
    BY <1>0, <2>1, <2>3, <2>4, <2>5 DEF RowClaims, RowsShrink
  <2> QED
    BY <2>1, <2>6, ElsewhereServed
<1> QED
  BY <1>2, <1>3, <1>4, <1>5

LEMMA BoardFiles ==
    ASSUME Shaped, NEW own, FilesOf(own), NEW r \in Requests, UNCHANGED libraryVars,
           \/ BeginPost(r) \/ SavePost(r) \/ BeginStatus(r) \/ SaveStatus(r)
           \/ BeginEditPost(r) \/ DropOldFiles(r) \/ ClearAttachments(r) \/ InsertAttachments(r)
           \/ BeginDeletePost(r) \/ DropPostFiles(r) \/ DeletePost(r)
           \/ BeginComment(r) \/ SaveComment(r)
           \/ BeginDeleteComment(r) \/ BeginEditComment(r) \/ DropCommentFiles(r) \/ DeleteComment(r)
           \/ ClearCommentRows(r) \/ InsertCommentRows(r)
           \/ UploadOf(r)
    PROVE  \E new \in [Files -> Owners] : FilesOf(new)'
<1>0. UNCHANGED <<material, notice>> /\ own \in [Files -> Owners]
  BY DEF libraryVars, FilesOf
<1>1. ASSUME \/ BeginPost(r) \/ BeginStatus(r) \/ BeginEditPost(r) \/ BeginDeletePost(r)
             \/ BeginComment(r) \/ BeginDeleteComment(r) \/ BeginEditComment(r)
      PROVE  FilesOf(own)'
  <2>1. RowsStay
    BY <1>0, <1>1 DEF BeginPost, BeginStatus, BeginEditPost, BeginDeletePost, BeginComment, BeginDeleteComment,
       BeginEditComment, RowsStay, boardVars
  <2> QED
    BY <1>1, <2>1, BoardBegun
<1>2. ASSUME UploadOf(r) PROVE \E new \in [Files -> Owners] : FilesOf(new)'
  <2>1. PICK next : /\ Upload(r, next) /\ next \in {"drop", "clear", "save"} /\ req[r].op \in AddOps
                    /\ next = "drop" => req[r].op # "updateComment"
    BY <1>2 DEF UploadOf, AddOps
  <2> QED
    BY <1>0, <2>1, UploadStep
<1>3. ASSUME \/ SaveStatus(r) \/ DropOldFiles(r) \/ ClearAttachments(r) \/ DropPostFiles(r) \/ DeletePost(r)
             \/ DropCommentFiles(r) \/ DeleteComment(r) \/ ClearCommentRows(r)
      PROVE  FilesOf(own)'
  BY <1>0, <1>3, StatusSavedFiles, OldFilesDropped, AttachmentsCleared, PostFilesDropped, PostDeletedFiles,
     CommentFilesDropped, CommentDeletedFiles, CommentRowsCleared
<1>4. ASSUME SavePost(r) \/ InsertAttachments(r) \/ SaveComment(r) \/ InsertCommentRows(r)
      PROVE  \E new \in [Files -> Owners] : FilesOf(new)'
  BY <1>0, <1>4, PostSavedFiles, AttachmentsInserted, CommentSavedFiles, CommentRowsInserted
<1> QED
  BY <1>0, <1>1, <1>2, <1>3, <1>4

LEMMA LibraryFiles ==
    ASSUME Shaped, NEW own, FilesOf(own), LibraryNext PROVE \E new \in [Files -> Owners] : FilesOf(new)'
<1>0. own \in [Files -> Owners]
  BY DEF FilesOf
<1>1. ASSUME NEW r \in Requests,
             \/ BeginUploadMaterial(r) \/ BeginEditMaterial(r) \/ BeginOrder(r) \/ BeginEditOrder(r)
             \/ BeginNotice(r) \/ BeginEditNotice(r) \/ BeginNoticeComment(r)
      PROVE  FilesOf(own)'
  <2>1. RowsStay
    BY <1>1 DEF BeginUploadMaterial, BeginEditMaterial, BeginOrder, BeginEditOrder, BeginNotice, BeginEditNotice,
       BeginNoticeComment, RowsStay, boardVars, libraryVars
  <2> QED
    BY <1>1, <2>1, LibraryBegun
<1>2. ASSUME NEW r \in Requests, UploadToLibrary(r) PROVE \E new \in [Files -> Owners] : FilesOf(new)'
  <2>1. UNCHANGED <<material, notice>>
    BY <1>2 DEF UploadToLibrary, libraryVars
  <2>2. PICK next : /\ Upload(r, next) /\ next \in {"drop", "clear", "save"} /\ req[r].op \in AddOps
                    /\ next = "drop" => req[r].op # "updateComment"
    BY <1>2 DEF UploadToLibrary, AddOps
  <2> QED
    BY <2>1, <2>2, UploadStep
<1>3. ASSUME NEW r \in Requests, DropOldMaterial(r) PROVE FilesOf(own)'
  BY <1>3, OldMaterialDropped
<1>4. ASSUME NEW r \in Requests,
             CreateMaterial(r) \/ SaveMaterial(r) \/ CreateNotice(r) \/ SaveNotice(r) \/ SaveNoticeComment(r)
      PROVE  \E new \in [Files -> Owners] : FilesOf(new)'
  BY <1>4, MaterialCreatedFiles, MaterialSavedFiles, NoticeCreatedFiles, NoticeSavedFiles, NoticeCommentSavedFiles
<1>5. ASSUME \/ \E r \in Requests : CreateOrder(r) \/ SaveOrder(r)
             \/ UpdateOrderStatus \/ DeleteOrder \/ DeleteMaterial \/ DeleteNotice
      PROVE  FilesOf(own)'
  BY <1>5, OrdersElsewhere
<1> QED
  BY <1>0, <1>1, <1>2, <1>3, <1>4, <1>5 DEF LibraryNext

\* A request that dies leaves what it has removed among the lost files, and what it has uploaded to nobody else.
LEMMA AbortedFiles ==
    ASSUME Shaped, NEW own, FilesOf(own), NEW r \in Requests, BoardAbort(r), UNCHANGED libraryVars PROVE FilesOf(own)'
<1>1. /\ Reply(r) /\ lost' = lost \cup TakenOut(req[r]) /\ UNCHANGED <<post, comment, material, notice, stored, uploads>>
  BY TakenOutDropped DEF BoardAbort, Abort, Shaped, TypedInv, libraryVars
<1>2. own \in [Files -> Owners] /\ HandsOver(own, own, r) /\ Fresh(own)' /\ RowClaims(own)
  BY <1>1, NobodyGets
<1>3. RowsWritten(own) /\ KeepsComments /\ NamesStored
  BY <1>1, <1>2, KeptRows DEF RowsWritten, KeepsComments, NamesStored
<1> QED
  BY <1>1, <1>2, <1>3, AnsweredStep

LEMMA FilesNext == ASSUME IInv, RosterInv, TypedInv, FilesInv, [Next]_vars PROVE FilesInv'
<1>0. Shaped
  BY TypedNext, NextInv DEF Shaped, IInv
<1>1. PICK own \in [Files -> Owners] : FilesOf(own)
  BY DEF FilesInv
<1>2. Calls
  BY DEF TypedInv
<1>3. ASSUME UNCHANGED <<boardVars, libraryVars>> PROVE RowsShrink
  <2>1. RowsStay
    BY <1>3 DEF RowsStay, boardVars, libraryVars
  <2> QED
    BY <1>1, <2>1, StayingShrinks DEF FilesOf
<1>4. CASE AccountsNext /\ UNCHANGED <<boardVars, libraryVars>>
  <2>1. AccountOps \cap FileOps = {}
    BY DEF AccountOps, StaffOps, AdminOps, FileOps, AddOps, DropOps
  <2>2. FilesOf(own)'
    BY <1>0, <1>1, <1>2, <1>3, <1>4, <2>1, AccountsFrames, MovedElsewhere DEF Shaped
  <2> QED
    BY <1>1, <2>2 DEF FilesInv
<1>5. CASE RosterNext /\ UNCHANGED <<boardVars, libraryVars>>
  <2>1. RosterOps \cap FileOps = {}
    BY DEF RosterOps, FileOps, AddOps, DropOps
  <2>2. FilesOf(own)'
    BY <1>0, <1>1, <1>2, <1>3, <1>5, <2>1, RosterFrames, MovedElsewhere DEF Shaped
  <2> QED
    BY <1>1, <2>2 DEF FilesInv
<1>6. CASE BoardNext /\ UNCHANGED libraryVars
  <2>1. \E new \in [Files -> Owners] : FilesOf(new)'
    BY <1>0, <1>1, <1>6, BoardFiles DEF BoardNext
  <2> QED
    BY <2>1 DEF FilesInv
<1>7. CASE LibraryNext
  <2>1. \E new \in [Files -> Owners] : FilesOf(new)'
    BY <1>0, <1>1, <1>7, LibraryFiles
  <2> QED
    BY <2>1 DEF FilesInv
<1>8. CASE PlannerNext /\ UNCHANGED <<boardVars, libraryVars>>
  <2>1. PlannerOps \cap FileOps = {}
    BY DEF PlannerOps, FileOps, AddOps, DropOps
  <2>2. FilesOf(own)'
    BY <1>0, <1>1, <1>2, <1>3, <1>8, <2>1, PlannerFrames, MovedElsewhere DEF Shaped
  <2> QED
    BY <1>1, <2>2 DEF FilesInv
<1>9. ASSUME NEW r \in Requests, BoardAbort(r), UNCHANGED libraryVars PROVE FilesInv'
  <2>1. FilesOf(own)'
    BY <1>0, <1>1, <1>9, AbortedFiles
  <2> QED
    BY <1>1, <2>1 DEF FilesInv
<1>10. CASE UNCHANGED vars
  <2>1. UNCHANGED <<boardVars, libraryVars>> /\ \A s \in Requests : req'[s] = req[s]
    BY <1>10 DEF vars, serverVars
  <2>2. FilesOf(own)'
    BY <1>1, <1>2, <1>3, <2>1, ElsewhereStep
  <2> QED
    BY <1>1, <2>2 DEF FilesInv
<1> QED
  BY <1>4, <1>5, <1>6, <1>7, <1>8, <1>9, <1>10 DEF Next

LEMMA FilesStarts == ASSUME Init PROVE FilesInv
<1>1. PICK own : own = [f \in Files |-> Nobody]
  OBVIOUS
<1>2. own \in [Files -> Owners] /\ \A f \in Files : own[f] = Nobody
  BY <1>1, OwnersAre
<1>3. Fresh(own)
  BY <1>2 DEF Fresh
<1>4. RowClaims(own) /\ RowsStored
  BY DEF Init, BoardInit, LibraryInit, RowClaims, RowsStored, OwnedBy, NoPost, NoComment, NoMaterial, NoNotice
<1>5. \A r \in Requests : CallClaims(own, r, req[r])
  BY NoClaims, IdleIsNoFileOp DEF Init, ServerInit
<1> QED
  BY <1>2, <1>3, <1>4, <1>5 DEF FilesInv, FilesOf

LEMMA FilesInvariance == Spec => []FilesInv
<1>1. IInv /\ RosterInv /\ TypedInv /\ FilesInv /\ [Next]_vars => FilesInv'
  BY FilesNext
<1> QED
  BY <1>1, FilesStarts, Invariance, RosterInvariance, TypedInvariance, PTL DEF Spec

\* A file that a row of the board or of the library names is in S3, unless a request is just removing it, died
\* in between, found its row gone or named it again after it was removed: no request takes a file that another
\* row than its own names, however uploads, edits and deletions interleave and whichever of them die
\* (updatePost, deletePost, updateComment, deleteComment, updateMaterial, deleteMaterial, createOrder).
THEOREM FilesAreStored == Spec => []FilesStored
<1>1. IInv /\ TypedInv /\ FilesInv => FilesStored
  <2> SUFFICES ASSUME IInv, TypedInv, FilesInv PROVE FilesStored
    OBVIOUS
  <2>1. RequestsOK /\ Calls /\ RowsStored
    BY DEF IInv, TypedInv, FilesInv, FilesOf
  <2>2. lost \cup UNION {Dropped(r) : r \in Requests} = Missing
    <3>1. \A r \in Requests : Dropped(r) = TakenOut(req[r])
      BY <2>1, TakenOutDropped
    <3>2. {Dropped(r) : r \in Requests} = {TakenOut(req[r]) : r \in Requests}
      BY <3>1
    <3> QED
      BY <3>2 DEF Missing
  <2>3. AttachmentsStored
    BY <2>1, <2>2 DEF AttachmentsStored, RowsStored
  <2>4. ASSUME NEW o \in Orders, NEW c \in order[o].copies, material[c.of].files = c.files
        PROVE  c.files \subseteq stored \cup Missing
    <3>1. c \in Copy
      BY DEF TypedInv, LibraryTypeOK, OrderRow
    <3>2. c.of \in Materials
      BY <3>1 DEF Copy
    <3> QED
      BY <2>1, <2>4, <3>2 DEF RowsStored
  <2>5. LibraryStored
    BY <2>1, <2>2, <2>4 DEF LibraryStored, RowsStored
  <2> QED
    BY <2>3, <2>5 DEF FilesStored
<1> QED
  BY <1>1, Invariance, TypedInvariance, FilesInvariance, PTL
=============================================================================
