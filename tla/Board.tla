------------------------------- MODULE Board -------------------------------
(***************************************************************************)
(* StudentPostsService, CommentsService and FileStorageService: questions  *)
(* that students and parents ask in a lecture, the comments on them and on *)
(* announcements, and the files attached to all.  Files live in S3, rows   *)
(* in the database: no transaction spans the two.                          *)
(***************************************************************************)
EXTENDS Roster

CONSTANTS
    Posts,      \* questions, a finite supply
    Notices,    \* announcements, a finite supply
    Comments,   \* comments, a finite supply
    MaxFiles    \* how many files are uploaded at most

ASSUME BoardAssumption ==
    /\ MaxFiles \in Nat
    /\ IsFiniteSet(Posts) /\ Posts \cap Notices = {} /\ None \notin Posts \cup Notices

VARIABLES
    post,       \* questions
    comment,    \* comments on questions and announcements
    stored,     \* files in S3
    uploads,    \* files uploaded so far: their keys are drawn anew
    lost        \* history: files removed from S3 by a request that died or found its row gone, or named again since

boardVars == <<post, comment, stored, uploads, lost>>

Files == 1..MaxFiles
\* `answered` is history: the instructor or an assistant commented at some time.
PostRow == [there: BOOLEAN, status: {"BEFORE", "REGISTERED", "COMPLETED"}, of: Enrollments \cup {None},
            role: {"STUDENT", "PARENT"}, files: SUBSET Files, answered: BOOLEAN]
NoPost == [there |-> FALSE, status |-> "BEFORE", of |-> None, role |-> "STUDENT", files |-> {}, answered |-> FALSE]
Roles == {"STUDENT", "PARENT", "STAFF"}
\* `by` is the enrollment through which a student or a parent comments.
CommentRow == [on: Posts \cup Notices \cup {None}, by: Enrollments \cup {None}, role: Roles, files: SUBSET Files,
               gone: BOOLEAN]
NoComment == [on |-> None, by |-> None, role |-> "STAFF", files |-> {}, gone |-> FALSE]
DeletedComment == [NoComment EXCEPT !.gone = TRUE]

BoardTypeOK ==
    /\ post \in [Posts -> PostRow] /\ comment \in [Comments -> CommentRow]
    /\ stored \subseteq Files /\ uploads \in 0..MaxFiles /\ lost \subseteq Files

BoardInit ==
    /\ post = [p \in Posts |-> NoPost] /\ comment = [c \in Comments |-> NoComment]
    /\ stored = {} /\ uploads = 0 /\ lost = {}

On(p) == {c \in Comments : comment[c].on = p}
FilesOn(p) == UNION {comment[c].files : c \in On(p)}

\* The abilities of a student's or a parent's active enrollments.
Reaches(e, role) ==
    LET row == enrollment[e] IN
    /\ row.status = "ACTIVE" /\ ~row.deleted
    /\ IF role = "STUDENT" THEN row.student # None ELSE row.link # NoLink

\* A student's seat is found by the student, a parent's by the child's phone number.
Seated(l, e, role) ==
    /\ lectures[l] = "there" /\ <<l, e>> \in seats
    /\ role = "PARENT" => enrollment[e].link # NoLink /\ enrollment[e].link.child = enrollment[e].phone

\* Files that the request has removed from S3 and that rows may still name.
Dropped(r) == IF "dropped" \in DOMAIN req[r] THEN req[r].dropped ELSE {}

\* uploadAttachments, of at most one file.
Upload(r, next) ==
    /\ req[r].step = "upload" /\ "uploads" \in DOMAIN req[r]
    /\ IF req[r].uploads
       THEN /\ uploads < MaxFiles
            /\ uploads' = uploads + 1
            /\ stored' = stored \cup {uploads'}
            /\ Proceed(r, [req[r] EXCEPT !.step = next, !.added = {uploads'}])
       ELSE UNCHANGED <<uploads, stored>> /\ Proceed(r, [req[r] EXCEPT !.step = next])
    /\ UNCHANGED <<post, comment, lost>>

\* delete, file by file: S3's refusal of one is logged and changes nothing else.
Drop(r, files, next) ==
    \E removed \in SUBSET files :
      /\ stored' = stored \ removed
      /\ Proceed(r, [req[r] EXCEPT !.step = next, !.dropped = @ \cup removed])

\* cleanup, of what the request has uploaded for rows that were not written.
CleanUp(q) == \E removed \in SUBSET q.added : stored' = stored \ removed

(***************************************************************************)
(* createPost.                                                             *)
(***************************************************************************)
BeginPost(r) ==
    /\ \E l \in LectureIds, e \in There, role \in {"STUDENT", "PARENT"}, up \in BOOLEAN :
         /\ Seated(l, e, role) /\ Reaches(e, role)
         /\ Begin(r, "createPost", [op |-> "createPost", step |-> "upload", of |-> e, role |-> role, uploads |-> up,
                                    added |-> {}])
    /\ UNCHANGED boardVars

SavePost(r) ==
    LET q == req[r] IN
    /\ At(r, "createPost", "save")
    /\ \E p \in Posts :
         /\ post[p].of = None
         /\ post' = [post EXCEPT ![p] = [NoPost EXCEPT !.there = TRUE, !.of = q.of, !.role = q.role, !.files = q.added]]
    /\ Reply(r)
    /\ UNCHANGED <<comment, stored, uploads, lost>>

Mine(p) == post[p].there /\ Reaches(post[p].of, post[p].role)

(***************************************************************************)
(* updateStatus: the asker takes the answer as the solution, or back.      *)
(***************************************************************************)
Commented(p) == On(p) # {}
Closable(p) == On(p) # {} /\ post[p].status # "BEFORE"

BeginStatus(r) ==
    /\ \E p \in Posts, status \in {"REGISTERED", "COMPLETED"} :
         /\ Mine(p) /\ Closable(p)
         /\ Begin(r, "updateStatus", [op |-> "updateStatus", step |-> "save", post |-> p, status |-> status])
    /\ UNCHANGED boardVars

SaveStatus(r) ==
    LET q == req[r] IN
    /\ At(r, "updateStatus", "save")
    /\ post' = IF post[q.post].there THEN [post EXCEPT ![q.post].status = q.status] ELSE post
    /\ Reply(r)
    /\ UNCHANGED <<comment, stored, uploads, lost>>

(***************************************************************************)
(* updatePost: files are uploaded, the old ones removed from S3, then the  *)
(* rows of the attachments are deleted and written anew, one statement     *)
(* after the other.  `lists` tells that the request lists the attachments  *)
(* it keeps; an edit of the text alone touches neither.                    *)
(***************************************************************************)
BeginEditPost(r) ==
    /\ \E p \in Posts, lists, up \in BOOLEAN :
         /\ Mine(p) /\ (lists \/ up)
         /\ \E keeps \in IF lists THEN SUBSET post[p].files ELSE {{}} :
              Begin(r, "updatePost", [op |-> "updatePost", step |-> "upload", post |-> p, lists |-> lists, keeps |-> keeps,
                                      old |-> post[p].files, uploads |-> up, added |-> {}, dropped |-> {}])
    /\ UNCHANGED boardVars

\* isAttachmentUpdate: every old file goes, those the request keeps included.
DropOldFiles(r) ==
    LET q == req[r] IN
    /\ At(r, "updatePost", "drop")
    /\ Drop(r, IF q.added # {} \/ (q.lists /\ q.keeps = {}) THEN q.old ELSE {}, "clear")
    /\ UNCHANGED <<post, comment, uploads, lost>>

ClearedIfAny(q) == q.keeps # {} \/ q.added # {}
RowsCleared(q) == q.lists \/ q.added # {}

ClearAttachments(r) ==
    LET q == req[r] IN
    /\ At(r, "updatePost", "clear")
    /\ post' = IF post[q.post].there /\ RowsCleared(q) THEN [post EXCEPT ![q.post].files = {}] ELSE post
    /\ Proceed(r, [q EXCEPT !.step = "insert"])
    /\ UNCHANGED <<comment, stored, uploads, lost>>

InsertAttachments(r) ==
    LET q == req[r] IN
    /\ At(r, "updatePost", "insert")
    /\ post' = IF post[q.post].there THEN [post EXCEPT ![q.post].files = @ \cup q.keeps \cup q.added] ELSE post
    /\ lost' = lost \cup (q.keeps \ stored)
    /\ Reply(r)
    /\ UNCHANGED <<comment, stored, uploads>>

(***************************************************************************)
(* deletePost: the files of the question, those of its comments, the row.  *)
(***************************************************************************)
BeginDeletePost(r) ==
    /\ \E p \in Posts :
         /\ Mine(p)
         /\ Begin(r, "deletePost", [op |-> "deletePost", step |-> "files", post |-> p, old |-> post[p].files, dropped |-> {}])
    /\ UNCHANGED boardVars

DropPostFiles(r) ==
    LET q == req[r] IN
    /\ \/ At(r, "deletePost", "files") /\ Drop(r, q.old, "comments")
       \/ At(r, "deletePost", "comments") /\ Drop(r, FilesOn(q.post), "save")
    /\ UNCHANGED <<post, comment, uploads, lost>>

DeletePost(r) ==
    LET q == req[r] IN
    /\ At(r, "deletePost", "save")
    /\ post' = [post EXCEPT ![q.post] = [NoPost EXCEPT !.of = post[q.post].of]]
    /\ comment' = [c \in Comments |-> IF comment[c].on = q.post THEN DeletedComment ELSE comment[c]]
    /\ Reply(r)
    /\ UNCHANGED <<stored, uploads, lost>>

(***************************************************************************)
(* createComment: the status is read first; a comment of the instructor or *)
(* an assistant on a question that waited makes it REGISTERED in the same  *)
(* transaction.  A question that is gone makes the insert fail: the upload *)
(* is cleaned up.                                                          *)
(***************************************************************************)
\* getStudentEnrollmentId and getParentEnrollmentId of a question: the one it was asked through.
MayComment(e, role) ==
    CASE role = "STUDENT" -> enrollment[e].student # None
      [] role = "PARENT" -> enrollment[e].link # NoLink
      [] OTHER -> TRUE

BeginComment(r) ==
    /\ \E p \in Posts, role \in Roles, up \in BOOLEAN :
         /\ post[p].there /\ MayComment(post[p].of, role)
         /\ Begin(r, "createComment", [op |-> "createComment", step |-> "upload", on |-> p, role |-> role,
                                       by |-> IF role = "STAFF" THEN None ELSE post[p].of,
                                       status |-> post[p].status, uploads |-> up, added |-> {}])
    /\ UNCHANGED boardVars

PlainAnswer(q) == FALSE
FirstAnswer(q) == q.role = "STAFF" /\ q.status = "BEFORE"

\* A row is written while what it comments on is there, or else the upload is cleaned up.
WriteComment(q, there) ==
    IF there
    THEN /\ \E c \in Comments :
              /\ comment[c] = NoComment
              /\ comment' = [comment EXCEPT ![c] = [on |-> q.on, by |-> q.by, role |-> q.role, files |-> q.added,
                                                   gone |-> FALSE]]
         /\ UNCHANGED stored
    ELSE UNCHANGED comment /\ CleanUp(q)

SaveComment(r) ==
    LET q == req[r] IN
    /\ At(r, "createComment", "save") /\ q.on \in Posts
    /\ WriteComment(q, post[q.on].there)
    /\ post' = IF post[q.on].there
               THEN [post EXCEPT ![q.on].status = IF FirstAnswer(q) THEN "REGISTERED" ELSE @,
                                 ![q.on].answered = @ \/ q.role = "STAFF"]
               ELSE post
    /\ Reply(r)
    /\ UNCHANGED <<uploads, lost>>

\* validateCommentOwnership: a student's enrollment is its own, whoever commented through it.
OwnComment(c) ==
    LET row == comment[c] IN
    /\ row.on # None
    /\ row.by # None => enrollment[row.by].student # None \/ (row.role = "PARENT" /\ enrollment[row.by].link # NoLink)

(***************************************************************************)
(* deleteComment and updateComment: the direct attachments are looked up   *)
(* and removed from S3 first, then a comment that is edited has its new    *)
(* file uploaded, then the rows follow.                                    *)
(***************************************************************************)
BeginDeleteComment(r) ==
    /\ \E c \in Comments :
         /\ OwnComment(c)
         /\ Begin(r, "deleteComment", [op |-> "deleteComment", step |-> "drop", comment |-> c,
                                       dropped |-> {}])
    /\ UNCHANGED boardVars

\* `rows`: what the request says of the attachments' rows: drop them (removeAttachments), replace them by
\* the materials and files it brings, or nothing.
BeginEditComment(r) ==
    /\ \E c \in Comments, rows \in {"remove", "materials", "keep"}, up \in BOOLEAN :
         /\ OwnComment(c)
         /\ Begin(r, "updateComment", [op |-> "updateComment", step |-> IF up \/ rows = "remove" THEN "drop" ELSE "upload",
                                       comment |-> c, rows |-> rows, uploads |-> up, added |-> {},
                                       dropped |-> {}])
    /\ UNCHANGED boardVars

Still(q) == comment[q.comment].on # None

DirectFiles(q) == IF Still(q) THEN comment[q.comment].files ELSE {}

DropCommentFiles(r) ==
    LET q == req[r] IN
    /\ q.op \in {"deleteComment", "updateComment"} /\ q.step = "drop"
    /\ Drop(r, DirectFiles(q), IF q.op = "deleteComment" THEN "save" ELSE "upload")
    /\ UNCHANGED <<post, comment, uploads, lost>>

DeleteComment(r) ==
    LET q == req[r] IN
    /\ At(r, "deleteComment", "save")
    /\ comment' = [comment EXCEPT ![q.comment] = DeletedComment]
    /\ Reply(r)
    /\ UNCHANGED <<post, stored, uploads, lost>>

ClearCommentRows(r) ==
    LET q == req[r] IN
    /\ At(r, "updateComment", "clear")
    /\ comment' = IF q.rows # "keep" \/ q.added # {} THEN [comment EXCEPT ![q.comment].files = {}] ELSE comment
    /\ Proceed(r, [q EXCEPT !.step = "insert"])
    /\ UNCHANGED <<post, stored, uploads, lost>>

\* removeAttachments wins over the files that were just uploaded.
NewRows(q) == IF q.rows = "remove" THEN {} ELSE q.added

InsertCommentRows(r) ==
    LET q == req[r] IN
    /\ At(r, "updateComment", "insert")
    /\ IF Still(q)
       THEN comment' = [comment EXCEPT ![q.comment].files = @ \cup NewRows(q)] /\ UNCHANGED stored
       ELSE UNCHANGED comment /\ CleanUp(q)
    /\ Reply(r)
    /\ UNCHANGED <<post, uploads, lost>>

UploadOf(r) ==
    \/ req[r].op = "updatePost" /\ Upload(r, "drop")
    \/ req[r].op = "updateComment" /\ Upload(r, "clear")
    \/ req[r].op \in {"createPost", "createComment"} /\ Upload(r, "save")

BoardNext == \E r \in Requests :
    \/ BeginPost(r) \/ SavePost(r) \/ BeginStatus(r) \/ SaveStatus(r)
    \/ BeginEditPost(r) \/ DropOldFiles(r) \/ ClearAttachments(r) \/ InsertAttachments(r)
    \/ BeginDeletePost(r) \/ DropPostFiles(r) \/ DeletePost(r)
    \/ BeginComment(r) \/ SaveComment(r)
    \/ BeginDeleteComment(r) \/ BeginEditComment(r) \/ DropCommentFiles(r) \/ DeleteComment(r)
    \/ ClearCommentRows(r) \/ InsertCommentRows(r)
    \/ UploadOf(r)

\* A request dies: what it has removed from S3 stays removed.
BoardAbort(r) ==
    /\ Abort(r)
    /\ lost' = lost \cup Dropped(r)
    /\ UNCHANGED <<post, comment, stored, uploads>>

(***************************************************************************)
(* What the instructor's list of questions shows of them: those of a       *)
(* status, and the counts above the list; nothing here outlives a month.   *)
(***************************************************************************)
Asked == {p \in Posts : post[p].there}
Listed(status) == {p \in Asked : post[p].status = status}
PostStats ==
    [totalCount |-> Cardinality(Asked), unansweredCount |-> Cardinality(Listed("BEFORE")),
     processingCount |-> Cardinality(Listed("REGISTERED")), answeredCount |-> Cardinality(Listed("COMPLETED"))]

(***************************************************************************)
(* Properties.                                                             *)
(***************************************************************************)

\* A question waits exactly as long as the instructor's side has not commented: whoever reads the status
\* before it comments, whatever comments the asker adds and however the status is toggled meanwhile
\* (createComment, updateStatus); and the counts above the list leave none out (getStats).
StatusTellsAnswer ==
    /\ \A p \in Posts : post[p].status # "BEFORE" <=> post[p].answered
    /\ PostStats.unansweredCount = Cardinality({p \in Asked : ~post[p].answered})
    /\ PostStats.totalCount = PostStats.unansweredCount + PostStats.processingCount + PostStats.answeredCount

\* A file that a row names is in S3, unless a request is just removing it, died in between or found its row
\* deleted, or named it again after it was removed (updatePost, deletePost, updateComment, deleteComment
\* remove files first).
AttachmentsStored ==
    LET gone == lost \cup UNION {Dropped(r) : r \in Requests} IN
    /\ \A p \in Posts : post[p].files \subseteq stored \cup gone
    /\ \A c \in Comments : comment[c].files \subseteq stored \cup gone
=============================================================================
