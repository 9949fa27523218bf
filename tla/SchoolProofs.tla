---------------------------- MODULE SchoolProofs ----------------------------
(***************************************************************************)
(* Proofs about the accounts of School.  The invariant follows what the    *)
(* handlers remember: the row a request of the instructor found, the user  *)
(* and the code of a sign-up.  A step of another part leaves the accounts  *)
(* alone and begins no request on them (...Frames); a step on the accounts *)
(* keeps what the requests in flight rely on (Kept).                       *)
(***************************************************************************)
EXTENDS School, TLAPS

\* The requests of Accounts that take several steps, and what each remembers.
StaffOps == {"updateAssistant", "approve", "reject", "expire"}
AdminOps == {"invite", "activate"}
AccountOps == {"signUp"} \cup StaffOps \cup AdminOps

\* The requests of other parts that remove files from S3.
DropOps == {"updatePost", "deletePost", "deleteComment", "updateComment", "updateMaterial"}

SignUpCall == [op: {"signUp"}, step: {"password", "type", "save", "create"}, user: Users, type: SignUpTypes,
               phone: Phones, parentPhone: Phones \cup {None}, code: Codes \cup {None}]
StaffCall == [op: StaffOps, step: {"remove", "write"}, user: Users]
AdminCall == [op: AdminOps, step: {"create", "resend", "save"}, user: Users]

\* Until its last step a sign-up's user is neither new nor an administrator, and exists, locked, at the last one.
SignUpOK(q) ==
    /\ q \in SignUpCall
    /\ q.type = "ASSISTANT" => q.code \in Codes
    /\ user[q.user].type \notin {None, "ADMIN"}
    /\ q.step = "create" => q.type = "ASSISTANT" /\ Exists(q.user) /\ code[q.code] # None

\* The row was there, and its user is gone from it when the instructor's last write comes.
StaffOK(q) ==
    /\ q \in StaffCall
    /\ assistant[q.user].status # None
    /\ q.op \in {"reject", "expire"} /\ q.step = "write" => ~assistant[q.user].linked

RequestOK(r) ==
    /\ {"op", "step"} \subseteq DOMAIN req[r]
    /\ "dropped" \in DOMAIN req[r] => req[r].op \in DropOps
    /\ req[r].op = "signUp" => SignUpOK(req[r])
    /\ req[r].op \in StaffOps => StaffOK(req[r])
    /\ req[r].op \in AdminOps => req[r] \in AdminCall

RequestsOK == req = [r \in Requests |-> req[r]] /\ \A r \in Requests : RequestOK(r)

\* An assistant's row that has lost its user belongs to one who is gone.
AssistantOK(u) ==
    /\ assistant[u].linked \/ assistant[u].deleted \/ assistant[u].code # None => assistant[u].status # None
    /\ assistant[u].status # None /\ ~assistant[u].linked => user[u].type = "gone"
    /\ assistant[u].deleted => ~assistant[u].linked
AdminOK(u) == admin[u].status # None => user[u].type = "ADMIN"
UsersOK == \A u \in Users : AssistantOK(u) /\ AdminOK(u)

\* CodesSpent, and a code that was not handed out has given no assistant.
CodesOK ==
    \A k \in Codes :
      /\ code[k] \in {None, "fresh"} => \A u \in Users : assistant[u].code # k
      /\ code[k] = "used" => \E u \in Users : assistant[u].code = k

IInv == AccountsTypeOK /\ RequestsOK /\ UsersOK /\ CodesOK

-----------------------------------------------------------------------------
(***************************************************************************)
(* What a step does to the requests in flight.                             *)
(***************************************************************************)
RosterOps == {"enrol", "migrate", "update", "child"}
BoardOps == {"createPost", "updateStatus", "updatePost", "deletePost", "createComment", "deleteComment", "updateComment"}
LibraryOps == {"uploadMaterial", "updateMaterial", "createOrder", "updateOrder", "createNotice", "updateNotice",
               "createComment"}
PlannerOps == {"createSchedule", "updateSchedule", "updateProduct"}

\* The requests that a step begins or moves, and does not answer, are all of one part.
Of(ops, q) == {"op", "step"} \subseteq DOMAIN q /\ q.op \in ops /\ ("dropped" \in DOMAIN q => q.op \in DropOps)
Moved(ops) ==
    /\ req' = [r \in Requests |-> req'[r]]
    /\ \A r \in Requests :
         \/ req'[r] = req[r]
         \/ (req[r] = Idle \/ req[r].op \in ops) /\ (req'[r] = Idle \/ Of(ops, req'[r]))

\* Requests of other parts change among themselves.
Foreign(q) == {"op", "step"} \subseteq DOMAIN q /\ q.op \notin AccountOps /\ ("dropped" \in DOMAIN q => q.op \in DropOps)
Framed ==
    /\ req' = [r \in Requests |-> req'[r]]
    /\ \A r \in Requests : req'[r] = req[r] \/ Foreign(req'[r])

LEMMA IdleForeign == Foreign(Idle)
  BY DEF Foreign, Idle, AccountOps, StaffOps, AdminOps

LEMMA MovedFrames == ASSUME NEW ops, ops \cap AccountOps = {}, Moved(ops) PROVE Framed
  BY IdleForeign DEF Moved, Framed, Foreign, Of

LEMMA ProceedFrames ==
    ASSUME RequestsOK, NEW ops, NEW r \in Requests, req[r].op \in ops, NEW q, Of(ops, q), Proceed(r, q)
    PROVE  Moved(ops)
  BY DEF RequestsOK, Proceed, Moved

LEMMA BeginFrames ==
    ASSUME RequestsOK, NEW ops, NEW r \in Requests, NEW op, NEW q, Of(ops, q), Begin(r, op, q) PROVE Moved(ops)
  BY DEF RequestsOK, Begin, Moved

LEMMA ReplyFrames == ASSUME RequestsOK, NEW ops, NEW r \in Requests, req[r].op \in ops, Reply(r) PROVE Moved(ops)
  BY DEF RequestsOK, Reply, Proceed, Moved

LEMMA ReplyFramed == ASSUME RequestsOK, NEW r \in Requests, Reply(r) PROVE Framed
  BY IdleForeign DEF RequestsOK, Reply, Proceed, Framed

LEMMA ServeFramed == ASSUME RequestsOK, NEW op, Serve(op) PROVE Framed
  BY DEF RequestsOK, Serve, Framed

LEMMA ServeFrames == ASSUME RequestsOK, NEW ops, NEW op, Serve(op) PROVE Moved(ops)
  BY DEF RequestsOK, Serve, Moved

\* A request of a part that goes on is still one of that part.
LEMMA OnwardFrames ==
    ASSUME RequestsOK, NEW ops, NEW r \in Requests, req[r].op \in ops, NEW step, Proceed(r, [req[r] EXCEPT !.step = step])
    PROVE  Moved(ops)
<1>1. {"op", "step"} \subseteq DOMAIN req[r] /\ ("dropped" \in DOMAIN req[r] => req[r].op \in DropOps)
  BY DEF RequestsOK, RequestOK
<1>2. Of(ops, [req[r] EXCEPT !.step = step])
  BY <1>1 DEF Of
<1> QED
  BY <1>2, ProceedFrames

LEMMA DropFrames ==
    ASSUME RequestsOK, NEW ops, NEW r \in Requests, req[r].op \in ops, NEW files, NEW step, Drop(r, files, step)
    PROVE  Moved(ops)
<1>1. {"op", "step"} \subseteq DOMAIN req[r] /\ ("dropped" \in DOMAIN req[r] => req[r].op \in DropOps)
  BY DEF RequestsOK, RequestOK
<1>2. PICK removed : Proceed(r, [req[r] EXCEPT !.step = step, !.dropped = @ \cup removed])
  BY DEF Drop
<1>3. Of(ops, [req[r] EXCEPT !.step = step, !.dropped = @ \cup removed])
  BY <1>1 DEF Of
<1> QED
  BY <1>2, <1>3, ProceedFrames

LEMMA UploadFrames ==
    ASSUME RequestsOK, NEW ops, NEW r \in Requests, req[r].op \in ops, NEW step, Upload(r, step)
    PROVE  Moved(ops)
<1>1. {"op", "step"} \subseteq DOMAIN req[r] /\ ("dropped" \in DOMAIN req[r] => req[r].op \in DropOps)
  BY DEF RequestsOK, RequestOK
<1>2. CASE req[r].uploads
  <2>1. Of(ops, [req[r] EXCEPT !.step = step, !.added = {uploads'}])
    BY <1>1 DEF Of
  <2> QED
    BY <1>2, <2>1, ProceedFrames DEF Upload
<1>3. CASE ~req[r].uploads
  BY <1>3, OnwardFrames DEF Upload
<1> QED
  BY <1>2, <1>3

LEMMA RosterFrames ==
    ASSUME RequestsOK, RosterNext PROVE Moved(RosterOps)
<1> USE DEF Of, RosterOps, DropOps
<1>1. CASE RemoveSeat \/ DeleteLecture \/ UpdateStudentProfile \/ UpdateParentProfile
  BY <1>1, ServeFrames DEF RemoveSeat, DeleteLecture, UpdateStudentProfile, UpdateParentProfile
<1>2. ASSUME NEW r \in Requests, BeginEnrol(r) PROVE Moved(RosterOps)
  BY <1>2, BeginFrames DEF BeginEnrol
<1>3. ASSUME NEW r \in Requests, MatchEnrol(r) PROVE Moved(RosterOps)
  BY <1>3, ProceedFrames, ReplyFrames DEF MatchEnrol, At
<1>4. ASSUME NEW r \in Requests, SaveEnrol(r) \/ SaveMigrate(r) \/ SaveUpdate(r) \/ SaveRegisterChild(r) PROVE Moved(RosterOps)
  BY <1>4, ReplyFrames DEF SaveEnrol, SaveMigrate, SaveUpdate, SaveRegisterChild, At
<1>5. ASSUME NEW r \in Requests, BeginMigrate(r) PROVE Moved(RosterOps)
  BY <1>5, BeginFrames DEF BeginMigrate
<1>6. ASSUME NEW r \in Requests, BeginUpdate(r) PROVE Moved(RosterOps)
  BY <1>6, BeginFrames DEF BeginUpdate
<1>7. ASSUME NEW r \in Requests, BeginRegisterChild(r) PROVE Moved(RosterOps)
  BY <1>7, BeginFrames DEF BeginRegisterChild
<1> QED
  BY <1>1, <1>2, <1>3, <1>4, <1>5, <1>6, <1>7 DEF RosterNext

LEMMA BoardFrames ==
    ASSUME RequestsOK, BoardNext PROVE Moved(BoardOps)
<1> USE DEF Of, BoardOps, DropOps
<1>1. ASSUME NEW r \in Requests, BeginPost(r) \/ BeginStatus(r) \/ BeginEditPost(r) \/ BeginDeletePost(r) PROVE Moved(BoardOps)
  <2>1. CASE BeginPost(r)
    BY <2>1, BeginFrames DEF BeginPost
  <2>2. CASE BeginStatus(r)
    BY <2>2, BeginFrames DEF BeginStatus
  <2>3. CASE BeginEditPost(r)
    BY <2>3, BeginFrames DEF BeginEditPost
  <2>4. CASE BeginDeletePost(r)
    BY <2>4, BeginFrames DEF BeginDeletePost
  <2> QED
    BY <1>1, <2>1, <2>2, <2>3, <2>4
<1>2. ASSUME NEW r \in Requests, BeginComment(r) \/ BeginDeleteComment(r) \/ BeginEditComment(r) PROVE Moved(BoardOps)
  <2>1. CASE BeginComment(r)
    BY <2>1, BeginFrames DEF BeginComment
  <2>2. CASE BeginDeleteComment(r)
    BY <2>2, BeginFrames DEF BeginDeleteComment
  <2>3. CASE BeginEditComment(r)
    BY <2>3, BeginFrames DEF BeginEditComment
  <2> QED
    BY <1>2, <2>1, <2>2, <2>3
<1>3. ASSUME NEW r \in Requests,
             SavePost(r) \/ SaveStatus(r) \/ InsertAttachments(r) \/ DeletePost(r) \/ SaveComment(r) \/ DeleteComment(r)
               \/ InsertCommentRows(r)
      PROVE  Moved(BoardOps)
  BY <1>3, ReplyFrames DEF SavePost, SaveStatus, InsertAttachments, DeletePost, SaveComment, DeleteComment,
     InsertCommentRows, At
<1>4. ASSUME NEW r \in Requests, DropOldFiles(r) PROVE Moved(BoardOps)
  BY <1>4, DropFrames DEF DropOldFiles, At
<1>5. ASSUME NEW r \in Requests, ClearAttachments(r) \/ ClearCommentRows(r) PROVE Moved(BoardOps)
  BY <1>5, OnwardFrames DEF ClearAttachments, ClearCommentRows, At
<1>6. ASSUME NEW r \in Requests, DropPostFiles(r) PROVE Moved(BoardOps)
  BY <1>6, DropFrames DEF DropPostFiles, At
<1>7. ASSUME NEW r \in Requests, DropCommentFiles(r) PROVE Moved(BoardOps)
  BY <1>7, DropFrames DEF DropCommentFiles
<1>8. ASSUME NEW r \in Requests, UploadOf(r) PROVE Moved(BoardOps)
  BY <1>8, UploadFrames DEF UploadOf
<1> QED
  BY <1>1, <1>2, <1>3, <1>4, <1>5, <1>6, <1>7, <1>8 DEF BoardNext

LEMMA LibraryFrames ==
    ASSUME RequestsOK, LibraryNext PROVE Moved(LibraryOps)
<1> USE DEF Of, LibraryOps, DropOps
<1>1. CASE DeleteMaterial \/ UpdateOrderStatus \/ DeleteOrder \/ DeleteNotice
  BY <1>1, ServeFrames DEF DeleteMaterial, UpdateOrderStatus, DeleteOrder, DeleteNotice
<1>2. ASSUME NEW r \in Requests, BeginUploadMaterial(r) \/ BeginEditMaterial(r) \/ BeginOrder(r) \/ BeginEditOrder(r) PROVE Moved(LibraryOps)
  <2>1. CASE BeginUploadMaterial(r)
    BY <2>1, BeginFrames DEF BeginUploadMaterial
  <2>2. CASE BeginEditMaterial(r)
    BY <2>2, BeginFrames DEF BeginEditMaterial
  <2>3. CASE BeginOrder(r)
    BY <2>3, BeginFrames DEF BeginOrder
  <2>4. CASE BeginEditOrder(r)
    BY <2>4, BeginFrames DEF BeginEditOrder
  <2> QED
    BY <1>2, <2>1, <2>2, <2>3, <2>4
<1>3. ASSUME NEW r \in Requests, BeginNotice(r) \/ BeginEditNotice(r) \/ BeginNoticeComment(r) PROVE Moved(LibraryOps)
  <2>1. CASE BeginNotice(r)
    BY <2>1, BeginFrames DEF BeginNotice
  <2>2. CASE BeginEditNotice(r)
    BY <2>2, BeginFrames DEF BeginEditNotice
  <2>3. CASE BeginNoticeComment(r)
    BY <2>3, BeginFrames DEF BeginNoticeComment
  <2> QED
    BY <1>3, <2>1, <2>2, <2>3
<1>4. ASSUME NEW r \in Requests,
             CreateMaterial(r) \/ SaveMaterial(r) \/ CreateOrder(r) \/ SaveOrder(r) \/ CreateNotice(r) \/ SaveNotice(r)
               \/ SaveNoticeComment(r)
      PROVE  Moved(LibraryOps)
  BY <1>4, ReplyFrames DEF CreateMaterial, SaveMaterial, CreateOrder, SaveOrder, CreateNotice, SaveNotice,
     SaveNoticeComment, At
<1>5. ASSUME NEW r \in Requests, DropOldMaterial(r) PROVE Moved(LibraryOps)
  BY <1>5, DropFrames DEF DropOldMaterial, At
<1>6. ASSUME NEW r \in Requests, UploadToLibrary(r) PROVE Moved(LibraryOps)
  BY <1>6, UploadFrames DEF UploadToLibrary
<1> QED
  BY <1>1, <1>2, <1>3, <1>4, <1>5, <1>6 DEF LibraryNext

LEMMA PlannerFrames ==
    ASSUME RequestsOK, PlannerNext PROVE Moved(PlannerOps)
<1> USE DEF Of, PlannerOps, DropOps
<1>1. CASE CreateCategory \/ UpdateCategory \/ DeleteCategory \/ DeleteSchedule \/ CreateProduct \/ CreateGrantProduct
  BY <1>1, ServeFrames DEF CreateCategory, UpdateCategory, DeleteCategory, DeleteSchedule, CreateProduct,
     CreateGrantProduct
<1>2. ASSUME NEW r \in Requests, BeginSchedule(r) \/ BeginEditSchedule(r) \/ BeginEditProduct(r) PROVE Moved(PlannerOps)
  BY <1>2, BeginFrames DEF BeginSchedule, BeginEditSchedule, BeginEditProduct
<1>3. ASSUME NEW r \in Requests, SaveNewSchedule(r) \/ SaveSchedule(r) \/ SaveProduct(r) PROVE Moved(PlannerOps)
  BY <1>3, ReplyFrames DEF SaveNewSchedule, SaveSchedule, SaveProduct, At
<1> QED
  BY <1>1, <1>2, <1>3 DEF PlannerNext
-----------------------------------------------------------------------------
(***************************************************************************)
(* What a step does to the rows that requests in flight rely on.           *)
(***************************************************************************)
KeptUser(u) ==
    /\ user[u].type \notin {None, "ADMIN"} => user'[u].type \notin {None, "ADMIN"}
    /\ user[u].type = "gone" => user'[u].type = "gone"
    /\ Exists(u) /\ UserLocked(u) => user'[u].type # "gone"
    /\ assistant[u].status # None => assistant'[u].status # None
    /\ assistant[u].status # None /\ ~assistant[u].linked => ~assistant'[u].linked
Kept ==
    /\ \A u \in Users : KeptUser(u)
    /\ \A k \in Codes : code[k] # None => code'[k] # None

\* What is kept keeps a request that does not move.
LEMMA RequestKept ==
    ASSUME IInv, Kept, NEW r \in Requests, req'[r] = req[r] PROVE RequestOK(r)'
<1>1. RequestOK(r)
  BY DEF IInv, RequestsOK
<1>2. ASSUME req[r].op = "signUp" PROVE SignUpOK(req[r])'
  <2>1. SignUpOK(req[r]) /\ req[r].user \in Users
    BY <1>1, <1>2 DEF RequestOK, SignUpOK, SignUpCall
  <2>2. req[r].step = "create" => UserLocked(req[r].user) /\ Exists(req[r].user)
    BY <1>2, <2>1 DEF UserLocked, At, SignUpOK
  <2> QED
    BY <2>1, <2>2 DEF SignUpOK, Kept, KeptUser, Exists
<1>3. ASSUME req[r].op \in StaffOps PROVE StaffOK(req[r])'
  <2>1. StaffOK(req[r]) /\ req[r].user \in Users
    BY <1>1, <1>3 DEF RequestOK, StaffOK, StaffCall
  <2> QED
    BY <2>1 DEF StaffOK, Kept, KeptUser
<1> QED
  BY <1>1, <1>2, <1>3 DEF RequestOK

LEMMA ForeignOK ==
    ASSUME NEW r, Foreign(req'[r]) PROVE RequestOK(r)'
  BY DEF RequestOK, Foreign, AccountOps

\* One request moves, the others stay as they are.
LEMMA RequestsKept ==
    ASSUME IInv, Kept, NEW r \in Requests, NEW q, Proceed(r, q), RequestOK(r)' PROVE RequestsOK'
<1>1. req' = [req EXCEPT ![r] = q] /\ req = [s \in Requests |-> req[s]]
  BY DEF Proceed, IInv, RequestsOK
<1>2. \A s \in Requests : RequestOK(s)'
  BY <1>1, RequestKept
<1> QED
  BY <1>1, <1>2 DEF RequestsOK

LEMMA RequestsFramed ==
    ASSUME IInv, Kept, Framed PROVE RequestsOK'
  BY RequestKept, ForeignOK DEF Framed, RequestsOK

\* The rows of the accounts stay as they are.
LEMMA NothingMoved ==
    ASSUME UNCHANGED <<user, assistant, code>> PROVE Kept
  BY DEF Kept, KeptUser, Exists

LEMMA OthersStep ==
    ASSUME IInv, Framed, UNCHANGED <<user, session, assistant, code, admin>>, profiles' \subseteq ProfileRow
    PROVE  IInv'
<1>1. RequestsOK'
  BY NothingMoved, RequestsFramed
<1>2. AccountsTypeOK' /\ UsersOK' /\ CodesOK'
  BY DEF IInv, AccountsTypeOK, UsersOK, AssistantOK, AdminOK, CodesOK
<1> QED
  BY <1>1, <1>2 DEF IInv

LEMMA ProfilesTyped ==
    ASSUME IInv, RosterNext PROVE UNCHANGED <<user, session, assistant, code, admin>> /\ profiles' \subseteq ProfileRow
<1> USE DEF IInv, AccountsTypeOK
<1>1. CASE RemoveSeat \/ DeleteLecture
  BY <1>1 DEF RemoveSeat, DeleteLecture, accountVars
<1>2. CASE UpdateStudentProfile
  <2>1. PICK old \in {p \in profiles : p.type = "STUDENT"}, phone \in Phones \cup {None}, parentPhone \in Phones \cup {None} :
          profiles' = (profiles \ {old}) \cup {Changed(old, phone, parentPhone)}
    BY <1>2 DEF UpdateStudentProfile
  <2>2. Changed(old, phone, parentPhone) \in ProfileRow
    BY DEF Changed, ProfileRow
  <2> QED
    BY <1>2, <2>1, <2>2 DEF UpdateStudentProfile
<1>3. CASE UpdateParentProfile
  <2>1. PICK old \in {p \in profiles : p.type = "PARENT"}, phone \in Phones :
          profiles' = (profiles \ {old}) \cup {[old EXCEPT !.phone = phone]}
    BY <1>3 DEF UpdateParentProfile
  <2>2. [old EXCEPT !.phone = phone] \in ProfileRow
    BY DEF ProfileRow
  <2> QED
    BY <1>3, <2>1, <2>2 DEF UpdateParentProfile
<1>4. ASSUME NEW r \in Requests,
             BeginEnrol(r) \/ MatchEnrol(r) \/ SaveEnrol(r) \/ BeginMigrate(r) \/ SaveMigrate(r)
      PROVE  UNCHANGED accountVars
  BY <1>4 DEF BeginEnrol, MatchEnrol, SaveEnrol, BeginMigrate, SaveMigrate
<1>5. ASSUME NEW r \in Requests, BeginUpdate(r) \/ SaveUpdate(r) \/ BeginRegisterChild(r) \/ SaveRegisterChild(r)
      PROVE  UNCHANGED accountVars
  BY <1>5 DEF BeginUpdate, SaveUpdate, BeginRegisterChild, SaveRegisterChild
<1> QED
  BY <1>1, <1>2, <1>3, <1>4, <1>5 DEF RosterNext, accountVars

-----------------------------------------------------------------------------
(***************************************************************************)
(* The steps of Accounts, one lemma each.                                  *)
(***************************************************************************)
USE DEF AccountsTypeOK, None

\* Rows that change one field or two.
LEMMA UserRows ==
    ASSUME NEW row \in UserRow, NEW type \in SignUpTypes \cup {None, "PENDING", "ADMIN", "gone"}, NEW p \in BOOLEAN
    PROVE  /\ [row EXCEPT !.type = type] \in UserRow /\ [row EXCEPT !.type = type].type = type
           /\ [row EXCEPT !.password = p] \in UserRow /\ [row EXCEPT !.password = p].type = row.type
           /\ row.type \in SignUpTypes \cup {None, "PENDING", "ADMIN", "gone"}
  BY DEF UserRow

\* A user's type changes.
LEMMA TypeSet ==
    ASSUME user \in [Users -> UserRow], NEW u \in Users, NEW type \in SignUpTypes \cup {None, "PENDING", "ADMIN", "gone"},
           user' = [user EXCEPT ![u].type = type]
    PROVE  /\ user' \in [Users -> UserRow] /\ user'[u].type = type
           /\ \A v \in Users \ {u} : user'[v].type = user[v].type
<1>1. [user[u] EXCEPT !.type = type] \in UserRow /\ [user[u] EXCEPT !.type = type].type = type
  BY UserRows
<1>2. user' = [user EXCEPT ![u] = [user[u] EXCEPT !.type = type]]
  OBVIOUS
<1> QED
  BY <1>1, <1>2

LEMMA AssistantRows ==
    ASSUME NEW row \in AssistantRow, NEW linked \in BOOLEAN, NEW phone \in Phones \cup {None},
           NEW status \in {"PENDING", "SIGNED", "REJECTED", "EXPIRED"}
    PROVE  /\ [row EXCEPT !.linked = linked] \in AssistantRow
           /\ [row EXCEPT !.phone = phone] \in AssistantRow
           /\ [row EXCEPT !.status = status] \in AssistantRow
           /\ [row EXCEPT !.status = status, !.deleted = TRUE, !.phone = phone] \in AssistantRow
           /\ row.linked \in BOOLEAN /\ row.deleted \in BOOLEAN
  BY DEF AssistantRow

LEMMA AdminRows ==
    ASSUME NEW row \in AdminRow, NEW status \in {None, "PENDING_ACTIVATION", "ACTIVE"}
    PROVE  /\ [row EXCEPT !.status = status] \in AdminRow
           /\ InvitedAgain(row) \in AdminRow /\ InvitedAgain(row).status = row.status
           /\ NoAdmin \in AdminRow
  BY DEF AdminRow, InvitedAgain, NoAdmin

LEMMA VerifyEmailStep ==
    ASSUME IInv, NEW u \in Users, VerifyEmail(u) PROVE IInv'
<1> USE DEF IInv, VerifyEmail
<1>1. AccountsTypeOK'
  <2> DEFINE type == IF user[u].type = None THEN "PENDING" ELSE user[u].type
  <2>1. type \in SignUpTypes \cup {None, "PENDING", "ADMIN"}
    BY UserRows
  <2>2. user' \in [Users -> UserRow] /\ user'[u].type = type
    BY <2>1, TypeSet
  <2> QED
    BY <2>1, <2>2
<1>2. Kept
  BY DEF Kept, KeptUser, Exists
<1>3. RequestsOK'
  BY <1>2, ServeFramed, RequestsFramed
<1>4. UsersOK' /\ CodesOK'
  BY DEF UsersOK, AssistantOK, AdminOK, CodesOK
<1> QED
  BY <1>1, <1>3, <1>4

LEMMA SessionStep ==
    ASSUME IInv, NEW u \in Users, SignIn(u) \/ SignOut(u) \/ SessionRenewed(u) PROVE IInv'
<1>1. UNCHANGED <<user, profiles, assistant, code, admin>>
  BY DEF SignIn, SignOut, SessionRenewed
<1>2. AccountsTypeOK'
  <2>1. CASE SignIn(u)
    BY <1>1, <2>1, UserRows DEF IInv, SignIn, Exists
  <2>2. CASE SignOut(u)
    BY <1>1, <2>2 DEF IInv, SignOut
  <2>3. CASE SessionRenewed(u)
    BY <1>1, <2>3, UserRows DEF IInv, SessionRenewed, Exists
  <2> QED
    BY <2>1, <2>2, <2>3
<1>3. Framed
  BY ServeFramed DEF IInv, SignIn, SignOut, SessionRenewed, serverVars, Framed, RequestsOK
<1>4. RequestsOK'
  BY <1>1, <1>3, NothingMoved, RequestsFramed
<1> QED
  BY <1>1, <1>2, <1>4 DEF IInv, UsersOK, AssistantOK, AdminOK, CodesOK

\* The user of a sign-up's last step is not the one who goes.
LEMMA RemovedKeeps ==
    ASSUME IInv, NEW u \in Users, ~UserLocked(u), Removed(u), UNCHANGED code
    PROVE  /\ Kept /\ UsersOK' /\ CodesOK'
           /\ user' \in [Users -> UserRow] /\ profiles' \subseteq ProfileRow
           /\ assistant' \in [Users -> AssistantRow] /\ admin' \in [Users -> AdminRow]
<1> USE DEF IInv, Removed, Gone
<1>1. Kept
  BY DEF Kept, KeptUser, Exists
<1>2. UsersOK'
  BY DEF UsersOK, AssistantOK, AdminOK, NoAdmin
<1>3. CodesOK'
  BY DEF CodesOK
<1>4. user' \in [Users -> UserRow] /\ profiles' \subseteq ProfileRow
  BY DEF UserRow
<1>5. assistant' \in [Users -> AssistantRow]
  <2>1. [assistant[u] EXCEPT !.linked = FALSE] \in AssistantRow
    BY AssistantRows
  <2> QED
    BY <2>1
<1>6. admin' \in [Users -> AdminRow]
  BY DEF NoAdmin, AdminRow
<1> QED
  BY <1>1, <1>2, <1>3, <1>4, <1>5, <1>6

LEMMA WithdrawStep ==
    ASSUME IInv, NEW u \in Users, Withdraw(u) PROVE IInv'
<1>1. RequestsOK'
  BY RemovedKeeps, ServeFramed, RequestsFramed DEF Withdraw, IInv
<1> QED
  BY <1>1, RemovedKeeps DEF Withdraw, IInv

\* A request goes on, or is answered, and the rows of the accounts stay.
LEMMA ProceedStep ==
    ASSUME IInv, NEW r \in Requests, NEW q, Proceed(r, q), UNCHANGED accountVars, RequestOK(r)'
    PROVE  IInv'
<1>1. UNCHANGED <<user, session, profiles, assistant, code, admin>>
  BY DEF accountVars
<1>2. RequestsOK'
  BY <1>1, NothingMoved, RequestsKept
<1> QED
  BY <1>1, <1>2 DEF IInv, UsersOK, AssistantOK, AdminOK, CodesOK

LEMMA BeginStep ==
    ASSUME IInv, NEW r \in Requests, NEW op, NEW q, Begin(r, op, q), Kept, RequestOK(r)'
    PROVE  RequestsOK'
<1>1. req' = [req EXCEPT ![r] = q] /\ req = [s \in Requests |-> req[s]]
  BY DEF Begin, IInv, RequestsOK
<1>2. \A s \in Requests : RequestOK(s)'
  BY <1>1, RequestKept
<1> QED
  BY <1>1, <1>2 DEF RequestsOK

LEMMA Replied ==
    ASSUME IInv, NEW r \in Requests, Reply(r), Kept PROVE RequestsOK'
  BY ReplyFramed, RequestsFramed DEF IInv

\* What a sign-up remembers.
LEMMA SignUpRemembers ==
    ASSUME IInv, NEW r \in Requests, req[r].op = "signUp"
    PROVE  SignUpOK(req[r]) /\ req[r] \in SignUpCall
  BY DEF IInv, RequestsOK, RequestOK, SignUpOK

LEMMA BeginSignUpStep ==
    ASSUME IInv, NEW r \in Requests, BeginSignUp(r) PROVE IInv'
<1>1. PICK u \in Users, type \in SignUpTypes, phone \in Phones, parentPhone \in Phones \cup {None}, k \in Codes \cup {None} :
        /\ user[u].type = "PENDING" /\ (type = "ASSISTANT" => k \in Codes)
        /\ Begin(r, type, [op |-> "signUp", step |-> "password", user |-> u, type |-> type, phone |-> phone,
                            parentPhone |-> parentPhone, code |-> k])
        /\ UNCHANGED accountVars
  BY DEF BeginSignUp
<1> DEFINE q == [op |-> "signUp", step |-> "password", user |-> u, type |-> type, phone |-> phone,
                parentPhone |-> parentPhone, code |-> k]
<1>2. req'[r] = q /\ UNCHANGED <<user, session, profiles, assistant, code, admin>>
  BY <1>1 DEF Begin, IInv, RequestsOK, accountVars
<1>3. SignUpOK(q)'
  BY <1>1, <1>2 DEF SignUpOK, SignUpCall
<1>4. RequestOK(r)'
  BY <1>2, <1>3 DEF RequestOK, StaffOps, AdminOps
<1>5. RequestsOK'
  BY <1>1, <1>2, <1>4, NothingMoved, BeginStep
<1> QED
  BY <1>2, <1>5 DEF IInv, UsersOK, AssistantOK, AdminOK, CodesOK

\* A sign-up goes on to its next step; at the last one its user is there and its code was handed out.
LEMMA SignUpGoesOn ==
    ASSUME IInv, Kept, NEW r \in Requests, req[r].op = "signUp", NEW step \in {"type", "save", "create"},
           Proceed(r, [req[r] EXCEPT !.step = step]),
           step = "create" => /\ req[r].type = "ASSISTANT"
                              /\ user'[req[r].user].type \notin {None, "gone"} /\ code'[req[r].code] # None
    PROVE  RequestsOK'
<1>1. SignUpOK(req[r]) /\ req[r] \in SignUpCall
  BY SignUpRemembers
<1>2. req'[r] = [req[r] EXCEPT !.step = step]
  BY DEF Proceed, IInv, RequestsOK
<1>3. /\ req'[r] \in SignUpCall /\ req'[r].op = "signUp" /\ req'[r].step = step
      /\ req'[r].user = req[r].user /\ req'[r].type = req[r].type /\ req'[r].code = req[r].code
  BY <1>1, <1>2 DEF SignUpCall
<1>4. SignUpOK(req[r])'
  BY <1>1, <1>3 DEF SignUpOK, SignUpCall, Kept, KeptUser, Exists
<1>5. RequestOK(r)'
  BY <1>3, <1>4 DEF RequestOK, SignUpCall, StaffOps, AdminOps
<1> QED
  BY <1>5, RequestsKept

LEMMA SetPasswordStep ==
    ASSUME IInv, NEW r \in Requests, SetPassword(r) PROVE IInv'
<1>1. req[r].op = "signUp" /\ SignUpOK(req[r]) /\ req[r].user \in Users
  BY SignUpRemembers DEF SetPassword, At, SignUpCall
<1> DEFINE u == req[r].user
<1>2. /\ user' \in [Users -> UserRow] /\ \A v \in Users : user'[v].type = user[v].type
      /\ UNCHANGED <<session, profiles, assistant, code, admin>>
  <2>1. CASE user' = [user EXCEPT ![u].password = TRUE]
    <3>1. [user[u] EXCEPT !.password = TRUE] \in UserRow /\ [user[u] EXCEPT !.password = TRUE].type = user[u].type
      BY <1>1, UserRows DEF IInv
    <3>2. user' = [user EXCEPT ![u] = [user[u] EXCEPT !.password = TRUE]]
      BY <2>1
    <3> QED
      BY <1>1, <3>1, <3>2 DEF SetPassword, IInv
  <2>2. CASE UNCHANGED user
    BY <2>2 DEF SetPassword, IInv
  <2> QED
    BY <2>1, <2>2 DEF SetPassword
<1>3. Kept
  BY <1>2 DEF Kept, KeptUser, Exists
<1>4. RequestsOK'
  BY <1>1, <1>3, Replied, SignUpGoesOn DEF SetPassword
<1>5. AccountsTypeOK' /\ UsersOK' /\ CodesOK'
  BY <1>2 DEF IInv, UsersOK, AssistantOK, AdminOK, CodesOK
<1> QED
  BY <1>4, <1>5 DEF IInv

\* The type a sign-up writes is that of a user who was there.
LEMMA TypeWritten ==
    ASSUME IInv, NEW u \in Users, Exists(u), user[u].type # "ADMIN", NEW type \in SignUpTypes,
           user' = [user EXCEPT ![u].type = type]
    PROVE  /\ user' \in [Users -> UserRow] /\ user'[u].type = type
           /\ \A v \in Users \ {u} : user'[v].type = user[v].type
           /\ UNCHANGED <<assistant, code>> => Kept
           /\ UNCHANGED <<assistant, admin>> => UsersOK'
<1> USE DEF IInv
<1>1. user' \in [Users -> UserRow] /\ user'[u].type = type /\ \A v \in Users \ {u} : user'[v].type = user[v].type
  BY TypeSet
<1>2. ASSUME UNCHANGED <<assistant, code>> PROVE Kept
  BY <1>1, <1>2 DEF Kept, KeptUser, Exists, SignUpTypes
<1>3. ASSUME UNCHANGED <<assistant, admin>> PROVE UsersOK'
  BY <1>1, <1>3 DEF UsersOK, AssistantOK, AdminOK, Exists
<1> QED
  BY <1>1, <1>2, <1>3

LEMMA SetTypeStep ==
    ASSUME IInv, NEW r \in Requests, SetType(r) PROVE IInv'
<1>1. req[r].op = "signUp" /\ SignUpOK(req[r]) /\ req[r].user \in Users /\ req[r].type \in SignUpTypes
  BY SignUpRemembers DEF SetType, At, SignUpCall
<1> DEFINE u == req[r].user
<1>2. CASE Exists(u)
  <2>1. user' = [user EXCEPT ![u].type = req[r].type] /\ user[u].type # "ADMIN"
    BY <1>1, <1>2 DEF SetType, SignUpOK
  <2>2. Kept /\ UsersOK' /\ user' \in [Users -> UserRow]
    BY <1>1, <1>2, <2>1, TypeWritten DEF SetType
  <2>3. RequestsOK'
    BY <1>1, <1>2, <2>2, SignUpGoesOn DEF SetType
  <2> QED
    BY <1>1, <1>2, <2>2, <2>3 DEF SetType, IInv, CodesOK
<1>3. CASE ~Exists(u)
  <2>1. Reply(r) /\ UNCHANGED <<user, session, profiles, assistant, code, admin>>
    BY <1>3 DEF SetType
  <2> QED
    BY <2>1, NothingMoved, Replied DEF IInv, UsersOK, AssistantOK, AdminOK, CodesOK
<1> QED
  BY <1>2, <1>3

LEMMA SaveProfileStep ==
    ASSUME IInv, NEW r \in Requests, SaveProfile(r) PROVE IInv'
<1>1. req[r].op = "signUp" /\ SignUpOK(req[r]) /\ req[r] \in SignUpCall /\ req[r].type # "ASSISTANT"
  BY SignUpRemembers DEF SaveProfile, At
<1>2. req[r].user \in Users /\ req[r].type \in SignUpTypes
  BY <1>1 DEF SignUpCall
<1>3. CASE Exists(req[r].user) /\ NewProfile(req[r])
  <2>1. user' = [user EXCEPT ![req[r].user].type = req[r].type] /\ user[req[r].user].type # "ADMIN"
    BY <1>1, <1>3 DEF SaveProfile, SignUpOK
  <2>2. Kept /\ UsersOK' /\ user' \in [Users -> UserRow]
    BY <1>2, <1>3, <2>1, TypeWritten DEF SaveProfile
  <2>3. profiles' \subseteq ProfileRow
    BY <1>1, <1>3 DEF SaveProfile, ProfileRow, SignUpCall, IInv
  <2>4. RequestsOK'
    BY <2>2, Replied DEF SaveProfile
  <2> QED
    BY <2>2, <2>3, <2>4 DEF SaveProfile, IInv, CodesOK
<1>4. CASE ~(Exists(req[r].user) /\ NewProfile(req[r]))
  <2>1. Reply(r) /\ UNCHANGED <<user, session, profiles, assistant, code, admin>>
    BY <1>4 DEF SaveProfile
  <2> QED
    BY <2>1, NothingMoved, Replied DEF IInv, UsersOK, AssistantOK, AdminOK, CodesOK
<1> QED
  BY <1>3, <1>4

LEMMA FindCodeStep ==
    ASSUME IInv, NEW r \in Requests, FindCode(r) PROVE IInv'
<1>1. req[r].op = "signUp" /\ req[r].type = "ASSISTANT" /\ UNCHANGED <<user, session, profiles, assistant, code, admin>>
  BY DEF FindCode, At, accountVars
<1>2. RequestsOK'
  BY <1>1, NothingMoved, Replied, SignUpGoesOn DEF FindCode, Exists
<1> QED
  BY <1>1, <1>2 DEF IInv, UsersOK, AssistantOK, AdminOK, CodesOK

\* The user is locked, so it is there and its row is new; the code was handed out, so marking it spends it.
LEMMA CreateAssistantStep ==
    ASSUME IInv, NEW r \in Requests, CreateAssistant(r) PROVE IInv'
<1>1. SignUpOK(req[r]) /\ req[r] \in SignUpCall /\ req[r].step = "create"
  BY SignUpRemembers DEF CreateAssistant, At
<1>2. /\ req[r].user \in Users /\ req[r].code \in Codes /\ req[r].phone \in Phones /\ req[r].type = "ASSISTANT"
      /\ Exists(req[r].user) /\ code[req[r].code] # None /\ user[req[r].user].type # "ADMIN"
  BY <1>1 DEF SignUpCall, SignUpOK
<1>3. CASE ~NewProfile(req[r])
  <2>1. Reply(r) /\ UNCHANGED <<user, session, profiles, assistant, code, admin>>
    BY <1>2, <1>3 DEF CreateAssistant, MarkCode, IInv
  <2> QED
    BY <2>1, NothingMoved, Replied DEF IInv, UsersOK, AssistantOK, AdminOK, CodesOK
<1>4. CASE NewProfile(req[r])
  <2> DEFINE u == req[r].user
             k == req[r].code
             row == [status |-> "PENDING", phone |-> req[r].phone, linked |-> TRUE, deleted |-> FALSE, code |-> k]
  <2>1. /\ user' = [user EXCEPT ![u].type = "ASSISTANT"] /\ assistant' = [assistant EXCEPT ![u] = row]
        /\ code' = [code EXCEPT ![k] = IF @ = "fresh" THEN "used" ELSE @]
        /\ Reply(r) /\ UNCHANGED <<session, profiles, admin>>
    BY <1>2, <1>4 DEF CreateAssistant, MarkCode
  <2>2. user' \in [Users -> UserRow] /\ user'[u].type = "ASSISTANT" /\ \A v \in Users \ {u} : user'[v].type = user[v].type
    BY <1>2, <2>1, TypeSet DEF IInv, SignUpTypes
  <2>3. /\ row \in AssistantRow /\ assistant' \in [Users -> AssistantRow] /\ assistant'[u] = row
        /\ \A v \in Users \ {u} : assistant'[v] = assistant[v]
    BY <1>2, <2>1 DEF IInv, AssistantRow
  <2>4. /\ code' \in [Codes -> {None, "fresh", "used", "expired"}] /\ code'[k] \in {"used", "expired"}
        /\ \A l \in Codes \ {k} : code'[l] = code[l]
    BY <1>2, <2>1 DEF IInv
  <2>5. assistant[u].status = None /\ assistant[u].code = None
    BY <1>2, <1>4 DEF NewProfile, Exists, IInv, UsersOK, AssistantOK
  <2>6. Kept
    BY <1>2, <2>2, <2>3, <2>4, <2>5 DEF Kept, KeptUser, Exists
  <2>7. UsersOK'
    BY <1>2, <2>1, <2>2, <2>3 DEF UsersOK, AssistantOK, AdminOK, IInv
  <2>8. CodesOK'
    BY <1>2, <2>3, <2>4, <2>5, AccountsAssumption DEF CodesOK, IInv
  <2>9. RequestsOK'
    BY <2>1, <2>6, Replied
  <2> QED
    BY <2>1, <2>2, <2>3, <2>4, <2>7, <2>8, <2>9 DEF IInv
<1> QED
  BY <1>3, <1>4

\* Codes expire and are handed out; an assistant's code was handed out before.
LEMMA CodeStep ==
    ASSUME IInv, NEW k \in Codes, CreateCode(k) \/ CodeExpires(k) PROVE IInv'
<1>1. UNCHANGED <<user, session, profiles, assistant, admin>>
  BY DEF CreateCode, CodeExpires
<1>2. Framed
  BY ServeFramed DEF CreateCode, CodeExpires, serverVars, IInv, RequestsOK, Framed
<1>3. Kept
  BY <1>1 DEF CreateCode, CodeExpires, Kept, KeptUser, Exists, IInv
<1>4. CodesOK' /\ code' \in [Codes -> {None, "fresh", "used", "expired"}]
  BY <1>1 DEF CreateCode, CodeExpires, CodesOK, IInv
<1> QED
  BY <1>1, <1>2, <1>3, <1>4, RequestsFramed DEF IInv, UsersOK, AssistantOK, AdminOK

\* What a request on an assistant remembers.
LEMMA StaffRemembers ==
    ASSUME IInv, NEW r \in Requests, req[r].op \in StaffOps
    PROVE  StaffOK(req[r]) /\ req[r] \in StaffCall /\ req[r].user \in Users
  BY DEF IInv, RequestsOK, RequestOK, StaffOK, StaffCall

LEMMA BeginOnAssistantStep ==
    ASSUME IInv, NEW r \in Requests, BeginOnAssistant(r) PROVE IInv'
<1>1. PICK u \in Users, op \in StaffOps :
        /\ assistant[u].status # None
        /\ Begin(r, op, [op |-> op, step |-> IF op \in {"reject", "expire"} /\ assistant[u].linked
                                             THEN "remove" ELSE "write", user |-> u])
  BY DEF BeginOnAssistant, StaffOps
<1> DEFINE step == IF op \in {"reject", "expire"} /\ assistant[u].linked THEN "remove" ELSE "write"
<1>2. UNCHANGED <<user, session, profiles, assistant, code, admin>>
  BY DEF BeginOnAssistant, accountVars
<1>3. req'[r] = [op |-> op, step |-> step, user |-> u]
  BY <1>1 DEF Begin, IInv, RequestsOK
<1>4. RequestOK(r)'
  BY <1>1, <1>2, <1>3 DEF RequestOK, StaffOK, StaffCall, StaffOps, AdminOps
<1>5. RequestsOK'
  BY <1>1, <1>2, <1>4, NothingMoved, BeginStep
<1> QED
  BY <1>2, <1>5 DEF IInv, UsersOK, AssistantOK, AdminOK, CodesOK

\* An assistant's row changes, but not its user, its code or that it is there.
LEMMA AssistantChanged ==
    ASSUME IInv, NEW r \in Requests, Reply(r), UNCHANGED <<user, session, profiles, code, admin>>,
           assistant' \in [Users -> AssistantRow],
           \A u \in Users : /\ assistant'[u].linked = assistant[u].linked /\ assistant'[u].code = assistant[u].code
                            /\ (assistant'[u].status = None) = (assistant[u].status = None)
                            /\ assistant'[u].deleted /\ ~assistant[u].deleted => ~assistant[u].linked /\ assistant[u].status # None
    PROVE  IInv'
<1>1. Kept
  BY DEF Kept, KeptUser, Exists
<1>2. RequestsOK'
  BY <1>1, Replied
<1>3. UsersOK' /\ CodesOK'
  BY DEF IInv, UsersOK, AssistantOK, AdminOK, CodesOK
<1> QED
  BY <1>2, <1>3 DEF IInv

LEMMA UpdateAssistantStep ==
    ASSUME IInv, NEW r \in Requests, UpdateAssistant(r) PROVE IInv'
<1>1. req[r].user \in Users
  BY StaffRemembers DEF UpdateAssistant, At, StaffOps
<1> DEFINE u == req[r].user
<1>2. PICK phone \in Phones : assistant' = assistant \/ assistant' = [assistant EXCEPT ![u] = [assistant[u] EXCEPT !.phone = phone]]
  BY DEF UpdateAssistant
<1>3. [assistant[u] EXCEPT !.phone = phone] \in AssistantRow
  BY <1>1, AssistantRows DEF IInv
<1>4. assistant' \in [Users -> AssistantRow]
  BY <1>1, <1>2, <1>3 DEF IInv
<1>5. \A v \in Users : /\ assistant'[v].linked = assistant[v].linked /\ assistant'[v].code = assistant[v].code
                       /\ assistant'[v].status = assistant[v].status /\ assistant'[v].deleted = assistant[v].deleted
  BY <1>1, <1>2 DEF IInv, AssistantRow
<1> QED
  BY <1>4, <1>5, AssistantChanged DEF UpdateAssistant

LEMMA ApproveAssistantStep ==
    ASSUME IInv, NEW r \in Requests, ApproveAssistant(r) PROVE IInv'
<1>1. StaffOK(req[r]) /\ req[r].user \in Users
  BY StaffRemembers DEF ApproveAssistant, At, StaffOps
<1> DEFINE u == req[r].user
<1>2. assistant' = [assistant EXCEPT ![u] = [assistant[u] EXCEPT !.status = "SIGNED"]]
  BY DEF ApproveAssistant
<1>3. [assistant[u] EXCEPT !.status = "SIGNED"] \in AssistantRow
  BY <1>1, AssistantRows DEF IInv
<1>4. assistant' \in [Users -> AssistantRow]
  BY <1>1, <1>2, <1>3 DEF IInv
<1>5. \A v \in Users : /\ assistant'[v].linked = assistant[v].linked /\ assistant'[v].code = assistant[v].code
                       /\ (assistant'[v].status = None) = (assistant[v].status = None)
                       /\ assistant'[v].deleted = assistant[v].deleted
  BY <1>1, <1>2 DEF IInv, AssistantRow, StaffOK
<1> QED
  BY <1>4, <1>5, AssistantChanged DEF ApproveAssistant

\* The row has lost its user by now.
LEMMA ExpelAssistantStep ==
    ASSUME IInv, NEW r \in Requests, ExpelAssistant(r) PROVE IInv'
<1>1. StaffOK(req[r]) /\ req[r].user \in Users /\ ~assistant[req[r].user].linked /\ assistant[req[r].user].status # None
  BY StaffRemembers DEF ExpelAssistant, StaffOps, StaffOK
<1> DEFINE u == req[r].user
           status == IF req[r].op = "reject" THEN "REJECTED" ELSE "EXPIRED"
           row == [assistant[u] EXCEPT !.status = status, !.deleted = TRUE, !.phone = None]
<1>2. assistant' = [assistant EXCEPT ![u] = row]
  BY DEF ExpelAssistant
<1>3. row \in AssistantRow
  BY <1>1, AssistantRows DEF IInv
<1>4. assistant' \in [Users -> AssistantRow]
  BY <1>1, <1>2, <1>3 DEF IInv
<1>5. \A v \in Users : /\ assistant'[v].linked = assistant[v].linked /\ assistant'[v].code = assistant[v].code
                       /\ (assistant'[v].status = None) = (assistant[v].status = None)
                       /\ assistant'[v].deleted /\ ~assistant[v].deleted => ~assistant[v].linked /\ assistant[v].status # None
  BY <1>1, <1>2 DEF IInv, AssistantRow
<1> QED
  BY <1>4, <1>5, AssistantChanged DEF ExpelAssistant

LEMMA RemoveAssistantUserStep ==
    ASSUME IInv, NEW r \in Requests, RemoveAssistantUser(r) PROVE IInv'
<1>1. req[r].op \in StaffOps /\ StaffOK(req[r]) /\ req[r] \in StaffCall /\ req[r].user \in Users
  BY StaffRemembers DEF RemoveAssistantUser, StaffOps
<1> DEFINE u == req[r].user
<1>2. CASE user[u].type = "ASSISTANT"
  <2>1. Removed(u) /\ ~UserLocked(u) /\ UNCHANGED <<session, code>> /\ Proceed(r, [req[r] EXCEPT !.step = "write"])
    BY <1>2 DEF RemoveAssistantUser, RemoveUser
  <2>2. /\ Kept /\ UsersOK' /\ CodesOK'
        /\ user' \in [Users -> UserRow] /\ profiles' \subseteq ProfileRow
        /\ assistant' \in [Users -> AssistantRow] /\ admin' \in [Users -> AdminRow]
    BY <1>1, <2>1, RemovedKeeps
  <2>3. req'[r] = [req[r] EXCEPT !.step = "write"]
    BY <2>1 DEF Proceed, IInv, RequestsOK
  <2>4. req'[r] \in StaffCall /\ req'[r].user = u /\ req'[r].op = req[r].op
    BY <1>1, <2>3 DEF StaffCall
  <2>5. assistant'[u].status # None /\ ~assistant'[u].linked
    BY <1>1, <2>1 DEF Removed, StaffOK, IInv, AssistantRow
  <2>6. RequestOK(r)'
    BY <1>1, <2>4, <2>5 DEF RequestOK, StaffOK, StaffCall, StaffOps, AdminOps
  <2> QED
    BY <2>1, <2>2, <2>6, RequestsKept DEF IInv
<1>3. CASE user[u].type # "ASSISTANT"
  <2>1. Reply(r) /\ UNCHANGED <<user, session, profiles, assistant, code, admin>>
    BY <1>3 DEF RemoveAssistantUser
  <2> QED
    BY <2>1, NothingMoved, Replied DEF IInv, UsersOK, AssistantOK, AdminOK, CodesOK
<1> QED
  BY <1>2, <1>3

LEMMA BeginInviteStep ==
    ASSUME IInv, NEW r \in Requests, BeginInvite(r) PROVE IInv'
<1>1. PICK u \in Users, step \in {"create", "resend"} : Begin(r, "invite", [op |-> "invite", step |-> step, user |-> u])
  BY DEF BeginInvite
<1>2. UNCHANGED <<user, session, profiles, assistant, code, admin>>
  BY DEF BeginInvite, accountVars
<1>3. req'[r] = [op |-> "invite", step |-> step, user |-> u]
  BY <1>1 DEF Begin, IInv, RequestsOK
<1>4. RequestOK(r)'
  BY <1>3 DEF RequestOK, AdminCall, StaffOps, AdminOps
<1>5. RequestsOK'
  BY <1>1, <1>2, <1>4, NothingMoved, BeginStep
<1> QED
  BY <1>2, <1>5 DEF IInv, UsersOK, AssistantOK, AdminOK, CodesOK

LEMMA AdminRemembers ==
    ASSUME IInv, NEW r \in Requests, req[r].op \in AdminOps PROVE req[r].user \in Users
  BY DEF IInv, RequestsOK, RequestOK, AdminCall

LEMMA CreateAdminStep ==
    ASSUME IInv, NEW r \in Requests, CreateAdmin(r) PROVE IInv'
<1> DEFINE u == req[r].user
<1>1. u \in Users
  BY AdminRemembers DEF CreateAdmin, At, AdminOps
<1>2. CASE user[u].type = None
  <2>1. /\ user' = [user EXCEPT ![u].type = "ADMIN"] /\ Reply(r) /\ UNCHANGED <<session, profiles, assistant, code>>
        /\ admin' = [admin EXCEPT ![u] = [admin[u] EXCEPT !.status = "PENDING_ACTIVATION"]]
    BY <1>2 DEF CreateAdmin
  <2>2. user' \in [Users -> UserRow] /\ user'[u].type = "ADMIN" /\ \A v \in Users \ {u} : user'[v].type = user[v].type
    BY <1>1, <2>1, TypeSet DEF IInv
  <2>3. admin' \in [Users -> AdminRow] /\ \A v \in Users \ {u} : admin'[v] = admin[v]
    BY <1>1, <2>1, AdminRows DEF IInv
  <2>4. Kept
    BY <1>2, <2>1, <2>2 DEF Kept, KeptUser, Exists
  <2>5. UsersOK'
    BY <1>2, <2>1, <2>2, <2>3 DEF UsersOK, AssistantOK, AdminOK, IInv
  <2> QED
    BY <2>1, <2>2, <2>3, <2>4, <2>5, Replied DEF IInv, CodesOK
<1>3. CASE user[u].type # None
  <2>1. Reply(r) /\ UNCHANGED <<user, session, profiles, assistant, code, admin>>
    BY <1>3 DEF CreateAdmin
  <2> QED
    BY <2>1, NothingMoved, Replied DEF IInv, UsersOK, AssistantOK, AdminOK, CodesOK
<1> QED
  BY <1>2, <1>3

\* An administrator's row changes and is there before as after.
LEMMA AdminChanged ==
    ASSUME IInv, NEW r \in Requests, Reply(r), UNCHANGED <<user, session, profiles, assistant, code>>,
           admin' \in [Users -> AdminRow], \A u \in Users : admin[u].status = None => admin'[u].status = None
    PROVE  IInv'
<1>1. RequestsOK'
  BY NothingMoved, Replied
<1> QED
  BY <1>1 DEF IInv, UsersOK, AssistantOK, AdminOK, CodesOK

LEMMA ResendInvitationStep ==
    ASSUME IInv, NEW r \in Requests, ResendInvitation(r) PROVE IInv'
<1>1. req[r].user \in Users
  BY AdminRemembers DEF ResendInvitation, At, AdminOps
<1>2. InvitedAgain(admin[req[r].user]) \in AdminRow
  BY <1>1, AdminRows DEF IInv
<1>3. admin' \in [Users -> AdminRow] /\ \A u \in Users : admin[u].status = None => admin'[u].status = None
  BY <1>1, <1>2 DEF ResendInvitation, IInv
<1> QED
  BY <1>3, AdminChanged DEF ResendInvitation

LEMMA ActivateAdminStep ==
    ASSUME IInv, NEW r \in Requests, ActivateAdmin(r) PROVE IInv'
<1> DEFINE u == req[r].user
<1>1. u \in Users
  BY AdminRemembers DEF ActivateAdmin, At, AdminOps
<1>2. [admin[u] EXCEPT !.status = "ACTIVE"] \in AdminRow
  BY <1>1, AdminRows DEF IInv
<1>3. admin' = IF admin[u].status = None THEN admin ELSE [admin EXCEPT ![u] = [admin[u] EXCEPT !.status = "ACTIVE"]]
  BY DEF ActivateAdmin
<1>4. admin' \in [Users -> AdminRow] /\ \A v \in Users : admin[v].status = None => admin'[v].status = None
  BY <1>1, <1>2, <1>3 DEF IInv
<1> QED
  BY <1>4, AdminChanged DEF ActivateAdmin

LEMMA BeginActivateStep ==
    ASSUME IInv, NEW r \in Requests, BeginActivate(r) PROVE IInv'
<1>1. PICK u \in Users :
        /\ Begin(r, "activate", [op |-> "activate", step |-> "save", user |-> u])
        /\ user' = [user EXCEPT ![u] = [user[u] EXCEPT !.password = TRUE]]
  BY DEF BeginActivate
<1>2. [user[u] EXCEPT !.password = TRUE] \in UserRow /\ [user[u] EXCEPT !.password = TRUE].type = user[u].type
  BY UserRows DEF IInv
<1>3. /\ user' \in [Users -> UserRow] /\ \A v \in Users : user'[v].type = user[v].type
      /\ UNCHANGED <<session, profiles, assistant, code, admin>>
  BY <1>1, <1>2 DEF BeginActivate, IInv
<1>4. Kept
  BY <1>3 DEF Kept, KeptUser, Exists
<1>5. req'[r] = [op |-> "activate", step |-> "save", user |-> u]
  BY <1>1 DEF Begin, IInv, RequestsOK
<1>6. RequestOK(r)'
  BY <1>5 DEF RequestOK, AdminCall, StaffOps, AdminOps
<1>7. RequestsOK'
  BY <1>1, <1>4, <1>6, BeginStep
<1> QED
  BY <1>3, <1>7 DEF IInv, UsersOK, AssistantOK, AdminOK, CodesOK

LEMMA AccountsStep ==
    ASSUME IInv, AccountsNext PROVE IInv'
<1>1. ASSUME NEW u \in Users, VerifyEmail(u) \/ SignIn(u) \/ SignOut(u) \/ SessionRenewed(u) \/ Withdraw(u) PROVE IInv'
  BY <1>1, VerifyEmailStep, SessionStep, WithdrawStep
<1>2. ASSUME NEW k \in Codes, CreateCode(k) \/ CodeExpires(k) PROVE IInv'
  BY <1>2, CodeStep
<1>3. CASE SignUpNext
  BY <1>3, BeginSignUpStep, SetPasswordStep, SetTypeStep, SaveProfileStep, FindCodeStep, CreateAssistantStep DEF SignUpNext
<1>4. CASE AssistantNext
  BY <1>4, BeginOnAssistantStep, UpdateAssistantStep, ApproveAssistantStep, RemoveAssistantUserStep, ExpelAssistantStep
     DEF AssistantNext
<1>5. CASE AdminNext
  BY <1>5, BeginInviteStep, CreateAdminStep, ResendInvitationStep, BeginActivateStep, ActivateAdminStep DEF AdminNext
<1> QED
  BY <1>1, <1>2, <1>3, <1>4, <1>5 DEF AccountsNext

\* The users and the profiles of a class, and those of a staffed academy, are rows of their kinds.
LEMMA InitInv ==
    ASSUME Init PROVE IInv
<1>1. RequestsOK
  BY IdleForeign DEF Init, ServerInit, RequestsOK, RequestOK, Foreign, AccountOps
<1>2. CASE StartEmpty
  BY <1>1, <1>2, AccountsAssumption DEF StartEmpty, AccountsInit, IInv, UsersOK, AssistantOK, AdminOK, CodesOK,
     NoAssistant, NoAdmin, UserRow, AssistantRow, AdminRow
<1>3. CASE StartVerified
  BY <1>1, <1>3, AccountsAssumption DEF StartVerified, IInv, UsersOK, AssistantOK, AdminOK, CodesOK, NoAssistant, NoAdmin,
     UserRow, AssistantRow, AdminRow
<1>4. CASE StartClass
  <2>1. PICK s, p \in Users, m, n \in Phones :
          LET types == [u \in Users |-> CASE u = s -> "STUDENT" [] u = p -> "PARENT" [] OTHER -> "PENDING"] IN
          /\ user = [u \in Users |-> [type |-> types[u], password |-> types[u] # "PENDING"]]
          /\ session = types
          /\ profiles = {[type |-> "STUDENT", user |-> s, phone |-> m, parentPhone |-> n],
                         [type |-> "PARENT", user |-> p, phone |-> n, parentPhone |-> None]}
          /\ assistant = [u \in Users |-> NoAssistant] /\ admin = [u \in Users |-> NoAdmin]
          /\ code = [k \in Codes |-> None]
    BY <1>4 DEF StartClass
  <2> DEFINE types == [u \in Users |-> CASE u = s -> "STUDENT" [] u = p -> "PARENT" [] OTHER -> "PENDING"]
  <2>2. types \in [Users -> {"STUDENT", "PARENT", "PENDING"}]
    OBVIOUS
  <2>3. user \in [Users -> UserRow] /\ session \in [Users -> SignUpTypes \cup {None, "PENDING", "ADMIN"}]
    BY <2>1, <2>2 DEF UserRow, SignUpTypes
  <2>4. profiles \subseteq ProfileRow
    BY <2>1 DEF ProfileRow, SignUpTypes
  <2>5. /\ assistant \in [Users -> AssistantRow] /\ admin \in [Users -> AdminRow]
        /\ code \in [Codes -> {None, "fresh", "used", "expired"}]
    BY <2>1 DEF NoAssistant, NoAdmin, AssistantRow, AdminRow
  <2>6. UsersOK /\ CodesOK
    BY <2>1, AccountsAssumption DEF UsersOK, AssistantOK, AdminOK, CodesOK, NoAssistant, NoAdmin
  <2> QED
    BY <1>1, <2>3, <2>4, <2>5, <2>6 DEF IInv
<1>5. CASE StartStaffed
  <2>1. PICK u \in Users, k \in Codes, m \in Phones :
          LET types == [v \in Users |-> IF v = u THEN "ASSISTANT" ELSE "PENDING"] IN
          /\ user = [v \in Users |-> [type |-> types[v], password |-> v = u]]
          /\ session = types
          /\ profiles = {}
          /\ assistant = [v \in Users |-> IF v # u THEN NoAssistant ELSE
               [status |-> "SIGNED", phone |-> m, linked |-> TRUE, deleted |-> FALSE, code |-> k]]
          /\ admin = [v \in Users |-> NoAdmin]
          /\ code = [c \in Codes |-> IF c = k THEN "used" ELSE None]
    BY <1>5, ZenonT(60) DEF StartStaffed
  <2> DEFINE types == [v \in Users |-> IF v = u THEN "ASSISTANT" ELSE "PENDING"]
  <2>2. types \in [Users -> {"ASSISTANT", "PENDING"}]
    OBVIOUS
  <2>3. user \in [Users -> UserRow] /\ session \in [Users -> SignUpTypes \cup {None, "PENDING", "ADMIN"}]
    BY <2>1, <2>2 DEF UserRow, SignUpTypes
  <2>4. /\ assistant \in [Users -> AssistantRow] /\ admin \in [Users -> AdminRow]
        /\ code \in [Codes -> {None, "fresh", "used", "expired"}]
    BY <2>1 DEF NoAssistant, NoAdmin, AssistantRow, AdminRow
  <2>5. UsersOK /\ CodesOK
    BY <2>1, AccountsAssumption DEF UsersOK, AssistantOK, AdminOK, CodesOK, NoAssistant, NoAdmin
  <2> QED
    BY <1>1, <2>1, <2>3, <2>4, <2>5 DEF IInv
<1> QED
  BY <1>2, <1>3, <1>4, <1>5 DEF Init

LEMMA NextInv ==
    ASSUME IInv, [Next]_vars PROVE IInv'
<1> USE DEF accountVars
<1>a. AccountOps \cap (RosterOps \cup BoardOps \cup LibraryOps \cup PlannerOps) = {}
  BY DEF AccountOps, StaffOps, AdminOps, RosterOps, BoardOps, LibraryOps, PlannerOps
<1>0. RequestsOK /\ profiles \subseteq ProfileRow
  BY DEF IInv
<1>1. CASE AccountsNext
  BY <1>1, AccountsStep
<1>2. CASE RosterNext
  BY <1>0, <1>2, <1>a, RosterFrames, MovedFrames, ProfilesTyped, OthersStep
<1>3. CASE BoardNext /\ UNCHANGED accountVars
  BY <1>0, <1>3, <1>a, BoardFrames, MovedFrames, OthersStep
<1>4. CASE LibraryNext /\ UNCHANGED accountVars
  BY <1>0, <1>4, <1>a, LibraryFrames, MovedFrames, OthersStep
<1>5. CASE PlannerNext /\ UNCHANGED accountVars
  BY <1>0, <1>5, <1>a, PlannerFrames, MovedFrames, OthersStep
<1>6. ASSUME NEW r \in Requests, BoardAbort(r), UNCHANGED accountVars PROVE IInv'
  BY <1>0, <1>6, ReplyFramed, OthersStep DEF BoardAbort, Abort
<1>7. CASE UNCHANGED vars
  <2>1. UNCHANGED <<req, user, session, profiles, assistant, code, admin>>
    BY <1>7 DEF vars, serverVars
  <2> QED
    BY <1>0, <2>1, OthersStep DEF Framed, RequestsOK
<1> QED
  BY <1>1, <1>2, <1>3, <1>4, <1>5, <1>6, <1>7 DEF Next

\* The rows of accounts, and what the requests in flight remember of them, are as described in every
\* reachable state.
THEOREM Invariance == Spec => []IInv
  BY InitInv, NextInv, PTL DEF Spec

-----------------------------------------------------------------------------
\* The rows of users, profiles, assistants, codes and administrators keep their shape, whatever the
\* other parts of the server do (the models of schema.prisma).
THEOREM AccountsTyped == Spec => []AccountsTypeOK
<1>1. IInv => AccountsTypeOK
  BY DEF IInv
<1> QED
  BY <1>1, Invariance, PTL

\* The mark on a code and the assistant it gave are saved together (createAssistant).
THEOREM CodesAreSpent == Spec => []CodesSpent
<1>1. IInv => CodesSpent
  BY DEF IInv, CodesOK, CodesSpent
<1> QED
  BY <1>1, Invariance, PTL

\* An assistant who was rejected or has left is admitted nowhere: a row is deleted only when it has lost
\* its user, and a user who is gone never comes back to it (rejectAssistant, expireAssistant).
THEOREM ExpelledStayOut == Spec => []ExpelledNotAdmitted
<1>1. IInv => ExpelledNotAdmitted
  BY DEF IInv, UsersOK, AssistantOK, ExpelledNotAdmitted, Admitted
<1> QED
  BY <1>1, Invariance, PTL

LEMMA ActivatedStep ==
    ASSUME IInv, [Next]_vars, NEW u \in Users, admin[u].status = "ACTIVE"
    PROVE  admin'[u].status = "ACTIVE" \/ user'[u].type = "gone"
<1>1. ASSUME NEW v \in Users, Removed(v) PROVE admin'[u].status = "ACTIVE" \/ user'[u].type = "gone"
  BY <1>1 DEF Removed, Gone, IInv
<1>2. ASSUME NEW v \in Users, VerifyEmail(v) \/ SignIn(v) \/ SignOut(v) \/ SessionRenewed(v) PROVE UNCHANGED admin
  BY <1>2 DEF VerifyEmail, SignIn, SignOut, SessionRenewed
<1>3. ASSUME NEW v \in Users, Withdraw(v) PROVE Removed(v)
  BY <1>3 DEF Withdraw
<1>4. ASSUME NEW k \in Codes, CreateCode(k) \/ CodeExpires(k) PROVE UNCHANGED admin
  BY <1>4 DEF CreateCode, CodeExpires
<1>5. CASE SignUpNext
  BY <1>5 DEF SignUpNext, BeginSignUp, SetPassword, SetType, SaveProfile, FindCode, CreateAssistant, accountVars
<1>6. ASSUME NEW r \in Requests,
             BeginOnAssistant(r) \/ UpdateAssistant(r) \/ ApproveAssistant(r) \/ ExpelAssistant(r)
      PROVE  UNCHANGED admin
  BY <1>6 DEF BeginOnAssistant, UpdateAssistant, ApproveAssistant, ExpelAssistant, accountVars
<1>7. ASSUME NEW r \in Requests, RemoveAssistantUser(r)
      PROVE  UNCHANGED admin \/ \E v \in Users : Removed(v)
  <2>1. req[r].user \in Users
    BY <1>7, StaffRemembers DEF RemoveAssistantUser, StaffOps
  <2> QED
    BY <1>7, <2>1 DEF RemoveAssistantUser, RemoveUser
<1>8. ASSUME NEW r \in Requests, BeginInvite(r) \/ BeginActivate(r) PROVE UNCHANGED admin
  BY <1>8 DEF BeginInvite, BeginActivate, accountVars
<1>9. ASSUME NEW r \in Requests, CreateAdmin(r) PROVE admin'[u] = admin[u]
  BY <1>9 DEF CreateAdmin, IInv, UsersOK, AdminOK
<1>10. ASSUME NEW r \in Requests, ResendInvitation(r) PROVE admin'[u].status = "ACTIVE"
  BY <1>10, AdminRows DEF ResendInvitation, IInv
<1>11. ASSUME NEW r \in Requests, ActivateAdmin(r) PROVE admin'[u].status = "ACTIVE"
  BY <1>11 DEF ActivateAdmin, IInv, AdminRow
<1>12. CASE AccountsNext
  <2>1. CASE AssistantNext
    BY <1>1, <1>6, <1>7, <2>1 DEF AssistantNext
  <2>2. CASE AdminNext
    BY <1>8, <1>9, <1>10, <1>11, <2>2 DEF AdminNext
  <2>3. CASE (\E v \in Users : VerifyEmail(v) \/ SignIn(v) \/ SignOut(v) \/ SessionRenewed(v) \/ Withdraw(v))
             \/ \E k \in Codes : CreateCode(k) \/ CodeExpires(k)
    BY <1>1, <1>2, <1>3, <1>4, <2>3
  <2> QED
    BY <1>5, <1>12, <2>1, <2>2, <2>3 DEF AccountsNext
<1>13. CASE RosterNext
  BY <1>13, ProfilesTyped
<1>14. CASE UNCHANGED accountVars
  BY <1>14 DEF accountVars
<1> QED
  BY <1>12, <1>13, <1>14 DEF Next, vars

\* Whoever was activated as an administrator stays one until the account is removed, whatever invitation
\* read the status before (inviteAdmin, completeAdminActivation).
THEOREM ActivationLasts == Spec => ActivatedStays
<1>1. IInv /\ [Next]_vars
        => [\A u \in Users : admin[u].status = "ACTIVE" => admin'[u].status = "ACTIVE" \/ user'[u].type = "gone"]_accountVars
  BY ActivatedStep
<1> QED
  BY <1>1, Invariance, PTL DEF Spec, ActivatedStays
-----------------------------------------------------------------------------
(***************************************************************************)
(* The roster.  An enrollment carries the phone numbers of its student, or *)
(* is marked with what has parted them; one without a student or a child   *)
(* link matches none, or is marked.  What the requests in flight found is  *)
(* compared with what there is when they save.                             *)
(***************************************************************************)
LEMMA AccountsFrames ==
    ASSUME RequestsOK, AccountsNext PROVE Moved(AccountOps)
<1> USE DEF Of, AccountOps, StaffOps, AdminOps, DropOps
<1>1. ASSUME NEW u \in Users, VerifyEmail(u) \/ SignIn(u) \/ SignOut(u) \/ Withdraw(u) PROVE Moved(AccountOps)
  BY <1>1, ServeFrames DEF VerifyEmail, SignIn, SignOut, Withdraw
<1>2. ASSUME UNCHANGED serverVars PROVE Moved(AccountOps)
  BY <1>2 DEF serverVars, Moved, RequestsOK
<1>3. ASSUME NEW u \in Users, SessionRenewed(u) PROVE Moved(AccountOps)
  BY <1>2, <1>3 DEF SessionRenewed
<1>4. ASSUME NEW k \in Codes, CreateCode(k) \/ CodeExpires(k) PROVE Moved(AccountOps)
  BY <1>2, <1>4, ServeFrames DEF CreateCode, CodeExpires
<1>5. ASSUME NEW r \in Requests, BeginSignUp(r) PROVE Moved(AccountOps)
  BY <1>5, BeginFrames DEF BeginSignUp
<1>6. ASSUME NEW r \in Requests, SetPassword(r) \/ SetType(r) \/ FindCode(r) PROVE Moved(AccountOps)
  BY <1>6, OnwardFrames, ReplyFrames DEF SetPassword, SetType, FindCode, At
<1>7. ASSUME NEW r \in Requests, SaveProfile(r) \/ CreateAssistant(r) PROVE Moved(AccountOps)
  BY <1>7, ReplyFrames DEF SaveProfile, CreateAssistant, At
<1>8. ASSUME NEW r \in Requests, BeginOnAssistant(r) PROVE Moved(AccountOps)
  BY <1>8, BeginFrames DEF BeginOnAssistant
<1>9. ASSUME NEW r \in Requests, UpdateAssistant(r) \/ ApproveAssistant(r) \/ ExpelAssistant(r) PROVE Moved(AccountOps)
  BY <1>9, ReplyFrames DEF UpdateAssistant, ApproveAssistant, ExpelAssistant, At
<1>10. ASSUME NEW r \in Requests, RemoveAssistantUser(r) PROVE Moved(AccountOps)
  BY <1>10, OnwardFrames, ReplyFrames DEF RemoveAssistantUser
<1>11. ASSUME NEW r \in Requests, BeginInvite(r) \/ BeginActivate(r) PROVE Moved(AccountOps)
  BY <1>11, BeginFrames DEF BeginInvite, BeginActivate
<1>12. ASSUME NEW r \in Requests, CreateAdmin(r) \/ ResendInvitation(r) \/ ActivateAdmin(r) PROVE Moved(AccountOps)
  BY <1>12, ReplyFrames DEF CreateAdmin, ResendInvitation, ActivateAdmin, At
<1> QED
  BY <1>1, <1>3, <1>4, <1>5, <1>6, <1>7, <1>8, <1>9, <1>10, <1>11, <1>12 DEF AccountsNext, SignUpNext, AssistantNext, AdminNext

\* What the requests of the roster remember.
FoundRow == [student: Users \cup {None}, link: LinkRow \cup {NoLink}]
ResolvedRow == [phone: Phones, parentPhone: Phones, student: Users \cup {None}, link: LinkRow \cup {NoLink}]
NothingFound == [student |-> None, link |-> NoLink]
ReusedOK(u) == u.id \in Enrollments /\ u.by \in ResolvedRow /\ u.was.phone = u.by.phone
EnrolOK(q) ==
    /\ q.lecture \in LectureIds
    /\ q.step = "match" => q.list \subseteq PhonePair
    /\ q.step = "save" => q.new \subseteq ResolvedRow /\ \A u \in q.reused : ReusedOK(u)
UpdateOK(q) ==
    /\ q.id \in Enrollments /\ q.status \in Statuses \cup {None} /\ q.found \in FoundRow
    /\ q.phone \in Phones \cup {None} /\ q.parentPhone \in Phones \cup {None}
    /\ q.edits <=> q.phone # None \/ q.parentPhone # None
    /\ ~q.edits => q.found = NothingFound
    /\ q.by.phone = (IF q.phone = None THEN q.was.phone ELSE q.phone)
    /\ q.by.parentPhone = (IF q.parentPhone = None THEN q.was.parentPhone ELSE q.parentPhone)
RosterCallOK(q) ==
    /\ q.op = "enrol" => EnrolOK(q)
    /\ q.op = "migrate" => q.new \subseteq LectureIds \X Enrollments
    /\ q.op = "update" => UpdateOK(q)
    /\ q.op = "child" => q.link \in LinkRow
RosterCalls == \A r \in Requests : RosterCallOK(req[r])

\* Who goes by a pair of phone numbers.
Claimed(u, phone, parentPhone) ==
    \E p \in profiles : p.type = "STUDENT" /\ p.user = u /\ p.phone = phone /\ p.parentPhone = parentPhone
Unclaimed(phone, parentPhone) ==
    \A p \in profiles : p.type = "STUDENT" => p.phone # phone \/ p.parentPhone # parentPhone
Unlinked(phone, parentPhone) ==
    \A l \in links, p \in profiles : p.type = "PARENT" /\ l.parent = p.user => l.child # phone \/ p.phone # parentPhone

\* NoMissedLink, PhonesInStep and DroppedIffDeleted of one row.
Matched(row) ==
    row.history \cap {"raced", "released"} = {} =>
      /\ row.student = None => Unclaimed(row.phone, row.parentPhone)
      /\ row.link = NoLink /\ "resynced" \notin row.history => Unlinked(row.phone, row.parentPhone)
InStep(row) ==
    row.student # None /\ row.history \cap {"raced", "released", "edited", "mixed"} = {} =>
      Claimed(row.student, row.phone, row.parentPhone)
RowOK(row) ==
    /\ row.deleted <=> row.status = "DROPPED"
    /\ row.deleted => "released" \in row.history
    /\ Matched(row) /\ InStep(row)

ProfilesDistinct ==
    \A p, q \in profiles : p.type = q.type /\ (p.user = q.user \/ p.phone = q.phone) => p = q
LinksHeld == \A l \in links : \E p \in profiles : p.type = "PARENT" /\ p.user = l.parent

RosterRows == RosterTypeOK /\ ProfilesDistinct /\ LinksHeld /\ \A e \in There : RowOK(enrollment[e])
RosterInv == RosterRows /\ RosterCalls

\* What matching phone numbers finds.
LEMMA Finding ==
    ASSUME profiles \subseteq ProfileRow, links \subseteq LinkRow, NEW ps
    PROVE  /\ Matches(ps) \in FoundRow
           /\ StudentOf(ps) = None <=> Unclaimed(ps.phone, ps.parentPhone)
           /\ StudentOf(ps) # None => Claimed(StudentOf(ps), ps.phone, ps.parentPhone)
           /\ LinkOf(ps) = NoLink <=> Unlinked(ps.phone, ps.parentPhone)
<1> DEFINE found == {p \in profiles : p.type = "STUDENT" /\ p.phone = ps.phone /\ p.parentPhone = ps.parentPhone}
<1> DEFINE parents == {p.user : p \in {q \in profiles : q.type = "PARENT" /\ q.phone = ps.parentPhone}}
<1> DEFINE linked == {l \in links : l.child = ps.phone /\ l.parent \in parents}
<1>1. ASSUME found = {} PROVE StudentOf(ps) = None /\ Unclaimed(ps.phone, ps.parentPhone)
  BY <1>1 DEF StudentOf, Unclaimed
<1>2. ASSUME found # {}
      PROVE  /\ StudentOf(ps) # None /\ ~Unclaimed(ps.phone, ps.parentPhone)
             /\ Claimed(StudentOf(ps), ps.phone, ps.parentPhone)
  <2>1. PICK p \in found : StudentOf(ps) = p.user
    BY <1>2 DEF StudentOf
  <2>2. p \in profiles /\ p.user \in Users
    BY <2>1 DEF ProfileRow
  <2> QED
    BY <2>1, <2>2, AccountsAssumption DEF Unclaimed, Claimed
<1>3. LinkOf(ps) \in LinkRow \cup {NoLink} /\ (LinkOf(ps) = NoLink <=> linked = {})
  <2>1. NoLink \notin LinkRow
    BY AccountsAssumption DEF NoLink, LinkRow
  <2>0. LinkOf(ps) = IF linked = {} THEN NoLink ELSE CHOOSE l \in linked : TRUE
    BY Zenon DEF LinkOf
  <2> HIDE DEF linked
  <2>2. CASE linked = {}
    BY <2>0, <2>2
  <2>3. CASE linked # {}
    <3>1. LinkOf(ps) \in linked
      BY <2>0, <2>3
    <3>2. linked \subseteq LinkRow
      BY DEF linked
    <3> QED
      BY <2>1, <2>3, <3>1, <3>2
  <2> QED
    BY <2>2, <2>3
<1>4. linked = {} <=> Unlinked(ps.phone, ps.parentPhone)
  BY DEF Unlinked
<1>5. StudentOf(ps) \in Users \cup {None}
  <2>1. CASE found = {}
    BY <2>1 DEF StudentOf
  <2>2. CASE found # {}
    BY <2>2 DEF StudentOf, ProfileRow
  <2> QED
    BY <2>1, <2>2
<1> QED
  BY <1>1, <1>2, <1>3, <1>4, <1>5 DEF Matches, FoundRow


-----------------------------------------------------------------------------
\* What becomes of a row.
FieldsKept(row, new) == new.there = row.there /\ new.status = row.status /\ new.deleted = row.deleted
PhonesKept(row, new) == new.phone = row.phone /\ new.parentPhone = row.parentPhone

LEMMA MarkedRow ==
    ASSUME NEW row \in EnrollmentRow, NEW words \in SUBSET {"raced", "released", "resynced", "edited", "mixed"}
    PROVE  /\ Marked(row, words) \in EnrollmentRow /\ Marked(row, words).history = row.history \cup words
           /\ FieldsKept(row, Marked(row, words)) /\ PhonesKept(row, Marked(row, words))
           /\ Marked(row, words).student = row.student /\ Marked(row, words).link = row.link
  BY DEF Marked, EnrollmentRow, FieldsKept, PhonesKept

\* What was found fills a row, or replaces what it has.
Filled(was, found) == IF found = None THEN was ELSE found
Joined(was, found) == IF found = NoLink THEN was ELSE found
LEMMA GivenRow ==
    ASSUME NEW row \in EnrollmentRow, NEW found, found.student \in Users \cup {None}, found.link \in LinkRow \cup {NoLink}
    PROVE  /\ Gives(found, row) \in EnrollmentRow /\ Gives(found, row).history = row.history
           /\ FieldsKept(row, Gives(found, row)) /\ PhonesKept(row, Gives(found, row))
           /\ Gives(found, row).student = Filled(row.student, found.student)
           /\ Gives(found, row).link = Joined(row.link, found.link)
  BY DEF Gives, EnrollmentRow, FieldsKept, PhonesKept, Filled, Joined

LEMMA ChangedRow ==
    ASSUME NEW row \in EnrollmentRow, NEW phone \in Phones \cup {None}, NEW parentPhone \in Phones \cup {None}
    PROVE  /\ Changed(row, phone, parentPhone) \in EnrollmentRow
           /\ FieldsKept(row, Changed(row, phone, parentPhone))
           /\ Changed(row, phone, parentPhone).phone = (IF phone = None THEN row.phone ELSE phone)
           /\ Changed(row, phone, parentPhone).parentPhone = (IF parentPhone = None THEN row.parentPhone ELSE parentPhone)
           /\ Changed(row, phone, parentPhone).student = row.student /\ Changed(row, phone, parentPhone).link = row.link
           /\ Changed(row, phone, parentPhone).history = row.history
  BY DEF Changed, EnrollmentRow, FieldsKept

LEMMA MarkOK == ASSUME NEW word, NEW when PROVE Mark(word, when) \subseteq {word} /\ (word \in Mark(word, when) <=> when)
  BY DEF Mark

LEMMA BlankRow == NoEnrollment \in EnrollmentRow
  BY DEF NoEnrollment, EnrollmentRow, NoLink, LinkRow

\* A new row has what was found, and tells when that is no longer what its numbers match.
LEMMA CreatedRow ==
    ASSUME NEW n \in ResolvedRow
    PROVE  LET new == Created(n) IN
           /\ new \in EnrollmentRow /\ new.there /\ new.status = "ACTIVE" /\ ~new.deleted
           /\ new.phone = n.phone /\ new.parentPhone = n.parentPhone
           /\ new.student = n.student /\ new.link = n.link
           /\ "raced" \notin new.history => Matches(n) = [student |-> n.student, link |-> n.link]
<1> DEFINE row == [NoEnrollment EXCEPT !.there = TRUE, !.phone = n.phone, !.parentPhone = n.parentPhone]
<1> DEFINE raced == Mark("raced", Matches(n) # [student |-> n.student, link |-> n.link])
<1>1. n.phone \in Phones /\ n.parentPhone \in Phones /\ n.student \in Users \cup {None} /\ n.link \in LinkRow \cup {NoLink}
  BY DEF ResolvedRow
<1>2. /\ row \in EnrollmentRow /\ row.there /\ row.status = "ACTIVE" /\ ~row.deleted /\ row.phone = n.phone
      /\ row.parentPhone = n.parentPhone /\ row.student = None /\ row.link = NoLink
  BY <1>1 DEF NoEnrollment, EnrollmentRow, NoLink, LinkRow
<1>3. raced \in SUBSET {"raced", "released", "resynced", "edited", "mixed"}
      /\ ("raced" \in raced <=> Matches(n) # [student |-> n.student, link |-> n.link])
  BY MarkOK
<1>4. Created(n) = Marked(Gives(n, row), raced)
  BY DEF Created
<1> HIDE DEF row, raced
<1> DEFINE given == Gives(n, row)
<1>5. /\ given \in EnrollmentRow /\ FieldsKept(row, given) /\ PhonesKept(row, given)
      /\ given.student = Filled(row.student, n.student) /\ given.link = Joined(row.link, n.link)
  BY <1>1, <1>2, GivenRow
<1> HIDE DEF given
<1>6. LET new == Marked(given, raced) IN
      /\ new \in EnrollmentRow /\ FieldsKept(given, new) /\ PhonesKept(given, new)
      /\ new.student = given.student /\ new.link = given.link /\ new.history = given.history \cup raced
  BY <1>3, <1>5, MarkedRow
<1> QED
  BY <1>2, <1>3, <1>4, <1>5, <1>6 DEF FieldsKept, PhonesKept, Filled, Joined, given

\* A row that is reused keeps what it has; what it gets is what its numbers match, or it is marked.
LEMMA ReusedRow ==
    ASSUME NEW row \in EnrollmentRow, NEW u, ReusedOK(u)
    PROVE  LET new == Reused(u, row) IN
           /\ new \in EnrollmentRow /\ FieldsKept(row, new) /\ PhonesKept(row, new) /\ row.history \subseteq new.history
           /\ row.student # None => new.student # None
           /\ row.link # NoLink => new.link # NoLink
           /\ new.student # row.student =>
                /\ new.student = u.by.student /\ new.student # None
                /\ new.history \cap {"raced", "mixed"} = {} =>
                     /\ StudentOf(u.by) = u.by.student
                     /\ u.by.phone = row.phone /\ u.by.parentPhone = row.parentPhone
<1> DEFINE found == [student |-> IF u.was.student = None THEN u.by.student ELSE None,
                     link |-> IF u.was.link = NoLink THEN u.by.link ELSE NoLink]
<1> DEFINE mixes == row.parentPhone # u.by.parentPhone /\ found # [student |-> None, link |-> NoLink]
<1> DEFINE races == Matches(u.by) # [student |-> u.by.student, link |-> u.by.link] \/ PhonesOf(row) # PhonesOf(u.was)
<1> DEFINE words == Mark("mixed", mixes) \cup Mark("raced", races)
<1>1. found.student \in {None, u.by.student} \cap (Users \cup {None}) /\ found.link \in LinkRow \cup {NoLink}
      /\ (found.student # None => found # [student |-> None, link |-> NoLink])
  BY DEF ReusedOK, ResolvedRow
<1>2. words \in SUBSET {"raced", "released", "resynced", "edited", "mixed"}
      /\ ("raced" \in words <=> races) /\ ("mixed" \in words <=> mixes)
  <2> HIDE DEF races, mixes
  <2> QED
    BY DEF Mark
<1>3. Reused(u, row) = Marked(Gives(found, row), words)
  BY Zenon DEF Reused
<1>4. ~races => StudentOf(u.by) = u.by.student /\ row.phone = u.was.phone
  BY DEF Matches, PhonesOf
<1>5. found.student # None /\ ~mixes => row.parentPhone = u.by.parentPhone
  BY <1>1
<1> HIDE DEF found, words, mixes, races
<1> DEFINE given == Gives(found, row)
<1>6. /\ given \in EnrollmentRow /\ FieldsKept(row, given) /\ PhonesKept(row, given) /\ given.history = row.history
      /\ given.student = Filled(row.student, found.student) /\ given.link = Joined(row.link, found.link)
  BY <1>1, GivenRow
<1> HIDE DEF given
<1>7. LET new == Marked(given, words) IN
      /\ new \in EnrollmentRow /\ FieldsKept(given, new) /\ PhonesKept(given, new)
      /\ new.student = given.student /\ new.link = given.link /\ new.history = given.history \cup words
  BY <1>2, <1>6, MarkedRow
<1>8. Reused(u, row) = Marked(given, words)
  BY <1>3 DEF given
<1> QED
  BY <1>1, <1>2, <1>4, <1>5, <1>6, <1>7, <1>8 DEF FieldsKept, PhonesKept, Filled, Joined, ReusedOK

Restated(row, status, dropped, words) == [row EXCEPT !.status = status, !.deleted = dropped, !.history = @ \cup words]

LEMMA StatusRow ==
    ASSUME NEW row \in EnrollmentRow, NEW status \in {"ACTIVE", "PAUSED", "DROPPED"}, NEW dropped \in BOOLEAN,
           NEW words \in SUBSET {"released"}
    PROVE  LET new == Restated(row, status, dropped, words) IN
           /\ new \in EnrollmentRow /\ new.there = row.there /\ PhonesKept(row, new)
           /\ new.student = row.student /\ new.link = row.link /\ new.history = row.history \cup words
           /\ new.status = status /\ new.deleted = dropped
  BY DEF EnrollmentRow, PhonesKept, Restated

\* An update marks what it edits, and what changed since it was decided.
LEMMA UpdatedRow ==
    ASSUME NEW row \in EnrollmentRow, NEW q, UpdateOK(q)
    PROVE  LET new == WithStatus(Edited(q, row), q.status) IN
           /\ new \in EnrollmentRow /\ new.there = row.there /\ row.history \subseteq new.history
           /\ new.phone = (IF q.phone = None THEN row.phone ELSE q.phone)
           /\ new.parentPhone = (IF q.parentPhone = None THEN row.parentPhone ELSE q.parentPhone)
           /\ new.student = Filled(row.student, q.found.student) /\ new.link = Joined(row.link, q.found.link)
           /\ q.edits => "edited" \in new.history
           /\ q.edits /\ "raced" \notin new.history => q.was = PhonesOf(row) /\ q.found = Matches(q.by)
           /\ IF q.status = None THEN new.deleted = row.deleted /\ new.status = row.status
              ELSE (new.deleted <=> new.status = "DROPPED") /\ (new.deleted => "released" \in new.history)
<1> DEFINE races == q.edits /\ (q.was # PhonesOf(row) \/ q.found # Matches(q.by))
<1> DEFINE words == Mark("edited", q.edits) \cup Mark("raced", races)
<1> DEFINE changed == Changed(row, q.phone, q.parentPhone)
<1> DEFINE given == Gives(q.found, changed)
<1> DEFINE edited == Marked(given, words)
<1>1. words \in SUBSET {"raced", "released", "resynced", "edited", "mixed"}
      /\ ("raced" \in words <=> races) /\ ("edited" \in words <=> q.edits)
  <2> HIDE DEF races
  <2> QED
    BY DEF Mark
<1>2. Edited(q, row) = edited
  BY Zenon DEF Edited
<1> HIDE DEF words
<1>3. /\ changed \in EnrollmentRow /\ FieldsKept(row, changed)
      /\ changed.phone = (IF q.phone = None THEN row.phone ELSE q.phone)
      /\ changed.parentPhone = (IF q.parentPhone = None THEN row.parentPhone ELSE q.parentPhone)
      /\ changed.student = row.student /\ changed.link = row.link /\ changed.history = row.history
  BY ChangedRow DEF UpdateOK
<1> HIDE DEF changed
<1>4. /\ given \in EnrollmentRow /\ FieldsKept(changed, given) /\ PhonesKept(changed, given)
      /\ given.history = changed.history
      /\ given.student = Filled(changed.student, q.found.student) /\ given.link = Joined(changed.link, q.found.link)
  <2>1. q.found.student \in Users \cup {None} /\ q.found.link \in LinkRow \cup {NoLink}
    BY DEF UpdateOK, FoundRow
  <2> QED
    BY <1>3, <2>1, GivenRow
<1> HIDE DEF given
<1>5. /\ edited \in EnrollmentRow /\ FieldsKept(given, edited) /\ PhonesKept(given, edited)
      /\ edited.student = given.student /\ edited.link = given.link /\ edited.history = given.history \cup words
  BY <1>1, <1>4, MarkedRow
<1> HIDE DEF edited
<1>6. LET new == WithStatus(edited, q.status) IN
      /\ new \in EnrollmentRow /\ new.there = edited.there /\ PhonesKept(edited, new)
      /\ new.student = edited.student /\ new.link = edited.link /\ edited.history \subseteq new.history
      /\ "raced" \in new.history <=> "raced" \in edited.history
      /\ IF q.status = None THEN new.deleted = edited.deleted /\ new.status = edited.status
         ELSE (new.deleted <=> new.status = "DROPPED") /\ (new.deleted => "released" \in new.history)
  <2>1. CASE q.status = None
    BY <1>5, <2>1 DEF WithStatus, PhonesKept
  <2>2. CASE q.status # None
    <3>1. q.status \in {"ACTIVE", "PAUSED", "DROPPED"}
      BY <2>2, RosterAssumption DEF UpdateOK
    <3>2. WithStatus(edited, q.status) =
            [edited EXCEPT !.status = q.status, !.deleted = q.status = "DROPPED",
                           !.history = @ \cup Mark("released", q.status = "DROPPED")]
      BY <2>2 DEF WithStatus
    <3>3. PICK dropped \in BOOLEAN, released \in {Mark("released", q.status = "DROPPED")} :
                 dropped = (q.status = "DROPPED") /\ released = Mark("released", dropped)
      OBVIOUS
    <3>4. released \subseteq {"released"} /\ (dropped => "released" \in released)
      BY <3>3 DEF Mark
    <3> DEFINE new == Restated(edited, q.status, dropped, released)
    <3>5. WithStatus(edited, q.status) = new
      BY <3>2, <3>3 DEF Restated
    <3>6. /\ new \in EnrollmentRow /\ new.there = edited.there /\ PhonesKept(edited, new)
          /\ new.student = edited.student /\ new.link = edited.link /\ new.history = edited.history \cup released
          /\ new.status = q.status /\ new.deleted = dropped
      BY <1>5, <3>1, <3>4, StatusRow
    <3> HIDE DEF new
    <3>7. /\ edited.history \subseteq new.history /\ ("raced" \in new.history <=> "raced" \in edited.history)
          /\ (new.deleted => "released" \in new.history)
      BY <3>4, <3>6
    <3>8. new.deleted <=> new.status = "DROPPED"
      BY <3>3, <3>6
    <3> QED
      BY <2>2, <3>5, <3>6, <3>7, <3>8
  <2> QED
    BY <2>1, <2>2
<1> QED
  BY <1>1, <1>2, <1>3, <1>4, <1>5, <1>6 DEF FieldsKept, PhonesKept

\* A student's profile takes its rows along, and the rows that match and have no student.
LEMMA SyncedRow ==
    ASSUME NEW row \in EnrollmentRow, NEW p, p.user \in Users,
           NEW phone \in Phones \cup {None}, NEW parentPhone \in Phones \cup {None}
    PROVE  LET new == Synced(p, phone, parentPhone, row) IN
           /\ new \in EnrollmentRow /\ FieldsKept(row, new) /\ row.history \subseteq new.history /\ new.link = row.link
           /\ IF row.student = p.user /\ ~row.deleted
              THEN /\ new.student = row.student
                   /\ new.phone = (IF phone = None THEN row.phone ELSE phone)
                   /\ new.parentPhone = (IF parentPhone = None THEN row.parentPhone ELSE parentPhone)
                   /\ "resynced" \in new.history \/ PhonesKept(row, new)
              ELSE /\ PhonesKept(row, new) /\ new.history = row.history
                   /\ IF /\ row.there /\ row.student = None /\ ~row.deleted
                         /\ row.phone = p.phone /\ row.parentPhone = p.parentPhone
                      THEN new.student = p.user ELSE new = row
<1>1. CASE row.student = p.user /\ ~row.deleted
  <2> DEFINE changed == Changed(row, phone, parentPhone)
  <2> DEFINE words == Mark("resynced", PhonesOf(changed) # PhonesOf(row))
  <2>1. Synced(p, phone, parentPhone, row) = Marked(changed, words)
    BY <1>1, Zenon DEF Synced
  <2>2. words \in SUBSET {"raced", "released", "resynced", "edited", "mixed"}
        /\ ("resynced" \in words <=> PhonesOf(changed) # PhonesOf(row))
    BY DEF Mark
  <2> HIDE DEF words
  <2>3. /\ changed \in EnrollmentRow /\ FieldsKept(row, changed)
        /\ changed.phone = (IF phone = None THEN row.phone ELSE phone)
        /\ changed.parentPhone = (IF parentPhone = None THEN row.parentPhone ELSE parentPhone)
        /\ changed.student = row.student /\ changed.link = row.link /\ changed.history = row.history
    BY ChangedRow
  <2>4. PhonesOf(changed) = PhonesOf(row) => PhonesKept(row, changed)
    BY DEF PhonesOf, PhonesKept
  <2> HIDE DEF changed
  <2>5. LET new == Marked(changed, words) IN
        /\ new \in EnrollmentRow /\ FieldsKept(changed, new) /\ PhonesKept(changed, new)
        /\ new.student = changed.student /\ new.link = changed.link /\ new.history = changed.history \cup words
    BY <2>2, <2>3, MarkedRow
  <2> QED
    BY <1>1, <2>1, <2>2, <2>3, <2>4, <2>5 DEF FieldsKept, PhonesKept
<1>2. CASE ~(row.student = p.user /\ ~row.deleted)
  <2>1. PhonesOf(row) = PhonesOf(p) <=> row.phone = p.phone /\ row.parentPhone = p.parentPhone
    BY DEF PhonesOf
  <2>2. Synced(p, phone, parentPhone, row) =
          IF /\ row.there /\ row.student = None /\ ~row.deleted /\ row.phone = p.phone /\ row.parentPhone = p.parentPhone
          THEN [row EXCEPT !.student = p.user] ELSE row
    BY <1>2, <2>1 DEF Synced
  <2>3. LET new == [row EXCEPT !.student = p.user] IN
        /\ new \in EnrollmentRow /\ FieldsKept(row, new) /\ PhonesKept(row, new) /\ new.history = row.history
        /\ new.student = p.user /\ new.link = row.link
    BY DEF EnrollmentRow, FieldsKept, PhonesKept
  <2> QED
    BY <1>2, <2>2, <2>3 DEF FieldsKept, PhonesKept
<1> QED
  BY <1>1, <1>2

\* A child's registration links the rows that match and have no link; accounts that come and go change
\* nothing but the student and the link of a row.
LEMMA BackfilledLinkRow ==
    ASSUME NEW row \in EnrollmentRow, NEW link \in LinkRow, NEW parentPhone
    PROVE  LET new == BackfilledLink(link, parentPhone, row) IN
           /\ new \in EnrollmentRow /\ FieldsKept(row, new) /\ PhonesKept(row, new) /\ new.history = row.history
           /\ new.student = row.student
           /\ new.link = (IF row.phone = link.child /\ row.parentPhone = parentPhone /\ row.link = NoLink THEN link ELSE row.link)
  BY DEF BackfilledLink, EnrollmentRow, FieldsKept, PhonesKept

LEMMA BackfilledRow ==
    ASSUME NEW row \in EnrollmentRow, NEW p \in ProfileRow
    PROVE  LET new == Backfilled(p, row) IN
           /\ new \in EnrollmentRow /\ FieldsKept(row, new) /\ PhonesKept(row, new) /\ new.history = row.history
           /\ new.link = row.link
           /\ new.student = (IF p.type = "STUDENT" /\ row.phone = p.phone /\ row.parentPhone = p.parentPhone /\ row.student = None
                             THEN p.user ELSE row.student)
<1>1. PhonesOf(row) = PhonesOf(p) <=> row.phone = p.phone /\ row.parentPhone = p.parentPhone
  BY DEF PhonesOf
<1>2. Backfilled(p, row) = IF p.type = "STUDENT" /\ row.phone = p.phone /\ row.parentPhone = p.parentPhone /\ row.student = None
                           THEN [row EXCEPT !.student = p.user] ELSE row
  BY <1>1 DEF Backfilled
<1>3. p.user \in Users
  BY DEF ProfileRow
<1>4. LET new == [row EXCEPT !.student = p.user] IN
      /\ new \in EnrollmentRow /\ FieldsKept(row, new) /\ PhonesKept(row, new) /\ new.history = row.history
      /\ new.link = row.link /\ new.student = p.user
  BY <1>3 DEF EnrollmentRow, FieldsKept, PhonesKept
<1> QED
  BY <1>2, <1>4 DEF FieldsKept, PhonesKept

LEMMA ReleasedRow ==
    ASSUME NEW row \in EnrollmentRow
    PROVE  LET new == Released(row) IN
           /\ new \in EnrollmentRow /\ FieldsKept(row, new) /\ PhonesKept(row, new) /\ row.history \subseteq new.history
           /\ "released" \in new.history \/ (new.student = row.student /\ new.link = row.link)
           /\ new.student # None => new.student = row.student /\ user'[row.student].type # "gone"
<1> DEFINE studentGone == row.student # None /\ user'[row.student].type = "gone"
<1> DEFINE linkGone == row.link # NoLink /\ row.link \notin links'
<1> DEFINE words == Mark("released", studentGone \/ linkGone)
<1>0. PICK student, link : /\ student = IF studentGone THEN None ELSE row.student
                           /\ link = IF linkGone THEN NoLink ELSE row.link
  OBVIOUS
<1> DEFINE bare == [row EXCEPT !.student = student, !.link = link]
<1>1. Released(row) = Marked(bare, words)
  BY <1>0 DEF Released
<1>2. /\ bare \in EnrollmentRow /\ FieldsKept(row, bare) /\ PhonesKept(row, bare) /\ bare.history = row.history
      /\ bare.student = student /\ bare.link = link
  BY <1>0 DEF EnrollmentRow, FieldsKept, PhonesKept
<1>3. words \in SUBSET {"raced", "released", "resynced", "edited", "mixed"}
      /\ ("released" \in words <=> studentGone \/ linkGone)
  <2> HIDE DEF studentGone, linkGone
  <2> QED
    BY DEF Mark
<1> HIDE DEF bare, words
<1>4. LET new == Marked(bare, words) IN
      /\ new \in EnrollmentRow /\ FieldsKept(bare, new) /\ PhonesKept(bare, new)
      /\ new.student = bare.student /\ new.link = bare.link /\ new.history = bare.history \cup words
  BY <1>2, <1>3, MarkedRow
<1> QED
  BY <1>0, <1>1, <1>2, <1>3, <1>4 DEF FieldsKept, PhonesKept

-----------------------------------------------------------------------------
\* A row that keeps its numbers while profiles and links stay, and loses neither student nor link.
LEMMA RowKept ==
    ASSUME UNCHANGED <<profiles, links>>, NEW row, RowOK(row), NEW new,
           FieldsKept(row, new), PhonesKept(row, new), row.history \subseteq new.history,
           row.student # None => new.student # None, row.link # NoLink => new.link # NoLink,
           new.student # row.student /\ new.history \cap {"raced", "released", "edited", "mixed"} = {} =>
             Claimed(new.student, row.phone, row.parentPhone)
    PROVE  RowOK(new)'
<1>1. Matched(new)'
  BY DEF RowOK, Matched, PhonesKept, Unclaimed, Unlinked
<1>2. InStep(new)'
  BY DEF RowOK, InStep, PhonesKept, Claimed
<1> QED
  BY <1>1, <1>2 DEF RowOK, FieldsKept

LEMMA RowUntouched ==
    ASSUME UNCHANGED <<profiles, links>>, NEW row, RowOK(row) PROVE RowOK(row)'
  BY DEF RowOK, Matched, InStep, Claimed, Unclaimed, Unlinked

\* What requests of the roster remember, when one moves and when none does.
LEMMA RosterCallsKept ==
    ASSUME RosterCalls, NEW ops, Moved(ops), ops \cap RosterOps = {} PROVE RosterCalls'
<1>1. RosterCallOK(Idle)
  BY DEF RosterCallOK, Idle
<1>2. ASSUME NEW r \in Requests, Of(ops, req'[r]) PROVE RosterCallOK(req'[r])
  BY <1>2 DEF Of, RosterCallOK, RosterOps
<1>3. ASSUME NEW r \in Requests PROVE RosterCallOK(req'[r])
  BY <1>1, <1>2 DEF Moved, RosterCalls
<1> QED
  BY <1>3 DEF RosterCalls

LEMMA RosterCallsAnswered == ASSUME RequestsOK, RosterCalls, NEW r \in Requests, Reply(r) PROVE RosterCalls'
<1>1. RosterCallOK(Idle)
  BY DEF RosterCallOK, Idle
<1>2. \A s \in Requests : RosterCallOK(req'[s])
  BY <1>1 DEF RequestsOK, RosterCalls, Reply, Proceed
<1> QED
  BY <1>2 DEF RosterCalls

LEMMA RosterCallsServed == ASSUME RequestsOK, RosterCalls, NEW op, Serve(op) PROVE RosterCalls'
<1>1. Moved({})
  BY ServeFrames
<1> QED
  BY <1>1, RosterCallsKept

LEMMA RosterCallsBegun ==
    ASSUME RequestsOK, RosterCalls, NEW r \in Requests, NEW q, RosterCallOK(q), req' = [req EXCEPT ![r] = q]
    PROVE  RosterCalls'
<1>1. \A s \in Requests : RosterCallOK(req'[s])
  BY DEF RequestsOK, RosterCalls
<1> QED
  BY <1>1 DEF RosterCalls

\* The roster, its profiles and its links stay as they are.
LEMMA RosterUntouched == ASSUME RosterRows, UNCHANGED <<profiles, rosterVars>> PROVE RosterRows'
<1>1. UNCHANGED <<profiles, links, enrollment, lectures, seats>>
  BY DEF rosterVars
<1>2. ASSUME NEW e \in There' PROVE RowOK(enrollment[e])'
  <2>1. PICK row : row = enrollment[e]
    OBVIOUS
  <2>2. RowOK(row)
    BY <1>1, <1>2, <2>1 DEF RosterRows, There
  <2>3. RowOK(row)'
    BY <1>1, <2>2, RowUntouched
  <2> QED
    BY <1>1, <2>1, <2>3
<1> QED
  BY <1>1, <1>2 DEF RosterRows, RosterTypeOK, ProfilesDistinct, LinksHeld

LEMMA RowsStep ==
    ASSUME RosterRows, UNCHANGED <<profiles, links>>,
           enrollment' \in [Enrollments -> EnrollmentRow],
           \A e \in Enrollments : enrollment'[e].there => RowOK(enrollment[e])',
           lectures' \in [LectureIds -> {None, "there", "deleted"}], seats' \subseteq LectureIds \X Enrollments
    PROVE  RosterRows'
  BY DEF RosterRows, RosterTypeOK, ProfilesDistinct, LinksHeld, There

-----------------------------------------------------------------------------
\* createEnrollment and createLecture.
LEMMA EnrolSaved ==
    ASSUME IInv, RosterInv, NEW r \in Requests, SaveEnrol(r) PROVE RosterRows'
<1> USE DEF RosterInv
<1> DEFINE q == req[r]
<1>1. /\ EnrolOK(q) /\ q.step = "save"
      /\ q.lecture \in LectureIds /\ q.new \subseteq ResolvedRow /\ \A u \in q.reused : ReusedOK(u)
  BY DEF SaveEnrol, At, RosterCalls, RosterCallOK, EnrolOK
<1>2. UNCHANGED <<profiles, links>>
  BY DEF SaveEnrol, accountVars
<1>3. CASE UNCHANGED <<enrollment, lectures, seats>>
  BY <1>2, <1>3, RosterUntouched DEF rosterVars
<1>4. CASE ~UNCHANGED <<enrollment, lectures, seats>>
  <2>1. PICK id \in Injection(q.new, Enrollments \ There) :
          LET rows == [e \in Enrollments |->
                         IF \E n \in q.new : id[n] = e THEN Created(CHOOSE n \in q.new : id[n] = e)
                         ELSE IF \E u \in q.reused : u.id = e THEN Reused(CHOOSE u \in q.reused : u.id = e, enrollment[e])
                         ELSE enrollment[e]] IN
          /\ enrollment' = rows
          /\ lectures' = (IF q.creates THEN [lectures EXCEPT ![q.lecture] = "there"] ELSE lectures)
          /\ seats' = seats \cup {<<q.lecture, e>> : e \in Range(id) \cup {u.id : u \in q.reused}}
    BY <1>4, Zenon DEF SaveEnrol
  <2>2. id \in [q.new -> Enrollments \ There]
    BY DEF Injection
  <2>3. Range(id) \subseteq Enrollments
    BY <2>2 DEF Range
  <2>4. seats' \subseteq LectureIds \X Enrollments /\ lectures' \in [LectureIds -> {None, "there", "deleted"}]
    BY <1>1, <2>1, <2>3 DEF RosterRows, RosterTypeOK, ReusedOK
  <2>5. ASSUME NEW e \in Enrollments
        PROVE  \/ \E n \in q.new : enrollment'[e] = Created(n)
               \/ \E u \in q.reused : enrollment'[e] = Reused(u, enrollment[e])
               \/ enrollment'[e] = enrollment[e]
    <3>1. CASE \E n \in q.new : id[n] = e
      BY <2>1, <3>1
    <3>2. CASE ~(\E n \in q.new : id[n] = e) /\ \E u \in q.reused : u.id = e
      BY <2>1, <3>2
    <3>3. CASE ~(\E n \in q.new : id[n] = e) /\ ~(\E u \in q.reused : u.id = e)
      BY <2>1, <3>3
    <3> QED
      BY <3>1, <3>2, <3>3
  <2>6. ASSUME NEW e \in Enrollments
        PROVE  enrollment'[e] \in EnrollmentRow /\ (enrollment'[e].there => RowOK(enrollment[e])')
    <3>1. PICK row, new : row = enrollment[e] /\ new = enrollment'[e]
      OBVIOUS
    <3>2. row \in EnrollmentRow /\ (row.there => RowOK(row))
      BY <3>1 DEF RosterRows, RosterTypeOK, There
    <3>3. profiles \subseteq ProfileRow /\ links \subseteq LinkRow
      BY DEF RosterRows, RosterTypeOK, IInv, AccountsTypeOK
    <3>4. ASSUME NEW n \in q.new, new = Created(n) PROVE new \in EnrollmentRow /\ RowOK(new)'
      <4>1. n \in ResolvedRow
        BY <1>1
      <4>2. /\ new \in EnrollmentRow /\ new.status = "ACTIVE" /\ ~new.deleted
            /\ new.phone = n.phone /\ new.parentPhone = n.parentPhone /\ new.student = n.student /\ new.link = n.link
            /\ "raced" \notin new.history => StudentOf(n) = n.student /\ LinkOf(n) = n.link
        BY <3>4, <4>1, CreatedRow DEF Matches
      <4>3. RowOK(new)
        BY <3>3, <4>2, Finding DEF RowOK, Matched, InStep
      <4> QED
        BY <1>2, <4>2, <4>3, RowUntouched
    <3>5. ASSUME NEW u \in q.reused, new = Reused(u, row) PROVE new \in EnrollmentRow /\ (new.there => RowOK(new)')
      <4>1. /\ new \in EnrollmentRow /\ FieldsKept(row, new) /\ PhonesKept(row, new) /\ row.history \subseteq new.history
            /\ row.student # None => new.student # None
            /\ row.link # NoLink => new.link # NoLink
            /\ new.student # row.student =>
                 /\ new.student = u.by.student /\ new.student # None
                 /\ new.history \cap {"raced", "mixed"} = {} =>
                      /\ StudentOf(u.by) = u.by.student
                      /\ u.by.phone = row.phone /\ u.by.parentPhone = row.parentPhone
        BY <1>1, <3>2, <3>5, ReusedRow
      <4>2. ASSUME new.student # row.student, new.history \cap {"raced", "released", "edited", "mixed"} = {}
            PROVE  Claimed(new.student, row.phone, row.parentPhone)
        <5>1. /\ new.student # None /\ StudentOf(u.by) = new.student
              /\ u.by.phone = row.phone /\ u.by.parentPhone = row.parentPhone
          BY <4>1, <4>2
        <5>2. Claimed(StudentOf(u.by), u.by.phone, u.by.parentPhone)
          BY <3>3, <5>1, Finding
        <5> QED
          BY <5>1, <5>2
      <4>3. ASSUME new.there PROVE RowOK(new)'
        <5>1. RowOK(row)
          BY <3>2, <4>1, <4>3 DEF FieldsKept
        <5> QED
          BY <1>2, <4>1, <4>2, <5>1, RowKept
      <4> QED
        BY <4>1, <4>3
    <3>6. ASSUME new = row PROVE new \in EnrollmentRow /\ (new.there => RowOK(new)')
      BY <1>2, <3>2, <3>6, RowUntouched
    <3> QED
      BY <2>5, <3>1, <3>4, <3>5, <3>6
  <2>7. enrollment' \in [Enrollments -> EnrollmentRow]
    BY <2>1, <2>6
  <2> QED
    BY <1>2, <2>4, <2>6, <2>7, RowsStep
<1> QED
  BY <1>3, <1>4

\* updateEnrollment.
LEMMA UpdateSaved ==
    ASSUME IInv, RosterInv, NEW r \in Requests, SaveUpdate(r) PROVE RosterRows'
<1> USE DEF RosterInv
<1> DEFINE q == req[r]
<1>1. UpdateOK(q) /\ q.id \in Enrollments
  BY DEF SaveUpdate, At, RosterCalls, RosterCallOK, UpdateOK
<1>2. UNCHANGED <<profiles, links, lectures, seats>>
  BY DEF SaveUpdate, accountVars
<1>3. CASE UNCHANGED enrollment
  BY <1>2, <1>3, RosterUntouched DEF rosterVars
<1>4. CASE enrollment' = [enrollment EXCEPT ![q.id] = WithStatus(Edited(q, @), q.status)]
  <2>1. PICK row, new : row = enrollment[q.id] /\ new = WithStatus(Edited(q, row), q.status)
    OBVIOUS
  <2>2. \A e \in Enrollments : enrollment'[e] = IF e = q.id THEN new ELSE enrollment[e]
    BY <1>4, <2>1 DEF RosterRows, RosterTypeOK
  <2>3. row \in EnrollmentRow /\ (row.there => RowOK(row))
    BY <1>1, <2>1 DEF RosterRows, RosterTypeOK, There
  <2>4. /\ new \in EnrollmentRow /\ new.there = row.there /\ row.history \subseteq new.history
        /\ new.phone = (IF q.phone = None THEN row.phone ELSE q.phone)
        /\ new.parentPhone = (IF q.parentPhone = None THEN row.parentPhone ELSE q.parentPhone)
        /\ new.student = Filled(row.student, q.found.student) /\ new.link = Joined(row.link, q.found.link)
        /\ q.edits => "edited" \in new.history
        /\ q.edits /\ "raced" \notin new.history => q.was = PhonesOf(row) /\ q.found = Matches(q.by)
        /\ IF q.status = None THEN new.deleted = row.deleted /\ new.status = row.status
           ELSE (new.deleted <=> new.status = "DROPPED") /\ (new.deleted => "released" \in new.history)
    BY <1>1, <2>1, <2>3, UpdatedRow
  <2>5. ASSUME new.there PROVE RowOK(new)
    <3>1. RowOK(row)
      BY <2>3, <2>4, <2>5
    <3>2. (new.deleted <=> new.status = "DROPPED") /\ (new.deleted => "released" \in new.history)
      BY <2>4, <3>1 DEF RowOK
    <3>3. CASE q.edits
      <4>1. InStep(new)
        BY <2>4, <3>3 DEF InStep
      <4>2. ASSUME new.history \cap {"raced", "released"} = {}
            PROVE  /\ new.student = None => Unclaimed(new.phone, new.parentPhone)
                   /\ new.link = NoLink => Unlinked(new.phone, new.parentPhone)
        <5>1. q.was = PhonesOf(row) /\ q.found = Matches(q.by)
          BY <2>4, <3>3, <4>2
        <5>2. new.phone = q.by.phone /\ new.parentPhone = q.by.parentPhone
          BY <1>1, <2>4, <5>1 DEF UpdateOK, PhonesOf
        <5>3. q.found.student = StudentOf(q.by) /\ q.found.link = LinkOf(q.by)
          BY <5>1 DEF Matches
        <5>4. profiles \subseteq ProfileRow /\ links \subseteq LinkRow
          BY DEF RosterRows, RosterTypeOK, IInv, AccountsTypeOK
        <5>5. /\ StudentOf(q.by) = None <=> Unclaimed(new.phone, new.parentPhone)
              /\ LinkOf(q.by) = NoLink <=> Unlinked(new.phone, new.parentPhone)
          BY <5>2, <5>4, Finding
        <5> QED
          BY <2>4, <5>3, <5>5 DEF Filled, Joined
      <4> QED
        BY <3>2, <4>1, <4>2 DEF RowOK, Matched
    <3>4. CASE ~q.edits
      <4>1. /\ q.phone = None /\ q.parentPhone = None /\ q.found.student = None /\ q.found.link = NoLink
        BY <1>1, <3>4 DEF UpdateOK, NothingFound
      <4>2. PhonesKept(row, new) /\ new.student = row.student /\ new.link = row.link
        BY <2>4, <4>1 DEF PhonesKept, Filled, Joined
      <4> QED
        BY <2>4, <3>1, <3>2, <4>2 DEF RowOK, Matched, InStep, PhonesKept
    <3> QED
      BY <3>3, <3>4
  <2>6. ASSUME NEW e \in Enrollments
        PROVE  enrollment'[e] \in EnrollmentRow /\ (enrollment'[e].there => RowOK(enrollment[e])')
    <3>1. PICK row2 : row2 = enrollment'[e]
      OBVIOUS
    <3>2. row2 \in EnrollmentRow /\ (row2.there => RowOK(row2))
      BY <2>2, <2>4, <2>5, <3>1 DEF RosterRows, RosterTypeOK, There
    <3>3. row2.there => RowOK(row2)'
      BY <1>2, <3>2, RowUntouched
    <3> QED
      BY <3>1, <3>2, <3>3
  <2>7. enrollment' \in [Enrollments -> EnrollmentRow]
    BY <1>4, <2>6 DEF RosterRows, RosterTypeOK
  <2> QED
    BY <1>2, <2>6, <2>7, RowsStep DEF RosterRows, RosterTypeOK
<1> QED
  BY <1>3, <1>4 DEF SaveUpdate

\* updateStudentProfile: the student's rows go along, unless they are dropped.
LEMMA SyncedOK ==
    ASSUME profiles \subseteq ProfileRow, ProfilesDistinct, UNCHANGED links,
           NEW old \in profiles, NEW p, NEW phone \in Phones \cup {None}, NEW parentPhone \in Phones \cup {None},
           old.type = "STUDENT", p.type = "STUDENT", p.user = old.user, p.user \in Users,
           p.phone = (IF phone = None THEN old.phone ELSE phone),
           p.parentPhone = (IF parentPhone = None THEN old.parentPhone ELSE parentPhone),
           profiles' = (profiles \ {old}) \cup {p},
           NEW row \in EnrollmentRow, row.there, RowOK(row), NEW new, new = Synced(p, phone, parentPhone, row)
    PROVE  RowOK(new)'
<1>1. /\ new \in EnrollmentRow /\ FieldsKept(row, new) /\ row.history \subseteq new.history /\ new.link = row.link
      /\ IF row.student = p.user /\ ~row.deleted
         THEN /\ new.student = row.student
              /\ new.phone = (IF phone = None THEN row.phone ELSE phone)
              /\ new.parentPhone = (IF parentPhone = None THEN row.parentPhone ELSE parentPhone)
              /\ "resynced" \in new.history \/ PhonesKept(row, new)
         ELSE /\ PhonesKept(row, new) /\ new.history = row.history
              /\ IF /\ row.there /\ row.student = None /\ ~row.deleted
                    /\ row.phone = p.phone /\ row.parentPhone = p.parentPhone
                 THEN new.student = p.user ELSE new = row
  BY SyncedRow
<1>2. p.user # None /\ p \in profiles'
  BY AccountsAssumption
<1>3. Unlinked(row.phone, row.parentPhone) => Unlinked(row.phone, row.parentPhone)'
  BY DEF Unlinked
<1>4. ASSUME PhonesKept(row, new), Unlinked(row.phone, row.parentPhone) PROVE Unlinked(new.phone, new.parentPhone)'
  BY <1>3, <1>4 DEF PhonesKept
<1>5. Matched(new)'
  <2>1. ASSUME new.history \cap {"raced", "released"} = {}, new.student = None
        PROVE  Unclaimed(new.phone, new.parentPhone)'
    <3>1. new = row /\ ~(row.phone = p.phone /\ row.parentPhone = p.parentPhone)
      BY <1>1, <1>2, <2>1 DEF RowOK
    <3>2. Unclaimed(row.phone, row.parentPhone)
      BY <2>1, <3>1 DEF RowOK, Matched
    <3> QED
      BY <3>1, <3>2 DEF Unclaimed
  <2>2. ASSUME new.history \cap {"raced", "released"} = {}, new.link = NoLink, "resynced" \notin new.history
        PROVE  Unlinked(new.phone, new.parentPhone)'
    <3>1. PhonesKept(row, new) /\ Unlinked(row.phone, row.parentPhone)
      BY <1>1, <2>2 DEF RowOK, Matched
    <3> QED
      BY <1>4, <3>1
  <2> QED
    BY <2>1, <2>2 DEF Matched
<1>6. InStep(new)'
  <2> SUFFICES ASSUME new.student # None, new.history \cap {"raced", "released", "edited", "mixed"} = {}
               PROVE  Claimed(new.student, new.phone, new.parentPhone)'
    BY DEF InStep
  <2>1. row.student # None => Claimed(row.student, row.phone, row.parentPhone)
    BY <1>1 DEF RowOK, InStep
  <2>2. CASE row.student = p.user /\ ~row.deleted
    <3>1. row.phone = old.phone /\ row.parentPhone = old.parentPhone
      BY <1>2, <2>1, <2>2 DEF Claimed, ProfilesDistinct
    <3>2. new.student = p.user /\ new.phone = p.phone /\ new.parentPhone = p.parentPhone
      BY <1>1, <2>2, <3>1
    <3> QED
      BY <1>2, <3>2 DEF Claimed
  <2>3. CASE ~(row.student = p.user /\ ~row.deleted) /\ new.student = p.user /\ row.student = None
    <3>1. new.phone = p.phone /\ new.parentPhone = p.parentPhone
      BY <1>1, <2>3, <1>2 DEF PhonesKept
    <3> QED
      BY <1>2, <2>3, <3>1 DEF Claimed
  <2>4. CASE ~(row.student = p.user /\ ~row.deleted) /\ new = row
    <3>1. row.student # p.user
      BY <2>4 DEF RowOK
    <3>2. Claimed(row.student, row.phone, row.parentPhone)
      BY <2>1, <2>4
    <3> QED
      BY <2>4, <3>1, <3>2 DEF Claimed
  <2> QED
    BY <1>1, <2>2, <2>3, <2>4
<1> QED
  BY <1>1, <1>5, <1>6 DEF RowOK, FieldsKept

LEMMA StudentProfileUpdated ==
    ASSUME IInv, RosterInv, UpdateStudentProfile PROVE RosterRows'
<1> USE DEF RosterInv
<1>0. /\ profiles \subseteq ProfileRow /\ ProfilesDistinct /\ LinksHeld
      /\ enrollment \in [Enrollments -> EnrollmentRow]
  BY DEF RosterRows, RosterTypeOK, IInv, AccountsTypeOK
<1>1. PICK old \in {p \in profiles : p.type = "STUDENT"}, phone \in Phones \cup {None}, parentPhone \in Phones \cup {None} :
        LET new == Changed(old, phone, parentPhone) IN
        /\ ProfileFree(new)
        /\ profiles' = (profiles \ {old}) \cup {new}
        /\ enrollment' = [e \in Enrollments |-> Synced(new, phone, parentPhone, enrollment[e])]
  BY DEF UpdateStudentProfile
<1>2. PICK p : p = Changed(old, phone, parentPhone)
  OBVIOUS
<1>3. /\ p \in ProfileRow /\ p.type = "STUDENT" /\ p.user = old.user /\ p.user \in Users
      /\ p.phone = (IF phone = None THEN old.phone ELSE phone)
      /\ p.parentPhone = (IF parentPhone = None THEN old.parentPhone ELSE parentPhone)
  BY <1>0, <1>2 DEF Changed, ProfileRow
<1>4. UNCHANGED <<links, lectures, seats>>
  BY DEF UpdateStudentProfile
<1>5. ASSUME NEW e \in Enrollments
      PROVE  enrollment'[e] \in EnrollmentRow /\ (enrollment'[e].there => RowOK(enrollment[e])')
  <2>1. PICK row, new : row = enrollment[e] /\ new = enrollment'[e]
    OBVIOUS
  <2>2. row \in EnrollmentRow /\ (row.there => RowOK(row)) /\ new = Synced(p, phone, parentPhone, row)
    BY <1>0, <1>1, <1>2, <2>1 DEF RosterRows, There
  <2>3. new \in EnrollmentRow /\ new.there = row.there
    BY <1>3, <2>2, SyncedRow DEF FieldsKept
  <2>4. new.there => RowOK(new)'
    BY <1>0, <1>1, <1>2, <1>3, <1>4, <2>2, <2>3, SyncedOK
  <2> QED
    BY <2>1, <2>3, <2>4
<1>6. ProfilesDistinct'
  <2>1. \A q \in profiles : q.type = "STUDENT" /\ (q.user = p.user \/ q.phone = p.phone) => q = old
    BY <1>0, <1>1, <1>2, <1>3 DEF ProfileFree, ProfilesDistinct
  <2> QED
    BY <1>0, <1>1, <1>2, <1>3, <2>1 DEF ProfilesDistinct
<1>7. LinksHeld'
  BY <1>0, <1>1, <1>4 DEF LinksHeld
<1>8. enrollment' \in [Enrollments -> EnrollmentRow]
  BY <1>1, <1>5
<1> QED
  BY <1>4, <1>5, <1>6, <1>7, <1>8 DEF RosterRows, RosterTypeOK, There

\* updateParentProfile: no row goes along.
LEMMA ParentProfileUpdated ==
    ASSUME IInv, RosterInv, UpdateParentProfile PROVE RosterRows'
<1> USE DEF RosterInv
<1>0. /\ profiles \subseteq ProfileRow /\ ProfilesDistinct /\ LinksHeld
      /\ enrollment \in [Enrollments -> EnrollmentRow]
  BY DEF RosterRows, RosterTypeOK, IInv, AccountsTypeOK
<1>1. PICK old \in {p \in profiles : p.type = "PARENT"}, phone \in Phones :
        LET new == [old EXCEPT !.phone = phone] IN
        /\ ProfileFree(new)
        /\ profiles' = (profiles \ {old}) \cup {new}
        /\ enrollment' = [e \in Enrollments |->
             Marked(enrollment[e], Mark("resynced", enrollment[e].parentPhone = phone /\ new # old))]
  BY DEF UpdateParentProfile
<1>2. PICK p : p = [old EXCEPT !.phone = phone]
  OBVIOUS
<1>3. p \in ProfileRow /\ p.type = "PARENT" /\ p.user = old.user /\ p.phone = phone
  BY <1>0, <1>2 DEF ProfileRow
<1>4. UNCHANGED <<links, lectures, seats>>
  BY DEF UpdateParentProfile
<1>5. ASSUME NEW e \in Enrollments
      PROVE  enrollment'[e] \in EnrollmentRow /\ (enrollment'[e].there => RowOK(enrollment[e])')
  <2>1. PICK row, new : row = enrollment[e] /\ new = enrollment'[e]
    OBVIOUS
  <2> DEFINE words == Mark("resynced", row.parentPhone = phone /\ p # old)
  <2>2. row \in EnrollmentRow /\ (row.there => RowOK(row)) /\ new = Marked(row, words)
    BY <1>0, <1>1, <1>2, <2>1 DEF RosterRows, There
  <2>3. words \in SUBSET {"raced", "released", "resynced", "edited", "mixed"}
        /\ (row.parentPhone = phone /\ p # old => "resynced" \in words)
    BY DEF Mark
  <2> HIDE DEF words
  <2>4. /\ new \in EnrollmentRow /\ new.history = row.history \cup words
        /\ FieldsKept(row, new) /\ PhonesKept(row, new)
        /\ new.student = row.student /\ new.link = row.link
    BY <2>2, <2>3, MarkedRow
  <2>5. ASSUME new.there PROVE RowOK(new)'
    <3>1. RowOK(row)
      BY <2>2, <2>4, <2>5 DEF FieldsKept
    <3>2. ASSUME "resynced" \notin new.history, Unlinked(row.phone, row.parentPhone)
          PROVE  Unlinked(row.phone, row.parentPhone)'
      <4>1. row.parentPhone # phone \/ p = old
        BY <2>3, <2>4, <3>2
      <4>2. \A g \in profiles' : g \in profiles \/ g.phone # row.parentPhone
        BY <1>1, <1>2, <1>3, <4>1
      <4>3. UNCHANGED links
        BY <1>4
      <4> QED
        BY <3>2, <4>2, <4>3 DEF Unlinked
    <3>3. /\ Unclaimed(row.phone, row.parentPhone) => Unclaimed(row.phone, row.parentPhone)'
          /\ Claimed(row.student, row.phone, row.parentPhone) => Claimed(row.student, row.phone, row.parentPhone)'
      BY <1>1, <1>2, <1>3 DEF Unclaimed, Claimed
    <3>4. Matched(new)'
      BY <2>4, <3>1, <3>2, <3>3 DEF RowOK, Matched, PhonesKept
    <3>5. InStep(new)'
      BY <2>4, <3>1, <3>3 DEF RowOK, InStep, PhonesKept
    <3> QED
      BY <2>4, <3>1, <3>4, <3>5 DEF RowOK, FieldsKept
  <2> QED
    BY <2>1, <2>4, <2>5
<1>6. ProfilesDistinct'
  <2>1. \A q \in profiles : q.type = "PARENT" /\ (q.user = p.user \/ q.phone = p.phone) => q = old
    BY <1>0, <1>1, <1>2, <1>3 DEF ProfileFree, ProfilesDistinct
  <2> QED
    BY <1>0, <1>1, <1>2, <1>3, <2>1 DEF ProfilesDistinct
<1>7. LinksHeld'
  BY <1>0, <1>1, <1>2, <1>3, <1>4 DEF LinksHeld
<1>8. enrollment' \in [Enrollments -> EnrollmentRow]
  BY <1>1, <1>5
<1> QED
  BY <1>4, <1>5, <1>6, <1>7, <1>8 DEF RosterRows, RosterTypeOK, There

\* registerChild: the rows that match get the link.
LEMMA ChildRegistered ==
    ASSUME IInv, RosterInv, NEW r \in Requests, SaveRegisterChild(r) PROVE RosterRows'
<1> USE DEF RosterInv
<1>0. /\ profiles \subseteq ProfileRow /\ links \subseteq LinkRow /\ ProfilesDistinct /\ LinksHeld
      /\ enrollment \in [Enrollments -> EnrollmentRow]
  BY DEF RosterRows, RosterTypeOK, IInv, AccountsTypeOK
<1>1. PICK link \in LinkRow : link = req[r].link
  BY DEF SaveRegisterChild, At, RosterCalls, RosterCallOK
<1>2. UNCHANGED <<profiles, lectures, seats>>
  BY DEF SaveRegisterChild, accountVars
<1>3. CASE UNCHANGED <<links, enrollment>>
  BY <1>2, <1>3, RosterUntouched DEF rosterVars
<1>4. CASE ~UNCHANGED <<links, enrollment>>
  <2>1. PICK p \in profiles :
          /\ p.type = "PARENT" /\ p.user = link.parent
          /\ links' = links \cup {link}
          /\ enrollment' = [e \in Enrollments |-> BackfilledLink(link, p.phone, enrollment[e])]
    BY <1>1, <1>4 DEF SaveRegisterChild
  <2>2. link # NoLink
    BY AccountsAssumption DEF LinkRow, NoLink
  <2>3. ASSUME NEW e \in Enrollments
        PROVE  enrollment'[e] \in EnrollmentRow /\ (enrollment'[e].there => RowOK(enrollment[e])')
    <3>1. PICK row, new : row = enrollment[e] /\ new = enrollment'[e]
      OBVIOUS
    <3>2. row \in EnrollmentRow /\ (row.there => RowOK(row)) /\ new = BackfilledLink(link, p.phone, row)
      BY <1>0, <2>1, <3>1 DEF RosterRows, There
    <3>3. /\ new \in EnrollmentRow /\ FieldsKept(row, new) /\ PhonesKept(row, new) /\ new.history = row.history
          /\ new.student = row.student
          /\ new.link = (IF row.phone = link.child /\ row.parentPhone = p.phone /\ row.link = NoLink THEN link ELSE row.link)
      BY <3>2, BackfilledLinkRow
    <3>4. ASSUME new.there PROVE RowOK(new)'
      <4>1. RowOK(row)
        BY <3>2, <3>3, <3>4 DEF FieldsKept
      <4>2. ASSUME new.link = NoLink, Unlinked(row.phone, row.parentPhone) PROVE Unlinked(row.phone, row.parentPhone)'
        <5>1. row.link = NoLink /\ ~(row.phone = link.child /\ row.parentPhone = p.phone)
          BY <2>2, <3>3, <4>2
        <5>2. \A g \in profiles : g.type = "PARENT" /\ g.user = link.parent => g = p
          BY <1>0, <2>1 DEF ProfilesDistinct
        <5> QED
          BY <1>2, <2>1, <4>2, <5>1, <5>2 DEF Unlinked
      <4>3. /\ Unclaimed(row.phone, row.parentPhone) => Unclaimed(row.phone, row.parentPhone)'
            /\ Claimed(row.student, row.phone, row.parentPhone) => Claimed(row.student, row.phone, row.parentPhone)'
        BY <1>2 DEF Unclaimed, Claimed
      <4>4. new.link = NoLink => row.link = NoLink
        BY <2>2, <3>3
      <4>5. Matched(new)'
        BY <3>3, <4>1, <4>2, <4>3, <4>4 DEF RowOK, Matched, PhonesKept
      <4>6. InStep(new)'
        BY <3>3, <4>1, <4>3 DEF RowOK, InStep, PhonesKept
      <4> QED
        BY <3>3, <4>1, <4>5, <4>6 DEF RowOK, FieldsKept
    <3> QED
      BY <3>1, <3>3, <3>4
  <2>4. LinksHeld'
    BY <1>0, <1>2, <2>1 DEF LinksHeld
  <2>5. ProfilesDistinct'
    BY <1>0, <1>2 DEF ProfilesDistinct
  <2>6. enrollment' \in [Enrollments -> EnrollmentRow] /\ links' \subseteq LinkRow
    BY <1>0, <2>1, <2>3
  <2> QED
    BY <1>2, <2>3, <2>4, <2>5, <2>6 DEF RosterRows, RosterTypeOK, There
<1> QED
  BY <1>3, <1>4

\* What a step on the accounts does to the profiles: one comes whose user and number are new, or those
\* of a user go with it.
ProfileComes(p) ==
    /\ p \in ProfileRow /\ p \notin profiles /\ profiles' = profiles \cup {p}
    /\ \A q \in profiles : q.type = p.type => q.user # p.user /\ q.phone # p.phone
ProfilesGo == profiles' \subseteq profiles /\ \A p \in profiles : p \in profiles' \/ user'[p.user].type = "gone"

LEMMA ProfilesSeen ==
    ASSUME IInv, AccountsNext PROVE ProfilesGo \/ \E p : ProfileComes(p)
<1>1. ASSUME UNCHANGED profiles PROVE ProfilesGo
  BY <1>1 DEF ProfilesGo
<1>2. ASSUME NEW u \in Users, Removed(u) PROVE ProfilesGo
  BY <1>2 DEF Removed, Gone, ProfilesGo, IInv, AccountsTypeOK
<1>3. ASSUME NEW u \in Users, VerifyEmail(u) \/ SignIn(u) \/ SignOut(u) \/ SessionRenewed(u) PROVE UNCHANGED profiles
  BY <1>3 DEF VerifyEmail, SignIn, SignOut, SessionRenewed
<1>4. ASSUME NEW u \in Users, Withdraw(u) PROVE ProfilesGo
  BY <1>2, <1>4 DEF Withdraw
<1>5. ASSUME NEW k \in Codes, CreateCode(k) \/ CodeExpires(k) PROVE UNCHANGED profiles
  BY <1>5 DEF CreateCode, CodeExpires
<1>6. ASSUME NEW r \in Requests, BeginSignUp(r) \/ SetPassword(r) \/ SetType(r) \/ FindCode(r) \/ CreateAssistant(r)
      PROVE  UNCHANGED profiles
  BY <1>6 DEF BeginSignUp, SetPassword, SetType, FindCode, CreateAssistant, accountVars
<1>7. ASSUME NEW r \in Requests, SaveProfile(r) PROVE ProfilesGo \/ \E p : ProfileComes(p)
  <2> DEFINE q == req[r]
  <2> DEFINE p == [type |-> q.type, user |-> q.user, phone |-> q.phone, parentPhone |-> q.parentPhone]
  <2>1. q \in SignUpCall
    BY <1>7, SignUpRemembers DEF SaveProfile, At
  <2>2. CASE UNCHANGED profiles
    BY <1>1, <2>2
  <2>3. CASE NewProfile(q) /\ profiles' = profiles \cup {p}
    <3>1. p \in ProfileRow
      BY <1>7, <2>1 DEF SaveProfile, SignUpCall, ProfileRow
    <3>2. \A g \in profiles : g.type = p.type => g.user # p.user /\ g.phone # p.phone
      BY <1>7, <2>3 DEF SaveProfile, NewProfile
    <3>3. p \notin profiles
      BY <3>2
    <3> QED
      BY <2>3, <3>1, <3>2, <3>3 DEF ProfileComes
  <2> QED
    BY <1>7, <2>2, <2>3 DEF SaveProfile
<1>8. ASSUME NEW r \in Requests,
             BeginOnAssistant(r) \/ UpdateAssistant(r) \/ ApproveAssistant(r) \/ ExpelAssistant(r)
      PROVE  UNCHANGED profiles
  BY <1>8 DEF BeginOnAssistant, UpdateAssistant, ApproveAssistant, ExpelAssistant, accountVars
<1>9. ASSUME NEW r \in Requests, RemoveAssistantUser(r) PROVE ProfilesGo
  <2>1. req[r].user \in Users
    BY <1>9, StaffRemembers DEF RemoveAssistantUser, StaffOps
  <2> QED
    BY <1>1, <1>2, <1>9, <2>1 DEF RemoveAssistantUser, RemoveUser
<1>10. CASE AdminNext
  BY <1>1, <1>10 DEF AdminNext, BeginInvite, CreateAdmin, ResendInvitation, BeginActivate, ActivateAdmin, accountVars
<1>11. CASE SignUpNext
  BY <1>1, <1>6, <1>7, <1>11 DEF SignUpNext
<1>12. CASE AssistantNext
  BY <1>1, <1>8, <1>9, <1>12 DEF AssistantNext
<1>13. CASE (\E u \in Users : VerifyEmail(u) \/ SignIn(u) \/ SignOut(u) \/ SessionRenewed(u) \/ Withdraw(u))
            \/ \E k \in Codes : CreateCode(k) \/ CodeExpires(k)
  BY <1>1, <1>3, <1>4, <1>5, <1>13
<1> QED
  BY <1>10, <1>11, <1>12, <1>13 DEF AccountsNext

\* An enrollment whose student or child link goes is marked; a student who signs up is linked.
LEMMA RosterFollowed ==
    ASSUME IInv, RosterInv, AccountsNext, RosterFollows PROVE RosterRows'
<1> USE DEF RosterInv
<1>0. /\ profiles \subseteq ProfileRow /\ links \subseteq LinkRow /\ ProfilesDistinct /\ LinksHeld
      /\ enrollment \in [Enrollments -> EnrollmentRow]
  BY DEF RosterRows, RosterTypeOK, IInv, AccountsTypeOK
<1>1. /\ links' = {l \in links : user'[l.parent].type # "gone"}
      /\ enrollment' = [e \in Enrollments |->
           IF profiles' \ profiles = {} THEN Released(enrollment[e])
           ELSE Backfilled(CHOOSE p \in profiles' \ profiles : TRUE, enrollment[e])]
      /\ UNCHANGED <<lectures, seats>>
  BY DEF RosterFollows
<1>2. ASSUME \A e \in Enrollments : enrollment'[e] \in EnrollmentRow /\ (enrollment'[e].there => RowOK(enrollment[e])'),
             ProfilesDistinct', LinksHeld'
      PROVE  RosterRows'
  BY <1>0, <1>1, <1>2 DEF RosterRows, RosterTypeOK, There
<1>3. CASE ProfilesGo
  <2>1. ASSUME NEW e \in Enrollments
        PROVE  enrollment'[e] \in EnrollmentRow /\ (enrollment'[e].there => RowOK(enrollment[e])')
    <3>1. PICK row, new : row = enrollment[e] /\ new = enrollment'[e]
      OBVIOUS
    <3>2. row \in EnrollmentRow /\ (row.there => RowOK(row)) /\ new = Released(row)
      BY <1>0, <1>1, <1>3, <3>1 DEF RosterRows, There, ProfilesGo
    <3>3. /\ new \in EnrollmentRow /\ FieldsKept(row, new) /\ PhonesKept(row, new) /\ row.history \subseteq new.history
          /\ "released" \in new.history \/ (new.student = row.student /\ new.link = row.link)
          /\ new.student # None => new.student = row.student /\ user'[row.student].type # "gone"
      BY <3>2, ReleasedRow
    <3>4. ASSUME new.there PROVE RowOK(new)'
      <4>1. RowOK(row)
        BY <3>2, <3>3, <3>4 DEF FieldsKept
      <4>2. /\ Unclaimed(row.phone, row.parentPhone) => Unclaimed(row.phone, row.parentPhone)'
            /\ Unlinked(row.phone, row.parentPhone) => Unlinked(row.phone, row.parentPhone)'
        BY <1>1, <1>3 DEF Unclaimed, Unlinked, ProfilesGo
      <4>3. ASSUME user'[row.student].type # "gone", Claimed(row.student, row.phone, row.parentPhone)
            PROVE  Claimed(row.student, row.phone, row.parentPhone)'
        BY <1>3, <4>3 DEF Claimed, ProfilesGo
      <4>4. Matched(new)'
        BY <3>3, <4>1, <4>2 DEF RowOK, Matched, PhonesKept
      <4>5. InStep(new)'
        BY <3>3, <4>1, <4>3 DEF RowOK, InStep, PhonesKept
      <4> QED
        BY <3>3, <4>1, <4>4, <4>5 DEF RowOK, FieldsKept
    <3> QED
      BY <3>1, <3>3, <3>4
  <2>2. ProfilesDistinct'
    BY <1>0, <1>3 DEF ProfilesDistinct, ProfilesGo
  <2>3. LinksHeld'
    BY <1>0, <1>1, <1>3 DEF LinksHeld, ProfilesGo
  <2> QED
    BY <1>2, <2>1, <2>2, <2>3
<1>4. ASSUME NEW p, ProfileComes(p) PROVE RosterRows'
  <2>0. profiles' \ profiles = {p} /\ p \in ProfileRow /\ p.user # None
    BY <1>4, AccountsAssumption DEF ProfileComes, ProfileRow
  <2>1. ASSUME NEW e \in Enrollments
        PROVE  enrollment'[e] \in EnrollmentRow /\ (enrollment'[e].there => RowOK(enrollment[e])')
    <3>1. PICK row, new : row = enrollment[e] /\ new = enrollment'[e]
      OBVIOUS
    <3>2. row \in EnrollmentRow /\ (row.there => RowOK(row)) /\ new = Backfilled(p, row)
      BY <1>0, <1>1, <2>0, <3>1 DEF RosterRows, There
    <3>3. /\ new \in EnrollmentRow /\ FieldsKept(row, new) /\ PhonesKept(row, new) /\ new.history = row.history
          /\ new.link = row.link
          /\ new.student = (IF p.type = "STUDENT" /\ row.phone = p.phone /\ row.parentPhone = p.parentPhone /\ row.student = None
                            THEN p.user ELSE row.student)
      BY <2>0, <3>2, BackfilledRow
    <3>4. ASSUME new.there PROVE RowOK(new)'
      <4>1. RowOK(row)
        BY <3>2, <3>3, <3>4 DEF FieldsKept
      <4>2. ASSUME Unclaimed(row.phone, row.parentPhone), new.student = None
            PROVE  Unclaimed(row.phone, row.parentPhone)'
        BY <1>4, <2>0, <3>3, <4>2 DEF Unclaimed, ProfileComes
      <4>3. ASSUME Unlinked(row.phone, row.parentPhone) PROVE Unlinked(row.phone, row.parentPhone)'
        <5>1. \A l \in links : p.type = "PARENT" => l.parent # p.user
          BY <1>0, <1>4 DEF LinksHeld, ProfileComes
        <5> QED
          BY <1>1, <1>4, <4>3, <5>1 DEF Unlinked, ProfileComes
      <4>4. Claimed(row.student, row.phone, row.parentPhone) => Claimed(row.student, row.phone, row.parentPhone)'
        BY <1>4 DEF Claimed, ProfileComes
      <4>5. p.type = "STUDENT" /\ row.phone = p.phone /\ row.parentPhone = p.parentPhone
              => Claimed(p.user, row.phone, row.parentPhone)'
        BY <1>4 DEF Claimed, ProfileComes
      <4>6. new.student = None => row.student = None
        BY <2>0, <3>3
      <4>7. Matched(new)'
        BY <3>3, <4>1, <4>2, <4>3, <4>6 DEF RowOK, Matched, PhonesKept
      <4>8. InStep(new)'
        BY <3>3, <4>1, <4>4, <4>5 DEF RowOK, InStep, PhonesKept
      <4> QED
        BY <3>3, <4>1, <4>7, <4>8 DEF RowOK, FieldsKept
    <3> QED
      BY <3>1, <3>3, <3>4
  <2>2. ProfilesDistinct'
    BY <1>0, <1>4 DEF ProfilesDistinct, ProfileComes
  <2>3. LinksHeld'
    BY <1>0, <1>1, <1>4 DEF LinksHeld, ProfileComes
  <2> QED
    BY <1>2, <2>1, <2>2, <2>3
<1> QED
  BY <1>3, <1>4, ProfilesSeen

-----------------------------------------------------------------------------
\* What the requests of the roster find.
LEMMA EnrolBegun == ASSUME IInv, RosterInv, NEW r \in Requests, BeginEnrol(r) PROVE RosterCalls'
<1>1. PICK l \in LectureIds, list \in SUBSET PhonePair, creates \in BOOLEAN, op \in {"createLecture", "createEnrollment"} :
        Begin(r, op, [op |-> "enrol", step |-> "match", lecture |-> l, creates |-> creates, list |-> list])
  BY DEF BeginEnrol, Lists
<1> DEFINE q == [op |-> "enrol", step |-> "match", lecture |-> l, creates |-> creates, list |-> list]
<1>2. RosterCallOK(q)
  BY DEF RosterCallOK, EnrolOK
<1> QED
  BY <1>1, <1>2, RosterCallsBegun DEF Begin, IInv, RosterInv

LEMMA EnrolMatched == ASSUME IInv, RosterInv, NEW r \in Requests, MatchEnrol(r) PROVE RosterCalls'
<1> DEFINE q == req[r]
<1>1. EnrolOK(q) /\ q.step = "match" /\ q.list \subseteq PhonePair
  BY DEF MatchEnrol, At, RosterInv, RosterCalls, RosterCallOK, EnrolOK
<1>2. CASE Reply(r)
  BY <1>2, RosterCallsAnswered DEF IInv, RosterInv
<1> DEFINE reused == {[id |-> p[1], was |-> enrollment[p[1]], by |-> Resolved(p[2])] :
                        p \in {x \in There \X q.list : x[1] \in Existing(x[2])}}
<1> DEFINE new == {Resolved(ps) : ps \in {x \in q.list : Existing(x) = {}}}
<1> DEFINE c == [op |-> "enrol", step |-> "save", lecture |-> q.lecture, creates |-> q.creates, reused |-> reused, new |-> new]
<1>3. CASE Proceed(r, c)
  <2>1. ASSUME NEW ps \in PhonePair PROVE Resolved(ps) \in ResolvedRow /\ Resolved(ps).phone = ps.phone
    <3>1. Matches(ps) \in FoundRow
      BY Finding DEF RosterInv, RosterRows, RosterTypeOK, IInv, AccountsTypeOK
    <3>2. StudentOf(ps) \in Users \cup {None} /\ LinkOf(ps) \in LinkRow \cup {NoLink}
      BY <3>1 DEF Matches, FoundRow
    <3> QED
      BY <3>2 DEF Resolved, ResolvedRow, PhonePair
  <2>2. new \subseteq ResolvedRow
    BY <1>1, <2>1
  <2>3. \A u \in reused : ReusedOK(u)
    <3>1. ASSUME NEW e \in There, NEW ps \in q.list, e \in Existing(ps)
          PROVE  ReusedOK([id |-> e, was |-> enrollment[e], by |-> Resolved(ps)])
      BY <1>1, <2>1, <3>1 DEF ReusedOK, There, Existing
    <3> QED
      BY <3>1
  <2>4. RosterCallOK(c)
    <3> HIDE DEF reused, new
    <3> QED
      BY <1>1, <2>2, <2>3 DEF RosterCallOK, EnrolOK
  <2> HIDE DEF c
  <2> QED
    BY <1>3, <2>4, RosterCallsBegun DEF Proceed, IInv, RosterInv
<1> QED
  BY <1>2, <1>3 DEF MatchEnrol

LEMMA MigrateBegun == ASSUME IInv, RosterInv, NEW r \in Requests, BeginMigrate(r) PROVE RosterCalls'
<1>1. PICK l \in LectureIds, es \in SUBSET There :
        Begin(r, "migrate", [op |-> "migrate", step |-> "save", new |-> {<<l, e>> : e \in {f \in es : <<l, f>> \notin seats}}])
  BY DEF BeginMigrate
<1> DEFINE new == {<<l, e>> : e \in {f \in es : <<l, f>> \notin seats}}
<1> DEFINE q == [op |-> "migrate", step |-> "save", new |-> new]
<1>2. new \subseteq LectureIds \X Enrollments
  <2>1. es \subseteq Enrollments
    BY DEF There
  <2> SUFFICES ASSUME NEW x \in new PROVE x \in LectureIds \X Enrollments
    OBVIOUS
  <2>2. PICK e \in {f \in es : <<l, f>> \notin seats} : x = <<l, e>>
    OBVIOUS
  <2>3. e \in Enrollments
    BY <2>1, <2>2
  <2> QED
    BY <2>2, <2>3
<1>3. RosterCallOK(q)
  <2> HIDE DEF new
  <2> QED
    BY <1>2 DEF RosterCallOK
<1> HIDE DEF q
<1> QED
  BY <1>1, <1>3, RosterCallsBegun DEF Begin, IInv, RosterInv, q

LEMMA UpdateBegun == ASSUME IInv, RosterInv, NEW r \in Requests, BeginUpdate(r) PROVE RosterCalls'
<1>1. PICK e \in There, status \in Statuses \cup {None}, phone \in Phones \cup {None}, parentPhone \in Phones \cup {None} :
        LET row == enrollment[e]
            ps == PhonesOf(Changed(row, phone, parentPhone))
            edits == phone # None \/ parentPhone # None
        IN Begin(r, "updateEnrollment",
                 [op |-> "update", step |-> "save", id |-> e, status |-> status, phone |-> phone,
                  parentPhone |-> parentPhone, edits |-> edits, was |-> PhonesOf(row), by |-> ps,
                  found |-> IF edits THEN Matches(ps) ELSE [student |-> None, link |-> NoLink]])
  BY DEF BeginUpdate
<1>2. PICK row, ps, edits, found :
        /\ row = enrollment[e] /\ ps = PhonesOf(Changed(row, phone, parentPhone))
        /\ edits = (phone # None \/ parentPhone # None)
        /\ found = IF edits THEN Matches(ps) ELSE [student |-> None, link |-> NoLink]
  OBVIOUS
<1> DEFINE q == [op |-> "update", step |-> "save", id |-> e, status |-> status, phone |-> phone,
                parentPhone |-> parentPhone, edits |-> edits, was |-> PhonesOf(row), by |-> ps, found |-> found]
<1>3. Begin(r, "updateEnrollment", q)
  BY <1>1, <1>2
<1>4. found \in FoundRow /\ (~edits => found = NothingFound)
  <2>1. Matches(ps) \in FoundRow
    BY Finding DEF RosterInv, RosterRows, RosterTypeOK, IInv, AccountsTypeOK
  <2> QED
    BY <1>2, <2>1 DEF FoundRow, NothingFound
<1>5. /\ ps.phone = (IF phone = None THEN PhonesOf(row).phone ELSE phone)
      /\ ps.parentPhone = (IF parentPhone = None THEN PhonesOf(row).parentPhone ELSE parentPhone)
  <2>1. row \in EnrollmentRow
    BY <1>2 DEF RosterInv, RosterRows, RosterTypeOK, There
  <2> QED
    BY <1>2, <2>1, ChangedRow DEF PhonesOf
<1>6. RosterCallOK(q)
  BY <1>2, <1>4, <1>5 DEF RosterCallOK, UpdateOK, There
<1> HIDE DEF q
<1> QED
  BY <1>3, <1>6, RosterCallsBegun DEF Begin, IInv, RosterInv

LEMMA ChildBegun == ASSUME IInv, RosterInv, NEW r \in Requests, BeginRegisterChild(r) PROVE RosterCalls'
<1>1. PICK p \in profiles, child \in Phones :
        Begin(r, "registerChild", [op |-> "child", step |-> "save", link |-> [parent |-> p.user, child |-> child]])
  BY DEF BeginRegisterChild
<1>2. [parent |-> p.user, child |-> child] \in LinkRow
  BY DEF LinkRow, ProfileRow, IInv, AccountsTypeOK
<1> DEFINE q == [op |-> "child", step |-> "save", link |-> [parent |-> p.user, child |-> child]]
<1>3. RosterCallOK(q)
  BY <1>2 DEF RosterCallOK
<1> HIDE DEF q
<1> QED
  BY <1>1, <1>3, RosterCallsBegun DEF Begin, IInv, RosterInv, q

\* The steps of the roster.
LEMMA RosterStep == ASSUME IInv, RosterInv, RosterNext PROVE RosterInv'
<1>0. RequestsOK /\ RosterCalls /\ RosterRows
  BY DEF IInv, RosterInv
<1>1. CASE RemoveSeat \/ DeleteLecture
  <2>1. UNCHANGED <<profiles, links, enrollment>>
    BY <1>1 DEF RemoveSeat, DeleteLecture, accountVars
  <2>2. lectures' \in [LectureIds -> {None, "there", "deleted"}] /\ seats' \subseteq LectureIds \X Enrollments
    BY <1>0, <1>1 DEF RemoveSeat, DeleteLecture, RosterRows, RosterTypeOK
  <2>3. RosterRows'
    <3>1. ASSUME NEW e \in Enrollments, enrollment'[e].there PROVE RowOK(enrollment[e])'
      <4>1. PICK row : row = enrollment[e]
        OBVIOUS
      <4>2. RowOK(row)
        BY <1>0, <2>1, <3>1, <4>1 DEF RosterRows, There
      <4>3. RowOK(row)'
        BY <2>1, <4>2, RowUntouched
      <4> QED
        BY <2>1, <4>1, <4>3
    <3> QED
      BY <1>0, <2>1, <2>2, <3>1, RowsStep DEF RosterRows, RosterTypeOK
  <2>4. RosterCalls'
    BY <1>0, <1>1, RosterCallsServed DEF RemoveSeat, DeleteLecture
  <2> QED
    BY <2>3, <2>4 DEF RosterInv
<1>2. CASE UpdateStudentProfile \/ UpdateParentProfile
  <2>1. RosterRows'
    BY <1>2, StudentProfileUpdated, ParentProfileUpdated
  <2>2. RosterCalls'
    BY <1>0, <1>2, RosterCallsServed DEF UpdateStudentProfile, UpdateParentProfile
  <2> QED
    BY <2>1, <2>2 DEF RosterInv
<1>3. ASSUME NEW r \in Requests, SaveEnrol(r) \/ SaveUpdate(r) \/ SaveRegisterChild(r) PROVE RosterInv'
  <2>1. RosterRows'
    BY <1>3, EnrolSaved, UpdateSaved, ChildRegistered
  <2>2. RosterCalls'
    BY <1>0, <1>3, RosterCallsAnswered DEF SaveEnrol, SaveUpdate, SaveRegisterChild
  <2> QED
    BY <2>1, <2>2 DEF RosterInv
<1>4. ASSUME NEW r \in Requests, SaveMigrate(r) PROVE RosterInv'
  <2>1. UNCHANGED <<profiles, links, enrollment, lectures>>
    BY <1>4 DEF SaveMigrate, accountVars
  <2>2. seats' \subseteq LectureIds \X Enrollments
    <3>1. req[r].new \subseteq LectureIds \X Enrollments
      BY <1>0, <1>4 DEF SaveMigrate, At, RosterCalls, RosterCallOK
    <3> QED
      BY <1>0, <1>4, <3>1 DEF SaveMigrate, RosterRows, RosterTypeOK
  <2>3. RosterRows'
    <3>1. ASSUME NEW e \in Enrollments, enrollment'[e].there PROVE RowOK(enrollment[e])'
      <4>1. PICK row : row = enrollment[e]
        OBVIOUS
      <4>2. RowOK(row)
        BY <1>0, <2>1, <3>1, <4>1 DEF RosterRows, There
      <4>3. RowOK(row)'
        BY <2>1, <4>2, RowUntouched
      <4> QED
        BY <2>1, <4>1, <4>3
    <3> QED
      BY <1>0, <2>1, <2>2, <3>1, RowsStep DEF RosterRows, RosterTypeOK
  <2>4. RosterCalls'
    BY <1>0, <1>4, RosterCallsAnswered DEF SaveMigrate
  <2> QED
    BY <2>3, <2>4 DEF RosterInv
<1>5. ASSUME NEW r \in Requests, BeginEnrol(r) \/ MatchEnrol(r) \/ BeginMigrate(r) \/ BeginUpdate(r) \/ BeginRegisterChild(r)
      PROVE  RosterInv'
  <2>1. RosterRows'
    <3>1. UNCHANGED <<profiles, rosterVars>>
      BY <1>5 DEF BeginEnrol, MatchEnrol, BeginMigrate, BeginUpdate, BeginRegisterChild, accountVars
    <3> QED
      BY <1>0, <3>1, RosterUntouched
  <2>2. RosterCalls'
    BY <1>5, EnrolBegun, EnrolMatched, MigrateBegun, UpdateBegun, ChildBegun
  <2> QED
    BY <2>1, <2>2 DEF RosterInv
<1> QED
  BY <1>1, <1>2, <1>3, <1>4, <1>5 DEF RosterNext

LEMMA RosterNextInv == ASSUME IInv, RosterInv, [Next]_vars PROVE RosterInv'
<1>0. RequestsOK /\ RosterCalls /\ RosterRows
  BY DEF IInv, RosterInv
<1>a. RosterOps \cap (AccountOps \cup BoardOps \cup LibraryOps \cup PlannerOps) = {}
  BY DEF AccountOps, StaffOps, AdminOps, RosterOps, BoardOps, LibraryOps, PlannerOps
<1>1. CASE AccountsNext /\ RosterFollows
  BY <1>0, <1>a, <1>1, RosterFollowed, AccountsFrames, RosterCallsKept DEF RosterInv
<1>2. CASE RosterNext
  BY <1>2, RosterStep
<1>3. ASSUME UNCHANGED <<accountVars, rosterVars>>, RosterCalls' PROVE RosterInv'
  BY <1>0, <1>3, RosterUntouched DEF RosterInv, accountVars
<1>4. CASE BoardNext /\ UNCHANGED <<accountVars, rosterVars>>
  BY <1>0, <1>a, <1>3, <1>4, BoardFrames, RosterCallsKept
<1>5. CASE LibraryNext /\ UNCHANGED <<accountVars, rosterVars>>
  BY <1>0, <1>a, <1>3, <1>5, LibraryFrames, RosterCallsKept
<1>6. CASE PlannerNext /\ UNCHANGED <<accountVars, rosterVars>>
  BY <1>0, <1>a, <1>3, <1>6, PlannerFrames, RosterCallsKept
<1>7. ASSUME NEW r \in Requests, BoardAbort(r), UNCHANGED <<accountVars, rosterVars>> PROVE RosterInv'
  BY <1>0, <1>3, <1>7, RosterCallsAnswered DEF BoardAbort, Abort
<1>8. CASE UNCHANGED vars
  BY <1>0, <1>3, <1>8 DEF vars, serverVars, RosterCalls
<1> QED
  BY <1>1, <1>2, <1>4, <1>5, <1>6, <1>7, <1>8 DEF Next

LEMMA RosterStarts == Init => RosterInv
<1> SUFFICES ASSUME Init PROVE RosterInv
  OBVIOUS
<1>1. RosterCalls
  BY DEF Init, ServerInit, RosterCalls, RosterCallOK, Idle
<1>2. ASSUME RosterInit, profiles = {} PROVE RosterRows
  <2>1. RosterTypeOK /\ There = {}
    BY <1>2, BlankRow DEF RosterInit, RosterTypeOK, There, NoEnrollment
  <2> QED
    BY <1>2, <2>1 DEF RosterInit, RosterRows, ProfilesDistinct, LinksHeld
<1>3. CASE StartEmpty \/ StartVerified
  BY <1>1, <1>2, <1>3 DEF StartEmpty, StartVerified, AccountsInit, RosterInv
<1>4. CASE StartClass
  <2>1. PICK s, p \in Users, e \in Enrollments, l \in LectureIds, m, n \in Phones :
          LET types == [u \in Users |-> CASE u = s -> "STUDENT" [] u = p -> "PARENT" [] OTHER -> "PENDING"]
              link == [parent |-> p, child |-> m]
          IN
          /\ s # p /\ m # n
          /\ user = [u \in Users |-> [type |-> types[u], password |-> types[u] # "PENDING"]]
          /\ session = types
          /\ profiles = {[type |-> "STUDENT", user |-> s, phone |-> m, parentPhone |-> n],
                         [type |-> "PARENT", user |-> p, phone |-> n, parentPhone |-> None]}
          /\ assistant = [u \in Users |-> NoAssistant] /\ admin = [u \in Users |-> NoAdmin]
          /\ code = [k \in Codes |-> None]
          /\ links = {link}
          /\ enrollment = [f \in Enrollments |-> IF f # e THEN NoEnrollment ELSE
               [there |-> TRUE, status |-> "ACTIVE", deleted |-> FALSE, phone |-> m, parentPhone |-> n,
                student |-> s, link |-> link, history |-> {}]]
          /\ lectures = [k \in LectureIds |-> IF k = l THEN "there" ELSE None]
          /\ seats = {<<l, e>>}
    BY <1>4 DEF StartClass
  <2> DEFINE link == [parent |-> p, child |-> m]
  <2> DEFINE row == [there |-> TRUE, status |-> "ACTIVE", deleted |-> FALSE, phone |-> m, parentPhone |-> n,
                     student |-> s, link |-> link, history |-> {}]
  <2>2. link \in LinkRow /\ link # NoLink
    BY AccountsAssumption DEF LinkRow, NoLink
  <2>3. row \in EnrollmentRow
    BY <2>2 DEF EnrollmentRow
  <2>4. RosterTypeOK /\ There = {e} /\ enrollment[e] = row
    BY <2>1, <2>2, <2>3, BlankRow DEF RosterTypeOK, There, NoEnrollment
  <2>5. ProfilesDistinct /\ LinksHeld
    BY <2>1 DEF ProfilesDistinct, LinksHeld
  <2>6. RowOK(row)
    BY <2>1, <2>2, AccountsAssumption DEF RowOK, Matched, InStep, Claimed
  <2> QED
    BY <1>1, <2>4, <2>5, <2>6 DEF RosterInv, RosterRows
<1>5. CASE StartStaffed
  <2>1. PICK e \in Enrollments, l \in LectureIds, m \in Phones, n \in Phones :
          /\ profiles = {} /\ links = {}
          /\ enrollment = [f \in Enrollments |-> IF f # e THEN NoEnrollment ELSE
               [NoEnrollment EXCEPT !.there = TRUE, !.phone = m, !.parentPhone = n]]
          /\ lectures = [k2 \in LectureIds |-> IF k2 = l THEN "there" ELSE None]
          /\ seats = {<<l, e>>}
    BY <1>5, ZenonT(60) DEF StartStaffed
  <2> DEFINE row == [NoEnrollment EXCEPT !.there = TRUE, !.phone = m, !.parentPhone = n]
  <2>2. row \in EnrollmentRow /\ row.status = "ACTIVE" /\ ~row.deleted /\ row.student = None
    BY DEF NoEnrollment, EnrollmentRow, NoLink, LinkRow
  <2>3. RosterTypeOK /\ There \subseteq {e} /\ enrollment[e] = row
    <3> HIDE DEF row
    <3>1. enrollment = [f \in Enrollments |-> IF f # e THEN NoEnrollment ELSE row]
      BY <2>1 DEF row
    <3> QED
      BY <2>1, <2>2, <3>1, BlankRow DEF RosterTypeOK, There, NoEnrollment
  <2>4. ProfilesDistinct /\ LinksHeld
    BY <2>1 DEF ProfilesDistinct, LinksHeld
  <2>5. RowOK(row)
    <3> HIDE DEF row
    <3> QED
      BY <2>1, <2>2 DEF RowOK, Matched, InStep, Unclaimed, Unlinked
  <2> QED
    BY <1>1, <2>3, <2>4, <2>5 DEF RosterInv, RosterRows
<1> QED
  BY <1>3, <1>4, <1>5 DEF Init

\* The roster and what the requests in flight found in it are as described in every reachable state.
LEMMA RosterInvariance == Spec => []RosterInv
<1>1. IInv /\ RosterInv /\ [Next]_vars => RosterInv'
  BY RosterNextInv
<1> QED
  BY <1>1, RosterStarts, Invariance, PTL DEF Spec

-----------------------------------------------------------------------------
\* Enrollments, child links, lectures and seats keep their shape (the models of schema.prisma).
THEOREM RosterTyped == Spec => []RosterTypeOK
<1>1. RosterInv => RosterTypeOK
  BY DEF RosterInv, RosterRows
<1> QED
  BY <1>1, RosterInvariance, PTL

\* Whoever comes last, the enrollment or the account, both are linked, whatever requests interleave: an
\* enrollment without a student or a child link matches none, but for the histories NoMissedLink names
\* (createEnrollment, createLecture, updateEnrollment, createStudent, registerChild, updateStudentProfile).
THEOREM NoLinkIsMissed == Spec => []NoMissedLink
<1>1. IInv /\ RosterInv => NoMissedLink
  <2> SUFFICES ASSUME IInv, RosterInv, NEW e \in There, enrollment[e].history \cap {"raced", "released"} = {}
               PROVE  LET row == enrollment[e] IN
                      /\ row.student = None => StudentOf(PhonesOf(row)) = None
                      /\ row.link = NoLink /\ "resynced" \notin row.history => LinkOf(PhonesOf(row)) = NoLink
    BY DEF NoMissedLink
  <2>1. PICK row, ps : row = enrollment[e] /\ ps = PhonesOf(row)
    OBVIOUS
  <2>2. ps.phone = row.phone /\ ps.parentPhone = row.parentPhone
    BY <2>1 DEF PhonesOf
  <2>3. Matched(row)
    BY <2>1 DEF RosterInv, RosterRows, RowOK
  <2>4. /\ StudentOf(ps) = None <=> Unclaimed(row.phone, row.parentPhone)
        /\ LinkOf(ps) = NoLink <=> Unlinked(row.phone, row.parentPhone)
    BY <2>2, Finding DEF RosterInv, RosterRows, RosterTypeOK, IInv, AccountsTypeOK
  <2> QED
    BY <2>1, <2>3, <2>4 DEF Matched
<1> QED
  BY <1>1, Invariance, RosterInvariance, PTL

\* An enrollment that is linked to a student carries the numbers of the student's profile, which the
\* profile hands on, but for the histories PhonesInStep names (updateStudentProfile, createEnrollment).
THEOREM PhonesStayInStep == Spec => []PhonesInStep
<1>1. RosterInv => PhonesInStep
  <2> SUFFICES ASSUME RosterInv, NEW e \in There, enrollment[e].student # None,
                      enrollment[e].history \cap {"raced", "released", "edited", "mixed"} = {}
               PROVE  \E p \in profiles : p.type = "STUDENT" /\ p.user = enrollment[e].student
                                          /\ PhonesOf(p) = PhonesOf(enrollment[e])
    BY DEF PhonesInStep
  <2>1. Claimed(enrollment[e].student, enrollment[e].phone, enrollment[e].parentPhone)
    BY DEF RosterInv, RosterRows, RowOK, InStep
  <2> QED
    BY <2>1 DEF Claimed, PhonesOf
<1> QED
  BY <1>1, RosterInvariance, PTL

\* An enrollment is soft-deleted exactly while it is DROPPED, through any sequence of updates
\* (updateEnrollment).
THEOREM DroppedAreDeleted == Spec => []DroppedIffDeleted
<1>1. RosterInv => DroppedIffDeleted
  BY DEF RosterInv, RosterRows, RowOK, DroppedIffDeleted
<1> QED
  BY <1>1, RosterInvariance, PTL
=============================================================================
