------------------------------ MODULE Accounts ------------------------------
(***************************************************************************)
(* AuthService, AssistantCodesService, AssistantsService, AdminsService    *)
(* and the authentication middleware: users, the profiles sign-up gives    *)
(* them, the assistants of one instructor with their codes, and the        *)
(* administrators.  better-auth keeps the users and sessions and writes    *)
(* them outside the transactions of this code.                             *)
(*                                                                         *)
(* A user stands for an e-mail address, too: what is removed stays gone.   *)
(***************************************************************************)
EXTENDS Server, TLC

CONSTANTS
    Users,    \* users, other than the instructor and the primary administrator, who stay
    Phones,   \* phone numbers
    Codes     \* sign-up codes the instructor hands out

None == "none"
ASSUME AccountsAssumption == None \notin Users \cup Phones \cup Codes

SignUpTypes == {"INSTRUCTOR", "ASSISTANT", "STUDENT", "PARENT"}

VARIABLES
    user,        \* users
    session,     \* per user, the user type that the session cached in its cookie names
    profiles,    \* profiles of instructors, students and parents
    assistant,   \* per user who signed up as one, the assistant's row
    code,        \* sign-up codes
    admin        \* per user, the administrator's row

accountVars == <<user, session, profiles, assistant, code, admin>>

UserRow == [type: SignUpTypes \cup {None, "PENDING", "ADMIN", "gone"}, password: BOOLEAN]
Gone == [type |-> "gone", password |-> FALSE]
ProfileRow == [type: SignUpTypes \ {"ASSISTANT"}, user: Users, phone: Phones, parentPhone: Phones \cup {None}]
AssistantRow == [status: {None, "PENDING", "SIGNED", "REJECTED", "EXPIRED"}, phone: Phones \cup {None},
                 linked: BOOLEAN, deleted: BOOLEAN, code: Codes \cup {None}]
NoAssistant == [status |-> None, phone |-> None, linked |-> FALSE, deleted |-> FALSE, code |-> None]
AdminRow == [status: {None, "PENDING_ACTIVATION", "ACTIVE"}, invited: {"once", "again"}]
NoAdmin == [status |-> None, invited |-> "once"]

AccountsTypeOK ==
    /\ user \in [Users -> UserRow] /\ session \in [Users -> SignUpTypes \cup {None, "PENDING", "ADMIN"}]
    /\ profiles \subseteq ProfileRow
    /\ assistant \in [Users -> AssistantRow]
    /\ code \in [Codes -> {None, "fresh", "used", "expired"}]
    /\ admin \in [Users -> AdminRow]

AccountsInit ==
    /\ user = [u \in Users |-> [type |-> None, password |-> FALSE]]
    /\ session = [u \in Users |-> None]
    /\ profiles = {}
    /\ assistant = [u \in Users |-> NoAssistant]
    /\ code = [k \in Codes |-> None]
    /\ admin = [u \in Users |-> NoAdmin]

Exists(u) == user[u].type \notin {None, "gone"}

\* findProfileByUserId and findProfileByPhoneNumber find nothing.
NewProfile(q) ==
    IF q.type = "ASSISTANT"
    THEN ~assistant[q.user].linked /\ \A u \in Users : assistant[u].phone # q.phone
    ELSE \A p \in profiles : p.type = q.type => p.user # q.user /\ p.phone # q.phone

ProfileOf(u, type) ==
    IF type = "ASSISTANT" THEN assistant[u].linked ELSE \E p \in profiles : p.type = type /\ p.user = u

\* A sign-up's transaction holds the row of its user.
UserLocked(u) == \E q \in Requests : At(q, "signUp", "create") /\ req[q].user = u

(***************************************************************************)
(* A verified e-mail address gives a user and a session, a sign-in only a  *)
(* session; the cookie's copy of the session is renewed after a while.     *)
(***************************************************************************)
VerifyEmail(u) ==
    /\ Serve("verifyEmail")
    /\ user[u].type # "gone"
    /\ user' = [user EXCEPT ![u].type = IF @ = None THEN "PENDING" ELSE @]
    /\ session' = [session EXCEPT ![u] = user'[u].type]
    /\ UNCHANGED <<profiles, assistant, code, admin>>

SignIn(u) ==
    /\ Serve("signIn")
    /\ Exists(u) /\ user[u].password
    /\ IF user[u].type = "ADMIN" THEN admin[u].status = "ACTIVE" ELSE ProfileOf(u, user[u].type)
    /\ session' = [session EXCEPT ![u] = user[u].type]
    /\ UNCHANGED <<user, profiles, assistant, code, admin>>

SignOut(u) ==
    /\ Serve("signOut")
    /\ session' = [session EXCEPT ![u] = None]
    /\ UNCHANGED <<user, profiles, assistant, code, admin>>

SessionRenewed(u) ==
    /\ session[u] \notin {None, user[u].type}
    /\ session' = [session EXCEPT ![u] = IF Exists(u) THEN user[u].type ELSE None]
    /\ UNCHANGED <<serverVars, user, profiles, assistant, code, admin>>

\* createRequireAuth, requireUserType, createRequireAdmin: the profile is looked up on every request.
Admitted(u, type) ==
    /\ session[u] = type
    /\ type = "ASSISTANT" => assistant[u].linked /\ assistant[u].status = "SIGNED"
    /\ type = "ADMIN" => admin[u].status = "ACTIVE"

\* The user's row goes, with its profiles and sessions; an assistant's row loses its user.
Removed(u) ==
    /\ user' = [user EXCEPT ![u] = Gone]
    /\ profiles' = {p \in profiles : p.user # u}
    /\ assistant' = [assistant EXCEPT ![u].linked = FALSE]
    /\ admin' = [admin EXCEPT ![u] = NoAdmin]

Withdraw(u) ==
    /\ Serve("withdraw")
    /\ Exists(u) /\ ~UserLocked(u)
    /\ Removed(u)
    /\ session' = [session EXCEPT ![u] = None]
    /\ UNCHANGED code

(***************************************************************************)
(* completeSignUpWithVerifiedEmail.                                        *)
(***************************************************************************)
BeginSignUp(r) ==
    \E u \in Users, type \in SignUpTypes, phone \in Phones :
      /\ user[u].type = "PENDING"
      /\ \E parentPhone \in IF type = "STUDENT" THEN Phones ELSE {None},
            k \in IF type = "ASSISTANT" THEN Codes ELSE {None} :
           Begin(r, type, [op |-> "signUp", step |-> "password", user |-> u, type |-> type, phone |-> phone,
                           parentPhone |-> parentPhone, code |-> k])
      /\ UNCHANGED accountVars

SetPassword(r) ==
    LET q == req[r] IN
    /\ At(r, "signUp", "password")
    /\ IF NewProfile(q) /\ Exists(q.user)
       THEN user' = [user EXCEPT ![q.user].password = TRUE] /\ Proceed(r, [q EXCEPT !.step = "type"])
       ELSE UNCHANGED user /\ Reply(r)
    /\ UNCHANGED <<session, profiles, assistant, code, admin>>

\* better-auth's update-user, which commits on its own.
SetType(r) ==
    LET q == req[r] IN
    /\ At(r, "signUp", "type") /\ ~UserLocked(q.user)
    /\ IF Exists(q.user)
       THEN /\ user' = [user EXCEPT ![q.user].type = q.type]
            /\ session' = [session EXCEPT ![q.user] = q.type]
            /\ Proceed(r, [q EXCEPT !.step = "save"])
       ELSE UNCHANGED <<user, session>> /\ Reply(r)
    /\ UNCHANGED <<profiles, assistant, code, admin>>

\* A transaction: the user's type once more, then the profile; a duplicate phone number aborts it.
SaveProfile(r) ==
    LET q == req[r] IN
    /\ At(r, "signUp", "save") /\ q.type # "ASSISTANT" /\ ~UserLocked(q.user)
    /\ IF Exists(q.user) /\ NewProfile(q)
       THEN /\ user' = [user EXCEPT ![q.user].type = q.type]
            /\ profiles' = profiles \cup {[type |-> q.type, user |-> q.user, phone |-> q.phone,
                                           parentPhone |-> q.parentPhone]}
       ELSE UNCHANGED <<user, profiles>>
    /\ Reply(r)
    /\ UNCHANGED <<session, assistant, code, admin>>

\* createAssistant looks for a valid code first ...
FindCode(r) ==
    LET q == req[r] IN
    /\ At(r, "signUp", "save") /\ q.type = "ASSISTANT" /\ ~UserLocked(q.user)
    /\ IF Exists(q.user) /\ code[q.code] = "fresh" THEN Proceed(r, [q EXCEPT !.step = "create"]) ELSE Reply(r)
    /\ UNCHANGED accountVars

\* ... then marks it, unless it is no longer valid, and creates the assistant in either case.
MarkedAlone(q) == code' = [code EXCEPT ![q.code] = IF @ = "fresh" THEN "used" ELSE @]
MarkCode(q) == code' = [code EXCEPT ![q.code] = IF @ = "fresh" /\ NewProfile(q) THEN "used" ELSE @]

CreateAssistant(r) ==
    LET q == req[r] IN
    /\ At(r, "signUp", "create")
    /\ IF NewProfile(q)
       THEN /\ user' = [user EXCEPT ![q.user].type = q.type]
            /\ assistant' = [assistant EXCEPT ![q.user] =
                 [status |-> "PENDING", phone |-> q.phone, linked |-> TRUE, deleted |-> FALSE, code |-> q.code]]
       ELSE UNCHANGED <<user, assistant>>
    /\ MarkCode(q)
    /\ Reply(r)
    /\ UNCHANGED <<session, profiles, admin>>

SignUpNext == \E r \in Requests :
    BeginSignUp(r) \/ SetPassword(r) \/ SetType(r) \/ SaveProfile(r) \/ FindCode(r) \/ CreateAssistant(r)

(***************************************************************************)
(* The instructor's codes and assistants.                                  *)
(***************************************************************************)
CreateCode(k) ==
    /\ Serve("createCode")
    /\ code[k] = None
    /\ code' = [code EXCEPT ![k] = "fresh"]
    /\ UNCHANGED <<user, session, profiles, assistant, admin>>

CodeExpires(k) ==
    /\ code[k] = "fresh"
    /\ code' = [code EXCEPT ![k] = "expired"]
    /\ UNCHANGED <<serverVars, user, session, profiles, assistant, admin>>

\* updateAssistant, approveAssistant, rejectAssistant and expireAssistant read the row first.
BeginOnAssistant(r) ==
    /\ \E u \in Users, op \in {"updateAssistant", "approve", "reject", "expire"} :
         /\ assistant[u].status # None
         /\ Begin(r, op, [op |-> op, step |-> IF op \in {"reject", "expire"} /\ assistant[u].linked
                                              THEN "remove" ELSE "write", user |-> u])
    /\ UNCHANGED accountVars

UpdateAssistant(r) ==
    /\ At(r, "updateAssistant", "write")
    /\ \E phone \in Phones :
         assistant' = IF \E u \in Users \ {req[r].user} : assistant[u].phone = phone THEN assistant
                      ELSE [assistant EXCEPT ![req[r].user].phone = phone]
    /\ Reply(r)
    /\ UNCHANGED <<user, session, profiles, code, admin>>

ApproveAssistant(r) ==
    /\ At(r, "approve", "write")
    /\ assistant' = [assistant EXCEPT ![req[r].user].status = "SIGNED"]
    /\ Reply(r)
    /\ UNCHANGED <<user, session, profiles, code, admin>>

\* deleteUserById, which commits whatever becomes of the transaction around it.
KeepUser(q) == UNCHANGED <<user, profiles, assistant, admin>>
RemoveUser(q) == Removed(q.user)

RemoveAssistantUser(r) ==
    LET q == req[r] IN
    /\ q.op \in {"reject", "expire"} /\ q.step = "remove" /\ ~UserLocked(q.user)
    /\ IF user[q.user].type = "ASSISTANT"
       THEN RemoveUser(q) /\ Proceed(r, [q EXCEPT !.step = "write"])
       ELSE UNCHANGED <<user, profiles, assistant, admin>> /\ Reply(r)
    /\ UNCHANGED <<session, code>>

\* updateSignStatus and softDelete.
ExpelAssistant(r) ==
    LET q == req[r] IN
    /\ q.op \in {"reject", "expire"} /\ q.step = "write"
    /\ assistant' = [assistant EXCEPT ![q.user].status = IF q.op = "reject" THEN "REJECTED" ELSE "EXPIRED",
                                      ![q.user].deleted = TRUE, ![q.user].phone = None]
    /\ Reply(r)
    /\ UNCHANGED <<user, session, profiles, code, admin>>

AssistantNext == \E r \in Requests :
    \/ BeginOnAssistant(r) \/ UpdateAssistant(r) \/ ApproveAssistant(r)
    \/ RemoveAssistantUser(r) \/ ExpelAssistant(r)

(***************************************************************************)
(* The primary administrator invites others, who activate their account.   *)
(***************************************************************************)
BeginInvite(r) ==
    /\ \E u \in Users :
         \/ user[u].type = None /\ Begin(r, "invite", [op |-> "invite", step |-> "create", user |-> u])
         \/ /\ user[u].type = "ADMIN" /\ admin[u].status = "PENDING_ACTIVATION"
            /\ Begin(r, "invite", [op |-> "invite", step |-> "resend", user |-> u])
    /\ UNCHANGED accountVars

CreateAdmin(r) ==
    LET u == req[r].user IN
    /\ At(r, "invite", "create")
    /\ IF user[u].type = None
       THEN /\ user' = [user EXCEPT ![u].type = "ADMIN"]
            /\ admin' = [admin EXCEPT ![u].status = "PENDING_ACTIVATION"]
       ELSE UNCHANGED <<user, admin>>
    /\ Reply(r)
    /\ UNCHANGED <<session, profiles, assistant, code>>

InvitedAnew(row) == [status |-> "PENDING_ACTIVATION", invited |-> "again"]
InvitedAgain(row) == [row EXCEPT !.invited = "again"]

ResendInvitation(r) ==
    LET u == req[r].user IN
    /\ At(r, "invite", "resend")
    /\ admin' = IF admin[u].status = None THEN admin ELSE [admin EXCEPT ![u] = InvitedAgain(@)]
    /\ Reply(r)
    /\ UNCHANGED <<user, session, profiles, assistant, code>>

\* completeAdminActivation: the session is read from the database, the password set by better-auth.
BeginActivate(r) ==
    /\ \E u \in Users :
         /\ session[u] = "ADMIN" /\ user[u].type = "ADMIN" /\ admin[u].status = "PENDING_ACTIVATION"
         /\ Begin(r, "activate", [op |-> "activate", step |-> "save", user |-> u])
         /\ user' = [user EXCEPT ![u].password = TRUE]
    /\ UNCHANGED <<session, profiles, assistant, code, admin>>

ActivateAdmin(r) ==
    LET u == req[r].user IN
    /\ At(r, "activate", "save")
    /\ admin' = IF admin[u].status = None THEN admin ELSE [admin EXCEPT ![u].status = "ACTIVE"]
    /\ Reply(r)
    /\ UNCHANGED <<user, session, profiles, assistant, code>>

AdminNext == \E r \in Requests :
    BeginInvite(r) \/ CreateAdmin(r) \/ ResendInvitation(r) \/ BeginActivate(r) \/ ActivateAdmin(r)

AccountsNext ==
    \/ \E u \in Users : VerifyEmail(u) \/ SignIn(u) \/ SignOut(u) \/ SessionRenewed(u) \/ Withdraw(u)
    \/ \E k \in Codes : CreateCode(k) \/ CodeExpires(k)
    \/ SignUpNext \/ AssistantNext \/ AdminNext

(***************************************************************************)
(* Properties.                                                             *)
(***************************************************************************)

\* A code that may still be used has given no assistant, and one marked as used has given one: the mark
\* and the assistant are saved together (createAssistant in the sign-up's transaction).
CodesSpent ==
    \A k \in Codes :
      /\ code[k] = "fresh" => \A u \in Users : assistant[u].code # k
      /\ code[k] = "used" => \E u \in Users : assistant[u].code = k

\* An assistant who was rejected or has left is admitted nowhere, even with a session cached in the
\* cookie and an approval that arrives after the rejection (rejectAssistant, expireAssistant).
ExpelledNotAdmitted == \A u \in Users : assistant[u].deleted => ~Admitted(u, "ASSISTANT")

\* An administrator who was activated stays so, whatever invitation was under way (inviteAdmin reads the
\* status long before it writes).
ActivatedStays ==
    [][\A u \in Users : admin[u].status = "ACTIVE" => admin'[u].status = "ACTIVE" \/ user'[u].type = "gone"]_accountVars

\* A user whose sign-up ended without a profile can sign up again: the type of a user without a profile
\* is still the one completeSignUpWithVerifiedEmail asks for.
SignUpCanBeRetried ==
    \A u \in Users :
      \/ user[u].type \in {None, "gone", "PENDING", "ADMIN"}
      \/ \E type \in SignUpTypes : ProfileOf(u, type)
      \/ \E r \in Requests : req[r] # Idle /\ req[r].op = "signUp" /\ req[r].user = u
=============================================================================
