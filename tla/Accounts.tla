------------------------------ MODULE Accounts ------------------------------
(***************************************************************************)
(* The accounts of auth-service: registration with a mailed code, single   *)
(* sign-on, verification, new codes, password reset and change, profiles,  *)
(* roles and deletion.  A request is some statements, each committed on    *)
(* its own.  A save writes the whole row a request has loaded before: what *)
(* others changed meanwhile is undone, and a row that is gone comes back.  *)
(* Passwords, names and numbers are left out.                              *)
(***************************************************************************)
EXTENDS Naturals

CONSTANTS
    Users,       \* ids of users
    Emails,
    Roles,       \* with "customer"
    Codes,       \* ids of codes; one that is used or has expired may come again
    Requests,    \* requests in flight at once
    Nothing,
    MaxCrashes   \* bound on requests that die

Purposes == {"registration", "password_reset"}

VARIABLES
    account,   \* account[u]: the users row
    roles,     \* roles[u]: the roles of the user_roles rows of u
    code,      \* code[c]: the otp_verifications row
    last,      \* last[u][p]: the latest code of u for purpose p
    proven,    \* the users one of whose codes was used, or made by a single sign-on
    request,   \* request[q]: the handler q runs
    crashes

vars == <<account, roles, code, last, proven, request, crashes>>

----------------------------------------------------------------------------
(* Types *)

Row == [email : Emails \cup {Nothing}, verified : BOOLEAN, provider : BOOLEAN]

\* used, or past expires_at, or neither: then its owner has got it by mail or not.
CodeRow == [user : Users \cup {Nothing}, purpose : Purposes,
            status : {"unsent", "sent", "used", "expired"}]

\* copy: the row the request has loaded, as it is going to save it.
Handling == [stage : {"idle", "register", "mail", "useCode", "save", "newCode", "provider",
                      "role", "delete"},
             user : Users \cup {Nothing}, email : Emails \cup {Nothing},
             code : Codes \cup {Nothing}, purpose : Purposes, copy : Row,
             doomed : SUBSET Users]

TypeOK ==
    /\ account \in [Users -> Row]
    /\ roles \in [Users -> SUBSET Roles]
    /\ code \in [Codes -> CodeRow]
    /\ last \in [Users -> [Purposes -> Codes \cup {Nothing}]]
    /\ proven \subseteq Users
    /\ request \in [Requests -> Handling]
    /\ crashes \in 0 .. MaxCrashes

----------------------------------------------------------------------------
(* Operators *)

NoRow == [email |-> Nothing, verified |-> FALSE, provider |-> FALSE]

NoCode == [user |-> Nothing, purpose |-> "registration", status |-> "unsent"]

Idle == [stage |-> "idle", user |-> Nothing, email |-> Nothing, code |-> Nothing,
         purpose |-> "registration", copy |-> NoRow, doomed |-> {}]

At(q, stage) == request[q].stage = stage
Start(q, task) == At(q, "idle") /\ request' = [request EXCEPT ![q] = task]
Answer(q) == request' = [request EXCEPT ![q] = Idle]

Exists(u) == account[u].email # Nothing
Taken(e) == \E u \in Users : account[u].email = e

\* An id no request still knows and nobody has had.
NewUser(u) == ~ Exists(u) /\ u \notin proven /\ \A q \in Requests : request[q].user # u

NewCode(c) ==
    /\ code[c].user = Nothing \/ code[c].status \in {"used", "expired"}
    /\ \A q \in Requests : request[q].code # c

Active_Unused(c) == code[c].status # "used"

\* What keeps a user from getting another code.
Active(c) == code[c].status \in {"unsent", "sent"}

\* A code somebody may present: it came with a mail.
Known(u, c) == code[c].user = u /\ code[c].status = "sent"

\* A new row c in otp_verifications.
Inserted(c, u, purpose) ==
    /\ code' = [code EXCEPT ![c] = [NoCode EXCEPT !.user = u, !.purpose = purpose]]
    /\ last' = [v \in Users |-> [p \in Purposes |->
                  IF v = u /\ p = purpose THEN c
                  ELSE IF last[v][p] = c THEN Nothing ELSE last[v][p]]]

----------------------------------------------------------------------------
Init ==
    /\ account = [u \in Users |-> NoRow]
    /\ roles = [u \in Users |-> {}]
    /\ code = [c \in Codes |-> NoCode]
    /\ last = [u \in Users |-> [p \in Purposes |-> Nothing]]
    /\ proven = {}
    /\ request = [q \in Requests |-> Idle]
    /\ crashes = 0

(* register *)

Register(q, e) ==
    /\ ~ Taken(e)
    /\ Start(q, [Idle EXCEPT !.stage = "register", !.email = e])
    /\ UNCHANGED <<account, roles, code, last, proven, crashes>>

\* One transaction: the user, its role and its first code.
CommitRegister(q, u, c) ==
    /\ At(q, "register")
    /\ ~ Taken(request[q].email)
    /\ NewUser(u) /\ NewCode(c)
    /\ account' = [account EXCEPT ![u] = [NoRow EXCEPT !.email = request[q].email]]
    /\ roles' = [roles EXCEPT ![u] = {"customer"}]
    /\ Inserted(c, u, "registration")
    /\ request' = [request EXCEPT ![q] = [Idle EXCEPT !.stage = "mail", !.user = u, !.code = c]]
    /\ UNCHANGED <<proven, crashes>>

\* The address was taken meanwhile: 23505, of a registration or a single sign-on.
RegisterRefused(q) ==
    /\ request[q].stage \in {"register", "provider"}
    /\ Taken(request[q].email)
    /\ Answer(q)
    /\ UNCHANGED <<account, roles, code, last, proven, crashes>>

\* A mail that cannot be sent is only logged.
Mail(q, sent) ==
    /\ At(q, "mail")
    /\ code' = IF sent /\ code[request[q].code].status = "unsent"
               THEN [code EXCEPT ![request[q].code].status = "sent"] ELSE code
    /\ Answer(q)
    /\ UNCHANGED <<account, roles, last, proven, crashes>>

\* The mail arrives before its code has expired.
MailInTime(q) == Mail(q, TRUE) /\ code[request[q].code].status = "unsent"

----------------------------------------------------------------------------
(* verifyOtp, resetPassword and the codes *)

Redeem_Reusable(q, u, c, copy) ==
    /\ Exists(u) /\ Known(u, c)
    /\ Start(q, [Idle EXCEPT !.stage = "save", !.user = u, !.code = c, !.copy = copy])
    /\ UNCHANGED <<account, roles, code, last, proven, crashes>>

\* The start of a request that uses up code c and then saves the row it has loaded.
Redeem(q, u, c, copy) ==
    /\ Exists(u) /\ Known(u, c)
    /\ Start(q, [Idle EXCEPT !.stage = "useCode", !.user = u, !.code = c, !.copy = copy])
    /\ UNCHANGED <<account, roles, code, last, proven, crashes>>

\* A code of either purpose verifies.
VerifyOtp(q, u, c) == Redeem(q, u, c, [account[u] EXCEPT !.verified = TRUE])

ResetPassword(q, u, c) == code[c].purpose = "password_reset" /\ Redeem(q, u, c, account[u])

\* The code is used up before the row of the user is saved.
UseCode(q) ==
    /\ At(q, "useCode")
    /\ code[request[q].code].user = request[q].user
    /\ code' = [code EXCEPT ![request[q].code].status = "used"]
    /\ proven' = proven \cup {request[q].user}
    /\ request' = [request EXCEPT ![q].stage = "save"]
    /\ UNCHANGED <<account, roles, last, crashes>>

\* userRepo.save of the loaded row.
SaveUser(q) ==
    LET u == request[q].user
        copy == request[q].copy IN
    /\ At(q, "save")
    /\ Exists(u) \/ ~ Taken(copy.email)
    /\ account' = [account EXCEPT ![u] = copy]
    /\ Answer(q)
    /\ UNCHANGED <<roles, code, last, proven, crashes>>

\* What a statement refers to, or the address it writes, is gone.
StatementRefused(q) ==
    LET u == request[q].user IN
    /\ request[q].stage \in {"useCode", "newCode", "role", "save"}
    /\ ~ Exists(u)
    /\ At(q, "save") => Taken(request[q].copy.email)
    /\ Answer(q)
    /\ UNCHANGED <<account, roles, code, last, proven, crashes>>

\* Another code, unless the last one is still active.
AskForCode(q, u, purpose) ==
    /\ Exists(u)
    /\ last[u][purpose] # Nothing => ~ Active(last[u][purpose])
    /\ Start(q, [Idle EXCEPT !.stage = "newCode", !.user = u, !.purpose = purpose])
    /\ UNCHANGED <<account, roles, code, last, proven, crashes>>

ResendOtp(q, u, purpose) == AskForCode(q, u, purpose)
ForgotPassword(q, u) == AskForCode(q, u, "password_reset")

CreateAndSendOtp(q, c) ==
    LET u == request[q].user IN
    /\ At(q, "newCode")
    /\ Exists(u)
    /\ NewCode(c)
    /\ Inserted(c, u, request[q].purpose)
    /\ request' = [request EXCEPT ![q].stage = "mail", ![q].code = c]
    /\ UNCHANGED <<account, roles, proven, crashes>>

\* expires_at passes, one minute after the insert: the mail may still be on its way.
ExpireCode(c) ==
    /\ code[c].user # Nothing /\ Active(c)
    /\ code' = [code EXCEPT ![c].status = "expired"]
    /\ UNCHANGED <<account, roles, last, proven, request, crashes>>

----------------------------------------------------------------------------
(* changePassword, updateProfile *)

\* The start of a request that saves the row it has loaded, after its checks.
Resave(q, u, copy) ==
    /\ Exists(u)
    /\ Start(q, [Idle EXCEPT !.stage = "save", !.user = u, !.copy = copy])
    /\ UNCHANGED <<account, roles, code, last, proven, crashes>>

ChangePassword(q, u) == Resave(q, u, account[u])
UpdateProfile(q, u) == Resave(q, u, account[u])

----------------------------------------------------------------------------
(* Single sign-on: the address is the one in the token, whose signature is not *)
(* verified (verifyGoogleTokenUnsafe): the model takes every token as genuine. *)

SsoNew(q, e) ==
    /\ ~ Taken(e)
    /\ Start(q, [Idle EXCEPT !.stage = "provider", !.email = e])
    /\ UNCHANGED <<account, roles, code, last, proven, crashes>>

\* An account of that address is linked to its first provider; it is not verified by that.
SsoLink(q, u) ==
    ~ account[u].provider /\ Resave(q, u, [account[u] EXCEPT !.provider = TRUE])

SsoLogin(q, e) ==
    SsoNew(q, e) \/ \E u \in Users : account[u].email = e /\ SsoLink(q, u)

InsertSsoUser(q, u) ==
    /\ At(q, "provider")
    /\ ~ Taken(request[q].email)
    /\ NewUser(u)
    /\ account' = [account EXCEPT ![u] = [NoRow EXCEPT !.email = request[q].email,
                                             !.verified = TRUE, !.provider = TRUE]]
    /\ proven' = proven \cup {u}
    /\ request' = [request EXCEPT ![q].stage = "role", ![q].user = u]
    /\ UNCHANGED <<roles, code, last, crashes>>

\* A statement of its own, if there is such a role yet.
SsoRole(q) ==
    LET u == request[q].user IN
    /\ At(q, "role")
    /\ Exists(u)
    /\ roles' \in {roles, [roles EXCEPT ![u] = @ \cup {"customer"}]}
    /\ Answer(q)
    /\ UNCHANGED <<account, code, last, proven, crashes>>

----------------------------------------------------------------------------
(* Roles and deletion *)

\* The role is part of the row's key: to save a row whose role was changed inserts another.
AssignRole(u, role) ==
    /\ Exists(u)
    /\ role \notin roles[u]
    /\ roles' = [roles EXCEPT ![u] = @ \cup {role}]
    /\ UNCHANGED <<account, code, last, proven, request, crashes>>

RemoveRole(u, role) ==
    /\ role \in roles[u]
    /\ roles' = [roles EXCEPT ![u] = @ \ {role}]
    /\ UNCHANGED <<account, code, last, proven, request, crashes>>

DeleteUserIfCustomer(q, u) ==
    /\ Exists(u) /\ "customer" \in roles[u]
    /\ Start(q, [Idle EXCEPT !.stage = "delete", !.doomed = {u}])
    /\ UNCHANGED <<account, roles, code, last, proven, crashes>>

DeleteAllCustomers(q) ==
    LET customers == {u \in Users : "customer" \in roles[u]} IN
    /\ customers # {}
    /\ Start(q, [Idle EXCEPT !.stage = "delete", !.doomed = customers])
    /\ UNCHANGED <<account, roles, code, last, proven, crashes>>

\* The rows that refer to a user go with it.
Delete(q) ==
    LET doomed == request[q].doomed IN
    /\ At(q, "delete")
    /\ account' = [u \in Users |-> IF u \in doomed THEN NoRow ELSE account[u]]
    /\ roles' = [u \in Users |-> IF u \in doomed THEN {} ELSE roles[u]]
    /\ code' = [c \in Codes |-> IF code[c].user \in doomed THEN NoCode ELSE code[c]]
    /\ last' = [u \in Users |-> IF u \in doomed THEN [p \in Purposes |-> Nothing] ELSE last[u]]
    /\ Answer(q)
    /\ UNCHANGED <<proven, crashes>>

Crash(q) ==
    /\ ~ At(q, "idle")
    /\ crashes < MaxCrashes
    /\ crashes' = crashes + 1
    /\ Answer(q)
    /\ UNCHANGED <<account, roles, code, last, proven>>

----------------------------------------------------------------------------
(* Specification *)

Handle(q) ==
    \/ \E u \in Users, c \in Codes : CommitRegister(q, u, c)
    \/ RegisterRefused(q)
    \/ \E sent \in BOOLEAN : Mail(q, sent)
    \/ UseCode(q)
    \/ SaveUser(q)
    \/ StatementRefused(q)
    \/ \E c \in Codes : CreateAndSendOtp(q, c)
    \/ \E u \in Users : InsertSsoUser(q, u)
    \/ SsoRole(q)
    \/ Delete(q)

Ask(q) ==
    \/ \E e \in Emails : Register(q, e) \/ SsoLogin(q, e)
    \/ \E u \in Users, c \in Codes : VerifyOtp(q, u, c) \/ ResetPassword(q, u, c)
    \/ \E u \in Users, p \in Purposes : ResendOtp(q, u, p)
    \/ \E u \in Users : ForgotPassword(q, u)
    \/ \E u \in Users : ChangePassword(q, u) \/ UpdateProfile(q, u)
    \/ \E u \in Users : DeleteUserIfCustomer(q, u)
    \/ DeleteAllCustomers(q)

Next ==
    \/ \E q \in Requests : Ask(q) \/ Handle(q) \/ Crash(q)
    \/ \E u \in Users, role \in Roles :
          AssignRole(u, role) \/ RemoveRole(u, role)
    \/ \E c \in Codes : ExpireCode(c)

Spec == Init /\ [][Next]_vars

\* Requests are carried through, time passes, and a user who is not verified goes on asking
\* for a code and presenting what came; not every mail is lost or late, and now and then a
\* code that came is presented before it expires.
Fairness ==
    /\ \A q \in Requests : WF_vars(Handle(q)) /\ SF_vars(MailInTime(q))
    /\ \A c \in Codes : WF_vars(ExpireCode(c))
    /\ \A u \in Users :
          /\ SF_vars(\E q \in Requests : ResendOtp(q, u, "registration"))
          /\ SF_vars(\E q \in Requests, c \in Codes : VerifyOtp(q, u, c))

FairSpec == Spec /\ Fairness

----------------------------------------------------------------------------
(* Properties *)

\* Whatever requests of a user overlap, whichever die and whatever a late save brings back:
\* an account is verified only if one of its codes was used up, or a single sign-on made it.
VerifiedWasProven == \A u \in Users : account[u].verified => u \in proven

\* A user who registered is not locked out: not by a mail that was lost or came after its code
\* had expired, a code that expired unused or was used by a request that died before it saved
\* the user ("resend OTP if previous is expired or used"), nor by a late save that takes the
\* verification back.
EventuallyVerified ==
    \A u \in Users : Exists(u) ~> account[u].verified \/ ~ Exists(u)

=============================================================================
