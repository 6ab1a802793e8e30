--------------------------- MODULE AccountsProofs ---------------------------
(***************************************************************************)
(* Theorems about the accounts, for any users, addresses, codes and        *)
(* requests and any number of crashes.                                     *)
(***************************************************************************)
EXTENDS Accounts, TLAPS

\* What a save is going to write is what somebody has proven: the code is used up, and the
\* user noted, in the step before a copy that verifies can be saved.
CopiesProven ==
    \A q \in Requests :
        At(q, "save") /\ request[q].copy.verified => request[q].user \in proven

\* A request that uses up a code does so for a user.
UsersNamed == \A q \in Requests : At(q, "useCode") => request[q].user \in Users

\* What the types need of the constants: registration gives the role "customer".
ConstantsTyped == "customer" \in Roles /\ MaxCrashes \in Nat

----------------------------------------------------------------------------
(* Types *)

\* Nothing that is empty, idle or unwritten has the wrong type.
LEMMA BlanksTyped == NoRow \in Row /\ NoCode \in CodeRow /\ Idle \in Handling
  BY DEF NoRow, Row, NoCode, CodeRow, Idle, Handling, Purposes

LEMMA TypeInitially ==
    ASSUME ConstantsTyped, Init
    PROVE  TypeOK
  <1>1. crashes \in 0 .. MaxCrashes
    BY DEF ConstantsTyped, Init
  <1> QED  BY <1>1, BlanksTyped DEF Init, TypeOK

\* A request that begins, or is answered.
LEMMA StartTyped ==
    ASSUME TypeOK, NEW q \in Requests, NEW task \in Handling, Start(q, task)
    PROVE  request' \in [Requests -> Handling]
  BY DEF TypeOK, Start

LEMMA AnswerTyped ==
    ASSUME TypeOK, NEW q \in Requests, Answer(q)
    PROVE  request' \in [Requests -> Handling]
  BY DEF TypeOK, Answer, Idle, Handling, Purposes, NoRow, Row

LEMMA InsertedTyped ==
    ASSUME TypeOK, NEW c \in Codes, NEW u \in Users, NEW p \in Purposes, Inserted(c, u, p)
    PROVE  /\ code' \in [Codes -> CodeRow]
           /\ last' \in [Users -> [Purposes -> Codes \cup {Nothing}]]
  <1>1. [NoCode EXCEPT !.user = u, !.purpose = p] \in CodeRow
    BY DEF NoCode, CodeRow, Purposes
  <1> QED  BY <1>1 DEF TypeOK, Inserted

LEMMA AskTyped ==
    ASSUME TypeOK, NEW q \in Requests, Ask(q)
    PROVE  TypeOK'
  <1>1. ASSUME NEW e \in Emails, Register(q, e) \/ SsoNew(q, e)
        PROVE  TypeOK'
    <2>1. /\ [Idle EXCEPT !.stage = "register", !.email = e] \in Handling
          /\ [Idle EXCEPT !.stage = "provider", !.email = e] \in Handling
      BY DEF Idle, Handling, Purposes, NoRow, Row
    <2>2. request' \in [Requests -> Handling]
      BY <1>1, <2>1, StartTyped DEF Register, SsoNew
    <2> QED  BY <1>1, <2>2 DEF TypeOK, Register, SsoNew
  <1>2. ASSUME NEW u \in Users, NEW c \in Codes, NEW copy \in Row, Redeem(q, u, c, copy)
        PROVE  TypeOK'
    <2>1. [Idle EXCEPT !.stage = "useCode", !.user = u, !.code = c, !.copy = copy] \in Handling
      BY DEF Idle, Handling, Purposes, NoRow, Row
    <2>2. request' \in [Requests -> Handling]
      BY <1>2, <2>1, StartTyped DEF Redeem
    <2> QED  BY <1>2, <2>2 DEF TypeOK, Redeem
  <1>3. ASSUME NEW u \in Users, NEW copy \in Row, Resave(q, u, copy)
        PROVE  TypeOK'
    <2>1. [Idle EXCEPT !.stage = "save", !.user = u, !.copy = copy] \in Handling
      BY DEF Idle, Handling, Purposes, NoRow, Row
    <2>2. request' \in [Requests -> Handling]
      BY <1>3, <2>1, StartTyped DEF Resave
    <2> QED  BY <1>3, <2>2 DEF TypeOK, Resave
  <1>4. ASSUME NEW u \in Users, NEW p \in Purposes, AskForCode(q, u, p)
        PROVE  TypeOK'
    <2>1. [Idle EXCEPT !.stage = "newCode", !.user = u, !.purpose = p] \in Handling
      BY DEF Idle, Handling, Purposes, NoRow, Row
    <2>2. request' \in [Requests -> Handling]
      BY <1>4, <2>1, StartTyped DEF AskForCode
    <2> QED  BY <1>4, <2>2 DEF TypeOK, AskForCode
  <1>5. ASSUME NEW doomed \in SUBSET Users,
               Start(q, [Idle EXCEPT !.stage = "delete", !.doomed = doomed]),
               UNCHANGED <<account, roles, code, last, proven, crashes>>
        PROVE  TypeOK'
    <2>1. [Idle EXCEPT !.stage = "delete", !.doomed = doomed] \in Handling
      BY DEF Idle, Handling, Purposes, NoRow, Row
    <2>2. request' \in [Requests -> Handling]
      BY <1>5, <2>1, StartTyped
    <2> QED  BY <1>5, <2>2 DEF TypeOK
  <1>6. \A u \in Users : /\ account[u] \in Row
                         /\ [account[u] EXCEPT !.verified = TRUE] \in Row
                         /\ [account[u] EXCEPT !.provider = TRUE] \in Row
    BY DEF TypeOK, Row
  <1>7. CASE \E e \in Emails : Register(q, e) \/ SsoLogin(q, e)
    BY <1>1, <1>3, <1>6, <1>7 DEF SsoLogin, SsoLink
  <1>8. CASE \E u \in Users, c \in Codes : VerifyOtp(q, u, c) \/ ResetPassword(q, u, c)
    BY <1>2, <1>6, <1>8 DEF VerifyOtp, ResetPassword
  <1>9. CASE \/ \E u \in Users, p \in Purposes : ResendOtp(q, u, p)
             \/ \E u \in Users : ForgotPassword(q, u)
    BY <1>4, <1>9 DEF ResendOtp, ForgotPassword, Purposes
  <1>10. CASE \E u \in Users : ChangePassword(q, u) \/ UpdateProfile(q, u)
    BY <1>3, <1>6, <1>10 DEF ChangePassword, UpdateProfile
  <1>11. CASE \/ \E u \in Users : DeleteUserIfCustomer(q, u)
              \/ DeleteAllCustomers(q)
    BY <1>5, <1>11 DEF DeleteUserIfCustomer, DeleteAllCustomers
  <1> QED  BY <1>7, <1>8, <1>9, <1>10, <1>11 DEF Ask

LEMMA HandleTyped ==
    ASSUME ConstantsTyped, TypeOK, UsersNamed, NEW q \in Requests, Handle(q)
    PROVE  TypeOK'
  <1>1. ASSUME NEW u \in Users, NEW c \in Codes, CommitRegister(q, u, c)
        PROVE  TypeOK'
    <2>1. account' \in [Users -> Row]
      BY <1>1 DEF TypeOK, CommitRegister, At, Row, Handling, NoRow
    <2>2. roles' \in [Users -> SUBSET Roles]
      BY <1>1 DEF TypeOK, CommitRegister, ConstantsTyped
    <2>3. /\ code' \in [Codes -> CodeRow]
          /\ last' \in [Users -> [Purposes -> Codes \cup {Nothing}]]
      BY <1>1, InsertedTyped DEF CommitRegister, Purposes
    <2>4. [Idle EXCEPT !.stage = "mail", !.user = u, !.code = c] \in Handling
      BY DEF Idle, Handling, Purposes, NoRow, Row
    <2> QED  BY <1>1, <2>1, <2>2, <2>3, <2>4 DEF TypeOK, CommitRegister
  <1>2. CASE RegisterRefused(q) \/ StatementRefused(q)
    BY <1>2, AnswerTyped DEF TypeOK, RegisterRefused, StatementRefused
  <1>3. ASSUME NEW isSent \in BOOLEAN, Mail(q, isSent)
        PROVE  TypeOK'
    <2>1. request' \in [Requests -> Handling]
      BY <1>3, AnswerTyped DEF Mail
    <2>2. code' \in [Codes -> CodeRow]
      BY <1>3 DEF TypeOK, Mail, CodeRow
    <2> QED  BY <1>3, <2>1, <2>2 DEF TypeOK, Mail
  <1>4. CASE UseCode(q)
    <2>1. \A c \in Codes : [code[c] EXCEPT !.status = "used"] \in CodeRow
      BY DEF TypeOK, CodeRow
    <2>2. code' \in [Codes -> CodeRow]
      BY <1>4, <2>1 DEF TypeOK, UseCode
    <2>3. request' \in [Requests -> Handling]
      <3>1. [request[q] EXCEPT !.stage = "save"] \in Handling
        BY DEF TypeOK, Handling
      <3> QED  BY <1>4, <3>1 DEF TypeOK, UseCode
    <2>4. request[q].user \in Users
      BY <1>4 DEF UsersNamed, UseCode
    <2> QED  BY <1>4, <2>2, <2>3, <2>4 DEF TypeOK, UseCode
  <1>5. CASE SaveUser(q)
    <2>1. request[q].copy \in Row
      BY DEF TypeOK, Handling
    <2>2. account' \in [Users -> Row]
      BY <1>5, <2>1 DEF TypeOK, SaveUser
    <2>3. request' \in [Requests -> Handling]
      BY <1>5, AnswerTyped DEF SaveUser
    <2> QED  BY <1>5, <2>2, <2>3 DEF TypeOK, SaveUser
  <1>6. ASSUME NEW c \in Codes, CreateAndSendOtp(q, c)
        PROVE  TypeOK'
    <2>1. request' \in [Requests -> Handling]
      <3>1. [[request[q] EXCEPT !.stage = "mail"] EXCEPT !.code = c] \in Handling
        BY DEF TypeOK, Handling
      <3> QED  BY <1>6, <3>1 DEF TypeOK, CreateAndSendOtp
    <2>2. PICK u : u = request[q].user
      OBVIOUS
    <2>3. request[q].purpose \in Purposes /\ u \in Users \cup {Nothing}
      BY <2>2 DEF TypeOK, Handling
    <2>4. code' \in [Codes -> CodeRow]
      BY <1>6, <2>2, <2>3 DEF TypeOK, CreateAndSendOtp, Inserted, CodeRow, NoCode
    <2>5. last' \in [Users -> [Purposes -> Codes \cup {Nothing}]]
      BY <1>6, <2>2, <2>3 DEF TypeOK, CreateAndSendOtp, Inserted
    <2> QED  BY <1>6, <2>1, <2>4, <2>5 DEF TypeOK, CreateAndSendOtp
  <1>7. ASSUME NEW u \in Users, InsertSsoUser(q, u)
        PROVE  TypeOK'
    <2>1. account' \in [Users -> Row]
      BY <1>7 DEF TypeOK, InsertSsoUser, At, Row, Handling, NoRow
    <2>2. request' \in [Requests -> Handling]
      <3>1. [[request[q] EXCEPT !.stage = "role"] EXCEPT !.user = u] \in Handling
        BY DEF TypeOK, Handling
      <3> QED  BY <1>7, <3>1 DEF TypeOK, InsertSsoUser
    <2> QED  BY <1>7, <2>1, <2>2 DEF TypeOK, InsertSsoUser
  <1>8. CASE SsoRole(q)
    <2>1. roles' \in [Users -> SUBSET Roles]
      BY <1>8 DEF TypeOK, SsoRole, ConstantsTyped
    <2>2. request' \in [Requests -> Handling]
      BY <1>8, AnswerTyped DEF SsoRole
    <2> QED  BY <1>8, <2>1, <2>2 DEF TypeOK, SsoRole
  <1>9. CASE Delete(q)
    <2>1. request' \in [Requests -> Handling]
      BY <1>9, AnswerTyped DEF Delete
    <2>2. account' \in [Users -> Row] /\ code' \in [Codes -> CodeRow]
      BY <1>9, BlanksTyped DEF TypeOK, Delete
    <2>3. /\ roles' \in [Users -> SUBSET Roles]
          /\ last' \in [Users -> [Purposes -> Codes \cup {Nothing}]]
      BY <1>9 DEF TypeOK, Delete
    <2> QED  BY <1>9, <2>1, <2>2, <2>3 DEF TypeOK, Delete
  <1> QED  BY <1>1, <1>2, <1>3, <1>4, <1>5, <1>6, <1>7, <1>8, <1>9 DEF Handle

LEMMA TypeKept ==
    ASSUME ConstantsTyped, TypeOK, UsersNamed, [Next]_vars
    PROVE  TypeOK'
  <1>1. ASSUME NEW q \in Requests, Crash(q)
        PROVE  TypeOK'
    <2>1. request' \in [Requests -> Handling]
      BY <1>1, AnswerTyped DEF Crash
    <2>2. crashes' \in 0 .. MaxCrashes
      BY <1>1 DEF TypeOK, Crash, ConstantsTyped
    <2> QED  BY <1>1, <2>1, <2>2 DEF TypeOK, Crash
  <1>2. ASSUME NEW u \in Users, NEW role \in Roles, AssignRole(u, role) \/ RemoveRole(u, role)
        PROVE  TypeOK'
    BY <1>2 DEF TypeOK, AssignRole, RemoveRole
  <1>3. ASSUME NEW c \in Codes, ExpireCode(c)
        PROVE  TypeOK'
    <2>1. code' \in [Codes -> CodeRow]
      BY <1>3 DEF TypeOK, ExpireCode, CodeRow
    <2> QED  BY <1>3, <2>1 DEF TypeOK, ExpireCode
  <1>4. CASE UNCHANGED vars
    BY <1>4 DEF TypeOK, vars
  <1> QED  BY <1>1, <1>2, <1>3, <1>4, AskTyped, HandleTyped DEF Next

----------------------------------------------------------------------------
(* Which request a step brings to a stage *)

\* Whoever is at a stage after the step was there before.
NobodyEnters(stage) == \A q \in Requests : At(q, stage)' => request'[q] = request[q]

LEMMA AnswerEnters ==
    ASSUME TypeOK, NEW q \in Requests, Answer(q)
    PROVE  NobodyEnters("useCode") /\ NobodyEnters("save")
  BY DEF TypeOK, Answer, Idle, At, NobodyEnters

LEMMA StartEnters ==
    ASSUME TypeOK, NEW q \in Requests, NEW task, Start(q, task)
    PROVE  /\ request'[q] = task
           /\ \A p \in Requests \ {q} : request'[p] = request[p]
  BY DEF TypeOK, Start

\* Of the steps of a handler only UseCode brings a request to a save.
LEMMA HandleEnters ==
    ASSUME TypeOK, NEW q \in Requests, Handle(q) \/ Crash(q)
    PROVE  NobodyEnters("useCode") /\ (UseCode(q) \/ NobodyEnters("save"))
  <1>1. CASE Answer(q)
    BY <1>1, AnswerEnters
  <1>2. ASSUME NEW u \in Users, NEW c \in Codes, CommitRegister(q, u, c)
        PROVE  NobodyEnters("useCode") /\ NobodyEnters("save")
    BY <1>2 DEF TypeOK, CommitRegister, Idle, At, NobodyEnters
  <1>3. ASSUME NEW c \in Codes, CreateAndSendOtp(q, c)
        PROVE  NobodyEnters("useCode") /\ NobodyEnters("save")
    <2>1. [[request[q] EXCEPT !.stage = "mail"] EXCEPT !.code = c].stage = "mail"
      BY DEF TypeOK, Handling
    <2> QED  BY <1>3, <2>1 DEF TypeOK, CreateAndSendOtp, At, NobodyEnters
  <1>4. ASSUME NEW u \in Users, InsertSsoUser(q, u)
        PROVE  NobodyEnters("useCode") /\ NobodyEnters("save")
    <2>1. [[request[q] EXCEPT !.stage = "role"] EXCEPT !.user = u].stage = "role"
      BY DEF TypeOK, Handling
    <2> QED  BY <1>4, <2>1 DEF TypeOK, InsertSsoUser, At, NobodyEnters
  <1>5. CASE UseCode(q)
    <2>1. [request[q] EXCEPT !.stage = "save"].stage = "save"
      BY DEF TypeOK, Handling
    <2> QED  BY <1>5, <2>1 DEF TypeOK, UseCode, At, NobodyEnters
  <1>6. \/ Answer(q) \/ UseCode(q)
        \/ \E u \in Users, c \in Codes : CommitRegister(q, u, c)
        \/ \E c \in Codes : CreateAndSendOtp(q, c)
        \/ \E u \in Users : InsertSsoUser(q, u)
    BY DEF Handle, Crash, RegisterRefused, Mail, SaveUser, StatementRefused, SsoRole, Delete
  <1> QED  BY <1>1, <1>2, <1>3, <1>4, <1>5, <1>6

\* What a request begins with: a code, a row to save, or neither.
Neutral(q) ==
    \E task : Start(q, task) /\ task.stage \notin {"useCode", "save"}
              /\ UNCHANGED <<account, proven>>

LEMMA AskBegins ==
    ASSUME TypeOK, NEW q \in Requests, Ask(q)
    PROVE  \/ \E u \in Users, c \in Codes, copy \in Row : Redeem(q, u, c, copy)
           \/ \E u \in Users, copy \in Row :
                 Resave(q, u, copy) /\ (copy.verified => account[u].verified)
           \/ Neutral(q)
  <1>1. \A u \in Users :
           /\ account[u] \in Row
           /\ [account[u] EXCEPT !.verified = TRUE] \in Row
           /\ [account[u] EXCEPT !.provider = TRUE] \in Row
           /\ [account[u] EXCEPT !.provider = TRUE].verified = account[u].verified
    BY DEF TypeOK, Row
  <1>2. ASSUME NEW e \in Emails, Register(q, e)
        PROVE  Neutral(q)
    <2>1. [Idle EXCEPT !.stage = "register", !.email = e].stage = "register"
      BY DEF Idle
    <2> QED  BY <1>2, <2>1 DEF Register, Neutral
  <1>3. ASSUME NEW e \in Emails, SsoNew(q, e)
        PROVE  Neutral(q)
    <2>1. [Idle EXCEPT !.stage = "provider", !.email = e].stage = "provider"
      BY DEF Idle
    <2> QED  BY <1>3, <2>1 DEF SsoNew, Neutral
  <1>4. ASSUME NEW u, NEW p, AskForCode(q, u, p)
        PROVE  Neutral(q)
    <2>1. [Idle EXCEPT !.stage = "newCode", !.user = u, !.purpose = p].stage = "newCode"
      BY DEF Idle
    <2> QED  BY <1>4, <2>1 DEF AskForCode, Neutral
  <1>5. ASSUME NEW doomed, Start(q, [Idle EXCEPT !.stage = "delete", !.doomed = doomed]),
               UNCHANGED <<account, proven>>
        PROVE  Neutral(q)
    <2>1. [Idle EXCEPT !.stage = "delete", !.doomed = doomed].stage = "delete"
      BY DEF Idle
    <2> QED  BY <1>5, <2>1 DEF Neutral
  <1>6. CASE \E e \in Emails : Register(q, e) \/ SsoLogin(q, e)
    BY <1>1, <1>2, <1>3, <1>6 DEF SsoLogin, SsoLink
  <1>7. CASE \E u \in Users, c \in Codes : VerifyOtp(q, u, c) \/ ResetPassword(q, u, c)
    BY <1>1, <1>7 DEF VerifyOtp, ResetPassword
  <1>8. CASE \/ \E u \in Users, p \in Purposes : ResendOtp(q, u, p)
             \/ \E u \in Users : ForgotPassword(q, u)
    BY <1>4, <1>8 DEF ResendOtp, ForgotPassword
  <1>9. CASE \E u \in Users : ChangePassword(q, u) \/ UpdateProfile(q, u)
    BY <1>1, <1>9 DEF ChangePassword, UpdateProfile
  <1>10. CASE (\E u \in Users : DeleteUserIfCustomer(q, u)) \/ DeleteAllCustomers(q)
    BY <1>5, <1>10 DEF DeleteUserIfCustomer, DeleteAllCustomers
  <1> QED  BY <1>6, <1>7, <1>8, <1>9, <1>10 DEF Ask

LEMMA UsersStayNamed ==
    ASSUME TypeOK, UsersNamed, [Next]_vars
    PROVE  UsersNamed'
  <1>1. CASE NobodyEnters("useCode")
    BY <1>1 DEF NobodyEnters, UsersNamed, At
  <1>2. ASSUME NEW q \in Requests, Ask(q)
        PROVE  UsersNamed'
    <2>1. ASSUME NEW u \in Users, NEW c \in Codes, NEW copy \in Row, Redeem(q, u, c, copy)
          PROVE  UsersNamed'
      <3>1. Start(q, [Idle EXCEPT !.stage = "useCode", !.user = u, !.code = c, !.copy = copy])
        BY <2>1 DEF Redeem
      <3>2. [Idle EXCEPT !.stage = "useCode", !.user = u, !.code = c, !.copy = copy].user = u
        BY DEF Idle
      <3> QED  BY <3>1, <3>2, StartEnters DEF UsersNamed, At
    <2>2. ASSUME NEW u \in Users, NEW copy \in Row, Resave(q, u, copy)
          PROVE  UsersNamed'
      <3>1. [Idle EXCEPT !.stage = "save", !.user = u, !.copy = copy].stage = "save"
        BY DEF Idle
      <3> QED  BY <1>1, <2>2, <3>1, StartEnters DEF Resave, NobodyEnters, At
    <2>3. CASE Neutral(q)
      BY <1>1, <2>3, StartEnters DEF Neutral, NobodyEnters, At
    <2> QED  BY <1>2, <2>1, <2>2, <2>3, AskBegins
  <1>3. ASSUME NEW q \in Requests, Handle(q) \/ Crash(q)
        PROVE  UsersNamed'
    BY <1>1, <1>3, HandleEnters
  <1>4. CASE \/ \E u \in Users, role \in Roles : AssignRole(u, role) \/ RemoveRole(u, role)
             \/ \E c \in Codes : ExpireCode(c)
             \/ UNCHANGED vars
    BY <1>1, <1>4 DEF NobodyEnters, AssignRole, RemoveRole, ExpireCode, vars
  <1> QED  BY <1>2, <1>3, <1>4 DEF Next

----------------------------------------------------------------------------
(* Verified accounts *)

LEMMA ProvenInitially == Init => VerifiedWasProven /\ CopiesProven
  BY DEF Init, VerifiedWasProven, CopiesProven, NoRow, Idle, At

\* A step that verifies nobody and gives no request a row to save.
Quiet ==
    /\ \A u \in Users : account'[u].verified => account[u].verified
    /\ NobodyEnters("save")
    /\ proven \subseteq proven'

LEMMA QuietKeeps ==
    ASSUME VerifiedWasProven, CopiesProven, Quiet
    PROVE  (VerifiedWasProven /\ CopiesProven)'
  BY DEF Quiet, NobodyEnters, VerifiedWasProven, CopiesProven, At

LEMMA ResaveKeeps ==
    ASSUME TypeOK, VerifiedWasProven, CopiesProven,
           NEW q \in Requests, NEW u \in Users, NEW copy,
           copy.verified => account[u].verified, Resave(q, u, copy)
    PROVE  (VerifiedWasProven /\ CopiesProven)'
  <1>1. VerifiedWasProven'
    BY DEF VerifiedWasProven, Resave
  <1>2. request'[q].user = u /\ request'[q].copy = copy
    BY DEF TypeOK, Resave, Start, Idle
  <1>3. \A p \in Requests \ {q} : request'[p] = request[p]
    BY DEF TypeOK, Resave, Start
  <1>4. CopiesProven'
    BY <1>2, <1>3 DEF VerifiedWasProven, CopiesProven, Resave, At
  <1> QED  BY <1>1, <1>4

LEMMA ProvenKept ==
    ASSUME TypeOK, UsersNamed, VerifiedWasProven, CopiesProven, [Next]_vars
    PROVE  (VerifiedWasProven /\ CopiesProven)'
  <1>1. ASSUME NEW q \in Requests, UseCode(q)
        PROVE  (VerifiedWasProven /\ CopiesProven)'
    <2>1. \A p \in Requests \ {q} : request'[p] = request[p]
      BY <1>1 DEF TypeOK, UseCode
    <2>2. request'[q].user = request[q].user
      BY <1>1 DEF TypeOK, UseCode, Handling
    <2> QED  BY <1>1, <2>1, <2>2 DEF VerifiedWasProven, CopiesProven, UseCode, At
  <1>2. ASSUME NEW q \in Requests, SaveUser(q)
        PROVE  (VerifiedWasProven /\ CopiesProven)'
    <2>1. \A u \in Users : account'[u].verified => u \in proven
      BY <1>2 DEF TypeOK, SaveUser, VerifiedWasProven, CopiesProven
    <2>2. NobodyEnters("save")
      BY <1>2, AnswerEnters DEF SaveUser
    <2> QED  BY <1>2, <2>1, <2>2 DEF VerifiedWasProven, CopiesProven, SaveUser, NobodyEnters, At
  <1>3. ASSUME NEW q \in Requests, NEW u \in Users, InsertSsoUser(q, u)
        PROVE  (VerifiedWasProven /\ CopiesProven)'
    <2>1. \A v \in Users \ {u} : account'[v] = account[v]
      BY <1>3 DEF TypeOK, InsertSsoUser
    <2>2. NobodyEnters("save")
      <3>1. [[request[q] EXCEPT !.stage = "role"] EXCEPT !.user = u].stage = "role"
        BY DEF TypeOK, Handling
      <3> QED  BY <1>3, <3>1 DEF TypeOK, InsertSsoUser, At, NobodyEnters
    <2>3. VerifiedWasProven'
      BY <1>3, <2>1 DEF VerifiedWasProven, InsertSsoUser
    <2>4. CopiesProven'
      <3>1. proven \subseteq proven'
        BY <1>3 DEF InsertSsoUser
      <3> QED  BY <2>2, <3>1 DEF CopiesProven, NobodyEnters, At
    <2> QED  BY <2>3, <2>4
  <1>4. ASSUME NEW q \in Requests, Ask(q)
        PROVE  (VerifiedWasProven /\ CopiesProven)'
    <2>1. ASSUME NEW u \in Users, NEW c \in Codes, NEW copy \in Row, Redeem(q, u, c, copy)
          PROVE  (VerifiedWasProven /\ CopiesProven)'
      <3>1. [Idle EXCEPT !.stage = "useCode", !.user = u, !.code = c, !.copy = copy].stage = "useCode"
        BY DEF Idle
      <3> QED  BY <2>1, <3>1, StartEnters, QuietKeeps DEF Redeem, Quiet, NobodyEnters, At
    <2>2. CASE Neutral(q)
      BY <2>2, StartEnters, QuietKeeps DEF Neutral, Quiet, NobodyEnters, At
    <2> QED  BY <1>4, <2>1, <2>2, ResaveKeeps, AskBegins
  <1>5. ASSUME NEW q \in Requests,
               \/ \E u \in Users, c \in Codes : CommitRegister(q, u, c)
               \/ RegisterRefused(q) \/ StatementRefused(q)
               \/ \E isSent \in BOOLEAN : Mail(q, isSent)
               \/ \E c \in Codes : CreateAndSendOtp(q, c)
               \/ SsoRole(q) \/ Delete(q) \/ Crash(q)
        PROVE  (VerifiedWasProven /\ CopiesProven)'
    <2>1. proven' = proven
      BY <1>5 DEF CommitRegister, RegisterRefused, StatementRefused, Mail, CreateAndSendOtp,
            SsoRole, Delete, Crash
    <2>2. \A u \in Users : account'[u].verified => account[u].verified
      <3>1. \A e : ~ [NoRow EXCEPT !.email = e].verified
        BY DEF NoRow
      <3>2. ASSUME NEW u \in Users, NEW row, ~ row.verified, account' = [account EXCEPT ![u] = row]
            PROVE  \A v \in Users : account'[v].verified => account[v].verified
        BY <3>2 DEF TypeOK
      <3>3. CASE \E u \in Users, c \in Codes : CommitRegister(q, u, c)
        BY <3>1, <3>2, <3>3 DEF CommitRegister
      <3>4. CASE Delete(q)
        BY <3>4 DEF TypeOK, NoRow, Delete
      <3> QED  BY <1>5, <3>3, <3>4 DEF RegisterRefused, StatementRefused, Mail,
                  CreateAndSendOtp, SsoRole, Crash
    <2>3. NobodyEnters("save")
      <3>1. CASE Answer(q)
        BY <3>1, AnswerEnters
      <3>2. CASE ~ Answer(q)
        <4>1. Handle(q) /\ ~ UseCode(q)
          BY <1>5, <3>2 DEF Handle, RegisterRefused, StatementRefused, Mail, SsoRole, Delete,
                Crash, CommitRegister, CreateAndSendOtp, UseCode, At
        <4> QED  BY <4>1, HandleEnters
      <3> QED  BY <3>1, <3>2
    <2> QED  BY <2>1, <2>2, <2>3, QuietKeeps DEF Quiet
  <1>6. CASE \/ \E u \in Users, role \in Roles : AssignRole(u, role) \/ RemoveRole(u, role)
             \/ \E c \in Codes : ExpireCode(c)
             \/ UNCHANGED vars
    BY <1>6, QuietKeeps DEF Quiet, NobodyEnters, AssignRole, RemoveRole, ExpireCode, vars
  <1> QED  BY <1>1, <1>2, <1>3, <1>4, <1>5, <1>6 DEF Next, Handle

----------------------------------------------------------------------------
(* The theorems *)

\* Whatever overlaps or dies, every row, code and request has its type, and no code is used
\* up for nobody.
THEOREM WellTyped ==
    ASSUME ConstantsTyped
    PROVE  Spec => [](TypeOK /\ UsersNamed)
  <1>1. Init => TypeOK /\ UsersNamed
    BY TypeInitially DEF UsersNamed, Init, Idle, At
  <1>2. TypeOK /\ UsersNamed /\ [Next]_vars => (TypeOK /\ UsersNamed)'
    BY TypeKept, UsersStayNamed
  <1> QED  BY <1>1, <1>2, PTL DEF Spec

\* A late save may bring a row back, but never a verification nobody has earned: an account is
\* verified only if one of its codes was used up, or a single sign-on made it.
THEOREM Verified ==
    ASSUME ConstantsTyped
    PROVE  Spec => []VerifiedWasProven
  <1>1. Init => VerifiedWasProven /\ CopiesProven
    BY ProvenInitially
  <1>2. /\ TypeOK /\ UsersNamed
        /\ VerifiedWasProven /\ CopiesProven
        /\ [Next]_vars
        => (VerifiedWasProven /\ CopiesProven)'
    BY ProvenKept
  <1> QED  BY <1>1, <1>2, WellTyped, PTL DEF Spec

=============================================================================
