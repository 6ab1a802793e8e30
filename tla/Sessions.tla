------------------------------ MODULE Sessions ------------------------------
(***************************************************************************)
(* The sessions of auth-service: a login stores a row of refresh_tokens    *)
(* and gives its client a signed refresh token that names the row; a       *)
(* refresh revokes that row and stores another; logout, revocation and a   *)
(* password reset revoke rows.  Every request is some statements, each     *)
(* committed on its own, among those of other requests.                    *)
(*                                                                         *)
(* A refresh token is the id of its row.  bcrypt reads the first 72 bytes  *)
(* of a signed token: the header and the first 18 characters of the user's *)
(* id.  So a comparison with the stored hash tells users apart, and not    *)
(* the tokens of one user.                                                 *)
(***************************************************************************)
EXTENDS Naturals, FiniteSets

CONSTANTS
    Users,
    MaxTokens,   \* bound on rows of refresh_tokens
    Requests,    \* requests in flight at once
    Nothing,
    MaxCrashes   \* bound on requests that die

Tokens == 1 .. MaxTokens  \* ids of rows, in the order they are inserted

VARIABLES
    user,       \* the users there are
    token,      \* token[t]: the refresh_tokens row
    parent,     \* parent[t]: the token that was rotated into t
    given,      \* the tokens clients have got
    request,    \* request[q]: the handler q runs
    crashes

vars == <<user, token, parent, given, request, crashes>>

----------------------------------------------------------------------------
(* Types *)

\* A row goes only with its user.
TokenRow == [row : {"none", "stored", "deleted"}, owner : Users \cup {Nothing},
             hashed : BOOLEAN, revoked : BOOLEAN, expired : BOOLEAN]

\* presented: the token a refresh was asked with.  fresh: the row it has inserted.
Handling == [stage : {"idle", "insert", "hash", "rotate", "revokeAll"},
             user : Users \cup {Nothing},
             presented : Tokens \cup {Nothing}, fresh : Tokens \cup {Nothing}]

TypeOK ==
    /\ user \subseteq Users
    /\ token \in [Tokens -> TokenRow]
    /\ parent \in [Tokens -> Tokens \cup {Nothing}]
    /\ given \subseteq {t \in Tokens : token[t].row # "none" /\ token[t].owner # Nothing}
    /\ request \in [Requests -> Handling]
    /\ crashes \in 0 .. MaxCrashes

----------------------------------------------------------------------------
(* Operators *)

NoRow == [row |-> "none", owner |-> Nothing, hashed |-> FALSE, revoked |-> FALSE,
          expired |-> FALSE]

Idle == [stage |-> "idle", user |-> Nothing, presented |-> Nothing, fresh |-> Nothing]

Answer(q) == request' = [request EXCEPT ![q] = Idle]

\* bcrypt.compare of a presented token and a stored hash.
Matches(presented, t) ==
    token[t].row = "stored" /\ token[t].hashed /\ token[t].owner = token[presented].owner

\* UPDATE of the rows of a user.
RevokedFor(u) ==
    [t \in Tokens |-> IF token[t].row = "stored" /\ token[t].owner = u
                      THEN [token[t] EXCEPT !.revoked = TRUE] ELSE token[t]]

\* The id of the next row.
IsNew(t) == token[t].row = "none" /\ \A s \in 1 .. t - 1 : token[s].row # "none"

----------------------------------------------------------------------------
Init ==
    /\ user = Users
    /\ token = [t \in Tokens |-> NoRow]
    /\ parent = [t \in Tokens |-> Nothing]
    /\ given = {}
    /\ request = [q \in Requests |-> Idle]
    /\ crashes = 0

\* validateUserCredentials, or a single sign-on.
Login(q, u) ==
    /\ request[q].stage = "idle"
    /\ u \in user
    /\ request' = [request EXCEPT ![q] = [Idle EXCEPT !.stage = "insert", !.user = u]]
    /\ UNCHANGED <<user, token, parent, given, crashes>>

InsertToken_SameRow(q, t) ==
    /\ request[q].stage = "insert"
    /\ IF request[q].presented = Nothing THEN IsNew(t) ELSE t = request[q].presented
    /\ request[q].user \in user
    /\ token' = [token EXCEPT ![t] = [NoRow EXCEPT !.row = "stored", !.owner = request[q].user]]
    /\ request' = [request EXCEPT ![q].stage = "hash", ![q].fresh = t]
    /\ UNCHANGED <<user, given, crashes, parent>>

\* The row first, because the token that is signed names it.
InsertToken(q, t) ==
    /\ request[q].stage = "insert"
    /\ IsNew(t)
    /\ request[q].user \in user
    /\ token' = [token EXCEPT ![t] = [NoRow EXCEPT !.row = "stored", !.owner = request[q].user]]
    /\ parent' = [parent EXCEPT ![t] = request[q].presented]
    /\ request' = [request EXCEPT ![q].stage = "hash", ![q].fresh = t]
    /\ UNCHANGED <<user, given, crashes>>

\* Then its hash, by a save that puts every column back that has changed meanwhile: a row
\* that was revoked before it had a hash is not revoked any more.  The client gets the token.
StoreHash(q) ==
    LET t == request[q].fresh IN
    /\ request[q].stage = "hash"
    /\ request[q].user \in user
    /\ token' = [token EXCEPT ![t].hashed = TRUE, ![t].revoked = FALSE]
    /\ given' = given \cup {t}
    /\ Answer(q)
    /\ UNCHANGED <<user, parent, crashes>>

\* The user was deleted meanwhile: the foreign key refuses the row.
SaveRefused(q) ==
    /\ request[q].stage \in {"insert", "hash", "rotate"}
    /\ request[q].user \notin user
    /\ Answer(q)
    /\ UNCHANGED <<user, token, parent, given, crashes>>

Refresh_Trusting(q, t) ==
    /\ request[q].stage = "idle"
    /\ t \in given
    /\ token[t].row = "stored" /\ ~ token[t].expired
    /\ request' = [request EXCEPT ![q] = [Idle EXCEPT !.stage = "rotate", !.presented = t,
                                                      !.user = token[t].owner]]
    /\ UNCHANGED <<user, token, parent, given, crashes>>

\* The checks of a refresh, all on one read of the row.
Refresh(q, t) ==
    LET reused == token[t].revoked
        wrong  == ~ Matches(t, t) IN
    /\ request[q].stage = "idle"
    /\ t \in given
    /\ token[t].row = "stored"
    /\ reused \/ ~ token[t].expired
    /\ request' = [request EXCEPT ![q] =
                     [Idle EXCEPT !.stage = IF reused \/ wrong THEN "revokeAll" ELSE "rotate",
                                  !.presented = t, !.user = token[t].owner]]
    /\ UNCHANGED <<user, token, parent, given, crashes>>

\* A token was used again: all sessions of its user end.
RevokeAll(q) ==
    /\ request[q].stage = "revokeAll"
    /\ token' = RevokedFor(request[q].user)
    /\ Answer(q)
    /\ UNCHANGED <<user, parent, given, crashes>>

\* The presented token is revoked before its successor is there.
Rotate(q) ==
    /\ request[q].stage = "rotate"
    /\ request[q].user \in user
    /\ token' = [token EXCEPT ![request[q].presented].revoked = TRUE]
    /\ request' = [request EXCEPT ![q].stage = "insert"]
    /\ UNCHANGED <<user, parent, given, crashes>>

\* revoke: the first row of the table that matches, whatever its state...
Revoke(t, found) ==
    /\ t \in given
    /\ Matches(t, found)
    /\ token' = [token EXCEPT ![found].revoked = TRUE]
    /\ UNCHANGED <<user, parent, given, request, crashes>>

\* ... logout: the first one that is not revoked.
Logout(t, found) ==
    /\ t \in given
    /\ Matches(t, found)
    /\ ~ token[found].revoked
    /\ token' = [token EXCEPT ![found].revoked = TRUE]
    /\ UNCHANGED <<user, parent, given, request, crashes>>

\* The last statement of a password reset (module Accounts).
ResetRevokes(u) ==
    /\ u \in user
    /\ token' = RevokedFor(u)
    /\ UNCHANGED <<user, parent, given, request, crashes>>

\* The rows of a user go with it.
DeleteUser(u) ==
    /\ u \in user
    /\ user' = user \ {u}
    /\ token' = [t \in Tokens |-> IF token[t].row = "stored" /\ token[t].owner = u
                                  THEN [token[t] EXCEPT !.row = "deleted"] ELSE token[t]]
    /\ UNCHANGED <<parent, given, request, crashes>>

\* expires_at passes, days after the request that inserted the row.
Expire(t) ==
    /\ token[t].row = "stored"
    /\ ~ token[t].expired
    /\ \A q \in Requests : request[q].fresh # t
    /\ token' = [token EXCEPT ![t].expired = TRUE]
    /\ UNCHANGED <<user, parent, given, request, crashes>>

Crash(q) ==
    /\ request[q].stage # "idle"
    /\ crashes < MaxCrashes
    /\ crashes' = crashes + 1
    /\ Answer(q)
    /\ UNCHANGED <<user, token, parent, given>>

----------------------------------------------------------------------------
(* Specification *)

Handle(q) ==
    \/ \E t \in Tokens : InsertToken(q, t)
    \/ StoreHash(q)
    \/ SaveRefused(q)
    \/ RevokeAll(q)
    \/ Rotate(q)

Next ==
    \/ \E q \in Requests, u \in Users : Login(q, u)
    \/ \E q \in Requests, t \in Tokens : Refresh(q, t)
    \/ \E q \in Requests : Handle(q) \/ Crash(q)
    \/ \E t, found \in Tokens : Revoke(t, found) \/ Logout(t, found)
    \/ \E u \in Users : ResetRevokes(u) \/ DeleteUser(u)
    \/ \E t \in Tokens : Expire(t)

Spec == Init /\ [][Next]_vars

----------------------------------------------------------------------------
(* Properties *)

\* A session a client holds that has ended stays ended: no save of a row that was read
\* earlier puts its "revoked" back.  (A row without its hash can come back so, see StoreHash.)
RevokedStaysRevoked ==
    [][\A t \in given : token[t].revoked => token'[t].revoked]_vars

\* A token is revoked before its successor is there, so only requests that had read it by
\* then can exchange it once more: it never gets, or is about to get, more successors than
\* requests run at once, however often it is presented.
Exchanged == {parent[t] : t \in Tokens} \ {Nothing}
SuccessorsBounded ==
    \A p \in Exchanged :
        LET exchanging == {q \in Requests : request[q].presented = p
                                            /\ request[q].stage \in {"rotate", "insert"}} IN
        Cardinality({t \in Tokens : parent[t] = p}) + Cardinality(exchanging)
            <= Cardinality(Requests)

=============================================================================
