--------------------------- MODULE ServicesProofs ---------------------------
(***************************************************************************)
(* Theorems about the services side by side.                               *)
(*                                                                         *)
(* What is proved of a component, alone, holds of the services, since none *)
(* of them touches the variables of another: a behaviour of all of them is *)
(* one of each.  The first parts of this module prove the smaller          *)
(* components, on their instances in MCServices; the last part composes.   *)
(***************************************************************************)
EXTENDS MCServices, PayoutsProofs, FiniteSetTheorems, Sums

----------------------------------------------------------------------------
(* Sessions: one token, at most one successor for each request *)

SessionsConstants ==
    /\ MaxTokens \in Nat /\ MaxFaults \in Nat
    /\ IsFiniteSet(Procs)
    /\ Nothing \notin Users /\ Nothing \notin Nat

SessionsSuccessors(p) == {t \in SessionsOf!Tokens : seParent[t] = p}
SessionsExchanging(p) == {q \in Procs : seRequest[q].presented = p
                                   /\ seRequest[q].stage \in {"rotate", "insert"}}

SessionsBounded(p) == Cardinality(SessionsSuccessors(p)) + Cardinality(SessionsExchanging(p))
  <= Cardinality(Procs)

\* The row that waits for its hash is there, and no client has got it.
SessionsRequestFits(rows, got, k) ==
    /\ k.stage = "hash" => k.fresh \in SessionsOf!Tokens /\ k.fresh \notin got
                           /\ rows[k.fresh].row # "none" /\ rows[k.fresh].owner # Nothing
    /\ k.stage = "rotate" => k.presented \in got
    /\ k.stage = "insert" /\ k.presented # Nothing
         => k.presented \in got /\ rows[k.presented].revoked

\* No two requests wait for the hash of one row.
SessionsFreshApart ==
    \A q, r \in Procs :
        q # r /\ seRequest[q].stage = "hash" /\ seRequest[r].stage = "hash"
            => seRequest[q].fresh # seRequest[r].fresh

SessionsParentsRevoked ==
    \A t \in SessionsOf!Tokens : seParent[t] # Nothing => seParent[t] \in seGiven
      /\ seToken[seParent[t]].revoked

SessionsInv ==
    /\ SessionsOf!TypeOK
    /\ \A q \in Procs : SessionsRequestFits(seToken, seGiven, seRequest[q])
    /\ SessionsFreshApart
    /\ SessionsParentsRevoked
    /\ \A p \in SessionsOf!Tokens : SessionsBounded(p)

\* What no step does to a row: it does not vanish, change hands, or, once given, come back.
SessionsRowsStay ==
    \A t \in SessionsOf!Tokens :
        /\ seToken[t].row # "none" => seToken'[t].row # "none"
           /\ seToken'[t].owner = seToken[t].owner
        /\ t \in seGiven /\ seToken[t].revoked => seToken'[t].revoked

\* The instances count and add as this module does.
LEMMA Counting ==
    \A S : SessionsOf!Cardinality(S) = Cardinality(S)
      /\ ReviewsOf!Cardinality(S) = Cardinality(S)
  BY DEF SessionsOf!Cardinality, ReviewsOf!Cardinality, Cardinality

LEMMA Adding == \A f, S : ReviewsOf!SumFunctionOnSet(f, S) = SumFunctionOnSet(f, S)
  BY DEF SumFunctionOnSet, FoldFunctionOnSet, MapThenFoldSet, ReviewsOf!SumFunctionOnSet,
         ReviewsOf!FoldFunctionOnSet, ReviewsOf!MapThenFoldSet

LEMMA SessionsTokensFinite ==
    ASSUME SessionsConstants
    PROVE  IsFiniteSet(SessionsOf!Tokens) /\ SessionsOf!Tokens \subseteq Nat
           /\ Nothing \notin SessionsOf!Tokens
  BY FS_Interval DEF SessionsConstants, SessionsOf!Tokens

LEMMA SessionsCountsTyped ==
    ASSUME SessionsConstants, NEW p
    PROVE  /\ IsFiniteSet(SessionsSuccessors(p)) /\ IsFiniteSet(SessionsExchanging(p))
           /\ Cardinality(SessionsSuccessors(p)) \in Nat
              /\ Cardinality(SessionsExchanging(p)) \in Nat
           /\ Cardinality(SessionsExchanging(p)) <= Cardinality(Procs)
           /\ Cardinality(Procs) \in Nat
  <1>1. SessionsSuccessors(p) \subseteq SessionsOf!Tokens
        /\ SessionsExchanging(p) \subseteq Procs
    BY DEF SessionsSuccessors, SessionsExchanging
  <1>2. IsFiniteSet(Procs)
    BY DEF SessionsConstants
  <1>3. IsFiniteSet(SessionsSuccessors(p)) /\ IsFiniteSet(SessionsExchanging(p))
    BY <1>1, <1>2, SessionsTokensFinite, FS_Subset
  <1>4. Cardinality(SessionsExchanging(p)) <= Cardinality(Procs)
    BY <1>1, <1>2, FS_Subset
  <1> QED  BY <1>2, <1>3, <1>4, FS_CardinalityType

LEMMA SessionsIdleFits == SessionsOf!Idle \in SessionsOf!Handling
                          /\ SessionsOf!Idle.stage = "idle"
                             /\ SessionsRequestFits(seToken, seGiven, SessionsOf!Idle)
  BY DEF SessionsOf!Idle, SessionsOf!Handling, SessionsRequestFits

LEMMA SessionsInitially ==
    ASSUME SessionsConstants, SessionsOf!Init
    PROVE  SessionsInv
  <1>1. SessionsOf!TypeOK
    BY SessionsIdleFits DEF SessionsOf!Init, SessionsOf!TypeOK, SessionsConstants,
          SessionsOf!NoRow, SessionsOf!TokenRow
  <1>2. \A q \in Procs : SessionsRequestFits(seToken, seGiven, seRequest[q])
    BY SessionsIdleFits DEF SessionsOf!Init
  <1>3. SessionsFreshApart /\ SessionsParentsRevoked
    BY SessionsIdleFits DEF SessionsOf!Init, SessionsFreshApart, SessionsParentsRevoked
  <1>4. ASSUME NEW p \in SessionsOf!Tokens
        PROVE  SessionsBounded(p)
    <2>1. SessionsSuccessors(p) = {}
      BY SessionsTokensFinite DEF SessionsOf!Init, SessionsSuccessors
    <2>2. Cardinality(SessionsSuccessors(p)) = 0
      BY <2>1, FS_EmptySet
    <2> QED  BY <2>2, SessionsCountsTyped DEF SessionsBounded
  <1> QED  BY <1>1, <1>2, <1>3, <1>4 DEF SessionsInv

(* Counting *)

\* A token that has not been revoked has no successor, and no request about to insert one.
LEMMA SessionsNotYetExchanged ==
    ASSUME SessionsConstants, SessionsInv, NEW p \in SessionsOf!Tokens, ~ seToken[p].revoked
    PROVE  SessionsSuccessors(p) = {}
  BY SessionsTokensFinite DEF SessionsInv, SessionsParentsRevoked, SessionsSuccessors

\* The requests that exchange p, and its successors, do not get more.
LEMMA SessionsFewerKeeps ==
    ASSUME SessionsConstants, NEW p, SessionsBounded(p),
           SessionsSuccessors(p)' \subseteq SessionsSuccessors(p),
             SessionsExchanging(p)' \subseteq SessionsExchanging(p)
    PROVE  SessionsBounded(p)'
  <1>1. /\ IsFiniteSet(SessionsSuccessors(p)) /\ IsFiniteSet(SessionsExchanging(p))
        /\ Cardinality(SessionsSuccessors(p)) \in Nat
           /\ Cardinality(SessionsExchanging(p)) \in Nat
        /\ Cardinality(Procs) \in Nat
    BY SessionsCountsTyped
  <1>2. /\ IsFiniteSet(SessionsSuccessors(p)') /\ IsFiniteSet(SessionsExchanging(p)')
        /\ Cardinality(SessionsSuccessors(p)') <= Cardinality(SessionsSuccessors(p))
        /\ Cardinality(SessionsExchanging(p)') <= Cardinality(SessionsExchanging(p))
    BY <1>1, FS_Subset
  <1>3. Cardinality(SessionsSuccessors(p)') \in Nat
        /\ Cardinality(SessionsExchanging(p)') \in Nat
    BY <1>2, FS_CardinalityType
  <1> QED  BY <1>1, <1>2, <1>3 DEF SessionsBounded

\* A request that exchanges p inserts one successor.
LEMMA SessionsInsertKeepsBound ==
    ASSUME SessionsConstants, NEW p, SessionsBounded(p), NEW q, q \in SessionsExchanging(p),
           NEW t,
           SessionsSuccessors(p)' \subseteq SessionsSuccessors(p) \cup {t},
           SessionsExchanging(p)' \subseteq SessionsExchanging(p) \ {q}
    PROVE  SessionsBounded(p)'
  <1>1. /\ IsFiniteSet(SessionsSuccessors(p)) /\ IsFiniteSet(SessionsExchanging(p))
        /\ Cardinality(SessionsSuccessors(p)) \in Nat
           /\ Cardinality(SessionsExchanging(p)) \in Nat
        /\ Cardinality(Procs) \in Nat
    BY SessionsCountsTyped
  <1>2. /\ IsFiniteSet(SessionsSuccessors(p) \cup {t})
           /\ IsFiniteSet(SessionsExchanging(p) \ {q})
        /\ Cardinality(SessionsSuccessors(p) \cup {t}) <= Cardinality(SessionsSuccessors(p)) + 1
        /\ Cardinality(SessionsExchanging(p) \ {q}) = Cardinality(SessionsExchanging(p)) - 1
    <2> DEFINE S == SessionsSuccessors(p)
    <2> HIDE DEF S
    <2>1. IsFiniteSet(S \cup {t}) /\ Cardinality(S \cup {t}) <= Cardinality(S) + 1
      <3>1. IsFiniteSet(S) /\ Cardinality(S) \in Nat
        BY <1>1 DEF S
      <3>2. /\ IsFiniteSet(S \cup {t})
            /\ \/ Cardinality(S \cup {t}) = Cardinality(S)
               \/ Cardinality(S \cup {t}) = Cardinality(S) + 1
        BY <3>1, FS_AddElement
      <3> QED  BY <3>1, <3>2
    <2>2. /\ IsFiniteSet(SessionsExchanging(p) \ {q})
          /\ Cardinality(SessionsExchanging(p) \ {q}) = Cardinality(SessionsExchanging(p)) - 1
      BY <1>1, FS_RemoveElement
    <2> QED  BY <2>1, <2>2 DEF S
  <1>3. /\ IsFiniteSet(SessionsSuccessors(p)') /\ IsFiniteSet(SessionsExchanging(p)')
        /\ Cardinality(SessionsSuccessors(p)') <= Cardinality(SessionsSuccessors(p) \cup {t})
        /\ Cardinality(SessionsExchanging(p)') <= Cardinality(SessionsExchanging(p) \ {q})
    BY <1>2, FS_Subset
  <1>4. /\ Cardinality(SessionsSuccessors(p)') \in Nat
           /\ Cardinality(SessionsExchanging(p)') \in Nat
        /\ Cardinality(SessionsSuccessors(p) \cup {t}) \in Nat
        /\ Cardinality(SessionsExchanging(p) \ {q}) \in Nat
    BY <1>2, <1>3, FS_CardinalityType
  <1> QED  BY <1>1, <1>2, <1>3, <1>4 DEF SessionsBounded

\* While p has no successors, any number of requests may be about to exchange it.
LEMMA SessionsFirstExchange ==
    ASSUME SessionsConstants, NEW p, SessionsSuccessors(p)' = {}
    PROVE  SessionsBounded(p)'
  <1>1. SessionsExchanging(p)' \subseteq Procs /\ IsFiniteSet(Procs)
    BY DEF SessionsExchanging, SessionsConstants
  <1>2. /\ Cardinality(SessionsExchanging(p)') <= Cardinality(Procs)
        /\ Cardinality(SessionsExchanging(p)') \in Nat /\ Cardinality(Procs) \in Nat
    BY <1>1, FS_Subset, FS_CardinalityType
  <1>3. Cardinality(SessionsSuccessors(p)') = 0
    BY FS_EmptySet
  <1> QED  BY <1>2, <1>3 DEF SessionsBounded
(* Steps *)

SessionsRowsTyped == seToken' \in [SessionsOf!Tokens -> SessionsOf!TokenRow] /\ SessionsRowsStay

\* Rows change, and no request does.
LEMMA SessionsRowsKeep ==
    ASSUME SessionsConstants, SessionsInv, SessionsRowsTyped, seUser' \subseteq Users,
           UNCHANGED <<seParent, seGiven, seRequest, seCrashes>>
    PROVE  SessionsInv'
  <1>1. SessionsOf!TypeOK'
    BY DEF SessionsInv, SessionsOf!TypeOK, SessionsRowsTyped, SessionsRowsStay
  <1>2. seGiven \subseteq SessionsOf!Tokens
    BY DEF SessionsInv, SessionsOf!TypeOK
  <1>4. \A q \in Procs : SessionsRequestFits(seToken', seGiven', seRequest'[q])
    <2>1. ASSUME NEW q \in Procs
          PROVE  SessionsRequestFits(seToken', seGiven', seRequest'[q])
      BY <1>2 DEF SessionsInv, SessionsRequestFits, SessionsRowsTyped, SessionsRowsStay
    <2> QED  BY <2>1
  <1>5. SessionsFreshApart' /\ SessionsParentsRevoked'
    BY <1>2 DEF SessionsInv, SessionsFreshApart, SessionsParentsRevoked, SessionsRowsTyped,
          SessionsRowsStay
  <1>6. \A p \in SessionsOf!Tokens : SessionsBounded(p)'
    BY DEF SessionsInv, SessionsBounded, SessionsSuccessors, SessionsExchanging
  <1> QED  BY <1>1, <1>4, <1>5, <1>6 DEF SessionsInv

\* A request goes on to k, and what it exchanges is what it exchanged, or a token nobody has
\* exchanged so far.
SessionsGoesOn(q, k) ==
    k.stage \in {"rotate", "insert"}
        => \/ k.presented = Nothing
           \/ k.presented = seRequest[q].presented
              /\ seRequest[q].stage \in {"rotate", "insert"}
           \/ k.presented \in SessionsOf!Tokens /\ ~ seToken[k.presented].revoked

LEMMA SessionsRequestKeeps ==
    ASSUME SessionsConstants, SessionsInv, SessionsRowsTyped, NEW q \in Procs,
           NEW k \in SessionsOf!Handling,
           seRequest' = [seRequest EXCEPT ![q] = k], k.stage # "hash",
           SessionsRequestFits(seToken', seGiven', k),
           SessionsGoesOn(q, k), seCrashes' \in 0 .. MaxFaults, UNCHANGED <<seUser, seParent,
             seGiven>>
    PROVE  SessionsInv'
  <1>1. SessionsOf!TypeOK'
    BY DEF SessionsInv, SessionsOf!TypeOK, SessionsRowsTyped, SessionsRowsStay
  <1>2. seGiven \subseteq SessionsOf!Tokens
    BY DEF SessionsInv, SessionsOf!TypeOK
  <1>3. seRequest'[q] = k /\ \A r \in Procs \ {q} : seRequest'[r] = seRequest[r]
    BY DEF SessionsInv, SessionsOf!TypeOK
  <1>4. \A r \in Procs : SessionsRequestFits(seToken', seGiven', seRequest'[r])
    <2>1. ASSUME NEW r \in Procs \ {q}
          PROVE  SessionsRequestFits(seToken', seGiven', seRequest'[r])
      BY <1>2, <1>3 DEF SessionsInv, SessionsRequestFits, SessionsRowsTyped, SessionsRowsStay
    <2>2. SessionsRequestFits(seToken', seGiven', seRequest'[q])
      BY <1>3 DEF SessionsRequestFits
    <2> QED  BY <2>1, <2>2
  <1>5. SessionsFreshApart' /\ SessionsParentsRevoked'
    BY <1>2, <1>3 DEF SessionsInv, SessionsFreshApart, SessionsParentsRevoked,
          SessionsRowsTyped, SessionsRowsStay
  <1>6. ASSUME NEW p \in SessionsOf!Tokens
        PROVE  SessionsBounded(p)'
    <2>1. SessionsBounded(p) /\ SessionsSuccessors(p)' = SessionsSuccessors(p)
      BY DEF SessionsInv, SessionsSuccessors
    <2>2. CASE k.stage \in {"rotate", "insert"} /\ k.presented = p
               /\ ~ (k.presented = seRequest[q].presented
                  /\ seRequest[q].stage \in {"rotate", "insert"})
      <3>1. ~ seToken[p].revoked
        BY <2>2, SessionsTokensFinite DEF SessionsGoesOn
      <3>2. SessionsSuccessors(p)' = {}
        BY <2>1, <3>1, SessionsNotYetExchanged
      <3> QED  BY <3>2, SessionsFirstExchange
    <2>3. CASE ~ (k.stage \in {"rotate", "insert"} /\ k.presented = p)
               \/ (k.presented = seRequest[q].presented
                  /\ seRequest[q].stage \in {"rotate", "insert"})
      <3>1. SessionsExchanging(p)' \subseteq SessionsExchanging(p)
        BY <1>3, <2>3 DEF SessionsExchanging
      <3> QED  BY <2>1, <3>1, SessionsFewerKeeps
    <2> QED  BY <2>2, <2>3
  <1> QED  BY <1>1, <1>4, <1>5, <1>6 DEF SessionsInv

\* Nothing but the request changes.
LEMMA SessionsAloneKeeps ==
    ASSUME SessionsConstants, SessionsInv, NEW q \in Procs, NEW k \in SessionsOf!Handling,
           seRequest' = [seRequest EXCEPT ![q] = k], k.stage # "hash",
           SessionsRequestFits(seToken, seGiven, k),
           SessionsGoesOn(q, k), seCrashes' \in 0 .. MaxFaults, UNCHANGED <<seUser, seToken,
             seParent, seGiven>>
    PROVE  SessionsInv'
  <1>1. SessionsRowsTyped /\ SessionsRequestFits(seToken', seGiven', k)
    BY DEF SessionsInv, SessionsOf!TypeOK, SessionsRowsTyped, SessionsRowsStay,
          SessionsRequestFits
  <1> QED  BY <1>1, SessionsRequestKeeps

LEMMA SessionsRevokedForStays ==
    ASSUME SessionsInv, NEW u, seToken' = SessionsOf!RevokedFor(u)
    PROVE  SessionsRowsTyped
  BY DEF SessionsInv, SessionsOf!TypeOK, SessionsOf!TokenRow, SessionsOf!RevokedFor,
        SessionsRowsTyped, SessionsRowsStay

LEMMA SessionsOneRevokedStays ==
    ASSUME SessionsInv, NEW t \in SessionsOf!Tokens,
           seToken' = [seToken EXCEPT ![t].revoked = TRUE]
    PROVE  SessionsRowsTyped
  BY DEF SessionsInv, SessionsOf!TypeOK, SessionsOf!TokenRow, SessionsRowsTyped,
        SessionsRowsStay

LEMMA SessionsInsertKeeps ==
    ASSUME SessionsConstants, SessionsInv, NEW q \in Procs, NEW t \in SessionsOf!Tokens,
           SessionsOf!InsertToken(q, t)
    PROVE  SessionsInv'
  <1> DEFINE u == seRequest[q].user
             row == [SessionsOf!NoRow EXCEPT !.row = "stored", !.owner = u]
             k == [seRequest[q] EXCEPT !.stage = "hash", !.fresh = t]
             p == seRequest[q].presented
  <1>1. /\ seRequest[q] \in SessionsOf!Handling /\ seRequest[q].stage = "insert"
           /\ SessionsRequestFits(seToken, seGiven, seRequest[q])
        /\ u \in Users /\ seToken[t].row = "none"
    BY DEF SessionsInv, SessionsOf!TypeOK, SessionsOf!InsertToken, SessionsOf!IsNew
  <1>2. row \in SessionsOf!TokenRow /\ row.row # "none" /\ row.owner # Nothing
    BY <1>1 DEF SessionsOf!NoRow, SessionsOf!TokenRow, SessionsConstants
  <1>3. k \in SessionsOf!Handling /\ k.stage = "hash" /\ k.fresh = t
    BY <1>1 DEF SessionsOf!Handling
  <1>4. /\ seToken' = [seToken EXCEPT ![t] = row] /\ seParent' = [seParent EXCEPT ![t] = p]
        /\ seRequest' = [seRequest EXCEPT ![q] = k] /\ UNCHANGED <<seUser, seGiven, seCrashes>>
    BY DEF SessionsOf!InsertToken, SessionsInv, SessionsOf!TypeOK
  <1> HIDE DEF row, k
  <1>5. /\ seToken'[t] = row /\ \A s \in SessionsOf!Tokens \ {t} : seToken'[s] = seToken[s]
        /\ seParent'[t] = p /\ \A s \in SessionsOf!Tokens \ {t} : seParent'[s] = seParent[s]
        /\ seRequest'[q] = k /\ \A r \in Procs \ {q} : seRequest'[r] = seRequest[r]
    BY <1>4 DEF SessionsInv, SessionsOf!TypeOK
  <1>6. seGiven \subseteq SessionsOf!Tokens \ {t}
    BY <1>1 DEF SessionsInv, SessionsOf!TypeOK
  <1>7. SessionsOf!TypeOK'
    <2>1. p \in SessionsOf!Tokens \cup {Nothing}
      BY <1>1 DEF SessionsOf!Handling
    <2> QED  BY <1>2, <1>3, <1>4, <1>5, <1>6, <2>1 DEF SessionsInv, SessionsOf!TypeOK
  <1>8. ASSUME NEW r \in Procs
        PROVE  SessionsRequestFits(seToken', seGiven', seRequest'[r])
    <2>1. CASE r = q
      BY <1>2, <1>3, <1>4, <1>5, <1>6, <2>1 DEF SessionsRequestFits
    <2>2. CASE r # q
      BY <1>1, <1>4, <1>5, <1>6, <2>2 DEF SessionsInv, SessionsRequestFits
    <2> QED  BY <2>1, <2>2
  <1>9. SessionsFreshApart'
    <2>1. \A r \in Procs : seRequest[r].stage = "hash" => seRequest[r].fresh # t
      BY <1>1 DEF SessionsInv, SessionsRequestFits
    <2> QED  BY <1>3, <1>5, <2>1 DEF SessionsInv, SessionsFreshApart
  <1>10. SessionsParentsRevoked'
    BY <1>1, <1>4, <1>5, <1>6 DEF SessionsInv, SessionsParentsRevoked, SessionsRequestFits
  <1>11. ASSUME NEW s \in SessionsOf!Tokens
         PROVE  SessionsBounded(s)'
    <2>1. SessionsBounded(s)
      BY DEF SessionsInv
    <2>2. CASE s = p
      <3>1. q \in SessionsExchanging(s)
        BY <1>1, <2>2 DEF SessionsExchanging
      <3>2. /\ SessionsSuccessors(s)' \subseteq SessionsSuccessors(s) \cup {t}
            /\ SessionsExchanging(s)' \subseteq SessionsExchanging(s) \ {q}
        BY <1>3, <1>5 DEF SessionsSuccessors, SessionsExchanging
      <3> QED  BY <2>1, <3>1, <3>2, SessionsInsertKeepsBound
    <2>3. CASE s # p
      <3>1. /\ SessionsSuccessors(s)' \subseteq SessionsSuccessors(s)
            /\ SessionsExchanging(s)' \subseteq SessionsExchanging(s)
        BY <1>3, <1>5, <2>3 DEF SessionsSuccessors, SessionsExchanging
      <3> QED  BY <2>1, <3>1, SessionsFewerKeeps
    <2> QED  BY <2>2, <2>3
  <1> QED  BY <1>7, <1>8, <1>9, <1>10, <1>11 DEF SessionsInv

\* The save of the hash may take a revocation back, but of a row that no client has got yet.
LEMMA SessionsStoreKeeps ==
    ASSUME SessionsConstants, SessionsInv, NEW q \in Procs, SessionsOf!StoreHash(q)
    PROVE  SessionsInv' /\ SessionsRowsStay
  <1> DEFINE t == seRequest[q].fresh
  <1>1. /\ seRequest[q].stage = "hash" /\ t \in SessionsOf!Tokens /\ t \notin seGiven
        /\ seToken[t].row # "none" /\ seToken[t].owner # Nothing
    BY DEF SessionsInv, SessionsRequestFits, SessionsOf!StoreHash
  <1>2. /\ seToken' = [seToken EXCEPT ![t].hashed = TRUE, ![t].revoked = FALSE]
        /\ seGiven' = seGiven \cup {t} /\ seRequest' = [seRequest EXCEPT ![q] = SessionsOf!Idle]
        /\ UNCHANGED <<seUser, seParent, seCrashes>>
    BY DEF SessionsOf!StoreHash, SessionsOf!Answer
  <1>3. /\ seToken' \in [SessionsOf!Tokens -> SessionsOf!TokenRow]
        /\ seToken'[t].row = seToken[t].row /\ seToken'[t].owner = seToken[t].owner
        /\ \A s \in SessionsOf!Tokens \ {t} : seToken'[s] = seToken[s]
    BY <1>1, <1>2 DEF SessionsInv, SessionsOf!TypeOK, SessionsOf!TokenRow
  <1>4. seRequest'[q] = SessionsOf!Idle /\ \A r \in Procs \ {q} : seRequest'[r] = seRequest[r]
    BY <1>2 DEF SessionsInv, SessionsOf!TypeOK
  <1>5. seGiven \subseteq SessionsOf!Tokens \ {t}
    BY <1>1 DEF SessionsInv, SessionsOf!TypeOK
  <1>6. SessionsOf!TypeOK'
    BY <1>1, <1>2, <1>3, SessionsIdleFits DEF SessionsInv, SessionsOf!TypeOK
  <1>7. ASSUME NEW r \in Procs
        PROVE  SessionsRequestFits(seToken', seGiven', seRequest'[r])
    <2>1. CASE r = q
      BY <1>4, <2>1, SessionsIdleFits DEF SessionsRequestFits
    <2>2. CASE r # q
      <3>1. seRequest[r].stage = "hash" => seRequest[r].fresh # t
        BY <1>1, <2>2 DEF SessionsInv, SessionsFreshApart
      <3> QED  BY <1>2, <1>3, <1>4, <1>5, <2>2, <3>1 DEF SessionsInv, SessionsRequestFits
    <2> QED  BY <2>1, <2>2
  <1>8. SessionsFreshApart' /\ SessionsParentsRevoked'
    BY <1>2, <1>3, <1>4, <1>5, SessionsIdleFits
      DEF SessionsInv, SessionsFreshApart, SessionsParentsRevoked
  <1>9. ASSUME NEW p \in SessionsOf!Tokens
        PROVE  SessionsBounded(p)'
    <2>1. /\ SessionsSuccessors(p)' \subseteq SessionsSuccessors(p)
          /\ SessionsExchanging(p)' \subseteq SessionsExchanging(p)
      BY <1>2, <1>4, SessionsIdleFits DEF SessionsSuccessors, SessionsExchanging
    <2> QED  BY <2>1, SessionsFewerKeeps DEF SessionsInv
  <1> QED  BY <1>3, <1>5, <1>6, <1>7, <1>8, <1>9 DEF SessionsInv, SessionsRowsStay

LEMMA SessionsKept ==
    ASSUME SessionsConstants, SessionsInv, [SessionsOf!Next]_(SessionsOf!vars)
    PROVE  SessionsInv' /\ SessionsRowsStay
  <1>0. seCrashes \in 0 .. MaxFaults /\ seRequest \in [Procs -> SessionsOf!Handling]
        /\ seGiven \subseteq SessionsOf!Tokens /\ seUser \subseteq Users
           /\ seToken \in [SessionsOf!Tokens -> SessionsOf!TokenRow]
    BY DEF SessionsInv, SessionsOf!TypeOK
  <1>1. ASSUME NEW q \in Procs, NEW u \in Users, SessionsOf!Login(q, u)
        PROVE  SessionsInv' /\ SessionsRowsStay
    <2> DEFINE k == [SessionsOf!Idle EXCEPT !.stage = "insert", !.user = u]
    <2>1. k \in SessionsOf!Handling /\ k.stage = "insert" /\ k.presented = Nothing
      BY DEF SessionsOf!Idle, SessionsOf!Handling
    <2>2. SessionsRequestFits(seToken, seGiven, k) /\ SessionsGoesOn(q, k)
      BY <2>1 DEF SessionsRequestFits, SessionsGoesOn
    <2>3. seRequest' = [seRequest EXCEPT ![q] = k]
          /\ UNCHANGED <<seUser, seToken, seParent, seGiven, seCrashes>>
      BY <1>1 DEF SessionsOf!Login
    <2> HIDE DEF k
    <2> QED  BY <1>0, <2>1, <2>2, <2>3, SessionsAloneKeeps DEF SessionsRowsStay
  <1>2. ASSUME NEW q \in Procs, NEW t \in SessionsOf!Tokens, SessionsOf!Refresh(q, t)
        PROVE  SessionsInv' /\ SessionsRowsStay
    <2> DEFINE stage == IF seToken[t].revoked \/ ~ SessionsOf!Matches(t, t) THEN "revokeAll"
                          ELSE "rotate"
               k == [SessionsOf!Idle EXCEPT !.stage = stage, !.presented = t,
                 !.user = seToken[t].owner]
    <2>1. /\ stage \in {"revokeAll", "rotate"} /\ (stage = "rotate" => ~ seToken[t].revoked)
          /\ t \in seGiven /\ seToken[t].owner \in Users \cup {Nothing}
      BY <1>0, <1>2 DEF SessionsOf!Refresh, SessionsOf!TokenRow
    <2>2. seRequest' = [seRequest EXCEPT ![q] = k]
          /\ UNCHANGED <<seUser, seToken, seParent, seGiven, seCrashes>>
      BY <1>2 DEF SessionsOf!Refresh
    <2> HIDE DEF stage
    <2>3. k \in SessionsOf!Handling /\ k.stage = stage /\ k.presented = t
      BY <2>1 DEF SessionsOf!Idle, SessionsOf!Handling
    <2>4. SessionsRequestFits(seToken, seGiven, k) /\ SessionsGoesOn(q, k)
      BY <2>1, <2>3 DEF SessionsRequestFits, SessionsGoesOn
    <2> HIDE DEF k
    <2> QED  BY <1>0, <2>1, <2>2, <2>3, <2>4, SessionsAloneKeeps DEF SessionsRowsStay
  <1>3. ASSUME NEW q \in Procs, NEW t \in SessionsOf!Tokens, SessionsOf!InsertToken(q, t)
        PROVE  SessionsInv' /\ SessionsRowsStay
    <2>1. seToken[t].row = "none" /\ t \notin seGiven
      BY <1>3 DEF SessionsOf!InsertToken, SessionsOf!IsNew, SessionsInv, SessionsOf!TypeOK
    <2>2. \A s \in SessionsOf!Tokens \ {t} : seToken'[s] = seToken[s]
      BY <1>0, <1>3 DEF SessionsOf!InsertToken
    <2> QED  BY <1>3, <2>1, <2>2, SessionsInsertKeeps DEF SessionsRowsStay
  <1>4. ASSUME NEW q \in Procs, SessionsOf!SaveRefused(q) \/ SessionsOf!Crash(q)
        PROVE  SessionsInv' /\ SessionsRowsStay
    <2>1. /\ seRequest' = [seRequest EXCEPT ![q] = SessionsOf!Idle]
             /\ UNCHANGED <<seUser, seToken, seParent, seGiven>>
          /\ seCrashes' \in 0 .. MaxFaults
      BY <1>0, <1>4
        DEF SessionsOf!SaveRefused, SessionsOf!Crash, SessionsOf!Answer, SessionsConstants
    <2>2. SessionsGoesOn(q, SessionsOf!Idle)
      BY SessionsIdleFits DEF SessionsGoesOn
    <2> QED  BY <2>1, <2>2, SessionsIdleFits, SessionsAloneKeeps DEF SessionsRowsStay
  <1>5. ASSUME NEW q \in Procs, SessionsOf!RevokeAll(q)
        PROVE  SessionsInv' /\ SessionsRowsStay
    <2>1. /\ seRequest' = [seRequest EXCEPT ![q] = SessionsOf!Idle]
             /\ UNCHANGED <<seUser, seParent, seGiven, seCrashes>>
          /\ seToken' = SessionsOf!RevokedFor(seRequest[q].user)
      BY <1>5 DEF SessionsOf!RevokeAll, SessionsOf!Answer
    <2>2. SessionsGoesOn(q, SessionsOf!Idle)
          /\ SessionsRequestFits(seToken', seGiven', SessionsOf!Idle)
      BY SessionsIdleFits DEF SessionsGoesOn, SessionsRequestFits
    <2>3. SessionsRowsTyped
      BY <2>1, SessionsRevokedForStays
    <2> QED  BY <1>0, <2>1, <2>2, <2>3, SessionsIdleFits, SessionsRequestKeeps
               DEF SessionsRowsTyped
  <1>6. ASSUME NEW q \in Procs, SessionsOf!Rotate(q)
        PROVE  SessionsInv' /\ SessionsRowsStay
    <2> DEFINE k == [seRequest[q] EXCEPT !.stage = "insert"]
               p == seRequest[q].presented
    <2>1. seRequest[q] \in SessionsOf!Handling /\ seRequest[q].stage = "rotate" /\ p \in seGiven
      BY <1>0, <1>6 DEF SessionsOf!Rotate, SessionsInv, SessionsRequestFits
    <2>2. k \in SessionsOf!Handling /\ k.stage = "insert" /\ k.presented = p
      BY <2>1 DEF SessionsOf!Handling
    <2>3. /\ seRequest' = [seRequest EXCEPT ![q] = k]
             /\ UNCHANGED <<seUser, seParent, seGiven, seCrashes>>
          /\ seToken' = [seToken EXCEPT ![p].revoked = TRUE]
      BY <1>0, <1>6 DEF SessionsOf!Rotate
    <2>4. SessionsRowsTyped
      BY <1>0, <2>1, <2>3, SessionsOneRevokedStays
    <2>5. seToken'[p].revoked
      BY <1>0, <2>1, <2>3 DEF SessionsOf!TokenRow
    <2> HIDE DEF k
    <2>6. SessionsGoesOn(q, k) /\ SessionsRequestFits(seToken', seGiven', k)
      BY <2>1, <2>2, <2>3, <2>5 DEF SessionsGoesOn, SessionsRequestFits
    <2> QED  BY <1>0, <2>2, <2>3, <2>4, <2>6, SessionsRequestKeeps DEF SessionsRowsTyped
  <1>7. ASSUME NEW t \in SessionsOf!Tokens, NEW found \in SessionsOf!Tokens,
               SessionsOf!Revoke(t, found) \/ SessionsOf!Logout(t, found)
        PROVE  SessionsInv' /\ SessionsRowsStay
    <2>1. SessionsRowsTyped
      BY <1>7, SessionsOneRevokedStays DEF SessionsOf!Revoke, SessionsOf!Logout
    <2> QED  BY <1>0, <1>7, <2>1, SessionsRowsKeep
               DEF SessionsOf!Revoke, SessionsOf!Logout, SessionsRowsTyped
  <1>8. ASSUME NEW u \in Users, SessionsOf!ResetRevokes(u)
        PROVE  SessionsInv' /\ SessionsRowsStay
    <2>1. SessionsRowsTyped
      BY <1>8, SessionsRevokedForStays DEF SessionsOf!ResetRevokes
    <2> QED  BY <1>0, <1>8, <2>1, SessionsRowsKeep
               DEF SessionsOf!ResetRevokes, SessionsRowsTyped
  <1>9. ASSUME NEW u \in Users, SessionsOf!DeleteUser(u)
        PROVE  SessionsInv' /\ SessionsRowsStay
    <2>1. SessionsRowsTyped
      BY <1>0, <1>9
        DEF SessionsOf!DeleteUser, SessionsOf!TokenRow, SessionsRowsTyped, SessionsRowsStay
    <2>2. seUser' \subseteq Users
      BY <1>0, <1>9 DEF SessionsOf!DeleteUser
    <2> QED  BY <1>9, <2>1, <2>2, SessionsRowsKeep DEF SessionsOf!DeleteUser, SessionsRowsTyped
  <1>10. ASSUME NEW t \in SessionsOf!Tokens, SessionsOf!Expire(t)
         PROVE  SessionsInv' /\ SessionsRowsStay
    <2>1. SessionsRowsTyped
      BY <1>0, <1>10
        DEF SessionsOf!Expire, SessionsOf!TokenRow, SessionsRowsTyped, SessionsRowsStay
    <2> QED  BY <1>0, <1>10, <2>1, SessionsRowsKeep DEF SessionsOf!Expire, SessionsRowsTyped
  <1>11. CASE UNCHANGED SessionsOf!vars
    <2>1. SessionsRowsTyped
      BY <1>0, <1>11 DEF SessionsOf!vars, SessionsRowsTyped, SessionsRowsStay
    <2> QED  BY <1>0, <1>11, <2>1, SessionsRowsKeep DEF SessionsOf!vars, SessionsRowsTyped
  <1> QED  BY <1>1, <1>2, <1>3, <1>4, <1>5, <1>6, <1>7, <1>8, <1>9, <1>10, <1>11,
              SessionsStoreKeeps
           DEF SessionsOf!Next, SessionsOf!Handle

\* Of the requests that present one refresh token at once, those that will exchange it and the
\* tokens that were made for it together are never more than there are requests.
THEOREM SessionsBound ==
    ASSUME SessionsConstants
    PROVE  SessionsOf!Spec => [](SessionsOf!TypeOK /\ SessionsOf!SuccessorsBounded)
  <1>1. SessionsOf!Init => SessionsInv
    BY SessionsInitially
  <1>2. SessionsInv /\ [SessionsOf!Next]_(SessionsOf!vars) => SessionsInv'
    BY SessionsKept
  <1>3. ASSUME SessionsInv
        PROVE  SessionsOf!TypeOK /\ SessionsOf!SuccessorsBounded
    <2>1. SessionsOf!Exchanged \subseteq SessionsOf!Tokens
      BY <1>3 DEF SessionsInv, SessionsOf!TypeOK, SessionsOf!Exchanged
    <2> QED  BY <1>3, <2>1, Counting DEF SessionsInv, SessionsOf!SuccessorsBounded,
                SessionsBounded, SessionsSuccessors, SessionsExchanging
  <1> QED  BY <1>1, <1>2, <1>3, PTL DEF SessionsOf!Spec

\* The one save that takes back that a row is revoked, the one with its hash, is of a row no client
\* has got: rows are new when their token is made, and given when their hash is stored.
THEOREM SessionsRevoked ==
    ASSUME SessionsConstants
    PROVE  SessionsOf!Spec => SessionsOf!RevokedStaysRevoked
  <1>1. SessionsOf!Init => SessionsInv
    BY SessionsInitially
  <1>2. SessionsInv /\ [SessionsOf!Next]_(SessionsOf!vars) => SessionsInv'
    BY SessionsKept
  <1>3. SessionsInv /\ [SessionsOf!Next]_(SessionsOf!vars)
          => [\A t \in seGiven : seToken[t].revoked => seToken'[t].revoked]_(SessionsOf!vars)
    <2>1. SessionsInv => seGiven \subseteq SessionsOf!Tokens
      BY DEF SessionsInv, SessionsOf!TypeOK
    <2> QED  BY <2>1, SessionsKept DEF SessionsRowsStay
  <1> QED  BY <1>1, <1>2, <1>3, PTL DEF SessionsOf!Spec, SessionsOf!RevokedStaysRevoked

----------------------------------------------------------------------------
(* Onboarding: nothing is active that no admin decided on *)

\* Every row, copy and event that says a restaurant is active has an admin behind it.
OnboardingRowsDecided == \A r \in Restaurants : onRestaurant[r].active => r \in onDecided

OnboardingCopiesDecided == \A q \in Procs : onRequest[q].copy.active
  => onRequest[q].restaurant \in onDecided

OnboardingEventsDecided == \A e \in onEvents : e.active => e.restaurant \in onDecided

\* A request at work is about a restaurant.
OnboardingRestaurantsNamed == \A q \in Procs : ~ OnboardingOf!At(q, "idle")
  => onRequest[q].restaurant \in Restaurants

OnboardingInv ==
    /\ OnboardingOf!TypeOK
    /\ OnboardingRestaurantsNamed
    /\ OnboardingRowsDecided
    /\ OnboardingCopiesDecided
    /\ OnboardingEventsDecided
    /\ OnboardingOf!OnlyApprovedGoLive

\* The bound on faults is one.
OnboardingConstants == MaxFaults \in Nat

(* The parts of a step *)

LEMMA OnboardingIdleTyped == OnboardingOf!NoRow \in OnboardingOf!Row
                             /\ OnboardingOf!Idle \in OnboardingOf!Handling
  BY DEF OnboardingOf!NoRow, OnboardingOf!Row, OnboardingOf!RestaurantStatus, OnboardingOf!Idle,
        OnboardingOf!Handling

\* A row of which some columns are written is a row, and says what one of the two said.
LEMMA OnboardingUpdatedRow ==
    ASSUME NEW row \in OnboardingOf!Row, NEW copy \in OnboardingOf!Row, NEW columns
    PROVE  /\ OnboardingOf!Updated(row, copy, columns) \in OnboardingOf!Row
           /\ OnboardingOf!Updated(row, copy, columns).active => row.active \/ copy.active
  <1>1. OnboardingOf!Updated(row, copy, columns) =
          [status |-> IF "status" \in columns THEN copy.status ELSE row.status,
           active |-> IF "active" \in columns THEN copy.active ELSE row.active]
    BY DEF OnboardingOf!Updated, OnboardingOf!Column
  <1> QED  BY <1>1 DEF OnboardingOf!Row

\* A request that goes on to task.
OnboardingBecomes(q, task) == onRequest' = [onRequest EXCEPT ![q] = task]

LEMMA OnboardingBecomesKeeps ==
    ASSUME OnboardingOf!TypeOK, OnboardingRestaurantsNamed, OnboardingCopiesDecided,
           onDecided \subseteq onDecided',
           NEW q \in Procs, NEW task \in OnboardingOf!Handling, OnboardingBecomes(q, task),
           task.stage # "idle" => task.restaurant \in Restaurants,
           task.copy.active => task.restaurant \in onDecided'
    PROVE  /\ onRequest' \in [Procs -> OnboardingOf!Handling]
           /\ (OnboardingRestaurantsNamed /\ OnboardingCopiesDecided)'
  BY DEF OnboardingOf!TypeOK, OnboardingRestaurantsNamed, OnboardingCopiesDecided,
        OnboardingBecomes, OnboardingOf!At

LEMMA OnboardingAnswerKeeps ==
    ASSUME OnboardingOf!TypeOK, OnboardingRestaurantsNamed, OnboardingCopiesDecided,
           onDecided \subseteq onDecided',
           NEW q \in Procs, OnboardingOf!Answer(q)
    PROVE  /\ onRequest' \in [Procs -> OnboardingOf!Handling]
           /\ (OnboardingRestaurantsNamed /\ OnboardingCopiesDecided)'
  <1>1. OnboardingOf!Idle.stage = "idle" /\ ~ OnboardingOf!Idle.copy.active
    BY DEF OnboardingOf!Idle, OnboardingOf!NoRow
  <1> QED  BY <1>1, OnboardingIdleTyped, OnboardingBecomesKeeps
             DEF OnboardingOf!Answer, OnboardingBecomes

LEMMA OnboardingLoadKeeps ==
    ASSUME OnboardingInv, NEW q \in Procs, NEW r \in Restaurants,
           NEW kind \in {"register", "document", "profile", "status"},
           NEW copy \in OnboardingOf!Row, OnboardingOf!Load(q, r, kind, copy),
           onDecided' \in SUBSET Restaurants, onDecided \subseteq onDecided',
           copy.active => r \in onDecided'
    PROVE  OnboardingInv'
  <1> DEFINE demotes == copy.status = "REJECTED" /\ onRestaurant[r].status = "APPROVED"
             task == [OnboardingOf!Idle EXCEPT !.stage = "compare", !.kind = kind,
             !.restaurant = r,
                                  !.copy = copy, !.demotes = demotes]
  <1>1. /\ task \in OnboardingOf!Handling
        /\ task.restaurant = r /\ task.copy = copy
    BY DEF OnboardingOf!Idle, OnboardingOf!Handling, OnboardingOf!NoRow
  <1>2. OnboardingBecomes(q, task)
    BY DEF OnboardingOf!Load, OnboardingBecomes
  <1>3. onRequest' \in [Procs -> OnboardingOf!Handling] /\ (OnboardingRestaurantsNamed
        /\ OnboardingCopiesDecided)'
    BY <1>1, <1>2, OnboardingBecomesKeeps DEF OnboardingInv
  <1> QED  BY <1>3 DEF OnboardingInv, OnboardingOf!TypeOK, OnboardingRowsDecided,
              OnboardingEventsDecided, OnboardingOf!OnlyApprovedGoLive, OnboardingOf!Load

(* Requests *)

LEMMA OnboardingAskKeeps ==
    ASSUME OnboardingInv, NEW q \in Procs, NEW r \in Restaurants, OnboardingOf!Ask(q, r)
    PROVE  OnboardingInv'
  <1>1. /\ onRestaurant[r] \in OnboardingOf!Row
        /\ onRestaurant[r].active => r \in onDecided
        /\ onDecided \in SUBSET Restaurants
    BY DEF OnboardingInv, OnboardingOf!TypeOK, OnboardingRowsDecided
  <1>2. CASE OnboardingOf!Register(q, r)
    <2>1. [OnboardingOf!Idle EXCEPT !.stage = "details",
          !.restaurant = r] \in OnboardingOf!Handling
      BY DEF OnboardingOf!Idle, OnboardingOf!Handling, OnboardingOf!NoRow, OnboardingOf!Row,
            OnboardingOf!RestaurantStatus
    <2>2. ~ [OnboardingOf!Idle EXCEPT !.stage = "details", !.restaurant = r].copy.active
      BY DEF OnboardingOf!Idle, OnboardingOf!NoRow
    <2>3. [OnboardingOf!Idle EXCEPT !.stage = "details", !.restaurant = r].restaurant = r
      BY DEF OnboardingOf!Idle
    <2>4. onRequest' \in [Procs -> OnboardingOf!Handling] /\ (OnboardingRestaurantsNamed
          /\ OnboardingCopiesDecided)'
      BY <1>2, <2>1, <2>2, <2>3, OnboardingBecomesKeeps
        DEF OnboardingInv, OnboardingBecomes, OnboardingOf!Register
    <2>5. [onRestaurant[r] EXCEPT !.status = "PENDING"] \in OnboardingOf!Row
      BY <1>1 DEF OnboardingOf!Row, OnboardingOf!RestaurantStatus
    <2>6. [onRestaurant[r] EXCEPT !.status = "PENDING"].active = onRestaurant[r].active
      BY <1>1 DEF OnboardingOf!Row
    <2>7. onRestaurant' \in [Restaurants -> OnboardingOf!Row]
      BY <1>2, <2>5 DEF OnboardingInv, OnboardingOf!TypeOK, OnboardingOf!Register
    <2>8. OnboardingRowsDecided'
      BY <1>1, <1>2, <2>6
        DEF OnboardingInv, OnboardingOf!TypeOK, OnboardingRowsDecided, OnboardingOf!Register
    <2> QED  BY <1>2, <2>4, <2>7, <2>8 DEF OnboardingInv, OnboardingOf!TypeOK,
                OnboardingEventsDecided, OnboardingOf!OnlyApprovedGoLive, OnboardingOf!Register
  <1>3. CASE OnboardingOf!AddDocument(q, r)
    <2>1. /\ [onRestaurant[r] EXCEPT !.status = "UNDER_REVIEW"] \in OnboardingOf!Row
          /\ [onRestaurant[r] EXCEPT !.status = "UNDER_REVIEW"].active = onRestaurant[r].active
      BY <1>1 DEF OnboardingOf!Row, OnboardingOf!RestaurantStatus
    <2> QED  BY <1>1, <1>3, <2>1, OnboardingLoadKeeps DEF OnboardingOf!AddDocument
  <1>4. CASE OnboardingOf!UpdateProfile(q, r)
    BY <1>1, <1>4, OnboardingLoadKeeps DEF OnboardingOf!UpdateProfile
  <1>5. CASE OnboardingOf!UpdateDetails(q, r)
    <2>1. [OnboardingOf!Idle EXCEPT !.stage = "emit",
          !.restaurant = r] \in OnboardingOf!Handling
      BY DEF OnboardingOf!Idle, OnboardingOf!Handling, OnboardingOf!NoRow, OnboardingOf!Row,
            OnboardingOf!RestaurantStatus
    <2>2. ~ [OnboardingOf!Idle EXCEPT !.stage = "emit", !.restaurant = r].copy.active
      BY DEF OnboardingOf!Idle, OnboardingOf!NoRow
    <2>3. [OnboardingOf!Idle EXCEPT !.stage = "emit", !.restaurant = r].restaurant = r
      BY DEF OnboardingOf!Idle
    <2>4. onRequest' \in [Procs -> OnboardingOf!Handling] /\ (OnboardingRestaurantsNamed
          /\ OnboardingCopiesDecided)'
      BY <1>5, <2>1, <2>2, <2>3, OnboardingBecomesKeeps
        DEF OnboardingInv, OnboardingBecomes, OnboardingOf!UpdateDetails
    <2> QED  BY <1>5, <2>4
             DEF OnboardingInv, OnboardingOf!TypeOK, OnboardingRowsDecided,
                   OnboardingEventsDecided, OnboardingOf!OnlyApprovedGoLive,
                     OnboardingOf!UpdateDetails
  <1>6. ASSUME NEW status \in {"APPROVED", "REJECTED"}, OnboardingOf!UpdateStatus(q, r, status)
        PROVE  OnboardingInv'
    <2> DEFINE copy == [onRestaurant[r] EXCEPT !.status = status,
                       !.active = (status = "APPROVED")]
    <2>1. copy \in OnboardingOf!Row /\ copy.active = (status = "APPROVED")
      BY <1>1 DEF OnboardingOf!Row, OnboardingOf!RestaurantStatus
    <2>2. /\ onDecided' \in SUBSET Restaurants /\ onDecided \subseteq onDecided'
          /\ copy.active => r \in onDecided'
      BY <1>1, <1>6, <2>1 DEF OnboardingOf!UpdateStatus
    <2>3. OnboardingOf!Load(q, r, "status", copy)
      BY <1>6 DEF OnboardingOf!UpdateStatus
    <2> HIDE DEF copy
    <2> QED  BY <2>1, <2>2, <2>3, OnboardingLoadKeeps
  <1> QED  BY <1>2, <1>3, <1>4, <1>5, <1>6 DEF OnboardingOf!Ask

(* Handlers, events and faults *)

\* What a handler writes to the row it works on.
LEMMA OnboardingWriteKeeps ==
    ASSUME OnboardingInv, NEW q \in Procs, ~ OnboardingOf!At(q, "idle"),
           onRestaurant' = [onRestaurant EXCEPT ![onRequest[q].restaurant] =
                            OnboardingOf!Updated(@, onRequest[q].copy, onRequest[q].columns)]
    PROVE  /\ onRestaurant' \in [Restaurants -> OnboardingOf!Row]
           /\ \A r \in Restaurants : onRestaurant'[r].active => r \in onDecided
  <1> DEFINE r == onRequest[q].restaurant
             row == OnboardingOf!Updated(onRestaurant[r], onRequest[q].copy,
               onRequest[q].columns)
  <1>1. r \in Restaurants /\ onRequest[q].copy \in OnboardingOf!Row
        /\ onRestaurant[r] \in OnboardingOf!Row
    BY DEF OnboardingInv, OnboardingOf!TypeOK, OnboardingRestaurantsNamed, OnboardingOf!Handling
  <1>2. row \in OnboardingOf!Row /\ (row.active => onRestaurant[r].active
        \/ onRequest[q].copy.active)
    BY <1>1, OnboardingUpdatedRow
  <1>3. row.active => r \in onDecided
    BY <1>1, <1>2 DEF OnboardingInv, OnboardingRowsDecided, OnboardingCopiesDecided
  <1>4. onRestaurant' = [onRestaurant EXCEPT ![r] = row]
    OBVIOUS
  <1> HIDE DEF row, r
  <1> QED  BY <1>1, <1>2, <1>3, <1>4
             DEF OnboardingInv, OnboardingOf!TypeOK, OnboardingRowsDecided

LEMMA OnboardingHandleKeeps ==
    ASSUME OnboardingInv, NEW q \in Procs, OnboardingOf!Handle(q)
    PROVE  OnboardingInv'
  <1>1. /\ onRequest[q] \in OnboardingOf!Handling
        /\ onRequest[q].copy \in OnboardingOf!Row
        /\ onRequest[q].copy.active => onRequest[q].restaurant \in onDecided
        /\ ~ OnboardingOf!At(q, "idle") => onRequest[q].restaurant \in Restaurants
    BY DEF OnboardingInv, OnboardingOf!TypeOK, OnboardingOf!Handling, OnboardingCopiesDecided,
          OnboardingRestaurantsNamed
  <1>2. ASSUME OnboardingOf!Answer(q), UNCHANGED onDecided
        PROVE  onRequest' \in [Procs -> OnboardingOf!Handling] /\ (OnboardingRestaurantsNamed
               /\ OnboardingCopiesDecided)'
    BY <1>2, OnboardingAnswerKeeps DEF OnboardingInv
  <1>3. ASSUME NEW task \in OnboardingOf!Handling, OnboardingBecomes(q, task),
               UNCHANGED onDecided, ~ OnboardingOf!At(q, "idle"),
               task.restaurant = onRequest[q].restaurant, task.copy = onRequest[q].copy
        PROVE  onRequest' \in [Procs -> OnboardingOf!Handling] /\ (OnboardingRestaurantsNamed
               /\ OnboardingCopiesDecided)'
    BY <1>1, <1>3, OnboardingBecomesKeeps DEF OnboardingInv
  <1>4. \A stage \in {"update", "commit", "emit"} :
           /\ [onRequest[q] EXCEPT !.stage = stage] \in OnboardingOf!Handling
           /\ [onRequest[q] EXCEPT !.stage = stage].restaurant = onRequest[q].restaurant
           /\ [onRequest[q] EXCEPT !.stage = stage].copy = onRequest[q].copy
    BY <1>1 DEF OnboardingOf!Handling
  <1>5. CASE OnboardingOf!RegisterDetails(q)
    BY <1>2, <1>5 DEF OnboardingInv, OnboardingOf!TypeOK, OnboardingRowsDecided,
          OnboardingEventsDecided, OnboardingOf!OnlyApprovedGoLive, OnboardingOf!RegisterDetails
  <1>6. CASE OnboardingOf!CompareRow(q)
    <2> DEFINE columns == OnboardingOf!Differing(onRequest[q].copy,
                          onRestaurant[onRequest[q].restaurant])
               task == [[onRequest[q] EXCEPT !.stage = "update"] EXCEPT !.columns = columns]
    <2>1. columns \in SUBSET OnboardingOf!Column
      BY DEF OnboardingOf!Differing
    <2> HIDE DEF columns
    <2>2. /\ task \in OnboardingOf!Handling
          /\ task.restaurant = onRequest[q].restaurant /\ task.copy = onRequest[q].copy
      BY <1>1, <2>1 DEF OnboardingOf!Handling
    <2>3. OnboardingBecomes(q, task) /\ ~ OnboardingOf!At(q, "idle") /\ UNCHANGED onDecided
      BY <1>1, <1>6 DEF OnboardingOf!CompareRow, OnboardingBecomes, columns, OnboardingOf!At,
            OnboardingInv, OnboardingOf!TypeOK
    <2> HIDE DEF task
    <2> QED  BY <1>3, <1>6, <2>2, <2>3
             DEF OnboardingInv, OnboardingOf!TypeOK, OnboardingRowsDecided,
                   OnboardingEventsDecided, OnboardingOf!OnlyApprovedGoLive,
                     OnboardingOf!CompareRow
  <1>7. CASE OnboardingOf!SaveRow(q)
    <2>1. ~ OnboardingOf!At(q, "idle") /\ UNCHANGED onDecided
      BY <1>7 DEF OnboardingOf!SaveRow, OnboardingOf!At
    <2>2. /\ onRestaurant' \in [Restaurants -> OnboardingOf!Row]
          /\ \A r \in Restaurants : onRestaurant'[r].active => r \in onDecided
      BY <1>7, <2>1, OnboardingWriteKeeps DEF OnboardingOf!SaveRow
    <2>3. onRequest' \in [Procs -> OnboardingOf!Handling] /\ (OnboardingRestaurantsNamed
          /\ OnboardingCopiesDecided)'
      BY <1>2, <1>3, <1>4, <1>7, <2>1 DEF OnboardingOf!SaveRow, OnboardingBecomes
    <2> QED  BY <1>7, <2>1, <2>2, <2>3
             DEF OnboardingInv, OnboardingOf!TypeOK, OnboardingRowsDecided,
                   OnboardingEventsDecided, OnboardingOf!OnlyApprovedGoLive,
                     OnboardingOf!SaveRow
  <1>8. CASE OnboardingOf!EmitRestaurantUpdate(q)
    <2> DEFINE r == onRequest[q].restaurant
               e == OnboardingOf!Announced(r, onRestaurant[r])
    <2>1. r \in Restaurants
      BY <1>1, <1>8 DEF OnboardingOf!EmitRestaurantUpdate, OnboardingOf!At
    <2>2. e \in OnboardingOf!Event /\ (e.active => e.restaurant \in onDecided)
      BY <2>1 DEF OnboardingOf!Announced, OnboardingOf!Event, OnboardingInv,
            OnboardingOf!TypeOK, OnboardingOf!Row, OnboardingRowsDecided
    <2>3. onEvents' \subseteq onEvents \cup {e}
      BY <1>8 DEF OnboardingOf!EmitRestaurantUpdate
    <2> HIDE DEF e
    <2>4. onEvents' \subseteq OnboardingOf!Event /\ (\A f \in onEvents' : f.active
            => f.restaurant \in onDecided)
      BY <2>2, <2>3 DEF OnboardingInv, OnboardingOf!TypeOK, OnboardingEventsDecided
    <2>5. onRequest' \in [Procs -> OnboardingOf!Handling] /\ (OnboardingRestaurantsNamed
          /\ OnboardingCopiesDecided)'
      BY <1>2, <1>8 DEF OnboardingOf!EmitRestaurantUpdate
    <2> QED  BY <1>8, <2>4, <2>5
             DEF OnboardingInv, OnboardingOf!TypeOK, OnboardingRowsDecided,
                   OnboardingEventsDecided, OnboardingOf!OnlyApprovedGoLive,
                     OnboardingOf!EmitRestaurantUpdate
  <1>9. CASE OnboardingOf!EmitApproval(q)
    <2> DEFINE r == onRequest[q].restaurant
               e == OnboardingOf!Announced(r, onRequest[q].copy)
    <2>1. r \in Restaurants /\ ~ OnboardingOf!At(q, "idle")
      BY <1>1, <1>9 DEF OnboardingOf!EmitApproval, OnboardingOf!At
    <2>2. e \in OnboardingOf!Event /\ (e.active => e.restaurant \in onDecided)
      BY <1>1, <2>1 DEF OnboardingOf!Announced, OnboardingOf!Event, OnboardingOf!Row
    <2>3. onEvents' \subseteq onEvents \cup {e}
      BY <1>9 DEF OnboardingOf!EmitApproval
    <2>4. onRequest' \in [Procs -> OnboardingOf!Handling] /\ (OnboardingRestaurantsNamed
          /\ OnboardingCopiesDecided)'
      BY <1>3, <1>4, <1>9, <2>1 DEF OnboardingOf!EmitApproval, OnboardingBecomes
    <2> HIDE DEF e
    <2>5. onEvents' \subseteq OnboardingOf!Event /\ (\A f \in onEvents' : f.active
            => f.restaurant \in onDecided)
      BY <2>2, <2>3 DEF OnboardingInv, OnboardingOf!TypeOK, OnboardingEventsDecided
    <2> QED  BY <1>9, <2>4, <2>5
             DEF OnboardingInv, OnboardingOf!TypeOK, OnboardingRowsDecided,
                   OnboardingEventsDecided, OnboardingOf!OnlyApprovedGoLive,
                     OnboardingOf!EmitApproval
  <1>10. CASE OnboardingOf!CommitStatus(q)
    <2> DEFINE r == onRequest[q].restaurant
    <2>1. ~ OnboardingOf!At(q, "idle") /\ r \in Restaurants
          /\ UNCHANGED <<onDecided, onReplica, onEvents, onFaults>>
      BY <1>1, <1>10 DEF OnboardingOf!CommitStatus, OnboardingOf!At
    <2>2. /\ onRestaurant' \in [Restaurants -> OnboardingOf!Row]
          /\ \A s \in Restaurants : onRestaurant'[s].active => s \in onDecided
      BY <1>10, <2>1, OnboardingWriteKeeps DEF OnboardingOf!CommitStatus
    <2>3. onRequest' \in [Procs -> OnboardingOf!Handling] /\ (OnboardingRestaurantsNamed
          /\ OnboardingCopiesDecided)'
      BY <1>2, <1>10, <2>1 DEF OnboardingOf!CommitStatus
    <2>4. /\ onIsOwner' \in [Restaurants -> BOOLEAN]
          /\ onApproved' \subseteq Restaurants
          /\ \A s \in Restaurants : onIsOwner'[s] => s \in onApproved'
      <3>1. CASE onRequest[q].copy.status = "APPROVED"
        BY <1>10, <2>1, <3>1 DEF OnboardingOf!CommitStatus, OnboardingInv, OnboardingOf!TypeOK,
              OnboardingOf!OnlyApprovedGoLive
      <3>2. CASE onRequest[q].copy.status # "APPROVED" /\ onRequest[q].demotes
        BY <1>10, <2>1, <3>2 DEF OnboardingOf!CommitStatus, OnboardingInv, OnboardingOf!TypeOK,
              OnboardingOf!OnlyApprovedGoLive
      <3>3. CASE onRequest[q].copy.status # "APPROVED" /\ ~ onRequest[q].demotes
        BY <1>10, <2>1, <3>3 DEF OnboardingOf!CommitStatus, OnboardingInv, OnboardingOf!TypeOK,
              OnboardingOf!OnlyApprovedGoLive
      <3> QED  BY <3>1, <3>2, <3>3
    <2> QED  BY <2>1, <2>2, <2>3, <2>4
             DEF OnboardingInv, OnboardingOf!TypeOK, OnboardingRowsDecided,
                   OnboardingEventsDecided, OnboardingOf!OnlyApprovedGoLive
  <1> QED  BY <1>5, <1>6, <1>7, <1>8, <1>9, <1>10 DEF OnboardingOf!Handle

LEMMA OnboardingInvKept ==
    ASSUME OnboardingConstants, OnboardingInv, [OnboardingOf!Next]_(OnboardingOf!vars)
    PROVE  OnboardingInv'
  <1>1. ASSUME NEW q \in Procs, OnboardingOf!Crash(q)
        PROVE  OnboardingInv'
    <2>1. onRequest' \in [Procs -> OnboardingOf!Handling] /\ (OnboardingRestaurantsNamed
          /\ OnboardingCopiesDecided)'
      BY <1>1, OnboardingAnswerKeeps DEF OnboardingInv, OnboardingOf!Crash
    <2>2. onFaults' \in 0 .. MaxFaults
      BY <1>1 DEF OnboardingConstants, OnboardingInv, OnboardingOf!TypeOK, OnboardingOf!Crash
    <2> QED  BY <1>1, <2>1, <2>2
             DEF OnboardingInv, OnboardingOf!TypeOK, OnboardingRowsDecided,
                   OnboardingEventsDecided, OnboardingOf!OnlyApprovedGoLive, OnboardingOf!Crash
  <1>2. ASSUME NEW e \in onEvents, OnboardingOf!HandleRestaurantUpdate(e)
        PROVE  OnboardingInv'
    <2>1. e \in OnboardingOf!Event /\ (e.active => e.restaurant \in onDecided)
      BY DEF OnboardingInv, OnboardingOf!TypeOK, OnboardingEventsDecided
    <2>2. /\ onReplica' \in [Restaurants -> BOOLEAN]
          /\ \A r \in Restaurants : onReplica'[r] => r \in onDecided
      BY <1>2, <2>1 DEF OnboardingOf!HandleRestaurantUpdate, OnboardingOf!Event, OnboardingInv,
            OnboardingOf!TypeOK, OnboardingOf!OnlyApprovedGoLive
    <2>3. onEvents' \subseteq onEvents
      BY <1>2 DEF OnboardingOf!HandleRestaurantUpdate
    <2>4. onRequest' = onRequest
          /\ UNCHANGED <<onRestaurant, onIsOwner, onDecided, onApproved, onFaults>>
      BY <1>2 DEF OnboardingOf!HandleRestaurantUpdate
    <2> QED  BY <2>2, <2>3, <2>4
             DEF OnboardingInv, OnboardingOf!TypeOK, OnboardingRestaurantsNamed,
                   OnboardingOf!At, OnboardingRowsDecided, OnboardingCopiesDecided,
                   OnboardingEventsDecided,
                 OnboardingOf!OnlyApprovedGoLive
  <1>3. CASE UNCHANGED OnboardingOf!vars
    BY <1>3 DEF OnboardingOf!vars, OnboardingInv, OnboardingOf!TypeOK,
          OnboardingRestaurantsNamed, OnboardingOf!At, OnboardingRowsDecided,
          OnboardingCopiesDecided,
          OnboardingEventsDecided, OnboardingOf!OnlyApprovedGoLive
  <1> QED  BY <1>1, <1>2, <1>3, OnboardingAskKeeps, OnboardingHandleKeeps DEF OnboardingOf!Next

(* The theorem *)

\* Whatever an owner and an admin save over one another, whichever event comes late or twice
\* and whatever dies: catalog-service offers a restaurant only if an admin's request was
\* approving it, and its owner has the role only if an approval was committed.
THEOREM OnboardingApproved ==
    ASSUME OnboardingConstants
    PROVE  OnboardingOf!Spec => [](OnboardingOf!TypeOK /\ OnboardingOf!OnlyApprovedGoLive)
  <1>1. ASSUME OnboardingOf!Init
        PROVE  OnboardingInv
    <2>1. onFaults \in 0 .. MaxFaults
      BY <1>1 DEF OnboardingOf!Init, OnboardingConstants
    <2>2. OnboardingOf!Idle.stage = "idle" /\ ~ OnboardingOf!Idle.copy.active
          /\ ~ OnboardingOf!NoRow.active
      BY DEF OnboardingOf!Idle, OnboardingOf!NoRow
    <2> QED  BY <1>1, <2>1, <2>2, OnboardingIdleTyped
             DEF OnboardingOf!Init, OnboardingInv, OnboardingOf!TypeOK,
                   OnboardingRestaurantsNamed, OnboardingOf!At, OnboardingRowsDecided,
                   OnboardingCopiesDecided,
                 OnboardingEventsDecided, OnboardingOf!OnlyApprovedGoLive
  <1>2. OnboardingInv /\ [OnboardingOf!Next]_(OnboardingOf!vars) => OnboardingInv'
    BY OnboardingInvKept
  <1>3. OnboardingInv => OnboardingOf!TypeOK /\ OnboardingOf!OnlyApprovedGoLive
    BY DEF OnboardingInv
  <1> QED  BY <1>1, <1>2, <1>3, PTL DEF OnboardingOf!Spec

----------------------------------------------------------------------------
(* Reviews: the index, and rows that keep their customer and their meal *)

ReviewsConstants ==
    /\ IsFiniteSet(Rows) /\ Stars \subseteq Nat /\ MaxFaults \in Nat
    /\ Nothing \notin Rows /\ Nothing \notin ReviewsOf!Row

\* The id of a request that creates a review is its own, and no row has it; that of a request
\* that changes one is the id of a row, for the customer and the meal of the row.
ReviewsRequestFits(rows, works, w) ==
    LET k == works[w] IN
    /\ k.stage # "idle" => k.id \in Rows /\ k.copy \in ReviewsOf!Row
    /\ k.stage \in {"order", "insert"} =>
         /\ rows[k.id] = Nothing
         /\ \A v \in Procs \ {w} : works[v].id # k.id
    /\ k.stage \notin {"idle", "order", "insert"} =>
         /\ rows[k.id] \in ReviewsOf!Row
         /\ rows[k.id].customer = k.copy.customer
         /\ rows[k.id].meal = k.copy.meal

ReviewsRequestsFit == \A w \in Procs : ReviewsRequestFits(reReview, reWork, w)

ReviewsInv == ReviewsOf!TypeOK /\ ReviewsRequestsFit /\ ReviewsOf!OneReviewPerMeal

LEMMA ReviewsStatsTyped ==
    ASSUME ReviewsConstants, NEW rows \in [Rows -> ReviewsOf!Row \cup {Nothing}], NEW meals
    PROVE  ReviewsOf!CalculateStats(rows, meals) \in ReviewsOf!Stats
  <1> DEFINE found == ReviewsOf!Live(rows, meals)
             stars == [v \in found |-> rows[v].stars]
  <1>1. found \subseteq Rows /\ IsFiniteSet(found)
    BY FS_Subset DEF ReviewsOf!Live, ReviewsConstants
  <1>2. \A v \in found : stars[v] \in Nat
    BY DEF ReviewsOf!Live, ReviewsOf!Row, ReviewsConstants
  <1> HIDE DEF stars, found
  <1>3. Cardinality(found) \in Nat /\ SumFunctionOnSet(stars, found) \in Nat
    BY <1>1, <1>2, FS_CardinalityType, SumType
  <1> QED  BY <1>3, Counting, Adding DEF ReviewsOf!CalculateStats, ReviewsOf!Stats, found, stars

LEMMA ReviewsIdleTyped ==
    ASSUME ReviewsConstants
    PROVE  ReviewsOf!Idle \in ReviewsOf!Handling /\ ReviewsOf!Idle.stage = "idle"
           /\ ReviewsOf!Idle.id = Nothing
  BY DEF ReviewsOf!Idle, ReviewsOf!Handling, ReviewsOf!None, ReviewsOf!Stats

\* A request that goes on with the id and the copy it has, or ends, while no row changes.
LEMMA ReviewsGoesOn ==
    ASSUME ReviewsConstants, ReviewsInv, NEW w \in Procs, NEW k \in ReviewsOf!Handling,
           reWork' = [reWork EXCEPT ![w] = k], UNCHANGED reReview,
           \/ k = ReviewsOf!Idle
           \/ /\ k.id = reWork[w].id /\ k.copy = reWork[w].copy
              /\ reWork[w].stage # "idle"
              /\ \/ reWork[w].stage = "order" /\ k.stage = "insert"
                 \/ reWork[w].stage \notin {"order", "insert"}
                    /\ k.stage \notin {"order", "insert"}
    PROVE  reWork' \in [Procs -> ReviewsOf!Handling] /\ ReviewsRequestsFit'
           /\ ReviewsOf!OneReviewPerMeal'
  <1>1. reWork \in [Procs -> ReviewsOf!Handling] /\ reWork' \in [Procs -> ReviewsOf!Handling]
    BY DEF ReviewsInv, ReviewsOf!TypeOK
  <1>2. \A v \in Procs : reWork'[v] = IF v = w THEN k ELSE reWork[v]
    BY <1>1
  <1>3. ReviewsOf!OneReviewPerMeal'
    BY DEF ReviewsInv, ReviewsOf!OneReviewPerMeal, ReviewsOf!Live
  <1>4. ASSUME NEW v \in Procs
        PROVE  ReviewsRequestFits(reReview, reWork', v)
    <2>1. ReviewsRequestFits(reReview, reWork, v) /\ ReviewsRequestFits(reReview, reWork, w)
      BY DEF ReviewsInv, ReviewsRequestsFit
    <2>2. k.id \in {Nothing, reWork[w].id}
      BY ReviewsIdleTyped
    <2>3. CASE v = w
      BY <1>2, <2>1, <2>2, <2>3, ReviewsIdleTyped DEF ReviewsRequestFits
    <2>4. CASE v # w
      BY <1>2, <2>1, <2>2, <2>4 DEF ReviewsRequestFits, ReviewsConstants
    <2> QED  BY <2>3, <2>4
  <1> QED  BY <1>1, <1>3, <1>4 DEF ReviewsRequestsFit

LEMMA ReviewsCreatePart ==
    ASSUME ReviewsConstants, ReviewsInv, NEW w \in Procs, NEW v \in Rows, NEW c \in Users,
           NEW m \in Meals, NEW n \in Stars, ReviewsOf!Create(w, v, c, m, n)
    PROVE  ReviewsInv'
  <1> DEFINE copy == [customer |-> c, meal |-> m, stars |-> n, deleted |-> FALSE]
             k == [ReviewsOf!Idle EXCEPT !.stage = "order", !.id = v, !.copy = copy]
  <1>1. copy \in ReviewsOf!Row
    BY DEF ReviewsOf!Row
  <1>2. k \in ReviewsOf!Handling /\ k.stage = "order" /\ k.id = v /\ k.copy = copy
    BY <1>1, ReviewsIdleTyped DEF ReviewsOf!Idle, ReviewsOf!Handling
  <1>3. reWork \in [Procs -> ReviewsOf!Handling] /\ reWork' = [reWork EXCEPT ![w] = k]
        /\ UNCHANGED <<reOrdered, reReview, reMealRating, reRating, reCrashes>>
        /\ reReview[v] = Nothing /\ \A u \in Procs : reWork[u].id # v
    BY DEF ReviewsOf!Create, ReviewsInv, ReviewsOf!TypeOK
  <1> HIDE DEF k, copy
  <1>4. ReviewsOf!TypeOK' /\ ReviewsOf!OneReviewPerMeal'
    BY <1>2, <1>3 DEF ReviewsInv, ReviewsOf!TypeOK, ReviewsOf!OneReviewPerMeal, ReviewsOf!Live
  <1>5. ASSUME NEW u \in Procs
        PROVE  ReviewsRequestFits(reReview, reWork', u)
    <2>1. ReviewsRequestFits(reReview, reWork, u)
      BY DEF ReviewsInv, ReviewsRequestsFit
    <2>2. CASE u = w
      BY <1>1, <1>2, <1>3, <2>2 DEF ReviewsRequestFits
    <2>3. CASE u # w
      BY <1>2, <1>3, <2>1, <2>3 DEF ReviewsRequestFits
    <2> QED  BY <2>2, <2>3
  <1> QED  BY <1>3, <1>4, <1>5 DEF ReviewsInv, ReviewsRequestsFit

\* A request to change or to delete a review loads it.
LEMMA ReviewsLoadPart ==
    ASSUME ReviewsConstants, ReviewsInv, NEW w \in Procs, NEW v \in ReviewsOf!Live(reReview,
           Meals),
           NEW stage \in {"save", "remove"}, NEW copy \in ReviewsOf!Row,
           copy.customer = reReview[v].customer, copy.meal = reReview[v].meal,
           reWork' = [reWork EXCEPT ![w] = [ReviewsOf!Idle EXCEPT !.stage = stage, !.id = v,
           !.copy = copy]],
           UNCHANGED <<reOrdered, reReview, reMealRating, reRating, reCrashes>>
    PROVE  ReviewsInv'
  <1> DEFINE k == [ReviewsOf!Idle EXCEPT !.stage = stage, !.id = v, !.copy = copy]
  <1>1. v \in Rows /\ reReview[v] \in ReviewsOf!Row
    BY DEF ReviewsOf!Live, ReviewsInv, ReviewsOf!TypeOK
  <1>2. k \in ReviewsOf!Handling /\ k.stage = stage /\ k.id = v /\ k.copy = copy
    BY <1>1, ReviewsIdleTyped DEF ReviewsOf!Idle, ReviewsOf!Handling
  <1>3. reWork \in [Procs -> ReviewsOf!Handling] /\ reWork' = [reWork EXCEPT ![w] = k]
    BY DEF ReviewsInv, ReviewsOf!TypeOK
  <1> HIDE DEF k
  <1>4. ReviewsOf!TypeOK' /\ ReviewsOf!OneReviewPerMeal'
    BY <1>2, <1>3 DEF ReviewsInv, ReviewsOf!TypeOK, ReviewsOf!OneReviewPerMeal, ReviewsOf!Live
  <1>5. ASSUME NEW u \in Procs
        PROVE  ReviewsRequestFits(reReview, reWork', u)
    <2>1. ReviewsRequestFits(reReview, reWork, u)
      BY DEF ReviewsInv, ReviewsRequestsFit
    <2>2. CASE u = w
      BY <1>1, <1>2, <1>3, <2>2 DEF ReviewsRequestFits
    <2>3. CASE u # w
      BY <1>1, <1>2, <1>3, <2>1, <2>3 DEF ReviewsRequestFits, ReviewsConstants
    <2> QED  BY <2>2, <2>3
  <1> QED  BY <1>4, <1>5 DEF ReviewsInv, ReviewsRequestsFit

LEMMA ReviewsAskPart ==
    ASSUME ReviewsConstants, ReviewsInv, NEW w \in Procs, ReviewsOf!Ask(w)
    PROVE  ReviewsInv'
  <1>1. ASSUME NEW v \in Rows, NEW n \in Stars, ReviewsOf!Update(w, v, n)
        PROVE  ReviewsInv'
    <2>1. v \in ReviewsOf!Live(reReview, Meals) /\ reReview[v] \in ReviewsOf!Row
      BY <1>1 DEF ReviewsOf!Update, ReviewsOf!Live, ReviewsInv, ReviewsOf!TypeOK
    <2>2. [reReview[v] EXCEPT !.stars = n] \in ReviewsOf!Row
          /\ [reReview[v] EXCEPT !.stars = n].customer = reReview[v].customer
          /\ [reReview[v] EXCEPT !.stars = n].meal = reReview[v].meal
      BY <2>1 DEF ReviewsOf!Row
    <2> QED  BY <1>1, <2>1, <2>2, ReviewsLoadPart DEF ReviewsOf!Update
  <1>2. ASSUME NEW v \in Rows, ReviewsOf!Delete(w, v)
        PROVE  ReviewsInv'
    <2>1. v \in ReviewsOf!Live(reReview, Meals) /\ reReview[v] \in ReviewsOf!Row
      BY <1>2 DEF ReviewsOf!Delete, ReviewsOf!Live, ReviewsInv, ReviewsOf!TypeOK
    <2> QED  BY <1>2, <2>1, ReviewsLoadPart DEF ReviewsOf!Delete
  <1> QED  BY <1>1, <1>2, ReviewsCreatePart DEF ReviewsOf!Ask

\* What a write needs: nobody else has another review of the meal that counts.
LEMMA ReviewsWritePart ==
    ASSUME ReviewsConstants, ReviewsInv, NEW w \in Procs, NEW stage \in {"insert", "save"},
           ReviewsOf!Write(w, stage)
    PROVE  ReviewsInv'
  <1> DEFINE i == reWork[w].id
             row == reWork[w].copy
  <1>1. reWork \in [Procs -> ReviewsOf!Handling] /\ reWork[w] \in ReviewsOf!Handling
        /\ reWork[w].stage = stage
        /\ reReview \in [Rows -> ReviewsOf!Row \cup {Nothing}]
        /\ UNCHANGED <<reOrdered, reMealRating, reRating, reCrashes>>
    BY DEF ReviewsOf!Write, ReviewsOf!At, ReviewsInv, ReviewsOf!TypeOK
  <1>2. i \in Rows /\ row \in ReviewsOf!Row
    BY <1>1 DEF ReviewsInv, ReviewsRequestsFit, ReviewsRequestFits
  <1>3. CASE ~ ReviewsOf!Unique(i, row)
    <2>1. reWork' = [reWork EXCEPT ![w] = ReviewsOf!Idle] /\ UNCHANGED reReview
      BY <1>3 DEF ReviewsOf!Write, ReviewsOf!End
    <2>2. reWork' \in [Procs -> ReviewsOf!Handling] /\ ReviewsRequestsFit'
          /\ ReviewsOf!OneReviewPerMeal'
      BY <2>1, ReviewsIdleTyped, ReviewsGoesOn
    <2> QED  BY <1>1, <2>1, <2>2 DEF ReviewsInv, ReviewsOf!TypeOK
  <1>4. CASE ReviewsOf!Unique(i, row)
    <2> DEFINE k == [reWork[w] EXCEPT !.stage = "meal"]
    <2>1. k \in ReviewsOf!Handling /\ k.stage = "meal" /\ k.id = i /\ k.copy = row
      BY <1>1 DEF ReviewsOf!Handling
    <2>2. reReview' = [reReview EXCEPT ![i] = row] /\ reWork' = [reWork EXCEPT ![w] = k]
      BY <1>1, <1>4 DEF ReviewsOf!Write
    <2>3. ReviewsOf!TypeOK'
      BY <1>1, <1>2, <2>1, <2>2 DEF ReviewsInv, ReviewsOf!TypeOK
    <2> HIDE DEF k
    <2>4. ReviewsOf!OneReviewPerMeal'
      <3> SUFFICES ASSUME NEW u \in ReviewsOf!Live(reReview', Meals),
                          NEW v \in ReviewsOf!Live(reReview', Meals),
                          reReview'[u].customer = reReview'[v].customer,
                          reReview'[u].meal = reReview'[v].meal, u # v
                   PROVE  FALSE
        BY DEF ReviewsOf!OneReviewPerMeal
      <3>1. ASSUME NEW x \in ReviewsOf!Live(reReview', Meals), x # i
            PROVE  x \in ReviewsOf!Live(reReview, Meals) /\ reReview'[x] = reReview[x]
        BY <1>1, <2>2, <3>1 DEF ReviewsOf!Live
      <3>2. ASSUME NEW x \in ReviewsOf!Live(reReview, Meals), x # i, reReview[x].meal = row.meal
            PROVE  reReview[x].customer # row.customer
        BY <1>4, <3>2 DEF ReviewsOf!Unique, ReviewsOf!Live
      <3>3. reReview'[i] = row
        BY <1>1, <1>2, <2>2
      <3>4. CASE u = i
        BY <3>1, <3>2, <3>3, <3>4
      <3>5. CASE v = i
        BY <3>1, <3>2, <3>3, <3>5
      <3>6. CASE u # i /\ v # i
        BY <3>1, <3>6 DEF ReviewsInv, ReviewsOf!OneReviewPerMeal
      <3> QED  BY <3>4, <3>5, <3>6
    <2>5. ASSUME NEW u \in Procs
          PROVE  ReviewsRequestFits(reReview', reWork', u)
      <3>1. ReviewsRequestFits(reReview, reWork, u) /\ ReviewsRequestFits(reReview, reWork, w)
        BY DEF ReviewsInv, ReviewsRequestsFit
      <3>2. CASE u = w
        BY <1>1, <1>2, <2>1, <2>2, <3>2 DEF ReviewsRequestFits
      <3>3. CASE u # w
        <4>1. reWork'[u] = reWork[u] /\ reWork[u].id \in Rows \cup {Nothing}
          BY <1>1, <2>2, <3>3 DEF ReviewsOf!Handling
        <4>2. CASE reWork[u].id # i
          BY <1>1, <1>2, <2>1, <2>2, <3>1, <3>3, <4>1, <4>2 DEF ReviewsRequestFits
        <4>3. CASE reWork[u].id = i
          <5>1. stage = "save" /\ reWork[u].stage \notin {"order", "insert"}
            BY <1>1, <3>1, <3>3, <4>3 DEF ReviewsRequestFits
          <5>2. reReview[i].customer = row.customer /\ reReview[i].meal = row.meal
            BY <1>1, <3>1, <5>1 DEF ReviewsRequestFits
          <5> QED  BY <1>1, <1>2, <2>2, <3>1, <4>1, <4>3, <5>1, <5>2 DEF ReviewsRequestFits
        <4> QED  BY <4>2, <4>3
      <3> QED  BY <3>2, <3>3
    <2> QED  BY <2>3, <2>4, <2>5 DEF ReviewsInv, ReviewsRequestsFit
  <1> QED  BY <1>3, <1>4

LEMMA ReviewsSoftRemovePart ==
    ASSUME ReviewsConstants, ReviewsInv, NEW w \in Procs, ReviewsOf!SoftRemove(w)
    PROVE  ReviewsInv'
  <1> DEFINE i == reWork[w].id
             k == [reWork[w] EXCEPT !.stage = "meal"]
             row == [reReview[i] EXCEPT !.deleted = TRUE]
  <1>1. reWork \in [Procs -> ReviewsOf!Handling] /\ reWork[w] \in ReviewsOf!Handling
        /\ reWork[w].stage = "remove"
        /\ reReview \in [Rows -> ReviewsOf!Row \cup {Nothing}]
        /\ UNCHANGED <<reOrdered, reMealRating, reRating, reCrashes>>
    BY DEF ReviewsOf!SoftRemove, ReviewsOf!At, ReviewsInv, ReviewsOf!TypeOK
  <1>2. i \in Rows /\ reReview[i] \in ReviewsOf!Row
    BY <1>1 DEF ReviewsInv, ReviewsRequestsFit, ReviewsRequestFits
  <1>3. row \in ReviewsOf!Row /\ row.customer = reReview[i].customer
        /\ row.meal = reReview[i].meal /\ row.deleted
    BY <1>2 DEF ReviewsOf!Row
  <1>4. k \in ReviewsOf!Handling /\ k.stage = "meal" /\ k.id = i /\ k.copy = reWork[w].copy
    BY <1>1 DEF ReviewsOf!Handling
  <1>5. reReview' = [reReview EXCEPT ![i] = row] /\ reWork' = [reWork EXCEPT ![w] = k]
    BY <1>1 DEF ReviewsOf!SoftRemove
  <1> HIDE DEF k, row
  <1>6. ReviewsOf!TypeOK'
    BY <1>1, <1>2, <1>3, <1>4, <1>5 DEF ReviewsInv, ReviewsOf!TypeOK
  <1>7. ReviewsOf!OneReviewPerMeal'
    <2>1. ASSUME NEW x \in ReviewsOf!Live(reReview', Meals)
          PROVE  x \in ReviewsOf!Live(reReview, Meals) /\ reReview'[x] = reReview[x]
      BY <1>1, <1>2, <1>3, <1>5 DEF ReviewsOf!Live
    <2> QED  BY <2>1 DEF ReviewsInv, ReviewsOf!OneReviewPerMeal
  <1>8. ASSUME NEW u \in Procs
        PROVE  ReviewsRequestFits(reReview', reWork', u)
    <2>1. ReviewsRequestFits(reReview, reWork, u) /\ ReviewsRequestFits(reReview, reWork, w)
      BY DEF ReviewsInv, ReviewsRequestsFit
    <2>2. CASE u = w
      BY <1>1, <1>2, <1>3, <1>4, <1>5, <2>1, <2>2 DEF ReviewsRequestFits
    <2>3. CASE u # w
      <3>1. reWork'[u] = reWork[u]
        BY <1>1, <1>5, <2>3
      <3>2. CASE reWork[u].id # i
        BY <1>1, <1>2, <1>4, <1>5, <2>1, <2>3, <3>1, <3>2 DEF ReviewsRequestFits
      <3>3. CASE reWork[u].id = i
        <4>1. reWork[u].stage \notin {"order", "insert"}
          BY <2>1, <2>3, <3>3 DEF ReviewsRequestFits
        <4> QED  BY <1>1, <1>2, <1>3, <1>5, <2>1, <3>1, <3>3, <4>1 DEF ReviewsRequestFits
      <3> QED  BY <3>2, <3>3
    <2> QED  BY <2>2, <2>3
  <1> QED  BY <1>6, <1>7, <1>8 DEF ReviewsInv, ReviewsRequestsFit

\* The steps that write no review.
LEMMA ReviewsRatePart ==
    ASSUME ReviewsConstants, ReviewsInv, NEW w \in Procs,
           \/ ReviewsOf!FindValidOrder(w) \/ ReviewsOf!CalculateMealRating(w)
              \/ ReviewsOf!UpdateMealRating(w)
           \/ ReviewsOf!CalculateRating(w) \/ ReviewsOf!UpdateRating(w) \/ ReviewsOf!Crash(w)
    PROVE  ReviewsInv'
  <1>1. reWork \in [Procs -> ReviewsOf!Handling] /\ reWork[w] \in ReviewsOf!Handling
        /\ UNCHANGED <<reOrdered, reReview>>
    BY DEF ReviewsInv, ReviewsOf!TypeOK, ReviewsOf!FindValidOrder,
          ReviewsOf!CalculateMealRating, ReviewsOf!UpdateMealRating, ReviewsOf!CalculateRating,
           ReviewsOf!UpdateRating, ReviewsOf!Crash
  <1>2. reWork[w].stage # "idle" => reWork[w].copy \in ReviewsOf!Row
    BY DEF ReviewsInv, ReviewsRequestsFit, ReviewsRequestFits
  <1>3. reCrashes' \in 0 .. MaxFaults
    BY DEF ReviewsInv, ReviewsOf!TypeOK, ReviewsOf!FindValidOrder,
          ReviewsOf!CalculateMealRating, ReviewsOf!UpdateMealRating, ReviewsOf!CalculateRating,
           ReviewsOf!UpdateRating, ReviewsOf!Crash, ReviewsConstants
  <1>4. reMealRating' \in [Meals -> ReviewsOf!Stats] /\ reRating' \in ReviewsOf!Stats
    BY <1>1, <1>2 DEF ReviewsInv, ReviewsOf!TypeOK, ReviewsOf!FindValidOrder,
          ReviewsOf!CalculateMealRating, ReviewsOf!UpdateMealRating,
           ReviewsOf!CalculateRating, ReviewsOf!UpdateRating, ReviewsOf!Crash,
             ReviewsOf!Handling
  <1>5. reWork' \in [Procs -> ReviewsOf!Handling] /\ ReviewsRequestsFit'
        /\ ReviewsOf!OneReviewPerMeal'
    <2>1. CASE ReviewsOf!End(w)
      BY <1>1, <2>1, ReviewsIdleTyped, ReviewsGoesOn DEF ReviewsOf!End
    <2>2. ASSUME NEW stage \in {"insert", "mealUpdate", "restaurant", "restaurantUpdate"},
                 NEW stats \in ReviewsOf!Stats, reWork[w].stage # "idle",
                 reWork' = [reWork EXCEPT ![w].stage = stage, ![w].stats = stats],
                 reWork[w].stage \in (IF stage = "insert" THEN {"order"}
                                    ELSE {"meal", "mealUpdate", "restaurant"})
          PROVE  reWork' \in [Procs -> ReviewsOf!Handling] /\ ReviewsRequestsFit'
                 /\ ReviewsOf!OneReviewPerMeal'
      <3> DEFINE k == [reWork[w] EXCEPT !.stage = stage, !.stats = stats]
      <3>1. k \in ReviewsOf!Handling /\ k.id = reWork[w].id /\ k.copy = reWork[w].copy
            /\ k.stage = stage
        BY <1>1 DEF ReviewsOf!Handling
      <3>2. reWork' = [reWork EXCEPT ![w] = k]
        BY <1>1, <2>2
      <3> HIDE DEF k
      <3> QED  BY <1>1, <2>2, <3>1, <3>2, ReviewsGoesOn
    <2>3. reWork[w].stats \in ReviewsOf!Stats
          /\ \A stage : [reWork EXCEPT ![w].stage = stage]
                        = [reWork EXCEPT ![w].stage = stage, ![w].stats = reWork[w].stats]
      BY <1>1 DEF ReviewsOf!Handling
    <2>4. \A meals : ReviewsOf!CalculateStats(reReview, meals) \in ReviewsOf!Stats
      BY ReviewsStatsTyped DEF ReviewsInv, ReviewsOf!TypeOK
    <2>5. CASE ReviewsOf!FindValidOrder(w) /\ ~ ReviewsOf!End(w)
      BY <2>2, <2>3, <2>5 DEF ReviewsOf!FindValidOrder, ReviewsOf!At
    <2>6. CASE ReviewsOf!UpdateMealRating(w)
      BY <2>2, <2>3, <2>6 DEF ReviewsOf!UpdateMealRating, ReviewsOf!At
    <2>7. CASE ReviewsOf!CalculateMealRating(w) \/ ReviewsOf!CalculateRating(w)
      BY <2>2, <2>4, <2>7
        DEF ReviewsOf!CalculateMealRating, ReviewsOf!CalculateRating, ReviewsOf!At
    <2> QED  BY <2>1, <2>5, <2>6, <2>7 DEF ReviewsOf!UpdateRating, ReviewsOf!Crash
  <1> QED  BY <1>1, <1>3, <1>4, <1>5 DEF ReviewsInv, ReviewsOf!TypeOK

\* Of a customer's reviews of a meal at most one counts: inserts and saves are refused by the
\* index, a save that lost a race with a removal brings back the row it was for, and no row
\* changes hands.
THEOREM ReviewsOneReview ==
    ASSUME ReviewsConstants
    PROVE  ReviewsOf!Spec => [](ReviewsOf!TypeOK /\ ReviewsOf!OneReviewPerMeal)
  <1>1. ReviewsOf!Init => ReviewsInv
    BY ReviewsIdleTyped DEF ReviewsOf!Init, ReviewsInv, ReviewsOf!TypeOK, ReviewsRequestsFit,
          ReviewsRequestFits, ReviewsOf!OneReviewPerMeal, ReviewsOf!Live, ReviewsOf!None,
           ReviewsOf!Stats, ReviewsConstants
  <1>2. ReviewsInv /\ [ReviewsOf!Next]_(ReviewsOf!vars) => ReviewsInv'
    <2> SUFFICES ASSUME ReviewsInv, [ReviewsOf!Next]_(ReviewsOf!vars)
                 PROVE  ReviewsInv'
      OBVIOUS
    <2>1. CASE UNCHANGED ReviewsOf!vars
      BY <2>1 DEF ReviewsOf!vars, ReviewsInv, ReviewsOf!TypeOK, ReviewsRequestsFit,
            ReviewsOf!OneReviewPerMeal, ReviewsOf!Live
    <2>2. ASSUME NEW c \in Users, NEW m \in Meals, ReviewsOf!OrderMeal(c,
                 m) \/ ReviewsOf!CancelOrder(c, m)
          PROVE  ReviewsInv'
      BY <2>2 DEF ReviewsOf!OrderMeal, ReviewsOf!CancelOrder, ReviewsInv, ReviewsOf!TypeOK,
            ReviewsRequestsFit, ReviewsOf!OneReviewPerMeal, ReviewsOf!Live
    <2>3. ASSUME NEW w \in Procs, ReviewsOf!Ask(w) \/ ReviewsOf!Handle(w) \/ ReviewsOf!Crash(w)
          PROVE  ReviewsInv'
      BY <2>3, ReviewsAskPart, ReviewsWritePart, ReviewsSoftRemovePart, ReviewsRatePart
        DEF ReviewsOf!Handle, ReviewsOf!InsertReview, ReviewsOf!SaveReview
    <2> QED  BY <2>1, <2>2, <2>3 DEF ReviewsOf!Next
  <1>3. ReviewsInv => ReviewsOf!TypeOK /\ ReviewsOf!OneReviewPerMeal
    BY DEF ReviewsInv
  <1> QED  BY <1>1, <1>2, <1>3, PTL DEF ReviewsOf!Spec

----------------------------------------------------------------------------
(* Pickup: one record, whose code stays *)

PickupConstants == MaxAttempts \in Nat /\ Nothing \notin PickupOf!Row

\* A handler works on an order; what it is going to save, or to find again, is the record the
\* order has, with the code it has.
PickupWorkFits(k) ==
    /\ k.stage # "idle" => k.order \in Orders
    /\ k.stage = "insert" => k.copy \in PickupOf!Row
    /\ k.stage \in {"requery", "save"} => piRecord[k.order] # Nothing
    /\ k.stage = "save" => k.copy \in PickupOf!Row /\ k.copy.code = piRecord[k.order].code

PickupInv ==
    /\ PickupOf!TypeOK
    /\ \A w \in Procs : PickupWorkFits(piWork[w])
    /\ PickupOf!CodesShownAreKept

\* A record that is there stays, and its code with it.
PickupCodesStay ==
    \A o \in Orders :
        piRecord[o] # Nothing => piRecord'[o] # Nothing /\ piRecord'[o].code = piRecord[o].code

\* A handler that begins, goes on or ends, while records keep their codes.
LEMMA PickupFits ==
    ASSUME PickupInv, NEW w \in Procs, NEW k \in PickupOf!Handling, PickupCodesStay,
           PickupWorkFits(k)',
           piWork' = [piWork EXCEPT ![w] = k]
    PROVE  piWork' \in [Procs -> PickupOf!Handling]
           /\ \A u \in Procs : PickupWorkFits(piWork[u])'
  <1>1. piWork \in [Procs -> PickupOf!Handling] /\ \A u \in Procs : PickupWorkFits(piWork[u])
    BY DEF PickupInv, PickupOf!TypeOK
  <1>2. piWork'[w] = k /\ \A u \in Procs \ {w} : piWork'[u] = piWork[u]
    BY <1>1
  <1> QED  BY <1>1, <1>2 DEF PickupCodesStay, PickupWorkFits

LEMMA PickupIdleFits == PickupOf!Idle \in PickupOf!Handling /\ PickupOf!Idle.stage = "idle"
  BY DEF PickupOf!Idle, PickupOf!Handling

LEMMA PickupInitially ==
    ASSUME PickupConstants, PickupOf!Init
    PROVE  PickupInv
  BY PickupIdleFits
    DEF PickupOf!Init, PickupInv, PickupOf!TypeOK, PickupWorkFits, PickupOf!CodesShownAreKept

\* Nothing is written and nothing shown.
LEMMA PickupQuietKeeps ==
    ASSUME PickupInv, NEW w \in Procs, NEW k \in PickupOf!Handling, PickupWorkFits(k),
           piWork' = [piWork EXCEPT ![w] = k], UNCHANGED <<piPaid, piRecord, piShown>>
    PROVE  PickupInv'
  <1>1. PickupCodesStay /\ PickupWorkFits(k)'
    BY DEF PickupCodesStay, PickupWorkFits
  <1>2. piWork' \in [Procs -> PickupOf!Handling] /\ \A u \in Procs : PickupWorkFits(piWork[u])'
    BY <1>1, PickupFits
  <1> QED  BY <1>2 DEF PickupInv, PickupOf!TypeOK, PickupOf!CodesShownAreKept

\* The code that is shown is the one in the record.
LEMMA PickupShowKeeps ==
    ASSUME PickupInv, NEW w \in Procs, PickupOf!At(w, "find") \/ PickupOf!At(w, "requery"),
           piRecord[piWork[w].order] # Nothing,
           PickupOf!Show(piWork[w].order, piRecord[piWork[w].order].code), PickupOf!End(w),
             UNCHANGED <<piPaid, piRecord>>
    PROVE  PickupInv'
  <1> DEFINE o == piWork[w].order
  <1>1. o \in Orders
    BY DEF PickupInv, PickupWorkFits, PickupOf!At
  <1>2. piRecord[o] \in PickupOf!Row
    BY <1>1 DEF PickupInv, PickupOf!TypeOK
  <1>3. piRecord[o].code \in Tickets
    BY <1>2 DEF PickupOf!Row
  <1>4. PickupCodesStay /\ PickupWorkFits(PickupOf!Idle)'
    BY PickupIdleFits DEF PickupCodesStay, PickupWorkFits
  <1>5. piWork' \in [Procs -> PickupOf!Handling] /\ \A u \in Procs : PickupWorkFits(piWork[u])'
    BY <1>4, PickupIdleFits, PickupFits DEF PickupOf!End
  <1>6. piShown' \in [Orders -> SUBSET Tickets]
    BY <1>1, <1>3 DEF PickupInv, PickupOf!TypeOK, PickupOf!Show
  <1>7. PickupOf!CodesShownAreKept'
    BY <1>1 DEF PickupInv, PickupOf!TypeOK, PickupOf!CodesShownAreKept, PickupOf!Show
  <1> QED  BY <1>5, <1>6, <1>7 DEF PickupInv, PickupOf!TypeOK

LEMMA PickupInsertKeeps ==
    ASSUME PickupConstants, PickupInv, NEW w \in Procs, PickupOf!InsertPickup(w)
    PROVE  PickupInv'
  <1> DEFINE o == piWork[w].order
  <1>1. o \in Orders /\ piWork[w].copy \in PickupOf!Row /\ piWork[w] \in PickupOf!Handling
    BY DEF PickupInv, PickupOf!TypeOK, PickupWorkFits, PickupOf!InsertPickup, PickupOf!At
  <1>2. CASE piRecord[o] = Nothing
    <2>1. piRecord' = [piRecord EXCEPT ![o] = piWork[w].copy]
          /\ PickupOf!Show(o, piWork[w].copy.code) /\ PickupOf!End(w) /\ piPaid' = piPaid
      BY <1>2 DEF PickupOf!InsertPickup
    <2>2. piRecord'[o] = piWork[w].copy /\ piRecord'[o] # Nothing
          /\ \A p \in Orders \ {o} : piRecord'[p] = piRecord[p]
      BY <1>1, <2>1 DEF PickupInv, PickupOf!TypeOK, PickupConstants
    <2>3. PickupCodesStay /\ PickupWorkFits(PickupOf!Idle)'
      BY <1>2, <2>2, PickupIdleFits DEF PickupCodesStay, PickupWorkFits
    <2>4. piWork' \in [Procs -> PickupOf!Handling]
          /\ \A u \in Procs : PickupWorkFits(piWork[u])'
      BY <2>1, <2>3, PickupIdleFits, PickupFits DEF PickupOf!End
    <2>5. piRecord' \in [Orders -> PickupOf!Row \cup {Nothing}]
      BY <1>1, <2>1 DEF PickupInv, PickupOf!TypeOK
    <2>6. piShown' \in [Orders -> SUBSET Tickets]
          /\ piShown'[o] = piShown[o] \cup {piWork[w].copy.code}
          /\ \A p \in Orders \ {o} : piShown'[p] = piShown[p]
      <3>1. piWork[w].copy.code \in Tickets
        BY <1>1 DEF PickupOf!Row
      <3> QED  BY <1>1, <2>1, <3>1 DEF PickupInv, PickupOf!TypeOK, PickupOf!Show
    <2>7. piShown[o] = {}
      BY <1>1, <1>2 DEF PickupInv, PickupOf!CodesShownAreKept
    <2>8. PickupOf!CodesShownAreKept'
      BY <2>2, <2>6, <2>7 DEF PickupInv, PickupOf!CodesShownAreKept
    <2> QED  BY <2>1, <2>4, <2>5, <2>6, <2>8 DEF PickupInv, PickupOf!TypeOK
  <1>3. CASE piRecord[o] # Nothing
    <2> DEFINE k == [piWork[w] EXCEPT !.stage = "requery"]
    <2>1. piWork' = [piWork EXCEPT ![w] = k] /\ UNCHANGED <<piPaid, piRecord, piShown>>
      BY <1>3 DEF PickupOf!InsertPickup, PickupInv, PickupOf!TypeOK
    <2>2. k \in PickupOf!Handling /\ k.stage = "requery" /\ k.order = o
      BY <1>1 DEF PickupOf!Handling
    <2>3. PickupWorkFits(k)
      BY <1>1, <1>3, <2>2 DEF PickupWorkFits
    <2> HIDE DEF k
    <2> QED  BY <2>1, <2>2, <2>3, PickupQuietKeeps
  <1> QED  BY <1>2, <1>3

\* Of a record only what is no code changes.
LEMMA PickupRecordKeeps ==
    ASSUME PickupInv, NEW o \in Orders, NEW row \in PickupOf!Row, piRecord[o] # Nothing,
           Nothing \notin PickupOf!Row,
           row.code = piRecord[o].code, piRecord' = [piRecord EXCEPT ![o] = row],
           UNCHANGED <<piPaid, piShown>>, piWork' = piWork \/ \E w \in Procs : PickupOf!End(w)
    PROVE  PickupInv'
  <1>1. piRecord' \in [Orders -> PickupOf!Row \cup {Nothing}]
    BY DEF PickupInv, PickupOf!TypeOK
  <1>2. piRecord'[o] = row /\ \A p \in Orders \ {o} : piRecord'[p] = piRecord[p]
    BY DEF PickupInv, PickupOf!TypeOK
  <1>3. PickupCodesStay
    BY <1>2 DEF PickupCodesStay
  <1>4. piWork' \in [Procs -> PickupOf!Handling] /\ \A u \in Procs : PickupWorkFits(piWork[u])'
    <2>1. CASE piWork' = piWork
      BY <1>3, <2>1 DEF PickupInv, PickupOf!TypeOK, PickupCodesStay, PickupWorkFits
    <2>2. ASSUME NEW w \in Procs, PickupOf!End(w)
          PROVE  piWork' \in [Procs -> PickupOf!Handling]
                 /\ \A u \in Procs : PickupWorkFits(piWork[u])'
      <3>1. PickupWorkFits(PickupOf!Idle)'
        BY PickupIdleFits DEF PickupWorkFits
      <3> QED  BY <1>3, <2>2, <3>1, PickupIdleFits, PickupFits DEF PickupOf!End
    <2> QED  BY <2>1, <2>2
  <1>5. PickupOf!CodesShownAreKept'
    BY <1>2 DEF PickupInv, PickupOf!CodesShownAreKept
  <1> QED  BY <1>1, <1>4, <1>5 DEF PickupInv, PickupOf!TypeOK

LEMMA PickupKept ==
    ASSUME PickupConstants, PickupInv, [PickupOf!Next]_(PickupOf!vars)
    PROVE  PickupInv'
  <1>1. ASSUME NEW w \in Procs, NEW o \in Orders, PickupOf!IssuePickup(w, o)
        PROVE  PickupInv'
    <2> DEFINE k == [PickupOf!Idle EXCEPT !.stage = "find", !.order = o]
    <2>1. k \in PickupOf!Handling /\ k.stage = "find" /\ k.order = o
      BY DEF PickupOf!Idle, PickupOf!Handling
    <2>2. PickupWorkFits(k)
      BY <2>1 DEF PickupWorkFits
    <2>3. piWork' = [piWork EXCEPT ![w] = k] /\ UNCHANGED <<piPaid, piRecord, piShown>>
      BY <1>1 DEF PickupOf!IssuePickup
    <2> HIDE DEF k
    <2> QED  BY <2>1, <2>2, <2>3, PickupQuietKeeps
  <1>2. ASSUME NEW w \in Procs, NEW o \in Orders, NEW good \in BOOLEAN,
               PickupOf!VerifyPickupAsOwner(w, o, good)
        PROVE  PickupInv'
    <2> DEFINE copy == IF good THEN [piRecord[o] EXCEPT !.verified = w]
                               ELSE [piRecord[o] EXCEPT !.attempts = @ + 1]
               k == [stage |-> "save", order |-> o, good |-> good, copy |-> copy]
    <2>1. piRecord[o] \in PickupOf!Row /\ piRecord[o] # Nothing
          /\ piRecord[o].attempts < MaxAttempts
      BY <1>2 DEF PickupInv, PickupOf!TypeOK, PickupOf!VerifyPickupAsOwner, PickupOf!Open,
            PickupOf!Active
    <2>2. [piRecord[o] EXCEPT !.verified = w] \in PickupOf!Row
          /\ [piRecord[o] EXCEPT !.verified = w].code = piRecord[o].code
      BY <2>1 DEF PickupOf!Row
    <2>3. [piRecord[o] EXCEPT !.attempts = @ + 1] \in PickupOf!Row
          /\ [piRecord[o] EXCEPT !.attempts = @ + 1].code = piRecord[o].code
      BY <2>1 DEF PickupOf!Row, PickupConstants
    <2>4. copy \in PickupOf!Row /\ copy.code = piRecord[o].code
      BY <2>2, <2>3
    <2>5. piWork' = [piWork EXCEPT ![w] = k] /\ UNCHANGED <<piPaid, piRecord, piShown>>
      BY <1>2 DEF PickupOf!VerifyPickupAsOwner
    <2> HIDE DEF copy
    <2>6. k \in PickupOf!Handling /\ PickupWorkFits(k)
      BY <2>1, <2>4 DEF PickupOf!Handling, PickupWorkFits
    <2> HIDE DEF k
    <2> QED  BY <2>5, <2>6, PickupQuietKeeps
  <1>3. ASSUME NEW w \in Procs, PickupOf!FindActivePickup(w)
        PROVE  PickupInv'
    <2> DEFINE o == piWork[w].order
    <2>1. CASE PickupOf!Active(o)
      BY <1>3, <2>1, PickupShowKeeps DEF PickupOf!FindActivePickup, PickupOf!Active
    <2>2. CASE ~ PickupOf!Active(o)
      <3>1. PICK code \in Tickets :
              piWork' = [piWork EXCEPT ![w].stage = "insert",
                ![w].copy = PickupOf!NewRecord(code)]
        BY <1>3, <2>2 DEF PickupOf!FindActivePickup
      <3> DEFINE k == [piWork[w] EXCEPT !.stage = "insert", !.copy = PickupOf!NewRecord(code)]
      <3>2. piWork[w] \in PickupOf!Handling /\ o \in Orders
        BY <1>3 DEF PickupInv, PickupOf!TypeOK, PickupWorkFits, PickupOf!FindActivePickup,
              PickupOf!At
      <3>3. PickupOf!NewRecord(code) \in PickupOf!Row
        BY DEF PickupOf!NewRecord, PickupOf!Row, PickupConstants
      <3>4. k \in PickupOf!Handling /\ k.stage = "insert" /\ k.order = o
            /\ k.copy \in PickupOf!Row
        BY <3>2, <3>3 DEF PickupOf!Handling
      <3>5. piWork' = [piWork EXCEPT ![w] = k] /\ UNCHANGED <<piPaid, piRecord, piShown>>
        BY <1>3, <2>2, <3>1 DEF PickupOf!FindActivePickup, PickupInv, PickupOf!TypeOK
      <3>6. PickupWorkFits(k)
        BY <3>2, <3>4 DEF PickupWorkFits
      <3> HIDE DEF k
      <3> QED  BY <3>4, <3>5, <3>6, PickupQuietKeeps
    <2> QED  BY <2>1, <2>2
  <1>4. ASSUME NEW w \in Procs, PickupOf!Requery(w)
        PROVE  PickupInv'
    <2>1. piRecord[piWork[w].order] # Nothing
      BY <1>4 DEF PickupInv, PickupWorkFits, PickupOf!Requery, PickupOf!At
    <2> QED  BY <1>4, <2>1, PickupShowKeeps DEF PickupOf!Requery
  <1>5. ASSUME NEW w \in Procs, PickupOf!SavePickup(w)
        PROVE  PickupInv'
    <2> DEFINE o == piWork[w].order
               row == [piWork[w].copy EXCEPT !.expired = piRecord[o].expired]
    <2>1. /\ o \in Orders /\ piWork[w].copy \in PickupOf!Row
          /\ piWork[w].copy.code = piRecord[o].code /\ piRecord[o] # Nothing
      BY <1>5 DEF PickupInv, PickupWorkFits, PickupOf!SavePickup, PickupOf!At
    <2>2. piRecord[o] \in PickupOf!Row
      BY <2>1 DEF PickupInv, PickupOf!TypeOK
    <2>3. row \in PickupOf!Row /\ row.code = piRecord[o].code
      BY <2>1, <2>2 DEF PickupOf!Row
    <2>4. piRecord' = [piRecord EXCEPT ![o] = row] /\ UNCHANGED <<piPaid, piShown>>
          /\ PickupOf!End(w)
      BY <1>5 DEF PickupOf!SavePickup
    <2> HIDE DEF row
    <2> QED  BY <2>1, <2>3, <2>4, PickupRecordKeeps DEF PickupConstants
  <1>6. ASSUME NEW o \in Orders, PickupOf!Expire(o)
        PROVE  PickupInv'
    <2> DEFINE row == [piRecord[o] EXCEPT !.expired = TRUE]
    <2>1. piRecord[o] \in PickupOf!Row /\ piRecord[o] # Nothing
      BY <1>6 DEF PickupInv, PickupOf!TypeOK, PickupOf!Expire
    <2>2. row \in PickupOf!Row /\ row.code = piRecord[o].code
      BY <2>1 DEF PickupOf!Row
    <2>3. piRecord' = [piRecord EXCEPT ![o] = row] /\ UNCHANGED <<piPaid, piShown, piWork>>
      BY <1>6 DEF PickupOf!Expire, PickupInv, PickupOf!TypeOK
    <2> HIDE DEF row
    <2> QED  BY <2>1, <2>2, <2>3, PickupRecordKeeps DEF PickupConstants
  <1>7. ASSUME NEW o \in Orders, PickupOf!PaymentChanges(o)
        PROVE  PickupInv'
    BY <1>7 DEF PickupOf!PaymentChanges, PickupInv, PickupOf!TypeOK, PickupWorkFits,
          PickupOf!CodesShownAreKept
  <1>8. ASSUME NEW w \in Procs, PickupOf!Crash(w)
        PROVE  PickupInv'
    <2>1. PickupWorkFits(PickupOf!Idle)
      BY PickupIdleFits DEF PickupWorkFits
    <2> QED  BY <1>8, <2>1, PickupIdleFits, PickupQuietKeeps DEF PickupOf!Crash, PickupOf!End
  <1>9. CASE UNCHANGED PickupOf!vars
    BY <1>9 DEF PickupOf!vars, PickupInv, PickupOf!TypeOK, PickupWorkFits,
          PickupOf!CodesShownAreKept
  <1> QED  BY <1>1, <1>2, <1>3, <1>4, <1>5, <1>6, <1>7, <1>8, <1>9, PickupInsertKeeps
             DEF PickupOf!Next, PickupOf!Handle

\* However often a code is issued, asked for and verified at once: what the customer was sent is
\* what the record holds, since an index allows one record and no save changes its code.
THEOREM PickupCodesKept ==
    ASSUME PickupConstants
    PROVE  PickupOf!Spec => [](PickupOf!TypeOK /\ PickupOf!CodesShownAreKept)
  <1>1. PickupOf!Init => PickupInv
    BY PickupInitially
  <1>2. PickupInv /\ [PickupOf!Next]_(PickupOf!vars) => PickupInv'
    BY PickupKept
  <1>3. PickupInv => PickupOf!TypeOK /\ PickupOf!CodesShownAreKept
    BY DEF PickupInv
  <1> QED  BY <1>1, <1>2, <1>3, PTL DEF PickupOf!Spec

----------------------------------------------------------------------------
(* Notifications: types *)

NotificationsConstants == MaxRegistered \in Nat /\ MaxFaults \in Nat

LEMMA NotificationsIdleTyped == NotificationsOf!Idle \in NotificationsOf!Handling
  BY DEF NotificationsOf!Idle, NotificationsOf!Handling

LEMMA NotificationsEndKept ==
    ASSUME NotificationsOf!TypeOK, NEW x \in NotificationsOf!Sources, NotificationsOf!End(x)
    PROVE  noWork' \in [NotificationsOf!Sources -> NotificationsOf!Handling]
           /\ noPending' \subseteq Events
  BY NotificationsIdleTyped DEF NotificationsOf!TypeOK, NotificationsOf!End

LEMMA NotificationsContinueKept ==
    ASSUME NotificationsOf!TypeOK, NEW x \in NotificationsOf!Sources,
           NEW tokens \in SUBSET Devices, NotificationsOf!Continue(x, tokens)
    PROVE  noWork' \in [NotificationsOf!Sources -> NotificationsOf!Handling]
           /\ noPending' \subseteq Events
  <1>1. noWork \in [NotificationsOf!Sources -> NotificationsOf!Handling]
        /\ noPending \subseteq Events
    BY DEF NotificationsOf!TypeOK
  <1>3. CASE tokens # {}
    <2>1. [noWork[x] EXCEPT !.stage = "send", !.tokens = tokens] \in NotificationsOf!Handling
      BY <1>1 DEF NotificationsOf!Handling
    <2>2. noWork' = [noWork EXCEPT ![x].stage = "send", ![x].tokens = tokens]
          /\ noPending' = noPending
      BY <1>3 DEF NotificationsOf!Continue
    <2>3. noWork' \in [NotificationsOf!Sources -> NotificationsOf!Handling]
      BY <1>1, <2>1, <2>2
    <2> QED  BY <1>1, <2>2, <2>3
  <1>4. CASE tokens = {} /\ noWork[x].next < Len(noAbout[x])
    <2> DEFINE h == [NotificationsOf!Idle EXCEPT !.stage = "lookup", !.next = @ + 1]
    <2>1. NotificationsOf!Idle.next = 1 /\ NotificationsOf!Idle.tokens = {}
          /\ NotificationsOf!Idle \in NotificationsOf!Handling
      BY NotificationsIdleTyped DEF NotificationsOf!Idle
    <2>2. h \in NotificationsOf!Handling
      <3>1. NotificationsOf!Idle.next + 1 \in 1 .. 2
        BY <2>1
      <3> QED  BY <2>1, <3>1 DEF NotificationsOf!Handling
    <2>3. noWork' = [noWork EXCEPT ![x] = h] /\ noPending' = noPending
      BY <1>4 DEF NotificationsOf!Continue
    <2> HIDE DEF h
    <2> QED  BY <1>1, <2>2, <2>3
  <1>5. CASE tokens = {} /\ ~ (noWork[x].next < Len(noAbout[x]))
    <2>1. NotificationsOf!End(x)
      BY <1>5 DEF NotificationsOf!Continue
    <2> QED  BY <2>1, NotificationsEndKept
  <1> QED  BY <1>3, <1>4, <1>5

LEMMA NotificationsInitially == ASSUME NotificationsConstants,
                                       NotificationsOf!Init PROVE NotificationsOf!TypeOK
  BY NotificationsIdleTyped
    DEF NotificationsConstants, NotificationsOf!Init, NotificationsOf!TypeOK

LEMMA NotificationsKept ==
    ASSUME NotificationsConstants, NotificationsOf!TypeOK,
           [NotificationsOf!Next]_(NotificationsOf!vars)
    PROVE  NotificationsOf!TypeOK'
  <1> USE DEF NotificationsOf!TypeOK
  <1>1. ASSUME NEW d \in Devices, NEW u \in People, NotificationsOf!RegisterDeviceToken(d,
               u)  PROVE NotificationsOf!TypeOK'
    BY <1>1 DEF NotificationsOf!RegisterDeviceToken, NotificationsConstants
  <1>2. ASSUME NEW e \in Events, NEW users \in Seq(SUBSET People),
               NotificationsOf!Publish(e, users)
        PROVE  NotificationsOf!TypeOK'
    BY <1>2 DEF NotificationsOf!Publish, NotificationsOf!Sources
  <1>3. ASSUME NEW e \in Events, NotificationsOf!Deliver(e)  PROVE NotificationsOf!TypeOK'
    <2>1. e \in NotificationsOf!Sources
          /\ [noWork[e] EXCEPT !.stage = "lookup"] \in NotificationsOf!Handling
      BY DEF NotificationsOf!Sources, NotificationsOf!Handling
    <2>2. noWork' \in [NotificationsOf!Sources -> NotificationsOf!Handling]
      BY <1>3, <2>1 DEF NotificationsOf!Deliver
    <2> QED  BY <1>3, <2>2 DEF NotificationsOf!Deliver
  <1>4. ASSUME NEW c \in Campaigns, NEW users \in SUBSET People,
               NotificationsOf!StartCampaign(c, users)
        PROVE  NotificationsOf!TypeOK'
    <2>1. c \in NotificationsOf!Sources
          /\ [noWork[c] EXCEPT !.stage = "lookup"] \in NotificationsOf!Handling
      BY DEF NotificationsOf!Sources, NotificationsOf!Handling
    <2>2. noWork' \in [NotificationsOf!Sources -> NotificationsOf!Handling]
      BY <1>4, <2>1 DEF NotificationsOf!StartCampaign
    <2>3. noAbout' = [noAbout EXCEPT ![c] = <<users>>] /\ <<users>> \in Seq(SUBSET People)
      BY <1>4 DEF NotificationsOf!StartCampaign
    <2> QED  BY <1>4, <2>2, <2>3 DEF NotificationsOf!StartCampaign
  <1>5. ASSUME NEW x \in NotificationsOf!Sources,
               NotificationsOf!LookUp(x)  PROVE NotificationsOf!TypeOK'
    <2>1. NotificationsOf!FindTokens(noAbout[x][noWork[x].next]) \in SUBSET Devices
      BY DEF NotificationsOf!FindTokens
    <2>2. noWork' \in [NotificationsOf!Sources -> NotificationsOf!Handling]
          /\ noPending' \subseteq Events
      BY <1>5, <2>1, NotificationsContinueKept DEF NotificationsOf!LookUp
    <2> QED  BY <1>5, <2>2 DEF NotificationsOf!LookUp
  <1>6. ASSUME NEW x \in NotificationsOf!Sources,
               NotificationsOf!LookUpFails(x)  PROVE NotificationsOf!TypeOK'
    <2>1. noWork' \in [NotificationsOf!Sources -> NotificationsOf!Handling]
          /\ noPending' \subseteq Events
      BY <1>6, NotificationsEndKept DEF NotificationsOf!LookUpFails
    <2> QED  BY <1>6, <2>1 DEF NotificationsOf!LookUpFails
  <1>7. ASSUME NEW x \in NotificationsOf!Sources,
               NotificationsOf!SendPushNotification(x)  PROVE NotificationsOf!TypeOK'
    <2>1. PICK d \in noWork[x].tokens :
            /\ noTold' = [noTold EXCEPT ![x] = @ \cup {d}]
            /\ NotificationsOf!Continue(x, noWork[x].tokens \ {d})
      BY <1>7 DEF NotificationsOf!SendPushNotification
    <2>2. noWork[x].tokens \in SUBSET Devices
      BY DEF NotificationsOf!Handling
    <2>3. noWork' \in [NotificationsOf!Sources -> NotificationsOf!Handling]
          /\ noPending' \subseteq Events
      BY <2>1, <2>2, NotificationsContinueKept
    <2>4. noTold' \in [NotificationsOf!Sources -> SUBSET Devices]
      BY <2>1, <2>2
    <2> QED  BY <1>7, <2>3, <2>4 DEF NotificationsOf!SendPushNotification
  <1>8. ASSUME NEW x \in NotificationsOf!Sources,
               NotificationsOf!SendFails(x)  PROVE NotificationsOf!TypeOK'
    <2>1. PICK d \in noWork[x].tokens :
            /\ noMissed' = [noMissed EXCEPT ![x] = @ \cup {d}]
            /\ NotificationsOf!Continue(x, noWork[x].tokens \ {d})
      BY <1>8 DEF NotificationsOf!SendFails
    <2>2. noWork[x].tokens \in SUBSET Devices
      BY DEF NotificationsOf!Handling
    <2>3. noWork' \in [NotificationsOf!Sources -> NotificationsOf!Handling]
          /\ noPending' \subseteq Events
      BY <2>1, <2>2, NotificationsContinueKept
    <2>4. noMissed' \in [NotificationsOf!Sources -> SUBSET Devices]
      BY <2>1, <2>2
    <2> QED  BY <1>8, <2>3, <2>4 DEF NotificationsOf!SendFails
  <1>9. CASE NotificationsOf!Crash
    BY <1>9, NotificationsIdleTyped DEF NotificationsOf!Crash, NotificationsConstants
  <1>10. CASE UNCHANGED NotificationsOf!vars
    BY <1>10 DEF NotificationsOf!vars
  <1>11. ASSUME NEW e \in Events, NotificationsOf!LookUpThrows(e)
         PROVE  NotificationsOf!TypeOK'
    BY <1>11, NotificationsIdleTyped
      DEF NotificationsOf!LookUpThrows, NotificationsOf!Sources, NotificationsConstants
  <1>12. ASSUME NEW u \in People, NEW v \in People
         PROVE  /\ <<{u}>> \in Seq(SUBSET People)
                /\ <<{u}, {v}>> \in Seq(SUBSET People)
    OBVIOUS
  <1>13. ASSUME NEW e \in Events, NEW u \in People,
                NotificationsOf!Publish(e, <<{u}>>)
                  \/ \E v \in People : NotificationsOf!Publish(e, <<{u}, {v}>>)
         PROVE  NotificationsOf!TypeOK'
    BY <1>2, <1>12, <1>13
  <1> QED  BY <1>1, <1>13, <1>3, <1>4, <1>5, <1>6, <1>7, <1>8, <1>9, <1>10, <1>11
             DEF NotificationsOf!Next, NotificationsOf!Handle

\* Whatever is delivered again, refused or cut short by a crash, a handler looks up the first or
\* the second recipient and sends to devices.
THEOREM NotificationsTyped ==
    ASSUME NotificationsConstants
    PROVE  NotificationsOf!Spec => []NotificationsOf!TypeOK
  <1>1. NotificationsOf!Init => NotificationsOf!TypeOK
    BY NotificationsInitially
  <1>2. NotificationsOf!TypeOK /\ [NotificationsOf!Next]_(NotificationsOf!vars)
          => NotificationsOf!TypeOK'
    BY NotificationsKept
  <1> QED  BY <1>1, <1>2, PTL DEF NotificationsOf!Spec

----------------------------------------------------------------------------
(* Composition: a behaviour of the services is one of each component *)

LEMMA SessionsRuns == ServicesSpec => SessionsOf!Spec
  <1>1. ServicesInit => SessionsOf!Init
    BY DEF ServicesInit
  <1>2. [ServicesNext]_all => [SessionsOf!Next]_(SessionsOf!vars)
    BY DEF ServicesNext, all, sessions, SessionsOf!vars
  <1> QED  BY <1>1, <1>2, PTL DEF ServicesSpec, SessionsOf!Spec

LEMMA AccountsRuns == ServicesSpec => AccountsOf!Spec
  <1>1. ServicesInit => AccountsOf!Init
    BY DEF ServicesInit
  <1>2. [ServicesNext]_all => [AccountsOf!Next]_(AccountsOf!vars)
    BY DEF ServicesNext, all, accounts, AccountsOf!vars
  <1> QED  BY <1>1, <1>2, PTL DEF ServicesSpec, AccountsOf!Spec

LEMMA OnboardingRuns == ServicesSpec => OnboardingOf!Spec
  <1>1. ServicesInit => OnboardingOf!Init
    BY DEF ServicesInit
  <1>2. [ServicesNext]_all => [OnboardingOf!Next]_(OnboardingOf!vars)
    BY DEF ServicesNext, all, onboarding, OnboardingOf!vars
  <1> QED  BY <1>1, <1>2, PTL DEF ServicesSpec, OnboardingOf!Spec

LEMMA StockRuns == ServicesSpec => StockOf!Spec
  <1>1. ServicesInit => StockOf!Init
    BY DEF ServicesInit
  <1>2. [ServicesNext]_all => [StockOf!Next]_(StockOf!vars)
    BY DEF ServicesNext, all, stock, StockOf!vars
  <1> QED  BY <1>1, <1>2, PTL DEF ServicesSpec, StockOf!Spec

LEMMA LoyaltyRuns == ServicesSpec => LoyaltyOf!Spec
  <1>1. ServicesInit => LoyaltyOf!Init
    BY DEF ServicesInit
  <1>2. [ServicesNext]_all => [LoyaltyOf!Next]_(LoyaltyOf!vars)
    BY DEF ServicesNext, all, loyalty, LoyaltyOf!vars
  <1> QED  BY <1>1, <1>2, PTL DEF ServicesSpec, LoyaltyOf!Spec

LEMMA ReviewsRuns == ServicesSpec => ReviewsOf!Spec
  <1>1. ServicesInit => ReviewsOf!Init
    BY DEF ServicesInit
  <1>2. [ServicesNext]_all => [ReviewsOf!Next]_(ReviewsOf!vars)
    BY DEF ServicesNext, all, reviews, ReviewsOf!vars
  <1> QED  BY <1>1, <1>2, PTL DEF ServicesSpec, ReviewsOf!Spec

LEMMA PickupRuns == ServicesSpec => PickupOf!Spec
  <1>1. ServicesInit => PickupOf!Init
    BY DEF ServicesInit
  <1>2. [ServicesNext]_all => [PickupOf!Next]_(PickupOf!vars)
    BY DEF ServicesNext, all, pickup, PickupOf!vars
  <1> QED  BY <1>1, <1>2, PTL DEF ServicesSpec, PickupOf!Spec

LEMMA NotificationsRuns == ServicesSpec => NotificationsOf!Spec
  <1>1. ServicesInit => NotificationsOf!Init
    BY DEF ServicesInit
  <1>2. [ServicesNext]_all => [NotificationsOf!Next]_(NotificationsOf!vars)
    BY DEF ServicesNext, all, notifications, NotificationsOf!vars
  <1> QED  BY <1>1, <1>2, PTL DEF ServicesSpec, NotificationsOf!Spec

LEMMA PayoutsRun == ServicesSpec => Spec
  <1>1. ServicesInit => Init
    BY DEF ServicesInit
  <1>2. [ServicesNext]_all => [Next]_vars
    BY DEF ServicesNext, all, payouts, vars
  <1> QED  BY <1>1, <1>2, PTL DEF ServicesSpec, Spec

\* However many requests present one refresh token at once, over several processes and crashes:
\* at most one each gets a successor.
THEOREM Successors == ServicesSpec => []SuccessorsBounded
  <1>1. SessionsConstants
    BY ServicesAssumption DEF SessionsConstants
  <1> QED  BY <1>1, SessionsRuns, SessionsBound, PTL DEF SuccessorsBounded

\* The token of a client that logout, rotation or a password reset revoked stays revoked: a save
\* that lost a race with them writes no row that a client has got.
THEOREM Revocations == ServicesSpec => RevokedStaysRevoked
  <1>1. SessionsConstants
    BY ServicesAssumption DEF SessionsConstants
  <1> QED  BY <1>1, SessionsRuns, SessionsRevoked, PTL DEF RevokedStaysRevoked

\* An account that counts as verified used up one of its codes or was made by a single sign-on,
\* however registrations, confirmations and crashes interleave.
THEOREM VerifiedAccounts == ServicesSpec => []VerifiedWasProven
  <1>1. AccountsOf!ConstantsTyped
    BY ServicesAssumption DEF AccountsOf!ConstantsTyped
  <1> QED  BY <1>1, AccountsRuns, AccountsOf!Verified, PTL DEF VerifiedWasProven

\* catalog-service offers a restaurant only if an admin was approving it, and its owner has the
\* role only if that was committed, whatever overlaps, is lost or comes late.
THEOREM ApprovedRestaurants == ServicesSpec => []OnlyApprovedGoLive
  <1>1. OnboardingConstants
    BY ServicesAssumption DEF OnboardingConstants
  <1> QED  BY <1>1, OnboardingRuns, OnboardingApproved, PTL DEF OnlyApprovedGoLive

\* The orders of the services, one of each item, are sequences of lines.
LEMMA OrdersAreLines == StockOf!ConstantsTyped /\ StockOf!BoundsTyped
  <1> DEFINE S == {<<i, 1>> : i \in Items}
  <1>1. IsFiniteSet(S) /\ S # {} /\ S \subseteq StockOf!Line
    <2>1. PICK i : i \in Items
      BY ServicesAssumption
    <2>2. <<i, 1>> \in S
      BY <2>1
    <2>5. MaxStock \in Nat /\ MaxEdits \in Nat /\ MaxStock + MaxEdits # 0
      BY ServicesAssumption
    <2>6. 1 \in 0 .. MaxStock + MaxEdits
      BY <2>5
    <2>7. S \subseteq StockOf!Line
      BY <2>6 DEF StockOf!Line, StockOf!Count
    <2>3. [j \in Items |-> <<j, 1>>] \in Surjection(Items, S)
      BY DEF Surjection
    <2>4. IsFiniteSet(Items)
      BY ServicesAssumption
    <2> QED  BY <2>2, <2>3, <2>4, <2>7, FS_Surjection
  <1> HIDE DEF S
  <1>2. PICK n \in Nat : ExistsBijection(1 .. n, S)
    BY <1>1, FS_NatBijection
  <1>3. Cardinality(S) = n
    BY <1>2, FS_CountingElements
  <1>4. \E f \in [1 .. n -> S] : IsInjective(f)
    BY <1>2 DEF ExistsBijection, Bijection, Injection, IsInjective
  <1>5. SetToSeq(S) \in [1 .. n -> S]
    BY <1>3, <1>4 DEF SetToSeq
  <1>6. n # 0
    BY <1>1, <1>3, FS_EmptySet
  <1>7. SetToSeq(S) \in Seq(StockOf!Line) /\ SetToSeq(S) # <<>>
    BY <1>1, <1>2, <1>5, <1>6
  <1>8. \A o \in Orders : Ordered[o] = SetToSeq(S)
    BY DEF Ordered, S
  <1>9. Ordered \in [Orders -> Seq(StockOf!Line)]
    BY <1>7, <1>8 DEF Ordered
  <1>10. StockOf!Line \subseteq Items \X Nat
    BY DEF StockOf!Line, StockOf!Count
  <1>11. Ordered \in [Orders -> Seq(Items \X Nat)]
    BY <1>9, <1>10
  <1>12. StockOf!ConstantsTyped
    BY <1>7, <1>8, <1>11, ServicesAssumption DEF StockOf!ConstantsTyped
  <1>13. StockOf!BoundsTyped
    BY <1>9, ServicesAssumption DEF StockOf!BoundsTyped, StockOf!IsFiniteSet, IsFiniteSet
  <1> QED  BY <1>12, <1>13

\* A delivery of an order that commits has taken from the stock what the order says, no more and
\* no less, whatever owners, the daily task, other orders and failures do meanwhile.
THEOREM Deductions == ServicesSpec => DeductionsExact
  BY OrdersAreLines, StockRuns, StockOf!Exact, PTL DEF DeductionsExact

\* However orders, awards, adjustments and failures interleave, on several balance rows or one:
\* nobody has more points than the ledger says were granted.
THEOREM GrantedPoints == ServicesSpec => []PointsWereGranted
  <1>1. LoyaltyOf!ConstantsTyped
    BY ServicesAssumption DEF LoyaltyOf!ConstantsTyped, LoyaltyOf!IsFiniteSet, IsFiniteSet
  <1> QED  BY <1>1, LoyaltyRuns, LoyaltyOf!Granted, PTL DEF PointsWereGranted

\* Of a customer's reviews of a meal at most one counts, those that a late save brings back
\* included.
THEOREM OneReviewEach == ServicesSpec => []OneReviewPerMeal
  <1>1. ReviewsConstants
    BY ServicesAssumption DEF ReviewsConstants
  <1> QED  BY <1>1, ReviewsRuns, ReviewsOneReview, PTL DEF OneReviewPerMeal

\* However often a code is issued, asked for and verified at once: what the customer was sent is
\* what the record holds.
THEOREM PickupCodes == ServicesSpec => []CodesShownAreKept
  <1>1. PickupConstants
    BY ServicesAssumption DEF PickupConstants
  <1> QED  BY <1>1, PickupRuns, PickupCodesKept, PTL DEF CodesShownAreKept

\* What is paid out on the books was transferred.
THEOREM PaidOut == ServicesSpec => []PaidMeansTransferred
  <1>1. ConstantsTyped
    BY ServicesAssumption DEF ConstantsTyped
  <1> QED  BY <1>1, PayoutsRun, PaidIsTransferred, PTL

\* Every variable of every component keeps its type: counts and bounds are what they are said to
\* be, a handler holds what it needs where it is, and nothing is written that no column takes.
THEOREM AllTyped == ServicesSpec => []ServicesTypeOK
  <1>1. /\ SessionsConstants
        /\ AccountsOf!ConstantsTyped
        /\ OnboardingConstants
        /\ LoyaltyOf!ConstantsTyped
        /\ ReviewsConstants
        /\ PickupConstants
        /\ NotificationsConstants
        /\ ConstantsTyped
    BY ServicesAssumption
       DEF SessionsConstants, AccountsOf!ConstantsTyped, OnboardingConstants,
           LoyaltyOf!ConstantsTyped, LoyaltyOf!IsFiniteSet, IsFiniteSet, ReviewsConstants,
           PickupConstants, NotificationsConstants, ConstantsTyped
  <1>2. ServicesSpec => [](SessionsOf!TypeOK)
    BY <1>1, SessionsRuns, SessionsBound, PTL
  <1>3. ServicesSpec => [](AccountsOf!TypeOK)
    BY <1>1, AccountsRuns, AccountsOf!WellTyped, PTL
  <1>4. ServicesSpec => [](OnboardingOf!TypeOK)
    BY <1>1, OnboardingRuns, OnboardingApproved, PTL
  <1>5. ServicesSpec => [](StockOf!TypeOK)
    BY OrdersAreLines, StockRuns, StockOf!CountsBounded, PTL
  <1>6. ServicesSpec => [](LoyaltyOf!TypeOK)
    BY <1>1, LoyaltyRuns, LoyaltyOf!Granted, PTL
  <1>7. ServicesSpec => [](ReviewsOf!TypeOK)
    BY <1>1, ReviewsRuns, ReviewsOneReview, PTL
  <1>8. ServicesSpec => [](PickupOf!TypeOK)
    BY <1>1, PickupRuns, PickupCodesKept, PTL
  <1>9. ServicesSpec => [](NotificationsOf!TypeOK)
    BY <1>1, NotificationsRuns, NotificationsTyped, PTL
  <1>10. ServicesSpec => []TypeOK
    <2>1. Init => Inv
      BY <1>1, InvInitially
    <2>2. Inv /\ [Next]_vars => Inv'
      BY <1>1, InvKept
    <2>3. Inv => TypeOK
      BY DEF Inv
    <2> QED  BY <2>1, <2>2, <2>3, PayoutsRun, PTL DEF Spec
  <1> QED
    BY <1>2, <1>3, <1>4, <1>5, <1>6, <1>7, <1>8, <1>9, <1>10, PTL DEF ServicesTypeOK

==============================================================================
