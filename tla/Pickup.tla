------------------------------- MODULE Pickup -------------------------------
(***************************************************************************)
(* The code with which a customer collects an order: issued once the order *)
(* is paid, shown again on request, and verified by the restaurant, which  *)
(* has a limited number of attempts.  A token is a signed form of the      *)
(* code.  An index allows one record per order.                            *)
(*                                                                         *)
(* No transaction: a record is read, checked, changed in memory and saved, *)
(* and the save writes back all columns in which the copy differs.         *)
(***************************************************************************)
EXTENDS Naturals

CONSTANTS
    Orders,
    Codes,        \* the codes that may be drawn
    Workers,      \* requests and consumers in flight at once
    MaxAttempts,
    Nothing

VARIABLES
    paid,         \* the orders whose payment_status is PAID
    record,       \* record[o]: the row of order_pickups, or Nothing
    shown,        \* shown[o]: the codes that were sent to the customer
    work          \* work[w]: the handler w runs

vars == <<paid, record, shown, work>>

----------------------------------------------------------------------------
(* Types *)

\* verified: the request that verified it.
Row == [code : Codes, expired : BOOLEAN, verified : Workers \cup {Nothing}, attempts : 0 .. MaxAttempts]

\* copy: the record that was read or drawn, with its changes.  good: is it a match?
Handling == [stage : {"idle", "find", "insert", "requery", "save"},
             order : Orders \cup {Nothing}, copy : Row \cup {Nothing}, good : BOOLEAN]

TypeOK ==
    /\ paid \subseteq Orders
    /\ record \in [Orders -> Row \cup {Nothing}]
    /\ shown \in [Orders -> SUBSET Codes]
    /\ work \in [Workers -> Handling]

----------------------------------------------------------------------------
(* Operators *)

Idle == [stage |-> "idle", order |-> Nothing, copy |-> Nothing, good |-> FALSE]

At(w, stage) == work[w].stage = stage
End(w) == work' = [work EXCEPT ![w] = Idle]
Show(o, code) == shown' = [shown EXCEPT ![o] = @ \cup {code}]

NewRecord(code) == [code |-> code, expired |-> FALSE, verified |-> Nothing, attempts |-> 0]

\* A record that can still be used.
Active(o) == IF record[o] = Nothing THEN FALSE ELSE ~ record[o].expired /\ record[o].verified = Nothing

\* May a verification of o be tried?
Open(o) == Active(o) /\ record[o].attempts < MaxAttempts

----------------------------------------------------------------------------
Init ==
    /\ paid = {}
    /\ record = [o \in Orders |-> Nothing]
    /\ shown = [o \in Orders |-> {}]
    /\ work = [w \in Workers |-> Idle]

\* The order's payment is recorded, or a later event takes it back (module Orders).
PaymentChanges(o) ==
    /\ paid' \in {paid \cup {o}, paid \ {o}}
    /\ paid' # paid
    /\ UNCHANGED <<record, shown, work>>

----------------------------------------------------------------------------
(* Issuing: after a payment, or when the customer asks *)

IssuePickup(w, o) ==
    /\ At(w, "idle")
    /\ o \in paid
    /\ work' = [work EXCEPT ![w] = [Idle EXCEPT !.stage = "find", !.order = o]]
    /\ UNCHANGED <<paid, record, shown>>

\* An active record is used again; otherwise a code is drawn.
FindActivePickup(w) ==
    LET o == work[w].order IN
    /\ At(w, "find")
    /\ IF Active(o)
       THEN Show(o, record[o].code) /\ End(w)
       ELSE /\ \E code \in Codes :
                 work' = [work EXCEPT ![w].stage = "insert", ![w].copy = NewRecord(code)]
            /\ UNCHANGED shown
    /\ UNCHANGED <<paid, record>>

InsertPickup_NoIndex(w) ==
    LET o == work[w].order IN
    /\ At(w, "insert")
    /\ record' = [record EXCEPT ![o] = work[w].copy]
    /\ Show(o, work[w].copy.code)
    /\ End(w)
    /\ UNCHANGED paid

\* A second record of an order violates the index.
InsertPickup(w) ==
    LET o == work[w].order IN
    /\ At(w, "insert")
    /\ IF record[o] = Nothing
       THEN /\ record' = [record EXCEPT ![o] = work[w].copy]
            /\ Show(o, work[w].copy.code)
            /\ End(w)
       ELSE /\ work' = [work EXCEPT ![w].stage = "requery"]
            /\ UNCHANGED <<record, shown>>
    /\ UNCHANGED paid

\* What is there is returned: written by somebody faster, or expired, or verified long ago.
Requery(w) ==
    /\ At(w, "requery")
    /\ Show(work[w].order, record[work[w].order].code)
    /\ End(w)
    /\ UNCHANGED <<paid, record>>

----------------------------------------------------------------------------
(* Verifying *)

\* A token is good if it is one of this order's and has not expired: it is not compared with
\* the record.  Without a code and a token nothing is saved.
VerifyPickupAsOwner(w, o, good) ==
    /\ At(w, "idle")
    /\ Open(o)
    /\ good => shown[o] # {}
    /\ work' = [work EXCEPT ![w] = [stage |-> "save", order |-> o, good |-> good,
                  copy |-> IF good THEN [record[o] EXCEPT !.verified = w]
                           ELSE [record[o] EXCEPT !.attempts = @ + 1]]]
    /\ UNCHANGED <<paid, record, shown>>

\* The save does not know that the record has expired meanwhile: nobody writes that.
SavePickup(w) ==
    LET o == work[w].order IN
    /\ At(w, "save")
    /\ record' = [record EXCEPT ![o] = [work[w].copy EXCEPT !.expired = record[o].expired]]
    /\ End(w)
    /\ UNCHANGED <<paid, shown>>

\* Half an hour has passed.
Expire(o) ==
    /\ record[o] # Nothing
    /\ record' = [record EXCEPT ![o].expired = TRUE]
    /\ UNCHANGED <<paid, shown, work>>

\* The process dies, or a statement fails.
Crash(w) ==
    /\ ~ At(w, "idle")
    /\ End(w)
    /\ UNCHANGED <<paid, record, shown>>

----------------------------------------------------------------------------
(* Specification *)

Handle(w) ==
    \/ FindActivePickup(w)
    \/ InsertPickup(w)
    \/ Requery(w)
    \/ SavePickup(w)

Next ==
    \/ \E w \in Workers, o \in Orders :
         IssuePickup(w, o) \/ \E good \in BOOLEAN : VerifyPickupAsOwner(w, o, good)
    \/ \E w \in Workers : Handle(w) \/ Crash(w)
    \/ \E o \in Orders : PaymentChanges(o) \/ Expire(o)

Spec == Init /\ [][Next]_vars

----------------------------------------------------------------------------
(* Properties *)

\* However often a code is issued and asked for, at once or after it has expired: every code a
\* customer was sent is the one the restaurant compares with.
CodesShownAreKept ==
    \A o \in Orders : shown[o] # {} => record[o] # Nothing /\ shown[o] = {record[o].code}

=============================================================================
