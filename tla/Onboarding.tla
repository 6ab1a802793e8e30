----------------------------- MODULE Onboarding -----------------------------
(***************************************************************************)
(* A restaurant registers, its owner edits it and uploads documents, and   *)
(* an admin approves or rejects it, in auth-service; catalog-service keeps *)
(* a replica, fed by events that carry the whole restaurant.               *)
(*                                                                         *)
(* TypeORM saves a loaded row by reading it again and writing the columns  *)
(* that differ from what was loaded and changed: two statements, and no    *)
(* lock before the second.  Events have no key, so they may come in any    *)
(* order; they are sent before the transaction they tell of has committed. *)
(* Of a restaurant only its status and whether it is active are kept.      *)
(***************************************************************************)
EXTENDS Naturals

CONSTANTS
    Restaurants,
    Requests,    \* requests in flight at once
    MaxFaults,   \* bound on crashes
    Nothing

VARIABLES
    restaurant,  \* restaurant[r]: its row
    isOwner,     \* isOwner[r]: has its owner the role restaurant_owner?
    replica,     \* replica[r]: is it active in catalog-service?
    events,      \* events on their way
    decided,     \* the restaurants an admin's request was approving
    approved,    \* the restaurants whose approval was committed
    request,     \* request[q]: the handler q runs
    faults

vars == <<restaurant, isOwner, replica, events, decided, approved, request, faults>>

----------------------------------------------------------------------------
(* Types *)

RestaurantStatus == {"none", "PENDING", "UNDER_REVIEW", "APPROVED", "REJECTED"}

Row == [status : RestaurantStatus, active : BOOLEAN]

Event == [restaurant : Restaurants, active : BOOLEAN]

Column == {"status", "active"}

\* copy: the loaded row with the changes of the request.  columns: what it will write.
\* demotes: does an admin reject a restaurant that was loaded as approved?
Handling == [stage : {"idle", "details", "compare", "update", "commit", "emit"},
             kind : {"register", "document", "profile", "status"},
             restaurant : Restaurants \cup {Nothing}, copy : Row,
             demotes : BOOLEAN, columns : SUBSET Column]

TypeOK ==
    /\ restaurant \in [Restaurants -> Row]
    /\ isOwner \in [Restaurants -> BOOLEAN]
    /\ replica \in [Restaurants -> BOOLEAN]
    /\ events \subseteq Event
    /\ decided \subseteq Restaurants
    /\ approved \subseteq Restaurants
    /\ request \in [Requests -> Handling]
    /\ faults \in 0 .. MaxFaults

----------------------------------------------------------------------------
(* Operators *)

NoRow == [status |-> "none", active |-> FALSE]

Idle == [stage |-> "idle", kind |-> "register", restaurant |-> Nothing, copy |-> NoRow,
         demotes |-> FALSE, columns |-> {}]

At(q, stage) == request[q].stage = stage
Answer(q) == request' = [request EXCEPT ![q] = Idle]

\* A transaction has updated the row and not committed yet.
Locked(r) == \E q \in Requests : At(q, "commit") /\ request[q].restaurant = r

\* The columns of a copy that are not what the table holds.
Differing(copy, row) == {c \in Column : copy[c] # row[c]}
Updated(row, copy, columns) == [c \in Column |-> IF c \in columns THEN copy[c] ELSE row[c]]

Load(q, r, kind, copy) ==
    /\ At(q, "idle")
    /\ restaurant[r].status # "none"
    /\ request' = [request EXCEPT ![q] = [Idle EXCEPT !.stage = "compare", !.kind = kind,
                     !.restaurant = r, !.copy = copy,
                     !.demotes = copy.status = "REJECTED" /\ restaurant[r].status = "APPROVED"]]
    /\ UNCHANGED <<restaurant, isOwner, replica, events, approved, faults>>

Announced_Live(r, row) == [restaurant |-> r, active |-> TRUE]

\* What an event says of a restaurant.
Announced(r, row) == [restaurant |-> r, active |-> row.active]

----------------------------------------------------------------------------
Init ==
    /\ restaurant = [r \in Restaurants |-> NoRow]
    /\ isOwner = [r \in Restaurants |-> FALSE]
    /\ replica = [r \in Restaurants |-> FALSE]
    /\ events = {}
    /\ decided = {}
    /\ approved = {}
    /\ request = [q \in Requests |-> Idle]
    /\ faults = 0

\* The row first, then its address and hours, each on its own.
Register(q, r) ==
    /\ At(q, "idle")
    /\ restaurant[r].status = "none"
    /\ restaurant' = [restaurant EXCEPT ![r].status = "PENDING"]
    /\ request' = [request EXCEPT ![q] = [Idle EXCEPT !.stage = "details", !.restaurant = r]]
    /\ UNCHANGED <<isOwner, replica, events, decided, approved, faults>>

RegisterDetails(q) ==
    /\ At(q, "details")
    /\ Answer(q)
    /\ UNCHANGED <<restaurant, isOwner, replica, events, decided, approved, faults>>

\* A document was stored: the restaurant is to be reviewed again.  It stays active.
AddDocument(q, r) ==
    /\ Load(q, r, "document", [restaurant[r] EXCEPT !.status = "UNDER_REVIEW"])
    /\ UNCHANGED decided

UpdateProfile(q, r) == Load(q, r, "profile", restaurant[r]) /\ UNCHANGED decided

\* updateAddress, updateHours: rows of their own, so that nothing is written back.
UpdateDetails(q, r) ==
    /\ At(q, "idle")
    /\ restaurant[r].status # "none"
    /\ request' = [request EXCEPT ![q] = [Idle EXCEPT !.stage = "emit", !.restaurant = r]]
    /\ UNCHANGED <<restaurant, isOwner, replica, events, decided, approved, faults>>

\* An admin sets another status.
UpdateStatus(q, r, status) ==
    /\ restaurant[r].status # status
    /\ Load(q, r, "status", [restaurant[r] EXCEPT !.status = status,
                                                  !.active = (status = "APPROVED")])
    /\ decided' = IF status = "APPROVED" THEN decided \cup {r} ELSE decided

\* The SELECT of a save.
CompareRow(q) ==
    /\ At(q, "compare")
    /\ request' = [request EXCEPT ![q].stage = "update",
                     ![q].columns = Differing(request[q].copy, restaurant[request[q].restaurant])]
    /\ UNCHANGED <<restaurant, isOwner, replica, events, decided, approved, faults>>

\* The UPDATE of an owner's request, committed at once.
SaveRow(q) ==
    LET r == request[q].restaurant IN
    /\ At(q, "update") /\ request[q].kind # "status"
    /\ ~ Locked(r)
    /\ restaurant' = [restaurant EXCEPT ![r] = Updated(@, request[q].copy, request[q].columns)]
    /\ IF request[q].kind = "profile"
       THEN request' = [request EXCEPT ![q].stage = "emit"]
       ELSE Answer(q)
    /\ UNCHANGED <<isOwner, replica, events, decided, approved, faults>>

\* emitRestaurantUpdate: what the tables say by now.  Without Kafka the event is
\* dropped, and so it is if the consumer is subscribed to the other of its two topics only.
EmitRestaurantUpdate(q) ==
    LET r == request[q].restaurant IN
    /\ At(q, "emit")
    /\ events' \in {events, events \cup {Announced(r, restaurant[r])}}
    /\ Answer(q)
    /\ UNCHANGED <<restaurant, isOwner, replica, decided, approved, faults>>

\* The UPDATE of an admin's request; its event goes out, then a mail, and then it commits.
EmitApproval(q) ==
    LET r == request[q].restaurant
        copy == request[q].copy IN
    /\ At(q, "update") /\ request[q].kind = "status"
    /\ ~ Locked(r)
    /\ IF copy.status = "APPROVED"
       THEN events' \in {events, events \cup {Announced(r, copy)}}
       ELSE events' = events  \* restaurant.rejected, which nobody listens to
    /\ request' = [request EXCEPT ![q].stage = "commit"]
    /\ UNCHANGED <<restaurant, isOwner, replica, decided, approved, faults>>

CommitStatus_RoleKept(q) ==
    LET r == request[q].restaurant
        status == request[q].copy.status IN
    /\ At(q, "commit")
    /\ restaurant' = [restaurant EXCEPT ![r] = Updated(@, request[q].copy, request[q].columns)]
    /\ isOwner' = [isOwner EXCEPT ![r] = TRUE]
    /\ approved' = IF status = "APPROVED" THEN approved \cup {r} ELSE approved
    /\ Answer(q)
    /\ UNCHANGED <<replica, events, decided, faults>>

\* The owner's role is part of the transaction.  It is taken only from APPROVED to REJECTED.
CommitStatus(q) ==
    LET r == request[q].restaurant
        status == request[q].copy.status IN
    /\ At(q, "commit")
    /\ restaurant' = [restaurant EXCEPT ![r] = Updated(@, request[q].copy, request[q].columns)]
    /\ isOwner' = [isOwner EXCEPT ![r] =
                     CASE status = "APPROVED" -> TRUE
                       [] request[q].demotes   -> FALSE
                       [] OTHER -> @]
    /\ approved' = IF status = "APPROVED" THEN approved \cup {r} ELSE approved
    /\ Answer(q)
    /\ UNCHANGED <<replica, events, decided, faults>>

\* catalog-service: restaurant.approved and restaurant.profile.updated alike, in any order
\* and perhaps again.
HandleRestaurantUpdate(e) ==
    /\ replica' = [replica EXCEPT ![e.restaurant] = e.active]
    /\ events' \in {events, events \ {e}}
    /\ UNCHANGED <<restaurant, isOwner, decided, approved, request, faults>>

\* A request dies, or a statement fails: nothing uncommitted stays, what was sent was sent.
Crash(q) ==
    /\ ~ At(q, "idle")
    /\ faults < MaxFaults
    /\ faults' = faults + 1
    /\ Answer(q)
    /\ UNCHANGED <<restaurant, isOwner, replica, events, decided, approved>>

----------------------------------------------------------------------------
(* Specification *)

Ask(q, r) ==
    \/ Register(q, r)
    \/ AddDocument(q, r)
    \/ UpdateProfile(q, r)
    \/ UpdateDetails(q, r)
    \/ \E status \in {"APPROVED", "REJECTED"} : UpdateStatus(q, r, status)

Handle(q) ==
    \/ RegisterDetails(q)
    \/ CompareRow(q)
    \/ SaveRow(q)
    \/ EmitRestaurantUpdate(q)
    \/ EmitApproval(q)
    \/ CommitStatus(q)

Next ==
    \/ \E q \in Requests, r \in Restaurants : Ask(q, r)
    \/ \E q \in Requests : Handle(q) \/ Crash(q)
    \/ \E e \in events : HandleRestaurantUpdate(e)

Spec == Init /\ [][Next]_vars

----------------------------------------------------------------------------
(* Properties *)

\* Whatever is saved over what, dies, or comes late or twice: catalog-service offers a
\* restaurant only if an admin was approving it, and its owner has the role only if that was
\* committed.
OnlyApprovedGoLive ==
    \A r \in Restaurants :
        /\ replica[r] => r \in decided
        /\ isOwner[r] => r \in approved

=============================================================================
