------------------------------ MODULE Reviews ------------------------------
(***************************************************************************)
(* Reviews of meals, and the ratings cached on menu items and restaurants. *)
(*                                                                         *)
(* A request writes the review, then computes the rating of the meal and   *)
(* saves it, then that of the restaurant: six statements and no            *)
(* transaction.  Deleting is soft.  An index keeps a customer from having  *)
(* two reviews of a meal that are not deleted.                             *)
(***************************************************************************)
EXTENDS Naturals, FiniteSets, Functions

CONSTANTS
    Customers,
    Meals,       \* the menu items of one restaurant
    Reviews,     \* ids of reviews
    Stars,       \* the ratings that can be given
    Workers,     \* requests in flight at once
    MaxCrashes,
    Nothing

VARIABLES
    ordered,     \* the <<customer, meal>> pairs of valid orders
    review,      \* review[v]: a row, or Nothing
    mealRating,  \* mealRating[m]: the statistics cached on a menu item
    rating,      \* those cached on the restaurant
    work,        \* work[w]: the request w handles
    crashes

vars == <<ordered, review, mealRating, rating, work, crashes>>

----------------------------------------------------------------------------
(* Types *)

Row == [customer : Customers, meal : Meals, stars : Stars, deleted : BOOLEAN]

\* Enough to know the average: how many reviews, and the sum of their stars.
Stats == [total : Nat, sum : Nat]

\* copy: the review that was read, with its changes.  stats: the statistics that were computed.
Handling == [stage : {"idle", "order", "insert", "save", "remove", "meal", "mealUpdate",
                      "restaurant", "restaurantUpdate"},
             id : Reviews \cup {Nothing}, copy : Row \cup {Nothing}, stats : Stats]

TypeOK ==
    /\ ordered \subseteq Customers \X Meals
    /\ review \in [Reviews -> Row \cup {Nothing}]
    /\ mealRating \in [Meals -> Stats]
    /\ rating \in Stats
    /\ work \in [Workers -> Handling]
    /\ crashes \in 0 .. MaxCrashes

----------------------------------------------------------------------------
(* Operators *)

None == [total |-> 0, sum |-> 0]

Idle == [stage |-> "idle", id |-> Nothing, copy |-> Nothing, stats |-> None]

At(w, stage) == work[w].stage = stage
End(w) == work' = [work EXCEPT ![w] = Idle]

\* The reviews of meals that queries find: rows that are not deleted.
Live(rows, meals) ==
    {v \in Reviews : rows[v] # Nothing /\ ~ rows[v].deleted /\ rows[v].meal \in meals}

\* calculateStats
CalculateStats(rows, meals) ==
    LET found == Live(rows, meals) IN
    [total |-> Cardinality(found),
     sum   |-> SumFunctionOnSet([v \in found |-> rows[v].stars], found)]

Unique_NoIndex(v, row) == TRUE

\* The unique index: nobody else has written a review of the customer and the meal.
Unique(v, row) ==
    \A u \in Live(review, {row.meal}) \ {v} : review[u].customer # row.customer

----------------------------------------------------------------------------
Init ==
    /\ ordered = {}
    /\ review = [v \in Reviews |-> Nothing]
    /\ mealRating = [m \in Meals |-> None]
    /\ rating = None
    /\ work = [w \in Workers |-> Idle]
    /\ crashes = 0

\* An order reaches AWAITING_PAYMENT, or leaves the statuses that count (external to reviews).
OrderMeal(c, m) ==
    /\ <<c, m>> \notin ordered
    /\ ordered' = ordered \cup {<<c, m>>}
    /\ UNCHANGED <<review, mealRating, rating, work, crashes>>

CancelOrder(c, m) ==
    /\ <<c, m>> \in ordered
    /\ ordered' = ordered \ {<<c, m>>}
    /\ UNCHANGED <<review, mealRating, rating, work, crashes>>

\* No review of the customer's is found ...
Create(w, v, c, m, n) ==
    /\ At(w, "idle")
    /\ review[v] = Nothing
    /\ \A u \in Workers : work[u].id # v
    /\ \A u \in Live(review, {m}) : review[u].customer # c
    /\ work' = [work EXCEPT ![w] = [Idle EXCEPT !.stage = "order", !.id = v,
                  !.copy = [customer |-> c, meal |-> m, stars |-> n, deleted |-> FALSE]]]
    /\ UNCHANGED <<ordered, review, mealRating, rating, crashes>>

\* ... and an order of the meal is.
FindValidOrder(w) ==
    /\ At(w, "order")
    /\ IF <<work[w].copy.customer, work[w].copy.meal>> \in ordered
       THEN work' = [work EXCEPT ![w].stage = "insert"]
       ELSE End(w)
    /\ UNCHANGED <<ordered, review, mealRating, rating, crashes>>

\* The review is written, unless the index forbids it.  The save of an update writes what was
\* loaded before, "not deleted" included.
Write(w, stage) ==
    /\ At(w, stage)
    /\ IF Unique(work[w].id, work[w].copy)
       THEN /\ review' = [review EXCEPT ![work[w].id] = work[w].copy]
            /\ work' = [work EXCEPT ![w].stage = "meal"]
       ELSE End(w) /\ UNCHANGED review
    /\ UNCHANGED <<ordered, mealRating, rating, crashes>>

InsertReview(w) == Write(w, "insert")

\* Only the customer who wrote a review may change or delete it.
Update(w, v, n) ==
    /\ At(w, "idle")
    /\ v \in Live(review, Meals)
    /\ work' = [work EXCEPT ![w] = [Idle EXCEPT !.stage = "save", !.id = v,
                  !.copy = [review[v] EXCEPT !.stars = n]]]
    /\ UNCHANGED <<ordered, review, mealRating, rating, crashes>>

SaveReview(w) == Write(w, "save")

Delete(w, v) ==
    /\ At(w, "idle")
    /\ v \in Live(review, Meals)
    /\ work' = [work EXCEPT ![w] = [Idle EXCEPT !.stage = "remove", !.id = v, !.copy = review[v]]]
    /\ UNCHANGED <<ordered, review, mealRating, rating, crashes>>

SoftRemove(w) ==
    /\ At(w, "remove")
    /\ review' = [review EXCEPT ![work[w].id].deleted = TRUE]
    /\ work' = [work EXCEPT ![w].stage = "meal"]
    /\ UNCHANGED <<ordered, mealRating, rating, crashes>>

\* updateMenuItemRating: the SELECT and the UPDATE.
CalculateMealRating(w) ==
    /\ At(w, "meal")
    /\ work' = [work EXCEPT ![w].stage = "mealUpdate",
                            ![w].stats = CalculateStats(review, {work[w].copy.meal})]
    /\ UNCHANGED <<ordered, review, mealRating, rating, crashes>>

UpdateMealRating(w) ==
    /\ At(w, "mealUpdate")
    /\ mealRating' = [mealRating EXCEPT ![work[w].copy.meal] = work[w].stats]
    /\ work' = [work EXCEPT ![w].stage = "restaurant"]
    /\ UNCHANGED <<ordered, review, rating, crashes>>

\* updateRestaurantRatingForMenuItem
CalculateRating(w) ==
    /\ At(w, "restaurant")
    /\ work' = [work EXCEPT ![w].stage = "restaurantUpdate",
                            ![w].stats = CalculateStats(review, Meals)]
    /\ UNCHANGED <<ordered, review, mealRating, rating, crashes>>

UpdateRating(w) ==
    /\ At(w, "restaurantUpdate")
    /\ rating' = work[w].stats
    /\ End(w)
    /\ UNCHANGED <<ordered, review, mealRating, crashes>>

\* The process dies, or a statement fails: nothing is undone.
Crash(w) ==
    /\ ~ At(w, "idle")
    /\ crashes < MaxCrashes
    /\ crashes' = crashes + 1
    /\ End(w)
    /\ UNCHANGED <<ordered, review, mealRating, rating>>

----------------------------------------------------------------------------
(* Specification *)

Ask(w) ==
    \/ \E v \in Reviews, c \in Customers, m \in Meals, n \in Stars : Create(w, v, c, m, n)
    \/ \E v \in Reviews, n \in Stars : Update(w, v, n)
    \/ \E v \in Reviews : Delete(w, v)

Handle(w) ==
    \/ FindValidOrder(w)
    \/ InsertReview(w)
    \/ SaveReview(w)
    \/ SoftRemove(w)
    \/ CalculateMealRating(w)
    \/ UpdateMealRating(w)
    \/ CalculateRating(w)
    \/ UpdateRating(w)

Next ==
    \/ \E c \in Customers, m \in Meals : OrderMeal(c, m) \/ CancelOrder(c, m)
    \/ \E w \in Workers : Ask(w) \/ Handle(w) \/ Crash(w)

Spec == Init /\ [][Next]_vars

----------------------------------------------------------------------------
(* Properties *)

\* However requests to write, change and delete interleave: of a customer's reviews of a meal
\* at most one counts, and a deleted one that a late update brings back is no exception.
OneReviewPerMeal ==
    \A u, v \in Live(review, Meals) :
        review[u].customer = review[v].customer /\ review[u].meal = review[v].meal => u = v

=============================================================================
