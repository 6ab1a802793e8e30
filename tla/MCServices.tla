----------------------------- MODULE MCServices ------------------------------
(***************************************************************************)
(* The small components of the services for TLC, in one state space.  They *)
(* share no state: whatever they do side by side, each of them goes        *)
(* through the steps it could take alone.  So one is in focus, from the    *)
(* start, and only it takes steps.  Payouts is extended, the others are    *)
(* instances.                                                              *)
(***************************************************************************)
EXTENDS Payouts, SequencesExt, TLC

CONSTANTS
    Focus,      \* the components to check
    Procs,      \* what runs at once: requests, workers, consumers, cron ticks
    Users,      \* for components in which users have nothing in common
    People,     \* for components in which they do
    Emails, Codes, MaxTokens,
    Items, Orders, MaxStock, MaxEdits,
    Rows, Promos, Limit, MaxGrants, MaxChanges,
    Meals, Stars, Tickets, MaxAttempts,
    Devices, Events, Campaigns, MaxRegistered

VARIABLES
    focus,
    seUser, seToken, seParent, seGiven, seRequest, seCrashes,
    acAccount, acRoles, acCode, acLast, acProven, acRequest, acCrashes,
    onRestaurant, onIsOwner, onReplica, onEvents, onDecided, onApproved, onRequest,
    onFaults,
    stStock, stOffered, stPar, stDue, stTask, stEdits, stFaults,
    loBalance, loGranted, loPromo, loRule, loCached, loWork, loEdits,
    reOrdered, reReview, reMealRating, reRating, reWork, reCrashes,
    piPaid, piRecord, piShown, piWork,
    noHolder, noAbout, noPending, noTold, noMissed, noWork, noRegistered, noCrashes

\* Every order is for one of each item.
Ordered == [o \in Orders |-> SetToSeq({<<i, 1>> : i \in Items})]

\* All children are owed to one restaurant.
Owed == [c \in Children |-> CHOOSE r \in Restaurants : TRUE]

Symmetry == Permutations(Procs)

SessionsOf == INSTANCE Sessions
    WITH Requests <- Procs, MaxCrashes <- MaxFaults, user <- seUser, token <- seToken,
         parent <- seParent, given <- seGiven, request <- seRequest, crashes <- seCrashes

AccountsOf == INSTANCE AccountsProofs
    WITH Users <- People, Requests <- Procs, MaxCrashes <- MaxFaults,
         Roles <- {"customer"}, account <- acAccount, roles <- acRoles, code <- acCode,
         last <- acLast, proven <- acProven, request <- acRequest, crashes <- acCrashes

OnboardingOf == INSTANCE Onboarding
    WITH Requests <- Procs, restaurant <- onRestaurant, isOwner <- onIsOwner,
         replica <- onReplica, events <- onEvents, decided <- onDecided,
         approved <- onApproved, request <- onRequest, faults <- onFaults

StockOf == INSTANCE StockProofs
    WITH Ordered <- Ordered, Tasks <- Procs, stock <- stStock, offered <- stOffered,
         par <- stPar, due <- stDue, task <- stTask, edits <- stEdits, faults <- stFaults

LoyaltyOf == INSTANCE LoyaltyProofs
    WITH Customers <- Users, Workers <- Procs, MaxEdits <- MaxChanges,
         balance <- loBalance, granted <- loGranted, promo <- loPromo, rule <- loRule,
         cached <- loCached, work <- loWork, edits <- loEdits

ReviewsOf == INSTANCE Reviews
    WITH Customers <- Users, Reviews <- Rows, Workers <- Procs, MaxCrashes <- MaxFaults,
         ordered <- reOrdered, review <- reReview, mealRating <- reMealRating,
         rating <- reRating, work <- reWork, crashes <- reCrashes

PickupOf == INSTANCE Pickup
    WITH Codes <- Tickets, Workers <- Procs, paid <- piPaid, record <- piRecord,
         shown <- piShown, work <- piWork

NotificationsOf == INSTANCE Notifications
    WITH Users <- People, MaxCrashes <- MaxFaults, holder <- noHolder, about <- noAbout,
         pending <- noPending, told <- noTold, missed <- noMissed, work <- noWork,
         registered <- noRegistered, crashes <- noCrashes

\* Sets are finite, bounds are numbers, and what is absent is not there.
ASSUME ServicesAssumption ==
    /\ IsFiniteSet(Procs)
    /\ IsFiniteSet(Rows)
    /\ IsFiniteSet(Items)
    /\ {MaxTokens, MaxStock, MaxEdits, MaxGrants, MaxChanges, MaxAttempts, Limit, MaxFaults,
        MaxRequests, MaxRegistered} \subseteq Nat
    /\ Stars \subseteq Nat
    /\ Items # {}
    /\ MaxStock + MaxEdits # 0
    /\ RestaurantOf \in [Children -> Restaurants]
    /\ Nothing \notin Nat
    /\ Nothing \notin Users
    /\ Nothing \notin Rows
    /\ Nothing \notin Promos
    /\ Nothing \notin LoyaltyOf!PromoRow
    /\ Nothing \notin ReviewsOf!Row
    /\ Nothing \notin PickupOf!Row

sessions == <<seUser, seToken, seParent, seGiven, seRequest, seCrashes>>

accounts == <<acAccount, acRoles, acCode, acLast, acProven, acRequest, acCrashes>>

onboarding == <<onRestaurant, onIsOwner, onReplica, onEvents, onDecided, onApproved,
                   onRequest, onFaults>>

stock == <<stStock, stOffered, stPar, stDue, stTask, stEdits, stFaults>>

loyalty == <<loBalance, loGranted, loPromo, loRule, loCached, loWork, loEdits>>

reviews == <<reOrdered, reReview, reMealRating, reRating, reWork, reCrashes>>

pickup == <<piPaid, piRecord, piShown, piWork>>

notifications == <<noHolder, noAbout, noPending, noTold, noMissed, noWork, noRegistered,
                      noCrashes>>

payouts == vars

all == <<focus, sessions, accounts, onboarding, stock, loyalty, reviews, pickup,
         notifications, payouts>>

ServicesInit ==
    /\ focus \in Focus
    /\ SessionsOf!Init
    /\ AccountsOf!Init
    /\ OnboardingOf!Init
    /\ StockOf!Init
    /\ LoyaltyOf!Init
    /\ ReviewsOf!Init
    /\ PickupOf!Init
    /\ NotificationsOf!Init
    /\ Init
    /\ focus # "stock" => \A i \in Items : stStock[i] = 0
    /\ focus # "loyalty" => \A k \in DOMAIN loRule : ~ loRule[k]

ServicesNext ==
    \/ /\ focus = "sessions"
       /\ SessionsOf!Next
       /\ UNCHANGED <<focus, accounts, onboarding, stock, loyalty, reviews, pickup,
                     notifications, payouts>>
    \/ /\ focus = "accounts"
       /\ AccountsOf!Next
       /\ UNCHANGED <<focus, sessions, onboarding, stock, loyalty, reviews, pickup,
                     notifications, payouts>>
    \/ /\ focus = "onboarding"
       /\ OnboardingOf!Next
       /\ UNCHANGED <<focus, sessions, accounts, stock, loyalty, reviews, pickup,
                     notifications, payouts>>
    \/ /\ focus = "stock"
       /\ StockOf!Next
       /\ UNCHANGED <<focus, sessions, accounts, onboarding, loyalty, reviews, pickup,
                     notifications, payouts>>
    \/ /\ focus = "loyalty"
       /\ LoyaltyOf!Next
       /\ UNCHANGED <<focus, sessions, accounts, onboarding, stock, reviews, pickup,
                     notifications, payouts>>
    \/ /\ focus = "reviews"
       /\ ReviewsOf!Next
       /\ UNCHANGED <<focus, sessions, accounts, onboarding, stock, loyalty, pickup,
                     notifications, payouts>>
    \/ /\ focus = "pickup"
       /\ PickupOf!Next
       /\ UNCHANGED <<focus, sessions, accounts, onboarding, stock, loyalty, reviews,
                     notifications, payouts>>
    \/ /\ focus = "notifications"
       /\ NotificationsOf!Next
       /\ UNCHANGED <<focus, sessions, accounts, onboarding, stock, loyalty, reviews,
                     pickup, payouts>>
    \/ /\ focus = "payouts"
       /\ Next
       /\ UNCHANGED <<focus, sessions, accounts, onboarding, stock, loyalty, reviews,
                     pickup, notifications>>

ServicesSpec == ServicesInit /\ [][ServicesNext]_all

----------------------------------------------------------------------------
(* Properties: those of the components.  Payouts itself states SentByOneWorker,
   PaidMeansTransferred, PaidOutOnce and PaysByContract. *)

\* Every variable of every component has its type.
ServicesTypeOK ==
    /\ SessionsOf!TypeOK
    /\ AccountsOf!TypeOK
    /\ OnboardingOf!TypeOK
    /\ StockOf!TypeOK
    /\ LoyaltyOf!TypeOK
    /\ ReviewsOf!TypeOK
    /\ PickupOf!TypeOK
    /\ NotificationsOf!TypeOK
    /\ TypeOK

\* Requests that present one refresh token at once: at most one each gets a successor.
SuccessorsBounded == SessionsOf!SuccessorsBounded

\* The token of a client that logout, rotation or a password reset revoked stays revoked.  One
\* that no client has got yet when a reset comes is not among them: its second save un-revokes it.
RevokedStaysRevoked == SessionsOf!RevokedStaysRevoked

\* A verified account used up one of its codes, or was made by a single sign-on, whose token is
\* taken as genuine.
VerifiedWasProven == AccountsOf!VerifiedWasProven

\* Customers see only restaurants that were approved.
OnlyApprovedGoLive == OnboardingOf!OnlyApprovedGoLive

\* What one delivery of a completed order commits is its items, all of them and no more.  Another
\* delivery deducts them again, and an unlocked save that follows may overwrite the count.
DeductionsExact == StockOf!DeductionsExact

\* Nobody has more points than were granted.
PointsWereGranted == LoyaltyOf!PointsWereGranted

\* A customer has at most one review of a meal.
OneReviewPerMeal == ReviewsOf!OneReviewPerMeal

\* The code a customer was sent is the code the restaurant compares with.
CodesShownAreKept == PickupOf!CodesShownAreKept

==============================================================================
