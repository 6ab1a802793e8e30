----------------------------- MODULE MCProgress ------------------------------
(***************************************************************************)
(* What must happen in the end, in every component that promises          *)
(* something of the kind.  As in MCServices one component is in focus; its *)
(* fairness is its own, restated for its actions as steps of this module. *)
(***************************************************************************)
EXTENDS Naturals, SequencesExt, TLC

CONSTANTS
    Focus,      \* the components to check
    Procs,      \* requests, workers and cron ticks at once
    Children, Restaurants, Batches, Creators, Callbacks,
    Users, Emails, Codes,
    Items, Orders, MaxStock,
    Rows, Promos, Limit, MaxGrants,
    Devices, Events, Campaigns,
    Nothing

VARIABLES
    focus,
    poChild, poAgg, poBatch, poJobs, poRequests, poTransfer, poAsked, poFaults, poWork,
    acAccount, acRoles, acCode, acLast, acProven, acRequest, acCrashes,
    stStock, stOffered, stPar, stDue, stTask, stEdits, stFaults,
    loBalance, loGranted, loPromo, loRule, loCached, loWork, loEdits,
    noHolder, noAbout, noPending, noTold, noMissed, noWork, noRegistered, noCrashes

\* Every order is for one of each item.
Ordered == [o \in Orders |-> SetToSeq({<<i, 1>> : i \in Items})]

\* All children are owed to one restaurant.
Owed == [c \in Children |-> CHOOSE r \in Restaurants : TRUE]

PayoutsOf == INSTANCE Payouts
    WITH Processors <- Procs, RestaurantOf <- Owed, MayForce <- FALSE, MaxRequests <- 1,
         MaxFaults <- 1, child <- poChild, agg <- poAgg, batch <- poBatch, jobs <- poJobs,
         requests <- poRequests, transfer <- poTransfer, asked <- poAsked,
         faults <- poFaults, work <- poWork

AccountsOf == INSTANCE Accounts
    WITH Requests <- Procs, MaxCrashes <- 1, Roles <- {"customer"}, account <- acAccount,
         roles <- acRoles, code <- acCode, last <- acLast, proven <- acProven,
         request <- acRequest, crashes <- acCrashes

StockOf == INSTANCE Stock
    WITH Ordered <- Ordered, Tasks <- Procs, MaxEdits <- 1, MaxFaults <- 1,
         stock <- stStock, offered <- stOffered, par <- stPar, due <- stDue,
         task <- stTask, edits <- stEdits, faults <- stFaults

LoyaltyOf == INSTANCE Loyalty
    WITH Customers <- Users, Workers <- Procs, MaxEdits <- 1, balance <- loBalance,
         granted <- loGranted, promo <- loPromo, rule <- loRule, cached <- loCached,
         work <- loWork, edits <- loEdits

NotificationsOf == INSTANCE Notifications
    WITH MaxRegistered <- 2, MaxCrashes <- 1, holder <- noHolder, about <- noAbout,
         pending <- noPending, told <- noTold, missed <- noMissed, work <- noWork,
         registered <- noRegistered, crashes <- noCrashes

payouts == <<poChild, poAgg, poBatch, poJobs, poRequests, poTransfer, poAsked, poFaults,
                poWork>>

accounts == <<acAccount, acRoles, acCode, acLast, acProven, acRequest, acCrashes>>

stock == <<stStock, stOffered, stPar, stDue, stTask, stEdits, stFaults>>

loyalty == <<loBalance, loGranted, loPromo, loRule, loCached, loWork, loEdits>>

notifications == <<noHolder, noAbout, noPending, noTold, noMissed, noWork, noRegistered,
                      noCrashes>>

all == <<focus, payouts, accounts, stock, loyalty, notifications>>

Init ==
    /\ focus \in Focus
    /\ PayoutsOf!Init
    /\ AccountsOf!Init
    /\ StockOf!Init
    /\ LoyaltyOf!Init
    /\ NotificationsOf!Init
    /\ focus # "stock" => \A i \in Items : stStock[i] = 0
    /\ focus # "loyalty" => \A k \in DOMAIN loRule : ~ loRule[k]

Next ==
    \/ /\ focus = "payouts"
       /\ PayoutsOf!Next
       /\ UNCHANGED <<focus, accounts, stock, loyalty, notifications>>
    \/ /\ focus = "accounts"
       /\ AccountsOf!Next
       /\ UNCHANGED <<focus, payouts, stock, loyalty, notifications>>
    \/ /\ focus = "stock"
       /\ StockOf!Next
       /\ UNCHANGED <<focus, payouts, accounts, loyalty, notifications>>
    \/ /\ focus = "loyalty"
       /\ LoyaltyOf!Next
       /\ UNCHANGED <<focus, payouts, accounts, stock, notifications>>
    \/ /\ focus = "notifications"
       /\ NotificationsOf!Next
       /\ UNCHANGED <<focus, payouts, accounts, stock, loyalty>>

Spec == Init /\ [][Next]_all

\* A step of the component in focus.
PayoutsStep(A) ==
    focus = "payouts" /\ A /\ UNCHANGED <<focus, accounts, stock, loyalty, notifications>>

AccountsStep(A) ==
    focus = "accounts" /\ A /\ UNCHANGED <<focus, payouts, stock, loyalty, notifications>>

StockStep(A) ==
    focus = "stock" /\ A /\ UNCHANGED <<focus, payouts, accounts, loyalty, notifications>>

LoyaltyStep(A) ==
    focus = "loyalty" /\ A /\ UNCHANGED <<focus, payouts, accounts, stock, notifications>>

NotificationsStep(A) ==
    focus = "notifications" /\ A /\ UNCHANGED <<focus, payouts, accounts, stock, loyalty>>

\* The fairness of every component, of its actions as steps of this module.  The focus never
\* changes: fairness of a disjunction over the components is fairness of the disjunct of the
\* one in focus, and keeps TLC's formula small.
Fairness ==
    /\ \A p \in Procs :
          /\ SF_all(\/ AccountsStep(AccountsOf!MailInTime(p))
                    \/ StockStep(StockOf!Work(p))
                    \/ LoyaltyStep(LoyaltyOf!Handle(p)))
          /\ WF_all(\/ AccountsStep(AccountsOf!Handle(p))
                    \/ PayoutsStep(PayoutsOf!ProcessSteps(p)))
    /\ \A u \in Users, e \in Events :  \* of each there is one here, see the cfg
          /\ SF_all(\/ \E q \in Procs :
                          AccountsStep(AccountsOf!ResendOtp(q, u, "registration"))
                    \/ \E t \in Procs : StockStep(StockOf!SyncAvailability(t))
                    \/ NotificationsStep(NotificationsOf!Deliver(e)))
          /\ SF_all(\E q \in Procs, c \in Codes : AccountsStep(AccountsOf!VerifyOtp(q, u, c)))
    /\ \A c \in Codes : WF_all(AccountsStep(AccountsOf!ExpireCode(c)))
    /\ \A w \in Callbacks : WF_all(PayoutsStep(PayoutsOf!WebhookSteps(w)))
    /\ \A b \in Batches : WF_all(\E w \in Procs : PayoutsStep(PayoutsOf!TakeJob(w, b)))
    /\ \A k \in LoyaltyOf!RuleType : WF_all(LoyaltyStep(LoyaltyOf!ExpireRule(k)))
    /\ \A x \in NotificationsOf!Sources : WF_all(NotificationsStep(NotificationsOf!Handle(x)))

FairSpec == Spec /\ Fairness

----------------------------------------------------------------------------
(* Properties: those of the components *)

\* A batch a dead worker left as processing is finished when it is asked for again.
AskingAgainSettles == PayoutsOf!AskingAgainSettles

\* Whoever registered gets verified.
EventuallyVerified == AccountsOf!EventuallyVerified

\* An item that is sold out is taken off the menu.
SoldOutIsHidden == StockOf!SoldOutIsHidden

\* A rule that is switched off for good is forgotten by the cache.
SwitchedOffIsForgotten == LoyaltyOf!SwitchedOffIsForgotten

\* The push of an event is sent to every device, crashes notwithstanding.
EveryDeviceIsTold == NotificationsOf!EveryDeviceIsTold

==============================================================================
