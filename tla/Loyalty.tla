------------------------------ MODULE Loyalty ------------------------------
(***************************************************************************)
(* Reward points, the rules they follow, and promo codes.                  *)
(*                                                                         *)
(* createOrder redeems points and applies a promo code, markAsComplete     *)
(* awards points, an admin adjusts them: each in one transaction, which    *)
(* reads a balance or a promo without a lock, computes, and saves what it  *)
(* computed; the UPDATE locks the row until the end.  A customer may have  *)
(* several balance rows, since nothing in the table forbids it, and a      *)
(* query takes any of them.  The active rule of each type is cached.       *)
(***************************************************************************)
EXTENDS Naturals, FiniteSets, Functions

CONSTANTS
    Customers,
    Rows,       \* balance rows a customer can have
    Promos,
    Workers,    \* requests in flight at once
    Limit,      \* max_uses of a promo; one with null or 0, which has no bound, is left out
    MaxGrants,  \* bound on the points a customer is granted
    MaxEdits,   \* bound on the changes to rules and promos
    Nothing

VARIABLES
    balance,    \* balance[c][r]: the points in a row of c, or Nothing
    granted,    \* granted[c]: the sum of the lines of c in the ledger that are positive
    promo,      \* promo[p]: is it active, and its uses_count; or Nothing
    rule,       \* rule[k]: is there an active rule of type k?
    cached,     \* cached[k]: is one in the cache?
    work,       \* work[w]: the request w handles
    edits

vars == <<balance, granted, promo, rule, cached, work, edits>>

----------------------------------------------------------------------------
(* Types *)

RuleType == {"EARNING", "REDEMPTION"}
Points == 0 .. MaxGrants
PromoRow == [active : BOOLEAN, uses : 0 .. Limit]

\* row, total: the balance row that was read (Nothing if there is none) and what it will be.
\* copy: the promo that was read, with its changes.  wrote: what the transaction has written.
Handling == [stage : {"idle", "rule", "fill", "balance", "save", "promo", "use", "commit", "edit"},
             kind : {"none", "order", "award", "adjust", "edit"},
             customer : Customers \cup {Nothing}, promo : Promos \cup {Nothing},
             points : 0 .. 1, row : Rows \cup {Nothing}, total : Points, copy : PromoRow,
             wrote : SUBSET {"balance", "promo"}]

TypeOK ==
    /\ balance \in [Customers -> [Rows -> Points \cup {Nothing}]]
    /\ granted \in [Customers -> Points]
    /\ promo \in [Promos -> PromoRow \cup {Nothing}]
    /\ rule \in [RuleType -> BOOLEAN]
    /\ cached \in [RuleType -> BOOLEAN]
    /\ work \in [Workers -> Handling]
    /\ edits \in 0 .. MaxEdits

----------------------------------------------------------------------------
(* Operators *)

NewPromo == [active |-> TRUE, uses |-> 0]

Idle == [stage |-> "idle", kind |-> "none", customer |-> Nothing, promo |-> Nothing,
         points |-> 0, row |-> Nothing, total |-> 0, copy |-> NewPromo, wrote |-> {}]

At(w, stage) == work[w].stage = stage
End(w) == work' = [work EXCEPT ![w] = Idle]

Begin(w, kind, stage, c, p, points) ==
    /\ At(w, "idle")
    /\ work' = [work EXCEPT ![w] = [Idle EXCEPT !.kind = kind, !.stage = stage,
                  !.customer = c, !.promo = p, !.points = points]]
    /\ UNCHANGED <<balance, granted, promo, rule, cached, edits>>

RowsOf(c) == {r \in Rows : balance[c][r] # Nothing}

\* The points c may still be granted under the bound.
Room(c) == granted[c] + Cardinality({w \in Workers : work[w].customer = c
                                                     /\ work[w].kind # "order"}) < MaxGrants

\* Another transaction has written the row, or the promo, and not ended yet.
BalanceLocked(w) ==
    \E v \in Workers \ {w} :
        /\ "balance" \in work[v].wrote /\ work[w].row # Nothing
        /\ work[v].customer = work[w].customer
        /\ work[v].row = work[w].row

PromoLocked(p, w) == \E v \in Workers \ {w} : "promo" \in work[v].wrote /\ work[v].promo = p

RuleFor(w) == IF work[w].kind = "award" THEN "EARNING" ELSE "REDEMPTION"

\* What follows the points: the promo code, if the order has one.
AfterPoints(w) == IF work[w].promo = Nothing THEN "commit" ELSE "promo"

----------------------------------------------------------------------------
Init ==
    /\ balance = [c \in Customers |-> [r \in Rows |-> Nothing]]
    /\ granted = [c \in Customers |-> 0]
    /\ promo = [p \in Promos |-> Nothing]
    /\ rule \in [RuleType -> BOOLEAN]
    /\ cached = [k \in RuleType |-> FALSE]
    /\ work = [w \in Workers |-> Idle]
    /\ edits = 0

----------------------------------------------------------------------------
(* Points *)

\* createOrder, paying with points or not, with a promo code or without.
CreateOrder(w, c, p, points) ==
    /\ points > 0 \/ p # Nothing
    /\ Begin(w, "order", IF points > 0 THEN "balance" ELSE "promo", c, p, points)

\* addPointsForCompletedOrder, and adminAdjustPoints with a positive number.
AwardPoints(w, c) == Room(c) /\ Begin(w, "award", "rule", c, Nothing, 1)

AdminAdjustPoints(w, c) == Room(c) /\ Begin(w, "adjust", "balance", c, Nothing, 1)

GetActiveRule_AnyRule(w) ==
    LET k == RuleFor(w)
        next == IF work[w].kind = "award" THEN "balance" ELSE "save" IN
    /\ At(w, "rule")
    /\ IF cached[k] THEN work' = [work EXCEPT ![w].stage = next]
                    ELSE work' = [work EXCEPT ![w].stage = "fill"]
    /\ UNCHANGED <<balance, granted, promo, rule, cached, edits>>

\* getActiveRule: the cache answers, or the table.  Without a rule an order is refused, and a
\* completed order earns nothing.
GetActiveRule(w) ==
    LET k == RuleFor(w)
        next == IF work[w].kind = "award" THEN "balance" ELSE "save" IN
    /\ At(w, "rule")
    /\ CASE cached[k] -> work' = [work EXCEPT ![w].stage = next]
         [] ~ cached[k] /\ rule[k] -> work' = [work EXCEPT ![w].stage = "fill"]
         [] OTHER -> End(w)
    /\ UNCHANGED <<balance, granted, promo, rule, cached, edits>>

\* The rule that was read goes into the cache, however old it is by now.
FillCache(w) ==
    /\ At(w, "fill")
    /\ cached' = [cached EXCEPT ![RuleFor(w)] = TRUE]
    /\ work' = [work EXCEPT ![w].stage = IF work[w].kind = "award"
                                         THEN "balance" ELSE "save"]
    /\ UNCHANGED <<balance, granted, promo, rule, edits>>

\* findOne of a balance: any row of the customer.
ReadBalance(w) ==
    LET c == work[w].customer IN
    /\ At(w, "balance")
    /\ IF work[w].kind = "order"
       THEN IF RowsOf(c) = {}
            THEN End(w)
            ELSE \E r \in RowsOf(c) :
                   IF balance[c][r] < work[w].points
                   THEN End(w)
                   ELSE work' = [work EXCEPT ![w].stage = "rule", ![w].row = r,
                                   ![w].total = balance[c][r] - work[w].points]
       ELSE IF RowsOf(c) = {}
            THEN work' = [work EXCEPT ![w].stage = "save", ![w].total = work[w].points]
            ELSE \E r \in RowsOf(c) :
                   work' = [work EXCEPT ![w].stage = "save", ![w].row = r,
                              ![w].total = balance[c][r] + work[w].points]
    /\ UNCHANGED <<balance, granted, promo, rule, cached, edits>>

SaveBalance_OwnTransaction(w) ==
    LET c == work[w].customer IN
    /\ At(w, "save")
    /\ ~ BalanceLocked(w)
    /\ \E r \in IF work[w].row = Nothing THEN Rows \ RowsOf(c) ELSE {work[w].row} :
         balance' = [balance EXCEPT ![c][r] = work[w].total]
    /\ work' = [work EXCEPT ![w].stage = AfterPoints(w)]
    /\ UNCHANGED <<granted, promo, rule, cached, edits>>

\* The balance is saved as it was computed: an UPDATE, or an INSERT if there was no row.
SaveBalance(w) ==
    /\ At(w, "save")
    /\ ~ BalanceLocked(w)
    /\ work' = [work EXCEPT ![w].stage = AfterPoints(w), ![w].wrote = @ \cup {"balance"}]
    /\ UNCHANGED <<balance, granted, promo, rule, cached, edits>>

----------------------------------------------------------------------------
(* Promo codes *)

\* applyPromo: what the code must be to be applied.
ReadPromo(w) ==
    LET row == promo[work[w].promo] IN
    /\ At(w, "promo")
    /\ IF row = Nothing
       THEN End(w)
       ELSE IF ~ row.active \/ row.uses >= Limit
            THEN End(w)
            ELSE work' = [work EXCEPT ![w].stage = "use",
                            ![w].copy = [row EXCEPT !.uses = @ + 1]]
    /\ UNCHANGED <<balance, granted, promo, rule, cached, edits>>

UsePromo(w) ==
    /\ At(w, "use")
    /\ ~ PromoLocked(work[w].promo, w)
    /\ work' = [work EXCEPT ![w].stage = "commit", ![w].wrote = @ \cup {"promo"}]
    /\ UNCHANGED <<balance, granted, promo, rule, cached, edits>>

\* The order, or the completed order, and the lines of the ledger are written with the rest.
\* A promo that was deleted meanwhile is inserted again by the save.
Commit(w) ==
    LET c == work[w].customer
        p == work[w].promo IN
    /\ At(w, "commit")
    /\ IF "balance" \in work[w].wrote
       THEN \E r \in IF work[w].row = Nothing THEN Rows \ RowsOf(c) ELSE {work[w].row} :
              balance' = [balance EXCEPT ![c][r] = work[w].total]
       ELSE UNCHANGED balance
    /\ IF "promo" \in work[w].wrote
       THEN promo' = [promo EXCEPT ![p] = work[w].copy]
       ELSE UNCHANGED promo
    /\ IF work[w].kind = "order"
       THEN UNCHANGED granted
       ELSE granted' = [granted EXCEPT ![c] = @ + work[w].points]
    /\ End(w)
    /\ UNCHANGED <<rule, cached, edits>>

\* A later statement fails, or the process dies: the transaction rolls back.
Abort(w) ==
    /\ ~ At(w, "idle")
    /\ End(w)
    /\ UNCHANGED <<balance, granted, promo, rule, cached, edits>>

----------------------------------------------------------------------------
(* Administration *)

Edit == edits < MaxEdits /\ edits' = edits + 1

CreatePromo(p) ==
    /\ Edit
    /\ promo[p] = Nothing
    /\ promo' = [promo EXCEPT ![p] = NewPromo]
    /\ UNCHANGED <<balance, granted, rule, cached, work>>

\* The whole promo is loaded, and saved as a whole below.
UpdatePromo(w, p, active) ==
    /\ Edit
    /\ At(w, "idle")
    /\ promo[p] # Nothing
    /\ work' = [work EXCEPT ![w] = [Idle EXCEPT !.kind = "edit", !.stage = "edit",
                  !.promo = p, !.copy = [promo[p] EXCEPT !.active = active]]]
    /\ UNCHANGED <<balance, granted, promo, rule, cached>>

SavePromo(w) ==
    /\ At(w, "edit")
    /\ ~ PromoLocked(work[w].promo, w)
    /\ promo' = [promo EXCEPT ![work[w].promo] = work[w].copy]
    /\ End(w)
    /\ UNCHANGED <<balance, granted, rule, cached, edits>>

DeletePromos(ps) ==
    /\ Edit
    /\ \A p \in ps, w \in Workers : ~ PromoLocked(p, w)
    /\ promo' = [p \in Promos |-> IF p \in ps THEN Nothing ELSE promo[p]]
    /\ UNCHANGED <<balance, granted, rule, cached, work>>

\* createRule and updateRule leave the cache as it is.
SaveRule(k, active) ==
    /\ Edit
    /\ rule' = [rule EXCEPT ![k] = active]
    /\ UNCHANGED <<balance, granted, promo, cached, work>>

DeleteRule(k) ==
    /\ Edit
    /\ rule' = [rule EXCEPT ![k] = FALSE]
    /\ cached' = [cached EXCEPT ![k] = FALSE]
    /\ UNCHANGED <<balance, granted, promo, work>>

\* Its time to live is over, whoever has read it since: 300, said to be five minutes, which
\* the library takes for milliseconds.
ExpireRule(k) ==
    /\ cached[k]
    /\ cached' = [cached EXCEPT ![k] = FALSE]
    /\ UNCHANGED <<balance, granted, promo, rule, work, edits>>

----------------------------------------------------------------------------
(* Specification *)

Ask(w) ==
    \/ \E c \in Customers, p \in Promos \cup {Nothing}, n \in 0 .. 1 : CreateOrder(w, c, p, n)
    \/ \E c \in Customers : AwardPoints(w, c) \/ AdminAdjustPoints(w, c)
    \/ \E p \in Promos, active \in BOOLEAN : UpdatePromo(w, p, active)

Handle(w) ==
    \/ GetActiveRule(w)
    \/ FillCache(w)
    \/ ReadBalance(w)
    \/ SaveBalance(w)
    \/ ReadPromo(w)
    \/ UsePromo(w)
    \/ Commit(w)
    \/ SavePromo(w)

Administer ==
    \/ \E p \in Promos : CreatePromo(p)
    \/ \E ps \in SUBSET Promos \ {{}} : DeletePromos(ps)
    \/ \E k \in RuleType : DeleteRule(k) \/ \E active \in BOOLEAN : SaveRule(k, active)

Next ==
    \/ \E w \in Workers : Ask(w) \/ Handle(w) \/ Abort(w)
    \/ Administer
    \/ \E k \in RuleType : ExpireRule(k)

Spec == Init /\ [][Next]_vars

\* Requests that were begun go on, and what is cached expires.  Nobody has to
\* ask for anything.
FairSpec ==
    /\ Spec
    /\ \A w \in Workers : SF_vars(Handle(w))
    /\ \A k \in RuleType : WF_vars(ExpireRule(k))

----------------------------------------------------------------------------
(* Properties *)

\* However orders, awards, adjustments and failures interleave: a customer never has more
\* points than the ledger says were granted.
PointsWereGranted ==
    \A c \in Customers :
        SumFunctionOnSet(balance[c], RowsOf(c)) <= granted[c]

\* A rule that is switched off or deleted for good is forgotten by the cache, though an order
\* that had read it before may put it there after the deletion has emptied the cache.
SwitchedOffIsForgotten == \A k \in RuleType : <>[](rule[k] \/ ~ cached[k])

=============================================================================
