--------------------------- MODULE PaymentContract ---------------------------
(***************************************************************************)
(* What payment-service promises the rest of the system about the money    *)
(* for an order, whatever it does inside: one checkout link per order, no  *)
(* link shared by two, no word of a success and no credit to a restaurant  *)
(* without a charge that was made through that order's link.               *)
(***************************************************************************)
CONSTANTS
    Orders,
    Txs         \* the checkout links that can be given out

VARIABLES
    link,       \* link[o]: the links given out for order o
    fate,       \* fate[t]: what became of the checkout behind link t
    confirmed,  \* the orders reported as paid
    credited    \* the orders whose restaurant is topped up

vars == <<link, fate, confirmed, credited>>

Paid(o) == \E t \in link[o] : fate[t] = "success"

Init ==
    /\ link = [o \in Orders |-> {}]
    /\ fate = [t \in Txs |-> "none"]
    /\ confirmed = {}
    /\ credited = {}

\* An order gets its link, one that no order has had.
OfferCheckout(o, t) ==
    /\ link[o] = {}
    /\ \A p \in Orders : t \notin link[p]
    /\ link' = [link EXCEPT ![o] = {t}]
    /\ UNCHANGED <<fate, confirmed, credited>>

\* Whoever has the link pays, or fails to, once.
CheckOut(t, outcome) ==
    /\ \E o \in Orders : t \in link[o]
    /\ fate[t] = "none"
    /\ fate' = [fate EXCEPT ![t] = outcome]
    /\ UNCHANGED <<link, confirmed, credited>>

Confirm(o) ==
    /\ Paid(o)
    /\ confirmed' = confirmed \cup {o}
    /\ UNCHANGED <<link, fate, credited>>

Credit(o) ==
    /\ Paid(o)
    /\ credited' = credited \cup {o}
    /\ UNCHANGED <<link, fate, confirmed>>

Next ==
    \/ \E o \in Orders, t \in Txs : OfferCheckout(o, t)
    \/ \E t \in Txs, outcome \in {"success", "failed"} : CheckOut(t, outcome)
    \/ \E o \in Orders : Confirm(o) \/ Credit(o)

Spec == Init /\ [][Next]_vars

=============================================================================
