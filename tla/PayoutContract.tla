--------------------------- MODULE PayoutContract ---------------------------
(***************************************************************************)
(* What payment-service promises the restaurants about the children it     *)
(* owes them, whatever its batches, jobs and webhooks do: a child is       *)
(* covered by one payout at most and for good, one worker at most asks for *)
(* a payout, the provider decides it once, and only what was paid out is   *)
(* on record as paid.                                                      *)
(***************************************************************************)
EXTENDS Naturals

CONSTANTS
    Children,
    Payouts     \* the references of the transfers

VARIABLES
    covers,     \* covers[p]: the children payout p is for
    asked,      \* asked[p]: how many workers have asked for it
    fate,       \* fate[p]: what became of it
    recorded    \* the children on record as paid

vars == <<covers, asked, fate, recorded>>

PaidOut(c) == \E p \in Payouts : c \in covers[p] /\ fate[p] = "done"

Init ==
    /\ covers = [p \in Payouts |-> {}]
    /\ asked = [p \in Payouts |-> 0]
    /\ fate = [p \in Payouts |-> "none"]
    /\ recorded = {}

\* New payouts for children no other is for.
Bundle ==
    /\ covers' \in [Payouts -> SUBSET Children]
    /\ \A p \in Payouts : covers[p] # {} => covers'[p] = covers[p]
    /\ \A p, q \in Payouts : p # q => covers'[p] \cap covers'[q] = {}
    /\ UNCHANGED <<asked, fate, recorded>>

\* Some payouts are asked for, the first time.  The provider may decide them at once.
Ask(some) ==
    /\ \A p \in some : asked[p] = 0 /\ covers[p] # {}
    /\ asked' = [p \in Payouts |-> IF p \in some THEN 1 ELSE asked[p]]
    /\ fate' \in [Payouts -> {"none", "done", "refused"}]
    /\ \A p \in Payouts \ some : fate'[p] = fate[p]
    /\ UNCHANGED <<covers, recorded>>

\* The provider decides some that were asked for, now or when the request is repeated.
Settle ==
    /\ fate' \in [Payouts -> {"none", "done", "refused"}]
    /\ \A p \in Payouts : fate'[p] # fate[p] => asked[p] > 0 /\ fate[p] = "none"
    /\ UNCHANGED <<covers, asked, recorded>>

\* The record follows.  An answer that comes late may take a child off it again.
Record(kids) ==
    /\ \A c \in kids : PaidOut(c)
    /\ recorded' = kids
    /\ UNCHANGED <<covers, asked, fate>>

Next ==
    \/ Bundle
    \/ \E some \in SUBSET Payouts : Ask(some)
    \/ Settle
    \/ \E kids \in SUBSET Children : Record(kids)

Spec == Init /\ [][Next]_vars

=============================================================================
