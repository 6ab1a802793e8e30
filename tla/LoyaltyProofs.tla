---------------------------- MODULE LoyaltyProofs ----------------------------
(***************************************************************************)
(* Theorems about the reward points, for any customers, promo codes,       *)
(* workers and balance rows, and any bounds.                               *)
(*                                                                         *)
(* Nothing keeps a customer from having several balance rows, and a row is *)
(* saved with a total that was worked out before.  What holds is that the  *)
(* points of the ledger can be shared out among the rows of the customer,  *)
(* so that no row exceeds its share, and no request is going to save more  *)
(* than the share of its row and what its own commit adds to the ledger.   *)
(***************************************************************************)
EXTENDS Loyalty, Sums

\* Sets are finite, bounds are numbers, and what is absent is not there.
ConstantsTyped ==
    /\ IsFiniteSet(Rows) /\ IsFiniteSet(Workers)
    /\ Limit \in Nat /\ MaxGrants \in Nat /\ MaxEdits \in Nat
    /\ Nothing \notin Nat
    /\ Nothing \notin Rows
    /\ Nothing \notin Customers
    /\ Nothing \notin Promos
    /\ Nothing \notin PromoRow

----------------------------------------------------------------------------
(* The inductive invariant *)

\* What the commit of a request adds to the ledger.
Grant(k) == IF k.kind = "order" THEN 0 ELSE k.points

\* What a request is about to save is no more than the row may hold by then.
Fits(k, share) == k.total <= (IF k.row = Nothing THEN 0 ELSE share[k.row]) + Grant(k)

\* The points of a customer in the ledger are shared out among the rows of the customer, and
\* neither a row nor a request that is to write it exceeds the share.
Shares(share, rows, points, works, c) ==
    /\ share \in [Rows -> Nat]
    /\ SumFunctionOnSet(share, Rows) <= points
    /\ \A r \in Rows : rows[r] # Nothing => rows[r] <= share[r]
    /\ \A w \in Workers : works[w].customer = c => Fits(works[w], share)

Shared == \A c \in Customers : \E share : Shares(share, balance[c], granted[c], work, c)

\* The requests that may still grant points to c.
Pending(works, c) == {w \in Workers : works[w].customer = c /\ works[w].kind # "order"}

Reserved == \A c \in Customers : granted[c] + Cardinality(Pending(work, c)) <= MaxGrants

\* There is a customer whose balance is read, and a promo that is.
Served(k) ==
    /\ k.stage \in {"rule", "fill", "balance"} => k.customer \in Customers
    /\ k.stage = "promo" => k.promo \in Promos
    /\ k.stage = "balance" \/ (k.kind = "award" /\ k.stage \in {"rule", "fill"})
       => k.row = Nothing

AllServed == \A w \in Workers : Served(work[w])

Inv == TypeOK /\ AllServed /\ Shared /\ Reserved

LEMMA PendingCounts ==
    ASSUME ConstantsTyped, NEW works, NEW c
    PROVE  IsFiniteSet(Pending(works, c)) /\ Cardinality(Pending(works, c)) \in Nat
  <1>1. Pending(works, c) \in SUBSET Workers
    BY DEF Pending
  <1>2. IsFiniteSet(Pending(works, c))
    BY <1>1, FS_Subset DEF ConstantsTyped
  <1> QED  BY <1>2, FS_CardinalityType

\* A share is no more than what the ledger holds.
LEMMA ShareIsPart ==
    ASSUME ConstantsTyped, NEW share \in [Rows -> Nat], NEW r \in Rows
    PROVE  share[r] <= SumFunctionOnSet(share, Rows)
  <1>1. SumFunctionOnSet(share, Rows) = share[r] + SumFunctionOnSet(share, Rows \ {r})
    BY SumRemoves DEF ConstantsTyped
  <1>2. IsFiniteSet(Rows \ {r})
    BY FS_RemoveElement DEF ConstantsTyped
  <1>3. SumFunctionOnSet(share, Rows \ {r}) \in Nat
    BY <1>2, SumType
  <1> QED  BY <1>1, <1>3

LEMMA RowsBounded ==
    ASSUME ConstantsTyped, Inv, NEW c \in Customers, NEW r \in RowsOf(c)
    PROVE  balance[c][r] \in Nat /\ balance[c][r] <= granted[c]
  <1>1. PICK share : Shares(share, balance[c], granted[c], work, c)
    BY DEF Inv, Shared
  <1>2. r \in Rows /\ balance[c][r] \in Nat /\ granted[c] \in Nat
    BY DEF RowsOf, Inv, TypeOK, Points, ConstantsTyped
  <1>3. share \in [Rows -> Nat] /\ balance[c][r] <= share[r]
        /\ SumFunctionOnSet(share, Rows) <= granted[c]
    BY <1>1 DEF Shares, RowsOf
  <1>4. share[r] <= SumFunctionOnSet(share, Rows) /\ SumFunctionOnSet(share, Rows) \in Nat
    BY <1>2, <1>3, ShareIsPart, SumType DEF ConstantsTyped
  <1> QED  BY <1>2, <1>3, <1>4

\* A request that may grant a point has one in reserve.
LEMMA RoomFor ==
    ASSUME ConstantsTyped, Inv, NEW w \in Workers, NEW c \in Customers,
           work[w].customer = c, work[w].kind # "order"
    PROVE  granted[c] + 1 <= MaxGrants
  <1>1. w \in Pending(work, c)
    BY DEF Pending
  <1>2. Cardinality(Pending(work, c)) \in Nat /\ Cardinality(Pending(work, c)) # 0
    BY <1>1, PendingCounts, FS_EmptySet
  <1>3. granted[c] \in Nat /\ MaxGrants \in Nat
    BY DEF Inv, TypeOK, Points, ConstantsTyped
  <1>4. granted[c] + Cardinality(Pending(work, c)) <= MaxGrants
    BY DEF Inv, Reserved
  <1> QED  BY <1>2, <1>3, <1>4

----------------------------------------------------------------------------
(* Steps of a request that leave balances and the ledger alone *)

LEMMA SharedOnward ==
    ASSUME Inv, NEW w \in Workers, NEW k,
           work' = [work EXCEPT ![w] = k], UNCHANGED <<balance, granted>>,
           \A share : k.customer \in Customers
                      /\ Shares(share, balance[k.customer], granted[k.customer], work, k.customer)
                      => Fits(k, share)
    PROVE  Shared'
  <1> SUFFICES ASSUME NEW c \in Customers
               PROVE  \E share : Shares(share, balance[c], granted[c], work', c)
    BY DEF Shared
  <1>1. PICK share : Shares(share, balance[c], granted[c], work, c)
    BY DEF Inv, Shared
  <1>2. \A v \in Workers : work'[v] = IF v = w THEN k ELSE work[v]
    BY DEF Inv, TypeOK
  <1>3. ASSUME NEW v \in Workers, work'[v].customer = c
        PROVE  Fits(work'[v], share)
    <2>1. CASE v = w
      BY <1>1, <1>2, <1>3, <2>1
    <2>2. CASE v # w
      BY <1>1, <1>2, <1>3, <2>2 DEF Shares
    <2> QED  BY <2>1, <2>2
  <1> QED  BY <1>1, <1>3 DEF Shares

LEMMA ReservedOnward ==
    ASSUME ConstantsTyped, Inv, NEW w \in Workers, NEW k,
           work' = [work EXCEPT ![w] = k], UNCHANGED granted,
           k.customer \in Customers /\ k.kind # "order"
           => work[w].customer = k.customer /\ work[w].kind # "order"
    PROVE  Reserved'
  <1> SUFFICES ASSUME NEW c \in Customers
               PROVE  granted[c] + Cardinality(Pending(work', c)) <= MaxGrants
    BY DEF Reserved
  <1>1. Pending(work', c) \subseteq Pending(work, c)
    BY DEF Inv, TypeOK, Pending
  <1>2. Cardinality(Pending(work', c)) <= Cardinality(Pending(work, c))
    BY <1>1, PendingCounts, FS_Subset
  <1>3. granted[c] \in Nat /\ MaxGrants \in Nat
    BY DEF Inv, TypeOK, Points, ConstantsTyped
  <1>4. granted[c] + Cardinality(Pending(work, c)) <= MaxGrants
    BY DEF Inv, Reserved
  <1> QED  BY <1>2, <1>3, <1>4, PendingCounts

Onward == work' \in [Workers -> Handling] /\ AllServed' /\ Shared' /\ Reserved'

\* A request that goes on, or ends: what it has in hand, it has or it drops.
LEMMA GoesOn ==
    ASSUME ConstantsTyped, Inv, NEW w \in Workers, NEW k \in Handling, Served(k),
           work' = [work EXCEPT ![w] = k],
           UNCHANGED <<balance, granted>>,
           \/ k.customer = Nothing
           \/ /\ k.customer = work[w].customer /\ k.kind = work[w].kind
              /\ k.row = work[w].row /\ k.total = work[w].total /\ k.points = work[w].points
    PROVE  Onward
  <1>1. work' \in [Workers -> Handling] /\ AllServed'
    BY DEF Inv, TypeOK, AllServed
  <1>2. Shared'
    <2>1. ASSUME NEW share, k.customer \in Customers,
                 Shares(share, balance[k.customer], granted[k.customer], work, k.customer)
          PROVE  Fits(k, share)
      <3>1. Fits(work[w], share)
        BY <2>1 DEF Shares, ConstantsTyped
      <3> QED  BY <2>1, <3>1 DEF Fits, Grant, ConstantsTyped
    <2> QED  BY <2>1, SharedOnward
  <1>3. Reserved'
    BY ReservedOnward DEF ConstantsTyped
  <1> QED  BY <1>1, <1>2, <1>3 DEF Onward

LEMMA IdleTyped ==
    ASSUME ConstantsTyped
    PROVE  Idle \in Handling /\ Idle.customer = Nothing /\ Served(Idle)
  BY DEF ConstantsTyped, Idle, Handling, NewPromo, PromoRow, Points, Served

LEMMA Ends ==
    ASSUME ConstantsTyped, Inv, NEW w \in Workers, End(w), UNCHANGED <<balance, granted>>
    PROVE  Onward
  BY IdleTyped, GoesOn DEF End

\* The stage it goes on to is all that changes.
LEMMA MovesOn ==
    ASSUME ConstantsTyped, Inv, NEW w \in Workers,
           work[w].stage \in {"rule", "fill"}, NEW stage \in {"fill", "balance", "save"},
           stage = "balance" => work[w].kind = "award",
           work' = [work EXCEPT ![w].stage = stage], UNCHANGED <<balance, granted>>
    PROVE  Onward
  <1> DEFINE k == [work[w] EXCEPT !.stage = stage]
  <1>1. work[w] \in Handling /\ work \in [Workers -> Handling]
    BY DEF Inv, TypeOK
  <1>2. k \in Handling /\ k.customer = work[w].customer /\ k.kind = work[w].kind
        /\ k.row = work[w].row /\ k.total = work[w].total /\ k.points = work[w].points
    BY <1>1 DEF Handling
  <1>4. Served(k)
    BY <1>1 DEF Handling, Inv, AllServed, Served
  <1>3. work' = [work EXCEPT ![w] = k]
    BY <1>1
  <1> HIDE DEF k
  <1> QED  BY <1>2, <1>3, <1>4, GoesOn

----------------------------------------------------------------------------
(* Each step *)

LEMMA BeginPart ==
    ASSUME ConstantsTyped, Inv, NEW w \in Workers,
           NEW kind \in {"order", "award", "adjust"}, NEW stage \in {"rule", "balance", "promo"},
           NEW c \in Customers, NEW p \in Promos \cup {Nothing}, NEW points \in 0 .. 1,
           stage = "promo" => p # Nothing, Begin(w, kind, stage, c, p, points),
           kind = "order" \/ Room(c)
    PROVE  Inv'
  <1> DEFINE k == [Idle EXCEPT !.kind = kind, !.stage = stage,
                     !.customer = c, !.promo = p, !.points = points]
  <1>1. k \in Handling /\ k.customer = c /\ k.kind = kind /\ k.total = 0 /\ k.row = Nothing
        /\ k.points = points
    BY IdleTyped DEF Handling, Idle
  <1>2. work' = [work EXCEPT ![w] = k] /\ UNCHANGED <<balance, granted, promo, rule, cached, edits>>
    BY DEF Begin
  <1> HIDE DEF k
  <1>3. TypeOK' /\ AllServed'
    <2>1. Served(k)
      BY IdleTyped DEF k, Idle, Served
    <2> QED  BY <1>1, <1>2, <2>1 DEF Inv, TypeOK, AllServed
  <1>4. Shared'
    <2>1. \A share : Fits(k, share)
      BY <1>1 DEF Fits, Grant
    <2> QED  BY <1>2, <2>1, SharedOnward
  <1>5. Reserved'
    <2>1. CASE kind = "order"
      BY <1>1, <1>2, <2>1, ReservedOnward
    <2>2. CASE Room(c)
      <3> SUFFICES ASSUME NEW d \in Customers
                   PROVE  granted[d] + Cardinality(Pending(work', d)) <= MaxGrants
        BY <1>2 DEF Reserved
      <3>1. granted[d] \in Nat /\ MaxGrants \in Nat /\ Cardinality(Pending(work, d)) \in Nat
            /\ Cardinality(Pending(work', d)) \in Nat
        BY PendingCounts DEF Inv, TypeOK, Points, ConstantsTyped
      <3>2. granted[d] + Cardinality(Pending(work, d)) <= MaxGrants
        BY DEF Inv, Reserved
      <3>3. CASE d = c
        <4>1. Pending(work', d) \subseteq Pending(work, d) \cup {w}
          BY <1>1, <1>2 DEF Inv, TypeOK, Pending
        <4> DEFINE old == Pending(work, d)
        <4>0. IsFiniteSet(old)
          BY PendingCounts
        <4>2. IsFiniteSet(old \cup {w}) /\ Cardinality(old \cup {w}) <= Cardinality(old) + 1
          <5> HIDE DEF old
          <5>1. Cardinality(old) \in Nat
            BY <4>0, FS_CardinalityType
          <5> QED  BY <4>0, <5>1, FS_AddElement
        <4>3. Cardinality(Pending(work', d)) <= Cardinality(Pending(work, d) \cup {w})
              /\ Cardinality(Pending(work, d) \cup {w}) \in Nat
          BY <4>1, <4>2, FS_Subset, FS_CardinalityType
        <4>4. granted[d] + Cardinality(Pending(work, d)) < MaxGrants
          BY <2>2, <3>3 DEF Room, Pending
        <4> QED  BY <3>1, <4>2, <4>3, <4>4
      <3>4. CASE d # c
        <4>1. Pending(work', d) \subseteq Pending(work, d)
          BY <1>1, <1>2, <3>4 DEF Inv, TypeOK, Pending
        <4>2. Cardinality(Pending(work', d)) <= Cardinality(Pending(work, d))
          BY <4>1, PendingCounts, FS_Subset
        <4> QED  BY <3>1, <3>2, <4>2
      <3> QED  BY <3>3, <3>4
    <2> QED  BY <2>1, <2>2
  <1> QED  BY <1>3, <1>4, <1>5 DEF Inv

LEMMA AskPart ==
    ASSUME ConstantsTyped, Inv, NEW w \in Workers, Ask(w)
    PROVE  Inv'
  <1>1. CASE \E c \in Customers, p \in Promos \cup {Nothing}, n \in 0 .. 1 : CreateOrder(w, c, p, n)
    <2>1. PICK c \in Customers, p \in Promos \cup {Nothing}, n \in 0 .. 1 : CreateOrder(w, c, p, n)
      BY <1>1
    <2>2. CASE n > 0
      <3>1. Begin(w, "order", "balance", c, p, n)
        BY <2>1, <2>2 DEF CreateOrder
      <3> QED  BY <3>1, BeginPart
    <2>3. CASE ~ n > 0
      <3>1. Begin(w, "order", "promo", c, p, n) /\ p # Nothing
        BY <2>1, <2>3 DEF CreateOrder
      <3> QED  BY <3>1, BeginPart
    <2> QED  BY <2>2, <2>3
  <1>2. CASE \E c \in Customers : AwardPoints(w, c) \/ AdminAdjustPoints(w, c)
    BY <1>2, BeginPart DEF AwardPoints, AdminAdjustPoints
  <1>3. ASSUME NEW p \in Promos, NEW active \in BOOLEAN, UpdatePromo(w, p, active)
        PROVE  Inv'
    <2> DEFINE k == [Idle EXCEPT !.kind = "edit", !.stage = "edit",
                       !.promo = p, !.copy = [promo[p] EXCEPT !.active = active]]
    <2>1. promo[p] \in PromoRow
      BY <1>3 DEF UpdatePromo, Inv, TypeOK
    <2>2. [promo[p] EXCEPT !.active = active] \in PromoRow
      BY <2>1 DEF PromoRow
    <2>3. k \in Handling /\ k.customer = Nothing /\ Served(k)
      BY <2>2, IdleTyped DEF Handling, Idle, Served
    <2>4. work' = [work EXCEPT ![w] = k]
          /\ UNCHANGED <<balance, granted, promo, rule, cached>> /\ edits' \in 0 .. MaxEdits
      BY <1>3 DEF UpdatePromo, Edit, Inv, TypeOK, ConstantsTyped
    <2> HIDE DEF k
    <2>5. Onward
      BY <2>3, <2>4, GoesOn
    <2> QED  BY <2>4, <2>5 DEF Inv, TypeOK, Onward
  <1> QED  BY <1>1, <1>2, <1>3 DEF Ask

LEMMA RulePart ==
    ASSUME ConstantsTyped, Inv, NEW w \in Workers, GetActiveRule(w) \/ FillCache(w)
    PROVE  Inv'
  <1>1. CASE GetActiveRule(w)
    <2>1. Onward
      BY <1>1, MovesOn, Ends DEF GetActiveRule, At
    <2> QED  BY <1>1, <2>1 DEF GetActiveRule, Inv, TypeOK, Onward
  <1>2. CASE FillCache(w)
    <2>1. Onward
      BY <1>2, MovesOn DEF FillCache, At
    <2> QED  BY <1>2, <2>1 DEF FillCache, Inv, TypeOK, Onward
  <1> QED  BY <1>1, <1>2

\* The steps with a promo code, and those that end a request.
LEMMA PromoPart ==
    ASSUME ConstantsTyped, Inv, NEW w \in Workers,
           SaveBalance(w) \/ ReadPromo(w) \/ UsePromo(w) \/ SavePromo(w) \/ Abort(w)
    PROVE  Inv'
  <1> USE DEF Handling
  <1>0. work[w] \in Handling /\ work \in [Workers -> Handling]
    BY DEF Inv, TypeOK
  <1>1. CASE SaveBalance(w)
    <2> DEFINE k == [work[w] EXCEPT !.stage = AfterPoints(w), !.wrote = @ \cup {"balance"}]
    <2>1. k \in Handling /\ k.customer = work[w].customer /\ k.kind = work[w].kind
          /\ k.row = work[w].row /\ k.total = work[w].total /\ k.points = work[w].points
      BY <1>0 DEF AfterPoints
    <2>2. work' = [work EXCEPT ![w] = k] /\ Served(k)
      BY <1>0, <1>1 DEF SaveBalance, AfterPoints, Served
    <2> HIDE DEF k
    <2>3. Onward
      BY <1>1, <2>1, <2>2, GoesOn DEF SaveBalance
    <2> QED  BY <1>1, <2>3 DEF SaveBalance, Inv, TypeOK, Onward
  <1>2. CASE ReadPromo(w)
    <2> DEFINE row == promo[work[w].promo]
               k == [work[w] EXCEPT !.stage = "use", !.copy = [row EXCEPT !.uses = @ + 1]]
    <2>1. CASE End(w)
      BY <1>2, <2>1, Ends DEF ReadPromo, Inv, TypeOK, Onward
    <2>2. CASE ~ End(w)
      <3>1. row # Nothing /\ row.active /\ ~ row.uses >= Limit /\ work' = [work EXCEPT ![w] = k]
            /\ Served(k)
        BY <1>0, <1>2, <2>2 DEF ReadPromo, Served
      <3>2. row \in PromoRow
        BY <1>2, <3>1 DEF Inv, TypeOK, AllServed, Served, ReadPromo, At
      <3>3. [row EXCEPT !.uses = @ + 1] \in PromoRow
        BY <3>1, <3>2 DEF PromoRow, ConstantsTyped
      <3>4. k \in Handling /\ k.customer = work[w].customer /\ k.kind = work[w].kind
            /\ k.row = work[w].row /\ k.total = work[w].total /\ k.points = work[w].points
        BY <1>0, <3>3
      <3> HIDE DEF k
      <3>5. Onward
        BY <1>2, <3>1, <3>4, GoesOn DEF ReadPromo
      <3> QED  BY <1>2, <3>5 DEF ReadPromo, Inv, TypeOK, Onward
    <2> QED  BY <2>1, <2>2
  <1>3. CASE UsePromo(w)
    <2> DEFINE k == [work[w] EXCEPT !.stage = "commit", !.wrote = @ \cup {"promo"}]
    <2>1. k \in Handling /\ k.customer = work[w].customer /\ k.kind = work[w].kind
          /\ k.row = work[w].row /\ k.total = work[w].total /\ k.points = work[w].points
      BY <1>0
    <2>2. work' = [work EXCEPT ![w] = k] /\ Served(k)
      BY <1>0, <1>3 DEF UsePromo, Served
    <2> HIDE DEF k
    <2>3. Onward
      BY <1>3, <2>1, <2>2, GoesOn DEF UsePromo
    <2> QED  BY <1>3, <2>3 DEF UsePromo, Inv, TypeOK, Onward
  <1>4. CASE SavePromo(w)
    <2>1. promo' \in [Promos -> PromoRow \cup {Nothing}]
      BY <1>0, <1>4 DEF SavePromo, Inv, TypeOK
    <2>2. Onward
      BY <1>4, Ends DEF SavePromo
    <2> QED  BY <1>4, <2>1, <2>2 DEF SavePromo, Inv, TypeOK, Onward
  <1>5. CASE Abort(w)
    BY <1>5, Ends DEF Abort, Inv, TypeOK, Onward
  <1> QED  BY <1>1, <1>2, <1>3, <1>4, <1>5

LEMMA ReadBalancePart ==
    ASSUME ConstantsTyped, Inv, NEW w \in Workers, ReadBalance(w)
    PROVE  Inv'
  <1> DEFINE c == work[w].customer
             Goes(stage, row, total) ==
               work' = [work EXCEPT ![w].stage = stage, ![w].row = row, ![w].total = total]
  <1>1. work[w] \in Handling /\ work \in [Workers -> Handling] /\ c \in Customers
        /\ MaxGrants \in Nat
    BY DEF Inv, TypeOK, AllServed, Served, ReadBalance, At, ConstantsTyped
  <1>2. UNCHANGED <<balance, granted, promo, rule, cached, edits>>
    BY DEF ReadBalance
  <1>3. SUFFICES Onward
    BY <1>2 DEF Inv, TypeOK, Onward
  \* The total that was computed is in bounds, and no share of c's allows less.
  <1>4. ASSUME NEW row \in Rows \cup {Nothing}, NEW total \in Nat, NEW stage \in {"rule", "save"},
               stage = "rule" => work[w].kind = "order",
               Goes(stage, row, total),
               \/ row = Nothing /\ total <= Grant(work[w])
               \/ row \in RowsOf(c) /\ total <= balance[c][row] + Grant(work[w])
        PROVE  Onward
    <2> DEFINE k == [work[w] EXCEPT !.stage = stage, !.row = row, !.total = total]
    <2>1. granted[c] \in Nat /\ granted[c] <= MaxGrants
          /\ work[w].points \in 0 .. 1
      BY <1>1 DEF Inv, TypeOK, Points, Handling
    <2>2. row \in RowsOf(c) => balance[c][row] \in Nat /\ balance[c][row] <= granted[c]
      BY <1>1, RowsBounded
    <2>3. work[w].kind # "order" => granted[c] + 1 <= MaxGrants
      BY <1>1, RoomFor
    <2>4. total \in Points
      <3>1. CASE work[w].kind = "order"
        BY <1>1, <1>4, <2>1, <2>2, <3>1 DEF Points, Grant
      <3>2. CASE work[w].kind # "order"
        BY <1>1, <1>4, <2>1, <2>2, <2>3, <3>2 DEF Points, Grant
      <3> QED  BY <3>1, <3>2
    <2>5. k \in Handling /\ k.customer = c /\ k.kind = work[w].kind
          /\ k.points = work[w].points /\ k.row = row /\ k.total = total
      BY <1>1, <2>4 DEF Handling
    <2>6. work' = [work EXCEPT ![w] = k] /\ Served(k)
      BY <1>1, <1>4 DEF Served, Handling
    <2> HIDE DEF k
    <2>7. ASSUME NEW share, Shares(share, balance[c], granted[c], work, c)
          PROVE  Fits(k, share)
      <3>1. CASE row = Nothing
        BY <1>4, <2>1, <2>5, <3>1 DEF Fits, Grant, RowsOf, ConstantsTyped
      <3>2. CASE row \in RowsOf(c)
        <4>1. row \in Rows /\ row # Nothing /\ share[row] \in Nat /\ balance[c][row] <= share[row]
          BY <2>7, <3>2 DEF Shares, RowsOf, ConstantsTyped
        <4>2. Grant(k) = Grant(work[w]) /\ Grant(k) \in Nat
          BY <2>1, <2>5 DEF Grant
        <4>3. total <= balance[c][row] + Grant(k)
          BY <1>4, <3>2, <4>1, <4>2
        <4>4. total <= share[row] + Grant(k)
          BY <2>2, <3>2, <4>1, <4>2, <4>3
        <4> QED  BY <2>5, <4>1, <4>4 DEF Fits
      <3> QED  BY <1>4, <3>1, <3>2
    <2>8. Shared'
      BY <1>2, <2>5, <2>6, <2>7, SharedOnward
    <2>9. Reserved'
      BY <1>2, <2>5, <2>6, ReservedOnward
    <2> QED  BY <1>1, <2>5, <2>6, <2>8, <2>9 DEF Onward, Inv, AllServed
  <1> HIDE DEF Goes
  <1>5. work[w].points \in 0 .. 1
    BY <1>1 DEF Handling
  <1>6. CASE End(w)
    BY <1>2, <1>6, Ends
  <1>7. CASE ~ End(w) /\ work[w].kind = "order"
    <2>1. PICK r \in RowsOf(c) :
            /\ ~ balance[c][r] < work[w].points
            /\ Goes("rule", r, balance[c][r] - work[w].points)
      BY <1>7 DEF ReadBalance, Goes
    <2>2. balance[c][r] \in Nat
      BY <1>1, RowsBounded
    <2>3. balance[c][r] - work[w].points \in Nat
          /\ balance[c][r] - work[w].points <= balance[c][r] + Grant(work[w])
      BY <1>5, <1>7, <2>1, <2>2 DEF Grant
    <2>4. r \in Rows
      BY DEF RowsOf
    <2> DEFINE total == balance[c][r] - work[w].points
    <2> HIDE DEF total
    <2>5. total \in Nat /\ total <= balance[c][r] + Grant(work[w]) /\ Goes("rule", r, total)
      BY <2>1, <2>3 DEF total
    <2> QED  BY <1>4, <1>7, <2>4, <2>5
  <1>8. CASE work[w].kind # "order" /\ RowsOf(c) = {}
    <2>1. work' = [work EXCEPT ![w].stage = "save", ![w].total = work[w].points]
      BY <1>8 DEF ReadBalance
    <2>2. work[w].row = Nothing
      BY DEF Inv, AllServed, Served, ReadBalance, At
    <2>3. Goes("save", Nothing, work[w].points)
      BY <1>1, <2>1, <2>2 DEF Handling, Goes
    <2>4. Grant(work[w]) = work[w].points
      BY <1>8 DEF Grant
    <2> QED  BY <1>4, <1>5, <2>3, <2>4
  <1>9. CASE work[w].kind # "order" /\ RowsOf(c) # {}
    <2>1. PICK r \in RowsOf(c) :
            Goes("save", r, balance[c][r] + work[w].points)
      BY <1>9 DEF ReadBalance, Goes
    <2>2. balance[c][r] \in Nat
      BY <1>1, RowsBounded
    <2>3. balance[c][r] + work[w].points \in Nat /\ Grant(work[w]) = work[w].points
      BY <1>5, <1>9, <2>2 DEF Grant
    <2>4. r \in Rows
      BY DEF RowsOf
    <2> DEFINE total == balance[c][r] + work[w].points
    <2>5. total \in Nat /\ total <= balance[c][r] + Grant(work[w]) /\ Goes("save", r, total)
      BY <2>1, <2>2, <2>3
    <2> HIDE DEF total
    <2> QED  BY <1>4, <2>4, <2>5
  <1> QED  BY <1>6, <1>7, <1>8, <1>9

\* A share that grows allows no less.
LEMMA FitsMore ==
    ASSUME ConstantsTyped, NEW k \in Handling, NEW share \in [Rows -> Nat],
           NEW more \in [Rows -> Nat], \A r \in Rows : share[r] <= more[r], Fits(k, share)
    PROVE  Fits(k, more)
  <1>1. k.total \in Nat /\ k.points \in Nat /\ k.row \in Rows \cup {Nothing}
    BY DEF Handling, Points, ConstantsTyped
  <1>2. Grant(k) \in Nat
    BY <1>1 DEF Grant
  <1> QED  BY <1>1, <1>2 DEF Fits

LEMMA CommitLedger ==
    ASSUME ConstantsTyped, Inv, NEW w \in Workers, Commit(w)
    PROVE  /\ granted' \in [Customers -> Points]
           /\ \A c \in Customers :
                granted'[c] = granted[c] + (IF c = work[w].customer THEN Grant(work[w]) ELSE 0)
  <1>1. work[w] \in Handling /\ granted \in [Customers -> Points] /\ MaxGrants \in Nat
    BY DEF Inv, TypeOK, ConstantsTyped
  <1>2. Grant(work[w]) \in 0 .. 1 /\ work[w].points \in 0 .. 1
    BY <1>1 DEF Grant, Handling
  <1>3. ASSUME NEW c \in Customers
        PROVE  granted'[c] = granted[c] + (IF c = work[w].customer THEN Grant(work[w]) ELSE 0)
    <2>1. granted[c] \in Nat
      BY <1>1 DEF Points
    <2>2. CASE work[w].kind = "order"
      <3>1. granted' = granted
        BY <2>2 DEF Commit
      <3> QED  BY <2>1, <2>2, <3>1 DEF Grant
    <2>3. CASE work[w].kind # "order"
      <3>1. granted' = [granted EXCEPT ![work[w].customer] = @ + work[w].points]
        BY <2>3 DEF Commit
      <3> QED  BY <1>1, <1>2, <2>1, <2>3, <3>1 DEF Grant
    <2> QED  BY <2>2, <2>3
  <1>4. DOMAIN granted' = Customers /\ granted' = [c \in Customers |-> granted'[c]]
    BY <1>1 DEF Commit
  <1>5. ASSUME NEW c \in Customers
        PROVE  granted'[c] \in Points
    <2>1. granted[c] \in Points
      BY <1>1
    <2>2. CASE c = work[w].customer /\ work[w].kind # "order"
      <3>1. granted[c] + 1 <= MaxGrants
        BY <2>2, RoomFor
      <3> QED  BY <1>1, <1>2, <1>3, <2>1, <2>2, <3>1 DEF Points
    <2>3. CASE ~ (c = work[w].customer /\ work[w].kind # "order")
      <3>1. granted'[c] = granted[c] + 0
        BY <1>3, <2>3 DEF Grant
      <3> QED  BY <1>1, <2>1, <3>1 DEF Points
    <2> QED  BY <2>2, <2>3
  <1> QED  BY <1>3, <1>4, <1>5

\* What a commit does to the rows of a customer.
LEMMA CommitRows ==
    ASSUME ConstantsTyped, Inv, NEW w \in Workers, Commit(w), NEW c \in Customers
    PROVE  \/ balance'[c] = balance[c]
           \/ /\ c = work[w].customer
              /\ \E r \in Rows : /\ work[w].row \in {Nothing, r}
                               /\ balance'[c] = [balance[c] EXCEPT ![r] = work[w].total]
  <1>1. /\ balance \in [Customers -> [Rows -> Points \cup {Nothing}]]
        /\ work[w].row \in Rows \cup {Nothing}
    BY DEF Inv, TypeOK, Handling
  <1>2. CASE "balance" \notin work[w].wrote
    BY <1>2 DEF Commit
  <1>3. CASE "balance" \in work[w].wrote
    <2>1. PICK r \in IF work[w].row = Nothing THEN Rows \ RowsOf(work[w].customer) ELSE {work[w].row} :
            balance' = [balance EXCEPT ![work[w].customer][r] = work[w].total]
      BY <1>3 DEF Commit
    <2>2. r \in Rows /\ work[w].row \in {Nothing, r}
      BY <1>1, <2>1
    <2> QED  BY <1>1, <2>1, <2>2
  <1> QED  BY <1>2, <1>3

LEMMA CommitShared ==
    ASSUME ConstantsTyped, Inv, NEW w \in Workers, Commit(w)
    PROVE  Shared'
  <1> SUFFICES ASSUME NEW c \in Customers
               PROVE  \E share : Shares(share, balance'[c], granted'[c], work', c)
    BY DEF Shared
  <1>1. PICK share : Shares(share, balance[c], granted[c], work, c)
    BY DEF Inv, Shared
  <1>2. work \in [Workers -> Handling] /\ work[w] \in Handling
    BY DEF Inv, TypeOK
  <1>3. \A v \in Workers : work'[v].customer = c => work'[v] = work[v] /\ work[v].customer = c
    BY <1>2, IdleTyped DEF Commit, End, ConstantsTyped
  <1>4. share \in [Rows -> Nat] /\ SumFunctionOnSet(share, Rows) \in Nat
        /\ SumFunctionOnSet(share, Rows) <= granted[c] /\ granted[c] \in Nat
    BY <1>1, SumType DEF Shares, ConstantsTyped, Inv, TypeOK, Points
  <1>5. Grant(work[w]) \in Nat
    BY <1>2 DEF Grant, Handling
  <1>6. granted'[c] = granted[c] + (IF c = work[w].customer THEN Grant(work[w]) ELSE 0)
    BY CommitLedger
  <1>7. CASE balance'[c] = balance[c]
    <2>1. granted[c] <= granted'[c] /\ granted'[c] \in Nat
      BY <1>4, <1>5, <1>6
    <2>2. SumFunctionOnSet(share, Rows) <= granted'[c]
      BY <1>4, <2>1
    <2> QED  BY <1>1, <1>3, <1>7, <2>2 DEF Shares
  <1>8. ASSUME c = work[w].customer, NEW r \in Rows, work[w].row \in {Nothing, r},
               balance'[c] = [balance[c] EXCEPT ![r] = work[w].total]
        PROVE  \E more : Shares(more, balance'[c], granted'[c], work', c)
    <2> DEFINE d == Grant(work[w])
               more == [share EXCEPT ![r] = @ + d]
    <2>1. more \in [Rows -> Nat] /\ more[r] = share[r] + d
          /\ \A q \in Rows : share[q] <= more[q]
      BY <1>4, <1>5
    <2>2. SumFunctionOnSet(more, Rows) = SumFunctionOnSet(share, Rows) + d
      BY <1>4, <1>5, SumGrows DEF ConstantsTyped
    <2>3. granted'[c] = granted[c] + d
      BY <1>6, <1>8
    <2>4. SumFunctionOnSet(more, Rows) <= granted'[c]
      BY <1>4, <1>5, <2>2, <2>3
    <2>5. work[w].total <= more[r]
      <3>1. Fits(work[w], share) /\ work[w].total \in Nat
        BY <1>1, <1>2, <1>8 DEF Shares, Handling, Points
      <3> QED  BY <1>4, <1>5, <1>8, <2>1, <3>1 DEF Fits
    <2> HIDE DEF more, d
    <2>6. ASSUME NEW q \in Rows, balance'[c][q] # Nothing
          PROVE  balance'[c][q] <= more[q]
      <3>1. balance[c] \in [Rows -> Points \cup {Nothing}]
        BY DEF Inv, TypeOK
      <3>2. CASE q = r
        BY <1>8, <2>5, <3>1, <3>2
      <3>3. CASE q # r
        <4>1. balance'[c][q] = balance[c][q] /\ balance[c][q] \in Nat
          BY <1>8, <2>6, <3>1, <3>3 DEF Points
        <4>2. balance[c][q] <= share[q] /\ share[q] <= more[q] /\ share[q] \in Nat /\ more[q] \in Nat
          BY <1>1, <1>4, <2>1, <2>6, <4>1 DEF Shares
        <4> QED  BY <4>1, <4>2
      <3> QED  BY <3>2, <3>3
    <2>7. ASSUME NEW v \in Workers, work'[v].customer = c
          PROVE  Fits(work'[v], more)
      <3>1. work'[v] = work[v] /\ Fits(work[v], share) /\ work[v] \in Handling
        BY <1>1, <1>2, <1>3, <2>7 DEF Shares
      <3> QED  BY <1>4, <2>1, <3>1, FitsMore
    <2>8. Shares(more, balance'[c], granted'[c], work', c)
      BY <2>1, <2>4, <2>6, <2>7 DEF Shares
    <2> QED  BY <2>8
  <1> QED  BY <1>7, <1>8, CommitRows

LEMMA CommitReserved ==
    ASSUME ConstantsTyped, Inv, NEW w \in Workers, Commit(w)
    PROVE  Reserved'
  <1> SUFFICES ASSUME NEW c \in Customers
               PROVE  granted'[c] + Cardinality(Pending(work', c)) <= MaxGrants
    BY DEF Reserved
  <1> DEFINE old == Pending(work, c)
             new == Pending(work', c)
  <1>1. /\ work \in [Workers -> Handling] /\ work[w] \in Handling
        /\ granted[c] \in Nat /\ MaxGrants \in Nat
    BY DEF Inv, TypeOK, Points, ConstantsTyped
  <1>2. new \subseteq old \ {w}
    BY <1>1, IdleTyped DEF Pending, Commit, End, ConstantsTyped
  <1>3. IsFiniteSet(old) /\ Cardinality(old) \in Nat /\ Cardinality(new) \in Nat
    BY PendingCounts
  <1>4. granted[c] + Cardinality(old) <= MaxGrants
    BY DEF Inv, Reserved
  <1>5. granted'[c] = granted[c] + (IF c = work[w].customer THEN Grant(work[w]) ELSE 0)
    BY CommitLedger
  <1>6. w \in old <=> c = work[w].customer /\ work[w].kind # "order"
    BY DEF Pending
  <1>7. work[w].points \in 0 .. 1
    BY <1>1 DEF Handling
  <1> HIDE DEF old, new
  <1>8. CASE w \in old
    <2>1. IsFiniteSet(old \ {w}) /\ Cardinality(old \ {w}) = Cardinality(old) - 1
      BY <1>3, <1>8, FS_RemoveElement
    <2>2. Cardinality(new) <= Cardinality(old) - 1
      BY <1>2, <1>3, <2>1, FS_Subset
    <2>3. granted'[c] = granted[c] + work[w].points
      BY <1>5, <1>6, <1>8 DEF Grant
    <2> QED  BY <1>1, <1>3, <1>4, <1>7, <2>2, <2>3 DEF new
  <1>9. CASE w \notin old
    <2>1. Cardinality(new) <= Cardinality(old)
      BY <1>2, <1>3, FS_Subset
    <2>2. granted'[c] = granted[c] + 0
      BY <1>5, <1>6, <1>9 DEF Grant
    <2> QED  BY <1>1, <1>3, <1>4, <2>1, <2>2 DEF new
  <1> QED  BY <1>8, <1>9

LEMMA CommitPart ==
    ASSUME ConstantsTyped, Inv, NEW w \in Workers, Commit(w)
    PROVE  Inv'
  <1>1. work \in [Workers -> Handling] /\ work[w] \in Handling
        /\ balance \in [Customers -> [Rows -> Points \cup {Nothing}]]
        /\ promo \in [Promos -> PromoRow \cup {Nothing}]
    BY DEF Inv, TypeOK
  <1>2. work' \in [Workers -> Handling] /\ AllServed'
    BY <1>1, IdleTyped DEF Commit, End, Inv, AllServed
  <1>3. balance' \in [Customers -> [Rows -> Points \cup {Nothing}]]
    <2>1. CASE "balance" \notin work[w].wrote
      BY <1>1, <2>1 DEF Commit
    <2>2. CASE "balance" \in work[w].wrote
      <3>1. PICK r : balance' = [balance EXCEPT ![work[w].customer][r] = work[w].total]
        BY <2>2 DEF Commit
      <3>2. work[w].total \in Points
        BY <1>1 DEF Handling
      <3> QED  BY <1>1, <3>1, <3>2
    <2> QED  BY <2>1, <2>2
  <1>4. promo' \in [Promos -> PromoRow \cup {Nothing}]
    <2>1. work[w].copy \in PromoRow
      BY <1>1 DEF Handling
    <2> QED  BY <1>1, <2>1 DEF Commit
  <1>5. UNCHANGED <<rule, cached, edits>>
    BY DEF Commit
  <1> QED  BY <1>2, <1>3, <1>4, <1>5, CommitLedger, CommitShared, CommitReserved DEF Inv, TypeOK

\* Administration, and the time to live of a cached rule.
LEMMA AdministerPart ==
    ASSUME ConstantsTyped, Inv, Administer \/ \E k \in RuleType : ExpireRule(k)
    PROVE  Inv'
  <1>1. UNCHANGED <<balance, granted, work>>
    BY DEF Administer, CreatePromo, DeletePromos, DeleteRule, SaveRule, ExpireRule
  <1>2. AllServed' /\ Shared' /\ Reserved'
    BY <1>1 DEF Inv, AllServed, Shared, Reserved
  <1>3. edits' \in 0 .. MaxEdits
    BY DEF Administer, CreatePromo, DeletePromos, DeleteRule, SaveRule, ExpireRule, Edit,
           Inv, TypeOK, ConstantsTyped
  <1>4. rule' \in [RuleType -> BOOLEAN] /\ cached' \in [RuleType -> BOOLEAN]
    BY DEF Administer, CreatePromo, DeletePromos, DeleteRule, SaveRule, ExpireRule, Inv, TypeOK
  <1>5. promo' \in [Promos -> PromoRow \cup {Nothing}]
    <2>1. NewPromo \in PromoRow
      BY DEF NewPromo, PromoRow, ConstantsTyped
    <2> QED  BY <2>1 DEF Administer, CreatePromo, DeletePromos, DeleteRule, SaveRule, ExpireRule,
                         Inv, TypeOK
  <1> QED  BY <1>1, <1>2, <1>3, <1>4, <1>5 DEF Inv, TypeOK

LEMMA InitPart ==
    ASSUME ConstantsTyped, Init
    PROVE  Inv
  <1>1. TypeOK /\ AllServed
    BY IdleTyped DEF Init, TypeOK, AllServed, ConstantsTyped, Points
  <1>2. Shared
    <2> SUFFICES ASSUME NEW c \in Customers
                 PROVE  \E share : Shares(share, balance[c], granted[c], work, c)
      BY DEF Shared
    <2> DEFINE share == [r \in Rows |-> 0]
    <2>1. SumFunctionOnSet(share, Rows) <= 0
      BY SumOfZeros DEF ConstantsTyped
    <2>2. \A w \in Workers : Fits(work[w], share)
      BY DEF Init, Idle, Fits, Grant
    <2>3. Shares(share, balance[c], granted[c], work, c)
      BY <2>1, <2>2 DEF Shares, Init
    <2> QED  BY <2>3
  <1>3. Reserved
    <2> SUFFICES ASSUME NEW c \in Customers
                 PROVE  granted[c] + Cardinality(Pending(work, c)) <= MaxGrants
      BY DEF Reserved
    <2>1. Pending(work, c) = {}
      BY IdleTyped DEF Init, Pending, ConstantsTyped
    <2>2. Cardinality(Pending(work, c)) = 0 /\ granted[c] = 0
      BY <2>1, FS_EmptySet DEF Init
    <2> QED  BY <2>2 DEF ConstantsTyped
  <1> QED  BY <1>1, <1>2, <1>3 DEF Inv

LEMMA NextPart ==
    ASSUME ConstantsTyped, Inv, [Next]_vars
    PROVE  Inv'
  <1>1. CASE UNCHANGED vars
    BY <1>1 DEF vars, Inv, TypeOK, AllServed, Shared, Reserved
  <1>2. CASE Administer \/ \E k \in RuleType : ExpireRule(k)
    BY <1>2, AdministerPart
  <1>3. ASSUME NEW w \in Workers, Ask(w) \/ Handle(w) \/ Abort(w)
        PROVE  Inv'
    BY <1>3, AskPart, RulePart, PromoPart, ReadBalancePart, CommitPart DEF Handle
  <1> QED  BY <1>1, <1>2, <1>3 DEF Next

\* What the shares say of the rows.
LEMMA SharesBound ==
    ASSUME ConstantsTyped, Inv
    PROVE  PointsWereGranted
  <1> SUFFICES ASSUME NEW c \in Customers
               PROVE  SumFunctionOnSet(balance[c], RowsOf(c)) <= granted[c]
    BY DEF PointsWereGranted
  <1>1. PICK share : Shares(share, balance[c], granted[c], work, c)
    BY DEF Inv, Shared
  <1>2. RowsOf(c) \in SUBSET Rows /\ \A r \in RowsOf(c) : balance[c][r] \in Nat
    BY DEF RowsOf, Inv, TypeOK, Points
  <1>3. share \in [Rows -> Nat] /\ \A r \in RowsOf(c) : balance[c][r] <= share[r]
    BY <1>1 DEF Shares, RowsOf
  <1>4. SumFunctionOnSet(balance[c], RowsOf(c)) <= SumFunctionOnSet(share, Rows)
    BY <1>2, <1>3, SumMonotone DEF ConstantsTyped
  <1>5. IsFiniteSet(RowsOf(c)) /\ SumFunctionOnSet(share, Rows) \in Nat
    BY <1>2, <1>3, FS_Subset, SumType DEF ConstantsTyped
  <1>6. SumFunctionOnSet(balance[c], RowsOf(c)) \in Nat
    BY <1>2, <1>5, SumType
  <1>7. SumFunctionOnSet(share, Rows) <= granted[c] /\ granted[c] \in Nat
    BY <1>1 DEF Shares, Inv, TypeOK, Points
  <1> QED  BY <1>4, <1>5, <1>6, <1>7

\* However orders, awards, adjustments and failures interleave, and on however many rows: the
\* points on the rows of a customer are no more than the ledger says were granted.
THEOREM Granted ==
    ASSUME ConstantsTyped
    PROVE  Spec => [](TypeOK /\ PointsWereGranted)
  <1>1. Init => Inv
    BY InitPart
  <1>2. Inv /\ [Next]_vars => Inv'
    BY NextPart
  <1>3. Inv => TypeOK /\ PointsWereGranted
    BY SharesBound DEF Inv
  <1> QED  BY <1>1, <1>2, <1>3, PTL DEF Spec

=============================================================================
