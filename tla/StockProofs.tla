---------------------------- MODULE StockProofs -----------------------------
(***************************************************************************)
(* Theorems about the inventory, for any items, orders and tasks, orders   *)
(* with several lines for one item included, and any bounds.               *)
(*                                                                         *)
(* A row an order has taken from stays as it was until the order commits:  *)
(* it is locked, whoever writes a row holds its lock, and no two tasks     *)
(* hold one lock.  So what is committed is, for each item, what was there  *)
(* less what the lines handled so far say.                                 *)
(*                                                                         *)
(* The second part bounds the counts, from below and from above.           *)
(***************************************************************************)
EXTENDS Stock, Sums

\* createOrder refuses an order without items; quantities are whole and positive or zero.
ConstantsTyped ==
    /\ Nothing \notin Nat
    /\ Ordered \in [Orders -> Seq(Items \X Nat)]
    /\ \A o \in Orders : Ordered[o] # <<>>
    /\ MaxStock \in Nat

----------------------------------------------------------------------------
(* The invariant *)

Stages == {"idle", "lock", "read", "log", "save", "commit", "ack", "show", "select", "hide"}

\* As Handling, but for the bounds.
Task == [stage : Stages,
         kind : {"none", "deduct", "add", "reset", "sync"},
         order : Orders \cup {Nothing},
         todo : Seq(Items \X Nat),
         old : Nat, missing : BOOLEAN,
         counts : [Items -> Nat \cup {Nothing}],
         shown : [Items -> BOOLEAN \cup {Nothing}],
         shares : SUBSET Items, locks : SUBSET Items, ids : SUBSET Items]

Typed ==
    /\ stock \in [Items -> Nat \cup {Nothing}]
    /\ par \in [Items -> Nat \cup {Nothing}]
    /\ due \subseteq Orders
    /\ task \in [Tasks -> Task]

\* What is done at a stage, and whether a line is left to do.
KindFits(k) ==
    /\ k.stage = "lock" => k.kind = "deduct"
    /\ k.stage \in {"read", "log", "save"} => k.kind \in {"add", "reset"}
    /\ k.stage \in {"lock", "read", "log", "save"} => k.todo # <<>>

\* Whoever has written a row holds its lock.
Locked(k) == \A i \in Items : k.counts[i] # Nothing => i \in k.locks

Exclusive == \A t, u \in Tasks : t # u => task[t].locks \cap task[u].locks = {}

\* What the first n lines of an order take of an item.
TakenBy(o, n, i) ==
    SumFunctionOnSet(Quantities(o), {m \in 1 .. n : Ordered[o][m][1] = i})

\* The first n lines of the order of k are done, with the stock in rows: a row that has not been
\* written was not ordered so far, and one that has been is what was there less what these lines
\* take.
Done(rows, k, n) ==
    /\ k.order \in Orders
    /\ n \in 0 .. Len(Ordered[k.order])
    /\ Len(k.todo) = Len(Ordered[k.order]) - n
    /\ \A m \in 1 .. Len(k.todo) : k.todo[m] = Ordered[k.order][n + m]
    /\ \A i \in Items :
          IF k.counts[i] = Nothing
          THEN TakenBy(k.order, n, i) = 0
          ELSE rows[i] # Nothing /\ rows[i] = k.counts[i] + TakenBy(k.order, n, i)

Deducting(rows, k) ==
    k.kind = "deduct" /\ k.stage \in {"lock", "commit"}
        => \E n \in Nat : Done(rows, k, n) /\ (k.stage = "commit" => k.todo = <<>>)

Inv ==
    /\ Typed
    /\ \A t \in Tasks : KindFits(task[t]) /\ Locked(task[t]) /\ Deducting(stock, task[t])
    /\ Exclusive

----------------------------------------------------------------------------
(* What orders take *)

LEMMA QuantitiesTyped ==
    ASSUME ConstantsTyped, NEW o \in Orders
    PROVE  /\ Len(Ordered[o]) \in Nat
           /\ DOMAIN Ordered[o] = 1 .. Len(Ordered[o])
           /\ \A n \in 1 .. Len(Ordered[o]) :
                 Ordered[o][n] \in Items \X Nat /\ Quantities(o)[n] = Ordered[o][n][2]
  BY DEF ConstantsTyped, Quantities

LEMMA NoneTaken ==
    ASSUME NEW o \in Orders, NEW i \in Items
    PROVE  TakenBy(o, 0, i) = 0
  <1>1. {m \in 1 .. 0 : Ordered[o][m][1] = i} = {}
    OBVIOUS
  <1> QED  BY <1>1, SumOfNone DEF TakenBy

LEMMA TakenTyped ==
    ASSUME ConstantsTyped, NEW o \in Orders, NEW n \in 0 .. Len(Ordered[o]), NEW i \in Items
    PROVE  /\ TakenBy(o, n, i) \in Nat
           /\ IsFiniteSet({m \in 1 .. n : Ordered[o][m][1] = i})
  <1> DEFINE S == {m \in 1 .. n : Ordered[o][m][1] = i}
  <1>1. n \in Nat
    BY QuantitiesTyped
  <1>2. IsFiniteSet(1 .. n)
    BY <1>1, FS_Interval
  <1>3. IsFiniteSet(S)
    BY <1>2, FS_Subset
  <1>4. \A m \in S : Quantities(o)[m] \in Nat
    BY <1>1, QuantitiesTyped
  <1> QED  BY <1>3, <1>4, SumType DEF TakenBy

LEMMA TakenGrows ==
    ASSUME ConstantsTyped, NEW o \in Orders, NEW n \in 0 .. Len(Ordered[o]),
           n < Len(Ordered[o]), NEW i \in Items
    PROVE  TakenBy(o, n + 1, i) =
             TakenBy(o, n, i) + IF Ordered[o][n + 1][1] = i THEN Ordered[o][n + 1][2] ELSE 0
  <1> DEFINE S == {m \in 1 .. n : Ordered[o][m][1] = i}
             T == {m \in 1 .. n + 1 : Ordered[o][m][1] = i}
  <1>1. n \in Nat /\ n + 1 \in 1 .. Len(Ordered[o]) /\ n + 1 \notin 1 .. n
    BY QuantitiesTyped
  <1>2. TakenBy(o, n, i) \in Nat /\ IsFiniteSet(S)
    BY TakenTyped
  <1>3. CASE Ordered[o][n + 1][1] = i
    <2>1. T = S \cup {n + 1}
      BY <1>1, <1>3
    <2>2. \A m \in S \cup {n + 1} : Quantities(o)[m] \in Nat
      BY <1>1, QuantitiesTyped
    <2>3. SumFunctionOnSet(Quantities(o), S \cup {n + 1})
            = Quantities(o)[n + 1] + SumFunctionOnSet(Quantities(o), S)
      BY <1>1, <1>2, <2>2, SumAdds
    <2>4. Quantities(o)[n + 1] = Ordered[o][n + 1][2] /\ Ordered[o][n + 1][2] \in Nat
      BY <1>1, QuantitiesTyped
    <2>5. TakenBy(o, n + 1, i) = Quantities(o)[n + 1] + TakenBy(o, n, i)
      BY <2>1, <2>3 DEF TakenBy
    <2> QED  BY <1>2, <1>3, <2>4, <2>5
  <1>4. CASE Ordered[o][n + 1][1] # i
    <2>1. T = S
      BY <1>1, <1>4
    <2>2. TakenBy(o, n + 1, i) = TakenBy(o, n, i)
      BY <2>1 DEF TakenBy
    <2> QED  BY <1>2, <1>4, <2>2
  <1> QED  BY <1>3, <1>4

LEMMA AllTaken ==
    ASSUME ConstantsTyped, NEW o \in Orders, NEW i \in Items
    PROVE  TakenBy(o, Len(Ordered[o]), i) = OrderedOf(o, i)
  BY QuantitiesTyped DEF TakenBy, OrderedOf

----------------------------------------------------------------------------
(* Steps of one task *)

LEMMA IdleFits ==
    ASSUME ConstantsTyped
    PROVE  /\ Idle \in Task /\ KindFits(Idle) /\ Locked(Idle)
           /\ Deducting(stock, Idle) /\ Idle.locks = {}
  BY DEF ConstantsTyped, Idle, Task, Stages, KindFits, Locked, Deducting

LEMMA InvInitially ==
    ASSUME ConstantsTyped, Init
    PROVE  Inv
  <1>1. Typed
    BY IdleFits DEF Init, Typed, ConstantsTyped
  <1> QED  BY <1>1, IdleFits DEF Init, Inv, Exclusive

\* One task goes on, and no count changes.
LEMMA TaskSteps ==
    ASSUME Inv, NEW t \in Tasks, NEW k \in Task,
           KindFits(k), Locked(k), Deducting(stock, k),
           \A u \in Others(t) : k.locks \cap task[u].locks = {},
           task' = [task EXCEPT ![t] = k], stock' = stock,
           par' \in [Items -> Nat \cup {Nothing}], due' \subseteq Orders
    PROVE  Inv'
  <1>1. Typed'
    BY DEF Inv, Typed
  <1>2. task'[t] = k /\ \A u \in Others(t) : task'[u] = task[u]
    BY DEF Inv, Typed, Others
  <1>3. ASSUME NEW u \in Tasks
        PROVE  KindFits(task'[u]) /\ Locked(task'[u]) /\ Deducting(stock', task'[u])
    <2>1. KindFits(task[u]) /\ Locked(task[u]) /\ Deducting(stock, task[u])
      BY DEF Inv
    <2> QED  BY <1>2, <2>1 DEF Others
  <1>4. Exclusive'
    BY <1>2 DEF Inv, Exclusive, Others
  <1> QED  BY <1>1, <1>3, <1>4 DEF Inv

\* So does one that holds nothing and has written nothing.
LEMMA QuietSteps ==
    ASSUME ConstantsTyped, Inv, NEW t \in Tasks, NEW k \in Task,
           KindFits(k), k.counts = Idle.counts, k.locks = {},
           k.kind # "deduct" \/ k.stage \notin {"lock", "commit"},
           task' = [task EXCEPT ![t] = k], stock' = stock,
           par' \in [Items -> Nat \cup {Nothing}], due' \subseteq Orders
    PROVE  Inv'
  <1>1. Locked(k) /\ Deducting(stock, k)
    BY DEF Locked, Deducting, Idle
  <1> QED  BY <1>1, TaskSteps

----------------------------------------------------------------------------
(* Lines *)

LEMMA EmptyIsShort ==
    ASSUME NEW s \in Seq(Items \X Nat)
    PROVE  s = <<>> <=> Len(s) = 0
  OBVIOUS

LEMMA WrittenTyped ==
    ASSUME NEW S, NEW new \in S \cup {Nothing}, NEW old \in S \cup {Nothing}
    PROVE  Written(new, old) \in S \cup {Nothing}
  BY DEF Written

LEMMA LineTyped ==
    ASSUME Inv, NEW t \in Tasks, task[t].todo # <<>>
    PROVE  /\ Item(t) \in Items /\ Quantity(t) \in Nat
           /\ Item(t) = task[t].todo[1][1] /\ Quantity(t) = task[t].todo[1][2]
           /\ Tail(task[t].todo) \in Seq(Items \X Nat)
           /\ Len(task[t].todo) \in Nat \ {0}
           /\ Len(Tail(task[t].todo)) = Len(task[t].todo) - 1
           /\ \A m \in 1 .. Len(Tail(task[t].todo)) : Tail(task[t].todo)[m] = task[t].todo[m + 1]
  <1>1. task[t].todo \in Seq(Items \X Nat)
    BY DEF Inv, Typed, Task
  <1>2. Head(task[t].todo) = task[t].todo[1] /\ task[t].todo[1] \in Items \X Nat
    BY <1>1
  <1>3. /\ Tail(task[t].todo) \in Seq(Items \X Nat)
        /\ Len(task[t].todo) \in Nat \ {0}
        /\ Len(Tail(task[t].todo)) = Len(task[t].todo) - 1
        /\ \A m \in 1 .. Len(Tail(task[t].todo)) : Tail(task[t].todo)[m] = task[t].todo[m + 1]
    BY <1>1
  <1> QED  BY <1>2, <1>3 DEF Item, Quantity

LEMMA ShownTyped ==
    ASSUME NEW kind, NEW old, NEW new
    PROVE  Shown(kind, old, new) \in BOOLEAN \cup {Nothing}
  BY DEF Shown

\* What a task looks like when it has written a line.
LEMMA LineDoneIs ==
    ASSUME ConstantsTyped, Inv, NEW t \in Tasks, task[t].todo # <<>>,
           NEW count \in Nat, NEW shown \in BOOLEAN \cup {Nothing}
    PROVE  LET k == LineDone(t, count, shown) IN
           /\ k \in Task
           /\ k.counts = [task[t].counts EXCEPT ![Item(t)] = count]
           /\ k.locks = task[t].locks \cup {Item(t)}
           /\ k.todo = Tail(task[t].todo)
           /\ task[t].stage = "lock" => k.stage = NextLine(t, "lock")
           /\ task[t].stage # "lock" => k.stage = NextLine(t, "read")
           /\ k.kind = task[t].kind /\ k.order = task[t].order
  <1>1. task[t] \in Task
    BY DEF Inv, Typed
  <1>2. Item(t) \in Items /\ Tail(task[t].todo) \in Seq(Items \X Nat)
    BY LineTyped
  <1>3. [task[t].counts EXCEPT ![Item(t)] = count] \in [Items -> Nat \cup {Nothing}]
    BY <1>1, <1>2 DEF Task
  <1>4. Written(shown, task[t].shown[Item(t)]) \in BOOLEAN \cup {Nothing}
    BY <1>1, <1>2 DEF Task, Written
  <1>5. [task[t].shown EXCEPT ![Item(t)] = Written(shown, @)] \in [Items -> BOOLEAN \cup {Nothing}]
    BY <1>1, <1>2, <1>4 DEF Task
  <1>6. NextLine(t, IF task[t].stage = "lock" THEN "lock" ELSE "read") \in Stages
    BY DEF NextLine, Stages
  <1>7. task[t].locks \cup {Item(t)} \in SUBSET Items
    BY <1>1, <1>2 DEF Task
  <1> QED  BY <1>1, <1>2, <1>3, <1>5, <1>6, <1>7 DEF Task, LineDone

\* A transaction that is over, or rolls back, holds nothing.
LEMMA EndKeeps ==
    ASSUME ConstantsTyped, Inv, NEW t \in Tasks, RollBack(t),
           UNCHANGED <<stock, par, due>>
    PROVE  Inv'
  <1>1. task[t].order \in Orders \cup {Nothing}
    BY DEF Inv, Typed, Task
  <1>2. /\ Ended(t) \in Task /\ KindFits(Ended(t))
        /\ Ended(t).counts = Idle.counts /\ Ended(t).locks = {}
        /\ Ended(t).stage \in {"idle", "ack"}
    BY <1>1, IdleFits DEF Ended, Idle, Task, Stages, KindFits
  <1>3. stock' = stock /\ par' \in [Items -> Nat \cup {Nothing}] /\ due' \subseteq Orders
    BY DEF Inv, Typed
  <1> QED  BY <1>2, <1>3, QuietSteps DEF RollBack

\* Writing a line: nobody else holds the lock of the row by now.
LEMMA WriteKeeps ==
    ASSUME ConstantsTyped, Inv, NEW t \in Tasks, task[t].todo # <<>>,
           NEW count \in Nat, NEW shown \in BOOLEAN \cup {Nothing},
           NEW k, k = LineDone(t, count, shown), KindFits(k), Deducting(stock, k),
           \A u \in Others(t) : Item(t) \notin task[u].locks,
           task' = [task EXCEPT ![t] = k],
           UNCHANGED <<stock, par, due>>
    PROVE  Inv'
  <1>1. /\ k \in Task
        /\ k.counts = [task[t].counts EXCEPT ![Item(t)] = count]
        /\ k.locks = task[t].locks \cup {Item(t)}
    BY LineDoneIs
  <1>2. task[t].counts \in [Items -> Nat \cup {Nothing}] /\ Item(t) \in Items /\ Locked(task[t])
    BY LineTyped DEF Inv, Typed, Task
  <1>3. Locked(k)
    BY <1>1, <1>2 DEF Locked
  <1>4. \A u \in Others(t) : k.locks \cap task[u].locks = {}
    BY <1>1 DEF Inv, Exclusive, Others
  <1>5. stock' = stock /\ par' \in [Items -> Nat \cup {Nothing}] /\ due' \subseteq Orders
    BY DEF Inv, Typed
  <1> QED  BY <1>1, <1>3, <1>4, <1>5, TaskSteps

LEMMA DeductLineKeeps ==
    ASSUME ConstantsTyped, Inv, NEW t \in Tasks, DeductLine(t)
    PROVE  Inv'
  <1>1. CASE Short(t)
    BY <1>1, EndKeeps DEF DeductLine
  <1>2. CASE ~ Short(t)
    <2> DEFINE k == LineDone(t, Target(t), TargetShown(t))
               i == Item(t)
               o == task[t].order
               q == Quantity(t)
    <2>1. /\ task[t] \in Task /\ task[t].stage = "lock" /\ task[t].kind = "deduct"
          /\ task[t].todo # <<>> /\ Locked(task[t])
      BY DEF Inv, Typed, KindFits, DeductLine, At
    <2>2. i \in Items /\ q \in Nat
      BY <2>1, LineTyped
    <2>3. Current(t, i) \in Nat /\ Current(t, i) >= q /\ stock[i] \in Nat \cup {Nothing}
      <3>1. task[t].counts[i] \in Nat \cup {Nothing} /\ stock[i] \in Nat \cup {Nothing}
        BY <2>1, <2>2 DEF Inv, Typed, Task
      <3>2. Current(t, i) \in Nat \cup {Nothing}
        BY <3>1 DEF Current, Written
      <3> QED  BY <1>2, <2>2, <3>1, <3>2 DEF Short
    <2>4. Target(t) = Current(t, i) - q /\ Target(t) \in Nat
      BY <2>1, <2>2, <2>3 DEF Target
    <2>5. TargetShown(t) \in BOOLEAN \cup {Nothing}
      BY ShownTyped DEF TargetShown
    <2> HIDE DEF k
    <2>6. /\ k \in Task
          /\ k.counts = [task[t].counts EXCEPT ![i] = Target(t)]
          /\ k.todo = Tail(task[t].todo)
          /\ k.stage = NextLine(t, "lock")
          /\ k.kind = "deduct" /\ k.order = o
      BY <2>1, <2>4, <2>5, LineDoneIs DEF k
    <2>7. /\ k.stage = "commit" => k.todo = <<>>
          /\ k.stage # "commit" => k.stage = "lock" /\ k.todo # <<>>
      <3>1. /\ Len(task[t].todo) \in Nat \ {0}
            /\ k.todo \in Seq(Items \X Nat) /\ Len(k.todo) = Len(task[t].todo) - 1
        BY <2>1, <2>6, LineTyped
      <3>2. k.todo = <<>> <=> Len(k.todo) = 0
        BY <3>1, EmptyIsShort
      <3>3. k.todo = <<>> <=> Len(task[t].todo) = 1
        BY <3>1, <3>2
      <3> QED  BY <2>6, <3>3 DEF NextLine
    <2>8. KindFits(k)
      BY <2>6, <2>7 DEF KindFits
    <2>9. PICK n \in Nat : Done(stock, task[t], n)
      BY <2>1 DEF Inv, Deducting
    <2>10. Done(stock, k, n + 1)
      <3>1. /\ o \in Orders /\ n \in 0 .. Len(Ordered[o])
            /\ Len(task[t].todo) = Len(Ordered[o]) - n
            /\ \A m \in 1 .. Len(task[t].todo) : task[t].todo[m] = Ordered[o][n + m]
        BY <2>9 DEF Done
      <3>2. /\ Len(task[t].todo) \in Nat \ {0} /\ Len(k.todo) = Len(task[t].todo) - 1
            /\ \A m \in 1 .. Len(k.todo) : k.todo[m] = task[t].todo[m + 1]
            /\ i = task[t].todo[1][1] /\ q = task[t].todo[1][2]
        BY <2>1, <2>6, LineTyped
      <3>3. Len(Ordered[o]) \in Nat
        BY <3>1, QuantitiesTyped
      <3>4. /\ n < Len(Ordered[o]) /\ n + 1 \in 0 .. Len(Ordered[o])
            /\ Len(k.todo) = Len(Ordered[o]) - (n + 1)
        BY <3>1, <3>2, <3>3
      <3>5. \A m \in 1 .. Len(k.todo) : k.todo[m] = Ordered[o][(n + 1) + m]
        <4>1. ASSUME NEW m \in 1 .. Len(k.todo)
              PROVE  k.todo[m] = Ordered[o][(n + 1) + m]
          <5>1. m + 1 \in 1 .. Len(task[t].todo) /\ n + (m + 1) = (n + 1) + m
            BY <3>1, <3>2
          <5> QED  BY <3>1, <3>2, <5>1
        <4> QED  BY <4>1
      <3>6. Ordered[o][n + 1][1] = i /\ Ordered[o][n + 1][2] = q
        <4>1. 1 \in 1 .. Len(task[t].todo)
          BY <3>2
        <4> QED  BY <3>1, <3>2, <4>1
      <3>7. ASSUME NEW j \in Items
            PROVE  IF k.counts[j] = Nothing
                   THEN TakenBy(o, n + 1, j) = 0
                   ELSE stock[j] # Nothing /\ stock[j] = k.counts[j] + TakenBy(o, n + 1, j)
        <4>1. /\ TakenBy(o, n, j) \in Nat
              /\ TakenBy(o, n + 1, j) = TakenBy(o, n, j) + IF i = j THEN q ELSE 0
          BY <3>1, <3>4, <3>6, TakenTyped, TakenGrows
        <4>2. IF task[t].counts[j] = Nothing
              THEN TakenBy(o, n, j) = 0
              ELSE stock[j] # Nothing /\ stock[j] = task[t].counts[j] + TakenBy(o, n, j)
          BY <2>9 DEF Done
        <4>3. task[t].counts \in [Items -> Nat \cup {Nothing}]
          BY <2>1 DEF Task
        <4>4. CASE j = i
          <5>1. k.counts[j] = Current(t, i) - q /\ k.counts[j] # Nothing
            BY <2>2, <2>4, <2>6, <4>3, <4>4 DEF ConstantsTyped
          <5>2. TakenBy(o, n + 1, j) = TakenBy(o, n, j) + q
            BY <4>1, <4>4
          <5>3. stock[j] # Nothing /\ stock[j] = Current(t, i) + TakenBy(o, n, j)
            <6>1. CASE task[t].counts[j] = Nothing
              BY <2>3, <4>2, <4>4, <6>1 DEF Current, Written, ConstantsTyped
            <6>2. CASE task[t].counts[j] # Nothing
              BY <4>2, <4>4, <6>2 DEF Current, Written
            <6> QED  BY <6>1, <6>2
          <5> QED  BY <2>2, <2>3, <4>1, <5>1, <5>2, <5>3
        <4>5. CASE j # i
          <5>1. k.counts[j] = task[t].counts[j] /\ TakenBy(o, n + 1, j) = TakenBy(o, n, j)
            BY <2>6, <4>1, <4>3, <4>5
          <5> QED  BY <4>2, <5>1
        <4> QED  BY <4>4, <4>5
      <3> QED  BY <2>6, <3>1, <3>4, <3>5, <3>7 DEF Done
    <2>11. Deducting(stock, k)
      BY <2>7, <2>10 DEF Deducting
    <2>12. \A u \in Others(t) : i \notin task[u].locks
      <3>1. stock[i] # Nothing
        <4>1. CASE task[t].counts[i] = Nothing
          BY <2>3, <4>1 DEF Current, Written, ConstantsTyped
        <4>2. CASE task[t].counts[i] # Nothing
          BY <2>2, <2>9, <4>2 DEF Done
        <4> QED  BY <4>1, <4>2
      <3>2. AgainstLock(t, i) = {}
        BY <2>1 DEF DeductLine, WaitsFor, At
      <3> QED  BY <3>1, <3>2 DEF AgainstLock
    <2>13. task' = [task EXCEPT ![t] = k]
      BY <1>2 DEF DeductLine, k
    <2>14. UNCHANGED <<stock, par, due>>
      BY DEF DeductLine
    <2> QED  BY <2>1, <2>4, <2>5, <2>8, <2>11, <2>12, <2>13, <2>14, WriteKeeps DEF k
  <1> QED  BY <1>1, <1>2

\* The lines left of somebody who is not deducting, after one of them.
LEMMA LinesGoOn ==
    ASSUME Inv, NEW t \in Tasks, task[t].todo # <<>>
    PROVE  NextLine(t, "read") = "commit" \/ Tail(task[t].todo) # <<>>
  <1>1. /\ Len(task[t].todo) \in Nat \ {0}
        /\ Tail(task[t].todo) \in Seq(Items \X Nat)
        /\ Len(Tail(task[t].todo)) = Len(task[t].todo) - 1
    BY LineTyped
  <1>2. Tail(task[t].todo) = <<>> <=> Len(Tail(task[t].todo)) = 0
    BY <1>1, EmptyIsShort
  <1> QED  BY <1>1, <1>2 DEF NextLine

LEMMA ReadLineKeeps ==
    ASSUME ConstantsTyped, Inv, NEW t \in Tasks, ReadLine(t)
    PROVE  Inv'
  <1> DEFINE i == Item(t)
             old == Written(Current(t, i), 0)
             skipped == [task[t] EXCEPT !.stage = NextLine(t, "read"), !.todo = Tail(@)]
             logging == [task[t] EXCEPT !.stage = "log", !.old = old,
                                        !.missing = Current(t, i) = Nothing]
  <1>1. /\ task[t] \in Task /\ task[t].stage = "read" /\ task[t].kind \in {"add", "reset"}
        /\ task[t].todo # <<>> /\ Locked(task[t])
    BY DEF Inv, Typed, KindFits, ReadLine, At
  <1>2. i \in Items /\ Tail(task[t].todo) \in Seq(Items \X Nat)
    BY <1>1, LineTyped
  <1>3. old \in Nat
    BY <1>1, <1>2 DEF Inv, Typed, Task, Current, Written, ConstantsTyped
  <1>4. stock' = stock /\ par' \in [Items -> Nat \cup {Nothing}] /\ due' \subseteq Orders
    BY DEF Inv, Typed, ReadLine
  <1>5. \A u \in Others(t) : task[t].locks \cap task[u].locks = {}
    BY DEF Inv, Exclusive, Others
  <1>6. CASE task' = [task EXCEPT ![t] = skipped]
    <2>1. NextLine(t, "read") \in {"commit", "read"}
      BY DEF NextLine
    <2>2. skipped \in Task
      BY <1>1, <1>2, <2>1 DEF Task, Stages
    <2>3. /\ skipped.stage = NextLine(t, "read") /\ skipped.todo = Tail(task[t].todo)
          /\ skipped.kind = task[t].kind
          /\ skipped.counts = task[t].counts /\ skipped.locks = task[t].locks
      BY <1>1 DEF Task
    <2> HIDE DEF skipped
    <2>4. KindFits(skipped)
      BY <1>1, <2>1, <2>3, LinesGoOn DEF KindFits
    <2>5. Locked(skipped) /\ Deducting(stock, skipped)
      BY <1>1, <2>3 DEF Locked, Deducting
    <2> QED  BY <1>4, <1>5, <1>6, <2>2, <2>3, <2>4, <2>5, TaskSteps
  <1>7. CASE task' = [task EXCEPT ![t] = logging]
    <2>1. logging \in Task
      BY <1>1, <1>3 DEF Task, Stages
    <2>2. /\ logging.stage = "log" /\ logging.todo = task[t].todo
          /\ logging.kind = task[t].kind
          /\ logging.counts = task[t].counts /\ logging.locks = task[t].locks
      BY <1>1 DEF Task
    <2> HIDE DEF logging
    <2>3. KindFits(logging) /\ Locked(logging) /\ Deducting(stock, logging)
      BY <1>1, <2>2 DEF KindFits, Locked, Deducting
    <2> QED  BY <1>4, <1>5, <1>7, <2>1, <2>2, <2>3, TaskSteps
  <1>8. \/ task' = [task EXCEPT ![t] = skipped]
        \/ task' = [task EXCEPT ![t] = logging]
    BY <1>1 DEF ReadLine, Inv, Typed, Task
  <1> QED  BY <1>6, <1>7, <1>8

LEMMA LogLineKeeps ==
    ASSUME ConstantsTyped, Inv, NEW t \in Tasks, LogLine(t)
    PROVE  Inv'
  <1> DEFINE i == Item(t)
             failed == task[t].missing /\ (task[t].kind = "reset" \/ stock[i] # Nothing)
             logged == [task[t] EXCEPT !.stage = "save",
                          !.shares = @ \cup {i},
                          !.locks = IF task[t].missing THEN @ \cup {i} ELSE @,
                          !.shown[i] = Written(TargetShown(t), @)]
  <1>1. CASE failed
    BY <1>1, EndKeeps DEF LogLine
  <1>2. CASE ~ failed
    <2>1. /\ task[t] \in Task /\ task[t].stage = "log" /\ task[t].kind \in {"add", "reset"}
          /\ task[t].todo # <<>> /\ Locked(task[t])
      BY DEF Inv, Typed, KindFits, LogLine, At
    <2>2. i \in Items
      BY <2>1, LineTyped
    <2>3. Written(TargetShown(t), task[t].shown[i]) \in BOOLEAN \cup {Nothing}
      <3>1. TargetShown(t) \in BOOLEAN \cup {Nothing}
        BY ShownTyped DEF TargetShown
      <3>2. task[t].shown[i] \in BOOLEAN \cup {Nothing}
        BY <2>1, <2>2 DEF Task
      <3> QED  BY <3>1, <3>2, WrittenTyped
    <2>4. task' = [task EXCEPT ![t] = logged]
      <3>1. task \in [Tasks -> Task]
        BY DEF Inv, Typed
      <3> QED  BY <1>2, <2>1, <2>2, <3>1 DEF LogLine
    <2>5. logged \in Task
      <3>1. [task[t].shown EXCEPT ![i] = Written(TargetShown(t), @)]
              \in [Items -> BOOLEAN \cup {Nothing}]
        BY <2>1, <2>2, <2>3 DEF Task
      <3>2. (IF task[t].missing THEN task[t].locks \cup {i} ELSE task[t].locks) \in SUBSET Items
        BY <2>1, <2>2 DEF Task
      <3> QED  BY <2>1, <2>2, <3>1, <3>2 DEF Task, Stages
    <2>6. /\ logged.stage = "save" /\ logged.todo = task[t].todo
          /\ logged.kind = task[t].kind /\ logged.counts = task[t].counts
          /\ logged.locks = IF task[t].missing THEN task[t].locks \cup {i} ELSE task[t].locks
      BY <2>1 DEF Task
    <2> HIDE DEF logged
    <2>7. KindFits(logged) /\ Locked(logged) /\ Deducting(stock, logged)
      BY <2>1, <2>6 DEF KindFits, Locked, Deducting
    <2>8. \A u \in Others(t) : logged.locks \cap task[u].locks = {}
      <3>1. \A u \in Others(t) : task[t].locks \cap task[u].locks = {}
        BY DEF Inv, Exclusive, Others
      <3>2. CASE task[t].missing
        <4>1. stock[i] = Nothing
          BY <1>2, <3>2
        <4>2. AgainstLog(t, i) = {}
          BY <2>1 DEF LogLine, WaitsFor, At
        <4>3. \A u \in Others(t) : i \notin task[u].locks
          BY <4>1, <4>2 DEF AgainstLog
        <4> QED  BY <2>6, <3>1, <4>3
      <3>3. CASE ~ task[t].missing
        BY <2>6, <3>1, <3>3
      <3> QED  BY <3>2, <3>3
    <2>9. stock' = stock /\ par' \in [Items -> Nat \cup {Nothing}] /\ due' \subseteq Orders
      BY DEF Inv, Typed, LogLine
    <2> QED  BY <2>4, <2>5, <2>7, <2>8, <2>9, TaskSteps
  <1> QED  BY <1>1, <1>2

LEMMA SaveLineKeeps ==
    ASSUME ConstantsTyped, Inv, NEW t \in Tasks, SaveLine(t)
    PROVE  Inv'
  <1> DEFINE k == LineDone(t, Target(t), Nothing)
  <1>1. /\ task[t] \in Task /\ task[t].stage = "save" /\ task[t].kind \in {"add", "reset"}
        /\ task[t].todo # <<>>
    BY DEF Inv, Typed, KindFits, SaveLine, At
  <1>2. Target(t) \in Nat
    <2>1. Quantity(t) \in Nat /\ task[t].old \in Nat
      BY <1>1, LineTyped DEF Task
    <2> QED  BY <1>1, <2>1 DEF Target
  <1> HIDE DEF k
  <1>3. /\ k.todo = Tail(task[t].todo) /\ k.stage = NextLine(t, "read")
        /\ k.kind = task[t].kind
    BY <1>1, <1>2, LineDoneIs DEF k
  <1>4. KindFits(k) /\ Deducting(stock, k)
    BY <1>1, <1>3, LinesGoOn DEF KindFits, Deducting, NextLine
  <1>5. \A u \in Others(t) : Item(t) \notin task[u].locks
    <2>1. AgainstSave(t, Item(t)) = {}
      BY <1>1 DEF SaveLine, WaitsFor, At
    <2> QED  BY <2>1 DEF AgainstSave
  <1>6. task' = [task EXCEPT ![t] = k] /\ UNCHANGED <<stock, par, due>>
    BY DEF SaveLine, k
  <1> QED  BY <1>1, <1>2, <1>4, <1>5, <1>6, WriteKeeps DEF k

----------------------------------------------------------------------------
(* The other steps *)

\* Another task's rows stay as they were when t commits what it has written and locked.
LEMMA CommitKeeps ==
    ASSUME ConstantsTyped, Inv, NEW t \in Tasks, Commit(t)
    PROVE  Inv'
  <1> DEFINE k == Ended(t)
  <1>1. k \in Task /\ KindFits(k) /\ k.counts = Idle.counts /\ k.locks = {}
        /\ k.stage \in {"idle", "ack"}
    <2>1. task[t].order \in Orders \cup {Nothing}
      BY DEF Inv, Typed, Task
    <2> QED  BY <2>1, IdleFits DEF Ended, Idle, Task, Stages, KindFits
  <1> HIDE DEF k
  <1>2. Locked(k) /\ Deducting(stock', k)
    BY <1>1 DEF Locked, Deducting, Idle
  <1>3. stock' = [i \in Items |-> Written(task[t].counts[i], stock[i])]
        /\ task' = [task EXCEPT ![t] = k]
    BY DEF Commit, k
  <1>4. task[t].counts \in [Items -> Nat \cup {Nothing}]
        /\ task \in [Tasks -> Task] /\ stock \in [Items -> Nat \cup {Nothing}]
    BY DEF Inv, Typed, Task
  <1>5. Typed'
    <2>1. stock' \in [Items -> Nat \cup {Nothing}]
      BY <1>3, <1>4 DEF Written
    <2> QED  BY <1>1, <1>3, <1>4, <2>1 DEF Inv, Typed, Commit
  <1>6. task'[t] = k /\ \A u \in Others(t) : task'[u] = task[u]
    BY <1>3, <1>4 DEF Others
  <1>7. ASSUME NEW u \in Others(t)
        PROVE  Deducting(stock', task[u])
    <2>1. ASSUME NEW n \in Nat, Done(stock, task[u], n)
          PROVE  Done(stock', task[u], n)
      <3>1. ASSUME NEW i \in Items, task[u].counts[i] # Nothing
            PROVE  stock'[i] = stock[i]
        <4>1. i \in task[u].locks
          BY <3>1 DEF Inv, Locked, Others
        <4>2. i \notin task[t].locks
          BY <4>1 DEF Inv, Exclusive, Others
        <4>3. task[t].counts[i] = Nothing
          BY <4>2 DEF Inv, Locked
        <4> QED  BY <1>3, <4>3 DEF Written
      <3> QED  BY <2>1, <3>1 DEF Done
    <2>2. Deducting(stock, task[u])
      BY DEF Inv, Others
    <2> QED  BY <2>1, <2>2 DEF Deducting
  <1>8. ASSUME NEW u \in Tasks
        PROVE  KindFits(task'[u]) /\ Locked(task'[u]) /\ Deducting(stock', task'[u])
    <2>1. KindFits(task[u]) /\ Locked(task[u])
      BY DEF Inv
    <2> QED  BY <1>1, <1>2, <1>6, <1>7, <2>1 DEF Others
  <1>9. Exclusive'
    BY <1>1, <1>6 DEF Inv, Exclusive, Others
  <1> QED  BY <1>5, <1>8, <1>9 DEF Inv

LEMMA HandleOrderKeeps ==
    ASSUME ConstantsTyped, Inv, NEW t \in Tasks, NEW o \in Orders, HandleOrderCompleted(t, o)
    PROVE  Inv'
  <1> DEFINE k == [Idle EXCEPT !.kind = "deduct", !.stage = "lock", !.order = o,
                               !.todo = Ordered[o]]
  <1>1. Ordered[o] \in Seq(Items \X Nat) /\ Ordered[o] # <<>>
    BY DEF ConstantsTyped
  <1>2. /\ k \in Task /\ k.kind = "deduct" /\ k.stage = "lock" /\ k.order = o
        /\ k.todo = Ordered[o] /\ k.counts = [i \in Items |-> Nothing] /\ k.locks = {}
    BY <1>1, IdleFits DEF Idle, Task, Stages
  <1> HIDE DEF k
  <1>3. Done(stock, k, 0)
    <2>1. Len(Ordered[o]) \in Nat
      BY QuantitiesTyped
    <2>2. \A m \in 1 .. Len(k.todo) : k.todo[m] = Ordered[k.order][0 + m]
      BY <1>2, <2>1
    <2>3. \A i \in Items : TakenBy(o, 0, i) = 0
      BY NoneTaken
    <2> QED  BY <1>2, <2>1, <2>2, <2>3 DEF Done
  <1>4. KindFits(k) /\ Locked(k) /\ Deducting(stock, k)
    BY <1>1, <1>2, <1>3 DEF KindFits, Locked, Deducting
  <1>5. stock' = stock /\ par' \in [Items -> Nat \cup {Nothing}] /\ due' \subseteq Orders
        /\ task' = [task EXCEPT ![t] = k]
    BY DEF HandleOrderCompleted, Inv, Typed, k
  <1>6. \A u \in Others(t) : k.locks \cap task[u].locks = {}
    BY <1>2
  <1> QED  BY <1>2, <1>4, <1>5, <1>6, TaskSteps

\* The owner, or the daily task, begins with a list of lines.
LEMMA BeginKeeps ==
    ASSUME ConstantsTyped, Inv, NEW t \in Tasks, NEW kind \in {"add", "reset"},
           NEW todo \in Seq(Items \X Nat), Begin(t, kind, todo)
    PROVE  Inv'
  <1> DEFINE k == [Idle EXCEPT !.kind = kind, !.stage = "read", !.todo = todo]
  <1>1. /\ k \in Task /\ k.kind = kind /\ k.stage = "read" /\ k.todo = todo
        /\ k.counts = Idle.counts /\ k.locks = {}
    BY IdleFits DEF Idle, Task, Stages
  <1> HIDE DEF k
  <1>2. KindFits(k)
    BY <1>1 DEF KindFits, Begin
  <1>3. stock' = stock /\ par' \in [Items -> Nat \cup {Nothing}] /\ due' \subseteq Orders
        /\ task' = [task EXCEPT ![t] = k]
    BY DEF Begin, Inv, Typed, k
  <1> QED  BY <1>1, <1>2, <1>3, QuietSteps

LEMMA ListsTyped ==
    ASSUME NEW items \in Lists
    PROVE  \E n \in Nat : items \in [1 .. n -> Items] /\ DOMAIN items = 1 .. n
  <1>1. PICK n \in 1 .. 2 : items \in [1 .. n -> Items]
    BY DEF Lists
  <1> QED  BY <1>1

LEMMA AskKeeps ==
    ASSUME ConstantsTyped, Inv, NEW t \in Tasks, Ask(t)
    PROVE  Inv'
  <1>1. ASSUME NEW items \in Lists, AddStock(t, [n \in DOMAIN items |-> <<items[n], 1>>])
        PROVE  Inv'
    <2> DEFINE todo == [n \in DOMAIN items |-> <<items[n], 1>>]
    <2>1. todo \in Seq(Items \X Nat)
      BY ListsTyped
    <2> QED  BY <1>1, <2>1, BeginKeeps DEF AddStock
  <1>2. ASSUME NEW items \in Lists, HandleDailyStockReset(t, items)
        PROVE  Inv'
    <2> DEFINE todo == [n \in DOMAIN items |-> <<items[n], par[items[n]]>>]
    <2>1. todo \in Seq(Items \X Nat)
      <3>1. PICK n \in Nat : items \in [1 .. n -> Items] /\ DOMAIN items = 1 .. n
        BY ListsTyped
      <3>2. \A m \in 1 .. n : par[items[m]] # Nothing
        BY <1>2, <3>1 DEF HandleDailyStockReset
      <3>3. \A m \in 1 .. n : par[items[m]] \in Nat
        BY <3>1, <3>2 DEF Inv, Typed
      <3> QED  BY <3>1, <3>3
    <2> QED  BY <1>2, <2>1, BeginKeeps DEF HandleDailyStockReset
  <1> QED  BY <1>1, <1>2 DEF Ask

\* A task is over, or dead.
LEMMA EndsIdle ==
    ASSUME ConstantsTyped, Inv, NEW t \in Tasks, task' = [task EXCEPT ![t] = Idle],
           stock' = stock, par' \in [Items -> Nat \cup {Nothing}], due' \subseteq Orders
    PROVE  Inv'
  <1>1. /\ Idle \in Task /\ KindFits(Idle) /\ Idle.locks = {}
        /\ Idle.kind # "deduct" \/ Idle.stage \notin {"lock", "commit"}
    BY IdleFits DEF Idle
  <1> QED  BY <1>1, QuietSteps

\* The task that shows and hides items holds no row, and so does one that ends.
LEMMA SyncKeeps ==
    ASSUME ConstantsTyped, Inv, NEW t \in Tasks,
           \/ SyncAvailability(t) \/ ShowStocked(t) \/ SelectSoldOut(t) \/ HideSoldOut(t)
    PROVE  Inv'
  <1>1. /\ task[t] \in Task /\ Locked(task[t]) /\ task \in [Tasks -> Task]
        /\ \A u \in Others(t) : task[t].locks \cap task[u].locks = {}
    BY DEF Inv, Typed, Exclusive, Others
  <1>2. stock' = stock /\ par' \in [Items -> Nat \cup {Nothing}] /\ due' \subseteq Orders
    BY DEF Inv, Typed, SyncAvailability, ShowStocked, SelectSoldOut, HideSoldOut
  <1>3. CASE SyncAvailability(t)
    <2> DEFINE ids == {i \in Items : ~ offered[i] /\ Written(stock[i], 0) > 0}
               k == [Idle EXCEPT !.kind = "sync", !.stage = "show", !.ids = ids]
    <2>1. task' = [task EXCEPT ![t] = k]
      BY <1>3 DEF SyncAvailability
    <2>2. ids \in SUBSET Items
      OBVIOUS
    <2> HIDE DEF ids
    <2>3. k \in Task /\ KindFits(k) /\ k.kind = "sync" /\ k.counts = Idle.counts /\ k.locks = {}
      BY <2>2, IdleFits DEF Idle, Task, Stages, KindFits
    <2> HIDE DEF k
    <2> QED  BY <1>2, <2>1, <2>3, QuietSteps
  <1>4. CASE ShowStocked(t) \/ SelectSoldOut(t)
    <2>1. PICK stage \in {"select", "hide"}, ids \in SUBSET Items :
            task' = [task EXCEPT ![t].stage = stage, ![t].ids = ids]
      <3>1. {i \in Items : offered[i] /\ stock[i] = 0} \in SUBSET Items /\ {} \in SUBSET Items
        OBVIOUS
      <3> QED  BY <1>4, <3>1 DEF ShowStocked, SelectSoldOut
    <2> DEFINE k == [task[t] EXCEPT !.stage = stage, !.ids = ids]
    <2>2. task' = [task EXCEPT ![t] = k]
      BY <1>1, <2>1
    <2>3. /\ k \in Task /\ k.stage = stage
          /\ k.counts = task[t].counts /\ k.locks = task[t].locks
      BY <1>1 DEF Task, Stages
    <2> HIDE DEF k
    <2>4. KindFits(k) /\ Locked(k) /\ Deducting(stock, k)
      BY <1>1, <2>3 DEF KindFits, Locked, Deducting
    <2> QED  BY <1>1, <1>2, <2>2, <2>3, <2>4, TaskSteps
  <1>5. CASE HideSoldOut(t)
    <2>1. task' = [task EXCEPT ![t] = Idle]
      BY <1>5 DEF HideSoldOut
    <2> QED  BY <1>2, <2>1, EndsIdle
  <1> QED  BY <1>3, <1>4, <1>5

----------------------------------------------------------------------------
(* Every step *)

LEMMA WorkKeeps ==
    ASSUME ConstantsTyped, Inv, NEW t \in Tasks, Work(t) \/ Crash(t)
    PROVE  Inv'
  <1>1. CASE Acknowledge(t)
    <2>1. /\ task' = [task EXCEPT ![t] = Idle] /\ stock' = stock
          /\ par' \in [Items -> Nat \cup {Nothing}] /\ due' \subseteq Orders
      BY <1>1 DEF Acknowledge, Inv, Typed
    <2> QED  BY <2>1, EndsIdle
  <1>2. CASE BreakDeadlock(t)
    BY <1>2, EndKeeps DEF BreakDeadlock
  <1>3. CASE Crash(t)
    <2>1. /\ task' = [task EXCEPT ![t] = Idle] /\ stock' = stock
          /\ par' \in [Items -> Nat \cup {Nothing}] /\ due' \subseteq Orders
      BY <1>3 DEF Crash, Inv, Typed
    <2> QED  BY <2>1, EndsIdle
  <1> QED  BY <1>1, <1>2, <1>3, HandleOrderKeeps, DeductLineKeeps, ReadLineKeeps, LogLineKeeps,
              SaveLineKeeps, CommitKeeps, SyncKeeps DEF Work

\* What changes neither tasks nor counts.
LEMMA ElsewhereKeeps ==
    ASSUME Inv, UNCHANGED <<stock, due, task>>, par' \in [Items -> Nat \cup {Nothing}]
    PROVE  Inv'
  BY DEF Inv, Typed, Exclusive

LEMMA InvKept ==
    ASSUME ConstantsTyped, Inv, [Next]_vars
    PROVE  Inv'
  <1>1. CASE \E t \in Tasks : Ask(t) \/ Work(t) \/ Crash(t)
    BY <1>1, AskKeeps, WorkKeeps
  <1>2. ASSUME NEW items \in SUBSET Items, NEW level \in {0, MaxStock},
               BulkSetParLevels(items, level)
        PROVE  Inv'
    <2>1. par' \in [Items -> Nat \cup {Nothing}]
      BY <1>2 DEF BulkSetParLevels, Inv, Typed, ConstantsTyped
    <2> QED  BY <1>2, <2>1, ElsewhereKeeps DEF BulkSetParLevels
  <1>3. ASSUME NEW i \in Items, RemoveParLevel(i) \/ ToggleMenuAvailability(i)
        PROVE  Inv'
    <2>1. par' \in [Items -> Nat \cup {Nothing}]
      BY <1>3 DEF RemoveParLevel, ToggleMenuAvailability, Inv, Typed
    <2> QED  BY <1>3, <2>1, ElsewhereKeeps DEF RemoveParLevel, ToggleMenuAvailability
  <1>4. CASE UNCHANGED vars
    <2>1. par' \in [Items -> Nat \cup {Nothing}]
      BY <1>4 DEF vars, Inv, Typed
    <2> QED  BY <1>4, <2>1, ElsewhereKeeps DEF vars
  <1> QED  BY <1>1, <1>2, <1>3, <1>4 DEF Next

\* Only the commit of a deduction leads from there to the acknowledgment.
LEMMA OnlyCommits ==
    ASSUME Inv, NEW t \in Tasks, [Next]_vars, At(t, "commit"), task'[t].stage = "ack"
    PROVE  Commit(t) /\ task[t].kind = "deduct"
  <1>1. task \in [Tasks -> Task] /\ task[t].stage = "commit"
    BY DEF Inv, Typed, At
  <1>2. ASSUME NEW u \in Tasks, u # t, Ask(u) \/ Work(u) \/ Crash(u)
        PROVE  FALSE
    <2>1. task'[t] = task[t]
      BY <1>1, <1>2 DEF Ask, AddStock, HandleDailyStockReset, Begin, Work, HandleOrderCompleted,
           DeductLine, ReadLine, LogLine, SaveLine, Commit, Acknowledge, SyncAvailability,
           ShowStocked, SelectSoldOut, HideSoldOut, BreakDeadlock, RollBack, Crash
    <2> QED  BY <1>1, <2>1
  <1>3. WaitsFor(t) = {}
    BY <1>1 DEF WaitsFor, At
  <1>4. ~ BreakDeadlock(t)
    BY <1>3 DEF BreakDeadlock
  <1>5. ~ Crash(t)
    BY <1>1 DEF Crash, Idle
  <1>6. CASE Ask(t) \/ Work(t)
    <2>1. Commit(t)
      BY <1>1, <1>4, <1>6 DEF Ask, AddStock, HandleDailyStockReset, Begin, Work,
           HandleOrderCompleted, DeductLine, ReadLine, LogLine, SaveLine, Acknowledge,
           SyncAvailability, ShowStocked, SelectSoldOut, HideSoldOut, At
    <2>2. task'[t] = Ended(t)
      BY <1>1, <2>1 DEF Commit
    <2> QED  BY <2>1, <2>2 DEF Ended, Idle
  <1>7. task' # task
    BY <1>1
  <1>8. \E u \in Tasks : Ask(u) \/ Work(u) \/ Crash(u)
    BY <1>7 DEF Next, vars, BulkSetParLevels, RemoveParLevel, ToggleMenuAvailability
  <1> QED  BY <1>2, <1>5, <1>6, <1>8

LEMMA CommitsExactly ==
    ASSUME ConstantsTyped, Inv, NEW t \in Tasks, Commit(t), task[t].kind = "deduct",
           NEW i \in Items
    PROVE  Written(stock[i], 0) - Written(stock'[i], 0) = OrderedOf(task[t].order, i)
  <1> DEFINE o == task[t].order
  <1>1. PICK n \in Nat : Done(stock, task[t], n) /\ task[t].todo = <<>>
    BY DEF Inv, Deducting, Commit, At
  <1>2. o \in Orders /\ n = Len(Ordered[o])
    <2>1. o \in Orders /\ n \in Nat /\ 0 = Len(Ordered[o]) - n
      BY <1>1 DEF Done
    <2>2. Len(Ordered[o]) \in Nat
      BY <2>1, QuantitiesTyped
    <2> QED  BY <2>1, <2>2
  <1>3. TakenBy(o, n, i) = OrderedOf(o, i)
    BY <1>2, AllTaken
  <1>4. TakenBy(o, n, i) \in Nat
    <2>1. n \in 0 .. Len(Ordered[o])
      BY <1>1 DEF Done
    <2> QED  BY <1>2, <2>1, TakenTyped
  <1>5. /\ stock[i] \in Nat \cup {Nothing} /\ task[t].counts[i] \in Nat \cup {Nothing}
        /\ stock'[i] = Written(task[t].counts[i], stock[i])
    BY DEF Inv, Typed, Task, Commit
  <1>6. IF task[t].counts[i] = Nothing
        THEN TakenBy(o, n, i) = 0
        ELSE stock[i] # Nothing /\ stock[i] = task[t].counts[i] + TakenBy(o, n, i)
    BY <1>1 DEF Done
  <1>7. CASE task[t].counts[i] = Nothing
    <2>1. stock'[i] = stock[i] /\ Written(stock[i], 0) \in Nat
      BY <1>5, <1>7 DEF Written
    <2> QED  BY <1>3, <1>6, <1>7, <2>1
  <1>8. CASE task[t].counts[i] # Nothing
    BY <1>3, <1>4, <1>5, <1>6, <1>8 DEF Written
  <1> QED  BY <1>7, <1>8

----------------------------------------------------------------------------
(* The theorems *)

\* Who has written a row holds its lock, nobody else does, and an order in work has taken what
\* its lines so far say.
THEOREM RowsAreLocked ==
    ASSUME ConstantsTyped
    PROVE  Spec => []Inv
  <1>1. Init => Inv
    BY InvInitially
  <1>2. Inv /\ [Next]_vars => Inv'
    BY InvKept
  <1> QED  BY <1>1, <1>2, PTL DEF Spec

\* Whatever owners, the daily task, other orders and failures do meanwhile, and however often an
\* order names an item: an order that commits has taken exactly what it says.
THEOREM Exact ==
    ASSUME ConstantsTyped
    PROVE  Spec => DeductionsExact
  <1>1. Inv /\ [Next]_vars
        => [\A t \in Tasks : At(t, "commit") /\ task'[t].stage = "ack"
              => \A i \in Items :
                   Written(stock[i], 0) - Written(stock'[i], 0) = OrderedOf(task[t].order, i)]_vars
    BY OnlyCommits, CommitsExactly
  <1> QED  BY <1>1, RowsAreLocked, PTL DEF Spec, DeductionsExact

----------------------------------------------------------------------------
(***************************************************************************)
(* No count goes below zero, and none grows beyond what was there at first *)
(* or is the par level and what owners have added since.  Every change an  *)
(* owner makes raises what an item may reach by one, and a line that adds  *)
(* to an item and has not been saved yet has that one still before it.     *)
(***************************************************************************)

\* The bounds of the model are numbers, and no line of an order exceeds them.
BoundsTyped ==
    /\ IsFiniteSet(Tasks)
    /\ MaxEdits \in Nat
    /\ MaxFaults \in Nat
    /\ Ordered \in [Orders -> Seq(Line)]

\* The items a task is still going to add to.
ToAdd(k) == IF k.kind = "add" THEN {k.todo[m][1] : m \in 1 .. Len(k.todo)} ELSE {}

Adding(i) == {t \in Tasks : i \in ToAdd(task[t])}

\* What the count of an item may have reached by now.
Cap == [i \in Items |-> MaxStock + edits - Cardinality(Adding(i))]

Within(k, cap) ==
    /\ k.old <= MaxStock + MaxEdits
    /\ k.todo \in Seq(Line)
    /\ \A i \in Items : k.counts[i] # Nothing => k.counts[i] <= cap[i]
    /\ k.kind = "add" => /\ \A m \in 1 .. Len(k.todo) : k.todo[m][2] = 1
                         /\ \A m, n \in 1 .. Len(k.todo) : k.todo[m][1] = k.todo[n][1] => m = n
    /\ k.kind = "reset" => \A m \in 1 .. Len(k.todo) : k.todo[m][2] <= MaxStock
    /\ k.stage \in {"log", "save"} => k.old <= cap[k.todo[1][1]]

Bounds ==
    /\ offered \in [Items -> BOOLEAN]
    /\ edits \in 0 .. MaxEdits
    /\ faults \in 0 .. MaxFaults
    /\ \A i \in Items : /\ MaxStock <= Cap[i]
                        /\ stock[i] # Nothing => stock[i] <= Cap[i]
                        /\ par[i] # Nothing => par[i] <= MaxStock
    /\ \A t \in Tasks : Within(task[t], Cap)

\* What every step does to the bounds.
Raised == \A i \in Items : Cap[i] <= Cap'[i]

LEMMA CapTyped ==
    ASSUME ConstantsTyped, BoundsTyped, Bounds, NEW i \in Items
    PROVE  /\ IsFiniteSet(Adding(i)) /\ Cardinality(Adding(i)) \in Nat
           /\ Cap[i] \in Nat /\ Cap[i] <= MaxStock + MaxEdits
  <1>1. IsFiniteSet(Adding(i))
    BY FS_Subset DEF Adding, BoundsTyped
  <1>2. Cardinality(Adding(i)) \in Nat
    BY <1>1, FS_CardinalityType
  <1>3. Cap[i] = MaxStock + edits - Cardinality(Adding(i)) /\ MaxStock <= Cap[i]
    BY DEF Cap, Bounds
  <1> QED  BY <1>1, <1>2, <1>3 DEF ConstantsTyped, BoundsTyped, Bounds

LEMMA CapOf == \A i \in Items : Cap'[i] = MaxStock + edits' - Cardinality(Adding(i)')
  BY DEF Cap

\* Nothing more is going to be added.
LEMMA CapGrows ==
    ASSUME ConstantsTyped, BoundsTyped, Bounds, NEW i \in Items,
           edits' \in Nat, edits <= edits', Adding(i)' \subseteq Adding(i)
    PROVE  /\ Cap'[i] \in Int /\ Cap[i] <= Cap'[i]
           /\ Adding(i)' # Adding(i) => Cap[i] + 1 <= Cap'[i]
  <1>1. IsFiniteSet(Adding(i)) /\ Cardinality(Adding(i)) \in Nat
    BY CapTyped
  <1>2. /\ IsFiniteSet(Adding(i)')
        /\ Cardinality(Adding(i)') \in Nat
        /\ Cardinality(Adding(i)') <= Cardinality(Adding(i))
        /\ Adding(i)' # Adding(i) => Cardinality(Adding(i)') < Cardinality(Adding(i))
    BY <1>1, FS_Subset, FS_CardinalityType
  <1>3. Cap[i] = MaxStock + edits - Cardinality(Adding(i)) /\ edits \in Nat /\ MaxStock \in Nat
    BY DEF Cap, Bounds, ConstantsTyped
  <1> QED  BY <1>1, <1>2, <1>3, CapOf

\* An owner asks: one task more may add to an item.
LEMMA CapAsked ==
    ASSUME ConstantsTyped, BoundsTyped, Bounds, NEW i \in Items, NEW t,
           edits' = edits + 1, Adding(i)' \subseteq Adding(i) \cup {t}
    PROVE  Cap'[i] \in Int /\ Cap[i] <= Cap'[i]
  <1>1. IsFiniteSet(Adding(i)) /\ Cardinality(Adding(i)) \in Nat
    BY CapTyped
  <1>2. /\ IsFiniteSet(Adding(i) \cup {t})
        /\ \/ Cardinality(Adding(i) \cup {t}) = Cardinality(Adding(i)) + 1
           \/ Cardinality(Adding(i) \cup {t}) = Cardinality(Adding(i))
    <2> DEFINE A == Adding(i)
    <2>1. IsFiniteSet(A)
      BY <1>1
    <2> HIDE DEF A
    <2>2. /\ IsFiniteSet(A \cup {t})
          /\ Cardinality(A \cup {t}) = IF t \in A THEN Cardinality(A) ELSE Cardinality(A) + 1
      BY <2>1, FS_AddElement
    <2> QED  BY <2>2 DEF A
  <1>3. /\ Cardinality(Adding(i)') \in Nat
        /\ Cardinality(Adding(i)') <= Cardinality(Adding(i) \cup {t})
    BY <1>2, FS_Subset, FS_CardinalityType
  <1>4. Cap[i] = MaxStock + edits - Cardinality(Adding(i)) /\ edits \in Nat /\ MaxStock \in Nat
    BY DEF Cap, Bounds, ConstantsTyped
  <1> QED  BY <1>1, <1>2, <1>3, <1>4, CapOf

LEMMA StaysWithin ==
    ASSUME ConstantsTyped, BoundsTyped, Inv, Bounds, Raised, \A i \in Items : Cap'[i] \in Int,
           NEW t \in Tasks
    PROVE  Within(task[t], Cap')
  <1>1. task[t] \in Task /\ Within(task[t], Cap) /\ KindFits(task[t])
    BY DEF Inv, Typed, Bounds
  <1>2. \A i \in Items : Cap[i] \in Nat
    BY CapTyped
  <1>3. \A i \in Items : task[t].counts[i] # Nothing => task[t].counts[i] <= Cap'[i]
    <2>1. \A i \in Items : task[t].counts[i] \in Nat \cup {Nothing}
      BY <1>1 DEF Task
    <2> QED  BY <1>1, <1>2, <2>1 DEF Within, Raised
  <1>4. ASSUME task[t].stage \in {"log", "save"}
        PROVE  task[t].old <= Cap'[task[t].todo[1][1]]
    <2>1. task[t].todo[1][1] \in Items /\ task[t].old \in Nat
      BY <1>1, <1>4, LineTyped DEF KindFits, Task
    <2> QED  BY <1>1, <1>2, <1>4, <2>1 DEF Within, Raised
  <1> QED  BY <1>1, <1>3, <1>4 DEF Within

\* One task goes on to k.
LEMMA BoundSteps ==
    ASSUME ConstantsTyped, BoundsTyped, Inv, Bounds, NEW t \in Tasks, NEW k,
           task' = [task EXCEPT ![t] = k], Within(k, Cap'),
           Raised, \A i \in Items : Cap'[i] \in Int,
           \A i \in Items : stock'[i] # Nothing => stock'[i] <= Cap'[i],
           par' = par, offered' \in [Items -> BOOLEAN],
           edits' \in 0 .. MaxEdits, faults' \in 0 .. MaxFaults
    PROVE  Bounds'
  <1>1. \A u \in Tasks : Within(task'[u], Cap')
    <2>1. task'[t] = k /\ \A u \in Tasks : u # t => task'[u] = task[u]
      BY DEF Inv, Typed
    <2> QED  BY <2>1, StaysWithin
  <1>2. \A i \in Items : MaxStock <= Cap'[i]
    <2>1. \A i \in Items : Cap[i] \in Nat /\ MaxStock <= Cap[i]
      BY CapTyped DEF Bounds
    <2> QED  BY <2>1 DEF Raised, ConstantsTyped
  <1> QED  BY <1>1, <1>2 DEF Bounds

\* It adds to nothing more, and commits nothing.
LEMMA OneGoesOn ==
    ASSUME ConstantsTyped, BoundsTyped, Inv, Bounds, NEW t \in Tasks, NEW k,
           task' = [task EXCEPT ![t] = k], ToAdd(k) \subseteq ToAdd(task[t]),
           (\A i \in Items : Cap[i] <= Cap'[i] /\ Cap'[i] \in Int
                /\ (i \in ToAdd(task[t]) \ ToAdd(k) => Cap[i] + 1 <= Cap'[i]))
               => Within(k, Cap'),
           stock' = stock, par' = par, offered' \in [Items -> BOOLEAN],
           edits' = edits, faults' \in 0 .. MaxFaults
    PROVE  Bounds'
  <1>1. task'[t] = k /\ \A u \in Tasks : u # t => task'[u] = task[u]
    BY DEF Inv, Typed
  <1>2. \A i \in Items : /\ Adding(i)' \subseteq Adding(i)
                         /\ i \in ToAdd(task[t]) \ ToAdd(k) => Adding(i)' # Adding(i)
    BY <1>1 DEF Adding
  <1>3. edits' \in Nat /\ edits <= edits' /\ edits' \in 0 .. MaxEdits
    BY DEF Bounds, BoundsTyped
  <1>4. \A i \in Items : /\ Cap[i] <= Cap'[i] /\ Cap'[i] \in Int
                         /\ i \in ToAdd(task[t]) \ ToAdd(k) => Cap[i] + 1 <= Cap'[i]
    BY <1>2, <1>3, CapGrows
  <1>5. \A i \in Items : stock'[i] # Nothing => stock'[i] <= Cap'[i]
    <2>1. \A i \in Items : stock[i] \in Nat \cup {Nothing} /\ Cap[i] \in Nat
      BY CapTyped DEF Inv, Typed
    <2> QED  BY <1>4, <2>1 DEF Bounds
  <1>6. Within(k, Cap')
    BY <1>4
  <1> QED  BY <1>3, <1>4, <1>5, <1>6, BoundSteps DEF Raised

----------------------------------------------------------------------------
(* Steps that leave nothing to do *)

\* A task that has nothing written and nothing left is within any bound.
LEMMA RestsWithin ==
    ASSUME ConstantsTyped, BoundsTyped, NEW k, NEW cap, k.old = 0, k.todo = <<>>,
           \A i \in Items : k.counts[i] = Nothing, k.stage \notin {"log", "save"}
    PROVE  Within(k, cap) /\ ToAdd(k) = {}
  BY DEF Within, ToAdd, ConstantsTyped, BoundsTyped

LEMMA IdleRests ==
    /\ Idle.old = 0 /\ Idle.todo = <<>> /\ Idle.stage = "idle"
    /\ \A i \in Items : Idle.counts[i] = Nothing
  BY DEF Idle

LEMMA EndedRests ==
    ASSUME NEW t \in Tasks
    PROVE  /\ Ended(t).old = 0 /\ Ended(t).todo = <<>> /\ Ended(t).stage \in {"idle", "ack"}
           /\ \A i \in Items : Ended(t).counts[i] = Nothing
  BY DEF Ended, Idle

\* RollBack, the end of a task, and the beginning of a sync.
LEMMA RestBounded ==
    ASSUME ConstantsTyped, BoundsTyped, Inv, Bounds, NEW t \in Tasks, NEW k,
           task' = [task EXCEPT ![t] = k], k.old = 0, k.todo = <<>>,
           \A i \in Items : k.counts[i] = Nothing, k.stage \notin {"log", "save"},
           stock' = stock, par' = par, offered' \in [Items -> BOOLEAN],
           edits' = edits, faults' \in 0 .. MaxFaults
    PROVE  Bounds'
  BY RestsWithin, OneGoesOn

LEMMA RollBackBounded ==
    ASSUME ConstantsTyped, BoundsTyped, Inv, Bounds, NEW t \in Tasks, RollBack(t),
           UNCHANGED <<stock, offered, par, due, edits, faults>>
    PROVE  Bounds'
  <1>1. task' = [task EXCEPT ![t] = Ended(t)]
    BY DEF RollBack
  <1>2. offered' \in [Items -> BOOLEAN] /\ faults' \in 0 .. MaxFaults
    BY DEF Bounds
  <1> QED  BY <1>1, <1>2, EndedRests, RestBounded

LEMMA CommitBounded ==
    ASSUME ConstantsTyped, BoundsTyped, Inv, Bounds, NEW t \in Tasks, Commit(t)
    PROVE  Bounds'
  <1>1. task' = [task EXCEPT ![t] = Ended(t)]
    BY DEF Commit
  <1>2. Within(Ended(t), Cap') /\ ToAdd(Ended(t)) = {}
    BY EndedRests, RestsWithin
  <1>3. \A i \in Items : Cap[i] \in Nat /\ Cap[i] <= Cap'[i] /\ Cap'[i] \in Int
    <2>1. task'[t] = Ended(t) /\ \A u \in Tasks : u # t => task'[u] = task[u]
      BY <1>1 DEF Inv, Typed
    <2>2. \A i \in Items : Adding(i)' \subseteq Adding(i)
      BY <1>2, <2>1 DEF Adding
    <2>3. edits' \in Nat /\ edits <= edits'
      BY DEF Bounds, BoundsTyped, Commit
    <2> QED  BY <2>2, <2>3, CapGrows, CapTyped
  <1>4. \A i \in Items : stock'[i] # Nothing => stock'[i] <= Cap'[i]
    <2>1. \A i \in Items : /\ stock[i] \in Nat \cup {Nothing}
                           /\ task[t].counts[i] \in Nat \cup {Nothing}
      BY DEF Inv, Typed, Task
    <2>2. \A i \in Items : /\ stock[i] # Nothing => stock[i] <= Cap[i]
                           /\ task[t].counts[i] # Nothing => task[t].counts[i] <= Cap[i]
      BY DEF Bounds, Within
    <2>3. \A i \in Items : stock'[i] = stock[i] \/ stock'[i] = task[t].counts[i]
      BY DEF Commit, Written
    <2> QED  BY <1>3, <2>1, <2>2, <2>3
  <1>5. offered' \in [Items -> BOOLEAN]
    <2>1. \A i \in Items : task[t].shown[i] \in BOOLEAN \cup {Nothing} /\ offered[i] \in BOOLEAN
      BY DEF Inv, Typed, Task, Bounds
    <2>2. \A i \in Items : Written(task[t].shown[i], offered[i]) \in BOOLEAN
      BY <2>1 DEF Written
    <2> QED  BY <2>2 DEF Commit
  <1>6. par' = par /\ edits' \in 0 .. MaxEdits /\ faults' \in 0 .. MaxFaults
    BY DEF Commit, Bounds
  <1> QED  BY <1>1, <1>2, <1>3, <1>4, <1>5, <1>6, BoundSteps DEF Raised

LEMMA SyncBounded ==
    ASSUME ConstantsTyped, BoundsTyped, Inv, Bounds, NEW t \in Tasks,
           SyncAvailability(t) \/ ShowStocked(t) \/ SelectSoldOut(t) \/ HideSoldOut(t)
    PROVE  Bounds'
  <1>1. /\ stock' = stock /\ par' = par /\ edits' = edits /\ faults' \in 0 .. MaxFaults
        /\ offered' \in [Items -> BOOLEAN]
    BY DEF SyncAvailability, ShowStocked, SelectSoldOut, HideSoldOut, Bounds
  <1>2. CASE SyncAvailability(t)
    <2>1. PICK ids : task' = [task EXCEPT ![t] =
                                 [Idle EXCEPT !.kind = "sync", !.stage = "show", !.ids = ids]]
      BY <1>2 DEF SyncAvailability
    <2> DEFINE k == [Idle EXCEPT !.kind = "sync", !.stage = "show", !.ids = ids]
    <2>2. /\ k.old = 0 /\ k.todo = <<>> /\ k.stage = "show"
          /\ \A i \in Items : k.counts[i] = Nothing
      BY DEF Idle
    <2>3. task' = [task EXCEPT ![t] = k]
      BY <2>1
    <2> HIDE DEF k
    <2> QED  BY <1>1, <2>2, <2>3, RestBounded
  <1>3. CASE ShowStocked(t) \/ SelectSoldOut(t)
    <2>1. PICK stage \in {"select", "hide"}, ids \in SUBSET Items :
            task' = [task EXCEPT ![t].stage = stage, ![t].ids = ids]
      BY <1>3 DEF ShowStocked, SelectSoldOut
    <2> DEFINE k == [task[t] EXCEPT !.stage = stage, !.ids = ids]
    <2>2. task[t] \in Task /\ Within(task[t], Cap) /\ task \in [Tasks -> Task]
      BY DEF Inv, Typed, Bounds
    <2>3. /\ k.stage = stage /\ k.kind = task[t].kind /\ k.todo = task[t].todo
          /\ k.counts = task[t].counts /\ k.old = task[t].old
      BY <2>2 DEF Task
    <2>4. task' = [task EXCEPT ![t] = k]
      BY <2>1, <2>2
    <2> HIDE DEF k
    <2>5. ASSUME Raised, \A i \in Items : Cap'[i] \in Int
          PROVE  Within(k, Cap')
      <3>1. Within(task[t], Cap')
        BY <2>5, StaysWithin
      <3> QED  BY <2>3, <3>1 DEF Within
    <2>6. ToAdd(k) \subseteq ToAdd(task[t])
      BY <2>3 DEF ToAdd
    <2> QED  BY <1>1, <2>4, <2>5, <2>6, OneGoesOn DEF Raised
  <1>4. CASE HideSoldOut(t)
    <2>1. task' = [task EXCEPT ![t] = Idle]
      BY <1>4 DEF HideSoldOut
    <2> QED  BY <1>1, <2>1, IdleRests, RestBounded
  <1> QED  BY <1>2, <1>3, <1>4

----------------------------------------------------------------------------
(* Lines, and the bounds *)

LEMMA DeductBounded ==
    ASSUME ConstantsTyped, BoundsTyped, Inv, Bounds, NEW t \in Tasks, DeductLine(t)
    PROVE  Bounds'
  <1>1. CASE Short(t)
    BY <1>1, RollBackBounded DEF DeductLine
  <1>2. CASE ~ Short(t)
    <2> DEFINE k == LineDone(t, Target(t), TargetShown(t))
               i == Item(t)
    <2>1. /\ task[t] \in Task /\ task[t].stage = "lock" /\ task[t].kind = "deduct"
          /\ task[t].todo # <<>> /\ Within(task[t], Cap)
      BY DEF Inv, Typed, KindFits, DeductLine, At, Bounds
    <2>2. i \in Items /\ Quantity(t) \in Nat
      BY <2>1, LineTyped
    <2>3. /\ Current(t, i) \in Nat /\ Current(t, i) >= Quantity(t) /\ Current(t, i) <= Cap[i]
      <3>1. /\ task[t].counts[i] \in Nat \cup {Nothing} /\ stock[i] \in Nat \cup {Nothing}
            /\ Current(t, i) \in {task[t].counts[i], stock[i]}
        BY <2>1, <2>2 DEF Inv, Typed, Task, Current, Written
      <3>2. Current(t, i) # Nothing /\ Current(t, i) >= Quantity(t)
        BY <1>2, <2>2, <3>1 DEF Short
      <3> QED  BY <2>1, <2>2, <3>1, <3>2 DEF Within, Bounds
    <2>4. Target(t) = Current(t, i) - Quantity(t)
      BY <2>1 DEF Target
    <2>5. Target(t) \in Nat /\ Target(t) <= Cap[i] /\ Cap[i] \in Nat
      BY <2>2, <2>3, <2>4, CapTyped
    <2>6. TargetShown(t) \in BOOLEAN \cup {Nothing}
      BY ShownTyped DEF TargetShown
    <2>7. /\ k.counts = [task[t].counts EXCEPT ![i] = Target(t)]
          /\ k.todo = Tail(task[t].todo) /\ k.stage \in {"commit", "lock"} /\ k.kind = "deduct"
          /\ k.old = task[t].old
      <3>1. k.old = task[t].old
        BY <2>1 DEF LineDone, Task
      <3> QED  BY <2>1, <2>5, <2>6, <3>1, LineDoneIs DEF NextLine
    <2>8. task' = [task EXCEPT ![t] = k]
      BY <1>2 DEF DeductLine
    <2> HIDE DEF k
    <2>9. ToAdd(k) \subseteq ToAdd(task[t])
      BY <2>7 DEF ToAdd
    <2>10. ASSUME \A j \in Items : Cap[j] <= Cap'[j] /\ Cap'[j] \in Int
           PROVE  Within(k, Cap')
      <3>1. Within(task[t], Cap')
        BY <2>10, StaysWithin DEF Raised
      <3>2. Target(t) <= Cap'[i]
        BY <2>2, <2>5, <2>10
      <3>3. \A j \in Items : k.counts[j] # Nothing => k.counts[j] <= Cap'[j]
        BY <2>1, <2>2, <2>7, <3>1, <3>2 DEF Within, Task
      <3>4. Tail(task[t].todo) \in Seq(Line)
        BY <2>1 DEF Within
      <3> QED  BY <2>7, <3>1, <3>3, <3>4 DEF Within
    <2>11. /\ stock' = stock /\ par' = par /\ offered' \in [Items -> BOOLEAN]
           /\ edits' = edits /\ faults' \in 0 .. MaxFaults
      BY DEF DeductLine, Bounds
    <2> QED  BY <2>8, <2>9, <2>10, <2>11, OneGoesOn
  <1> QED  BY <1>1, <1>2

\* The lines left after one of them.
LEMMA TailWithin ==
    ASSUME Inv, NEW t \in Tasks, task[t].todo # <<>>, NEW cap, Within(task[t], cap)
    PROVE  LET todo == Tail(task[t].todo) IN
           /\ todo \in Seq(Line)
           /\ task[t].kind = "add" =>
                 /\ \A m \in 1 .. Len(todo) : todo[m][2] = 1
                 /\ \A m, n \in 1 .. Len(todo) : todo[m][1] = todo[n][1] => m = n
                 /\ \A m \in 1 .. Len(todo) : todo[m][1] # Item(t)
           /\ task[t].kind = "reset" => \A m \in 1 .. Len(todo) : todo[m][2] <= MaxStock
           /\ {todo[m][1] : m \in 1 .. Len(todo)} \subseteq
                 {task[t].todo[m][1] : m \in 1 .. Len(task[t].todo)}
           /\ Item(t) \in {task[t].todo[m][1] : m \in 1 .. Len(task[t].todo)}
  <1> DEFINE todo == Tail(task[t].todo)
  <1>1. /\ Len(task[t].todo) \in Nat \ {0} /\ Len(todo) = Len(task[t].todo) - 1
        /\ \A m \in 1 .. Len(todo) : todo[m] = task[t].todo[m + 1]
        /\ Item(t) = task[t].todo[1][1]
    BY LineTyped
  <1>2. todo \in Seq(Line)
    BY DEF Within
  <1> HIDE DEF todo
  <1>3. 1 \in 1 .. Len(task[t].todo)
    BY <1>1
  <1>4. \A m \in 1 .. Len(todo) : m + 1 \in 1 .. Len(task[t].todo) /\ m + 1 # 1
    BY <1>1
  <1>5. ASSUME task[t].kind = "add"
        PROVE  /\ \A m \in 1 .. Len(todo) : todo[m][2] = 1
               /\ \A m, n \in 1 .. Len(todo) : todo[m][1] = todo[n][1] => m = n
               /\ \A m \in 1 .. Len(todo) : todo[m][1] # Item(t)
    <2>1. \A m, n \in 1 .. Len(task[t].todo) : task[t].todo[m][1] = task[t].todo[n][1] => m = n
      BY <1>5 DEF Within
    <2>2. \A m \in 1 .. Len(todo) : todo[m][1] # Item(t)
      BY <1>1, <1>3, <1>4, <2>1
    <2>3. \A m, n \in 1 .. Len(todo) : todo[m][1] = todo[n][1] => m = n
      <3>1. ASSUME NEW m \in 1 .. Len(todo), NEW n \in 1 .. Len(todo), todo[m][1] = todo[n][1]
            PROVE  m = n
        <4>1. m + 1 = n + 1
          BY <1>1, <1>4, <2>1, <3>1
        <4> QED  BY <4>1
      <3> QED  BY <3>1
    <2>4. \A m \in 1 .. Len(todo) : todo[m][2] = 1
      BY <1>1, <1>4, <1>5 DEF Within
    <2> QED  BY <2>2, <2>3, <2>4
  <1>6. task[t].kind = "reset" => \A m \in 1 .. Len(todo) : todo[m][2] <= MaxStock
    BY <1>1, <1>4 DEF Within
  <1>7. /\ {todo[m][1] : m \in 1 .. Len(todo)} \subseteq
             {task[t].todo[m][1] : m \in 1 .. Len(task[t].todo)}
        /\ Item(t) \in {task[t].todo[m][1] : m \in 1 .. Len(task[t].todo)}
    BY <1>1, <1>3, <1>4
  <1> QED  BY <1>2, <1>5, <1>6, <1>7 DEF todo

LEMMA ReadBounded ==
    ASSUME ConstantsTyped, BoundsTyped, Inv, Bounds, NEW t \in Tasks, ReadLine(t)
    PROVE  Bounds'
  <1> DEFINE i == Item(t)
             old == Written(Current(t, i), 0)
             skipped == [task[t] EXCEPT !.stage = NextLine(t, "read"), !.todo = Tail(@)]
             logging == [task[t] EXCEPT !.stage = "log", !.old = old,
                                        !.missing = Current(t, i) = Nothing]
  <1>1. /\ task[t] \in Task /\ task[t].stage = "read" /\ task[t].kind \in {"add", "reset"}
        /\ task[t].todo # <<>> /\ Within(task[t], Cap)
    BY DEF Inv, Typed, KindFits, ReadLine, At, Bounds
  <1>2. /\ stock' = stock /\ par' = par /\ offered' \in [Items -> BOOLEAN]
        /\ edits' = edits /\ faults' \in 0 .. MaxFaults
    BY DEF ReadLine, Bounds
  <1>3. i \in Items /\ i = task[t].todo[1][1]
    BY <1>1, LineTyped
  <1>4. CASE task' = [task EXCEPT ![t] = skipped]
    <2>1. /\ skipped.stage \in {"commit", "read"} /\ skipped.todo = Tail(task[t].todo)
          /\ skipped.kind = task[t].kind /\ skipped.old = task[t].old
          /\ skipped.counts = task[t].counts
      BY <1>1 DEF Task, NextLine
    <2> HIDE DEF skipped
    <2>2. ToAdd(skipped) \subseteq ToAdd(task[t])
      BY <1>1, <2>1, TailWithin DEF ToAdd
    <2>3. ASSUME \A j \in Items : Cap[j] <= Cap'[j] /\ Cap'[j] \in Int
          PROVE  Within(skipped, Cap')
      <3>1. Within(task[t], Cap')
        BY <2>3, StaysWithin DEF Raised
      <3> QED  BY <1>1, <2>1, <3>1, TailWithin DEF Within
    <2> QED  BY <1>2, <1>4, <2>2, <2>3, OneGoesOn
  <1>5. CASE task' = [task EXCEPT ![t] = logging]
    <2>1. /\ logging.stage = "log" /\ logging.todo = task[t].todo
          /\ logging.kind = task[t].kind /\ logging.old = old
          /\ logging.counts = task[t].counts
      BY <1>1 DEF Task
    <2>2. old \in Nat /\ old <= Cap[i] /\ Cap[i] \in Nat /\ Cap[i] <= MaxStock + MaxEdits
      <3>1. /\ task[t].counts[i] \in Nat \cup {Nothing} /\ stock[i] \in Nat \cup {Nothing}
            /\ old \in {task[t].counts[i], stock[i], 0}
            /\ old = Nothing => FALSE
        BY <1>1, <1>3 DEF Inv, Typed, Task, Current, Written, ConstantsTyped
      <3>2. Cap[i] \in Nat /\ Cap[i] <= MaxStock + MaxEdits
        BY <1>3, CapTyped
      <3> QED  BY <1>1, <1>3, <3>1, <3>2 DEF Within, Bounds
    <2> HIDE DEF logging, old
    <2>3. ToAdd(logging) \subseteq ToAdd(task[t])
      BY <2>1 DEF ToAdd
    <2>4. ASSUME \A j \in Items : Cap[j] <= Cap'[j] /\ Cap'[j] \in Int
          PROVE  Within(logging, Cap')
      <3>1. Within(task[t], Cap')
        BY <2>4, StaysWithin DEF Raised
      <3>2. old <= Cap'[i] /\ old <= MaxStock + MaxEdits
        BY <1>3, <2>2, <2>4 DEF ConstantsTyped, BoundsTyped
      <3> QED  BY <1>3, <2>1, <3>1, <3>2 DEF Within
    <2> QED  BY <1>2, <1>5, <2>3, <2>4, OneGoesOn
  <1>6. \/ task' = [task EXCEPT ![t] = skipped]
        \/ task' = [task EXCEPT ![t] = logging]
    BY <1>1 DEF ReadLine, Inv, Typed, Task
  <1> QED  BY <1>4, <1>5, <1>6

LEMMA LogBounded ==
    ASSUME ConstantsTyped, BoundsTyped, Inv, Bounds, NEW t \in Tasks, LogLine(t)
    PROVE  Bounds'
  <1> DEFINE i == Item(t)
             failed == task[t].missing /\ (task[t].kind = "reset" \/ stock[i] # Nothing)
             logged == [task[t] EXCEPT !.stage = "save",
                          !.shares = @ \cup {i},
                          !.locks = IF task[t].missing THEN @ \cup {i} ELSE @,
                          !.shown[i] = Written(TargetShown(t), @)]
  <1>1. CASE failed
    BY <1>1, RollBackBounded DEF LogLine
  <1>2. CASE ~ failed
    <2>1. task[t] \in Task /\ task[t].stage = "log" /\ task \in [Tasks -> Task]
      BY DEF Inv, Typed, LogLine, At
    <2>2. task' = [task EXCEPT ![t] = logged]
      BY <1>2, <2>1 DEF LogLine
    <2>3. /\ logged.stage = "save" /\ logged.todo = task[t].todo
          /\ logged.kind = task[t].kind /\ logged.counts = task[t].counts
          /\ logged.old = task[t].old
      BY <2>1 DEF Task
    <2> HIDE DEF logged
    <2>4. ToAdd(logged) \subseteq ToAdd(task[t])
      BY <2>3 DEF ToAdd
    <2>5. ASSUME \A j \in Items : Cap[j] <= Cap'[j] /\ Cap'[j] \in Int
          PROVE  Within(logged, Cap')
      <3>1. Within(task[t], Cap')
        BY <2>5, StaysWithin DEF Raised
      <3> QED  BY <2>1, <2>3, <3>1 DEF Within
    <2>6. /\ stock' = stock /\ par' = par /\ offered' \in [Items -> BOOLEAN]
          /\ edits' = edits /\ faults' \in 0 .. MaxFaults
      BY DEF LogLine, Bounds
    <2> QED  BY <2>2, <2>4, <2>5, <2>6, OneGoesOn
  <1> QED  BY <1>1, <1>2

\* The save of a line raises the bound of its item by the one it adds.
LEMMA SaveBounded ==
    ASSUME ConstantsTyped, BoundsTyped, Inv, Bounds, NEW t \in Tasks, SaveLine(t)
    PROVE  Bounds'
  <1> DEFINE k == LineDone(t, Target(t), Nothing)
             i == Item(t)
  <1>1. /\ task[t] \in Task /\ task[t].stage = "save" /\ task[t].kind \in {"add", "reset"}
        /\ task[t].todo # <<>> /\ Within(task[t], Cap)
    BY DEF Inv, Typed, KindFits, SaveLine, At, Bounds
  <1>2. /\ i \in Items /\ Quantity(t) \in Nat /\ i = task[t].todo[1][1]
        /\ Quantity(t) = task[t].todo[1][2]
        /\ 1 \in 1 .. Len(task[t].todo)
    BY <1>1, LineTyped
  <1>3. /\ task[t].old \in Nat /\ task[t].old <= Cap[i] /\ Cap[i] \in Nat /\ MaxStock <= Cap[i]
    BY <1>1, <1>2, CapTyped DEF Task, Within, Bounds
  <1>4. /\ task[t].kind = "reset" => Target(t) = Quantity(t) /\ Quantity(t) <= MaxStock
        /\ task[t].kind = "add" => Target(t) = task[t].old + 1
    BY <1>1, <1>2 DEF Target, Within
  <1>5. Target(t) \in Nat
    BY <1>1, <1>2, <1>3, <1>4
  <1>6. /\ k.counts = [task[t].counts EXCEPT ![i] = Target(t)]
        /\ k.todo = Tail(task[t].todo) /\ k.stage \in {"commit", "read"}
        /\ k.kind = task[t].kind /\ k.old = task[t].old
    <2>1. k.old = task[t].old
      BY <1>1 DEF LineDone, Task
    <2> QED  BY <1>1, <1>5, <2>1, LineDoneIs DEF NextLine
  <1>7. task' = [task EXCEPT ![t] = k]
    BY DEF SaveLine
  <1> HIDE DEF k
  <1>8. /\ ToAdd(k) \subseteq ToAdd(task[t])
        /\ task[t].kind = "add" => i \in ToAdd(task[t]) \ ToAdd(k)
    <2> DEFINE todo == Tail(task[t].todo)
               Before == {task[t].todo[m][1] : m \in 1 .. Len(task[t].todo)}
               After == {todo[m][1] : m \in 1 .. Len(todo)}
    <2>1. /\ After \subseteq Before /\ i \in Before
          /\ task[t].kind = "add" => i \notin After
      <3>1. /\ After \subseteq Before /\ i \in Before
            /\ task[t].kind = "add" => \A m \in 1 .. Len(todo) : todo[m][1] # i
        BY <1>1, TailWithin
      <3> QED  BY <3>1
    <2>2. /\ ToAdd(task[t]) = IF task[t].kind = "add" THEN Before ELSE {}
          /\ ToAdd(k) = IF task[t].kind = "add" THEN After ELSE {}
      BY <1>6 DEF ToAdd
    <2> QED  BY <2>1, <2>2
  <1>9. ASSUME \A j \in Items : /\ Cap[j] <= Cap'[j] /\ Cap'[j] \in Int
                                /\ j \in ToAdd(task[t]) \ ToAdd(k) => Cap[j] + 1 <= Cap'[j]
        PROVE  Within(k, Cap')
    <2>1. Within(task[t], Cap')
      BY <1>9, StaysWithin DEF Raised
    <2>2. Target(t) <= Cap'[i]
      <3>1. CASE task[t].kind = "add"
        BY <1>2, <1>3, <1>4, <1>8, <1>9, <3>1
      <3>2. CASE task[t].kind = "reset"
        BY <1>2, <1>3, <1>4, <1>9, <3>2 DEF ConstantsTyped
      <3> QED  BY <1>1, <3>1, <3>2
    <2>3. \A j \in Items : k.counts[j] # Nothing => k.counts[j] <= Cap'[j]
      BY <1>1, <1>2, <1>6, <2>1, <2>2 DEF Within, Task
    <2> QED  BY <1>1, <1>6, <2>1, <2>3, TailWithin DEF Within
  <1>10. /\ stock' = stock /\ par' = par /\ offered' \in [Items -> BOOLEAN]
         /\ edits' = edits /\ faults' \in 0 .. MaxFaults
    BY DEF SaveLine, Bounds
  <1> QED  BY <1>7, <1>8, <1>9, <1>10, OneGoesOn

----------------------------------------------------------------------------
(* Beginnings, and steps outside the tasks *)

LEMMA HandleOrderBounded ==
    ASSUME ConstantsTyped, BoundsTyped, Inv, Bounds, NEW t \in Tasks, NEW o \in Orders,
           HandleOrderCompleted(t, o)
    PROVE  Bounds'
  <1> DEFINE k == [Idle EXCEPT !.kind = "deduct", !.stage = "lock", !.order = o,
                               !.todo = Ordered[o]]
  <1>1. /\ k.old = 0 /\ k.kind = "deduct" /\ k.stage = "lock" /\ k.todo = Ordered[o]
        /\ \A i \in Items : k.counts[i] = Nothing
    BY DEF Idle
  <1>2. task' = [task EXCEPT ![t] = k]
    BY DEF HandleOrderCompleted
  <1> HIDE DEF k
  <1>3. ToAdd(k) = {} /\ \A cap : Within(k, cap)
    BY <1>1 DEF ToAdd, Within, ConstantsTyped, BoundsTyped
  <1>4. /\ stock' = stock /\ par' = par /\ offered' \in [Items -> BOOLEAN]
        /\ edits' = edits /\ faults' \in 0 .. MaxFaults
    BY DEF HandleOrderCompleted, Bounds
  <1> QED  BY <1>2, <1>3, <1>4, OneGoesOn

LEMMA ListsDistinct ==
    ASSUME NEW items \in Lists
    PROVE  \E n \in Nat : /\ items \in [1 .. n -> Items] /\ DOMAIN items = 1 .. n
                          /\ \A p, q \in 1 .. n : items[p] = items[q] => p = q
  <1>1. PICK n \in 1 .. 2 : items \in [1 .. n -> Items]
    BY DEF Lists
  <1>2. DOMAIN items = 1 .. n
    BY <1>1
  <1> QED  BY <1>1, <1>2 DEF Lists

LEMMA AddBounded ==
    ASSUME ConstantsTyped, BoundsTyped, Inv, Bounds, NEW t \in Tasks, NEW items \in Lists,
           AddStock(t, [n \in DOMAIN items |-> <<items[n], 1>>])
    PROVE  Bounds'
  <1> DEFINE todo == [n \in DOMAIN items |-> <<items[n], 1>>]
             k == [Idle EXCEPT !.kind = "add", !.stage = "read", !.todo = todo]
  <1>1. PICK n \in Nat : /\ items \in [1 .. n -> Items] /\ DOMAIN items = 1 .. n
                         /\ \A p, q \in 1 .. n : items[p] = items[q] => p = q
    BY ListsDistinct
  <1>2. edits' = edits + 1 /\ edits \in Nat /\ edits' \in 0 .. MaxEdits
    BY DEF AddStock, Bounds, BoundsTyped
  <1>3. 1 \in Count
    BY <1>2 DEF Count, ConstantsTyped, BoundsTyped
  <1>4. /\ todo \in Seq(Line) /\ Len(todo) = n
        /\ \A m \in 1 .. n : todo[m] = <<items[m], 1>>
    BY <1>1, <1>3 DEF Line
  <1>5. /\ k.old = 0 /\ k.kind = "add" /\ k.stage = "read" /\ k.todo = todo
        /\ \A i \in Items : k.counts[i] = Nothing
    BY DEF Idle
  <1>6. task' = [task EXCEPT ![t] = k]
    BY DEF AddStock, Begin
  <1> HIDE DEF k, todo
  <1>7. \A cap : Within(k, cap)
    BY <1>1, <1>4, <1>5 DEF Within, ConstantsTyped, BoundsTyped
  <1>8. \A u \in Tasks : u # t => task'[u] = task[u]
    BY <1>6 DEF Inv, Typed
  <1>9. \A i \in Items : Adding(i)' \subseteq Adding(i) \cup {t}
    BY <1>8 DEF Adding
  <1>10. \A i \in Items : Cap'[i] \in Int /\ Cap[i] <= Cap'[i]
    BY <1>2, <1>9, CapAsked
  <1>11. \A i \in Items : stock'[i] # Nothing => stock'[i] <= Cap'[i]
    <2>1. \A i \in Items : stock[i] \in Nat \cup {Nothing} /\ Cap[i] \in Nat
      BY CapTyped DEF Inv, Typed
    <2> QED  BY <1>10, <2>1 DEF Bounds, AddStock, Begin
  <1>12. par' = par /\ offered' \in [Items -> BOOLEAN] /\ faults' \in 0 .. MaxFaults
    BY DEF AddStock, Begin, Bounds
  <1> QED  BY <1>2, <1>6, <1>7, <1>10, <1>11, <1>12, BoundSteps DEF Raised

LEMMA ResetBounded ==
    ASSUME ConstantsTyped, BoundsTyped, Inv, Bounds, NEW t \in Tasks, NEW items \in Lists,
           HandleDailyStockReset(t, items)
    PROVE  Bounds'
  <1> DEFINE todo == [n \in DOMAIN items |-> <<items[n], par[items[n]]>>]
             k == [Idle EXCEPT !.kind = "reset", !.stage = "read", !.todo = todo]
  <1>1. PICK n \in Nat : items \in [1 .. n -> Items] /\ DOMAIN items = 1 .. n
    BY ListsTyped
  <1>2. \A m \in 1 .. n : par[items[m]] \in Nat /\ par[items[m]] <= MaxStock
    <2>1. \A m \in 1 .. n : items[m] \in Items /\ par[items[m]] # Nothing
      BY <1>1 DEF HandleDailyStockReset
    <2> QED  BY <2>1 DEF Inv, Typed, Bounds
  <1>3. \A m \in 1 .. n : par[items[m]] \in Count
    BY <1>2 DEF Count, ConstantsTyped, BoundsTyped
  <1>4. /\ todo \in Seq(Line) /\ Len(todo) = n
        /\ \A m \in 1 .. n : todo[m] = <<items[m], par[items[m]]>>
    BY <1>1, <1>3 DEF Line
  <1>5. /\ k.old = 0 /\ k.kind = "reset" /\ k.stage = "read" /\ k.todo = todo
        /\ \A i \in Items : k.counts[i] = Nothing
    BY DEF Idle
  <1>6. task' = [task EXCEPT ![t] = k]
    BY DEF HandleDailyStockReset, Begin
  <1> HIDE DEF k, todo
  <1>7. ToAdd(k) = {} /\ \A cap : Within(k, cap)
    BY <1>2, <1>4, <1>5 DEF ToAdd, Within, ConstantsTyped, BoundsTyped
  <1>8. /\ stock' = stock /\ par' = par /\ offered' \in [Items -> BOOLEAN]
        /\ edits' = edits /\ faults' \in 0 .. MaxFaults
    BY DEF HandleDailyStockReset, Begin, Bounds
  <1> QED  BY <1>6, <1>7, <1>8, OneGoesOn

LEMMA ElsewhereBounded ==
    ASSUME ConstantsTyped, BoundsTyped, Inv, Bounds, UNCHANGED <<stock, task, faults>>,
           edits' \in 0 .. MaxEdits, edits <= edits', offered' \in [Items -> BOOLEAN],
           \A i \in Items : par'[i] # Nothing => par'[i] <= MaxStock
    PROVE  Bounds'
  <1>1. edits' \in Nat /\ \A i \in Items : Adding(i)' \subseteq Adding(i)
    BY DEF Adding, BoundsTyped
  <1>2. \A i \in Items : Cap[i] \in Nat /\ Cap'[i] \in Int /\ Cap[i] <= Cap'[i]
    BY <1>1, CapGrows, CapTyped
  <1>3. \A t \in Tasks : Within(task[t], Cap')
    BY <1>2, StaysWithin DEF Raised
  <1>4. \A i \in Items : MaxStock <= Cap'[i] /\ (stock[i] # Nothing => stock[i] <= Cap'[i])
    <2>1. \A i \in Items : stock[i] \in Nat \cup {Nothing}
      BY DEF Inv, Typed
    <2> QED  BY <1>2, <2>1 DEF Bounds, ConstantsTyped
  <1> QED  BY <1>3, <1>4 DEF Bounds

LEMMA BoundsInitially ==
    ASSUME ConstantsTyped, BoundsTyped, Init
    PROVE  Bounds
  <1>1. \A i \in Items : Adding(i) = {}
    BY IdleRests DEF Init, Adding, ToAdd, Idle
  <1>2. \A i \in Items : Cap[i] = MaxStock
    <2>1. Cardinality({}) = 0
      BY FS_EmptySet
    <2>2. edits = 0 /\ MaxStock \in Nat
      BY DEF Init, ConstantsTyped
    <2>3. \A i \in Items : Cardinality(Adding(i)) = 0
      BY <1>1, <2>1
    <2> QED  BY <2>2, <2>3 DEF Cap
  <1>3. \A i \in Items : /\ stock[i] # Nothing => stock[i] <= MaxStock
                         /\ par[i] = Nothing
    BY DEF Init
  <1>4. \A t \in Tasks : Within(task[t], Cap)
    BY IdleRests, RestsWithin DEF Init
  <1> QED  BY <1>2, <1>3, <1>4 DEF Init, Bounds, ConstantsTyped, BoundsTyped

LEMMA BoundsKept ==
    ASSUME ConstantsTyped, BoundsTyped, Inv, Bounds, [Next]_vars
    PROVE  Bounds'
  <1>1. ASSUME NEW t \in Tasks, Ask(t) \/ Work(t) \/ Crash(t)
        PROVE  Bounds'
    <2>1. CASE Acknowledge(t) \/ Crash(t)
      <3>1. task' = [task EXCEPT ![t] = Idle]
        BY <2>1 DEF Acknowledge, Crash
      <3>2. /\ stock' = stock /\ par' = par /\ offered' \in [Items -> BOOLEAN]
            /\ edits' = edits /\ faults' \in 0 .. MaxFaults
        BY <2>1 DEF Acknowledge, Crash, Bounds, BoundsTyped
      <3> QED  BY <3>1, <3>2, IdleRests, RestBounded
    <2>2. CASE BreakDeadlock(t)
      BY <2>2, RollBackBounded DEF BreakDeadlock
    <2> QED  BY <1>1, <2>1, <2>2, AddBounded, ResetBounded, HandleOrderBounded, DeductBounded,
                ReadBounded, LogBounded, SaveBounded, CommitBounded, SyncBounded DEF Ask, Work
  <1>2. ASSUME NEW items \in SUBSET Items, NEW level \in {0, MaxStock},
               BulkSetParLevels(items, level)
        PROVE  Bounds'
    <2>1. \A i \in Items : par'[i] # Nothing => par'[i] <= MaxStock
      BY <1>2 DEF BulkSetParLevels, Bounds, ConstantsTyped
    <2>2. /\ edits' \in 0 .. MaxEdits /\ edits <= edits' /\ offered' \in [Items -> BOOLEAN]
          /\ UNCHANGED <<stock, task, faults>>
      BY <1>2 DEF BulkSetParLevels, Bounds, BoundsTyped
    <2> QED  BY <2>1, <2>2, ElsewhereBounded
  <1>3. ASSUME NEW i \in Items, RemoveParLevel(i) \/ ToggleMenuAvailability(i)
        PROVE  Bounds'
    <2>1. \A j \in Items : par'[j] # Nothing => par'[j] <= MaxStock
      BY <1>3 DEF RemoveParLevel, ToggleMenuAvailability, Inv, Typed, Bounds
    <2>2. edits' \in 0 .. MaxEdits /\ edits <= edits' /\ UNCHANGED <<stock, task, faults>>
      BY <1>3 DEF RemoveParLevel, ToggleMenuAvailability, Bounds, BoundsTyped
    <2>3. /\ offered \in [Items -> BOOLEAN]
          /\ offered' = offered \/ offered' = [offered EXCEPT ![i] = ~ @]
      BY <1>3 DEF RemoveParLevel, ToggleMenuAvailability, Bounds
    <2>4. offered' \in [Items -> BOOLEAN]
      BY <2>3
    <2> QED  BY <2>1, <2>2, <2>4, ElsewhereBounded
  <1>4. CASE UNCHANGED vars
    <2>1. \A i \in Items : par'[i] # Nothing => par'[i] <= MaxStock
      BY <1>4 DEF vars, Bounds
    <2>2. /\ edits' \in 0 .. MaxEdits /\ edits <= edits' /\ offered' \in [Items -> BOOLEAN]
          /\ UNCHANGED <<stock, task, faults>>
      BY <1>4 DEF vars, Bounds, BoundsTyped
    <2> QED  BY <2>1, <2>2, ElsewhereBounded
  <1> QED  BY <1>1, <1>2, <1>3, <1>4 DEF Next

LEMMA BoundsSuffice ==
    ASSUME ConstantsTyped, BoundsTyped, Inv, Bounds
    PROVE  TypeOK
  <1>1. \A n \in Nat : n <= MaxStock + MaxEdits => n \in Count
    BY DEF Count, ConstantsTyped, BoundsTyped
  <1>2. \A i \in Items : Cap[i] \in Nat /\ Cap[i] <= MaxStock + MaxEdits
    BY CapTyped
  <1>3. ASSUME NEW n \in Nat \cup {Nothing}, NEW i \in Items, n # Nothing => n <= Cap[i]
        PROVE  n \in Count \cup {Nothing}
    BY <1>1, <1>2, <1>3 DEF ConstantsTyped, BoundsTyped
  <1>4. stock \in [Items -> Count \cup {Nothing}]
    BY <1>3 DEF Inv, Typed, Bounds
  <1>5. par \in [Items -> Count \cup {Nothing}]
    <2>1. \A i \in Items : par[i] \in Nat \cup {Nothing} /\ (par[i] # Nothing => par[i] <= MaxStock)
      BY DEF Inv, Typed, Bounds
    <2>2. \A i \in Items : par[i] \in Count \cup {Nothing}
      BY <2>1 DEF Count, ConstantsTyped, BoundsTyped
    <2> QED  BY <2>2 DEF Inv, Typed
  <1>6. task \in [Tasks -> Handling]
    <2> SUFFICES ASSUME NEW t \in Tasks
                 PROVE  task[t] \in Handling
      BY DEF Inv, Typed
    <2>1. task[t] \in Task /\ Within(task[t], Cap)
      BY DEF Inv, Typed, Bounds
    <2>2. task[t].counts \in [Items -> Count \cup {Nothing}]
      BY <1>3, <2>1 DEF Task, Within
    <2>3. task[t].old \in Count
      BY <1>1, <2>1 DEF Task, Within
    <2> QED  BY <2>1, <2>2, <2>3 DEF Task, Stages, Handling, Within
  <1> QED  BY <1>4, <1>5, <1>6 DEF TypeOK, Inv, Typed, Bounds

\* Whoever adds, deducts and resets at once, and whatever rolls back: no count is negative, and
\* none exceeds what was there at first or is the par level by more than what owners have added.
THEOREM CountsBounded ==
    ASSUME ConstantsTyped, BoundsTyped
    PROVE  Spec => []TypeOK
  <1>1. Init => Inv /\ Bounds
    BY InvInitially, BoundsInitially
  <1>2. Inv /\ Bounds /\ [Next]_vars => (Inv /\ Bounds)'
    BY InvKept, BoundsKept
  <1>3. Inv /\ Bounds => TypeOK
    BY BoundsSuffice
  <1> QED  BY <1>1, <1>2, <1>3, PTL DEF Spec

=============================================================================
