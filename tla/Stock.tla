------------------------------- MODULE Stock -------------------------------
(***************************************************************************)
(* The inventory of catalog-service: a stock count per menu item, whether  *)
(* the item is offered, and the par level the stock is reset to each day.  *)
(*                                                                         *)
(* Completed orders deduct from it, their rows locked by SELECT ... FOR    *)
(* UPDATE.  Owners add to it and the daily task resets it, both with rows  *)
(* read without a lock; the log line they insert takes a share lock on the *)
(* row (its foreign key), and the save a lock against other writers.  What *)
(* a transaction writes is seen when it commits.  Every ten minutes a task *)
(* sets what is offered by what is in stock, without a transaction.        *)
(***************************************************************************)
EXTENDS Naturals, Sequences, Functions

CONSTANTS
    Items,
    Orders,
    Ordered,     \* Ordered[o]: the lines of an order, <<item, quantity>>
    Tasks,       \* requests, consumers and cron tasks at work at once
    MaxStock,    \* bound on a stock count at first, and on par levels
    MaxEdits,    \* bound on the changes owners make by hand
    MaxFaults,   \* bound on crashes and failing statements
    Nothing

VARIABLES
    stock,       \* stock[i]: its count, or Nothing without an inventory row
    offered,     \* offered[i]: is the item available on the menu?
    par,         \* par[i]: its par level, or Nothing
    due,         \* order.completed events that are not acknowledged
    task,        \* task[t]: the handler t runs
    edits,
    faults

vars == <<stock, offered, par, due, task, edits, faults>>

----------------------------------------------------------------------------
(* Types *)

Count == 0 .. MaxStock + MaxEdits
Line == Items \X Count

\* todo: the lines left.  old: the count that was read.  counts, shown: what it has written.
\* shares, locks: the inventory rows it holds.  ids: the items a sync has selected.
Handling == [stage : {"idle", "lock", "read", "log", "save", "commit", "ack",
                      "show", "select", "hide"},
             kind : {"none", "deduct", "add", "reset", "sync"},
             order : Orders \cup {Nothing},
             todo : Seq(Line),
             old : Count, missing : BOOLEAN,
             counts : [Items -> Count \cup {Nothing}],
             shown : [Items -> BOOLEAN \cup {Nothing}],
             shares : SUBSET Items, locks : SUBSET Items, ids : SUBSET Items]

TypeOK ==
    /\ stock \in [Items -> Count \cup {Nothing}]
    /\ offered \in [Items -> BOOLEAN]
    /\ par \in [Items -> Count \cup {Nothing}]
    /\ due \subseteq Orders
    /\ task \in [Tasks -> Handling]
    /\ edits \in 0 .. MaxEdits
    /\ faults \in 0 .. MaxFaults

----------------------------------------------------------------------------
(* Operators *)

Idle == [stage |-> "idle", kind |-> "none", order |-> Nothing, todo |-> <<>>,
         old |-> 0, missing |-> FALSE,
         counts |-> [i \in Items |-> Nothing], shown |-> [i \in Items |-> Nothing],
         shares |-> {}, locks |-> {}, ids |-> {}]

At(t, stage) == task[t].stage = stage
Item(t) == Head(task[t].todo)[1]
Quantity(t) == Head(task[t].todo)[2]

Begin(t, kind, todo) ==
    /\ At(t, "idle")
    /\ todo # <<>>
    /\ task' = [task EXCEPT ![t] = [Idle EXCEPT !.kind = kind, !.stage = "read", !.todo = todo]]
    /\ UNCHANGED <<stock, offered, par, due, faults>>

\* What a query finds: what is committed, and what its own transaction has written.
Written(new, committed) == IF new # Nothing THEN new ELSE committed
Current(t, i) == Written(task[t].counts[i], stock[i])

Others(t) == Tasks \ {t}

\* The stock goes from "old" to "new": is the item shown, hidden, or left as it is?
Shown(kind, old, new) ==
    CASE kind # "deduct" /\ old = 0 /\ new > 0 -> TRUE
      [] kind = "deduct" /\ new = 0            -> FALSE
      [] kind = "reset" /\ old > 0 /\ new = 0  -> FALSE
      [] OTHER                                 -> Nothing

\* The count a line leads to, and what it does to the menu.
Target(t) ==
    CASE task[t].kind = "deduct" -> Current(t, Item(t)) - Quantity(t)
      [] task[t].kind = "reset"  -> Quantity(t)
      [] OTHER                   -> task[t].old + Quantity(t)

TargetShown(t) ==
    Shown(task[t].kind, IF At(t, "lock") THEN 0 ELSE task[t].old, Target(t))

AgainstLock_None(t, i) == {}

\* Who keeps t from a SELECT ... FOR UPDATE of the inventory row of i ...
AgainstLock(t, i) ==
    {u \in Others(t) : i \in task[u].locks \cup task[u].shares /\ stock[i] # Nothing}

\* ... from a log line that refers to it, or from inserting it ...
AgainstLog(t, i) ==
    {u \in Others(t) : i \in task[u].locks /\ (task[u].kind = "deduct" \/ stock[i] = Nothing)}

\* ... from its UPDATE, and from an UPDATE of the menu item.
AgainstSave(t, i) == {u \in Others(t) : i \in task[u].locks}

AgainstMenu(t, i) == {u \in Others(t) : task[u].shown[i] # Nothing}

\* What an order takes of an item.
Quantities(o) == [n \in DOMAIN Ordered[o] |-> Ordered[o][n][2]]

OrderedOf(o, i) ==
    SumFunctionOnSet(Quantities(o), {n \in DOMAIN Ordered[o] : Ordered[o][n][1] = i})

Short(t) == Current(t, Item(t)) = Nothing \/ Current(t, Item(t)) < Quantity(t)

\* Who t waits for.
WaitsFor(t) ==
    LET menu == IF TargetShown(t) # Nothing THEN AgainstMenu(t, Item(t)) ELSE {} IN
    CASE At(t, "lock") -> AgainstLock(t, Item(t)) \cup (IF Short(t) THEN {} ELSE menu)
      [] At(t, "log")  -> AgainstLog(t, Item(t)) \cup menu
      [] At(t, "save") -> AgainstSave(t, Item(t))
      [] OTHER -> {}

NextLine(t, first) == IF Len(task[t].todo) = 1 THEN "commit" ELSE first

\* A line has been written: its row stays locked until the transaction ends.
LineDone(t, count, shown) ==
    [task[t] EXCEPT !.counts[Item(t)] = count,
                    !.shown[Item(t)] = Written(shown, @),
                    !.locks = @ \cup {Item(t)},
                    !.stage = NextLine(t, IF @ = "lock" THEN "lock" ELSE "read"),
                    !.todo = Tail(@)]

\* A transaction is over; the event of an order has yet to be acknowledged.
Ended(t) ==
    IF task[t].kind = "deduct"
    THEN [Idle EXCEPT !.stage = "ack", !.kind = "deduct", !.order = task[t].order]
    ELSE Idle

\* A transaction rolls back.  The consumer catches the error and skips the event.
RollBack(t) ==
    task' = [task EXCEPT ![t] = Ended(t)]

----------------------------------------------------------------------------
(* Initial states: some items lack a row, since creating an item may fail half way. *)

Init ==
    /\ stock \in [Items -> 0 .. MaxStock \cup {Nothing}]
    /\ offered = [i \in Items |-> stock[i] \notin {0, Nothing}]
    /\ par = [i \in Items |-> Nothing]
    /\ due = Orders
    /\ task = [t \in Tasks |-> Idle]
    /\ edits = 0
    /\ faults = 0

----------------------------------------------------------------------------
(* A completed order *)

HandleOrderCompleted(t, o) ==
    /\ o \in due
    /\ \A u \in Tasks : task[u].order # o
    /\ At(t, "idle")
    /\ task' = [task EXCEPT ![t] = [Idle EXCEPT !.kind = "deduct", !.stage = "lock",
                                                !.order = o, !.todo = Ordered[o]]]
    /\ UNCHANGED <<stock, offered, par, due, edits, faults>>

\* One line: the row is locked and checked, then the log, the menu item and the row written.
DeductLine(t) ==
    /\ At(t, "lock")
    /\ WaitsFor(t) = {}
    /\ IF Short(t)
       THEN RollBack(t)
       ELSE task' = [task EXCEPT ![t] = LineDone(t, Target(t), TargetShown(t))]
    /\ UNCHANGED <<stock, offered, par, due, edits, faults>>

Commit(t) ==
    /\ At(t, "commit")
    /\ stock' = [i \in Items |-> Written(task[t].counts[i], stock[i])]
    /\ offered' = [i \in Items |-> Written(task[t].shown[i], offered[i])]
    /\ task' = [task EXCEPT ![t] = Ended(t)]
    /\ UNCHANGED <<par, due, edits, faults>>

Acknowledge(t) ==
    /\ At(t, "ack")
    /\ due' = due \ {task[t].order}
    /\ task' = [task EXCEPT ![t] = Idle]
    /\ UNCHANGED <<stock, offered, par, edits, faults>>

----------------------------------------------------------------------------
(* An owner adds stock; the daily task resets it *)

\* updateStockManually with one line, replenishStock with several.
AddStock(t, lines) ==
    /\ edits < MaxEdits
    /\ edits' = edits + 1
    /\ Begin(t, "add", lines)

\* The par levels are read before the transaction begins.
HandleDailyStockReset(t, items) ==
    /\ {items[n] : n \in DOMAIN items} = {i \in Items : par[i] # Nothing}
    /\ Begin(t, "reset", [n \in DOMAIN items |-> <<items[n], par[items[n]]>>])
    /\ UNCHANGED edits

\* A reset passes over an item that is at its par level.
ReadLine(t) ==
    LET old == Written(Current(t, Item(t)), 0) IN
    /\ At(t, "read")
    /\ IF task[t].kind = "reset" /\ old = Quantity(t)
       THEN task' = [task EXCEPT ![t].stage = NextLine(t, "read"), ![t].todo = Tail(@)]
       ELSE task' = [task EXCEPT ![t].stage = "log", ![t].old = old,
                                 ![t].missing = Current(t, Item(t)) = Nothing]
    /\ UNCHANGED <<stock, offered, par, due, edits, faults>>

\* The log line, and what the menu shows.  A missing row is inserted first, unless somebody
\* was faster; the reset does not save it, and its log line then has nothing to refer to.
LogLine(t) ==
    LET i == Item(t) IN
    /\ At(t, "log")
    /\ WaitsFor(t) = {}
    /\ IF task[t].missing /\ (task[t].kind = "reset" \/ stock[i] # Nothing)
       THEN RollBack(t)
       ELSE task' = [task EXCEPT ![t].stage = "save",
                                 ![t].shares = @ \cup {i},
                                 ![t].locks = IF task[t].missing THEN @ \cup {i} ELSE @,
                                 ![t].shown[i] = Written(TargetShown(t), @)]
    /\ UNCHANGED <<stock, offered, par, due, edits, faults>>

\* The save writes the count that was computed from the one read, whatever the row says now.
SaveLine(t) ==
    /\ At(t, "save")
    /\ WaitsFor(t) = {}
    /\ task' = [task EXCEPT ![t] = LineDone(t, Target(t), Nothing)]
    /\ UNCHANGED <<stock, offered, par, due, edits, faults>>

----------------------------------------------------------------------------
(* Par levels and the menu *)

\* bulkSetParLevels, in one transaction.
BulkSetParLevels(items, level) ==
    /\ edits < MaxEdits
    /\ edits' = edits + 1
    /\ par' = [i \in Items |-> IF i \in items THEN level ELSE par[i]]
    /\ UNCHANGED <<stock, offered, due, task, faults>>

RemoveParLevel(i) ==
    /\ par' = [par EXCEPT ![i] = Nothing]
    /\ UNCHANGED <<stock, offered, due, task, edits, faults>>

MenuFree(t, items) == \A i \in items : AgainstMenu(t, i) = {}

\* toggleMenuAvailability, and the update of a menu item.
ToggleMenuAvailability(i) ==
    /\ edits < MaxEdits
    /\ \A t \in Tasks : task[t].shown[i] = Nothing
    /\ offered' = [offered EXCEPT ![i] = ~ @]
    /\ edits' = edits + 1
    /\ UNCHANGED <<stock, par, due, task, faults>>

\* The items that are in stock and not offered are selected, then shown, by one run at a time ...
SyncAvailability(t) ==
    /\ At(t, "idle")
    /\ \A u \in Tasks : task[u].kind # "sync"
    /\ task' = [task EXCEPT ![t] = [Idle EXCEPT !.kind = "sync", !.stage = "show",
                  !.ids = {i \in Items : ~ offered[i] /\ Written(stock[i], 0) > 0}]]
    /\ UNCHANGED <<stock, offered, par, due, edits, faults>>

ShowStocked(t) ==
    /\ At(t, "show")
    /\ MenuFree(t, task[t].ids)
    /\ offered' = [i \in Items |-> offered[i] \/ i \in task[t].ids]
    /\ task' = [task EXCEPT ![t].stage = "select", ![t].ids = {}]
    /\ UNCHANGED <<stock, par, due, edits, faults>>

SelectSoldOut_Negative(t) ==
    /\ At(t, "select")
    /\ task' = [task EXCEPT ![t].stage = "hide",
                            ![t].ids = {i \in Items : offered[i] /\ Written(stock[i], 0) < 0}]
    /\ UNCHANGED <<stock, offered, par, due, edits, faults>>

\* ... and those that are out of stock and offered are selected, then hidden.
SelectSoldOut(t) ==
    /\ At(t, "select")
    /\ task' = [task EXCEPT ![t].stage = "hide",
                            ![t].ids = {i \in Items : offered[i] /\ stock[i] = 0}]
    /\ UNCHANGED <<stock, offered, par, due, edits, faults>>

HideSoldOut(t) ==
    /\ At(t, "hide")
    /\ MenuFree(t, task[t].ids)
    /\ offered' = [i \in Items |-> offered[i] /\ i \notin task[t].ids]
    /\ task' = [task EXCEPT ![t] = Idle]
    /\ UNCHANGED <<stock, par, due, edits, faults>>

----------------------------------------------------------------------------
(* Failures *)

\* The database ends a transaction that is part of a circle of waiting ones.
BreakDeadlock(t) ==
    /\ \E circle \in SUBSET Tasks :
         /\ t \in circle
         /\ \A u \in circle : WaitsFor(u) \cap circle # {}
    /\ RollBack(t)
    /\ UNCHANGED <<stock, offered, par, due, edits, faults>>

\* The process dies: what was not committed is gone, and the event comes again.
Crash(t) ==
    /\ ~ At(t, "idle")
    /\ faults < MaxFaults
    /\ faults' = faults + 1
    /\ task' = [task EXCEPT ![t] = Idle]
    /\ UNCHANGED <<stock, offered, par, due, edits>>

----------------------------------------------------------------------------
(* Specification *)

Lists == {s \in UNION {[1 .. n -> Items] : n \in 1 .. 2} :
            \A m, n \in DOMAIN s : s[m] = s[n] => m = n}

Ask(t) ==
    \/ \E items \in Lists : AddStock(t, [n \in DOMAIN items |-> <<items[n], 1>>])
    \/ \E items \in Lists : HandleDailyStockReset(t, items)

Work(t) ==
    \/ \E o \in Orders : HandleOrderCompleted(t, o)
    \/ DeductLine(t)
    \/ ReadLine(t)
    \/ LogLine(t)
    \/ SaveLine(t)
    \/ Commit(t)
    \/ Acknowledge(t)
    \/ SyncAvailability(t)
    \/ ShowStocked(t)
    \/ SelectSoldOut(t)
    \/ HideSoldOut(t)
    \/ BreakDeadlock(t)

Next ==
    \/ \E t \in Tasks : Ask(t) \/ Work(t) \/ Crash(t)
    \/ \E items \in SUBSET Items \ {{}}, level \in {0, MaxStock} : BulkSetParLevels(items, level)
    \/ \E i \in Items : RemoveParLevel(i) \/ ToggleMenuAvailability(i)

Spec == Init /\ [][Next]_vars

\* The cron task comes back every ten minutes, events are delivered until acknowledged,
\* handlers run on, and PostgreSQL queues who waits for a row.  No owner need ever ask.
FairSpec ==
    /\ Spec
    /\ \A t \in Tasks : SF_vars(Work(t))
    /\ SF_vars(\E t \in Tasks : SyncAvailability(t))

----------------------------------------------------------------------------
(* Properties *)

\* A delivery of an order that commits has taken exactly what the order says from what was there,
\* of all its items, whatever else reads and writes the rows meanwhile.  (A second delivery does
\* so again, and a save of a count that was read before may follow.)
DeductionsExact ==
    [][\A t \in Tasks : At(t, "commit") /\ task'[t].stage = "ack"
        => \A i \in Items :
             Written(stock[i], 0) - Written(stock'[i], 0) = OrderedOf(task[t].order, i)]_vars

\* An item that is offered and out of stock is taken off the menu, or restocked, in the end.
SoldOutIsHidden ==
    \A i \in Items : offered[i] /\ stock[i] = 0 ~> ~ (offered[i] /\ stock[i] = 0)

=============================================================================
