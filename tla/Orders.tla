------------------------------- MODULE Orders -------------------------------
(***************************************************************************)
(* The life of an order in catalog-service: the row of table `orders`, its *)
(* row in `scheduled_jobs`, its pickup record, and every handler that      *)
(* writes them: the customer's and the owner's HTTP requests, the Kafka    *)
(* consumers of the payment events and the cron task that cancels unpaid   *)
(* orders.                                                                 *)
(*                                                                         *)
(* Handlers interleave at their database round trips.  Each one loads the  *)
(* order, checks it, changes the loaded entity and saves it.  Saving is    *)
(* what TypeORM's repository.save does: read the row again, compare it     *)
(* with the entity, then UPDATE the columns that differ.  So a save writes *)
(* back every stale column of the entity, and a column changed between the *)
(* comparison and the UPDATE survives.  A transaction keeps the row locks  *)
(* its statements took until it commits; PostgreSQL runs READ COMMITTED.   *)
(***************************************************************************)
EXTENDS Naturals

CONSTANTS
    Orders,      \* order ids
    Handlers,    \* HTTP requests (and un-awaited callbacks) in flight at once
    Consumers,   \* Kafka consumers: each awaits one payment result at a time
    Schedulers,  \* cron ticks in flight at once
    Nobody,      \* not a worker and not an order
    Requests,    \* the handlers that run: an instance may leave some out
    Replies,     \* what the payment service may report of a payment attempt
    MaxFaults    \* bound on crashes and failed statements

Workers == Handlers \cup Consumers \cup Schedulers

\* The status a payment event carries, where handlePaymentResult looks for it.
PayloadStatus == {"success", "paid", "completed", "failed", "absent"}

VARIABLES
    row,        \* row[o]: the committed columns of order o
    job,        \* job[o]: its committed scheduled_jobs row
    pickups,    \* orders with an order_pickups row
    rowLock,    \* rowLock[o]: whose transaction has updated order o
    jobLock,    \* jobLock[o]: whose transaction has locked o's job
    sent,       \* Kafka messages sent; any of them may be redelivered
    lapsed,     \* orders whose checkout (payment_expires_at) has expired
    undefused,  \* orders whose cancellation job a success handler failed to delete
    faults,     \* faults so far
    work        \* work[w]: the handler w runs

vars == <<row, job, pickups, rowLock, jobLock, sent, lapsed, undefused, faults, work>>

----------------------------------------------------------------------------
(* Types *)

\* "ABSENT" stands for an order not yet created.  PENDING, OUT_FOR_DELIVERY
\* and DELIVERED of the enum are written by nothing.
Status == {"ABSENT", "SCHEDULED", "ACCEPTED", "DECLINED", "AWAITING_PAYMENT", "PAID",
           "PREPARING", "READY", "CUSTOMER_COMING", "CANCELLED", "COMPLETED"}

PayStatus == {"NONE", "INITIATED", "PAID", "FAILED"}

\* checkout: tx_ref, checkout_url and payment_expires_at are set.
Row == [status : Status, pay : PayStatus, sched : BOOLEAN, checkout : BOOLEAN]

\* "time" (scheduled_delivery_time) is written, never read: its value is left out.
Columns == {"status", "pay", "sched", "checkout", "time"}

\* process: PROCESS_SCHEDULED_ORDER, pending.  The others are
\* CANCEL_UNPAID_ORDER jobs that are pending, processed and failed.
CancelJob == {"cancel", "cancel_processed", "cancel_failed"}
Job == {"none", "process"} \cup CancelJob

Message == [topic : {"order.awaiting_payment", "payment.initiated", "payment.result"},
            order : Orders, status : PayloadStatus]

Op == {"idle", "reschedule", "unschedule", "accept", "decline", "cancel", "coming",
       "preparing", "ready", "complete", "initiated", "success", "failure", "autocancel"}

ASSUME OrdersAssumption ==
    /\ Schedulers \cap (Handlers \cup Consumers) = {}
    /\ Handlers \cap Consumers = {}
    /\ Nobody \notin Workers \cup Orders
    /\ Replies \subseteq PayloadStatus
    /\ Requests \subseteq Op
    /\ MaxFaults \in Nat

Stage == {"idle", "loaded", "changed", "compared", "locked", "emitted", "saved",
          "claimed", "cancelled"}

\* entity: the order as the handler loaded and then changed it, in memory.  cols:
\* the columns its next UPDATE writes.
Task == [op : Op, order : Orders \cup {Nobody}, stage : Stage, entity : Row,
         cols : SUBSET Columns]

TypeOK ==
    /\ row \in [Orders -> Row]
    /\ job \in [Orders -> Job]
    /\ pickups \subseteq Orders
    /\ rowLock \in [Orders -> Workers \cup {Nobody}]
    /\ jobLock \in [Orders -> Workers \cup {Nobody}]
    /\ sent \subseteq Message
    /\ lapsed \subseteq Orders
    /\ undefused \subseteq Orders
    /\ faults \in 0 .. MaxFaults
    /\ work \in [Workers -> Task]

----------------------------------------------------------------------------
(* Rows, entities and messages *)

NoRow == [status |-> "ABSENT", pay |-> "NONE", sched |-> FALSE, checkout |-> FALSE]

Idle == [op |-> "idle", order |-> Nobody, stage |-> "idle", entity |-> NoRow,
         cols |-> {}]

Exists(o) == row[o].status # "ABSENT"

Active(w) == work[w].op # "idle"

Msg(topic, o, status) == [topic |-> topic, order |-> o, status |-> status]

\* isSuccess of handlePaymentResult: 'completed' is not a success here.
IsSuccess(status) == status \in {"success", "paid"}

Cancellable == {"ACCEPTED", "AWAITING_PAYMENT", "SCHEDULED"}

\* The payment service has reported a success for order o.
SuccessSent(o) ==
    \E m \in sent : m.topic = "payment.result" /\ m.order = o /\ IsSuccess(m.status)

\* The guard of cancelOrder.
MayCancel(r) == r.pay # "PAID" /\ r.status \in Cancellable

\* The columns an entity would UPDATE, compared with the row as it is now.
Differing(entity, r) ==
    {c \in {"status", "pay", "sched", "checkout"} : entity[c] # r[c]}

\* The row after UPDATE ... SET those columns.
Updated(r, entity, cols) ==
    [status   |-> IF "status" \in cols THEN entity.status ELSE r.status,
     pay      |-> IF "pay" \in cols THEN entity.pay ELSE r.pay,
     sched    |-> IF "sched" \in cols THEN entity.sched ELSE r.sched,
     checkout |-> IF "checkout" \in cols THEN entity.checkout ELSE r.checkout]

RowFree(o) == rowLock[o] = Nobody
JobFree(o) == jobLock[o] = Nobody

\* Commit or rollback: w's locks go.
Release(lock, w) == [o \in Orders |-> IF lock[o] = w THEN Nobody ELSE lock[o]]

Goto(w, stage) == work' = [work EXCEPT ![w].stage = stage]

Finish(w) == work' = [work EXCEPT ![w] = Idle]

\* w commits its UPDATE of the columns that differ; without any there is no UPDATE.
CommitEntity(w) ==
    LET o == work[w].order IN
    /\ work[w].cols # {} => rowLock[o] \in {Nobody, w}
    /\ row' = [row EXCEPT ![o] = Updated(@, work[w].entity, work[w].cols)]

\* Worker w has loaded order o and goes on with `entity` at `stage`.
Begin(w, o, op, entity, cols, stage) ==
    /\ op \in Requests
    /\ ~ Active(w)
    /\ Exists(o)
    /\ work' = [work EXCEPT ![w] = [op |-> op, order |-> o, stage |-> stage,
                    entity |-> entity, cols |-> cols]]
    /\ UNCHANGED <<row, job, pickups, rowLock, jobLock, sent, lapsed, undefused, faults>>

\* The common case: the handler only sets the order's status.
SetStatus(w, o, op, status) ==
    Begin(w, o, op, [row[o] EXCEPT !.status = status], {}, "changed")

At(w, ops, stage) == work[w].op \in ops /\ work[w].stage = stage

----------------------------------------------------------------------------
(* Initial state *)

Init ==
    /\ row = [o \in Orders |-> NoRow]
    /\ job = [o \in Orders |-> "none"]
    /\ pickups = {}
    /\ rowLock = [o \in Orders |-> Nobody]
    /\ jobLock = [o \in Orders |-> Nobody]
    /\ sent = {}
    /\ lapsed = {}
    /\ undefused = {}
    /\ faults = 0
    /\ work = [w \in Workers |-> Idle]

----------------------------------------------------------------------------
(* Requests of the customer *)

CreateOrder_CancelJobForAll(o, scheduled) ==
    /\ ~ Exists(o)
    /\ row' = [row EXCEPT ![o] = [status |-> "SCHEDULED", pay |-> "NONE",
                                  sched |-> scheduled, checkout |-> FALSE]]
    /\ job' = [job EXCEPT ![o] = "cancel"]
    /\ UNCHANGED <<pickups, rowLock, jobLock, sent, lapsed, undefused, faults, work>>

\* One transaction inserts the order and its job: to process it at its time, or
\* to cancel it if it is not paid in five minutes.
CreateOrder(o, scheduled) ==
    /\ ~ Exists(o)
    /\ row' = [row EXCEPT ![o] = [status |-> "SCHEDULED", pay |-> "NONE",
                                  sched |-> scheduled, checkout |-> FALSE]]
    /\ job' = [job EXCEPT ![o] = IF scheduled THEN "process" ELSE "cancel"]
    /\ UNCHANGED <<pickups, rowLock, jobLock, sent, lapsed, undefused, faults, work>>

RescheduleOrder(h, o) ==
    /\ row[o].status = "SCHEDULED"
    /\ row[o].sched
    /\ job[o] # "none"
    /\ Begin(h, o, "reschedule", row[o], {"time"}, "changed")

UnscheduleOrder(h, o) ==
    /\ row[o].status = "SCHEDULED"
    /\ row[o].sched
    /\ Begin(h, o, "unschedule", [row[o] EXCEPT !.sched = FALSE], {"time"}, "changed")

\* Also what the cron task calls: NestedCancel.
CancelOrder(h, o) ==
    /\ MayCancel(row[o])
    /\ SetStatus(h, o, "cancel", "CANCELLED")

\* No guard on the status.
MarkCustomerComing(h, o) == SetStatus(h, o, "coming", "CUSTOMER_COMING")

\* GET :id/pickup.  It reads the order itself, again, before it inserts.
GetOrIssuePickup(o) ==
    /\ row[o].pay = "PAID"
    /\ pickups' = pickups \cup {o}
    /\ UNCHANGED <<row, job, rowLock, jobLock, sent, lapsed, undefused, faults, work>>

----------------------------------------------------------------------------
(* Requests of the restaurant's owner *)

\* ownerResponse: accept or decline.
OwnerResponse(h, o, op) ==
    /\ row[o].status = "SCHEDULED"
    /\ Begin(h, o, op, row[o], {}, "loaded")

MarkOrderPreparing_Unpaid(h, o) ==
    /\ row[o].status \in {"PAID", "AWAITING_PAYMENT"}
    /\ SetStatus(h, o, "preparing", "PREPARING")

MarkOrderPreparing(h, o) ==
    /\ row[o].status = "PAID"
    /\ SetStatus(h, o, "preparing", "PREPARING")

MarkAsReady(h, o) ==
    /\ row[o].status = "PREPARING"
    /\ SetStatus(h, o, "ready", "READY")

MarkAsComplete(h, o) ==
    /\ row[o].status = "READY"
    /\ SetStatus(h, o, "complete", "COMPLETED")

----------------------------------------------------------------------------
(* Payment events *)

HandlePaymentInitiated_Lowercase(h, o) ==
    /\ Msg("payment.initiated", o, "absent") \in sent
    /\ ~ (row[o].checkout /\ o \notin lapsed)
    /\ Begin(h, o, "initiated", [row[o] EXCEPT !.checkout = TRUE, !.pay = "initiated"],
             {}, "changed")

\* The consumer does not await it, so any number run at once: it takes a
\* handler.  An active checkout is kept.
HandlePaymentInitiated(h, o) ==
    /\ Msg("payment.initiated", o, "absent") \in sent
    /\ ~ (row[o].checkout /\ o \notin lapsed)
    /\ Begin(h, o, "initiated", [row[o] EXCEPT !.checkout = TRUE, !.pay = "INITIATED"],
             {}, "changed")

HandlePaymentSuccess_OnlyAwaiting(c, o) ==
    /\ SuccessSent(o)
    /\ row[o].status = "AWAITING_PAYMENT"
    /\ Begin(c, o, "success", [row[o] EXCEPT !.pay = "PAID", !.status = "PAID"],
             {}, "loaded")

\* handlePaymentResult, isSuccess.
HandlePaymentSuccess(c, o) ==
    /\ SuccessSent(o)
    /\ Begin(c, o, "success", [row[o] EXCEPT !.pay = "PAID", !.status = "PAID"],
             {}, "loaded")

\* handlePaymentResult, otherwise.  No guard on what the order is now.
HandlePaymentFailure(c, o) ==
    /\ \E m \in sent : m.topic = "payment.result" /\ m.order = o /\ ~ IsSuccess(m.status)
    /\ Begin(c, o, "failure", [row[o] EXCEPT !.pay = "FAILED", !.status = "DECLINED"],
             {}, "changed")

DefuseJob_Skipped(c) ==
    /\ At(c, {"success"}, "loaded")
    /\ Goto(c, "changed")
    /\ UNCHANGED <<row, job, pickups, rowLock, jobLock, sent, lapsed, undefused, faults>>

\* A DELETE of its own: it waits for a cron tick that has locked the job.
DefuseJob(c) ==
    LET o == work[c].order IN
    /\ At(c, {"success"}, "loaded")
    /\ job[o] \in CancelJob => JobFree(o)
    /\ job' = [job EXCEPT ![o] = IF @ \in CancelJob THEN "none" ELSE @]
    /\ Goto(c, "changed")
    /\ UNCHANGED <<row, pickups, rowLock, jobLock, sent, lapsed, undefused, faults>>

\* The DELETE fails; the error is logged and the order is marked paid all the same.
DefuseFails(c) ==
    LET o == work[c].order IN
    /\ At(c, {"success"}, "loaded")
    /\ faults < MaxFaults
    /\ faults' = faults + 1
    /\ undefused' = undefused \cup {o}
    /\ Goto(c, "changed")
    /\ UNCHANGED <<row, job, pickups, rowLock, jobLock, sent, lapsed>>

SavePaid(c) ==
    /\ At(c, {"success"}, "compared")
    /\ CommitEntity(c)
    /\ Goto(c, "saved")
    /\ UNCHANGED <<job, pickups, rowLock, jobLock, sent, lapsed, undefused, faults>>

\* issuePickupForOrder reads the order again and refuses an unpaid one; the
\* handler logs that.
IssuePickup(c) ==
    LET o == work[c].order IN
    /\ At(c, {"success"}, "saved")
    /\ pickups' = IF row[o].pay = "PAID" THEN pickups \cup {o} ELSE pickups
    /\ Finish(c)
    /\ UNCHANGED <<row, job, rowLock, jobLock, sent, lapsed, undefused, faults>>

----------------------------------------------------------------------------
(* Saving an order *)

\* The SELECT of repository.save.
Compare(w) ==
    /\ work[w].stage = "changed"
    /\ work' = [work EXCEPT ![w].stage = "compared",
                            ![w].cols = @ \cup Differing(work[w].entity, row[work[w].order])]
    /\ UNCHANGED <<row, job, pickups, rowLock, jobLock, sent, lapsed, undefused, faults>>

\* Does cancelOrder, with this entity, also delete a job?
DeletesJob_Always(entity) == TRUE

DeletesJob(entity) == entity.sched

\* The UPDATE is all that is left: nothing is waited for until the commit.
Save(w) ==
    /\ \/ At(w, {"coming", "initiated", "failure", "preparing", "ready", "complete"}, "compared")
       \/ At(w, {"cancel"}, "compared") /\ ~ DeletesJob(work[w].entity)
    /\ CommitEntity(w)
    /\ Finish(w)
    /\ UNCHANGED <<job, pickups, rowLock, jobLock, sent, lapsed, undefused, faults>>

\* The UPDATE of a transaction that still has to change the job.
LockRow(w) ==
    LET o == work[w].order IN
    /\ \/ At(w, {"reschedule", "unschedule"}, "compared")
       \/ At(w, {"cancel", "autocancel"}, "compared") /\ DeletesJob(work[w].entity)
    /\ work[w].cols # {} => RowFree(o)
    /\ rowLock' = [rowLock EXCEPT ![o] = IF work[w].cols # {} THEN w ELSE @]
    /\ Goto(w, "locked")
    /\ UNCHANGED <<row, job, pickups, jobLock, sent, lapsed, undefused, faults>>

\* DELETE FROM scheduled_jobs WHERE order_id, then commit.
DeleteJobAndCommit(w) ==
    LET o == work[w].order IN
    /\ At(w, {"unschedule", "cancel"}, "locked")
    /\ job[o] # "none" => JobFree(o)
    /\ job' = [job EXCEPT ![o] = "none"]
    /\ CommitEntity(w)
    /\ rowLock' = Release(rowLock, w)
    /\ Finish(w)
    /\ UNCHANGED <<pickups, jobLock, sent, lapsed, undefused, faults>>

\* Saving the loaded job moves it to the new time; if it is deleted after the
\* SELECT of that save, the UPDATE finds no row and nobody looks.
SaveJobAndCommit(w) ==
    LET o == work[w].order IN
    /\ At(w, {"reschedule"}, "locked")
    /\ job[o] # "none" => JobFree(o)
    /\ CommitEntity(w)
    /\ rowLock' = Release(rowLock, w)
    /\ Finish(w)
    /\ UNCHANGED <<job, pickups, jobLock, sent, lapsed, undefused, faults>>

RollBack(w) ==
    /\ rowLock' = Release(rowLock, w)
    /\ jobLock' = Release(jobLock, w)
    /\ Finish(w)
    /\ UNCHANGED <<row, job, pickups, sent, lapsed, undefused>>

\* If it is gone before that SELECT, the save inserts it without its order, which
\* was not loaded with it: order_id is NOT NULL, and the transaction rolls back.
SaveJobRefused(w) ==
    /\ At(w, {"reschedule"}, "locked")
    /\ job[work[w].order] = "none"
    /\ RollBack(w)
    /\ UNCHANGED faults

----------------------------------------------------------------------------
(* The transaction of ownerResponse *)

\* It deletes a PROCESS job first; others see the row, locked, until the commit.
DropProcessJob(w) ==
    LET o == work[w].order IN
    /\ At(w, {"accept", "decline"}, "loaded")
    /\ job[o] = "process" => JobFree(o)
    /\ jobLock' = IF job[o] = "process" THEN [jobLock EXCEPT ![o] = w] ELSE jobLock
    /\ work' = [work EXCEPT ![w].stage = "changed",
                            ![w].entity.status = IF work[w].op = "accept"
                                                 THEN "ACCEPTED" ELSE "DECLINED"]
    /\ UNCHANGED <<row, job, pickups, rowLock, sent, lapsed, undefused, faults>>

\* Saved as ACCEPTED, announced to the payment service, still uncommitted.
EmitAwaitingPayment(w) ==
    LET o == work[w].order IN
    /\ At(w, {"accept"}, "compared")
    /\ RowFree(o)
    /\ rowLock' = [rowLock EXCEPT ![o] = w]
    /\ sent' = sent \cup {Msg("order.awaiting_payment", o, "absent")}
    /\ work' = [work EXCEPT ![w].stage = "emitted", ![w].entity.status = "AWAITING_PAYMENT",
                            ![w].cols = {"status", "pay", "sched", "checkout"}]
    /\ UNCHANGED <<row, job, pickups, jobLock, lapsed, undefused, faults>>

\* The second save compares under the row lock, so it leaves the row as the entity.
CommitResponse(w) ==
    LET o == work[w].order IN
    /\ At(w, {"accept"}, "emitted") \/ At(w, {"decline"}, "compared")
    /\ CommitEntity(w)
    /\ job' = [job EXCEPT ![o] = IF jobLock[o] = w THEN "none" ELSE @]
    /\ rowLock' = Release(rowLock, w)
    /\ jobLock' = Release(jobLock, w)
    /\ Finish(w)
    /\ UNCHANGED <<pickups, sent, lapsed, undefused, faults>>

----------------------------------------------------------------------------
(* The cron task: processCancellationJob, one job of one tick *)

ClaimJob_Unlocked(s, o) ==
    /\ job[o] = "cancel"
    /\ JobFree(o)
    /\ ~ Active(s)
    /\ work' = [work EXCEPT ![s] = [op |-> "autocancel", order |-> o, entity |-> row[o],
                    cols |-> {},
                    stage |-> IF row[o].pay = "PAID" THEN "cancelled" ELSE "claimed"]]
    /\ UNCHANGED <<row, job, pickups, rowLock, jobLock, sent, lapsed, undefused, faults>>

\* SELECT ... FOR UPDATE of a pending job, then a read of its order.
ClaimJob(s, o) ==
    /\ job[o] = "cancel"
    /\ JobFree(o)
    /\ ~ Active(s)
    /\ jobLock' = [jobLock EXCEPT ![o] = s]
    /\ work' = [work EXCEPT ![s] = [op |-> "autocancel", order |-> o, entity |-> row[o],
                    cols |-> {},
                    stage |-> IF row[o].pay = "PAID" THEN "cancelled" ELSE "claimed"]]
    /\ UNCHANGED <<row, job, pickups, rowLock, sent, lapsed, undefused, faults>>

\* Save the job's outcome and commit: the lock on the job goes.
SettleJob(s, outcome) ==
    /\ job' = [job EXCEPT ![work[s].order] = outcome]
    /\ jobLock' = Release(jobLock, s)
    /\ Finish(s)
    /\ UNCHANGED <<row, pickups, sent, lapsed, undefused>>

\* cancelOrder, in a transaction and on a connection of its own.
NestedCancel(s) ==
    LET o == work[s].order IN
    /\ At(s, {"autocancel"}, "claimed")
    /\ MayCancel(row[o])
    /\ work' = [work EXCEPT ![s].stage = "changed",
                            ![s].entity = [row[o] EXCEPT !.status = "CANCELLED"]]
    /\ UNCHANGED <<row, job, pickups, rowLock, jobLock, sent, lapsed, undefused, faults>>

NestedCancelRefused_StaysPending(s) ==
    /\ At(s, {"autocancel"}, "claimed")
    /\ ~ MayCancel(row[work[s].order])
    /\ SettleJob(s, "cancel")
    /\ UNCHANGED <<rowLock, faults>>

\* cancelOrder throws on its guard: the job is marked failed.
NestedCancelRefused(s) ==
    /\ At(s, {"autocancel"}, "claimed")
    /\ ~ MayCancel(row[work[s].order])
    /\ SettleJob(s, "cancel_failed")
    /\ UNCHANGED <<rowLock, faults>>

\* cancelOrder's transaction fails and rolls back.
NestedCancelFails(s) ==
    /\ work[s].op = "autocancel"
    /\ work[s].stage \in {"claimed", "changed", "compared"}
    /\ faults < MaxFaults
    /\ faults' = faults + 1
    /\ SettleJob(s, "cancel_failed")
    /\ UNCHANGED rowLock

\* cancelOrder commits; the job is not yet marked.
NestedCommit(s) ==
    /\ At(s, {"autocancel"}, "compared")
    /\ ~ DeletesJob(work[s].entity)
    /\ CommitEntity(s)
    /\ Goto(s, "cancelled")
    /\ UNCHANGED <<job, pickups, rowLock, jobLock, sent, lapsed, undefused, faults>>

\* The job is marked processed: cancelled now, or found paid when it was claimed.
MarkProcessed(s) ==
    /\ At(s, {"autocancel"}, "cancelled")
    /\ SettleJob(s, "cancel_processed")
    /\ UNCHANGED <<rowLock, faults>>

----------------------------------------------------------------------------
(* Faults and the environment *)

\* The process crashes or a statement fails.  Kafka redelivers what was not
\* committed: `sent` keeps every message.
Abort(w) ==
    /\ Active(w)
    /\ faults < MaxFaults
    /\ faults' = faults + 1
    /\ RollBack(w)

WantsRow(w) == At(w, {"accept", "decline"}, "compared") /\ work[w].cols # {}

WantsJob(w) == At(w, {"reschedule", "unschedule", "cancel", "autocancel"}, "locked")

\* ownerResponse locks the job, then the order; the others lock the order, then
\* the job.  PostgreSQL sees the cycle and aborts one of the two.
DeadlockVictim(v, w) ==
    LET o == work[v].order IN
    /\ WantsRow(v) /\ jobLock[o] = v
    /\ WantsJob(w) /\ rowLock[o] = w
    /\ RollBack(v) \/ RollBack(w)
    /\ UNCHANGED faults

\* The payment service, in answer to order.awaiting_payment.
PaymentInitiated(o) ==
    /\ Msg("order.awaiting_payment", o, "absent") \in sent
    /\ sent' = sent \cup {Msg("payment.initiated", o, "absent")}
    /\ UNCHANGED <<row, job, pickups, rowLock, jobLock, lapsed, undefused, faults, work>>

PaymentResult(o, status) ==
    /\ Msg("order.awaiting_payment", o, "absent") \in sent
    /\ sent' = sent \cup {Msg("payment.result", o, status)}
    /\ UNCHANGED <<row, job, pickups, rowLock, jobLock, lapsed, undefused, faults, work>>

\* payment_expires_at passes.
CheckoutLapses(o) ==
    /\ row[o].checkout
    /\ o \notin lapsed
    /\ lapsed' = lapsed \cup {o}
    /\ UNCHANGED <<row, job, pickups, rowLock, jobLock, sent, undefused, faults, work>>

----------------------------------------------------------------------------
(* Specification *)

Request(h, o) ==
    \/ RescheduleOrder(h, o)
    \/ UnscheduleOrder(h, o)
    \/ CancelOrder(h, o)
    \/ MarkCustomerComing(h, o)
    \/ \E op \in {"accept", "decline"} : OwnerResponse(h, o, op)
    \/ MarkOrderPreparing(h, o)
    \/ MarkAsReady(h, o)
    \/ MarkAsComplete(h, o)
    \/ HandlePaymentInitiated(h, o)

\* The steps that take worker w on, none of them a fault.
Progress(w) ==
    \/ Compare(w)
    \/ Save(w)
    \/ LockRow(w)
    \/ DeleteJobAndCommit(w)
    \/ SaveJobAndCommit(w)
    \/ SaveJobRefused(w)
    \/ DropProcessJob(w)
    \/ EmitAwaitingPayment(w)
    \/ CommitResponse(w)
    \/ DefuseJob(w)
    \/ SavePaid(w)
    \/ IssuePickup(w)
    \/ NestedCancel(w)
    \/ NestedCancelRefused(w)
    \/ NestedCommit(w)
    \/ MarkProcessed(w)

Environment(o) ==
    \/ \E scheduled \in BOOLEAN : CreateOrder(o, scheduled)
    \/ GetOrIssuePickup(o)
    \/ PaymentInitiated(o)
    \/ \E status \in Replies : PaymentResult(o, status)
    \/ CheckoutLapses(o)

Fault(w) ==
    \/ Abort(w)
    \/ DefuseFails(w)
    \/ NestedCancelFails(w)

Next ==
    \/ \E h \in Handlers, o \in Orders : Request(h, o)
    \/ \E c \in Consumers, o \in Orders : HandlePaymentSuccess(c, o) \/ HandlePaymentFailure(c, o)
    \/ \E s \in Schedulers, o \in Orders : ClaimJob(s, o)
    \/ \E w \in Workers : Progress(w) \/ Fault(w)
    \/ \E v, w \in Handlers : DeadlockVictim(v, w)
    \/ \E o \in Orders : Environment(o)

Spec == Init /\ [][Next]_vars

\* Request handlers run on, PostgreSQL serves those who wait for a lock in turn and
\* breaks the deadlocks it sees, cron ticks every minute, and Kafka redelivers a
\* message until its consumer has handled it.  Nobody has to send a request.
Fairness ==
    /\ \A w \in Workers : SF_vars(Progress(w))
    /\ WF_vars(\E v, w \in Handlers : DeadlockVictim(v, w))
    /\ \A o \in Orders : WF_vars(\E s \in Schedulers : ClaimJob(s, o))
    /\ \A o \in Orders : SF_vars(\E c \in Consumers : HandlePaymentSuccess(c, o))

FairSpec == Spec /\ Fairness

----------------------------------------------------------------------------
(* Properties *)

\* The entities that may still be written over order o's row.
Entities(o) == {work[w].entity : w \in {v \in Workers : work[v].order = o}}

\* Only an immediate order has a cancellation job: neither its row nor a handler's
\* copy of it is a scheduled order, whatever requests interleave.
CancelJobMeansImmediate ==
    \A o \in Orders : job[o] \in CancelJob =>
        ~ row[o].sched /\ \A e \in Entities(o) : ~ e.sched

\* cancelOrder runs inside the cron task's transaction, on a second connection; if
\* it waited for the job its caller has locked, nobody would see that deadlock and
\* both would hang.  No transaction that holds an order's row ever waits for a job
\* locked by a cron tick.
NoHiddenDeadlock ==
    \A w \in Workers : WantsJob(w) => jobLock[work[w].order] \notin Schedulers

\* Unless the deletion of the job failed, an order is marked paid (in its row, or in
\* an entity about to be saved) only when its cancellation job is gone.
DefusedBeforePaid ==
    \A o \in Orders \ undefused :
        \/ row[o].pay = "PAID"
        \/ \E w \in Workers : /\ work[w].order = o
                              /\ work[w].entity.pay = "PAID"
                              /\ ~ At(w, {"success"}, "loaded")
        => job[o] \notin CancelJob

\* No step of a cron tick changes the row of a paid order (again, unless the
\* deletion of its job failed), although it checks the payment twice and writes later.
AutoCancelSparesPaid ==
    [][\A s \in Schedulers : \A o \in Orders \ undefused :
        work[s].order = o /\ work'[s] # work[s] /\ row[o].pay = "PAID" => row'[o] = row[o]]_vars

\* What the kitchen works on, or a customer may collect, was paid: the payment
\* service has reported a success for it.
KitchenOnlyAfterPayment ==
    \A o \in Orders :
        \/ row[o].status \in {"PAID", "PREPARING", "READY", "COMPLETED"}
        \/ o \in pickups
        => SuccessSent(o)

\* A cancellation job is settled: the order is cancelled, the job is marked or it is
\* deleted, even if the task crashes and the order's status moves under it.
CancelJobSettles == \A o \in Orders : job[o] = "cancel" ~> job[o] # "cancel"

\* A success the payment service reports is recorded, whatever the order became.
SuccessIsRecorded ==
    \A o \in Orders : SuccessSent(o) ~> row[o].pay = "PAID"

(* What comments and messages of the code say, and it does not keep *)

\* "Prevent cancellation after payment succeeded" (order.service.ts, cancelOrder).
NoCancelAfterPayment ==
    [][\A o \in Orders : row[o].pay = "PAID" /\ row[o].status # "CANCELLED"
            => row'[o].status # "CANCELLED"]_vars

\* "Data integrity issue: Scheduled order ... is missing its corresponding job"
\* (order.service.ts, rescheduleOrder): the code takes it that this cannot be.
ScheduledOrderHasJob ==
    \A o \in Orders : row[o].status = "SCHEDULED" /\ row[o].sched => job[o] # "none"

============================================================================
