---------------------------- MODULE OrdersProofs ----------------------------
(***************************************************************************)
(* What the races of Orders may never break, for any number of orders,     *)
(* requests, consumers, cron ticks and faults.                             *)
(***************************************************************************)
EXTENDS Orders, TLAPS

----------------------------------------------------------------------------
(* Operators *)

LEMMA UpdatedType ==
    ASSUME NEW r \in Row, NEW e \in Row, NEW cols \in SUBSET Columns
    PROVE  Updated(r, e, cols) \in Row
  BY DEF Updated, Row

LEMMA ReleaseType ==
    ASSUME NEW lock \in [Orders -> Workers \cup {Nobody}], NEW w \in Workers
    PROVE  Release(lock, w) \in [Orders -> Workers \cup {Nobody}]
  BY DEF Release

----------------------------------------------------------------------------
(* Type correctness *)

\* A worker that is active works on an order that exists, and is about to write
\* one that exists.
ActiveHasOrder ==
    \A w \in Workers :
        /\ Active(w) <=> work[w].order \in Orders
        /\ Active(w) => Exists(work[w].order) /\ work[w].entity.status # "ABSENT"

\* A handler that begins or goes on leaves a well-formed record of its work.
LEMMA BeginType ==
    ASSUME TypeOK, NEW w \in Workers, NEW o \in Orders, NEW op, NEW entity \in Row,
           NEW cols \in SUBSET Columns, NEW stage \in Stage,
           Begin(w, o, op, entity, cols, stage)
    PROVE  TypeOK'
  <1>1. op \in Op
    BY OrdersAssumption DEF Begin
  <1>2. work' \in [Workers -> Task]
    BY <1>1 DEF Begin, TypeOK, Task
  <1> QED
    BY <1>2 DEF Begin, TypeOK

LEMMA SetStatusType ==
    ASSUME TypeOK, NEW w \in Workers, NEW o \in Orders, NEW op, NEW status \in Status,
           SetStatus(w, o, op, status)
    PROVE  TypeOK'
  <1>1. [row[o] EXCEPT !.status = status] \in Row
    BY DEF TypeOK, Row
  <1> QED
    BY <1>1, BeginType DEF SetStatus, Job, Stage

LEMMA RequestType ==
    ASSUME TypeOK, NEW h \in Handlers, NEW o \in Orders, Request(h, o)
    PROVE  TypeOK'
  <1> USE DEF Stage, Job, Columns
  <1>0. h \in Workers /\ row[o] \in Row /\ job[o] \in Job
    BY DEF TypeOK, Workers
  <1>1. CASE RescheduleOrder(h, o)
    BY <1>0, <1>1, BeginType DEF RescheduleOrder
  <1>2. CASE UnscheduleOrder(h, o)
    <2>1. [row[o] EXCEPT !.sched = FALSE] \in Row
      BY <1>0 DEF Row
    <2> QED
      BY <1>0, <1>2, <2>1, BeginType DEF UnscheduleOrder
  <1>3. CASE \/ CancelOrder(h, o) \/ MarkCustomerComing(h, o) \/ MarkOrderPreparing(h, o)
             \/ MarkAsReady(h, o) \/ MarkAsComplete(h, o)
    BY <1>0, <1>3, SetStatusType
    DEF CancelOrder, MarkCustomerComing, MarkOrderPreparing, MarkAsReady, MarkAsComplete, Status
  <1>4. CASE \E op \in {"accept", "decline"} : OwnerResponse(h, o, op)
    BY <1>0, <1>4, BeginType DEF OwnerResponse
  <1>5. CASE HandlePaymentInitiated(h, o)
    <2>1. [row[o] EXCEPT !.checkout = TRUE, !.pay = "INITIATED"] \in Row
      BY <1>0 DEF Row, PayStatus
    <2> QED
      BY <1>0, <1>5, <2>1, BeginType DEF HandlePaymentInitiated
  <1> QED
    BY <1>1, <1>2, <1>3, <1>4, <1>5 DEF Request

LEMMA ResultType ==
    ASSUME TypeOK, NEW c \in Consumers, NEW o \in Orders,
           HandlePaymentSuccess(c, o) \/ HandlePaymentFailure(c, o)
    PROVE  TypeOK'
  <1>1. c \in Workers /\ "none" \in Job /\ "loaded" \in Stage /\ "changed" \in Stage
    BY DEF Workers, Job, Stage
  <1>2. /\ [row[o] EXCEPT !.pay = "PAID", !.status = "PAID"] \in Row
        /\ [row[o] EXCEPT !.pay = "FAILED", !.status = "DECLINED"] \in Row
    BY DEF TypeOK, Row, PayStatus, Status
  <1> QED
    BY <1>1, <1>2, BeginType DEF HandlePaymentSuccess, HandlePaymentFailure

\* Steps that only move a worker on, and the commit of its entity.
LEMMA GotoType ==
    ASSUME TypeOK, NEW w \in Workers, NEW stage \in Stage, Goto(w, stage)
    PROVE  work' \in [Workers -> Task]
  BY DEF TypeOK, Goto, Task

LEMMA FinishType ==
    ASSUME TypeOK, NEW w \in Workers, Finish(w)
    PROVE  work' \in [Workers -> Task]
  <1>1. Idle \in Task
    BY DEF Idle, Task, Op, Stage, NoRow, Row, Status, PayStatus, Job
  <1> QED
    BY <1>1 DEF TypeOK, Finish

LEMMA CommitType ==
    ASSUME TypeOK, NEW w \in Workers, CommitEntity(w)
    PROVE  row' \in [Orders -> Row]
  <1>1. work[w].entity \in Row /\ work[w].cols \in SUBSET Columns
    BY DEF TypeOK, Task
  <1> QED
    BY <1>1, UpdatedType DEF TypeOK, CommitEntity

LEMMA SettleType ==
    ASSUME TypeOK, NEW s \in Workers, NEW outcome \in CancelJob, SettleJob(s, outcome),
           rowLock' = rowLock, faults' \in 0 .. MaxFaults
    PROVE  TypeOK'
  <1>1. work' \in [Workers -> Task]
    BY FinishType DEF SettleJob
  <1>2. jobLock' \in [Orders -> Workers \cup {Nobody}]
    BY ReleaseType DEF SettleJob, TypeOK
  <1>3. job' \in [Orders -> Job]
    BY DEF SettleJob, TypeOK, Job
  <1> QED
    BY <1>1, <1>2, <1>3 DEF SettleJob, TypeOK

LEMMA RollBackType ==
    ASSUME TypeOK, NEW w \in Workers, RollBack(w), faults' \in 0 .. MaxFaults
    PROVE  TypeOK'
  BY FinishType, ReleaseType DEF RollBack, TypeOK

LEMMA ProgressType ==
    ASSUME TypeOK, ActiveHasOrder, NEW w \in Workers, Progress(w)
    PROVE  TypeOK'
  <1> DEFINE o == work[w].order
  <1>0. work[w] \in Task
    BY DEF TypeOK
  <1>1. CASE Compare(w)
    <2>1. Differing(work[w].entity, row[o]) \in SUBSET Columns
      BY DEF Differing, Columns
    <2>2. work' \in [Workers -> Task]
      BY <1>0, <1>1, <2>1 DEF Compare, TypeOK, Task, Stage
    <2> QED
      BY <1>1, <2>2 DEF Compare, TypeOK
  <1>2. CASE Save(w)
    BY <1>2, CommitType, FinishType DEF Save, TypeOK
  <1>3. CASE LockRow(w)
    <2>1. work' \in [Workers -> Task]
      BY <1>3, GotoType DEF LockRow, Stage
    <2> QED
      BY <1>3, <2>1 DEF LockRow, TypeOK
  <1>4. CASE DeleteJobAndCommit(w)
    <2>1. job' \in [Orders -> Job]
      BY <1>4 DEF DeleteJobAndCommit, TypeOK, Job
    <2> QED
      BY <1>4, <2>1, CommitType, FinishType, ReleaseType DEF DeleteJobAndCommit, TypeOK
  <1>5. CASE SaveJobAndCommit(w)
    BY <1>5, CommitType, FinishType, ReleaseType DEF SaveJobAndCommit, TypeOK
  <1>6. CASE DropProcessJob(w)
    <2>1. work' \in [Workers -> Task]
      BY <1>0, <1>6 DEF DropProcessJob, TypeOK, Task, Stage, Row, Status
    <2> QED
      BY <1>6, <2>1 DEF DropProcessJob, TypeOK
  <1>7. CASE EmitAwaitingPayment(w)
    <2>1. work' \in [Workers -> Task]
      BY <1>0, <1>7 DEF EmitAwaitingPayment, TypeOK, Task, Stage, Row, Status, Columns
    <2>2. o \in Orders
      BY <1>7 DEF EmitAwaitingPayment, ActiveHasOrder, Active, At
    <2>3. sent' \subseteq Message
      BY <1>7, <2>2 DEF EmitAwaitingPayment, TypeOK, Msg, Message, PayloadStatus
    <2> QED
      BY <1>7, <2>1, <2>3 DEF EmitAwaitingPayment, TypeOK
  <1>8. CASE CommitResponse(w)
    <2>1. job' \in [Orders -> Job]
      BY <1>8 DEF CommitResponse, TypeOK, Job
    <2> QED
      BY <1>8, <2>1, CommitType, FinishType, ReleaseType DEF CommitResponse, TypeOK
  <1>9. CASE DefuseJob(w)
    <2>1. job' \in [Orders -> Job]
      BY <1>9 DEF DefuseJob, TypeOK, Job
    <2>2. work' \in [Workers -> Task]
      BY <1>9, GotoType DEF DefuseJob, Stage
    <2> QED
      BY <1>9, <2>1, <2>2 DEF DefuseJob, TypeOK
  <1>10. CASE SavePaid(w)
    <2>1. work' \in [Workers -> Task]
      BY <1>10, GotoType DEF SavePaid, Stage
    <2> QED
      BY <1>10, <2>1, CommitType DEF SavePaid, TypeOK
  <1>11. CASE IssuePickup(w)
    <2>1. o \in Orders
      BY <1>11 DEF IssuePickup, ActiveHasOrder, Active, At
    <2> QED
      BY <1>11, <2>1, FinishType DEF IssuePickup, TypeOK
  <1>12. CASE NestedCancel(w)
    <2>1. o \in Orders
      BY <1>12 DEF NestedCancel, ActiveHasOrder, Active, At
    <2>2. work' \in [Workers -> Task]
      BY <1>0, <1>12, <2>1 DEF NestedCancel, TypeOK, Task, Stage, Row, Status
    <2> QED
      BY <1>12, <2>2 DEF NestedCancel, TypeOK
  <1>13. CASE NestedCancelRefused(w)
    BY <1>13, SettleType DEF NestedCancelRefused, CancelJob, TypeOK
  <1>14. CASE NestedCommit(w)
    <2>1. work' \in [Workers -> Task]
      BY <1>14, GotoType DEF NestedCommit, Stage
    <2> QED
      BY <1>14, <2>1, CommitType DEF NestedCommit, TypeOK
  <1>15. CASE MarkProcessed(w)
    BY <1>15, SettleType DEF MarkProcessed, CancelJob, TypeOK
  <1>16. CASE SaveJobRefused(w)
    BY <1>16, RollBackType DEF SaveJobRefused, TypeOK
  <1> QED
    BY <1>1, <1>2, <1>3, <1>4, <1>5, <1>6, <1>7, <1>8, <1>9, <1>10, <1>11, <1>12, <1>13,
       <1>14, <1>15, <1>16 DEF Progress

\* The other steps only rename the columns of a few records.
LEMMA EnvironmentType ==
    ASSUME TypeOK, NEW o \in Orders, Environment(o)
    PROVE  TypeOK'
  <1>1. CASE \E scheduled \in BOOLEAN : CreateOrder(o, scheduled)
    BY <1>1 DEF CreateOrder, TypeOK, Row, Status, PayStatus, Job, CancelJob
  <1>2. CASE GetOrIssuePickup(o) \/ CheckoutLapses(o)
    BY <1>2 DEF GetOrIssuePickup, CheckoutLapses, TypeOK
  <1>3. CASE PaymentInitiated(o) \/ \E status \in Replies : PaymentResult(o, status)
    <2>1. sent' \subseteq Message
      BY <1>3, OrdersAssumption
      DEF PaymentInitiated, PaymentResult, TypeOK, Msg, Message, PayloadStatus
    <2> QED
      BY <1>3, <2>1 DEF PaymentInitiated, PaymentResult, TypeOK
  <1> QED
    BY <1>1, <1>2, <1>3 DEF Environment

LEMMA FaultType ==
    ASSUME TypeOK, ActiveHasOrder, NEW w \in Workers, Fault(w)
    PROVE  TypeOK'
  <1>0. faults \in 0 .. MaxFaults /\ MaxFaults \in Nat
    BY OrdersAssumption DEF TypeOK
  <1>1. CASE Abort(w)
    <2>1. faults' \in 0 .. MaxFaults
      BY <1>0, <1>1 DEF Abort
    <2> QED
      BY <1>1, <2>1, RollBackType DEF Abort
  <1>2. CASE DefuseFails(w)
    <2>1. faults' \in 0 .. MaxFaults
      BY <1>0, <1>2 DEF DefuseFails
    <2>2. work' \in [Workers -> Task]
      BY <1>2, GotoType DEF DefuseFails, Stage
    <2>3. work[w].order \in Orders
      BY <1>2 DEF DefuseFails, ActiveHasOrder, Active, At
    <2> QED
      BY <1>2, <2>1, <2>2, <2>3 DEF DefuseFails, TypeOK
  <1>3. CASE NestedCancelFails(w)
    <2>1. faults' \in 0 .. MaxFaults
      BY <1>0, <1>3 DEF NestedCancelFails
    <2> QED
      BY <1>3, <2>1, SettleType DEF NestedCancelFails, CancelJob
  <1> QED
    BY <1>1, <1>2, <1>3 DEF Fault

LEMMA ClaimType ==
    ASSUME TypeOK, NEW s \in Schedulers, NEW o \in Orders, ClaimJob(s, o)
    PROVE  TypeOK'
  <1>1. s \in Workers /\ row[o] \in Row
    BY DEF Workers, TypeOK
  <1>2. work' \in [Workers -> Task]
    BY <1>1 DEF ClaimJob, TypeOK, Task, Op, Stage, Job
  <1> QED
    BY <1>1, <1>2 DEF ClaimJob, TypeOK

\* Every step keeps the types and the order of an active worker.
LEMMA TypeStep ==
    ASSUME TypeOK, ActiveHasOrder, [Next]_vars
    PROVE  TypeOK'
  <1>1. CASE \E h \in Handlers, o \in Orders : Request(h, o)
    BY <1>1, RequestType
  <1>2. CASE \E c \in Consumers, o \in Orders :
                 HandlePaymentSuccess(c, o) \/ HandlePaymentFailure(c, o)
    BY <1>2, ResultType
  <1>3. CASE \E s \in Schedulers, o \in Orders : ClaimJob(s, o)
    BY <1>3, ClaimType
  <1>4. CASE \E w \in Workers : Progress(w) \/ Fault(w)
    BY <1>4, ProgressType, FaultType
  <1>5. CASE \E v, w \in Handlers : DeadlockVictim(v, w)
    <2>1. \E w \in Workers : RollBack(w) /\ faults' = faults
      BY <1>5 DEF DeadlockVictim, Workers
    <2> QED
      BY <2>1, RollBackType DEF TypeOK
  <1>6. CASE \E o \in Orders : Environment(o)
    BY <1>6, EnvironmentType
  <1>7. CASE UNCHANGED vars
    BY <1>7 DEF vars, TypeOK
  <1> QED
    BY <1>1, <1>2, <1>3, <1>4, <1>5, <1>6, <1>7 DEF Next

----------------------------------------------------------------------------
(* Who works on what, and what the locks of the cron task mean *)

\* Cron ticks, and nobody else, cancel unpaid orders.
Roles == \A w \in Workers : Active(w) => (work[w].op = "autocancel" <=> w \in Schedulers)

\* A cron tick has its job locked, and the job it has locked is pending.
TickHoldsItsJob ==
    /\ \A s \in Schedulers : Active(s) => jobLock[work[s].order] = s
    /\ \A o \in Orders : jobLock[o] \in Schedulers =>
           work[jobLock[o]].order = o /\ job[o] = "cancel"

\* A job has an order.
JobHasOrder == \A o \in Orders : job[o] # "none" => Exists(o)

Control == TypeOK /\ ActiveHasOrder /\ Roles /\ TickHoldsItsJob /\ JobHasOrder

\* An entity and the row it is saved over exist; so does what is left.
LEMMA SavedExists ==
    ASSUME TypeOK, ActiveHasOrder, NEW w \in Workers, Active(w), CommitEntity(w)
    PROVE  \A o \in Orders : row[o].status # "ABSENT" => row'[o].status # "ABSENT"
  BY DEF TypeOK, ActiveHasOrder, CommitEntity, Updated, Task, Row

LEMMA BeginControl ==
    ASSUME Control, NEW w \in Workers, NEW o \in Orders, NEW op, NEW entity \in Row,
           NEW cols, NEW stage, Begin(w, o, op, entity, cols, stage),
           op \notin {"idle", "autocancel"}, w \notin Schedulers, entity.status # "ABSENT"
    PROVE  (ActiveHasOrder /\ Roles /\ TickHoldsItsJob)'
  BY OrdersAssumption
  DEF Control, ActiveHasOrder, Roles, TickHoldsItsJob, TypeOK, Begin, Active, Exists, Workers

\* A worker goes on: same handler, same order.
LEMMA GoOnControl ==
    ASSUME Control, NEW w \in Workers, \A v \in Workers : v # w => work'[v] = work[v],
           work'[w].op = work[w].op, work'[w].order = work[w].order,
           Active(w) => work'[w].entity.status # "ABSENT",
           \A o \in Orders : Exists(o) => Exists(o)',
           \A o \in Orders : \/ jobLock'[o] = jobLock[o]
                             \/ jobLock[o] \notin Schedulers /\ jobLock'[o] \notin Schedulers,
           \A o \in Orders : jobLock'[o] \in Schedulers => job'[o] = job[o]
    PROVE  (ActiveHasOrder /\ Roles /\ TickHoldsItsJob)'
  BY OrdersAssumption
  DEF Control, ActiveHasOrder, Roles, TickHoldsItsJob, TypeOK, Active, Exists, Workers, Task

\* A worker ends, and frees the job it has locked.
LEMMA EndControl ==
    ASSUME Control, NEW w \in Workers, Finish(w),
           \A o \in Orders : Exists(o) => Exists(o)',
           jobLock' = Release(jobLock, w),
           \A o \in Orders : jobLock'[o] \in Schedulers => job'[o] = job[o]
    PROVE  (ActiveHasOrder /\ Roles /\ TickHoldsItsJob)'
  BY OrdersAssumption
  DEF Control, ActiveHasOrder, Roles, TickHoldsItsJob, TypeOK, Active, Exists, Workers, Task,
      Finish, Idle, Release

\* A request that ends has no job of a cron tick to free.
LEMMA RequestEndControl ==
    ASSUME Control, NEW w \in Workers, Finish(w), work[w].op # "autocancel", Active(w),
           \A o \in Orders : Exists(o) => Exists(o)',
           jobLock' = jobLock,
           \A o \in Orders : jobLock'[o] \in Schedulers => job'[o] = job[o]
    PROVE  (ActiveHasOrder /\ Roles /\ TickHoldsItsJob)'
  BY OrdersAssumption
  DEF Control, ActiveHasOrder, Roles, TickHoldsItsJob, TypeOK, Active, Exists, Workers, Task,
      Finish, Idle

LEMMA SettleControl ==
    ASSUME Control, NEW s \in Workers, work[s].op = "autocancel", NEW outcome,
           SettleJob(s, outcome)
    PROVE  (ActiveHasOrder /\ Roles /\ TickHoldsItsJob)'
  <1>1. s \in Schedulers /\ jobLock[work[s].order] = s /\ work[s].order \in Orders
    BY DEF Control, Roles, ActiveHasOrder, TickHoldsItsJob, Active
  <1>2. jobLock'[work[s].order] \notin Schedulers
    BY <1>1, OrdersAssumption DEF SettleJob, Release, Workers
  <1>3. \A o \in Orders : o # work[s].order => job'[o] = job[o]
    BY DEF SettleJob, Control, TypeOK
  <1> QED
    BY <1>2, <1>3, EndControl DEF SettleJob, Exists

LEMMA RollBackControl ==
    ASSUME Control, NEW w \in Workers, RollBack(w)
    PROVE  (ActiveHasOrder /\ Roles /\ TickHoldsItsJob)'
  BY EndControl DEF RollBack, Exists

LEMMA ProgressControl ==
    ASSUME Control, NEW w \in Workers, Progress(w)
    PROVE  (ActiveHasOrder /\ Roles /\ TickHoldsItsJob)'
  <1> DEFINE o == work[w].order
  <1>0. /\ work[w] \in Task
        /\ work' \in [Workers -> Task]
        /\ Active(w) => o \in Orders /\ work[w].entity.status # "ABSENT"
    BY ProgressType DEF Control, TypeOK, ActiveHasOrder
  <1>a. ASSUME Active(w), CommitEntity(w)
        PROVE  \A p \in Orders : Exists(p) => Exists(p)'
    BY <1>a, SavedExists DEF Exists, Control
  <1>1. CASE Compare(w)
    BY <1>0, <1>1, GoOnControl DEF Compare, Task, Exists
  <1>2. CASE Save(w)
    BY <1>0, <1>2, <1>a, RequestEndControl DEF Save, At, Active
  <1>3. CASE LockRow(w)
    BY <1>0, <1>3, GoOnControl DEF LockRow, TypeOK, Task, Goto, Exists
  <1>4. CASE DeleteJobAndCommit(w)
    <2>1. \A p \in Orders : jobLock'[p] \in Schedulers => job'[p] = job[p]
      BY <1>4, OrdersAssumption
      DEF DeleteJobAndCommit, JobFree, Control, TickHoldsItsJob, TypeOK, Workers
    <2> QED
      BY <1>0, <1>4, <1>a, <2>1, RequestEndControl DEF DeleteJobAndCommit, At, Active
  <1>5. CASE SaveJobAndCommit(w)
    <2>1. \A p \in Orders : jobLock'[p] \in Schedulers => job'[p] = job[p]
      BY <1>5 DEF SaveJobAndCommit, Control, TickHoldsItsJob, TypeOK
    <2> QED
      BY <1>0, <1>5, <1>a, <2>1, RequestEndControl DEF SaveJobAndCommit, At, Active
  <1>6. CASE DropProcessJob(w)
    <2>1. w \notin Schedulers
      BY <1>6 DEF DropProcessJob, At, Control, Roles, Active
    <2>2. \A p \in Orders : \/ jobLock'[p] = jobLock[p]
                            \/ jobLock[p] \notin Schedulers /\ jobLock'[p] \notin Schedulers
      BY <1>6, <2>1, OrdersAssumption DEF DropProcessJob, JobFree, Control, TypeOK, Workers
    <2> QED
      BY <1>0, <1>6, <2>2, GoOnControl DEF DropProcessJob, Task, Exists
  <1>7. CASE EmitAwaitingPayment(w)
    BY <1>0, <1>7, GoOnControl DEF EmitAwaitingPayment, Task, Exists
  <1>8. CASE CommitResponse(w)
    <2>1. \A p \in Orders : jobLock'[p] \in Schedulers => job'[p] = job[p]
      BY <1>8, OrdersAssumption DEF CommitResponse, Release, Control, TypeOK, Workers
    <2> QED
      BY <1>8, <1>a, <2>1, EndControl DEF CommitResponse, At, Active
  <1>9. CASE DefuseJob(w)
    <2>1. \A p \in Orders : jobLock'[p] \in Schedulers => job'[p] = job[p]
      BY <1>9, OrdersAssumption
      DEF DefuseJob, JobFree, Control, TickHoldsItsJob, TypeOK, Workers
    <2> QED
      BY <1>0, <1>9, <2>1, GoOnControl DEF DefuseJob, Goto, Task, Exists
  <1>10. CASE SavePaid(w)
    <2>1. Active(w)
      BY <1>10 DEF SavePaid, At, Active
    <2> QED
      BY <1>0, <1>10, <1>a, <2>1, GoOnControl DEF SavePaid, Goto, Task
  <1>11. CASE IssuePickup(w)
    BY <1>11, RequestEndControl DEF IssuePickup, At, Active, Exists
  <1>12. CASE NestedCancel(w)
    BY <1>0, <1>12, GoOnControl DEF NestedCancel, Task, Exists
  <1>13. CASE NestedCancelRefused(w) \/ MarkProcessed(w)
    BY <1>13, SettleControl DEF NestedCancelRefused, MarkProcessed, At
  <1>14. CASE NestedCommit(w)
    <2>1. Active(w)
      BY <1>14 DEF NestedCommit, At, Active
    <2> QED
      BY <1>0, <1>14, <1>a, <2>1, GoOnControl DEF NestedCommit, Goto, Task
  <1>15. CASE SaveJobRefused(w)
    BY <1>15, RollBackControl DEF SaveJobRefused
  <1> QED
    BY <1>1, <1>2, <1>3, <1>4, <1>5, <1>6, <1>7, <1>8, <1>9, <1>10, <1>11, <1>12, <1>13,
       <1>14, <1>15 DEF Progress

LEMMA RequestControl ==
    ASSUME Control, NEW h \in Handlers, NEW o \in Orders, Request(h, o)
    PROVE  (ActiveHasOrder /\ Roles /\ TickHoldsItsJob)'
  <1> USE DEF Status, PayStatus
  <1>0. /\ h \in Workers /\ h \notin Schedulers
        /\ row[o] \in Row
    BY OrdersAssumption DEF Control, TypeOK, Workers
  <1>1. ASSUME NEW op, NEW status \in Status, SetStatus(h, o, op, status),
               op \notin {"idle", "autocancel"}, status # "ABSENT"
        PROVE  (ActiveHasOrder /\ Roles /\ TickHoldsItsJob)'
    <2>1. /\ [row[o] EXCEPT !.status = status] \in Row
          /\ [row[o] EXCEPT !.status = status].status = status
      BY <1>0 DEF Row
    <2> QED
      BY <1>0, <1>1, <2>1, BeginControl DEF SetStatus
  <1>2. CASE \/ CancelOrder(h, o) \/ MarkCustomerComing(h, o) \/ MarkOrderPreparing(h, o)
             \/ MarkAsReady(h, o) \/ MarkAsComplete(h, o)
    BY <1>1, <1>2
    DEF CancelOrder, MarkCustomerComing, MarkOrderPreparing, MarkAsReady, MarkAsComplete
  <1>3. CASE RescheduleOrder(h, o)
    BY <1>0, <1>3, BeginControl DEF RescheduleOrder
  <1>4. CASE UnscheduleOrder(h, o)
    <2> DEFINE e == [row[o] EXCEPT !.sched = FALSE]
    <2>1. e \in Row /\ e.status = row[o].status
      BY <1>0 DEF Row
    <2>2. Begin(h, o, "unschedule", e, {"time"}, "changed") /\ row[o].status = "SCHEDULED"
      BY <1>4 DEF UnscheduleOrder
    <2> HIDE DEF e
    <2> QED
      BY <1>0, <2>1, <2>2, BeginControl
  <1>5. CASE \E op \in {"accept", "decline"} : OwnerResponse(h, o, op)
    BY <1>0, <1>5, BeginControl DEF OwnerResponse
  <1>6. CASE HandlePaymentInitiated(h, o)
    <2> DEFINE e == [row[o] EXCEPT !.checkout = TRUE, !.pay = "INITIATED"]
    <2>1. e \in Row /\ e.status = row[o].status
      BY <1>0 DEF Row
    <2>2. Begin(h, o, "initiated", e, {}, "changed") /\ Exists(o)
      BY <1>6 DEF HandlePaymentInitiated, Begin
    <2> HIDE DEF e
    <2> QED
      BY <1>0, <2>1, <2>2, BeginControl DEF Exists
  <1> QED
    BY <1>2, <1>3, <1>4, <1>5, <1>6 DEF Request

LEMMA ResultControl ==
    ASSUME Control, NEW c \in Consumers, NEW o \in Orders,
           HandlePaymentSuccess(c, o) \/ HandlePaymentFailure(c, o)
    PROVE  (ActiveHasOrder /\ Roles /\ TickHoldsItsJob)'
  <1> DEFINE paid == [row[o] EXCEPT !.pay = "PAID", !.status = "PAID"]
             failed == [row[o] EXCEPT !.pay = "FAILED", !.status = "DECLINED"]
  <1>1. c \in Workers /\ c \notin Schedulers
    BY OrdersAssumption DEF Workers
  <1>2. /\ paid \in Row /\ paid.status = "PAID"
        /\ failed \in Row /\ failed.status = "DECLINED"
    BY DEF Control, TypeOK, Row, PayStatus, Status
  <1>3. \/ Begin(c, o, "success", paid, {}, "loaded")
        \/ Begin(c, o, "failure", failed, {}, "changed")
    BY DEF HandlePaymentSuccess, HandlePaymentFailure
  <1> HIDE DEF paid, failed
  <1> QED
    BY <1>1, <1>2, <1>3, BeginControl

LEMMA ClaimControl ==
    ASSUME Control, NEW s \in Schedulers, NEW o \in Orders, ClaimJob(s, o)
    PROVE  (ActiveHasOrder /\ Roles /\ TickHoldsItsJob)'
  <1>1. /\ s \in Workers /\ ~ Active(s) /\ jobLock[o] = Nobody /\ job[o] = "cancel"
        /\ \A v \in Workers : v # s => work'[v] = work[v]
        /\ work'[s].order = o /\ work'[s].op = "autocancel"
        /\ work'[s].entity = row[o]
        /\ jobLock' = [jobLock EXCEPT ![o] = s]
        /\ job' = job /\ row' = row
    BY DEF ClaimJob, Workers, JobFree, Control, TypeOK
  <1>2. Exists(o)
    BY <1>1 DEF Control, JobHasOrder
  <1> QED
    BY <1>1, <1>2, OrdersAssumption
    DEF Control, ActiveHasOrder, Roles, TickHoldsItsJob, TypeOK, Active, Exists, Workers

----------------------------------------------------------------------------
(* What one step does to a row, to a job and to a handler's entity *)

Creates(o) ==
    /\ ~ Exists(o)
    /\ row'[o].status = "SCHEDULED" /\ row'[o].pay = "NONE"
    /\ job'[o] \in CancelJob => ~ row'[o].sched
    /\ work' = work

RowStep(o) ==
    \/ row'[o] = row[o]
    \/ Creates(o)
    \/ \E w \in Workers : /\ Active(w)
                          /\ work[w].order = o
                          /\ work[w].stage # "loaded"
                          /\ row'[o] = Updated(row[o], work[w].entity, work[w].cols)

JobStep(o) ==
    \/ job'[o] = job[o]
    \/ job'[o] = "none"
    \/ job[o] \in CancelJob
    \/ Creates(o)

\* Nothing of the entity changes but, perhaps, its status.
GoesOn(w) ==
    /\ work'[w].op = work[w].op
    /\ work'[w].order = work[w].order
    /\ work'[w].entity.pay = work[w].entity.pay
    /\ work'[w].entity.sched = work[w].entity.sched
    /\ work'[w].entity.status \in
           {work[w].entity.status, "ACCEPTED", "DECLINED", "AWAITING_PAYMENT"}
    /\ At(w, {"success"}, "loaded") =>
           job'[work[w].order] \notin CancelJob \/ work[w].order \in undefused'
    /\ work'[w].stage = "locked" =>
           \/ work[w].op \in {"reschedule", "unschedule"}
           \/ work[w].entity.sched
           \/ work[w].stage = "locked"

\* A handler loads the order, and what it is about to write comes from the row; so
\* does cancelOrder inside a cron tick.
Loads(w, o) ==
    /\ work'[w].order = o
    /\ work'[w].stage # "locked"
    /\ work'[w].entity.sched => row[o].sched
    /\ work'[w].op \in {"reschedule", "unschedule"} => row[o].sched
    /\ work'[w].entity.pay = "PAID" =>
           \/ row[o].pay = "PAID"
           \/ work'[w].op = "success" /\ work'[w].stage = "loaded" /\ SuccessSent(o)
    /\ work'[w].entity.status \in {"PAID", "PREPARING", "READY", "COMPLETED"} =>
           \/ row[o].status \in {"PAID", "PREPARING", "READY", "COMPLETED"}
           \/ SuccessSent(o)

TaskStep(w) ==
    \/ work'[w] = work[w]
    \/ work'[w] = Idle
    \/ GoesOn(w)
    \/ \E o \in Orders : Loads(w, o)

Summary ==
    /\ \A o \in Orders : RowStep(o) /\ JobStep(o)
    /\ \A w \in Workers : TaskStep(w)

LEMMA CommitStep ==
    ASSUME Control, NEW w \in Workers, CommitEntity(w), Active(w), work[w].stage # "loaded",
           NEW o \in Orders
    PROVE  RowStep(o)
  BY DEF CommitEntity, RowStep, Control, TypeOK

LEMMA SettleStep ==
    ASSUME Control, NEW s \in Workers, NEW outcome, work[s].op = "autocancel",
           SettleJob(s, outcome)
    PROVE  Summary
  <1>1. work[s].order \in Orders /\ job[work[s].order] \in CancelJob
    BY DEF Control, TickHoldsItsJob, Roles, ActiveHasOrder, Active, CancelJob
  <1>2. \A o \in Orders : JobStep(o)
    BY <1>1 DEF SettleJob, JobStep, Control, TypeOK
  <1>3. \A w \in Workers : TaskStep(w)
    BY DEF SettleJob, Finish, TaskStep, Control, TypeOK
  <1> QED
    BY <1>2, <1>3 DEF Summary, SettleJob, RowStep

LEMMA RollBackSummary ==
    ASSUME Control, NEW w \in Workers, RollBack(w)
    PROVE  Summary
  BY DEF RollBack, Finish, Summary, RowStep, JobStep, TaskStep, Control, TypeOK

LEMMA ProgressSummary ==
    ASSUME Control, NEW w \in Workers, Progress(w)
    PROVE  Summary
  <1> DEFINE o == work[w].order
  <1>0. /\ work \in [Workers -> Task] /\ job \in [Orders -> Job] /\ work[w] \in Task
        /\ Active(w) => o \in Orders
    BY DEF Control, TypeOK, ActiveHasOrder
  <1>a. ASSUME Finish(w) PROVE \A v \in Workers : TaskStep(v)
    BY <1>0, <1>a DEF Finish, TaskStep
  <1>b. ASSUME GoesOn(w), \A v \in Workers : v # w => work'[v] = work[v]
        PROVE  \A v \in Workers : TaskStep(v)
    BY <1>b DEF TaskStep
  <1>c. ASSUME row' = row PROVE \A p \in Orders : RowStep(p)
    BY <1>c DEF RowStep
  <1>d. ASSUME job' = job PROVE \A p \in Orders : JobStep(p)
    BY <1>d DEF JobStep
  <1>1. CASE Compare(w)
    <2>1. GoesOn(w) /\ \A v \in Workers : v # w => work'[v] = work[v]
      BY <1>0, <1>1 DEF Compare, GoesOn, At, Task
    <2> QED
      BY <1>1, <1>b, <1>c, <1>d, <2>1 DEF Compare, Summary
  <1>2. CASE Save(w)
    BY <1>2, <1>a, <1>d, CommitStep DEF Save, Summary, At, Active
  <1>3. CASE LockRow(w)
    <2>1. GoesOn(w) /\ \A v \in Workers : v # w => work'[v] = work[v]
      BY <1>0, <1>3 DEF LockRow, Goto, GoesOn, At, Task, DeletesJob
    <2> QED
      BY <1>3, <1>b, <1>c, <1>d, <2>1 DEF LockRow, Summary
  <1>4. CASE DeleteJobAndCommit(w)
    <2>1. \A p \in Orders : JobStep(p)
      BY <1>0, <1>4 DEF DeleteJobAndCommit, JobStep
    <2> QED
      BY <1>4, <1>a, <2>1, CommitStep DEF DeleteJobAndCommit, Summary, At, Active
  <1>5. CASE SaveJobAndCommit(w)
    BY <1>5, <1>a, <1>d, CommitStep DEF SaveJobAndCommit, Summary, At, Active
  <1>6. CASE DropProcessJob(w)
    <2>1. GoesOn(w) /\ \A v \in Workers : v # w => work'[v] = work[v]
      BY <1>0, <1>6 DEF DropProcessJob, GoesOn, At, Task, Row
    <2> QED
      BY <1>6, <1>b, <1>c, <1>d, <2>1 DEF DropProcessJob, Summary
  <1>7. CASE EmitAwaitingPayment(w)
    <2>1. GoesOn(w) /\ \A v \in Workers : v # w => work'[v] = work[v]
      BY <1>0, <1>7 DEF EmitAwaitingPayment, GoesOn, At, Task, Row
    <2> QED
      BY <1>7, <1>b, <1>c, <1>d, <2>1 DEF EmitAwaitingPayment, Summary
  <1>8. CASE CommitResponse(w)
    <2>1. \A p \in Orders : JobStep(p)
      BY <1>0, <1>8 DEF CommitResponse, JobStep
    <2> QED
      BY <1>8, <1>a, <2>1, CommitStep DEF CommitResponse, Summary, At, Active
  <1>9. CASE DefuseJob(w)
    <2>1. \A p \in Orders : JobStep(p)
      BY <1>0, <1>9 DEF DefuseJob, JobStep
    <2>2. o \in Orders
      BY <1>0, <1>9 DEF DefuseJob, At, Active
    <2>3. job'[o] \notin CancelJob
      BY <1>0, <1>9, <2>2 DEF DefuseJob, CancelJob
    <2>4. GoesOn(w) /\ \A v \in Workers : v # w => work'[v] = work[v]
      BY <1>0, <1>9, <2>3 DEF DefuseJob, Goto, GoesOn, Task
    <2> QED
      BY <1>9, <1>b, <1>c, <2>1, <2>4 DEF DefuseJob, Summary
  <1>10. CASE SavePaid(w)
    <2>1. GoesOn(w) /\ \A v \in Workers : v # w => work'[v] = work[v]
      BY <1>0, <1>10 DEF SavePaid, Goto, GoesOn, At, Task
    <2> QED
      BY <1>10, <1>b, <1>d, <2>1, CommitStep DEF SavePaid, Summary, At, Active
  <1>11. CASE IssuePickup(w)
    BY <1>11, <1>a, <1>c, <1>d DEF IssuePickup, Summary
  <1>12. CASE NestedCancel(w)
    <2>1. o \in Orders
      BY <1>0, <1>12 DEF NestedCancel, At, Active
    <2>2. Loads(w, o) /\ \A v \in Workers : v # w => work'[v] = work[v]
      BY <1>0, <1>12, <2>1 DEF NestedCancel, Loads, At, Control, TypeOK, Task, Row
    <2>3. \A v \in Workers : TaskStep(v)
      BY <2>1, <2>2 DEF TaskStep
    <2> QED
      BY <1>12, <1>c, <1>d, <2>3 DEF NestedCancel, Summary
  <1>13. CASE NestedCancelRefused(w) \/ MarkProcessed(w)
    BY <1>13, SettleStep DEF NestedCancelRefused, MarkProcessed, At
  <1>14. CASE NestedCommit(w)
    <2>1. GoesOn(w) /\ \A v \in Workers : v # w => work'[v] = work[v]
      BY <1>0, <1>14 DEF NestedCommit, Goto, GoesOn, At, Task
    <2> QED
      BY <1>14, <1>b, <1>d, <2>1, CommitStep DEF NestedCommit, Summary, At, Active
  <1>15. CASE SaveJobRefused(w)
    BY <1>15, RollBackSummary DEF SaveJobRefused
  <1> QED
    BY <1>1, <1>2, <1>3, <1>4, <1>5, <1>6, <1>7, <1>8, <1>9, <1>10, <1>11, <1>12, <1>13,
       <1>14, <1>15 DEF Progress

LEMMA BeginSummary ==
    ASSUME Control, NEW w \in Workers, NEW o \in Orders, NEW op, NEW entity,
           NEW cols, NEW stage, Begin(w, o, op, entity, cols, stage),
           stage # "locked",
           entity.sched => row[o].sched,
           op \in {"reschedule", "unschedule"} => row[o].sched,
           entity.pay = "PAID" =>
               row[o].pay = "PAID" \/ (op = "success" /\ stage = "loaded" /\ SuccessSent(o)),
           entity.status \in {"PAID", "PREPARING", "READY", "COMPLETED"} =>
               \/ row[o].status \in {"PAID", "PREPARING", "READY", "COMPLETED"}
               \/ SuccessSent(o)
    PROVE  Summary
  <1>1. Loads(w, o) /\ \A v \in Workers : v # w => work'[v] = work[v]
    BY DEF Begin, Loads, Control, TypeOK
  <1>2. \A v \in Workers : TaskStep(v)
    BY <1>1 DEF TaskStep
  <1> QED
    BY <1>2 DEF Begin, Summary, RowStep, JobStep

LEMMA RequestSummary ==
    ASSUME Control, NEW h \in Handlers, NEW o \in Orders, Request(h, o)
    PROVE  Summary
  <1>0. h \in Workers /\ row[o] \in Row
    BY DEF Control, TypeOK, Workers
  <1>1. ASSUME NEW op, NEW status, SetStatus(h, o, op, status),
               op \notin {"reschedule", "unschedule"},
               \/ status \notin {"PAID", "PREPARING", "READY", "COMPLETED"}
               \/ row[o].status \in {"PAID", "PREPARING", "READY", "COMPLETED"}
        PROVE  Summary
    <2> DEFINE e == [row[o] EXCEPT !.status = status]
    <2>1. e.sched = row[o].sched /\ e.pay = row[o].pay /\ e.status = status
      BY <1>0 DEF Row
    <2>2. Begin(h, o, op, e, {}, "changed")
      BY <1>1 DEF SetStatus
    <2> HIDE DEF e
    <2> QED
      BY <1>0, <1>1, <2>1, <2>2, BeginSummary
  <1>2. CASE \/ CancelOrder(h, o) \/ MarkCustomerComing(h, o) \/ MarkOrderPreparing(h, o)
             \/ MarkAsReady(h, o) \/ MarkAsComplete(h, o)
    BY <1>1, <1>2
    DEF CancelOrder, MarkCustomerComing, MarkOrderPreparing, MarkAsReady, MarkAsComplete
  <1>3. CASE RescheduleOrder(h, o)
    BY <1>0, <1>3, BeginSummary DEF RescheduleOrder
  <1>4. CASE UnscheduleOrder(h, o)
    <2> DEFINE e == [row[o] EXCEPT !.sched = FALSE]
    <2>1. ~ e.sched /\ e.pay = row[o].pay /\ e.status = row[o].status
      BY <1>0 DEF Row
    <2>2. Begin(h, o, "unschedule", e, {"time"}, "changed") /\ row[o].sched
      BY <1>4 DEF UnscheduleOrder
    <2> HIDE DEF e
    <2> QED
      BY <1>0, <2>1, <2>2, BeginSummary
  <1>5. CASE \E op \in {"accept", "decline"} : OwnerResponse(h, o, op)
    BY <1>0, <1>5, BeginSummary DEF OwnerResponse
  <1>6. CASE HandlePaymentInitiated(h, o)
    <2> DEFINE e == [row[o] EXCEPT !.checkout = TRUE, !.pay = "INITIATED"]
    <2>1. e.sched = row[o].sched /\ e.pay = "INITIATED" /\ e.status = row[o].status
      BY <1>0 DEF Row
    <2>2. Begin(h, o, "initiated", e, {}, "changed")
      BY <1>6 DEF HandlePaymentInitiated
    <2> HIDE DEF e
    <2> QED
      BY <1>0, <2>1, <2>2, BeginSummary
  <1> QED
    BY <1>2, <1>3, <1>4, <1>5, <1>6 DEF Request

LEMMA ResultSummary ==
    ASSUME Control, NEW c \in Consumers, NEW o \in Orders,
           HandlePaymentSuccess(c, o) \/ HandlePaymentFailure(c, o)
    PROVE  Summary
  <1> DEFINE paid == [row[o] EXCEPT !.pay = "PAID", !.status = "PAID"]
             failed == [row[o] EXCEPT !.pay = "FAILED", !.status = "DECLINED"]
  <1>1. c \in Workers
    BY DEF Workers
  <1>2. /\ paid.sched = row[o].sched
        /\ failed.sched = row[o].sched /\ failed.pay = "FAILED" /\ failed.status = "DECLINED"
    BY DEF Control, TypeOK, Row
  <1>3. \/ Begin(c, o, "success", paid, {}, "loaded") /\ SuccessSent(o)
        \/ Begin(c, o, "failure", failed, {}, "changed")
    BY DEF HandlePaymentSuccess, HandlePaymentFailure
  <1> HIDE DEF paid, failed
  <1> QED
    BY <1>1, <1>2, <1>3, BeginSummary

LEMMA ClaimSummary ==
    ASSUME Control, NEW s \in Schedulers, NEW o \in Orders, ClaimJob(s, o)
    PROVE  Summary
  <1>1. Loads(s, o) /\ \A v \in Workers : v # s => work'[v] = work[v]
    BY DEF ClaimJob, Loads, Control, TypeOK, Workers
  <1>2. \A v \in Workers : TaskStep(v)
    BY <1>1 DEF TaskStep, Workers
  <1> QED
    BY <1>2 DEF ClaimJob, Summary, RowStep, JobStep

LEMMA FaultSummary ==
    ASSUME Control, NEW w \in Workers, Fault(w)
    PROVE  Summary
  <1>1. CASE Abort(w)
    BY <1>1, RollBackSummary DEF Abort
  <1>2. CASE DefuseFails(w)
    <2>1. GoesOn(w) /\ \A v \in Workers : v # w => work'[v] = work[v]
      BY <1>2 DEF DefuseFails, Goto, GoesOn, At, Control, TypeOK, Task
    <2>2. \A v \in Workers : TaskStep(v)
      BY <2>1 DEF TaskStep
    <2> QED
      BY <1>2, <2>2 DEF DefuseFails, Summary, RowStep, JobStep
  <1>3. CASE NestedCancelFails(w)
    BY <1>3, SettleStep DEF NestedCancelFails
  <1> QED
    BY <1>1, <1>2, <1>3 DEF Fault

LEMMA EnvironmentSummary ==
    ASSUME Control, NEW o \in Orders, Environment(o)
    PROVE  Summary
  <1>1. CASE \E scheduled \in BOOLEAN : CreateOrder(o, scheduled)
    <2>1. Creates(o)
      BY <1>1 DEF CreateOrder, Creates, Control, TypeOK, CancelJob
    <2>2. \A p \in Orders \ {o} : row'[p] = row[p] /\ job'[p] = job[p]
      BY <1>1 DEF CreateOrder, Control, TypeOK
    <2>3. \A p \in Orders : RowStep(p) /\ JobStep(p)
      BY <2>1, <2>2 DEF RowStep, JobStep
    <2> QED
      BY <1>1, <2>3 DEF CreateOrder, Summary, TaskStep
  <1>2. CASE ~ \E scheduled \in BOOLEAN : CreateOrder(o, scheduled)
    BY <1>2
    DEF Environment, GetOrIssuePickup, PaymentInitiated, PaymentResult, CheckoutLapses, Summary,
        RowStep, JobStep, TaskStep
  <1> QED
    BY <1>1, <1>2

LEMMA StepSummary ==
    ASSUME Control, [Next]_vars
    PROVE  Summary
  <1>1. CASE \E v, w \in Handlers : DeadlockVictim(v, w)
    BY <1>1, RollBackSummary DEF DeadlockVictim, Workers
  <1>2. CASE UNCHANGED vars
    BY <1>2 DEF vars, Summary, RowStep, JobStep, TaskStep
  <1> QED
    BY <1>1, <1>2, RequestSummary, ResultSummary, ClaimSummary, ProgressSummary, FaultSummary,
       EnvironmentSummary
    DEF Next

LEMMA EnvironmentControl ==
    ASSUME Control, NEW o \in Orders, Environment(o)
    PROVE  (ActiveHasOrder /\ Roles /\ TickHoldsItsJob)'
  <1>1. CASE \E scheduled \in BOOLEAN : CreateOrder(o, scheduled)
    <2>1. /\ ~ Exists(o) /\ job[o] = "none"
          /\ Exists(o)'
          /\ \A p \in Orders \ {o} : row'[p] = row[p] /\ job'[p] = job[p]
          /\ work' = work /\ jobLock' = jobLock
      BY <1>1 DEF CreateOrder, Control, TypeOK, JobHasOrder, Exists
    <2> QED
      BY <2>1 DEF Control, ActiveHasOrder, Roles, TickHoldsItsJob, Active, Exists
  <1>2. CASE ~ \E scheduled \in BOOLEAN : CreateOrder(o, scheduled)
    BY <1>2
    DEF Environment, GetOrIssuePickup, PaymentInitiated, PaymentResult, CheckoutLapses,
        Control, ActiveHasOrder, Roles, TickHoldsItsJob, Active, Exists
  <1> QED
    BY <1>1, <1>2

LEMMA FaultControl ==
    ASSUME Control, NEW w \in Workers, Fault(w)
    PROVE  (ActiveHasOrder /\ Roles /\ TickHoldsItsJob)'
  <1>1. CASE Abort(w)
    BY <1>1, RollBackControl DEF Abort
  <1>2. CASE DefuseFails(w)
    BY <1>2, GoOnControl
    DEF DefuseFails, Goto, Control, ActiveHasOrder, TypeOK, Task, Exists
  <1>3. CASE NestedCancelFails(w)
    BY <1>3, SettleControl DEF NestedCancelFails
  <1> QED
    BY <1>1, <1>2, <1>3 DEF Fault

\* What only grows, and when a pickup is issued.
LEMMA Growth ==
    ASSUME [Next]_vars
    PROVE  /\ sent \subseteq sent'
           /\ undefused \subseteq undefused'
           /\ \A o \in pickups' : o \in pickups \/ row[o].pay = "PAID"
  <1> USE DEF Begin, SetStatus, SettleJob, RollBack, Msg
  <1>1. ASSUME NEW h \in Handlers, NEW o \in Orders, Request(h, o)
        PROVE  sent' = sent /\ undefused' = undefused /\ pickups' = pickups
    BY <1>1
    DEF Request, RescheduleOrder, UnscheduleOrder, CancelOrder, MarkCustomerComing,
        OwnerResponse, MarkOrderPreparing, MarkAsReady, MarkAsComplete, HandlePaymentInitiated
  <1>2. ASSUME NEW w, Progress(w)
        PROVE  /\ sent \subseteq sent' /\ undefused' = undefused
               /\ \A o \in pickups' : o \in pickups \/ row[o].pay = "PAID"
    BY <1>2
    DEF Progress, Compare, Save, LockRow, DeleteJobAndCommit, SaveJobAndCommit,
        SaveJobRefused, DropProcessJob, EmitAwaitingPayment, CommitResponse, DefuseJob,
        SavePaid, IssuePickup, NestedCancel, NestedCancelRefused, NestedCommit, MarkProcessed
  <1>3. ASSUME NEW w, Fault(w)
        PROVE  sent' = sent /\ undefused \subseteq undefused' /\ pickups' = pickups
    BY <1>3 DEF Fault, Abort, DefuseFails, NestedCancelFails
  <1>4. ASSUME NEW o \in Orders, Environment(o)
        PROVE  /\ sent \subseteq sent' /\ undefused' = undefused
               /\ \A p \in pickups' : p \in pickups \/ row[p].pay = "PAID"
    BY <1>4
    DEF Environment, CreateOrder, GetOrIssuePickup, PaymentInitiated, PaymentResult, CheckoutLapses
  <1>5. ASSUME NEW c, NEW o, \/ HandlePaymentSuccess(c, o) \/ HandlePaymentFailure(c, o)
                             \/ ClaimJob(c, o)
        PROVE  sent' = sent /\ undefused' = undefused /\ pickups' = pickups
    BY <1>5 DEF HandlePaymentSuccess, HandlePaymentFailure, ClaimJob
  <1>6. ASSUME NEW v, NEW w, DeadlockVictim(v, w)
        PROVE  sent' = sent /\ undefused' = undefused /\ pickups' = pickups
    BY <1>6 DEF DeadlockVictim
  <1>7. CASE UNCHANGED vars
    BY <1>7 DEF vars
  <1> QED
    BY <1>1, <1>2, <1>3, <1>4, <1>5, <1>6, <1>7 DEF Next

----------------------------------------------------------------------------
(* The inductive invariant *)

\* A request that reschedules or unschedules found a scheduled order, whose job is
\* no cancellation job: it never waits for a cron tick.
ReschedulesScheduled ==
    \A w \in Workers : work[w].op \in {"reschedule", "unschedule"} =>
        job[work[w].order] \notin CancelJob

\* cancelOrder goes on to the job only if its entity is a scheduled order.
LockedIsScheduled ==
    \A w \in Workers : WantsJob(w) =>
        work[w].op \in {"reschedule", "unschedule"} \/ work[w].entity.sched

InKitchen == {"PAID", "PREPARING", "READY", "COMPLETED"}

\* KitchenOnlyAfterPayment, for what is about to be saved too.
PaidMeansSuccess ==
    \A o \in Orders :
        \/ row[o].pay = "PAID" \/ row[o].status \in InKitchen
        \/ o \in pickups
        \/ \E w \in Workers : /\ work[w].order = o
                              /\ \/ work[w].entity.pay = "PAID"
                                 \/ work[w].entity.status \in InKitchen
        => SuccessSent(o)

Inv ==
    /\ Control
    /\ CancelJobMeansImmediate
    /\ ReschedulesScheduled
    /\ LockedIsScheduled
    /\ DefusedBeforePaid
    /\ PaidMeansSuccess

LEMMA InitInv == Init => Inv
  <1> SUFFICES ASSUME Init PROVE Inv
    OBVIOUS
  <1>1. TypeOK
    <2>1. NoRow \in Row /\ Idle \in Task
      BY DEF NoRow, Row, Status, PayStatus, Idle, Task, Op, Stage, Job, NoRow
    <2>2. 0 \in 0 .. MaxFaults
      BY OrdersAssumption
    <2> QED
      BY <2>1, <2>2 DEF Init, TypeOK, Job
  <1>2. /\ \A w \in Workers : /\ work[w].op = "idle" /\ work[w].order = Nobody
                              /\ work[w].stage = "idle"
        /\ \A o \in Orders : /\ row[o].status = "ABSENT" /\ row[o].pay = "NONE"
                             /\ job[o] = "none" /\ jobLock[o] = Nobody
        /\ pickups = {}
    BY DEF Init, Idle, NoRow
  <1>3. Nobody \notin Orders /\ Nobody \notin Workers
    BY OrdersAssumption
  <1>4. ActiveHasOrder /\ Roles /\ TickHoldsItsJob /\ JobHasOrder
    BY <1>2, <1>3 DEF ActiveHasOrder, Roles, TickHoldsItsJob, JobHasOrder, Active, Workers
  <1>5. CancelJobMeansImmediate /\ DefusedBeforePaid
    BY <1>2 DEF CancelJobMeansImmediate, DefusedBeforePaid, CancelJob
  <1>6. ReschedulesScheduled /\ LockedIsScheduled
    BY <1>2 DEF ReschedulesScheduled, LockedIsScheduled, WantsJob, At
  <1>7. PaidMeansSuccess
    BY <1>2, <1>3 DEF PaidMeansSuccess, InKitchen
  <1> QED
    BY <1>1, <1>4, <1>5, <1>6, <1>7 DEF Inv, Control

\* A column after an UPDATE is the row's or the entity's.
LEMMA UpdatedField ==
    ASSUME NEW r, NEW e, NEW cols
    PROVE  /\ Updated(r, e, cols).status \in {r.status, e.status}
           /\ Updated(r, e, cols).pay \in {r.pay, e.pay}
           /\ Updated(r, e, cols).sched \in {r.sched, e.sched}
  BY DEF Updated

LEMMA ControlStep ==
    ASSUME Inv, [Next]_vars
    PROVE  Control'
  <1> USE DEF Inv
  <1>1. TypeOK'
    BY TypeStep DEF Control
  <1>2. (ActiveHasOrder /\ Roles /\ TickHoldsItsJob)'
    <2>1. CASE \E v, w \in Handlers : DeadlockVictim(v, w)
      BY <2>1, RollBackControl DEF DeadlockVictim, Workers
    <2>2. CASE UNCHANGED vars
      BY <2>2
      DEF vars, Control, ActiveHasOrder, Roles, TickHoldsItsJob, Active, Exists
    <2> QED
      BY <2>1, <2>2, RequestControl, ResultControl, ClaimControl, ProgressControl, FaultControl,
         EnvironmentControl
      DEF Next
  <1>3. JobHasOrder'
    <2> SUFFICES ASSUME NEW o \in Orders, job'[o] # "none"
                 PROVE  row'[o].status # "ABSENT"
      BY DEF JobHasOrder, Exists
    <2>1. RowStep(o) /\ JobStep(o)
      BY StepSummary DEF Summary
    <2>2. CASE Creates(o)
      BY <2>2 DEF Creates
    <2>3. Exists(o) => row'[o].status # "ABSENT"
      BY <2>1, UpdatedField DEF RowStep, Creates, Control, ActiveHasOrder, Exists
    <2>4. CASE ~ Creates(o)
      BY <2>1, <2>3, <2>4 DEF JobStep, Control, JobHasOrder, CancelJob
    <2> QED
      BY <2>2, <2>4
  <1> QED
    BY <1>1, <1>2, <1>3 DEF Control

\* No step makes a cancellation job for an order that has none.
LEMMA NoNewCancelJob ==
    ASSUME Inv, [Next]_vars, NEW o \in Orders, job'[o] \in CancelJob, ~ Creates(o)
    PROVE  job[o] \in CancelJob
  <1>1. JobStep(o)
    BY StepSummary DEF Inv, Summary
  <1>2. "none" \notin CancelJob
    BY DEF CancelJob
  <1> QED
    BY <1>1, <1>2 DEF JobStep

\* An order that is being created has no handler.
LEMMA CreatedIsAlone ==
    ASSUME Inv, NEW o \in Orders, Creates(o)
    PROVE  \A w \in Workers : work[w].order # o /\ work'[w].order # o
  BY DEF Inv, Control, ActiveHasOrder, Creates

LEMMA IdleHasNoOrder ==
    ASSUME NEW w, work'[w] = Idle
    PROVE  work'[w].order \notin Orders /\ work'[w].op = "idle" /\ work'[w].stage = "idle"
  BY OrdersAssumption DEF Idle

LEMMA ImmediateStep ==
    ASSUME Inv, [Next]_vars
    PROVE  CancelJobMeansImmediate'
  <1> SUFFICES ASSUME NEW o \in Orders, job'[o] \in CancelJob
               PROVE  /\ ~ row'[o].sched
                      /\ \A w \in Workers : work'[w].order = o => ~ work'[w].entity.sched
    BY DEF CancelJobMeansImmediate, Entities
  <1>0. Summary
    BY StepSummary DEF Inv
  <1>1. CASE Creates(o)
    BY <1>1, CreatedIsAlone DEF Creates
  <1>2. CASE ~ Creates(o)
    <2>1. /\ job[o] \in CancelJob /\ ~ row[o].sched
          /\ \A w \in Workers : work[w].order = o => ~ work[w].entity.sched
      BY <1>2, NoNewCancelJob DEF Inv, CancelJobMeansImmediate, Entities
    <2>2. ~ row'[o].sched
      BY <1>0, <1>2, <2>1, UpdatedField DEF Summary, RowStep
    <2>3. ASSUME NEW w \in Workers, work'[w].order = o
          PROVE  ~ work'[w].entity.sched
      BY <1>0, <2>1, <2>3, IdleHasNoOrder DEF Summary, TaskStep, GoesOn, Loads
    <2> QED
      BY <2>2, <2>3
  <1> QED
    BY <1>1, <1>2

LEMMA ReschedulesStep ==
    ASSUME Inv, [Next]_vars
    PROVE  ReschedulesScheduled'
  <1> SUFFICES ASSUME NEW w \in Workers, work'[w].op \in {"reschedule", "unschedule"}
               PROVE  job'[work'[w].order] \notin CancelJob
    BY DEF ReschedulesScheduled
  <1> DEFINE o == work'[w].order
  <1>1. TaskStep(w)
    BY StepSummary DEF Inv, Summary
  <1>2. o \in Orders /\ (ActiveHasOrder /\ TypeOK)'
    BY ControlStep DEF Control, ActiveHasOrder, Active
  <1>3. ~ Creates(o)
    BY <1>2, CreatedIsAlone
  <1>4. job[o] \notin CancelJob
    <2>1. CASE \/ work'[w] = work[w] \/ GoesOn(w)
      BY <2>1 DEF GoesOn, Inv, ReschedulesScheduled
    <2>2. CASE \E p \in Orders : Loads(w, p)
      <3>1. row[o].sched
        BY <2>2 DEF Loads
      <3> QED
        BY <1>2, <3>1 DEF Inv, CancelJobMeansImmediate
    <2> QED
      BY <1>1, <2>1, <2>2, IdleHasNoOrder DEF TaskStep
  <1> QED
    BY <1>2, <1>3, <1>4, NoNewCancelJob

LEMMA LockedStep ==
    ASSUME Inv, [Next]_vars
    PROVE  LockedIsScheduled'
  <1> SUFFICES ASSUME NEW w \in Workers,
                      work'[w].op \in {"cancel", "autocancel"}, work'[w].stage = "locked"
               PROVE  work'[w].entity.sched
    BY DEF LockedIsScheduled, WantsJob, At
  <1>1. TaskStep(w)
    BY StepSummary DEF Inv, Summary
  <1>2. CASE \/ work'[w] = work[w] \/ GoesOn(w)
    BY <1>2 DEF GoesOn, Inv, LockedIsScheduled, WantsJob, At
  <1> QED
    BY <1>1, <1>2, IdleHasNoOrder DEF TaskStep, Loads

LEMMA DefusedStep ==
    ASSUME Inv, [Next]_vars
    PROVE  DefusedBeforePaid'
  <1> SUFFICES ASSUME NEW o \in Orders, o \notin undefused', job'[o] \in CancelJob
               PROVE  /\ row'[o].pay # "PAID"
                      /\ \A w \in Workers :
                            work'[w].order = o /\ work'[w].entity.pay = "PAID"
                                => work'[w].op = "success" /\ work'[w].stage = "loaded"
    BY DEF DefusedBeforePaid, At
  <1>0. Summary /\ o \notin undefused
    BY StepSummary, Growth DEF Inv
  <1>1. CASE Creates(o)
    BY <1>1, CreatedIsAlone DEF Creates
  <1>2. CASE ~ Creates(o)
    <2>1. /\ row[o].pay # "PAID"
          /\ \A w \in Workers :
                work[w].order = o /\ work[w].entity.pay = "PAID"
                    => work[w].op = "success" /\ work[w].stage = "loaded"
      BY <1>0, <1>2, NoNewCancelJob DEF Inv, DefusedBeforePaid, At
    <2>2. row'[o].pay # "PAID"
      BY <1>0, <1>2, <2>1, UpdatedField DEF Summary, RowStep
    <2>3. ASSUME NEW w \in Workers, work'[w].order = o, work'[w].entity.pay = "PAID"
          PROVE  work'[w].op = "success" /\ work'[w].stage = "loaded"
      <3>1. CASE GoesOn(w)
        BY <2>1, <2>3, <3>1 DEF GoesOn, At
      <3>2. CASE \E p \in Orders : Loads(w, p)
        BY <2>1, <2>3, <3>2 DEF Loads
      <3> QED
        BY <1>0, <2>1, <2>3, <3>1, <3>2, IdleHasNoOrder DEF Summary, TaskStep
    <2> QED
      BY <2>2, <2>3
  <1> QED
    BY <1>1, <1>2

LEMMA PaidStep ==
    ASSUME Inv, [Next]_vars
    PROVE  PaidMeansSuccess'
  <1> SUFFICES ASSUME NEW o \in Orders, ~ SuccessSent(o)'
               PROVE  /\ row'[o].pay # "PAID" /\ row'[o].status \notin InKitchen
                      /\ o \notin pickups'
                      /\ \A w \in Workers : work'[w].order = o =>
                            /\ work'[w].entity.pay # "PAID"
                            /\ work'[w].entity.status \notin InKitchen
    BY DEF PaidMeansSuccess
  <1>0. Summary /\ ~ SuccessSent(o)
    BY StepSummary, Growth DEF Inv, SuccessSent
  <1>1. /\ row[o].pay # "PAID" /\ row[o].status \notin InKitchen
        /\ o \notin pickups
        /\ \A w \in Workers : work[w].order = o =>
              work[w].entity.pay # "PAID" /\ work[w].entity.status \notin InKitchen
    BY <1>0 DEF Inv, PaidMeansSuccess
  <1>2. row'[o].pay # "PAID" /\ row'[o].status \notin InKitchen
    BY <1>0, <1>1, UpdatedField DEF Summary, RowStep, Creates, InKitchen
  <1>3. o \notin pickups'
    BY <1>1, Growth
  <1>4. ASSUME NEW w \in Workers, work'[w].order = o
        PROVE  work'[w].entity.pay # "PAID" /\ work'[w].entity.status \notin InKitchen
    <2>1. CASE GoesOn(w)
      BY <1>1, <1>4, <2>1 DEF GoesOn, InKitchen
    <2>2. CASE \E p \in Orders : Loads(w, p)
      BY <1>0, <1>1, <1>4, <2>2 DEF Loads, InKitchen
    <2> QED
      BY <1>0, <1>1, <1>4, <2>1, <2>2, IdleHasNoOrder DEF Summary, TaskStep
  <1> QED
    BY <1>2, <1>3, <1>4

LEMMA InvStep ==
    ASSUME Inv, [Next]_vars
    PROVE  Inv'
  BY ControlStep, ImmediateStep, ReschedulesStep, LockedStep, DefusedStep, PaidStep DEF Inv

----------------------------------------------------------------------------
(* Theorems *)

\* Inv is an invariant of the system.
THEOREM Invariance == Spec => []Inv
  <1>1. Init => Inv
    BY InitInv
  <1>2. Inv /\ [Next]_vars => Inv'
    BY InvStep
  <1> QED
    BY <1>1, <1>2, PTL DEF Spec

\* Rows, jobs, locks and handlers stay well-formed: no column ever holds a value
\* outside its enum.
THEOREM TypeCorrect == Spec => []TypeOK
  <1>1. Inv => TypeOK
    BY DEF Inv, Control
  <1> QED
    BY <1>1, Invariance, PTL

\* However requests and cron ticks interleave, a cancellation job belongs to an
\* immediate order, in its row and in every copy a handler holds.
THEOREM ImmediateOnly == Spec => []CancelJobMeansImmediate
  <1>1. Inv => CancelJobMeansImmediate
    BY DEF Inv
  <1> QED
    BY <1>1, Invariance, PTL

\* The transaction cancelOrder opens inside a cron tick never waits for the tick, nor
\* does another request that holds the order: the deadlock PostgreSQL could not see
\* does not occur.
THEOREM NeverHiddenDeadlock == Spec => []NoHiddenDeadlock
  <1>1. Inv => NoHiddenDeadlock
    <2> SUFFICES ASSUME Inv, NEW w \in Workers, WantsJob(w),
                        jobLock[work[w].order] \in Schedulers
                 PROVE  FALSE
      BY DEF NoHiddenDeadlock
    <2>1. work[w].order \in Orders
      BY DEF Inv, Control, ActiveHasOrder, Active, WantsJob, At
    <2>2. job[work[w].order] \in CancelJob
      BY <2>1 DEF Inv, Control, TickHoldsItsJob, CancelJob
    <2>3. ~ work[w].entity.sched
      BY <2>1, <2>2 DEF Inv, CancelJobMeansImmediate, Entities
    <2> QED
      BY <2>2, <2>3 DEF Inv, ReschedulesScheduled, LockedIsScheduled
  <1> QED
    BY <1>1, Invariance, PTL

\* An order is marked paid only once its cancellation job is gone, unless deleting it
\* failed.
THEOREM DefusedFirst == Spec => []DefusedBeforePaid
  <1>1. Inv => DefusedBeforePaid
    BY DEF Inv
  <1> QED
    BY <1>1, Invariance, PTL

\* Nothing reaches the kitchen, or may be picked up, without a reported success.
THEOREM NoKitchenWithoutPayment == Spec => []KitchenOnlyAfterPayment
  <1>1. Inv => KitchenOnlyAfterPayment
    BY DEF Inv, PaidMeansSuccess, KitchenOnlyAfterPayment, InKitchen
  <1> QED
    BY <1>1, Invariance, PTL

\* No step of a cron tick touches the row of a paid order.
THEOREM AutoCancelNeverOverPaid == Spec => AutoCancelSparesPaid
  <1>1. Inv /\ [Next]_vars =>
          [\A s \in Schedulers : \A o \in Orders \ undefused :
             work[s].order = o /\ work'[s] # work[s] /\ row[o].pay = "PAID"
                => row'[o] = row[o]]_vars
    <2> SUFFICES ASSUME Inv, NEW s \in Schedulers, NEW o \in Orders \ undefused,
                        work[s].order = o, row[o].pay = "PAID"
                 PROVE  FALSE
      OBVIOUS
    <2>1. s \in Workers
      BY DEF Workers
    <2>2. job[o] \in CancelJob
      BY <2>1, OrdersAssumption DEF Inv, Control, TickHoldsItsJob, ActiveHasOrder, CancelJob
    <2> QED
      BY <2>2 DEF Inv, DefusedBeforePaid
  <1> QED
    BY <1>1, Invariance, PTL DEF Spec, AutoCancelSparesPaid

=============================================================================
