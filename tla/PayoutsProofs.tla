---------------------------- MODULE PayoutsProofs ----------------------------
(***************************************************************************)
(* Theorems about the payouts, for any restaurants, children, batches and  *)
(* workers and any number of jobs and faults.                              *)
(*                                                                         *)
(* A row that says "paid" rests on what a handler was told, and that on    *)
(* the provider, which never takes back a transfer it has made.  An        *)
(* aggregate keeps its children, because no other request creates a batch  *)
(* of the same id.                                                         *)
(***************************************************************************)
EXTENDS Payouts, TLAPS

ConstantsTyped ==
    /\ RestaurantOf \in [Children -> Restaurants]
    /\ MaxRequests \in Nat
    /\ MaxFaults \in Nat

----------------------------------------------------------------------------
(* The inductive invariant *)

\* Does a transfer that was made cover the children kids?
Covered(kids, aggs, transfers) ==
    \E a \in Aggs : kids \subseteq aggs[a].children /\ transfers[a] = "done"

\* What a handler holds is true of the aggregates and the transfers: the answers, the aggregates
\* it works on, the status it is going to write, and that nobody has created its batch.
Sound(task, aggs, transfers) ==
    /\ \A a \in Aggs : task.answer[a] = "success" => transfers[a] = "done"
    /\ \A a \in task.aggs : aggs[a].status # "none"
    /\ task.stage \in {"save", "found", "summed"} => task.status \in BatchStatus \ {"none"}
    /\ task.stage = "children" => \/ task.status = "failed"
                                  \/ task.status = "paid" /\ Covered(task.kids, aggs, transfers)
    /\ task.stage = "gathered" => /\ task.batch \in Batches
                                  /\ \A a \in Aggs : a[1] = task.batch => aggs[a].status = "none"

TasksSound == \A w \in Workers : Sound(work[w], agg, transfer)

GatherersApart ==
    \A v, w \in Workers :
        At(v, "gathered") => /\ v \in Creators
                             /\ At(w, "gathered") /\ work[w].batch = work[v].batch => v = w

AggsBacked ==
    \A a \in Aggs : /\ agg[a].status = "paid" => transfer[a] = "done"
                    /\ transfer[a] # "none" => agg[a].status # "none"
                    /\ agg[a].status # "none" => batch[a[1]] # "none"

ChildrenBacked == \A c \in Children : child[c].status = "paid" => Covered({c}, agg, transfer)

Inv ==
    /\ TypeOK
    /\ TasksSound
    /\ GatherersApart
    /\ AggsBacked
    /\ ChildrenBacked

----------------------------------------------------------------------------
(* The parts of a step *)

LEMMA IdleTyped ==
    /\ Idle \in Task
    /\ Idle.stage = "idle" /\ Idle.aggs = {} /\ Idle.batch = Nothing /\ Idle.status = "none"
    /\ Idle.answer = Silence
    /\ \A a \in Aggs : Silence[a] = "none"
  BY DEF Idle, Task, Stage, Silence, BatchStatus

\* Aggregates are neither created nor forgotten and keep their children, and a transfer that
\* was made stays made.
Steady ==
    \A a \in Aggs : /\ agg'[a].status = "none" <=> agg[a].status = "none"
                    /\ agg'[a].children = agg[a].children
                    /\ transfer[a] = "done" => transfer'[a] = "done"

\* A step of a handler that goes on to task.
Becomes(w, task) == work' = [work EXCEPT ![w] = task]

LEMMA SoundStays ==
    ASSUME Steady, NEW task \in Task, Sound(task, agg, transfer)
    PROVE  Sound(task, agg', transfer')
  <1>1. task.aggs \subseteq Aggs
    BY DEF Task
  <1>2. Covered(task.kids, agg, transfer) => Covered(task.kids, agg', transfer')
    BY DEF Steady, Covered
  <1> QED  BY <1>1, <1>2 DEF Steady, Sound

LEMMA WorkKeeps ==
    ASSUME Inv, Steady, NEW w \in Workers, NEW task \in Task, Becomes(w, task),
           Sound(task, agg', transfer'), task.stage # "gathered"
    PROVE  work' \in [Workers -> Task] /\ TasksSound' /\ GatherersApart'
  <1>1. work' \in [Workers -> Task]
    BY DEF Inv, TypeOK, Becomes
  <1>2. work'[w] = task /\ \A v \in Workers \ {w} : work'[v] = work[v]
    BY DEF Inv, TypeOK, Becomes
  <1>3. \A v \in Workers : work[v] \in Task /\ Sound(work[v], agg, transfer)
    BY DEF Inv, TypeOK, TasksSound
  <1>4. TasksSound'
    BY <1>2, <1>3, SoundStays DEF TasksSound
  <1>5. GatherersApart'
    BY <1>2 DEF Inv, GatherersApart, At
  <1> QED  BY <1>1, <1>4, <1>5

LEMMA IdleSound == \A aggs, transfers : Sound(Idle, aggs, transfers)
  BY IdleTyped DEF Sound

LEMMA FinishKeeps ==
    ASSUME Inv, Steady, NEW w \in Workers, Finish(w)
    PROVE  work' \in [Workers -> Task] /\ TasksSound' /\ GatherersApart'
  BY IdleTyped, IdleSound, WorkKeeps DEF Finish, Becomes

\* Nothing but the stage of a task changes.
LEMMA MovedTask ==
    ASSUME NEW task \in Task, NEW stage \in Stage
    PROVE  /\ [task EXCEPT !.stage = stage] \in Task
           /\ [task EXCEPT !.stage = stage].stage = stage
           /\ [task EXCEPT !.stage = stage].status = task.status
           /\ [task EXCEPT !.stage = stage].aggs = task.aggs
           /\ [task EXCEPT !.stage = stage].answer = task.answer
  BY DEF Task

\* What a step must observe for the rows to stay backed by the provider.
LEMMA RowsKeep ==
    ASSUME Inv, Steady,
           \A a \in Aggs : transfer'[a] # "none" => agg[a].status # "none",
           \A a \in Aggs : agg'[a].status = "paid" => agg[a].status = "paid" \/ transfer[a] = "done",
           \A b \in Batches : batch[b] # "none" => batch'[b] # "none",
           \A c \in Children : child'[c].status = "paid" =>
               child[c].status = "paid" \/ Covered({c}, agg, transfer)
    PROVE  AggsBacked' /\ ChildrenBacked'
  <1>1. \A a \in Aggs : a[1] \in Batches
    BY DEF Aggs
  <1>2. AggsBacked'
    BY <1>1 DEF Inv, AggsBacked, Steady
  <1>3. ChildrenBacked'
    BY DEF Inv, ChildrenBacked, Covered, Steady
  <1> QED  BY <1>2, <1>3

\* Where nothing of them changes they do.
LEMMA RowsUntouched ==
    ASSUME Inv, UNCHANGED <<child, agg, transfer>>,
           \A b \in Batches : batch[b] # "none" => batch'[b] # "none"
    PROVE  Steady /\ AggsBacked' /\ ChildrenBacked'
  <1>1. Steady
    BY DEF Steady
  <1> QED  BY <1>1, RowsKeep DEF Inv, AggsBacked

\* A status is written to some aggregates.
LEMMA StatusWritten ==
    ASSUME Inv, NEW some \in SUBSET Aggs, \A a \in some : agg[a].status # "none",
           NEW status \in AggStatus \ {"none"}, UNCHANGED transfer,
           agg' = [a \in Aggs |-> IF a \in some THEN [agg[a] EXCEPT !.status = status] ELSE agg[a]]
    PROVE  /\ agg' \in [Aggs -> AggRow]
           /\ Steady
           /\ \A a \in Aggs : agg'[a].status = "paid" =>
                 agg[a].status = "paid" \/ (a \in some /\ status = "paid")
  <1>1. \A a \in Aggs : /\ [agg[a] EXCEPT !.status = status] \in AggRow
                        /\ [agg[a] EXCEPT !.status = status].status = status
                        /\ [agg[a] EXCEPT !.status = status].children = agg[a].children
    BY DEF Inv, TypeOK, AggRow
  <1>2. \A a \in Aggs : agg[a] \in AggRow
    BY DEF Inv, TypeOK
  <1>3. agg' \in [Aggs -> AggRow]
    BY <1>1, <1>2
  <1>4. Steady
    BY <1>1 DEF Steady
  <1>5. \A a \in Aggs : agg'[a].status = "paid" =>
           agg[a].status = "paid" \/ (a \in some /\ status = "paid")
    BY <1>1
  <1> QED  BY <1>3, <1>4, <1>5

LEMMA OneWritten ==
    ASSUME Inv, NEW a \in Aggs, NEW status, agg' = [agg EXCEPT ![a].status = status]
    PROVE  agg' = [x \in Aggs |-> IF x \in {a} THEN [agg[x] EXCEPT !.status = status] ELSE agg[x]]
  BY DEF Inv, TypeOK

----------------------------------------------------------------------------
(* Creating a batch *)

LEMMA GatherKeeps ==
    ASSUME Inv, NEW w \in Creators, NEW b \in Batches, NEW kids \in SUBSET Children,
           GatherChildren(w, b, kids)
    PROVE  Inv'
  <1> DEFINE task == [Idle EXCEPT !.stage = "gathered", !.batch = b, !.kids = kids]
  <1>1. /\ task \in Task
        /\ task.stage = "gathered" /\ task.batch = b /\ task.aggs = {} /\ task.answer = Silence
    BY DEF Idle, Task, Stage, Silence, BatchStatus
  <1>2. w \in Workers /\ Becomes(w, task)
    BY DEF Workers, GatherChildren, Becomes
  <1> HIDE DEF task
  <1>3. \A a \in Aggs : a[1] = b => agg[a].status = "none"
    BY DEF GatherChildren, Inv, AggsBacked
  <1>4. Sound(task, agg, transfer)
    BY <1>1, <1>3, IdleTyped DEF Sound
  <1>5. work'[w] = task /\ \A v \in Workers \ {w} : work'[v] = work[v]
    BY <1>2 DEF Inv, TypeOK, Becomes
  <1>6. TasksSound'
    BY <1>4, <1>5 DEF Inv, TasksSound, GatherChildren
  <1>7. GatherersApart'
    BY <1>1, <1>2, <1>5 DEF Inv, GatherersApart, At, GatherChildren
  <1>8. Steady /\ AggsBacked' /\ ChildrenBacked'
    BY RowsUntouched DEF GatherChildren
  <1>9. TypeOK'
    BY <1>1, <1>2 DEF Inv, TypeOK, Becomes, GatherChildren
  <1> QED  BY <1>6, <1>7, <1>8, <1>9 DEF Inv

LEMMA CommitKeeps ==
    ASSUME ConstantsTyped, Inv, NEW w \in Creators, CommitBatch(w)
    PROVE  Inv'
  <1> DEFINE b == work[w].batch
             kids == work[w].kids
             task == [work[w] EXCEPT !.stage = "enqueue"]
  <1>1. w \in Workers /\ work[w] \in Task /\ At(w, "gathered")
    BY DEF Inv, TypeOK, Workers, CommitBatch
  <1>2. /\ Sound(work[w], agg, transfer) /\ b \in Batches /\ kids \subseteq Children
        /\ \A a \in Aggs : a[1] = b => agg[a].status = "none" /\ transfer[a] = "none"
    BY <1>1 DEF Inv, TasksSound, Sound, At, AggsBacked, Task
  <1>3. /\ \A a \in Aggs : a[1] # b => agg'[a] = agg[a]
        /\ \A a \in Aggs : agg[a].status # "none" => agg'[a] = agg[a]
    BY <1>2 DEF CommitBatch
  <1>4. agg' \in [Aggs -> AggRow]
    <2>1. \A some \in SUBSET Children : [status |-> "batched", children |-> some] \in AggRow
      BY DEF AggRow, AggStatus
    <2>2. \A a \in Aggs : {c \in kids : RestaurantOf[c] = a[2]} \in SUBSET Children
      BY <1>2
    <2> QED  BY <2>1, <2>2 DEF CommitBatch, Inv, TypeOK
  <1>5. child' \in [Children -> ChildRow]
    <2>1. \A c \in Children : [status |-> "batched", parent |-> <<b, RestaurantOf[c]>>] \in ChildRow
      BY <1>2 DEF ConstantsTyped, ChildRow, Aggs
    <2> QED  BY <2>1 DEF CommitBatch, Inv, TypeOK
  <1>6. /\ task \in Task /\ task.stage = "enqueue"
        /\ task.aggs = work[w].aggs /\ task.answer = work[w].answer
    BY <1>1, MovedTask DEF Stage
  <1>7. Becomes(w, task)
    BY DEF CommitBatch, Goto, Becomes
  <1>8. work'[w] = task /\ \A v \in Workers \ {w} : work'[v] = work[v]
    BY <1>1, <1>7 DEF Inv, TypeOK, Becomes
  <1>9. \A some : Covered(some, agg, transfer) => Covered(some, agg', transfer)
    BY <1>2, <1>3 DEF Covered
  <1>10. \A v \in Workers \ {w} : Sound(work[v], agg', transfer)
    <2> SUFFICES ASSUME NEW v \in Workers \ {w}
                 PROVE  Sound(work[v], agg', transfer)
      OBVIOUS
    <2>1. Sound(work[v], agg, transfer) /\ work[v].aggs \subseteq Aggs
      BY DEF Inv, TasksSound, TypeOK, Task
    <2>2. work[v].stage = "gathered" => work[v].batch # b
      BY <1>1 DEF Inv, GatherersApart, At
    <2> QED  BY <1>3, <1>9, <2>1, <2>2 DEF Sound
  <1> HIDE DEF task
  <1>11. Sound(task, agg', transfer)
    <2>1. work[w].aggs \subseteq Aggs
      BY <1>1 DEF Task
    <2> QED  BY <1>2, <1>3, <1>6, <2>1 DEF Sound
  <1>12. TasksSound'
    BY <1>8, <1>10, <1>11 DEF TasksSound, CommitBatch
  <1>13. GatherersApart'
    BY <1>6, <1>8 DEF Inv, GatherersApart, At
  <1>14. AggsBacked'
    <2> SUFFICES ASSUME NEW a \in Aggs
                 PROVE  /\ agg'[a].status = "paid" => transfer[a] = "done"
                        /\ transfer[a] # "none" => agg'[a].status # "none"
                        /\ agg'[a].status # "none" => batch'[a[1]] # "none"
      BY DEF AggsBacked, CommitBatch
    <2>1. a[1] \in Batches
      BY DEF Aggs
    <2>2. CASE a[1] = b
      <3>1. agg'[a].status # "paid"
        BY <1>2, <2>2 DEF CommitBatch
      <3>2. transfer[a] = "none"
        BY <1>2, <2>2
      <3> QED  BY <2>1, <2>2, <3>1, <3>2 DEF CommitBatch, Inv, TypeOK
    <2>3. CASE a[1] # b
      BY <1>3, <2>1, <2>3 DEF CommitBatch, Inv, TypeOK, AggsBacked
    <2> QED  BY <2>2, <2>3
  <1>15. ChildrenBacked'
    BY <1>9 DEF Inv, ChildrenBacked, CommitBatch
  <1>16. TypeOK'
    <2>1. batch' \in [Batches -> BatchStatus] /\ work' \in [Workers -> Task]
      BY <1>6, <1>7 DEF CommitBatch, Inv, TypeOK, BatchStatus, Becomes
    <2> QED  BY <1>4, <1>5, <2>1 DEF CommitBatch, Inv, TypeOK
  <1> QED  BY <1>12, <1>13, <1>14, <1>15, <1>16 DEF Inv

LEMMA EnqueueKeeps ==
    ASSUME Inv, NEW w \in Creators, EnqueueBatch(w)
    PROVE  Inv'
  <1>1. Steady /\ AggsBacked' /\ ChildrenBacked'
    BY RowsUntouched DEF EnqueueBatch
  <1>2. work' \in [Workers -> Task] /\ TasksSound' /\ GatherersApart'
    BY <1>1, FinishKeeps DEF EnqueueBatch, Workers
  <1>3. jobs' \in [Batches -> Nat]
    BY DEF EnqueueBatch, Inv, TypeOK
  <1> QED  BY <1>1, <1>2, <1>3 DEF EnqueueBatch, Inv, TypeOK

\* Steps outside the handlers: a child comes, a batch is asked for, a transfer is settled.
LEMMA OutsideKeeps ==
    ASSUME ConstantsTyped, Inv,
           \/ \E c \in Children : InsertChild(c)
           \/ \E b \in Batches : RequestProcessing(b)
           \/ \E a \in Aggs, outcome \in {"done", "refused"} : SettleTransfer(a, outcome)
    PROVE  Inv'
  <1>1. \A w \in Workers : work[w] \in Task /\ Sound(work[w], agg, transfer)
    BY DEF Inv, TypeOK, TasksSound
  <1>2. UNCHANGED <<agg, batch, work>> /\ Steady
    BY DEF InsertChild, RequestProcessing, SettleTransfer, Steady, Inv, TypeOK
  <1>3. TasksSound' /\ GatherersApart'
    BY <1>1, <1>2, SoundStays DEF Inv, TasksSound, GatherersApart, At
  <1>4. /\ \A c \in Children : child'[c].status = "paid" => child[c].status = "paid"
        /\ \A a \in Aggs : transfer'[a] # "none" => agg[a].status # "none"
    <2>1. CASE \E c \in Children : InsertChild(c)
      BY <2>1 DEF InsertChild, Inv, TypeOK, ChildRow, AggsBacked
    <2>2. CASE \E b \in Batches : RequestProcessing(b)
      BY <2>2 DEF RequestProcessing, Inv, AggsBacked
    <2>3. CASE \E a \in Aggs, outcome \in {"done", "refused"} : SettleTransfer(a, outcome)
      BY <2>3 DEF SettleTransfer, Inv, TypeOK, AggsBacked
    <2> QED  BY <2>1, <2>2, <2>3
  <1>5. AggsBacked' /\ ChildrenBacked'
    BY <1>2, <1>4, RowsKeep
  <1>6. TypeOK'
    <2>1. CASE \E c \in Children : InsertChild(c)
      BY <2>1 DEF InsertChild, Inv, TypeOK, ChildRow
    <2>2. CASE \E b \in Batches : RequestProcessing(b)
      BY <2>2 DEF RequestProcessing, Inv, TypeOK, ConstantsTyped
    <2>3. CASE \E a \in Aggs, outcome \in {"done", "refused"} : SettleTransfer(a, outcome)
      BY <2>3 DEF SettleTransfer, Inv, TypeOK
    <2> QED  BY <2>1, <2>2, <2>3
  <1> QED  BY <1>3, <1>5, <1>6 DEF Inv

LEMMA CrashKeeps ==
    ASSUME ConstantsTyped, Inv, NEW w \in Workers, Crash(w)
    PROVE  Inv'
  <1>1. Steady /\ AggsBacked' /\ ChildrenBacked'
    BY RowsUntouched DEF Crash
  <1>2. work' \in [Workers -> Task] /\ TasksSound' /\ GatherersApart'
    BY <1>1, FinishKeeps DEF Crash
  <1>3. faults' \in 0 .. MaxFaults
    BY DEF Crash, Inv, TypeOK, ConstantsTyped
  <1>4. jobs' \in [Batches -> Nat]
    <2>1. \A b \in Batches : jobs[b] + 1 \in Nat
      BY DEF Inv, TypeOK
    <2> QED  BY <2>1 DEF Crash, Inv, TypeOK
  <1> QED  BY <1>1, <1>2, <1>3, <1>4 DEF Crash, Inv, TypeOK

----------------------------------------------------------------------------
(* Processing a batch *)

\* Taking up a batch, and looking at it: only the work, the batch and the queue change.
LEMMA LookKeeps ==
    ASSUME ConstantsTyped, Inv, NEW w \in Processors,
           \/ \E b \in Batches, force \in BOOLEAN : ClaimBatch(w, b, force) \/ RefuseClaim(w, b, force)
           \/ InspectBatch(w)
           \/ InspectFails(w)
           \/ LoadAggs(w)
           \/ SummariseBatch(w)
           \/ SaveBatch(w)
    PROVE  Inv'
  <1>1. /\ w \in Workers /\ work[w] \in Task /\ Sound(work[w], agg, transfer)
        /\ \A a \in Aggs : Silence[a] = "none"
    BY IdleTyped DEF Inv, TypeOK, TasksSound, Workers
  <1>2. UNCHANGED <<child, agg, transfer, asked, faults>>
    BY DEF ClaimBatch, RefuseClaim, InspectBatch, InspectFails, LoadAggs, SummariseBatch, SaveBatch
  <1>3. Steady
    BY <1>2 DEF Steady
  <1>4. ASSUME NEW b \in Batches, NEW force \in BOOLEAN,
               ClaimBatch(w, b, force) \/ RefuseClaim(w, b, force)
        PROVE  Inv'
    <2>1. jobs' \in [Batches -> Nat] /\ requests' \in 0 .. MaxRequests
      <3>1. Asked(w, b, force)
        BY <1>4 DEF ClaimBatch, RefuseClaim
      <3>2. CASE jobs[b] > 0 /\ jobs' = [jobs EXCEPT ![b] = @ - 1] /\ requests' = requests
        <4>1. jobs[b] - 1 \in Nat
          BY <3>2 DEF Inv, TypeOK
        <4> QED  BY <3>2, <4>1 DEF Inv, TypeOK
      <3>3. CASE requests < MaxRequests /\ requests' = requests + 1 /\ jobs' = jobs
        BY <3>3 DEF Inv, TypeOK, ConstantsTyped
      <3> QED  BY <3>1, <3>2, <3>3 DEF Asked
    <2>2. batch' \in [Batches -> BatchStatus]
          /\ \A x \in Batches : batch[x] # "none" => batch'[x] # "none"
      BY <1>4 DEF ClaimBatch, RefuseClaim, Inv, TypeOK, BatchStatus
    <2>3. ASSUME NEW stage \in {"claimed", "inspect"}, NEW queued \in BOOLEAN,
                 work' = [work EXCEPT ![w] = [Idle EXCEPT !.stage = stage, !.batch = b,
                                                          !.queued = queued]]
          PROVE  work' \in [Workers -> Task] /\ TasksSound' /\ GatherersApart'
      <3> DEFINE task == [Idle EXCEPT !.stage = stage, !.batch = b, !.queued = queued]
      <3>1. /\ task \in Task /\ task.stage = stage
            /\ task.aggs = {} /\ task.answer = Silence
        BY DEF Idle, Task, Stage, Silence, BatchStatus
      <3>2. Becomes(w, task)
        BY <2>3 DEF Becomes
      <3> HIDE DEF task
      <3>3. Sound(task, agg', transfer')
        BY <1>1, <3>1 DEF Sound
      <3> QED  BY <1>1, <1>3, <3>1, <3>2, <3>3, WorkKeeps
    <2>4. (jobs' # jobs) \in BOOLEAN
      OBVIOUS
    <2>5. work' \in [Workers -> Task] /\ TasksSound' /\ GatherersApart'
      BY <1>4, <2>3, <2>4 DEF ClaimBatch, RefuseClaim
    <2> QED  BY <1>2, <2>1, <2>2, <2>5, RowsUntouched DEF Inv, TypeOK
  <1>5. ASSUME UNCHANGED <<batch, jobs, requests>>,
               work' \in [Workers -> Task] /\ TasksSound' /\ GatherersApart'
        PROVE  Inv'
    BY <1>2, <1>5, RowsUntouched DEF Inv, TypeOK
  <1>6. CASE InspectBatch(w)
    <2>1. CASE Finish(w)
      BY <1>1, <1>3, <1>5, <1>6, <2>1, FinishKeeps DEF InspectBatch
    <2>2. ASSUME NEW status \in {"failed", "completed"},
                 work' = [work EXCEPT ![w].stage = "found", ![w].status = status]
          PROVE  Inv'
      <3> DEFINE task == [work[w] EXCEPT !.stage = "found", !.status = status]
      <3>1. /\ task \in Task /\ task.stage = "found" /\ task.status = status
            /\ task.aggs = work[w].aggs /\ task.answer = work[w].answer
        <4>1. "found" \in Stage /\ status \in BatchStatus \cup {"paid"}
          BY DEF Stage, BatchStatus
        <4> QED  BY <1>1, <4>1 DEF Task
      <3>2. Becomes(w, task)
        BY <2>2 DEF Becomes, Inv, TypeOK
      <3> HIDE DEF task
      <3>3. Sound(task, agg', transfer')
        BY <1>1, <1>2, <3>1 DEF Sound, BatchStatus
      <3> QED  BY <1>1, <1>3, <1>5, <1>6, <3>1, <3>2, <3>3, WorkKeeps DEF InspectBatch
    <2> QED  BY <1>6, <2>1, <2>2 DEF InspectBatch
  <1>7. CASE LoadAggs(w)
    <2> DEFINE found == {a \in AggsOf(work[w].batch) : agg[a].status = "batched"}
               stage == IF found = {} THEN "save" ELSE "loaded"
               task == [[[work[w] EXCEPT !.stage = stage] EXCEPT !.aggs = found]
                            EXCEPT !.status = "completed"]
    <2>1. found \subseteq Aggs /\ \A a \in found : agg[a].status # "none"
      BY DEF AggsOf
    <2>2. stage \in {"save", "loaded"}
      OBVIOUS
    <2>3. work' = [work EXCEPT ![w].stage = stage, ![w].aggs = found, ![w].status = "completed"]
      BY <1>7 DEF LoadAggs
    <2> HIDE DEF found, stage
    <2>4. /\ task \in Task /\ task.stage = stage /\ task.status = "completed"
          /\ task.aggs = found /\ task.answer = work[w].answer
      BY <1>1, <2>1, <2>2 DEF Task, Stage, BatchStatus
    <2>5. Becomes(w, task)
      BY <2>3 DEF Becomes, Inv, TypeOK
    <2> HIDE DEF task
    <2>6. Sound(task, agg', transfer')
      BY <1>1, <1>2, <2>1, <2>2, <2>4 DEF Sound, BatchStatus
    <2> QED  BY <1>1, <1>3, <1>5, <1>7, <2>2, <2>4, <2>5, <2>6, WorkKeeps DEF LoadAggs
  <1>8. CASE SummariseBatch(w)
    <2> DEFINE status == Summary(StatusesOf(work[w].batch))
               task == [work[w] EXCEPT !.stage = "save", !.status = status]
    <2>1. status \in BatchStatus \ {"none"}
      BY DEF Summary, BatchStatus
    <2>2. work' = [work EXCEPT ![w].stage = "save", ![w].status = status]
      BY <1>8 DEF SummariseBatch
    <2> HIDE DEF status
    <2>3. /\ task \in Task /\ task.stage = "save" /\ task.status = status
          /\ task.aggs = work[w].aggs /\ task.answer = work[w].answer
      <3>1. "save" \in Stage
        BY DEF Stage
      <3> QED  BY <1>1, <2>1, <3>1 DEF Task
    <2>4. Becomes(w, task)
      BY <2>2 DEF Becomes, Inv, TypeOK
    <2> HIDE DEF task
    <2>5. Sound(task, agg', transfer')
      BY <1>1, <1>2, <2>1, <2>3 DEF Sound
    <2> QED  BY <1>1, <1>3, <1>5, <1>8, <2>3, <2>4, <2>5, WorkKeeps DEF SummariseBatch
  <1>9. CASE SaveBatch(w)
    <2>1. work[w].status \in BatchStatus \ {"none"}
      BY <1>1, <1>9 DEF SaveBatch, Sound
    <2>2. batch' \in [Batches -> BatchStatus]
          /\ \A x \in Batches : batch[x] # "none" => batch'[x] # "none"
      BY <1>9, <2>1 DEF SaveBatch, Inv, TypeOK
    <2>3. work' \in [Workers -> Task] /\ TasksSound' /\ GatherersApart'
      BY <1>1, <1>3, <1>9, FinishKeeps DEF SaveBatch
    <2>4. UNCHANGED <<jobs, requests>>
      BY <1>9 DEF SaveBatch
    <2> QED  BY <1>2, <2>2, <2>3, <2>4, RowsUntouched DEF Inv, TypeOK
  <1>10. CASE InspectFails(w)
    <2>1. work' \in [Workers -> Task] /\ TasksSound' /\ GatherersApart'
      BY <1>1, <1>3, <1>10, FinishKeeps DEF InspectFails
    <2>2. jobs' \in [Batches -> Nat]
      <3>1. \A b \in Batches : jobs[b] + 1 \in Nat
        BY DEF Inv, TypeOK
      <3> QED  BY <1>10, <3>1 DEF InspectFails, Inv, TypeOK
    <2>3. UNCHANGED <<batch, requests>>
      BY <1>10 DEF InspectFails
    <2> QED  BY <1>2, <2>1, <2>2, <2>3, RowsUntouched DEF Inv, TypeOK
  <1> QED  BY <1>4, <1>6, <1>7, <1>8, <1>9, <1>10

\* An attempt to have the aggregates transferred: w notes the first, and the provider never
\* forgets or takes back a transfer.
Sends(w) == BulkTransfer(w) \/ AttemptFails(w) \/ TransferFails(w)

LEMMA SendFacts ==
    ASSUME Inv, NEW w \in Processors, Sends(w)
    PROVE  /\ w \in Workers /\ work[w] \in Task /\ work[w].aggs \subseteq Aggs
           /\ work[w].stage \in {"marked", "again"}
           /\ UNCHANGED <<child, agg, batch, jobs, requests, faults>>
           /\ \A a \in Aggs : asked'[a] = (IF a \in work[w].aggs /\ At(w, "marked")
                                          THEN asked[a] + 1 ELSE asked[a])
           /\ asked' \in [Aggs -> Nat]
           /\ transfer' \in [Aggs -> {"none", "queued", "done", "refused"}]
           /\ \A a \in Aggs : transfer[a] \in {"done", "refused"} => transfer'[a] = transfer[a]
           /\ \A a \in Aggs \ work[w].aggs : transfer'[a] = transfer[a]
  <1>1. w \in Workers /\ work[w] \in Task /\ work[w].aggs \subseteq Aggs
    BY DEF Inv, TypeOK, Workers, Task
  <1>2. work[w].stage \in {"marked", "again"} /\ UNCHANGED <<child, agg, batch, jobs, requests, faults>>
    BY DEF Sends, BulkTransfer, AttemptFails, TransferFails, NoteAttempt, At
  <1>3. /\ \A a \in Aggs : asked'[a] = (IF a \in work[w].aggs /\ At(w, "marked")
                                       THEN asked[a] + 1 ELSE asked[a])
        /\ asked' \in [Aggs -> Nat]
    <2>1. \A a \in Aggs : asked[a] + 1 \in Nat /\ asked[a] \in Nat
      BY DEF Inv, TypeOK
    <2>2. CASE NoteAttempt(w)
      BY <2>1, <2>2 DEF NoteAttempt
    <2>3. CASE At(w, "again") /\ asked' = asked
      BY <2>1, <2>3 DEF At, Inv, TypeOK
    <2> QED  BY <2>2, <2>3 DEF Sends, BulkTransfer, AttemptFails, TransferFails
  <1>4. /\ transfer' \in [Aggs -> {"none", "queued", "done", "refused"}]
        /\ \A a \in Aggs : transfer[a] \in {"done", "refused"} => transfer'[a] = transfer[a]
        /\ \A a \in Aggs \ work[w].aggs : transfer'[a] = transfer[a]
    <2>1. CASE BulkTransfer(w)
      <3>1. PICK now \in [work[w].aggs -> {"queued", "done", "refused"}] :
               /\ \A a \in work[w].aggs : transfer[a] \in {"done", "refused"} => now[a] = transfer[a]
               /\ transfer' = [a \in Aggs |-> IF a \in work[w].aggs THEN now[a] ELSE transfer[a]]
        BY <2>1 DEF BulkTransfer
      <3> QED  BY <3>1 DEF Inv, TypeOK
    <2>2. CASE TakenOrNot(work[w].aggs)
      BY <2>2 DEF TakenOrNot, Inv, TypeOK
    <2> QED  BY <2>1, <2>2 DEF Sends, AttemptFails, TransferFails
  <1> QED  BY <1>1, <1>2, <1>3, <1>4

\* Asking the provider: it makes transfers or refuses them, and never forgets one.
LEMMA TransferKeeps ==
    ASSUME Inv, NEW w \in Processors, Sends(w)
    PROVE  Inv'
  <1>1. /\ w \in Workers /\ work[w] \in Task /\ Sound(work[w], agg, transfer)
        /\ work[w].aggs \subseteq Aggs
    BY DEF Inv, TypeOK, TasksSound, Workers, Task
  <1>2. UNCHANGED <<child, agg, batch, jobs, requests, faults>>
    BY SendFacts
  <1>3. /\ asked' \in [Aggs -> Nat]
        /\ transfer' \in [Aggs -> {"none", "queued", "done", "refused"}]
        /\ \A a \in Aggs : /\ transfer[a] = "done" => transfer'[a] = "done"
                           /\ transfer'[a] # "none" => transfer[a] # "none" \/ a \in work[w].aggs
    BY SendFacts
  <1>4. ASSUME NEW task \in Task, Becomes(w, task), task.stage \in {"answered", "again", "refused"},
               task.aggs = work[w].aggs,
               \A a \in Aggs : task.answer[a] = "success" => transfer'[a] = "done"
        PROVE  Inv'
    <2>1. Steady
      BY <1>2, <1>3 DEF Steady
    <2>2. Sound(task, agg', transfer')
      BY <1>1, <1>2, <1>4 DEF Sound
    <2>3. work' \in [Workers -> Task] /\ TasksSound' /\ GatherersApart'
      BY <1>1, <1>4, <2>1, <2>2, WorkKeeps
    <2>4. \A a \in Aggs : transfer'[a] # "none" => agg[a].status # "none"
      BY <1>1, <1>3 DEF Inv, AggsBacked, Sound
    <2>5. AggsBacked' /\ ChildrenBacked'
      BY <1>2, <2>1, <2>4, RowsKeep
    <2> QED  BY <1>2, <1>3, <2>3, <2>5 DEF Inv, TypeOK
  <1>5. CASE BulkTransfer(w)
    <2> DEFINE aggs == work[w].aggs
    <2>1. PICK now \in [aggs -> {"queued", "done", "refused"}] :
             /\ \A a \in aggs : transfer[a] \in {"done", "refused"} => now[a] = transfer[a]
             /\ transfer' = [a \in Aggs |-> IF a \in aggs THEN now[a] ELSE transfer[a]]
             /\ \E said \in [aggs -> {"none", "queued", "success", "failed"}] :
                   /\ \A a \in aggs : said[a] \in AnswersTo(now[a]) \cup {"queued"}
                   /\ work' = [work EXCEPT ![w].stage = "answered",
                                ![w].answer = [a \in Aggs |-> IF a \in aggs THEN said[a] ELSE "none"]]
      BY <1>5 DEF BulkTransfer
    <2>2. PICK said \in [aggs -> {"none", "queued", "success", "failed"}] :
             /\ \A a \in aggs : said[a] \in AnswersTo(now[a]) \cup {"queued"}
             /\ work' = [work EXCEPT ![w].stage = "answered",
                          ![w].answer = [a \in Aggs |-> IF a \in aggs THEN said[a] ELSE "none"]]
      BY <2>1
    <2> DEFINE answer == [a \in Aggs |-> IF a \in aggs THEN said[a] ELSE "none"]
               task == [[work[w] EXCEPT !.stage = "answered"] EXCEPT !.answer = answer]
    <2>3. answer \in [Aggs -> {"none", "queued", "success", "failed"}]
      BY <2>2
    <2>4. \A a \in aggs : said[a] = "success" => now[a] = "done"
      BY <2>2 DEF AnswersTo
    <2>5. \A a \in Aggs : answer[a] = "success" => transfer'[a] = "done"
      BY <2>1, <2>4
    <2>7. work' = [work EXCEPT ![w].stage = "answered", ![w].answer = answer]
      BY <2>2
    <2> HIDE DEF answer
    <2>8. /\ task \in Task /\ task.stage = "answered" /\ task.answer = answer
          /\ task.aggs = work[w].aggs
      BY <1>1, <2>3 DEF Task, Stage
    <2>9. Becomes(w, task)
      BY <2>7 DEF Becomes, Inv, TypeOK
    <2> HIDE DEF task
    <2> QED  BY <1>4, <2>5, <2>8, <2>9
  <1>6. ASSUME NEW stage \in {"again", "refused"}, Goto(w, stage)
        PROVE  Inv'
    <2> DEFINE task == [work[w] EXCEPT !.stage = stage]
    <2>1. stage \in Stage
      BY DEF Stage
    <2>2. /\ task \in Task /\ task.stage = stage
          /\ task.aggs = work[w].aggs /\ task.answer = work[w].answer
      BY <1>1, <2>1, MovedTask
    <2>3. Becomes(w, task)
      BY <1>6 DEF Goto, Becomes
    <2> HIDE DEF task
    <2> QED  BY <1>1, <1>3, <1>4, <2>2, <2>3 DEF Sound
  <1> QED  BY <1>5, <1>6 DEF Sends, AttemptFails, TransferFails

\* What a processor writes to the rows: always what it was told.
LEMMA WriteKeeps ==
    ASSUME Inv, NEW w \in Processors,
           \/ MarkProcessing(w)
           \/ MarkFailed(w)
           \/ \E a \in Aggs : ReconcileAgg(w, a)
           \/ ReconcileChildren(w)
    PROVE  Inv'
  <1>1. /\ w \in Workers /\ work[w] \in Task /\ Sound(work[w], agg, transfer)
        /\ work[w].aggs \subseteq Aggs /\ \A a \in work[w].aggs : agg[a].status # "none"
    BY DEF Inv, TypeOK, TasksSound, Workers, Task, Sound
  <1>2. UNCHANGED <<batch, jobs, requests, transfer, asked, faults>>
    BY DEF MarkProcessing, MarkFailed, ReconcileAgg, ReconcileChildren
  <1>3. ASSUME UNCHANGED child, Steady, agg' \in [Aggs -> AggRow],
               \A a \in Aggs : agg'[a].status = "paid" => agg[a].status = "paid" \/ transfer[a] = "done",
               NEW task \in Task, Becomes(w, task), Sound(task, agg, transfer), task.stage # "gathered"
        PROVE  Inv'
    <2>1. Sound(task, agg', transfer')
      BY <1>3, SoundStays
    <2>2. work' \in [Workers -> Task] /\ TasksSound' /\ GatherersApart'
      BY <1>1, <1>3, <2>1, WorkKeeps
    <2>3. AggsBacked' /\ ChildrenBacked'
      BY <1>2, <1>3, RowsKeep DEF Inv, AggsBacked
    <2> QED  BY <1>2, <1>3, <2>2, <2>3 DEF Inv, TypeOK
  <1>4. CASE MarkProcessing(w)
    <2> DEFINE task == [work[w] EXCEPT !.stage = "marked"]
    <2>1. /\ task \in Task /\ task.stage = "marked"
          /\ task.aggs = work[w].aggs /\ task.answer = work[w].answer
      BY <1>1, MovedTask DEF Stage
    <2>2. Becomes(w, task) /\ UNCHANGED child
      BY <1>4 DEF MarkProcessing, Goto, Becomes
    <2> HIDE DEF task
    <2>3. Sound(task, agg, transfer)
      BY <1>1, <2>1 DEF Sound
    <2>4. /\ agg' \in [Aggs -> AggRow] /\ Steady
          /\ \A a \in Aggs : agg'[a].status = "paid" => agg[a].status = "paid"
      <3> DEFINE status == "processing"
      <3>1. agg' = [a \in Aggs |-> IF a \in work[w].aggs THEN [agg[a] EXCEPT !.status = status]
                                   ELSE agg[a]]
        BY <1>4 DEF MarkProcessing
      <3>2. /\ status \in AggStatus \ {"none"} /\ status # "paid"
            /\ work[w].aggs \in SUBSET Aggs
        BY <1>1 DEF AggStatus
      <3> HIDE DEF status
      <3> QED  BY <1>1, <1>2, <3>1, <3>2, StatusWritten
    <2> QED  BY <1>3, <2>1, <2>2, <2>3, <2>4
  <1>5. CASE MarkFailed(w)
    <2> DEFINE task == [work[w] EXCEPT !.stage = "save", !.status = "failed"]
    <2>1. /\ task \in Task /\ task.stage = "save" /\ task.status = "failed"
          /\ task.aggs = work[w].aggs /\ task.answer = work[w].answer
      <3>1. "save" \in Stage /\ "failed" \in BatchStatus \cup {"paid"}
        BY DEF Stage, BatchStatus
      <3> QED  BY <1>1, <3>1 DEF Task
    <2>2. Becomes(w, task) /\ UNCHANGED child
      BY <1>5 DEF MarkFailed, Becomes, Inv, TypeOK
    <2> HIDE DEF task
    <2>3. Sound(task, agg, transfer)
      BY <1>1, <2>1 DEF Sound, BatchStatus
    <2>4. /\ agg' \in [Aggs -> AggRow] /\ Steady
          /\ \A a \in Aggs : agg'[a].status = "paid" => agg[a].status = "paid"
      <3> DEFINE status == "failed"
      <3>1. agg' = [a \in Aggs |-> IF a \in work[w].aggs THEN [agg[a] EXCEPT !.status = status]
                                   ELSE agg[a]]
        BY <1>5 DEF MarkFailed
      <3>2. /\ status \in AggStatus \ {"none"} /\ status # "paid"
            /\ work[w].aggs \in SUBSET Aggs
        BY <1>1 DEF AggStatus
      <3> HIDE DEF status
      <3> QED  BY <1>1, <1>2, <3>1, <3>2, StatusWritten
    <2> QED  BY <1>3, <2>1, <2>2, <2>3, <2>4
  <1>6. ASSUME NEW a \in Aggs, ReconcileAgg(w, a), work[w].answer[a] = "none"
        PROVE  Inv'
    <2> DEFINE rest == work[w].aggs \ {a}
               task == [work[w] EXCEPT !.aggs = rest]
    <2>1. /\ task \in Task /\ task.stage = work[w].stage /\ task.status = work[w].status
          /\ task.aggs = rest /\ task.answer = work[w].answer
      BY <1>1 DEF Task
    <2>2. Becomes(w, task) /\ UNCHANGED <<child, agg>> /\ work[w].stage = "answered"
      BY <1>6 DEF ReconcileAgg, Becomes, At
    <2> HIDE DEF task
    <2>3. Sound(task, agg, transfer)
      BY <1>1, <2>1, <2>2 DEF Sound
    <2>4. agg' \in [Aggs -> AggRow] /\ Steady
      BY <1>2, <2>2 DEF Steady, Inv, TypeOK
    <2> QED  BY <1>3, <2>1, <2>2, <2>3, <2>4
  <1>7. ASSUME NEW a \in Aggs, ReconcileAgg(w, a), work[w].answer[a] # "none"
        PROVE  Inv'
    <2> DEFINE rest == work[w].aggs \ {a}
               status == Reconciled(work[w].answer[a])
               task == [[[[work[w] EXCEPT !.stage = "children"] EXCEPT !.kids = agg[a].children]
                            EXCEPT !.aggs = rest] EXCEPT !.status = status]
    <2>1. /\ status \in {"paid", "failed"}
          /\ status = "paid" => transfer[a] = "done"
      BY <1>1 DEF Reconciled, Sound
    <2>2. /\ agg' = [agg EXCEPT ![a].status = status]
          /\ work' = [work EXCEPT ![w].stage = "children", ![w].kids = agg[a].children,
                                  ![w].aggs = rest, ![w].status = status]
          /\ UNCHANGED child /\ a \in work[w].aggs
      BY <1>7 DEF ReconcileAgg
    <2> HIDE DEF status
    <2>3. agg[a].children \in SUBSET Children
      BY DEF Inv, TypeOK, AggRow
    <2>4. /\ task \in Task /\ task.stage = "children" /\ task.status = status
          /\ task.kids = agg[a].children /\ task.aggs = rest /\ task.answer = work[w].answer
      BY <1>1, <2>1, <2>3 DEF Task, Stage, BatchStatus
    <2>5. Becomes(w, task)
      BY <2>2 DEF Becomes, Inv, TypeOK
    <2> HIDE DEF task
    <2>6. Sound(task, agg, transfer)
      BY <1>1, <2>1, <2>4 DEF Sound, Covered
    <2>7. /\ agg' \in [Aggs -> AggRow] /\ Steady
          /\ \A x \in Aggs : agg'[x].status = "paid" => agg[x].status = "paid" \/ transfer[x] = "done"
      <3>1. agg' = [x \in Aggs |-> IF x \in {a} THEN [agg[x] EXCEPT !.status = status] ELSE agg[x]]
        BY <2>2, OneWritten
      <3>2. status \in AggStatus \ {"none"} /\ {a} \in SUBSET Aggs
        BY <2>1 DEF AggStatus
      <3>3. \A x \in {a} : agg[x].status # "none"
        BY <1>1, <2>2
      <3>4. /\ agg' \in [Aggs -> AggRow] /\ Steady
            /\ \A x \in Aggs : agg'[x].status = "paid" =>
                  agg[x].status = "paid" \/ (x \in {a} /\ status = "paid")
        BY <1>2, <3>1, <3>2, <3>3, StatusWritten
      <3> QED  BY <2>1, <3>4
    <2> QED  BY <1>3, <2>2, <2>4, <2>5, <2>6, <2>7
  <1>8. CASE ReconcileChildren(w)
    <2> DEFINE task == [work[w] EXCEPT !.stage = "answered"]
    <2>1. /\ task \in Task /\ task.stage = "answered"
          /\ task.aggs = work[w].aggs /\ task.answer = work[w].answer
      BY <1>1, MovedTask DEF Stage
    <2>2. Becomes(w, task) /\ UNCHANGED agg
      BY <1>8 DEF ReconcileChildren, Goto, Becomes
    <2> HIDE DEF task
    <2>3. Steady
      BY <1>2, <2>2 DEF Steady
    <2>4. Sound(task, agg', transfer')
      BY <1>1, <1>2, <2>1, <2>2 DEF Sound
    <2>5. work' \in [Workers -> Task] /\ TasksSound' /\ GatherersApart'
      BY <1>1, <2>1, <2>2, <2>3, <2>4, WorkKeeps
    <2>6. /\ work[w].status \in {"paid", "failed"}
          /\ work[w].status = "paid" => Covered(work[w].kids, agg, transfer)
      BY <1>1, <1>8 DEF ReconcileChildren, At, Sound
    <2>7. child' \in [Children -> ChildRow]
      <3>1. \A c \in Children : [child[c] EXCEPT !.status = work[w].status] \in ChildRow
        BY <2>6 DEF Inv, TypeOK, ChildRow
      <3> QED  BY <1>8, <3>1 DEF ReconcileChildren, Inv, TypeOK
    <2>8. \A c \in Children : child'[c].status = "paid" =>
             child[c].status = "paid" \/ Covered({c}, agg, transfer)
      <3>1. \A c \in Children : [child[c] EXCEPT !.status = work[w].status].status = work[w].status
        BY DEF Inv, TypeOK, ChildRow
      <3>2. \A c \in work[w].kids : work[w].status = "paid" => Covered({c}, agg, transfer)
        BY <2>6 DEF Covered
      <3> QED  BY <1>8, <3>1, <3>2 DEF ReconcileChildren
    <2>9. AggsBacked' /\ ChildrenBacked'
      BY <1>2, <2>2, <2>3, <2>8, RowsKeep DEF Inv, AggsBacked
    <2> QED  BY <1>2, <2>2, <2>5, <2>7, <2>9 DEF Inv, TypeOK
  <1> QED  BY <1>4, <1>5, <1>6, <1>7, <1>8

----------------------------------------------------------------------------
(* Webhooks *)

LEMMA ReceiveKeeps ==
    ASSUME Inv, NEW w \in Callbacks, NEW a \in Aggs, ReceiveResult(w, a)
    PROVE  Inv'
  <1>1. PICK answer \in (AnswersTo(transfer[a]) \ {"none"}) \cup {"queued"} :
           work' = [work EXCEPT ![w] = [Idle EXCEPT !.stage = "agg", !.batch = a[1],
                                          !.aggs = {a}, !.answer[a] = answer]]
    BY DEF ReceiveResult
  <1>2. /\ answer \in {"queued", "success", "failed"}
        /\ answer = "success" => transfer[a] = "done"
    BY DEF AnswersTo
  <1> DEFINE task == [Idle EXCEPT !.stage = "agg", !.batch = a[1], !.aggs = {a},
                                  !.answer[a] = answer]
  <1>3. a[1] \in Batches
    BY DEF Aggs
  <1>4. /\ task \in Task /\ task.stage = "agg" /\ task.aggs = {a}
        /\ task.answer = [Silence EXCEPT ![a] = answer]
    BY <1>2, <1>3 DEF Idle, Task, Stage, Silence, BatchStatus
  <1>5. Becomes(w, task) /\ w \in Workers
    BY <1>1 DEF Becomes, Workers
  <1> HIDE DEF task
  <1>6. \A x \in Aggs : [Silence EXCEPT ![a] = answer][x] = (IF x = a THEN answer ELSE "none")
    BY DEF Silence
  <1>7. Sound(task, agg, transfer)
    BY <1>2, <1>4, <1>6 DEF Sound, ReceiveResult, Inv, AggsBacked
  <1>8. Steady /\ AggsBacked' /\ ChildrenBacked'
    BY RowsUntouched DEF ReceiveResult
  <1>9. work' \in [Workers -> Task] /\ TasksSound' /\ GatherersApart'
    BY <1>4, <1>5, <1>7, <1>8, WorkKeeps DEF ReceiveResult
  <1> QED  BY <1>8, <1>9 DEF ReceiveResult, Inv, TypeOK

LEMMA ReportKeeps ==
    ASSUME Inv, NEW w \in Callbacks, NEW a \in Aggs, ReportAgg(w, a)
    PROVE  Inv'
  <1> DEFINE status == Summary({agg[x].status : x \in AggsOf(a[1]) \ {a}}
                                  \cup {Reported(work[w].answer[a])})
             task == [work[w] EXCEPT !.stage = "summed", !.status = status]
  <1>1. /\ w \in Workers /\ work[w] \in Task /\ Sound(work[w], agg, transfer)
    BY DEF Inv, TypeOK, TasksSound, Workers
  <1>2. status \in BatchStatus \ {"none"}
    BY DEF Summary, BatchStatus
  <1>3. work' = [work EXCEPT ![w].stage = "summed", ![w].status = status]
    BY DEF ReportAgg
  <1> HIDE DEF status
  <1>4. /\ task \in Task /\ task.stage = "summed" /\ task.status = status
        /\ task.aggs = work[w].aggs /\ task.answer = work[w].answer
    <2>1. "summed" \in Stage
      BY DEF Stage
    <2> QED  BY <1>1, <1>2, <2>1 DEF Task
  <1>5. Becomes(w, task)
    BY <1>3 DEF Becomes, Inv, TypeOK
  <1> HIDE DEF task
  <1>6. Sound(task, agg, transfer)
    BY <1>1, <1>2, <1>4 DEF Sound
  <1>7. Steady /\ AggsBacked' /\ ChildrenBacked'
    BY RowsUntouched DEF ReportAgg
  <1>8. work' \in [Workers -> Task] /\ TasksSound' /\ GatherersApart'
    BY <1>1, <1>4, <1>5, <1>6, <1>7, WorkKeeps DEF ReportAgg
  <1> QED  BY <1>7, <1>8 DEF ReportAgg, Inv, TypeOK

LEMMA ReportCommits ==
    ASSUME Inv, NEW w \in Callbacks, NEW a \in Aggs, ReportCommitted(w, a)
    PROVE  Inv'
  <1> DEFINE status == Reported(work[w].answer[a])
  <1>1. /\ w \in Workers /\ work[w] \in Task /\ Sound(work[w], agg, transfer)
        /\ a \in work[w].aggs /\ work[w].stage = "summed"
    BY DEF Inv, TypeOK, TasksSound, Workers, ReportCommitted, At
  <1>2. /\ status \in {"paid", "failed", "processing"}
        /\ status = "paid" => transfer[a] = "done"
    BY <1>1 DEF Reported, Sound
  <1>3. /\ agg' = [agg EXCEPT ![a].status = status]
        /\ child' = [c \in Children |-> IF c \in agg[a].children /\ status # "processing"
                                         THEN [child[c] EXCEPT !.status = status] ELSE child[c]]
    BY DEF ReportCommitted
  <1> HIDE DEF status
  <1>4. UNCHANGED <<jobs, requests, transfer, asked, faults>>
    BY DEF ReportCommitted
  <1>5. /\ agg' \in [Aggs -> AggRow] /\ Steady
        /\ \A x \in Aggs : agg'[x].status = "paid" => agg[x].status = "paid" \/ transfer[x] = "done"
    <2>1. agg' = [x \in Aggs |-> IF x \in {a} THEN [agg[x] EXCEPT !.status = status] ELSE agg[x]]
      BY <1>3, OneWritten
    <2>2. status \in AggStatus \ {"none"} /\ {a} \in SUBSET Aggs
      BY <1>2 DEF AggStatus
    <2>3. \A x \in {a} : agg[x].status # "none"
      BY <1>1 DEF Sound
    <2>4. /\ agg' \in [Aggs -> AggRow] /\ Steady
          /\ \A x \in Aggs : agg'[x].status = "paid" =>
                agg[x].status = "paid" \/ (x \in {a} /\ status = "paid")
      BY <1>4, <2>1, <2>2, <2>3, StatusWritten
    <2> QED  BY <1>2, <2>4
  <1>6. work' \in [Workers -> Task] /\ TasksSound' /\ GatherersApart'
    BY <1>1, <1>5, FinishKeeps DEF ReportCommitted
  <1>7. batch' \in [Batches -> BatchStatus]
        /\ \A x \in Batches : batch[x] # "none" => batch'[x] # "none"
    <2>1. work[w].status \in BatchStatus \ {"none"}
      BY <1>1 DEF Sound
    <2> QED  BY <2>1 DEF ReportCommitted, Inv, TypeOK
  <1>8. \A c \in Children : /\ [child[c] EXCEPT !.status = status].status = status
                            /\ status # "processing" =>
                                  [child[c] EXCEPT !.status = status] \in ChildRow
    BY <1>2 DEF Inv, TypeOK, ChildRow
  <1>9. child' \in [Children -> ChildRow]
    BY <1>3, <1>8 DEF Inv, TypeOK
  <1>10. \A c \in Children : child'[c].status = "paid" =>
            child[c].status = "paid" \/ Covered({c}, agg, transfer)
    BY <1>2, <1>3, <1>8 DEF Covered
  <1>11. AggsBacked' /\ ChildrenBacked'
    BY <1>4, <1>5, <1>7, <1>10, RowsKeep DEF Inv, AggsBacked
  <1> QED  BY <1>4, <1>5, <1>6, <1>7, <1>9, <1>11 DEF Inv, TypeOK

----------------------------------------------------------------------------
(* The theorem *)

LEMMA InvInitially ==
    ASSUME ConstantsTyped, Init
    PROVE  Inv
  <1>1. TypeOK
    <2>1. /\ [status |-> "none", parent |-> Nothing] \in ChildRow
          /\ [status |-> "none", children |-> {}] \in AggRow
      BY DEF ChildRow, AggRow, AggStatus
    <2>2. requests \in 0 .. MaxRequests /\ faults \in 0 .. MaxFaults
      BY DEF Init, ConstantsTyped
    <2> QED  BY <2>1, <2>2, IdleTyped DEF Init, TypeOK, BatchStatus
  <1>2. TasksSound /\ GatherersApart
    BY IdleTyped, IdleSound DEF Init, TasksSound, GatherersApart, At
  <1>3. AggsBacked /\ ChildrenBacked
    BY DEF Init, AggsBacked, ChildrenBacked
  <1> QED  BY <1>1, <1>2, <1>3 DEF Inv

LEMMA InvKept ==
    ASSUME ConstantsTyped, Inv, [Next]_vars
    PROVE  Inv'
  <1>1. CASE \/ \E w \in Creators, b \in Batches, kids \in SUBSET Children : GatherChildren(w, b, kids)
             \/ \E w \in Creators : CreateSteps(w)
    BY <1>1, GatherKeeps, CommitKeeps, EnqueueKeeps DEF CreateSteps
  <1>2. CASE \/ \E c \in Children : InsertChild(c)
             \/ \E b \in Batches : RequestProcessing(b)
             \/ \E a \in Aggs, outcome \in {"done", "refused"} : SettleTransfer(a, outcome)
    BY <1>2, OutsideKeeps
  <1>3. CASE \/ \E w \in Processors, b \in Batches, force \in BOOLEAN :
                  ClaimBatch(w, b, force) \/ RefuseClaim(w, b, force)
             \/ \E w \in Processors : ProcessSteps(w)
    BY <1>3, LookKeeps, TransferKeeps, WriteKeeps DEF ProcessSteps, Sends
  <1>4. CASE \/ \E w \in Callbacks, a \in Aggs : ReceiveResult(w, a)
             \/ \E w \in Callbacks : WebhookSteps(w)
    BY <1>4, ReceiveKeeps, ReportKeeps, ReportCommits DEF WebhookSteps
  <1>5. CASE \E w \in Workers : Crash(w)
    BY <1>5, CrashKeeps
  <1>6. CASE UNCHANGED vars
    <2>1. UNCHANGED <<child, agg, batch, jobs, requests, transfer, asked, faults, work>>
      BY <1>6 DEF vars
    <2> QED  BY <2>1, RowsUntouched DEF Inv, TypeOK, TasksSound, GatherersApart, At
  <1> QED  BY <1>1, <1>2, <1>3, <1>4, <1>5, <1>6 DEF Next

\* However many batches, jobs, retries and webhooks overlap, and wherever one dies: an aggregate
\* and a child are marked paid only if the provider has made a transfer that covers them.
THEOREM PaidIsTransferred ==
    ASSUME ConstantsTyped
    PROVE  Spec => []PaidMeansTransferred
  <1>1. Init => Inv
    BY InvInitially
  <1>2. Inv /\ [Next]_vars => Inv'
    BY InvKept
  <1>3. Inv => PaidMeansTransferred
    BY DEF Inv, AggsBacked, ChildrenBacked, Covered, PaidMeansTransferred
  <1> QED  BY <1>1, <1>2, <1>3, PTL DEF Spec

----------------------------------------------------------------------------
(***************************************************************************)
(* One worker at most ever asks the provider for an aggregate's transfer,  *)
(* unless an admin forces a claim, for any restaurants, batches and        *)
(* workers and any number of jobs and faults.  How often that worker       *)
(* repeats its request is left to it and to the provider's references.     *)
(*                                                                         *)
(* The claim of a batch does not by itself exclude a second one: it may be *)
(* taken over when it is stale, and a webhook or the end of another worker *)
(* may reset the status that guards it.  While a batch is fresh, however,  *)
(* that is, as long as it has batched aggregates, none of this can happen; *)
(* and the one worker that has claimed it marks all of them in one step.   *)
(***************************************************************************)

(* The inductive invariant *)

\* The aggregates of batch b that a worker would load.
BatchedOf(aggs, b) == {a \in Aggs : a[1] = b /\ aggs[a].status = "batched"}

Touched(row) == row.status \notin {"none", "batched"}

Early == {"claimed", "loaded"}
Late == {"marked", "again", "refused", "answered", "children", "save", "found"}
Holding == {"marked", "again", "refused", "answered", "children", "agg", "summed"}

\* What a handler has found out is still so: its batch exists, and is fresh only before it marks
\* the aggregates; until then it holds all of them, and nobody resets the batch.
Careful(task, aggs, batches) ==
    /\ task.stage \in Early \cup Late => task.batch \in Batches /\ batches[task.batch] # "none"
    /\ task.stage \in Late => BatchedOf(aggs, task.batch) = {}
    /\ task.stage = "loaded" => task.aggs = BatchedOf(aggs, task.batch) /\ task.aggs # {}
    /\ task.stage \in Early /\ BatchedOf(aggs, task.batch) # {} => batches[task.batch] = "processing"
    /\ task.stage \in Holding => \A a \in task.aggs : Touched(aggs[a])
    /\ task.stage = "gathered" => batches[task.batch] = "none"
    /\ task.stage = "inspect" => task.batch \in Batches

TasksCareful == \A w \in Workers : Careful(work[w], agg, batch)

\* One worker at a time is at a batch that is fresh.
EarlyApart ==
    \A v, w \in Workers :
        work[v].stage \in Early =>
            /\ v \in Processors
            /\ /\ work[w].stage \in Early /\ work[w].batch = work[v].batch
               /\ BatchedOf(agg, work[v].batch) # {}
               => v = w

\* What a worker is about to send has not been sent, and nobody else is about to; what it is
\* about to send again, it has sent.
MarkedOnce ==
    \A v \in Workers : \A a \in work[v].aggs :
        /\ At(v, "marked") =>
              /\ asked[a] = 0
              /\ \A w \in Workers : At(w, "marked") /\ a \in work[w].aggs => v = w
        /\ At(v, "again") => asked[a] # 0

\* All aggregates of a batch are touched together, and none is sent before.
RowsFresh ==
    \A a \in Aggs :
        /\ asked[a] <= 1
        /\ ~ Touched(agg[a]) => asked[a] = 0 /\ transfer[a] = "none"
        /\ Touched(agg[a]) => BatchedOf(agg, a[1]) = {}

OnceInv == TasksCareful /\ EarlyApart /\ MarkedOnce /\ RowsFresh

----------------------------------------------------------------------------
(* Steps that touch nothing new *)

Calm ==
    /\ \A b \in Batches : /\ BatchedOf(agg', b) = BatchedOf(agg, b)
                          /\ batch'[b] = "none" <=> batch[b] = "none"
                          /\ BatchedOf(agg, b) # {} /\ batch[b] = "processing" => batch'[b] = "processing"
    /\ \A a \in Aggs : /\ Touched(agg'[a]) <=> Touched(agg[a])
                       /\ transfer'[a] # "none" => transfer[a] # "none"
    /\ UNCHANGED asked

LEMMA CarefulStays ==
    ASSUME Inv, Calm, NEW w \in Workers, Careful(work[w], agg, batch)
    PROVE  Careful(work[w], agg', batch')
  <1>1. work[w].aggs \subseteq Aggs /\ (work[w].stage = "gathered" => work[w].batch \in Batches)
    BY DEF Inv, TypeOK, Task, TasksSound, Sound
  <1> QED  BY <1>1 DEF Calm, Careful, Early, Late

LEMMA RowsStayFresh ==
    ASSUME Calm, RowsFresh
    PROVE  RowsFresh'
  <1>1. \A a \in Aggs : a[1] \in Batches
    BY DEF Aggs
  <1> QED  BY <1>1 DEF Calm, RowsFresh

LEMMA CalmKeeps ==
    ASSUME Inv, OnceInv, Calm, NEW w \in Workers, NEW task, Becomes(w, task),
           Careful(task, agg', batch'), task.stage \notin {"marked", "again"},
           task.stage \in Early => work[w].stage \in Early /\ task.batch = work[w].batch
    PROVE  OnceInv'
  <1>1. work'[w] = task /\ \A v \in Workers \ {w} : work'[v] = work[v]
    BY DEF Inv, TypeOK, Becomes
  <1>2. TasksCareful'
    BY <1>1, CarefulStays DEF OnceInv, TasksCareful
  <1>3. EarlyApart'
    <2>1. \A v \in Workers : work'[v].stage \in Early =>
             /\ work[v].stage \in Early /\ work'[v].batch = work[v].batch
             /\ work[v].batch \in Batches
      BY <1>1 DEF OnceInv, TasksCareful, Careful
    <2> QED  BY <2>1 DEF OnceInv, EarlyApart, Calm
  <1>4. MarkedOnce'
    BY <1>1 DEF OnceInv, MarkedOnce, At, Calm
  <1>5. RowsFresh'
    BY RowsStayFresh DEF OnceInv
  <1> QED  BY <1>2, <1>3, <1>4, <1>5 DEF OnceInv

\* Nothing is asked of a handler that is idle.
LEMMA IdleCareful == \A aggs, batches : Careful(Idle, aggs, batches)
  BY IdleTyped DEF Careful, Early, Late, Holding

LEMMA FinishCalm ==
    ASSUME Inv, OnceInv, Calm, NEW w \in Workers, Finish(w)
    PROVE  OnceInv'
  BY IdleTyped, IdleCareful, CalmKeeps DEF Finish, Becomes, Early

\* Statuses written to aggregates that are touched leave them so.
LEMMA TouchedWritten ==
    ASSUME Inv, NEW some \in SUBSET Aggs, \A a \in some : Touched(agg[a]),
           NEW status \in {"processing", "paid", "failed"},
           agg' = [a \in Aggs |-> IF a \in some THEN [agg[a] EXCEPT !.status = status] ELSE agg[a]]
    PROVE  /\ \A b : BatchedOf(agg', b) = BatchedOf(agg, b)
           /\ \A a \in Aggs : Touched(agg'[a]) <=> Touched(agg[a])
  <1>1. \A a \in Aggs : [agg[a] EXCEPT !.status = status].status = status
    BY DEF Inv, TypeOK, AggRow
  <1>2. \A a \in Aggs : /\ Touched(agg'[a]) <=> Touched(agg[a])
                        /\ agg'[a].status = "batched" <=> agg[a].status = "batched"
    BY <1>1 DEF Touched
  <1> QED  BY <1>2 DEF BatchedOf

LEMMA CalmRows ==
    ASSUME UNCHANGED <<agg, asked>>,
           \A b \in Batches :
               /\ batch'[b] = "none" <=> batch[b] = "none"
               /\ BatchedOf(agg, b) # {} /\ batch[b] = "processing" => batch'[b] = "processing",
           \A a \in Aggs : transfer'[a] # "none" => transfer[a] # "none"
    PROVE  Calm
  BY DEF Calm

----------------------------------------------------------------------------
(* Claiming a batch and marking its aggregates *)

LEMMA ClaimOnce ==
    ASSUME MayForce = FALSE, Inv, OnceInv,
           NEW w \in Processors, NEW b \in Batches, NEW force \in BOOLEAN, ClaimBatch(w, b, force)
    PROVE  OnceInv'
  <1> DEFINE queued == (jobs' # jobs)
             task == [Idle EXCEPT !.stage = "claimed", !.batch = b, !.queued = queued]
  <1>1. /\ task.stage = "claimed" /\ task.batch = b /\ task.aggs = {}
    BY DEF Idle
  <1>2. Becomes(w, task) /\ w \in Workers /\ At(w, "idle")
    BY DEF ClaimBatch, Asked, Becomes, Workers
  <1> HIDE DEF task
  <1>3. work'[w] = task /\ \A v \in Workers \ {w} : work'[v] = work[v]
    BY <1>2 DEF Inv, TypeOK, Becomes
  <1>4. /\ UNCHANGED <<agg, asked, transfer>>
        /\ batch[b] # "none" /\ batch' = [batch EXCEPT ![b] = "processing"]
        /\ batch[b] # "processing" \/ MayBeStale(b)
    BY DEF ClaimBatch, Claimable, Asked
  <1>5. Calm
    BY <1>4, CalmRows DEF Inv, TypeOK
  <1>6. Careful(task, agg', batch')
    BY <1>1, <1>4 DEF Careful, Early, Late, Holding, Inv, TypeOK
  <1>7. TasksCareful'
    BY <1>3, <1>5, <1>6, CarefulStays DEF OnceInv, TasksCareful
  <1>8. \A v \in Workers : work[v].stage \in Early /\ work[v].batch = b => BatchedOf(agg, b) = {}
    <2> SUFFICES ASSUME NEW v \in Workers, work[v].stage \in Early, work[v].batch = b,
                        BatchedOf(agg, b) # {}
                 PROVE  FALSE
      OBVIOUS
    <2>1. batch[b] = "processing" /\ v \in Processors
      BY DEF OnceInv, TasksCareful, Careful, EarlyApart
    <2>2. Processing(v, b)
      BY DEF Processing, Early
    <2> QED  BY <1>4, <2>1, <2>2 DEF MayBeStale
  <1>9. EarlyApart'
    BY <1>1, <1>3, <1>4, <1>8 DEF OnceInv, EarlyApart
  <1>10. MarkedOnce'
    BY <1>1, <1>3, <1>4 DEF OnceInv, MarkedOnce, At
  <1>11. RowsFresh'
    BY <1>5, RowsStayFresh DEF OnceInv
  <1> QED  BY <1>7, <1>9, <1>10, <1>11 DEF OnceInv

LEMMA MarkOnce ==
    ASSUME Inv, OnceInv, NEW w \in Processors, MarkProcessing(w)
    PROVE  OnceInv'
  <1> DEFINE b == work[w].batch
             aggs == work[w].aggs
             task == [work[w] EXCEPT !.stage = "marked"]
  <1>1. w \in Workers /\ work[w] \in Task /\ work[w].stage = "loaded"
    BY DEF MarkProcessing, At, Workers, Inv, TypeOK
  <1>2. /\ b \in Batches /\ batch[b] # "none"
        /\ aggs = BatchedOf(agg, b) /\ aggs # {}
    BY <1>1 DEF OnceInv, TasksCareful, Careful, Early
  <1>3. /\ task.stage = "marked" /\ task.batch = b /\ task.aggs = aggs
    BY <1>1 DEF Task
  <1>4. Becomes(w, task) /\ UNCHANGED <<batch, asked, transfer>>
    BY DEF MarkProcessing, Goto, Becomes
  <1> HIDE DEF task
  <1>5. work'[w] = task /\ \A v \in Workers \ {w} : work'[v] = work[v]
    BY <1>1, <1>4 DEF Inv, TypeOK, Becomes
  <1>6. \A a \in Aggs : IF a \in aggs THEN agg'[a].status = "processing" ELSE agg'[a] = agg[a]
    <2>1. \A a \in Aggs : [agg[a] EXCEPT !.status = "processing"].status = "processing"
      BY DEF Inv, TypeOK, AggRow
    <2> QED  BY <2>1 DEF MarkProcessing
  <1>7. /\ BatchedOf(agg', b) = {}
        /\ \A x : x # b => BatchedOf(agg', x) = BatchedOf(agg, x)
        /\ \A a \in Aggs : Touched(agg'[a]) <=> Touched(agg[a]) \/ a \in aggs
    BY <1>2, <1>6 DEF BatchedOf, Touched
  <1>8. \A v \in Workers \ {w} : Careful(work[v], agg', batch')
    <2> SUFFICES ASSUME NEW v \in Workers \ {w}
                 PROVE  Careful(work[v], agg', batch')
      OBVIOUS
    <2>1. Careful(work[v], agg, batch) /\ work[v].aggs \subseteq Aggs
      BY DEF OnceInv, TasksCareful, Inv, TypeOK, Task
    <2>2. work[v].stage \in Early => work[v].batch # b
      BY <1>1, <1>2 DEF OnceInv, EarlyApart, Early
    <2>3. BatchedOf(agg, work[v].batch) = {} => BatchedOf(agg', work[v].batch) = {}
      BY <1>7
    <2> QED  BY <1>4, <1>7, <2>1, <2>2, <2>3 DEF Careful, Early
  <1>9. Careful(task, agg', batch')
    BY <1>2, <1>3, <1>4, <1>6, <1>7 DEF Careful, Early, Late, BatchedOf, Touched
  <1>10. TasksCareful'
    BY <1>5, <1>8, <1>9 DEF TasksCareful
  <1>11. EarlyApart'
    <2>1. \A v \in Workers : work'[v].stage \in Early => work'[v] = work[v]
      BY <1>3, <1>5 DEF Early
    <2>2. \A x : BatchedOf(agg', x) # {} => BatchedOf(agg, x) # {}
      BY <1>7
    <2> QED  BY <2>1, <2>2 DEF OnceInv, EarlyApart
  <1>12. MarkedOnce'
    <2>1. \A a \in aggs : a \in Aggs /\ ~ Touched(agg[a]) /\ asked[a] = 0
      BY <1>2 DEF BatchedOf, Touched, OnceInv, RowsFresh
    <2>2. \A v \in Workers : At(v, "marked") => \A a \in work[v].aggs : Touched(agg[a])
      BY DEF OnceInv, TasksCareful, Careful, Holding, At
    <2> QED  BY <1>3, <1>4, <1>5, <2>1, <2>2 DEF OnceInv, MarkedOnce, At
  <1>13. RowsFresh'
    <2>1. \A a \in aggs : a[1] = b
      BY <1>2 DEF BatchedOf
    <2>2. \A x : BatchedOf(agg, x) = {} => BatchedOf(agg', x) = {}
      BY <1>7
    <2> QED  BY <1>4, <1>7, <2>1, <2>2 DEF OnceInv, RowsFresh
  <1> QED  BY <1>10, <1>11, <1>12, <1>13 DEF OnceInv

\* Asking the provider: it is this worker's own request that is repeated, or the first, because
\* nobody else was about to.
LEMMA SendOnce ==
    ASSUME Inv, OnceInv, NEW w \in Processors, Sends(w)
    PROVE  OnceInv'
  <1> DEFINE aggs == work[w].aggs
  <1>1. /\ w \in Workers /\ work[w] \in Task /\ work[w].stage \in {"marked", "again"}
        /\ aggs \subseteq Aggs /\ Careful(work[w], agg, batch)
    BY SendFacts DEF OnceInv, TasksCareful
  <1>2. /\ UNCHANGED <<agg, batch>>
        /\ \A a \in Aggs : asked[a] \in Nat /\ asked'[a] \in Nat
        /\ \A a \in Aggs : asked'[a] = (IF a \in aggs /\ At(w, "marked") THEN asked[a] + 1
                                       ELSE asked[a])
        /\ \A a \in Aggs : transfer'[a] # "none" => transfer[a] # "none" \/ a \in aggs
    BY SendFacts DEF Inv, TypeOK
  <1>3. PICK task : /\ Becomes(w, task)
                    /\ task.stage \in {"answered", "again", "refused"}
                    /\ task.batch = work[w].batch /\ task.aggs = aggs
    <2>1. CASE BulkTransfer(w)
      <3>1. PICK answer : work' = [work EXCEPT ![w].stage = "answered", ![w].answer = answer]
        BY <2>1 DEF BulkTransfer
      <3> DEFINE task == [[work[w] EXCEPT !.stage = "answered"] EXCEPT !.answer = answer]
      <3>2. /\ task.stage = "answered" /\ task.batch = work[w].batch /\ task.aggs = aggs
        BY <1>1 DEF Task
      <3>3. Becomes(w, task)
        BY <3>1 DEF Becomes, Inv, TypeOK
      <3> HIDE DEF task
      <3> QED  BY <3>2, <3>3
    <2>2. ASSUME NEW stage \in {"again", "refused"}, Goto(w, stage)
          PROVE  \E task : /\ Becomes(w, task)
                           /\ task.stage \in {"answered", "again", "refused"}
                           /\ task.batch = work[w].batch /\ task.aggs = aggs
      <3> DEFINE task == [work[w] EXCEPT !.stage = stage]
      <3>1. /\ task.stage = stage /\ task.batch = work[w].batch /\ task.aggs = aggs
        BY <1>1 DEF Task
      <3>2. Becomes(w, task)
        BY <2>2 DEF Goto, Becomes
      <3> HIDE DEF task
      <3> QED  BY <3>1, <3>2
    <2> QED  BY <2>1, <2>2 DEF Sends, AttemptFails, TransferFails
  <1>4. work'[w] = task /\ \A v \in Workers \ {w} : work'[v] = work[v]
    BY <1>1, <1>3 DEF Inv, TypeOK, Becomes
  <1>5. Careful(task, agg', batch')
    BY <1>1, <1>2, <1>3 DEF Careful, Early, Late, Holding
  <1>6. TasksCareful'
    BY <1>2, <1>4, <1>5 DEF OnceInv, TasksCareful
  <1>7. EarlyApart'
    BY <1>2, <1>3, <1>4 DEF OnceInv, EarlyApart, Early
  <1>8. \A a \in aggs : /\ Touched(agg[a])
                        /\ At(w, "marked") => asked[a] = 0 /\ asked'[a] = 1
                        /\ At(w, "again") => asked[a] # 0 /\ asked'[a] = asked[a]
    BY <1>1, <1>2 DEF OnceInv, MarkedOnce, At, Careful, Holding
  <1>9. MarkedOnce'
    <2>1. \A v \in Workers \ {w} : At(v, "marked") =>
             \A a \in work[v].aggs : a \in Aggs /\ (a \in aggs => ~ At(w, "marked"))
      BY <1>1 DEF OnceInv, MarkedOnce, At, Inv, TypeOK, Task
    <2>2. \A v \in Workers \ {w} : At(v, "marked") => \A a \in work[v].aggs : asked'[a] = asked[a]
      BY <1>2, <2>1
    <2>3. \A v \in Workers \ {w} : At(v, "again") => \A a \in work[v].aggs : asked'[a] # 0
      <3>1. \A v \in Workers : work[v].aggs \subseteq Aggs
        BY DEF Inv, TypeOK, Task
      <3> QED  BY <1>2, <3>1 DEF OnceInv, MarkedOnce
    <2>4. \A a \in aggs : asked'[a] # 0
      BY <1>1, <1>8 DEF At
    <2> QED  BY <1>3, <1>4, <2>2, <2>3, <2>4 DEF OnceInv, MarkedOnce, At
  <1>10. RowsFresh'
    <2>1. \A a \in Aggs : asked'[a] <= 1
      BY <1>1, <1>2, <1>8 DEF OnceInv, RowsFresh, At
    <2>2. \A a \in Aggs : ~ Touched(agg[a]) => asked'[a] = 0 /\ transfer'[a] = "none"
      BY <1>2, <1>8 DEF OnceInv, RowsFresh
    <2> QED  BY <1>2, <2>1, <2>2 DEF OnceInv, RowsFresh
  <1> QED  BY <1>6, <1>7, <1>9, <1>10 DEF OnceInv

----------------------------------------------------------------------------
(* Creating a batch *)

LEMMA GatherOnce ==
    ASSUME Inv, OnceInv, NEW w \in Creators, NEW b \in Batches, NEW kids \in SUBSET Children,
           GatherChildren(w, b, kids)
    PROVE  OnceInv'
  <1> DEFINE task == [Idle EXCEPT !.stage = "gathered", !.batch = b, !.kids = kids]
  <1>1. task.stage = "gathered" /\ task.batch = b
    BY DEF Idle
  <1>2. Becomes(w, task) /\ w \in Workers /\ UNCHANGED <<agg, batch, asked, transfer>>
    BY DEF GatherChildren, Becomes, Workers
  <1> HIDE DEF task
  <1>3. Calm
    BY <1>2, CalmRows
  <1>4. Careful(task, agg', batch')
    BY <1>1, <1>2 DEF Careful, Early, Late, Holding, GatherChildren
  <1> QED  BY <1>1, <1>2, <1>3, <1>4, CalmKeeps DEF Early

\* The batch is new: nobody works on it yet.
LEMMA CommitOnce ==
    ASSUME Inv, OnceInv, NEW w \in Creators, CommitBatch(w)
    PROVE  OnceInv'
  <1> DEFINE b == work[w].batch
             task == [work[w] EXCEPT !.stage = "enqueue"]
  <1>1. /\ w \in Workers /\ work[w] \in Task /\ work[w].stage = "gathered"
        /\ b \in Batches /\ batch[b] = "none"
        /\ \A a \in Aggs : a[1] = b => agg[a].status = "none"
    BY DEF CommitBatch, At, Workers, Inv, TypeOK, TasksSound, Sound, OnceInv, TasksCareful, Careful
  <1>2. task.stage = "enqueue"
    BY <1>1 DEF Task
  <1>3. Becomes(w, task) /\ UNCHANGED <<asked, transfer>>
    BY DEF CommitBatch, Goto, Becomes
  <1> HIDE DEF task
  <1>4. work'[w] = task /\ \A v \in Workers \ {w} : work'[v] = work[v]
    BY <1>1, <1>3 DEF Inv, TypeOK, Becomes
  <1>5. /\ \A a \in Aggs : a[1] # b => agg'[a] = agg[a]
        /\ \A a \in Aggs : a[1] = b => agg'[a].status \in {"none", "batched"}
        /\ \A x \in Batches : x # b => batch'[x] = batch[x]
        /\ batch'[b] # "none"
    BY <1>1 DEF CommitBatch, Inv, TypeOK
  <1>6. \A x : x # b => BatchedOf(agg', x) = BatchedOf(agg, x)
    BY <1>5 DEF BatchedOf
  <1>7. \A a \in Aggs : Touched(agg'[a]) <=> Touched(agg[a])
    BY <1>1, <1>5 DEF Touched
  <1>8. \A v \in Workers \ {w} : Careful(work[v], agg', batch')
    <2> SUFFICES ASSUME NEW v \in Workers \ {w}
                 PROVE  Careful(work[v], agg', batch')
      OBVIOUS
    <2>1. /\ Careful(work[v], agg, batch) /\ work[v].aggs \subseteq Aggs
          /\ work[v].stage = "gathered" => work[v].batch \in Batches /\ work[v].batch # b
      BY <1>1 DEF OnceInv, TasksCareful, Inv, TypeOK, Task, TasksSound, Sound, GatherersApart, At
    <2>2. work[v].stage \in Early \cup Late => work[v].batch # b
      BY <1>1, <2>1 DEF Careful
    <2> QED  BY <1>5, <1>6, <1>7, <2>1, <2>2 DEF Careful, Early
  <1>9. TasksCareful'
    BY <1>2, <1>4, <1>8 DEF TasksCareful, Careful, Early, Late, Holding
  <1>10. EarlyApart'
    <2>1. \A v \in Workers : work'[v].stage \in Early => work'[v] = work[v] /\ work[v].batch # b
      BY <1>1, <1>2, <1>4 DEF OnceInv, TasksCareful, Careful, Early
    <2> QED  BY <1>6, <2>1 DEF OnceInv, EarlyApart
  <1>11. MarkedOnce'
    BY <1>2, <1>3, <1>4 DEF OnceInv, MarkedOnce, At
  <1>12. RowsFresh'
    <2>1. \A a \in Aggs : Touched(agg[a]) => a[1] # b
      BY <1>1 DEF Touched
    <2> QED  BY <1>3, <1>6, <1>7, <2>1 DEF OnceInv, RowsFresh
  <1> QED  BY <1>9, <1>10, <1>11, <1>12 DEF OnceInv

----------------------------------------------------------------------------
(* The other steps *)

LEMMA OutsideOnce ==
    ASSUME Inv, OnceInv, UNCHANGED <<agg, batch, asked, work>>,
           \A a \in Aggs : transfer'[a] # "none" => transfer[a] # "none"
    PROVE  OnceInv'
  <1>1. Calm
    BY CalmRows
  <1> QED  BY <1>1, RowsStayFresh DEF OnceInv, TasksCareful, EarlyApart, MarkedOnce, At

\* Steps that end a handler and write no rows but the batch.
LEMMA EndOnce ==
    ASSUME Inv, OnceInv, NEW w \in Workers,
           EnqueueBatch(w) \/ Crash(w) \/ SaveBatch(w)
    PROVE  OnceInv'
  <1>1. Finish(w) /\ UNCHANGED <<agg, asked, transfer>>
    BY DEF EnqueueBatch, Crash, SaveBatch
  <1>2. CASE UNCHANGED batch
    BY <1>1, <1>2, CalmRows, FinishCalm
  <1>3. CASE SaveBatch(w)
    <2>1. /\ work[w].batch \in Batches /\ batch[work[w].batch] # "none"
          /\ BatchedOf(agg, work[w].batch) = {}
          /\ work[w].status # "none"
      BY <1>3 DEF SaveBatch, OnceInv, TasksCareful, Careful, Late, Inv, TasksSound, Sound
    <2>2. \A b \in Batches :
             /\ batch'[b] = "none" <=> batch[b] = "none"
             /\ BatchedOf(agg, b) # {} /\ batch[b] = "processing" => batch'[b] = "processing"
      BY <1>3, <2>1 DEF SaveBatch, Inv, TypeOK
    <2> QED  BY <1>1, <2>2, CalmRows, FinishCalm
  <1> QED  BY <1>2, <1>3 DEF EnqueueBatch, Crash

\* A processor that looks at a batch, or summarises it.
LEMMA LookOnce ==
    ASSUME Inv, OnceInv, NEW w \in Processors,
           \/ \E b \in Batches, force \in BOOLEAN : RefuseClaim(w, b, force)
           \/ InspectBatch(w)
           \/ InspectFails(w)
           \/ LoadAggs(w)
           \/ SummariseBatch(w)
    PROVE  OnceInv'
  <1>1. UNCHANGED <<agg, batch, asked, transfer>> /\ w \in Workers
    BY DEF RefuseClaim, InspectBatch, InspectFails, LoadAggs, SummariseBatch, Workers
  <1>2. Calm
    BY <1>1, CalmRows
  <1>3. work[w] \in Task /\ Careful(work[w], agg, batch)
    BY <1>1 DEF Inv, TypeOK, OnceInv, TasksCareful
  <1>4. ASSUME NEW b \in Batches, NEW force \in BOOLEAN, RefuseClaim(w, b, force)
        PROVE  OnceInv'
    <2> DEFINE queued == (jobs' # jobs)
               task == [Idle EXCEPT !.stage = "inspect", !.batch = b, !.queued = queued]
    <2>1. task.stage = "inspect" /\ task.batch = b
      BY DEF Idle
    <2>2. Becomes(w, task)
      BY <1>4 DEF RefuseClaim, Becomes
    <2> HIDE DEF task
    <2>3. Careful(task, agg', batch')
      BY <2>1 DEF Careful, Early, Late, Holding
    <2> QED  BY <1>1, <1>2, <2>1, <2>2, <2>3, CalmKeeps DEF Early
  <1>5. CASE InspectBatch(w)
    <2>1. CASE Finish(w)
      BY <1>1, <1>2, <2>1, FinishCalm
    <2>2. CASE ~ Finish(w)
      <3> DEFINE b == work[w].batch
                 status == IF "failed" \in StatusesOf(b) THEN "failed" ELSE "completed"
                 task == [work[w] EXCEPT !.stage = "found", !.status = status]
      <3>1. /\ work[w].stage = "inspect"
            /\ batch[b] = "processing" /\ StatusesOf(b) \cap {"processing", "batched"} = {}
            /\ work' = [work EXCEPT ![w].stage = "found", ![w].status = status]
        BY <1>5, <2>2 DEF InspectBatch, At
      <3> HIDE DEF status
      <3>2. task.stage = "found" /\ task.batch = b
        BY <1>3 DEF Task
      <3>3. Becomes(w, task)
        BY <3>1 DEF Becomes, Inv, TypeOK
      <3> HIDE DEF task
      <3>4. BatchedOf(agg, b) = {}
        BY <3>1 DEF BatchedOf, StatusesOf, AggsOf
      <3>5. Careful(task, agg', batch')
        BY <1>1, <1>3, <3>1, <3>2, <3>4 DEF Careful, Early, Late, Holding
      <3> QED  BY <1>1, <1>2, <3>2, <3>3, <3>5, CalmKeeps DEF Early
    <2> QED  BY <2>1, <2>2
  <1>6. CASE LoadAggs(w)
    <2> DEFINE b == work[w].batch
               found == {a \in AggsOf(b) : agg[a].status = "batched"}
               stage == IF found = {} THEN "save" ELSE "loaded"
               task == [[[work[w] EXCEPT !.stage = stage] EXCEPT !.aggs = found]
                            EXCEPT !.status = "completed"]
    <2>1. found = BatchedOf(agg, b)
      BY DEF AggsOf, BatchedOf
    <2>2. stage \in {"save", "loaded"} /\ (stage = "save" <=> found = {})
      OBVIOUS
    <2>3. /\ work' = [work EXCEPT ![w].stage = stage, ![w].aggs = found, ![w].status = "completed"]
          /\ work[w].stage = "claimed"
      BY <1>6 DEF LoadAggs, At
    <2> HIDE DEF found, stage
    <2>4. task.stage = stage /\ task.aggs = found /\ task.batch = b
      BY <1>3 DEF Task
    <2>5. Becomes(w, task)
      BY <2>3 DEF Becomes, Inv, TypeOK
    <2> HIDE DEF task
    <2>6. Careful(task, agg', batch')
      BY <1>1, <1>3, <2>1, <2>2, <2>3, <2>4 DEF Careful, Early, Late, Holding
    <2> QED  BY <1>1, <1>2, <2>2, <2>3, <2>4, <2>5, <2>6, CalmKeeps DEF Early
  <1>7. CASE SummariseBatch(w)
    <2> DEFINE status == Summary(StatusesOf(work[w].batch))
               task == [work[w] EXCEPT !.stage = "save", !.status = status]
    <2>1. /\ work' = [work EXCEPT ![w].stage = "save", ![w].status = status]
          /\ work[w].stage = "answered"
      BY <1>7 DEF SummariseBatch, At
    <2> HIDE DEF status
    <2>2. task.stage = "save" /\ task.batch = work[w].batch
      BY <1>3 DEF Task
    <2>3. Becomes(w, task)
      BY <2>1 DEF Becomes, Inv, TypeOK
    <2> HIDE DEF task
    <2>4. Careful(task, agg', batch')
      BY <1>1, <1>3, <2>1, <2>2 DEF Careful, Early, Late, Holding
    <2> QED  BY <1>1, <1>2, <2>2, <2>3, <2>4, CalmKeeps DEF Early
  <1>8. CASE InspectFails(w)
    BY <1>1, <1>2, <1>8, FinishCalm DEF InspectFails
  <1> QED  BY <1>4, <1>5, <1>6, <1>7, <1>8

\* A processor writes what became of aggregates it has marked.
LEMMA WriteOnce ==
    ASSUME Inv, OnceInv, NEW w \in Processors,
           \/ MarkFailed(w)
           \/ \E a \in Aggs : ReconcileAgg(w, a)
           \/ ReconcileChildren(w)
    PROVE  OnceInv'
  <1>1. w \in Workers /\ UNCHANGED <<batch, asked, transfer>>
    BY DEF MarkFailed, ReconcileAgg, ReconcileChildren, Workers
  <1>2. /\ work[w] \in Task /\ Careful(work[w], agg, batch) /\ work[w].aggs \subseteq Aggs
        /\ work[w].stage \in {"refused", "answered", "children"}
        /\ \A a \in work[w].aggs : Touched(agg[a])
    BY <1>1 DEF Inv, TypeOK, Task, OnceInv, TasksCareful, Careful, Holding, MarkFailed,
          ReconcileAgg, ReconcileChildren, At
  <1>3. ASSUME NEW some \in SUBSET work[w].aggs, NEW status \in {"processing", "paid", "failed"},
               \/ UNCHANGED agg
               \/ agg' = [a \in Aggs |-> IF a \in some THEN [agg[a] EXCEPT !.status = status]
                                         ELSE agg[a]],
               NEW task, Becomes(w, task), task.stage \in {"save", "answered", "children"},
               task.batch = work[w].batch, task.aggs \subseteq work[w].aggs
        PROVE  OnceInv'
    <2>1. /\ \A b \in Batches : BatchedOf(agg', b) = BatchedOf(agg, b)
          /\ \A a \in Aggs : Touched(agg'[a]) <=> Touched(agg[a])
      <3>1. CASE UNCHANGED agg
        BY <3>1
      <3>2. CASE ~ UNCHANGED agg
        BY <1>2, <1>3, <3>2, TouchedWritten
      <3> QED  BY <3>1, <3>2
    <2>2. Calm
      BY <1>1, <2>1 DEF Calm
    <2>3. Careful(task, agg', batch')
      BY <1>1, <1>2, <1>3, <2>1 DEF Careful, Early, Late, Holding
    <2> QED  BY <1>1, <1>3, <2>2, <2>3, CalmKeeps DEF Early
  <1>4. CASE MarkFailed(w)
    <2> DEFINE status == "failed"
               task == [work[w] EXCEPT !.stage = "save", !.status = status]
    <2>1. /\ agg' = [a \in Aggs |-> IF a \in work[w].aggs THEN [agg[a] EXCEPT !.status = status]
                                    ELSE agg[a]]
          /\ work' = [work EXCEPT ![w].stage = "save", ![w].status = status]
      BY <1>4 DEF MarkFailed
    <2>2. status \in {"processing", "paid", "failed"}
      OBVIOUS
    <2> HIDE DEF status
    <2>3. task.stage = "save" /\ task.batch = work[w].batch /\ task.aggs = work[w].aggs
      BY <1>2 DEF Task
    <2>4. Becomes(w, task)
      BY <2>1 DEF Becomes, Inv, TypeOK
    <2> HIDE DEF task
    <2> QED  BY <1>3, <2>1, <2>2, <2>3, <2>4
  <1>5. ASSUME NEW a \in Aggs, ReconcileAgg(w, a), work[w].answer[a] = "none"
        PROVE  OnceInv'
    <2> DEFINE rest == work[w].aggs \ {a}
               task == [work[w] EXCEPT !.aggs = rest]
    <2>1. /\ UNCHANGED agg /\ work' = [work EXCEPT ![w].aggs = rest]
          /\ work[w].stage = "answered"
      BY <1>5 DEF ReconcileAgg, At
    <2>2. task.stage = work[w].stage /\ task.batch = work[w].batch /\ task.aggs = rest
      BY <1>2 DEF Task
    <2>3. Becomes(w, task)
      BY <2>1 DEF Becomes, Inv, TypeOK
    <2>4. rest \subseteq work[w].aggs
      OBVIOUS
    <2> HIDE DEF task, rest
    <2> QED  BY <1>3, <2>1, <2>2, <2>3, <2>4
  <1>6. ASSUME NEW a \in Aggs, ReconcileAgg(w, a), work[w].answer[a] # "none"
        PROVE  OnceInv'
    <2> DEFINE rest == work[w].aggs \ {a}
               status == Reconciled(work[w].answer[a])
               task == [[[[work[w] EXCEPT !.stage = "children"] EXCEPT !.kids = agg[a].children]
                            EXCEPT !.aggs = rest] EXCEPT !.status = status]
    <2>1. /\ agg' = [agg EXCEPT ![a].status = status]
          /\ work' = [work EXCEPT ![w].stage = "children", ![w].kids = agg[a].children,
                                  ![w].aggs = rest, ![w].status = status]
          /\ a \in work[w].aggs
      BY <1>6 DEF ReconcileAgg
    <2>2. status \in {"processing", "paid", "failed"}
      BY DEF Reconciled
    <2> HIDE DEF status
    <2>3. task.stage = "children" /\ task.batch = work[w].batch /\ task.aggs = rest
      BY <1>2 DEF Task
    <2>4. Becomes(w, task)
      BY <2>1 DEF Becomes, Inv, TypeOK
    <2>5. agg' = [x \in Aggs |-> IF x \in {a} THEN [agg[x] EXCEPT !.status = status] ELSE agg[x]]
      BY <2>1, OneWritten
    <2>6. rest \subseteq work[w].aggs /\ {a} \in SUBSET work[w].aggs
      BY <2>1
    <2> HIDE DEF task, rest
    <2> QED  BY <1>3, <2>2, <2>3, <2>4, <2>5, <2>6
  <1>7. CASE ReconcileChildren(w)
    <2> DEFINE task == [work[w] EXCEPT !.stage = "answered"]
    <2>1. task.stage = "answered" /\ task.batch = work[w].batch /\ task.aggs = work[w].aggs
      BY <1>2 DEF Task
    <2>2. Becomes(w, task) /\ UNCHANGED agg
      BY <1>7 DEF ReconcileChildren, Goto, Becomes
    <2> HIDE DEF task
    <2> QED  BY <1>3, <2>1, <2>2
  <1> QED  BY <1>4, <1>5, <1>6, <1>7

\* A webhook is about an aggregate that the provider was asked for.
LEMMA WebhookOnce ==
    ASSUME Inv, OnceInv, NEW w \in Callbacks, NEW a \in Aggs,
           ReceiveResult(w, a) \/ ReportAgg(w, a) \/ ReportCommitted(w, a)
    PROVE  OnceInv'
  <1>1. w \in Workers /\ UNCHANGED <<asked, transfer>>
    BY DEF ReceiveResult, ReportAgg, ReportCommitted, Workers
  <1>2. work[w] \in Task /\ Careful(work[w], agg, batch) /\ work[w].aggs \subseteq Aggs
    BY <1>1 DEF Inv, TypeOK, Task, OnceInv, TasksCareful
  <1>3. CASE ReceiveResult(w, a)
    <2>1. PICK answer : work' = [work EXCEPT ![w] = [Idle EXCEPT !.stage = "agg", !.batch = a[1],
                                                       !.aggs = {a}, !.answer[a] = answer]]
      BY <1>3 DEF ReceiveResult
    <2> DEFINE task == [Idle EXCEPT !.stage = "agg", !.batch = a[1], !.aggs = {a},
                                    !.answer[a] = answer]
    <2>2. task.stage = "agg" /\ task.aggs = {a}
      BY DEF Idle
    <2>3. Becomes(w, task) /\ UNCHANGED <<agg, batch>>
      BY <1>3, <2>1 DEF ReceiveResult, Becomes
    <2> HIDE DEF task
    <2>4. Touched(agg[a])
      BY <1>3 DEF ReceiveResult, OnceInv, RowsFresh
    <2>5. Careful(task, agg', batch')
      BY <2>2, <2>3, <2>4 DEF Careful, Early, Late
    <2>6. Calm
      BY <1>1, <2>3, CalmRows
    <2> QED  BY <1>1, <2>2, <2>3, <2>5, <2>6, CalmKeeps DEF Early
  <1>4. CASE ReportAgg(w, a)
    <2> DEFINE status == Summary({agg[x].status : x \in AggsOf(a[1]) \ {a}}
                                    \cup {Reported(work[w].answer[a])})
               task == [work[w] EXCEPT !.stage = "summed", !.status = status]
    <2>1. /\ work' = [work EXCEPT ![w].stage = "summed", ![w].status = status]
          /\ work[w].stage = "agg" /\ UNCHANGED <<agg, batch>>
      BY <1>4 DEF ReportAgg, At
    <2> HIDE DEF status
    <2>2. task.stage = "summed" /\ task.aggs = work[w].aggs
      BY <1>2 DEF Task
    <2>3. Becomes(w, task)
      BY <2>1 DEF Becomes, Inv, TypeOK
    <2> HIDE DEF task
    <2>4. Careful(task, agg', batch')
      BY <1>2, <2>1, <2>2 DEF Careful, Early, Late, Holding
    <2>5. Calm
      BY <1>1, <2>1, CalmRows
    <2> QED  BY <1>1, <2>2, <2>3, <2>4, <2>5, CalmKeeps DEF Early
  <1>5. CASE ReportCommitted(w, a)
    <2> DEFINE status == Reported(work[w].answer[a])
    <2>1. /\ agg' = [agg EXCEPT ![a].status = status]
          /\ batch' = [batch EXCEPT ![a[1]] = work[w].status]
          /\ a \in work[w].aggs /\ work[w].stage = "summed" /\ Finish(w)
      BY <1>5 DEF ReportCommitted, At
    <2>2. status \in {"processing", "paid", "failed"}
      BY DEF Reported
    <2> HIDE DEF status
    <2>3. /\ Touched(agg[a]) /\ a[1] \in Batches /\ BatchedOf(agg, a[1]) = {}
          /\ batch[a[1]] # "none" /\ work[w].status # "none"
      BY <1>1, <1>2, <2>1 DEF Careful, Holding, OnceInv, RowsFresh, Aggs, Inv, AggsBacked,
            TasksSound, Sound, Touched
    <2>4. agg' = [x \in Aggs |-> IF x \in {a} THEN [agg[x] EXCEPT !.status = status] ELSE agg[x]]
      BY <2>1, OneWritten
    <2>5. /\ \A b \in Batches : BatchedOf(agg', b) = BatchedOf(agg, b)
          /\ \A x \in Aggs : Touched(agg'[x]) <=> Touched(agg[x])
      <3>1. {a} \in SUBSET Aggs /\ \A x \in {a} : Touched(agg[x])
        BY <2>3
      <3> QED  BY <2>2, <2>4, <3>1, TouchedWritten
    <2>6. \A b \in Batches :
             /\ batch'[b] = "none" <=> batch[b] = "none"
             /\ BatchedOf(agg, b) # {} /\ batch[b] = "processing" => batch'[b] = "processing"
      BY <2>1, <2>3 DEF Inv, TypeOK
    <2>7. Calm
      BY <1>1, <2>5, <2>6 DEF Calm
    <2> QED  BY <1>1, <2>1, <2>7, FinishCalm
  <1> QED  BY <1>3, <1>4, <1>5

----------------------------------------------------------------------------
(* The theorem *)

LEMMA OnceInitially == Init => OnceInv
  <1> SUFFICES ASSUME Init
               PROVE  OnceInv
    OBVIOUS
  <1>1. TasksCareful
    BY IdleCareful DEF Init, TasksCareful
  <1>2. EarlyApart /\ MarkedOnce
    BY IdleTyped DEF Init, EarlyApart, MarkedOnce, Early, At
  <1>3. RowsFresh
    BY DEF Init, RowsFresh, Touched
  <1> QED  BY <1>1, <1>2, <1>3 DEF OnceInv

LEMMA OnceKept ==
    ASSUME MayForce = FALSE, Inv, OnceInv, [Next]_vars
    PROVE  OnceInv'
  <1>1. CASE \/ \E w \in Creators, b \in Batches, kids \in SUBSET Children : GatherChildren(w, b, kids)
             \/ \E w \in Creators : CreateSteps(w)
    BY <1>1, GatherOnce, CommitOnce, EndOnce DEF CreateSteps, Workers
  <1>2. CASE \/ \E c \in Children : InsertChild(c)
             \/ \E b \in Batches : RequestProcessing(b)
             \/ \E a \in Aggs, outcome \in {"done", "refused"} : SettleTransfer(a, outcome)
             \/ UNCHANGED vars
    <2>1. UNCHANGED <<agg, batch, asked, work>>
      BY <1>2 DEF InsertChild, RequestProcessing, SettleTransfer, vars
    <2>2. \A a \in Aggs : transfer'[a] # "none" => transfer[a] # "none"
      BY <1>2 DEF InsertChild, RequestProcessing, SettleTransfer, vars, Inv, TypeOK
    <2> QED  BY <2>1, <2>2, OutsideOnce
  <1>3. CASE \E w \in Processors, b \in Batches, force \in BOOLEAN :
                ClaimBatch(w, b, force) \/ RefuseClaim(w, b, force)
    BY <1>3, ClaimOnce, LookOnce
  <1>4. CASE \E w \in Processors : ProcessSteps(w)
    BY <1>4, LookOnce, MarkOnce, SendOnce, WriteOnce, EndOnce DEF ProcessSteps, Sends, Workers
  <1>5. CASE \/ \E w \in Callbacks, a \in Aggs : ReceiveResult(w, a)
             \/ \E w \in Callbacks : WebhookSteps(w)
    BY <1>5, WebhookOnce DEF WebhookSteps
  <1>6. CASE \E w \in Workers : Crash(w)
    BY <1>6, EndOnce
  <1> QED  BY <1>1, <1>2, <1>3, <1>4, <1>5, <1>6 DEF Next

\* "atomic claim using RETURNING to avoid race conditions": however many jobs, retries and
\* requests there are for a batch, whoever takes a stale one over and wherever a worker dies,
\* one worker at most ever asks for the transfer of an aggregate, as long as no admin forces a
\* claim.
THEOREM ClaimsAreAtomic ==
    ASSUME ConstantsTyped, MayForce = FALSE
    PROVE  Spec => []SentByOneWorker
  <1>1. Init => Inv /\ OnceInv
    BY InvInitially, OnceInitially
  <1>2. Inv /\ OnceInv /\ [Next]_vars => (Inv /\ OnceInv)'
    BY InvKept, OnceKept
  <1>3. OnceInv => SentByOneWorker
    BY DEF OnceInv, RowsFresh, SentByOneWorker
  <1> QED  BY <1>1, <1>2, <1>3, PTL DEF Spec

----------------------------------------------------------------------------
(***************************************************************************)
(* No child is covered by two transfers, while one batch is created at a   *)
(* time: two aggregates have no child in common, because what is pending   *)
(* is in none, what is in one is never pending again, and what a request   *)
(* has gathered stays pending until it links it.                           *)
(***************************************************************************)

OneCreator == \A v, w \in Creators : v = w

Unlinked(c) == child[c].status \in {"none", "pending"}

KidsApart ==
    \A c \in Children : \A a1, a2 \in Aggs :
        c \in agg[a1].children /\ c \in agg[a2].children => a1 = a2

UnlinkedIsFree == \A c \in Children : Unlinked(c) => \A a \in Aggs : c \notin agg[a].children

\* The children a handler holds, between their being read and their being written.
KidsHeld ==
    \A w \in Workers :
        /\ At(w, "gathered") => \A c \in work[w].kids : child[c].status = "pending"
        /\ At(w, "children") => /\ work[w].kids \cap {c \in Children : Unlinked(c)} = {}
                                /\ work[w].status \in {"paid", "failed"}

ApartInv == KidsApart /\ UnlinkedIsFree /\ KidsHeld

\* A step that links no children: it changes only the status of what is linked, and who holds
\* children afterwards held them before or has read them as they are.
LinksNothing ==
    /\ \A a \in Aggs : agg'[a].children = agg[a].children
    /\ \A c \in Children : /\ ~ Unlinked(c) => ~ Unlinked(c)'
                           /\ child[c].status = "pending" => child'[c].status = "pending"

HoldersKnow ==
    \A w \in Workers :
        /\ At(w, "gathered")' => \/ At(w, "gathered") /\ work'[w].kids = work[w].kids
                                 \/ \A c \in work'[w].kids : child[c].status = "pending"
        /\ At(w, "children")' =>
              \/ At(w, "children") /\ work'[w] = work[w]
              \/ /\ work'[w].kids \cap {c \in Children : Unlinked(c)} = {}
                 /\ work'[w].status \in {"paid", "failed"}

LEMMA LinksNothingKeeps ==
    ASSUME TypeOK', ApartInv, LinksNothing, HoldersKnow
    PROVE  ApartInv'
  <1>1. KidsApart'
    BY DEF ApartInv, KidsApart, LinksNothing
  <1>2. UnlinkedIsFree'
    BY DEF ApartInv, UnlinkedIsFree, LinksNothing
  <1>3. \A w \in Workers : work'[w].kids \subseteq Children
    BY DEF TypeOK, Task
  <1>4. ASSUME NEW w \in Workers, At(w, "gathered")', NEW c \in work'[w].kids
        PROVE  child'[c].status = "pending"
    BY <1>3, <1>4 DEF HoldersKnow, ApartInv, KidsHeld, LinksNothing
  <1>5. ASSUME NEW w \in Workers, At(w, "children")'
        PROVE  /\ work'[w].kids \cap {c \in Children : Unlinked(c)'} = {}
               /\ work'[w].status \in {"paid", "failed"}
    <2>1. /\ work'[w].kids \cap {c \in Children : Unlinked(c)} = {}
          /\ work'[w].status \in {"paid", "failed"}
      BY <1>5 DEF HoldersKnow, ApartInv, KidsHeld
    <2>2. \A c \in Children : Unlinked(c)' => Unlinked(c)
      BY DEF LinksNothing
    <2> QED  BY <2>1, <2>2
  <1>6. KidsHeld'
    BY <1>4, <1>5 DEF KidsHeld
  <1> QED  BY <1>1, <1>2, <1>6 DEF ApartInv

LEMMA RowsLinkNothing == UNCHANGED <<child, agg>> => LinksNothing
  BY DEF LinksNothing, Unlinked

LEMMA StatusLinksNothing ==
    ASSUME Inv, UNCHANGED child, NEW some \in SUBSET Aggs, NEW status,
           agg' = [a \in Aggs |-> IF a \in some THEN [agg[a] EXCEPT !.status = status] ELSE agg[a]]
    PROVE  LinksNothing
  <1>1. \A a \in Aggs : [agg[a] EXCEPT !.status = status].children = agg[a].children
    BY DEF Inv, TypeOK, AggRow
  <1> QED  BY <1>1 DEF LinksNothing, Unlinked

\* One handler moves, and holds no children.
LEMMA MoverKnows ==
    ASSUME NEW w \in Workers, \A v \in Workers \ {w} : work'[v] = work[v],
           work'[w].stage \notin {"gathered", "children"}
    PROVE  HoldersKnow
  BY DEF HoldersKnow, At

LEMMA OthersStay ==
    ASSUME Inv, NEW w \in Workers, NEW task, Becomes(w, task)
    PROVE  work'[w] = task /\ \A v \in Workers \ {w} : work'[v] = work[v]
  BY DEF Inv, TypeOK, Becomes

LEMMA FinisherKnows ==
    ASSUME Inv, NEW w \in Workers, Finish(w)
    PROVE  HoldersKnow
  <1>1. Becomes(w, Idle)
    BY DEF Finish, Becomes
  <1> QED  BY <1>1, IdleTyped, OthersStay, MoverKnows

LEMMA GatherKnows ==
    ASSUME Inv, NEW w \in Creators, NEW b \in Batches, NEW kids \in SUBSET Children,
           GatherChildren(w, b, kids)
    PROVE  LinksNothing /\ HoldersKnow
  <1> DEFINE task == [Idle EXCEPT !.stage = "gathered", !.batch = b, !.kids = kids]
  <1>1. task.stage = "gathered" /\ task.kids = kids
    BY DEF Idle
  <1>2. w \in Workers /\ Becomes(w, task)
    BY DEF Workers, GatherChildren, Becomes
  <1> HIDE DEF task
  <1>3. work'[w] = task /\ \A v \in Workers \ {w} : work'[v] = work[v]
    BY <1>2, OthersStay
  <1>4. HoldersKnow
    BY <1>1, <1>3 DEF HoldersKnow, At, GatherChildren
  <1> QED  BY <1>4, RowsLinkNothing DEF GatherChildren

LEMMA CommitApart ==
    ASSUME ConstantsTyped, OneCreator, Inv, Inv', ApartInv, NEW w \in Creators, CommitBatch(w)
    PROVE  ApartInv'
  <1> DEFINE b == work[w].batch
             kids == work[w].kids
  <1>1. w \in Workers /\ At(w, "gathered") /\ kids \subseteq Children
    BY DEF Inv, TypeOK, Workers, CommitBatch, Task
  <1>2. \A c \in kids : child[c].status = "pending" /\ \A a \in Aggs : c \notin agg[a].children
    BY <1>1 DEF ApartInv, KidsHeld, UnlinkedIsFree, Unlinked
  <1>3. \A a \in Aggs : \/ agg'[a].children = {c \in kids : RestaurantOf[c] = a[2]} /\ a[1] = b
                        \/ agg'[a].children = agg[a].children
    BY DEF CommitBatch
  <1>4. \A c \in Children : IF c \in kids THEN child'[c].status = "batched"
                            ELSE child'[c] = child[c]
    BY DEF CommitBatch
  <1>5. \A a1, a2 \in Aggs : a1[1] = a2[1] /\ a1[2] = a2[2] => a1 = a2
    BY DEF Aggs
  <1>6. KidsApart'
    <2> SUFFICES ASSUME NEW c \in Children, NEW a1 \in Aggs, NEW a2 \in Aggs,
                        c \in agg'[a1].children, c \in agg'[a2].children
                 PROVE  a1 = a2
      BY DEF KidsApart
    <2>1. CASE c \in kids
      BY <1>2, <1>3, <1>5, <2>1
    <2>2. CASE c \notin kids
      BY <1>3, <2>2 DEF ApartInv, KidsApart
    <2> QED  BY <2>1, <2>2
  <1>7. UnlinkedIsFree'
    BY <1>3, <1>4 DEF ApartInv, UnlinkedIsFree, Unlinked
  <1>8. /\ \A v \in Workers : v # w => work'[v] = work[v]
        /\ work'[w].stage = "enqueue"
    BY <1>1 DEF CommitBatch, Goto, Inv, TypeOK, Task
  <1>9. \A v \in Workers : v # w => ~ At(v, "gathered")
    BY <1>1 DEF Inv, GatherersApart, OneCreator
  <1>10. KidsHeld'
    <2> SUFFICES ASSUME NEW v \in Workers
                 PROVE  /\ ~ At(v, "gathered")'
                        /\ At(v, "children")' =>
                              /\ work'[v].kids \cap {c \in Children : Unlinked(c)'} = {}
                              /\ work'[v].status \in {"paid", "failed"}
      BY DEF KidsHeld
    <2>1. \A c \in Children : Unlinked(c)' => Unlinked(c)
      BY <1>4 DEF Unlinked
    <2>2. CASE v = w
      BY <1>8, <2>2 DEF At
    <2>3. CASE v # w
      BY <1>8, <1>9, <2>1, <2>3 DEF At, ApartInv, KidsHeld
    <2> QED  BY <2>2, <2>3
  <1> QED  BY <1>6, <1>7, <1>10 DEF ApartInv

\* Steps outside the handlers, and those of handlers that leave the rows alone.
LEMMA OutsideApart ==
    ASSUME Inv,
           \/ \E c \in Children : InsertChild(c)
           \/ \E b \in Batches : RequestProcessing(b)
           \/ \E a \in Aggs, outcome \in {"done", "refused"} : SettleTransfer(a, outcome)
    PROVE  LinksNothing /\ HoldersKnow
  <1>1. UNCHANGED <<agg, work>>
    BY DEF InsertChild, RequestProcessing, SettleTransfer
  <1>2. HoldersKnow
    BY <1>1 DEF HoldersKnow, At
  <1> SUFFICES LinksNothing
    BY <1>2
  <1>3. ASSUME NEW c \in Children, InsertChild(c)
        PROVE  LinksNothing
    BY <1>1, <1>3 DEF InsertChild, LinksNothing, Unlinked, Inv, TypeOK, ChildRow
  <1>4. CASE UNCHANGED child
    BY <1>1, <1>4, RowsLinkNothing
  <1> QED  BY <1>3, <1>4 DEF RequestProcessing, SettleTransfer

LEMMA LookApart ==
    ASSUME Inv, NEW w \in Workers,
           \/ EnqueueBatch(w)
           \/ \E b \in Batches, force \in BOOLEAN : ClaimBatch(w, b, force) \/ RefuseClaim(w, b, force)
           \/ InspectBatch(w)
           \/ InspectFails(w)
           \/ LoadAggs(w)
           \/ Sends(w)
           \/ SummariseBatch(w)
           \/ SaveBatch(w)
           \/ \E a \in Aggs : ReceiveResult(w, a) \/ ReportAgg(w, a)
           \/ Crash(w)
    PROVE  LinksNothing /\ HoldersKnow
  <1>1. UNCHANGED <<child, agg>>
    BY DEF EnqueueBatch, ClaimBatch, RefuseClaim, InspectBatch, InspectFails, LoadAggs, Sends,
           BulkTransfer, AttemptFails, TransferFails, SummariseBatch, SaveBatch, ReceiveResult,
           ReportAgg, Crash
  <1> SUFFICES HoldersKnow
    BY <1>1, RowsLinkNothing
  <1>2. work \in [Workers -> Task] /\ work[w] \in Task
    BY DEF Inv, TypeOK
  <1>3. CASE Finish(w)
    BY <1>3, FinisherKnows
  <1>4. ASSUME NEW b, NEW stage \in {"claimed", "inspect"}, NEW queued,
               work' = [work EXCEPT ![w] = [Idle EXCEPT !.stage = stage, !.batch = b,
                                                        !.queued = queued]]
        PROVE  HoldersKnow
    BY <1>2, <1>4 DEF HoldersKnow, At, Idle
  <1>5. CASE InspectBatch(w)
    <2>1. CASE ~ Finish(w)
      BY <1>2, <1>5, <2>1 DEF InspectBatch, HoldersKnow, At, Task
    <2> QED  BY <1>3, <2>1
  <1>6. CASE LoadAggs(w)
    BY <1>2, <1>6 DEF LoadAggs, HoldersKnow, At, Task
  <1>7. CASE BulkTransfer(w)
    <2>1. PICK answer : work' = [work EXCEPT ![w].stage = "answered", ![w].answer = answer]
      BY <1>7 DEF BulkTransfer
    <2>2. work'[w].stage = "answered" /\ \A v \in Workers \ {w} : work'[v] = work[v]
      BY <1>2, <2>1 DEF Task
    <2> QED  BY <2>2, MoverKnows
  <1>8. CASE AttemptFails(w) \/ TransferFails(w)
    BY <1>2, <1>8 DEF AttemptFails, TransferFails, Goto, HoldersKnow, At, Task
  <1>9. CASE SummariseBatch(w)
    BY <1>2, <1>9 DEF SummariseBatch, HoldersKnow, At, Task
  <1>10. ASSUME NEW a \in Aggs, ReceiveResult(w, a)
         PROVE  HoldersKnow
    <2>1. PICK answer : work' = [work EXCEPT ![w] = [Idle EXCEPT !.stage = "agg", !.batch = a[1],
                                             !.aggs = {a}, !.answer[a] = answer]]
      BY <1>10 DEF ReceiveResult
    <2> QED  BY <1>2, <2>1 DEF HoldersKnow, At, Idle
  <1>11. ASSUME NEW a \in Aggs, ReportAgg(w, a)
         PROVE  HoldersKnow
    BY <1>2, <1>11 DEF ReportAgg, HoldersKnow, At, Task
  <1>12. EnqueueBatch(w) \/ InspectFails(w) \/ SaveBatch(w) \/ Crash(w) => Finish(w)
    BY DEF EnqueueBatch, InspectFails, SaveBatch, Crash
  <1>13. ASSUME NEW b \in Batches, NEW force \in BOOLEAN,
                ClaimBatch(w, b, force) \/ RefuseClaim(w, b, force)
         PROVE  HoldersKnow
    BY <1>4, <1>13 DEF ClaimBatch, RefuseClaim
  <1> QED  BY <1>3, <1>5, <1>6, <1>7, <1>8, <1>9, <1>10, <1>11, <1>12, <1>13 DEF Sends

LEMMA WriteApart ==
    ASSUME Inv, ApartInv, NEW w \in Workers,
           \/ MarkProcessing(w)
           \/ MarkFailed(w)
           \/ \E a \in Aggs : ReconcileAgg(w, a) \/ ReportCommitted(w, a)
           \/ ReconcileChildren(w)
    PROVE  LinksNothing /\ HoldersKnow
  <1>1. work \in [Workers -> Task] /\ work[w] \in Task /\ work[w].aggs \in SUBSET Aggs
    BY DEF Inv, TypeOK, Task
  <1>2. CASE MarkProcessing(w)
    <2>1. LinksNothing
      BY <1>1, <1>2, StatusLinksNothing DEF MarkProcessing
    <2> QED  BY <1>1, <1>2, <2>1 DEF MarkProcessing, Goto, HoldersKnow, At, Task
  <1>3. CASE MarkFailed(w)
    <2>1. LinksNothing
      BY <1>1, <1>3, StatusLinksNothing DEF MarkFailed
    <2> QED  BY <1>1, <1>3, <2>1 DEF MarkFailed, HoldersKnow, At, Task
  <1>4. ASSUME NEW a \in Aggs, ReconcileAgg(w, a)
        PROVE  LinksNothing /\ HoldersKnow
    <2> DEFINE answer == work[w].answer[a]
    <2>1. CASE answer = "none"
      <3>1. UNCHANGED <<child, agg>>
        BY <1>4, <2>1 DEF ReconcileAgg
      <3>2. At(w, "answered") /\ work' = [work EXCEPT ![w].aggs = @ \ {a}]
        BY <1>4, <2>1 DEF ReconcileAgg
      <3>3. /\ work'[w].stage = "answered"
            /\ \A v \in Workers \ {w} : work'[v] = work[v]
        BY <1>1, <3>2 DEF At, Task
      <3>4. HoldersKnow
        BY <3>3, MoverKnows
      <3> QED  BY <3>1, <3>4, RowsLinkNothing
    <2>2. CASE answer # "none"
      <3>1. LinksNothing
        <4>1. UNCHANGED child /\ agg' = [agg EXCEPT ![a].status = Reconciled(answer)]
          BY <1>4, <2>2 DEF ReconcileAgg
        <4>2. PICK status : agg' = [agg EXCEPT ![a].status = status]
          BY <4>1
        <4>3. {a} \in SUBSET Aggs
          OBVIOUS
        <4>4. agg' = [x \in Aggs |-> IF x \in {a} THEN [agg[x] EXCEPT !.status = status] ELSE agg[x]]
          BY <4>2, OneWritten
        <4> QED  BY <4>1, <4>3, <4>4, StatusLinksNothing
      <3>2. Reconciled(answer) \in {"paid", "failed"}
        BY DEF Reconciled
      <3>3. agg[a].children \cap {c \in Children : Unlinked(c)} = {}
        BY DEF ApartInv, UnlinkedIsFree
      <3>4. work' = [work EXCEPT ![w].stage = "children",
                   ![w].kids = agg[a].children, ![w].aggs = @ \ {a},
                   ![w].status = Reconciled(answer)]
        BY <1>4, <2>2 DEF ReconcileAgg
      <3>5. /\ work'[w].kids = agg[a].children /\ work'[w].status = Reconciled(answer)
            /\ \A v \in Workers \ {w} : work'[v] = work[v]
            /\ work'[w].stage = "children"
        BY <1>1, <3>4 DEF Task
      <3>6. HoldersKnow
        BY <3>2, <3>3, <3>5 DEF HoldersKnow, At
      <3> QED  BY <3>1, <3>6
    <2> QED  BY <2>1, <2>2
  <1>5. ASSUME NEW a \in Aggs, ReportCommitted(w, a)
        PROVE  LinksNothing /\ HoldersKnow
    <2> DEFINE status == Reported(work[w].answer[a])
    <2>1. status \in {"paid", "failed", "processing"}
      BY DEF Reported
    <2>2. agg' = [agg EXCEPT ![a].status = status] /\ Finish(w)
      BY <1>5 DEF ReportCommitted
    <2>3. child' = [c \in Children |-> IF c \in agg[a].children /\ status # "processing"
                                       THEN [child[c] EXCEPT !.status = status] ELSE child[c]]
      BY <1>5 DEF ReportCommitted
    <2> HIDE DEF status
    <2>4. \A x \in Aggs : agg'[x].children = agg[x].children
      BY <2>2 DEF Inv, TypeOK, AggRow
    <2>5. \A c \in Children : c \in agg[a].children => ~ Unlinked(c)
      BY DEF ApartInv, UnlinkedIsFree
    <2>6. \A c \in Children :
            \/ child'[c] = child[c]
            \/ ~ Unlinked(c) /\ child'[c].status \in {"paid", "failed"}
      BY <2>1, <2>3, <2>5 DEF Inv, TypeOK, ChildRow
    <2>7. LinksNothing
      BY <2>4, <2>6 DEF LinksNothing, Unlinked
    <2> QED  BY <2>2, <2>7, FinisherKnows
  <1>6. CASE ReconcileChildren(w)
    <2>1. /\ work[w].kids \cap {c \in Children : Unlinked(c)} = {}
          /\ work[w].status \in {"paid", "failed"}
      BY <1>6 DEF ReconcileChildren, ApartInv, KidsHeld
    <2>2. \A c \in Children :
            \/ child'[c] = child[c]
            \/ ~ Unlinked(c) /\ child'[c].status \in {"paid", "failed"}
      BY <1>6, <2>1 DEF ReconcileChildren, Inv, TypeOK, ChildRow
    <2>3. LinksNothing
      BY <1>6, <2>2 DEF ReconcileChildren, LinksNothing, Unlinked
    <2> QED  BY <1>1, <1>6, <2>3 DEF ReconcileChildren, Goto, HoldersKnow, At, Task
  <1> QED  BY <1>2, <1>3, <1>4, <1>5, <1>6

LEMMA ApartInitially ==
    ASSUME Init
    PROVE  ApartInv
  BY IdleTyped DEF Init, ApartInv, KidsApart, UnlinkedIsFree, KidsHeld, At

LEMMA ApartKept ==
    ASSUME ConstantsTyped, OneCreator, Inv, Inv', ApartInv, [Next]_vars
    PROVE  ApartInv'
  <1>1. Creators \subseteq Workers /\ Processors \subseteq Workers /\ Callbacks \subseteq Workers
    BY DEF Workers
  <1>2. ASSUME LinksNothing, HoldersKnow
        PROVE  ApartInv'
    BY <1>2, LinksNothingKeeps DEF Inv
  <1>3. CASE UNCHANGED vars
    BY <1>3 DEF vars, ApartInv, KidsApart, UnlinkedIsFree, KidsHeld, Unlinked, At
  <1>4. ASSUME NEW w \in Creators, NEW b \in Batches, NEW kids \in SUBSET Children,
               GatherChildren(w, b, kids)
        PROVE  ApartInv'
    BY <1>2, <1>4, GatherKnows
  <1>5. ASSUME NEW w \in Creators, CreateSteps(w)
        PROVE  ApartInv'
    BY <1>1, <1>2, <1>5, CommitApart, LookApart DEF CreateSteps
  <1>6. ASSUME NEW w \in Processors,
               \/ \E b \in Batches, force \in BOOLEAN :
                     ClaimBatch(w, b, force) \/ RefuseClaim(w, b, force)
               \/ ProcessSteps(w)
        PROVE  ApartInv'
    BY <1>1, <1>2, <1>6, LookApart, WriteApart DEF ProcessSteps, Sends
  <1>7. ASSUME NEW w \in Callbacks, WebhookSteps(w) \/ \E a \in Aggs : ReceiveResult(w, a)
        PROVE  ApartInv'
    BY <1>1, <1>2, <1>7, LookApart, WriteApart DEF WebhookSteps
  <1>8. ASSUME NEW w \in Workers, Crash(w)
        PROVE  ApartInv'
    BY <1>2, <1>8, LookApart
  <1> QED  BY <1>2, <1>3, <1>4, <1>5, <1>6, <1>7, <1>8, OutsideApart DEF Next

\* Any number of batches, workers, webhooks, retries and crashes: as long as one request at a
\* time creates batches, no two transfers that were made cover a child.
THEOREM NoChildPaidTwice ==
    ASSUME ConstantsTyped, OneCreator
    PROVE  Spec => []PaidOutOnce
  <1>1. Init => Inv /\ ApartInv
    BY InvInitially, ApartInitially
  <1>2. Inv /\ ApartInv /\ [Next]_vars => Inv' /\ ApartInv'
    BY InvKept, ApartKept
  <1>3. Inv /\ ApartInv => PaidOutOnce
    BY DEF ApartInv, KidsApart, PaidOutOnce
  <1> QED  BY <1>1, <1>2, <1>3, PTL DEF Spec

----------------------------------------------------------------------------
(***************************************************************************)
(* Payouts implements PayoutContract, while one batch is created at a time *)
(* and no admin forces a claim: a step creates aggregates, asks for        *)
(* transfers, settles some when they are asked for again or later on, or   *)
(* leaves what an aggregate covers and what was asked for alone.           *)
(***************************************************************************)

\* An aggregate is there if and only if it has children, and the provider knows only what it was
\* asked for.
LinkInv ==
    \A a \in Aggs : /\ agg[a].status = "none" <=> agg[a].children = {}
                    /\ transfer[a] # "none" => asked[a] # 0

ContractInv == Inv /\ OnceInv /\ ApartInv /\ LinkInv

AggsStay ==
    \A a \in Aggs : /\ agg'[a].children = agg[a].children
                    /\ agg'[a].status = "none" <=> agg[a].status = "none"

Quiet == AggsStay /\ UNCHANGED <<transfer, asked>>

Creates == \E w \in Creators : CommitBatch(w)
Asks == \E w \in Processors : Sends(w) /\ At(w, "marked")
Settles == \/ \E w \in Processors : Sends(w) /\ At(w, "again")
           \/ \E a \in Aggs, outcome \in {"done", "refused"} : SettleTransfer(a, outcome)

\* A status is written to what is there.
LEMMA StatusQuiet ==
    ASSUME Inv, NEW w \in Workers,
           \/ MarkProcessing(w)
           \/ MarkFailed(w)
           \/ \E a \in Aggs : ReconcileAgg(w, a) \/ ReportCommitted(w, a)
    PROVE  Quiet
  <1>1. work[w].aggs \subseteq Aggs /\ \A a \in work[w].aggs : agg[a].status # "none"
    BY DEF Inv, TypeOK, TasksSound, Task, Sound
  <1>2. UNCHANGED <<transfer, asked>>
    BY DEF MarkProcessing, MarkFailed, ReconcileAgg, ReportCommitted
  <1>3. ASSUME NEW some \in SUBSET work[w].aggs, NEW status \in AggStatus \ {"none"},
               agg' = [a \in Aggs |-> IF a \in some THEN [agg[a] EXCEPT !.status = status]
                                      ELSE agg[a]]
        PROVE  Quiet
    <2>1. Steady
      BY <1>1, <1>2, <1>3, StatusWritten
    <2> QED  BY <1>2, <2>1 DEF Steady, Quiet, AggsStay
  <1>4. CASE MarkProcessing(w)
    <2>1. PICK status \in AggStatus \ {"none"} :
            agg' = [a \in Aggs |-> IF a \in work[w].aggs THEN [agg[a] EXCEPT !.status = status]
                                   ELSE agg[a]]
      BY <1>4 DEF MarkProcessing, AggStatus
    <2> QED  BY <1>3, <2>1
  <1>5. CASE MarkFailed(w)
    <2>1. PICK status \in AggStatus \ {"none"} :
            agg' = [a \in Aggs |-> IF a \in work[w].aggs THEN [agg[a] EXCEPT !.status = status]
                                   ELSE agg[a]]
      BY <1>5 DEF MarkFailed, AggStatus
    <2> QED  BY <1>3, <2>1
  <1>6. ASSUME NEW a \in Aggs, a \in work[w].aggs, NEW status \in {"paid", "failed", "processing"},
               agg' = [agg EXCEPT ![a].status = status]
        PROVE  Quiet
    <2>1. {a} \in SUBSET work[w].aggs /\ status \in AggStatus \ {"none"}
      BY <1>6 DEF AggStatus
    <2>2. agg' = [x \in Aggs |-> IF x \in {a} THEN [agg[x] EXCEPT !.status = status] ELSE agg[x]]
      BY <1>6, OneWritten
    <2> QED  BY <1>3, <2>1, <2>2
  <1>7. ASSUME NEW a \in Aggs, ReconcileAgg(w, a)
        PROVE  Quiet
    <2>1. CASE agg' = agg
      BY <1>2, <2>1 DEF Quiet, AggsStay
    <2>2. CASE agg' # agg
      <3>1. agg' = [agg EXCEPT ![a].status = Reconciled(work[w].answer[a])] /\ a \in work[w].aggs
        BY <1>7, <2>2 DEF ReconcileAgg
      <3>2. Reconciled(work[w].answer[a]) \in {"paid", "failed", "processing"}
        BY DEF Reconciled
      <3> QED  BY <1>6, <3>1, <3>2
    <2> QED  BY <2>1, <2>2
  <1>8. ASSUME NEW a \in Aggs, ReportCommitted(w, a)
        PROVE  Quiet
    <2>1. agg' = [agg EXCEPT ![a].status = Reported(work[w].answer[a])] /\ a \in work[w].aggs
      BY <1>8 DEF ReportCommitted
    <2>2. Reported(work[w].answer[a]) \in {"paid", "failed", "processing"}
      BY DEF Reported
    <2> QED  BY <1>6, <2>1, <2>2
  <1> QED  BY <1>4, <1>5, <1>7, <1>8

LEMMA StepsSorted ==
    ASSUME Inv, [Next]_vars
    PROVE  Creates \/ Asks \/ Settles \/ Quiet
  <1>1. UNCHANGED <<agg, transfer, asked>> => Quiet
    BY DEF Quiet, AggsStay
  <1>2. Creators \subseteq Workers /\ Processors \subseteq Workers /\ Callbacks \subseteq Workers
    BY DEF Workers
  <1>3. ASSUME NEW w \in Creators, CreateSteps(w)
        PROVE  Creates \/ Quiet
    BY <1>1, <1>3 DEF CreateSteps, Creates, EnqueueBatch
  <1>4. ASSUME NEW w \in Creators, NEW b \in Batches, NEW kids \in SUBSET Children,
               GatherChildren(w, b, kids)
        PROVE  Quiet
    BY <1>1, <1>4 DEF GatherChildren
  <1>5. ASSUME NEW w \in Processors, NEW b \in Batches, NEW force \in BOOLEAN,
               ClaimBatch(w, b, force) \/ RefuseClaim(w, b, force)
        PROVE  Quiet
    BY <1>1, <1>5 DEF ClaimBatch, RefuseClaim
  <1>6. ASSUME NEW w \in Processors, ProcessSteps(w)
        PROVE  Asks \/ Settles \/ Quiet
    <2>1. CASE InspectBatch(w) \/ InspectFails(w) \/ LoadAggs(w) \/ ReconcileChildren(w)
               \/ SummariseBatch(w) \/ SaveBatch(w)
      BY <1>1, <2>1 DEF InspectBatch, InspectFails, LoadAggs, ReconcileChildren, SummariseBatch,
                        SaveBatch
    <2>2. CASE Sends(w)
      BY <2>2, SendFacts DEF Asks, Settles, At
    <2>3. CASE MarkProcessing(w) \/ MarkFailed(w) \/ \E a \in Aggs : ReconcileAgg(w, a)
      BY <1>2, <2>3, StatusQuiet
    <2> QED  BY <1>6, <2>1, <2>2, <2>3 DEF ProcessSteps, Sends
  <1>7. ASSUME NEW w \in Callbacks, NEW a \in Aggs, ReceiveResult(w, a) \/ ReportAgg(w, a)
        PROVE  Quiet
    BY <1>1, <1>7 DEF ReceiveResult, ReportAgg
  <1>8. ASSUME NEW w \in Callbacks, NEW a \in Aggs, ReportCommitted(w, a)
        PROVE  Quiet
    BY <1>2, <1>8, StatusQuiet
  <1>9. ASSUME \/ \E c \in Children : InsertChild(c)
               \/ \E b \in Batches : RequestProcessing(b)
               \/ \E w \in Workers : Crash(w)
               \/ UNCHANGED vars
        PROVE  Quiet
    BY <1>1, <1>9 DEF InsertChild, RequestProcessing, Crash, vars
  <1> QED  BY <1>3, <1>4, <1>5, <1>6, <1>7, <1>8, <1>9 DEF Next, WebhookSteps, Settles

\* What an aggregate that is created covers was pending, and one that is there stays.
LEMMA CommitFacts ==
    ASSUME Inv, NEW w \in Creators, CommitBatch(w)
    PROVE  /\ \A a \in Aggs : agg[a].status # "none" => agg'[a] = agg[a]
           /\ \A a \in Aggs : \/ agg'[a] = agg[a]
                              \/ agg'[a].status = "batched" /\ agg'[a].children # {}
           /\ UNCHANGED <<transfer, asked>>
  <1>1. w \in Workers /\ At(w, "gathered")
    BY DEF Workers, CommitBatch
  <1>2. \A a \in Aggs : a[1] = work[w].batch => agg[a].status = "none"
    BY <1>1 DEF Inv, TasksSound, Sound, At
  <1>3. \A a \in Aggs : agg[a].status # "none" => agg'[a] = agg[a]
    BY <1>2 DEF CommitBatch
  <1>4. \A a \in Aggs : \/ agg'[a] = agg[a]
                        \/ agg'[a].status = "batched" /\ agg'[a].children # {}
    BY DEF CommitBatch
  <1> QED  BY <1>3, <1>4 DEF CommitBatch

\* What is asked for is there and has not been asked for.
LEMMA AskFacts ==
    ASSUME ContractInv, NEW w \in Processors, Sends(w), At(w, "marked")
    PROVE  /\ work[w].aggs \subseteq Aggs
           /\ \A a \in work[w].aggs : asked[a] = 0 /\ agg[a].children # {}
           /\ asked' = [a \in Aggs |-> IF a \in work[w].aggs THEN 1 ELSE asked[a]]
           /\ \A a \in Aggs \ work[w].aggs : transfer'[a] = transfer[a]
           /\ UNCHANGED <<child, agg>>
  <1>1. /\ w \in Workers /\ work[w].aggs \subseteq Aggs
        /\ \A a \in Aggs \ work[w].aggs : transfer'[a] = transfer[a]
        /\ UNCHANGED <<child, agg>>
    BY SendFacts DEF ContractInv
  <1>2. \A a \in work[w].aggs : asked[a] = 0
    BY <1>1 DEF ContractInv, OnceInv, MarkedOnce
  <1>3. \A a \in work[w].aggs : agg[a].status # "none"
    BY <1>1 DEF ContractInv, Inv, TasksSound, Sound
  <1>4. \A a \in work[w].aggs : agg[a].children # {}
    BY <1>1, <1>3 DEF ContractInv, LinkInv
  <1>5. /\ \A a \in Aggs : asked'[a] = (IF a \in work[w].aggs THEN asked[a] + 1 ELSE asked[a])
        /\ asked' \in [Aggs -> Nat]
    BY SendFacts DEF ContractInv
  <1>6. asked' = [a \in Aggs |-> IF a \in work[w].aggs THEN 1 ELSE asked[a]]
    BY <1>1, <1>2, <1>5
  <1> QED  BY <1>1, <1>2, <1>4, <1>6

\* What is asked for again was asked for, and its fate may be decided only now.
LEMMA SettleFacts ==
    ASSUME ContractInv, Settles
    PROVE  /\ UNCHANGED <<child, agg, asked>>
           /\ \A a \in Aggs : /\ transfer'[a] # transfer[a] => asked[a] # 0
                              /\ transfer[a] \in {"done", "refused"} => transfer'[a] = transfer[a]
  <1>1. ASSUME NEW w \in Processors, Sends(w), At(w, "again")
        PROVE  /\ UNCHANGED <<child, agg, asked>>
               /\ \A a \in Aggs : /\ transfer'[a] # transfer[a] => asked[a] # 0
                                  /\ transfer[a] \in {"done", "refused"} => transfer'[a] = transfer[a]
    <2>1. /\ w \in Workers /\ UNCHANGED <<child, agg>>
          /\ \A a \in Aggs : transfer[a] \in {"done", "refused"} => transfer'[a] = transfer[a]
          /\ \A a \in Aggs \ work[w].aggs : transfer'[a] = transfer[a]
          /\ \A a \in Aggs : asked'[a] = (IF a \in work[w].aggs /\ At(w, "marked")
                                         THEN asked[a] + 1 ELSE asked[a])
          /\ asked' \in [Aggs -> Nat] /\ asked \in [Aggs -> Nat]
      BY <1>1, SendFacts DEF ContractInv, Inv, TypeOK
    <2>2. asked' = asked
      <3>1. ~ At(w, "marked")
        BY <1>1 DEF At
      <3> QED  BY <2>1, <3>1
    <2>3. \A a \in work[w].aggs : asked[a] # 0
      BY <1>1, <2>1 DEF ContractInv, OnceInv, MarkedOnce
    <2> QED  BY <2>1, <2>2, <2>3
  <1>2. ASSUME NEW a \in Aggs, NEW outcome \in {"done", "refused"}, SettleTransfer(a, outcome)
        PROVE  /\ UNCHANGED <<child, agg, asked>>
               /\ \A x \in Aggs : /\ transfer'[x] # transfer[x] => asked[x] # 0
                                  /\ transfer[x] \in {"done", "refused"} => transfer'[x] = transfer[x]
    BY <1>2 DEF SettleTransfer, ContractInv, LinkInv, Inv, TypeOK
  <1> QED  BY <1>1, <1>2 DEF Settles

LEMMA LinkKept ==
    ASSUME ContractInv, [Next]_vars
    PROVE  LinkInv'
  <1>1. CASE Creates
    <2>1. PICK w \in Creators : CommitBatch(w)
      BY <1>1 DEF Creates
    <2> QED  BY <2>1, CommitFacts DEF ContractInv, LinkInv
  <1>2. CASE Asks
    <2>1. PICK w \in Processors : Sends(w) /\ At(w, "marked")
      BY <1>2 DEF Asks
    <2> QED  BY <2>1, AskFacts DEF ContractInv, LinkInv
  <1>3. CASE Settles
    BY <1>3, SettleFacts DEF ContractInv, LinkInv
  <1>4. CASE Quiet
    BY <1>4 DEF Quiet, AggsStay, ContractInv, LinkInv
  <1> QED  BY <1>1, <1>2, <1>3, <1>4, StepsSorted DEF ContractInv

\* The abstract state.
Covers == [a \in Aggs |-> agg[a].children]
Fates == [a \in Aggs |-> Fate(a)]
Recorded == {c \in Children : child[c].status = "paid"}

LEMMA CreateRefines ==
    ASSUME ContractInv, ContractInv', Creates
    PROVE  Contract!Bundle
  <1>1. PICK w \in Creators : CommitBatch(w)
    BY DEF Creates
  <1>2. Covers' \in [Aggs -> SUBSET Children]
    BY DEF Covers, ContractInv, Inv, TypeOK, AggRow
  <1>3. \A a \in Aggs : Covers[a] # {} => Covers'[a] = Covers[a]
    BY <1>1, CommitFacts DEF Covers, ContractInv, LinkInv
  <1>4. ASSUME NEW a \in Aggs, NEW x \in Aggs, a # x
        PROVE  Covers'[a] \cap Covers'[x] = {}
    BY <1>2, <1>4 DEF Covers, ContractInv, ApartInv, KidsApart
  <1>5. Fates' = Fates
    BY <1>1, CommitFacts DEF Fates, Fate, ContractInv
  <1>6. w \in Workers /\ At(w, "gathered")
    BY <1>1 DEF Workers, CommitBatch
  <1>7. \A c \in work[w].kids : child[c].status = "pending"
    BY <1>6 DEF ContractInv, ApartInv, KidsHeld
  <1>8. \A c \in Children : child'[c].status = "paid" <=> child[c].status = "paid"
    BY <1>1, <1>7 DEF CommitBatch
  <1>9. Recorded' = Recorded
    BY <1>8 DEF Recorded
  <1> QED
    BY <1>1, <1>2, <1>3, <1>4, <1>5, <1>9, CommitFacts
    DEF Contract!Bundle, Covers, Fates, Recorded, ContractInv

LEMMA AskRefines ==
    ASSUME ContractInv, ContractInv', Asks
    PROVE  \E some \in SUBSET Aggs : Contract!Ask(some)
  <1>1. PICK w \in Processors : Sends(w) /\ At(w, "marked")
    BY DEF Asks
  <1> DEFINE some == work[w].aggs
  <1>2. /\ some \subseteq Aggs
        /\ \A a \in some : asked[a] = 0 /\ Covers[a] # {}
        /\ asked' = [a \in Aggs |-> IF a \in some THEN 1 ELSE asked[a]]
        /\ Covers' = Covers /\ Recorded' = Recorded
    BY <1>1, AskFacts DEF Covers, Recorded
  <1>3. Fates' \in [Aggs -> {"none", "done", "refused"}]
    BY DEF Fates, Fate
  <1>4. \A a \in Aggs \ some : Fates'[a] = Fates[a]
    BY <1>1, AskFacts DEF Fates, Fate
  <1> HIDE DEF some
  <1>5. Contract!Ask(some)
    BY <1>2, <1>3, <1>4 DEF Contract!Ask, Covers, Fates, Recorded
  <1> QED  BY <1>2, <1>5

LEMMA SettleRefines ==
    ASSUME ContractInv, Settles
    PROVE  Contract!Settle
  <1>1. UNCHANGED <<Covers, asked, Recorded>>
    BY SettleFacts DEF Covers, Recorded
  <1>2. Fates' \in [Aggs -> {"none", "done", "refused"}]
    BY DEF Fates, Fate
  <1>3. \A a \in Aggs : asked[a] # 0 => asked[a] > 0
    BY DEF ContractInv, Inv, TypeOK
  <1>4. \A a \in Aggs : Fates'[a] # Fates[a] => asked[a] > 0 /\ Fates[a] = "none"
    BY <1>3, SettleFacts DEF Fates, Fate
  <1> QED  BY <1>1, <1>2, <1>4 DEF Contract!Settle, Covers, Fates, Recorded

\* Whatever such a step writes: what is on record afterwards was paid out.
LEMMA QuietRefines ==
    ASSUME ContractInv, ContractInv', Quiet
    PROVE  \E kids \in SUBSET Children : Contract!Record(kids)
  <1>1. Covers' = Covers /\ Fates' = Fates /\ asked' = asked
    BY DEF Quiet, AggsStay, Covers, Fates, Fate
  <1>2. ASSUME NEW c \in Recorded'
        PROVE  \E a \in Aggs : c \in Covers[a] /\ Fates[a] = "done"
    <2>1. PICK a \in Aggs : c \in agg'[a].children /\ transfer'[a] = "done"
      BY <1>2 DEF Recorded, ContractInv, Inv, ChildrenBacked, Covered
    <2>2. c \in Covers'[a] /\ Fates'[a] = "done"
      BY <2>1 DEF Covers, Fates, Fate
    <2> QED  BY <1>1, <2>2
  <1>3. PICK kids : kids = Recorded'
    OBVIOUS
  <1>4. kids \in SUBSET Children
    BY <1>3 DEF Recorded
  <1>5. \A c \in kids : Contract!PaidOut(c)
    BY <1>2, <1>3 DEF Contract!PaidOut, Covers, Fates
  <1>6. Contract!Record(kids)
    BY <1>1, <1>3, <1>5 DEF Contract!Record, Covers, Fates, Recorded
  <1> QED  BY <1>4, <1>6

\* The batches, their workers, claims, repeated requests and webhooks implement the contract: a
\* child is in one payout, one worker asks for a payout, and the record says paid only of what
\* was paid out.
THEOREM Refinement ==
    ASSUME ConstantsTyped, OneCreator, MayForce = FALSE
    PROVE  Spec => PaysByContract
  <1>1. Init => ContractInv
    <2>1. Init => LinkInv
      BY DEF Init, LinkInv
    <2> QED  BY <2>1, InvInitially, OnceInitially, ApartInitially DEF ContractInv
  <1>2. ContractInv /\ [Next]_vars => ContractInv'
    BY InvKept, OnceKept, ApartKept, LinkKept DEF ContractInv
  <1>3. Init => Contract!Init
    BY DEF Init, Contract!Init, Fate
  <1>4. ContractInv /\ ContractInv' /\ [Next]_vars => [Contract!Next]_(Contract!vars)
    BY StepsSorted, CreateRefines, AskRefines, SettleRefines, QuietRefines
    DEF ContractInv, Contract!Next
  <1> QED  BY <1>1, <1>2, <1>3, <1>4, PTL DEF Spec, PaysByContract, Contract!Spec

=============================================================================
