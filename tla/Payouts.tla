------------------------------ MODULE Payouts ------------------------------
(***************************************************************************)
(* Paying the restaurants what the platform owes them, in payment-service: *)
(* payout children are aggregated into one payout per restaurant and       *)
(* batch, a worker (or an admin's request) claims the batch and asks the   *)
(* provider for the transfers, and its answer or a webhook of the provider *)
(* says what became of each.                                               *)
(*                                                                         *)
(* An aggregate has no id of its own here: a batch holds at most one of a  *)
(* restaurant.  The provider (external) takes a reference, the aggregate's *)
(* id, once, however often a request that names it is repeated: a worker   *)
(* repeats one that fails or times out.  The queue starts a job that fails *)
(* again; that it does so only a few times is left out.                    *)
(***************************************************************************)
EXTENDS Naturals

CONSTANTS
    Children,      \* payout children that may come
    Restaurants,
    RestaurantOf,  \* RestaurantOf[c]: whom child c is owed to
    Batches,       \* ids of batches
    Creators,      \* requests to create a batch, in flight at once
    Processors,    \* queue workers and synchronous requests, in flight at once
    Callbacks,     \* transfer webhooks in flight at once
    Nothing,
    MayForce,      \* may an admin force a claim?
    MaxRequests,   \* bound on requests to process a batch
    MaxFaults      \* bound on crashes

Aggs == Batches \X Restaurants
Workers == Creators \cup Processors \cup Callbacks

VARIABLES
    child,     \* child[c]: the payout_children row
    agg,       \* agg[a]: the aggregated_payouts row
    batch,     \* batch[b]: the status of the payout_batches row
    jobs,      \* jobs[b]: process-batch jobs in the queue
    requests,  \* requests to process so far
    transfer,  \* transfer[a]: what the provider did with reference a
    asked,     \* asked[a]: how many processors asked for the transfer of a
    faults,
    work       \* work[w]: the handler w runs

vars == <<child, agg, batch, jobs, requests, transfer, asked, faults, work>>

----------------------------------------------------------------------------
(* Types *)

ChildRow == [status : {"none", "pending", "batched", "paid", "failed"},
             parent : Aggs \cup {Nothing}]

AggStatus == {"none", "batched", "processing", "paid", "failed"}

AggRow == [status : AggStatus, children : SUBSET Children]

BatchStatus == {"none", "created", "processing", "completed", "failed"}

Stage == {"idle", "gathered", "enqueue", "claimed", "loaded", "marked", "again", "refused", "settled",
          "answered", "agg", "children", "final", "save", "inspect", "found", "summed"}

\* queued: was the handler started by a job?  aggs: what it still has to deal with.
\* answer: what the provider said of them.  status: what it is about to write.
Task == [stage : Stage, queued : BOOLEAN, batch : Batches \cup {Nothing}, kids : SUBSET Children,
         aggs : SUBSET Aggs, answer : [Aggs -> {"none", "queued", "success", "failed"}],
         status : BatchStatus \cup {"paid"}]

TypeOK ==
    /\ child \in [Children -> ChildRow]
    /\ agg \in [Aggs -> AggRow]
    /\ batch \in [Batches -> BatchStatus]
    /\ jobs \in [Batches -> Nat]
    /\ requests \in 0 .. MaxRequests
    /\ transfer \in [Aggs -> {"none", "queued", "done", "refused"}]
    /\ asked \in [Aggs -> Nat]
    /\ faults \in 0 .. MaxFaults
    /\ work \in [Workers -> Task]

----------------------------------------------------------------------------
(* Operators *)

Silence == [a \in Aggs |-> "none"]

Idle == [stage |-> "idle", queued |-> FALSE, batch |-> Nothing, kids |-> {}, aggs |-> {},
         answer |-> Silence, status |-> "none"]

At(w, stage) == work[w].stage = stage
Goto(w, stage) == work' = [work EXCEPT ![w].stage = stage]
Finish(w) == work' = [work EXCEPT ![w] = Idle]

AggsOf(b) == {a \in Aggs : a[1] = b /\ agg[a].status # "none"}

\* A webhook's transaction holds the row it has updated until it commits.
Locked(a) == \E w \in Callbacks : At(w, "summed") /\ a \in work[w].aggs

Reconciled_AnyAnswer(answer) == IF answer = "failed" THEN "failed" ELSE "paid"

Reported_Raw(answer) == answer

\* What an answer makes of an aggregate: a worker takes whatever is not a success for a
\* failure, a webhook knows the difference.
Reconciled(answer) == IF answer = "success" THEN "paid" ELSE "failed"

Reported(answer) ==
    CASE answer = "success" -> "paid"
      [] answer = "failed"  -> "failed"
      [] OTHER              -> "processing"

\* The status of a batch whose aggregates have these.
Summary(statuses) ==
    IF statuses \subseteq {"paid"} THEN "completed"
    ELSE IF "failed" \in statuses THEN "failed" ELSE "processing"

StatusesOf(b) == {agg[a].status : a \in AggsOf(b)}

\* Who processes batch b.
Processing(w, b) ==
    work[w].batch = b
    /\ work[w].stage \in {"claimed", "loaded", "marked", "again", "refused", "settled", "answered",
                          "agg", "children", "final", "save"}

\* updated_at may be older than PAYOUT_PROCESSING_STALE_MINUTES, or not yet.  A live worker,
\* which waits for the provider three times ten seconds, does not take that long.
MayBeStale(b) == \A w \in Processors : ~ Processing(w, b)

Claimable_Always(b, force) == batch[b] # "none"

Claimable(b, force) ==
    /\ batch[b] # "none"
    /\ batch[b] # "processing" \/ force \/ MayBeStale(b)

\* What the provider may say of a transfer in this state.  It may leave it out.
AnswersTo(state) ==
    CASE state = "done"    -> {"success", "none"}
      [] state = "refused" -> {"failed", "none"}
      [] OTHER             -> {"queued", "none"}

----------------------------------------------------------------------------
Init ==
    /\ child = [c \in Children |-> [status |-> "none", parent |-> Nothing]]
    /\ agg = [a \in Aggs |-> [status |-> "none", children |-> {}]]
    /\ batch = [b \in Batches |-> "none"]
    /\ jobs = [b \in Batches |-> 0]
    /\ requests = 0
    /\ transfer = [a \in Aggs |-> "none"]
    /\ asked = [a \in Aggs |-> 0]
    /\ faults = 0
    /\ work = [w \in Workers |-> Idle]

\* The webhook of a payment inserts a child (module Payments).
InsertChild(c) ==
    /\ child[c].status = "none"
    /\ child' = [child EXCEPT ![c].status = "pending"]
    /\ UNCHANGED <<agg, batch, jobs, requests, transfer, asked, faults, work>>

----------------------------------------------------------------------------
(* createAggregatedBatch *)

GatherChildren_Unpaid(w, b, kids) ==
    /\ At(w, "idle")
    /\ batch[b] = "none"
    /\ \A v \in Creators : work[v].batch # b
    /\ \A c \in kids : child[c].status \in {"pending", "batched", "failed"}
    /\ work' = [work EXCEPT ![w] = [Idle EXCEPT !.stage = "gathered", !.batch = b,
                                                !.kids = kids]]
    /\ UNCHANGED <<child, agg, batch, jobs, requests, transfer, asked, faults>>

\* The query for pending children, of any age, restaurants and minimal total.
GatherChildren(w, b, kids) ==
    /\ At(w, "idle")
    /\ batch[b] = "none"
    /\ \A v \in Creators : work[v].batch # b
    /\ \A c \in kids : child[c].status = "pending"
    /\ work' = [work EXCEPT ![w] = [Idle EXCEPT !.stage = "gathered", !.batch = b,
                                                !.kids = kids]]
    /\ UNCHANGED <<child, agg, batch, jobs, requests, transfer, asked, faults>>

\* One aggregate for each restaurant, and its children linked to it, whatever has become
\* of them since they were read; all in one transaction.
CommitBatch(w) ==
    LET b == work[w].batch
        kids == work[w].kids
        KidsOf(r) == {c \in kids : RestaurantOf[c] = r} IN
    /\ At(w, "gathered")
    /\ batch' = [batch EXCEPT ![b] = "created"]
    /\ agg' = [a \in Aggs |-> IF a[1] = b /\ KidsOf(a[2]) # {}
                              THEN [status |-> "batched", children |-> KidsOf(a[2])]
                              ELSE agg[a]]
    /\ child' = [c \in Children |-> IF c \in kids
                                    THEN [status |-> "batched", parent |-> <<b, RestaurantOf[c]>>]
                                    ELSE child[c]]
    /\ Goto(w, "enqueue")
    /\ UNCHANGED <<jobs, requests, transfer, asked, faults>>

\* autoProcess, or not.
EnqueueBatch(w) ==
    LET b == work[w].batch IN
    /\ At(w, "enqueue")
    /\ jobs' \in {jobs, [jobs EXCEPT ![b] = @ + 1]}
    /\ Finish(w)
    /\ UNCHANGED <<child, agg, batch, requests, transfer, asked, faults>>

\* processBatch, which asks the queue.
RequestProcessing(b) ==
    /\ batch[b] # "none"
    /\ requests < MaxRequests
    /\ requests' = requests + 1
    /\ jobs' = [jobs EXCEPT ![b] = @ + 1]
    /\ UNCHANGED <<child, agg, batch, transfer, asked, faults, work>>

----------------------------------------------------------------------------
(* processAggregatedBatch *)

\* A job is taken from the queue, or an admin asks and waits for the answer.
Asked(w, b, force) ==
    /\ At(w, "idle")
    /\ \/ /\ jobs[b] > 0
          /\ ~ force
          /\ jobs' = [jobs EXCEPT ![b] = @ - 1]
          /\ requests' = requests
       \/ /\ requests < MaxRequests
          /\ batch[b] # "none"
          /\ force => MayForce
          /\ requests' = requests + 1
          /\ jobs' = jobs

\* One UPDATE with its condition.
ClaimBatch(w, b, force) ==
    /\ Asked(w, b, force)
    /\ Claimable(b, force)
    /\ batch' = [batch EXCEPT ![b] = "processing"]
    /\ work' = [work EXCEPT ![w] = [Idle EXCEPT !.stage = "claimed", !.batch = b,
                                                !.queued = jobs' # jobs]]
    /\ UNCHANGED <<child, agg, transfer, asked, faults>>

\* The batch is being processed, for all its updated_at says: a worker has it, or had it a
\* short while ago...
RefuseClaim(w, b, force) ==
    /\ Asked(w, b, force)
    /\ batch[b] = "processing" /\ ~ force
    /\ work' = [work EXCEPT ![w] = [Idle EXCEPT !.stage = "inspect", !.batch = b,
                                                !.queued = jobs' # jobs]]
    /\ UNCHANGED <<child, agg, batch, transfer, asked, faults>>

InspectBatch_NoOp(w) ==
    /\ At(w, "inspect")
    /\ Finish(w)
    /\ UNCHANGED <<child, agg, batch, jobs, requests, transfer, asked, faults>>

\* ... but if nothing is left to be done, its worker died before the end: it is finalized.
InspectBatch(w) ==
    LET b == work[w].batch IN
    /\ At(w, "inspect")
    /\ batch[b] = "processing"
    /\ IF StatusesOf(b) \cap {"processing", "batched"} = {}
       THEN work' = [work EXCEPT ![w].stage = "found",
                         ![w].status = IF "failed" \in StatusesOf(b) THEN "failed" ELSE "completed"]
       ELSE Finish(w)
    /\ UNCHANGED <<child, agg, batch, jobs, requests, transfer, asked, faults>>

\* It was saved between the refusal and this read: an error, after which the queue starts the
\* job again if it has attempts left.
InspectFails(w) ==
    LET b == work[w].batch IN
    /\ At(w, "inspect")
    /\ batch[b] # "processing"
    /\ \/ jobs' = jobs
       \/ work[w].queued /\ jobs' = [jobs EXCEPT ![b] = @ + 1]
    /\ Finish(w)
    /\ UNCHANGED <<child, agg, batch, requests, transfer, asked, faults>>

LoadAggs_Failed(w) ==
    LET b == work[w].batch
        found == {a \in AggsOf(b) : agg[a].status \in {"batched", "failed"}} IN
    /\ At(w, "claimed")
    /\ work' = [work EXCEPT ![w].stage = IF found = {} THEN "save" ELSE "loaded",
                            ![w].aggs = found, ![w].status = "completed"]
    /\ UNCHANGED <<child, agg, batch, jobs, requests, transfer, asked, faults>>

\* Only batched aggregates are processed.  Where there are none the batch is completed.
LoadAggs(w) ==
    LET b == work[w].batch
        found == {a \in AggsOf(b) : agg[a].status = "batched"} IN
    /\ At(w, "claimed")
    /\ work' = [work EXCEPT ![w].stage = IF found = {} THEN "save" ELSE "loaded",
                            ![w].aggs = found, ![w].status = "completed"]
    /\ UNCHANGED <<child, agg, batch, jobs, requests, transfer, asked, faults>>

MarkProcessing(w) ==
    /\ At(w, "loaded")
    /\ \A a \in work[w].aggs : ~ Locked(a)
    /\ agg' = [a \in Aggs |-> IF a \in work[w].aggs THEN [agg[a] EXCEPT !.status = "processing"]
                              ELSE agg[a]]
    /\ Goto(w, "marked")
    /\ UNCHANGED <<child, batch, jobs, requests, transfer, asked, faults>>

\* The first of w's attempts notes that w asks for them.
NoteAttempt(w) ==
    /\ work[w].stage \in {"marked", "again"}
    /\ asked' = [a \in Aggs |-> IF a \in work[w].aggs /\ At(w, "marked") THEN asked[a] + 1
                                ELSE asked[a]]

\* The provider may have taken the transfers of a request it has not answered.
TakenOrNot(aggs) ==
    \/ transfer' = transfer
    \/ transfer' = [a \in Aggs |-> IF a \in aggs /\ transfer[a] = "none" THEN "queued"
                                   ELSE transfer[a]]

\* The provider takes the transfers it has not got yet, does some of them or refuses them at
\* once, and answers; where its answer has no list, each is answered as queued.
BulkTransfer(w) ==
    LET aggs == work[w].aggs IN
    /\ NoteAttempt(w)
    /\ \E now \in [aggs -> {"queued", "done", "refused"}] :
          /\ \A a \in aggs : transfer[a] \in {"done", "refused"} => now[a] = transfer[a]
          /\ transfer' = [a \in Aggs |-> IF a \in aggs THEN now[a] ELSE transfer[a]]
          /\ \E said \in [aggs -> {"none", "queued", "success", "failed"}] :
                /\ \A a \in aggs : said[a] \in AnswersTo(now[a]) \cup {"queued"}
                /\ work' = [work EXCEPT ![w].stage = "answered",
                                ![w].answer = [a \in Aggs |-> IF a \in aggs THEN said[a] ELSE "none"]]
    /\ UNCHANGED <<child, agg, batch, jobs, requests, faults>>

\* An attempt fails, or times out, and the same references are sent again.  There are three
\* attempts: a second that fails and is followed by a third changes no more than the first.
AttemptFails(w) ==
    /\ NoteAttempt(w)
    /\ TakenOrNot(work[w].aggs)
    /\ Goto(w, "again")
    /\ UNCHANGED <<child, agg, batch, jobs, requests, faults>>

\* The last attempt fails too; the provider may have taken them all the same.
TransferFails(w) ==
    /\ At(w, "again")
    /\ TakenOrNot(work[w].aggs)
    /\ Goto(w, "refused")
    /\ UNCHANGED <<child, agg, batch, jobs, requests, asked, faults>>

\* Then the aggregates are failed, and the batch with them; the children stay batched.
MarkFailed(w) ==
    /\ At(w, "refused")
    /\ \A a \in work[w].aggs : ~ Locked(a)
    /\ agg' = [a \in Aggs |-> IF a \in work[w].aggs THEN [agg[a] EXCEPT !.status = "failed"]
                              ELSE agg[a]]
    /\ work' = [work EXCEPT ![w].stage = "save", ![w].status = "failed"]
    /\ UNCHANGED <<child, batch, jobs, requests, transfer, asked, faults>>

\* The answers, one after the other.  Where there is none, the aggregate stays as it is.
ReconcileAgg(w, a) ==
    LET answer == work[w].answer[a] IN
    /\ At(w, "answered")
    /\ a \in work[w].aggs
    /\ ~ Locked(a)
    /\ IF answer = "none"
       THEN agg' = agg /\ work' = [work EXCEPT ![w].aggs = @ \ {a}]
       ELSE /\ agg' = [agg EXCEPT ![a].status = Reconciled(answer)]
            /\ work' = [work EXCEPT ![w].stage = "children", ![w].kids = agg[a].children,
                                    ![w].aggs = @ \ {a}, ![w].status = Reconciled(answer)]
    /\ UNCHANGED <<child, batch, jobs, requests, transfer, asked, faults>>

\* A statement of its own: the children of the aggregate follow.
ReconcileChildren(w) ==
    /\ At(w, "children")
    /\ child' = [c \in Children |-> IF c \in work[w].kids
                                    THEN [child[c] EXCEPT !.status = work[w].status] ELSE child[c]]
    /\ Goto(w, "answered")
    /\ UNCHANGED <<agg, batch, jobs, requests, transfer, asked, faults>>

SummariseBatch(w) ==
    /\ At(w, "answered")
    /\ work[w].aggs = {}
    /\ work' = [work EXCEPT ![w].stage = "save", ![w].status = Summary(StatusesOf(work[w].batch))]
    /\ UNCHANGED <<child, agg, batch, jobs, requests, transfer, asked, faults>>

\* Every path ends with the batch saved.
SaveBatch(w) ==
    /\ work[w].stage \in {"save", "found"}
    /\ batch' = [batch EXCEPT ![work[w].batch] = work[w].status]
    /\ Finish(w)
    /\ UNCHANGED <<child, agg, jobs, requests, transfer, asked, faults>>

----------------------------------------------------------------------------
(* handleChapaWebhook, transfers *)

\* The result of one transfer, as it is or as it was when it was only queued; it is found
\* by its reference.  One that is paid already is skipped.
ReceiveResult(w, a) ==
    /\ At(w, "idle")
    /\ transfer[a] # "none"
    /\ \E answer \in (AnswersTo(transfer[a]) \ {"none"}) \cup {"queued"} :
          /\ ~ (agg[a].status = "paid" /\ answer = "success")
          /\ work' = [work EXCEPT ![w] = [Idle EXCEPT !.stage = "agg", !.batch = a[1],
                                             !.aggs = {a}, !.answer[a] = answer]]
    /\ UNCHANGED <<child, agg, batch, jobs, requests, transfer, asked, faults>>

\* The aggregate is updated, its row stays locked, and the batch is summarised from what
\* this transaction sees: its own update, and what others have committed.
ReportAgg(w, a) ==
    LET status == Reported(work[w].answer[a])
        others == {agg[x].status : x \in AggsOf(a[1]) \ {a}} IN
    /\ At(w, "agg")
    /\ a \in work[w].aggs
    /\ ~ Locked(a)
    /\ work' = [work EXCEPT ![w].stage = "summed", ![w].status = Summary(others \cup {status})]
    /\ UNCHANGED <<child, agg, batch, jobs, requests, transfer, asked, faults>>

ReportCommitted(w, a) ==
    LET status == Reported(work[w].answer[a]) IN
    /\ At(w, "summed")
    /\ a \in work[w].aggs
    /\ agg' = [agg EXCEPT ![a].status = status]
    /\ child' = [c \in Children |-> IF c \in agg[a].children /\ status # "processing"
                                    THEN [child[c] EXCEPT !.status = status] ELSE child[c]]
    /\ batch' = [batch EXCEPT ![a[1]] = work[w].status]
    /\ Finish(w)
    /\ UNCHANGED <<jobs, requests, transfer, asked, faults>>

----------------------------------------------------------------------------
(* The provider, and faults *)

SettleTransfer(a, outcome) ==
    /\ transfer[a] = "queued"
    /\ transfer' = [transfer EXCEPT ![a] = outcome]
    /\ UNCHANGED <<child, agg, batch, jobs, requests, asked, faults, work>>

\* A crash, or a statement that fails.  The queue starts a job again.
Crash(w) ==
    /\ ~ At(w, "idle")
    /\ faults < MaxFaults
    /\ faults' = faults + 1
    /\ jobs' = IF work[w].queued THEN [jobs EXCEPT ![work[w].batch] = @ + 1] ELSE jobs
    /\ Finish(w)
    /\ UNCHANGED <<child, agg, batch, requests, transfer, asked>>

----------------------------------------------------------------------------
(* Specification *)

CreateSteps(w) == CommitBatch(w) \/ EnqueueBatch(w)

ProcessSteps(w) ==
    \/ InspectBatch(w)
    \/ InspectFails(w)
    \/ LoadAggs(w)
    \/ MarkProcessing(w)
    \/ BulkTransfer(w)
    \/ AttemptFails(w)
    \/ TransferFails(w)
    \/ MarkFailed(w)
    \/ \E a \in Aggs : ReconcileAgg(w, a)
    \/ ReconcileChildren(w)
    \/ SummariseBatch(w)
    \/ SaveBatch(w)

WebhookSteps(w) == \E a \in Aggs : ReportAgg(w, a) \/ ReportCommitted(w, a)

TakeJob(w, b) ==
    /\ jobs[b] > 0
    /\ ClaimBatch(w, b, FALSE) \/ RefuseClaim(w, b, FALSE)
    /\ jobs'[b] < jobs[b]

Next ==
    \/ \E c \in Children : InsertChild(c)
    \/ \E w \in Creators, b \in Batches, kids \in SUBSET Children : GatherChildren(w, b, kids)
    \/ \E w \in Creators : CreateSteps(w)
    \/ \E b \in Batches : RequestProcessing(b)
    \/ \E w \in Processors, b \in Batches, force \in BOOLEAN :
          ClaimBatch(w, b, force) \/ RefuseClaim(w, b, force)
    \/ \E w \in Processors : ProcessSteps(w)
    \/ \E w \in Callbacks, a \in Aggs : ReceiveResult(w, a)
    \/ \E w \in Callbacks : WebhookSteps(w)
    \/ \E a \in Aggs, outcome \in {"done", "refused"} : SettleTransfer(a, outcome)
    \/ \E w \in Workers : Crash(w)

Spec == Init /\ [][Next]_vars

\* Workers run on, and take the jobs of the queue.
Fairness ==
    /\ \A w \in Processors : WF_vars(ProcessSteps(w))
    /\ \A w \in Callbacks : WF_vars(WebhookSteps(w))
    /\ \A b \in Batches : WF_vars(\E w \in Processors : TakeJob(w, b))

FairSpec == Spec /\ Fairness

----------------------------------------------------------------------------
(* The contract *)

\* What a restaurant sees of a transfer.
Fate(a) == IF transfer[a] \in {"done", "refused"} THEN transfer[a] ELSE "none"

Contract == INSTANCE PayoutContract
    WITH Payouts  <- Aggs,
         covers   <- [a \in Aggs |-> agg[a].children],
         fate     <- [a \in Aggs |-> Fate(a)],
         recorded <- {c \in Children : child[c].status = "paid"}

----------------------------------------------------------------------------
(* Properties *)

\* "atomic claim using RETURNING to avoid race conditions": however many jobs, retries and
\* requests there are for a batch, and wherever a worker dies, one worker at most ever sends an
\* aggregate to the provider; its own attempts repeat the reference, which the provider takes
\* once.  An admin's force can bring in another worker.
SentByOneWorker == \A a \in Aggs : asked[a] <= 1

\* An aggregate, and a child, is marked paid only if the provider made a transfer that
\* covers it, whichever of the answer, a stale answer or a webhook said so first.
PaidMeansTransferred ==
    /\ \A a \in Aggs : agg[a].status = "paid" => transfer[a] = "done"
    /\ \A c \in Children : child[c].status = "paid" =>
           \E a \in Aggs : c \in agg[a].children /\ transfer[a] = "done"

\* No child is paid out by two transfers, while one batch is created at a time: a child
\* that is batched never becomes pending again.
PaidOutOnce ==
    \A c \in Children : \A a1, a2 \in Aggs :
        /\ c \in agg[a1].children /\ transfer[a1] = "done"
        /\ c \in agg[a2].children /\ transfer[a2] = "done"
        => a1 = a2

\* Whatever overlaps, is claimed again, answered late or cut short: the children are paid as the
\* contract says, from the batch that links them to the record.
PaysByContract == Contract!Spec

\* "finalize the batch now instead of returning a no-op": a batch a dead worker left as
\* processing with nothing left to do does not stay so when it is asked for again,
\* unless the provider reports meanwhile that a transfer is still to be done.
AskingAgainSettles ==
    \A b \in Batches :
        LET active == StatusesOf(b) \cap {"processing", "batched"} # {} IN
        jobs[b] > 0 /\ batch[b] = "processing" /\ ~ active ~> batch[b] # "processing" \/ active

\* "final attempt failed [...] so caller can mark batch failed and allow retries": a batch that
\* is retried and completed has no failed aggregate left.  The retry finds none batched, tries
\* none of them and completes the batch.
NoneFailedOnceCompleted ==
    \A b \in Batches : batch[b] = "completed" => "failed" \notin StatusesOf(b)

=============================================================================
